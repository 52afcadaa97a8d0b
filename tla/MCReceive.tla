----------------------------- MODULE MCReceive -----------------------------
(***************************************************************************)
(* A small instance for the receive side: a broadcast and a directed       *)
(* header byte are seen on the bus, in messages longer than the buffer of  *)
(* two bytes and longer than the header's length bits can hold, while the  *)
(* application sets addresses, reads messages late or not at all, halts    *)
(* and restarts.                                                           *)
(***************************************************************************)
EXTENDS CecEngine

MCAddress0 == <<FALSE>>

MCMessages == {}

MCWireBytes == { <<FALSE, TRUE>>, <<TRUE, FALSE>> }

MCAddressSets == {{}, {MCAddress0}}

MCNoDevices == << >>
=============================================================================
