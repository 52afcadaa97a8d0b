----------------------------- MODULE MCTransmit -----------------------------
(***************************************************************************)
(* A small instance for the transmit side and the address search: a device *)
(* type with two candidate addresses of two bits, buffers of two bytes,    *)
(* two transmissions per message.  The search sends pings; the application *)
(* sends a two-byte broadcast whenever the transmit interface is free, as  *)
(* in the example of README.md, and never asks whether it has an address.  *)
(* The bus carries one byte value, which agrees with some of the bits that *)
(* are sent and disagrees with others.                                     *)
(***************************************************************************)
EXTENDS CecEngine

MCAddress1 == <<FALSE, TRUE>>
MCAddress2 == <<TRUE, FALSE>>
MCAddressTV == <<FALSE, FALSE>>

MCDevAddrs == << MAKE_ADDRESS(MCAddress1, MCAddress1), MAKE_ADDRESS(MCAddress2, MCAddress2) >>

MCMessages ==
  { [source |-> MCAddressTV, target |-> CEC_ADDR_BROADCAST,
     body |-> << MAKE_ADDRESS(MCAddressTV, MCAddress1) >>] }

MCWireBytes == { MAKE_ADDRESS(MCAddress1, MCAddress2) }

MCNoAddresses == {}
=============================================================================
