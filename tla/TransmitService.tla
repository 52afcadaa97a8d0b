-------------------------- MODULE TransmitService --------------------------
(***************************************************************************)
(* What the transmit interface promises the application (README.md,        *)
(* "Transmit interface"): a message is queued on a free interface, is      *)
(* transmitted at most MaxTries times, and the interface becomes free      *)
(* again, either "idle" because one of the transmissions was acknowledged  *)
(* or "failed" because all of them went wrong.  cec_halt() switches the    *)
(* interface off, from wherever it is, and cec_init() on again.            *)
(***************************************************************************)
EXTENDS Naturals

CONSTANT MaxTries   \* at least 1: CEC_XMIT_MAX_RETRANSMIT

VARIABLES
  status,   \* "idle", "failed", "pend", "again", "busy" or "off"
  tries     \* transmissions of the current message begun so far

Init == status = "idle" /\ tries = 0

(* The application, or the address assignment, owns a free interface.      *)
Queue ==
  /\ status \in {"idle", "failed"}
  /\ status' = "pend"
  /\ tries' = 0

Begin ==
  /\ status \in {"pend", "again"}
  /\ status' = "busy"
  /\ tries' = tries + 1

Succeed ==
  /\ status = "busy"
  /\ status' = "idle"
  /\ tries' = 0

Retry ==
  /\ status = "busy"
  /\ tries < MaxTries
  /\ status' = "again"
  /\ UNCHANGED tries

Fail ==
  /\ status = "busy"
  /\ tries = MaxTries
  /\ status' = "failed"
  /\ tries' = 0

(* cec_halt() discards whatever was queued.                                *)
Halt ==
  /\ status # "off"
  /\ status' = "off"
  /\ tries' = 0

Restart ==
  /\ status = "off"
  /\ status' = "idle"
  /\ UNCHANGED tries

Next == Queue \/ Begin \/ Succeed \/ Retry \/ Fail \/ Halt \/ Restart

Spec == Init /\ [][Next]_<<status, tries>>
=============================================================================
