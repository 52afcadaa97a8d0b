------------------------------- MODULE MCPwm -------------------------------
(***************************************************************************)
(* A small instance of the PWM build: one-bit addresses, one ping, and     *)
(* periods of some 300 us a tick, in the proportions of cec_spec.h.        *)
(***************************************************************************)
EXTENDS CecPwm

MCAddress0 == <<FALSE>>
MCAddress1 == <<TRUE>>

MCMessages ==
  { [source |-> MCAddress0, target |-> MCAddress0, body |-> << >>] }

MCNoMessages == {}

MCNoPulses == {}

(* An ack, and one let go too early to be sampled.                         *)
MCAckPulses == {[low |-> 4, high |-> 0], [low |-> 1, high |-> 0]}

(* A start frame, a one, a zero.  The line is high for one tick more, at   *)
(* least, before the next pulse.                                           *)
MCBitPulses ==
  {[low |-> 5, high |-> 2], [low |-> 1, high |-> 4], [low |-> 4, high |-> 1]}

MCGlitchPulses == {[low |-> 1, high |-> 0]}

(* Start frames, ones, glitches, and a pulse that ends before it would be   *)
(* sampled as a zero: only one that follows too early is sampled so.       *)
MCFramePulses ==
  {[low |-> 5, high |-> 2], [low |-> 1, high |-> 4], [low |-> 3, high |-> 2],
   [low |-> 1, high |-> 0]}

MCOneAckPulse == {[low |-> 4, high |-> 0]}

MCNoDevices == << >>
=============================================================================
