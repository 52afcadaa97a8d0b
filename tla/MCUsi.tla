------------------------------- MODULE MCUsi -------------------------------
EXTENDS CecUsi

MCAddress0 == <<FALSE>>
MCAddress1 == <<TRUE>>

MCLongMessages ==
  { [source |-> MCAddress0, target |-> MCAddress0, body |-> << <<TRUE, FALSE>> >>] }

MCClocks == {200, 400, 1200, 1280, 1600, 1650, 2000}

MCNone == {}

(* Two address bits: we are 0, and send to 2, and 1 sends to us.           *)
MCWide0 == <<FALSE, FALSE>>
MCWide1 == <<FALSE, TRUE>>
MCWide2 == <<TRUE, FALSE>>
MCToOthers ==
  { [source |-> MCWide0, target |-> MCWide2, body |-> << MCWide1 \o MCWide2 >>] }
MCToUs == { << MCWide1 \o MCWide0 >> }
MCZeroPulse == {[low |-> 5, len |-> 8]}
MCOnePulse == {[low |-> 2, len |-> 8]}

MCAckPulses == {[low |-> 5, len |-> 5], [low |-> 2, len |-> 2]}

MCBytes == Byte
MCNoDevices == << >>

MCOthersMessages ==
  { << <<TRUE, FALSE>>, <<TRUE, FALSE>> >>, << <<FALSE, TRUE>>, <<TRUE, FALSE>> >> }
MCGlitches == {[low |-> 1, len |-> 1]}
MCGiveUp == {6}
MCStartPulses == {[low |-> 12, len |-> 15]}
MCZeroPulses == {[low |-> l, len |-> n] : l \in {4, 6}, n \in {7, 9}}
MCOnePulses == {[low |-> l, len |-> n] : l \in {2, 3}, n \in {7, 9}}
=============================================================================
