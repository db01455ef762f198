------------------------------ MODULE MCRtpPath -------------------------------
(* Fragments of two bytes, a queue of two packets, a timestamp of four bits *)
(* and three ticks in a millisecond.                                        *)
EXTENDS RtpPath

MCFrameKinds ==
  {[size |-> 1, dts |-> 0], [size |-> 4, dts |-> 2], [size |-> 3, dts |-> 4],
   [size |-> 2, dts |-> 6]}

MCClock == {11}
=============================================================================
