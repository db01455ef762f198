----------------------------- MODULE FrameChannel -----------------------------
(***************************************************************************)
(* What the RTP path promises to whoever sends video frames over it: as    *)
(* long as it is intact, the frames come out as they went in, none missing *)
(* and none twice.  It may break at any time, and then promises nothing    *)
(* but that the frames sent stay sent.                                     *)
(***************************************************************************)
EXTENDS Naturals, Sequences, SequencesExt

VARIABLES in, out, intact

chan == <<in, out, intact>>

Init == in = <<>> /\ out = <<>> /\ intact = TRUE

Put ==
  /\ Len(in') = Len(in) + 1 /\ IsPrefix(in, in')
  /\ UNCHANGED <<out, intact>>

Get ==
  /\ intact
  /\ Len(out) < Len(in)
  /\ out' = Append(out, in[Len(out) + 1])
  /\ UNCHANGED <<in, intact>>

Break == intact /\ ~intact' /\ UNCHANGED <<in, out>>

Broken == ~intact /\ ~intact' /\ IsPrefix(in, in')

Next == Put \/ Get \/ Break \/ Broken

Spec == Init /\ [][Next]_chan
=============================================================================
