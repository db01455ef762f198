------------------------------ MODULE PacketFifo ------------------------------
(***************************************************************************)
(* What the Packager may expect of the component it hands RTP packets to:  *)
(* a bounded first-in first-out channel.  A packet offered to it is either *)
(* accepted or lost on the spot; the accepted ones leave in the order they *)
(* came; once the channel is told to close, at most one more packet leaves *)
(* it.  While the channel stays open, whatever was accepted leaves.        *)
(***************************************************************************)
EXTENDS Naturals, Sequences

CONSTANTS Packets,   \* the packets that can be offered
          Capacity   \* how many accepted packets may be waiting

VARIABLES accepted,  \* every packet accepted so far, in order
          delivered, \* every packet that left, in order
          open,      \* FALSE once the channel was told to close
          last       \* Len(delivered) when it was told to close

vars == <<accepted, delivered, open, last>>

Init ==
  /\ accepted = <<>>
  /\ delivered = <<>>
  /\ open = TRUE
  /\ last = 0

Accept(p) ==
  /\ open
  /\ Len(accepted) - Len(delivered) < Capacity
  /\ accepted' = Append(accepted, p)
  /\ UNCHANGED <<delivered, open, last>>

Deliver ==
  /\ Len(delivered) < Len(accepted)
  /\ open \/ Len(delivered) = last
  /\ delivered' = Append(delivered, accepted[Len(delivered) + 1])
  /\ UNCHANGED <<accepted, open, last>>

Close ==
  /\ open
  /\ open' = FALSE
  /\ last' = Len(delivered)
  /\ UNCHANGED <<accepted, delivered>>

Next ==
  \/ \E p \in Packets : Accept(p)
  \/ Deliver
  \/ Close

Spec == Init /\ [][Next]_vars /\ WF_vars(open /\ Deliver)
=============================================================================
