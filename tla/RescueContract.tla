--------------------------- MODULE RescueContract ---------------------------
(***************************************************************************)
(* What VideoDecoder promises about the packets it takes (the "rescue      *)
(* contract" of open_probing and the "atomic probe rescue" of              *)
(* send_av_packet): either one backend decodes them, or, before any frame  *)
(* was handed over, the caller gets every one of them back to decode them  *)
(* in software.  Which backends are tried, and how, is not visible here.   *)
(***************************************************************************)
EXTENDS Naturals, Sequences

VARIABLES
  taken,     \* packets accepted since the open or the last flush
  shown,     \* frames handed over since then
  outcome,   \* "trial", "committed" or "returned"
  by,        \* the backend that decodes, once committed
  returned   \* packets given back

rescueVars == <<taken, shown, outcome, by, returned>>

Init ==
  /\ taken = <<>>
  /\ shown = <<>>
  /\ outcome = "trial"
  /\ by = "none"
  /\ returned = <<>>

Extends(longer, s) == Len(longer) = Len(s) + 1 /\ SubSeq(longer, 1, Len(s)) = s

Take ==
  /\ outcome # "returned"
  /\ Extends(taken', taken)
  /\ UNCHANGED <<shown, outcome, by, returned>>

\* Frames come from one backend, for packets that were taken, in order.
InOrder(frames) == \A i, j \in DOMAIN frames : i < j => frames[i].of < frames[j].of
Taken(p) == \E i \in DOMAIN taken : taken[i] = p

Show ==
  /\ outcome # "returned"
  /\ outcome' = "committed"
  /\ outcome = "committed" => by' = by
  /\ Extends(shown', shown)
  /\ InOrder(shown')
  /\ Taken(shown'[Len(shown')].of)
  /\ shown'[Len(shown')].by = by'
  /\ UNCHANGED <<taken, returned>>

Return ==
  /\ outcome = "trial"
  /\ outcome' = "returned"
  /\ returned' = taken
  /\ UNCHANGED <<taken, shown, by>>

Seek ==
  /\ outcome # "returned"
  /\ taken' = <<>>
  /\ shown' = <<>>
  /\ UNCHANGED <<outcome, by, returned>>

Next == Take \/ Show \/ Return \/ Seek

Spec == Init /\ [][Next]_rescueVars
=============================================================================
