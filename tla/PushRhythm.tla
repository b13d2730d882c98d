----------------------------- MODULE PushRhythm -----------------------------
(***************************************************************************)
(* What a push session promises its caller (mediaspine, rhythm.rs: Sent    *)
(* and Received; mediadecode, decoder.rs: the stream decoder traits):      *)
(* packets go in over time, frames come out over time, and of every packet *)
(* accepted at most one frame comes out, of this stream and no other.      *)
(*                                                                         *)
(* A call is one step here, the one in which it answers.  What happens     *)
(* inside the session between two answers is hidden, except for a fault    *)
(* and for packets that turn out to decode to nothing, at any time.        *)
(***************************************************************************)
CONSTANT Packets

VARIABLES
  fed,      \* packets accepted and neither delivered nor found empty
  over,     \* send_eof has been accepted
  fault,    \* the session answers every call with Err until flush
  answer    \* what the last call answered

rhythmVars == <<fed, over, fault, answer>>

RhythmInit ==
  /\ fed = {}
  /\ over = FALSE
  /\ fault = FALSE
  /\ answer = "none"

\* Any of them may decode to nothing.
AtMost(packets) == fed' \in SUBSET packets

\* Sent::Accepted
Accept(p) ==
  /\ ~fault /\ ~over
  /\ AtMost(fed \cup {p})
  /\ answer' = "accepted"
  /\ UNCHANGED <<over, fault>>

\* Sent::MustDrain leaves no trace.
AskToDrain ==
  /\ ~fault /\ ~over
  /\ answer' = "mustDrain"
  /\ UNCHANGED <<fed, over, fault>>

\* Received::Produced
Produce(p) ==
  /\ ~fault
  /\ p \in fed
  /\ AtMost(fed \ {p})
  /\ answer' = "produced"
  /\ UNCHANGED <<over, fault>>

\* Received::NeedsInput, never after the end of the stream.
AskForInput ==
  /\ ~fault /\ ~over
  /\ answer' = "needsInput"
  /\ UNCHANGED <<fed, over, fault>>

\* Received::Ended, only when every buffered output has been delivered.
AnswerEnded ==
  /\ ~fault /\ over
  /\ fed = {}
  /\ answer' = "ended"
  /\ UNCHANGED <<fed, over, fault>>

\* Packets the codec makes no frame of.
DecodeToNothing == AtMost(fed) /\ UNCHANGED <<over, fault, answer>>

\* send_eof accepted, once or again.  A fault that struck while it waited is
\* the next call's to report.
EndStream ==
  /\ over' = TRUE
  /\ answer' = "accepted"
  /\ UNCHANGED <<fed, fault>>

\* A call without effect: refused after the end or after a fault, or cancelled
\* while it waited; or one that failed on some packets alone.
AnswerOnly ==
  /\ \/ answer' = "closed" /\ fault /\ UNCHANGED fed
     \/ answer' = "afterEof" /\ over /\ ~fault /\ UNCHANGED fed
     \/ answer' = "cancelled" /\ UNCHANGED fed
     \/ answer' = "failed" /\ AtMost(fed)
  /\ UNCHANGED <<over, fault>>

\* A fault takes everything fed with it, in a call or between two.
Fault ==
  /\ fed' = {}
  /\ fault' = TRUE
  /\ answer' \in {answer, "closed", "failed", "cancelled"}
  /\ UNCHANGED over

\* flush starts over, or leaves a faulted session behind.
Restart ==
  /\ fed' = {}
  /\ over' = FALSE
  /\ \/ fault' = FALSE /\ answer' = "none"
     \/ fault' = TRUE /\ answer' = "failed"

\* Drop: what was fed is gone and no call is left to make.
Forget ==
  /\ fed' = {}
  /\ UNCHANGED <<over, fault, answer>>

RhythmNext ==
  \/ \E p \in Packets :
       Accept(p) \/ Produce(p)
  \/ DecodeToNothing \/ AskToDrain \/ AskForInput \/ AnswerEnded
  \/ EndStream \/ AnswerOnly \/ Fault \/ Restart \/ Forget

RhythmSpec == RhythmInit /\ [][RhythmNext]_rhythmVars
=============================================================================
