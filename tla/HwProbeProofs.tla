--------------------------- MODULE HwProbeProofs ---------------------------
(***************************************************************************)
(* Proofs about the hardware probe: whatever the backends do, the one      *)
(* installed has been fed exactly the packets the session accepted, when   *)
(* none is left the caller gets exactly those packets back, the frames and *)
(* answers are those of one backend, and every step is one of the rescue   *)
(* contract.                                                               *)
(***************************************************************************)
EXTENDS HwProbe, LibavDecoderProofs

-----------------------------------------------------------------------------
(* What the probe does with a decoder's answer.                             *)

LEMMA CollectedInput ==
  ASSUME NEW d \in Decoder
  PROVE  SameInput(Collected(d), d)
BY DEF Collected, SameInput, Decoder

LEMMA FrameOfPicture ==
  ASSUME NEW d \in Decoder, HasPicture(d)
  PROVE  FrameOf(d) \in Frame
BY YieldedInput DEF FrameOf, Frame, Decoder

LEMMA ErrorInput ==
  ASSUME dec \in Decoder, NEW e \in Errors
  PROVE  e.errno \in Errnos /\ SameInput(e.after, dec)
<1>1. CASE e \in SendErrors(dec)
  BY <1>1, SendErrorInput
<1>2. CASE e \in ReceiveErrors(dec)
  BY <1>2, ReceiveErrorInput
<1>3. CASE \E x \in Latched(PictureLost(dec)) :
             HasPicture(dec) /\ e = [errno |-> "fail", after |-> x]
  BY <1>3, LostPictureInput DEF Errnos
<1> QED
  BY <1>1, <1>2, <1>3 DEF Errors

LEMMA ReplayErrorInput ==
  ASSUME cand \in Decoder, NEW x \in ReplayErrors
  PROVE  x \in Decoder
<1>1. CASE x = cand
  BY <1>1
<1>2. CASE \E e \in SendErrors(cand) : x = e.after
  BY <1>2, SendErrorInput DEF SameInput
<1>3. CASE \E e \in ReceiveErrors(cand) : x = e.after
  BY <1>3, ReceiveErrorInput DEF SameInput
<1>4. x = cand \/ (\E e \in SendErrors(cand) : x = e.after)
               \/ (\E e \in ReceiveErrors(cand) : x = e.after)
  BY Zenon DEF ReplayErrors
<1> QED
  BY <1>1, <1>2, <1>3, <1>4

LEMMA Verdicts ==
  ASSUME NEW d \in Decoder, NEW error
  PROVE  HwExit(d, error) \in Refusals \cup {error}
BY DEF HwExit, Decoder

-----------------------------------------------------------------------------
(***************************************************************************)
(* The inductive invariant.                                                *)
(***************************************************************************)

\* A replay has a candidate to install, and has fed it a prefix of the history;
\* it is told the end only after all of it.
ReplayInv ==
  stage \in {"replay", "drain"} =>
    /\ remaining # <<>>
    /\ replayed <= Len(accepted)
    /\ cand.fed = SubSeq(accepted, 1, replayed)
    /\ cand.ended => eofSent /\ replayed = Len(accepted)

\* A packet is on offer during send_av_packet.
OfferInv == nextPacket >= 1 /\ (call = "packet" => nextPacket <= MaxPackets)

\* The probe is there while it advances, and a frame ends it.
TrialInv ==
  /\ Advancing => probing
  /\ proven => ~probing

FedInv ==
  /\ dec.fed = accepted /\ dec.ended = eofSent
  /\ probing => buffered = accepted

ProbeInv ==
  TypeOK /\ ReplayInv /\ OfferInv /\ TrialInv /\ FedInv /\ HandsBackEverything

LEMMA EmptyHistory == <<>> \in Seq(Nat) /\ <<>> \in Seq(Frame)
                       /\ <<>> \in Seq(Attempt) /\ <<>> \in Seq(Backends)
BY EmptySeq

LEMMA InitInv == Init => ProbeInv
<1> SUFFICES ASSUME Init PROVE ProbeInv
  OBVIOUS
<1>1. PICK i \in 1 .. Len(Order) :
        /\ dec = OpenDecoder(Order[i])
        /\ attempts = FailedToOpen(i)
        /\ remaining = SubSeq(Order, i + 1, Len(Order))
        /\ probing = TRUE
        /\ buffered = <<>> /\ bufferedBytes = 0
        /\ pending = <<>> /\ eofSent = FALSE
        /\ call = "none" /\ stage = "idle" /\ answer = "none"
        /\ cand = NoCandidate /\ replayed = 0 /\ localPending = <<>>
        /\ nextPacket = 1
        /\ accepted = <<>> /\ delivered = <<>> /\ handedBack = <<>> /\ proven = FALSE
        /\ forfeited = {} /\ unallocated = 0
  BY DEF Init
<1>2. Order \in Seq(Backends) /\ Len(Order) \in Nat /\ Len(Order) >= 1
  BY ProbeAssumption, EmptySeq
<1>3. \A k \in 1 .. Len(Order) : Order[k] \in Backends
  BY <1>2, ElementOfSeq
<1>4. dec \in Decoder /\ cand \in Decoder
  BY <1>1, <1>2, <1>3, OpenedDecoder DEF NoCandidate
<1>5. attempts \in Seq(Attempt)
  <2>1. \A k \in 1 .. i - 1 :
          [backend |-> Order[k], reason |-> "build", refused |-> FALSE] \in Attempt
    BY <1>2, <1>3 DEF Attempt, Reasons
  <2>2. attempts \in [1 .. i - 1 -> Attempt]
    BY <1>1, <2>1 DEF FailedToOpen
  <2>3. i - 1 \in Nat
    BY <1>2
  <2> QED
    BY <2>2, <2>3, SeqDef
<1>6. remaining \in Seq(Backends)
  <2>1. \A k \in i + 1 .. Len(Order) : Order[k] \in Backends
    BY <1>3
  <2> QED
    BY <1>1, <1>2, <2>1, SubSeqProperties
<1>7. TypeOK
  <2>1. call \in Calls /\ stage \in Stages /\ answer \in Answers
    BY <1>1 DEF Calls, Stages, Answers
  <2>2. buffered \in Seq(Nat) /\ accepted \in Seq(Nat) /\ handedBack \in Seq(Nat)
    BY <1>1, EmptyHistory
  <2>3. pending \in Seq(Frame) /\ localPending \in Seq(Frame) /\ delivered \in Seq(Frame)
    BY <1>1, EmptyHistory
  <2>4. bufferedBytes \in Nat /\ replayed \in Nat /\ nextPacket \in Nat
    BY <1>1
  <2>5. probing \in BOOLEAN /\ eofSent \in BOOLEAN /\ proven \in BOOLEAN
    BY <1>1
  <2>6. forfeited \subseteq Nat /\ unallocated \in Nat
    BY <1>1
  <2> QED
    BY <1>4, <1>5, <1>6, <2>1, <2>2, <2>3, <2>4, <2>5, <2>6 DEF TypeOK
<1>8. dec.fed = <<>> /\ dec.ended = FALSE
  BY <1>1 DEF OpenDecoder
<1>9. ReplayInv /\ OfferInv
  BY <1>1 DEF ReplayInv, OfferInv
<1>10. TrialInv
  BY <1>1 DEF TrialInv, Advancing
<1>11. FedInv
  BY <1>1, <1>8 DEF FedInv
<1>12. HandsBackEverything
  BY <1>1 DEF HandsBackEverything
<1> QED
  BY <1>7, <1>9, <1>10, <1>11, <1>12 DEF ProbeInv

-----------------------------------------------------------------------------
(* The steps.                                                               *)

LEMMA BeginInv ==
  ASSUME ProbeInv, NEW c \in Calls, NEW first \in {"codec", "pop"},
         Begin(c, first), c = "packet" => nextPacket <= MaxPackets
  PROVE  ProbeInv'
<1> USE DEF Begin, probeVars, replayVars, history, dealings, losses
<1>1. TypeOK'
  BY DEF ProbeInv, TypeOK, Stages, Answers
<1>2. ReplayInv' /\ HandsBackEverything'
  BY DEF ReplayInv, HandsBackEverything
<1>3. OfferInv'
  BY DEF ProbeInv, OfferInv
<1>4. TrialInv'
  BY DEF ProbeInv, TrialInv, Advancing
<1>5. FedInv'
  BY DEF ProbeInv, FedInv
<1> QED
  BY <1>1, <1>2, <1>3, <1>4, <1>5 DEF ProbeInv

LEMMA FlushInv ==
  ASSUME ProbeInv, Flush
  PROVE  ProbeInv'
<1> USE DEF Flush, replayVars
<1>1. Flushed(dec) \in Decoder /\ Flushed(dec).fed = <<>> /\ Flushed(dec).ended = FALSE
  BY FlushedInput DEF ProbeInv, TypeOK
<1>2. TypeOK'
  BY <1>1, EmptyHistory DEF ProbeInv, TypeOK, Answers
<1>3. ReplayInv' /\ HandsBackEverything'
  BY DEF ReplayInv, HandsBackEverything
<1>4. OfferInv'
  BY DEF ProbeInv, OfferInv
<1>5. TrialInv'
  BY DEF ProbeInv, TrialInv, Advancing
<1>6. FedInv'
  BY <1>1 DEF FedInv
<1> QED
  BY <1>2, <1>3, <1>4, <1>5, <1>6 DEF ProbeInv

\* The packets handed back are the history, whatever led to it.
LEMMA HandBackInv ==
  ASSUME ProbeInv, probing, HandBack, UNCHANGED <<dec, pending, eofSent, replayVars>>
  PROVE  ProbeInv'
<1> USE DEF HandBack, ProbeCollapses, replayVars, losses
<1>1. TypeOK'
  BY EmptyHistory DEF ProbeInv, TypeOK, Calls, Stages, Answers
<1>2. ReplayInv' /\ OfferInv'
  BY DEF ProbeInv, ReplayInv, OfferInv
<1>3. TrialInv'
  BY DEF TrialInv, Advancing
<1>4. FedInv'
  BY DEF ProbeInv, FedInv
<1>5. HandsBackEverything'
  BY DEF ProbeInv, FedInv, TrialInv, HandsBackEverything
<1> QED
  BY <1>1, <1>2, <1>3, <1>4, <1>5 DEF ProbeInv

LEMMA SendAcceptedInv ==
  ASSUME ProbeInv, SendAccepted
  PROVE  ProbeInv'
<1> USE DEF SendAccepted, Return, replayVars, losses
<1>1. nextPacket \in Nat /\ nextPacket \in 1 .. MaxPackets
        /\ PacketBytes[nextPacket] \in Nat
  BY ProbeAssumption DEF ProbeInv, TypeOK, OfferInv
<1>2. dec' \in Decoder /\ dec'.fed = Append(dec.fed, nextPacket)
        /\ dec'.ended = dec.ended
  BY <1>1, TakenInput DEF ProbeInv, TypeOK
<1>3. Append(accepted, nextPacket) \in Seq(Nat) /\ Append(buffered, nextPacket) \in Seq(Nat)
  BY <1>1, AppendProperties DEF ProbeInv, TypeOK
<1>4. buffered' \in Seq(Nat) /\ bufferedBytes' \in Nat /\ accepted' \in Seq(Nat)
        /\ nextPacket' \in Nat
  <2>1. accepted' \in Seq(Nat) /\ nextPacket' \in Nat
    BY <1>1, <1>3
  <2>2. CASE probing
    <3>1. buffered' = Append(buffered, nextPacket)
            /\ bufferedBytes' = bufferedBytes + PacketBytes[nextPacket]
      BY <2>2
    <3>2. bufferedBytes \in Nat
      BY DEF ProbeInv, TypeOK
    <3> QED
      BY <1>1, <1>3, <2>1, <3>1, <3>2
  <2>3. CASE ~probing
    <3>1. buffered' = buffered /\ bufferedBytes' = bufferedBytes
      BY <2>3
    <3> QED
      BY <2>1, <3>1 DEF ProbeInv, TypeOK
  <2> QED
    BY <2>2, <2>3
<1>5. TypeOK'
  BY <1>2, <1>4 DEF ProbeInv, TypeOK, Calls, Stages, Answers
<1>6. ReplayInv' /\ HandsBackEverything'
  BY DEF ReplayInv, HandsBackEverything
<1>7. OfferInv'
  BY <1>1 DEF OfferInv
<1>8. TrialInv'
  BY DEF ProbeInv, TrialInv, Advancing
<1>9. FedInv'
  BY <1>2 DEF ProbeInv, FedInv
<1> QED
  BY <1>5, <1>6, <1>7, <1>8, <1>9 DEF ProbeInv

LEMMA EndAcceptedInv ==
  ASSUME ProbeInv, EndAccepted
  PROVE  ProbeInv'
<1> USE DEF EndAccepted, Return, replayVars, probeVars, history, dealings, losses
<1>1. dec' \in Decoder /\ dec'.fed = dec.fed /\ dec'.ended = TRUE
  BY EndTaken DEF ProbeInv, TypeOK
<1>2. TypeOK'
  BY <1>1 DEF ProbeInv, TypeOK, Calls, Stages, Answers
<1>3. ReplayInv' /\ HandsBackEverything'
  BY DEF ReplayInv, HandsBackEverything
<1>4. OfferInv'
  BY DEF ProbeInv, OfferInv
<1>5. TrialInv'
  BY DEF ProbeInv, TrialInv, Advancing
<1>6. FedInv'
  BY <1>1 DEF ProbeInv, FedInv
<1> QED
  BY <1>2, <1>3, <1>4, <1>5, <1>6 DEF ProbeInv

\* A frame ends the trial: what was recorded is no longer needed.
LEMMA DeliverInv ==
  ASSUME ProbeInv, NEW frame \in Frame, Deliver(frame),
         SameInput(dec', dec), pending' \in Seq(Frame), UNCHANGED <<eofSent, replayVars>>
  PROVE  ProbeInv'
<1> USE DEF Deliver, ProbeCollapses, Return, replayVars, losses
<1>1. Append(delivered, frame) \in Seq(Frame)
  BY AppendProperties DEF ProbeInv, TypeOK
<1>2. TypeOK'
  BY <1>1, EmptyHistory DEF ProbeInv, TypeOK, SameInput, Calls, Stages, Answers
<1>3. ReplayInv' /\ HandsBackEverything'
  BY DEF ReplayInv, HandsBackEverything
<1>4. OfferInv'
  BY DEF ProbeInv, OfferInv
<1>5. TrialInv'
  BY DEF TrialInv, Advancing
<1>6. FedInv'
  BY DEF ProbeInv, FedInv, SameInput
<1> QED
  BY <1>2, <1>3, <1>4, <1>5, <1>6 DEF ProbeInv

\* A call that ends with nothing taken and nothing delivered.
LEMMA ReturnInv ==
  ASSUME ProbeInv, NEW a \in Answers, Return(a), SameInput(dec', dec),
         forfeited' \subseteq Nat, unallocated' \in Nat,
         UNCHANGED <<probeVars, pending, eofSent, replayVars, nextPacket, dealings>>
  PROVE  ProbeInv'
<1> USE DEF Return, probeVars, replayVars, dealings
<1>1. TypeOK'
  BY DEF ProbeInv, TypeOK, SameInput, Calls, Stages
<1>2. ReplayInv' /\ HandsBackEverything'
  BY DEF ReplayInv, HandsBackEverything
<1>3. OfferInv'
  BY DEF ProbeInv, OfferInv
<1>4. TrialInv'
  BY DEF ProbeInv, TrialInv, Advancing
<1>5. FedInv'
  BY DEF ProbeInv, FedInv, SameInput
<1> QED
  BY <1>1, <1>2, <1>3, <1>4, <1>5 DEF ProbeInv

\* A step within a call that changes neither the decoder installed nor the dealings
\* with the caller.
LEMMA TrialStepInv ==
  ASSUME ProbeInv, TypeOK', ReplayInv', stage' # "released",
         stage' \in {"advance", "replay", "drain"} => probing,
         SameInput(dec', dec),
         UNCHANGED <<probing, buffered, eofSent, call, nextPacket, dealings>>
  PROVE  ProbeInv'
<1> USE DEF dealings
<1>1. OfferInv'
  BY DEF ProbeInv, OfferInv
<1>2. TrialInv'
  BY DEF ProbeInv, TrialInv, Advancing
<1>3. FedInv'
  BY DEF ProbeInv, FedInv, SameInput
<1>4. HandsBackEverything'
  BY DEF HandsBackEverything
<1> QED
  BY <1>1, <1>2, <1>3, <1>4 DEF ProbeInv

LEMMA ReceivePendingInv ==
  ASSUME ProbeInv, ReceivePending
  PROVE  ProbeInv'
<1>1. pending \in Seq(Frame) /\ pending # <<>> /\ dec \in Decoder
  BY DEF ReceivePending, ProbeInv, TypeOK
<1>2. Head(pending) \in Frame /\ Tail(pending) \in Seq(Frame)
  BY <1>1, HeadTailProperties
<1> QED
  BY <1>1, <1>2, DeliverInv DEF ReceivePending, SameInput

LEMMA ReceiveProducedInv ==
  ASSUME ProbeInv, ReceiveProduced
  PROVE  ProbeInv'
<1>1. dec \in Decoder /\ HasPicture(dec) /\ pending \in Seq(Frame)
  BY DEF ReceiveProduced, ProbeInv, TypeOK
<1>2. FrameOf(dec) \in Frame /\ SameInput(Yielded(dec), dec)
  BY <1>1, YieldedInput, FrameOfPicture
<1> QED
  BY <1>1, <1>2, DeliverInv DEF ReceiveProduced

LEMMA ReceiveTooLargeInv ==
  ASSUME ProbeInv, ReceiveTooLarge
  PROVE  ProbeInv'
<1>1. dec \in Decoder /\ HasPicture(dec)
  BY DEF ReceiveTooLarge, ProbeInv, TypeOK
<1>2. SameInput(PictureLost(dec), dec)
  BY <1>1, YieldedInput
<1>3. "tooLarge" \in Answers
  BY DEF Answers
<1> QED
  BY <1>2, <1>3, ReturnInv DEF ReceiveTooLarge, history, losses, ProbeInv, TypeOK

LEMMA NothingPendingInv ==
  ASSUME ProbeInv, NothingPending
  PROVE  ProbeInv'
<1> USE DEF NothingPending, probeVars, replayVars, history, dealings, losses
<1>1. TypeOK'
  BY DEF ProbeInv, TypeOK, Stages
<1>2. ReplayInv'
  BY DEF ReplayInv
<1>3. SameInput(dec', dec)
  BY DEF SameInput, ProbeInv, TypeOK
<1> QED
  BY <1>1, <1>2, <1>3, TrialStepInv

LEMMA CodecAnswersInv ==
  ASSUME ProbeInv, CodecAnswers
  PROVE  ProbeInv'
<1>1. dec \in Decoder
  BY DEF ProbeInv, TypeOK
<1>2. PICK e \in Errors :
        /\ dec' = Collected(e.after)
        /\ \/ /\ Status(HwExit(e.after, e.errno)) # "none"
              /\ Return(Status(HwExit(e.after, e.errno)))
           \/ Return(HwExit(e.after, e.errno))
  BY DEF CodecAnswers
<1>3. e.errno \in Errnos /\ SameInput(e.after, dec)
  BY <1>1, ErrorInput
<1>4. SameInput(dec', dec)
  BY <1>2, <1>3, CollectedInput DEF SameInput
<1>5. HwExit(e.after, e.errno) \in Answers
  BY <1>3, Verdicts, DecoderAssumption DEF SameInput, Errnos, Answers
<1>6. Status(HwExit(e.after, e.errno)) \in Answers
  BY DEF Status, Answers, FlowAnswers
<1>7. PICK a \in Answers : Return(a)
  BY <1>2, <1>5, <1>6
<1>8. /\ forfeited' \subseteq Nat /\ unallocated' \in Nat
      /\ UNCHANGED <<probeVars, pending, eofSent, replayVars, nextPacket, dealings>>
  BY DEF CodecAnswers, history, losses, ProbeInv, TypeOK
<1> QED
  BY <1>4, <1>7, <1>8, ReturnInv

LEMMA DecodedPackets ==
  ASSUME NEW q \in Seq(Frame)
  PROVE  Decoded(q) \subseteq Nat
<1>1. \A i \in DOMAIN q : q[i] \in Frame
  BY ElementOfSeq, LenProperties
<1> QED
  BY <1>1 DEF Decoded, Frame

LEMMA CandidateFailsInv ==
  ASSUME ProbeInv, CandidateFails
  PROVE  ProbeInv'
<1> USE DEF CandidateFails, QueuedFramesDropped, replayVars
<1>1. dec \in Decoder /\ dec.backend \in Backends
  BY DEF ProbeInv, TypeOK, Decoder
<1>2. PICK e \in Errors :
        /\ FailsCandidate(HwExit(e.after, e.errno))
        /\ attempts' = Append(attempts,
             [backend |-> dec.backend,
              reason  |-> HwExit(Collected(e.after), HwExit(e.after, e.errno)),
              refused |-> "ceiling" \in e.after.latch])
        /\ dec' = Collected(Collected(e.after))
  OBVIOUS
<1>3. e.errno \in Errnos /\ SameInput(e.after, dec)
  BY <1>1, ErrorInput
<1>4. SameInput(dec', dec)
  <2>1. e.after \in Decoder
    BY <1>3 DEF SameInput
  <2>2. SameInput(Collected(e.after), e.after)
    BY <2>1, CollectedInput
  <2>3. SameInput(Collected(Collected(e.after)), Collected(e.after))
    BY <2>2, CollectedInput DEF SameInput
  <2> QED
    BY <1>2, <1>3, <2>2, <2>3 DEF SameInput
<1>5. attempts' \in Seq(Attempt)
  <2>1. HwExit(Collected(e.after), HwExit(e.after, e.errno)) \in Reasons
    <3>1. HwExit(e.after, e.errno) \in Refusals \cup {e.errno}
      BY <1>3, Verdicts DEF SameInput
    <3>2. HwExit(Collected(e.after), HwExit(e.after, e.errno))
            \in Refusals \cup {HwExit(e.after, e.errno)}
      BY <1>3, Verdicts, CollectedInput DEF SameInput
    <3> QED
      BY <1>3, <3>1, <3>2 DEF Reasons
  <2> DEFINE entry == [backend |-> dec.backend,
                       reason  |-> HwExit(Collected(e.after), HwExit(e.after, e.errno)),
                       refused |-> "ceiling" \in e.after.latch]
  <2>2. entry \in Attempt
    BY <1>1, <2>1 DEF Attempt
  <2>3. attempts \in Seq(Attempt) /\ attempts' = Append(attempts, entry)
    BY <1>2 DEF ProbeInv, TypeOK
  <2> QED
    BY <2>2, <2>3, AppendProperties
<1>6. TypeOK'
  <2>1. pending' = <<>> /\ stage' \in Stages
          /\ UNCHANGED <<probing, remaining, buffered, bufferedBytes, eofSent, call, answer,
                        replayVars, nextPacket, accepted, delivered, handedBack, proven,
                        unallocated>>
    BY Zenon DEF Stages, dealings
  <2>2. forfeited' = forfeited \cup Decoded(pending)
    OBVIOUS
  <2> HIDE DEF CandidateFails
  <2>3. forfeited' \subseteq Nat
    BY <2>2, DecodedPackets DEF ProbeInv, TypeOK
  <2> QED
    BY <1>4, <1>5, <2>1, <2>3, EmptyHistory DEF ProbeInv, TypeOK, SameInput
<1>7. ReplayInv'
  BY DEF ReplayInv
<1>8. probing
  BY <1>2 DEF FailsCandidate
<1> QED
  BY <1>4, <1>6, <1>7, <1>8, TrialStepInv

\* The candidate that fails leaves the list of those to try.
LEMMA GiveUpOnType ==
  ASSUME TypeOK, remaining # <<>>, NEW reason \in Reasons, NEW refused \in BOOLEAN,
         GiveUpOn(reason, refused)
  PROVE  attempts' \in Seq(Attempt) /\ remaining' \in Seq(Backends)
<1>1. Head(remaining) \in Backends /\ Tail(remaining) \in Seq(Backends)
  BY HeadTailProperties DEF TypeOK
<1>2. [backend |-> Head(remaining), reason |-> reason, refused |-> refused] \in Attempt
  BY <1>1 DEF Attempt
<1> QED
  BY <1>1, <1>2, AppendProperties DEF GiveUpOn, TypeOK

LEMMA CandidateUnbuiltInv ==
  ASSUME ProbeInv, CandidateUnbuilt
  PROVE  ProbeInv'
<1> USE DEF CandidateUnbuilt, callVars, replayVars, history, dealings, losses
<1>1. "build" \in Reasons
  BY DEF Reasons
<1>2. attempts' \in Seq(Attempt) /\ remaining' \in Seq(Backends)
  BY <1>1, GiveUpOnType DEF ProbeInv
<1>3. TypeOK'
  BY <1>2 DEF ProbeInv, TypeOK
<1>4. ReplayInv'
  BY DEF ReplayInv
<1>5. SameInput(dec', dec) /\ probing
  BY DEF ProbeInv, TypeOK, SameInput, TrialInv, Advancing
<1> QED
  BY <1>3, <1>4, <1>5, TrialStepInv

LEMMA ReplayUnallocatedInv ==
  ASSUME ProbeInv, ReplayUnallocated
  PROVE  ProbeInv'
<1>1. "noMemory" \in Answers
  BY DEF Answers
<1>2. SameInput(dec', dec)
  BY DEF ReplayUnallocated, ProbeInv, TypeOK, SameInput
<1>3. forfeited' \subseteq Nat /\ unallocated' \in Nat
  BY DEF ReplayUnallocated, ProbeInv, TypeOK
<1> QED
  BY <1>1, <1>2, <1>3, ReturnInv DEF ReplayUnallocated

LEMMA CandidateBuiltInv ==
  ASSUME ProbeInv, CandidateBuilt
  PROVE  ProbeInv'
<1> USE DEF CandidateBuilt, probeVars, history, dealings, losses
<1>1. Head(remaining) \in Backends
  BY HeadTailProperties DEF ProbeInv, TypeOK
<1>2. cand' \in Decoder /\ cand'.fed = <<>> /\ cand'.ended = FALSE
  BY <1>1, OpenedDecoder DEF OpenDecoder
<1>3. TypeOK'
  BY <1>2, EmptyHistory DEF ProbeInv, TypeOK, Stages
<1>4. ReplayInv'
  <2>1. accepted \in Seq(Nat) /\ Len(accepted) \in Nat
    BY LenProperties DEF ProbeInv, TypeOK
  <2>2. SubSeq(accepted, 1, 0) = <<>>
    BY <2>1, SubSeqProperties, EmptySeq
  <2>3. remaining' # <<>> /\ accepted' = accepted /\ replayed' = 0
    OBVIOUS
  <2>4. replayed' <= Len(accepted')
    BY <2>1, <2>3
  <2>5. cand'.fed = SubSeq(accepted', 1, replayed')
    <3> HIDE DEF CandidateBuilt
    <3> QED
      BY <1>2, <2>2, <2>3, Zenon
  <2>6. ~cand'.ended
    BY <1>2
  <2> QED
    BY <2>3, <2>4, <2>5, <2>6, Zenon DEF ReplayInv
<1>5. SameInput(dec', dec) /\ probing
  BY DEF ProbeInv, TypeOK, SameInput, TrialInv, Advancing
<1> QED
  BY <1>3, <1>4, <1>5, TrialStepInv

\* One more packet of the history: the prefix the candidate was fed grows by it.
LEMMA ReplayTakesInv ==
  ASSUME ProbeInv, ReplayTakes
  PROVE  ProbeInv'
<1>1. /\ cand \in Decoder /\ accepted \in Seq(Nat) /\ buffered = accepted
      /\ Len(accepted) \in Nat /\ replayed \in Nat /\ probing /\ eofSent \in BOOLEAN
  BY LenProperties DEF ProbeInv, TypeOK, TrialInv, FedInv, Advancing, ReplayTakes
<1>2. /\ remaining # <<>> /\ replayed <= Len(accepted)
      /\ cand.fed = SubSeq(accepted, 1, replayed)
      /\ cand.ended => eofSent /\ replayed = Len(accepted)
  BY DEF ProbeInv, ReplayInv, ReplayTakes
<1>3. UNCHANGED <<dec, probeVars, pending, eofSent, callVars, localPending,
                  nextPacket, history>>
  BY DEF ReplayTakes
<1>4. /\ cand' \in Decoder /\ replayed' \in Nat /\ replayed' <= Len(accepted)
      /\ cand'.fed = SubSeq(accepted, 1, replayed')
      /\ cand'.ended => eofSent /\ replayed' = Len(accepted)
  <2>1. CASE PacketsLeft /\ cand' \in Takes(cand, buffered[replayed + 1])
               /\ replayed' = replayed + 1
    <3>1. replayed + 1 \in 1 .. Len(accepted)
      BY <1>1, <2>1 DEF PacketsLeft
    <3>2. accepted[replayed + 1] \in Nat
      BY <1>1, <3>1, ElementOfSeq
    <3>3. /\ cand' \in Decoder /\ cand'.fed = Append(cand.fed, accepted[replayed + 1])
          /\ cand'.ended = cand.ended /\ ~cand.ended
      BY <1>1, <2>1, <3>2, TakenInput
    <3>4. SubSeq(accepted, 1, replayed + 1)
            = SubSeq(accepted, 1, replayed) \o <<accepted[replayed + 1]>>
      <4>1. 1 \in 1 .. Len(accepted) /\ replayed + 1 \in 1 .. Len(accepted)
        BY <1>1, <3>1
      <4>2. SubSeq(accepted, 1, replayed + 1)
              = SubSeq(accepted, 1, (replayed + 1) - 1) \o <<accepted[replayed + 1]>>
        BY <1>1, <4>1, SubSeqRecursiveSecond
      <4> QED
        BY <1>1, <4>2
    <3>5. SubSeq(accepted, 1, replayed) \in Seq(Nat)
      BY <1>1, <1>2 DEF Decoder
    <3>6. Append(cand.fed, accepted[replayed + 1]) = SubSeq(accepted, 1, replayed + 1)
      BY <1>2, <3>2, <3>4, <3>5, AppendIsConcat
    <3> QED
      BY <1>1, <2>1, <3>1, <3>3, <3>6
  <2>2. CASE EndLeft /\ cand' \in TakesEnd(cand) /\ UNCHANGED replayed
    <3>1. cand' \in Decoder /\ cand'.fed = cand.fed
      BY <1>1, <2>2, EndTaken
    <3>2. eofSent /\ replayed = Len(accepted)
      BY <1>1, <1>2, <2>2 DEF EndLeft, PacketsLeft
    <3> QED
      BY <1>1, <1>2, <2>2, <3>1, <3>2
  <2> QED
    BY <2>1, <2>2 DEF ReplayTakes
<1>5. TypeOK'
  BY <1>3, <1>4 DEF ProbeInv, TypeOK, probeVars, callVars, history, dealings, losses
<1>6. ReplayInv'
  BY <1>2, <1>3, <1>4 DEF ReplayInv, probeVars, history, dealings, losses
<1>7. SameInput(dec', dec) /\ stage' = "replay"
  BY <1>3 DEF ProbeInv, TypeOK, SameInput, callVars, ReplayTakes
<1> QED
  BY <1>1, <1>3, <1>5, <1>6, <1>7, TrialStepInv DEF probeVars, callVars, history

\* A step of the replay between two packets.
LEMMA ReplayStageInv ==
  ASSUME ProbeInv, stage \in {"replay", "drain"}, stage' \in {"replay", "drain"},
         SameInput(cand', cand), localPending' \in Seq(Frame),
         UNCHANGED <<dec, probeVars, pending, eofSent, call, answer, replayed,
                     nextPacket, history>>
  PROVE  ProbeInv'
<1> USE DEF probeVars, history, dealings, losses
<1>1. TypeOK'
  BY DEF ProbeInv, TypeOK, SameInput, Stages
<1>2. ReplayInv'
  BY DEF ProbeInv, ReplayInv, SameInput
<1>3. SameInput(dec', dec) /\ probing
  BY DEF ProbeInv, TypeOK, SameInput, TrialInv, Advancing
<1> QED
  BY <1>1, <1>2, <1>3, TrialStepInv

LEMMA DrainInv ==
  ASSUME ProbeInv, ReplayMustDrain \/ DrainTakes \/ DrainEnds
  PROVE  ProbeInv'
<1>1. cand \in Decoder /\ localPending \in Seq(Frame)
  BY DEF ProbeInv, TypeOK
<1>2. CASE ReplayMustDrain
  BY <1>1, <1>2, ReplayStageInv DEF ReplayMustDrain, SameInput, replayVars
<1>3. CASE DrainEnds
  BY <1>1, <1>3, ReplayStageInv DEF DrainEnds, SameInput, replayVars
<1>4. CASE DrainTakes
  <2>1. FrameOf(cand) \in Frame /\ SameInput(Yielded(cand), cand)
    BY <1>1, <1>4, YieldedInput, FrameOfPicture DEF DrainTakes
  <2>2. SameInput(cand', cand) /\ localPending' \in Seq(Frame)
    BY <1>1, <1>4, <2>1, AppendProperties DEF DrainTakes
  <2> QED
    BY <1>4, <2>2, ReplayStageInv DEF DrainTakes, callVars
<1> QED
  BY <1>2, <1>3, <1>4

LEMMA ReplayFailsInv ==
  ASSUME ProbeInv, ReplayFails
  PROVE  ProbeInv'
<1>1. stage \in {"replay", "drain"}
  BY DEF ReplayFails, ReplayErrors
<1>2. remaining # <<>> /\ probing
  BY <1>1 DEF ProbeInv, ReplayInv, TrialInv, Advancing
<1>3. attempts' \in Seq(Attempt) /\ remaining' \in Seq(Backends)
  <2>1. PICK d \in ReplayErrors : GiveUpOn(ReplayReason(d), "ceiling" \in d.latch)
    BY Zenon DEF ReplayFails
  <2>2. d \in Decoder
    BY ReplayErrorInput DEF ProbeInv, TypeOK
  <2>3. ReplayReason(d) \in Reasons
    BY <2>2, Zenon DEF ReplayReason, Reasons, Errnos, Decoder
  <2>4. ("ceiling" \in d.latch) \in BOOLEAN
    OBVIOUS
  <2> QED
    BY <1>2, <2>1, <2>3, <2>4, GiveUpOnType, Zenon DEF ProbeInv
<1>4. NoCandidate \in Decoder
  <2>1. Order \in Seq(Backends) /\ 1 \in 1 .. Len(Order)
    BY ProbeAssumption, EmptySeq
  <2> QED
    BY <2>1, ElementOfSeq, OpenedDecoder DEF NoCandidate
<1>5. /\ cand' = NoCandidate /\ replayed' = 0 /\ localPending' = <<>> /\ stage' = "advance"
      /\ UNCHANGED <<dec, probing, buffered, bufferedBytes, pending, eofSent, call, answer,
                    nextPacket, history>>
  BY DEF ReplayFails, CandidateGone
<1>6. TypeOK'
  BY <1>3, <1>4, <1>5, EmptyHistory DEF ProbeInv, TypeOK, Stages, history, dealings, losses
<1>7. ReplayInv'
  BY <1>5 DEF ReplayInv
<1>8. SameInput(dec', dec)
  BY <1>5 DEF ProbeInv, TypeOK, SameInput
<1> QED
  BY <1>2, <1>5, <1>6, <1>7, <1>8, TrialStepInv DEF history

\* The candidate that is installed has been fed all of the history.
LEMMA CommitInv ==
  ASSUME ProbeInv, Commit
  PROVE  ProbeInv'
<1>1. /\ cand \in Decoder /\ accepted \in Seq(Nat) /\ buffered = accepted
      /\ Len(accepted) \in Nat /\ replayed \in Nat /\ probing
      /\ eofSent \in BOOLEAN /\ cand.ended \in BOOLEAN
  BY LenProperties DEF ProbeInv, TypeOK, TrialInv, FedInv, Advancing, Commit, Decoder
<1>2. /\ remaining # <<>> /\ replayed <= Len(accepted)
      /\ cand.fed = SubSeq(accepted, 1, replayed)
      /\ cand.ended => eofSent
  BY DEF ProbeInv, ReplayInv, Commit
<1>3. replayed = Len(accepted)
  BY <1>1, <1>2 DEF Commit, PacketsLeft
<1>4. SubSeq(accepted, 1, Len(accepted)) = accepted
  BY <1>1, SubSeqFull
<1>5. cand.fed = accepted
  BY <1>2, <1>3, <1>4
<1>6. cand.ended = eofSent
  BY <1>1, <1>2 DEF Commit, EndLeft
<1>7. /\ dec' = cand /\ pending' = pending \o localPending /\ remaining' = Tail(remaining)
      /\ CandidateGone /\ stage' \in {"pop", "codec"}
      /\ forfeited' = {} /\ unallocated' = 0
      /\ UNCHANGED <<probing, attempts, buffered, bufferedBytes, eofSent, call, answer,
                    nextPacket, dealings>>
  BY DEF Commit, NothingForfeited
<1>8. NoCandidate \in Decoder
  <2>1. Order \in Seq(Backends) /\ 1 \in 1 .. Len(Order)
    BY ProbeAssumption, EmptySeq
  <2> QED
    BY <2>1, ElementOfSeq, OpenedDecoder DEF NoCandidate
<1>9. Tail(remaining) \in Seq(Backends) /\ pending \o localPending \in Seq(Frame)
  BY <1>2, HeadTailProperties, ConcatProperties DEF ProbeInv, TypeOK
<1>10. TypeOK'
  BY <1>1, <1>7, <1>8, <1>9, EmptyHistory
     DEF ProbeInv, TypeOK, Stages, CandidateGone, dealings
<1>11. ReplayInv' /\ HandsBackEverything'
  BY <1>7 DEF ReplayInv, HandsBackEverything
<1>12. OfferInv' /\ TrialInv'
  BY <1>7 DEF ProbeInv, OfferInv, TrialInv, Advancing, dealings
<1>13. FedInv'
  BY <1>1, <1>5, <1>6, <1>7 DEF FedInv, dealings
<1> QED
  BY <1>10, <1>11, <1>12, <1>13 DEF ProbeInv

-----------------------------------------------------------------------------
LEMMA NextInv == ProbeInv /\ [Next]_vars => ProbeInv'
<1> SUFFICES ASSUME ProbeInv, [Next]_vars PROVE ProbeInv'
  OBVIOUS
<1>1. CASE StartSend
  BY <1>1, BeginInv DEF StartSend, Calls
<1>2. CASE StartEnd
  BY <1>2, BeginInv DEF StartEnd, Calls
<1>3. CASE StartReceive
  BY <1>3, BeginInv DEF StartReceive, Calls
<1>4. CASE Flush
  BY <1>4, FlushInv
<1>5. CASE SendUnrecordable
  BY <1>5, HandBackInv DEF SendUnrecordable
<1>6. CASE SendAccepted
  BY <1>6, SendAcceptedInv
<1>7. CASE EndAccepted
  BY <1>7, EndAcceptedInv
<1>8. CASE ReceiveStep
  BY <1>8, ReceivePendingInv, NothingPendingInv, ReceiveProducedInv, ReceiveTooLargeInv
     DEF ReceiveStep
<1>9. CASE CodecAnswers
  BY <1>9, CodecAnswersInv
<1>10. CASE CandidateFails
  BY <1>10, CandidateFailsInv
<1>11. CASE Exhausted
  BY <1>11, HandBackInv DEF Exhausted, ProbeInv, TrialInv, Advancing
<1>12. CASE CandidateUnbuilt \/ ReplayUnallocated \/ CandidateBuilt
  BY <1>12, CandidateUnbuiltInv, ReplayUnallocatedInv, CandidateBuiltInv
<1>13. CASE ReplayStep
  BY <1>13, ReplayTakesInv, DrainInv, ReplayFailsInv, CommitInv DEF ReplayStep
<1>14. CASE UNCHANGED vars
  <2>1. TypeOK' /\ ReplayInv' /\ OfferInv'
    BY <1>14 DEF ProbeInv, TypeOK, ReplayInv, OfferInv, vars, probeVars, replayVars,
       callVars, history, dealings, losses
  <2>2. TrialInv' /\ FedInv' /\ HandsBackEverything'
    BY <1>14 DEF ProbeInv, TrialInv, FedInv, HandsBackEverything, Advancing, vars,
       probeVars, replayVars, callVars, history, dealings, losses
  <2> QED
    BY <2>1, <2>2 DEF ProbeInv
<1> QED
  BY <1>1, <1>2, <1>3, <1>4, <1>5, <1>6, <1>7, <1>8, <1>9, <1>10, <1>11, <1>12, <1>13,
     <1>14 DEF Next, CallStep, CallerStep, SendStep, AdvanceStep

LEMMA Inductive == Spec => []ProbeInv
BY InitInv, NextInv, PTL DEF Spec

-----------------------------------------------------------------------------
(***************************************************************************)
(* Answers.                                                                *)
(***************************************************************************)

\* A call that has not returned has answered nothing; the codec is asked for a
\* frame when none is queued, and a failed backend's queue is gone; a session
\* that is not on trial has shown a frame or was given up.
CallInv ==
  /\ stage \notin {"idle", "released"} => answer = "none"
  /\ stage = "codec" /\ call = "receive" => pending = <<>>
  /\ Advancing => pending = <<>>
  /\ probing \/ proven \/ stage = "released"
  /\ stage = "released" => ~probing
  /\ ~proven => delivered = <<>>

LEMMA CallInit == Init => CallInv
BY DEF Init, CallInv, Advancing

LEMMA CallNext == ProbeInv /\ CallInv /\ [Next]_vars => CallInv'
<1> SUFFICES ASSUME ProbeInv, CallInv, [Next]_vars PROVE CallInv'
  OBVIOUS
<1> USE DEF CallInv, Advancing, Return, Deliver, ProbeCollapses, HandBack, probeVars,
            callVars, replayVars, history, dealings, losses
<1>1. CASE CallerStep
  BY <1>1 DEF CallerStep, StartSend, StartEnd, StartReceive, Begin, Flush
<1>2. CASE SendStep
  BY <1>2 DEF SendStep, SendUnrecordable, SendAccepted, EndAccepted
<1>3. CASE ReceiveStep
  BY <1>3 DEF ReceiveStep, ReceivePending, NothingPending, ReceiveProduced,
     ReceiveTooLarge
<1>4. CASE CodecAnswers
  BY <1>4 DEF CodecAnswers
<1>5. CASE CandidateFails
  BY <1>5 DEF CandidateFails, QueuedFramesDropped
<1>6. CASE AdvanceStep
  BY <1>6 DEF AdvanceStep, Exhausted, CandidateUnbuilt, ReplayUnallocated,
     CandidateBuilt, GiveUpOn
<1>7. CASE ReplayTakes \/ ReplayMustDrain \/ DrainTakes \/ DrainEnds
  BY <1>7 DEF ReplayTakes, ReplayMustDrain, DrainTakes, DrainEnds
<1>8. CASE ReplayFails
  BY <1>8 DEF ReplayFails, ReplayErrors
<1>9. CASE Commit
  BY <1>9 DEF Commit
<1>10. CASE UNCHANGED vars
  BY <1>10 DEF vars
<1> QED
  BY <1>1, <1>2, <1>3, <1>4, <1>5, <1>6, <1>7, <1>8, <1>9, <1>10
     DEF Next, CallStep, ReplayStep

\* A verdict that is not a refusal means that nothing is latched.
LEMMA PlainVerdict ==
  ASSUME NEW d \in Decoder, NEW error, HwExit(d, error) \in {"again", "eof"}
  PROVE  d.latch = {} /\ HwExit(d, error) = error /\ Collected(d) = d
<1>1. d.latch \subseteq {"ceiling", "budget"}
  BY DecoderAssumption DEF Decoder
<1>2. d.latch = {} /\ HwExit(d, error) = error
  BY <1>1 DEF HwExit
<1>3. Collected(d).latch = d.latch
  BY <1>2 DEF Collected, Decoder
<1>4. Collected(d) = d
  BY <1>2 DEF Collected, Decoder
<1> QED
  BY <1>2, <1>4

LEMMA DrainedHasPicture ==
  ASSUME NEW d \in Decoder, MustBeDrained(d)
  PROVE  HasPicture(d)
<1>1. d.inside \in Seq(Nat) /\ Depth[d.backend] \in Nat \ {0}
  BY DecoderAssumption DEF Decoder
<1>2. Len(d.inside) \in Nat /\ Len(d.inside) # 0
  BY <1>1, LenProperties DEF MustBeDrained
<1> QED
  BY <1>1, <1>2, EmptySeq DEF HasPicture

\* What the codec has to have said for a call to end in a flow signal.
LEMMA FlowSignal ==
  ASSUME ProbeInv, NEW e \in Errors, Status(HwExit(e.after, e.errno)) # "none"
  PROVE  /\ e.after = dec /\ Collected(e.after) = dec /\ dec.latch = {}
         /\ Status(HwExit(e.after, e.errno)) = "mustDrain" => ~eofSent /\ HasPicture(dec)
         /\ Status(HwExit(e.after, e.errno)) = "needsInput" => call = "receive" /\ ~eofSent
         /\ Status(HwExit(e.after, e.errno)) = "ended" =>
              call = "receive" /\ ~probing /\ eofSent /\ ~HasPicture(dec)
<1> DEFINE verdict == HwExit(e.after, e.errno)
<1>1. dec \in Decoder /\ dec.ended = eofSent /\ eofSent \in BOOLEAN
  BY DEF ProbeInv, TypeOK, FedInv
<1>2. e.after \in Decoder
  BY <1>1, ErrorInput DEF SameInput
<1>3. verdict \in {"again", "eof"}
  BY DEF Status
<1>4. e.after.latch = {} /\ verdict = e.errno /\ Collected(e.after) = e.after
  BY <1>2, <1>3, PlainVerdict
<1>5. /\ call = "receive" => e \in ReceiveErrors(dec) \/ e.errno = "fail"
      /\ call # "receive" => e \in SendErrors(dec)
  BY DEF Errors
<1>6. CASE call = "receive"
  <2>1. e \in ReceiveErrors(dec) /\ e.errno # "fail"
    BY <1>3, <1>4, <1>5, <1>6
  <2>2. /\ e.after = dec
        /\ e.errno = "eof" => dec.ended
        /\ e.errno \in {"again", "eof"} /\ HasPicture(dec) => ~dec.ended
    BY <2>1 DEF ReceiveErrors
  <2>3. /\ Status(verdict) # "mustDrain"
        /\ Status(verdict) = "needsInput" => ~eofSent
        /\ Status(verdict) = "ended" => ~probing /\ (verdict = "again" => eofSent)
    BY <1>6 DEF Status, AcceptsInput, Committed
  <2> QED
    BY <1>1, <1>3, <1>4, <1>6, <2>2, <2>3
<1>7. CASE call # "receive"
  <2>1. Status(verdict) = "mustDrain" /\ verdict = "again" /\ ~eofSent
    BY <1>7 DEF Status, AcceptsInput
  <2>2. e.errno = "again" => e.after = dec /\ MustBeDrained(dec)
    BY <1>5, <1>7 DEF SendErrors
  <2>3. e.after = dec /\ MustBeDrained(dec)
    BY <1>4, <2>1, <2>2
  <2> QED
    BY <1>1, <1>4, <2>1, <2>3, DrainedHasPicture
<1> QED
  BY <1>6, <1>7

\* A flow signal is given where the codec gave the errno, and by no other step.
LEMMA FlowAnswerGiven ==
  ASSUME ProbeInv, CallInv, [Next]_vars, answer' \in FlowAnswers
  PROVE  \/ UNCHANGED vars
         \/ /\ stage = "codec"
            /\ UNCHANGED <<dec, probing, pending, eofSent, history>>
            /\ \E e \in Errors : /\ Status(HwExit(e.after, e.errno)) # "none"
                                 /\ answer' = Status(HwExit(e.after, e.errno))
<1>1. stage \notin {"idle", "released"} => answer' # answer
  BY DEF CallInv, FlowAnswers
<1>2. ~(CallerStep \/ SendStep)
  BY DEF CallerStep, StartSend, StartEnd, StartReceive, Begin, Flush, FlowAnswers,
     SendStep, SendUnrecordable, SendAccepted, EndAccepted, HandBack, Return
<1>3. ~ReceiveStep
  BY <1>1 DEF ReceiveStep, ReceivePending, NothingPending, ReceiveProduced,
     ReceiveTooLarge, Deliver, Return, FlowAnswers
<1>4. ~CandidateFails
  BY <1>1 DEF CandidateFails
<1>5. ~AdvanceStep
  BY <1>1 DEF AdvanceStep, Exhausted, CandidateUnbuilt, ReplayUnallocated, CandidateBuilt,
     HandBack, Return, FlowAnswers, callVars
<1>6. ~ReplayStep
  BY <1>1 DEF ReplayStep, ReplayTakes, ReplayMustDrain, DrainTakes, DrainEnds, ReplayFails,
     ReplayErrors, Commit, callVars
<1>7. CASE CodecAnswers
  <2>1. PICK e \in Errors :
          /\ dec' = Collected(e.after)
          /\ \/ /\ Status(HwExit(e.after, e.errno)) # "none"
                /\ Return(Status(HwExit(e.after, e.errno)))
             \/ Return(HwExit(e.after, e.errno))
    BY <1>7 DEF CodecAnswers
  <2>2. stage = "codec" /\ UNCHANGED <<probing, pending, eofSent, history>>
    BY <1>7 DEF CodecAnswers, probeVars
  <2>3. HwExit(e.after, e.errno) \in Refusals \cup Errnos
    BY ErrorInput, Verdicts DEF ProbeInv, TypeOK, SameInput
  <2>4. ~Return(HwExit(e.after, e.errno))
    BY <2>3, DecoderAssumption DEF Return, FlowAnswers, Errnos
  <2>5. Status(HwExit(e.after, e.errno)) # "none"
          /\ answer' = Status(HwExit(e.after, e.errno))
    BY <2>1, <2>4 DEF Return
  <2>6. dec' = dec
    BY <2>1, <2>5, FlowSignal
  <2> QED
    BY <2>2, <2>5, <2>6
<1> QED
  BY <1>2, <1>3, <1>4, <1>5, <1>6, <1>7 DEF Next, CallStep

LEMMA FlowInit == Init => FlowHonest
<1>1. Init => answer = "none"
  BY DEF Init
<1>2. answer = "none" => FlowHonest
  BY DEF FlowHonest, FlowAnswers
<1> QED
  BY <1>1, <1>2

LEMMA FlowNext ==
  ASSUME ProbeInv, CallInv, FlowHonest, [Next]_vars
  PROVE  FlowHonest'
<1>1. CASE answer' \notin FlowAnswers
  BY <1>1 DEF FlowHonest, FlowAnswers
<1>2. CASE UNCHANGED vars
  BY <1>2 DEF FlowHonest, vars, callVars
<1>3. CASE /\ stage = "codec" /\ UNCHANGED <<dec, probing, pending, eofSent, history>>
           /\ \E e \in Errors : /\ Status(HwExit(e.after, e.errno)) # "none"
                                /\ answer' = Status(HwExit(e.after, e.errno))
  <2>1. call = "receive" => pending = <<>>
    BY <1>3 DEF CallInv
  <2> QED
    BY <1>3, <2>1, FlowSignal DEF FlowHonest
<1> QED
  BY <1>1, <1>2, <1>3, FlowAnswerGiven

-----------------------------------------------------------------------------
(* The log.                                                                 *)

LEMMA LoggedByName ==
  ASSUME RefusalsNamed, attempts \in Seq(Attempt), NEW entry \in Attempt,
         attempts' = Append(attempts, entry),
         entry.refused => entry.reason \in Refusals
  PROVE  RefusalsNamed'
<1>1. /\ DOMAIN attempts = 1 .. Len(attempts) /\ Len(attempts) \in Nat
      /\ DOMAIN attempts' = 1 .. Len(attempts) + 1
      /\ \A i \in 1 .. Len(attempts) : attempts'[i] = attempts[i]
      /\ attempts'[Len(attempts) + 1] = entry
  BY AppendProperties, LenProperties
<1> QED
  BY <1>1 DEF RefusalsNamed

LEMMA LogInit == Init => RefusalsNamed
BY DEF Init, RefusalsNamed, FailedToOpen

\* A declined surface is the first latch read, and what is read twice is read by
\* its name the second time.
LEMMA FailureNamed ==
  ASSUME NEW d \in Decoder, NEW error, "ceiling" \in d.latch
  PROVE  HwExit(Collected(d), HwExit(d, error)) \in Refusals
<1>1. HwExit(d, error) = "ceiling" /\ "ceiling" \in Refusals
  BY DEF HwExit, Decoder
<1>2. Collected(d) \in Decoder
  BY CollectedInput DEF SameInput
<1> QED
  BY <1>1, <1>2, Verdicts

LEMMA LogNext ==
  ASSUME ProbeInv, RefusalsNamed, [Next]_vars
  PROVE  RefusalsNamed'
<1>1. attempts \in Seq(Attempt)
  BY DEF ProbeInv, TypeOK
<1>2. CASE UNCHANGED attempts
  BY <1>2 DEF RefusalsNamed
<1>3. CASE attempts' = <<>>
  BY <1>3 DEF RefusalsNamed
<1>4. CASE CandidateFails
  <2>1. PICK e \in Errors :
          attempts' = Append(attempts,
             [backend |-> dec.backend,
              reason  |-> HwExit(Collected(e.after), HwExit(e.after, e.errno)),
              refused |-> "ceiling" \in e.after.latch])
    BY <1>4 DEF CandidateFails
  <2>2. dec \in Decoder /\ dec.backend \in Backends
    BY DEF ProbeInv, TypeOK, Decoder
  <2>3. e.after \in Decoder /\ e.errno \in Errnos
    BY <2>2, ErrorInput DEF SameInput
  <2>4. HwExit(Collected(e.after), HwExit(e.after, e.errno)) \in Refusals \cup Errnos
    BY <2>3, Verdicts, CollectedInput DEF SameInput
  <2> DEFINE entry == [backend |-> dec.backend,
                       reason  |-> HwExit(Collected(e.after), HwExit(e.after, e.errno)),
                       refused |-> "ceiling" \in e.after.latch]
  <2>5. entry \in Attempt
    BY <2>2, <2>4 DEF Attempt, Reasons
  <2>6. entry.refused => entry.reason \in Refusals
    BY <2>3, FailureNamed
  <2> QED
    BY <1>1, <2>1, <2>5, <2>6, LoggedByName
<1>5. ASSUME NEW reason \in Reasons, NEW refused \in BOOLEAN, GiveUpOn(reason, refused),
             remaining # <<>>, refused => reason \in Refusals
      PROVE  RefusalsNamed'
  <2> DEFINE entry == [backend |-> Head(remaining), reason |-> reason, refused |-> refused]
  <2>1. Head(remaining) \in Backends
    BY <1>5, HeadTailProperties DEF ProbeInv, TypeOK
  <2>2. entry \in Attempt /\ (entry.refused => entry.reason \in Refusals)
    BY <1>5, <2>1 DEF Attempt
  <2>3. attempts' = Append(attempts, entry)
    BY <1>5 DEF GiveUpOn
  <2> QED
    BY <1>1, <2>2, <2>3, LoggedByName
<1>6. CASE CandidateUnbuilt
  BY <1>5, <1>6 DEF CandidateUnbuilt, Reasons
<1>7. CASE ReplayFails
  <2>1. PICK d \in ReplayErrors : GiveUpOn(ReplayReason(d), "ceiling" \in d.latch)
    BY <1>7, Zenon DEF ReplayFails
  <2>2. d \in Decoder
    BY ReplayErrorInput DEF ProbeInv, TypeOK
  <2>3. ReplayReason(d) \in Reasons /\ ("ceiling" \in d.latch => ReplayReason(d) \in Refusals)
    BY <2>2, Zenon DEF ReplayReason, Reasons, Errnos, Decoder
  <2>4. remaining # <<>>
    BY <1>7 DEF ProbeInv, ReplayInv, ReplayFails, ReplayErrors
  <2>5. ("ceiling" \in d.latch) \in BOOLEAN
    OBVIOUS
  <2> QED
    BY <1>5, <2>1, <2>3, <2>4, <2>5, Zenon
<1>8. CallerStep \/ CodecAnswers => attempts' = attempts
  BY DEF CallerStep, StartSend, StartEnd, StartReceive, Begin, Flush, CodecAnswers, probeVars
<1>9. SendStep => attempts' = attempts \/ attempts' = <<>>
  BY DEF SendStep, SendUnrecordable, SendAccepted, EndAccepted, HandBack, ProbeCollapses,
     probeVars
<1>10. ReceiveStep => attempts' = attempts \/ attempts' = <<>>
  BY DEF ReceiveStep, ReceivePending, NothingPending, ReceiveProduced, ReceiveTooLarge,
     Deliver, ProbeCollapses, probeVars
<1>11. Exhausted \/ ReplayUnallocated \/ CandidateBuilt => attempts' = attempts \/ attempts' = <<>>
  BY DEF Exhausted, ReplayUnallocated, CandidateBuilt, HandBack, ProbeCollapses, probeVars
<1>12. ReplayStep /\ ~ReplayFails => attempts' = attempts
  BY DEF ReplayStep, ReplayTakes, ReplayMustDrain, DrainTakes, DrainEnds, Commit, probeVars
<1>13. UNCHANGED vars => attempts' = attempts
  BY DEF vars, probeVars
<1> QED
  BY <1>2, <1>3, <1>4, <1>6, <1>7, <1>8, <1>9, <1>10, <1>11, <1>12, <1>13
     DEF Next, CallStep, AdvanceStep

-----------------------------------------------------------------------------
(***************************************************************************)
(* Order.                                                                  *)
(***************************************************************************)

\* The packets frames were decoded from, and the backend that decoded them.
Packets(frames) == [i \in DOMAIN frames |-> frames[i].of]
MadeBy(frames, b) == \A i \in DOMAIN frames : frames[i].by = b

LEMMA PacketsOf ==
  ASSUME NEW q \in Seq(Frame)
  PROVE  /\ Packets(q) \in Seq(Nat) /\ Len(Packets(q)) = Len(q)
         /\ DOMAIN q = 1 .. Len(q) /\ Len(q) \in Nat
         /\ \A i \in 1 .. Len(q) : q[i] \in Frame /\ Packets(q)[i] = q[i].of
         /\ Range(Packets(q)) = Decoded(q)
<1>1. DOMAIN q = 1 .. Len(q) /\ Len(q) \in Nat /\ \A i \in 1 .. Len(q) : q[i] \in Frame
  BY LenProperties, ElementOfSeq
<1>2. Packets(q) \in [1 .. Len(q) -> Nat]
  BY <1>1 DEF Packets, Frame
<1>3. Packets(q) \in Seq(Nat) /\ Len(Packets(q)) = Len(q)
  BY <1>1, <1>2, SeqDef, LenProperties
<1>4. DOMAIN Packets(q) = DOMAIN q /\ \A i \in DOMAIN q : Packets(q)[i] = q[i].of
  BY DEF Packets
<1>5. Range(Packets(q)) = Decoded(q)
  BY <1>4, Zenon DEF Range, Decoded
<1> QED
  BY <1>1, <1>3, <1>4, <1>5

LEMMA PacketsOfNone ==
  /\ Packets(<<>>) = <<>> /\ Decoded(<<>>) = {}
  /\ \A b : MadeBy(<<>>, b)
<1>1. Packets(<<>>) = <<>>
  <2>1. <<>> \in Seq(Frame)
    BY EmptySeq
  <2> QED
    BY <2>1, PacketsOf, EmptySeq
<1> QED
  BY <1>1 DEF Decoded, MadeBy

LEMMA PacketsOfMore ==
  ASSUME NEW q \in Seq(Frame), NEW f \in Frame
  PROVE  /\ Append(q, f) \in Seq(Frame)
         /\ Packets(Append(q, f)) = Append(Packets(q), f.of)
         /\ Decoded(Append(q, f)) = Decoded(q) \cup {f.of}
         /\ \A b : MadeBy(q, b) /\ f.by = b => MadeBy(Append(q, f), b)
<1> DEFINE r == Append(q, f)
<1>1. f.of \in Nat
  BY DEF Frame
<1>2. /\ r \in Seq(Frame) /\ Len(r) = Len(q) + 1 /\ Len(q) \in Nat
      /\ \A i \in 1 .. Len(q) : r[i] = q[i]
      /\ r[Len(q) + 1] = f
      /\ DOMAIN r = 1 .. Len(q) + 1
  BY AppendProperties, LenProperties
<1>3. /\ Append(Packets(q), f.of) \in Seq(Nat)
      /\ Len(Append(Packets(q), f.of)) = Len(q) + 1
      /\ \A i \in 1 .. Len(q) : Append(Packets(q), f.of)[i] = Packets(q)[i]
      /\ Append(Packets(q), f.of)[Len(q) + 1] = f.of
  BY <1>1, PacketsOf, AppendProperties
<1>4. Packets(r) = Append(Packets(q), f.of)
  <2>1. Packets(r) \in Seq(Nat) /\ Len(Packets(r)) = Len(q) + 1
          /\ \A i \in 1 .. Len(q) + 1 : Packets(r)[i] = r[i].of
    BY <1>2, PacketsOf
  <2> HIDE DEF r
  <2>2. ASSUME NEW i \in 1 .. Len(q) + 1
        PROVE  Packets(r)[i] = Append(Packets(q), f.of)[i]
    <3>1. CASE i \in 1 .. Len(q)
      BY <1>2, <1>3, <2>1, <3>1, PacketsOf
    <3>2. CASE i = Len(q) + 1
      BY <1>2, <1>3, <2>1, <3>2
    <3>3. i \in 1 .. Len(q) \/ i = Len(q) + 1
      BY <1>2
    <3> QED
      BY <3>1, <3>2, <3>3
  <2> QED
    BY <1>3, <2>1, <2>2, SeqEqual
<1>5. Decoded(r) = Decoded(q) \cup {f.of}
  <2>1. Range(Append(Packets(q), f.of)) = Range(Packets(q)) \cup {f.of}
    BY <1>1, PacketsOf, RangeOfAppend
  <2>2. Range(Packets(q)) = Decoded(q) /\ Range(Packets(r)) = Decoded(r)
    BY <1>2, PacketsOf
  <2> QED
    BY <1>4, <2>1, <2>2, Zenon
<1>6. ASSUME NEW b, MadeBy(q, b), f.by = b
      PROVE  MadeBy(r, b)
  BY <1>2, <1>6, LenProperties DEF MadeBy
<1> QED
  BY <1>2, <1>4, <1>5, <1>6

LEMMA PacketsOfRest ==
  ASSUME NEW q \in Seq(Frame), q # <<>>
  PROVE  /\ Head(q) \in Frame /\ Tail(q) \in Seq(Frame)
         /\ Packets(q) # <<>> /\ Head(Packets(q)) = Head(q).of
         /\ Packets(Tail(q)) = Tail(Packets(q))
         /\ Decoded(q) = {Head(q).of} \cup Decoded(Tail(q))
         /\ \A b : MadeBy(q, b) => MadeBy(Tail(q), b) /\ Head(q).by = b
<1>1. /\ Head(q) \in Frame /\ Tail(q) \in Seq(Frame) /\ Len(Tail(q)) = Len(q) - 1
      /\ \A i \in 1 .. Len(Tail(q)) : Tail(q)[i] = q[i + 1]
      /\ Len(q) \in Nat \ {0} /\ DOMAIN Tail(q) = 1 .. Len(Tail(q))
  BY HeadTailProperties, EmptySeq, LenProperties
<1>2. Packets(q) # <<>> /\ Packets(q) \in Seq(Nat) /\ Len(Packets(q)) = Len(q)
  BY <1>1, PacketsOf, EmptySeq
<1>3. /\ Tail(Packets(q)) \in Seq(Nat) /\ Len(Tail(Packets(q))) = Len(q) - 1
      /\ \A i \in 1 .. Len(q) - 1 : Tail(Packets(q))[i] = Packets(q)[i + 1]
  BY <1>2, HeadTailProperties
<1>4. Head(q) = q[1] /\ Head(Packets(q)) = Packets(q)[1] /\ 1 \in 1 .. Len(q)
  BY <1>1
<1>5. Packets(Tail(q)) = Tail(Packets(q))
  <2>1. Packets(Tail(q)) \in Seq(Nat) /\ Len(Packets(Tail(q))) = Len(q) - 1
          /\ \A i \in 1 .. Len(q) - 1 : Packets(Tail(q))[i] = Tail(q)[i].of
    BY <1>1, PacketsOf
  <2>2. ASSUME NEW i \in 1 .. Len(q) - 1
        PROVE  Packets(Tail(q))[i] = Tail(Packets(q))[i]
    <3>1. i + 1 \in 1 .. Len(q) /\ i \in 1 .. Len(Tail(q))
      BY <1>1
    <3>2. Packets(q)[i + 1] = q[i + 1].of
      BY <3>1, PacketsOf
    <3>3. Tail(q)[i] = q[i + 1]
      BY <1>1, <3>1
    <3> QED
      BY <1>3, <2>1, <3>2, <3>3
  <2> QED
    BY <1>3, <2>1, <2>2, SeqEqual
<1>6. Head(Packets(q)) = Head(q).of
  BY <1>4, PacketsOf
<1>7. Decoded(q) = {Head(q).of} \cup Decoded(Tail(q))
  <2>1. Range(Packets(q)) = {Head(Packets(q))} \cup Range(Tail(Packets(q)))
    BY <1>2, RangeOfSplit
  <2> QED
    BY <1>1, <1>5, <1>6, <2>1, PacketsOf
<1>8. ASSUME NEW b, MadeBy(q, b)
      PROVE  MadeBy(Tail(q), b) /\ Head(q).by = b
  <2>1. \A i \in 1 .. Len(q) : q[i].by = b
    BY <1>8, PacketsOf DEF MadeBy
  <2>2. \A i \in 1 .. Len(Tail(q)) : i + 1 \in 1 .. Len(q)
    BY <1>1
  <2> QED
    BY <1>1, <1>4, <2>1, <2>2 DEF MadeBy
<1> QED
  BY <1>1, <1>2, <1>5, <1>6, <1>7, <1>8

\* Frames and, behind them, the pictures of the decoder that made them: each from
\* one of the packets, in their order.
InLine(frames, d, packets) ==
  /\ MadeBy(frames, d.backend)
  /\ Increasing(Packets(frames)) /\ Increasing(d.inside)
  /\ Before(Decoded(frames), Range(d.inside))
  /\ Decoded(frames) \subseteq packets /\ Range(d.inside) \subseteq packets

LEMMA EmptyLine ==
  ASSUME NEW d, d.inside = <<>>, NEW packets
  PROVE  InLine(<<>>, d, packets)
BY PacketsOfNone, IncreasingShort, RangeOfEmpty DEF InLine, Before

LEMMA FrontLine ==
  ASSUME NEW q, NEW d, NEW packets, InLine(q, d, packets)
  PROVE  InLine(<<>>, d, packets)
BY PacketsOfNone, IncreasingShort DEF InLine, Before

LEMMA WiderLine ==
  ASSUME NEW q, NEW d, NEW packets, InLine(q, d, packets), NEW more, packets \subseteq more
  PROVE  InLine(q, d, more)
BY DEF InLine

LEMMA ShrunkLine ==
  ASSUME NEW d \in Decoder, NEW x \in Decoder, Shrunk(x, d), x.backend = d.backend,
         NEW q, NEW packets, InLine(q, d, packets)
  PROVE  InLine(q, x, packets)
<1>1. d.inside \in Seq(Nat)
  BY DEF Decoder
<1>2. Increasing(x.inside) /\ Range(x.inside) \subseteq Range(d.inside)
  BY <1>1, IncreasingTail DEF Shrunk, InLine
<1> QED
  BY <1>2 DEF InLine, Before

\* The decoder's next picture becomes the last of the frames.
LEMMA YieldedLine ==
  ASSUME NEW d \in Decoder, HasPicture(d), NEW q \in Seq(Frame), NEW packets,
         InLine(q, d, packets)
  PROVE  InLine(Append(q, FrameOf(d)), Yielded(d), packets)
<1> DEFINE f == FrameOf(d)
<1>1. /\ f \in Frame /\ f.of = Head(d.inside) /\ f.by = d.backend
      /\ d.inside \in Seq(Nat) /\ d.inside # <<>>
  BY FrameOfPicture DEF FrameOf, NextPicture, Decoder, HasPicture
<1>2. Yielded(d).backend = d.backend /\ Yielded(d).inside = Tail(d.inside)
  BY YieldedBackend
<1>3. /\ Increasing(Tail(d.inside)) /\ Before({f.of}, Range(Tail(d.inside)))
      /\ f.of \in Nat /\ Range(d.inside) = {f.of} \cup Range(Tail(d.inside))
  BY <1>1, IncreasingTail DEF InLine
<1> HIDE DEF f
<1>4. /\ Packets(Append(q, f)) = Append(Packets(q), f.of)
      /\ Decoded(Append(q, f)) = Decoded(q) \cup {f.of}
      /\ MadeBy(Append(q, f), d.backend)
  BY <1>1, PacketsOfMore DEF InLine
<1>5. Increasing(Append(Packets(q), f.of))
  <2>1. Before(Range(Packets(q)), {f.of})
    BY <1>3, PacketsOf DEF InLine, Before
  <2> QED
    BY <1>3, <2>1, PacketsOf, IncreasingAppend DEF InLine
<1>6. Before(Decoded(Append(q, f)), Range(Tail(d.inside)))
  BY <1>3, <1>4 DEF InLine, Before
<1> QED
  BY <1>2, <1>3, <1>4, <1>5, <1>6 DEF InLine, f

\* A packet after all the others: its picture, if there is one, comes last.
LEMMA TakenLine ==
  ASSUME NEW d \in Decoder, NEW p \in Nat, NEW x \in Takes(d, p), NEW q,
         NEW packets, InLine(q, d, packets), Before(packets, {p})
  PROVE  InLine(q, x, packets \cup {p})
<1>1. x.backend = d.backend /\ x.inside \in {d.inside, Append(d.inside, p)}
  BY TakenBackend, TakenInside
<1>2. d.inside \in Seq(Nat)
  BY DEF Decoder
<1>3. CASE x.inside = d.inside
  BY <1>1, <1>3 DEF InLine
<1>4. CASE x.inside = Append(d.inside, p)
  <2>1. Before(Range(d.inside), {p})
    BY DEF InLine, Before
  <2>2. Increasing(x.inside) /\ Range(x.inside) = Range(d.inside) \cup {p}
    BY <1>2, <1>4, <2>1, IncreasingAppend DEF InLine
  <2>3. Before(Decoded(q), Range(x.inside))
    BY <2>2 DEF InLine, Before
  <2> QED
    BY <1>1, <2>2, <2>3 DEF InLine
<1> QED
  BY <1>1, <1>3, <1>4

\* The first of the queued frames becomes the last of those handed over.
LEMMA HandedOverLine ==
  ASSUME NEW q \in Seq(Frame), NEW r \in Seq(Frame), r # <<>>, NEW d, NEW packets,
         InLine(q, d, packets), InLine(r, d, packets), Before(Decoded(q), Decoded(r))
  PROVE  /\ InLine(Append(q, Head(r)), d, packets)
         /\ InLine(Tail(r), d, packets)
         /\ Before(Decoded(Append(q, Head(r))), Decoded(Tail(r)))
<1> DEFINE f == Head(r)
<1>1. /\ f \in Frame /\ f.of \in Nat /\ Tail(r) \in Seq(Frame)
      /\ Packets(r) # <<>> /\ Head(Packets(r)) = f.of
      /\ Packets(Tail(r)) = Tail(Packets(r))
      /\ Decoded(r) = {f.of} \cup Decoded(Tail(r))
      /\ MadeBy(Tail(r), d.backend) /\ f.by = d.backend
  BY PacketsOfRest DEF InLine, Frame
<1>2. Increasing(Tail(Packets(r))) /\ Before({f.of}, Decoded(Tail(r)))
  <2>1. Before({Head(Packets(r))}, Range(Tail(Packets(r)))) /\ Increasing(Tail(Packets(r)))
    BY <1>1, PacketsOf, IncreasingTail DEF InLine
  <2> QED
    BY <1>1, <2>1, PacketsOf
<1> HIDE DEF f
<1>3. InLine(Tail(r), d, packets)
  BY <1>1, <1>2 DEF InLine, Before
<1>4. /\ Packets(Append(q, f)) = Append(Packets(q), f.of)
      /\ Decoded(Append(q, f)) = Decoded(q) \cup {f.of}
      /\ MadeBy(Append(q, f), d.backend)
  BY <1>1, PacketsOfMore DEF InLine
<1>5. Increasing(Append(Packets(q), f.of))
  <2>1. Before(Range(Packets(q)), {f.of})
    BY <1>1, PacketsOf DEF Before
  <2> QED
    BY <1>1, <2>1, PacketsOf, IncreasingAppend DEF InLine
<1>6. InLine(Append(q, f), d, packets)
  BY <1>1, <1>4, <1>5 DEF InLine, Before
<1>7. Before(Decoded(Append(q, f)), Decoded(Tail(r)))
  BY <1>1, <1>2, <1>4 DEF Before
<1> QED
  BY <1>3, <1>6, <1>7 DEF f

-----------------------------------------------------------------------------
\* The packets accepted come one after the other, and the next is later still.
AcceptedInv == Increasing(accepted) /\ Before(Range(accepted), {nextPacket})

\* The frames handed over, then those queued, then what is still inside: all of
\* the decoder installed.
InstalledInv ==
  /\ InLine(delivered, dec, Range(accepted))
  /\ InLine(pending, dec, Range(accepted))
  /\ Before(Decoded(delivered), Decoded(pending))

\* The same for the candidate, of the packets it has been replayed.
CandidateInv ==
  stage \in {"replay", "drain"} =>
    InLine(localPending, cand, Range(SubSeq(accepted, 1, replayed)))

OrderInv == AcceptedInv /\ InstalledInv /\ CandidateInv

LEMMA OrderInit == Init => OrderInv
<1> SUFFICES ASSUME Init PROVE OrderInv
  OBVIOUS
<1>1. accepted = <<>> /\ delivered = <<>> /\ pending = <<>> /\ stage = "idle"
  BY DEF Init
<1>2. dec.inside = <<>>
  BY DEF Init, OpenDecoder
<1>3. AcceptedInv
  BY <1>1, IncreasingShort, RangeOfEmpty DEF AcceptedInv, Before
<1>4. InstalledInv
  BY <1>1, <1>2, EmptyLine, PacketsOfNone DEF InstalledInv, Before
<1> QED
  BY <1>1, <1>3, <1>4 DEF OrderInv, CandidateInv

\* An error of the codec, however its refusal is collected, gives no picture away.
Kept(x, d) ==
  x \in Decoder /\ x.backend = d.backend /\ Shrunk(x, d) /\ Held(x) = Held(d)

LEMMA CollectedKept ==
  ASSUME NEW d \in Decoder, NEW x, Kept(x, d)
  PROVE  Kept(Collected(x), d)
<1>1. x \in Decoder
  BY DEF Kept
<1>2. Collected(x) \in Decoder /\ Collected(x).backend = x.backend
        /\ Collected(x).inside = x.inside /\ Collected(x).dropped = x.dropped
  BY <1>1 DEF Collected, Decoder
<1> QED
  BY <1>2 DEF Kept, Shrunk, Held

LEMMA ErrorKept ==
  ASSUME dec \in Decoder, NEW e \in Errors
  PROVE  Kept(e.after, dec)
<1>1. e.after \in Decoder
  BY ErrorInput DEF SameInput
<1>2. CASE e \in SendErrors(dec) \cup ReceiveErrors(dec)
  BY <1>1, <1>2, ErrorBackend, ErrorShrinks, ErrorHeld DEF Kept
<1>3. CASE HasPicture(dec) /\ e.after \in Latched(PictureLost(dec))
  <2>1. PictureLost(dec) \in Decoder
    BY <1>3, YieldedInput DEF SameInput
  <2>2. e.after.backend = dec.backend /\ e.after.inside = Tail(dec.inside)
    BY <1>3, <2>1, LatchedBackend, YieldedBackend
  <2>3. Held(e.after) = Held(dec)
    BY <1>3, LostPictureHeld
  <2> QED
    BY <1>1, <1>3, <2>2, <2>3 DEF Kept, Shrunk, HasPicture
<1>4. \/ e \in SendErrors(dec) \cup ReceiveErrors(dec)
      \/ HasPicture(dec) /\ e.after \in Latched(PictureLost(dec))
  BY DEF Errors
<1> QED
  BY <1>2, <1>3, <1>4

LEMMA QuietInstalled ==
  ASSUME InstalledInv, UNCHANGED <<dec, pending, delivered, accepted>>
  PROVE  InstalledInv'
BY DEF InstalledInv

LEMMA ShrunkInstalled ==
  ASSUME InstalledInv, dec \in Decoder, Kept(dec', dec), pending' \in {pending, <<>>},
         UNCHANGED <<delivered, accepted>>
  PROVE  InstalledInv'
<1>1. InLine(delivered, dec', Range(accepted)) /\ InLine(pending, dec', Range(accepted))
  BY ShrunkLine DEF InstalledInv, Kept
<1>2. InLine(<<>>, dec', Range(accepted))
  BY <1>1, FrontLine
<1>3. Before(Decoded(delivered), Decoded(pending'))
  BY PacketsOfNone DEF InstalledInv, Before
<1> QED
  BY <1>1, <1>2, <1>3 DEF InstalledInv

LEMMA SendInstalled ==
  ASSUME ProbeInv, AcceptedInv, InstalledInv, SendAccepted
  PROVE  InstalledInv' /\ AcceptedInv'
<1>1. /\ nextPacket \in Nat /\ accepted \in Seq(Nat) /\ dec \in Decoder
      /\ dec' \in Takes(dec, nextPacket) /\ accepted' = Append(accepted, nextPacket)
      /\ nextPacket' = nextPacket + 1 /\ UNCHANGED <<pending, delivered>>
  BY DEF ProbeInv, TypeOK, SendAccepted
<1>2. Increasing(accepted') /\ Range(accepted') = Range(accepted) \cup {nextPacket}
  BY <1>1, IncreasingAppend DEF AcceptedInv
<1>3. Range(accepted) \subseteq Nat
  BY <1>1, Indices
<1>4. Before(Range(accepted'), {nextPacket'})
  BY <1>1, <1>2, <1>3 DEF AcceptedInv, Before
<1>5. /\ InLine(delivered, dec', Range(accepted'))
      /\ InLine(pending, dec', Range(accepted'))
  BY <1>1, <1>2, TakenLine DEF InstalledInv, AcceptedInv
<1> QED
  BY <1>1, <1>2, <1>4, <1>5 DEF InstalledInv, AcceptedInv

LEMMA ReceivePendingInstalled ==
  ASSUME ProbeInv, InstalledInv, ReceivePending
  PROVE  InstalledInv'
<1>1. /\ delivered \in Seq(Frame) /\ pending \in Seq(Frame) /\ pending # <<>>
      /\ delivered' = Append(delivered, Head(pending)) /\ pending' = Tail(pending)
      /\ UNCHANGED <<dec, accepted>>
  BY DEF ProbeInv, TypeOK, ReceivePending, Deliver
<1> QED
  BY <1>1, HandedOverLine DEF InstalledInv

LEMMA ReceiveProducedInstalled ==
  ASSUME ProbeInv, CallInv, InstalledInv, ReceiveProduced
  PROVE  InstalledInv'
<1>1. /\ delivered \in Seq(Frame) /\ dec \in Decoder /\ HasPicture(dec)
      /\ delivered' = Append(delivered, FrameOf(dec)) /\ dec' = Yielded(dec)
      /\ pending = <<>> /\ UNCHANGED <<pending, accepted>>
  BY DEF ProbeInv, TypeOK, CallInv, ReceiveProduced, Deliver
<1>2. InLine(delivered', dec', Range(accepted))
  BY <1>1, YieldedLine DEF InstalledInv
<1>3. InLine(<<>>, dec', Range(accepted))
  BY <1>2, FrontLine
<1> QED
  BY <1>1, <1>2, <1>3, PacketsOfNone DEF InstalledInv, Before

LEMMA SubSeqMembers ==
  ASSUME NEW s \in Seq(Nat), NEW n \in Nat, n <= Len(s)
  PROVE  SubSeq(s, 1, n) \in Seq(Nat) /\ Range(SubSeq(s, 1, n)) \subseteq Range(s)
<1>1. \A i \in 1 .. n : s[i] \in Nat /\ s[i] \in Range(s)
  BY Indices
<1>2. /\ SubSeq(s, 1, n) \in Seq(Nat) /\ Len(SubSeq(s, 1, n)) = n
      /\ \A i \in 1 .. n : SubSeq(s, 1, n)[i] = s[i]
  BY <1>1, SubSeqProperties
<1>3. \A x \in Range(SubSeq(s, 1, n)) : \E i \in 1 .. n : x = SubSeq(s, 1, n)[i]
  BY <1>2, Indices
<1> QED
  BY <1>1, <1>2, <1>3

LEMMA SubSeqNext ==
  ASSUME NEW s \in Seq(Nat), NEW n \in Nat, n + 1 \in 1 .. Len(s)
  PROVE  /\ s[n + 1] \in Nat
         /\ Range(SubSeq(s, 1, n + 1)) = Range(SubSeq(s, 1, n)) \cup {s[n + 1]}
<1>1. s[n + 1] \in Nat /\ Len(s) \in Nat
  BY Indices
<1>2. SubSeq(s, 1, n) \in Seq(Nat)
  BY <1>1, SubSeqMembers
<1>3. SubSeq(s, 1, n + 1) = SubSeq(s, 1, n) \o <<s[n + 1]>>
  <2>1. 1 \in 1 .. Len(s) /\ (n + 1) - 1 = n
    BY <1>1
  <2>2. SubSeq(s, 1, n + 1) = SubSeq(s, 1, (n + 1) - 1) \o <<s[n + 1]>>
    BY <2>1, SubSeqRecursiveSecond
  <2> QED
    BY <2>1, <2>2
<1>4. SubSeq(s, 1, n + 1) = Append(SubSeq(s, 1, n), s[n + 1])
  BY <1>1, <1>2, <1>3, AppendIsConcat
<1>5. \A t \in Seq(Nat), x \in Nat : Range(Append(t, x)) = Range(t) \cup {x}
  BY RangeOfAppend
<1> QED
  BY <1>1, <1>2, <1>4, <1>5, Zenon

\* The whole history is the prefix a candidate that can be committed was fed.
LEMMA CommitInstalled ==
  ASSUME ProbeInv, CallInv, InstalledInv, CandidateInv, Commit
  PROVE  InstalledInv'
<1>1. /\ accepted \in Seq(Nat) /\ replayed \in Nat /\ localPending \in Seq(Frame)
      /\ replayed <= Len(accepted) /\ stage = "replay"
  BY DEF ProbeInv, TypeOK, ReplayInv, Commit
<1>2. pending = <<>> /\ delivered = <<>>
  BY DEF ProbeInv, TrialInv, CallInv, Advancing, Commit
<1>3. pending' = localPending
  BY <1>1, <1>2, ConcatEmptySeq DEF Commit
<1>4. dec' = cand /\ UNCHANGED <<delivered, accepted>>
  BY DEF Commit, history, dealings, losses
<1>5. InLine(localPending, cand, Range(accepted))
  BY <1>1, SubSeqMembers, WiderLine DEF CandidateInv
<1>6. InLine(<<>>, cand, Range(accepted))
  BY <1>5, FrontLine
<1> QED
  BY <1>2, <1>3, <1>4, <1>5, <1>6, PacketsOfNone DEF InstalledInv, Before

LEMMA InstalledNext ==
  ASSUME ProbeInv, CallInv, OrderInv, [Next]_vars
  PROVE  AcceptedInv' /\ InstalledInv'
<1>1. dec \in Decoder
  BY DEF ProbeInv, TypeOK
<1>2. CASE UNCHANGED <<dec, pending, delivered, accepted, nextPacket>>
  BY <1>2, QuietInstalled DEF OrderInv, AcceptedInv
<1>3. CASE Kept(dec', dec) /\ pending' \in {pending, <<>>}
             /\ UNCHANGED <<delivered, accepted, nextPacket>>
  BY <1>1, <1>3, ShrunkInstalled DEF OrderInv, AcceptedInv
<1>4. CASE Flush
  <2>1. accepted' = <<>> /\ delivered' = <<>> /\ pending' = <<>> /\ dec'.inside = <<>>
    BY <1>1, <1>4 DEF Flush, Flushed, Decoder
  <2>2. AcceptedInv'
    BY <2>1, IncreasingShort, RangeOfEmpty DEF AcceptedInv, Before
  <2>3. InstalledInv'
    BY <2>1, EmptyLine, PacketsOfNone DEF InstalledInv, Before
  <2> QED
    BY <2>2, <2>3
<1>5. CASE SendAccepted
  BY <1>5, SendInstalled DEF OrderInv
<1>6. CASE ReceivePending
  BY <1>6, ReceivePendingInstalled DEF OrderInv, AcceptedInv, ReceivePending, Deliver
<1>7. CASE ReceiveProduced
  BY <1>7, ReceiveProducedInstalled DEF OrderInv, AcceptedInv, ReceiveProduced, Deliver
<1>8. CASE Commit
  BY <1>8, CommitInstalled DEF OrderInv, AcceptedInv, Commit, history, dealings, losses
<1>9. CASE EndAccepted
  <2>1. Kept(dec', dec)
    BY <1>1, <1>9, EndTaken, EndTakenBackend, EndTakenHeld DEF EndAccepted, Kept, Shrunk
  <2> QED
    BY <1>3, <1>9, <2>1 DEF EndAccepted, history, dealings, losses
<1>10. CASE ReceiveTooLarge
  <2>1. Kept(dec', dec)
    BY <1>1, <1>10, YieldedInput, YieldedBackend, YieldedHeld
       DEF ReceiveTooLarge, Kept, Shrunk, SameInput, HasPicture
  <2> QED
    BY <1>3, <1>10, <2>1 DEF ReceiveTooLarge, history, dealings, losses
<1>11. CASE CodecAnswers
  <2>1. Kept(dec', dec)
    BY <1>1, <1>11, ErrorKept, CollectedKept DEF CodecAnswers
  <2> QED
    BY <1>3, <1>11, <2>1 DEF CodecAnswers, history, dealings, losses
<1>12. CASE CandidateFails
  <2>1. PICK e \in Errors : dec' = Collected(Collected(e.after))
    BY <1>12 DEF CandidateFails
  <2>2. Kept(dec', dec)
    BY <1>1, <2>1, ErrorKept, CollectedKept
  <2> QED
    BY <1>3, <1>12, <2>2 DEF CandidateFails, QueuedFramesDropped, history, dealings, losses
<1>13. CASE CallerStep
  BY <1>2, <1>4, <1>13 DEF CallerStep, StartSend, StartEnd, StartReceive, Begin, history, dealings, losses
<1>14. CASE SendUnrecordable \/ NothingPending \/ AdvanceStep
  BY <1>2, <1>14 DEF SendUnrecordable, NothingPending, AdvanceStep, Exhausted,
     CandidateUnbuilt, ReplayUnallocated, CandidateBuilt, HandBack, history, dealings, losses
<1>15. CASE ReplayTakes \/ ReplayMustDrain \/ DrainTakes \/ DrainEnds \/ ReplayFails
  BY <1>2, <1>15 DEF ReplayTakes, ReplayMustDrain, DrainTakes, DrainEnds, ReplayFails, history, dealings, losses
<1>16. CASE UNCHANGED vars
  BY <1>2, <1>16 DEF vars, history, dealings, losses
<1> QED
  BY <1>5, <1>6, <1>7, <1>8, <1>9, <1>10, <1>11, <1>12, <1>13, <1>14, <1>15, <1>16
     DEF Next, CallStep, SendStep, ReceiveStep, ReplayStep

LEMMA ReplayTakesCandidate ==
  ASSUME ProbeInv, OrderInv, ReplayTakes
  PROVE  CandidateInv'
<1>1. /\ cand \in Decoder /\ accepted \in Seq(Nat) /\ buffered = accepted
      /\ Len(accepted) \in Nat /\ replayed \in Nat /\ accepted' = accepted
      /\ localPending' = localPending
      /\ InLine(localPending, cand, Range(SubSeq(accepted, 1, replayed)))
  BY LenProperties DEF ProbeInv, TypeOK, TrialInv, FedInv, Advancing, ReplayTakes,
     OrderInv, CandidateInv, history, dealings, losses
<1>2. CASE PacketsLeft /\ cand' \in Takes(cand, buffered[replayed + 1])
             /\ replayed' = replayed + 1
  <2>1. replayed + 1 \in 1 .. Len(accepted)
    BY <1>1, <1>2 DEF PacketsLeft
  <2>2. /\ Range(SubSeq(accepted, 1, replayed'))
             = Range(SubSeq(accepted, 1, replayed)) \cup {accepted[replayed + 1]}
        /\ accepted[replayed + 1] \in Nat
    BY <1>1, <1>2, <2>1, SubSeqNext
  <2>3. Before(Range(SubSeq(accepted, 1, replayed)), {accepted[replayed + 1]})
    BY <1>1, <2>1, IncreasingPrefix DEF OrderInv, AcceptedInv
  <2>4. cand' \in Takes(cand, accepted[replayed + 1])
    BY <1>1, <1>2
  <2>5. InLine(localPending, cand', Range(SubSeq(accepted, 1, replayed)) \cup {accepted[replayed + 1]})
    BY <1>1, <2>2, <2>3, <2>4, TakenLine
  <2> QED
    BY <1>1, <2>2, <2>5 DEF CandidateInv
<1>3. CASE EndLeft /\ cand' \in TakesEnd(cand) /\ UNCHANGED replayed
  <2>1. cand' \in Decoder /\ cand'.backend = cand.backend /\ Shrunk(cand', cand)
    BY <1>1, <1>3, EndTaken, EndTakenBackend DEF Shrunk
  <2> QED
    BY <1>1, <1>3, <2>1, ShrunkLine DEF CandidateInv
<1> QED
  BY <1>2, <1>3 DEF ReplayTakes

LEMMA CandidateNext ==
  ASSUME ProbeInv, OrderInv, [Next]_vars
  PROVE  CandidateInv'
<1>1. CASE stage' \notin {"replay", "drain"}
  BY <1>1 DEF CandidateInv
<1>2. CASE stage \in {"replay", "drain"} /\ UNCHANGED <<cand, localPending, accepted, replayed>>
  BY <1>2 DEF OrderInv, CandidateInv
<1>3. CASE CandidateBuilt
  <2>1. localPending' = <<>> /\ cand'.inside = <<>>
    BY <1>3 DEF CandidateBuilt, OpenDecoder
  <2> QED
    BY <2>1, EmptyLine DEF CandidateInv
<1>4. CASE ReplayTakes
  BY <1>4, ReplayTakesCandidate
<1>5. CASE DrainTakes
  <2>1. /\ cand \in Decoder /\ HasPicture(cand) /\ localPending \in Seq(Frame)
        /\ localPending' = Append(localPending, FrameOf(cand)) /\ cand' = Yielded(cand)
        /\ UNCHANGED <<accepted, replayed>> /\ stage = "drain"
    BY <1>5 DEF ProbeInv, TypeOK, DrainTakes, history, dealings, losses
  <2> QED
    BY <2>1, YieldedLine DEF OrderInv, CandidateInv
<1>6. CASE ReplayMustDrain \/ DrainEnds
  BY <1>2, <1>6 DEF ReplayMustDrain, DrainEnds, replayVars, history, dealings, losses
<1>7. CASE ReplayFails \/ Commit
  BY <1>1, <1>7 DEF ReplayFails, Commit
<1>8. CASE CallerStep \/ SendStep
  BY <1>1, <1>8 DEF CallerStep, StartSend, StartEnd, StartReceive, Begin, Flush, SendStep,
     SendUnrecordable, SendAccepted, EndAccepted, HandBack, Return
<1>9. CASE ReceiveStep \/ CodecAnswers \/ CandidateFails
  BY <1>1, <1>9 DEF ReceiveStep, ReceivePending, NothingPending, ReceiveProduced,
     ReceiveTooLarge, Deliver, Return, CodecAnswers, CandidateFails
<1>10. CASE Exhausted \/ CandidateUnbuilt \/ ReplayUnallocated
  BY <1>1, <1>10 DEF Exhausted, CandidateUnbuilt, ReplayUnallocated, HandBack, Return, callVars
<1>11. CASE UNCHANGED vars
  BY <1>1, <1>2, <1>11 DEF vars, callVars, replayVars, history, dealings, losses
<1> QED
  BY <1>3, <1>4, <1>5, <1>6, <1>7, <1>8, <1>9, <1>10, <1>11
     DEF Next, CallStep, AdvanceStep, ReplayStep

-----------------------------------------------------------------------------
(***************************************************************************)
(* Completeness.  A backend whose replay has queued frames loses them when *)
(* it fails; what it lost is forfeited, until another takes its place.     *)
(***************************************************************************)

InstalledWhole ==
  Range(accepted) = Decoded(delivered) \cup Decoded(pending) \cup Held(dec) \cup forfeited

CandidateWhole ==
  stage \in {"replay", "drain"} =>
    Range(SubSeq(accepted, 1, replayed)) = Decoded(localPending) \cup Held(cand)

WholeInv == InstalledWhole /\ CandidateWhole /\ LostOnlyUnallocated

LEMMA OpenedHeld == \A b : Held(OpenDecoder(b)) = {} /\ OpenDecoder(b).inside = <<>>
BY RangeOfEmpty DEF Held, OpenDecoder

LEMMA WholeInit == Init => WholeInv
<1> SUFFICES ASSUME Init PROVE WholeInv
  OBVIOUS
<1>1. /\ accepted = <<>> /\ delivered = <<>> /\ pending = <<>> /\ stage = "idle"
      /\ Held(dec) = {} /\ forfeited = {}
  BY OpenedHeld DEF Init
<1> QED
  BY <1>1, RangeOfEmpty, PacketsOfNone
     DEF WholeInv, InstalledWhole, CandidateWhole, LostOnlyUnallocated

\* What a backend has lost is made good by the one that takes its place, or never.
LEMMA LostOnlyNext ==
  ASSUME ProbeInv, LostOnlyUnallocated, [Next]_vars
  PROVE  LostOnlyUnallocated'
<1> USE DEF LostOnlyUnallocated, Advancing, losses, history
<1>1. unallocated \in Nat
  BY DEF ProbeInv, TypeOK
<1>2. CASE CallerStep
  BY <1>2 DEF CallerStep, StartSend, StartEnd, StartReceive, Begin, Flush
<1>3. CASE SendStep
  BY <1>3 DEF SendStep, SendUnrecordable, SendAccepted, EndAccepted, HandBack, Return
<1>4. CASE ReceiveStep
  BY <1>4 DEF ReceiveStep, ReceivePending, NothingPending, ReceiveProduced,
     ReceiveTooLarge, Deliver, Return
<1>5. CASE CodecAnswers
  BY <1>5 DEF CodecAnswers, Return
<1>6. CASE CandidateFails
  BY <1>6 DEF CandidateFails
<1>7. CASE Exhausted \/ CandidateUnbuilt \/ CandidateBuilt
  BY <1>7 DEF Exhausted, CandidateUnbuilt, CandidateBuilt, HandBack, callVars
<1>8. CASE ReplayUnallocated
  BY <1>1, <1>8 DEF ReplayUnallocated
<1>9. CASE ReplayStep
  BY <1>9 DEF ReplayStep, ReplayTakes, ReplayMustDrain, DrainTakes, DrainEnds, ReplayFails,
     Commit, NothingForfeited, callVars
<1>10. CASE UNCHANGED vars
  BY <1>10 DEF vars, callVars
<1> QED
  BY <1>2, <1>3, <1>4, <1>5, <1>6, <1>7, <1>8, <1>9, <1>10 DEF Next, CallStep, AdvanceStep

\* A step that neither gives away nor loses.
LEMMA KeptWhole ==
  ASSUME InstalledWhole, Held(dec') = Held(dec),
         UNCHANGED <<pending, delivered, accepted, forfeited>>
  PROVE  InstalledWhole'
BY DEF InstalledWhole

LEMMA FramesHandedOver ==
  ASSUME ProbeInv, CallInv, InstalledWhole, ReceivePending \/ ReceiveProduced
  PROVE  InstalledWhole'
<1>1. /\ delivered \in Seq(Frame) /\ pending \in Seq(Frame) /\ dec \in Decoder
      /\ accepted' = accepted /\ forfeited' = forfeited
  BY DEF ProbeInv, TypeOK, ReceivePending, ReceiveProduced, Deliver, losses
<1>2. CASE ReceivePending
  <2>1. /\ pending # <<>> /\ pending' = Tail(pending) /\ dec' = dec
        /\ delivered' = Append(delivered, Head(pending))
    BY <1>2 DEF ReceivePending, Deliver
  <2>2. Head(pending) \in Frame
          /\ Decoded(pending) = {Head(pending).of} \cup Decoded(Tail(pending))
    BY <1>1, <2>1, PacketsOfRest
  <2>3. Decoded(Append(delivered, Head(pending))) = Decoded(delivered) \cup {Head(pending).of}
    BY <1>1, <2>2, PacketsOfMore
  <2> QED
    BY <1>1, <2>1, <2>2, <2>3 DEF InstalledWhole
<1>3. CASE ReceiveProduced
  <2>1. /\ HasPicture(dec) /\ pending' = pending /\ dec' = Yielded(dec)
        /\ delivered' = Append(delivered, FrameOf(dec))
    BY <1>3 DEF ReceiveProduced, Deliver
  <2>2. Decoded(delivered') = Decoded(delivered) \cup {NextPicture(dec)}
    BY <1>1, <2>1, PacketsOfMore, FrameOfPicture DEF FrameOf
  <2>3. Held(dec) = Held(dec') \cup {NextPicture(dec)}
    BY <1>1, <2>1, YieldedHeld
  <2> QED
    BY <1>1, <2>1, <2>2, <2>3 DEF InstalledWhole
<1> QED
  BY <1>2, <1>3

LEMMA CommitWhole ==
  ASSUME ProbeInv, CallInv, CandidateWhole, Commit
  PROVE  InstalledWhole'
<1>1. /\ accepted \in Seq(Nat) /\ Len(accepted) \in Nat /\ replayed \in Nat
      /\ localPending \in Seq(Frame) /\ buffered = accepted
      /\ replayed <= Len(accepted) /\ stage = "replay"
  BY LenProperties DEF ProbeInv, TypeOK, ReplayInv, TrialInv, FedInv, Advancing, Commit
<1>2. pending = <<>> /\ delivered = <<>>
  BY DEF ProbeInv, TrialInv, CallInv, Advancing, Commit
<1>3. pending' = localPending
  BY <1>1, <1>2, ConcatEmptySeq DEF Commit
<1>4. dec' = cand /\ forfeited' = {} /\ UNCHANGED <<delivered, accepted>>
  BY DEF Commit, NothingForfeited, dealings
<1>5. SubSeq(accepted, 1, replayed) = accepted
  <2>1. replayed = Len(accepted)
    BY <1>1 DEF Commit, PacketsLeft
  <2> QED
    BY <1>1, <2>1, SubSeqFull
<1>6. Range(accepted) = Decoded(localPending) \cup Held(cand)
  BY <1>1, <1>5 DEF CandidateWhole
<1> QED
  BY <1>2, <1>3, <1>4, <1>6, PacketsOfNone DEF InstalledWhole

LEMMA InstalledWholeNext ==
  ASSUME ProbeInv, CallInv, WholeInv, [Next]_vars
  PROVE  InstalledWhole'
<1> USE DEF history, dealings, losses
<1>1. dec \in Decoder
  BY DEF ProbeInv, TypeOK
<1>2. InstalledWhole
  BY DEF WholeInv
<1>3. CASE CallerStep /\ ~Flush
  BY <1>2, <1>3, KeptWhole DEF CallerStep, StartSend, StartEnd, StartReceive, Begin
<1>4. CASE Flush
  <2>1. /\ accepted' = <<>> /\ delivered' = <<>> /\ pending' = <<>> /\ Held(dec') = {}
        /\ forfeited' = {}
    BY <1>1, <1>4, FlushedHeld DEF Flush
  <2> QED
    BY <2>1, RangeOfEmpty, PacketsOfNone DEF InstalledWhole
<1>5. CASE SendUnrecordable \/ Exhausted
  BY <1>2, <1>5, KeptWhole DEF SendUnrecordable, Exhausted, HandBack
<1>6. CASE SendAccepted
  <2>1. /\ nextPacket \in Nat /\ accepted \in Seq(Nat)
        /\ dec' \in Takes(dec, nextPacket) /\ accepted' = Append(accepted, nextPacket)
        /\ UNCHANGED <<delivered, pending, forfeited>>
    BY <1>6 DEF ProbeInv, TypeOK, SendAccepted
  <2>2. Held(dec') = Held(dec) \cup {nextPacket}
    BY <1>1, <2>1, TakenHeld
  <2>3. Range(accepted') = Range(accepted) \cup {nextPacket}
    BY <2>1, RangeOfAppend
  <2> QED
    BY <1>2, <2>1, <2>2, <2>3 DEF InstalledWhole
<1>7. CASE EndAccepted
  <2>1. Held(dec') = Held(dec)
    BY <1>1, <1>7, EndTakenHeld DEF EndAccepted
  <2> QED
    BY <1>2, <1>7, <2>1, KeptWhole DEF EndAccepted
<1>8. CASE ReceivePending \/ ReceiveProduced
  BY <1>2, <1>8, FramesHandedOver
<1>9. CASE NothingPending
  BY <1>2, <1>9, KeptWhole DEF NothingPending
<1>10. CASE ReceiveTooLarge
  <2>1. Held(dec') = Held(dec)
    BY <1>1, <1>10, YieldedHeld DEF ReceiveTooLarge
  <2> QED
    BY <1>2, <1>10, <2>1, KeptWhole DEF ReceiveTooLarge
<1>11. CASE CodecAnswers
  <2>1. Held(dec') = Held(dec)
    BY <1>1, <1>11, ErrorKept, CollectedKept DEF CodecAnswers, Kept
  <2> QED
    BY <1>2, <1>11, <2>1, KeptWhole DEF CodecAnswers
<1>12. CASE CandidateFails
  <2>1. PICK e \in Errors : dec' = Collected(Collected(e.after))
    BY <1>12 DEF CandidateFails
  <2>2. Held(dec') = Held(dec)
    BY <1>1, <2>1, ErrorKept, CollectedKept DEF Kept
  <2>3. /\ pending' = <<>> /\ forfeited' = forfeited \cup Decoded(pending)
        /\ UNCHANGED <<delivered, accepted>>
    BY <1>12 DEF CandidateFails, QueuedFramesDropped
  <2> QED
    BY <1>2, <2>2, <2>3, PacketsOfNone DEF InstalledWhole
<1>13. CASE CandidateUnbuilt \/ ReplayFails \/ ReplayUnallocated
  BY <1>2, <1>13, KeptWhole DEF CandidateUnbuilt, ReplayFails, ReplayUnallocated
<1>14. CASE CandidateBuilt \/ ReplayTakes \/ ReplayMustDrain \/ DrainTakes \/ DrainEnds
  BY <1>2, <1>14, KeptWhole
     DEF CandidateBuilt, ReplayTakes, ReplayMustDrain, DrainTakes, DrainEnds
<1>15. CASE Commit
  BY <1>15, CommitWhole DEF WholeInv
<1>16. CASE UNCHANGED vars
  BY <1>2, <1>16, KeptWhole DEF vars
<1> QED
  BY <1>3, <1>4, <1>5, <1>6, <1>7, <1>8, <1>9, <1>10, <1>11, <1>12, <1>13, <1>14, <1>15,
     <1>16
     DEF Next, CallStep, CallerStep, SendStep, ReceiveStep, AdvanceStep, ReplayStep

LEMMA CandidateWholeNext ==
  ASSUME ProbeInv, CandidateWhole, [Next]_vars
  PROVE  CandidateWhole'
<1>1. CASE stage' \notin {"replay", "drain"}
  BY <1>1 DEF CandidateWhole
<1>2. CASE stage \in {"replay", "drain"} /\ UNCHANGED <<cand, localPending, accepted, replayed>>
  BY <1>2 DEF CandidateWhole
<1>3. CASE CandidateBuilt
  <2>1. accepted \in Seq(Nat)
    BY DEF ProbeInv, TypeOK
  <2>2. SubSeq(accepted, 1, 0) = <<>>
    BY <2>1, SubSeqProperties, EmptySeq
  <2>3. localPending' = <<>> /\ Held(cand') = {} /\ replayed' = 0 /\ accepted' = accepted
    BY <1>3, OpenedHeld DEF CandidateBuilt, history, dealings, losses
  <2> QED
    BY <2>2, <2>3, RangeOfEmpty, PacketsOfNone DEF CandidateWhole
<1>4. CASE ReplayTakes
  <2>1. /\ cand \in Decoder /\ accepted \in Seq(Nat) /\ buffered = accepted
        /\ Len(accepted) \in Nat /\ replayed \in Nat /\ accepted' = accepted
        /\ localPending' = localPending
        /\ Range(SubSeq(accepted, 1, replayed)) = Decoded(localPending) \cup Held(cand)
    BY <1>4, LenProperties DEF ProbeInv, TypeOK, TrialInv, FedInv, Advancing, ReplayTakes,
       CandidateWhole, history, dealings, losses
  <2>2. CASE PacketsLeft /\ cand' \in Takes(cand, buffered[replayed + 1])
               /\ replayed' = replayed + 1
    <3>1. replayed + 1 \in 1 .. Len(accepted)
      BY <2>1, <2>2 DEF PacketsLeft
    <3>2. /\ Range(SubSeq(accepted, 1, replayed'))
               = Range(SubSeq(accepted, 1, replayed)) \cup {accepted[replayed + 1]}
          /\ accepted[replayed + 1] \in Nat
      BY <2>1, <2>2, <3>1, SubSeqNext
    <3>3. Held(cand') = Held(cand) \cup {accepted[replayed + 1]}
      BY <2>1, <2>2, <3>2, TakenHeld
    <3> QED
      BY <2>1, <3>2, <3>3 DEF CandidateWhole
  <2>3. CASE EndLeft /\ cand' \in TakesEnd(cand) /\ UNCHANGED replayed
    <3>1. Held(cand') = Held(cand)
      BY <2>1, <2>3, EndTakenHeld
    <3> QED
      BY <2>1, <2>3, <3>1 DEF CandidateWhole
  <2> QED
    BY <1>4, <2>2, <2>3 DEF ReplayTakes
<1>5. CASE DrainTakes
  <2>1. /\ cand \in Decoder /\ HasPicture(cand) /\ localPending \in Seq(Frame)
        /\ localPending' = Append(localPending, FrameOf(cand)) /\ cand' = Yielded(cand)
        /\ UNCHANGED <<accepted, replayed>> /\ stage = "drain"
    BY <1>5 DEF ProbeInv, TypeOK, DrainTakes, history, dealings, losses
  <2>2. Decoded(localPending') = Decoded(localPending) \cup {NextPicture(cand)}
    BY <2>1, PacketsOfMore, FrameOfPicture DEF FrameOf
  <2>3. Held(cand) = Held(cand') \cup {NextPicture(cand)}
    BY <2>1, YieldedHeld
  <2> QED
    BY <2>1, <2>2, <2>3 DEF CandidateWhole
<1>6. CASE ReplayMustDrain \/ DrainEnds
  BY <1>2, <1>6 DEF ReplayMustDrain, DrainEnds, replayVars, history, dealings, losses
<1>7. CASE ReplayFails \/ Commit
  BY <1>1, <1>7 DEF ReplayFails, Commit
<1>8. CASE CallerStep \/ SendStep
  BY <1>1, <1>8 DEF CallerStep, StartSend, StartEnd, StartReceive, Begin, Flush, SendStep,
     SendUnrecordable, SendAccepted, EndAccepted, HandBack, Return
<1>9. CASE ReceiveStep \/ CodecAnswers \/ CandidateFails
  BY <1>1, <1>9 DEF ReceiveStep, ReceivePending, NothingPending, ReceiveProduced,
     ReceiveTooLarge, Deliver, Return, CodecAnswers, CandidateFails
<1>10. CASE Exhausted \/ CandidateUnbuilt \/ ReplayUnallocated
  BY <1>1, <1>10 DEF Exhausted, CandidateUnbuilt, ReplayUnallocated, HandBack, Return, callVars
<1>11. CASE UNCHANGED vars
  BY <1>1, <1>2, <1>11 DEF vars, callVars, replayVars, history, dealings, losses
<1> QED
  BY <1>3, <1>4, <1>5, <1>6, <1>7, <1>8, <1>9, <1>10, <1>11
     DEF Next, CallStep, AdvanceStep, ReplayStep

\* Ended is only answered by a committed backend that has nothing left inside.
LEMMA EndedNext ==
  ASSUME ProbeInv, CallInv, InstalledWhole, EndedComplete, [Next]_vars
  PROVE  EndedComplete'
<1>1. CASE answer' # "ended"
  BY <1>1 DEF EndedComplete
<1>2. CASE UNCHANGED vars
  BY <1>2 DEF EndedComplete, vars, callVars, history, dealings, losses
<1>3. CASE /\ answer' = "ended" /\ stage = "codec"
           /\ UNCHANGED <<dec, probing, pending, eofSent, history>>
           /\ \E e \in Errors : /\ Status(HwExit(e.after, e.errno)) # "none"
                                /\ answer' = Status(HwExit(e.after, e.errno))
  <2>1. call = "receive" /\ ~probing /\ eofSent /\ ~HasPicture(dec)
    BY <1>3, FlowSignal
  <2>2. proven /\ pending = <<>>
    BY <1>3, <2>1 DEF CallInv, Advancing
  <2>3. Held(dec) = dec.dropped
    BY <2>1, RangeOfEmpty DEF Held, HasPicture
  <2>4. Range(accepted) = Decoded(delivered) \cup dec.dropped \cup forfeited
    BY <1>3, <2>2, <2>3, PacketsOfNone DEF InstalledWhole
  <2> QED
    BY <1>3, <2>1, <2>2, <2>4 DEF EndedComplete, history, dealings, losses
<1> QED
  BY <1>1, <1>2, <1>3, FlowAnswerGiven DEF FlowAnswers

\* The frames handed over and queued, read as one sequence.
LEMMA FramesTogether ==
  ASSUME TypeOK, InstalledInv
  PROVE  OneBackendInOrder
<1> DEFINE frames == delivered \o pending
           m == Len(delivered)
           n == Len(pending)
<1>1. /\ delivered \in Seq(Frame) /\ pending \in Seq(Frame)
      /\ m \in Nat /\ n \in Nat
  BY LenProperties DEF TypeOK
<1>2. /\ frames \in Seq(Frame) /\ Len(frames) = m + n /\ DOMAIN frames = 1 .. m + n
      /\ \A i \in 1 .. m + n : frames[i] = IF i <= m THEN delivered[i] ELSE pending[i - m]
  BY <1>1, ConcatProperties, LenProperties
<1>3. /\ \A i \in 1 .. m : delivered[i] \in Frame /\ delivered[i].of \in Decoded(delivered)
      /\ \A i \in 1 .. n : pending[i] \in Frame /\ pending[i].of \in Decoded(pending)
      /\ DOMAIN delivered = 1 .. m /\ DOMAIN pending = 1 .. n
  BY <1>1, PacketsOf DEF Decoded
<1>4. /\ \A i, j \in 1 .. m : i < j => delivered[i].of < delivered[j].of
      /\ \A i, j \in 1 .. n : i < j => pending[i].of < pending[j].of
      /\ \A i \in 1 .. m, j \in 1 .. n : delivered[i].of < pending[j].of
  BY <1>3 DEF InstalledInv, InLine, Increasing, Packets, Before
<1>5. /\ \A i \in 1 .. m : delivered[i].by = dec.backend
      /\ \A i \in 1 .. n : pending[i].by = dec.backend
  BY <1>3 DEF InstalledInv, InLine, MadeBy
<1> HIDE DEF frames, m, n
<1>6. ASSUME NEW i \in 1 .. m + n
      PROVE  frames[i].by = dec.backend
  <2>1. i > m => i - m \in 1 .. n
    BY <1>1
  <2>2. i <= m => i \in 1 .. m
    BY <1>1
  <2> QED
    BY <1>1, <1>2, <1>5, <2>1, <2>2
<1>7. ASSUME NEW i \in 1 .. m + n, NEW j \in 1 .. m + n, i < j
      PROVE  frames[i].of < frames[j].of
  <2>1. CASE j <= m
    <3>1. i \in 1 .. m /\ j \in 1 .. m /\ i <= m
      BY <1>1, <1>7, <2>1
    <3> QED
      BY <1>2, <1>4, <1>7, <2>1, <3>1
  <2>2. CASE i <= m /\ ~(j <= m)
    <3>1. i \in 1 .. m /\ j - m \in 1 .. n
      BY <1>1, <2>2
    <3> QED
      BY <1>2, <1>4, <2>2, <3>1
  <2>3. CASE ~(i <= m)
    <3>1. i - m \in 1 .. n /\ j - m \in 1 .. n /\ i - m < j - m /\ ~(j <= m)
      BY <1>1, <1>7, <2>3
    <3> QED
      BY <1>2, <1>4, <2>3, <3>1
  <2> QED
    BY <2>1, <2>2, <2>3
<1> QED
  BY <1>2, <1>6, <1>7 DEF OneBackendInOrder, frames

-----------------------------------------------------------------------------
(***************************************************************************)
(* The rescue contract, step by step.                                      *)
(***************************************************************************)

RescueStep == [Rescue!Next]_Rescue!rescueVars

LEMMA HiddenStep ==
  ASSUME stage # "released", stage' # "released",
         proven => dec'.backend = dec.backend, UNCHANGED dealings
  PROVE  RescueStep
BY DEF RescueStep, Rescue!rescueVars, dealings

LEMMA SubSeqAppend ==
  ASSUME NEW S, NEW s \in Seq(S), NEW x \in S
  PROVE  SubSeq(Append(s, x), 1, Len(s)) = s
<1>1. /\ Len(s) \in Nat /\ \A i \in 1 .. Len(s) : s[i] \in S
      /\ \A i \in 1 .. Len(s) : Append(s, x)[i] = s[i]
  BY AppendProperties, LenProperties, ElementOfSeq
<1>2. \A i \in 1 .. Len(s) : Append(s, x)[i] \in S
  BY <1>1
<1>3. /\ SubSeq(Append(s, x), 1, Len(s)) \in Seq(S)
      /\ Len(SubSeq(Append(s, x), 1, Len(s))) = Len(s)
      /\ \A i \in 1 .. Len(s) : SubSeq(Append(s, x), 1, Len(s))[i] = s[i]
  BY <1>1, <1>2, SubSeqProperties
<1> QED
  BY <1>3, SeqEqual

\* What is shown comes last, from the backend that is committed to by it.
LEMMA DeliverRescue ==
  ASSUME ProbeInv, InstalledInv', dec'.backend = dec.backend, stage # "released",
         NEW frame \in Frame, Deliver(frame)
  PROVE  RescueStep
<1> DEFINE n == Len(delivered)
<1>1. /\ delivered \in Seq(Frame) /\ n \in Nat /\ accepted' = accepted
      /\ delivered' = Append(delivered, frame) /\ UNCHANGED handedBack
      /\ proven' = TRUE /\ stage' = "idle"
  BY LenProperties DEF ProbeInv, TypeOK, Deliver, Return
<1>2. /\ delivered' \in Seq(Frame) /\ Len(delivered') = n + 1 /\ delivered'[n + 1] = frame
      /\ DOMAIN delivered' = 1 .. n + 1
  BY <1>1, AppendProperties, LenProperties
<1>3. SubSeq(delivered', 1, n) = delivered
  BY <1>1, SubSeqAppend
<1>4. Rescue!Extends(delivered', delivered)
  BY <1>2, <1>3 DEF Rescue!Extends
<1>5. Rescue!InOrder(delivered')
  BY <1>2 DEF InstalledInv, InLine, Increasing, Packets, Rescue!InOrder
<1>6. frame.by = dec'.backend
  BY <1>1, <1>2 DEF InstalledInv, InLine, MadeBy
<1>7. Rescue!Taken(frame.of)
  <2>1. frame.of \in Decoded(delivered')
    BY <1>1, <1>2 DEF Decoded
  <2>2. frame.of \in Range(accepted)
    BY <1>1, <2>1 DEF InstalledInv, InLine
  <2> QED
    BY <2>2 DEF Rescue!Taken, Range
<1> HIDE DEF n
<1>8. Rescue!Show
  BY <1>1, <1>2, <1>4, <1>5, <1>6, <1>7 DEF Rescue!Show
<1> QED
  BY <1>8 DEF RescueStep, Rescue!Next

LEMMA TakeRescue ==
  ASSUME ProbeInv, SendAccepted
  PROVE  RescueStep
<1>1. /\ accepted \in Seq(Nat) /\ Len(accepted) \in Nat /\ nextPacket \in Nat
      /\ dec \in Decoder /\ accepted' = Append(accepted, nextPacket)
      /\ dec' \in Takes(dec, nextPacket) /\ stage = "codec" /\ stage' = "idle"
      /\ UNCHANGED <<delivered, handedBack, proven>>
  BY LenProperties DEF ProbeInv, TypeOK, SendAccepted, Return
<1>2. dec'.backend = dec.backend
  BY <1>1, TakenBackend
<1>3. Len(accepted') = Len(accepted) + 1 /\ SubSeq(accepted', 1, Len(accepted)) = accepted
  BY <1>1, AppendProperties, SubSeqAppend
<1>4. Rescue!Extends(accepted', accepted)
  BY <1>3 DEF Rescue!Extends
<1>5. Rescue!Take
  BY <1>1, <1>2, <1>4 DEF Rescue!Take
<1> QED
  BY <1>5 DEF RescueStep, Rescue!Next

LEMMA ReturnRescue ==
  ASSUME ProbeInv, probing, stage # "released", HandBack, UNCHANGED dec
  PROVE  RescueStep
<1>1. ~proven /\ buffered = accepted
  BY DEF ProbeInv, TrialInv, FedInv
<1>2. Rescue!Return
  BY <1>1 DEF HandBack, Rescue!Return
<1> QED
  BY <1>2 DEF RescueStep, Rescue!Next

LEMMA SeekRescue ==
  ASSUME ProbeInv, Flush
  PROVE  RescueStep
<1>1. Flushed(dec).backend = dec.backend
  BY DEF Flushed, Decoder, ProbeInv, TypeOK
<1>2. Rescue!Seek
  BY <1>1 DEF Flush, Rescue!Seek
<1> QED
  BY <1>2 DEF RescueStep, Rescue!Next

LEMMA RescueNextStep ==
  ASSUME ProbeInv, CallInv, InstalledInv', [Next]_vars
  PROVE  RescueStep
<1>1. dec \in Decoder
  BY DEF ProbeInv, TypeOK
<1>2. CASE CallerStep /\ ~Flush
  BY <1>2, HiddenStep DEF CallerStep, StartSend, StartEnd, StartReceive, Begin, history
<1>3. CASE Flush
  BY <1>3, SeekRescue
<1>4. CASE SendUnrecordable \/ Exhausted
  BY <1>4, ReturnRescue DEF SendUnrecordable, Exhausted, ProbeInv, TrialInv, Advancing
<1>5. CASE SendAccepted
  BY <1>5, TakeRescue
<1>6. CASE EndAccepted
  BY <1>1, <1>6, HiddenStep, EndTakenBackend DEF EndAccepted, Return, history
<1>7. CASE ReceivePending
  <2>1. pending \in Seq(Frame) /\ pending # <<>> /\ dec' = dec /\ Deliver(Head(pending))
    BY <1>7 DEF ProbeInv, TypeOK, ReceivePending
  <2>2. Head(pending) \in Frame
    BY <2>1, HeadTailProperties
  <2>3. stage # "released"
    BY <1>7 DEF ReceivePending
  <2> QED
    BY <1>1, <2>1, <2>2, <2>3, DeliverRescue
<1>8. CASE ReceiveProduced
  <2>1. HasPicture(dec) /\ dec' = Yielded(dec) /\ Deliver(FrameOf(dec)) /\ stage # "released"
    BY <1>8 DEF ReceiveProduced
  <2>2. FrameOf(dec) \in Frame /\ dec'.backend = dec.backend
    BY <1>1, <2>1, FrameOfPicture, YieldedBackend
  <2> QED
    BY <1>1, <2>1, <2>2, DeliverRescue
<1>9. CASE NothingPending
  BY <1>9, HiddenStep DEF NothingPending, history
<1>10. CASE ReceiveTooLarge
  BY <1>1, <1>10, HiddenStep, YieldedBackend DEF ReceiveTooLarge, Return, history
<1>11. CASE CodecAnswers
  <2>1. dec'.backend = dec.backend
    BY <1>1, <1>11, ErrorKept, CollectedKept DEF CodecAnswers, Kept
  <2> QED
    BY <1>11, <2>1, HiddenStep DEF CodecAnswers, Return, history
<1>12. CASE CandidateFails
  <2>1. PICK e \in Errors : dec' = Collected(Collected(e.after))
    BY <1>12 DEF CandidateFails
  <2>2. dec'.backend = dec.backend
    BY <1>1, <2>1, ErrorKept, CollectedKept DEF Kept
  <2> QED
    BY <1>12, <2>2, HiddenStep DEF CandidateFails
<1>13. CASE CandidateUnbuilt \/ ReplayUnallocated \/ CandidateBuilt
  BY <1>13, HiddenStep
     DEF CandidateUnbuilt, ReplayUnallocated, CandidateBuilt, Return, callVars, history
<1>14. CASE ReplayTakes \/ ReplayMustDrain \/ DrainTakes \/ DrainEnds \/ ReplayFails
  BY <1>14, HiddenStep
     DEF ReplayTakes, ReplayMustDrain, DrainTakes, DrainEnds, ReplayFails, ReplayErrors, callVars,
         history
<1>15. CASE Commit
  <2>1. ~proven
    BY <1>15 DEF ProbeInv, TrialInv, Advancing, Commit
  <2> QED
    BY <1>15, <2>1, HiddenStep DEF Commit
<1>16. CASE UNCHANGED vars
  BY <1>16 DEF RescueStep, Rescue!rescueVars, vars, callVars, history, dealings, losses
<1> QED
  BY <1>2, <1>3, <1>4, <1>5, <1>6, <1>7, <1>8, <1>9, <1>10, <1>11, <1>12, <1>13, <1>14,
     <1>15, <1>16
     DEF Next, CallStep, CallerStep, SendStep, ReceiveStep, AdvanceStep, ReplayStep

LEMMA RescueInitial == Init => Rescue!Init
BY DEF Init, Rescue!Init

-----------------------------------------------------------------------------
LEMMA CallInductive == Spec => []CallInv
BY CallInit, CallNext, Inductive, PTL DEF Spec

LEMMA OrderInductive == Spec => []OrderInv
<1>1. ProbeInv /\ CallInv /\ OrderInv /\ [Next]_vars => OrderInv'
  BY InstalledNext, CandidateNext DEF OrderInv
<1> QED
  BY <1>1, OrderInit, Inductive, CallInductive, PTL DEF Spec

LEMMA WholeInductive == Spec => []WholeInv
<1>1. ProbeInv /\ CallInv /\ WholeInv /\ [Next]_vars => WholeInv'
  BY LostOnlyNext, InstalledWholeNext, CandidateWholeNext DEF WholeInv
<1> QED
  BY <1>1, WholeInit, Inductive, CallInductive, PTL DEF Spec

\* The probe's state keeps its type in every run of the session.
THEOREM ProbeTypeCorrect == Spec => []TypeOK
<1>1. ProbeInv => TypeOK
  BY DEF ProbeInv
<1> QED
  BY <1>1, Inductive, PTL

\* Whichever backend is installed, and however many replays led to it, it has been
\* fed exactly what the session accepted, as will be the one that replaces it.
THEOREM HistoryKept == Spec => []FedWholeHistory
<1>1. ProbeInv => FedWholeHistory
  BY DEF ProbeInv, FedInv, ReplayInv, FedWholeHistory
<1> QED
  BY <1>1, Inductive, PTL

\* AllBackendsFailed carries everything the software decoder has to start from.
THEOREM RescueComplete == Spec => []HandsBackEverything
<1>1. ProbeInv => HandsBackEverything
  BY DEF ProbeInv
<1> QED
  BY <1>1, Inductive, PTL

\* MustDrain is only answered while there is something to drain and input is still
\* taken, NeedsInput while nothing is queued and input is still taken, and neither
\* they nor Ended while a callback's refusal waits to be read; and a surface that a
\* callback declined is in the log as a refusal.
THEOREM FlowKept == Spec => [](FlowHonest /\ RefusalsNamed)
<1>1. ProbeInv /\ CallInv /\ FlowHonest /\ [Next]_vars => FlowHonest'
  BY FlowNext
<1>2. ProbeInv /\ RefusalsNamed /\ [Next]_vars => RefusalsNamed'
  BY LogNext
<1> QED
  BY <1>1, <1>2, FlowInit, LogInit, Inductive, CallInductive, PTL DEF Spec

\* The frames handed over and queued are one backend's, in packet order, none
\* twice, whichever backends failed before it.
THEOREM BackendsApart == Spec => []OneBackendInOrder
<1>1. ProbeInv /\ OrderInv => OneBackendInOrder
  BY FramesTogether DEF ProbeInv, OrderInv
<1> QED
  BY <1>1, Inductive, OrderInductive, PTL

\* What the caller is shown is one backend's whole output, whichever backends failed
\* and wherever they did, but for the queue of one that failed and was kept because
\* memory ran out while it was being replaced.
THEOREM FramesKept == Spec => []FramesWhole
<1>1. WholeInv => NothingElseLost /\ LostOnlyUnallocated
  BY DEF WholeInv, InstalledWhole, NothingElseLost, Held
<1>2. Spec => [](NothingElseLost /\ LostOnlyUnallocated)
  BY <1>1, WholeInductive, PTL
<1>3. NothingElseLost /\ LostOnlyUnallocated /\ OneBackendInOrder => FramesWhole
  BY DEF FramesWhole
<1> QED
  BY <1>2, <1>3, BackendsApart, PTL

\* Every answer is one the caller can act on: Ended too, which is a committed
\* backend's and leaves nothing behind but what that backend had lost before.
THEOREM AnswersKept == Spec => []AnswersHonest
<1>1. Init => EndedComplete
  BY DEF Init, EndedComplete
<1>2. ProbeInv /\ CallInv /\ WholeInv /\ EndedComplete /\ [Next]_vars => EndedComplete'
  BY EndedNext DEF WholeInv
<1>3. Spec => []EndedComplete
  BY <1>1, <1>2, Inductive, CallInductive, WholeInductive, PTL DEF Spec
<1>4. FlowHonest /\ RefusalsNamed /\ EndedComplete => AnswersHonest
  BY DEF AnswersHonest
<1> QED
  BY <1>3, <1>4, FlowKept, PTL

\* Seen from the caller, the session keeps the rescue contract: either one backend
\* decodes the packets it takes, or, before any frame was handed over, the caller
\* gets every one of them back.
THEOREM RescueKept == Spec => ImplementsRescue
<1>1. Init => Rescue!Init
  BY RescueInitial
<1>2. ProbeInv /\ CallInv /\ OrderInv' /\ [Next]_vars
        => [Rescue!Next]_Rescue!rescueVars
  BY RescueNextStep DEF RescueStep, OrderInv
<1>3. Spec => Rescue!Spec
  BY <1>1, <1>2, Inductive, CallInductive, OrderInductive, PTL DEF Spec, Rescue!Spec
<1> QED
  BY <1>3 DEF ImplementsRescue

=============================================================================
