----------------------- MODULE FfmpegVideoStreamProofs -----------------------
(***************************************************************************)
(* Proofs about the video stream session: for any depth of the decoders,   *)
(* any cap and any number of packets, no picture is lost when the software *)
(* decoder takes over, the end is never recorded with one and not the      *)
(* other, and an error that returns packets returns all of them.           *)
(***************************************************************************)
EXTENDS FfmpegVideoStream, LibavDecoderProofs

-----------------------------------------------------------------------------
(* The inductive invariant.                                                 *)

\* A call asks a decoder only with an empty seat, and sends nothing past the end.
QuestionInv ==
  /\ stage # "idle" => call # "none"
  /\ stage \notin {"idle", "front"} => parked = <<>>
  /\ stage # "idle" /\ call \in {"packet", "end"} => ~eofSent

\* The end is recorded with the decoder, but for the last step of a send_eof
\* that fell back.
EndInv ==
  IF stage = "committed" THEN dec.ended /\ call = "end" ELSE dec.ended = eofSent

\* The software decoder of a fallback has been fed a prefix of what is rescued,
\* the end only after all of it, and its pictures are owed, given up or queued.
FallbackInv ==
  stage \in {"replay", "drain"} =>
    /\ replayed <= Len(dec.fed)
    /\ sw.fed = SubSeq(dec.fed, 1, replayed)
    /\ sw.ended => EofPending /\ replayed = Len(dec.fed)
    /\ Range(sw.fed) = Held(sw) \cup Range(local)

\* On trial and in a fallback nothing has come out of the hardware.
TrialInv ==
  /\ trial => stage \notin Fallback
  /\ trial \/ stage \in Fallback =>
       /\ OnHardware /\ answer \notin RescueAnswers
       /\ delivered = <<>> /\ parked = <<>> /\ replay = <<>> /\ discarded = {}

HistoryInv == dec.fed = accepted /\ NothingLost

StreamInv ==
  /\ TypeOK /\ QuestionInv /\ EndInv /\ FallbackInv /\ TrialInv /\ HistoryInv
  /\ RescueWhole /\ RefusalFirst

-----------------------------------------------------------------------------
LEMMA TwoDecoders == "hw" \in Backends /\ "sw" \in Backends
BY StreamAssumption

LEMMA SoftwareOpen ==
  /\ OpenDecoder("sw") \in Decoder /\ OpenDecoder("hw") \in Decoder
  /\ \A b \in {"hw", "sw"} :
       OpenDecoder(b).fed = <<>> /\ OpenDecoder(b).ended = FALSE
         /\ Held(OpenDecoder(b)) = {} /\ OpenDecoder(b).backend = b
<1>1. OpenDecoder("sw") \in Decoder /\ OpenDecoder("hw") \in Decoder
  BY TwoDecoders, OpenedDecoder
<1>2. ASSUME NEW b \in {"hw", "sw"}
      PROVE  /\ OpenDecoder(b).fed = <<>> /\ OpenDecoder(b).ended = FALSE
             /\ Held(OpenDecoder(b)) = {} /\ OpenDecoder(b).backend = b
  BY RangeOfEmpty DEF OpenDecoder, Held
<1> QED
  BY <1>1, <1>2

\* No fallback is under way, and the values that stand for it have their type.
LEMMA NoFallbackType ==
  ASSUME NoFallback
  PROVE  sw' \in Decoder /\ replayed' \in Nat /\ attempts' \in Nat /\ local' \in Seq(Nat)
BY SoftwareOpen, EmptySeq DEF NoFallback

\* The seat holds one picture.
LEMMA Seat ==
  ASSUME TypeOK, parked # <<>>
  PROVE  Head(parked) \in Nat /\ Range(parked) = {Head(parked)}
<1>1. /\ Head(parked) \in Nat /\ Tail(parked) \in Seq(Nat)
      /\ Len(Tail(parked)) = Len(parked) - 1 /\ Len(parked) \in Nat \ {0}
  BY HeadTailProperties, EmptySeq DEF TypeOK
<1>2. Len(Tail(parked)) = 0
  BY <1>1 DEF TypeOK
<1>3. Tail(parked) = <<>>
  BY <1>1, <1>2, EmptySeq
<1> QED
  BY <1>1, <1>3, RangeOfSplit, RangeOfEmpty DEF TypeOK

LEMMA RangeOfSingle ==
  ASSUME NEW p \in Nat
  PROVE  Range(<<p>>) = {p} /\ <<p>> \in Seq(Nat) /\ Len(<<p>>) = 1
BY DEF Range

\* NothingLost, by what the decoder in use holds.
LEMMA Balance ==
  NothingLost <=>
    Range(accepted) =
      Range(delivered) \cup discarded \cup Range(parked) \cup Range(replay) \cup Held(dec)
BY DEF NothingLost, Held

LEMMA BalanceNext ==
  NothingLost' <=>
    Range(accepted') =
      Range(delivered') \cup discarded' \cup Range(parked') \cup Range(replay')
        \cup Held(dec')
BY DEF NothingLost, Held

LEMMA InitInv == Init => StreamInv
<1> SUFFICES ASSUME Init PROVE StreamInv
  OBVIOUS
<1> USE DEF Init
<1>1. /\ dec \in Decoder /\ sw \in Decoder /\ dec.fed = <<>> /\ dec.ended = FALSE
      /\ Held(dec) = {} /\ trial \in BOOLEAN /\ (trial => OnHardware)
  BY SoftwareOpen DEF OnHardware
<1>2. <<>> \in Seq(Nat) /\ Len(<<>>) = 0
  BY EmptySeq
<1>3. TypeOK
  <2>1. /\ path \in Paths /\ eofSent \in BOOLEAN
        /\ spare \in Nat /\ replayed \in Nat /\ attempts \in Nat /\ nextPacket \in Nat
        /\ call \in {"none", "packet", "end", "receive"}
    BY StreamAssumption
  <2>2. stage \in Stages /\ answer \in Answers
    BY DEF Stages, Answers
  <2>3. /\ replay \in Seq(Nat) /\ local \in Seq(Nat) /\ parked \in Seq(Nat)
        /\ Len(parked) <= 1 /\ accepted \in Seq(Nat) /\ delivered \in Seq(Nat)
        /\ handedBack \in Seq(Nat) /\ discarded \subseteq Nat
    BY <1>2
  <2> QED
    BY <1>1, <2>1, <2>2, <2>3 DEF TypeOK
<1>4. QuestionInv /\ EndInv /\ FallbackInv
  BY <1>1 DEF QuestionInv, EndInv, FallbackInv
<1>5. TrialInv
  BY <1>1 DEF TrialInv, Fallback, RescueAnswers
<1>6. HistoryInv
  BY <1>1, RangeOfEmpty, Balance DEF HistoryInv
<1>7. RescueWhole /\ RefusalFirst
  BY DEF RescueWhole, RefusalFirst, RescueAnswers, FlowAnswers
<1> QED
  BY <1>3, <1>4, <1>5, <1>6, <1>7 DEF StreamInv

-----------------------------------------------------------------------------
(* The caller's steps.                                                      *)

LEMMA SubmissionInv ==
  ASSUME StreamInv, NEW c \in {"packet", "end"}, StartSubmission(c)
  PROVE  StreamInv'
<1> USE DEF StartSubmission, session, fallback, history
<1>1. \/ answer' = "afterEof" /\ stage' = "idle" /\ call' = "none"
      \/ answer' = "mustDrain" /\ stage' = "idle" /\ call' = "none" /\ parked # <<>>
      \/ answer' = answer /\ stage' = "codec" /\ call' = c /\ ~eofSent /\ parked = <<>>
  BY DEF Return, Begin
<1>2. stage = "idle"
  OBVIOUS
<1>3. TypeOK'
  BY <1>1 DEF StreamInv, TypeOK, Stages, Answers, FlowAnswers
<1>4. QuestionInv' /\ EndInv' /\ FallbackInv'
  BY <1>1, <1>2 DEF StreamInv, QuestionInv, EndInv, FallbackInv
<1>5. TrialInv'
  BY <1>1, <1>2 DEF StreamInv, TrialInv, Fallback, OnHardware, RescueAnswers
<1>6. HistoryInv'
  BY DEF StreamInv, HistoryInv, NothingLost
<1>7. RescueWhole' /\ RefusalFirst'
  BY <1>1 DEF StreamInv, RescueWhole, RefusalFirst, OnHardware, RescueAnswers, FlowAnswers
<1> QED
  BY <1>3, <1>4, <1>5, <1>6, <1>7 DEF StreamInv

LEMMA ReceiveFrameInv ==
  ASSUME StreamInv, ReceiveFrame
  PROVE  StreamInv'
<1> USE DEF ReceiveFrame, Begin, session, fallback, history
<1>1. TypeOK'
  BY DEF StreamInv, TypeOK, Stages
<1>2. QuestionInv' /\ EndInv' /\ FallbackInv'
  BY DEF StreamInv, QuestionInv, EndInv, FallbackInv
<1>3. TrialInv'
  BY DEF StreamInv, TrialInv, Fallback, OnHardware
<1>4. HistoryInv'
  BY DEF StreamInv, HistoryInv, NothingLost
<1>5. RescueWhole' /\ RefusalFirst'
  BY DEF StreamInv, RescueWhole, RefusalFirst, OnHardware
<1> QED
  BY <1>1, <1>2, <1>3, <1>4, <1>5 DEF StreamInv

LEMMA FlushInv ==
  ASSUME StreamInv, Flush
  PROVE  StreamInv'
<1> USE DEF Flush, fallback
<1>1. /\ dec' \in Decoder /\ dec'.fed = <<>> /\ dec'.ended = FALSE /\ Held(dec') = {}
  BY FlushedInput, FlushedHeld DEF StreamInv, TypeOK
<1>2. dec'.backend = dec.backend
  BY DEF Flushed, StreamInv, TypeOK, Decoder
<1>3. <<>> \in Seq(Nat) /\ Len(<<>>) = 0
  BY EmptySeq
<1>4. TypeOK'
  <2>1. /\ replay' \in Seq(Nat) /\ parked' \in Seq(Nat) /\ Len(parked') <= 1
        /\ accepted' \in Seq(Nat) /\ delivered' \in Seq(Nat) /\ discarded' \subseteq Nat
    BY <1>3
  <2>2. answer' \in Answers /\ eofSent' \in BOOLEAN
    BY DEF Answers
  <2> QED
    BY <1>1, <2>1, <2>2 DEF StreamInv, TypeOK
<1>5. QuestionInv' /\ EndInv' /\ FallbackInv'
  BY <1>1 DEF StreamInv, QuestionInv, EndInv, FallbackInv
<1>6. TrialInv'
  BY <1>2 DEF StreamInv, TrialInv, Fallback, OnHardware, RescueAnswers
<1>7. HistoryInv'
  BY <1>1, RangeOfEmpty, BalanceNext DEF HistoryInv
<1>8. RescueWhole' /\ RefusalFirst'
  BY DEF RescueWhole, RefusalFirst, RescueAnswers, FlowAnswers
<1> QED
  BY <1>4, <1>5, <1>6, <1>7, <1>8 DEF StreamInv

-----------------------------------------------------------------------------
(* The question to the decoder in use, and what becomes of a picture.       *)

\* A call that ends with nothing taken and nothing handed over.
LEMMA ReturnInv ==
  ASSUME StreamInv, NEW a \in Answers \ RescueAnswers, Return(a), stage = "codec",
         SameInput(dec', dec), Held(dec') = Held(dec), dec'.backend = dec.backend,
         RefusalFirst',
         UNCHANGED <<path, trial, spare, replay, parked, eofSent, fallback, history>>
  PROVE  StreamInv'
<1> USE DEF Return, fallback, history
<1>1. TypeOK'
  BY DEF StreamInv, TypeOK, SameInput, Stages
<1>2. QuestionInv' /\ EndInv' /\ FallbackInv'
  BY DEF StreamInv, QuestionInv, EndInv, FallbackInv, SameInput
<1>3. TrialInv'
  BY DEF StreamInv, TrialInv, Fallback, OnHardware
<1>4. HistoryInv'
  BY Balance, BalanceNext DEF StreamInv, HistoryInv, SameInput
<1>5. RescueWhole'
  BY DEF RescueWhole
<1> QED
  BY <1>1, <1>2, <1>3, <1>4, <1>5 DEF StreamInv

LEMMA PacketUnbuiltInv ==
  ASSUME StreamInv, PacketUnbuilt
  PROVE  StreamInv'
<1>1. "failed" \in Answers \ RescueAnswers
  BY DEF Answers, RescueAnswers
<1>2. SameInput(dec', dec) /\ Held(dec') = Held(dec) /\ dec'.backend = dec.backend
  BY DEF PacketUnbuilt, session, StreamInv, TypeOK, SameInput
<1>3. RefusalFirst'
  BY DEF PacketUnbuilt, Return, RefusalFirst, FlowAnswers
<1> QED
  BY <1>1, <1>2, <1>3, ReturnInv DEF PacketUnbuilt, session

LEMMA ErrorInput ==
  ASSUME dec \in Decoder, NEW e \in Errors
  PROVE  /\ e.errno \in Errnos /\ SameInput(e.after, dec)
         /\ Held(e.after) = Held(dec) /\ e.after.backend = dec.backend
<1>1. CASE e \in SendErrors(dec)
  <2>1. e.after.backend = dec.backend
    BY <1>1 DEF SendErrors, Latched, Decoder
  <2> QED
    BY <1>1, <2>1, SendErrorInput, ErrorHeld
<1>2. ASSUME HasPicture(dec), NEW x \in Latched(PictureLost(dec))
      PROVE  x.backend = dec.backend
  BY <1>2 DEF Latched, PictureLost, Yielded, Decoder
<1>3. CASE e \in ReceiveErrors(dec)
  <2>1. e.after.backend = dec.backend
    BY <1>2, <1>3 DEF ReceiveErrors
  <2> QED
    BY <1>3, <2>1, ReceiveErrorInput, ErrorHeld
<1>4. CASE \E x \in Latched(PictureLost(dec)) :
             HasPicture(dec) /\ e = [errno |-> "fail", after |-> x]
  BY <1>2, <1>4, LostPictureInput, LostPictureHeld DEF Errnos
<1> QED
  BY <1>1, <1>3, <1>4 DEF Errors

LEMMA AfterVerdictInput ==
  ASSUME dec \in Decoder, NEW e \in Errors
  PROVE  /\ SameInput(AfterVerdict(e), dec) /\ Held(AfterVerdict(e)) = Held(dec)
         /\ AfterVerdict(e).backend = dec.backend
<1>1. /\ SameInput(e.after, dec) /\ Held(e.after) = Held(dec)
      /\ e.after.backend = dec.backend
  BY ErrorInput
<1> QED
  BY <1>1 DEF AfterVerdict, SameInput, Decoder, Held

\* A flow answer was classified from an errno, so no refusal was latched.
LEMMA FlowVerdict ==
  ASSUME NEW v, Status(v) # "none"
  PROVE  v \in {"again", "eof"} /\ Status(v) \in FlowAnswers
BY DEF Status, FlowAnswers

LEMMA CodecAnswersInv ==
  ASSUME StreamInv, CodecAnswers
  PROVE  StreamInv'
<1> DEFINE told(e) == IF Status(Verdict(e)) = "none" THEN "failed" ELSE Status(Verdict(e))
<1>1. PICK e \in Errors :
        /\ dec' = AfterVerdict(e)
        /\ eofSent' = (eofSent \/ TakesTheEnd(told(e)))
        /\ Return(told(e))
  BY DEF CodecAnswers
<1>2. dec \in Decoder /\ eofSent \in BOOLEAN /\ SameInput(e.after, dec)
  BY ErrorInput DEF StreamInv, TypeOK
<1>3. SameInput(dec', dec) /\ Held(dec') = Held(dec) /\ dec'.backend = dec.backend
  BY <1>1, <1>2, AfterVerdictInput
<1>4. told(e) \in Answers \ RescueAnswers /\ told(e) # "accepted"
  BY FlowVerdict DEF Answers, RescueAnswers, FlowAnswers
<1>5. eofSent' = eofSent
  BY <1>1, <1>2, <1>4 DEF TakesTheEnd
<1>6. RefusalFirst'
  <2> SUFFICES ASSUME answer' \in FlowAnswers
               PROVE  dec'.latch = {}
    BY DEF RefusalFirst
  <2>1. Status(Verdict(e)) # "none"
    BY <1>1 DEF Return, FlowAnswers
  <2>2. Verdict(e) # "budget"
    BY <2>1, FlowVerdict
  <2>3. dec' = e.after /\ "budget" \notin e.after.latch
    BY <1>1, <2>2 DEF AfterVerdict, Verdict
  <2>4. e.after.latch \subseteq Refusals
    BY <1>2 DEF SameInput, Decoder
  <2> QED
    BY <2>3, <2>4, StreamAssumption
<1> HIDE DEF told
<1>7. stage = "codec"
        /\ UNCHANGED <<path, trial, spare, replay, parked, fallback, history>>
  BY DEF CodecAnswers
<1> QED
  BY <1>1, <1>3, <1>4, <1>5, <1>6, <1>7, ReturnInv

LEMMA PacketAcceptedInv ==
  ASSUME StreamInv, PacketAccepted
  PROVE  StreamInv'
<1> USE DEF PacketAccepted, Return, fallback
<1>1. /\ dec' \in Decoder /\ dec'.fed = Append(dec.fed, nextPacket)
      /\ dec'.ended = dec.ended /\ Held(dec') = Held(dec) \cup {nextPacket}
      /\ nextPacket \in Nat
  BY TakenInput, TakenHeld DEF StreamInv, TypeOK
<1>2. dec'.backend = dec.backend
  BY DEF Takes, Latched, StreamInv, TypeOK, Decoder
<1>3. /\ accepted' \in Seq(Nat) /\ nextPacket' \in Nat
      /\ Range(accepted') = Range(accepted) \cup {nextPacket}
  <2>1. accepted \in Seq(Nat) /\ accepted' = Append(accepted, nextPacket)
          /\ nextPacket' = nextPacket + 1
    BY DEF StreamInv, TypeOK
  <2>2. Range(Append(accepted, nextPacket)) = Range(accepted) \cup {nextPacket}
    BY <1>1, <2>1, RangeOfAppend
  <2>3. Append(accepted, nextPacket) \in Seq(Nat)
    BY <1>1, <2>1, AppendProperties
  <2> HIDE DEF PacketAccepted
  <2> QED
    BY <1>1, <2>1, <2>2, <2>3
<1>4. TypeOK'
  BY <1>1, <1>3 DEF StreamInv, TypeOK, Stages, Answers
<1>5. QuestionInv' /\ EndInv' /\ FallbackInv'
  BY <1>1 DEF StreamInv, QuestionInv, EndInv, FallbackInv
<1>6. TrialInv'
  BY <1>2 DEF StreamInv, TrialInv, Fallback, OnHardware, RescueAnswers
<1>7. HistoryInv'
  BY <1>1, <1>3, Balance, BalanceNext DEF StreamInv, HistoryInv
<1>8. RescueWhole' /\ RefusalFirst'
  BY DEF RescueWhole, RefusalFirst, RescueAnswers, FlowAnswers
<1> QED
  BY <1>4, <1>5, <1>6, <1>7, <1>8 DEF StreamInv

LEMMA EndAcceptedInv ==
  ASSUME StreamInv, EndAccepted
  PROVE  StreamInv'
<1> USE DEF EndAccepted, Return, fallback, history
<1>1. /\ dec' \in Decoder /\ dec'.fed = dec.fed /\ dec'.ended = TRUE
      /\ Held(dec') = Held(dec) /\ eofSent' = TRUE
  BY EndTaken, EndTakenHeld DEF StreamInv, TypeOK, TakesTheEnd
<1>2. dec'.backend = dec.backend
  BY DEF TakesEnd, StreamInv, TypeOK, Decoder
<1>3. TypeOK'
  BY <1>1 DEF StreamInv, TypeOK, Stages, Answers
<1>4. QuestionInv' /\ EndInv' /\ FallbackInv'
  BY <1>1 DEF StreamInv, QuestionInv, EndInv, FallbackInv
<1>5. TrialInv'
  BY <1>2 DEF StreamInv, TrialInv, Fallback, OnHardware, RescueAnswers
<1>6. HistoryInv'
  BY <1>1, Balance, BalanceNext DEF StreamInv, HistoryInv
<1>7. RescueWhole' /\ RefusalFirst'
  BY DEF RescueWhole, RefusalFirst, RescueAnswers, FlowAnswers
<1> QED
  BY <1>3, <1>4, <1>5, <1>6, <1>7 DEF StreamInv

\* The next candidate owes the pictures of the whole history; none had come out.
LEMMA HwAdvancesInv ==
  ASSUME StreamInv, HwAdvances
  PROVE  StreamInv'
<1> USE DEF HwAdvances, callVars, fallback, history
<1>1. trial
  BY DEF FailsCandidate
<1>2. /\ dec \in Decoder /\ dec' \in Decoder /\ dec'.fed = dec.fed /\ dec'.ended = dec.ended
      /\ dec'.backend = dec.backend
      /\ dec'.inside = dec.fed /\ dec'.dropped = {} /\ spare' \in Nat
  <2>1. /\ dec \in Decoder /\ spare \in Nat /\ spare' \in 0 .. spare - 1
        /\ dec' = [dec EXCEPT !.inside = dec.fed, !.dropped = {}, !.latch = {}]
    BY DEF StreamInv, TypeOK
  <2>2. spare' \in Nat
    BY <2>1
  <2> HIDE DEF HwAdvances
  <2>3. dec.fed \in Seq(Nat) /\ {} \in SUBSET Nat /\ {} \in SUBSET Refusals
    BY <2>1 DEF Decoder
  <2>4. dec' \in Decoder
    BY <2>1, <2>3 DEF Decoder
  <2> QED
    BY <2>1, <2>2, <2>4 DEF Decoder
<1>3. Held(dec') = Range(accepted)
  BY <1>2 DEF Held, StreamInv, HistoryInv
<1>4. TypeOK'
  BY <1>2 DEF StreamInv, TypeOK
<1>5. QuestionInv' /\ EndInv' /\ FallbackInv'
  BY <1>2 DEF StreamInv, QuestionInv, EndInv, FallbackInv
<1>6. TrialInv'
  BY <1>2 DEF StreamInv, TrialInv, Fallback, OnHardware
<1>7. HistoryInv'
  BY <1>1, <1>2, <1>3, BalanceNext, RangeOfEmpty DEF StreamInv, HistoryInv, TrialInv
<1>8. RescueWhole' /\ RefusalFirst'
  BY <1>1 DEF StreamInv, TrialInv, RescueWhole, RefusalFirst
<1> QED
  BY <1>4, <1>5, <1>6, <1>7, <1>8 DEF StreamInv

LEMMA HwExhaustedInv ==
  ASSUME StreamInv, HwExhausted
  PROVE  StreamInv'
<1> USE DEF HwExhausted, fallback
<1>1. /\ trial /\ dec \in Decoder /\ dec.fed = accepted
      /\ delivered = <<>> /\ parked = <<>> /\ replay = <<>> /\ discarded = {}
      /\ OnHardware /\ answer \notin RescueAnswers
  BY DEF StreamInv, TypeOK, TrialInv, HistoryInv
<1>2. SameInput(dec', dec) /\ Held(dec') = Held(dec) /\ dec'.backend = dec.backend
  <2>1. CASE UNCHANGED dec
    BY <1>1, <2>1 DEF SameInput
  <2>2. CASE \E e \in Errors : dec' = AfterVerdict(e)
    BY <1>1, <2>2, AfterVerdictInput
  <2> QED
    BY <2>1, <2>2
<1>3. \/ stage' = "open" /\ UNCHANGED <<call, answer, handedBack>>
      \/ handedBack' = accepted /\ answer' = "allFailed" /\ stage' = "idle" /\ call' = "none"
  BY <1>1 DEF Return
<1>4. UNCHANGED <<path, spare, replay, parked, eofSent, sw, replayed, attempts, local,
                  nextPacket, accepted, delivered, discarded>> /\ trial' = FALSE
  OBVIOUS
<1> HIDE DEF HwExhausted
<1>5. TypeOK'
  BY <1>1, <1>2, <1>3, <1>4
     DEF StreamInv, TypeOK, SameInput, Stages, Fallback, Answers, RescueAnswers
<1>6. QuestionInv' /\ EndInv' /\ FallbackInv'
  <2>1. stage = "codec"
    BY DEF HwExhausted
  <2> QED
    BY <1>2, <1>3, <1>4, <2>1
       DEF StreamInv, QuestionInv, EndInv, FallbackInv, SameInput
<1>7. TrialInv'
  BY <1>1, <1>2, <1>3, <1>4 DEF TrialInv, Fallback, OnHardware
<1>8. HistoryInv'
  BY <1>2, <1>4, Balance, BalanceNext DEF StreamInv, HistoryInv, SameInput
<1>9. RescueWhole' /\ RefusalFirst'
  BY <1>1, <1>2, <1>3, <1>4
     DEF RescueWhole, RefusalFirst, OnHardware, RescueAnswers, FlowAnswers
<1> QED
  BY <1>5, <1>6, <1>7, <1>8, <1>9 DEF StreamInv

\* The three ends of a conversion: what left a decoder or the seat is delivered,
\* in the seat, or given up.
LEMMA ConvertInv ==
  ASSUME StreamInv, NEW picture \in Nat, ConvertScratch(picture),
         SameInput(dec', dec), trial' = FALSE, stage \in {"front", "codec"},
         Range(parked) \cup Held(dec) = Held(dec') \cup {picture},
         UNCHANGED <<path, spare, replay, eofSent, fallback, nextPacket, accepted, handedBack>>
  PROVE  StreamInv'
<1> USE DEF Return, fallback
<1>1. \/ /\ delivered' = Append(delivered, picture) /\ parked' = <<>>
         /\ discarded' = discarded /\ answer' = "produced"
      \/ /\ delivered' = delivered /\ parked' = <<picture>>
         /\ discarded' = discarded /\ answer' = "failed"
      \/ /\ delivered' = delivered /\ parked' = <<>>
         /\ discarded' = discarded \cup {picture} /\ answer' = "failed"
  BY DEF ConvertScratch
<1>2. stage' = "idle" /\ call' = "none"
  BY DEF ConvertScratch
<1>3. /\ delivered' \in Seq(Nat) /\ parked' \in Seq(Nat) /\ Len(parked') <= 1
      /\ discarded' \subseteq Nat /\ answer' \in {"produced", "failed"}
      /\ Range(delivered') \cup discarded' \cup Range(parked')
           = Range(delivered) \cup discarded \cup {picture}
  <2>1. /\ Append(delivered, picture) \in Seq(Nat)
        /\ Range(Append(delivered, picture)) = Range(delivered) \cup {picture}
        /\ delivered \in Seq(Nat) /\ discarded \subseteq Nat
    <3>1. delivered \in Seq(Nat) /\ discarded \subseteq Nat
      BY DEF StreamInv, TypeOK
    <3>2. Append(delivered, picture) \in Seq(Nat)
      BY <3>1, AppendProperties
    <3>3. Range(Append(delivered, picture)) = Range(delivered) \cup {picture}
      BY <3>1, RangeOfAppend
    <3> QED
      BY <3>1, <3>2, <3>3
  <2>2. /\ <<>> \in Seq(Nat) /\ Len(<<>>) = 0 /\ Range(<<>>) = {}
        /\ <<picture>> \in Seq(Nat) /\ Len(<<picture>>) = 1 /\ Range(<<picture>>) = {picture}
    BY EmptySeq, RangeOfEmpty, RangeOfSingle
  <2>3. CASE delivered' = Append(delivered, picture) /\ parked' = <<>>
               /\ discarded' = discarded /\ answer' = "produced"
    BY <2>1, <2>2, <2>3
  <2>4. CASE delivered' = delivered /\ parked' = <<picture>>
               /\ discarded' = discarded /\ answer' = "failed"
    BY <2>1, <2>2, <2>4
  <2>5. CASE delivered' = delivered /\ parked' = <<>>
               /\ discarded' = discarded \cup {picture} /\ answer' = "failed"
    BY <2>1, <2>2, <2>5
  <2> QED
    BY <1>1, <2>3, <2>4, <2>5
<1>4. TypeOK'
  BY <1>2, <1>3 DEF StreamInv, TypeOK, SameInput, Stages, Answers
<1>5. QuestionInv' /\ EndInv' /\ FallbackInv'
  BY <1>2 DEF StreamInv, QuestionInv, EndInv, FallbackInv, SameInput
<1>6. TrialInv'
  BY <1>2 DEF TrialInv, Fallback
<1>7. HistoryInv'
  <2>1. dec'.fed = accepted'
    BY DEF StreamInv, HistoryInv, SameInput
  <2>2. Range(accepted) = Range(delivered) \cup discarded \cup Range(parked)
                            \cup Range(replay) \cup Held(dec)
    BY Balance DEF StreamInv, HistoryInv
  <2>3. Range(accepted') = Range(delivered') \cup discarded' \cup Range(parked')
                            \cup Range(replay') \cup Held(dec')
    BY <1>3, <2>2
  <2> QED
    BY <2>1, <2>3, BalanceNext DEF HistoryInv
<1>8. RescueWhole' /\ RefusalFirst'
  BY <1>3 DEF RescueWhole, RefusalFirst, RescueAnswers, FlowAnswers
<1> QED
  BY <1>4, <1>5, <1>6, <1>7, <1>8 DEF StreamInv

LEMMA ProducedInv ==
  ASSUME StreamInv, Produced
  PROVE  StreamInv'
<1>1. dec \in Decoder /\ HasPicture(dec) /\ parked = <<>> /\ stage = "codec"
  BY DEF Produced, StreamInv, TypeOK, QuestionInv
<1>2. /\ NextPicture(dec) \in Nat /\ SameInput(dec', dec)
      /\ Held(dec) = Held(dec') \cup {NextPicture(dec)}
  BY <1>1, YieldedInput, YieldedHeld DEF Produced
<1>3. Range(parked) \cup Held(dec) = Held(dec') \cup {NextPicture(dec)}
  BY <1>1, <1>2, RangeOfEmpty
<1> QED
  BY <1>1, <1>2, <1>3, ConvertInv DEF Produced

LEMMA DeliverParkedInv ==
  ASSUME StreamInv, DeliverParked
  PROVE  StreamInv'
<1>1. Head(parked) \in Nat /\ Range(parked) = {Head(parked)} /\ dec \in Decoder
  BY Seat DEF DeliverParked, StreamInv, TypeOK
<1>2. trial' = FALSE
  BY DEF DeliverParked, StreamInv, TrialInv, TypeOK
<1>3. SameInput(dec', dec) /\ Held(dec') = Held(dec) /\ stage = "front"
  BY <1>1 DEF DeliverParked, SameInput
<1> QED
  BY <1>1, <1>2, <1>3, ConvertInv DEF DeliverParked

LEMMA DeliverReplayedInv ==
  ASSUME StreamInv, DeliverReplayed
  PROVE  StreamInv'
<1> USE DEF DeliverReplayed, ReplayedStays, ReplayWaits, Return, fallback
<1>1. /\ Head(replay) \in Nat /\ Tail(replay) \in Seq(Nat)
      /\ Range(replay) = {Head(replay)} \cup Range(Tail(replay))
  BY HeadTailProperties, RangeOfSplit DEF StreamInv, TypeOK
<1>2. ~trial /\ stage = "front"
  BY DEF StreamInv, TrialInv
<1>3. /\ stage' = "idle" /\ call' = "none" /\ answer' \in {"produced", "failed"}
      /\ \/ /\ delivered' = Append(delivered, Head(replay)) /\ replay' = Tail(replay)
            /\ discarded' = discarded
         \/ delivered' = delivered /\ replay' = replay /\ discarded' = discarded
         \/ /\ delivered' = delivered /\ replay' = Tail(replay)
            /\ discarded' = discarded \cup {Head(replay)}
  OBVIOUS
<1>4. /\ delivered' \in Seq(Nat) /\ replay' \in Seq(Nat) /\ discarded' \subseteq Nat
      /\ Range(delivered') \cup discarded' \cup Range(replay')
           = Range(delivered) \cup discarded \cup Range(replay)
  <2>1. /\ Append(delivered, Head(replay)) \in Seq(Nat)
        /\ Range(Append(delivered, Head(replay))) = Range(delivered) \cup {Head(replay)}
        /\ delivered \in Seq(Nat) /\ replay \in Seq(Nat) /\ discarded \subseteq Nat
    BY <1>1, AppendProperties, RangeOfAppend DEF StreamInv, TypeOK
  <2> QED
    BY <1>1, <1>3, <2>1
<1>5. UNCHANGED <<path, dec, trial, spare, parked, eofSent, sw, replayed, attempts, local,
                  nextPacket, accepted, handedBack>>
  OBVIOUS
<1> HIDE DEF DeliverReplayed
<1>6. TypeOK'
  BY <1>3, <1>4, <1>5 DEF StreamInv, TypeOK, Stages, Answers
<1>7. QuestionInv' /\ EndInv' /\ FallbackInv'
  BY <1>2, <1>3, <1>5 DEF StreamInv, QuestionInv, EndInv, FallbackInv
<1>8. TrialInv'
  BY <1>2, <1>3, <1>5 DEF TrialInv, Fallback
<1>9. HistoryInv'
  BY <1>4, <1>5, Balance, BalanceNext DEF StreamInv, HistoryInv
<1>10. RescueWhole' /\ RefusalFirst'
  BY <1>3 DEF RescueWhole, RefusalFirst, RescueAnswers, FlowAnswers
<1> QED
  BY <1>6, <1>7, <1>8, <1>9, <1>10 DEF StreamInv

LEMMA AskDecoderInv ==
  ASSUME StreamInv, AskDecoder
  PROVE  StreamInv'
<1> USE DEF AskDecoder, session, fallback, history
<1>1. TypeOK'
  BY DEF StreamInv, TypeOK, Stages
<1>2. QuestionInv' /\ EndInv' /\ FallbackInv'
  BY DEF StreamInv, QuestionInv, EndInv, FallbackInv
<1>3. TrialInv'
  BY DEF StreamInv, TrialInv, Fallback, OnHardware
<1>4. HistoryInv'
  BY DEF StreamInv, HistoryInv, NothingLost
<1>5. RescueWhole' /\ RefusalFirst'
  BY DEF StreamInv, RescueWhole, RefusalFirst, OnHardware
<1> QED
  BY <1>1, <1>2, <1>3, <1>4, <1>5 DEF StreamInv

-----------------------------------------------------------------------------
(* The fallback.                                                            *)

\* While it runs, the session is as the hardware left it.
LEMMA InFallback ==
  ASSUME StreamInv, stage \in Fallback
  PROVE  /\ ~trial /\ OnHardware /\ answer \notin RescueAnswers
         /\ delivered = <<>> /\ parked = <<>> /\ replay = <<>> /\ discarded = {}
         /\ dec.ended = eofSent /\ dec.fed = accepted
         /\ dec \in Decoder /\ sw \in Decoder /\ accepted \in Seq(Nat)
         /\ Len(accepted) \in Nat /\ replayed \in Nat /\ eofSent \in BOOLEAN
         /\ call \in {"packet", "end", "receive"}
BY LenProperties
   DEF StreamInv, TypeOK, TrialInv, EndInv, QuestionInv, HistoryInv, Fallback

\* A step that changes the software decoder alone.
LEMMA FallbackStepInv ==
  ASSUME StreamInv, stage \in Fallback, stage' \in {"replay", "drain"},
         sw' \in Decoder, replayed' \in Nat, attempts' \in Nat, local' \in Seq(Nat),
         FallbackInv', UNCHANGED <<session, call, answer, history>>
  PROVE  StreamInv'
<1> USE DEF session, history
<1>1. TypeOK'
  BY DEF StreamInv, TypeOK, Stages, Fallback
<1>2. QuestionInv' /\ EndInv'
  BY DEF StreamInv, QuestionInv, EndInv, Fallback
<1>3. TrialInv'
  BY InFallback DEF TrialInv, OnHardware
<1>4. HistoryInv'
  BY DEF StreamInv, HistoryInv, NothingLost
<1>5. RescueWhole' /\ RefusalFirst'
  BY DEF StreamInv, RescueWhole, RefusalFirst, OnHardware
<1> QED
  BY <1>1, <1>2, <1>3, <1>4, <1>5 DEF StreamInv

LEMMA FallbackFailsInv ==
  ASSUME StreamInv, stage \in Fallback, FallbackFails
  PROVE  StreamInv'
<1> USE DEF FallbackFails, session, Return
<1>1. handedBack' = accepted /\ answer' = "fallbackFailed" /\ stage' = "idle" /\ call' = "none"
  BY InFallback DEF Rescued
<1>2. TypeOK'
  BY <1>1, InFallback, NoFallbackType
     DEF StreamInv, TypeOK, Stages, Answers, RescueAnswers
<1>3. QuestionInv' /\ EndInv' /\ FallbackInv'
  BY <1>1, InFallback DEF QuestionInv, EndInv, FallbackInv
<1>4. TrialInv'
  BY <1>1, InFallback DEF TrialInv, Fallback
<1>5. HistoryInv'
  BY DEF StreamInv, HistoryInv, NothingLost
<1>6. RescueWhole' /\ RefusalFirst'
  BY <1>1, InFallback DEF RescueWhole, RefusalFirst, RescueAnswers, FlowAnswers, OnHardware
<1> QED
  BY <1>2, <1>3, <1>4, <1>5, <1>6 DEF StreamInv

LEMMA SoftwareOpenedInv ==
  ASSUME StreamInv, SoftwareOpened
  PROVE  StreamInv'
<1>1. stage \in Fallback /\ stage' = "replay"
        /\ UNCHANGED <<session, call, answer, history>>
  BY DEF SoftwareOpened, Fallback
<1>2. sw' = OpenDecoder("sw") /\ replayed' = 0 /\ local' = <<>>
  BY DEF SoftwareOpened, NoFallback
<1>3. FallbackInv'
  <2>1. sw'.fed = <<>> /\ ~sw'.ended /\ Held(sw') = {}
    BY <1>2, SoftwareOpen
  <2>2. SubSeq(dec'.fed, 1, replayed') = <<>>
    BY <1>2, SubSeqEmpty
  <2>3. Range(sw'.fed) = Held(sw') \cup Range(local')
    BY <1>2, <2>1, RangeOfEmpty
  <2>4. replayed' <= Len(dec'.fed)
    BY <1>1, <1>2, InFallback DEF session
  <2> QED
    BY <2>1, <2>2, <2>3, <2>4 DEF FallbackInv
<1> QED
  BY <1>1, <1>3, NoFallbackType, FallbackStepInv DEF SoftwareOpened

\* One more packet: the prefix the software decoder was fed grows by it.
LEMMA ReplayTakesInv ==
  ASSUME StreamInv, ReplayTakes
  PROVE  StreamInv'
<1>1. /\ stage \in Fallback /\ stage = "replay" /\ stage' = "replay"
      /\ attempts' = 0 /\ local' = local
      /\ UNCHANGED <<session, call, answer, history>>
  BY DEF ReplayTakes, callVars, Fallback
<1>2. /\ dec.fed = accepted /\ sw \in Decoder /\ accepted \in Seq(Nat)
      /\ Len(accepted) \in Nat /\ replayed \in Nat /\ eofSent \in BOOLEAN
      /\ local \in Seq(Nat)
  BY <1>1, InFallback DEF StreamInv, TypeOK
<1>3. /\ replayed <= Len(accepted) /\ sw.fed = SubSeq(accepted, 1, replayed)
      /\ sw.ended => EofPending /\ replayed = Len(accepted)
      /\ Range(sw.fed) = Held(sw) \cup Range(local)
  BY <1>1, <1>2 DEF StreamInv, FallbackInv
<1>4. /\ sw' \in Decoder /\ replayed' \in Nat /\ replayed' <= Len(accepted)
      /\ sw'.fed = SubSeq(accepted, 1, replayed')
      /\ sw'.ended => EofPending /\ replayed' = Len(accepted)
      /\ Range(sw'.fed) = Held(sw') \cup Range(local)
  <2>1. CASE PacketsLeft /\ sw' \in Takes(sw, Rescued[replayed + 1])
               /\ replayed' = replayed + 1
    <3> DEFINE packet == accepted[replayed + 1]
    <3>1. replayed + 1 \in 1 .. Len(accepted) /\ packet \in Nat
      <4>1. replayed + 1 \in 1 .. Len(accepted)
        BY <1>2, <2>1 DEF PacketsLeft, Rescued
      <4> QED
        BY <1>2, <4>1, ElementOfSeq
    <3>2. /\ sw' \in Decoder /\ sw'.fed = Append(sw.fed, packet)
          /\ sw'.ended = sw.ended /\ ~sw.ended
          /\ Held(sw') = Held(sw) \cup {packet}
      BY <1>2, <2>1, <3>1, TakenInput, TakenHeld DEF Rescued
    <3>3. SubSeq(accepted, 1, replayed + 1)
            = SubSeq(accepted, 1, replayed) \o <<accepted[replayed + 1]>>
      <4>1. 1 \in 1 .. Len(accepted) /\ replayed + 1 \in 1 .. Len(accepted)
        BY <1>2, <3>1
      <4>2. SubSeq(accepted, 1, replayed + 1)
              = SubSeq(accepted, 1, (replayed + 1) - 1) \o <<accepted[replayed + 1]>>
        BY <1>2, <4>1, SubSeqRecursiveSecond
      <4> QED
        BY <1>2, <4>2
    <3>4. sw.fed \in Seq(Nat)
      BY <1>2 DEF Decoder
    <3>5. Append(sw.fed, packet) = SubSeq(accepted, 1, replayed + 1)
      BY <1>3, <3>1, <3>3, <3>4, AppendIsConcat
    <3>6. Range(Append(sw.fed, packet)) = Range(sw.fed) \cup {packet}
      BY <3>1, <3>4, RangeOfAppend
    <3> HIDE DEF packet
    <3>7. Range(sw'.fed) = Held(sw') \cup Range(local)
      BY <1>3, <3>2, <3>6
    <3>8. sw'.fed = SubSeq(accepted, 1, replayed')
      BY <2>1, <3>2, <3>5, Zenon
    <3> QED
      BY <1>2, <2>1, <3>1, <3>2, <3>7, <3>8
  <2>2. CASE EndLeft /\ sw' \in TakesEnd(sw) /\ UNCHANGED replayed
    <3>1. sw' \in Decoder /\ sw'.fed = sw.fed /\ Held(sw') = Held(sw)
      BY <1>2, <2>2, EndTaken, EndTakenHeld
    <3>2. EofPending /\ replayed = Len(accepted)
      BY <1>2, <1>3, <2>2 DEF EndLeft, PacketsLeft, Rescued
    <3> QED
      BY <1>2, <1>3, <2>2, <3>1, <3>2
  <2> QED
    BY <2>1, <2>2 DEF ReplayTakes
<1>5. FallbackInv'
  BY <1>1, <1>2, <1>4 DEF FallbackInv, EofPending, session
<1> QED
  BY <1>1, <1>2, <1>4, <1>5, FallbackStepInv

LEMMA DrainInv ==
  ASSUME StreamInv, ReplayPauses \/ DrainResumes \/ DrainTakes
  PROVE  StreamInv'
<1>1. /\ stage \in {"replay", "drain"} /\ stage' \in {"replay", "drain"}
      /\ UNCHANGED <<session, call, answer, history, replayed>>
      /\ attempts' \in {attempts, attempts + 1}
  BY DEF ReplayPauses, DrainResumes, DrainTakes, AttemptsMade, callVars, fallback
<1>2. sw \in Decoder /\ replayed \in Nat /\ attempts' \in Nat /\ local \in Seq(Nat)
        /\ stage \in Fallback
  BY <1>1 DEF StreamInv, TypeOK, Fallback
<1>3. SameInput(sw', sw) /\ local' \in Seq(Nat)
        /\ Held(sw') \cup Range(local') = Held(sw) \cup Range(local)
  <2>1. CASE ReplayPauses \/ DrainResumes
    BY <1>2, <2>1 DEF ReplayPauses, DrainResumes, fallback, SameInput
  <2>2. CASE DrainTakes
    <3>1. /\ NextPicture(sw) \in Nat /\ SameInput(Yielded(sw), sw)
          /\ Held(sw) = Held(Yielded(sw)) \cup {NextPicture(sw)}
      BY <1>2, <2>2, YieldedInput, YieldedHeld DEF DrainTakes
    <3>2. /\ Append(local, NextPicture(sw)) \in Seq(Nat)
          /\ Range(Append(local, NextPicture(sw))) = Range(local) \cup {NextPicture(sw)}
      BY <1>2, <3>1, AppendProperties, RangeOfAppend
    <3> QED
      BY <2>2, <3>1, <3>2 DEF DrainTakes
  <2> QED
    BY <2>1, <2>2
<1>4. FallbackInv'
  BY <1>1, <1>3 DEF StreamInv, FallbackInv, SameInput, EofPending, session
<1> QED
  BY <1>1, <1>2, <1>3, <1>4, FallbackStepInv DEF SameInput

\* What is installed has been fed all of the history and owes all of its pictures
\* but those the fallback has queued.
LEMMA CommitInv ==
  ASSUME StreamInv, Commit
  PROVE  StreamInv'
<1>1. stage \in Fallback /\ stage = "drain"
  BY DEF Commit, Fallback
<1>2. /\ dec' = sw /\ replay' = replay \o local /\ NoFallback
      /\ \/ call = "packet" /\ stage' = "codec"
         \/ call = "receive" /\ stage' = "front"
         \/ call = "end" /\ stage' = "committed"
      /\ UNCHANGED <<path, trial, spare, parked, eofSent, call, answer, history>>
  BY <1>1, InFallback DEF Commit
<1>3. /\ replayed <= Len(accepted) /\ sw.fed = SubSeq(accepted, 1, replayed)
      /\ sw.ended => EofPending
      /\ Range(sw.fed) = Held(sw) \cup Range(local) /\ local \in Seq(Nat)
      /\ sw.ended \in BOOLEAN
  BY <1>1, InFallback DEF StreamInv, FallbackInv, TypeOK, Decoder
<1>4. replayed = Len(accepted)
  BY <1>1, <1>3, InFallback DEF Commit, AllTaken, PacketsLeft, Rescued
<1>5. sw.fed = accepted
  <2>1. SubSeq(accepted, 1, Len(accepted)) = accepted
    BY <1>1, InFallback, SubSeqFull
  <2> QED
    BY <1>3, <1>4, <2>1
<1>6. sw.ended = EofPending
  BY <1>3 DEF Commit, AllTaken, EndLeft, EofPending
<1>7. replay' = local
  BY <1>1, <1>2, <1>3, InFallback, ConcatEmptySeq
<1>8. /\ ~trial' /\ parked' = <<>> /\ delivered' = <<>> /\ discarded' = {}
      /\ answer' \notin RescueAnswers
  BY <1>1, <1>2, InFallback DEF history
<1>9. TypeOK'
  BY <1>1, <1>2, <1>3, <1>7, InFallback, NoFallbackType
     DEF StreamInv, TypeOK, Stages, history
<1>10. QuestionInv' /\ EndInv' /\ FallbackInv'
  <2>1. call \in {"packet", "end"} => ~eofSent
    BY <1>1 DEF StreamInv, QuestionInv
  <2>2. QuestionInv'
    BY <1>2, <1>8, <2>1 DEF QuestionInv
  <2>3. eofSent \in BOOLEAN
    BY <1>1, InFallback
  <2>4. EndInv'
    BY <1>2, <1>6, <2>1, <2>3 DEF EndInv, EofPending
  <2> QED
    BY <1>2, <2>2, <2>4 DEF FallbackInv
<1>11. TrialInv'
  BY <1>2, <1>8 DEF TrialInv, Fallback
<1>12. HistoryInv'
  <2>1. Range(accepted') = Held(dec') \cup Range(replay')
    BY <1>2, <1>3, <1>5, <1>7 DEF history
  <2> QED
    BY <1>2, <1>5, <1>8, <2>1, BalanceNext, RangeOfEmpty DEF HistoryInv, history
<1>13. RescueWhole' /\ RefusalFirst'
  BY <1>2, <1>8 DEF RescueWhole, RefusalFirst
<1> QED
  BY <1>9, <1>10, <1>11, <1>12, <1>13 DEF StreamInv

LEMMA EndForwardedInv ==
  ASSUME StreamInv, EndForwarded
  PROVE  StreamInv'
<1> USE DEF EndForwarded, Return, fallback, history
<1>1. dec.ended /\ eofSent' = TRUE /\ stage = "committed"
  BY DEF StreamInv, EndInv, TakesTheEnd
<1>2. TypeOK'
  BY <1>1 DEF StreamInv, TypeOK, Stages, Answers
<1>3. dec.ended = TRUE
  BY <1>1 DEF StreamInv, TypeOK, Decoder
<1>4. QuestionInv' /\ EndInv' /\ FallbackInv'
  BY <1>1, <1>3 DEF StreamInv, QuestionInv, EndInv, FallbackInv
<1>5. TrialInv'
  BY DEF StreamInv, TrialInv, Fallback, OnHardware, RescueAnswers
<1>6. HistoryInv'
  BY DEF StreamInv, HistoryInv, NothingLost
<1>7. RescueWhole' /\ RefusalFirst'
  BY DEF RescueWhole, RefusalFirst, RescueAnswers, FlowAnswers
<1> QED
  BY <1>2, <1>4, <1>5, <1>6, <1>7 DEF StreamInv

-----------------------------------------------------------------------------
LEMMA FallbackInvStep ==
  ASSUME StreamInv, FallbackStep
  PROVE  StreamInv'
<1>1. CASE SoftwareUnopened \/ ReplayErrors \/ DrainUnallocated \/ DrainErrors
  <2>1. stage \in Fallback /\ FallbackFails
    BY <1>1 DEF SoftwareUnopened, ReplayErrors, DrainUnallocated, DrainErrors, Fallback
  <2> QED
    BY <2>1, FallbackFailsInv
<1>2. CASE SoftwareOpened
  BY <1>2, SoftwareOpenedInv
<1>3. CASE ReplayTakes
  BY <1>3, ReplayTakesInv
<1>4. CASE ReplayPauses \/ DrainResumes \/ DrainTakes
  BY <1>4, DrainInv
<1>5. CASE Commit
  BY <1>5, CommitInv
<1>6. CASE EndForwarded
  BY <1>6, EndForwardedInv
<1> QED
  BY <1>1, <1>2, <1>3, <1>4, <1>5, <1>6 DEF FallbackStep

LEMMA NextInv == StreamInv /\ [Next]_vars => StreamInv'
<1> SUFFICES ASSUME StreamInv, [Next]_vars PROVE StreamInv'
  OBVIOUS
<1>1. CASE SendPacket \/ SendEof
  BY <1>1, SubmissionInv DEF SendPacket, SendEof
<1>2. CASE ReceiveFrame
  BY <1>2, ReceiveFrameInv
<1>3. CASE Flush
  BY <1>3, FlushInv
<1>4. CASE DecoderStep
  BY <1>4, PacketUnbuiltInv, PacketAcceptedInv, EndAcceptedInv, CodecAnswersInv,
     HwAdvancesInv, HwExhaustedInv, ProducedInv DEF DecoderStep
<1>5. CASE FrontStep
  BY <1>5, DeliverReplayedInv, DeliverParkedInv, AskDecoderInv DEF FrontStep
<1>6. CASE FallbackStep
  BY <1>6, FallbackInvStep
<1>7. CASE UNCHANGED vars
  <2> USE <1>7 DEF vars, session, callVars, fallback, history
  <2>1. TypeOK' /\ QuestionInv' /\ EndInv'
    BY DEF StreamInv, TypeOK, QuestionInv, EndInv
  <2>2. FallbackInv' /\ TrialInv'
    BY DEF StreamInv, FallbackInv, TrialInv, EofPending, OnHardware
  <2>3. HistoryInv' /\ RescueWhole' /\ RefusalFirst'
    BY DEF StreamInv, HistoryInv, NothingLost, RescueWhole, RefusalFirst, OnHardware
  <2> QED
    BY <2>1, <2>2, <2>3 DEF StreamInv
<1> QED
  BY <1>1, <1>2, <1>3, <1>4, <1>5, <1>6, <1>7 DEF Next, CallStep, CallerStep

LEMMA Inductive == Spec => []StreamInv
BY InitInv, NextInv, PTL DEF Spec

-----------------------------------------------------------------------------
(* The order of the pictures.                                               *)

\* The caller's packets are numbered as it sends them.
HandInv ==
  /\ nextPacket \in Nat \ {0}
  /\ call = "packet" => nextPacket <= MaxPackets
  /\ Range(accepted) \subseteq 1 .. MaxPackets

AcceptedInv == Increasing(accepted) /\ Before(Range(accepted), {nextPacket})

\* Each place a picture can be in is in order, and comes before the next place.
PicturesInv ==
  /\ Increasing(delivered) /\ Increasing(replay) /\ Increasing(dec.inside)
  /\ Before(Range(delivered), Range(parked) \cup Range(replay) \cup Range(dec.inside))
  /\ Before(Range(parked), Range(replay) \cup Range(dec.inside))
  /\ Before(Range(replay), Range(dec.inside))

\* The same of the software decoder of a fallback and what came out of it.
SoftwareInv ==
  stage \in {"replay", "drain"} =>
    /\ Increasing(local) /\ Increasing(sw.inside)
    /\ Before(Range(local), Range(sw.inside))

\* A decoder is asked for a picture, and the seat taken, once the replayed ones
\* are out.
FrontInv ==
  /\ stage = "codec" /\ call = "receive" => replay = <<>>
  /\ parked # <<>> => replay = <<>>

OrderInv == HandInv /\ AcceptedInv /\ PicturesInv /\ SoftwareInv /\ FrontInv

LEMMA BeforeMonotone ==
  ASSUME NEW S, NEW T, Before(S, T), NEW A \in SUBSET S, NEW B \in SUBSET T
  PROVE  Before(A, B)
BY DEF Before

LEMMA OrderInit == Init => OrderInv
<1> SUFFICES ASSUME Init PROVE OrderInv
  OBVIOUS
<1> USE DEF Init
<1>1. dec.inside = <<>>
  BY DEF OpenDecoder
<1>2. HandInv
  BY RangeOfEmpty DEF HandInv
<1>3. AcceptedInv /\ PicturesInv
  BY <1>1, RangeOfEmpty, IncreasingShort DEF AcceptedInv, PicturesInv, Before
<1>4. SoftwareInv /\ FrontInv
  BY DEF SoftwareInv, FrontInv
<1> QED
  BY <1>2, <1>3, <1>4 DEF OrderInv

\* A step that moves no picture on, at most takes one from the decoder in use.
LEMMA ShrinkOrder ==
  ASSUME StreamInv, OrderInv, Shrunk(dec', dec), SoftwareInv',
         call' = "packet" => nextPacket <= MaxPackets,
         stage' = "codec" /\ call' = "receive" => replay = <<>>,
         UNCHANGED <<replay, parked, nextPacket, accepted, delivered>>
  PROVE  OrderInv'
<1>1. dec.inside \in Seq(Nat) /\ Increasing(dec.inside)
  BY DEF StreamInv, TypeOK, Decoder, OrderInv, PicturesInv
<1>2. Increasing(dec'.inside) /\ Range(dec'.inside) \subseteq Range(dec.inside)
  <2>1. CASE dec'.inside = dec.inside
    BY <1>1, <2>1
  <2>2. CASE dec.inside # <<>> /\ dec'.inside = Tail(dec.inside)
    BY <1>1, <2>2, IncreasingTail
  <2> QED
    BY <2>1, <2>2 DEF Shrunk
<1>3. HandInv' /\ AcceptedInv' /\ FrontInv'
  BY DEF OrderInv, HandInv, AcceptedInv, FrontInv
<1>4. PicturesInv'
  BY <1>2 DEF OrderInv, PicturesInv, Before
<1> QED
  BY <1>3, <1>4 DEF OrderInv

LEMMA CallerOrder ==
  ASSUME StreamInv, OrderInv, CallerStep
  PROVE  OrderInv'
<1>1. CASE SendPacket \/ SendEof \/ ReceiveFrame
  <2>1. /\ UNCHANGED <<replay, parked, nextPacket, accepted, delivered, dec>>
        /\ stage' \notin {"replay", "drain"}
        /\ call' = "packet" => nextPacket <= MaxPackets
        /\ ~(stage' = "codec" /\ call' = "receive")
    BY <1>1 DEF SendPacket, SendEof, ReceiveFrame, StartSubmission, Begin, Return,
                session, history
  <2>2. Shrunk(dec', dec) /\ SoftwareInv'
    BY <2>1 DEF Shrunk, SoftwareInv
  <2> QED
    BY <2>1, <2>2, ShrinkOrder
<1>2. CASE Flush
  <2> USE <1>2 DEF Flush
  <2>1. dec'.inside = <<>>
    BY DEF Flushed, StreamInv, TypeOK, Decoder
  <2>2. HandInv' /\ AcceptedInv' /\ PicturesInv'
    BY <2>1, RangeOfEmpty, IncreasingShort
       DEF OrderInv, HandInv, AcceptedInv, PicturesInv, Before
  <2>3. SoftwareInv' /\ FrontInv'
    BY DEF SoftwareInv, FrontInv
  <2> QED
    BY <2>2, <2>3 DEF OrderInv
<1> QED
  BY <1>1, <1>2 DEF CallerStep

\* Every picture is of an accepted packet, so of one before the packet in hand.
LEMMA PlacesAccepted ==
  ASSUME StreamInv
  PROVE  Range(delivered) \cup Range(parked) \cup Range(replay) \cup Range(dec.inside)
           \subseteq Range(accepted)
BY DEF StreamInv, HistoryInv, NothingLost

LEMMA PacketAcceptedOrder ==
  ASSUME StreamInv, OrderInv, PacketAccepted
  PROVE  OrderInv'
<1> DEFINE p == nextPacket
<1>1. /\ dec \in Decoder /\ p \in Nat /\ accepted \in Seq(Nat) /\ dec.inside \in Seq(Nat)
      /\ Increasing(accepted) /\ Increasing(dec.inside) /\ Before(Range(accepted), {p})
      /\ p \in 1 .. MaxPackets /\ Range(accepted) \subseteq 1 .. MaxPackets
  <2>1. MaxPackets \in Nat
    BY StreamAssumption
  <2> QED
    BY <2>1 DEF PacketAccepted, StreamInv, TypeOK, Decoder, OrderInv, HandInv, AcceptedInv,
            PicturesInv
<1>2. /\ accepted' = Append(accepted, p) /\ nextPacket' = p + 1 /\ dec' \in Takes(dec, p)
      /\ UNCHANGED <<replay, parked, delivered>>
      /\ stage' = "idle" /\ call' = "none"
  BY DEF PacketAccepted, Return
<1>3. Before(Range(dec.inside), {p})
  BY <1>1, PlacesAccepted, BeforeMonotone
<1>4. Increasing(accepted') /\ Range(accepted') = Range(accepted) \cup {p}
  BY <1>1, <1>2, IncreasingAppend
<1>5. /\ Increasing(dec'.inside)
      /\ Range(dec'.inside) \subseteq Range(dec.inside) \cup {p}
  <2>1. dec'.inside \in {dec.inside, Append(dec.inside, p)}
    BY <1>1, <1>2, TakenInside
  <2>2. /\ Increasing(Append(dec.inside, p))
        /\ Range(Append(dec.inside, p)) = Range(dec.inside) \cup {p}
    BY <1>1, <1>3, IncreasingAppend
  <2> QED
    BY <1>1, <2>1, <2>2
<1> HIDE DEF p
<1>6. AcceptedInv'
  <2>1. Range(accepted) \subseteq Nat
    BY <1>1
  <2>2. ASSUME NEW x \in Range(accepted) \cup {p}
        PROVE  x < p + 1
    BY <1>1, <2>1, <2>2 DEF Before
  <2> QED
    BY <1>2, <1>4, <2>2 DEF AcceptedInv, Before
<1>7. HandInv'
  BY <1>1, <1>2, <1>4 DEF HandInv
<1>8. PicturesInv'
  <2>1. Before(Range(delivered) \cup Range(parked) \cup Range(replay), {p})
    BY <1>1, PlacesAccepted, BeforeMonotone
  <2> QED
    BY <1>2, <1>5, <2>1 DEF OrderInv, PicturesInv, Before
<1>9. SoftwareInv' /\ FrontInv'
  BY <1>2 DEF OrderInv, SoftwareInv, FrontInv
<1> QED
  BY <1>6, <1>7, <1>8, <1>9 DEF OrderInv

\* The history a candidate starts on is in order, and nothing came before it.
LEMMA HwAdvancesOrder ==
  ASSUME StreamInv, OrderInv, HwAdvances
  PROVE  OrderInv'
<1>1. /\ trial /\ stage' = stage /\ call' = call
      /\ UNCHANGED <<replay, parked, delivered, accepted, nextPacket, sw, local>>
      /\ stage = "codec"
  BY DEF HwAdvances, FailsCandidate, callVars, fallback, history
<1>2. dec'.inside = accepted /\ delivered = <<>> /\ parked = <<>> /\ replay = <<>>
  BY <1>1 DEF HwAdvances, StreamInv, TypeOK, Decoder, TrialInv, HistoryInv
<1>3. PicturesInv'
  BY <1>1, <1>2, RangeOfEmpty, IncreasingShort
     DEF OrderInv, AcceptedInv, PicturesInv, Before
<1> QED
  BY <1>1, <1>3 DEF OrderInv, HandInv, AcceptedInv, SoftwareInv, FrontInv

\* A picture at the front of what is left is delivered, parked or given up.
LEMMA ConvertOrder ==
  ASSUME StreamInv, OrderInv, NEW picture \in Nat, ConvertScratch(picture),
         replay = <<>>, Shrunk(dec', dec),
         Before(Range(delivered), {picture}), Before({picture}, Range(dec'.inside)),
         UNCHANGED <<replay, nextPacket, accepted>>
  PROVE  OrderInv'
<1>1. dec.inside \in Seq(Nat) /\ Increasing(dec.inside) /\ delivered \in Seq(Nat)
        /\ Increasing(delivered)
  BY DEF StreamInv, TypeOK, Decoder, OrderInv, PicturesInv
<1>2. Increasing(dec'.inside) /\ Range(dec'.inside) \subseteq Range(dec.inside)
  BY <1>1, IncreasingTail DEF Shrunk
<1>3. stage' = "idle" /\ call' = "none"
  BY DEF ConvertScratch, Return
<1>4. /\ Increasing(Append(delivered, picture))
      /\ Range(Append(delivered, picture)) = Range(delivered) \cup {picture}
      /\ Range(<<picture>>) = {picture}
  BY <1>1, IncreasingAppend, RangeOfSingle
<1>5. \/ delivered' = Append(delivered, picture) /\ parked' = <<>>
      \/ delivered' = delivered /\ parked' = <<picture>>
      \/ delivered' = delivered /\ parked' = <<>>
  BY DEF ConvertScratch
<1>6. PicturesInv'
  <2>1. Before(Range(delivered), Range(dec'.inside))
    BY <1>2, BeforeMonotone DEF OrderInv, PicturesInv, Before
  <2>2. Range(replay') = {} /\ Increasing(replay')
    BY RangeOfEmpty, IncreasingShort
  <2>3. CASE delivered' = Append(delivered, picture) /\ parked' = <<>>
    BY <1>2, <1>4, <2>1, <2>2, <2>3, RangeOfEmpty DEF PicturesInv, Before
  <2>4. CASE delivered' = delivered /\ parked' = <<picture>>
    BY <1>1, <1>2, <1>4, <2>1, <2>2, <2>4 DEF PicturesInv, Before
  <2>5. CASE delivered' = delivered /\ parked' = <<>>
    BY <1>1, <1>2, <2>1, <2>2, <2>5, RangeOfEmpty DEF PicturesInv, Before
  <2> QED
    BY <1>5, <2>3, <2>4, <2>5
<1>7. HandInv' /\ AcceptedInv' /\ SoftwareInv' /\ FrontInv'
  BY <1>3 DEF OrderInv, HandInv, AcceptedInv, SoftwareInv, FrontInv
<1> QED
  BY <1>6, <1>7 DEF OrderInv

LEMMA ProducedOrder ==
  ASSUME StreamInv, OrderInv, Produced
  PROVE  OrderInv'
<1>1. /\ dec.inside \in Seq(Nat) /\ dec.inside # <<>> /\ Increasing(dec.inside)
      /\ dec'.inside = Tail(dec.inside) /\ replay = <<>>
  BY DEF Produced, HasPicture, Yielded, StreamInv, TypeOK, Decoder, OrderInv,
         PicturesInv, FrontInv
<1>2. /\ NextPicture(dec) \in Nat /\ NextPicture(dec) \in Range(dec.inside)
      /\ Before({NextPicture(dec)}, Range(dec'.inside))
  BY <1>1, IncreasingTail DEF NextPicture
<1>3. Before(Range(delivered), {NextPicture(dec)})
  BY <1>2 DEF OrderInv, PicturesInv, Before
<1>4. Shrunk(dec', dec)
  BY <1>1 DEF Shrunk
<1> QED
  BY <1>1, <1>2, <1>3, <1>4, ConvertOrder DEF Produced

LEMMA FrontOrder ==
  ASSUME StreamInv, OrderInv, FrontStep
  PROVE  OrderInv'
<1>1. CASE DeliverParked
  <2>1. Head(parked) \in Nat /\ Range(parked) = {Head(parked)} /\ replay = <<>>
    BY <1>1, Seat DEF DeliverParked, ReplayWaits, StreamInv
  <2>2. /\ dec' = dec /\ UNCHANGED <<replay, nextPacket, accepted>>
        /\ ConvertScratch(Head(parked))
    BY <1>1 DEF DeliverParked
  <2>3. /\ Before(Range(delivered), {Head(parked)})
        /\ Before({Head(parked)}, Range(dec'.inside))
    BY <2>1, <2>2 DEF OrderInv, PicturesInv, Before
  <2>4. Shrunk(dec', dec)
    BY <2>2 DEF Shrunk
  <2> QED
    BY <2>1, <2>2, <2>3, <2>4, ConvertOrder
<1>2. CASE AskDecoder
  <2>1. /\ UNCHANGED <<dec, replay, parked, nextPacket, accepted, delivered, call>>
        /\ replay = <<>> /\ stage' = "codec"
    BY <1>2 DEF AskDecoder, ReplayWaits, session, history
  <2>2. Shrunk(dec', dec) /\ SoftwareInv'
    BY <2>1 DEF Shrunk, SoftwareInv
  <2>3. call' = "packet" => nextPacket <= MaxPackets
    BY <2>1 DEF OrderInv, HandInv
  <2> QED
    BY <2>1, <2>2, <2>3, ShrinkOrder
<1>3. CASE DeliverReplayed
  <2>1. /\ replay \in Seq(Nat) /\ replay # <<>> /\ Increasing(replay) /\ parked = <<>>
        /\ delivered \in Seq(Nat) /\ Increasing(delivered)
    BY <1>3 DEF DeliverReplayed, ReplayWaits, StreamInv, TypeOK, OrderInv, PicturesInv,
                FrontInv
  <2>2. /\ Increasing(Tail(replay)) /\ Head(replay) \in Nat
        /\ Before({Head(replay)}, Range(Tail(replay)))
        /\ Range(replay) = {Head(replay)} \cup Range(Tail(replay))
    BY <2>1, IncreasingTail
  <2>3. Before(Range(delivered), {Head(replay)})
    BY <2>2 DEF OrderInv, PicturesInv, Before
  <2>4. /\ Increasing(Append(delivered, Head(replay)))
        /\ Range(Append(delivered, Head(replay))) = Range(delivered) \cup {Head(replay)}
    BY <2>1, <2>2, <2>3, IncreasingAppend
  <2>5. /\ \/ delivered' = Append(delivered, Head(replay)) /\ replay' = Tail(replay)
           \/ delivered' = delivered /\ replay' \in {replay, Tail(replay)}
        /\ UNCHANGED <<dec, parked, nextPacket, accepted>>
        /\ stage' = "idle" /\ call' = "none"
    BY <1>3 DEF DeliverReplayed, ReplayedStays, Return
  <2>6. PicturesInv'
    <3>1. CASE delivered' = Append(delivered, Head(replay)) /\ replay' = Tail(replay)
      BY <2>1, <2>2, <2>4, <2>5, <3>1, RangeOfEmpty DEF OrderInv, PicturesInv, Before
    <3>2. CASE delivered' = delivered /\ replay' \in {replay, Tail(replay)}
      BY <2>2, <2>5, <3>2 DEF OrderInv, PicturesInv, Before
    <3> QED
      BY <2>5, <3>1, <3>2
  <2>7. HandInv' /\ AcceptedInv' /\ SoftwareInv' /\ FrontInv'
    BY <2>1, <2>5 DEF OrderInv, HandInv, AcceptedInv, SoftwareInv, FrontInv
  <2> QED
    BY <2>6, <2>7 DEF OrderInv
<1> QED
  BY <1>1, <1>2, <1>3 DEF FrontStep

LEMMA ErrorKeepsOrder ==
  ASSUME dec \in Decoder, NEW e \in Errors
  PROVE  Shrunk(AfterVerdict(e), dec)
<1>1. Shrunk(e.after, dec)
  <2>1. CASE e \in SendErrors(dec) \cup ReceiveErrors(dec)
    BY <2>1, ErrorShrinks
  <2>2. CASE HasPicture(dec) /\ \E x \in Latched(PictureLost(dec)) :
               e = [errno |-> "fail", after |-> x]
    <3>1. PictureLost(dec).inside = Tail(dec.inside)
      BY DEF PictureLost, Yielded, Decoder
    <3>2. PictureLost(dec) \in Decoder
      BY <2>2, YieldedInput DEF SameInput
    <3>3. e.after.inside = PictureLost(dec).inside
      BY <2>2, <3>2 DEF Latched, Decoder
    <3> QED
      BY <2>2, <3>1, <3>3 DEF Shrunk, HasPicture
  <2> QED
    BY <2>1, <2>2 DEF Errors
<1>2. e.after \in Decoder
  BY ErrorInput DEF SameInput
<1>3. AfterVerdict(e).inside = e.after.inside
  BY <1>2 DEF AfterVerdict, Decoder
<1> QED
  BY <1>1, <1>3 DEF Shrunk

LEMMA DecoderOrder ==
  ASSUME StreamInv, OrderInv, DecoderStep
  PROVE  OrderInv'
<1>1. CASE PacketAccepted
  BY <1>1, PacketAcceptedOrder
<1>2. CASE HwAdvances
  BY <1>2, HwAdvancesOrder
<1>3. CASE Produced
  BY <1>3, ProducedOrder
<1>4. CASE PacketUnbuilt \/ EndAccepted \/ CodecAnswers \/ HwExhausted
  <2>1. dec \in Decoder
    BY DEF StreamInv, TypeOK
  <2>2. Shrunk(dec', dec)
    <3>1. CASE PacketUnbuilt
      BY <3>1 DEF PacketUnbuilt, session, Shrunk
    <3>2. CASE EndAccepted
      BY <2>1, <3>2 DEF EndAccepted, TakesEnd, Shrunk, Decoder
    <3>3. CASE CodecAnswers
      BY <2>1, <3>3, ErrorKeepsOrder DEF CodecAnswers
    <3>4. CASE HwExhausted
      <4>1. dec' = dec \/ \E e \in Errors : dec' = AfterVerdict(e)
        BY <3>4 DEF HwExhausted
      <4> QED
        BY <2>1, <4>1, ErrorKeepsOrder DEF Shrunk
    <3> QED
      BY <1>4, <3>1, <3>2, <3>3, <3>4
  <2>3. /\ UNCHANGED <<replay, parked, nextPacket, accepted, delivered>>
        /\ stage' \in {"idle", "open"} /\ call' \in {"none", call}
    BY <1>4 DEF PacketUnbuilt, EndAccepted, CodecAnswers, HwExhausted, Return, session,
                history
  <2>4. SoftwareInv' /\ (call' = "packet" => nextPacket <= MaxPackets)
    BY <2>3 DEF SoftwareInv, OrderInv, HandInv
  <2> QED
    BY <2>2, <2>3, <2>4, ShrinkOrder
<1> QED
  BY <1>1, <1>2, <1>3, <1>4 DEF DecoderStep

\* The software decoder is fed what the hardware was fed, in the same order.
LEMMA ReplayTakesOrder ==
  ASSUME StreamInv, OrderInv, ReplayTakes
  PROVE  SoftwareInv'
<1>1. /\ stage = "replay" /\ stage \in Fallback /\ local' = local
  BY DEF ReplayTakes, Fallback
<1>2. /\ dec.fed = accepted /\ sw \in Decoder /\ accepted \in Seq(Nat)
      /\ replayed \in Nat /\ Len(accepted) \in Nat
      /\ sw.fed = SubSeq(accepted, 1, replayed) /\ replayed <= Len(accepted)
      /\ Range(sw.fed) = Held(sw) \cup Range(local)
      /\ local \in Seq(Nat) /\ sw.inside \in Seq(Nat)
      /\ Increasing(local) /\ Increasing(sw.inside)
      /\ Before(Range(local), Range(sw.inside)) /\ Increasing(accepted)
  BY <1>1, InFallback
     DEF StreamInv, TypeOK, FallbackInv, Decoder, OrderInv, SoftwareInv, AcceptedInv
<1>3. CASE PacketsLeft /\ sw' \in Takes(sw, Rescued[replayed + 1])
  <2> DEFINE packet == accepted[replayed + 1]
  <2>1. replayed + 1 \in 1 .. Len(accepted)
    BY <1>2, <1>3 DEF PacketsLeft, Rescued
  <2>2. packet \in Nat /\ sw' \in Takes(sw, packet)
    BY <1>2, <1>3, <2>1, ElementOfSeq DEF Rescued
  <2>3. Before(Range(sw.fed), {packet})
    BY <1>2, <2>1, IncreasingPrefix
  <2> HIDE DEF packet
  <2>4. Before(Range(local) \cup Range(sw.inside), {packet})
    BY <1>2, <2>3 DEF Held, Before
  <2>5. /\ Increasing(Append(sw.inside, packet))
        /\ Range(Append(sw.inside, packet)) = Range(sw.inside) \cup {packet}
    <3>1. Before(Range(sw.inside), {packet})
      BY <2>4 DEF Before
    <3> QED
      BY <1>2, <2>2, <3>1, IncreasingAppend
  <2>6. sw'.inside \in {sw.inside, Append(sw.inside, packet)}
    BY <1>2, <2>2, TakenInside
  <2> QED
    BY <1>1, <1>2, <2>4, <2>5, <2>6 DEF SoftwareInv, Before
<1>4. CASE sw' \in TakesEnd(sw)
  <2>1. sw'.inside = sw.inside
    BY <1>2, <1>4 DEF TakesEnd, Decoder
  <2> QED
    BY <1>1, <1>2, <2>1 DEF SoftwareInv
<1> QED
  BY <1>3, <1>4 DEF ReplayTakes

LEMMA DrainTakesOrder ==
  ASSUME StreamInv, OrderInv, DrainTakes
  PROVE  SoftwareInv'
<1>1. /\ local \in Seq(Nat) /\ sw.inside \in Seq(Nat) /\ sw.inside # <<>>
      /\ Increasing(local) /\ Increasing(sw.inside)
      /\ Before(Range(local), Range(sw.inside))
      /\ local' = Append(local, Head(sw.inside)) /\ sw'.inside = Tail(sw.inside)
  BY DEF DrainTakes, HasPicture, NextPicture, Yielded, StreamInv, TypeOK, Decoder,
         OrderInv, SoftwareInv
<1>2. /\ Head(sw.inside) \in Nat /\ Increasing(Tail(sw.inside))
      /\ Before({Head(sw.inside)}, Range(Tail(sw.inside)))
      /\ Range(sw.inside) = {Head(sw.inside)} \cup Range(Tail(sw.inside))
  BY <1>1, IncreasingTail
<1>3. Before(Range(local), {Head(sw.inside)})
  BY <1>1, <1>2 DEF Before
<1>4. /\ Increasing(local')
      /\ Range(local') = Range(local) \cup {Head(sw.inside)}
  BY <1>1, <1>2, <1>3, IncreasingAppend
<1> QED
  BY <1>1, <1>2, <1>4 DEF SoftwareInv, Before

LEMMA FallbackOrder ==
  ASSUME StreamInv, OrderInv, FallbackStep
  PROVE  OrderInv'
<1>1. CASE Commit
  <2>1. stage \in Fallback /\ stage = "drain"
    BY <1>1 DEF Commit, Fallback
  <2>2. /\ dec' = sw /\ replay' = replay \o local
        /\ stage' \in {"codec", "front", "committed"} /\ (stage' = "codec" => call = "packet")
        /\ UNCHANGED <<parked, call, nextPacket, accepted, delivered>>
    BY <1>1, <2>1, InFallback DEF Commit, history
  <2>3. replay' = local /\ delivered' = <<>> /\ parked' = <<>>
    BY <2>1, <2>2, InFallback, ConcatEmptySeq DEF StreamInv, TypeOK
  <2>4. PicturesInv'
    BY <2>1, <2>2, <2>3, RangeOfEmpty, IncreasingShort
       DEF OrderInv, SoftwareInv, PicturesInv, Before
  <2>5. HandInv' /\ AcceptedInv' /\ SoftwareInv' /\ FrontInv'
    BY <2>2, <2>3 DEF OrderInv, HandInv, AcceptedInv, SoftwareInv, FrontInv
  <2> QED
    BY <2>4, <2>5 DEF OrderInv
<1>2. CASE ~Commit
  <2>1. /\ UNCHANGED <<dec, replay, parked, nextPacket, accepted, delivered>>
        /\ call' \in {"none", call} /\ ~(stage' = "codec" /\ call' = "receive")
    BY <1>2 DEF FallbackStep, SoftwareUnopened, SoftwareOpened, ReplayTakes, ReplayPauses,
       ReplayErrors, DrainTakes, DrainResumes, DrainErrors, DrainUnallocated, EndForwarded,
       FallbackFails, Return, session, callVars, history
  <2>2. SoftwareInv'
    <3>1. CASE ReplayTakes
      BY <3>1, ReplayTakesOrder
    <3>2. CASE DrainTakes
      BY <3>2, DrainTakesOrder
    <3>3. CASE SoftwareOpened
      BY <3>3, RangeOfEmpty, IncreasingShort
         DEF SoftwareOpened, NoFallback, OpenDecoder, SoftwareInv, Before
    <3>4. CASE ReplayPauses \/ DrainResumes
      BY <3>4 DEF ReplayPauses, DrainResumes, fallback, OrderInv, SoftwareInv
    <3>5. CASE SoftwareUnopened \/ ReplayErrors \/ DrainErrors \/ DrainUnallocated
                 \/ EndForwarded
      BY <3>5 DEF SoftwareUnopened, ReplayErrors, DrainErrors, DrainUnallocated,
                  EndForwarded, FallbackFails, Return, SoftwareInv
    <3> QED
      BY <1>2, <3>1, <3>2, <3>3, <3>4, <3>5 DEF FallbackStep
  <2>3. Shrunk(dec', dec) /\ (call' = "packet" => nextPacket <= MaxPackets)
    BY <2>1 DEF Shrunk, OrderInv, HandInv
  <2> QED
    BY <2>1, <2>2, <2>3, ShrinkOrder
<1> QED
  BY <1>1, <1>2

LEMMA OrderNext == StreamInv /\ OrderInv /\ [Next]_vars => OrderInv'
<1> SUFFICES ASSUME StreamInv, OrderInv, [Next]_vars PROVE OrderInv'
  OBVIOUS
<1>1. CASE CallerStep
  BY <1>1, CallerOrder
<1>2. CASE DecoderStep
  BY <1>2, DecoderOrder
<1>3. CASE FrontStep
  BY <1>3, FrontOrder
<1>4. CASE FallbackStep
  BY <1>4, FallbackOrder
<1>5. CASE UNCHANGED vars
  BY <1>5 DEF vars, session, callVars, fallback, history, OrderInv, HandInv, AcceptedInv,
              PicturesInv, SoftwareInv, FrontInv
<1> QED
  BY <1>1, <1>2, <1>3, <1>4, <1>5 DEF Next, CallStep

LEMMA OrderInductive == Spec => []OrderInv
BY OrderInit, OrderNext, Inductive, PTL DEF Spec

\* The four places one after another are in order.
LEMMA PicturesTogether ==
  ASSUME StreamInv, OrderInv
  PROVE  Increasing(delivered \o parked \o replay \o dec.inside)
<1>1. /\ delivered \in Seq(Nat) /\ parked \in Seq(Nat) /\ replay \in Seq(Nat)
      /\ dec.inside \in Seq(Nat)
  BY DEF StreamInv, TypeOK, Decoder
<1>2. Increasing(parked)
  <2>1. Len(parked) \in Nat /\ DOMAIN parked = 1 .. Len(parked) /\ Len(parked) <= 1
    BY <1>1, Indices DEF StreamInv, TypeOK
  <2> QED
    BY <2>1 DEF Increasing
<1> DEFINE front == delivered \o parked
<1>3. front \in Seq(Nat) /\ Range(front) = Range(delivered) \cup Range(parked)
  BY <1>1, RangeOfConcat
<1>4. Increasing(front)
  BY <1>1, <1>2, IncreasingConcat DEF OrderInv, PicturesInv, Before
<1> HIDE DEF front
<1>5. /\ front \o replay \in Seq(Nat)
      /\ Range(front \o replay)
           = Range(delivered) \cup Range(parked) \cup Range(replay)
  BY <1>1, <1>3, RangeOfConcat
<1>6. Increasing(front \o replay)
  <2>1. Before(Range(front), Range(replay))
    BY <1>3 DEF OrderInv, PicturesInv, Before
  <2> QED
    BY <1>1, <1>3, <1>4, <2>1, IncreasingConcat DEF OrderInv, PicturesInv
<1>7. Before(Range(front \o replay), Range(dec.inside))
  BY <1>5 DEF OrderInv, PicturesInv, Before
<1>8. Increasing((front \o replay) \o dec.inside)
  BY <1>1, <1>5, <1>6, <1>7, IncreasingConcat DEF OrderInv, PicturesInv
<1> QED
  BY <1>8 DEF front

-----------------------------------------------------------------------------
(* The push rhythm.                                                         *)

\* The answer as the rhythm sees it.
Heard == IF answer \in RescueAnswers THEN "failed" ELSE answer

Waiting == Range(parked) \cup Range(replay) \cup Range(dec.inside)

\* The whole history while a candidate may have it to decode again.
WholeHistory == trial \/ stage \in Fallback

LEMMA InFlightWhole ==
  /\ WholeHistory => InFlight = Range(accepted)
  /\ ~WholeHistory => InFlight = Waiting
BY DEF InFlight, WholeHistory, Waiting

LEMMA InFlightWholeNext ==
  /\ WholeHistory' => InFlight' = Range(accepted')
  /\ ~WholeHistory' => InFlight' = Waiting'
BY DEF InFlight, WholeHistory, Waiting

\* The steps of the rhythm that a step of the session can be.
RhythmStep == Rhythm!RhythmNext \/ UNCHANGED Rhythm!rhythmVars

LEMMA HiddenStep ==
  ASSUME InFlight' \subseteq InFlight, eofSent' = eofSent, Heard' = Heard
  PROVE  RhythmStep
BY DEF RhythmStep, Heard, Rhythm!RhythmNext, Rhythm!DecodeToNothing, Rhythm!AtMost

LEMMA FailedStep ==
  ASSUME InFlight' \subseteq InFlight, eofSent' = eofSent, Heard' = "failed"
  PROVE  RhythmStep
BY DEF RhythmStep, Heard, Rhythm!RhythmNext, Rhythm!AnswerOnly, Rhythm!AtMost

LEMMA AcceptStep ==
  ASSUME NEW p \in 1 .. MaxPackets, ~eofSent, InFlight' \subseteq InFlight \cup {p},
         eofSent' = eofSent, Heard' = "accepted"
  PROVE  RhythmStep
BY DEF RhythmStep, Heard, Rhythm!RhythmNext, Rhythm!Accept, Rhythm!AtMost

LEMMA ProduceStep ==
  ASSUME NEW p \in 1 .. MaxPackets, p \in InFlight, InFlight' \subseteq InFlight \ {p},
         eofSent' = eofSent, Heard' = "produced"
  PROVE  RhythmStep
BY DEF RhythmStep, Heard, Rhythm!RhythmNext, Rhythm!Produce, Rhythm!AtMost

LEMMA EndStep ==
  ASSUME InFlight' = InFlight, eofSent' = TRUE, Heard' = "accepted"
  PROVE  RhythmStep
BY DEF RhythmStep, Heard, Rhythm!RhythmNext, Rhythm!EndStream

\* An answer that neither takes nor gives.
LEMMA FlowStep ==
  ASSUME InFlight' = InFlight, eofSent' = eofSent, eofSent \in BOOLEAN,
         \/ Heard' \in {"mustDrain", "needsInput"} /\ ~eofSent
         \/ Heard' = "afterEof" /\ eofSent
         \/ Heard' = "ended" /\ eofSent /\ InFlight = {}
  PROVE  RhythmStep
BY DEF RhythmStep, Heard, Rhythm!RhythmNext, Rhythm!AskToDrain, Rhythm!AskForInput,
       Rhythm!AnswerEnded, Rhythm!AnswerOnly

LEMMA RestartStep ==
  ASSUME InFlight' = {}, eofSent' = FALSE, Heard' = "none"
  PROVE  RhythmStep
BY DEF RhythmStep, Heard, Rhythm!RhythmNext, Rhythm!Restart

\* Only what was accepted is in flight, and while a candidate may have it to
\* decode again, all of it.
LEMMA InFlightAccepted ==
  ASSUME StreamInv
  PROVE  InFlight \subseteq Range(accepted) /\ Waiting \subseteq InFlight
<1>1. Waiting \subseteq Range(accepted)
  BY PlacesAccepted DEF Waiting
<1> QED
  BY <1>1, InFlightWhole

LEMMA CallerRhythm ==
  ASSUME StreamInv, CallerStep
  PROVE  RhythmStep
<1>1. CASE Flush
  <2> USE <1>1 DEF Flush
  <2>1. dec'.inside = <<>>
    BY DEF Flushed, StreamInv, TypeOK, Decoder
  <2>2. InFlight' = {}
    BY <2>1, RangeOfEmpty DEF InFlight
  <2> QED
    BY <2>2, RestartStep DEF Heard, RescueAnswers
<1>2. CASE SendPacket \/ SendEof \/ ReceiveFrame
  <2>1. /\ UNCHANGED <<session, history>> /\ stage \notin Fallback /\ stage' \notin Fallback
        /\ \/ answer' = "afterEof" /\ eofSent
           \/ answer' = "mustDrain" /\ ~eofSent
           \/ answer' = answer
    BY <1>2 DEF SendPacket, SendEof, ReceiveFrame, StartSubmission, Begin, Return, Fallback
  <2>2. InFlight' = InFlight /\ eofSent' = eofSent /\ eofSent \in BOOLEAN
    BY <2>1 DEF InFlight, session, history, StreamInv, TypeOK
  <2> QED
    BY <2>1, <2>2, FlowStep, HiddenStep DEF Heard, RescueAnswers
<1> QED
  BY <1>1, <1>2 DEF CallerStep

LEMMA PacketAcceptedRhythm ==
  ASSUME StreamInv, OrderInv, PacketAccepted
  PROVE  RhythmStep
<1>1. /\ stage = "codec" /\ stage' = "idle" /\ answer' = "accepted"
      /\ accepted' = Append(accepted, nextPacket) /\ dec' \in Takes(dec, nextPacket)
      /\ UNCHANGED <<trial, replay, parked, eofSent>> /\ call = "packet"
  BY DEF PacketAccepted, Return
<1>2. /\ dec \in Decoder /\ dec.inside \in Seq(Nat) /\ accepted \in Seq(Nat)
      /\ nextPacket \in Nat /\ ~eofSent
  BY <1>1 DEF StreamInv, TypeOK, Decoder, QuestionInv
<1>3. nextPacket \in 1 .. MaxPackets
  BY <1>1, <1>2, StreamAssumption DEF OrderInv, HandInv
<1>4. /\ Range(accepted') = Range(accepted) \cup {nextPacket}
      /\ Range(dec'.inside) \subseteq Range(dec.inside) \cup {nextPacket}
  <2>1. dec'.inside \in {dec.inside, Append(dec.inside, nextPacket)}
    BY <1>1, <1>2, TakenInside
  <2>2. Range(Append(dec.inside, nextPacket)) = Range(dec.inside) \cup {nextPacket}
    BY <1>2, RangeOfAppend
  <2>3. Range(Append(accepted, nextPacket)) = Range(accepted) \cup {nextPacket}
    BY <1>2, RangeOfAppend
  <2> QED
    BY <1>1, <2>1, <2>2, <2>3
<1>5. InFlight' \subseteq InFlight \cup {nextPacket}
  BY <1>1, <1>4 DEF InFlight, Fallback
<1> QED
  BY <1>1, <1>2, <1>3, <1>5, AcceptStep DEF Heard, RescueAnswers

\* A flow answer comes from an errno that changed nothing, and it says the end
\* only when the end was taken and nothing is left.
LEMMA FlowAnswerTrue ==
  ASSUME StreamInv, stage = "codec", NEW e \in Errors, Status(Verdict(e)) # "none"
  PROVE  /\ AfterVerdict(e) = dec
         /\ Status(Verdict(e)) \in {"mustDrain", "needsInput"} => ~eofSent
         /\ Status(Verdict(e)) = "ended" =>
              eofSent /\ ~trial /\ call = "receive" /\ dec.inside = <<>>
<1>1. dec \in Decoder /\ dec.ended = eofSent /\ dec.ended \in BOOLEAN
  BY DEF StreamInv, TypeOK, EndInv, Decoder
<1>2. Verdict(e) \in {"again", "eof"} /\ e.errno = Verdict(e)
  BY FlowVerdict DEF Verdict
<1>3. e.after = dec
  BY <1>2 DEF Errors, SendErrors, ReceiveErrors
<1>4. AfterVerdict(e) = dec
  BY <1>2, <1>3 DEF AfterVerdict
<1>5. AcceptsInput <=> ~eofSent
  BY <1>1 DEF AcceptsInput
<1>6. Status(Verdict(e)) \in {"mustDrain", "needsInput"} => ~eofSent
  BY <1>2, <1>5 DEF Status
<1>7. ASSUME Status(Verdict(e)) = "ended"
      PROVE  eofSent /\ ~trial /\ call = "receive" /\ dec.inside = <<>>
  <2>1. call = "receive" /\ ~trial
    BY <1>2, <1>7 DEF Status
  <2>2. e \in ReceiveErrors(dec)
    BY <1>2, <2>1 DEF Errors
  <2>3. CASE Verdict(e) = "again"
    <3>1. eofSent
      BY <1>5, <1>7, <2>1, <2>3 DEF Status
    <3>2. ~HasPicture(dec)
      BY <1>1, <1>2, <2>2, <2>3, <3>1 DEF ReceiveErrors
    <3> QED
      BY <2>1, <3>1, <3>2 DEF HasPicture
  <2>4. CASE Verdict(e) = "eof"
    <3>1. ~HasPicture(dec) /\ dec.ended
      BY <1>1, <1>2, <2>2, <2>4 DEF ReceiveErrors
    <3> QED
      BY <1>1, <2>1, <3>1 DEF HasPicture
  <2> QED
    BY <1>2, <2>3, <2>4
<1> QED
  BY <1>4, <1>6, <1>7

\* An answer takes at most a picture from what is in flight.
LEMMA ShrunkInFlight ==
  ASSUME StreamInv, Shrunk(dec', dec), stage \notin Fallback, stage' \notin Fallback,
         UNCHANGED <<trial, replay, parked, accepted>>
  PROVE  InFlight' \subseteq InFlight
<1>1. dec.inside \in Seq(Nat)
  BY DEF StreamInv, TypeOK, Decoder
<1>2. Range(dec'.inside) \subseteq Range(dec.inside)
  <2>1. CASE dec'.inside = dec.inside
    BY <2>1
  <2>2. CASE dec.inside # <<>> /\ dec'.inside = Tail(dec.inside)
    BY <1>1, <2>2, RangeOfSplit
  <2> QED
    BY <2>1, <2>2 DEF Shrunk
<1> QED
  BY <1>2 DEF InFlight

LEMMA CodecAnswersRhythm ==
  ASSUME StreamInv, OrderInv, CodecAnswers
  PROVE  RhythmStep
<1> DEFINE status(e) == Status(Verdict(e))
           told(e) == IF status(e) = "none" THEN "failed" ELSE status(e)
<1>1. PICK e \in Errors :
        /\ dec' = AfterVerdict(e)
        /\ eofSent' = (eofSent \/ TakesTheEnd(told(e)))
        /\ Return(told(e))
  BY DEF CodecAnswers
<1>2. /\ stage = "codec" /\ stage' = "idle" /\ answer' = told(e)
      /\ UNCHANGED <<trial, replay, parked, accepted>>
  BY <1>1 DEF CodecAnswers, Return, history
<1>3. dec \in Decoder /\ eofSent \in BOOLEAN
  BY DEF StreamInv, TypeOK
<1>4. status(e) \in {"none"} \cup FlowAnswers
  BY DEF Status, FlowAnswers
<1>5. eofSent' = eofSent
  BY <1>1, <1>3, <1>4 DEF TakesTheEnd, FlowAnswers
<1>6. CASE status(e) = "none"
  <2>1. Shrunk(dec', dec)
    BY <1>1, <1>3, ErrorKeepsOrder
  <2>2. InFlight' \subseteq InFlight
    BY <1>2, <2>1, ShrunkInFlight DEF Fallback
  <2> QED
    BY <1>2, <1>5, <1>6, <2>2, FailedStep DEF Heard, RescueAnswers
<1>7. CASE status(e) # "none"
  <2>1. /\ dec' = dec
        /\ status(e) \in {"mustDrain", "needsInput"} => ~eofSent
        /\ status(e) = "ended" =>
             eofSent /\ ~trial /\ call = "receive" /\ dec.inside = <<>>
    BY <1>1, <1>2, <1>7, FlowAnswerTrue
  <2>2. InFlight' = InFlight
    BY <1>2, <2>1 DEF InFlight, Fallback
  <2>3. ASSUME status(e) = "ended"
        PROVE  InFlight = {}
    <3>1. parked = <<>> /\ replay = <<>> /\ dec.inside = <<>> /\ ~trial
      BY <1>2, <2>1, <2>3 DEF StreamInv, QuestionInv, OrderInv, FrontInv
    <3> QED
      BY <1>2, <3>1, RangeOfEmpty DEF InFlight, Fallback
  <2>4. Heard' = status(e)
    BY <1>2, <1>4, <1>7 DEF Heard, RescueAnswers, FlowAnswers
  <2> QED
    BY <1>3, <1>4, <1>5, <1>7, <2>1, <2>2, <2>3, <2>4, FlowStep DEF FlowAnswers
<1> QED
  BY <1>6, <1>7

LEMMA HwExhaustedRhythm ==
  ASSUME StreamInv, StreamInv', HwExhausted
  PROVE  RhythmStep
<1>1. /\ trial /\ trial' = FALSE /\ UNCHANGED <<eofSent, accepted>>
      /\ \/ stage' = "open" /\ answer' = answer
         \/ stage' = "idle" /\ answer' = "allFailed"
  BY DEF HwExhausted, Return
<1>2. InFlight = Range(accepted)
  BY <1>1 DEF InFlight
<1>3. InFlight' \subseteq InFlight
  <2>1. Waiting' \subseteq Range(accepted')
    BY DEF StreamInv, HistoryInv, NothingLost, Waiting
  <2> QED
    BY <1>1, <1>2, <2>1, InFlightWholeNext
<1> QED
  BY <1>1, <1>3, HiddenStep, FailedStep DEF Heard, RescueAnswers

\* The front picture is one in flight, and once it is out it is out for good.
LEMMA ConvertRhythm ==
  ASSUME StreamInv, NEW picture \in 1 .. MaxPackets, ConvertScratch(picture),
         stage \notin Fallback, trial' = FALSE, eofSent' = eofSent,
         replay' = <<>>, Range(dec'.inside) \subseteq InFlight \ {picture},
         picture \in InFlight
  PROVE  RhythmStep
<1>1. /\ stage' = "idle" /\ Range(<<picture>>) = {picture} /\ Range(<<>>) = {}
      /\ \/ parked' = <<>> /\ answer' \in {"produced", "failed"}
         \/ parked' = <<picture>> /\ answer' = "failed"
  BY RangeOfSingle, RangeOfEmpty DEF ConvertScratch, Return
<1>2. InFlight' = Range(parked') \cup Range(dec'.inside)
  BY <1>1 DEF InFlight, Fallback
<1>3. CASE answer' = "produced"
  <2>1. InFlight' \subseteq InFlight \ {picture}
    BY <1>1, <1>2, <1>3
  <2>2. Heard' = "produced"
    BY <1>3 DEF Heard, RescueAnswers
  <2> QED
    BY <2>1, <2>2, ProduceStep
<1>4. CASE answer' = "failed"
  <2>1. InFlight' \subseteq InFlight
    BY <1>1, <1>2
  <2>2. Heard' = "failed"
    BY <1>4 DEF Heard, RescueAnswers
  <2> QED
    BY <2>1, <2>2, FailedStep
<1> QED
  BY <1>1, <1>3, <1>4

\* What is in flight is the caller's.
LEMMA InFlightPackets ==
  ASSUME StreamInv, OrderInv
  PROVE  InFlight \subseteq 1 .. MaxPackets
BY InFlightAccepted DEF OrderInv, HandInv

LEMMA ProducedRhythm ==
  ASSUME StreamInv, OrderInv, Produced
  PROVE  RhythmStep
<1>1. /\ dec.inside \in Seq(Nat) /\ dec.inside # <<>> /\ Increasing(dec.inside)
      /\ dec'.inside = Tail(dec.inside) /\ replay = <<>> /\ stage = "codec"
      /\ ConvertScratch(NextPicture(dec)) /\ trial' = FALSE
      /\ UNCHANGED <<replay, eofSent>>
  BY DEF Produced, HasPicture, Yielded, StreamInv, TypeOK, Decoder, OrderInv,
         PicturesInv, FrontInv
<1>2. /\ NextPicture(dec) \in Nat /\ Before({NextPicture(dec)}, Range(dec'.inside))
      /\ Range(dec.inside) = {NextPicture(dec)} \cup Range(dec'.inside)
  BY <1>1, IncreasingTail DEF NextPicture
<1>3. NextPicture(dec) \notin Range(dec'.inside)
  BY <1>2 DEF Before
<1>4. Range(dec.inside) \subseteq InFlight
  BY InFlightAccepted DEF Waiting
<1> QED
  BY <1>1, <1>2, <1>3, <1>4, InFlightPackets, ConvertRhythm DEF Fallback

LEMMA FrontRhythm ==
  ASSUME StreamInv, OrderInv, FrontStep
  PROVE  RhythmStep
<1>1. CASE DeliverParked
  <2>1. /\ Head(parked) \in Nat /\ Range(parked) = {Head(parked)} /\ replay = <<>>
        /\ trial = FALSE /\ stage = "front" /\ UNCHANGED <<dec, trial, replay, eofSent>>
        /\ ConvertScratch(Head(parked))
    BY <1>1, Seat DEF DeliverParked, ReplayWaits, StreamInv, TrialInv, TypeOK
  <2>2. InFlight = {Head(parked)} \cup Range(dec.inside)
    BY <2>1, RangeOfEmpty DEF InFlight, Fallback
  <2>3. Head(parked) \notin Range(dec.inside)
    BY <2>1 DEF OrderInv, PicturesInv, Before
  <2> QED
    BY <2>1, <2>2, <2>3, InFlightPackets, ConvertRhythm DEF Fallback
<1>2. CASE AskDecoder
  <2>1. /\ UNCHANGED <<session, history, answer>> /\ stage = "front" /\ stage' = "codec"
    BY <1>2 DEF AskDecoder
  <2>2. InFlight' = InFlight /\ eofSent' = eofSent /\ Heard' = Heard
    BY <2>1 DEF InFlight, Fallback, session, history, Heard
  <2> QED
    BY <2>2, HiddenStep
<1>3. CASE DeliverReplayed
  <2>1. /\ replay \in Seq(Nat) /\ replay # <<>> /\ Increasing(replay)
        /\ parked = <<>> /\ ~trial /\ stage = "front" /\ stage' = "idle"
        /\ UNCHANGED <<dec, trial, parked, eofSent>>
        /\ \/ replay' = Tail(replay) /\ answer' = "produced"
           \/ replay' \in {replay, Tail(replay)} /\ answer' = "failed"
    BY <1>3 DEF DeliverReplayed, ReplayedStays, ReplayWaits, Return, StreamInv, TypeOK,
                TrialInv, OrderInv, PicturesInv, FrontInv
  <2>2. /\ Range(replay) = {Head(replay)} \cup Range(Tail(replay))
        /\ Before({Head(replay)}, Range(Tail(replay))) /\ Head(replay) \in Nat
    BY <2>1, IncreasingTail
  <2>3. Head(replay) \notin Range(Tail(replay)) \cup Range(dec.inside)
    BY <2>2 DEF OrderInv, PicturesInv, Before
  <2>4. /\ InFlight = Range(replay) \cup Range(dec.inside)
        /\ InFlight' = Range(replay') \cup Range(dec.inside)
    BY <2>1, RangeOfEmpty DEF InFlight, Fallback
  <2>5. CASE replay' = Tail(replay) /\ answer' = "produced"
    <3>1. /\ Head(replay) \in InFlight /\ InFlight' \subseteq InFlight \ {Head(replay)}
          /\ Head(replay) \in 1 .. MaxPackets
      BY <2>2, <2>3, <2>4, <2>5, InFlightPackets
    <3>2. Heard' = "produced"
      BY <2>5 DEF Heard, RescueAnswers
    <3> QED
      BY <2>1, <3>1, <3>2, ProduceStep
  <2>6. CASE replay' \in {replay, Tail(replay)} /\ answer' = "failed"
    <3>1. InFlight' \subseteq InFlight
      BY <2>2, <2>4, <2>6
    <3>2. Heard' = "failed"
      BY <2>6 DEF Heard, RescueAnswers
    <3> QED
      BY <2>1, <3>1, <3>2, FailedStep
  <2> QED
    BY <2>1, <2>5, <2>6
<1> QED
  BY <1>1, <1>2, <1>3 DEF FrontStep

LEMMA DecoderRhythm ==
  ASSUME StreamInv, StreamInv', OrderInv, DecoderStep
  PROVE  RhythmStep
<1>1. CASE PacketUnbuilt
  <2>1. /\ UNCHANGED <<session, history>> /\ stage = "codec" /\ stage' = "idle"
        /\ answer' = "failed"
    BY <1>1 DEF PacketUnbuilt, Return
  <2>2. InFlight' = InFlight /\ eofSent' = eofSent /\ Heard' = "failed"
    BY <2>1 DEF InFlight, Fallback, session, history, Heard, RescueAnswers
  <2> QED
    BY <2>2, FailedStep
<1>2. CASE PacketAccepted
  BY <1>2, PacketAcceptedRhythm
<1>3. CASE EndAccepted
  <2>1. /\ UNCHANGED <<trial, replay, parked, accepted>> /\ stage = "codec"
        /\ stage' = "idle" /\ answer' = "accepted" /\ eofSent' = TRUE
        /\ dec'.inside = dec.inside
    BY <1>3 DEF EndAccepted, Return, TakesTheEnd, TakesEnd, history, StreamInv, TypeOK,
                Decoder
  <2>2. InFlight' = InFlight /\ Heard' = "accepted"
    BY <2>1 DEF InFlight, Fallback, Heard, RescueAnswers
  <2> QED
    BY <2>1, <2>2, EndStep
<1>4. CASE CodecAnswers
  BY <1>4, CodecAnswersRhythm
<1>5. CASE HwAdvances
  <2>1. trial /\ UNCHANGED <<trial, stage, accepted, eofSent, answer>>
    BY <1>5 DEF HwAdvances, FailsCandidate, callVars, history
  <2>2. InFlight' = InFlight /\ Heard' = Heard
    BY <2>1 DEF InFlight, Heard
  <2> QED
    BY <2>1, <2>2, HiddenStep
<1>6. CASE HwExhausted
  BY <1>6, HwExhaustedRhythm
<1>7. CASE Produced
  BY <1>7, ProducedRhythm
<1> QED
  BY <1>1, <1>2, <1>3, <1>4, <1>5, <1>6, <1>7 DEF DecoderStep

\* Until its commit a fallback shows nothing, and a failed one shows a failure.
LEMMA FallbackRhythm ==
  ASSUME StreamInv, StreamInv', FallbackStep
  PROVE  RhythmStep
<1>1. CASE EndForwarded
  <2>1. /\ UNCHANGED <<trial, dec, replay, parked, accepted>> /\ stage = "committed"
        /\ stage' = "idle" /\ answer' = "accepted" /\ eofSent' = TRUE
    BY <1>1 DEF EndForwarded, Return, TakesTheEnd, history, StreamInv, EndInv
  <2>2. InFlight' = InFlight /\ Heard' = "accepted"
    BY <2>1 DEF InFlight, Fallback, Heard, RescueAnswers
  <2> QED
    BY <2>1, <2>2, EndStep
<1>2. CASE ~EndForwarded
  <2>1. /\ stage \in Fallback /\ UNCHANGED <<eofSent, accepted>>
        /\ \/ answer' = answer
           \/ answer' = "fallbackFailed"
    BY <1>2 DEF FallbackStep, SoftwareUnopened, SoftwareOpened, ReplayTakes, ReplayPauses,
       ReplayErrors, DrainTakes, DrainResumes, DrainErrors, DrainUnallocated, Commit,
       FallbackFails, Return, Fallback, session, callVars, history
  <2>2. InFlight = Range(accepted)
    BY <2>1 DEF InFlight
  <2>3. InFlight' \subseteq InFlight
    <3>1. Waiting' \subseteq Range(accepted')
      BY DEF StreamInv, HistoryInv, NothingLost, Waiting
    <3> QED
      BY <2>1, <2>2, <3>1, InFlightWholeNext
  <2> QED
    BY <2>1, <2>3, HiddenStep, FailedStep DEF Heard, RescueAnswers
<1> QED
  BY <1>1, <1>2

LEMMA RhythmNextStep ==
  ASSUME StreamInv, StreamInv', OrderInv, [Next]_vars
  PROVE  [Rhythm!RhythmNext]_Rhythm!rhythmVars
<1>1. CASE CallerStep
  BY <1>1, CallerRhythm DEF RhythmStep
<1>2. CASE DecoderStep
  BY <1>2, DecoderRhythm DEF RhythmStep
<1>3. CASE FrontStep
  BY <1>3, FrontRhythm DEF RhythmStep
<1>4. CASE FallbackStep
  BY <1>4, FallbackRhythm DEF RhythmStep
<1>5. CASE UNCHANGED vars
  <2>1. InFlight' = InFlight /\ eofSent' = eofSent /\ Heard' = Heard
    BY <1>5 DEF vars, session, callVars, fallback, history, InFlight, Heard
  <2> QED
    BY <2>1, HiddenStep DEF RhythmStep
<1> QED
  BY <1>1, <1>2, <1>3, <1>4, <1>5 DEF Next, CallStep

LEMMA RhythmInitial == Init => Rhythm!RhythmInit
<1> SUFFICES ASSUME Init PROVE Rhythm!RhythmInit
  OBVIOUS
<1>1. InFlight = {}
  BY RangeOfEmpty DEF Init, InFlight, OpenDecoder
<1> QED
  BY <1>1 DEF Init, Rhythm!RhythmInit, RescueAnswers

-----------------------------------------------------------------------------
\* The session's state keeps its type whatever is called in whatever order.
THEOREM StreamTypeCorrect == Spec => []TypeOK
<1>1. StreamInv => TypeOK
  BY DEF StreamInv
<1> QED
  BY <1>1, Inductive, PTL

\* No picture of an accepted packet is lost, across a replacement of the hardware
\* decoder by the software one and across a replacement that failed.
THEOREM PicturesKept == Spec => []NothingLost
<1>1. StreamInv => NothingLost
  BY DEF StreamInv, HistoryInv
<1> QED
  BY <1>1, Inductive, PTL

\* Between calls the end is recorded if and only if the decoder in use was told
\* it, and AllBackendsFailed and FallbackFailed return everything accepted.
THEOREM FallbackWhole == Spec => []FallbackAllOrNothing
<1>1. StreamInv => EndAllOrNothing
  BY DEF StreamInv, EndInv, EndAllOrNothing
<1>2. StreamInv => RescueWhole
  BY DEF StreamInv
<1>3. StreamInv => FallbackAllOrNothing
  BY <1>1, <1>2 DEF FallbackAllOrNothing
<1> QED
  BY <1>3, Inductive, PTL

\* A flow answer of a decoder never stands in for a refusal.
THEOREM RefusalNotHidden == Spec => []RefusalFirst
<1>1. StreamInv => RefusalFirst
  BY DEF StreamInv
<1> QED
  BY <1>1, Inductive, PTL

\* Pictures leave in the order of their packets and each once, across candidates
\* of the probe that start the history again and across the change of decoder.
THEOREM PicturesInOrder == Spec => []InOrderOnce
<1>1. StreamInv /\ OrderInv => InOrderOnce
  BY PicturesTogether DEF Increasing, InOrderOnce
<1> QED
  BY <1>1, Inductive, OrderInductive, PTL

\* The session keeps the push rhythm: a picture only of a packet accepted since
\* the last flush and once, NeedsInput and MustDrain never past the end, Ended
\* only when nothing is left, whatever happens between the decoders.
THEOREM RhythmKept == Spec => ImplementsRhythm
<1>1. Init => Rhythm!RhythmInit
  BY RhythmInitial
<1>2. StreamInv /\ StreamInv' /\ OrderInv /\ [Next]_vars
        => [Rhythm!RhythmNext]_Rhythm!rhythmVars
  BY RhythmNextStep
<1>3. Spec => Rhythm!RhythmSpec
  BY <1>1, <1>2, Inductive, OrderInductive, PTL DEF Spec, Rhythm!RhythmSpec
<1> QED
  BY <1>3 DEF ImplementsRhythm

=============================================================================
