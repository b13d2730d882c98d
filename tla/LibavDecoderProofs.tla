------------------------- MODULE LibavDecoderProofs -------------------------
(***************************************************************************)
(* What a question to libavcodec leaves of a decoder: the packets it was   *)
(* fed, the end it was told, and the pictures it still owes or has given   *)
(* up.  Used by the proofs about every component that holds a decoder.     *)
(***************************************************************************)
EXTENDS LibavDecoder, SequenceTheorems, TLAPS

-----------------------------------------------------------------------------
(* Input.                                                                   *)

\* Neither what it was fed nor the end it was told is changed by an answer.
SameInput(x, d) == x \in Decoder /\ x.fed = d.fed /\ x.ended = d.ended

LEMMA OpenedDecoder ==
  ASSUME NEW b \in Backends
  PROVE  OpenDecoder(b) \in Decoder
BY EmptySeq DEF OpenDecoder, Decoder

LEMMA LatchedInput ==
  ASSUME NEW d \in Decoder, NEW x \in Latched(d)
  PROVE  SameInput(x, d)
BY DEF Latched, SameInput, Decoder

LEMMA YieldedInput ==
  ASSUME NEW d \in Decoder, HasPicture(d)
  PROVE  /\ NextPicture(d) \in Nat
         /\ SameInput(Yielded(d), d)
         /\ SameInput(PictureLost(d), d)
<1>1. d.inside \in Seq(Nat) /\ d.inside # <<>> /\ d.backend \in Backends
  BY DEF Decoder, HasPicture
<1>2. Head(d.inside) \in Nat /\ Tail(d.inside) \in Seq(Nat)
  BY <1>1, HeadTailProperties
<1>3. NextPicture(d) \in Nat
  BY <1>2 DEF NextPicture
<1>4. SameInput(Yielded(d), d)
  BY <1>2 DEF Yielded, SameInput, Decoder
<1>5. SameInput(PictureLost(d), d)
  BY <1>2 DEF PictureLost, Yielded, NextPicture, SameInput, Decoder
<1> QED
  BY <1>3, <1>4, <1>5

LEMMA FlushedInput ==
  ASSUME NEW d \in Decoder
  PROVE  Flushed(d) \in Decoder /\ Flushed(d).fed = <<>> /\ Flushed(d).ended = FALSE
BY EmptySeq DEF Flushed, Decoder

LEMMA TakenInput ==
  ASSUME NEW d \in Decoder, NEW p \in Nat, NEW x \in Takes(d, p)
  PROVE  x \in Decoder /\ x.fed = Append(d.fed, p) /\ x.ended = d.ended /\ ~d.ended
<1> DEFINE fed == [d EXCEPT !.fed = Append(@, p)]
           gone == [fed EXCEPT !.dropped = @ \cup {p}]
<1>1. ~d.ended /\ (x = [fed EXCEPT !.inside = Append(@, p)] \/ x \in Latched(gone))
  BY DEF Takes
<1>2. Append(d.fed, p) \in Seq(Nat) /\ Append(d.inside, p) \in Seq(Nat)
  BY AppendProperties DEF Decoder
<1>3. fed \in Decoder /\ fed.fed = Append(d.fed, p) /\ fed.ended = d.ended
        /\ fed.inside = d.inside
  BY <1>2 DEF Decoder
<1>4. CASE x = [fed EXCEPT !.inside = Append(@, p)]
  BY <1>1, <1>2, <1>3, <1>4 DEF Decoder
<1>5. CASE x \in Latched(gone)
  <2>1. gone \in Decoder /\ gone.fed = fed.fed /\ gone.ended = fed.ended
    BY <1>3 DEF Decoder
  <2> HIDE DEF gone
  <2> QED
    BY <1>1, <1>3, <1>5, <2>1, LatchedInput DEF SameInput
<1> QED
  BY <1>1, <1>4, <1>5

LEMMA EndTaken ==
  ASSUME NEW d \in Decoder, NEW x \in TakesEnd(d)
  PROVE  x \in Decoder /\ x.fed = d.fed /\ x.ended = TRUE
BY DEF TakesEnd, Decoder

LEMMA SendErrorInput ==
  ASSUME NEW d \in Decoder, NEW e \in SendErrors(d)
  PROVE  e.errno \in Errnos /\ SameInput(e.after, d)
<1>1. CASE \E n \in Errnos : e = [errno |-> n, after |-> d]
  BY <1>1 DEF SameInput
<1>2. CASE d.ended \/ MustBeDrained(d)
  BY <1>1, <1>2 DEF SendErrors, Errnos
<1>3. CASE ~d.ended /\ ~MustBeDrained(d)
  BY <1>3, LatchedInput DEF SendErrors, Errnos
<1> QED
  BY <1>1, <1>2, <1>3

\* The errors of a lost picture, in ReceiveErrors and in the download.
LEMMA LostPictureInput ==
  ASSUME NEW d \in Decoder, HasPicture(d), NEW x \in Latched(PictureLost(d))
  PROVE  SameInput(x, d)
<1>1. SameInput(PictureLost(d), d)
  BY YieldedInput
<1> QED
  BY <1>1, LatchedInput DEF SameInput

LEMMA ReceiveErrorInput ==
  ASSUME NEW d \in Decoder, NEW e \in ReceiveErrors(d)
  PROVE  e.errno \in Errnos /\ SameInput(e.after, d)
<1>1. CASE \E x \in Latched(PictureLost(d)) : HasPicture(d) /\ e = [errno |-> "fail", after |-> x]
  BY <1>1, LostPictureInput DEF Errnos
<1>2. CASE \E n \in {"again", "eof"} : e = [errno |-> n, after |-> d]
  BY <1>2 DEF Errnos, SameInput
<1> QED
  BY <1>1, <1>2 DEF ReceiveErrors

-----------------------------------------------------------------------------
(* Output.                                                                  *)

\* The pictures a decoder owes or has given up.
Held(d) == Range(d.inside) \cup d.dropped

LEMMA RangeOfEmpty == Range(<<>>) = {}
BY DEF Range

LEMMA RangeOfAppend ==
  ASSUME NEW S, NEW s \in Seq(S), NEW x \in S
  PROVE  Range(Append(s, x)) = Range(s) \cup {x}
<1>1. <<x>> \in Seq(S) /\ Append(s, x) = s \o <<x>>
  BY AppendIsConcat
<1>2. Range(<<x>>) = {x}
  BY DEF Range
<1>3. \A t \in Seq(S) : Range(s \o t) = Range(s) \cup Range(t)
  BY RangeConcatenation
<1>4. Range(s \o <<x>>) = Range(s) \cup Range(<<x>>)
  BY <1>1, <1>3, Zenon
<1> QED
  BY <1>1, <1>2, <1>4, Zenon

LEMMA RangeOfSplit ==
  ASSUME NEW S, NEW s \in Seq(S), s # <<>>
  PROVE  Range(s) = {Head(s)} \cup Range(Tail(s))
<1>1. Tail(s) \in Seq(S) /\ Len(Tail(s)) = Len(s) - 1 /\ Len(s) \in Nat \ {0}
  BY HeadTailProperties, EmptySeq
<1>2. Range(Tail(s)) = {Tail(s)[i] : i \in 1 .. Len(Tail(s))}
  BY <1>1, RangeEquality
<1>3. \A i \in 1 .. Len(Tail(s)) : Tail(s)[i] = s[i + 1]
  BY HeadTailProperties
<1>4. Range(s) = {s[i] : i \in 1 .. Len(s)}
  BY RangeEquality
<1>5. Head(s) = s[1]
  OBVIOUS
<1>6. ASSUME NEW v \in Range(s)
      PROVE  v \in {Head(s)} \cup Range(Tail(s))
  <2>1. PICK i \in 1 .. Len(s) : v = s[i]
    BY <1>4
  <2>2. CASE i = 1
    BY <1>5, <2>1, <2>2
  <2>3. CASE i # 1
    <3>1. i - 1 \in 1 .. Len(Tail(s)) /\ (i - 1) + 1 = i
      BY <1>1, <2>1, <2>3
    <3>2. Tail(s)[i - 1] = v
      BY <1>3, <2>1, <3>1
    <3> QED
      BY <1>2, <3>1, <3>2
  <2> QED
    BY <2>2, <2>3
<1>7. ASSUME NEW v \in {Head(s)} \cup Range(Tail(s))
      PROVE  v \in Range(s)
  <2>1. CASE v = Head(s)
    BY <1>1, <1>4, <1>5, <2>1
  <2>2. CASE v \in Range(Tail(s))
    <3>1. PICK i \in 1 .. Len(Tail(s)) : v = Tail(s)[i]
      BY <1>2, <2>2
    <3>2. i + 1 \in 1 .. Len(s) /\ v = s[i + 1]
      BY <1>1, <1>3, <3>1
    <3> QED
      BY <1>4, <3>2
  <2> QED
    BY <2>1, <2>2
<1> QED
  BY <1>6, <1>7, Zenon

LEMMA LatchedHeld ==
  ASSUME NEW d \in Decoder, NEW x \in Latched(d)
  PROVE  Held(x) = Held(d)
BY DEF Latched, Held, Decoder

\* A packet taken is a picture owed, or one given up at once.
LEMMA TakenHeld ==
  ASSUME NEW d \in Decoder, NEW p \in Nat, NEW x \in Takes(d, p)
  PROVE  Held(x) = Held(d) \cup {p}
<1> DEFINE fed == [d EXCEPT !.fed = Append(@, p)]
           gone == [fed EXCEPT !.dropped = @ \cup {p}]
<1>1. x = [fed EXCEPT !.inside = Append(@, p)] \/ x \in Latched(gone)
  BY DEF Takes
<1>2. Append(d.fed, p) \in Seq(Nat) /\ d.inside \in Seq(Nat)
  BY AppendProperties DEF Decoder
<1>3. fed \in Decoder /\ fed.inside = d.inside /\ fed.dropped = d.dropped
  BY <1>2 DEF Decoder
<1>4. CASE x = [fed EXCEPT !.inside = Append(@, p)]
  <2>1. x.inside = Append(d.inside, p) /\ x.dropped = d.dropped
    BY <1>3, <1>4 DEF Decoder
  <2>2. Range(Append(d.inside, p)) = Range(d.inside) \cup {p}
    BY <1>2, RangeOfAppend
  <2> HIDE DEF fed, gone
  <2> QED
    BY <2>1, <2>2 DEF Held
<1>5. CASE x \in Latched(gone)
  <2>1. gone \in Decoder /\ gone.inside = d.inside /\ gone.dropped = d.dropped \cup {p}
    BY <1>3 DEF Decoder
  <2> HIDE DEF gone
  <2> QED
    BY <1>5, <2>1, LatchedHeld DEF Held
<1> QED
  BY <1>1, <1>4, <1>5

LEMMA YieldedHeld ==
  ASSUME NEW d \in Decoder, HasPicture(d)
  PROVE  /\ Held(d) = Held(Yielded(d)) \cup {NextPicture(d)}
         /\ Held(PictureLost(d)) = Held(d)
<1>1. Range(d.inside) = {NextPicture(d)} \cup Range(Tail(d.inside))
  BY RangeOfSplit DEF Decoder, HasPicture, NextPicture
<1>2. Yielded(d).inside = Tail(d.inside) /\ Yielded(d).dropped = d.dropped
  BY DEF Yielded, Decoder
<1>3. /\ PictureLost(d).inside = Tail(d.inside)
      /\ PictureLost(d).dropped = d.dropped \cup {NextPicture(d)}
  BY DEF PictureLost, Yielded, Decoder
<1> QED
  BY <1>1, <1>2, <1>3 DEF Held

LEMMA EndTakenHeld ==
  ASSUME NEW d \in Decoder, NEW x \in TakesEnd(d)
  PROVE  Held(x) = Held(d)
BY DEF TakesEnd, Decoder, Held

\* The errors of a lost picture, in ReceiveErrors and in the download.
LEMMA LostPictureHeld ==
  ASSUME NEW d \in Decoder, HasPicture(d), NEW x \in Latched(PictureLost(d))
  PROVE  Held(x) = Held(d)
BY YieldedInput, YieldedHeld, LatchedHeld DEF SameInput

\* An error gives no picture away.
LEMMA ErrorHeld ==
  ASSUME NEW d \in Decoder, NEW e \in SendErrors(d) \cup ReceiveErrors(d)
  PROVE  Held(e.after) = Held(d)
<1>1. CASE e.after = d
  BY <1>1
<1>2. CASE e.after \in Latched(d)
  BY <1>2, LatchedHeld
<1>3. CASE HasPicture(d) /\ e.after \in Latched(PictureLost(d))
  BY <1>3, LostPictureHeld
<1>4. e \in SendErrors(d) => e.after = d \/ e.after \in Latched(d)
  BY DEF SendErrors
<1>5. e \in ReceiveErrors(d) =>
        e.after = d \/ (HasPicture(d) /\ e.after \in Latched(PictureLost(d)))
  BY DEF ReceiveErrors
<1> QED
  BY <1>1, <1>2, <1>3, <1>4, <1>5

LEMMA FlushedHeld ==
  ASSUME NEW d \in Decoder
  PROVE  Held(Flushed(d)) = {}
BY RangeOfEmpty DEF Flushed, Held, Decoder

-----------------------------------------------------------------------------
(* Order.                                                                   *)

\* Pictures in the order of their packets, each once.
Increasing(s) == \A i, j \in DOMAIN s : i < j => s[i] < s[j]
Before(S, T) == \A x \in S, y \in T : x < y

LEMMA IncreasingShort ==
  /\ Increasing(<<>>)
  /\ \A p \in Nat : Increasing(<<p>>)
<1>1. Increasing(<<>>)
  BY DEF Increasing
<1>2. ASSUME NEW p \in Nat
      PROVE  Increasing(<<p>>)
  BY DEF Increasing
<1> QED
  BY <1>1, <1>2

\* A sequence read at an index, and the index of a member.
LEMMA Indices ==
  ASSUME NEW s \in Seq(Nat)
  PROVE  /\ Len(s) \in Nat /\ DOMAIN s = 1 .. Len(s)
         /\ \A i \in 1 .. Len(s) : s[i] \in Nat /\ s[i] \in Range(s)
         /\ \A x \in Range(s) : \E i \in 1 .. Len(s) : x = s[i]
BY LenProperties, ElementOfSeq, RangeEquality

LEMMA RangeOfConcat ==
  ASSUME NEW s \in Seq(Nat), NEW t \in Seq(Nat)
  PROVE  s \o t \in Seq(Nat) /\ Range(s \o t) = Range(s) \cup Range(t)
<1>1. s \o t \in Seq(Nat)
  BY ConcatProperties
<1>2. Range(s \o t) = Range(s) \cup Range(t)
  BY RangeConcatenation
<1> QED
  BY <1>1, <1>2

LEMMA IncreasingConcat ==
  ASSUME NEW s \in Seq(Nat), NEW t \in Seq(Nat)
  PROVE  Increasing(s \o t)
           <=> Increasing(s) /\ Increasing(t) /\ Before(Range(s), Range(t))
<1> DEFINE st == s \o t
           m == Len(s)
           n == Len(t)
<1>1. /\ st \in Seq(Nat) /\ Len(st) = m + n
      /\ \A i \in 1 .. m + n : st[i] = IF i <= m THEN s[i] ELSE t[i - m]
  BY ConcatProperties
<1>2. /\ m \in Nat /\ n \in Nat /\ DOMAIN s = 1 .. m /\ DOMAIN t = 1 .. n
      /\ DOMAIN st = 1 .. m + n
  BY <1>1, Indices
<1>3. /\ \A i \in 1 .. m : i \in 1 .. m + n /\ st[i] = s[i]
      /\ \A j \in 1 .. n : m + j \in 1 .. m + n /\ st[m + j] = t[j]
  BY <1>1, <1>2
<1> HIDE DEF st, m, n
<1>4. ASSUME Increasing(st)
      PROVE  Increasing(s) /\ Increasing(t) /\ Before(Range(s), Range(t))
  <2>1. Increasing(s)
    BY <1>2, <1>3, <1>4 DEF Increasing
  <2>2. Increasing(t)
    <3> SUFFICES ASSUME NEW i \in 1 .. n, NEW j \in 1 .. n, i < j
                 PROVE  t[i] < t[j]
      BY <1>2 DEF Increasing
    <3>1. m + i < m + j
      BY <1>2
    <3> QED
      BY <1>2, <1>3, <1>4, <3>1 DEF Increasing
  <2>3. ASSUME NEW x \in Range(s), NEW y \in Range(t)
        PROVE  x < y
    <3>1. PICK i \in 1 .. m : x = s[i]
      BY Indices DEF m
    <3>2. PICK j \in 1 .. n : y = t[j]
      BY Indices DEF n
    <3>3. i < m + j
      BY <1>2
    <3> QED
      BY <1>2, <1>3, <1>4, <3>1, <3>2, <3>3 DEF Increasing
  <2> QED
    BY <2>1, <2>2, <2>3 DEF Before
<1>5. ASSUME Increasing(s), Increasing(t), Before(Range(s), Range(t))
      PROVE  Increasing(st)
  <2> SUFFICES ASSUME NEW i \in 1 .. m + n, NEW j \in 1 .. m + n, i < j
               PROVE  st[i] < st[j]
    BY <1>2 DEF Increasing
  <2>1. CASE j <= m
    <3>1. i \in 1 .. m /\ j \in 1 .. m
      BY <1>2, <2>1
    <3> QED
      BY <1>2, <1>3, <1>5, <3>1 DEF Increasing
  <2>2. CASE i <= m /\ m < j
    <3>1. i \in 1 .. m /\ j - m \in 1 .. n /\ m + (j - m) = j
      BY <1>2, <2>2
    <3>2. s[i] \in Range(s) /\ t[j - m] \in Range(t)
      BY <3>1, Indices DEF m, n
    <3>3. st[i] = s[i] /\ st[j] = t[j - m]
      BY <1>3, <3>1
    <3> QED
      BY <1>5, <3>2, <3>3 DEF Before
  <2>3. CASE m < i
    <3>1. /\ i - m \in 1 .. n /\ j - m \in 1 .. n /\ i - m < j - m
          /\ m + (i - m) = i /\ m + (j - m) = j
      BY <1>2, <2>3
    <3>2. st[i] = t[i - m] /\ st[j] = t[j - m]
      BY <1>3, <3>1
    <3> QED
      BY <1>2, <1>5, <3>1, <3>2 DEF Increasing
  <2> QED
    BY <1>2, <2>1, <2>2, <2>3
<1> QED
  BY <1>4, <1>5 DEF st

LEMMA IncreasingAppend ==
  ASSUME NEW s \in Seq(Nat), NEW p \in Nat, Increasing(s), Before(Range(s), {p})
  PROVE  Increasing(Append(s, p)) /\ Range(Append(s, p)) = Range(s) \cup {p}
<1>1. <<p>> \in Seq(Nat) /\ Append(s, p) = s \o <<p>> /\ Range(<<p>>) = {p}
  BY AppendIsConcat DEF Range
<1>2. Increasing(Append(s, p))
  BY <1>1, IncreasingConcat, IncreasingShort
<1>3. Range(Append(s, p)) = Range(s) \cup {p}
  BY RangeOfAppend
<1> QED
  BY <1>2, <1>3

LEMMA IncreasingTail ==
  ASSUME NEW s \in Seq(Nat), s # <<>>, Increasing(s)
  PROVE  /\ Increasing(Tail(s)) /\ Before({Head(s)}, Range(Tail(s)))
         /\ Head(s) \in Nat /\ Tail(s) \in Seq(Nat)
         /\ Range(s) = {Head(s)} \cup Range(Tail(s))
<1>1. /\ Head(s) \in Nat /\ Tail(s) \in Seq(Nat) /\ s = <<Head(s)>> \o Tail(s)
      /\ <<Head(s)>> \in Seq(Nat) /\ Range(<<Head(s)>>) = {Head(s)}
  <2>1. Head(s) \in Nat /\ Tail(s) \in Seq(Nat)
    BY HeadTailProperties
  <2>2. /\ Len(s) \in Nat \ {0} /\ Len(Tail(s)) = Len(s) - 1
        /\ \A i \in 1 .. Len(Tail(s)) : Tail(s)[i] = s[i + 1]
    BY HeadTailProperties, EmptySeq
  <2>3. <<Head(s)>> \in Seq(Nat) /\ Len(<<Head(s)>>) = 1 /\ <<Head(s)>>[1] = Head(s)
    BY <2>1
  <2>4. /\ <<Head(s)>> \o Tail(s) \in Seq(Nat)
        /\ Len(<<Head(s)>> \o Tail(s)) = 1 + Len(Tail(s))
        /\ \A i \in 1 .. 1 + Len(Tail(s)) :
             (<<Head(s)>> \o Tail(s))[i] = IF i <= 1 THEN <<Head(s)>>[i] ELSE Tail(s)[i - 1]
    BY <2>1, <2>3, ConcatProperties
  <2>5. Head(s) = s[1]
    OBVIOUS
  <2> HIDE DEF Range
  <2>6. ASSUME NEW i \in 1 .. Len(s)
        PROVE  s[i] = (<<Head(s)>> \o Tail(s))[i]
    <3>1. CASE i = 1
      BY <2>2, <2>3, <2>4, <2>5, <3>1
    <3>2. CASE i > 1
      <4>1. i - 1 \in 1 .. Len(Tail(s)) /\ (i - 1) + 1 = i /\ i \in 1 .. 1 + Len(Tail(s)) /\ ~(i <= 1)
        BY <2>2, <3>2
      <4> QED
        BY <2>2, <2>4, <4>1
    <3> QED
      BY <2>2, <3>1, <3>2
  <2>7. s = <<Head(s)>> \o Tail(s)
    BY <2>2, <2>4, <2>6, SeqEqual
  <2> QED
    BY <2>1, <2>3, <2>7 DEF Range
<1>2. Increasing(<<Head(s)>> \o Tail(s))
  BY <1>1
<1> QED
  BY <1>1, <1>2, IncreasingConcat, RangeOfSplit

\* What follows a prefix is later than all of it.
LEMMA IncreasingPrefix ==
  ASSUME NEW s \in Seq(Nat), Increasing(s), NEW n \in Nat, n + 1 \in 1 .. Len(s)
  PROVE  Before(Range(SubSeq(s, 1, n)), {s[n + 1]})
<1>1. \A i \in 1 .. n : s[i] \in Nat /\ i \in DOMAIN s /\ i < n + 1
  BY Indices
<1>2. /\ SubSeq(s, 1, n) \in Seq(Nat) /\ Len(SubSeq(s, 1, n)) = n
      /\ \A i \in 1 .. n : SubSeq(s, 1, n)[i] = s[i]
  BY <1>1, SubSeqProperties
<1>3. ASSUME NEW x \in Range(SubSeq(s, 1, n))
      PROVE  x < s[n + 1]
  <2>1. \E i \in 1 .. Len(SubSeq(s, 1, n)) : x = SubSeq(s, 1, n)[i]
    BY <1>2, Indices
  <2>3. PICK i \in 1 .. n : x = s[i]
    BY <1>2, <2>1
  <2>2. n + 1 \in DOMAIN s
    BY Indices
  <2> QED
    BY <1>1, <2>2, <2>3 DEF Increasing
<1> QED
  BY <1>3 DEF Before

\* An answer leaves the pictures inside, or takes the first.
Shrunk(x, d) ==
  \/ x.inside = d.inside
  \/ d.inside # <<>> /\ x.inside = Tail(d.inside)

LEMMA ErrorShrinks ==
  ASSUME NEW d \in Decoder, NEW e \in SendErrors(d) \cup ReceiveErrors(d)
  PROVE  Shrunk(e.after, d)
<1>1. \A c \in Decoder : \A x \in Latched(c) : x.inside = c.inside
  BY DEF Latched, Decoder
<1>2. CASE e.after = d
  BY <1>2 DEF Shrunk
<1>3. CASE e.after \in Latched(d)
  BY <1>1, <1>3 DEF Shrunk
<1>4. CASE HasPicture(d) /\ e.after \in Latched(PictureLost(d))
  <2>1. PictureLost(d) \in Decoder
    BY <1>4, YieldedInput DEF SameInput
  <2>2. PictureLost(d).inside = Tail(d.inside)
    BY DEF PictureLost, Yielded, Decoder
  <2> QED
    BY <1>1, <1>4, <2>1, <2>2 DEF Shrunk, HasPicture
<1>5. e \in SendErrors(d) => e.after = d \/ e.after \in Latched(d)
  BY DEF SendErrors
<1>6. e \in ReceiveErrors(d) =>
        e.after = d \/ (HasPicture(d) /\ e.after \in Latched(PictureLost(d)))
  BY DEF ReceiveErrors
<1> QED
  BY <1>2, <1>3, <1>4, <1>5, <1>6

\* A packet's picture goes to the back, or nowhere.
LEMMA TakenInside ==
  ASSUME NEW d \in Decoder, NEW p \in Nat, NEW x \in Takes(d, p)
  PROVE  x.inside \in {d.inside, Append(d.inside, p)}
<1> DEFINE fed == [d EXCEPT !.fed = Append(@, p)]
           gone == [fed EXCEPT !.dropped = @ \cup {p}]
<1>1. x = [fed EXCEPT !.inside = Append(@, p)] \/ x \in Latched(gone)
  BY DEF Takes
<1>2. fed.inside = d.inside /\ gone.inside = d.inside
  BY DEF Decoder
<1>3. CASE x = [fed EXCEPT !.inside = Append(@, p)]
  BY <1>3 DEF Decoder
<1>4. CASE x \in Latched(gone)
  BY <1>2, <1>4 DEF Latched, Decoder
<1> QED
  BY <1>1, <1>3, <1>4

-----------------------------------------------------------------------------
(* Identity.                                                                *)

\* A decoder stays the backend it was opened for.
LEMMA LatchedBackend ==
  ASSUME NEW d \in Decoder, NEW x \in Latched(d)
  PROVE  x.backend = d.backend /\ x.inside = d.inside
BY DEF Latched, Decoder

LEMMA YieldedBackend ==
  ASSUME NEW d \in Decoder, HasPicture(d)
  PROVE  /\ Yielded(d).backend = d.backend /\ Yielded(d).inside = Tail(d.inside)
         /\ PictureLost(d).backend = d.backend /\ PictureLost(d).inside = Tail(d.inside)
BY DEF Yielded, PictureLost, Decoder

LEMMA TakenBackend ==
  ASSUME NEW d \in Decoder, NEW p \in Nat, NEW x \in Takes(d, p)
  PROVE  x.backend = d.backend
<1> DEFINE fed == [d EXCEPT !.fed = Append(@, p)]
           gone == [fed EXCEPT !.dropped = @ \cup {p}]
<1>1. x = [fed EXCEPT !.inside = Append(@, p)] \/ x \in Latched(gone)
  BY DEF Takes
<1>2. fed.backend = d.backend /\ gone.backend = d.backend
  BY DEF Decoder
<1>3. CASE x = [fed EXCEPT !.inside = Append(@, p)]
  BY <1>3 DEF Decoder
<1>4. CASE x \in Latched(gone)
  BY <1>2, <1>4 DEF Latched, Decoder
<1> QED
  BY <1>1, <1>3, <1>4

LEMMA EndTakenBackend ==
  ASSUME NEW d \in Decoder, NEW x \in TakesEnd(d)
  PROVE  x.backend = d.backend /\ x.inside = d.inside
BY DEF TakesEnd, Decoder

LEMMA ErrorBackend ==
  ASSUME NEW d \in Decoder, NEW e \in SendErrors(d) \cup ReceiveErrors(d)
  PROVE  e.after.backend = d.backend
<1>1. CASE e.after = d
  BY <1>1
<1>2. CASE e.after \in Latched(d)
  BY <1>2, LatchedBackend
<1>3. CASE HasPicture(d) /\ e.after \in Latched(PictureLost(d))
  <2>1. PictureLost(d) \in Decoder
    BY <1>3, YieldedInput DEF SameInput
  <2> QED
    BY <1>3, <2>1, LatchedBackend, YieldedBackend
<1>4. e \in SendErrors(d) => e.after = d \/ e.after \in Latched(d)
  BY DEF SendErrors
<1>5. e \in ReceiveErrors(d) =>
        e.after = d \/ (HasPicture(d) /\ e.after \in Latched(PictureLost(d)))
  BY DEF ReceiveErrors
<1> QED
  BY <1>1, <1>2, <1>3, <1>4, <1>5

=============================================================================
