------------------------ MODULE WebCodecsAudioProofs ------------------------
(***************************************************************************)
(* Proofs about the audio decoder, and about the slots its callbacks are   *)
(* called through.                                                         *)
(*                                                                         *)
(* The decoder: for any caps, any packets, any codec and any generation.   *)
(* Every step of it is of one of a dozen kinds, which say what becomes of  *)
(* the records, the tasks, the queue and the line of chunks in the browser *)
(* and leave the rest of the step out; each part of the invariant is then  *)
(* shown for the kinds.  A codec that rebases its outputs keeps its chunks *)
(* in line, so the oldest record is that of the output that comes next.    *)
(*                                                                         *)
(* The slots: for any number of decoders, builds and nested handlers.      *)
(* Every step of theirs is made of three changes to the slot map: slots    *)
(* are freed, fresh ones are allocated, a failed build puts the map back.  *)
(*                                                                         *)
(* The two components share no name and no state.                          *)
(***************************************************************************)
EXTENDS WebCodecsAudio, DispatchSlots, FiniteSetTheorems, SequenceTheorems,
        WellFoundedInduction, TLAPS

-----------------------------------------------------------------------------
(* Sums and runs                                                             *)

(***************************************************************************)
(* A nonempty set of naturals has a least element.  The induction every    *)
(* other lemma here needs is an appeal to this one.                        *)
(***************************************************************************)
LEMMA LeastNat ==
  ASSUME NEW S \in SUBSET Nat, S # {}
  PROVE  \E m \in S : \A k \in S : m <= k
<1> DEFINE R == OpToRel(<, Nat)
<1>1. IsWellFoundedOn(R, Nat)
  BY NatLessThanWellFounded
<1>2. PICK m \in S : \A k \in S : ~(<<k, m>> \in R)
  BY <1>1, WFMin
<1>3. \A k \in S : ~(k < m)
  BY <1>2 DEF OpToRel
<1> QED
  BY <1>3

\* Frames, copy tasks and records weigh what their bytes field says.
Weighed(S) == \A x \in S : x.bytes \in Nat

(***************************************************************************)
(* The running total BytesOf is defined by: a function on 0 .. Len(frames) *)
(* that satisfies the recursion exists, so the recursive definition is it. *)
(***************************************************************************)
Step(frames, n, upTo) == IF n = 0 THEN 0 ELSE upTo[n - 1] + frames[n].bytes

LEMMA TotalsExist ==
  ASSUME NEW S, NEW frames \in Seq(S)
  PROVE  \E f : f = [n \in 0 .. Len(frames) |-> Step(frames, n, f)]
<1> DEFINE UpTo(m, f) == f = [n \in 0 .. m |-> Step(frames, n, f)]
           bad == {m \in 0 .. Len(frames) : ~ \E f : UpTo(m, f)}
<1>1. Len(frames) \in Nat
  OBVIOUS
<1>2. SUFFICES ASSUME bad # {}
               PROVE  FALSE
  BY <1>1
<1>3. bad \in SUBSET Nat
  BY <1>1
<1>4. PICK m \in bad : \A k \in bad : m <= k
  BY <1>2, <1>3, LeastNat
<1>5. m \in Nat /\ m \in 0 .. Len(frames) /\ ~ \E f : UpTo(m, f)
  BY <1>3, <1>4
<1>6. CASE m = 0
  <2> DEFINE g == [n \in 0 .. 0 |-> 0]
  <2>1. UpTo(0, g)
    BY DEF Step
  <2> QED
    BY <2>1, <1>5, <1>6
<1>7. CASE m # 0
  <2>1. m - 1 \in 0 .. Len(frames) /\ m - 1 \notin bad
    BY <1>4, <1>5, <1>7, <1>1
  <2>2. PICK f : UpTo(m - 1, f)
    BY <2>1
  <2> DEFINE g == [n \in 0 .. m |->
                     IF n = m THEN f[m - 1] + frames[m].bytes ELSE f[n]]
  <2>3. \A n \in 0 .. m - 1 : f[n] = Step(frames, n, f)
    <3> HIDE DEF Step
    <3> QED
      BY <2>2
  <2>4. \A n \in 0 .. m : g[n] = Step(frames, n, g)
    <3> TAKE n \in 0 .. m
    <3>1. CASE n = m
      BY <3>1, <1>5, <1>7 DEF Step
    <3>2. CASE n # m
      <4>1. n \in 0 .. m - 1 /\ g[n] = f[n]
        BY <3>2, <1>5
      <4>2. n # 0 => n - 1 \in 0 .. m /\ g[n - 1] = f[n - 1]
        BY <4>1, <1>5
      <4> QED
        BY <4>1, <4>2, <2>3 DEF Step
    <3> QED
      BY <3>1, <3>2
  <2>5. UpTo(m, g)
    <3> HIDE DEF Step
    <3> QED
      BY <2>4, Zenon
  <2> QED
    BY <2>5, <1>5
<1> QED
  BY <1>6, <1>7

TotalsOf(frames) == CHOOSE f : f = [n \in 0 .. Len(frames) |-> Step(frames, n, f)]

LEMMA TotalsStep ==
  ASSUME NEW S, NEW frames \in Seq(S), NEW n \in 0 .. Len(frames)
  PROVE  TotalsOf(frames)[n]
           = IF n = 0 THEN 0 ELSE TotalsOf(frames)[n - 1] + frames[n].bytes
<1> DEFINE f == TotalsOf(frames)
<1>1. f = [m \in 0 .. Len(frames) |-> Step(frames, m, f)]
  BY TotalsExist, Zenon DEF TotalsOf
<1> HIDE DEF f
<1>2. f[n] = Step(frames, n, f)
  <2> HIDE DEF Step
  <2> QED
    BY <1>1
<1> QED
  BY <1>2 DEF f, Step

\* The total of a run of frames is the last of its running totals.
LEMMA BytesIsLast ==
  ASSUME NEW frames
  PROVE  BytesOf(frames) = TotalsOf(frames)[Len(frames)]
BY DEF BytesOf, TotalsOf, Step

\* Running totals are naturals.
LEMMA TotalsType ==
  ASSUME NEW S, Weighed(S), NEW frames \in Seq(S), NEW n \in 0 .. Len(frames)
  PROVE  TotalsOf(frames)[n] \in Nat
<1> DEFINE N == Len(frames)
           upTo == TotalsOf(frames)
           bad == {m \in 0 .. N : upTo[m] \notin Nat}
<1>1. N \in Nat /\ \A k \in 1 .. N : frames[k].bytes \in Nat
  <2>1. N \in Nat /\ \A k \in 1 .. N : frames[k] \in S
    OBVIOUS
  <2> QED
    BY <2>1 DEF Weighed
<1>2. \A m \in 0 .. N : upTo[m] = IF m = 0 THEN 0 ELSE upTo[m - 1] + frames[m].bytes
  BY TotalsStep
<1> HIDE DEF upTo
<1>3. bad = {}
  <2>1. SUFFICES ASSUME bad # {} PROVE FALSE
    OBVIOUS
  <2> bad \in SUBSET Nat
    BY <1>1
  <2>2. PICK m \in bad : \A k \in bad : m <= k
    BY <2>1, LeastNat
  <2>3. m # 0 /\ m - 1 \in 0 .. N /\ m - 1 \notin bad
    BY <2>2, <1>1, <1>2
  <2>4. upTo[m - 1] \in Nat /\ frames[m].bytes \in Nat
    BY <2>3, <2>2, <1>1
  <2> QED
    BY <2>2, <2>3, <2>4, <1>2
<1> QED
  BY <1>3 DEF upTo

\* The bytes of a run of frames are a natural.
LEMMA BytesOfType ==
  ASSUME NEW S, Weighed(S), NEW frames \in Seq(S)
  PROVE  BytesOf(frames) \in Nat
<1>1. Len(frames) \in Nat /\ Len(frames) \in 0 .. Len(frames)
  OBVIOUS
<1> QED
  BY <1>1, BytesIsLast, TotalsType

\* The empty sequence is a sequence over any set.
LEMMA NoneYet ==
  ASSUME NEW S
  PROVE  <<>> \in Seq(S)
OBVIOUS

\* A nonempty family of subsets of a finite set has a smallest member.
LEMMA SmallestSubset ==
  ASSUME NEW S, IsFiniteSet(S), NEW P \in SUBSET SUBSET S, P # {}
  PROVE  \E s \in P : \A t \in P : Cardinality(s) <= Cardinality(t)
<1> DEFINE sizes == {Cardinality(s) : s \in P}
<1>1. \A s \in P : Cardinality(s) \in Nat
  BY FS_Subset, FS_CardinalityType
<1>2. sizes \in SUBSET Nat /\ sizes # {}
  BY <1>1
<1> HIDE DEF sizes
<1>3. PICK m \in sizes : \A k \in sizes : m <= k
  BY <1>2, LeastNat
<1> QED
  BY <1>3 DEF sizes

\* One element fewer.
LEMMA OneFewer ==
  ASSUME NEW S, IsFiniteSet(S), NEW s \in SUBSET S, NEW x \in s
  PROVE  /\ IsFiniteSet(s) /\ IsFiniteSet(s \ {x}) /\ s \ {x} \in SUBSET S
         /\ Cardinality(s) \in Nat /\ Cardinality(s \ {x}) \in Nat
         /\ Cardinality(s \ {x}) = Cardinality(s) - 1
         /\ ~(Cardinality(s) <= Cardinality(s \ {x}))
<1>1. IsFiniteSet(s) /\ Cardinality(s) \in Nat
  BY FS_Subset, FS_CardinalityType
<1>2. IsFiniteSet(s \ {x}) /\ Cardinality(s \ {x}) = Cardinality(s) - 1
  BY <1>1, FS_RemoveElement
<1>3. Cardinality(s \ {x}) \in Nat
  BY <1>2, FS_CardinalityType
<1> QED
  BY <1>1, <1>2, <1>3

\* The recursion SumBytes is defined by.
Chosen(s) == CHOOSE r \in s : TRUE
SumStep(f, s) == IF s = {} THEN 0 ELSE f[s \ {Chosen(s)}] + Chosen(s).bytes
SumsOf(S) == CHOOSE f : f = [s \in SUBSET S |-> SumStep(f, s)]

LEMMA SumIsLast ==
  ASSUME NEW S
  PROVE  SumBytes(S) = SumsOf(S)[S]
BY DEF SumBytes, FoldSet, MapThenFoldSet, SumsOf, SumStep, Chosen

\* A function that satisfies the recursion exists, one cardinality after another.
LEMMA SumsExist ==
  ASSUME NEW S, IsFiniteSet(S)
  PROVE  \E f : f = [s \in SUBSET S |-> SumStep(f, s)]
<1> DEFINE N == Cardinality(S)
           Small(m) == {s \in SUBSET S : Cardinality(s) <= m}
           UpTo(m, f) == f = [s \in Small(m) |-> SumStep(f, s)]
           bad == {m \in 0 .. N : ~ \E f : UpTo(m, f)}
<1>1. N \in Nat
  BY FS_CardinalityType
<1>2. Small(N) = SUBSET S
  BY FS_Subset
<1>3. bad = {}
  <2>1. SUFFICES ASSUME bad # {} PROVE FALSE
    OBVIOUS
  <2>2. bad \in SUBSET Nat
    BY <1>1
  <2>3. PICK m \in bad : \A k \in bad : m <= k
    BY <2>1, <2>2, LeastNat
  <2>4. m \in Nat /\ m \in 0 .. N /\ ~ \E f : UpTo(m, f)
    BY <2>2, <2>3
  <2>5. CASE m = 0
    <3> DEFINE g == [s \in Small(0) |-> 0]
    <3>1. \A s \in Small(0) : s = {}
      <4> TAKE s \in Small(0)
      <4>1. IsFiniteSet(s) /\ Cardinality(s) = 0
        BY FS_Subset, FS_CardinalityType
      <4> QED
        BY <4>1, FS_EmptySet
    <3>2. \A s \in Small(0) : g[s] = SumStep(g, s)
      BY <3>1 DEF SumStep
    <3>3. UpTo(0, g)
      <4> HIDE DEF SumStep, Small
      <4> QED
        BY <3>2, Zenon
    <3> QED
      BY <3>3, <2>4, <2>5
  <2>6. CASE m # 0
    <3>1. m - 1 \in 0 .. N /\ ~(m <= m - 1)
      <4> HIDE DEF N
      <4> QED
        BY <2>4, <2>6, <1>1
    <3>2. m - 1 \notin bad
      <4> HIDE DEF bad
      <4> QED
        BY <2>3, <3>1
    <3>3. PICK f : UpTo(m - 1, f)
      BY <3>1, <3>2
    <3> DEFINE g == [s \in Small(m) |->
                       IF Cardinality(s) = m THEN f[s \ {Chosen(s)}] + Chosen(s).bytes
                       ELSE f[s]]
    <3>4. \A s \in Small(m - 1) : f[s] = SumStep(f, s)
      <4> HIDE DEF SumStep, Small
      <4> QED
        BY <3>3
    <3>5. ASSUME NEW s \in Small(m)
          PROVE  g[s] = SumStep(g, s)
      <4>1. s \in SUBSET S /\ IsFiniteSet(s) /\ Cardinality(s) \in Nat /\ Cardinality(s) <= m
        BY FS_Subset, FS_CardinalityType
      <4>2. CASE s = {}
        <5>1. Cardinality(s) = 0
          BY <4>2, FS_EmptySet
        <5>2. s \in Small(m - 1) /\ Cardinality(s) # m
          BY <4>1, <5>1, <2>4, <2>6
        <5>3. g[s] = f[s]
          BY <5>2
        <5> QED
          BY <4>2, <5>2, <5>3, <3>4 DEF SumStep
      <4>3. CASE s # {}
        <5> DEFINE r == s \ {Chosen(s)}
        <5>1. Chosen(s) \in s
          BY <4>3 DEF Chosen
        <5>2. r \in SUBSET S /\ Cardinality(r) = Cardinality(s) - 1 /\ Cardinality(r) \in Nat
          BY <4>1, <5>1, OneFewer
        <5>3. r \in Small(m) /\ Cardinality(r) # m
          BY <4>1, <5>2, <2>4
        <5>4. g[r] = f[r]
          BY <5>3
        <5>5. SumStep(g, s) = f[r] + Chosen(s).bytes
          BY <4>3, <5>4 DEF SumStep
        <5>6. CASE Cardinality(s) = m
          BY <5>5, <5>6
        <5>7. CASE Cardinality(s) # m
          <6>1. s \in Small(m - 1) /\ g[s] = f[s]
            BY <4>1, <5>7, <2>4
          <6>2. f[s] = f[r] + Chosen(s).bytes
            BY <6>1, <3>4, <4>3 DEF SumStep
          <6> QED
            BY <5>5, <6>1, <6>2
        <5> QED
          BY <5>6, <5>7
      <4> QED
        BY <4>2, <4>3
    <3>6. UpTo(m, g)
      <4> HIDE DEF SumStep, Small
      <4> QED
        BY <3>5, Zenon
    <3> QED
      BY <3>6, <2>4
  <2> QED
    BY <2>5, <2>6
<1>4. \E f : UpTo(N, f)
  <2>1. N \in 0 .. N
    <3> HIDE DEF N
    <3> QED
      BY <1>1
  <2> QED
    BY <2>1, <1>3
<1> QED
  BY <1>2, <1>4

\* Which makes it the function CHOOSE picks.
LEMMA SumsStep ==
  ASSUME NEW S, IsFiniteSet(S), NEW s \in SUBSET S
  PROVE  SumsOf(S)[s] = SumStep(SumsOf(S), s)
<1> DEFINE f == SumsOf(S)
<1>1. f = [t \in SUBSET S |-> SumStep(f, t)]
  BY SumsExist, Zenon DEF SumsOf
<1> HIDE DEF f
<1>2. f[s] = SumStep(f, s)
  <2> HIDE DEF SumStep
  <2> QED
    BY <1>1
<1> QED
  BY <1>2 DEF f

\* The total of a set is the same within every larger one.
LEMMA SumsAgree ==
  ASSUME NEW A, NEW B, IsFiniteSet(A), IsFiniteSet(B), NEW s \in SUBSET (A \cap B)
  PROVE  SumsOf(A)[s] = SumsOf(B)[s]
<1> DEFINE bad == {t \in SUBSET (A \cap B) : SumsOf(A)[t] # SumsOf(B)[t]}
<1>1. IsFiniteSet(A \cap B)
  BY FS_Intersection
<1>2. SUFFICES ASSUME bad # {} PROVE FALSE
  OBVIOUS
<1>3. PICK t \in bad : \A u \in bad : Cardinality(t) <= Cardinality(u)
  <2>1. bad \in SUBSET SUBSET (A \cap B)
    OBVIOUS
  <2> HIDE DEF bad
  <2> QED
    BY <1>1, <1>2, <2>1, SmallestSubset
<1>4. /\ t \in SUBSET A /\ t \in SUBSET B /\ t \in SUBSET (A \cap B)
      /\ SumsOf(A)[t] # SumsOf(B)[t]
  BY <1>3
<1>5. /\ SumsOf(A)[t] = SumStep(SumsOf(A), t)
      /\ SumsOf(B)[t] = SumStep(SumsOf(B), t)
  BY <1>4, SumsStep
<1>6. CASE t = {}
  BY <1>4, <1>5, <1>6 DEF SumStep
<1>7. CASE t # {}
  <2> DEFINE r == t \ {Chosen(t)}
  <2>1. Chosen(t) \in t
    BY <1>7 DEF Chosen
  <2>2. r \in SUBSET (A \cap B) /\ ~(Cardinality(t) <= Cardinality(r))
    BY <1>1, <1>4, <2>1, OneFewer
  <2>3. r \notin bad
    BY <1>3, <2>2
  <2>4. SumsOf(A)[r] = SumsOf(B)[r]
    BY <2>2, <2>3
  <2> QED
    BY <1>4, <1>5, <1>7, <2>4 DEF SumStep
<1> QED
  BY <1>6, <1>7

\* The recursion on SumBytes itself.
LEMMA SumBytesStep ==
  ASSUME NEW S, IsFiniteSet(S)
  PROVE  SumBytes(S) = IF S = {} THEN 0 ELSE SumBytes(S \ {Chosen(S)}) + Chosen(S).bytes
<1>1. SumBytes(S) = SumStep(SumsOf(S), S)
  BY SumIsLast, SumsStep
<1>2. CASE S = {}
  BY <1>1, <1>2 DEF SumStep
<1>3. CASE S # {}
  <2> DEFINE r == S \ {Chosen(S)}
  <2>1. IsFiniteSet(r) /\ r \in SUBSET (S \cap r)
    BY FS_Subset
  <2>2. SumsOf(S)[r] = SumsOf(r)[r]
    BY <2>1, SumsAgree
  <2>3. SumsOf(r)[r] = SumBytes(r)
    BY SumIsLast
  <2> QED
    BY <1>1, <1>3, <2>2, <2>3 DEF SumStep
<1> QED
  BY <1>2, <1>3

\* Nothing weighs nothing.
LEMMA SumBytesEmpty == SumBytes({}) = 0
BY FS_EmptySet, SumBytesStep

\* Sets whose elements have a size.
Sized(S) == IsFiniteSet(S) /\ \A r \in S : r.bytes \in Nat

\* A total is a natural.
LEMMA SumBytesType ==
  ASSUME NEW S, Sized(S)
  PROVE  SumBytes(S) \in Nat
<1> DEFINE bad == {s \in SUBSET S : SumBytes(s) \notin Nat}
<1>1. IsFiniteSet(S) /\ \A r \in S : r.bytes \in Nat
  BY DEF Sized
<1>2. SUFFICES ASSUME bad # {} PROVE FALSE
  OBVIOUS
<1>3. PICK s \in bad : \A t \in bad : Cardinality(s) <= Cardinality(t)
  <2>1. bad \in SUBSET SUBSET S
    OBVIOUS
  <2> HIDE DEF bad
  <2> QED
    BY <1>1, <1>2, <2>1, SmallestSubset
<1>4. s \in SUBSET S /\ SumBytes(s) \notin Nat /\ IsFiniteSet(s)
  BY <1>1, <1>3, FS_Subset
<1>5. s # {}
  BY <1>4, SumBytesEmpty
<1>6. Chosen(s) \in s /\ Chosen(s).bytes \in Nat
  BY <1>1, <1>4, <1>5 DEF Chosen
<1> DEFINE r == s \ {Chosen(s)}
<1>7. r \in SUBSET S /\ ~(Cardinality(s) <= Cardinality(r))
  BY <1>1, <1>4, <1>6, OneFewer
<1>8. SumBytes(r) \in Nat
  BY <1>3, <1>7
<1>9. SumBytes(s) = SumBytes(r) + Chosen(s).bytes
  BY <1>4, <1>5, SumBytesStep
<1> QED
  BY <1>4, <1>6, <1>8, <1>9

\* The order does not matter: any element can be taken out first.
LEMMA SumBytesRemove ==
  ASSUME NEW S, Sized(S), NEW x \in S
  PROVE  SumBytes(S) = SumBytes(S \ {x}) + x.bytes
<1> DEFINE bad == {s \in SUBSET S : \E y \in s : SumBytes(s) # SumBytes(s \ {y}) + y.bytes}
<1>1. IsFiniteSet(S) /\ \A r \in S : r.bytes \in Nat
  BY DEF Sized
<1>2. SUFFICES ASSUME bad # {} PROVE FALSE
  OBVIOUS
<1>3. PICK s \in bad : \A t \in bad : Cardinality(s) <= Cardinality(t)
  <2>1. bad \in SUBSET SUBSET S
    OBVIOUS
  <2> HIDE DEF bad
  <2> QED
    BY <1>1, <1>2, <2>1, SmallestSubset
<1>4. s \in SUBSET S /\ IsFiniteSet(s) /\ s # {}
  BY <1>1, <1>3, FS_Subset
<1>5. PICK y \in s : SumBytes(s) # SumBytes(s \ {y}) + y.bytes
  BY <1>3
<1> DEFINE p == Chosen(s)
<1>6. p \in s /\ SumBytes(s) = SumBytes(s \ {p}) + p.bytes
  BY <1>4, SumBytesStep DEF Chosen
<1> HIDE DEF p
<1>7. p # y
  BY <1>5, <1>6
<1>8. /\ s \ {p} \in SUBSET S /\ ~(Cardinality(s) <= Cardinality(s \ {p}))
      /\ s \ {y} \in SUBSET S /\ ~(Cardinality(s) <= Cardinality(s \ {y}))
  BY <1>1, <1>4, <1>5, <1>6, OneFewer
<1>9. s \ {p} \notin bad /\ s \ {y} \notin bad
  BY <1>3, <1>8
<1>10. SumBytes(s \ {p}) = SumBytes((s \ {p}) \ {y}) + y.bytes
  BY <1>5, <1>7, <1>8, <1>9
<1>11. SumBytes(s \ {y}) = SumBytes((s \ {y}) \ {p}) + p.bytes
  BY <1>6, <1>7, <1>8, <1>9
<1>12. (s \ {p}) \ {y} = (s \ {y}) \ {p}
  OBVIOUS
<1>13. /\ SumBytes((s \ {y}) \ {p}) \in Nat /\ p.bytes \in Nat /\ y.bytes \in Nat
  <2>1. Sized((s \ {y}) \ {p})
    BY <1>1, <1>4, FS_Subset DEF Sized
  <2> QED
    BY <2>1, <1>1, <1>4, <1>5, <1>6, SumBytesType
<1> DEFINE rest == SumBytes((s \ {y}) \ {p})
<1>14. SumBytes(s) = rest + y.bytes + p.bytes
  BY <1>6, <1>10, <1>12
<1>15. SumBytes(s \ {y}) = rest + p.bytes
  BY <1>11
<1>16. rest \in Nat /\ p.bytes \in Nat /\ y.bytes \in Nat
  BY <1>13
<1> HIDE DEF rest
<1>17. rest + y.bytes + p.bytes = rest + p.bytes + y.bytes
  BY <1>16
<1> QED
  BY <1>5, <1>14, <1>15, <1>17

\* Adding an element.
LEMMA SumBytesAdd ==
  ASSUME NEW S, Sized(S), NEW x, x \notin S, x.bytes \in Nat
  PROVE  /\ Sized(S \cup {x})
         /\ SumBytes(S \cup {x}) = SumBytes(S) + x.bytes
<1>1. Sized(S \cup {x})
  BY FS_AddElement DEF Sized
<1>2. (S \cup {x}) \ {x} = S
  OBVIOUS
<1>3. SumBytes(S \cup {x}) = SumBytes((S \cup {x}) \ {x}) + x.bytes
  BY <1>1, SumBytesRemove
<1> QED
  BY <1>1, <1>2, <1>3

\* The bytes of no frames, of one, and of one run after another.
LEMMA BytesOfNone == BytesOf(<<>>) = 0
<1>1. <<>> \in Seq(Nat) /\ Len(<<>>) = 0
  BY NoneYet
<1>2. 0 \in 0 .. Len(<<>>)
  BY <1>1
<1>3. TotalsOf(<<>>)[0] = 0
  BY <1>1, <1>2, TotalsStep
<1> QED
  BY <1>1, <1>3, BytesIsLast

LEMMA BytesOfOne ==
  ASSUME NEW S, Weighed(S), NEW x \in S
  PROVE  BytesOf(<<x>>) = x.bytes
<1> DEFINE s == <<x>>
<1>1. s \in Seq(S) /\ Len(s) = 1 /\ s[1] = x /\ x.bytes \in Nat
  BY DEF Weighed
<1> HIDE DEF s
<1>2. 0 \in 0 .. Len(s) /\ 1 \in 0 .. Len(s)
  BY <1>1
<1>3. \A n \in 0 .. Len(s) :
        TotalsOf(s)[n] = IF n = 0 THEN 0 ELSE TotalsOf(s)[n - 1] + s[n].bytes
  BY <1>1, TotalsStep
<1>4. TotalsOf(s)[0] = 0
  BY <1>2, <1>3
<1>5. TotalsOf(s)[1] = TotalsOf(s)[0] + s[1].bytes
  <2>1. 1 # 0 /\ 1 - 1 = 0
    OBVIOUS
  <2> QED
    BY <2>1, <1>2, <1>3
<1>6. TotalsOf(s)[1] = x.bytes
  BY <1>1, <1>4, <1>5
<1> QED
  BY <1>1, <1>6, BytesIsLast DEF s

LEMMA BytesOfConcat ==
  ASSUME NEW S, Weighed(S), NEW s \in Seq(S), NEW t \in Seq(S)
  PROVE  BytesOf(s \o t) = BytesOf(s) + BytesOf(t)
<1> DEFINE m == Len(s)
           n == Len(t)
           u == s \o t
           A == TotalsOf(s)
           B == TotalsOf(t)
           T == TotalsOf(u)
           lag == {k \in 0 .. m : T[k] # A[k]}
           off == {k \in 0 .. n : T[m + k] # A[m] + B[k]}
<1>1. /\ m \in Nat /\ n \in Nat
      /\ u \in Seq(S) /\ Len(u) = m + n
      /\ \A k \in 1 .. m + n : u[k] = IF k <= m THEN s[k] ELSE t[k - m]
  BY ConcatProperties
<1>2. /\ \A k \in 0 .. m : A[k] = IF k = 0 THEN 0 ELSE A[k - 1] + s[k].bytes
      /\ \A k \in 0 .. n : B[k] = IF k = 0 THEN 0 ELSE B[k - 1] + t[k].bytes
  BY TotalsStep
<1>3. \A k \in 0 .. m + n : T[k] = IF k = 0 THEN 0 ELSE T[k - 1] + u[k].bytes
  BY <1>1, TotalsStep
<1>4. \A k \in 0 .. m : A[k] \in Nat
  BY TotalsType
<1>5. \A k \in 0 .. n : B[k] \in Nat
  BY TotalsType
<1>6. \A k \in 1 .. n : t[k].bytes \in Nat
  <2>1. \A k \in 1 .. n : t[k] \in S
    BY <1>1
  <2> QED
    BY <2>1 DEF Weighed
<1>7. BytesOf(s) = A[m] /\ BytesOf(t) = B[n] /\ BytesOf(u) = T[m + n]
  BY <1>1, BytesIsLast
<1> HIDE DEF m, n, u, A, B, T
<1>8. lag = {}
  <2>1. SUFFICES ASSUME lag # {} PROVE FALSE
    OBVIOUS
  <2>2. lag \in SUBSET Nat
    BY <1>1
  <2> HIDE DEF lag
  <2>3. PICK k \in lag : \A j \in lag : k <= j
    BY <2>1, <2>2, LeastNat
  <2>4. k \in 0 .. m /\ T[k] # A[k]
    BY <2>3 DEF lag
  <2>5. k # 0
    BY <2>4, <1>1, <1>2, <1>3
  <2>6. k \in 1 .. m + n /\ k - 1 \in 0 .. m /\ ~(k <= k - 1)
    BY <2>4, <2>5, <1>1
  <2>7. k - 1 \notin lag
    BY <2>3, <2>6
  <2>8. T[k - 1] = A[k - 1]
    BY <2>6, <2>7 DEF lag
  <2>9. u[k] = s[k]
    BY <2>4, <2>6, <1>1
  <2> QED
    BY <2>4, <2>5, <2>6, <2>8, <2>9, <1>1, <1>2, <1>3
<1>9. off = {}
  <2>1. SUFFICES ASSUME off # {} PROVE FALSE
    OBVIOUS
  <2>2. off \in SUBSET Nat
    BY <1>1
  <2> HIDE DEF off
  <2>3. PICK k \in off : \A j \in off : k <= j
    BY <2>1, <2>2, LeastNat
  <2>4. k \in 0 .. n /\ T[m + k] # A[m] + B[k]
    BY <2>3 DEF off
  <2>5. m \in 0 .. m /\ T[m] = A[m] /\ A[m] \in Nat
    <3>1. m \in 0 .. m
      BY <1>1
    <3>2. A[m] \in Nat
      BY <3>1, <1>4
    <3>3. m \notin lag
      BY <1>8
    <3> QED
      BY <3>1, <3>2, <3>3
  <2>6. k # 0
    <3>1. 0 \in 0 .. n /\ B[0] = 0 /\ m + 0 = m /\ A[m] + 0 = A[m]
      BY <2>5, <1>1, <1>2
    <3> QED
      BY <3>1, <2>4, <2>5
  <2>7. k - 1 \in 0 .. n /\ ~(k <= k - 1) /\ k \in 1 .. n
    BY <2>4, <2>6, <1>1
  <2>8. k - 1 \notin off
    BY <2>3, <2>7
  <2>9. T[m + (k - 1)] = A[m] + B[k - 1]
    BY <2>7, <2>8 DEF off
  <2>10. /\ m + k \in 1 .. m + n /\ ~(m + k <= m) /\ m + k - m = k
         /\ m + k - 1 = m + (k - 1) /\ m + k # 0
    BY <2>7, <1>1
  <2>11. u[m + k] = t[k]
    <3> DEFINE i == m + k
    <3>1. i \in 1 .. m + n /\ ~(i <= m) /\ i - m = k
      <4>1. k \in 1 .. n /\ m \in Nat /\ n \in Nat
        BY <2>7, <1>1
      <4> QED
        BY <4>1
    <3> HIDE DEF i
    <3>2. u[i] = t[i - m]
      BY <3>1, <1>1
    <3> QED
      BY <3>1, <3>2 DEF i
  <2>12. T[m + k] = T[m + (k - 1)] + t[k].bytes
    <3> DEFINE i == m + k
    <3>1. i \in 0 .. m + n /\ i # 0 /\ i - 1 = m + (k - 1)
      <4>1. k \in 1 .. n /\ m \in Nat /\ n \in Nat
        BY <2>7, <1>1
      <4> QED
        BY <4>1
    <3>2. u[i] = t[k]
      BY <2>11
    <3> HIDE DEF i
    <3>3. T[i] = T[i - 1] + u[i].bytes
      BY <3>1, <1>3
    <3> QED
      BY <3>1, <3>2, <3>3 DEF i
  <2>13. B[k] = B[k - 1] + t[k].bytes
    BY <2>4, <2>6, <1>2
  <2>14. B[k - 1] \in Nat /\ t[k].bytes \in Nat
    BY <2>7, <1>5, <1>6
  <2> QED
    BY <2>4, <2>5, <2>9, <2>12, <2>13, <2>14
<1>10. n \in 0 .. n
  BY <1>1
<1>11. T[m + n] = A[m] + B[n]
  BY <1>9, <1>10
<1> QED
  BY <1>7, <1>11 DEF u

\* Taking the first frame off.
LEMMA BytesOfPop ==
  ASSUME NEW S, Weighed(S), NEW s \in Seq(S), s # <<>>
  PROVE  /\ BytesOf(s) = Head(s).bytes + BytesOf(Tail(s))
         /\ Head(s).bytes \in Nat /\ BytesOf(Tail(s)) \in Nat
<1>1. Head(s) \in S /\ Tail(s) \in Seq(S) /\ <<Head(s)>> \in Seq(S)
  OBVIOUS
<1>2. <<Head(s)>> \o Tail(s) = s
  BY <1>1
<1>3. BytesOf(<<Head(s)>> \o Tail(s)) = BytesOf(<<Head(s)>>) + BytesOf(Tail(s))
  BY <1>1, BytesOfConcat
<1>4. BytesOf(<<Head(s)>>) = Head(s).bytes
  BY <1>1, BytesOfOne
<1>5. Head(s).bytes \in Nat /\ BytesOf(Tail(s)) \in Nat
  BY <1>1, BytesOfType DEF Weighed
<1> QED
  BY <1>2, <1>3, <1>4, <1>5

LEMMA RangeOfTail ==
  ASSUME NEW S, NEW s \in Seq(S), s # <<>>
  PROVE  Range(s) = {Head(s)} \cup Range(Tail(s))
<1>1. Len(s) \in Nat \ {0} /\ DOMAIN s = 1 .. Len(s) /\ Head(s) = s[1]
  OBVIOUS
<1>2. DOMAIN Tail(s) = 1 .. Len(s) - 1 /\ \A k \in 1 .. Len(s) - 1 : Tail(s)[k] = s[k + 1]
  OBVIOUS
<1>3. \A k \in 1 .. Len(s) : k = 1 \/ (k - 1 \in 1 .. Len(s) - 1 /\ s[k] = Tail(s)[k - 1])
  BY <1>1, <1>2
<1>4. \A x \in Range(s) : x \in {Head(s)} \cup Range(Tail(s))
  <2> TAKE x \in Range(s)
  <2>1. PICK k \in 1 .. Len(s) : x = s[k]
    BY <1>1 DEF Range
  <2>2. CASE k = 1
    BY <2>1, <2>2, <1>1
  <2>3. CASE k - 1 \in 1 .. Len(s) - 1 /\ s[k] = Tail(s)[k - 1]
    BY <2>1, <2>3, <1>2 DEF Range
  <2> QED
    BY <2>1, <2>2, <2>3, <1>3
<1>5. \A x \in Range(Tail(s)) : x \in Range(s)
  <2>1. \A k \in 1 .. Len(s) - 1 : k + 1 \in 1 .. Len(s)
    BY <1>1
  <2> QED
    BY <2>1, <1>1, <1>2 DEF Range
<1>6. Head(s) \in Range(s)
  BY <1>1 DEF Range
<1> QED
  BY <1>4, <1>5, <1>6

LEMMA RangeOfAppend ==
  ASSUME NEW S, NEW s \in Seq(S), NEW x \in S
  PROVE  Range(Append(s, x)) = Range(s) \cup {x}
<1>1. Len(s) \in Nat /\ DOMAIN s = 1 .. Len(s) /\ DOMAIN Append(s, x) = 1 .. Len(s) + 1
  OBVIOUS
<1>2. \A k \in 1 .. Len(s) + 1 : Append(s, x)[k] = IF k = Len(s) + 1 THEN x ELSE s[k]
  OBVIOUS
<1> QED
  BY <1>1, <1>2 DEF Range

\* Moving the first element of one sequence to the end of another.
LEMMA HeadMoves ==
  ASSUME NEW S, NEW d \in Seq(S), NEW s \in Seq(S), s # <<>>
  PROVE  Append(d, Head(s)) \o Tail(s) = d \o s
<1>1. Head(s) \in S /\ Tail(s) \in Seq(S) /\ <<Head(s)>> \in Seq(S)
  OBVIOUS
<1>2. <<Head(s)>> \o Tail(s) = s
  BY <1>1
<1>3. Append(d, Head(s)) = d \o <<Head(s)>>
  BY <1>1, AppendIsConcat
<1>4. \A t, u \in Seq(S) : (d \o t) \o u = d \o (t \o u)
  BY ConcatAssociative
<1> QED
  BY <1>1, <1>2, <1>3, <1>4, Zenon

\* Appending to the second of two runs is appending to both.
LEMMA AppendOutside ==
  ASSUME NEW S, NEW a \in Seq(S), NEW b \in Seq(S), NEW x \in S
  PROVE  a \o Append(b, x) = Append(a \o b, x)
<1>1. a \o b \in Seq(S) /\ <<x>> \in Seq(S)
  OBVIOUS
<1>2. Append(b, x) = b \o <<x>> /\ Append(a \o b, x) = (a \o b) \o <<x>>
  BY <1>1, AppendIsConcat
<1>3. \A t, u, w \in Seq(S) : (t \o u) \o w = t \o (u \o w)
  BY ConcatAssociative
<1>4. (a \o b) \o <<x>> = a \o (b \o <<x>>)
  BY <1>1, <1>3
<1> QED
  BY <1>2, <1>4

\* Frames and copy tasks are named by their id field.
Named(S) == \A x \in S : x.id \in Nat

\* Ids of a run of frames or tasks.
LEMMA IdsType ==
  ASSUME NEW S, Named(S), NEW frames \in Seq(S)
  PROVE  /\ Ids(frames) \in Seq(Nat)
         /\ Len(Ids(frames)) = Len(frames)
         /\ \A k \in 1 .. Len(frames) : Ids(frames)[k] = frames[k].id
<1>1. /\ Len(frames) \in Nat /\ DOMAIN frames = 1 .. Len(frames)
      /\ \A k \in 1 .. Len(frames) : frames[k] \in S
  OBVIOUS
<1>2. \A k \in 1 .. Len(frames) : frames[k].id \in Nat
  BY <1>1 DEF Named
<1>3. Ids(frames) = [k \in 1 .. Len(frames) |-> frames[k].id]
  BY <1>1 DEF Ids
<1>4. Ids(frames) \in [1 .. Len(frames) -> Nat]
  BY <1>2, <1>3
<1>5. Ids(frames) \in Seq(Nat) /\ Len(Ids(frames)) = Len(frames)
  BY <1>1, <1>4
<1> QED
  BY <1>3, <1>5

LEMMA IdsNone == Ids(<<>>) = <<>>
BY DEF Ids

\* The ids of what is left when the first one is taken off.
LEMMA IdsPop ==
  ASSUME NEW S, Named(S), NEW frames \in Seq(S), frames # <<>>
  PROVE  /\ Ids(frames) \in Seq(Nat) /\ Ids(frames) # <<>>
         /\ Head(Ids(frames)) = Head(frames).id
         /\ Tail(Ids(frames)) = Ids(Tail(frames))
<1> DEFINE n == Len(frames)
<1>1. /\ n \in Nat \ {0} /\ Tail(frames) \in Seq(S) /\ Len(Tail(frames)) = n - 1
      /\ Head(frames) = frames[1]
      /\ \A k \in 1 .. n - 1 : Tail(frames)[k] = frames[k + 1]
  OBVIOUS
<1>2. /\ Ids(frames) \in Seq(Nat) /\ Len(Ids(frames)) = n
      /\ \A k \in 1 .. n : Ids(frames)[k] = frames[k].id
  BY IdsType
<1>3. /\ Ids(Tail(frames)) \in Seq(Nat) /\ Len(Ids(Tail(frames))) = n - 1
      /\ \A k \in 1 .. n - 1 : Ids(Tail(frames))[k] = Tail(frames)[k].id
  BY <1>1, IdsType
<1> HIDE DEF n
<1>4. Ids(frames) # <<>> /\ Head(Ids(frames)) = Head(frames).id
  BY <1>1, <1>2
<1>5. /\ Tail(Ids(frames)) \in Seq(Nat) /\ Len(Tail(Ids(frames))) = n - 1
      /\ \A k \in 1 .. n - 1 : Tail(Ids(frames))[k] = Ids(frames)[k + 1]
  BY <1>1, <1>2, <1>4
<1>6. \A k \in 1 .. n - 1 : Tail(Ids(frames))[k] = Ids(Tail(frames))[k]
  <2> TAKE k \in 1 .. n - 1
  <2>1. k + 1 \in 1 .. n
    BY <1>1
  <2>2. Ids(frames)[k + 1] = frames[k + 1].id /\ Tail(frames)[k] = frames[k + 1]
    BY <2>1, <1>1, <1>2
  <2> QED
    BY <2>2, <1>3, <1>5
<1> QED
  BY <1>2, <1>3, <1>4, <1>5, <1>6, SeqEqual

\* The ids of a run with one more at its end.
LEMMA IdsAppend ==
  ASSUME NEW S, Named(S), NEW frames \in Seq(S), NEW x \in S
  PROVE  Ids(Append(frames, x)) = Append(Ids(frames), x.id)
<1> DEFINE n == Len(frames)
           more == Append(frames, x)
<1>1. /\ n \in Nat /\ more \in Seq(S) /\ Len(more) = n + 1
      /\ \A k \in 1 .. n + 1 : more[k] = IF k = n + 1 THEN x ELSE frames[k]
  OBVIOUS
<1>2. /\ Ids(frames) \in Seq(Nat) /\ Len(Ids(frames)) = n
      /\ \A k \in 1 .. n : Ids(frames)[k] = frames[k].id
  BY IdsType
<1>3. /\ Ids(more) \in Seq(Nat) /\ Len(Ids(more)) = n + 1
      /\ \A k \in 1 .. n + 1 : Ids(more)[k] = more[k].id
  BY <1>1, IdsType
<1>4. x.id \in Nat
  BY DEF Named
<1>5. /\ Append(Ids(frames), x.id) \in Seq(Nat) /\ Len(Append(Ids(frames), x.id)) = n + 1
      /\ \A k \in 1 .. n + 1 :
           Append(Ids(frames), x.id)[k] = IF k = n + 1 THEN x.id ELSE Ids(frames)[k]
  BY <1>2, <1>4
<1> HIDE DEF n, more
<1>6. \A k \in 1 .. n + 1 : Ids(more)[k] = Append(Ids(frames), x.id)[k]
  <2> TAKE k \in 1 .. n + 1
  <2>1. k # n + 1 => k \in 1 .. n
    BY <1>1
  <2> QED
    BY <2>1, <1>1, <1>2, <1>3, <1>5
<1> QED
  BY <1>3, <1>5, <1>6, SeqEqual DEF more

-----------------------------------------------------------------------------
(* The audio decoder: what is invariant                                      *)

Task == [id : Nat, epoch : Nat, bytes : Nat]
Admission == [output : Nat, record : Nat]

\* The types the argument needs.
Shape ==
  /\ queue \in Seq(Frame) /\ admitted \in Seq(Admission) /\ delivered \in Seq(Nat)
  /\ pendingOutputs \in SUBSET Record /\ IsFiniteSet(pendingOutputs)
  /\ tasks \in Seq(Task) /\ epoch \in Nat
  /\ nextSubmissionId \in Nat /\ slotFloor \in Nat /\ chunk \in Seq(Nat)
  /\ inputQ \in Seq(Nat) /\ held \in SUBSET Nat /\ outputs \in Seq(Nat) /\ split \in SUBSET Nat

\* Every chunk the browser has and every output it has yet to report.
InBrowser == Range(inputQ) \cup held \cup Range(outputs)

\* Ids are spent once: a record is that of one chunk, and of none admitted.
IdsInv ==
  /\ Len(chunk) = nextSubmissionId /\ nextSubmissionId <= MaxPackets
  /\ slotFloor <= nextSubmissionId
  /\ \A id \in InBrowser \cup split : id < nextSubmissionId
  /\ \A r \in pendingOutputs :
       slotFloor <= r.id /\ r.id < nextSubmissionId /\ r.bytes = chunk[r.id + 1]
  /\ \A q, r \in pendingOutputs : q.id = r.id => q = r
  /\ \A i \in 1 .. Len(admitted) :
       /\ admitted[i].record < nextSubmissionId
       /\ \A r \in pendingOutputs : r.id # admitted[i].record
  /\ \A i, j \in 1 .. Len(admitted) : admitted[i].record = admitted[j].record => i = j

\* Chunks stand in line in the browser, and a rebasing codec keeps the line:
\* what is out is older than what is held, and that older than what is queued.
LineInv ==
  /\ \A i, j \in 1 .. Len(inputQ) : i < j => inputQ[i] < inputQ[j]
  /\ \A h \in held, i \in 1 .. Len(inputQ) : h < inputQ[i]
  /\ rebases =>
       /\ \A o \in Range(outputs) : \A x \in held \cup Range(inputQ) : o < x
       /\ \A i, j \in 1 .. Len(outputs) :
            i < j => outputs[i] < outputs[j] \/ (outputs[i] = outputs[j] /\ outputs[i] \in split)
       /\ \A id \in split : chunk[id + 1] > 1

\* Of an open decoder whose codec rebases, every chunk in the browser has its
\* record and every record that is not of an empty chunk is of one in there.
MatchInv ==
  rebases /\ ~IsClosed =>
    /\ \A id \in InBrowser : id >= slotFloor => \E r \in pendingOutputs : r.id = id
    /\ \A r \in pendingOutputs : r.bytes = 0 \/ r.id \in InBrowser

OwnInv == \A i \in 1 .. Len(admitted) : admitted[i].output = admitted[i].record

\* Tasks are spawned in order, so those of this generation are the last ones.
TasksInv ==
  /\ \A i \in 1 .. Len(tasks) : tasks[i].epoch <= epoch
  /\ \E n \in 0 .. Len(tasks) : \A i \in 1 .. Len(tasks) : i > n <=> tasks[i].epoch = epoch

\* A flush promise is there while send_eof waits, and is kept once all is out.
FlushInv ==
  /\ flushP # "none" => client = "eof"
  /\ flushP = "resolved" => inputQ = <<>> /\ held = {} /\ outputs = <<>>
  /\ eof => pendingOutputs = {}

BudgetInv ==
  /\ CountersHonest /\ pendingPushBytes = 0
  /\ queueBytes + pendingCopyBytes <= MaxInflightBytes

-----------------------------------------------------------------------------
(* What a step of the audio decoder can do to this state                     *)

stock == <<queue, queueBytes, admitted, delivered>>
running == <<tasks, epoch, pendingCopies, pendingCopyBytes>>
numbering == <<nextSubmissionId, chunk, slotFloor>>
line == <<inputQ, held, outputs, split>>
always == <<rebases, pendingPushBytes>>

\* Nothing: a call that only answers or waits, an event, a promise.
Rests == UNCHANGED <<stock, recordVars, running, numbering, line, always, lastError>>

\* An id is spent on a chunk.
Spends(bytes) ==
  /\ bytes \in Nat /\ nextSubmissionId < MaxPackets
  /\ nextSubmissionId' = nextSubmissionId + 1 /\ chunk' = Append(chunk, bytes)
  /\ slotFloor' = slotFloor

\* The chunk is refused by the browser.
Wastes ==
  /\ \E bytes \in Nat : Spends(bytes)
  /\ UNCHANGED <<stock, recordVars, running, line, always, lastError>>

\* The chunk is submitted.
Submits(bytes) ==
  /\ Spends(bytes) /\ ~eof
  /\ InsertPendingOutput(nextSubmissionId, bytes)
  /\ inputQ' = Append(inputQ, nextSubmissionId)
  /\ UNCHANGED <<stock, running, held, outputs, split, always, lastError>>

\* The task at the head of the queue runs.
HeadRuns ==
  /\ tasks # <<>> /\ tasks' = Tail(tasks)
  /\ pendingCopies' = SatSub(pendingCopies, 1)
  /\ pendingCopyBytes' = SatSub(pendingCopyBytes, Estimate(tasks[1].bytes))

TasksStand == UNCHANGED <<tasks, pendingCopies, pendingCopyBytes>>

\* A close or a new generation: what the old one buffered is dropped.
Restarts ==
  /\ ClearGeneration /\ ForgetHistory
  /\ TasksStand \/ HeadRuns
  /\ inputQ' = inputQ \/ inputQ' = <<>>
  /\ held' = held \/ held' = {}
  /\ outputs' = outputs \/ (outputs # <<>> /\ outputs' = Tail(outputs))
  /\ UNCHANGED <<split, rebases>>
  /\ \/ /\ IsClosed' /\ (epoch' = epoch \/ epoch' = epoch + 1)
        /\ UNCHANGED numbering \/ \E bytes \in Nat : Spends(bytes)
     \/ /\ epoch' = epoch + 1
        /\ inputQ' = <<>> /\ held' = {} /\ outputs' = outputs /\ TasksStand
        /\ slotFloor' = nextSubmissionId /\ UNCHANGED <<nextSubmissionId, chunk>>

\* receive_frame hands over the first frame.
Produces ==
  /\ queue # <<>> /\ PopQueue /\ delivered' = Append(delivered, Head(queue).id)
  /\ UNCHANGED <<admitted, recordVars, running, numbering, line, always, lastError>>

\* send_eof is done: the records left are of chunks that decoded to nothing.
Concludes ==
  /\ flushP = "resolved" /\ ClearPendingOutputs
  /\ UNCHANGED <<stock, running, numbering, line, always, lastError>>

\* The next output is dropped.
Drops ==
  /\ outputs # <<>> /\ outputs' = Tail(outputs)
  /\ \/ Head(outputs) < slotFloor
     \/ IsClosed
     \/ RecordOf(Head(outputs)) = {}
  /\ UNCHANGED <<stock, recordVars, running, numbering, inputQ, held, split, always, lastError>>

\* The next output is admitted, for the record r.
Admits(bytes, r) ==
  /\ outputs # <<>> /\ outputs' = Tail(outputs)
  /\ Head(outputs) >= slotFloor /\ ~IsClosed
  /\ bytes \in Nat /\ ~DataTooLarge(bytes)
  /\ r \in RecordOf(Head(outputs)) /\ ~WrongSamples(Head(outputs), r)
  /\ RemovePendingOutput(r)
  /\ admitted' = Append(admitted, [output |-> Head(outputs), record |-> r.id])
  /\ tasks' = Append(tasks, [id |-> r.id, epoch |-> epoch, bytes |-> bytes])
  /\ pendingCopies' = pendingCopies + 1
  /\ pendingCopyBytes' = pendingCopyBytes + Estimate(bytes)
  /\ UNCHANGED <<queue, queueBytes, delivered, epoch, numbering, inputQ, held, split, always,
                 lastError>>

\* A task ends without a frame.
Discards ==
  /\ HeadRuns /\ ~Current
  /\ UNCHANGED <<stock, recordVars, epoch, numbering, line, always, lastError>>

\* A task delivers its frame.
Delivers ==
  /\ HeadRuns /\ Current
  /\ queue' = Append(queue, [id |-> tasks[1].id, bytes |-> tasks[1].bytes])
  /\ queueBytes' = queueBytes + tasks[1].bytes
  /\ UNCHANGED <<admitted, delivered, recordVars, epoch, numbering, line, always, lastError>>

\* The codec takes a chunk.
Takes ==
  /\ inputQ # <<>> /\ inputQ' = Tail(inputQ) /\ held' = held \cup {Head(inputQ)}
  /\ UNCHANGED <<stock, recordVars, running, numbering, outputs, split, always, lastError>>

\* A chunk comes out.
Emits(id, frames) ==
  /\ id \in held /\ held' = held \ {id}
  /\ outputs' = outputs \o [k \in 1 .. frames |-> id]
  /\ rebases => (frames = 0 <=> chunk[id + 1] = 0) /\ (frames = 2 => chunk[id + 1] > 1)
  /\ rebases => \A other \in held : id <= other
  /\ split' = IF frames = 2 THEN split \cup {id} ELSE split
  /\ UNCHANGED <<stock, recordVars, running, numbering, inputQ, always, lastError>>

Kinds ==
  \/ Rests \/ Wastes \/ Restarts \/ Produces \/ Concludes \/ Drops \/ Discards \/ Delivers \/ Takes
  \/ \E bytes \in Nat : Submits(bytes)
  \/ \E bytes \in Nat : \E r \in pendingOutputs : Admits(bytes, r)
  \/ \E id \in held, frames \in 0 .. 2 : Emits(id, frames)

\* reset() leaves the line or empties it.
LEMMA JsResetLine ==
  ASSUME JsReset
  PROVE  /\ inputQ' = inputQ \/ inputQ' = <<>>
         /\ held' = held \/ held' = {}
BY DEF JsReset, JsAbandon, codecVars

\* A recorded fault closes.
LEMMA ClosingCloses ==
  ASSUME NEW kind \in ErrorKinds, RecordClose(kind)
  PROVE  IsClosed' /\ ClearGeneration
BY DEF RecordClose, IsClosed, ErrorKinds, NoError

\* send_packet and receive_frame.
LEMMA KindsSend ==
  ASSUME Shape, IdsInv, pendingPushBytes = 0, SendPacket \/ SendCancelled
  PROVE  Kinds
<1>1. CASE SendRefused \/ SendMustDrain \/ SendCancelled \/ SendParks
  <2>1. Rests
    BY <1>1
    DEF SendRefused, SendMustDrain, SendCancelled, SendParks, SendLeaves, SendReturns, Rests,
        stock, running, numbering, line, always, queueVars, recordVars, idVars, copyCounters,
        pushVars, codecVars, jsVars, stateVars, fixed, history
  <2> QED
    BY <2>1 DEF Kinds
<1>2. ASSUME NEW bytes \in PacketBytes[nextSubmissionId], HasRoom
      PROVE  bytes \in Nat /\ nextSubmissionId < MaxPackets /\ ~eof
  <2>1. nextSubmissionId < MaxPackets /\ nextSubmissionId \in Nat /\ MaxPackets \in Nat /\ ~eof
    BY <1>2, AudioAssumption DEF HasRoom, Shape, Accepting
  <2>2. nextSubmissionId \in 0 .. MaxPackets
    BY <2>1
  <2> QED
    BY <2>1, <2>2, AudioAssumption
<1>3. CASE \E bytes \in PacketBytes[nextSubmissionId] : SendMalformed(bytes)
  <2>1. Rests
    BY <1>3
    DEF SendMalformed, SendLeaves, SendReturns, Rests, stock, running, numbering, line, always,
        queueVars, recordVars, copyCounters, pushVars, codecVars, history
  <2> QED
    BY <2>1 DEF Kinds
<1>4. ASSUME NEW bytes \in PacketBytes[nextSubmissionId], NEW built \in BOOLEAN,
             SendThrows(bytes, built)
      PROVE  Kinds
  <2>1. Spends(bytes)
    BY <1>2, <1>4 DEF SendThrows, SpendId, SendReturns, Spends
  <2>2. UNCHANGED <<stock, recordVars, running, line, always, lastError>>
    BY <1>4
    DEF SendThrows, SendReturns, stock, running, line, always, queueVars, recordVars,
        copyCounters, pushVars, codecVars, history
  <2>3. bytes \in Nat
    BY <2>1 DEF Spends
  <2> QED
    BY <2>1, <2>2, <2>3 DEF Kinds, Wastes
<1>5. ASSUME NEW bytes \in PacketBytes[nextSubmissionId], SendAccepted(bytes)
      PROVE  Kinds
  <2>1. Spends(bytes) /\ ~eof /\ bytes \in Nat
    BY <1>2, <1>5 DEF SendAccepted, SpendId, SendReturns, Spends
  <2>2. /\ InsertPendingOutput(nextSubmissionId, bytes)
        /\ inputQ' = Append(inputQ, nextSubmissionId)
        /\ UNCHANGED <<stock, running, held, outputs, split, always, lastError>>
    BY <1>5
    DEF SendAccepted, SendReturns, JsDecode, stock, running, always, queueVars,
        copyCounters, pushVars, history
  <2> QED
    BY <2>1, <2>2 DEF Kinds, Submits
<1>6. ASSUME NEW bytes \in PacketBytes[nextSubmissionId], NEW kind \in ErrorKinds,
             FatalClose(kind), SendReturns("closed"),
             UNCHANGED numbering \/ Spends(bytes), bytes \in Nat
      PROVE  Kinds
  <2>1. IsClosed' /\ ClearGeneration /\ ForgetHistory
    BY <1>6, ClosingCloses DEF FatalClose
  <2>2. /\ inputQ' = inputQ \/ inputQ' = <<>>
        /\ held' = held \/ held' = {}
    BY <1>6, JsResetLine DEF FatalClose
  <2>3. TasksStand /\ UNCHANGED <<split, rebases, epoch, outputs>>
    BY <1>6 DEF SendReturns, TasksStand, copyCounters
  <2> QED
    BY <2>1, <2>2, <2>3, <1>6 DEF Kinds, Restarts
<1>7. ASSUME NEW bytes \in PacketBytes[nextSubmissionId],
             SendClosesOnRecords(bytes) \/ SendClosesOnInput(bytes)
      PROVE  Kinds
  <2>1. bytes \in Nat
    BY <1>2, <1>7 DEF SendClosesOnRecords, SendClosesOnInput, SpendId
  <2>2. CASE SendClosesOnRecords(bytes)
    <3>1. Spends(bytes)
      BY <1>2, <2>2 DEF SendClosesOnRecords, SpendId, SendReturns, Spends
    <3> QED
      BY <1>6, <2>1, <2>2, <3>1 DEF SendClosesOnRecords, ErrorKinds
  <2>3. CASE SendClosesOnInput(bytes)
    <3>1. UNCHANGED numbering
      BY <2>3 DEF SendClosesOnInput, SendReturns, numbering
    <3>2. \E kind \in ErrorKinds : FatalClose(kind)
      BY <2>3 DEF SendClosesOnInput, ErrorKinds
    <3> QED
      BY <1>6, <2>1, <2>3, <3>1, <3>2 DEF SendClosesOnInput
  <2> QED
    BY <1>7, <2>2, <2>3
<1> QED
  BY <1>1, <1>3, <1>4, <1>5, <1>7 DEF SendPacket

LEMMA KindsReceive ==
  ASSUME ReceiveFrame \/ ReceiveCancelled
  PROVE  Kinds
<1>1. CASE ReceiveProduced
  <2>1. Produces
    BY <1>1
    DEF ReceiveProduced, ReceiveReturns, Produces, running, numbering, line, always, recordVars,
        idVars, copyCounters, pushVars, jsVars, fixed
  <2> QED
    BY <2>1 DEF Kinds
<1>2. CASE ReceiveClosed \/ ReceiveDry \/ ReceiveParks \/ ReceiveCancelled
  <2>1. Rests
    BY <1>2
    DEF ReceiveClosed, ReceiveDry, ReceiveParks, ReceiveCancelled, ReceiveLeaves, ReceiveReturns,
        Rests, stock, running, numbering, line, always, queueVars, recordVars, idVars,
        copyCounters, pushVars, jsVars, stateVars, fixed, history
  <2> QED
    BY <2>1 DEF Kinds
<1> QED
  BY <1>1, <1>2 DEF ReceiveFrame

\* flush and Drop start over.
LEMMA FlushRestarts ==
  ASSUME Flush \/ Drop
  PROVE  Restarts
<1>1. /\ BumpEpoch /\ AbandonDecoder /\ ForgetHistory
      /\ UNCHANGED <<nextSubmissionId, copyCounters, outputs, fixed, tasks, split>>
  BY DEF Flush, FlushRebuilds, FlushFails, FlushBegins, Drop
<1>2. ClearGeneration /\ epoch' = epoch + 1
  BY <1>1 DEF BumpEpoch
<1>3. inputQ' = <<>> /\ held' = {} /\ slotFloor' = nextSubmissionId
  BY <1>1 DEF AbandonDecoder, FreeSlots
<1>4. TasksStand /\ UNCHANGED <<nextSubmissionId, chunk, outputs, split, rebases>>
  BY <1>1 DEF TasksStand, copyCounters, fixed
<1> QED
  BY <1>1, <1>2, <1>3, <1>4 DEF Restarts

\* send_eof, flush and Drop.
LEMMA KindsEof ==
  ASSUME SendEof \/ EofCancelled \/ Flush \/ Drop
  PROVE  Kinds
<1>1. CASE EofClosed \/ EofAwaits
  <2>1. Rests
    BY <1>1
    DEF EofClosed, EofAwaits, JsFlush, Rests, stock, running, numbering, line, always, queueVars,
        recordVars, idVars, copyCounters, pushVars, codecVars, jsVars, stateVars, fixed, history
  <2> QED
    BY <2>1 DEF Kinds
<1>2. CASE EofCompletes
  <2>1. Concludes
    BY <1>2
    DEF EofCompletes, Concludes, stock, running, numbering, line, always, queueVars, idVars,
        copyCounters, pushVars, codecVars, fixed, history
  <2> QED
    BY <2>1 DEF Kinds
<1>3. CASE EofRejected \/ EofCancelled
  <2>1. /\ RecordClose("eof") /\ JsReset /\ ForgetHistory /\ epoch' = epoch + 1
        /\ UNCHANGED <<numbering, outputs, split, rebases>> /\ TasksStand
    BY <1>3
    DEF EofRejected, EofCancelled, EofGuardFires, BumpEpoch, numbering, fixed, TasksStand,
        copyCounters
  <2>2. IsClosed' /\ ClearGeneration
    BY <2>1, ClosingCloses DEF ErrorKinds
  <2>3. /\ inputQ' = inputQ \/ inputQ' = <<>>
        /\ held' = held \/ held' = {}
    BY <2>1, JsResetLine
  <2> QED
    BY <2>1, <2>2, <2>3 DEF Kinds, Restarts
<1>4. CASE Flush \/ Drop
  BY <1>4, FlushRestarts DEF Kinds
<1> QED
  BY <1>1, <1>2, <1>3, <1>4 DEF SendEof

\* A callback or a task that closes the decoder.
LEMMA KindsClose ==
  ASSUME NEW kind \in ErrorKinds, FatalClose(kind), TasksStand \/ HeadRuns,
         outputs' = outputs \/ (outputs # <<>> /\ outputs' = Tail(outputs)),
         UNCHANGED <<numbering, epoch, split, rebases>>
  PROVE  Kinds
<1>1. IsClosed' /\ ClearGeneration /\ ForgetHistory
  BY ClosingCloses DEF FatalClose
<1>2. /\ inputQ' = inputQ \/ inputQ' = <<>>
      /\ held' = held \/ held' = {}
  BY JsResetLine DEF FatalClose
<1> QED
  BY <1>1, <1>2 DEF Kinds, Restarts

\* The browser's callbacks.
LEMMA KindsCallbacks ==
  ASSUME OutputCallback \/ ErrorCallback \/ DequeueCallback
  PROVE  Kinds
<1>1. ASSUME NEW id, OutputOrphaned(id) \/ OutputIgnored(id)
      PROVE  Kinds
  <2>1. outputs # <<>> /\ outputs' = Tail(outputs) /\ id = Head(outputs)
    BY <1>1 DEF OutputOrphaned, OutputIgnored, Handled, OutputOf
  <2>2. id < slotFloor \/ IsClosed \/ RecordOf(id) = {}
    BY <1>1 DEF OutputOrphaned, OutputIgnored
  <2>3. UNCHANGED <<stock, recordVars, running, numbering, inputQ, held, split, always, lastError>>
    BY <1>1
    DEF OutputOrphaned, OutputIgnored, stock, running, numbering, always, queueVars, recordVars,
        idVars, copyCounters, pushVars, codecVars, stateVars, fixed, history
  <2> QED
    BY <2>1, <2>2, <2>3 DEF Kinds, Drops
<1>2. ASSUME NEW id, NEW kind \in ErrorKinds, OutputCloses(id, kind)
      PROVE  Kinds
  <2>1. /\ FatalClose(kind) /\ TasksStand /\ outputs # <<>> /\ outputs' = Tail(outputs)
        /\ UNCHANGED <<numbering, epoch, split, rebases>>
    BY <1>2
    DEF OutputCloses, Handled, OutputOf, TasksStand, numbering, idVars, copyCounters, fixed
  <2> QED
    BY <2>1, KindsClose
<1>3. ASSUME NEW id, NEW bytes \in DataBytes, OutputAdmitted(id, bytes)
      PROVE  Kinds
  <2>1. /\ outputs # <<>> /\ outputs' = Tail(outputs) /\ id = Head(outputs)
        /\ id >= slotFloor /\ ~IsClosed /\ Matched(id) /\ ~DataTooLarge(bytes)
    BY <1>3 DEF OutputAdmitted, Handled, OutputOf
  <2>2. PICK r \in RecordOf(id) :
          /\ RemovePendingOutput(r)
          /\ admitted' = Append(admitted, [output |-> id, record |-> r.id])
          /\ tasks' = Append(tasks, [id |-> r.id, epoch |-> epoch, bytes |-> bytes])
    BY <1>3 DEF OutputAdmitted
  <2>3. r \in pendingOutputs
    BY <2>2 DEF RecordOf, Oldest
  <2>4. ~WrongSamples(id, r)
    BY <2>1, <2>2 DEF Matched, Unmatched
  <2>5. bytes \in Nat
    BY AudioAssumption
  <2>6. /\ pendingCopies' = pendingCopies + 1
        /\ pendingCopyBytes' = pendingCopyBytes + Estimate(bytes)
    BY <1>3 DEF OutputAdmitted, AddPendingCopy
  <2>7. UNCHANGED <<queue, queueBytes, delivered, epoch, numbering, inputQ, held, split, always,
                    lastError>>
    BY <1>3
    DEF OutputAdmitted, queueVars, idVars, pushVars, codecVars, fixed, numbering, always
  <2>8. Admits(bytes, r)
    BY <2>1, <2>2, <2>4, <2>5, <2>6, <2>7 DEF Admits
  <2> QED
    BY <2>3, <2>5, <2>8 DEF Kinds
<1>4. CASE ErrorCallback
  <2>1. /\ RecordClose("js") /\ ForgetHistory /\ inputQ' = <<>> /\ held' = {} /\ TasksStand
        /\ UNCHANGED <<numbering, epoch, outputs, split, rebases>>
    BY <1>4 DEF ErrorCallback, JsAbandon, TasksStand, numbering, idVars, copyCounters, fixed
  <2>2. IsClosed' /\ ClearGeneration
    BY <2>1, ClosingCloses DEF ErrorKinds
  <2> QED
    BY <2>1, <2>2 DEF Kinds, Restarts
<1>5. CASE DequeueCallback
  <2>1. Rests
    BY <1>5
    DEF DequeueCallback, Rests, stock, running, numbering, line, always, queueVars, recordVars,
        idVars, copyCounters, pushVars, stateVars, fixed, history
  <2> QED
    BY <2>1 DEF Kinds
<1> QED
  BY <1>1, <1>2, <1>3, <1>4, <1>5 DEF OutputCallback, OutputUnmatched, OutputRefused, ErrorKinds

\* The copy tasks.
LEMMA KindsCopy ==
  ASSUME CopyTask
  PROVE  Kinds
<1>1. HeadRuns /\ UNCHANGED <<numbering, epoch, outputs, split, rebases>>
  BY DEF CopyTask, CopyDiscarded, CopyFails, CopyCloses, CopyDelivered, TaskRuns, HeadRuns,
         SubPendingCopy, numbering, idVars, fixed
<1>2. CASE CopyDiscarded
  <2>1. Discards
    BY <1>1, <1>2
    DEF CopyDiscarded, Discards, stock, numbering, line, always, queueVars, recordVars,
        pushVars, codecVars, history
  <2> QED
    BY <2>1 DEF Kinds
<1>3. CASE CopyFails
  <2>1. PICK kind \in ErrorKinds : FatalClose(kind)
    BY <1>3 DEF CopyFails, CopyCloses, CopyFaults, ErrorKinds
  <2> QED
    BY <1>1, <2>1, KindsClose
<1>4. CASE CopyDelivered
  <2>1. Delivers
    BY <1>1, <1>4
    DEF CopyDelivered, Delivers, numbering, line, always, recordVars, pushVars, codecVars,
        history
  <2> QED
    BY <2>1 DEF Kinds
<1> QED
  BY <1>2, <1>3, <1>4 DEF CopyTask

\* The browser on its own.
LEMMA KindsBrowser ==
  ASSUME CodecTakes \/ CodecEmits \/ FlushSettles \/ UNCHANGED vars
  PROVE  Kinds
<1>1. UNCHANGED <<stock, recordVars, running, numbering, always, lastError>>
  BY DEF CodecTakes, CodecEmits, FlushSettles, adapterVars, vars, stock, running, numbering,
         always, queueVars, recordVars, idVars, copyCounters, pushVars, stateVars, fixed, history
<1>2. CASE CodecTakes
  <2>1. Takes
    BY <1>1, <1>2 DEF CodecTakes, JsDequeue, Takes
  <2> QED
    BY <2>1 DEF Kinds
<1>3. CASE CodecEmits
  <2>1. PICK id \in held, frames \in 0 .. 2 :
          /\ rebases => (frames = 0 <=> chunk[id + 1] = 0) /\ (frames = 2 => chunk[id + 1] > 1)
          /\ rebases => \A other \in held : id <= other
          /\ JsEmit(id, frames)
          /\ split' = IF frames = 2 THEN split \cup {id} ELSE split
    BY <1>3 DEF CodecEmits
  <2>2. Emits(id, frames)
    BY <1>1, <2>1 DEF JsEmit, Emits
  <2> QED
    BY <2>2 DEF Kinds
<1>4. CASE FlushSettles \/ UNCHANGED vars
  <2>1. Rests
    BY <1>1, <1>4 DEF FlushSettles, JsFlushDone, vars, jsVars, Rests, line
  <2> QED
    BY <2>1 DEF Kinds
<1> QED
  BY <1>2, <1>3, <1>4

\* Every step is of one of these kinds.
LEMMA EveryKind ==
  ASSUME Shape, IdsInv, pendingPushBytes = 0, [Next]_vars
  PROVE  Kinds
BY KindsSend, KindsReceive, KindsEof, KindsCallbacks, KindsCopy, KindsBrowser DEF Next

-----------------------------------------------------------------------------
(* Types and ids                                                             *)

\* The first task, and what is left when it has run.
LEMMA HeadRunsFact ==
  ASSUME Shape, HeadRuns
  PROVE  /\ Len(tasks) \in Nat \ {0} /\ tasks[1] \in Task /\ Head(tasks) = tasks[1]
         /\ tasks' \in Seq(Task) /\ Len(tasks') = Len(tasks) - 1
         /\ \A i \in 1 .. Len(tasks) - 1 : tasks'[i] = tasks[i + 1]
BY DEF Shape, HeadRuns

LEMMA ShapeStep ==
  ASSUME Shape, Kinds
  PROVE  Shape'
<1>1. /\ queue \in Seq(Frame) /\ admitted \in Seq(Admission) /\ delivered \in Seq(Nat)
      /\ pendingOutputs \in SUBSET Record /\ IsFiniteSet(pendingOutputs)
      /\ tasks \in Seq(Task) /\ epoch \in Nat
      /\ nextSubmissionId \in Nat /\ slotFloor \in Nat /\ chunk \in Seq(Nat)
      /\ inputQ \in Seq(Nat) /\ held \in SUBSET Nat /\ outputs \in Seq(Nat) /\ split \in SUBSET Nat
  BY DEF Shape
<1>2. CASE Rests
  BY <1>1, <1>2 DEF Rests, stock, recordVars, running, numbering, line, Shape
<1>3. ASSUME NEW bytes \in Nat, Spends(bytes)
      PROVE  nextSubmissionId' \in Nat /\ slotFloor' \in Nat /\ chunk' \in Seq(Nat)
  BY <1>1, <1>3 DEF Spends
<1>4. CASE Wastes
  BY <1>1, <1>3, <1>4 DEF Wastes, stock, recordVars, running, line, Shape
<1>5. CASE \E bytes \in Nat : Submits(bytes)
  <2>1. PICK bytes \in Nat : Submits(bytes)
    BY <1>5
  <2> DEFINE r == [id |-> nextSubmissionId, epoch |-> epoch, bytes |-> bytes]
  <2>2. r \in Record /\ pendingOutputs' = pendingOutputs \cup {r}
    BY <1>1, <2>1 DEF Submits, InsertPendingOutput, Record
  <2> HIDE DEF r
  <2>3. pendingOutputs' \in SUBSET Record /\ IsFiniteSet(pendingOutputs')
    BY <1>1, <2>2, FS_AddElement
  <2>4. inputQ' \in Seq(Nat)
    BY <1>1, <2>1 DEF Submits
  <2> QED
    BY <1>1, <1>3, <2>1, <2>3, <2>4 DEF Submits, stock, running, Shape
<1>6. CASE Restarts
  <2>1. /\ queue' = <<>> /\ pendingOutputs' = {} /\ admitted' = <<>> /\ delivered' = <<>>
    BY <1>6 DEF Restarts, ClearGeneration, ForgetHistory
  <2>2. tasks' \in Seq(Task)
    BY <1>1, <1>6, HeadRunsFact DEF Restarts, TasksStand
  <2>3. inputQ' \in Seq(Nat) /\ held' \in SUBSET Nat
    <3>1. /\ inputQ' = inputQ \/ inputQ' = <<>>
          /\ held' = held \/ held' = {}
      BY <1>6 DEF Restarts
    <3> QED
      BY <1>1, <3>1, NoneYet
  <2>4. outputs' \in Seq(Nat)
    <3>1. outputs' = outputs \/ (outputs # <<>> /\ outputs' = Tail(outputs))
      BY <1>6 DEF Restarts
    <3>2. outputs # <<>> => Tail(outputs) \in Seq(Nat)
      BY <1>1
    <3> QED
      BY <1>1, <3>1, <3>2
  <2>5. nextSubmissionId' \in Nat /\ slotFloor' \in Nat /\ chunk' \in Seq(Nat)
    BY <1>1, <1>3, <1>6 DEF Restarts, numbering
  <2>6. epoch' \in Nat /\ split' \in SUBSET Nat
    BY <1>1, <1>6 DEF Restarts
  <2>7. IsFiniteSet({})
    BY FS_EmptySet
  <2>8. queue' \in Seq(Frame) /\ admitted' \in Seq(Admission) /\ delivered' \in Seq(Nat)
    BY <2>1, NoneYet
  <2> QED
    BY <2>1, <2>2, <2>3, <2>4, <2>5, <2>6, <2>7, <2>8 DEF Shape
<1>7. CASE Produces
  <2>1. queue' \in Seq(Frame) /\ Head(queue) \in Frame
    BY <1>1, <1>7 DEF Produces, PopQueue
  <2>2. delivered' \in Seq(Nat)
    BY <1>1, <1>7, <2>1 DEF Produces, Frame
  <2> QED
    BY <1>1, <1>7, <2>1, <2>2 DEF Produces, recordVars, running, numbering, line, Shape
<1>8. CASE Concludes
  <2>1. pendingOutputs' \in SUBSET Record /\ IsFiniteSet(pendingOutputs')
    BY <1>8, FS_EmptySet DEF Concludes, ClearPendingOutputs
  <2> QED
    BY <1>1, <1>8, <2>1 DEF Concludes, stock, running, numbering, line, Shape
<1>9. CASE Drops
  <2>1. outputs' \in Seq(Nat)
    BY <1>1, <1>9 DEF Drops
  <2> QED
    BY <1>1, <1>9, <2>1 DEF Drops, stock, recordVars, running, numbering, Shape
<1>10. CASE \E bytes \in Nat : \E r \in pendingOutputs : Admits(bytes, r)
  <2>1. PICK bytes \in Nat, r \in pendingOutputs : Admits(bytes, r)
    BY <1>10
  <2>2. r.id \in Nat /\ outputs # <<>> /\ outputs' = Tail(outputs)
    BY <1>1, <2>1 DEF Record, Admits
  <2>3. outputs' \in Seq(Nat) /\ Head(outputs) \in Nat
    BY <1>1, <2>2
  <2> DEFINE t == [id |-> r.id, epoch |-> epoch, bytes |-> bytes]
             a == [output |-> Head(outputs), record |-> r.id]
  <2>4. t \in Task /\ a \in Admission
    BY <1>1, <2>2, <2>3 DEF Task, Admission
  <2>5. tasks' = Append(tasks, t) /\ admitted' = Append(admitted, a)
    BY <2>1 DEF Admits
  <2> HIDE DEF t, a
  <2>6. tasks' \in Seq(Task) /\ admitted' \in Seq(Admission)
    BY <1>1, <2>4, <2>5
  <2>7. pendingOutputs' \in SUBSET Record /\ IsFiniteSet(pendingOutputs')
    <3>1. pendingOutputs' = pendingOutputs \ {r}
      BY <2>1 DEF Admits, RemovePendingOutput
    <3> QED
      BY <1>1, <3>1, FS_RemoveElement
  <2> QED
    BY <1>1, <2>1, <2>3, <2>6, <2>7 DEF Admits, numbering, Shape
<1>11. CASE Discards
  BY <1>1, <1>11, HeadRunsFact DEF Discards, stock, recordVars, numbering, line, Shape
<1>12. CASE Delivers
  <2>1. tasks[1] \in Task /\ tasks' \in Seq(Task)
    BY <1>12, HeadRunsFact DEF Delivers
  <2>2. [id |-> tasks[1].id, bytes |-> tasks[1].bytes] \in Frame
    BY <2>1 DEF Task, Frame
  <2>3. queue' \in Seq(Frame)
    BY <1>1, <1>12, <2>2 DEF Delivers
  <2> QED
    BY <1>1, <1>12, <2>1, <2>3 DEF Delivers, recordVars, numbering, line, Shape
<1>13. CASE Takes
  <2>1. inputQ' \in Seq(Nat) /\ Head(inputQ) \in Nat
    BY <1>1, <1>13 DEF Takes
  <2> QED
    BY <1>1, <1>13, <2>1 DEF Takes, stock, recordVars, running, numbering, Shape
<1>14. ASSUME NEW id \in held, NEW frames \in 0 .. 2, Emits(id, frames)
       PROVE  Shape'
  <2>1. id \in Nat /\ frames \in Nat
    BY <1>1
  <2>2. [k \in 1 .. frames |-> id] \in Seq(Nat)
    BY <2>1
  <2>3. outputs' \in Seq(Nat)
    BY <1>1, <1>14, <2>2 DEF Emits
  <2>4. held' \in SUBSET Nat /\ split' \in SUBSET Nat
    BY <1>1, <1>14, <2>1 DEF Emits
  <2> QED
    BY <1>1, <1>14, <2>3, <2>4 DEF Emits, stock, recordVars, running, numbering, Shape
<1> QED
  BY <1>2, <1>4, <1>5, <1>6, <1>7, <1>8, <1>9, <1>10, <1>11, <1>12, <1>13, <1>14 DEF Kinds

\* The first element of a sequence and the rest.
LEMMA TailFact ==
  ASSUME NEW S, NEW s \in Seq(S), s # <<>>
  PROVE  /\ Len(s) \in Nat \ {0} /\ Tail(s) \in Seq(S) /\ Len(Tail(s)) = Len(s) - 1
         /\ \A k \in 1 .. Len(s) - 1 : Tail(s)[k] = s[k + 1]
         /\ Head(s) = s[1] /\ Head(s) \in S
OBVIOUS

\* What comes out of a chunk is the chunk's id, frames times.
LEMMA EmitsOut ==
  ASSUME Shape, NEW id \in held, NEW frames \in 0 .. 2, Emits(id, frames)
  PROVE  /\ outputs' \in Seq(Nat) /\ Len(outputs') = Len(outputs) + frames
         /\ \A k \in 1 .. Len(outputs) : outputs'[k] = outputs[k]
         /\ \A k \in Len(outputs) + 1 .. Len(outputs) + frames : outputs'[k] = id
<1> DEFINE more == [k \in 1 .. frames |-> id]
<1>1. outputs \in Seq(Nat) /\ id \in Nat /\ frames \in Nat
  BY DEF Shape
<1>2. more \in Seq(Nat) /\ Len(more) = frames /\ \A k \in 1 .. frames : more[k] = id
  BY <1>1
<1>3. outputs' = outputs \o more
  BY DEF Emits
<1> HIDE DEF more
<1>4. /\ outputs \o more \in Seq(Nat) /\ Len(outputs \o more) = Len(outputs) + Len(more)
      /\ \A k \in 1 .. Len(outputs) + Len(more) :
           (outputs \o more)[k] = IF k <= Len(outputs) THEN outputs[k] ELSE more[k - Len(outputs)]
  BY <1>1, <1>2, ConcatProperties
<1>5. Len(outputs) \in Nat
  BY <1>1
<1>6. ASSUME NEW k \in 1 .. Len(outputs)
      PROVE  outputs'[k] = outputs[k]
  BY <1>1, <1>2, <1>3, <1>4, <1>5
<1>7. ASSUME NEW k \in Len(outputs) + 1 .. Len(outputs) + frames
      PROVE  outputs'[k] = id
  <2>1. k \in 1 .. Len(outputs) + Len(more) /\ ~(k <= Len(outputs)) /\ k - Len(outputs) \in 1 .. frames
    BY <1>1, <1>2, <1>5
  <2> QED
    BY <2>1, <1>2, <1>3, <1>4
<1> QED
  BY <1>2, <1>3, <1>4, <1>6, <1>7

\* Of the ids in the browser a step makes none but the one submitted.
LEMMA BrowserGains ==
  ASSUME Shape, Kinds
  PROVE  \/ InBrowser' \subseteq InBrowser /\ split' \subseteq InBrowser \cup split
         \/ /\ \E bytes \in Nat : Submits(bytes)
            /\ InBrowser' \cup split' = InBrowser \cup split \cup {nextSubmissionId}
<1>1. inputQ \in Seq(Nat) /\ outputs \in Seq(Nat) /\ nextSubmissionId \in Nat
  BY DEF Shape
<1>2. inputQ # <<>> => Range(inputQ) = {Head(inputQ)} \cup Range(Tail(inputQ))
  BY <1>1, RangeOfTail
<1>3. outputs # <<>> => Range(outputs) = {Head(outputs)} \cup Range(Tail(outputs))
  BY <1>1, RangeOfTail
<1>4. Range(<<>>) = {}
  BY DEF Range
<1>5. CASE Rests \/ Wastes \/ Produces \/ Concludes \/ Discards \/ Delivers
  BY <1>5 DEF Rests, Wastes, Produces, Concludes, Discards, Delivers, line, InBrowser
<1>6. CASE Restarts
  <2>1. /\ inputQ' = inputQ \/ inputQ' = <<>>
        /\ held' = held \/ held' = {}
        /\ outputs' = outputs \/ (outputs # <<>> /\ outputs' = Tail(outputs))
        /\ split' = split
    BY <1>6 DEF Restarts
  <2> QED
    BY <2>1, <1>3, <1>4 DEF InBrowser
<1>7. CASE Drops
  BY <1>3, <1>7 DEF Drops, InBrowser
<1>8. CASE \E bytes \in Nat : \E r \in pendingOutputs : Admits(bytes, r)
  BY <1>3, <1>8 DEF Admits, InBrowser
<1>9. CASE Takes
  BY <1>2, <1>9 DEF Takes, InBrowser
<1>10. CASE \E bytes \in Nat : Submits(bytes)
  <2>1. Range(inputQ') = Range(inputQ) \cup {nextSubmissionId}
    BY <1>1, <1>10, RangeOfAppend DEF Submits
  <2> QED
    BY <2>1, <1>10 DEF Submits, InBrowser
<1>11. ASSUME NEW id \in held, NEW frames \in 0 .. 2, Emits(id, frames)
       PROVE  InBrowser' \subseteq InBrowser /\ split' \subseteq InBrowser \cup split
  <2>1. /\ outputs' \in Seq(Nat) /\ Len(outputs') = Len(outputs) + frames
        /\ \A k \in 1 .. Len(outputs) : outputs'[k] = outputs[k]
        /\ \A k \in Len(outputs) + 1 .. Len(outputs) + frames : outputs'[k] = id
    BY <1>11, EmitsOut
  <2>2. ASSUME NEW x \in Range(outputs')
        PROVE  x = id \/ x \in Range(outputs)
    <3>1. PICK k \in 1 .. Len(outputs') : x = outputs'[k]
      BY <2>1 DEF Range
    <3>2. k \in 1 .. Len(outputs) \/ k \in Len(outputs) + 1 .. Len(outputs) + frames
      BY <2>1, <1>1
    <3>3. DOMAIN outputs = 1 .. Len(outputs)
      BY <1>1
    <3>4. CASE k \in 1 .. Len(outputs)
      BY <3>1, <3>3, <3>4, <2>1 DEF Range
    <3>5. CASE k \in Len(outputs) + 1 .. Len(outputs) + frames
      BY <3>1, <3>5, <2>1
    <3> QED
      BY <3>2, <3>4, <3>5
  <2>3. inputQ' = inputQ /\ held' \subseteq held /\ split' \subseteq split \cup {id}
    BY <1>11 DEF Emits
  <2> QED
    BY <2>2, <2>3 DEF InBrowser
<1> QED
  BY <1>5, <1>6, <1>7, <1>8, <1>9, <1>10, <1>11 DEF Kinds

\* Ids only grow and what is known of the chunks stands.
LEMMA NumberingStep ==
  ASSUME Shape, IdsInv, Kinds
  PROVE  /\ Len(chunk') = nextSubmissionId' /\ nextSubmissionId' <= MaxPackets
         /\ slotFloor' <= nextSubmissionId' /\ nextSubmissionId <= nextSubmissionId'
         /\ slotFloor' = slotFloor \/ pendingOutputs' = {}
         /\ \A k \in 1 .. nextSubmissionId : chunk'[k] = chunk[k]
<1>1. /\ nextSubmissionId \in Nat /\ slotFloor \in Nat /\ chunk \in Seq(Nat)
      /\ Len(chunk) = nextSubmissionId /\ nextSubmissionId <= MaxPackets
      /\ slotFloor <= nextSubmissionId /\ MaxPackets \in Nat
  BY AudioAssumption DEF Shape, IdsInv
<1>2. CASE UNCHANGED numbering
  BY <1>1, <1>2 DEF numbering
<1>3. ASSUME NEW bytes \in Nat, Spends(bytes)
      PROVE  /\ Len(chunk') = nextSubmissionId' /\ nextSubmissionId' <= MaxPackets
             /\ slotFloor' <= nextSubmissionId' /\ nextSubmissionId <= nextSubmissionId'
             /\ slotFloor' = slotFloor
             /\ \A k \in 1 .. nextSubmissionId : chunk'[k] = chunk[k]
  <2>1. /\ nextSubmissionId < MaxPackets /\ nextSubmissionId' = nextSubmissionId + 1
        /\ chunk' = Append(chunk, bytes) /\ slotFloor' = slotFloor
    BY <1>3 DEF Spends
  <2>2. Len(chunk') = nextSubmissionId + 1 /\ \A k \in 1 .. nextSubmissionId : chunk'[k] = chunk[k]
    BY <2>1, <1>1
  <2> QED
    BY <2>1, <2>2, <1>1
<1>4. CASE /\ slotFloor' = nextSubmissionId /\ UNCHANGED <<nextSubmissionId, chunk>>
           /\ Restarts
  BY <1>1, <1>4 DEF Restarts, ClearGeneration
<1> QED
  BY <1>2, <1>3, <1>4
  DEF Kinds, Rests, Wastes, Restarts, Produces, Concludes, Drops, Discards, Delivers, Takes,
      Submits, Admits, Emits

\* Records come with a submission and go.
LEMMA RecordsStep ==
  ASSUME Kinds
  PROVE  \/ pendingOutputs' \subseteq pendingOutputs
         \/ \E bytes \in Nat : Submits(bytes)
BY DEF Kinds, Rests, Wastes, Restarts, Produces, Concludes, Drops, Discards, Delivers, Takes,
       Admits, Emits, recordVars, ClearGeneration, ClearPendingOutputs, RemovePendingOutput

\* The history grows by an admission and is forgotten by a restart.
LEMMA AdmittedStep ==
  ASSUME Kinds
  PROVE  \/ UNCHANGED admitted
         \/ admitted' = <<>> /\ Restarts
         \/ \E bytes \in Nat : \E r \in pendingOutputs : Admits(bytes, r)
BY DEF Kinds, Rests, Wastes, Restarts, Produces, Concludes, Drops, Discards, Delivers, Takes,
       Submits, Emits, stock, ForgetHistory

LEMMA IdsStep ==
  ASSUME Shape, IdsInv, Kinds
  PROVE  IdsInv'
<1>1. /\ nextSubmissionId \in Nat /\ slotFloor \in Nat /\ chunk \in Seq(Nat)
      /\ nextSubmissionId' \in Nat /\ slotFloor' \in Nat
      /\ Len(chunk) = nextSubmissionId
      /\ \A r \in pendingOutputs : r.id \in Nat /\ r.bytes \in Nat
      /\ InBrowser \cup split \subseteq Nat
  <2>1. Shape'
    BY ShapeStep
  <2>2. Range(inputQ) \subseteq Nat /\ Range(outputs) \subseteq Nat
    BY DEF Shape, Range
  <2> QED
    BY <2>1, <2>2 DEF Shape, IdsInv, Record, InBrowser
<1>2. /\ Len(chunk') = nextSubmissionId' /\ nextSubmissionId' <= MaxPackets
      /\ slotFloor' <= nextSubmissionId' /\ nextSubmissionId <= nextSubmissionId'
      /\ slotFloor' = slotFloor \/ pendingOutputs' = {}
      /\ \A k \in 1 .. nextSubmissionId : chunk'[k] = chunk[k]
  BY NumberingStep
<1>3. /\ \A id \in InBrowser \cup split : id < nextSubmissionId
      /\ \A r \in pendingOutputs :
           slotFloor <= r.id /\ r.id < nextSubmissionId /\ r.bytes = chunk[r.id + 1]
      /\ \A q, r \in pendingOutputs : q.id = r.id => q = r
      /\ \A i \in 1 .. Len(admitted) :
           /\ admitted[i].record < nextSubmissionId
           /\ \A r \in pendingOutputs : r.id # admitted[i].record
      /\ \A i, j \in 1 .. Len(admitted) : admitted[i].record = admitted[j].record => i = j
  BY DEF IdsInv
<1>4. admitted \in Seq(Admission) /\ Len(admitted) \in Nat
  BY DEF Shape
<1>5. \A i \in 1 .. Len(admitted) : admitted[i].record \in Nat
  <2>1. \A i \in 1 .. Len(admitted) : admitted[i] \in Admission
    BY <1>4
  <2> QED
    BY <2>1 DEF Admission
<1>6. ASSUME NEW bytes \in Nat, Submits(bytes)
      PROVE  /\ nextSubmissionId' = nextSubmissionId + 1 /\ slotFloor' = slotFloor
             /\ chunk'[nextSubmissionId + 1] = bytes /\ admitted' = admitted
             /\ pendingOutputs' = pendingOutputs \cup
                  {[id |-> nextSubmissionId, epoch |-> epoch, bytes |-> bytes]}
  BY <1>1, <1>6 DEF Submits, Spends, InsertPendingOutput, stock
<1>7. \A id \in InBrowser' \cup split' : id < nextSubmissionId'
  <2>1. CASE InBrowser' \subseteq InBrowser /\ split' \subseteq InBrowser \cup split
    BY <2>1, <1>1, <1>2, <1>3
  <2>2. CASE /\ \E bytes \in Nat : Submits(bytes)
             /\ InBrowser' \cup split' = InBrowser \cup split \cup {nextSubmissionId}
    BY <2>2, <1>1, <1>3, <1>6
  <2> QED
    BY <2>1, <2>2, BrowserGains
<1>8. /\ \A r \in pendingOutputs' :
           slotFloor' <= r.id /\ r.id < nextSubmissionId' /\ r.bytes = chunk'[r.id + 1]
      /\ \A q, r \in pendingOutputs' : q.id = r.id => q = r
  <2>1. \A r \in pendingOutputs : r.id < nextSubmissionId' /\ r.bytes = chunk'[r.id + 1]
    <3> TAKE r \in pendingOutputs
    <3>1. r.id + 1 \in 1 .. nextSubmissionId
      BY <1>1, <1>3
    <3> QED
      BY <3>1, <1>1, <1>2, <1>3
  <2>2. CASE pendingOutputs' \subseteq pendingOutputs
    BY <2>1, <2>2, <1>2, <1>3
  <2>3. ASSUME NEW bytes \in Nat, Submits(bytes)
        PROVE  <1>8!:
    <3> DEFINE n == [id |-> nextSubmissionId, epoch |-> epoch, bytes |-> bytes]
    <3>1. n.id = nextSubmissionId /\ n.bytes = bytes /\ pendingOutputs' = pendingOutputs \cup {n}
      BY <2>3, <1>6
    <3> HIDE DEF n
    <3>2. slotFloor <= n.id /\ n.id < nextSubmissionId' /\ n.bytes = chunk'[n.id + 1]
      BY <2>3, <3>1, <1>1, <1>6 DEF IdsInv
    <3>3. \A r \in pendingOutputs : r.id # n.id
      BY <3>1, <1>1, <1>3
    <3> QED
      BY <2>1, <2>3, <3>1, <3>2, <3>3, <1>3, <1>6
  <2> QED
    BY <2>2, <2>3, RecordsStep
<1>9. /\ \A i \in 1 .. Len(admitted') :
           /\ admitted'[i].record < nextSubmissionId'
           /\ \A r \in pendingOutputs' : r.id # admitted'[i].record
      /\ \A i, j \in 1 .. Len(admitted') : admitted'[i].record = admitted'[j].record => i = j
  <2>1. CASE UNCHANGED admitted
    <3>1. \A i \in 1 .. Len(admitted) : \A r \in pendingOutputs' : r.id # admitted[i].record
      <4>1. ASSUME NEW bytes \in Nat, Submits(bytes), NEW i \in 1 .. Len(admitted),
                   NEW r \in pendingOutputs'
            PROVE  r.id # admitted[i].record
        <5> DEFINE n == [id |-> nextSubmissionId, epoch |-> epoch, bytes |-> bytes]
        <5>1. n.id = nextSubmissionId /\ pendingOutputs' = pendingOutputs \cup {n}
          BY <4>1, <1>6
        <5> HIDE DEF n
        <5>2. admitted[i].record # nextSubmissionId
          BY <1>1, <1>3, <1>5
        <5> QED
          BY <5>1, <5>2, <1>3
      <4> QED
        BY <4>1, <1>3, RecordsStep
    <3> QED
      BY <2>1, <3>1, <1>1, <1>2, <1>3, <1>5
  <2>2. CASE admitted' = <<>>
    BY <2>2
  <2>3. ASSUME NEW bytes \in Nat, NEW r \in pendingOutputs, Admits(bytes, r)
        PROVE  <1>9!:
    <3> DEFINE a == [output |-> Head(outputs), record |-> r.id]
               n == Len(admitted) + 1
    <3>1. /\ a.record = r.id /\ admitted' = Append(admitted, a)
          /\ pendingOutputs' = pendingOutputs \ {r} /\ nextSubmissionId' = nextSubmissionId
      BY <2>3 DEF Admits, RemovePendingOutput, numbering
    <3> HIDE DEF a
    <3>2. /\ Len(admitted') = n
          /\ \A i \in 1 .. n : admitted'[i] = IF i = n THEN a ELSE admitted[i]
      BY <3>1, <1>4
    <3>3. \A i \in 1 .. n : i = n \/ i \in 1 .. Len(admitted)
      BY <1>4
    <3> HIDE DEF n
    <3>4. \A i \in 1 .. n : admitted'[i].record < nextSubmissionId
      BY <3>1, <3>2, <3>3, <1>3
    <3>5. \A i \in 1 .. n : \A q \in pendingOutputs' : q.id # admitted'[i].record
      BY <3>1, <3>2, <3>3, <1>3
    <3>6. \A i, j \in 1 .. n : admitted'[i].record = admitted'[j].record => i = j
      BY <3>1, <3>2, <3>3, <1>3
    <3> QED
      BY <3>1, <3>2, <3>4, <3>5, <3>6
  <2> QED
    BY <2>1, <2>2, <2>3, AdmittedStep
<1> QED
  BY <1>2, <1>7, <1>8, <1>9 DEF IdsInv

-----------------------------------------------------------------------------
(* The line in the browser                                                   *)

\* LineInv by its parts, of any line.
Increasing(q) == \A i, j \in 1 .. Len(q) : i < j => q[i] < q[j]
Behind(s, q) == \A h \in s, i \in 1 .. Len(q) : h < q[i]
Ahead(os, s, q) == \A o \in Range(os) : \A x \in s \cup Range(q) : o < x
Ordered(os, twice) ==
  \A i, j \in 1 .. Len(os) : i < j => os[i] < os[j] \/ (os[i] = os[j] /\ os[i] \in twice)
Doubled(twice) == \A id \in twice : chunk[id + 1] > 1

LEMMA LineParts ==
  /\ LineInv <=> /\ Increasing(inputQ) /\ Behind(held, inputQ)
                 /\ rebases => Ahead(outputs, held, inputQ) /\ Ordered(outputs, split) /\ Doubled(split)
  /\ LineInv' <=> /\ Increasing(inputQ') /\ Behind(held', inputQ')
                  /\ rebases' => /\ Ahead(outputs', held', inputQ') /\ Ordered(outputs', split')
                                 /\ Doubled(split)'
BY DEF LineInv, Increasing, Behind, Ahead, Ordered, Doubled

\* The rest of a line in order is in order.
LEMMA IncreasingTail ==
  ASSUME NEW q \in Seq(Nat), q # <<>>, Increasing(q)
  PROVE  Increasing(Tail(q)) /\ \A k \in 1 .. Len(Tail(q)) : Head(q) < Tail(q)[k]
<1>1. /\ Len(q) \in Nat \ {0} /\ Len(Tail(q)) = Len(q) - 1 /\ Head(q) = q[1]
      /\ \A k \in 1 .. Len(q) - 1 : Tail(q)[k] = q[k + 1]
  BY TailFact
<1>2. \A k \in 1 .. Len(q) - 1 : k + 1 \in 1 .. Len(q) /\ 1 < k + 1
  BY <1>1
<1>3. \A i, j \in 1 .. Len(q) - 1 : i < j => i + 1 < j + 1
  BY <1>1
<1>4. ASSUME NEW i \in 1 .. Len(q) - 1, NEW j \in 1 .. Len(q) - 1, i < j
      PROVE  Tail(q)[i] < Tail(q)[j]
  BY <1>1, <1>2, <1>3, <1>4 DEF Increasing
<1>5. ASSUME NEW k \in 1 .. Len(q) - 1
      PROVE  Head(q) < Tail(q)[k]
  BY <1>1, <1>2 DEF Increasing
<1> QED
  BY <1>1, <1>4, <1>5 DEF Increasing

LEMMA OrderedTail ==
  ASSUME NEW q \in Seq(Nat), q # <<>>, NEW twice, Ordered(q, twice)
  PROVE  /\ Ordered(Tail(q), twice)
         /\ \A k \in 1 .. Len(Tail(q)) :
              Head(q) < Tail(q)[k] \/ (Head(q) = Tail(q)[k] /\ Head(q) \in twice)
<1>1. /\ Len(q) \in Nat \ {0} /\ Len(Tail(q)) = Len(q) - 1 /\ Head(q) = q[1]
      /\ \A k \in 1 .. Len(q) - 1 : Tail(q)[k] = q[k + 1]
  BY TailFact
<1>2. \A k \in 1 .. Len(q) - 1 : k + 1 \in 1 .. Len(q) /\ 1 < k + 1 /\ 1 \in 1 .. Len(q)
  BY <1>1
<1>3. \A i, j \in 1 .. Len(q) - 1 : i < j => i + 1 < j + 1
  BY <1>1
<1>4. ASSUME NEW i \in 1 .. Len(q) - 1, NEW j \in 1 .. Len(q) - 1, i < j
      PROVE  Tail(q)[i] < Tail(q)[j] \/ (Tail(q)[i] = Tail(q)[j] /\ Tail(q)[i] \in twice)
  BY <1>1, <1>2, <1>3, <1>4 DEF Ordered
<1>5. ASSUME NEW k \in 1 .. Len(q) - 1
      PROVE  Head(q) < Tail(q)[k] \/ (Head(q) = Tail(q)[k] /\ Head(q) \in twice)
  BY <1>1, <1>2 DEF Ordered
<1> QED
  BY <1>1, <1>4, <1>5 DEF Ordered

\* What the chunks of split are known to be stands.
LEMMA DoubledStands ==
  ASSUME Shape, IdsInv, Kinds, Doubled(split), split' = split
  PROVE  Doubled(split)'
<1>1. nextSubmissionId \in Nat /\ split \in SUBSET Nat /\ \A id \in split : id < nextSubmissionId
  BY DEF Shape, IdsInv
<1>2. \A k \in 1 .. nextSubmissionId : chunk'[k] = chunk[k]
  BY NumberingStep
<1>3. \A id \in split : id + 1 \in 1 .. nextSubmissionId
  BY <1>1
<1> QED
  BY <1>2, <1>3 DEF Doubled

\* An output off the line, or the line emptied, leaves order.
LEMMA LineShrinks ==
  ASSUME Shape, IdsInv, LineInv, Kinds, UNCHANGED <<rebases, split>>,
         inputQ' = inputQ \/ inputQ' = <<>>,
         held' = held \/ held' = {},
         outputs' = outputs \/ (outputs # <<>> /\ outputs' = Tail(outputs))
  PROVE  LineInv'
<1>1. inputQ \in Seq(Nat) /\ outputs \in Seq(Nat) /\ Range(<<>>) = {} /\ Len(<<>>) = 0
  BY DEF Shape, Range
<1>2. Increasing(inputQ') /\ Behind(held', inputQ')
  BY <1>1, LineParts DEF Increasing, Behind
<1>3. ASSUME rebases
      PROVE  Ahead(outputs', held', inputQ') /\ Ordered(outputs', split') /\ Doubled(split)'
  <2>1. Ahead(outputs, held, inputQ) /\ Ordered(outputs, split) /\ Doubled(split)
    BY <1>3, LineParts
  <2>2. Range(outputs') \subseteq Range(outputs)
    BY <1>1, RangeOfTail
  <2>3. held' \cup Range(inputQ') \subseteq held \cup Range(inputQ)
    BY <1>1
  <2>4. Ordered(outputs', split')
    BY <2>1, <1>1, OrderedTail
  <2> QED
    BY <2>1, <2>2, <2>3, <2>4, DoubledStands DEF Ahead
<1> QED
  BY <1>2, <1>3, LineParts

\* A submitted chunk goes to the end of the line.
LEMMA LineSubmits ==
  ASSUME Shape, IdsInv, LineInv, Kinds, NEW bytes \in Nat, Submits(bytes)
  PROVE  LineInv'
<1> DEFINE n == nextSubmissionId
<1>1. /\ inputQ \in Seq(Nat) /\ n \in Nat /\ \A id \in InBrowser : id < n
      /\ inputQ' = Append(inputQ, n) /\ UNCHANGED <<held, outputs, split, rebases>>
  BY DEF Shape, IdsInv, Submits, always
<1> HIDE DEF n
<1>2. /\ Len(inputQ) \in Nat /\ DOMAIN inputQ = 1 .. Len(inputQ) /\ Len(inputQ') = Len(inputQ) + 1
      /\ \A k \in 1 .. Len(inputQ) + 1 : inputQ'[k] = IF k = Len(inputQ) + 1 THEN n ELSE inputQ[k]
  BY <1>1
<1>3. \A k \in 1 .. Len(inputQ) : inputQ[k] < n
  BY <1>1, <1>2 DEF InBrowser, Range
<1>4. Increasing(inputQ) /\ Behind(held, inputQ)
  BY LineParts
<1>5. Increasing(inputQ')
  <2>1. ASSUME NEW i \in 1 .. Len(inputQ) + 1, NEW j \in 1 .. Len(inputQ) + 1, i < j
        PROVE  inputQ'[i] < inputQ'[j]
    <3>1. i \in 1 .. Len(inputQ) /\ (j = Len(inputQ) + 1 \/ j \in 1 .. Len(inputQ))
      BY <1>2, <2>1
    <3> QED
      BY <2>1, <3>1, <1>2, <1>3, <1>4 DEF Increasing
  <2> QED
    BY <2>1, <1>2 DEF Increasing
<1>6. Behind(held', inputQ')
  <2>1. ASSUME NEW h \in held, NEW j \in 1 .. Len(inputQ) + 1
        PROVE  h < inputQ'[j]
    <3>1. j = Len(inputQ) + 1 \/ j \in 1 .. Len(inputQ)
      BY <1>2
    <3> QED
      BY <3>1, <1>1, <1>2, <1>4 DEF Behind, InBrowser
  <2> QED
    BY <2>1, <1>1, <1>2 DEF Behind
<1>7. ASSUME rebases
      PROVE  Ahead(outputs', held', inputQ') /\ Ordered(outputs', split') /\ Doubled(split)'
  <2>1. Ahead(outputs, held, inputQ) /\ Ordered(outputs, split) /\ Doubled(split)
    BY <1>7, LineParts
  <2>2. Range(inputQ') = Range(inputQ) \cup {n}
    BY <1>1, RangeOfAppend
  <2>3. Ahead(outputs', held', inputQ')
    BY <2>1, <2>2, <1>1 DEF Ahead, InBrowser
  <2> QED
    BY <2>1, <2>3, <1>1, DoubledStands
<1> QED
  BY <1>1, <1>5, <1>6, <1>7, LineParts

\* The codec takes the first of the line.
LEMMA LineTakes ==
  ASSUME Shape, IdsInv, LineInv, Kinds, Takes
  PROVE  LineInv'
<1>1. /\ inputQ \in Seq(Nat) /\ inputQ # <<>> /\ inputQ' = Tail(inputQ)
      /\ held' = held \cup {Head(inputQ)} /\ UNCHANGED <<outputs, split, rebases>>
  BY DEF Shape, Takes, always
<1>2. Increasing(inputQ) /\ Behind(held, inputQ)
  BY LineParts
<1>3. /\ Len(inputQ) \in Nat \ {0} /\ Len(inputQ') = Len(inputQ) - 1
      /\ \A k \in 1 .. Len(inputQ) - 1 : inputQ'[k] = inputQ[k + 1]
  BY <1>1, TailFact
<1>4. Increasing(inputQ') /\ \A k \in 1 .. Len(inputQ') : Head(inputQ) < inputQ'[k]
  BY <1>1, <1>2, IncreasingTail
<1>5. Behind(held', inputQ')
  <2>1. \A k \in 1 .. Len(inputQ) - 1 : k + 1 \in 1 .. Len(inputQ)
    BY <1>3
  <2>2. ASSUME NEW h \in held, NEW k \in 1 .. Len(inputQ)  - 1
        PROVE  h < inputQ'[k]
    BY <2>1, <1>2, <1>3 DEF Behind
  <2> QED
    BY <2>2, <1>1, <1>3, <1>4 DEF Behind
<1>6. ASSUME rebases
      PROVE  Ahead(outputs', held', inputQ') /\ Ordered(outputs', split') /\ Doubled(split)'
  <2>1. Ahead(outputs, held, inputQ) /\ Ordered(outputs, split) /\ Doubled(split)
    BY <1>6, LineParts
  <2>2. Range(inputQ) = {Head(inputQ)} \cup Range(inputQ')
    BY <1>1, RangeOfTail
  <2>3. Ahead(outputs', held', inputQ')
    BY <2>1, <2>2, <1>1 DEF Ahead
  <2> QED
    BY <2>1, <2>3, <1>1, DoubledStands
<1> QED
  BY <1>1, <1>4, <1>5, <1>6, LineParts

\* A rebasing codec lets the oldest chunk out.
LEMMA LineEmits ==
  ASSUME Shape, IdsInv, LineInv, Kinds, NEW id \in held, NEW frames \in 0 .. 2,
         Emits(id, frames)
  PROVE  LineInv'
<1>1. /\ inputQ \in Seq(Nat) /\ outputs \in Seq(Nat) /\ held \in SUBSET Nat /\ id \in Nat
      /\ nextSubmissionId \in Nat /\ split \in SUBSET Nat /\ frames \in Nat
      /\ UNCHANGED <<inputQ, rebases, chunk>> /\ held' = held \ {id}
      /\ split' = IF frames = 2 THEN split \cup {id} ELSE split
  BY DEF Shape, Emits, always, numbering
<1>2. /\ outputs' \in Seq(Nat) /\ Len(outputs') = Len(outputs) + frames
      /\ \A k \in 1 .. Len(outputs) : outputs'[k] = outputs[k]
      /\ \A k \in Len(outputs) + 1 .. Len(outputs) + frames : outputs'[k] = id
  BY EmitsOut
<1>3. Increasing(inputQ) /\ Behind(held, inputQ)
  BY LineParts
<1>4. Increasing(inputQ') /\ Behind(held', inputQ')
  BY <1>1, <1>3 DEF Behind
<1>5. ASSUME rebases
      PROVE  Ahead(outputs', held', inputQ') /\ Ordered(outputs', split') /\ Doubled(split)'
  <2>1. Ahead(outputs, held, inputQ) /\ Ordered(outputs, split) /\ Doubled(split)
    BY <1>5, LineParts
  <2>2. \A other \in held : id <= other
    BY <1>5 DEF Emits
  <2>3. DOMAIN outputs = 1 .. Len(outputs) /\ DOMAIN outputs' = 1 .. Len(outputs') /\ Len(outputs) \in Nat
    BY <1>1, <1>2
  <2>4. \A k \in 1 .. Len(outputs') :
          k \in 1 .. Len(outputs) \/ (k \in Len(outputs) + 1 .. Len(outputs) + frames /\ ~(k <= Len(outputs)))
    BY <1>1, <1>2, <2>3
  <2>5. \A k \in 1 .. Len(outputs) : outputs[k] \in Range(outputs) /\ outputs[k] < id
    BY <2>1, <2>3 DEF Ahead, Range
  <2>6. \A o \in Range(outputs') : o \in Range(outputs) \/ o = id
    <3> TAKE o \in Range(outputs')
    <3>1. PICK k \in 1 .. Len(outputs') : o = outputs'[k]
      BY <2>3 DEF Range
    <3>2. CASE k \in 1 .. Len(outputs)
      BY <3>1, <3>2, <1>2, <2>5
    <3>3. CASE k \in Len(outputs) + 1 .. Len(outputs) + frames
      BY <3>1, <3>3, <1>2
    <3> QED
      BY <3>2, <3>3, <2>4
  <2>7. \A x \in held' \cup Range(inputQ') : id < x
    <3> TAKE x \in held' \cup Range(inputQ')
    <3>1. CASE x \in held'
      BY <3>1, <1>1, <2>2
    <3>2. CASE x \in Range(inputQ)
      <4>1. PICK i \in 1 .. Len(inputQ) : x = inputQ[i]
        BY <3>2, <1>1 DEF Range
      <4> QED
        BY <4>1, <1>3 DEF Behind
    <3> QED
      BY <3>1, <3>2, <1>1
  <2>8. Ahead(outputs', held', inputQ')
    BY <2>1, <2>6, <2>7, <1>1 DEF Ahead
  <2>9. Ordered(outputs', split')
    <3>1. ASSUME NEW i \in 1 .. Len(outputs'), NEW j \in 1 .. Len(outputs'), i < j
          PROVE  outputs'[i] < outputs'[j] \/ (outputs'[i] = outputs'[j] /\ outputs'[i] \in split')
      <4>1. CASE i \in 1 .. Len(outputs) /\ j \in 1 .. Len(outputs)
        BY <3>1, <4>1, <1>1, <1>2, <2>1 DEF Ordered
      <4>2. CASE i \in 1 .. Len(outputs) /\ j \in Len(outputs) + 1 .. Len(outputs) + frames
        BY <4>2, <1>2, <2>5
      <4>3. CASE i \in Len(outputs) + 1 .. Len(outputs) + frames
        <5>1. j \in Len(outputs) + 1 .. Len(outputs) + frames /\ frames = 2
          BY <3>1, <4>3, <1>1, <1>2, <2>3
        <5> QED
          BY <4>3, <5>1, <1>1, <1>2
      <4> QED
        BY <4>1, <4>2, <4>3, <2>4
    <3> QED
      BY <3>1 DEF Ordered
  <2>10. Doubled(split)'
    <3>1. frames = 2 => chunk[id + 1] > 1
      BY <1>5 DEF Emits
    <3> QED
      BY <3>1, <1>1, <2>1 DEF Doubled
  <2> QED
    BY <2>8, <2>9, <2>10
<1> QED
  BY <1>1, <1>4, <1>5, LineParts

LEMMA LineStep ==
  ASSUME Shape, IdsInv, LineInv, Kinds
  PROVE  LineInv'
<1>1. CASE Restarts
  BY <1>1, LineShrinks DEF Restarts
<1>2. CASE Rests \/ Wastes \/ Produces \/ Concludes \/ Discards \/ Delivers
  BY <1>2, LineShrinks DEF Rests, Wastes, Produces, Concludes, Discards, Delivers, line, always
<1>3. CASE Drops \/ \E bytes \in Nat : \E r \in pendingOutputs : Admits(bytes, r)
  BY <1>3, LineShrinks DEF Drops, Admits, always
<1> QED
  BY <1>1, <1>2, <1>3, LineSubmits, LineTakes, LineEmits DEF Kinds

-----------------------------------------------------------------------------
(* The record of an output                                                   *)

\* Nothing in the browser of a rebasing codec is older than the next output.
LEMMA NextIsOldest ==
  ASSUME Shape, LineInv, rebases, outputs # <<>>
  PROVE  /\ Head(outputs) \in InBrowser
         /\ \A x \in InBrowser : Head(outputs) <= x
         /\ \A x \in held \cup Range(inputQ) : Head(outputs) < x
         /\ \A x \in Range(Tail(outputs)) :
              Head(outputs) < x \/ (Head(outputs) = x /\ Head(outputs) \in split)
<1>1. outputs \in Seq(Nat) /\ Ahead(outputs, held, inputQ) /\ Ordered(outputs, split)
  BY LineParts DEF Shape
<1>2. Range(outputs) = {Head(outputs)} \cup Range(Tail(outputs))
  BY <1>1, RangeOfTail
<1>3. /\ Tail(outputs) \in Seq(Nat) /\ Head(outputs) \in Nat
      /\ DOMAIN Tail(outputs) = 1 .. Len(Tail(outputs))
  BY <1>1
<1>4. \A k \in 1 .. Len(Tail(outputs)) :
        Head(outputs) < Tail(outputs)[k] \/ (Head(outputs) = Tail(outputs)[k] /\ Head(outputs) \in split)
  BY <1>1, OrderedTail
<1>5. \A x \in Range(Tail(outputs)) :
        x \in Nat /\ (Head(outputs) < x \/ (Head(outputs) = x /\ Head(outputs) \in split))
  BY <1>3, <1>4 DEF Range
<1>6. \A x \in held \cup Range(inputQ) : x \in Nat /\ Head(outputs) < x
  <2>1. held \subseteq Nat /\ Range(inputQ) \subseteq Nat
    BY DEF Shape, Range
  <2> QED
    BY <2>1, <1>1, <1>2 DEF Ahead
<1> HIDE DEF Ahead, Ordered
<1>7. \A x \in InBrowser : x = Head(outputs) \/ x \in Range(Tail(outputs)) \/ x \in held \cup Range(inputQ)
  BY <1>2 DEF InBrowser
<1>8. \A x \in InBrowser : Head(outputs) <= x
  BY <1>3, <1>5, <1>6, <1>7
<1> QED
  BY <1>2, <1>5, <1>6, <1>8 DEF InBrowser

\* The record an output is admitted for is the record of its chunk.
LEMMA OldestIsOwn ==
  ASSUME Shape, IdsInv, LineInv, MatchInv, NEW bytes \in Nat, NEW r \in pendingOutputs,
         Admits(bytes, r)
  PROVE  r.id = Head(outputs)
<1>1. /\ outputs # <<>> /\ Head(outputs) >= slotFloor /\ ~IsClosed
      /\ r \in RecordOf(Head(outputs)) /\ ~WrongSamples(Head(outputs), r)
  BY DEF Admits
<1>2. CASE ~rebases
  BY <1>1, <1>2 DEF RecordOf
<1>3. CASE rebases
  <2>1. Head(outputs) \in InBrowser /\ \A x \in InBrowser : Head(outputs) <= x
    BY <1>1, <1>3, NextIsOldest
  <2>2. PICK q \in pendingOutputs : q.id = Head(outputs)
    BY <1>1, <1>3, <2>1 DEF MatchInv
  <2>3. r.id <= q.id
    BY <1>1, <1>3 DEF RecordOf, Oldest
  <2>4. r.bytes # 0
    BY <1>1, <1>3 DEF WrongSamples
  <2>5. r.id \in InBrowser
    BY <1>1, <1>3, <2>4 DEF MatchInv
  <2>6. r.id \in Nat /\ q.id \in Nat
    BY DEF Shape, Record
  <2> QED
    BY <2>1, <2>2, <2>3, <2>5, <2>6
<1> QED
  BY <1>2, <1>3

\* A rebasing codec has no second output of an admitted chunk: with two, each
\* has fewer samples than the record.
LEMMA NoSecond ==
  ASSUME Shape, IdsInv, LineInv, MatchInv, NEW bytes \in Nat, NEW r \in pendingOutputs,
         Admits(bytes, r), rebases
  PROVE  Head(outputs) \notin held \cup Range(inputQ) \cup Range(Tail(outputs))
<1>1. outputs # <<>> /\ ~WrongSamples(Head(outputs), r) /\ r.id = Head(outputs)
  BY OldestIsOwn DEF Admits
<1>2. Head(outputs) \in Nat
  BY <1>1 DEF Shape
<1>3. Head(outputs) \notin held \cup Range(inputQ)
  BY <1>1, <1>2, NextIsOldest
<1>4. Head(outputs) \in Range(Tail(outputs)) => Head(outputs) \in split
  BY <1>1, <1>2, NextIsOldest
<1>5. ASSUME Head(outputs) \in split
      PROVE  FALSE
  <2>1. chunk[Head(outputs) + 1] > 1
    BY <1>5 DEF LineInv
  <2>2. r.bytes = chunk[Head(outputs) + 1] /\ r.bytes \in Nat
    BY <1>1 DEF IdsInv, Shape, Record
  <2>3. Samples(Head(outputs)) = 0 .. r.bytes - 1
    BY <1>5, <2>2 DEF Samples
  <2>4. 0 \in Samples(Head(outputs)) /\ 0 # r.bytes
    BY <2>1, <2>2, <2>3
  <2> QED
    BY <1>1, <2>4 DEF WrongSamples
<1> QED
  BY <1>3, <1>4, <1>5

\* Where there are records, one is the oldest.
LEMMA SomeOldest ==
  ASSUME Shape, pendingOutputs # {}
  PROVE  Oldest # {}
<1> DEFINE taken == {r.id : r \in pendingOutputs}
<1>1. taken \in SUBSET Nat /\ taken # {}
  BY DEF Shape, Record
<1> HIDE DEF taken
<1>2. PICK n \in taken : \A k \in taken : n <= k
  BY <1>1, LeastNat
<1>3. PICK r \in pendingOutputs : r.id = n
  BY DEF taken
<1>4. \A q \in pendingOutputs : r.id <= q.id
  BY <1>2, <1>3 DEF taken
<1> QED
  BY <1>4 DEF Oldest

LEMMA OwnStep ==
  ASSUME Shape, IdsInv, LineInv, MatchInv, OwnInv, Kinds
  PROVE  OwnInv'
<1>1. CASE UNCHANGED admitted
  BY <1>1 DEF OwnInv
<1>2. CASE admitted' = <<>>
  BY <1>2 DEF OwnInv
<1>3. ASSUME NEW bytes \in Nat, NEW r \in pendingOutputs, Admits(bytes, r)
      PROVE  OwnInv'
  <2> DEFINE a == [output |-> Head(outputs), record |-> r.id]
  <2>1. a.output = a.record
    BY <1>3, OldestIsOwn
  <2>2. admitted' = Append(admitted, a)
    BY <1>3 DEF Admits
  <2> HIDE DEF a
  <2>3. /\ Len(admitted) \in Nat /\ Len(admitted') = Len(admitted) + 1
        /\ \A k \in 1 .. Len(admitted) + 1 :
             admitted'[k] = IF k = Len(admitted) + 1 THEN a ELSE admitted[k]
    BY <2>2 DEF Shape
  <2>4. ASSUME NEW k \in 1 .. Len(admitted) + 1
        PROVE  admitted'[k].output = admitted'[k].record
    <3>1. k # Len(admitted) + 1 => k \in 1 .. Len(admitted)
      BY <2>3
    <3> QED
      BY <3>1, <2>1, <2>3 DEF OwnInv
  <2> QED
    BY <2>3, <2>4 DEF OwnInv
<1> QED
  BY <1>1, <1>2, <1>3, AdmittedStep

\* MatchInv by its parts.
Recorded == \A id \in InBrowser : id >= slotFloor => \E r \in pendingOutputs : r.id = id
NotIdle == \A r \in pendingOutputs : r.bytes = 0 \/ r.id \in InBrowser

LEMMA MatchParts ==
  /\ MatchInv <=> (rebases /\ ~IsClosed => Recorded /\ NotIdle)
  /\ MatchInv' <=> (rebases' /\ ~IsClosed' => Recorded' /\ NotIdle')
BY DEF MatchInv, Recorded, NotIdle

LEMMA MatchStep ==
  ASSUME Shape, IdsInv, LineInv, MatchInv, FlushInv, Kinds
  PROVE  MatchInv'
<1>1. /\ inputQ \in Seq(Nat) /\ outputs \in Seq(Nat) /\ held \in SUBSET Nat
      /\ nextSubmissionId \in Nat /\ slotFloor \in Nat /\ Range(<<>>) = {}
  BY DEF Shape, Range
<1>2. /\ outputs # <<>> => Range(outputs) = {Head(outputs)} \cup Range(Tail(outputs))
      /\ inputQ # <<>> => Range(inputQ) = {Head(inputQ)} \cup Range(Tail(inputQ))
  BY <1>1, RangeOfTail
<1>3. \A r \in pendingOutputs : r.id \in Nat /\ r.bytes \in Nat
  BY DEF Shape, Record
<1>4. CASE Rests \/ Wastes \/ Produces \/ Discards \/ Delivers
  <2>1. /\ UNCHANGED <<pendingOutputs, lastError, rebases, inputQ, held, outputs>>
        /\ slotFloor' = slotFloor
    BY <1>4
    DEF Rests, Wastes, Produces, Discards, Delivers, recordVars, always, line, numbering, Spends
  <2> QED
    BY <2>1 DEF MatchInv, InBrowser, IsClosed
<1>5. CASE Restarts
  <2>1. CASE IsClosed'
    BY <2>1, MatchParts
  <2>2. CASE ~IsClosed'
    <3>1. /\ inputQ' = <<>> /\ held' = {} /\ outputs' = outputs
          /\ slotFloor' = nextSubmissionId
      BY <1>5, <2>2 DEF Restarts
    <3>2. pendingOutputs' = {}
      BY <1>5 DEF Restarts, ClearGeneration
    <3>3. InBrowser' \subseteq InBrowser
      BY <3>1, <1>1 DEF InBrowser
    <3>4. \A id \in InBrowser' : id \in Nat /\ ~(id >= slotFloor')
      <4>1. \A id \in InBrowser : id < nextSubmissionId
        BY DEF IdsInv
      <4>2. Range(inputQ) \subseteq Nat /\ Range(outputs) \subseteq Nat /\ held \subseteq Nat
        BY DEF Shape, Range
      <4>3. \A id \in InBrowser : id \in Nat
        BY <4>2 DEF InBrowser
      <4> QED
        BY <4>1, <4>3, <3>1, <3>3, <1>1
    <3> QED
      BY <3>2, <3>4, MatchParts DEF Recorded, NotIdle
  <2> QED
    BY <2>1, <2>2
<1>6. CASE Concludes
  <2>1. InBrowser = {}
    BY <1>1, <1>6 DEF Concludes, FlushInv, InBrowser
  <2>2. InBrowser' = {} /\ pendingOutputs' = {}
    BY <2>1, <1>6 DEF Concludes, line, ClearPendingOutputs, InBrowser
  <2> QED
    BY <2>2, MatchParts DEF Recorded, NotIdle
<1>7. ASSUME rebases, ~IsClosed, Drops
      PROVE  Recorded' /\ NotIdle'
  <2>1. Recorded /\ NotIdle
    BY <1>7, MatchParts
  <2>2. /\ outputs # <<>> /\ outputs' = Tail(outputs)
        /\ UNCHANGED <<pendingOutputs, slotFloor, inputQ, held>>
        /\ Head(outputs) < slotFloor \/ RecordOf(Head(outputs)) = {}
    BY <1>7 DEF Drops, recordVars, numbering
  <2>3. Head(outputs) \in Nat /\ Head(outputs) \in InBrowser
    BY <1>1, <1>2, <2>2 DEF InBrowser
  <2>4. Head(outputs) < slotFloor
    <3>1. SUFFICES ASSUME Head(outputs) >= slotFloor PROVE FALSE
      BY <1>1, <2>3
    <3>2. pendingOutputs # {}
      BY <2>1, <2>3, <3>1 DEF Recorded
    <3>3. RecordOf(Head(outputs)) # {}
      BY <3>2, <1>7, SomeOldest DEF RecordOf
    <3> QED
      BY <2>2, <2>3, <3>1, <3>3, <1>1
  <2>5. InBrowser' \subseteq InBrowser /\ InBrowser \subseteq InBrowser' \cup {Head(outputs)}
    BY <1>2, <2>2 DEF InBrowser
  <2>6. \A r \in pendingOutputs : r.id # Head(outputs)
    BY <2>3, <2>4, <1>1, <1>3 DEF IdsInv
  <2> QED
    BY <2>1, <2>2, <2>5, <2>6 DEF Recorded, NotIdle
<1>8. ASSUME NEW bytes \in Nat, NEW r \in pendingOutputs, Admits(bytes, r), rebases, ~IsClosed
      PROVE  Recorded' /\ NotIdle'
  <2>1. Recorded /\ NotIdle
    BY <1>8, MatchParts
  <2>2. /\ outputs # <<>> /\ outputs' = Tail(outputs) /\ UNCHANGED <<slotFloor, inputQ, held>>
        /\ pendingOutputs' = pendingOutputs \ {r}
    BY <1>8 DEF Admits, RemovePendingOutput, numbering
  <2>3. r.id = Head(outputs)
    BY <1>8, OldestIsOwn
  <2>4. Head(outputs) \notin InBrowser'
    BY <1>8, <2>2, NoSecond DEF InBrowser
  <2>5. InBrowser' \subseteq InBrowser /\ InBrowser \subseteq InBrowser' \cup {Head(outputs)}
    BY <1>2, <2>2 DEF InBrowser
  <2>6. \A q \in pendingOutputs : q.id = r.id => q = r
    BY DEF IdsInv
  <2>7. Recorded'
    <3>1. ASSUME NEW id \in InBrowser', id >= slotFloor
          PROVE  \E q \in pendingOutputs' : q.id = id
      <4>1. PICK q \in pendingOutputs : q.id = id
        BY <2>1, <2>5, <3>1 DEF Recorded
      <4>2. q # r
        BY <4>1, <2>3, <2>4, <3>1
      <4> QED
        BY <4>1, <4>2, <2>2
    <3> QED
      BY <3>1, <2>2 DEF Recorded
  <2>8. NotIdle'
    BY <2>1, <2>2, <2>3, <2>5, <2>6 DEF NotIdle
  <2> QED
    BY <2>7, <2>8
<1>9. CASE Takes
  <2>1. /\ inputQ # <<>> /\ inputQ' = Tail(inputQ) /\ held' = held \cup {Head(inputQ)}
        /\ UNCHANGED <<outputs, pendingOutputs, slotFloor, lastError, rebases>>
    BY <1>9 DEF Takes, recordVars, numbering, always
  <2>2. InBrowser' = InBrowser
    BY <1>2, <2>1 DEF InBrowser
  <2> QED
    BY <2>1, <2>2 DEF MatchInv, IsClosed
<1>10. ASSUME NEW bytes \in Nat, Submits(bytes), rebases, ~IsClosed
       PROVE  Recorded' /\ NotIdle'
  <2>1. Recorded /\ NotIdle
    BY <1>10, MatchParts
  <2> DEFINE r == [id |-> nextSubmissionId, epoch |-> epoch, bytes |-> bytes]
  <2>2. /\ pendingOutputs' = pendingOutputs \cup {r} /\ slotFloor' = slotFloor
        /\ UNCHANGED <<held, outputs>>
    BY <1>10 DEF Submits, Spends, InsertPendingOutput
  <2>3. r.id = nextSubmissionId
    OBVIOUS
  <2> HIDE DEF r
  <2>4. Range(inputQ') = Range(inputQ) \cup {nextSubmissionId}
    BY <1>1, <1>10, RangeOfAppend DEF Submits
  <2>5. InBrowser' = InBrowser \cup {nextSubmissionId}
    BY <2>2, <2>4 DEF InBrowser
  <2> QED
    BY <2>1, <2>2, <2>3, <2>5 DEF Recorded, NotIdle
<1>11. ASSUME NEW id \in held, NEW frames \in 0 .. 2, Emits(id, frames), rebases, ~IsClosed
       PROVE  Recorded' /\ NotIdle'
  <2>1. Recorded /\ NotIdle
    BY <1>11, MatchParts
  <2>2. /\ held' = held \ {id} /\ UNCHANGED <<inputQ, pendingOutputs, slotFloor>>
        /\ frames = 0 <=> chunk[id + 1] = 0
    BY <1>11 DEF Emits, recordVars, numbering
  <2>3. /\ outputs' \in Seq(Nat) /\ Len(outputs') = Len(outputs) + frames
        /\ \A k \in 1 .. Len(outputs) : outputs'[k] = outputs[k]
        /\ \A k \in Len(outputs) + 1 .. Len(outputs) + frames : outputs'[k] = id
    BY <1>11, EmitsOut
  <2>4. /\ DOMAIN outputs = 1 .. Len(outputs) /\ DOMAIN outputs' = 1 .. Len(outputs) + frames
        /\ Len(outputs) \in Nat /\ frames \in Nat
    BY <1>1, <2>3
  <2>5. Range(outputs) \subseteq Range(outputs')
    <3>1. 1 .. Len(outputs) \subseteq 1 .. Len(outputs) + frames
      BY <2>4
    <3> QED
      BY <3>1, <2>3, <2>4 DEF Range
  <2>6. InBrowser' \subseteq InBrowser
    <3>1. ASSUME NEW k \in 1 .. Len(outputs) + frames
          PROVE  outputs'[k] \in Range(outputs) \cup {id}
      <4>1. k \in 1 .. Len(outputs) \/ k \in Len(outputs) + 1 .. Len(outputs) + frames
        BY <2>4
      <4> QED
        BY <4>1, <2>3, <2>4 DEF Range
    <3>2. Range(outputs') \subseteq Range(outputs) \cup {id}
      BY <3>1, <2>4 DEF Range
    <3> QED
      BY <3>2, <2>2 DEF InBrowser
  <2>7. frames # 0 => id \in Range(outputs')
    <3>1. frames # 0 => Len(outputs) + 1 \in 1 .. Len(outputs) + frames
                        /\ Len(outputs) + 1 \in Len(outputs) + 1 .. Len(outputs) + frames
      BY <2>4
    <3> QED
      BY <3>1, <2>3, <2>4 DEF Range
  <2>8. NotIdle'
    <3>1. ASSUME NEW r \in pendingOutputs, r.bytes # 0
          PROVE  r.id \in InBrowser'
      <4>1. r.id \in InBrowser /\ r.bytes = chunk[r.id + 1]
        BY <2>1, <3>1 DEF NotIdle, IdsInv
      <4>2. CASE r.id = id
        BY <4>1, <4>2, <2>2, <2>7, <3>1 DEF InBrowser
      <4>3. CASE r.id # id
        BY <4>1, <4>3, <2>2, <2>5 DEF InBrowser
      <4> QED
        BY <4>2, <4>3
    <3> QED
      BY <3>1, <2>2 DEF NotIdle
  <2> QED
    BY <2>1, <2>2, <2>6, <2>8 DEF Recorded
<1>12. CASE ~Restarts /\ ~(rebases /\ ~IsClosed)
  <2>1. UNCHANGED <<rebases, lastError>>
    BY <1>12
    DEF Kinds, Rests, Wastes, Produces, Concludes, Drops, Discards, Delivers, Takes, Submits,
        Admits, Emits, always
  <2> QED
    BY <2>1, <1>12, MatchParts DEF IsClosed
<1> QED
  BY <1>4, <1>5, <1>6, <1>7, <1>8, <1>9, <1>10, <1>11, <1>12, MatchParts DEF Kinds

-----------------------------------------------------------------------------
(* The tasks of this generation                                              *)

\* After the n-th task come those of generation e, and no others.
TurnsAt(t, e, n) == n \in 0 .. Len(t) /\ \A i \in 1 .. Len(t) : i > n <=> t[i].epoch = e

\* What follows the n-th.
After(t, n) == SubSeq(t, n + 1, Len(t))

\* There is one place where they turn.
LEMMA TurnsOnce ==
  ASSUME NEW S, NEW t \in Seq(S), NEW e, NEW m, NEW n, TurnsAt(t, e, m), TurnsAt(t, e, n)
  PROVE  m = n
<1>1. m \in 0 .. Len(t) /\ n \in 0 .. Len(t) /\ Len(t) \in Nat
  BY DEF TurnsAt
<1>2. m < n => m + 1 \in 1 .. Len(t) /\ m + 1 > m /\ ~(m + 1 > n)
  BY <1>1
<1>3. n < m => n + 1 \in 1 .. Len(t) /\ n + 1 > n /\ ~(n + 1 > m)
  BY <1>1
<1>4. ~(m < n) /\ ~(n < m)
  BY <1>2, <1>3 DEF TurnsAt
<1> QED
  BY <1>1, <1>4

\* Where it is, the live tasks are what follows; now and in the next state.
LEMMA LiveFollow ==
  ASSUME NEW n, tasks \in Seq(Task), TurnsAt(tasks, epoch, n)
  PROVE  LiveTasks = IF IsClosed THEN <<>> ELSE After(tasks, n)
<1>1. DOMAIN tasks = 1 .. Len(tasks)
  OBVIOUS
<1>2. StaleTasks = CHOOSE m : TurnsAt(tasks, epoch, m)
  BY <1>1 DEF StaleTasks, TurnsAt
<1>3. TurnsAt(tasks, epoch, CHOOSE m : TurnsAt(tasks, epoch, m))
  OBVIOUS
<1>4. StaleTasks = n
  BY <1>2, <1>3, TurnsOnce
<1> QED
  BY <1>4 DEF LiveTasks, After

LEMMA LiveFollowNext ==
  ASSUME NEW n, tasks' \in Seq(Task), TurnsAt(tasks', epoch', n)
  PROVE  LiveTasks' = IF IsClosed' THEN <<>> ELSE After(tasks', n)
<1>1. DOMAIN tasks' = 1 .. Len(tasks')
  OBVIOUS
<1>2. StaleTasks' = CHOOSE m : TurnsAt(tasks', epoch', m)
  BY <1>1 DEF StaleTasks, TurnsAt
<1>3. TurnsAt(tasks', epoch', CHOOSE m : TurnsAt(tasks', epoch', m))
  OBVIOUS
<1>4. StaleTasks' = n
  BY <1>2, <1>3, TurnsOnce
<1> QED
  BY <1>4 DEF LiveTasks, After

\* What follows, elementwise.
LEMMA AfterFact ==
  ASSUME NEW S, NEW t \in Seq(S), NEW n \in 0 .. Len(t)
  PROVE  /\ After(t, n) \in Seq(S) /\ Len(After(t, n)) = Len(t) - n
         /\ \A k \in 1 .. Len(t) - n : After(t, n)[k] = t[n + k]
<1>1. Len(t) \in Nat /\ n \in Nat /\ n <= Len(t) /\ n + 1 \in Int /\ Len(t) \in Int
  OBVIOUS
<1>2. \A i \in n + 1 .. Len(t) : t[i] \in S
  <2> TAKE i \in n + 1 .. Len(t)
  <2>1. i \in 1 .. Len(t)
    BY <1>1
  <2> QED
    BY <2>1
<1>3. /\ SubSeq(t, n + 1, Len(t)) \in Seq(S)
      /\ Len(SubSeq(t, n + 1, Len(t))) = IF n + 1 <= Len(t) THEN Len(t) - (n + 1) + 1 ELSE 0
      /\ \A i \in 1 .. Len(t) - (n + 1) + 1 : SubSeq(t, n + 1, Len(t))[i] = t[n + 1 + i - 1]
  BY <1>1, <1>2, SubSeqProperties
<1> DEFINE s == After(t, n)
<1>4. /\ s \in Seq(S) /\ Len(s) = IF n + 1 <= Len(t) THEN Len(t) - (n + 1) + 1 ELSE 0
      /\ \A i \in 1 .. Len(t) - (n + 1) + 1 : s[i] = t[n + 1 + i - 1]
  BY <1>3 DEF After
<1> HIDE DEF s
<1>5. Len(s) = Len(t) - n /\ Len(t) - (n + 1) + 1 = Len(t) - n
  BY <1>1, <1>4
<1>6. \A k \in 1 .. Len(t) - n : n + 1 + k - 1 = n + k
  BY <1>1
<1> QED
  BY <1>4, <1>5, <1>6 DEF s

\* Nothing follows the last one, and everything the first place.
LEMMA AfterLast ==
  ASSUME NEW S, NEW t \in Seq(S)
  PROVE  After(t, Len(t)) = <<>> /\ After(t, 0) = t
<1>1. Len(t) \in Int /\ Len(t) + 1 \in Int /\ Len(t) < Len(t) + 1 /\ 0 + 1 = 1
  OBVIOUS
<1> QED
  BY <1>1, SubSeqEmpty, SubSeqFull DEF After

\* With one more task of this generation.
LEMMA TurnsAppend ==
  ASSUME NEW S, NEW t \in Seq(S), NEW x \in S, NEW e, NEW n, TurnsAt(t, e, n), x.epoch = e
  PROVE  TurnsAt(Append(t, x), e, n) /\ After(Append(t, x), n) = Append(After(t, n), x)
<1> DEFINE u == Append(t, x)
           s == After(t, n)
<1>1. /\ Len(t) \in Nat /\ u \in Seq(S) /\ Len(u) = Len(t) + 1 /\ n \in 0 .. Len(t)
      /\ \A k \in 1 .. Len(t) + 1 : u[k] = IF k = Len(t) + 1 THEN x ELSE t[k]
  BY DEF TurnsAt
<1>2. s \in Seq(S) /\ Len(s) = Len(t) - n /\ \A k \in 1 .. Len(t) - n : s[k] = t[n + k]
  BY <1>1, AfterFact
<1>3. n \in 0 .. Len(u)
  BY <1>1
<1> HIDE DEF u, s
<1> DEFINE w == After(u, n)
           v == Append(s, x)
<1>4. /\ w \in Seq(S) /\ Len(w) = Len(t) + 1 - n
      /\ \A k \in 1 .. Len(t) + 1 - n : w[k] = u[n + k]
  <2>1. u \in Seq(S)
    BY <1>1
  <2>2. /\ w \in Seq(S) /\ Len(w) = Len(u) - n
        /\ \A k \in 1 .. Len(u) - n : w[k] = u[n + k]
    BY <2>1, <1>3, AfterFact
  <2> HIDE DEF w
  <2> QED
    BY <2>2, <1>1
<1>5. TurnsAt(u, e, n)
  <2>1. ASSUME NEW i \in 1 .. Len(t) + 1
        PROVE  i > n <=> u[i].epoch = e
    <3>1. i = Len(t) + 1 \/ (i \in 1 .. Len(t) /\ i # Len(t) + 1)
      BY <1>1
    <3>2. Len(t) + 1 > n
      BY <1>1
    <3> QED
      BY <3>1, <3>2, <1>1 DEF TurnsAt
  <2> QED
    BY <2>1, <1>1, <1>3 DEF TurnsAt
<1>6. /\ v \in Seq(S) /\ Len(v) = Len(t) + 1 - n
      /\ \A k \in 1 .. Len(t) + 1 - n : v[k] = IF k = Len(t) + 1 - n THEN x ELSE s[k]
  <2>1. /\ v \in Seq(S) /\ Len(v) = Len(s) + 1 /\ Len(s) \in Nat
        /\ \A k \in 1 .. Len(s) + 1 : v[k] = IF k = Len(s) + 1 THEN x ELSE s[k]
    BY <1>2
  <2>2. Len(s) + 1 = Len(t) + 1 - n
    BY <1>1, <1>2
  <2> HIDE DEF v
  <2> QED
    BY <2>1, <2>2
<1> HIDE DEF w, v
<1>7. \A k \in 1 .. Len(t) + 1 - n : w[k] = v[k]
  <2> TAKE k \in 1 .. Len(t) + 1 - n
  <2>1. n + k \in 1 .. Len(t) + 1 /\ (n + k = Len(t) + 1 <=> k = Len(t) + 1 - n)
        /\ (k # Len(t) + 1 - n => k \in 1 .. Len(t) - n)
    BY <1>1
  <2> QED
    BY <2>1, <1>1, <1>2, <1>4, <1>6
<1>8. w = v
  BY <1>4, <1>6, <1>7, SeqEqual
<1> QED
  BY <1>5, <1>8 DEF u, s, w, v

\* With the first one gone.
LEMMA TurnsTail ==
  ASSUME NEW S, NEW t \in Seq(S), t # <<>>, NEW e, NEW n, TurnsAt(t, e, n)
  PROVE  \/ n = 0 /\ TurnsAt(Tail(t), e, 0) /\ t[1].epoch = e
         \/ /\ n # 0 /\ t[1].epoch # e /\ TurnsAt(Tail(t), e, n - 1)
            /\ After(Tail(t), n - 1) = After(t, n)
<1> DEFINE u == Tail(t)
<1>1. /\ Len(t) \in Nat \ {0} /\ u \in Seq(S) /\ Len(u) = Len(t) - 1 /\ n \in 0 .. Len(t)
      /\ \A k \in 1 .. Len(t) - 1 : u[k] = t[k + 1]
  BY TailFact DEF TurnsAt
<1>2. 1 \in 1 .. Len(t)
  BY <1>1
<1>3. (1 > n) <=> (t[1].epoch = e)
  BY <1>2 DEF TurnsAt
<1> HIDE DEF u
<1>4. \A k \in 1 .. Len(t) - 1 : k + 1 \in 1 .. Len(t) /\ (k + 1 > n <=> k > n - 1)
  BY <1>1
<1>5. \A k \in 1 .. Len(t) - 1 : k > n - 1 <=> u[k].epoch = e
  BY <1>1, <1>4 DEF TurnsAt
<1>6. CASE n = 0
  <2>1. \A k \in 1 .. Len(t) - 1 : k > 0 /\ k > n - 1
    BY <1>6
  <2>2. 0 \in 0 .. Len(u)
    BY <1>1
  <2>3. TurnsAt(u, e, 0)
    BY <2>1, <2>2, <1>1, <1>5 DEF TurnsAt
  <2> QED
    BY <2>3, <1>3, <1>6 DEF u
<1>7. CASE n # 0
  <2>1. n - 1 \in 0 .. Len(u) /\ ~(1 > n)
    BY <1>1, <1>7
  <2>2. TurnsAt(u, e, n - 1)
    BY <2>1, <1>1, <1>5 DEF TurnsAt
  <2> DEFINE m == n - 1
  <2>3. /\ After(u, m) \in Seq(S) /\ Len(After(u, m)) = Len(u) - m
        /\ \A k \in 1 .. Len(u) - m : After(u, m)[k] = u[m + k]
    <3>1. m \in 0 .. Len(u) /\ u \in Seq(S)
      BY <2>1, <1>1
    <3> HIDE DEF m
    <3> QED
      BY <3>1, AfterFact
  <2>4. /\ After(t, n) \in Seq(S) /\ Len(After(t, n)) = Len(t) - n
        /\ \A k \in 1 .. Len(t) - n : After(t, n)[k] = t[n + k]
    BY <1>1, AfterFact
  <2>5. Len(u) - m = Len(t) - n
    BY <1>1
  <2>6. \A k \in 1 .. Len(t) - n : m + k \in 1 .. Len(t) - 1 /\ m + k + 1 = n + k
    BY <1>1, <1>7
  <2> HIDE DEF m
  <2>7. \A k \in 1 .. Len(t) - n : After(u, m)[k] = After(t, n)[k]
    BY <2>3, <2>4, <2>5, <2>6, <1>1
  <2>8. After(u, m) = After(t, n)
    BY <2>3, <2>4, <2>5, <2>7, SeqEqual
  <2> QED
    BY <2>1, <2>2, <2>8, <1>3, <1>7 DEF u, m
<1> QED
  BY <1>6, <1>7

\* A generation no task is of begins after all of them.
LEMMA TurnsNew ==
  ASSUME NEW t \in Seq(Task), NEW e \in Nat, \A i \in 1 .. Len(t) : t[i].epoch < e
  PROVE  TurnsAt(t, e, Len(t))
<1>1. Len(t) \in 0 .. Len(t) /\ \A i \in 1 .. Len(t) : ~(i > Len(t)) /\ t[i].epoch \in Nat
  <2>1. Len(t) \in Nat /\ \A i \in 1 .. Len(t) : t[i] \in Task
    OBVIOUS
  <2> QED
    BY <2>1 DEF Task
<1>2. \A i \in 1 .. Len(t) : t[i].epoch # e
  BY <1>1
<1> QED
  BY <1>1, <1>2 DEF TurnsAt

\* TasksInv with the place named.
LEMMA TasksTurn ==
  /\ TasksInv => \E n : TurnsAt(tasks, epoch, n)
  /\ (\A i \in 1 .. Len(tasks') : tasks'[i].epoch <= epoch')
       /\ (\E n : TurnsAt(tasks', epoch', n)) => TasksInv'
BY DEF TasksInv, TurnsAt

\* Tasks stand, begin or run, and a generation may be left behind.
LEMMA TasksKinds ==
  ASSUME Kinds
  PROVE  \/ UNCHANGED <<tasks, epoch>>
         \/ UNCHANGED epoch /\ HeadRuns
         \/ \E bytes \in Nat : \E r \in pendingOutputs : Admits(bytes, r)
         \/ Restarts /\ epoch' = epoch + 1 /\ (tasks' = tasks \/ HeadRuns)
BY DEF Kinds, Rests, Wastes, Submits, Restarts, Produces, Concludes, Drops, Discards, Delivers,
       Takes, Emits, running, TasksStand

LEMMA TasksStep ==
  ASSUME Shape, TasksInv, Kinds
  PROVE  TasksInv'
<1>1. /\ tasks \in Seq(Task) /\ epoch \in Nat /\ Len(tasks) \in Nat
      /\ tasks' \in Seq(Task) /\ epoch' \in Nat
  BY ShapeStep DEF Shape
<1>2. PICK n : TurnsAt(tasks, epoch, n)
  BY TasksTurn
<1>3. \A i \in 1 .. Len(tasks) : tasks[i].epoch <= epoch /\ tasks[i].epoch \in Nat
  <2>1. \A i \in 1 .. Len(tasks) : tasks[i] \in Task
    BY <1>1
  <2> QED
    BY <2>1 DEF TasksInv, Task
<1>4. CASE UNCHANGED <<tasks, epoch>>
  BY <1>4 DEF TasksInv
<1>5. ASSUME HeadRuns
      PROVE  \A i \in 1 .. Len(tasks') : tasks'[i].epoch <= epoch /\ tasks'[i].epoch \in Nat
  <2>1. /\ Len(tasks') = Len(tasks) - 1
        /\ \A i \in 1 .. Len(tasks) - 1 : tasks'[i] = tasks[i + 1]
    BY <1>5, HeadRunsFact
  <2>2. \A i \in 1 .. Len(tasks) - 1 : i + 1 \in 1 .. Len(tasks)
    BY <1>1
  <2> QED
    BY <2>1, <2>2, <1>3
<1>6. CASE UNCHANGED epoch /\ HeadRuns
  <2>1. \E m : TurnsAt(tasks', epoch', m)
    <3>1. tasks # <<>> /\ tasks' = Tail(tasks)
      BY <1>6 DEF HeadRuns
    <3> QED
      BY <3>1, <1>1, <1>2, <1>6, TurnsTail
  <2> QED
    BY <2>1, <1>5, <1>6, TasksTurn
<1>7. ASSUME NEW bytes \in Nat, NEW r \in pendingOutputs, Admits(bytes, r)
      PROVE  TasksInv'
  <2> DEFINE t == [id |-> r.id, epoch |-> epoch, bytes |-> bytes]
  <2>1. t \in Task /\ t.epoch = epoch
    BY <1>1, <1>7 DEF Shape, Record, Task
  <2>2. tasks' = Append(tasks, t) /\ epoch' = epoch
    BY <1>7 DEF Admits
  <2> HIDE DEF t
  <2>3. TurnsAt(tasks', epoch', n)
    BY <2>1, <2>2, <1>1, <1>2, TurnsAppend
  <2>4. \A i \in 1 .. Len(tasks') : tasks'[i].epoch <= epoch'
    <3>1. Len(tasks') = Len(tasks) + 1
          /\ \A i \in 1 .. Len(tasks) + 1 : tasks'[i] = IF i = Len(tasks) + 1 THEN t ELSE tasks[i]
      BY <2>1, <2>2, <1>1
    <3>2. \A i \in 1 .. Len(tasks) + 1 : i = Len(tasks) + 1 \/ i \in 1 .. Len(tasks)
      BY <1>1
    <3> QED
      BY <3>1, <3>2, <2>1, <2>2, <1>1, <1>3
  <2> QED
    BY <2>3, <2>4, TasksTurn
<1>8. CASE epoch' = epoch + 1 /\ (tasks' = tasks \/ HeadRuns)
  <2>1. \A i \in 1 .. Len(tasks') : tasks'[i].epoch <= epoch /\ tasks'[i].epoch \in Nat
    BY <1>3, <1>5, <1>8
  <2>2. \A i \in 1 .. Len(tasks') : tasks'[i].epoch < epoch' /\ tasks'[i].epoch <= epoch'
    BY <2>1, <1>1, <1>8
  <2>3. TurnsAt(tasks', epoch', Len(tasks'))
    BY <2>2, <1>1, TurnsNew
  <2> QED
    BY <2>2, <2>3, TasksTurn
<1> QED
  BY <1>4, <1>6, <1>7, <1>8, TasksKinds

\* A restart leaves no task of an open generation.
LEMMA RestartsLive ==
  ASSUME Shape, TasksInv, Restarts
  PROVE  LiveTasks' = <<>>
<1>1. CASE IsClosed'
  BY <1>1 DEF LiveTasks
<1>2. CASE ~IsClosed'
  <2>1. epoch' = epoch + 1 /\ tasks' = tasks
    BY <1>2 DEF Restarts, TasksStand
  <2>2. tasks \in Seq(Task) /\ epoch \in Nat
    BY DEF Shape
  <2>3. \A i \in 1 .. Len(tasks) : tasks[i].epoch < epoch + 1
    <3>1. \A i \in 1 .. Len(tasks) : tasks[i] \in Task
      BY <2>2
    <3> QED
      BY <3>1, <2>2 DEF TasksInv, Task
  <2>4. epoch + 1 \in Nat
    BY <2>2
  <2>5. TurnsAt(tasks', epoch', Len(tasks'))
    BY <2>1, <2>2, <2>3, <2>4, TurnsNew
  <2>6. LiveTasks' = After(tasks', Len(tasks'))
    BY <2>1, <2>2, <2>5, <1>2, LiveFollowNext
  <2> QED
    BY <2>1, <2>2, <2>6, AfterLast
<1> QED
  BY <1>1, <1>2

-----------------------------------------------------------------------------
(* Order                                                                     *)

\* The records taken, in the order the outputs were admitted.
Taken(log) == [i \in DOMAIN log |-> log[i].record]

LEMMA TakenFact ==
  ASSUME NEW log \in Seq(Admission)
  PROVE  /\ Taken(log) \in Seq(Nat) /\ Len(Taken(log)) = Len(log)
         /\ \A k \in 1 .. Len(log) : Taken(log)[k] = log[k].record
<1> DEFINE n == Len(log)
<1>1. n \in Nat /\ DOMAIN log = 1 .. n /\ \A k \in 1 .. n : log[k] \in Admission
  OBVIOUS
<1>2. \A k \in 1 .. n : log[k].record \in Nat
  BY <1>1 DEF Admission
<1> HIDE DEF n
<1>3. Taken(log) = [k \in 1 .. n |-> log[k].record]
  BY <1>1 DEF Taken
<1>4. Taken(log) \in [1 .. n -> Nat]
  BY <1>2, <1>3
<1>5. Taken(log) \in Seq(Nat) /\ Len(Taken(log)) = n
  BY <1>1, <1>4
<1> QED
  BY <1>3, <1>5 DEF n

\* One more admission takes one more record.
LEMMA TakenAppend ==
  ASSUME NEW log \in Seq(Admission), NEW a \in Admission
  PROVE  Taken(log) \in Seq(Nat) /\ Taken(Append(log, a)) = Append(Taken(log), a.record)
<1> DEFINE n == Len(log)
           more == Append(log, a)
<1>1. /\ n \in Nat /\ DOMAIN log = 1 .. n /\ DOMAIN more = 1 .. n + 1
      /\ \A k \in 1 .. n : log[k] \in Admission
      /\ \A k \in 1 .. n + 1 : more[k] = IF k = n + 1 THEN a ELSE log[k]
  OBVIOUS
<1>2. a.record \in Nat /\ \A k \in 1 .. n : log[k].record \in Nat
  BY <1>1 DEF Admission
<1> HIDE DEF n, more
<1>4. Taken(log) \in Seq(Nat) /\ Len(Taken(log)) = n /\ \A k \in 1 .. n : Taken(log)[k] = log[k].record
  BY TakenFact DEF n
<1>5. /\ Append(Taken(log), a.record) \in Seq(Nat) /\ Len(Append(Taken(log), a.record)) = n + 1
      /\ \A k \in 1 .. n + 1 :
           Append(Taken(log), a.record)[k] = IF k = n + 1 THEN a.record ELSE Taken(log)[k]
  BY <1>1, <1>2, <1>4
<1>6. \A k \in 1 .. n + 1 : more[k].record = IF k = n + 1 THEN a.record ELSE log[k].record
  BY <1>1
<1>7. Taken(more) = [k \in 1 .. n + 1 |-> more[k].record]
  BY <1>1 DEF Taken
<1>8. \A k \in 1 .. n + 1 : more[k].record \in Nat
  <2> TAKE k \in 1 .. n + 1
  <2>1. k # n + 1 => k \in 1 .. n
    BY <1>1
  <2> QED
    BY <2>1, <1>2, <1>6
<1>9. Taken(more) \in Seq(Nat) /\ Len(Taken(more)) = n + 1 /\ \A k \in 1 .. n + 1 : Taken(more)[k] = more[k].record
  <2>1. Taken(more) \in [1 .. n + 1 -> Nat]
    BY <1>7, <1>8
  <2> QED
    BY <2>1, <1>1, <1>7
<1>10. \A k \in 1 .. n + 1 : Taken(more)[k] = Append(Taken(log), a.record)[k]
  <2> TAKE k \in 1 .. n + 1
  <2>1. k # n + 1 => k \in 1 .. n
    BY <1>1
  <2> QED
    BY <2>1, <1>4, <1>5, <1>6, <1>9
<1>11. Taken(more) = Append(Taken(log), a.record)
  BY <1>5, <1>9, <1>10, SeqEqual
<1> QED
  BY <1>4, <1>11 DEF more

\* What OutputOrder says, now and in the next state.
LEMMA OrderSays ==
  /\ OutputOrder <=> delivered \o Ids(queue) \o Ids(LiveTasks) = Taken(admitted)
  /\ OutputOrder' <=> delivered' \o Ids(queue') \o Ids(LiveTasks') = Taken(admitted')
BY DEF OutputOrder, Taken

\* Frames and tasks have ids.
LEMMA AllNamed == Named(Frame) /\ Named(Task) /\ Weighed(Frame) /\ Weighed(Task)
BY DEF Named, Weighed, Frame, Task

\* The live tasks are tasks, those of an open decoder the ones after the others.
LEMMA LiveFact ==
  ASSUME Shape, TasksInv
  PROVE  /\ LiveTasks \in Seq(Task)
         /\ \E n : TurnsAt(tasks, epoch, n)
              /\ LiveTasks = IF IsClosed THEN <<>> ELSE After(tasks, n)
<1>1. PICK n : TurnsAt(tasks, epoch, n)
  BY TasksTurn
<1>2. tasks \in Seq(Task) /\ n \in 0 .. Len(tasks)
  BY <1>1 DEF Shape, TurnsAt
<1>3. LiveTasks = IF IsClosed THEN <<>> ELSE After(tasks, n)
  BY <1>1, <1>2, LiveFollow
<1>4. After(tasks, n) \in Seq(Task) /\ <<>> \in Seq(Task)
  BY <1>2, AfterFact, NoneYet
<1> QED
  BY <1>1, <1>3, <1>4

\* Admission spawns a live task.
LEMMA LiveAdmits ==
  ASSUME Shape, TasksInv, Kinds, NEW bytes \in Nat, NEW r \in pendingOutputs,
         Admits(bytes, r), NEW t, t = [id |-> r.id, epoch |-> epoch, bytes |-> bytes]
  PROVE  t \in Task /\ LiveTasks' = Append(LiveTasks, t)
<1>1. tasks \in Seq(Task) /\ tasks' \in Seq(Task) /\ epoch \in Nat /\ r.id \in Nat
  BY ShapeStep DEF Shape, Record
<1>2. t \in Task /\ t.epoch = epoch
  BY <1>1 DEF Task
<1>3. tasks' = Append(tasks, t) /\ UNCHANGED <<epoch, lastError>> /\ ~IsClosed
  BY DEF Admits
<1>4. PICK n : TurnsAt(tasks, epoch, n)
               /\ LiveTasks = IF IsClosed THEN <<>> ELSE After(tasks, n)
  BY LiveFact
<1>5. TurnsAt(tasks', epoch', n) /\ After(tasks', n) = Append(After(tasks, n), t)
  BY <1>1, <1>2, <1>3, <1>4, TurnsAppend
<1>6. ~IsClosed'
  BY <1>3 DEF IsClosed
<1> QED
  BY <1>1, <1>2, <1>3, <1>4, <1>5, <1>6, LiveFollowNext

\* A discarded task was not live.
LEMMA LiveDiscards ==
  ASSUME Shape, TasksInv, Kinds, Discards
  PROVE  LiveTasks' = LiveTasks
<1>1. tasks \in Seq(Task) /\ tasks' \in Seq(Task)
  BY ShapeStep DEF Shape
<1>2. /\ tasks # <<>> /\ tasks' = Tail(tasks) /\ ~Current
      /\ UNCHANGED <<epoch, lastError>>
  BY DEF Discards, HeadRuns
<1>3. PICK n : TurnsAt(tasks, epoch, n)
               /\ LiveTasks = IF IsClosed THEN <<>> ELSE After(tasks, n)
  BY LiveFact
<1>4. CASE IsClosed
  BY <1>2, <1>4 DEF LiveTasks, IsClosed
<1>5. CASE ~IsClosed
  <2>1. tasks[1].epoch # epoch /\ ~IsClosed'
    BY <1>2, <1>5 DEF Current, IsClosed
  <2>2. TurnsAt(tasks', epoch', n - 1) /\ After(tasks', n - 1) = After(tasks, n)
    BY <2>1, <1>1, <1>2, <1>3, TurnsTail
  <2> QED
    BY <2>1, <2>2, <1>1, <1>3, <1>5, LiveFollowNext
<1> QED
  BY <1>4, <1>5

\* When the task that runs is live, all of them are.
LEMMA LiveDelivers ==
  ASSUME Shape, TasksInv, Kinds, Delivers
  PROVE  LiveTasks = tasks /\ LiveTasks' = tasks'
<1>1. tasks \in Seq(Task) /\ tasks' \in Seq(Task)
  BY ShapeStep DEF Shape
<1>2. /\ tasks # <<>> /\ tasks' = Tail(tasks) /\ Current
      /\ UNCHANGED <<epoch, lastError>>
  BY DEF Delivers, HeadRuns
<1>3. PICK n : TurnsAt(tasks, epoch, n)
               /\ LiveTasks = IF IsClosed THEN <<>> ELSE After(tasks, n)
  BY LiveFact
<1>4. ~IsClosed /\ ~IsClosed' /\ tasks[1].epoch = epoch
  BY <1>2 DEF Current, IsClosed
<1>5. n = 0 /\ TurnsAt(tasks', epoch', 0)
  BY <1>1, <1>2, <1>3, <1>4, TurnsTail
<1>6. After(tasks, 0) = tasks /\ After(tasks', 0) = tasks'
  BY <1>1, AfterLast
<1> QED
  BY <1>1, <1>3, <1>4, <1>5, <1>6, LiveFollowNext

\* Between an admission, a task and a delivery nothing is reordered.
LEMMA OrderStep ==
  ASSUME Shape, TasksInv, OutputOrder, Kinds
  PROVE  OutputOrder'
<1>1. /\ tasks \in Seq(Task) /\ queue \in Seq(Frame) /\ delivered \in Seq(Nat)
      /\ admitted \in Seq(Admission) /\ LiveTasks \in Seq(Task)
      /\ Ids(queue) \in Seq(Nat) /\ Ids(LiveTasks) \in Seq(Nat)
  BY LiveFact, AllNamed, IdsType DEF Shape
<1>2. delivered \o Ids(queue) \o Ids(LiveTasks) = Taken(admitted)
  BY OrderSays
<1>3. CASE \/ Rests \/ Wastes \/ Concludes \/ Drops \/ Takes
           \/ \E bytes \in Nat : Submits(bytes)
           \/ \E id \in held, frames \in 0 .. 2 : Emits(id, frames)
  <2>1. UNCHANGED <<queue, delivered, admitted, tasks, epoch, lastError>>
    BY <1>3 DEF Rests, Wastes, Concludes, Drops, Takes, Submits, Emits, stock, running
  <2> QED
    BY <2>1 DEF OutputOrder, LiveTasks, StaleTasks, IsClosed
<1>4. CASE Restarts
  <2>1. queue' = <<>> /\ delivered' = <<>> /\ admitted' = <<>> /\ LiveTasks' = <<>>
    BY <1>4, RestartsLive DEF Restarts, ClearGeneration, ForgetHistory
  <2>2. Taken(<<>>) = <<>>
    BY DEF Taken
  <2>3. <<>> \o <<>> \o <<>> = <<>>
    OBVIOUS
  <2> QED
    BY <2>1, <2>2, <2>3, IdsNone, OrderSays
<1>5. CASE Produces
  <2>1. /\ queue # <<>> /\ queue' = Tail(queue) /\ delivered' = Append(delivered, Head(queue).id)
        /\ UNCHANGED <<admitted, tasks, epoch, lastError>>
    BY <1>5 DEF Produces, PopQueue, running
  <2>2. LiveTasks' = LiveTasks
    BY <2>1 DEF LiveTasks, StaleTasks, IsClosed
  <2>3. /\ Ids(queue) # <<>> /\ Head(Ids(queue)) = Head(queue).id
        /\ Tail(Ids(queue)) = Ids(queue')
    BY <2>1, <1>1, AllNamed, IdsPop
  <2>4. Append(delivered, Head(Ids(queue))) \o Tail(Ids(queue)) = delivered \o Ids(queue)
    BY <2>3, <1>1, HeadMoves
  <2> QED
    BY <2>1, <2>2, <2>3, <2>4, <1>2, OrderSays
<1>6. ASSUME NEW bytes \in Nat, NEW r \in pendingOutputs, Admits(bytes, r)
      PROVE  OutputOrder'
  <2> DEFINE t == [id |-> r.id, epoch |-> epoch, bytes |-> bytes]
             a == [output |-> Head(outputs), record |-> r.id]
  <2>1. t \in Task /\ t.epoch = epoch /\ a \in Admission /\ t.id = a.record /\ t.id \in Nat
    <3>1. r.id \in Nat /\ outputs # <<>> /\ outputs \in Seq(Nat) /\ epoch \in Nat
      BY <1>6 DEF Shape, Record, Admits
    <3>2. Head(outputs) \in Nat
      BY <3>1
    <3> QED
      BY <3>1, <3>2 DEF Task, Admission
  <2>2. admitted' = Append(admitted, a) /\ UNCHANGED <<queue, delivered>>
    BY <1>6 DEF Admits
  <2>4. LiveTasks' = Append(LiveTasks, t)
    BY <1>6, LiveAdmits
  <2> HIDE DEF t, a
  <2>5. Ids(LiveTasks') = Append(Ids(LiveTasks), t.id)
    BY <2>1, <2>4, <1>1, AllNamed, IdsAppend
  <2>6. Taken(admitted') = Append(Taken(admitted), t.id)
    BY <2>1, <2>2, <1>1, TakenAppend
  <2> DEFINE d == delivered \o Ids(queue)
  <2>7. d \in Seq(Nat)
    BY <1>1
  <2>8. d \o Ids(LiveTasks) = Taken(admitted)
    BY <1>2
  <2> HIDE DEF d
  <2>9. d \o Append(Ids(LiveTasks), t.id) = Append(d \o Ids(LiveTasks), t.id)
    <3> DEFINE b == Ids(LiveTasks)
               y == t.id
    <3>1. b \in Seq(Nat) /\ y \in Nat
      BY <2>1, <1>1
    <3> HIDE DEF b, y
    <3>2. d \o Append(b, y) = Append(d \o b, y)
      BY <3>1, <2>7, AppendOutside
    <3> QED
      BY <3>2 DEF b, y
  <2>10. d \o Ids(LiveTasks') = Taken(admitted')
    BY <2>5, <2>6, <2>8, <2>9
  <2> QED
    BY <2>2, <2>10, OrderSays DEF d
<1>7. CASE Discards
  <2>1. /\ tasks # <<>> /\ tasks' = Tail(tasks) /\ ~Current
        /\ UNCHANGED <<queue, delivered, admitted, epoch, lastError>>
    BY <1>7 DEF Discards, HeadRuns, stock
  <2>2. LiveTasks' = LiveTasks
    BY <1>7, LiveDiscards
  <2> QED
    BY <2>1, <2>2, <1>2, OrderSays
<1>8. CASE Delivers
  <2> DEFINE x == [id |-> tasks[1].id, bytes |-> tasks[1].bytes]
  <2>1. /\ tasks # <<>> /\ tasks' = Tail(tasks) /\ Current /\ queue' = Append(queue, x)
        /\ UNCHANGED <<delivered, admitted, epoch, lastError>>
    BY <1>8 DEF Delivers, HeadRuns
  <2>2. tasks[1] \in Task /\ Head(tasks) = tasks[1]
    BY <2>1, <1>1
  <2>3. x \in Frame /\ x.id = Head(tasks).id /\ x.id \in Nat
    BY <2>2 DEF Task, Frame
  <2> HIDE DEF x
  <2>7. LiveTasks = tasks /\ LiveTasks' = tasks'
    BY <1>8, LiveDelivers
  <2>8. /\ Ids(tasks) # <<>> /\ Head(Ids(tasks)) = x.id /\ Tail(Ids(tasks)) = Ids(tasks')
        /\ Ids(tasks) \in Seq(Nat)
    BY <2>1, <2>3, <1>1, AllNamed, IdsPop
  <2>9. Ids(queue') = Append(Ids(queue), x.id)
    BY <2>1, <2>3, <1>1, AllNamed, IdsAppend
  <2>10. delivered \o Append(Ids(queue), x.id) = Append(delivered \o Ids(queue), x.id)
    <3> DEFINE b == Ids(queue)
               y == x.id
    <3>1. b \in Seq(Nat) /\ y \in Nat /\ delivered \in Seq(Nat)
      BY <2>3, <1>1
    <3> HIDE DEF b, y
    <3>2. delivered \o Append(b, y) = Append(delivered \o b, y)
      BY <3>1, AppendOutside
    <3> QED
      BY <3>2 DEF b, y
  <2> DEFINE d == delivered \o Ids(queue)
  <2>11. d \in Seq(Nat)
    BY <1>1
  <2> HIDE DEF d
  <2>12. Append(d, Head(Ids(tasks))) \o Tail(Ids(tasks)) = d \o Ids(tasks)
    BY <2>8, <2>11, HeadMoves
  <2>13. delivered' \o Ids(queue') = Append(d, x.id)
    BY <2>1, <2>9, <2>10 DEF d
  <2>14. d \o Ids(tasks) = Taken(admitted)
    BY <2>7, <1>2 DEF d
  <2> QED
    BY <2>1, <2>7, <2>8, <2>12, <2>13, <2>14, OrderSays
<1> QED
  BY <1>3, <1>4, <1>5, <1>6, <1>7, <1>8 DEF Kinds

-----------------------------------------------------------------------------
(* The accounts                                                              *)

LEMMA BytesOfAppend ==
  ASSUME NEW S, Weighed(S), NEW s \in Seq(S), NEW x \in S
  PROVE  BytesOf(Append(s, x)) = BytesOf(s) + x.bytes
<1>1. <<x>> \in Seq(S) /\ Append(s, x) = s \o <<x>>
  BY AppendIsConcat
<1>2. BytesOf(s \o <<x>>) = BytesOf(s) + BytesOf(<<x>>)
  BY <1>1, BytesOfConcat
<1> QED
  BY <1>1, <1>2, BytesOfOne

\* One element of a run weighs no more than the run.
LEMMA BytesOfMember ==
  ASSUME NEW S, Weighed(S), NEW s \in Seq(S), NEW i \in 1 .. Len(s)
  PROVE  s[i].bytes \in Nat /\ s[i].bytes <= BytesOf(s)
<1> DEFINE A == TotalsOf(s)
           m == Len(s)
           less == {k \in 0 .. m : k >= i /\ ~(s[i].bytes <= A[k])}
<1>1. m \in Nat /\ i \in 1 .. m /\ \A k \in 1 .. m : s[k] \in S
  OBVIOUS
<1>2. \A k \in 1 .. m : s[k].bytes \in Nat
  BY <1>1 DEF Weighed
<1>3. \A k \in 0 .. m : A[k] = IF k = 0 THEN 0 ELSE A[k - 1] + s[k].bytes
  BY TotalsStep
<1>4. \A k \in 0 .. m : A[k] \in Nat
  BY TotalsType
<1>5. BytesOf(s) = A[m]
  BY <1>1, BytesIsLast
<1> HIDE DEF A, m
<1>6. SUFFICES less = {}
  <2>1. m \in 0 .. m /\ m >= i
    BY <1>1
  <2> QED
    BY <2>1, <1>1, <1>2, <1>5
<1>7. SUFFICES ASSUME less # {} PROVE FALSE
  OBVIOUS
<1>8. less \in SUBSET Nat
  BY <1>1
<1> HIDE DEF less
<1>9. PICK k \in less : \A j \in less : k <= j
  BY <1>7, <1>8, LeastNat
<1>10. k \in 0 .. m /\ k >= i /\ ~(s[i].bytes <= A[k])
  BY <1>9 DEF less
<1>11. k \in 1 .. m /\ k - 1 \in 0 .. m /\ ~(k <= k - 1) /\ (k # i => k - 1 >= i)
  BY <1>10, <1>1
<1>12. A[k] = A[k - 1] + s[k].bytes
  BY <1>3, <1>10, <1>11
<1>13. A[k] \in Nat /\ A[k - 1] \in Nat /\ s[k].bytes \in Nat /\ s[i].bytes \in Nat
  BY <1>1, <1>2, <1>4, <1>10, <1>11
<1>14. k # i
  BY <1>10, <1>12, <1>13
<1>15. k - 1 \notin less
  BY <1>9, <1>11
<1>16. s[i].bytes <= A[k - 1]
  BY <1>11, <1>14, <1>15 DEF less
<1> QED
  BY <1>10, <1>12, <1>13, <1>16

CopiesHonest == pendingCopies = Len(tasks) /\ pendingCopyBytes = Estimate(BytesOf(tasks))
QueueHonest == queueBytes = BytesOf(queue)
InputHonest == pendingInputBytes = SumBytes(pendingOutputs)

LEMMA HonestParts ==
  /\ CountersHonest <=> CopiesHonest /\ QueueHonest /\ InputHonest
  /\ CountersHonest' <=> CopiesHonest' /\ QueueHonest' /\ InputHonest'
BY DEF CountersHonest, CopiesHonest, QueueHonest, InputHonest

\* A task that runs gives back what it reserved.
LEMMA HeadRunsBytes ==
  ASSUME Shape, CopiesHonest, HeadRuns
  PROVE  /\ CopiesHonest' /\ pendingCopyBytes' \in Nat /\ tasks[1].bytes \in Nat
         /\ pendingCopyBytes = pendingCopyBytes' + 2 * tasks[1].bytes
<1>1. tasks \in Seq(Task) /\ tasks # <<>> /\ tasks' = Tail(tasks)
  BY DEF Shape, HeadRuns
<1>2. /\ Len(tasks) \in Nat \ {0} /\ Len(tasks') = Len(tasks) - 1 /\ Head(tasks) = tasks[1]
  BY HeadRunsFact
<1>3. /\ BytesOf(tasks) = tasks[1].bytes + BytesOf(tasks')
      /\ tasks[1].bytes \in Nat /\ BytesOf(tasks') \in Nat
  <2>1. Weighed(Task)
    BY AllNamed
  <2> QED
    BY <2>1, <1>1, <1>2, BytesOfPop
<1>4. /\ pendingCopies = Len(tasks) /\ pendingCopyBytes = 2 * BytesOf(tasks)
      /\ pendingCopies' = SatSub(pendingCopies, 1)
      /\ pendingCopyBytes' = SatSub(pendingCopyBytes, 2 * tasks[1].bytes)
  BY DEF CopiesHonest, HeadRuns, Estimate
<1>5. pendingCopies' = Len(tasks')
  BY <1>2, <1>4 DEF SatSub
<1>6. pendingCopyBytes' = 2 * BytesOf(tasks')
  BY <1>3, <1>4 DEF SatSub
<1>7. pendingCopyBytes' \in Nat /\ pendingCopyBytes = pendingCopyBytes' + 2 * tasks[1].bytes
  BY <1>3, <1>4, <1>6
<1> QED
  BY <1>3, <1>5, <1>6, <1>7 DEF CopiesHonest, Estimate

LEMMA CopiesStep ==
  ASSUME Shape, CopiesHonest, Kinds
  PROVE  CopiesHonest'
<1>1. CASE UNCHANGED <<tasks, pendingCopies, pendingCopyBytes>>
  BY <1>1 DEF CopiesHonest
<1>2. CASE HeadRuns
  BY <1>2, HeadRunsBytes
<1>3. ASSUME NEW bytes \in Nat, NEW r \in pendingOutputs, Admits(bytes, r)
      PROVE  CopiesHonest'
  <2> DEFINE t == [id |-> r.id, epoch |-> epoch, bytes |-> bytes]
  <2>1. t \in Task /\ t.bytes = bytes
    BY DEF Shape, Record, Task
  <2>2. /\ tasks' = Append(tasks, t) /\ pendingCopies' = pendingCopies + 1
        /\ pendingCopyBytes' = pendingCopyBytes + 2 * bytes
    BY <1>3 DEF Admits, Estimate
  <2> HIDE DEF t
  <2>3. tasks \in Seq(Task) /\ Len(tasks') = Len(tasks) + 1 /\ Weighed(Task)
    BY <2>1, <2>2, AllNamed DEF Shape
  <2>4. BytesOf(tasks') = BytesOf(tasks) + bytes /\ BytesOf(tasks) \in Nat
    BY <2>1, <2>2, <2>3, BytesOfAppend, BytesOfType
  <2> QED
    BY <2>2, <2>3, <2>4 DEF CopiesHonest, Estimate
<1> QED
  BY <1>1, <1>2, <1>3
  DEF Kinds, Rests, Wastes, Submits, Restarts, Produces, Concludes, Drops, Discards, Delivers,
      Takes, Emits, running, TasksStand

LEMMA QueueStep ==
  ASSUME Shape, QueueHonest, Kinds
  PROVE  /\ QueueHonest' /\ queueBytes \in Nat /\ queueBytes' \in Nat
         /\ \/ queueBytes' <= queueBytes /\ ~Delivers
            \/ Delivers /\ queueBytes' = queueBytes + tasks[1].bytes
<1>1. queue \in Seq(Frame) /\ Weighed(Frame)
  BY AllNamed DEF Shape
<1>2. queueBytes = BytesOf(queue) /\ queueBytes \in Nat
  BY <1>1, BytesOfType DEF QueueHonest
<1>3. CASE Delivers
  <2> DEFINE x == [id |-> tasks[1].id, bytes |-> tasks[1].bytes]
  <2>1. x \in Frame /\ x.bytes = tasks[1].bytes /\ x.bytes \in Nat
    <3>1. tasks[1] \in Task
      BY <1>3, HeadRunsFact DEF Delivers
    <3> QED
      BY <3>1 DEF Task, Frame
  <2>2. queue' = Append(queue, x) /\ queueBytes' = queueBytes + tasks[1].bytes
    BY <1>3 DEF Delivers
  <2> HIDE DEF x
  <2>3. BytesOf(queue') = BytesOf(queue) + x.bytes
    BY <2>1, <2>2, <1>1, BytesOfAppend
  <2> QED
    BY <1>2, <1>3, <2>1, <2>2, <2>3 DEF QueueHonest
<1>4. CASE ~Delivers /\ UNCHANGED <<queue, queueBytes>>
  BY <1>2, <1>4 DEF QueueHonest
<1>5. CASE ~Delivers /\ Restarts
  <2>1. queue' = <<>> /\ queueBytes' = 0
    BY <1>5 DEF Restarts, ClearGeneration
  <2> QED
    BY <2>1, <1>2, <1>5, BytesOfNone DEF QueueHonest
<1>6. CASE ~Delivers /\ Produces
  <2>1. queue # <<>> /\ queue' = Tail(queue) /\ queueBytes' = SatSub(queueBytes, Head(queue).bytes)
    BY <1>6 DEF Produces, PopQueue
  <2>2. /\ BytesOf(queue) = Head(queue).bytes + BytesOf(queue')
        /\ Head(queue).bytes \in Nat /\ BytesOf(queue') \in Nat
    BY <2>1, <1>1, BytesOfPop
  <2>3. queueBytes' = BytesOf(queue')
    BY <2>1, <2>2, <1>2 DEF SatSub
  <2> QED
    BY <2>2, <2>3, <1>2, <1>6 DEF QueueHonest
<1> QED
  BY <1>3, <1>4, <1>5, <1>6
  DEF Kinds, Rests, Wastes, Submits, Concludes, Drops, Admits, Discards, Takes, Emits, stock

LEMMA InputStep ==
  ASSUME Shape, IdsInv, InputHonest, Kinds
  PROVE  InputHonest'
<1>1. Sized(pendingOutputs) /\ SumBytes(pendingOutputs) \in Nat
  <2>1. Sized(pendingOutputs)
    BY DEF Shape, Record, Sized
  <2> QED
    BY <2>1, SumBytesType
<1>2. CASE UNCHANGED recordVars
  BY <1>2 DEF recordVars, InputHonest
<1>3. CASE pendingOutputs' = {} /\ pendingInputBytes' = 0
  BY <1>3, SumBytesEmpty DEF InputHonest
<1>4. ASSUME NEW bytes \in Nat, Submits(bytes)
      PROVE  InputHonest'
  <2> DEFINE r == [id |-> nextSubmissionId, epoch |-> epoch, bytes |-> bytes]
  <2>1. /\ pendingOutputs' = pendingOutputs \cup {r}
        /\ pendingInputBytes' = pendingInputBytes + bytes
    BY <1>4 DEF Submits, InsertPendingOutput
  <2>2. r \notin pendingOutputs
    <3>1. r.id = nextSubmissionId /\ nextSubmissionId \in Nat
      BY DEF Shape
    <3> HIDE DEF r
    <3> QED
      BY <3>1 DEF IdsInv
  <2>3. r.bytes = bytes
    OBVIOUS
  <2> HIDE DEF r
  <2>4. SumBytes(pendingOutputs') = SumBytes(pendingOutputs) + bytes
    BY <2>1, <2>2, <2>3, <1>1, SumBytesAdd
  <2> QED
    BY <2>1, <2>4 DEF InputHonest
<1>5. ASSUME NEW r \in pendingOutputs, RemovePendingOutput(r)
      PROVE  InputHonest'
  <2>1. /\ pendingOutputs' = pendingOutputs \ {r}
        /\ pendingInputBytes' = SatSub(pendingInputBytes, r.bytes)
    BY <1>5 DEF RemovePendingOutput
  <2>2. SumBytes(pendingOutputs) = SumBytes(pendingOutputs') + r.bytes
    BY <2>1, <1>1, SumBytesRemove
  <2>3. Sized(pendingOutputs')
    BY <2>1, <1>1, FS_RemoveElement DEF Sized
  <2>4. SumBytes(pendingOutputs') \in Nat /\ r.bytes \in Nat
    BY <2>3, <1>1, SumBytesType DEF Sized
  <2> QED
    BY <2>1, <2>2, <2>4, <1>1 DEF InputHonest, SatSub
<1> QED
  BY <1>2, <1>3, <1>4, <1>5
  DEF Kinds, Rests, Wastes, Restarts, ClearGeneration, Produces, Concludes, ClearPendingOutputs,
      Drops, Admits, Discards, Delivers, Takes, Emits

\* Twice the frame comes free and the frame alone is charged again.
LEMMA ChargeOnce ==
  ASSUME NEW q \in Nat, NEW c \in Nat, NEW b \in Nat, NEW p \in Nat, NEW d \in Nat, NEW m \in Nat,
         q + c <= m, c = d + 2 * b, p <= q \/ p = q + b
  PROVE  p + d <= m
<1>1. p <= q + b
  OBVIOUS
<1>2. q + d + b <= m
  OBVIOUS
<1> QED
  BY <1>1, <1>2

LEMMA BudgetStep ==
  ASSUME Shape, IdsInv, BudgetInv, Kinds
  PROVE  BudgetInv'
<1>1. /\ CopiesHonest /\ QueueHonest /\ InputHonest /\ pendingPushBytes = 0
      /\ queueBytes + pendingCopyBytes <= MaxInflightBytes
  BY HonestParts DEF BudgetInv
<1>2. CopiesHonest' /\ InputHonest'
  BY <1>1, CopiesStep, InputStep
<1>3. /\ QueueHonest' /\ queueBytes \in Nat /\ queueBytes' \in Nat
      /\ \/ queueBytes' <= queueBytes /\ ~Delivers
         \/ Delivers /\ queueBytes' = queueBytes + tasks[1].bytes
  BY <1>1, QueueStep
<1>4. pendingPushBytes' = 0
  BY <1>1
  DEF Kinds, Rests, Wastes, Submits, Restarts, ClearGeneration, Produces, Concludes, Drops,
      Admits, Discards, Delivers, Takes, Emits, always
<1>5. pendingCopyBytes \in Nat /\ MaxInflightBytes \in Nat
  <2>1. BytesOf(tasks) \in Nat
    BY AllNamed, BytesOfType DEF Shape
  <2> QED
    BY <2>1, <1>1, CapsAssumption DEF CopiesHonest, Estimate
<1>6. queueBytes' + pendingCopyBytes' <= MaxInflightBytes
  <2>1. CASE HeadRuns
    <3>1. /\ pendingCopyBytes' \in Nat /\ tasks[1].bytes \in Nat
          /\ pendingCopyBytes = pendingCopyBytes' + 2 * tasks[1].bytes
      BY <1>1, <2>1, HeadRunsBytes
    <3> DEFINE b == tasks[1].bytes
               d == pendingCopyBytes'
               p == queueBytes'
    <3>2. /\ b \in Nat /\ d \in Nat /\ p \in Nat /\ pendingCopyBytes = d + 2 * b
          /\ p <= queueBytes \/ p = queueBytes + b
      BY <1>3, <3>1
    <3>3. queueBytes \in Nat /\ queueBytes + pendingCopyBytes <= MaxInflightBytes
      BY <1>1, <1>3
    <3> HIDE DEF b, d, p
    <3>4. p + d <= MaxInflightBytes
      BY <3>2, <3>3, <1>5, ChargeOnce
    <3> QED
      BY <3>4 DEF p, d
  <2>2. CASE pendingCopyBytes' = pendingCopyBytes /\ ~Delivers
    <3>1. queueBytes' <= queueBytes /\ queueBytes \in Nat /\ queueBytes' \in Nat
      BY <2>2, <1>3
    <3> DEFINE p == queueBytes'
               c == pendingCopyBytes
    <3>2. p <= queueBytes /\ p \in Nat /\ queueBytes \in Nat /\ c \in Nat
          /\ MaxInflightBytes \in Nat /\ queueBytes + c <= MaxInflightBytes
      BY <3>1, <1>1, <1>5
    <3> HIDE DEF p, c
    <3>3. p + c <= MaxInflightBytes
      BY <3>2
    <3> QED
      BY <3>3, <2>2 DEF p, c
  <2>3. ASSUME NEW bytes \in Nat, NEW r \in pendingOutputs, Admits(bytes, r)
        PROVE  queueBytes' + pendingCopyBytes' <= MaxInflightBytes
    <3>1. /\ queueBytes' = queueBytes /\ pendingCopyBytes' = pendingCopyBytes + 2 * bytes
          /\ ~(queueBytes + pendingCopyBytes + 2 * bytes > MaxInflightBytes)
      BY <2>3 DEF Admits, DataTooLarge, Estimate
    <3> QED
      BY <3>1, <1>3, <1>5
  <2>4. Delivers => HeadRuns
    BY DEF Delivers
  <2>5. \/ HeadRuns \/ pendingCopyBytes' = pendingCopyBytes
        \/ \E bytes \in Nat : \E r \in pendingOutputs : Admits(bytes, r)
    BY DEF Kinds, Rests, Wastes, Submits, Restarts, Produces, Concludes, Drops, Discards,
           Delivers, Takes, Emits, running, TasksStand
  <2> QED
    BY <2>1, <2>2, <2>3, <2>4, <2>5
<1> QED
  BY <1>2, <1>3, <1>4, <1>6, HonestParts DEF BudgetInv

-----------------------------------------------------------------------------
(* The end of the stream                                                     *)

BrowserEmpty == inputQ = <<>> /\ held = {} /\ outputs = <<>>

\* reset() on an empty browser decoder, or any.
LEMMA JsResetEmpties ==
  ASSUME JsReset, outputs' = outputs
  PROVE  BrowserEmpty => BrowserEmpty'
BY DEF JsReset, JsAbandon, codecVars, BrowserEmpty

\* The steps that neither begin nor end a flush.
LEMMA FlushKept ==
  ASSUME FlushInv, UNCHANGED <<flushP, eof>>, BrowserEmpty => BrowserEmpty',
         pendingOutputs' \subseteq pendingOutputs,
         client' = client \/ flushP = "none"
  PROVE  FlushInv'
BY DEF FlushInv, BrowserEmpty

\* A fatal close rejects a pending promise and leaves the others alone.
LEMMA FlushCloses ==
  ASSUME FlushInv, NEW kind, FatalClose(kind), UNCHANGED eof,
         outputs' = outputs \/ outputs # <<>>,
         client' = client \/ flushP = "none"
  PROVE  FlushInv'
<1>1. JsReset /\ JsRejectFlush /\ pendingOutputs' = {}
  BY DEF FatalClose, RecordClose, ClearGeneration
<1>2. (flushP' # "none" <=> flushP # "none") /\ (flushP' = "resolved" <=> flushP = "resolved")
  BY <1>1 DEF JsRejectFlush
<1>3. outputs' = outputs => (BrowserEmpty => BrowserEmpty')
  BY <1>1, JsResetEmpties
<1>4. BrowserEmpty => outputs = <<>>
  BY DEF BrowserEmpty
<1> QED
  BY <1>1, <1>2, <1>3, <1>4 DEF FlushInv, BrowserEmpty

LEMMA FlushStep ==
  ASSUME FlushInv, [Next]_vars
  PROVE  FlushInv'
<1>1. CASE SendPacket \/ SendCancelled
  <2>1. client \in {"idle", "send"} /\ flushP = "none"
    BY <1>1
    DEF SendPacket, SendCancelled, SendRefused, SendMustDrain, SendParks, SendRuns, SendMalformed,
        SendClosesOnInput, SendThrows, SendClosesOnRecords, SendAccepted, SpendId,
        HasRoom, FlushInv
  <2>2. CASE \/ SendRefused \/ SendMustDrain \/ SendCancelled
             \/ \E bytes \in PacketBytes[nextSubmissionId] : SendMalformed(bytes)
    BY <2>1, <2>2, FlushKept
    DEF SendRefused, SendMustDrain, SendCancelled, SendMalformed, SendLeaves, SendReturns,
        codecVars, recordVars, BrowserEmpty
  <2>3. CASE SendParks
    BY <2>1, <2>3, FlushKept DEF SendParks, jsVars, stateVars, recordVars, BrowserEmpty
  <2>4. CASE \E bytes \in PacketBytes[nextSubmissionId], built \in BOOLEAN : SendThrows(bytes, built)
    BY <2>1, <2>4, FlushKept DEF SendThrows, SendReturns, codecVars, recordVars, BrowserEmpty
  <2>5. CASE \E bytes \in PacketBytes[nextSubmissionId] :
               SendClosesOnRecords(bytes) \/ SendClosesOnInput(bytes)
    BY <2>1, <2>5, FlushCloses DEF SendClosesOnRecords, SendClosesOnInput, SendReturns
  <2>6. CASE \E bytes \in PacketBytes[nextSubmissionId] : SendAccepted(bytes)
    <3>1. ~eof
      BY <2>6 DEF SendAccepted, SpendId, HasRoom, Accepting
    <3> QED
      BY <2>6, <2>1, <3>1 DEF SendAccepted, SendReturns, JsDecode, FlushInv
  <2> QED
    BY <1>1, <2>2, <2>3, <2>4, <2>5, <2>6 DEF SendPacket
<1>2. CASE ReceiveFrame \/ ReceiveCancelled
  <2>1. client \in {"idle", "receive"} /\ flushP = "none"
    BY <1>2
    DEF ReceiveFrame, ReceiveCancelled, ReceiveClosed, ReceiveProduced, ReceiveDry,
        ReceiveParks, ReceiveRuns, FlushInv
  <2> QED
    BY <1>2, <2>1, FlushKept
    DEF ReceiveFrame, ReceiveCancelled, ReceiveClosed, ReceiveProduced, ReceiveDry,
        ReceiveParks, ReceiveLeaves, ReceiveReturns, jsVars, stateVars, recordVars, BrowserEmpty
<1>3. CASE SendEof \/ EofCancelled
  <2>1. CASE EofClosed
    BY <2>1, FlushKept DEF EofClosed, jsVars, stateVars, recordVars, BrowserEmpty
  <2>2. CASE EofAwaits
    BY <2>2 DEF EofAwaits, JsFlush, codecVars, stateVars, recordVars, FlushInv
  <2>3. CASE EofCompletes
    BY <2>3 DEF EofCompletes, ClearPendingOutputs, codecVars, FlushInv
  <2>4. CASE EofRejected \/ EofCancelled
    <3>1. flushP' = "none" /\ pendingOutputs' = {}
      BY <2>4 DEF EofRejected, EofCancelled, EofGuardFires, BumpEpoch, ClearGeneration
    <3> QED
      BY <3>1 DEF FlushInv
  <2> QED
    BY <1>3, <2>1, <2>2, <2>3, <2>4 DEF SendEof
<1>4. CASE Flush \/ Drop
  <2>1. flushP = "none" /\ flushP' = "none" /\ pendingOutputs' = {}
    BY <1>4
    DEF Flush, FlushRebuilds, FlushFails, FlushBegins, Drop, BumpEpoch, ClearGeneration, FlushInv
  <2> QED
    BY <2>1 DEF FlushInv
<1>5. CASE OutputCallback \/ ErrorCallback \/ DequeueCallback
  <2>1. CASE \E id \in 0 .. MaxPackets : OutputOrphaned(id) \/ OutputIgnored(id)
    BY <2>1, FlushKept
    DEF OutputOrphaned, OutputIgnored, Handled, OutputOf, clientVars, stateVars, recordVars,
        BrowserEmpty
  <2>2. CASE \E id \in 0 .. MaxPackets : \E kind : OutputCloses(id, kind)
    BY <2>2, FlushCloses DEF OutputCloses, Handled, OutputOf, clientVars
  <2>3. CASE \E id \in 0 .. MaxPackets, bytes \in DataBytes : OutputAdmitted(id, bytes)
    <3>1. /\ outputs # <<>> /\ pendingOutputs' \subseteq pendingOutputs
          /\ UNCHANGED <<flushP, clientVars>>
      BY <2>3 DEF OutputAdmitted, Handled, OutputOf, RemovePendingOutput
    <3> QED
      BY <3>1, FlushKept DEF clientVars, BrowserEmpty
  <2>4. CASE ErrorCallback
    BY <2>4 DEF ErrorCallback, JsAbandon, JsRejectFlush, RecordClose, ClearGeneration, clientVars,
                FlushInv
  <2>5. CASE DequeueCallback
    BY <2>5, FlushKept DEF DequeueCallback, clientVars, stateVars, recordVars, BrowserEmpty
  <2> QED
    BY <1>5, <2>1, <2>2, <2>3, <2>4, <2>5 DEF OutputCallback, OutputUnmatched, OutputRefused
<1>6. CASE CopyTask
  <2>1. CASE CopyDiscarded \/ CopyDelivered
    BY <2>1, FlushKept
    DEF CopyDiscarded, CopyDelivered, TaskRuns, codecVars, clientVars, recordVars, BrowserEmpty
  <2>2. CASE CopyFails
    BY <2>2, FlushCloses DEF CopyFails, CopyCloses, TaskRuns, clientVars
  <2> QED
    BY <1>6, <2>1, <2>2 DEF CopyTask
<1>7. CASE CodecTakes
  BY <1>7, FlushKept
  DEF CodecTakes, JsDequeue, adapterVars, clientVars, stateVars, recordVars, BrowserEmpty
<1>8. CASE CodecEmits
  BY <1>8, FlushKept
  DEF CodecEmits, JsEmit, adapterVars, clientVars, stateVars, recordVars, BrowserEmpty
<1>9. CASE FlushSettles
  BY <1>9 DEF FlushSettles, JsFlushDone, adapterVars, clientVars, stateVars, recordVars, FlushInv
<1>10. CASE UNCHANGED vars
  BY <1>10, FlushKept DEF vars, jsVars, clientVars, stateVars, recordVars, BrowserEmpty
<1> QED
  BY <1>1, <1>2, <1>3, <1>4, <1>5, <1>6, <1>7, <1>8, <1>9, <1>10 DEF Next

-----------------------------------------------------------------------------
(* The invariant of the audio decoder                                        *)

AudioInv ==
  /\ Shape /\ IdsInv /\ LineInv /\ MatchInv /\ OwnInv
  /\ TasksInv /\ OutputOrder /\ FlushInv /\ BudgetInv

\* An opened decoder has nothing.
LEMMA AudioInvInit == Init => AudioInv
<1> SUFFICES ASSUME Init PROVE AudioInv
  OBVIOUS
<1>1. /\ queue = <<>> /\ queueBytes = 0 /\ lastError = NoError
      /\ pendingOutputs = {} /\ pendingInputBytes = 0
      /\ nextSubmissionId = 0 /\ pendingCopies = 0 /\ pendingCopyBytes = 0 /\ epoch = 0
      /\ pendingPushBytes = 0
      /\ inputQ = <<>> /\ held = {} /\ outputs = <<>> /\ flushP = "none"
      /\ slotFloor = 0 /\ tasks = <<>> /\ eof = FALSE
      /\ chunk = <<>> /\ split = {} /\ admitted = <<>> /\ delivered = <<>>
  BY DEF Init, StateInit, JsInit
<1>2. Len(<<>>) = 0 /\ Range(<<>>) = {} /\ 1 .. 0 = {}
  BY DEF Range
<1>3. InBrowser = {}
  BY <1>1, <1>2 DEF InBrowser
<1>4. Shape
  BY <1>1, NoneYet, FS_EmptySet DEF Shape
<1>5. IdsInv
  BY <1>1, <1>2, <1>3, AudioAssumption DEF IdsInv
<1>6. LineInv /\ OwnInv
  BY <1>1, <1>2 DEF LineInv, OwnInv
<1>7. MatchInv /\ FlushInv
  BY <1>1, <1>3 DEF MatchInv, FlushInv
<1>8. TasksInv
  BY <1>1, <1>2 DEF TasksInv
<1>9. OutputOrder
  <2>1. LiveTasks = <<>>
    <3>1. \E n : TurnsAt(tasks, epoch, n) /\ LiveTasks = IF IsClosed THEN <<>> ELSE After(tasks, n)
      BY <1>4, <1>8, LiveFact
    <3>2. \A n : TurnsAt(tasks, epoch, n) => n = Len(tasks)
      BY <1>1, <1>2 DEF TurnsAt
    <3>3. After(tasks, Len(tasks)) = <<>>
      BY <1>4, AfterLast DEF Shape
    <3> QED
      BY <3>1, <3>2, <3>3
  <2>2. Taken(<<>>) = <<>> /\ <<>> \o <<>> \o <<>> = <<>>
    BY DEF Taken
  <2> QED
    BY <1>1, <2>1, <2>2, IdsNone, OrderSays
<1>10. BudgetInv
  <2>1. MaxInflightBytes \in Nat /\ Estimate(0) = 0
    BY CapsAssumption DEF Estimate
  <2> QED
    BY <1>1, <1>2, <2>1, BytesOfNone, SumBytesEmpty DEF BudgetInv, CountersHonest
<1> QED
  BY <1>4, <1>5, <1>6, <1>7, <1>8, <1>9, <1>10 DEF AudioInv

LEMMA AudioInvStep == AudioInv /\ [Next]_vars => AudioInv'
<1> SUFFICES ASSUME AudioInv, [Next]_vars PROVE AudioInv'
  OBVIOUS
<1>1. /\ Shape /\ IdsInv /\ LineInv /\ MatchInv /\ OwnInv
      /\ TasksInv /\ OutputOrder /\ FlushInv /\ BudgetInv
  BY DEF AudioInv
<1>2. Kinds
  BY <1>1, EveryKind DEF BudgetInv
<1> QED
  BY <1>1, <1>2, ShapeStep, IdsStep, LineStep, MatchStep, OwnStep, TasksStep, OrderStep, FlushStep,
     BudgetStep DEF AudioInv

LEMMA AudioInvHolds == Spec => []AudioInv
BY AudioInvInit, AudioInvStep, PTL DEF Spec

\* The byte budget follows from the accounts: a live task's frame is at most
\* what all of them reserved.
LEMMA BudgetKept == AudioInv => ByteBudget
<1> SUFFICES ASSUME AudioInv PROVE ByteBudget
  OBVIOUS
<1>1. Shape /\ TasksInv /\ CountersHonest /\ pendingPushBytes = 0
      /\ queueBytes + pendingCopyBytes <= MaxInflightBytes
  BY DEF AudioInv, BudgetInv
<1>2. tasks \in Seq(Task) /\ queue \in Seq(Frame) /\ Weighed(Task) /\ Weighed(Frame)
  BY <1>1, AllNamed DEF Shape
<1>3. /\ queueBytes \in Nat /\ BytesOf(tasks) \in Nat /\ pendingCopyBytes = 2 * BytesOf(tasks)
      /\ MaxInflightBytes \in Nat
  BY <1>1, <1>2, BytesOfType, CapsAssumption DEF CountersHonest, Estimate
<1>4. PinnedBytes <= MaxInflightBytes
  BY <1>1, <1>3 DEF PinnedBytes
<1>5. ASSUME NEW i \in DOMAIN LiveTasks
      PROVE  ~OverBudgetAtCompletion(LiveTasks[i])
  <2>1. PICK n : TurnsAt(tasks, epoch, n)
                 /\ LiveTasks = IF IsClosed THEN <<>> ELSE After(tasks, n)
    BY <1>1, LiveFact
  <2>2. ~IsClosed /\ LiveTasks = After(tasks, n)
    BY <2>1
  <2>3. /\ n \in 0 .. Len(tasks) /\ Len(tasks) \in Nat
        /\ After(tasks, n) \in Seq(Task) /\ Len(After(tasks, n)) = Len(tasks) - n
        /\ \A k \in 1 .. Len(tasks) - n : After(tasks, n)[k] = tasks[n + k]
    <3>1. n \in 0 .. Len(tasks) /\ Len(tasks) \in Nat
      BY <2>1, <1>2 DEF TurnsAt
    <3> QED
      BY <3>1, <1>2, AfterFact
  <2>4. i \in 1 .. Len(tasks) - n
    BY <2>2, <2>3
  <2>5. n + i \in 1 .. Len(tasks)
    BY <2>3, <2>4
  <2>6. LiveTasks[i] = tasks[n + i]
    BY <2>2, <2>3, <2>4
  <2> DEFINE k == n + i
  <2>7. tasks[k].bytes \in Nat /\ tasks[k].bytes <= BytesOf(tasks)
    <3>1. k \in 1 .. Len(tasks)
      BY <2>5
    <3> HIDE DEF k
    <3> QED
      BY <3>1, <1>2, BytesOfMember
  <2> DEFINE b == LiveTasks[i].bytes
             all == BytesOf(tasks)
  <2>8. b \in Nat /\ b <= all /\ all \in Nat /\ pendingCopyBytes = 2 * all
    BY <2>6, <2>7, <1>3
  <2> HIDE DEF b, all
  <2>9. ~(queueBytes + b > MaxInflightBytes)
    BY <2>8, <1>1, <1>3
  <2> QED
    BY <2>9 DEF OverBudgetAtCompletion, b
<1> QED
  BY <1>1, <1>4, <1>5 DEF ByteBudget

\* What is held belongs to the packet it came from and is paid for while held.
THEOREM AudioOutputsAccounted == Spec => []OutputsAccounted
<1>1. AudioInv => OutputsAccounted
  <2> SUFFICES ASSUME AudioInv PROVE OutputsAccounted
    OBVIOUS
  <2>1. admitted \in Seq(Admission) /\ OwnInv /\ OutputOrder
    BY DEF AudioInv, Shape
  <2>2. \A i \in DOMAIN admitted : admitted[i].output = admitted[i].record
    BY <2>1 DEF OwnInv
  <2> QED
    BY <2>1, <2>2, BudgetKept DEF OutputsAccounted, OwnRecord
<1> QED
  BY <1>1, AudioInvHolds, PTL

-----------------------------------------------------------------------------
(* The push rhythm                                                           *)

\* Some record waits for the id, and its output will find a handler.
Awaited(id) == id >= slotFloor /\ \E r \in pendingOutputs : r.id = id

\* The ids that are fed, before and after a step.
LEMMA FedIdsAre ==
  /\ FedIds = {id \in InBrowser : Awaited(id)} \cup Range(Ids(LiveTasks)) \cup Range(Ids(queue))
  /\ FedIds' = {id \in InBrowser' : Awaited(id)'}
                 \cup Range(Ids(LiveTasks')) \cup Range(Ids(queue'))
BY DEF FedIds, InBrowser, Awaited, Ids

LEMMA LiveStands ==
  ASSUME UNCHANGED <<tasks, epoch, lastError>>
  PROVE  LiveTasks' = LiveTasks
BY DEF LiveTasks, StaleTasks, IsClosed

\* A call that only answers.
LEMMA FedSame ==
  ASSUME UNCHANGED <<queue, lastError, epoch, tasks, pendingOutputs, slotFloor,
                     inputQ, held, outputs>>
  PROVE  FedIds' = FedIds
<1>1. \A id : Awaited(id)' <=> Awaited(id)
  BY DEF Awaited
<1>2. LiveTasks' = LiveTasks /\ InBrowser' = InBrowser
  BY LiveStands DEF InBrowser
<1> QED
  BY <1>1, <1>2, FedIdsAre

\* What is fed when nothing is buffered.
LEMMA FedNothing ==
  ASSUME LiveTasks' = <<>>, queue' = <<>>, pendingOutputs' = {}
  PROVE  FedIds' = {}
<1>1. Range(Ids(<<>>)) = {}
  BY IdsNone DEF Range
<1>2. \A id : ~Awaited(id)'
  BY DEF Awaited
<1> QED
  BY <1>1, <1>2, FedIdsAre

\* A close.
LEMMA FedCloses ==
  ASSUME IsClosed', ClearGeneration
  PROVE  FedIds' = {}
BY FedNothing DEF ClearGeneration, LiveTasks

\* A new generation.
LEMMA FedRestarts ==
  ASSUME Shape, TasksInv, Restarts
  PROVE  FedIds' = {}
BY FedNothing, RestartsLive DEF Restarts, ClearGeneration

\* A step that feeds nothing.
LEMMA FedShrinks ==
  ASSUME InBrowser' \subseteq InBrowser, pendingOutputs' \subseteq pendingOutputs,
         slotFloor' = slotFloor,
         Range(Ids(LiveTasks')) \cup Range(Ids(queue')) \subseteq FedIds
  PROVE  FedIds' \subseteq FedIds
<1>1. \A id : Awaited(id)' => Awaited(id)
  BY DEF Awaited
<1> QED
  BY <1>1, FedIdsAre

\* Nothing is in the browser when the promise flush() gave is kept.
LEMMA FedConcludes ==
  ASSUME FlushInv, Concludes
  PROVE  FedIds' = FedIds
<1>1. inputQ = <<>> /\ held = {} /\ outputs = <<>> /\ UNCHANGED <<inputQ, held, outputs>>
  BY DEF Concludes, FlushInv, line
<1>2. InBrowser = {} /\ InBrowser' = {}
  BY <1>1 DEF InBrowser, Range
<1>3. LiveTasks' = LiveTasks /\ queue' = queue
  BY LiveStands DEF Concludes, running, stock
<1> QED
  BY <1>2, <1>3, FedIdsAre

\* An admitted output was fed, and is now a live task.
LEMMA FedAdmits ==
  ASSUME AudioInv, Kinds, NEW bytes \in Nat, NEW r \in pendingOutputs, Admits(bytes, r)
  PROVE  Range(Ids(LiveTasks')) \subseteq FedIds
<1>1. Shape /\ IdsInv /\ LineInv /\ MatchInv /\ TasksInv
  BY DEF AudioInv
<1> DEFINE t == [id |-> r.id, epoch |-> epoch, bytes |-> bytes]
<1>2. t \in Task /\ LiveTasks' = Append(LiveTasks, t) /\ t.id = r.id
  BY <1>1, LiveAdmits
<1> HIDE DEF t
<1>3. LiveTasks \in Seq(Task) /\ Ids(LiveTasks) \in Seq(Nat) /\ r.id \in Nat
  BY <1>1, LiveFact, AllNamed, IdsType DEF Shape, Record
<1>4. Ids(LiveTasks') = Append(Ids(LiveTasks), r.id)
  BY <1>2, <1>3, AllNamed, IdsAppend
<1>5. Range(Ids(LiveTasks')) = Range(Ids(LiveTasks)) \cup {r.id}
  <2> DEFINE b == Ids(LiveTasks)
             y == r.id
  <2>1. b \in Seq(Nat) /\ y \in Nat
    BY <1>3
  <2> HIDE DEF b, y
  <2>2. Range(Append(b, y)) = Range(b) \cup {y}
    BY <2>1, RangeOfAppend
  <2> QED
    BY <2>2, <1>4 DEF b, y
<1>6. r.id = Head(outputs)
  BY <1>1, OldestIsOwn
<1>7. outputs # <<>> /\ Head(outputs) >= slotFloor
  BY DEF Admits
<1>8. Head(outputs) \in InBrowser
  <2>1. Range(outputs) = {Head(outputs)} \cup Range(Tail(outputs))
    BY <1>1, <1>7, RangeOfTail DEF Shape
  <2> QED
    BY <2>1 DEF InBrowser
<1>9. Awaited(r.id)
  BY <1>6, <1>7 DEF Awaited
<1> QED
  BY <1>5, <1>6, <1>8, <1>9, FedIdsAre

\* The frame of a live task goes to the queue.
LEMMA FedDelivers ==
  ASSUME AudioInv, Kinds, Delivers
  PROVE  Range(Ids(LiveTasks')) \cup Range(Ids(queue')) \subseteq FedIds
<1>1. Shape /\ TasksInv
  BY DEF AudioInv
<1>2. LiveTasks = tasks /\ LiveTasks' = tasks'
  BY <1>1, LiveDelivers
<1> DEFINE x == [id |-> tasks[1].id, bytes |-> tasks[1].bytes]
<1>3. tasks # <<>> /\ tasks' = Tail(tasks) /\ queue' = Append(queue, x)
  BY DEF Delivers, HeadRuns
<1>4. tasks \in Seq(Task) /\ queue \in Seq(Frame) /\ tasks[1] \in Task /\ Head(tasks) = tasks[1]
  BY <1>1, <1>3 DEF Shape
<1>5. x \in Frame /\ x.id = Head(tasks).id /\ x.id \in Nat
  BY <1>4 DEF Task, Frame
<1> HIDE DEF x
<1>6. /\ Ids(tasks) # <<>> /\ Head(Ids(tasks)) = x.id /\ Tail(Ids(tasks)) = Ids(tasks')
      /\ Ids(tasks) \in Seq(Nat)
  BY <1>3, <1>4, <1>5, AllNamed, IdsPop
<1>7. Range(Ids(tasks)) = {x.id} \cup Range(Ids(tasks'))
  BY <1>6, RangeOfTail
<1>8. Ids(queue') = Append(Ids(queue), x.id) /\ Ids(queue) \in Seq(Nat)
  BY <1>3, <1>4, <1>5, AllNamed, IdsAppend, IdsType
<1>9. Range(Ids(queue')) = Range(Ids(queue)) \cup {x.id}
  <2> DEFINE b == Ids(queue)
             y == x.id
  <2>1. b \in Seq(Nat) /\ y \in Nat
    BY <1>5, <1>8
  <2> HIDE DEF b, y
  <2>2. Range(Append(b, y)) = Range(b) \cup {y}
    BY <2>1, RangeOfAppend
  <2> QED
    BY <2>2, <1>8 DEF b, y
<1> QED
  BY <1>2, <1>7, <1>9, FedIdsAre

\* Three runs in a row.
LEMMA ThreeRuns ==
  ASSUME NEW d \in Seq(Nat), NEW q \in Seq(Nat), NEW l \in Seq(Nat)
  PROVE  /\ Len(d \o q \o l) = Len(d) + Len(q) + Len(l)
         /\ \A k \in 1 .. Len(d) + Len(q) + Len(l) :
              (d \o q \o l)[k] = IF k <= Len(d) + Len(q)
                                THEN IF k <= Len(d) THEN d[k] ELSE q[k - Len(d)]
                                ELSE l[k - (Len(d) + Len(q))]
<1> DEFINE e == d \o q
<1>1. /\ e \in Seq(Nat) /\ Len(e) = Len(d) + Len(q)
      /\ \A k \in 1 .. Len(d) + Len(q) : e[k] = IF k <= Len(d) THEN d[k] ELSE q[k - Len(d)]
  BY ConcatProperties
<1> HIDE DEF e
<1>2. /\ Len(e \o l) = Len(e) + Len(l)
      /\ \A k \in 1 .. Len(e) + Len(l) :
           (e \o l)[k] = IF k <= Len(e) THEN e[k] ELSE l[k - Len(e)]
  <2>1. e \in Seq(Nat) /\ l \in Seq(Nat)
    BY <1>1
  <2> QED
    BY <2>1, ConcatProperties
<1>3. Len(d) \in Nat /\ Len(q) \in Nat /\ Len(l) \in Nat
  OBVIOUS
<1> DEFINE m == Len(d) + Len(q)
<1>4. m \in Nat /\ Len(e) = m /\ \A k \in 1 .. m + Len(l) : k <= m => k \in 1 .. m
  BY <1>1, <1>3
<1> HIDE DEF m
<1>5. \A k \in 1 .. m : e[k] = IF k <= Len(d) THEN d[k] ELSE q[k - Len(d)]
  BY <1>1 DEF m
<1>6. /\ Len(e \o l) = m + Len(l)
      /\ \A k \in 1 .. m + Len(l) :
           (e \o l)[k] = IF k <= m THEN IF k <= Len(d) THEN d[k] ELSE q[k - Len(d)]
                        ELSE l[k - m]
  BY <1>2, <1>4, <1>5
<1> QED
  BY <1>6 DEF e, m

NoTwoEqual(w) == \A i, j \in 1 .. Len(w) : w[i] = w[j] => i = j

\* The first of a run of distinct elements is not among the others.
LEMMA HeadOnce ==
  ASSUME NEW d \in Seq(Nat), NEW q \in Seq(Nat), NEW l \in Seq(Nat), q # <<>>,
         NoTwoEqual(d \o q \o l)
  PROVE  /\ \E k \in 1 .. Len(d \o q \o l) : (d \o q \o l)[k] = Head(q)
         /\ Head(q) \notin Range(Tail(q)) \cup Range(l)
<1> DEFINE m == Len(d)
           n == Len(q)
           w == d \o q \o l
<1>1. /\ m \in Nat /\ n \in Nat \ {0} /\ Len(l) \in Nat /\ Head(q) = q[1]
      /\ Tail(q) \in Seq(Nat) /\ Len(Tail(q)) = n - 1
      /\ \A k \in 1 .. n - 1 : Tail(q)[k] = q[k + 1]
  BY TailFact
<1>2. /\ Len(w) = m + n + Len(l)
      /\ \A k \in 1 .. m + n + Len(l) :
           w[k] = IF k <= m + n THEN IF k <= m THEN d[k] ELSE q[k - m] ELSE l[k - (m + n)]
  BY ThreeRuns
<1>3. NoTwoEqual(w)
  OBVIOUS
<1> HIDE DEF m, n, w
<1>4. \A i, j \in 1 .. Len(w) : w[i] = w[j] => i = j
  BY <1>3 DEF NoTwoEqual
<1>5. ASSUME NEW k \in 1 .. n
      PROVE  m + k \in 1 .. Len(w) /\ w[m + k] = q[k]
  <2> DEFINE j == m + k
  <2>1. /\ j \in 1 .. m + n /\ j \in 1 .. m + n + Len(l) /\ j <= m + n
        /\ ~(j <= m) /\ j - m = k
    BY <1>1
  <2> HIDE DEF j
  <2>2. j \in 1 .. Len(w) /\ w[j] = q[k]
    BY <2>1, <1>2
  <2> QED
    BY <2>2 DEF j
<1>6. ASSUME NEW k \in 1 .. Len(l)
      PROVE  m + n + k \in 1 .. Len(w) /\ w[m + n + k] = l[k]
  <2> DEFINE j == m + n + k
  <2>1. j \in 1 .. m + n + Len(l) /\ ~(j <= m + n) /\ j - (m + n) = k
    BY <1>1
  <2> HIDE DEF j
  <2>2. j \in 1 .. Len(w) /\ w[j] = l[k]
    BY <2>1, <1>2
  <2> QED
    BY <2>2 DEF j
<1>7. 1 \in 1 .. n
  BY <1>1
<1>8. m + 1 \in 1 .. Len(w) /\ w[m + 1] = Head(q)
  BY <1>1, <1>5, <1>7
<1>9. ASSUME NEW k \in 1 .. n - 1
      PROVE  Tail(q)[k] # Head(q)
  <2>1. k + 1 \in 1 .. n /\ m + (k + 1) # m + 1
    BY <1>1
  <2>2. m + (k + 1) \in 1 .. Len(w) /\ w[m + (k + 1)] = q[k + 1]
    BY <2>1, <1>5
  <2> QED
    BY <2>1, <2>2, <1>1, <1>4, <1>8
<1>10. ASSUME NEW k \in 1 .. Len(l)
       PROVE  l[k] # Head(q)
  <2>1. m + n + k # m + 1
    BY <1>1
  <2> QED
    BY <2>1, <1>4, <1>6, <1>8
<1>11. DOMAIN Tail(q) = 1 .. n - 1 /\ DOMAIN l = 1 .. Len(l)
  BY <1>1
<1>12. Head(q) \notin Range(Tail(q)) \cup Range(l)
  BY <1>9, <1>10, <1>11 DEF Range
<1> QED
  BY <1>8, <1>12 DEF w

\* The frame handed over was fed and is no longer.
LEMMA FedProduces ==
  ASSUME AudioInv, Produces
  PROVE  LET h == Head(queue).id
         IN  h \in 0 .. MaxPackets /\ h \in FedIds /\ FedIds' \subseteq FedIds \ {h}
<1> DEFINE h == Head(queue).id
<1>1. Shape /\ IdsInv /\ TasksInv /\ OutputOrder
  BY DEF AudioInv
<1>2. /\ queue # <<>> /\ queue' = Tail(queue)
      /\ UNCHANGED <<tasks, epoch, lastError, pendingOutputs, slotFloor, inputQ, held, outputs>>
  BY DEF Produces, PopQueue, running, recordVars, numbering, line
<1>3. /\ queue \in Seq(Frame) /\ LiveTasks \in Seq(Task) /\ admitted \in Seq(Admission)
      /\ delivered \in Seq(Nat) /\ Len(admitted) \in Nat
      /\ Ids(LiveTasks) \in Seq(Nat)
  BY <1>1, LiveFact, AllNamed, IdsType DEF Shape
<1>4. /\ Ids(queue) \in Seq(Nat) /\ Ids(queue) # <<>> /\ Head(Ids(queue)) = h
      /\ Tail(Ids(queue)) = Ids(queue')
  BY <1>2, <1>3, AllNamed, IdsPop
<1> HIDE DEF h
<1> DEFINE w == Taken(admitted)
<1>5. w = delivered \o Ids(queue) \o Ids(LiveTasks)
  BY <1>1, OrderSays
<1>6. Len(w) = Len(admitted) /\ \A k \in 1 .. Len(admitted) : w[k] = admitted[k].record
  BY <1>3, TakenFact
<1> HIDE DEF w
<1>7. /\ \A i \in 1 .. Len(admitted) :
           /\ admitted[i].record < nextSubmissionId
           /\ \A r \in pendingOutputs : r.id # admitted[i].record
      /\ \A i, j \in 1 .. Len(admitted) : admitted[i].record = admitted[j].record => i = j
  BY <1>1 DEF IdsInv
<1>8. NoTwoEqual(w)
  BY <1>6, <1>7 DEF NoTwoEqual
<1>9. /\ \E k \in 1 .. Len(w) : w[k] = h
      /\ h \notin Range(Ids(queue')) \cup Range(Ids(LiveTasks))
  <2> DEFINE b == Ids(queue)
             l == Ids(LiveTasks)
  <2>1. b \in Seq(Nat) /\ l \in Seq(Nat) /\ delivered \in Seq(Nat) /\ b # <<>>
    BY <1>3, <1>4
  <2>2. w = delivered \o b \o l
    BY <1>5
  <2> HIDE DEF b, l
  <2>3. NoTwoEqual(delivered \o b \o l)
    BY <2>2, <1>8
  <2>4. /\ \E k \in 1 .. Len(delivered \o b \o l) : (delivered \o b \o l)[k] = Head(b)
        /\ Head(b) \notin Range(Tail(b)) \cup Range(l)
    BY <2>1, <2>3, HeadOnce
  <2> QED
    BY <2>2, <2>4, <1>4 DEF b, l
<1>10. h < nextSubmissionId /\ ~Awaited(h)
  BY <1>6, <1>7, <1>9 DEF Awaited
<1>11. h \in 0 .. MaxPackets
  <2>1. h \in Nat
    BY <1>4
  <2>2. nextSubmissionId \in Nat /\ nextSubmissionId <= MaxPackets /\ MaxPackets \in Nat
    BY <1>1, AudioAssumption DEF Shape, IdsInv
  <2> QED
    BY <2>1, <2>2, <1>10
<1>12. Range(Ids(queue)) = {h} \cup Range(Ids(queue'))
  BY <1>4, RangeOfTail
<1>13. LiveTasks' = LiveTasks /\ InBrowser' = InBrowser /\ \A id : Awaited(id)' <=> Awaited(id)
  BY <1>2, LiveStands DEF InBrowser, Awaited
<1>14. h \in FedIds /\ FedIds' \subseteq FedIds \ {h}
  BY <1>9, <1>10, <1>12, <1>13, FedIdsAre
<1> QED
  BY <1>11, <1>14 DEF h

\* send_packet feeds the chunk it submits and nothing else.
LEMMA FedSubmits ==
  ASSUME Shape, Kinds, NEW bytes \in Nat, Submits(bytes)
  PROVE  FedIds' \subseteq FedIds \cup {nextSubmissionId}
<1>1. LiveTasks' = LiveTasks /\ queue' = queue /\ slotFloor' = slotFloor
  BY LiveStands DEF Submits, Spends, running, stock
<1>2. InBrowser' \subseteq InBrowser \cup {nextSubmissionId}
  <2>1. inputQ \in Seq(Nat) /\ nextSubmissionId \in Nat /\ inputQ' = Append(inputQ, nextSubmissionId)
    BY DEF Submits, Shape
  <2>2. Range(inputQ') = Range(inputQ) \cup {nextSubmissionId}
    BY <2>1, RangeOfAppend
  <2> QED
    BY <2>2 DEF Submits, InBrowser
<1> DEFINE n == [id |-> nextSubmissionId, epoch |-> epoch, bytes |-> bytes]
<1>3. pendingOutputs' = pendingOutputs \cup {n} /\ n.id = nextSubmissionId
  BY DEF Submits, InsertPendingOutput
<1> HIDE DEF n
<1>4. \A id : Awaited(id)' => Awaited(id) \/ id = nextSubmissionId
  BY <1>1, <1>3 DEF Awaited
<1> QED
  BY <1>1, <1>2, <1>4, FedIdsAre

\* Every other kind of step feeds nothing.
LEMMA FedKinds ==
  ASSUME AudioInv, Kinds, ~Restarts, \A bytes \in Nat : ~Submits(bytes)
  PROVE  FedIds' \subseteq FedIds
<1>1. Shape /\ IdsInv /\ TasksInv
  BY DEF AudioInv
<1>2. InBrowser' \subseteq InBrowser /\ pendingOutputs' \subseteq pendingOutputs
  BY <1>1, BrowserGains, RecordsStep
<1>3. slotFloor' = slotFloor
  BY DEF Kinds, Rests, Wastes, Produces, Concludes, Drops, Discards, Delivers, Takes, Admits,
         Emits, numbering, Spends
<1>4. Range(Ids(LiveTasks)) \cup Range(Ids(queue)) \subseteq FedIds
  BY FedIdsAre
<1>5. CASE \/ Rests \/ Wastes \/ Concludes \/ Drops \/ Takes
           \/ \E id \in held, frames \in 0 .. 2 : Emits(id, frames)
  <2>1. UNCHANGED <<queue, tasks, epoch, lastError>>
    BY <1>5 DEF Rests, Wastes, Concludes, Drops, Takes, Emits, stock, running
  <2>2. LiveTasks' = LiveTasks
    BY <2>1, LiveStands
  <2> QED
    BY <2>1, <2>2, <1>2, <1>3, <1>4, FedShrinks
<1>6. CASE Produces
  BY <1>6, FedProduces
<1>7. CASE \E bytes \in Nat : \E r \in pendingOutputs : Admits(bytes, r)
  <2>1. queue' = queue
    BY <1>7 DEF Admits
  <2>2. Range(Ids(LiveTasks')) \subseteq FedIds
    BY <1>7, FedAdmits
  <2> QED
    BY <2>1, <2>2, <1>2, <1>3, <1>4, FedShrinks
<1>8. CASE Discards
  <2>1. queue' = queue /\ LiveTasks' = LiveTasks
    BY <1>1, <1>8, LiveDiscards DEF Discards, stock
  <2> QED
    BY <2>1, <1>2, <1>3, <1>4, FedShrinks
<1>9. CASE Delivers
  BY <1>2, <1>3, <1>9, FedDelivers, FedShrinks
<1> QED
  BY <1>5, <1>6, <1>7, <1>8, <1>9 DEF Kinds

\* A step of the push rhythm, or none of its.
RhythmStep == Rhythm!RhythmNext \/ UNCHANGED Rhythm!rhythmVars

\* What happens inside the session between two answers.
LEMMA QuietStep ==
  ASSUME FedIds' \subseteq FedIds, UNCHANGED <<eof, answer>>, IsClosed' = IsClosed
  PROVE  RhythmStep
BY DEF RhythmStep, Rhythm!RhythmNext, Rhythm!DecodeToNothing, Rhythm!AtMost

\* An answer that changes nothing else.
LEMMA AnswerStep ==
  ASSUME FedIds' = FedIds, UNCHANGED eof, IsClosed' = IsClosed,
         \/ answer' = "closed" /\ IsClosed
         \/ answer' = "afterEof" /\ eof /\ ~IsClosed
         \/ answer' \in {"cancelled", "failed"}
         \/ answer' \in {"mustDrain", "needsInput"} /\ ~IsClosed /\ ~eof
         \/ answer' = "ended" /\ ~IsClosed /\ eof /\ FedIds = {}
  PROVE  RhythmStep
BY DEF RhythmStep, Rhythm!RhythmNext, Rhythm!AnswerOnly, Rhythm!AskToDrain,
       Rhythm!AskForInput, Rhythm!AnswerEnded, Rhythm!AtMost

\* A close takes everything fed with it.
LEMMA FaultStep ==
  ASSUME IsClosed', ClearGeneration, UNCHANGED eof,
         answer' \in {answer, "closed", "failed", "cancelled"}
  PROVE  RhythmStep
BY FedCloses DEF RhythmStep, Rhythm!RhythmNext, Rhythm!Fault

\* Between two answers the session moves or drops what is fed, or faults.
LEMMA QuietKinds ==
  ASSUME AudioInv, Kinds, UNCHANGED <<eof, answer, epoch, nextSubmissionId>>
  PROVE  RhythmStep
<1>1. epoch \in Nat /\ nextSubmissionId \in Nat
  BY DEF AudioInv, Shape
<1>2. CASE Restarts
  <2>1. IsClosed' /\ ClearGeneration
    BY <1>1, <1>2 DEF Restarts
  <2> QED
    BY <2>1, FaultStep
<1>3. CASE ~Restarts
  <2>1. \A bytes \in Nat : ~Submits(bytes)
    BY <1>1 DEF Submits, Spends
  <2>2. FedIds' \subseteq FedIds
    BY <2>1, <1>3, FedKinds
  <2>3. IsClosed' = IsClosed
    <3>1. UNCHANGED lastError
      BY <1>3, <2>1
      DEF Kinds, Rests, Wastes, Produces, Concludes, Drops, Discards, Delivers, Takes, Admits,
          Emits
    <3> QED
      BY <3>1 DEF IsClosed
  <2> QED
    BY <2>2, <2>3, QuietStep
<1> QED
  BY <1>2, <1>3

\* The steps between two answers.
LEMMA RhythmQuiet ==
  ASSUME AudioInv, Kinds,
         \/ SendParks \/ ReceiveParks \/ EofAwaits
         \/ OutputCallback \/ ErrorCallback \/ DequeueCallback \/ CopyTask
         \/ CodecTakes \/ CodecEmits \/ FlushSettles \/ UNCHANGED vars
  PROVE  RhythmStep
<1>1. CASE SendParks \/ ReceiveParks \/ EofAwaits
  BY <1>1, QuietKinds DEF SendParks, ReceiveParks, EofAwaits, stateVars, idVars
<1>2. CASE OutputCallback \/ ErrorCallback \/ DequeueCallback
  <2>1. CASE \E id : OutputOrphaned(id) \/ OutputIgnored(id)
    BY <2>1, QuietKinds DEF OutputOrphaned, OutputIgnored, stateVars, idVars, clientVars
  <2>2. CASE \E id, kind : OutputCloses(id, kind)
    BY <2>2, QuietKinds DEF OutputCloses, idVars, clientVars
  <2>3. CASE \E id : \E bytes \in DataBytes : OutputAdmitted(id, bytes)
    BY <2>3, QuietKinds DEF OutputAdmitted, idVars, clientVars
  <2>4. CASE ErrorCallback \/ DequeueCallback
    BY <2>4, QuietKinds DEF ErrorCallback, DequeueCallback, stateVars, idVars, clientVars
  <2> QED
    BY <1>2, <2>1, <2>2, <2>3, <2>4 DEF OutputCallback, OutputUnmatched, OutputRefused
<1>3. CASE CopyTask
  BY <1>3, QuietKinds
  DEF CopyTask, CopyDiscarded, CopyFails, CopyCloses, CopyDelivered, TaskRuns, idVars, clientVars
<1>4. CASE CodecTakes \/ CodecEmits \/ FlushSettles \/ UNCHANGED vars
  BY <1>4, QuietKinds
  DEF CodecTakes, CodecEmits, FlushSettles, adapterVars, vars, stateVars, idVars, clientVars
<1> QED
  BY <1>1, <1>2, <1>3, <1>4

\* send_packet accepts at most its own packet, and asks to drain only before
\* the end.
LEMMA RhythmSend ==
  ASSUME AudioInv, Kinds, SendPacket \/ SendCancelled
  PROVE  RhythmStep
<1>1. ASSUME NEW a, SendLeaves(a)
      PROVE  FedIds' = FedIds /\ UNCHANGED eof /\ IsClosed' = IsClosed /\ answer' = a
  BY <1>1, FedSame
  DEF SendLeaves, SendReturns, codecVars, queueVars, recordVars, IsClosed
<1>2. CASE \/ SendRefused \/ SendMustDrain \/ SendCancelled
           \/ \E bytes \in PacketBytes[nextSubmissionId] : SendMalformed(bytes)
  BY <1>2, <1>1, AnswerStep DEF SendRefused, SendMustDrain, SendCancelled, SendMalformed, Accepting
<1>3. CASE \E bytes \in PacketBytes[nextSubmissionId], built \in BOOLEAN : SendThrows(bytes, built)
  <2>1. /\ FedIds' = FedIds /\ UNCHANGED eof /\ IsClosed' = IsClosed
        /\ answer' = "failed"
    BY <1>3, FedSame
    DEF SendThrows, SendReturns, codecVars, queueVars, recordVars, IsClosed
  <2> QED
    BY <2>1, AnswerStep
<1>4. CASE \E bytes \in PacketBytes[nextSubmissionId] :
             SendClosesOnRecords(bytes) \/ SendClosesOnInput(bytes)
  <2>1. PICK kind \in ErrorKinds : FatalClose(kind)
    BY <1>4 DEF SendClosesOnRecords, SendClosesOnInput, ErrorKinds
  <2>2. IsClosed' /\ ClearGeneration
    BY <2>1, ClosingCloses DEF FatalClose
  <2>3. UNCHANGED eof /\ answer' = "closed"
    BY <1>4 DEF SendClosesOnRecords, SendClosesOnInput, SendReturns
  <2> QED
    BY <2>2, <2>3, FaultStep
<1>5. ASSUME NEW bytes \in PacketBytes[nextSubmissionId], SendAccepted(bytes)
      PROVE  RhythmStep
  <2>1. /\ ~IsClosed /\ ~eof /\ nextSubmissionId < MaxPackets
        /\ answer' = "accepted" /\ UNCHANGED <<eof, lastError>>
    BY <1>5 DEF SendAccepted, SpendId, HasRoom, Accepting, SendReturns
  <2>2. Shape /\ nextSubmissionId \in 0 .. MaxPackets
    BY <2>1, AudioAssumption DEF AudioInv, Shape
  <2>3. bytes \in Nat
    BY <2>2, AudioAssumption
  <2>4. Submits(bytes)
    <3>1. Spends(bytes)
      BY <1>5, <2>1, <2>3 DEF SendAccepted, SpendId, SendReturns, Spends
    <3> QED
      BY <1>5, <2>1, <3>1
      DEF SendAccepted, SendReturns, JsDecode, Submits, stock, running, always, queueVars,
          copyCounters, pushVars, history, fixed
  <2>5. FedIds' \subseteq FedIds \cup {nextSubmissionId}
    BY <2>2, <2>3, <2>4, FedSubmits
  <2> QED
    BY <2>1, <2>2, <2>5 DEF IsClosed, RhythmStep, Rhythm!RhythmNext, Rhythm!Accept, Rhythm!AtMost
<1> QED
  BY <1>2, <1>3, <1>4, <1>5, RhythmQuiet DEF SendPacket

\* receive_frame delivers a packet that was fed, and Ended only when none is.
LEMMA RhythmReceive ==
  ASSUME AudioInv, Kinds, ReceiveFrame \/ ReceiveCancelled
  PROVE  RhythmStep
<1>1. ASSUME NEW a, ReceiveLeaves(a)
      PROVE  FedIds' = FedIds /\ UNCHANGED eof /\ IsClosed' = IsClosed /\ answer' = a
  BY <1>1, FedSame
  DEF ReceiveLeaves, ReceiveReturns, jsVars, queueVars, recordVars, IsClosed
<1>2. CASE ReceiveClosed \/ ReceiveCancelled
  BY <1>2, <1>1, AnswerStep DEF ReceiveClosed, ReceiveCancelled
<1>3. CASE ReceiveDry
  <2>1. CASE ~eof
    BY <1>3, <2>1, <1>1, AnswerStep DEF ReceiveDry
  <2>2. CASE eof
    <3>1. ~IsClosed /\ queue = <<>> /\ ReceiveLeaves("ended") /\ ~(pendingCopies > 0)
      BY <1>3, <2>2 DEF ReceiveDry, ActiveDecodeWork
    <3>2. tasks \in Seq(Task) /\ pendingCopies = Len(tasks)
      BY DEF AudioInv, Shape, BudgetInv, CountersHonest
    <3>3. tasks = <<>>
      BY <3>1, <3>2
    <3>4. LiveTasks = <<>>
      <4>1. PICK n : TurnsAt(tasks, epoch, n)
                     /\ LiveTasks = IF IsClosed THEN <<>> ELSE After(tasks, n)
        BY LiveFact DEF AudioInv
      <4>2. n = Len(tasks)
        BY <4>1, <3>3 DEF TurnsAt
      <4> QED
        BY <4>1, <4>2, <3>2, AfterLast
    <3>5. pendingOutputs = {}
      BY <2>2 DEF AudioInv, FlushInv
    <3>6. Range(Ids(LiveTasks)) = {} /\ Range(Ids(queue)) = {}
      BY <3>1, <3>4, IdsNone DEF Range
    <3>7. FedIds = {}
      BY <3>5, <3>6, FedIdsAre DEF Awaited
    <3> QED
      BY <2>2, <3>1, <3>7, <1>1, AnswerStep
  <2> QED
    BY <2>1, <2>2
<1>4. CASE ReceiveProduced
  <2> DEFINE p == Head(queue).id
  <2>1. /\ ~IsClosed /\ answer' = "produced" /\ UNCHANGED eof /\ IsClosed' = IsClosed
    BY <1>4 DEF ReceiveProduced, ReceiveReturns, IsClosed
  <2>2. Produces
    BY <1>4
    DEF ReceiveProduced, ReceiveReturns, Produces, running, numbering, line, always, idVars,
        copyCounters, pushVars, jsVars, fixed, recordVars
  <2>3. p \in 0 .. MaxPackets /\ p \in FedIds /\ FedIds' \subseteq FedIds \ {p}
    BY <2>2, FedProduces
  <2> HIDE DEF p
  <2> QED
    BY <2>1, <2>3 DEF RhythmStep, Rhythm!RhythmNext, Rhythm!Produce, Rhythm!AtMost
<1> QED
  BY <1>2, <1>3, <1>4, RhythmQuiet DEF ReceiveFrame

\* send_eof ends the stream, or its cancellation faults it.
LEMMA RhythmEof ==
  ASSUME AudioInv, Kinds, SendEof \/ EofCancelled
  PROVE  RhythmStep
<1>1. CASE EofClosed
  <2>1. FedIds' = FedIds /\ UNCHANGED eof /\ IsClosed' = IsClosed
    BY <1>1, FedSame DEF EofClosed, jsVars, stateVars, queueVars, recordVars, IsClosed
  <2> QED
    BY <1>1, <2>1, AnswerStep DEF EofClosed
<1>2. CASE EofCompletes
  <2>1. Concludes
    BY <1>2
    DEF EofCompletes, Concludes, stock, running, numbering, line, always, queueVars, idVars,
        copyCounters, pushVars, codecVars, fixed, history
  <2>2. FedIds' = FedIds
    BY <2>1, FedConcludes DEF AudioInv
  <2> QED
    BY <1>2, <2>2 DEF EofCompletes, IsClosed, RhythmStep, Rhythm!RhythmNext, Rhythm!EndStream
<1>3. CASE EofRejected \/ EofCancelled
  <2>1. RecordClose("eof") /\ UNCHANGED eof /\ answer' \in {"failed", "cancelled"}
    BY <1>3 DEF EofRejected, EofCancelled, EofGuardFires
  <2>2. IsClosed' /\ ClearGeneration
    BY <2>1, ClosingCloses DEF ErrorKinds
  <2> QED
    BY <2>1, <2>2, FaultStep
<1> QED
  BY <1>1, <1>2, <1>3, RhythmQuiet DEF SendEof

\* flush starts over, Drop forgets.
LEMMA RhythmFlush ==
  ASSUME AudioInv, Flush \/ Drop
  PROVE  RhythmStep
<1>1. FedIds' = {}
  BY FlushRestarts, FedRestarts DEF AudioInv
<1>2. CASE FlushRebuilds
  BY <1>1, <1>2
  DEF FlushRebuilds, FlushBegins, IsClosed, RhythmStep, Rhythm!RhythmNext, Rhythm!Restart
<1>3. CASE FlushFails
  <2>1. IsClosed'
    BY <1>3, ClosingCloses DEF FlushFails, ErrorKinds
  <2> QED
    BY <1>1, <1>3, <2>1
    DEF FlushFails, FlushBegins, RhythmStep, Rhythm!RhythmNext, Rhythm!Restart
<1>4. CASE Drop
  BY <1>1, <1>4 DEF Drop, IsClosed, RhythmStep, Rhythm!RhythmNext, Rhythm!Forget
<1> QED
  BY <1>2, <1>3, <1>4 DEF Flush

(***************************************************************************)
(* The audio decoder implements the push rhythm: each answer is one the    *)
(* contract allows where it is given, a frame comes only from a packet     *)
(* accepted in this generation and at most once, and Ended only when       *)
(* nothing is left - also when the codec leaves its outputs no id, across  *)
(* closes, decoders thrown away by flush and dropped futures.              *)
(***************************************************************************)
THEOREM AudioRhythm == Spec => ImplementsRhythm
<1>1. Init => Rhythm!RhythmInit
  <2> SUFFICES ASSUME Init PROVE Rhythm!RhythmInit
    OBVIOUS
  <2>1. /\ inputQ = <<>> /\ held = {} /\ outputs = <<>> /\ tasks = <<>> /\ queue = <<>>
        /\ pendingOutputs = {} /\ eof = FALSE /\ answer = "none" /\ ~IsClosed
    BY DEF Init, StateInit, JsInit, IsClosed
  <2>2. AudioInv
    BY AudioInvInit
  <2>3. LiveTasks = <<>>
    <3>1. PICK n : TurnsAt(tasks, epoch, n)
                   /\ LiveTasks = IF IsClosed THEN <<>> ELSE After(tasks, n)
      BY <2>2, LiveFact DEF AudioInv
    <3>2. n = Len(tasks) /\ tasks \in Seq(Task)
      BY <2>1, <2>2, <3>1 DEF TurnsAt, AudioInv, Shape
    <3> QED
      BY <3>1, <3>2, AfterLast
  <2>4. Range(Ids(LiveTasks)) = {} /\ Range(Ids(queue)) = {}
    BY <2>1, <2>3, IdsNone DEF Range
  <2>5. FedIds = {}
    BY <2>1, <2>4, FedIdsAre DEF Awaited
  <2> QED
    BY <2>1, <2>5 DEF Rhythm!RhythmInit
<1>2. AudioInv /\ [Next]_vars => [Rhythm!RhythmNext]_Rhythm!rhythmVars
  <2> SUFFICES ASSUME AudioInv, [Next]_vars PROVE RhythmStep
    BY DEF RhythmStep
  <2>1. Kinds
    BY EveryKind DEF AudioInv, BudgetInv
  <2> QED
    BY <2>1, RhythmSend, RhythmReceive, RhythmEof, RhythmFlush, RhythmQuiet DEF Next
<1>3. Spec => Rhythm!RhythmSpec
  BY <1>1, <1>2, AudioInvHolds, PTL DEF Spec, Rhythm!RhythmSpec
<1> QED
  BY <1>3 DEF ImplementsRhythm

-----------------------------------------------------------------------------
(* The callback slots: what is invariant                                     *)
(* Stated of any map.  Beyond the checked invariants: every id in use is     *)
(* below the counter, no two decoders name the same id, and a slot, its      *)
(* trampolines and its running handler agree on the build.                   *)

Types(map, next, decs, tramps, stk) ==
  /\ map \in [DOMAIN map -> Slot]
  /\ next \in Nat
  /\ decs \in [Decoders -> Holder]
  /\ tramps \subseteq Trampoline
  /\ stk \in Seq(Running)

\* Ids in use were handed out before.
Below(map, next, decs, tramps, stk) ==
  /\ \A id \in DOMAIN map : id \in Nat /\ id < next
  /\ \A d \in Decoders : \A id \in decs[d].ids : id < next
  /\ \A t \in tramps : t.id < next
  /\ \A i \in DOMAIN stk : stk[i].id < next

Owned(map, decs) ==
  /\ \A id \in DOMAIN map :
       \E d \in Decoders :
         decs[d].open /\ id \in decs[d].ids /\ decs[d].build = map[id].build
  /\ \A d \in Decoders : decs[d].open => decs[d].held /\ decs[d].ids \subseteq DOMAIN map
  /\ \A d, e \in Decoders : d # e => decs[d].ids \cap decs[e].ids = {}

Agree(map, tramps, stk) ==
  /\ \A t \in tramps : t.id \in DOMAIN map => map[t.id].build = t.build
  /\ \A i \in DOMAIN stk : stk[i].id \in DOMAIN map => map[stk[i].id].build = stk[i].build
  /\ \A i \in DOMAIN stk : stk[i].by = stk[i].build

Runs(map, stk) ==
  /\ \A id \in DOMAIN map : ~map[id].parked <=> \E i \in DOMAIN stk : stk[i].id = id
  /\ \A i, j \in DOMAIN stk : stk[i].id = stk[j].id => i = j

Core(map, next, decs, tramps, stk) ==
  /\ Types(map, next, decs, tramps, stk)
  /\ Below(map, next, decs, tramps, stk)
  /\ Owned(map, decs)
  /\ Agree(map, tramps, stk)
  /\ Runs(map, stk)

SlotsIInv == Core(slots, nextSlotId, decoders, trampolines, stack) /\ builds \in Nat

-----------------------------------------------------------------------------
(* The slots: the changes to the map                                         *)

\* What is there after an allocation: the old slots and the fresh ones.
LEMMA AllocatedMap ==
  ASSUME NEW map, NEW n \in Nat, nextSlotId \in Nat,
         \A id \in DOMAIN map : id \in Nat /\ id < nextSlotId
  PROVE  /\ DOMAIN Allocated(map, n) = DOMAIN map \cup Fresh(n)
         /\ \A id \in DOMAIN map : id \notin Fresh(n) /\ Allocated(map, n)[id] = map[id]
         /\ \A id \in Fresh(n) : Allocated(map, n)[id] = [build |-> builds, parked |-> TRUE]
BY DEF Allocated, Fresh

\* Fresh ids are the next ones.
LEMMA FreshIds ==
  ASSUME NEW n \in Nat, nextSlotId \in Nat
  PROVE  /\ Fresh(n) \subseteq Nat
         /\ \A id \in Fresh(n) : nextSlotId <= id /\ id < nextSlotId + n
BY DEF Fresh

\* A build that fails leaves the map as it found it.
LEMMA RollbackRestores ==
  ASSUME NEW map, NEW step \in Steps, nextSlotId \in Nat,
         map \in [DOMAIN map -> Slot],
         \A id \in DOMAIN map : id \in Nat /\ id < nextSlotId
  PROVE  Freed(Allocated(map, Obtained(step)), RolledBack(step)) = map
<1>1. Obtained(step) \in Nat
  BY DEF Steps, Obtained
<1>2. RolledBack(step) = Fresh(Obtained(step))
  BY DEF RolledBack
<1> DEFINE new == Allocated(map, Obtained(step))
<1>3. /\ DOMAIN new = DOMAIN map \cup Fresh(Obtained(step))
      /\ \A id \in DOMAIN map : id \notin Fresh(Obtained(step)) /\ new[id] = map[id]
  BY <1>1, AllocatedMap
<1> HIDE DEF new
<1>4. DOMAIN new \ RolledBack(step) = DOMAIN map
  BY <1>2, <1>3
<1>5. Freed(new, RolledBack(step)) = [id \in DOMAIN map |-> new[id]]
  BY <1>4 DEF Freed
<1>6. QED
  BY <1>3, <1>5 DEF new

-----------------------------------------------------------------------------
(* The slots: each change keeps the invariant                                *)

\* A larger counter changes nothing else.
LEMMA CounterGrows ==
  ASSUME NEW map, NEW next \in Nat, NEW decs, NEW tramps, NEW stk, NEW more \in Nat,
         Core(map, next, decs, tramps, stk)
  PROVE  Core(map, next + more, decs, tramps, stk)
<1>1. Types(map, next + more, decs, tramps, stk)
  BY DEF Core, Types
<1>2. Below(map, next + more, decs, tramps, stk)
  <2>1. /\ \A d \in Decoders : \A id \in decs[d].ids : id \in Nat
        /\ \A t \in tramps : t.id \in Nat
        /\ \A i \in DOMAIN stk : stk[i].id \in Nat
    <3>1. \A d \in Decoders : \A id \in decs[d].ids : id \in Nat
      BY DEF Core, Types, Holder
    <3>2. \A t \in tramps : t.id \in Nat
      BY DEF Core, Types, Trampoline
    <3>3. \A i \in DOMAIN stk : stk[i] \in Running
      BY DEF Core, Types
    <3>4. QED
      BY <3>1, <3>2, <3>3 DEF Running
  <2>2. QED
    BY <2>1 DEF Core, Below
<1>3. QED
  BY <1>1, <1>2 DEF Core

\* A decoder frees the slots it names and is no longer open.
LEMMA FreeKeeps ==
  ASSUME NEW d \in Decoders, NEW decs, NEW left,
         Core(slots, nextSlotId, decoders, trampolines, stack),
         left \in Holder, ~left.open, left.ids \subseteq decoders[d].ids,
         decs = [decoders EXCEPT ![d] = left]
  PROVE  Core(Freed(slots, decoders[d].ids), nextSlotId, decs, trampolines, stack)
<1> DEFINE map == Freed(slots, decoders[d].ids)
<1>1. /\ DOMAIN map = DOMAIN slots \ decoders[d].ids
      /\ \A id \in DOMAIN map : map[id] = slots[id]
  BY DEF Freed
<1>2. map = [id \in DOMAIN map |-> map[id]]
  BY DEF Freed
<1> HIDE DEF map
<1>3. /\ \A e \in Decoders : e # d => decs[e] = decoders[e]
      /\ decs[d] = left
      /\ decoders \in [Decoders -> Holder]
  BY DEF Core, Types
<1>4. Types(map, nextSlotId, decs, trampolines, stack)
  <2>1. \A id \in DOMAIN map : map[id] \in Slot
    BY <1>1 DEF Core, Types
  <2>2. map \in [DOMAIN map -> Slot]
    BY <2>1, <1>2
  <2>3. decs \in [Decoders -> Holder]
    BY <1>3
  <2>4. QED
    BY <2>2, <2>3 DEF Core, Types
<1>5. Below(map, nextSlotId, decs, trampolines, stack)
  BY <1>1, <1>3 DEF Core, Below
<1>6. Owned(map, decs)
  <2>1. ASSUME NEW id \in DOMAIN map
        PROVE  \E e \in Decoders :
                 decs[e].open /\ id \in decs[e].ids /\ decs[e].build = map[id].build
    <3>1. PICK e \in Decoders : /\ decoders[e].open /\ id \in decoders[e].ids
                                /\ decoders[e].build = slots[id].build
      BY <1>1 DEF Core, Owned
    <3>2. e # d
      BY <1>1, <3>1
    <3>3. QED
      BY <1>1, <1>3, <3>1, <3>2
  <2>2. ASSUME NEW e \in Decoders, decs[e].open
        PROVE  decs[e].held /\ decs[e].ids \subseteq DOMAIN map
    <3>1. e # d
      BY <1>3, <2>2
    <3>2. QED
      BY <1>1, <1>3, <2>2, <3>1 DEF Core, Owned
  <2>3. \A e, f \in Decoders : e # f => decs[e].ids \cap decs[f].ids = {}
    BY <1>3 DEF Core, Owned
  <2>4. QED
    BY <2>1, <2>2, <2>3 DEF Owned
<1>7. Agree(map, trampolines, stack)
  BY <1>1 DEF Core, Agree
<1>8. Runs(map, stack)
  BY <1>1 DEF Core, Runs
<1>9. QED
  BY <1>4, <1>5, <1>6, <1>7, <1>8 DEF Core, map

\* A decoder that is not open builds: fresh slots, named by it alone.
LEMMA BuildKeeps ==
  ASSUME NEW d \in Decoders, NEW map, NEW decs, NEW left, NEW tramps,
         Core(map, nextSlotId, left, trampolines, stack), builds \in Nat,
         ~left[d].open,
         decs = [left EXCEPT ![d] =
                   [held |-> TRUE, open |-> TRUE, build |-> builds, ids |-> Fresh(3)]],
         tramps = trampolines \cup [id : Fresh(3), build : {builds}]
  PROVE  Core(Allocated(map, 3), nextSlotId + 3, decs, tramps, stack)
<1> DEFINE new == Allocated(map, 3)
<1>1. /\ Fresh(3) \subseteq Nat
      /\ \A id \in Fresh(3) : nextSlotId <= id /\ id < nextSlotId + 3
  BY FreshIds DEF Core, Types
<1>2. /\ DOMAIN new = DOMAIN map \cup Fresh(3)
      /\ \A id \in DOMAIN map : id \notin Fresh(3) /\ new[id] = map[id]
      /\ \A id \in Fresh(3) : new[id] = [build |-> builds, parked |-> TRUE]
  BY AllocatedMap DEF Core, Types, Below
<1>3. new = [id \in DOMAIN new |-> new[id]]
  BY DEF Allocated
<1> HIDE DEF new
<1>4. Core(map, nextSlotId + 3, left, trampolines, stack)
  BY CounterGrows DEF Core, Types
<1>5. /\ \A e \in Decoders : e # d => decs[e] = left[e]
      /\ decs[d] = [held |-> TRUE, open |-> TRUE, build |-> builds, ids |-> Fresh(3)]
      /\ left \in [Decoders -> Holder] /\ decs \in [Decoders -> Holder]
  BY <1>1 DEF Core, Types, Holder
<1>6. /\ \A t \in tramps : t \in trampolines \/ (t.id \in Fresh(3) /\ t.build = builds)
      /\ tramps \subseteq Trampoline
  BY <1>1 DEF Core, Types, Trampoline
<1>7. Types(new, nextSlotId + 3, decs, tramps, stack)
  <2>1. ASSUME NEW id \in DOMAIN new
        PROVE  new[id] \in Slot
    <3>1. CASE id \in Fresh(3)
      <4>1. new[id] = [build |-> builds, parked |-> TRUE]
        BY <1>2, <3>1
      <4>2. [build |-> builds, parked |-> TRUE] \in Slot
        BY DEF Slot
      <4>3. QED
        BY <4>1, <4>2
    <3>2. CASE id \in DOMAIN map
      <4>1. map[id] \in Slot
        BY <3>2 DEF Core, Types
      <4>2. QED
        BY <1>2, <3>2, <4>1
    <3>3. QED
      BY <1>2, <2>1, <3>1, <3>2
  <2>2. new \in [DOMAIN new -> Slot]
    BY <2>1, <1>3
  <2>3. QED
    BY <1>4, <1>5, <1>6, <2>2 DEF Core, Types
<1>8. Below(new, nextSlotId + 3, decs, tramps, stack)
  BY <1>1, <1>2, <1>4, <1>5, <1>6 DEF Core, Below
<1>9. \A e \in Decoders : left[e].ids \cap Fresh(3) = {}
  <2>1. SUFFICES ASSUME NEW e \in Decoders, NEW id \in left[e].ids, id \in Fresh(3)
                 PROVE  FALSE
    OBVIOUS
  <2>2. id < nextSlotId
    BY DEF Core, Below
  <2>3. QED
    BY <1>1, <2>1, <2>2 DEF Core, Types
<1>10. Owned(new, decs)
  <2>1. ASSUME NEW id \in DOMAIN new
        PROVE  \E e \in Decoders :
                 decs[e].open /\ id \in decs[e].ids /\ decs[e].build = new[id].build
    <3>1. CASE id \in Fresh(3)
      BY <1>2, <1>5, <3>1
    <3>2. CASE id \in DOMAIN map
      <4>1. PICK e \in Decoders :
              left[e].open /\ id \in left[e].ids /\ left[e].build = map[id].build
        BY <3>2 DEF Core, Owned
      <4>2. QED
        BY <1>2, <1>5, <3>2, <4>1
    <3>3. QED
      BY <1>2, <2>1, <3>1, <3>2
  <2>2. \A e \in Decoders : decs[e].open => decs[e].held /\ decs[e].ids \subseteq DOMAIN new
    BY <1>2, <1>5 DEF Core, Owned
  <2>3. \A e, f \in Decoders : e # f => decs[e].ids \cap decs[f].ids = {}
    BY <1>5, <1>9 DEF Core, Owned
  <2>4. QED
    BY <2>1, <2>2, <2>3 DEF Owned
<1>11. \A i \in DOMAIN stack : stack[i].id \notin Fresh(3)
  <2>1. SUFFICES ASSUME NEW i \in DOMAIN stack, stack[i].id \in Fresh(3) PROVE FALSE
    OBVIOUS
  <2>2. stack[i].id < nextSlotId
    BY DEF Core, Below
  <2>3. QED
    BY <1>1, <2>1, <2>2 DEF Core, Types
<1>12. Agree(new, tramps, stack)
  <2>1. ASSUME NEW t \in trampolines, t.id \in DOMAIN new
        PROVE  new[t.id].build = t.build
    <3>1. t.id < nextSlotId
      BY DEF Core, Below
    <3>2. t.id \notin Fresh(3)
      BY <1>1, <3>1 DEF Core, Types
    <3>3. QED
      BY <1>2, <2>1, <3>2 DEF Core, Agree
  <2>2. \A t \in tramps : t.id \in DOMAIN new => new[t.id].build = t.build
    BY <1>2, <1>6, <2>1
  <2>3. QED
    BY <1>2, <1>11, <2>2 DEF Core, Agree
<1>13. Runs(new, stack)
  <2>1. ASSUME NEW id \in DOMAIN new
        PROVE  ~new[id].parked <=> \E i \in DOMAIN stack : stack[i].id = id
    BY <1>2, <1>11 DEF Core, Runs
  <2>2. QED
    BY <2>1 DEF Core, Runs
<1>14. QED
  BY <1>7, <1>8, <1>10, <1>12, <1>13 DEF Core, new


-----------------------------------------------------------------------------
(* The slots: the invariant                                                  *)

LEMMA SlotsInvInit == SlotsInit => SlotsIInv
<1> SUFFICES ASSUME SlotsInit PROVE SlotsIInv
  OBVIOUS
<1>1. Nobody \in Holder
  BY DEF Nobody, Holder
<1>2. Types(slots, nextSlotId, decoders, trampolines, stack)
  BY <1>1 DEF SlotsInit, Types
<1>3. Below(slots, nextSlotId, decoders, trampolines, stack)
  BY DEF SlotsInit, Below, Nobody
<1>4. Owned(slots, decoders)
  BY DEF SlotsInit, Owned, Nobody
<1>5. Agree(slots, trampolines, stack) /\ Runs(slots, stack)
  BY DEF SlotsInit, Agree, Runs
<1>6. QED
  BY <1>2, <1>3, <1>4, <1>5 DEF SlotsInit, SlotsIInv, Core

LEMMA AskedIds ==
  ASSUME NEW step \in Steps
  PROVE  Asked(step) \in Nat
BY DEF Steps, Asked

\* A decoder taken out of use: nobody, or the same one closed.
LEMMA Retired ==
  ASSUME NEW d \in Decoders, SlotsIInv
  PROVE  /\ Nobody \in Holder /\ ~Nobody.open /\ Nobody.ids \subseteq decoders[d].ids
         /\ [decoders[d] EXCEPT !.open = FALSE] \in Holder
         /\ [decoders[d] EXCEPT !.open = FALSE].ids = decoders[d].ids
         /\ ~[decoders[d] EXCEPT !.open = FALSE].open
<1>1. decoders[d] \in Holder
  BY DEF SlotsIInv, Core, Types
<1>2. QED
  BY <1>1 DEF Holder, Nobody

\* The callbacks: a handler entered, and a handler that returns.
LEMMA DispatchKeeps ==
  ASSUME SlotsIInv, NEW t \in trampolines, Dispatch(t)
  PROVE  SlotsIInv'
<1> DEFINE entry == [id |-> t.id, by |-> t.build, build |-> slots[t.id].build]
<1>1. /\ t.id \in DOMAIN slots /\ slots[t.id].parked
      /\ slots' = [slots EXCEPT ![t.id].parked = FALSE]
      /\ stack' = Append(stack, entry)
      /\ nextSlotId' = nextSlotId /\ builds' = builds
      /\ trampolines' = trampolines /\ decoders' = decoders
  BY DEF Dispatch, TakenOut
<1>2. /\ slots \in [DOMAIN slots -> Slot] /\ t \in Trampoline /\ stack \in Seq(Running)
      /\ slots[t.id].build = t.build /\ t.id < nextSlotId
  BY <1>1 DEF SlotsIInv, Core, Types, Agree, Below
<1>3. slots[t.id] \in Slot
  BY <1>1, <1>2
<1>4. entry \in Running /\ entry.id = t.id /\ entry.by = entry.build
  BY <1>2, <1>3 DEF Running, Trampoline, Slot
<1> HIDE DEF entry
<1>5. /\ DOMAIN slots' = DOMAIN slots
      /\ \A id \in DOMAIN slots : /\ slots'[id].build = slots[id].build
                                  /\ slots'[id].parked <=> id # t.id /\ slots[id].parked
      /\ slots' \in [DOMAIN slots' -> Slot]
  BY <1>1, <1>2, <1>3 DEF Slot
<1>6. /\ stack' \in Seq(Running) /\ Len(stack') = Len(stack) + 1
      /\ DOMAIN stack' = DOMAIN stack \cup {Len(stack) + 1}
      /\ \A i \in DOMAIN stack : i # Len(stack) + 1 /\ stack'[i] = stack[i]
      /\ stack'[Len(stack) + 1] = entry
  BY <1>1, <1>2, <1>4
<1>7. \A i \in DOMAIN stack : stack[i].id # t.id
  BY <1>1 DEF SlotsIInv, Core, Runs
<1>8. Types(slots, nextSlotId, decoders, trampolines, stack)'
  BY <1>1, <1>5, <1>6 DEF SlotsIInv, Core, Types
<1>9. Below(slots, nextSlotId, decoders, trampolines, stack)'
  BY <1>1, <1>2, <1>4, <1>5, <1>6 DEF SlotsIInv, Core, Below
<1>10. Owned(slots, decoders)'
  BY <1>1, <1>5 DEF SlotsIInv, Core, Owned
<1>11. Agree(slots, trampolines, stack)'
  <2>1. entry.build = slots[t.id].build
    BY DEF entry
  <2>2. QED
    BY <1>1, <1>4, <1>5, <1>6, <2>1 DEF SlotsIInv, Core, Agree
<1>12. Runs(slots, stack)'
  <2>1. ASSUME NEW id \in DOMAIN slots
        PROVE  ~slots'[id].parked <=> \E i \in DOMAIN stack' : stack'[i].id = id
    BY <1>4, <1>5, <1>6 DEF SlotsIInv, Core, Runs
  <2>2. \A i, j \in DOMAIN stack' : stack'[i].id = stack'[j].id => i = j
    BY <1>4, <1>6, <1>7 DEF SlotsIInv, Core, Runs
  <2>3. QED
    BY <1>5, <2>1, <2>2 DEF Runs
<1>13. QED
  BY <1>1, <1>8, <1>9, <1>10, <1>11, <1>12 DEF SlotsIInv, Core


LEMMA ReturnKeeps ==
  ASSUME SlotsIInv, HandlerReturns
  PROVE  SlotsIInv'
<1> DEFINE n == Len(stack)
<1>1. /\ stack \in Seq(Running) /\ n \in Nat /\ n >= 1
      /\ DOMAIN stack = 1 .. n /\ Top = stack[n] /\ Top \in Running
  BY DEF HandlerReturns, SlotsIInv, Core, Types, Top
<1>2. /\ stack' \in Seq(Running)
      /\ DOMAIN stack' = DOMAIN stack \ {n}
      /\ \A i \in DOMAIN stack' : stack'[i] = stack[i]
  <2>1. stack' = SubSeq(stack, 1, n - 1)
    BY DEF HandlerReturns
  <2>2. /\ Len(stack') = n - 1 /\ stack' \in Seq(Running)
        /\ \A i \in 1 .. n - 1 : stack'[i] = stack[i]
    <3>1. \A i \in 1 .. n - 1 : stack[i] \in Running
      BY <1>1
    <3>2. /\ stack' \in Seq(Running)
          /\ Len(stack') = IF 1 <= n - 1 THEN (n - 1) - 1 + 1 ELSE 0
          /\ \A i \in 1 .. (n - 1) - 1 + 1 : stack'[i] = stack[1 + i - 1]
      BY <1>1, <2>1, <3>1, SubSeqProperties
    <3>3. (n - 1) - 1 + 1 = n - 1 /\ (1 <= n - 1 \/ n - 1 = 0)
      BY <1>1
    <3>4. Len(stack') = n - 1
      BY <3>2, <3>3
    <3>5. \A i \in 1 .. n - 1 : i \in Int /\ 1 + i - 1 = i
      BY <1>1
    <3>6. QED
      BY <3>2, <3>3, <3>4, <3>5
  <2>3. DOMAIN stack' = 1 .. n - 1
    BY <2>2
  <2>4. QED
    BY <1>1, <2>2, <2>3
<1>3. /\ nextSlotId' = nextSlotId /\ builds' = builds
      /\ trampolines' = trampolines /\ decoders' = decoders
  BY DEF HandlerReturns
<1>4. /\ DOMAIN slots' = DOMAIN slots
      /\ \A id \in DOMAIN slots : /\ slots'[id].build = slots[id].build
                                  /\ slots'[id].parked <=> id = Top.id \/ slots[id].parked
      /\ slots' \in [DOMAIN slots' -> Slot]
  <2>1. slots \in [DOMAIN slots -> Slot]
    BY DEF SlotsIInv, Core, Types
  <2>2. CASE Top.id \in DOMAIN slots
    <3> DEFINE back == [build |-> Top.build, parked |-> TRUE]
    <3>1. slots' = [slots EXCEPT ![Top.id] = back]
      BY <2>2 DEF HandlerReturns, Reparked
    <3>2. slots[Top.id].build = Top.build
      BY <1>1, <2>2 DEF SlotsIInv, Core, Agree
    <3>3. back \in Slot /\ back.build = Top.build /\ back.parked
      BY <1>1 DEF Slot, Running
    <3> HIDE DEF back
    <3>4. QED
      BY <2>1, <2>2, <3>1, <3>2, <3>3 DEF Slot
  <2>3. CASE Top.id \notin DOMAIN slots
    <3>1. slots' = slots
      BY <2>3 DEF HandlerReturns, Reparked
    <3>2. QED
      BY <2>1, <2>3, <3>1
  <2>4. QED
    BY <2>2, <2>3
<1> HIDE DEF n
<1>5. Types(slots, nextSlotId, decoders, trampolines, stack)'
  BY <1>2, <1>3, <1>4 DEF SlotsIInv, Core, Types
<1>6. Below(slots, nextSlotId, decoders, trampolines, stack)'
  BY <1>2, <1>3, <1>4 DEF SlotsIInv, Core, Below
<1>7. Owned(slots, decoders)'
  BY <1>3, <1>4 DEF SlotsIInv, Core, Owned
<1>8. Agree(slots, trampolines, stack)'
  BY <1>2, <1>3, <1>4 DEF SlotsIInv, Core, Agree
<1>9. Runs(slots, stack)'
  <2>1. ASSUME NEW id \in DOMAIN slots
        PROVE  ~slots'[id].parked <=> \E i \in DOMAIN stack' : stack'[i].id = id
    <3>1. CASE id = Top.id
      BY <1>1, <1>2, <1>4, <3>1 DEF SlotsIInv, Core, Runs
    <3>2. CASE id # Top.id
      BY <1>1, <1>2, <1>4, <3>2 DEF SlotsIInv, Core, Runs
    <3>3. QED
      BY <3>1, <3>2
  <2>2. QED
    BY <1>2, <1>4, <2>1 DEF SlotsIInv, Core, Runs
<1>10. QED
  BY <1>3, <1>5, <1>6, <1>7, <1>8, <1>9 DEF SlotsIInv, Core

\* A build that fails over a map that holds.
LEMMA UnbuiltKeeps ==
  ASSUME NEW step \in Steps, NEW map, NEW decs, builds \in Nat,
         Core(map, nextSlotId, decs, trampolines, stack),
         Unbuilt(step, map), decoders' = decs
  PROVE  SlotsIInv'
<1>1. slots' = map
  BY RollbackRestores DEF Unbuilt, Core, Types, Below
<1>2. Core(map, nextSlotId + Asked(step), decs, trampolines, stack)
  BY AskedIds, CounterGrows DEF Core, Types
<1>3. QED
  BY <1>1, <1>2 DEF Unbuilt, SlotsIInv

LEMMA BuiltKeeps ==
  ASSUME NEW d \in Decoders, NEW map, NEW left, builds \in Nat,
         Core(map, nextSlotId, left, trampolines, stack), ~left[d].open,
         Built(d, map),
         decoders' = [left EXCEPT ![d] =
           [held |-> TRUE, open |-> TRUE, build |-> builds, ids |-> Fresh(3)]]
  PROVE  SlotsIInv'
<1>1. Core(Allocated(map, 3), nextSlotId + 3, decoders', trampolines', stack)
  BY BuildKeeps DEF Built
<1>2. QED
  BY <1>1 DEF Built, SlotsIInv

LEMMA SlotsInvNext == SlotsIInv /\ [SlotsNext]_slotsVars => SlotsIInv'
<1> SUFFICES ASSUME SlotsIInv, [SlotsNext]_slotsVars PROVE SlotsIInv'
  OBVIOUS
<1>1. Core(slots, nextSlotId, decoders, trampolines, stack) /\ builds \in Nat
      /\ decoders \in [Decoders -> Holder]
  BY DEF SlotsIInv, Core, Types
<1>2. ASSUME NEW d \in Decoders, Open(d) PROVE SlotsIInv'
  <2>1. ~decoders[d].open
    BY <1>1, <1>2 DEF Open, SlotsIInv, Core, Owned
  <2>2. QED
    BY <1>1, <1>2, <2>1, BuiltKeeps DEF Open, Built
<1>3. ASSUME NEW d \in Decoders, OpenFails(d) PROVE SlotsIInv'
  BY <1>1, <1>3, UnbuiltKeeps DEF OpenFails
<1>4. ASSUME NEW d \in Decoders, Rebuilds(d) PROVE SlotsIInv'
  <2> DEFINE closed == [decoders[d] EXCEPT !.open = FALSE]
             left == [decoders EXCEPT ![d] = closed]
  <2>1. Core(Freed(slots, decoders[d].ids), nextSlotId, left, trampolines, stack)
    BY <1>1, Retired, FreeKeeps
  <2>2. ~left[d].open
    BY <1>1, Retired
  <2>3. decoders' = [left EXCEPT ![d] =
           [held |-> TRUE, open |-> TRUE, build |-> builds, ids |-> Fresh(3)]]
    BY <1>1, <1>4 DEF Rebuilds, Built
  <2> HIDE DEF left
  <2>4. QED
    BY <1>1, <1>4, <2>1, <2>2, <2>3, BuiltKeeps DEF Rebuilds
<1>5. ASSUME NEW d \in Decoders, RebuildFails(d) PROVE SlotsIInv'
  <2> DEFINE closed == [decoders[d] EXCEPT !.open = FALSE]
             left == [decoders EXCEPT ![d] = closed]
  <2>1. Core(Freed(slots, decoders[d].ids), nextSlotId, left, trampolines, stack)
    BY <1>1, Retired, FreeKeeps
  <2>2. decoders' = left
    BY <1>1, <1>5 DEF RebuildFails
  <2> HIDE DEF left
  <2>3. QED
    BY <1>1, <1>5, <2>1, <2>2, UnbuiltKeeps DEF RebuildFails
<1>6. ASSUME NEW d \in Decoders, DropDecoder(d) PROVE SlotsIInv'
  <2>1. Core(Freed(slots, decoders[d].ids), nextSlotId, decoders', trampolines, stack)
    BY <1>1, <1>6, Retired, FreeKeeps DEF DropDecoder
  <2>2. QED
    BY <1>1, <1>6, <2>1 DEF DropDecoder, SlotsIInv
<1>7. ASSUME NEW t \in trampolines, Dispatch(t) PROVE SlotsIInv'
  BY <1>7, DispatchKeeps
<1>8. ASSUME NEW t \in trampolines, Orphan(t) PROVE SlotsIInv'
  BY <1>8 DEF Orphan, slotsVars, SlotsIInv
<1>9. CASE HandlerReturns
  BY <1>9, ReturnKeeps
<1>10. CASE UNCHANGED slotsVars
  BY <1>10 DEF slotsVars, SlotsIInv
<1>11. QED
  BY <1>2, <1>3, <1>4, <1>5, <1>6, <1>7, <1>8, <1>9, <1>10 DEF SlotsNext

THEOREM SlotsInv == SlotsSpec => []SlotsIInv
BY SlotsInvInit, SlotsInvNext, PTL DEF SlotsSpec

-----------------------------------------------------------------------------
(* The slots: what it gives                                                  *)

\* Every variable keeps its type, and no slot is ahead of the counter of ids.
THEOREM SlotsTypeCorrect == SlotsSpec => []TypeOK
<1>1. SlotsIInv => TypeOK
  BY DEF SlotsIInv, Core, Types, Below, TypeOK
<1>2. QED
  BY <1>1, SlotsInv, PTL

\* The slots present are those of the open decoders, and theirs alone.
THEOREM SlotsOwned == SlotsSpec => []SlotsAreOwned
<1>1. SlotsIInv => SlotsAreOwned
  BY DEF SlotsIInv, Core, Owned, SlotsAreOwned, Held
<1>2. QED
  BY <1>1, SlotsInv, PTL

\* However deep handlers nest: a slot is empty exactly while its handler runs,
\* no handler runs twice at once, and a callback never reaches the handler of
\* another build, for ids are not handed out again.
THEOREM HandlersStayApart == SlotsSpec => []HandlersApart
<1>1. SlotsIInv => EmptyIsRunning /\ NeverReentered
  BY DEF SlotsIInv, Core, Runs, EmptyIsRunning, NeverReentered
<1>2. SlotsIInv => NoAlias
  BY DEF SlotsIInv, Core, Agree, NoAlias
<1>3. SlotsIInv => HandlersApart
  BY <1>1, <1>2 DEF HandlersApart
<1>4. QED
  BY <1>3, SlotsInv, PTL

\* A freed handler is never entered again.
THEOREM FreedAreSilent == SlotsSpec => FreedStaysSilent
<1>1. SlotsIInv /\ [SlotsNext]_slotsVars =>
        [Len(stack') > Len(stack) =>
           \E d \in Decoders : Held(d, stack'[Len(stack')].id)
                                 /\ decoders[d].build = stack'[Len(stack')].by]_slotsVars
  <2> SUFFICES ASSUME SlotsIInv, SlotsNext, Len(stack') > Len(stack)
               PROVE  \E d \in Decoders : Held(d, stack'[Len(stack')].id)
                                            /\ decoders[d].build = stack'[Len(stack')].by
    BY DEF slotsVars
  <2>1. stack \in Seq(Running) /\ Len(stack) \in Nat
    BY DEF SlotsIInv, Core, Types
  <2>2. ~HandlerReturns
    <3>1. SUFFICES ASSUME HandlerReturns PROVE FALSE
      OBVIOUS
    <3>2. Len(stack') = Len(stack) - 1
      BY <2>1, <3>1 DEF HandlerReturns
    <3>3. QED
      BY <2>1, <3>2
  <2>3. stack' # stack
    BY <2>1
  <2>4. PICK t \in trampolines : Dispatch(t)
    BY <2>2, <2>3
    DEF SlotsNext, Open, OpenFails, Rebuilds, RebuildFails, DropDecoder, Built, Unbuilt,
        Orphan, slotsVars
  <2>5. stack' = Append(stack, [id |-> t.id, by |-> t.build, build |-> slots[t.id].build])
        /\ t.id \in DOMAIN slots
    BY <2>4 DEF Dispatch
  <2>6. stack'[Len(stack')].id = t.id /\ stack'[Len(stack')].by = t.build
    BY <2>1, <2>5
  <2>7. PICK d \in Decoders : decoders[d].open /\ t.id \in decoders[d].ids
                                /\ decoders[d].build = slots[t.id].build
    BY <2>5 DEF SlotsIInv, Core, Owned
  <2>8. slots[t.id].build = t.build
    BY <2>5 DEF SlotsIInv, Core, Agree
  <2>9. QED
    BY <2>6, <2>7, <2>8 DEF Held
<1>2. QED
  BY <1>1, SlotsInv, PTL DEF SlotsSpec, FreedStaysSilent
=============================================================================
