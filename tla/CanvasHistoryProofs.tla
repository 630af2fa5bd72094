------------------------- MODULE CanvasHistoryProofs -------------------------
(***************************************************************************)
(* Proofs about CanvasHistory, for any states and any cap.                 *)
(*                                                                         *)
(* The inductive invariant adds to the types that two states of the line   *)
(* that follow each other differ, save the last two, that the gate is      *)
(* armed only where nothing was undone, and what prevRef is while the      *)
(* history is in step.                                                     *)
(***************************************************************************)
EXTENDS CanvasHistory, SequenceTheorems, TLAPS

DistinctUpTo(s, n) == \A i \in 1..(n - 1) : s[i] # s[i + 1]

\* States of the line that follow each other differ, save the last two: only
\* there may a push that finds its snapshot on top of the stack return early.
Distinct == DistinctUpTo(Line, Len(Line) - 1)

\* The gate is armed by a push, which forgot what was undone.
ArmedAtEnd == pending => future = <<>>

\* While the history is in step, prevRef is what was shown when the gesture
\* under way began, and no commit moves it.
InStep == ~loose => /\ ~pending
                    /\ prev = Began

IInv == TypeOK /\ Distinct /\ ArmedAtEnd /\ InStep

-----------------------------------------------------------------------------
(* Lines: a past, a state and what was undone. *)

Joined(p, x, f) == p \o <<x>> \o f

LEMMA JoinedIsAppend ==
    ASSUME NEW S, NEW p \in Seq(S), NEW x \in S, NEW f
    PROVE  Joined(p, x, f) = Append(p, x) \o f
  BY AppendIsConcat DEF Joined

LEMMA JoinedElements ==
    ASSUME NEW S, NEW p \in Seq(S), NEW x \in S, NEW f \in Seq(S)
    PROVE  /\ Joined(p, x, f) \in Seq(S)
           /\ Len(Joined(p, x, f)) = Len(p) + 1 + Len(f)
           /\ \A i \in 1..Len(p) : Joined(p, x, f)[i] = p[i]
           /\ Joined(p, x, f)[Len(p) + 1] = x
  <1> DEFINE head == Append(p, x)
  <1>1. /\ head \in Seq(S) /\ Len(head) = Len(p) + 1
        /\ \A i \in 1..Len(p) : head[i] = p[i]
        /\ head[Len(p) + 1] = x
    BY AppendProperties
  <1>2. Joined(p, x, f) = head \o f
    BY AppendIsConcat DEF Joined
  <1> HIDE DEF head
  <1>3. /\ head \o f \in Seq(S) /\ Len(head \o f) = Len(head) + Len(f)
        /\ \A i \in 1..(Len(head) + Len(f)) :
              (head \o f)[i] = IF i <= Len(head) THEN head[i] ELSE f[i - Len(head)]
    BY <1>1, ConcatProperties
  <1>4. Len(p) \in Nat /\ Len(f) \in Nat
    BY LenProperties
  <1>5. QED
    BY <1>1, <1>2, <1>3, <1>4 DEF head

\* One step back along the line.
LEMMA BackJoined ==
    ASSUME NEW S, NEW p \in Seq(S), NEW x \in S, NEW f \in Seq(S), p # <<>>
    PROVE  /\ SubSeq(p, 1, Len(p) - 1) \in Seq(S) /\ Len(SubSeq(p, 1, Len(p) - 1)) = Len(p) - 1
           /\ <<x>> \o f \in Seq(S) /\ Len(<<x>> \o f) = Len(f) + 1 /\ Head(<<x>> \o f) = x
           /\ Top(p) \in S
           /\ Joined(SubSeq(p, 1, Len(p) - 1), Top(p), <<x>> \o f) = Joined(p, x, f)
  <1>1. Len(p) \in Nat \ {0} /\ Len(f) \in Nat
    BY EmptySeq, LenProperties
  <1>2. Top(p) \in S /\ Top(p) = p[Len(p)]
    BY <1>1, ElementOfSeq DEF Top
  <1> DEFINE q == SubSeq(p, 1, Len(p) - 1)
  <1>3. q \in Seq(S) /\ Len(q) = Len(p) - 1
    <2>1. \A i \in 1..(Len(p) - 1) : p[i] \in S
      BY <1>1, ElementOfSeq
    <2> DEFINE n == Len(p) - 1
    <2>2. n \in Int /\ n \in Nat /\ \A i \in 1..n : p[i] \in S
      BY <2>1, <1>1
    <2> HIDE DEF n
    <2>3. SubSeq(p, 1, n) \in Seq(S) /\ Len(SubSeq(p, 1, n)) = n
      BY <2>2, SubSeqProperties
    <2>4. QED
      BY <2>3 DEF n
  <1>4. q \o <<Top(p)>> = p
    BY <1>1, <1>2, SubSeqRecursiveSecond, SubSeqFull
  <1>5. /\ <<x>> \in Seq(S) /\ Len(<<x>>) = 1 /\ <<x>>[1] = x
    OBVIOUS
  <1>6. /\ <<x>> \o f \in Seq(S) /\ Len(<<x>> \o f) = Len(f) + 1 /\ (<<x>> \o f)[1] = x
    BY <1>1, <1>5, ConcatProperties
  <1>7. Head(<<x>> \o f) = x
    BY <1>1, <1>6
  <1> HIDE DEF q
  <1>8. (q \o <<Top(p)>>) \o (<<x>> \o f) = (p \o <<x>>) \o f
    <2> DEFINE o == <<x>>
    <2>1. o \in Seq(S)
      BY <1>5
    <2> HIDE DEF o
    <2>2. p \o (o \o f) = (p \o o) \o f
      BY <2>1, ConcatAssociative
    <2>3. QED
      BY <2>2, <1>4 DEF o
  <1>9. QED
    BY <1>2, <1>3, <1>6, <1>7, <1>8 DEF q, Joined

\* One step forth.
LEMMA ForthJoined ==
    ASSUME NEW S, NEW p \in Seq(S), NEW x \in S, NEW f \in Seq(S), f # <<>>
    PROVE  /\ Append(p, x) \in Seq(S) /\ Len(Append(p, x)) = Len(p) + 1
           /\ Tail(f) \in Seq(S) /\ Len(Tail(f)) = Len(f) - 1
           /\ Head(f) \in S
           /\ Joined(Append(p, x), Head(f), Tail(f)) = Joined(p, x, f)
  <1>1. Len(p) \in Nat /\ Len(f) \in Nat \ {0}
    BY EmptySeq, LenProperties
  <1>2. /\ Append(p, x) \in Seq(S) /\ Len(Append(p, x)) = Len(p) + 1
        /\ Append(p, x) = p \o <<x>>
    BY AppendProperties, AppendIsConcat
  <1>3. Head(f) \in S /\ Tail(f) \in Seq(S) /\ Len(Tail(f)) = Len(f) - 1
    BY HeadTailProperties
  <1>4. <<Head(f)>> \o Tail(f) = f
    <2>1. Head(f) = f[1]
      BY <1>1
    <2>2. f = SubSeq(f, 1, Len(f))
      BY SubSeqFull
    <2>3. SubSeq(f, 1, Len(f)) = <<f[1]>> \o SubSeq(f, 1 + 1, Len(f))
      BY <1>1, SubSeqRecursiveFirst
    <2>4. Tail(f) = SubSeq(f, 2, Len(f))
      BY TailIsSubSeq
    <2>5. QED
      BY <2>1, <2>2, <2>3, <2>4
  <1>5. <<Head(f)>> \in Seq(S)
    BY <1>3
  <1>6. (Append(p, x) \o <<Head(f)>>) \o Tail(f) = Append(p, x) \o f
    BY <1>2, <1>3, <1>4, <1>5, ConcatAssociative
  <1>7. QED
    BY <1>2, <1>3, <1>6 DEF Joined

\* The last state of a line is corrected.
LEMMA AmendJoined ==
    ASSUME NEW S, NEW p \in Seq(S), NEW x \in S, NEW y \in S
    PROVE  /\ Len(Joined(p, x, <<>>)) = Len(p) + 1
           /\ Joined(p, y, <<>>) = [Joined(p, x, <<>>) EXCEPT ![Len(p) + 1] = y]
           /\ Joined(p, y, <<>>) = Append(p, y)
  <1>1. Len(p) \in Nat /\ <<>> \in Seq(S) /\ Len(<<>>) = 0
    BY EmptySeq, LenProperties
  <1>2. /\ Append(p, x) \in Seq(S) /\ Append(p, y) \in Seq(S)
        /\ Len(Append(p, x)) = Len(p) + 1 /\ Len(Append(p, y)) = Len(p) + 1
        /\ \A i \in 1..Len(p) : Append(p, x)[i] = p[i] /\ Append(p, y)[i] = p[i]
        /\ Append(p, y)[Len(p) + 1] = y
    BY AppendProperties
  <1>3. Joined(p, x, <<>>) = Append(p, x) /\ Joined(p, y, <<>>) = Append(p, y)
    <2>1. \A s \in Seq(S) : s \o <<>> = s
      BY ConcatEmptySeq
    <2>2. Joined(p, x, <<>>) = Append(p, x) \o <<>> /\ Joined(p, y, <<>>) = Append(p, y) \o <<>>
      BY JoinedIsAppend
    <2>3. QED
      BY <2>1, <2>2, <1>2, Zenon
  <1> DEFINE l == Append(p, x)
             m == Append(p, y)
             e == [l EXCEPT ![Len(p) + 1] = y]
  <1> HIDE DEF l, m
  <1>4. /\ l \in Seq(S) /\ m \in Seq(S) /\ Len(l) = Len(p) + 1 /\ Len(m) = Len(p) + 1
        /\ \A i \in 1..Len(p) : l[i] = m[i]
        /\ m[Len(p) + 1] = y
    BY <1>2 DEF l, m
  <1>5. Len(p) + 1 \in 1..Len(l)
    BY <1>1, <1>4
  <1>6. /\ e \in Seq(S) /\ Len(e) = Len(l)
        /\ \A j \in 1..Len(l) : e[j] = IF j = Len(p) + 1 THEN y ELSE l[j]
    BY <1>4, <1>5, ExceptSeq
  <1> HIDE DEF e
  <1>7. \A j \in 1..Len(m) : m[j] = e[j]
    BY <1>1, <1>4, <1>6
  <1>8. m = e
    BY <1>4, <1>6, <1>7, SeqEqual
  <1>9. QED
    BY <1>3, <1>4, <1>8 DEF l, m, e

\* A state is added to a past, of which the cap keeps the end.
LEMMA PushJoined ==
    ASSUME NEW S, NEW p \in Seq(S), NEW x \in S, NEW f \in Seq(S), Len(p) <= Cap,
           DistinctUpTo(p, Len(p)), p # <<>> => Top(p) # x
    PROVE  LET q == LastOf(Append(p, x), Cap)
           IN  /\ q \in Seq(S) /\ q # <<>> /\ Len(q) <= Cap
               /\ Top(q) = x
               /\ DistinctUpTo(q, Len(q))
               /\ q = SubSeq(Joined(p, x, f),
                             IF Len(p) + 1 > Cap THEN (Len(p) + 1) - Cap + 1 ELSE 1, Len(p) + 1)
  <1>1. Cap \in Nat \ {0} /\ Len(p) \in Nat
    BY CanvasHistoryAssumption, LenProperties
  <1> DEFINE h == Append(p, x)
             a == IF Len(p) + 1 > Cap THEN (Len(p) + 1) - Cap + 1 ELSE 1
             q == SubSeq(h, a, Len(p) + 1)
  <1>2. /\ h \in Seq(S) /\ Len(h) = Len(p) + 1
        /\ \A i \in 1..Len(p) : h[i] = p[i]
        /\ h[Len(p) + 1] = x
    BY AppendProperties
  <1>3. LastOf(h, Cap) = q
    <2> HIDE DEF h
    <2>1. Len(h) = Len(p) + 1
      BY <1>2
    <2>2. LastOf(h, Cap) = SubSeq(h, IF Len(h) > Cap THEN Len(h) - Cap + 1 ELSE 1, Len(h))
      BY DEF LastOf
    <2>3. a = IF Len(h) > Cap THEN Len(h) - Cap + 1 ELSE 1
      BY <2>1, <1>1
    <2> HIDE DEF a
    <2>4. QED
      BY <2>1, <2>2, <2>3, Zenon
  <1>4. SubSeq(Joined(p, x, f), a, Len(p) + 1) = q
    <2>1. Joined(p, x, f) = h \o f
      BY JoinedIsAppend
    <2>2. a \in 1..Len(h) /\ Len(p) + 1 \in 1..Len(h)
      BY <1>1, <1>2
    <2> HIDE DEF h, a
    <2>3. SubSeq(h \o f, a, Len(p) + 1) = SubSeq(h, a, Len(p) + 1)
      BY <1>2, <2>2, SubSeqOfConcat1
    <2>4. QED
      BY <2>1, <2>3
  <1> HIDE DEF h
  <1>5. a \in Nat \ {0} /\ a <= Len(p) + 1 /\ Len(p) + 1 - a + 1 <= Cap
    BY <1>1
  <1> HIDE DEF a
  <1>6. \A i \in a..(Len(p) + 1) : h[i] \in S
    BY <1>1, <1>2, <1>5, ElementOfSeq
  <1>7. /\ q \in Seq(S) /\ Len(q) = Len(p) + 1 - a + 1
        /\ \A i \in 1..(Len(p) + 1 - a + 1) : q[i] = h[a + i - 1]
    BY <1>1, <1>5, <1>6, SubSeqProperties
  <1> HIDE DEF q
  <1>8. Len(q) \in Nat \ {0} /\ Len(q) <= Cap /\ q # <<>>
    BY <1>1, <1>5, <1>7, EmptySeq
  <1>9. Top(q) = x
    <2>1. q[Len(q)] = h[a + Len(q) - 1] /\ a + Len(q) - 1 = Len(p) + 1
      BY <1>1, <1>5, <1>7, <1>8
    <2>2. QED
      BY <2>1, <1>2 DEF Top
  <1>10. ASSUME NEW i \in 1..(Len(q) - 1) PROVE q[i] # q[i + 1]
    <2> DEFINE j == a + i - 1
    <2>1. j \in 1..Len(p) /\ i \in 1..(Len(p) + 1 - a + 1) /\ i + 1 \in 1..(Len(p) + 1 - a + 1)
          /\ a + (i + 1) - 1 = j + 1
      BY <1>1, <1>5, <1>7, <1>8
    <2>2. q[i] = h[j] /\ q[i + 1] = h[j + 1]
      BY <2>1, <1>7
    <2> HIDE DEF j
    <2>3. CASE j = Len(p)
      BY <2>1, <2>2, <2>3, <1>1, <1>2, EmptySeq DEF Top
    <2>4. CASE j # Len(p)
      <3>1. j \in 1..(Len(p) - 1) /\ j + 1 \in 1..Len(p)
        BY <2>1, <2>4, <1>1
      <3>2. QED
        BY <3>1, <2>1, <2>2, <1>2 DEF DistinctUpTo
    <2>5. QED
      BY <2>3, <2>4
  <1>11. DistinctUpTo(q, Len(q))
    BY <1>10 DEF DistinctUpTo
  <1>12. QED
    BY <1>3, <1>4, <1>7, <1>8, <1>9, <1>11 DEF h, a

-----------------------------------------------------------------------------
(* The invariant and the refinement, step by step. *)

LEMMA LineIs == Line = Joined(past, prev, future)
  BY DEF Line, Joined

LEMMA NextLineIs == Line' = Joined(past', prev', future')
  BY DEF Line, Joined

\* The states of the past differ from their neighbours; so does the last one
\* from prevRef where something was undone.
LEMMA DistinctPast ==
    ASSUME TypeOK, Distinct
    PROVE  /\ DistinctUpTo(past, Len(past))
           /\ Duplicate => future = <<>>
  <1>1. /\ past \in Seq(Shows) /\ future \in Seq(Shows) /\ prev \in Shows
        /\ Len(past) \in Nat /\ Len(future) \in Nat
        /\ past # <<>> => Len(past) \in Nat \ {0}
        /\ future # <<>> => Len(future) \in Nat \ {0}
    BY EmptySeq, LenProperties DEF TypeOK
  <1> DEFINE l == Joined(past, prev, future)
  <1>2. /\ Len(l) = Len(past) + 1 + Len(future)
        /\ \A i \in 1..Len(past) : l[i] = past[i]
        /\ l[Len(past) + 1] = prev
    BY <1>1, JoinedElements
  <1>3. DistinctUpTo(l, Len(l) - 1)
    BY LineIs DEF Distinct
  <1> HIDE DEF l
  <1>4. DistinctUpTo(past, Len(past))
    <2>1. SUFFICES ASSUME NEW i \in 1..(Len(past) - 1) PROVE past[i] # past[i + 1]
      BY DEF DistinctUpTo
    <2>2. i \in 1..(Len(l) - 2) /\ i \in 1..Len(past) /\ i + 1 \in 1..Len(past)
      BY <1>1, <1>2
    <2>3. l[i] # l[i + 1]
      BY <2>2, <1>1, <1>2, <1>3 DEF DistinctUpTo
    <2>4. QED
      BY <2>2, <2>3, <1>2
  <1>5. ASSUME Duplicate, future # <<>> PROVE FALSE
    <2>1. past # <<>> /\ past[Len(past)] = prev /\ Len(past) \in Nat \ {0} /\ Len(future) \in Nat \ {0}
      BY <1>1, <1>5 DEF Duplicate, Top
    <2>2. Len(past) \in 1..(Len(l) - 2) /\ Len(past) \in 1..Len(past)
      BY <2>1, <1>2
    <2>3. l[Len(past)] # l[Len(past) + 1]
      BY <2>2, <1>1, <1>2, <1>3 DEF DistinctUpTo
    <2>4. QED
      BY <2>1, <2>2, <2>3, <1>2
  <1>6. QED
    BY <1>4, <1>5

\* A push forgets what was undone, saves prevRef, and extends the line unless
\* prevRef is on top already.
LEMMA PushStep ==
    ASSUME TypeOK, Distinct, Push
    PROVE  /\ past' \in Seq(Shows) /\ past' # <<>> /\ Len(past') <= Cap
           /\ Top(past') = prev
           /\ future' = <<>>
           /\ DistinctUpTo(past', Len(past'))
           /\ \/ past' = past /\ future = <<>>
              \/ past' = History!Kept
  <1>1. /\ past \in Seq(Shows) /\ future \in Seq(Shows) /\ prev \in Shows
        /\ Len(past) <= Cap
    BY DEF TypeOK
  <1>2. CASE Duplicate
    BY <1>1, <1>2, DistinctPast DEF Push, Duplicate
  <1>3. CASE ~Duplicate
    <2>1. past' = LastOf(Append(past, prev), Cap) /\ future' = <<>>
      BY <1>3 DEF Push
    <2>2. past # <<>> => Top(past) # prev
      BY <1>3 DEF Duplicate
    <2>3. DistinctUpTo(past, Len(past))
      BY DistinctPast
    <2> DEFINE q == LastOf(Append(past, prev), Cap)
    <2>4. /\ q \in Seq(Shows) /\ q # <<>> /\ Len(q) <= Cap
          /\ Top(q) = prev
          /\ DistinctUpTo(q, Len(q))
          /\ q = SubSeq(Joined(past, prev, future),
                        IF Len(past) + 1 > Cap THEN (Len(past) + 1) - Cap + 1 ELSE 1, Len(past) + 1)
      BY <1>1, <2>2, <2>3, PushJoined
    <2> HIDE DEF q
    <2>5. q = History!Kept
      <3>1. History!Kept = SubSeq(Line, IF Len(past) + 1 > Cap THEN (Len(past) + 1) - Cap + 1 ELSE 1,
                                  Len(past) + 1)
        BY DEF History!Kept
      <3>2. QED
        BY <2>4, <3>1, LineIs, Zenon
    <2>6. QED
      BY <2>1, <2>4, <2>5 DEF q
  <1>4. QED
    BY <1>2, <1>3

\* The line after a push and a commit that prevRef follows: the push extended
\* it or, when prevRef was on top already, its last state is corrected.
LEMMA SavedAndSynced ==
    ASSUME TypeOK, Distinct, Push, NEW s \in Shows, prev' = s
    PROVE  /\ Distinct'
           /\ History!Extend(s) \/ History!Amend(s)
  <1>1. /\ past \in Seq(Shows) /\ prev \in Shows
        /\ past' \in Seq(Shows) /\ future' = <<>>
        /\ DistinctUpTo(past', Len(past'))
        /\ \/ past' = past /\ future = <<>>
           \/ past' = History!Kept
    BY PushStep DEF TypeOK
  <1> DEFINE p == past'
  <1>2. /\ p \in Seq(Shows) /\ Len(p) \in Nat /\ DistinctUpTo(p, Len(p))
    BY <1>1, LenProperties
  <1>3. Line' = Joined(p, s, <<>>) /\ Line' = Append(p, s)
    BY <1>1, NextLineIs, AmendJoined
  <1> HIDE DEF p
  <1>4. DistinctUpTo(Append(p, s), Len(p))
    <2>1. \A i \in 1..Len(p) : Append(p, s)[i] = p[i]
      BY <1>2, AppendProperties
    <2> DEFINE h == Append(p, s)
    <2> HIDE DEF h
    <2>2. ASSUME NEW i \in 1..(Len(p) - 1) PROVE h[i] # h[i + 1]
      <3>1. i \in 1..Len(p) /\ i + 1 \in 1..Len(p)
        BY <1>2
      <3>2. h[i] = p[i] /\ h[i + 1] = p[i + 1]
        BY <2>1, <3>1 DEF h
      <3>3. QED
        BY <3>2, <1>2 DEF DistinctUpTo
    <2>3. QED
      BY <2>2 DEF DistinctUpTo, h
  <1>5. Len(Append(p, s)) - 1 = Len(p)
    BY <1>2, AppendProperties
  <1>6. Distinct'
    BY <1>3, <1>4, <1>5 DEF Distinct, DistinctUpTo
  <1>7. CASE past' = History!Kept
    <2>1. Line' = Append(History!Kept, s) /\ Len(past') + 1 = Len(History!Kept) + 1
      BY <1>3, <1>7 DEF p
    <2>2. QED
      BY <2>1, <1>6 DEF History!Extend
  <1>8. CASE past' = past /\ future = <<>>
    <2>1. Line = Joined(past, prev, <<>>)
      BY <1>8, LineIs
    <2>2. /\ Len(Line) = Len(past) + 1
          /\ Line' = [Line EXCEPT ![Len(past) + 1] = s]
      BY <2>1, <1>1, <1>3, <1>8, AmendJoined DEF p
    <2>3. QED
      BY <2>2, <1>6, <1>8 DEF History!Amend
  <1>9. QED
    BY <1>1, <1>7, <1>8

Implemented == [History!Next]_<<Line, Len(past) + 1>>

LEMMA GestureStep ==
    ASSUME IInv, NEW s \in Shows, Gesture(s) PROVE IInv' /\ Implemented
  <1>1. TypeOK /\ Distinct /\ Push /\ s \in Shows
    BY DEF IInv, Gesture
  <1>2. /\ shown' = s /\ prev' = s /\ pending' = FALSE /\ start' = None /\ loose' = FALSE
    BY DEF Gesture, Synced
  <1>3. past' \in Seq(Shows) /\ Len(past') <= Cap /\ future' = <<>>
    BY <1>1, PushStep
  <1>4. TypeOK'
    <2>1. future' \in Seq(Shows) /\ Len(future') = 0 /\ Len(past') \in Nat
      BY <1>3, EmptySeq, LenProperties
    <2>2. Len(past') + Len(future') <= Cap /\ s \in Shows
      BY <1>3, <2>1
    <2>3. QED
      BY <1>2, <1>3, <2>1, <2>2 DEF TypeOK
  <1>5. Distinct' /\ (History!Extend(s) \/ History!Amend(s))
    BY <1>1, <1>2, SavedAndSynced
  <1>6. ArmedAtEnd' /\ InStep'
    BY <1>2 DEF ArmedAtEnd, InStep, Began
  <1>7. QED
    BY <1>4, <1>5, <1>6 DEF IInv, Implemented, History!Next

\* A commit without a push: prevRef follows it only where the gate is armed.
LEMMA CommitStep ==
    ASSUME TypeOK, Distinct, ArmedAtEnd, NEW s \in Shows, Synced(s, pending), UNCHANGED <<past, future>>
    PROVE  /\ prev' \in Shows /\ pending' = FALSE
           /\ Distinct'
           /\ Implemented
  <1>1. prev \in Shows /\ pending \in BOOLEAN /\ past \in Seq(Shows)
    BY DEF TypeOK
  <1>2. prev' \in Shows /\ pending' = FALSE
    BY <1>1 DEF Synced
  <1>3. CASE pending
    <2>1. prev' = s /\ future = <<>> /\ future' = <<>> /\ past' = past
      BY <1>3 DEF Synced, ArmedAtEnd
    <2>2. Line = Joined(past, prev, <<>>) /\ Line' = Joined(past, s, <<>>)
      BY <2>1, LineIs, NextLineIs
    <2>3. /\ Len(Line) = Len(past) + 1
          /\ Line' = [Line EXCEPT ![Len(past) + 1] = s]
          /\ Line' = Append(past, s) /\ Line = Append(past, prev)
      BY <2>2, <1>1, AmendJoined
    <2>4. History!Amend(s)
      BY <2>1, <2>3 DEF History!Amend
    <2>5. DistinctUpTo(past, Len(past))
      BY DistinctPast
    <2>6. Distinct'
      <3> DEFINE h == Append(past, s)
      <3>1. Len(h) - 1 = Len(past) /\ Len(past) \in Nat /\ \A i \in 1..Len(past) : h[i] = past[i]
        BY <1>1, AppendProperties, LenProperties
      <3> HIDE DEF h
      <3>2. ASSUME NEW i \in 1..(Len(past) - 1) PROVE h[i] # h[i + 1]
        <4>1. i \in 1..Len(past) /\ i + 1 \in 1..Len(past)
          BY <3>1
        <4>2. QED
          BY <3>1, <4>1, <2>5 DEF DistinctUpTo
      <3>3. DistinctUpTo(h, Len(h) - 1)
        BY <3>1, <3>2 DEF DistinctUpTo
      <3>4. QED
        BY <3>3, <2>3 DEF Distinct, DistinctUpTo, h
    <2>7. QED
      BY <1>2, <2>4, <2>6 DEF Implemented, History!Next
  <1>4. CASE ~pending
    <2>1. prev' = prev
      BY <1>4 DEF Synced
    <2>2. Line' = Line /\ past' = past
      BY <2>1, LineIs, NextLineIs
    <2>3. QED
      BY <1>2, <2>2 DEF Implemented, Distinct, DistinctUpTo
  <1>5. QED
    BY <1>1, <1>3, <1>4

LEMMA LiveStep ==
    ASSUME IInv, NEW s \in Shows, Live(s) PROVE IInv' /\ Implemented
  <1>1. TypeOK /\ Distinct /\ ArmedAtEnd /\ InStep
    BY DEF IInv
  <1>2. /\ shown' = s /\ Synced(s, pending) /\ start' = Began
        /\ past' = past /\ future' = future /\ loose' = loose
    BY DEF Live
  <1>3. prev' \in Shows /\ pending' = FALSE /\ Distinct' /\ Implemented
    BY <1>1, <1>2, CommitStep
  <1>4. Began \in Shows
    BY <1>1 DEF Began, TypeOK
  <1>5. TypeOK'
    BY <1>1, <1>2, <1>3, <1>4 DEF TypeOK
  <1>6. InStep'
    <2>1. SUFFICES ASSUME ~loose PROVE prev' = Began'
      BY <1>2, <1>3 DEF InStep
    <2>2. ~pending /\ prev = Began
      BY <2>1, <1>1 DEF InStep
    <2>3. prev' = prev
      BY <2>2, <1>2 DEF Synced
    <2>4. Began' = Began
      BY <1>2, <1>4, CanvasHistoryAssumption DEF Began
    <2>5. QED
      BY <2>2, <2>3, <2>4
  <1>7. QED
    BY <1>3, <1>5, <1>6 DEF IInv, ArmedAtEnd

LEMMA HydrateStep ==
    ASSUME IInv, NEW s \in Shows, Hydrate(s) PROVE IInv' /\ Implemented
  <1>1. TypeOK /\ Distinct /\ ArmedAtEnd
    BY DEF IInv
  <1>2. /\ shown' = s /\ Synced(s, pending) /\ start' = start
        /\ past' = past /\ future' = future /\ loose' = TRUE
    BY DEF Hydrate
  <1>3. prev' \in Shows /\ pending' = FALSE /\ Distinct' /\ Implemented
    BY <1>1, <1>2, CommitStep
  <1>4. TypeOK'
    BY <1>1, <1>2, <1>3 DEF TypeOK
  <1>5. QED
    BY <1>2, <1>3, <1>4 DEF IInv, ArmedAtEnd, InStep

LEMMA ReleaseStep ==
    ASSUME IInv, Release PROVE IInv' /\ Implemented
  <1>1. TypeOK /\ Distinct /\ Push /\ prev \in Shows
    BY DEF IInv, Release, TypeOK
  <1>2. /\ shown' = shown /\ prev' = prev /\ pending' = TRUE /\ start' = None /\ loose' = TRUE
    BY DEF Release
  <1>3. past' \in Seq(Shows) /\ Len(past') <= Cap /\ future' = <<>>
    BY <1>1, PushStep
  <1>4. TypeOK'
    <2>1. future' \in Seq(Shows) /\ Len(future') = 0 /\ Len(past') \in Nat
      BY <1>3, EmptySeq, LenProperties
    <2>2. QED
      BY <1>1, <1>2, <1>3, <2>1 DEF TypeOK
  <1>5. Distinct' /\ (History!Extend(prev) \/ History!Amend(prev))
    BY <1>1, <1>2, SavedAndSynced
  <1>6. ArmedAtEnd' /\ InStep'
    BY <1>2, <1>3 DEF ArmedAtEnd, InStep
  <1>7. QED
    BY <1>1, <1>4, <1>5, <1>6 DEF IInv, Implemented, History!Next

LEMMA UndoStep ==
    ASSUME IInv, Undo PROVE IInv' /\ Implemented
  <1>1. /\ TypeOK /\ Distinct
        /\ past \in Seq(Shows) /\ future \in Seq(Shows) /\ prev \in Shows
        /\ Len(past) + Len(future) <= Cap /\ past # <<>>
        /\ Len(past) \in Nat \ {0} /\ Len(future) \in Nat /\ Cap \in Nat
    BY EmptySeq, LenProperties, CanvasHistoryAssumption DEF IInv, TypeOK, Undo
  <1>2. /\ past' = SubSeq(past, 1, Len(past) - 1) /\ future' = <<prev>> \o future
        /\ shown' = Top(past) /\ prev' = Top(past) /\ pending' = FALSE
        /\ start' = None /\ loose' = FALSE
    BY DEF Undo, Restore
  <1>3. /\ past' \in Seq(Shows) /\ Len(past') = Len(past) - 1
        /\ future' \in Seq(Shows) /\ Len(future') = Len(future) + 1
        /\ Top(past) \in Shows
        /\ Joined(past', prev', future') = Joined(past, prev, future)
    <2>1. /\ SubSeq(past, 1, Len(past) - 1) \in Seq(Shows)
          /\ Len(SubSeq(past, 1, Len(past) - 1)) = Len(past) - 1
          /\ <<prev>> \o future \in Seq(Shows) /\ Len(<<prev>> \o future) = Len(future) + 1
          /\ Top(past) \in Shows
          /\ Joined(SubSeq(past, 1, Len(past) - 1), Top(past), <<prev>> \o future)
               = Joined(past, prev, future)
      BY <1>1, BackJoined
    <2>2. QED
      BY <1>2, <2>1, Zenon
  <1>4. Line' = Line
    BY <1>3, LineIs, NextLineIs
  <1>5. TypeOK'
    <2>1. Len(past') <= Cap /\ Len(past') + Len(future') <= Cap
      BY <1>1, <1>3
    <2>2. shown' \in Shows /\ prev' \in Shows
      BY <1>2, <1>3
    <2>3. QED
      BY <1>2, <1>3, <2>1, <2>2 DEF TypeOK
  <1>6. History!Back
    BY <1>1, <1>3, <1>4 DEF History!Back
  <1>7. Distinct'
    BY <1>1, <1>4 DEF Distinct, DistinctUpTo
  <1>8. QED
    BY <1>2, <1>5, <1>6, <1>7 DEF IInv, ArmedAtEnd, InStep, Began, Implemented, History!Next

LEMMA RedoStep ==
    ASSUME IInv, Redo PROVE IInv' /\ Implemented
  <1>1. /\ TypeOK /\ Distinct
        /\ past \in Seq(Shows) /\ future \in Seq(Shows) /\ prev \in Shows
        /\ Len(past) + Len(future) <= Cap /\ future # <<>>
        /\ Len(past) \in Nat /\ Len(future) \in Nat \ {0} /\ Cap \in Nat
    BY EmptySeq, LenProperties, CanvasHistoryAssumption DEF IInv, TypeOK, Redo
  <1>2. /\ past' = Append(past, prev) /\ future' = Tail(future)
        /\ shown' = Head(future) /\ prev' = Head(future) /\ pending' = FALSE
        /\ start' = None /\ loose' = FALSE
    BY DEF Redo, Restore
  <1>3. /\ past' \in Seq(Shows) /\ Len(past') = Len(past) + 1
        /\ future' \in Seq(Shows) /\ Len(future') = Len(future) - 1
        /\ Head(future) \in Shows
        /\ Joined(past', prev', future') = Joined(past, prev, future)
    <2>1. /\ Append(past, prev) \in Seq(Shows) /\ Len(Append(past, prev)) = Len(past) + 1
          /\ Tail(future) \in Seq(Shows) /\ Len(Tail(future)) = Len(future) - 1
          /\ Head(future) \in Shows
          /\ Joined(Append(past, prev), Head(future), Tail(future)) = Joined(past, prev, future)
      BY <1>1, ForthJoined
    <2>2. QED
      BY <1>2, <2>1, Zenon
  <1>4. Line' = Line
    BY <1>3, LineIs, NextLineIs
  <1>5. TypeOK'
    <2>1. Len(past') <= Cap /\ Len(past') + Len(future') <= Cap
      BY <1>1, <1>3
    <2>2. shown' \in Shows /\ prev' \in Shows
      BY <1>2, <1>3
    <2>3. QED
      BY <1>2, <1>3, <2>1, <2>2 DEF TypeOK
  <1>6. History!Forth
    <2>1. Len(Line) = Len(past) + 1 + Len(future)
      BY <1>1, LineIs, JoinedElements
    <2>2. QED
      BY <2>1, <1>1, <1>3, <1>4 DEF History!Forth
  <1>7. Distinct'
    BY <1>1, <1>4 DEF Distinct, DistinctUpTo
  <1>8. QED
    BY <1>2, <1>5, <1>6, <1>7 DEF IInv, ArmedAtEnd, InStep, Began, Implemented, History!Next

LEMMA NextStep == ASSUME IInv, [Next]_vars PROVE IInv' /\ Implemented
  <1>1. CASE \E s \in Shows : Gesture(s)
    BY <1>1, GestureStep
  <1>2. CASE \E s \in Shows : Live(s)
    BY <1>2, LiveStep
  <1>3. CASE \E s \in Shows : Hydrate(s)
    BY <1>3, HydrateStep
  <1>4. CASE Release
    BY <1>4, ReleaseStep
  <1>5. CASE Undo
    BY <1>5, UndoStep
  <1>6. CASE Redo
    BY <1>6, RedoStep
  <1>7. CASE UNCHANGED vars
    BY <1>7 DEF vars, IInv, TypeOK, Distinct, DistinctUpTo, Line, ArmedAtEnd, InStep, Began, Implemented
  <1>8. QED
    BY <1>1, <1>2, <1>3, <1>4, <1>5, <1>6, <1>7 DEF Next

LEMMA InitHolds == ASSUME Init PROVE IInv /\ History!Init
  <1>1. shown \in Shows /\ prev = shown /\ past = <<>> /\ future = <<>> /\ start = None
        /\ pending = FALSE /\ loose = FALSE
    BY DEF Init
  <1>2. <<>> \in Seq(Shows) /\ Len(<<>>) = 0
    BY EmptySeq
  <1>3. TypeOK
    <2>1. /\ past \in Seq(Shows) /\ future \in Seq(Shows)
          /\ Len(past) = 0 /\ Len(future) = 0
      BY <1>1, <1>2
    <2>2. Len(past) <= Cap /\ Len(past) + Len(future) <= Cap
      BY <2>1, CanvasHistoryAssumption
    <2>3. QED
      BY <1>1, <2>1, <2>2 DEF TypeOK
  <1>4. Line = <<shown>>
    <2>1. Line = Joined(<<>>, shown, <<>>)
      BY <1>1, LineIs
    <2>2. Joined(<<>>, shown, <<>>) = Append(<<>>, shown)
      <3> DEFINE e == <<>>
      <3>1. e \in Seq(Shows) /\ shown \in Shows
        BY <1>1, <1>2
      <3> HIDE DEF e
      <3>2. \A f : Joined(e, shown, f) = Append(e, shown) \o f
        BY <3>1, JoinedIsAppend
      <3>3. Append(e, shown) \in Seq(Shows)
        BY <3>1, AppendProperties
      <3>4. Append(e, shown) \o <<>> = Append(e, shown)
        BY <3>3, ConcatEmptySeq
      <3>5. QED
        BY <3>2, <3>4 DEF e
    <2>3. QED
      BY <2>1, <2>2
  <1>5. Distinct
    BY <1>4 DEF Distinct, DistinctUpTo
  <1>6. ArmedAtEnd /\ InStep
    BY <1>1 DEF ArmedAtEnd, InStep, Began
  <1>7. History!Init
    BY <1>1, <1>2, <1>4 DEF History!Init
  <1>8. QED
    BY <1>3, <1>5, <1>6, <1>7 DEF IInv

-----------------------------------------------------------------------------
(* Theorems. *)

THEOREM IInvAlways == Spec => []IInv
  BY InitHolds, NextStep, PTL DEF Spec

\* Every variable keeps its type: the stack never outgrows its cap, nor do the
\* past and what was undone together (useHistoryStack.ts).
THEOREM TypeCorrect == Spec => []TypeOK
  BY IInvAlways, PTL DEF IInv

\* The stack with prevRef is a line of states on which undo and redo only move
\* (useHistoryStack.ts under useCanvasHistory.ts).
THEOREM UndoRedoImplemented == Spec => ImplementsUndoRedo
  <1>1. IInv /\ [Next]_vars => [History!Next]_History!vars
    BY NextStep DEF Implemented, History!vars
  <1>2. Init => History!Init
    BY InitHolds
  <1>3. QED
    BY IInvAlways, <1>1, <1>2, PTL DEF Spec, ImplementsUndoRedo, History!Spec

\* While the history is in step, a gesture saves what was shown when it began
\* and an undo what it takes back (useCanvasHistory.ts, pendingSyncRef).
THEOREM WhatWasShownIsSaved == Spec => SavesWhatWasShown
  <1> DEFINE Saves == ~loose =>
         /\ (Release \/ \E s \in Shows : Gesture(s)) => past' # <<>> /\ Top(past') = Began
         /\ Undo /\ start = None => Head(future') = shown
  <1>1. ASSUME IInv PROVE Saves
    <2>1. SUFFICES ASSUME ~loose
                   PROVE  /\ Push => past' # <<>> /\ Top(past') = Began
                          /\ Undo /\ start = None => Head(future') = shown
      BY DEF Release, Gesture
    <2>2. TypeOK /\ Distinct /\ prev = Began
      BY <1>1, <2>1 DEF IInv, InStep
    <2>3. Push => past' # <<>> /\ Top(past') = Began
      BY <2>2, PushStep
    <2>4. ASSUME Undo, start = None PROVE Head(future') = shown
      <3>1. prev = shown /\ future' = <<prev>> \o future
        BY <2>2, <2>4 DEF Began, Undo
      <3>2. past \in Seq(Shows) /\ past # <<>> /\ prev \in Shows /\ future \in Seq(Shows)
        BY <2>2, <2>4 DEF TypeOK, Undo
      <3>3. Head(<<prev>> \o future) = prev
        BY <3>2, BackJoined
      <3>4. QED
        BY <3>1, <3>3
    <2>5. QED
      BY <2>3, <2>4
  <1>2. IInv /\ [Next]_vars => [Saves]_vars
    BY <1>1
  <1>3. QED
    BY IInvAlways, <1>2, PTL DEF Spec, SavesWhatWasShown
=============================================================================
