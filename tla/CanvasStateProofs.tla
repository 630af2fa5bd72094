--------------------------- MODULE CanvasStateProofs ---------------------------
(***************************************************************************)
(* Proofs about CanvasState, for any requests, connections, teams and      *)
(* facts, and any quota and cap.  The history is bounded by itself; that   *)
(* no insert collides rests on what a PUT knows between its second look-up *)
(* and its insert, and on the lock that keeps the knowledge true; the      *)
(* quota and the answer of a GET, on all it read since it took the lock.   *)
(***************************************************************************)
EXTENDS CanvasState, FiniteSetTheorems, TLAPS

-----------------------------------------------------------------------------
(* Sequences. *)

\* A history with one checksum more, below and at its cap.
LEMMA AppendedLonger ==
    ASSUME NEW S, NEW h \in Seq(S), NEW x \in S
    PROVE  /\ Append(h, x) \in Seq(S)
           /\ Len(Append(h, x)) = Len(h) + 1
           /\ \A i \in 1..Len(h) : Append(h, x)[i] = h[i]
           /\ Append(h, x)[Len(h) + 1] = x
  OBVIOUS

LEMMA OldestForgotten ==
    ASSUME NEW S, NEW h \in Seq(S), NEW n \in Nat \ {0}, Len(h) = n
    PROVE  /\ SubSeq(h, 2, n) \in Seq(S)
           /\ Len(SubSeq(h, 2, n)) = n - 1
           /\ \A i \in 1..(n - 1) : SubSeq(h, 2, n)[i] = h[i + 1]
  OBVIOUS

\* Appended keeps a history within its cap and free of repetitions.
LEMMA AppendedBounded ==
    ASSUME NEW h \in Seq(Checksums), NEW x \in Checksums,
           Len(h) <= HistoryCap,
           \A i, j \in DOMAIN h : h[i] = h[j] => i = j,
           x \notin { h[i] : i \in DOMAIN h }
    PROVE  /\ Appended(h, x) \in Seq(Checksums)
           /\ Len(Appended(h, x)) <= HistoryCap
           /\ \A i, j \in DOMAIN Appended(h, x) :
                 Appended(h, x)[i] = Appended(h, x)[j] => i = j
  <1> HistoryCap \in Nat \ {0}
    BY CanvasStateAssumption
  <1> DEFINE kept == IF Len(h) >= HistoryCap THEN SubSeq(h, 2, HistoryCap) ELSE h
             shift == IF Len(h) >= HistoryCap THEN 1 ELSE 0
  <1>1. /\ kept \in Seq(Checksums)
        /\ Len(kept) = Len(h) - shift /\ Len(kept) < HistoryCap
        /\ \A i \in 1..Len(kept) : kept[i] = h[i + shift]
    <2>1. CASE Len(h) >= HistoryCap
      <3>1. Len(h) = HistoryCap
        BY <2>1
      <3>2. QED
        BY <2>1, <3>1, OldestForgotten
    <2>2. CASE ~(Len(h) >= HistoryCap)
      BY <2>2
    <2>3. QED
      BY <2>1, <2>2
  <1>2. \A i \in 1..Len(kept) : i + shift \in DOMAIN h
    BY <1>1
  <1>3. \A i \in 1..Len(kept) : kept[i] # x
    BY <1>1, <1>2
  <1>4. \A i, j \in 1..Len(kept) : kept[i] = kept[j] => i = j
    BY <1>1, <1>2
  <1> HIDE DEF kept, shift
  <1>5. /\ Append(kept, x) \in Seq(Checksums)
        /\ Len(Append(kept, x)) = Len(kept) + 1
        /\ \A i \in 1..Len(kept) : Append(kept, x)[i] = kept[i]
        /\ Append(kept, x)[Len(kept) + 1] = x
    BY <1>1, AppendedLonger
  <1>6. Appended(h, x) = Append(kept, x)
    BY DEF Appended, kept
  <1>7. DOMAIN Append(kept, x) = 1..(Len(kept) + 1)
    BY <1>5
  <1>8. \A i, j \in 1..(Len(kept) + 1) : Append(kept, x)[i] = Append(kept, x)[j] => i = j
    <2> TAKE i, j \in 1..(Len(kept) + 1)
    <2>1. CASE i = Len(kept) + 1 /\ j = Len(kept) + 1
      BY <2>1
    <2>2. CASE i \in 1..Len(kept) /\ j \in 1..Len(kept)
      BY <2>2, <1>4, <1>5
    <2>3. CASE i = Len(kept) + 1 /\ j \in 1..Len(kept)
      BY <2>3, <1>3, <1>5
    <2>4. CASE j = Len(kept) + 1 /\ i \in 1..Len(kept)
      BY <2>4, <1>3, <1>5
    <2>5. QED
      BY <1>1, <2>1, <2>2, <2>3, <2>4
  <1>9. QED
    BY <1>1, <1>5, <1>6, <1>7, <1>8

-----------------------------------------------------------------------------
(* Types. *)

\* A heartbeat that got past its patch sent a checksum.
BeatsCarry ==
    \A r \in Requests : req[r].op = "beat" /\ req[r].at # "patch" => req[r].sent.cs # None

LEMMA RowTyped ==
    ASSUME TypeOK, NEW k \in rows
    PROVE  /\ canvas[k] \in Row
           /\ canvas[k].on \in Conns /\ canvas[k].fp \in Prints \cup {None}
           /\ canvas[k].history \in Seq(Checksums)
  BY DEF TypeOK, Row

LEMMA IdleTyped == Idle \in Request
  <1>1. (CHOOSE c \in Conns : TRUE) \in Conns
    BY CanvasStateAssumption
  <1>2. QED
    BY <1>1 DEF Idle, Request, NoFacts, Facts

LEMMA TypeInit == Init => TypeOK
  <1> SUFFICES ASSUME Init PROVE TypeOK
    OBVIOUS
  <1>1. rows = {} /\ canvas \in [rows -> Row]
    BY DEF Init, rows
  <1>2. req \in [Requests -> Request]
    BY IdleTyped DEF Init
  <1>3. QED
    BY <1>1, <1>2, CanvasStateAssumption DEF Init, TypeOK

\* A request that ends leaves req and lock typed.
LEMMA EndsTyped ==
    ASSUME TypeOK, NEW r \in Requests, Ends(r)
    PROVE  req' \in [Requests -> Request] /\ lock' \in Requests \cup {None}
  BY IdleTyped DEF Ends, TypeOK

LEMMA AnswersTyped ==
    ASSUME TypeOK, NEW r \in Requests, NEW a \in {"ok", "quota", "collision", "gone"},
           Answers(r, a)
    PROVE  /\ req' \in [Requests -> Request] /\ lock' \in Requests \cup {None}
           /\ answer' \in [Requests -> {"none", "ok", "quota", "collision", "gone"}]
  BY EndsTyped DEF Answers, TypeOK

LEMMA PatchedTyped ==
    ASSUME NEW old \in Facts, NEW new \in Facts
    PROVE  Patched(old, new) \in Facts
  BY DEF Patched, Facts

LEMMA StartTyped ==
    ASSUME TypeOK, NEW r \in Requests, NEW op \in {"put", "delete", "beat"},
           NEW c \in Conns, NEW f \in Facts, reports' \in 0..MaxReports, Start(r, op, c, f)
    PROVE  TypeOK'
  <1> DEFINE new == [op |-> op, on |-> c, pass |-> "check", sent |-> f,
                     facts |-> NoFacts, found |-> None,
                     at |-> CASE op = "put" -> "lock"
                              [] op = "delete" -> "facts"
                              [] OTHER -> "patch"]
  <1>1. new \in Request
    BY DEF Request, NoFacts, Facts
  <1>2. req' = [req EXCEPT ![r] = new]
    BY DEF Start
  <1> HIDE DEF new
  <1>3. req' \in [Requests -> Request]
    BY <1>1, <1>2 DEF TypeOK
  <1>4. QED
    BY <1>3 DEF TypeOK, Start, rows

LEMMA GoesTyped ==
    ASSUME TypeOK, NEW r \in Requests,
           NEW step \in {"facts", "print", "history", "legacy", "count", "write", "event"},
           Goes(r, step)
    PROVE  req' \in [Requests -> Request]
  <1>1. [req[r] EXCEPT !.at = step] \in Request
    BY DEF TypeOK, Request
  <1>2. QED
    BY <1>1 DEF Goes, TypeOK

LEMMA LookupTyped ==
    ASSUME TypeOK, NEW r \in Requests,
           NEW step, NEW matches \in SUBSET rows,
           NEW next \in {"history", "legacy", "count", "write"}, Lookup(r, step, matches, next)
    PROVE  TypeOK'
  <1>1. AfterResolve(r) \in {"count", "write"} /\ NoFacts \in Facts
    BY DEF AfterResolve, NoFacts, Facts
  <1>2. req' \in [Requests -> Request]
    <2>1. CASE Goes(r, next)
      BY <2>1, GoesTyped
    <2>2. CASE \E k \in matches :
                 req' = [req EXCEPT ![r].at = AfterResolve(r), ![r].found = k, ![r].facts = NoFacts]
      <3>1. PICK k \in matches :
                 req' = [req EXCEPT ![r].at = AfterResolve(r), ![r].found = k, ![r].facts = NoFacts]
        BY <2>2
      <3>2. k \in Ids
        BY DEF TypeOK
      <3>3. [req[r] EXCEPT !.at = AfterResolve(r), !.found = k, !.facts = NoFacts] \in Request
        BY <1>1, <3>2, ZenonT(40) DEF TypeOK, Request
      <3>4. QED
        BY <3>1, <3>3 DEF TypeOK
    <2>3. QED
      BY <2>1, <2>2 DEF Lookup
  <1>3. QED
    BY <1>2 DEF Lookup, TypeOK, rows

LEMMA TypeStep == TypeOK /\ BeatsCarry /\ [Next]_vars => TypeOK'
  <1> SUFFICES ASSUME TypeOK, BeatsCarry, [Next]_vars PROVE TypeOK'
    OBVIOUS
  <1> USE CanvasStateAssumption
  <1>0. NoFacts \in Facts
    BY DEF NoFacts, Facts
  <1>1. ASSUME NEW r \in Requests, Put(r) PROVE TypeOK'
    <2>1. reports' \in 0..MaxReports
      BY <1>1 DEF Put, TypeOK
    <2>2. QED
      BY <1>0, <1>1, <2>1, StartTyped DEF Put
  <1>2. ASSUME NEW r \in Requests, Delete(r) PROVE TypeOK'
    <2>1. reports' \in 0..MaxReports
      BY <1>2 DEF Delete, TypeOK
    <2>2. QED
      BY <1>0, <1>2, <2>1, StartTyped DEF Delete
  <1>3. ASSUME NEW r \in Requests, Beat(r) PROVE TypeOK'
    <2>1. reports' \in 0..MaxReports
      BY <1>3 DEF Beat, Report, TypeOK
    <2>2. QED
      BY <1>3, <2>1, StartTyped DEF Beat
  <1>4. ASSUME NEW r \in Requests, Lock(r) PROVE TypeOK'
    <2>1. req' \in [Requests -> Request]
      BY <1>4, GoesTyped DEF Lock
    <2>2. QED
      BY <1>4, <2>1 DEF Lock, TypeOK, rows
  <1>5. ASSUME NEW r \in Requests, ReadFacts(r) PROVE TypeOK'
    <2>1. [req[r] EXCEPT !.at = "print", !.facts = known[req[r].on]] \in Request
      <3>1. req[r] \in Request /\ req[r].on \in Conns
        BY DEF TypeOK, Request
      <3>2. known[req[r].on] \in Facts
        BY <3>1 DEF TypeOK
      <3>3. QED
        BY <3>1, <3>2 DEF Request
    <2>2. req' \in [Requests -> Request]
      BY <1>5, <2>1 DEF ReadFacts, TypeOK
    <2>3. QED
      BY <1>5, <2>2 DEF ReadFacts, TypeOK, rows
  <1>6. ASSUME NEW r \in Requests, SelectByPrint(r) PROVE TypeOK'
    <2>1. ByPrint(req[r].on, req[r].facts) \in SUBSET rows
      BY DEF ByPrint, SameTeam
    <2>2. QED
      BY <1>6, <2>1, LookupTyped DEF SelectByPrint
  <1>7. ASSUME NEW r \in Requests, SelectByHistory(r) PROVE TypeOK'
    <2>1. ByHistory(req[r].on, req[r].facts) \in SUBSET rows
      BY DEF ByHistory, SameTeam
    <2>2. QED
      BY <1>7, <2>1, LookupTyped DEF SelectByHistory
  <1>8. ASSUME NEW r \in Requests, SelectLegacy(r) PROVE TypeOK'
    <2>1. ByConnection(req[r].on) \in SUBSET rows
      BY DEF ByConnection
    <2>2. AfterResolve(r) \in {"count", "write"}
      BY DEF AfterResolve
    <2>3. QED
      BY <1>8, <2>1, <2>2, LookupTyped DEF SelectLegacy
  <1>9. ASSUME NEW r \in Requests, PutCount(r) PROVE TypeOK'
    <2>1. CASE OverQuota(r)
      BY <1>9, <2>1, AnswersTyped DEF PutCount, TypeOK, rows
    <2>2. CASE ~OverQuota(r)
      <3>1. [req[r] EXCEPT !.pass = "write", !.at = "facts", !.found = None,
                           !.facts = NoFacts] \in Request
        <4>1. req[r] \in Request
          BY DEF TypeOK
        <4>2. QED
          BY <1>0, <4>1 DEF Request
      <3>2. req' \in [Requests -> Request]
        BY <1>9, <2>2, <3>1 DEF PutCount, TypeOK
      <3>3. QED
        BY <1>9, <2>2, <3>2 DEF PutCount, TypeOK, rows
    <2>3. QED
      BY <2>1, <2>2
  <1>10. ASSUME NEW r \in Requests, PutUpdate(r) PROVE TypeOK'
    BY <1>10, AnswersTyped DEF PutUpdate, TypeOK, rows
  <1>11. ASSUME NEW r \in Requests, PutInsert(r) PROVE TypeOK'
    <2>1. CASE Clashes(r) # {}
      BY <1>11, <2>1, AnswersTyped DEF PutInsert, TypeOK, rows
    <2>2. CASE Clashes(r) = {}
      <3> DEFINE new == CHOOSE k \in FreshIds : TRUE
      <3>1. new \in Ids
        BY <1>11, <2>2 DEF PutInsert, FreshIds
      <3>2. NewRow(r) \in Row
        BY DEF NewRow, Row, TypeOK, Request, Facts
      <3>3. canvas' = [k \in rows \cup {new} |-> IF k = new THEN NewRow(r) ELSE canvas[k]]
        BY <1>11, <2>2 DEF PutInsert
      <3> HIDE DEF new
      <3>4. rows' = rows \cup {new} /\ canvas' \in [rows' -> Row]
        BY <3>1, <3>2, <3>3, RowTyped DEF rows
      <3>5. Answers(r, "ok")
        BY <1>11, <2>2 DEF PutInsert
      <3>6. QED
        BY <1>11, <3>1, <3>4, <3>5, AnswersTyped DEF PutInsert, TypeOK
    <2>3. QED
      BY <2>1, <2>2
  <1>12. ASSUME NEW r \in Requests, DeleteRow(r) PROVE TypeOK'
    <2>1. rows' = rows \ {req[r].found} /\ canvas' \in [rows' -> Row]
      BY <1>12, RowTyped DEF DeleteRow, rows
    <2>2. Answers(r, "ok") /\ disturbed' \subseteq Requests
      BY <1>12 DEF DeleteRow, Disturbed, TypeOK
    <2>3. QED
      BY <1>12, <2>1, <2>2, AnswersTyped DEF DeleteRow, TypeOK
  <1>13. ASSUME NEW r \in Requests, BeatPatch(r) PROVE TypeOK'
    <2>1. known' \in [Conns -> Facts]
      BY <1>13, PatchedTyped DEF BeatPatch, TypeOK, Request
    <2>2. disturbed' \subseteq Requests
      BY <1>13 DEF BeatPatch, Disturbed, TypeOK
    <2>3. /\ req' \in [Requests -> Request] /\ lock' \in Requests \cup {None}
          /\ answer' \in [Requests -> {"none", "ok", "quota", "collision", "gone"}]
      <3>1. CASE req[r].sent.cs = None
        BY <1>13, <3>1, AnswersTyped DEF BeatPatch
      <3>2. CASE req[r].sent.cs # None
        BY <1>13, <3>2 DEF BeatPatch, Goes, TypeOK, Request
      <3>3. QED
        BY <3>1, <3>2
    <2>4. QED
      BY <1>13, <2>1, <2>2, <2>3 DEF BeatPatch, TypeOK, rows
  <1>14. ASSUME NEW r \in Requests, BeatAppend(r) PROVE TypeOK'
    <2> DEFINE k == req[r].found  x == req[r].sent.cs
    <2>1. CASE k = None
      BY <1>14, <2>1, AnswersTyped DEF BeatAppend, TypeOK, rows
    <2>2. CASE k # None
      <3>1. rows' = rows /\ canvas' \in [rows -> Row]
        <4>1. CASE k \in rows /\ x \notin Seen(k)
          <5>1. x \in Checksums
            BY <1>14 DEF BeatAppend, Writes, BeatsCarry, TypeOK, Request, Facts
          <5>2. Appended(canvas[k].history, x) \in Seq(Checksums)
            BY <4>1, <5>1, RowTyped DEF Appended
          <5>3. canvas' = [canvas EXCEPT ![k].history = Appended(@, x)]
            BY <1>14, <2>2, <4>1 DEF BeatAppend
          <5>4. QED
            BY <4>1, <5>2, <5>3, RowTyped DEF rows, Row, TypeOK
        <4>2. CASE ~(k \in rows /\ x \notin Seen(k))
          BY <1>14, <2>2, <4>2 DEF BeatAppend, TypeOK, rows
        <4>3. QED
          BY <4>1, <4>2
      <3>2. disturbed' \subseteq Requests /\ req' \in [Requests -> Request]
        BY <1>14, <2>2 DEF BeatAppend, Disturbed, Goes, TypeOK, Request
      <3>3. QED
        BY <1>14, <2>2, <3>1, <3>2 DEF BeatAppend, TypeOK
    <2>3. QED
      BY <2>1, <2>2
  <1>15. ASSUME NEW r \in Requests, BeatEvent(r) PROVE TypeOK'
    BY <1>15, AnswersTyped DEF BeatEvent, TypeOK, rows
  <1>16. ASSUME NEW r \in Requests, Drop(r) PROVE TypeOK'
    BY <1>16, EndsTyped DEF Drop, TypeOK, rows
  <1>17. ASSUME NEW c \in Conns, NEW f \in Facts, Pair(c, f) PROVE TypeOK'
    <2>1. known' \in [Conns -> Facts]
      BY <1>17, PatchedTyped DEF Pair, TypeOK
    <2>2. QED
      BY <1>17, <2>1 DEF Pair, Report, Disturbed, TypeOK, rows
  <1>18. CASE UNCHANGED vars
    BY <1>18 DEF vars, TypeOK, rows
  <1>19. QED
    BY <1>1, <1>2, <1>3, <1>4, <1>5, <1>6, <1>7, <1>8, <1>9, <1>10, <1>11, <1>12, <1>13,
       <1>14, <1>15, <1>16, <1>17, <1>18 DEF Next, Advance

\* The steps of a request leave what it was asked; others are not its concern.
SameQuestion(r, s) ==
    /\ req'[s].op = req[s].op /\ req'[s].sent = req[s].sent /\ req'[s].on = req[s].on
    /\ s # r => req'[s] = req[s]

LEMMA AdvanceKeepsQuestion ==
    ASSUME TypeOK, NEW r \in Requests, NEW s \in Requests,
           \/ Lock(r) \/ ReadFacts(r) \/ SelectByPrint(r) \/ SelectByHistory(r)
           \/ SelectLegacy(r) \/ (PutCount(r) /\ ~OverQuota(r))
    PROVE  SameQuestion(r, s) /\ req[r].at \notin {"idle", "patch"}
  <1> USE DEF TypeOK, Request, SameQuestion
  <1>1. CASE Lock(r)
    BY <1>1 DEF Lock, Goes
  <1>2. CASE ReadFacts(r)
    BY <1>2 DEF ReadFacts
  <1>3. ASSUME NEW step \in {"print", "history", "legacy"}, NEW matches, NEW next,
               Lookup(r, step, matches, next)
        PROVE  SameQuestion(r, s) /\ req[r].at \notin {"idle", "patch"}
    <2>1. CASE Goes(r, next)
      BY <1>3, <2>1 DEF Lookup, Goes
    <2>2. CASE \E k \in matches :
                 req' = [req EXCEPT ![r].at = AfterResolve(r), ![r].found = k, ![r].facts = NoFacts]
      <3>1. PICK k \in matches :
                 req' = [req EXCEPT ![r].at = AfterResolve(r), ![r].found = k, ![r].facts = NoFacts]
        BY <2>2
      <3>2. req \in [Requests -> Request] /\ req[r].at = step
        BY <1>3 DEF Lookup
      <3>3. s # r => req'[s] = req[s]
        BY <3>1, <3>2
      <3>4. req'[r] = [req[r] EXCEPT !.at = AfterResolve(r), !.found = k, !.facts = NoFacts]
        BY <3>1, <3>2
      <3>5. QED
        BY <3>2, <3>3, <3>4, ZenonT(40)
    <2>3. QED
      BY <1>3, <2>1, <2>2 DEF Lookup
  <1>4. CASE SelectByPrint(r) \/ SelectByHistory(r) \/ SelectLegacy(r)
    BY <1>3, <1>4 DEF SelectByPrint, SelectByHistory, SelectLegacy
  <1>5. CASE PutCount(r) /\ ~OverQuota(r)
    BY <1>5 DEF PutCount
  <1>6. QED
    BY <1>1, <1>2, <1>4, <1>5

LEMMA BeatsCarryStep == TypeOK /\ BeatsCarry /\ [Next]_vars => BeatsCarry'
  <1> SUFFICES ASSUME TypeOK, BeatsCarry, [Next]_vars, NEW s \in Requests,
                      req'[s].op = "beat", req'[s].at # "patch"
               PROVE  req'[s].sent.cs # None
    BY DEF BeatsCarry
  <1> USE DEF BeatsCarry
  <1>1. CASE req'[s] = req[s]
    BY <1>1
  <1>2. CASE req'[s] = Idle
    BY <1>2 DEF Idle
  <1>3. ASSUME NEW r \in Requests, Put(r) \/ Delete(r) \/ Beat(r)
        PROVE  req'[s].sent.cs # None
    BY <1>1, <1>3 DEF Put, Delete, Beat, Start, TypeOK
  <1>4. ASSUME NEW r \in Requests, SameQuestion(r, s), req[r].at \notin {"idle", "patch"}
        PROVE  req'[s].sent.cs # None
    BY <1>1, <1>4 DEF SameQuestion
  <1>5. ASSUME NEW r \in Requests, Ends(r)
        PROVE  req'[s].sent.cs # None
    BY <1>1, <1>2, <1>5 DEF Ends, TypeOK
  <1>6. ASSUME NEW r \in Requests, Goes(r, "facts") \/ Goes(r, "event"),
               req[r].at = "patch" => req[r].sent.cs # None
        PROVE  req'[s].sent.cs # None
    BY <1>1, <1>6 DEF Goes, TypeOK, Request
  <1>7. ASSUME NEW r \in Requests, BeatPatch(r) \/ BeatAppend(r)
        PROVE  req'[s].sent.cs # None
    BY <1>5, <1>6, <1>7 DEF BeatPatch, BeatAppend, Writes, Answers
  <1>8. ASSUME NEW r \in Requests, \/ PutUpdate(r) \/ PutInsert(r) \/ DeleteRow(r)
                                   \/ BeatEvent(r) \/ Drop(r) \/ (PutCount(r) /\ OverQuota(r))
        PROVE  req'[s].sent.cs # None
    BY <1>5, <1>8 DEF PutUpdate, PutInsert, DeleteRow, BeatEvent, Drop, PutCount, Answers
  <1>9. ASSUME NEW c \in Conns, NEW f \in Facts, Pair(c, f)
        PROVE  req'[s].sent.cs # None
    BY <1>1, <1>9 DEF Pair
  <1>10. CASE UNCHANGED vars
    BY <1>1, <1>10 DEF vars
  <1>11. ASSUME NEW r \in Requests, Lock(r) \/ Advance(r)
         PROVE  req'[s].sent.cs # None
    BY <1>4, <1>7, <1>8, <1>11, AdvanceKeepsQuestion DEF Advance
  <1>12. QED
    BY <1>3, <1>8, <1>9, <1>10, <1>11 DEF Next

\* The table, the lock and the requests keep their types.
THEOREM TypeCorrect == Spec => []TypeOK
  <1>1. Init => BeatsCarry
    BY DEF Init, BeatsCarry, Idle
  <1>2. Spec => [](TypeOK /\ BeatsCarry)
    BY <1>1, TypeInit, TypeStep, BeatsCarryStep, PTL DEF Spec
  <1>3. QED
    BY <1>2, PTL

-----------------------------------------------------------------------------
(* The history of a canvas. *)

LEMMA HistoryStep == TypeOK /\ BeatsCarry /\ HistoryBounded /\ [Next]_vars => HistoryBounded'
  <1> SUFFICES ASSUME TypeOK, BeatsCarry, HistoryBounded, [Next]_vars PROVE HistoryBounded'
    OBVIOUS
  <1> USE CanvasStateAssumption
  <1>1. CASE UNCHANGED canvas
    BY <1>1 DEF HistoryBounded, rows
  <1>2. ASSUME NEW r \in Requests, DeleteRow(r) PROVE HistoryBounded'
    BY <1>2 DEF DeleteRow, HistoryBounded, rows
  <1>3. ASSUME NEW r \in Requests, PutInsert(r) PROVE HistoryBounded'
    <2>1. CASE Clashes(r) # {}
      BY <1>1, <1>3, <2>1 DEF PutInsert
    <2>2. CASE Clashes(r) = {}
      <3> DEFINE new == CHOOSE k \in FreshIds : TRUE
      <3>1. canvas' = [k \in rows \cup {new} |-> IF k = new THEN NewRow(r) ELSE canvas[k]]
        BY <1>3, <2>2 DEF PutInsert
      <3>2. /\ Len(NewRow(r).history) <= HistoryCap
            /\ \A i, j \in DOMAIN NewRow(r).history : i = j
        <4>1. NewRow(r).history = <<>> \/ NewRow(r).history = <<req[r].facts.cs>>
          BY DEF NewRow
        <4>2. CASE NewRow(r).history = <<>>
          BY <4>2
        <4>3. CASE NewRow(r).history = <<req[r].facts.cs>>
          <5>1. Len(<<req[r].facts.cs>>) = 1 /\ DOMAIN <<req[r].facts.cs>> = 1..1
            OBVIOUS
          <5>2. QED
            BY <4>3, <5>1
        <4>4. QED
          BY <4>1, <4>2, <4>3
      <3> HIDE DEF new
      <3>3. QED
        BY <3>1, <3>2 DEF HistoryBounded, rows
    <2>3. QED
      BY <2>1, <2>2
  <1>4. ASSUME NEW r \in Requests, BeatAppend(r) PROVE HistoryBounded'
    <2> DEFINE k == req[r].found  x == req[r].sent.cs
    <2>1. CASE k \in rows /\ x \notin Seen(k)
      <3>1. x \in Checksums
        BY <1>4 DEF BeatAppend, Writes, BeatsCarry, TypeOK, Request, Facts
      <3> DEFINE h == canvas[k].history
      <3>2. h \in Seq(Checksums)
        BY <2>1, RowTyped
      <3>3. Len(h) <= HistoryCap /\ \A i, j \in DOMAIN h : h[i] = h[j] => i = j
        BY <2>1 DEF HistoryBounded
      <3>4. x \notin { h[i] : i \in DOMAIN h }
        BY <2>1 DEF Seen
      <3>5. canvas' = [canvas EXCEPT ![k].history = Appended(@, x)]
        BY <1>4, <2>1 DEF BeatAppend, TypeOK
      <3>6. /\ Len(Appended(h, x)) <= HistoryCap
            /\ \A i, j \in DOMAIN Appended(h, x) : Appended(h, x)[i] = Appended(h, x)[j] => i = j
        <4> HIDE DEF h, x
        <4>1. QED
          BY <3>1, <3>2, <3>3, <3>4, AppendedBounded
      <3>7. /\ rows' = rows
            /\ canvas'[k].history = Appended(h, x)
            /\ \A l \in rows \ {k} : canvas'[l] = canvas[l]
        BY <2>1, <3>5, RowTyped DEF rows, TypeOK, Row
      <3> HIDE DEF h, x, k
      <3>8. QED
        BY <3>6, <3>7 DEF HistoryBounded
    <2>2. CASE ~(k \in rows /\ x \notin Seen(k))
      BY <1>1, <1>4, <2>2 DEF BeatAppend
    <2>3. QED
      BY <2>1, <2>2
  <1>5. ASSUME NEW r \in Requests, Put(r) \/ Delete(r) \/ Beat(r) \/ Lock(r) \/ Drop(r)
        PROVE  UNCHANGED canvas
    BY <1>5 DEF Put, Delete, Beat, Start, Lock, Drop
  <1>6. ASSUME NEW r \in Requests, \/ ReadFacts(r) \/ SelectByPrint(r) \/ SelectByHistory(r)
                                   \/ SelectLegacy(r) \/ PutCount(r) \/ PutUpdate(r)
                                   \/ BeatPatch(r) \/ BeatEvent(r)
        PROVE  UNCHANGED canvas
    BY <1>6 DEF ReadFacts, SelectByPrint, SelectByHistory, SelectLegacy, Lookup, PutCount,
                PutUpdate, BeatPatch, BeatEvent
  <1>7. ASSUME NEW c \in Conns, NEW f \in Facts, Pair(c, f) PROVE UNCHANGED canvas
    BY <1>7 DEF Pair
  <1>8. CASE UNCHANGED vars
    BY <1>1, <1>8 DEF vars
  <1>9. ASSUME NEW r \in Requests, Advance(r) PROVE HistoryBounded'
    BY <1>1, <1>2, <1>3, <1>4, <1>6, <1>9 DEF Advance
  <1>10. QED
    BY <1>1, <1>5, <1>7, <1>8, <1>9 DEF Next

\* The history of a canvas never repeats a checksum nor outgrows its cap.
THEOREM HistoryStaysBounded == Spec => []HistoryBounded
  <1>1. Init => BeatsCarry /\ HistoryBounded
    BY DEF Init, BeatsCarry, Idle, HistoryBounded, rows
  <1>2. Spec => [](TypeOK /\ BeatsCarry /\ HistoryBounded)
    BY <1>1, TypeInit, TypeStep, BeatsCarryStep, HistoryStep, PTL DEF Spec
  <1>3. QED
    BY <1>2, PTL

-----------------------------------------------------------------------------
(* The inductive invariant behind InsertNeverCollides. *)

InTransaction(r) == req[r].op = "put" /\ req[r].at \notin {"idle", "lock"}

\* A PUT in its second look-up has found nothing so far.
Empty(r) == req[r].op = "put" /\ req[r].at = "write" /\ req[r].found = None

Looking(r) ==
    req[r].op = "put" /\ req[r].pass = "write" /\ req[r].at \in {"history", "legacy"}

\* No canvas has the instance, or the connection, of a request.
NoPrint(r) == \A k \in rows :
    ~(/\ TeamOf[canvas[k].on] = TeamOf[req[r].on]
      /\ req[r].facts.fp # None /\ canvas[k].fp = req[r].facts.fp)

NoOwn(r) == \A k \in rows : ~(canvas[k].on = req[r].on /\ canvas[k].fp = None)

\* The lock of the user is held by the PUT that is past it, and what the second
\* look-up of that PUT excluded stays excluded until its insert.
Sound(r) ==
    /\ lock = r <=> InTransaction(r)
    /\ req[r].at = "lock" => req[r].op = "put"
    /\ req[r].at \in {"patch", "event"} => req[r].op = "beat"
    /\ Empty(r) => req[r].pass = "write"
    /\ Looking(r) \/ Empty(r) => NoPrint(r)
    /\ Empty(r) => NoOwn(r)

AllSound == \A r \in Requests : Sound(r)

IInv == TypeOK /\ BeatsCarry /\ AllSound /\ InsertNeverCollides

LEMMA IdleFields == Idle.op = "put" /\ Idle.at = "idle" /\ Idle.pass = "check"
                    /\ Idle.found = None /\ Idle.facts = NoFacts
  BY DEF Idle

LEMMA IInvInit == Init => IInv
  <1> SUFFICES ASSUME Init PROVE IInv
    OBVIOUS
  <1>1. TypeOK
    BY TypeInit
  <1>2. \A r \in Requests : req[r] = Idle /\ answer[r] = "none"
    BY DEF Init
  <1>3. \A r \in Requests : Sound(r)
    <2> TAKE r \in Requests
    <2>1. lock # r
      BY CanvasStateAssumption DEF Init
    <2>2. QED
      BY <1>2, <2>1, IdleFields DEF Sound, InTransaction, Empty, Looking
  <1>4. QED
    BY <1>1, <1>2, <1>3, IdleFields DEF IInv, AllSound, BeatsCarry, InsertNeverCollides

\* A table that lost rows, or whose histories changed.
Shrinks == /\ rows' \subseteq rows
           /\ \A k \in rows' : canvas'[k].on = canvas[k].on /\ canvas'[k].fp = canvas[k].fp

\* A request that does not step stays sound, while the table shrinks.
LEMMA OthersSound ==
    ASSUME NEW s \in Requests, Sound(s), req'[s] = req[s], Shrinks,
           (lock' = s) <=> (lock = s)
    PROVE  Sound(s)'
  <1>1. NoPrint(s) => NoPrint(s)'
    BY DEF NoPrint, Shrinks
  <1>2. NoOwn(s) => NoOwn(s)'
    BY DEF NoOwn, Shrinks
  <1>3. Looking(s)' = Looking(s) /\ Empty(s)' = Empty(s) /\ InTransaction(s)' = InTransaction(s)
    BY DEF Looking, Empty, InTransaction
  <1>4. QED
    BY <1>1, <1>2, <1>3 DEF Sound

\* A request that is over is sound.
LEMMA EndsSound ==
    ASSUME TypeOK, AllSound, NEW r \in Requests, Ends(r), Shrinks
    PROVE  AllSound'
  <1>1. req'[r] = Idle /\ lock' # r
    BY CanvasStateAssumption DEF Ends, TypeOK
  <1>2. Sound(r)'
    BY <1>1 DEF Sound, InTransaction, Empty, Looking, Idle
  <1>3. ASSUME NEW s \in Requests \ {r} PROVE Sound(s)'
    <2>1. req'[s] = req[s] /\ ((lock' = s) <=> (lock = s))
      BY CanvasStateAssumption DEF Ends, TypeOK
    <2>2. QED
      BY <2>1, OthersSound DEF AllSound
  <1>4. QED
    BY <1>2, <1>3 DEF AllSound

\* A request that steps without the lock or the table, to a place where it has
\* excluded nothing yet.
LEMMA StepsSound ==
    ASSUME TypeOK, AllSound, NEW r \in Requests, UNCHANGED canvas,
           \A s \in Requests \ {r} : req'[s] = req[s] /\ ((lock' = s) <=> (lock = s)),
           Sound(r)'
    PROVE  AllSound'
  <1>1. Shrinks
    BY DEF Shrinks, rows
  <1>2. QED
    BY <1>1, OthersSound DEF AllSound

LEMMA StartSound ==
    ASSUME TypeOK, AllSound, NEW r \in Requests, NEW op \in {"put", "delete", "beat"},
           NEW c, NEW f, Start(r, op, c, f)
    PROVE  AllSound'
  <1>1. \A s \in Requests \ {r} : req'[s] = req[s]
    BY DEF Start, TypeOK
  <1>2. /\ req'[r].op = op
        /\ req'[r].at = CASE op = "put" -> "lock" [] op = "delete" -> "facts" [] OTHER -> "patch"
        /\ lock # r /\ lock' = lock
    BY DEF Start, TypeOK, AllSound, Sound, InTransaction
  <1>3. Sound(r)'
    BY <1>2 DEF Sound, InTransaction, Empty, Looking
  <1>4. UNCHANGED canvas
    BY DEF Start
  <1>5. QED
    BY <1>1, <1>2, <1>3, <1>4, StepsSound

\* A look-up with LIMIT 1 that goes on excludes what it looked for.
LEMMA LookupSound ==
    ASSUME TypeOK, AllSound, NEW r \in Requests,
           NEW step \in {"print", "history", "legacy"}, NEW matches \in SUBSET rows,
           NEW next \in {"history", "legacy", "count", "write"}, Lookup(r, step, matches, next),
           next \in {"count", "write"} => next = AfterResolve(r),
           step = "print" => matches = ByPrint(req[r].on, req[r].facts),
           step = "print" => next = "history",
           step = "legacy" => matches = ByConnection(req[r].on),
           step = "history" => next = "legacy"
    PROVE  AllSound'
  <1>1. req[r].at = step /\ UNCHANGED <<canvas, lock>> /\ Sound(r)
    BY DEF Lookup, AllSound
  <1>2. CASE \E k \in matches :
               req' = [req EXCEPT ![r].at = AfterResolve(r), ![r].found = k, ![r].facts = NoFacts]
    <2>1. PICK k \in matches :
               req' = [req EXCEPT ![r].at = AfterResolve(r), ![r].found = k, ![r].facts = NoFacts]
      BY <1>2
    <2>2. k # None
      BY CanvasStateAssumption DEF TypeOK
    <2>3. /\ req'[r] = [req[r] EXCEPT !.at = AfterResolve(r), !.found = k, !.facts = NoFacts]
          /\ req[r] \in Request
          /\ \A s \in Requests \ {r} : req'[s] = req[s]
      BY <2>1 DEF TypeOK
    <2>4. req'[r].at \in {"count", "write"} /\ req'[r].found = k /\ req'[r].op = req[r].op
      BY <2>3 DEF Request, AfterResolve
    <2>5. Sound(r)'
      BY <1>1, <2>2, <2>4 DEF Sound, InTransaction, Empty, Looking
    <2>6. QED
      BY <1>1, <2>3, <2>5, StepsSound
  <1>3. CASE matches = {} /\ Goes(r, next)
    <2>1. /\ req'[r] = [req[r] EXCEPT !.at = next]
          /\ req[r] \in Request
          /\ \A s \in Requests \ {r} : req'[s] = req[s]
      BY <1>3 DEF Goes, TypeOK
    <2>2. /\ req'[r].at = next /\ req'[r].op = req[r].op /\ req'[r].pass = req[r].pass
          /\ req'[r].on = req[r].on /\ req'[r].facts = req[r].facts
          /\ req'[r].found = req[r].found
      BY <2>1 DEF Request
    <2>3. NoPrint(r) => NoPrint(r)'
      BY <1>1, <2>2 DEF NoPrint, rows
    <2>4. NoOwn(r) => NoOwn(r)'
      BY <1>1, <2>2 DEF NoOwn, rows
    <2>5. step = "print" => NoPrint(r)
      BY <1>3 DEF ByPrint, SameTeam, NoPrint
    <2>6. step = "legacy" => NoOwn(r)
      BY <1>3 DEF ByConnection, NoOwn
    <2>7. (Looking(r) \/ Empty(r))' => NoPrint(r)'
      <3>1. SUFFICES ASSUME (Looking(r) \/ Empty(r))' PROVE NoPrint(r)
        BY <2>3
      <3>2. req[r].op = "put" /\ req[r].pass = "write"
        <4>1. CASE Looking(r)'
          BY <4>1, <2>2 DEF Looking
        <4>2. CASE Empty(r)'
          <5>1. next = "write" /\ req[r].op = "put" /\ req[r].pass \in {"check", "write"}
            BY <4>2, <2>1, <2>2 DEF Empty, Request
          <5>2. QED
            BY <5>1 DEF AfterResolve
        <4>3. QED
          BY <3>1, <4>1, <4>2
      <3>3. step # "print" => Looking(r)
        BY <1>1, <3>2 DEF Looking
      <3>4. QED
        BY <1>1, <2>5, <3>3 DEF Sound
    <2>8. Empty(r)' => NoOwn(r)' /\ req'[r].pass = "write"
      <3>1. SUFFICES ASSUME Empty(r)' PROVE NoOwn(r) /\ req[r].pass = "write"
        BY <2>2, <2>4
      <3>2. next = "write" /\ req[r].op = "put"
        BY <3>1, <2>2 DEF Empty
      <3>3. step = "legacy"
        BY <3>2
      <3>4. QED
        BY <2>1, <2>6, <3>2, <3>3 DEF AfterResolve, Request
    <2>9. Sound(r)'
      BY <1>1, <2>2, <2>7, <2>8 DEF Sound, InTransaction
    <2>10. QED
      BY <1>1, <2>1, <2>9, StepsSound
  <1>4. QED
    BY <1>2, <1>3 DEF Lookup

LEMMA IInvStep == IInv /\ [Next]_vars => IInv'
  <1> SUFFICES ASSUME IInv, [Next]_vars PROVE AllSound' /\ InsertNeverCollides'
    BY TypeStep, BeatsCarryStep DEF IInv
  <1> TypeOK /\ AllSound /\ InsertNeverCollides
    BY DEF IInv
  <1>1. ASSUME NEW r \in Requests, Put(r) \/ Delete(r) \/ Beat(r)
        PROVE  AllSound' /\ InsertNeverCollides'
    <2>1. PICK op \in {"put", "delete", "beat"}, c \in Conns, f \in Facts \cup {NoFacts} :
             Start(r, op, c, f)
      BY <1>1 DEF Put, Delete, Beat
    <2>2. InsertNeverCollides'
      BY <2>1 DEF Start, InsertNeverCollides, TypeOK
    <2>3. QED
      BY <2>1, <2>2, StartSound
  <1>2. ASSUME NEW r \in Requests, Lock(r)
        PROVE  AllSound' /\ InsertNeverCollides'
    <2>1. \A s \in Requests \ {r} : req'[s] = req[s] /\ ((lock' = s) <=> (lock = s))
      BY <1>2, CanvasStateAssumption DEF Lock, Goes, TypeOK
    <2>2. req'[r].at = "facts" /\ req'[r].op = req[r].op /\ lock' = r /\ Sound(r)
          /\ req[r].at = "lock"
      BY <1>2 DEF Lock, Goes, TypeOK, Request, AllSound
    <2>3. Sound(r)'
      BY <2>2 DEF Sound, InTransaction, Empty, Looking
    <2>4. QED
      BY <1>2, <2>1, <2>3, StepsSound DEF Lock, InsertNeverCollides
  <1>3. ASSUME NEW r \in Requests, ReadFacts(r)
        PROVE  AllSound' /\ InsertNeverCollides'
    <2>1. \A s \in Requests \ {r} : req'[s] = req[s] /\ ((lock' = s) <=> (lock = s))
      BY <1>3 DEF ReadFacts, TypeOK
    <2>2. /\ req'[r].at = "print" /\ req'[r].op = req[r].op /\ lock' = lock /\ Sound(r)
          /\ req[r].at = "facts"
      BY <1>3 DEF ReadFacts, TypeOK, Request, AllSound
    <2>3. Sound(r)'
      BY <2>2 DEF Sound, InTransaction, Empty, Looking
    <2>4. QED
      BY <1>3, <2>1, <2>3, StepsSound DEF ReadFacts, InsertNeverCollides
  <1>4. ASSUME NEW r \in Requests, SelectByPrint(r)
        PROVE  AllSound' /\ InsertNeverCollides'
    <2>1. ByPrint(req[r].on, req[r].facts) \in SUBSET rows
      BY DEF ByPrint, SameTeam
    <2>2. AllSound'
      BY <1>4, <2>1, LookupSound DEF SelectByPrint
    <2>3. QED
      BY <1>4, <2>2 DEF SelectByPrint, Lookup, InsertNeverCollides
  <1>5. ASSUME NEW r \in Requests, SelectByHistory(r)
        PROVE  AllSound' /\ InsertNeverCollides'
    <2>1. ByHistory(req[r].on, req[r].facts) \in SUBSET rows
      BY DEF ByHistory, SameTeam
    <2>2. AllSound'
      BY <1>5, <2>1, LookupSound DEF SelectByHistory
    <2>3. QED
      BY <1>5, <2>2 DEF SelectByHistory, Lookup, InsertNeverCollides
  <1>6. ASSUME NEW r \in Requests, SelectLegacy(r)
        PROVE  AllSound' /\ InsertNeverCollides'
    <2>1. ByConnection(req[r].on) \in SUBSET rows /\ AfterResolve(r) \in {"count", "write"}
      BY DEF ByConnection, AfterResolve
    <2>2. AllSound'
      BY <1>6, <2>1, LookupSound DEF SelectLegacy
    <2>3. QED
      BY <1>6, <2>2 DEF SelectLegacy, Lookup, InsertNeverCollides
  <1>7. ASSUME NEW r \in Requests, NEW a \in {"ok", "quota", "gone"}, Answers(r, a), Shrinks
        PROVE  AllSound' /\ InsertNeverCollides'
    BY <1>7, EndsSound DEF Answers, InsertNeverCollides, TypeOK
  <1>8. ASSUME UNCHANGED canvas PROVE Shrinks
    BY <1>8 DEF Shrinks, rows
  <1>9. ASSUME NEW r \in Requests, PutCount(r)
        PROVE  AllSound' /\ InsertNeverCollides'
    <2>1. CASE OverQuota(r)
      BY <1>7, <1>8, <1>9, <2>1 DEF PutCount
    <2>2. CASE ~OverQuota(r)
      <3>1. /\ req' = [req EXCEPT ![r].pass = "write", ![r].at = "facts", ![r].found = None,
                                  ![r].facts = NoFacts]
            /\ UNCHANGED <<lock, answer, canvas>> /\ req[r].at = "count" /\ Sound(r)
        BY <1>9, <2>2 DEF PutCount, AllSound
      <3>2. \A s \in Requests \ {r} : req'[s] = req[s] /\ ((lock' = s) <=> (lock = s))
        BY <3>1 DEF TypeOK
      <3>3. req'[r].at = "facts" /\ req'[r].op = req[r].op
        BY <3>1 DEF TypeOK, Request
      <3>4. Sound(r)'
        BY <3>1, <3>3 DEF Sound, InTransaction, Empty, Looking
      <3>5. QED
        BY <3>1, <3>2, <3>4, StepsSound DEF InsertNeverCollides
    <2>3. QED
      BY <2>1, <2>2
  <1>10. ASSUME NEW r \in Requests, PutUpdate(r) \/ BeatEvent(r)
         PROVE  AllSound' /\ InsertNeverCollides'
    BY <1>7, <1>8, <1>10 DEF PutUpdate, BeatEvent
  <1>11. ASSUME NEW r \in Requests, PutInsert(r)
         PROVE  AllSound' /\ InsertNeverCollides'
    <2>1. Sound(r) /\ Empty(r) /\ lock = r
      BY <1>11 DEF PutInsert, Writes, Empty, AllSound, Sound, InTransaction
    <2>2. Clashes(r) = {}
      BY <2>1 DEF Clashes, Sound, NoPrint, NoOwn, ByPrint, ByConnection, SameTeam
    <2>3. Answers(r, "ok")
      BY <1>11, <2>2 DEF PutInsert
    <2>4. InsertNeverCollides'
      BY <2>3 DEF Answers, InsertNeverCollides, TypeOK
    <2>5. req'[r] = Idle /\ lock' = None
      BY <2>1, <2>3 DEF Answers, Ends, TypeOK
    <2>6. Sound(r)'
      <3>1. lock' # r
        BY <2>5, CanvasStateAssumption
      <3>2. QED
        BY <2>5, <3>1, IdleFields DEF Sound, InTransaction, Empty, Looking
    <2>7. ASSUME NEW s \in Requests \ {r} PROVE Sound(s)'
      <3>1. req'[s] = req[s] /\ lock # s /\ lock' # s /\ Sound(s)
        BY <2>1, <2>3, <2>5, CanvasStateAssumption DEF Answers, Ends, TypeOK, AllSound
      <3>2. req'[s].op = "put" => req'[s].at \in {"idle", "lock"}
        BY <3>1 DEF Sound, InTransaction
      <3>3. QED
        BY <3>1, <3>2 DEF Sound, InTransaction, Empty, Looking
    <2>8. QED
      BY <2>4, <2>6, <2>7 DEF AllSound
  <1>12. ASSUME NEW r \in Requests, DeleteRow(r)
         PROVE  AllSound' /\ InsertNeverCollides'
    <2>1. Shrinks
      BY <1>12 DEF DeleteRow, Shrinks, rows
    <2>2. QED
      BY <1>7, <1>12, <2>1 DEF DeleteRow
  <1>13. ASSUME NEW r \in Requests, NEW step \in {"facts", "event"}, Goes(r, step), Shrinks,
                req[r].op = "beat" \/ req[r].at = "patch", UNCHANGED <<lock, answer>>,
                step = "event" => req[r].op = "beat"
         PROVE  AllSound' /\ InsertNeverCollides'
    <2>1. \A s \in Requests \ {r} : req'[s] = req[s]
      BY <1>13 DEF Goes, TypeOK
    <2>2. req'[r].at = step /\ req'[r].op = req[r].op /\ Sound(r)
      BY <1>13 DEF Goes, TypeOK, Request, AllSound
    <2>3. req[r].op = "beat"
      BY <1>13, <2>2 DEF Sound
    <2>4. Sound(r)'
      BY <1>13, <2>2, <2>3 DEF Sound, InTransaction, Empty, Looking
    <2>5. QED
      BY <1>13, <2>1, <2>4, OthersSound DEF AllSound, InsertNeverCollides
  <1>14. ASSUME NEW r \in Requests, BeatPatch(r)
         PROVE  AllSound' /\ InsertNeverCollides'
    BY <1>7, <1>8, <1>13, <1>14 DEF BeatPatch
  <1>15. ASSUME NEW r \in Requests, BeatAppend(r)
         PROVE  AllSound' /\ InsertNeverCollides'
    <2>1. Shrinks
      <3>1. CASE UNCHANGED canvas
        BY <1>8, <3>1
      <3>2. CASE \E k \in rows : \E h : canvas' = [canvas EXCEPT ![k].history = h]
        BY <3>2, RowTyped DEF Shrinks, rows, TypeOK, Row
      <3>3. QED
        BY <1>15, <3>1, <3>2 DEF BeatAppend
    <2>2. QED
      BY <1>7, <1>13, <1>15, <2>1 DEF BeatAppend, Writes
  <1>16. ASSUME NEW r \in Requests, Drop(r)
         PROVE  AllSound' /\ InsertNeverCollides'
    BY <1>8, <1>16, EndsSound DEF Drop, InsertNeverCollides
  <1>17. ASSUME UNCHANGED <<canvas, lock, req, answer>>
         PROVE  AllSound' /\ InsertNeverCollides'
    BY <1>8, <1>17, OthersSound DEF AllSound, InsertNeverCollides
  <1>18. ASSUME NEW r \in Requests, Advance(r)
         PROVE  AllSound' /\ InsertNeverCollides'
    BY <1>3, <1>4, <1>5, <1>6, <1>9, <1>10, <1>11, <1>12, <1>14, <1>15, <1>18 DEF Advance
  <1>19. QED
    BY <1>1, <1>2, <1>16, <1>17, <1>18 DEF Next, Pair, vars

\* Two devices never both insert the canvas of one database, nor of one
\* connection: the unique indexes of the table refuse no insert.
THEOREM NoInsertCollides == Spec => []InsertNeverCollides
  <1>1. Spec => []IInv
    BY IInvInit, IInvStep, PTL DEF Spec
  <1>2. IInv => InsertNeverCollides
    BY DEF IInv
  <1>3. QED
    BY <1>1, <1>2, PTL
-----------------------------------------------------------------------------
(* What an undisturbed PUT found is still so when it writes. *)

\* A PUT past the lock while which no facts were reported and no canvas deleted.
Undisturbed(r) == InTransaction(r) /\ r \notin disturbed

\* What a PUT read, excluded, found and counted is what it would read now.
Current(r) ==
    LET c == req[r].on  f == known[c] IN
    /\ req[r].at \in {"print", "history", "legacy"} => req[r].facts = f
    /\ req[r].at \in {"history", "legacy"} => ByPrint(c, f) = {}
    /\ req[r].at = "legacy" => ByHistory(c, f) = {}
    /\ req[r].at \in {"count", "write"} =>
         IF req[r].found = None THEN req[r].facts = f /\ Candidates(c) = {}
                                ELSE req[r].found \in Candidates(c)
    /\ req[r].pass = "write" => Candidates(c) # {} \/ Cardinality(rows) < MaxCanvases

Served(r) ==
    /\ req[r].at # "idle" => answer[r] = "none"
    /\ req[r].at \in {"patch", "lock", "facts", "print", "history", "legacy"}
         => req[r].found = None
    /\ req[r].at = "lock" => req[r].pass = "check"
    /\ Undisturbed(r) => Current(r)

AllServed == \A r \in Requests : Served(r)

SInv == IInv /\ IsFiniteSet(rows) /\ AllServed

LEMMA SInvInit == Init => SInv
  <1> SUFFICES ASSUME Init PROVE SInv
    OBVIOUS
  <1>1. IsFiniteSet(rows)
    <2>1. rows = {}
      BY DEF Init, rows
    <2>2. QED
      BY <2>1, FS_EmptySet
  <1>2. ASSUME NEW r \in Requests PROVE Served(r)
    BY IdleFields DEF Init, Served, Undisturbed, InTransaction
  <1>3. QED
    BY <1>1, <1>2, IInvInit DEF SInv, AllServed

\* A request reads the same when nothing is reported and no canvas changes.
LEMMA SameReads ==
    ASSUME NEW r \in Requests, UNCHANGED <<known, canvas>>, req'[r].on = req[r].on
    PROVE  /\ rows' = rows
           /\ ByPrint(req[r].on, known[req[r].on])' = ByPrint(req[r].on, known[req[r].on])
           /\ ByHistory(req[r].on, known[req[r].on])' = ByHistory(req[r].on, known[req[r].on])
           /\ Candidates(req[r].on)' = Candidates(req[r].on)
  <1>1. rows' = rows
    BY DEF rows
  <1>2. ByPrint(req[r].on, known[req[r].on])' = ByPrint(req[r].on, known[req[r].on])
    BY DEF ByPrint, SameTeam, rows
  <1>3. ByHistory(req[r].on, known[req[r].on])' = ByHistory(req[r].on, known[req[r].on])
    BY DEF ByHistory, SameTeam, Seen, rows
  <1>4. ByConnection(req[r].on)' = ByConnection(req[r].on)
    BY DEF ByConnection, rows
  <1>5. QED
    BY <1>1, <1>2, <1>3, <1>4 DEF Candidates

\* A request that does not step: its knowledge is current, or it is disturbed.
LEMMA OthersServed ==
    ASSUME NEW s \in Requests, Served(s), req'[s] = req[s], answer'[s] = answer[s],
           \/ UNCHANGED <<known, canvas>> /\ (s \in disturbed => s \in disturbed')
           \/ InTransaction(s) => s \in disturbed'
    PROVE  Served(s)'
  <1>1. InTransaction(s)' = InTransaction(s)
    BY DEF InTransaction
  <1>2. CASE InTransaction(s) => s \in disturbed'
    BY <1>1, <1>2 DEF Served, Undisturbed
  <1>3. CASE UNCHANGED <<known, canvas>> /\ (s \in disturbed => s \in disturbed')
    <2>1. Undisturbed(s)' => Undisturbed(s)
      BY <1>1, <1>3 DEF Undisturbed
    <2>2. Current(s) => Current(s)'
      <3>1. QED
        BY <1>3, SameReads DEF Current
    <2>3. QED
      BY <2>1, <2>2 DEF Served
  <1>4. QED
    BY <1>2, <1>3

\* A step of r that changes neither what is known nor the table.
LEMMA QuietServed ==
    ASSUME AllServed, NEW r \in Requests, UNCHANGED <<known, canvas>>,
           \A s \in Requests \ {r} : req'[s] = req[s] /\ answer'[s] = answer[s]
                                     /\ (s \in disturbed => s \in disturbed'),
           Served(r)'
    PROVE  AllServed'
  BY OthersServed DEF AllServed

\* A step of r that disturbs every request that is under way.
LEMMA LoudServed ==
    ASSUME AllServed, NEW r \in Requests, Disturbed,
           \A s \in Requests \ {r} : req'[s] = req[s] /\ answer'[s] = answer[s],
           Served(r)'
    PROVE  AllServed'
  <1>1. ASSUME NEW s \in Requests \ {r} PROVE Served(s)'
    <2>1. InTransaction(s) => s \in disturbed'
      BY <1>1 DEF InTransaction, Disturbed
    <2>2. QED
      BY <1>1, <2>1, OthersServed DEF AllServed
  <1>2. QED
    BY <1>1 DEF AllServed

\* A request that is over knows nothing.
LEMMA IdleServed == ASSUME NEW r \in Requests, req'[r] = Idle PROVE Served(r)'
  BY IdleFields DEF Served, Undisturbed, InTransaction

LEMMA EndsElsewhere ==
    ASSUME TypeOK, NEW r \in Requests, Ends(r)
    PROVE  req'[r] = Idle /\ \A s \in Requests \ {r} : req'[s] = req[s]
  BY DEF Ends, TypeOK

LEMMA AnswersElsewhere ==
    ASSUME TypeOK, NEW r \in Requests, NEW a, Answers(r, a)
    PROVE  /\ req'[r] = Idle /\ answer'[r] = a
           /\ \A s \in Requests \ {r} : req'[s] = req[s] /\ answer'[s] = answer[s]
  BY EndsElsewhere DEF Answers, TypeOK

LEMMA StartServed ==
    ASSUME TypeOK, AllServed, NEW r \in Requests, NEW op \in {"put", "delete", "beat"},
           NEW c, NEW f, Start(r, op, c, f)
    PROVE  AllServed'
  <1>1. \A s \in Requests \ {r} : req'[s] = req[s] /\ answer'[s] = answer[s]
                                  /\ (s \in disturbed => s \in disturbed')
    BY DEF Start, TypeOK
  <1>2. /\ req'[r].op = op /\ req'[r].found = None /\ req'[r].pass = "check"
        /\ req'[r].at = CASE op = "put" -> "lock" [] op = "delete" -> "facts" [] OTHER -> "patch"
        /\ answer'[r] = "none"
    BY DEF Start, TypeOK
  <1>3. Served(r)'
    BY <1>2 DEF Served, Undisturbed, InTransaction
  <1>4. UNCHANGED <<known, canvas>>
    BY DEF Start
  <1>5. QED
    BY <1>1, <1>3, <1>4, QuietServed

LEMMA LockServed ==
    ASSUME TypeOK, AllServed, NEW r \in Requests, Lock(r)
    PROVE  AllServed'
  <1>1. /\ req'[r] = [req[r] EXCEPT !.at = "facts"] /\ req[r] \in Request
        /\ \A s \in Requests \ {r} : req'[s] = req[s]
        /\ req[r].at = "lock" /\ UNCHANGED <<known, canvas, answer, disturbed>>
    BY DEF Lock, Goes, TypeOK
  <1>2. req'[r].at = "facts" /\ req'[r].found = req[r].found /\ req'[r].pass = req[r].pass
    BY <1>1 DEF Request
  <1>3. Served(r)
    BY DEF AllServed
  <1>4. Current(r)'
    BY <1>1, <1>2, <1>3 DEF Current, Served
  <1>5. Served(r)'
    BY <1>1, <1>2, <1>3, <1>4 DEF Served
  <1>6. QED
    BY <1>1, <1>5, QuietServed

LEMMA ReadFactsServed ==
    ASSUME TypeOK, AllServed, NEW r \in Requests, ReadFacts(r)
    PROVE  AllServed'
  <1>1. /\ req'[r] = [req[r] EXCEPT !.at = "print", !.facts = known[req[r].on]]
        /\ req[r] \in Request
        /\ \A s \in Requests \ {r} : req'[s] = req[s]
        /\ req[r].at = "facts" /\ UNCHANGED <<known, canvas, answer, disturbed>>
    BY DEF ReadFacts, TypeOK
  <1>2. /\ req'[r].at = "print" /\ req'[r].found = req[r].found /\ req'[r].pass = req[r].pass
        /\ req'[r].on = req[r].on /\ req'[r].op = req[r].op
        /\ req'[r].facts = known[req[r].on]
    BY <1>1 DEF Request
  <1>3. Served(r)
    BY DEF AllServed
  <1>4. Undisturbed(r)' => Undisturbed(r)
    BY <1>1, <1>2 DEF Undisturbed, InTransaction
  <1>5. Current(r) => Current(r)'
    BY <1>1, <1>2, SameReads DEF Current
  <1>6. Served(r)'
    BY <1>1, <1>2, <1>3, <1>4, <1>5 DEF Served
  <1>7. QED
    BY <1>1, <1>6, QuietServed

\* A look-up takes a row.
Finds(r, k) ==
    req' = [req EXCEPT ![r].at = AfterResolve(r), ![r].found = k, ![r].facts = NoFacts]

\* A look-up that finds: its match is what the request would find at once.
LEMMA FoundServed ==
    ASSUME TypeOK, AllServed, NEW r \in Requests, NEW k \in rows,
           req[r].at \in {"print", "history", "legacy"},
           UNCHANGED <<known, canvas, answer, disturbed>>,
           Finds(r, k),
           Undisturbed(r) => k \in Candidates(req[r].on)
    PROVE  AllServed'
  <1> DEFINE next == AfterResolve(r)
  <1>0. next \in {"count", "write"} /\ k \in Ids
    BY DEF AfterResolve, TypeOK
  <1> HIDE DEF next
  <1>1. /\ req'[r] = [req[r] EXCEPT !.at = next, !.found = k, !.facts = NoFacts]
        /\ req[r] \in Request
        /\ \A s \in Requests \ {r} : req'[s] = req[s]
    BY DEF TypeOK, Finds, next
  <1>2. /\ req'[r].at \in {"count", "write"} /\ req'[r].found = k
        /\ req'[r].on = req[r].on /\ req'[r].op = req[r].op
        /\ req'[r].pass = req[r].pass
    <2>1. req'[r].at = next /\ req'[r].found = k
      BY <1>1 DEF Request
    <2>2. req'[r].on = req[r].on /\ req'[r].op = req[r].op /\ req'[r].pass = req[r].pass
      BY <1>1 DEF Request
    <2>3. QED
      BY <1>0, <2>1, <2>2
  <1>3. Served(r) /\ k # None
    BY CanvasStateAssumption DEF AllServed, TypeOK
  <1>4. Undisturbed(r)' => Undisturbed(r)
    BY <1>2 DEF Undisturbed, InTransaction
  <1>5. Undisturbed(r) => Current(r)'
    BY <1>2, <1>3, SameReads DEF Current, Served
  <1>6. Served(r)'
    BY <1>2, <1>3, <1>4, <1>5 DEF Served
  <1>7. QED
    BY <1>1, <1>6, QuietServed

\* A look-up that finds nothing: what it excluded stays excluded.
LEMMA MissedServed ==
    ASSUME TypeOK, AllServed, NEW r \in Requests,
           NEW next \in {"history", "legacy", "count", "write"},
           req[r].at \in {"print", "history", "legacy"},
           UNCHANGED <<known, canvas, answer, disturbed>>, Goes(r, next),
           Undisturbed(r) =>
             LET c == req[r].on  f == known[c] IN
             /\ next \in {"history", "legacy"} => ByPrint(c, f) = {}
             /\ next = "legacy" => ByHistory(c, f) = {}
             /\ next \in {"count", "write"} => Candidates(c) = {}
    PROVE  AllServed'
  <1>1. /\ req'[r] = [req[r] EXCEPT !.at = next]
        /\ req[r] \in Request
        /\ \A s \in Requests \ {r} : req'[s] = req[s]
    BY DEF TypeOK, Goes
  <1>2. /\ req'[r].at = next /\ req'[r].found = req[r].found /\ req'[r].facts = req[r].facts
        /\ req'[r].on = req[r].on /\ req'[r].op = req[r].op
        /\ req'[r].pass = req[r].pass
    BY <1>1 DEF Request
  <1>3. Served(r) /\ req[r].found = None
    BY DEF AllServed, Served
  <1>4. Undisturbed(r)' => Undisturbed(r)
    BY <1>2 DEF Undisturbed, InTransaction
  <1>5. Undisturbed(r) => Current(r)'
    BY <1>2, <1>3, SameReads DEF Current, Served
  <1>6. Served(r)'
    BY <1>2, <1>3, <1>4, <1>5 DEF Served
  <1>7. QED
    BY <1>1, <1>6, QuietServed

LEMMA LookupServed ==
    ASSUME TypeOK, AllServed, NEW r \in Requests,
           SelectByPrint(r) \/ SelectByHistory(r) \/ SelectLegacy(r)
    PROVE  AllServed'
  <1> DEFINE c == req[r].on  f == known[c]
  <1>1. Undisturbed(r) => Current(r)
    BY DEF AllServed, Served
  <1>2. AfterResolve(r) \in {"count", "write"}
    BY DEF AfterResolve
  <1>3. CASE SelectByPrint(r)
    <2>1. req[r].at = "print" /\ UNCHANGED <<known, canvas, answer, disturbed>>
      BY <1>3 DEF SelectByPrint, Lookup
    <2>2. Undisturbed(r) => ByPrint(c, req[r].facts) = ByPrint(c, f)
      BY <1>1, <2>1 DEF Current
    <2>3. CASE ByPrint(c, req[r].facts) = {} /\ Goes(r, "history")
      <3>1. Undisturbed(r) => ByPrint(c, f) = {}
        BY <2>2, <2>3
      <3>2. QED
        BY <2>1, <2>3, <3>1, MissedServed
    <2>4. ASSUME NEW k \in ByPrint(c, req[r].facts),
                 Finds(r, k)
          PROVE  AllServed'
      <3>1. k \in rows
        BY DEF ByPrint, SameTeam
      <3>2. Undisturbed(r) => k \in Candidates(c)
        BY <2>2 DEF Candidates
      <3>3. QED
        BY <2>1, <2>4, <3>1, <3>2, FoundServed
    <2>5. QED
      BY <1>3, <2>3, <2>4 DEF SelectByPrint, Lookup, Finds
  <1>4. CASE SelectByHistory(r)
    <2>1. req[r].at = "history" /\ UNCHANGED <<known, canvas, answer, disturbed>>
      BY <1>4 DEF SelectByHistory, Lookup
    <2>2. Undisturbed(r) => /\ ByHistory(c, req[r].facts) = ByHistory(c, f)
                            /\ ByPrint(c, f) = {}
      BY <1>1, <2>1 DEF Current
    <2>3. CASE ByHistory(c, req[r].facts) = {} /\ Goes(r, "legacy")
      <3>1. Undisturbed(r) => ByPrint(c, f) = {} /\ ByHistory(c, f) = {}
        BY <2>2, <2>3
      <3>2. QED
        BY <2>1, <2>3, <3>1, MissedServed
    <2>4. ASSUME NEW k \in ByHistory(c, req[r].facts),
                 Finds(r, k)
          PROVE  AllServed'
      <3>1. k \in rows
        BY DEF ByHistory, SameTeam
      <3>2. Undisturbed(r) => k \in Candidates(c)
        BY <2>2 DEF Candidates
      <3>3. QED
        BY <2>1, <2>4, <3>1, <3>2, FoundServed
    <2>5. QED
      BY <1>4, <2>3, <2>4 DEF SelectByHistory, Lookup, Finds
  <1>5. CASE SelectLegacy(r)
    <2>1. req[r].at = "legacy" /\ UNCHANGED <<known, canvas, answer, disturbed>>
      BY <1>5 DEF SelectLegacy, Lookup
    <2>2. Undisturbed(r) => Candidates(c) = ByConnection(c)
      BY <1>1, <2>1 DEF Current, Candidates
    <2>3. CASE ByConnection(c) = {} /\ Goes(r, AfterResolve(r))
      <3>1. Undisturbed(r) => Candidates(c) = {}
        BY <2>2, <2>3
      <3>2. QED
        BY <1>2, <2>1, <2>3, <3>1, MissedServed
    <2>4. ASSUME NEW k \in ByConnection(c),
                 Finds(r, k)
          PROVE  AllServed'
      <3>1. k \in rows
        BY DEF ByConnection
      <3>2. Undisturbed(r) => k \in Candidates(c)
        BY <2>2
      <3>3. QED
        BY <2>1, <2>4, <3>1, <3>2, FoundServed
    <2>5. QED
      BY <1>5, <2>3, <2>4 DEF SelectLegacy, Lookup, Finds
  <1>6. QED
    BY <1>3, <1>4, <1>5

LEMMA CountServed ==
    ASSUME TypeOK, AllServed, IsFiniteSet(rows), NEW r \in Requests, PutCount(r)
    PROVE  AllServed'
  <1>1. CASE OverQuota(r)
    <2>1. Answers(r, "quota") /\ UNCHANGED <<known, canvas, disturbed>>
      BY <1>1 DEF PutCount
    <2>2. QED
      BY <2>1, AnswersElsewhere, IdleServed, QuietServed
  <1>2. CASE ~OverQuota(r)
    <2>1. /\ req'[r] = [req[r] EXCEPT !.pass = "write", !.at = "facts", !.found = None,
                                      !.facts = NoFacts]
          /\ req[r] \in Request
          /\ \A s \in Requests \ {r} : req'[s] = req[s]
          /\ req[r].at = "count" /\ UNCHANGED <<known, canvas, answer, disturbed>>
      BY <1>2 DEF PutCount, TypeOK
    <2>2. /\ req'[r].at = "facts" /\ req'[r].found = None
          /\ req'[r].on = req[r].on /\ req'[r].op = req[r].op
      BY <2>1 DEF Request
    <2>3. Served(r)
      BY DEF AllServed
    <2>4. Undisturbed(r)' => Undisturbed(r)
      BY <2>1, <2>2 DEF Undisturbed, InTransaction
    <2>5. Cardinality(rows) \in Nat /\ MaxCanvases \in Nat
      BY FS_CardinalityType, CanvasStateAssumption
    <2>6. Undisturbed(r) => Candidates(req[r].on) # {} \/ Cardinality(rows) < MaxCanvases
      <3>1. SUFFICES ASSUME Undisturbed(r), Candidates(req[r].on) = {}
                     PROVE  Cardinality(rows) < MaxCanvases
        OBVIOUS
      <3>2. req[r].found = None
        BY <2>1, <2>3, <3>1 DEF Served, Current
      <3>3. QED
        BY <1>2, <2>5, <3>2 DEF OverQuota
    <2>7. Undisturbed(r) => Current(r)'
      BY <2>1, <2>2, <2>6, SameReads DEF Current
    <2>8. Served(r)'
      BY <2>1, <2>2, <2>3, <2>4, <2>7 DEF Served
    <2>9. QED
      BY <2>1, <2>8, QuietServed
  <1>3. QED
    BY <1>1, <1>2

\* The table after an insert.
LEMMA Inserted ==
    ASSUME NEW r \in Requests, PutInsert(r), Clashes(r) = {}
    PROVE  /\ Answers(r, "ok") /\ UNCHANGED <<known, disturbed>>
           /\ \E new \in Ids \ rows : /\ rows' = rows \cup {new}
                                      /\ canvas'[new] = NewRow(r)
                                      /\ \A k \in rows : canvas'[k] = canvas[k]
  <1> DEFINE new == CHOOSE k \in FreshIds : TRUE
  <1>1. /\ Answers(r, "ok") /\ UNCHANGED <<known, disturbed>> /\ FreshIds # {}
        /\ canvas' = [k \in rows \cup {new} |-> IF k = new THEN NewRow(r) ELSE canvas[k]]
    BY DEF PutInsert
  <1>2. new \in Ids \ rows
    BY <1>1 DEF FreshIds
  <1> HIDE DEF new
  <1>3. /\ rows' = rows \cup {new} /\ canvas'[new] = NewRow(r)
        /\ \A k \in rows : canvas'[k] = canvas[k]
    BY <1>1, <1>2 DEF rows
  <1>4. QED
    BY <1>1, <1>2, <1>3

LEMMA InsertServed ==
    ASSUME IInv, AllServed, NEW r \in Requests, PutInsert(r)
    PROVE  AllServed'
  <1>1. TypeOK /\ Sound(r) /\ InTransaction(r)
    BY DEF PutInsert, Writes, InTransaction, IInv, AllSound
  <1>2. CASE Clashes(r) # {}
    <2>1. Answers(r, "collision") /\ UNCHANGED <<known, canvas, disturbed>>
      BY <1>2 DEF PutInsert
    <2>2. QED
      BY <1>1, <2>1, AnswersElsewhere, IdleServed, QuietServed
  <1>3. CASE Clashes(r) = {}
    <2>1. Answers(r, "ok")
      BY <1>3, Inserted
    <2>2. req'[r] = Idle /\ \A s \in Requests \ {r} : req'[s] = req[s] /\ answer'[s] = answer[s]
      BY <1>1, <2>1, AnswersElsewhere
    <2>3. ASSUME NEW s \in Requests \ {r} PROVE Served(s)'
      <3>1. ~InTransaction(s)
        BY <1>1 DEF Sound, IInv, AllSound
      <3>2. QED
        BY <2>2, <3>1, OthersServed DEF AllServed
    <2>4. QED
      BY <2>2, <2>3, IdleServed DEF AllServed
  <1>4. QED
    BY <1>2, <1>3

\* A heartbeat that goes on.
LEMMA BeatServed ==
    ASSUME TypeOK, AllServed, NEW r \in Requests,
           req[r].op = "beat", req[r].at \in {"patch", "write"},
           NEW step \in {"facts", "event"}, step = "facts" => req[r].at = "patch",
           Goes(r, step), Disturbed, UNCHANGED answer
    PROVE  AllServed'
  <1>1. /\ req'[r] = [req[r] EXCEPT !.at = step] /\ req[r] \in Request
        /\ \A s \in Requests \ {r} : req'[s] = req[s]
    BY DEF Goes, TypeOK
  <1>2. req'[r].at = step /\ req'[r].op = "beat" /\ req'[r].found = req[r].found
    BY <1>1 DEF Request
  <1>3. Served(r)'
    BY <1>2 DEF Served, AllServed, Undisturbed, InTransaction
  <1>4. QED
    BY <1>1, <1>3, LoudServed

LEMMA ServedStep == IInv /\ IsFiniteSet(rows) /\ AllServed /\ [Next]_vars => AllServed'
  <1> SUFFICES ASSUME IInv, IsFiniteSet(rows), AllServed, [Next]_vars PROVE AllServed'
    OBVIOUS
  <1>0. TypeOK /\ AllSound
    BY DEF IInv
  <1>1. ASSUME NEW r \in Requests, Put(r) \/ Delete(r) \/ Beat(r) PROVE AllServed'
    <2>1. PICK op \in {"put", "delete", "beat"}, c \in Conns, f \in Facts \cup {NoFacts} :
             Start(r, op, c, f)
      BY <1>1 DEF Put, Delete, Beat
    <2>2. QED
      BY <1>0, <2>1, StartServed
  <1>2. ASSUME NEW r \in Requests, NEW a, Answers(r, a), UNCHANGED <<known, canvas, disturbed>>
        PROVE  AllServed'
    BY <1>0, <1>2, AnswersElsewhere, IdleServed, QuietServed
  <1>3. ASSUME NEW r \in Requests, PutUpdate(r) \/ BeatEvent(r) PROVE AllServed'
    BY <1>2, <1>3 DEF PutUpdate, BeatEvent
  <1>4. ASSUME NEW r \in Requests, Disturbed, NEW a, Answers(r, a) PROVE AllServed'
    BY <1>0, <1>4, AnswersElsewhere, IdleServed, LoudServed
  <1>5. ASSUME NEW r \in Requests, DeleteRow(r) PROVE AllServed'
    BY <1>4, <1>5 DEF DeleteRow
  <1>6. ASSUME NEW r \in Requests, BeatPatch(r) PROVE AllServed'
    <2>1. req[r].op = "beat" /\ req[r].at = "patch" /\ Disturbed
      BY <1>0, <1>6 DEF BeatPatch, AllSound, Sound
    <2>2. CASE req[r].sent.cs = None
      BY <1>4, <1>6, <2>1, <2>2 DEF BeatPatch
    <2>3. CASE req[r].sent.cs # None
      BY <1>0, <1>6, <2>1, <2>3, BeatServed DEF BeatPatch
    <2>4. QED
      BY <2>2, <2>3
  <1>7. ASSUME NEW r \in Requests, BeatAppend(r) PROVE AllServed'
    <2>1. CASE req[r].found = None
      BY <1>2, <1>7, <2>1 DEF BeatAppend
    <2>2. CASE req[r].found # None
      BY <1>0, <1>7, <2>2, BeatServed DEF BeatAppend, Writes
    <2>3. QED
      BY <2>1, <2>2
  <1>8. ASSUME NEW r \in Requests, Drop(r) PROVE AllServed'
    BY <1>0, <1>8, EndsElsewhere, IdleServed, QuietServed DEF Drop
  <1>9. ASSUME NEW c \in Conns, NEW f \in Facts, Pair(c, f) PROVE AllServed'
    <2>1. ASSUME NEW s \in Requests PROVE Served(s)'
      <3>1. InTransaction(s) => s \in disturbed'
        BY <1>9 DEF InTransaction, Pair, Disturbed
      <3>2. QED
        BY <1>9, <3>1, OthersServed DEF Pair, AllServed
    <2>2. QED
      BY <2>1 DEF AllServed
  <1>10. CASE UNCHANGED vars
    BY <1>10, OthersServed DEF vars, AllServed
  <1>11. ASSUME NEW r \in Requests, Advance(r) PROVE AllServed'
    BY <1>0, <1>3, <1>5, <1>6, <1>7, <1>11, ReadFactsServed, LookupServed, CountServed,
       InsertServed DEF Advance
  <1>12. QED
    BY <1>0, <1>1, <1>8, <1>9, <1>10, <1>11, LockServed DEF Next

\* A table only grows by the insert of a PUT.
LEMMA TableStep ==
    ASSUME TypeOK, [Next]_vars
    PROVE  \/ rows' \subseteq rows
           \/ \E r \in Requests : PutInsert(r) /\ Clashes(r) = {}
  <1> SUFFICES ASSUME \A r \in Requests : ~(PutInsert(r) /\ Clashes(r) = {})
               PROVE  rows' \subseteq rows
    OBVIOUS
  <1>1. CASE UNCHANGED canvas
    BY <1>1 DEF rows
  <1>2. ASSUME NEW r \in Requests, PutInsert(r) PROVE UNCHANGED canvas
    BY <1>2 DEF PutInsert
  <1>3. ASSUME NEW r \in Requests, DeleteRow(r) PROVE rows' \subseteq rows
    BY <1>3 DEF DeleteRow, rows
  <1>4. ASSUME NEW r \in Requests, BeatAppend(r) PROVE rows' \subseteq rows
    <2>1. CASE UNCHANGED canvas
      BY <1>1, <2>1
    <2>2. CASE \E k \in rows : \E h : canvas' = [canvas EXCEPT ![k].history = h]
      BY <2>2 DEF rows, TypeOK
    <2>3. QED
      BY <1>4, <2>1, <2>2 DEF BeatAppend
  <1>5. ASSUME NEW r \in Requests, Put(r) \/ Delete(r) \/ Beat(r) \/ Lock(r) \/ Drop(r)
        PROVE  UNCHANGED canvas
    BY <1>5 DEF Put, Delete, Beat, Start, Lock, Drop
  <1>6. ASSUME NEW r \in Requests, \/ ReadFacts(r) \/ SelectByPrint(r) \/ SelectByHistory(r)
                                   \/ SelectLegacy(r) \/ PutCount(r) \/ PutUpdate(r)
                                   \/ BeatPatch(r) \/ BeatEvent(r)
        PROVE  UNCHANGED canvas
    BY <1>6 DEF ReadFacts, SelectByPrint, SelectByHistory, SelectLegacy, Lookup, PutCount,
                PutUpdate, BeatPatch, BeatEvent
  <1>7. ASSUME NEW c \in Conns, NEW f \in Facts, Pair(c, f) PROVE UNCHANGED canvas
    BY <1>7 DEF Pair
  <1>8. CASE UNCHANGED vars
    BY <1>1, <1>8 DEF vars
  <1>9. ASSUME NEW r \in Requests, Advance(r) PROVE rows' \subseteq rows
    BY <1>1, <1>2, <1>3, <1>4, <1>6, <1>9 DEF Advance
  <1>10. QED
    BY <1>1, <1>5, <1>7, <1>8, <1>9 DEF Next

LEMMA SInvStep == SInv /\ [Next]_vars => SInv'
  <1> SUFFICES ASSUME SInv, [Next]_vars PROVE SInv'
    OBVIOUS
  <1>1. IInv' /\ AllServed'
    BY IInvStep, ServedStep DEF SInv
  <1>2. IsFiniteSet(rows')
    <2>1. CASE rows' \subseteq rows
      BY <2>1, FS_Subset DEF SInv
    <2>2. CASE \E r \in Requests : PutInsert(r) /\ Clashes(r) = {}
      <3>1. PICK new \in Ids \ rows : rows' = rows \cup {new}
        BY <2>2, Inserted
      <3>2. QED
        BY <3>1, FS_AddElement DEF SInv
    <2>3. QED
      BY <2>1, <2>2, TableStep DEF SInv, IInv
  <1>3. QED
    BY <1>1, <1>2 DEF SInv

LEMMA SInvAlways == Spec => []SInv
  BY SInvInit, SInvStep, PTL DEF Spec

-----------------------------------------------------------------------------
(* The quota. *)

\* An undisturbed PUT that inserts has found room.
LEMMA RoomStep ==
    ASSUME SInv, NEW r \in Requests \ disturbed, PutInsert(r)
    PROVE  Cardinality(rows) < MaxCanvases
  <1>1. /\ Empty(r) /\ InTransaction(r) /\ Sound(r) /\ Served(r)
        /\ req[r].at = "write" /\ req[r].found = None
    BY DEF PutInsert, Writes, Empty, InTransaction, SInv, IInv, AllSound, AllServed
  <1>2. Current(r) /\ req[r].pass = "write"
    BY <1>1 DEF Served, Undisturbed, Sound
  <1>3. Candidates(req[r].on) = {}
    BY <1>1, <1>2 DEF Current
  <1>4. QED
    BY <1>2, <1>3 DEF Current

\* The quota of layouts is only passed by a PUT during which a CLI described
\* its database anew or a canvas was deleted.
THEOREM QuotaIsHeld == Spec => QuotaHeld
  <1>1. SInv /\ [Next]_vars =>
           [ Cardinality(rows') > Cardinality(rows) /\ Cardinality(rows) >= MaxCanvases
             => \E r \in disturbed : Writes(r, "put") /\ req'[r].at = "idle" ]_vars
    <2> SUFFICES ASSUME SInv, [Next]_vars,
                        Cardinality(rows') > Cardinality(rows), Cardinality(rows) >= MaxCanvases
                 PROVE  \E r \in disturbed : Writes(r, "put") /\ req'[r].at = "idle"
      OBVIOUS
    <2>1. Cardinality(rows) \in Nat /\ Cardinality(rows') \in Nat /\ MaxCanvases \in Nat
      BY SInvStep, FS_CardinalityType, CanvasStateAssumption DEF SInv
    <2>2. ~(rows' \subseteq rows)
      BY <2>1, FS_Subset DEF SInv
    <2>3. PICK r \in Requests : PutInsert(r) /\ Clashes(r) = {}
      BY <2>2, TableStep DEF SInv, IInv
    <2>4. r \in disturbed
      BY <2>1, <2>3, RoomStep
    <2>5. req'[r] = Idle
      BY <2>3, Inserted, AnswersElsewhere DEF SInv, IInv
    <2>6. QED
      BY <2>3, <2>4, <2>5, IdleFields DEF PutInsert
  <1>2. QED
    BY <1>1, SInvAlways, PTL DEF Spec, QuotaHeld

-----------------------------------------------------------------------------
(* What a PUT saved is what a GET finds. *)

\* A row just inserted is found by the facts it was inserted with.
LEMMA NewRowFound ==
    ASSUME TypeOK, NEW r \in Requests, NEW c \in Conns, NEW new,
           req[r].on = c, req[r].facts = known[c], known' = known, Candidates(c) = {},
           new \notin rows, rows' = rows \cup {new}, canvas'[new] = NewRow(r),
           \A k \in rows : canvas'[k] = canvas[k]
    PROVE  new \in Candidates(c)'
  <1> DEFINE f == known[c]
  <1>1. /\ canvas'[new].on = c /\ canvas'[new].fp = f.fp
        /\ canvas'[new].history = IF f.cs = None THEN <<>> ELSE <<f.cs>>
    BY DEF NewRow
  <1>2. ByPrint(c, f) = {} /\ ByHistory(c, f) = {}
    BY DEF Candidates
  <1>3. f.fp = None => ByPrint(c, f)' = {}
    BY DEF ByPrint
  <1>4. f.fp # None => new \in ByPrint(c, f)'
    BY <1>1 DEF ByPrint, SameTeam
  <1>5. f.cs # None => new \in ByHistory(c, f)'
    <2>1. SUFFICES ASSUME f.cs # None PROVE f.cs \in Seen(new)'
      BY <1>1 DEF ByHistory, SameTeam
    <2>2. canvas'[new].history = <<f.cs>>
      BY <1>1, <2>1
    <2>3. QED
      BY <2>2 DEF Seen
  <1>6. f.cs = None => ByHistory(c, f)' = {}
    BY DEF ByHistory
  <1>7. f.fp = None => new \in ByConnection(c)'
    BY <1>1 DEF ByConnection
  <1>8. QED
    BY <1>3, <1>4, <1>5, <1>6, <1>7 DEF Candidates

\* Only the write of a PUT answers it.
LEMMA AnswerStep ==
    ASSUME TypeOK, [Next]_vars, NEW r \in Requests, Writes(r, "put"), answer'[r] # answer[r]
    PROVE  PutUpdate(r) \/ PutInsert(r)
  <1> SUFFICES ASSUME ~PutUpdate(r), ~PutInsert(r) PROVE FALSE
    OBVIOUS
  <1>1. req[r].op = "put" /\ req[r].at = "write"
    BY DEF Writes
  <1>2. ASSUME NEW s \in Requests, NEW a, Answers(s, a) PROVE s = r
    BY <1>2, AnswersElsewhere
  <1>3. ASSUME NEW s \in Requests, Put(s) \/ Delete(s) \/ Beat(s) PROVE FALSE
    <2>1. PICK op \in {"put", "delete", "beat"}, c \in Conns, f \in Facts \cup {NoFacts} :
             Start(s, op, c, f)
      BY <1>3 DEF Put, Delete, Beat
    <2>2. QED
      BY <1>1, <2>1 DEF Start, TypeOK
  <1>4. ASSUME NEW s \in Requests, PutCount(s) \/ PutUpdate(s) \/ PutInsert(s)
        PROVE  FALSE
    BY <1>1, <1>2, <1>4 DEF PutCount, PutUpdate, PutInsert
  <1>5. ASSUME NEW s \in Requests, DeleteRow(s) \/ BeatPatch(s) \/ BeatAppend(s) \/ BeatEvent(s)
        PROVE  FALSE
    BY <1>1, <1>2, <1>5 DEF DeleteRow, BeatPatch, BeatAppend, BeatEvent, Writes
  <1>6. ASSUME UNCHANGED answer PROVE FALSE
    BY <1>6
  <1>7. ASSUME NEW s \in Requests, ReadFacts(s) \/ SelectByPrint(s) \/ SelectByHistory(s)
                                   \/ SelectLegacy(s) \/ Lock(s) \/ Drop(s)
        PROVE  FALSE
    BY <1>6, <1>7 DEF ReadFacts, SelectByPrint, SelectByHistory, SelectLegacy, Lookup, Lock, Drop
  <1>8. QED
    BY <1>3, <1>4, <1>5, <1>6, <1>7 DEF Next, Advance, Pair, vars

\* A layout saved for a connection is the one a GET of it would read now, unless
\* facts were reported or a canvas deleted while the PUT ran.
THEOREM SavedAreFound == Spec => SavedIsFound
  <1>1. SInv /\ [Next]_vars =>
           [ \A r \in Requests \ disturbed, c \in Conns :
               Writes(r, "put") /\ req[r].on = c /\ answer'[r] = "ok" =>
                 IF req[r].found # None THEN req[r].found \in Candidates(c)'
                                        ELSE (rows' \ rows) \subseteq Candidates(c)' ]_vars
    <2> SUFFICES ASSUME SInv, [Next]_vars, NEW r \in Requests \ disturbed, NEW c \in Conns,
                        Writes(r, "put"), req[r].on = c, answer'[r] = "ok"
                 PROVE  IF req[r].found # None THEN req[r].found \in Candidates(c)'
                                               ELSE (rows' \ rows) \subseteq Candidates(c)'
      OBVIOUS
    <2>1. /\ TypeOK /\ Served(r) /\ InTransaction(r)
          /\ req[r].op = "put" /\ req[r].at = "write"
      BY DEF SInv, IInv, AllServed, InTransaction, Writes
    <2>2. Current(r) /\ answer[r] = "none"
      BY <2>1 DEF Served, Undisturbed
    <2>3. PutUpdate(r) \/ PutInsert(r)
      BY <2>1, <2>2, AnswerStep
    <2>4. CASE PutUpdate(r)
      <3>1. req[r].found # None /\ UNCHANGED <<known, canvas>>
        BY <2>4 DEF PutUpdate
      <3>2. req[r].found \in Candidates(c)
        BY <2>1, <2>2, <3>1 DEF Current
      <3>3. Candidates(c)' = Candidates(c)
        BY <3>1 DEF Candidates, ByPrint, ByHistory, ByConnection, SameTeam, Seen, rows
      <3>4. QED
        BY <3>1, <3>2, <3>3
    <2>5. CASE PutInsert(r)
      <3>1. req[r].found = None /\ req[r].facts = known[c] /\ Candidates(c) = {}
        BY <2>1, <2>2, <2>5 DEF PutInsert, Current
      <3>2. Clashes(r) = {}
        BY <2>1, <2>5, AnswersElsewhere DEF PutInsert
      <3>3. UNCHANGED known
        BY <2>5 DEF PutInsert
      <3>4. PICK new \in Ids \ rows : /\ rows' = rows \cup {new}
                                      /\ canvas'[new] = NewRow(r)
                                      /\ \A k \in rows : canvas'[k] = canvas[k]
        BY <2>5, <3>2, Inserted
      <3>5. new \in Candidates(c)'
        BY <2>1, <3>1, <3>3, <3>4, NewRowFound
      <3>6. QED
        BY <3>1, <3>4, <3>5
    <2>6. QED
      BY <2>3, <2>4, <2>5
  <1>2. QED
    BY <1>1, SInvAlways, PTL DEF Spec, SavedIsFound
=============================================================================
