---------------------------- MODULE PairingProofs ----------------------------
(***************************************************************************)
(* Proofs about Pairing, for any codes, CLIs, teams and facts: types,      *)
(* safety, and that the device flow implements PairingLifecycle.           *)
(***************************************************************************)
EXTENDS Pairing, TLAPS

\* What the columns of a pairing say together.
RowSound(c) ==
    /\ run[c] = "off" => row[c] = "absent"
    /\ row[c] = "absent" => c \notin expired
    /\ row[c] # "absent" => cliOf[c] \in Clis
    /\ row[c] \in {"approved", "consumed"} => team[c] \in Teams
    /\ tx[c] # "idle" => row[c] = "approved"

\* What an issued session says of its code.
SessionSound(c) ==
    /\ "token" \in replies[c] => row[c] = "consumed"
    /\ row[c] = "consumed" => bound[c] \in Ids /\ bound[c][1] = team[c]

RowsSound == \A c \in Codes : RowSound(c)

SessionsSound == \A c \in Codes : SessionSound(c)

IInv == TypeOK /\ RowsSound /\ SessionsSound /\ OneSessionPerCode /\ NamesUnique

LEMMA PatchedTyped ==
    ASSUME NEW old \in Facts, NEW f \in Facts PROVE Patched(old, f) \in Facts
  BY DEF Patched, Facts

LEMMA NoFactsTyped == NoFacts \in Facts
  BY DEF NoFacts, Facts

LEMMA IInvInit == Init => IInv
  <1> SUFFICES ASSUME Init PROVE IInv
    OBVIOUS
  <1>1. TypeOK
    BY NoFactsTyped DEF Init, TypeOK
  <1>2. RowsSound /\ SessionsSound /\ OneSessionPerCode /\ NamesUnique
    BY DEF Init, RowsSound, RowSound, SessionsSound, SessionSound, OneSessionPerCode, NamesUnique
  <1>3. QED
    BY <1>1, <1>2 DEF IInv

\* The connection of the CLI of a pairing that is being redeemed.
LEMMA OwnTyped ==
    ASSUME IInv, NEW c \in Codes, tx[c] # "idle"
    PROVE  Own(c) \in Ids /\ Own(c)[1] = team[c] /\ row[c] = "approved"
  BY DEF IInv, RowsSound, RowSound, Own, Ids

LEMMA CandidatesInTeam ==
    ASSUME IInv, NEW t, NEW k, NEW f, NEW x \in Candidates(t, k, f)
    PROVE  x \in conns /\ x \in Ids /\ x[1] = t
  BY DEF Candidates, FirstOf, SamePrint, SameChecksum, InTeam, IInv, TypeOK

\* A transaction that commits.
LEMMA IssueKeeps ==
    ASSUME IInv, NEW c \in Codes, tx[c] # "idle", NEW x \in Ids, x[1] = team[c], Issue(c, x)
    PROVE  /\ RowsSound' /\ SessionsSound' /\ OneSessionPerCode'
           /\ row' \in [Codes -> {"absent", "pending", "approved", "consumed"}]
           /\ issued' \in [Codes -> Nat]
           /\ bound' \in [Codes -> Ids \cup {None}]
           /\ tx' \in [Codes -> {"idle", "match", "reuse", "name", "insert"}]
           /\ replies' \in [Codes -> SUBSET {"token", "refused"}]
  <1> USE DEF IInv, TypeOK
  <1>1. row[c] = "approved" /\ issued[c] = 0
    BY DEF RowsSound, RowSound, OneSessionPerCode
  <1>2. RowsSound'
    BY <1>1 DEF Issue, RowsSound, RowSound
  <1>3. SessionsSound'
    <2> SUFFICES ASSUME NEW d \in Codes PROVE SessionSound(d)'
      BY DEF SessionsSound
    <2>1. CASE d = c
      BY <2>1 DEF Issue, SessionSound
    <2>2. CASE d # c
      BY <2>2 DEF Issue, Replies, SessionsSound, SessionSound
    <2>3. QED
      BY <2>1, <2>2
  <1>4. OneSessionPerCode'
    BY <1>1 DEF Issue, OneSessionPerCode
  <1>5. QED
    BY <1>2, <1>3, <1>4 DEF Issue, Replies

LEMMA RefuseKeeps ==
    ASSUME IInv, NEW c \in Codes, Refuse(c) PROVE IInv'
  <1> USE DEF IInv, TypeOK
  <1>1. TypeOK'
    BY DEF Refuse, Replies, pairVars, connVars, sessVars
  <1>2. RowsSound' /\ SessionsSound'
    BY DEF Refuse, Replies, RowsSound, RowSound, SessionsSound, SessionSound, pairVars, sessVars
  <1>3. OneSessionPerCode' /\ NamesUnique'
    BY DEF Refuse, OneSessionPerCode, NamesUnique, pairVars, connVars, sessVars
  <1>4. QED
    BY <1>1, <1>2, <1>3

LEMMA GoesKeeps ==
    ASSUME IInv, NEW c \in Codes, NEW next \in {"reuse", "name", "insert"}, tx[c] # "idle",
           Goes(c, next)
    PROVE  IInv'
  <1> USE DEF IInv, TypeOK
  <1>1. TypeOK'
    BY DEF Goes, pairVars, connVars, sessVars, runVars
  <1>2. RowsSound' /\ SessionsSound'
    BY DEF Goes, RowsSound, RowSound, SessionsSound, SessionSound, pairVars, sessVars, runVars
  <1>3. OneSessionPerCode' /\ NamesUnique'
    BY DEF Goes, OneSessionPerCode, NamesUnique, pairVars, connVars, sessVars, runVars
  <1>4. QED
    BY <1>1, <1>2, <1>3

LEMMA ReusesKeeps ==
    ASSUME IInv, NEW c \in Codes, tx[c] # "idle", NEW x \in Ids, x[1] = team[c], Reuses(c, x)
    PROVE  IInv'
  <1>1. Issue(c, x) /\ UNCHANGED <<conns, nameOf>>
    BY DEF Reuses
  <1>2. known' \in [Ids -> Facts]
    BY PatchedTyped DEF Reuses, IInv, TypeOK
  <1>3. NamesUnique'
    BY <1>1 DEF IInv, NamesUnique
  <1>4. QED
    BY <1>1, <1>2, <1>3, IssueKeeps DEF IInv, TypeOK, Issue

LEMMA InsertKeeps ==
    ASSUME IInv, NEW c \in Codes, Insert(c) PROVE IInv'
  <1>1. CASE Insertable(c)
    <2>1. Own(c) \in Ids /\ Own(c)[1] = team[c] /\ Own(c) \notin conns
      BY <1>1, OwnTyped DEF Insert, Insertable
    <2> DEFINE own == Own(c)
    <2>2. /\ conns' = conns \cup {own}
          /\ nameOf' = [nameOf EXCEPT ![own] = device[c]]
          /\ known' = [known EXCEPT ![own] = txFacts[c]]
          /\ Issue(c, own)
      BY <1>1 DEF Insert
    <2>3. \A x \in conns : x[1] = own[1] => nameOf[x] # device[c]
      BY <1>1, <2>1 DEF Insertable, NameTaken, InTeam
    <2> HIDE DEF own
    <2>4. own \in Ids /\ own[1] = team[c] /\ own \notin conns
      BY <2>1 DEF own
    <2>5. NamesUnique'
      BY <2>2, <2>3, <2>4 DEF IInv, TypeOK, NamesUnique
    <2>6. conns' \subseteq Ids /\ nameOf' \in [Ids -> Names \cup {None}] /\ known' \in [Ids -> Facts]
      BY <2>2, <2>4 DEF IInv, TypeOK
    <2>7. tx[c] # "idle"
      BY DEF Insert
    <2>8. QED
      BY <2>2, <2>4, <2>5, <2>6, <2>7, IssueKeeps DEF IInv, TypeOK, Issue
  <1>2. CASE ~Insertable(c)
    BY <1>2, RefuseKeeps DEF Insert
  <1>3. QED
    BY <1>1, <1>2

LEMMA StatementKeeps ==
    ASSUME IInv, NEW c \in Codes, Statement(c) PROVE IInv'
  <1>1. CASE Match(c)
    <2>1. tx[c] # "idle" /\ Own(c) \in Ids /\ Own(c)[1] = team[c]
      BY <1>1, OwnTyped DEF Match
    <2>2. QED
      BY <1>1, <2>1, ReusesKeeps, GoesKeeps DEF Match
  <1>2. CASE Reuse(c)
    <2>1. tx[c] # "idle"
      BY <1>2 DEF Reuse
    <2>2. QED
      BY <1>2, <2>1, CandidatesInTeam, ReusesKeeps, GoesKeeps DEF Reuse
  <1>3. CASE NameCheck(c)
    BY <1>3, RefuseKeeps, GoesKeeps DEF NameCheck
  <1>4. CASE Insert(c)
    BY <1>4, InsertKeeps
  <1>5. QED
    BY <1>1, <1>2, <1>3, <1>4 DEF Statement

LEMMA StartRunKeeps ==
    ASSUME IInv, NEW c \in Codes, NEW k \in Clis, NEW f \in Facts, StartRun(c, k, f)
    PROVE  IInv'
  <1> USE DEF IInv, TypeOK
  <1>1. row[c] = "absent" /\ disk[InstallOf[k]] \in SUBSET Codes
    BY PairingAssumption DEF StartRun, RowsSound, RowSound
  <1>2. TypeOK'
    BY <1>1 DEF StartRun, CreatePairing, connVars, sessVars, txVars
  <1>3. RowsSound'
    BY <1>1 DEF StartRun, CreatePairing, RowsSound, RowSound, txVars
  <1>4. SessionsSound' /\ OneSessionPerCode' /\ NamesUnique'
    BY <1>1 DEF StartRun, CreatePairing, SessionsSound, SessionSound, OneSessionPerCode,
                NamesUnique, connVars, sessVars
  <1>5. QED
    BY <1>2, <1>3, <1>4

\* Only the column run changes, and the run does not succeed.
LEMMA RunEndsKeeps ==
    ASSUME IInv, NEW c \in Codes, NEW w \in {"authenticating", "failed"},
           run[c] # "off", run' = [run EXCEPT ![c] = w],
           UNCHANGED <<pairVars, connVars, sessVars, txVars, replies, loaded, disk>>
    PROVE  IInv'
  <1> USE DEF IInv, TypeOK, pairVars, connVars, sessVars, txVars
  <1>1. TypeOK'
    OBVIOUS
  <1>2. RowsSound' /\ SessionsSound'
    BY DEF RowsSound, RowSound, SessionsSound, SessionSound
  <1>3. OneSessionPerCode' /\ NamesUnique'
    BY DEF OneSessionPerCode, NamesUnique
  <1>4. QED
    BY <1>1, <1>2, <1>3

LEMMA AnsweredKeeps ==
    ASSUME IInv, NEW c \in Codes, Answered(c) PROVE IInv'
  <1> USE DEF IInv, TypeOK
  <1>1. Saved(c) \in SUBSET Codes
    BY DEF Saved
  <1>2. TypeOK'
    <2>1. disk' \in [Installs -> SUBSET Codes]
      BY <1>1 DEF Answered
    <2>2. run' \in [Codes -> {"off", "polling", "authenticating", "done", "failed"}]
      BY DEF Answered
    <2>3. QED
      BY <2>1, <2>2 DEF Answered, pairVars, connVars, sessVars, txVars
  <1>3. RowsSound' /\ SessionsSound'
    BY DEF Answered, RowsSound, RowSound, SessionsSound, SessionSound, pairVars, sessVars, txVars
  <1>4. OneSessionPerCode' /\ NamesUnique'
    BY DEF Answered, OneSessionPerCode, NamesUnique, SessionsSound, SessionSound,
           pairVars, connVars, sessVars
  <1>5. QED
    BY <1>2, <1>3, <1>4

LEMMA HeartbeatKeeps ==
    ASSUME IInv, NEW c \in Codes, NEW f \in Facts, Heartbeat(c, f) PROVE IInv'
  <1> USE DEF IInv, TypeOK, pairVars, sessVars, txVars, runVars
  <1>1. known' \in [Ids -> Facts]
    <2>1. bound[c] \in Ids
      BY DEF Heartbeat, OneSessionPerCode, SessionsSound, SessionSound
    <2>2. Patched(known[bound[c]], f) \in Facts
      BY <2>1, PatchedTyped
    <2>3. QED
      BY <2>2 DEF Heartbeat
  <1>2. TypeOK'
    BY <1>1 DEF Heartbeat
  <1>3. RowsSound' /\ SessionsSound'
    BY DEF Heartbeat, RowsSound, RowSound, SessionsSound, SessionSound
  <1>4. OneSessionPerCode' /\ NamesUnique'
    BY DEF Heartbeat, OneSessionPerCode, NamesUnique
  <1>5. QED
    BY <1>2, <1>3, <1>4

LEMMA ApproveKeeps ==
    ASSUME IInv, NEW c \in Codes, NEW own \in Teams, NEW over \in Teams \cup {None},
           NEW n \in Names \cup {None}, Approve(c, own, over, n)
    PROVE  IInv'
  <1> USE DEF IInv, TypeOK, connVars, sessVars, txVars, runVars
  <1> DEFINE t == TeamFor(c, own, over)
  <1>1. t \in Teams
    BY PairingAssumption DEF TeamFor
  <1>2. row[c] \in {"pending", "approved"} /\ tx[c] = "idle" /\ run[c] # "off"
    BY DEF Approve, Approvable, RowsSound, RowSound
  <1>3. Known(t, c) \subseteq Ids
    BY DEF Known, FirstOf, SamePrint, SameChecksum, InTeam
  <1>4. device' \in [Codes -> Names \cup {None}]
    <2>1. PICK m \in IF Known(t, c) # {} THEN { nameOf[x] : x \in Known(t, c) } ELSE {n} :
              device' = [device EXCEPT ![c] = m]
      BY DEF Approve
    <2>2. m \in Names \cup {None}
      BY <1>3, <2>1
    <2>3. QED
      BY <2>1, <2>2
  <1>5. row' = [row EXCEPT ![c] = "approved"] /\ team' = [team EXCEPT ![c] = t]
    BY DEF Approve
  <1> HIDE DEF t
  <1>6. TypeOK'
    BY <1>1, <1>4, <1>5 DEF Approve
  <1>7. RowsSound'
    BY <1>1, <1>2, <1>5 DEF Approve, RowsSound, RowSound
  <1>8. SessionsSound' /\ OneSessionPerCode' /\ NamesUnique'
    BY <1>2, <1>5 DEF Approve, SessionsSound, SessionSound, OneSessionPerCode, NamesUnique
  <1>9. QED
    BY <1>6, <1>7, <1>8

LEMMA BeginKeeps ==
    ASSUME IInv, NEW c \in Codes, NEW p \in Prints \cup {None}, Begin(c, p) PROVE IInv'
  <1>1. CASE Redeemable(c)
    <2> USE DEF IInv, TypeOK, pairVars, connVars, sessVars
    <2> DEFINE facts == [sent[c] EXCEPT !.fp = IF @ # None THEN @ ELSE p]
    <2>1. facts \in Facts
      <3>1. sent[c] \in Facts
        OBVIOUS
      <3>2. QED
        BY <3>1 DEF Facts
    <2>2. /\ tx' = [tx EXCEPT ![c] = "match"]
          /\ txFacts' = [txFacts EXCEPT ![c] = facts]
          /\ UNCHANGED replies
      BY <1>1 DEF Begin
    <2> HIDE DEF facts
    <2>3. TypeOK'
      BY <2>1, <2>2 DEF Begin
    <2>4. RowsSound' /\ SessionsSound'
      BY <1>1, <2>2 DEF Begin, Redeemable, RowsSound, RowSound, SessionsSound, SessionSound
    <2>5. OneSessionPerCode' /\ NamesUnique'
      BY DEF Begin, OneSessionPerCode, NamesUnique
    <2>6. QED
      BY <2>3, <2>4, <2>5
  <1>2. CASE ~Redeemable(c)
    <2>1. UNCHANGED <<pairVars, connVars, sessVars, txVars, run, loaded, disk>>
      BY <1>2 DEF Begin
    <2>2. Replies(c, "refused")
      BY <1>2 DEF Begin
    <2> USE DEF IInv, TypeOK, Replies, pairVars, connVars, sessVars, txVars
    <2>3. TypeOK'
      BY <2>1, <2>2
    <2>4. RowsSound' /\ SessionsSound'
      BY <2>1, <2>2 DEF RowsSound, RowSound, SessionsSound, SessionSound
    <2>5. OneSessionPerCode' /\ NamesUnique'
      BY <2>1 DEF OneSessionPerCode, NamesUnique
    <2>6. QED
      BY <2>3, <2>4, <2>5
  <1>3. QED
    BY <1>1, <1>2

\* The clock: it touches neither rows nor sessions.
LEMMA ClockKeeps ==
    ASSUME IInv, NEW c \in Codes, Expire(c) \/ Lapse(c) PROVE IInv'
  <1> USE DEF IInv, TypeOK, pairVars, connVars, sessVars, txVars, runVars
  <1>1. TypeOK'
    BY DEF Expire, Lapse
  <1>2. RowsSound' /\ SessionsSound'
    BY DEF Expire, Lapse, RowsSound, RowSound, SessionsSound, SessionSound
  <1>3. OneSessionPerCode' /\ NamesUnique'
    BY DEF Expire, Lapse, OneSessionPerCode, NamesUnique
  <1>4. QED
    BY <1>1, <1>2, <1>3

LEMMA CrashKeeps == ASSUME IInv, Crash PROVE IInv'
  <1> USE DEF IInv, TypeOK, pairVars, connVars, sessVars
  <1>1. TypeOK'
    BY DEF Crash
  <1>2. RowsSound' /\ SessionsSound'
    BY DEF Crash, RowsSound, RowSound, SessionsSound, SessionSound
  <1>3. OneSessionPerCode' /\ NamesUnique'
    BY DEF Crash, OneSessionPerCode, NamesUnique
  <1>4. QED
    BY <1>1, <1>2, <1>3

LEMMA StutterKeeps == ASSUME IInv, UNCHANGED vars PROVE IInv'
  BY DEF vars, IInv, TypeOK, RowsSound, RowSound, SessionsSound, SessionSound,
         OneSessionPerCode, NamesUnique

LEMMA IInvStep == IInv /\ [Next]_vars => IInv'
  <1> SUFFICES ASSUME IInv, [Next]_vars PROVE IInv'
    OBVIOUS
  <1>1. ASSUME NEW c \in Codes, RunNext(c) PROVE IInv'
    <2>1. ASSUME NEW k \in Clis, NEW f \in Facts, StartRun(c, k, f) PROVE IInv'
      BY <2>1, StartRunKeeps
    <2>2. CASE Poll(c)
      BY <2>2, RunEndsKeeps DEF Poll
    <2>3. CASE RunFails(c)
      BY <2>3, RunEndsKeeps DEF RunFails
    <2>4. CASE Answered(c)
      BY <2>4, AnsweredKeeps
    <2>5. ASSUME NEW f \in Facts, Heartbeat(c, f) PROVE IInv'
      BY <2>5, HeartbeatKeeps
    <2>6. QED
      BY <1>1, <2>1, <2>2, <2>3, <2>4, <2>5 DEF RunNext
  <1>2. ASSUME NEW c \in Codes, CodeNext(c) PROVE IInv'
    <2>1. ASSUME NEW own \in Teams, NEW over \in Teams \cup {None}, NEW n \in Names \cup {None},
                 Approve(c, own, over, n)
          PROVE  IInv'
      BY <2>1, ApproveKeeps
    <2>2. ASSUME NEW p \in Prints \cup {None}, Begin(c, p) PROVE IInv'
      BY <2>2, BeginKeeps
    <2>3. CASE Statement(c)
      BY <2>3, StatementKeeps
    <2>4. CASE Expire(c) \/ Lapse(c)
      BY <2>4, ClockKeeps
    <2>5. QED
      BY <1>2, <2>1, <2>2, <2>3, <2>4 DEF CodeNext, Statement
  <1>3. CASE Crash
    BY <1>3, CrashKeeps
  <1>4. CASE UNCHANGED vars
    BY <1>4, StutterKeeps
  <1>5. QED
    BY <1>1, <1>2, <1>3, <1>4 DEF Next

LEMMA IInvAlways == Spec => []IInv
  BY IInvInit, IInvStep, PTL DEF Spec

\* Every column keeps its domain: a token reaches only runs, a session only
\* ids of the approved team, and a rolled back statement leaves no trace.
THEOREM TypeCorrect == Spec => []TypeOK
  BY IInvAlways, PTL DEF IInv

\* However often and however late a code is presented, and whenever the
\* backend crashes, `authenticatePairing' inserts one session at most for it,
\* exactly when it is consumed, and a run that succeeded holds it.
THEOREM OneSession == Spec => []OneSessionPerCode
  BY IInvAlways, PTL DEF IInv

\* The unique indexes, not the look-ups before them, keep the names of the
\* connections of a team distinct.
THEOREM UniqueNames == Spec => []NamesUnique
  BY IInvAlways, PTL DEF IInv

-----------------------------------------------------------------------------
(* The configuration file. *)

\* Entries are of runs that succeeded; one of a run that did is in the file
\* of its installation, unless an overlapping run succeeded too.
ConfigSound ==
    /\ \A c \in Codes : \A d \in loaded[c] : run[d] = "done"
    /\ \A i \in Installs : \A d \in disk[i] : run[d] = "done"
    /\ \A c \in Codes : run[c] = "done" =>
          \/ c \in disk[InstallOf[cliOf[c]]]
          \/ \E d \in Codes \ {c} : run[d] = "done" /\ Overlapped(c, d)

LEMMA ConfigInit == Init => ConfigSound
  BY DEF Init, ConfigSound

\* A step after which the same runs have succeeded and the same files are there.
LEMMA ConfigUndisturbed ==
    ASSUME ConfigSound, UNCHANGED <<loaded, disk, cliOf>>,
           \A d \in Codes : run'[d] = "done" <=> run[d] = "done",
           TypeOK
    PROVE  ConfigSound'
  <1>1. \A d \in Codes : loaded[d] \subseteq Codes
    BY DEF TypeOK
  <1>2. \A i \in Installs : disk[i] \subseteq Codes
    BY DEF TypeOK
  <1>3. QED
    BY <1>1, <1>2 DEF ConfigSound, Overlapped

\* A run that starts reads entries of runs that are over.
LEMMA StartRunKeepsConfig ==
    ASSUME IInv, ConfigSound, NEW c \in Codes, NEW k \in Clis, NEW f \in Facts, StartRun(c, k, f)
    PROVE  ConfigSound'
  <1> USE DEF IInv, TypeOK
  <1>1. /\ run' = [run EXCEPT ![c] = "polling"] /\ run[c] = "off"
        /\ loaded' = [loaded EXCEPT ![c] = disk[InstallOf[k]]]
        /\ cliOf' = [cliOf EXCEPT ![c] = k] /\ UNCHANGED disk
    BY DEF StartRun, CreatePairing
  <1>2. \A d \in Codes : d # c => run'[d] = run[d] /\ loaded'[d] = loaded[d] /\ cliOf'[d] = cliOf[d]
    BY <1>1
  <1>3. InstallOf[k] \in Installs
    BY PairingAssumption
  <1>4. \A d \in Codes : \A x \in loaded'[d] : x \in Codes /\ x # c /\ run[x] = "done"
    BY <1>1, <1>3 DEF ConfigSound
  <1>5. \A i \in Installs : \A x \in disk'[i] : x \in Codes /\ x # c /\ run[x] = "done"
    BY <1>1 DEF ConfigSound
  <1>6. ASSUME NEW d \in Codes, run'[d] = "done"
        PROVE  \/ d \in disk'[InstallOf[cliOf'[d]]]
               \/ \E x \in Codes \ {d} : run'[x] = "done" /\ Overlapped(d, x)'
    <2>1. d # c /\ run[d] = "done"
      BY <1>1, <1>6
    <2>2. CASE d \in disk[InstallOf[cliOf[d]]]
      BY <1>1, <1>2, <2>1, <2>2
    <2>3. ASSUME NEW x \in Codes \ {d}, run[x] = "done", Overlapped(d, x)
          PROVE  run'[x] = "done" /\ Overlapped(d, x)'
      BY <1>1, <1>2, <2>1, <2>3 DEF Overlapped
    <2>4. QED
      BY <2>1, <2>2, <2>3 DEF ConfigSound
  <1>7. QED
    BY <1>2, <1>4, <1>5, <1>6 DEF ConfigSound

\* A run that succeeds writes what it read and its own entry: an entry it did
\* not read is of a run that did not read its own either.
LEMMA AnsweredKeepsConfig ==
    ASSUME IInv, ConfigSound, NEW c \in Codes, Answered(c) PROVE ConfigSound'
  <1> USE DEF IInv, TypeOK
  <1> DEFINE i == InstallOf[cliOf[c]]
  <1>1. /\ run[c] = "authenticating" /\ UNCHANGED <<cliOf, loaded>>
    BY DEF Answered, pairVars
  <1>2. CASE "token" \notin replies[c]
    <2>1. run' = [run EXCEPT ![c] = "failed"] /\ UNCHANGED disk
      BY <1>2 DEF Answered
    <2>2. \A d \in Codes : run'[d] = "done" <=> run[d] = "done"
      BY <1>1, <2>1
    <2>3. QED
      BY <1>1, <2>1, <2>2, ConfigUndisturbed
  <1>3. CASE run' = [run EXCEPT ![c] = "failed"] /\ UNCHANGED disk
    <2>1. \A d \in Codes : run'[d] = "done" <=> run[d] = "done"
      BY <1>1, <1>3
    <2>2. QED
      BY <1>1, <1>3, <2>1, ConfigUndisturbed
  <1>4. CASE /\ "token" \in replies[c]
             /\ run' = [run EXCEPT ![c] = "done"]
             /\ disk' = [disk EXCEPT ![i] = Saved(c)]
    <2>1. i \in Installs
      BY <1>4, PairingAssumption DEF SessionsSound, SessionSound, RowsSound, RowSound
    <2>2. \A d \in Codes : run[d] = "done" => run'[d] = "done"
      BY <1>4
    <2>3. \A d \in Codes : \A x \in loaded'[d] : run'[x] = "done"
      BY <1>1, <2>2 DEF ConfigSound
    <2>4. \A j \in Installs : \A x \in disk'[j] : run'[x] = "done"
      BY <1>4, <2>1, <2>2 DEF ConfigSound, Saved
    <2>5. ASSUME NEW d \in Codes, run'[d] = "done"
          PROVE  \/ d \in disk'[InstallOf[cliOf'[d]]]
                 \/ \E x \in Codes \ {d} : run'[x] = "done" /\ Overlapped(d, x)'
      <3>1. CASE d = c
        BY <1>1, <1>4, <2>1, <3>1 DEF Saved
      <3>2. CASE d # c /\ InstallOf[cliOf[d]] = i
        <4>1. CASE d \in loaded[c]
          BY <1>1, <1>4, <2>1, <3>2, <4>1 DEF Saved
        <4>2. CASE d \notin loaded[c]
          <5>1. c \notin loaded[d]
            BY <1>1 DEF ConfigSound
          <5>2. run'[c] = "done" /\ Overlapped(d, c)'
            BY <1>1, <1>4, <3>2, <4>2, <5>1 DEF Overlapped
          <5>3. QED
            BY <3>2, <5>2
        <4>3. QED
          BY <4>1, <4>2
      <3>3. CASE d # c /\ InstallOf[cliOf[d]] # i
        <4>1. run[d] = "done" /\ disk'[InstallOf[cliOf[d]]] = disk[InstallOf[cliOf[d]]]
          BY <1>4, <2>5, <3>3
        <4>2. ASSUME NEW x \in Codes \ {d}, run[x] = "done", Overlapped(d, x)
              PROVE  run'[x] = "done" /\ Overlapped(d, x)'
          BY <1>1, <2>2, <4>2 DEF Overlapped
        <4>3. QED
          BY <1>1, <4>1, <4>2 DEF ConfigSound
      <3>4. QED
        BY <3>1, <3>2, <3>3
    <2>6. QED
      BY <2>3, <2>4, <2>5 DEF ConfigSound
  <1>5. QED
    BY <1>2, <1>3, <1>4 DEF Answered

LEMMA ConfigStep == IInv /\ ConfigSound /\ [Next]_vars => ConfigSound'
  <1> SUFFICES ASSUME IInv, ConfigSound, [Next]_vars PROVE ConfigSound'
    OBVIOUS
  <1> USE DEF IInv
  <1>1. ASSUME NEW c \in Codes, RunNext(c) PROVE ConfigSound'
    <2>1. ASSUME NEW k \in Clis, NEW f \in Facts, StartRun(c, k, f) PROVE ConfigSound'
      BY <2>1, StartRunKeepsConfig
    <2>2. CASE Poll(c) \/ RunFails(c)
      <3>1. /\ UNCHANGED <<loaded, disk, cliOf>>
            /\ \A d \in Codes : run'[d] = "done" <=> run[d] = "done"
        BY <2>2 DEF Poll, RunFails, pairVars, TypeOK
      <3>2. QED
        BY <3>1, ConfigUndisturbed
    <2>3. CASE Answered(c)
      BY <2>3, AnsweredKeepsConfig
    <2>4. ASSUME NEW f \in Facts, Heartbeat(c, f) PROVE ConfigSound'
      BY <2>4, ConfigUndisturbed DEF Heartbeat, pairVars, runVars
    <2>5. QED
      BY <1>1, <2>1, <2>2, <2>3, <2>4 DEF RunNext
  <1>2. ASSUME NEW c \in Codes, CodeNext(c) PROVE UNCHANGED <<run, loaded, disk, cliOf>>
    <2>1. ASSUME NEW own, NEW over, NEW n, Approve(c, own, over, n)
          PROVE  UNCHANGED <<run, loaded, disk, cliOf>>
      BY <2>1 DEF Approve, runVars
    <2>2. ASSUME NEW p, Begin(c, p) PROVE UNCHANGED <<run, loaded, disk, cliOf>>
      BY <2>2 DEF Begin, pairVars
    <2>3. CASE Statement(c)
      BY <2>3 DEF Statement, Match, Reuse, NameCheck, Insert, Reuses, Issue, Goes, Refuse,
                  pairVars, runVars
    <2>4. CASE Expire(c) \/ Lapse(c)
      BY <2>4 DEF Expire, Lapse, pairVars, runVars
    <2>5. QED
      BY <1>2, <2>1, <2>2, <2>3, <2>4 DEF CodeNext, Statement
  <1>3. CASE Crash
    <2>1. /\ UNCHANGED <<loaded, disk, cliOf>>
          /\ \A d \in Codes : run'[d] = "done" <=> run[d] = "done"
      BY <1>3 DEF Crash, pairVars
    <2>2. QED
      BY <2>1, ConfigUndisturbed
  <1>4. CASE UNCHANGED vars
    BY <1>4, ConfigUndisturbed DEF vars
  <1>5. QED
    BY <1>1, <1>2, <1>3, <1>4, ConfigUndisturbed DEF Next

LEMMA ConfigAlways == Spec => [](IInv /\ ConfigSound)
  BY IInvAlways, ConfigInit, ConfigStep, PTL DEF Spec

\* While its token is good, `connect' finds the entry of a database that was
\* paired, unless a run that overlapped the pairing wrote the file too.
THEOREM PairedOnce == Spec => []PairedOnceUnlessOverlapped
  <1>1. ConfigSound => PairedOnceUnlessOverlapped
    BY DEF ConfigSound, PairedOnceUnlessOverlapped, Resumable
  <1>2. QED
    BY <1>1, ConfigAlways, PTL

-----------------------------------------------------------------------------
(* Consumed codes. *)

\* What a step leaves alone of the row and the session of a code.
Kept(d) ==
    row'[d] = row[d] /\ team'[d] = team[d] /\ device'[d] = device[d] /\ bound'[d] = bound[d]

\* A commit concerns an approved row, never a consumed one.
LEMMA StatementSpares ==
    ASSUME IInv, NEW d \in Codes, row[d] = "consumed", NEW c \in Codes, Statement(c)
    PROVE  Kept(d)
  <1>1. row[c] = "approved" /\ c # d
    BY OwnTyped DEF Statement, Match, Reuse, NameCheck, Insert
  <1>2. ASSUME NEW x, Issue(c, x) PROVE Kept(d)
    BY <1>1, <1>2 DEF Issue, Kept, IInv, TypeOK
  <1>3. Refuse(c) => Kept(d)
    BY DEF Refuse, Kept, pairVars, sessVars
  <1>4. ASSUME NEW next, Goes(c, next) PROVE Kept(d)
    BY <1>4 DEF Goes, Kept, pairVars, sessVars
  <1>5. QED
    BY <1>2, <1>3, <1>4 DEF Statement, Match, Reuse, NameCheck, Insert, Reuses

LEMMA StepSpares ==
    ASSUME IInv, NEW d \in Codes, row[d] = "consumed", Next PROVE Kept(d)
  <1>1. ASSUME NEW c \in Codes, RunNext(c) PROVE Kept(d)
    <2>1. ASSUME NEW k \in Clis, NEW f \in Facts, StartRun(c, k, f) PROVE Kept(d)
      BY <2>1 DEF StartRun, CreatePairing, RowsSound, RowSound, IInv, TypeOK, Kept, sessVars
    <2>2. CASE Poll(c) \/ RunFails(c) \/ Answered(c)
      BY <2>2 DEF Poll, RunFails, Answered, Kept, pairVars, sessVars
    <2>3. ASSUME NEW f \in Facts, Heartbeat(c, f) PROVE Kept(d)
      BY <2>3 DEF Heartbeat, Kept, pairVars, sessVars
    <2>4. QED
      BY <1>1, <2>1, <2>2, <2>3 DEF RunNext
  <1>2. ASSUME NEW c \in Codes, CodeNext(c) PROVE Kept(d)
    <2>1. ASSUME NEW own, NEW over, NEW n, Approve(c, own, over, n) PROVE Kept(d)
      <3>1. c # d
        BY <2>1 DEF Approve, Approvable
      <3>2. QED
        BY <2>1, <3>1 DEF Approve, Kept, sessVars, IInv, TypeOK
    <2>2. ASSUME NEW p, Begin(c, p) PROVE Kept(d)
      BY <2>2 DEF Begin, Kept, pairVars, sessVars
    <2>3. CASE Statement(c)
      BY <2>3, StatementSpares
    <2>4. CASE Expire(c) \/ Lapse(c)
      BY <2>4 DEF Expire, Lapse, Kept, pairVars, sessVars
    <2>5. QED
      BY <1>2, <2>1, <2>2, <2>3, <2>4 DEF CodeNext, Statement
  <1>3. CASE Crash
    BY <1>3 DEF Crash, Kept, pairVars, sessVars
  <1>4. QED
    BY <1>1, <1>2, <1>3 DEF Next

\* A consumed code is closed: no later approval, redemption, expiry or crash
\* changes its team, its name or the connection its session is bound to,
\* which is one of the approved team.
THEOREM ConsumedIsForGood == Spec => ConsumedForGood
  <1> DEFINE Closed(c) ==
        row[c] = "consumed" =>
          /\ row'[c] = "consumed"
          /\ team'[c] = team[c] /\ device'[c] = device[c]
          /\ bound'[c] = bound[c] /\ bound[c][1] = team[c]
  <1>1. IInv /\ [Next]_vars => [\A c \in Codes : Closed(c)]_vars
    <2> SUFFICES ASSUME IInv, Next, NEW c \in Codes, row[c] = "consumed"
                 PROVE  Kept(c) /\ bound[c][1] = team[c]
      BY DEF Kept
    <2>1. QED
      BY StepSpares DEF IInv, SessionsSound, SessionSound
  <1>2. QED
    BY IInvAlways, <1>1, PTL DEF Spec, ConsumedForGood

-----------------------------------------------------------------------------
(* The device flow implements the life cycle of one-time codes. *)

LEMMA LifecycleInit == Init => Lifecycle!Init
  BY DEF Init, Lifecycle!Init, Status

\* What the life cycle does not see: neither a row nor an expiry nor a session
\* changes, and no transaction begins or ends.
LEMMA Unseen ==
    ASSUME IInv, UNCHANGED <<row, expired, issued>>,
           \A c \in Codes : (tx'[c] # "idle") <=> (tx[c] # "idle")
    PROVE  UNCHANGED Lifecycle!vars
  BY DEF Lifecycle!vars, Status

\* A transaction that ends without a token, or several at a crash.
LEMMA EndsSeen ==
    ASSUME IInv, UNCHANGED <<row, expired, issued>>, NEW c \in Codes, tx[c] # "idle",
           tx'[c] = "idle", \A d \in Codes : tx'[d] # "idle" => tx[d] # "idle"
    PROVE  Lifecycle!GiveUp
  BY DEF Lifecycle!GiveUp, Status

LEMMA IssueSeen ==
    ASSUME IInv, NEW c \in Codes, tx[c] # "idle", NEW x, Issue(c, x)
    PROVE  Lifecycle!Consume(c)
  <1>1. row[c] = "approved" /\ issued[c] = 0
    BY DEF IInv, RowsSound, RowSound, OneSessionPerCode
  <1>2. /\ row' = [row EXCEPT ![c] = "consumed"] /\ UNCHANGED expired
        /\ issued' = [issued EXCEPT ![c] = @ + 1]
        /\ tx' = [tx EXCEPT ![c] = "idle"]
    BY DEF Issue
  <1>3. Status(c) \in {"approved", "expired"}
    BY <1>1 DEF Status
  <1>4. [d \in Codes |-> Status(d)]' = [[d \in Codes |-> Status(d)] EXCEPT ![c] = "consumed"]
    BY <1>1, <1>2 DEF Status, IInv, TypeOK
  <1>5. { d \in Codes : tx[d] # "idle" }' = { d \in Codes : tx[d] # "idle" } \ {c}
    BY <1>2 DEF IInv, TypeOK
  <1>6. { d \in Codes : issued[d] > 0 }' = { d \in Codes : issued[d] > 0 } \cup {c}
    BY <1>1, <1>2 DEF IInv, TypeOK
  <1>7. QED
    BY <1>1, <1>3, <1>4, <1>5, <1>6 DEF Lifecycle!Consume, Lifecycle!Moves

LEMMA StatementSeen ==
    ASSUME IInv, NEW c \in Codes, Statement(c)
    PROVE  Lifecycle!Consume(c) \/ Lifecycle!GiveUp \/ UNCHANGED Lifecycle!vars
  <1>1. tx[c] # "idle"
    BY DEF Statement, Match, Reuse, NameCheck, Insert
  <1>2. ASSUME NEW x, Issue(c, x) PROVE Lifecycle!Consume(c)
    BY <1>1, <1>2, IssueSeen
  <1>3. ASSUME Refuse(c) PROVE Lifecycle!GiveUp
    <2>1. tx' = [tx EXCEPT ![c] = "idle"] /\ UNCHANGED <<row, expired, issued>>
      BY <1>3 DEF Refuse, pairVars, sessVars
    <2>2. tx'[c] = "idle" /\ \A d \in Codes : tx'[d] # "idle" => tx[d] # "idle"
      BY <2>1 DEF IInv, TypeOK
    <2>3. QED
      BY <1>1, <2>1, <2>2, EndsSeen
  <1>4. ASSUME NEW next \in {"reuse", "name", "insert"}, Goes(c, next)
        PROVE  UNCHANGED Lifecycle!vars
    <2>1. tx' = [tx EXCEPT ![c] = next] /\ UNCHANGED <<row, expired, issued>>
      BY <1>4 DEF Goes, pairVars, sessVars
    <2>2. \A d \in Codes : (tx'[d] # "idle") <=> (tx[d] # "idle")
      BY <1>1, <2>1 DEF IInv, TypeOK
    <2>3. QED
      BY <2>1, <2>2, Unseen
  <1>5. QED
    BY <1>2, <1>3, <1>4 DEF Statement, Match, Reuse, NameCheck, Insert, Reuses

LEMMA StartRunSeen ==
    ASSUME IInv, NEW c \in Codes, NEW k \in Clis, NEW f \in Facts, StartRun(c, k, f)
    PROVE  Lifecycle!Create(c)
  <1>1. row[c] = "absent" /\ c \notin expired /\ tx[c] = "idle" /\ issued[c] = 0
    BY DEF StartRun, IInv, RowsSound, RowSound, OneSessionPerCode
  <1>2. row' = [row EXCEPT ![c] = "pending"] /\ UNCHANGED <<expired, tx, issued>>
    BY DEF StartRun, CreatePairing, sessVars, txVars
  <1>3. [d \in Codes |-> Status(d)]' = [[d \in Codes |-> Status(d)] EXCEPT ![c] = "pending"]
    BY <1>1, <1>2 DEF Status, IInv, TypeOK
  <1>4. Status(c) = "expired"
    BY <1>1 DEF Status
  <1>5. QED
    BY <1>1, <1>2, <1>3, <1>4 DEF Lifecycle!Create, Lifecycle!Moves

LEMMA ApproveSeen ==
    ASSUME IInv, NEW c \in Codes, NEW own, NEW over, NEW n, Approve(c, own, over, n)
    PROVE  Lifecycle!Approve(c)
  <1>1. row[c] \in {"pending", "approved"} /\ c \notin expired /\ tx[c] = "idle"
    BY DEF Approve, Approvable
  <1>2. row' = [row EXCEPT ![c] = "approved"] /\ UNCHANGED <<expired, tx, issued>>
    BY DEF Approve, sessVars, txVars
  <1>3. [d \in Codes |-> Status(d)]' = [[d \in Codes |-> Status(d)] EXCEPT ![c] = "approved"]
    BY <1>1, <1>2 DEF Status, IInv, TypeOK
  <1>4. Status(c) \in {"pending", "approved"}
    BY <1>1 DEF Status
  <1>5. QED
    BY <1>1, <1>2, <1>3, <1>4 DEF Lifecycle!Approve, Lifecycle!Moves

LEMMA ExpireSeen ==
    ASSUME IInv, NEW c \in Codes, Expire(c)
    PROVE  Lifecycle!Expire(c) \/ UNCHANGED Lifecycle!vars
  <1>1. /\ row[c] # "absent" /\ c \notin expired
        /\ expired' = expired \cup {c} /\ UNCHANGED <<row, tx, issued>>
    BY DEF Expire, sessVars, txVars
  <1>2. CASE row[c] = "consumed"
    BY <1>1, <1>2 DEF Lifecycle!vars, Status
  <1>3. CASE row[c] # "consumed"
    <2>1. Status(c) \in {"pending", "approved"}
      BY <1>1, <1>3 DEF Status, IInv, TypeOK
    <2>2. [d \in Codes |-> Status(d)]' = [[d \in Codes |-> Status(d)] EXCEPT ![c] = "expired"]
      BY <1>1, <1>3 DEF Status, IInv, TypeOK
    <2>3. QED
      BY <1>1, <2>1, <2>2 DEF Lifecycle!Expire, Lifecycle!Moves
  <1>4. QED
    BY <1>2, <1>3

LEMMA BeginSeen ==
    ASSUME IInv, NEW c \in Codes, NEW p, Begin(c, p)
    PROVE  Lifecycle!Redeem(c) \/ UNCHANGED Lifecycle!vars
  <1>1. UNCHANGED <<row, expired, issued>> /\ tx[c] = "idle"
    BY DEF Begin, pairVars, sessVars
  <1>2. CASE Redeemable(c)
    <2>1. tx' = [tx EXCEPT ![c] = "match"]
      BY <1>2 DEF Begin
    <2>2. { d \in Codes : tx[d] # "idle" }' = { d \in Codes : tx[d] # "idle" } \cup {c}
      BY <2>1 DEF IInv, TypeOK
    <2>3. Status(c) = "approved"
      BY <1>2 DEF Status, Redeemable
    <2>4. QED
      BY <1>1, <2>2, <2>3 DEF Lifecycle!Redeem, Status
  <1>3. CASE ~Redeemable(c)
    BY <1>1, <1>3, Unseen DEF Begin, txVars
  <1>4. QED
    BY <1>2, <1>3

LEMMA LifecycleStep == IInv /\ [Next]_vars => [Lifecycle!Next]_(Lifecycle!vars)
  <1> SUFFICES ASSUME IInv, [Next]_vars
               PROVE  Lifecycle!Next \/ UNCHANGED Lifecycle!vars
    OBVIOUS
  <1> USE DEF Lifecycle!Next
  <1>1. ASSUME NEW c \in Codes, RunNext(c) PROVE Lifecycle!Next \/ UNCHANGED Lifecycle!vars
    <2>1. ASSUME NEW k \in Clis, NEW f \in Facts, StartRun(c, k, f) PROVE Lifecycle!Create(c)
      BY <2>1, StartRunSeen
    <2>2. CASE Poll(c) \/ RunFails(c) \/ Answered(c)
      BY <2>2, Unseen DEF Poll, RunFails, Answered, pairVars, sessVars, txVars
    <2>3. ASSUME NEW f \in Facts, Heartbeat(c, f) PROVE UNCHANGED Lifecycle!vars
      BY <2>3, Unseen DEF Heartbeat, pairVars, sessVars, txVars
    <2>4. QED
      BY <1>1, <2>1, <2>2, <2>3 DEF RunNext
  <1>2. ASSUME NEW c \in Codes, CodeNext(c) PROVE Lifecycle!Next \/ UNCHANGED Lifecycle!vars
    <2>1. ASSUME NEW own, NEW over, NEW n, Approve(c, own, over, n) PROVE Lifecycle!Approve(c)
      BY <2>1, ApproveSeen
    <2>2. ASSUME NEW p, Begin(c, p) PROVE Lifecycle!Redeem(c) \/ UNCHANGED Lifecycle!vars
      BY <2>2, BeginSeen
    <2>3. CASE Statement(c)
      BY <2>3, StatementSeen
    <2>4. CASE Expire(c)
      BY <2>4, ExpireSeen
    <2>5. CASE Lapse(c)
      BY <2>5, Unseen DEF Lapse, pairVars, txVars
    <2>6. QED
      BY <1>2, <2>1, <2>2, <2>3, <2>4, <2>5 DEF CodeNext, Statement
  <1>3. CASE Crash
    <2>1. PICK c \in Codes : tx[c] # "idle"
      BY <1>3 DEF Crash
    <2>2. tx'[c] = "idle" /\ \A d \in Codes : tx'[d] # "idle" => tx[d] # "idle"
      BY <1>3 DEF Crash
    <2>3. QED
      BY <1>3, <2>1, <2>2, EndsSeen DEF Crash, pairVars, sessVars
  <1>4. CASE UNCHANGED vars
    BY <1>4, Unseen DEF vars
  <1>5. QED
    BY <1>1, <1>2, <1>3, <1>4 DEF Next

\* Whatever the statements of concurrent redemptions interleave with, what
\* polls see of a code is created, approved, redeemed once or expired.
THEOREM LifecycleImplemented == Spec => ImplementsLifecycle
  BY IInvAlways, LifecycleInit, LifecycleStep, PTL DEF Spec, ImplementsLifecycle, Lifecycle!Spec
=============================================================================
