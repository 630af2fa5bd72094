------------------------------ MODULE Pairing ------------------------------
(***************************************************************************)
(* The device flow that turns a code typed in a browser into a tunnel      *)
(* session: apps/backend/src/domains/tunnels/pairing/{create, approve,     *)
(* authenticate, status}.ts, domains/db-connections/upsert.ts,             *)
(* domains/tunnels/heartbeat.ts and the CLI's commands/connect.ts.         *)
(*                                                                         *)
(* `authenticatePairing' is one transaction at READ COMMITTED, so each of  *)
(* its lookups sees what others committed meanwhile: it is one action per  *)
(* statement.  It locks its own pairing row only.  `approvePairing' writes *)
(* nothing but its own row, so that reads it made a moment too early leave *)
(* the state an earlier approval would: it is one action.                  *)
(*                                                                         *)
(* A db_connection is unique per (team, fingerprint of the CLI), never     *)
(* changes either and is never deleted: that pair is its id here.          *)
(***************************************************************************)
EXTENDS Naturals, FiniteSets

CONSTANTS
    Codes,       \* pairing codes, and the runs of `sqlnest connect' they serve
    Clis,        \* CLI fingerprints: one per local DSN of an installation
    Installs,
    InstallOf,   \* InstallOf[k]: the installation, hence config file, of k
    Teams,
    Names,       \* names of db_connections
    Prints,      \* fingerprints of database instances
    Checksums,   \* checksums of database structures
    None

ASSUME PairingAssumption ==
    /\ InstallOf \in [Clis -> Installs]
    /\ None \notin Teams \cup Names \cup Prints \cup Checksums

Ids == Teams \X Clis

\* What a CLI knows of the database behind its DSN; None if unreachable.
Facts == [fp : Prints \cup {None}, cs : Checksums \cup {None}]
NoFacts == [fp |-> None, cs |-> None]

VARIABLES
    \* table tunnel_pairing
    row,        \* "absent", "pending", "approved" or "consumed"
    expired,    \* codes past expires_at
    cliOf,      \* cli_pubkey and cli_connection_name
    sent,       \* db_fingerprint and db_schema_checksum
    team,
    device,     \* device_name
    \* table db_connection
    conns,      \* ids
    nameOf,
    known,      \* db_fingerprint and db_schema_checksum
    \* table tunnel_session
    issued,     \* number of sessions inserted for a code
    bound,      \* connection of the session
    lapsed,     \* codes whose session is about to expire
    \* transactions of `authenticatePairing'
    tx,         \* next statement
    txFacts,    \* effectiveDbFingerprint and effectiveDbSchemaChecksum
    \* runs of `connect'
    run,        \* where the run of the code is
    replies,    \* answers to /authenticate on their way to the run
    loaded,     \* tunnels of the config the run started from
    disk        \* tunnels in the config file, named by their code

pairVars == <<row, expired, cliOf, sent, team, device>>
connVars == <<conns, nameOf, known>>
sessVars == <<issued, bound, lapsed>>
txVars == <<tx, txFacts>>
runVars == <<run, replies, loaded, disk>>
vars == <<row, expired, cliOf, sent, team, device, conns, nameOf, known,
          issued, bound, lapsed, tx, txFacts, run, replies, loaded, disk>>

TypeOK ==
    /\ row \in [Codes -> {"absent", "pending", "approved", "consumed"}]
    /\ expired \subseteq Codes
    /\ cliOf \in [Codes -> Clis \cup {None}]
    /\ sent \in [Codes -> Facts]
    /\ team \in [Codes -> Teams \cup {None}]
    /\ device \in [Codes -> Names \cup {None}]
    /\ conns \subseteq Ids
    /\ nameOf \in [Ids -> Names \cup {None}]
    /\ known \in [Ids -> Facts]
    /\ issued \in [Codes -> Nat]
    /\ bound \in [Codes -> Ids \cup {None}]
    /\ lapsed \subseteq Codes
    /\ tx \in [Codes -> {"idle", "match", "reuse", "name", "insert"}]
    /\ txFacts \in [Codes -> Facts]
    /\ run \in [Codes -> {"off", "polling", "authenticating", "done", "failed"}]
    /\ replies \in [Codes -> SUBSET {"token", "refused"}]
    /\ loaded \in [Codes -> SUBSET Codes]
    /\ disk \in [Installs -> SUBSET Codes]

Init ==
    /\ row = [c \in Codes |-> "absent"]
    /\ expired = {}
    /\ cliOf = [c \in Codes |-> None]
    /\ sent = [c \in Codes |-> NoFacts]
    /\ team = [c \in Codes |-> None]
    /\ device = [c \in Codes |-> None]
    /\ conns = {}
    /\ nameOf = [x \in Ids |-> None]
    /\ known = [x \in Ids |-> NoFacts]
    /\ issued = [c \in Codes |-> 0]
    /\ bound = [c \in Codes |-> None]
    /\ lapsed = {}
    /\ tx = [c \in Codes |-> "idle"]
    /\ txFacts = [c \in Codes |-> NoFacts]
    /\ run = [c \in Codes |-> "off"]
    /\ replies = [c \in Codes |-> {}]
    /\ loaded = [c \in Codes |-> {}]
    /\ disk = [i \in Installs |-> {}]

-----------------------------------------------------------------------------
(* Reading the tables. *)

\* `getPairingStatus': consumed, then expired, then approved, then pending.
Status(c) ==
    CASE row[c] = "absent" -> "expired"
      [] row[c] = "consumed" -> "consumed"
      [] OTHER -> IF c \in expired THEN "expired" ELSE row[c]

InTeam(t) == { x \in conns : x[1] = t }

SamePrint(t, f) == { x \in InTeam(t) : f.fp # None /\ known[x].fp = f.fp }

SameChecksum(t, f) == { x \in InTeam(t) : f.cs # None /\ known[x].cs = f.cs }

NameTaken(t, n) == \E x \in InTeam(t) : nameOf[x] = n

\* Rows a lookup with LIMIT 1 may return: the first strategy that finds any.
FirstOf(A, B) == IF A # {} THEN A ELSE B

\* Connections `approvePairing' may take the name from.
Known(t, c) ==
    FirstOf(SamePrint(t, sent[c]),
            FirstOf(SameChecksum(t, sent[c]), InTeam(t) \cap {<<t, cliOf[c]>>}))

-----------------------------------------------------------------------------
(* The run of `connect' up to the approval. *)

\* `findResumableTunnel' finds a token for k that is not about to expire.
Resumable(k) == \E d \in disk[InstallOf[k]] : cliOf[d] = k /\ d \notin lapsed

\* `createPairing' for the CLI k: a pending row that carries the facts f.
CreatePairing(c, k, f) ==
    /\ row' = [row EXCEPT ![c] = "pending"]
    /\ cliOf' = [cliOf EXCEPT ![c] = k]
    /\ sent' = [sent EXCEPT ![c] = f]

\* Nothing to resume in the config just loaded: POST /pairings.
StartRun(c, k, f) ==
    /\ run[c] = "off"
    /\ ~Resumable(k)
    /\ CreatePairing(c, k, f)
    /\ run' = [run EXCEPT ![c] = "polling"]
    /\ loaded' = [loaded EXCEPT ![c] = disk[InstallOf[k]]]
    /\ UNCHANGED <<expired, team, device, connVars, sessVars, txVars, replies, disk>>

\* Variant of Poll that takes an expired code for a pending one.
PollUntilDecided(c) ==
    /\ run[c] = "polling"
    /\ Status(c) \in {"approved", "consumed"}
    /\ run' = [run EXCEPT ![c] = IF Status(c) = "approved" THEN "authenticating" ELSE "failed"]
    /\ UNCHANGED <<pairVars, connVars, sessVars, txVars, replies, loaded, disk>>

\* A poll that ends the polling; a pending code is polled again.
Poll(c) ==
    /\ run[c] = "polling"
    /\ Status(c) # "pending"
    /\ run' = [run EXCEPT ![c] = IF Status(c) = "approved" THEN "authenticating" ELSE "failed"]
    /\ UNCHANGED <<pairVars, connVars, sessVars, txVars, replies, loaded, disk>>

\* Ctrl-C, a network error or a lost answer: nothing is retried.
RunFails(c) ==
    /\ run[c] \in {"polling", "authenticating"}
    /\ run' = [run EXCEPT ![c] = "failed"]
    /\ UNCHANGED <<pairVars, connVars, sessVars, txVars, replies, loaded, disk>>

\* Variant of Approvable that forgets that a code serves once.
ApprovableTwice(c) == row[c] # "absent" /\ c \notin expired

\* The guards of `approvePairing' on its row.
Approvable(c) == row[c] \in {"pending", "approved"} /\ c \notin expired

\* The team of the route, else of an earlier approval, else the personal one.
TeamFor(c, own, over) ==
    IF over # None THEN over ELSE IF team[c] # None THEN team[c] ELSE own

\* `approvePairing' by a user whose personal team is own, through the route
\* of team over (None: the legacy route).  The row lock excludes a running
\* authentication.  A code approved before may be approved again.
Approve(c, own, over, given) ==
    LET t == TeamFor(c, own, over) IN
    /\ Approvable(c)
    /\ tx[c] = "idle"
    /\ \E n \in IF Known(t, c) # {} THEN { nameOf[x] : x \in Known(t, c) } ELSE {given} :
          /\ n # None
          /\ Known(t, c) = {} => ~NameTaken(t, n)
          /\ device' = [device EXCEPT ![c] = n]
    /\ row' = [row EXCEPT ![c] = "approved"]
    /\ team' = [team EXCEPT ![c] = t]
    /\ UNCHANGED <<expired, cliOf, sent, connVars, sessVars, txVars, runVars>>

-----------------------------------------------------------------------------
(* `authenticatePairing', statement by statement. *)

Replies(c, answer) == replies' = [replies EXCEPT ![c] = @ \cup {answer}]

\* Variant of Redeemable without the test of the expiry.
RedeemableLate(c) == row[c] = "approved"

\* The guards on the locked row.
Redeemable(c) == row[c] = "approved" /\ c \notin expired

\* A request reaches the server.  Whoever holds the key may present the code
\* again, during the run or after it.  The fingerprint of the request stands
\* in for one the row lacks.
Begin(c, p) ==
    /\ run[c] \notin {"off", "polling"} /\ tx[c] = "idle"
    /\ IF Redeemable(c)
       THEN /\ tx' = [tx EXCEPT ![c] = "match"]
            /\ txFacts' = [txFacts EXCEPT ![c] =
                              [sent[c] EXCEPT !.fp = IF @ # None THEN @ ELSE p]]
            /\ UNCHANGED replies
       ELSE /\ Replies(c, "refused")
            /\ UNCHANGED txVars
    /\ UNCHANGED <<pairVars, connVars, sessVars, run, loaded, disk>>

\* `patch': facts that are given replace those of the connection.
Patched(old, f) ==
    [fp |-> IF f.fp # None THEN f.fp ELSE old.fp,
     cs |-> IF f.cs # None THEN f.cs ELSE old.cs]

\* Variant of Issue that leaves consumed_at alone.
IssueUnconsumed(c, x) ==
    /\ issued' = [issued EXCEPT ![c] = @ + 1]
    /\ bound' = [bound EXCEPT ![c] = x]
    /\ tx' = [tx EXCEPT ![c] = "idle"]
    /\ Replies(c, "token")
    /\ UNCHANGED <<row, expired, cliOf, sent, team, device, lapsed, txFacts, run, loaded, disk>>

\* The end of the transaction: session inserted, row consumed, commit.
Issue(c, x) ==
    /\ issued' = [issued EXCEPT ![c] = @ + 1]
    /\ bound' = [bound EXCEPT ![c] = x]
    /\ row' = [row EXCEPT ![c] = "consumed"]
    /\ tx' = [tx EXCEPT ![c] = "idle"]
    /\ Replies(c, "token")
    /\ UNCHANGED <<expired, cliOf, sent, team, device, lapsed, txFacts, run, loaded, disk>>

Reuses(c, x) ==
    /\ known' = [known EXCEPT ![x] = Patched(@, txFacts[c])]
    /\ UNCHANGED <<conns, nameOf>>
    /\ Issue(c, x)

Goes(c, next) ==
    /\ tx' = [tx EXCEPT ![c] = next]
    /\ UNCHANGED <<pairVars, connVars, sessVars, txFacts, runVars>>

\* A rollback: the client is refused, the code stays what it was.
Refuse(c) ==
    /\ tx' = [tx EXCEPT ![c] = "idle"]
    /\ Replies(c, "refused")
    /\ UNCHANGED <<pairVars, connVars, sessVars, txFacts, run, loaded, disk>>

Own(c) == <<team[c], cliOf[c]>>

\* 1. The connection of this CLI in this team.
Match(c) ==
    /\ tx[c] = "match"
    /\ IF Own(c) \in conns THEN Reuses(c, Own(c)) ELSE Goes(c, "reuse")

\* `findReuseCandidate': connections of other CLIs to the same database.
Candidates(t, k, f) ==
    FirstOf(SamePrint(t, f) \ {<<t, k>>}, SameChecksum(t, f) \ {<<t, k>>})

\* 2. Another CLI's connection to the same database.
Reuse(c) ==
    LET S == Candidates(team[c], cliOf[c], txFacts[c]) IN
    /\ tx[c] = "reuse"
    /\ \/ \E x \in S : Reuses(c, x)
       \/ S = {} /\ Goes(c, "name")

\* 3. The name is looked up before the insertion.
NameCheck(c) ==
    /\ tx[c] = "name"
    /\ IF NameTaken(team[c], device[c]) THEN Refuse(c) ELSE Goes(c, "insert")

\* Variant of Insertable that trusts the earlier lookups.
InsertableUnchecked(c) == Own(c) \notin conns

\* The unique indexes (team, cli_fingerprint) and (team, name).
Insertable(c) == Own(c) \notin conns /\ ~NameTaken(team[c], device[c])

\* 4. The insertion; a unique violation rolls everything back.
Insert(c) ==
    /\ tx[c] = "insert"
    /\ IF Insertable(c)
       THEN /\ conns' = conns \cup {Own(c)}
            /\ nameOf' = [nameOf EXCEPT ![Own(c)] = device[c]]
            /\ known' = [known EXCEPT ![Own(c)] = txFacts[c]]
            /\ Issue(c, Own(c))
       ELSE Refuse(c)

-----------------------------------------------------------------------------
(* The end of the run, the heartbeats, the clock and the crashes. *)

\* Variant of Saved that forgets the other entries.
SavedAlone(c) == {c}

\* `saveConfig': the config read at the start of the run, and the new entry.
Saved(c) == loaded[c] \cup {c}

\* The answer arrives; the entry is saved.
Answered(c) ==
    LET i == InstallOf[cliOf[c]] IN
    /\ run[c] = "authenticating"
    /\ \/ /\ "token" \in replies[c]
          /\ run' = [run EXCEPT ![c] = "done"]
          /\ disk' = [disk EXCEPT ![i] = Saved(c)]
       \/ /\ "refused" \in replies[c]
          /\ run' = [run EXCEPT ![c] = "failed"]
          /\ UNCHANGED disk
    /\ UNCHANGED <<pairVars, connVars, sessVars, txVars, replies, loaded>>

\* `heartbeatTunnel' with a token that is still good.
Heartbeat(c, f) ==
    /\ run[c] = "done" /\ c \notin lapsed
    /\ known' = [known EXCEPT ![bound[c]] = Patched(@, f)]
    /\ UNCHANGED <<pairVars, conns, nameOf, sessVars, txVars, runVars>>

\* Five minutes after its creation.
Expire(c) ==
    /\ row[c] # "absent" /\ c \notin expired
    /\ expired' = expired \cup {c}
    /\ UNCHANGED <<row, cliOf, sent, team, device, connVars, sessVars, txVars, runVars>>

\* A minute before the thirty days of the session are over.
Lapse(c) ==
    /\ issued[c] > 0 /\ c \notin lapsed
    /\ lapsed' = lapsed \cup {c}
    /\ UNCHANGED <<pairVars, connVars, issued, bound, txVars, runVars>>

\* The backend crashes: transactions roll back, requests get no answer.
Crash ==
    /\ \E c \in Codes : tx[c] # "idle"
    /\ tx' = [c \in Codes |-> "idle"]
    /\ run' = [c \in Codes |-> IF run[c] = "authenticating" THEN "failed" ELSE run[c]]
    /\ UNCHANGED <<pairVars, connVars, sessVars, txFacts, replies, loaded, disk>>

Statement(c) == Match(c) \/ Reuse(c) \/ NameCheck(c) \/ Insert(c)

RunNext(c) ==
    \/ \E k \in Clis, f \in Facts : StartRun(c, k, f)
    \/ Poll(c)
    \/ RunFails(c)
    \/ Answered(c)
    \/ \E f \in Facts : Heartbeat(c, f)

CodeNext(c) ==
    \/ \E own \in Teams, over \in Teams \cup {None}, n \in Names \cup {None} :
          Approve(c, own, over, n)
    \/ \E p \in Prints \cup {None} : Begin(c, p)
    \/ Match(c)
    \/ Reuse(c)
    \/ NameCheck(c)
    \/ Insert(c)
    \/ Expire(c)
    \/ Lapse(c)

Next ==
    \/ \E c \in Codes : RunNext(c) \/ CodeNext(c)
    \/ Crash

Spec == Init /\ [][Next]_vars

\* The clock runs, a run polls and reads the answer, the server serves the
\* request of a run that waits for it.  Nobody owes an approval.
Fairness ==
    \A c \in Codes :
        /\ WF_vars(Expire(c))
        /\ WF_vars(Poll(c))
        /\ WF_vars(Answered(c))
        /\ WF_vars(Statement(c))
        /\ WF_vars(run[c] = "authenticating" /\ replies[c] = {} /\ Begin(c, None))

FairSpec == Spec /\ Fairness

-----------------------------------------------------------------------------
(* Properties. *)

\* A code yields one session at most, exactly when it is consumed, however
\* often it is presented, and a run that succeeded holds it.
OneSessionPerCode ==
    \A c \in Codes :
        /\ issued[c] = (IF row[c] = "consumed" THEN 1 ELSE 0)
        /\ run[c] = "done" => issued[c] = 1

\* Two connections of a team never carry the same name, although the lookup
\* of the name and the insertion are two statements.
NamesUnique ==
    \A x, y \in conns : x[1] = y[1] /\ nameOf[x] = nameOf[y] => x = y

\* Once a code is consumed no approval and no second redemption changes what
\* was approved, nor the connection the session is bound to, which is one of
\* the team that was approved.
ConsumedForGood ==
    [][\A c \in Codes : row[c] = "consumed" =>
          /\ row'[c] = "consumed"
          /\ team'[c] = team[c] /\ device'[c] = device[c]
          /\ bound'[c] = bound[c] /\ bound[c][1] = team[c]]_vars

\* Neither run of one installation was over when the other one started.
Overlapped(c, d) ==
    /\ InstallOf[cliOf[c]] = InstallOf[cliOf[d]]
    /\ c \notin loaded[d] /\ d \notin loaded[c]

\* A database is paired once: while its token is good `connect' resumes it,
\* unless a run that was under way at the same time ended later and wrote back
\* the configuration it had read (connect.ts, `saveConfig').
PairedOnceUnlessOverlapped ==
    \A c \in Codes : run[c] = "done" /\ c \notin lapsed =>
        \/ Resumable(cliOf[c])
        \/ \E d \in Codes \ {c} : run[d] = "done" /\ Overlapped(c, d)

\* A run of `connect' ends: with a token, a refusal or the code's expiry.
EveryRunEnds ==
    \A c \in Codes : run[c] = "polling" ~> run[c] \in {"done", "failed"}

\* What polls see of the codes is the life cycle the device flow promises.
Lifecycle == INSTANCE PairingLifecycle WITH
    status <- [c \in Codes |-> Status(c)],
    redeeming <- { c \in Codes : tx[c] # "idle" },
    tokens <- { c \in Codes : issued[c] > 0 }

ImplementsLifecycle == Lifecycle!Spec

\* connect.ts says the user never visits /pair again after the first
\* pairing: a DSN whose run succeeded and whose token is good is resumable.
PairsOnce ==
    \A c \in Codes : run[c] = "done" /\ c \notin lapsed => Resumable(cliOf[c])
=============================================================================
