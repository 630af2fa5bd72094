--------------------------- MODULE TunnelSession ---------------------------
(***************************************************************************)
(* One tunnel session end to end: the backend proxy that sends `req'       *)
(* frames (apps/backend/src/domains/tunnels/backend-proxy.ts), the slot of *)
(* the registry, the sockets between the two machines, and the CLI         *)
(* processes that serve the session (packages/cli/src/ws-client.ts and     *)
(* commands/serve.ts).  Several CLI processes may resume the same session: *)
(* `findResumableTunnel' gives the token on disk to whoever starts.        *)
(*                                                                         *)
(* A socket has two ends that learn of its death separately, and a FIFO of *)
(* frames each way.  Signatures, nonces and timestamps are left out: no    *)
(* key changes and no clock drifts here, so they never reject a frame.     *)
(***************************************************************************)
EXTENDS Integers, Sequences

CONSTANTS
    Tunnel,         \* the session
    Clis,           \* CLI processes that may serve it
    Sockets,
    Requests,       \* correlation ids of the proxy
    Handshake,      \* correlation id of the handshake frames
    NoSocket,
    MaxFailures,    \* bound: broken connections, failed dials and restarts
    BackoffCap      \* bound: doublings of the backoff before its cap

ASSUME SessionAssumption ==
    /\ Clis # {}
    /\ NoSocket \notin Sockets
    /\ Handshake \notin Requests
    /\ MaxFailures \in Nat
    /\ BackoffCap \in Nat

VARIABLES
    \* the CLI processes
    phase,      \* where `loop' is: "off", "wait" on a socket, "nap", "done"
    stopped,    \* `stopped'
    cur,        \* `currentSocket'
    waiting,    \* socket whose promise `loop' awaits
    backoff,    \* number of doublings of `backoff'
    known,      \* `peers' has an entry for the backend
    lastCtr,    \* its counter.lastCtr
    ops,        \* calls of `runOp' not yet answered
    \* the sockets
    owner,      \* CLI process that opened the socket
    cend,       \* state of the CLI's end
    conn,       \* state of the server's end
    stage,      \* how far the route handler went
    toCli,      \* frames in flight to the CLI
    toServer,   \* frames in flight to the server
    \* the backend
    valid,      \* the session is neither expired nor revoked
    slotCli,    \* slot.cli of the session
    proxy,      \* TunnelState: cliSocketId, handshakeSent, emitter.next
    outcome,    \* what became of each sendReq
    \* observation and bounds
    runs,       \* how often `runOp' was called for a request
    failures

cliVars == <<phase, stopped, cur, waiting, backoff, known, lastCtr, ops>>
wireVars == <<owner, cend, toCli, toServer>>
slotVars == <<conn, stage, slotCli>>
proxyVars == <<proxy, outcome>>
vars == <<phase, stopped, cur, waiting, backoff, known, lastCtr, ops,
          owner, cend, conn, stage, toCli, toServer,
          valid, slotCli, proxy, outcome, runs, failures>>

Ids == Requests \cup {Handshake}

\* A frame for the CLI carries a counter; the proxy ignores that of an answer.
ReqFrame == [id : Ids, ctr : Nat]
AnswerFrame == [id : Ids, ran : BOOLEAN]

Final == {"noTunnel", "answered", "limited", "timeout", "disposed"}

TypeOK ==
    /\ phase \in [Clis -> {"off", "wait", "nap", "done"}]
    /\ stopped \in [Clis -> BOOLEAN]
    /\ cur \in [Clis -> Sockets \cup {NoSocket}]
    /\ waiting \in [Clis -> Sockets \cup {NoSocket}]
    /\ backoff \in [Clis -> 0..BackoffCap]
    /\ known \in [Clis -> BOOLEAN]
    /\ lastCtr \in [Clis -> Nat \cup {-1}]
    /\ ops \subseteq [sock : Sockets, id : Requests]
    /\ owner \in [Sockets -> Clis]
    /\ cend \in [Sockets -> {"open", "closing", "errored", "closed"}]
    /\ conn \in [Sockets -> {"open", "closing", "closed"}]
    /\ stage \in [Sockets -> {"none", "authenticating", "attached", "refused"}]
    /\ toCli \in [Sockets -> Seq(ReqFrame)]
    /\ toServer \in [Sockets -> Seq(AnswerFrame)]
    /\ valid \in BOOLEAN
    /\ slotCli \in Sockets \cup {NoSocket}
    /\ proxy \in [sock : Sockets \cup {NoSocket}, handshakeSent : BOOLEAN, next : Nat]
    /\ outcome \in [Requests -> {"idle", "pending"} \cup Final]
    /\ runs \in [Requests -> Nat]
    /\ failures \in 0..MaxFailures

\* Owner of a socket never opened yet.
AnyCli == CHOOSE p \in Clis : TRUE

NoState == [sock |-> NoSocket, handshakeSent |-> FALSE, next |-> 0]

Init ==
    /\ phase = [p \in Clis |-> "off"]
    /\ stopped = [p \in Clis |-> FALSE]
    /\ cur = [p \in Clis |-> NoSocket]
    /\ waiting = [p \in Clis |-> NoSocket]
    /\ backoff = [p \in Clis |-> 0]
    /\ known = [p \in Clis |-> FALSE]
    /\ lastCtr = [p \in Clis |-> -1]
    /\ ops = {}
    /\ owner = [s \in Sockets |-> AnyCli]
    /\ cend = [s \in Sockets |-> "closed"]
    /\ conn = [s \in Sockets |-> "closed"]
    /\ stage = [s \in Sockets |-> "none"]
    /\ toCli = [s \in Sockets |-> <<>>]
    /\ toServer = [s \in Sockets |-> <<>>]
    /\ valid = TRUE
    /\ slotCli = NoSocket
    /\ proxy = NoState
    /\ outcome = [r \in Requests |-> "idle"]
    /\ runs = [r \in Requests |-> 0]
    /\ failures = 0

-----------------------------------------------------------------------------
(* The loop of a CLI process: ws-client.ts, `loop' and `connectOnce'.      *)

\* Variant of Doubled without `Math.min'.
DoubledForever(n) == n + 1

\* `Math.min(backoff * 2, MAX)', counted in doublings.
Doubled(n) == IF n < BackoffCap THEN n + 1 ELSE BackoffCap

\* The end of a `sleep' doubles the backoff; the first dial has not slept.
BackoffAfterNap(p) == IF phase[p] = "nap" THEN Doubled(backoff[p]) ELSE backoff[p]

\* What `connectOnce' resets before it opens a socket.
ForgetPeers(p) ==
    /\ known' = [known EXCEPT ![p] = FALSE]
    /\ lastCtr' = [lastCtr EXCEPT ![p] = -1]

\* A socket that is over, reused for a new connection (ids are UUIDs).
Fresh(s) ==
    /\ conn[s] = "closed" /\ cend[s] = "closed"
    /\ stage[s] # "authenticating"
    /\ slotCli # s

\* What still refers to the connection that is over has no effect any more:
\* answers to it are dropped, and the proxy will not meet its id again.
ForgetSocket(s) ==
    /\ ops' = { o \in ops : o.sock # s }
    /\ proxy' = IF proxy.sock = s THEN NoState ELSE proxy

MayDial(p) == phase[p] \in {"off", "nap"} /\ ~stopped[p]

\* Variant of Greeting: the CLI introduces itself as soon as the socket opens.
GreetingHandshake == << [id |-> Handshake, ran |-> FALSE] >>

\* What the CLI sends on `open': nothing, it waits for a peer's handshake.
Greeting == <<>>

\* The dial succeeds; on the server the handler starts its database lookup.
Connect(p, s) ==
    /\ MayDial(p)
    /\ Fresh(s)
    /\ ForgetPeers(p)
    /\ ForgetSocket(s)
    /\ phase' = [phase EXCEPT ![p] = "wait"]
    /\ cur' = [cur EXCEPT ![p] = s]
    /\ waiting' = [waiting EXCEPT ![p] = s]
    /\ backoff' = [backoff EXCEPT ![p] = BackoffAfterNap(p)]
    /\ owner' = [owner EXCEPT ![s] = p]
    /\ cend' = [cend EXCEPT ![s] = "open"]
    /\ conn' = [conn EXCEPT ![s] = "open"]
    /\ stage' = [stage EXCEPT ![s] = "authenticating"]
    /\ toCli' = [toCli EXCEPT ![s] = <<>>]
    /\ toServer' = [toServer EXCEPT ![s] = Greeting]
    /\ UNCHANGED <<stopped, valid, slotCli, outcome, runs, failures>>

\* The dial fails: `error' rejects, then `close'.  The backoff is kept.
ConnectFails(p) ==
    /\ MayDial(p)
    /\ failures < MaxFailures
    /\ failures' = failures + 1
    /\ ForgetPeers(p)
    /\ phase' = [phase EXCEPT ![p] = "nap"]
    /\ cur' = [cur EXCEPT ![p] = NoSocket]
    /\ backoff' = [backoff EXCEPT ![p] = BackoffAfterNap(p)]
    /\ UNCHANGED <<stopped, waiting, ops, wireVars, slotVars, valid, proxyVars, runs>>

\* Variant of LeaveWait that gives up once a connection has failed.
LeaveWaitForGood(p) == [phase EXCEPT ![p] = "done"]

\* `connectOnce' settled: sleep, unless `stop' was called meanwhile.
LeaveWait(p) == [phase EXCEPT ![p] = IF stopped[p] THEN "done" ELSE "nap"]

\* The `close' event on the CLI's end: `currentSocket' is dropped whichever
\* socket it is; the promise, if still pending, resolves and so resets the
\* backoff.
CliEndCloses(s) ==
    LET p == owner[s] IN
    /\ cend' = [cend EXCEPT ![s] = "closed"]
    /\ toCli' = [toCli EXCEPT ![s] = <<>>]
    /\ cur' = [cur EXCEPT ![p] = NoSocket]
    /\ IF waiting[p] = s
       THEN /\ phase' = LeaveWait(p)
            /\ waiting' = [waiting EXCEPT ![p] = NoSocket]
            /\ backoff' = [backoff EXCEPT ![p] = 0]
       ELSE UNCHANGED <<phase, waiting, backoff>>
    /\ UNCHANGED <<stopped, known, lastCtr, ops, owner, toServer, slotVars,
                   valid, proxyVars, runs>>

\* The CLI learns that the server closed, or its own close completes.
CliSeesClose(s) ==
    /\ cend[s] # "closed"
    /\ cend[s] = "open" => conn[s] # "open"
    /\ CliEndCloses(s)
    /\ UNCHANGED failures

\* The connection breaks and the CLI is the first to know.
CliLosesSocket(s) ==
    /\ cend[s] = "open" /\ conn[s] = "open"
    /\ failures < MaxFailures
    /\ failures' = failures + 1
    /\ CliEndCloses(s)

\* An `error' event (a malformed frame): the promise rejects and the backoff
\* is kept; the `close' event follows when the closing handshake is over.
CliSocketErrs(s) ==
    LET p == owner[s] IN
    /\ cend[s] = "open"
    /\ failures < MaxFailures
    /\ failures' = failures + 1
    /\ cend' = [cend EXCEPT ![s] = "errored"]
    /\ toCli' = [toCli EXCEPT ![s] = <<>>]
    /\ phase' = LeaveWait(p)
    /\ waiting' = [waiting EXCEPT ![p] = NoSocket]
    /\ UNCHANGED <<stopped, cur, backoff, known, lastCtr, ops, owner, toServer,
                   slotVars, valid, proxyVars, runs>>

\* `stop': no dial any more; the current socket starts to close.
Stop(p) ==
    /\ phase[p] \in {"wait", "nap"} /\ ~stopped[p]
    /\ stopped' = [stopped EXCEPT ![p] = TRUE]
    /\ phase' = [phase EXCEPT ![p] = IF @ = "wait" THEN @ ELSE "done"]
    /\ cend' = [s \in Sockets |->
                   IF s = cur[p] /\ cend[s] = "open" THEN "closing" ELSE cend[s]]
    /\ UNCHANGED <<cur, waiting, backoff, known, lastCtr, ops, owner, toCli, toServer,
                   slotVars, valid, proxyVars, runs, failures>>

\* The process ends, 100 ms after `stop' or killed: running ops are lost.
Exit(p) ==
    LET mine == { s \in Sockets : owner[s] = p } IN
    /\ phase[p] # "off" /\ (phase[p] # "done" \/ \E s \in mine : cend[s] # "closed"
                                              \/ \E o \in ops : o.sock \in mine)
    /\ phase' = [phase EXCEPT ![p] = "done"]
    /\ stopped' = [stopped EXCEPT ![p] = TRUE]
    /\ cur' = [cur EXCEPT ![p] = NoSocket]
    /\ waiting' = [waiting EXCEPT ![p] = NoSocket]
    /\ ops' = { o \in ops : o.sock \notin mine }
    /\ cend' = [s \in Sockets |-> IF s \in mine THEN "closed" ELSE cend[s]]
    /\ toCli' = [s \in Sockets |-> IF s \in mine THEN <<>> ELSE toCli[s]]
    /\ UNCHANGED <<backoff, known, lastCtr, owner, toServer, slotVars, valid,
                   proxyVars, runs, failures>>

-----------------------------------------------------------------------------
(* Frames at the CLI: `handleIncoming' and `handleReq'.                    *)

\* `emitFrame' of the CLI: a send on a socket that is not open is dropped.
Sent(s, frame) ==
    [toServer EXCEPT ![s] = IF cend[s] = "open" /\ conn[s] # "closed"
                            THEN Append(@, frame) ELSE @]

Incoming(s) ==
    /\ cend[s] \in {"open", "closing"}
    /\ toCli[s] # <<>>
    /\ toCli' = [toCli EXCEPT ![s] = Tail(@)]
    /\ UNCHANGED <<phase, stopped, cur, waiting, backoff, owner, cend, slotVars,
                   valid, proxyVars, failures>>

\* A handshake (re)creates the peer and is answered at once.
OnHandshake(s) ==
    /\ Incoming(s)
    /\ Head(toCli[s]).id = Handshake
    /\ known' = [known EXCEPT ![owner[s]] = TRUE]
    /\ lastCtr' = [lastCtr EXCEPT ![owner[s]] = -1]
    /\ toServer' = Sent(s, [id |-> Handshake, ran |-> FALSE])
    /\ UNCHANGED <<ops, runs>>

\* The peer has handshaked and the counter is strictly above the last one.
Acceptable(s, f) == known[owner[s]] /\ f.ctr > lastCtr[owner[s]]

\* Variant of Handle that answers an error and runs the request anyway.
HandleBoth(s, r) ==
    /\ ops' = ops \cup {[sock |-> s, id |-> r]}
    /\ runs' = [runs EXCEPT ![r] = @ + 1]
    /\ \/ UNCHANGED toServer
       \/ toServer' = Sent(s, [id |-> r, ran |-> FALSE])

\* `handleReq': run the request, or refuse it when the bucket is empty.
Handle(s, r) ==
    \/ /\ ops' = ops \cup {[sock |-> s, id |-> r]}
       /\ runs' = [runs EXCEPT ![r] = @ + 1]
       /\ UNCHANGED toServer
    \/ /\ toServer' = Sent(s, [id |-> r, ran |-> FALSE])
       /\ UNCHANGED <<ops, runs>>

\* A `req': handled if acceptable, else reported and dropped.
OnReq(s) ==
    LET f == Head(toCli[s]) IN
    /\ Incoming(s)
    /\ f.id # Handshake
    /\ IF Acceptable(s, f)
       THEN lastCtr' = [lastCtr EXCEPT ![owner[s]] = f.ctr] /\ Handle(s, f.id)
       ELSE UNCHANGED <<lastCtr, ops, runs, toServer>>
    /\ UNCHANGED known

\* `runOp' ends: the answer goes to the socket the request came on.
OpDone(o) ==
    /\ o \in ops
    /\ ops' = ops \ {o}
    /\ toServer' = Sent(o.sock, [id |-> o.id, ran |-> TRUE])
    /\ UNCHANGED <<phase, stopped, cur, waiting, backoff, known, lastCtr, owner, cend,
                   toCli, slotVars, valid, proxyVars, runs, failures>>

-----------------------------------------------------------------------------
(* The server's end of the sockets: ws.ts and registry.ts.                 *)

\* The lookup succeeds: attach, and close the socket that is replaced.
Authenticated(s) ==
    /\ stage[s] = "authenticating" /\ valid
    /\ stage' = [stage EXCEPT ![s] = "attached"]
    /\ conn' = [x \in Sockets |->
                   IF x = slotCli /\ conn[x] = "open" THEN "closing" ELSE conn[x]]
    /\ slotCli' = s
    /\ UNCHANGED <<cliVars, wireVars, valid, proxyVars, runs, failures>>

\* The lookup fails: close with 4003.
Refused(s) ==
    /\ stage[s] = "authenticating" /\ ~valid
    /\ stage' = [stage EXCEPT ![s] = "refused"]
    /\ conn' = [conn EXCEPT ![s] = IF @ = "open" THEN "closing" ELSE @]
    /\ UNCHANGED <<cliVars, wireVars, valid, slotCli, proxyVars, runs, failures>>

\* Variant of SlotAfterClose without the comparison of socket ids.
SlotAfterAnyClose(s) == IF stage[s] = "attached" THEN NoSocket ELSE slotCli

\* `detachCli': only the socket of the slot empties it.
SlotAfterClose(s) == IF stage[s] = "attached" /\ slotCli = s THEN NoSocket ELSE slotCli

\* The `close' event on the server's end: nobody listens before the attach.
ServerEndCloses(s) ==
    /\ conn' = [conn EXCEPT ![s] = "closed"]
    /\ stage' = [stage EXCEPT ![s] = IF @ = "authenticating" THEN @ ELSE "none"]
    /\ slotCli' = SlotAfterClose(s)
    /\ toServer' = [toServer EXCEPT ![s] = <<>>]
    /\ UNCHANGED <<cliVars, owner, cend, toCli, valid, proxyVars, runs>>

ServerSeesClose(s) ==
    /\ conn[s] = "closing" \/ (conn[s] = "open" /\ cend[s] # "open")
    /\ ServerEndCloses(s)
    /\ UNCHANGED failures

ServerLosesSocket(s) ==
    /\ conn[s] = "open" /\ cend[s] = "open"
    /\ failures < MaxFailures
    /\ failures' = failures + 1
    /\ ServerEndCloses(s)

\* `expires_at' passes.
SessionExpires ==
    /\ valid
    /\ valid' = FALSE
    /\ UNCHANGED <<cliVars, wireVars, slotVars, proxyVars, runs, failures>>

-----------------------------------------------------------------------------
(* The proxy: backend-proxy.ts.                                            *)

Pending == { r \in Requests : outcome[r] = "pending" }

\* `ws.send' towards the CLI: dropped unless both ends are alive.
Carries(s) == conn[s] = "open" /\ cend[s] \in {"open", "closing"}

\* Variant of StateFor that keeps the handshake flag across sockets.
StateForStale(s) ==
    IF proxy.sock = s THEN proxy
    ELSE [sock |-> s, handshakeSent |-> proxy.handshakeSent, next |-> 0]

\* The state `sendReq' works on: reset when the CLI socket is another one.
StateFor(s) ==
    IF proxy.sock = s THEN proxy
    ELSE [sock |-> s, handshakeSent |-> FALSE, next |-> 0]

\* The frames `sendReq' emits: a handshake first, unless already sent.
FramesFor(st, r) ==
    IF st.handshakeSent THEN << [id |-> r, ctr |-> st.next] >>
    ELSE << [id |-> Handshake, ctr |-> st.next], [id |-> r, ctr |-> st.next + 1] >>

\* `sendReq' with a CLI in the slot.
SendReq(r) ==
    LET st == StateFor(slotCli)
        frames == FramesFor(st, r)
    IN
    /\ outcome[r] = "idle"
    /\ slotCli # NoSocket
    /\ toCli' = [toCli EXCEPT ![slotCli] = IF Carries(slotCli) THEN @ \o frames ELSE @]
    /\ proxy' = [sock |-> slotCli, handshakeSent |-> TRUE, next |-> st.next + Len(frames)]
    /\ outcome' = [outcome EXCEPT ![r] = "pending"]
    /\ UNCHANGED <<cliVars, owner, cend, toServer, slotVars, valid, runs, failures>>

\* `sendReq' without: NoTunnelError.
SendReqFails(r) ==
    /\ outcome[r] = "idle"
    /\ slotCli = NoSocket
    /\ outcome' = [outcome EXCEPT ![r] = "noTunnel"]
    /\ UNCHANGED <<cliVars, wireVars, slotVars, valid, proxy, runs, failures>>

\* Variant of Settle that does not look into `pending'.
SettleAny(f) ==
    IF f.id = Handshake THEN outcome
    ELSE [outcome EXCEPT ![f.id] = IF f.ran THEN "answered" ELSE "limited"]

\* `handleCliFrame': an answer settles the request that is still pending.
Settle(f) ==
    IF f.id \notin Pending THEN outcome
    ELSE [outcome EXCEPT ![f.id] = IF f.ran THEN "answered" ELSE "limited"]

\* A frame of the CLI: lost without a listener, else handed to the proxy.
\* A socket the server is closing still delivers.
ServerReceives(s) ==
    /\ conn[s] # "closed"
    /\ toServer[s] # <<>>
    /\ toServer' = [toServer EXCEPT ![s] = Tail(@)]
    /\ outcome' = IF stage[s] = "attached" THEN Settle(Head(toServer[s])) ELSE outcome
    /\ UNCHANGED <<cliVars, owner, cend, toCli, slotVars, valid, proxy, runs, failures>>

\* Variant of Timeout: timers forgotten while no CLI is connected.
TimeoutIfConnected(r) ==
    /\ outcome[r] = "pending"
    /\ slotCli # NoSocket
    /\ outcome' = [outcome EXCEPT ![r] = "timeout"]
    /\ UNCHANGED <<cliVars, wireVars, slotVars, valid, proxy, runs, failures>>

\* The timer of a request fires.
Timeout(r) ==
    /\ outcome[r] = "pending"
    /\ outcome' = [outcome EXCEPT ![r] = "timeout"]
    /\ UNCHANGED <<cliVars, wireVars, slotVars, valid, proxy, runs, failures>>

\* The backend restarts: `dispose' rejects what is pending, the registry and
\* the proxy start empty, every connection is cut.
Restart ==
    /\ failures < MaxFailures
    /\ failures' = failures + 1
    /\ outcome' = [r \in Requests |-> IF r \in Pending THEN "disposed" ELSE outcome[r]]
    /\ proxy' = NoState
    /\ slotCli' = NoSocket
    /\ conn' = [s \in Sockets |-> "closed"]
    /\ stage' = [s \in Sockets |-> "none"]
    /\ toServer' = [s \in Sockets |-> <<>>]
    /\ UNCHANGED <<cliVars, owner, cend, toCli, valid, runs>>

-----------------------------------------------------------------------------
CliNext(p) ==
    \/ \E s \in Sockets : Connect(p, s)
    \/ ConnectFails(p)
    \/ Stop(p)
    \/ Exit(p)

SocketNext(s) ==
    \/ CliSeesClose(s)
    \/ CliLosesSocket(s)
    \/ CliSocketErrs(s)
    \/ OnHandshake(s)
    \/ OnReq(s)
    \/ Authenticated(s)
    \/ Refused(s)
    \/ ServerSeesClose(s)
    \/ ServerLosesSocket(s)
    \/ ServerReceives(s)

RequestNext(r) == SendReq(r) \/ SendReqFails(r) \/ Timeout(r)

Next ==
    \/ \E p \in Clis : CliNext(p)
    \/ \E s \in Sockets : SocketNext(s)
    \/ \E r \in Requests : RequestNext(r)
    \/ \E o \in [sock : Sockets, id : Requests] : OpDone(o)
    \/ SessionExpires
    \/ Restart

Spec == Init /\ [][Next]_vars

\* The event loops run their timers and callbacks, `sleep' ends, a database
\* lookup answers, and the death of one end is reported to the other one.
\* Nobody owes us a request, a failure, a stop or the end of a query.
Fairness ==
    /\ \A p \in Clis : WF_vars(\E s \in Sockets : phase[p] = "nap" /\ Connect(p, s))
    /\ \A s \in Sockets :
          /\ WF_vars(CliSeesClose(s))
          /\ WF_vars(ServerSeesClose(s))
          /\ WF_vars(Authenticated(s) \/ Refused(s))
    /\ \A r \in Requests : WF_vars(Timeout(r))

FairSpec == Spec /\ Fairness

-----------------------------------------------------------------------------
(* Properties. *)

\* No frame of the proxy is ever lost to the CLI's checks: the next frame of
\* a socket is a handshake, or the peer is known and its counter advances,
\* across reconnections, replacements and restarts of either side.
FramesAccepted ==
    \A s \in Sockets :
        cend[s] \in {"open", "closing"} /\ toCli[s] # <<>> =>
            Head(toCli[s]).id = Handshake \/ Acceptable(s, Head(toCli[s]))

\* A request runs at most once, one reported as answered ran, and one
\* reported as refused, whether for lack of a tunnel or of rate, did not.
OutcomeTellsWhatRan ==
    \A r \in Requests :
        /\ runs[r] <= 1
        /\ outcome[r] = "answered" => runs[r] = 1
        /\ outcome[r] \in {"limited", "noTunnel"} => runs[r] = 0

\* The CLI is silent until the server listens to its socket, so that the
\* window between the upgrade and the listeners loses no frame.
SilentUntilHeard ==
    \A s \in Sockets : stage[s] \in {"authenticating", "refused"} => toServer[s] = <<>>

\* The promise of a request is settled once: an answer that comes after the
\* timeout or the disposal, on whatever socket, changes nothing.
SettledForGood ==
    [][\A r \in Requests : outcome[r] \in Final => outcome'[r] = outcome[r]]_vars

\* Every request that was sent is eventually answered, refused or timed out.
EveryRequestSettles ==
    \A r \in Requests : outcome[r] = "pending" ~> outcome[r] \in Final

\* The CLI process p serves the slot through a socket alive at both ends.
Serves(p) ==
    /\ slotCli # NoSocket
    /\ owner[slotCli] = p /\ waiting[p] = slotCli
    /\ conn[slotCli] = "open" /\ cend[slotCli] = "open"

Alive(p) == phase[p] # "off" /\ ~stopped[p]

\* "The tunnel stays alive as long as the CLI runs": once the failures are
\* over, a CLI process that keeps running ends up serving the slot for ever.
TunnelStaysAlive ==
    \A p \in Clis : []valid /\ <>[]Alive(p) => <>[]Serves(p)

\* serve.ts says a clean stop makes the backend purge the slot: when every
\* CLI process has ended, the slot is eventually left without a CLI.
StoppedCliLeavesRegistry ==
    (\A p \in Clis : phase[p] = "done") ~> slotCli = NoSocket

\* The slot, the sockets and the handlers of one session are those of the
\* registry: every step here is a step of TunnelRegistry or leaves it alone.
Registry == INSTANCE TunnelRegistry WITH
    Tunnels <- {Tunnel},
    Users <- {"owner"},
    Connections <- {"connection"},
    Owner <- [t \in {Tunnel} |-> "owner"],
    ConnectionOf <- [t \in {Tunnel} |-> "connection"],
    CliSockets <- Sockets,
    BrowserSockets <- {},
    path <- [s \in Sockets |-> Tunnel],
    token <- [s \in Sockets |-> Tunnel],
    asked <- [b \in {} |-> <<"owner", "connection">>],
    valid <- IF valid THEN {Tunnel} ELSE {},
    slots <- IF slotCli = NoSocket THEN {} ELSE {Tunnel},
    older <- {},
    cli <- [t \in {Tunnel} |-> slotCli],
    browsers <- [t \in {Tunnel} |-> {}],
    heard <- [s \in Sockets |-> {}]

ImplementsRegistry == Registry!Spec
=============================================================================
