-------------------------- MODULE TunnelSessionProofs --------------------------
(***************************************************************************)
(* Proofs about TunnelSession, for any CLI processes, sockets, requests    *)
(* and number of failures.                                                 *)
(*                                                                         *)
(* The counter and the peers belong to a CLI process and the frames to a   *)
(* socket: the first part of the invariant ties a process to one live      *)
(* socket, and the frames of that socket to what the proxy will send next. *)
(* The second part follows a request: asked in one frame, then run, then   *)
(* answered, or lost between two of these.                                 *)
(***************************************************************************)
EXTENDS TunnelSession, SequenceTheorems, TLAPS

Live(s) == cend[s] \in {"open", "closing"}

\* A live socket is the one that its CLI process waits for.
OneLive == \A s \in Sockets :
    Live(s) => phase[owner[s]] = "wait" /\ waiting[owner[s]] = s

\* The slot holds a socket that was attached; what is being looked up is silent.
SlotAttached == slotCli # NoSocket => stage[slotCli] = "attached"

Silent(s) == toCli[s] = <<>> /\ toServer[s] = <<>> /\ \A o \in ops : o.sock # s

SilentBefore == \A s \in Sockets :
    stage[s] \in {"authenticating", "refused"} => Silent(s)

\* The proxy sent nothing on a socket it does not know, and knows no other
\* socket that still carries than the one of the slot.
ProxyFollows ==
    /\ proxy.sock # NoSocket => proxy.handshakeSent
    /\ \A s \in Sockets : Carries(s) =>
          /\ proxy.sock = s => slotCli = s
          /\ proxy.sock # s => toCli[s] = <<>>

\* The frames of a socket: a handshake comes first only, and counters grow.
InOrder(q) ==
    /\ \A i, j \in 1..Len(q) : i < j => q[i].ctr < q[j].ctr
    /\ \A i \in 1..Len(q) : q[i].id = Handshake => i = 1

\* The first of them is accepted whatever came before.
FramesAt(s) ==
    /\ InOrder(toCli[s])
    /\ toCli[s] # <<>> => toCli[s][1].id = Handshake \/ Acceptable(s, toCli[s][1])

FramesInOrder == \A s \in Sockets : Live(s) => FramesAt(s)

\* The next frame is above the last one on its way, or the last one accepted.
Ahead(s) ==
    /\ \A i \in 1..Len(toCli[s]) : toCli[s][i].ctr < proxy.next
    /\ toCli[s] = <<>> => known[owner[s]] /\ lastCtr[owner[s]] < proxy.next

ProxyAhead == \A s \in Sockets : Carries(s) /\ proxy.sock = s => Ahead(s)

FrameInv ==
    OneLive /\ SlotAttached /\ SilentBefore /\ ProxyFollows /\ FramesInOrder /\ ProxyAhead

-----------------------------------------------------------------------------

\* Where a request is, if anywhere.
AskedAt(s, i, r) == i \in 1..Len(toCli[s]) /\ toCli[s][i].id = r
AnsweredAt(s, i, r) == i \in 1..Len(toServer[s]) /\ toServer[s][i].id = r

Unanswered(r) == \A s \in Sockets, i \in Nat : ~AnsweredAt(s, i, r)

Open(r) == outcome[r] \in {"pending", "timeout", "disposed"}

AskedOnce(r) == \A s, x \in Sockets : \A i, j \in Nat :
    AskedAt(s, i, r) /\ AskedAt(x, j, r) => s = x /\ i = j

AskedNotRun(r) == \A s \in Sockets, i \in Nat :
    AskedAt(s, i, r) => runs[r] = 0 /\ Open(r) /\ Unanswered(r)

RunningOnce(r) == \A o \in ops : o.id = r =>
    /\ runs[r] = 1 /\ Open(r) /\ Unanswered(r)
    /\ \A q \in ops : q.id = r => q = o

AnswerTells(r) == \A s \in Sockets, i \in Nat :
    AnsweredAt(s, i, r) =>
      /\ runs[r] = IF toServer[s][i].ran THEN 1 ELSE 0
      /\ outcome[r] \notin {"idle", "noTunnel"}

OutcomeExact(r) ==
    /\ runs[r] \in {0, 1}
    /\ outcome[r] = "answered" => runs[r] = 1
    /\ outcome[r] \in {"idle", "limited", "noTunnel"} => runs[r] = 0

RequestOK(r) ==
    AskedOnce(r) /\ AskedNotRun(r) /\ RunningOnce(r) /\ AnswerTells(r) /\ OutcomeExact(r)

RequestInv == \A r \in Requests : RequestOK(r)

IInv == TypeOK /\ FrameInv /\ RequestInv
-----------------------------------------------------------------------------
(* Sequences of frames. *)

LEMMA TailItems ==
    ASSUME NEW S, NEW q \in Seq(S), q # <<>>
    PROVE  /\ Head(q) = q[1] /\ q[1] \in S /\ 1 \in 1..Len(q)
           /\ Tail(q) \in Seq(S) /\ Len(Tail(q)) = Len(q) - 1
           /\ \A i \in 1..Len(Tail(q)) : i + 1 \in 1..Len(q) /\ Tail(q)[i] = q[i + 1]
  <1>1. Len(q) \in Nat \ {0}
    BY EmptySeq
  <1>2. QED
    BY <1>1, HeadTailProperties, ElementOfSeq

LEMMA EmptyInOrder == InOrder(<<>>)
  BY EmptySeq DEF InOrder

LEMMA TailInOrder ==
    ASSUME NEW q \in Seq(ReqFrame), q # <<>>, InOrder(q)
    PROVE  /\ InOrder(Tail(q))
           /\ \A i \in 1..Len(Tail(q)) : Tail(q)[i].ctr > Head(q).ctr /\ Tail(q)[i].id # Handshake
  <1>1. Len(q) \in Nat \ {0}
    BY EmptySeq
  <1>2. \A i \in 1..Len(Tail(q)) : i + 1 \in 1..Len(q) /\ 1 < i + 1 /\ Tail(q)[i] = q[i + 1]
    BY <1>1, TailItems
  <1>3. Head(q) = q[1] /\ 1 \in 1..Len(q)
    BY TailItems
  <1>4. \A i \in 1..Len(Tail(q)) : Tail(q)[i].ctr > Head(q).ctr /\ Tail(q)[i].id # Handshake
    BY <1>2, <1>3 DEF InOrder
  <1>5. InOrder(Tail(q))
    BY <1>1, <1>2, <1>4 DEF InOrder
  <1>6. QED
    BY <1>4, <1>5

LEMMA AppendInOrder ==
    ASSUME NEW q \in Seq(ReqFrame), NEW f \in ReqFrame, InOrder(q), f.id # Handshake,
           \A i \in 1..Len(q) : q[i].ctr < f.ctr
    PROVE  InOrder(q \o <<f>>)
  BY DEF InOrder, ReqFrame

LEMMA PairInOrder ==
    ASSUME NEW r \in Requests
    PROVE  /\ InOrder(<< [id |-> Handshake, ctr |-> 0], [id |-> r, ctr |-> 1] >>)
           /\ << [id |-> Handshake, ctr |-> 0], [id |-> r, ctr |-> 1] >> # <<>>
           /\ Len(<< [id |-> Handshake, ctr |-> 0], [id |-> r, ctr |-> 1] >>) = 2
           /\ \A i \in 1..2 : << [id |-> Handshake, ctr |-> 0], [id |-> r, ctr |-> 1] >>[i].ctr < 2
  BY SessionAssumption DEF InOrder

LEMMA Types == TypeOK =>
    /\ \A s \in Sockets : toCli[s] \in Seq(ReqFrame) /\ toServer[s] \in Seq(AnswerFrame)
    /\ \A s \in Sockets : owner[s] \in Clis
  BY DEF TypeOK

-----------------------------------------------------------------------------
(* Types. *)

LEMMA TypeInit == Init => TypeOK
  <1>1. AnyCli \in Clis
    BY SessionAssumption DEF AnyCli
  <1>2. \A S : <<>> \in Seq(S)
    BY EmptySeq
  <1>3. QED
    BY <1>1, <1>2, SessionAssumption DEF Init, TypeOK, NoState

\* The frames that a step puts on a socket.
LEMMA SentType ==
    ASSUME TypeOK, NEW s \in Sockets, NEW f \in AnswerFrame
    PROVE  Sent(s, f) \in [Sockets -> Seq(AnswerFrame)]
  <1>1. Append(toServer[s], f) \in Seq(AnswerFrame)
    BY Types, AppendProperties
  <1>2. QED
    BY <1>1 DEF Sent, TypeOK

LEMMA CountType ==
    ASSUME NEW c \in [Requests -> Nat], NEW r \in Requests
    PROVE  [c EXCEPT ![r] = c[r] + 1] \in [Requests -> Nat]
  OBVIOUS

LEMMA FramesType ==
    ASSUME TypeOK, NEW s \in Sockets, NEW r \in Requests
    PROVE  /\ StateFor(s) \in [sock : {s}, handshakeSent : BOOLEAN, next : Nat]
           /\ FramesFor(StateFor(s), r) \in Seq(ReqFrame)
           /\ Len(FramesFor(StateFor(s), r)) \in 1..2
  <1>1. /\ StateFor(s) \in [sock : {s}, handshakeSent : BOOLEAN, next : Nat]
    BY DEF StateFor, TypeOK
  <1> DEFINE st == StateFor(s)
  <1>2. /\ [id |-> r, ctr |-> st.next] \in ReqFrame
        /\ [id |-> Handshake, ctr |-> st.next] \in ReqFrame
        /\ [id |-> r, ctr |-> st.next + 1] \in ReqFrame
    BY <1>1 DEF ReqFrame, Ids
  <1>3. QED
    BY <1>1, <1>2 DEF FramesFor

LEMMA IncomingType ==
    ASSUME TypeOK, NEW s \in Sockets, Incoming(s)
    PROVE  /\ toCli' \in [Sockets -> Seq(ReqFrame)]
           /\ Head(toCli[s]) \in ReqFrame
  <1>1. Head(toCli[s]) \in ReqFrame /\ Tail(toCli[s]) \in Seq(ReqFrame)
    BY Types, TailItems DEF Incoming
  <1>2. QED
    BY <1>1 DEF Incoming, TypeOK

LEMMA TypeStep == TypeOK /\ [Next]_vars => TypeOK'
  <1> SUFFICES ASSUME TypeOK, [Next]_vars PROVE TypeOK'
    OBVIOUS
  <1> USE SessionAssumption, EmptySeq DEF TypeOK, cliVars, wireVars, slotVars, proxyVars
  <1>1. ASSUME NEW p \in Clis, NEW s \in Sockets, Connect(p, s)
        PROVE  TypeOK'
    <2>1. /\ backoff' \in [Clis -> 0..BackoffCap]
          /\ known' \in [Clis -> BOOLEAN] /\ lastCtr' \in [Clis -> Nat \cup {-1}]
      <3>1. BackoffAfterNap(p) \in 0..BackoffCap
        BY DEF BackoffAfterNap, Doubled
      <3>2. backoff' = [backoff EXCEPT ![p] = BackoffAfterNap(p)] /\ ForgetPeers(p)
        BY <1>1 DEF Connect
      <3>3. backoff' \in [Clis -> 0..BackoffCap]
        BY <3>1, <3>2
      <3>4. QED
        BY <3>2, <3>3 DEF ForgetPeers
    <2>2. /\ phase' \in [Clis -> {"off", "wait", "nap", "done"}]
          /\ cur' \in [Clis -> Sockets \cup {NoSocket}]
          /\ waiting' \in [Clis -> Sockets \cup {NoSocket}]
      BY <1>1 DEF Connect
    <2>3. /\ owner' \in [Sockets -> Clis]
          /\ cend' \in [Sockets -> {"open", "closing", "errored", "closed"}]
          /\ conn' \in [Sockets -> {"open", "closing", "closed"}]
          /\ stage' \in [Sockets -> {"none", "authenticating", "attached", "refused"}]
      BY <1>1 DEF Connect
    <2>4. toCli' \in [Sockets -> Seq(ReqFrame)] /\ toServer' \in [Sockets -> Seq(AnswerFrame)]
      BY <1>1 DEF Connect, Greeting
    <2>5. /\ ops' \subseteq [sock : Sockets, id : Requests]
          /\ proxy' \in [sock : Sockets \cup {NoSocket}, handshakeSent : BOOLEAN, next : Nat]
      BY <1>1 DEF Connect, ForgetSocket, NoState
    <2>6. QED
      BY <1>1, <2>1, <2>2, <2>3, <2>4, <2>5, SMTT(60) DEF Connect
  <1>2. ASSUME NEW p \in Clis, ConnectFails(p)
        PROVE  TypeOK'
    <2>1. BackoffAfterNap(p) \in 0..BackoffCap
      BY DEF BackoffAfterNap, Doubled
    <2>2. backoff' \in [Clis -> 0..BackoffCap]
      BY <1>2, <2>1 DEF ConnectFails
    <2>3. QED
      BY <1>2, <2>2, SMTT(60) DEF ConnectFails, ForgetPeers
  <1>3. ASSUME NEW p \in Clis, Stop(p)
        PROVE  TypeOK'
    BY <1>3, SMTT(60) DEF Stop
  <1>4. ASSUME NEW p \in Clis, Exit(p)
        PROVE  TypeOK'
    BY <1>4, SMTT(60) DEF Exit
  <1>5. ASSUME NEW s \in Sockets, CliSeesClose(s)
        PROVE  TypeOK'
    <2>1. owner[s] \in Clis
      BY Types
    <2>2. cur' \in [Clis -> Sockets \cup {NoSocket}] /\ toCli' \in [Sockets -> Seq(ReqFrame)]
      BY <1>5, <2>1 DEF CliSeesClose, CliEndCloses, LeaveWait
    <2>3. /\ phase' \in [Clis -> {"off", "wait", "nap", "done"}]
          /\ waiting' \in [Clis -> Sockets \cup {NoSocket}]
          /\ backoff' \in [Clis -> 0..BackoffCap]
      <3>1. CASE waiting[owner[s]] = s
        <4>1. /\ phase' = LeaveWait(owner[s])
              /\ waiting' = [waiting EXCEPT ![owner[s]] = NoSocket]
              /\ backoff' = [backoff EXCEPT ![owner[s]] = 0]
          BY <1>5, <3>1 DEF CliSeesClose, CliEndCloses
        <4>2. 0 \in 0..BackoffCap
          OBVIOUS
        <4>3. QED
          BY <4>1, <4>2, <2>1 DEF LeaveWait
      <3>2. CASE waiting[owner[s]] # s
        <4>1. phase' = phase /\ waiting' = waiting /\ backoff' = backoff
          BY <1>5, <3>2 DEF CliSeesClose, CliEndCloses
        <4>2. QED
          BY <4>1
      <3>3. QED
        BY <3>1, <3>2
    <2>4. /\ cend' \in [Sockets -> {"open", "closing", "errored", "closed"}]
          /\ failures' \in 0..MaxFailures
      BY <1>5 DEF CliSeesClose, CliEndCloses
    <2>5. QED
      BY <1>5, <2>2, <2>3, <2>4, SMTT(60) DEF CliSeesClose, CliEndCloses
  <1>6. ASSUME NEW s \in Sockets, CliLosesSocket(s)
        PROVE  TypeOK'
    <2>1. owner[s] \in Clis
      BY Types
    <2>2. cur' \in [Clis -> Sockets \cup {NoSocket}] /\ toCli' \in [Sockets -> Seq(ReqFrame)]
      BY <1>6, <2>1 DEF CliLosesSocket, CliEndCloses, LeaveWait
    <2>3. /\ phase' \in [Clis -> {"off", "wait", "nap", "done"}]
          /\ waiting' \in [Clis -> Sockets \cup {NoSocket}]
          /\ backoff' \in [Clis -> 0..BackoffCap]
      <3>1. CASE waiting[owner[s]] = s
        <4>1. /\ phase' = LeaveWait(owner[s])
              /\ waiting' = [waiting EXCEPT ![owner[s]] = NoSocket]
              /\ backoff' = [backoff EXCEPT ![owner[s]] = 0]
          BY <1>6, <3>1 DEF CliLosesSocket, CliEndCloses
        <4>2. 0 \in 0..BackoffCap
          OBVIOUS
        <4>3. QED
          BY <4>1, <4>2, <2>1 DEF LeaveWait
      <3>2. CASE waiting[owner[s]] # s
        <4>1. phase' = phase /\ waiting' = waiting /\ backoff' = backoff
          BY <1>6, <3>2 DEF CliLosesSocket, CliEndCloses
        <4>2. QED
          BY <4>1
      <3>3. QED
        BY <3>1, <3>2
    <2>4. /\ cend' \in [Sockets -> {"open", "closing", "errored", "closed"}]
          /\ failures' \in 0..MaxFailures
      BY <1>6 DEF CliLosesSocket, CliEndCloses
    <2>5. QED
      BY <1>6, <2>2, <2>3, <2>4, SMTT(60) DEF CliLosesSocket, CliEndCloses
  <1>7. ASSUME NEW s \in Sockets, CliSocketErrs(s)
        PROVE  TypeOK'
    <2>1. owner[s] \in Clis
      BY Types
    <2>2. phase' \in [Clis -> {"off", "wait", "nap", "done"}]
      BY <1>7, <2>1 DEF CliSocketErrs, LeaveWait
    <2>3. QED
      BY <1>7, <2>1, <2>2, SMTT(60) DEF CliSocketErrs
  <1>8. ASSUME NEW s \in Sockets, OnHandshake(s)
        PROVE  TypeOK'
    <2>1. owner[s] \in Clis /\ toCli' \in [Sockets -> Seq(ReqFrame)]
      BY <1>8, Types, IncomingType DEF OnHandshake
    <2>2. [id |-> Handshake, ran |-> FALSE] \in AnswerFrame
      BY DEF AnswerFrame, Ids
    <2>3. toServer' \in [Sockets -> Seq(AnswerFrame)]
      BY <1>8, <2>2, SentType DEF OnHandshake
    <2>4. QED
      BY <1>8, <2>1, <2>3, ZenonT(60) DEF OnHandshake, Incoming
  <1>9. ASSUME NEW s \in Sockets, OnReq(s)
        PROVE  TypeOK'
    <2> DEFINE f == Head(toCli[s])
    <2>1. owner[s] \in Clis /\ toCli' \in [Sockets -> Seq(ReqFrame)] /\ f \in ReqFrame
      BY <1>9, Types, IncomingType DEF OnReq
    <2>2. f.id \in Requests /\ f.ctr \in Nat
      BY <1>9, <2>1 DEF OnReq, ReqFrame, Ids
    <2> HIDE DEF f
    <2>3. [id |-> f.id, ran |-> FALSE] \in AnswerFrame
      BY <2>2 DEF AnswerFrame, Ids
    <2>4. toServer' \in [Sockets -> Seq(AnswerFrame)]
      BY <1>9, <2>3, SentType DEF OnReq, Handle, f
    <2>5. /\ ops' \subseteq [sock : Sockets, id : Requests]
          /\ runs' \in [Requests -> Nat]
          /\ lastCtr' \in [Clis -> Nat \cup {-1}]
      <3>1. CASE Acceptable(s, f)
        <4>1. lastCtr' = [lastCtr EXCEPT ![owner[s]] = f.ctr] /\ Handle(s, f.id)
          BY <1>9, <3>1 DEF OnReq, f
        <4>2. lastCtr' \in [Clis -> Nat \cup {-1}]
          BY <4>1, <2>1, <2>2
        <4>3. ops' \subseteq [sock : Sockets, id : Requests]
          BY <4>1, <2>2 DEF Handle
        <4>4. runs' = runs \/ runs' = [runs EXCEPT ![f.id] = runs[f.id] + 1]
          BY <4>1 DEF Handle
        <4>5. runs \in [Requests -> Nat] /\ f.id \in Requests
          BY <2>2
        <4>6. [runs EXCEPT ![f.id] = runs[f.id] + 1] \in [Requests -> Nat]
          BY ONLY <4>5, CountType
        <4>7. runs' \in [Requests -> Nat]
          BY ONLY <4>4, <4>5, <4>6
        <4>8. QED
          BY <4>2, <4>3, <4>7
      <3>2. CASE ~Acceptable(s, f)
        BY <1>9, <3>2 DEF OnReq, f
      <3>3. QED
        BY <3>1, <3>2
    <2>6. QED
      BY <1>9, <2>1, <2>4, <2>5, SMTT(60) DEF OnReq, Incoming
  <1>10. ASSUME NEW s \in Sockets, Authenticated(s)
        PROVE  TypeOK'
    BY <1>10, SMTT(60) DEF Authenticated
  <1>11. ASSUME NEW s \in Sockets, Refused(s)
        PROVE  TypeOK'
    BY <1>11, SMTT(60) DEF Refused
  <1>12. ASSUME NEW s \in Sockets, ServerSeesClose(s)
        PROVE  TypeOK'
    BY <1>12, SMTT(60) DEF ServerSeesClose, ServerEndCloses, SlotAfterClose
  <1>13. ASSUME NEW s \in Sockets, ServerLosesSocket(s)
        PROVE  TypeOK'
    BY <1>13, SMTT(60) DEF ServerLosesSocket, ServerEndCloses, SlotAfterClose
  <1>14. ASSUME NEW s \in Sockets, ServerReceives(s)
        PROVE  TypeOK'
    <2>1. Head(toServer[s]) \in AnswerFrame /\ Tail(toServer[s]) \in Seq(AnswerFrame)
      BY <1>14, Types, TailItems DEF ServerReceives
    <2>2. outcome' \in [Requests -> {"idle", "pending"} \cup Final]
      BY <1>14, <2>1 DEF ServerReceives, Settle, Final
    <2>3. QED
      BY <1>14, <2>1, <2>2, SMTT(60) DEF ServerReceives
  <1>15. ASSUME NEW r \in Requests, SendReq(r)
        PROVE  TypeOK'
    <2> DEFINE st == StateFor(slotCli)
               frames == FramesFor(st, r)
    <2>1. slotCli \in Sockets
      BY <1>15 DEF SendReq
    <2>2. /\ st \in [sock : {slotCli}, handshakeSent : BOOLEAN, next : Nat]
          /\ frames \in Seq(ReqFrame) /\ Len(frames) \in 1..2
      BY <2>1, FramesType
    <2>3. toCli[slotCli] \o frames \in Seq(ReqFrame)
      BY <2>1, <2>2, Types, ConcatProperties
    <2>4. /\ toCli' \in [Sockets -> Seq(ReqFrame)]
          /\ proxy' \in [sock : Sockets \cup {NoSocket}, handshakeSent : BOOLEAN, next : Nat]
      BY <1>15, <2>1, <2>2, <2>3 DEF SendReq
    <2>5. outcome' \in [Requests -> {"idle", "pending"} \cup Final]
      BY <1>15 DEF SendReq
    <2>6. QED
      BY <1>15, <2>4, <2>5, SMTT(60) DEF SendReq
  <1>16. ASSUME NEW r \in Requests, SendReqFails(r)
        PROVE  TypeOK'
    BY <1>16, SMTT(60) DEF SendReqFails, Final
  <1>17. ASSUME NEW r \in Requests, Timeout(r)
        PROVE  TypeOK'
    BY <1>17, SMTT(60) DEF Timeout, Final
  <1>18. ASSUME NEW o \in [sock : Sockets, id : Requests], OpDone(o)
        PROVE  TypeOK'
    <2>1. [id |-> o.id, ran |-> TRUE] \in AnswerFrame
      BY DEF AnswerFrame, Ids
    <2>2. toServer' \in [Sockets -> Seq(AnswerFrame)]
      BY <1>18, <2>1, SentType DEF OpDone
    <2>3. QED
      BY <1>18, <2>2, ZenonT(60) DEF OpDone
  <1>19. CASE SessionExpires
    BY <1>19, ZenonT(60) DEF SessionExpires
  <1>20. CASE Restart
    <2>1. outcome' \in [Requests -> {"idle", "pending"} \cup Final]
      BY <1>20 DEF Restart, Final
    <2>2. proxy' \in [sock : Sockets \cup {NoSocket}, handshakeSent : BOOLEAN, next : Nat]
      BY <1>20 DEF Restart, NoState
    <2>3. QED
      BY <1>20, <2>1, <2>2, SMTT(60) DEF Restart
  <1>21. CASE UNCHANGED vars
    BY <1>21, SMTT(60) DEF vars
  <1>22. QED
    BY <1>1, <1>2, <1>3, <1>4, <1>5, <1>6, <1>7, <1>8, <1>9, <1>10, <1>11, <1>12, <1>13, <1>14, <1>15, <1>16, <1>17, <1>18, <1>19, <1>20, <1>21
       DEF Next, CliNext, SocketNext, RequestNext

\* Every variable keeps within its type: counters and backoffs stay bounded,
\* and no frame or operation names a request that was never one.
THEOREM TypeCorrect == Spec => []TypeOK
  BY TypeInit, TypeStep, PTL DEF Spec

\* A process dials only when it waits for no socket.
LEMMA LiveStep == TypeOK /\ OneLive /\ [Next]_vars => OneLive'
  <1> SUFFICES ASSUME TypeOK, OneLive, [Next]_vars PROVE OneLive'
    OBVIOUS
  <1> USE SessionAssumption DEF TypeOK, Live, cliVars, wireVars, slotVars, proxyVars, OneLive
  <1>1. ASSUME NEW p \in Clis, NEW s \in Sockets, Connect(p, s)
        PROVE  OneLive'
    BY <1>1, SMTT(60) DEF Connect, Fresh, ForgetPeers, ForgetSocket, BackoffAfterNap, Doubled, Greeting, NoState, MayDial
  <1>2. ASSUME NEW p \in Clis, ConnectFails(p)
        PROVE  OneLive'
    BY <1>2, SMTT(60) DEF ConnectFails, ForgetPeers, BackoffAfterNap, Doubled, MayDial
  <1>3. ASSUME NEW p \in Clis, Stop(p)
        PROVE  OneLive'
    BY <1>3, SMTT(60) DEF Stop
  <1>4. ASSUME NEW p \in Clis, Exit(p)
        PROVE  OneLive'
    BY <1>4, SMTT(60) DEF Exit
  <1>5. ASSUME NEW s \in Sockets, CliSeesClose(s)
        PROVE  OneLive'
    BY <1>5, SMTT(60) DEF CliSeesClose, CliEndCloses, LeaveWait
  <1>6. ASSUME NEW s \in Sockets, CliLosesSocket(s)
        PROVE  OneLive'
    BY <1>6, SMTT(60) DEF CliLosesSocket, CliEndCloses, LeaveWait
  <1>7. ASSUME NEW s \in Sockets, CliSocketErrs(s)
        PROVE  OneLive'
    BY <1>7, SMTT(60) DEF CliSocketErrs, LeaveWait
  <1>8. ASSUME NEW s \in Sockets, OnHandshake(s)
        PROVE  OneLive'
    BY <1>8, SMTT(60) DEF OnHandshake, Incoming
  <1>9. ASSUME NEW s \in Sockets, OnReq(s)
        PROVE  OneLive'
    BY <1>9, SMTT(60) DEF OnReq, Incoming
  <1>10. ASSUME NEW s \in Sockets, Authenticated(s)
        PROVE  OneLive'
    BY <1>10, SMTT(60) DEF Authenticated
  <1>11. ASSUME NEW s \in Sockets, Refused(s)
        PROVE  OneLive'
    BY <1>11, SMTT(60) DEF Refused
  <1>12. ASSUME NEW s \in Sockets, ServerSeesClose(s)
        PROVE  OneLive'
    BY <1>12, SMTT(60) DEF ServerSeesClose, ServerEndCloses, SlotAfterClose
  <1>13. ASSUME NEW s \in Sockets, ServerLosesSocket(s)
        PROVE  OneLive'
    BY <1>13, SMTT(60) DEF ServerLosesSocket, ServerEndCloses, SlotAfterClose
  <1>14. ASSUME NEW s \in Sockets, ServerReceives(s)
        PROVE  OneLive'
    BY <1>14, SMTT(60) DEF ServerReceives
  <1>15. ASSUME NEW r \in Requests, SendReq(r)
        PROVE  OneLive'
    BY <1>15, SMTT(60) DEF SendReq
  <1>16. ASSUME NEW r \in Requests, SendReqFails(r)
        PROVE  OneLive'
    BY <1>16, SMTT(60) DEF SendReqFails
  <1>17. ASSUME NEW r \in Requests, Timeout(r)
        PROVE  OneLive'
    BY <1>17, SMTT(60) DEF Timeout
  <1>18. ASSUME NEW o \in [sock : Sockets, id : Requests], OpDone(o)
        PROVE  OneLive'
    BY <1>18, SMTT(60) DEF OpDone
  <1>19. CASE SessionExpires
    BY <1>19, SMTT(60) DEF SessionExpires
  <1>20. CASE Restart
    BY <1>20, SMTT(60) DEF Restart, NoState, Pending
  <1>21. CASE UNCHANGED vars
    BY <1>21, SMTT(60) DEF vars
  <1>22. QED
    BY <1>1, <1>2, <1>3, <1>4, <1>5, <1>6, <1>7, <1>8, <1>9, <1>10, <1>11, <1>12, <1>13, <1>14, <1>15, <1>16, <1>17, <1>18, <1>19, <1>20, <1>21
       DEF Next, CliNext, SocketNext, RequestNext

\* The socket of the slot leaves it when it closes.
LEMMA SlotStep == TypeOK /\ SlotAttached /\ [Next]_vars => SlotAttached'
  <1> SUFFICES ASSUME TypeOK, SlotAttached, [Next]_vars PROVE SlotAttached'
    OBVIOUS
  <1> USE SessionAssumption DEF TypeOK, Live, cliVars, wireVars, slotVars, proxyVars, SlotAttached
  <1>1. ASSUME NEW p \in Clis, NEW s \in Sockets, Connect(p, s)
        PROVE  SlotAttached'
    BY <1>1, SMTT(60) DEF Connect, Fresh, ForgetPeers, ForgetSocket, BackoffAfterNap, Doubled, Greeting, NoState, MayDial
  <1>2. ASSUME NEW p \in Clis, ConnectFails(p)
        PROVE  SlotAttached'
    BY <1>2, SMTT(60) DEF ConnectFails, ForgetPeers, BackoffAfterNap, Doubled, MayDial
  <1>3. ASSUME NEW p \in Clis, Stop(p)
        PROVE  SlotAttached'
    BY <1>3, SMTT(60) DEF Stop
  <1>4. ASSUME NEW p \in Clis, Exit(p)
        PROVE  SlotAttached'
    BY <1>4, SMTT(60) DEF Exit
  <1>5. ASSUME NEW s \in Sockets, CliSeesClose(s)
        PROVE  SlotAttached'
    BY <1>5, SMTT(60) DEF CliSeesClose, CliEndCloses, LeaveWait
  <1>6. ASSUME NEW s \in Sockets, CliLosesSocket(s)
        PROVE  SlotAttached'
    BY <1>6, SMTT(60) DEF CliLosesSocket, CliEndCloses, LeaveWait
  <1>7. ASSUME NEW s \in Sockets, CliSocketErrs(s)
        PROVE  SlotAttached'
    BY <1>7, SMTT(60) DEF CliSocketErrs, LeaveWait
  <1>8. ASSUME NEW s \in Sockets, OnHandshake(s)
        PROVE  SlotAttached'
    BY <1>8, SMTT(60) DEF OnHandshake, Incoming
  <1>9. ASSUME NEW s \in Sockets, OnReq(s)
        PROVE  SlotAttached'
    BY <1>9, SMTT(60) DEF OnReq, Incoming
  <1>10. ASSUME NEW s \in Sockets, Authenticated(s)
        PROVE  SlotAttached'
    BY <1>10, SMTT(60) DEF Authenticated
  <1>11. ASSUME NEW s \in Sockets, Refused(s)
        PROVE  SlotAttached'
    BY <1>11, SMTT(60) DEF Refused
  <1>12. ASSUME NEW s \in Sockets, ServerSeesClose(s)
        PROVE  SlotAttached'
    BY <1>12, SMTT(60) DEF ServerSeesClose, ServerEndCloses, SlotAfterClose
  <1>13. ASSUME NEW s \in Sockets, ServerLosesSocket(s)
        PROVE  SlotAttached'
    BY <1>13, SMTT(60) DEF ServerLosesSocket, ServerEndCloses, SlotAfterClose
  <1>14. ASSUME NEW s \in Sockets, ServerReceives(s)
        PROVE  SlotAttached'
    BY <1>14, SMTT(60) DEF ServerReceives
  <1>15. ASSUME NEW r \in Requests, SendReq(r)
        PROVE  SlotAttached'
    BY <1>15, SMTT(60) DEF SendReq
  <1>16. ASSUME NEW r \in Requests, SendReqFails(r)
        PROVE  SlotAttached'
    BY <1>16, SMTT(60) DEF SendReqFails
  <1>17. ASSUME NEW r \in Requests, Timeout(r)
        PROVE  SlotAttached'
    BY <1>17, SMTT(60) DEF Timeout
  <1>18. ASSUME NEW o \in [sock : Sockets, id : Requests], OpDone(o)
        PROVE  SlotAttached'
    BY <1>18, SMTT(60) DEF OpDone
  <1>19. CASE SessionExpires
    BY <1>19, SMTT(60) DEF SessionExpires
  <1>20. CASE Restart
    BY <1>20, SMTT(60) DEF Restart, NoState, Pending
  <1>21. CASE UNCHANGED vars
    BY <1>21, SMTT(60) DEF vars
  <1>22. QED
    BY <1>1, <1>2, <1>3, <1>4, <1>5, <1>6, <1>7, <1>8, <1>9, <1>10, <1>11, <1>12, <1>13, <1>14, <1>15, <1>16, <1>17, <1>18, <1>19, <1>20, <1>21
       DEF Next, CliNext, SocketNext, RequestNext

\* Nothing is sent on a socket before it is attached, so no answer is owed to it.
LEMMA SilentStep == TypeOK /\ SlotAttached /\ SilentBefore /\ [Next]_vars => SilentBefore'
  <1> SUFFICES ASSUME TypeOK, SlotAttached, SilentBefore, [Next]_vars PROVE SilentBefore'
    OBVIOUS
  <1> USE SessionAssumption DEF TypeOK, Live, cliVars, wireVars, slotVars, proxyVars, SlotAttached, SilentBefore, Silent
  <1>1. ASSUME NEW p \in Clis, NEW s \in Sockets, Connect(p, s)
        PROVE  SilentBefore'
    BY <1>1, SMTT(60) DEF Connect, Fresh, ForgetPeers, ForgetSocket, BackoffAfterNap, Doubled, Greeting, NoState, MayDial
  <1>2. ASSUME NEW p \in Clis, ConnectFails(p)
        PROVE  SilentBefore'
    BY <1>2, SMTT(60) DEF ConnectFails, ForgetPeers, BackoffAfterNap, Doubled, MayDial
  <1>3. ASSUME NEW p \in Clis, Stop(p)
        PROVE  SilentBefore'
    BY <1>3, SMTT(60) DEF Stop
  <1>4. ASSUME NEW p \in Clis, Exit(p)
        PROVE  SilentBefore'
    BY <1>4, SMTT(60) DEF Exit
  <1>5. ASSUME NEW s \in Sockets, CliSeesClose(s)
        PROVE  SilentBefore'
    BY <1>5, SMTT(60) DEF CliSeesClose, CliEndCloses, LeaveWait
  <1>6. ASSUME NEW s \in Sockets, CliLosesSocket(s)
        PROVE  SilentBefore'
    BY <1>6, SMTT(60) DEF CliLosesSocket, CliEndCloses, LeaveWait
  <1>7. ASSUME NEW s \in Sockets, CliSocketErrs(s)
        PROVE  SilentBefore'
    BY <1>7, SMTT(60) DEF CliSocketErrs, LeaveWait
  <1>8. ASSUME NEW s \in Sockets, OnHandshake(s)
        PROVE  SilentBefore'
    <2>1. toCli[s] # <<>> /\ stage' = stage /\ ops' = ops
      BY <1>8 DEF OnHandshake, Incoming
    <2>2. \A x \in Sockets \ {s} : toCli'[x] = toCli[x] /\ toServer'[x] = toServer[x]
      BY <1>8 DEF OnHandshake, Incoming, Sent
    <2>3. QED
      BY <2>1, <2>2
  <1>9. ASSUME NEW s \in Sockets, OnReq(s)
        PROVE  SilentBefore'
    <2>1. toCli[s] # <<>> /\ stage' = stage /\ \A o \in ops' : o \in ops \/ o.sock = s
      BY <1>9 DEF OnReq, Incoming, Handle
    <2>2. \A x \in Sockets \ {s} : toCli'[x] = toCli[x] /\ toServer'[x] = toServer[x]
      BY <1>9 DEF OnReq, Incoming, Handle, Sent
    <2>3. QED
      BY <2>1, <2>2
  <1>10. ASSUME NEW s \in Sockets, Authenticated(s)
        PROVE  SilentBefore'
    BY <1>10, SMTT(60) DEF Authenticated
  <1>11. ASSUME NEW s \in Sockets, Refused(s)
        PROVE  SilentBefore'
    BY <1>11, SMTT(60) DEF Refused
  <1>12. ASSUME NEW s \in Sockets, ServerSeesClose(s)
        PROVE  SilentBefore'
    BY <1>12, SMTT(60) DEF ServerSeesClose, ServerEndCloses, SlotAfterClose
  <1>13. ASSUME NEW s \in Sockets, ServerLosesSocket(s)
        PROVE  SilentBefore'
    BY <1>13, SMTT(60) DEF ServerLosesSocket, ServerEndCloses, SlotAfterClose
  <1>14. ASSUME NEW s \in Sockets, ServerReceives(s)
        PROVE  SilentBefore'
    BY <1>14, SMTT(60) DEF ServerReceives
  <1>15. ASSUME NEW r \in Requests, SendReq(r)
        PROVE  SilentBefore'
    BY <1>15, SMTT(60) DEF SendReq
  <1>16. ASSUME NEW r \in Requests, SendReqFails(r)
        PROVE  SilentBefore'
    BY <1>16, SMTT(60) DEF SendReqFails
  <1>17. ASSUME NEW r \in Requests, Timeout(r)
        PROVE  SilentBefore'
    BY <1>17, SMTT(60) DEF Timeout
  <1>18. ASSUME NEW o \in [sock : Sockets, id : Requests], OpDone(o)
        PROVE  SilentBefore'
    <2>1. o \in ops /\ stage' = stage /\ toCli' = toCli /\ ops' \subseteq ops
      BY <1>18 DEF OpDone
    <2>2. \A x \in Sockets \ {o.sock} : toServer'[x] = toServer[x]
      BY <1>18 DEF OpDone, Sent
    <2>3. QED
      BY <2>1, <2>2
  <1>19. CASE SessionExpires
    BY <1>19, SMTT(60) DEF SessionExpires
  <1>20. CASE Restart
    BY <1>20, SMTT(60) DEF Restart, NoState, Pending
  <1>21. CASE UNCHANGED vars
    BY <1>21, SMTT(60) DEF vars
  <1>22. QED
    BY <1>1, <1>2, <1>3, <1>4, <1>5, <1>6, <1>7, <1>8, <1>9, <1>10, <1>11, <1>12, <1>13, <1>14, <1>15, <1>16, <1>17, <1>18, <1>19, <1>20, <1>21
       DEF Next, CliNext, SocketNext, RequestNext

\* The proxy sends on the socket of the slot alone.
LEMMA ProxyStep == TypeOK /\ SlotAttached /\ SilentBefore /\ ProxyFollows /\ [Next]_vars => ProxyFollows'
  <1> SUFFICES ASSUME TypeOK, SlotAttached, SilentBefore, ProxyFollows, [Next]_vars PROVE ProxyFollows'
    OBVIOUS
  <1> USE SessionAssumption DEF TypeOK, Live, cliVars, wireVars, slotVars, proxyVars, SlotAttached, SilentBefore, Silent, ProxyFollows, Carries
  <1>1. ASSUME NEW p \in Clis, NEW s \in Sockets, Connect(p, s)
        PROVE  ProxyFollows'
    BY <1>1, SMTT(60) DEF Connect, Fresh, ForgetPeers, ForgetSocket, BackoffAfterNap, Doubled, Greeting, NoState, MayDial
  <1>2. ASSUME NEW p \in Clis, ConnectFails(p)
        PROVE  ProxyFollows'
    BY <1>2, SMTT(60) DEF ConnectFails, ForgetPeers, BackoffAfterNap, Doubled, MayDial
  <1>3. ASSUME NEW p \in Clis, Stop(p)
        PROVE  ProxyFollows'
    BY <1>3, SMTT(60) DEF Stop
  <1>4. ASSUME NEW p \in Clis, Exit(p)
        PROVE  ProxyFollows'
    BY <1>4, SMTT(60) DEF Exit
  <1>5. ASSUME NEW s \in Sockets, CliSeesClose(s)
        PROVE  ProxyFollows'
    BY <1>5, SMTT(60) DEF CliSeesClose, CliEndCloses, LeaveWait
  <1>6. ASSUME NEW s \in Sockets, CliLosesSocket(s)
        PROVE  ProxyFollows'
    BY <1>6, SMTT(60) DEF CliLosesSocket, CliEndCloses, LeaveWait
  <1>7. ASSUME NEW s \in Sockets, CliSocketErrs(s)
        PROVE  ProxyFollows'
    BY <1>7, SMTT(60) DEF CliSocketErrs, LeaveWait
  <1>8. ASSUME NEW s \in Sockets, OnHandshake(s)
        PROVE  ProxyFollows'
    BY <1>8, SMTT(60) DEF OnHandshake, Incoming
  <1>9. ASSUME NEW s \in Sockets, OnReq(s)
        PROVE  ProxyFollows'
    BY <1>9, SMTT(60) DEF OnReq, Incoming
  <1>10. ASSUME NEW s \in Sockets, Authenticated(s)
        PROVE  ProxyFollows'
    BY <1>10, SMTT(60) DEF Authenticated
  <1>11. ASSUME NEW s \in Sockets, Refused(s)
        PROVE  ProxyFollows'
    BY <1>11, SMTT(60) DEF Refused
  <1>12. ASSUME NEW s \in Sockets, ServerSeesClose(s)
        PROVE  ProxyFollows'
    BY <1>12, SMTT(60) DEF ServerSeesClose, ServerEndCloses, SlotAfterClose
  <1>13. ASSUME NEW s \in Sockets, ServerLosesSocket(s)
        PROVE  ProxyFollows'
    BY <1>13, SMTT(60) DEF ServerLosesSocket, ServerEndCloses, SlotAfterClose
  <1>14. ASSUME NEW s \in Sockets, ServerReceives(s)
        PROVE  ProxyFollows'
    BY <1>14, SMTT(60) DEF ServerReceives
  <1>15. ASSUME NEW r \in Requests, SendReq(r)
        PROVE  ProxyFollows'
    BY <1>15, SMTT(60) DEF SendReq
  <1>16. ASSUME NEW r \in Requests, SendReqFails(r)
        PROVE  ProxyFollows'
    BY <1>16, SMTT(60) DEF SendReqFails
  <1>17. ASSUME NEW r \in Requests, Timeout(r)
        PROVE  ProxyFollows'
    BY <1>17, SMTT(60) DEF Timeout
  <1>18. ASSUME NEW o \in [sock : Sockets, id : Requests], OpDone(o)
        PROVE  ProxyFollows'
    BY <1>18, SMTT(60) DEF OpDone
  <1>19. CASE SessionExpires
    BY <1>19, SMTT(60) DEF SessionExpires
  <1>20. CASE Restart
    BY <1>20, SMTT(60) DEF Restart, NoState, Pending
  <1>21. CASE UNCHANGED vars
    BY <1>21, SMTT(60) DEF vars
  <1>22. QED
    BY <1>1, <1>2, <1>3, <1>4, <1>5, <1>6, <1>7, <1>8, <1>9, <1>10, <1>11, <1>12, <1>13, <1>14, <1>15, <1>16, <1>17, <1>18, <1>19, <1>20, <1>21
       DEF Next, CliNext, SocketNext, RequestNext

\* The frames of a socket stay in order, and the next one is always acceptable.
LEMMA FramesStep == TypeOK /\ OneLive /\ ProxyFollows /\ ProxyAhead /\ FramesInOrder /\ [Next]_vars => FramesInOrder'
  <1> SUFFICES ASSUME TypeOK, OneLive, ProxyFollows, ProxyAhead, FramesInOrder, [Next]_vars PROVE FramesInOrder'
    OBVIOUS
  <1> USE SessionAssumption DEF TypeOK, Live, cliVars, wireVars, slotVars, proxyVars, OneLive, FramesInOrder, FramesAt, Acceptable
  <1>1. ASSUME NEW p \in Clis, NEW s \in Sockets, Connect(p, s)
        PROVE  FramesInOrder'
    <2>1. FramesAt(s)'
      BY <1>1, EmptyInOrder DEF Connect
    <2>2. \A x \in Sockets \ {s} : Live(x)' => Live(x) /\ toCli'[x] = toCli[x] /\ owner'[x] = owner[x]
      BY <1>1 DEF Connect
    <2>3. \A x \in Sockets \ {s} : Live(x) => owner[x] # p
      BY <1>1 DEF Connect, MayDial
    <2>4. \A c \in Clis \ {p} : known'[c] = known[c] /\ lastCtr'[c] = lastCtr[c]
      BY <1>1 DEF Connect, ForgetPeers
    <2>5. ASSUME NEW x \in Sockets \ {s}, Live(x)' PROVE FramesAt(x)'
      <3>1. owner[x] \in Clis \ {p} /\ Live(x) /\ FramesAt(x)
        BY <2>2, <2>3, <2>5, Types
      <3>2. known'[owner[x]] = known[owner[x]] /\ lastCtr'[owner[x]] = lastCtr[owner[x]]
        BY <2>4, <3>1
      <3>3. toCli'[x] = toCli[x] /\ owner'[x] = owner[x]
        BY <2>2, <2>5
      <3>4. QED
        BY <3>1, <3>2, <3>3
    <2>6. QED
      BY <2>1, <2>5
  <1>2. ASSUME NEW p \in Clis, ConnectFails(p)
        PROVE  FramesInOrder'
    BY <1>2, SMTT(60) DEF ConnectFails, ForgetPeers, BackoffAfterNap, Doubled, MayDial
  <1>3. ASSUME NEW p \in Clis, Stop(p)
        PROVE  FramesInOrder'
    BY <1>3, SMTT(60) DEF Stop
  <1>4. ASSUME NEW p \in Clis, Exit(p)
        PROVE  FramesInOrder'
    BY <1>4, SMTT(60) DEF Exit
  <1>5. ASSUME NEW s \in Sockets, CliSeesClose(s)
        PROVE  FramesInOrder'
    BY <1>5, SMTT(60) DEF CliSeesClose, CliEndCloses, LeaveWait
  <1>6. ASSUME NEW s \in Sockets, CliLosesSocket(s)
        PROVE  FramesInOrder'
    BY <1>6, SMTT(60) DEF CliLosesSocket, CliEndCloses, LeaveWait
  <1>7. ASSUME NEW s \in Sockets, CliSocketErrs(s)
        PROVE  FramesInOrder'
    BY <1>7, SMTT(60) DEF CliSocketErrs, LeaveWait
  <1>8. ASSUME NEW s \in Sockets, OnHandshake(s)
        PROVE  FramesInOrder'
    <2>1. \A x \in Sockets \ {s} : Live(x) => owner[x] # owner[s]
      BY <1>8 DEF OnHandshake, Incoming
    <2>2. /\ Live(s) /\ cend' = cend /\ owner' = owner
          /\ \A x \in Sockets \ {s} : toCli'[x] = toCli[x]
          /\ \A c \in Clis \ {owner[s]} : known'[c] = known[c] /\ lastCtr'[c] = lastCtr[c]
      BY <1>8 DEF OnHandshake, Incoming
    <2>3. /\ toCli[s] # <<>> /\ toCli'[s] = Tail(toCli[s])
          /\ known'[owner[s]] = TRUE /\ lastCtr'[owner[s]] = -1
      BY <1>8, Types DEF OnHandshake, Incoming
    <2>4. InOrder(toCli'[s]) /\ toCli'[s] \in Seq(ReqFrame)
      BY <2>2, <2>3, Types, TailInOrder, TailItems
    <2>5. toCli'[s] # <<>> => toCli'[s][1].ctr > -1
      <3>1. toCli'[s] # <<>> => toCli'[s][1] \in ReqFrame
        BY <2>4, TailItems
      <3>2. QED
        BY <3>1 DEF ReqFrame
    <2>6. FramesAt(s)'
      BY <2>2, <2>3, <2>4, <2>5
    <2>7. ASSUME NEW x \in Sockets \ {s}, Live(x)' PROVE FramesAt(x)'
      <3>1. owner[x] \in Clis \ {owner[s]} /\ Live(x) /\ FramesAt(x)
        BY <2>1, <2>2, <2>7, Types
      <3>2. QED
        BY <2>2, <2>7, <3>1
    <2>8. QED
      BY <2>6, <2>7
  <1>9. ASSUME NEW s \in Sockets, OnReq(s)
        PROVE  FramesInOrder'
    <2>1. \A x \in Sockets \ {s} : Live(x) => owner[x] # owner[s]
      BY <1>9 DEF OnReq, Incoming
    <2>2. /\ Live(s) /\ cend' = cend /\ owner' = owner /\ known' = known
          /\ \A x \in Sockets \ {s} : toCli'[x] = toCli[x]
          /\ \A c \in Clis \ {owner[s]} : lastCtr'[c] = lastCtr[c]
      BY <1>9 DEF OnReq, Incoming
    <2>3. toCli[s] # <<>> /\ toCli'[s] = Tail(toCli[s]) /\ Head(toCli[s]) = toCli[s][1]
      BY <1>9, Types, TailItems DEF OnReq, Incoming
    <2>4. Acceptable(s, Head(toCli[s]))
      BY <1>9, <2>2, <2>3 DEF OnReq
    <2>5. known'[owner[s]] /\ lastCtr'[owner[s]] = Head(toCli[s]).ctr
      BY <1>9, <2>2, <2>4, Types DEF OnReq
    <2>6. InOrder(toCli'[s]) /\ toCli'[s] \in Seq(ReqFrame)
      BY <2>2, <2>3, Types, TailInOrder, TailItems
    <2>7. toCli'[s] # <<>> => toCli'[s][1].ctr > Head(toCli[s]).ctr
      BY <2>2, <2>3, <2>6, Types, TailInOrder, TailItems
    <2>8. FramesAt(s)'
      BY <2>2, <2>5, <2>6, <2>7
    <2>9. ASSUME NEW x \in Sockets \ {s}, Live(x)' PROVE FramesAt(x)'
      <3>1. owner[x] \in Clis \ {owner[s]} /\ Live(x) /\ FramesAt(x)
        BY <2>1, <2>2, <2>9, Types
      <3>2. QED
        BY <2>2, <2>9, <3>1
    <2>10. QED
      BY <2>8, <2>9
  <1>10. ASSUME NEW s \in Sockets, Authenticated(s)
        PROVE  FramesInOrder'
    BY <1>10, SMTT(60) DEF Authenticated
  <1>11. ASSUME NEW s \in Sockets, Refused(s)
        PROVE  FramesInOrder'
    BY <1>11, SMTT(60) DEF Refused
  <1>12. ASSUME NEW s \in Sockets, ServerSeesClose(s)
        PROVE  FramesInOrder'
    BY <1>12, SMTT(60) DEF ServerSeesClose, ServerEndCloses, SlotAfterClose
  <1>13. ASSUME NEW s \in Sockets, ServerLosesSocket(s)
        PROVE  FramesInOrder'
    BY <1>13, SMTT(60) DEF ServerLosesSocket, ServerEndCloses, SlotAfterClose
  <1>14. ASSUME NEW s \in Sockets, ServerReceives(s)
        PROVE  FramesInOrder'
    BY <1>14, SMTT(60) DEF ServerReceives
  <1>15. ASSUME NEW r \in Requests, SendReq(r)
        PROVE  FramesInOrder'
    <2>0. PICK c \in Sockets : c = slotCli
      BY <1>15 DEF SendReq
    <2> DEFINE st == StateFor(c)
    <2>1. /\ c # NoSocket
          /\ toCli' = [toCli EXCEPT ![c] = IF Carries(c) THEN @ \o FramesFor(st, r) ELSE @]
          /\ proxy' = [sock |-> c, handshakeSent |-> TRUE, next |-> st.next + Len(FramesFor(st, r))]
      BY <1>15, <2>0 DEF SendReq
    <2>2. UNCHANGED <<phase, waiting, known, lastCtr, owner, cend, conn, slotCli>>
      BY <1>15 DEF SendReq
    <2> HIDE DEF st
    <2>3. ASSUME Carries(c), proxy.sock = c
          PROVE  /\ toCli'[c] = toCli[c] \o << [id |-> r, ctr |-> proxy.next] >>
                 /\ proxy'.next = proxy.next + 1
      <3>1. st = proxy /\ proxy.handshakeSent
        BY <2>1, <2>3 DEF ProxyFollows, StateFor, st
      <3>2. FramesFor(st, r) = << [id |-> r, ctr |-> proxy.next] >>
        BY <3>1 DEF FramesFor
      <3>3. QED
        BY <2>1, <2>3, <3>1, <3>2
    <2>4. ASSUME Carries(c), proxy.sock # c
          PROVE  /\ toCli'[c] = << [id |-> Handshake, ctr |-> 0], [id |-> r, ctr |-> 1] >>
                 /\ proxy'.next = 2
      <3>1. st = [sock |-> c, handshakeSent |-> FALSE, next |-> 0] /\ toCli[c] = <<>>
        BY <2>1, <2>4 DEF ProxyFollows, StateFor, st
      <3>2. FramesFor(st, r) = << [id |-> Handshake, ctr |-> 0], [id |-> r, ctr |-> 1] >>
        BY <3>1 DEF FramesFor
      <3>3. Len(FramesFor(st, r)) = 2
        BY <3>2
      <3>4. toCli'[c] = <<>> \o FramesFor(st, r) /\ proxy'.next = 0 + 2
        BY <2>1, <2>4, <3>1, <3>3
      <3>5. QED
        BY <3>2, <3>4
    <2>5. ASSUME NEW x \in Sockets, Live(x)', toCli'[x] = toCli[x] PROVE FramesAt(x)'
      BY <2>2, <2>5
    <2>6. ASSUME Live(c)' => FramesAt(c)' PROVE FramesInOrder'
      <3>1. \A x \in Sockets \ {c} : toCli'[x] = toCli[x]
        BY <2>1
      <3>2. QED
        BY <2>5, <2>6, <3>1
    <2>7. CASE Carries(c) /\ proxy.sock = c
      <3> DEFINE f == [id |-> r, ctr |-> proxy.next]
      <3>1. f \in ReqFrame /\ f.id # Handshake /\ toCli[c] \in Seq(ReqFrame)
        <4>1. proxy.next \in Nat /\ r \in Ids /\ r # Handshake
          BY DEF Ids
        <4>2. QED
          BY <4>1, Types DEF ReqFrame
      <3>2. Live(c) /\ Ahead(c) /\ InOrder(toCli[c])
        BY <2>1, <2>7 DEF Carries, ProxyAhead
      <3>3. InOrder(toCli'[c])
        <4>1. \A i \in 1..Len(toCli[c]) : toCli[c][i].ctr < f.ctr
          BY <3>2 DEF Ahead
        <4> HIDE DEF f
        <4>2. InOrder(toCli[c] \o <<f>>)
          BY ONLY <3>1, <3>2, <4>1, AppendInOrder
        <4>3. QED
          BY <2>3, <2>7, <4>2 DEF f
      <3>4. toCli'[c][1].id = Handshake \/ Acceptable(c, toCli[c][1])'
        <4>1. CASE toCli[c] = <<>>
          BY <2>1, <2>2, <2>3, <2>7, <3>2, <4>1 DEF Ahead
        <4>2. CASE toCli[c] # <<>>
          <5>1. toCli'[c][1] = toCli[c][1]
            BY <2>3, <2>7, <3>1, <4>2, TailItems
          <5>2. QED
            BY <2>1, <2>2, <3>2, <4>2, <5>1
        <4>3. QED
          BY <4>1, <4>2
      <3>5. FramesAt(c)'
        BY <2>2, <3>3, <3>4
      <3>6. QED
        BY <2>6, <3>5
    <2>8. CASE Carries(c) /\ proxy.sock # c
      <3>1. toCli'[c][1].id = Handshake /\ InOrder(toCli'[c])
        <4>1. toCli'[c] = << [id |-> Handshake, ctr |-> 0], [id |-> r, ctr |-> 1] >>
          BY <2>4, <2>8
        <4>2. InOrder(<< [id |-> Handshake, ctr |-> 0], [id |-> r, ctr |-> 1] >>)
          BY PairInOrder
        <4>3. QED
          BY <4>1, <4>2
      <3>2. QED
        BY <2>6, <3>1
    <2>9. CASE ~Carries(c)
      <3>1. toCli'[c] = toCli[c]
        BY <2>1, <2>9
      <3>2. QED
        BY <2>5, <2>6, <3>1
    <2>10. QED
      BY <2>7, <2>8, <2>9
  <1>16. ASSUME NEW r \in Requests, SendReqFails(r)
        PROVE  FramesInOrder'
    BY <1>16, SMTT(60) DEF SendReqFails
  <1>17. ASSUME NEW r \in Requests, Timeout(r)
        PROVE  FramesInOrder'
    BY <1>17, SMTT(60) DEF Timeout
  <1>18. ASSUME NEW o \in [sock : Sockets, id : Requests], OpDone(o)
        PROVE  FramesInOrder'
    BY <1>18, SMTT(60) DEF OpDone
  <1>19. CASE SessionExpires
    BY <1>19, SMTT(60) DEF SessionExpires
  <1>20. CASE Restart
    BY <1>20, SMTT(60) DEF Restart, NoState, Pending
  <1>21. CASE UNCHANGED vars
    BY <1>21, SMTT(60) DEF vars
  <1>22. QED
    BY <1>1, <1>2, <1>3, <1>4, <1>5, <1>6, <1>7, <1>8, <1>9, <1>10, <1>11, <1>12, <1>13, <1>14, <1>15, <1>16, <1>17, <1>18, <1>19, <1>20, <1>21
       DEF Next, CliNext, SocketNext, RequestNext

\* The proxy's next counter is above all that it sent on the socket.
LEMMA AheadStep == TypeOK /\ OneLive /\ ProxyFollows /\ FramesInOrder /\ ProxyAhead /\ [Next]_vars => ProxyAhead'
  <1> SUFFICES ASSUME TypeOK, OneLive, ProxyFollows, FramesInOrder, ProxyAhead, [Next]_vars PROVE ProxyAhead'
    OBVIOUS
  <1> USE SessionAssumption DEF TypeOK, Live, cliVars, wireVars, slotVars, proxyVars, OneLive, Carries, ProxyAhead, Ahead
  <1>1. ASSUME NEW p \in Clis, NEW s \in Sockets, Connect(p, s)
        PROVE  ProxyAhead'
    <2>1. proxy'.sock # s /\ (proxy'.sock # NoSocket => proxy' = proxy)
      BY <1>1 DEF Connect, ForgetSocket, NoState
    <2>2. \A x \in Sockets \ {s} : Carries(x)' => Carries(x) /\ toCli'[x] = toCli[x] /\ owner'[x] = owner[x]
      BY <1>1 DEF Connect
    <2>3. \A x \in Sockets \ {s} : Live(x) => owner[x] # p
      BY <1>1 DEF Connect, MayDial
    <2>4. \A c \in Clis \ {p} : known'[c] = known[c] /\ lastCtr'[c] = lastCtr[c]
      BY <1>1 DEF Connect, ForgetPeers
    <2>5. ASSUME NEW x \in Sockets, Carries(x)', proxy'.sock = x PROVE Ahead(x)'
      <3>1. x # s /\ proxy' = proxy
        BY <2>1, <2>5
      <3>2. owner[x] \in Clis \ {p} /\ Carries(x) /\ Ahead(x)
        BY <2>2, <2>3, <2>5, <3>1, Types
      <3>3. known'[owner[x]] = known[owner[x]] /\ lastCtr'[owner[x]] = lastCtr[owner[x]]
        BY <2>4, <3>2
      <3>4. toCli'[x] = toCli[x] /\ owner'[x] = owner[x]
        BY <2>2, <2>5, <3>1
      <3>5. QED
        BY <3>1, <3>2, <3>3, <3>4
    <2>6. QED
      BY <2>5
  <1>2. ASSUME NEW p \in Clis, ConnectFails(p)
        PROVE  ProxyAhead'
    BY <1>2, SMTT(60) DEF ConnectFails, ForgetPeers, BackoffAfterNap, Doubled, MayDial
  <1>3. ASSUME NEW p \in Clis, Stop(p)
        PROVE  ProxyAhead'
    BY <1>3, SMTT(60) DEF Stop
  <1>4. ASSUME NEW p \in Clis, Exit(p)
        PROVE  ProxyAhead'
    BY <1>4, SMTT(60) DEF Exit
  <1>5. ASSUME NEW s \in Sockets, CliSeesClose(s)
        PROVE  ProxyAhead'
    BY <1>5, SMTT(60) DEF CliSeesClose, CliEndCloses, LeaveWait
  <1>6. ASSUME NEW s \in Sockets, CliLosesSocket(s)
        PROVE  ProxyAhead'
    BY <1>6, SMTT(60) DEF CliLosesSocket, CliEndCloses, LeaveWait
  <1>7. ASSUME NEW s \in Sockets, CliSocketErrs(s)
        PROVE  ProxyAhead'
    BY <1>7, SMTT(60) DEF CliSocketErrs, LeaveWait
  <1>8. ASSUME NEW s \in Sockets, OnHandshake(s)
        PROVE  ProxyAhead'
    BY <1>8, SMTT(60) DEF OnHandshake, Incoming
  <1>9. ASSUME NEW s \in Sockets, OnReq(s)
        PROVE  ProxyAhead'
    <2>1. \A x \in Sockets \ {s} : Live(x) => owner[x] # owner[s]
      BY <1>9 DEF OnReq, Incoming
    <2>2. /\ Live(s) /\ cend' = cend /\ conn' = conn /\ owner' = owner /\ known' = known /\ proxy' = proxy
          /\ \A x \in Sockets \ {s} : toCli'[x] = toCli[x]
          /\ \A c \in Clis \ {owner[s]} : lastCtr'[c] = lastCtr[c]
      BY <1>9 DEF OnReq, Incoming
    <2>3. /\ toCli[s] # <<>> /\ toCli'[s] = Tail(toCli[s]) /\ Head(toCli[s]) = toCli[s][1]
          /\ 1 \in 1..Len(toCli[s])
      BY <1>9, Types, TailItems DEF OnReq, Incoming
    <2>4. Acceptable(s, Head(toCli[s]))
      BY <1>9, <2>2, <2>3 DEF OnReq, FramesInOrder, FramesAt
    <2>5. known'[owner[s]] /\ lastCtr'[owner[s]] = Head(toCli[s]).ctr
      BY <1>9, <2>2, <2>4, Types DEF OnReq, Acceptable
    <2>6. \A i \in 1..Len(toCli'[s]) : i + 1 \in 1..Len(toCli[s]) /\ toCli'[s][i] = toCli[s][i + 1]
      BY <2>3, Types, TailItems
    <2>7. Carries(s) /\ proxy.sock = s => Ahead(s)'
      BY <2>2, <2>3, <2>5, <2>6
    <2>8. ASSUME NEW x \in Sockets \ {s}, Carries(x)', proxy'.sock = x PROVE Ahead(x)'
      <3>1. owner[x] \in Clis \ {owner[s]} /\ Carries(x) /\ Ahead(x)
        BY <2>1, <2>2, <2>8, Types
      <3>2. QED
        BY <2>2, <2>8, <3>1
    <2>9. QED
      BY <2>2, <2>7, <2>8
  <1>10. ASSUME NEW s \in Sockets, Authenticated(s)
        PROVE  ProxyAhead'
    BY <1>10, SMTT(60) DEF Authenticated
  <1>11. ASSUME NEW s \in Sockets, Refused(s)
        PROVE  ProxyAhead'
    BY <1>11, SMTT(60) DEF Refused
  <1>12. ASSUME NEW s \in Sockets, ServerSeesClose(s)
        PROVE  ProxyAhead'
    BY <1>12, SMTT(60) DEF ServerSeesClose, ServerEndCloses, SlotAfterClose
  <1>13. ASSUME NEW s \in Sockets, ServerLosesSocket(s)
        PROVE  ProxyAhead'
    BY <1>13, SMTT(60) DEF ServerLosesSocket, ServerEndCloses, SlotAfterClose
  <1>14. ASSUME NEW s \in Sockets, ServerReceives(s)
        PROVE  ProxyAhead'
    BY <1>14, SMTT(60) DEF ServerReceives
  <1>15. ASSUME NEW r \in Requests, SendReq(r)
        PROVE  ProxyAhead'
    <2>0. PICK c \in Sockets : c = slotCli
      BY <1>15 DEF SendReq
    <2> DEFINE st == StateFor(c)
    <2>1. /\ c # NoSocket
          /\ toCli' = [toCli EXCEPT ![c] = IF Carries(c) THEN @ \o FramesFor(st, r) ELSE @]
          /\ proxy' = [sock |-> c, handshakeSent |-> TRUE, next |-> st.next + Len(FramesFor(st, r))]
      BY <1>15, <2>0 DEF SendReq
    <2>2. UNCHANGED <<phase, waiting, known, lastCtr, owner, cend, conn, slotCli>>
      BY <1>15 DEF SendReq
    <2> HIDE DEF st
    <2>3. ASSUME Carries(c), proxy.sock = c
          PROVE  /\ toCli'[c] = toCli[c] \o << [id |-> r, ctr |-> proxy.next] >>
                 /\ proxy'.next = proxy.next + 1
      <3>1. st = proxy /\ proxy.handshakeSent
        BY <2>1, <2>3 DEF ProxyFollows, StateFor, st
      <3>2. FramesFor(st, r) = << [id |-> r, ctr |-> proxy.next] >>
        BY <3>1 DEF FramesFor
      <3>3. QED
        BY <2>1, <2>3, <3>1, <3>2
    <2>4. ASSUME Carries(c), proxy.sock # c
          PROVE  /\ toCli'[c] = << [id |-> Handshake, ctr |-> 0], [id |-> r, ctr |-> 1] >>
                 /\ proxy'.next = 2
      <3>1. st = [sock |-> c, handshakeSent |-> FALSE, next |-> 0] /\ toCli[c] = <<>>
        BY <2>1, <2>4 DEF ProxyFollows, StateFor, st
      <3>2. FramesFor(st, r) = << [id |-> Handshake, ctr |-> 0], [id |-> r, ctr |-> 1] >>
        BY <3>1 DEF FramesFor
      <3>3. Len(FramesFor(st, r)) = 2
        BY <3>2
      <3>4. toCli'[c] = <<>> \o FramesFor(st, r) /\ proxy'.next = 0 + 2
        BY <2>1, <2>4, <3>1, <3>3
      <3>5. QED
        BY <3>2, <3>4
    <2>5. ASSUME Carries(c) => Ahead(c)' PROVE ProxyAhead'
      BY <2>1, <2>2, <2>5
    <2>6. CASE Carries(c) /\ proxy.sock = c
      <3> DEFINE f == [id |-> r, ctr |-> proxy.next]
      <3>1. proxy.next \in Nat /\ toCli[c] \in Seq(ReqFrame) /\ Ahead(c)
        BY <2>6, Types
      <3>2. \A i \in 1..Len(toCli[c]) + 1 : toCli'[c][i] = IF i \in 1..Len(toCli[c]) THEN toCli[c][i] ELSE f
        BY <2>3, <2>6, <3>1
      <3>3. Len(toCli'[c]) = Len(toCli[c]) + 1 /\ toCli'[c] # <<>> /\ f.ctr = proxy.next
        BY <2>3, <2>6, <3>1
      <3> HIDE DEF f
      <3>4. ASSUME NEW i \in 1..Len(toCli'[c]) PROVE toCli'[c][i].ctr < proxy.next + 1
        <4>1. Len(toCli[c]) \in Nat /\ i \in 1..Len(toCli[c]) + 1
          BY <3>1, <3>3
        <4>2. CASE i \in 1..Len(toCli[c])
          <5>1. toCli'[c][i] = toCli[c][i] /\ toCli[c][i].ctr < proxy.next
            BY <3>1, <3>2, <4>1, <4>2
          <5>2. toCli[c][i].ctr \in Nat
            <6>1. toCli[c][i] \in ReqFrame
              BY ONLY <3>1, <4>2, ElementOfSeq
            <6>2. QED
              BY <6>1 DEF ReqFrame
          <5>3. QED
            BY <3>1, <5>1, <5>2
        <4>3. CASE i \notin 1..Len(toCli[c])
          BY <3>1, <3>2, <3>3, <4>1, <4>3
        <4>4. QED
          BY <4>2, <4>3
      <3>5. proxy'.next = proxy.next + 1
        BY <2>3, <2>6
      <3>6. Ahead(c)'
        BY ONLY <3>3, <3>4, <3>5 DEF Ahead
      <3>7. QED
        BY <2>5, <3>6
    <2>7. CASE Carries(c) /\ proxy.sock # c
      <3>1. \A i \in 1..Len(toCli'[c]) : toCli'[c][i].ctr < 2
        <4>1. \A i \in 1..2 : << [id |-> Handshake, ctr |-> 0], [id |-> r, ctr |-> 1] >>[i].ctr < 2
          BY PairInOrder
        <4>2. Len(<< [id |-> Handshake, ctr |-> 0], [id |-> r, ctr |-> 1] >>) = 2
          BY PairInOrder
        <4>3. QED
          BY <2>4, <2>7, <4>1, <4>2
      <3>2. toCli'[c] # <<>>
        <4>1. << [id |-> Handshake, ctr |-> 0], [id |-> r, ctr |-> 1] >> # <<>>
          BY PairInOrder
        <4>2. QED
          BY <2>4, <2>7, <4>1
      <3>3. QED
        BY <2>4, <2>5, <2>7, <3>1, <3>2
    <2>8. CASE ~Carries(c)
      BY <2>5, <2>8
    <2>9. QED
      BY <2>6, <2>7, <2>8
  <1>16. ASSUME NEW r \in Requests, SendReqFails(r)
        PROVE  ProxyAhead'
    BY <1>16, SMTT(60) DEF SendReqFails
  <1>17. ASSUME NEW r \in Requests, Timeout(r)
        PROVE  ProxyAhead'
    BY <1>17, SMTT(60) DEF Timeout
  <1>18. ASSUME NEW o \in [sock : Sockets, id : Requests], OpDone(o)
        PROVE  ProxyAhead'
    BY <1>18, SMTT(60) DEF OpDone
  <1>19. CASE SessionExpires
    BY <1>19, SMTT(60) DEF SessionExpires
  <1>20. CASE Restart
    BY <1>20, SMTT(60) DEF Restart, NoState, Pending
  <1>21. CASE UNCHANGED vars
    BY <1>21, SMTT(60) DEF vars
  <1>22. QED
    BY <1>1, <1>2, <1>3, <1>4, <1>5, <1>6, <1>7, <1>8, <1>9, <1>10, <1>11, <1>12, <1>13, <1>14, <1>15, <1>16, <1>17, <1>18, <1>19, <1>20, <1>21
       DEF Next, CliNext, SocketNext, RequestNext

-----------------------------------------------------------------------------
(* Requests. *)

\* What a step has to leave of a request for its part of the invariant to
\* stand: its frames and answers only move forward in their queue or vanish.
LEMMA Quiet ==
    ASSUME NEW r \in Requests, RequestOK(r),
           NEW k \in [Sockets -> Nat], NEW m \in [Sockets -> Nat],
           \A x \in Sockets, i \in Nat : AskedAt(x, i, r)' => AskedAt(x, i + k[x], r),
           \A x \in Sockets, i \in Nat : AnsweredAt(x, i, r)' =>
              AnsweredAt(x, i + m[x], r) /\ toServer'[x][i] = toServer[x][i + m[x]],
           \A o \in ops' : o.id = r => o \in ops,
           runs'[r] = runs[r],
           outcome'[r] = outcome[r] \/ (Open(r) /\ outcome'[r] \in {"timeout", "disposed"})
    PROVE  RequestOK(r)'
  <1> USE DEF RequestOK
  <1>1. AskedOnce(r)'
    <2> SUFFICES ASSUME NEW s \in Sockets, NEW x \in Sockets,
                        NEW i \in Nat, NEW j \in Nat, AskedAt(s, i, r)', AskedAt(x, j, r)'
                 PROVE  s = x /\ i = j
      BY DEF AskedOnce
    <2>1. AskedAt(s, i + k[s], r) /\ AskedAt(x, j + k[x], r)
      OBVIOUS
    <2>2. i + k[s] \in Nat /\ j + k[x] \in Nat
      OBVIOUS
    <2>3. s = x /\ i + k[s] = j + k[x]
      BY <2>1, <2>2 DEF AskedOnce
    <2>4. QED
      BY <2>3
  <1>2. Unanswered(r) => Unanswered(r)'
    BY DEF Unanswered
  <1>3. Open(r) => Open(r)'
    BY DEF Open
  <1>4. AskedNotRun(r)'
    <2> SUFFICES ASSUME NEW s \in Sockets, NEW i \in Nat, AskedAt(s, i, r)'
                 PROVE  runs'[r] = 0 /\ Open(r)' /\ Unanswered(r)'
      BY DEF AskedNotRun
    <2>1. AskedAt(s, i + k[s], r) /\ i + k[s] \in Nat
      OBVIOUS
    <2>2. QED
      BY <2>1, <1>2, <1>3 DEF AskedNotRun
  <1>5. RunningOnce(r)'
    BY <1>2, <1>3 DEF RunningOnce
  <1>6. AnswerTells(r)'
    <2> SUFFICES ASSUME NEW s \in Sockets, NEW i \in Nat, AnsweredAt(s, i, r)'
                 PROVE  /\ runs'[r] = IF toServer'[s][i].ran THEN 1 ELSE 0
                        /\ outcome'[r] \notin {"idle", "noTunnel"}
      BY DEF AnswerTells
    <2>1. /\ AnsweredAt(s, i + m[s], r) /\ i + m[s] \in Nat
          /\ toServer'[s][i] = toServer[s][i + m[s]]
      OBVIOUS
    <2>2. QED
      BY <2>1 DEF AnswerTells, Open
  <1>7. OutcomeExact(r)'
    BY DEF OutcomeExact, Open
  <1>8. QED
    BY <1>1, <1>4, <1>5, <1>6, <1>7

Still == [x \in Sockets |-> 0]
Taken(s) == [x \in Sockets |-> IF x = s THEN 1 ELSE 0]

\* The steps that answer nobody and run nothing.
Drops ==
    /\ \A x \in Sockets : toCli'[x] \in {toCli[x], <<>>}
    /\ \A x \in Sockets : toServer'[x] \in {toServer[x], <<>>}
    /\ ops' \subseteq ops
    /\ runs' = runs
    /\ \A r \in Requests : \/ outcome'[r] = outcome[r]
                           \/ Open(r) /\ outcome'[r] \in {"timeout", "disposed"}

LEMMA DroppedAsked ==
    ASSUME NEW x \in Sockets, toCli'[x] \in {toCli[x], <<>>}, NEW r \in Requests, NEW i \in Nat,
           AskedAt(x, i, r)'
    PROVE  AskedAt(x, i + Still[x], r)
  <1>1. i + Still[x] = i /\ i \in 1..Len(toCli'[x]) /\ toCli'[x][i].id = r
    BY DEF AskedAt, Still
  <1>2. toCli'[x] # <<>>
    BY <1>1
  <1>3. QED
    BY <1>1, <1>2 DEF AskedAt

LEMMA DroppedAnswers ==
    ASSUME NEW x \in Sockets, toServer'[x] \in {toServer[x], <<>>}, NEW r \in Requests, NEW i \in Nat,
           AnsweredAt(x, i, r)'
    PROVE  AnsweredAt(x, i + Still[x], r) /\ toServer'[x][i] = toServer[x][i + Still[x]]
  <1>1. i + Still[x] = i /\ i \in 1..Len(toServer'[x]) /\ toServer'[x][i].id = r
    BY DEF AnsweredAt, Still
  <1>2. toServer'[x] # <<>>
    BY <1>1
  <1>3. QED
    BY <1>1, <1>2 DEF AnsweredAt

LEMMA DropsKeep == RequestInv /\ Drops => RequestInv'
  <1> SUFFICES ASSUME RequestInv, Drops, NEW r \in Requests PROVE RequestOK(r)'
    BY DEF RequestInv
  <1>1. Still \in [Sockets -> Nat]
    BY DEF Still
  <1>2. \A x \in Sockets, i \in Nat : AskedAt(x, i, r)' => AskedAt(x, i + Still[x], r)
    BY DroppedAsked DEF Drops
  <1>3. \A x \in Sockets, i \in Nat : AnsweredAt(x, i, r)' =>
           AnsweredAt(x, i + Still[x], r) /\ toServer'[x][i] = toServer[x][i + Still[x]]
    BY DroppedAnswers DEF Drops
  <1>4. /\ \A o \in ops' : o.id = r => o \in ops
        /\ runs'[r] = runs[r]
        /\ outcome'[r] = outcome[r] \/ (Open(r) /\ outcome'[r] \in {"timeout", "disposed"})
    BY DEF Drops
  <1>5. RequestOK(r)
    BY DEF RequestInv
  <1>6. QED
    BY <1>1, <1>2, <1>3, <1>4, <1>5, Quiet

\* The first frame of a queue is taken.
LEMMA TakenAsked ==
    ASSUME TypeOK, NEW s \in Sockets, Incoming(s), NEW r \in Requests
    PROVE  /\ \A x \in Sockets, i \in Nat :
                 AskedAt(x, i, r)' => AskedAt(x, i + Taken(s)[x], r) /\ i + Taken(s)[x] > 0
           /\ Head(toCli[s]).id = r => AskedAt(s, 1, r)
           /\ \A i \in Nat : AskedAt(s, i, r)' => i > 0
  <1>1. /\ toCli[s] \in Seq(ReqFrame) /\ toCli[s] # <<>> /\ toCli'[s] = Tail(toCli[s])
        /\ \A x \in Sockets \ {s} : toCli'[x] = toCli[x]
    BY Types DEF Incoming, TypeOK
  <1>2. /\ Head(toCli[s]) = toCli[s][1] /\ 1 \in 1..Len(toCli[s])
        /\ Len(toCli'[s]) = Len(toCli[s]) - 1
        /\ \A i \in 1..Len(toCli'[s]) : i + 1 \in 1..Len(toCli[s]) /\ toCli'[s][i] = toCli[s][i + 1]
    BY <1>1, TailItems
  <1>3. Taken(s)[s] = 1 /\ \A x \in Sockets \ {s} : Taken(s)[x] = 0
    BY DEF Taken
  <1>4. \A i \in Nat : AskedAt(s, i, r)' => AskedAt(s, i + 1, r) /\ i > 0
    BY <1>2 DEF AskedAt
  <1>5. ASSUME NEW x \in Sockets \ {s}, NEW i \in Nat, AskedAt(x, i, r)'
        PROVE  AskedAt(x, i, r) /\ i > 0 /\ i + 0 = i
    BY <1>1, <1>5 DEF AskedAt
  <1>6. Head(toCli[s]).id = r => AskedAt(s, 1, r)
    BY <1>2 DEF AskedAt
  <1>7. QED
    BY <1>3, <1>4, <1>5, <1>6

LEMMA TakenAnswers ==
    ASSUME TypeOK, NEW s \in Sockets, toServer[s] # <<>>,
           toServer' = [toServer EXCEPT ![s] = Tail(toServer[s])], NEW r \in Requests
    PROVE  /\ \A x \in Sockets, i \in Nat : AnsweredAt(x, i, r)' =>
                 /\ AnsweredAt(x, i + Taken(s)[x], r)
                 /\ toServer'[x][i] = toServer[x][i + Taken(s)[x]]
           /\ Head(toServer[s]).id = r => AnsweredAt(s, 1, r)
           /\ Head(toServer[s]) = toServer[s][1]
  <1>1. /\ toServer[s] \in Seq(AnswerFrame) /\ toServer[s] # <<>> /\ toServer'[s] = Tail(toServer[s])
        /\ \A x \in Sockets \ {s} : toServer'[x] = toServer[x]
    BY Types DEF TypeOK
  <1>2. /\ Head(toServer[s]) = toServer[s][1] /\ 1 \in 1..Len(toServer[s])
        /\ Len(toServer'[s]) = Len(toServer[s]) - 1
        /\ \A i \in 1..Len(toServer'[s]) :
              i + 1 \in 1..Len(toServer[s]) /\ toServer'[s][i] = toServer[s][i + 1]
    <2>1. /\ Head(toServer[s]) = toServer[s][1] /\ 1 \in 1..Len(toServer[s])
          /\ Len(Tail(toServer[s])) = Len(toServer[s]) - 1
          /\ \A i \in 1..Len(Tail(toServer[s])) :
                i + 1 \in 1..Len(toServer[s]) /\ Tail(toServer[s])[i] = toServer[s][i + 1]
      BY ONLY <1>1, TailItems
    <2>2. QED
      BY <1>1, <2>1
  <1>3. Taken(s)[s] = 1 /\ \A x \in Sockets \ {s} : Taken(s)[x] = 0
    BY DEF Taken
  <1>4. \A i \in Nat : AnsweredAt(s, i, r)' => AnsweredAt(s, i + 1, r) /\ toServer'[s][i] = toServer[s][i + 1]
    BY <1>2 DEF AnsweredAt
  <1>5. ASSUME NEW x \in Sockets \ {s}, NEW i \in Nat, AnsweredAt(x, i, r)'
        PROVE  AnsweredAt(x, i, r) /\ toServer'[x][i] = toServer[x][i] /\ i + 0 = i
    BY <1>1, <1>5 DEF AnsweredAt
  <1>6. Head(toServer[s]).id = r => AnsweredAt(s, 1, r)
    BY <1>2 DEF AnsweredAt
  <1>7. ASSUME NEW x \in Sockets, NEW i \in Nat, AnsweredAt(x, i, r)'
        PROVE  AnsweredAt(x, i + Taken(s)[x], r) /\ toServer'[x][i] = toServer[x][i + Taken(s)[x]]
    <2>1. CASE x = s
      BY <1>3, <1>4, <1>7, <2>1
    <2>2. CASE x # s
      BY <1>3, <1>5, <1>7, <2>2
    <2>3. QED
      BY <2>1, <2>2
  <1>8. QED
    BY <1>2, <1>6, <1>7

\* An answer is put at the end of a queue, or lost.
LEMMA SentAnswers ==
    ASSUME TypeOK, NEW s \in Sockets, NEW f \in AnswerFrame, toServer' = Sent(s, f),
           NEW x \in Sockets, NEW i \in Nat, NEW r \in Requests, AnsweredAt(x, i, r)'
    PROVE  \/ AnsweredAt(x, i + Still[x], r) /\ toServer'[x][i] = toServer[x][i + Still[x]]
           \/ f.id = r /\ toServer'[x][i] = f
  <1>1. i + Still[x] = i
    BY DEF Still
  <1>2. toServer'[x] = toServer[x] \/ toServer'[x] = Append(toServer[x], f)
    BY DEF Sent, TypeOK
  <1>3. CASE toServer'[x] = toServer[x]
    BY <1>1, <1>3 DEF AnsweredAt
  <1>4. CASE toServer'[x] = Append(toServer[x], f)
    <2>1. toServer[x] \in Seq(AnswerFrame) /\ i \in 1..Len(toServer[x]) + 1
      BY <1>4, Types, AppendProperties DEF AnsweredAt
    <2>2. toServer'[x][i] = IF i \in 1..Len(toServer[x]) THEN toServer[x][i] ELSE f
      BY <1>4, <2>1, AppendProperties
    <2>3. toServer'[x][i].id = r
      BY DEF AnsweredAt
    <2>4. QED
      BY <1>1, <2>1, <2>2, <2>3 DEF AnsweredAt
  <1>5. QED
    BY <1>2, <1>3, <1>4

\* The two ways a queue moves.
LEMMA Shifts ==
    /\ Still \in [Sockets -> Nat]
    /\ \A s \in Sockets : Taken(s) \in [Sockets -> Nat]
    /\ \A x \in Sockets, i \in Nat : i + Still[x] \in Nat
    /\ \A s, x \in Sockets, i \in Nat : i + Taken(s)[x] \in Nat
  BY DEF Still, Taken

LEMMA SameAsked ==
    ASSUME toCli' = toCli, NEW r \in Requests
    PROVE  \A x \in Sockets, i \in Nat : AskedAt(x, i, r)' => AskedAt(x, i + Still[x], r)
  BY DroppedAsked

LEMMA SameAnswers ==
    ASSUME toServer' = toServer, NEW r \in Requests
    PROVE  \A x \in Sockets, i \in Nat : AnsweredAt(x, i, r)' =>
              AnsweredAt(x, i + Still[x], r) /\ toServer'[x][i] = toServer[x][i + Still[x]]
  BY DroppedAnswers

\* A request not sent yet has left no trace.
IdleNowhere(r) ==
    /\ \A x \in Sockets, i \in Nat : ~AskedAt(x, i, r)
    /\ Unanswered(r)
    /\ \A o \in ops : o.id # r
    /\ runs[r] = 0

LEMMA IdleIsNowhere ==
    ASSUME NEW r \in Requests, RequestOK(r), outcome[r] = "idle"
    PROVE  IdleNowhere(r)
  <1>1. ~Open(r) /\ runs[r] = 0
    BY DEF RequestOK, OutcomeExact, Open
  <1>2. /\ \A x \in Sockets, i \in Nat : ~AskedAt(x, i, r)
        /\ \A o \in ops : o.id # r
    BY <1>1 DEF RequestOK, AskedNotRun, RunningOnce
  <1>3. \A x \in Sockets, i \in Nat : ~AnsweredAt(x, i, r)
    BY DEF RequestOK, AnswerTells
  <1>4. QED
    BY <1>1, <1>2, <1>3 DEF IdleNowhere, Unanswered

\* `sendReq' asks for one request, in the last of its frames.
LEMMA SentAsked ==
    ASSUME TypeOK, NEW r \in Requests, SendReq(r),
           NEW q \in Requests, NEW x \in Sockets, NEW i \in Nat, AskedAt(x, i, q)'
    PROVE  \/ AskedAt(x, i + Still[x], q)
           \/ q = r /\ x = slotCli /\ i = Len(toCli'[slotCli])
  <1>1. i + Still[x] = i
    BY DEF Still
  <1>2. CASE toCli'[x] = toCli[x]
    BY <1>1, <1>2 DEF AskedAt
  <1>3. CASE toCli'[x] # toCli[x]
    <2> DEFINE frames == FramesFor(StateFor(x), r)
               n == Len(toCli[x])
    <2>1. x = slotCli /\ toCli'[x] = toCli[x] \o frames
      BY <1>3 DEF SendReq, TypeOK
    <2>2. /\ toCli[x] \in Seq(ReqFrame) /\ frames \in Seq(ReqFrame) /\ n \in Nat
          /\ Len(frames) \in 1..2
      BY Types, FramesType
    <2>3. frames[Len(frames)].id = r /\ (Len(frames) = 2 => frames[1].id = Handshake)
      BY DEF FramesFor
    <2> HIDE DEF frames
    <2>4. /\ Len(toCli'[x]) = n + Len(frames)
          /\ \A j \in 1..(n + Len(frames)) :
                toCli'[x][j] = IF j <= n THEN toCli[x][j] ELSE frames[j - n]
      BY <2>1, <2>2, ConcatProperties
    <2>5. i \in 1..(n + Len(frames)) /\ toCli'[x][i].id = q
      BY <2>4 DEF AskedAt
    <2> HIDE DEF n
    <2>6. CASE i <= n
      BY <1>1, <2>2, <2>4, <2>5, <2>6 DEF AskedAt, n
    <2>7. CASE i > n
      <3>1. i - n \in 1..Len(frames) /\ frames[i - n].id = q
        <4>1. i - n \in 1..Len(frames) /\ ~(i <= n)
          BY <2>2, <2>5, <2>7
        <4>2. toCli'[x][i] = frames[i - n]
          BY <2>4, <2>5, <4>1
        <4>3. QED
          BY <2>5, <4>1, <4>2
      <3>2. i - n = Len(frames)
        BY <2>2, <2>3, <3>1, SessionAssumption
      <3>3. QED
        BY <2>1, <2>2, <2>3, <2>4, <3>1, <3>2
    <2>8. QED
      BY <2>2, <2>5, <2>6, <2>7
  <1>4. QED
    BY <1>2, <1>3

\* `handleReq': the request was in the frame that is taken, so it is nowhere
\* else, and either runs or is refused.
LEMMA HandleKeeps ==
    ASSUME TypeOK, NEW s \in Sockets, NEW r \in Requests, RequestOK(r),
           Handle(s, r), AskedAt(s, 1, r), outcome' = outcome,
           \A x \in Sockets, i \in Nat :
              AskedAt(x, i, r)' => AskedAt(x, i + Taken(s)[x], r) /\ i + Taken(s)[x] > 0,
           \A i \in Nat : AskedAt(s, i, r)' => i > 0
    PROVE  RequestOK(r)'
  <1>1. runs[r] = 0 /\ Open(r) /\ Unanswered(r) /\ \A o \in ops : o.id # r
    BY DEF RequestOK, AskedNotRun, RunningOnce
  <1>2. \A x \in Sockets, i \in Nat : ~AskedAt(x, i, r)'
    <2> SUFFICES ASSUME NEW x \in Sockets, NEW i \in Nat, AskedAt(x, i, r)' PROVE FALSE
      OBVIOUS
    <2>1. AskedAt(x, i + Taken(s)[x], r) /\ i + Taken(s)[x] \in Nat
      BY Shifts
    <2>2. x = s /\ i + Taken(s)[x] = 1
      BY <2>1 DEF RequestOK, AskedOnce
    <2>3. i > 0 /\ Taken(s)[x] = 1
      BY <2>2 DEF Taken
    <2>4. QED
      BY <2>2, <2>3
  <1>3. Open(r)'
    BY <1>1 DEF Open
  <1>4. CASE /\ ops' = ops \cup {[sock |-> s, id |-> r]}
             /\ runs' = [runs EXCEPT ![r] = @ + 1] /\ toServer' = toServer
    <2>1. runs'[r] = 1
      BY <1>1, <1>4 DEF TypeOK
    <2>2. Unanswered(r)'
      BY <1>1, <1>4 DEF Unanswered, AnsweredAt
    <2>3. RunningOnce(r)'
      BY <1>1, <1>3, <1>4, <2>1, <2>2 DEF RunningOnce
    <2>4. QED
      BY <1>2, <1>3, <2>1, <2>2, <2>3
         DEF RequestOK, AskedOnce, AskedNotRun, AnswerTells, OutcomeExact, Unanswered, Open
  <1>5. CASE /\ ops' = ops /\ runs' = runs
             /\ toServer' = Sent(s, [id |-> r, ran |-> FALSE])
    <2> DEFINE f == [id |-> r, ran |-> FALSE]
    <2>1. f \in AnswerFrame /\ f.ran = FALSE
      BY DEF AnswerFrame, Ids
    <2> HIDE DEF f
    <2>2. \A x \in Sockets, i \in Nat : AnsweredAt(x, i, r)' => toServer'[x][i] = f
      <3>1. toServer' = Sent(s, f)
        BY <1>5 DEF f
      <3>2. \A x \in Sockets, i \in Nat :
               AnsweredAt(x, i, r)' => AnsweredAt(x, i + Still[x], r) \/ toServer'[x][i] = f
        BY <2>1, <3>1, SentAnswers
      <3>3. QED
        BY <1>1, <3>2, Shifts DEF Unanswered
    <2>3. QED
      BY <1>1, <1>2, <1>3, <1>5, <2>1, <2>2
         DEF RequestOK, AskedOnce, AskedNotRun, RunningOnce, AnswerTells, OutcomeExact, Open
  <1>6. QED
    BY <1>4, <1>5 DEF Handle

\* A request goes from one place to the next and is never in two of them.
LEMMA RequestStep == TypeOK /\ RequestInv /\ [Next]_vars => RequestInv'
  <1> SUFFICES ASSUME TypeOK, RequestInv, [Next]_vars PROVE RequestInv'
    OBVIOUS
  <1> USE SessionAssumption DEF cliVars, wireVars, slotVars, proxyVars
  <1>1. ASSUME NEW p \in Clis, NEW s \in Sockets, Connect(p, s)
        PROVE  RequestInv'
    <2>1. Drops
      BY <1>1 DEF Connect, Fresh, ForgetPeers, ForgetSocket, BackoffAfterNap, Doubled, Greeting, NoState, MayDial, Drops, Open
    <2>2. QED
      BY <2>1, DropsKeep
  <1>2. ASSUME NEW p \in Clis, ConnectFails(p)
        PROVE  RequestInv'
    <2>1. Drops
      BY <1>2 DEF ConnectFails, ForgetPeers, BackoffAfterNap, Doubled, MayDial, Drops, Open
    <2>2. QED
      BY <2>1, DropsKeep
  <1>3. ASSUME NEW p \in Clis, Stop(p)
        PROVE  RequestInv'
    <2>1. Drops
      BY <1>3 DEF Stop, Drops, Open
    <2>2. QED
      BY <2>1, DropsKeep
  <1>4. ASSUME NEW p \in Clis, Exit(p)
        PROVE  RequestInv'
    <2>1. Drops
      BY <1>4 DEF Exit, Drops, Open
    <2>2. QED
      BY <2>1, DropsKeep
  <1>5. ASSUME NEW s \in Sockets, CliSeesClose(s)
        PROVE  RequestInv'
    <2>1. Drops
      BY <1>5 DEF CliSeesClose, CliEndCloses, LeaveWait, Drops, Open
    <2>2. QED
      BY <2>1, DropsKeep
  <1>6. ASSUME NEW s \in Sockets, CliLosesSocket(s)
        PROVE  RequestInv'
    <2>1. Drops
      BY <1>6 DEF CliLosesSocket, CliEndCloses, LeaveWait, Drops, Open
    <2>2. QED
      BY <2>1, DropsKeep
  <1>7. ASSUME NEW s \in Sockets, CliSocketErrs(s)
        PROVE  RequestInv'
    <2>1. Drops
      BY <1>7 DEF CliSocketErrs, LeaveWait, Drops, Open
    <2>2. QED
      BY <2>1, DropsKeep
  <1>8. ASSUME NEW s \in Sockets, OnHandshake(s)
        PROVE  RequestInv'
    <2>1. /\ Incoming(s) /\ ops' = ops /\ runs' = runs /\ outcome' = outcome
      BY <1>8 DEF OnHandshake, Incoming
    <2>2. PICK f \in AnswerFrame : toServer' = Sent(s, f) /\ f.id = Handshake
      <3>1. [id |-> Handshake, ran |-> FALSE] \in AnswerFrame
        BY DEF AnswerFrame, Ids
      <3>2. QED
        BY <1>8, <3>1 DEF OnHandshake
    <2>3. SUFFICES ASSUME NEW r \in Requests PROVE RequestOK(r)'
      BY DEF RequestInv
    <2>4. \A x \in Sockets, i \in Nat : AskedAt(x, i, r)' => AskedAt(x, i + Taken(s)[x], r)
      BY <2>1, TakenAsked
    <2>5. \A x \in Sockets, i \in Nat : AnsweredAt(x, i, r)' =>
             AnsweredAt(x, i + Still[x], r) /\ toServer'[x][i] = toServer[x][i + Still[x]]
      BY <2>1, <2>2, SentAnswers
    <2>6. QED
      BY <2>1, <2>4, <2>5, Shifts, Quiet DEF RequestInv
  <1>9. ASSUME NEW s \in Sockets, OnReq(s)
        PROVE  RequestInv'
    <2> DEFINE f == Head(toCli[s])
    <2>1. Incoming(s) /\ outcome' = outcome /\ f.id \in Requests /\ toCli[s] # <<>>
      BY <1>9, IncomingType DEF OnReq, Incoming, ReqFrame, Ids
    <2>2. \/ ops' = ops /\ runs' = runs /\ toServer' = toServer
          \/ Handle(s, f.id)
      BY <1>9 DEF OnReq
    <2> HIDE DEF f
    <2>3. SUFFICES ASSUME NEW r \in Requests PROVE RequestOK(r)'
      BY DEF RequestInv
    <2>4. RequestOK(r)
      BY DEF RequestInv
    <2>5. /\ \A x \in Sockets, i \in Nat :
                AskedAt(x, i, r)' => AskedAt(x, i + Taken(s)[x], r) /\ i + Taken(s)[x] > 0
          /\ f.id = r => AskedAt(s, 1, r)
          /\ \A i \in Nat : AskedAt(s, i, r)' => i > 0
      BY <2>1, TakenAsked DEF f
    <2>6. CASE ops' = ops /\ runs' = runs /\ toServer' = toServer
      BY <2>1, <2>4, <2>5, <2>6, Shifts, SameAnswers, Quiet
    <2>7. CASE Handle(s, f.id) /\ f.id # r
      <3>1. \A x \in Sockets, i \in Nat : AnsweredAt(x, i, r)' =>
               AnsweredAt(x, i + Still[x], r) /\ toServer'[x][i] = toServer[x][i + Still[x]]
        <4>1. CASE toServer' = toServer
          BY <4>1, SameAnswers
        <4>2. CASE toServer' = Sent(s, [id |-> f.id, ran |-> FALSE])
          <5>1. PICK g \in AnswerFrame : toServer' = Sent(s, g) /\ g.id = f.id
            <6>1. [id |-> f.id, ran |-> FALSE] \in AnswerFrame
              BY <2>1 DEF AnswerFrame, Ids
            <6>2. QED
              BY <4>2, <6>1
          <5>2. QED
            BY <2>7, <5>1, SentAnswers
        <4>3. QED
          BY <2>7, <4>1, <4>2 DEF Handle
      <3>2. (\A o \in ops' : o.id = r => o \in ops) /\ runs'[r] = runs[r]
        BY <2>1, <2>7 DEF Handle, TypeOK
      <3>3. QED
        BY <2>1, <2>4, <2>5, <3>1, <3>2, Shifts, Quiet
    <2>8. CASE Handle(s, f.id) /\ f.id = r
      BY <2>1, <2>4, <2>5, <2>8, HandleKeeps
    <2>9. QED
      BY <2>2, <2>6, <2>7, <2>8
  <1>10. ASSUME NEW s \in Sockets, Authenticated(s)
        PROVE  RequestInv'
    <2>1. Drops
      BY <1>10 DEF Authenticated, Drops, Open
    <2>2. QED
      BY <2>1, DropsKeep
  <1>11. ASSUME NEW s \in Sockets, Refused(s)
        PROVE  RequestInv'
    <2>1. Drops
      BY <1>11 DEF Refused, Drops, Open
    <2>2. QED
      BY <2>1, DropsKeep
  <1>12. ASSUME NEW s \in Sockets, ServerSeesClose(s)
        PROVE  RequestInv'
    <2>1. Drops
      BY <1>12 DEF ServerSeesClose, ServerEndCloses, SlotAfterClose, Drops, Open
    <2>2. QED
      BY <2>1, DropsKeep
  <1>13. ASSUME NEW s \in Sockets, ServerLosesSocket(s)
        PROVE  RequestInv'
    <2>1. Drops
      BY <1>13 DEF ServerLosesSocket, ServerEndCloses, SlotAfterClose, Drops, Open
    <2>2. QED
      BY <2>1, DropsKeep
  <1>14. ASSUME NEW s \in Sockets, ServerReceives(s)
        PROVE  RequestInv'
    <2> DEFINE f == Head(toServer[s])
    <2>1. /\ toServer[s] # <<>> /\ toServer' = [toServer EXCEPT ![s] = Tail(toServer[s])]
          /\ toCli' = toCli /\ ops' = ops /\ runs' = runs
      BY <1>14 DEF ServerReceives
    <2>2. outcome' = outcome \/ (f.id \in Pending /\ outcome' = Settle(f))
      BY <1>14 DEF ServerReceives, Settle
    <2>3. SUFFICES ASSUME NEW r \in Requests PROVE RequestOK(r)'
      BY DEF RequestInv
    <2>4. RequestOK(r) /\ \A x \in Sockets, i \in Nat : AskedAt(x, i, r)' => AskedAt(x, i + Still[x], r)
      BY <2>1, SameAsked DEF RequestInv
    <2>5. /\ \A x \in Sockets, i \in Nat : AnsweredAt(x, i, r)' =>
                /\ AnsweredAt(x, i + Taken(s)[x], r)
                /\ toServer'[x][i] = toServer[x][i + Taken(s)[x]]
          /\ f.id = r => AnsweredAt(s, 1, r)
          /\ f = toServer[s][1]
      BY <2>1, TakenAnswers
    <2> HIDE DEF f
    <2>6. CASE outcome'[r] = outcome[r]
      BY <2>1, <2>4, <2>5, <2>6, Shifts, Quiet
    <2>7. CASE outcome'[r] # outcome[r]
      <3>1. f.id = r /\ outcome'[r] = IF f.ran THEN "answered" ELSE "limited"
        BY <2>2, <2>7 DEF Settle, Pending, TypeOK
      <3>2. AnsweredAt(s, 1, r) /\ runs[r] = IF f.ran THEN 1 ELSE 0
        BY <2>4, <2>5, <3>1 DEF RequestOK, AnswerTells
      <3>3. ~Unanswered(r)
        BY <3>2 DEF Unanswered
      <3>4. /\ \A x \in Sockets, i \in Nat : ~AskedAt(x, i, r)'
            /\ \A o \in ops' : o.id # r
        <4>1. \A x \in Sockets : Still[x] \in Nat
          BY DEF Still
        <4>2. QED
          BY <2>1, <2>4, <3>3, <4>1 DEF RequestOK, AskedNotRun, RunningOnce
      <3>5. AskedOnce(r)' /\ AskedNotRun(r)' /\ RunningOnce(r)'
        BY <3>4 DEF AskedOnce, AskedNotRun, RunningOnce
      <3>6. AnswerTells(r)'
        <4>1. \A x \in Sockets, i \in Nat : i + Taken(s)[x] \in Nat
          BY Shifts
        <4>2. QED
          <5>1. ASSUME NEW x \in Sockets, NEW i \in Nat, AnsweredAt(x, i, r)'
                PROVE  runs[r] = IF toServer'[x][i].ran THEN 1 ELSE 0
            BY <2>4, <2>5, <4>1, <5>1 DEF RequestOK, AnswerTells
          <5>2. runs'[r] = runs[r] /\ outcome'[r] \notin {"idle", "noTunnel"}
            BY <2>1, <3>1
          <5>3. QED
            BY <5>1, <5>2 DEF AnswerTells
      <3>7. OutcomeExact(r)'
        BY <2>1, <3>1, <3>2 DEF OutcomeExact
      <3>8. QED
        BY <3>5, <3>6, <3>7 DEF RequestOK
    <2>8. QED
      BY <2>6, <2>7
  <1>15. ASSUME NEW r \in Requests, SendReq(r)
        PROVE  RequestInv'
    <2>1. /\ outcome[r] = "idle" /\ outcome' = [outcome EXCEPT ![r] = "pending"]
          /\ ops' = ops /\ runs' = runs /\ toServer' = toServer
      BY <1>15 DEF SendReq
    <2>2. \A q \in Requests, x \in Sockets, i \in Nat : AskedAt(x, i, q)' =>
             \/ AskedAt(x, i + Still[x], q)
             \/ q = r /\ x = slotCli /\ i = Len(toCli'[slotCli])
      BY <1>15, SentAsked
    <2>3. SUFFICES ASSUME NEW q \in Requests PROVE RequestOK(q)'
      BY DEF RequestInv
    <2>4. RequestOK(q)
      BY DEF RequestInv
    <2>5. CASE q # r
      <3>1. outcome'[q] = outcome[q]
        BY <2>1, <2>5 DEF TypeOK
      <3>2. QED
        BY <2>1, <2>2, <2>4, <2>5, <3>1, Shifts, SameAnswers, Quiet
    <2>6. CASE q = r
      <3>1. IdleNowhere(q)
        BY <2>1, <2>4, <2>6, IdleIsNowhere
      <3>2. \A x \in Sockets, i \in Nat : AskedAt(x, i, q)' => x = slotCli /\ i = Len(toCli'[slotCli])
        BY <2>2, <3>1, Shifts DEF IdleNowhere
      <3>3. Unanswered(q)' /\ Open(q)' /\ runs'[q] = 0 /\ outcome'[q] = "pending"
        BY <2>1, <2>6, <3>1 DEF IdleNowhere, Unanswered, AnsweredAt, Open, TypeOK
      <3>4. AskedOnce(q)' /\ AskedNotRun(q)'
        BY <3>2, <3>3 DEF AskedOnce, AskedNotRun
      <3>5. RunningOnce(q)' /\ AnswerTells(q)' /\ OutcomeExact(q)'
        BY <2>1, <3>1, <3>3 DEF IdleNowhere, Unanswered, RunningOnce, AnswerTells, OutcomeExact
      <3>6. QED
        BY <3>4, <3>5 DEF RequestOK
    <2>7. QED
      BY <2>5, <2>6
  <1>16. ASSUME NEW r \in Requests, SendReqFails(r)
        PROVE  RequestInv'
    <2>1. /\ outcome[r] = "idle" /\ outcome' = [outcome EXCEPT ![r] = "noTunnel"]
          /\ ops' = ops /\ runs' = runs /\ toServer' = toServer /\ toCli' = toCli
      BY <1>16 DEF SendReqFails
    <2>2. SUFFICES ASSUME NEW q \in Requests PROVE RequestOK(q)'
      BY DEF RequestInv
    <2>3. RequestOK(q)
      BY DEF RequestInv
    <2>4. CASE q # r
      <3>1. outcome'[q] = outcome[q]
        BY <2>1, <2>4 DEF TypeOK
      <3>2. QED
        BY <2>1, <2>3, <3>1, Shifts, SameAsked, SameAnswers, Quiet
    <2>5. CASE q = r
      <3>1. IdleNowhere(q)
        BY <2>1, <2>3, <2>5, IdleIsNowhere
      <3>2. /\ \A x \in Sockets, i \in Nat : ~AskedAt(x, i, q)' /\ ~AnsweredAt(x, i, q)'
            /\ runs'[q] = 0 /\ outcome'[q] = "noTunnel" /\ \A o \in ops' : o.id # q
        BY <2>1, <2>5, <3>1 DEF IdleNowhere, Unanswered, AskedAt, AnsweredAt, TypeOK
      <3>3. QED
        BY <3>2 DEF RequestOK, AskedOnce, AskedNotRun, RunningOnce, AnswerTells, OutcomeExact
    <2>6. QED
      BY <2>4, <2>5
  <1>17. ASSUME NEW r \in Requests, Timeout(r)
        PROVE  RequestInv'
    <2>1. Drops
      BY <1>17 DEF Timeout, Drops, Open
    <2>2. QED
      BY <2>1, DropsKeep
  <1>18. ASSUME NEW o \in [sock : Sockets, id : Requests], OpDone(o)
        PROVE  RequestInv'
    <2> DEFINE f == [id |-> o.id, ran |-> TRUE]
    <2>1. /\ o \in ops /\ ops' = ops \ {o} /\ toServer' = Sent(o.sock, f)
          /\ toCli' = toCli /\ runs' = runs /\ outcome' = outcome
      BY <1>18 DEF OpDone
    <2>2. f \in AnswerFrame /\ f.id = o.id /\ f.ran
      BY DEF AnswerFrame, Ids
    <2> HIDE DEF f
    <2>3. SUFFICES ASSUME NEW r \in Requests PROVE RequestOK(r)'
      BY DEF RequestInv
    <2>4. RequestOK(r)
      BY DEF RequestInv
    <2>5. \A x \in Sockets, i \in Nat : AnsweredAt(x, i, r)' =>
             \/ AnsweredAt(x, i + Still[x], r) /\ toServer'[x][i] = toServer[x][i + Still[x]]
             \/ f.id = r /\ toServer'[x][i] = f
      BY <2>1, <2>2, SentAnswers
    <2>6. CASE o.id # r
      BY <2>1, <2>2, <2>4, <2>5, <2>6, Shifts, SameAsked, Quiet
    <2>7. CASE o.id = r
      <3>1. runs[r] = 1 /\ Open(r) /\ Unanswered(r) /\ \A q \in ops' : q.id # r
        BY <2>1, <2>4, <2>7 DEF RequestOK, RunningOnce
      <3>2. \A x \in Sockets, i \in Nat : ~AskedAt(x, i, r)'
        BY <2>1, <2>4, <3>1 DEF RequestOK, AskedNotRun, AskedAt
      <3>3. \A x \in Sockets, i \in Nat : AnsweredAt(x, i, r)' => toServer'[x][i] = f
        BY <2>5, <3>1, Shifts DEF Unanswered
      <3>4. QED
        BY <2>1, <2>2, <3>1, <3>2, <3>3
           DEF RequestOK, AskedOnce, AskedNotRun, RunningOnce, AnswerTells, OutcomeExact, Open
    <2>8. QED
      BY <2>6, <2>7
  <1>19. CASE SessionExpires
    <2>1. Drops
      BY <1>19 DEF SessionExpires, Drops, Open
    <2>2. QED
      BY <2>1, DropsKeep
  <1>20. CASE Restart
    <2>1. Drops
      BY <1>20 DEF Restart, NoState, Pending, Drops, Open
    <2>2. QED
      BY <2>1, DropsKeep
  <1>21. CASE UNCHANGED vars
    <2>1. Drops
      BY <1>21 DEF vars, Drops, Open
    <2>2. QED
      BY <2>1, DropsKeep
  <1>22. QED
    BY <1>1, <1>2, <1>3, <1>4, <1>5, <1>6, <1>7, <1>8, <1>9, <1>10, <1>11, <1>12, <1>13, <1>14, <1>15, <1>16, <1>17, <1>18, <1>19, <1>20, <1>21
       DEF Next, CliNext, SocketNext, RequestNext

-----------------------------------------------------------------------------
(* The invariant. *)

LEMMA InvInit == Init => IInv
  <1> SUFFICES ASSUME Init PROVE IInv
    OBVIOUS
  <1>1. TypeOK
    BY TypeInit
  <1>2. FrameInv
    BY DEF Init, NoState, FrameInv, OneLive, Live, SlotAttached, SilentBefore, ProxyFollows,
           Carries, FramesInOrder, ProxyAhead
  <1>3. RequestInv
    <2> SUFFICES ASSUME NEW r \in Requests PROVE RequestOK(r)
      BY DEF RequestInv
    <2>1. \A x \in Sockets, i \in Nat : ~AskedAt(x, i, r) /\ ~AnsweredAt(x, i, r)
      BY EmptySeq DEF Init, AskedAt, AnsweredAt
    <2>2. ops = {} /\ runs[r] = 0 /\ outcome[r] = "idle"
      BY DEF Init
    <2>3. QED
      BY <2>1, <2>2 DEF RequestOK, AskedOnce, AskedNotRun, RunningOnce, AnswerTells, OutcomeExact
  <1>4. QED
    BY <1>1, <1>2, <1>3 DEF IInv

LEMMA InvStep == IInv /\ [Next]_vars => IInv'
  BY TypeStep, LiveStep, SlotStep, SilentStep, ProxyStep, FramesStep, AheadStep, RequestStep
     DEF IInv, FrameInv

LEMMA InvAlways == Spec => []IInv
  BY InvInit, InvStep, PTL DEF Spec

\* No frame of the proxy is ever refused by the CLI's checks, whatever the
\* number of CLI processes that share the session and of reconnections: the
\* next frame of a live socket is a handshake, or comes from a peer the CLI
\* knows with a counter above the last one.
THEOREM NoFrameIsRefused == Spec => []FramesAccepted
  <1>1. IInv => FramesAccepted
    BY Types, TailItems DEF IInv, FrameInv, FramesInOrder, FramesAt, Live, FramesAccepted
  <1>2. QED
    BY <1>1, InvAlways, PTL

\* A request runs at most once, has run if it is reported as answered, and
\* has not if it is reported as refused.
THEOREM ToldWhatRan == Spec => []OutcomeTellsWhatRan
  <1>1. IInv => OutcomeTellsWhatRan
    BY DEF IInv, RequestInv, RequestOK, OutcomeExact, OutcomeTellsWhatRan
  <1>2. QED
    BY <1>1, InvAlways, PTL

\* Nothing is on its way to a server that does not listen yet.
THEOREM NothingSaidTooEarly == Spec => []SilentUntilHeard
  <1>1. IInv => SilentUntilHeard
    BY DEF IInv, FrameInv, SilentBefore, Silent, SilentUntilHeard
  <1>2. QED
    BY <1>1, InvAlways, PTL

\* The promise of a request is settled once and keeps its outcome.
THEOREM SettledOnce == Spec => SettledForGood
  <1> DEFINE Keeps == \A r \in Requests : outcome[r] \in Final => outcome'[r] = outcome[r]
  <1>1. TypeOK /\ [Next]_vars => [Keeps]_vars
    <2> SUFFICES ASSUME TypeOK, Next PROVE Keeps
      OBVIOUS
    <2>1. \/ outcome' = outcome
          \/ \E r \in Requests : SendReq(r) \/ SendReqFails(r) \/ Timeout(r)
          \/ \E s \in Sockets : ServerReceives(s)
          \/ Restart
      BY DEF Next, CliNext, SocketNext, RequestNext, Connect, ConnectFails, Stop, Exit,
             CliSeesClose, CliLosesSocket, CliEndCloses, CliSocketErrs, OnHandshake, OnReq,
             Incoming, Authenticated, Refused, ServerSeesClose, ServerLosesSocket,
             ServerEndCloses, OpDone, SessionExpires, proxyVars
    <2>2. ASSUME NEW r \in Requests, SendReq(r) \/ SendReqFails(r) \/ Timeout(r) PROVE Keeps
      BY <2>2 DEF SendReq, SendReqFails, Timeout, TypeOK, Final
    <2>3. ASSUME NEW s \in Sockets, ServerReceives(s) PROVE Keeps
      BY <2>3 DEF ServerReceives, Settle, Pending, TypeOK, Final
    <2>4. CASE Restart
      BY <2>4 DEF Restart, Pending, TypeOK, Final
    <2>5. QED
      BY <2>1, <2>2, <2>3, <2>4
  <1>2. QED
    BY <1>1, TypeCorrect, PTL DEF Spec, SettledForGood

-----------------------------------------------------------------------------
(* The registry. *)

LEMMA OneTunnel == Registry!AllSockets = Sockets /\ Registry!AnyTunnel = Tunnel
  BY DEF Registry!AllSockets, Registry!AnyTunnel

LEMMA RegistryInit == Init => Registry!Init
  BY OneTunnel DEF Init, Registry!Init

\* A step that leaves the slot and the server's ends alone is none of the
\* registry's.
LEMMA RegistryStutters ==
    conn' = conn /\ stage' = stage /\ valid' = valid /\ slotCli' = slotCli
    => UNCHANGED Registry!vars
  BY DEF Registry!vars

LEMMA RegistryStep == IInv /\ [Next]_vars => [Registry!Next]_(Registry!vars)
  <1> SUFFICES ASSUME IInv, [Next]_vars PROVE [Registry!Next]_(Registry!vars)
    OBVIOUS
  <1> USE OneTunnel, SessionAssumption DEF cliVars, wireVars, slotVars, proxyVars
  <1>1. ASSUME NEW p \in Clis, NEW s \in Sockets, Connect(p, s) PROVE Registry!CliConnect(s, Tunnel, Tunnel)
    BY <1>1 DEF Connect, Fresh, IInv, TypeOK, Registry!CliConnect, Registry!Fresh, Registry!slotVars
  <1>2. ASSUME NEW s \in Sockets, Authenticated(s) PROVE Registry!CliAuthenticated(s)
    <2>1. slotCli # s /\ slotCli' = s /\ s # NoSocket /\ valid' = valid /\ valid
      BY <1>2 DEF Authenticated, IInv, FrameInv, SlotAttached
    <2>2. /\ stage[s] = "authenticating" /\ stage' = [stage EXCEPT ![s] = "attached"]
          /\ conn' = IF slotCli # NoSocket /\ conn[slotCli] = "open"
                     THEN [conn EXCEPT ![slotCli] = "closing"] ELSE conn
      <3>1. /\ stage[s] = "authenticating" /\ stage' = [stage EXCEPT ![s] = "attached"]
            /\ conn' = [x \in Sockets |->
                           IF x = slotCli /\ conn[x] = "open" THEN "closing" ELSE conn[x]]
        BY <1>2 DEF Authenticated
      <3>2. conn = [x \in Sockets |-> conn[x]] /\ slotCli \in Sockets \cup {NoSocket}
        BY DEF IInv, TypeOK
      <3>3. CASE slotCli # NoSocket /\ conn[slotCli] = "open"
        <4>1. [conn EXCEPT ![slotCli] = "closing"] =
                 [x \in Sockets |-> IF x = slotCli THEN "closing" ELSE conn[x]]
          BY <3>2
        <4>2. QED
          BY <3>1, <3>3, <4>1
      <3>4. CASE ~(slotCli # NoSocket /\ conn[slotCli] = "open")
        <4>1. \A x \in Sockets : ~(x = slotCli /\ conn[x] = "open")
          BY <3>4
        <4>2. QED
          BY <3>1, <3>2, <3>4, <4>1
      <3>5. QED
        BY <3>1, <3>3, <3>4
    <2>3. Registry!AttachCli(Tunnel, s)
      BY <2>1, <2>2 DEF Registry!AttachCli, Registry!EnsureSlot, Registry!ClosingOf
    <2>4. QED
      BY <2>1, <2>2, <2>3 DEF Registry!CliAuthenticated, Registry!Entitled
  <1>3. ASSUME NEW s \in Sockets, Refused(s) PROVE Registry!CliRefused(s)
    BY <1>3 DEF Refused, IInv, TypeOK,
       Registry!CliRefused, Registry!Entitled, Registry!ClosingOf, Registry!slotVars
  <1>4. ASSUME NEW s \in Sockets, ServerEndCloses(s), conn[s] # "closed" PROVE Registry!CliClosed(s)
    BY <1>4 DEF ServerEndCloses, SlotAfterClose, IInv, TypeOK,
       Registry!CliClosed, Registry!DetachCli, Registry!DropIfEmpty
  <1>5. CASE SessionExpires
    BY <1>5 DEF SessionExpires, Registry!Next, Registry!SessionExpires, Registry!sockVars, Registry!slotVars
  <1>6. CASE Restart
    BY <1>6 DEF Restart, Registry!Next, Registry!Restart
  <1>7. ASSUME NEW s \in Sockets, ServerSeesClose(s) \/ ServerLosesSocket(s) PROVE Registry!CliClosed(s)
    BY <1>4, <1>7 DEF ServerSeesClose, ServerLosesSocket
  <1>8. ASSUME NEW s \in Sockets, Registry!CliNext(s) PROVE Registry!Next
    BY <1>8 DEF Registry!Next
  <1>9. \/ \E p \in Clis, s \in Sockets : Connect(p, s)
        \/ \E s \in Sockets : \/ Authenticated(s) \/ Refused(s)
                              \/ ServerSeesClose(s) \/ ServerLosesSocket(s)
        \/ SessionExpires \/ Restart
        \/ conn' = conn /\ stage' = stage /\ valid' = valid /\ slotCli' = slotCli
    BY DEF Next, CliNext, SocketNext, RequestNext, vars, ConnectFails, Stop, Exit,
       CliSeesClose, CliLosesSocket, CliEndCloses, CliSocketErrs, OnHandshake, OnReq,
       Incoming, ServerReceives, SendReq, SendReqFails, Timeout, OpDone
  <1>10. QED
    BY <1>1, <1>2, <1>3, <1>5, <1>6, <1>7, <1>8, <1>9, RegistryStutters DEF Registry!CliNext

\* The slot, the sockets and the handlers of a session behave as those of the
\* registry do, whatever the CLI processes, the proxy and the failures do:
\* what is proved of TunnelRegistry holds here too.
THEOREM RegistryImplemented == Spec => ImplementsRegistry
  BY RegistryInit, RegistryStep, InvAlways, PTL DEF Spec, ImplementsRegistry, Registry!Spec

================================================================================
