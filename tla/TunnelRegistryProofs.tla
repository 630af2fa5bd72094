------------------------ MODULE TunnelRegistryProofs ------------------------
(***************************************************************************)
(* Proofs about TunnelRegistry, for every set of tunnels, users and        *)
(* sockets.  Type correctness is inductive alone; the safety invariants    *)
(* are not, and are proved through IInv.                                   *)
(***************************************************************************)
EXTENDS TunnelRegistry, TLAPS

\* Every reachable state is of the declared types.
LEMMA TypeInit == Init => TypeOK
  <1>1. AnyTunnel \in Tunnels
    BY TenancyAssumption DEF AnyTunnel
  <1>2. Tenant(AnyTunnel) \in Tenants
    BY <1>1, TenancyAssumption DEF Tenant, Tenants
  <1>3. QED
    BY <1>1, <1>2 DEF Init, TypeOK

LEMMA TypeStep == TypeOK /\ [Next]_vars => TypeOK'
  <1> SUFFICES ASSUME TypeOK, [Next]_vars PROVE TypeOK'
    OBVIOUS
  <1> USE TenancyAssumption, SocketAssumption DEF TypeOK, AllSockets, Tenants, Tenant
  <1>1. ASSUME NEW s \in CliSockets, NEW p \in Tunnels, NEW k \in Tunnels,
               CliConnect(s, p, k)
        PROVE  TypeOK'
    BY <1>1 DEF CliConnect, slotVars
  <1>2. ASSUME NEW s \in CliSockets, CliAuthenticated(s)
        PROVE  TypeOK'
    <2>1. conn' \in [AllSockets -> {"open", "closing", "closed"}]
      BY <1>2 DEF CliAuthenticated, AttachCli, ClosingOf
    <2>2. /\ slots' \subseteq Tunnels
          /\ older' \subseteq slots' \X slots'
          /\ cli' \in [Tunnels -> CliSockets \cup {NoSocket}]
      BY <1>2 DEF CliAuthenticated, AttachCli, EnsureSlot
    <2>3. QED
      BY <1>2, <2>1, <2>2 DEF CliAuthenticated
  <1>3. ASSUME NEW s \in CliSockets, CliRefused(s)
        PROVE  TypeOK'
    BY <1>3 DEF CliRefused, ClosingOf, slotVars
  <1>4. ASSUME NEW s \in CliSockets, CliFrame(s)
        PROVE  TypeOK'
    <2>1. Tenant(token[s]) \in Tenants
      OBVIOUS
    <2>2. QED
      BY <1>4, <2>1 DEF CliFrame, slotVars, sockVars
  <1>5. ASSUME NEW s \in CliSockets, CliClosed(s)
        PROVE  TypeOK'
    BY <1>5 DEF CliClosed, DetachCli, DropIfEmpty
  <1>6. ASSUME NEW b \in BrowserSockets, NEW u \in Users, NEW c \in Connections,
               NEW t \in Tunnels, BrowserAttached(b, u, c, t)
        PROVE  TypeOK'
    BY <1>6 DEF BrowserAttached
  <1>7. ASSUME NEW b \in BrowserSockets, NEW u \in Users, NEW c \in Connections,
               BrowserRefused(b, u, c)
        PROVE  TypeOK'
    BY <1>7 DEF BrowserRefused, slotVars
  <1>8. ASSUME NEW b \in BrowserSockets, BrowserFrame(b)
        PROVE  TypeOK'
    BY <1>8 DEF BrowserFrame, slotVars, sockVars
  <1>9. ASSUME NEW b \in BrowserSockets, BrowserClosed(b)
        PROVE  TypeOK'
    BY <1>9 DEF BrowserClosed, DetachBrowser, DropIfEmpty
  <1>10. ASSUME NEW t \in Tunnels, SessionExpires(t)
         PROVE  TypeOK'
    BY <1>10 DEF SessionExpires, slotVars, sockVars
  <1>11. CASE Restart
    BY <1>11 DEF Restart
  <1>12. CASE UNCHANGED vars
    BY <1>12 DEF vars
  <1>13. QED
    BY <1>1, <1>2, <1>3, <1>4, <1>5, <1>6, <1>7, <1>8, <1>9, <1>10, <1>11, <1>12
       DEF Next, CliNext, BrowserNext

\* The registry and its handlers keep every variable within its type.
THEOREM TypeCorrect == Spec => []TypeOK
  BY TypeInit, TypeStep, PTL DEF Spec
-----------------------------------------------------------------------------
(* The inductive invariant. *)

\* What the registry knows of the CLI socket of a slot: it authenticated for
\* this tunnel, and the server is not closing it.
SlotCliAttached ==
    \A t \in Tunnels : cli[t] # NoSocket =>
        /\ stage[cli[t]] = "attached"
        /\ path[cli[t]] = t
        /\ conn[cli[t]] # "closing"

\* The server closes a CLI socket only after its handler decided.
AwaitingNotClosing ==
    \A s \in CliSockets : stage[s] = "authenticating" => conn[s] # "closing"

\* A socket is attached only to the tunnel it is entitled to.
AttachedEntitled ==
    /\ \A s \in CliSockets : stage[s] = "attached" => token[s] = path[s]
    /\ \A b \in BrowserSockets : stage[b] = "attached" => asked[b] = Tenant(path[b])

IInv ==
    /\ TypeOK
    /\ SlotIffOccupied
    /\ OneLiveCli
    /\ BrowsersStayRouted
    /\ NoCrossTenantFrames
    /\ SlotCliAttached
    /\ AwaitingNotClosing
    /\ AttachedEntitled

LEMMA IInvInit == Init => IInv
  <1> SUFFICES ASSUME Init PROVE IInv
    OBVIOUS
  <1>1. TypeOK
    BY TypeInit
  <1>2. QED
    BY <1>1 DEF Init, IInv, TypeOK, AllSockets, SlotIffOccupied, OneLiveCli,
                BrowsersStayRouted, NoCrossTenantFrames, SlotCliAttached,
                AwaitingNotClosing, AttachedEntitled

LEMMA IInvStep == IInv /\ [Next]_vars => IInv'
  <1> SUFFICES ASSUME IInv, [Next]_vars PROVE IInv'
    OBVIOUS
  <1> USE TenancyAssumption, SocketAssumption
  <1> USE DEF IInv, TypeOK, AllSockets, SlotIffOccupied, OneLiveCli, BrowsersStayRouted,
              NoCrossTenantFrames, SlotCliAttached, AwaitingNotClosing, AttachedEntitled
  <1>0. TypeOK'
    BY TypeStep
  <1>1. ASSUME NEW s \in CliSockets, NEW p \in Tunnels, NEW k \in Tunnels,
               CliConnect(s, p, k)
        PROVE  IInv'
    BY <1>0, <1>1 DEF CliConnect, Fresh, slotVars
  <1>2. ASSUME NEW s \in CliSockets, CliAuthenticated(s)
        PROVE  IInv'
    <2> DEFINE t == path[s]
    <2>1. cli' = [cli EXCEPT ![t] = s] /\ slots' = slots \cup {t} /\ t \in Tunnels
      BY <1>2 DEF CliAuthenticated, AttachCli, EnsureSlot
    <2>2. cli[t] # s
      BY <1>2 DEF CliAuthenticated
    <2>3. conn' = IF cli[t] # NoSocket /\ conn[cli[t]] = "open"
                    THEN [conn EXCEPT ![cli[t]] = "closing"] ELSE conn
      BY <1>2, <2>2 DEF CliAuthenticated, AttachCli, ClosingOf
    <2>4. stage' = [stage EXCEPT ![s] = "attached"] /\ token[s] = path[s]
      BY <1>2 DEF CliAuthenticated, Entitled
    <2>5. UNCHANGED <<path, token, asked, browsers, heard>>
      BY <1>2 DEF CliAuthenticated
    <2>6. SlotIffOccupied'
      BY <2>1, <2>5
    <2>7. OneLiveCli'
      BY <2>1, <2>3, <2>4, <2>5
    <2>8. BrowsersStayRouted'
      BY <2>1, <2>3, <2>4, <2>5
    <2>9. SlotCliAttached'
      BY <2>1, <2>2, <2>3, <2>4, <2>5, <1>2 DEF CliAuthenticated
    <2>10. AwaitingNotClosing'
      BY <2>3, <2>4
    <2>11. AttachedEntitled' /\ NoCrossTenantFrames'
      BY <2>4, <2>5 DEF Tenant
    <2>12. QED
      BY <1>0, <2>6, <2>7, <2>8, <2>9, <2>10, <2>11
  <1>3. ASSUME NEW s \in CliSockets, CliRefused(s)
        PROVE  IInv'
    BY <1>0, <1>3 DEF CliRefused, ClosingOf, slotVars
  <1>4. ASSUME NEW s \in CliSockets, CliFrame(s)
        PROVE  IInv'
    <2>1. NoCrossTenantFrames'
      BY <1>4 DEF CliFrame, sockVars, slotVars, Writable, BrowsersOf
    <2>2. UNCHANGED <<sockVars, valid, slotVars>>
      BY <1>4 DEF CliFrame
    <2>3. SlotIffOccupied' /\ OneLiveCli' /\ BrowsersStayRouted'
      BY <2>2 DEF sockVars, slotVars
    <2>4. SlotCliAttached' /\ AwaitingNotClosing' /\ AttachedEntitled'
      BY <2>2 DEF sockVars, slotVars
    <2>5. QED
      BY <1>0, <2>1, <2>3, <2>4
  <1>5. ASSUME NEW s \in CliSockets, CliClosed(s)
        PROVE  IInv'
    BY <1>0, <1>5 DEF CliClosed, DetachCli, DropIfEmpty
  <1>6. ASSUME NEW b \in BrowserSockets, NEW u \in Users, NEW c \in Connections,
               NEW t \in Tunnels, BrowserAttached(b, u, c, t)
        PROVE  IInv'
    <2>1. /\ t \in slots /\ Tenant(t) = <<u, c>> /\ conn[b] = "closed"
          /\ browsers' = [browsers EXCEPT ![t] = @ \cup {b}]
          /\ conn' = [conn EXCEPT ![b] = "open"]
          /\ stage' = [stage EXCEPT ![b] = "attached"]
          /\ path' = [path EXCEPT ![b] = t]
          /\ asked' = [asked EXCEPT ![b] = <<u, c>>]
          /\ heard' = [heard EXCEPT ![b] = {}]
          /\ UNCHANGED <<token, valid, slots, older, cli>>
      BY <1>6 DEF BrowserAttached, Fresh, FindByConnection, Matching
    <2>2. SlotIffOccupied' /\ OneLiveCli'
      BY <2>1
    <2>3. BrowsersStayRouted'
      BY <2>1
    <2>4. NoCrossTenantFrames'
      BY <2>1
    <2>5. SlotCliAttached' /\ AwaitingNotClosing'
      BY <2>1
    <2>6. AttachedEntitled'
      BY <2>1 DEF Tenant
    <2>7. QED
      BY <1>0, <2>2, <2>3, <2>4, <2>5, <2>6
  <1>7. ASSUME NEW b \in BrowserSockets, NEW u \in Users, NEW c \in Connections,
               BrowserRefused(b, u, c)
        PROVE  IInv'
    BY <1>0, <1>7 DEF BrowserRefused, Fresh, slotVars
  <1>8. ASSUME NEW b \in BrowserSockets, BrowserFrame(b)
        PROVE  IInv'
    <2>1. NoCrossTenantFrames'
      BY <1>8 DEF BrowserFrame, sockVars, slotVars, Writable
    <2>2. UNCHANGED <<sockVars, valid, slotVars>>
      BY <1>8 DEF BrowserFrame
    <2>3. SlotIffOccupied' /\ OneLiveCli' /\ BrowsersStayRouted'
      BY <2>2 DEF sockVars, slotVars
    <2>4. SlotCliAttached' /\ AwaitingNotClosing' /\ AttachedEntitled'
      BY <2>2 DEF sockVars, slotVars
    <2>5. QED
      BY <1>0, <2>1, <2>3, <2>4
  <1>9. ASSUME NEW b \in BrowserSockets, BrowserClosed(b)
        PROVE  IInv'
    BY <1>0, <1>9 DEF BrowserClosed, DetachBrowser, DropIfEmpty
  <1>10. ASSUME NEW t \in Tunnels, SessionExpires(t)
         PROVE  IInv'
    BY <1>0, <1>10 DEF SessionExpires, slotVars, sockVars
  <1>11. CASE Restart
    BY <1>0, <1>11 DEF Restart
  <1>12. CASE UNCHANGED vars
    BY <1>0, <1>12 DEF vars
  <1>13. QED
    BY <1>1, <1>2, <1>3, <1>4, <1>5, <1>6, <1>7, <1>8, <1>9, <1>10, <1>11, <1>12
       DEF Next, CliNext, BrowserNext

\* No slot is leaked and none is deleted under a member, in every execution.
THEOREM SlotsExact == Spec => []SlotIffOccupied
  BY IInvInit, IInvStep, PTL DEF Spec, IInv

\* At most one open authenticated CLI socket per tunnel, the slot's own.
THEOREM SingleActiveCli == Spec => []OneLiveCli
  BY IInvInit, IInvStep, PTL DEF Spec, IInv

\* A browser stays routed from its attachment to its close.
THEOREM BrowsersRouted == Spec => []BrowsersStayRouted
  BY IInvInit, IInvStep, PTL DEF Spec, IInv

\* No frame ever crosses from one tenant to another.
THEOREM TenantIsolation == Spec => []NoCrossTenantFrames
  BY IInvInit, IInvStep, PTL DEF Spec, IInv
=============================================================================
