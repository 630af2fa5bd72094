--------------------------- MODULE TunnelRegistry ---------------------------
(***************************************************************************)
(* The in-memory registry of WebSocket tunnels and the two route handlers  *)
(* that feed it: apps/backend/src/domains/tunnels/session/registry.ts and  *)
(* apps/backend/src/routes/api/tunnels/ws.ts.                              *)
(*                                                                         *)
(* A slot joins, for one tunnel session, at most one CLI socket and any    *)
(* number of browser sockets.  The CLI handler awaits a database lookup    *)
(* before it attaches its socket and before it listens to the socket's     *)
(* `message' and `close' events; everything else that touches the registry *)
(* runs to completion in one turn of the event loop, hence one action.     *)
(***************************************************************************)

CONSTANTS
    Tunnels,        \* ids of tunnel sessions
    Users,
    Connections,
    Owner,          \* Owner[t]: user of the db_connection of session t
    ConnectionOf,   \* ConnectionOf[t]: the db_connection of session t
    CliSockets,
    BrowserSockets,
    NoSocket

ASSUME TenancyAssumption ==
    /\ Tunnels # {}
    /\ Owner \in [Tunnels -> Users]
    /\ ConnectionOf \in [Tunnels -> Connections]

ASSUME SocketAssumption ==
    /\ CliSockets \cap BrowserSockets = {}
    /\ NoSocket \notin CliSockets

AllSockets == CliSockets \cup BrowserSockets

Tenants == Users \X Connections

Tenant(t) == <<Owner[t], ConnectionOf[t]>>

\* What the fields of a socket never used yet hold: no guard reads them.
AnyTunnel == CHOOSE t \in Tunnels : TRUE

VARIABLES
    conn,      \* state of a socket as the `ws' library of the server sees it
    stage,     \* how far the route handler of the socket went
    path,      \* tunnel the handler captured (`auth.sessionId', `slot.tunnelId')
    token,     \* session the `tn_' token of a CLI socket belongs to
    asked,     \* tenant a browser socket asked for
    valid,     \* sessions neither expired nor revoked
    slots,     \* keys of the `slots' map
    older,     \* insertion order of that map
    cli,       \* slot.cli
    browsers,  \* slot.browsers
    heard      \* tenants whose frames reached the socket

sockVars == <<conn, stage, path, token, asked>>
slotVars == <<slots, older, cli, browsers>>
vars == <<conn, stage, path, token, asked, valid, slots, older, cli, browsers, heard>>

TypeOK ==
    /\ conn \in [AllSockets -> {"open", "closing", "closed"}]
    /\ stage \in [AllSockets -> {"none", "authenticating", "attached", "refused"}]
    /\ path \in [AllSockets -> Tunnels]
    /\ token \in [CliSockets -> Tunnels]
    /\ asked \in [BrowserSockets -> Tenants]
    /\ valid \subseteq Tunnels
    /\ slots \subseteq Tunnels
    /\ older \subseteq slots \X slots
    /\ cli \in [Tunnels -> CliSockets \cup {NoSocket}]
    /\ browsers \in [Tunnels -> SUBSET BrowserSockets]
    /\ heard \in [AllSockets -> SUBSET Tenants]

Init ==
    /\ conn = [s \in AllSockets |-> "closed"]
    /\ stage = [s \in AllSockets |-> "none"]
    /\ path = [s \in AllSockets |-> AnyTunnel]
    /\ token = [s \in CliSockets |-> AnyTunnel]
    /\ asked = [b \in BrowserSockets |-> Tenant(AnyTunnel)]
    /\ valid = Tunnels
    /\ slots = {}
    /\ older = {}
    /\ cli = [t \in Tunnels |-> NoSocket]
    /\ browsers = [t \in Tunnels |-> {}]
    /\ heard = [s \in AllSockets |-> {}]

-----------------------------------------------------------------------------
(* The registry's operations. *)

\* `ensureSlot': a new key goes to the end of the map's iteration order.
EnsureSlot(t) ==
    /\ slots' = slots \cup {t}
    /\ older' = IF t \in slots THEN older ELSE older \cup (slots \X {t})

\* `slots.delete' when nobody is left in the slot, given its new members.
DropIfEmpty(t, newCli, newBrowsers) ==
    IF newCli = NoSocket /\ newBrowsers = {}
    THEN /\ slots' = slots \ {t}
         /\ older' = { p \in older : p[1] # t /\ p[2] # t }
    ELSE UNCHANGED <<slots, older>>

\* `ws.close' of an open socket starts the closing handshake.
ClosingOf(s) ==
    IF s # NoSocket /\ conn[s] = "open" THEN [conn EXCEPT ![s] = "closing"] ELSE conn

\* `attachCli': the newer CLI socket wins, the older one is closed (4001).
AttachCli(t, s) ==
    /\ EnsureSlot(t)
    /\ conn' = IF cli[t] = s THEN conn ELSE ClosingOf(cli[t])
    /\ cli' = [cli EXCEPT ![t] = s]

\* Variant of DetachCli without the comparison of socket ids.
DetachCliAny(t, s) ==
    LET newCli == NoSocket IN
    IF t \notin slots THEN UNCHANGED <<slots, older, cli>>
    ELSE /\ cli' = [cli EXCEPT ![t] = newCli]
         /\ DropIfEmpty(t, newCli, browsers[t])

\* `detachCli': a replaced socket that closes late must not evict its successor.
DetachCli(t, s) ==
    LET newCli == IF cli[t] = s THEN NoSocket ELSE cli[t] IN
    IF t \notin slots THEN UNCHANGED <<slots, older, cli>>
    ELSE /\ cli' = [cli EXCEPT ![t] = newCli]
         /\ DropIfEmpty(t, newCli, browsers[t])

\* Variant of DetachBrowser that never deletes the slot.
DetachBrowserOnly(t, b) ==
    /\ browsers' = [browsers EXCEPT ![t] = @ \ {b}]
    /\ UNCHANGED <<slots, older>>

\* Variant of DetachBrowser that only looks at slots with a CLI.
DetachBrowserIfActive(t, b) ==
    IF t \notin slots \/ cli[t] = NoSocket THEN UNCHANGED <<slots, older, browsers>>
    ELSE /\ browsers' = [browsers EXCEPT ![t] = @ \ {b}]
         /\ UNCHANGED <<slots, older>>

\* `detachBrowser'
DetachBrowser(t, b) ==
    IF t \notin slots THEN UNCHANGED <<slots, older, browsers>>
    ELSE /\ browsers' = [browsers EXCEPT ![t] = @ \ {b}]
         /\ DropIfEmpty(t, cli[t], browsers[t] \ {b})

\* Slots of user u and connection c, the candidates of `findByConnection'.
Matching(u, c) == { t \in slots : Tenant(t) = <<u, c>> }

\* `findByConnection': the first match in insertion order; empty when none.
FindByConnection(u, c) ==
    { t \in Matching(u, c) : \A x \in Matching(u, c) \ {t} : <<t, x>> \in older }

-----------------------------------------------------------------------------
(* The CLI route.  A socket no handler and no slot refers to any more is   *)
(* reused for a new connection: the code's socket ids are fresh UUIDs.     *)

Fresh(s) ==
    /\ conn[s] = "closed"
    /\ stage[s] # "authenticating"
    /\ \A t \in Tunnels : cli[t] # s

\* A CLI opens /api/tunnels/:sessionId/cli?token=...; the handler queries
\* the database and, meanwhile, listens to nothing.
CliConnect(s, p, k) ==
    /\ Fresh(s)
    /\ conn' = [conn EXCEPT ![s] = "open"]
    /\ stage' = [stage EXCEPT ![s] = "authenticating"]
    /\ path' = [path EXCEPT ![s] = p]
    /\ token' = [token EXCEPT ![s] = k]
    /\ heard' = [heard EXCEPT ![s] = {}]
    /\ UNCHANGED <<asked, valid, slotVars>>

\* Variant of Entitled without the comparison of the path with the token.
EntitledByToken(s) == token[s] \in valid

\* The session of the token is valid and is the one named in the path.
Entitled(s) == token[s] \in valid /\ token[s] = path[s]

\* The lookup succeeds: the handler attaches the socket and registers its
\* listeners, whatever became of the socket during the await.
CliAuthenticated(s) ==
    /\ stage[s] = "authenticating"
    /\ Entitled(s)
    /\ AttachCli(path[s], s)
    /\ stage' = [stage EXCEPT ![s] = "attached"]
    /\ UNCHANGED <<path, token, asked, valid, browsers, heard>>

\* The lookup fails or names another session: close with 4003.
CliRefused(s) ==
    /\ stage[s] = "authenticating"
    /\ ~Entitled(s)
    /\ conn' = ClosingOf(s)
    /\ stage' = [stage EXCEPT ![s] = "refused"]
    /\ UNCHANGED <<path, token, asked, valid, slotVars, heard>>

\* Sockets `ws' still transmits to: a send to a closing socket is dropped.
Writable(S) == { s \in S : conn[s] = "open" }

\* The browsers `routeToBrowsersFromCli' writes to.
BrowsersOf(t) == IF t \in slots THEN browsers[t] ELSE {}

\* A frame of the CLI is broadcast to the browsers of its tunnel.  A socket
\* being closed by the server still delivers what its peer sent before.
CliFrame(s) ==
    /\ stage[s] = "attached" /\ conn[s] # "closed"
    /\ heard' = [x \in AllSockets |->
                    IF x \in Writable(BrowsersOf(path[s]))
                    THEN heard[x] \cup {Tenant(token[s])} ELSE heard[x]]
    /\ UNCHANGED <<sockVars, valid, slotVars>>

-----------------------------------------------------------------------------
(* The browser route. *)

\* A browser whose slot exists joins it, without a look at slot.cli.
BrowserAttached(b, u, c, t) ==
    /\ Fresh(b)
    /\ t \in FindByConnection(u, c)
    /\ Owner[t] = u
    /\ browsers' = [browsers EXCEPT ![t] = @ \cup {b}]
    /\ conn' = [conn EXCEPT ![b] = "open"]
    /\ stage' = [stage EXCEPT ![b] = "attached"]
    /\ path' = [path EXCEPT ![b] = t]
    /\ asked' = [asked EXCEPT ![b] = <<u, c>>]
    /\ heard' = [heard EXCEPT ![b] = {}]
    /\ UNCHANGED <<token, valid, slots, older, cli>>

\* No slot: the socket is closed at once (4004).
BrowserRefused(b, u, c) ==
    /\ Fresh(b)
    /\ FindByConnection(u, c) = {}
    /\ conn' = [conn EXCEPT ![b] = "closing"]
    /\ stage' = [stage EXCEPT ![b] = "refused"]
    /\ asked' = [asked EXCEPT ![b] = <<u, c>>]
    /\ heard' = [heard EXCEPT ![b] = {}]
    /\ UNCHANGED <<path, token, valid, slotVars>>

\* A frame of a browser goes to the CLI its slot has now, if any.
BrowserFrame(b) ==
    /\ stage[b] = "attached" /\ conn[b] # "closed"
    /\ path[b] \in slots /\ cli[path[b]] # NoSocket
    /\ heard' = [x \in AllSockets |->
                    IF x \in Writable({cli[path[b]]})
                    THEN heard[x] \cup {asked[b]} ELSE heard[x]]
    /\ UNCHANGED <<sockVars, valid, slotVars>>

-----------------------------------------------------------------------------
(* The network, the database and the process. *)

\* The `close' event of a socket: lost while the handler still awaits.
CliClosed(s) ==
    /\ conn[s] # "closed"
    /\ conn' = [conn EXCEPT ![s] = "closed"]
    /\ IF stage[s] = "attached" THEN DetachCli(path[s], s)
                                ELSE UNCHANGED <<slots, older, cli>>
    /\ stage' = [stage EXCEPT ![s] = IF @ = "authenticating" THEN @ ELSE "none"]
    /\ UNCHANGED <<path, token, asked, valid, browsers, heard>>

BrowserClosed(b) ==
    /\ conn[b] # "closed"
    /\ conn' = [conn EXCEPT ![b] = "closed"]
    /\ IF stage[b] = "attached" THEN DetachBrowser(path[b], b)
                                ELSE UNCHANGED <<slots, older, browsers>>
    /\ stage' = [stage EXCEPT ![b] = "none"]
    /\ UNCHANGED <<path, token, asked, valid, cli, heard>>

\* `expires_at' passes (or the row is revoked): later lookups fail, sockets
\* already attached stay.
SessionExpires(t) ==
    /\ t \in valid
    /\ valid' = valid \ {t}
    /\ UNCHANGED <<sockVars, slotVars, heard>>

\* The backend process restarts: the registry lives in memory only.
Restart ==
    /\ conn' = [s \in AllSockets |-> "closed"]
    /\ stage' = [s \in AllSockets |-> "none"]
    /\ slots' = {}
    /\ older' = {}
    /\ cli' = [t \in Tunnels |-> NoSocket]
    /\ browsers' = [t \in Tunnels |-> {}]
    /\ UNCHANGED <<path, token, asked, valid, heard>>

CliNext(s) ==
    \/ \E p, k \in Tunnels : CliConnect(s, p, k)
    \/ CliAuthenticated(s)
    \/ CliRefused(s)
    \/ CliFrame(s)
    \/ CliClosed(s)

BrowserNext(b) ==
    \/ \E u \in Users, c \in Connections :
          \/ \E t \in Tunnels : BrowserAttached(b, u, c, t)
          \/ BrowserRefused(b, u, c)
    \/ BrowserFrame(b)
    \/ BrowserClosed(b)

Next ==
    \/ \E s \in CliSockets : CliNext(s)
    \/ \E b \in BrowserSockets : BrowserNext(b)
    \/ \E t \in Tunnels : SessionExpires(t)
    \/ Restart

Spec == Init /\ [][Next]_vars

-----------------------------------------------------------------------------
(* Properties. *)

\* A slot is in the map exactly while somebody is in it: no slot is leaked
\* by an unusual order of closes, none is deleted under a CLI or a browser.
SlotIffOccupied ==
    \A t \in Tunnels : t \in slots <=> cli[t] # NoSocket \/ browsers[t] # {}

\* Single active: of all the CLI sockets that authenticated for a tunnel at
\* most one is open, and it is the one frames of browsers go to; a replaced
\* socket that closes late never evicts the one that replaced it.
OneLiveCli ==
    \A s \in CliSockets :
        stage[s] = "attached" /\ conn[s] = "open" => cli[path[s]] = s

\* A browser stays in its slot from its attachment to its close, across any
\* number of CLI disconnections, and nobody else is in the slot.
BrowsersStayRouted ==
    \A b \in BrowserSockets, t \in Tunnels :
        b \in browsers[t] <=> stage[b] = "attached" /\ conn[b] # "closed" /\ path[b] = t

\* No frame crosses tenants: a browser hears only CLIs of the connection it
\* asked for, a CLI only browsers of the connection of its own token.
NoCrossTenantFrames ==
    /\ \A b \in BrowserSockets : heard[b] \subseteq {asked[b]}
    /\ \A s \in CliSockets : heard[s] \subseteq {Tenant(token[s])}

\* The comment of `findByConnection' says it finds an active slot: whenever
\* some slot of the connection has its CLI, so has the slot returned.
FindReturnsActive ==
    \A u \in Users, c \in Connections :
        (\E t \in Matching(u, c) : cli[t] # NoSocket) =>
            \A t \in FindByConnection(u, c) : cli[t] # NoSocket
=============================================================================
