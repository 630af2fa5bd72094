-------------------------- MODULE CanvasSyncProofs --------------------------
(***************************************************************************)
(* Proofs about CanvasSync, for any canvases and bounds: types, no layout  *)
(* on another canvas, an hydration that shows what the server has, and,    *)
(* for a user who does not return to a layout he had before, an idle hook  *)
(* that shows it and a canvas that comes back as it was left.              *)
(***************************************************************************)
EXTENDS CanvasSync, TLAPS

Puts == [to : Canvases, val : Layouts, mine : BOOLEAN, applied : BOOLEAN]

\* The layout on the screen and the one about to be pushed, and their canvas.
HookSound ==
    /\ hook.on = None => ~hook.hydrated
    /\ hook.on # None => hook.local \in LayoutsOf(hook.on)
    /\ hook.pending # None => hook.pending.val \in LayoutsOf(hook.pending.to)

DrawnSound == \A c \in Canvases : drawn[c] <= strokes[c]

CacheSound ==
    \A c \in Canvases : /\ cache[c].data \in LayoutsOf(c) \cup {None}
                        /\ cache[c].data # None => cache[c].state = "ok"

\* PUTs are served in the order they were sent.
InOrder ==
    \A i, j \in DOMAIN puts : i < j /\ puts[j].applied => puts[i].applied

\* A row holds what the last PUT that was served wrote, which a PUT of the
\* same layout behind it wrote as well.
LastServed ==
    \A i \in DOMAIN puts :
        /\ puts[i].applied
        /\ \A j \in DOMAIN puts :
              i < j /\ puts[j].applied /\ puts[j].to = puts[i].to => puts[j].val = puts[i].val
        => server[puts[i].to] = puts[i].val

\* A canvas with no PUT in flight, the last of which did not fail, is cached
\* as the server has it.
CacheFresh ==
    \A c \in Canvases :
        cache[c].state = "ok" /\ c \notin unsaved /\ ~InFlight(c) => cache[c].data = server[c]

Sound == HookSound /\ DrawnSound /\ CacheSound /\ InOrder /\ LastServed /\ CacheFresh

IInv == TypeOK /\ OwnCanvasOnly /\ Sound

LEMMA LayoutsAreOf ==
    ASSUME NEW c \in Canvases PROVE LayoutsOf(c) \subseteq Layouts /\ Blank \in LayoutsOf(c)
  BY DEF Layouts, LayoutsOf

LEMMA MountedTyped ==
    ASSUME NEW c \in Canvases \cup {None}, Blank \in Layouts
    PROVE  Mounted(c) \in Hook
  BY DEF Mounted, Hook

\* The push effect touches the pending push only.
LEMMA ArmedFields ==
    ASSUME NEW old, NEW new \in Hook, new.hydrated => new.on # None
    PROVE  /\ Armed(old, new) \in Hook
           /\ Armed(old, new).on = new.on
           /\ Armed(old, new).local = new.local
           /\ Armed(old, new).hydrated = new.hydrated
           /\ \/ Armed(old, new).pending = new.pending
              \/ /\ new.hydrated
                 /\ Armed(old, new).pending = [to |-> new.on, val |-> new.local]
  <1> DEFINE push == [to |-> new.on, val |-> new.local]
             armed == [new EXCEPT !.pending = push]
  <1>1. CASE Armed(old, new) = new
    BY <1>1
  <1>2. CASE new.hydrated /\ Armed(old, new) = armed
    <2>1. push \in Push
      BY <1>2 DEF Hook, Push
    <2> HIDE DEF push
    <2>2. armed \in Hook
      BY <2>1 DEF Hook
    <2>3. /\ armed.on = new.on /\ armed.local = new.local
          /\ armed.hydrated = new.hydrated /\ armed.pending = push
      BY DEF Hook
    <2>4. QED
      BY <1>2, <2>2, <2>3 DEF push
  <1>3. QED
    BY <1>1, <1>2 DEF Armed

\* What every new hook owes.
LEMMA ArmedSound ==
    ASSUME NEW new \in Hook, hook' = Armed(hook, new),
           new.on = None => ~new.hydrated,
           new.on # None => new.local \in LayoutsOf(new.on),
           new.pending # None => new.pending.val \in LayoutsOf(new.pending.to)
    PROVE  hook' \in Hook /\ HookSound'
  <1>1. /\ hook' \in Hook /\ hook'.on = new.on
        /\ hook'.local = new.local /\ hook'.hydrated = new.hydrated
        /\ \/ hook'.pending = new.pending
           \/ new.hydrated /\ hook'.pending = [to |-> new.on, val |-> new.local]
    BY ArmedFields
  <1>2. QED
    BY <1>1 DEF HookSound, LayoutsOf

LEMMA IInvInit == Init => IInv
  <1> SUFFICES ASSUME Init PROVE IInv
    OBVIOUS
  <1> USE DEF Init
  <1>1. ASSUME NEW c \in Canvases
        PROVE  <<c, 0>> \in LayoutsOf(c) /\ <<c, 0>> \in Layouts /\ Blank \in Layouts
    BY CanvasAssumption, LayoutsAreOf DEF LayoutsOf
  <1>2. server \in [Canvases -> Layouts \cup {None}]
    BY <1>1
  <1>3. hook \in Hook
    BY <1>1, MountedTyped, CanvasAssumption
  <1>4. cache \in [Canvases -> Query]
    BY DEF Query, Absent
  <1>5. TypeOK
    BY <1>2, <1>3, <1>4, CanvasAssumption DEF TypeOK
  <1>6. OwnCanvasOnly
    BY <1>1 DEF OwnCanvasOnly
  <1>7. HookSound
    BY DEF HookSound, Mounted
  <1>8. DrawnSound /\ CacheSound /\ InOrder /\ LastServed /\ CacheFresh
    BY DEF DrawnSound, CacheSound, InOrder, LastServed, CacheFresh, Absent
  <1>9. QED
    BY <1>5, <1>6, <1>7, <1>8 DEF IInv, Sound

-----------------------------------------------------------------------------
(* PUTs in flight. *)

LEMMA FunctionIsSeq ==
    ASSUME NEW S, NEW n \in Nat, NEW f \in [1..n -> S]
    PROVE  f \in Seq(S) /\ Len(f) = n
  OBVIOUS

\* The PUTs of an instance that is gone: nothing but `mine' changes.
LEMMA DeadPuts ==
    ASSUME IInv, NEW dead, dead = [i \in DOMAIN puts |-> [puts[i] EXCEPT !.mine = FALSE]]
    PROVE  /\ dead \in Seq(Puts) /\ Len(dead) = Len(puts)
           /\ \A i \in DOMAIN puts : /\ dead[i].to = puts[i].to /\ dead[i].val = puts[i].val
                                    /\ dead[i].applied = puts[i].applied
  <1>1. puts \in Seq(Puts)
    BY DEF IInv, TypeOK, Puts
  <1>2. ASSUME NEW i \in DOMAIN puts
        PROVE  /\ [puts[i] EXCEPT !.mine = FALSE] \in Puts
               /\ [puts[i] EXCEPT !.mine = FALSE].to = puts[i].to
               /\ [puts[i] EXCEPT !.mine = FALSE].val = puts[i].val
               /\ [puts[i] EXCEPT !.mine = FALSE].applied = puts[i].applied
    <2>1. puts[i] \in Puts
      BY <1>1
    <2>2. QED
      BY <2>1 DEF Puts
  <1>3. DOMAIN puts = 1..Len(puts) /\ Len(puts) \in Nat
    BY <1>1
  <1> DEFINE gone(i) == [puts[i] EXCEPT !.mine = FALSE]
  <1> HIDE DEF gone
  <1>4. dead = [i \in 1..Len(puts) |-> gone(i)]
    BY <1>3 DEF gone
  <1>5. \A i \in 1..Len(puts) : gone(i) \in Puts
    BY <1>2, <1>3 DEF gone
  <1>6. dead \in Seq(Puts) /\ Len(dead) = Len(puts)
    <2>1. dead \in [1..Len(puts) -> Puts]
      BY <1>4, <1>5
    <2>2. QED
      BY <1>3, <2>1, FunctionIsSeq
  <1>7. \A i \in DOMAIN puts : dead[i] = gone(i)
    BY <1>3, <1>4
  <1>8. QED
    BY <1>2, <1>6, <1>7 DEF gone

\* Whether a sequence of PUTs does what the invariant says, for a server.
PutsSound(s, srv) ==
    /\ s \in Seq(Puts)
    /\ \A i \in DOMAIN s : s[i].val \in LayoutsOf(s[i].to)
    /\ \A i, j \in DOMAIN s : i < j /\ s[j].applied => s[i].applied
    /\ \A i \in DOMAIN s :
          /\ s[i].applied
          /\ \A j \in DOMAIN s :
                i < j /\ s[j].applied /\ s[j].to = s[i].to => s[j].val = s[i].val
          => srv[s[i].to] = s[i].val

LEMMA PutsAreSound == IInv => PutsSound(puts, server)
  BY DEF IInv, TypeOK, OwnCanvasOnly, Sound, InOrder, LastServed, PutsSound, Puts

LEMMA PutsStaySound ==
    ASSUME PutsSound(puts', server')
    PROVE  /\ puts' \in Seq(Puts) /\ InOrder' /\ LastServed'
           /\ \A i \in DOMAIN puts' : puts'[i].val \in LayoutsOf(puts'[i].to)
  BY DEF InOrder, LastServed, PutsSound

\* A PUT that is sent is behind the others and not served yet.
LEMMA AppendSound ==
    ASSUME NEW s, NEW srv, PutsSound(s, srv), NEW p \in Puts, ~p.applied,
           p.val \in LayoutsOf(p.to)
    PROVE  /\ PutsSound(Append(s, p), srv)
           /\ \A i \in DOMAIN s : \E j \in DOMAIN Append(s, p) : Append(s, p)[j].to = s[i].to
  <1> DEFINE t == Append(s, p)
  <1>1. /\ t \in Seq(Puts) /\ Len(t) = Len(s) + 1 /\ t[Len(s) + 1] = p
        /\ DOMAIN t = DOMAIN s \cup {Len(s) + 1}
        /\ \A i \in DOMAIN s : t[i] = s[i] /\ i < Len(s) + 1
        /\ DOMAIN s \subseteq Nat /\ Len(s) \in Nat
    BY DEF PutsSound
  <1> HIDE DEF t
  <1>2. \A i \in DOMAIN t : t[i].val \in LayoutsOf(t[i].to)
    BY <1>1 DEF PutsSound
  <1>3. \A i \in DOMAIN t : t[i].applied => i \in DOMAIN s
    BY <1>1
  <1>4. \A i, j \in DOMAIN t : i < j /\ t[j].applied => t[i].applied
    BY <1>1, <1>3 DEF PutsSound
  <1>5. ASSUME NEW i \in DOMAIN t, t[i].applied,
               \A j \in DOMAIN t :
                   i < j /\ t[j].applied /\ t[j].to = t[i].to => t[j].val = t[i].val
        PROVE  srv[t[i].to] = t[i].val
    BY <1>1, <1>3, <1>5 DEF PutsSound
  <1>6. PutsSound(t, srv)
    BY <1>1, <1>2, <1>4, <1>5 DEF PutsSound
  <1>7. \A i \in DOMAIN s : \E j \in DOMAIN t : t[j].to = s[i].to
    BY <1>1
  <1>8. QED
    BY <1>6, <1>7 DEF t

\* An answered PUT was the first.
LEMMA TailSound ==
    ASSUME NEW s, NEW srv, PutsSound(s, srv), s # <<>>
    PROVE  /\ PutsSound(Tail(s), srv)
           /\ Head(s) \in Puts /\ Head(s).val \in LayoutsOf(Head(s).to)
           /\ \A i \in DOMAIN s : \/ s[i] = Head(s)
                                 \/ \E j \in DOMAIN Tail(s) : Tail(s)[j] = s[i]
           /\ /\ Head(s).applied
              /\ \A j \in DOMAIN Tail(s) :
                    Tail(s)[j].to = Head(s).to => Tail(s)[j].val = Head(s).val
              => srv[Head(s).to] = Head(s).val
  <1> DEFINE t == Tail(s)
  <1>1. /\ t \in Seq(Puts) /\ Len(t) = Len(s) - 1 /\ Head(s) = s[1] /\ 1 \in DOMAIN s
        /\ DOMAIN t = 1..(Len(s) - 1) /\ DOMAIN s = 1..Len(s) /\ Len(s) \in Nat
        /\ \A i \in DOMAIN t : t[i] = s[i + 1] /\ i + 1 \in DOMAIN s
    BY DEF PutsSound
  <1> HIDE DEF t
  <1>2. \A i \in DOMAIN t : t[i].val \in LayoutsOf(t[i].to)
    BY <1>1 DEF PutsSound
  <1>3. \A i, j \in DOMAIN t : i < j /\ t[j].applied => t[i].applied
    BY <1>1 DEF PutsSound
  <1>4. \A k \in DOMAIN s : k = 1 \/ (k - 1 \in DOMAIN t /\ t[k - 1] = s[k])
    BY <1>1
  <1>5. ASSUME NEW i \in DOMAIN t, t[i].applied,
               \A j \in DOMAIN t :
                   i < j /\ t[j].applied /\ t[j].to = t[i].to => t[j].val = t[i].val
        PROVE  srv[t[i].to] = t[i].val
    <2>1. ASSUME NEW k \in DOMAIN s, i + 1 < k, s[k].applied, s[k].to = s[i + 1].to
          PROVE  s[k].val = s[i + 1].val
      <3>1. k - 1 \in DOMAIN t /\ t[k - 1] = s[k] /\ i < k - 1
        BY <1>1, <1>4, <2>1
      <3>2. QED
        BY <1>1, <1>5, <2>1, <3>1
    <2>2. QED
      BY <1>1, <1>5, <2>1 DEF PutsSound
  <1>6. PutsSound(t, srv)
    BY <1>1, <1>2, <1>3, <1>5 DEF PutsSound
  <1>7. ASSUME s[1].applied, \A j \in DOMAIN t : t[j].to = s[1].to => t[j].val = s[1].val
        PROVE  srv[s[1].to] = s[1].val
    <2>1. \A j \in DOMAIN s : s[j].to = s[1].to => s[j].val = s[1].val
      BY <1>4, <1>7
    <2>2. QED
      BY <1>1, <1>7, <2>1 DEF PutsSound
  <1>8. \A i \in DOMAIN s : s[i] = s[1] \/ \E j \in DOMAIN t : t[j] = s[i]
    BY <1>4
  <1>9. s[1] \in Puts /\ s[1].val \in LayoutsOf(s[1].to)
    BY <1>1 DEF PutsSound
  <1>10. QED
    BY <1>1, <1>6, <1>7, <1>8, <1>9 DEF t

\* A PUT that is served is the next one, and writes its row.
LEMMA ServedSound ==
    ASSUME NEW s, NEW srv \in [Canvases -> Layouts \cup {None}], PutsSound(s, srv),
           NEW i \in DOMAIN s, ~s[i].applied,
           \A j \in 1..(i - 1) : s[j].applied
    PROVE  /\ PutsSound([s EXCEPT ![i].applied = TRUE], [srv EXCEPT ![s[i].to] = s[i].val])
           /\ DOMAIN [s EXCEPT ![i].applied = TRUE] = DOMAIN s
           /\ \A j \in DOMAIN s : [s EXCEPT ![i].applied = TRUE][j].to = s[j].to
  <1> DEFINE t == [s EXCEPT ![i].applied = TRUE]
             q == [s[i] EXCEPT !.applied = TRUE]
             row == [srv EXCEPT ![s[i].to] = s[i].val]
  <1>1. /\ s \in Seq(Puts) /\ s[i] \in Puts /\ DOMAIN s = 1..Len(s) /\ Len(s) \in Nat
        /\ \A j \in DOMAIN s : s[j] \in Puts
    BY DEF PutsSound
  <1>2. q \in Puts /\ q.applied /\ q.to = s[i].to /\ q.val = s[i].val
    BY <1>1 DEF Puts
  <1>3. t = [s EXCEPT ![i] = q]
    BY <1>1
  <1> HIDE DEF q, t
  <1>4. /\ t \in Seq(Puts) /\ DOMAIN t = DOMAIN s /\ t[i] = q
        /\ \A j \in DOMAIN s : j # i => t[j] = s[j]
    BY <1>1, <1>2, <1>3
  <1>5. \A j \in DOMAIN s : t[j].to = s[j].to /\ t[j].val = s[j].val
    BY <1>2, <1>4
  <1>6. \A j \in DOMAIN s : t[j].applied <=> s[j].applied \/ j = i
    BY <1>2, <1>4
  <1>7. \A j \in DOMAIN s : j < i => s[j].applied
    BY <1>1
  <1>8. \A j \in DOMAIN s : i < j => ~s[j].applied
    BY DEF PutsSound
  <1>9. \A k, j \in DOMAIN t : k < j /\ t[j].applied => t[k].applied
    BY <1>1, <1>4, <1>6, <1>7, <1>8
  <1>10. ASSUME NEW k \in DOMAIN t, t[k].applied,
                \A j \in DOMAIN t :
                    k < j /\ t[j].applied /\ t[j].to = t[k].to => t[j].val = t[k].val
         PROVE  row[t[k].to] = t[k].val
    <2>1. CASE k = i
      BY <1>1, <1>5, <1>4, <2>1 DEF Puts
    <2>2. CASE k # i
      <3>1. k < i /\ s[k].applied
        BY <1>1, <1>4, <1>6, <1>8, <1>10, <2>2
      <3>2. s[i].to = s[k].to => s[i].val = s[k].val
        BY <1>4, <1>5, <1>6, <1>10, <3>1
      <3>3. \A j \in DOMAIN s :
                k < j /\ s[j].applied /\ s[j].to = s[k].to => s[j].val = s[k].val
        BY <1>4, <1>5, <1>6, <1>10
      <3>4. srv[s[k].to] = s[k].val
        BY <1>4, <3>1, <3>3 DEF PutsSound
      <3>5. QED
        BY <1>1, <1>4, <1>5, <3>2, <3>4 DEF Puts
    <2>3. QED
      BY <2>1, <2>2
  <1>11. \A k \in DOMAIN t : t[k].val \in LayoutsOf(t[k].to)
    BY <1>4, <1>5 DEF PutsSound
  <1>12. PutsSound(t, row)
    BY <1>4, <1>9, <1>10, <1>11 DEF PutsSound
  <1>13. QED
    BY <1>4, <1>5, <1>12 DEF t

-----------------------------------------------------------------------------
(* The steps. *)

Rest == <<server, last, unsaved, drawn, strokes, failures>>

\* The part of the invariant that concerns neither the hook nor the PUTs.
CacheKeeps ==
    /\ cache \in [Canvases -> Query] /\ fetching \subseteq Canvases
    /\ CacheSound /\ CacheFresh

\* A step that leaves the server and the counters alone.
LEMMA Assembled ==
    ASSUME IInv, UNCHANGED Rest, hook' \in Hook, HookSound', CacheKeeps', PutsSound(puts', server)
    PROVE  IInv'
  <1>1. /\ puts' \in Seq(Puts) /\ InOrder' /\ LastServed'
        /\ \A i \in DOMAIN puts' : puts'[i].val \in LayoutsOf(puts'[i].to)
    BY PutsStaySound DEF Rest
  <1>2. TypeOK'
    BY <1>1 DEF IInv, TypeOK, Rest, CacheKeeps, Puts
  <1>3. OwnCanvasOnly'
    BY <1>1 DEF IInv, OwnCanvasOnly, Rest
  <1>4. Sound'
    BY <1>1 DEF IInv, Sound, DrawnSound, Rest, CacheKeeps
  <1>5. QED
    BY <1>2, <1>3, <1>4 DEF IInv

\* The cache when no query is touched and no PUT leaves.
LEMMA CacheUntouched ==
    ASSUME IInv, UNCHANGED <<cache, fetching>>, UNCHANGED Rest,
           \A i \in DOMAIN puts : \E j \in DOMAIN puts' : puts'[j].to = puts[i].to
    PROVE  CacheKeeps'
  BY DEF IInv, TypeOK, Sound, CacheKeeps, CacheSound, CacheFresh, InFlight, Rest

\* The cache when a canvas is observed.
LEMMA ObserveKeeps ==
    ASSUME IInv, NEW c \in Canvases, Observe(c), UNCHANGED Rest,
           \A i \in DOMAIN puts : \E j \in DOMAIN puts' : puts'[j].to = puts[i].to
    PROVE  CacheKeeps'
  <1>1. CASE Fetches(c)
    <2>1. fetching' = fetching \cup {c} /\ cache' = [cache EXCEPT ![c] = Absent]
      BY <1>1 DEF Observe
    <2>2. Absent \in Query /\ Absent.state # "ok" /\ Absent.data = None
      BY DEF Absent, Query
    <2> HIDE DEF Absent
    <2>3. cache \in [Canvases -> Query] /\ fetching \subseteq Canvases /\ CacheSound /\ CacheFresh
      BY DEF IInv, TypeOK, Sound
    <2>4. CacheSound'
      BY <2>1, <2>2, <2>3 DEF CacheSound
    <2>5. CacheFresh'
      BY <2>1, <2>2, <2>3 DEF CacheFresh, InFlight, Rest
    <2>6. QED
      BY <2>1, <2>2, <2>3, <2>4, <2>5 DEF CacheKeeps
  <1>2. CASE ~Fetches(c)
    BY <1>2, CacheUntouched DEF Observe
  <1>3. QED
    BY <1>1, <1>2

\* A pushed layout.
LEMMA PushSound ==
    ASSUME IInv, NEW pending \in Push, pending.val \in LayoutsOf(pending.to),
           NEW mine \in BOOLEAN, Sends(pending, mine)
    PROVE  /\ PutsSound(puts', server)
           /\ \A i \in DOMAIN puts : \E j \in DOMAIN puts' : puts'[j].to = puts[i].to
  <1> DEFINE p == [to |-> pending.to, val |-> pending.val, mine |-> mine, applied |-> FALSE]
  <1>1. p \in Puts /\ ~p.applied /\ p.val \in LayoutsOf(p.to)
    BY DEF Puts, Push
  <1>2. puts' = Append(puts, p)
    BY DEF Sends
  <1> HIDE DEF p
  <1>3. QED
    BY <1>1, <1>2, PutsAreSound, AppendSound

LEMMA BlankTyped == Blank \in Layouts /\ \A c \in Canvases : Blank \in LayoutsOf(c)
  BY LayoutsAreOf, CanvasAssumption

LEMMA MountedSound ==
    ASSUME NEW c \in Canvases \cup {None}
    PROVE  /\ Mounted(c) \in Hook /\ Mounted(c).on = c /\ ~Mounted(c).hydrated
           /\ Mounted(c).local = Blank /\ Mounted(c).pending = None
  BY MountedTyped, BlankTyped DEF Mounted

LEMMA OpenKeeps == ASSUME IInv, NEW c \in Canvases, Open(c) PROVE IInv'
  <1> DEFINE new == [Mounted(c) EXCEPT !.start = IF Fetches(c) THEN Blank ELSE None]
  <1>1. new \in Hook /\ new.on = c /\ ~new.hydrated /\ new.local = Blank /\ new.pending = None
    BY MountedSound, BlankTyped DEF Hook
  <1>2. hook' = new /\ UNCHANGED Rest /\ UNCHANGED puts
    BY DEF Open, Rest
  <1> HIDE DEF new
  <1>3. HookSound'
    BY <1>1, <1>2, BlankTyped, CanvasAssumption DEF HookSound
  <1>4. CacheKeeps'
    BY <1>2, ObserveKeeps DEF Open
  <1>5. PutsSound(puts', server)
    BY <1>2, PutsAreSound
  <1>6. QED
    BY <1>1, <1>2, <1>3, <1>4, <1>5, Assembled

LEMMA DrawKeeps == ASSUME IInv, NEW l \in Layouts, Draw(l) PROVE IInv'
  <1> DEFINE c == hook.on
             new == [hook EXCEPT !.local = l]
  <1>1. c \in Canvases /\ hook \in Hook
    BY DEF IInv, TypeOK, Hook, Draw, Rendered
  <1>2. drawn[c] \in Nat /\ drawn[c] <= strokes[c] /\ strokes[c] < MaxStrokes /\ MaxStrokes \in Nat
    BY <1>1, CanvasAssumption DEF IInv, TypeOK, Sound, DrawnSound, Draw
  <1>3. strokes[c] \in Nat
    BY <1>1, CanvasAssumption DEF IInv, TypeOK
  <1>4. l \in LayoutsOf(c)
    <2>1. CASE l = <<c, drawn[c] + 1>>
      BY <1>1, <1>2, <1>3, <2>1 DEF LayoutsOf
    <2>2. CASE l \in ({c} \X (1..drawn[c])) \cup {Blank}
      BY <1>1, <1>2, <1>3, <2>2 DEF LayoutsOf
    <2>3. QED
      BY <2>1, <2>2 DEF Draw
  <1>5. new \in Hook /\ new.on = hook.on /\ new.local = l /\ new.hydrated = hook.hydrated
        /\ new.pending = hook.pending
    BY <1>1 DEF Hook
  <1>6. hook' = Armed(hook, new)
    BY DEF Draw
  <1> HIDE DEF new
  <1>7. hook' \in Hook /\ HookSound'
    BY <1>1, <1>4, <1>5, <1>6, ArmedSound, CanvasAssumption DEF IInv, Sound, HookSound
  <1>8. UNCHANGED <<cache, fetching, puts, server, unsaved, failures>>
    BY DEF Draw
  <1>9. last' \in [Canvases -> Layouts \cup {None}]
    BY DEF Draw, IInv, TypeOK
  <1>10. /\ strokes' = [strokes EXCEPT ![c] = @ + 1]
         /\ drawn' = [drawn EXCEPT ![c] = @ + 1] \/ drawn' = drawn
    BY DEF Draw, IInv, TypeOK
  <1> HIDE DEF c
  <1>11. /\ drawn' \in [Canvases -> 0..MaxStrokes]
         /\ strokes' \in [Canvases -> 0..MaxStrokes]
         /\ DrawnSound'
    <2>1. /\ drawn \in [Canvases -> 0..MaxStrokes] /\ strokes \in [Canvases -> 0..MaxStrokes]
          /\ DrawnSound
      BY DEF IInv, TypeOK, Sound
    <2>2. QED
      BY <1>1, <1>2, <1>3, <1>10, <2>1 DEF DrawnSound
  <1>12. TypeOK' /\ OwnCanvasOnly'
    BY <1>7, <1>8, <1>9, <1>11 DEF IInv, TypeOK, OwnCanvasOnly
  <1>13. Sound'
    BY <1>7, <1>8, <1>11 DEF IInv, Sound, CacheSound, InOrder, LastServed, CacheFresh, InFlight
  <1>14. QED
    BY <1>12, <1>13 DEF IInv

LEMMA CloseKeeps == ASSUME IInv, Close PROVE IInv'
  <1> DEFINE dead == [i \in DOMAIN puts |-> [puts[i] EXCEPT !.mine = FALSE]]
             p == [to |-> hook.pending.to, val |-> hook.pending.val,
                   mine |-> FALSE, applied |-> FALSE]
  <1>1. /\ hook' = Mounted(None) /\ UNCHANGED Rest /\ UNCHANGED <<cache, fetching>>
        /\ puts' = dead \/ (hook.pending # None /\ puts' = Append(dead, p))
    BY DEF Close, Rest
  <1>2. /\ dead \in Seq(Puts) /\ Len(dead) = Len(puts)
        /\ \A i \in DOMAIN puts : /\ dead[i].to = puts[i].to /\ dead[i].val = puts[i].val
                                 /\ dead[i].applied = puts[i].applied
    BY DeadPuts
  <1>3. hook.pending # None => p \in Puts /\ ~p.applied /\ p.val \in LayoutsOf(p.to)
    BY DEF IInv, TypeOK, Hook, Push, Puts, Sound, HookSound
  <1> HIDE DEF dead, p
  <1>4. puts \in Seq(Puts) /\ DOMAIN dead = DOMAIN puts
    BY <1>2 DEF IInv, TypeOK, Puts
  <1>5. PutsSound(dead, server)
    BY <1>2, <1>4, PutsAreSound DEF PutsSound
  <1>6. /\ PutsSound(puts', server)
        /\ \A i \in DOMAIN puts : \E j \in DOMAIN puts' : puts'[j].to = puts[i].to
    <2>1. CASE puts' = dead
      BY <1>2, <1>4, <1>5, <2>1
    <2>2. CASE hook.pending # None /\ puts' = Append(dead, p)
      <3>1. PutsSound(Append(dead, p), server)
        BY <1>3, <1>5, <2>2, AppendSound
      <3>2. \A i \in DOMAIN dead : \E j \in DOMAIN Append(dead, p) : Append(dead, p)[j].to = dead[i].to
        BY <1>3, <1>5, <2>2, AppendSound
      <3>3. \A i \in DOMAIN dead : dead[i].to = puts[i].to
        BY <1>2, <1>4
      <3>4. QED
        BY <1>4, <2>2, <3>1, <3>2, <3>3
    <2>3. QED
      BY <1>1, <2>1, <2>2
  <1>7. CacheKeeps'
    BY <1>1, <1>6, CacheUntouched
  <1>8. hook' \in Hook /\ HookSound'
    BY <1>1, MountedSound DEF HookSound
  <1>9. QED
    BY <1>1, <1>6, <1>7, <1>8, Assembled

LEMMA NavigateKeeps == ASSUME IInv, NEW c \in Canvases, Navigate(c) PROVE IInv'
  <1> DEFINE new == [Mounted(c) EXCEPT
                        !.status = IF hook.pending = None THEN hook.status ELSE "saving",
                        !.start = StartOn(c),
                        !.awaits = AwaitedOn,
                        !.moved = TRUE]
  <1>1. hook' = new /\ UNCHANGED Rest
    BY DEF Navigate, Rest
  <1>2. /\ hook \in Hook /\ StartOn(c) \in Layouts \cup {None}
        /\ AwaitedOn \in Canvases \cup {None}
    BY BlankTyped DEF IInv, TypeOK, Hook, StartOn, AwaitedOn
  <1>3. new \in Hook /\ new.on = c /\ ~new.hydrated /\ new.local = Blank /\ new.pending = None
    BY <1>2, MountedSound DEF Hook
  <1> HIDE DEF new
  <1>4. hook' \in Hook /\ HookSound'
    BY <1>1, <1>3, BlankTyped, CanvasAssumption DEF HookSound
  <1>5. /\ PutsSound(puts', server)
        /\ \A i \in DOMAIN puts : \E j \in DOMAIN puts' : puts'[j].to = puts[i].to
    <2>1. CASE hook.pending = None
      BY <2>1, PutsAreSound DEF Navigate
    <2>2. CASE hook.pending # None
      <3>1. hook.pending \in Push /\ hook.pending.val \in LayoutsOf(hook.pending.to)
        BY <2>2 DEF IInv, TypeOK, Hook, Sound, HookSound
      <3>2. Sends(hook.pending, TRUE)
        BY <2>2 DEF Navigate, Flushed
      <3>3. QED
        BY <3>1, <3>2, PushSound
    <2>3. QED
      BY <2>1, <2>2
  <1>6. CacheKeeps'
    BY <1>1, <1>5, ObserveKeeps DEF Navigate
  <1>7. QED
    BY <1>1, <1>4, <1>5, <1>6, Assembled

LEMMA PushPendingKeeps == ASSUME IInv, PushPending PROVE IInv'
  <1> DEFINE new == [hook EXCEPT !.pending = None, !.status = "saving"]
  <1>1. hook' = Armed(hook, new) /\ UNCHANGED Rest /\ UNCHANGED <<cache, fetching>>
    BY DEF PushPending, Rest
  <1>2. hook \in Hook
    BY DEF IInv, TypeOK
  <1>3. /\ new \in Hook /\ new.on = hook.on /\ new.local = hook.local
        /\ new.hydrated = hook.hydrated /\ new.pending = None
    BY <1>2 DEF Hook
  <1> HIDE DEF new
  <1>4. hook' \in Hook /\ HookSound'
    BY <1>1, <1>3, ArmedSound DEF IInv, Sound, HookSound
  <1>5. hook.pending \in Push /\ hook.pending.val \in LayoutsOf(hook.pending.to)
    BY DEF PushPending, IInv, TypeOK, Hook, Sound, HookSound
  <1>6. /\ PutsSound(puts', server)
        /\ \A i \in DOMAIN puts : \E j \in DOMAIN puts' : puts'[j].to = puts[i].to
    BY <1>5, PushSound DEF PushPending
  <1>7. CacheKeeps'
    BY <1>1, <1>6, CacheUntouched
  <1>8. QED
    BY <1>1, <1>4, <1>6, <1>7, Assembled

LEMMA HydrateKeeps == ASSUME IInv, Hydrate PROVE IInv'
  <1> DEFINE c == hook.on
             q == cache[c]
  <1>1. /\ hook' = Armed(hook, HydratedHook) /\ UNCHANGED Rest
        /\ UNCHANGED <<cache, fetching, puts>>
    BY DEF Hydrate, Rest
  <1>2. hook \in Hook /\ c \in Canvases /\ hook.local \in LayoutsOf(c)
    BY DEF Hydrate, IInv, TypeOK, Hook, Sound, HookSound
  <1>3. q.data \in LayoutsOf(c) \cup {None}
    BY <1>2 DEF IInv, Sound, CacheSound
  <1> HIDE DEF q
  <1>4. /\ Settlement \in Hook /\ Settlement.on = c /\ Settlement.local = hook.local
        /\ Settlement.pending = None
    BY <1>2 DEF Settlement, Hook
  <1> DEFINE offline == [Settlement EXCEPT !.status = "offline", !.synced = Blank]
             kept == [Settlement EXCEPT !.synced = Blank]
             applied == [Settlement EXCEPT !.local = q.data, !.synced = q.data, !.status = "idle"]
  <1>5. /\ offline \in Hook /\ kept \in Hook
        /\ offline.on = c /\ kept.on = c /\ offline.pending = None /\ kept.pending = None
        /\ offline.local = hook.local /\ kept.local = hook.local
    BY <1>4, BlankTyped DEF Hook
  <1>6. ASSUME q.data # None
        PROVE  /\ applied \in Hook /\ applied.on = c /\ applied.pending = None
               /\ applied.local \in LayoutsOf(c)
    <2>1. q.data \in LayoutsOf(c) /\ q.data \in Layouts
      BY <1>2, <1>3, <1>6, LayoutsAreOf
    <2>2. QED
      BY <1>4, <2>1 DEF Hook
  <1>7. \/ HydratedHook = offline
        \/ HydratedHook = kept
        \/ q.data # None /\ HydratedHook = applied
    BY DEF HydratedHook, q
  <1> HIDE DEF offline, kept, applied
  <1>8. /\ HydratedHook \in Hook /\ HydratedHook.on = c /\ HydratedHook.pending = None
        /\ HydratedHook.local \in LayoutsOf(c)
    BY <1>2, <1>5, <1>6, <1>7
  <1> HIDE DEF HydratedHook
  <1>9. hook' \in Hook /\ HookSound'
    BY <1>1, <1>2, <1>8, ArmedSound, CanvasAssumption
  <1>10. CacheKeeps'
    BY <1>1, CacheUntouched
  <1>11. PutsSound(puts', server)
    BY <1>1, PutsAreSound
  <1>12. QED
    BY <1>1, <1>9, <1>10, <1>11, Assembled

LEMMA GetAnsweredKeeps == ASSUME IInv, NEW c \in Canvases, GetAnswered(c) PROVE IInv'
  <1> DEFINE row == [state |-> "ok", data |-> server[c]]
  <1>1. /\ UNCHANGED Rest /\ UNCHANGED <<hook, puts>>
        /\ fetching' = fetching \ {c} /\ cache' = [cache EXCEPT ![c] = row]
    BY DEF GetAnswered, Rest
  <1>2. /\ row \in Query /\ row.state = "ok" /\ row.data = server[c]
        /\ server[c] \in LayoutsOf(c) \cup {None}
    BY DEF IInv, TypeOK, OwnCanvasOnly, Query
  <1> HIDE DEF row
  <1>3. cache \in [Canvases -> Query] /\ fetching \subseteq Canvases /\ CacheSound /\ CacheFresh
    BY DEF IInv, TypeOK, Sound
  <1>4. CacheSound'
    BY <1>1, <1>2, <1>3 DEF CacheSound
  <1>5. CacheFresh'
    BY <1>1, <1>2, <1>3 DEF CacheFresh, InFlight, Rest
  <1>6. CacheKeeps'
    BY <1>1, <1>2, <1>3, <1>4, <1>5 DEF CacheKeeps
  <1>7. hook' \in Hook /\ HookSound'
    BY <1>1 DEF IInv, TypeOK, Sound, HookSound
  <1>8. QED
    BY <1>1, <1>6, <1>7, PutsAreSound, Assembled

LEMMA GetFailsKeeps == ASSUME IInv, NEW c \in Canvases, GetFails(c) PROVE IInv'
  <1> DEFINE row == [state |-> "error", data |-> None]
  <1>1. /\ UNCHANGED <<hook, puts, server, last, unsaved, drawn, strokes>>
        /\ failures' = failures + 1 /\ failures < MaxFailures
        /\ fetching' = fetching \ {c} /\ cache' = [cache EXCEPT ![c] = row]
    BY DEF GetFails
  <1>2. row \in Query /\ row.state # "ok" /\ row.data = None
    BY DEF Query
  <1> HIDE DEF row
  <1>3. failures' \in 0..MaxFailures
    BY <1>1, CanvasAssumption DEF IInv, TypeOK
  <1>4. TypeOK' /\ OwnCanvasOnly'
    BY <1>1, <1>2, <1>3 DEF IInv, TypeOK, OwnCanvasOnly
  <1>5. cache \in [Canvases -> Query] /\ CacheSound /\ CacheFresh
    BY DEF IInv, TypeOK, Sound
  <1>6. CacheSound' /\ CacheFresh'
    BY <1>1, <1>2, <1>5 DEF CacheSound, CacheFresh, InFlight
  <1>7. Sound'
    BY <1>1, <1>6 DEF IInv, Sound, HookSound, DrawnSound, InOrder, LastServed
  <1>8. QED
    BY <1>4, <1>7 DEF IInv

LEMMA PutAppliedKeeps == ASSUME IInv, PutApplied PROVE IInv'
  <1>1. PICK i \in DOMAIN puts :
            /\ ~puts[i].applied
            /\ \A j \in 1..(i - 1) : puts[j].applied
            /\ puts' = [puts EXCEPT ![i].applied = TRUE]
            /\ server' = [server EXCEPT ![puts[i].to] = puts[i].val]
            /\ UNCHANGED <<hook, cache, fetching, last, unsaved, drawn, strokes, failures>>
    BY DEF PutApplied
  <1>2. server \in [Canvases -> Layouts \cup {None}]
    BY DEF IInv, TypeOK
  <1>3. /\ PutsSound(puts', server') /\ DOMAIN puts' = DOMAIN puts
        /\ \A j \in DOMAIN puts : puts'[j].to = puts[j].to
    <2> DEFINE t == [puts EXCEPT ![i].applied = TRUE]
               row == [server EXCEPT ![puts[i].to] = puts[i].val]
    <2>1. PutsSound(puts, server)
      BY PutsAreSound
    <2>2. PutsSound(t, row) /\ DOMAIN t = DOMAIN puts /\ \A j \in DOMAIN puts : t[j].to = puts[j].to
      BY <1>1, <1>2, <2>1, ServedSound
    <2>3. puts' = t /\ server' = row
      BY <1>1
    <2> HIDE DEF t, row
    <2>4. QED
      BY <2>2, <2>3
  <1>4. puts[i].to \in Canvases /\ puts[i].val \in Layouts /\ puts[i].val \in LayoutsOf(puts[i].to)
    <2>1. PutsSound(puts, server)
      BY PutsAreSound
    <2>2. puts[i] \in Puts /\ puts[i].val \in LayoutsOf(puts[i].to)
      BY <2>1 DEF PutsSound
    <2>3. QED
      BY <2>2 DEF Puts
  <1>5. /\ server' \in [Canvases -> Layouts \cup {None}]
        /\ \A c \in Canvases : server'[c] \in LayoutsOf(c) \cup {None}
        /\ \A c \in Canvases : c # puts[i].to => server'[c] = server[c]
    BY <1>1, <1>2, <1>4 DEF IInv, OwnCanvasOnly
  <1>6. /\ puts' \in Seq(Puts) /\ InOrder' /\ LastServed'
        /\ \A k \in DOMAIN puts' : puts'[k].val \in LayoutsOf(puts'[k].to)
    BY <1>3, PutsStaySound
  <1>7. TypeOK' /\ OwnCanvasOnly'
    BY <1>1, <1>5, <1>6 DEF IInv, TypeOK, OwnCanvasOnly, Puts
  <1>8. CacheFresh'
    <2>1. \A c \in Canvases : InFlight(c)' <=> InFlight(c)
      BY <1>3 DEF InFlight
    <2>2. \A c \in Canvases : ~InFlight(c) => c # puts[i].to
      BY DEF InFlight
    <2>3. QED
      BY <1>1, <1>5, <2>1, <2>2 DEF IInv, Sound, CacheFresh
  <1>9. Sound'
    BY <1>1, <1>6, <1>8 DEF IInv, Sound, HookSound, DrawnSound, CacheSound
  <1>10. QED
    BY <1>7, <1>9 DEF IInv

LEMMA PutAnsweredKeeps == ASSUME IInv, PutAnswered PROVE IInv'
  <1> DEFINE p == Head(puts)
             row == [state |-> "ok", data |-> p.val]
  <1>1. /\ puts # <<>> /\ p.applied /\ puts' = Tail(puts)
        /\ cache' = [cache EXCEPT ![p.to] = row]
        /\ hook' = IF p.mine THEN Armed(hook, Saved(p)) ELSE hook
        /\ unsaved' = unsaved \ {p.to}
        /\ UNCHANGED <<fetching, server, last, drawn, strokes, failures>>
    BY DEF PutAnswered, Cached
  <1>2. /\ PutsSound(puts', server') /\ p \in Puts /\ p.val \in LayoutsOf(p.to)
        /\ \A i \in DOMAIN puts : puts[i] = p \/ \E j \in DOMAIN puts' : puts'[j] = puts[i]
        /\ (\A j \in DOMAIN puts' : puts'[j].to = p.to => puts'[j].val = p.val)
              => server[p.to] = p.val
    BY <1>1, PutsAreSound, TailSound
  <1> HIDE DEF p
  <1>3. p.to \in Canvases /\ p.val \in Layouts
    BY <1>2 DEF Puts
  <1>4. row \in Query /\ row.state = "ok" /\ row.data = p.val
    BY <1>3 DEF Query
  <1> HIDE DEF row
  <1>5. hook' \in Hook /\ HookSound'
    <2>1. CASE p.mine
      <3>1. hook \in Hook
        BY DEF IInv, TypeOK
      <3>2. /\ Saved(p) \in Hook /\ Saved(p).on = hook.on /\ Saved(p).local = hook.local
            /\ Saved(p).hydrated = hook.hydrated /\ Saved(p).pending = hook.pending
        BY <1>3, <3>1 DEF Saved, Hook
      <3>3. QED
        BY <1>1, <2>1, <3>2, ArmedSound DEF IInv, Sound, HookSound
    <2>2. CASE ~p.mine
      BY <1>1, <2>2 DEF IInv, TypeOK, Sound, HookSound
    <2>3. QED
      BY <2>1, <2>2
  <1>6. cache \in [Canvases -> Query] /\ CacheSound /\ CacheFresh
    BY DEF IInv, TypeOK, Sound
  <1>7. cache' \in [Canvases -> Query] /\ CacheSound'
    BY <1>1, <1>2, <1>3, <1>4, <1>6 DEF CacheSound
  <1>8. CacheFresh'
    <2>1. ASSUME NEW c \in Canvases, c \notin unsaved', ~InFlight(c)', cache'[c].state = "ok"
          PROVE  cache'[c].data = server'[c]
      <3>1. CASE c = p.to
        BY <1>1, <1>2, <1>4, <1>6, <2>1, <3>1 DEF InFlight
      <3>2. CASE c # p.to
        <4>1. ~InFlight(c)
          BY <1>2, <2>1, <3>2 DEF InFlight
        <4>2. QED
          BY <1>1, <1>6, <2>1, <3>2, <4>1 DEF CacheFresh
      <3>3. QED
        BY <3>1, <3>2
    <2>2. QED
      BY <2>1 DEF CacheFresh
  <1>9. /\ puts' \in Seq(Puts) /\ InOrder' /\ LastServed'
        /\ \A k \in DOMAIN puts' : puts'[k].val \in LayoutsOf(puts'[k].to)
    BY <1>2, PutsStaySound
  <1>10. TypeOK' /\ OwnCanvasOnly'
    BY <1>1, <1>5, <1>7, <1>9 DEF IInv, TypeOK, OwnCanvasOnly, Puts
  <1>11. Sound'
    BY <1>1, <1>5, <1>7, <1>8, <1>9 DEF IInv, Sound, DrawnSound
  <1>12. QED
    BY <1>10, <1>11 DEF IInv

LEMMA PutFailsKeeps == ASSUME IInv, PutFails PROVE IInv'
  <1> DEFINE p == Head(puts)
             new == [hook EXCEPT !.status = "error"]
  <1>1. /\ puts # <<>> /\ puts' = Tail(puts)
        /\ failures < MaxFailures /\ failures' = failures + 1
        /\ hook' = IF p.mine THEN Armed(hook, new) ELSE hook
        /\ unsaved' = unsaved \cup {p.to}
        /\ last' = last \/ last' = [last EXCEPT ![p.to] = None]
        /\ UNCHANGED <<cache, fetching, server, drawn, strokes>>
    BY DEF PutFails
  <1>2. /\ PutsSound(puts', server') /\ p \in Puts
        /\ \A i \in DOMAIN puts : puts[i] = p \/ \E j \in DOMAIN puts' : puts'[j] = puts[i]
    BY <1>1, PutsAreSound, TailSound
  <1> HIDE DEF p
  <1>3. p.to \in Canvases
    BY <1>2 DEF Puts
  <1>4. hook' \in Hook /\ HookSound'
    <2>1. hook \in Hook
      BY DEF IInv, TypeOK
    <2>2. /\ new \in Hook /\ new.on = hook.on /\ new.local = hook.local
          /\ new.hydrated = hook.hydrated /\ new.pending = hook.pending
      BY <2>1 DEF Hook
    <2> HIDE DEF new
    <2>3. CASE p.mine
      BY <1>1, <2>2, <2>3, ArmedSound DEF IInv, Sound, HookSound
    <2>4. CASE ~p.mine
      BY <1>1, <2>4 DEF IInv, TypeOK, Sound, HookSound
    <2>5. QED
      BY <2>3, <2>4
  <1>5. CacheFresh'
    <2>1. ASSUME NEW c \in Canvases, c \notin unsaved', ~InFlight(c)', cache'[c].state = "ok"
          PROVE  cache'[c].data = server'[c]
      <3>1. c # p.to /\ c \notin unsaved
        BY <1>1, <2>1
      <3>2. ~InFlight(c)
        BY <1>2, <2>1, <3>1 DEF InFlight
      <3>3. QED
        BY <1>1, <2>1, <3>1, <3>2 DEF IInv, Sound, CacheFresh
    <2>2. QED
      BY <2>1 DEF CacheFresh
  <1>6. /\ puts' \in Seq(Puts) /\ InOrder' /\ LastServed'
        /\ \A k \in DOMAIN puts' : puts'[k].val \in LayoutsOf(puts'[k].to)
    BY <1>2, PutsStaySound
  <1>7. failures' \in 0..MaxFailures /\ last' \in [Canvases -> Layouts \cup {None}]
    <2>1. failures \in 0..MaxFailures /\ last \in [Canvases -> Layouts \cup {None}]
      BY DEF IInv, TypeOK
    <2>2. failures' \in 0..MaxFailures
      BY <1>1, <2>1, CanvasAssumption
    <2>3. QED
      BY <1>1, <2>1, <2>2
  <1>8. TypeOK' /\ OwnCanvasOnly'
    BY <1>1, <1>3, <1>4, <1>6, <1>7 DEF IInv, TypeOK, OwnCanvasOnly, Puts
  <1>9. Sound'
    BY <1>1, <1>4, <1>5, <1>6 DEF IInv, Sound, DrawnSound, CacheSound
  <1>10. QED
    BY <1>8, <1>9 DEF IInv

LEMMA IInvStep == IInv /\ [Next]_vars => IInv'
  <1> SUFFICES ASSUME IInv, [Next]_vars PROVE IInv'
    OBVIOUS
  <1>1. CASE UserNext
    BY <1>1, OpenKeeps, NavigateKeeps, DrawKeeps, CloseKeeps DEF UserNext
  <1>2. CASE PushPending
    BY <1>2, PushPendingKeeps
  <1>3. CASE Hydrate
    BY <1>3, HydrateKeeps
  <1>4. ASSUME NEW c \in Canvases, GetAnswered(c) \/ GetFails(c) PROVE IInv'
    BY <1>4, GetAnsweredKeeps, GetFailsKeeps
  <1>5. CASE PutApplied
    BY <1>5, PutAppliedKeeps
  <1>6. CASE PutAnswered
    BY <1>6, PutAnsweredKeeps
  <1>7. CASE PutFails
    BY <1>7, PutFailsKeeps
  <1>8. CASE UNCHANGED vars
    BY <1>8 DEF vars, IInv, TypeOK, OwnCanvasOnly, Sound, HookSound, DrawnSound, CacheSound,
                InOrder, LastServed, CacheFresh, InFlight
  <1>9. QED
    BY <1>1, <1>2, <1>3, <1>4, <1>5, <1>6, <1>7, <1>8 DEF Next

LEMMA IInvAlways == Spec => []IInv
  BY IInvInit, IInvStep, PTL DEF Spec

\* Every ref of the hook, entry of the query cache and row of the server keeps
\* its domain, whatever the user does while requests are in flight.
THEOREM TypeCorrect == Spec => []TypeOK
  BY IInvAlways, PTL DEF IInv

\* A push armed before the same instance moved on to another canvas reaches
\* the canvas it was armed for, as do an hydration and a cached answer.
THEOREM NoLayoutStrays == Spec => []OwnCanvasOnly
  BY IInvAlways, PTL DEF IInv

\* Nothing else hydrates an instance.
LEMMA OnlyHydrate ==
    ASSUME IInv, Next, ~hook.hydrated, hook'.hydrated PROVE Hydrate
  <1>0. hook \in Hook
    BY DEF IInv, TypeOK
  <1>1. ASSUME NEW d \in Canvases, Open(d) \/ Navigate(d) PROVE FALSE
    BY <1>0, <1>1 DEF Open, Navigate, Mounted
  <1>2. ASSUME NEW l \in Layouts, Draw(l) PROVE FALSE
    BY <1>0, <1>2 DEF Draw, Armed, Hook
  <1>3. ASSUME Close PROVE FALSE
    BY <1>3 DEF Close, Mounted
  <1>4. ASSUME PushPending PROVE FALSE
    BY <1>0, <1>4 DEF PushPending, Armed, Hook
  <1>5. ASSUME PutAnswered \/ PutFails PROVE FALSE
    BY <1>0, <1>5 DEF PutAnswered, PutFails, Saved, Armed, Hook
  <1>6. ASSUME PutApplied \/ \E d \in Canvases : GetAnswered(d) \/ GetFails(d) PROVE FALSE
    BY <1>6 DEF PutApplied, GetAnswered, GetFails
  <1>7. QED
    BY <1>1, <1>2, <1>3, <1>4, <1>5, <1>6 DEF Next, UserNext

\* An instance that hydrates from the cache shows what the server has: the
\* answer of each PUT refreshed the cache, and hydration waits for the PUTs
\* an earlier instance left in flight.
THEOREM ReopenIsFresh == Spec => ReopenShowsServer
  <1> DEFINE Fresh ==
        LET c == hook.on IN
        /\ ~hook.hydrated /\ hook'.hydrated
        /\ cache[c].data # None /\ ~UserTouched
        /\ c \notin unsaved
        => hook'.local = Shown(c)
  <1>1. IInv /\ [Next]_vars => [Fresh]_vars
    <2> SUFFICES ASSUME IInv, Next, ~hook.hydrated, hook'.hydrated, cache[hook.on].data # None,
                        ~UserTouched, hook.on \notin unsaved
                 PROVE  hook'.local = Shown(hook.on)
      BY DEF Fresh
    <2> DEFINE c == hook.on
    <2>1. hook \in Hook
      BY DEF IInv, TypeOK
    <2>2. Hydrate
      BY OnlyHydrate
    <2>3. c \in Canvases /\ ~InFlight(c)
      BY <2>1, <2>2 DEF Hydrate, Quiet, Hook
    <2>4. cache[c].state = "ok" /\ cache[c].data = server[c]
      BY <2>3 DEF IInv, Sound, CacheSound, CacheFresh
    <2> DEFINE new == [Settlement EXCEPT !.local = cache[c].data, !.synced = cache[c].data,
                                         !.status = "idle"]
    <2>5. HydratedHook = new
      BY <2>4 DEF HydratedHook
    <2>6. server[c] \in Layouts
      BY <2>3, <2>4 DEF IInv, TypeOK
    <2>7. Settlement \in Hook /\ Settlement.on = c
      BY <2>1 DEF Settlement, Hook
    <2>8. new \in Hook /\ new.on = c /\ new.local = server[c]
      BY <2>4, <2>6, <2>7 DEF Hook
    <2> HIDE DEF new
    <2>9. hook'.local = server[c]
      BY <2>2, <2>3, <2>5, <2>8, ArmedFields, CanvasAssumption DEF Hydrate
    <2>10. QED
      BY <2>4, <2>9 DEF Shown
  <1>2. QED
    BY IInvAlways, <1>1, PTL DEF Spec, ReopenShowsServer

-----------------------------------------------------------------------------
(* What an instance knows of its own PUTs, for a user who does not return  *)
(* to an earlier layout.                                                   *)

\* The layouts canvas c has had when n were drawn on it.
PastOf(c, n) == ({c} \X (0..n)) \cup {Blank}

Past == UNION { PastOf(c, drawn[c]) : c \in Canvases }

PastSound ==
    /\ \A c \in Canvases : /\ server[c] \in PastOf(c, drawn[c]) \cup {None}
                           /\ cache[c].data \in PastOf(c, drawn[c]) \cup {None}
                           /\ last[c] \in ({c} \X (1..drawn[c])) \cup {None}
    /\ \A i \in DOMAIN puts : puts[i].val \in PastOf(puts[i].to, drawn[puts[i].to])
    /\ hook.on # None => hook.local \in PastOf(hook.on, drawn[hook.on])
    /\ hook.synced \in Past \cup {None}

Shot(h) == [to |-> h.on, val |-> h.local]

\* The push that is armed is of what is on the screen.
PendingOk(h) ==
    /\ h.pending # None => h.hydrated /\ h.status # "offline" /\ h.pending = Shot(h)
    /\ h.hydrated => h.synced # None

\* An instance waits for the PUTs of the others before it hydrates, and has
\* sent those that are in flight to its canvas since.
MineOk(h, s) ==
    /\ h.on = None => ~h.moved
    /\ \A i \in DOMAIN s : h.hydrated /\ s[i].to = h.on => s[i].mine
    /\ \A i \in DOMAIN s :
          ~h.moved /\ s[i].mine => h.hydrated /\ s[i].to = h.on /\ h.status # "offline"
    /\ ~h.moved /\ ~h.hydrated => h.status = "idle" /\ h.start \in {Blank, None}

\* Once the layout on the screen was sent, the same is sent again.
SameAfter(s, c, l) ==
    \A i, j \in DOMAIN s :
        i < j /\ s[i].to = c /\ s[j].to = c /\ s[i].val = l => s[j].val = l

SameOk(h, s) == h.hydrated => SameAfter(s, h.on, h.local)

To(s, c) == \E i \in DOMAIN s : s[i].to = c

LastTo(s, c, i) == s[i].to = c /\ \A j \in DOMAIN s : i < j => s[j].to # c

\* The last PUT to canvas c, if any, is of layout l.
LastIs(s, c, l) == \A i \in DOMAIN s : LastTo(s, c, i) => s[i].val = l

\* An instance that says idle and has nothing armed.
Rests(h) == h.hydrated /\ ~h.moved /\ h.status = "idle" /\ h.pending = None

IdleOk(h, s) ==
    Rests(h) => (~To(s, h.on) => h.synced = h.local) /\ LastIs(s, h.on, h.local)

ErrorOk(h) == h.hydrated /\ h.status = "error" /\ h.pending = None => h.synced = h.local

HookOk(h, s) == PendingOk(h) /\ MineOk(h, s) /\ SameOk(h, s) /\ IdleOk(h, s) /\ ErrorOk(h)

IdleShown ==
    Rests(hook) /\ ~To(puts, hook.on) /\ hook.on \notin unsaved => hook.synced = Shown(hook.on)

HInv == PastSound /\ HookOk(hook, puts) /\ IdleShown

-----------------------------------------------------------------------------
(* Sequences of PUTs. *)

\* The same PUTs, whoever waits for them and served or not.
SamePuts(s, t) ==
    DOMAIN t = DOMAIN s /\ \A i \in DOMAIN s : t[i].to = s[i].to /\ t[i].val = s[i].val

LEMMA SamePutsFacts ==
    ASSUME NEW s, NEW t, SamePuts(s, t)
    PROVE  /\ \A c : To(t, c) <=> To(s, c)
           /\ \A c, l : SameAfter(s, c, l) <=> SameAfter(t, c, l)
           /\ \A c, l : LastIs(s, c, l) <=> LastIs(t, c, l)
  BY DEF SamePuts, To, SameAfter, LastIs, LastTo

LEMMA AppendFacts ==
    ASSUME NEW s \in Seq(Puts), NEW p \in Puts
    PROVE  /\ \A c : To(Append(s, p), c) <=> To(s, c) \/ p.to = c
           /\ \A c, l : SameAfter(s, c, l) /\ (p.to = c => p.val = l) => SameAfter(Append(s, p), c, l)
           /\ \A c, l : LastIs(s, c, l) /\ p.to # c => LastIs(Append(s, p), c, l)
           /\ \A c, l : p.to = c /\ p.val = l => LastIs(Append(s, p), c, l)
           /\ \A i \in DOMAIN Append(s, p) : Append(s, p)[i] = p \/ (i \in DOMAIN s /\ Append(s, p)[i] = s[i])
  <1> DEFINE t == Append(s, p)
             n == Len(s) + 1
  <1>1. /\ t \in Seq(Puts) /\ n \in Nat /\ t[n] = p
        /\ DOMAIN t = DOMAIN s \cup {n} /\ DOMAIN s \subseteq Nat
        /\ \A i \in DOMAIN s : t[i] = s[i] /\ i < n /\ ~(n < i)
    OBVIOUS
  <1> HIDE DEF t, n
  <1>2. \A c : To(t, c) <=> To(s, c) \/ p.to = c
    BY <1>1 DEF To
  <1>3. ASSUME NEW c, NEW l, SameAfter(s, c, l), p.to = c => p.val = l PROVE SameAfter(t, c, l)
    BY <1>1, <1>3 DEF SameAfter
  <1>4. ASSUME NEW c, NEW l, LastIs(s, c, l), p.to # c PROVE LastIs(t, c, l)
    <2>1. ASSUME NEW i \in DOMAIN t, LastTo(t, c, i) PROVE t[i].val = l
      <3>1. i \in DOMAIN s /\ LastTo(s, c, i)
        BY <1>1, <1>4, <2>1 DEF LastTo
      <3>2. QED
        BY <1>1, <1>4, <3>1 DEF LastIs
    <2>2. QED
      BY <2>1 DEF LastIs
  <1>5. ASSUME NEW c, NEW l, p.to = c, p.val = l PROVE LastIs(t, c, l)
    BY <1>1, <1>5 DEF LastIs, LastTo
  <1>6. \A i \in DOMAIN t : t[i] = p \/ (i \in DOMAIN s /\ t[i] = s[i])
    BY <1>1
  <1>7. QED
    BY <1>2, <1>3, <1>4, <1>5, <1>6 DEF t

LEMMA TailFacts ==
    ASSUME NEW s \in Seq(Puts), s # <<>>
    PROVE  /\ \A c : To(s, c) <=> To(Tail(s), c) \/ Head(s).to = c
           /\ \A c, l : SameAfter(s, c, l) => SameAfter(Tail(s), c, l)
           /\ \A c, l : LastIs(s, c, l) => LastIs(Tail(s), c, l)
           /\ \A c, l : LastIs(s, c, l) /\ Head(s).to = c /\ ~To(Tail(s), c) => Head(s).val = l
           /\ \A c, l : SameAfter(s, c, l) /\ Head(s).to = c /\ Head(s).val = l =>
                 \A i \in DOMAIN Tail(s) : Tail(s)[i].to = c => Tail(s)[i].val = l
           /\ \A i \in DOMAIN Tail(s) : \E j \in DOMAIN s : Tail(s)[i] = s[j]
           /\ \E j \in DOMAIN s : Head(s) = s[j]
  <1> DEFINE t == Tail(s)
  <1>1. /\ DOMAIN t = 1..(Len(s) - 1) /\ DOMAIN s = 1..Len(s) /\ Len(s) \in Nat
        /\ Head(s) = s[1] /\ 1 \in DOMAIN s
        /\ \A i \in DOMAIN t : t[i] = s[i + 1] /\ i + 1 \in DOMAIN s /\ 1 < i + 1
    OBVIOUS
  <1> HIDE DEF t
  <1>2. \A k \in DOMAIN s : k = 1 \/ (k - 1 \in DOMAIN t /\ t[k - 1] = s[k])
    BY <1>1
  <1>3. \A c : To(s, c) <=> To(t, c) \/ s[1].to = c
    BY <1>1, <1>2 DEF To
  <1>4. ASSUME NEW c, NEW l, SameAfter(s, c, l) PROVE SameAfter(t, c, l)
    <2>1. ASSUME NEW i \in DOMAIN t, NEW j \in DOMAIN t, i < j, t[i].to = c, t[j].to = c, t[i].val = l
          PROVE  t[j].val = l
      <3>1. i + 1 < j + 1
        BY <1>1, <2>1
      <3>2. QED
        BY <1>1, <1>4, <2>1, <3>1 DEF SameAfter
    <2>2. QED
      BY <2>1 DEF SameAfter
  <1>5. ASSUME NEW c, NEW l, LastIs(s, c, l) PROVE LastIs(t, c, l)
    <2>1. ASSUME NEW i \in DOMAIN t, LastTo(t, c, i) PROVE t[i].val = l
      <3>1. ASSUME NEW k \in DOMAIN s, i + 1 < k PROVE s[k].to # c
        <4>1. k - 1 \in DOMAIN t /\ t[k - 1] = s[k] /\ i < k - 1
          BY <1>1, <1>2, <3>1
        <4>2. QED
          BY <2>1, <4>1 DEF LastTo
      <3>2. LastTo(s, c, i + 1)
        BY <1>1, <2>1, <3>1 DEF LastTo
      <3>3. QED
        BY <1>1, <1>5, <2>1, <3>2 DEF LastIs
    <2>2. QED
      BY <2>1 DEF LastIs
  <1>6. ASSUME NEW c, NEW l, LastIs(s, c, l), s[1].to = c, ~To(t, c) PROVE s[1].val = l
    <2>1. ASSUME NEW k \in DOMAIN s, 1 < k PROVE s[k].to # c
      BY <1>1, <1>2, <1>6, <2>1 DEF To
    <2>2. QED
      BY <1>1, <1>6, <2>1 DEF LastIs, LastTo
  <1>7. ASSUME NEW c, NEW l, SameAfter(s, c, l), s[1].to = c, s[1].val = l,
               NEW i \in DOMAIN t, t[i].to = c
        PROVE  t[i].val = l
    BY <1>1, <1>7 DEF SameAfter
  <1>8. QED
    BY <1>1, <1>3, <1>4, <1>5, <1>6, <1>7 DEF t

LEMMA ServedSame ==
    ASSUME NEW s \in Seq(Puts), NEW i \in DOMAIN s
    PROVE  /\ SamePuts(s, [s EXCEPT ![i].applied = TRUE])
           /\ \A j \in DOMAIN s : [s EXCEPT ![i].applied = TRUE][j].mine = s[j].mine
  <1> DEFINE q == [s[i] EXCEPT !.applied = TRUE]
             t == [s EXCEPT ![i].applied = TRUE]
  <1>1. s[i] \in Puts /\ DOMAIN s = 1..Len(s)
    OBVIOUS
  <1>2. q.to = s[i].to /\ q.val = s[i].val /\ q.mine = s[i].mine
    BY <1>1 DEF Puts
  <1>3. t = [s EXCEPT ![i] = q]
    BY <1>1
  <1> HIDE DEF q, t
  <1>4. DOMAIN t = DOMAIN s /\ t[i] = q /\ \A j \in DOMAIN s : j # i => t[j] = s[j]
    BY <1>1, <1>3
  <1>5. SamePuts(s, t) /\ \A j \in DOMAIN s : t[j].mine = s[j].mine
    BY <1>2, <1>4 DEF SamePuts
  <1>6. QED
    BY <1>5 DEF t

-----------------------------------------------------------------------------
(* The effects of the hook. *)

\* Everything but the armed push.
SameHook(h, g) ==
    /\ h.on = g.on /\ h.local = g.local /\ h.hydrated = g.hydrated /\ h.status = g.status
    /\ h.synced = g.synced /\ h.start = g.start /\ h.moved = g.moved

Ran(old, new) == <<old.status, old.local, old.hydrated>> # <<new.status, new.local, new.hydrated>>

\* What the push effect arms, and when.
LEMMA ArmedCases ==
    ASSUME NEW old, NEW new \in Hook, new.hydrated => new.on # None
    PROVE  /\ Armed(old, new) \in Hook /\ SameHook(Armed(old, new), new)
           /\ \/ Armed(old, new).pending = new.pending
              \/ new.hydrated /\ new.status # "offline" /\ Armed(old, new).pending = Shot(new)
           /\ /\ Ran(old, new) /\ new.hydrated /\ new.status # "offline"
              /\ new.synced # None /\ new.synced # new.local
              => Armed(old, new).pending = Shot(new)
  <1> DEFINE push == Shot(new)
             armed == [new EXCEPT !.pending = push]
             cond == /\ Ran(old, new) /\ new.hydrated /\ new.status # "offline"
                     /\ new.synced # None /\ new.synced # new.local
  <1>1. Armed(old, new) = IF cond THEN armed ELSE new
    BY DEF Armed, Ran, Shot
  <1>2. CASE ~cond
    BY <1>1, <1>2 DEF SameHook
  <1>3. CASE cond
    <2>1. push \in Push
      BY <1>3 DEF Hook, Push, Shot
    <2> HIDE DEF push
    <2>2. armed \in Hook /\ SameHook(armed, new) /\ armed.pending = push
      BY <2>1 DEF Hook, SameHook
    <2>3. QED
      BY <1>1, <1>3, <2>2 DEF push
  <1>4. QED
    BY <1>2, <1>3

\* The effects keep what they are given, and leave no layout unsent.
LEMMA ShotIsPush == ASSUME NEW h \in Hook, h.on # None PROVE Shot(h) \in Push /\ Shot(h) # None
  <1>1. h.on \in Canvases /\ h.local \in Layouts
    BY DEF Hook
  <1>2. Layouts \subseteq (Canvases \X Nat) \cup {Blank}
    BY CanvasAssumption DEF Layouts, LayoutsOf
  <1>3. Shot(h) \in Push /\ Shot(h) \in [to : Canvases, val : (Canvases \X Nat) \cup {Blank}]
    BY <1>1, <1>2 DEF Shot, Push
  <1>4. QED
    BY <1>3, CanvasAssumption

LEMMA ArmedPending ==
    ASSUME NEW old, NEW new \in Hook, new.hydrated => new.on # None, PendingOk(new)
    PROVE  /\ PendingOk(Armed(old, new))
           /\ Ran(old, new) /\ new.hydrated /\ new.status # "offline" /\ Armed(old, new).pending = None
                 => new.synced = new.local
           /\ Armed(old, new).pending = None => new.pending = None
  <1> DEFINE h == Armed(old, new)
  <1>1. /\ SameHook(h, new)
        /\ \/ h.pending = new.pending
           \/ new.hydrated /\ new.status # "offline" /\ h.pending = Shot(new)
        /\ /\ Ran(old, new) /\ new.hydrated /\ new.status # "offline"
           /\ new.synced # None /\ new.synced # new.local
           => h.pending = Shot(new)
    BY ArmedCases
  <1>2. new.hydrated => Shot(new) # None
    BY ShotIsPush
  <1> HIDE DEF h
  <1>3. Shot(h) = Shot(new)
    BY <1>1 DEF SameHook, Shot
  <1>4. PendingOk(h)
    BY <1>1, <1>3 DEF PendingOk, SameHook
  <1>5. Ran(old, new) /\ new.hydrated /\ new.status # "offline" /\ h.pending = None
                    => new.synced = new.local
    BY <1>1, <1>2 DEF PendingOk
  <1>6. h.pending = None => new.pending = None
    BY <1>1, <1>2
  <1>7. QED
    BY <1>4, <1>5, <1>6 DEF h

-----------------------------------------------------------------------------
(* Its steps. *)

\* What the types say here.
LEMMA Typed ==
    ASSUME IInv
    PROVE  /\ hook \in Hook /\ cache \in [Canvases -> Query] /\ fetching \subseteq Canvases
           /\ puts \in Seq(Puts) /\ server \in [Canvases -> Layouts \cup {None}]
           /\ last \in [Canvases -> Layouts \cup {None}]
           /\ unsaved \subseteq Canvases /\ drawn \in [Canvases -> Nat]
           /\ \A i \in DOMAIN puts : puts[i] \in Puts /\ puts[i].to \in Canvases
           /\ hook.on = None => ~hook.hydrated
           /\ hook.on \in Canvases \cup {None}
  <1>1. puts \in Seq(Puts)
    BY DEF IInv, TypeOK, Puts
  <1>2. \A i \in DOMAIN puts : puts[i] \in Puts /\ puts[i].to \in Canvases
    <2>1. \A i \in DOMAIN puts : puts[i] \in Puts
      BY <1>1
    <2>2. QED
      BY <2>1 DEF Puts
  <1>3. drawn \in [Canvases -> Nat]
    BY CanvasAssumption DEF IInv, TypeOK
  <1>4. QED
    BY <1>1, <1>2, <1>3 DEF IInv, TypeOK, Sound, HookSound, Hook

LEMMA HInvInit == Init => HInv
  <1> SUFFICES ASSUME Init PROVE HInv
    OBVIOUS
  <1>1. /\ hook = Mounted(None) /\ puts = <<>> /\ drawn = [c \in Canvases |-> 0]
        /\ last = [c \in Canvases |-> None] /\ cache = [c \in Canvases |-> Absent]
        /\ \A c \in Canvases : server[c] \in {None, <<c, 0>>}
    BY DEF Init
  <1>2. /\ hook.on = None /\ ~hook.hydrated /\ hook.synced = None /\ hook.pending = None
        /\ ~hook.moved /\ hook.status = "idle" /\ hook.start = None
    BY <1>1 DEF Mounted
  <1>3. PastSound
    <2>1. ASSUME NEW c \in Canvases PROVE server[c] \in PastOf(c, drawn[c]) \cup {None}
      <3>1. drawn[c] = 0 /\ 0 \in 0..drawn[c]
        BY <1>1
      <3>2. QED
        BY <1>1, <3>1 DEF PastOf
    <2>2. QED
      BY <1>1, <1>2, <2>1 DEF PastSound, Absent
  <1>4. HookOk(hook, puts)
    BY <1>1, <1>2 DEF HookOk, PendingOk, MineOk, SameOk, IdleOk, ErrorOk, Rests
  <1>5. QED
    BY <1>2, <1>3, <1>4 DEF HInv, IdleShown, Rests

\* An hydrated instance is told of every PUT of its canvas.
LEMMA HookUntouched ==
    ASSUME HookOk(hook, puts), UNCHANGED hook, SamePuts(puts, puts'),
           \A i \in DOMAIN puts : puts'[i].mine = puts[i].mine
    PROVE  HookOk(hook', puts')
  <1>1. /\ \A c : To(puts', c) <=> To(puts, c)
        /\ \A c, l : SameAfter(puts, c, l) <=> SameAfter(puts', c, l)
        /\ \A c, l : LastIs(puts, c, l) <=> LastIs(puts', c, l)
    BY SamePutsFacts
  <1>2. MineOk(hook', puts')
    BY DEF HookOk, MineOk, SamePuts
  <1>3. SameOk(hook', puts') /\ IdleOk(hook', puts')
    BY <1>1 DEF HookOk, SameOk, IdleOk
  <1>4. QED
    BY <1>2, <1>3 DEF HookOk

LEMMA GetAnsweredH == ASSUME IInv, HInv, NEW c \in Canvases, GetAnswered(c) PROVE HInv'
  <1> DEFINE row == [state |-> "ok", data |-> server[c]]
  <1>1. /\ UNCHANGED <<hook, puts, server, last, unsaved, drawn>>
        /\ cache' = [cache EXCEPT ![c] = row]
    BY DEF GetAnswered
  <1>2. row.data = server[c]
    OBVIOUS
  <1> HIDE DEF row
  <1>3. \A d \in Canvases : cache'[d].data = cache[d].data \/ cache'[d].data = server[d]
    BY <1>1, <1>2, Typed
  <1>4. PastSound'
    BY <1>1, <1>3 DEF HInv, PastSound, PastOf, Past
  <1>5. HookOk(hook', puts')
    BY <1>1, HookUntouched DEF HInv, SamePuts
  <1>6. QED
    BY <1>1, <1>4, <1>5 DEF HInv, IdleShown, Shown, To

LEMMA GetFailsH == ASSUME IInv, HInv, NEW c \in Canvases, GetFails(c) PROVE HInv'
  <1> DEFINE row == [state |-> "error", data |-> None]
  <1>1. /\ UNCHANGED <<hook, puts, server, last, unsaved, drawn>>
        /\ cache' = [cache EXCEPT ![c] = row]
    BY DEF GetFails
  <1>2. row.data = None
    OBVIOUS
  <1> HIDE DEF row
  <1>3. \A d \in Canvases : cache'[d].data = cache[d].data \/ cache'[d].data = None
    BY <1>1, <1>2, Typed
  <1>4. PastSound'
    BY <1>1, <1>3 DEF HInv, PastSound, PastOf, Past
  <1>5. HookOk(hook', puts')
    BY <1>1, HookUntouched DEF HInv, SamePuts
  <1>6. QED
    BY <1>1, <1>4, <1>5 DEF HInv, IdleShown, Shown, To

LEMMA PutAppliedH == ASSUME IInv, HInv, PutApplied PROVE HInv'
  <1>1. PICK i \in DOMAIN puts :
            /\ puts' = [puts EXCEPT ![i].applied = TRUE]
            /\ server' = [server EXCEPT ![puts[i].to] = puts[i].val]
            /\ UNCHANGED <<hook, cache, last, unsaved, drawn>>
    BY DEF PutApplied
  <1>2. SamePuts(puts, puts') /\ \A j \in DOMAIN puts : puts'[j].mine = puts[j].mine
    BY <1>1, Typed, ServedSame
  <1>3. /\ puts[i].to \in Canvases /\ server'[puts[i].to] = puts[i].val
        /\ \A c \in Canvases : c # puts[i].to => server'[c] = server[c]
    BY <1>1, Typed
  <1>4. PastSound'
    <2>1. \A c \in Canvases : server'[c] \in PastOf(c, drawn[c]) \cup {None}
      BY <1>3 DEF HInv, PastSound
    <2>2. \A j \in DOMAIN puts' : puts'[j].val \in PastOf(puts'[j].to, drawn[puts'[j].to])
      BY <1>2 DEF HInv, PastSound, SamePuts
    <2>3. QED
      BY <1>1, <2>1, <2>2 DEF HInv, PastSound, PastOf, Past
  <1>5. HookOk(hook', puts')
    BY <1>1, <1>2, HookUntouched DEF HInv
  <1>6. IdleShown'
    <2>1. \A c \in Canvases : To(puts', c) <=> To(puts, c)
      BY <1>2, SamePutsFacts
    <2>2. To(puts, puts[i].to)
      BY DEF To
    <2>3. hook.hydrated => hook.on \in Canvases
      BY Typed
    <2>4. QED
      BY <1>1, <1>3, <2>1, <2>2, <2>3 DEF HInv, IdleShown, Shown, Rests
  <1>7. QED
    BY <1>4, <1>5, <1>6 DEF HInv

\* Nothing but its types is asked of a hook that has not hydrated.
LEMMA ObserveKeepsPast ==
    ASSUME IInv, PastSound, NEW c \in Canvases, Observe(c)
    PROVE  \A d \in Canvases : cache'[d].data \in PastOf(d, drawn[d]) \cup {None}
  <1>1. Absent.data = None
    BY DEF Absent
  <1>2. CASE Fetches(c)
    <2>1. cache' = [cache EXCEPT ![c] = Absent]
      BY <1>2 DEF Observe
    <2> HIDE DEF Absent
    <2>2. \A d \in Canvases : cache'[d].data = cache[d].data \/ cache'[d].data = None
      BY <1>1, <2>1, Typed
    <2>3. QED
      BY <2>2 DEF PastSound
  <1>3. CASE ~Fetches(c)
    BY <1>3 DEF Observe, PastSound
  <1>4. QED
    BY <1>2, <1>3

LEMMA OpenH == ASSUME IInv, HInv, NEW c \in Canvases, Open(c) PROVE HInv'
  <1> DEFINE new == [Mounted(c) EXCEPT !.start = IF Fetches(c) THEN Blank ELSE None]
  <1>1. /\ new.on = c /\ ~new.hydrated /\ new.local = Blank /\ new.pending = None /\ new.synced = None
        /\ ~new.moved /\ new.status = "idle" /\ new.start \in {Blank, None}
    BY DEF Mounted
  <1>2. hook' = new /\ hook.on = None /\ Observe(c) /\ UNCHANGED <<puts, server, last, unsaved, drawn>>
    BY DEF Open
  <1> HIDE DEF new
  <1>3. PastSound'
    <2>1. \A d \in Canvases : cache'[d].data \in PastOf(d, drawn[d]) \cup {None}
      BY <1>2, ObserveKeepsPast DEF HInv
    <2>2. Blank \in PastOf(c, drawn[c])
      BY DEF PastOf
    <2>3. QED
      BY <1>1, <1>2, <2>1, <2>2 DEF HInv, PastSound, PastOf, Past
  <1>4. \A i \in DOMAIN puts : ~puts[i].mine
    BY <1>2, Typed DEF HInv, HookOk, MineOk
  <1>5. HookOk(hook', puts')
    BY <1>1, <1>2, <1>4, CanvasAssumption DEF HookOk, PendingOk, MineOk, SameOk, IdleOk, ErrorOk, Rests
  <1>6. QED
    BY <1>1, <1>2, <1>3, <1>5 DEF HInv, IdleShown, Rests

\* A user who never returns to a layout draws one the canvas never had.
LEMMA DrawIsNew ==
    ASSUME IInv, ~Undo, NEW l \in Layouts, Draw(l)
    PROVE  /\ hook.on \in Canvases /\ l \notin Past \cup {None}
           /\ \A d \in Canvases : PastOf(d, drawn[d]) \subseteq PastOf(d, drawn'[d])
           /\ \A d \in Canvases : ({d} \X (1..drawn[d])) \subseteq ({d} \X (1..drawn'[d]))
           /\ l \in {hook.on} \X (1..drawn'[hook.on])
  <1> DEFINE c == hook.on
             n == drawn[c] + 1
  <1>1. c \in Canvases
    BY Typed DEF Draw, Rendered
  <1>2. l = <<c, n>>
    BY DEF Draw
  <1>3. drawn' = [drawn EXCEPT ![c] = n]
    BY <1>2 DEF Draw
  <1>4. /\ drawn \in [Canvases -> Nat] /\ n \in Nat /\ n \in 1..n /\ n \notin 0..drawn[c]
        /\ 0..drawn[c] \subseteq 0..n /\ 1..drawn[c] \subseteq 1..n
    BY <1>1, Typed
  <1> HIDE DEF c, n
  <1>5. drawn'[c] = n /\ \A d \in Canvases : d # c => drawn'[d] = drawn[d]
    BY <1>1, <1>3, <1>4
  <1>6. \A d \in Canvases : 0..drawn[d] \subseteq 0..drawn'[d] /\ 1..drawn[d] \subseteq 1..drawn'[d]
    BY <1>4, <1>5
  <1>7. \A d \in Canvases : PastOf(d, drawn[d]) \subseteq PastOf(d, drawn'[d])
    BY <1>6 DEF PastOf
  <1>8. l \in Canvases \X Nat
    BY <1>1, <1>2, <1>4
  <1>9. l # Blank /\ l # None
    BY <1>8, CanvasAssumption
  <1>10. \A d \in Canvases : l \notin PastOf(d, drawn[d])
    BY <1>2, <1>4, <1>9 DEF PastOf
  <1>11. QED
    BY <1>1, <1>2, <1>4, <1>5, <1>6, <1>7, <1>9, <1>10 DEF c, Past

LEMMA DrawH == ASSUME IInv, HInv, ~Undo, NEW l \in Layouts, Draw(l) PROVE HInv'
  <1> DEFINE c == hook.on
             new == [hook EXCEPT !.local = l]
  <1>1. /\ c \in Canvases /\ l \notin Past \cup {None}
        /\ \A d \in Canvases : PastOf(d, drawn[d]) \subseteq PastOf(d, drawn'[d])
        /\ \A d \in Canvases : ({d} \X (1..drawn[d])) \subseteq ({d} \X (1..drawn'[d]))
        /\ l \in {c} \X (1..drawn'[c])
    BY DrawIsNew
  <1>2. /\ hook' = Armed(hook, new)
        /\ last' = [last EXCEPT ![c] = IF hook.hydrated /\ hook.status # "offline" THEN l ELSE None]
        /\ UNCHANGED <<cache, puts, server, unsaved>>
    BY DEF Draw
  <1>3. /\ new \in Hook /\ new.on = c /\ new.local = l /\ new.hydrated = hook.hydrated
        /\ new.status = hook.status /\ new.synced = hook.synced /\ new.pending = hook.pending
        /\ new.start = hook.start /\ new.moved = hook.moved
    BY Typed DEF Hook
  <1> HIDE DEF new
  <1>4. /\ PastOf(c, drawn[c]) \subseteq Past /\ hook.local \in PastOf(c, drawn[c])
        /\ hook.synced \in Past \cup {None}
    BY <1>1, CanvasAssumption DEF Past, HInv, PastSound
  <1>5. l # hook.local /\ l # hook.synced /\ Ran(hook, new)
    BY <1>1, <1>3, <1>4 DEF Ran
  <1>6. /\ hook' \in Hook /\ SameHook(hook', new)
        /\ \/ hook'.pending = new.pending
           \/ new.hydrated /\ new.status # "offline" /\ hook'.pending = Shot(new)
        /\ new.hydrated /\ new.status # "offline" /\ new.synced # None /\ new.synced # new.local
              => hook'.pending = Shot(new)
    BY <1>1, <1>2, <1>3, <1>5, ArmedCases, CanvasAssumption
  <1>7. PendingOk(hook)
    BY DEF HInv, HookOk
  <1>8. /\ hook.hydrated /\ hook.status # "offline" => hook'.pending = Shot(new) /\ hook'.pending # None
        /\ ~hook.hydrated \/ hook.status = "offline" => hook'.pending = None
    <2>1. Shot(new) # None
      BY <1>1, <1>3, ShotIsPush, CanvasAssumption
    <2>2. QED
      BY <1>3, <1>5, <1>6, <1>7, <2>1 DEF PendingOk
  <1>9. PendingOk(hook')
    BY <1>3, <1>6, <1>7, <1>8 DEF PendingOk, SameHook, Shot
  <1>10. MineOk(hook', puts')
    BY <1>2, <1>3, <1>6 DEF HInv, HookOk, MineOk, SameHook
  <1>11. SameOk(hook', puts')
    <2>1. \A i \in DOMAIN puts : puts[i].val # l
      BY <1>1, Typed DEF HInv, PastSound, Past
    <2>2. QED
      BY <1>2, <1>3, <1>6, <2>1 DEF SameOk, SameAfter, SameHook
  <1>12. ~Rests(hook') /\ ErrorOk(hook')
    BY <1>3, <1>6, <1>8 DEF Rests, ErrorOk, SameHook
  <1>13. PastSound'
    <2>1. \A d \in Canvases : last'[d] \in ({d} \X (1..drawn'[d])) \cup {None}
      BY <1>1, <1>2, Typed DEF HInv, PastSound
    <2>2. l \in PastOf(c, drawn'[c])
      BY <1>1 DEF PastOf
    <2>3. Past \subseteq Past'
      BY <1>1 DEF Past
    <2>4. \A d \in Canvases : server'[d] \in PastOf(d, drawn'[d]) \cup {None}
          /\ cache'[d].data \in PastOf(d, drawn'[d]) \cup {None}
      BY <1>1, <1>2 DEF HInv, PastSound
    <2>5. \A i \in DOMAIN puts' : puts'[i].val \in PastOf(puts'[i].to, drawn'[puts'[i].to])
      BY <1>1, <1>2, Typed DEF HInv, PastSound
    <2>6. hook'.on = c /\ hook'.local = l /\ hook'.synced = hook.synced
      BY <1>3, <1>6 DEF SameHook
    <2>7. QED
      BY <1>4, <2>1, <2>2, <2>3, <2>4, <2>5, <2>6 DEF PastSound
  <1>14. HookOk(hook', puts')
    BY <1>9, <1>10, <1>11, <1>12 DEF HookOk, IdleOk
  <1>15. IdleShown'
    BY <1>12 DEF IdleShown, Rests
  <1>16. QED
    BY <1>13, <1>14, <1>15 DEF HInv


\* The hook as hydration leaves it before the push effect.
LEMMA HydratedCases ==
    ASSUME IInv, hook.on \in Canvases
    PROVE  LET h == HydratedHook
               d == cache[hook.on].data
           IN  /\ h \in Hook /\ h.on = hook.on /\ h.hydrated /\ h.pending = None
               /\ h.start = hook.start /\ h.moved = hook.moved
               /\ \/ /\ cache[hook.on].state = "error"
                     /\ h.status = "offline" /\ h.local = hook.local /\ h.synced = Blank
                  \/ /\ cache[hook.on].state # "error" /\ (d = None \/ UserTouched)
                     /\ h.status = hook.status /\ h.local = hook.local /\ h.synced = Blank
                  \/ /\ cache[hook.on].state # "error" /\ d # None /\ ~UserTouched
                     /\ h.status = "idle" /\ h.local = d /\ h.synced = d
  <1> DEFINE q == cache[hook.on]
             offline == [Settlement EXCEPT !.status = "offline", !.synced = Blank]
             kept == [Settlement EXCEPT !.synced = Blank]
             applied == [Settlement EXCEPT !.local = q.data, !.synced = q.data, !.status = "idle"]
             Settled(h) == /\ h \in Hook /\ h.on = hook.on /\ h.hydrated /\ h.pending = None
                           /\ h.start = hook.start /\ h.moved = hook.moved
  <1>1. /\ Settled(Settlement) /\ Settlement.status = hook.status /\ Settlement.local = hook.local
    BY Typed DEF Settlement, Hook
  <1>2. q.data \in Layouts \cup {None}
    BY Typed DEF Query
  <1> HIDE DEF Settlement, q
  <1>3. Settled(offline) /\ offline.status = "offline"
            /\ offline.local = hook.local /\ offline.synced = Blank
    BY <1>1, BlankTyped DEF Hook
  <1>4. Settled(kept) /\ kept.status = hook.status /\ kept.local = hook.local /\ kept.synced = Blank
    BY <1>1, BlankTyped DEF Hook
  <1>5. q.data # None =>
            Settled(applied) /\ applied.status = "idle"
               /\ applied.local = q.data /\ applied.synced = q.data
    BY <1>1, <1>2 DEF Hook
  <1>6. HydratedHook = IF q.state = "error" THEN offline
                       ELSE IF q.data = None \/ UserTouched THEN kept ELSE applied
    BY DEF HydratedHook, q
  <1> HIDE DEF offline, kept, applied
  <1>7. QED
    BY <1>3, <1>4, <1>5, <1>6 DEF q

LEMMA HydrateH == ASSUME IInv, HInv, Hydrate PROVE HInv'
  <1> DEFINE c == hook.on
             d == cache[c].data
             new == HydratedHook
  <1>1. /\ hook' = Armed(hook, new) /\ UNCHANGED <<cache, puts, server, last, unsaved, drawn>>
        /\ c \in Canvases /\ ~hook.hydrated /\ ~To(puts, c) /\ cache[c].state # "absent"
    BY Typed DEF Hydrate, Quiet, SettledQuery, InFlight, To
  <1>2. /\ new \in Hook /\ new.on = c /\ new.hydrated /\ new.pending = None
        /\ new.start = hook.start /\ new.moved = hook.moved
        /\ \/ new.status = "offline" /\ new.local = hook.local /\ new.synced = Blank
           \/ /\ cache[c].state # "error" /\ (d = None \/ UserTouched)
              /\ new.status = hook.status /\ new.local = hook.local /\ new.synced = Blank
           \/ /\ cache[c].state # "error" /\ d # None
              /\ new.status = "idle" /\ new.local = d /\ new.synced = d
    BY <1>1, HydratedCases
  <1> HIDE DEF new
  <1>3. /\ cache[c].state # "error" => cache[c].state = "ok"
        /\ cache[c].state = "ok" /\ c \notin unsaved => d = server[c]
    <2>1. cache[c] \in Query
      BY <1>1, Typed
    <2>2. ~InFlight(c)
      BY <1>1 DEF InFlight, To
    <2>3. QED
      BY <1>1, <2>1, <2>2 DEF Query, IInv, Sound, CacheFresh
  <1>4. PendingOk(new) /\ Ran(hook, new) /\ new.synced # None
    BY <1>1, <1>2, CanvasAssumption DEF PendingOk, Ran
  <1>5. /\ hook' \in Hook /\ SameHook(hook', new)
    BY <1>1, <1>2, ArmedCases, CanvasAssumption
  <1>6. /\ PendingOk(hook')
        /\ new.status # "offline" /\ hook'.pending = None => new.synced = new.local
    BY <1>1, <1>2, <1>4, ArmedPending, CanvasAssumption
  <1>7. \A i \in DOMAIN puts : puts[i].to # c
    BY <1>1 DEF To
  <1>8. MineOk(hook', puts')
    BY <1>1, <1>2, <1>5, <1>7, CanvasAssumption DEF HInv, HookOk, MineOk, SameHook
  <1>9. SameOk(hook', puts')
    BY <1>1, <1>2, <1>5, <1>7 DEF SameOk, SameAfter, SameHook
  <1>10. IdleOk(hook', puts') /\ ErrorOk(hook')
    BY <1>1, <1>2, <1>5, <1>6, <1>7 DEF IdleOk, ErrorOk, Rests, LastIs, LastTo, SameHook
  <1>11. PastSound'
    <2>1. hook.local \in PastOf(c, drawn[c])
          /\ d \in PastOf(c, drawn[c]) \cup {None} /\ Blank \in PastOf(c, drawn[c])
      BY <1>1, CanvasAssumption DEF HInv, PastSound, PastOf
    <2>2. PastOf(c, drawn[c]) \subseteq Past
      BY <1>1 DEF Past
    <2>3. hook'.on = c /\ hook'.local \in PastOf(c, drawn[c]) /\ hook'.synced \in Past
      BY <1>2, <1>5, <2>1, <2>2 DEF SameHook
    <2>4. QED
      BY <1>1, <2>3 DEF HInv, PastSound, Past
  <1>12. IdleShown'
    <2> SUFFICES ASSUME Rests(hook'), c \notin unsaved PROVE new.synced = Shown(c)
      BY <1>1, <1>2, <1>5 DEF IdleShown, Shown, SameHook
    <2>1. ~new.moved /\ new.status = "idle" /\ new.synced = new.local
      BY <1>5, <1>6 DEF Rests, SameHook
    <2>2. hook.start \in {Blank, None}
      BY <1>1, <1>2, <2>1 DEF HInv, HookOk, MineOk
    <2>3. CASE d # None /\ new.synced = d
      BY <1>2, <1>3, <2>1, <2>3 DEF Shown
    <2>4. CASE cache[c].state # "error" /\ (d = None \/ UserTouched)
              /\ new.local = hook.local /\ new.synced = Blank
      <3>1. ~UserTouched
        BY <2>1, <2>2, <2>4 DEF UserTouched
      <3>2. QED
        BY <1>3, <2>4, <3>1 DEF Shown
    <2>5. QED
      BY <1>2, <1>3, <2>1, <2>3, <2>4
  <1>13. QED
    BY <1>6, <1>8, <1>9, <1>10, <1>11, <1>12 DEF HInv, HookOk

LEMMA PushPendingH == ASSUME IInv, HInv, PushPending PROVE HInv'
  <1> DEFINE new == [hook EXCEPT !.pending = None, !.status = "saving"]
             p == [to |-> hook.pending.to, val |-> hook.pending.val, mine |-> TRUE, applied |-> FALSE]
  <1>1. /\ hook' = Armed(hook, new) /\ puts' = Append(puts, p) /\ hook.pending # None
        /\ UNCHANGED <<cache, server, last, unsaved, drawn>>
    BY DEF PushPending, Sends
  <1>2. /\ new \in Hook /\ new.on = hook.on /\ new.local = hook.local /\ new.hydrated = hook.hydrated
        /\ new.status = "saving" /\ new.synced = hook.synced /\ new.pending = None
        /\ new.start = hook.start /\ new.moved = hook.moved
    BY Typed DEF Hook
  <1>3. /\ hook.hydrated /\ hook.on \in Canvases /\ hook.pending = Shot(hook)
        /\ PendingOk(new) /\ hook.local \in Layouts
    BY <1>1, <1>2, Typed DEF HInv, HookOk, PendingOk, Hook
  <1>4. p.to = hook.on /\ p.val = hook.local /\ p.mine /\ p \in Puts
    BY <1>3 DEF Shot, Puts
  <1> HIDE DEF new, p
  <1>5. hook' \in Hook /\ SameHook(hook', new)
    BY <1>1, <1>2, <1>3, ArmedCases, CanvasAssumption
  <1>6. PendingOk(hook')
    BY <1>1, <1>2, <1>3, ArmedPending, CanvasAssumption
  <1>7. /\ \A i \in DOMAIN puts' : puts'[i] = p \/ (i \in DOMAIN puts /\ puts'[i] = puts[i])
        /\ \A c, l : SameAfter(puts, c, l) /\ (p.to = c => p.val = l) => SameAfter(puts', c, l)
    BY <1>1, <1>4, AppendFacts, Typed
  <1>8. MineOk(hook', puts')
    BY <1>2, <1>3, <1>4, <1>5, <1>7, CanvasAssumption DEF HInv, HookOk, MineOk, SameHook
  <1>9. SameOk(hook', puts')
    BY <1>2, <1>4, <1>5, <1>7 DEF HInv, HookOk, SameOk, SameHook
  <1>10. ~Rests(hook') /\ ErrorOk(hook')
    BY <1>2, <1>5 DEF Rests, ErrorOk, SameHook
  <1>11. PastSound'
    <2>1. p.val \in PastOf(p.to, drawn[p.to])
      BY <1>3, <1>4, CanvasAssumption DEF HInv, PastSound
    <2>2. \A i \in DOMAIN puts' : puts'[i].val \in PastOf(puts'[i].to, drawn[puts'[i].to])
      BY <1>7, <2>1 DEF HInv, PastSound
    <2>3. QED
      BY <1>1, <1>2, <1>5, <2>2 DEF HInv, PastSound, Past, SameHook
  <1>12. QED
    BY <1>6, <1>8, <1>9, <1>10, <1>11 DEF HInv, HookOk, IdleOk, IdleShown

LEMMA CloseH == ASSUME IInv, HInv, Close PROVE HInv'
  <1> DEFINE dead == [i \in DOMAIN puts |-> [puts[i] EXCEPT !.mine = FALSE]]
             p == [to |-> hook.pending.to, val |-> hook.pending.val, mine |-> FALSE, applied |-> FALSE]
  <1>1. /\ hook' = Mounted(None) /\ UNCHANGED <<cache, server, last, unsaved, drawn>>
        /\ puts' = dead \/ (hook.pending # None /\ puts' = Append(dead, p))
    BY DEF Close
  <1>2. /\ dead \in Seq(Puts) /\ Len(dead) = Len(puts)
        /\ \A i \in DOMAIN puts : dead[i].to = puts[i].to /\ dead[i].val = puts[i].val
    BY DeadPuts
  <1>3. \A i \in DOMAIN dead : dead[i].val \in PastOf(dead[i].to, drawn[dead[i].to]) /\ ~dead[i].mine
    <2>1. DOMAIN dead = DOMAIN puts
      OBVIOUS
    <2>2. \A i \in DOMAIN puts : ~dead[i].mine
      <3>1. \A i \in DOMAIN puts : puts[i] \in Puts
        BY Typed
      <3>2. QED
        BY <3>1 DEF Puts
    <2> HIDE DEF dead
    <2>3. QED
      BY <1>2, <2>1, <2>2 DEF HInv, PastSound
  <1>4. hook.pending # None => p \in Puts /\ ~p.mine /\ p.val \in PastOf(p.to, drawn[p.to])
    <2>1. hook.pending # None =>
             hook.pending = Shot(hook) /\ hook.on \in Canvases /\ hook.local \in Layouts
      BY Typed DEF HInv, HookOk, PendingOk, Hook
    <2>2. QED
      BY <2>1, CanvasAssumption DEF Shot, Puts, HInv, PastSound
  <1> HIDE DEF dead, p
  <1>5. \A i \in DOMAIN puts' : puts'[i].val \in PastOf(puts'[i].to, drawn[puts'[i].to])
          /\ ~puts'[i].mine
    <2>1. CASE puts' = dead
      BY <1>3, <2>1
    <2>2. CASE hook.pending # None /\ puts' = Append(dead, p)
      <3>1. \A i \in DOMAIN puts' : puts'[i] = p \/ (i \in DOMAIN dead /\ puts'[i] = dead[i])
        BY <1>2, <1>4, <2>2, AppendFacts
      <3>2. QED
        BY <1>3, <1>4, <2>2, <3>1
    <2>3. QED
      BY <1>1, <2>1, <2>2
  <1>6. /\ hook'.on = None /\ ~hook'.hydrated /\ hook'.pending = None /\ hook'.synced = None
        /\ ~hook'.moved /\ hook'.status = "idle" /\ hook'.start = None
    BY <1>1 DEF Mounted
  <1>7. PastSound'
    BY <1>1, <1>5, <1>6 DEF HInv, PastSound
  <1>8. HookOk(hook', puts')
    BY <1>5, <1>6 DEF HookOk, PendingOk, MineOk, SameOk, IdleOk, ErrorOk, Rests
  <1>9. QED
    BY <1>6, <1>7, <1>8 DEF HInv, IdleShown, Rests

LEMMA NavigateH == ASSUME IInv, HInv, NEW c \in Canvases, Navigate(c) PROVE HInv'
  <1> DEFINE p == [to |-> hook.pending.to, val |-> hook.pending.val, mine |-> TRUE, applied |-> FALSE]
  <1>1. /\ Observe(c) /\ UNCHANGED <<server, last, unsaved, drawn>>
        /\ IF hook.pending = None THEN puts' = puts ELSE puts' = Append(puts, p)
    BY DEF Navigate, Flushed, Sends
  <1>2. /\ hook'.on = c /\ ~hook'.hydrated /\ hook'.pending = None /\ hook'.synced = None
        /\ hook'.moved /\ hook'.local = Blank
    BY DEF Navigate, Mounted
  <1>3. hook.pending # None => p \in Puts /\ p.val \in PastOf(p.to, drawn[p.to])
    <2>1. hook.pending # None =>
             hook.pending = Shot(hook) /\ hook.on \in Canvases /\ hook.local \in Layouts
      BY Typed DEF HInv, HookOk, PendingOk, Hook
    <2>2. QED
      BY <2>1, CanvasAssumption DEF Shot, Puts, HInv, PastSound
  <1> HIDE DEF p
  <1>4. \A i \in DOMAIN puts' : puts'[i].val \in PastOf(puts'[i].to, drawn[puts'[i].to])
    <2>1. CASE hook.pending = None
      BY <1>1, <2>1 DEF HInv, PastSound
    <2>2. CASE hook.pending # None
      <3>1. \A i \in DOMAIN puts' : puts'[i] = p \/ (i \in DOMAIN puts /\ puts'[i] = puts[i])
        BY <1>1, <1>3, <2>2, AppendFacts, Typed
      <3>2. QED
        BY <1>3, <2>2, <3>1 DEF HInv, PastSound
    <2>3. QED
      BY <2>1, <2>2
  <1>5. \A d \in Canvases : cache'[d].data \in PastOf(d, drawn[d]) \cup {None}
    BY <1>1, ObserveKeepsPast DEF HInv
  <1>6. Blank \in PastOf(c, drawn[c])
    BY DEF PastOf
  <1>7. PastSound'
    BY <1>1, <1>2, <1>4, <1>5, <1>6 DEF HInv, PastSound
  <1>8. HookOk(hook', puts')
    BY <1>2, CanvasAssumption DEF HookOk, PendingOk, MineOk, SameOk, IdleOk, ErrorOk, Rests
  <1>9. QED
    BY <1>2, <1>7, <1>8 DEF HInv, IdleShown, Rests

\* A PUT that leaves, for the hooks that do not wait for it.
LEMMA OthersLeave ==
    ASSUME IInv, HInv, puts # <<>>, puts' = Tail(puts), UNCHANGED hook, ~Head(puts).mine
    PROVE  /\ HookOk(hook', puts')
           /\ hook.hydrated => Head(puts).to # hook.on /\ (To(puts', hook.on) <=> To(puts, hook.on))
  <1> DEFINE p == Head(puts)
  <1>1. /\ \A c : To(puts, c) <=> To(puts', c) \/ p.to = c
        /\ \A c, l : SameAfter(puts, c, l) => SameAfter(puts', c, l)
        /\ \A c, l : LastIs(puts, c, l) => LastIs(puts', c, l)
        /\ \A i \in DOMAIN puts' : \E j \in DOMAIN puts : puts'[i] = puts[j]
        /\ \E j \in DOMAIN puts : p = puts[j]
    BY TailFacts, Typed
  <1> HIDE DEF p
  <1>2. hook.hydrated => p.to # hook.on
    BY <1>1 DEF HInv, HookOk, MineOk, p
  <1>3. MineOk(hook', puts')
    BY <1>1 DEF HInv, HookOk, MineOk
  <1>4. SameOk(hook', puts')
    BY <1>1 DEF HInv, HookOk, SameOk
  <1>5. IdleOk(hook', puts')
    BY <1>1, <1>2 DEF HInv, HookOk, IdleOk, Rests
  <1>6. QED
    BY <1>1, <1>2, <1>3, <1>4, <1>5 DEF HInv, HookOk, p

\* A PUT that leaves, for the hook that waits for it.
LEMMA OwnLeaves ==
    ASSUME IInv, HInv, puts # <<>>, puts' = Tail(puts), Head(puts).mine,
           NEW new \in Hook, new.on = hook.on, new.hydrated = hook.hydrated, new.moved = hook.moved,
           new.local = hook.local, new.status # "offline", hook' = Armed(hook, new)
    PROVE  MineOk(hook', puts') /\ SameOk(hook', puts')
  <1>1. /\ \A c, l : SameAfter(puts, c, l) => SameAfter(puts', c, l)
        /\ \A i \in DOMAIN puts' : \E j \in DOMAIN puts : puts'[i] = puts[j]
        /\ \E j \in DOMAIN puts : Head(puts) = puts[j]
    BY TailFacts, Typed
  <1>2. SameHook(hook', new)
    BY Typed, ArmedCases
  <1>3. ~hook.moved => hook.hydrated
    BY <1>1 DEF HInv, HookOk, MineOk
  <1>4. MineOk(hook', puts')
    BY <1>1, <1>2, <1>3 DEF HInv, HookOk, MineOk, SameHook
  <1>5. SameOk(hook', puts')
    BY <1>1, <1>2 DEF HInv, HookOk, SameOk, SameHook
  <1>6. QED
    BY <1>4, <1>5

LEMMA PutAnsweredH == ASSUME IInv, HInv, PutAnswered PROVE HInv'
  <1> DEFINE p == Head(puts)
             row == [state |-> "ok", data |-> p.val]
             new == Saved(p)
  <1>1. /\ puts # <<>> /\ p.applied /\ puts' = Tail(puts)
        /\ cache' = [cache EXCEPT ![p.to] = row]
        /\ hook' = IF p.mine THEN Armed(hook, new) ELSE hook
        /\ unsaved' = unsaved \ {p.to}
        /\ UNCHANGED <<server, last, drawn>>
    BY DEF PutAnswered, Cached
  <1>2. /\ \A c : To(puts, c) <=> To(puts', c) \/ p.to = c
        /\ \A c, l : LastIs(puts, c, l) => LastIs(puts', c, l)
        /\ \A c, l : LastIs(puts, c, l) /\ p.to = c /\ ~To(puts', c) => p.val = l
        /\ \A c, l : SameAfter(puts, c, l) /\ p.to = c /\ p.val = l =>
              \A i \in DOMAIN puts' : puts'[i].to = c => puts'[i].val = l
        /\ \A i \in DOMAIN puts' : \E j \in DOMAIN puts : puts'[i] = puts[j]
        /\ \E j \in DOMAIN puts : p = puts[j]
    <2>1. puts \in Seq(Puts) /\ puts # <<>>
      BY <1>1, Typed
    <2>2. \A c, l : SameAfter(puts, c, l) /\ p.to = c /\ p.val = l =>
             \A i \in DOMAIN Tail(puts) : Tail(puts)[i].to = c => Tail(puts)[i].val = l
      BY <2>1, TailFacts
    <2>3. /\ \A c : To(puts, c) <=> To(Tail(puts), c) \/ p.to = c
          /\ \A c, l : LastIs(puts, c, l) => LastIs(Tail(puts), c, l)
          /\ \A c, l : LastIs(puts, c, l) /\ p.to = c /\ ~To(Tail(puts), c) => p.val = l
          /\ \A i \in DOMAIN Tail(puts) : \E j \in DOMAIN puts : Tail(puts)[i] = puts[j]
          /\ \E j \in DOMAIN puts : p = puts[j]
      BY <2>1, TailFacts
    <2>4. puts' = Tail(puts)
      BY <1>1
    <2> HIDE DEF p
    <2>5. QED
      BY <2>2, <2>3, <2>4
  <1>3. /\ p \in Puts
        /\ (\A j \in DOMAIN puts' : puts'[j].to = p.to => puts'[j].val = p.val) => server[p.to] = p.val
    BY <1>1, PutsAreSound, TailSound
  <1>4. row.data = p.val
    OBVIOUS
  <1>5. /\ new \in Hook /\ new.on = hook.on /\ new.local = hook.local /\ new.hydrated = hook.hydrated
        /\ new.pending = hook.pending /\ new.synced = p.val /\ new.status = "idle"
        /\ new.start = hook.start /\ new.moved = hook.moved
    BY <1>3, Typed DEF Saved, Hook, Puts
  <1> HIDE DEF p, row, new
  <1>6. p.to \in Canvases /\ p.val \in PastOf(p.to, drawn[p.to]) /\ p.val # None /\ p.val \in Past
    <2>1. p.to \in Canvases /\ p.val \in PastOf(p.to, drawn[p.to])
      BY <1>2, <1>3 DEF HInv, PastSound, Puts
    <2>2. drawn[p.to] \in Nat
      BY <2>1, Typed
    <2>3. p.val # None
      BY <2>1, <2>2, CanvasAssumption DEF PastOf
    <2>4. QED
      BY <2>1, <2>3 DEF Past
  <1>7. PastSound'
    <2>1. \A c \in Canvases : cache'[c].data = cache[c].data \/ (c = p.to /\ cache'[c].data = p.val)
      BY <1>1, <1>4, Typed
    <2>2. \A i \in DOMAIN puts' : puts'[i].val \in PastOf(puts'[i].to, drawn[puts'[i].to])
      BY <1>2 DEF HInv, PastSound
    <2>3. hook'.on = hook.on /\ hook'.local = hook.local /\ hook'.synced \in {hook.synced, p.val}
      BY <1>1, <1>5, ArmedCases, Typed DEF SameHook
    <2>4. QED
      BY <1>1, <1>6, <2>1, <2>2, <2>3 DEF HInv, PastSound, Past
  <1>8. CASE ~p.mine
    <2>1. /\ HookOk(hook', puts')
          /\ hook.hydrated => p.to # hook.on /\ (To(puts', hook.on) <=> To(puts, hook.on))
      BY <1>1, <1>8, OthersLeave DEF p
    <2>2. IdleShown'
      BY <1>1, <1>8, <2>1 DEF HInv, IdleShown, Rests, Shown
    <2>3. QED
      BY <1>7, <2>1, <2>2 DEF HInv
  <1>9. CASE p.mine
    <2>1. hook' = Armed(hook, new) /\ PendingOk(new)
      BY <1>1, <1>5, <1>6, <1>9 DEF HInv, HookOk, PendingOk, Shot
    <2>2. SameHook(hook', new)
      BY <1>5, <2>1, ArmedCases, Typed
    <2>3. /\ PendingOk(hook') /\ (hook'.pending = None => hook.pending = None)
          /\ Ran(hook, new) /\ hook.hydrated /\ hook'.pending = None => p.val = hook.local
      BY <1>5, <2>1, ArmedPending, Typed
    <2>4. MineOk(hook', puts') /\ SameOk(hook', puts')
      BY <1>1, <1>5, <1>9, <2>1, OwnLeaves DEF p
    <2>5. ~hook.moved => hook.hydrated /\ p.to = hook.on
      BY <1>2, <1>9 DEF HInv, HookOk, MineOk
    <2>6. IdleOk(hook', puts')
      <3> SUFFICES ASSUME Rests(hook')
                   PROVE  (~To(puts', hook.on) => p.val = hook.local) /\ LastIs(puts', hook.on, hook.local)
        BY <1>5, <2>2 DEF IdleOk, SameHook
      <3>1. hook.hydrated /\ ~hook.moved /\ hook'.pending = None /\ hook.pending = None
        BY <1>5, <2>2, <2>3 DEF Rests, SameHook
      <3>2. CASE hook.status = "idle"
        <4>1. LastIs(puts, hook.on, hook.local)
          BY <3>1, <3>2 DEF HInv, HookOk, IdleOk, Rests
        <4>2. QED
          BY <1>2, <2>5, <3>1, <4>1
      <3>3. CASE hook.status # "idle"
        <4>1. p.val = hook.local
          BY <1>5, <2>3, <3>1, <3>3 DEF Ran
        <4>2. SameAfter(puts, hook.on, hook.local)
          BY <3>1 DEF HInv, HookOk, SameOk
        <4>3. \A i \in DOMAIN puts' : puts'[i].to = hook.on => puts'[i].val = hook.local
          BY <1>2, <2>5, <3>1, <4>1, <4>2
        <4>4. QED
          BY <4>1, <4>3 DEF LastIs, LastTo
      <3>4. QED
        BY <3>2, <3>3
    <2>7. ErrorOk(hook')
      BY <1>5, <2>2 DEF ErrorOk, SameHook
    <2>8. IdleShown'
      <3> SUFFICES ASSUME Rests(hook'), ~To(puts', hook'.on) 
                   PROVE  hook'.synced = server'[hook'.on] /\ hook'.synced # None
        BY DEF IdleShown, Shown
      <3>1. ~hook.moved /\ hook'.on = hook.on /\ hook'.synced = p.val
        BY <1>5, <2>2 DEF Rests, SameHook
      <3>2. server[p.to] = p.val
        BY <1>3, <2>5, <3>1 DEF To
      <3>3. QED
        BY <1>1, <1>6, <2>5, <3>1, <3>2
    <2>9. QED
      BY <1>7, <2>3, <2>4, <2>6, <2>7, <2>8 DEF HInv, HookOk
  <1>10. QED
    BY <1>8, <1>9

LEMMA PutFailsH == ASSUME IInv, HInv, PutFails PROVE HInv'
  <1> DEFINE p == Head(puts)
             new == [hook EXCEPT !.status = "error"]
  <1>1. /\ puts # <<>> /\ puts' = Tail(puts)
        /\ hook' = IF p.mine THEN Armed(hook, new) ELSE hook
        /\ unsaved' = unsaved \cup {p.to}
        /\ last' = last \/ last' = [last EXCEPT ![p.to] = None]
        /\ UNCHANGED <<cache, server, drawn>>
    BY DEF PutFails
  <1>2. /\ \A i \in DOMAIN puts' : \E j \in DOMAIN puts : puts'[i] = puts[j]
        /\ \E j \in DOMAIN puts : p = puts[j]
    BY <1>1, TailFacts, Typed
  <1>3. /\ new \in Hook /\ new.on = hook.on /\ new.local = hook.local /\ new.hydrated = hook.hydrated
        /\ new.pending = hook.pending /\ new.synced = hook.synced /\ new.status = "error"
        /\ new.start = hook.start /\ new.moved = hook.moved
    BY Typed DEF Hook
  <1> HIDE DEF p, new
  <1>4. PastSound'
    <2>1. \A c \in Canvases : last'[c] = last[c] \/ last'[c] = None
      BY <1>1, Typed
    <2>2. \A i \in DOMAIN puts' : puts'[i].val \in PastOf(puts'[i].to, drawn[puts'[i].to])
      BY <1>2 DEF HInv, PastSound
    <2>3. hook'.on = hook.on /\ hook'.local = hook.local /\ hook'.synced = hook.synced
      BY <1>1, <1>3, ArmedCases, Typed DEF SameHook
    <2>4. QED
      BY <1>1, <2>1, <2>2, <2>3 DEF HInv, PastSound, Past
  <1>5. CASE ~p.mine
    <2>1. /\ HookOk(hook', puts')
          /\ hook.hydrated => p.to # hook.on /\ (To(puts', hook.on) <=> To(puts, hook.on))
      BY <1>1, <1>5, OthersLeave DEF p
    <2>2. IdleShown'
      BY <1>1, <1>5, <2>1 DEF HInv, IdleShown, Rests, Shown
    <2>3. QED
      BY <1>4, <2>1, <2>2 DEF HInv
  <1>6. CASE p.mine
    <2>1. hook' = Armed(hook, new) /\ PendingOk(new)
      BY <1>1, <1>3, <1>6 DEF HInv, HookOk, PendingOk, Shot
    <2>2. SameHook(hook', new)
      BY <1>3, <2>1, ArmedCases, Typed
    <2>3. /\ PendingOk(hook') /\ (hook'.pending = None => hook.pending = None)
          /\ Ran(hook, new) /\ hook.hydrated /\ hook'.pending = None => hook.synced = hook.local
      BY <1>3, <2>1, ArmedPending, Typed
    <2>4. MineOk(hook', puts') /\ SameOk(hook', puts')
      BY <1>1, <1>3, <1>6, <2>1, OwnLeaves DEF p
    <2>5. ~Rests(hook')
      BY <1>3, <2>2 DEF Rests, SameHook
    <2>6. ErrorOk(hook')
      <3> SUFFICES ASSUME hook.hydrated, hook'.pending = None PROVE hook.synced = hook.local
        BY <1>3, <2>2 DEF ErrorOk, SameHook
      <3>1. CASE hook.status = "error"
        BY <2>3, <3>1 DEF HInv, HookOk, ErrorOk
      <3>2. CASE hook.status # "error"
        BY <1>3, <2>3, <3>2 DEF Ran
      <3>3. QED
        BY <3>1, <3>2
    <2>7. QED
      BY <1>4, <2>3, <2>4, <2>5, <2>6 DEF HInv, HookOk, IdleOk, IdleShown
  <1>7. QED
    BY <1>5, <1>6

LEMMA HInvStep == ASSUME ~Undo PROVE IInv /\ HInv /\ [Next]_vars => HInv'
  <1> SUFFICES ASSUME IInv, HInv, [Next]_vars PROVE HInv'
    OBVIOUS
  <1>1. CASE UserNext
    BY <1>1, OpenH, NavigateH, DrawH, CloseH DEF UserNext
  <1>2. CASE PushPending
    BY <1>2, PushPendingH
  <1>3. CASE Hydrate
    BY <1>3, HydrateH
  <1>4. ASSUME NEW c \in Canvases, GetAnswered(c) \/ GetFails(c) PROVE HInv'
    BY <1>4, GetAnsweredH, GetFailsH
  <1>5. CASE PutApplied
    BY <1>5, PutAppliedH
  <1>6. CASE PutAnswered
    BY <1>6, PutAnsweredH
  <1>7. CASE PutFails
    BY <1>7, PutFailsH
  <1>8. CASE UNCHANGED vars
    BY <1>8 DEF vars, HInv, PastSound, Past, HookOk, IdleShown, Shown
  <1>9. QED
    BY <1>1, <1>2, <1>3, <1>4, <1>5, <1>6, <1>7, <1>8 DEF Next

LEMMA HInvAlways == ~Undo /\ Spec => [](IInv /\ HInv)
  <1>1. ASSUME ~Undo PROVE Spec => [](IInv /\ HInv)
    <2>1. IInv /\ HInv /\ [Next]_vars => (IInv /\ HInv)'
      BY <1>1, IInvStep, HInvStep
    <2>2. QED
      BY <2>1, IInvInit, HInvInit, PTL DEF Spec
  <1>2. QED
    BY <1>1

\* An instance that shows one canvas, has nothing to send and says idle shows
\* what the server has, whatever the order in which its PUTs were answered or
\* failed, for a user who does not return to a layout he had before.
THEOREM IdleIsSynced == ~Undo /\ Spec => []IdleMeansSynced
  <1>1. IInv /\ HInv => IdleMeansSynced
    <2> SUFFICES ASSUME IInv, HInv, Rests(hook), hook.on \notin unsaved,
                        \A i \in DOMAIN puts : puts[i].to # hook.on
                 PROVE  hook.local = Shown(hook.on)
      BY DEF IdleMeansSynced, Rests
    <2>1. ~To(puts, hook.on)
      BY DEF To
    <2>2. QED
      BY <2>1 DEF HInv, HookOk, IdleOk, IdleShown
  <1>2. QED
    BY <1>1, HInvAlways, PTL

-----------------------------------------------------------------------------
(* The last layout drawn on a canvas.  An instance that could not read its *)
(* canvas sends nothing; one that moved, however, takes the answer of a    *)
(* PUT of its former canvas for its own, leaves "offline" and overwrites a *)
(* row it never read.                                                      *)

Steady == hook.hydrated /\ hook.moved => hook.status # "offline"

\* The query of canvas c has data, and is not fetched again.
Loaded(c) == cache[c].state = "ok" /\ c \notin fetching

ReadOnce ==
    /\ hook.hydrated /\ hook.status # "offline" => Loaded(hook.on)
    /\ \A c \in Canvases : last[c] # None => Loaded(c)

\* What was drawn last is on the screen, and is what hydration applies.
LastShown ==
    hook.on # None /\ last[hook.on] # None =>
        IF hook.hydrated THEN hook.local = last[hook.on] ELSE hook.start = None

\* What was drawn last is armed, or is the last in flight, or is on the server.
LastSent ==
    \A c \in Canvases :
        last[c] # None /\ (hook.pending = None \/ hook.on # c) =>
            /\ LastIs(puts, c, last[c])
            /\ ~To(puts, c) => server[c] = last[c] /\ cache[c].data = last[c]

AllAre(s, c, l) == \A i \in DOMAIN s : s[i].to = c => s[i].val = l

\* What the hook takes for saved is saved.
SyncedServed ==
    hook.hydrated /\ last[hook.on] # None /\ hook.synced = hook.local =>
        /\ server[hook.on] = hook.local /\ cache[hook.on].data = hook.local
        /\ AllAre(puts, hook.on, hook.local)

LInv == ReadOnce /\ LastShown /\ LastSent /\ SyncedServed

LEMMA LInvInit == Init => LInv
  <1> SUFFICES ASSUME Init PROVE LInv
    OBVIOUS
  <1>1. hook.on = None /\ ~hook.hydrated /\ \A c \in Canvases : last[c] = None
    BY DEF Init, Mounted
  <1>2. QED
    BY <1>1 DEF LInv, ReadOnce, LastShown, LastSent, SyncedServed

\* An answer to a query nobody has drawn on.
LEMMA QuerySettles ==
    ASSUME IInv, HInv, LInv, NEW c \in Canvases, c \in fetching, NEW row,
           fetching' = fetching \ {c}, cache' = [cache EXCEPT ![c] = row],
           UNCHANGED <<hook, puts, server, last>>
    PROVE  LInv'
  <1>1. last[c] = None /\ (hook.hydrated /\ hook.status # "offline" => hook.on # c)
    BY DEF LInv, ReadOnce, Loaded
  <1>2. \A d \in Canvases : d # c => cache'[d] = cache[d] /\ (d \in fetching' <=> d \in fetching)
    BY Typed
  <1>3. hook.on = None \/ hook.on \in Canvases
    BY Typed
  <1>4. ReadOnce'
    BY <1>1, <1>2, <1>3, Typed DEF LInv, ReadOnce, Loaded
  <1>5. LastShown' /\ LastSent'
    BY <1>1, <1>2 DEF LInv, LastShown, LastSent
  <1>6. SyncedServed'
    BY <1>1, <1>2, <1>3, Typed DEF LInv, SyncedServed
  <1>7. QED
    BY <1>4, <1>5, <1>6 DEF LInv

LEMMA PutAppliedL == ASSUME IInv, HInv, LInv, PutApplied PROVE LInv'
  <1>1. PICK i \in DOMAIN puts :
            /\ puts' = [puts EXCEPT ![i].applied = TRUE]
            /\ server' = [server EXCEPT ![puts[i].to] = puts[i].val]
            /\ UNCHANGED <<hook, cache, fetching, last>>
    BY DEF PutApplied
  <1>2. SamePuts(puts, puts')
    BY <1>1, Typed, ServedSame
  <1>3. /\ \A c : To(puts', c) <=> To(puts, c)
        /\ \A c, l : LastIs(puts, c, l) <=> LastIs(puts', c, l)
        /\ \A c, l : AllAre(puts, c, l) <=> AllAre(puts', c, l)
    BY <1>2, SamePutsFacts DEF AllAre, SamePuts
  <1>4. /\ puts[i].to \in Canvases /\ server'[puts[i].to] = puts[i].val /\ To(puts, puts[i].to)
        /\ \A c \in Canvases : c # puts[i].to => server'[c] = server[c]
    BY <1>1, Typed DEF To
  <1>5. ReadOnce' /\ LastShown'
    BY <1>1 DEF LInv, ReadOnce, LastShown, Loaded
  <1>6. LastSent'
    BY <1>1, <1>3, <1>4 DEF LInv, LastSent
  <1>7. SyncedServed'
    <2> SUFFICES ASSUME hook.hydrated, last[hook.on] # None, hook.synced = hook.local
                 PROVE  /\ server'[hook.on] = hook.local /\ cache[hook.on].data = hook.local
                        /\ AllAre(puts', hook.on, hook.local)
      BY <1>1 DEF SyncedServed
    <2>1. /\ server[hook.on] = hook.local /\ cache[hook.on].data = hook.local
          /\ AllAre(puts, hook.on, hook.local) /\ hook.on \in Canvases
      BY Typed DEF LInv, SyncedServed
    <2>2. server'[hook.on] = hook.local
      BY <1>4, <2>1 DEF AllAre
    <2>3. QED
      BY <1>3, <2>1, <2>2
  <1>8. QED
    BY <1>5, <1>6, <1>7 DEF LInv

\* Observing a canvas somebody has drawn on fetches nothing.
LEMMA ObserveL ==
    ASSUME IInv, LInv, NEW c \in Canvases, Observe(c)
    PROVE  /\ last[c] # None => ~Fetches(c)
           /\ \A d \in Canvases : Loaded(d) => Loaded(d)' /\ cache'[d] = cache[d]
  <1>1. last[c] # None => ~Fetches(c)
    BY DEF LInv, ReadOnce, Loaded, Fetches
  <1>2. CASE Fetches(c)
    <2>1. fetching' = fetching \cup {c} /\ cache' = [cache EXCEPT ![c] = Absent]
      BY <1>2 DEF Observe
    <2>2. ~Loaded(c)
      BY <1>2 DEF Fetches, Loaded
    <2>3. \A d \in Canvases : d # c => cache'[d] = cache[d]
      BY <2>1, Typed
    <2>4. QED
      BY <1>1, <2>1, <2>2, <2>3 DEF Loaded
  <1>3. CASE ~Fetches(c)
    BY <1>1, <1>3 DEF Observe, Loaded
  <1>4. QED
    BY <1>2, <1>3

LEMMA OpenL == ASSUME IInv, HInv, LInv, NEW c \in Canvases, Open(c) PROVE LInv'
  <1>1. /\ hook.on = None /\ Observe(c) /\ UNCHANGED <<puts, server, last>>
        /\ hook'.on = c /\ ~hook'.hydrated /\ hook'.pending = None
        /\ hook'.start = IF Fetches(c) THEN Blank ELSE None
    BY DEF Open, Mounted
  <1>2. /\ last[c] # None => ~Fetches(c)
        /\ \A d \in Canvases : Loaded(d) => Loaded(d)' /\ cache'[d] = cache[d]
    BY <1>1, ObserveL
  <1>3. ReadOnce'
    BY <1>1, <1>2 DEF LInv, ReadOnce
  <1>4. LastShown' /\ SyncedServed'
    BY <1>1, <1>2 DEF LastShown, SyncedServed
  <1>5. hook.pending = None
    BY <1>1, Typed DEF HInv, HookOk, PendingOk
  <1>6. LastSent'
    BY <1>1, <1>2, <1>5 DEF LInv, ReadOnce, LastSent
  <1>7. QED
    BY <1>3, <1>4, <1>6 DEF LInv

\* The layout that is flushed is the last one drawn on its canvas.
LEMMA FlushIsLast ==
    ASSUME IInv, HInv, LInv, hook.pending # None
    PROVE  /\ hook.pending.to = hook.on /\ hook.pending.val = hook.local /\ hook.hydrated
           /\ hook.on \in Canvases /\ hook.local \in Layouts /\ hook.status # "offline"
           /\ last[hook.on] # None => hook.local = last[hook.on]
  <1>1. hook.hydrated /\ hook.pending = Shot(hook) /\ hook.on \in Canvases /\ hook.status # "offline"
    BY Typed DEF HInv, HookOk, PendingOk
  <1>2. hook.local \in Layouts
    BY Typed DEF Hook
  <1>3. QED
    BY <1>1, <1>2, CanvasAssumption DEF LInv, LastShown, Shot

\* Leaving a canvas: what was armed is sent.
LEMMA FlushSends ==
    ASSUME IInv, HInv, LInv, UNCHANGED <<server, last>>, hook'.pending = None,
           NEW s \in Seq(Puts), SamePuts(puts, s), NEW p,
           hook.pending # None => p \in Puts /\ p.to = hook.pending.to /\ p.val = hook.pending.val,
           IF hook.pending = None THEN puts' = s ELSE puts' = Append(s, p),
           \A d \in Canvases : Loaded(d) => cache'[d] = cache[d]
    PROVE  LastSent'
  <1> SUFFICES ASSUME NEW c \in Canvases, last[c] # None
               PROVE  /\ LastIs(puts', c, last[c])
                      /\ ~To(puts', c) => server[c] = last[c] /\ cache'[c].data = last[c]
    BY DEF LastSent
  <1>1. cache'[c] = cache[c]
    BY DEF LInv, ReadOnce
  <1>2. To(s, c) <=> To(puts, c)
    BY SamePutsFacts
  <1>3. LastIs(s, c, last[c]) <=> LastIs(puts, c, last[c])
    BY SamePutsFacts
  <1>4. CASE hook.pending = None
    BY <1>1, <1>2, <1>3, <1>4 DEF LInv, LastSent
  <1>5. CASE hook.pending # None
    <2>1. p \in Puts /\ p.to = hook.on /\ p.val = hook.local /\ puts' = Append(s, p)
      BY <1>5, FlushIsLast
    <2>2. /\ To(puts', c) <=> To(s, c) \/ p.to = c
          /\ LastIs(s, c, last[c]) /\ p.to # c => LastIs(puts', c, last[c])
          /\ p.to = c /\ p.val = last[c] => LastIs(puts', c, last[c])
      BY <2>1, AppendFacts
    <2>3. CASE hook.on = c
      BY <1>5, <2>1, <2>2, <2>3, FlushIsLast
    <2>4. CASE hook.on # c
      BY <1>1, <1>2, <1>3, <2>1, <2>2, <2>4 DEF LInv, LastSent
    <2>5. QED
      BY <2>3, <2>4
  <1>6. QED
    BY <1>4, <1>5

LEMMA CloseL == ASSUME IInv, HInv, LInv, Close PROVE LInv'
  <1> DEFINE dead == [i \in DOMAIN puts |-> [puts[i] EXCEPT !.mine = FALSE]]
             p == [to |-> hook.pending.to, val |-> hook.pending.val, mine |-> FALSE, applied |-> FALSE]
  <1>1. /\ hook' = Mounted(None) /\ UNCHANGED <<cache, fetching, server, last>>
        /\ IF hook.pending = None THEN puts' = dead ELSE puts' = Append(dead, p)
    BY DEF Close
  <1>2. /\ dead \in Seq(Puts) /\ Len(dead) = Len(puts) /\ DOMAIN dead = DOMAIN puts
        /\ \A i \in DOMAIN puts : dead[i].to = puts[i].to /\ dead[i].val = puts[i].val
    BY DeadPuts
  <1>3. hook.pending # None => p \in Puts /\ p.to = hook.pending.to /\ p.val = hook.pending.val
    BY FlushIsLast DEF Puts
  <1> HIDE DEF dead, p
  <1>4. SamePuts(puts, dead)
    BY <1>2 DEF SamePuts
  <1>5. hook'.on = None /\ ~hook'.hydrated /\ hook'.pending = None
    BY <1>1 DEF Mounted
  <1>6. LastSent'
    BY <1>1, <1>2, <1>3, <1>4, <1>5, FlushSends
  <1>7. ReadOnce' /\ LastShown' /\ SyncedServed'
    BY <1>1, <1>5 DEF LInv, ReadOnce, LastShown, SyncedServed, Loaded
  <1>8. QED
    BY <1>6, <1>7 DEF LInv

LEMMA NavigateL == ASSUME IInv, HInv, LInv, NEW c \in Canvases, Navigate(c) PROVE LInv'
  <1> DEFINE p == [to |-> hook.pending.to, val |-> hook.pending.val, mine |-> TRUE, applied |-> FALSE]
  <1>1. /\ Observe(c) /\ UNCHANGED <<server, last>>
        /\ IF hook.pending = None THEN puts' = puts ELSE puts' = Append(puts, p)
    BY DEF Navigate, Flushed, Sends
  <1>2. /\ hook'.on = c /\ ~hook'.hydrated /\ hook'.pending = None
        /\ ~Fetches(c) => hook'.start = None
    BY DEF Navigate, Mounted, StartOn
  <1>3. hook.pending # None => p \in Puts /\ p.to = hook.pending.to /\ p.val = hook.pending.val
    BY FlushIsLast DEF Puts
  <1> HIDE DEF p
  <1>4. /\ last[c] # None => ~Fetches(c)
        /\ \A d \in Canvases : Loaded(d) => Loaded(d)' /\ cache'[d] = cache[d]
    BY <1>1, ObserveL
  <1>5. puts \in Seq(Puts) /\ SamePuts(puts, puts)
    BY Typed DEF SamePuts
  <1>6. LastSent'
    BY <1>1, <1>2, <1>3, <1>4, <1>5, FlushSends
  <1>7. ReadOnce'
    BY <1>1, <1>2, <1>4 DEF LInv, ReadOnce
  <1>8. LastShown' /\ SyncedServed'
    BY <1>1, <1>2, <1>4 DEF LastShown, SyncedServed
  <1>9. QED
    BY <1>6, <1>7, <1>8 DEF LInv

LEMMA DrawL == ASSUME IInv, HInv, LInv, ~Undo, NEW l \in Layouts, Draw(l) PROVE LInv'
  <1> DEFINE c == hook.on
             new == [hook EXCEPT !.local = l]
  <1>1. c \in Canvases /\ l \notin Past \cup {None}
    BY DrawIsNew
  <1>2. /\ hook' = Armed(hook, new)
        /\ last' = [last EXCEPT ![c] = IF hook.hydrated /\ hook.status # "offline" THEN l ELSE None]
        /\ UNCHANGED <<cache, fetching, puts, server>>
    BY DEF Draw
  <1>3. /\ new \in Hook /\ new.on = c /\ new.local = l /\ new.hydrated = hook.hydrated
        /\ new.status = hook.status /\ new.synced = hook.synced /\ new.pending = hook.pending
    BY Typed DEF Hook
  <1> HIDE DEF new
  <1>4. hook.local \in Past /\ hook.synced \in Past \cup {None}
    BY <1>1, CanvasAssumption DEF Past, HInv, PastSound
  <1>5. hook' \in Hook /\ SameHook(hook', new)
    BY <1>1, <1>2, <1>3, ArmedCases, CanvasAssumption
  <1>6. hook.hydrated /\ hook.status # "offline" => hook'.pending = Shot(new) /\ hook'.pending # None
    <2>1. Shot(new) # None
      BY <1>1, <1>3, ShotIsPush, CanvasAssumption
    <2>2. hook.hydrated => hook.synced # None
      BY DEF HInv, HookOk, PendingOk
    <2>3. Ran(hook, new) /\ hook.synced # l
      BY <1>1, <1>3, <1>4 DEF Ran
    <2>4. QED
      BY <1>1, <1>2, <1>3, <2>1, <2>2, <2>3, ArmedCases, CanvasAssumption
  <1>7. /\ last'[c] = (IF hook.hydrated /\ hook.status # "offline" THEN l ELSE None)
        /\ \A d \in Canvases : d # c => last'[d] = last[d]
    BY <1>1, <1>2, Typed
  <1>8. /\ hook'.on = c /\ hook'.local = l /\ hook'.hydrated = hook.hydrated
        /\ hook'.status = hook.status /\ hook'.synced = hook.synced
    BY <1>3, <1>5 DEF SameHook
  <1>9. ReadOnce'
    BY <1>2, <1>7, <1>8 DEF LInv, ReadOnce, Loaded
  <1>10. LastShown'
    BY <1>7, <1>8 DEF LastShown
  <1>11. LastSent'
    BY <1>2, <1>6, <1>7, <1>8 DEF LInv, LastSent
  <1>12. SyncedServed'
    BY <1>1, <1>4, <1>8 DEF SyncedServed
  <1>13. QED
    BY <1>9, <1>10, <1>11, <1>12 DEF LInv

LEMMA PushPendingL == ASSUME IInv, HInv, LInv, PushPending PROVE LInv'
  <1> DEFINE new == [hook EXCEPT !.pending = None, !.status = "saving"]
             p == [to |-> hook.pending.to, val |-> hook.pending.val, mine |-> TRUE, applied |-> FALSE]
  <1>1. /\ hook' = Armed(hook, new) /\ puts' = Append(puts, p) /\ hook.pending # None
        /\ UNCHANGED <<cache, fetching, server, last>>
    BY DEF PushPending, Sends
  <1>2. /\ new \in Hook /\ new.on = hook.on /\ new.local = hook.local /\ new.hydrated = hook.hydrated
        /\ new.status = "saving" /\ new.synced = hook.synced
    BY Typed DEF Hook
  <1>3. p \in Puts /\ p.to = hook.on /\ p.val = hook.local /\ hook.hydrated /\ hook.on \in Canvases
    BY <1>1, FlushIsLast DEF Puts
  <1>4. hook.status # "offline" /\ (last[hook.on] # None => hook.local = last[hook.on])
    BY <1>1, FlushIsLast
  <1> HIDE DEF new, p
  <1>5. SameHook(hook', new)
    BY <1>1, <1>2, <1>3, ArmedCases, CanvasAssumption
  <1>6. /\ hook'.on = hook.on /\ hook'.local = hook.local /\ hook'.hydrated
        /\ hook'.synced = hook.synced
    BY <1>2, <1>3, <1>5 DEF SameHook
  <1>7. /\ \A c : To(puts', c) <=> To(puts, c) \/ p.to = c
        /\ \A c, l : LastIs(puts, c, l) /\ p.to # c => LastIs(puts', c, l)
        /\ \A c, l : p.to = c /\ p.val = l => LastIs(puts', c, l)
        /\ \A i \in DOMAIN puts' : puts'[i] = p \/ (i \in DOMAIN puts /\ puts'[i] = puts[i])
    <2>1. puts \in Seq(Puts)
      BY Typed
    <2>2. QED
      BY <1>1, <1>3, <2>1, AppendFacts
  <1>8. ReadOnce' /\ LastShown'
    BY <1>1, <1>3, <1>4, <1>6 DEF LInv, ReadOnce, LastShown, Loaded
  <1>9. LastSent'
    <2> SUFFICES ASSUME NEW c \in Canvases, last[c] # None
                 PROVE  /\ LastIs(puts', c, last[c])
                        /\ ~To(puts', c) => server[c] = last[c] /\ cache[c].data = last[c]
      BY <1>1 DEF LastSent
    <2>1. CASE c = hook.on
      BY <1>3, <1>4, <1>7, <2>1
    <2>2. CASE c # hook.on
      BY <1>3, <1>7, <2>2 DEF LInv, LastSent
    <2>3. QED
      BY <2>1, <2>2
  <1>10. SyncedServed'
    <2> SUFFICES ASSUME last[hook.on] # None, hook.synced = hook.local
                 PROVE  /\ server[hook.on] = hook.local /\ cache[hook.on].data = hook.local
                        /\ AllAre(puts', hook.on, hook.local)
      BY <1>1, <1>6 DEF SyncedServed
    <2>1. /\ server[hook.on] = hook.local /\ cache[hook.on].data = hook.local
          /\ AllAre(puts, hook.on, hook.local)
      BY <1>3 DEF LInv, SyncedServed
    <2>2. QED
      BY <1>3, <1>7, <2>1 DEF AllAre
  <1>11. QED
    BY <1>8, <1>9, <1>10 DEF LInv

\* The hydration of a canvas somebody has drawn on applies the last layout.
LEMMA HydratesLast ==
    ASSUME IInv, HInv, LInv, Hydrate, last[hook.on] # None
    PROVE  /\ hook.on \in Canvases /\ ~hook.hydrated
           /\ server[hook.on] = last[hook.on] /\ cache[hook.on].data = last[hook.on]
           /\ HydratedHook.local = last[hook.on] /\ HydratedHook.on = hook.on
           /\ HydratedHook \in Hook
  <1> DEFINE c == hook.on
  <1>1. c \in Canvases /\ ~hook.hydrated /\ ~To(puts, c)
    BY Typed DEF Hydrate, Quiet, InFlight, To
  <1>2. hook.start = None /\ cache[c].state = "ok"
    BY <1>1, CanvasAssumption DEF LInv, LastShown, ReadOnce, Loaded
  <1>3. hook.pending = None
    BY <1>1 DEF HInv, HookOk, PendingOk
  <1>4. server[c] = last[c] /\ cache[c].data = last[c]
    BY <1>1, <1>3 DEF LInv, LastSent
  <1>5. ~UserTouched
    BY <1>2 DEF UserTouched
  <1>6. HydratedHook.local = last[c] /\ HydratedHook.on = c /\ HydratedHook \in Hook
    BY <1>1, <1>2, <1>4, <1>5, HydratedCases
  <1>7. QED
    BY <1>1, <1>4, <1>6

LEMMA HydrateL == ASSUME IInv, HInv, LInv, Hydrate PROVE LInv'
  <1> DEFINE c == hook.on
             new == HydratedHook
  <1>1. /\ hook' = Armed(hook, new) /\ UNCHANGED <<cache, fetching, puts, server, last>>
        /\ c \in Canvases /\ ~hook.hydrated /\ ~To(puts, c)
        /\ c \notin fetching /\ cache[c].state # "absent"
    BY Typed DEF Hydrate, Quiet, SettledQuery, InFlight, To
  <1>2. /\ new \in Hook /\ new.on = c /\ new.hydrated
        /\ cache[c].state = "error" => new.status = "offline"
    BY <1>1, HydratedCases
  <1>3. last[c] # None => new.local = last[c] /\ server[c] = last[c] /\ cache[c].data = last[c]
    BY HydratesLast
  <1> HIDE DEF new
  <1>4. SameHook(hook', new)
    BY <1>1, <1>2, ArmedCases, CanvasAssumption
  <1>5. hook'.on = c /\ hook'.local = new.local /\ hook'.hydrated /\ hook'.status = new.status
    BY <1>2, <1>4 DEF SameHook
  <1>6. cache[c].state # "error" => Loaded(c)
    <2>1. cache[c] \in Query
      BY <1>1, Typed
    <2>2. QED
      BY <1>1, <2>1 DEF Query, Loaded
  <1>7. ReadOnce'
    BY <1>1, <1>2, <1>5, <1>6 DEF LInv, ReadOnce, Loaded
  <1>8. LastShown'
    BY <1>1, <1>3, <1>5 DEF LastShown
  <1>9. hook.pending = None
    BY <1>1 DEF HInv, HookOk, PendingOk
  <1>10. LastSent'
    BY <1>1, <1>9 DEF LInv, LastSent
  <1>11. SyncedServed'
    BY <1>1, <1>3, <1>5 DEF SyncedServed, AllAre, To
  <1>12. QED
    BY <1>7, <1>8, <1>10, <1>11 DEF LInv

LEMMA PutAnsweredL == ASSUME IInv, HInv, LInv, Steady, PutAnswered PROVE LInv'
  <1> DEFINE p == Head(puts)
             row == [state |-> "ok", data |-> p.val]
             new == Saved(p)
  <1>1. /\ puts # <<>> /\ p.applied /\ puts' = Tail(puts)
        /\ cache' = [cache EXCEPT ![p.to] = row]
        /\ hook' = IF p.mine THEN Armed(hook, new) ELSE hook
        /\ UNCHANGED <<fetching, server, last>>
    BY DEF PutAnswered, Cached
  <1>2. puts \in Seq(Puts)
    BY Typed
  <1>3. /\ \A c : To(puts, c) <=> To(Tail(puts), c) \/ p.to = c
        /\ \A c, l : LastIs(puts, c, l) => LastIs(Tail(puts), c, l)
        /\ \A c, l : LastIs(puts, c, l) /\ p.to = c /\ ~To(Tail(puts), c) => p.val = l
        /\ \A i \in DOMAIN Tail(puts) : \E j \in DOMAIN puts : Tail(puts)[i] = puts[j]
        /\ \E j \in DOMAIN puts : p = puts[j]
    BY <1>1, <1>2, TailFacts
  <1>4. \A c, l : SameAfter(puts, c, l) /\ p.to = c /\ p.val = l => AllAre(Tail(puts), c, l)
    BY <1>1, <1>2, TailFacts DEF AllAre
  <1>5. /\ p \in Puts
        /\ AllAre(puts', p.to, p.val) => server[p.to] = p.val
    BY <1>1, PutsAreSound, TailSound DEF AllAre
  <1>6. row.state = "ok" /\ row.data = p.val
    OBVIOUS
  <1>7. /\ new \in Hook /\ new.on = hook.on /\ new.local = hook.local /\ new.hydrated = hook.hydrated
        /\ new.pending = hook.pending /\ new.synced = p.val /\ new.status = "idle"
        /\ new.moved = hook.moved /\ new.start = hook.start
    BY <1>5, Typed DEF Saved, Hook, Puts
  <1>8. p.mine => PendingOk(new)
    <2>1. p.val # None
      <3>1. p.val \in PastOf(p.to, drawn[p.to]) /\ p.to \in Canvases /\ drawn[p.to] \in Nat
        BY <1>3, <1>5, Typed DEF HInv, PastSound, Puts
      <3>2. QED
        BY <3>1, CanvasAssumption DEF PastOf
    <2>2. QED
      BY <1>7, <2>1 DEF HInv, HookOk, PendingOk, Shot
  <1> HIDE DEF p, row, new
  <1>9. /\ hook'.on = hook.on /\ hook'.local = hook.local /\ hook'.hydrated = hook.hydrated
        /\ hook'.start = hook.start /\ (hook'.pending = None => hook.pending = None)
        /\ IF p.mine THEN hook'.synced = p.val ELSE hook'.synced = hook.synced /\ hook'.status = hook.status
    <2>1. CASE p.mine
      <3>1. hook' = Armed(hook, new)
        BY <1>1, <2>1
      <3>2. SameHook(hook', new)
        BY <1>7, <3>1, ArmedCases, Typed
      <3>3. hook'.pending = None => new.pending = None
        BY <1>7, <1>8, <2>1, <3>1, ArmedPending, Typed
      <3>4. QED
        BY <1>7, <2>1, <3>2, <3>3 DEF SameHook
    <2>2. CASE ~p.mine
      BY <1>1, <2>2
    <2>3. QED
      BY <2>1, <2>2
  <1>10. p.to \in Canvases /\ \A d \in Canvases : Loaded(d) => Loaded(d)'
    BY <1>1, <1>5, <1>6, Typed DEF Loaded, Puts
  <1>11. ReadOnce'
    <2>1. hook.hydrated /\ hook'.status # "offline" => hook.status # "offline"
      <3>1. p.mine /\ ~hook.moved => hook.status # "offline"
        BY <1>3 DEF HInv, HookOk, MineOk
      <3>2. QED
        BY <1>9, <3>1 DEF Steady
    <2>2. hook.hydrated => hook.on \in Canvases
      BY Typed
    <2>3. QED
      BY <1>1, <1>9, <1>10, <2>1, <2>2 DEF LInv, ReadOnce
  <1>12. LastShown'
    BY <1>1, <1>9 DEF LInv, LastShown
  <1>13. LastSent'
    <2> SUFFICES ASSUME NEW c \in Canvases, last[c] # None, hook.pending = None \/ hook.on # c
                 PROVE  /\ LastIs(puts', c, last[c])
                        /\ ~To(puts', c) => server[c] = last[c] /\ cache'[c].data = last[c]
      BY <1>1, <1>9 DEF LastSent
    <2>1. LastIs(puts, c, last[c]) /\ (~To(puts, c) => server[c] = last[c] /\ cache[c].data = last[c])
      BY DEF LInv, LastSent
    <2>2. CASE p.to = c
      <3>1. ~To(puts', c) => p.val = last[c] /\ server[c] = p.val
        BY <1>1, <1>3, <1>5, <2>1, <2>2 DEF AllAre, To
      <3>2. cache'[c].data = p.val
        BY <1>1, <1>6, <2>2, Typed
      <3>3. QED
        BY <1>1, <1>3, <2>1, <3>1, <3>2
    <2>3. CASE p.to # c
      <3>1. cache'[c] = cache[c]
        BY <1>1, <1>10, <2>3, Typed
      <3>2. QED
        BY <1>1, <1>3, <2>1, <2>3, <3>1
    <2>4. QED
      BY <2>2, <2>3
  <1>14. SyncedServed'
    <2> SUFFICES ASSUME hook.hydrated, last[hook.on] # None, hook'.synced = hook.local
                 PROVE  /\ server[hook.on] = hook.local /\ cache'[hook.on].data = hook.local
                        /\ AllAre(puts', hook.on, hook.local)
      BY <1>1, <1>9 DEF SyncedServed
    <2>1. hook.on \in Canvases /\ hook.local = last[hook.on]
      BY Typed, CanvasAssumption DEF LInv, LastShown
    <2>2. CASE p.mine
      <3>1. p.val = hook.local
        BY <1>9, <2>2
      <3>2. p.to = hook.on
        <4>1. hook.local \in {hook.on} \X (1..drawn[hook.on])
          BY <2>1 DEF HInv, PastSound
        <4>2. hook.local # Blank
          BY <2>1, <4>1, Typed, CanvasAssumption
        <4>3. p.val \in PastOf(p.to, drawn[p.to])
          BY <1>3 DEF HInv, PastSound
        <4>4. QED
          BY <3>1, <4>1, <4>2, <4>3 DEF PastOf
      <3>3. AllAre(puts', hook.on, hook.local)
        BY <1>1, <1>4, <3>1, <3>2 DEF HInv, HookOk, SameOk
      <3>4. cache'[hook.on].data = hook.local
        BY <1>1, <1>6, <2>1, <3>1, <3>2, Typed
      <3>5. QED
        BY <1>5, <3>1, <3>2, <3>3, <3>4
    <2>3. CASE ~p.mine
      <3>1. p.to # hook.on
        BY <1>3, <2>3 DEF HInv, HookOk, MineOk
      <3>2. cache'[hook.on] = cache[hook.on]
        BY <1>1, <1>10, <2>1, <3>1, Typed
      <3>3. /\ server[hook.on] = hook.local /\ cache[hook.on].data = hook.local
            /\ AllAre(puts, hook.on, hook.local)
        BY <1>9, <2>3 DEF LInv, SyncedServed
      <3>4. AllAre(puts', hook.on, hook.local)
        BY <1>1, <1>3, <3>3 DEF AllAre
      <3>5. QED
        BY <3>2, <3>3, <3>4
    <2>4. QED
      BY <2>2, <2>3
  <1>15. QED
    BY <1>11, <1>12, <1>13, <1>14 DEF LInv

LEMMA PutFailsL == ASSUME IInv, HInv, LInv, Steady, PutFails PROVE LInv'
  <1> DEFINE p == Head(puts)
             new == [hook EXCEPT !.status = "error"]
             retried == p.mine /\ hook.on = p.to /\ hook.hydrated
  <1>1. /\ puts # <<>> /\ puts' = Tail(puts)
        /\ hook' = IF p.mine THEN Armed(hook, new) ELSE hook
        /\ last' = IF retried THEN last ELSE [last EXCEPT ![p.to] = None]
        /\ UNCHANGED <<cache, fetching, server>>
    BY DEF PutFails
  <1>2. puts \in Seq(Puts)
    BY Typed
  <1>3. /\ \A c : To(puts, c) <=> To(Tail(puts), c) \/ p.to = c
        /\ \A c, l : LastIs(puts, c, l) => LastIs(Tail(puts), c, l)
        /\ \A i \in DOMAIN Tail(puts) : \E j \in DOMAIN puts : Tail(puts)[i] = puts[j]
        /\ \E j \in DOMAIN puts : p = puts[j]
    BY <1>1, <1>2, TailFacts
  <1>4. /\ new \in Hook /\ new.on = hook.on /\ new.local = hook.local /\ new.hydrated = hook.hydrated
        /\ new.pending = hook.pending /\ new.synced = hook.synced /\ new.status = "error"
        /\ new.start = hook.start /\ new.moved = hook.moved
    BY Typed DEF Hook
  <1> HIDE DEF p, new
  <1>5. PendingOk(new)
    BY <1>4 DEF HInv, HookOk, PendingOk, Shot
  <1>6. /\ hook'.on = hook.on /\ hook'.local = hook.local /\ hook'.hydrated = hook.hydrated
        /\ hook'.synced = hook.synced /\ hook'.start = hook.start
        /\ hook'.pending = None => hook.pending = None
        /\ IF p.mine THEN hook'.status = "error" ELSE hook'.status = hook.status
    <2>1. CASE p.mine
      <3>1. hook' = Armed(hook, new)
        BY <1>1, <2>1
      <3>2. SameHook(hook', new)
        BY <1>4, <3>1, ArmedCases, Typed
      <3>3. hook'.pending = None => new.pending = None
        BY <1>4, <1>5, <3>1, ArmedPending, Typed
      <3>4. QED
        BY <1>4, <2>1, <3>2, <3>3 DEF SameHook
    <2>2. CASE ~p.mine
      BY <1>1, <2>2
    <2>3. QED
      BY <2>1, <2>2
  <1>7. ErrorOk(hook')
    BY PutFailsH DEF HInv, HookOk
  <1>8. p.to \in Canvases
    BY <1>3, Typed
  <1>9. /\ \A d \in Canvases : last'[d] = last[d] \/ last'[d] = None
        /\ ~retried => last'[p.to] = None
        /\ retried => last' = last
    BY <1>1, <1>8, Typed
  <1> HIDE DEF retried
  <1>10. hook.hydrated => hook.on \in Canvases
    BY Typed
  <1>11. ReadOnce'
    <2>1. hook.hydrated /\ hook'.status # "offline" => hook.status # "offline"
      <3>1. p.mine /\ ~hook.moved => hook.status # "offline"
        BY <1>3 DEF HInv, HookOk, MineOk
      <3>2. QED
        BY <1>6, <3>1 DEF Steady
    <2>2. QED
      BY <1>1, <1>6, <1>9, <1>10, <2>1 DEF LInv, ReadOnce, Loaded
  <1>12. LastShown'
    <2>1. hook.on # None => hook.on \in Canvases
      BY Typed
    <2>2. QED
      BY <1>6, <1>9, <2>1 DEF LInv, LastShown
  <1>13. LastSent'
    <2> SUFFICES ASSUME NEW c \in Canvases, last'[c] # None, hook'.pending = None \/ hook.on # c
                 PROVE  /\ LastIs(puts', c, last[c])
                        /\ ~To(puts', c) => server[c] = last[c] /\ cache[c].data = last[c]
      BY <1>1, <1>6, <1>9 DEF LastSent
    <2>1. last[c] # None /\ (hook.pending = None \/ hook.on # c)
      BY <1>6, <1>9
    <2>2. LastIs(puts, c, last[c]) /\ (~To(puts, c) => server[c] = last[c] /\ cache[c].data = last[c])
      BY <2>1 DEF LInv, LastSent
    <2>3. CASE p.to # c
      BY <1>1, <1>3, <2>2, <2>3
    <2>4. CASE p.to = c
      <3>1. p.mine /\ hook.on = c /\ hook.hydrated
        BY <1>9, <2>4 DEF retried
      <3>2. hook.synced = hook.local
        BY <1>6, <1>7, <3>1 DEF ErrorOk
      <3>3. server[c] = hook.local /\ cache[c].data = hook.local /\ hook.local = last[c]
        BY <2>1, <3>1, <3>2, CanvasAssumption DEF LInv, SyncedServed, LastShown
      <3>4. QED
        BY <1>1, <1>3, <2>2, <3>3
    <2>5. QED
      BY <2>3, <2>4
  <1>14. SyncedServed'
    <2> SUFFICES ASSUME hook.hydrated, last'[hook.on] # None, hook.synced = hook.local
                 PROVE  /\ server[hook.on] = hook.local /\ cache[hook.on].data = hook.local
                        /\ AllAre(puts', hook.on, hook.local)
      BY <1>1, <1>6 DEF SyncedServed
    <2>1. last[hook.on] # None
      BY <1>9, <1>10
    <2>2. /\ server[hook.on] = hook.local /\ cache[hook.on].data = hook.local
          /\ AllAre(puts, hook.on, hook.local)
      BY <2>1 DEF LInv, SyncedServed
    <2>3. QED
      BY <1>1, <1>3, <2>2 DEF AllAre
  <1>15. QED
    BY <1>11, <1>12, <1>13, <1>14 DEF LInv

LEMMA LInvStep == ASSUME ~Undo PROVE IInv /\ HInv /\ LInv /\ Steady /\ [Next]_vars => LInv'
  <1> SUFFICES ASSUME IInv, HInv, LInv, Steady, [Next]_vars PROVE LInv'
    OBVIOUS
  <1>1. CASE UserNext
    BY <1>1, OpenL, NavigateL, DrawL, CloseL DEF UserNext
  <1>2. CASE PushPending
    BY <1>2, PushPendingL
  <1>3. CASE Hydrate
    BY <1>3, HydrateL
  <1>4. ASSUME NEW c \in Canvases, GetAnswered(c) PROVE LInv'
    BY <1>4, QuerySettles DEF GetAnswered
  <1>5. ASSUME NEW c \in Canvases, GetFails(c) PROVE LInv'
    BY <1>5, QuerySettles DEF GetFails
  <1>6. CASE PutApplied
    BY <1>6, PutAppliedL
  <1>7. CASE PutAnswered
    BY <1>7, PutAnsweredL
  <1>8. CASE PutFails
    BY <1>8, PutFailsL
  <1>9. CASE UNCHANGED vars
    BY <1>9 DEF vars, LInv, ReadOnce, LastShown, LastSent, SyncedServed, Loaded
  <1>10. QED
    BY <1>1, <1>2, <1>3, <1>4, <1>5, <1>6, <1>7, <1>8, <1>9 DEF Next

\* The flush loses no change: a canvas comes back with the last layout drawn
\* on it, unless a PUT nobody retries failed.  For a user who does not return
\* to a layout he had before, and instances that do not change canvas around
\* a failed read.
THEOREM ReopenIsLatest == ~Undo /\ Spec /\ []Steady => ReopenShowsLatest
  <1> DEFINE Latest ==
        LET c == hook.on IN
        /\ ~hook.hydrated /\ hook'.hydrated
        /\ cache[c].data # None /\ ~UserTouched
        /\ last[c] # None
        => hook'.local = last[c]
  <1>1. IInv /\ HInv /\ LInv /\ [Next]_vars => [Latest]_vars
    <2> SUFFICES ASSUME IInv, HInv, LInv, Next, ~hook.hydrated, hook'.hydrated, last[hook.on] # None
                 PROVE  hook'.local = last[hook.on]
      BY DEF Latest
    <2>1. Hydrate
      BY OnlyHydrate
    <2>2. HydratedHook \in Hook /\ HydratedHook.on \in Canvases /\ HydratedHook.local = last[hook.on]
      BY <2>1, HydratesLast
    <2>3. hook'.local = HydratedHook.local
      BY <2>1, <2>2, ArmedFields, CanvasAssumption DEF Hydrate
    <2>4. QED
      BY <2>2, <2>3
  <1>2. ASSUME ~Undo PROVE Spec /\ []Steady => ReopenShowsLatest
    <2>1. IInv /\ HInv /\ LInv /\ Steady /\ [Next]_vars => (IInv /\ HInv /\ LInv)'
      BY <1>2, IInvStep, HInvStep, LInvStep
    <2>2. QED
      BY <1>1, <2>1, IInvInit, HInvInit, LInvInit, PTL DEF Spec, ReopenShowsLatest
  <1>3. QED
    BY <1>2
=============================================================================
