---------------------------- MODULE FetchProofs -------------------------------
(***************************************************************************)
(* Proofs about request interception, for any set of requests, routes and   *)
(* patterns: which route a handler gets, that Fetch follows the route       *)
(* table, and that a paused request is answered once.                       *)
(***************************************************************************)
EXTENDS Fetch, FiniteSetTheorems, WellFoundedInduction, TLAPS

\* Where a program's goroutine can be in Route, Unroute and sync.
Places == {"idle", "flags", "patterns", "unsub", "sub", "enable", "drop", "disable"}

\* The type invariant, without the bounds that the model puts on the counters.
Types ==
    /\ slots \in [Slots -> Routes \cup {NoRoute}]
    /\ len \in 0..Cardinality(Routes) /\ cap \in Nat
    /\ \A i \in 1..len : slots[i] \in Routes
    /\ lastSub \in Nat /\ unsub \in 0..lastSub /\ subs \subseteq 1..lastSub
    /\ fetch \subseteq Stages \cup Patterns
    /\ upc \in [Users -> Places]
    /\ want \in [Users -> SUBSET (Stages \cup Patterns)]
    /\ st \in [Requests -> {"new", "atRequest", "sent", "atResponse", "over"}]
    /\ failed \subseteq Requests
    /\ pauses \in [Requests -> Nat] /\ answers \in [Requests -> Nat]
    /\ running \subseteq Goroutine

\* The flags, apart: the provers see them best as Boolean values.
Flagged == reqH \in BOOLEAN /\ respH \in BOOLEAN /\ enabled \in BOOLEAN /\ unrouted \in BOOLEAN

\* Every set of places in the array has a first one.
LEMMA LeastExists ==
    ASSUME NEW n \in Nat, NEW T, T \subseteq 1..n, T # {}
    PROVE  \E i \in T : \A j \in T : i <= j
<1> DEFINE Downto(i) == 0..i
           TT == {Downto(i) : i \in T}
<1>1. IsWellFoundedOn(StrictSubsetOrdering(0..n), SUBSET (0..n))
  <2>1. IsFiniteSet(0..n)
    BY FS_Interval
  <2>2. FiniteSubsetsOf(0..n) = SUBSET (0..n)
    BY <2>1, FS_FiniteSubsetsOfFinite
  <2>3. IsWellFoundedOn(StrictSubsetOrdering(0..n), FiniteSubsetsOf(0..n))
    BY FS_StrictSubsetOrderingWellFounded
  <2> QED BY <2>2, <2>3
<1>2. TT \subseteq SUBSET (0..n) /\ TT # {}
  <2>1. \A i \in T : Downto(i) \in TT /\ Downto(i) \subseteq 0..n
    OBVIOUS
  <2> QED BY <2>1
<1>3. PICK X \in TT : \A Y \in TT : ~(<<Y, X>> \in StrictSubsetOrdering(0..n))
  BY <1>1, <1>2, WFMin
<1>4. PICK i \in T : X = Downto(i)
  OBVIOUS
<1>5. ASSUME NEW j \in T, j < i PROVE FALSE
  <2>1. Downto(j) \in TT
    OBVIOUS
  <2>2. Downto(j) \subseteq Downto(i) /\ Downto(j) # Downto(i)
    <3>1. i \in Downto(i) /\ i \notin Downto(j)
      BY <1>5
    <3> QED BY <1>5, <3>1
  <2>3. <<Downto(j), Downto(i)>> \in StrictSubsetOrdering(0..n)
    BY <2>1, <2>2, <1>2, <1>4 DEF StrictSubsetOrdering
  <2> QED BY <2>1, <2>3, <1>3, <1>4
<1>6. \A j \in T : i <= j
  BY <1>5
<1> QED BY <1>6

\* There are finitely many routes, so the array has a length.
LEMMA RoutesCounted == Cardinality(Routes) \in Nat
BY FetchAssumption, FS_CardinalityType

\* Look takes the first of the routes that match.
LEMMA FirstHits ==
    ASSUME Types, NEW q \in Requests, Hits(q) # {}
    PROVE  First(q) \in 1..len /\ <<pattern[slots[First(q)]], q>> \in Matches
<1>1. len \in Nat /\ Hits(q) \subseteq 1..len
  BY RoutesCounted DEF Types, Hits
<1>2. \E i \in Hits(q) : \A j \in Hits(q) : i <= j
  BY <1>1, LeastExists
<1>3. First(q) \in Hits(q)
  BY <1>2 DEF First
<1> QED BY <1>3 DEF Hits

\* Where Look leads a goroutine, the cases of the code one after the other.
LEMMA LookBecomes ==
    ASSUME Types, NEW g \in running, Look(g)
    PROVE  \E h \in Goroutine :
             /\ Become(g, h) /\ h.req = g.req
             /\ \/ h.at # "route" /\ h.slot = g.slot /\ h.route = g.route
                \/ /\ h.at = "route" /\ h.slot \in 1..len /\ h.route = slots[h.slot]
                   /\ <<pattern[h.route], g.req>> \in Matches
<1>0. g \in Goroutine /\ g.req \in Requests
  BY DEF Types, Goroutine
<1>2. CASE g.stage = "request" /\ Hits(g.req) # {}
  <2>1. Become(g, [g EXCEPT !.at = "route", !.slot = First(g.req), !.route = slots[First(g.req)]])
    <3>1. ~("request" = "response")
      OBVIOUS
    <3> QED BY <1>2, <3>1, Zenon DEF Look
  <2> DEFINE h == [g EXCEPT !.at = "route", !.slot = First(g.req), !.route = slots[First(g.req)]]
  <2>2. First(g.req) \in 1..len /\ <<pattern[slots[First(g.req)]], g.req>> \in Matches
    BY <1>0, <1>2, FirstHits
  <2>3. 1..len \subseteq Slots /\ 1..len \subseteq 0..Cardinality(Routes)
    BY RoutesCounted DEF Types, Slots
  <2>4. slots[First(g.req)] \in Routes \cup {NoRoute}
    BY <2>2, <2>3 DEF Types
  <2>5. h \in Goroutine /\ h.req = g.req /\ h.at = "route" /\ h.slot = First(g.req)
        /\ h.route = slots[First(g.req)]
    BY <1>0, <2>2, <2>3, <2>4 DEF Goroutine
  <2> QED BY <2>1, <2>2, <2>5
<1>3. CASE ~(g.stage = "request" /\ Hits(g.req) # {})
  <2>1. PICK a \in {"handler", "continue"} : Become(g, [g EXCEPT !.at = a])
    <3>1. CASE g.stage = "response"
      BY <1>3, <3>1, Zenon DEF Look
    <3>2. CASE g.stage # "response"
      BY <1>3, <3>2, Zenon DEF Look
    <3> QED BY <3>1, <3>2
  <2> DEFINE h == [g EXCEPT !.at = a]
  <2>2. h \in Goroutine /\ h.req = g.req /\ h.at # "route" /\ h.slot = g.slot
        /\ h.route = g.route
    BY <1>0 DEF Goroutine
  <2> QED BY <2>1, <2>2
<1> QED BY <1>2, <1>3

\* A pause keeps the types of what it changes.
LEMMA PauseTypes ==
    ASSUME Types, NEW q \in Requests, NEW stage \in Stages, Pause(q, stage)
    PROVE  running' \subseteq Goroutine /\ pauses' \in [Requests -> Nat]
<1>1. ASSUME NEW s \in subs, NEW x \in Stages
      PROVE  [req |-> q, sub |-> s, at |-> "look", slot |-> 0, route |-> NoRoute, stage |-> x]
                \in Goroutine
  BY RoutesCounted DEF Types, Goroutine
<1>2. running' \subseteq Goroutine
  BY <1>1 DEF Types, Pause, Stages
<1> QED BY <1>2 DEF Types, Pause

\* A goroutine that lets go of the route keeps all the rest.
LEMMA SlotDropped ==
    ASSUME NEW g \in Goroutine
    PROVE  /\ [g EXCEPT !.slot = 0] \in Goroutine
           /\ [g EXCEPT !.slot = 0].slot = 0 /\ [g EXCEPT !.slot = 0].req = g.req
           /\ [g EXCEPT !.slot = 0].at = g.at /\ [g EXCEPT !.slot = 0].route = g.route
<1>1. 0 \in 0..Cardinality(Routes)
  BY RoutesCounted
<1> QED BY <1>1 DEF Goroutine

\* Unroute moves the routes behind the one that it removes up by one.
LEMMA RemoveMovesUp ==
    ASSUME NEW u \in Users, NEW r \in Routes, RemoveRoute(u, r),
           \E i \in 1..len : pattern[slots[i]] = pattern[r]
    PROVE  \E k : /\ slots' = [i \in Slots |-> IF i \in k..(len - 1) THEN slots[i + 1] ELSE slots[i]]
                  /\ len' = len - 1 /\ Seen(slots')
BY Zenon DEF RemoveRoute

\* The variables keep their types.
LEMMA TypeInductive == Types /\ [Next]_vars => Types'
<1> SUFFICES ASSUME Types, [Next]_vars PROVE Types'
  OBVIOUS
<1> USE FetchAssumption, RoutesCounted DEF Types, Slots, Go, Places
<1>1. ASSUME NEW u \in Users, Operation(u) PROVE Types'
  <2> UNCHANGED <<syncVars, want, reqVars>> /\ upc' = [upc EXCEPT ![u] = "flags"]
    BY <1>1, Zenon DEF Operation, SetRequestHandler, SetResponseHandler, AddRoute, RemoveRoute,
       Begin
  <2>0. Types' <=> /\ slots' \in [Slots -> Routes \cup {NoRoute}]
                   /\ len' \in 0..Cardinality(Routes) /\ cap' \in Nat
                   /\ \A i \in 1..len' : slots'[i] \in Routes
                   /\ running' \subseteq Goroutine
    BY DEF syncVars, reqVars
  <2>1. ASSUME NEW set \in BOOLEAN, SetRequestHandler(u, set) PROVE Types'
    BY <2>0, <2>1 DEF SetRequestHandler
  <2>2. ASSUME NEW set \in BOOLEAN, SetResponseHandler(u, set) PROVE Types'
    BY <2>0, <2>2 DEF SetResponseHandler
  <2>3. ASSUME NEW table \in [Slots -> Routes \cup {NoRoute}], Seen(table)
        PROVE  running' \subseteq Goroutine
    <3>1. ASSUME NEW g \in running
          PROVE  [g EXCEPT !.route = IF g.slot = 0 THEN @ ELSE table[g.slot]] \in Goroutine
      <4>1. g \in Goroutine /\ (g.slot = 0 \/ g.slot \in Slots)
        BY DEF Goroutine
      <4>2. (IF g.slot = 0 THEN g.route ELSE table[g.slot]) \in Routes \cup {NoRoute}
        BY <4>1 DEF Goroutine
      <4> QED BY <4>1, <4>2 DEF Goroutine
    <3> QED BY <2>3, <3>1 DEF Seen
  <2>4. ASSUME NEW r \in Routes, AddRoute(u, r) PROVE Types'
    <3>1. Frozen => running' \subseteq Goroutine
      <4>1. ASSUME NEW g \in running PROVE [g EXCEPT !.slot = 0] \in Goroutine
        BY <4>1, SlotDropped
      <4> QED BY <4>1 DEF Frozen
    <3>2. slots' \in [Slots -> Routes \cup {NoRoute}] /\ len' \in 0..Cardinality(Routes)
          /\ \A i \in 1..len' : slots'[i] \in Routes
      BY <2>4 DEF AddRoute
    <3>3. Seen(slots') \/ Frozen
      BY <2>4, Zenon DEF AddRoute
    <3>4. cap' \in Nat
      BY <2>4 DEF AddRoute
    <3> QED BY <2>0, <2>3, <3>1, <3>2, <3>3, <3>4
  <2>5. ASSUME NEW r \in Routes, RemoveRoute(u, r) PROVE Types'
    <3>1. CASE \E i \in 1..len : pattern[slots[i]] = pattern[r]
      <4>1. PICK k : /\ slots' = [i \in Slots |-> IF i \in k..(len - 1) THEN slots[i + 1] ELSE slots[i]]
                     /\ len' = len - 1 /\ Seen(slots')
        BY <2>5, <3>1, RemoveMovesUp
      <4>2. slots' \in [Slots -> Routes \cup {NoRoute}] /\ len' \in 0..Cardinality(Routes)
            /\ \A i \in 1..len' : slots'[i] \in Routes
        BY <3>1, <4>1
      <4>3. cap' = cap
        BY <2>5 DEF RemoveRoute
      <4> QED BY <2>0, <2>3, <4>1, <4>2, <4>3
    <3>2. CASE ~\E i \in 1..len : pattern[slots[i]] = pattern[r]
      BY <2>0, <2>5, <3>2 DEF RemoveRoute
    <3> QED BY <3>1, <3>2
  <2> QED BY <1>1, <2>1, <2>2, <2>4, <2>5 DEF Operation
<1>2. ASSUME NEW u \in Users, Sync(u) PROVE Types'
  <2> USE DEF tableVars, syncVars, reqVars
  <2>1. CASE Flags(u)
    <3>1. PICK l \in Places : Go(u, l)
      BY <2>1 DEF Flags
    <3>2. Needed \subseteq Stages
      BY Zenon DEF Needed, Stages
    <3>3. want' = [want EXCEPT ![u] = Needed]
          /\ UNCHANGED <<tableVars, syncVars, reqVars, running>>
      BY <2>1, Zenon DEF Flags
    <3> QED BY <3>1, <3>2, <3>3
  <2>2. CASE AddPatterns(u)
    <3>1. {pattern[slots[i]] : i \in 1..len} \subseteq Patterns
      BY DEF Patterns
    <3> QED BY <2>2, <3>1 DEF AddPatterns
  <2>3. CASE Unsubscribe(u)
    BY <2>3 DEF Unsubscribe
  <2>4. CASE Subscribe(u)
    BY <2>4 DEF Subscribe
  <2>5. CASE Enable(u)
    BY <2>5 DEF Enable
  <2>6. CASE Drop(u)
    BY <2>6 DEF Drop
  <2>7. CASE Disable(u)
    <3>1. \/ fetch' = {} /\ st' = [q \in Requests |-> IF Paused(q) THEN Released(q) ELSE st[q]]
          \/ fetch' = fetch /\ st' = st
      BY <2>7, Zenon DEF Disable
    <3>2. fetch' \subseteq Stages \cup Patterns
          /\ st' \in [Requests -> {"new", "atRequest", "sent", "atResponse", "over"}]
      BY <3>1 DEF Released
    <3>3. /\ Go(u, "idle")
          /\ UNCHANGED <<tableVars, subs, unsub, lastSub, want, failed, pauses, answers, running>>
      BY <2>7, Zenon DEF Disable
    <3> QED BY <3>2, <3>3
  <2> QED BY <1>2, <2>1, <2>2, <2>3, <2>4, <2>5, <2>6, <2>7 DEF Sync
<1>3. ASSUME NEW q \in Requests, Start(q) PROVE Types'
  <2>1. CASE st' = [st EXCEPT ![q] = "atRequest"] /\ Pause(q, "request")
    BY <1>3, <2>1, PauseTypes DEF Start, Pause, Stages, tableVars, syncVars, reqVars
  <2>2. CASE st' = [st EXCEPT ![q] = "sent"] /\ UNCHANGED <<pauses, lost, running>>
    BY <1>3, <2>2 DEF Start, tableVars, syncVars, reqVars
  <2> QED BY <1>3, <2>1, <2>2, Zenon DEF Start
<1>4. ASSUME NEW q \in Requests, NEW fails \in BOOLEAN, Answered(q, fails) PROVE Types'
  <2>1. CASE st' = [st EXCEPT ![q] = "atResponse"] /\ Pause(q, "response")
    BY <1>4, <2>1, PauseTypes DEF Answered, Pause, Stages, tableVars, syncVars, reqVars
  <2>2. CASE st' = [st EXCEPT ![q] = "over"] /\ UNCHANGED <<pauses, lost, running>>
    BY <1>4, <2>2 DEF Answered, tableVars, syncVars, reqVars
  <2> QED BY <1>4, <2>1, <2>2, Zenon DEF Answered
<1>5. ASSUME NEW g \in running, Look(g) PROVE Types'
  <2>1. PICK h \in Goroutine : Become(g, h)
    BY <1>5, LookBecomes
  <2>2. running' \subseteq Goroutine
    BY <2>1 DEF Become
  <2> QED BY <1>5, <2>2 DEF Look, tableVars, syncVars, reqVars
<1>6. ASSUME NEW g \in running, Handle(g) PROVE Types'
  BY <1>6 DEF Handle, Accept, Refuse, Released, Goroutine, tableVars, syncVars
<1>7. ASSUME NEW g \in running, Unreadable(g) PROVE Types'
  BY <1>7 DEF Unreadable, tableVars, syncVars
<1>8. CASE Finished \/ UNCHANGED vars
  BY <1>8 DEF Finished, vars
<1> QED BY <1>1, <1>2, <1>3, <1>4, <1>5, <1>6, <1>7, <1>8 DEF Next

-----------------------------------------------------------------------------
(* A route's handler gets what its pattern matches                           *)

\* A goroutine that holds a pointer into the array sees the route it looked up,
\* as long as nothing has been moved.
RouteHeld ==
    ~unrouted => \A g \in running :
        /\ g.slot # 0 => g.slot \in 1..len /\ g.route = slots[g.slot]
        /\ g.at = "route" => <<pattern[g.route], g.req>> \in Matches

\* The goroutines that Pause adds hold nothing yet.
LEMMA PauseHolds ==
    ASSUME Types, RouteHeld, NEW q \in Requests, NEW stage \in Stages, Pause(q, stage),
           UNCHANGED tableVars
    PROVE  RouteHeld'
<1>1. slots' = slots /\ len' = len /\ unrouted' = unrouted
  BY Zenon DEF tableVars
<1>2. \A g \in running' : g \in running \/ (g.slot = 0 /\ g.at = "look")
  BY DEF Pause
<1> QED BY <1>1, <1>2 DEF RouteHeld

\* Until Unroute moves a route, pointers into the array keep what they point to.
LEMMA RouteInductive == Types /\ RouteHeld /\ [Next]_vars => RouteHeld'
<1> SUFFICES ASSUME Types, RouteHeld, [Next]_vars, ~unrouted' PROVE RouteHeld'
  BY DEF RouteHeld
<1> USE FetchAssumption, RoutesCounted
<1> DEFINE Same == slots' = slots /\ len' = len /\ unrouted' = unrouted
<1>0. Same /\ running' = running => RouteHeld'
  BY DEF RouteHeld
<1>1. ASSUME NEW u \in Users, Operation(u) PROVE RouteHeld'
  <2>1. ASSUME NEW set \in BOOLEAN, SetRequestHandler(u, set) \/ SetResponseHandler(u, set)
        PROVE  RouteHeld'
    BY <1>0, <2>1, Zenon DEF SetRequestHandler, SetResponseHandler
  <2>2. ASSUME NEW r \in Routes, AddRoute(u, r) PROVE RouteHeld'
    <3>1. /\ slots' = [slots EXCEPT ![len + 1] = r] /\ len' = len + 1
          /\ Seen(slots') \/ Frozen
      BY <2>2, Zenon DEF AddRoute
    <3>0. ~unrouted
      BY <2>2, Zenon DEF AddRoute
    <3>2. \A i \in 1..len : slots'[i] = slots[i] /\ i \in 1..len'
      BY <3>1 DEF Types
    <3>3. CASE Frozen
      <4>1. ASSUME NEW h \in running'
            PROVE  h.slot = 0 /\ (h.at = "route" => <<pattern[h.route], h.req>> \in Matches)
        <5>1. PICK g \in running : h = [g EXCEPT !.slot = 0]
          BY <3>3 DEF Frozen
        <5>2. g \in Goroutine
          BY DEF Types
        <5>3. h.slot = 0 /\ h.req = g.req /\ h.at = g.at /\ h.route = g.route
          BY <5>1, <5>2, SlotDropped
        <5> QED BY <3>0, <5>3 DEF RouteHeld
      <4> QED BY <4>1 DEF RouteHeld
    <3>4. CASE Seen(slots')
      <4>1. ASSUME NEW h \in running' PROVE h \in running
        <5>1. PICK g \in running : h = [g EXCEPT !.route = IF g.slot = 0 THEN @ ELSE slots'[g.slot]]
          BY <3>4 DEF Seen
        <5>2. (IF g.slot = 0 THEN g.route ELSE slots'[g.slot]) = g.route
          BY <3>0, <3>2 DEF RouteHeld
        <5>3. g \in Goroutine
          BY DEF Types
        <5>4. h = g
          BY <5>1, <5>2, <5>3 DEF Goroutine
        <5> QED BY <5>4
      <4> QED BY <3>0, <3>2, <4>1 DEF RouteHeld
    <3> QED BY <3>1, <3>3, <3>4
  <2>3. ASSUME NEW r \in Routes, RemoveRoute(u, r) PROVE RouteHeld'
    BY <1>0, <2>3, Zenon DEF RemoveRoute
  <2> QED BY <1>1, <2>1, <2>2, <2>3 DEF Operation
<1>2. ASSUME NEW u \in Users, Sync(u) PROVE RouteHeld'
  BY <1>0, <1>2, Zenon DEF Sync, Flags, AddPatterns, Unsubscribe, Subscribe, Enable, Drop, Disable,
       tableVars
<1>3. ASSUME NEW q \in Requests, Start(q) PROVE RouteHeld'
  <2>1. CASE Pause(q, "request")
    BY <1>3, <2>1, PauseHolds DEF Start, Stages
  <2>2. CASE UNCHANGED running
    BY <1>3, <1>0, <2>2, Zenon DEF Start, tableVars
  <2> QED BY <1>3, <2>1, <2>2, Zenon DEF Start
<1>4. ASSUME NEW q \in Requests, NEW fails \in BOOLEAN, Answered(q, fails) PROVE RouteHeld'
  <2>1. CASE Pause(q, "response")
    BY <1>4, <2>1, PauseHolds DEF Answered, Stages
  <2>2. CASE UNCHANGED running
    BY <1>4, <1>0, <2>2, Zenon DEF Answered, tableVars
  <2> QED BY <1>4, <2>1, <2>2, Zenon DEF Answered
<1>5. ASSUME NEW g \in running, Look(g) PROVE RouteHeld'
  <2>1. Same
    BY <1>5, Zenon DEF Look, tableVars
  <2>2. PICK h \in Goroutine :
             /\ Become(g, h) /\ h.req = g.req
             /\ \/ h.at # "route" /\ h.slot = g.slot /\ h.route = g.route
                \/ /\ h.at = "route" /\ h.slot \in 1..len /\ h.route = slots[h.slot]
                   /\ <<pattern[h.route], g.req>> \in Matches
    BY <1>5, LookBecomes
  <2> QED BY <2>1, <2>2 DEF RouteHeld, Become
<1>6. ASSUME NEW g \in running, Handle(g) \/ Unreadable(g) PROVE RouteHeld'
  <2>1. Same /\ running' = running \ {g}
    BY <1>6, Zenon DEF Handle, Unreadable, tableVars
  <2> QED BY <2>1 DEF RouteHeld
<1>7. CASE Finished \/ UNCHANGED vars
  BY <1>0, <1>7, Zenon DEF Finished, vars, tableVars
<1> QED BY <1>1, <1>2, <1>3, <1>4, <1>5, <1>6, <1>7 DEF Next

\* The types hold at first.
LEMMA TypeInit == Init => Types
BY FetchAssumption, RoutesCounted DEF Init, Types, Slots, Places

\* A route's handler runs for requests its pattern matches, for any number of routes,
\* requests and goroutines that register them, until a route has been removed.
THEOREM RoutesMatch == Spec => []RouteMatches
<1>1. Init => RouteHeld
  BY DEF Init, RouteHeld
<1>2. RouteHeld => RouteMatches
  BY DEF RouteHeld, RouteMatches
<1> QED BY <1>1, <1>2, TypeInit, TypeInductive, RouteInductive, PTL DEF Spec

-----------------------------------------------------------------------------
(* One goroutine that registers: sync keeps up with the table                *)

\* Route and Unroute are called from one goroutine, as in a program that sets its
\* routes up by itself; the calls of two interleave in sync (see Fetch_gap.cfg).
OneUser == \A u, v \in Users : u = v

\* One subscription at most, the one fm.unsub ends; without Fetch.enable nothing is
\* paused; and what sync has in its hands is what the table needs.
Following ==
    /\ (\E u \in Users : upc[u] = "sub") => subs = {}
    /\ (\A u \in Users : upc[u] # "sub") => subs = {unsub} \ {0}
    /\ ~enabled => fetch = {} /\ \A q \in Requests : ~Paused(q)
    /\ \A u \in Users :
         /\ upc[u] \in {"flags", "patterns", "unsub", "drop"} => (enabled <=> unsub # 0)
         /\ upc[u] \in {"patterns", "unsub", "sub", "enable"} =>
                want[u] \cap Stages = Needed /\ Needed # {}
         /\ upc[u] \in {"drop", "disable"} => Needed = {}
         /\ upc[u] = "enable" => unsub # 0
         /\ upc[u] = "disable" => unsub = 0
    /\ (\A u \in Users : upc[u] = "idle") =>
         /\ enabled <=> unsub # 0
         /\ enabled <=> Needed # {}
         /\ fetch \cap Stages = Needed

\* The steps that leave the table, sync and its goroutine alone keep Following if they
\* pause no request while Fetch is off.
LEMMA OthersFollow ==
    ASSUME Following, UNCHANGED <<tableVars, syncVars, upc, want>>,
           \A q \in Requests : Paused(q)' => Paused(q) \/ fetch # {}
    PROVE  Following'
<1>1. Needed' = Needed
  BY Zenon DEF tableVars, Needed
<1>2. subs' = subs /\ unsub' = unsub /\ fetch' = fetch /\ upc' = upc /\ want' = want
  BY Zenon DEF syncVars
<1>3. enabled' = enabled
  BY Zenon DEF syncVars
<1>4. \A q \in Requests : Paused(q) => enabled
  BY Zenon DEF Following
<1>5. fetch # {} => enabled
  BY Zenon DEF Following
<1>6. \A q \in Requests : Paused(q)' => enabled
  BY <1>4, <1>5, Zenon
<1>7. ~enabled' => fetch' = {} /\ \A q \in Requests : ~Paused(q)'
  BY <1>2, <1>3, <1>5, <1>6, Zenon
<1> QED BY <1>1, <1>2, <1>3, <1>7, Zenon DEF Following

\* Each step of sync keeps what it has done so far in line with the table.
LEMMA SyncInductive ==
    ASSUME OneUser, Types, Flagged, Following, [Next]_vars PROVE Following'
<1> USE FetchAssumption DEF OneUser
<1>1. ASSUME NEW u \in Users, Operation(u) PROVE Following'
  <2>1. Begin(u)
    BY <1>1, Zenon DEF Operation, SetRequestHandler, SetResponseHandler, AddRoute, RemoveRoute
  <2>2. upc[u] = "idle" /\ upc' = [upc EXCEPT ![u] = "flags"] /\ subs' = subs /\ unsub' = unsub
        /\ fetch' = fetch /\ st' = st
    BY <2>1, Zenon DEF Begin, Go, syncVars, reqVars
  <2>3. enabled' = enabled
    BY <2>1, Zenon DEF Begin, syncVars
  <2>4. \A v \in Users : upc[v] = "idle" /\ upc'[v] = "flags"
    BY <2>2 DEF Types
  <2>5. subs = {unsub} \ {0} /\ (enabled <=> unsub # 0)
    BY <2>4 DEF Following
  <2>6. ~enabled' => fetch' = {} /\ \A q \in Requests : ~Paused(q)'
    BY <2>2, <2>3 DEF Following, Paused
  <2> QED BY <2>2, <2>3, <2>4, <2>5, <2>6 DEF Following
<1>2. ASSUME NEW u \in Users, Sync(u) PROVE Following'
  <2>0. \A v \in Users : v = u
    OBVIOUS
  <2>t. Disable(u) \/ UNCHANGED reqVars
    BY <1>2, Zenon DEF Sync, Flags, AddPatterns, Unsubscribe, Subscribe, Enable, Drop
  <2>n. Needed' = Needed
    <3>1. UNCHANGED tableVars
      BY <1>2, Zenon DEF Sync, Flags, AddPatterns, Unsubscribe, Subscribe, Enable, Drop, Disable
    <3> QED BY <3>1, Zenon DEF Needed, tableVars
  <2>p. ~Disable(u) => \A q \in Requests : Paused(q)' = Paused(q)
    BY <2>t, Zenon DEF reqVars, Paused
  <2> HIDE DEF Paused
  <2> USE DEF Types, Go, Following
  <2>1. CASE Flags(u)
    <3>1. upc[u] = "flags" /\ want' = [want EXCEPT ![u] = Needed] /\ ~Disable(u)
      BY <2>1 DEF Flags, Disable
    <3>2. /\ subs' = subs /\ unsub' = unsub /\ fetch' = fetch
          /\ upc' = [upc EXCEPT ![u] = IF Needed = {} THEN "drop" ELSE "patterns"]
      BY <2>1, Zenon DEF Flags, syncVars
    <3>3. enabled' = enabled
      BY <2>1, Zenon DEF Flags, syncVars
    <3>4. Needed \subseteq Stages
      BY Zenon DEF Needed, Stages
    <3> QED BY <2>0, <2>n, <2>p, <3>1, <3>2, <3>3, <3>4
  <2>2. CASE AddPatterns(u)
    <3>1. upc[u] = "patterns" /\ ~Disable(u)
      BY <2>2 DEF AddPatterns, Disable
    <3>2. /\ subs' = subs /\ unsub' = unsub /\ fetch' = fetch
          /\ upc' = [upc EXCEPT ![u] = "unsub"]
          /\ want' = [want EXCEPT ![u] = @ \cup {pattern[slots[i]] : i \in 1..len}]
      BY <2>2, Zenon DEF AddPatterns, syncVars
    <3>3. enabled' = enabled
      BY <2>2, Zenon DEF AddPatterns, syncVars
    <3>4. {pattern[slots[i]] : i \in 1..len} \cap Stages = {}
      <4>1. {pattern[slots[i]] : i \in 1..len} \subseteq Patterns
        BY DEF Patterns
      <4> QED BY <4>1
    <3>5. want'[u] \cap Stages = want[u] \cap Stages
      BY <3>2, <3>4
    <3> QED BY <2>0, <2>n, <2>p, <3>1, <3>2, <3>3, <3>5
  <2>3. CASE Unsubscribe(u)
    <3>1. upc[u] = "unsub" /\ ~Disable(u)
      BY <2>3 DEF Unsubscribe, Disable
    <3>2. /\ subs' = subs \ {unsub} /\ unsub' = unsub /\ fetch' = fetch /\ want' = want
          /\ upc' = [upc EXCEPT ![u] = "sub"]
      BY <2>3, Zenon DEF Unsubscribe
    <3>3. enabled' = enabled
      BY <2>3, Zenon DEF Unsubscribe
    <3> QED BY <2>0, <2>n, <2>p, <3>1, <3>2, <3>3
  <2>4. CASE Subscribe(u)
    <3>1. upc[u] = "sub" /\ ~Disable(u)
      BY <2>4 DEF Subscribe, Disable
    <3>2. /\ subs' = subs \cup {lastSub + 1} /\ unsub' = lastSub + 1 /\ fetch' = fetch /\ want' = want
          /\ upc' = [upc EXCEPT ![u] = "enable"]
      BY <2>4, Zenon DEF Subscribe
    <3>3. enabled' = enabled
      BY <2>4, Zenon DEF Subscribe
    <3>4. subs' = {unsub'} \ {0} /\ unsub' # 0
      <4>1. subs = {} /\ lastSub + 1 # 0
        BY <3>1
      <4> QED BY <3>2, <4>1
    <3>5. \A v \in Users : upc'[v] = "enable"
      BY <2>0, <3>2
    <3>6. ~enabled' => fetch' = {} /\ \A q \in Requests : ~Paused(q)'
      BY <2>p, <3>1, <3>2, <3>3
    <3>7. want'[u] \cap Stages = Needed' /\ Needed' # {}
      BY <2>n, <3>1, <3>2
    <3> QED BY <2>0, <3>4, <3>5, <3>6, <3>7
  <2>5. CASE Enable(u)
    <3>1. upc[u] = "enable" /\ ~Disable(u)
      BY <2>5 DEF Enable, Disable
    <3>2. /\ subs' = subs /\ unsub' = unsub /\ fetch' = want[u] /\ want' = want
          /\ upc' = [upc EXCEPT ![u] = "idle"]
      BY <2>5, Zenon DEF Enable
    <3>3. enabled'
      BY <2>5, Zenon DEF Enable
    <3> QED BY <2>0, <2>n, <2>p, <3>1, <3>2, <3>3
  <2>6. CASE Drop(u)
    <3>1. upc[u] = "drop" /\ ~Disable(u)
      BY <2>6 DEF Drop, Disable
    <3>2. /\ subs' = subs \ {unsub} /\ unsub' = 0 /\ fetch' = fetch /\ want' = want
          /\ upc' = [upc EXCEPT ![u] = "disable"]
      BY <2>6, Zenon DEF Drop
    <3>3. enabled' = enabled
      BY <2>6, Zenon DEF Drop
    <3> QED BY <2>0, <2>n, <2>p, <3>1, <3>2, <3>3
  <2>7. CASE Disable(u)
    <3>1. /\ upc[u] = "disable"
          /\ subs' = subs /\ unsub' = unsub /\ want' = want
          /\ upc' = [upc EXCEPT ![u] = "idle"]
      BY <2>7, Zenon DEF Disable
    <3>2. ~enabled'
      BY <2>7, Zenon DEF Disable
    <3>3. \/ fetch' = {} /\ st' = [q \in Requests |-> IF Paused(q) THEN Released(q) ELSE st[q]]
          \/ fetch' = fetch /\ st' = st /\ ~enabled
      BY <2>7, Zenon DEF Disable
    <3>4. fetch' = {} /\ \A q \in Requests : ~Paused(q)'
      BY <3>3 DEF Paused, Released
    <3> QED BY <2>0, <2>n, <3>1, <3>2, <3>4
  <2> QED BY <1>2, <2>1, <2>2, <2>3, <2>4, <2>5, <2>6, <2>7 DEF Sync
<1>3. ASSUME NEW q \in Requests, Start(q) PROVE Following'
  <2>1. UNCHANGED <<tableVars, syncVars, upc, want>>
    BY <1>3, Zenon DEF Start
  <2>2. \A r \in Requests : Paused(r)' => Paused(r) \/ AtRequestStage(q)
    <3>1. \/ AtRequestStage(q)
          \/ st' = [st EXCEPT ![q] = "sent"]
      BY <1>3, Zenon DEF Start
    <3> QED BY <3>1 DEF Paused, Types
  <2>3. AtRequestStage(q) => fetch # {}
    BY DEF AtRequestStage
  <2> QED BY <2>1, <2>2, <2>3, OthersFollow, Zenon
<1>4. ASSUME NEW q \in Requests, NEW fails \in BOOLEAN, Answered(q, fails) PROVE Following'
  <2>1. UNCHANGED <<tableVars, syncVars, upc, want>>
    BY <1>4, Zenon DEF Answered
  <2>2. \A r \in Requests : Paused(r)' => Paused(r) \/ "response" \in fetch
    <3>1. \/ "response" \in fetch
          \/ st' = [st EXCEPT ![q] = "over"]
      BY <1>4, Zenon DEF Answered
    <3> QED BY <3>1 DEF Paused, Types
  <2> QED BY <2>1, <2>2, OthersFollow, Zenon
<1>5. ASSUME NEW g \in running, Look(g) PROVE Following'
  <2>1. UNCHANGED <<tableVars, syncVars, upc, want, reqVars>>
    BY <1>5, Zenon DEF Look
  <2>2. \A r \in Requests : Paused(r)' => Paused(r)
    BY <2>1, Zenon DEF reqVars, Paused
  <2> QED BY <2>1, <2>2, OthersFollow, Zenon
<1>6. ASSUME NEW g \in running, Handle(g) \/ Unreadable(g) PROVE Following'
  <2>1. UNCHANGED <<tableVars, syncVars, upc, want>>
    BY <1>6, Zenon DEF Handle, Unreadable
  <2>2. \A r \in Requests : Paused(r)' => Paused(r)
    BY <1>6 DEF Handle, Unreadable, Accept, Refuse, Paused, Released, Types
  <2> QED BY <2>1, <2>2, OthersFollow, Zenon
<1>7. CASE Finished \/ UNCHANGED vars
  <2>1. UNCHANGED <<tableVars, syncVars, upc, want, reqVars>>
    BY <1>7, Zenon DEF Finished, vars, tableVars, syncVars, reqVars
  <2>2. \A r \in Requests : Paused(r)' => Paused(r)
    BY <2>1, Zenon DEF reqVars, Paused
  <2> QED BY <2>1, <2>2, OthersFollow, Zenon
<1> QED BY <1>1, <1>2, <1>3, <1>4, <1>5, <1>6, <1>7 DEF Next

\* The flags stay Boolean.
LEMMA FlagsInductive == Flagged /\ [Next]_vars => Flagged'
<1> SUFFICES ASSUME Flagged, [Next]_vars PROVE Flagged'
  OBVIOUS
<1>1. ASSUME NEW u \in Users, NEW set \in BOOLEAN, SetRequestHandler(u, set) PROVE Flagged'
  BY <1>1, Zenon DEF Flagged, SetRequestHandler, Begin, syncVars
<1>2. ASSUME NEW u \in Users, NEW set \in BOOLEAN, SetResponseHandler(u, set) PROVE Flagged'
  BY <1>2, Zenon DEF Flagged, SetResponseHandler, Begin, syncVars
<1>3. ASSUME NEW u \in Users, NEW r \in Routes, AddRoute(u, r) PROVE Flagged'
  BY <1>3, Zenon DEF Flagged, AddRoute, Begin, syncVars
<1>4. ASSUME NEW u \in Users, NEW r \in Routes, RemoveRoute(u, r) PROVE Flagged'
  <2>1. unrouted' \/ unrouted' = unrouted
    BY <1>4, Zenon DEF RemoveRoute
  <2>2. UNCHANGED <<reqH, respH, enabled>>
    BY <1>4, Zenon DEF RemoveRoute, Begin, syncVars
  <2>3. unrouted' \in BOOLEAN
    <3>1. CASE unrouted' = unrouted
      BY <3>1, Zenon DEF Flagged
    <3>2. CASE unrouted' # unrouted
      BY <1>4, <3>2, Zenon DEF RemoveRoute
    <3> QED BY <3>1, <3>2, Zenon
  <2> QED BY <2>2, <2>3, Zenon DEF Flagged
<1>5. ASSUME NEW u \in Users, Sync(u) PROVE Flagged'
  <2>1. UNCHANGED <<reqH, respH, unrouted>>
    <3>1. UNCHANGED tableVars
      BY <1>5, Zenon DEF Sync, Flags, AddPatterns, Unsubscribe, Subscribe, Enable, Drop, Disable
    <3> QED BY <3>1, Zenon DEF tableVars
  <2>2. enabled' = enabled \/ enabled' = TRUE \/ enabled' = FALSE
    BY <1>5, Zenon DEF Sync, Flags, AddPatterns, Unsubscribe, Subscribe, Enable, Drop, Disable,
         syncVars
  <2> QED BY <2>1, <2>2, Zenon DEF Flagged
<1>6. ASSUME UNCHANGED tableVars, UNCHANGED syncVars PROVE Flagged'
  BY <1>6, Zenon DEF Flagged, tableVars, syncVars
<1>7. ASSUME NEW q \in Requests, Start(q) PROVE Flagged'
  BY <1>6, <1>7, Zenon DEF Start
<1>8. ASSUME NEW q \in Requests, NEW fails \in BOOLEAN, Answered(q, fails) PROVE Flagged'
  BY <1>6, <1>8, Zenon DEF Answered
<1>9. ASSUME NEW g \in running, Look(g) \/ Handle(g) \/ Unreadable(g) PROVE Flagged'
  BY <1>6, <1>9, Zenon DEF Look, Handle, Unreadable
<1>10. CASE Finished \/ UNCHANGED vars
  <2>1. UNCHANGED vars
    BY <1>10, Zenon DEF Finished
  <2> QED BY <1>6, <2>1, Zenon DEF vars, tableVars, syncVars
<1> QED BY <1>1, <1>2, <1>3, <1>4, <1>5, <1>7, <1>8, <1>9, <1>10, Zenon DEF Next, Operation

\* Nothing is subscribed or enabled at first, and the table is empty.
LEMMA FollowInit == Init => Flagged /\ Following
<1> SUFFICES ASSUME Init PROVE Flagged /\ Following
  OBVIOUS
<1>1. Flagged /\ ~reqH /\ ~respH /\ ~enabled
  BY Zenon DEF Init, Flagged
<1>2. Needed = {}
  <2>1. ~(len > 0)
    BY DEF Init
  <2> QED BY <1>1, <2>1, Zenon DEF Needed
<1>3. Following
  BY <1>1, <1>2 DEF Init, Following, Paused
<1> QED BY <1>1, <1>3

\* Once a registration by the only goroutine that makes them is over, the subscription
\* and Chrome's patterns are as the table needs them, and with the last handler gone no
\* request is left paused.
THEOREM TableFollowed == ASSUME OneUser PROVE Spec => []InSync
<1> DEFINE Inv == Types /\ Flagged /\ Following
<1>1. Init => Inv
  BY TypeInit, FollowInit
<1>2. Inv /\ [Next]_vars => Inv'
  BY TypeInductive, FlagsInductive, SyncInductive
<1>3. Inv => InSync
  <2> SUFFICES ASSUME Inv, \A u \in Users : upc[u] = "idle"
               PROVE  /\ subs = {unsub} \ {0}
                      /\ enabled = (Needed # {}) /\ (subs # {}) = enabled
                      /\ fetch \cap Stages = Needed
                      /\ Needed = {} => \A q \in Requests : ~Paused(q)
    BY DEF InSync
  <2>1. /\ subs = {unsub} \ {0} /\ fetch \cap Stages = Needed
        /\ enabled <=> unsub # 0
        /\ enabled <=> Needed # {}
    BY DEF Following
  <2>2. subs # {} <=> unsub # 0
    BY <2>1
  <2>3. enabled = (Needed # {}) /\ (subs # {}) = enabled
    BY <2>1, <2>2, Zenon DEF Flagged
  <2>4. Needed = {} => \A q \in Requests : ~Paused(q)
    BY <2>1, Zenon DEF Following
  <2> QED BY <2>1, <2>3, <2>4, Zenon
<1> QED BY <1>1, <1>2, <1>3, PTL DEF Spec

-----------------------------------------------------------------------------
(* One answer for each pause                                                 *)

\* The goroutines at work on a request.
Of(q) == {g \in running : g.req = q}

\* Every goroutine at work stands for a pause that has not been answered.
AnswersCounted ==
    /\ IsFiniteSet(running)
    /\ \A q \in Requests : answers[q] + Cardinality(Of(q)) <= pauses[q]

\* What is done to each element of a set makes it no larger.
LEMMA ImageNoLarger ==
    ASSUME NEW S, IsFiniteSet(S), NEW f, DOMAIN f = S
    PROVE  LET T == {f[x] : x \in S}
           IN  IsFiniteSet(T) /\ Cardinality(T) <= Cardinality(S)
<1> DEFINE T == {f[x] : x \in S}
           h == [x \in S |-> f[x]]
<1>1. h \in Surjection(S, T)
  BY DEF Surjection
<1>2. IsFiniteSet(T) /\ Cardinality(T) <= Cardinality(S)
  BY <1>1, FS_Surjection
<1> QED BY <1>2

\* They can be counted.
LEMMA OfCounted ==
    ASSUME IsFiniteSet(running), NEW q
    PROVE  IsFiniteSet(Of(q)) /\ Cardinality(Of(q)) \in Nat
BY FS_Subset, FS_CardinalityType DEF Of

\* A step that answers nothing and adds no goroutine keeps the count.
LEMMA NotMoreOf ==
    ASSUME Types, AnswersCounted, IsFiniteSet(running'), pauses' = pauses, answers' = answers,
           \A q \in Requests : Cardinality(Of(q)') <= Cardinality(Of(q))
    PROVE  AnswersCounted'
<1>1. ASSUME NEW q \in Requests PROVE (answers[q] + Cardinality(Of(q)) <= pauses[q])'
  <2>1. Cardinality(Of(q)) \in Nat /\ Cardinality(Of(q)') \in Nat
    <3>1. IsFiniteSet(Of(q)')
      BY FS_Subset DEF Of
    <3> QED BY <3>1, OfCounted, FS_CardinalityType DEF AnswersCounted
  <2>2. answers[q] \in Nat /\ pauses[q] \in Nat
    BY DEF Types
  <2> QED BY <2>1, <2>2 DEF AnswersCounted
<1> QED BY <1>1 DEF AnswersCounted

\* Moving routes about under the goroutines' pointers adds none.
LEMMA MappedCounted ==
    ASSUME Types, AnswersCounted, pauses' = pauses, answers' = answers,
           NEW f, DOMAIN f = running, running' = {f[g] : g \in running},
           \A g \in running : f[g].req = g.req
    PROVE  AnswersCounted'
<1>1. IsFiniteSet(running')
  BY ImageNoLarger DEF AnswersCounted
<1>2. ASSUME NEW q \in Requests PROVE Cardinality(Of(q)') <= Cardinality(Of(q))
  <2> DEFINE h == [g \in Of(q) |-> f[g]]
  <2>1. Of(q)' = {h[g] : g \in Of(q)}
    <3>1. ASSUME NEW x \in Of(q)' PROVE x \in {h[g] : g \in Of(q)}
      <4>1. PICK g \in running : x = f[g]
        BY DEF Of
      <4>2. g \in Of(q) /\ h[g] = x
        BY <4>1 DEF Of
      <4> QED BY <4>2
    <3>2. ASSUME NEW g \in Of(q) PROVE h[g] \in Of(q)'
      BY DEF Of
    <3> QED BY <3>1, <3>2
  <2>2. IsFiniteSet(Of(q)) /\ DOMAIN h = Of(q)
    BY OfCounted DEF AnswersCounted
  <2> HIDE DEF h
  <2> QED BY <2>1, <2>2, ImageNoLarger
<1> QED BY <1>1, <1>2, NotMoreOf

\* A change of the array, seen through pointers, adds no goroutine.
LEMMA SeenCounted ==
    ASSUME Types, AnswersCounted, pauses' = pauses, answers' = answers, NEW table, Seen(table)
    PROVE  AnswersCounted'
<1> DEFINE f == [g \in running |-> [g EXCEPT !.route = IF g.slot = 0 THEN @ ELSE table[g.slot]]]
<1>1. running' = {f[g] : g \in running} /\ DOMAIN f = running
  BY DEF Seen
<1>2. ASSUME NEW g \in running PROVE f[g].req = g.req
  <2>1. g \in Goroutine
    BY DEF Types
  <2> QED BY <2>1 DEF Goroutine
<1> HIDE DEF f
<1> QED BY <1>1, <1>2, MappedCounted

\* Nor does one that the goroutines do not see.
LEMMA FrozenCounted ==
    ASSUME Types, AnswersCounted, pauses' = pauses, answers' = answers, Frozen
    PROVE  AnswersCounted'
<1> DEFINE f == [g \in running |-> [g EXCEPT !.slot = 0]]
<1>1. running' = {f[g] : g \in running} /\ DOMAIN f = running
  BY DEF Frozen
<1>2. ASSUME NEW g \in running PROVE f[g].req = g.req
  BY SlotDropped DEF Types
<1> HIDE DEF f
<1> QED BY <1>1, <1>2, MappedCounted

\* One subscription: a pause adds one goroutine at most.
LEMMA PauseCounted ==
    ASSUME Types, AnswersCounted, subs \subseteq {unsub}, NEW q \in Requests, NEW stage,
           Pause(q, stage), answers' = answers
    PROVE  AnswersCounted'
<1> DEFINE new == [req |-> q, sub |-> unsub, at |-> "look", slot |-> 0, route |-> NoRoute,
                   stage |-> IF q \in failed' THEN "request" ELSE stage]
<1>1. running' = running \/ running' = running \cup {new}
  <2>1. CASE subs = {}
    BY <2>1 DEF Pause
  <2>2. CASE subs = {unsub}
    BY <2>2 DEF Pause
  <2> QED BY <2>1, <2>2
<1>a. \A r \in Requests : Of(r)' = Of(r) \/ (r = q /\ Of(r)' = Of(r) \cup {new})
  BY <1>1 DEF Of
<1> HIDE DEF new
<1>2. IsFiniteSet(running')
  BY <1>1, FS_AddElement DEF AnswersCounted
<1>3. ASSUME NEW r \in Requests PROVE (answers[r] + Cardinality(Of(r)) <= pauses[r])'
  <2>1. Of(r)' = Of(r) \/ (r = q /\ Of(r)' = Of(r) \cup {new})
    BY <1>a
  <2>2. IsFiniteSet(Of(r)) /\ Cardinality(Of(r)) \in Nat
    BY OfCounted DEF AnswersCounted
  <2>3. Cardinality(Of(r) \cup {new}) <= Cardinality(Of(r)) + 1
    BY <2>2, FS_AddElement
  <2>4. Cardinality(Of(r) \cup {new}) \in Nat
    BY <2>2, FS_AddElement, FS_CardinalityType
  <2>5. answers[r] \in Nat /\ pauses[r] \in Nat /\ answers'[r] = answers[r]
    BY DEF Types
  <2>6. pauses'[r] = IF r = q THEN pauses[r] + 1 ELSE pauses[r]
    BY DEF Pause, Types
  <2>7. answers[r] + Cardinality(Of(r)) <= pauses[r]
    BY DEF AnswersCounted
  <2>8. CASE Of(r)' = Of(r)
    BY <2>2, <2>5, <2>6, <2>7, <2>8
  <2>9. CASE r = q /\ Of(r)' = Of(r) \cup {new}
    BY <2>2, <2>3, <2>4, <2>5, <2>6, <2>7, <2>9
  <2> QED BY <2>1, <2>8, <2>9
<1> QED BY <1>2, <1>3 DEF AnswersCounted

\* With one subscription, a pause starts one goroutine; each goroutine answers once and
\* ends.
LEMMA CountInductive ==
    ASSUME Types, subs \subseteq {unsub}, AnswersCounted, [Next]_vars PROVE AnswersCounted'
<1>0. ASSUME UNCHANGED <<running, pauses, answers>> PROVE AnswersCounted'
  BY <1>0 DEF AnswersCounted, Of
<1>1. ASSUME NEW u \in Users, Operation(u) PROVE AnswersCounted'
  <2>1. pauses' = pauses /\ answers' = answers
    BY <1>1, Zenon DEF Operation, SetRequestHandler, SetResponseHandler, AddRoute, RemoveRoute,
       Begin,
         reqVars
  <2>2. running' = running \/ (\E table : Seen(table)) \/ Frozen
    BY <1>1, Zenon DEF Operation, SetRequestHandler, SetResponseHandler, AddRoute, RemoveRoute
  <2> QED BY <1>0, <2>1, <2>2, SeenCounted, FrozenCounted
<1>2. ASSUME NEW u \in Users, Sync(u) PROVE AnswersCounted'
  <2>1. UNCHANGED <<running, pauses, answers>>
    BY <1>2, Zenon DEF Sync, Flags, AddPatterns, Unsubscribe, Subscribe, Enable, Drop, Disable,
       reqVars
  <2> QED BY <1>0, <2>1
<1>3. ASSUME NEW q \in Requests, Start(q) PROVE AnswersCounted'
  <2>1. answers' = answers /\ (Pause(q, "request") \/ UNCHANGED <<pauses, lost, running>>)
    BY <1>3, Zenon DEF Start
  <2> QED BY <1>0, <2>1, PauseCounted
<1>4. ASSUME NEW q \in Requests, NEW fails \in BOOLEAN, Answered(q, fails) PROVE AnswersCounted'
  <2>1. answers' = answers /\ (Pause(q, "response") \/ UNCHANGED <<pauses, lost, running>>)
    BY <1>4, Zenon DEF Answered
  <2> QED BY <1>0, <2>1, PauseCounted
<1>5. ASSUME NEW g \in running, Look(g) PROVE AnswersCounted'
  <2>1. pauses' = pauses /\ answers' = answers
    BY <1>5, Zenon DEF Look, reqVars
  <2>2. PICK h \in Goroutine : Become(g, h) /\ h.req = g.req
    BY <1>5, LookBecomes
  <2> DEFINE f == [k \in running |-> IF k = g THEN h ELSE k]
  <2>3. running' = {f[k] : k \in running} /\ DOMAIN f = running
    BY <2>2 DEF Become
  <2>4. \A k \in running : f[k].req = k.req
    BY <2>2
  <2> HIDE DEF f
  <2> QED BY <2>1, <2>3, <2>4, MappedCounted
<1>6. ASSUME NEW g \in running, Handle(g) PROVE AnswersCounted'
  <2>1. running' = running \ {g} /\ answers' = [answers EXCEPT ![g.req] = @ + 1] /\ pauses' = pauses
    BY <1>6, Zenon DEF Handle
  <2>2. IsFiniteSet(running')
    BY <2>1, FS_RemoveElement DEF AnswersCounted
  <2>3. ASSUME NEW q \in Requests PROVE (answers[q] + Cardinality(Of(q)) <= pauses[q])'
    <3>1. IsFiniteSet(Of(q)) /\ Cardinality(Of(q)) \in Nat
      BY OfCounted DEF AnswersCounted
    <3>2. answers[q] \in Nat /\ pauses[q] \in Nat /\ answers[q] + Cardinality(Of(q)) <= pauses[q]
      BY DEF Types, AnswersCounted
    <3>3. CASE q = g.req
      <4>1. Of(q)' = Of(q) \ {g} /\ g \in Of(q)
        BY <2>1, <3>3 DEF Of
      <4>2. Cardinality(Of(q)') = Cardinality(Of(q)) - 1
        BY <3>1, <4>1, FS_RemoveElement
      <4>3. answers'[q] = answers[q] + 1
        BY <2>1, <3>3 DEF Types
      <4> QED BY <2>1, <3>1, <3>2, <4>2, <4>3
    <3>4. CASE q # g.req
      <4>1. Of(q)' = Of(q) /\ answers'[q] = answers[q]
        BY <2>1, <3>4 DEF Of, Types
      <4> QED BY <2>1, <3>2, <4>1
    <3> QED BY <3>3, <3>4
  <2> QED BY <2>2, <2>3 DEF AnswersCounted
<1>7. ASSUME NEW g \in running, Unreadable(g) PROVE AnswersCounted'
  <2>1. running' = running \ {g} /\ answers' = answers /\ pauses' = pauses
    BY <1>7, Zenon DEF Unreadable
  <2>2. IsFiniteSet(running')
    BY <2>1, FS_RemoveElement DEF AnswersCounted
  <2>3. ASSUME NEW q \in Requests PROVE (answers[q] + Cardinality(Of(q)) <= pauses[q])'
    <3>1. IsFiniteSet(Of(q)) /\ Cardinality(Of(q)) \in Nat
      BY OfCounted DEF AnswersCounted
    <3>2. answers[q] \in Nat /\ pauses[q] \in Nat /\ answers[q] + Cardinality(Of(q)) <= pauses[q]
      BY DEF Types, AnswersCounted
    <3>3. Of(q)' \subseteq Of(q)
      BY <2>1 DEF Of
    <3>4. Cardinality(Of(q)') \in Nat /\ Cardinality(Of(q)') <= Cardinality(Of(q))
      BY <3>1, <3>3, FS_Subset, FS_CardinalityType
    <3> QED BY <2>1, <3>1, <3>2, <3>4
  <2> QED BY <2>2, <2>3 DEF AnswersCounted
<1>8. CASE Finished \/ UNCHANGED vars
  BY <1>0, <1>8, Zenon DEF Finished, vars, reqVars
<1> QED BY <1>1, <1>2, <1>3, <1>4, <1>5, <1>6, <1>7, <1>8 DEF Next

\* With one goroutine that registers a request is answered once a pause at most:
\* neither the handler and autoRespond nor two goroutines answer the same event.
THEOREM OneAnswerAPause == ASSUME OneUser PROVE Spec => []OneAnswer
<1> DEFINE Inv == Types /\ Flagged /\ Following /\ AnswersCounted
<1>1. Init => Inv
  <2> SUFFICES ASSUME Init PROVE AnswersCounted
    BY TypeInit, FollowInit
  <2>1. running = {} /\ \A q \in Requests : Of(q) = {}
    BY DEF Init, Of
  <2> QED BY <2>1, FS_EmptySet DEF Init, AnswersCounted
<1>2. Inv /\ [Next]_vars => Inv'
  <2>1. Following => subs \subseteq {unsub}
    BY DEF Following
  <2> QED BY <2>1, TypeInductive, FlagsInductive, SyncInductive, CountInductive
<1>3. Inv => OneAnswer
  <2> SUFFICES ASSUME Inv, NEW q \in Requests PROVE answers[q] <= pauses[q]
    BY DEF OneAnswer
  <2>1. Cardinality(Of(q)) \in Nat /\ answers[q] + Cardinality(Of(q)) <= pauses[q]
    BY OfCounted DEF AnswersCounted
  <2> QED BY <2>1 DEF Types
<1> QED BY <1>1, <1>2, <1>3, PTL DEF Spec

=============================================================================
