------------------------------- MODULE Fetch -------------------------------
(***************************************************************************)
(* Request interception of one page: fetchManager (bonk/network.go), the   *)
(* Request, Response and Route it hands out (request.go, response.go,      *)
(* route.go), and the subscription of its events (rpc/subscribe.go), with  *)
(* Chrome's Fetch domain and the page's requests.                          *)
(*                                                                         *)
(* Chrome's event and its dispatch by Listen are one step: the goroutine   *)
(* started for an event may be scheduled at any later time.                *)
(***************************************************************************)
EXTENDS Naturals, FiniteSets

CONSTANTS
    Users,      \* goroutines that register and unregister handlers
    Requests,   \* requests the page makes
    Routes,     \* registrations made with addRoute
    pattern,    \* the pattern of each registration
    Matches,    \* which pattern matches which request
    NoRoute,
    MaxOps      \* bound: registrations and unregistrations

Patterns == {pattern[r] : r \in Routes}
Stages == {"request", "response"}

ASSUME FetchAssumption ==
    /\ IsFiniteSet(Routes) /\ NoRoute \notin Routes
    /\ Matches \subseteq Patterns \X Requests
    /\ Patterns \cap Stages = {}
    /\ MaxOps \in Nat

VARIABLES
    reqH, respH,            \* requestHandler and responseHandler are set
    slots, len, cap,        \* routes: its backing array, length and capacity
    subs, unsub, lastSub,   \* live subscriptions; the one of fm.unsub, or 0
    enabled, fetch,         \* fm.enabled; the patterns Chrome pauses requests at
    upc, want,              \* each user: place, and the patterns it computed
    st, failed,             \* each request, and whether it has failed
    pauses, answers,        \* events and answers of each request
    lost,                   \* requests whose present pause got no answer Chrome took
    running,                \* goroutines in handleEvent
    unrouted, ops           \* a route has been removed; operations begun

vars == <<reqH, respH, slots, len, cap, subs, unsub, lastSub, enabled, fetch, upc,
          want, st, failed, pauses, answers, lost, running, unrouted, ops>>
tableVars == <<reqH, respH, slots, len, cap, unrouted>>
syncVars == <<subs, unsub, lastSub, enabled, fetch>>
reqVars == <<st, failed, pauses, answers, lost>>

Slots == 1..Cardinality(Routes)
Goroutine == [req : Requests, sub : Nat, stage : Stages,
              at : {"look", "route", "handler", "continue"},
              slot : 0..Cardinality(Routes), route : Routes \cup {NoRoute}]

TypeOK ==
    /\ reqH \in BOOLEAN /\ respH \in BOOLEAN
    /\ slots \in [Slots -> Routes \cup {NoRoute}]
    /\ len \in 0..cap /\ cap \in Nat
    /\ \A i \in 1..len : slots[i] # NoRoute
    /\ unsub \in 0..lastSub /\ lastSub \in 0..MaxOps /\ subs \subseteq 1..lastSub
    /\ enabled \in BOOLEAN /\ fetch \subseteq Stages \cup Patterns
    /\ upc \in [Users -> {"idle", "flags", "patterns", "unsub", "sub", "enable",
                          "drop", "disable"}]
    /\ want \in [Users -> SUBSET (Stages \cup Patterns)]
    /\ st \in [Requests -> {"new", "atRequest", "sent", "atResponse", "over"}]
    /\ failed \subseteq Requests
    /\ pauses \in [Requests -> 0..2] /\ answers \in [Requests -> Nat]
    /\ lost \subseteq Requests
    /\ running \subseteq Goroutine
    /\ unrouted \in BOOLEAN /\ ops \in 0..MaxOps

Init ==
    /\ reqH = FALSE /\ respH = FALSE
    /\ slots = [i \in Slots |-> NoRoute] /\ len = 0 /\ cap = 0
    /\ subs = {} /\ unsub = 0 /\ lastSub = 0
    /\ enabled = FALSE /\ fetch = {}
    /\ upc = [u \in Users |-> "idle"] /\ want = [u \in Users |-> {}]
    /\ st = [q \in Requests |-> "new"] /\ failed = {}
    /\ pauses = [q \in Requests |-> 0] /\ answers = [q \in Requests |-> 0]
    /\ lost = {} /\ running = {} /\ unrouted = FALSE /\ ops = 0

Go(u, l) == upc' = [upc EXCEPT ![u] = l]

-----------------------------------------------------------------------------
(* Registering and unregistering: the table, under fm.mu                     *)

Begin(u) ==
    /\ upc[u] = "idle" /\ ops < MaxOps /\ ops' = ops + 1
    /\ Go(u, "flags")
    /\ UNCHANGED <<syncVars, want, reqVars>>

\* The function that setRequestHandler returns clears whichever handler is set.
SetRequestHandler(u, set) ==
    /\ Begin(u)
    /\ reqH' = set
    /\ UNCHANGED <<respH, slots, len, cap, running, unrouted>>

SetResponseHandler(u, set) ==
    /\ Begin(u)
    /\ respH' = set
    /\ UNCHANGED <<reqH, slots, len, cap, running, unrouted>>

Registered(r) == \E i \in 1..len : slots[i] = r

\* A goroutine between Unlock and the call of its route's handler holds a pointer
\* to a slot: it sees what is moved into the slot, until append leaves the array.
Seen(table) ==
    running' = {[g EXCEPT !.route = IF g.slot = 0 THEN @ ELSE table[g.slot]] : g \in running}
Frozen == running' = {[g EXCEPT !.slot = 0] : g \in running}

\* Variant with a defect: the newest route comes first, in the same array.
AddRouteFirst(u, r) ==
    /\ Begin(u) /\ ~Registered(r) /\ len < Cardinality(Routes)
    /\ slots' = [i \in Slots |-> IF i = 1 THEN r ELSE slots[i - 1]]
    /\ len' = len + 1 /\ cap' = Cardinality(Routes)
    /\ Seen(slots')
    /\ UNCHANGED <<reqH, respH, unrouted>>

AddRoute(u, r) ==
    /\ Begin(u) /\ ~Registered(r) /\ len < Cardinality(Routes)
    /\ slots' = [slots EXCEPT ![len + 1] = r]
    /\ len' = len + 1
    /\ IF len < cap THEN Seen(slots') /\ UNCHANGED cap
                    ELSE Frozen /\ cap' = (IF cap = 0 THEN 1 ELSE 2 * cap)
    /\ UNCHANGED <<reqH, respH, unrouted>>

\* The first registration of the same pattern goes; what follows it moves up,
\* and the slot behind the new end keeps its old contents.
RemoveRoute(u, r) ==
    /\ Begin(u)
    /\ IF \E i \in 1..len : pattern[slots[i]] = pattern[r]
       THEN LET k == CHOOSE i \in 1..len :
                        /\ pattern[slots[i]] = pattern[r]
                        /\ \A j \in 1..(i - 1) : pattern[slots[j]] # pattern[r]
            IN  /\ slots' = [i \in Slots |-> IF i \in k..(len - 1) THEN slots[i + 1] ELSE slots[i]]
                /\ len' = len - 1
                /\ Seen(slots')
                /\ unrouted' = TRUE
       ELSE UNCHANGED <<slots, len, running, unrouted>>
    /\ UNCHANGED <<reqH, respH, cap>>

-----------------------------------------------------------------------------
(* sync: the subscription and Chrome's patterns follow the table             *)

Needed == (IF reqH \/ len > 0 THEN {"request"} ELSE {}) \cup (IF respH THEN {"response"} ELSE {})

Flags(u) ==
    /\ upc[u] = "flags"
    /\ want' = [want EXCEPT ![u] = Needed]
    /\ Go(u, IF Needed = {} THEN "drop" ELSE "patterns")
    /\ UNCHANGED <<tableVars, syncVars, reqVars, running, ops>>

AddPatterns(u) ==
    /\ upc[u] = "patterns"
    /\ want' = [want EXCEPT ![u] = @ \cup {pattern[slots[i]] : i \in 1..len}]
    /\ Go(u, "unsub")
    /\ UNCHANGED <<tableVars, syncVars, reqVars, running, ops>>

Unsubscribe(u) ==
    /\ upc[u] = "unsub"
    /\ subs' = subs \ {unsub}
    /\ Go(u, "sub")
    /\ UNCHANGED <<tableVars, unsub, lastSub, enabled, fetch, want, reqVars, running, ops>>

Subscribe(u) ==
    /\ upc[u] = "sub"
    /\ lastSub' = lastSub + 1 /\ unsub' = lastSub + 1
    /\ subs' = subs \cup {lastSub + 1}
    /\ Go(u, "enable")
    /\ UNCHANGED <<tableVars, enabled, fetch, want, reqVars, running, ops>>

\* Fetch.enable replaces the patterns; what is paused stays paused.
Enable(u) ==
    /\ upc[u] = "enable"
    /\ fetch' = want[u] /\ enabled' = TRUE
    /\ Go(u, "idle")
    /\ UNCHANGED <<tableVars, subs, unsub, lastSub, want, reqVars, running, ops>>

Drop(u) ==
    /\ upc[u] = "drop"
    /\ subs' = subs \ {unsub} /\ unsub' = 0
    /\ Go(u, "disable")
    /\ UNCHANGED <<tableVars, lastSub, enabled, fetch, want, reqVars, running, ops>>

Paused(q) == st[q] \in {"atRequest", "atResponse"}
Released(q) == IF st[q] = "atRequest" THEN "sent" ELSE "over"

\* Variant with a defect: Fetch stays enabled once the subscription is gone.
LeaveEnabled(u) ==
    /\ upc[u] = "disable"
    /\ enabled' = FALSE
    /\ Go(u, "idle")
    /\ UNCHANGED <<tableVars, subs, unsub, lastSub, fetch, want, reqVars, running, ops>>

\* Fetch.disable lets every paused request go on.
Disable(u) ==
    /\ upc[u] = "disable"
    /\ IF enabled
       THEN /\ fetch' = {} /\ enabled' = FALSE
            /\ st' = [q \in Requests |-> IF Paused(q) THEN Released(q) ELSE st[q]]
       ELSE UNCHANGED <<fetch, enabled, st>>
    /\ Go(u, "idle")
    /\ UNCHANGED <<tableVars, subs, unsub, lastSub, want, failed, pauses, answers, lost,
                   running, ops>>

Sync(u) == Flags(u) \/ AddPatterns(u) \/ Unsubscribe(u) \/ Subscribe(u) \/ Enable(u)
           \/ Drop(u) \/ Disable(u)

-----------------------------------------------------------------------------
(* Chrome                                                                    *)

AtRequestStage(q) == "request" \in fetch \/ \E p \in fetch : <<p, q>> \in Matches

\* The event of a paused request starts a goroutine for each subscription. The
\* code tells the stages apart by the response's status, which a failure lacks.
Pause(q, stage) ==
    /\ pauses' = [pauses EXCEPT ![q] = @ + 1] /\ lost' = lost \ {q}
    /\ running' = running \cup
        {[req |-> q, sub |-> s, at |-> "look", slot |-> 0, route |-> NoRoute,
          stage |-> IF q \in failed' THEN "request" ELSE stage] : s \in subs}

Start(q) ==
    /\ st[q] = "new"
    /\ UNCHANGED failed
    /\ IF AtRequestStage(q)
       THEN st' = [st EXCEPT ![q] = "atRequest"] /\ Pause(q, "request")
       ELSE st' = [st EXCEPT ![q] = "sent"] /\ UNCHANGED <<pauses, lost, running>>
    /\ UNCHANGED <<tableVars, syncVars, upc, want, answers, ops>>

Answered(q, fails) ==
    /\ st[q] = "sent"
    /\ failed' = IF fails THEN failed \cup {q} ELSE failed
    /\ IF "response" \in fetch
       THEN st' = [st EXCEPT ![q] = "atResponse"] /\ Pause(q, "response")
       ELSE st' = [st EXCEPT ![q] = "over"] /\ UNCHANGED <<pauses, lost, running>>
    /\ UNCHANGED <<tableVars, syncVars, upc, want, answers, ops>>

-----------------------------------------------------------------------------
(* handleEvent                                                               *)

Become(g, h) == running' = (running \ {g}) \cup {h}

Hits(q) == {i \in 1..len : <<pattern[slots[i]], q>> \in Matches}
First(q) == CHOOSE i \in Hits(q) : \A j \in Hits(q) : i <= j

\* Under fm.mu: the first route that matches, or the handler, or neither.
Look(g) ==
    /\ g \in running /\ g.at = "look"
    /\ CASE g.stage = "response" ->
               Become(g, [g EXCEPT !.at = IF respH THEN "handler" ELSE "continue"])
         [] g.stage = "request" /\ Hits(g.req) # {} ->
               Become(g, [g EXCEPT !.at = "route", !.slot = First(g.req),
                                   !.route = slots[First(g.req)]])
         [] OTHER -> Become(g, [g EXCEPT !.at = IF reqH THEN "handler" ELSE "continue"])
    /\ UNCHANGED <<tableVars, syncVars, upc, want, reqVars, ops>>

\* Variant with a defect: a handler that does nothing leaves its request paused.
HandleOrNot(g) ==
    /\ g \in running /\ g.at \in {"route", "handler"}
    /\ running' = running \ {g}
    /\ UNCHANGED <<tableVars, syncVars, upc, want, reqVars, ops>>

\* Variant with a defect: autoRespond does not look at responded.
HandleTwice(g) ==
    /\ g \in running /\ g.at # "look"
    /\ running' = running \ {g}
    /\ answers' = [answers EXCEPT ![g.req] = @ + 2]
    /\ st' = [st EXCEPT ![g.req] = IF Paused(g.req) THEN Released(g.req) ELSE @]
    /\ UNCHANGED <<tableVars, syncVars, upc, want, failed, pauses, lost, ops>>

\* An event that does not unmarshal is dropped, and its request stays paused.
Unreadable(g) ==
    /\ g \in running /\ g.at = "look"
    /\ running' = running \ {g}
    /\ lost' = IF Paused(g.req) THEN lost \cup {g.req} ELSE lost
    /\ UNCHANGED <<tableVars, syncVars, upc, want, st, failed, pauses, answers, ops>>

\* What Chrome does with an answer: a request paused no longer is none of its
\* concern; another goes on, or is aborted or fulfilled by a handler of requests.
Accept(g) ==
    /\ \E next \in {Released(g.req)} \cup
                   (IF g.stage = "request" /\ g.at # "continue" THEN {"over"} ELSE {}) :
           st' = [st EXCEPT ![g.req] = IF Paused(g.req) THEN next ELSE @]
    /\ UNCHANGED lost

\* Chrome refuses what the answer says, or the command fails on its way. The code
\* has set responded before, so nothing answers again; it ignores the error.
Refuse(g) ==
    /\ Paused(g.req)
    /\ lost' = lost \cup {g.req}
    /\ UNCHANGED st

\* The handler answers once, or autoRespond does after it, or the code itself when
\* there was no handler.
Handle(g) ==
    /\ g \in running /\ g.at # "look"
    /\ running' = running \ {g}
    /\ answers' = [answers EXCEPT ![g.req] = @ + 1]
    /\ Accept(g) \/ Refuse(g)
    /\ UNCHANGED <<tableVars, syncVars, upc, want, failed, pauses, ops>>

Finished ==
    /\ ops = MaxOps /\ (\A u \in Users : upc[u] = "idle") /\ running = {}
    /\ \A q \in Requests : st[q] \notin {"new", "sent"}
    /\ UNCHANGED vars

Operation(u) ==
    \/ \E set \in BOOLEAN : SetRequestHandler(u, set) \/ SetResponseHandler(u, set)
    \/ \E r \in Routes : AddRoute(u, r) \/ RemoveRoute(u, r)

Next ==
    \/ \E u \in Users : Operation(u) \/ Sync(u)
    \/ \E q \in Requests : Start(q) \/ \E fails \in BOOLEAN : Answered(q, fails)
    \/ \E g \in running : Look(g) \/ Unreadable(g) \/ Handle(g)
    \/ Finished

\* Goroutines that can run do run; handlers return.
Fairness ==
    /\ \A u \in Users : WF_vars(Sync(u))
    /\ WF_vars(\E g \in running : Look(g) \/ Unreadable(g) \/ Handle(g))

Spec == Init /\ [][Next]_vars /\ Fairness

-----------------------------------------------------------------------------
(* Properties *)

\* Between registrations, Chrome and the subscription are as the table needs
\* them: one subscription that fm.unsub ends, or none; and when the last handler
\* is gone no request is left paused.
InSync ==
    (\A u \in Users : upc[u] = "idle") =>
        /\ subs = {unsub} \ {0}
        /\ enabled = (Needed # {}) /\ (subs # {}) = enabled
        /\ fetch \cap Stages = Needed
        /\ Needed = {} => \A q \in Requests : ~Paused(q)

\* A request gets at most one answer for each time it is paused.
OneAnswer == \A q \in Requests : answers[q] <= pauses[q]

\* A route's handler runs for requests its pattern matches, also when routes are
\* added and the array grows; once a route has been removed this is lost.
RouteMatches ==
    ~unrouted => \A g \in running :
        g.at = "route" => <<pattern[g.route], g.req>> \in Matches

\* A paused request whose event was dispatched goes on, whatever the handlers do
\* and however they are replaced meanwhile, unless the event could not be read or
\* Chrome did not take the one answer.
DispatchedGoesOn ==
    \A q \in Requests :
        Paused(q) /\ (\E g \in running : g.req = q) ~> ~Paused(q) \/ q \in lost

\* network.go:212: "If the handler doesn't call Continue, Abort, or Fulfill, the
\* request is automatically continued". A request paused between fm.unsub() and
\* the next Subscribe of sync finds no handler and stays paused, though nothing
\* failed.
RequestGoesOn == \A q \in Requests : Paused(q) ~> ~Paused(q) \/ q \in lost
=============================================================================
