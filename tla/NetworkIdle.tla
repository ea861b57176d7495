---------------------------- MODULE NetworkIdle ----------------------------
(***************************************************************************)
(* A wait for network idle (bonk/page_navigate.go, subscribeNetworkIdle):  *)
(* a counter of the requests in flight and a timer of 500 ms, kept by       *)
(* handlers that each run in a goroutine of their own, in any order, while  *)
(* Navigate, Reload, WaitNavigation or WaitForLoadState waits for `done`.   *)
(*                                                                         *)
(* A request is what Chrome reports of it: it is sent, it may be redirected *)
(* (which is reported as being sent once more) and it finishes or fails.    *)
(***************************************************************************)
EXTENDS Integers, FiniteSets

CONSTANT PageRequests   \* the requests the page makes, before or during the wait

ASSUME PageRequestsAssumption == IsFiniteSet(PageRequests)

VARIABLES
    made,           \* requests: "new", "open", "over"
    idleSubs,       \* which of u1, u2, u3 have been made, in this order: 0..3
    idleWait,       \* the caller: "subscribing", "waiting", "idle", "timeout"
    hpc,            \* the handlers' goroutines
    inflight, timer,    \* the closure's variables
    sending, idleDone,  \* a timer's function is about to send; the token in done
    before,         \* history: sent handlers not yet over when the timer was started
    early,          \* history: requests of which an event came before its subscription
    overtaken,      \* history: requests whose end was counted before their start
    stale,          \* history: the timer was started on a count that had changed
    tooLate,        \* history: requests counted between the expiry and the send
    cutShort        \* history: a start cancelled, late, the timer of a quiet network

idleEnv == <<made, early>>
idleHist == <<before, early, overtaken, stale, tooLate, cutShort>>
idleVars == <<made, idleSubs, idleWait, hpc, inflight, timer, sending, idleDone, idleHist>>

Sent(r) == <<r, "sent">>
Hop(r) == <<r, "hop">>
End(r) == <<r, "end">>
Starts == PageRequests \X {"sent", "hop"}
Ends == PageRequests \X {"end"}
Handlers == Starts \cup Ends

\* A handler waits to count, then for the timer's lock; an end handler that has
\* read a count of zero goes on to start the timer.
IdleTypeOK ==
    /\ made \in [PageRequests -> {"new", "open", "over"}]
    /\ idleSubs \in 0..3
    /\ idleWait \in {"subscribing", "waiting", "idle", "timeout"}
    /\ hpc \in [Handlers -> {"none", "count", "timer", "start", "over"}]
    /\ inflight \in Int
    /\ timer \in {"nil", "running", "fired"}
    /\ sending \in BOOLEAN /\ idleDone \in BOOLEAN
    /\ before \subseteq Starts
    /\ early \subseteq PageRequests /\ overtaken \subseteq PageRequests
    /\ tooLate \subseteq PageRequests
    /\ stale \in BOOLEAN /\ cutShort \in BOOLEAN

IdleInit ==
    /\ made \in [PageRequests -> {"new", "open"}]
    /\ early = {r \in PageRequests : made[r] = "open"}
    /\ idleSubs = 0 /\ idleWait = "subscribing"
    /\ hpc = [g \in Handlers |-> "none"]
    /\ inflight = 0 /\ timer = "nil" /\ sending = FALSE /\ idleDone = FALSE
    /\ before = {} /\ overtaken = {} /\ stale = FALSE /\ tooLate = {} /\ cutShort = FALSE

Running(g) == hpc[g] \notin {"none", "over"}
Step(g, l) == hpc' = [hpc EXCEPT ![g] = l]

Returned == idleWait \in {"idle", "timeout"}

-----------------------------------------------------------------------------
(* The caller                                                                *)

\* u1 for requests that are sent, u2 for those that finish, u3 for failures.
SubscribeIdle ==
    /\ idleWait = "subscribing"
    /\ idleSubs' = idleSubs + 1
    /\ idleWait' = IF idleSubs = 2 THEN "waiting" ELSE "subscribing"
    /\ UNCHANGED <<made, hpc, inflight, timer, sending, idleDone, idleHist>>

\* The deferred function ends the subscriptions and stops the timer.
IdleReturn(outcome) ==
    /\ idleWait = "waiting"
    /\ outcome = "idle" => idleDone
    /\ idleWait' = outcome
    /\ idleSubs' = 0 /\ timer' = "nil"
    /\ UNCHANGED <<made, hpc, inflight, sending, idleDone, idleHist>>

-----------------------------------------------------------------------------
(* Chrome: its events start the handlers of the subscriptions of now. What   *)
(* happens after the wait reaches nobody and changes nothing that is used.   *)

Dispatch(g, need, r) ==
    /\ hpc' = IF idleSubs >= need THEN [hpc EXCEPT ![g] = "count"] ELSE hpc
    /\ early' = IF idleSubs >= need THEN early ELSE early \cup {r}
    /\ UNCHANGED <<idleSubs, idleWait, inflight, timer, sending, idleDone, before, overtaken,
                   stale, tooLate, cutShort>>

RequestSent(r) ==
    /\ made[r] = "new"
    /\ made' = [made EXCEPT ![r] = "open"]
    /\ Dispatch(Sent(r), 1, r)

Redirected(r) ==
    /\ made[r] = "open" /\ hpc[Hop(r)] = "none"
    /\ UNCHANGED made
    /\ Dispatch(Hop(r), 1, r)

\* Variant with a defect: failures are not subscribed to.
FailureUnseen(r) ==
    /\ made[r] = "open"
    /\ made' = [made EXCEPT ![r] = "over"]
    /\ \/ Dispatch(End(r), 2, r)
       \/ UNCHANGED <<idleSubs, idleWait, hpc, inflight, timer, sending, idleDone, idleHist>>

RequestEnds(r) ==
    /\ made[r] = "open"
    /\ made' = [made EXCEPT ![r] = "over"]
    /\ \E need \in {2, 3} : Dispatch(End(r), need, r)

-----------------------------------------------------------------------------
(* The handlers                                                              *)

\* inflight.Add(1), then cancelTimer.
CountStart(g) ==
    /\ g \in Starts /\ hpc[g] = "count"
    /\ inflight' = inflight + 1
    /\ Step(g, "timer")
    /\ UNCHANGED <<made, idleSubs, idleWait, timer, sending, idleDone, idleHist>>

\* Variant with a defect: the timer is left running.
KeepTimer(g) ==
    /\ g \in Starts /\ hpc[g] = "timer"
    /\ Step(g, "over")
    /\ UNCHANGED <<made, idleSubs, idleWait, inflight, timer, sending, idleDone, idleHist>>

\* Stop does nothing to a function that has begun, and its result is not looked at.
\* Nor does cancelTimer look at the count: a start that comes late to it stops the
\* timer that an end has started since.
CancelTimer(g) ==
    /\ g \in Starts /\ hpc[g] = "timer"
    /\ timer' = "nil"
    /\ tooLate' = IF sending THEN tooLate \cup {g[1]} ELSE tooLate
    /\ cutShort' = (cutShort \/ (timer = "running" /\ inflight = 0))
    /\ Step(g, "over")
    /\ UNCHANGED <<made, idleSubs, idleWait, inflight, sending, idleDone, before, early, overtaken,
                   stale>>

CountEnd(g) ==
    /\ g \in Ends /\ hpc[g] = "count"
    /\ inflight' = inflight - 1
    /\ overtaken' = IF hpc[Sent(g[1])] = "count" THEN overtaken \cup {g[1]} ELSE overtaken
    /\ Step(g, "timer")
    /\ UNCHANGED <<made, idleSubs, idleWait, timer, sending, idleDone, before, early, stale, tooLate,
                   cutShort>>

\* checkIdle reads the count without the lock ...
CheckIdle(g) ==
    /\ g \in Ends /\ hpc[g] = "timer"
    /\ Step(g, IF inflight = 0 THEN "start" ELSE "over")
    /\ UNCHANGED <<made, idleSubs, idleWait, inflight, timer, sending, idleDone, idleHist>>

\* ... and starts the timer under it.
StartTimer(g) ==
    /\ g \in Ends /\ hpc[g] = "start"
    /\ IF timer = "nil"
       THEN /\ timer' = "running"
            /\ before' = {s \in Starts : Running(s)}
            /\ stale' = (inflight # 0 \/ (stale /\ sending))
            /\ cutShort' = FALSE
       ELSE UNCHANGED <<timer, before, stale, cutShort>>
    /\ Step(g, "over")
    /\ UNCHANGED <<made, idleSubs, idleWait, inflight, sending, idleDone, early, overtaken, tooLate>>

\* 500 ms outlast the handlers that were under way when they began. The timer's
\* function runs in a goroutine of its own ...
TimerFires ==
    /\ timer = "running"
    /\ \A s \in before : ~Running(s)
    /\ timer' = "fired" /\ sending' = TRUE
    /\ UNCHANGED <<made, idleSubs, idleWait, hpc, inflight, idleDone, idleHist>>

\* ... and sends when it gets to; a second token finds the channel full.
SendIdle ==
    /\ sending
    /\ sending' = FALSE /\ idleDone' = TRUE
    /\ UNCHANGED <<made, idleSubs, idleWait, hpc, inflight, timer, idleHist>>

HandlerStep ==
    \/ \E g \in Starts : CountStart(g) \/ CancelTimer(g)
    \/ \E g \in Ends : CountEnd(g) \/ CheckIdle(g) \/ StartTimer(g)

IdleNext ==
    \/ SubscribeIdle
    \/ \E outcome \in {"idle", "timeout"} : IdleReturn(outcome)
    \/ /\ ~Returned
       /\ \/ \E r \in PageRequests : RequestSent(r) \/ Redirected(r) \/ RequestEnds(r)
          \/ HandlerStep
          \/ TimerFires \/ SendIdle
    \/ Returned /\ UNCHANGED idleVars

IdleSpec == IdleInit /\ [][IdleNext]_idleVars

-----------------------------------------------------------------------------
(* Properties                                                                *)

\* When 500 ms of idle network are reported, no request is open but one whose
\* event has only just arrived -- whatever the order in which the handlers ran,
\* unless an event came before its subscription, checkIdle started the timer on a
\* count it had read before another request was counted, or that request came
\* between the timer's expiry and the report: it cancels a timer that reports all
\* the same.
IdleIsQuiet ==
    [][~idleDone /\ idleDone' /\ ~Returned =>
        \/ early # {} \/ stale
        \/ \A r \in PageRequests \ tooLate : made[r] = "open" => Running(Sent(r))]_idleVars

\* A wait during which requests were made and all of them ended, and whose
\* handlers have all run, has been signalled or will be -- unless an event came
\* before its subscription, a request was redirected, one's end was counted before
\* its start was, or the last timer was cancelled by a start that was counted long
\* before and came to cancelTimer when nothing was in flight any more.
IdleNotMissed ==
    ( /\ idleWait = "waiting" /\ \A g \in Handlers : ~Running(g)
      /\ \A r \in PageRequests : made[r] # "open"
      /\ \E r \in PageRequests : made[r] = "over" )
    => \/ idleDone \/ sending \/ timer = "running"
       \/ early # {} \/ overtaken # {} \/ cutShort
       \/ \E r \in PageRequests : hpc[Hop(r)] # "none"

=============================================================================
