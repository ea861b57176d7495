--------------------------- MODULE BrowsersProofs ---------------------------
(***************************************************************************)
(* Proofs about module Browsers, for every number of browsers.             *)
(***************************************************************************)
EXTENDS Browsers, TLAPS

\* Every variable keeps its type, and activeBrowsersMu is held by nobody but a
\* goroutine inside CloseAll, which a goroutine never leaves with the lock.
THEOREM TypeCorrect == Spec => []TypeOK
<1> USE BrowsersAssumption DEF Goroutines, LaunchLabels, ClosingLabels
<1>1. Init => TypeOK
  <2> SUFFICES ASSUME Init PROVE TypeOK
    OBVIOUS
  <2>1. /\ at["main"] = "ready" /\ at["signal"] = "start"
        /\ cur["main"] = None /\ cur["signal"] = None
        /\ at \in [Goroutines -> {"ready", "start"}] /\ cur \in [Goroutines -> {None}]
        /\ lock = None
    BY DEF Init
  <2>2. /\ todo \in [Goroutines -> SUBSET Browsers] /\ chrome \in [Browsers -> {"none"}]
        /\ conn \in [Browsers -> {"none"}] /\ hook \in [Browsers -> {"none"}]
        /\ listen \in [Browsers -> {"none"}]
    BY DEF Init
  <2>3. tempDir \in [Browsers -> BOOLEAN] /\ closed \in [Browsers -> BOOLEAN]
    BY DEF Init
  <2> QED BY <2>1, <2>2, <2>3 DEF Init, TypeOK
<1>2. TypeOK /\ [Next]_vars => TypeOK'
  <2> SUFFICES ASSUME TypeOK, [Next]_vars PROVE TypeOK'
    OBVIOUS
  <2> USE DEF TypeOK, Goto, goVars, chromeVars, connVars, regVars
  <2>1. CASE UNCHANGED vars
    BY <2>1 DEF vars
  <2>2. CASE Launch
    <3>1. ASSUME NEW b \in Browsers, StartChrome(b) PROVE TypeOK'
      BY <3>1 DEF StartChrome
    <3>2. CASE Dial
      BY <3>2 DEF Dial
    <3>7. CASE DialFails
      BY <3>7 DEF DialFails
    <3>8. CASE PrepareFails
      BY <3>8 DEF PrepareFails
    <3>3. CASE SetupOnClose
      BY <3>3 DEF SetupOnClose
    <3>4. CASE Prepare
      BY <3>4 DEF Prepare
    <3>5. CASE Register
      BY <3>5 DEF Register
    <3>6. CASE Hook
      BY <3>6 DEF Hook
    <3> QED BY <2>2, <3>1, <3>2, <3>3, <3>4, <3>5, <3>6, <3>7, <3>8 DEF Launch
  <2>3. ASSUME NEW g \in Goroutines, Run(g) PROVE TypeOK'
    <3>1. CASE Lock(g)
      BY <3>1 DEF Lock
    <3>2. CASE CloseContexts(g)
      BY <3>2 DEF CloseContexts
    <3>3. CASE Quit(g)
      BY <3>3 DEF Quit
    <3>4. CASE Cancel(g)
      BY <3>4 DEF Cancel
    <3>5. CASE Shut(g)
      BY <3>5 DEF Shut
    <3>6. CASE WaitForExit(g)
      BY <3>6 DEF WaitForExit
    <3>7. CASE Clean(g)
      BY <3>7 DEF Clean
    <3>8. CASE Closed(g)
      BY <3>8 DEF Closed
    <3>9. CASE Exit(g)
      BY <3>9 DEF Exit
    <3>10. ASSUME NEW b \in Browsers, Claim(g, b) PROVE TypeOK'
      BY <3>10 DEF Claim
    <3> QED BY <2>3, <3>1, <3>2, <3>3, <3>4, <3>5, <3>6, <3>7, <3>8, <3>9, <3>10 DEF Run, Close
  <2>4. ASSUME NEW next \in {"ready", "exit"}, CloseOne(next) PROVE TypeOK'
    BY <2>4 DEF CloseOne
  <2>5. ASSUME NEW g \in Goroutines, CallCloseAll(g) PROVE TypeOK'
    BY <2>5 DEF CallCloseAll
  <2>6. ASSUME NEW b \in Browsers, Listen(b) PROVE TypeOK'
    BY <2>6 DEF Listen, ListenFails, Callback, Unregister
  <2>7. ASSUME NEW b \in Browsers, ChromeHangs(b) \/ Drops(b) \/ ChromeDies(b) PROVE TypeOK'
    BY <2>7 DEF ChromeHangs, Drops, ChromeDies
  <2>8. CASE Signal
    BY <2>8 DEF Signal
  <2> QED BY <2>1, <2>2, <2>3, <2>4, <2>5, <2>6, <2>7, <2>8 DEF Next
<1> QED BY <1>1, <1>2, PTL DEF Spec
-----------------------------------------------------------------------------
LEMMA InitInv == Init => BrowsersInv
  BY BrowsersAssumption DEF Init, BrowsersInv, Goroutines, LaunchLabels, ClosingLabels,
     HeldIsLaunched, DialledIsFresh, ClaimedByOne, ClosedSoFar, ListIsWorkedOff,
     ClosedIsGone, UsableIsListed, ListenGoesWithConn, Whereabouts, NoneForgotten, Alive

\* The steps of Launch touch a browser nobody else can have in hand, until it is
\* registered.
LEMMA LaunchStep ==
  ASSUME TypeOK, BrowsersInv, exited = "no", Launch
  PROVE  BrowsersInv'
<1> USE BrowsersAssumption DEF Goroutines, LaunchLabels, ClosingLabels, Goto,
        goVars, chromeVars, connVars, regVars, TypeOK
<1> USE DEF BrowsersInv, HeldIsLaunched, DialledIsFresh, ClaimedByOne, ClosedSoFar,
        ListIsWorkedOff, ClosedIsGone, BeingClosed, Closing, Alive, UsableIsListed,
        ListenGoesWithConn, Whereabouts, NoneForgotten, Dropped
<1>1. ASSUME NEW b \in Browsers, StartChrome(b) PROVE BrowsersInv'
  BY <1>1 DEF StartChrome
<1>2. CASE Dial
  BY <1>2 DEF Dial
<1>3. CASE DialFails
  BY <1>3 DEF DialFails
<1>4. CASE SetupOnClose
  BY <1>4 DEF SetupOnClose
<1>5. CASE Prepare
  BY <1>5 DEF Prepare
<1>6. CASE PrepareFails
  BY <1>6 DEF PrepareFails
<1>7. CASE Register
  BY <1>7 DEF Register
<1>8. CASE Hook
  <2>1. /\ at["main"] = "hook" /\ at'["main"] = "use"
        /\ at'["signal"] # "start"
        /\ at["signal"] # "start" => at'["signal"] = at["signal"]
        /\ at["signal"] = "start" => at'["signal"] = "ready"
    BY <1>8 DEF Hook
  <2>2. UNCHANGED <<cur, todo, after, regVars, chromeVars, conn, listen, closed,
                    signalled, exited>>
    BY <1>8 DEF Hook
  <2>3. HeldIsLaunched' /\ DialledIsFresh' /\ ClaimedByOne' /\ ClosedSoFar'
    BY <2>1, <2>2
  <2>4. ListIsWorkedOff' /\ ClosedIsGone' /\ UsableIsListed'
    BY <2>1, <2>2
  <2>5. ListenGoesWithConn' /\ NoneForgotten'
    BY <2>1, <2>2
  <2>6. Whereabouts'
    BY <2>1, <2>2
  <2> QED BY <2>3, <2>4, <2>5, <2>6
<1> QED BY <1>1, <1>2, <1>3, <1>4, <1>5, <1>6, <1>7, <1>8 DEF Launch

\* The steps of Close and CloseAll: a goroutine works on the browser it claimed.
LEMMA RunStep ==
  ASSUME TypeOK, BrowsersInv, NEW g \in Goroutines, Run(g)
  PROVE  BrowsersInv'
<1> USE BrowsersAssumption DEF Goroutines, LaunchLabels, ClosingLabels, Goto,
        goVars, chromeVars, connVars, regVars, TypeOK
<1> USE DEF BrowsersInv, HeldIsLaunched, DialledIsFresh, ClaimedByOne, ClosedSoFar,
        ListIsWorkedOff, ClosedIsGone, BeingClosed, Closing, Alive, UsableIsListed,
        ListenGoesWithConn, Whereabouts, NoneForgotten, Dropped
<1>1. ASSUME NEW b \in Browsers, Claim(g, b) PROVE BrowsersInv'
  BY <1>1 DEF Claim
<1>2. CASE Lock(g)
  BY <1>2 DEF Lock
<1>3. CASE CloseContexts(g)
  BY <1>3 DEF CloseContexts
<1>4. CASE Quit(g)
  BY <1>4 DEF Quit
<1>5. CASE Cancel(g)
  BY <1>5 DEF Cancel
<1>6. CASE Shut(g)
  BY <1>6 DEF Shut
<1>7. CASE WaitForExit(g)
  BY <1>7 DEF WaitForExit
<1>8. CASE Clean(g)
  BY <1>8 DEF Clean
<1>9. CASE Closed(g)
  BY <1>9 DEF Closed
<1>10. CASE Exit(g)
  BY <1>10 DEF Exit
<1> QED BY <1>1, <1>2, <1>3, <1>4, <1>5, <1>6, <1>7, <1>8, <1>9, <1>10 DEF Run, Close

\* Calls, connections breaking, Chrome and signals.
LEMMA OtherStep ==
  ASSUME TypeOK, BrowsersInv,
         \/ \E next \in {"ready", "exit"} : CloseOne(next)
         \/ \E g \in Goroutines : CallCloseAll(g)
         \/ \E b \in Browsers : Listen(b) \/ ChromeHangs(b) \/ Drops(b) \/ ChromeDies(b)
         \/ Signal
  PROVE  BrowsersInv'
<1> USE BrowsersAssumption DEF Goroutines, LaunchLabels, ClosingLabels, Goto,
        goVars, chromeVars, connVars, regVars, TypeOK
<1> USE DEF BrowsersInv, HeldIsLaunched, DialledIsFresh, ClaimedByOne, ClosedSoFar,
        ListIsWorkedOff, ClosedIsGone, BeingClosed, Closing, Alive, UsableIsListed,
        ListenGoesWithConn, Whereabouts, NoneForgotten, Dropped
<1>1. ASSUME NEW next \in {"ready", "exit"}, CloseOne(next) PROVE BrowsersInv'
  BY <1>1 DEF CloseOne
<1>2. ASSUME NEW g \in Goroutines, CallCloseAll(g) PROVE BrowsersInv'
  BY <1>2 DEF CallCloseAll
<1>3. ASSUME NEW b \in Browsers, Listen(b) PROVE BrowsersInv'
  BY <1>3 DEF Listen, ListenFails, Callback, Unregister
<1>4. ASSUME NEW b \in Browsers, ChromeHangs(b) PROVE BrowsersInv'
  BY <1>4 DEF ChromeHangs
<1>5. ASSUME NEW b \in Browsers, Drops(b) PROVE BrowsersInv'
  BY <1>5 DEF Drops
<1>6. ASSUME NEW b \in Browsers, ChromeDies(b) PROVE BrowsersInv'
  BY <1>6 DEF ChromeDies
<1>7. CASE Signal
  BY <1>7 DEF Signal
<1> QED BY <1>1, <1>2, <1>3, <1>4, <1>5, <1>6, <1>7

\* BrowsersInv holds always.
THEOREM Invariant == Spec => []BrowsersInv
<1>1. TypeOK /\ BrowsersInv /\ [Next]_vars => BrowsersInv'
  <2> SUFFICES ASSUME TypeOK, BrowsersInv, [Next]_vars PROVE BrowsersInv'
    OBVIOUS
  <2>1. CASE UNCHANGED vars
    BY <2>1 DEF vars, BrowsersInv, HeldIsLaunched, DialledIsFresh, ClaimedByOne,
       ClosedSoFar, ListIsWorkedOff, ClosedIsGone, BeingClosed, Closing, Alive,
       UsableIsListed, ListenGoesWithConn, Whereabouts, NoneForgotten, Dropped
  <2> QED BY <2>1, LaunchStep, RunStep, OtherStep DEF Next, Goroutines
<1> QED BY <1>1, InitInv, TypeCorrect, PTL DEF Spec

\* Browser.Close leaves nothing: once it is over, whichever goroutine closed the
\* browser and however Chrome behaved, process, directory and connection are gone.
THEOREM ClosedGone == Spec => []ClosedIsGone
  BY Invariant, PTL DEF BrowsersInv

\* A browser in use is in activeBrowsers, where CloseAll finds it.
THEOREM UsableListed == Spec => []UsableIsListed
  BY Invariant, PTL DEF BrowsersInv

\* A process that ends by itself, or by a signal while its main goroutine used a
\* browser, leaves no Chrome but one whose connection had dropped or that was
\* registered when CloseAll was over.
THEOREM NoneLeft == Spec => []NoChromeLeft
<1>1. TypeOK /\ BrowsersInv => NoChromeLeft
  <2> SUFFICES ASSUME TypeOK, BrowsersInv, NEW b \in Browsers, Alive(b),
                      \/ exited = "main" /\ ~signalled
                      \/ exited = "signal" /\ at["main"] \in {"use", "lock"}
               PROVE  Dropped(b) \/ b \in active
    BY DEF NoChromeLeft
  <2>1. at["main"] \notin ClosingLabels \cup {"each"} /\ at["signal"] \notin ClosingLabels
    BY DEF BrowsersInv, Whereabouts, ClosingLabels
  <2>2. ~closed[b]
    BY <2>1 DEF BrowsersInv, ClosedIsGone, BeingClosed, Closing, Goroutines
  <2>3. CASE cur["main"] = b /\ at["main"] \in {"use", "lock"}
    BY <2>2, <2>3 DEF BrowsersInv, UsableIsListed, ListenGoesWithConn, Dropped, TypeOK,
       LaunchLabels
  <2>4. CASE ~(cur["main"] = b /\ at["main"] \in {"use", "lock"})
    BY <2>1, <2>2, <2>4 DEF BrowsersInv, NoneForgotten, Whereabouts, LaunchLabels
  <2> QED BY <2>3, <2>4
<1> QED BY <1>1, TypeCorrect, Invariant, PTL
=============================================================================
