------------------------------ MODULE Browsers ------------------------------
(***************************************************************************)
(* The life of the Chrome processes that one init-vm process launches:     *)
(* bonk's Launch and Close (bonk/launch.go, bonk/browser.go), the registry *)
(* activeBrowsers and its CloseAll (pkg/browser/browser.go). The main      *)
(* goroutine launches, uses and closes one browser after the other; the    *)
(* goroutine of the first registerBrowser closes them all on a signal and  *)
(* ends the process; each connection's Listen goroutine unregisters its    *)
(* browser when the connection drops (module RpcConn is that connection).  *)
(***************************************************************************)
CONSTANTS Browsers, None

ASSUME BrowsersAssumption == None \notin Browsers \cup {"main", "signal"}

Goroutines == {"main", "signal"}

VARIABLES
    at, cur, todo,      \* each goroutine: place, browser in hand, browsers to close
    after,              \* where main goes when it has closed them
    active, lock,       \* activeBrowsers; holder of activeBrowsersMu
    chrome, tempDir,    \* the process: "none", "running", "hung", "dead"; its directory
    conn, hook, listen, \* the connection, its callback, its Listen goroutine
    closed,             \* Browser.closed
    signalled, exited   \* a signal came; what ended the process

vars == <<at, cur, todo, after, active, lock, chrome, tempDir, conn, hook, listen,
          closed, signalled, exited>>
goVars == <<at, cur, todo, after>>
chromeVars == <<chrome, tempDir>>
connVars == <<conn, hook, listen>>
regVars == <<active, lock>>

LaunchLabels == {"dial", "setup", "prepare", "register", "hook", "use"}
ClosingLabels == {"contexts", "quit", "cancel", "shut", "wait", "clean"}

TypeOK ==
    /\ at \in [Goroutines -> LaunchLabels \cup ClosingLabels \cup
              {"ready", "start", "lock", "each", "exit"}]
    /\ cur \in [Goroutines -> Browsers \cup {None}]
    /\ at["main"] \in LaunchLabels => cur["main"] \in Browsers
    /\ \A g \in Goroutines : at[g] \in ClosingLabels => cur[g] \in Browsers
    /\ todo \in [Goroutines -> SUBSET Browsers]
    /\ after \in {"ready", "exit"}
    /\ active \subseteq Browsers
    /\ lock \in Goroutines \cup {None}
    /\ \A g \in Goroutines : lock = g => at[g] \in ClosingLabels \cup {"each"}
    /\ chrome \in [Browsers -> {"none", "running", "hung", "dead"}]
    /\ tempDir \in [Browsers -> BOOLEAN]
    /\ conn \in [Browsers -> {"none", "open", "broken", "closed"}]
    /\ hook \in [Browsers -> {"none", "wired", "set"}]
    /\ listen \in [Browsers -> {"none", "reading", "callback", "unregister", "end"}]
    /\ closed \in [Browsers -> BOOLEAN]
    /\ signalled \in BOOLEAN
    /\ exited \in {"no", "main", "signal"}

Init ==
    /\ at = [g \in Goroutines |-> IF g = "main" THEN "ready" ELSE "start"]
    /\ cur = [g \in Goroutines |-> None]
    /\ todo = [g \in Goroutines |-> {}]
    /\ after = "ready" /\ active = {} /\ lock = None
    /\ chrome = [b \in Browsers |-> "none"]
    /\ tempDir = [b \in Browsers |-> FALSE]
    /\ conn = [b \in Browsers |-> "none"]
    /\ hook = [b \in Browsers |-> "none"]
    /\ listen = [b \in Browsers |-> "none"]
    /\ closed = [b \in Browsers |-> FALSE]
    /\ signalled = FALSE /\ exited = "no"

Goto(g, l) == at' = [at EXCEPT ![g] = l]
Alive(b) == chrome[b] \in {"running", "hung"}

-----------------------------------------------------------------------------
(* Launch, by the main goroutine                                             *)

\* The temporary directory and cmd.Start; an error of either leaves nothing.
StartChrome(b) ==
    /\ at["main"] = "ready" /\ chrome[b] = "none"
    /\ cur' = [cur EXCEPT !["main"] = b]
    /\ chrome' = [chrome EXCEPT ![b] = "running"]
    /\ tempDir' = [tempDir EXCEPT ![b] = TRUE]
    /\ Goto("main", "dial")
    /\ UNCHANGED <<todo, after, regVars, connVars, closed, signalled, exited>>

\* parseDevToolsURL and Dial, and Listen started on the connection.
Dial ==
    /\ at["main"] = "dial" /\ chrome[cur["main"]] = "running"
    /\ conn' = [conn EXCEPT ![cur["main"]] = "open"]
    /\ listen' = [listen EXCEPT ![cur["main"]] = "reading"]
    /\ Goto("main", "setup")
    /\ UNCHANGED <<cur, todo, after, regVars, chromeVars, hook, closed, signalled, exited>>

\* When either fails Chrome is killed, waited for and its directory removed, and
\* the callers give up (log.Fatal).
DialFails ==
    /\ at["main"] = "dial"
    /\ chrome' = [chrome EXCEPT ![cur["main"]] = "dead"]
    /\ tempDir' = [tempDir EXCEPT ![cur["main"]] = FALSE]
    /\ Goto("main", "exit")
    /\ UNCHANGED <<cur, todo, after, regVars, connVars, closed, signalled, exited>>

\* setupOnClose comes after Listen has started.
SetupOnClose ==
    /\ at["main"] = "setup"
    /\ hook' = [hook EXCEPT ![cur["main"]] = "wired"]
    /\ Goto("main", "prepare")
    /\ UNCHANGED <<cur, todo, after, regVars, chromeVars, conn, listen, closed,
                   signalled, exited>>

\* NewContext, NewPage and SetCookies; on an error the browser is closed.
Prepare ==
    /\ at["main"] = "prepare"
    /\ chrome[cur["main"]] = "running" /\ conn[cur["main"]] = "open"
    /\ Goto("main", "register")
    /\ UNCHANGED <<cur, todo, after, regVars, chromeVars, connVars, closed, signalled, exited>>

PrepareFails ==
    /\ at["main"] = "prepare"
    /\ chrome[cur["main"]] # "hung" \/ conn[cur["main"]] # "open"
    /\ todo' = [todo EXCEPT !["main"] = {cur["main"]}] /\ after' = "exit"
    /\ Goto("main", "each")
    /\ UNCHANGED <<cur, regVars, chromeVars, connVars, closed, signalled, exited>>

Register ==
    /\ at["main"] = "register" /\ lock = None
    /\ active' = active \cup {cur["main"]}
    /\ Goto("main", "hook")
    /\ UNCHANGED <<cur, todo, after, lock, chromeVars, connVars, closed, signalled,
                   exited>>

\* OnDisconnect, and the signal goroutine of the first registerBrowser.
Hook ==
    /\ at["main"] = "hook"
    /\ hook' = [hook EXCEPT ![cur["main"]] = "set"]
    /\ at' = [at EXCEPT !["main"] = "use",
                        !["signal"] = IF @ = "start" THEN "ready" ELSE @]
    /\ UNCHANGED <<cur, todo, after, regVars, chromeVars, conn, listen, closed,
                   signalled, exited>>

-----------------------------------------------------------------------------
(* Closing: Browser.Close on its own, and within CloseAll                    *)

\* Main closes the browser to launch another one or to end (deferred Close).
CloseOne(next) ==
    /\ at["main"] = "use"
    /\ todo' = [todo EXCEPT !["main"] = {cur["main"]}]
    /\ after' = next
    /\ Goto("main", "each")
    /\ UNCHANGED <<cur, regVars, chromeVars, connVars, closed, signalled, exited>>

\* dropIntoShell and the signal goroutine call CloseAll.
CallCloseAll(g) ==
    /\ \/ g = "main" /\ at[g] = "use"
       \/ g = "signal" /\ at[g] = "ready" /\ signalled
    /\ Goto(g, "lock")
    /\ after' = IF g = "main" THEN "exit" ELSE after
    /\ UNCHANGED <<cur, todo, regVars, chromeVars, connVars, closed, signalled, exited>>

\* Variant with a defect: CloseAll empties the list before it goes through it.
LockEmptied(g) ==
    /\ at[g] = "lock" /\ lock = None
    /\ lock' = g /\ active' = {}
    /\ Goto(g, "each")
    /\ UNCHANGED <<cur, todo, after, chromeVars, connVars, closed, signalled, exited>>

Lock(g) ==
    /\ at[g] = "lock" /\ lock = None
    /\ lock' = g
    /\ todo' = [todo EXCEPT ![g] = active]
    /\ Goto(g, "each")
    /\ UNCHANGED <<cur, after, active, chromeVars, connVars, closed, signalled, exited>>

\* Browser.Close: a browser that is closed, or that another goroutine has begun
\* to close, is left alone.
Claim(g, b) ==
    /\ at[g] = "each" /\ b \in todo[g]
    /\ todo' = [todo EXCEPT ![g] = @ \ {b}]
    /\ closed' = [closed EXCEPT ![b] = TRUE]
    /\ IF closed[b] THEN UNCHANGED <<at, cur>>
       ELSE Goto(g, "contexts") /\ cur' = [cur EXCEPT ![g] = b]
    /\ UNCHANGED <<after, regVars, chromeVars, connVars, signalled, exited>>

\* The pages and contexts are closed with b.ctx, which has no deadline: while
\* Chrome holds the connection open and answers nothing, this step never ends.
CloseContexts(g) ==
    /\ at[g] = "contexts"
    /\ chrome[cur[g]] # "hung" \/ conn[cur[g]] # "open"
    /\ Goto(g, "quit")
    /\ UNCHANGED <<cur, todo, after, regVars, chromeVars, connVars, closed, signalled,
                   exited>>

\* Browser.close has two seconds; whether Chrome then quits is its own affair.
Quit(g) ==
    /\ at[g] = "quit"
    /\ Goto(g, "cancel")
    /\ UNCHANGED <<cur, todo, after, regVars, chromeVars, connVars, closed, signalled,
                   exited>>

\* b.cancel() makes Listen's Recv fail ...
Cancel(g) ==
    /\ at[g] = "cancel"
    /\ conn' = [conn EXCEPT ![cur[g]] = IF @ = "open" THEN "broken" ELSE @]
    /\ Goto(g, "shut")
    /\ UNCHANGED <<cur, todo, after, regVars, chromeVars, hook, listen, closed,
                   signalled, exited>>

\* Variant with a defect: conn.Close() waits for Listen, and so for the callback.
ShutAndWait(g) ==
    /\ at[g] = "shut" /\ listen[cur[g]] = "end"
    /\ conn' = [conn EXCEPT ![cur[g]] = "closed"]
    /\ Goto(g, "wait")
    /\ UNCHANGED <<cur, todo, after, regVars, chromeVars, hook, listen, closed,
                   signalled, exited>>

\* ... and conn.Close() closes it without the callback, unless Listen was first.
Shut(g) ==
    /\ at[g] = "shut"
    /\ conn' = [conn EXCEPT ![cur[g]] = "closed"]
    /\ Goto(g, "wait")
    /\ UNCHANGED <<cur, todo, after, regVars, chromeVars, hook, listen, closed,
                   signalled, exited>>

\* Variant with a defect: after SIGTERM the process is taken to be gone.
WaitBriefly(g) ==
    /\ at[g] = "wait"
    /\ Goto(g, "clean")
    /\ UNCHANGED <<cur, todo, after, regVars, chromeVars, connVars, closed, signalled,
                   exited>>

\* waitForExit: Chrome has gone by itself or by SIGTERM, or is killed.
WaitForExit(g) ==
    /\ at[g] = "wait"
    /\ chrome' = [chrome EXCEPT ![cur[g]] = "dead"]
    /\ Goto(g, "clean")
    /\ UNCHANGED <<cur, todo, after, regVars, tempDir, connVars, closed, signalled, exited>>

Clean(g) ==
    /\ at[g] = "clean"
    /\ tempDir' = [tempDir EXCEPT ![cur[g]] = FALSE]
    /\ Goto(g, "each")
    /\ UNCHANGED <<cur, todo, after, regVars, chrome, connVars, closed, signalled, exited>>

\* Close, or the loop of CloseAll, is over; CloseAll empties the registry.
Closed(g) ==
    /\ at[g] = "each" /\ todo[g] = {}
    /\ IF lock = g THEN active' = {} /\ lock' = None ELSE UNCHANGED regVars
    /\ cur' = [cur EXCEPT ![g] = None]
    /\ Goto(g, IF g = "signal" THEN "exit" ELSE after)
    /\ UNCHANGED <<todo, after, chromeVars, connVars, closed, signalled, exited>>

\* os.Exit, log.Fatal, exec of a shell, or the return of main.
Exit(g) ==
    /\ at[g] = "exit"
    /\ exited' = g
    /\ UNCHANGED <<goVars, regVars, chromeVars, connVars, closed, signalled>>

-----------------------------------------------------------------------------
(* Listen and its callback                                                   *)

\* Recv fails. closeWithError by Listen: the callback runs if there is one by
\* then, unless the connection has been closed already.
ListenFails(b) ==
    /\ listen[b] = "reading" /\ conn[b] \in {"broken", "closed"}
    /\ listen' = [listen EXCEPT ![b] =
                    IF conn[b] = "broken" /\ hook[b] # "none" THEN "callback" ELSE "end"]
    /\ conn' = [conn EXCEPT ![b] = "closed"]
    /\ UNCHANGED <<goVars, regVars, chromeVars, hook, closed, signalled, exited>>

Callback(b) ==
    /\ listen[b] = "callback"
    /\ listen' = [listen EXCEPT ![b] = IF hook[b] = "set" THEN "unregister" ELSE "end"]
    /\ UNCHANGED <<goVars, regVars, chromeVars, conn, hook, closed, signalled, exited>>

\* Variant with a defect: what follows the browser in the list goes with it.
UnregisterRest(b) ==
    /\ listen[b] = "unregister" /\ lock = None
    /\ active' = {}
    /\ listen' = [listen EXCEPT ![b] = "end"]
    /\ UNCHANGED <<goVars, lock, chromeVars, conn, hook, closed, signalled, exited>>

Unregister(b) ==
    /\ listen[b] = "unregister" /\ lock = None
    /\ active' = active \ {b}
    /\ listen' = [listen EXCEPT ![b] = "end"]
    /\ UNCHANGED <<goVars, lock, chromeVars, conn, hook, closed, signalled, exited>>

-----------------------------------------------------------------------------
(* Chrome, the network and the user                                          *)

ChromeDies(b) ==
    /\ Alive(b)
    /\ chrome' = [chrome EXCEPT ![b] = "dead"]
    /\ conn' = [conn EXCEPT ![b] = IF @ = "open" THEN "broken" ELSE @]
    /\ UNCHANGED <<goVars, regVars, tempDir, hook, listen, closed, signalled, exited>>

ChromeHangs(b) ==
    /\ chrome[b] = "running"
    /\ chrome' = [chrome EXCEPT ![b] = "hung"]
    /\ UNCHANGED <<goVars, regVars, tempDir, connVars, closed, signalled, exited>>

Drops(b) ==
    /\ conn[b] = "open"
    /\ conn' = [conn EXCEPT ![b] = "broken"]
    /\ UNCHANGED <<goVars, regVars, chromeVars, hook, listen, closed, signalled, exited>>

\* Before the first registerBrowser a signal ends the process at once.
Signal ==
    /\ ~signalled /\ signalled' = TRUE
    /\ exited' = IF at["signal"] = "start" THEN "signal" ELSE exited
    /\ UNCHANGED <<goVars, regVars, chromeVars, connVars, closed>>

Launch == (\E b \in Browsers : StartChrome(b)) \/ Dial \/ DialFails \/ SetupOnClose
          \/ Prepare \/ PrepareFails \/ Register \/ Hook
Close(g) == CloseContexts(g) \/ Quit(g) \/ Cancel(g) \/ Shut(g) \/ WaitForExit(g) \/ Clean(g)
Run(g) == Lock(g) \/ (\E b \in Browsers : Claim(g, b)) \/ Close(g) \/ Closed(g) \/ Exit(g)
Listen(b) == ListenFails(b) \/ Callback(b) \/ Unregister(b)

Next ==
    \/ /\ exited = "no"
       /\ \/ Launch
          \/ \E next \in {"ready", "exit"} : CloseOne(next)
          \/ \E g \in Goroutines : CallCloseAll(g) \/ Run(g)
          \/ \E b \in Browsers : Listen(b) \/ ChromeHangs(b) \/ Drops(b)
          \/ Signal
    \/ \E b \in Browsers : ChromeDies(b)
    \/ (exited # "no" \/ (at["main"] = "ready" /\ \A b \in Browsers : chrome[b] # "none"))
       /\ UNCHANGED vars

\* Goroutines that can run do run; the lock is a sync.Mutex, which starves nobody.
Fairness ==
    /\ WF_vars(exited = "no" /\ CallCloseAll("signal"))
    /\ \A g \in Goroutines : WF_vars(exited = "no" /\ Run(g)) /\ SF_vars(exited = "no" /\ Lock(g))

Spec == Init /\ [][Next]_vars /\ Fairness

-----------------------------------------------------------------------------
(* Properties *)

Closing(g, b) == at[g] \in ClosingLabels /\ cur[g] = b
BeingClosed(b) == \E g \in Goroutines : Closing(g, b)

\* A browser whose Close is over has no process, no directory and no connection
\* left, however Chrome behaved and whoever closed it.
ClosedIsGone ==
    \A b \in Browsers : closed[b] /\ ~BeingClosed(b) =>
        ~Alive(b) /\ ~tempDir[b] /\ conn[b] = "closed"

\* CloseAll can find every browser the program uses: from registerBrowser on, a
\* browser nobody has closed and whose connection stands is in activeBrowsers.
UsableIsListed ==
    \A b \in Browsers :
        /\ cur["main"] = b /\ at["main"] \in {"hook", "use", "lock"}
        /\ ~closed[b] /\ listen[b] = "reading"
        => b \in active

\* Unregistered because its connection dropped, and never closed.
Dropped(b) == conn[b] = "closed" /\ ~closed[b]

\* A process that ends by itself leaves no Chrome running, and one that a signal
\* ends leaves none that was in use: what may be left is a browser that was still
\* being launched or that the main goroutine was closing just then, one whose
\* connection had dropped while Chrome ran on, and one registered when CloseAll
\* was over (the list is empty after it).
NoChromeLeft ==
    \/ exited = "main" /\ ~signalled
    \/ exited = "signal" /\ at["main"] \in {"use", "lock"}
    => \A b \in Browsers : Alive(b) => Dropped(b) \/ b \in active

\* A signal ends the process, unless it is in CloseAll with a Chrome that keeps
\* its connection and does not answer.
SignalExits ==
    signalled ~> exited # "no" \/ \E b \in Browsers : chrome[b] = "hung"

\* browser.go:132, "CloseAll closes all active browsers launched by this
\* package": when it returns, the browsers it found in the list are closed. One
\* that the main goroutine has begun to close is passed over instead.
CloseAllClosesAll ==
    [][\A b \in Browsers : at["signal"] = "each" /\ at'["signal"] = "exit" /\ b \in active
            => ~Alive(b)]_vars
-----------------------------------------------------------------------------
(* The inductive invariant behind ClosedIsGone, UsableIsListed and           *)
(* NoChromeLeft, proved inductive in module BrowsersProofs                   *)

\* What the program holds on to has been started.
HeldIsLaunched ==
    /\ \A b \in Browsers : closed[b] \/ b \in active => chrome[b] # "none"
    /\ \A g \in Goroutines : \A b \in todo[g] : chrome[b] # "none"
    /\ at["main"] \in LaunchLabels => chrome[cur["main"]] # "none"

\* A browser that is still being dialled is in nobody else's hands.
DialledIsFresh ==
    at["main"] = "dial" =>
        /\ ~closed[cur["main"]] /\ cur["main"] \notin active
        /\ \A g \in Goroutines : cur["main"] \notin todo[g]

\* closed is a claim: one goroutine at most is inside the Close of a browser, and
\* what it has done so far stays done.
ClaimedByOne ==
    /\ \A g \in Goroutines : at[g] \in ClosingLabels => closed[cur[g]]
    /\ \A g, h \in Goroutines :
          at[g] \in ClosingLabels /\ at[h] \in ClosingLabels /\ cur[g] = cur[h] => g = h
ClosedSoFar ==
    \A g \in Goroutines :
        /\ at[g] \in {"wait", "clean"} => conn[cur[g]] = "closed"
        /\ at[g] = "clean" => chrome[cur[g]] = "dead"

\* CloseAll goes through the whole list it empties.
ListIsWorkedOff ==
    \A g \in Goroutines : lock = g => \A b \in active : b \in todo[g] \/ closed[b]

\* Listen ends with its connection, and every connection in use has a Listen.
ListenGoesWithConn ==
    /\ \A b \in Browsers :
          /\ listen[b] \in {"callback", "unregister", "end"} => conn[b] = "closed"
          /\ chrome[b] = "none" => listen[b] = "none"
    /\ at["main"] = "dial" => listen[cur["main"]] = "none"
    /\ at["main"] \in (LaunchLabels \ {"dial"}) \cup {"lock"} =>
          cur["main"] \in Browsers /\ listen[cur["main"]] # "none"

\* Where the goroutines are: the signal goroutine runs from the first browser in
\* use on, moves on a signal only, and a process is ended by who got to "exit".
Whereabouts ==
    /\ at["main"] \notin ClosingLabels \cup {"each"} => todo["main"] = {}
    /\ at["main"] \in {"use", "lock"} => at["signal"] # "start"
    /\ ~signalled => at["signal"] \in {"start", "ready"}
    /\ exited = "main" => at["main"] = "exit"
    /\ exited = "signal" => at["signal"] \in {"start", "exit"}

\* A Chrome that runs and is not being closed is somebody's: on the list, in the
\* main goroutine's hands, or dropped.
NoneForgotten ==
    \A b \in Browsers : Alive(b) /\ ~closed[b] =>
        \/ Dropped(b) \/ b \in active \/ b \in todo["main"]
        \/ cur["main"] = b /\ at["main"] \in LaunchLabels \cup {"lock"}

BrowsersInv ==
    /\ HeldIsLaunched /\ DialledIsFresh /\ ClaimedByOne /\ ClosedSoFar /\ ListIsWorkedOff
    /\ ClosedIsGone /\ UsableIsListed
    /\ ListenGoesWithConn /\ Whereabouts /\ NoneForgotten
=============================================================================
