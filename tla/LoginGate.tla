----------------------------- MODULE LoginGate -----------------------------
(***************************************************************************)
(* The login prompt that Start, Extend and Terminate share (pkg/vm/vm.go): *)
(* the main goroutine waits on the channel done, of capacity one, which    *)
(* three goroutines fill: one on a signal, one that polls the page for a   *)
(* login, one on ENTER. The poller also empties it. Beside them runs the   *)
(* goroutine of registerBrowser, which answers the same signal by closing  *)
(* every browser and ending the process. After the prompt the program goes  *)
(* on headless, with the session just saved, and saves its own at the end.  *)
(***************************************************************************)
CONSTANT Session        \* what the session file may hold when the prompt opens

Producers == {"sig", "poller", "enter"}
Contents == {"absent", "user", "guest", "broken"}

ASSUME LoginGateAssumption == Session \subseteq Contents

VARIABLES
    main,       \* the goroutine at the prompt and what it does next
    done,       \* done holds a token
    prod,       \* the three producers
    exiting,    \* the goroutine of registerBrowser
    tty,        \* there is a terminal; the loop daemon has none
    headless,   \* the prompt is over and the second browser launched
    browser,    \* "open", "closed" or "gone" (killed)
    loggedIn,   \* the browser is logged in
    entered, signalled,     \* what the user has done
    session,    \* the session file
    unsaved     \* history: how SaveState has failed, leaving the file or cutting it

gateVars == <<main, done, prod, exiting, tty, headless, browser, loggedIn, entered, signalled,
              session, unsaved>>
worldVars == <<tty, headless, browser, loggedIn, entered, signalled, session, unsaved>>

MainLabels == {"starting", "waiting", "save", "user", "guest", "close", "relaunch", "go", "over"}

GateTypeOK ==
    /\ main \in MainLabels \cup {"dead"}
    /\ done \in BOOLEAN
    /\ prod \in [Producers -> {"work", "check", "send", "end"}]
    /\ exiting \in {"waiting", "closing", "exit"}
    /\ browser \in {"open", "closed", "gone"}
    /\ tty \in BOOLEAN /\ headless \in BOOLEAN
    /\ loggedIn \in BOOLEAN /\ entered \in BOOLEAN /\ signalled \in BOOLEAN
    /\ session \in Contents /\ unsaved \subseteq {"kept", "cut"}
    /\ ~(main = "waiting" /\ done)   \* no token beside a parked receiver

GateInit ==
    /\ main = "starting" /\ done = FALSE
    /\ prod = [p \in Producers |-> "work"]
    /\ exiting = "waiting" /\ browser = "open"
    /\ tty \in BOOLEAN /\ headless = FALSE
    /\ loggedIn = FALSE /\ entered = FALSE /\ signalled = FALSE
    /\ session \in Session /\ unsaved = {}

Running == main \notin {"over", "dead"}

-----------------------------------------------------------------------------
(* The channel *)

\* A send reaches a main goroutine that is parked in <-done directly; before
\* that it fills the buffer, and while the buffer is full it blocks.
SendDone(p) ==
    /\ Running /\ prod[p] = "send"
    /\ \/ main = "waiting" /\ main' = "save" /\ UNCHANGED done
       \/ main # "waiting" /\ ~done /\ done' = TRUE /\ UNCHANGED main
    /\ prod' = [prod EXCEPT ![p] = "end"]
    /\ UNCHANGED <<exiting, worldVars>>

\* <-done in the main goroutine: a token that is there, or parking.
Await ==
    /\ main = "starting"
    /\ main' = IF done THEN "save" ELSE "waiting"
    /\ done' = FALSE
    /\ UNCHANGED <<prod, exiting, worldVars>>

-----------------------------------------------------------------------------
(* The producers *)

CatchSignal ==
    /\ Running /\ signalled /\ prod["sig"] = "work"
    /\ prod' = [prod EXCEPT !["sig"] = "send"]
    /\ UNCHANGED <<main, done, exiting, worldVars>>

\* ReadString returns: the user has pressed ENTER, or there is no terminal, and
\* standard input ends at once.
ReadEnter ==
    /\ Running /\ prod["enter"] = "work"
    /\ prod' = [prod EXCEPT !["enter"] = "send"]
    /\ entered' = (entered \/ tty)
    /\ UNCHANGED <<main, done, exiting, tty, headless, browser, loggedIn, signalled, session, unsaved>>

\* Variant with a defect: the poller takes silence for a login.
PollBlindly ==
    /\ Running /\ prod["poller"] = "work"
    /\ prod' = [prod EXCEPT !["poller"] = "send"]
    /\ UNCHANGED <<main, done, exiting, worldVars>>

\* The poller's select: a token in the channel ends it, and is gone.
PollSelect ==
    /\ Running /\ prod["poller"] = "work"
    /\ done' = FALSE
    /\ prod' = [prod EXCEPT !["poller"] = IF done THEN "end" ELSE "check"]
    /\ UNCHANGED <<main, exiting, worldVars>>

\* Variant with a defect: the poller ends when it finds no login.
PollOnce ==
    /\ Running /\ prod["poller"] = "check"
    /\ prod' = [prod EXCEPT !["poller"] = "end"]
    /\ UNCHANGED <<main, done, exiting, worldVars>>

\* IsClosed, then a check of the page that can time out or find the page, or
\* Chrome itself, gone; page is the variable that main sets anew meanwhile.
PollMisses ==
    /\ Running /\ prod["poller"] = "check"
    /\ \/ browser = "closed" /\ prod' = [prod EXCEPT !["poller"] = "end"]
       \/ browser # "closed" /\ prod' = [prod EXCEPT !["poller"] = "work"]
    /\ UNCHANGED <<main, done, exiting, worldVars>>

PollDetects ==
    /\ Running /\ prod["poller"] = "check"
    /\ browser = "open" /\ loggedIn
    /\ prod' = [prod EXCEPT !["poller"] = "send"]
    /\ UNCHANGED <<main, done, exiting, worldVars>>

-----------------------------------------------------------------------------
(* The main goroutine after the prompt *)

\* Variant with a defect: the error of SaveState is taken for an empty session.
SaveAnyway ==
    /\ main = "save" /\ main' = "close"
    /\ session' = IF browser = "open" /\ loggedIn THEN "user" ELSE "broken"
    /\ UNCHANGED <<done, prod, exiting, tty, headless, browser, loggedIn, entered, signalled, unsaved>>

\* SaveState: the cookies come from the browser, a user's or a guest's; an error
\* is ignored; os.WriteFile truncates the file and then writes it.
SaveSession ==
    /\ main = "save"
    /\ \/ /\ browser = "open"
          /\ main' = (IF loggedIn THEN "user" ELSE "guest") /\ session' = "broken"
          /\ UNCHANGED unsaved
       \/ /\ main' = "close" /\ unsaved' = unsaved \cup {"kept"}
          /\ UNCHANGED session
    /\ UNCHANGED <<done, prod, exiting, tty, headless, browser, loggedIn, entered, signalled>>

\* The write, too, may fail.
WriteSession ==
    /\ main \in {"user", "guest"} /\ main' = "close"
    /\ \/ session' = main /\ UNCHANGED unsaved
       \/ unsaved' = unsaved \cup {"cut"} /\ UNCHANGED session
    /\ UNCHANGED <<done, prod, exiting, tty, headless, browser, loggedIn, entered, signalled>>

\* The window at the prompt; at the end, by the deferred calls, the headless browser.
CloseWindow ==
    /\ main = "close" /\ main' = (IF headless THEN "over" ELSE "relaunch")
    /\ browser' = "closed"
    /\ UNCHANGED <<done, prod, exiting, tty, headless, loggedIn, entered, signalled, session, unsaved>>

\* Launch(true), or log.Fatal. A session file that cannot be read is ignored.
Relaunch ==
    /\ main = "relaunch"
    /\ \/ /\ main' = "go" /\ headless' = TRUE /\ browser' = "open"
          /\ loggedIn' = (session = "user")
       \/ main' = "dead" /\ UNCHANGED <<headless, browser, loggedIn>>
    /\ UNCHANGED <<done, prod, exiting, tty, entered, signalled, session, unsaved>>

\* The command does its work, saves the session once more and ends, or log.Fatal.
Work ==
    /\ main = "go" /\ main' \in {"save", "dead"}
    /\ UNCHANGED <<done, prod, exiting, worldVars>>

-----------------------------------------------------------------------------
(* The signal goroutine of registerBrowser, and the user *)

CloseAll ==
    /\ Running /\ signalled /\ exiting = "waiting" /\ exiting' = "closing"
    /\ UNCHANGED <<main, done, prod, worldVars>>

BrowsersClosed ==
    /\ Running /\ exiting = "closing" /\ exiting' = "exit"
    /\ browser' = "closed"
    /\ UNCHANGED <<main, done, prod, tty, headless, loggedIn, entered, signalled, session, unsaved>>

ExitProcess ==
    /\ Running /\ exiting = "exit" /\ main' = "dead"
    /\ UNCHANGED <<done, prod, exiting, worldVars>>

LogIn ==
    /\ Running /\ ~headless /\ ~loggedIn /\ browser = "open" /\ loggedIn' = TRUE
    /\ UNCHANGED <<main, done, prod, exiting, tty, headless, browser, entered, signalled, session, unsaved>>

Interrupt ==
    /\ Running /\ ~signalled /\ signalled' = TRUE
    /\ UNCHANGED <<main, done, prod, exiting, tty, headless, browser, loggedIn, entered, session, unsaved>>

\* The user closes the window, or Chrome dies: the Page object does not notice.
WindowGone ==
    /\ Running /\ browser = "open" /\ browser' = "gone"
    /\ UNCHANGED <<main, done, prod, exiting, tty, headless, loggedIn, entered, signalled, session, unsaved>>

\* The program is at its work, or over; goroutines may be left behind.
GateOver == main \in {"go", "over", "dead"} /\ UNCHANGED gateVars

Prompt == Await \/ SaveSession \/ WriteSession \/ CloseWindow \/ Relaunch
Poll == PollSelect \/ PollMisses \/ PollDetects
SignalGoroutine == CloseAll \/ BrowsersClosed \/ ExitProcess

GateNext ==
    \/ Prompt \/ Work
    \/ CatchSignal \/ ReadEnter \/ Poll \/ \E p \in Producers : SendDone(p)
    \/ SignalGoroutine
    \/ LogIn \/ Interrupt \/ WindowGone
    \/ GateOver

\* Goroutines that can run do run; of the polls of a page that shows a login,
\* one is in time sooner or later. The user need do nothing.
GateFairness ==
    /\ WF_gateVars(Prompt) /\ WF_gateVars(Poll) /\ SF_gateVars(PollDetects)
    /\ WF_gateVars(CatchSignal) /\ \A p \in Producers : WF_gateVars(SendDone(p))
    /\ WF_gateVars(CloseAll) /\ WF_gateVars(BrowsersClosed) /\ WF_gateVars(ExitProcess)

GateSpec == GateInit /\ [][GateNext]_gateVars /\ GateFairness

-----------------------------------------------------------------------------
(* Properties *)

AtPrompt == main \in {"starting", "waiting"}

\* A guest's cookies replace the session only when the user forced the prompt, or
\* the login could not be saved (the headless browser is then a guest's, and its
\* session is saved at the end), or a guest's session was there before: the poller
\* never continues without a login. Where there is no terminal, as in the loop
\* daemon, nobody need force anything, since ENTER's goroutine fills done at once.
GuestOnlyByForce ==
    session = "guest" => entered \/ signalled \/ ~tty \/ unsaved # {} \/ "guest" \in Session

\* The session file is unreadable only when a process is writing it, died while it
\* did, or could not finish; a SaveState that gets no cookies leaves the file alone.
BrokenOnlyByWriting ==
    session = "broken" => main \in {"user", "guest", "dead"} \/ "cut" \in unsaved
                          \/ "broken" \in Session

\* vm.go:133, "The script will automatically detect once you are logged in":
\* a login ends the prompt, unless the window is gone, or the user, or a terminal
\* that is missing, has put a token into done, which the poller can have taken.
\* Ctrl+C ends the process wherever it is, also when its own token was taken so.
PromptEnds ==
    /\ loggedIn ~> ~AtPrompt \/ entered \/ ~tty \/ signalled \/ browser = "gone"
    /\ signalled ~> main \in {"over", "dead"}
=============================================================================
