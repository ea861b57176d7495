------------------------------ MODULE Contexts ------------------------------
(***************************************************************************)
(* The pages of one browser context (bonk/context.go, bonk/page.go,         *)
(* bonk/page_popup.go): pages being opened, popups being attached, pages    *)
(* and their copies being closed, and the context being closed, by          *)
(* goroutines that hold a lock for one look at a flag or at the list only.  *)
(*                                                                         *)
(* A handle is a Page value: the one NewPage makes, or a copy of it made by *)
(* Timeout or WithContext, which has a flag of its own.                     *)
(***************************************************************************)

CONSTANTS
    Pages,      \* the pages NewPage makes
    Popups      \* the pages WaitForPopup attaches to

Tabs == Pages \cup Popups
Handles == Tabs \X {"page", "copy"}

VARIABLES
    making,     \* newPage, or the handler of WaitForPopup, for each tab
    tab,        \* Chrome: "none", "open", "gone"
    flag, closePc,  \* each handle: Page.closed; where its Close is
    ctxPages, ctxClosed,        \* c.pages, c.closed
    cpc, toClose, closing,      \* BrowserContext.Close: place, pages left, page in hand
    late,       \* history: added to the list after Close had taken it
    alone       \* history: tabs that closed by themselves

ctxVars == <<making, tab, flag, closePc, ctxPages, ctxClosed, cpc, toClose, closing, late, alone>>
closeVars == <<ctxClosed, cpc, toClose, closing>>

\* Making: "state" is LoadState, "given" is in the caller's hands; a "failed" page
\* was never added, a "lost" one was and is in nobody's hands.
ContextsTypeOK ==
    /\ making \in [Tabs -> {"none", "attach", "add", "state", "given", "failed", "lost"}]
    /\ tab \in [Tabs -> {"none", "open", "gone"}]
    /\ flag \in [Handles -> BOOLEAN]
    /\ closePc \in [Handles -> {"none", "remove", "tab", "over"}]
    /\ ctxPages \subseteq Tabs /\ toClose \subseteq Tabs /\ closing \subseteq Tabs
    /\ ctxClosed \in BOOLEAN
    /\ cpc \in {"none", "each", "done", "failed"}
    /\ late \subseteq Tabs /\ alone \subseteq Tabs

ContextsInit ==
    /\ making = [p \in Tabs |-> "none"] /\ tab = [p \in Tabs |-> "none"]
    /\ flag = [h \in Handles |-> FALSE] /\ closePc = [h \in Handles |-> "none"]
    /\ ctxPages = {} /\ ctxClosed = FALSE
    /\ cpc = "none" /\ toClose = {} /\ closing = {}
    /\ late = {} /\ alone = {}

Made(p, from, to) == making[p] = from /\ making' = [making EXCEPT ![p] = to]

-----------------------------------------------------------------------------
(* newPage, attachToTarget, WaitForPopup                                     *)

\* Chrome makes no tab in a context that is disposed of.
CreateTarget(p) ==
    /\ p \in Pages /\ cpc # "done"
    /\ Made(p, "none", "attach")
    /\ tab' = [tab EXCEPT ![p] = "open"]
    /\ UNCHANGED <<flag, closePc, ctxPages, closeVars, late, alone>>

\* A page of the context opens another; the event starts the handler.
PopupOpens(p) ==
    /\ p \in Popups /\ \E q \in Pages : making[q] = "given" /\ tab[q] = "open"
    /\ Made(p, "none", "attach")
    /\ tab' = [tab EXCEPT ![p] = "open"]
    /\ UNCHANGED <<flag, closePc, ctxPages, closeVars, late, alone>>

\* Any of the commands that attach and set up the page may fail, and the tab is
\* left behind.
AttachToTarget(p) ==
    /\ \/ Made(p, "attach", "add") /\ tab[p] = "open"
       \/ Made(p, "attach", "failed")
    /\ UNCHANGED <<tab, flag, closePc, ctxPages, closeVars, late, alone>>

\* The last step of attachToTarget; a popup is given to the waiter or to nobody.
AddPage(p) ==
    /\ IF p \in Popups THEN Made(p, "add", "given") \/ Made(p, "add", "lost")
                       ELSE Made(p, "add", "state")
    /\ ctxPages' = ctxPages \cup {p}
    /\ late' = IF ctxClosed THEN late \cup {p} ELSE late
    /\ UNCHANGED <<tab, flag, closePc, closeVars, alone>>

\* An error of LoadState leaves the page in the list and gives it to nobody.
StateLoaded(p) ==
    /\ Made(p, "state", "given") \/ Made(p, "state", "lost")
    /\ UNCHANGED <<tab, flag, closePc, ctxPages, closeVars, late, alone>>

-----------------------------------------------------------------------------
(* Page.Close, called by whoever has the page: its maker, or who found it in  *)
(* Pages(). closePc is the place of the one goroutine that found the flag unset.  *)

ClaimPage(h) == ~flag[h] /\ flag' = [flag EXCEPT ![h] = TRUE] /\ closePc' = [closePc EXCEPT ![h] = "remove"]
InHand(h) == making[h[1]] \in IF h[2] = "copy" THEN {"given"} ELSE {"state", "given", "lost"}

ClosePage(h) ==
    /\ InHand(h) /\ ClaimPage(h)
    /\ UNCHANGED <<making, tab, ctxPages, closeVars, late, alone>>

\* removePage compares pointers: a copy is not in the list.
RemovePage(h) ==
    /\ closePc[h] = "remove" /\ closePc' = [closePc EXCEPT ![h] = "tab"]
    /\ ctxPages' = IF h[2] = "page" THEN ctxPages \ {h[1]} ELSE ctxPages
    /\ UNCHANGED <<making, tab, flag, closeVars, late, alone>>

CloseTarget(h) ==
    /\ closePc[h] = "tab" /\ closePc' = [closePc EXCEPT ![h] = "over"]
    /\ tab' = [tab EXCEPT ![h[1]] = "gone"]
    /\ UNCHANGED <<making, flag, ctxPages, closeVars, late, alone>>

TabCloses(p) ==
    /\ tab[p] = "open" /\ tab' = [tab EXCEPT ![p] = "gone"]
    /\ alone' = alone \cup {p}
    /\ UNCHANGED <<making, flag, closePc, ctxPages, closeVars, late>>

-----------------------------------------------------------------------------
(* BrowserContext.Close                                                      *)

TakePages ==
    /\ ~ctxClosed /\ ctxClosed' = TRUE
    /\ cpc' = "each" /\ toClose' = ctxPages /\ ctxPages' = {}
    /\ UNCHANGED <<making, tab, flag, closePc, closing, late, alone>>

\* The Close of a page that another goroutine is closing returns at once.
CloseEach(p) ==
    /\ cpc = "each" /\ closing = {} /\ p \in toClose
    /\ toClose' = toClose \ {p}
    /\ IF flag[<<p, "page">>] THEN UNCHANGED <<flag, closePc, closing>>
                              ELSE ClaimPage(<<p, "page">>) /\ closing' = {p}
    /\ UNCHANGED <<making, tab, ctxPages, ctxClosed, cpc, late, alone>>

EachClosed(p) ==
    /\ p \in closing /\ closePc[<<p, "page">>] = "over"
    /\ closing' = {}
    /\ UNCHANGED <<making, tab, flag, closePc, ctxPages, ctxClosed, cpc, toClose, late, alone>>

\* Variant with a defect: only the pages are closed, the context is not disposed of.
LeaveContext ==
    /\ cpc = "each" /\ closing = {} /\ toClose = {}
    /\ cpc' = "done"
    /\ UNCHANGED <<making, tab, flag, closePc, ctxPages, ctxClosed, toClose, closing, late, alone>>

\* Chrome closes the tabs of the context, or the command fails.
Dispose ==
    /\ cpc = "each" /\ closing = {} /\ toClose = {}
    /\ \/ cpc' = "done" /\ tab' = [p \in Tabs |-> IF tab[p] = "open" THEN "gone" ELSE tab[p]]
       \/ cpc' = "failed" /\ UNCHANGED tab
    /\ UNCHANGED <<making, flag, closePc, ctxPages, ctxClosed, toClose, closing, late, alone>>

ContextsNext ==
    \/ \E p \in Tabs :
          \/ CreateTarget(p) \/ PopupOpens(p) \/ AttachToTarget(p) \/ AddPage(p) \/ StateLoaded(p)
          \/ TabCloses(p) \/ CloseEach(p) \/ EachClosed(p)
    \/ \E h \in Handles : ClosePage(h) \/ RemovePage(h) \/ CloseTarget(h)
    \/ TakePages \/ Dispose
    \/ cpc \in {"done", "failed"} /\ UNCHANGED ctxVars

ContextsSpec == ContextsInit /\ [][ContextsNext]_ctxVars

-----------------------------------------------------------------------------
(* Properties                                                                *)

\* What Close has to go through is there: a page that somebody has and that
\* nobody closes is in the list, and one that is closed never comes back.
GivenIsListed ==
    \A p \in Tabs :
        /\ (making[p] \in {"state", "given", "lost"} /\ ~flag[<<p, "page">>])
              => p \in ctxPages \cup toClose
        /\ closePc[<<p, "page">>] \in {"tab", "over"} => p \notin ctxPages

\* A context that was disposed of has no tab left, whoever was opening, attaching
\* or closing pages meanwhile.
NothingOutlives == cpc = "done" => \A p \in Tabs : tab[p] # "open"

\* IsClosed tells whether the tab is gone -- but for a page added after Close had
\* taken the list, a tab that closed by itself, and a page closed through a copy.
FlagTellsTab ==
    \A p \in Tabs :
        /\ closePc[<<p, "page">>] = "over" => tab[p] = "gone"
        /\ (making[p] = "given" /\ tab[p] = "gone" /\ ~flag[<<p, "page">>])
              => p \in late \cup alone \/ flag[<<p, "copy">>]

ContextPages == GivenIsListed /\ NothingOutlives /\ FlagTellsTab

=============================================================================
