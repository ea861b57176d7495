------------------------------- MODULE Overlay -------------------------------
(***************************************************************************)
(* Overlay handlers (bonk/page_overlay.go): what Page.AddLocatorHandler    *)
(* registers runs before every click (page_input.go, locator.go) as long   *)
(* as its locator is visible. A handler is a function of the caller; most  *)
(* click a button of the overlay, through the Page or through an Element.  *)
(*                                                                         *)
(* One goroutine uses the page. Its calls of Click that have not returned  *)
(* are a stack, because a handler is called from within one.               *)
(***************************************************************************)
EXTENDS Naturals, Sequences, SequencesExt

CONSTANTS
    Overlays,   \* overlays the site may show, each with its locator and button
    Direct,     \* those whose handler clicks an Element: no handlers run first
    Target,     \* what the caller wants to click
    MaxRounds,  \* maxOverlayRounds
    StackBound  \* bound: nested calls until the goroutine's stack overflows

VARIABLES
    visible,    \* the overlays on the page
    shown,      \* history: the overlays the site has shown
    handlers,   \* p.locatorHandlers, by their overlay
    calls,      \* Click calls, the innermost last
    outcome     \* of the caller's click: "none", "clicking", "clicked", "overflow"

vars == <<visible, shown, handlers, calls, outcome>>

Init ==
    /\ visible = {} /\ shown = {} /\ handlers = <<>>
    /\ calls = <<>> /\ outcome = "none"

\* The loop's place in one call: what it clicks in the end, the copy of the
\* handlers, those left in this round, the round, whether one has fired in it.
Call(x) == [click |-> x, copy |-> handlers, left |-> handlers, round |-> 1, fired |-> FALSE]

Inner == Last(calls)
With(call) == Append(Front(calls), call)

AddLocatorHandler(o) ==
    /\ outcome = "none" /\ ~Contains(handlers, o)
    /\ handlers' = Append(handlers, o)
    /\ UNCHANGED <<visible, shown, calls, outcome>>

RemoveLocatorHandler(o) ==
    /\ outcome = "none" /\ Contains(handlers, o)
    /\ handlers' = Remove(handlers, o)
    /\ UNCHANGED <<visible, shown, calls, outcome>>

Click ==
    /\ outcome = "none" /\ outcome' = "clicking"
    /\ calls' = <<Call(Target)>>
    /\ UNCHANGED <<visible, shown, handlers>>

\* IsVisible says no; or its query fails, which counts as no.
Pass ==
    /\ calls # <<>> /\ Inner.left # <<>> /\ outcome = "clicking"
    /\ calls' = With([Inner EXCEPT !.left = Tail(@)])
    /\ UNCHANGED <<visible, shown, handlers, outcome>>

\* The handler is called; one that clicks through the Page starts over with all
\* handlers, and the overlay is still there.
Fire ==
    /\ calls # <<>> /\ Inner.left # <<>> /\ outcome = "clicking"
    /\ LET o == Head(Inner.left)
           after == With([Inner EXCEPT !.left = Tail(@), !.fired = TRUE])
       IN  /\ o \in visible
           /\ \/ o \in Direct /\ calls' = after /\ visible' = visible \ {o} /\ UNCHANGED outcome
              \/ /\ o \notin Direct /\ Len(calls) < StackBound
                 /\ calls' = Append(after, Call(o)) /\ UNCHANGED <<visible, outcome>>
              \/ /\ o \notin Direct /\ Len(calls) = StackBound
                 /\ outcome' = "overflow" /\ UNCHANGED <<calls, visible>>
    /\ UNCHANGED <<shown, handlers>>

NextRound ==
    /\ calls # <<>> /\ Inner.left = <<>> /\ outcome = "clicking"
    /\ Inner.fired /\ Inner.round < MaxRounds
    /\ calls' = With([Inner EXCEPT !.left = Inner.copy, !.round = @ + 1, !.fired = FALSE])
    /\ UNCHANGED <<visible, shown, handlers, outcome>>

\* The element is waited for and clicked. A wait for the button of an overlay
\* that is gone ends by its timeout, which the handler does not look at.
Finish ==
    /\ calls # <<>> /\ Inner.left = <<>> /\ outcome = "clicking"
    /\ ~Inner.fired \/ Inner.round = MaxRounds
    /\ calls' = Front(calls)
    /\ visible' = visible \ {Inner.click}
    /\ outcome' = IF Inner.click = Target THEN "clicked" ELSE outcome
    /\ UNCHANGED <<shown, handlers>>

\* The site shows an overlay, once.
Appear(o) ==
    /\ o \notin shown
    /\ shown' = shown \cup {o} /\ visible' = visible \cup {o}
    /\ UNCHANGED <<handlers, calls, outcome>>

Step == Pass \/ Fire \/ NextRound \/ Finish

Next ==
    \/ Click \/ Step
    \/ \E o \in Overlays : AddLocatorHandler(o) \/ RemoveLocatorHandler(o) \/ Appear(o)

\* The goroutine goes on; the caller need not click and the site need not show
\* an overlay.
Spec == Init /\ [][Next]_vars /\ WF_vars(Step)

-----------------------------------------------------------------------------
(* Properties *)

\* www/docs/automation/overlay-handlers.md:14: "the handler clicks the accept
\* button before proceeding with the original action", and :22, "up to 10
\* rounds". For handlers written as that page shows them, with page.Click.
ActionProceeds == (outcome = "clicking") ~> (outcome = "clicked")
=============================================================================
