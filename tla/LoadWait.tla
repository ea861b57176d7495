------------------------------ MODULE LoadWait ------------------------------
(***************************************************************************)
(* Waiting for a document to load (bonk/page_navigate.go: Navigate, Reload, *)
(* GoBack, GoForward, WaitNavigation; bonk/page_wait.go: WaitForLoadState).   *)
(* All subscribe a function that puts a token into a channel of one, give   *)
(* their command if they have one, and wait for the token or the timeout.   *)
(*                                                                         *)
(* The events carry no document: a page that is still loading, or that      *)
(* goes elsewhere by itself, sends the same ones. WaitDOMContentLoaded      *)
(* waits for another event in the same way; for network idle see module     *)
(* NetworkIdle.                                                             *)
(***************************************************************************)
EXTENDS Naturals

CONSTANT LastDoc    \* bound: documents 1..LastDoc, 1 being there at the beginning

ASSUME LastDocAssumption == LastDoc \in Nat \ {0}

VARIABLES
    op,             \* "none", "navigate", "reload", "history", "wait"
    lpc, lsub,      \* the caller's place; the events it has subscribed to
    tokens,         \* goroutines of signal that have not run
    loadDone,       \* the token in done
    doc, loaded,    \* Chrome: the current document; those whose load event was sent
    command,        \* "none", "given", "committed", "refused"
    answer,         \* the document the command brought, or 0
    disturbed,      \* history: a document not asked for committed or loaded since the
                    \* subscription
    unseen          \* history: an event waited for was sent before the subscription

loadVars == <<op, lpc, lsub, tokens, loadDone, doc, loaded, command, answer, disturbed, unseen>>
loadChrome == <<doc, loaded, answer, disturbed, unseen>>

LoadTypeOK ==
    /\ op \in {"none", "navigate", "reload", "history", "wait"}
    /\ lpc \in {"start", "frame", "command", "answer", "select", "ok", "timeout", "failed", "noEntry"}
    /\ lsub \subseteq {"load", "frame"}
    /\ tokens \in Nat /\ loadDone \in BOOLEAN
    /\ doc \in 1..LastDoc /\ loaded \subseteq 1..LastDoc
    /\ command \in {"none", "given", "committed", "refused"}
    /\ answer \in 0..LastDoc
    /\ disturbed \in BOOLEAN /\ unseen \in BOOLEAN

LoadInit ==
    /\ op = "none" /\ lpc = "start" /\ lsub = {} /\ tokens = 0 /\ loadDone = FALSE
    /\ doc = 1 /\ loaded = {}
    /\ command = "none" /\ answer = 0
    /\ disturbed = FALSE /\ unseen = FALSE

LoadOver == lpc \in {"ok", "timeout", "failed", "noEntry"}

-----------------------------------------------------------------------------
(* The caller                                                                *)

\* Variant with a defect: FrameNavigated ends a Navigate too.
SubscribeBoth(kind) ==
    /\ lpc = "start" /\ op' = kind
    /\ lsub' = {"load", "frame"}
    /\ lpc' = IF kind = "wait" THEN "select" ELSE "command"
    /\ UNCHANGED <<tokens, loadDone, command, loadChrome>>

SubscribeLoad(kind) ==
    /\ lpc = "start" /\ op' = kind
    /\ lsub' = {"load"}
    /\ lpc' = CASE kind \in {"navigate", "reload"} -> "command" [] kind = "history" -> "frame"
                [] kind = "wait" -> "select"
    /\ UNCHANGED <<tokens, loadDone, command, loadChrome>>

\* GoBack or GoForward with nowhere to go returns at once, and without an error.
NoEntry ==
    /\ lpc = "start" /\ lpc' = "noEntry" /\ op' = "history"
    /\ UNCHANGED <<lsub, tokens, loadDone, command, loadChrome>>

\* navigateToEntry: a page of the back/forward cache sends no load event.
SubscribeFrame ==
    /\ lpc = "frame" /\ lpc' = "command"
    /\ lsub' = lsub \cup {"frame"}
    /\ UNCHANGED <<op, tokens, loadDone, command, loadChrome>>

GiveCommand ==
    /\ lpc = "command" /\ lpc' = "answer"
    /\ command' = "given"
    /\ UNCHANGED <<op, lsub, tokens, loadDone, loadChrome>>

\* Page.navigate is answered when the document has committed or with an error,
\* Page.reload and Page.navigateToHistoryEntry at once.
CommandAnswered ==
    /\ lpc = "answer"
    /\ command # "given" \/ op \in {"reload", "history"}
    /\ lpc' = IF command = "refused" THEN "failed" ELSE "select"
    /\ UNCHANGED <<op, lsub, tokens, loadDone, command, loadChrome>>

SelectDone ==
    /\ lpc = "select" /\ loadDone
    /\ lpc' = "ok" /\ lsub' = {} /\ loadDone' = FALSE
    /\ UNCHANGED <<op, tokens, command, loadChrome>>

SelectTimeout ==
    /\ lpc = "select"
    /\ lpc' = "timeout" /\ lsub' = {}
    /\ UNCHANGED <<op, tokens, loadDone, command, loadChrome>>

\* signal, in a goroutine of its own for each event.
SignalDone ==
    /\ tokens > 0 /\ tokens' = tokens - 1
    /\ loadDone' = TRUE
    /\ UNCHANGED <<op, lpc, lsub, command, loadChrome>>

-----------------------------------------------------------------------------
(* Chrome                                                                    *)

Event(kind) == tokens' = IF kind \in lsub THEN tokens + 1 ELSE tokens

\* The document that was asked for, or one the page goes to by itself.
Commit(asked) ==
    /\ ~LoadOver /\ doc < LastDoc /\ doc' = doc + 1
    /\ IF asked
       THEN command = "given" /\ command' = "committed" /\ answer' = doc + 1 /\ UNCHANGED disturbed
       ELSE UNCHANGED <<command, answer>> /\ disturbed' = (disturbed \/ lsub # {})
    /\ Event("frame")
    /\ UNCHANGED <<op, lpc, lsub, loadDone, loaded, unseen>>

Refuse ==
    /\ command = "given" /\ lpc = "answer" /\ command' = "refused"
    /\ UNCHANGED <<op, lpc, lsub, tokens, loadDone, loadChrome>>

Load ==
    /\ ~LoadOver /\ doc \notin loaded
    /\ loaded' = loaded \cup {doc}
    /\ disturbed' = (disturbed \/ (lsub # {} /\ doc # answer))
    /\ unseen' = (unseen \/ lpc = "start")
    /\ Event("load")
    /\ UNCHANGED <<op, lpc, lsub, loadDone, doc, command, answer>>

LoadNext ==
    \/ \E kind \in {"navigate", "reload", "history", "wait"} : SubscribeLoad(kind)
    \/ NoEntry \/ SubscribeFrame \/ GiveCommand \/ CommandAnswered \/ SelectDone \/ SelectTimeout \/ SignalDone
    \/ \E asked \in BOOLEAN : Commit(asked)
    \/ Refuse \/ Load
    \/ LoadOver /\ tokens = 0 /\ UNCHANGED loadVars

LoadSpec == LoadInit /\ [][LoadNext]_loadVars

-----------------------------------------------------------------------------
(* Properties                                                                *)

\* Navigate and Reload return without error only when the document they asked
\* for has loaded, and GoBack or GoForward, if there is an entry to go to, when it
\* has committed -- unless another document of the page committed or loaded after
\* the call had subscribed. And none of them, nor WaitNavigation or
\* WaitForLoadState, goes on waiting when the load event it waits for has been
\* sent and handled -- unless, with the last two, that was before the call.
NavigationSeen ==
    /\ lpc = "ok" /\ ~disturbed => CASE op \in {"navigate", "reload"} -> answer \in loaded
                                     [] op = "history" -> answer # 0
                                     [] OTHER -> TRUE
    /\ (lpc = "select" /\ tokens = 0 /\ doc \in loaded) =>
          loadDone \/ (op = "wait" /\ unseen) \/ (op = "history" /\ answer = 0)
          \/ (op \in {"navigate", "reload"} /\ answer # doc)

=============================================================================
