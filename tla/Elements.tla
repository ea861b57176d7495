------------------------------ MODULE Elements ------------------------------
(***************************************************************************)
(* An action on an element: a locator is resolved to a node of the page,    *)
(* and the element then calls functions on that node, one after the other,  *)
(* while the page goes on changing. The page is the sequence of nodes that  *)
(* match the selector. A node that is taken out of it can still be called;  *)
(* one that was on the page when it navigated cannot, and an element that   *)
(* has a selector then looks itself up again, once for each call. Fill is    *)
(* called on a field, whose functions throw nothing.                        *)
(***************************************************************************)
EXTENDS Naturals, Sequences

CONSTANTS
    MaxNodes,       \* bound: nodes, numbered in the order they appear
    MaxChanges,     \* bound: changes of the page
    NoNode

Nodes == 1..MaxNodes

ASSUME ElementsAssumption == MaxNodes \in Nat \ {0, 1} /\ MaxChanges \in Nat /\ NoNode \notin Nodes

VARIABLES
    dom,            \* the attached nodes that match, in the document's order
    hidden,         \* nodes whose own style hides them
    barred,         \* nodes that are covered or have no box (their parent is not displayed),
                    \* or, for "fill", that do not take the focus (a disabled field)
    lost,           \* nodes whose object a navigation has ended
    focused,        \* the node that has the focus, or NoNode
    ticked,         \* nodes, as checkboxes, that are checked
    used, changes,  \* nodes that have appeared; changes so far
    act, kind,       \* "click", "fill" or "check"; "css", "nth" (the second match) or "js"
    epc, try,       \* the action's place; its call: "first", "query" or "retry"
    held,           \* the node that the element's objectID names
    seen,           \* the node that the wait found visible
    box,            \* the node that is in the place where the action clicks, or NoNode
    landed,         \* where the click or the text went
    relooked,       \* history: the element has been looked up again
    steady          \* history: the page has not changed since the last look-up

pageVars == <<dom, hidden, barred, lost, focused, used>>
elementVars == <<pageVars, ticked, changes, act, kind, epc, try, held, seen, box, landed,
                 relooked, steady>>

Steps == {"read", "see", "scroll", "box", "focus", "select"}
ElementsTypeOK ==
    /\ dom \in Seq(Nodes) /\ hidden \subseteq Nodes /\ barred \subseteq Nodes
    /\ lost \subseteq Nodes /\ ticked \subseteq Nodes
    /\ {focused, held, seen, box, landed} \subseteq Nodes \cup {NoNode}
    /\ used \in 0..MaxNodes /\ changes \in 0..MaxChanges
    /\ act \in {"click", "fill", "check"} /\ kind \in {"css", "nth", "js"}
    /\ epc \in Steps \cup {"resolve", "press", "insert", "ok", "timeout", "stale", "error"}
    /\ try \in {"first", "query", "retry"}
    /\ relooked \in BOOLEAN /\ steady \in BOOLEAN

ElementsInit ==
    /\ dom \in {<<>>, <<1>>, <<1, 2>>} /\ used = Len(dom)
    /\ hidden \in SUBSET (1..used) /\ barred \in SUBSET (1..used) /\ ticked = {}
    /\ lost = {} /\ focused = NoNode /\ changes = 0
    /\ act \in {"click", "fill", "check"} /\ kind \in {"css", "nth", "js"}
    /\ epc = "resolve" /\ try = "first"
    /\ held = NoNode /\ seen = NoNode /\ box = NoNode /\ landed = NoNode
    /\ relooked = FALSE /\ steady = FALSE

Over == epc \in {"ok", "timeout", "stale", "error"}

-----------------------------------------------------------------------------
(* The page                                                                  *)

\* After a change the place that a box told may be another node's.
Changes ==
    /\ changes < MaxChanges /\ ~Over
    /\ changes' = changes + 1 /\ steady' = FALSE /\ box' = NoNode
    /\ UNCHANGED <<act, kind, epc, try, held, seen, landed, relooked>>

Attach ==
    /\ Changes /\ used < MaxNodes /\ used' = used + 1
    /\ dom' \in {<<used'>> \o dom, Append(dom, used')}
    /\ hidden' \in {hidden, hidden \cup {used'}} /\ barred' \in {barred, barred \cup {used'}}
    /\ UNCHANGED <<lost, focused, ticked>>

Detach(i) ==
    /\ Changes /\ dom' = [j \in 1..(Len(dom) - 1) |-> dom[IF j < i THEN j ELSE j + 1]]
    /\ focused' = IF focused = dom[i] THEN NoNode ELSE focused
    /\ UNCHANGED <<hidden, barred, lost, used, ticked>>

\* Its style, or what bars it, or its tick, changes.
Restyle(n) ==
    /\ Changes
    /\ \/ /\ hidden' = IF n \in hidden THEN hidden \ {n} ELSE hidden \cup {n}
          /\ UNCHANGED barred
       \/ /\ barred' = IF n \in barred THEN barred \ {n} ELSE barred \cup {n}
          /\ UNCHANGED hidden
    /\ UNCHANGED <<dom, lost, focused, used, ticked>>

Tick(n) ==
    /\ Changes /\ act = "check"
    /\ ticked' = IF n \in ticked THEN ticked \ {n} ELSE ticked \cup {n}
    /\ UNCHANGED pageVars

MoveFocus ==
    /\ Changes /\ act = "fill"
    /\ \E n \in {dom[i] : i \in 1..Len(dom)} \cup {NoNode} : n # focused /\ focused' = n
    /\ UNCHANGED <<dom, hidden, barred, lost, used, ticked>>

Navigate ==
    /\ Changes /\ lost' = 1..used /\ focused' = NoNode
    /\ \E k \in 0..2 : /\ used + k <= MaxNodes /\ used' = used + k
                       /\ dom' = [i \in 1..k |-> used + i]
    /\ hidden' \in {hidden, hidden \cup ((used + 1)..used')}
    /\ barred' \in {barred, barred \cup ((used + 1)..used')}
    /\ UNCHANGED ticked

-----------------------------------------------------------------------------
(* Finding the element                                                       *)

Index == IF kind = "nth" THEN 2 ELSE 1
FirstStep == CASE act = "click" -> "see" [] act = "fill" -> "focus" [] act = "check" -> "read"

\* WaitSelector, resolveNth, resolveJS: poll until there is a node, ...
Resolve ==
    /\ epc = "resolve" /\ Index <= Len(dom)
    /\ held' = dom[Index] /\ epc' = FirstStep /\ steady' = TRUE
    /\ UNCHANGED <<pageVars, ticked, changes, act, kind, try, seen, box, landed, relooked>>

\* ... until the deadline, or until the page, navigating, fails to answer.
NotResolved ==
    /\ epc = "resolve"
    /\ \/ epc' = "timeout" /\ Index > Len(dom)
       \/ epc' = "error" /\ changes > 0
    /\ UNCHANGED <<pageVars, ticked, changes, act, kind, try, held, seen, box, landed, relooked, steady>>

-----------------------------------------------------------------------------
(* callForValue                                                              *)

\* The node's object has gone: elements that have a selector look it up again.
NodeLost ==
    /\ epc \in Steps /\ try # "query" /\ held \in lost
    /\ IF try = "first" /\ kind # "js" THEN try' = "query" /\ UNCHANGED epc
                                       ELSE epc' = "error" /\ UNCHANGED try
    /\ UNCHANGED <<pageVars, ticked, changes, act, kind, held, seen, box, landed, relooked, steady>>

\* Variant with a defect: the new objectID is not stored.
ReResolveInVain ==
    /\ epc \in Steps /\ try = "query"
    /\ IF dom = <<>> THEN epc' = "stale" /\ UNCHANGED <<held, try, relooked, steady>>
       ELSE /\ try' = "retry" /\ relooked' = TRUE /\ steady' = TRUE
            /\ UNCHANGED <<held, epc>>
    /\ UNCHANGED <<pageVars, ticked, changes, act, kind, seen, box, landed>>

\* Whatever it was found by, it becomes the first match. No wait for one.
ReResolve ==
    /\ epc \in Steps /\ try = "query"
    /\ IF dom = <<>> THEN epc' = "stale" /\ UNCHANGED <<held, try, relooked, steady>>
       ELSE /\ held' = dom[1] /\ try' = "retry" /\ relooked' = TRUE /\ steady' = TRUE
            /\ UNCHANGED epc
    /\ UNCHANGED <<pageVars, ticked, changes, act, kind, seen, box, landed>>

\* A call on the node that answers, after which the action goes on.
Called(from, to) ==
    /\ epc = from /\ try # "query" /\ held \notin lost
    /\ epc' = to /\ try' = "first"
    /\ UNCHANGED <<dom, hidden, barred, lost, used, changes, act, kind, held, landed, relooked, steady>>

Attached(n) == \E i \in 1..Len(dom) : dom[i] = n

-----------------------------------------------------------------------------
(* Click, and Check, which clicks a box that is not checked                  *)

ReadTick ==
    /\ Called("read", IF held \in ticked THEN "ok" ELSE "see")
    /\ UNCHANGED <<focused, ticked, seen, box>>

\* WaitForVisible. A node that is not attached has no style that hides it.
SeeVisible ==
    /\ held \notin hidden \/ ~Attached(held)
    /\ Called("see", "scroll") /\ seen' = held
    /\ UNCHANGED <<focused, ticked, box>>

\* At the deadline poll returns nothing and no error, and the action goes on.
SeeExpires ==
    /\ held \in hidden /\ Attached(held)
    /\ Called("see", "scroll")
    /\ UNCHANGED <<focused, ticked, seen, box>>

ScrollIntoView == Called("scroll", "box") /\ UNCHANGED <<focused, ticked, seen, box>>

\* BoundingBox: the place of the node now; all zero when it has none.
TakeBox ==
    /\ Called("box", "press")
    /\ box' = IF Attached(held) THEN held ELSE NoNode
    /\ UNCHANGED <<focused, ticked, seen>>

\* The mouse is pressed at that place, whatever is there: nothing tests that it
\* is the node. What is hidden is hit only if it is transparent, what is barred never.
Press ==
    /\ epc = "press" /\ epc' = "ok"
    /\ landed' \in IF box # NoNode /\ box \notin hidden \cup barred THEN {box}
                   ELSE ({dom[i] : i \in 1..Len(dom)} \cup {NoNode}) \ barred
    /\ ticked' = IF landed' \in ticked THEN ticked \ {landed'} ELSE ticked \cup ({landed'} \ {NoNode})
    /\ UNCHANGED <<pageVars, changes, act, kind, try, held, seen, box, relooked, steady>>

-----------------------------------------------------------------------------
(* Fill, which does not wait                                                 *)

\* Calls that report nothing when the focus stays where it was, as it does with a
\* field that is barred; a hidden one may be transparent only, and take it.
Focuses ==
    focused' \in (IF Attached(held) /\ held \notin barred THEN {held} ELSE {focused})
                 \cup (IF held \in hidden THEN {focused} ELSE {})

Focus == Called("focus", "select") /\ Focuses /\ UNCHANGED <<ticked, seen, box>>

\* In Chrome, select() gives a field the focus too.
SelectText == Called("select", "insert") /\ Focuses /\ UNCHANGED <<ticked, seen, box>>

\* The text goes to whatever has the focus.
InsertText ==
    /\ epc = "insert" /\ epc' = "ok" /\ landed' = focused
    /\ UNCHANGED <<pageVars, ticked, changes, act, kind, try, held, seen, box, relooked, steady>>

ElementsNext ==
    \/ Attach \/ Navigate \/ MoveFocus
    \/ \E i \in 1..Len(dom) : Detach(i) \/ Restyle(dom[i]) \/ Tick(dom[i])
    \/ Resolve \/ NotResolved \/ NodeLost \/ ReResolve
    \/ ReadTick \/ SeeVisible \/ SeeExpires \/ ScrollIntoView \/ TakeBox \/ Press
    \/ Focus \/ SelectText \/ InsertText
    \/ Over /\ UNCHANGED elementVars

ElementsSpec == ElementsInit /\ [][ElementsNext]_elementVars

-----------------------------------------------------------------------------
(* Properties                                                                *)

\* An action that reports success on a page that has been still since the element
\* was last looked up has acted on that element, if it was visible when it was
\* last waited for and nothing bars it, which nobody asks: the match the locator
\* asked for or, when a navigation has made the element look itself up again, the
\* first one. An element that has a selector fails for want of its node only if
\* the page changed under it again. (A box that is looked up again after Check has
\* read it may be unchecked.)
ElementActs ==
    /\ epc = "ok" /\ steady =>
        /\ held = dom[IF relooked THEN 1 ELSE Index]
        /\ act = "click" /\ seen = held /\ held \notin barred => landed = held
        /\ act = "fill" /\ held \notin hidden \cup barred => landed = held
        /\ act = "check" /\ ~relooked /\ held \notin hidden \cup barred => held \in ticked
    /\ epc = "error" /\ held # NoNode /\ kind # "js" => ~steady

\* "WaitForVisible waits until the element becomes visible" (element_input.go:248):
\* what Click presses has been visible.
VisibleBeforeActing == epc = "press" /\ steady /\ ~relooked => seen = held
=============================================================================
