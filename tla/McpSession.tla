----------------------------- MODULE McpSession -----------------------------
(***************************************************************************)
(* The session of bonkmcp (bonk/mcp/session.go) and the tools that work on *)
(* it: one browser, started when first needed, a bounded table of pages    *)
(* under the identifiers told to the client, the order of their last use,  *)
(* and the overlay handlers registered through the tools, with what Page   *)
(* (bonk/page.go, page_overlay.go) keeps of each.                          *)
(*                                                                         *)
(* Every tool holds s.mu from its first line to its return, so a tool is   *)
(* one step; tabs are closed by their user or their page in between.       *)
(* Chrome is taken to close the tab that it is asked to close.             *)
(***************************************************************************)
EXTENDS Naturals, Sequences, FiniteSets

CONSTANTS
    MaxPages,   \* cfg.maxPages; 0: no limit
    Selectors,  \* selectors that overlay handlers are registered for
    MaxId,      \* bound: pages opened
    MaxStrays,  \* bound: tabs left by failed openings
    MaxLocators \* bound: overlay handlers registered

ASSUME SessionAssumption ==
    MaxPages \in Nat /\ MaxId \in Nat /\ MaxStrays \in Nat /\ MaxLocators \in Nat

VARIABLES
    running,            \* s.browser is set
    pages, order,       \* s.pages: identifier to Page; s.pageOrder
    nextID,
    made, closed,       \* Page values made, 1..made; those with p.closed set
    tabs, strays,       \* Pages whose tab is open in Chrome; tabs without a Page
    told,               \* history: the identifiers told to the client, with the Page meant
    got,                \* history: the identifier the last tool worked on
    overlays, handlers, \* s.overlays; <<Page, Locator>> in the locatorHandlers
    locators            \* Locators made

tableVars == <<running, pages, order, nextID, made, closed, tabs, strays, told, got>>
overlayVars == <<overlays, handlers, locators>>
vars == <<tableVars, overlayVars>>

Ids == 1..MaxId
Live == DOMAIN pages
Nothing == [x \in {} |-> x]     \* an empty map

TableType ==
    /\ running \in BOOLEAN
    /\ nextID \in 0..MaxId /\ made \in Nat
    /\ Live \subseteq 1..nextID /\ pages \in [Live -> 1..made]
    /\ order \in Seq(1..nextID)
    /\ closed \subseteq 1..made /\ tabs \subseteq 1..made /\ strays \in 0..MaxStrays
    /\ told \subseteq (1..nextID) \X (1..made) /\ got \in 0..nextID

OverlayType ==
    /\ locators \in 0..MaxLocators
    /\ DOMAIN overlays \subseteq (1..nextID) \X Selectors
    /\ overlays \in [DOMAIN overlays -> 1..locators]
    /\ handlers \subseteq (1..made) \X (1..locators)

TypeOK == TableType /\ OverlayType

Init ==
    /\ running = FALSE
    /\ pages = Nothing /\ order = <<>> /\ nextID = 0
    /\ made = 0 /\ closed = {} /\ tabs = {} /\ strays = 0
    /\ told = {} /\ got = 0
    /\ overlays = Nothing /\ handlers = {} /\ locators = 0

-----------------------------------------------------------------------------
(* The table and its order *)

Kept(f, S) == [x \in DOMAIN f \cap S |-> f[x]]

Holds(s, S) == \E k \in 1..Len(s) : s[k] \in S
First(s, S) == CHOOSE k \in 1..Len(s) : s[k] \in S /\ \A j \in 1..(k-1) : s[j] \notin S

\* The list without the first place that holds i.
Without(s, i) ==
    IF Holds(s, {i})
    THEN SubSeq(s, 1, First(s, {i}) - 1) \o SubSeq(s, First(s, {i}) + 1, Len(s))
    ELSE s

Touched(i) == Append(Without(order, i), i)

\* evictLRU, called when the table is full: identifiers that are no longer in
\* the table are passed over and dropped.
FullLate == MaxPages > 0 /\ Cardinality(Live) > MaxPages
Full == MaxPages > 0 /\ Cardinality(Live) >= MaxPages
Victim == IF Full /\ Holds(order, Live) THEN {order[First(order, Live)]} ELSE {}
Evicted == {pages[i] : i \in Victim}
OrderLeft ==
    IF ~Full THEN order
    ELSE IF Holds(order, Live) THEN SubSeq(order, First(order, Live) + 1, Len(order))
    ELSE <<>>

-----------------------------------------------------------------------------
(* Steps of session.go *)

\* ensureBrowser. A launch or a context that fails leaves the session as it was.
EnsureBrowser ==
    /\ ~running /\ running' = TRUE
    /\ UNCHANGED <<pages, order, nextID, made, closed, tabs, strays, told, got, overlayVars>>

NewPage ==
    /\ nextID < MaxId
    /\ running' = TRUE
    /\ nextID' = nextID + 1 /\ made' = made + 1
    /\ pages' = [i \in (Live \ Victim) \cup {nextID'} |->
                    IF i = nextID' THEN made' ELSE pages[i]]
    /\ order' = Append(OrderLeft, nextID')
    /\ closed' = closed \cup Evicted
    /\ tabs' = (tabs \ Evicted) \cup {made'}
    /\ told' = told \cup {<<nextID', made'>>} /\ got' = nextID'
    /\ UNCHANGED strays

\* The page that had to make room is gone before Chrome is asked for the new
\* one. When attaching fails, the tab that was made stays open.
NewPageFails ==
    /\ running' = TRUE
    /\ pages' = Kept(pages, Live \ Victim) /\ order' = OrderLeft
    /\ closed' = closed \cup Evicted /\ tabs' = tabs \ Evicted
    /\ strays' \in {strays, strays + 1} \cap 0..MaxStrays
    /\ got' = 0
    /\ UNCHANGED <<nextID, made, told, overlayVars>>

\* Variant: the page is found and not touched.
GetPageUntouched(i) ==
    /\ i \in Live /\ pages[i] \notin closed
    /\ got' = i
    /\ UNCHANGED <<running, pages, order, nextID, made, closed, tabs, strays, told>>

\* getPage and touchPage. The page_id of a request; or, without one, any open
\* page: ensurePage takes the first that ranging over the map gives.
GetPage(i) ==
    /\ i \in Live /\ pages[i] \notin closed
    /\ order' = Touched(i) /\ got' = i
    /\ UNCHANGED <<running, pages, nextID, made, closed, tabs, strays, told>>

\* A request for a page that is not in the table, or is closed.
Missing(i) ==
    /\ i \in Live => pages[i] \in closed
    /\ pages' = Kept(pages, Live \ {i})
    /\ UNCHANGED <<running, order, nextID, made, closed, tabs, strays, told, got, overlayVars>>

PageFromRequest(i) ==
    \/ GetPage(i)
    \/ (\A j \in Live : pages[j] \in closed) /\ NewPage /\ i = nextID'

ListPages ==
    /\ pages' = Kept(pages, {i \in Live : pages[i] \notin closed})
    /\ UNCHANGED <<running, order, nextID, made, closed, tabs, strays, told, got, overlayVars>>

ClosePage(i) ==
    /\ i \in Live
    /\ pages' = Kept(pages, Live \ {i}) /\ order' = Without(order, i)
    /\ closed' = closed \cup {pages[i]} /\ tabs' = tabs \ {pages[i]}
    /\ got' = 0
    /\ UNCHANGED <<running, nextID, made, strays, told, overlayVars>>

\* Variant: numbering starts again with the next browser.
CloseRestarts ==
    /\ running /\ running' = FALSE
    /\ pages' = Nothing /\ overlays' = Nothing
    /\ closed' = closed \cup {pages[i] : i \in Live}
    /\ tabs' = {} /\ strays' = 0 /\ got' = 0 /\ nextID' = 0
    /\ UNCHANGED <<order, made, told, handlers, locators>>

\* Browser.Close closes the context, and that every page of it. s.pageOrder
\* and s.nextID stay.
Close ==
    /\ running /\ running' = FALSE
    /\ pages' = Nothing /\ overlays' = Nothing
    /\ closed' = closed \cup {pages[i] : i \in Live}
    /\ tabs' = {} /\ strays' = 0 /\ got' = 0
    /\ UNCHANGED <<order, nextID, made, told, handlers, locators>>

-----------------------------------------------------------------------------
(* The tools *)

\* A tool that works on a page and changes nothing else of the session.
PageTool == \E i \in Ids : PageFromRequest(i) /\ UNCHANGED overlayVars

AddLocatorHandler(i, s) ==
    /\ locators < MaxLocators
    /\ PageFromRequest(i)
    /\ locators' = locators + 1
    /\ handlers' = handlers \cup {<<pages'[i], locators'>>}
    /\ overlays' = [k \in DOMAIN overlays \cup {<<i, s>>} |->
                       IF k = <<i, s>> THEN locators' ELSE overlays[k]]

\* Variant: the entry of s.overlays stays.
RemoveKeepsEntry(i, s) ==
    /\ <<i, s>> \in DOMAIN overlays
    /\ PageFromRequest(i)
    /\ handlers' = handlers \ {<<pages'[i], overlays[<<i, s>>]>>}
    /\ UNCHANGED <<overlays, locators>>

RemoveLocatorHandler(i, s) ==
    /\ <<i, s>> \in DOMAIN overlays
    /\ PageFromRequest(i)
    /\ handlers' = handlers \ {<<pages'[i], overlays[<<i, s>>]>>}
    /\ overlays' = Kept(overlays, DOMAIN overlays \ {<<i, s>>})
    /\ UNCHANGED locators

\* The user, the page or a crash closes a tab. Nothing tells the session.
TabGone(p) ==
    /\ p \in tabs /\ tabs' = tabs \ {p}
    /\ UNCHANGED <<running, pages, order, nextID, made, closed, strays, told, got, overlayVars>>

Next ==
    \/ EnsureBrowser \/ Close \/ ListPages
    \/ NewPage /\ UNCHANGED overlayVars
    \/ NewPageFails
    \/ PageTool
    \/ \E i \in Ids : Missing(i) \/ ClosePage(i)
    \/ \E i \in Ids, s \in Selectors : AddLocatorHandler(i, s) \/ RemoveLocatorHandler(i, s)
    \/ \E p \in tabs : TabGone(p)

Spec == Init /\ [][Next]_vars

-----------------------------------------------------------------------------
(* Properties *)

\* session.go:36-39 promises a "maximum number of concurrent pages": the tabs
\* that the session has opened and not closed are at most MaxPages, through
\* evictions, pages closed by the client, restarts of the browser and openings
\* that fail half way. Each is in the table, so the client can still name it.
\* (Tabs left by failed openings come on top: strays.)
TabsBounded ==
    /\ tabs \subseteq {pages[i] : i \in Live}
    /\ MaxPages > 0 => Cardinality(Live) <= MaxPages

\* An identifier told to the client means one page for the whole life of the
\* session: after the page was closed or evicted, or the browser closed and
\* started again, a call with it finds that page or none (session.go:171-183).
IdMeansOnePage ==
    /\ \A t, u \in told : t[1] = u[1] => t[2] = u[2]
    /\ \A i \in Live : <<i, pages[i]>> \in told

\* s.overlays is keyed by names (tools_overlay.go:98) and outlives the pages it
\* names; still, an entry that a client can reach leads to a handler that is
\* registered on that very page, so removing it removes one.
HandlerRegistered ==
    \A k \in DOMAIN overlays : k[1] \in Live => <<pages[k[1]], overlays[k]>> \in handlers

\* The map and the list of session.go:146-169, with the identifiers that stay
\* in the list when the browser is closed, behave as one bounded cache in which
\* the least recently used page makes room.
Precedes(s, i, j) == \E a, b \in 1..Len(s) : a < b /\ s[a] = i /\ s[b] = j
Older == {p \in Live \X Live : Precedes(order, p[1], p[2])}
Cache == INSTANCE PageCache WITH live <- Live, older <- Older, Capacity <- MaxPages
ImplementsCache == Cache!Spec
=============================================================================
