----------------------------- MODULE PageCache -----------------------------
(***************************************************************************)
(* What the table of pages of an MCP session promises, without its map and *)
(* its list: a bounded set of pages and the order of their last use, in    *)
(* which room is made at the expense of the page that has not been used    *)
(* for longest. McpSession implements this.                                *)
(***************************************************************************)
EXTENDS Naturals, FiniteSets

CONSTANTS Ids, Capacity     \* Capacity = 0: no limit

VARIABLES
    live, older,    \* the pages; <<i, j>>: i was last used before j
    got             \* the page last used, or 0

vars == <<live, older, got>>

Among(S) == older \cap (S \X S)

IsFull == Capacity > 0 /\ Cardinality(live) >= Capacity
LeastRecent == {i \in live : \A j \in live \ {i} : <<i, j>> \in older}
Room == IF IsFull THEN live \ LeastRecent ELSE live

Init == live = {} /\ older = {} /\ got = 0

Use(i) ==
    /\ i \in live /\ got' = i
    /\ live' = live
    /\ older' = Among(live \ {i}) \cup ((live \ {i}) \X {i})

Open(i) ==
    /\ i \notin live /\ got' = i
    /\ live' = Room \cup {i}
    /\ older' = Among(Room) \cup (Room \X {i})

\* Room was made for a page, and then it could not be opened.
OpenFails == live' = Room /\ older' = Among(Room) /\ got' = 0

ClosePage(i) ==
    /\ i \in live /\ got' = 0
    /\ live' = live \ {i} /\ older' = Among(live \ {i})

CloseAll == live' = {} /\ older' = {} /\ got' = 0

Next ==
    \/ \E i \in Ids : Use(i) \/ Open(i) \/ ClosePage(i)
    \/ OpenFails \/ CloseAll

Spec == Init /\ [][Next]_vars
=============================================================================
