---------------------------- MODULE PagesProofs -------------------------------
(***************************************************************************)
(* Proofs about the pages of a context that is being closed, for every set  *)
(* of pages and popups, and about actions on elements, for any number of    *)
(* nodes and changes of the page.                                           *)
(***************************************************************************)
EXTENDS Contexts, Elements, TLAPS

-----------------------------------------------------------------------------
(* The pages of a context                                                    *)

Listed == {"state", "given", "lost"}

\* A page is claimed for closing by its flag, and only when it has been added.
ClaimsAreFlagged ==
    \A h \in Handles : /\ closePc[h] # "none" => flag[h]
                       /\ flag[h] => making[h[1]] \in Listed

\* Only pages that have been added are in the lists.
ListsHoldPages ==
    \A p \in Tabs : p \in ctxPages \cup toClose => making[p] \in Listed

\* Close takes the list once; what is in it afterwards was added late.
TakenOnce ==
    /\ ~ctxClosed => toClose = {} /\ cpc = "none"
    /\ ctxClosed => cpc # "none" /\ ctxPages \subseteq late

\* Why a tab is gone: it ended by itself, its page was added late or closed, or
\* the context was disposed of before its page was added.
GoneHasCause ==
    \A p \in Tabs : tab[p] = "gone" =>
        \/ p \in late \cup alone
        \/ flag[<<p, "page">>] \/ flag[<<p, "copy">>]
        \/ ctxClosed /\ making[p] \notin Listed

OverIsGone == \A p \in Tabs : closePc[<<p, "page">>] = "over" => tab[p] = "gone"

ContextInv ==
    /\ ContextsTypeOK /\ ClaimsAreFlagged /\ ListsHoldPages /\ TakenOnce
    /\ GivenIsListed /\ NothingOutlives /\ GoneHasCause /\ OverIsGone

-----------------------------------------------------------------------------
\* A handle is a tab and which of its Page values.
LEMMA HandleParts ==
    /\ \A h \in Handles : h = <<h[1], h[2]>> /\ h[1] \in Tabs /\ h[2] \in {"page", "copy"}
    /\ \A p \in Tabs : <<p, "page">> \in Handles /\ <<p, "copy">> \in Handles
                       /\ <<p, "page">>[1] = p /\ <<p, "copy">>[1] = p
                       /\ <<p, "page">>[2] = "page" /\ <<p, "copy">>[2] = "copy"
BY DEF Handles

\* The invariant rules out what FlagTellsTab excludes.
LEMMA ContextInvImplies == ContextInv => ContextPages
BY DEF ContextInv, ContextPages, FlagTellsTab, GoneHasCause, OverIsGone, Listed

\* Nothing is open, listed or flagged at first.
LEMMA ContextInitInv == ContextsInit => ContextInv
<1> SUFFICES ASSUME ContextsInit PROVE ContextInv
  OBVIOUS
<1> USE DEF ContextsInit
<1>1. \A h \in Handles : flag[h] = FALSE /\ closePc[h] = "none"
  BY Zenon
<1>2. \A p \in Tabs : making[p] = "none" /\ tab[p] = "none"
  OBVIOUS
<1>3. ContextsTypeOK
  BY DEF ContextsTypeOK
<1>4. ClaimsAreFlagged
  BY <1>1, Zenon DEF ClaimsAreFlagged
<1>5. ListsHoldPages /\ TakenOnce
  BY DEF ListsHoldPages, TakenOnce
<1>6. GivenIsListed /\ OverIsGone
  BY <1>1, <1>2, HandleParts DEF GivenIsListed, OverIsGone
<1>7. NothingOutlives /\ GoneHasCause
  BY <1>2 DEF NothingOutlives, GoneHasCause
<1> QED BY <1>3, <1>4, <1>5, <1>6, <1>7 DEF ContextInv

\* The variables keep their types.
LEMMA ContextTypeInductive == ContextsTypeOK /\ [ContextsNext]_ctxVars => ContextsTypeOK'
<1> SUFFICES ASSUME ContextsTypeOK, [ContextsNext]_ctxVars PROVE ContextsTypeOK'
  OBVIOUS
<1> USE HandleParts DEF ContextsTypeOK, Made, closeVars
<1>1. ASSUME NEW p \in Tabs, CreateTarget(p) \/ PopupOpens(p) PROVE ContextsTypeOK'
  BY <1>1 DEF CreateTarget, PopupOpens
<1>2. ASSUME NEW p \in Tabs, AttachToTarget(p) \/ AddPage(p) \/ StateLoaded(p)
      PROVE ContextsTypeOK'
  BY <1>2 DEF AttachToTarget, AddPage, StateLoaded
<1>3. ASSUME NEW p \in Tabs, TabCloses(p) \/ EachClosed(p) PROVE ContextsTypeOK'
  BY <1>3 DEF TabCloses, EachClosed
<1>4. ASSUME NEW p \in Tabs, CloseEach(p) PROVE ContextsTypeOK'
  <2>1. /\ flag' \in [Handles -> BOOLEAN]
        /\ closePc' \in [Handles -> {"none", "remove", "tab", "over"}]
    <3>1. CASE UNCHANGED <<flag, closePc, closing>>
      BY <3>1
    <3>2. CASE ClaimPage(<<p, "page">>)
      BY <3>2 DEF ClaimPage
    <3> QED BY <1>4, <3>1, <3>2 DEF CloseEach
  <2>2. closing' \subseteq Tabs
    <3>1. closing' = closing \/ closing' = {p}
      BY <1>4, Zenon DEF CloseEach
    <3> QED BY <3>1
  <2> QED BY <1>4, <2>1, <2>2 DEF CloseEach
<1>5. ASSUME NEW h \in Handles, ClosePage(h) PROVE ContextsTypeOK'
  BY <1>5 DEF ClosePage, ClaimPage
<1>6. ASSUME NEW h \in Handles, RemovePage(h) \/ CloseTarget(h) PROVE ContextsTypeOK'
  BY <1>6 DEF RemovePage, CloseTarget
<1>7. CASE TakePages \/ Dispose
  <2>1. CASE TakePages
    <3>1. ctxClosed' \in BOOLEAN
      BY <2>1, Zenon DEF TakePages
    <3> QED BY <2>1, <3>1 DEF TakePages
  <2>2. CASE Dispose
    <3>1. tab' \in [Tabs -> {"none", "open", "gone"}]
      BY <2>2 DEF Dispose
    <3> QED BY <2>2, <3>1 DEF Dispose
  <2> QED BY <1>7, <2>1, <2>2
<1>8. CASE UNCHANGED ctxVars
  BY <1>8 DEF ctxVars
<1> QED BY <1>1, <1>2, <1>3, <1>4, <1>5, <1>6, <1>7, <1>8 DEF ContextsNext

Inv2 == /\ ClaimsAreFlagged /\ ListsHoldPages /\ TakenOnce
        /\ GivenIsListed /\ NothingOutlives /\ GoneHasCause /\ OverIsGone

\* No step of any goroutine breaks the invariant.
LEMMA ContextStepKeeps == ContextInv /\ [ContextsNext]_ctxVars => Inv2'
<1> SUFFICES ASSUME ContextInv, [ContextsNext]_ctxVars PROVE Inv2'
  OBVIOUS
<1>0. ContextsTypeOK'
  BY ContextTypeInductive DEF ContextInv
<1> USE HandleParts DEF ContextInv, Inv2, ContextsTypeOK, Made, closeVars, ClaimsAreFlagged,
        ListsHoldPages, TakenOnce, GivenIsListed, NothingOutlives, GoneHasCause, OverIsGone, Listed
<1>1. ASSUME NEW p \in Tabs, CreateTarget(p) \/ PopupOpens(p) PROVE Inv2'
  <2>8. /\ making[p] = "none" /\ making' = [making EXCEPT ![p] = "attach"]
        /\ tab' = [tab EXCEPT ![p] = "open"]
        /\ UNCHANGED <<flag, closePc, ctxPages, ctxClosed, cpc, toClose, late, alone>>
    BY <1>1 DEF CreateTarget, PopupOpens
  <2>9. cpc # "done"
    <3>1. CASE CreateTarget(p)
      BY <3>1 DEF CreateTarget
    <3>2. CASE PopupOpens(p)
      BY <3>2 DEF PopupOpens, Tabs
    <3> QED BY <1>1, <3>1, <3>2
  <2>10. ~flag[<<p, "page">>] /\ closePc[<<p, "page">>] = "none"
    BY <2>8, Zenon
  <2>1. ClaimsAreFlagged'
    BY <2>8, <2>9, <2>10
  <2>2. ListsHoldPages'
    BY <2>8, <2>9, <2>10
  <2>3. TakenOnce'
    BY <2>8, <2>9, <2>10
  <2>4. GivenIsListed'
    BY <2>8, <2>9, <2>10
  <2>5. NothingOutlives'
    BY <2>8, <2>9, <2>10
  <2>6. GoneHasCause'
    BY <2>8, <2>9, <2>10
  <2>7. OverIsGone'
    BY <2>8, <2>9, <2>10
  <2> QED BY <2>1, <2>2, <2>3, <2>4, <2>5, <2>6, <2>7
<1>2. ASSUME NEW p \in Tabs, AttachToTarget(p) PROVE Inv2'
  BY <1>2 DEF AttachToTarget
<1>3. ASSUME NEW p \in Tabs, AddPage(p) PROVE Inv2'
  <2>8. PICK l \in Listed : making[p] = "add" /\ making' = [making EXCEPT ![p] = l]
    BY <1>3 DEF AddPage
  <2>9. /\ ctxPages' = ctxPages \cup {p}
        /\ late' = IF ctxClosed THEN late \cup {p} ELSE late
        /\ UNCHANGED <<tab, flag, closePc, ctxClosed, cpc, toClose, alone>>
    BY <1>3 DEF AddPage
  <2>10. ~flag[<<p, "page">>] /\ closePc[<<p, "page">>] = "none"
    BY <2>8, Zenon
  <2>1. ClaimsAreFlagged'
    BY <2>8, <2>9, <2>10
  <2>2. ListsHoldPages'
    BY <2>8, <2>9, <2>10
  <2>3. TakenOnce'
    BY <2>8, <2>9, <2>10
  <2>4. GivenIsListed'
    <3>1. ASSUME NEW q \in Tabs
          PROVE (making'[q] \in Listed /\ ~flag'[<<q, "page">>] => q \in ctxPages' \cup toClose')
                /\ (closePc'[<<q, "page">>] \in {"tab", "over"} => q \notin ctxPages')
      <4>1. CASE q = p
        BY <2>9, <2>10, <4>1
      <4>2. CASE q # p
        BY <2>8, <2>9, <4>2
      <4> QED BY <4>1, <4>2
    <3> QED BY <3>1
  <2>5. NothingOutlives'
    BY <2>8, <2>9, <2>10
  <2>6. GoneHasCause'
    BY <2>8, <2>9, <2>10
  <2>7. OverIsGone'
    BY <2>8, <2>9, <2>10
  <2> QED BY <2>1, <2>2, <2>3, <2>4, <2>5, <2>6, <2>7
<1>4. ASSUME NEW p \in Tabs, StateLoaded(p) PROVE Inv2'
  <2>8. PICK l \in Listed : making[p] = "state" /\ making' = [making EXCEPT ![p] = l]
    BY <1>4 DEF StateLoaded
  <2>9. UNCHANGED <<tab, flag, closePc, ctxPages, ctxClosed, cpc, toClose, late, alone>>
    BY <1>4 DEF StateLoaded
  <2>1. ClaimsAreFlagged'
    BY <2>8, <2>9
  <2>2. ListsHoldPages'
    BY <2>8, <2>9
  <2>3. TakenOnce'
    BY <2>8, <2>9
  <2>4. GivenIsListed'
    BY <2>8, <2>9
  <2>5. NothingOutlives'
    BY <2>8, <2>9
  <2>6. GoneHasCause'
    BY <2>8, <2>9
  <2>7. OverIsGone'
    BY <2>8, <2>9
  <2> QED BY <2>1, <2>2, <2>3, <2>4, <2>5, <2>6, <2>7
<1>5. ASSUME NEW p \in Tabs, TabCloses(p) \/ EachClosed(p) PROVE Inv2'
  BY <1>5 DEF TabCloses, EachClosed
<1>6. ASSUME NEW p \in Tabs, CloseEach(p) PROVE Inv2'
  <2>8. /\ p \in toClose /\ toClose' = toClose \ {p}
        /\ UNCHANGED <<making, tab, ctxPages, ctxClosed, cpc, late, alone>>
    BY <1>6 DEF CloseEach
  <2>9. CASE flag[<<p, "page">>] /\ UNCHANGED <<flag, closePc>>
    BY <2>8, <2>9
  <2>10. CASE ClaimPage(<<p, "page">>)
    <3>1. ClaimsAreFlagged'
      BY <2>8, <2>10 DEF ClaimPage
    <3>2. ListsHoldPages'
      BY <2>8, <2>10 DEF ClaimPage
    <3>3. TakenOnce'
      BY <2>8, <2>10 DEF ClaimPage
    <3>4. GivenIsListed'
      <4>1. ASSUME NEW q \in Tabs
            PROVE (making'[q] \in Listed /\ ~flag'[<<q, "page">>] => q \in ctxPages' \cup toClose')
                  /\ (closePc'[<<q, "page">>] \in {"tab", "over"} => q \notin ctxPages')
        <5>1. CASE q = p
          <6>1. flag'[<<q, "page">>] /\ closePc'[<<q, "page">>] = "remove"
            BY <2>10, <5>1, <<p, "page">> \in Handles DEF ClaimPage
          <6> QED BY <6>1
        <5>2. CASE q # p
          <6>1. /\ flag'[<<q, "page">>] = flag[<<q, "page">>]
                /\ closePc'[<<q, "page">>] = closePc[<<q, "page">>]
            BY <2>10, <5>2 DEF ClaimPage
          <6> QED BY <2>8, <5>2, <6>1
        <5> QED BY <5>1, <5>2
      <4> QED BY <4>1
    <3>5. NothingOutlives'
      BY <2>8, <2>10 DEF ClaimPage
    <3>6. GoneHasCause'
      BY <2>8, <2>10 DEF ClaimPage
    <3>7. OverIsGone'
      BY <2>8, <2>10 DEF ClaimPage
    <3> QED BY <3>1, <3>2, <3>3, <3>4, <3>5, <3>6, <3>7
  <2> QED BY <1>6, <2>9, <2>10 DEF CloseEach
<1>7. ASSUME NEW h \in Handles, ClosePage(h) PROVE Inv2'
  BY <1>7 DEF ClosePage, ClaimPage, InHand
<1>8. ASSUME NEW h \in Handles, RemovePage(h) PROVE Inv2'
  BY <1>8 DEF RemovePage
<1>9. ASSUME NEW h \in Handles, CloseTarget(h) PROVE Inv2'
  BY <1>9 DEF CloseTarget
<1>10. CASE TakePages
  BY <1>10 DEF TakePages
<1>11. CASE Dispose
  BY <1>11 DEF Dispose
<1>12. CASE UNCHANGED ctxVars
  BY <1>12 DEF ctxVars
<1> QED BY <1>1, <1>2, <1>3, <1>4, <1>5, <1>6, <1>7, <1>8, <1>9, <1>10, <1>11, <1>12
          DEF ContextsNext

-----------------------------------------------------------------------------
\* The invariant that the statement about pages and contexts rests on.
THEOREM ContextInvariant == ContextsSpec => []ContextInv
<1>1. ContextInv /\ [ContextsNext]_ctxVars => ContextInv'
  BY ContextTypeInductive, ContextStepKeeps DEF ContextInv, Inv2
<1> QED BY ContextInitInv, <1>1, PTL DEF ContextsSpec

\* Whoever opens, copies, closes and attaches pages while their context is being
\* closed: no page is out of Close's sight, no tab outlives a context that was
\* disposed of, and a page's flag tells whether its tab is gone, but for the causes
\* FlagTellsTab names.
THEOREM PagesOfContext == ContextsSpec => []ContextPages
BY ContextInvariant, ContextInvImplies, PTL

-----------------------------------------------------------------------------
(* Actions on elements                                                       *)

\* Which steps belong to which action, and what has been found by then.
InPlace ==
    /\ epc = "read" => act = "check"
    /\ epc \in {"see", "scroll", "box", "press"} => act # "fill"
    /\ epc \in {"focus", "select", "insert"} => act = "fill"
    /\ epc = "resolve" => held = NoNode /\ seen = NoNode /\ relooked = FALSE /\ try = "first"
    /\ epc \in Steps \cup {"press", "insert", "ok"} => held # NoNode

\* No node on the page is one that a navigation has ended.
PageIsFresh ==
    /\ lost \subseteq 1..used /\ held \in (1..used) \cup {NoNode}
    /\ \A i \in 1..Len(dom) : dom[i] \in 1..used /\ dom[i] \notin lost

\* On a page that has been still the element is the match that was looked up.
Match == IF relooked = TRUE THEN 1 ELSE Index
HeldIsMatch == steady = TRUE => Match \in 1..Len(dom) /\ held = dom[Match]

\* An element is looked up again only when its node is lost, so that what the wait
\* saw before is not taken for the new node.
SeenIsHeld ==
    /\ try = "query" /\ epc \in Steps => held \in lost
    /\ seen \in {NoNode, held} \cup lost
    /\ steady = TRUE /\ seen = held => held \notin hidden

\* The last step of Fill finds the focus where it was put, that of Click the node in
\* the place that was asked for, that of Check the box as it was read.
ReadyToAct ==
    /\ epc = "insert" /\ steady = TRUE /\ held \notin hidden \cup barred => focused = held
    /\ epc = "press" /\ steady = TRUE => box = held
    /\ act = "check" /\ steady = TRUE /\ relooked = FALSE /\ epc \in {"see", "scroll", "box", "press"} =>
          held \notin ticked

\* What has been done when the action is over.
HasActed ==
    /\ epc = "ok" /\ steady = TRUE =>
        /\ act = "click" /\ seen = held /\ held \notin barred => landed = held
        /\ act = "fill" /\ held \notin hidden \cup barred => landed = held
        /\ act = "check" /\ relooked = FALSE /\ held \notin hidden \cup barred => held \in ticked
    /\ epc = "error" /\ held # NoNode /\ kind # "js" => steady = FALSE

ElementsInv ==
    /\ ElementsTypeOK
    /\ InPlace /\ PageIsFresh /\ HeldIsMatch /\ SeenIsHeld /\ ReadyToAct /\ HasActed

-----------------------------------------------------------------------------
\* The invariant implies what the action promises.
LEMMA ElementInvImplies == ElementsInv => ElementActs
<1> SUFFICES ASSUME ElementsInv PROVE ElementActs
  OBVIOUS
<1>1. steady \in BOOLEAN /\ relooked \in BOOLEAN
  BY DEF ElementsInv, ElementsTypeOK
<1>2. (IF relooked THEN 1 ELSE Index) = Match
  BY <1>1 DEF Match
<1>3. epc = "ok" /\ steady => held = dom[IF relooked THEN 1 ELSE Index]
  BY <1>1, <1>2 DEF ElementsInv, HeldIsMatch
<1>4. epc = "ok" /\ steady =>
        /\ act = "click" /\ seen = held /\ held \notin barred => landed = held
        /\ act = "fill" /\ held \notin hidden \cup barred => landed = held
        /\ act = "check" /\ ~relooked /\ held \notin hidden \cup barred => held \in ticked
  BY <1>1 DEF ElementsInv, HasActed
<1>5. epc = "error" /\ held # NoNode /\ kind # "js" => ~steady
  BY <1>1 DEF ElementsInv, HasActed
<1> QED BY <1>3, <1>4, <1>5 DEF ElementActs

\* A function on 1..n is a sequence of length n.
LEMMA FunctionIsSequence ==
    ASSUME NEW n \in Nat, NEW S, NEW f \in [1..n -> S]
    PROVE  f \in Seq(S) /\ Len(f) = n
OBVIOUS

\* The element is not looked up yet.
LEMMA ElementInitInv == ElementsInit => ElementsInv
<1> SUFFICES ASSUME ElementsInit PROVE ElementsInv
  OBVIOUS
<1> USE ElementsAssumption DEF ElementsInit
<1>1. held = NoNode /\ seen = NoNode /\ box = NoNode /\ landed = NoNode /\ focused = NoNode /\ lost = {} /\ epc = "resolve"
      /\ steady = FALSE /\ relooked = FALSE /\ try = "first"
  OBVIOUS
<1>2. dom \in Seq(Nodes) /\ Len(dom) \in 0..2 /\ used = Len(dom) /\ \A i \in 1..Len(dom) : dom[i] \in 1..used
  <2>a. 1 \in Nodes /\ 2 \in Nodes
    BY DEF Nodes
  <2>1. CASE dom = <<>>
    BY <2>1
  <2>2. CASE dom = <<1>>
    <3>1. dom \in Seq(Nodes) /\ Len(dom) = 1 /\ dom[1] = 1
      BY <2>2, <2>a
    <3> QED BY <3>1
  <2>3. CASE dom = <<1, 2>>
    <3>1. dom \in Seq(Nodes) /\ Len(dom) = 2 /\ dom[1] = 1 /\ dom[2] = 2
      BY <2>3, <2>a
    <3> QED BY <3>1
  <2> QED BY <2>1, <2>2, <2>3
<1>3. ElementsTypeOK
  <2>1. used \in 0..MaxNodes /\ changes \in 0..MaxChanges
    BY <1>2
  <2>2. hidden \subseteq Nodes /\ barred \subseteq Nodes /\ lost \subseteq Nodes /\ ticked \subseteq Nodes
    BY <1>2 DEF Nodes
  <2> QED BY <1>1, <1>2, <2>1, <2>2 DEF ElementsTypeOK
<1>4. InPlace
  BY <1>1 DEF InPlace, Steps
<1>5. PageIsFresh
  BY <1>1, <1>2 DEF PageIsFresh
<1>6. HeldIsMatch /\ SeenIsHeld /\ ReadyToAct /\ HasActed
  BY <1>1 DEF HeldIsMatch, SeenIsHeld, ReadyToAct, HasActed
<1> QED BY <1>3, <1>4, <1>5, <1>6 DEF ElementsInv

-----------------------------------------------------------------------------
\* A change of the page leaves the action where it is and ends its stillness.
Moved ==
    /\ steady' = FALSE
    /\ changes' \in 0..MaxChanges
    /\ epc \notin {"ok", "timeout", "stale", "error"}
    /\ UNCHANGED <<act, kind, epc, try, held, seen, landed, relooked>>
    /\ box' = NoNode

\* Every change of the page is such a move.
LEMMA ChangesMoved == ElementsTypeOK /\ Changes => Moved
BY ElementsAssumption DEF ElementsTypeOK, Changes, Moved, Over

\* After it the invariant holds if what is said of the page alone does.
LEMMA MovedKeeps ==
    ASSUME ElementsInv, Moved, PageIsFresh', lost \subseteq lost',
           dom' \in Seq(Nodes), hidden' \subseteq Nodes, barred' \subseteq Nodes, lost' \subseteq Nodes, ticked' \subseteq Nodes,
           focused' \in Nodes \cup {NoNode}, used' \in 0..MaxNodes
    PROVE  ElementsInv'
<1> USE DEF Moved
<1>1. ElementsTypeOK'
  BY DEF ElementsInv, ElementsTypeOK
<1>2. InPlace'
  BY DEF ElementsInv, InPlace, Steps
<1>3. HeldIsMatch' /\ ReadyToAct' /\ HasActed'
  BY DEF HeldIsMatch, ReadyToAct, HasActed
<1>4. SeenIsHeld'
  BY DEF ElementsInv, SeenIsHeld, Steps
<1> QED BY <1>1, <1>2, <1>3, <1>4 DEF ElementsInv

\* A call on the node that is held, answered, and the place it leads to.
LEMMA CalledKeeps ==
    ASSUME ElementsInv, NEW from, NEW to, Called(from, to), from \in Steps, ticked' = ticked,
           to \in (Steps \ {"read"}) \cup {"press", "insert", "ok"},
           from \in {"read", "see", "scroll", "box"} => to \in {"see", "scroll", "box", "press", "ok"},
           from \in {"focus", "select"} => to \in {"select", "insert"},
           to = "ok" => act = "check" /\ held \in ticked,
           from = "read" /\ to # "ok" => held \notin ticked,
           focused' \in Nodes \cup {NoNode},
           to = "insert" /\ steady = TRUE /\ held \notin hidden \cup barred => focused' = held,
           box' \in Nodes \cup {NoNode}, to = "press" /\ steady = TRUE => box' = held,
           seen' \in {seen, held}, seen' = held /\ steady = TRUE => held \notin hidden
    PROVE  ElementsInv'
<1> USE DEF Called
<1>1. ElementsTypeOK'
  BY DEF ElementsInv, ElementsTypeOK, Steps
<1>2. InPlace'
  BY DEF ElementsInv, InPlace, Steps
<1>3. PageIsFresh'
  BY DEF ElementsInv, PageIsFresh
<1>4. HeldIsMatch'
  BY DEF ElementsInv, HeldIsMatch, Match, Index
<1>5. SeenIsHeld'
  BY DEF ElementsInv, SeenIsHeld
<1>6. ReadyToAct'
  BY DEF ElementsInv, ReadyToAct, InPlace, Steps
<1>7. HasActed'
  BY DEF ElementsInv, HasActed, Steps
<1> QED BY <1>1, <1>2, <1>3, <1>4, <1>5, <1>6, <1>7 DEF ElementsInv

-----------------------------------------------------------------------------
\* No step of the page or of the action breaks the invariant.
LEMMA ElementStepKeeps == ElementsInv /\ [ElementsNext]_elementVars => ElementsInv'
<1> SUFFICES ASSUME ElementsInv, [ElementsNext]_elementVars PROVE ElementsInv'
  OBVIOUS
<1> USE ElementsAssumption
<1>t. ElementsTypeOK /\ InPlace /\ PageIsFresh /\ HeldIsMatch /\ SeenIsHeld /\ ReadyToAct /\ HasActed
  BY DEF ElementsInv
<1>1. CASE Attach
  <2>1. Moved /\ used' = used + 1 /\ used' \in 1..MaxNodes /\ lost' = lost /\ focused' = focused /\ ticked' = ticked
    BY <1>1, <1>t, ChangesMoved DEF Attach, ElementsTypeOK
  <2>2. dom \in Seq(Nodes) /\ used' \in Nodes /\ lost \subseteq 1..used
    BY <2>1, <1>t DEF ElementsTypeOK, PageIsFresh, Nodes
  <2>3. dom' \in Seq(Nodes) /\ \A i \in 1..Len(dom') : dom'[i] = used' \/ \E j \in 1..Len(dom) : dom'[i] = dom[j]
    <3>1. CASE dom' = <<used'>> \o dom
      <4>1. dom' \in Seq(Nodes) /\ Len(dom') = 1 + Len(dom) /\ Len(dom) \in Nat
        BY <3>1, <2>2
      <4>2. \A i \in 1..Len(dom') : dom'[i] = IF i = 1 THEN used' ELSE dom[i - 1]
        BY <3>1, <2>2
      <4>3. \A i \in 1..Len(dom') : i = 1 \/ i - 1 \in 1..Len(dom)
        BY <4>1
      <4> QED BY <4>1, <4>2, <4>3
    <3>2. CASE dom' = Append(dom, used')
      BY <3>2, <2>2
    <3> QED BY <1>1, <3>1, <3>2 DEF Attach
  <2>4. PageIsFresh'
    <3>1. lost' \subseteq 1..used' /\ held' \in (1..used') \cup {NoNode} /\ 1..used \subseteq 1..used'
      BY <2>1, <2>2, <1>t DEF PageIsFresh, Moved, ElementsTypeOK
    <3>2. used' \in 1..used' /\ used' \notin lost'
      BY <2>1, <2>2, <1>t DEF ElementsTypeOK
    <3>3. \A i \in 1..Len(dom') : dom'[i] \in 1..used' /\ dom'[i] \notin lost'
      BY <2>1, <2>3, <3>1, <3>2, <1>t DEF PageIsFresh
    <3> QED BY <3>1, <3>3 DEF PageIsFresh
  <2>5. hidden' \subseteq Nodes /\ barred' \subseteq Nodes
    BY <1>1, <2>2, <1>t DEF Attach, ElementsTypeOK
  <2> QED BY <2>1, <2>3, <2>4, <2>5, <1>t, MovedKeeps DEF ElementsTypeOK
<1>2. CASE Navigate
  <2>1. Moved /\ lost' = 1..used /\ focused' = NoNode /\ ticked' = ticked
    BY <1>2, <1>t, ChangesMoved DEF Navigate
  <2>2. PICK k \in 0..2 : used + k <= MaxNodes /\ used' = used + k /\ dom' = [i \in 1..k |-> used + i]
    BY <1>2 DEF Navigate
  <2>3. used \in Nat /\ used' \in 0..MaxNodes
    BY <2>2, <1>t DEF ElementsTypeOK
  <2>4. dom' \in [1..k -> Nodes]
    BY <2>2, <2>3 DEF Nodes
  <2>5. dom' \in Seq(Nodes) /\ Len(dom') = k
    BY <2>4, FunctionIsSequence
  <2>6. PageIsFresh'
    BY <2>1, <2>2, <2>3, <2>5, <1>t DEF PageIsFresh, Moved
  <2>7. hidden' \subseteq Nodes /\ barred' \subseteq Nodes /\ lost' \subseteq Nodes /\ lost \subseteq lost'
    BY <1>2, <2>1, <2>2, <2>3, <1>t DEF Navigate, ElementsTypeOK, Nodes, PageIsFresh
  <2> QED BY <2>1, <2>3, <2>5, <2>6, <2>7, <1>t, MovedKeeps DEF ElementsTypeOK
<1>3. CASE MoveFocus
  <2>1. Moved /\ UNCHANGED <<dom, hidden, barred, lost, used, ticked>>
    BY <1>3, <1>t, ChangesMoved DEF MoveFocus
  <2>2. focused' \in Nodes \cup {NoNode}
    BY <1>3, <1>t DEF MoveFocus, ElementsTypeOK
  <2> QED BY <2>1, <2>2, <1>t, MovedKeeps DEF ElementsTypeOK, PageIsFresh, Moved
<1>4. ASSUME NEW i \in 1..Len(dom), Detach(i) PROVE ElementsInv'
  <2>1. Moved /\ UNCHANGED <<hidden, barred, lost, used, ticked>>
    BY <1>4, <1>t, ChangesMoved DEF Detach
  <2>2. dom \in Seq(Nodes) /\ Len(dom) \in Nat \ {0}
    BY <1>t DEF ElementsTypeOK
  <2>3. dom' = [j \in 1..(Len(dom) - 1) |-> dom[IF j < i THEN j ELSE j + 1]]
    BY <1>4 DEF Detach
  <2>4. \A j \in 1..(Len(dom) - 1) : dom'[j] \in Nodes /\ \E l \in 1..Len(dom) : dom'[j] = dom[l]
    BY <2>2, <2>3
  <2>5. dom' \in [1..(Len(dom) - 1) -> Nodes]
    BY <2>3, <2>4
  <2>6. dom' \in Seq(Nodes) /\ Len(dom') = Len(dom) - 1
    BY <2>2, <2>5, FunctionIsSequence
  <2>7. PageIsFresh'
    BY <2>1, <2>4, <2>6, <1>t DEF PageIsFresh, Moved
  <2>8. focused' \in Nodes \cup {NoNode}
    BY <1>4, <1>t DEF Detach, ElementsTypeOK
  <2> QED BY <2>1, <2>6, <2>7, <2>8, <1>t, MovedKeeps DEF ElementsTypeOK
<1>5. ASSUME NEW i \in 1..Len(dom), Restyle(dom[i]) PROVE ElementsInv'
  <2>1. Moved /\ UNCHANGED <<dom, lost, focused, used, ticked>>
    BY <1>5, <1>t, ChangesMoved DEF Restyle
  <2>2. hidden' \subseteq Nodes /\ barred' \subseteq Nodes
    BY <1>5, <1>t DEF Restyle, ElementsTypeOK
  <2> QED BY <2>1, <2>2, <1>t, MovedKeeps DEF ElementsTypeOK, PageIsFresh, Moved
<1>6. ASSUME NEW i \in 1..Len(dom), Tick(dom[i]) PROVE ElementsInv'
  <2>1. Moved /\ UNCHANGED <<dom, hidden, barred, lost, focused, used>>
    BY <1>6, <1>t, ChangesMoved DEF Tick, pageVars
  <2>2. ticked' \subseteq Nodes
    BY <1>6, <1>t DEF Tick, ElementsTypeOK
  <2> QED BY <2>1, <2>2, <1>t, MovedKeeps DEF ElementsTypeOK, PageIsFresh, Moved
<1>7. CASE Resolve
  <2>1. /\ Index \in 1..Len(dom) /\ held' = dom[Index] /\ held' \in Nodes /\ held' # NoNode /\ held' \in 1..used
        /\ relooked = FALSE /\ seen = NoNode /\ epc' \in {"see", "focus", "read"} /\ steady' = TRUE
        /\ UNCHANGED <<dom, hidden, barred, lost, focused, used, ticked, changes, act, kind, try, seen,
                       box, landed, relooked>>
    <3>1. Index \in 1..Len(dom) /\ dom \in Seq(Nodes)
      BY <1>7, <1>t DEF Resolve, Index, ElementsTypeOK
    <3>2. held' = dom[Index] /\ held' \in Nodes /\ held' # NoNode /\ held' \in 1..used
      BY <1>7, <3>1, <1>t DEF Resolve, PageIsFresh, Nodes
    <3>3. epc' \in {"see", "focus", "read"}
      BY <1>7, <1>t DEF Resolve, FirstStep, ElementsTypeOK
    <3>4. relooked = FALSE /\ seen = NoNode
      BY <1>7, <1>t DEF Resolve, InPlace
    <3> QED BY <1>7, <3>1, <3>2, <3>3, <3>4 DEF Resolve, pageVars
  <2>2. ElementsTypeOK'
    BY <2>1, <1>t DEF ElementsTypeOK, Steps
  <2>3. InPlace'
    BY <1>7, <2>1, <1>t DEF InPlace, Steps, Resolve, FirstStep, ElementsTypeOK
  <2>4. PageIsFresh'
    BY <2>1, <1>t DEF PageIsFresh
  <2>5. HeldIsMatch'
    BY <2>1 DEF HeldIsMatch, Match, Index
  <2>6. SeenIsHeld'
    <3>1. try # "query"
      BY <1>7, <1>t DEF Resolve, InPlace
    <3> QED BY <2>1, <3>1 DEF SeenIsHeld
  <2>7. ReadyToAct' /\ HasActed'
    BY <1>7, <2>1 DEF ReadyToAct, HasActed, Resolve, FirstStep
  <2> QED BY <2>2, <2>3, <2>4, <2>5, <2>6, <2>7 DEF ElementsInv
<1>8. CASE NotResolved
  <2>1. /\ epc = "resolve" /\ epc' \in {"timeout", "error"}
        /\ UNCHANGED <<dom, hidden, barred, lost, focused, used, ticked, changes, act, kind, try, held,
                       seen, box, landed,
                       relooked, steady>>
    BY <1>8 DEF NotResolved, pageVars
  <2>2. ElementsTypeOK'
    BY <2>1, <1>t DEF ElementsTypeOK
  <2>3. InPlace' /\ HasActed'
    BY <2>1, <1>t DEF InPlace, HasActed, Steps
  <2>4. PageIsFresh' /\ HeldIsMatch'
    BY <2>1, <1>t DEF PageIsFresh, HeldIsMatch, Match, Index
  <2>5. SeenIsHeld' /\ ReadyToAct'
    BY <2>1, <1>t DEF SeenIsHeld, ReadyToAct, Steps
  <2> QED BY <2>2, <2>3, <2>4, <2>5 DEF ElementsInv
<1>9. CASE NodeLost
  <2>1. /\ epc \in Steps /\ held \in lost /\ try # "query"
        /\ \/ try = "first" /\ kind # "js" /\ try' = "query" /\ epc' = epc
           \/ epc' = "error" /\ try' = try
        /\ UNCHANGED <<dom, hidden, barred, lost, focused, used, ticked, changes, act, kind, held,
                       seen, box, landed,
                       relooked, steady>>
    BY <1>9 DEF NodeLost, pageVars
  <2>2. steady = FALSE
    BY <2>1, <1>t DEF HeldIsMatch, PageIsFresh, ElementsTypeOK
  <2>3. ElementsTypeOK'
    BY <2>1, <1>t DEF ElementsTypeOK
  <2>4. InPlace'
    BY <2>1, <1>t DEF InPlace, Steps
  <2>5. PageIsFresh'
    BY <2>1, <1>t DEF PageIsFresh
  <2>6. HeldIsMatch' /\ ReadyToAct' /\ HasActed'
    BY <2>1, <2>2 DEF HeldIsMatch, ReadyToAct, HasActed
  <2>7. SeenIsHeld'
    BY <2>1, <2>2, <1>t DEF SeenIsHeld
  <2> QED BY <2>3, <2>4, <2>5, <2>6, <2>7 DEF ElementsInv
<1>10. CASE ReResolve
  <2>1. epc \in Steps /\ try = "query" /\ held \in lost
    BY <1>10, <1>t DEF ReResolve, SeenIsHeld
  <2>2. UNCHANGED <<dom, hidden, barred, lost, focused, used, ticked, changes, act, kind, seen, box, landed>>
    BY <1>10 DEF ReResolve, pageVars
  <2>3. CASE epc' = "stale" /\ UNCHANGED <<held, try, relooked, steady>>
    <3>1. ElementsTypeOK'
      BY <2>2, <2>3, <1>t DEF ElementsTypeOK
    <3>2. InPlace' /\ PageIsFresh'
      BY <2>2, <2>3, <1>t DEF InPlace, PageIsFresh, Steps
    <3>3. HeldIsMatch' /\ SeenIsHeld'
      BY <2>2, <2>3, <1>t DEF HeldIsMatch, SeenIsHeld, Match, Index, Steps
    <3>4. ReadyToAct' /\ HasActed'
      BY <2>2, <2>3 DEF ReadyToAct, HasActed
    <3> QED BY <3>1, <3>2, <3>3, <3>4 DEF ElementsInv
  <2>4. CASE dom # <<>> /\ held' = dom[1] /\ try' = "retry" /\ relooked' = TRUE /\ steady' = TRUE /\ epc' = epc
    <3>1. 1 \in 1..Len(dom) /\ held' \in Nodes /\ held' \in 1..used /\ held' \notin lost /\ held' # NoNode
      BY <2>4, <1>t DEF ElementsTypeOK, PageIsFresh, Nodes
    <3>2. seen # held'
      BY <2>1, <3>1, <1>t DEF SeenIsHeld
    <3>3. ElementsTypeOK'
      BY <2>2, <2>4, <3>1, <1>t DEF ElementsTypeOK
    <3>4. InPlace'
      BY <2>1, <2>2, <2>4, <3>1, <1>t DEF InPlace, Steps
    <3>5. PageIsFresh' /\ HeldIsMatch'
      BY <2>2, <2>4, <3>1, <1>t DEF PageIsFresh, HeldIsMatch, Match
    <3>6. SeenIsHeld'
      BY <2>1, <2>2, <2>4, <3>2, <1>t DEF SeenIsHeld
    <3>7. ReadyToAct' /\ HasActed'
      BY <2>1, <2>2, <2>4 DEF ReadyToAct, HasActed, Steps
    <3> QED BY <3>3, <3>4, <3>5, <3>6, <3>7 DEF ElementsInv
  <2> QED BY <1>10, <2>3, <2>4 DEF ReResolve
<1>11. CASE ReadTick
  <2>1. /\ Called("read", IF held \in ticked THEN "ok" ELSE "see") /\ epc = "read"
        /\ ticked' = ticked /\ focused' = focused /\ seen' = seen /\ box' = box
    BY <1>11 DEF ReadTick, Called
  <2>2. focused' \in Nodes \cup {NoNode} /\ box' \in Nodes \cup {NoNode} /\ act = "check"
    BY <2>1, <1>t DEF ElementsTypeOK, InPlace
  <2>3. seen' = held /\ steady = TRUE => held \notin hidden
    BY <2>1, <1>t DEF SeenIsHeld
  <2>4. CASE held \in ticked
    <3>1. Called("read", "ok")
      BY <2>1, <2>4
    <3> QED BY <2>1, <2>2, <2>3, <2>4, <3>1, CalledKeeps DEF Steps
  <2>5. CASE held \notin ticked
    <3>1. Called("read", "see")
      BY <2>1, <2>5
    <3> QED BY <2>1, <2>2, <2>3, <2>5, <3>1, CalledKeeps DEF Steps
  <2> QED BY <2>4, <2>5
<1>12. CASE SeeVisible
  <2>1. Called("see", "scroll") /\ ticked' = ticked /\ focused' = focused /\ seen' = held /\ box' = box /\ epc = "see"
    BY <1>12 DEF SeeVisible, Called
  <2>2. focused' \in Nodes \cup {NoNode} /\ box' \in Nodes \cup {NoNode}
    BY <2>1, <1>t DEF ElementsTypeOK
  <2>3. seen' = held /\ steady = TRUE => held \notin hidden
    BY <1>12, <1>t DEF SeeVisible, HeldIsMatch, Match, Index, Attached
  <2> QED BY <2>1, <2>2, <2>3, CalledKeeps DEF Steps
<1>13. CASE SeeExpires
  <2>1. Called("see", "scroll") /\ ticked' = ticked /\ focused' = focused /\ seen' = seen /\ box' = box /\ epc = "see"
    BY <1>13 DEF SeeExpires, Called
  <2>2. focused' \in Nodes \cup {NoNode} /\ box' \in Nodes \cup {NoNode}
    BY <2>1, <1>t DEF ElementsTypeOK
  <2>3. seen' = held /\ steady = TRUE => held \notin hidden
    BY <2>1, <1>t DEF SeenIsHeld
  <2> QED BY <2>1, <2>2, <2>3, CalledKeeps DEF Steps
<1>14. CASE ScrollIntoView
  <2>1. Called("scroll", "box") /\ ticked' = ticked /\ focused' = focused /\ seen' = seen /\ box' = box /\ epc = "scroll"
    BY <1>14 DEF ScrollIntoView, Called
  <2>2. focused' \in Nodes \cup {NoNode} /\ box' \in Nodes \cup {NoNode}
    BY <2>1, <1>t DEF ElementsTypeOK
  <2>3. seen' = held /\ steady = TRUE => held \notin hidden
    BY <2>1, <1>t DEF SeenIsHeld
  <2> QED BY <2>1, <2>2, <2>3, CalledKeeps DEF Steps
<1>15. CASE TakeBox
  <2>1. Called("box", "press") /\ ticked' = ticked /\ focused' = focused /\ seen' = seen /\ epc = "box"
        /\ box' = IF Attached(held) THEN held ELSE NoNode
    BY <1>15 DEF TakeBox, Called
  <2>2. focused' \in Nodes \cup {NoNode} /\ box' \in Nodes \cup {NoNode}
    BY <2>1, <1>t DEF ElementsTypeOK
  <2>3. seen' = held /\ steady = TRUE => held \notin hidden
    BY <2>1, <1>t DEF SeenIsHeld
  <2>4. steady = TRUE => box' = held
    BY <2>1, <1>t DEF HeldIsMatch, Attached
  <2> QED BY <2>1, <2>2, <2>3, <2>4, CalledKeeps DEF Steps
<1>16. CASE Press
  <2>1. /\ epc = "press" /\ epc' = "ok"
        /\ landed' \in IF box # NoNode /\ box \notin hidden \cup barred THEN {box}
                       ELSE ({dom[i] : i \in 1..Len(dom)} \cup {NoNode}) \ barred
        /\ ticked' = IF landed' \in ticked THEN ticked \ {landed'} ELSE ticked \cup ({landed'} \ {NoNode})
        /\ UNCHANGED <<dom, hidden, barred, lost, focused, used, changes, act, kind, try, held, seen,
                       box, relooked, steady>>
    BY <1>16 DEF Press, pageVars
  <2>2. landed' \in Nodes \cup {NoNode}
    BY <2>1, <1>t DEF ElementsTypeOK
  <2>3. steady = TRUE /\ held \notin hidden \cup barred => landed' = held
    <3>1. steady = TRUE => box = held /\ held # NoNode
      BY <2>1, <1>t DEF ReadyToAct, InPlace
    <3> QED BY <2>1, <3>1
  <2>4. held # NoNode /\ act # "fill"
    BY <2>1, <1>t DEF InPlace
  <2>5. ElementsTypeOK'
    BY <2>1, <2>2, <1>t DEF ElementsTypeOK
  <2>6. InPlace' /\ PageIsFresh'
    BY <2>1, <2>4, <1>t DEF InPlace, PageIsFresh, Steps
  <2>7. HeldIsMatch' /\ SeenIsHeld' /\ ReadyToAct'
    BY <2>1, <1>t DEF HeldIsMatch, Match, Index, SeenIsHeld, ReadyToAct, Steps
  <2>8. HasActed'
    BY <2>1, <2>3, <2>4, <1>t DEF HasActed, SeenIsHeld, ReadyToAct
  <2> QED BY <2>5, <2>6, <2>7, <2>8 DEF ElementsInv
<1>17. CASE Focus
  <2>1. Called("focus", "select") /\ Focuses /\ ticked' = ticked /\ seen' = seen /\ box' = box /\ epc = "focus"
    BY <1>17 DEF Focus, Called
  <2>2. focused' \in Nodes \cup {NoNode} /\ box' \in Nodes \cup {NoNode}
    BY <2>1, <1>t DEF ElementsTypeOK, Focuses
  <2>3. seen' = held /\ steady = TRUE => held \notin hidden
    BY <2>1, <1>t DEF SeenIsHeld
  <2>4. steady = TRUE /\ held \notin hidden \cup barred => focused' = held
    <3>1. steady = TRUE => Attached(held)
      BY <1>t DEF HeldIsMatch, Attached
    <3> QED BY <2>1, <3>1 DEF Focuses
  <2> QED BY <2>1, <2>2, <2>3, <2>4, CalledKeeps DEF Steps
<1>18. CASE SelectText
  <2>1. Called("select", "insert") /\ Focuses /\ ticked' = ticked /\ seen' = seen /\ box' = box /\ epc = "select"
    BY <1>18 DEF SelectText, Called
  <2>2. focused' \in Nodes \cup {NoNode} /\ box' \in Nodes \cup {NoNode}
    BY <2>1, <1>t DEF ElementsTypeOK, Focuses
  <2>3. seen' = held /\ steady = TRUE => held \notin hidden
    BY <2>1, <1>t DEF SeenIsHeld
  <2>4. steady = TRUE /\ held \notin hidden \cup barred => focused' = held
    <3>1. steady = TRUE => Attached(held)
      BY <1>t DEF HeldIsMatch, Attached
    <3> QED BY <2>1, <3>1 DEF Focuses
  <2> QED BY <2>1, <2>2, <2>3, <2>4, CalledKeeps DEF Steps
<1>19. CASE InsertText
  <2>1. /\ epc = "insert" /\ epc' = "ok" /\ landed' = focused
        /\ UNCHANGED <<dom, hidden, barred, lost, focused, used, ticked, changes, act, kind, try, held,
                       seen, box, relooked,
                       steady>>
    BY <1>19 DEF InsertText, pageVars
  <2>2. act = "fill" /\ held # NoNode
    BY <2>1, <1>t DEF InPlace
  <2>3. ElementsTypeOK'
    BY <2>1, <1>t DEF ElementsTypeOK
  <2>4. InPlace' /\ PageIsFresh'
    BY <2>1, <2>2, <1>t DEF InPlace, PageIsFresh, Steps
  <2>5. HeldIsMatch' /\ SeenIsHeld' /\ ReadyToAct'
    BY <2>1, <1>t DEF HeldIsMatch, Match, Index, SeenIsHeld, ReadyToAct, Steps
  <2>6. HasActed'
    BY <2>1, <2>2, <1>t DEF HasActed, ReadyToAct
  <2> QED BY <2>3, <2>4, <2>5, <2>6 DEF ElementsInv
<1>20. CASE UNCHANGED elementVars
  <2>1. UNCHANGED <<dom, hidden, barred, lost, focused, used, ticked, changes, act, kind, epc, try,
                    held, seen, box, landed,
                    relooked, steady>>
    BY <1>20 DEF elementVars, pageVars
  <2>2. ElementsTypeOK' /\ InPlace' /\ PageIsFresh'
    BY <2>1, <1>t DEF ElementsTypeOK, InPlace, PageIsFresh
  <2>3. HeldIsMatch' /\ SeenIsHeld' /\ ReadyToAct' /\ HasActed'
    BY <2>1, <1>t DEF HeldIsMatch, Match, Index, SeenIsHeld, ReadyToAct, HasActed
  <2> QED BY <2>2, <2>3 DEF ElementsInv
<1> QED
  BY <1>1, <1>2, <1>3, <1>4, <1>5, <1>6, <1>7, <1>8, <1>9, <1>10, <1>11, <1>12, <1>13, <1>14,
     <1>15, <1>16,
     <1>17, <1>18, <1>19, <1>20 DEF ElementsNext

-----------------------------------------------------------------------------
\* The invariant holds in every state, however the page changes.
THEOREM ElementInvariant == ElementsSpec => []ElementsInv
<1> QED BY ElementInitInv, ElementStepKeeps, PTL DEF ElementsSpec

\* An action that reports success on a page that has been still since the element
\* was last looked up has acted on that element, and one that has a selector fails
\* for want of its node only if the page changed again (Element.Click, Fill, Check
\* and callForValue), for any number of nodes and of changes.
THEOREM ActsOnHeld == ElementsSpec => []ElementActs
<1> QED BY ElementInvariant, ElementInvImplies, PTL

=============================================================================
