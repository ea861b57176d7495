-------------------------- MODULE McpSessionProofs --------------------------
(***************************************************************************)
(* Proofs about McpSession, for every limit of pages and every bound.      *)
(***************************************************************************)
EXTENDS McpSession, SequenceTheorems, FiniteSetTheorems, WellFoundedInduction, TLAPS

-----------------------------------------------------------------------------
(* The list of identifiers *)

NoRepeat(s) == \A a, b \in 1..Len(s) : s[a] = s[b] => a = b

Less == {p \in Nat \X Nat : p[1] < p[2]}

LEMMA LessPairs == \A j, k \in Nat : j < k => <<j, k>> \in Less
  BY DEF Less

LEMMA LeastPlace ==
    ASSUME NEW T \in SUBSET Nat, T # {}
    PROVE  \E k \in T : \A j \in T : k <= j
<1>1. IsWellFoundedOn(Less, Nat)
  <2>1. OpToRel(<, Nat) = Less
    BY DEF OpToRel, Less
  <2>. QED  BY <2>1, NatLessThanWellFounded
<1>2. PICK k \in T : \A j \in T : ~(<<j, k>> \in Less)
  BY <1>1, WFMin
<1>3. ASSUME NEW j \in T PROVE k <= j
  <2>1. j \in Nat /\ k \in Nat
    OBVIOUS
  <2>2. <<j, k>> \notin Less
    BY <1>2
  <2>3. ~(j < k)
    BY <2>1, <2>2, LessPairs
  <2>. QED  BY <2>1, <2>3
<1>. QED  BY <1>3

\* The place that evictLRU and touchPage look for is the first one.
LEMMA FirstPlace ==
    ASSUME NEW s \in Seq(Nat), NEW S, Holds(s, S)
    PROVE  /\ First(s, S) \in 1..Len(s) /\ s[First(s, S)] \in S
           /\ \A j \in 1..(First(s, S) - 1) : s[j] \notin S
<1>. DEFINE T == {k \in 1..Len(s) : s[k] \in S}
<1>1. T \in SUBSET Nat /\ T # {}
  BY DEF Holds
<1>2. PICK k \in T : \A j \in T : k <= j
  BY <1>1, LeastPlace
<1>3. k \in 1..Len(s) /\ s[k] \in S /\ \A j \in 1..(k-1) : s[j] \notin S
  BY <1>2
<1>. QED  BY <1>3 DEF First

LEMMA WithoutPlaces ==
    ASSUME NEW S \in SUBSET Nat, NEW s \in Seq(S), NEW i, Holds(s, {i})
    PROVE  /\ First(s, {i}) \in 1..Len(s) /\ s[First(s, {i})] = i
           /\ Without(s, i) \in Seq(S) /\ Len(Without(s, i)) = Len(s) - 1
           /\ \A j \in 1..(Len(s) - 1) :
                 Without(s, i)[j] = IF j < First(s, {i}) THEN s[j] ELSE s[j+1]
<1>. DEFINE k == First(s, {i})
            left == SubSeq(s, 1, k - 1)
            right == SubSeq(s, k + 1, Len(s))
<1>0. s \in Seq(Nat) /\ Len(s) \in Nat
  BY SeqMonotonic, LenProperties
<1>1. k \in 1..Len(s) /\ s[k] = i
  BY <1>0, FirstPlace
<1>2. \A j \in 1..Len(s) : s[j] \in S
  BY ElementOfSeq
<1>3. /\ left \in Seq(S) /\ Len(left) = k - 1
      /\ \A j \in 1..(k-1) : left[j] = s[j]
  <2>1. /\ SubSeq(s, 1, k-1) \in Seq(S)
        /\ Len(SubSeq(s, 1, k-1)) = IF 1 <= k-1 THEN (k-1)-1+1 ELSE 0
        /\ \A j \in 1..((k-1)-1+1) : SubSeq(s, 1, k-1)[j] = s[1+j-1]
    <3>. HIDE DEF k
    <3>1. 1 \in Int /\ k-1 \in Int /\ \A j \in 1..(k-1) : s[j] \in S
      BY <1>0, <1>1, <1>2
    <3>. QED  BY <3>1, SubSeqProperties
  <2>. HIDE DEF k
  <2>. QED  BY <2>1, <1>0, <1>1
<1>4. /\ right \in Seq(S) /\ Len(right) = Len(s) - k
      /\ \A j \in 1..(Len(s) - k) : right[j] = s[k+j]
  <2>. HIDE DEF k
  <2>1. k+1 \in Int /\ Len(s) \in Int /\ \A j \in (k+1)..Len(s) : s[j] \in S
    BY <1>0, <1>1, <1>2
  <2>2. /\ right \in Seq(S)
        /\ Len(right) = IF k+1 <= Len(s) THEN Len(s)-(k+1)+1 ELSE 0
        /\ \A j \in 1..(Len(s)-(k+1)+1) : right[j] = s[(k+1)+j-1]
    BY <2>1, SubSeqProperties
  <2>. QED  BY <2>2, <1>0, <1>1
<1>5. Without(s, i) = left \o right
  BY DEF Without
<1>. HIDE DEF k, left, right
<1>6. /\ left \o right \in Seq(S)
      /\ Len(left \o right) = Len(left) + Len(right)
      /\ \A j \in 1..(Len(left) + Len(right)) :
            (left \o right)[j] = IF j <= Len(left) THEN left[j] ELSE right[j - Len(left)]
  BY <1>3, <1>4, ConcatProperties
<1>7. \A j \in 1..(Len(s) - 1) : (left \o right)[j] = IF j < k THEN s[j] ELSE s[j+1]
  <2>. SUFFICES ASSUME NEW j \in 1..(Len(s) - 1)
                PROVE  (left \o right)[j] = IF j < k THEN s[j] ELSE s[j+1]
    OBVIOUS
  <2>1. (left \o right)[j] = IF j <= k - 1 THEN left[j] ELSE right[j - (k - 1)]
    <3>1. Len(left) = k - 1 /\ Len(right) = Len(s) - k
      BY <1>3, <1>4
    <3>2. j \in 1..(Len(left) + Len(right))
      BY <3>1, <1>0, <1>1
    <3>3. (left \o right)[j] = IF j <= Len(left) THEN left[j] ELSE right[j - Len(left)]
      BY <3>2, <1>6
    <3>. QED  BY <3>1, <3>3
  <2>2. CASE j < k
    BY <2>1, <2>2, <1>0, <1>1, <1>3
  <2>3. CASE ~(j < k)
    <3>1. j - (k - 1) \in 1..(Len(s) - k) /\ k + (j - (k - 1)) = j + 1
      BY <2>3, <1>0, <1>1
    <3>2. right[j - (k - 1)] = s[k + (j - (k - 1))]
      BY <3>1, <1>4
    <3>. QED  BY <2>1, <2>3, <3>1, <3>2, <1>0, <1>1
  <2>. QED  BY <2>2, <2>3
<1>8. Len(left \o right) = Len(s) - 1
  BY <1>0, <1>1, <1>3, <1>4, <1>6
<1>9. First(s, {i}) = k
  BY DEF k
<1>. QED  BY <1>1, <1>5, <1>6, <1>7, <1>8, <1>9

Has(s, x) == \E k \in 1..Len(s) : s[k] = x

\* touchPage and closePage take one identifier out of the list and leave the
\* order of the others.
LEMMA WithoutKeeps ==
    ASSUME NEW S \in SUBSET Nat, NEW s \in Seq(S), NEW i, NoRepeat(s)
    PROVE  /\ Without(s, i) \in Seq(S) /\ NoRepeat(Without(s, i))
           /\ \A x : Has(Without(s, i), x) <=> x # i /\ Has(s, x)
           /\ \A x, y : Precedes(Without(s, i), x, y) <=> x # i /\ y # i /\ Precedes(s, x, y)
<1>. DEFINE r == Without(s, i)
<1>0. Len(s) \in Nat
  BY LenProperties
<1>1. CASE ~Holds(s, {i})
  <2>1. Without(s, i) = s
    BY <1>1 DEF Without
  <2>2. \A k \in 1..Len(s) : s[k] # i
    BY <1>1 DEF Holds
  <2>. QED  BY <2>1, <2>2 DEF Has, Precedes
<1>2. CASE Holds(s, {i})
  <2>. DEFINE k == First(s, {i})
  <2>1. /\ k \in 1..Len(s) /\ s[k] = i
        /\ r \in Seq(S) /\ Len(r) = Len(s) - 1
        /\ \A j \in 1..(Len(s) - 1) : r[j] = IF j < k THEN s[j] ELSE s[j+1]
    BY <1>2, WithoutPlaces
  <2>. HIDE DEF k, r
  <2>. DEFINE up(j) == IF j < k THEN j ELSE j + 1
              down(a) == IF a < k THEN a ELSE a - 1
  <2>2. \A j \in 1..Len(r) : up(j) \in 1..Len(s) /\ up(j) # k /\ r[j] = s[up(j)]
    BY <1>0, <2>1
  <2>3. \A j, l \in 1..Len(r) : (j < l <=> up(j) < up(l)) /\ (up(j) = up(l) => j = l)
    BY <1>0, <2>1
  <2>4. \A a \in 1..Len(s) : a # k => down(a) \in 1..Len(r) /\ up(down(a)) = a
    BY <1>0, <2>1
  <2>. HIDE DEF up, down
  <2>5. \A a \in 1..Len(s) : s[a] = i <=> a = k
    BY <2>1 DEF NoRepeat
  <2>6. NoRepeat(r)
    <3>. SUFFICES ASSUME NEW a \in 1..Len(r), NEW b \in 1..Len(r), r[a] = r[b] PROVE a = b
      BY DEF NoRepeat
    <3>1. up(a) = up(b)
      BY <2>2 DEF NoRepeat
    <3>. QED  BY <3>1, <2>3
  <2>7. ASSUME NEW x PROVE Has(r, x) <=> x # i /\ Has(s, x)
    <3>1. ASSUME Has(r, x) PROVE x # i /\ Has(s, x)
      <4>1. PICK j \in 1..Len(r) : r[j] = x
        BY <3>1 DEF Has
      <4>. QED  BY <4>1, <2>2, <2>5 DEF Has
    <3>2. ASSUME x # i, Has(s, x) PROVE Has(r, x)
      <4>1. PICK a \in 1..Len(s) : s[a] = x
        BY <3>2 DEF Has
      <4>2. a # k
        BY <4>1, <3>2, <2>1
      <4>3. down(a) \in 1..Len(r) /\ r[down(a)] = x
        BY <4>1, <4>2, <2>2, <2>4
      <4>. QED  BY <4>3 DEF Has
    <3>. QED  BY <3>1, <3>2
  <2>8. ASSUME NEW x, NEW y PROVE Precedes(r, x, y) <=> x # i /\ y # i /\ Precedes(s, x, y)
    <3>1. ASSUME Precedes(r, x, y) PROVE x # i /\ y # i /\ Precedes(s, x, y)
      <4>1. PICK j, l \in 1..Len(r) : j < l /\ r[j] = x /\ r[l] = y
        BY <3>1 DEF Precedes
      <4>2. up(j) < up(l) /\ s[up(j)] = x /\ s[up(l)] = y
        BY <4>1, <2>2, <2>3
      <4>. QED  BY <4>2, <2>2, <2>5 DEF Precedes
    <3>2. ASSUME x # i, y # i, Precedes(s, x, y) PROVE Precedes(r, x, y)
      <4>1. PICK a, b \in 1..Len(s) : a < b /\ s[a] = x /\ s[b] = y
        BY <3>2 DEF Precedes
      <4>2. a # k /\ b # k
        BY <4>1, <3>2, <2>1
      <4>3. /\ down(a) \in 1..Len(r) /\ r[down(a)] = x
            /\ down(b) \in 1..Len(r) /\ r[down(b)] = y
            /\ down(a) < down(b)
        BY <4>1, <4>2, <2>2, <2>3, <2>4
      <4>. QED  BY <4>3 DEF Precedes
    <3>. QED  BY <3>1, <3>2
  <2>. QED  BY <2>1, <2>6, <2>7, <2>8 DEF r
<1>. QED  BY <1>1, <1>2

LEMMA AppendKeeps ==
    ASSUME NEW S, NEW s \in Seq(S), NEW i \in S, NoRepeat(s), ~Has(s, i)
    PROVE  /\ Append(s, i) \in Seq(S) /\ NoRepeat(Append(s, i))
           /\ \A x : Has(Append(s, i), x) <=> x = i \/ Has(s, x)
           /\ \A x, y : Precedes(Append(s, i), x, y)
                           <=> Precedes(s, x, y) \/ (y = i /\ Has(s, x))
<1>. DEFINE r == Append(s, i)
<1>1. /\ r \in Seq(S) /\ Len(s) \in Nat /\ Len(r) = Len(s) + 1
      /\ \A k \in 1..Len(s) : r[k] = s[k]
      /\ r[Len(s) + 1] = i
  BY LenProperties
<1>. HIDE DEF r
<1>2. \A k \in 1..Len(r) : k \in 1..Len(s) \/ k = Len(s) + 1
  BY <1>1
<1>3. \A k \in 1..Len(s) : k \in 1..Len(r) /\ k < Len(s) + 1 /\ s[k] # i
  BY <1>1 DEF Has
<1>4. Len(s) + 1 \in 1..Len(r)
  BY <1>1
<1>5. NoRepeat(r)
  BY <1>1, <1>2, <1>3 DEF NoRepeat
<1>6. \A x : Has(r, x) <=> x = i \/ Has(s, x)
  BY <1>1, <1>2, <1>3, <1>4 DEF Has
<1>7. ASSUME NEW x, NEW y
      PROVE  Precedes(r, x, y) <=> Precedes(s, x, y) \/ (y = i /\ Has(s, x))
  <2>1. ASSUME Precedes(r, x, y) PROVE Precedes(s, x, y) \/ (y = i /\ Has(s, x))
    <3>1. PICK a, b \in 1..Len(r) : a < b /\ r[a] = x /\ r[b] = y
      BY <2>1 DEF Precedes
    <3>2. a \in 1..Len(s)
      BY <3>1, <1>1
    <3>. QED  BY <3>1, <3>2, <1>1, <1>2 DEF Precedes, Has
  <2>2. ASSUME Precedes(s, x, y) PROVE Precedes(r, x, y)
    BY <2>2, <1>1, <1>3 DEF Precedes
  <2>3. ASSUME y = i, Has(s, x) PROVE Precedes(r, x, y)
    BY <2>3, <1>1, <1>3, <1>4 DEF Precedes, Has
  <2>. QED  BY <2>1, <2>2, <2>3
<1>. QED  BY <1>1, <1>5, <1>6, <1>7 DEF r

LEMMA DropPlaces ==
    ASSUME NEW S, NEW s \in Seq(S), NEW k \in 1..Len(s)
    PROVE  /\ SubSeq(s, k + 1, Len(s)) \in Seq(S)
           /\ Len(SubSeq(s, k + 1, Len(s))) = Len(s) - k
           /\ \A j \in 1..(Len(s) - k) : SubSeq(s, k + 1, Len(s))[j] = s[k + j]
<1>. DEFINE r == SubSeq(s, k + 1, Len(s))
<1>0. Len(s) \in Nat /\ \A j \in 1..Len(s) : s[j] \in S
  BY LenProperties, ElementOfSeq
<1>1. k + 1 \in Int /\ Len(s) \in Int /\ \A j \in (k + 1)..Len(s) : s[j] \in S
  BY <1>0
<1>2. /\ r \in Seq(S)
      /\ Len(r) = IF k + 1 <= Len(s) THEN Len(s) - (k + 1) + 1 ELSE 0
      /\ \A j \in 1..(Len(s) - (k + 1) + 1) : r[j] = s[(k + 1) + j - 1]
  BY <1>1, SubSeqProperties
<1>. HIDE DEF r
<1>3. Len(r) = Len(s) - k
  BY <1>0, <1>2
<1>4. ASSUME NEW j \in 1..(Len(s) - k) PROVE r[j] = s[k + j]
  <2>1. j \in 1..(Len(s) - (k + 1) + 1) /\ (k + 1) + j - 1 = k + j
    BY <1>0
  <2>. QED  BY <2>1, <1>2
<1>. QED  BY <1>2, <1>3, <1>4 DEF r

FirstIn(s, L, k) == k \in 1..Len(s) /\ s[k] \in L /\ \A j \in 1..(k - 1) : s[j] \notin L
TailFrom(r, s, k) == Len(r) = Len(s) - k /\ \A j \in 1..(Len(s) - k) : r[j] = s[k + j]

\* r is s without its places up to that of v, for the members of L.
Dropped(r, s, L, v) ==
    /\ NoRepeat(r)
    /\ \A x : Has(r, x) => Has(s, x)
    /\ \A x \in L \ {v} : Has(s, x) => Has(r, x) /\ Precedes(s, v, x)
    /\ \A x \in L : ~Precedes(s, x, v)
    /\ \A x, y \in L \ {v} : Precedes(r, x, y) <=> Precedes(s, x, y)

\* evictLRU drops the list up to the first identifier of the table: that one was
\* used before every other of the table, and the others stay in their order.
LEMMA DropKeeps ==
    ASSUME NEW S, NEW s \in Seq(S), NEW r \in Seq(S), NEW L, NoRepeat(s),
           NEW k, FirstIn(s, L, k), TailFrom(r, s, k), NEW v, v = s[k]
    PROVE  Dropped(r, s, L, v)
<1>0. Len(s) \in Nat /\ Len(r) \in Nat
  BY LenProperties
<1>1. k \in 1..Len(s) /\ s[k] \in L /\ \A j \in 1..(k - 1) : s[j] \notin L
  BY DEF FirstIn
<1>2. v = s[k]
  OBVIOUS
<1>4. Len(r) = Len(s) - k /\ \A j \in 1..Len(r) : k + j \in 1..Len(s) /\ r[j] = s[k + j]
  BY <1>0, <1>1 DEF TailFrom
<1>5. \A a \in 1..Len(s) : a > k => a - k \in 1..Len(r) /\ r[a - k] = s[a]
  BY <1>0, <1>1, <1>4
<1>6. NoRepeat(r)
  <2>. SUFFICES ASSUME NEW a \in 1..Len(r), NEW b \in 1..Len(r), r[a] = r[b] PROVE a = b
    BY DEF NoRepeat
  <2>1. k + a \in 1..Len(s) /\ k + b \in 1..Len(s) /\ s[k + a] = s[k + b]
    BY <1>4
  <2>2. k + a = k + b
    BY <2>1 DEF NoRepeat
  <2>. QED  BY <2>2, <1>0, <1>1, <1>4
<1>7. \A x : Has(r, x) => Has(s, x)
  BY <1>4 DEF Has
<1>8. \A a \in 1..Len(s) : s[a] \in L /\ s[a] # v => a > k
  BY <1>0, <1>1, <1>2
<1>9. ASSUME NEW x \in L \ {v}, Has(s, x) PROVE Has(r, x) /\ Precedes(s, v, x)
  <2>1. PICK a \in 1..Len(s) : s[a] = x
    BY <1>9 DEF Has
  <2>2. a > k
    BY <2>1, <1>8
  <2>3. a - k \in 1..Len(r) /\ r[a - k] = x
    BY <2>1, <2>2, <1>5
  <2>4. k < a
    BY <2>2, <1>1
  <2>. QED  BY <2>1, <2>3, <2>4, <1>1, <1>2 DEF Has, Precedes
<1>10. ASSUME NEW x \in L, Precedes(s, x, v) PROVE FALSE
  <2>1. PICK a, b \in 1..Len(s) : a < b /\ s[a] = x /\ s[b] = v
    BY <1>10 DEF Precedes
  <2>2. b = k
    BY <2>1, <1>1, <1>2 DEF NoRepeat
  <2>3. a \in 1..(k - 1)
    BY <2>1, <2>2, <1>0, <1>1
  <2>. QED  BY <2>1, <2>3, <1>1
<1>11. ASSUME NEW x \in L \ {v}, NEW y \in L \ {v} PROVE Precedes(r, x, y) <=> Precedes(s, x, y)
  <2>1. ASSUME Precedes(r, x, y) PROVE Precedes(s, x, y)
    <3>1. PICK a, b \in 1..Len(r) : a < b /\ r[a] = x /\ r[b] = y
      BY <2>1 DEF Precedes
    <3>2. k + a < k + b
      BY <3>1, <1>0, <1>1, <1>4
    <3>. QED  BY <3>1, <3>2, <1>4 DEF Precedes
  <2>2. ASSUME Precedes(s, x, y) PROVE Precedes(r, x, y)
    <3>1. PICK a, b \in 1..Len(s) : a < b /\ s[a] = x /\ s[b] = y
      BY <2>2 DEF Precedes
    <3>2. a > k /\ b > k
      BY <3>1, <1>8
    <3>3. a - k < b - k
      BY <3>1, <3>2, <1>0, <1>1
    <3>. QED  BY <3>1, <3>2, <3>3, <1>5 DEF Precedes
  <2>. QED  BY <2>1, <2>2
<1>. QED  BY <1>6, <1>7, <1>9, <1>10, <1>11 DEF Dropped

-----------------------------------------------------------------------------
(* The invariant *)

\* Every page of the table is in the list, once. The list may hold more: the
\* identifiers of pages that the browser was closed with.
ListInv == NoRepeat(order) /\ \A i \in Live : Has(order, i)

\* The closed flag of a page in the table is never set, so the tests of IsClosed
\* in ensurePage, getPage and listPages (session.go:116, 178, 202) never bite.
ListedIsOpen == \A i \in Live : pages[i] \notin closed

OnePageOneId == \A i, j \in Live : pages[i] = pages[j] => i = j
OneLocatorOneKey == \A k, l \in DOMAIN overlays : overlays[k] = overlays[l] => k = l

TableInv ==
    TableType /\ ListInv /\ ListedIsOpen /\ OnePageOneId /\ TabsBounded /\ IdMeansOnePage
OverlayInv == OverlayType /\ OneLocatorOneKey /\ HandlerRegistered
SessionInv == TableInv /\ OverlayInv

LEMMA LiveFinite == ASSUME TableType PROVE IsFiniteSet(Live) /\ Cardinality(Live) \in Nat
<1>0. 1 \in Int /\ nextID \in Int
  BY DEF TableType
<1>1. IsFiniteSet(1..nextID)
  BY <1>0, FS_Interval
<1>2. Live \in SUBSET (1..nextID)
  BY DEF TableType
<1>3. IsFiniteSet(Live)
  BY <1>1, <1>2, FS_Subset
<1>. QED  BY <1>3, FS_CardinalityType

\* What evictLRU leaves: when the table is full it takes exactly one page out,
\* the one whose last use precedes that of all others.
LEMMA RoomFacts ==
    ASSUME TableType, ListInv
    PROVE  /\ OrderLeft \in Seq(1..nextID) /\ NoRepeat(OrderLeft)
           /\ Victim \subseteq Live
           /\ \A x : Has(OrderLeft, x) => Has(order, x)
           /\ \A i \in Live \ Victim : Has(OrderLeft, i)
           /\ \A i, j \in Live \ Victim : Precedes(OrderLeft, i, j) <=> Precedes(order, i, j)
           /\ ~Full => Victim = {}
           /\ Full => \E v \in Live :
                 /\ Victim = {v}
                 /\ \A x \in Live \ {v} : Precedes(order, v, x) /\ ~Precedes(order, x, v)
<1>0. order \in Seq(1..nextID) /\ 1..nextID \in SUBSET Nat /\ NoRepeat(order)
  BY DEF TableType, ListInv
<1>1. CASE ~Full
  BY <1>0, <1>1 DEF Victim, OrderLeft, ListInv
<1>2. CASE Full
  <2>1. Live # {}
    BY <1>2, LiveFinite, FS_EmptySet, SessionAssumption DEF Full
  <2>2. Holds(order, Live)
    BY <2>1 DEF ListInv, Has, Holds
  <2>. DEFINE k == First(order, Live)
              v == order[k]
              r == SubSeq(order, k + 1, Len(order))
  <2>3. Victim = {v} /\ OrderLeft = r
    BY <1>2, <2>2 DEF Victim, OrderLeft
  <2>6. order \in Seq(Nat)
    BY <1>0, SeqMonotonic
  <2>7. k \in 1..Len(order) /\ order[k] \in Live /\ \A j \in 1..(k - 1) : order[j] \notin Live
    BY <2>2, <2>6, FirstPlace
  <2>. HIDE DEF k
  <2>8. /\ r \in Seq(1..nextID) /\ Len(r) = Len(order) - k
        /\ \A j \in 1..(Len(order) - k) : r[j] = order[k + j]
    BY <1>0, <2>7, DropPlaces
  <2>. HIDE DEF r
  <2>4. Dropped(r, order, Live, v)
    <3>. DEFINE L == Live  S == 1..nextID
    <3>1. order \in Seq(S) /\ r \in Seq(S) /\ NoRepeat(order) /\ v = order[k]
      BY <1>0, <2>8
    <3>2. FirstIn(order, L, k) /\ TailFrom(r, order, k)
      BY <2>7, <2>8 DEF FirstIn, TailFrom
    <3>. HIDE DEF L, S, v
    <3>3. Dropped(r, order, L, v)
      BY <3>1, <3>2, DropKeeps
    <3>. QED  BY <3>3 DEF L
  <2>. HIDE DEF v
  <2>5. \A x \in Live : Has(order, x)
    BY DEF ListInv
  <2>9. v \in Live
    BY <2>7 DEF v
  <2>. QED  BY <1>2, <2>3, <2>4, <2>5, <2>8, <2>9 DEF Dropped
<1>. QED  BY <1>1, <1>2

LEMMA InitInv == Init => SessionInv
<1>. SUFFICES ASSUME Init PROVE SessionInv
  OBVIOUS
<1>1. DOMAIN pages = {} /\ DOMAIN overlays = {}
  BY DEF Init, Nothing
<1>2. pages \in [{} -> 1..made] /\ overlays \in [{} -> 1..locators]
  BY DEF Init, Nothing
<1>3. order \in Seq(1..nextID) /\ Len(order) = 0
  BY EmptySeq DEF Init
<1>7. pages \in [Live -> 1..made] /\ overlays \in [DOMAIN overlays -> 1..locators]
  BY <1>1, <1>2 DEF Live
<1>14. running \in BOOLEAN /\ nextID = 0 /\ made = 0 /\ strays = 0 /\ got = 0
  BY DEF Init
<1>10. /\ running \in BOOLEAN /\ nextID \in 0..MaxId /\ made \in Nat /\ strays \in 0..MaxStrays
       /\ closed = {} /\ tabs = {} /\ told = {} /\ got \in 0..nextID
  <2>1. nextID \in 0..MaxId /\ made \in Nat /\ strays \in 0..MaxStrays /\ got \in 0..nextID
    BY <1>14, SessionAssumption
  <2>. QED  BY <1>14, <2>1 DEF Init
<1>8. TableType
  BY <1>1, <1>3, <1>7, <1>10 DEF TableType, Live
<1>11. locators \in 0..MaxLocators /\ handlers = {}
  BY SessionAssumption DEF Init
<1>9. OverlayType
  BY <1>1, <1>7, <1>11 DEF OverlayType
<1>5. ListInv
  BY <1>1, <1>3 DEF ListInv, NoRepeat, Live
<1>6. Cardinality({}) = 0
  BY FS_EmptySet
<1>12. 0 <= MaxPages
  BY SessionAssumption
<1>13. TabsBounded /\ IdMeansOnePage
  BY <1>1, <1>6, <1>10, <1>12 DEF TabsBounded, IdMeansOnePage, Live
<1>. QED  BY <1>1, <1>5, <1>8, <1>9, <1>13
     DEF SessionInv, TableInv, OverlayInv, ListedIsOpen, OnePageOneId, OneLocatorOneKey,
         HandlerRegistered, Live

\* Pages leave the table and nothing else of it changes but the closed flags and
\* tabs of those that left: what is left of the invariant to show is the list.
LEMMA Shrinks ==
    ASSUME TableInv, NEW S \in SUBSET Live,
           pages' = Kept(pages, S), ListInv', order' \in Seq(1..nextID),
           closed' \subseteq closed \cup {pages[i] : i \in Live \ S},
           tabs' \subseteq tabs \ {pages[i] : i \in Live \ S},
           running' \in BOOLEAN, strays' \in 0..MaxStrays, got' \in 0..nextID,
           UNCHANGED <<nextID, made, told>>
    PROVE  TableInv'
<1>. USE DEF TableInv
<1>1. Live' = S /\ \A i \in S : pages'[i] = pages[i]
  BY DEF Kept, Live
<1>2. pages' \in [S -> 1..made]
  BY DEF Kept, Live, TableType
<1>3. closed' \subseteq 1..made /\ tabs' \subseteq 1..made
  BY DEF TableType
<1>4. TableType'
  BY <1>1, <1>2, <1>3 DEF TableType
<1>5. ListedIsOpen' /\ OnePageOneId'
  BY <1>1 DEF ListedIsOpen, OnePageOneId
<1>6. tabs' \subseteq {pages'[i] : i \in S}
  BY <1>1 DEF TabsBounded
<1>7. Cardinality(S) <= Cardinality(Live) /\ Cardinality(S) \in Nat /\ Cardinality(Live) \in Nat
  BY LiveFinite, FS_Subset, FS_CardinalityType
<1>8. TabsBounded'
  BY <1>1, <1>6, <1>7, SessionAssumption DEF TabsBounded
<1>9. IdMeansOnePage'
  BY <1>1 DEF IdMeansOnePage
<1>. QED  BY <1>4, <1>5, <1>8, <1>9

LEMMA GetPageInv ==
    ASSUME TableInv, NEW i, GetPage(i)
    PROVE  TableInv' /\ Live' = Live /\ nextID' = nextID /\ made' = made
<1>. USE DEF TableInv
<1>1. i \in Live /\ i \in 1..nextID /\ order \in Seq(1..nextID) /\ 1..nextID \in SUBSET Nat
  BY DEF GetPage, TableType
<1>. DEFINE w == Without(order, i)
<1>2. /\ w \in Seq(1..nextID) /\ NoRepeat(w)
      /\ \A x : Has(w, x) <=> x # i /\ Has(order, x)
  BY <1>1, WithoutKeeps DEF ListInv
<1>. HIDE DEF w
<1>3. /\ Append(w, i) \in Seq(1..nextID) /\ NoRepeat(Append(w, i))
      /\ \A x : Has(Append(w, i), x) <=> x = i \/ Has(w, x)
  BY <1>1, <1>2, AppendKeeps
<1>4. order' = Append(w, i)
  BY DEF GetPage, Touched, w
<1>5. Live' = Live
  BY DEF GetPage, Live
<1>6. ListInv'
  BY <1>2, <1>3, <1>4, <1>5 DEF ListInv
<1>7. TableType'
  BY <1>1, <1>3, <1>4, <1>5 DEF TableType, GetPage
<1>. QED  BY <1>5, <1>6, <1>7
     DEF GetPage, ListedIsOpen, OnePageOneId, TabsBounded, IdMeansOnePage

LEMMA NewPageInv ==
    ASSUME TableInv, NewPage
    PROVE  /\ TableInv' /\ nextID' = nextID + 1 /\ made' = made + 1
           /\ Live' = (Live \ Victim) \cup {nextID'}
           /\ \A i \in Live \ Victim : pages'[i] = pages[i]
           /\ pages'[nextID'] = made'
<1>. USE DEF TableInv
<1>. DEFINE n == nextID + 1  m == made + 1
<1>0. /\ nextID' = n /\ made' = m /\ nextID \in Nat /\ made \in Nat /\ nextID < MaxId
      /\ order \in Seq(1..nextID) /\ Live \subseteq 1..nextID
      /\ closed \subseteq 1..made /\ tabs \subseteq 1..made
      /\ told \subseteq (1..nextID) \X (1..made)
      /\ \A i \in Live : pages[i] \in 1..made
  BY DEF NewPage, TableType
<1>1. 1..nextID \subseteq 1..n /\ 1..made \subseteq 1..m /\ n \in 1..n /\ m \in 1..m
      /\ n \notin 1..nextID /\ m \notin 1..made /\ n \in 0..MaxId /\ n \in 0..n
  BY <1>0, SessionAssumption
<1>. HIDE DEF n, m
<1>2. /\ OrderLeft \in Seq(1..nextID) /\ NoRepeat(OrderLeft) /\ Victim \subseteq Live
      /\ \A x : Has(OrderLeft, x) => Has(order, x)
      /\ \A i \in Live \ Victim : Has(OrderLeft, i)
      /\ ~Full => Victim = {}
      /\ Full => \E v \in Live : Victim = {v}
  BY RoomFacts
<1>3. OrderLeft \in Seq(1..n)
  BY <1>1, <1>2, SeqMonotonic
<1>4. ~Has(OrderLeft, n)
  <2>1. \A k \in 1..Len(OrderLeft) : OrderLeft[k] \in 1..nextID
    BY <1>2, ElementOfSeq
  <2>. QED  BY <2>1, <1>1 DEF Has
<1>5. /\ Append(OrderLeft, n) \in Seq(1..n) /\ NoRepeat(Append(OrderLeft, n))
      /\ \A x : Has(Append(OrderLeft, n), x) <=> x = n \/ Has(OrderLeft, x)
  BY <1>1, <1>2, <1>3, <1>4, AppendKeeps
<1>6. order' = Append(OrderLeft, n)
  BY <1>0 DEF NewPage
<1>7. /\ pages' = [i \in (Live \ Victim) \cup {n} |-> IF i = n THEN m ELSE pages[i]]
      /\ Live' = (Live \ Victim) \cup {n}
  BY <1>0 DEF NewPage, Live
<1>8. /\ \A i \in Live \ Victim : i # n /\ pages'[i] = pages[i]
      /\ pages'[n] = m /\ Live' \subseteq 1..n
  BY <1>0, <1>1, <1>7
<1>9. pages' \in [Live' -> 1..m]
  BY <1>0, <1>1, <1>7
<1>10. Evicted \subseteq 1..made /\ Evicted = {pages[i] : i \in Victim}
  BY <1>0, <1>2 DEF Evicted
<1>11. /\ closed' = closed \cup Evicted /\ tabs' = (tabs \ Evicted) \cup {m}
       /\ told' = told \cup {<<n, m>>} /\ got' = n /\ running' = TRUE /\ strays' = strays
  BY <1>0 DEF NewPage
<1>12. closed' \subseteq 1..m /\ tabs' \subseteq 1..m /\ told' \subseteq (1..n) \X (1..m)
  <2>1. closed' \subseteq 1..m /\ tabs' \subseteq 1..m
    BY <1>0, <1>1, <1>10, <1>11
  <2>2. told \subseteq (1..n) \X (1..m) /\ <<n, m>> \in (1..n) \X (1..m)
    BY <1>0, <1>1
  <2>. QED  BY <2>1, <2>2, <1>11
<1>13. TableType'
  BY <1>0, <1>1, <1>5, <1>6, <1>8, <1>9, <1>11, <1>12 DEF TableType
<1>14. ListInv'
  BY <1>2, <1>5, <1>6, <1>7 DEF ListInv
<1>15. ListedIsOpen' /\ OnePageOneId'
  BY <1>0, <1>1, <1>2, <1>7, <1>8, <1>10, <1>11 DEF ListedIsOpen, OnePageOneId
<1>16. IdMeansOnePage'
  <2>1. \A t, u \in told : t[1] = u[1] => t[2] = u[2]
    BY DEF IdMeansOnePage
  <2>2. \A t \in told : t[1] # n
    BY <1>0, <1>1
  <2>3. \A t, u \in told' : t[1] = u[1] => t[2] = u[2]
    BY <2>1, <2>2, <1>11
  <2>4. \A i \in Live' : <<i, pages'[i]>> \in told'
    BY <1>7, <1>8, <1>11 DEF IdMeansOnePage
  <2>. QED  BY <2>3, <2>4 DEF IdMeansOnePage
<1>17. tabs' \subseteq {pages'[i] : i \in Live'}
  <2>1. ASSUME NEW p \in tabs \ Evicted PROVE p \in {pages'[i] : i \in Live'}
    <3>1. PICK i \in Live : p = pages[i]
      BY DEF TabsBounded
    <3>2. i \in Live \ Victim
      BY <2>1, <3>1, <1>10
    <3>. QED  BY <3>1, <3>2, <1>7, <1>8
  <2>2. m \in {pages'[i] : i \in Live'}
    BY <1>7, <1>8
  <2>. QED  BY <2>1, <2>2, <1>11
<1>18. MaxPages > 0 => Cardinality(Live') <= MaxPages
  <2>. SUFFICES ASSUME MaxPages > 0 PROVE Cardinality(Live') <= MaxPages
    OBVIOUS
  <2>1. /\ IsFiniteSet(Live) /\ Cardinality(Live) \in Nat /\ n \notin Live \ Victim
        /\ Cardinality(Live) <= MaxPages /\ MaxPages \in Nat
    BY <1>0, <1>1, LiveFinite, SessionAssumption DEF TabsBounded
  <2>2. CASE Full
    <3>1. PICK v \in Live : Victim = {v}
      BY <2>2, <1>2
    <3>2. IsFiniteSet(Live \ {v}) /\ Cardinality(Live \ {v}) = Cardinality(Live) - 1
      BY <2>1, FS_RemoveElement
    <3>3. Cardinality((Live \ {v}) \cup {n}) = Cardinality(Live \ {v}) + 1
      BY <2>1, <3>1, <3>2, FS_AddElement
    <3>. QED  BY <2>1, <3>1, <3>2, <3>3, <1>7
  <2>3. CASE ~Full
    <3>1. Victim = {} /\ Cardinality(Live) < MaxPages
      BY <2>1, <2>3, <1>2 DEF Full
    <3>2. Cardinality(Live \cup {n}) = Cardinality(Live) + 1
      BY <2>1, <3>1, FS_AddElement
    <3>. QED  BY <2>1, <3>1, <3>2, <1>7
  <2>. QED  BY <2>2, <2>3
<1>19. TabsBounded'
  BY <1>17, <1>18 DEF TabsBounded
<1>20. n = nextID + 1 /\ m = made + 1
  BY DEF n, m
<1>21. TableInv'
  BY <1>13, <1>14, <1>15, <1>16, <1>19
<1>. QED  BY <1>0, <1>7, <1>8, <1>20, <1>21

LEMMA KeptAll == ASSUME TableType PROVE Kept(pages, Live) = pages
BY DEF Kept, Live, TableType

LEMMA NewPageFailsInv == ASSUME TableInv, NewPageFails PROVE TableInv'
<1>. USE DEF TableInv
<1>1. /\ OrderLeft \in Seq(1..nextID) /\ NoRepeat(OrderLeft) /\ Victim \subseteq Live
      /\ \A i \in Live \ Victim : Has(OrderLeft, i)
  BY RoomFacts
<1>. DEFINE S == Live \ Victim
<1>2. pages' = Kept(pages, S) /\ order' = OrderLeft /\ Live' = S
  BY DEF NewPageFails, Kept, Live
<1>3. Evicted = {pages[i] : i \in Live \ S}
  BY <1>1 DEF Evicted
<1>4. ListInv'
  BY <1>1, <1>2 DEF ListInv
<1>5. got' \in 0..nextID /\ order' \in Seq(1..nextID)
  BY <1>1, <1>2 DEF NewPageFails, TableType
<1>6. S \in SUBSET Live
  OBVIOUS
<1>7. /\ closed' = closed \cup Evicted /\ tabs' = tabs \ Evicted /\ running' \in BOOLEAN
      /\ strays' \in 0..MaxStrays /\ UNCHANGED <<nextID, made, told>>
  BY DEF NewPageFails
<1>. HIDE DEF S, TableInv
<1>. QED  BY <1>2, <1>3, <1>4, <1>5, <1>6, <1>7, Shrinks

\* The steps that take the pages of a set out of the table, with or without
\* closing them, and leave the list.
LEMMA DropsInv ==
    ASSUME TableInv, NEW S \in SUBSET Live, pages' = Kept(pages, S), order' = order,
           closed' \subseteq closed \cup {pages[i] : i \in Live \ S},
           tabs' \subseteq tabs \ {pages[i] : i \in Live \ S},
           running' \in BOOLEAN, strays' \in 0..MaxStrays, got' \in 0..nextID,
           UNCHANGED <<nextID, made, told>>
    PROVE  TableInv'
<1>1. Live' = S
  BY DEF Kept, Live
<1>2. ListInv'
  BY <1>1 DEF TableInv, ListInv
<1>3. order' \in Seq(1..nextID)
  BY DEF TableInv, TableType
<1>. QED  BY <1>2, <1>3, Shrinks

LEMMA ClosePageInv == ASSUME TableInv, NEW i, ClosePage(i) PROVE TableInv'
<1>1. i \in Live /\ order \in Seq(1..nextID) /\ 1..nextID \in SUBSET Nat /\ ListInv
  BY DEF ClosePage, TableInv, TableType
<1>2. /\ Without(order, i) \in Seq(1..nextID) /\ NoRepeat(Without(order, i))
      /\ \A x : Has(Without(order, i), x) <=> x # i /\ Has(order, x)
  BY <1>1, WithoutKeeps DEF ListInv
<1>. DEFINE S == Live \ {i}
<1>3. pages' = Kept(pages, S) /\ order' = Without(order, i) /\ Live' = S
  BY DEF ClosePage, Kept, Live
<1>4. ListInv'
  BY <1>1, <1>2, <1>3 DEF ListInv
<1>5. {pages[i]} = {pages[j] : j \in Live \ S} /\ S \in SUBSET Live
  BY <1>1
<1>6. /\ closed' = closed \cup {pages[i]} /\ tabs' = tabs \ {pages[i]}
      /\ got' \in 0..nextID /\ running' \in BOOLEAN /\ strays' \in 0..MaxStrays
      /\ UNCHANGED <<nextID, made, told>>
  BY DEF ClosePage, TableInv, TableType
<1>7. order' \in Seq(1..nextID)
  BY <1>2, <1>3
<1>. HIDE DEF S
<1>. QED  BY <1>3, <1>4, <1>5, <1>6, <1>7, Shrinks

LEMMA CloseInv == ASSUME TableInv, Close PROVE TableInv' /\ Live' = {}
<1>1. Nothing = Kept(pages, {}) /\ {} \in SUBSET Live /\ Live \ {} = Live
  BY DEF Nothing, Kept
<1>2. 0 \in 0..MaxStrays /\ 0 \in 0..nextID /\ FALSE \in BOOLEAN
  BY SessionAssumption DEF TableInv, TableType
<1>3. /\ pages' = Kept(pages, {}) /\ order' = order
      /\ closed' = closed \cup {pages[i] : i \in Live} /\ tabs' = {}
      /\ running' \in BOOLEAN /\ strays' \in 0..MaxStrays /\ got' \in 0..nextID
      /\ UNCHANGED <<nextID, made, told>>
  BY <1>1, <1>2 DEF Close
<1>4. Live' = {}
  BY <1>3 DEF Kept, Live
<1>. QED  BY <1>1, <1>3, <1>4, DropsInv

LEMMA SmallStepsInv ==
    ASSUME TableInv,
           \/ EnsureBrowser \/ ListPages \/ (\E i \in Ids : Missing(i))
           \/ (\E p \in tabs : TabGone(p)) \/ UNCHANGED tableVars
    PROVE  TableInv'
<1>0. /\ running \in BOOLEAN /\ TRUE \in BOOLEAN /\ strays \in 0..MaxStrays
      /\ got \in 0..nextID /\ TableType
  BY DEF TableInv, TableType
<1>1. pages = Kept(pages, Live) /\ Live \in SUBSET Live /\ {pages[i] : i \in Live \ Live} = {}
  BY <1>0, KeptAll
<1>2. CASE EnsureBrowser \/ (\E p \in tabs : TabGone(p)) \/ UNCHANGED tableVars
  <2>1. /\ pages' = Kept(pages, Live) /\ order' = order /\ closed' = closed /\ tabs' \subseteq tabs
        /\ running' \in BOOLEAN /\ strays' \in 0..MaxStrays /\ got' \in 0..nextID
        /\ UNCHANGED <<nextID, made, told>>
    BY <1>0, <1>1, <1>2 DEF EnsureBrowser, TabGone, tableVars
  <2>. QED  BY <1>1, <2>1, DropsInv
<1>3. CASE ListPages \/ (\E i \in Ids : Missing(i))
  <2>1. {i \in Live : pages[i] \notin closed} = Live
    BY DEF TableInv, ListedIsOpen
  <2>2. \A i : Missing(i) => Live \ {i} = Live
    BY DEF Missing, TableInv, ListedIsOpen
  <2>3. pages' = Kept(pages, Live)
    BY <1>3, <2>1, <2>2 DEF ListPages, Missing
  <2>4. /\ order' = order /\ closed' = closed /\ tabs' = tabs
        /\ running' \in BOOLEAN /\ strays' \in 0..MaxStrays /\ got' \in 0..nextID
        /\ UNCHANGED <<nextID, made, told>>
    BY <1>0, <1>3 DEF ListPages, Missing
  <2>. QED  BY <1>1, <2>3, <2>4, DropsInv
<1>. QED  BY <1>2, <1>3

\* A step keeps the Page of every identifier given before that is still in the
\* table, and gives at most the next one.
TableMoves ==
    /\ nextID' \in {nextID, nextID + 1} /\ made' \in {made, made + 1}
    /\ \A j \in Live' : j \in 1..nextID => j \in Live /\ pages'[j] = pages[j]

LEMMA KeptMoves ==
    ASSUME NEW S, pages' = Kept(pages, S) \/ pages' = pages, UNCHANGED <<nextID, made>>
    PROVE  TableMoves
BY DEF TableMoves, Kept, Live

LEMMA PageFromRequestInv ==
    ASSUME TableInv, NEW i, PageFromRequest(i)
    PROVE  TableInv' /\ TableMoves /\ i \in Live'
<1>1. CASE GetPage(i)
  <2>1. pages' = pages /\ i \in Live
    BY <1>1 DEF GetPage
  <2>2. TableInv' /\ Live' = Live /\ nextID' = nextID /\ made' = made
    BY <1>1, GetPageInv
  <2>. QED  BY <2>1, <2>2 DEF TableMoves
<1>2. CASE NewPage /\ i = nextID'
  <2>1. /\ TableInv' /\ nextID' = nextID + 1 /\ made' = made + 1
        /\ Live' = (Live \ Victim) \cup {nextID'}
        /\ \A j \in Live \ Victim : pages'[j] = pages[j]
    BY <1>2, NewPageInv
  <2>2. nextID' \notin 1..nextID
    BY <2>1 DEF TableInv, TableType
  <2>. QED  BY <1>2, <2>1, <2>2 DEF TableMoves
<1>. QED  BY <1>1, <1>2 DEF PageFromRequest

LEMMA OverlayRanges ==
    ASSUME TableInv, OverlayInv, TableInv', TableMoves
    PROVE  /\ (1..nextID) \X Selectors \subseteq (1..nextID') \X Selectors
           /\ \A l \in Nat : (1..made) \X (1..l) \subseteq (1..made') \X (1..l)
           /\ \A k \in DOMAIN overlays : k[1] \in Live'
                 => k[1] \in Live /\ <<pages'[k[1]], overlays[k]>> \in handlers
<1>1. nextID \in Nat /\ made \in Nat
  BY DEF TableInv, TableType
<1>2. 1..nextID \subseteq 1..nextID' /\ 1..made \subseteq 1..made'
  BY <1>1 DEF TableMoves
<1>3. ASSUME NEW k \in DOMAIN overlays, k[1] \in Live'
      PROVE  k[1] \in Live /\ <<pages'[k[1]], overlays[k]>> \in handlers
  <2>1. k[1] \in 1..nextID
    BY DEF OverlayInv, OverlayType
  <2>. QED  BY <1>3, <2>1 DEF TableMoves, OverlayInv, HandlerRegistered
<1>. QED  BY <1>2, <1>3

LEMMA OverlayKept ==
    ASSUME TableInv, OverlayInv, TableInv', TableMoves, UNCHANGED overlayVars
    PROVE  OverlayInv'
<1>1. /\ (1..nextID) \X Selectors \subseteq (1..nextID') \X Selectors
      /\ (1..made) \X (1..locators) \subseteq (1..made') \X (1..locators)
      /\ \A k \in DOMAIN overlays : k[1] \in Live'
            => <<pages'[k[1]], overlays[k]>> \in handlers
  BY OverlayRanges DEF OverlayInv, OverlayType
<1>2. overlays' = overlays /\ handlers' = handlers /\ locators' = locators
  BY DEF overlayVars
<1>3. OverlayType'
  BY <1>1, <1>2 DEF OverlayInv, OverlayType
<1>4. OneLocatorOneKey' /\ HandlerRegistered'
  BY <1>1, <1>2 DEF OverlayInv, OneLocatorOneKey, HandlerRegistered
<1>. QED  BY <1>3, <1>4 DEF OverlayInv

LEMMA AddLocatorHandlerInv ==
    ASSUME SessionInv, NEW i, NEW s \in Selectors, AddLocatorHandler(i, s)
    PROVE  SessionInv'
<1>. USE DEF SessionInv
<1>. DEFINE l == locators + 1  key == <<i, s>>
<1>1. TableInv' /\ TableMoves /\ i \in Live'
  BY PageFromRequestInv DEF AddLocatorHandler
<1>2. /\ locators \in Nat /\ l \in 0..MaxLocators /\ l \notin 1..locators /\ l \in 1..l
      /\ 1..locators \subseteq 1..l /\ DOMAIN overlays \subseteq (1..nextID) \X Selectors
      /\ \A k \in DOMAIN overlays : overlays[k] \in 1..locators
      /\ handlers \subseteq (1..made) \X (1..locators)
  BY SessionAssumption DEF AddLocatorHandler, OverlayInv, OverlayType
<1>. HIDE DEF l
<1>3. /\ locators' = l /\ handlers' = handlers \cup {<<pages'[i], l>>}
      /\ overlays' = [k \in DOMAIN overlays \cup {key} |-> IF k = key THEN l ELSE overlays[k]]
  BY DEF AddLocatorHandler, l
<1>4. /\ (1..nextID) \X Selectors \subseteq (1..nextID') \X Selectors
      /\ (1..made) \X (1..locators) \subseteq (1..made') \X (1..locators)
      /\ \A k \in DOMAIN overlays : k[1] \in Live'
            => <<pages'[k[1]], overlays[k]>> \in handlers
  BY <1>1, <1>2, OverlayRanges
<1>5. i \in 1..nextID' /\ pages'[i] \in 1..made'
  BY <1>1 DEF TableInv, TableType
<1>6. key \in (1..nextID') \X Selectors /\ key[1] = i
  BY <1>5
<1>. HIDE DEF key
<1>7. /\ DOMAIN overlays' = DOMAIN overlays \cup {key} /\ overlays'[key] = l
      /\ \A k \in DOMAIN overlays : k # key => overlays'[k] = overlays[k]
  BY <1>3
<1>8. overlays' \in [DOMAIN overlays' -> 1..l]
  BY <1>2, <1>3
<1>9. handlers' \subseteq (1..made') \X (1..l)
  <2>1. <<pages'[i], l>> \in (1..made') \X (1..l)
    BY <1>2, <1>5
  <2>2. handlers \subseteq (1..made') \X (1..l)
    BY <1>2, <1>4
  <2>. QED  BY <2>1, <2>2, <1>3
<1>10. OverlayType'
  BY <1>2, <1>3, <1>4, <1>6, <1>7, <1>8, <1>9 DEF OverlayType
<1>11. OneLocatorOneKey'
  BY <1>2, <1>7 DEF OverlayInv, OneLocatorOneKey
<1>12. HandlerRegistered'
  BY <1>3, <1>4, <1>6, <1>7 DEF HandlerRegistered
<1>. QED  BY <1>1, <1>10, <1>11, <1>12 DEF OverlayInv

LEMMA RemoveLocatorHandlerInv ==
    ASSUME SessionInv, NEW i, NEW s \in Selectors, RemoveLocatorHandler(i, s)
    PROVE  SessionInv'
<1>. USE DEF SessionInv
<1>. DEFINE key == <<i, s>>
<1>1. TableInv' /\ TableMoves
  BY PageFromRequestInv DEF RemoveLocatorHandler
<1>2. /\ (1..nextID) \X Selectors \subseteq (1..nextID') \X Selectors
      /\ (1..made) \X (1..locators) \subseteq (1..made') \X (1..locators)
      /\ \A k \in DOMAIN overlays : k[1] \in Live'
            => <<pages'[k[1]], overlays[k]>> \in handlers
  BY <1>1, OverlayRanges DEF OverlayInv, OverlayType
<1>3. /\ key \in DOMAIN overlays /\ locators' = locators
      /\ handlers' = handlers \ {<<pages'[i], overlays[key]>>}
      /\ overlays' = Kept(overlays, DOMAIN overlays \ {key})
  BY DEF RemoveLocatorHandler
<1>. HIDE DEF key
<1>4. /\ DOMAIN overlays' = DOMAIN overlays \ {key}
      /\ \A k \in DOMAIN overlays' : overlays'[k] = overlays[k] /\ overlays[k] # overlays[key]
  BY <1>3 DEF Kept, OverlayInv, OneLocatorOneKey
<1>5. overlays' \in [DOMAIN overlays' -> 1..locators]
  BY <1>3 DEF Kept, OverlayInv, OverlayType
<1>6. OverlayType'
  BY <1>2, <1>3, <1>4, <1>5 DEF OverlayInv, OverlayType
<1>7. OneLocatorOneKey'
  BY <1>4 DEF OverlayInv, OneLocatorOneKey
<1>8. HandlerRegistered'
  BY <1>2, <1>3, <1>4 DEF HandlerRegistered
<1>. QED  BY <1>1, <1>6, <1>7, <1>8 DEF OverlayInv

LEMMA StepInv == SessionInv /\ [Next]_vars => SessionInv'
<1>. SUFFICES ASSUME SessionInv, [Next]_vars PROVE SessionInv'
  OBVIOUS
<1>. USE DEF SessionInv
<1>1. CASE UNCHANGED vars
  <2>1. UNCHANGED tableVars /\ UNCHANGED overlayVars
    BY <1>1 DEF vars
  <2>2. TableInv'
    BY <2>1, SmallStepsInv
  <2>3. TableMoves
    BY <2>1, KeptMoves DEF tableVars
  <2>. QED  BY <2>1, <2>2, <2>3, OverlayKept
<1>2. CASE \/ EnsureBrowser \/ ListPages \/ (\E i \in Ids : Missing(i))
           \/ (\E p \in tabs : TabGone(p))
  <2>1. TableInv'
    BY <1>2, SmallStepsInv
  <2>2. UNCHANGED overlayVars
    BY <1>2 DEF EnsureBrowser, ListPages, Missing, TabGone
  <2>3. TableMoves
    BY <1>2, KeptMoves DEF EnsureBrowser, ListPages, Missing, TabGone
  <2>. QED  BY <2>1, <2>2, <2>3, OverlayKept
<1>3. CASE NewPage /\ UNCHANGED overlayVars
  <2>1. /\ TableInv' /\ nextID' = nextID + 1 /\ made' = made + 1
        /\ Live' = (Live \ Victim) \cup {nextID'}
        /\ \A j \in Live \ Victim : pages'[j] = pages[j]
    BY <1>3, NewPageInv
  <2>2. nextID' \notin 1..nextID
    BY <2>1 DEF TableInv, TableType
  <2>3. TableMoves
    BY <2>1, <2>2 DEF TableMoves
  <2>. QED  BY <1>3, <2>1, <2>3, OverlayKept
<1>4. CASE NewPageFails
  <2>1. TableInv'
    BY <1>4, NewPageFailsInv
  <2>2. TableMoves /\ UNCHANGED overlayVars
    BY <1>4, KeptMoves DEF NewPageFails
  <2>. QED  BY <2>1, <2>2, OverlayKept
<1>5. CASE PageTool
  <2>1. PICK i \in Ids : PageFromRequest(i) /\ UNCHANGED overlayVars
    BY <1>5 DEF PageTool
  <2>2. TableInv' /\ TableMoves
    BY <2>1, PageFromRequestInv
  <2>. QED  BY <2>1, <2>2, OverlayKept
<1>6. ASSUME NEW i \in Ids, ClosePage(i) PROVE SessionInv'
  <2>1. TableInv'
    BY <1>6, ClosePageInv
  <2>2. TableMoves /\ UNCHANGED overlayVars
    BY <1>6, KeptMoves DEF ClosePage
  <2>. QED  BY <2>1, <2>2, OverlayKept
<1>7. CASE Close
  <2>1. TableInv' /\ Live' = {}
    BY <1>7, CloseInv
  <2>2. /\ DOMAIN overlays' = {} /\ overlays' \in [{} -> 1..locators]
        /\ UNCHANGED <<nextID, made, handlers, locators>>
    BY <1>7 DEF Close, Nothing
  <2>3. OverlayType'
    BY <2>2 DEF OverlayInv, OverlayType
  <2>. QED  BY <2>1, <2>2, <2>3 DEF OverlayInv, OneLocatorOneKey, HandlerRegistered
<1>8. ASSUME NEW i \in Ids, NEW s \in Selectors,
             AddLocatorHandler(i, s) \/ RemoveLocatorHandler(i, s)
      PROVE  SessionInv'
  BY <1>8, AddLocatorHandlerInv, RemoveLocatorHandlerInv
<1>. QED  BY <1>1, <1>2, <1>3, <1>4, <1>5, <1>6, <1>7, <1>8 DEF Next

\* What every reachable state of the session satisfies; the theorems below are
\* parts of it. The table alone would not do: that evictLRU finds a victim needs
\* the list, and that an overlay entry leads to its handler needs one locator an
\* entry.
THEOREM Invariant == Spec => []SessionInv
BY InitInv, StepInv, PTL DEF Spec

\* Every variable keeps its type; in particular an identifier in the list, in
\* the table or told to a client is one that newPage has given.
THEOREM TypeCorrect == Spec => []TypeOK
<1>1. SessionInv => TypeOK
  BY DEF SessionInv, TableInv, OverlayInv, TypeOK
<1>. QED  BY <1>1, Invariant, PTL

\* For every limit, the table never holds more pages than WithMaxPages says, and
\* every tab that was opened for a page and not closed belongs to one of them:
\* evictLRU always finds a victim, whatever the list still holds of pages that
\* are gone (session.go:130-132, 159-169).
THEOREM BoundedTabs == Spec => []TabsBounded
<1>1. SessionInv => TabsBounded
  BY DEF SessionInv, TableInv
<1>. QED  BY <1>1, Invariant, PTL

\* An identifier told to a client never comes to mean another page, because
\* nextID is not reset with the rest by Close (session.go:230-249).
THEOREM OnePageAnId == Spec => []IdMeansOnePage
<1>1. SessionInv => IdMeansOnePage
  BY DEF SessionInv, TableInv
<1>. QED  BY <1>1, Invariant, PTL

\* An entry of s.overlays for a page in the table leads to a handler registered
\* on that page (tools_overlay.go:93-99, 130-137).
THEOREM HandlersAreThere == Spec => []HandlerRegistered
<1>1. SessionInv => HandlerRegistered
  BY DEF SessionInv, OverlayInv
<1>. QED  BY <1>1, Invariant, PTL

\* No page in the table has its closed flag set, so the branches of session.go
\* that look for one (116, 178 and 202) are never taken.
THEOREM ListedNeverClosed == Spec => []ListedIsOpen
<1>1. SessionInv => ListedIsOpen
  BY DEF SessionInv, TableInv
<1>. QED  BY <1>1, Invariant, PTL

-----------------------------------------------------------------------------
(* The table implements the cache *)

LEMMA SamePairs ==
    ASSUME NEW S, NEW A \in SUBSET (S \X S), NEW B \in SUBSET (S \X S),
           \A x, y \in S : <<x, y>> \in A <=> <<x, y>> \in B
    PROVE  A = B
OBVIOUS

\* Pages leave; those that stay were last used in the order of before.
LEMMA OlderShrinks ==
    ASSUME NEW S \in SUBSET Live, Live' = S,
           \A x, y \in S : Precedes(order', x, y) <=> Precedes(order, x, y)
    PROVE  Older' = Cache!Among(S)
<1>1. Older' \in SUBSET (S \X S) /\ Cache!Among(S) \in SUBSET (S \X S)
  BY DEF Older, Cache!Among
<1>2. \A x, y \in S : <<x, y>> \in Older' <=> <<x, y>> \in Cache!Among(S)
  BY DEF Older, Cache!Among
<1>. QED  BY <1>1, <1>2, SamePairs

\* One page is used last, after those that stay.
LEMMA OlderGrows ==
    ASSUME NEW S \in SUBSET Live, NEW i, i \notin S, Live' = S \cup {i},
           \A x, y \in S : Precedes(order', x, y) <=> Precedes(order, x, y),
           \A x \in S : Precedes(order', x, i),
           \A x \in S \cup {i} : ~Precedes(order', i, x)
    PROVE  Older' = Cache!Among(S) \cup (S \X {i})
<1>. DEFINE T == S \cup {i}  B == Cache!Among(S) \cup (S \X {i})
<1>1. Older' \in SUBSET (T \X T) /\ B \in SUBSET (T \X T)
  BY DEF Older, Cache!Among
<1>2. ASSUME NEW x \in T, NEW y \in T PROVE <<x, y>> \in Older' <=> <<x, y>> \in B
  <2>1. <<x, y>> \in Older' <=> Precedes(order', x, y)
    BY DEF Older
  <2>2. CASE x = i
    BY <2>1, <2>2 DEF Cache!Among
  <2>3. CASE x # i /\ y = i
    BY <2>1, <2>3
  <2>4. CASE x # i /\ y # i
    BY <2>1, <2>4 DEF Cache!Among, Older
  <2>. QED  BY <2>2, <2>3, <2>4
<1>. HIDE DEF T, B
<1>3. Older' = B
  BY <1>1, <1>2, SamePairs
<1>. QED  BY <1>3 DEF B

\* The page that evictLRU takes is the least recently used of the table.
LEMMA RoomMaps == ASSUME TableType, ListInv PROVE Cache!Room = Live \ Victim
<1>1. Cache!IsFull <=> Full
  BY DEF Cache!IsFull, Full, Cache!Cardinality, Cardinality
<1>2. CASE ~Full
  BY <1>1, <1>2, RoomFacts DEF Cache!Room
<1>3. CASE Full
  <2>1. PICK v \in Live :
           /\ Victim = {v}
           /\ \A x \in Live \ {v} : Precedes(order, v, x) /\ ~Precedes(order, x, v)
    BY <1>3, RoomFacts
  <2>2. \A x, y \in Live : <<x, y>> \in Older <=> Precedes(order, x, y)
    BY DEF Older
  <2>3. Cache!LeastRecent = {v}
    BY <2>1, <2>2 DEF Cache!LeastRecent
  <2>. QED  BY <1>1, <1>3, <2>1, <2>3 DEF Cache!Room
<1>. QED  BY <1>2, <1>3

LEMMA GetPageMaps == ASSUME TableInv, NEW i, GetPage(i) PROVE i \in Ids /\ Cache!Use(i)
<1>1. /\ i \in Live /\ i \in Ids /\ order \in Seq(1..nextID) /\ 1..nextID \in SUBSET Nat
      /\ i \in 1..nextID
  BY SessionAssumption DEF GetPage, TableInv, TableType, Ids
<1>. DEFINE w == Without(order, i)
<1>2. /\ w \in Seq(1..nextID) /\ NoRepeat(w)
      /\ \A x : Has(w, x) <=> x # i /\ Has(order, x)
      /\ \A x, y : Precedes(w, x, y) <=> x # i /\ y # i /\ Precedes(order, x, y)
  BY <1>1, WithoutKeeps DEF TableInv, ListInv
<1>. HIDE DEF w
<1>3. \A x, y : Precedes(Append(w, i), x, y) <=> Precedes(w, x, y) \/ (y = i /\ Has(w, x))
  <2>1. ~Has(w, i)
    BY <1>2
  <2>2. w \in Seq(1..nextID) /\ i \in 1..nextID /\ NoRepeat(w)
    BY <1>1, <1>2
  <2>. QED  BY <2>1, <2>2, AppendKeeps
<1>4. order' = Append(w, i) /\ Live' = Live /\ got' = i
  BY DEF GetPage, Touched, w, Live
<1>. DEFINE S == Live \ {i}
<1>5. /\ S \in SUBSET Live /\ i \notin S /\ Live' = S \cup {i}
      /\ \A x, y \in S : Precedes(order', x, y) <=> Precedes(order, x, y)
      /\ \A x \in S : Precedes(order', x, i)
      /\ \A x \in S \cup {i} : ~Precedes(order', i, x)
  BY <1>1, <1>2, <1>3, <1>4 DEF TableInv, ListInv
<1>. HIDE DEF S
<1>6. Older' = Cache!Among(S) \cup (S \X {i})
  BY <1>5, OlderGrows
<1>. QED  BY <1>1, <1>4, <1>6 DEF S, Cache!Use

LEMMA NewPageMaps ==
    ASSUME TableInv, NewPage
    PROVE  nextID' \in Ids /\ Cache!Open(nextID')
<1>. DEFINE n == nextID + 1  S == Live \ Victim
<1>1. /\ nextID' = n /\ nextID \in Nat /\ n \in Ids /\ n \notin 1..nextID /\ Live \subseteq 1..nextID
      /\ 1..nextID \subseteq 1..n /\ n \in 1..n /\ n \notin Live
  BY SessionAssumption DEF NewPage, TableInv, TableType, Ids
<1>2. /\ OrderLeft \in Seq(1..nextID) /\ NoRepeat(OrderLeft)
      /\ \A i \in S : Has(OrderLeft, i)
      /\ \A i, j \in S : Precedes(OrderLeft, i, j) <=> Precedes(order, i, j)
  BY RoomFacts DEF TableInv
<1>3. order' = Append(OrderLeft, n) /\ Live' = S \cup {n} /\ got' = n
  BY <1>1 DEF NewPage, Live
<1>. HIDE DEF n
<1>4. ~Has(OrderLeft, n) /\ OrderLeft \in Seq(1..n)
  <2>1. \A k \in 1..Len(OrderLeft) : OrderLeft[k] \in 1..nextID
    BY <1>2, ElementOfSeq
  <2>. QED  BY <2>1, <1>1, <1>2, SeqMonotonic DEF Has
<1>5. \A x, y : Precedes(order', x, y) <=> Precedes(OrderLeft, x, y) \/ (y = n /\ Has(OrderLeft, x))
  BY <1>1, <1>2, <1>3, <1>4, AppendKeeps
<1>6. \A x, y : Precedes(OrderLeft, x, y) => Has(OrderLeft, x) /\ Has(OrderLeft, y)
  BY DEF Precedes, Has
<1>7. /\ S \in SUBSET Live /\ n \notin S
      /\ \A x, y \in S : Precedes(order', x, y) <=> Precedes(order, x, y)
      /\ \A x \in S : Precedes(order', x, n)
      /\ \A x \in S \cup {n} : ~Precedes(order', n, x)
  BY <1>1, <1>2, <1>4, <1>5, <1>6
<1>8. Cache!Room = S
  BY RoomMaps DEF TableInv
<1>. HIDE DEF S
<1>9. Older' = Cache!Among(S) \cup (S \X {n})
  BY <1>3, <1>7, OlderGrows
<1>. QED  BY <1>1, <1>3, <1>8, <1>9 DEF Cache!Open

LEMMA NewPageFailsMaps == ASSUME TableInv, NewPageFails PROVE Cache!OpenFails
<1>. DEFINE S == Live \ Victim
<1>1. /\ S \in SUBSET Live
      /\ \A i, j \in S : Precedes(OrderLeft, i, j) <=> Precedes(order, i, j)
  BY RoomFacts DEF TableInv
<1>2. order' = OrderLeft /\ Live' = S /\ got' = 0
  BY DEF NewPageFails, Kept, Live
<1>3. Cache!Room = S
  BY RoomMaps DEF TableInv
<1>. HIDE DEF S
<1>4. Older' = Cache!Among(S)
  BY <1>1, <1>2, OlderShrinks
<1>. QED  BY <1>2, <1>3, <1>4 DEF Cache!OpenFails

LEMMA ClosePageMaps == ASSUME TableInv, NEW i, ClosePage(i) PROVE Cache!ClosePage(i)
<1>. DEFINE S == Live \ {i}
<1>1. order \in Seq(1..nextID) /\ 1..nextID \in SUBSET Nat /\ ListInv
  BY DEF TableInv, TableType
<1>2. \A x, y : Precedes(Without(order, i), x, y) <=> x # i /\ y # i /\ Precedes(order, x, y)
  BY <1>1, WithoutKeeps DEF ListInv
<1>3. i \in Live /\ order' = Without(order, i) /\ Live' = S /\ got' = 0
  BY DEF ClosePage, Kept, Live
<1>4. S \in SUBSET Live /\ \A x, y \in S : Precedes(order', x, y) <=> Precedes(order, x, y)
  BY <1>2, <1>3
<1>. HIDE DEF S
<1>5. Older' = Cache!Among(S)
  BY <1>3, <1>4, OlderShrinks
<1>. QED  BY <1>3, <1>5 DEF S, Cache!ClosePage

LEMMA CloseMaps == ASSUME TableInv, Close PROVE Cache!CloseAll
<1>1. Live' = {} /\ got' = 0
  BY CloseInv DEF Close
<1>2. Older' = {}
  BY <1>1 DEF Older
<1>. QED  BY <1>1, <1>2 DEF Cache!CloseAll

LEMMA NothingMaps ==
    ASSUME TableInv,
           \/ EnsureBrowser \/ ListPages \/ (\E i \in Ids : Missing(i))
           \/ (\E p \in tabs : TabGone(p)) \/ UNCHANGED vars
    PROVE  UNCHANGED <<Live, Older, got>>
<1>1. order' = order /\ got' = got
  BY DEF EnsureBrowser, ListPages, Missing, TabGone, vars, tableVars
<1>2. Live' = Live
  <2>1. CASE ListPages \/ (\E i \in Ids : Missing(i))
    BY <2>1 DEF ListPages, Missing, Kept, Live, TableInv, ListedIsOpen
  <2>2. CASE EnsureBrowser \/ (\E p \in tabs : TabGone(p)) \/ UNCHANGED vars
    BY <2>2 DEF EnsureBrowser, TabGone, vars, tableVars, Live
  <2>. QED  BY <2>1, <2>2
<1>3. Older' = Older
  BY <1>1, <1>2 DEF Older
<1>. QED  BY <1>1, <1>2, <1>3

LEMMA StepMaps == TableInv /\ [Next]_vars => [Cache!Next]_<<Live, Older, got>>
<1>. SUFFICES ASSUME TableInv, [Next]_vars PROVE [Cache!Next]_<<Live, Older, got>>
  OBVIOUS
<1>1. ASSUME NEW i, PageFromRequest(i) PROVE Cache!Next
  BY <1>1, GetPageMaps, NewPageMaps DEF PageFromRequest, Cache!Next
<1>2. CASE \/ EnsureBrowser \/ ListPages \/ (\E i \in Ids : Missing(i))
           \/ (\E p \in tabs : TabGone(p)) \/ UNCHANGED vars
  BY <1>2, NothingMaps
<1>3. CASE NewPage /\ UNCHANGED overlayVars
  BY <1>3, NewPageMaps DEF Cache!Next
<1>4. CASE NewPageFails
  BY <1>4, NewPageFailsMaps DEF Cache!Next
<1>5. CASE Close
  BY <1>5, CloseMaps DEF Cache!Next
<1>6. ASSUME NEW i \in Ids, ClosePage(i) PROVE Cache!Next
  BY <1>6, ClosePageMaps DEF Cache!Next
<1>7. CASE PageTool
  BY <1>1, <1>7 DEF PageTool
<1>8. ASSUME NEW i \in Ids, NEW s \in Selectors,
             AddLocatorHandler(i, s) \/ RemoveLocatorHandler(i, s)
      PROVE  Cache!Next
  BY <1>1, <1>8 DEF AddLocatorHandler, RemoveLocatorHandler
<1>. QED  BY <1>2, <1>3, <1>4, <1>5, <1>6, <1>7, <1>8 DEF Next

\* The map and the list together are a least-recently-used cache, for every
\* limit: the list may hold identifiers of pages of an earlier browser, which
\* evictLRU passes over, and still the page that makes room is always the one
\* not used for longest (session.go:146-169).
THEOREM Implements == Spec => ImplementsCache
<1>1. Init => Cache!Init
  <2>. SUFFICES ASSUME Init PROVE Cache!Init
    OBVIOUS
  <2>1. Live = {} /\ got = 0
    BY DEF Init, Nothing, Live
  <2>. QED  BY <2>1 DEF Cache!Init, Older
<1>2. SessionInv /\ [Next]_vars => [Cache!Next]_<<Live, Older, got>>
  BY StepMaps DEF SessionInv
<1>. QED  BY <1>1, <1>2, Invariant, PTL DEF Spec, ImplementsCache, Cache!Spec, Cache!vars
=============================================================================
