--------------------------- MODULE FrontendProofs ---------------------------
(***************************************************************************)
(* Proofs about what the frontend shows of a conversation: the pages of    *)
(* its messages (MessagePages) and its feed (ConversationFeed); about its  *)
(* connection (Connection); and about its five machines (MCFrontend).      *)
(***************************************************************************)
EXTENDS MCFrontend, WorkspaceProofs, FiniteSetTheorems

(* The pages of messages.                                                  *)
\* A list that is the stretch of positions from a to b.
Stretch(list, a, b) ==
    /\ list \in Seq(Stored) /\ a \in 1 .. b + 1 /\ Len(list) = b - a + 1
    /\ \A i \in 1 .. b - a + 1 : list[i] = a + i - 1

HoleKinds == {"unloaded", "unseen", "evicted", "outdated", "raced"}

\* The last position a cursor lets through, of s.
UpTo(cursor, s) ==
    IF cursor = {} THEN s ELSE CHOOSE m \in 0 .. s : \A n \in cursor : m = IF n = 0 THEN 0 ELSE n - 1

LEMMA PageNumbers ==
  /\ OldMessages \in Nat /\ MaxStored \in Nat /\ MaxReads \in Nat /\ OldMessages <= MaxStored
  /\ MaxLocal \in Nat
  /\ PAGE_SIZE \in Nat \ {0} /\ MESSAGE_EVICTION_THRESHOLD \in Nat \ {0}
  /\ MESSAGE_EVICTION_KEEP \in Nat \ {0} /\ MESSAGE_EVICTION_KEEP <= MESSAGE_EVICTION_THRESHOLD
BY PageBounds

LEMMA StoredIs == Stored = Positions \ {0} /\ Stored \subseteq Positions
BY PageNumbers DEF Stored, Positions

\* A cursor within the table lets through a beginning of it.
LEMMA BeforeIs ==
  ASSUME stored \in Positions, NEW cursor \in Cursors, cursor \subseteq 0 .. stored
  PROVE  /\ UpTo(cursor, stored) \in 0 .. stored
         /\ Before(cursor) = 1 .. UpTo(cursor, stored)
         /\ cursor = {} => UpTo(cursor, stored) = stored
         /\ \A n \in cursor : UpTo(cursor, stored) = IF n = 0 THEN 0 ELSE n - 1
<1>1. stored \in Nat
  BY PageNumbers DEF Positions
<1>2. CASE cursor = {}
  <2>1. Before(cursor) = 1 .. stored
    BY <1>2 DEF Before
  <2>2. UpTo(cursor, stored) = stored
    BY <1>2 DEF UpTo
  <2> QED
    BY <1>1, <1>2, <2>1, <2>2
<1>3. CASE cursor # {}
  <2>1. PICK n \in 0 .. stored : cursor = {n}
    BY <1>3 DEF Cursors
  <2> DEFINE m == IF n = 0 THEN 0 ELSE n - 1
  <2>2. m \in 0 .. stored /\ n \in Nat /\ stored \in Nat
    BY <1>1
  <2>3. \E k \in 0 .. stored : \A x \in cursor : k = IF x = 0 THEN 0 ELSE x - 1
    BY <2>1, <2>2
  <2>4. /\ UpTo(cursor, stored) \in 0 .. stored
        /\ \A x \in cursor : UpTo(cursor, stored) = IF x = 0 THEN 0 ELSE x - 1
    BY <1>3, <2>3 DEF UpTo
  <2>5. UpTo(cursor, stored) = m
    BY <2>1, <2>4
  <2>6. Before(cursor) = {p \in 1 .. stored : p < n}
    BY <2>1 DEF Before
  <2>7. {p \in 1 .. stored : p < n} = 1 .. m
    BY <2>2
  <2> QED
    BY <1>3, <2>4, <2>5, <2>6, <2>7
<1> QED
  BY <1>2, <1>3

\* A page is a stretch that ends where its cursor says, and starts at the beginning of
\* the table unless it says that there is more.
LEMMA PageIs ==
  ASSUME stored \in Positions, NEW cursor \in Cursors, cursor \subseteq 0 .. stored
  PROVE  \E a \in 1 .. UpTo(cursor, stored) + 1 :
             /\ Stretch(PageBefore(cursor), a, UpTo(cursor, stored))
             /\ a = 1 \/ MoreBefore(cursor)
             /\ UpTo(cursor, stored) > 0 => a <= UpTo(cursor, stored)
<1> DEFINE m == UpTo(cursor, stored)
           a == IF m > PAGE_SIZE THEN m - PAGE_SIZE + 1 ELSE 1
           newest == {p \in Before(cursor) :
                        Cardinality({q \in Before(cursor) : q > p}) < PAGE_SIZE}
           list == [i \in 1 .. Cardinality(newest) |-> Min(newest) + i - 1]
<1>1. stored \in Nat /\ m \in 0 .. stored /\ m \in Nat /\ Before(cursor) = 1 .. m
      /\ PAGE_SIZE \in Nat \ {0} /\ 0 .. stored \subseteq Positions
  BY PageNumbers, BeforeIs DEF Positions
<1>2. a \in 1 .. m + 1 /\ (m > 0 => a <= m) /\ (a # 1 => m > PAGE_SIZE) /\ a \in Nat
  BY <1>1
<1>3. PageBefore(cursor) = list
  BY DEF PageBefore
<1> HIDE DEF m
<1>4. ASSUME NEW p \in 1 .. m
      PROVE  Cardinality({q \in 1 .. m : q > p}) = m - p
  <2>1. {q \in 1 .. m : q > p} = p + 1 .. m
    BY <1>1
  <2>2. p + 1 \in Int /\ m \in Int
    BY <1>1
  <2>3. Cardinality(p + 1 .. m) = IF p + 1 > m THEN 0 ELSE m - (p + 1) + 1
    BY <2>2, FS_Interval
  <2>4. Cardinality({q \in 1 .. m : q > p}) = IF p + 1 > m THEN 0 ELSE m - (p + 1) + 1
    BY <2>1, <2>3, Zenon
  <2>5. (IF p + 1 > m THEN 0 ELSE m - (p + 1) + 1) = m - p
    BY <1>1
  <2> QED
    BY <2>4, <2>5
<1>5. newest = {p \in 1 .. m : m - p < PAGE_SIZE}
  BY <1>1, <1>4
<1>6. newest = a .. m
  <2>1. {p \in 1 .. m : m - p < PAGE_SIZE} = a .. m
    BY <1>1
  <2> QED
    BY <1>5, <2>1
<1>7. Cardinality(newest) = m - a + 1
  <2>1. Cardinality(a .. m) = IF a > m THEN 0 ELSE m - a + 1
    <3>1. a \in Int /\ m \in Int
      BY <1>1, <1>2
    <3> HIDE DEF a
    <3> QED
      BY <3>1, FS_Interval
  <2>2. Cardinality(newest) = IF a > m THEN 0 ELSE m - a + 1
    BY <1>6, <2>1, Zenon
  <2> HIDE DEF a, newest
  <2>3. (IF a > m THEN 0 ELSE m - a + 1) = m - a + 1
    BY <1>1, <1>2
  <2> QED
    BY <2>2, <2>3
<1> HIDE DEF a, newest
<1>8. m - a + 1 \in Nat
  BY <1>1, <1>2
<1>9. m > 0 => Min(newest) = a
  <2> SUFFICES ASSUME m > 0 PROVE Min(newest) = a
    OBVIOUS
  <2>1. newest \in SUBSET (0 .. m) /\ newest # {} /\ a \in newest
    <3>1. a \in Nat /\ a >= 1 /\ a <= m /\ m \in Nat
      BY <1>1, <1>2
    <3>2. a \in a .. m /\ a .. m \subseteq 0 .. m
      BY <3>1
    <3> QED
      BY <1>6, <3>2
  <2>2. Min(newest) \in newest /\ \A y \in newest : Min(newest) <= y
    BY <1>1, <2>1, MaxMin
  <2> DEFINE x == Min(newest)
  <2> HIDE DEF x
  <2>3. x \in a .. m /\ x <= a
    BY <1>6, <2>1, <2>2 DEF x
  <2>4. x = a
    BY <1>1, <1>2, <2>3
  <2> QED
    BY <2>4 DEF x
<1>10. list = [i \in 1 .. m - a + 1 |-> a + i - 1]
  <2>1. CASE m > 0
    BY <1>7, <1>9, <2>1
  <2>2. CASE ~(m > 0)
    <3>1. m - a + 1 = 0 \/ m - a + 1 < 0
      BY <1>1, <1>2, <2>2
    <3>2. 1 .. m - a + 1 = {}
      BY <1>8, <3>1
    <3> QED
      BY <1>7, <3>2
  <2> QED
    BY <2>1, <2>2
<1>11. Stretch(list, a, m)
  <2>1. \A i \in 1 .. m - a + 1 : a + i - 1 \in 1 .. m
    BY <1>1, <1>2
  <2>2. 1 .. m \subseteq Stored
    BY <1>1, PageNumbers DEF Positions, Stored
  <2> DEFINE l == [i \in 1 .. m - a + 1 |-> a + i - 1]
             k == m - a + 1
  <2>3. l \in Seq(Stored) /\ Len(l) = k /\ \A i \in 1 .. k : l[i] = a + i - 1
    BY <1>8, <2>1, <2>2
  <2> HIDE DEF l
  <2>4. Stretch(l, a, m)
    BY <1>2, <2>3 DEF Stretch
  <2> QED
    BY <1>10, <2>4 DEF l
<1>12. a = 1 \/ MoreBefore(cursor)
  <2>1. Cardinality(1 .. m) = m
    <3>1. 1 \in Int /\ m \in Int
      BY <1>1
    <3>2. Cardinality(1 .. m) = IF 1 > m THEN 0 ELSE m - 1 + 1
      BY <3>1, FS_Interval
    <3> QED
      BY <1>1, <3>2
  <2> QED
    BY <1>1, <1>2, <2>1 DEF MoreBefore
<1> QED
  BY <1>2, <1>3, <1>11, <1>12 DEF m

PageRecord == [hasMore : BOOLEAN, oldest : Cursors, loading : BOOLEAN,
               total : 0 .. MaxStored + MaxLocal]
Reading ==
    [id : 1 .. MaxReads, kind : Requests, before : Cursors, answered : BOOLEAN,
     page : Seq(Stored), hasMore : BOOLEAN, total : Positions]

\* An answer is a page of the table as it was when the server read it.
AsRead(r) ==
    \E m \in 0 .. r.total : \E a \in 1 .. m + 1 :
        /\ Stretch(r.page, a, m) /\ (a = 1 \/ r.hasMore = TRUE) /\ (m > 0 => a <= m)
        /\ r.before = {} => m = r.total
        /\ \A n \in r.before : m = IF n = 0 THEN 0 ELSE n - 1

\* A request under way: what it asks for, and what it brings if the table has s rows.
ReadIs(r, s) ==
    /\ r \in Reading /\ r.before \subseteq 0 .. s /\ r.total <= s
    /\ r.kind # "older" => r.before = {}
    /\ r.answered = TRUE => AsRead(r)

ReadsInv ==
    /\ IsFiniteSet(reads) /\ Cardinality(reads) <= readsMade /\ readsMade \in 0 .. MaxReads
    /\ \A r \in reads : ReadIs(r, stored)
    /\ (\E r \in reads : r.kind = "older") => pagination # {}

ListTyped ==
    /\ stored \in Positions /\ loaded \in Seq(Positions) /\ localRows \in 0 .. MaxLocal
    /\ embedded \subseteq 1 .. stored /\ IsFiniteSet(embedded)
    /\ pagination = {} \/ \E p \in PageRecord : pagination = {p}
    /\ \A p \in pagination : p.total <= stored + localRows /\ p.oldest \subseteq 0 .. stored
    /\ pagination = {} => Len(loaded) <= stored + localRows
    /\ holes \subseteq HoleKinds

PanesTyped == {selected, mounted} \subseteq BOOLEAN /\ (selected => mounted)

Rows == Only(loaded, Stored)

\* The rows of the list that are stored are the end of the table, and totalCount is
\* right but for the rows that are not stored and those that are not rows of their own.
ListWhole ==
    /\ \E a \in 1 .. stored + 1 :
            /\ Stretch(Rows, a, stored)
            /\ a = 1 \/ \E p \in pagination : p.hasMore = TRUE /\ p.oldest = {a}
    /\ \A p \in pagination :
            p.total + Cardinality(embedded) = stored + Len(loaded) - Len(Rows)

Whole ==
    /\ loaded = <<>> => embedded = {} /\ \A p \in pagination : p.oldest = {0} /\ p.total = 0
    /\ loaded # <<>> => ListWhole

PagesInv == ReadsInv /\ ListTyped /\ PanesTyped /\ (holes = {} => Whole)

LEMMA ReadIsGrows ==
  ASSUME NEW r, NEW s \in Nat, NEW t \in Nat, s <= t, ReadIs(r, s)
  PROVE  ReadIs(r, t)
<1>1. r.total \in Nat
  BY PageNumbers DEF ReadIs, Reading, Positions
<1>2. r.total <= t /\ 0 .. s \subseteq 0 .. t
  BY <1>1 DEF ReadIs
<1> QED
  BY <1>2 DEF ReadIs

\* Requests that go on, are answered or are dropped.
LEMMA ReadsStay ==
  ASSUME PagesInv, stored' \in Nat, stored <= stored', UNCHANGED readsMade,
         reads' \subseteq reads, pagination # {} => pagination' # {}
  PROVE  ReadsInv'
<1>1. /\ IsFiniteSet(reads) /\ Cardinality(reads) <= readsMade /\ readsMade \in 0 .. MaxReads
      /\ \A r \in reads : ReadIs(r, stored)
      /\ (\E r \in reads : r.kind = "older") => pagination # {}
  BY DEF PagesInv, ReadsInv
<1>2. IsFiniteSet(reads') /\ Cardinality(reads') <= Cardinality(reads)
  BY <1>1, FS_Subset
<1>3. Cardinality(reads') \in Nat /\ Cardinality(reads) \in Nat
  BY <1>1, <1>2, FS_CardinalityType
<1>4. Cardinality(reads') <= readsMade'
  BY <1>1, <1>2, <1>3
<1>5. stored \in Nat
  BY PageNumbers DEF PagesInv, ListTyped, Positions
<1>6. \A r \in reads' : ReadIs(r, stored')
  BY <1>1, <1>5, ReadIsGrows
<1> QED
  BY <1>1, <1>2, <1>4, <1>6 DEF ReadsInv

LEMMA FreeSlot ==
  ASSUME ReadsInv, readsMade < MaxReads
  PROVE  Min((1 .. MaxReads) \ {r.id : r \in reads}) \in 1 .. MaxReads
<1> DEFINE used == {r.id : r \in reads}
           free == (1 .. MaxReads) \ used
<1>1. /\ IsFiniteSet(reads) /\ Cardinality(reads) <= readsMade /\ readsMade \in 0 .. MaxReads
      /\ MaxReads \in Nat
  BY PageNumbers DEF ReadsInv
<1>2. IsFiniteSet(used) /\ Cardinality(used) <= Cardinality(reads)
  <2> DEFINE f == [r \in reads |-> r.id]
  <2>1. f \in Surjection(reads, used)
    BY DEF Surjection
  <2> HIDE DEF f, used
  <2> QED
    BY <1>1, <2>1, FS_Surjection
<1>3. Cardinality(used) \in Nat /\ Cardinality(reads) \in Nat
  BY <1>1, <1>2, FS_CardinalityType
<1>4. Cardinality(1 .. MaxReads) = MaxReads
  <2>1. 1 \in Int /\ MaxReads \in Int
    BY <1>1
  <2>2. Cardinality(1 .. MaxReads) = IF 1 > MaxReads THEN 0 ELSE MaxReads - 1 + 1
    BY <2>1, FS_Interval
  <2> QED
    BY <1>1, <2>2
<1> HIDE DEF used
<1>5. free # {}
  <2> SUFFICES ASSUME free = {} PROVE FALSE
    OBVIOUS
  <2>1. 1 .. MaxReads \in SUBSET used
    OBVIOUS
  <2>2. Cardinality(1 .. MaxReads) <= Cardinality(used)
    BY <1>2, <2>1, FS_Subset
  <2> QED
    BY <1>1, <1>2, <1>3, <1>4, <2>2
<1>6. free \in SUBSET (0 .. MaxReads) /\ free \subseteq 1 .. MaxReads
  BY <1>1
<1> HIDE DEF free
<1>7. Min(free) \in free
  BY <1>1, <1>5, <1>6, MaxMin
<1>8. Min(free) \in 1 .. MaxReads
  BY <1>6, <1>7
<1> QED
  BY <1>8 DEF free, used

\* A new request.
LEMMA ReadsMore ==
  ASSUME PagesInv, NEW kind \in Requests, NEW cursor \in Cursors, cursor \subseteq 0 .. stored,
         kind # "older" => cursor = {}, kind = "older" => pagination' # {},
         pagination # {} => pagination' # {},
         UNCHANGED stored, Request(kind, cursor)
  PROVE  ReadsInv'
<1> DEFINE slot == Min((1 .. MaxReads) \ {r.id : r \in reads})
           fresh == [id |-> slot, kind |-> kind, before |-> cursor, answered |-> FALSE,
                   page |-> <<>>, hasMore |-> FALSE, total |-> 0]
<1>1. /\ readsMade < MaxReads /\ readsMade' = readsMade + 1 /\ reads' = reads \cup {fresh}
  BY DEF Request
<1>2. /\ IsFiniteSet(reads) /\ Cardinality(reads) <= readsMade /\ readsMade \in 0 .. MaxReads
      /\ (\A r \in reads : ReadIs(r, stored)) /\ ReadsInv /\ stored \in Nat
      /\ (\E r \in reads : r.kind = "older") => pagination # {}
      /\ MaxReads \in Nat
  BY PageNumbers DEF PagesInv, ReadsInv, ListTyped, Positions
<1>3. slot \in 1 .. MaxReads
  BY <1>1, <1>2, FreeSlot
<1> HIDE DEF slot
<1>4. ReadIs(fresh, stored)
  <2>1. 0 \in Positions /\ <<>> \in Seq(Stored)
    BY PageNumbers, EmptySeq DEF Positions
  <2>2. fresh \in Reading
    BY <1>3, <2>1 DEF Reading
  <2> QED
    BY <1>2, <2>2 DEF ReadIs
<1>5. fresh.kind = kind
  OBVIOUS
<1> HIDE DEF fresh
<1>6. /\ IsFiniteSet(reads')
      /\ Cardinality(reads') = IF fresh \in reads THEN Cardinality(reads) ELSE Cardinality(reads) + 1
  BY <1>1, <1>2, FS_AddElement
<1>7. Cardinality(reads) \in Nat
  BY <1>2, FS_CardinalityType
<1>8. Cardinality(reads') <= readsMade' /\ readsMade' \in 0 .. MaxReads
  BY <1>1, <1>2, <1>6, <1>7
<1>9. \A r \in reads' : ReadIs(r, stored')
  BY <1>1, <1>2, <1>4
<1>10. (\E r \in reads' : r.kind = "older") => pagination' # {}
  BY <1>1, <1>2, <1>5
<1> QED
  BY <1>6, <1>8, <1>9, <1>10 DEF ReadsInv
-----------------------------------------------------------------------------
\* Stretches that are joined.
LEMMA StretchJoin ==
  ASSUME NEW x, NEW y, NEW b \in Nat, NEW c \in 0 .. b, NEW a \in 1 .. c + 1,
         Stretch(x, a, c), Stretch(y, c + 1, b)
  PROVE  a \in 1 .. b + 1 /\ Stretch(x \o y, a, b)
<1> DEFINE U == Stored
           l == x \o y
<1>1. /\ x \in Seq(U) /\ y \in Seq(U) /\ Len(x) = c - a + 1 /\ Len(y) = b - (c + 1) + 1
      /\ \A i \in 1 .. c - a + 1 : x[i] = a + i - 1
      /\ \A i \in 1 .. b - (c + 1) + 1 : y[i] = (c + 1) + i - 1
  BY DEF Stretch
<1> HIDE DEF U
<1>2. /\ l \in Seq(U) /\ Len(l) = Len(x) + Len(y)
      /\ \A i \in 1 .. Len(x) + Len(y) : l[i] = IF i <= Len(x) THEN x[i] ELSE y[i - Len(x)]
  <2>1. x \in Seq(U) /\ y \in Seq(U)
    BY <1>1
  <2> QED
    BY <2>1, ConcatProperties
<1> HIDE DEF l
<1>3. /\ Len(l) = b - a + 1 /\ a \in 1 .. b + 1
  BY <1>1, <1>2
<1>4. ASSUME NEW i \in 1 .. b - a + 1 PROVE l[i] = a + i - 1
  <2>1. i \in 1 .. Len(x) + Len(y)
    BY <1>1
  <2>2. CASE i <= Len(x)
    BY <1>1, <1>2, <2>1, <2>2
  <2>3. CASE ~(i <= Len(x))
    <3>1. i - Len(x) \in 1 .. b - (c + 1) + 1 /\ (c + 1) + (i - Len(x)) - 1 = a + i - 1
      BY <1>1, <2>3
    <3> QED
      BY <1>1, <1>2, <2>1, <2>3, <3>1
  <2> QED
    BY <2>2, <2>3
<1> QED
  BY <1>2, <1>3, <1>4 DEF Stretch, l, U

\* The messages of a stretch.
LEMMA StretchSet ==
  ASSUME NEW list, NEW b \in Nat, NEW a \in 1 .. b + 1, Stretch(list, a, b)
  PROVE  /\ ToSet(list) = a .. b /\ (list = <<>> <=> a = b + 1)
         /\ a <= b => First(list) = a
<1> DEFINE U == Stored
<1>1. /\ list \in Seq(U) /\ Len(list) = b - a + 1 /\ DOMAIN list = 1 .. b - a + 1
      /\ \A i \in 1 .. b - a + 1 : list[i] = a + i - 1
  BY DEF Stretch
<1>2. ToSet(list) = {a + i - 1 : i \in 1 .. b - a + 1}
  BY <1>1 DEF ToSet
<1>3. {a + i - 1 : i \in 1 .. b - a + 1} = a .. b
  <2>1. \A k \in a .. b : k - a + 1 \in 1 .. b - a + 1 /\ k = a + (k - a + 1) - 1
    OBVIOUS
  <2>2. \A i \in 1 .. b - a + 1 : a + i - 1 \in a .. b
    OBVIOUS
  <2> QED
    BY <2>1, <2>2
<1>4. list = <<>> <=> a = b + 1
  <2>1. list = <<>> <=> Len(list) = 0
    BY <1>1, EmptySeq
  <2> QED
    BY <1>1, <2>1
<1>5. ASSUME a <= b PROVE First(list) = a
  <2>1. list # <<>> /\ 1 \in 1 .. b - a + 1 /\ b - a + 1 \in 1 .. b - a + 1
    BY <1>4, <1>5
  <2> QED
    BY <1>1, <2>1 DEF First
<1> QED
  BY <1>2, <1>3, <1>4, <1>5
-----------------------------------------------------------------------------
\* What the steps below use of the invariant.
LEMMA PagesFacts ==
  ASSUME PagesInv
  PROVE  /\ stored \in Nat /\ stored \in Positions /\ MaxStored \in Nat
         /\ loaded \in Seq(Positions) /\ Len(loaded) \in Nat
         /\ localRows \in 0 .. MaxLocal /\ localRows \in Nat /\ MaxLocal \in Nat
         /\ embedded \subseteq 1 .. stored /\ IsFiniteSet(embedded)
         /\ pagination = {} \/ \E p \in PageRecord : pagination = {p}
         /\ \A p \in pagination : p.total <= stored + localRows /\ p.oldest \subseteq 0 .. stored
         /\ pagination = {} => Len(loaded) <= stored + localRows
         /\ holes \subseteq HoleKinds
         /\ \A r \in reads : ReadIs(r, stored)
         /\ (\E r \in reads : r.kind = "older") => pagination # {}
BY PageNumbers DEF PagesInv, ListTyped, ReadsInv, Positions

\* The rows of a list that are stored, and of two lists joined.
LEMMA RowsAre ==
  ASSUME NEW list \in Seq(Positions)
  PROVE  /\ Only(list, Stored) \in Seq(Stored)
         /\ Len(Only(list, Stored)) \in Nat /\ Len(Only(list, Stored)) <= Len(list)
         /\ ToSet(Only(list, Stored)) = ToSet(list) \cap Stored
<1>1. Only(list, Stored) \in Seq(Positions \cap Stored)
  BY OnlyType, Zenon
<1>2. Positions \cap Stored = Stored
  BY StoredIs
<1>3. Only(list, Stored) \in Seq(Stored)
  BY <1>1, <1>2, Zenon
<1>4. ToSet(Only(list, Stored)) = ToSet(list) \cap Stored
  BY OnlySet, Zenon
<1>5. Len(Only(list, Stored)) \in Nat /\ Len(Only(list, Stored)) <= Len(list)
  BY OnlyElements, Zenon
<1> QED
  BY <1>3, <1>4, <1>5

LEMMA RowsJoin ==
  ASSUME NEW s \in Seq(Positions), NEW t \in Seq(Positions)
  PROVE  /\ s \o t \in Seq(Positions) /\ Len(s \o t) = Len(s) + Len(t)
         /\ Only(s \o t, Stored) = Only(s, Stored) \o Only(t, Stored)
         /\ Len(Only(s \o t, Stored)) = Len(Only(s, Stored)) + Len(Only(t, Stored))
<1>1. s \o t \in Seq(Positions) /\ Len(s \o t) = Len(s) + Len(t)
  BY ConcatProperties
<1>2. Only(s \o t, Stored) = Only(s, Stored) \o Only(t, Stored)
  BY OnlyConcat, Zenon
<1> DEFINE x == Only(s, Stored)
           y == Only(t, Stored)
<1>3. x \in Seq(Stored) /\ y \in Seq(Stored)
  BY RowsAre
<1> HIDE DEF x, y
<1>4. Len(x \o y) = Len(x) + Len(y)
  BY <1>3, ConcatProperties
<1> QED
  BY <1>1, <1>2, <1>4 DEF x, y

LEMMA SumBound ==
  \A x, a, b, c, d \in Nat : x + 1 <= a + b /\ a <= c /\ b <= d => x + 1 \in 0 .. c + d
OBVIOUS

\* Rows at the end of the list.
LEMMA AppendKeeps ==
  ASSUME PagesInv, NEW new \in Seq(Positions), new # <<>>, AppendRows(new),
         stored' \in Positions, stored <= stored', localRows' \in 0 .. MaxLocal,
         Stretch(Only(new, Stored), stored + 1, stored'),
         stored + localRows + Len(new) <= stored' + localRows',
         embedded' \subseteq 1 .. stored', IsFiniteSet(embedded'),
         Cardinality(embedded') + 1 = Cardinality(embedded) + Len(new)
  PROVE  PagesInv'
<1> DEFINE rows == Only(loaded, Stored)
           more == Only(new, Stored)
           C == Cardinality(embedded)
           L == Len(loaded)
           n == Len(new)
<1>1. /\ stored \in Nat /\ MaxStored \in Nat /\ loaded \in Seq(Positions) /\ L \in Nat
      /\ localRows \in Nat /\ MaxLocal \in Nat /\ IsFiniteSet(embedded) /\ C \in Nat
      /\ pagination = {} \/ \E p \in PageRecord : pagination = {p}
      /\ \A p \in pagination : p.total <= stored + localRows /\ p.oldest \subseteq 0 .. stored
      /\ pagination = {} => Len(loaded) <= stored + localRows
      /\ holes \subseteq HoleKinds
  BY PagesFacts, FS_CardinalityType
<1>2. /\ loaded' = loaded \o new
      /\ pagination' = {[p EXCEPT !.total = @ + 1] : p \in pagination}
      /\ holes' = holes \cup {h \in {"unloaded"} : loaded = <<>> /\ stored > 0}
      /\ UNCHANGED <<paneVars, readVars>>
  BY DEF AppendRows
<1>3. /\ stored' \in Nat /\ localRows' \in Nat /\ n \in Nat /\ n >= 1
      /\ stored' <= MaxStored /\ localRows' <= MaxLocal
  <2>1. n \in Nat /\ n # 0
    BY EmptySeq
  <2> HIDE DEF n
  <2> QED
    BY <1>1, <2>1 DEF Positions
<1>4. /\ loaded' \in Seq(Positions) /\ Len(loaded') = L + n /\ loaded' # <<>>
      /\ Rows' = rows \o more /\ Len(Rows') = Len(rows) + Len(more)
  <2>1. /\ loaded \o new \in Seq(Positions) /\ Len(loaded \o new) = L + n
        /\ Only(loaded \o new, Stored) = rows \o more
        /\ Len(Only(loaded \o new, Stored)) = Len(rows) + Len(more)
    BY <1>1, RowsJoin
  <2>2. Rows' = Only(loaded', Stored)
    BY DEF Rows, Stored
  <2>3. loaded' \in Seq(Positions) /\ Len(loaded') = L + n
    BY <1>2, <2>1
  <2>4. Len(loaded') # 0
    <3> HIDE DEF L, n
    <3> QED
      BY <1>1, <1>3, <2>3
  <2>5. loaded' # <<>>
    BY <2>4
  <2> QED
    BY <1>2, <2>1, <2>2, <2>3, <2>5
<1>5. /\ rows \in Seq(Stored) /\ more \in Seq(Stored) /\ Len(rows) \in Nat /\ Len(more) \in Nat
      /\ Len(more) = stored' - (stored + 1) + 1
  BY <1>1, RowsAre DEF Stretch
<1>6. /\ pagination = {} => pagination' = {}
      /\ \A p \in PageRecord : pagination = {p} =>
           /\ pagination' = {[p EXCEPT !.total = @ + 1]}
           /\ [p EXCEPT !.total = @ + 1] \in PageRecord
           /\ p.total \in Nat /\ p.total + 1 <= stored' + localRows'
           /\ p.oldest \subseteq 0 .. stored'
  <2>1. pagination = {} => pagination' = {}
    BY <1>2
  <2>2. ASSUME NEW p \in PageRecord, pagination = {p}
        PROVE  /\ pagination' = {[p EXCEPT !.total = @ + 1]}
               /\ [p EXCEPT !.total = @ + 1] \in PageRecord
               /\ p.total \in Nat /\ p.total + 1 <= stored' + localRows'
               /\ p.oldest \subseteq 0 .. stored'
    <3>1. pagination' = {[p EXCEPT !.total = @ + 1]}
      BY <1>2, <2>2
    <3>2. p.total \in Nat /\ p.total <= stored + localRows /\ p.oldest \subseteq 0 .. stored
      BY <1>1, <2>2 DEF PageRecord
    <3>3. p.total + 1 <= stored' + localRows' /\ 0 .. stored \subseteq 0 .. stored'
      <4> HIDE DEF n
      <4> QED
        BY <1>1, <1>3, <3>2 DEF n
    <3>4. p.total + 1 \in 0 .. MaxStored + MaxLocal
      <4> DEFINE x == p.total
      <4>1. /\ x \in Nat /\ x + 1 <= stored' + localRows' /\ stored' \in Nat /\ localRows' \in Nat
            /\ stored' <= MaxStored /\ localRows' <= MaxLocal /\ MaxStored \in Nat /\ MaxLocal \in Nat
        BY <1>1, <1>3, <3>2, <3>3
      <4> HIDE DEF x
      <4>2. x + 1 \in 0 .. MaxStored + MaxLocal
        BY <4>1, SumBound, Zenon
      <4> QED
        BY <4>2 DEF x
    <3>5. [p EXCEPT !.total = @ + 1] \in PageRecord
      BY <3>4 DEF PageRecord
    <3> QED
      BY <3>1, <3>2, <3>3, <3>5
  <2> QED
    BY <2>1, <2>2
<1>7. pagination' = {} \/ \E p \in PageRecord : pagination' = {p}
  BY <1>1, <1>6
<1>8. /\ \A p \in pagination' : p.total <= stored' + localRows' /\ p.oldest \subseteq 0 .. stored'
      /\ pagination' = {} <=> pagination = {}
  <2>1. CASE pagination = {}
    BY <1>6, <2>1
  <2>2. ASSUME NEW p \in PageRecord, pagination = {p}
        PROVE  /\ \A q \in pagination' : q.total <= stored' + localRows' /\ q.oldest \subseteq 0 .. stored'
               /\ pagination' # {}
    <3>1. /\ [p EXCEPT !.total = @ + 1].total = p.total + 1
          /\ [p EXCEPT !.total = @ + 1].oldest = p.oldest
      BY <2>2 DEF PageRecord
    <3> QED
      BY <1>6, <2>2, <3>1
  <2> QED
    BY <1>1, <2>1, <2>2
<1> HIDE DEF rows, more, C, L, n
<1>9. ListTyped'
  <2>1. holes' \subseteq HoleKinds
    BY <1>1, <1>2 DEF HoleKinds
  <2>2. pagination' = {} => Len(loaded') <= stored' + localRows'
    BY <1>1, <1>3, <1>4, <1>8 DEF L, n
  <2> QED
    BY <1>4, <1>7, <1>8, <2>1, <2>2 DEF ListTyped
<1>10. ASSUME holes' = {} PROVE Whole'
  <2>1. Whole /\ (loaded = <<>> => stored = 0)
    <3>1. holes = {} /\ ~(loaded = <<>> /\ stored > 0)
      BY <1>2, <1>10, Zenon
    <3>2. loaded = <<>> => stored = 0
      BY <1>1, <3>1
    <3> QED
      BY <3>1, <3>2 DEF PagesInv
  <2>2. \E a \in 1 .. stored + 1 :
            /\ Stretch(rows, a, stored)
            /\ a = 1 \/ \E p \in pagination : p.hasMore = TRUE /\ p.oldest = {a}
    <3>1. CASE loaded = <<>>
      <4>1. rows = <<>> /\ stored = 0
        BY <2>1, <3>1, OnlyEmpty DEF rows
      <4>2. Stretch(<<>>, 1, 0)
        BY EmptySeq DEF Stretch
      <4>3. 1 \in 1 .. stored + 1
        BY <4>1
      <4> QED
        BY <4>1, <4>2, <4>3
    <3>2. CASE loaded # <<>>
      BY <2>1, <3>2 DEF Whole, ListWhole, Rows, rows
    <3> QED
      BY <3>1, <3>2
  <2>3. PICK a \in 1 .. stored + 1 :
            /\ Stretch(rows, a, stored)
            /\ a = 1 \/ \E p \in pagination : p.hasMore = TRUE /\ p.oldest = {a}
    BY <2>2
  <2>4. a \in 1 .. stored' + 1 /\ Stretch(Rows', a, stored')
    <3>1. Stretch(more, stored + 1, stored')
      BY DEF more
    <3>2. stored \in 0 .. stored'
      BY <1>1, <1>3
    <3> QED
      BY <1>3, <1>4, <2>3, <3>1, <3>2, StretchJoin
  <2>5. a = 1 \/ \E q \in pagination' : q.hasMore = TRUE /\ q.oldest = {a}
    <3>1. ASSUME NEW p \in pagination, p.hasMore = TRUE, p.oldest = {a}
          PROVE  \E q \in pagination' : q.hasMore = TRUE /\ q.oldest = {a}
      <4>1. p \in PageRecord /\ pagination = {p}
        BY <1>1
      <4>2. /\ [p EXCEPT !.total = @ + 1].hasMore = p.hasMore
            /\ [p EXCEPT !.total = @ + 1].oldest = p.oldest
        BY <4>1 DEF PageRecord
      <4> QED
        BY <1>6, <3>1, <4>1, <4>2
    <3> QED
      BY <2>3, <3>1
  <2>6. ASSUME NEW p \in PageRecord, pagination = {p}
        PROVE  p.total + C = stored + L - Len(rows)
    <3>1. CASE loaded = <<>>
      <4>1. p.total = 0 /\ embedded = {} /\ stored = 0
        BY <2>1, <2>6, <3>1 DEF Whole
      <4>2. C = 0 /\ L = 0 /\ Len(rows) = 0
        BY <3>1, <4>1, OnlyEmpty, FS_EmptySet DEF C, L, rows
      <4> QED
        BY <4>1, <4>2
    <3>2. CASE loaded # <<>>
      BY <2>1, <2>6, <3>2 DEF Whole, ListWhole, Rows, rows, C, L
    <3> QED
      BY <3>1, <3>2
  <2>7. \A q \in pagination' :
            q.total + Cardinality(embedded') = stored' + Len(loaded') - Len(Rows')
    <3>1. ASSUME NEW p \in PageRecord, pagination = {p}
          PROVE  [p EXCEPT !.total = @ + 1].total + Cardinality(embedded')
                     = stored' + Len(loaded') - Len(Rows')
      <4>1. [p EXCEPT !.total = @ + 1].total = p.total + 1
        BY <3>1 DEF PageRecord
      <4>2. p.total + C = stored + L - Len(rows) /\ p.total \in Nat
        BY <1>6, <2>6, <3>1
      <4>3. Cardinality(embedded') \in Nat /\ Cardinality(embedded') + 1 = C + n
        BY FS_CardinalityType DEF C, n
      <4>4. /\ Len(loaded') = L + n /\ Len(Rows') = Len(rows) + (stored' - stored)
            /\ L \in Nat /\ n \in Nat /\ stored \in Nat /\ stored' \in Nat /\ Len(rows) \in Nat
            /\ C \in Nat
        BY <1>1, <1>3, <1>4, <1>5
      <4>5. (p.total + 1) + Cardinality(embedded') = stored' + Len(loaded') - Len(Rows')
        <5> DEFINE x == p.total
                   D == Cardinality(embedded')
                   M == Len(loaded')
                   R == Len(rows)
                   Q == Len(Rows')
                   t == stored'
        <5>1. /\ x \in Nat /\ D \in Nat /\ t \in Nat /\ x + C = stored + L - R /\ D + 1 = C + n
              /\ M = L + n /\ Q = R + (t - stored) /\ R \in Nat
          BY <4>2, <4>3, <4>4
        <5> HIDE DEF x, D, M, R, Q, t
        <5>2. (x + 1) + D = t + M - Q
          BY <4>4, <5>1
        <5> QED
          BY <5>2 DEF x, D, M, Q, t
      <4> QED
        BY <4>1, <4>5
    <3> QED
      BY <1>1, <1>6, <3>1
  <2>8. ListWhole'
    BY <2>4, <2>5, <2>7 DEF ListWhole
  <2> QED
    BY <1>4, <2>8 DEF Whole
<1>11. ReadsInv'
  BY <1>2, <1>3, <1>8, ReadsStay DEF readVars
<1>12. PanesTyped'
  BY <1>2 DEF PagesInv, PanesTyped, paneVars
<1> QED
  BY <1>9, <1>10, <1>11, <1>12 DEF PagesInv

LEMMA AddMessageKeeps ==
  ASSUME PagesInv, AddMessage
  PROVE  PagesInv'
<1> DEFINE m == stored + 1
           new == <<m>>
<1>1. /\ stored \in Nat /\ MaxStored \in Nat /\ localRows \in 0 .. MaxLocal /\ localRows \in Nat
      /\ embedded \subseteq 1 .. stored /\ IsFiniteSet(embedded)
  BY PagesFacts
<1>2. /\ stored < MaxStored /\ stored' = m /\ AppendRows(new)
      /\ UNCHANGED <<embedded, localRows>>
  BY DEF AddMessage
<1>3. m \in Stored /\ m \in Positions /\ m \in Nat /\ stored <= m /\ 1 .. stored \subseteq 1 .. m
      /\ m - (stored + 1) + 1 = 1 /\ (stored + 1) + 1 - 1 = m /\ stored + 1 \in 1 .. m + 1
  BY <1>1, <1>2 DEF Positions, Stored
<1>4. new \in Seq(Positions) /\ new # <<>> /\ Len(new) = 1 /\ new \in Seq(Stored) /\ new[1] = m
  BY <1>3
<1>5. Only(new, Stored) = new
  BY <1>3, OnlySingle
<1>6. Stretch(new, stored + 1, m)
  <2> HIDE DEF m
  <2> QED
    BY <1>3, <1>4 DEF Stretch
<1>7. Cardinality(embedded) \in Nat
  BY <1>1, FS_CardinalityType
<1> HIDE DEF new, m
<1>8. stored + localRows + Len(new) <= stored' + localRows'
  BY <1>1, <1>2, <1>4 DEF m
<1>9. Cardinality(embedded') + 1 = Cardinality(embedded) + Len(new)
  BY <1>2, <1>4, <1>7
<1>10. /\ stored' \in Positions /\ stored <= stored' /\ localRows' \in 0 .. MaxLocal
       /\ embedded' \subseteq 1 .. stored' /\ IsFiniteSet(embedded')
       /\ Stretch(Only(new, Stored), stored + 1, stored')
  BY <1>1, <1>2, <1>3, <1>5, <1>6
<1> QED
  BY <1>2, <1>4, <1>8, <1>9, <1>10, AppendKeeps

LEMMA AddAnswerKeeps ==
  ASSUME PagesInv, AddAnswerAndQueued
  PROVE  PagesInv'
<1> DEFINE m == stored + 2
           new == <<stored + 1, m>>
<1>1. /\ stored \in Nat /\ MaxStored \in Nat /\ localRows \in 0 .. MaxLocal /\ localRows \in Nat
      /\ embedded \subseteq 1 .. stored /\ IsFiniteSet(embedded)
  BY PagesFacts
<1>2. /\ stored + 1 < MaxStored /\ stored' = m /\ AppendRows(new)
      /\ embedded' = embedded \cup {m} /\ UNCHANGED localRows
  BY DEF AddAnswerAndQueued
<1>3. /\ m \in Stored /\ stored + 1 \in Stored /\ m \in Positions /\ m \in Nat /\ stored <= m
      /\ 1 .. stored \subseteq 1 .. m /\ m \in 1 .. m /\ m \notin 1 .. stored
      /\ m - (stored + 1) + 1 = 2 /\ (stored + 1) + 1 - 1 = stored + 1 /\ (stored + 1) + 2 - 1 = m
      /\ stored + 1 \in 1 .. m + 1
  BY <1>1, <1>2 DEF Positions, Stored
<1>4. /\ new \in Seq(Stored) /\ new # <<>> /\ Len(new) = 2 /\ new[1] = stored + 1 /\ new[2] = m
      /\ new \in Seq(Positions) /\ \A i \in 1 .. Len(new) : new[i] \in Stored
  BY <1>3, StoredIs
<1>5. Only(new, Stored) = new
  <2> HIDE DEF new
  <2> QED
    BY <1>4, OnlyAll
<1>6. Stretch(new, stored + 1, m)
  <2> HIDE DEF m, new
  <2>1. \A i \in 1 .. 2 : new[i] = (stored + 1) + i - 1
    <3>1. \A i \in 1 .. 2 : i = 1 \/ i = 2
      OBVIOUS
    <3> QED
      BY <1>3, <1>4, <3>1
  <2> QED
    BY <1>3, <1>4, <2>1 DEF Stretch
<1>7. /\ Cardinality(embedded) \in Nat /\ m \notin embedded
      /\ IsFiniteSet(embedded \cup {m}) /\ Cardinality(embedded \cup {m}) = Cardinality(embedded) + 1
  <2>1. m \notin embedded
    BY <1>1, <1>3
  <2> HIDE DEF m
  <2> QED
    BY <1>1, <2>1, FS_CardinalityType, FS_AddElement
<1> HIDE DEF new, m
<1>8. stored + localRows + Len(new) <= stored' + localRows'
  BY <1>1, <1>2, <1>4 DEF m
<1>9. Cardinality(embedded') + 1 = Cardinality(embedded) + Len(new)
  BY <1>2, <1>4, <1>7
<1>10. embedded' \subseteq 1 .. stored' /\ IsFiniteSet(embedded')
  BY <1>1, <1>2, <1>3, <1>7
<1>11. /\ stored' \in Positions /\ stored <= stored' /\ localRows' \in 0 .. MaxLocal
       /\ Stretch(Only(new, Stored), stored + 1, stored')
  BY <1>1, <1>2, <1>3, <1>5, <1>6
<1> QED
  BY <1>2, <1>4, <1>8, <1>9, <1>10, <1>11, AppendKeeps

LEMMA AddLocalRowKeeps ==
  ASSUME PagesInv, AddLocalRow
  PROVE  PagesInv'
<1> DEFINE new == <<0>>
<1>1. /\ stored \in Nat /\ stored \in Positions /\ MaxStored \in Nat /\ MaxLocal \in Nat
      /\ localRows \in 0 .. MaxLocal /\ localRows \in Nat
      /\ embedded \subseteq 1 .. stored /\ IsFiniteSet(embedded)
  BY PagesFacts
<1>2. /\ localRows < MaxLocal /\ localRows' = localRows + 1 /\ AppendRows(new)
      /\ UNCHANGED <<stored, embedded>>
  BY DEF AddLocalRow
<1>3. 0 \in Positions /\ 0 \notin Stored
  BY <1>1 DEF Positions, Stored
<1>4. new \in Seq(Positions) /\ new # <<>> /\ Len(new) = 1
  BY <1>3
<1>5. Only(new, Stored) = <<>>
  BY <1>3, OnlySingle
<1>6. Stretch(<<>>, stored + 1, stored)
  <2>1. <<>> \in Seq(Stored) /\ Len(<<>>) = 0
    BY EmptySeq
  <2>2. stored + 1 \in 1 .. stored + 1 /\ stored - (stored + 1) + 1 = 0 /\ 1 .. 0 = {}
    BY <1>1
  <2> QED
    BY <2>1, <2>2 DEF Stretch
<1>7. Cardinality(embedded) \in Nat
  BY <1>1, FS_CardinalityType
<1> HIDE DEF new
<1>8. stored + localRows + Len(new) <= stored' + localRows' /\ stored <= stored'
  BY <1>1, <1>2, <1>4
<1>9. Cardinality(embedded') + 1 = Cardinality(embedded) + Len(new)
  BY <1>2, <1>4, <1>7
<1>10. /\ stored' \in Positions /\ embedded' \subseteq 1 .. stored' /\ IsFiniteSet(embedded')
       /\ Stretch(Only(new, Stored), stored + 1, stored')
  BY <1>1, <1>2, <1>5, <1>6
<1>11. localRows' \in 0 .. MaxLocal
  BY <1>1, <1>2
<1> QED
  BY <1>2, <1>4, <1>8, <1>9, <1>10, <1>11, AppendKeeps

LEMMA StoreUnseenKeeps ==
  ASSUME PagesInv, StoreUnseen
  PROVE  PagesInv'
<1>1. /\ stored \in Nat /\ MaxStored \in Nat /\ loaded \in Seq(Positions) /\ Len(loaded) \in Nat
      /\ localRows \in 0 .. MaxLocal /\ localRows \in Nat
      /\ embedded \subseteq 1 .. stored /\ IsFiniteSet(embedded)
      /\ pagination = {} \/ \E p \in PageRecord : pagination = {p}
      /\ \A p \in pagination : p.total <= stored + localRows /\ p.oldest \subseteq 0 .. stored
      /\ pagination = {} => Len(loaded) <= stored + localRows
      /\ holes \subseteq HoleKinds
  BY PagesFacts
<1>2. /\ stored < MaxStored /\ stored' = stored + 1
      /\ holes' = holes \cup {h \in {"unseen"} : loaded # <<>>}
      /\ UNCHANGED <<loaded, embedded, localRows, pagination, selected, mounted, reads, readsMade>>
  BY DEF StoreUnseen, paneVars, readVars
<1>3. /\ stored' \in Positions /\ stored' \in Nat /\ stored <= stored'
      /\ 1 .. stored \subseteq 1 .. stored' /\ 0 .. stored \subseteq 0 .. stored'
  BY <1>1, <1>2 DEF Positions
<1>4. \A p \in pagination' : p.total <= stored' + localRows' /\ p.oldest \subseteq 0 .. stored'
  <2>1. \A p \in pagination : p.total \in Nat
    BY <1>1 DEF PageRecord
  <2>2. \A p \in pagination : p.total <= stored + 1 + localRows
    BY <1>1, <2>1
  <2> QED
    BY <1>1, <1>2, <1>3, <2>2
<1>5. pagination' = {} => Len(loaded') <= stored' + localRows'
  BY <1>1, <1>2, <1>3
<1>6. holes' \subseteq HoleKinds
  BY <1>1, <1>2 DEF HoleKinds
<1>7. ListTyped'
  BY <1>1, <1>2, <1>3, <1>4, <1>5, <1>6 DEF ListTyped
<1>8. ASSUME holes' = {} PROVE Whole'
  <2>1. loaded = <<>> /\ Whole
    BY <1>2, <1>8 DEF PagesInv
  <2> QED
    BY <1>2, <2>1 DEF Whole
<1>9. ReadsInv'
  <2>1. UNCHANGED readsMade /\ reads' \subseteq reads /\ (pagination # {} => pagination' # {})
    BY <1>2
  <2> QED
    BY <1>3, <2>1, ReadsStay
<1>10. PanesTyped'
  BY <1>2 DEF PagesInv, PanesTyped
<1> QED
  BY <1>7, <1>8, <1>9, <1>10 DEF PagesInv

\* A list and a cursor that stay; only the cursor's loading flag may change.
LEMMA CursorStays ==
  ASSUME PagesInv, UNCHANGED <<stored, loaded, embedded, localRows, holes>>,
         pagination = {} => pagination' = {},
         \A p \in PageRecord : pagination = {p} =>
            \E q \in PageRecord : /\ pagination' = {q} /\ q.hasMore = p.hasMore
                                  /\ q.oldest = p.oldest /\ q.total = p.total
  PROVE  ListTyped' /\ (holes' = {} => Whole') /\ (pagination # {} => pagination' # {})
<1>1. /\ ListTyped /\ (holes = {} => Whole)
      /\ stored' = stored /\ loaded' = loaded /\ holes' = holes
      /\ embedded' = embedded /\ localRows' = localRows
      /\ pagination = {} \/ \E p \in PageRecord : pagination = {p}
  BY PagesFacts DEF PagesInv
<1>2. CASE pagination = {}
  <2>1. pagination' = pagination
    BY <1>2
  <2> QED
    BY <1>1, <1>2, <2>1 DEF ListTyped, Whole, ListWhole, Rows
<1>3. ASSUME NEW p \in PageRecord, pagination = {p}
      PROVE  ListTyped' /\ (holes' = {} => Whole') /\ pagination' # {}
  <2>1. PICK q \in PageRecord : /\ pagination' = {q} /\ q.hasMore = p.hasMore
                                /\ q.oldest = p.oldest /\ q.total = p.total
    BY <1>3
  <2>2. ListTyped'
    BY <1>1, <1>3, <2>1 DEF ListTyped
  <2>3. ASSUME holes' = {} PROVE Whole'
    BY <1>1, <1>3, <2>1, <2>3 DEF Whole, ListWhole, Rows
  <2> QED
    BY <2>1, <2>2, <2>3
<1> QED
  BY <1>1, <1>2, <1>3

LEMMA ListStays ==
  ASSUME PagesInv, UNCHANGED <<stored, loaded, embedded, localRows, pagination, holes>>
  PROVE  ListTyped' /\ (holes' = {} => Whole')
BY DEF PagesInv, ListTyped, Whole, ListWhole, Rows

LEMMA PanesKeep ==
  ASSUME PagesInv, Select \/ UnmountPane \/ SelectOtherSession \/ Prefetch \/ Reload
  PROVE  PagesInv'
<1>1. UNCHANGED <<stored, loaded, embedded, localRows, pagination, holes>>
  BY DEF Select, UnmountPane, SelectOtherSession, Prefetch, Reload, listVarsOfPages
<1>2. ListTyped' /\ (holes' = {} => Whole')
  BY <1>1, ListStays
<1>3. PanesTyped'
  <2>1. {selected, mounted} \subseteq BOOLEAN /\ (selected => mounted)
    BY DEF PagesInv, PanesTyped
  <2>2. \/ selected' = TRUE /\ mounted' = TRUE
        \/ selected' = selected /\ mounted' = FALSE /\ ~selected
        \/ selected' = FALSE /\ mounted' = mounted
        \/ selected' = selected /\ mounted' = mounted
    BY DEF Select, UnmountPane, SelectOtherSession, Prefetch, Reload, paneVars
  <2>3. selected \in BOOLEAN /\ mounted \in BOOLEAN
    BY <2>1
  <2>4. selected' \in BOOLEAN /\ mounted' \in BOOLEAN
    BY <2>2, <2>3, Zenon
  <2>5. selected' => mounted'
    BY <2>1, <2>2, Zenon
  <2>6. {selected', mounted'} \subseteq BOOLEAN
    BY <2>4, Zenon
  <2> QED
    BY <2>5, <2>6, Zenon DEF PanesTyped
<1>4. stored' \in Nat /\ stored <= stored' /\ (pagination # {} => pagination' # {})
  BY <1>1, PagesFacts
<1>5. {} \in Cursors /\ {} \subseteq 0 .. stored
  BY DEF Cursors
<1>6. ReadsInv'
  <2>1. CASE UNCHANGED readVars
    BY <1>4, <2>1, ReadsStay DEF readVars
  <2>2. CASE Request("pane", {})
    BY <1>1, <1>4, <1>5, <2>2, ReadsMore DEF Requests
  <2>3. CASE Request("page", {})
    BY <1>1, <1>4, <1>5, <2>3, ReadsMore DEF Requests
  <2>4. CASE UnmountPane
    BY <1>4, <2>4, ReadsStay DEF UnmountPane, WithoutPane
  <2> QED
    BY <2>1, <2>2, <2>3, <2>4 DEF Select, SelectOtherSession, Prefetch, Reload
<1> QED
  BY <1>2, <1>3, <1>6 DEF PagesInv

LEMMA StartReachedKeeps ==
  ASSUME PagesInv, HandleStartReached
  PROVE  PagesInv'
<1>1. PICK p \in pagination : /\ pagination' = {[p EXCEPT !.loading = TRUE]}
                              /\ Request("older", p.oldest)
  BY DEF HandleStartReached
<1>2. UNCHANGED <<stored, loaded, embedded, localRows, holes, selected, mounted>>
  BY DEF HandleStartReached, paneVars
<1>3. p \in PageRecord /\ pagination = {p} /\ p.oldest \subseteq 0 .. stored /\ stored \in Nat
  BY PagesFacts
<1>4. /\ [p EXCEPT !.loading = TRUE] \in PageRecord
      /\ [p EXCEPT !.loading = TRUE].hasMore = p.hasMore
      /\ [p EXCEPT !.loading = TRUE].oldest = p.oldest
      /\ [p EXCEPT !.loading = TRUE].total = p.total
      /\ p.oldest \in Cursors
  BY <1>3 DEF PageRecord
<1>5. \A q \in PageRecord : pagination = {q} => q = p
  BY <1>3
<1>6. ListTyped' /\ (holes' = {} => Whole') /\ pagination' # {}
  BY <1>1, <1>2, <1>3, <1>4, <1>5, CursorStays
<1>7. ReadsInv'
  BY <1>1, <1>2, <1>3, <1>4, <1>6, ReadsMore DEF Requests
<1>8. PanesTyped'
  BY <1>2 DEF PagesInv, PanesTyped
<1> QED
  BY <1>6, <1>7, <1>8 DEF PagesInv

LEMMA ReadFailsKeeps ==
  ASSUME PagesInv, NEW r \in reads, ReadFails(r)
  PROVE  PagesInv'
<1>1. /\ pagination' = {[p EXCEPT !.loading = @ /\ r.kind # "older"] : p \in pagination}
      /\ reads' = reads \ {r}
      /\ UNCHANGED <<stored, loaded, embedded, localRows, holes, selected, mounted, readsMade>>
  BY DEF ReadFails, paneVars
<1>2. pagination = {} => pagination' = {}
  BY <1>1
<1>3. ASSUME NEW p \in PageRecord, pagination = {p}
      PROVE  \E q \in PageRecord : /\ pagination' = {q} /\ q.hasMore = p.hasMore
                                   /\ q.oldest = p.oldest /\ q.total = p.total
  <2> DEFINE q == [p EXCEPT !.loading = @ /\ r.kind # "older"]
  <2>1. pagination' = {q}
    BY <1>1, <1>3
  <2>2. /\ q \in PageRecord /\ q.hasMore = p.hasMore /\ q.oldest = p.oldest /\ q.total = p.total
    BY <1>3 DEF PageRecord
  <2> QED
    BY <2>1, <2>2
<1>4. ListTyped' /\ (holes' = {} => Whole') /\ (pagination # {} => pagination' # {})
  BY <1>1, <1>2, <1>3, CursorStays
<1>5. ReadsInv'
  BY <1>1, <1>4, PagesFacts, ReadsStay
<1>6. PanesTyped'
  BY <1>1 DEF PagesInv, PanesTyped
<1> QED
  BY <1>4, <1>5, <1>6 DEF PagesInv

\* The server answers with a page of the table.
LEMMA ServerReadsKeeps ==
  ASSUME PagesInv, NEW r \in reads, ServerReads(r)
  PROVE  PagesInv'
<1> DEFINE U == Stored
           page == PageBefore(r.before)
           more == MoreBefore(r.before)
           new == [r EXCEPT !.answered = TRUE, !.page = page, !.hasMore = more, !.total = stored]
<1>1. /\ reads' = (reads \ {r}) \cup {new}
      /\ UNCHANGED <<stored, loaded, embedded, localRows, pagination, holes, selected, mounted, readsMade>>
  BY DEF ServerReads, listVarsOfPages, paneVars
<1>2. ListTyped' /\ (holes' = {} => Whole')
  BY <1>1, ListStays
<1>3. PanesTyped'
  BY <1>1 DEF PagesInv, PanesTyped
<1>4. /\ r \in Reading /\ r.before \subseteq 0 .. stored
      /\ r.kind # "older" => r.before = {}
      /\ stored \in Nat /\ stored \in Positions /\ r.before \in Cursors
  BY PagesFacts DEF ReadIs, Reading
<1> DEFINE m == UpTo(r.before, stored)
<1>5. /\ m \in 0 .. stored /\ (r.before = {} => m = stored)
      /\ \A n \in r.before : m = IF n = 0 THEN 0 ELSE n - 1
  BY <1>4, BeforeIs
<1>6. PICK a \in 1 .. m + 1 : /\ Stretch(page, a, m)
                              /\ a = 1 \/ more
                              /\ m > 0 => a <= m
  BY <1>4, PageIs
<1>7. more \in BOOLEAN /\ page \in Seq(U)
  BY <1>6 DEF MoreBefore, Stretch
<1>8. /\ new.before = r.before /\ new.answered = TRUE /\ new.page = page
      /\ new.hasMore = more /\ new.total = stored /\ new.kind = r.kind /\ new \in Reading
  <2> HIDE DEF page, more, U
  <2>1. page \in Seq(Stored)
    BY <1>7 DEF U
  <2> QED
    BY <1>4, <1>7, <2>1 DEF Reading
<1> HIDE DEF page, more, new, m, U
<1>9. AsRead(new)
  BY <1>5, <1>6, <1>8 DEF AsRead
<1>10. ReadIs(new, stored)
  BY <1>4, <1>8, <1>9 DEF ReadIs
<1>11. ReadsInv'
  <2>1. /\ IsFiniteSet(reads) /\ Cardinality(reads) <= readsMade /\ readsMade \in 0 .. MaxReads
        /\ \A q \in reads : ReadIs(q, stored)
        /\ (\E q \in reads : q.kind = "older") => pagination # {}
    BY DEF PagesInv, ReadsInv
  <2>2. Cardinality(reads) \in Nat /\ readsMade \in Nat
    BY <2>1, PageNumbers, FS_CardinalityType
  <2> DEFINE rest == reads \ {r}
  <2>3. IsFiniteSet(rest) /\ Cardinality(rest) = Cardinality(reads) - 1
    BY <2>1, FS_RemoveElement
  <2>4. Cardinality(rest) \in Nat
    BY <2>3, FS_CardinalityType
  <2>5. /\ IsFiniteSet(rest \cup {new})
        /\ Cardinality(rest \cup {new}) =
             IF new \in rest THEN Cardinality(rest) ELSE Cardinality(rest) + 1
    BY <2>3, FS_AddElement
  <2>6. Cardinality(rest \cup {new}) <= Cardinality(reads)
    <3> HIDE DEF rest
    <3> QED
      BY <2>2, <2>3, <2>4, <2>5
  <2>7. Cardinality(rest \cup {new}) \in Nat
    BY <2>5, FS_CardinalityType
  <2>8. Cardinality(rest \cup {new}) <= readsMade
    <3> HIDE DEF rest
    <3> QED
      BY <2>1, <2>2, <2>6, <2>7
  <2>9. reads' = rest \cup {new} /\ readsMade' = readsMade
    BY <1>1
  <2>10. \A q \in reads' : ReadIs(q, stored')
    BY <1>1, <1>10, <2>1
  <2>11. (\E q \in reads' : q.kind = "older") => pagination' # {}
    BY <1>1, <1>8, <2>1
  <2> QED
    BY <2>1, <2>5, <2>8, <2>9, <2>10, <2>11 DEF ReadsInv
<1> QED
  BY <1>2, <1>3, <1>11 DEF PagesInv

\* Filtering a page that is in the list, or apart from it.
LEMMA OnlyNone ==
  ASSUME NEW U, NEW S, NEW s \in Seq(U), ToSet(s) \cap S = {}
  PROVE  Only(s, S) = <<>>
<1>1. Only(s, S) \in Seq(U) /\ ToSet(Only(s, S)) = {}
  BY OnlySet
<1> QED
  BY <1>1, SetOfList

LEMMA OnlyOthers ==
  ASSUME NEW U, NEW S, NEW s \in Seq(U), ToSet(s) \subseteq S
  PROVE  Only(s, S) = s
<1>1. \A i \in 1 .. Len(s) : s[i] \in S
  BY SetOfList
<1> QED
  BY <1>1, OnlyAll

\* A page replaces the list.
LEMMA SetPageKeeps ==
  ASSUME PagesInv, NEW r \in reads, SetMessagePageOf(r)
  PROVE  PagesInv'
<1> DEFINE U == Stored
           f == First(r.page)
           p == [hasMore |-> r.hasMore, oldest |-> {f}, loading |-> FALSE,
                 total |-> r.total]
<1>1. /\ r.answered /\ r.kind # "older" /\ reads' = reads \ {r} /\ loaded' = r.page
      /\ pagination' = {p} /\ holes' = {h \in {"outdated"} : r.total < stored}
      /\ embedded' = {}
      /\ UNCHANGED <<stored, localRows, selected, mounted, readsMade>>
  BY DEF SetMessagePageOf, paneVars
<1>2. /\ ReadIs(r, stored) /\ stored \in Nat /\ stored \in Positions
  BY PagesFacts
<1>3. /\ r \in Reading /\ r.total <= stored /\ r.before = {} /\ r.total \in Nat
      /\ AsRead(r) /\ r.hasMore \in BOOLEAN /\ r.total \in Positions /\ r.page \in Seq(U)
      /\ r.total \in 0 .. MaxStored + MaxLocal /\ localRows \in 0 .. MaxLocal /\ localRows \in Nat
      /\ r.page \in Seq(Positions)
  BY <1>1, <1>2, PageNumbers, StoredIs, PagesFacts DEF ReadIs, Reading, Positions
<1>4. PICK a \in 1 .. r.total + 1 : /\ Stretch(r.page, a, r.total)
                                    /\ a = 1 \/ r.hasMore = TRUE
                                    /\ r.total > 0 => a <= r.total
  BY <1>3 DEF AsRead
<1>5. /\ First(r.page) \in 0 .. stored
      /\ r.total > 0 => First(r.page) = a /\ r.page # <<>>
      /\ r.page # <<>> => r.total > 0 /\ First(r.page) = a
  <2>1. /\ r.page = <<>> <=> a = r.total + 1
        /\ a <= r.total => First(r.page) = a
    BY <1>3, <1>4, StretchSet
  <2>2. r.page = <<>> => First(r.page) = 0
    BY DEF First
  <2>3. CASE r.page = <<>>
    BY <1>2, <1>3, <1>4, <2>1, <2>2, <2>3
  <2>4. CASE r.page # <<>>
    BY <1>2, <1>3, <1>4, <2>1, <2>4
  <2> QED
    BY <2>3, <2>4
<1>6. /\ p \in PageRecord /\ p.hasMore = r.hasMore /\ p.oldest = {f} /\ p.total = r.total
  <2>1. f \in Positions
    BY <1>2, <1>5, PageNumbers DEF Positions
  <2>2. {f} \in Cursors
    <3> HIDE DEF f
    <3> QED
      BY <2>1 DEF Cursors
  <2> HIDE DEF f
  <2> QED
    BY <1>3, <2>2 DEF PageRecord
<1> HIDE DEF p, f
<1>7. ListTyped'
  <2>1. r.total <= stored + localRows
    BY <1>2, <1>3
  <2>2. \A q \in pagination' : q.total <= stored' + localRows' /\ q.oldest \subseteq 0 .. stored'
    BY <1>1, <1>5, <1>6, <2>1 DEF f
  <2>3. holes' \subseteq HoleKinds
    BY <1>1 DEF HoleKinds
  <2>4. embedded' \subseteq 1 .. stored' /\ IsFiniteSet(embedded')
    BY <1>1, FS_EmptySet
  <2> QED
    BY <1>1, <1>2, <1>3, <1>6, <2>2, <2>3, <2>4 DEF ListTyped
<1>8. ASSUME holes' = {} PROVE Whole'
  <2>0. ~(r.total < stored) /\ stored' = stored
    BY <1>1, <1>8, Zenon
  <2>1. r.total = stored /\ stored' = stored
    BY <1>2, <1>3, <2>0
  <2>2. CASE loaded' = <<>>
    <3>1. r.page = <<>> /\ f = 0 /\ r.total = 0
      BY <1>1, <1>3, <1>5, <2>2 DEF First, f
    <3> QED
      BY <1>1, <1>6, <2>2, <3>1 DEF Whole
  <2>3. CASE loaded' # <<>>
    <3>1. f = a
      BY <1>1, <1>5, <2>3 DEF f
    <3>2. Rows' = loaded' /\ Rows' = r.page
      <4>1. ToSet(r.page) \subseteq Stored
        BY <1>3 DEF ToSet
      <4>2. Only(r.page, Stored) = r.page
        BY <1>3, <4>1, OnlyOthers
      <4>3. Rows' = Only(loaded', Stored)
        BY DEF Rows, Stored
      <4> QED
        BY <1>1, <4>2, <4>3
    <3>3. a = 1 \/ \E q \in pagination' : q.hasMore = TRUE /\ q.oldest = {a}
      BY <1>1, <1>4, <1>6, <3>1
    <3>4. a \in 1 .. stored' + 1 /\ Stretch(Rows', a, stored')
      BY <1>4, <2>1, <3>2
    <3>5. \A q \in pagination' :
            q.total + Cardinality(embedded') = stored' + Len(loaded') - Len(Rows')
      <4>1. Cardinality(embedded') = 0 /\ Len(loaded') \in Nat /\ Len(Rows') = Len(loaded')
        BY <1>1, <1>3, <3>2, FS_EmptySet
      <4> QED
        BY <1>1, <1>2, <1>6, <2>1, <4>1
    <3>6. ListWhole'
      BY <3>3, <3>4, <3>5 DEF ListWhole
    <3> QED
      BY <2>3, <3>6 DEF Whole
  <2> QED
    BY <2>2, <2>3
<1>9. ReadsInv'
  <2>1. stored' \in Nat /\ stored <= stored' /\ pagination' # {} /\ reads' \subseteq reads
    BY <1>1, <1>2
  <2> QED
    BY <1>1, <2>1, ReadsStay
<1>10. PanesTyped'
  BY <1>1 DEF PagesInv, PanesTyped
<1> QED
  BY <1>7, <1>8, <1>9, <1>10 DEF PagesInv

\* Leaving the conversation trims a long list at its beginning.
LEMMA SelectOtherKeeps ==
  ASSUME PagesInv, SelectOther
  PROVE  PagesInv'
<1> DEFINE k == MESSAGE_EVICTION_KEEP
           n == Len(loaded)
<1>1. /\ stored \in Nat /\ stored \in Positions /\ loaded \in Seq(Positions) /\ n \in Nat
      /\ localRows \in 0 .. MaxLocal /\ localRows \in Nat /\ MaxLocal \in Nat
      /\ embedded \subseteq 1 .. stored /\ IsFiniteSet(embedded)
      /\ pagination = {} \/ \E p \in PageRecord : pagination = {p}
      /\ \A p \in pagination : p.total <= stored + localRows /\ p.oldest \subseteq 0 .. stored
      /\ pagination = {} => n <= stored + localRows
      /\ holes \subseteq HoleKinds
      /\ k \in Nat \ {0} /\ MESSAGE_EVICTION_THRESHOLD \in Nat /\ k <= MESSAGE_EVICTION_THRESHOLD
  BY PagesFacts, PageNumbers
<1>2. /\ selected' = FALSE /\ mounted' = FALSE /\ reads' \subseteq reads
      /\ UNCHANGED <<stored, localRows, readsMade>> /\ EvictConversationMessages
  BY DEF SelectOther, WithoutPane
<1>3. PanesTyped'
  BY <1>2 DEF PanesTyped
<1>4. CASE n <= MESSAGE_EVICTION_THRESHOLD
  <2>1. UNCHANGED <<stored, loaded, embedded, localRows, pagination, holes>>
    BY <1>2, <1>4 DEF EvictConversationMessages, listVarsOfPages
  <2>2. ListTyped' /\ (holes' = {} => Whole')
    BY <2>1, ListStays
  <2>3. ReadsInv'
    BY <1>1, <1>2, <2>1, ReadsStay
  <2> QED
    BY <1>3, <2>2, <2>3 DEF PagesInv
<1>5. CASE ~(n <= MESSAGE_EVICTION_THRESHOLD)
  <2> DEFINE new == [hasMore |-> TRUE, oldest |-> {}, loading |-> FALSE, total |-> n]
             old == IF pagination # {} THEN pagination ELSE {new}
  <2>1. /\ loaded' = SubSeq(loaded, n - k + 1, n)
        /\ embedded' = embedded \cap ToSet(loaded')
        /\ pagination' = {[p EXCEPT !.hasMore = TRUE, !.loading = FALSE] : p \in old}
        /\ holes' = holes \cup {"evicted"}
    BY <1>2, <1>5 DEF EvictConversationMessages
  <2>2. pagination = {} => new \in PageRecord /\ new.total <= stored + localRows /\ new.oldest = {}
    <3>1. {} \in Cursors
      BY DEF Cursors
    <3>2. pagination = {} => n \in 0 .. MaxStored + MaxLocal
      <4>1. stored <= MaxStored /\ localRows <= MaxLocal /\ MaxStored \in Nat
        BY <1>1, PageNumbers DEF Positions
      <4> HIDE DEF n
      <4> QED
        BY <1>1, <4>1
    <3> HIDE DEF n
    <3> QED
      BY <1>1, <3>1, <3>2 DEF PageRecord
  <2>3. \E p \in PageRecord : /\ old = {p} /\ p.total <= stored + localRows
                              /\ p.oldest \subseteq 0 .. stored
    <3> HIDE DEF new
    <3> QED
      BY <1>1, <2>2
  <2>4. PICK p \in PageRecord : /\ old = {p} /\ p.total <= stored + localRows
                                /\ p.oldest \subseteq 0 .. stored
    BY <2>3
  <2> HIDE DEF old, new
  <2> DEFINE q == [p EXCEPT !.hasMore = TRUE, !.loading = FALSE]
  <2>5. /\ q \in PageRecord /\ q.oldest = p.oldest /\ q.total = p.total
        /\ pagination' = {q}
    BY <2>1, <2>4 DEF PageRecord
  <2> HIDE DEF q
  <2>6. loaded' \in Seq(Positions)
    <3> DEFINE c == n - k + 1
    <3>1. loaded \in Seq(Positions) /\ c \in 1 .. Len(loaded) + 1 /\ n \in 0 .. Len(loaded) /\ c <= n + 1
      BY <1>1, <1>5
    <3>2. loaded' = SubSeq(loaded, c, n)
      BY <2>1
    <3> HIDE DEF c, n
    <3> QED
      BY <3>1, <3>2, Pieces
  <2>7. embedded' \subseteq 1 .. stored' /\ IsFiniteSet(embedded')
    <3>1. embedded' \subseteq embedded
      BY <2>1
    <3> QED
      BY <1>1, <1>2, <3>1, FS_Subset
  <2>8. ListTyped'
    <3>1. holes' \subseteq HoleKinds
      BY <1>1, <2>1 DEF HoleKinds
    <3>2. \A x \in pagination' : x.total <= stored' + localRows' /\ x.oldest \subseteq 0 .. stored'
      BY <1>2, <2>4, <2>5
    <3> QED
      BY <1>1, <1>2, <2>5, <2>6, <2>7, <3>1, <3>2 DEF ListTyped
  <2>9. holes' # {}
    BY <2>1
  <2>10. ReadsInv'
    <3>1. stored' \in Nat /\ stored <= stored' /\ pagination' # {}
      BY <1>1, <1>2, <2>5
    <3> QED
      BY <1>2, <3>1, ReadsStay
  <2> QED
    BY <1>3, <2>8, <2>9, <2>10 DEF PagesInv
<1> QED
  BY <1>4, <1>5

\* An older page is put before the list.
LEMMA PrependKeeps ==
  ASSUME PagesInv, NEW r \in reads, PrependMessages(r)
  PROVE  PagesInv'
<1> DEFINE U == Stored
           f == First(r.page)
           S == Positions \ ToSet(loaded)
           front == Only(r.page, S)
<1>1. /\ r.answered /\ r.kind = "older" /\ reads' = reads \ {r}
      /\ loaded' = front \o loaded
      /\ pagination' = {[p EXCEPT !.hasMore = r.hasMore, !.oldest = {f}, !.loading = FALSE] :
                        p \in pagination}
      /\ holes' = holes \cup {h \in {"raced"} : \E p \in pagination : p.oldest # r.before}
      /\ UNCHANGED <<stored, localRows, embedded, selected, mounted, readsMade>>
  BY DEF PrependMessages, Prepended, paneVars
<1>2. /\ stored \in Nat /\ stored \in Positions /\ loaded \in Seq(Positions)
      /\ localRows \in 0 .. MaxLocal /\ Len(loaded) \in Nat
      /\ embedded \subseteq 1 .. stored /\ IsFiniteSet(embedded)
      /\ pagination = {} \/ \E p \in PageRecord : pagination = {p}
      /\ \A p \in pagination : p.total <= stored + localRows /\ p.oldest \subseteq 0 .. stored
      /\ holes \subseteq HoleKinds
      /\ ReadIs(r, stored) /\ pagination # {}
  BY <1>1, PagesFacts
<1>3. /\ r \in Reading /\ r.total <= stored /\ r.total \in Nat /\ r.page \in Seq(U)
      /\ AsRead(r) /\ r.hasMore \in BOOLEAN /\ r.before \subseteq 0 .. stored
  <2>1. r \in Reading /\ r.total <= stored /\ r.before \subseteq 0 .. stored
    BY <1>2 DEF ReadIs
  <2>2. r.total \in Nat /\ r.page \in Seq(U) /\ r.hasMore \in BOOLEAN /\ r.answered \in BOOLEAN
    BY <2>1, PageNumbers DEF Reading, Positions
  <2>3. r.answered = TRUE
    BY <1>1, <2>2, Zenon
  <2>4. AsRead(r)
    BY <1>2, <2>3 DEF ReadIs
  <2> QED
    BY <2>1, <2>2, <2>4
<1>4. PICK m \in 0 .. r.total : \E a \in 1 .. m + 1 :
          /\ Stretch(r.page, a, m) /\ (a = 1 \/ r.hasMore = TRUE) /\ (m > 0 => a <= m)
          /\ \A n \in r.before : m = IF n = 0 THEN 0 ELSE n - 1
  BY <1>3 DEF AsRead
<1>5. PICK a \in 1 .. m + 1 :
          /\ Stretch(r.page, a, m) /\ (a = 1 \/ r.hasMore = TRUE) /\ (m > 0 => a <= m)
          /\ \A n \in r.before : m = IF n = 0 THEN 0 ELSE n - 1
  BY <1>4
<1>6. /\ m \in Nat /\ m <= stored /\ a \in Nat /\ a >= 1 /\ a <= m + 1
      /\ stored' = stored
  <2>1. m \in Nat /\ m <= stored
    BY <1>2, <1>3, <1>4
  <2>2. a \in Nat /\ a >= 1 /\ a <= m + 1
    BY <1>5, <2>1
  <2> QED
    BY <1>1, <2>1, <2>2
<1>7. /\ ToSet(r.page) = a .. m /\ (r.page = <<>> <=> a = m + 1)
      /\ a <= m => f = a
  BY <1>5, <1>6, StretchSet
<1>8. f \in 0 .. stored
  <2>1. r.page = <<>> => f = 0
    BY DEF First
  <2> HIDE DEF f
  <2>2. r.page # <<>> => f = a /\ a <= m
    BY <1>5, <1>6, <1>7
  <2> QED
    BY <1>2, <1>5, <1>6, <2>1, <2>2
<1>9. PICK p \in PageRecord : pagination = {p}
  BY <1>2
<1> DEFINE q == [p EXCEPT !.hasMore = r.hasMore, !.oldest = {f}, !.loading = FALSE]
<1>10. pagination' = {q}
  BY <1>1, <1>9
<1>11. q \in PageRecord /\ q.hasMore = r.hasMore /\ q.oldest = {f} /\ q.total = p.total
  <2>1. f \in Positions
    BY <1>2, <1>8, PageNumbers DEF Positions
  <2> HIDE DEF f
  <2>2. {f} \in Cursors
    BY <2>1 DEF Cursors
  <2> QED
    BY <1>3, <1>9, <2>2 DEF PageRecord
<1> HIDE DEF q, f
<1> DEFINE rows == Only(loaded, Stored)
<1>12. /\ loaded' \in Seq(Positions) /\ Len(loaded') = Len(front) + Len(loaded)
       /\ front \in Seq(Stored) /\ Len(front) \in Nat
       /\ rows \in Seq(Stored) /\ Len(rows) \in Nat /\ ToSet(rows) = ToSet(loaded) \cap Stored
       /\ Rows' = front \o rows /\ Len(Rows') = Len(front) + Len(rows)
  <2> HIDE DEF S, front, rows
  <2>1. front \in Seq(Stored)
    BY <1>3, OnlySet DEF front, U
  <2>2. front \in Seq(Positions) /\ ToSet(front) \subseteq Stored /\ Len(front) \in Nat
    BY <2>1, StoredIs DEF ToSet
  <2>3. Only(front, Stored) = front
    BY <2>1, <2>2, OnlyOthers
  <2>4. /\ front \o loaded \in Seq(Positions) /\ Len(front \o loaded) = Len(front) + Len(loaded)
        /\ Only(front \o loaded, Stored) = front \o rows
        /\ Len(Only(front \o loaded, Stored)) = Len(front) + Len(rows)
    <3>1. /\ Only(front \o loaded, Stored) = Only(front, Stored) \o Only(loaded, Stored)
          /\ Len(Only(front \o loaded, Stored)) = Len(Only(front, Stored)) + Len(Only(loaded, Stored))
          /\ front \o loaded \in Seq(Positions) /\ Len(front \o loaded) = Len(front) + Len(loaded)
      BY <1>2, <2>2, RowsJoin
    <3> QED
      BY <2>3, <3>1 DEF rows
  <2>5. rows \in Seq(Stored) /\ Len(rows) \in Nat /\ ToSet(rows) = ToSet(loaded) \cap Stored
    BY <1>2, RowsAre DEF rows
  <2>6. Rows' = Only(loaded', Stored)
    BY DEF Rows, Stored
  <2> QED
    BY <1>1, <2>1, <2>2, <2>4, <2>5, <2>6
<1>13. ListTyped'
  <2>1. holes' \subseteq HoleKinds
    BY <1>1, <1>2 DEF HoleKinds
  <2>2. \A x \in pagination' : x.total <= stored' + localRows' /\ x.oldest \subseteq 0 .. stored'
    BY <1>1, <1>2, <1>8, <1>9, <1>10, <1>11
  <2>3. embedded' \subseteq 1 .. stored' /\ IsFiniteSet(embedded') /\ localRows' \in 0 .. MaxLocal
    BY <1>1, <1>2
  <2> QED
    BY <1>1, <1>2, <1>10, <1>11, <1>12, <2>1, <2>2, <2>3 DEF ListTyped
<1>14. ASSUME holes' = {} PROVE Whole'
  <2>1. holes = {} /\ ~(\E x \in pagination : x.oldest # r.before)
    BY <1>1, <1>14, Zenon
  <2>2. Whole /\ p.oldest = r.before
    BY <1>9, <2>1 DEF PagesInv
  <2>3. CASE loaded = <<>>
    <3>1. embedded = {} /\ p.oldest = {0} /\ p.total = 0
      BY <1>9, <2>2, <2>3 DEF Whole
    <3>2. m = 0 /\ a = 1
      BY <1>5, <1>6, <2>2, <3>1
    <3>3. r.page = <<>> /\ front = <<>> /\ <<>> \o <<>> = <<>>
      BY <1>7, <3>2, OnlyEmpty
    <3>4. loaded' = <<>> /\ f = 0 /\ embedded' = {}
      BY <1>1, <2>3, <3>1, <3>3 DEF First, f
    <3> QED
      BY <1>10, <1>11, <3>1, <3>4 DEF Whole
  <2>4. CASE loaded # <<>>
    <3>1. PICK b \in 1 .. stored + 1 :
            /\ Stretch(rows, b, stored)
            /\ b = 1 \/ \E x \in pagination : x.hasMore = TRUE /\ x.oldest = {b}
      BY <2>2, <2>4 DEF Whole, ListWhole, Rows
    <3>2. ToSet(loaded) \cap Stored = b .. stored
      BY <1>2, <1>12, <3>1, StretchSet
    <3> HIDE DEF rows
    <3>3. \A x \in pagination' :
             x.total + Cardinality(embedded') = stored' + Len(loaded') - Len(Rows')
      <4>1. p.total + Cardinality(embedded) = stored + Len(loaded) - Len(rows)
        BY <1>9, <2>2, <2>4 DEF Whole, ListWhole, Rows, rows
      <4>2. q.total = p.total /\ embedded' = embedded /\ stored' = stored
        BY <1>1, <1>11
      <4>3. Len(loaded') - Len(Rows') = Len(loaded) - Len(rows)
        <5> DEFINE L == Len(loaded)
                   R == Len(rows)
                   F == Len(front)
        <5>1. L \in Nat /\ R \in Nat /\ F \in Nat /\ Len(loaded') = F + L /\ Len(Rows') = F + R
          BY <1>2, <1>12
        <5> HIDE DEF L, R, F
        <5>2. Len(loaded') - Len(Rows') = L - R
          BY <5>1
        <5> QED
          BY <5>2 DEF L, R
      <4>4. /\ Len(loaded') \in Nat /\ Len(Rows') \in Nat /\ Len(loaded) \in Nat /\ Len(rows) \in Nat
            /\ p.total \in Nat /\ Cardinality(embedded) \in Nat
        <5>1. p.total \in Nat
          BY <1>9 DEF PageRecord
        <5>2. Cardinality(embedded) \in Nat
          BY <1>2, FS_CardinalityType
        <5>3. Len(loaded) \in Nat /\ Len(rows) \in Nat /\ Len(front) \in Nat
          BY <1>2, <1>12
        <5> HIDE DEF front
        <5> QED
          BY <1>12, <5>1, <5>2, <5>3
      <4>5. q.total + Cardinality(embedded') = stored' + Len(loaded') - Len(Rows')
        BY <1>2, <4>1, <4>2, <4>3, <4>4
      <4> QED
        BY <1>10, <4>5
    <3>4. loaded' # <<>>
      <4>1. Len(loaded) # 0
        BY <1>2, <2>4, EmptySeq
      <4>2. Len(loaded') # 0
        <5> HIDE DEF front
        <5> QED
          BY <1>2, <1>12, <4>1
      <4> QED
        BY <4>2
    <3>5. CASE b = 1
      <4>1. ToSet(r.page) \cap S = {}
        <5>1. a .. m \subseteq 1 .. stored
          BY <1>2, <1>6
        <5>2. ToSet(r.page) \subseteq ToSet(loaded)
          BY <1>7, <3>2, <3>5, <5>1
        <5> QED
          BY <5>2
      <4>2. front = <<>>
        BY <1>3, <4>1, OnlyNone
      <4>3. Rows' = rows
        BY <1>12, <4>2, ConcatEmptySeq
      <4>4. \E c \in 1 .. stored' + 1 : Stretch(Rows', c, stored') /\ c = 1
        BY <1>1, <3>1, <3>5, <4>3
      <4>5. ListWhole'
        BY <3>3, <4>4 DEF ListWhole
      <4> QED
        BY <3>4, <4>5 DEF Whole
    <3>6. CASE b # 1
      <4>1. r.before = {b} /\ m = b - 1 /\ m > 0 /\ a <= m
        <5>1. p.oldest = {b} /\ r.before = {b}
          BY <1>9, <2>2, <3>1, <3>6
        <5>2. m = IF b = 0 THEN 0 ELSE b - 1
          BY <1>5, <5>1
        <5>3. m = b - 1 /\ m > 0
          BY <1>2, <3>1, <3>6, <5>2
        <5> QED
          BY <1>5, <5>1, <5>3
      <4>2. ToSet(r.page) \subseteq S
        <5>1. a .. m \subseteq Positions /\ a .. m \subseteq Stored
          BY <1>2, <1>6, PageNumbers DEF Positions, Stored
        <5>2. (a .. m) \cap (b .. stored) = {}
          BY <1>5, <1>6, <3>1, <4>1
        <5> QED
          BY <1>7, <3>2, <5>1, <5>2
      <4>3. front = r.page
        BY <1>3, <4>2, OnlyOthers
      <4>4. a \in 1 .. stored + 1 /\ Stretch(r.page \o rows, a, stored)
        <5>1. m \in 0 .. stored /\ a \in 1 .. m + 1 /\ m + 1 = b
          BY <1>2, <1>5, <1>6, <3>1, <4>1
        <5>2. Stretch(r.page, a, m) /\ Stretch(rows, m + 1, stored)
          BY <1>5, <3>1, <5>1
        <5> QED
          BY <1>2, <5>1, <5>2, StretchJoin
      <4>5. a = 1 \/ \E x \in pagination' : x.hasMore = TRUE /\ x.oldest = {a}
        BY <1>5, <1>7, <1>10, <1>11, <4>1
      <4>6. Rows' = r.page \o rows /\ stored' = stored
        BY <1>1, <1>12, <4>3
      <4>7. \E c \in 1 .. stored' + 1 :
              /\ Stretch(Rows', c, stored')
              /\ c = 1 \/ \E x \in pagination' : x.hasMore = TRUE /\ x.oldest = {c}
        BY <4>4, <4>5, <4>6
      <4>8. ListWhole'
        BY <3>3, <4>7 DEF ListWhole
      <4> QED
        BY <3>4, <4>8 DEF Whole
    <3> QED
      BY <3>5, <3>6
  <2> QED
    BY <2>3, <2>4
<1>15. ReadsInv'
  <2>1. stored' \in Nat /\ stored <= stored' /\ pagination' # {} /\ reads' \subseteq reads
    <3>1. stored' \in Nat /\ stored <= stored'
      BY <1>2, <1>6
    <3>2. pagination' # {}
      BY <1>10
    <3>3. reads' \subseteq reads
      BY <1>1
    <3> QED
      BY <3>1, <3>2, <3>3
  <2> QED
    BY <1>1, <2>1, ReadsStay
<1>16. PanesTyped'
  BY <1>1 DEF PagesInv, PanesTyped
<1> QED
  BY <1>13, <1>14, <1>15, <1>16 DEF PagesInv
-----------------------------------------------------------------------------
LEMMA PagesInvInit == PagesInit => PagesInv
<1> SUFFICES ASSUME PagesInit PROVE PagesInv
  OBVIOUS
<1>1. /\ stored \in {0, OldMessages} /\ loaded = <<>> /\ pagination = {}
      /\ selected = FALSE /\ mounted = FALSE /\ reads = {} /\ readsMade = 0 /\ holes = {}
      /\ embedded = {} /\ localRows = 0
  BY DEF PagesInit
<1>2. stored \in Nat /\ stored \in Positions
  BY <1>1, PageNumbers DEF Positions
<1>3. ReadsInv
  <2>1. IsFiniteSet({}) /\ Cardinality({}) = 0
    BY FS_EmptySet
  <2> QED
    BY <1>1, <2>1, PageNumbers DEF ReadsInv
<1>4. ListTyped
  <2>1. <<>> \in Seq(Positions) /\ Len(<<>>) = 0 /\ IsFiniteSet({}) /\ 0 \in 0 .. MaxLocal
    BY EmptySeq, FS_EmptySet, PageNumbers
  <2> QED
    BY <1>1, <1>2, <2>1 DEF ListTyped
<1>5. PanesTyped
  BY <1>1 DEF PanesTyped
<1>6. Whole
  BY <1>1 DEF Whole
<1> QED
  BY <1>3, <1>4, <1>5, <1>6 DEF PagesInv

LEMMA PagesInvStep == PagesInv /\ [PagesNext]_pageVars => PagesInv'
<1> SUFFICES ASSUME PagesInv, [PagesNext]_pageVars PROVE PagesInv'
  OBVIOUS
<1>1. CASE UNCHANGED pageVars
  <2>1. /\ UNCHANGED <<stored, loaded, embedded, localRows, pagination, holes>>
        /\ UNCHANGED <<selected, mounted, reads, readsMade>>
    BY <1>1 DEF pageVars, listVarsOfPages, paneVars, readVars
  <2>2. ListTyped' /\ (holes' = {} => Whole')
    BY <2>1, ListStays
  <2>3. PanesTyped'
    BY <2>1 DEF PagesInv, PanesTyped
  <2>4. ReadsInv'
    BY <2>1 DEF PagesInv, ReadsInv
  <2> QED
    BY <2>2, <2>3, <2>4 DEF PagesInv
<1>2. CASE AddMessage \/ AddAnswerAndQueued \/ AddLocalRow \/ StoreUnseen
  BY <1>2, AddMessageKeeps, AddAnswerKeeps, AddLocalRowKeeps, StoreUnseenKeeps
<1>3. CASE Select \/ UnmountPane \/ SelectOtherSession \/ Prefetch \/ Reload
  BY <1>3, PanesKeep
<1>4. CASE SelectOther
  BY <1>4, SelectOtherKeeps
<1>5. CASE HandleStartReached
  BY <1>5, StartReachedKeeps
<1>6. ASSUME NEW r \in reads,
             ServerReads(r) \/ ReadFails(r) \/ SetMessagePageOf(r) \/ PrependMessages(r)
      PROVE  PagesInv'
  BY <1>6, ServerReadsKeeps, ReadFailsKeeps, SetPageKeeps, PrependKeeps
<1> QED
  BY <1>1, <1>2, <1>3, <1>4, <1>5, <1>6 DEF PagesNext

LEMMA PagesInvTypes == PagesInv => PagesTypeOK
<1> SUFFICES ASSUME PagesInv PROVE PagesTypeOK
  OBVIOUS
<1>1. /\ stored \in Positions /\ loaded \in Seq(Positions) /\ localRows \in 0 .. MaxLocal
      /\ embedded \subseteq Stored
      /\ {selected, mounted} \subseteq BOOLEAN /\ (selected => mounted)
      /\ readsMade \in 0 .. MaxReads
      /\ holes \subseteq HoleKinds
  <2>1. stored \in Positions /\ embedded \subseteq 1 .. stored /\ MaxStored \in Nat
    BY PageNumbers DEF PagesInv, ListTyped
  <2>2. embedded \subseteq Stored
    BY <2>1 DEF Positions, Stored
  <2> QED
    BY <2>2 DEF PagesInv, ListTyped, PanesTyped, ReadsInv
<1>2. pagination \subseteq PageRecord /\ Cardinality(pagination) <= 1
  <2>1. pagination = {} \/ \E p \in PageRecord : pagination = {p}
    BY PagesFacts
  <2>2. Cardinality({}) = 0 /\ \A p : Cardinality({p}) = 1
    BY FS_EmptySet, FS_Singleton
  <2>3. CASE pagination = {}
    BY <2>2, <2>3
  <2>4. ASSUME NEW p \in PageRecord, pagination = {p}
        PROVE  pagination \subseteq PageRecord /\ Cardinality(pagination) <= 1
    <3>1. Cardinality(pagination) = 1
      BY <2>2, <2>4, Zenon
    <3> QED
      BY <2>4, <3>1
  <2> QED
    BY <2>1, <2>3, <2>4
<1>3. \A r \in reads : r \in Reading
  BY DEF PagesInv, ReadsInv, ReadIs
<1>4. \A r \in reads : /\ r.id \in 1 .. MaxReads /\ r.kind \in Requests /\ r.before \in Cursors
                       /\ r.answered \in BOOLEAN /\ r.page \in Seq(Stored)
  BY <1>3 DEF Reading
<1> QED
  BY <1>1, <1>2, <1>4 DEF PagesTypeOK, PageRecord, HoleKinds

LEMMA PagesInvContiguous == PagesInv => PagesContiguous
<1> DEFINE rows == Only(loaded, Stored)
           before == stored - Len(rows)
<1> SUFFICES ASSUME PagesInv, loaded # <<>>, holes = {}
             PROVE  /\ \A i \in DOMAIN rows : rows[i] = before + i
                    /\ before = 0 \/ \E p \in pagination : p.hasMore /\ p.oldest = {before + 1}
                    /\ \A p \in pagination :
                           p.total - (Len(loaded) - Cardinality(embedded)) = before
  BY DEF PagesContiguous
<1>1. /\ stored \in Nat /\ ListWhole /\ Len(loaded) \in Nat /\ Cardinality(embedded) \in Nat
      /\ \A p \in pagination : p.total \in Nat
  <2>1. \A p \in pagination : p.total \in Nat
    BY PagesFacts DEF PageRecord
  <2> QED
    BY <2>1, PagesFacts, FS_CardinalityType DEF PagesInv, Whole
<1>2. PICK a \in 1 .. stored + 1 :
         /\ Stretch(rows, a, stored)
         /\ a = 1 \/ \E p \in pagination : p.hasMore = TRUE /\ p.oldest = {a}
  BY <1>1 DEF ListWhole, Rows
<1>3. \A p \in pagination : p.total + Cardinality(embedded) = stored + Len(loaded) - Len(rows)
  BY <1>1 DEF ListWhole, Rows
<1>4. /\ rows \in Seq(Stored) /\ Len(rows) = stored - a + 1
      /\ \A i \in 1 .. stored - a + 1 : rows[i] = a + i - 1
  BY <1>2 DEF Stretch
<1> HIDE DEF rows
<1>5. before = a - 1 /\ Len(rows) \in Nat
  BY <1>1, <1>2, <1>4
<1>6. \A i \in DOMAIN rows : rows[i] = before + i
  BY <1>1, <1>2, <1>4, <1>5
<1>7. before = 0 \/ \E p \in pagination : p.hasMore /\ p.oldest = {before + 1}
  <2>1. before + 1 = a
    BY <1>2, <1>5
  <2> QED
    BY <1>2, <1>5, <2>1
<1>8. \A p \in pagination : p.total - (Len(loaded) - Cardinality(embedded)) = before
  BY <1>1, <1>3, <1>5
<1> QED
  BY <1>6, <1>7, <1>8

(* The lists, cursors and requests that the pages of a conversation go     *)
(* through (PagesInv), in every reachable state: an answer is a page of    *)
(* the table as the server saw it, and a list without a hole ends as it    *)
(* does.                                                                   *)
THEOREM PagesInvariant == PagesSpec => []PagesInv
<1>1. PagesInit => PagesInv
  BY PagesInvInit
<1>2. PagesInv /\ [PagesNext]_pageVars => PagesInv'
  BY PagesInvStep
<1> QED
  BY <1>1, <1>2, PTL DEF PagesSpec

(* The pages have their types: one cursor at most, requests with an id.    *)
THEOREM PagesTypeOKHolds == PagesSpec => []PagesTypeOK
  BY PagesInvariant, PagesInvTypes, PTL

(* For every page size, eviction limit and number of messages: unless one  *)
(* of the five named holes is there, what is stored of the list is the end *)
(* of the conversation without gap or repetition, scrolling up reaches     *)
(* what comes before it, and totalCount gives the first index of the list. *)
THEOREM PagesContiguousHolds == PagesSpec => []PagesContiguous
  BY PagesInvariant, PagesInvContiguous, PTL

-----------------------------------------------------------------------------
(* The feed of a conversation.                                             *)
LEMMA FeedNumbers ==
  /\ {MaxText, MaxUser, MaxAsks, MaxFaults, MaxAll} \subseteq Nat
  /\ Chunks \subseteq Items /\ UserMessages \subseteq Items /\ Items \subseteq Nat
  /\ Chunks \cap UserMessages = {} /\ Items = Chunks \cup UserMessages /\ Chunks \subseteq Nat
  /\ \A m \in 1 .. MaxUser : User(m) \in UserMessages
<1>1. {MaxText, MaxUser, MaxAsks, MaxFaults, MaxAll} \subseteq Nat
  BY FeedBounds
<1> QED
  BY <1>1 DEF Chunks, UserMessages, Items, User

LEMMA SeqWider ==
  ASSUME NEW U, NEW W, U \subseteq W, NEW s \in Seq(U)
  PROVE  s \in Seq(W)
OBVIOUS

LEMMA JoinSet ==
  ASSUME NEW U, NEW s \in Seq(U), NEW t \in Seq(U)
  PROVE  s \o t \in Seq(U) /\ ToSet(s \o t) = ToSet(s) \cup ToSet(t)
BY Members

LEMMA JoinThree ==
  ASSUME NEW U
  PROVE  \A s, t, r \in Seq(U) : (s \o t) \o r = s \o (t \o r)
<1> SUFFICES ASSUME NEW s \in Seq(U), NEW t \in Seq(U), NEW r \in Seq(U)
             PROVE  (s \o t) \o r = s \o (t \o r)
  OBVIOUS
<1> QED
  BY ConcatAssociative

\* Two lists, one after the other.
LEMMA RisingConcat ==
  ASSUME NEW s \in Seq(Nat), NEW t \in Seq(Nat)
  PROVE  Rising(s \o t) <=> /\ Rising(s) /\ Rising(t)
                            /\ \A x \in ToSet(s), y \in ToSet(t) : x < y
<1> DEFINE n == Len(s)
           m == Len(t)
           r == s \o t
<1>1. /\ n \in Nat /\ m \in Nat /\ DOMAIN s = 1 .. n /\ DOMAIN t = 1 .. m /\ DOMAIN r = 1 .. n + m
      /\ \A i \in 1 .. n : r[i] = s[i]
      /\ \A i \in 1 .. m : r[n + i] = t[i] /\ n + i \in 1 .. n + m
      /\ \A i \in 1 .. n : s[i] \in Nat /\ i \in 1 .. n + m
      /\ \A i \in 1 .. m : t[i] \in Nat
      /\ \A i \in 1 .. n + m : i \in 1 .. n \/ (i > n /\ i - n \in 1 .. m /\ i = n + (i - n))
  <2>1. /\ r \in Seq(Nat) /\ Len(r) = n + m
        /\ \A i \in 1 .. n + m : r[i] = IF i <= n THEN s[i] ELSE t[i - n]
    BY ConcatProperties
  <2> QED
    BY <2>1
<1>2. ToSet(s) = {s[i] : i \in 1 .. n} /\ ToSet(t) = {t[i] : i \in 1 .. m}
  BY <1>1 DEF ToSet
<1> HIDE DEF n, m, r
<1>3. ASSUME Rising(r) PROVE Rising(s) /\ Rising(t) /\ \A x \in ToSet(s), y \in ToSet(t) : x < y
  <2>1. \A i, j \in 1 .. n + m : i < j => r[i] < r[j]
    BY <1>1, <1>3 DEF Rising
  <2>2. \A i, j \in 1 .. n : i < j => s[i] < s[j]
    <3> SUFFICES ASSUME NEW i \in 1 .. n, NEW j \in 1 .. n, i < j PROVE s[i] < s[j]
      OBVIOUS
    <3>1. i \in 1 .. n + m /\ j \in 1 .. n + m /\ r[i] = s[i] /\ r[j] = s[j]
      BY <1>1
    <3> QED
      BY <2>1, <3>1
  <2>3. \A i, j \in 1 .. m : i < j => t[i] < t[j]
    <3> SUFFICES ASSUME NEW i \in 1 .. m, NEW j \in 1 .. m, i < j PROVE t[i] < t[j]
      OBVIOUS
    <3>1. n + i \in 1 .. n + m /\ n + j \in 1 .. n + m /\ r[n + i] = t[i] /\ r[n + j] = t[j]
      BY <1>1
    <3>2. n + i < n + j
      BY <1>1
    <3> QED
      BY <2>1, <3>1, <3>2
  <2>4. \A i \in 1 .. n, j \in 1 .. m : s[i] < t[j]
    <3> SUFFICES ASSUME NEW i \in 1 .. n, NEW j \in 1 .. m PROVE s[i] < t[j]
      OBVIOUS
    <3>1. i \in 1 .. n + m /\ n + j \in 1 .. n + m /\ r[i] = s[i] /\ r[n + j] = t[j]
      BY <1>1
    <3>2. i < n + j
      BY <1>1
    <3> QED
      BY <2>1, <3>1, <3>2
  <2> QED
    BY <1>1, <1>2, <2>2, <2>3, <2>4 DEF Rising
<1>4. ASSUME Rising(s), Rising(t), \A x \in ToSet(s), y \in ToSet(t) : x < y PROVE Rising(r)
  <2> SUFFICES ASSUME NEW i \in 1 .. n + m, NEW j \in 1 .. n + m, i < j PROVE r[i] < r[j]
    BY <1>1 DEF Rising
  <2>1. CASE i \in 1 .. n /\ j \in 1 .. n
    BY <1>1, <1>4, <2>1 DEF Rising
  <2>2. CASE i \in 1 .. n /\ j > n
    <3>1. j - n \in 1 .. m /\ r[n + (j - n)] = t[j - n] /\ j = n + (j - n) /\ r[i] = s[i]
      BY <1>1, <2>2
    <3>2. s[i] < t[j - n]
      BY <1>2, <1>4, <2>2, <3>1
    <3> QED
      BY <3>1, <3>2
  <2>3. CASE i > n /\ j > n
    <3>1. /\ i - n \in 1 .. m /\ j - n \in 1 .. m /\ r[n + (i - n)] = t[i - n] /\ i = n + (i - n)
          /\ r[n + (j - n)] = t[j - n] /\ j = n + (j - n) /\ i - n < j - n
      BY <1>1, <2>3
    <3>2. t[i - n] < t[j - n]
      BY <1>1, <1>4, <3>1 DEF Rising
    <3> QED
      BY <3>1, <3>2
  <2> QED
    BY <1>1, <2>1, <2>2, <2>3
<1> QED
  BY <1>3, <1>4 DEF r

LEMMA RisingShort ==
  /\ Rising(<<>>) /\ \A e \in Nat : Rising(<<e>>)
BY DEF Rising

LEMMA RisingAppend ==
  ASSUME NEW s \in Seq(Nat), NEW e \in Nat
  PROVE  Rising(Append(s, e)) <=> Rising(s) /\ \A x \in ToSet(s) : x < e
<1>1. Append(s, e) = s \o <<e>> /\ <<e>> \in Seq(Nat)
  OBVIOUS
<1>2. ToSet(<<e>>) = {e}
  BY Members
<1>3. Rising(s \o <<e>>) <=> /\ Rising(s) /\ Rising(<<e>>)
                             /\ \A x \in ToSet(s), y \in ToSet(<<e>>) : x < y
  BY <1>1, RisingConcat
<1> QED
  BY <1>1, <1>2, <1>3, RisingShort

\* Taking something out of a list.
LEMMA HeadTail ==
  ASSUME NEW U, NEW s \in Seq(U), s # <<>>
  PROVE  /\ Head(s) \in U /\ Tail(s) \in Seq(U) /\ s = <<Head(s)>> \o Tail(s)
         /\ ToSet(s) = {Head(s)} \cup ToSet(Tail(s))
<1>1. Head(s) \in U /\ Tail(s) \in Seq(U) /\ s = <<Head(s)>> \o Tail(s) /\ <<Head(s)>> \in Seq(U)
  OBVIOUS
<1>2. ToSet(<<Head(s)>> \o Tail(s)) = ToSet(<<Head(s)>>) \cup ToSet(Tail(s))
  BY <1>1, JoinSet
<1>3. ToSet(<<Head(s)>>) = {Head(s)}
  BY <1>1, Members
<1> QED
  BY <1>1, <1>2, <1>3, Zenon

LEMMA RisingRemoveAt ==
  ASSUME NEW U, U \subseteq Nat, NEW s \in Seq(U), NEW k \in DOMAIN s
  PROVE  /\ RemoveAt(s, k) \in Seq(U) /\ ToSet(RemoveAt(s, k)) \subseteq ToSet(s)
         /\ Rising(s) => Rising(RemoveAt(s, k))
<1> DEFINE n == Len(s)
           a == SubSeq(s, 1, k - 1)
           b == SubSeq(s, k + 1, n)
           c == SubSeq(s, k, k)
<1>1. n \in Nat /\ k \in 1 .. n /\ RemoveAt(s, k) = a \o b
  BY DEF RemoveAt
<1>2. /\ 1 \in 1 .. n + 1 /\ k - 1 \in 0 .. n /\ k + 1 \in 1 .. n + 1 /\ n \in 0 .. n
      /\ 1 <= k - 1 + 1 /\ k + 1 <= n + 1 /\ k \in 1 .. n + 1 /\ k \in 0 .. n /\ k <= k + 1
      /\ k - 1 + 1 = k /\ k <= n + 1
  BY <1>1
<1>3. a \in Seq(U) /\ b \in Seq(U) /\ ToSet(a) \subseteq ToSet(s) /\ ToSet(b) \subseteq ToSet(s)
  BY <1>1, <1>2, Pieces, Members
<1>4. a \o b \in Seq(U) /\ ToSet(a \o b) = ToSet(a) \cup ToSet(b)
  <2> HIDE DEF a, b
  <2> QED
    BY <1>3, JoinSet
<1>5. ASSUME Rising(s) PROVE Rising(a \o b)
  <2> DEFINE d == SubSeq(s, k, n)
  <2>1. d \in Seq(U) /\ c \in Seq(U)
    BY <1>1, <1>2, Pieces
  <2>2. a \o d = s
    <3>1. k - 1 \in 1 - 1 .. Len(s) /\ n \in k - 1 .. Len(s) /\ 1 \in 1 .. Len(s) + 1
      BY <1>1
    <3>2. SubSeq(s, 1, k - 1) \o SubSeq(s, k - 1 + 1, n) = SubSeq(s, 1, n)
      BY <3>1, ConcatAdjacentSubSeq
    <3>3. SubSeq(s, 1, n) = s
      BY <1>1
    <3> QED
      BY <1>2, <3>2, <3>3
  <2>3. c \o b = d
    <3>1. k \in k - 1 .. Len(s) /\ n \in k .. Len(s) /\ k \in 1 .. Len(s) + 1
      BY <1>1
    <3> QED
      BY <3>1, ConcatAdjacentSubSeq
  <2>4. a \in Seq(Nat) /\ b \in Seq(Nat) /\ c \in Seq(Nat) /\ d \in Seq(Nat)
    <3> HIDE DEF a, b, c, d
    <3> QED
      BY <1>3, <2>1, SeqWider
  <2>5. Rising(a) /\ Rising(d) /\ \A x \in ToSet(a), y \in ToSet(d) : x < y
    BY <1>5, <2>2, <2>4, RisingConcat
  <2> HIDE DEF a, b, c, d
  <2>6. Rising(b) /\ ToSet(d) = ToSet(c) \cup ToSet(b)
    <3>1. Rising(c \o b)
      BY <2>3, <2>5
    <3>2. Rising(b)
      BY <2>4, <3>1, RisingConcat
    <3>3. ToSet(c \o b) = ToSet(c) \cup ToSet(b)
      BY <2>4, JoinSet
    <3> QED
      BY <2>3, <3>2, <3>3
  <2> QED
    BY <2>4, <2>5, <2>6, RisingConcat
<1> QED
  BY <1>1, <1>3, <1>4, <1>5

\* The text among the events w, and that it comes after the text s, of c chunks so far.
Streams(w) == {i \in DOMAIN w : w[i].type = "assistant_text"}
Follows(w, s, c) ==
    /\ \A i \in Streams(w) : w[i].chunk <= c /\ \A x \in ToSet(s) : x < w[i].chunk
    /\ \A i, j \in Streams(w) : i < j => w[i].chunk < w[j].chunk
InStep(s, w, c) ==
    /\ Rising(s) /\ \A x \in ToSet(s) : x <= c
    /\ Follows(w, s, c)

Quiet == [type : {"init", "result", "turn_complete", "complete", "error", "idle",
                  "question_over"}] \cup [type : {"ask"}, kind : Kinds]

LEMMA Events ==
  /\ Quiet \subseteq Event
  /\ \A e \in Event : e \in Quiet \/ e.type = "assistant_text"
  /\ \A e \in Quiet : e.type # "assistant_text"
  /\ \A e \in Event : e.type = "assistant_text" => e.chunk \in Chunks
  /\ \A c \in Chunks : /\ [type |-> "assistant_text", chunk |-> c] \in Event
                       /\ [type |-> "assistant_text", chunk |-> c].type = "assistant_text"
                       /\ [type |-> "assistant_text", chunk |-> c].chunk = c
  /\ \A t \in {"init", "result", "turn_complete", "complete", "error", "idle", "question_over"} :
        Of(t) \in Quiet
  /\ \A k \in Kinds : [type |-> "ask", kind |-> k] \in Quiet
  /\ \A e \in Event : e.type = "ask" => e.kind \in Kinds
<1>1. Quiet \subseteq Event /\ \A e \in Event : e \in Quiet \/ e \in [type : {"assistant_text"}, chunk : Chunks]
  BY DEF Quiet, Event, Chunks
<1>2. \A e \in [type : {"assistant_text"}, chunk : Chunks] :
         e.type = "assistant_text" /\ e.chunk \in Chunks
  OBVIOUS
<1>3. \A e \in Quiet : e.type # "assistant_text"
  BY DEF Quiet
<1>4. \A c \in Chunks : [type |-> "assistant_text", chunk |-> c] \in Event
  BY DEF Event, Chunks
<1>5. \A t \in {"init", "result", "turn_complete", "complete", "error", "idle", "question_over"} :
         Of(t) \in Quiet
  BY DEF Quiet, Of
<1>6. \A k \in Kinds : [type |-> "ask", kind |-> k] \in Quiet
  BY DEF Quiet
<1>7. \A e \in Event : e.type = "ask" => e.kind \in Kinds
  BY DEF Event
<1> QED
  BY <1>1, <1>2, <1>3, <1>4, <1>5, <1>6, <1>7

\* Events without text may come, an event may be received, and the text of one be shown.
LEMMA InStepQuiet ==
  ASSUME NEW s, NEW c, NEW w \in Seq(Event), NEW e \in Seq(Quiet), InStep(s, w, c)
  PROVE  InStep(s, w \o e, c)
<1>1. /\ \A i \in DOMAIN (w \o e) : IF i \in DOMAIN w THEN (w \o e)[i] = w[i]
                                    ELSE (w \o e)[i] \in Quiet
      /\ DOMAIN w \subseteq DOMAIN (w \o e)
  OBVIOUS
<1>2. Streams(w \o e) = Streams(w) /\ \A i \in Streams(w) : (w \o e)[i] = w[i]
  BY <1>1, Events DEF Streams
<1> DEFINE v == w \o e
<1> HIDE DEF v
<1>3. Streams(v) = Streams(w) /\ \A i \in Streams(w) : v[i] = w[i]
  BY <1>2 DEF v
<1>4. InStep(s, v, c)
  BY <1>3 DEF InStep, Follows
<1> QED
  BY <1>4 DEF v

LEMMA InStepTail ==
  ASSUME NEW s, NEW c, NEW w \in Seq(Event), w # <<>>, InStep(s, w, c)
  PROVE  InStep(s, Tail(w), c)
<1>1. /\ DOMAIN w = 1 .. Len(w) /\ Len(w) \in Nat
      /\ DOMAIN Tail(w) = 1 .. Len(w) - 1 /\ \A i \in 1 .. Len(w) - 1 : Tail(w)[i] = w[i + 1]
  OBVIOUS
<1>2. \A i \in Streams(Tail(w)) : i \in Nat /\ i + 1 \in Streams(w) /\ Tail(w)[i] = w[i + 1]
  BY <1>1 DEF Streams
<1>3. \A i \in Streams(Tail(w)) : Tail(w)[i].chunk <= c /\ \A x \in ToSet(s) : x < Tail(w)[i].chunk
  BY <1>2 DEF InStep, Follows
<1>4. ASSUME NEW i \in Streams(Tail(w)), NEW j \in Streams(Tail(w)), i < j
      PROVE  Tail(w)[i].chunk < Tail(w)[j].chunk
  <2>1. i + 1 < j + 1
    BY <1>2, <1>4
  <2>2. w[i + 1].chunk < w[j + 1].chunk
    BY <1>2, <2>1 DEF InStep, Follows
  <2> QED
    BY <1>2, <2>2
<1> QED
  BY <1>3, <1>4 DEF InStep, Follows

LEMMA InStepReceived ==
  ASSUME NEW s \in Seq(Chunks), NEW c \in Nat, NEW w \in Seq(Event), w # <<>>, InStep(s, w, c),
         Head(w).type = "assistant_text"
  PROVE  InStep(Append(s, Head(w).chunk), Tail(w), c)
<1> DEFINE h == Head(w).chunk
<1>1. /\ DOMAIN w = 1 .. Len(w) /\ Len(w) \in Nat /\ 1 \in 1 .. Len(w) /\ w[1] = Head(w)
      /\ DOMAIN Tail(w) = 1 .. Len(w) - 1 /\ \A i \in 1 .. Len(w) - 1 : Tail(w)[i] = w[i + 1]
  OBVIOUS
<1>2. 1 \in Streams(w) /\ w[1].chunk = h /\ h \in Chunks /\ h \in Nat /\ s \in Seq(Nat)
  <2>1. Head(w) \in Event
    OBVIOUS
  <2> QED
    BY <1>1, <2>1, Events, FeedNumbers, SeqWider DEF Streams
<1>3. h <= c /\ \A x \in ToSet(s) : x < h
  BY <1>2 DEF InStep, Follows
<1>4. Rising(Append(s, h))
  BY <1>2, <1>3, RisingAppend DEF InStep
<1>5. ToSet(Append(s, h)) = ToSet(s) \cup {h}
  BY <1>2, AppendSet
<1>6. InStep(s, Tail(w), c)
  BY InStepTail
<1>7. ASSUME NEW i \in Streams(Tail(w)) PROVE h < Tail(w)[i].chunk
  <2>1. i \in Nat /\ i + 1 \in Streams(w) /\ Tail(w)[i] = w[i + 1] /\ 1 < i + 1
    BY <1>1 DEF Streams
  <2> QED
    BY <1>2, <2>1 DEF InStep, Follows
<1> HIDE DEF h
<1>8. \A x \in ToSet(Append(s, h)) : x <= c
  BY <1>3, <1>5 DEF InStep
<1>9. Follows(Tail(w), Append(s, h), c)
  BY <1>5, <1>6, <1>7 DEF InStep, Follows
<1>10. InStep(Append(s, h), Tail(w), c)
  BY <1>4, <1>8, <1>9 DEF InStep
<1> QED
  BY <1>10 DEF h

LEMMA InStepSpeech ==
  ASSUME NEW s \in Seq(Chunks), NEW c \in Nat, NEW w \in Seq(Event),
         InStep(s, w, c), c + 1 \in Chunks
  PROVE  /\ InStep(s, w \o <<[type |-> "assistant_text", chunk |-> c + 1]>>, c + 1)
         /\ InStep(s, w, c + 1)
<1> DEFINE e == [type |-> "assistant_text", chunk |-> c + 1]
           n == Len(w)
           v == w \o <<e>>
<1>1. /\ e \in Event /\ e.type = "assistant_text" /\ e.chunk = c + 1
  BY Events
<1> HIDE DEF e
<1>2. /\ n \in Nat /\ DOMAIN w = 1 .. n /\ DOMAIN v = 1 .. n + 1 /\ v[n + 1] = e
      /\ \A i \in 1 .. n : v[i] = w[i]
  BY <1>1
<1> HIDE DEF v, n
<1>3. /\ \A x \in ToSet(s) : x \in Nat
      /\ \A i \in Streams(w) : w[i].chunk \in Nat /\ i \in 1 .. n /\ v[i] = w[i]
      /\ \A i \in Streams(v) : i \in Streams(w) \/ i = n + 1
  <2>1. \A x \in ToSet(s) : x \in Nat
    BY SetOfList, FeedNumbers
  <2>2. \A i \in 1 .. n : w[i] \in Event
    BY <1>2
  <2>3. \A i \in Streams(w) : w[i].chunk \in Nat
    BY <1>2, <2>2, Events, FeedNumbers DEF Streams
  <2> QED
    BY <1>2, <2>1, <2>3 DEF Streams
<1>4. \A x \in ToSet(s) : x <= c + 1 /\ x < c + 1
  BY <1>3 DEF InStep
<1>5. \A i \in Streams(w) : w[i].chunk <= c + 1 /\ w[i].chunk < c + 1
  BY <1>3 DEF InStep, Follows
<1>6. InStep(s, w, c + 1)
  BY <1>4, <1>5 DEF InStep, Follows
<1>7. ASSUME NEW i \in Streams(v)
      PROVE  v[i].chunk <= c + 1 /\ \A x \in ToSet(s) : x < v[i].chunk
  <2>1. CASE i \in Streams(w)
    BY <1>3, <1>5, <2>1 DEF InStep, Follows
  <2>2. CASE i = n + 1
    BY <1>1, <1>2, <1>4, <2>2
  <2> QED
    BY <1>3, <2>1, <2>2
<1>8. ASSUME NEW i \in Streams(v), NEW j \in Streams(v), i < j PROVE v[i].chunk < v[j].chunk
  <2>1. i \in 1 .. n + 1 /\ j \in 1 .. n + 1
    BY <1>2 DEF Streams
  <2>2. i \in Streams(w)
    BY <1>2, <1>3, <1>8, <2>1
  <2>3. CASE j \in Streams(w)
    BY <1>3, <1>8, <2>2, <2>3 DEF InStep, Follows
  <2>4. CASE j = n + 1
    BY <1>1, <1>2, <1>3, <1>5, <2>2, <2>4
  <2> QED
    BY <1>3, <2>3, <2>4
<1>9. InStep(s, v, c + 1)
  BY <1>4, <1>7, <1>8 DEF InStep, Follows
<1> QED
  BY <1>6, <1>9 DEF v, e

LEMMA InStepNothing ==
  ASSUME NEW s, NEW w, NEW c, InStep(s, w, c)
  PROVE  InStep(s, <<>>, c) /\ InStep(<<>>, w, c)
<1>1. Streams(<<>>) = {} /\ ToSet(<<>>) = {}
  BY DEF Streams, ToSet
<1> QED
  BY <1>1, RisingShort DEF InStep, Follows

LEMMA InStepParts ==
  ASSUME NEW s \in Seq(Chunks), NEW t \in Seq(Chunks), NEW w, NEW c, InStep(s \o t, w, c)
  PROVE  InStep(s, w, c) /\ InStep(t, w, c)
<1>1. s \in Seq(Nat) /\ t \in Seq(Nat)
  BY FeedNumbers, SeqWider
<1>2. ToSet(s \o t) = ToSet(s) \cup ToSet(t)
  BY JoinSet
<1>3. Rising(s) /\ Rising(t)
  BY <1>1, RisingConcat DEF InStep
<1> QED
  BY <1>2, <1>3 DEF InStep, Follows

LEMMA InStepJoin ==
  ASSUME NEW s \in Seq(Chunks), NEW t \in Seq(Chunks), NEW w, NEW c, InStep(s, w, c),
         InStep(t, w, c),
         \A x \in ToSet(s), y \in ToSet(t) : x < y
  PROVE  InStep(s \o t, w, c)
<1>1. s \in Seq(Nat) /\ t \in Seq(Nat)
  BY FeedNumbers, SeqWider
<1>2. ToSet(s \o t) = ToSet(s) \cup ToSet(t)
  BY JoinSet
<1>3. Rising(s \o t)
  BY <1>1, RisingConcat DEF InStep
<1> QED
  BY <1>2, <1>3 DEF InStep, Follows

(* Which steps touch what.                                                 *)
Final == {<<>>, <<Of("complete")>>, <<Of("error")>>}
talkVars == <<running, inbox, turn, said, deferred, db, answering, clock>>
viewVars == <<buffer, text, isStreaming, resultFinalized, queuedMessages, messages>>

AgentStep ==
    \/ Accept \/ BeginTurn \/ Speak \/ PromptExpires \/ EndTurn
    \/ \E kind \in Kinds : RequestApproval(kind)
    \/ \E last \in Final : EndProcess(last)
PageStep(r) == FinalizeInactive(r) \/ RestoreSnapshot(r) \/ SetMessagePage(r)
ViewStep ==
    \/ FlushFrame \/ ReceiveSome \/ AddMessageOrQueue \/ PostReturns \/ PostFails \/ Stop
    \/ RemoveQueuedMessage
    \/ \E r \in Reconciliations : PageStep(r)
SendStep == Submit \/ PlanDenied \/ LoadFails \/ Answer \/ AnswerReturns
OtherStep ==
    \/ SendStep \/ Disconnect \/ HubFaults \/ ClientReconnects
    \/ \E r \in Reconciliations : ServerAnswers(r) \/ ReconFails(r) \/ BeginSnapshot(r) \/ NoSnapshot(r)

LEMMA FeedSteps == FeedNext => AgentStep \/ ViewStep \/ OtherStep
BY DEF FeedNext, AgentStep, ViewStep, PageStep, OtherStep, SendStep, ReceiveSome, Final

\* What the agent does is seen by its events only.
LEMMA AgentLeaves ==
  ASSUME AgentStep
  PROVE  /\ UNCHANGED <<viewVars, reconVars, submitted, approving, pending, link>>
         /\ UNCHANGED <<post, mishaps>> \/ Accept
         /\ mishaps \subseteq mishaps'
<1> USE DEF viewVars, streamingVars, listVars, sendVars, Emit
<1>1. ASSUME Accept
      PROVE UNCHANGED <<viewVars, reconVars, submitted, approving, pending, link>>
            /\ mishaps \subseteq mishaps'
  BY <1>1 DEF Accept, Note
<1>2. ASSUME BeginTurn \/ Speak \/ PromptExpires \/ EndTurn
      PROVE UNCHANGED <<viewVars, reconVars, submitted, approving, pending, link, post, mishaps>>
  BY <1>2 DEF BeginTurn, Speak, PromptExpires, EndTurn
<1>3. ASSUME NEW kind, RequestApproval(kind)
      PROVE UNCHANGED <<viewVars, reconVars, submitted, approving, pending, link, post, mishaps>>
  BY <1>3 DEF RequestApproval
<1>4. ASSUME NEW last, EndProcess(last)
      PROVE UNCHANGED <<viewVars, reconVars, submitted, approving, pending, link, post, mishaps>>
  BY <1>4 DEF EndProcess
<1>5. UNCHANGED mishaps => mishaps \subseteq mishaps'
  OBVIOUS
<1> QED
  BY <1>1, <1>2, <1>3, <1>4, <1>5 DEF AgentStep

\* What the user does before the view changes, and what comes back.
LEMMA SendLeaves ==
  ASSUME SendStep
  PROVE  UNCHANGED <<talkVars, viewVars, reconVars, wire, link, mishaps>>
<1> USE DEF talkVars, turnVars, viewVars, streamingVars, listVars, hubVars
<1>1. ASSUME Submit \/ PlanDenied \/ Answer
      PROVE  UNCHANGED <<talkVars, viewVars, reconVars, wire, link, mishaps>>
  BY <1>1 DEF Submit, PlanDenied, Answer
<1>2. ASSUME LoadFails \/ AnswerReturns
      PROVE  UNCHANGED <<talkVars, viewVars, reconVars, wire, link, mishaps>>
  BY <1>2 DEF LoadFails, AnswerReturns
<1> QED
  BY <1>1, <1>2 DEF SendStep

LEMMA OthersLeave ==
  ASSUME OtherStep
  PROVE  /\ UNCHANGED <<talkVars, viewVars>>
         /\ SendStep \/ UNCHANGED <<turnVars, sendVars, streamingVars>>
         /\ mishaps \subseteq mishaps'
<1> USE DEF talkVars, turnVars, viewVars, streamingVars, listVars
<1>1. ASSUME SendStep
      PROVE  UNCHANGED <<talkVars, viewVars>> /\ mishaps \subseteq mishaps'
  BY <1>1, SendLeaves
<1>2. ASSUME Disconnect \/ HubFaults \/ ClientReconnects
      PROVE  /\ UNCHANGED <<talkVars, viewVars, turnVars, sendVars, streamingVars>>
             /\ mishaps \subseteq mishaps'
  BY <1>2 DEF Disconnect, HubFaults, ClientReconnects, Note
<1>3. ASSUME NEW r, ServerAnswers(r) \/ ReconFails(r) \/ BeginSnapshot(r) \/ NoSnapshot(r)
      PROVE  /\ UNCHANGED <<talkVars, viewVars, turnVars, sendVars, streamingVars>>
             /\ mishaps \subseteq mishaps'
  BY <1>3 DEF ServerAnswers, ReconFails, BeginSnapshot, NoSnapshot, ReconStep, Note
<1> QED
  BY <1>1, <1>2, <1>3 DEF OtherStep

\* Receiving is of one event, and leaves the rest.
LEMMA Received ==
  ASSUME ReceiveSome
  PROVE  /\ wire # <<>> /\ wire' = Tail(wire)
         /\ UNCHANGED <<turnVars, link, faults, sendVars, reconVars>>
<1>1. ASSUME NEW t, Receive(t)
      PROVE  /\ wire # <<>> /\ wire' = Tail(wire)
             /\ UNCHANGED <<turnVars, link, faults, sendVars, reconVars>>
  BY <1>1 DEF Receive
<1> QED
  BY <1>1 DEF ReceiveSome, ReceiveText, ReceiveInit, ReceiveResult, ReceiveTurnComplete,
     ReceiveEnd, ReceiveIdle, ReceiveAsk, ReceiveQuestionOver

LEMMA ViewLeaves ==
  ASSUME ViewStep
  PROVE  /\ UNCHANGED turnVars /\ mishaps \subseteq mishaps'
         /\ UNCHANGED <<wire, link, faults>> \/ ReceiveSome
            \/ (UNCHANGED <<wire, link>> /\ (PostFails \/ Stop \/ RemoveQueuedMessage))
         /\ UNCHANGED reconVars \/ \E r \in Reconciliations : PageStep(r)
<1>1. ASSUME FlushFrame \/ AddMessageOrQueue \/ PostReturns
      PROVE  UNCHANGED <<turnVars, hubVars, reconVars>> /\ mishaps \subseteq mishaps'
  BY <1>1 DEF FlushFrame, AddMessageOrQueue, PostReturns, Note
<1>2. ASSUME PostFails \/ Stop \/ RemoveQueuedMessage
      PROVE  UNCHANGED <<turnVars, wire, link, reconVars>> /\ mishaps \subseteq mishaps'
  BY <1>2 DEF PostFails, Stop, RemoveQueuedMessage, Note
<1>3. ASSUME ReceiveSome
      PROVE  UNCHANGED <<turnVars, reconVars>> /\ mishaps \subseteq mishaps'
  <2>1. UNCHANGED <<turnVars, reconVars>>
    BY <1>3, Received
  <2>2. mishaps \subseteq mishaps'
    BY <1>3 DEF ReceiveSome, ReceiveText, ReceiveInit, ReceiveResult, ReceiveTurnComplete,
       ReceiveEnd, ReceiveIdle, ReceiveAsk, ReceiveQuestionOver, Note
  <2> QED
    BY <2>1, <2>2
<1>4. ASSUME NEW r, PageStep(r)
      PROVE  UNCHANGED <<turnVars, hubVars>> /\ mishaps \subseteq mishaps'
  BY <1>4 DEF PageStep, FinalizeInactive, RestoreSnapshot, SetMessagePage, ReconStep, Note
<1>5. UNCHANGED hubVars => UNCHANGED <<wire, link, faults>>
  BY DEF hubVars
<1> QED
  BY <1>1, <1>2, <1>3, <1>4, <1>5 DEF ViewStep

(* Types, in more detail than FeedTypeOK: which lists are text, and which  *)
(* are messages of the user.                                               *)
TurnTyped ==
    /\ running \in BOOLEAN /\ answering \in BOOLEAN
    /\ inbox \in Seq(1 .. MaxUser) /\ turn \in 0 .. MaxUser
    /\ said \in Seq(Chunks) /\ deferred \in Seq(UserMessages) /\ db \in Seq(Items)
    /\ clock \in 0 .. MaxText
    /\ Len(deferred) <= 1
    /\ deferred # <<>> => answering = TRUE
    /\ answering = TRUE => turn # 0

HubTyped ==
    /\ wire \in Seq(Event) /\ link \in BOOLEAN /\ (link = FALSE => wire = <<>>)
    /\ faults \in 0 .. MaxFaults

\* A message that is not on its way yet, the first apart, is to be shown first.
Unshown == {"denying", "denied", "queueing", "adding"}
SendTyped ==
    /\ submitted \in 0 .. MaxUser /\ post \in Unshown \cup {"none", "sending", "accepted"}
    /\ post = "accepted" => submitted = 1
    /\ post # "none" => submitted > 0
    /\ post \in Unshown => submitted > 1

ViewTyped ==
    /\ isStreaming \in BOOLEAN /\ resultFinalized \in BOOLEAN
    /\ text \in Seq(Chunks) /\ buffer \in Seq(Chunks)
    /\ queuedMessages \in Seq(UserMessages) /\ messages \in Seq(Items)

PromptsTyped ==
    /\ asking \in Kinds \cup {"none"} /\ raised \subseteq {"plan", "question"}
    /\ asks \in 0 .. MaxAsks
    /\ approving \subseteq {"tool", "question"} /\ pending \subseteq Kinds
    /\ prompts \in [Reconciliations -> SUBSET {"plan", "question"}]

FeedStages == {"none", "asked", "active", "inactive", "paging", "paged",
           "snapping", "snapped", "repaging", "repaged"}
ReconTyped ==
    /\ recon \in [Reconciliations -> FeedStages] /\ fetched \in [Reconciliations -> Seq(Items)]
    /\ \A r \in Reconciliations : recon[r] = "snapped" => fetched[r] \in Seq(Chunks)

FeedTyped == TurnTyped /\ HubTyped /\ SendTyped /\ ViewTyped /\ PromptsTyped /\ ReconTyped

LEMMA TurnTypedStep ==
  ASSUME FeedTyped, [FeedNext]_feedVars
  PROVE  TurnTyped'
<1> USE FeedNumbers
<1>1. TurnTyped /\ SendTyped
  BY DEF FeedTyped
<1>2. ASSUME UNCHANGED talkVars PROVE TurnTyped'
  BY <1>1, <1>2 DEF TurnTyped, talkVars
<1>3. ASSUME Accept PROVE TurnTyped'
  <2>1. submitted \in 1 .. MaxUser /\ User(submitted) \in UserMessages /\ User(submitted) \in Items
    BY <1>1, <1>3 DEF Accept, SendTyped
  <2>2. inbox' \in Seq(1 .. MaxUser) /\ running' \in BOOLEAN
        /\ UNCHANGED <<turn, said, answering, clock>>
    BY <1>1, <1>3, <2>1 DEF Accept, TurnTyped
  <2>3. /\ db' \in Seq(Items) /\ deferred' \in Seq(UserMessages) /\ Len(deferred') <= 1
        /\ deferred' # <<>> => answering = TRUE
    <3>1. /\ db \in Seq(Items) /\ deferred \in Seq(UserMessages) /\ Len(deferred) <= 1
          /\ answering \in BOOLEAN /\ (deferred # <<>> => answering = TRUE)
      BY <1>1 DEF TurnTyped
    <3>2. /\ Append(db, User(submitted)) \in Seq(Items)
          /\ <<User(submitted)>> \in Seq(UserMessages) /\ Len(<<User(submitted)>>) <= 1
      BY <2>1, <3>1, AppendProperties
    <3>3. \/ answering = FALSE /\ db' = Append(db, User(submitted)) /\ deferred' = deferred
          \/ answering = TRUE /\ deferred' = <<User(submitted)>> /\ db' = db
      BY <1>3, <3>1 DEF Accept
    <3> QED
      BY <3>1, <3>2, <3>3
  <2> QED
    BY <1>1, <2>2, <2>3 DEF TurnTyped
<1>4. ASSUME BeginTurn PROVE TurnTyped'
  <2>1. Head(inbox) \in 1 .. MaxUser /\ Tail(inbox) \in Seq(1 .. MaxUser)
    BY <1>1, <1>4, HeadTail DEF BeginTurn, TurnTyped
  <2>2. turn' \in 0 .. MaxUser /\ inbox' \in Seq(1 .. MaxUser) /\ turn' # 0
    BY <1>4, <2>1 DEF BeginTurn
  <2>3. UNCHANGED <<running, said, deferred, db, answering, clock>>
    BY <1>4 DEF BeginTurn
  <2> QED
    BY <1>1, <2>2, <2>3 DEF TurnTyped
<1>5. ASSUME Speak PROVE TurnTyped'
  <2>1. clock' \in 0 .. MaxText /\ clock + 1 \in Chunks
    BY <1>1, <1>5 DEF Speak, TurnTyped, Chunks
  <2>2. said' \in Seq(Chunks)
    BY <1>1, <1>5, <2>1 DEF Speak, TurnTyped
  <2>3. UNCHANGED <<running, inbox, turn, deferred, db>> /\ turn # 0 /\ answering' = TRUE
    BY <1>5 DEF Speak
  <2> QED
    BY <1>1, <2>1, <2>2, <2>3 DEF TurnTyped
<1>6. ASSUME NEW kind, RequestApproval(kind) PROVE TurnTyped'
  <2>1. UNCHANGED <<running, inbox, turn, said, deferred, db, clock>> /\ turn # 0 /\ answering' = TRUE
    BY <1>6 DEF RequestApproval
  <2> QED
    BY <1>1, <2>1 DEF TurnTyped
<1>7. ASSUME StoreTurn
      PROVE  /\ db' \in Seq(Items) /\ said' \in Seq(Chunks) /\ deferred' \in Seq(UserMessages)
             /\ turn' \in 0 .. MaxUser /\ answering' = FALSE /\ clock' \in 0 .. MaxText
             /\ deferred' = <<>> /\ Len(deferred') <= 1
  <2>1. db \in Seq(Items) /\ said \in Seq(Items) /\ deferred \in Seq(Items)
    BY <1>1, SeqWider DEF TurnTyped
  <2>2. db \o said \in Seq(Items)
    BY <2>1, ConcatProperties
  <2>3. (db \o said) \o deferred \in Seq(Items)
    BY <2>1, <2>2, ConcatProperties
  <2> QED
    <3>1. /\ db' = (db \o said) \o deferred /\ said' = <<>> /\ deferred' = <<>>
          /\ turn' = 0 /\ answering' = FALSE /\ clock' = clock
      BY <1>7 DEF StoreTurn
    <3>2. said' \in Seq(Chunks) /\ deferred' \in Seq(UserMessages) /\ Len(deferred') <= 1
      BY <3>1, EmptySeq
    <3>4. turn' \in 0 .. MaxUser
      BY <3>1
    <3>5. clock' \in 0 .. MaxText
      BY <1>1, <3>1 DEF TurnTyped
    <3> QED
      BY <2>3, <3>1, <3>2, <3>4, <3>5
<1>8. ASSUME EndTurn PROVE TurnTyped'
  <2>1. StoreTurn /\ UNCHANGED <<running, inbox>>
    BY <1>8 DEF EndTurn
  <2> QED
    BY <1>1, <1>7, <2>1 DEF TurnTyped
<1>9. ASSUME NEW last, EndProcess(last) PROVE TurnTyped'
  <2>1. StoreTurn /\ running' = FALSE /\ inbox' = <<>>
    BY <1>9 DEF EndProcess
  <2> QED
    BY <1>1, <1>7, <2>1, EmptySeq DEF TurnTyped
<1>10. ASSUME PromptExpires PROVE UNCHANGED talkVars
  BY <1>10 DEF PromptExpires, talkVars
<1>11. ASSUME UNCHANGED turnVars PROVE TurnTyped'
  BY <1>2, <1>11 DEF turnVars, talkVars
<1>12. ASSUME AgentStep PROVE TurnTyped'
  BY <1>2, <1>3, <1>4, <1>5, <1>6, <1>8, <1>9, <1>10, <1>12 DEF AgentStep
<1>13. ASSUME UNCHANGED feedVars PROVE UNCHANGED turnVars
  BY <1>13 DEF feedVars
<1> QED
  BY <1>2, <1>11, <1>12, <1>13, FeedSteps, ViewLeaves, OthersLeave

LEMMA HubTypedStep ==
  ASSUME FeedTyped, [FeedNext]_feedVars
  PROVE  HubTyped'
<1> USE FeedNumbers
<1>1. HubTyped /\ clock \in 0 .. MaxText /\ faults \in 0 .. MaxFaults
  BY DEF FeedTyped, HubTyped, TurnTyped
<1>2. ASSUME UNCHANGED <<wire, link, faults>> PROVE HubTyped'
  BY <1>1, <1>2 DEF HubTyped
<1>3. ASSUME NEW e \in Seq(Event), Emit(e)
      PROVE  wire' \in Seq(Event) /\ link' \in BOOLEAN /\ (link' = FALSE => wire' = <<>>)
  <2>1. wire \o e \in Seq(Event)
    BY <1>1, ConcatProperties DEF HubTyped
  <2>2. CASE link = TRUE
    BY <1>1, <1>3, <2>1, <2>2 DEF Emit, HubTyped
  <2>3. CASE link = FALSE
    BY <1>1, <1>3, <2>3 DEF Emit, HubTyped
  <2> QED
    BY <1>1, <2>2, <2>3 DEF HubTyped
<1>4. ASSUME Trouble PROVE faults' \in 0 .. MaxFaults
  BY <1>1, <1>4 DEF Trouble
<1>5. ASSUME NEW e \in Seq(Event), Emit(e), faults' = faults \/ Trouble PROVE HubTyped'
  BY <1>1, <1>3, <1>4, <1>5 DEF HubTyped
<1>6. ASSUME UNCHANGED <<wire, link>>, faults' = faults \/ Trouble PROVE HubTyped'
  BY <1>1, <1>4, <1>6 DEF HubTyped
<1>7. /\ <<>> \in Seq(Event) /\ <<Of("init")>> \in Seq(Event) /\ <<Of("question_over")>> \in Seq(Event)
      /\ <<Of("result"), Of("turn_complete")>> \in Seq(Event)
      /\ <<Of("complete")>> \in Seq(Event) /\ <<Of("error")>> \in Seq(Event) /\ Of("idle") \in Event
      /\ \A kind \in Kinds : <<[type |-> "ask", kind |-> kind]>> \in Seq(Event)
  <2>1. \A e \in Event : <<e>> \in Seq(Event)
    OBVIOUS
  <2>2. /\ Of("init") \in Event /\ Of("question_over") \in Event /\ Of("result") \in Event
        /\ Of("turn_complete") \in Event /\ Of("complete") \in Event /\ Of("error") \in Event
        /\ Of("idle") \in Event
    BY Events
  <2>3. \A kind \in Kinds : [type |-> "ask", kind |-> kind] \in Event
    BY Events
  <2>4. <<Of("result"), Of("turn_complete")>> \in Seq(Event)
    BY <2>2
  <2> QED
    BY <2>1, <2>2, <2>3, <2>4, EmptySeq
<1>8. ASSUME AgentStep PROVE HubTyped'
  <2>1. CASE Accept
    <3>1. \E e \in {<<>>, <<Of("question_over")>>} : Emit(e)
      BY <2>1 DEF Accept
    <3>2. faults' = faults
      BY <2>1 DEF Accept
    <3> QED
      BY <1>5, <1>7, <3>1, <3>2
  <2>2. CASE BeginTurn
    BY <1>5, <1>7, <2>2 DEF BeginTurn
  <2>3. CASE Speak
    <3>1. clock + 1 \in Chunks
      BY <1>1, <2>3 DEF Speak, Chunks
    <3>2. <<[type |-> "assistant_text", chunk |-> clock + 1]>> \in Seq(Event)
      <4>1. [type |-> "assistant_text", chunk |-> clock + 1] \in Event
        BY <3>1, Events
      <4> QED
        BY <4>1, Members
    <3> QED
      BY <1>5, <2>3, <3>2 DEF Speak
  <2>4. CASE EndTurn
    BY <1>5, <1>7, <2>4 DEF EndTurn
  <2>5. ASSUME NEW last \in Final, EndProcess(last) PROVE HubTyped'
    <3>1. last \in Seq(Event)
      BY <1>7 DEF Final
    <3>2. Append(last, Of("idle")) \in Seq(Event)
      BY <1>7, <3>1
    <3>3. Emit(Append(last, Of("idle"))) /\ (faults' = faults \/ Trouble)
      BY <2>5 DEF EndProcess
    <3> QED
      BY <1>5, <3>2, <3>3
  <2>6. CASE PromptExpires
    <3>1. \E e \in {<<>>, <<Of("question_over")>>} : Emit(e)
      BY <2>6 DEF PromptExpires
    <3>2. Trouble
      BY <2>6 DEF PromptExpires
    <3> QED
      BY <1>5, <1>7, <3>1, <3>2
  <2>7. ASSUME NEW kind \in Kinds, RequestApproval(kind) PROVE HubTyped'
    BY <1>5, <1>7, <2>7 DEF RequestApproval
  <2> QED
    BY <1>8, <2>1, <2>2, <2>3, <2>4, <2>5, <2>6, <2>7 DEF AgentStep
<1>9. ASSUME ReceiveSome PROVE HubTyped'
  <2>1. wire # <<>> /\ wire' = Tail(wire) /\ UNCHANGED <<link, faults>>
    BY <1>9, Received
  <2>2. Tail(wire) \in Seq(Event) /\ link # FALSE
    BY <1>1, <2>1, HeadTail DEF HubTyped
  <2> QED
    BY <1>1, <2>1, <2>2 DEF HubTyped
<1>10. ASSUME UNCHANGED <<wire, link>>, PostFails \/ Stop \/ RemoveQueuedMessage PROVE HubTyped'
  BY <1>6, <1>10 DEF PostFails, Stop, RemoveQueuedMessage
<1>11. ASSUME ViewStep PROVE HubTyped'
  BY <1>2, <1>9, <1>10, <1>11, ViewLeaves
<1>12. ASSUME SendStep PROVE HubTyped'
  <2>1. UNCHANGED <<wire, link>>
    BY <1>12, SendLeaves
  <2>2. faults' = faults \/ Trouble
    BY <1>12 DEF SendStep, Submit, PlanDenied, LoadFails, Answer, AnswerReturns, hubVars
  <2> QED
    BY <1>6, <2>1, <2>2
<1>13. ASSUME Disconnect PROVE HubTyped'
  BY <1>4, <1>13, EmptySeq DEF Disconnect, HubTyped
<1>14. ASSUME HubFaults PROVE HubTyped'
  <2>1. faults' \in 0 .. MaxFaults /\ wire # <<>> /\ wire \in Seq(Event) /\ UNCHANGED link
    BY <1>1, <1>4, <1>14 DEF HubFaults, HubTyped
  <2>2. Tail(wire) \in Seq(Event)
    BY <2>1
  <2>3. ASSUME Len(wire) > 1
        PROVE  <<wire[2], wire[1]>> \o SubSeq(wire, 3, Len(wire)) \in Seq(Event)
    <3>1. <<wire[2], wire[1]>> \in Seq(Event)
      BY <2>1, <2>3
    <3>2. SubSeq(wire, 3, Len(wire)) \in Seq(Event)
      BY <2>1, <2>3
    <3> QED
      BY <3>1, <3>2, ConcatProperties
  <2>4. wire' \in Seq(Event)
    BY <1>14, <2>2, <2>3 DEF HubFaults
  <2> QED
    BY <1>1, <2>1, <2>4 DEF HubTyped
<1>15. ASSUME ClientReconnects PROVE HubTyped'
  <2>1. link' = TRUE /\ UNCHANGED <<wire, faults>>
    BY <1>15 DEF ClientReconnects
  <2> QED
    BY <1>1, <2>1 DEF HubTyped
<1>16. ASSUME NEW r, ServerAnswers(r) \/ ReconFails(r) \/ BeginSnapshot(r) \/ NoSnapshot(r)
       PROVE  HubTyped'
  <2>1. ASSUME ReconFails(r) PROVE HubTyped'
    <3>1. Trouble /\ UNCHANGED <<wire, link>>
      BY <2>1 DEF ReconFails
    <3> QED
      BY <1>6, <3>1
  <2>2. ASSUME ServerAnswers(r) \/ BeginSnapshot(r) \/ NoSnapshot(r) PROVE UNCHANGED <<wire, link, faults>>
    BY <2>2 DEF ServerAnswers, BeginSnapshot, NoSnapshot, ReconStep, hubVars
  <2> QED
    BY <1>2, <1>16, <2>1, <2>2
<1>17. ASSUME UNCHANGED feedVars PROVE HubTyped'
  BY <1>2, <1>17 DEF feedVars, hubVars
<1> QED
  BY <1>8, <1>11, <1>12, <1>13, <1>14, <1>15, <1>16, <1>17, FeedSteps DEF OtherStep

\* Only these steps have to do with what the user has sent.
LEMMA SendKept ==
  ASSUME [FeedNext]_feedVars
  PROVE  \/ UNCHANGED <<submitted, post>>
         \/ Accept \/ Submit \/ PlanDenied \/ AddMessageOrQueue \/ PostReturns \/ LoadFails \/ PostFails
<1>1. ASSUME FlushFrame \/ Stop \/ RemoveQueuedMessage PROVE UNCHANGED <<submitted, post>>
  BY <1>1 DEF FlushFrame, Stop, RemoveQueuedMessage, sendVars
<1>2. ASSUME NEW r, PageStep(r) PROVE UNCHANGED <<submitted, post>>
  BY <1>2 DEF PageStep, FinalizeInactive, RestoreSnapshot, SetMessagePage, ReconStep, sendVars
<1>3. ASSUME ReceiveSome PROVE UNCHANGED <<submitted, post>>
  BY <1>3, Received DEF sendVars
<1>4. ASSUME Answer \/ AnswerReturns PROVE UNCHANGED <<submitted, post>>
  BY <1>4 DEF Answer, AnswerReturns
<1>5. ASSUME OtherStep, ~SendStep PROVE UNCHANGED <<submitted, post>>
  BY <1>5, OthersLeave DEF sendVars
<1>6. ASSUME AgentStep, ~Accept PROVE UNCHANGED <<submitted, post>>
  BY <1>6, AgentLeaves
<1>7. ASSUME UNCHANGED feedVars PROVE UNCHANGED <<submitted, post>>
  BY <1>7 DEF feedVars, sendVars
<1> QED
  BY <1>1, <1>2, <1>3, <1>4, <1>5, <1>6, <1>7, FeedSteps DEF ViewStep, SendStep

LEMMA SendTypedStep ==
  ASSUME FeedTyped, [FeedNext]_feedVars
  PROVE  SendTyped'
<1> USE FeedNumbers
<1>1. SendTyped
  BY DEF FeedTyped
<1>2. ASSUME UNCHANGED <<submitted, post>> PROVE SendTyped'
  BY <1>1, <1>2 DEF SendTyped
<1>3. ASSUME Accept PROVE SendTyped'
  <2>1. /\ post' = (IF submitted = 1 THEN "accepted" ELSE "none") /\ post = "sending"
        /\ submitted' = submitted
    BY <1>3 DEF Accept
  <2> QED
    BY <1>1, <2>1 DEF SendTyped, Unshown
<1>4. ASSUME Submit PROVE SendTyped'
  <2>1. /\ submitted' = submitted + 1 /\ submitted < MaxUser
        /\ (submitted = 0 /\ post' = "sending") \/ (submitted # 0 /\ post' \in Unshown)
    BY <1>4 DEF Submit, Unshown
  <2>2. submitted' \in 0 .. MaxUser /\ submitted' > 0 /\ (submitted # 0 => submitted' > 1)
    BY <1>1, <2>1 DEF SendTyped
  <2>3. post' # "accepted" /\ post' \in Unshown \cup {"none", "sending", "accepted"}
    BY <2>1 DEF Unshown
  <2>4. "sending" \notin Unshown
    BY DEF Unshown
  <2> QED
    BY <2>1, <2>2, <2>3, <2>4 DEF SendTyped
<1>5. ASSUME PostReturns \/ LoadFails PROVE SendTyped'
  <2>1. post' = "none" /\ submitted' = submitted
    BY <1>5 DEF PostReturns, LoadFails
  <2> QED
    BY <1>1, <2>1 DEF SendTyped, Unshown
<1>6. ASSUME PostFails PROVE SendTyped'
  <2>1. post' = "none" /\ submitted' \in {0, submitted}
    BY <1>6 DEF PostFails
  <2> QED
    BY <1>1, <2>1 DEF SendTyped, Unshown
<1>7. ASSUME PlanDenied \/ AddMessageOrQueue PROVE SendTyped'
  <2>1. post' \in {"denied", "sending"} /\ submitted' = submitted /\ post \in Unshown
    BY <1>7 DEF PlanDenied, AddMessageOrQueue, Unshown
  <2> QED
    BY <1>1, <2>1 DEF SendTyped, Unshown
<1> QED
  BY <1>2, <1>3, <1>4, <1>5, <1>6, <1>7, SendKept

LEMMA PromptsTypedStep ==
  ASSUME FeedTyped, [FeedNext]_feedVars
  PROVE  PromptsTyped'
<1>1. PromptsTyped /\ HubTyped /\ MaxAsks \in Nat
  BY FeedNumbers DEF FeedTyped
<1>2. ASSUME UNCHANGED <<asking, raised, asks, approving, prompts>>, pending' \subseteq Kinds
      PROVE  PromptsTyped'
  BY <1>1, <1>2 DEF PromptsTyped
<1>3. ASSUME UNCHANGED <<asking, raised, asks, approving, pending>>,
             prompts' \in [Reconciliations -> SUBSET {"plan", "question"}]
      PROVE  PromptsTyped'
  BY <1>1, <1>3 DEF PromptsTyped
<1>4. ASSUME UNCHANGED <<approving, pending, prompts>>, asking' \in Kinds \cup {"none"},
             raised' \subseteq {"plan", "question"}, asks' \in 0 .. MaxAsks
      PROVE  PromptsTyped'
  BY <1>1, <1>4 DEF PromptsTyped
<1>5. ASSUME NEW kind, Answered(kind) PROVE asking' \in Kinds \cup {"none"}
  BY <1>1, <1>5 DEF Answered, PromptsTyped
<1>6. /\ asking \in Kinds \cup {"none"} /\ raised \subseteq {"plan", "question"} /\ asks \in 0 .. MaxAsks
      /\ approving \subseteq {"tool", "question"} /\ pending \subseteq Kinds
      /\ prompts \in [Reconciliations -> SUBSET {"plan", "question"}]
  BY <1>1 DEF PromptsTyped
<1>7. CASE AgentStep
  <2>1. UNCHANGED <<approving, pending, prompts>>
    BY <1>7, AgentLeaves DEF reconVars
  <2>2. CASE Accept \/ BeginTurn \/ Speak
    <3>1. UNCHANGED <<asking, raised, asks>>
      BY <2>2 DEF Accept, BeginTurn, Speak
    <3> QED
      BY <1>4, <1>6, <2>1, <3>1
  <2>3. CASE PromptExpires
    <3>1. asking' = "none" /\ UNCHANGED <<raised, asks>>
      BY <2>3 DEF PromptExpires
    <3> QED
      BY <1>4, <1>6, <2>1, <3>1
  <2>4. ASSUME StoreTurn PROVE PromptsTyped'
    <3>1. asking' = "none" /\ raised' = {} /\ asks' = asks
      BY <2>4 DEF StoreTurn
    <3> QED
      BY <1>4, <1>6, <2>1, <3>1
  <2>5. ASSUME NEW kind \in Kinds, RequestApproval(kind) PROVE PromptsTyped'
    <3>1. asking' = kind /\ asks' = asks + 1 /\ asks < MaxAsks /\ raised' = raised \cup ({kind} \ {"tool"})
      BY <2>5 DEF RequestApproval
    <3>2. asks' \in 0 .. MaxAsks
      BY <1>1, <1>6, <3>1
    <3>3. raised' \subseteq {"plan", "question"}
      BY <1>6, <3>1 DEF Kinds
    <3> QED
      BY <1>4, <2>1, <3>1, <3>2, <3>3
  <2> QED
    BY <1>7, <2>2, <2>3, <2>4, <2>5 DEF AgentStep, EndTurn, EndProcess
<1>8. CASE ViewStep
  <2>1. UNCHANGED <<asking, raised, asks>>
    BY <1>8, ViewLeaves DEF turnVars
  <2>2. CASE FlushFrame \/ AddMessageOrQueue \/ PostReturns \/ PostFails \/ Stop \/ RemoveQueuedMessage
    <3>1. UNCHANGED <<approving, prompts>>
      BY <2>2 DEF FlushFrame, AddMessageOrQueue, PostReturns, PostFails, Stop, RemoveQueuedMessage,
         sendVars, reconVars
    <3>2. pending' \subseteq pending
      BY <2>2 DEF FlushFrame, AddMessageOrQueue, PostReturns, PostFails, Stop, RemoveQueuedMessage,
         streamingVars
    <3> QED
      BY <1>2, <1>6, <2>1, <3>1, <3>2
  <2>3. CASE ReceiveSome
    <3>1. UNCHANGED <<approving, prompts>>
      BY <2>3, Received DEF sendVars, reconVars
    <3>2. CASE ReceiveAsk
      <4>1. wire # <<>> /\ Head(wire).type = "ask" /\ pending' = pending \cup {Head(wire).kind}
        BY <3>2 DEF ReceiveAsk, Receive
      <4>2. Head(wire) \in Event
        BY <1>1, <4>1, HeadTail DEF HubTyped
      <4> QED
        BY <1>2, <1>6, <2>1, <3>1, <4>1, <4>2, Events
    <3>3. CASE ~ReceiveAsk
      <4>1. pending' \subseteq pending
        BY <2>3, <3>3 DEF ReceiveSome, ReceiveText, ReceiveInit, ReceiveResult, ReceiveTurnComplete,
           ReceiveEnd, ReceiveIdle, ReceiveQuestionOver, Questions
      <4> QED
        BY <1>2, <1>6, <2>1, <3>1, <4>1
    <3> QED
      BY <3>2, <3>3
  <2>4. ASSUME NEW r \in Reconciliations, PageStep(r) PROVE PromptsTyped'
    <3>1. UNCHANGED approving
      BY <2>4 DEF PageStep, FinalizeInactive, RestoreSnapshot, SetMessagePage, ReconStep, sendVars
    <3>2. prompts' = prompts \/ prompts' = [prompts EXCEPT ![r] = {}]
      BY <2>4 DEF PageStep, FinalizeInactive, RestoreSnapshot, SetMessagePage, Finish
    <3>3. prompts' \in [Reconciliations -> SUBSET {"plan", "question"}]
      BY <1>6, <3>2
    <3>4. pending' \subseteq pending \cup prompts[r]
      BY <2>4 DEF PageStep, FinalizeInactive, RestoreSnapshot, SetMessagePage, Questions, streamingVars
    <3>5. pending' \subseteq Kinds
      BY <1>6, <3>4 DEF Kinds
    <3> QED
      BY <1>6, <2>1, <3>1, <3>3, <3>5 DEF PromptsTyped
  <2> QED
    BY <1>8, <2>2, <2>3, <2>4 DEF ViewStep
<1>9. CASE SendStep
  <2>1. CASE Submit \/ LoadFails
    <3>1. UNCHANGED <<asking, raised, asks, approving, pending, prompts>>
      BY <2>1 DEF Submit, LoadFails, turnVars, streamingVars, reconVars
    <3> QED
      BY <1>2, <1>6, <3>1
  <2>2. CASE PlanDenied
    <3>1. UNCHANGED <<raised, asks, approving, pending, prompts>> /\ Answered("plan")
      BY <2>2 DEF PlanDenied, streamingVars, reconVars
    <3> QED
      BY <1>4, <1>5, <1>6, <3>1
  <2>3. CASE Answer
    <3>1. UNCHANGED <<raised, asks, prompts>> /\ Answered(Prompt)
      BY <2>3 DEF Answer, reconVars
    <3>2. Prompt \in {"question", "tool", "plan"}
      BY DEF Prompt
    <3>3. pending' \subseteq pending /\ approving' \subseteq approving \cup ({Prompt} \ {"plan"})
      BY <2>3 DEF Answer
    <3>4. approving' \subseteq {"tool", "question"}
      BY <1>6, <3>2, <3>3
    <3>5. asking' \in Kinds \cup {"none"}
      BY <1>5, <3>1
    <3> QED
      BY <1>6, <3>1, <3>3, <3>4, <3>5 DEF PromptsTyped
  <2>4. CASE AnswerReturns
    <3>1. UNCHANGED <<asking, raised, asks, prompts>>
      BY <2>4 DEF AnswerReturns, turnVars, reconVars
    <3>2. approving' \subseteq approving /\ pending' \subseteq pending
      BY <2>4 DEF AnswerReturns
    <3> QED
      BY <1>6, <3>1, <3>2 DEF PromptsTyped
  <2> QED
    BY <1>9, <2>1, <2>2, <2>3, <2>4 DEF SendStep
<1>10. CASE OtherStep /\ ~SendStep
  <2>1. UNCHANGED <<asking, raised, asks, approving, pending>>
    BY <1>10, OthersLeave DEF turnVars, sendVars, streamingVars
  <2>2. CASE Disconnect \/ HubFaults \/ ClientReconnects
    <3>1. UNCHANGED prompts
      BY <2>2 DEF Disconnect, HubFaults, ClientReconnects, reconVars
    <3> QED
      BY <1>3, <1>6, <2>1, <3>1
  <2>3. ASSUME NEW r \in Reconciliations, ServerAnswers(r) \/ ReconFails(r) \/ BeginSnapshot(r) \/ NoSnapshot(r)
        PROVE  PromptsTyped'
    <3>1. \/ prompts' = prompts
          \/ \E p \in SUBSET {"plan", "question"} : prompts' = [prompts EXCEPT ![r] = p]
      <4>1. CASE ServerAnswers(r)
        <5>1. prompts' = prompts \/ \E n \in 0 .. Len(said) :
                 \E p \in IF n = 0 THEN {{}} ELSE SUBSET raised : prompts' = [prompts EXCEPT ![r] = p]
          BY <4>1 DEF ServerAnswers
        <5> QED
          BY <1>6, <5>1
      <4>2. CASE ReconFails(r)
        <5>1. prompts' = [prompts EXCEPT ![r] = {}]
          BY <4>2 DEF ReconFails, Finish
        <5> QED
          BY <5>1
      <4>3. CASE BeginSnapshot(r) \/ NoSnapshot(r)
        BY <4>3 DEF BeginSnapshot, NoSnapshot
      <4> QED
        BY <2>3, <4>1, <4>2, <4>3
    <3>2. prompts' \in [Reconciliations -> SUBSET {"plan", "question"}]
      BY <1>6, <3>1
    <3> QED
      BY <1>3, <2>1, <3>2
  <2> QED
    BY <1>10, <2>2, <2>3 DEF OtherStep
<1>11. CASE UNCHANGED feedVars
  BY <1>2, <1>6, <1>11 DEF feedVars, turnVars, sendVars, streamingVars, reconVars
<1> QED
  BY <1>7, <1>8, <1>9, <1>10, <1>11, FeedSteps

\* A list of messages, with text or a message of the user added.
LEMMA TextsAndUsers ==
  ASSUME NEW l \in Seq(Items)
  PROVE  /\ Texts(l) \in Seq(Chunks) /\ Users(l) \in Seq(UserMessages)
         /\ ToSet(Texts(l)) = ToSet(l) \cap Chunks /\ ToSet(Users(l)) = ToSet(l) \cap UserMessages
         /\ \A t \in Seq(Chunks) : /\ l \o t \in Seq(Items) /\ Texts(l \o t) = Texts(l) \o t
                                   /\ Users(l \o t) = Users(l)
         /\ \A q \in Seq(UserMessages) : /\ l \o q \in Seq(Items) /\ Texts(l \o q) = Texts(l)
                                         /\ Users(l \o q) = Users(l) \o q
<1>1. Texts(l) \in Seq(Chunks) /\ Users(l) \in Seq(UserMessages)
  <2>1. Only(l, Chunks) \in Seq(Items \cap Chunks)
        /\ Only(l, UserMessages) \in Seq(Items \cap UserMessages)
    BY OnlyType
  <2>2. Items \cap Chunks = Chunks /\ Items \cap UserMessages = UserMessages
    BY FeedNumbers
  <2> QED
    BY <2>1, <2>2 DEF Texts, Users
<1>2. ToSet(Texts(l)) = ToSet(l) \cap Chunks /\ ToSet(Users(l)) = ToSet(l) \cap UserMessages
  BY OnlySet DEF Texts, Users
<1>3. ASSUME NEW t \in Seq(Chunks)
      PROVE  /\ l \o t \in Seq(Items) /\ Texts(l \o t) = Texts(l) \o t /\ Users(l \o t) = Users(l)
  <2>1. t \in Seq(Items)
    BY FeedNumbers, SeqWider
  <2>2. ToSet(t) \subseteq Chunks /\ ToSet(t) \cap UserMessages = {}
    BY SetOfList, FeedNumbers
  <2>3. Only(t, Chunks) = t /\ Only(t, UserMessages) = <<>>
    BY <2>1, <2>2, OnlyOthers, OnlyNone
  <2>4. /\ Only(l \o t, Chunks) = Only(l, Chunks) \o Only(t, Chunks)
        /\ Only(l \o t, UserMessages) = Only(l, UserMessages) \o Only(t, UserMessages)
    BY <2>1, OnlyConcat
  <2>5. Users(l) \o <<>> = Users(l)
    BY <1>1, ConcatEmptySeq
  <2> QED
    BY <2>1, <2>3, <2>4, <2>5, JoinSet DEF Texts, Users
<1>4. ASSUME NEW q \in Seq(UserMessages)
      PROVE  /\ l \o q \in Seq(Items) /\ Texts(l \o q) = Texts(l) /\ Users(l \o q) = Users(l) \o q
  <2>1. q \in Seq(Items)
    BY FeedNumbers, SeqWider
  <2>2. ToSet(q) \subseteq UserMessages /\ ToSet(q) \cap Chunks = {}
    BY SetOfList, FeedNumbers
  <2>3. Only(q, UserMessages) = q /\ Only(q, Chunks) = <<>>
    BY <2>1, <2>2, OnlyOthers, OnlyNone
  <2>4. /\ Only(l \o q, Chunks) = Only(l, Chunks) \o Only(q, Chunks)
        /\ Only(l \o q, UserMessages) = Only(l, UserMessages) \o Only(q, UserMessages)
    BY <2>1, OnlyConcat
  <2>5. Texts(l) \o <<>> = Texts(l)
    BY <1>1, ConcatEmptySeq
  <2> QED
    BY <2>1, <2>3, <2>4, <2>5, JoinSet DEF Texts, Users
<1> QED
  BY <1>1, <1>2, <1>3, <1>4

\* What finalizing text t does: it becomes a message, with the first queued one after it.
Commits(t) ==
    /\ messages' = messages \o t \o FirstQueued /\ text' = <<>>
    /\ queuedMessages' = <<>> \/ (queuedMessages # <<>> /\ queuedMessages' = Tail(queuedMessages))
    /\ isStreaming' \in BOOLEAN /\ (isStreaming' = FALSE => queuedMessages' = <<>>)

LEMMA FinalizeCommits ==
  ASSUME NEW t, NEW terminal \in BOOLEAN, Finalize(t, terminal)
  PROVE  Commits(t)
<1>1. /\ messages' = messages \o t \o FirstQueued /\ text' = <<>>
      /\ queuedMessages' = IF terminal \/ queuedMessages = <<>> THEN <<>> ELSE Tail(queuedMessages)
      /\ isStreaming' = (queuedMessages' # <<>>)
  BY DEF Finalize
<1>2. queuedMessages' = <<>> \/ (queuedMessages # <<>> /\ queuedMessages' = Tail(queuedMessages))
  <2>1. CASE terminal \/ queuedMessages = <<>>
    BY <1>1, <2>1, Zenon
  <2>2. CASE ~(terminal \/ queuedMessages = <<>>)
    BY <1>1, <2>2, Zenon
  <2> QED
    BY <2>1, <2>2
<1>3. isStreaming' \in BOOLEAN /\ (isStreaming' = FALSE => queuedMessages' = <<>>)
  BY <1>1
<1> QED
  BY <1>1, <1>2, <1>3 DEF Commits

LEMMA Committed ==
  ASSUME ViewTyped, NEW t \in Seq(Chunks), Commits(t)
  PROVE  /\ messages' \in Seq(Items) /\ queuedMessages' \in Seq(UserMessages)
         /\ Texts(messages') = Texts(messages) \o t
         /\ Users(messages') = Users(messages) \o FirstQueued /\ FirstQueued \in Seq(UserMessages)
         /\ queuedMessages' = <<>> \/ queuedMessages = FirstQueued \o queuedMessages'
<1>1. messages' = (messages \o t) \o FirstQueued
  BY DEF Commits
<1>2. messages \in Seq(Items) /\ queuedMessages \in Seq(UserMessages)
  BY DEF ViewTyped
<1>3. ASSUME queuedMessages # <<>>
      PROVE  /\ <<Head(queuedMessages)>> \in Seq(UserMessages)
             /\ Tail(queuedMessages) \in Seq(UserMessages)
             /\ queuedMessages = <<Head(queuedMessages)>> \o Tail(queuedMessages)
  <2>1. Head(queuedMessages) \in UserMessages
    BY <1>2, <1>3, HeadTail
  <2>2. <<Head(queuedMessages)>> \in Seq(UserMessages)
    BY <2>1, Members
  <2> QED
    BY <1>2, <1>3, <2>2, HeadTail
<1>4. FirstQueued \in Seq(UserMessages)
  BY <1>3, EmptySeq DEF FirstQueued
<1>5. queuedMessages' = <<>> \/ (queuedMessages' = Tail(queuedMessages) /\ queuedMessages # <<>>)
  BY DEF Commits
<1>6. queuedMessages' \in Seq(UserMessages)
  BY <1>3, <1>5, EmptySeq
<1>7. queuedMessages' = <<>> \/ queuedMessages = FirstQueued \o queuedMessages'
  BY <1>3, <1>5 DEF FirstQueued
<1>8. messages \o t \in Seq(Items) /\ Texts(messages \o t) = Texts(messages) \o t
      /\ Users(messages \o t) = Users(messages)
  BY <1>2, TextsAndUsers
<1>9. /\ messages' \in Seq(Items) /\ Texts(messages') = Texts(messages) \o t
      /\ Users(messages') = Users(messages) \o FirstQueued
  <2> DEFINE l == messages \o t
  <2>1. l \in Seq(Items) /\ messages' = l \o FirstQueued
    BY <1>1, <1>8
  <2>2. Texts(l) = Texts(messages) \o t /\ Users(l) = Users(messages)
    BY <1>8
  <2> HIDE DEF l
  <2>3. /\ l \o FirstQueued \in Seq(Items) /\ Texts(l \o FirstQueued) = Texts(l)
        /\ Users(l \o FirstQueued) = Users(l) \o FirstQueued
    BY <1>4, <2>1, TextsAndUsers
  <2> QED
    BY <2>1, <2>2, <2>3
<1> QED
  BY <1>4, <1>6, <1>7, <1>9

LEMMA ReconTypedStep ==
  ASSUME FeedTyped, [FeedNext]_feedVars
  PROVE  ReconTyped'
<1> USE FeedNumbers
<1>1. /\ recon \in [Reconciliations -> FeedStages] /\ fetched \in [Reconciliations -> Seq(Items)]
      /\ \A r \in Reconciliations : recon[r] = "snapped" => fetched[r] \in Seq(Chunks)
      /\ TurnTyped
  BY DEF FeedTyped, ReconTyped
<1>2. ASSUME UNCHANGED <<recon, fetched>> PROVE ReconTyped'
  BY <1>1, <1>2 DEF ReconTyped
\* One reconciliation goes to another stage, with the same response or a new one.
<1>3. ASSUME NEW r \in Reconciliations, NEW to \in FeedStages, Goes(r, to),
             fetched' = fetched \/ \E s \in Seq(Items) : fetched' = [fetched EXCEPT ![r] = s],
             to = "snapped" => fetched'[r] \in Seq(Chunks)
      PROVE  ReconTyped'
  <2>1. recon' \in [Reconciliations -> FeedStages] /\ recon'[r] = to
        /\ \A q \in Reconciliations : q # r => recon'[q] = recon[q]
    BY <1>1, <1>3 DEF Goes
  <2>2. /\ fetched' \in [Reconciliations -> Seq(Items)]
        /\ \A q \in Reconciliations : q # r => fetched'[q] = fetched[q]
    BY <1>1, <1>3
  <2> QED
    BY <1>1, <1>3, <2>1, <2>2 DEF ReconTyped
<1>4. {"none", "asked", "active", "inactive", "paging", "paged",
       "snapping", "snapped", "repaging", "repaged"} = FeedStages
  BY DEF FeedStages
<1>5. ASSUME NEW r \in Reconciliations, Finish(r) PROVE ReconTyped'
  <2>1. Goes(r, "none") /\ fetched' = [fetched EXCEPT ![r] = <<>>] /\ <<>> \in Seq(Items)
    BY <1>5, EmptySeq DEF Finish, Fetches
  <2> QED
    BY <1>3, <1>4, <2>1
<1>6. ASSUME NEW r \in Reconciliations, PageStep(r) PROVE ReconTyped'
  <2>1. Finish(r) \/ (Goes(r, "paging") /\ fetched' = fetched)
    BY <1>6 DEF PageStep, FinalizeInactive, RestoreSnapshot, SetMessagePage
  <2> QED
    BY <1>3, <1>4, <1>5, <2>1
<1>7. ASSUME ClientReconnects PROVE ReconTyped'
  <2>1. fetched' = fetched /\ (recon' = recon \/ recon' = [recon EXCEPT ![faults] = "asked"])
    BY <1>7 DEF ClientReconnects
  <2>2. CASE recon' = [recon EXCEPT ![faults] = "asked"] /\ faults \in Reconciliations
    BY <1>3, <1>4, <2>1, <2>2 DEF Goes
  <2>3. CASE recon' = [recon EXCEPT ![faults] = "asked"] /\ faults \notin Reconciliations
    <3>1. recon' = recon
      BY <1>1, <2>3
    <3> QED
      BY <1>2, <2>1, <3>1
  <2> QED
    BY <1>2, <2>1, <2>2, <2>3
<1>8. ASSUME NEW r \in Reconciliations, ServerAnswers(r) PROVE ReconTyped'
  <2>1. \/ (Goes(r, "active") \/ Goes(r, "inactive")) /\ fetched' = fetched
        \/ (Goes(r, "paged") \/ Goes(r, "repaged")) /\ fetched' = [fetched EXCEPT ![r] = db]
        \/ Goes(r, "snapped") /\ \E n \in 0 .. Len(said) :
              fetched' = [fetched EXCEPT ![r] = SubSeq(said, 1, n)]
    BY <1>8 DEF ServerAnswers, Fetches
  <2>2. CASE (Goes(r, "active") \/ Goes(r, "inactive")) /\ fetched' = fetched
    BY <1>3, <1>4, <2>2
  <2>3. CASE (Goes(r, "paged") \/ Goes(r, "repaged")) /\ fetched' = [fetched EXCEPT ![r] = db]
    <3>1. db \in Seq(Items)
      BY <1>1 DEF TurnTyped
    <3> QED
      BY <1>3, <1>4, <2>3, <3>1
  <2>4. CASE Goes(r, "snapped") /\ \E n \in 0 .. Len(said) :
              fetched' = [fetched EXCEPT ![r] = SubSeq(said, 1, n)]
    <3>1. PICK n \in 0 .. Len(said) : fetched' = [fetched EXCEPT ![r] = SubSeq(said, 1, n)]
      BY <2>4
    <3>2. said \in Seq(Chunks)
      BY <1>1 DEF TurnTyped
    <3>3. SubSeq(said, 1, n) \in Seq(Chunks)
      BY <3>1, <3>2, Pieces
    <3>4. SubSeq(said, 1, n) \in Seq(Items)
      BY <3>3, SeqWider
    <3>5. fetched'[r] \in Seq(Chunks)
      BY <1>1, <3>1, <3>3
    <3> QED
      BY <1>3, <1>4, <2>4, <3>1, <3>4, <3>5
  <2> QED
    BY <2>1, <2>2, <2>3, <2>4
<1>9. ASSUME NEW r \in Reconciliations, ReconFails(r) \/ BeginSnapshot(r) \/ NoSnapshot(r)
      PROVE  ReconTyped'
  <2>1. Finish(r) \/ (fetched' = fetched /\ (Goes(r, "snapping") \/ Goes(r, "repaging")))
    BY <1>9 DEF ReconFails, BeginSnapshot, NoSnapshot
  <2> QED
    BY <1>3, <1>4, <1>5, <2>1
<1>10. ASSUME AgentStep \/ SendStep \/ Disconnect \/ HubFaults PROVE UNCHANGED <<recon, fetched>>
  <2>1. ASSUME Disconnect \/ HubFaults PROVE UNCHANGED reconVars
    BY <2>1 DEF Disconnect, HubFaults
  <2> QED
    BY <1>10, <2>1, AgentLeaves, SendLeaves DEF reconVars
<1>11. ASSUME ViewStep PROVE ReconTyped'
  <2>1. UNCHANGED reconVars \/ \E r \in Reconciliations : PageStep(r)
    BY <1>11, ViewLeaves
  <2> QED
    BY <1>2, <1>6, <2>1 DEF reconVars
<1>12. ASSUME UNCHANGED feedVars PROVE UNCHANGED <<recon, fetched>>
  BY <1>12 DEF feedVars, reconVars
<1> QED
  BY <1>2, <1>7, <1>8, <1>9, <1>10, <1>11, <1>12, FeedSteps DEF OtherStep

(* What a step of the view leaves of the text shown and of the line of the *)
(* user's messages.                                                        *)
Shown == Texts(messages) \o text \o buffer
Line == Users(messages) \o queuedMessages
Shortens == \E r \in Seq(UserMessages) : Line = Line' \o r
ViewKept ==
    /\ ViewTyped'
    /\ Shown' = Shown \/ Shown' = Texts(messages)
    /\ Shortens

LEMMA ShownTyped ==
  ASSUME ViewTyped
  PROVE  /\ Texts(messages) \in Seq(Chunks) /\ Users(messages) \in Seq(UserMessages)
         /\ Texts(messages) \o text \in Seq(Chunks) /\ Shown \in Seq(Chunks)
         /\ Streamed \in Seq(Chunks)
         /\ Line \in Seq(UserMessages) /\ Shown = Texts(messages) \o Streamed
<1>1. /\ text \in Seq(Chunks) /\ buffer \in Seq(Chunks) /\ messages \in Seq(Items)
      /\ queuedMessages \in Seq(UserMessages)
  BY DEF ViewTyped
<1>2. Texts(messages) \in Seq(Chunks) /\ Users(messages) \in Seq(UserMessages)
  BY <1>1, TextsAndUsers
<1>3. Texts(messages) \o text \in Seq(Chunks)
  BY <1>1, <1>2, JoinSet
<1>4. Shown \in Seq(Chunks)
  BY <1>1, <1>3, JoinSet DEF Shown
<1>5. Line \in Seq(UserMessages) /\ Streamed \in Seq(Chunks)
  BY <1>1, <1>2, JoinSet DEF Line, Streamed
<1>6. Shown = Texts(messages) \o Streamed
  <2> DEFINE t == Texts(messages)
  <2>1. t \in Seq(Chunks) /\ text \in Seq(Chunks) /\ buffer \in Seq(Chunks)
    BY <1>1, <1>2
  <2>2. (t \o text) \o buffer = t \o (text \o buffer)
    <3> HIDE DEF t
    <3> QED
      BY <2>1, JoinThree
  <2> QED
    BY <2>2 DEF Shown, Streamed
<1> QED
  BY <1>2, <1>3, <1>4, <1>5, <1>6

LEMMA SameLine ==
  ASSUME ViewTyped, UNCHANGED <<queuedMessages, messages>>
  PROVE  Shortens
<1>1. Line' = Line /\ Line = Line \o <<>> /\ <<>> \in Seq(UserMessages)
  BY ShownTyped, ConcatEmptySeq, EmptySeq DEF Line
<1> QED
  BY <1>1 DEF Shortens

LEMMA CommittedLine ==
  ASSUME ViewTyped, NEW t \in Seq(Chunks), Commits(t)
  PROVE  /\ Shortens
         /\ queuedMessages = FirstQueued \o queuedMessages' => Line' = Line
<1> DEFINE u == Users(messages)
           h == FirstQueued
           q == queuedMessages
<1>1. /\ queuedMessages' \in Seq(UserMessages) /\ Users(messages') = u \o h
      /\ h \in Seq(UserMessages)
      /\ queuedMessages' = <<>> \/ q = h \o queuedMessages'
  BY Committed
<1>2. u \in Seq(UserMessages) /\ q \in Seq(UserMessages)
  BY ShownTyped DEF ViewTyped
<1>3. \E r \in Seq(UserMessages) : q = h \o r
  <2>1. CASE q = <<>>
    <3>1. h = <<>> /\ h \o <<>> = <<>> /\ <<>> \in Seq(UserMessages)
      BY <2>1, EmptySeq, ConcatEmptySeq DEF FirstQueued
    <3> QED
      BY <2>1, <3>1
  <2>2. CASE q # <<>>
    <3>1. h = <<Head(q)>> /\ Tail(q) \in Seq(UserMessages) /\ q = <<Head(q)>> \o Tail(q)
      BY <1>2, <2>2, HeadTail DEF FirstQueued
    <3> QED
      BY <3>1
  <2> QED
    BY <2>1, <2>2
<1>4. Line = u \o q /\ Line' = (u \o h) \o queuedMessages'
  BY <1>1 DEF Line
<1> HIDE DEF u, h, q
<1>5. ASSUME queuedMessages' = <<>> PROVE Shortens
  <2>1. PICK r \in Seq(UserMessages) : q = h \o r
    BY <1>3
  <2>2. u \o h \in Seq(UserMessages)
    BY <1>1, <1>2, JoinSet
  <2>3. Line' = u \o h
    BY <1>4, <1>5, <2>2, ConcatEmptySeq
  <2>4. Line = (u \o h) \o r
    <3>0. u \in Seq(UserMessages) /\ h \in Seq(UserMessages) /\ r \in Seq(UserMessages)
      BY <1>1, <1>2
    <3>1. (u \o h) \o r = u \o (h \o r)
      BY <3>0, JoinThree
    <3> QED
      BY <1>4, <2>1, <3>1, Zenon
  <2> QED
    BY <2>3, <2>4 DEF Shortens
<1>6. CASE q = h \o queuedMessages'
  <2>1. Line = Line' /\ Line \in Seq(UserMessages)
    <3>0. \A a, b, c \in Seq(UserMessages) : (a \o b) \o c = a \o (b \o c)
      BY JoinThree
    <3>1. (u \o h) \o queuedMessages' = u \o (h \o queuedMessages')
      BY <1>1, <1>2, <3>0, Zenon
    <3>2. Line = Line'
      BY <1>4, <1>6, <3>1, Zenon
    <3> QED
      BY <3>2, ShownTyped
  <2>2. Line = Line' \o <<>> /\ <<>> \in Seq(UserMessages)
    BY <2>1, ConcatEmptySeq, EmptySeq
  <2> QED
    BY <2>1, <2>2 DEF Shortens
<1> QED
  BY <1>1, <1>5, <1>6 DEF h, q

\* A finalization, with the batcher flushed or not, and a flush alone.
LEMMA CommitKeeps ==
  ASSUME ViewTyped, NEW t \in {text, Streamed}, Commits(t),
         buffer' = (IF t = Streamed THEN <<>> ELSE buffer),
         resultFinalized' \in BOOLEAN
  PROVE  ViewKept /\ Shown' = Shown
<1>1. /\ text \in Seq(Chunks) /\ buffer \in Seq(Chunks) /\ t \in Seq(Chunks)
      /\ Texts(messages) \in Seq(Chunks)
      /\ Texts(messages) \o t \in Seq(Chunks)
  BY ShownTyped DEF ViewTyped
<1>2. /\ messages' \in Seq(Items) /\ queuedMessages' \in Seq(UserMessages) /\ text' = <<>>
      /\ isStreaming' \in BOOLEAN /\ Texts(messages') = Texts(messages) \o t
  BY <1>1, Committed DEF Commits
<1>3. buffer' \in Seq(Chunks)
  BY <1>1, EmptySeq
<1>4. ViewTyped'
  BY <1>2, <1>3, EmptySeq DEF ViewTyped
<1>5. Shown' = (Texts(messages) \o t) \o buffer'
  <2>1. Shown' = ((Texts(messages) \o t) \o <<>>) \o buffer'
    BY <1>2 DEF Shown
  <2>2. (Texts(messages) \o t) \o <<>> = Texts(messages) \o t
    BY <1>1, ConcatEmptySeq
  <2> QED
    BY <2>1, <2>2
<1>6. Shown' = Shown
  <2>1. CASE t = Streamed
    <3>1. Shown' = Texts(messages) \o Streamed
      BY <1>1, <1>5, <2>1, ConcatEmptySeq
    <3> QED
      BY <3>1, ShownTyped
  <2>2. CASE t # Streamed
    BY <1>5, <2>2 DEF Shown
  <2> QED
    BY <2>1, <2>2
<1> QED
  BY <1>1, <1>4, <1>6, CommittedLine DEF ViewKept

LEMMA FlushKeeps ==
  ASSUME ViewTyped, text' = Streamed, buffer' = <<>>, UNCHANGED listVars,
         isStreaming' \in BOOLEAN,
         resultFinalized' \in BOOLEAN
  PROVE  ViewKept /\ Shown' = Shown
<1>1. ViewTyped'
  BY ShownTyped, EmptySeq DEF ViewTyped, listVars
<1>2. Shown' = Shown
  <2>1. Shown' = (Texts(messages) \o Streamed) \o <<>>
    BY DEF Shown, listVars
  <2>2. Shown \in Seq(Chunks) /\ Shown = Texts(messages) \o Streamed
    BY ShownTyped
  <2> QED
    BY <2>1, <2>2, ConcatEmptySeq
<1> QED
  BY <1>1, <1>2, SameLine DEF ViewKept, listVars

LEMMA ReceiveKeeps ==
  ASSUME ViewTyped, ReceiveSome, ~ReceiveText
  PROVE  ViewKept
<1>1. isStreaming \in BOOLEAN /\ resultFinalized \in BOOLEAN
  BY DEF ViewTyped
<1>2. StreamedOn \in BOOLEAN
  BY <1>1 DEF StreamedOn
<1>3. Streamed \in {text, Streamed} /\ <<>> = (IF Streamed = Streamed THEN <<>> ELSE buffer)
  OBVIOUS
<1>4. ASSUME NEW terminal \in BOOLEAN, Finalize(Streamed, terminal), buffer' = <<>>,
             resultFinalized' \in BOOLEAN
      PROVE  ViewKept
  BY <1>3, <1>4, FinalizeCommits, CommitKeeps
<1>5. ASSUME text' = Streamed, buffer' = <<>>, UNCHANGED listVars, isStreaming' = StreamedOn,
             resultFinalized' \in BOOLEAN
      PROVE  ViewKept
  BY <1>2, <1>5, FlushKeeps
<1>0. ASSUME UNCHANGED <<buffer, text, isStreaming, resultFinalized, listVars>> PROVE ViewKept
  <2>1. ViewTyped' /\ Shown' = Shown
    BY <1>0 DEF ViewTyped, Shown, listVars
  <2> QED
    BY <1>0, <2>1, SameLine DEF ViewKept, listVars
<1>6. ASSUME ReceiveInit PROVE ViewKept
  <2>1. /\ resultFinalized' = FALSE /\ buffer' = <<>> /\ isStreaming' = TRUE
    BY <1>6 DEF ReceiveInit
  <2>2. CASE isStreaming = FALSE
    <3>1. text' = Streamed /\ UNCHANGED listVars
      BY <1>6, <2>2 DEF ReceiveInit
    <3> QED
      BY <1>1, <2>1, <3>1, FlushKeeps
  <2>3. CASE isStreaming = TRUE /\ queuedMessages # <<>>
    <3>1. /\ messages' = messages \o Streamed \o FirstQueued /\ text' = <<>>
          /\ queuedMessages' = Tail(queuedMessages)
      BY <1>6, <2>3 DEF ReceiveInit
    <3>2. Commits(Streamed)
      BY <2>1, <2>3, <3>1 DEF Commits
    <3> QED
      BY <1>1, <1>3, <2>1, <3>2, CommitKeeps
  <2>4. CASE isStreaming = TRUE /\ queuedMessages = <<>>
    <3>1. text' = <<>> /\ UNCHANGED listVars
      BY <1>6, <2>4 DEF ReceiveInit
    <3>2. ViewTyped'
      BY <1>1, <2>1, <3>1, EmptySeq DEF ViewTyped, listVars
    <3>3. Shown' = (Texts(messages) \o <<>>) \o <<>>
      BY <2>1, <3>1 DEF Shown, listVars
    <3>4. Shown' = Texts(messages)
      BY <3>3, ShownTyped, ConcatEmptySeq
    <3> QED
      BY <3>1, <3>2, <3>4, SameLine DEF ViewKept, listVars
  <2> QED
    BY <1>1, <2>2, <2>3, <2>4
<1>7. ASSUME ReceiveResult PROVE ViewKept
  <2>1. buffer' = <<>> /\ Finalize(Streamed, FALSE) /\ resultFinalized' = TRUE
    BY <1>7 DEF ReceiveResult
  <2> QED
    BY <1>4, <2>1
<1>8. ASSUME ReceiveTurnComplete PROVE ViewKept
  <2>1. buffer' = <<>> /\ resultFinalized' = FALSE
    BY <1>8 DEF ReceiveTurnComplete
  <2>2. \/ text' = Streamed /\ isStreaming' = StreamedOn /\ UNCHANGED listVars
        \/ Finalize(Streamed, FALSE)
    BY <1>8 DEF ReceiveTurnComplete
  <2>3. CASE Finalize(Streamed, FALSE)
    BY <1>4, <2>1, <2>3
  <2>4. CASE text' = Streamed /\ isStreaming' = StreamedOn /\ UNCHANGED listVars
    BY <1>5, <2>1, <2>4
  <2> QED
    BY <2>2, <2>3, <2>4
<1>9. ASSUME NEW t, ReceiveEnd(t) PROVE ViewKept
  <2>1. /\ buffer' = <<>> /\ Finalize(Streamed, TRUE) /\ resultFinalized' \in BOOLEAN
    BY <1>1, <1>9 DEF ReceiveEnd
  <2> QED
    BY <1>4, <2>1
<1>10. ASSUME ReceiveIdle PROVE ViewKept
  <2>1. buffer' = <<>>
    BY <1>10 DEF ReceiveIdle
  <2>2. \/ Finalize(Streamed, TRUE) /\ resultFinalized' = FALSE
        \/ /\ text' = Streamed /\ isStreaming' = StreamedOn
           /\ UNCHANGED listVars /\ resultFinalized' = resultFinalized
    BY <1>10 DEF ReceiveIdle
  <2>3. CASE Finalize(Streamed, TRUE) /\ resultFinalized' = FALSE
    BY <1>1, <1>4, <2>1, <2>3
  <2>4. CASE /\ text' = Streamed /\ isStreaming' = StreamedOn
             /\ UNCHANGED listVars /\ resultFinalized' = resultFinalized
    BY <1>1, <1>5, <2>1, <2>4
  <2> QED
    BY <2>2, <2>3, <2>4
<1>11. ASSUME ReceiveAsk PROVE ViewKept
  <2>1. resultFinalized' = resultFinalized /\ UNCHANGED listVars
    BY <1>11 DEF ReceiveAsk
  <2>2. \/ buffer' = <<>> /\ text' = Streamed /\ isStreaming' = StreamedOn
        \/ UNCHANGED <<buffer, text, isStreaming>>
    BY <1>11 DEF ReceiveAsk
  <2> QED
    BY <1>0, <1>1, <1>5, <2>1, <2>2
<1>12. ASSUME ReceiveQuestionOver PROVE ViewKept
  BY <1>0, <1>12 DEF ReceiveQuestionOver
<1> QED
  BY <1>6, <1>7, <1>8, <1>9, <1>10, <1>11, <1>12 DEF ReceiveSome

LEMMA OtherViewKeeps ==
  ASSUME ViewTyped, FlushFrame \/ Stop \/ PostFails \/ \E r \in Reconciliations : FinalizeInactive(r)
  PROVE  ViewKept
<1>1. /\ isStreaming \in BOOLEAN /\ resultFinalized \in BOOLEAN
      /\ text \in Seq(Chunks) /\ buffer \in Seq(Chunks)
      /\ queuedMessages \in Seq(UserMessages) /\ messages \in Seq(Items)
  BY DEF ViewTyped
<1>2. ASSUME FlushFrame PROVE ViewKept
  <2>1. /\ buffer' = <<>> /\ text' = Streamed /\ isStreaming' = TRUE
        /\ resultFinalized' = resultFinalized /\ UNCHANGED listVars
    BY <1>2 DEF FlushFrame
  <2> QED
    BY <1>1, <2>1, FlushKeeps
<1>3. ASSUME Finalize(text, TRUE), UNCHANGED <<buffer, resultFinalized>> PROVE ViewKept
  <2>1. Commits(text)
    BY <1>3, FinalizeCommits
  <2>2. buffer' = (IF text = Streamed THEN <<>> ELSE buffer)
    <3>1. ASSUME text = Streamed PROVE buffer = <<>>
      BY <1>1, <3>1, ConcatEqualIffEmpty DEF Streamed
    <3> QED
      BY <1>3, <3>1
  <2> QED
    BY <1>1, <1>3, <2>1, <2>2, CommitKeeps
<1>4. ASSUME Stop \/ \E r \in Reconciliations : FinalizeInactive(r) PROVE ViewKept
  <2>1. Finalize(text, TRUE) /\ UNCHANGED <<buffer, resultFinalized>>
    BY <1>4 DEF Stop, FinalizeInactive
  <2> QED
    BY <1>3, <2>1
<1>5. ASSUME PostFails PROVE ViewKept
  <2>1. UNCHANGED <<buffer, text, resultFinalized, messages>>
    BY <1>5 DEF PostFails
  <2>2. \/ UNCHANGED <<queuedMessages, isStreaming>>
        \/ queuedMessages' = <<>> /\ isStreaming' = FALSE
    BY <1>5 DEF PostFails
  <2>3. ViewTyped' /\ Shown' = Shown
    BY <1>1, <2>1, <2>2, EmptySeq DEF ViewTyped, Shown
  <2>4. CASE UNCHANGED queuedMessages
    BY <2>1, <2>3, <2>4, SameLine DEF ViewKept
  <2>5. CASE queuedMessages' = <<>>
    <3>1. Line' = Users(messages) \o <<>> /\ Users(messages) \in Seq(UserMessages)
      BY <2>1, <2>5, ShownTyped DEF Line
    <3>2. Line' = Users(messages)
      BY <3>1, ConcatEmptySeq
    <3>3. Line = Line' \o queuedMessages
      BY <3>2 DEF Line
    <3> QED
      BY <1>1, <2>3, <3>3 DEF ViewKept, Shortens
  <2> QED
    BY <2>2, <2>4, <2>5
<1> QED
  BY <1>2, <1>4, <1>5

\* The steps that add something, or put something in the place of what was there.
LEMMA ReceiveTextShows ==
  ASSUME ViewTyped, HubTyped, ReceiveText
  PROVE  /\ ViewTyped' /\ Shortens /\ Head(wire).type = "assistant_text"
         /\ Shown' = Shown \/ Shown' = Append(Shown, Head(wire).chunk)
<1>1. /\ wire \in Seq(Event) /\ wire # <<>> /\ Head(wire).type = "assistant_text"
      /\ UNCHANGED <<text, isStreaming, resultFinalized, listVars>>
      /\ buffer' = buffer \/ buffer' = Append(buffer, Head(wire).chunk)
  BY DEF ReceiveText, Receive, HubTyped
<1>2. Head(wire) \in Event
  BY <1>1, HeadTail
<1>3. Head(wire).chunk \in Chunks
  BY <1>1, <1>2, Events
<1>4. buffer \in Seq(Chunks) /\ Texts(messages) \o text \in Seq(Chunks)
  BY ShownTyped DEF ViewTyped
<1>5. buffer' \in Seq(Chunks)
  BY <1>1, <1>3, <1>4, AppendProperties
<1>6. ViewTyped'
  BY <1>1, <1>5 DEF ViewTyped, listVars
<1>7. Shown' = (Texts(messages) \o text) \o buffer'
  BY <1>1 DEF Shown, listVars
<1>8. ASSUME NEW a \in Seq(Chunks), NEW b \in Seq(Chunks), NEW c \in Chunks
      PROVE  a \o Append(b, c) = Append(a \o b, c)
  OBVIOUS
<1>9. Shown' = Shown \/ Shown' = Append(Shown, Head(wire).chunk)
  <2>1. CASE buffer' = buffer
    BY <1>7, <2>1 DEF Shown
  <2>2. CASE buffer' = Append(buffer, Head(wire).chunk)
    BY <1>3, <1>4, <1>7, <1>8, <2>2 DEF Shown
  <2> QED
    BY <1>1, <2>1, <2>2
<1> QED
  BY <1>1, <1>6, <1>9, SameLine DEF listVars

LEMMA AddShows ==
  ASSUME ViewTyped, SendTyped, AddMessageOrQueue
  PROVE  /\ ViewTyped' /\ Shown' = Shown
         /\ queuedMessages = <<>> \/ "overtaken" \notin mishaps'
               => Line' = Append(Line, User(submitted))
<1> DEFINE u == User(submitted)
<1>1. /\ submitted \in 1 .. MaxUser /\ post \in Unshown
      /\ UNCHANGED <<buffer, text, resultFinalized>>
  <2>1. post \in Unshown /\ UNCHANGED <<buffer, text, resultFinalized>>
    BY DEF AddMessageOrQueue, Unshown
  <2> QED
    BY <2>1, FeedNumbers DEF SendTyped
<1>2. u \in UserMessages
  BY <1>1, FeedNumbers
<1>3. /\ isStreaming \in BOOLEAN /\ queuedMessages \in Seq(UserMessages) /\ messages \in Seq(Items)
      /\ Users(messages) \in Seq(UserMessages) /\ Line \in Seq(UserMessages)
  BY ShownTyped DEF ViewTyped
<1>4. CASE post = "queueing"
  <2>1. queuedMessages' = Append(queuedMessages, u) /\ UNCHANGED <<isStreaming, messages>>
    BY <1>4 DEF AddMessageOrQueue
  <2>2. queuedMessages' \in Seq(UserMessages)
    BY <1>2, <1>3, <2>1, AppendProperties
  <2>3. ViewTyped' /\ Shown' = Shown
    BY <1>1, <2>1, <2>2 DEF ViewTyped, Shown
  <2>4. ASSUME NEW a \in Seq(UserMessages), NEW b \in Seq(UserMessages), NEW c \in UserMessages
        PROVE  a \o Append(b, c) = Append(a \o b, c)
    OBVIOUS
  <2>5. Line' = Append(Line, u)
    BY <1>2, <1>3, <2>1, <2>4 DEF Line
  <2> QED
    BY <2>3, <2>5
<1>5. CASE post # "queueing"
  <2>1. /\ messages' = Append(messages, u) /\ isStreaming' = TRUE /\ UNCHANGED queuedMessages
        /\ mishaps' = mishaps \cup (IF queuedMessages # <<>> THEN {"overtaken"} ELSE {})
    BY <1>5 DEF AddMessageOrQueue, Note
  <2>2. messages' = messages \o <<u>> /\ <<u>> \in Seq(UserMessages)
    BY <1>2, <1>3, <2>1, FeedNumbers
  <2>3. /\ messages' \in Seq(Items) /\ Texts(messages') = Texts(messages)
        /\ Users(messages') = Users(messages) \o <<u>>
    BY <1>3, <2>2, TextsAndUsers
  <2>4. ViewTyped' /\ Shown' = Shown
    BY <1>1, <1>3, <2>1, <2>3 DEF ViewTyped, Shown
  <2>5. ASSUME queuedMessages = <<>> PROVE Line' = Append(Line, u)
    <3>1. Line = Users(messages) /\ Line' = Users(messages')
      <4>1. Users(messages') \in Seq(UserMessages)
        BY <2>3, TextsAndUsers
      <4> QED
        BY <1>3, <2>1, <2>5, <4>1, ConcatEmptySeq DEF Line
    <3>2. Users(messages) \o <<u>> = Append(Users(messages), u)
      BY <1>2, <1>3
    <3> QED
      BY <2>3, <3>1, <3>2
  <2> QED
    BY <2>1, <2>4, <2>5
<1> QED
  BY <1>4, <1>5

LEMMA PostReturnsShows ==
  ASSUME ViewTyped, SendTyped, PostReturns
  PROVE  /\ ViewTyped' /\ Shown' = Shown /\ submitted = 1 /\ post' = "none"
         /\ submitted' = submitted
         /\ Users(messages') = Append(Users(messages), User(1)) /\ queuedMessages' = queuedMessages
         /\ User(1) \in UserMessages
<1> DEFINE u == User(1)
<1>1. /\ post = "accepted" /\ messages' = Append(messages, u) /\ isStreaming' = TRUE
      /\ UNCHANGED <<buffer, text, resultFinalized, queuedMessages, submitted>>
      /\ post' = "none"
  BY DEF PostReturns
<1>2. submitted = 1 /\ 1 \in 1 .. MaxUser
  BY <1>1, FeedNumbers DEF SendTyped
<1>3. u \in UserMessages
  BY <1>2, FeedNumbers
<1>4. messages \in Seq(Items) /\ Users(messages) \in Seq(UserMessages)
  BY ShownTyped DEF ViewTyped
<1>5. messages' = messages \o <<u>> /\ <<u>> \in Seq(UserMessages)
  BY <1>1, <1>3, <1>4, FeedNumbers
<1>6. /\ messages' \in Seq(Items) /\ Texts(messages') = Texts(messages)
      /\ Users(messages') = Users(messages) \o <<u>>
  BY <1>4, <1>5, TextsAndUsers
<1>7. ViewTyped' /\ Shown' = Shown
  BY <1>1, <1>6 DEF ViewTyped, Shown
<1>8. Users(messages) \o <<u>> = Append(Users(messages), u)
  BY <1>3, <1>4
<1> QED
  BY <1>1, <1>2, <1>3, <1>6, <1>7, <1>8

LEMMA RemoveShows ==
  ASSUME ViewTyped, RemoveQueuedMessage
  PROVE  /\ ViewTyped' /\ Shown' = Shown /\ UNCHANGED <<messages, sendVars>>
         /\ ToSet(queuedMessages') \subseteq ToSet(queuedMessages)
         /\ Rising(queuedMessages) => Rising(queuedMessages')
<1>1. PICK k \in DOMAIN queuedMessages : queuedMessages' = RemoveAt(queuedMessages, k)
  BY DEF RemoveQueuedMessage
<1>2. UNCHANGED <<streamingVars, messages, sendVars>>
  BY DEF RemoveQueuedMessage
<1>3. queuedMessages \in Seq(UserMessages) /\ UserMessages \subseteq Nat
  BY FeedNumbers DEF ViewTyped
<1>4. /\ queuedMessages' \in Seq(UserMessages)
      /\ ToSet(queuedMessages') \subseteq ToSet(queuedMessages)
      /\ Rising(queuedMessages) => Rising(queuedMessages')
  BY <1>1, <1>3, RisingRemoveAt
<1>5. queuedMessages # <<>>
  BY <1>1
<1>6. ViewTyped' /\ Shown' = Shown
  BY <1>2, <1>4, <1>5 DEF ViewTyped, Shown, streamingVars
<1> QED
  BY <1>2, <1>4, <1>6

LEMMA RestoreShows ==
  ASSUME ViewTyped, ReconTyped, NEW r \in Reconciliations, RestoreSnapshot(r)
  PROVE  /\ ViewTyped' /\ Shortens /\ fetched[r] \in Seq(Chunks)
         /\ Shown' = (Texts(messages) \o fetched[r]) \o buffer
<1>1. /\ recon[r] = "snapped" /\ text' = fetched[r] /\ isStreaming' = TRUE
      /\ UNCHANGED <<buffer, resultFinalized, listVars>>
  BY DEF RestoreSnapshot
<1>2. fetched[r] \in Seq(Chunks)
  BY <1>1 DEF ReconTyped
<1>3. ViewTyped' /\ Shown' = (Texts(messages) \o fetched[r]) \o buffer
  BY <1>1, <1>2 DEF ViewTyped, Shown, listVars
<1> QED
  BY <1>1, <1>2, <1>3, SameLine DEF listVars

LEMMA SetPageShows ==
  ASSUME ViewTyped, ReconTyped, NEW r \in Reconciliations, SetMessagePage(r)
  PROVE  /\ ViewTyped' /\ messages' = fetched[r] /\ queuedMessages' = queuedMessages
         /\ Shown' = (Texts(fetched[r]) \o text) \o buffer
<1>1. /\ messages' = fetched[r] /\ UNCHANGED <<streamingVars, queuedMessages>>
      /\ fetched[r] \in Seq(Items)
  BY DEF SetMessagePage, ReconTyped
<1>2. ViewTyped' /\ Shown' = (Texts(fetched[r]) \o text) \o buffer
  BY <1>1 DEF ViewTyped, Shown, streamingVars
<1> QED
  BY <1>1, <1>2

LEMMA ViewTypedStep ==
  ASSUME FeedTyped, [FeedNext]_feedVars
  PROVE  ViewTyped'
<1>1. ViewTyped /\ SendTyped /\ ReconTyped /\ HubTyped
  BY DEF FeedTyped
<1>2. ASSUME UNCHANGED viewVars PROVE ViewTyped'
  BY <1>1, <1>2 DEF ViewTyped, viewVars
<1>3. ASSUME AgentStep \/ OtherStep PROVE ViewTyped'
  BY <1>2, <1>3, AgentLeaves, OthersLeave
<1>4. ASSUME ReceiveSome \/ FlushFrame \/ Stop \/ PostFails PROVE ViewTyped'
  BY <1>1, <1>4, ReceiveKeeps, OtherViewKeeps, ReceiveTextShows DEF ViewKept
<1>5. ASSUME AddMessageOrQueue \/ PostReturns \/ RemoveQueuedMessage PROVE ViewTyped'
  BY <1>1, <1>5, AddShows, PostReturnsShows, RemoveShows
<1>6. ASSUME NEW r \in Reconciliations, PageStep(r) PROVE ViewTyped'
  <2>1. ASSUME FinalizeInactive(r) PROVE ViewTyped'
    BY <1>1, <2>1, OtherViewKeeps DEF ViewKept
  <2> QED
    BY <1>1, <1>6, <2>1, RestoreShows, SetPageShows DEF PageStep
<1>7. ASSUME UNCHANGED feedVars PROVE ViewTyped'
  BY <1>2, <1>7 DEF feedVars, viewVars, streamingVars, listVars
<1> QED
  BY <1>3, <1>4, <1>5, <1>6, <1>7, FeedSteps DEF ViewStep

LEMMA FeedTypedStep == FeedTyped /\ [FeedNext]_feedVars => FeedTyped'
BY TurnTypedStep, HubTypedStep, SendTypedStep, ViewTypedStep, PromptsTypedStep, ReconTypedStep
   DEF FeedTyped

LEMMA FeedTypedInit == FeedInit => FeedTyped
<1> SUFFICES ASSUME FeedInit PROVE FeedTyped
  OBVIOUS
<1> USE FeedNumbers
<1>1. /\ <<>> \in Seq(Chunks) /\ <<>> \in Seq(UserMessages) /\ <<>> \in Seq(Items)
      /\ <<>> \in Seq(1 .. MaxUser) /\ <<>> \in Seq(Event) /\ Len(<<>>) <= 1
  BY EmptySeq
<1>2. TurnTyped
  <2>1. /\ running = FALSE /\ answering = FALSE /\ inbox = <<>> /\ said = <<>> /\ deferred = <<>>
        /\ db = <<>>
    BY DEF FeedInit
  <2>2. turn \in 0 .. MaxUser /\ clock \in 0 .. MaxText
    BY DEF FeedInit
  <2> QED
    BY <1>1, <2>1, <2>2 DEF TurnTyped
<1>3. HubTyped
  <2>1. wire = <<>> /\ link = TRUE /\ faults \in 0 .. MaxFaults
    BY DEF FeedInit
  <2> QED
    BY <1>1, <2>1 DEF HubTyped
<1>4. SendTyped
  <2>1. submitted = 0 /\ post = "none" /\ submitted \in 0 .. MaxUser
    BY DEF FeedInit
  <2> QED
    BY <2>1 DEF SendTyped, Unshown
<1>5. ViewTyped
  BY <1>1 DEF ViewTyped, FeedInit
<1>6. PromptsTyped
  <2>1. /\ asking = "none" /\ raised = {} /\ asks \in 0 .. MaxAsks /\ approving = {} /\ pending = {}
        /\ prompts = [r \in Reconciliations |-> {}]
    BY DEF FeedInit
  <2> QED
    BY <2>1 DEF PromptsTyped
<1>7. ReconTyped
  <2>1. /\ recon = [r \in Reconciliations |-> "none"]
        /\ fetched = [r \in Reconciliations |-> <<>>]
    BY DEF FeedInit
  <2> QED
    BY <1>1, <2>1 DEF ReconTyped, FeedStages
<1> QED
  BY <1>2, <1>3, <1>4, <1>5, <1>6, <1>7 DEF FeedTyped

LEMMA FeedTypedTypes == FeedTyped => FeedTypeOK
<1> SUFFICES ASSUME FeedTyped PROVE FeedTypeOK
  OBVIOUS
<1>1. /\ {running, answering, link, isStreaming, resultFinalized} \subseteq BOOLEAN
      /\ inbox \in Seq(1 .. MaxUser) /\ turn \in 0 .. MaxUser /\ Len(deferred) <= 1
      /\ clock \in 0 .. MaxText /\ faults \in 0 .. MaxFaults
      /\ submitted \in 0 .. MaxUser
  BY DEF FeedTyped, TurnTyped, HubTyped, SendTyped, ViewTyped
<1>2. /\ {said, buffer} \subseteq Seq(1 .. MaxText)
      /\ db \in Seq(Items) /\ messages \in Seq(Items)
      /\ deferred \in Seq(UserMessages) /\ queuedMessages \in Seq(UserMessages)
      /\ text \in Seq(Chunks)
  BY DEF FeedTyped, TurnTyped, ViewTyped, Chunks
<1>3. {deferred, db, text, messages, queuedMessages} \subseteq Seq(Items)
  BY <1>2, FeedNumbers, SeqWider
<1>4. wire \in Seq(Event) /\ (~link => wire = <<>>)
  BY DEF FeedTyped, HubTyped
<1>5. recon \in [Reconciliations -> {"none", "asked", "active", "inactive", "paging", "paged",
                 "snapping", "snapped", "repaging", "repaged"}]
      /\ fetched \in [Reconciliations -> Seq(Items)]
  BY DEF FeedTyped, ReconTyped, FeedStages
<1>6. PromptsTyped
  BY DEF FeedTyped
<1>7. post \in {"none", "denying", "denied", "queueing", "adding", "sending", "accepted"}
  BY DEF FeedTyped, SendTyped, Unshown
<1> QED
  BY <1>1, <1>2, <1>3, <1>4, <1>5, <1>6, <1>7 DEF FeedTypeOK, PromptsTyped

(* What was said and sent, in the table and on the way to it.              *)
Count(n) == [i \in 1 .. n |-> i]
StoredText == Texts(db) \o said
StoredLine == Users(db) \o deferred
Told ==
    /\ StoredText = Count(clock)
    /\ Rising(StoredLine)
    /\ \A x \in ToSet(StoredLine) :
          x <= User(submitted) /\ (post \in Unshown \cup {"sending"} => x < User(submitted))

\* A snapshot under way: text from some place of the table on.
Restored ==
    \A r \in Reconciliations : recon[r] = "snapped" =>
        \E p \in 0 .. Len(Texts(db)) : \E n \in 0 .. clock - p :
            fetched[r] = [i \in 1 .. n |-> p + i]

LEMMA StoredTyped ==
  ASSUME TurnTyped
  PROVE  /\ Texts(db) \in Seq(Chunks) /\ Users(db) \in Seq(UserMessages)
         /\ StoredText \in Seq(Chunks) /\ StoredLine \in Seq(UserMessages)
         /\ StoredText \in Seq(Nat) /\ StoredLine \in Seq(Nat) /\ Len(Texts(db)) \in Nat
<1>1. db \in Seq(Items) /\ said \in Seq(Chunks) /\ deferred \in Seq(UserMessages)
  BY DEF TurnTyped
<1>2. Texts(db) \in Seq(Chunks) /\ Users(db) \in Seq(UserMessages)
  BY <1>1, TextsAndUsers
<1>3. StoredText \in Seq(Chunks) /\ StoredLine \in Seq(UserMessages)
  BY <1>1, <1>2, JoinSet DEF StoredText, StoredLine
<1>4. StoredText \in Seq(Nat) /\ StoredLine \in Seq(Nat)
  <2>1. UserMessages \subseteq Nat
    BY FeedNumbers
  <2> QED
    BY <1>3, <2>1, FeedNumbers, SeqWider
<1> QED
  BY <1>2, <1>3, <1>4

\* The end of a turn moves text and deferred messages into the table.
LEMMA StoreTurnKeeps ==
  ASSUME TurnTyped, StoreTurn
  PROVE  /\ StoredText' = StoredText /\ StoredLine' = StoredLine /\ deferred' = <<>>
         /\ Texts(db') = StoredText
<1>1. /\ db' = (db \o said) \o deferred /\ said' = <<>> /\ deferred' = <<>>
  BY DEF StoreTurn
<1>2. db \in Seq(Items) /\ said \in Seq(Chunks) /\ deferred \in Seq(UserMessages)
  BY DEF TurnTyped
<1> DEFINE l == db \o said
<1>3. l \in Seq(Items) /\ Texts(l) = Texts(db) \o said /\ Users(l) = Users(db)
  BY <1>2, TextsAndUsers
<1>4. db' = l \o deferred
  BY <1>1
<1> HIDE DEF l
<1>5. Texts(l \o deferred) = Texts(l) /\ Users(l \o deferred) = Users(l) \o deferred
  BY <1>2, <1>3, TextsAndUsers
<1>6. Texts(db') = StoredText /\ Users(db') = StoredLine
  BY <1>3, <1>4, <1>5 DEF StoredText, StoredLine
<1>7. StoredText' = StoredText \o <<>> /\ StoredLine' = StoredLine \o <<>>
  BY <1>1, <1>6 DEF StoredText, StoredLine
<1> QED
  BY <1>1, <1>6, <1>7, StoredTyped, ConcatEmptySeq

\* A message that is accepted is stored or deferred behind those in the table; one that
\* was deferred before gives way.
LEMMA AcceptStores ==
  ASSUME FeedTyped, Accept
  PROVE  /\ StoredText' = StoredText /\ Texts(db') = Texts(db)
         /\ \/ StoredLine' = Append(StoredLine, User(submitted))
            \/ deferred # <<>> /\ "overwritten" \in mishaps'
               /\ StoredLine' = Append(Users(db), User(submitted))
<1> USE FeedNumbers
<1>1. /\ TurnTyped /\ SendTyped /\ submitted \in 0 .. MaxUser
      /\ db \in Seq(Items) /\ said \in Seq(Chunks) /\ deferred \in Seq(UserMessages)
      /\ answering \in BOOLEAN /\ (deferred # <<>> => answering = TRUE)
  BY DEF FeedTyped, TurnTyped, SendTyped
<1>2. Users(db) \in Seq(UserMessages)
  BY <1>1, StoredTyped
<1> DEFINE u == User(submitted)
<1>3. /\ post = "sending" /\ said' = said
      /\ \/ answering = FALSE /\ db' = Append(db, u) /\ deferred' = deferred
         \/ answering = TRUE /\ deferred' = <<u>> /\ db' = db
            /\ mishaps' = mishaps \cup (IF deferred # <<>> THEN {"overwritten"} ELSE {})
  BY <1>1 DEF Accept, Note
<1>4. u \in UserMessages
  <2>1. submitted \in 1 .. MaxUser
    BY <1>1, <1>3 DEF SendTyped
  <2> QED
    BY <2>1
<1>5. Users(db) \o <<u>> = Append(Users(db), u) /\ Append(Users(db), u) \in Seq(UserMessages)
      /\ <<u>> \in Seq(UserMessages)
  BY <1>2, <1>4, AppendProperties
<1>6. CASE answering = FALSE /\ db' = Append(db, u) /\ deferred' = deferred
  <2>1. deferred = <<>>
    BY <1>1, <1>6
  <2>2. db' = db \o <<u>>
    BY <1>1, <1>4, <1>6
  <2>3. Texts(db') = Texts(db) /\ Users(db') = Users(db) \o <<u>>
    BY <1>1, <1>5, <2>2, TextsAndUsers
  <2>4. StoredLine = Users(db)
    BY <1>2, <2>1, ConcatEmptySeq DEF StoredLine
  <2>5. StoredLine' = Append(Users(db), u)
    BY <1>5, <1>6, <2>1, <2>3, ConcatEmptySeq DEF StoredLine
  <2> QED
    BY <1>3, <2>3, <2>4, <2>5 DEF StoredText
<1>7. CASE /\ answering = TRUE /\ deferred' = <<u>> /\ db' = db
           /\ mishaps' = mishaps \cup (IF deferred # <<>> THEN {"overwritten"} ELSE {})
  <2>1. StoredLine' = Append(Users(db), u)
    BY <1>5, <1>7 DEF StoredLine
  <2>2. ASSUME deferred = <<>> PROVE StoredLine = Users(db)
    BY <1>2, <2>2, ConcatEmptySeq DEF StoredLine
  <2>3. StoredText' = StoredText
    BY <1>3, <1>7 DEF StoredText
  <2>4. deferred # <<>> => "overwritten" \in mishaps'
    BY <1>7
  <2> QED
    BY <1>7, <2>1, <2>2, <2>3, <2>4
<1> QED
  BY <1>3, <1>6, <1>7

LEMMA TellsMore ==
  ASSUME FeedTyped, Told, AgentStep
  PROVE  Told' /\ clock <= clock' /\ Len(Texts(db)) <= Len(Texts(db'))
<1> USE FeedNumbers
<1>1. /\ TurnTyped /\ SendTyped /\ clock \in Nat /\ submitted \in 0 .. MaxUser
      /\ db \in Seq(Items) /\ said \in Seq(Chunks) /\ deferred \in Seq(UserMessages)
  BY DEF FeedTyped, TurnTyped, SendTyped
<1>2. /\ Texts(db) \in Seq(Chunks) /\ Users(db) \in Seq(UserMessages) /\ StoredText \in Seq(Chunks)
      /\ StoredLine \in Seq(UserMessages) /\ StoredLine \in Seq(Nat) /\ Len(Texts(db)) \in Nat
  BY <1>1, StoredTyped
<1>3. ASSUME UNCHANGED <<said, deferred, db, clock, submitted, post>>
      PROVE  Told' /\ clock <= clock' /\ Len(Texts(db)) <= Len(Texts(db'))
  <2>1. Told'
    BY <1>3 DEF Told, StoredText, StoredLine
  <2> QED
    BY <1>1, <1>2, <1>3, <2>1
<1>4. CASE Accept
  <2> DEFINE u == User(submitted)
  <2>1. /\ post = "sending" /\ post' \notin Unshown \cup {"sending"} /\ submitted' = submitted
        /\ clock' = clock
    BY <1>4 DEF Accept, Unshown
  <2>2. submitted \in 1 .. MaxUser /\ u \in UserMessages /\ u \in Items /\ u \in Nat
    <3>1. submitted \in 1 .. MaxUser
      BY <1>1, <2>1 DEF SendTyped
    <3>2. u \in UserMessages
      BY <3>1
    <3> QED
      BY <3>1, <3>2
  <2>3. /\ StoredText' = StoredText /\ Texts(db') = Texts(db)
        /\ StoredLine' = Append(StoredLine, u) \/ StoredLine' = Append(Users(db), u)
    BY <1>4, AcceptStores
  <2>4. /\ Users(db) \in Seq(Nat) /\ deferred \in Seq(Nat)
        /\ ToSet(StoredLine) = ToSet(Users(db)) \cup ToSet(deferred)
        /\ Rising(Users(db)) /\ Rising(StoredLine)
    <3>1. Users(db) \in Seq(Nat) /\ deferred \in Seq(Nat)
      <4>1. UserMessages \subseteq Nat
        OBVIOUS
      <4> QED
        BY <1>1, <1>2, <4>1, SeqWider
    <3>2. ToSet(Users(db) \o deferred) = ToSet(Users(db)) \cup ToSet(deferred)
      BY <1>1, <1>2, JoinSet
    <3>3. Rising(Users(db) \o deferred) => Rising(Users(db))
      BY <3>1, RisingConcat
    <3> QED
      BY <3>1, <3>2, <3>3 DEF Told, StoredLine
  <2>5. \A x \in ToSet(StoredLine) : x < u /\ x \in Nat
    BY <1>2, <2>1, SetOfList DEF Told
  <2>6. ASSUME NEW l \in Seq(Nat), Rising(l), ToSet(l) \subseteq ToSet(StoredLine),
               StoredLine' = Append(l, u)
        PROVE  Rising(StoredLine') /\ \A x \in ToSet(StoredLine') : x <= u
    <3>1. ToSet(Append(l, u)) = ToSet(l) \cup {u}
      BY <2>2, <2>6, AppendSet
    <3>2. Rising(Append(l, u))
      BY <2>2, <2>5, <2>6, RisingAppend
    <3>3. \A x \in ToSet(Append(l, u)) : x <= u
      BY <2>2, <2>5, <2>6, <3>1
    <3> QED
      BY <2>6, <3>2, <3>3
  <2>7. Rising(StoredLine') /\ \A x \in ToSet(StoredLine') : x <= u
    <3>1. CASE StoredLine' = Append(StoredLine, u)
      BY <1>2, <2>4, <2>6, <3>1
    <3>2. CASE StoredLine' = Append(Users(db), u)
      BY <2>4, <2>6, <3>2
    <3> QED
      BY <2>3, <3>1, <3>2
  <2>8. Told'
    BY <2>1, <2>3, <2>7 DEF Told
  <2> QED
    BY <1>1, <1>2, <2>1, <2>3, <2>8
<1>5. CASE BeginTurn \/ PromptExpires \/ \E kind \in Kinds : RequestApproval(kind)
  <2>1. UNCHANGED <<said, deferred, db, clock, submitted, post>>
    BY <1>5 DEF BeginTurn, PromptExpires, RequestApproval, sendVars
  <2> QED
    BY <1>3, <2>1
<1>6. CASE Speak
  <2>1. /\ said' = Append(said, clock + 1) /\ clock' = clock + 1 /\ clock < MaxText
        /\ UNCHANGED <<inbox, turn, deferred, db, submitted, post>>
    BY <1>6 DEF Speak, sendVars
  <2>2. clock + 1 \in Chunks
    BY <1>1, <2>1 DEF Chunks
  <2>3. ASSUME NEW a \in Seq(Chunks), NEW b \in Seq(Chunks), NEW c \in Chunks
        PROVE  a \o Append(b, c) = Append(a \o b, c)
    OBVIOUS
  <2>4. StoredText' = Append(StoredText, clock + 1)
    BY <1>1, <1>2, <2>1, <2>2, <2>3 DEF StoredText
  <2>5. Append(Count(clock), clock + 1) = Count(clock + 1)
    <3>1. Count(clock) \in Seq(Nat) /\ Len(Count(clock)) = clock
      BY <1>1 DEF Count
    <3>2. /\ Append(Count(clock), clock + 1) \in Seq(Nat)
          /\ Len(Append(Count(clock), clock + 1)) = clock + 1
          /\ \A i \in 1 .. clock + 1 : Append(Count(clock), clock + 1)[i] = i
      BY <1>1, <3>1 DEF Count
    <3> QED
      BY <1>1, <3>2 DEF Count
  <2>6. StoredText' = Count(clock')
    BY <2>1, <2>4, <2>5 DEF Told
  <2>7. StoredLine' = StoredLine
    BY <2>1 DEF StoredLine
  <2>8. Told'
    BY <2>1, <2>6, <2>7 DEF Told
  <2> QED
    BY <1>1, <1>2, <2>1, <2>8
<1>8. ASSUME StoreTurn, UNCHANGED sendVars
      PROVE  Told' /\ clock <= clock' /\ Len(Texts(db)) <= Len(Texts(db'))
  <2>1. /\ StoredText' = StoredText /\ StoredLine' = StoredLine /\ deferred' = <<>>
        /\ Texts(db') = StoredText /\ clock' = clock /\ UNCHANGED <<submitted, post>>
    BY <1>1, <1>8, StoreTurnKeeps DEF StoreTurn, sendVars
  <2>2. Told'
    BY <2>1 DEF Told
  <2>3. Len(StoredText) = Len(Texts(db)) + Len(said) /\ Len(said) \in Nat
    BY <1>1, <1>2, ConcatProperties DEF StoredText
  <2> QED
    BY <1>1, <1>2, <2>1, <2>2, <2>3
<1>9. CASE EndTurn
  BY <1>8, <1>9 DEF EndTurn
<1>10. ASSUME NEW last, EndProcess(last)
       PROVE Told' /\ clock <= clock' /\ Len(Texts(db)) <= Len(Texts(db'))
  BY <1>8, <1>10 DEF EndProcess
<1> QED
  BY <1>4, <1>5, <1>6, <1>9, <1>10 DEF AgentStep

LEMMA ToldStep == FeedTyped /\ Told /\ [FeedNext]_feedVars => Told'
<1> SUFFICES ASSUME FeedTyped, Told, [FeedNext]_feedVars PROVE Told'
  OBVIOUS
<1> USE FeedNumbers
<1>1. /\ TurnTyped /\ SendTyped /\ submitted \in 0 .. MaxUser
      /\ \A x \in ToSet(StoredLine) : x \in Nat
  <2>1. TurnTyped /\ SendTyped /\ submitted \in 0 .. MaxUser
    BY DEF FeedTyped, SendTyped
  <2> QED
    BY <2>1, StoredTyped, SetOfList
<1>2. ASSUME UNCHANGED <<said, deferred, db, clock>>, UNCHANGED <<submitted, post>>
      PROVE  Told'
  BY <1>2 DEF Told, StoredText, StoredLine
<1>3. ASSUME UNCHANGED talkVars,
             \A x \in ToSet(StoredLine) : x <= User(submitted')
             /\ (post' \in Unshown \cup {"sending"} => x < User(submitted'))
      PROVE  Told'
  BY <1>3 DEF Told, StoredText, StoredLine, talkVars
<1>4. CASE AgentStep
  BY <1>4, TellsMore
<1>5. ASSUME ~AgentStep PROVE UNCHANGED talkVars
  <2>1. ASSUME UNCHANGED feedVars PROVE UNCHANGED talkVars
    BY <2>1 DEF feedVars, turnVars, talkVars
  <2>2. UNCHANGED turnVars => UNCHANGED talkVars
    BY DEF turnVars, talkVars
  <2> QED
    BY <1>5, <2>1, <2>2, FeedSteps, OthersLeave, ViewLeaves
<1>6. CASE UNCHANGED talkVars /\ ~Accept
  <2>1. UNCHANGED <<said, deferred, db, clock>>
    BY <1>6 DEF talkVars
  <2>2. CASE Submit
    <3>1. submitted' = submitted + 1 /\ User(submitted) < User(submitted')
          /\ User(submitted) \in Nat /\ User(submitted') \in Nat
      BY <1>1, <2>2 DEF Submit, User
    <3>2. \A x \in ToSet(StoredLine) : x <= User(submitted)
      BY DEF Told
    <3>3. \A x \in ToSet(StoredLine) : x < User(submitted') /\ x <= User(submitted')
      BY <1>1, <3>1, <3>2
    <3> QED
      BY <1>3, <1>6, <3>3
  <2>3. CASE PostFails
    <3>1. post = "sending" /\ post' = "none"
          /\ (submitted' = submitted \/ (submitted = 1 /\ submitted' = 0))
      BY <2>3 DEF PostFails
    <3>2. User(1) = User(0) + 1 /\ User(0) \in Nat
      BY DEF User
    <3>3. \A x \in ToSet(StoredLine) : x < User(submitted) /\ x <= User(submitted)
      BY <3>1 DEF Told
    <3>4. \A x \in ToSet(StoredLine) : x <= User(submitted')
      BY <1>1, <3>1, <3>2, <3>3
    <3>5. post' \notin Unshown \cup {"sending"}
      BY <3>1 DEF Unshown
    <3> QED
      BY <1>3, <1>6, <3>4, <3>5
  <2>4. CASE PostReturns \/ LoadFails
    <3>1. submitted' = submitted /\ post' \notin Unshown \cup {"sending"}
      BY <2>4 DEF PostReturns, LoadFails, Unshown
    <3>2. \A x \in ToSet(StoredLine) : x <= User(submitted')
      BY <3>1 DEF Told
    <3> QED
      BY <1>3, <1>6, <3>1, <3>2
  <2>5. CASE PlanDenied \/ AddMessageOrQueue
    <3>1. submitted' = submitted /\ post \in Unshown
      BY <2>5 DEF PlanDenied, AddMessageOrQueue, Unshown
    <3>2. \A x \in ToSet(StoredLine) : x <= User(submitted) /\ x < User(submitted)
      BY <3>1 DEF Told
    <3> QED
      BY <1>3, <1>6, <3>1, <3>2
  <2> QED
    BY <1>2, <1>6, <2>1, <2>2, <2>3, <2>4, <2>5, SendKept
<1> QED
  BY <1>4, <1>5, <1>6 DEF AgentStep

LEMMA RestoredStep == FeedTyped /\ Told /\ Restored /\ [FeedNext]_feedVars => Restored'
<1> SUFFICES ASSUME FeedTyped, Told, Restored, [FeedNext]_feedVars,
                    NEW r \in Reconciliations, recon'[r] = "snapped"
             PROVE  \E p \in 0 .. Len(Texts(db')) : \E n \in 0 .. clock' - p :
                       fetched'[r] = [i \in 1 .. n |-> p + i]
  BY DEF Restored
<1>1. TurnTyped /\ clock \in Nat /\ Len(Texts(db)) \in Nat /\ said \in Seq(Chunks)
  BY FeedNumbers, StoredTyped DEF FeedTyped, TurnTyped
<1>2. TurnTyped' /\ clock' \in Nat /\ Len(Texts(db')) \in Nat
  <2>1. TurnTyped'
    BY FeedTypedStep DEF FeedTyped
  <2>2. db' \in Seq(Items)
    BY <2>1 DEF TurnTyped
  <2>3. Texts(db') \in Seq(Chunks)
    BY <2>2, TextsAndUsers
  <2> QED
    BY <2>1, <2>3, FeedNumbers DEF TurnTyped
<1>3. clock <= clock' /\ Len(Texts(db)) <= Len(Texts(db'))
      /\ (AgentStep \/ UNCHANGED <<db, clock>>)
  <2>1. ASSUME ~AgentStep PROVE UNCHANGED <<db, clock>>
    <3>1. ASSUME UNCHANGED feedVars PROVE UNCHANGED talkVars
      BY <3>1 DEF feedVars, turnVars, talkVars
    <3>2. UNCHANGED turnVars => UNCHANGED talkVars
      BY DEF turnVars, talkVars
    <3>3. UNCHANGED talkVars
      BY <2>1, <3>1, <3>2, FeedSteps, OthersLeave, ViewLeaves
    <3> QED
      BY <3>3 DEF talkVars
  <2>2. UNCHANGED <<db, clock>> => clock <= clock' /\ Len(Texts(db)) <= Len(Texts(db'))
    BY <1>1
  <2> QED
    BY <2>1, <2>2, TellsMore
<1>4. CASE recon[r] = "snapped" /\ fetched'[r] = fetched[r]
  <2>0. PICK p \in 0 .. Len(Texts(db)) : \E n \in 0 .. clock - p :
             fetched[r] = [i \in 1 .. n |-> p + i]
    BY <1>4 DEF Restored
  <2>1. PICK n \in 0 .. clock - p : fetched[r] = [i \in 1 .. n |-> p + i]
    BY <2>0
  <2>2. p \in 0 .. Len(Texts(db')) /\ n \in 0 .. clock' - p
    <3>1. \A a, b, c, d \in Nat : \A x \in 0 .. a : \A y \in 0 .. c - x :
             a <= b /\ c <= d => x \in 0 .. b /\ y \in 0 .. d - x
      OBVIOUS
    <3> QED
      BY <1>1, <1>2, <1>3, <2>0, <2>1, <3>1, Zenon
  <2> QED
    BY <1>4, <2>1, <2>2
<1>5. ASSUME recon[r] # "snapped" \/ fetched'[r] # fetched[r] PROVE ServerAnswers(r)
  <2>1. recon \in [Reconciliations -> FeedStages] /\ fetched \in [Reconciliations -> Seq(Items)]
    BY DEF FeedTyped, ReconTyped
  <2>2. ~UNCHANGED reconVars
    BY <1>5 DEF reconVars
  <2>3. ASSUME NEW q \in Reconciliations, NEW to, to # "snapped",
               Goes(q, to), fetched' = fetched \/ \E f : Fetches(q, f)
        PROVE  FALSE
    <3>1. q # r
      BY <2>1, <2>3 DEF Goes
    <3>2. recon'[r] = recon[r]
      BY <2>1, <2>3, <3>1 DEF Goes
    <3>3. fetched'[r] = fetched[r]
      BY <2>1, <2>3, <3>1 DEF Fetches
    <3> QED
      BY <1>5, <3>2, <3>3
  <2>4. ASSUME NEW q \in Reconciliations,
               PageStep(q) \/ ReconFails(q) \/ BeginSnapshot(q) \/ NoSnapshot(q)
        PROVE  FALSE
    <3>1. /\ \E to \in {"none", "paging", "snapping", "repaging"} : Goes(q, to)
          /\ fetched' = fetched \/ \E f : Fetches(q, f)
      BY <2>4 DEF PageStep, FinalizeInactive, RestoreSnapshot, SetMessagePage, ReconFails,
         BeginSnapshot, NoSnapshot, Finish
    <3> QED
      BY <2>3, <3>1
  <2>5. ASSUME ClientReconnects PROVE FALSE
    <3>1. fetched' = fetched /\ (recon' = recon \/ recon' = [recon EXCEPT ![faults] = "asked"])
      BY <2>5 DEF ClientReconnects
    <3> QED
      BY <1>5, <2>1, <3>1
  <2>6. ASSUME NEW q \in Reconciliations, ServerAnswers(q), q # r PROVE FALSE
    <3>1. /\ \E to : Goes(q, to)
          /\ fetched' = fetched \/ \E f : Fetches(q, f)
      BY <2>6 DEF ServerAnswers
    <3>2. recon'[r] = recon[r] /\ fetched'[r] = fetched[r]
      BY <2>1, <2>6, <3>1 DEF Goes, Fetches
    <3> QED
      BY <1>5, <3>2
  <2>7. ASSUME AgentStep \/ SendStep \/ Disconnect \/ HubFaults \/ UNCHANGED feedVars PROVE FALSE
    <3>1. ASSUME Disconnect \/ HubFaults \/ UNCHANGED feedVars PROVE UNCHANGED reconVars
      BY <3>1 DEF Disconnect, HubFaults, feedVars
    <3> QED
      BY <2>2, <2>7, <3>1, AgentLeaves, SendLeaves
  <2>8. ASSUME ViewStep PROVE FALSE
    BY <2>2, <2>4, <2>8, ViewLeaves
  <2> QED
    BY <2>4, <2>5, <2>6, <2>7, <2>8, FeedSteps DEF OtherStep
<1>6. CASE ServerAnswers(r)
  <2>0. recon \in [Reconciliations -> FeedStages] /\ fetched \in [Reconciliations -> Seq(Items)]
    BY DEF FeedTyped, ReconTyped
  <2>1. UNCHANGED <<db, clock>>
    BY <1>6 DEF ServerAnswers, ReconStep, turnVars
  <2>2. \/ \E to \in {"active", "inactive", "paged", "repaged"} : Goes(r, to)
        \/ \E n \in 0 .. Len(said) : Fetches(r, SubSeq(said, 1, n))
    BY <1>6 DEF ServerAnswers
  <2>3. ASSUME NEW to \in {"active", "inactive", "paged", "repaged"}, Goes(r, to) PROVE FALSE
    BY <2>0, <2>3 DEF Goes
  <2>4. PICK n \in 0 .. Len(said) : Fetches(r, SubSeq(said, 1, n))
    BY <2>2, <2>3
  <2>5. fetched'[r] = SubSeq(said, 1, n)
    BY <2>0, <2>4 DEF Fetches
  <2> DEFINE k == Len(Texts(db))
             m == Len(said)
             f == fetched'[r]
  <2>6. /\ StoredText = Texts(db) \o said /\ StoredText = Count(clock)
        /\ Texts(db) \in Seq(Chunks) /\ k \in Nat /\ m \in Nat /\ n \in 0 .. m
    BY <1>1, <2>4, StoredTyped DEF StoredText, Told
  <2>7. Len(StoredText) = k + m /\ \A i \in 1 .. m : StoredText[k + i] = said[i]
    <3>1. /\ Len(Texts(db) \o said) = k + m
          /\ \A i \in 1 .. k + m :
               (Texts(db) \o said)[i] = IF i <= k THEN Texts(db)[i] ELSE said[i - k]
      BY <1>1, <2>6, ConcatProperties
    <3> HIDE DEF k, m
    <3>2. \A i \in 1 .. m : k + i \in 1 .. k + m /\ ~(k + i <= k) /\ (k + i) - k = i
      BY <2>6
    <3> QED
      BY <2>6, <3>1, <3>2
  <2>8. Len(Count(clock)) = clock /\ \A i \in 1 .. clock : Count(clock)[i] = i
    BY <1>1 DEF Count
  <2>9. f \in Seq(Chunks) /\ Len(f) = n /\ \A i \in 1 .. n : f[i] = said[i]
    <3>1. 1 \in 1 .. Len(said) + 1 /\ 1 <= n + 1 /\ n - 1 + 1 = n
      BY <2>4, <2>6
    <3>2. /\ SubSeq(said, 1, n) \in Seq(Chunks) /\ Len(SubSeq(said, 1, n)) = n
          /\ \A i \in 1 .. n : SubSeq(said, 1, n)[i] = said[1 + i - 1]
      BY <1>1, <2>4, <3>1, Pieces
    <3>3. \A i \in 1 .. n : 1 + i - 1 = i
      BY <2>4
    <3> QED
      BY <2>5, <3>2, <3>3
  <2>10. k = Len(Texts(db'))
    BY <2>1
  <2> HIDE DEF k, m, f
  <2>11. k + m = clock /\ \A i \in 1 .. m : said[i] = k + i
    <3>1. k + m = clock
      BY <2>6, <2>7, <2>8
    <3>2. \A i \in 1 .. m : k + i \in 1 .. clock
      BY <2>6, <3>1
    <3> QED
      BY <2>6, <2>7, <2>8, <3>1, <3>2
  <2>12. f = [i \in 1 .. n |-> k + i]
    <3>1. \A i \in 1 .. n : f[i] = k + i
      BY <2>6, <2>9, <2>11
    <3> QED
      BY <2>6, <2>9, <3>1
  <2>13. k \in 0 .. k /\ n \in 0 .. clock - k
    BY <1>1, <2>6, <2>11
  <2> QED
    BY <2>1, <2>10, <2>12, <2>13 DEF f
<1> QED
  BY <1>4, <1>5, <1>6

LEMMA ToldIs ==
  ASSUME TurnTyped, Told
  PROVE  \E k \in 0 .. clock :
            /\ k = Len(Texts(db)) /\ Rising(Texts(db))
            /\ ToSet(Texts(db)) = 1 .. k /\ ToSet(said) = k + 1 .. clock
<1> DEFINE d == Texts(db)
           k == Len(d)
           m == Len(said)
<1>1. /\ d \in Seq(Chunks) /\ said \in Seq(Chunks) /\ clock \in Nat /\ k \in Nat /\ m \in Nat
      /\ DOMAIN d = 1 .. k /\ DOMAIN said = 1 .. m
  <2>1. d \in Seq(Chunks) /\ said \in Seq(Chunks) /\ clock \in 0 .. MaxText
    BY StoredTyped DEF TurnTyped
  <2>2. clock \in Nat
    BY <2>1, FeedNumbers
  <2> HIDE DEF d
  <2>3. k \in Nat /\ m \in Nat /\ DOMAIN d = 1 .. k /\ DOMAIN said = 1 .. m
    BY <2>1
  <2> QED
    BY <2>1, <2>2, <2>3
<1>2. /\ d \o said = Count(clock) /\ Len(d \o said) = k + m
      /\ \A i \in 1 .. k + m : (d \o said)[i] = IF i <= k THEN d[i] ELSE said[i - k]
  <2>1. d \o said = Count(clock)
    BY DEF Told, StoredText
  <2>2. /\ Len(d \o said) = Len(d) + Len(said)
        /\ \A i \in 1 .. Len(d) + Len(said) :
              (d \o said)[i] = IF i <= Len(d) THEN d[i] ELSE said[i - Len(d)]
    <3> HIDE DEF d
    <3> QED
      BY <1>1, ConcatProperties
  <2> QED
    BY <2>1, <2>2
<1>3. Len(Count(clock)) = clock /\ \A i \in 1 .. clock : Count(clock)[i] = i
  BY <1>1 DEF Count
<1> HIDE DEF d, k, m
<1>4. k + m = clock /\ (\A i \in 1 .. k : d[i] = i) /\ \A i \in 1 .. m : said[i] = k + i
  <2>1. k + m = clock
    BY <1>2, <1>3
  <2>2. \A i \in 1 .. k : i \in 1 .. k + m /\ i <= k
    BY <1>1
  <2>3. \A i \in 1 .. m : k + i \in 1 .. k + m /\ ~(k + i <= k) /\ (k + i) - k = i
    BY <1>1
  <2>4. \A i \in 1 .. k + m : (IF i <= k THEN d[i] ELSE said[i - k]) = i
    BY <1>2, <1>3, <2>1
  <2>5. \A i \in 1 .. k : d[i] = i
    BY <2>2, <2>4
  <2>6. \A i \in 1 .. m : said[i] = k + i
    BY <2>3, <2>4
  <2> QED
    BY <2>1, <2>5, <2>6
<1>5. ToSet(d) = 1 .. k
  BY <1>1, <1>4 DEF ToSet
<1>6. ToSet(said) = k + 1 .. clock
  <2>1. \A x \in k + 1 .. clock : x - k \in 1 .. m /\ x = k + (x - k)
    BY <1>1, <1>4
  <2>2. \A i \in 1 .. m : k + i \in k + 1 .. clock
    BY <1>1, <1>4
  <2>3. ToSet(said) = {said[i] : i \in 1 .. m}
    BY <1>1 DEF ToSet
  <2>4. \A x \in k + 1 .. clock : said[x - k] = x
    BY <1>4, <2>1
  <2>5. k + 1 .. clock \subseteq ToSet(said)
    BY <2>1, <2>3, <2>4
  <2>6. ToSet(said) \subseteq k + 1 .. clock
    BY <1>4, <2>2, <2>3
  <2> QED
    BY <2>5, <2>6
<1>7. Rising(d)
  BY <1>1, <1>4 DEF Rising
<1>8. k \in 0 .. clock /\ k = Len(d)
  BY <1>1, <1>4 DEF k
<1> QED
  BY <1>5, <1>6, <1>7, <1>8 DEF d

OrderCauses == {"hub", "overlap", "late", "idle", "paged", "missed"}
Ordered == Free(OrderCauses) => InStep(Shown, wire, clock)

\* A page in the place of the list: all of it was said before what is streaming.
LEMMA PageInStep ==
  ASSUME FeedTyped, Told, NEW r \in Reconciliations, SetMessagePage(r), InStep(Shown, wire, clock), Free(OrderCauses)'
  PROVE  InStep(Shown', wire, clock)
<1> DEFINE d == Texts(db)
           e == Streamed
<1>1. /\ ViewTyped /\ ReconTyped /\ TurnTyped /\ wire \in Seq(Event)
      /\ text \in Seq(Chunks) /\ buffer \in Seq(Chunks) /\ e \in Seq(Chunks) /\ d \in Seq(Chunks)
      /\ Texts(messages) \in Seq(Chunks) /\ db \in Seq(Items)
  BY ShownTyped, StoredTyped DEF FeedTyped, ViewTyped, HubTyped, TurnTyped
<1>2. fetched[r] = db /\ ToSet(db) \cap (ToSet(text) \cup Coming) = {}
  <2>1. mishaps' = mishaps \cup
            ((IF fetched[r] # db \/ deferred # <<>> \/ post # "none" \/ queuedMessages # <<>> THEN {"paged"} ELSE {})
             \cup (IF recon[r] = "repaged" /\ turn = 0 THEN {"idle"} ELSE {})
             \cup (IF ToSet(fetched[r]) \cap (ToSet(text) \cup Coming) # {} THEN {"overlap"} ELSE {}))
    BY DEF SetMessagePage, Note
  <2>2. "paged" \notin mishaps' /\ "overlap" \notin mishaps'
    BY DEF Free, OrderCauses
  <2>3. fetched[r] = db
    BY <2>1, <2>2
  <2>4. ToSet(fetched[r]) \cap (ToSet(text) \cup Coming) = {}
    BY <2>1, <2>2
  <2> QED
    BY <2>3, <2>4
<1>3. PICK k \in 0 .. clock : k = Len(d) /\ Rising(d) /\ ToSet(d) = 1 .. k
  BY <1>1, ToldIs
<1>4. clock \in Nat /\ k \in Nat /\ Chunks \subseteq Nat \ {0}
  BY <1>1, FeedNumbers DEF TurnTyped, Chunks
<1>5. ToSet(d) = ToSet(db) \cap Chunks
  BY <1>1, TextsAndUsers
<1>6. /\ \A y \in ToSet(e) : y \in Chunks /\ y \notin ToSet(db)
      /\ \A i \in Streams(wire) : wire[i].chunk \in Chunks /\ wire[i].chunk \notin ToSet(db)
  <2>1. ToSet(e) = ToSet(text) \cup ToSet(buffer)
    BY <1>1, JoinSet DEF Streamed
  <2>2. ToSet(buffer) \subseteq Coming
    BY DEF Coming
  <2>3. \A i \in Streams(wire) : wire[i].chunk \in Coming
    BY DEF Coming, Streams
  <2>4. \A i \in Streams(wire) : wire[i].chunk \in Chunks
    <3>1. \A i \in DOMAIN wire : wire[i] \in Event
      BY <1>1
    <3> QED
      BY <3>1, Events DEF Streams
  <2>5. ToSet(e) \subseteq Chunks
    BY <1>1, SetOfList
  <2> QED
    BY <1>2, <2>1, <2>2, <2>3, <2>4, <2>5
<1>7. InStep(e, wire, clock)
  BY <1>1, ShownTyped, InStepParts
<1> HIDE DEF d, e
<1>8. \A y \in Chunks : y \notin ToSet(db) => y > k
  <2>1. \A y \in Chunks : y \notin ToSet(db) => y \notin 1 .. k
    BY <1>3, <1>5
  <2> QED
    BY <1>4, <2>1
<1>9. InStep(d, wire, clock)
  <2>1. \A x \in ToSet(d) : x <= clock /\ x <= k /\ x \in Nat
    BY <1>3, <1>4
  <2>2. \A i \in Streams(wire) : wire[i].chunk \in Nat /\ wire[i].chunk > k
    BY <1>4, <1>6, <1>8
  <2>3. \A i \in Streams(wire) : \A x \in ToSet(d) : x < wire[i].chunk
    BY <1>4, <2>1, <2>2
  <2> QED
    BY <1>3, <1>7, <2>1, <2>3 DEF InStep, Follows
<1>10. \A x \in ToSet(d), y \in ToSet(e) : x < y
  <2>1. \A x \in ToSet(d) : x <= k /\ x \in Nat
    BY <1>3, <1>4
  <2>2. \A y \in ToSet(e) : y > k /\ y \in Nat
    BY <1>4, <1>6, <1>8
  <2> QED
    BY <1>4, <2>1, <2>2
<1>11. InStep(d \o e, wire, clock)
  BY <1>1, <1>7, <1>9, <1>10, InStepJoin
<1>12. Shown' = d \o e
  <2>1. Shown' = (d \o text) \o buffer
    BY <1>1, <1>2, SetPageShows DEF d
  <2>2. \A a, b, c \in Seq(Chunks) : (a \o b) \o c = a \o (b \o c)
    BY JoinThree
  <2>3. d \in Seq(Chunks)
    BY <1>1 DEF d
  <2>4. (d \o text) \o buffer = d \o (text \o buffer)
    BY <1>1, <2>2, <2>3
  <2> QED
    BY <2>1, <2>4, Zenon DEF e, Streamed
<1> QED
  BY <1>11, <1>12

\* A snapshot that is restored goes on where the finished messages end.
LEMMA SnapshotInStep ==
  ASSUME FeedTyped, Told, Restored, NEW r \in Reconciliations, RestoreSnapshot(r),
         InStep(Shown, wire, clock), Free(OrderCauses)'
  PROVE  InStep(Shown', wire, clock)
<1> DEFINE t == Texts(messages)
           f == fetched[r]
<1>1. /\ ViewTyped /\ ReconTyped /\ TurnTyped /\ wire \in Seq(Event) /\ db \in Seq(Items)
      /\ t \in Seq(Chunks) /\ f \in Seq(Chunks) /\ said \in Seq(Chunks)
      /\ text \in Seq(Chunks) /\ buffer \in Seq(Chunks) /\ Streamed \in Seq(Chunks)
      /\ recon[r] = "snapped" /\ f # <<>> /\ messages \in Seq(Items)
  BY ShownTyped, StoredTyped, RestoreShows
     DEF FeedTyped, ViewTyped, HubTyped, TurnTyped, RestoreSnapshot
<1>2. /\ ToSet(db) \subseteq ToSet(messages) /\ buffer = <<>>
      /\ ToSet(f \o said) \cap ToSet(messages) = {} /\ ToSet(f) \cap Coming = {}
  <2>1. mishaps' = mishaps \cup
            ((IF said = <<>> \/ turn = 0 THEN {"late"} ELSE {}) \cup
             (IF ToSet(db) \subseteq ToSet(messages) THEN {} ELSE {"missed"}) \cup
             (IF ToSet(text) \subseteq ToSet(fetched[r]) THEN {} ELSE {"gap"}) \cup
             (IF \/ ToSet(fetched[r] \o said) \cap ToSet(messages) # {}
                 \/ ToSet(fetched[r]) \cap Coming # {} \/ buffer # <<>>
              THEN {"overlap"} ELSE {}))
    BY DEF RestoreSnapshot, Note
  <2>2. "missed" \notin mishaps' /\ "overlap" \notin mishaps'
    BY DEF Free, OrderCauses
  <2>3. ToSet(db) \subseteq ToSet(messages)
    BY <2>1, <2>2
  <2>4. ~(\/ ToSet(fetched[r] \o said) \cap ToSet(messages) # {}
          \/ ToSet(fetched[r]) \cap Coming # {} \/ buffer # <<>>)
    BY <2>1, <2>2, Zenon
  <2> QED
    BY <2>3, <2>4
<1>3. PICK k \in 0 .. clock : k = Len(Texts(db)) /\ ToSet(Texts(db)) = 1 .. k
           /\ ToSet(said) = k + 1 .. clock
  BY <1>1, ToldIs
<1>4. clock \in Nat /\ k \in Nat /\ Chunks \subseteq Nat \ {0}
  BY <1>1, FeedNumbers DEF TurnTyped, Chunks
<1>5. PICK p \in 0 .. k : \E n \in 0 .. clock - p : f = [i \in 1 .. n |-> p + i]
  BY <1>1, <1>3 DEF Restored
<1>6. PICK n \in 0 .. clock - p : f = [i \in 1 .. n |-> p + i]
  BY <1>5
<1>7. /\ n \in Nat /\ n # 0 /\ p \in Nat /\ p + n <= clock /\ ToSet(f) = p + 1 .. p + n
      /\ Rising(f)
  <2>1. n \in Nat /\ p \in Nat /\ p + n <= clock
    BY <1>4, <1>6
  <2>2. n # 0
    BY <1>1, <1>6, <2>1
  <2>3. DOMAIN f = 1 .. n /\ \A i \in 1 .. n : f[i] = p + i
    BY <1>6
  <2>4. \A x \in p + 1 .. p + n : x - p \in 1 .. n /\ p + (x - p) = x
    BY <2>1
  <2>5. \A i \in 1 .. n : p + i \in p + 1 .. p + n
    BY <2>1
  <2>6. ToSet(f) = {f[i] : i \in 1 .. n}
    BY <2>3 DEF ToSet
  <2>7. ToSet(f) = p + 1 .. p + n
    <3>1. \A x \in p + 1 .. p + n : f[x - p] = x
      BY <2>3, <2>4
    <3>2. p + 1 .. p + n \subseteq ToSet(f)
      BY <2>4, <2>6, <3>1
    <3>3. ToSet(f) \subseteq p + 1 .. p + n
      BY <2>3, <2>5, <2>6
    <3> QED
      BY <3>2, <3>3
  <2>8. \A i, j \in 1 .. n : i < j => p + i < p + j
    BY <2>1
  <2>9. Rising(f)
    BY <2>3, <2>8 DEF Rising
  <2> QED
    BY <2>1, <2>2, <2>7, <2>9
<1>8. ToSet(t) = ToSet(messages) \cap Chunks /\ ToSet(Texts(db)) \subseteq ToSet(t)
  BY <1>1, <1>2, TextsAndUsers
<1>9. ToSet(f \o said) = ToSet(f) \cup ToSet(said)
  BY <1>1, JoinSet
<1>10. p = k
  <2> SUFFICES ASSUME p < k PROVE FALSE
    BY <1>4
  <2>1. p + 1 \in 1 .. k /\ p + 1 \in p + 1 .. p + n
    BY <1>4, <1>7
  <2>2. p + 1 \in ToSet(t) /\ p + 1 \in ToSet(f)
    BY <1>3, <1>7, <1>8, <2>1
  <2> QED
    BY <1>2, <1>8, <1>9, <2>2
<1>11. InStep(t, wire, clock)
  BY <1>1, ShownTyped, InStepParts
<1> HIDE DEF t, f
<1>12. \A x \in ToSet(t) : x \in Nat /\ x <= k
  <2>1. \A x \in ToSet(t) : x \in Nat /\ x <= clock /\ x \notin k + 1 .. clock
    BY <1>2, <1>3, <1>4, <1>8, <1>9, <1>11 DEF InStep
  <2> QED
    BY <1>4, <2>1
<1>13. \A x \in ToSet(f) : x \in Nat /\ x > k /\ x <= clock /\ x <= k + n
  BY <1>4, <1>7, <1>10
<1>14. ASSUME NEW i \in Streams(wire) PROVE wire[i].chunk \in Nat /\ wire[i].chunk > k + n
  <2> DEFINE c == wire[i].chunk
  <2>1. c \in Chunks /\ c \notin ToSet(f)
    <3>1. wire[i] \in Event /\ wire[i].type = "assistant_text"
      BY <1>1 DEF Streams
    <3>2. c \in Coming
      BY DEF Coming, Streams
    <3> QED
      BY <1>2, <3>1, <3>2, Events
  <2>2. c > k
    <3>1. CASE k = 0
      <4>1. c \in Nat \ {0}
        BY <1>4, <2>1
      <4> HIDE DEF c
      <4> QED
        BY <3>1, <4>1
    <3>2. CASE k # 0
      <4>1. k \in ToSet(t)
        BY <1>3, <1>4, <1>8, <3>2
      <4>2. k < c
        BY <1>11, <4>1 DEF InStep, Follows
      <4>3. c \in Nat
        BY <1>4, <2>1
      <4> QED
        BY <1>4, <4>2, <4>3
    <3> QED
      BY <3>1, <3>2
  <2> HIDE DEF c
  <2>3. c \in Nat /\ c \notin k + 1 .. k + n
    BY <1>4, <1>7, <1>10, <2>1
  <2>4. c > k + n
    BY <1>4, <1>7, <2>2, <2>3
  <2> QED
    BY <2>3, <2>4 DEF c
<1>15. InStep(f, wire, clock)
  <2>1. \A i \in Streams(wire) : \A x \in ToSet(f) : x < wire[i].chunk
    BY <1>4, <1>7, <1>13, <1>14
  <2> QED
    BY <1>7, <1>11, <1>13, <2>1 DEF InStep, Follows
<1>16. \A x \in ToSet(t), y \in ToSet(f) : x < y
  BY <1>4, <1>12, <1>13
<1>17. InStep(t \o f, wire, clock)
  BY <1>1, <1>11, <1>15, <1>16, InStepJoin
<1>18. Shown' = t \o f
  <2>1. Shown' = (t \o f) \o <<>>
    BY <1>1, <1>2, RestoreShows DEF t, f
  <2>2. t \o f \in Seq(Chunks)
    BY <1>1, JoinSet
  <2> QED
    BY <2>1, <2>2, ConcatEmptySeq
<1> QED
  BY <1>17, <1>18

\* The agent's events come behind the ones under way.
LEMMA AgentInStep ==
  ASSUME FeedTyped, AgentStep, InStep(Shown, wire, clock)
  PROVE  InStep(Shown, wire', clock')
<1>1. Shown \in Seq(Chunks) /\ wire \in Seq(Event) /\ clock \in 0 .. MaxText /\ clock \in Nat
  BY ShownTyped, FeedNumbers DEF FeedTyped, HubTyped, TurnTyped
<1>2. ASSUME NEW e \in Seq(Quiet), Emit(e), clock' = clock PROVE InStep(Shown, wire', clock')
  <2>1. wire' = wire \o e \/ wire' = wire
    BY <1>2 DEF Emit
  <2>2. InStep(Shown, wire \o e, clock)
    BY <1>1, InStepQuiet
  <2> QED
    BY <1>2, <2>1, <2>2
<1>3. /\ Of("init") \in Quiet /\ Of("question_over") \in Quiet /\ Of("result") \in Quiet
      /\ Of("turn_complete") \in Quiet /\ Of("complete") \in Quiet /\ Of("error") \in Quiet
      /\ Of("idle") \in Quiet /\ \A k \in Kinds : [type |-> "ask", kind |-> k] \in Quiet
      /\ <<>> \in Seq(Quiet)
  BY Events
<1>4. CASE Accept \/ PromptExpires
  <2>1. PICK e \in {<<>>, <<Of("question_over")>>} : Emit(e)
    <3> DEFINE o == <<Of("question_over")>>
               a == IF running \/ submitted = 1 THEN <<>> ELSE o
               b == IF asking = "question" THEN o ELSE <<>>
    <3>1. Emit(a) \/ Emit(b)
      BY <1>4 DEF Accept, PromptExpires
    <3>2. a \in {<<>>, o} /\ b \in {<<>>, o}
      OBVIOUS
    <3> HIDE DEF a, b
    <3> QED
      BY <3>1, <3>2 DEF Emit
  <2>2. e \in Seq(Quiet)
    <3>1. <<Of("question_over")>> \in Seq(Quiet)
      BY <1>3
    <3> QED
      BY <1>3, <2>1, <3>1
  <2>3. clock' = clock
    BY <1>4 DEF Accept, PromptExpires
  <2> QED
    BY <1>2, <2>1, <2>2, <2>3
<1>5. CASE BeginTurn
  <2>1. <<Of("init")>> \in Seq(Quiet)
    BY <1>3
  <2>2. clock' = clock /\ Emit(<<Of("init")>>)
    BY <1>5 DEF BeginTurn
  <2> QED
    BY <1>2, <2>1, <2>2
<1>9. ASSUME NEW kind \in Kinds, RequestApproval(kind) PROVE InStep(Shown, wire', clock')
  <2>1. <<[type |-> "ask", kind |-> kind]>> \in Seq(Quiet)
    BY <1>3
  <2>2. clock' = clock /\ Emit(<<[type |-> "ask", kind |-> kind]>>)
    BY <1>9 DEF RequestApproval
  <2> QED
    BY <1>2, <2>1, <2>2
<1>6. CASE Speak
  <2>1. clock' = clock + 1 /\ Emit(<<[type |-> "assistant_text", chunk |-> clock + 1]>>)
    BY <1>6 DEF Speak
  <2>2. clock + 1 \in Chunks
    BY <1>1, <1>6, FeedNumbers DEF Speak, Chunks
  <2>3. \/ wire' = wire \o <<[type |-> "assistant_text", chunk |-> clock + 1]>>
        \/ wire' = wire
    BY <2>1 DEF Emit
  <2>4. /\ InStep(Shown, wire \o <<[type |-> "assistant_text", chunk |-> clock + 1]>>, clock + 1)
        /\ InStep(Shown, wire, clock + 1)
    BY <1>1, <2>2, InStepSpeech
  <2> QED
    BY <2>1, <2>3, <2>4
<1>7. CASE EndTurn
  <2>1. <<Of("result"), Of("turn_complete")>> \in Seq(Quiet)
    BY <1>3
  <2>2. clock' = clock /\ Emit(<<Of("result"), Of("turn_complete")>>)
    BY <1>7 DEF EndTurn, StoreTurn
  <2> QED
    BY <1>2, <2>1, <2>2
<1>8. ASSUME NEW last \in Final, EndProcess(last) PROVE InStep(Shown, wire', clock')
  <2>1. last \in Seq(Quiet)
    <3>1. <<>> \in Seq(Quiet) /\ <<Of("complete")>> \in Seq(Quiet) /\ <<Of("error")>> \in Seq(Quiet)
      BY <1>3
    <3> QED
      BY <3>1 DEF Final
  <2>2. Append(last, Of("idle")) \in Seq(Quiet)
    BY <1>3, <2>1
  <2>3. clock' = clock /\ Emit(Append(last, Of("idle")))
    BY <1>8 DEF EndProcess, StoreTurn
  <2> QED
    BY <1>2, <2>2, <2>3
<1> QED
  BY <1>4, <1>5, <1>6, <1>7, <1>8, <1>9 DEF AgentStep

LEMMA OthersInStep ==
  ASSUME OtherStep, InStep(Shown, wire, clock), "hub" \notin mishaps'
  PROVE  InStep(Shown, wire', clock')
<1>1. CASE SendStep
  BY <1>1, SendLeaves DEF talkVars
<1>2. CASE Disconnect
  <2>1. wire' = <<>> /\ clock' = clock
    BY <1>2 DEF Disconnect, turnVars
  <2> QED
    BY <2>1, InStepNothing
<1>3. CASE HubFaults
  BY <1>3 DEF HubFaults, Note
<1>4. CASE ClientReconnects
  BY <1>4 DEF ClientReconnects, turnVars
<1>5. ASSUME NEW r, ServerAnswers(r) \/ BeginSnapshot(r) \/ NoSnapshot(r) PROVE InStep(Shown, wire', clock')
  BY <1>5 DEF ServerAnswers, BeginSnapshot, NoSnapshot, ReconStep, hubVars, turnVars
<1>6. ASSUME NEW r, ReconFails(r) PROVE InStep(Shown, wire', clock')
  BY <1>6 DEF ReconFails, turnVars
<1> QED
  BY <1>1, <1>2, <1>3, <1>4, <1>5, <1>6 DEF OtherStep

\* What is done to the view alone.
LEMMA ViewInStep ==
  ASSUME FeedTyped, Told, Restored, ViewStep, InStep(Shown, wire, clock), Free(OrderCauses)'
  PROVE  InStep(Shown', wire', clock')
<1>1. /\ ViewTyped /\ HubTyped /\ SendTyped /\ Shown \in Seq(Chunks) /\ wire \in Seq(Event)
      /\ clock \in Nat /\ Texts(messages) \in Seq(Chunks) /\ Streamed \in Seq(Chunks)
      /\ Shown = Texts(messages) \o Streamed
  <2>1. ViewTyped /\ HubTyped /\ SendTyped /\ wire \in Seq(Event) /\ clock \in 0 .. MaxText
    BY DEF FeedTyped, HubTyped, TurnTyped
  <2>2. clock \in Nat
    BY <2>1, FeedNumbers
  <2> QED
    BY <2>1, <2>2, ShownTyped
<1>2. clock' = clock
  BY ViewLeaves DEF turnVars
<1>3. InStep(Texts(messages), wire, clock)
  BY <1>1, InStepParts
<1>4. CASE ReceiveText
  <2>1. wire # <<>> /\ wire' = Tail(wire)
    BY <1>4, Received DEF ReceiveSome
  <2>2. /\ Head(wire).type = "assistant_text"
        /\ Shown' = Shown \/ Shown' = Append(Shown, Head(wire).chunk)
    BY <1>1, <1>4, ReceiveTextShows
  <2>3. InStep(Shown, Tail(wire), clock)
        /\ InStep(Append(Shown, Head(wire).chunk), Tail(wire), clock)
    BY <1>1, <2>1, <2>2, InStepTail, InStepReceived
  <2> QED
    BY <1>2, <2>1, <2>2, <2>3
<1>5. CASE ReceiveSome /\ ~ReceiveText
  <2>1. wire # <<>> /\ wire' = Tail(wire)
    BY <1>5, Received
  <2>2. Shown' = Shown \/ Shown' = Texts(messages)
    BY <1>1, <1>5, ReceiveKeeps DEF ViewKept
  <2>3. InStep(Shown, Tail(wire), clock) /\ InStep(Texts(messages), Tail(wire), clock)
    BY <1>1, <1>3, <2>1, InStepTail
  <2> QED
    BY <1>2, <2>1, <2>2, <2>3
<1>7. CASE FlushFrame \/ AddMessageOrQueue \/ PostReturns \/ PostFails \/ Stop \/ RemoveQueuedMessage
           \/ \E r \in Reconciliations : FinalizeInactive(r)
  <2>1. Shown' = Shown \/ Shown' = Texts(messages)
    <3>1. CASE FlushFrame \/ PostFails \/ Stop \/ \E r \in Reconciliations : FinalizeInactive(r)
      BY <1>1, <3>1, OtherViewKeeps DEF ViewKept
    <3>2. CASE AddMessageOrQueue \/ PostReturns \/ RemoveQueuedMessage
      BY <1>1, <3>2, AddShows, PostReturnsShows, RemoveShows
    <3> QED
      BY <1>7, <3>1, <3>2
  <2>2. wire' = wire
    BY <1>7 DEF FlushFrame, AddMessageOrQueue, PostReturns, PostFails, Stop, RemoveQueuedMessage,
       FinalizeInactive, ReconStep, hubVars
  <2> QED
    BY <1>2, <1>3, <2>1, <2>2
<1>8. ASSUME NEW r \in Reconciliations, RestoreSnapshot(r) PROVE InStep(Shown', wire', clock')
  <2>1. wire' = wire
    BY <1>8 DEF RestoreSnapshot, ReconStep, hubVars
  <2> QED
    BY <1>2, <1>8, <2>1, SnapshotInStep
<1>9. ASSUME NEW r \in Reconciliations, SetMessagePage(r) PROVE InStep(Shown', wire', clock')
  <2>1. wire' = wire
    BY <1>9 DEF SetMessagePage, ReconStep, hubVars
  <2> QED
    BY <1>2, <1>9, <2>1, PageInStep
<1> QED
  BY <1>4, <1>5, <1>7, <1>8, <1>9 DEF ViewStep, PageStep

LEMMA OrderedStep ==
  ASSUME FeedTyped, Told, Restored, Ordered, [FeedNext]_feedVars
  PROVE  Ordered'
<1>1. mishaps \subseteq mishaps'
  <2>1. ASSUME UNCHANGED feedVars PROVE mishaps' = mishaps
    BY <2>1 DEF feedVars
  <2> QED
    BY <2>1, FeedSteps, AgentLeaves, OthersLeave, ViewLeaves
<1> SUFFICES ASSUME Free(OrderCauses)' PROVE InStep(Shown', wire', clock')
  BY DEF Ordered
<1>2. InStep(Shown, wire, clock) /\ "hub" \notin mishaps'
  BY <1>1 DEF Ordered, Free, OrderCauses
<1>3. ASSUME UNCHANGED viewVars PROVE Shown' = Shown
  BY <1>3 DEF Shown, viewVars
<1>4. CASE AgentStep
  BY <1>2, <1>3, <1>4, AgentInStep, AgentLeaves
<1>5. CASE OtherStep
  BY <1>2, <1>3, <1>5, OthersInStep, OthersLeave
<1>6. CASE ViewStep
  BY <1>2, <1>6, ViewInStep
<1>7. CASE UNCHANGED feedVars
  BY <1>2, <1>3, <1>7 DEF feedVars, hubVars, turnVars, viewVars, streamingVars, listVars
<1> QED
  BY <1>4, <1>5, <1>6, <1>7, FeedSteps

(* What the user sent: shown or queued once, in the order of sending.      *)
Sent ==
    Free({"paged", "overtaken"}) =>
        /\ Rising(Line)
        /\ \A x \in ToSet(Line) :
              x <= User(submitted) /\ (post \in Unshown => x < User(submitted))
        /\ submitted = 1 /\ post # "none" => Line = <<>>

LEMMA LineNumbers ==
  ASSUME FeedTyped
  PROVE  /\ Line \in Seq(UserMessages) /\ Line \in Seq(Nat) /\ submitted \in Nat
         /\ \A n \in Nat : User(n) \in Nat /\ User(n) < User(n + 1)
         /\ \A x \in UserMessages : x \in Nat /\ x > User(0)
<1>1. MaxText \in Nat /\ UserMessages \subseteq Nat /\ submitted \in Nat
  BY FeedNumbers DEF FeedTyped, SendTyped, UserMessages
<1>2. Line \in Seq(UserMessages)
  BY ShownTyped DEF FeedTyped
<1>3. \A x \in UserMessages : x > User(0)
  BY <1>1, FeedNumbers DEF UserMessages, User
<1>4. Line \in Seq(Nat)
  BY <1>1, <1>2, SeqWider
<1>5. \A n \in Nat : User(n) \in Nat /\ User(n) < User(n + 1)
  BY <1>1 DEF User
<1>6. \A x \in UserMessages : x \in Nat
  BY <1>1
<1> QED
  BY <1>1, <1>2, <1>3, <1>4, <1>5, <1>6

\* Taking messages away from the end leaves the order as it is.
LEMMA ShorterLine ==
  ASSUME FeedTyped, FeedTyped', Shortens
  PROVE  /\ Rising(Line) => Rising(Line')
         /\ ToSet(Line') \subseteq ToSet(Line)
         /\ Line = <<>> => Line' = <<>>
<1>1. PICK r \in Seq(UserMessages) : Line = Line' \o r
  BY DEF Shortens
<1>2. /\ Line' \in Seq(UserMessages) /\ Line \in Seq(UserMessages)
      /\ Line' \in Seq(Nat) /\ r \in Seq(Nat)
  <2>1. messages' \in Seq(Items) /\ queuedMessages' \in Seq(UserMessages)
    BY DEF FeedTyped, ViewTyped
  <2>2. Users(messages') \in Seq(UserMessages)
    BY <2>1, TextsAndUsers
  <2>3. Line' \in Seq(UserMessages)
    BY <2>1, <2>2 DEF Line
  <2> QED
    BY <2>3, LineNumbers, SeqWider, FeedNumbers
<1>3. Rising(Line' \o r) => Rising(Line')
  BY <1>2, RisingConcat
<1>4. ToSet(Line' \o r) = ToSet(Line') \cup ToSet(r)
  BY <1>2, JoinSet
<1>5. ASSUME Line = <<>> PROVE Line' = <<>>
  <2>1. ToSet(Line) = {}
    BY <1>5 DEF ToSet
  <2>2. ToSet(Line') = {}
    BY <1>1, <1>4, <2>1
  <2> QED
    BY <1>2, <2>2, SetOfList
<1> QED
  BY <1>1, <1>3, <1>4, <1>5

LEMMA SentStep ==
  ASSUME FeedTyped, FeedTyped', Told, Sent, [FeedNext]_feedVars
  PROVE  Sent'
<1> DEFINE SentNext ==
             /\ Rising(Line')
             /\ \A x \in ToSet(Line') :
                   x <= User(submitted') /\ (post' \in Unshown => x < User(submitted'))
             /\ submitted' = 1 /\ post' # "none" => Line' = <<>>
<1>1. mishaps \subseteq mishaps'
  <2>1. ASSUME UNCHANGED feedVars PROVE mishaps' = mishaps
    BY <2>1 DEF feedVars
  <2> QED
    BY <2>1, FeedSteps, AgentLeaves, OthersLeave, ViewLeaves
<1> SUFFICES ASSUME Free({"paged", "overtaken"})'
             PROVE  SentNext
  BY DEF Sent, User
<1>2. /\ Rising(Line)
      /\ \A x \in ToSet(Line) :
            x <= User(submitted) /\ (post \in Unshown => x < User(submitted))
      /\ submitted = 1 /\ post # "none" => Line = <<>>
  BY <1>1 DEF Sent, Free
<1>3. /\ Line \in Seq(UserMessages) /\ Line \in Seq(Nat) /\ submitted \in Nat
      /\ \A n \in Nat : User(n) \in Nat /\ User(n) < User(n + 1)
      /\ \A x \in UserMessages : x \in Nat /\ x > User(0)
      /\ ToSet(Line) \subseteq UserMessages
      /\ ViewTyped /\ SendTyped /\ ReconTyped /\ HubTyped /\ TurnTyped
  <2>1. Line \in Seq(UserMessages)
    BY LineNumbers
  <2>2. ToSet(Line) \subseteq UserMessages
    BY <2>1, SetOfList
  <2> QED
    BY <2>2, LineNumbers DEF FeedTyped
<1>4. ASSUME UNCHANGED <<queuedMessages, messages>> PROVE Line' = Line
  BY <1>4 DEF Line
<1>5. ASSUME UNCHANGED <<submitted, post>>, Shortens
      PROVE  SentNext
  BY <1>2, <1>5, ShorterLine
<1>6. CASE AgentStep
  <2>1. Line' = Line /\ submitted' = submitted
    BY <1>4, <1>6, AgentLeaves DEF viewVars
  <2>2. post' = post \/ (post = "sending" /\ post' \in {"none", "accepted"})
    BY <1>6, AgentLeaves DEF Accept
  <2> QED
    BY <1>2, <2>1, <2>2 DEF Unshown
<1>7. CASE OtherStep /\ ~Submit
  <2>1. Line' = Line /\ submitted' = submitted
    <3>1. CASE SendStep
      BY <1>4, <1>7, <3>1, SendLeaves DEF viewVars, SendStep, PlanDenied, LoadFails, Answer, AnswerReturns
    <3>2. CASE ~SendStep
      BY <1>4, <1>7, <3>2, OthersLeave DEF viewVars, sendVars
    <3> QED
      BY <3>1, <3>2
  <2>2. \/ post' = post \/ post' = "none"
        \/ post \in Unshown /\ post' \in Unshown
    <3>1. CASE SendStep
      BY <1>7, <3>1 DEF SendStep, PlanDenied, LoadFails, Answer, AnswerReturns, Unshown
    <3>2. CASE ~SendStep
      BY <1>7, <3>2, OthersLeave DEF sendVars
    <3> QED
      BY <3>1, <3>2
  <2>3. post' \in Unshown => post \in Unshown
    BY <2>2 DEF Unshown
  <2>4. post' # "none" => post # "none"
    BY <2>2 DEF Unshown
  <2> QED
    BY <1>2, <2>1, <2>3, <2>4
<1>8. CASE UNCHANGED feedVars
  <2>1. Line' = Line /\ submitted' = submitted /\ post' = post
    BY <1>4, <1>8 DEF feedVars, sendVars, listVars
  <2> QED
    BY <1>2, <2>1
<1>9. CASE ReceiveSome
  <2>1. UNCHANGED <<submitted, post>>
    BY <1>9, Received DEF sendVars
  <2>2. Shortens
    BY <1>3, <1>9, ReceiveTextShows, ReceiveKeeps DEF ViewKept
  <2> QED
    BY <1>5, <2>1, <2>2
<1>10. CASE FlushFrame \/ Stop \/ \E r \in Reconciliations : FinalizeInactive(r) \/ RestoreSnapshot(r)
  <2>1. UNCHANGED <<submitted, post>>
    BY <1>10 DEF FlushFrame, Stop, FinalizeInactive, RestoreSnapshot, ReconStep, sendVars
  <2>2. Shortens
    BY <1>3, <1>10, OtherViewKeeps, RestoreShows DEF ViewKept
  <2> QED
    BY <1>5, <2>1, <2>2
<1>11. CASE PostFails
  <2>1. Shortens
    BY <1>3, <1>11, OtherViewKeeps DEF ViewKept
  <2>2. /\ post = "sending" /\ post' = "none"
        /\ submitted' = submitted \/ (submitted = 1 /\ submitted' = 0)
    BY <1>11 DEF PostFails
  <2>3. /\ Rising(Line') /\ ToSet(Line') \subseteq ToSet(Line)
        /\ Line = <<>> => Line' = <<>>
    BY <1>2, <2>1, ShorterLine
  <2>4. CASE submitted' = submitted
    BY <1>2, <2>2, <2>3, <2>4 DEF Unshown
  <2>5. CASE submitted = 1
    <3>1. Line' = <<>> /\ ToSet(<<>>) = {}
      BY <1>2, <2>2, <2>3, <2>5 DEF ToSet
    <3> QED
      BY <2>2, <2>3, <3>1
  <2> QED
    BY <2>2, <2>4, <2>5
<1>12. CASE Submit
  <2>1. submitted' = submitted + 1 /\ Line' = Line
    BY <1>4, <1>12, SendLeaves DEF Submit, SendStep, viewVars
  <2>2. CASE submitted = 0
    <3>1. ToSet(Line) = {}
      BY <1>2, <1>3, <2>2
    <3>2. Line = <<>>
      BY <1>3, <3>1, SetOfList
    <3> QED
      BY <1>2, <2>1, <3>1, <3>2
  <2>3. CASE submitted # 0
    <3>1. submitted' # 1 /\ User(submitted) < User(submitted') /\ User(submitted) \in Nat
          /\ User(submitted') \in Nat
      <4>1. submitted + 1 \in Nat /\ submitted + 1 # 1
        BY <1>3, <2>3
      <4> QED
        BY <1>3, <2>1, <4>1
    <3>2. ASSUME NEW x \in ToSet(Line) PROVE x < User(submitted') /\ x <= User(submitted')
      <4>1. x \in Nat /\ x <= User(submitted)
        BY <1>2, <1>3, <3>2
      <4> QED
        BY <3>1, <4>1
    <3> QED
      BY <1>2, <2>1, <3>1, <3>2
  <2> QED
    BY <2>2, <2>3
<1>16. CASE AddMessageOrQueue
  <2> DEFINE u == User(submitted)
  <2>1. Line' = Append(Line, u) /\ u \in Nat /\ submitted' = submitted /\ submitted # 1
        /\ post' = "sending"
    <3>1. "overtaken" \notin mishaps'
      BY DEF Free
    <3>2. Line' = Append(Line, u)
      BY <1>3, <1>16, <3>1, AddShows
    <3>3. submitted > 1 /\ post' = "sending" /\ submitted' = submitted
      BY <1>3, <1>16 DEF AddMessageOrQueue, SendTyped, Unshown
    <3>4. submitted # 1
      BY <1>3, <3>3
    <3> QED
      BY <1>3, <3>2, <3>3, <3>4
  <2>2. \A x \in ToSet(Line) : x \in Nat /\ x < u
    BY <1>2, <1>3, <1>16 DEF AddMessageOrQueue, Unshown
  <2> HIDE DEF u
  <2>3. Rising(Append(Line, u))
    BY <1>2, <1>3, <2>1, <2>2, RisingAppend
  <2>4. ToSet(Append(Line, u)) = ToSet(Line) \cup {u}
    <3>1. \A l \in Seq(Nat) : \A e \in Nat : Append(l, e) = l \o <<e>> /\ <<e>> \in Seq(Nat)
      OBVIOUS
    <3>2. ToSet(<<u>>) = {u}
      BY <2>1, Members
    <3>3. Append(Line, u) = Line \o <<u>> /\ <<u>> \in Seq(Nat) /\ Line \in Seq(Nat)
      BY <1>3, <2>1, <3>1
    <3>4. ToSet(Line \o <<u>>) = ToSet(Line) \cup ToSet(<<u>>)
      BY <3>3, JoinSet
    <3> QED
      BY <3>2, <3>3, <3>4
  <2>5. \A x \in ToSet(Append(Line, u)) : x <= u
    BY <2>1, <2>2, <2>4
  <2> QED
    BY <2>1, <2>3, <2>5 DEF u, Unshown
<1>13. CASE PostReturns
  <2>1. /\ submitted = 1 /\ post' = "none" /\ submitted' = submitted /\ post = "accepted"
        /\ Users(messages') = Append(Users(messages), User(1)) /\ queuedMessages' = queuedMessages
        /\ Line = <<>>
    BY <1>2, <1>3, <1>13, PostReturnsShows DEF PostReturns
  <2>2. /\ Users(messages) \in Seq(UserMessages) /\ queuedMessages \in Seq(UserMessages)
    BY <1>3, ShownTyped DEF ViewTyped
  <2>3. Users(messages) = <<>> /\ queuedMessages = <<>>
    <3>1. Users(messages) \o queuedMessages = <<>>
      BY <2>1 DEF Line
    <3> QED
      BY <2>2, <3>1
  <2>4. Line' = Users(messages') \o queuedMessages'
    BY DEF Line
  <2>5. Line' = <<User(1)>> /\ User(1) \in Nat
    <3>1. Append(<<>>, User(1)) \o <<>> = <<User(1)>>
      OBVIOUS
    <3> QED
      BY <1>3, <2>1, <2>3, <2>4, <3>1
  <2>6. Rising(<<User(1)>>) /\ ToSet(<<User(1)>>) = {User(1)}
    BY <2>5, RisingShort, Members
  <2> QED
    BY <2>1, <2>5, <2>6 DEF Unshown
<1>14. CASE RemoveQueuedMessage
  <2>1. /\ UNCHANGED <<messages, sendVars>>
        /\ ToSet(queuedMessages') \subseteq ToSet(queuedMessages)
        /\ Rising(queuedMessages) => Rising(queuedMessages')
        /\ queuedMessages' \in Seq(UserMessages)
    BY <1>3, <1>14, RemoveShows DEF ViewTyped
  <2>2. Users(messages) \in Seq(UserMessages) /\ queuedMessages \in Seq(UserMessages)
    BY <1>3, ShownTyped DEF ViewTyped
  <2>3. /\ Users(messages) \in Seq(Nat) /\ queuedMessages \in Seq(Nat)
        /\ queuedMessages' \in Seq(Nat)
    BY <2>1, <2>2, SeqWider, FeedNumbers
  <2>4. Line = Users(messages) \o queuedMessages /\ Line' = Users(messages) \o queuedMessages'
    BY <2>1 DEF Line
  <2>5. /\ ToSet(Line) = ToSet(Users(messages)) \cup ToSet(queuedMessages)
        /\ ToSet(Line') = ToSet(Users(messages)) \cup ToSet(queuedMessages')
    BY <2>1, <2>2, <2>4, JoinSet
  <2>6. Rising(Line')
    BY <1>2, <2>1, <2>3, <2>4, RisingConcat
  <2>7. submitted' = submitted /\ post' = post
    BY <2>1 DEF sendVars
  <2>8. ASSUME Line = <<>> PROVE Line' = <<>>
    <3>0. ToSet(Line) = {}
      BY <2>8 DEF ToSet
    <3>1. ToSet(Line') = {}
      BY <2>1, <2>5, <3>0
    <3>2. Line' \in Seq(UserMessages)
      BY <2>1, <2>2, <2>4
    <3> QED
      BY <3>1, <3>2, SetOfList
  <2> QED
    BY <1>2, <2>1, <2>5, <2>6, <2>7, <2>8
<1>15. ASSUME NEW r \in Reconciliations, SetMessagePage(r) PROVE SentNext
  <2>1. /\ fetched[r] = db /\ deferred = <<>> /\ post = "none" /\ queuedMessages = <<>>
    <3>1. mishaps' = mishaps \cup
              ((IF fetched[r] # db \/ deferred # <<>> \/ post # "none" \/ queuedMessages # <<>>
                THEN {"paged"} ELSE {})
               \cup (IF recon[r] = "repaged" /\ turn = 0 THEN {"idle"} ELSE {})
               \cup (IF ToSet(fetched[r]) \cap (ToSet(text) \cup Coming) # {} THEN {"overlap"} ELSE {}))
      BY <1>15 DEF SetMessagePage, Note
    <3>2. "paged" \notin mishaps'
      BY DEF Free
    <3> QED
      BY <3>1, <3>2
  <2>2. messages' = fetched[r] /\ queuedMessages' = queuedMessages
    BY <1>3, <1>15, SetPageShows
  <2>3. submitted' = submitted /\ post' = post
    BY <1>15 DEF SetMessagePage, ReconStep, sendVars
  <2>4. Line' = StoredLine
    <3>1. Line' = Users(messages') \o queuedMessages'
      BY DEF Line
    <3> QED
      BY <2>1, <2>2, <3>1 DEF StoredLine
  <2>5. Rising(StoredLine) /\ \A x \in ToSet(StoredLine) : x <= User(submitted)
    BY DEF Told
  <2> QED
    BY <2>1, <2>3, <2>4, <2>5 DEF Unshown
<1> QED
  BY <1>6, <1>7, <1>8, <1>9, <1>10, <1>11, <1>12, <1>13, <1>14, <1>15, <1>16, FeedSteps
     DEF ViewStep, PageStep

-----------------------------------------------------------------------------
FeedInv == FeedTyped /\ Told /\ Restored /\ Ordered /\ Sent

LEMMA FeedInvInit == FeedInit => FeedInv
<1> SUFFICES ASSUME FeedInit PROVE FeedInv
  OBVIOUS
<1>1. FeedTyped
  BY FeedTypedInit
<1>2. /\ db = <<>> /\ said = <<>> /\ deferred = <<>> /\ clock = 0 /\ wire = <<>>
      /\ \A r \in Reconciliations : recon[r] = "none"
      /\ messages = <<>> /\ queuedMessages = <<>> /\ text = <<>> /\ buffer = <<>>
      /\ post = "none"
  BY DEF FeedInit
<1>3. Texts(<<>>) = <<>> /\ Users(<<>>) = <<>>
  <2>1. <<>> \in Seq(Items) /\ ToSet(<<>>) = {}
    BY EmptySeq DEF ToSet
  <2> QED
    BY <2>1, OnlyNone DEF Texts, Users
<1>4. <<>> \o <<>> = <<>> /\ ToSet(<<>>) = {} /\ Rising(<<>>)
  BY ConcatEmptySeq, EmptySeq, RisingShort DEF ToSet
<1>5. StoredText = <<>> /\ StoredLine = <<>> /\ Shown = <<>> /\ Line = <<>>
  BY <1>2, <1>3, <1>4 DEF StoredText, StoredLine, Shown, Line
<1>6. Told
  <2>1. Count(0) = <<>>
    BY DEF Count
  <2> QED
    BY <1>2, <1>4, <1>5, <2>1 DEF Told
<1>7. InStep(Shown, wire, clock)
  <2>1. Streams(<<>>) = {}
    BY DEF Streams
  <2> QED
    BY <1>2, <1>4, <1>5, <2>1 DEF InStep, Follows
<1>8. Restored /\ Ordered /\ Sent
  BY <1>2, <1>4, <1>5, <1>7 DEF Restored, Ordered, Sent
<1> QED
  BY <1>1, <1>6, <1>8 DEF FeedInv

LEMMA FeedInvStep == FeedInv /\ [FeedNext]_feedVars => FeedInv'
BY FeedTypedStep, ToldStep, RestoredStep, OrderedStep, SentStep DEF FeedInv

\* The inductive invariant. FeedTyped: which lists are text and which are messages of
\* the user. Told: the table and the text of the turn are all that was said, once and
\* in order, and the stored and deferred messages are in the order of sending. Restored:
\* a snapshot goes on from some place of the stored text. Ordered: what is shown is in
\* order, and the text under way comes after it. Sent: no message is shown while its plan
\* or its attachments are waited for, and the first not before its request has returned.
THEOREM FeedInvariant == FeedSpec => []FeedInv
<1>1. FeedInit => FeedInv
  BY FeedInvInit
<1>2. FeedInv /\ [FeedNext]_feedVars => FeedInv'
  BY FeedInvStep
<1> QED
  BY <1>1, <1>2, PTL DEF FeedSpec

\* The variables of the conversation feed have their types.
THEOREM FeedTypeOKHolds == FeedSpec => []FeedTypeOK
<1>1. FeedInv => FeedTypeOK
  BY FeedTypedTypes DEF FeedInv
<1> QED
  BY <1>1, FeedInvariant, PTL

\* Text that came over the WebSocket, from a snapshot or from a page is on the screen
\* in the order in which it was said, and nothing of it twice, whenever none of the
\* mishaps that can disturb it has happened.
THEOREM ShownInOrderHolds == FeedSpec => []ShownInOrder
<1>1. FeedInv => ShownInOrder
  BY DEF FeedInv, Ordered, OrderCauses, ShownInOrder, Shown, InStep
<1> QED
  BY <1>1, FeedInvariant, PTL

\* A message of the user is shown or queued once, and in the order of sending, as long
\* as no page has replaced messages that were not stored, and none was added to the list
\* while another was queued.
THEOREM SentOnceHolds == FeedSpec => []SentOnce
<1>1. FeedInv => SentOnce
  BY DEF FeedInv, Sent, SentOnce, Line
<1> QED
  BY <1>1, FeedInvariant, PTL

-----------------------------------------------------------------------------
(* Where every chunk and every message is while nothing goes wrong.        *)
\* The text among the events w; text S of a turn comes after what ended or began turns;
\* other text comes before the event that makes a message of it.
Speech(w) == {w[i].chunk : i \in Streams(w)}
Closers == {Of("result"), Of("complete"), Of("error"), Of("idle")}
Closes(w) == \E e \in Closers : e \in ToSet(w)
Neutral == {"ask", "question_over", "assistant_text"}
Opened(w, S) ==
    \A i \in DOMAIN w : w[i].type \notin Neutral =>
        \A x \in S : \E j \in Streams(w) : j > i /\ w[j].chunk = x
Closed(w, S) ==
    \A i \in Streams(w) : w[i].chunk \in S \/ \E j \in DOMAIN w : j > i /\ w[j] \in Closers

LEMMA WireQuiet ==
  ASSUME NEW w \in Seq(Event), NEW e \in Seq(Quiet), NEW S
  PROVE  /\ w \o e \in Seq(Event) /\ Speech(w \o e) = Speech(w)
         /\ ToSet(w \o e) = ToSet(w) \cup ToSet(e)
         /\ Opened(w, S) /\ (S = {} \/ \A k \in DOMAIN e : e[k].type \in Neutral) => Opened(w \o e, S)
         /\ Closed(w, S) => Closed(w \o e, S)
         /\ Closes(e) => Closed(w \o e, {})
<1> DEFINE v == w \o e
           m == Len(w)
           n == Len(e)
<1>1. /\ m \in Nat /\ n \in Nat /\ DOMAIN w = 1 .. m /\ DOMAIN e = 1 .. n /\ DOMAIN v = 1 .. m + n
      /\ \A i \in 1 .. m : v[i] = w[i]
      /\ \A i \in m + 1 .. m + n : i - m \in 1 .. n /\ v[i] = e[i - m]
      /\ \A k \in 1 .. n : m + k \in 1 .. m + n /\ v[m + k] = e[k]
      /\ \A k \in 1 .. n : e[k] \in Quiet
  OBVIOUS
<1>2. v \in Seq(Event) /\ ToSet(v) = ToSet(w) \cup ToSet(e)
  BY Events, SeqWider, JoinSet
<1> HIDE DEF v, m, n
<1>3. \A i \in DOMAIN v : i \in DOMAIN w \/ (i \notin DOMAIN w /\ i - m \in DOMAIN e /\ v[i] = e[i - m])
  BY <1>1
<1>4. /\ DOMAIN w \subseteq DOMAIN v /\ \A i \in DOMAIN w : v[i] = w[i]
      /\ Streams(v) = Streams(w) /\ Speech(v) = Speech(w)
  <2>1. DOMAIN w \subseteq DOMAIN v /\ \A i \in DOMAIN w : v[i] = w[i]
    BY <1>1
  <2>2. Streams(v) = Streams(w)
    BY <1>1, <1>3, <2>1, Events DEF Streams
  <2>3. Speech(v) = Speech(w)
    BY <2>1, <2>2 DEF Speech, Streams
  <2> QED
    BY <2>1, <2>2, <2>3
<1>5. ASSUME Opened(w, S), S = {} \/ \A k \in DOMAIN e : e[k].type \in Neutral PROVE Opened(v, S)
  <2>1. SUFFICES ASSUME NEW i \in DOMAIN v, v[i].type \notin Neutral, NEW x \in S
                 PROVE  \E j \in Streams(v) : j > i /\ v[j].chunk = x
    BY DEF Opened
  <2>2. i \in DOMAIN w /\ w[i] = v[i]
    BY <1>3, <1>4, <1>5, <2>1
  <2>3. \E j \in Streams(w) : j > i /\ w[j].chunk = x
    BY <1>5, <2>1, <2>2 DEF Opened
  <2> QED
    BY <1>4, <2>3 DEF Streams
<1>6. ASSUME Closed(w, S) PROVE Closed(v, S)
  BY <1>4, <1>6 DEF Closed, Streams
<1>7. ASSUME Closes(e) PROVE Closed(v, {})
  <2>1. PICK k \in DOMAIN e : e[k] \in Closers
    BY <1>7 DEF Closes, ToSet
  <2>2. m + k \in DOMAIN v /\ v[m + k] \in Closers /\ \A i \in DOMAIN w : m + k > i
    BY <1>1, <2>1
  <2> QED
    BY <1>4, <2>2 DEF Closed, Streams
<1> QED
  BY <1>2, <1>4, <1>5, <1>6, <1>7 DEF v

LEMMA WireSpeech ==
  ASSUME NEW w \in Seq(Event), NEW c \in Chunks, NEW S
  PROVE  LET v == w \o <<[type |-> "assistant_text", chunk |-> c]>> IN
         /\ v \in Seq(Event) /\ Speech(v) = Speech(w) \cup {c}
         /\ ToSet(w) \subseteq ToSet(v)
         /\ Opened(w, S) => Opened(v, S \cup {c})
         /\ Closed(w, S) => Closed(v, S \cup {c})
<1> DEFINE s == [type |-> "assistant_text", chunk |-> c]
           v == w \o <<s>>
           m == Len(w)
<1>1. s \in Event /\ s.type = "assistant_text" /\ s.chunk = c
  BY Events
<1> HIDE DEF s
<1>2. <<s>> \in Seq(Event)
  BY <1>1, Members
<1>3. /\ m \in Nat /\ DOMAIN w = 1 .. m /\ DOMAIN v = 1 .. m + 1
      /\ \A i \in 1 .. m : v[i] = w[i] /\ i \in 1 .. m + 1
      /\ v[m + 1] = s /\ m + 1 \in 1 .. m + 1
      /\ \A i \in 1 .. m + 1 : i \in 1 .. m \/ i = m + 1
      /\ \A i \in 1 .. m : m + 1 > i
  BY <1>1
<1>4. v \in Seq(Event) /\ ToSet(w) \subseteq ToSet(v)
  BY <1>2, JoinSet
<1> HIDE DEF v, m
<1>5. Streams(v) = Streams(w) \cup {m + 1}
  BY <1>1, <1>3 DEF Streams
<1>6. Speech(v) = Speech(w) \cup {c}
  BY <1>1, <1>3, <1>5 DEF Speech, Streams
<1>7. ASSUME Opened(w, S) PROVE Opened(v, S \cup {c})
  <2>1. SUFFICES ASSUME NEW i \in DOMAIN v, v[i].type \notin Neutral,
                        NEW x \in S \cup {c}
                 PROVE  \E j \in Streams(v) : j > i /\ v[j].chunk = x
    BY DEF Opened
  <2>2. i \in DOMAIN w /\ w[i] = v[i] /\ m + 1 > i
    BY <1>1, <1>3, <2>1 DEF Neutral
  <2>3. CASE x = c
    BY <1>1, <1>3, <1>5, <2>2, <2>3
  <2>4. CASE x \in S
    <3>1. \E j \in Streams(w) : j > i /\ w[j].chunk = x
      BY <1>7, <2>1, <2>2, <2>4 DEF Opened
    <3> QED
      BY <1>3, <1>5, <3>1 DEF Streams
  <2> QED
    BY <2>1, <2>3, <2>4
<1>8. ASSUME Closed(w, S) PROVE Closed(v, S \cup {c})
  <2>1. SUFFICES ASSUME NEW i \in Streams(v)
                 PROVE  v[i].chunk \in S \cup {c} \/ \E j \in DOMAIN v : j > i /\ v[j] \in Closers
    BY DEF Closed
  <2>2. CASE i = m + 1
    BY <1>1, <1>3, <2>2
  <2>3. CASE i \in Streams(w)
    <3>1. i \in DOMAIN w /\ v[i] = w[i]
      BY <1>3, <2>3 DEF Streams
    <3>2. w[i].chunk \in S \/ \E j \in DOMAIN w : j > i /\ w[j] \in Closers
      BY <1>8, <2>3 DEF Closed
    <3> QED
      BY <1>3, <3>1, <3>2
  <2> QED
    BY <1>5, <2>2, <2>3
<1> QED
  BY <1>4, <1>6, <1>7, <1>8 DEF v, s

LEMMA WireTail ==
  ASSUME NEW w \in Seq(Event), w # <<>>, NEW S
  PROVE  /\ Tail(w) \in Seq(Event) /\ Head(w) \in Event /\ Speech(Tail(w)) \subseteq Speech(w)
         /\ ToSet(w) = {Head(w)} \cup ToSet(Tail(w))
         /\ Head(w).type # "assistant_text" => Speech(Tail(w)) = Speech(w)
         /\ Head(w).type = "assistant_text" => /\ Head(w).chunk \in Chunks
                                               /\ Speech(w) = Speech(Tail(w)) \cup {Head(w).chunk}
         /\ Opened(w, S) => /\ Opened(Tail(w), S)
                            /\ Head(w).type \notin Neutral => S \subseteq Speech(Tail(w))
         /\ Closed(w, S) => /\ Closed(Tail(w), S)
                            /\ Head(w).type = "assistant_text" => Head(w).chunk \in S \/ Closes(Tail(w))
<1> DEFINE v == Tail(w)
           h == Head(w)
           m == Len(w)
<1>1. /\ m \in Nat /\ DOMAIN w = 1 .. m /\ 1 \in 1 .. m /\ w[1] = h
      /\ DOMAIN v = 1 .. m - 1 /\ \A i \in 1 .. m - 1 : v[i] = w[i + 1] /\ i + 1 \in 1 .. m
      /\ \A i \in 1 .. m : i > 1 => i - 1 \in 1 .. m - 1 /\ v[i - 1] = w[i]
  OBVIOUS
<1>2. v \in Seq(Event) /\ h \in Event /\ ToSet(w) = {h} \cup ToSet(v)
  BY HeadTail
<1>3. h.type = "assistant_text" => h.chunk \in Chunks
  BY <1>2, Events
<1> HIDE DEF v, h, m
<1>4. /\ \A i \in Streams(v) : i + 1 \in Streams(w) /\ v[i] = w[i + 1]
      /\ \A i \in Streams(w) : i > 1 => i - 1 \in Streams(v) /\ v[i - 1] = w[i]
      /\ 1 \in Streams(w) <=> h.type = "assistant_text"
      /\ \A i \in DOMAIN v : i \in Nat /\ i + 1 \in DOMAIN w
      /\ \A i \in DOMAIN w : i \in Nat /\ i >= 1
  BY <1>1 DEF Streams
<1>5. Speech(v) \subseteq Speech(w)
  BY <1>4 DEF Speech
<1>6. \A i \in Streams(w) : i = 1 \/ i > 1
  BY <1>4 DEF Streams
<1>7. h.type # "assistant_text" => Speech(v) = Speech(w)
  <2>1. ASSUME h.type # "assistant_text", NEW i \in Streams(w) PROVE w[i].chunk \in Speech(v)
    BY <1>4, <1>6, <2>1 DEF Speech
  <2> QED
    BY <1>5, <2>1 DEF Speech
<1>8. h.type = "assistant_text" => Speech(w) = Speech(v) \cup {h.chunk}
  <2>1. ASSUME NEW i \in Streams(w) PROVE w[i].chunk \in Speech(v) \/ w[i].chunk = h.chunk
    BY <1>1, <1>4, <1>6 DEF Speech
  <2>2. h.type = "assistant_text" => h.chunk \in Speech(w)
    BY <1>1, <1>4 DEF Speech
  <2> QED
    BY <1>5, <2>1, <2>2 DEF Speech
<1>9. ASSUME Opened(w, S) PROVE Opened(v, S)
  <2>1. SUFFICES ASSUME NEW i \in DOMAIN v, v[i].type \notin Neutral, NEW x \in S
                 PROVE  \E j \in Streams(v) : j > i /\ v[j].chunk = x
    BY DEF Opened
  <2>2. i + 1 \in DOMAIN w /\ w[i + 1] = v[i] /\ i \in Nat /\ i >= 1
    BY <1>1
  <2>3. PICK j \in Streams(w) : j > i + 1 /\ w[j].chunk = x
    BY <1>9, <2>1, <2>2 DEF Opened
  <2>4. j \in Nat
    BY <1>1 DEF Streams
  <2>5. j - 1 \in Streams(v) /\ v[j - 1] = w[j]
    BY <1>4, <2>2, <2>3, <2>4
  <2>6. j - 1 > i
    BY <2>2, <2>3, <2>4
  <2> QED
    BY <2>3, <2>5, <2>6
<1>10. ASSUME Opened(w, S), h.type \notin Neutral PROVE S \subseteq Speech(v)
  <2>1. ASSUME NEW x \in S PROVE x \in Speech(v)
    <3>1. PICK j \in Streams(w) : j > 1 /\ w[j].chunk = x
      BY <1>1, <1>10 DEF Opened
    <3> QED
      BY <1>4, <3>1 DEF Speech
  <2> QED
    BY <2>1
<1>11. ASSUME Closed(w, S) PROVE Closed(v, S)
  <2>1. SUFFICES ASSUME NEW i \in Streams(v)
                 PROVE  v[i].chunk \in S \/ \E j \in DOMAIN v : j > i /\ v[j] \in Closers
    BY DEF Closed
  <2>2. i + 1 \in Streams(w) /\ v[i] = w[i + 1] /\ i \in Nat
    BY <1>4 DEF Streams
  <2>3. ASSUME NEW j \in DOMAIN w, j > i + 1, w[j] \in Closers
        PROVE  \E k \in DOMAIN v : k > i /\ v[k] \in Closers
    <3>1. j - 1 \in DOMAIN v /\ v[j - 1] = w[j] /\ j - 1 > i
      BY <1>1, <2>2, <2>3
    <3> QED
      BY <2>3, <3>1
  <2>4. w[i + 1].chunk \in S \/ \E j \in DOMAIN w : j > i + 1 /\ w[j] \in Closers
    BY <1>11, <2>2 DEF Closed
  <2> QED
    BY <2>2, <2>3, <2>4
<1>12. ASSUME Closed(w, S), h.type = "assistant_text" PROVE h.chunk \in S \/ Closes(v)
  <2>1. 1 \in Streams(w) /\ w[1] = h
    BY <1>1, <1>4, <1>12
  <2>2. ASSUME NEW j \in DOMAIN w, j > 1, w[j] \in Closers PROVE Closes(v)
    <3>1. j - 1 \in DOMAIN v /\ v[j - 1] \in Closers
      BY <1>1, <2>2
    <3> QED
      BY <3>1 DEF Closes, ToSet
  <2>3. w[1].chunk \in S \/ \E j \in DOMAIN w : j > 1 /\ w[j] \in Closers
    BY <1>12, <2>1 DEF Closed
  <2> QED
    BY <2>1, <2>2, <2>3
<1> QED
  BY <1>2, <1>3, <1>5, <1>7, <1>8, <1>9, <1>10, <1>11, <1>12 DEF v, h

\* A rising list within another: each of its elements is at the same place there or later.
LEMMA RisingPlaces ==
  ASSUME NEW a \in Seq(Nat), NEW b \in Seq(Nat), Rising(a), Rising(b), ToSet(a) \subseteq ToSet(b)
  PROVE  \A n \in 1 .. Len(a) : \E j \in 1 .. Len(b) : j >= n /\ b[j] = a[n]
<1> DEFINE Good == {n \in Nat : n \in 1 .. Len(a) => \E j \in 1 .. Len(b) : j >= n /\ b[j] = a[n]}
<1>1. /\ Len(a) \in Nat /\ Len(b) \in Nat /\ DOMAIN a = 1 .. Len(a) /\ DOMAIN b = 1 .. Len(b)
      /\ \A i \in 1 .. Len(a) : a[i] \in Nat
      /\ \A i \in 1 .. Len(b) : b[i] \in Nat
  OBVIOUS
<1>0. /\ \A i, j \in 1 .. Len(a) : i < j => a[i] < a[j]
      /\ \A i, j \in 1 .. Len(b) : i < j => b[i] < b[j]
  BY <1>1 DEF Rising
<1>2. \A i \in 1 .. Len(a) : \E j \in 1 .. Len(b) : b[j] = a[i]
  BY <1>1 DEF ToSet
<1>3. 0 \in Good
  OBVIOUS
<1>4. ASSUME NEW n \in Nat, n \in Good PROVE n + 1 \in Good
  <2>1. SUFFICES ASSUME n + 1 \in 1 .. Len(a)
                 PROVE  \E j \in 1 .. Len(b) : j >= n + 1 /\ b[j] = a[n + 1]
    OBVIOUS
  <2>2. PICK j \in 1 .. Len(b) : b[j] = a[n + 1]
    BY <1>2, <2>1
  <2>3. CASE n = 0
    BY <2>2, <2>3
  <2>4. CASE n > 0
    <3>1. n \in 1 .. Len(a)
      BY <1>1, <2>1, <2>4
    <3>2. PICK k \in 1 .. Len(b) : k >= n /\ b[k] = a[n]
      BY <1>4, <3>1
    <3>3. a[n] < a[n + 1]
      BY <1>0, <2>1, <3>1
    <3>4. ~(j < k) /\ j # k
      <4>1. a[n] \in Nat /\ a[n + 1] \in Nat
        BY <1>1, <2>1, <3>1
      <4>2. j < k => b[j] < b[k]
        BY <1>0
      <4> QED
        BY <2>2, <3>2, <3>3, <4>1, <4>2
    <3>5. j >= n + 1
      BY <3>2, <3>4
    <3> QED
      BY <2>2, <3>5
  <2> QED
    BY <2>3, <2>4
<1> HIDE DEF Good
<1>5. Nat \subseteq Good
  BY <1>3, <1>4, SetInduction
<1> QED
  BY <1>1, <1>5 DEF Good

LEMMA RisingShorter ==
  ASSUME NEW a \in Seq(Nat), NEW b \in Seq(Nat), Rising(a), Rising(b), ToSet(a) \subseteq ToSet(b)
  PROVE  Len(a) <= Len(b)
<1>1. \A n \in 1 .. Len(a) : \E j \in 1 .. Len(b) : j >= n
  BY RisingPlaces
<1>2. Len(a) \in Nat /\ Len(b) \in Nat
  OBVIOUS
<1>3. Len(a) # 0 => Len(a) \in 1 .. Len(a)
  BY <1>2
<1> QED
  BY <1>1, <1>2, <1>3

LEMMA RisingSame ==
  ASSUME NEW a \in Seq(Nat), NEW b \in Seq(Nat), Rising(a), Rising(b), ToSet(a) = ToSet(b)
  PROVE  a = b
<1>1. Len(a) = Len(b) /\ Len(a) \in Nat
  <2>1. Len(a) <= Len(b) /\ Len(b) <= Len(a)
    BY RisingShorter
  <2> QED
    BY <2>1
<1>2. ASSUME NEW n \in 1 .. Len(a) PROVE a[n] = b[n]
  <2>1. PICK j \in 1 .. Len(b) : j >= n /\ b[j] = a[n]
    BY RisingPlaces
  <2>2. PICK k \in 1 .. Len(a) : k >= n /\ a[k] = b[n]
    BY <1>1, RisingPlaces
  <2>3. /\ a[n] \in Nat /\ a[k] \in Nat /\ b[n] \in Nat /\ b[j] \in Nat
        /\ n \in Nat /\ j \in Nat /\ k \in Nat
        /\ DOMAIN a = 1 .. Len(a) /\ DOMAIN b = 1 .. Len(b)
    BY <1>1
  <2>4. k > n => a[n] < a[k]
    BY <2>3 DEF Rising
  <2>5. j > n => b[n] < b[j]
    BY <1>1, <2>3 DEF Rising
  <2>6. k = n \/ k > n
    BY <2>2, <2>3
  <2>7. j = n \/ j > n
    BY <2>1, <2>3
  <2> QED
    BY <2>1, <2>2, <2>3, <2>4, <2>5, <2>6, <2>7
<1> QED
  BY <1>1, <1>2

Clean == mishaps = {}

LEMMA StaysClean ==
  ASSUME [FeedNext]_feedVars
  PROVE  mishaps \subseteq mishaps' /\ (Clean' => Clean)
<1>1. ASSUME UNCHANGED feedVars PROVE mishaps' = mishaps
  BY <1>1 DEF feedVars
<1>2. mishaps \subseteq mishaps'
  BY <1>1, FeedSteps, AgentLeaves, OthersLeave, ViewLeaves
<1> QED
  BY <1>2 DEF Clean

\* Between turns nothing is said. A client that is away has left by a fault.
Waiting == turn = 0 => said = <<>>
Away == link = FALSE => faults \in Reconciliations

\* What an event ends was said before it, and text that does not belong to the turn any
\* more is followed by its end.
Paced == Clean => Opened(wire, ToSet(said)) /\ Closed(wire, ToSet(said))

LEMMA LenAppend ==
  ASSUME NEW U, NEW s \in Seq(U), NEW e
  PROVE  Len(Append(s, e)) = Len(s) + 1 /\ Len(s) \in Nat
OBVIOUS

LEMMA WaitingStep ==
  ASSUME FeedTyped, Waiting, [FeedNext]_feedVars
  PROVE  Waiting'
<1>1. ASSUME UNCHANGED <<turn, said>> PROVE Waiting'
  BY <1>1 DEF Waiting
<1>2. ASSUME StoreTurn PROVE Waiting'
  BY <1>2 DEF StoreTurn, Waiting
<1>3. CASE Accept \/ PromptExpires
  BY <1>1, <1>3 DEF Accept, PromptExpires
<1>4. CASE BeginTurn
  <2>1. /\ inbox \in Seq(1 .. MaxUser) /\ inbox # <<>> /\ turn' = Head(inbox)
    BY <1>4 DEF BeginTurn, FeedTyped, TurnTyped
  <2>2. Head(inbox) \in 1 .. MaxUser
    BY <2>1, HeadTail
  <2> QED
    BY <2>1, <2>2 DEF Waiting
<1>5. CASE Speak
  BY <1>5 DEF Speak, Waiting
<1>6. ASSUME NEW kind, RequestApproval(kind) PROVE Waiting'
  BY <1>1, <1>6 DEF RequestApproval
<1>7. CASE EndTurn
  BY <1>2, <1>7 DEF EndTurn
<1>8. ASSUME NEW last, EndProcess(last) PROVE Waiting'
  BY <1>2, <1>8 DEF EndProcess
<1>9. CASE ViewStep
  BY <1>1, <1>9, ViewLeaves DEF turnVars
<1>10. CASE OtherStep
  BY <1>1, <1>10, OthersLeave DEF talkVars
<1>11. CASE UNCHANGED feedVars
  BY <1>1, <1>11 DEF feedVars, turnVars
<1> QED
  BY <1>3, <1>4, <1>5, <1>6, <1>7, <1>8, <1>9, <1>10, <1>11, FeedSteps DEF AgentStep

LEMMA AwayStep ==
  ASSUME FeedTyped, FeedTyped', Away, [FeedNext]_feedVars
  PROVE  Away'
<1>1. /\ faults \in Nat /\ faults' \in 0 .. MaxFaults /\ MaxFaults \in Nat
      /\ link \in BOOLEAN
  BY FeedNumbers DEF FeedTyped, HubTyped
<1>2. ASSUME UNCHANGED <<link, faults>> PROVE Away'
  BY <1>2 DEF Away
<1>3. ASSUME Trouble PROVE Away'
  BY <1>1, <1>3 DEF Trouble, Away, Reconciliations
<1>4. UNCHANGED hubVars => UNCHANGED <<link, faults>>
  BY DEF hubVars
<1>5. CASE AgentStep
  <2>1. ASSUME Accept \/ BeginTurn \/ Speak \/ EndTurn PROVE Away'
    BY <1>2, <2>1 DEF Accept, BeginTurn, Speak, EndTurn, Emit
  <2>2. ASSUME NEW kind, RequestApproval(kind) PROVE Away'
    BY <1>2, <2>2 DEF RequestApproval, Emit
  <2>3. CASE PromptExpires
    BY <1>3, <2>3 DEF PromptExpires
  <2>4. ASSUME NEW last, EndProcess(last) PROVE Away'
    BY <1>2, <1>3, <2>4 DEF EndProcess, Emit
  <2> QED
    BY <1>5, <2>1, <2>2, <2>3, <2>4 DEF AgentStep
<1>6. CASE ViewStep
  <2>1. ASSUME PostFails \/ Stop \/ RemoveQueuedMessage PROVE Away'
    BY <1>3, <2>1 DEF PostFails, Stop, RemoveQueuedMessage
  <2>2. ASSUME ReceiveSome PROVE Away'
    BY <1>2, <2>2, Received
  <2> QED
    BY <1>2, <1>6, <2>1, <2>2, ViewLeaves
<1>7. CASE OtherStep
  <2>1. ASSUME Submit \/ PlanDenied \/ Answer PROVE Away'
    BY <1>2, <1>4, <2>1 DEF Submit, PlanDenied, Answer
  <2>2. ASSUME LoadFails \/ Disconnect \/ HubFaults PROVE Away'
    BY <1>3, <2>2 DEF LoadFails, Disconnect, HubFaults
  <2>3. CASE AnswerReturns
    <3>1. UNCHANGED link /\ (UNCHANGED faults \/ Trouble)
      BY <2>3 DEF AnswerReturns
    <3> QED
      BY <1>2, <1>3, <3>1
  <2>4. CASE ClientReconnects
    BY <2>4 DEF ClientReconnects, Away
  <2>5. ASSUME NEW r, ServerAnswers(r) \/ BeginSnapshot(r) \/ NoSnapshot(r) PROVE Away'
    BY <1>2, <1>4, <2>5 DEF ServerAnswers, BeginSnapshot, NoSnapshot, ReconStep
  <2>6. ASSUME NEW r, ReconFails(r) PROVE Away'
    BY <1>3, <2>6 DEF ReconFails
  <2> QED
    BY <1>7, <2>1, <2>2, <2>3, <2>4, <2>5, <2>6 DEF OtherStep, SendStep
<1>8. CASE UNCHANGED feedVars
  BY <1>2, <1>4, <1>8 DEF feedVars
<1> QED
  BY <1>5, <1>6, <1>7, <1>8, FeedSteps

\* What the agent's steps put on the wire.
Sends(e) == wire' = wire \o e \/ (link = FALSE /\ wire' = <<>>)
Asides == {[type |-> "question_over"]} \cup [type : {"ask"}, kind : Kinds]
LEMMA AgentSends ==
  ASSUME FeedTyped, AgentStep
  PROVE  \/ /\ (UNCHANGED wire \/ Sends(<<Of("question_over")>>)) /\ UNCHANGED <<said, clock>>
            /\ Accept
         \/ /\ Sends(<<Of("init")>>) /\ UNCHANGED <<said, clock, db, deferred>> /\ turn = 0
            /\ BeginTurn
         \/ /\ UNCHANGED wire \/ \E a \in Asides : Sends(<<a>>)
            /\ UNCHANGED <<said, clock, db, deferred, inbox, turn>>
         \/ /\ clock + 1 \in Chunks /\ said' = Append(said, clock + 1) /\ clock' = clock + 1
            /\ Sends(<<[type |-> "assistant_text", chunk |-> clock + 1]>>)
            /\ UNCHANGED <<db, deferred, inbox, turn>>
         \/ /\ Sends(<<Of("result"), Of("turn_complete")>>) /\ StoreTurn /\ inbox' = inbox
            /\ turn # 0
         \/ /\ \E last \in Seq(Quiet) : Sends(Append(last, Of("idle")))
            /\ StoreTurn /\ inbox' = <<>>
<1>1. wire \in Seq(Event) /\ link \in BOOLEAN /\ (link = FALSE => wire = <<>>)
  BY DEF FeedTyped, HubTyped
<1>2. ASSUME NEW e, Emit(e) PROVE Sends(e)
  BY <1>1, <1>2 DEF Emit, Sends
<1> DEFINE o == <<Of("question_over")>>
<1>9. ASSUME Emit(<<>>) PROVE UNCHANGED wire
  <2>1. wire \o <<>> = wire
    BY <1>1, ConcatEmptySeq
  <2> QED
    BY <1>9, <2>1 DEF Emit
<1>3. ASSUME Accept PROVE (UNCHANGED wire \/ Sends(o)) /\ UNCHANGED <<said, clock>>
  <2>1. Emit(<<>>) \/ Emit(o)
    BY <1>3 DEF Accept, Emit
  <2>2. UNCHANGED <<said, clock>>
    BY <1>3 DEF Accept
  <2> HIDE DEF o
  <2> QED
    BY <1>2, <1>9, <2>1, <2>2
<1>4. ASSUME BeginTurn PROVE Sends(<<Of("init")>>) /\ UNCHANGED <<said, clock, db, deferred>> /\ turn = 0
  BY <1>2, <1>4 DEF BeginTurn
<1>5. ASSUME NEW kind \in Kinds, RequestApproval(kind)
      PROVE (\E a \in Asides : Sends(<<a>>)) /\ UNCHANGED <<said, clock, db, deferred, inbox, turn>>
  <2>1. Sends(<<[type |-> "ask", kind |-> kind]>>)
    BY <1>2, <1>5 DEF RequestApproval
  <2>2. [type |-> "ask", kind |-> kind] \in Asides
    BY DEF Asides
  <2> QED
    BY <1>5, <2>1, <2>2 DEF RequestApproval
<1>10. ASSUME PromptExpires
       PROVE /\ UNCHANGED wire \/ \E a \in Asides : Sends(<<a>>)
             /\ UNCHANGED <<said, clock, db, deferred, inbox, turn>>
  <2>1. Emit(<<>>) \/ Emit(o)
    BY <1>10 DEF PromptExpires, Emit
  <2>2. UNCHANGED wire \/ Sends(o)
    <3> HIDE DEF o
    <3> QED
      BY <1>2, <1>9, <2>1
  <2>3. Of("question_over") \in Asides
    BY DEF Asides, Of
  <2>4. UNCHANGED <<said, clock, db, deferred, inbox, turn>>
    BY <1>10 DEF PromptExpires
  <2> QED
    BY <2>2, <2>3, <2>4
<1>6. ASSUME Speak
      PROVE /\ clock + 1 \in Chunks /\ said' = Append(said, clock + 1) /\ clock' = clock + 1
            /\ Sends(<<[type |-> "assistant_text", chunk |-> clock + 1]>>)
            /\ UNCHANGED <<db, deferred, inbox, turn>>
  <2>1. clock \in 0 .. MaxText /\ clock < MaxText /\ MaxText \in Nat
    BY <1>6, FeedNumbers DEF Speak, FeedTyped, TurnTyped
  <2>2. clock + 1 \in Chunks
    BY <2>1 DEF Chunks
  <2> QED
    BY <1>2, <1>6, <2>2 DEF Speak
<1>7. ASSUME EndTurn
      PROVE Sends(<<Of("result"), Of("turn_complete")>>) /\ StoreTurn /\ inbox' = inbox /\ turn # 0
  BY <1>2, <1>7 DEF EndTurn
<1>8. ASSUME NEW last \in Final, EndProcess(last)
      PROVE  last \in Seq(Quiet) /\ Sends(Append(last, Of("idle"))) /\ StoreTurn /\ inbox' = <<>>
  <2>1. last \in Seq(Quiet)
    <3>1. Of("complete") \in Quiet /\ Of("error") \in Quiet
      BY DEF Quiet, Of
    <3>2. <<>> \in Seq(Quiet) /\ <<Of("complete")>> \in Seq(Quiet) /\ <<Of("error")>> \in Seq(Quiet)
      BY <3>1
    <3> QED
      BY <3>2 DEF Final
  <2> QED
    BY <1>2, <1>8, <2>1 DEF EndProcess
<1> QED
  BY <1>3, <1>4, <1>5, <1>6, <1>7, <1>8, <1>10 DEF AgentStep

\* What is done to the events under way by other steps, while nothing goes wrong.
LEMMA OthersSend ==
  ASSUME [FeedNext]_feedVars, ~AgentStep, Clean'
  PROVE  /\ UNCHANGED <<said, clock, db, deferred, inbox, turn>>
         /\ \/ UNCHANGED <<wire, link>>
            \/ wire' = <<>> /\ link' = FALSE
            \/ wire' = wire /\ ClientReconnects
            \/ UNCHANGED link /\ ReceiveSome
<1>1. ASSUME UNCHANGED talkVars PROVE UNCHANGED <<said, clock, db, deferred, inbox, turn>>
  BY <1>1 DEF talkVars
<1>2. UNCHANGED turnVars => UNCHANGED talkVars
  BY DEF turnVars, talkVars
<1>3. UNCHANGED hubVars => UNCHANGED <<wire, link>>
  BY DEF hubVars
<1>4. CASE ViewStep
  BY <1>1, <1>2, <1>4, ViewLeaves, Received
<1>5. CASE SendStep
  BY <1>1, <1>5, SendLeaves
<1>6. CASE OtherStep
  <2>1. UNCHANGED talkVars
    BY <1>6, OthersLeave
  <2>2. ASSUME Disconnect PROVE wire' = <<>> /\ link' = FALSE
    BY <2>2 DEF Disconnect
  <2>3. ~HubFaults
    BY DEF HubFaults, Note, Clean
  <2>4. ASSUME ClientReconnects PROVE wire' = wire
    BY <2>4 DEF ClientReconnects
  <2>5. ASSUME NEW r, ServerAnswers(r) \/ BeginSnapshot(r) \/ NoSnapshot(r) PROVE UNCHANGED <<wire, link>>
    BY <1>3, <2>5 DEF ServerAnswers, BeginSnapshot, NoSnapshot, ReconStep
  <2>6. ASSUME NEW r, ReconFails(r) PROVE UNCHANGED <<wire, link>>
    BY <2>6 DEF ReconFails
  <2> QED
    BY <1>1, <1>5, <1>6, <2>1, <2>2, <2>3, <2>4, <2>5, <2>6 DEF OtherStep
<1>7. CASE UNCHANGED feedVars
  BY <1>1, <1>2, <1>3, <1>7 DEF feedVars
<1> QED
  BY <1>4, <1>6, <1>7, FeedSteps

\* Events that begin and end nothing.
LEMMA AsideQuiet ==
  ASSUME NEW a \in Asides
  PROVE  <<a>> \in Seq(Quiet) /\ \A k \in DOMAIN <<a>> : <<a>>[k].type \in Neutral
<1>1. a \in Quiet /\ a.type \in Neutral
  BY DEF Asides, Quiet, Neutral
<1> QED
  BY <1>1

LEMMA WireNothing ==
  /\ Speech(<<>>) = {} /\ \A S : Opened(<<>>, S) /\ Closed(<<>>, S)
  /\ \A w : Opened(w, {})
<1>1. Streams(<<>>) = {} /\ DOMAIN <<>> = {}
  BY DEF Streams
<1> QED
  BY <1>1 DEF Speech, Opened, Closed

\* The events that end a turn.
LEMMA EndsTurn ==
  /\ <<Of("result"), Of("turn_complete")>> \in Seq(Quiet)
  /\ Closes(<<Of("result"), Of("turn_complete")>>)
  /\ \A last \in Seq(Quiet) : /\ Append(last, Of("idle")) \in Seq(Quiet)
                              /\ Closes(Append(last, Of("idle")))
                              /\ Of("idle") \in ToSet(Append(last, Of("idle")))
<1>1. Of("result") \in Quiet /\ Of("turn_complete") \in Quiet /\ Of("idle") \in Quiet
  BY DEF Quiet, Of
<1> DEFINE e == <<Of("result"), Of("turn_complete")>>
<1>2. e \in Seq(Quiet) /\ 1 \in DOMAIN e /\ e[1] = Of("result")
  BY <1>1
<1>3. Of("result") \in ToSet(e)
  BY <1>2 DEF ToSet
<1>4. ASSUME NEW last \in Seq(Quiet)
      PROVE  Append(last, Of("idle")) \in Seq(Quiet) /\ Of("idle") \in ToSet(Append(last, Of("idle")))
  BY <1>1, AppendSet
<1>5. Of("result") \in Closers /\ Of("idle") \in Closers
  BY DEF Closers
<1> HIDE DEF e
<1>6. Closes(e)
  BY <1>3, <1>5 DEF Closes
<1> QED
  BY <1>2, <1>4, <1>5, <1>6 DEF Closes, e

LEMMA PacedStep ==
  ASSUME FeedTyped, Waiting, Paced, [FeedNext]_feedVars
  PROVE  Paced'
<1> SUFFICES ASSUME Clean' PROVE Opened(wire', ToSet(said')) /\ Closed(wire', ToSet(said'))
  BY DEF Paced
<1> DEFINE S == ToSet(said)
<1>1. Opened(wire, S) /\ Closed(wire, S) /\ wire \in Seq(Event) /\ said \in Seq(Chunks)
  BY StaysClean DEF Paced, FeedTyped, HubTyped, TurnTyped
<1>2. ASSUME NEW e \in Seq(Quiet), Sends(e), said' = <<>>, Closes(e)
      PROVE  Opened(wire', ToSet(said')) /\ Closed(wire', ToSet(said'))
  <2>1. ToSet(said') = {}
    BY <1>2 DEF ToSet
  <2>2. Closed(wire \o e, {})
    BY <1>1, <1>2, WireQuiet
  <2> QED
    BY <1>2, <2>1, <2>2, WireNothing DEF Sends
<1>3. ASSUME NEW e \in Seq(Quiet), Sends(e), said' = said, S = {} \/ \A k \in DOMAIN e : e[k].type \in Neutral
      PROVE  Opened(wire', S) /\ Closed(wire', S)
  <2>1. Opened(wire \o e, S) /\ Closed(wire \o e, S)
    BY <1>1, <1>3, WireQuiet
  <2> QED
    BY <1>3, <2>1, WireNothing DEF Sends
<1> HIDE DEF S
<1>4. said' = said => ToSet(said') = S
  BY DEF S
<1>5. ASSUME said' = said, wire' = wire PROVE Opened(wire', ToSet(said')) /\ Closed(wire', ToSet(said'))
  BY <1>1, <1>4, <1>5
<1>6. CASE AgentStep
  <2>1. ASSUME Sends(<<Of("init")>>), said' = said, turn = 0
        PROVE  Opened(wire', S) /\ Closed(wire', S)
    <3>1. Of("init") \in Quiet /\ S = {}
      BY <2>1 DEF Of, Quiet, Waiting, S, ToSet
    <3>2. <<Of("init")>> \in Seq(Quiet)
      BY <3>1
    <3> QED
      BY <1>3, <2>1, <3>1, <3>2
  <2>2. ASSUME NEW a \in Asides, Sends(<<a>>), said' = said
        PROVE  Opened(wire', S) /\ Closed(wire', S)
    BY <1>3, <2>2, AsideQuiet
  <2>5. Of("question_over") \in Asides
    BY DEF Asides, Of
  <2>3. ASSUME clock + 1 \in Chunks, said' = Append(said, clock + 1),
               Sends(<<[type |-> "assistant_text", chunk |-> clock + 1]>>)
        PROVE  Opened(wire', ToSet(said')) /\ Closed(wire', ToSet(said'))
    <3>1. ToSet(said') = S \cup {clock + 1}
      BY <1>1, <2>3, AppendSet DEF S
    <3>2. LET v == wire \o <<[type |-> "assistant_text", chunk |-> clock + 1]>> IN
          Opened(v, S \cup {clock + 1}) /\ Closed(v, S \cup {clock + 1})
      BY <1>1, <2>3, WireSpeech
    <3> QED
      BY <2>3, <3>1, <3>2, WireNothing DEF Sends
  <2>4. StoreTurn => said' = <<>>
    BY DEF StoreTurn
  <2> QED
    BY <1>2, <1>4, <1>5, <1>6, <2>1, <2>2, <2>3, <2>4, <2>5, AgentSends, EndsTurn
<1>7. CASE ~AgentStep
  <2>1. said' = said
    BY <1>7, OthersSend
  <2>2. ASSUME ReceiveSome PROVE Opened(wire', S) /\ Closed(wire', S)
    BY <1>1, <2>2, Received, WireTail
  <2> QED
    BY <1>4, <1>5, <1>7, <2>1, <2>2, OthersSend, WireNothing
<1> QED
  BY <1>6, <1>7

\* Text is streamed, and messages are queued, only while the conversation streams.
Lit == text # <<>> \/ queuedMessages # <<>> => isStreaming = TRUE

\* A step of the view that changes only how things are shown.
Tidy ==
    /\ Shown' = Shown /\ Line' = Line /\ ToSet(Streamed') \subseteq ToSet(Streamed)
    /\ Len(queuedMessages') <= Len(queuedMessages)
    /\ Lit'
Emptied == ToSet(Streamed') = {} /\ queuedMessages' = <<>>

LEMMA ShownLists ==
  ASSUME ViewTyped
  PROVE  /\ text \in Seq(Chunks) /\ buffer \in Seq(Chunks) /\ Streamed \in Seq(Chunks)
         /\ ToSet(Streamed) = ToSet(text) \cup ToSet(buffer)
         /\ Streamed = <<>> <=> text = <<>> /\ buffer = <<>>
         /\ queuedMessages \in Seq(UserMessages) /\ Len(queuedMessages) \in Nat
         /\ queuedMessages = <<>> <=> Len(queuedMessages) = 0
         /\ ToSet(Shown) = ToSet(Texts(messages)) \cup ToSet(Streamed)
         /\ isStreaming \in BOOLEAN /\ resultFinalized \in BOOLEAN
<1>1. /\ text \in Seq(Chunks) /\ buffer \in Seq(Chunks) /\ queuedMessages \in Seq(UserMessages)
      /\ isStreaming \in BOOLEAN /\ resultFinalized \in BOOLEAN
  BY DEF ViewTyped
<1>2. Streamed \in Seq(Chunks) /\ ToSet(Streamed) = ToSet(text) \cup ToSet(buffer)
  BY <1>1, JoinSet DEF Streamed
<1>3. Streamed = <<>> <=> text = <<>> /\ buffer = <<>>
  BY <1>1, <1>2, SetOfList
<1>4. Len(queuedMessages) \in Nat /\ (queuedMessages = <<>> <=> Len(queuedMessages) = 0)
  BY <1>1
<1>5. ToSet(Shown) = ToSet(Texts(messages)) \cup ToSet(Streamed)
  <2>1. Shown = Texts(messages) \o Streamed /\ Texts(messages) \in Seq(Chunks)
    BY ShownTyped
  <2>2. ToSet(Texts(messages) \o Streamed) = ToSet(Texts(messages)) \cup ToSet(Streamed)
    BY <1>2, <2>1, JoinSet
  <2> QED
    BY <2>1, <2>2
<1> QED
  BY <1>1, <1>2, <1>3, <1>4, <1>5

LEMMA CommitTidy ==
  ASSUME ViewTyped, NEW t \in {text, Streamed}, Commits(t),
         queuedMessages = FirstQueued \o queuedMessages',
         buffer' = (IF t = Streamed THEN <<>> ELSE buffer),
         resultFinalized' \in BOOLEAN
  PROVE  /\ Tidy /\ (buffer' = <<>> => ToSet(Streamed') = {})
         /\ Len(queuedMessages) = Len(FirstQueued) + Len(queuedMessages')
<1>1. /\ t \in Seq(Chunks) /\ ToSet(Streamed) = ToSet(text) \cup ToSet(buffer)
      /\ buffer \in Seq(Chunks) /\ queuedMessages \in Seq(UserMessages)
  BY ShownLists
<1>2. Shown' = Shown /\ ViewTyped'
  BY CommitKeeps DEF ViewKept
<1>3. Line' = Line
  BY <1>1, CommittedLine
<1>4. text' = <<>> /\ (buffer' = <<>> \/ buffer' = buffer)
  BY DEF Commits
<1>5. Streamed' = buffer'
  <2>1. <<>> \o <<>> = <<>> /\ <<>> \o buffer = buffer
    BY <1>1, ConcatEmptySeq
  <2> QED
    BY <1>4, <2>1 DEF Streamed
<1>6. ToSet(Streamed') \subseteq ToSet(Streamed) /\ (buffer' = <<>> => ToSet(Streamed') = {})
  <2>1. ToSet(<<>>) = {}
    BY DEF ToSet
  <2>2. ToSet(Streamed') = ToSet(buffer')
    BY <1>5
  <2> QED
    BY <1>1, <1>4, <2>1, <2>2
<1>7. FirstQueued \in Seq(UserMessages) /\ queuedMessages' \in Seq(UserMessages)
  BY <1>1, Committed
<1>8. /\ Len(queuedMessages) = Len(FirstQueued) + Len(queuedMessages')
      /\ Len(queuedMessages') <= Len(queuedMessages)
  <2>1. /\ Len(FirstQueued \o queuedMessages') = Len(FirstQueued) + Len(queuedMessages')
        /\ Len(FirstQueued) \in Nat /\ Len(queuedMessages') \in Nat
    BY <1>7
  <2> QED
    BY <2>1
<1>9. Lit'
  BY <1>4 DEF Commits, Lit
<1> QED
  BY <1>2, <1>3, <1>4, <1>6, <1>8, <1>9 DEF Tidy

LEMMA FlushTidy ==
  ASSUME ViewTyped, Lit, text' = Streamed, buffer' = <<>>, UNCHANGED listVars,
         isStreaming' = TRUE \/ isStreaming' = StreamedOn,
         resultFinalized' \in BOOLEAN
  PROVE  Tidy /\ ToSet(Streamed') = ToSet(Streamed)
<1>1. /\ isStreaming \in BOOLEAN /\ Streamed \in Seq(Chunks) /\ Len(queuedMessages) \in Nat
      /\ Streamed = <<>> <=> text = <<>> /\ buffer = <<>>
  BY ShownLists
<1>2. isStreaming' \in BOOLEAN /\ (isStreaming = TRUE => isStreaming' = TRUE)
  BY <1>1 DEF StreamedOn
<1>3. Shown' = Shown
  BY <1>2, FlushKeeps
<1>4. Streamed' = Streamed
  <2>1. Streamed \o <<>> = Streamed
    BY <1>1, ConcatEmptySeq
  <2> QED
    BY <2>1 DEF Streamed
<1>5. Line' = Line /\ queuedMessages' = queuedMessages
  BY DEF Line, listVars
<1>6. Lit'
  BY <1>1, <1>2, <1>5 DEF StreamedOn, Lit
<1> QED
  BY <1>1, <1>3, <1>4, <1>5, <1>6 DEF Tidy

\* A finalization that does not drop any queued message.
LEMMA FinalizeTidy ==
  ASSUME ViewTyped, NEW terminal \in BOOLEAN, NEW t \in {text, Streamed}, Finalize(t, terminal),
         terminal = TRUE => Len(queuedMessages) <= 1,
         buffer' = (IF t = Streamed THEN <<>> ELSE buffer),
         resultFinalized' \in BOOLEAN
  PROVE  /\ Tidy /\ (buffer' = <<>> => ToSet(Streamed') = {})
         /\ queuedMessages = <<>> => queuedMessages' = <<>>
         /\ terminal = TRUE => queuedMessages' = <<>>
         /\ queuedMessages # <<>> => Len(queuedMessages') = Len(queuedMessages) - 1
<1> DEFINE q == queuedMessages
<1>1. q \in Seq(UserMessages) /\ Len(q) \in Nat /\ (q = <<>> <=> Len(q) = 0)
  BY ShownLists
<1>2. Commits(t) /\ q' = (IF terminal \/ q = <<>> THEN <<>> ELSE Tail(q))
  BY FinalizeCommits DEF Finalize
<1>3. terminal = TRUE \/ q = <<>> => q' = <<>>
  BY <1>2
<1>4. q # <<>> /\ terminal = FALSE => q' = Tail(q)
  BY <1>2
<1>5. ASSUME q # <<>> PROVE q' = Tail(q) /\ Len(Tail(q)) = Len(q) - 1 /\ q = <<Head(q)>> \o Tail(q)
  <2>1. Len(Tail(q)) = Len(q) - 1 /\ Tail(q) \in Seq(UserMessages) /\ q = <<Head(q)>> \o Tail(q)
    BY <1>1, <1>5
  <2>2. CASE terminal = TRUE
    <3>1. Len(Tail(q)) = 0
      BY <1>1, <1>5, <2>1, <2>2
    <3>2. Tail(q) = <<>>
      BY <2>1, <3>1, EmptySeq
    <3> QED
      BY <1>3, <2>1, <2>2, <3>2
  <2>3. CASE terminal = FALSE
    BY <1>4, <1>5, <2>1, <2>3
  <2> QED
    BY <2>2, <2>3
<1>6. q = FirstQueued \o q'
  <2>1. CASE q = <<>>
    <3>1. <<>> \o <<>> = <<>>
      BY ConcatEmptySeq
    <3> QED
      BY <1>3, <2>1, <3>1 DEF FirstQueued
  <2>2. CASE q # <<>>
    BY <1>5, <2>2 DEF FirstQueued
  <2> QED
    BY <2>1, <2>2
<1>7. Tidy /\ (buffer' = <<>> => ToSet(Streamed') = {})
  BY <1>2, <1>6, CommitTidy DEF q
<1> QED
  BY <1>3, <1>5, <1>7

LEMMA NotedNothing ==
  ASSUME NEW what, Note(what), Clean'
  PROVE  what = {}
BY DEF Note, Clean

LEMMA CutNothing ==
  ASSUME ViewTyped, NEW what, Cut(TRUE) \cup what = {}
  PROVE  Len(queuedMessages) <= 1
BY ShownLists DEF Cut

\* What receiving an event other than text does to the view.
ByEvent(type) ==
    /\ Tidy
    /\ type = "result" => /\ ToSet(Streamed') = {}
                          /\ queuedMessages = <<>> => queuedMessages' = <<>>
                          /\ queuedMessages # <<>> => Len(queuedMessages') = Len(queuedMessages) - 1
    /\ type \in {"complete", "error", "idle"} => Emptied
    /\ type \in Neutral => ToSet(Streamed') = ToSet(Streamed)

LEMMA ReceiveTidy ==
  ASSUME ViewTyped, Lit, Clean', ReceiveSome, ~ReceiveText
  PROVE  ByEvent(Head(wire).type) /\ Head(wire).type # "assistant_text"
<1> DEFINE h == Head(wire).type
           q == queuedMessages
<1>1. /\ isStreaming \in BOOLEAN /\ resultFinalized \in BOOLEAN
      /\ q \in Seq(UserMessages) /\ Len(q) \in Nat
      /\ Streamed = <<>> <=> text = <<>> /\ buffer = <<>>
      /\ isStreaming = FALSE => q = <<>>
  BY ShownLists DEF Lit
<1>2. /\ Streamed \in {text, Streamed} /\ <<>> = (IF Streamed = Streamed THEN <<>> ELSE buffer)
      /\ ToSet(<<>>) = {}
  BY DEF ToSet
<1>3. ASSUME NEW t, Receive(t) PROVE h = t
  BY <1>3 DEF Receive
<1>4. ASSUME NEW terminal \in BOOLEAN, Finalize(Streamed, terminal), buffer' = <<>>,
             terminal = TRUE => Len(q) <= 1,
             resultFinalized' \in BOOLEAN
      PROVE  /\ Tidy /\ ToSet(Streamed') = {}
             /\ q = <<>> => q' = <<>>
             /\ terminal = TRUE => q' = <<>>
             /\ q # <<>> => Len(q') = Len(q) - 1
  BY <1>2, <1>4, FinalizeTidy
<1>5. CASE ReceiveInit
  <2>1. /\ resultFinalized' = FALSE /\ buffer' = <<>> /\ isStreaming' = TRUE
        /\ h = "init"
    BY <1>3, <1>5 DEF ReceiveInit
  <2>2. CASE isStreaming = FALSE
    <3>1. text' = Streamed /\ UNCHANGED listVars
      BY <1>5, <2>2 DEF ReceiveInit
    <3>2. Tidy
      BY <1>1, <2>1, <3>1, FlushTidy
    <3> QED
      BY <2>1, <3>2 DEF ByEvent, Neutral
  <2>3. CASE isStreaming = TRUE /\ q # <<>>
    <3>1. messages' = messages \o Streamed \o FirstQueued /\ text' = <<>> /\ q' = Tail(q)
      BY <1>5, <2>3 DEF ReceiveInit
    <3>2. Commits(Streamed)
      BY <2>1, <2>3, <3>1 DEF Commits
    <3>3. q = FirstQueued \o q'
      BY <1>1, <2>3, <3>1, HeadTail DEF FirstQueued
    <3>4. Tidy
      BY <1>1, <1>2, <2>1, <3>2, <3>3, CommitTidy
    <3> QED
      BY <2>1, <3>4 DEF ByEvent, Neutral
  <2>4. CASE isStreaming = TRUE /\ q = <<>>
    <3>1. text' = <<>> /\ UNCHANGED listVars /\ Note(IF Streamed = <<>> THEN {} ELSE {"cleared"})
      BY <1>5, <2>4 DEF ReceiveInit
    <3>2. Streamed = <<>>
      BY <3>1, NotedNothing
    <3>3. Tidy
      BY <1>1, <2>1, <3>1, <3>2, FlushTidy
    <3> QED
      BY <2>1, <3>3 DEF ByEvent, Neutral
  <2> QED
    BY <1>1, <2>1, <2>2, <2>3, <2>4
<1>6. CASE ReceiveResult
  <2>1. /\ buffer' = <<>> /\ Finalize(Streamed, FALSE) /\ resultFinalized' = TRUE
        /\ h = "result"
    BY <1>3, <1>6 DEF ReceiveResult
  <2> QED
    BY <1>4, <2>1 DEF ByEvent, Neutral
<1>7. CASE ReceiveTurnComplete
  <2>1. buffer' = <<>> /\ resultFinalized' = FALSE /\ h = "turn_complete"
    BY <1>3, <1>7 DEF ReceiveTurnComplete
  <2>2. \/ text' = Streamed /\ isStreaming' = StreamedOn /\ UNCHANGED listVars
        \/ Finalize(Streamed, FALSE)
    BY <1>7 DEF ReceiveTurnComplete
  <2>3. Tidy
    BY <1>4, <2>1, <2>2, FlushTidy
  <2> QED
    BY <2>1, <2>3 DEF ByEvent, Neutral
<1>8. ASSUME NEW t \in {"complete", "error"}, ReceiveEnd(t) PROVE ByEvent(h) /\ h # "assistant_text"
  <2>1. /\ buffer' = <<>> /\ Finalize(Streamed, TRUE)
        /\ resultFinalized' \in BOOLEAN /\ Note(Cut(TRUE)) /\ h = t
    BY <1>3, <1>8 DEF ReceiveEnd
  <2>2. Len(q) <= 1
    <3>1. Cut(TRUE) \cup {} = {}
      BY <2>1, NotedNothing
    <3> QED
      BY <3>1, CutNothing
  <2> QED
    BY <1>4, <1>8, <2>1, <2>2 DEF ByEvent, Neutral, Emptied
<1>9. CASE ReceiveIdle
  <2>1. buffer' = <<>> /\ h = "idle"
    BY <1>3, <1>9 DEF ReceiveIdle
  <2>2. CASE isStreaming /\ pending = {}
    <3>1. Finalize(Streamed, TRUE) /\ resultFinalized' = FALSE /\ Note(Cut(TRUE))
      BY <1>9, <2>2 DEF ReceiveIdle
    <3>2. Len(q) <= 1
      <4>1. Cut(TRUE) \cup {} = {}
        BY <3>1, NotedNothing
      <4> QED
        BY <4>1, CutNothing
    <3> QED
      BY <1>1, <1>4, <2>1, <3>1, <3>2 DEF ByEvent, Neutral, Emptied
  <2>3. CASE ~(isStreaming /\ pending = {})
    <3>1. /\ text' = Streamed /\ isStreaming' = StreamedOn
          /\ Note(IF isStreaming THEN {"asked"} ELSE IF StreamedOn THEN {"late"} ELSE {})
          /\ UNCHANGED <<resultFinalized, listVars>>
      BY <1>9, <2>3 DEF ReceiveIdle
    <3>2. isStreaming = FALSE /\ ~StreamedOn
      BY <1>1, <3>1, NotedNothing
    <3>3. text = <<>> /\ buffer = <<>> /\ q = <<>>
      BY <1>1, <3>2 DEF StreamedOn, Lit
    <3>4. Tidy
      BY <1>1, <2>1, <3>1, FlushTidy
    <3>5. q' = <<>>
      BY <3>1, <3>3 DEF listVars
    <3>6. ToSet(Streamed') = {}
      BY <1>1, <1>2, <3>3, <3>4 DEF Tidy
    <3> QED
      BY <2>1, <3>4, <3>5, <3>6 DEF ByEvent, Neutral, Emptied
  <2> QED
    BY <2>2, <2>3
<1>10. CASE ReceiveAsk \/ ReceiveQuestionOver
  <2>1. /\ resultFinalized' = resultFinalized /\ UNCHANGED listVars /\ h \in {"ask", "question_over"}
        /\ \/ buffer' = <<>> /\ text' = Streamed /\ isStreaming' = StreamedOn
           \/ UNCHANGED <<buffer, text, isStreaming>>
    BY <1>3, <1>10 DEF ReceiveAsk, ReceiveQuestionOver
  <2>2. Tidy /\ ToSet(Streamed') = ToSet(Streamed)
    <3>1. CASE buffer' = <<>> /\ text' = Streamed /\ isStreaming' = StreamedOn
      BY <1>1, <2>1, <3>1, FlushTidy
    <3>2. CASE UNCHANGED <<buffer, text, isStreaming>>
      BY <1>1, <2>1, <3>2 DEF Tidy, Shown, Line, Streamed, Lit, listVars
    <3> QED
      BY <2>1, <3>1, <3>2
  <2> QED
    BY <2>1, <2>2 DEF ByEvent, Neutral
<1> HIDE DEF h
<1>11. ByEvent(h) /\ h # "assistant_text"
  <2>1. ASSUME NEW t \in {"init", "result", "turn_complete", "idle", "ask", "question_over"}, Receive(t)
        PROVE  h # "assistant_text"
    BY <1>3, <2>1
  <2>2. \/ ReceiveInit \/ ReceiveResult \/ ReceiveTurnComplete
        \/ ReceiveEnd("complete") \/ ReceiveEnd("error") \/ ReceiveIdle
        \/ ReceiveAsk \/ ReceiveQuestionOver
    BY DEF ReceiveSome
  <2>3. ReceiveInit \/ ReceiveResult \/ ReceiveTurnComplete \/ ReceiveIdle \/ ReceiveAsk
        \/ ReceiveQuestionOver => h # "assistant_text"
    BY <2>1
       DEF ReceiveInit, ReceiveResult, ReceiveTurnComplete, ReceiveIdle, ReceiveAsk, ReceiveQuestionOver
  <2> QED
    BY <1>5, <1>6, <1>7, <1>8, <1>9, <1>10, <2>2, <2>3 DEF h
<1> QED
  BY <1>11 DEF h

\* The other steps that change only how things are shown.
LEMMA OtherTidy ==
  ASSUME ViewTyped, Lit, Clean', FlushFrame \/ PostFails \/ \E r \in Reconciliations : FinalizeInactive(r)
  PROVE  Tidy /\ (FlushFrame \/ PostFails => ToSet(Streamed') = ToSet(Streamed))
<1> DEFINE q == queuedMessages
<1>1. /\ isStreaming \in BOOLEAN /\ resultFinalized \in BOOLEAN
      /\ Len(q) \in Nat
      /\ Streamed = <<>> <=> text = <<>> /\ buffer = <<>>
  BY ShownLists
<1>2. CASE FlushFrame
  <2>1. /\ buffer' = <<>> /\ text' = Streamed /\ isStreaming' = TRUE
        /\ resultFinalized' = resultFinalized /\ UNCHANGED listVars
    BY <1>2 DEF FlushFrame
  <2> QED
    BY <1>1, <2>1, FlushTidy
<1>3. ASSUME NEW r, FinalizeInactive(r) PROVE Tidy /\ buffer = <<>>
  <2>1. /\ Finalize(text, TRUE) /\ buffer' = buffer
        /\ resultFinalized' = resultFinalized
        /\ Note(Cut(TRUE) \cup (IF buffer # <<>> \/ turn # 0 \/ inbox # <<>> THEN {"late"} ELSE {}))
    BY <1>1, <1>3 DEF FinalizeInactive
  <2>2. Len(q) <= 1 /\ buffer = <<>>
    <3>1. Cut(TRUE) \cup (IF buffer # <<>> \/ turn # 0 \/ inbox # <<>> THEN {"late"} ELSE {}) = {}
      BY <2>1, NotedNothing
    <3> QED
      BY <3>1, CutNothing
  <2>3. buffer' = (IF text = Streamed THEN <<>> ELSE buffer)
    BY <2>1, <2>2
  <2>4. Tidy
    BY <1>1, <2>1, <2>2, <2>3, FinalizeTidy
  <2> QED
    BY <2>2, <2>4
<1>5. CASE PostFails
  <2>1. UNCHANGED <<buffer, text, messages>>
    BY <1>5 DEF PostFails
  <2>2. UNCHANGED <<queuedMessages, isStreaming>>
    BY <1>5 DEF PostFails, Note, Clean
  <2> QED
    BY <1>1, <2>1, <2>2 DEF Tidy, Shown, Line, Streamed, Lit
<1>6. ASSUME FlushFrame, NEW r, FinalizeInactive(r) PROVE FALSE
  BY <1>3, <1>6 DEF FlushFrame
<1>7. ASSUME PostFails, NEW r, FinalizeInactive(r) PROVE FALSE
  BY <1>7 DEF PostFails, FinalizeInactive, ReconStep, sendVars
<1> QED
  BY <1>2, <1>3, <1>5, <1>6, <1>7

Streaming == Clean => Lit

LEMMA StreamingStep ==
  ASSUME FeedTyped, Streaming, [FeedNext]_feedVars
  PROVE  Streaming'
<1> SUFFICES ASSUME Clean' PROVE Lit'
  BY DEF Streaming
<1>1. Lit /\ ViewTyped /\ HubTyped /\ SendTyped /\ ReconTyped
  BY StaysClean DEF Streaming, FeedTyped
<1>2. ASSUME UNCHANGED <<text, queuedMessages>>, isStreaming' = isStreaming \/ isStreaming' = TRUE
      PROVE Lit'
  BY <1>1, <1>2 DEF Lit
<1>3. ASSUME UNCHANGED viewVars PROVE Lit'
  BY <1>2, <1>3 DEF viewVars
<1>4. CASE AgentStep
  BY <1>3, <1>4, AgentLeaves
<1>5. CASE OtherStep
  BY <1>3, <1>5, OthersLeave
<1>6. CASE UNCHANGED feedVars
  BY <1>2, <1>6 DEF feedVars, streamingVars, listVars
<1>7. CASE ReceiveText
  BY <1>2, <1>7 DEF ReceiveText, listVars
<1>8. CASE ReceiveSome /\ ~ReceiveText
  BY <1>1, <1>8, ReceiveTidy DEF ByEvent, Tidy
<1>9. CASE FlushFrame \/ PostFails \/ \E r \in Reconciliations : FinalizeInactive(r)
  BY <1>1, <1>9, OtherTidy DEF Tidy
<1>10. CASE AddMessageOrQueue
  <2>1. CASE post = "queueing"
    <3>1. Note(IF isStreaming THEN {} ELSE {"stale"}) /\ UNCHANGED isStreaming
      BY <1>10, <2>1 DEF AddMessageOrQueue
    <3>2. isStreaming = TRUE
      BY <1>1, <3>1, NotedNothing DEF ViewTyped
    <3> QED
      BY <3>1, <3>2 DEF Lit
  <2>2. CASE post # "queueing"
    BY <1>10, <2>2 DEF AddMessageOrQueue, Lit
  <2> QED
    BY <2>1, <2>2
<1>11. CASE PostReturns \/ \E r \in Reconciliations : RestoreSnapshot(r)
  BY <1>2, <1>11 DEF PostReturns, RestoreSnapshot, Lit
<1>12. CASE Stop \/ RemoveQueuedMessage
  BY <1>12 DEF Stop, RemoveQueuedMessage, Note, Clean
<1>13. ASSUME NEW r, SetMessagePage(r) PROVE Lit'
  BY <1>2, <1>13 DEF SetMessagePage, streamingVars
<1> QED
  BY <1>4, <1>5, <1>6, <1>7, <1>8, <1>9, <1>10, <1>11, <1>12, <1>13, FeedSteps DEF ViewStep, PageStep

\* Every message that was sent is shown or queued, and what is shown or queued is stored or
\* deferred, but for the one whose request is under way.
NoneOut == post \in Unshown \cup {"none"} \/ (post = "sending" /\ submitted = 1)
AsStored ==
    /\ post = "accepted" => ToSet(StoredLine) = {User(1)}
    /\ NoneOut => ToSet(Line) = ToSet(StoredLine)
    /\ post = "sending" /\ submitted > 1 => ToSet(Line) = ToSet(StoredLine) \cup {User(submitted)}
Listed == Clean => AsStored

\* A page that replaces the list, when nothing goes wrong.
LEMMA PageIsTable ==
  ASSUME NEW r \in Reconciliations, SetMessagePage(r), Clean'
  PROVE  /\ fetched[r] = db /\ deferred = <<>> /\ post = "none" /\ queuedMessages = <<>>
         /\ ToSet(db) \cap (ToSet(text) \cup Coming) = {}
<1> DEFINE a == IF fetched[r] # db \/ deferred # <<>> \/ post # "none" \/ queuedMessages # <<>>
                THEN {"paged"} ELSE {}
           b == IF recon[r] = "repaged" /\ turn = 0 THEN {"idle"} ELSE {}
           c == IF ToSet(fetched[r]) \cap (ToSet(text) \cup Coming) # {} THEN {"overlap"} ELSE {}
<1>1. Note(a \cup b \cup c)
  BY DEF SetMessagePage
<1> HIDE DEF a, b, c
<1>2. a \cup b \cup c = {}
  BY <1>1, NotedNothing
<1>3. a = {} /\ c = {}
  BY <1>2
<1>4. fetched[r] = db /\ deferred = <<>> /\ post = "none" /\ queuedMessages = <<>>
  BY <1>3 DEF a
<1>5. ToSet(fetched[r]) \cap (ToSet(text) \cup Coming) = {}
  BY <1>3 DEF c
<1> QED
  BY <1>4, <1>5

LEMMA AgentLists ==
  ASSUME FeedTyped, Told, AgentStep, ~Accept
  PROVE  StoredLine' = StoredLine
<1>1. UNCHANGED <<db, deferred>> \/ StoreTurn
  BY AgentSends
<1>2. TurnTyped
  BY DEF FeedTyped
<1> QED
  BY <1>1, <1>2, StoreTurnKeeps DEF StoredLine

LEMMA ListedStep ==
  ASSUME FeedTyped, Told, Sent, Streaming, Listed, [FeedNext]_feedVars
  PROVE  Listed'
<1> SUFFICES ASSUME Clean' PROVE AsStored'
  BY DEF Listed
<1>1. AsStored /\ Lit /\ mishaps = {} /\ mishaps' = {}
  BY StaysClean DEF Listed, Streaming, Clean
<1>2. /\ ViewTyped /\ SendTyped /\ ReconTyped /\ HubTyped /\ TurnTyped
      /\ submitted \in Nat /\ Line \in Seq(UserMessages) /\ StoredLine \in Seq(UserMessages)
      /\ post = "accepted" => submitted = 1
      /\ post # "none" => submitted > 0
      /\ submitted = 1 /\ post # "none" => Line = <<>>
      /\ \A n \in 1 .. MaxUser : User(n) \in UserMessages
  <2>1. Free({"paged", "overtaken"})
    BY <1>1 DEF Free
  <2>2. \A n \in 1 .. MaxUser : User(n) \in UserMessages
    BY FeedNumbers
  <2> QED
    BY <2>1, <2>2, LineNumbers, StoredTyped DEF FeedTyped, SendTyped, Sent
<1>3. ASSUME UNCHANGED <<submitted, post>>, Line' = Line, StoredLine' = StoredLine
      PROVE  AsStored'
  <2>1. NoneOut' <=> NoneOut
    BY <1>3 DEF NoneOut
  <2>2. User(submitted') = User(submitted)
    BY <1>3
  <2> QED
    BY <1>1, <1>3, <2>1, <2>2 DEF AsStored
<1>4. ASSUME NoneOut, NoneOut', submitted' = submitted \/ post' # "sending" \/ submitted' = 1,
             Line' = Line, StoredLine' = StoredLine
      PROVE  AsStored'
  <2>1. post' # "accepted" /\ ~(post' = "sending" /\ submitted' > 1)
    BY <1>4 DEF NoneOut, Unshown
  <2> QED
    BY <1>1, <1>4, <2>1 DEF AsStored
<1>5. /\ UNCHANGED viewVars => Line' = Line
      /\ UNCHANGED turnVars => StoredLine' = StoredLine
      /\ UNCHANGED talkVars => StoredLine' = StoredLine
  BY DEF Line, StoredLine, viewVars, turnVars, talkVars
<1>6. CASE Accept
  <2>1. /\ post = "sending" /\ post' = (IF submitted = 1 THEN "accepted" ELSE "none")
        /\ submitted' = submitted /\ UNCHANGED listVars
    BY <1>6 DEF Accept
  <2>2. User(submitted) \in UserMessages
    <3>1. submitted \in 1 .. MaxUser
      BY <1>2, <2>1 DEF SendTyped
    <3> QED
      BY <1>2, <3>1
  <2>3. ToSet(StoredLine') = ToSet(StoredLine) \cup {User(submitted)}
    <3>1. StoredLine' = Append(StoredLine, User(submitted))
      BY <1>1, <1>6, AcceptStores
    <3> QED
      BY <1>2, <2>2, <3>1, AppendSet
  <2>4. Line' = Line
    BY <2>1 DEF Line, listVars
  <2>5. CASE submitted = 1
    <3>1. NoneOut /\ ToSet(Line) = {}
      BY <1>2, <2>1, <2>5 DEF ToSet, NoneOut
    <3>2. ToSet(StoredLine') = {User(1)} /\ post' = "accepted"
      BY <1>1, <2>1, <2>3, <2>5, <3>1 DEF AsStored
    <3> QED
      BY <3>2 DEF AsStored, NoneOut, Unshown
  <2>6. CASE submitted # 1
    <3>1. submitted > 1 /\ post' = "none"
      BY <1>2, <2>1, <2>6
    <3>2. ToSet(Line') = ToSet(StoredLine')
      BY <1>1, <2>1, <2>3, <2>4, <3>1 DEF AsStored
    <3> QED
      BY <3>1, <3>2 DEF AsStored
  <2> QED
    BY <2>5, <2>6
<1>7. CASE AgentStep /\ ~Accept
  <2>1. UNCHANGED <<post, submitted, viewVars>>
    BY <1>7, AgentLeaves
  <2> QED
    BY <1>3, <1>5, <1>7, <2>1, AgentLists
<1>8. CASE OtherStep
  <2>1. UNCHANGED <<talkVars, viewVars>>
    BY <1>8, OthersLeave
  <2>2. StoredLine' = StoredLine /\ Line' = Line
    BY <1>5, <2>1
  <2>3. CASE Submit
    <3>1. /\ post = "none" /\ submitted' = submitted + 1
          /\ submitted = 0 => post' = "sending"
          /\ submitted # 0 => post' \in Unshown
      BY <2>3 DEF Submit, Unshown
    <3>2. NoneOut /\ NoneOut' /\ (post' # "sending" \/ submitted' = 1)
      BY <3>1 DEF NoneOut, Unshown
    <3> QED
      BY <1>4, <2>2, <3>2
  <2>4. CASE PlanDenied \/ LoadFails
    <3>1. post \in Unshown /\ post' \in Unshown \cup {"none"}
      BY <2>4 DEF PlanDenied, LoadFails, Unshown
    <3>2. NoneOut /\ NoneOut' /\ post' # "sending"
      BY <3>1 DEF NoneOut, Unshown
    <3> QED
      BY <1>4, <2>2, <3>2
  <2>5. CASE Answer \/ AnswerReturns
    BY <1>3, <2>2, <2>5 DEF Answer, AnswerReturns
  <2>6. CASE UNCHANGED sendVars
    BY <1>3, <2>2, <2>6 DEF sendVars
  <2> QED
    BY <1>8, <2>3, <2>4, <2>5, <2>6, OthersLeave DEF SendStep
<1>9. CASE UNCHANGED feedVars
  <2>1. UNCHANGED <<submitted, post, turnVars, messages, queuedMessages>>
    BY <1>9 DEF feedVars, sendVars, listVars
  <2> QED
    BY <1>3, <1>5, <2>1 DEF Line
<1>10. ASSUME NEW r \in Reconciliations, FinalizeInactive(r) \/ RestoreSnapshot(r)
       PROVE  AsStored'
  <2>1. UNCHANGED <<submitted, post, turnVars>>
    BY <1>10 DEF FinalizeInactive, RestoreSnapshot, ReconStep, sendVars
  <2>2. Line' = Line
    <3>1. RestoreSnapshot(r) => UNCHANGED listVars
      BY DEF RestoreSnapshot
    <3>2. FinalizeInactive(r) => Line' = Line
      BY <1>1, <1>2, OtherTidy DEF Tidy
    <3> QED
      BY <1>10, <3>1, <3>2 DEF Line, listVars
  <2> QED
    BY <1>3, <1>5, <2>1, <2>2
<1>11. CASE ReceiveSome \/ FlushFrame
  <2>1. UNCHANGED <<submitted, post, turnVars>>
    <3>1. FlushFrame => UNCHANGED <<submitted, post, turnVars>>
      BY DEF FlushFrame, sendVars
    <3>2. ReceiveSome => UNCHANGED <<submitted, post, turnVars>>
      BY Received DEF sendVars
    <3> QED
      BY <1>11, <3>1, <3>2
  <2>2. Line' = Line
    <3>1. ReceiveText => Line' = Line
      BY DEF ReceiveText, Line, listVars
    <3>2. ReceiveSome /\ ~ReceiveText => Line' = Line
      BY <1>1, <1>2, ReceiveTidy DEF ByEvent, Tidy
    <3>3. FlushFrame => Line' = Line
      BY <1>1, <1>2, OtherTidy DEF Tidy
    <3> QED
      BY <1>11, <3>1, <3>2, <3>3
  <2> QED
    BY <1>3, <1>5, <2>1, <2>2
<1>12. CASE AddMessageOrQueue
  <2>1. /\ post \in Unshown /\ post' = "sending" /\ submitted' = submitted /\ UNCHANGED turnVars
    BY <1>12 DEF AddMessageOrQueue, Unshown
  <2>2. submitted > 1 /\ submitted \in 1 .. MaxUser
    BY <1>2, <2>1 DEF SendTyped
  <2>3. StoredLine' = StoredLine /\ Line' = Append(Line, User(submitted))
    BY <1>1, <1>2, <1>5, <1>12, <2>1, AddShows
  <2>4. ToSet(Append(Line, User(submitted))) = ToSet(Line) \cup {User(submitted)}
    <3>1. User(submitted) \in UserMessages
      BY <1>2, <2>2
    <3> QED
      BY <1>2, <3>1, AppendSet
  <2>5. ToSet(Line') = ToSet(StoredLine') \cup {User(submitted)}
    BY <1>1, <2>1, <2>3, <2>4 DEF AsStored, NoneOut
  <2>6. User(submitted') = User(submitted) /\ post' # "accepted" /\ ~NoneOut'
    BY <2>1, <2>2 DEF NoneOut, Unshown
  <2> QED
    BY <2>5, <2>6 DEF AsStored
<1>13. CASE PostReturns
  <2>1. /\ post = "accepted" /\ submitted = 1 /\ post' = "none" /\ submitted' = submitted
        /\ Users(messages') = Append(Users(messages), User(1)) /\ queuedMessages' = queuedMessages
        /\ User(1) \in UserMessages
    BY <1>2, <1>13, PostReturnsShows DEF PostReturns
  <2>2. StoredLine' = StoredLine
    BY <1>5, <1>13, ViewLeaves DEF ViewStep
  <2>3. ToSet(Line') = {User(1)}
    <3>1. /\ Users(messages) \in Seq(UserMessages) /\ queuedMessages \in Seq(UserMessages)
          /\ Users(messages) \o queuedMessages = <<>>
      BY <1>2, <2>1, ShownTyped DEF ViewTyped, Line
    <3>2. ToSet(Users(messages) \o queuedMessages) = ToSet(Users(messages)) \cup ToSet(queuedMessages)
      BY <3>1, JoinSet
    <3>3. ToSet(Users(messages)) = {} /\ ToSet(queuedMessages) = {}
      BY <3>1, <3>2 DEF ToSet
    <3>4. /\ Users(messages') \in Seq(UserMessages)
          /\ ToSet(Users(messages')) = ToSet(Users(messages)) \cup {User(1)}
      <4>1. /\ Append(Users(messages), User(1)) \in Seq(UserMessages)
            /\ ToSet(Append(Users(messages), User(1))) = ToSet(Users(messages)) \cup {User(1)}
        <5>1. Users(messages) \in Seq(UserMessages) /\ User(1) \in UserMessages
          BY <2>1, <3>1
        <5> QED
          BY <5>1, AppendSet
      <4> QED
        BY <2>1, <4>1
    <3>5. ToSet(Users(messages') \o queuedMessages') = ToSet(Users(messages')) \cup ToSet(queuedMessages')
      BY <2>1, <3>1, <3>4, JoinSet
    <3>6. Line' = Users(messages') \o queuedMessages'
      BY DEF Line
    <3> QED
      BY <2>1, <3>3, <3>4, <3>5, <3>6
  <2>4. post' = "none" /\ ToSet(StoredLine') = {User(1)}
    BY <1>1, <2>1, <2>2 DEF AsStored
  <2> QED
    BY <2>3, <2>4 DEF AsStored
<1>14. CASE PostFails
  <2>1. submitted = 1 /\ submitted' = 0 /\ post = "sending" /\ post' = "none"
    BY <1>14 DEF PostFails, Note, Clean
  <2>2. Line' = Line
    BY <1>1, <1>2, <1>14, OtherTidy DEF Tidy
  <2>3. StoredLine' = StoredLine
    BY <1>5, <1>14, ViewLeaves DEF ViewStep
  <2>4. NoneOut /\ NoneOut' /\ post' # "sending"
    BY <2>1 DEF NoneOut
  <2> QED
    BY <1>4, <2>2, <2>3, <2>4
<1>15. CASE Stop \/ RemoveQueuedMessage
  BY <1>15 DEF Stop, RemoveQueuedMessage, Note, Clean
<1>16. ASSUME NEW r \in Reconciliations, SetMessagePage(r) PROVE AsStored'
  <2>1. /\ fetched[r] = db /\ deferred = <<>> /\ post = "none" /\ queuedMessages = <<>>
    BY <1>16, PageIsTable
  <2>2. messages' = fetched[r] /\ queuedMessages' = queuedMessages
    BY <1>2, <1>16, SetPageShows
  <2>3. post' = post /\ StoredLine' = StoredLine
    BY <1>5, <1>16 DEF SetMessagePage, ReconStep, sendVars
  <2>4. Line' = StoredLine
    <3>1. Line' = Users(messages') \o queuedMessages'
      BY DEF Line
    <3> QED
      BY <2>1, <2>2, <3>1 DEF StoredLine
  <2> QED
    BY <2>1, <2>3, <2>4 DEF AsStored
<1> QED
  BY <1>6, <1>7, <1>8, <1>9, <1>10, <1>11, <1>12, <1>13, <1>14, <1>15, <1>16, FeedSteps
     DEF ViewStep, PageStep

\* What the queued messages wait for: messages the backend has, the turn it is in, the
\* request under way, and results under way. A bool as a number.
Results(w) == Len(Only(w, {Of("result")}))
One(b) == IF b THEN 1 ELSE 0
Due == Len(inbox) + One(turn # 0) + One(post = "sending") + Results(wire)

LEMMA ResultsCount ==
  ASSUME NEW w \in Seq(Event)
  PROVE  /\ Results(w) \in Nat
         /\ \A e \in Seq(Event) : Results(w \o e) = Results(w) + Results(e) /\ Results(e) \in Nat
         /\ w # <<>> => /\ Head(w) = Of("result") => Results(w) = Results(Tail(w)) + 1
                        /\ Head(w) # Of("result") => Results(w) = Results(Tail(w))
                        /\ Results(Tail(w)) \in Nat
<1> DEFINE R == {Of("result")}
<1>1. \A s \in Seq(Event) : Only(s, R) \in Seq(Event) /\ Len(Only(s, R)) \in Nat
  BY OnlyElements
<1>2. ASSUME NEW e \in Seq(Event) PROVE Results(w \o e) = Results(w) + Results(e) /\ Results(e) \in Nat
  <2>1. Only(w \o e, R) = Only(w, R) \o Only(e, R)
    BY OnlyConcat
  <2>2. Only(w, R) \in Seq(Event) /\ Only(e, R) \in Seq(Event)
    BY <1>1
  <2> HIDE DEF R
  <2>3. Len(Only(w, R) \o Only(e, R)) = Len(Only(w, R)) + Len(Only(e, R))
    BY <2>2
  <2> QED
    BY <1>1, <2>1, <2>3 DEF Results, R
<1>3. ASSUME w # <<>>
      PROVE  /\ Head(w) = Of("result") => Results(w) = Results(Tail(w)) + 1
             /\ Head(w) # Of("result") => Results(w) = Results(Tail(w))
             /\ Results(Tail(w)) \in Nat
  <2> DEFINE t == Only(Tail(w), R)
  <2>1. /\ Head(w) \in R => Only(w, R) = <<Head(w)>> \o t
        /\ Head(w) \notin R => Only(w, R) = t
    BY <1>3, OnlyHead
  <2>2. t \in Seq(Event) /\ Head(w) \in Event
    BY <1>1, <1>3, HeadTail
  <2> HIDE DEF t
  <2>3. Len(<<Head(w)>> \o t) = Len(t) + 1 /\ Len(t) \in Nat
    BY <2>2
  <2> QED
    BY <2>1, <2>3 DEF Results, t
<1>4. Results(w) \in Nat
  BY <1>1 DEF Results
<1> QED
  BY <1>2, <1>3, <1>4

LEMMA AcceptSends ==
  ASSUME FeedTyped, Accept
  PROVE  UNCHANGED wire \/ Sends(<<Of("question_over")>>)
<1> DEFINE o == <<Of("question_over")>>
<1>1. wire \in Seq(Event) /\ link \in BOOLEAN /\ (link = FALSE => wire = <<>>)
  BY DEF FeedTyped, HubTyped
<1> HIDE DEF o
<1>2. Emit(<<>>) \/ Emit(o)
  BY DEF Accept, Emit, o
<1>3. wire \o <<>> = wire
  BY <1>1, ConcatEmptySeq
<1>4. UNCHANGED wire \/ Sends(o)
  BY <1>1, <1>2, <1>3 DEF Emit, Sends
<1> QED
  BY <1>4 DEF o

\* What the agent's steps leave true of what is shown, while the client is connected.
LEMMA AgentTells ==
  ASSUME FeedTyped, FeedTyped', Waiting, AgentStep, link = TRUE
  PROVE  /\ Speech(wire) \subseteq Speech(wire') /\ ToSet(wire) \subseteq ToSet(wire')
         /\ ToSet(said') \subseteq ToSet(said) \cup Speech(wire')
         /\ clock' = clock \/ (clock' = clock + 1 /\ clock' \in Speech(wire'))
         /\ ToSet(said) \subseteq ToSet(said') \/ Closes(wire')
         /\ Due <= Due' \/ Of("idle") \in ToSet(wire')
<1>1. /\ wire \in Seq(Event) /\ said \in Seq(Chunks) /\ inbox \in Seq(1 .. MaxUser)
      /\ Len(inbox) \in Nat /\ inbox' \in Seq(1 .. MaxUser) /\ Len(inbox') \in Nat
      /\ wire' \in Seq(Event) /\ Results(wire) \in Nat /\ Results(wire') \in Nat
      /\ turn \in Nat /\ turn' \in Nat
  <2>1. /\ wire \in Seq(Event) /\ said \in Seq(Chunks) /\ inbox \in Seq(1 .. MaxUser)
        /\ inbox' \in Seq(1 .. MaxUser) /\ wire' \in Seq(Event)
        /\ turn \in 0 .. MaxUser /\ turn' \in 0 .. MaxUser
    BY DEF FeedTyped, TurnTyped, HubTyped
  <2> QED
    BY <2>1, ResultsCount
<1>2. ASSUME NEW e \in Seq(Quiet), Sends(e)
      PROVE  /\ Speech(wire) = Speech(wire') /\ ToSet(wire') = ToSet(wire) \cup ToSet(e)
             /\ Results(wire') = Results(wire) + Results(e) /\ Results(e) \in Nat
  <2>1. wire' = wire \o e /\ e \in Seq(Event)
    BY <1>2, Events, SeqWider DEF Sends
  <2> QED
    BY <1>1, <2>1, WireQuiet, ResultsCount
<1>3. AgentStep => Accept \/ (post' = post /\ submitted' = submitted)
  BY AgentLeaves DEF sendVars
<1>4. \A b \in BOOLEAN : One(b) \in Nat
  BY DEF One
<1> DEFINE i == Len(inbox)
           j == Len(inbox')
           n == One(turn # 0)
           m == One(turn' # 0)
           p == One(post = "sending")
           q == One(post' = "sending")
           r == Results(wire)
           w == Results(wire')
<1>6. Due = i + n + p + r /\ Due' = j + m + q + w
  BY DEF Due
<1>7. ~Accept => q = p
  BY <1>3
<1>8. i \in Nat /\ j \in Nat /\ n \in Nat /\ m \in Nat /\ p \in Nat /\ q \in Nat /\ r \in Nat /\ w \in Nat
  BY <1>1, <1>4
<1> HIDE DEF i, j, n, m, p, q, r, w
<1>15. UNCHANGED inbox => j = i
  BY DEF i, j
<1>16. UNCHANGED turn => m = n
  BY DEF n, m
<1>5. CASE Accept
  <2>1. /\ UNCHANGED <<said, clock, turn>> /\ inbox' = Append(inbox, submitted)
        /\ post = "sending" /\ post' # "sending"
    BY <1>5 DEF Accept
  <2>0. /\ Speech(wire) = Speech(wire') /\ ToSet(wire) \subseteq ToSet(wire')
        /\ Results(wire') >= Results(wire)
    <3>1. UNCHANGED wire \/ Sends(<<Of("question_over")>>)
      BY <1>5, AcceptSends
    <3>2. CASE UNCHANGED wire
      BY <1>1, <3>2
    <3>3. CASE Sends(<<Of("question_over")>>)
      <4>1. <<Of("question_over")>> \in Seq(Quiet)
        BY AsideQuiet DEF Asides, Of
      <4> DEFINE a == Results(wire)
                 b == Results(wire')
                 c == Results(<<Of("question_over")>>)
      <4>2. /\ Speech(wire) = Speech(wire') /\ ToSet(wire) \subseteq ToSet(wire')
            /\ b = a + c /\ c \in Nat /\ a \in Nat
        BY <1>1, <1>2, <3>3, <4>1
      <4> HIDE DEF a, b, c
      <4>3. b >= a
        BY <4>2
      <4> QED
        BY <4>2, <4>3 DEF a, b
    <3> QED
      BY <3>1, <3>2, <3>3
  <2>2. Len(inbox') = Len(inbox) + 1
    BY <1>1, <2>1, LenAppend
  <2>3. One(post = "sending") = 1 /\ One(post' = "sending") = 0
    BY <2>1 DEF One
  <2>4. Due <= Due'
    <3>1. j = i + 1 /\ m = n /\ p = 1 /\ q = 0 /\ w >= r
      BY <1>16, <2>0, <2>1, <2>2, <2>3 DEF i, j, p, q, r, w
    <3> QED
      BY <1>6, <1>8, <3>1
  <2> QED
    BY <2>0, <2>1, <2>4
<1>9. CASE ~Accept /\ BeginTurn
  <2>1. /\ Sends(<<Of("init")>>) /\ UNCHANGED <<said, clock>> /\ turn = 0 /\ inbox # <<>>
        /\ turn' = Head(inbox) /\ inbox' = Tail(inbox)
    <3>1. link = TRUE => Sends(<<Of("init")>>)
      BY <1>9 DEF BeginTurn, Emit, Sends
    <3> QED
      BY <1>9, <3>1 DEF BeginTurn
  <2>2. Of("init") \in Quiet
    BY DEF Of, Quiet
  <2>3. <<Of("init")>> \in Seq(Quiet)
    BY <2>2
  <2>4. Len(inbox') = Len(inbox) - 1
    BY <1>1, <2>1
  <2>5. One(turn # 0) = 0 /\ One(turn' # 0) = 1
    <3>1. Head(inbox) \in 1 .. MaxUser
      BY <1>1, <2>1, HeadTail
    <3>2. turn' # 0
      BY <2>1, <3>1
    <3> QED
      BY <2>1, <3>2 DEF One
  <2>6. Results(wire') >= Results(wire)
    <3>1. /\ Results(wire') = Results(wire) + Results(<<Of("init")>>)
          /\ Results(<<Of("init")>>) \in Nat
      BY <1>2, <2>1, <2>3
    <3> QED
      BY <1>1, <3>1
  <2>7. Due <= Due'
    <3>1. j = i - 1 /\ n = 0 /\ m = 1 /\ w >= r
      BY <2>4, <2>5, <2>6 DEF i, j, n, m, r, w
    <3> QED
      BY <1>6, <1>7, <1>8, <1>9, <3>1
  <2> QED
    BY <1>2, <2>1, <2>3, <2>7
<1>10. ASSUME ~Accept, NEW a \in Asides, Sends(<<a>>),
              UNCHANGED <<said, clock, db, deferred, inbox, turn>>
       PROVE  /\ Speech(wire) \subseteq Speech(wire') /\ ToSet(wire) \subseteq ToSet(wire')
              /\ UNCHANGED <<said, clock>> /\ Due <= Due'
  <2>1. <<a>> \in Seq(Quiet)
    BY AsideQuiet
  <2>2. /\ Results(wire') = Results(wire) + Results(<<a>>) /\ Results(<<a>>) \in Nat
        /\ Speech(wire) = Speech(wire') /\ ToSet(wire) \subseteq ToSet(wire')
    BY <1>2, <1>10, <2>1
  <2>3. Due <= Due'
    <3>1. w = r + Results(<<a>>) /\ Results(<<a>>) \in Nat
      BY <2>2 DEF r, w
    <3>2. w >= r
      BY <1>8, <3>1
    <3> QED
      BY <1>6, <1>7, <1>8, <1>10, <1>15, <1>16, <3>2
  <2> QED
    BY <1>10, <2>2, <2>3
<1>14. ASSUME ~Accept, UNCHANGED <<wire, said, clock, db, deferred, inbox, turn>>
       PROVE  Due <= Due'
  <2>1. w = r
    BY <1>14 DEF r, w
  <2> QED
    BY <1>6, <1>7, <1>8, <1>14, <1>15, <1>16,   <2>1
<1>11. CASE /\ ~Accept /\ clock + 1 \in Chunks /\ said' = Append(said, clock + 1) /\ clock' = clock + 1
            /\ Sends(<<[type |-> "assistant_text", chunk |-> clock + 1]>>)
            /\ UNCHANGED <<db, deferred, inbox, turn>>
  <2> DEFINE e == [type |-> "assistant_text", chunk |-> clock + 1]
  <2>1. wire' = wire \o <<e>>
    BY <1>11 DEF Sends
  <2>2. <<e>> \in Seq(Event)
    <3>1. e \in Event
      BY <1>11, Events
    <3> HIDE DEF e
    <3> QED
      BY <3>1
  <2>3. Speech(wire') = Speech(wire) \cup {clock + 1} /\ ToSet(wire) \subseteq ToSet(wire')
    BY <1>1, <1>11, <2>1, WireSpeech
  <2>4. ToSet(said') = ToSet(said) \cup {clock + 1}
    BY <1>1, <1>11, AppendSet
  <2>5. Results(wire') = Results(wire) + Results(<<e>>) /\ Results(<<e>>) \in Nat
    BY <1>1, <2>1, <2>2, ResultsCount
  <2> HIDE DEF e
  <2>6. Due <= Due'
    <3>1. w = r + Results(<<e>>) /\ Results(<<e>>) \in Nat
      BY <2>5 DEF r, w
    <3>2. w >= r
      BY <1>8, <3>1
    <3> QED
      BY <1>6, <1>7, <1>8, <1>11, <1>15, <1>16, <3>2
  <2> QED
    BY <1>11, <2>3, <2>4, <2>6
<1>12. CASE ~Accept /\ Sends(<<Of("result"), Of("turn_complete")>>) /\ StoreTurn /\ inbox' = inbox /\ turn # 0
  <2> DEFINE e == <<Of("result"), Of("turn_complete")>>
  <2>1. said' = <<>> /\ clock' = clock /\ turn' = 0
    BY <1>12 DEF StoreTurn
  <2>2. Results(e) >= 1 /\ e \in Seq(Quiet)
    <3>1. e \in Seq(Event) /\ e # <<>> /\ Head(e) = Of("result") /\ e \in Seq(Quiet)
      <4>1. e \in Seq(Quiet)
        BY EndsTurn
      <4>2. e \in Seq(Event)
        BY <4>1, Events, SeqWider
      <4> QED
        BY <4>1, <4>2
    <3> HIDE DEF e
    <3>2. Results(e) = Results(Tail(e)) + 1 /\ Results(Tail(e)) \in Nat
      BY <3>1, ResultsCount
    <3> QED
      BY <3>1, <3>2
  <2>3. Closes(e)
    BY EndsTurn
  <2> HIDE DEF e
  <2>4. /\ Speech(wire) = Speech(wire') /\ ToSet(wire') = ToSet(wire) \cup ToSet(e)
        /\ Results(wire') >= Results(wire) + 1
    <3>1. Sends(e)
      BY <1>12 DEF e
    <3>2. /\ Speech(wire) = Speech(wire') /\ ToSet(wire') = ToSet(wire) \cup ToSet(e)
          /\ Results(wire') = Results(wire) + Results(e) /\ Results(e) \in Nat
      BY <1>2, <2>2, <3>1
    <3> QED
      BY <1>1, <2>2, <3>2
  <2>5. One(turn # 0) = 1 /\ One(turn' # 0) = 0
    BY <1>12, <2>1 DEF One
  <2>6. Due <= Due'
    <3>1. n = 1 /\ m = 0 /\ w >= r + 1
      BY <2>4, <2>5 DEF n, m, r, w
    <3> QED
      BY <1>6, <1>7, <1>8, <1>12, <1>15, <3>1
  <2>7. Closes(wire')
    BY <2>3, <2>4 DEF Closes
  <2>8. ToSet(said') = {}
    BY <2>1 DEF ToSet
  <2> QED
    BY <2>1, <2>4, <2>6, <2>7, <2>8
<1>13. ASSUME NEW last \in Seq(Quiet), Sends(Append(last, Of("idle"))), StoreTurn
       PROVE  /\ Speech(wire) \subseteq Speech(wire') /\ ToSet(wire) \subseteq ToSet(wire')
              /\ ToSet(said') \subseteq ToSet(said) \cup Speech(wire')
              /\ clock' = clock /\ Closes(wire') /\ Of("idle") \in ToSet(wire')
  <2> DEFINE e == Append(last, Of("idle"))
  <2>1. e \in Seq(Quiet) /\ Of("idle") \in ToSet(e) /\ Closes(e)
    BY EndsTurn
  <2> HIDE DEF e
  <2>2. Speech(wire) = Speech(wire') /\ ToSet(wire') = ToSet(wire) \cup ToSet(e)
    BY <1>2, <1>13, <2>1 DEF e
  <2>3. ToSet(said') = {} /\ clock' = clock
    BY <1>13 DEF StoreTurn, ToSet
  <2> QED
    BY <2>1, <2>2, <2>3 DEF Closes
<1> QED
  BY <1>5, <1>9, <1>10, <1>11, <1>12, <1>13, <1>14, AgentSends

LEMMA TextTold ==
  ASSUME ViewTyped, HubTyped, ReceiveText, Clean'
  PROVE  /\ Head(wire).type = "assistant_text" /\ UNCHANGED <<recon, fetched, listVars>>
         /\ Reconciling => \A r \in Reconciliations : InSnapshot(r) =>
                              recon[r] = "snapping" \/ Head(wire).chunk \in ToSet(fetched[r])
         /\ Reconciling => ToSet(Streamed') = ToSet(Streamed)
         /\ ~Reconciling => /\ ToSet(Shown') = ToSet(Shown) \cup {Head(wire).chunk}
                            /\ ToSet(Streamed') = ToSet(Streamed) \cup {Head(wire).chunk}
<1> DEFINE c == Head(wire).chunk
           a == Texts(messages) \o text
<1>1. /\ wire \in Seq(Event) /\ wire # <<>> /\ Head(wire).type = "assistant_text"
      /\ UNCHANGED <<text, listVars, reconVars>>
  BY DEF ReceiveText, Receive, HubTyped
<1>2. c \in Chunks
  BY <1>1, WireTail
<1>3. buffer \in Seq(Chunks) /\ text \in Seq(Chunks) /\ a \in Seq(Chunks)
  BY ShownTyped DEF ViewTyped
<1>4. ASSUME Reconciling
      PROVE  /\ \A r \in Reconciliations : InSnapshot(r) => recon[r] = "snapping" \/ c \in ToSet(fetched[r])
             /\ buffer' = buffer
  <2> DEFINE P == \A r \in Reconciliations : InSnapshot(r) => recon[r] = "snapping" \/ c \in ToSet(fetched[r])
  <2>1. Note(IF P THEN {} ELSE {"gap"}) /\ buffer' = buffer
    BY <1>4 DEF ReceiveText
  <2> HIDE DEF P
  <2>2. (IF P THEN {} ELSE {"gap"}) = {}
    BY <2>1, NotedNothing
  <2>3. P
    BY <2>2
  <2> QED
    BY <2>1, <2>3 DEF P
<1>5. ASSUME ~Reconciling
      PROVE  ToSet(Shown') = ToSet(Shown) \cup {c} /\ ToSet(Streamed') = ToSet(Streamed) \cup {c}
  <2>1. buffer' = Append(buffer, c)
    BY <1>5 DEF ReceiveText
  <2> HIDE DEF c
  <2>2. Append(buffer, c) \in Seq(Chunks) /\ ToSet(Append(buffer, c)) = ToSet(buffer) \cup {c}
    BY <1>2, <1>3, AppendSet
  <2>3. Shown' = a \o Append(buffer, c) /\ Streamed' = text \o Append(buffer, c)
        /\ Shown = a \o buffer /\ Streamed = text \o buffer
    BY <1>1, <2>1 DEF Shown, Streamed, listVars
  <2> HIDE DEF a
  <2>4. \A s \in Seq(Chunks) : \A t \in Seq(Chunks) : ToSet(s \o t) = ToSet(s) \cup ToSet(t)
    BY JoinSet
  <2>5. /\ ToSet(Shown') = ToSet(a) \cup ToSet(Append(buffer, c))
        /\ ToSet(Shown) = ToSet(a) \cup ToSet(buffer)
    BY <1>3, <2>2, <2>3, <2>4
  <2>6. /\ ToSet(Streamed') = ToSet(text) \cup ToSet(Append(buffer, c))
        /\ ToSet(Streamed) = ToSet(text) \cup ToSet(buffer)
    BY <1>3, <2>2, <2>3, <2>4
  <2> QED
    BY <2>2, <2>5, <2>6
<1>6. Reconciling => Streamed' = Streamed
  BY <1>1, <1>4 DEF Streamed
<1> QED
  BY <1>1, <1>4, <1>5, <1>6 DEF reconVars

\* The text of the turn, while the client is connected: in the stream, on the way or in an
\* answer, unless a snapshot is still to be asked for.
Early == {"asked", "active", "inactive", "snapping"}
Holding == {"snapped", "repaging", "repaged"}
Begun == \E r \in Reconciliations : recon[r] \in Early
Answers == {x \in Items : \E r \in Reconciliations : recon[r] \in Holding /\ x \in ToSet(fetched[r])}
Empties == \A r \in Reconciliations : recon[r] = "repaging" => fetched[r] = <<>>
Fetching ==
    Clean /\ link = TRUE =>
        Begun \/ ToSet(said) \subseteq ToSet(Streamed) \cup Speech(wire) \cup Answers

\* The steps of reconciliations, each on one of them.
FetchStep(r) == ServerAnswers(r) \/ ReconFails(r) \/ BeginSnapshot(r) \/ NoSnapshot(r) \/ PageStep(r)

LEMMA ReconSteps ==
  ASSUME [FeedNext]_feedVars
  PROVE  UNCHANGED reconVars \/ ClientReconnects \/ \E r \in Reconciliations : FetchStep(r)
<1>1. CASE AgentStep
  BY <1>1, AgentLeaves
<1>2. CASE ViewStep
  BY <1>2, ViewLeaves DEF FetchStep
<1>3. CASE OtherStep
  <2>1. SendStep => UNCHANGED reconVars
    BY SendLeaves
  <2>2. Disconnect \/ HubFaults => UNCHANGED reconVars
    BY DEF Disconnect, HubFaults
  <2> QED
    BY <1>3, <2>1, <2>2 DEF OtherStep, FetchStep
<1>4. CASE UNCHANGED feedVars
  BY <1>4 DEF feedVars
<1> QED
  BY <1>1, <1>2, <1>3, <1>4, FeedSteps

LEMMA FetchesOne ==
  ASSUME ReconTyped, NEW r \in Reconciliations
  PROVE  /\ \A s : Fetches(r, s) => /\ fetched'[r] = s
                                    /\ \A q \in Reconciliations : q = r \/ fetched'[q] = fetched[q]
         /\ \A z : Goes(r, z) => /\ recon'[r] = z
                                 /\ \A q \in Reconciliations : q = r \/ recon'[q] = recon[q]
<1>1. DOMAIN fetched = Reconciliations /\ DOMAIN recon = Reconciliations
  BY DEF ReconTyped
<1> QED
  BY <1>1 DEF Fetches, Goes

LEMMA FetchMoves ==
  ASSUME ReconTyped, NEW r \in Reconciliations, FetchStep(r)
  PROVE  \E z : /\ Goes(r, z)
                /\ \A q \in Reconciliations : q = r \/ fetched'[q] = fetched[q]
                /\ z = "repaging" => fetched'[r] = <<>>
<1>1. CASE ServerAnswers(r)
  <2>1. \/ Goes(r, IF running THEN "active" ELSE "inactive") /\ fetched' = fetched
        \/ \E z \in {"paged", "repaged", "snapped"} : Goes(r, z) /\ \E s : Fetches(r, s)
    BY <1>1 DEF ServerAnswers
  <2>2. CASE Goes(r, IF running THEN "active" ELSE "inactive") /\ fetched' = fetched
    BY <2>2
  <2>3. ASSUME NEW z \in {"paged", "repaged", "snapped"}, Goes(r, z), NEW s, Fetches(r, s)
        PROVE  \E y : /\ Goes(r, y)
                      /\ \A q \in Reconciliations : q = r \/ fetched'[q] = fetched[q]
                      /\ y = "repaging" => fetched'[r] = <<>>
    BY <2>3, FetchesOne
  <2> QED
    BY <2>1, <2>2, <2>3
<1>2. CASE ReconFails(r) \/ RestoreSnapshot(r) \/ SetMessagePage(r)
  <2>1. Goes(r, "none") /\ Fetches(r, <<>>)
    BY <1>2 DEF ReconFails, RestoreSnapshot, SetMessagePage, Finish
  <2> QED
    BY <2>1, FetchesOne
<1>3. CASE BeginSnapshot(r) \/ FinalizeInactive(r)
  <2>1. (Goes(r, "snapping") \/ Goes(r, "paging")) /\ fetched' = fetched
    BY <1>3 DEF BeginSnapshot, FinalizeInactive
  <2> QED
    BY <2>1
<1>4. CASE NoSnapshot(r)
  <2>1. Goes(r, "repaging") /\ fetched' = fetched /\ fetched[r] = <<>>
    BY <1>4 DEF NoSnapshot
  <2> QED
    BY <2>1
<1> QED
  BY <1>1, <1>2, <1>3, <1>4 DEF FetchStep, PageStep

LEMMA AnswersMove ==
  ASSUME ReconTyped, Empties, NEW r \in Reconciliations, NEW z, Goes(r, z),
         \A q \in Reconciliations : q = r \/ fetched'[q] = fetched[q],
         z = "repaging" => fetched'[r] = <<>>
  PROVE  /\ recon'[r] = z /\ Empties'
         /\ \A x \in Answers : x \in Answers' \/ (recon[r] \in Holding /\ x \in ToSet(fetched[r]))
         /\ z \in Holding /\ ToSet(fetched[r]) \subseteq ToSet(fetched'[r]) => Answers \subseteq Answers'
         /\ z \in Early => Begun'
         /\ recon[r] \notin Early => (Begun => Begun')
<1>1. recon'[r] = z /\ \A q \in Reconciliations : q = r \/ recon'[q] = recon[q]
  BY FetchesOne
<1>2. Empties'
  BY <1>1 DEF Empties
<1>3. \A x \in Answers : x \in Answers' \/ (recon[r] \in Holding /\ x \in ToSet(fetched[r]))
  <2>1. SUFFICES ASSUME NEW x \in Answers
                 PROVE  x \in Answers' \/ (recon[r] \in Holding /\ x \in ToSet(fetched[r]))
    OBVIOUS
  <2>2. PICK q \in Reconciliations : recon[q] \in Holding /\ x \in ToSet(fetched[q])
    BY <2>1 DEF Answers
  <2>3. x \in Items'
    BY <2>1 DEF Answers, Items
  <2>4. CASE q = r
    BY <2>2, <2>4
  <2>5. CASE q # r
    <3>1. recon'[q] \in Holding /\ x \in ToSet(fetched'[q])
      BY <1>1, <2>2, <2>5
    <3>2. q \in Reconciliations'
      BY DEF Reconciliations
    <3> QED
      BY <2>3, <3>1, <3>2 DEF Answers, Holding
  <2> QED
    BY <2>4, <2>5
<1>4. ASSUME z \in Holding, ToSet(fetched[r]) \subseteq ToSet(fetched'[r])
      PROVE  Answers \subseteq Answers'
  <2>1. ASSUME NEW x \in Items, x \in ToSet(fetched'[r]) PROVE x \in Answers'
    BY <1>1, <1>4, <2>1 DEF Answers
  <2>2. Answers \subseteq Items
    BY DEF Answers
  <2> QED
    BY <1>3, <1>4, <2>1, <2>2
<1>5. z \in Early => Begun'
  BY <1>1 DEF Begun
<1>6. recon[r] \notin Early => (Begun => Begun')
  BY <1>1 DEF Begun
<1> QED
  BY <1>1, <1>2, <1>3, <1>4, <1>5, <1>6

LEMMA EmptiesStep ==
  ASSUME FeedTyped, Empties, [FeedNext]_feedVars
  PROVE  Empties'
<1>0. ReconTyped
  BY DEF FeedTyped
<1>1. CASE UNCHANGED reconVars
  BY <1>1 DEF Empties, reconVars
<1>2. CASE ClientReconnects
  <2>1. fetched' = fetched /\ \A q \in Reconciliations : recon'[q] = recon[q] \/ recon'[q] = "asked"
    BY <1>0, <1>2 DEF ClientReconnects, ReconTyped
  <2> QED
    BY <2>1 DEF Empties
<1>3. ASSUME NEW r \in Reconciliations, FetchStep(r) PROVE Empties'
  <2>1. PICK z : /\ Goes(r, z)
                 /\ \A q \in Reconciliations : q = r \/ fetched'[q] = fetched[q]
                 /\ z = "repaging" => fetched'[r] = <<>>
    BY <1>0, <1>3, FetchMoves
  <2> QED
    BY <1>0, <2>1, AnswersMove
<1> QED
  BY <1>1, <1>2, <1>3, ReconSteps

\* What is noted when a snapshot is restored.
LEMMA RestoreNotes ==
  ASSUME ReconTyped, TurnTyped, NEW r \in Reconciliations, RestoreSnapshot(r), Clean'
  PROVE  /\ turn # 0 /\ buffer = <<>> /\ ToSet(db) \subseteq ToSet(messages)
         /\ ToSet(text) \subseteq ToSet(fetched[r])
         /\ ToSet(fetched[r]) \cap ToSet(messages) = {}
<1> DEFINE a == IF said = <<>> \/ turn = 0 THEN {"late"} ELSE {}
           b == IF ToSet(db) \subseteq ToSet(messages) THEN {} ELSE {"missed"}
           d == IF ToSet(text) \subseteq ToSet(fetched[r]) THEN {} ELSE {"gap"}
           c == IF \/ ToSet(fetched[r] \o said) \cap ToSet(messages) # {}
                   \/ ToSet(fetched[r]) \cap Coming # {} \/ buffer # <<>>
                THEN {"overlap"} ELSE {}
<1>1. Note(a \cup b \cup d \cup c)
  BY DEF RestoreSnapshot
<1> HIDE DEF a, b, c, d
<1>2. a \cup b \cup d \cup c = {}
  BY <1>1, NotedNothing
<1>3. a = {} /\ b = {} /\ c = {} /\ d = {}
  BY <1>2
<1>4. turn # 0
  BY <1>3 DEF a
<1>5. ToSet(db) \subseteq ToSet(messages)
  BY <1>3 DEF b
<1>6. ToSet(fetched[r] \o said) \cap ToSet(messages) = {} /\ buffer = <<>>
  BY <1>3 DEF c
<1>7. ToSet(text) \subseteq ToSet(fetched[r])
  BY <1>3 DEF d
<1>8. ToSet(fetched[r]) \subseteq ToSet(fetched[r] \o said)
  <2>1. fetched[r] \in Seq(Items) /\ said \in Seq(Items)
    BY FeedNumbers, SeqWider DEF ReconTyped, TurnTyped
  <2> QED
    BY <2>1, JoinSet
<1> QED
  BY <1>4, <1>5, <1>6, <1>7, <1>8

\* Text of the table is in the range of what was said, the other text is that of the turn.
LEMMA SaidOrStored ==
  ASSUME TurnTyped, Told
  PROVE  /\ 1 .. clock = ToSet(Texts(db)) \cup ToSet(said)
         /\ ToSet(Texts(db)) = ToSet(db) \cap Chunks
         /\ ToSet(said) \cap ToSet(db) = {}
<1>1. PICK k \in 0 .. clock : ToSet(Texts(db)) = 1 .. k /\ ToSet(said) = k + 1 .. clock
  BY ToldIs
<1>2. db \in Seq(Items) /\ clock \in Nat
  BY FeedNumbers DEF TurnTyped
<1>3. ToSet(Texts(db)) = ToSet(db) \cap Chunks
  BY <1>2, TextsAndUsers
<1>4. ToSet(said) \cap ToSet(db) = {}
  <2>1. ASSUME NEW x \in ToSet(said), x \in ToSet(db) PROVE FALSE
    <3>1. x \in Chunks
      BY SetOfList DEF TurnTyped
    <3>2. x \in 1 .. k /\ x \in k + 1 .. clock
      BY <1>1, <1>3, <2>1, <3>1
    <3> QED
      BY <1>2, <3>2
  <2> QED
    BY <2>1
<1> QED
  BY <1>1, <1>2, <1>3, <1>4

LEMMA FetchingKept ==
  ASSUME FeedTyped, FeedTyped', Waiting, Away, Paced, Streaming, Fetching, [FeedNext]_feedVars,
         UNCHANGED reconVars
  PROVE  Fetching'
<1> DEFINE S == ToSet(said)
           T == ToSet(said')
           A == Speech(wire)
           B == Speech(wire')
           F == Answers
           V == ToSet(Streamed)
           W == ToSet(Streamed')
<1> SUFFICES ASSUME Clean', link' = TRUE, ~Begun PROVE T \subseteq W \cup B \cup F
  <2>1. Answers' = Answers /\ (Begun' <=> Begun)
    BY DEF reconVars, Answers, Begun, Reconciliations, Items, Holding, Early
  <2> QED
    BY <2>1 DEF Fetching
<1>1. /\ wire \in Seq(Event) /\ ViewTyped /\ HubTyped /\ ReconTyped
      /\ link \in BOOLEAN /\ Lit /\ Clean
      /\ link = TRUE => S \subseteq V \cup A \cup F
  BY StaysClean DEF FeedTyped, HubTyped, Streaming, Fetching
<1>2. Opened(wire, S)
  BY <1>1 DEF Paced
<1>3. ASSUME link = TRUE, A \subseteq B, T \subseteq S \cup B, V \subseteq W
      PROVE  T \subseteq W \cup B \cup F
  <2> HIDE DEF S, T, A, B, F, V, W
  <2> QED
    BY <1>1, <1>3
<1>4. ASSUME UNCHANGED <<text, buffer>> PROVE W = V
  BY <1>4 DEF Streamed
<1>5. said' = said /\ wire' = wire => A \subseteq B /\ T \subseteq S \cup B
  OBVIOUS
<1>6. CASE AgentStep
  <2>1. UNCHANGED <<viewVars, link>>
    BY <1>6, AgentLeaves
  <2>2. A \subseteq B /\ T \subseteq S \cup B
    BY <1>6, <2>1, AgentTells
  <2>3. W = V
    BY <1>4, <2>1 DEF viewVars
  <2> HIDE DEF S, T, A, B, F, V, W
  <2> QED
    BY <1>3, <2>1, <2>2, <2>3
<1>7. CASE UNCHANGED feedVars
  <2>1. UNCHANGED <<text, buffer, link, said, wire>>
    BY <1>7 DEF feedVars, streamingVars, hubVars, turnVars
  <2> QED
    BY <1>3, <1>4, <1>5, <2>1
<1>8. CASE SendStep
  <2>1. UNCHANGED <<text, buffer, link, said, wire>>
    <3>1. UNCHANGED <<talkVars, viewVars, wire, link>>
      BY <1>8, SendLeaves
    <3> QED
      BY <3>1 DEF talkVars, viewVars
  <2> QED
    BY <1>3, <1>4, <1>5, <2>1
<1>9. CASE ReceiveSome
  <2>1. /\ wire # <<>> /\ wire' = Tail(wire) /\ said' = said /\ link = TRUE /\ T = S
    BY <1>9, Received DEF turnVars
  <2>2. /\ Head(wire).type # "assistant_text" => B = A
        /\ Head(wire).type = "assistant_text" => A = B \cup {Head(wire).chunk}
        /\ Head(wire).type \notin Neutral => S \subseteq B
        /\ Head(wire).type = "assistant_text" => Head(wire).chunk \in Chunks
    BY <1>1, <1>2, <2>1, WireTail
  <2>3. CASE ReceiveText
    <3> DEFINE c == Head(wire).chunk
    <3>1. /\ Head(wire).type = "assistant_text"
          /\ Reconciling => \A r \in Reconciliations : InSnapshot(r) =>
                               recon[r] = "snapping" \/ c \in ToSet(fetched[r])
          /\ Reconciling => W = V
          /\ ~Reconciling => W = V \cup {c}
      BY <1>1, <2>3, TextTold
    <3>2. A = B \cup {c} /\ c \in Items
      BY <2>2, <3>1, FeedNumbers
    <3> HIDE DEF S, T, A, B, V, W, c
    <3>3. Reconciling => c \in F
      <4>1. ASSUME NEW r \in Reconciliations, InSnapshot(r) PROVE c \in F
        <5>1. recon[r] \in Holding
          BY <4>1 DEF InSnapshot, Holding, Begun, Early
        <5>2. c \in ToSet(fetched[r])
          BY <3>1, <4>1, <5>1 DEF Reconciling, Holding
        <5> QED
          BY <3>2, <5>1, <5>2 DEF Answers
      <4> QED
        BY <4>1 DEF Reconciling
    <3> HIDE DEF F
    <3> QED
      BY <1>1, <2>1, <3>1, <3>2, <3>3
  <2>4. CASE ~ReceiveText
    <3>1. /\ Head(wire).type # "assistant_text"
          /\ Head(wire).type \in Neutral => W = V
      BY <1>1, <1>9, <2>4, ReceiveTidy DEF ByEvent
    <3> HIDE DEF S, T, A, B, F, V, W
    <3>2. CASE Head(wire).type \in Neutral
      BY <1>1, <2>1, <2>2, <3>1, <3>2
    <3>3. CASE Head(wire).type \notin Neutral
      BY <2>1, <2>2, <3>3
    <3> QED
      BY <3>2, <3>3
  <2> QED
    BY <2>3, <2>4
<1>10. CASE FlushFrame \/ PostFails
  <2>1. W = V
    BY <1>1, <1>10, OtherTidy
  <2>2. UNCHANGED <<said, wire, link>>
    BY <1>10 DEF FlushFrame, PostFails, turnVars, hubVars
  <2> QED
    BY <1>3, <1>5, <2>1, <2>2
<1>11. CASE AddMessageOrQueue \/ PostReturns
  <2>1. UNCHANGED <<said, wire, link, text, buffer>>
    BY <1>11 DEF AddMessageOrQueue, PostReturns, turnVars, hubVars
  <2> QED
    BY <1>3, <1>4, <1>5, <2>1
<1>12. CASE Stop \/ RemoveQueuedMessage \/ Disconnect \/ HubFaults
  BY <1>12 DEF Stop, RemoveQueuedMessage, Disconnect, HubFaults, Note, Clean
<1>13. ASSUME NEW r \in Reconciliations, FetchStep(r) PROVE FALSE
  <2>1. PICK z : Goes(r, z) /\ z # recon[r]
    <3>1. ServerAnswers(r) => \E z : Goes(r, z) /\ z # recon[r]
      BY DEF ServerAnswers
    <3>2. ReconFails(r) \/ RestoreSnapshot(r) \/ SetMessagePage(r) => Goes(r, "none") /\ recon[r] # "none"
      BY DEF ReconFails, RestoreSnapshot, SetMessagePage, Finish
    <3>3. BeginSnapshot(r) => Goes(r, "snapping") /\ recon[r] = "active"
      BY DEF BeginSnapshot
    <3>4. NoSnapshot(r) => Goes(r, "repaging") /\ recon[r] = "snapped"
      BY DEF NoSnapshot
    <3>5. FinalizeInactive(r) => Goes(r, "paging") /\ recon[r] = "inactive"
      BY DEF FinalizeInactive
    <3> QED
      BY <1>13, <3>1, <3>2, <3>3, <3>4, <3>5 DEF FetchStep, PageStep
  <2> QED
    BY <1>1, <2>1, FetchesOne DEF reconVars
<1>14. CASE ClientReconnects
  <2>1. link = FALSE /\ isStreaming = TRUE /\ recon' = [recon EXCEPT ![faults] = "asked"]
    BY <1>1, <1>14 DEF ClientReconnects, Note, Clean, ViewTyped
  <2>2. recon'[faults] = "asked" /\ faults \in Reconciliations
    BY <1>1, <2>1 DEF Away, ReconTyped
  <2> QED
    BY <2>2 DEF reconVars, Begun, Early
<1> QED
  BY <1>6, <1>7, <1>8, <1>9, <1>10, <1>11, <1>12, <1>13, <1>14, FeedSteps
     DEF OtherStep, ViewStep, FetchStep

LEMMA FetchingStep ==
  ASSUME FeedTyped, FeedTyped', Told, Waiting, Away, Paced, Streaming, Empties, Fetching,
         [FeedNext]_feedVars
  PROVE  Fetching'
<1> DEFINE S == ToSet(said)
           T == ToSet(said')
           A == Speech(wire)
           B == Speech(wire')
           F == Answers
           G == Answers'
           V == ToSet(Streamed)
           W == ToSet(Streamed')
<1>1. CASE UNCHANGED reconVars
  BY <1>1, FetchingKept
<1> SUFFICES ASSUME Clean', link' = TRUE, ~Begun', ~UNCHANGED reconVars
             PROVE  T \subseteq W \cup B \cup G
  BY <1>1 DEF Fetching
<1>2. /\ ViewTyped /\ HubTyped /\ ReconTyped /\ TurnTyped /\ link \in BOOLEAN /\ Clean
      /\ link = TRUE => Begun \/ S \subseteq V \cup A \cup F
  BY StaysClean DEF FeedTyped, HubTyped, Fetching
<1>3. CASE ClientReconnects
  <2>1. link = FALSE /\ isStreaming = TRUE /\ recon' = [recon EXCEPT ![faults] = "asked"]
    BY <1>2, <1>3 DEF ClientReconnects, Note, Clean, ViewTyped
  <2>2. recon'[faults] = "asked" /\ faults \in Reconciliations
    BY <1>2, <2>1 DEF Away, ReconTyped
  <2>3. faults \in Reconciliations'
    BY <2>2 DEF Reconciliations
  <2> QED
    BY <2>2, <2>3 DEF Begun, Early
<1>4. ASSUME NEW r \in Reconciliations, FetchStep(r) PROVE T \subseteq W \cup B \cup G
  <2>1. ~ReconFails(r)
    BY <1>4 DEF ReconFails, Note, Clean
  <2>2. UNCHANGED <<turnVars, hubVars>>
    BY <1>4, <2>1 DEF FetchStep, PageStep, ServerAnswers, BeginSnapshot, NoSnapshot,
       FinalizeInactive, RestoreSnapshot, SetMessagePage, ReconStep
  <2>3. T = S /\ B = A /\ link = TRUE /\ UNCHANGED <<said, db>>
    BY <2>2 DEF turnVars, hubVars
  <2>4. Begun \/ S \subseteq V \cup A \cup F
    BY <1>2, <2>3
  <2>5. UNCHANGED <<text, buffer>> => W = V
    BY DEF Streamed
  <2>6. ASSUME NEW z, Goes(r, z), \A q \in Reconciliations : q = r \/ fetched'[q] = fetched[q],
               z = "repaging" => fetched'[r] = <<>>
        PROVE  /\ \A x \in F : x \in G \/ (recon[r] \in Holding /\ x \in ToSet(fetched[r]))
               /\ z \in Holding /\ ToSet(fetched[r]) \subseteq ToSet(fetched'[r]) => F \subseteq G
               /\ z \notin Early
               /\ recon[r] \notin Early => ~Begun
    BY <1>2, <2>6, AnswersMove
  <2>7. CASE ServerAnswers(r)
    <3>1. UNCHANGED <<text, buffer>>
      BY <2>7 DEF ServerAnswers, streamingVars
    <3>2. CASE recon[r] = "asked" /\ Goes(r, IF running THEN "active" ELSE "inactive") /\ fetched' = fetched
      BY <2>6, <3>2 DEF Early
    <3>3. CASE recon[r] = "paging" /\ Goes(r, "paged") /\ Fetches(r, db)
      <4>1. \A q \in Reconciliations : q = r \/ fetched'[q] = fetched[q]
        BY <1>2, <3>3, FetchesOne
      <4>2. F \subseteq G /\ ~Begun
        BY <2>6, <3>3, <4>1 DEF Holding, Early
      <4> HIDE DEF S, T, A, B, F, G, V, W
      <4> QED
        BY <2>3, <2>4, <2>5, <3>1, <4>2
    <3>4. CASE recon[r] = "repaging" /\ Goes(r, "repaged") /\ Fetches(r, db)
      <4>1. \A q \in Reconciliations : q = r \/ fetched'[q] = fetched[q]
        BY <1>2, <3>4, FetchesOne
      <4>2. ToSet(fetched[r]) = {}
        BY <3>4 DEF Empties, ToSet
      <4>3. F \subseteq G /\ ~Begun
        BY <2>6, <3>4, <4>1, <4>2 DEF Early
      <4> HIDE DEF S, T, A, B, F, G, V, W
      <4> QED
        BY <2>3, <2>4, <2>5, <3>1, <4>3
    <3>5. ASSUME recon[r] = "snapping", Goes(r, "snapped"), NEW n \in 0 .. Len(said),
                 Fetches(r, SubSeq(said, 1, n)), Note(IF n < Len(said) THEN {"gap"} ELSE {})
          PROVE  S \subseteq G
      <4>1. (IF n < Len(said) THEN {"gap"} ELSE {}) = {}
        BY <3>5, NotedNothing
      <4>2. said \in Seq(Chunks) /\ Len(said) \in Nat
        BY <1>2 DEF TurnTyped
      <4>3. n = Len(said)
        BY <4>1, <4>2
      <4>4. SubSeq(said, 1, n) = said
        BY <4>2, <4>3
      <4>5. fetched'[r] = said /\ recon'[r] = "snapped"
        BY <1>2, <3>5, <4>4, FetchesOne
      <4>6. S \subseteq Items
        BY <4>2, FeedNumbers, SetOfList
      <4> QED
        BY <4>5, <4>6 DEF Answers, Holding, Items, Reconciliations
    <3>6. CASE /\ recon[r] = "snapping" /\ Goes(r, "snapped")
               /\ \E n \in 0 .. Len(said) : /\ Fetches(r, SubSeq(said, 1, n))
                                            /\ Note(IF n < Len(said) THEN {"gap"} ELSE {})
      <4>1. S \subseteq G
        BY <3>5, <3>6
      <4> QED
        BY <2>3, <4>1
    <3> QED
      BY <2>7, <3>2, <3>3, <3>4, <3>6 DEF ServerAnswers
  <2>8. CASE BeginSnapshot(r)
    BY <2>6, <2>8 DEF BeginSnapshot, Early
  <2>9. CASE NoSnapshot(r)
    <3>1. /\ recon[r] = "snapped" /\ fetched[r] = <<>> /\ Goes(r, "repaging") /\ fetched' = fetched
          /\ UNCHANGED <<text, buffer>>
      BY <2>9 DEF NoSnapshot, streamingVars
    <3>2. F \subseteq G /\ ~Begun
      BY <2>6, <3>1 DEF Early, Holding
    <3> HIDE DEF S, T, A, B, F, G, V, W
    <3> QED
      BY <2>3, <2>4, <2>5, <3>1, <3>2
  <2>10. CASE FinalizeInactive(r)
    <3>1. Note(Cut(TRUE) \cup (IF buffer # <<>> \/ turn # 0 \/ inbox # <<>> THEN {"late"} ELSE {}))
      BY <2>10 DEF FinalizeInactive
    <3>2. Cut(TRUE) \cup (IF buffer # <<>> \/ turn # 0 \/ inbox # <<>> THEN {"late"} ELSE {}) = {}
      BY <3>1, NotedNothing
    <3>3. said = <<>>
      BY <3>2 DEF Waiting
    <3>4. S = {}
      BY <3>3 DEF ToSet
    <3> QED
      BY <2>3, <3>4
  <2>11. CASE RestoreSnapshot(r)
    <3>1. /\ recon[r] = "snapped" /\ Goes(r, "none") /\ Fetches(r, <<>>)
          /\ text' = fetched[r] /\ buffer' = buffer
      BY <2>11 DEF RestoreSnapshot, Finish
    <3>2. buffer = <<>> /\ ToSet(text) \subseteq ToSet(fetched[r])
      BY <1>2, <2>11, RestoreNotes
    <3>3. fetched[r] \in Seq(Chunks) /\ text \in Seq(Chunks)
      BY <1>2, <3>1 DEF ReconTyped, ViewTyped
    <3>4. W = ToSet(fetched[r]) /\ V \subseteq W
      <4>1. Streamed' = fetched[r] /\ Streamed = text
        BY <3>1, <3>2, <3>3, ConcatEmptySeq DEF Streamed
      <4> QED
        BY <3>2, <4>1
    <3>5. \A q \in Reconciliations : q = r \/ fetched'[q] = fetched[q]
      BY <1>2, <3>1, FetchesOne
    <3>6. ~Begun /\ F \subseteq G \cup ToSet(fetched[r])
      BY <2>6, <3>1, <3>5 DEF Early
    <3> HIDE DEF S, T, A, B, F, G, V, W
    <3> QED
      BY <2>3, <2>4, <3>4, <3>6
  <2>12. CASE SetMessagePage(r)
    <3>1. /\ recon[r] \in {"paged", "repaged"} /\ Goes(r, "none") /\ Fetches(r, <<>>)
          /\ UNCHANGED <<text, buffer>>
      BY <2>12 DEF SetMessagePage, Finish, streamingVars
    <3>2. fetched[r] = db
      BY <2>12, PageIsTable
    <3>3. \A q \in Reconciliations : q = r \/ fetched'[q] = fetched[q]
      BY <1>2, <3>1, FetchesOne
    <3>4. ~Begun /\ F \subseteq G \cup ToSet(db)
      BY <2>6, <3>1, <3>2, <3>3 DEF Early
    <3>5. S \cap ToSet(db) = {}
      BY <1>2, SaidOrStored
    <3> HIDE DEF S, T, A, B, F, G, V, W
    <3> QED
      BY <2>3, <2>4, <2>5, <3>1, <3>4, <3>5
  <2> QED
    BY <1>4, <2>1, <2>7, <2>8, <2>9, <2>10, <2>11, <2>12 DEF FetchStep, PageStep
<1> QED
  BY <1>3, <1>4, ReconSteps

\* While the client watches: all that was said is shown or on the way, what is streamed is
\* text of the turn or its end is on the way, and each queued message has an event to come
\* that takes it from the queue.
Watched ==
    /\ 1 .. clock \subseteq ToSet(Shown) \cup Speech(wire)
    /\ ToSet(Streamed) \subseteq ToSet(said) \/ Closes(wire)
    /\ Of("idle") \in ToSet(wire) \/ Len(queuedMessages) <= Due
Quieted == \A r \in Reconciliations : recon[r] = "none"
Watching == Clean /\ link = TRUE /\ Quieted => Watched

LEMMA DueTyped ==
  ASSUME FeedTyped
  PROVE  /\ Due \in Nat /\ Len(inbox) \in Nat /\ Results(wire) \in Nat
         /\ \A b \in BOOLEAN : One(b) \in Nat
         /\ Due >= One(turn # 0) + One(post = "sending")
         /\ One(TRUE) = 1 /\ One(FALSE) = 0
<1>1. Results(wire) \in Nat
  BY ResultsCount DEF FeedTyped, HubTyped
<1>2. \A b \in BOOLEAN : One(b) \in Nat
  BY DEF One
<1>3. Len(inbox) \in Nat
  <2>1. inbox \in Seq(1 .. MaxUser)
    BY DEF FeedTyped, TurnTyped
  <2> QED
    BY <2>1
<1>4. (turn # 0) \in BOOLEAN /\ (post = "sending") \in BOOLEAN
  OBVIOUS
<1>5. One(turn # 0) \in Nat /\ One(post = "sending") \in Nat
  BY <1>2, <1>4
<1> DEFINE i == Len(inbox)
           n == One(turn # 0)
           p == One(post = "sending")
           r == Results(wire)
<1>8. Due = i + n + p + r /\ i \in Nat /\ n \in Nat /\ p \in Nat /\ r \in Nat
  BY <1>1, <1>3, <1>5 DEF Due
<1>9. Due \in Nat /\ Due >= n + p
  <2> HIDE DEF i, n, p, r
  <2> QED
    BY <1>8
<1>6. Due \in Nat /\ Due >= One(turn # 0) + One(post = "sending")
  BY <1>9
<1>7. One(TRUE) = 1 /\ One(FALSE) = 0
  BY DEF One
<1> QED
  BY <1>1, <1>2, <1>3, <1>6, <1>7

\* When all that is stored is in the list, the queued messages are deferred or under way.
LEMMA QueueIsDeferred ==
  ASSUME FeedTyped, Told, Sent, Listed, Clean, ToSet(db) \subseteq ToSet(messages)
  PROVE  Len(queuedMessages) <= Due
<1> DEFINE q == queuedMessages
           u == Users(messages)
           m == User(submitted)
<1>1. /\ q \in Seq(UserMessages) /\ u \in Seq(UserMessages) /\ UserMessages \subseteq Nat
      /\ q \in Seq(Nat) /\ u \in Seq(Nat) /\ deferred \in Seq(UserMessages) /\ deferred \in Seq(Nat)
      /\ Users(db) \in Seq(UserMessages) /\ Users(db) \in Seq(Nat)
      /\ db \in Seq(Items) /\ messages \in Seq(Items) /\ submitted \in 0 .. MaxUser
  <2>1. UserMessages \subseteq Nat
    BY FeedNumbers
  <2>2. /\ q \in Seq(UserMessages) /\ u \in Seq(UserMessages) /\ deferred \in Seq(UserMessages)
        /\ Users(db) \in Seq(UserMessages) /\ db \in Seq(Items) /\ messages \in Seq(Items)
        /\ submitted \in 0 .. MaxUser
    BY StoredTyped, ShownTyped DEF FeedTyped, ViewTyped, TurnTyped, SendTyped
  <2> QED
    BY <2>1, <2>2, SeqWider
<1>2. /\ Rising(u \o q)
      /\ submitted = 1 /\ post # "none" => u \o q = <<>>
  <2>1. Free({"paged", "overtaken"})
    BY DEF Free, Clean
  <2> QED
    BY <2>1 DEF Sent, Line
<1>3. /\ Rising(Users(db) \o deferred)
      /\ \A x \in ToSet(Users(db) \o deferred) : post = "sending" => x < m
      /\ deferred # <<>> => turn # 0
      /\ Len(deferred) <= 1
  BY DEF Told, StoredLine, FeedTyped, TurnTyped
<1>4. /\ ToSet(u \o q) = ToSet(u) \cup ToSet(q)
      /\ ToSet(Users(db) \o deferred) = ToSet(Users(db)) \cup ToSet(deferred)
      /\ ToSet(Users(db)) \subseteq ToSet(u)
  <2>1. ToSet(u \o q) = ToSet(u) \cup ToSet(q)
    BY <1>1, JoinSet
  <2>2. ToSet(Users(db) \o deferred) = ToSet(Users(db)) \cup ToSet(deferred)
    BY <1>1, JoinSet
  <2>3. /\ ToSet(Users(db)) = ToSet(db) \cap UserMessages
        /\ ToSet(u) = ToSet(messages) \cap UserMessages
    BY <1>1, TextsAndUsers
  <2> QED
    BY <2>1, <2>2, <2>3
<1>5. /\ post \in Unshown \cup {"none"} => ToSet(u \o q) = ToSet(Users(db) \o deferred)
      /\ post = "sending" /\ submitted > 1
         => ToSet(u \o q) = ToSet(Users(db) \o deferred) \cup {m}
  BY DEF Listed, AsStored, NoneOut, Line, StoredLine
<1>6. Rising(q) /\ ToSet(u) \cap ToSet(q) = {}
  <2>1. Rising(q) /\ \A x \in ToSet(u), y \in ToSet(q) : x < y
    BY <1>1, <1>2, RisingConcat
  <2>2. ToSet(u) \subseteq Nat
    BY <1>1, SetOfList
  <2> QED
    BY <2>1, <2>2
<1>7. Rising(deferred)
  BY <1>1, <1>3, RisingConcat
<1>8. /\ Len(q) \in Nat /\ Len(deferred) \in Nat /\ Len(deferred) <= One(turn # 0)
      /\ (q = <<>> => Len(q) = 0)
  <2>1. Len(q) \in Nat /\ Len(deferred) \in Nat /\ (q = <<>> => Len(q) = 0)
    BY <1>1
  <2>2. turn # 0 => One(turn # 0) = 1
    BY DEF One
  <2>3. turn = 0 => Len(deferred) = 0 /\ One(turn # 0) = 0
    BY <1>3 DEF One
  <2> QED
    BY <1>3, <2>1, <2>2, <2>3
<1>9. /\ Due \in Nat /\ Due >= One(turn # 0) + One(post = "sending")
      /\ One(post = "sending") \in Nat /\ One(turn # 0) \in Nat /\ One(TRUE) = 1 /\ One(FALSE) = 0
  <2>1. (post = "sending") \in BOOLEAN /\ (turn # 0) \in BOOLEAN
    OBVIOUS
  <2> QED
    BY <2>1, DueTyped
<1>10. CASE submitted = 1 /\ post # "none"
  <2>1. ToSet(q) = {}
    BY <1>2, <1>4, <1>10 DEF ToSet
  <2>2. q = <<>>
    BY <1>1, <2>1, SetOfList
  <2> QED
    BY <1>8, <1>9, <2>2
<1>11. CASE post \in Unshown \cup {"none"}
  <2>1. ToSet(q) \subseteq ToSet(deferred)
    BY <1>4, <1>5, <1>6, <1>11
  <2>2. Len(q) <= Len(deferred)
    BY <1>1, <1>6, <1>7, <2>1, RisingShorter
  <2> QED
    BY <1>8, <1>9, <2>2
<1>12. CASE post = "sending" /\ submitted > 1
  <2> DEFINE e == Append(deferred, m)
  <2>1. m \in UserMessages /\ m \in Nat
    <3>1. submitted \in 1 .. MaxUser
      BY <1>1, <1>12, FeedNumbers
    <3> QED
      BY <1>1, <3>1, FeedNumbers
  <2>2. e \in Seq(Nat) /\ ToSet(e) = ToSet(deferred) \cup {m}
    <3> HIDE DEF m
    <3> QED
      BY <1>1, <2>1, AppendSet
  <2>3. Len(e) = Len(deferred) + 1
    BY <1>1, <2>1
  <2>4. \A x \in ToSet(deferred) : x < m
    BY <1>3, <1>4, <1>12
  <2>5. Rising(e)
    <3> HIDE DEF m
    <3> QED
      BY <1>1, <1>7, <2>1, <2>4, RisingAppend
  <2>6. ToSet(q) \subseteq ToSet(e)
    <3> HIDE DEF q, u, m, e
    <3> QED
      BY <1>4, <1>5, <1>6, <1>12, <2>2
  <2>7. Len(q) <= Len(e)
    <3> HIDE DEF e
    <3> QED
      BY <1>1, <1>6, <2>2, <2>5, <2>6, RisingShorter
  <2>8. One(post = "sending") = 1
    BY <1>12 DEF One
  <2> QED
    BY <1>8, <1>9, <2>3, <2>7, <2>8
<1>13. /\ post \in Unshown \cup {"none", "sending", "accepted"} /\ (post = "accepted" => submitted = 1)
       /\ (post # "none" => submitted > 0) /\ submitted \in Nat
  BY LineNumbers DEF FeedTyped, SendTyped
<1> QED
  BY <1>10, <1>11, <1>12, <1>13

LEMMA RestoreWatches ==
  ASSUME FeedTyped, Told, Restored, Sent, Listed, Fetching', Clean, Clean', link = TRUE, Quieted',
         NEW r \in Reconciliations, RestoreSnapshot(r)
  PROVE  Watched'
<1> DEFINE F == ToSet(fetched[r])
           M == ToSet(Texts(messages))
<1>1. /\ ViewTyped /\ TurnTyped /\ ReconTyped /\ HubTyped
      /\ recon[r] = "snapped" /\ UNCHANGED <<turnVars, hubVars, sendVars, listVars, buffer>>
      /\ text' = fetched[r]
  BY DEF FeedTyped, RestoreSnapshot, ReconStep
<1>2. /\ buffer = <<>> /\ ToSet(db) \subseteq ToSet(messages) /\ F \cap ToSet(messages) = {}
  BY <1>1, RestoreNotes
<1>3. /\ 1 .. clock = ToSet(Texts(db)) \cup ToSet(said) /\ ToSet(Texts(db)) = ToSet(db) \cap Chunks
      /\ M = ToSet(messages) \cap Chunks
  BY <1>1, SaidOrStored, TextsAndUsers DEF ViewTyped
<1>9. UNCHANGED <<said, wire, clock, queuedMessages, inbox, turn, post, link>>
  BY <1>1 DEF turnVars, hubVars, listVars, sendVars
<1>5. fetched[r] \in Seq(Chunks) /\ Shown' = (Texts(messages) \o fetched[r]) \o buffer
  BY <1>1, RestoreShows
<1>6. ToSet(Shown') = M \cup F /\ Streamed' = fetched[r]
  <2>1. /\ Texts(messages) \in Seq(Chunks) /\ Texts(messages) \o fetched[r] \in Seq(Chunks)
        /\ ToSet(Texts(messages) \o fetched[r]) = M \cup F
    BY <1>1, <1>5, ShownTyped, JoinSet
  <2>2. Shown' = Texts(messages) \o fetched[r]
    BY <1>2, <1>5, <2>1, ConcatEmptySeq
  <2>3. Streamed' = fetched[r]
    BY <1>1, <1>2, <1>5, ConcatEmptySeq DEF Streamed
  <2> QED
    BY <2>1, <2>2, <2>3
<1>4. ToSet(said) \subseteq F \cup Speech(wire)
  <2>1. ~Begun' /\ Answers' = {}
    BY DEF Quieted, Begun, Answers, Early, Holding
  <2>2. ToSet(said') \subseteq ToSet(Streamed') \cup Speech(wire')
    BY <1>9, <2>1 DEF Fetching
  <2> QED
    BY <1>6, <1>9, <2>2
<1>7. F \subseteq 1 .. clock
  <2>1. PICK p \in 0 .. Len(Texts(db)) : \E n \in 0 .. clock - p : fetched[r] = [i \in 1 .. n |-> p + i]
    BY <1>1 DEF Restored
  <2>2. PICK n \in 0 .. clock - p : fetched[r] = [i \in 1 .. n |-> p + i]
    BY <2>1
  <2>3. clock \in Nat /\ Len(Texts(db)) \in Nat
    BY <1>1, StoredTyped, FeedNumbers DEF TurnTyped
  <2>4. \A i \in 1 .. n : p + i \in 1 .. clock
    BY <2>1, <2>2, <2>3
  <2> QED
    BY <2>2, <2>4 DEF ToSet
<1>8. F \subseteq Chunks
  BY <1>5, SetOfList
<1>10. Len(queuedMessages) <= Due /\ Due' = Due
  BY <1>2, <1>9, QueueIsDeferred DEF Due
<1> HIDE DEF F, M
<1>11. 1 .. clock \subseteq ToSet(Shown') \cup Speech(wire)
  BY <1>2, <1>3, <1>4, <1>6
<1>12. ToSet(Streamed') \subseteq ToSet(said)
  <2>1. ToSet(Streamed') = F
    BY <1>6 DEF F
  <2> QED
    BY <1>2, <1>3, <1>7, <1>8, <2>1
<1> QED
  BY <1>9, <1>10, <1>11, <1>12 DEF Watched

LEMMA PageWatches ==
  ASSUME FeedTyped, FeedTyped', Told, Ordered, Fetching', Clean, Clean', link = TRUE, Quieted',
         NEW r \in Reconciliations, SetMessagePage(r)
  PROVE  Watched'
<1> DEFINE V == ToSet(Streamed)
           D == ToSet(Texts(db))
<1>1. /\ ViewTyped /\ TurnTyped /\ ReconTyped /\ HubTyped
      /\ recon[r] \in {"paged", "repaged"} /\ UNCHANGED <<turnVars, hubVars, sendVars, text, buffer>>
  BY DEF FeedTyped, SetMessagePage, ReconStep, streamingVars
<1>2. /\ fetched[r] = db /\ queuedMessages = <<>> /\ ToSet(db) \cap (ToSet(text) \cup Coming) = {}
  BY PageIsTable
<1>3. 1 .. clock = D \cup ToSet(said) /\ D = ToSet(db) \cap Chunks
  BY <1>1, SaidOrStored
<1>4. /\ V = ToSet(text) \cup ToSet(buffer) /\ V \subseteq Chunks
      /\ ToSet(Shown) = ToSet(Texts(messages)) \cup V
  BY <1>1, ShownLists, SetOfList
<1>5. queuedMessages' = <<>> /\ messages' = db /\ Streamed' = Streamed /\ wire' = wire
      /\ said' = said /\ clock' = clock /\ link' = link
  <2>1. messages' = fetched[r] /\ queuedMessages' = queuedMessages
    BY <1>1, SetPageShows
  <2> QED
    BY <1>1, <1>2, <2>1 DEF Streamed, hubVars, turnVars
<1>6. ToSet(Shown') = D \cup V
  <2>1. /\ Texts(db) \in Seq(Chunks) /\ Streamed \in Seq(Chunks) /\ text \in Seq(Chunks)
        /\ buffer \in Seq(Chunks)
    BY <1>1, ShownLists, StoredTyped
  <2>2. Shown' = (Texts(db) \o text) \o buffer
    BY <1>1, <1>2, SetPageShows
  <2>3. (Texts(db) \o text) \o buffer = Texts(db) \o Streamed
    <3> DEFINE t == Texts(db)
    <3>1. (t \o text) \o buffer = t \o (text \o buffer)
      <4>1. t \in Seq(Chunks)
        BY <2>1
      <4> HIDE DEF t
      <4> QED
        BY <2>1, <4>1, JoinThree
    <3> QED
      BY <3>1 DEF Streamed
  <2>4. ToSet(Texts(db) \o Streamed) = D \cup V
    BY <2>1, JoinSet
  <2> QED
    BY <2>2, <2>3, <2>4
<1>7. \A x \in V : x \in 1 .. clock
  <2>1. Free(OrderCauses)
    BY DEF Free, Clean
  <2>2. \A x \in ToSet(Shown) : x <= clock
    BY <2>1 DEF Ordered, InStep
  <2>3. clock \in Nat /\ MaxText \in Nat
    BY <1>1, FeedNumbers DEF TurnTyped
  <2> QED
    BY <1>4, <2>2, <2>3 DEF Chunks
<1>8. V \cap ToSet(db) = {}
  <2>1. ToSet(buffer) \subseteq Coming
    BY DEF Coming
  <2> QED
    BY <1>2, <1>4, <2>1
<1>9. ToSet(said) \subseteq V \cup Speech(wire)
  <2>1. ~Begun' /\ Answers' = {}
    BY DEF Quieted, Begun, Answers, Early, Holding
  <2>2. ToSet(said') \subseteq ToSet(Streamed') \cup Speech(wire')
    BY <1>5, <2>1 DEF Fetching
  <2> QED
    BY <1>5, <2>2
<1>10. Len(queuedMessages') <= Due'
  <2>1. Len(<<>>) = 0 /\ Due' \in Nat
    <3>1. Due' \in Nat
      <4>1. /\ Results(wire') \in Nat
        BY ResultsCount DEF FeedTyped, HubTyped
      <4>2. Len(inbox') \in Nat
        <5>1. inbox' \in Seq(1 .. MaxUser)
          BY DEF FeedTyped, TurnTyped
        <5> QED
          BY <5>1
      <4>3. One(turn' # 0) \in Nat /\ One(post' = "sending") \in Nat
        BY DEF One
      <4> QED
        BY <4>1, <4>2, <4>3 DEF Due
    <3> QED
      BY <3>1
  <2> QED
    BY <1>5, <2>1
<1> HIDE DEF V, D
<1>11. V \subseteq ToSet(said)
  BY <1>3, <1>7, <1>8
<1>12. 1 .. clock \subseteq D \cup V \cup Speech(wire)
  <2>1. ASSUME NEW x \in 1 .. clock PROVE x \in D \cup V \cup Speech(wire)
    <3>1. x \in Chunks
      <4>1. clock \in 0 .. MaxText /\ MaxText \in Nat
        BY <1>1, FeedNumbers DEF TurnTyped
      <4> QED
        BY <4>1 DEF Chunks
    <3> QED
      BY <1>3, <1>9, <2>1, <3>1
  <2> QED
    BY <2>1
<1>13. ToSet(Streamed') \subseteq ToSet(said)
  <2>1. ToSet(Streamed') = V
    BY <1>5 DEF V
  <2> QED
    BY <1>11, <2>1
<1>14. 1 .. clock \subseteq ToSet(Shown') \cup Speech(wire)
  BY <1>6, <1>12
<1> QED
  BY <1>5, <1>10, <1>13, <1>14 DEF Watched

\* The events that end a turn stay under way while others are received.
LEMMA StillCloses ==
  ASSUME NEW w \in Seq(Event), w # <<>>, Closes(w), Head(w) \notin Closers
  PROVE  Closes(Tail(w))
<1>1. ToSet(w) = {Head(w)} \cup ToSet(Tail(w))
  BY HeadTail
<1> QED
  BY <1>1 DEF Closes

LEMMA ReceiveWatches ==
  ASSUME FeedTyped, Paced, Lit, Clean, Clean', link = TRUE, Quieted, Watched, ReceiveSome
  PROVE  Watched'
<1> DEFINE h == Head(wire)
           v == Tail(wire)
           V == ToSet(Streamed)
           W == ToSet(Streamed')
           X == ToSet(Shown)
           Y == ToSet(Shown')
           S == ToSet(said)
           q == Len(queuedMessages)
           p == Len(queuedMessages')
           n == Due
           m == Due'
<1>1. /\ ViewTyped /\ HubTyped /\ wire \in Seq(Event) /\ wire # <<>> /\ wire' = v
      /\ UNCHANGED <<turnVars, sendVars>>
  BY Received DEF FeedTyped, HubTyped
<1>2. UNCHANGED <<said, clock, inbox, turn, post>>
  BY <1>1 DEF turnVars, sendVars
<1>3. /\ 1 .. clock \subseteq X \cup Speech(wire)
      /\ V \subseteq S \/ Closes(wire)
      /\ Of("idle") \in ToSet(wire) \/ q <= n
  BY DEF Watched
<1>4. /\ h.type # "assistant_text" => Speech(v) = Speech(wire)
      /\ h.type = "assistant_text" => Speech(wire) = Speech(v) \cup {h.chunk}
      /\ h.type = "assistant_text" => h.chunk \in S \/ Closes(v)
      /\ ToSet(wire) = {h} \cup ToSet(v)
  <2>1. Closed(wire, S)
    BY DEF Paced
  <2> QED
    BY <1>1, <2>1, WireTail
<1>5. /\ \A e \in Closers : e.type \in {"result", "complete", "error", "idle"}
      /\ Of("idle").type = "idle" /\ Of("result").type = "result"
  BY DEF Closers, Of
<1>6. /\ h = Of("result") => n = m + 1
      /\ h # Of("result") => n = m
      /\ m \in Nat
  <2>1. /\ h = Of("result") => Results(wire) = Results(v) + 1
        /\ h # Of("result") => Results(wire) = Results(v)
        /\ Results(v) \in Nat /\ Results(wire) \in Nat
    BY <1>1, ResultsCount
  <2>2. m = Len(inbox) + One(turn # 0) + One(post = "sending") + Results(v)
    BY <1>1, <1>2 DEF Due
  <2>3. n = Len(inbox) + One(turn # 0) + One(post = "sending") + Results(wire)
    BY DEF Due
  <2>4. Len(inbox) \in Nat /\ One(turn # 0) \in Nat /\ One(post = "sending") \in Nat
    BY DueTyped DEF One
  <2> HIDE DEF h, v, n, m
  <2> QED
    BY <2>1, <2>2, <2>3, <2>4
<1>7. q \in Nat /\ (queuedMessages = <<>> <=> q = 0)
  BY <1>1, ShownLists
<1>8. Closes(wire) /\ h \notin Closers => Closes(v)
  BY <1>1, StillCloses
<1>9. CASE ReceiveText
  <2>1. /\ h.type = "assistant_text" /\ queuedMessages' = queuedMessages
        /\ Y = X \cup {h.chunk} /\ W = V \cup {h.chunk}
    BY <1>1, <1>9, TextTold DEF Reconciling, InSnapshot, Quieted, listVars
  <2>2. p = q
    BY <2>1
  <2>3. h \notin Closers /\ h # Of("idle") /\ h # Of("result")
    BY <1>5, <2>1
  <2> HIDE DEF h, v, V, W, X, Y, S, q, p, n, m
  <2>4. 1 .. clock \subseteq Y \cup Speech(v)
    BY <1>3, <1>4, <2>1
  <2>5. W \subseteq S \/ Closes(v)
    BY <1>3, <1>4, <1>8, <2>1, <2>3
  <2>6. Of("idle") \in ToSet(v) \/ p <= m
    BY <1>3, <1>4, <1>6, <2>2, <2>3
  <2> QED
    BY <1>1, <1>2, <2>4, <2>5, <2>6 DEF Watched, Y, W, S, p, m
<1>10. CASE ~ReceiveText
  <2>1. ByEvent(h.type) /\ h.type # "assistant_text"
    BY <1>1, <1>10, ReceiveTidy
  <2>2. /\ Y = X /\ W \subseteq V /\ p <= q
        /\ h.type = "result" => /\ W = {}
                                /\ queuedMessages = <<>> => p = 0
                                /\ queuedMessages # <<>> => p = q - 1
        /\ h.type \in {"complete", "error", "idle"} => W = {} /\ p = 0
    <3>1. Len(<<>>) = 0
      OBVIOUS
    <3> QED
      BY <2>1, <3>1 DEF ByEvent, Tidy, Emptied
  <2>3. p \in Nat
    <3>1. ViewTyped'
      BY ViewTypedStep, FeedTypedStep DEF FeedTyped, FeedNext, ReceiveSome
    <3>2. queuedMessages' \in Seq(UserMessages)
      BY <3>1 DEF ViewTyped
    <3> QED
      BY <3>2
  <2> HIDE DEF v, V, W, X, Y, S, q, p, n, m, h
  <2>4. 1 .. clock \subseteq Y \cup Speech(v)
    BY <1>3, <1>4, <2>1, <2>2
  <2>5. W \subseteq S \/ Closes(v)
    <3>1. CASE h \in Closers
      <4>1. W = {}
        BY <1>5, <2>2, <3>1
      <4> QED
        BY <4>1
    <3>2. CASE h \notin Closers
      BY <1>3, <1>8, <2>2, <3>2
    <3> QED
      BY <3>1, <3>2
  <2>6. Of("idle") \in ToSet(v) \/ p <= m
    <3>1. CASE h = Of("idle")
      BY <1>5, <1>6, <2>2, <3>1
    <3>2. CASE h = Of("result")
      <4>1. n = m + 1 /\ h.type = "result" /\ h # Of("idle")
        BY <1>5, <1>6, <3>2
      <4>2. Of("idle") \in ToSet(v) \/ q <= n
        BY <1>3, <1>4, <4>1
      <4>3. p = 0 \/ p = q - 1
        BY <2>2, <4>1
      <4> QED
        BY <1>6, <1>7, <4>1, <4>2, <4>3
    <3>3. CASE h # Of("idle") /\ h # Of("result")
      <4>1. n = m
        BY <1>6, <3>3
      <4>2. Of("idle") \in ToSet(v) \/ q <= n
        BY <1>3, <1>4, <3>3
      <4> QED
        BY <1>6, <1>7, <2>2, <2>3, <4>1, <4>2
    <3> QED
      BY <3>1, <3>2, <3>3
  <2> QED
    BY <1>1, <1>2, <2>4, <2>5, <2>6 DEF Watched, Y, W, S, p, m
<1> QED
  BY <1>9, <1>10

LEMMA AgentWatches ==
  ASSUME FeedTyped, FeedTyped', Waiting, link = TRUE, Watched, AgentStep
  PROVE  Watched'
<1>1. /\ Speech(wire) \subseteq Speech(wire') /\ ToSet(wire) \subseteq ToSet(wire')
      /\ clock' = clock \/ (clock' = clock + 1 /\ clock' \in Speech(wire'))
      /\ ToSet(said) \subseteq ToSet(said') \/ Closes(wire')
      /\ Due <= Due' \/ Of("idle") \in ToSet(wire')
  BY AgentTells
<1>2. UNCHANGED <<messages, text, buffer, queuedMessages>>
  BY AgentLeaves DEF viewVars
<1>3. Shown' = Shown /\ Streamed' = Streamed /\ queuedMessages' = queuedMessages
  BY <1>2 DEF Shown, Streamed
<1>4. 1 .. clock' \subseteq ToSet(Shown) \cup Speech(wire')
  <2>1. clock \in Nat /\ 1 .. clock \subseteq ToSet(Shown) \cup Speech(wire)
    BY FeedNumbers DEF FeedTyped, TurnTyped, Watched
  <2>2. 1 .. clock' \subseteq (1 .. clock) \cup Speech(wire')
    BY <1>1, <2>1
  <2> QED
    BY <1>1, <2>1, <2>2
<1>5. Closes(wire) => Closes(wire')
  BY <1>1 DEF Closes
<1>6. ToSet(Streamed) \subseteq ToSet(said') \/ Closes(wire')
  BY <1>1, <1>5 DEF Watched
<1>7. Of("idle") \in ToSet(wire') \/ Len(queuedMessages) <= Due'
  <2> DEFINE q == Len(queuedMessages)
             n == Due
             m == Due'
  <2>1. /\ n \in Nat /\ q \in Nat /\ (Of("idle") \in ToSet(wire) \/ q <= n)
        /\ (n <= m \/ Of("idle") \in ToSet(wire'))
    BY <1>1, DueTyped, ShownLists DEF FeedTyped, Watched
  <2>2. m \in Nat
    <3>1. inbox' \in Seq(1 .. MaxUser) /\ wire' \in Seq(Event)
      BY DEF FeedTyped, TurnTyped, HubTyped
    <3>2. Len(inbox') \in Nat /\ Results(wire') \in Nat
      BY <3>1, ResultsCount
    <3>3. One(turn' # 0) \in Nat /\ One(post' = "sending") \in Nat
      BY DEF One
    <3> QED
      BY <3>2, <3>3 DEF Due
  <2> HIDE DEF q, n, m
  <2>3. Of("idle") \in ToSet(wire') \/ q <= m
    BY <1>1, <2>1, <2>2
  <2> QED
    BY <2>3 DEF q, m
<1> QED
  BY <1>3, <1>4, <1>6, <1>7 DEF Watched

\* Due while the backend does nothing.
LEMMA DueBy ==
  ASSUME FeedTyped, UNCHANGED <<inbox, turn, wire>>
  PROVE  /\ Due' + One(post = "sending") = Due + One(post' = "sending")
         /\ Due \in Nat /\ Due' \in Nat
         /\ One(post = "sending") \in Nat /\ One(post' = "sending") \in Nat
<1> DEFINE i == Len(inbox)
           n == One(turn # 0)
           p == One(post = "sending")
           q == One(post' = "sending")
           r == Results(wire)
<1>1. /\ i \in Nat /\ r \in Nat
      /\ n \in Nat /\ p \in Nat /\ q \in Nat
  <2>1. i \in Nat /\ r \in Nat
    BY DueTyped
  <2> QED
    BY <2>1 DEF One
<1>2. Due = i + n + p + r /\ Due' = i + n + q + r
  BY DEF Due
<1> HIDE DEF i, n, p, q, r
<1>3. Due' + p = Due + q /\ Due \in Nat /\ Due' \in Nat
  BY <1>1, <1>2
<1> QED
  BY <1>1, <1>3 DEF p, q

\* Steps that change only how things are shown, and raise the queue with what it waits for.
LEMMA TidyWatches ==
  ASSUME FeedTyped, FeedTyped', Watched, Shown' = Shown, ToSet(Streamed') \subseteq ToSet(Streamed),
         UNCHANGED <<said, clock, wire, inbox, turn>>,
         Len(queuedMessages') + One(post = "sending") <= Len(queuedMessages) + One(post' = "sending")
  PROVE  Watched'
<1> DEFINE q == Len(queuedMessages)
           p == Len(queuedMessages')
           n == Due
           m == Due'
           a == One(post = "sending")
           b == One(post' = "sending")
<1>1. /\ n \in Nat /\ m \in Nat /\ q \in Nat /\ a \in Nat /\ b \in Nat
      /\ m + a = n + b /\ p + a <= q + b
      /\ Of("idle") \in ToSet(wire) \/ q <= n
  BY DueBy, ShownLists DEF FeedTyped, Watched
<1>2. p \in Nat
  <2>1. queuedMessages' \in Seq(UserMessages)
    BY DEF FeedTyped, ViewTyped
  <2> QED
    BY <2>1
<1> HIDE DEF q, p, n, m, a, b
<1>3. Of("idle") \in ToSet(wire) \/ p <= m
  BY <1>1, <1>2
<1> QED
  BY <1>3 DEF Watched, p, m

LEMMA SendWatches ==
  ASSUME FeedTyped, FeedTyped', Watched, SendStep
  PROVE  Watched'
<1>1. UNCHANGED <<text, buffer, messages, queuedMessages, said, clock, wire, inbox, turn>>
  <2>1. UNCHANGED <<talkVars, viewVars, wire>>
    BY SendLeaves
  <2> QED
    BY <2>1 DEF talkVars, viewVars
<1>2. post = "sending" => post' = "sending"
  BY DEF SendStep, Submit, PlanDenied, LoadFails, Answer, AnswerReturns
<1>3. Shown' = Shown /\ Streamed' = Streamed
  BY <1>1 DEF Shown, Streamed
<1>4. Len(queuedMessages') + One(post = "sending") <= Len(queuedMessages) + One(post' = "sending")
  <2> DEFINE q == Len(queuedMessages)
             a == One(post = "sending")
             b == One(post' = "sending")
  <2>1. q \in Nat /\ a \in Nat /\ b \in Nat /\ a <= b
    BY <1>2, ShownLists DEF FeedTyped, One
  <2>2. Len(queuedMessages') = q
    BY <1>1
  <2> HIDE DEF q, a, b
  <2>3. q + a <= q + b
    BY <2>1
  <2> QED
    BY <2>2, <2>3 DEF q, a, b
<1> QED
  BY <1>1, <1>3, <1>4, TidyWatches

LEMMA AddWatches ==
  ASSUME FeedTyped, FeedTyped', Watched, AddMessageOrQueue
  PROVE  Watched'
<1>1. /\ post # "sending" /\ post' = "sending"
      /\ UNCHANGED <<turnVars, hubVars, buffer, text>>
      /\ queuedMessages' = queuedMessages
         \/ queuedMessages' = Append(queuedMessages, User(submitted))
  BY DEF AddMessageOrQueue
<1>2. Shown' = Shown
  BY AddShows DEF FeedTyped
<1>3. Streamed' = Streamed /\ UNCHANGED <<said, clock, inbox, turn, wire>>
  BY <1>1 DEF Streamed, turnVars, hubVars
<1>4. One(post = "sending") = 0 /\ One(post' = "sending") = 1
  BY <1>1 DEF One
<1>5. Len(queuedMessages') <= Len(queuedMessages) + 1 /\ Len(queuedMessages) \in Nat
      /\ Len(queuedMessages') \in Nat
  <2>1. queuedMessages \in Seq(UserMessages)
    BY DEF FeedTyped, ViewTyped
  <2> DEFINE u == User(submitted)
  <2> HIDE DEF u
  <2>2. queuedMessages' = queuedMessages \/ queuedMessages' = Append(queuedMessages, u)
    BY <1>1 DEF u
  <2> QED
    BY <2>1, <2>2, LenAppend
<1>6. Len(queuedMessages') + One(post = "sending") <= Len(queuedMessages) + One(post' = "sending")
  BY <1>4, <1>5
<1> QED
  BY <1>2, <1>3, <1>6, TidyWatches

LEMMA WatchingStep ==
  ASSUME FeedTyped, FeedTyped', Told, Restored, Ordered, Sent, Waiting, Away, Paced, Streaming,
         Listed, Fetching', Watching, [FeedNext]_feedVars
  PROVE  Watching'
<1> SUFFICES ASSUME Clean', link' = TRUE, Quieted' PROVE Watched'
  BY DEF Watching
<1>1. /\ Clean /\ Lit /\ (link = TRUE /\ Quieted => Watched)
      /\ ViewTyped /\ SendTyped /\ ReconTyped /\ HubTyped
  BY StaysClean DEF Streaming, Watching, FeedTyped
<1>2. UNCHANGED reconVars => Quieted
  BY DEF Quieted, reconVars, Reconciliations
<1>3. ASSUME link = TRUE, Quieted, Tidy, UNCHANGED <<turnVars, wire, post>>
      PROVE  Watched'
  <2>1. UNCHANGED <<said, clock, inbox, turn, wire, post>>
    BY <1>3 DEF turnVars
  <2>2. Shown' = Shown /\ ToSet(Streamed') \subseteq ToSet(Streamed)
        /\ Len(queuedMessages') <= Len(queuedMessages)
    BY <1>3 DEF Tidy
  <2>3. Len(queuedMessages') + One(post = "sending") <= Len(queuedMessages) + One(post' = "sending")
    <3> DEFINE q == Len(queuedMessages)
               p == Len(queuedMessages')
               a == One(post = "sending")
    <3>1. q \in Nat /\ a \in Nat /\ p <= q
      BY <1>1, <2>2, ShownLists DEF One
    <3>2. p \in Nat
      <4>1. queuedMessages' \in Seq(UserMessages)
        BY DEF FeedTyped, ViewTyped
      <4> QED
        BY <4>1
    <3>3. One(post' = "sending") = a
      BY <2>1
    <3> HIDE DEF q, p, a
    <3>4. p + a <= q + a
      BY <3>1, <3>2
    <3> QED
      BY <3>3, <3>4 DEF q, p, a
  <2> QED
    BY <1>1, <1>3, <2>1, <2>2, <2>3, TidyWatches
<1>4. CASE AgentStep
  <2>1. Quieted /\ link = TRUE
    BY <1>2, <1>4, AgentLeaves
  <2> QED
    BY <1>1, <1>4, <2>1, AgentWatches
<1>5. CASE UNCHANGED feedVars
  <2>1. UNCHANGED <<messages, text, buffer, queuedMessages, wire, post, link, reconVars,
                    said, clock, inbox, turn>>
    BY <1>5 DEF feedVars, turnVars, hubVars, sendVars, streamingVars, listVars
  <2>2. Shown' = Shown /\ Streamed' = Streamed /\ Due' = Due /\ Quieted
    BY <1>2, <2>1 DEF Shown, Streamed, Due
  <2> QED
    BY <1>1, <2>1, <2>2 DEF Watched
<1>6. CASE SendStep
  <2>1. Quieted /\ link = TRUE
    BY <1>2, <1>6, SendLeaves
  <2> QED
    BY <1>1, <1>6, <2>1, SendWatches
<1>7. CASE Disconnect \/ HubFaults
  BY <1>7 DEF Disconnect, HubFaults, Note, Clean
<1>8. CASE ClientReconnects
  <2>1. link = FALSE /\ isStreaming = TRUE /\ recon' = [recon EXCEPT ![faults] = "asked"]
    BY <1>1, <1>8 DEF ClientReconnects, Note, Clean, ViewTyped, HubTyped
  <2>2. recon'[faults] = "asked" /\ faults \in Reconciliations
    BY <1>1, <2>1 DEF Away, ReconTyped
  <2> QED
    BY <2>2 DEF Quieted, Reconciliations
<1>9. ASSUME NEW r \in Reconciliations, NEW z, Goes(r, z), z # "none" PROVE FALSE
  <2>1. recon'[r] = z
    BY <1>1, <1>9, FetchesOne
  <2> QED
    BY <1>9, <2>1 DEF Quieted, Reconciliations
<1>10. ASSUME NEW r \in Reconciliations, FetchStep(r) PROVE Watched'
  <2>1. ~ReconFails(r)
    BY <1>10 DEF ReconFails, Note, Clean
  <2>2. CASE ServerAnswers(r)
    <3>1. \E z \in {"active", "inactive", "paged", "repaged", "snapped"} : Goes(r, z)
      BY <2>2 DEF ServerAnswers
    <3> QED
      BY <1>9, <3>1
  <2>3. CASE BeginSnapshot(r) \/ NoSnapshot(r) \/ FinalizeInactive(r)
    <3>1. \E z \in {"snapping", "repaging", "paging"} : Goes(r, z)
      BY <2>3 DEF BeginSnapshot, NoSnapshot, FinalizeInactive
    <3> QED
      BY <1>9, <3>1
  <2>4. CASE RestoreSnapshot(r)
    <3>1. link = TRUE
      BY <2>4 DEF RestoreSnapshot, ReconStep, hubVars
    <3> QED
      BY <1>1, <2>4, <3>1, RestoreWatches
  <2>5. CASE SetMessagePage(r)
    <3>1. link = TRUE
      BY <2>5 DEF SetMessagePage, ReconStep, hubVars
    <3> QED
      BY <1>1, <2>5, <3>1, PageWatches
  <2> QED
    BY <1>10, <2>1, <2>2, <2>3, <2>4, <2>5 DEF FetchStep, PageStep
<1>11. CASE Stop \/ RemoveQueuedMessage
  BY <1>11 DEF Stop, RemoveQueuedMessage, Note, Clean
<1>12. CASE ReceiveSome
  <2>1. Quieted /\ link = TRUE
    BY <1>2, <1>12, Received
  <2> QED
    BY <1>1, <1>12, <2>1, ReceiveWatches
<1>13. CASE FlushFrame
  <2>1. Tidy
    BY <1>1, <1>13, OtherTidy
  <2>2. UNCHANGED <<turnVars, wire, link, post, reconVars>>
    BY <1>13 DEF FlushFrame, hubVars, sendVars
  <2> QED
    BY <1>2, <1>3, <2>1, <2>2
<1>14. CASE PostFails
  <2>1. /\ submitted = 1 /\ post = "sending" /\ queuedMessages' = queuedMessages
        /\ UNCHANGED <<messages, text, buffer, turnVars, wire, link, reconVars>>
    BY <1>14 DEF PostFails, Note, Clean
  <2>2. queuedMessages = <<>>
    <3>1. Free({"paged", "overtaken"})
      BY <1>1 DEF Free, Clean
    <3>2. /\ Users(messages) \in Seq(UserMessages) /\ queuedMessages \in Seq(UserMessages)
          /\ Users(messages) \o queuedMessages = <<>>
      BY <1>1, <2>1, <3>1, ShownTyped DEF Sent, Line, ViewTyped
    <3> QED
      BY <3>2, JoinSet, SetOfList
  <2>3. Due' \in Nat
    BY <2>1, DueBy DEF turnVars
  <2>4. Len(queuedMessages') <= Due'
    <3>1. Len(<<>>) = 0
      OBVIOUS
    <3> QED
      BY <2>1, <2>2, <2>3, <3>1
  <2>5. Shown' = Shown /\ Streamed' = Streamed /\ UNCHANGED <<said, clock, wire>>
    BY <2>1 DEF Shown, Streamed, turnVars
  <2>6. Watched
    BY <1>1, <1>2, <2>1
  <2> QED
    BY <2>4, <2>5, <2>6 DEF Watched
<1>15. CASE AddMessageOrQueue
  <2>1. UNCHANGED <<link, reconVars>>
    BY <1>15 DEF AddMessageOrQueue, hubVars
  <2> QED
    BY <1>1, <1>2, <1>15, <2>1, AddWatches
<1>16. CASE PostReturns
  <2>1. /\ post = "accepted" /\ post' = "none" /\ UNCHANGED <<turnVars, hubVars, text, buffer, reconVars>>
        /\ queuedMessages' = queuedMessages
    BY <1>16 DEF PostReturns
  <2>2. Shown' = Shown
    BY <1>1, <1>16, PostReturnsShows
  <2>3. UNCHANGED <<said, clock, inbox, turn, wire, link>> /\ Streamed' = Streamed
    BY <2>1 DEF turnVars, hubVars, Streamed
  <2>4. Due' = Due
    <3>1. One(post = "sending") = One(post' = "sending")
      BY <2>1 DEF One
    <3> QED
      BY <2>3, <3>1 DEF Due
  <2>5. Watched
    BY <1>1, <1>2, <2>1, <2>3
  <2> QED
    BY <2>1, <2>2, <2>3, <2>4, <2>5 DEF Watched
<1> QED
  BY <1>4, <1>5, <1>6, <1>7, <1>8, <1>10, <1>11, <1>12, <1>13, <1>14, <1>15, <1>16, FeedSteps
     DEF ViewStep, OtherStep, FetchStep

StoredInv ==
    /\ FeedInv /\ Waiting /\ Away /\ Paced /\ Streaming
    /\ Listed /\ Empties /\ Fetching /\ Watching

LEMMA StoredInvInit == FeedInit => StoredInv
<1> SUFFICES ASSUME FeedInit PROVE StoredInv
  OBVIOUS
<1>1. FeedInv
  BY FeedInvInit
<1>2. /\ db = <<>> /\ said = <<>> /\ deferred = <<>> /\ clock = 0 /\ wire = <<>> /\ link = TRUE
      /\ messages = <<>> /\ queuedMessages = <<>> /\ text = <<>> /\ buffer = <<>>
      /\ post = "none" /\ inbox = <<>> /\ turn = 0
      /\ \A r \in Reconciliations : recon[r] = "none"
  BY DEF FeedInit
<1>3. /\ <<>> \o <<>> = <<>> /\ ToSet(<<>>) = {} /\ Len(<<>>) = 0
  BY ConcatEmptySeq DEF ToSet
<1>4. Waiting /\ Away
  BY <1>2, <1>3 DEF Waiting, Away
<1>5. Paced /\ Streaming /\ Empties /\ Fetching
  <2>1. ToSet(said) = {}
    BY <1>2, <1>3
  <2> QED
    BY <1>2, <2>1, WireNothing DEF Paced, Streaming, Lit, Empties, Fetching
<1>6. Users(<<>>) = <<>>
  BY OnlyEmpty DEF Users
<1>7. Listed
  BY <1>2, <1>3, <1>6 DEF Listed, AsStored, NoneOut, Line, StoredLine
<1>8. Watching
  <2>1. Due \in Nat
    BY <1>1, DueTyped DEF FeedInv
  <2>2. 1 .. 0 = {}
    OBVIOUS
  <2>3. Streamed = <<>>
    BY <1>2, <1>3 DEF Streamed
  <2> QED
    BY <1>2, <1>3, <2>1, <2>2, <2>3 DEF Watching, Watched
<1> QED
  BY <1>1, <1>4, <1>5, <1>7, <1>8 DEF StoredInv

LEMMA StoredInvStep == StoredInv /\ [FeedNext]_feedVars => StoredInv'
<1> SUFFICES ASSUME StoredInv, [FeedNext]_feedVars PROVE StoredInv'
  OBVIOUS
<1>1. /\ FeedTyped /\ Told /\ Restored /\ Ordered /\ Sent
      /\ Waiting /\ Away /\ Paced /\ Streaming /\ Listed /\ Empties /\ Fetching /\ Watching
  BY DEF StoredInv, FeedInv
<1>2. FeedInv' /\ FeedTyped'
  BY FeedInvStep DEF StoredInv, FeedInv
<1>3. Waiting'
  BY <1>1, WaitingStep
<1>4. Paced'
  BY <1>1, PacedStep
<1>5. Streaming'
  BY <1>1, StreamingStep
<1>6. Listed'
  BY <1>1, ListedStep
<1>7. Empties' /\ Fetching'
  BY <1>1, <1>2, EmptiesStep, FetchingStep
<1>8. Watching'
  BY <1>1, <1>2, <1>7, WatchingStep
<1>9. Away'
  BY <1>1, <1>2, AwayStep
<1> QED
  BY <1>2, <1>3, <1>4, <1>5, <1>6, <1>7, <1>8, <1>9 DEF StoredInv

\* The inductive invariant behind ShownIsStored. It adds to FeedInv where every chunk and
\* every message is while nothing has gone wrong: Waiting, that nothing is said between
\* turns; Away, that a client that is not connected left by a fault, which numbers the
\* reconciliation it starts when it is back; Paced, the order of text and of what begins
\* and ends turns on the way; Streaming, that text is streamed and messages are queued
\* only while isStreaming is set; Listed, that the messages shown or queued are those
\* stored or deferred; Fetching, that the text of the turn is shown, on the way or in an
\* answer of a reconciliation, unless one is yet to ask for its snapshot; and Watching,
\* what holds of a client when no reconciliation is under way.
THEOREM StoredInvariant == FeedSpec => []StoredInv
<1>1. FeedInit => StoredInv
  BY StoredInvInit
<1>2. StoredInv /\ [FeedNext]_feedVars => StoredInv'
  BY StoredInvStep
<1> QED
  BY <1>1, <1>2, PTL DEF FeedSpec

LEMMA StoredInvStored == StoredInv => ShownIsStored
<1> SUFFICES ASSUME StoredInv, AtRest, mishaps = {}
             PROVE  Texts(messages) = Texts(db) /\ Users(messages) = Users(db)
  BY DEF ShownIsStored
<1>1. /\ FeedTyped /\ Told /\ Waiting /\ Listed /\ TurnTyped /\ ViewTyped /\ Clean
      /\ turn = 0 /\ inbox = <<>> /\ post = "none"
      /\ link = TRUE /\ wire = <<>> /\ Quieted /\ buffer = <<>>
      /\ deferred # <<>> => answering = TRUE
      /\ answering = TRUE => turn # 0
  BY DEF StoredInv, FeedInv, AtRest, Clean, FeedTyped, HubTyped, TurnTyped, Quieted
<1>2. Watched
  BY <1>1 DEF StoredInv, Watching
<1>3. /\ InStep(Shown, wire, clock)
      /\ Rising(Line)
  <2>1. Free(OrderCauses) /\ Free({"paged", "overtaken"})
    BY DEF Free
  <2> QED
    BY <2>1 DEF StoredInv, FeedInv, Ordered, Sent
<1>4. Len(<<>>) = 0 /\ ToSet(<<>>) = {}
  BY DEF ToSet
<1>5. said = <<>> /\ deferred = <<>>
  BY <1>1 DEF Waiting
<1>6. Streamed = <<>>
  <2>1. ~Closes(wire)
    BY <1>1, <1>4 DEF Closes
  <2>2. ToSet(Streamed) = {}
    BY <1>2, <1>4, <1>5, <2>1 DEF Watched
  <2> QED
    BY <1>1, <2>2, ShownTyped, SetOfList
<1>7. queuedMessages = <<>>
  <2>1. Of("idle") \notin ToSet(wire)
    BY <1>1, <1>4
  <2>2. Results(wire) = 0
    BY <1>1, <1>4, OnlyEmpty DEF Results
  <2>3. Due = 0
    BY <1>1, <1>4, <2>2 DEF Due, One
  <2> QED
    BY <1>1, <1>2, <2>1, <2>3, ShownLists DEF Watched
<1>8. /\ Shown = Texts(messages) /\ Texts(messages) \in Seq(Chunks) /\ Texts(db) \in Seq(Chunks)
      /\ Line = Users(messages) /\ StoredLine = Users(db)
      /\ Users(messages) \in Seq(UserMessages) /\ Users(db) \in Seq(UserMessages)
  <2>1. /\ Shown = Texts(messages) \o Streamed /\ Texts(messages) \in Seq(Chunks)
        /\ Users(messages) \in Seq(UserMessages)
    BY <1>1, ShownTyped
  <2>2. Texts(db) \in Seq(Chunks) /\ Users(db) \in Seq(UserMessages)
    BY <1>1, StoredTyped
  <2> QED
    BY <1>5, <1>6, <1>7, <2>1, <2>2, ConcatEmptySeq DEF Line, StoredLine
<1>9. Texts(messages) = Texts(db)
  <2> DEFINE t == Texts(messages)
             d == Texts(db)
  <2>1. ToSet(d) = 1 .. clock /\ clock \in Nat
    <3>1. 1 .. clock = ToSet(d) \cup ToSet(said)
      BY <1>1, SaidOrStored
    <3>2. clock \in Nat
      BY <1>1, FeedNumbers DEF TurnTyped
    <3> QED
      BY <1>4, <1>5, <3>1, <3>2
  <2>2. Rising(t) /\ \A x \in ToSet(t) : x <= clock
    BY <1>3, <1>8 DEF InStep
  <2>3. 1 .. clock \subseteq ToSet(t)
    BY <1>1, <1>2, <1>8, WireNothing DEF Watched
  <2>4. ToSet(t) \subseteq 1 .. clock
    <3>1. ToSet(t) \subseteq Chunks /\ MaxText \in Nat
      BY <1>8, SetOfList, FeedNumbers
    <3> QED
      BY <2>1, <2>2, <3>1 DEF Chunks
  <2>5. Rising(d)
    BY <1>1, ToldIs
  <2>6. t \in Seq(Nat) /\ d \in Seq(Nat)
    BY <1>8, FeedNumbers, SeqWider
  <2> HIDE DEF t, d
  <2>7. t = d
    BY <2>1, <2>2, <2>3, <2>4, <2>5, <2>6, RisingSame
  <2> QED
    BY <2>7 DEF t, d
<1>10. Users(messages) = Users(db)
  <2> DEFINE u == Users(messages)
             d == Users(db)
  <2>1. Rising(u) /\ Rising(d) /\ ToSet(u) = ToSet(d)
    BY <1>1, <1>3, <1>8 DEF Told, Listed, AsStored, NoneOut
  <2>2. u \in Seq(Nat) /\ d \in Seq(Nat)
    <3>1. UserMessages \subseteq Nat
      BY FeedNumbers
    <3> QED
      BY <1>8, <3>1, SeqWider
  <2> HIDE DEF u, d
  <2>3. u = d
    BY <2>1, <2>2, RisingSame
  <2> QED
    BY <2>3 DEF u, d
<1> QED
  BY <1>9, <1>10

\* At rest, when nothing went wrong, the list shows the text and the messages that the
\* backend has stored, all of them, in the same order and nothing else: whatever frames,
\* answers, approvals and reconnections came in between, and however often.
THEOREM ShownIsStoredHolds == FeedSpec => []ShownIsStored
<1>1. StoredInv => ShownIsStored
  BY StoredInvStored
<1> QED
  BY <1>1, StoredInvariant, PTL


-----------------------------------------------------------------------------
(* The connection.                                                         *)
Socket(b) == [state : {"gone", "connecting", "open"}, token : 0 .. b]
Restarter == [{"auto", "manual"} -> {"no", "waiting", "killed"}]
Signals == {"restarting", "restarted", "exhausted", "returned", "rejected"}

ShellTyped ==
    /\ alive \in BOOLEAN /\ listening \in BOOLEAN /\ (listening = TRUE => alive = TRUE)
    /\ backend \in Nat /\ terminated \in Nat /\ restart_attempts \in Nat
    /\ restarter \in Restarter /\ signals \in Seq(Signals)

SocketTyped ==
    /\ sockets \in [SocketIds -> Socket(backend)] /\ wsRef \in 0 .. MaxSockets
    /\ cachedToken \in 0 .. backend
    /\ connects \in Nat /\ attempt \in Nat /\ reconnectTimeout \in BOOLEAN
    /\ status \in {"connected", "connecting", "disconnected"}

RecoveryTyped ==
    /\ sidecarState \in {"running", "restarting", "failed"}
    /\ recoveries \in [Stages -> Nat] /\ upsets \in 0 .. MaxUpsets

ConnTyped == ShellTyped /\ SocketTyped /\ RecoveryTyped

LEMMA ConnNumbers ==
  /\ MaxSockets \in Nat \ {0} /\ MaxUpsets \in Nat /\ SocketIds = 1 .. MaxSockets
  /\ SocketIds \subseteq 0 .. MaxSockets
  /\ \A b \in Nat : /\ Gone \in Socket(b) /\ 0 .. b \subseteq 0 .. b + 1
                    /\ \A t \in 0 .. b : [state |-> "connecting", token |-> t] \in Socket(b)
<1>1. MaxSockets \in Nat \ {0} /\ MaxUpsets \in Nat /\ SocketIds = 1 .. MaxSockets
  BY ConnectionBounds DEF SocketIds
<1>2. ASSUME NEW b \in Nat
      PROVE  /\ Gone \in Socket(b) /\ 0 .. b \subseteq 0 .. b + 1
             /\ \A t \in 0 .. b : [state |-> "connecting", token |-> t] \in Socket(b)
  BY DEF Gone, Socket
<1> QED
  BY <1>1, <1>2

\* A new socket takes a free place.
LEMMA CreateTypes ==
  ASSUME NEW b \in Nat, NEW others \in [SocketIds -> Socket(b)], NEW t \in 0 .. b, Create(others, t)
  PROVE  sockets' \in [SocketIds -> Socket(b)] /\ wsRef' \in 0 .. MaxSockets
<1>1. PICK i \in SocketIds :
          sockets' = [others EXCEPT ![i] = [state |-> "connecting", token |-> t]] /\ wsRef' = i
  BY DEF Create
<1>2. [state |-> "connecting", token |-> t] \in Socket(b) /\ wsRef' \in 0 .. MaxSockets
  BY <1>1, ConnNumbers
<1>3. \A s \in Socket(b) : [others EXCEPT ![i] = s] \in [SocketIds -> Socket(b)]
  OBVIOUS
<1> QED
  BY <1>1, <1>2, <1>3

LEMMA DropTypes ==
  ASSUME NEW b \in Nat, sockets \in [SocketIds -> Socket(b)], NEW i \in SocketIds
  PROVE  Dropped(i) \in [SocketIds -> Socket(b)]
<1>1. Gone \in Socket(b)
  BY ConnNumbers
<1>2. \A s \in Socket(b) : [sockets EXCEPT ![i] = s] \in [SocketIds -> Socket(b)]
  OBVIOUS
<1> QED
  BY <1>1, <1>2 DEF Dropped

LEMMA ConnectTypes ==
  ASSUME ConnTyped, NEW others \in [SocketIds -> Socket(backend)], NEW ref \in 0 .. MaxSockets,
         Connect(others, ref)
  PROVE  /\ sockets' \in [SocketIds -> Socket(backend)] /\ wsRef' \in 0 .. MaxSockets
         /\ connects' \in Nat /\ reconnectTimeout' \in BOOLEAN
<1>1. backend \in Nat /\ connects \in Nat /\ cachedToken \in 0 .. backend
  BY DEF ConnTyped, ShellTyped, SocketTyped
<1>2. reconnectTimeout' \in BOOLEAN
  BY DEF Connect
<1>3. \/ sockets' = others /\ wsRef' = ref /\ connects' = connects
      \/ Create(others, cachedToken) /\ connects' = connects
      \/ sockets' = others /\ wsRef' = ref /\ connects' = connects + 1
  BY DEF Connect
<1>4. connects + 1 \in Nat
  BY <1>1
<1>5. CASE Create(others, cachedToken) /\ connects' = connects
  BY <1>1, <1>2, <1>5, CreateTypes
<1> QED
  BY <1>1, <1>2, <1>3, <1>4, <1>5

LEMMA ReconnectTypes ==
  ASSUME ConnTyped, Reconnect
  PROVE  /\ sockets' \in [SocketIds -> Socket(backend)] /\ wsRef' \in 0 .. MaxSockets
         /\ connects' \in Nat /\ reconnectTimeout' \in BOOLEAN /\ attempt' \in Nat
         /\ status' \in {"connected", "connecting", "disconnected"}
<1>1. /\ backend \in Nat /\ sockets \in [SocketIds -> Socket(backend)] /\ wsRef \in 0 .. MaxSockets
      /\ attempt' = 0 /\ status' = "connecting"
  BY DEF ConnTyped, ShellTyped, SocketTyped, Reconnect
<1> DEFINE others == IF wsRef = 0 THEN sockets ELSE Dropped(wsRef)
<1>2. wsRef # 0 => wsRef \in SocketIds
  BY <1>1, ConnNumbers
<1>3. others \in [SocketIds -> Socket(backend)]
  BY <1>1, <1>2, DropTypes
<1>4. Connect(others, 0) /\ 0 \in 0 .. MaxSockets
  BY ConnNumbers DEF Reconnect
<1> HIDE DEF others
<1>5. /\ sockets' \in [SocketIds -> Socket(backend)] /\ wsRef' \in 0 .. MaxSockets
      /\ connects' \in Nat /\ reconnectTimeout' \in BOOLEAN
  BY <1>3, <1>4, ConnectTypes
<1> QED
  BY <1>1, <1>5

LEMMA MovesTypes ==
  ASSUME recoveries \in [Stages -> Nat], NEW from \in Stages \cup {"none"},
         NEW to \in Stages \cup {"none"}, from # to,
         from # "none" => recoveries[from] > 0, RecoveryMoves(from, to)
  PROVE  recoveries' \in [Stages -> Nat]
<1>1. recoveries' = [s \in Stages |-> recoveries[s] + (IF s = to THEN 1 ELSE 0)
                                                  - (IF s = from THEN 1 ELSE 0)]
  BY DEF RecoveryMoves
<1>2. "none" \notin Stages
  BY DEF Stages
<1>3. ASSUME NEW s \in Stages
      PROVE  recoveries[s] + (IF s = to THEN 1 ELSE 0) - (IF s = from THEN 1 ELSE 0) \in Nat
  <2>1. recoveries[s] \in Nat /\ (s = from => recoveries[s] > 0)
    BY <1>2
  <2>2. CASE s = from
    BY <2>1, <2>2
  <2>3. CASE s # from
    BY <2>1, <2>3
  <2> QED
    BY <2>2, <2>3
<1> QED
  BY <1>1, <1>3

LEMMA ShellTypedStep ==
  ASSUME ConnTyped, [ConnNext]_connVars
  PROVE  ShellTyped'
<1>1. /\ ShellTyped /\ alive \in BOOLEAN /\ listening \in BOOLEAN
      /\ (listening = TRUE => alive = TRUE)
      /\ backend \in Nat /\ terminated \in Nat /\ restart_attempts \in Nat
      /\ restarter \in Restarter /\ signals \in Seq(Signals)
  BY DEF ConnTyped, ShellTyped
<1>2. ASSUME UNCHANGED <<shellVars, signals>> PROVE ShellTyped'
  BY <1>1, <1>2 DEF ShellTyped, shellVars
<1>3. ASSUME NEW what \in Signals PROVE Append(signals, what) \in Seq(Signals)
  BY <1>1, <1>3
<1>4. ASSUME NEW who \in {"auto", "manual"}, NEW s \in {"no", "waiting", "killed"}
      PROVE  [restarter EXCEPT ![who] = s] \in Restarter
  BY <1>1 DEF Restarter
<1>5. CASE Crash
  <2>1. terminated + 1 \in Nat /\ FALSE \in BOOLEAN
    BY <1>1
  <2>2. /\ alive' = FALSE /\ listening' = FALSE /\ terminated' = terminated + 1
        /\ UNCHANGED <<backend, restarter, restart_attempts, signals>>
    BY <1>5 DEF Crash
  <2> QED
    BY <1>1, <2>1, <2>2 DEF ShellTyped
<1>6. CASE CapturePort
  BY <1>1, <1>6 DEF CapturePort, ShellTyped
<1>7. CASE HandleTerminated
  <2>1. /\ terminated' = terminated - 1 /\ terminated > 0
        /\ UNCHANGED <<backend, alive, listening>>
        /\ \/ UNCHANGED <<restarter, restart_attempts, signals>>
           \/ /\ restarter' = [restarter EXCEPT !["auto"] = "waiting"]
              /\ restart_attempts' = restart_attempts + 1
              /\ signals' = Append(signals, "restarting")
           \/ signals' = Append(signals, "exhausted") /\ UNCHANGED <<restarter, restart_attempts>>
    BY <1>7 DEF HandleTerminated, Signal
  <2>2. restarter' \in Restarter /\ restart_attempts' \in Nat
    <3>1. [restarter EXCEPT !["auto"] = "waiting"] \in Restarter
      BY <1>4
    <3>2. restart_attempts + 1 \in Nat
      BY <1>1
    <3> QED
      BY <1>1, <2>1, <3>1, <3>2
  <2>3. signals' \in Seq(Signals)
    <3>1. "restarting" \in Signals /\ "exhausted" \in Signals
      BY DEF Signals
    <3> QED
      BY <1>1, <1>3, <2>1, <3>1
  <2> QED
    BY <1>1, <2>1, <2>2, <2>3 DEF ShellTyped
<1>8. ASSUME NEW who \in {"auto", "manual"}, KillStored(who) PROVE ShellTyped'
  <2>1. restarter' \in Restarter
    BY <1>4, <1>8 DEF KillStored
  <2>2. /\ alive' = FALSE /\ listening' = FALSE
        /\ terminated' = terminated + 1 \/ terminated' = terminated + 0
        /\ UNCHANGED <<backend, restart_attempts, signals>>
    BY <1>8 DEF KillStored
  <2>3. terminated' \in Nat
    BY <1>1, <2>2
  <2>4. FALSE \in BOOLEAN
    OBVIOUS
  <2> QED
    BY <1>1, <2>1, <2>2, <2>3, <2>4 DEF ShellTyped
<1>9. ASSUME NEW who \in {"auto", "manual"}, Spawn(who) PROVE ShellTyped'
  <2>1. restarter' \in Restarter
    BY <1>4, <1>9 DEF Spawn
  <2>2. signals' \in Seq(Signals)
    <3>1. "restarted" \in Signals /\ "returned" \in Signals
      BY DEF Signals
    <3> QED
      BY <1>3, <1>9, <3>1 DEF Spawn, Signal
  <2>3. /\ alive' = TRUE /\ listening' = FALSE /\ backend' = backend + 1
        /\ terminated' = 1 \/ terminated' = 0
        /\ UNCHANGED restart_attempts
    BY <1>9 DEF Spawn
  <2>4. backend' \in Nat /\ terminated' \in Nat
    BY <1>1, <2>3
  <2>5. FALSE \in BOOLEAN /\ TRUE \in BOOLEAN
    OBVIOUS
  <2> QED
    BY <1>1, <2>1, <2>2, <2>3, <2>4, <2>5 DEF ShellTyped
<1>10. ASSUME NEW who \in {"auto", "manual"}, SpawnFails(who) PROVE ShellTyped'
  <2>1. restarter' \in Restarter
    BY <1>4, <1>10 DEF SpawnFails
  <2>2. signals' \in Seq(Signals)
    <3>1. "rejected" \in Signals
      BY DEF Signals
    <3> QED
      BY <1>1, <1>3, <1>10, <3>1 DEF SpawnFails, Signal
  <2> QED
    BY <1>1, <1>10, <2>1, <2>2 DEF SpawnFails, ShellTyped
<1>11. CASE OnSignal
  <2>1. UNCHANGED shellVars /\ signals' = Tail(signals) /\ signals # <<>>
    BY <1>11 DEF OnSignal
  <2>2. signals' \in Seq(Signals)
    BY <1>1, <2>1
  <2> QED
    BY <1>1, <2>1, <2>2 DEF ShellTyped, shellVars
<1>12. CASE FinishRecovery
  BY <1>1, <1>12 DEF FinishRecovery, ShellTyped
<1>13. CASE ManualRestart
  <2>1. restarter' \in Restarter
    BY <1>4, <1>13 DEF ManualRestart
  <2> QED
    BY <1>1, <1>13, <2>1 DEF ManualRestart, ShellTyped
<1>14. CASE RetryConnect \/ OpenSocket \/ RecoverToken \/ CheckHealth \/ ManualReconnect
  BY <1>2, <1>14 DEF RetryConnect, OpenSocket, RecoverToken, CheckHealth, ManualReconnect
<1>15. ASSUME NEW i, OnOpen(i) \/ OnClose(i) \/ NetworkDrops(i) PROVE ShellTyped'
  BY <1>2, <1>15 DEF OnOpen, OnClose, NetworkDrops, Ended
<1>16. CASE UNCHANGED connVars
  BY <1>2, <1>16 DEF connVars
<1> QED
  BY <1>5, <1>6, <1>7, <1>8, <1>9, <1>10, <1>11, <1>12, <1>13, <1>14, <1>15, <1>16
     DEF ConnNext, ShellStep, SocketStep, RecoveryStep

LEMMA SocketTypedStep ==
  ASSUME ConnTyped, [ConnNext]_connVars
  PROVE  SocketTyped'
<1>1. /\ backend \in Nat /\ connects \in Nat /\ attempt \in Nat /\ reconnectTimeout \in BOOLEAN
      /\ sockets \in [SocketIds -> Socket(backend)] /\ wsRef \in 0 .. MaxSockets
      /\ cachedToken \in 0 .. backend /\ status \in {"connected", "connecting", "disconnected"}
  BY DEF ConnTyped, ShellTyped, SocketTyped
<1>2. ASSUME UNCHANGED <<backend, socketVars>>, cachedToken' \in 0 .. backend PROVE SocketTyped'
  BY <1>1, <1>2 DEF SocketTyped, socketVars
<1>3. ASSUME NEW who, Spawn(who) PROVE SocketTyped'
  <2>1. backend' = backend + 1 /\ UNCHANGED <<socketVars, cachedToken>>
    BY <1>3 DEF Spawn, sidecarVars
  <2>2. cachedToken' \in 0 .. backend'
    BY <1>1, <2>1
  <2>3. [SocketIds -> Socket(backend)] \subseteq [SocketIds -> Socket(backend + 1)]
    <3>1. Socket(backend) \subseteq Socket(backend + 1)
      <4>1. 0 .. backend \subseteq 0 .. backend + 1
        BY <1>1
      <4> QED
        BY <4>1 DEF Socket
    <3> QED
      BY <3>1
  <2>4. sockets' \in [SocketIds -> Socket(backend')]
    BY <1>1, <2>1, <2>3 DEF socketVars
  <2> QED
    BY <1>1, <2>1, <2>2, <2>4 DEF SocketTyped, socketVars
<1>4. ASSUME NEW who, Crash \/ CapturePort \/ HandleTerminated \/ KillStored(who) \/ SpawnFails(who)
                      \/ ManualRestart \/ CheckHealth
      PROVE  SocketTyped'
  <2>1. UNCHANGED <<backend, socketVars, cachedToken>>
    BY <1>4 DEF Crash, CapturePort, HandleTerminated, KillStored, SpawnFails, ManualRestart,
       CheckHealth, shellVars, sidecarVars
  <2> QED
    BY <1>1, <1>2, <2>1
<1>5. CASE RetryConnect
  <2>1. /\ UNCHANGED <<backend, attempt, status, cachedToken>> /\ Connect(sockets, wsRef)
    BY <1>5 DEF RetryConnect, shellVars, sidecarVars
  <2>2. /\ sockets' \in [SocketIds -> Socket(backend)] /\ wsRef' \in 0 .. MaxSockets
        /\ connects' \in Nat /\ reconnectTimeout' \in BOOLEAN
    BY <1>1, <2>1, ConnectTypes
  <2> QED
    BY <1>1, <2>1, <2>2 DEF SocketTyped
<1>6. CASE OpenSocket
  <2>1. /\ connects > 0 /\ connects' = connects - 1 /\ Create(sockets, cachedToken')
        /\ cachedToken' = IF cachedToken = 0 THEN backend ELSE cachedToken
        /\ UNCHANGED <<backend, reconnectTimeout, attempt, status>>
    BY <1>6 DEF OpenSocket, shellVars
  <2>2. cachedToken' \in 0 .. backend /\ connects' \in Nat
    BY <1>1, <2>1
  <2>3. sockets' \in [SocketIds -> Socket(backend)] /\ wsRef' \in 0 .. MaxSockets
    BY <1>1, <2>1, <2>2, CreateTypes
  <2> QED
    BY <1>1, <2>1, <2>2, <2>3 DEF SocketTyped
<1>7. ASSUME NEW i \in SocketIds, OnOpen(i) PROVE SocketTyped'
  <2>1. /\ sockets' = [sockets EXCEPT ![i].state = "open"] /\ attempt' = 0 /\ status' = "connected"
        /\ UNCHANGED <<backend, connects, wsRef, reconnectTimeout, cachedToken>>
    BY <1>7 DEF OnOpen, shellVars, sidecarVars
  <2>2. sockets' \in [SocketIds -> Socket(backend)]
    <3>1. sockets[i] \in Socket(backend)
      BY <1>1
    <3>2. [sockets[i] EXCEPT !.state = "open"] \in Socket(backend)
      BY <3>1 DEF Socket
    <3>3. \A s \in Socket(backend) : [sockets EXCEPT ![i] = s] \in [SocketIds -> Socket(backend)]
      BY <1>1
    <3>4. sockets' = [sockets EXCEPT ![i] = [sockets[i] EXCEPT !.state = "open"]]
      BY <2>1
    <3> QED
      BY <3>2, <3>3, <3>4
  <2> QED
    BY <1>1, <2>1, <2>2 DEF SocketTyped
<1>8. ASSUME NEW i \in SocketIds, OnClose(i) \/ NetworkDrops(i) PROVE SocketTyped'
  <2>1. Ended(i)
    BY <1>8 DEF OnClose, NetworkDrops
  <2>2. /\ sockets' = Dropped(i) /\ UNCHANGED <<backend, connects, wsRef, cachedToken>>
    BY <2>1 DEF Ended, shellVars, sidecarVars
  <2>3. sockets' \in [SocketIds -> Socket(backend)]
    BY <1>1, <2>2, DropTypes
  <2>4. attempt' \in Nat
    <3>1. attempt' = attempt \/ attempt' = attempt + 1
      BY <2>1 DEF Ended
    <3> QED
      BY <1>1, <3>1
  <2>5. reconnectTimeout' \in BOOLEAN
    <3>1. \/ reconnectTimeout' = FALSE
          \/ reconnectTimeout' = (attempt < WEBSOCKET_RECONNECT_MAX_ATTEMPTS)
      BY <2>1 DEF Ended
    <3>2. (attempt < WEBSOCKET_RECONNECT_MAX_ATTEMPTS) \in BOOLEAN
      BY <1>1, ConnectionBounds
    <3> QED
      BY <3>1, <3>2
  <2>6. status' \in {"connected", "connecting", "disconnected"}
    BY <2>1 DEF Ended
  <2> QED
    BY <1>1, <2>2, <2>3, <2>4, <2>5, <2>6 DEF SocketTyped
<1>9. CASE OnSignal
  <2>1. UNCHANGED <<backend, socketVars>>
    BY <1>9 DEF OnSignal, shellVars
  <2>2. cachedToken' \in 0 .. backend
    <3>1. signals \in Seq(Signals) /\ signals # <<>>
      BY <1>9 DEF OnSignal, ConnTyped, ShellTyped
    <3>2. Head(signals) \in Signals
      BY <3>1
    <3>3. cachedToken' = cachedToken \/ cachedToken' = 0
      BY <1>9, <3>2 DEF OnSignal, BeginRecovery, Signals
    <3> QED
      BY <1>1, <3>3
  <2> QED
    BY <1>2, <2>1, <2>2
<1>10. CASE RecoverToken
  <2>1. /\ UNCHANGED <<backend, socketVars>>
        /\ cachedToken' = IF cachedToken = 0 THEN backend ELSE cachedToken
    BY <1>10 DEF RecoverToken, shellVars
  <2>2. cachedToken' \in 0 .. backend
    BY <1>1, <2>1
  <2> QED
    BY <1>2, <2>1, <2>2
<1>11. CASE FinishRecovery \/ ManualReconnect
  <2>1. UNCHANGED <<backend, cachedToken>> /\ Reconnect
    BY <1>11 DEF FinishRecovery, ManualReconnect, shellVars, sidecarVars
  <2>2. /\ sockets' \in [SocketIds -> Socket(backend)] /\ wsRef' \in 0 .. MaxSockets
        /\ connects' \in Nat /\ reconnectTimeout' \in BOOLEAN /\ attempt' \in Nat
        /\ status' \in {"connected", "connecting", "disconnected"}
    BY <2>1, ReconnectTypes
  <2> QED
    BY <1>1, <2>1, <2>2 DEF SocketTyped
<1>12. CASE UNCHANGED connVars
  <2>1. UNCHANGED <<backend, socketVars, cachedToken>>
    BY <1>12 DEF connVars, shellVars, sidecarVars
  <2> QED
    BY <1>1, <1>2, <2>1
<1> QED
  BY <1>3, <1>4, <1>5, <1>6, <1>7, <1>8, <1>9, <1>10, <1>11, <1>12
     DEF ConnNext, ShellStep, SocketStep, RecoveryStep

LEMMA RecoveryTypedStep ==
  ASSUME ConnTyped, [ConnNext]_connVars
  PROVE  RecoveryTyped'
<1>1. /\ sidecarState \in {"running", "restarting", "failed"}
      /\ recoveries \in [Stages -> Nat] /\ upsets \in 0 .. MaxUpsets /\ MaxUpsets \in Nat
  BY ConnNumbers DEF ConnTyped, RecoveryTyped
<1>2. ASSUME Upset PROVE upsets' \in 0 .. MaxUpsets
  BY <1>1, <1>2 DEF Upset
<1>3. ASSUME UNCHANGED <<sidecarState, recoveries>>, upsets' = upsets \/ Upset PROVE RecoveryTyped'
  BY <1>1, <1>2, <1>3 DEF RecoveryTyped
<1>4. ASSUME NEW w, Crash \/ CapturePort \/ HandleTerminated \/ KillStored(w) \/ Spawn(w)
                    \/ SpawnFails(w)
      PROVE  RecoveryTyped'
  BY <1>3, <1>4 DEF Crash, CapturePort, HandleTerminated, KillStored, Spawn, SpawnFails, sidecarVars
<1>5. ASSUME NEW i, RetryConnect \/ OpenSocket \/ OnOpen(i) \/ OnClose(i) \/ NetworkDrops(i)
             \/ ManualReconnect
      PROVE  RecoveryTyped'
  BY <1>3, <1>5 DEF RetryConnect, OpenSocket, OnOpen, OnClose, NetworkDrops, ManualReconnect, Ended,
     sidecarVars
<1>6. CASE ManualRestart
  <2>1. sidecarState' = "restarting" /\ UNCHANGED recoveries /\ Upset
    BY <1>6 DEF ManualRestart
  <2> QED
    BY <1>1, <1>2, <2>1 DEF RecoveryTyped
<1>7. \A s \in Stages : s # "none" /\ s \in Stages \cup {"none"}
  BY DEF Stages
<1>8. "token" \in Stages /\ "health" \in Stages /\ "reset" \in Stages
  BY DEF Stages
<1>9. CASE OnSignal
  <2>1. signals \in Seq(Signals) /\ signals # <<>> /\ upsets' = upsets
    BY <1>9 DEF OnSignal, ConnTyped, ShellTyped
  <2>2. Head(signals) \in Signals
    BY <2>1
  <2>3. \/ sidecarState' \in {"restarting", "failed"} /\ recoveries' = recoveries
        \/ sidecarState' = sidecarState /\ RecoveryMoves("none", "token")
    BY <1>9, <2>2 DEF OnSignal, BeginRecovery, Signals
  <2>4. ASSUME RecoveryMoves("none", "token") PROVE recoveries' \in [Stages -> Nat]
    BY <1>1, <1>7, <1>8, <2>4, MovesTypes
  <2> QED
    BY <1>1, <2>1, <2>3, <2>4 DEF RecoveryTyped
<1>10. CASE RecoverToken
  <2>1. /\ recoveries["token"] > 0 /\ RecoveryMoves("token", "health")
        /\ UNCHANGED <<sidecarState, upsets>>
    BY <1>10 DEF RecoverToken
  <2>2. recoveries' \in [Stages -> Nat]
    BY <1>1, <1>7, <1>8, <2>1, MovesTypes
  <2> QED
    BY <1>1, <2>1, <2>2 DEF RecoveryTyped
<1>11. CASE CheckHealth
  <2>1. /\ recoveries["health"] > 0 /\ upsets' = upsets
        /\ \/ RecoveryMoves("health", "reset") /\ sidecarState' = sidecarState
           \/ RecoveryMoves("health", "none") /\ sidecarState' = "failed"
    BY <1>11 DEF CheckHealth
  <2>2. ASSUME RecoveryMoves("health", "reset") PROVE recoveries' \in [Stages -> Nat]
    BY <1>1, <1>7, <1>8, <2>1, <2>2, MovesTypes
  <2>3. ASSUME RecoveryMoves("health", "none") PROVE recoveries' \in [Stages -> Nat]
    BY <1>1, <1>7, <1>8, <2>1, <2>3, MovesTypes
  <2> QED
    BY <1>1, <2>1, <2>2, <2>3 DEF RecoveryTyped
<1>12. CASE FinishRecovery
  <2>1. /\ recoveries["reset"] > 0 /\ RecoveryMoves("reset", "none")
        /\ sidecarState' = "running" /\ upsets' = upsets
    BY <1>12 DEF FinishRecovery
  <2>2. recoveries' \in [Stages -> Nat]
    BY <1>1, <1>7, <1>8, <2>1, MovesTypes
  <2> QED
    BY <1>1, <2>1, <2>2 DEF RecoveryTyped
<1>13. CASE UNCHANGED connVars
  BY <1>3, <1>13 DEF connVars, sidecarVars
<1> QED
  BY <1>4, <1>5, <1>6, <1>9, <1>10, <1>11, <1>12, <1>13
     DEF ConnNext, ShellStep, SocketStep, RecoveryStep

LEMMA ConnTypedStep == ConnTyped /\ [ConnNext]_connVars => ConnTyped'
BY ShellTypedStep, SocketTypedStep, RecoveryTypedStep DEF ConnTyped

LEMMA ConnTypedInit == ConnInit => ConnTyped
<1> SUFFICES ASSUME ConnInit PROVE ConnTyped
  OBVIOUS
<1> USE ConnNumbers
<1>1. /\ backend = 1 /\ alive = TRUE /\ listening = TRUE /\ terminated = 0 /\ restart_attempts = 0
      /\ restarter = [w \in {"auto", "manual"} |-> "no"] /\ signals = <<>>
      /\ cachedToken = 1 /\ connects = 0 /\ wsRef = 1
      /\ sockets = [i \in SocketIds |-> IF i = 1 THEN [state |-> "open", token |-> 1] ELSE Gone]
      /\ reconnectTimeout = FALSE /\ attempt = 0 /\ status = "connected" /\ sidecarState = "running"
      /\ recoveries = [s \in Stages |-> 0] /\ upsets = 0
  BY DEF ConnInit
<1>2. ShellTyped
  <2>1. restarter \in Restarter
    BY <1>1 DEF Restarter
  <2>2. signals \in Seq(Signals)
    BY <1>1
  <2>3. alive \in BOOLEAN /\ listening \in BOOLEAN
    BY <1>1
  <2> QED
    BY <1>1, <2>1, <2>2, <2>3 DEF ShellTyped
<1>3. SocketTyped
  <2>1. Gone \in Socket(1) /\ [state |-> "open", token |-> 1] \in Socket(1)
    BY DEF Socket
  <2>2. sockets \in [SocketIds -> Socket(1)]
    BY <1>1, <2>1
  <2>3. reconnectTimeout \in BOOLEAN
    BY <1>1
  <2> QED
    BY <1>1, <2>2, <2>3 DEF SocketTyped
<1>4. RecoveryTyped
  BY <1>1 DEF RecoveryTyped
<1> QED
  BY <1>2, <1>3, <1>4 DEF ConnTyped

LEMMA ConnTypedTypes == ConnTyped => ConnTypeOK
<1> SUFFICES ASSUME ConnTyped PROVE ConnTypeOK
  OBVIOUS
<1>1. /\ {alive, listening, reconnectTimeout} \subseteq BOOLEAN /\ (listening => alive)
      /\ {backend, terminated, restart_attempts, attempt, connects} \subseteq Nat
  BY DEF ConnTyped, ShellTyped, SocketTyped
<1>2. restarter \in [{"auto", "manual"} -> {"no", "waiting", "killed"}]
  BY DEF ConnTyped, ShellTyped, Restarter
<1>3. signals \in Seq({"restarting", "restarted", "exhausted", "returned", "rejected"})
  BY DEF ConnTyped, ShellTyped, Signals
<1>4. sockets \in [SocketIds -> [state : {"gone", "connecting", "open"}, token : 0 .. backend]]
  BY DEF ConnTyped, SocketTyped, Socket
<1>5. /\ wsRef \in 0 .. MaxSockets /\ cachedToken \in 0 .. backend
      /\ status \in {"connected", "connecting", "disconnected"}
  BY DEF ConnTyped, SocketTyped
<1>6. /\ sidecarState \in {"running", "restarting", "failed"}
      /\ recoveries \in [Stages -> Nat] /\ upsets \in 0 .. MaxUpsets
  BY DEF ConnTyped, RecoveryTyped
<1> QED
  BY <1>1, <1>2, <1>3, <1>4, <1>5, <1>6 DEF ConnTypeOK

\* The connection's variables keep their types: no socket, cache or call has a token that
\* was never made, the hook refers to one of its sockets or none, and a backend that
\* listens is alive.
THEOREM ConnTypeOKHolds == ConnSpec => []ConnTypeOK
<1> QED
  BY ConnTypedInit, ConnTypedStep, ConnTypedTypes, PTL DEF ConnSpec

-----------------------------------------------------------------------------
(* The five machines together, of which one runs.                          *)
FrontendInv ==
    /\ focus \in {"feed", "pages", "files", "navigation", "connection"}
    /\ FeedInv /\ PagesInv /\ FilesInv /\ NavInv /\ ConnTyped

\* What was proved of each machine alone holds when they stand side by side, as the run of
\* MCFrontend has them.
THEOREM FrontendInvariant == Spec => []FrontendInv
<1>1. Init => FrontendInv
  BY FeedInvInit, PagesInvInit, FilesInvInit, NavInvInit, ConnTypedInit DEF Init, FrontendInv
<1>2. FrontendInv /\ [Next]_vars => FrontendInv'
  <2> SUFFICES ASSUME FrontendInv, [Next]_vars PROVE FrontendInv'
    OBVIOUS
  <2>1. focus' = focus
    BY DEF Next, vars
  <2>2. /\ [FeedNext]_feedVars /\ [PagesNext]_pageVars /\ [FilesNext]_fileVars
        /\ [NavNext]_navVars /\ [ConnNext]_connVars
    BY DEF Next, vars
  <2>3. FeedInv /\ PagesInv /\ FilesInv /\ NavInv /\ ConnTyped
    BY DEF FrontendInv
  <2>4. FeedInv' /\ PagesInv' /\ FilesInv' /\ NavInv' /\ ConnTyped'
    BY <2>2, <2>3, FeedInvStep, PagesInvStep, FilesInvStep, NavInvStep, ConnTypedStep
  <2> QED
    BY <2>1, <2>4 DEF FrontendInv
<1> QED
  BY <1>1, <1>2, PTL DEF Spec

\* The composed frontend keeps its types.
THEOREM FrontendTypeCorrect == Spec => []TypeOK
<1>1. FrontendInv => TypeOK
  <2> SUFFICES ASSUME FrontendInv PROVE TypeOK
    OBVIOUS
  <2>1. FeedTypeOK /\ PagesTypeOK /\ ConnTypeOK
    BY FeedTypedTypes, PagesInvTypes, ConnTypedTypes DEF FrontendInv, FeedInv
  <2>2. FilesTypeOK
    BY DEF FrontendInv, FilesInv
  <2>3. NavTypeOK
    BY DEF FrontendInv, NavInv, PlacesTyped, BarTyped, StacksTyped, NavTypeOK
  <2>4. focus \in {"feed", "pages", "files", "navigation", "connection"}
    BY DEF FrontendInv
  <2> QED
    BY <2>1, <2>2, <2>3, <2>4 DEF TypeOK
<1> QED
  BY <1>1, FrontendInvariant, PTL
=============================================================================
