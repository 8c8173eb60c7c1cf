----------------------- MODULE NotificationCenterProofs -----------------------
(***************************************************************************)
(* What the notification page shows, for every number of notifications,    *)
(* every page size and any number of requests under way.                   *)
(*                                                                         *)
(* At rest the list and the badge are compared with the rows.  While       *)
(* requests are under way the two differ by what the server has done and   *)
(* the page was not yet told, so the invariant compares them up to the     *)
(* requests under way: an answer that waits says what it will change.      *)
(***************************************************************************)
EXTENDS NotificationCenter, Functions, FiniteSetTheorems, SequenceTheorems, TLAPS

-----------------------------------------------------------------------------
(* The inductive invariant *)

\* Whatever has a row, or was read from the rows, has arrived.
SeenOK ==
  /\ \A i \in Ids : rows[i] # "none" => i \in arrived
  /\ seen.list \subseteq arrived /\ seen.count \subseteq arrived
  /\ \A s \in Slots : calls[s].listAt \subseteq arrived /\ calls[s].countAt \subseteq arrived

\* What a request still has to do is what its kind of request does.
CallOK(c) ==
  /\ "list" \in c.todo => c.op \in {"load", "more"}
  /\ "count" \in c.todo => c.op = "load"
  /\ "write" \in c.todo => c.op \in {"read", "readAll", "remove", "removeAll"}
  /\ c.op = "load" => c.after = Start
  /\ c.op = "more" => loadingMore

\* The flag loadingMore admits one request for a further page.
CallsOK ==
  /\ \A s \in Slots : CallOK(calls[s])
  /\ \A s, t \in Slots : calls[s].op = "more" /\ calls[t].op = "more" => s = t

\* Untangled requests are independent.
Separate == \A s, t \in Busy : s # t => Independent(calls[s], calls[t])

\* Newest first, each id once.
Sorted(seq) == \A k, l \in DOMAIN seq : k < l => seq[k].id > seq[l].id

\* The mark of an item is that of its row.
Marked(x) == rows[x.id] = IF x.read THEN "read" ELSE "unread"

\* An answered list request still has the rows it asked for.
PageOK(c) ==
  /\ c.next < c.after
  /\ Sorted(c.page)
  /\ \A x \in Range(c.page) : c.next <= x.id /\ x.id < c.after /\ x.id \in c.listAt /\ Marked(x)
  /\ \A i \in c.listAt : c.next <= i /\ i < c.after /\ rows[i] # "none" =>
       \E x \in Range(c.page) : x.id = i

\* A load: its list and its count are those of the rows.
LoadOK(c) ==
  /\ "list" \notin c.todo => PageOK(c)
  /\ "count" \notin c.todo => c.count = Unread(c.countAt)

\* A further page begins where the list ends.
MoreOK(c) ==
  /\ c.after = cursor /\ cursor # NoCursor
  /\ "list" \notin c.todo => PageOK(c) /\ seen.list \subseteq c.listAt

\* A request for one item is about an item of the list.
ItemOK(c) == c.item \in Range(items) /\ (c.op = "read" => ~c.item.read)

\* What the server has done, the page not yet knowing it: removed row i; changed row i.
Removed(c, i) ==
  c.todo = {} /\ (c.op = "removeAll" \/ (c.op = "remove" /\ c.item.id = i))
Changed(c, i) ==
  c.todo = {} /\ (c.op \in {"readAll", "removeAll"} \/ (c.op \in {"read", "remove"} /\ c.item.id = i))

\* Afterwards the rows are not unread, or not there.
WroteOK(c) ==
  /\ \A i \in seen.list \cup seen.count : Changed(c, i) => rows[i] # "unread"
  /\ \A i \in seen.list \cup seen.count : Removed(c, i) => rows[i] = "none"

RequestOK(c) ==
  /\ c.op = "more" => MoreOK(c)
  /\ c.op \in {"read", "remove"} => ItemOK(c)
  /\ WroteOK(c)
  /\ ~lost => c.ok

\* The list has the rows that had arrived, down to the cursor; an item shown as
\* read is read.
ListOK ==
  /\ Sorted(items)
  /\ \A x \in Range(items) : x.id \in seen.list /\ x.id >= cursor /\ (x.read => rows[x.id] # "unread")
  /\ \A i \in seen.list : i >= cursor /\ rows[i] # "none" => \E x \in Range(items) : x.id = i

\* If no answer was lost, the list differs from the rows by the answers under way.
ExactOK ==
  \A x \in Range(items) :
    /\ (\A s \in Busy : ~Removed(calls[s], x.id)) => rows[x.id] # "none"
    /\ (\A s \in Busy : ~Changed(calls[s], x.id)) => Marked(x)

\* The badge counts what is unread, or shown as unread until an answer comes.
OpenIds == {i \in Ids : \E x \in Range(items) : x.id = i /\ ~x.read}
Owed == {i \in seen.count : rows[i] = "unread" \/ i \in OpenIds}

\* Counted down for, although it was never counted.
Overpaid == {i \in Uncounted : rows[i] # "unread" /\ i \notin OpenIds}

BadgeOK ==
  /\ unread + Cardinality(Overpaid) >= Cardinality(Owed)
  /\ ~lost /\ Uncounted = {}
       /\ (\A s \in Busy : calls[s].op \in {"readAll", "removeAll"} => calls[s].todo # {})
       => unread = Cardinality(Owed)

\* What holds whatever requests have overlapped.
Basic == TypeOK /\ SeenOK /\ CallsOK

\* What holds of the page while it is shown.
PageState ==
  /\ \A s \in Busy : RequestOK(calls[s])
  /\ ListOK
  /\ ~lost => ExactOK
  /\ BadgeOK

LoadsOK == \A s \in Slots : calls[s].op = "load" => LoadOK(calls[s])

IInv ==
  /\ Basic
  /\ ~tangled => Separate /\ LoadsOK /\ (Shown => PageState)

-----------------------------------------------------------------------------
(* The n-th smallest number of a set *)

\* The constants are numbers.
LEMMA Numbers ==
  /\ MaxId \in Nat /\ MaxId > 0 /\ PageSize \in Nat /\ PageSize > 0
  /\ Start = MaxId + 1 /\ NoCursor = 0
BY CenterAssumption DEF Start, NoCursor

\* A set of ids is finite, and has at most MaxId elements.
LEMMA IdSets ==
  ASSUME NEW S \in SUBSET Ids
  PROVE  IsFiniteSet(S) /\ Cardinality(S) \in 0 .. MaxId
<1>1. IsFiniteSet(Ids) /\ Cardinality(Ids) = MaxId
  BY Numbers, FS_Interval DEF Ids
<1>2. QED
  BY <1>1, Numbers, FS_Subset, FS_CardinalityType

\* The number of elements up to i is a rank: it grows with i.
LEMMA RankGrows ==
  ASSUME NEW S \in SUBSET Int, IsFiniteSet(S), NEW i \in S, NEW j \in S, i < j
  PROVE  Cardinality({k \in S : k <= i}) < Cardinality({k \in S : k <= j})
<1> DEFINE A == {k \in S : k <= i}
           B == {k \in S : k <= j}
<1>1. A \subseteq B /\ j \in B /\ j \notin A
  <2>1. \A k \in S : k \in Int
    OBVIOUS
  <2>2. \A k \in S : k <= i => k <= j
    BY <2>1
  <2>3. j <= j /\ ~(j <= i)
    BY <2>1
  <2>4. QED
    BY <2>2, <2>3
<1>2. IsFiniteSet(A) /\ IsFiniteSet(B)
  BY FS_Subset
<1>3. Cardinality(A) <= Cardinality(B) /\ Cardinality(A) # Cardinality(B)
  BY <1>1, <1>2, FS_Subset
<1>4. Cardinality(A) \in Nat /\ Cardinality(B) \in Nat
  BY <1>2, FS_CardinalityType
<1>5. QED
  BY <1>3, <1>4

\* Every rank up to the size of the set is taken, by exactly one element.
LEMMA RankOnto ==
  ASSUME NEW S \in SUBSET Int, IsFiniteSet(S)
  PROVE  \A n \in 1 .. Cardinality(S) : \E i \in S : Cardinality({j \in S : j <= i}) = n
<1> DEFINE N == Cardinality(S)
           rank == [i \in S |-> Cardinality({j \in S : j <= i})]
<1>1. N \in Nat
  BY FS_CardinalityType
<1>2. ASSUME NEW i \in S
      PROVE  Cardinality({j \in S : j <= i}) \in 1 .. N
  <2> DEFINE A == {j \in S : j <= i}
  <2>1. IsFiniteSet(A) /\ Cardinality(A) <= N
    BY FS_Subset
  <2>2. i \in A
    OBVIOUS
  <2>3. Cardinality(A) # 0 /\ Cardinality(A) \in Nat
    BY <2>1, <2>2, FS_EmptySet, FS_CardinalityType
  <2>4. QED
    BY <2>1, <2>3, <1>1
<1>3. rank \in [S -> 1 .. N]
  BY <1>2
<1>4. ASSUME NEW i \in S, NEW j \in S, rank[i] = rank[j]
      PROVE  i = j
  <2>1. CASE i < j
    BY <2>1, <1>2, <1>4, RankGrows
  <2>2. CASE j < i
    BY <2>2, <1>2, <1>4, RankGrows
  <2>3. QED
    BY <2>1, <2>2
<1>5. rank \in Injection(S, 1 .. N)
  BY <1>3, <1>4 DEF Injection, IsInjective
<1>6. IsFiniteSet(1 .. N) /\ Cardinality(1 .. N) = N
  BY <1>1, FS_Interval
<1>7. rank \in Surjection(S, 1 .. N)
  <2> HIDE DEF rank, N
  <2> QED
    BY <1>5, <1>6, FS_Injection DEF N
<1>8. QED
  BY <1>7 DEF Surjection

\* What Nth chooses: the element of rank n.
LEMMA NthFacts ==
  ASSUME NEW S \in SUBSET Int, IsFiniteSet(S), NEW n \in 1 .. Cardinality(S)
  PROVE  Nth(S, n) \in S /\ Cardinality({j \in S : j <= Nth(S, n)}) = n
BY RankOnto DEF Nth

\* Nth grows with the rank.
LEMMA NthGrows ==
  ASSUME NEW S \in SUBSET Int, IsFiniteSet(S),
         NEW m \in 1 .. Cardinality(S), NEW n \in 1 .. Cardinality(S), m < n
  PROVE  Nth(S, m) < Nth(S, n)
<1> DEFINE a == Nth(S, m)
           b == Nth(S, n)
<1>1. a \in S /\ Cardinality({j \in S : j <= a}) = m /\ b \in S /\ Cardinality({j \in S : j <= b}) = n
  BY NthFacts
<1> HIDE DEF a, b
<1>2. a \in Int /\ b \in Int /\ m \in Int /\ n \in Int
  BY <1>1, FS_CardinalityType
<1>3. ~(b < a)
  <2>1. SUFFICES ASSUME b < a PROVE FALSE
    OBVIOUS
  <2>2. Cardinality({j \in S : j <= b}) < Cardinality({j \in S : j <= a})
    BY <2>1, <1>1, RankGrows
  <2>3. QED
    BY <2>2, <1>1, <1>2
<1>4. a # b
  BY <1>1, <1>2
<1>5. QED
  BY <1>2, <1>3, <1>4 DEF a, b

\* Every element is the n-th one, n being its rank.
LEMMA NthOnto ==
  ASSUME NEW S \in SUBSET Int, IsFiniteSet(S), NEW i \in S
  PROVE  \E n \in 1 .. Cardinality(S) : Nth(S, n) = i
<1> DEFINE n == Cardinality({j \in S : j <= i})
<1>1. n \in 1 .. Cardinality(S)
  <2>1. IsFiniteSet({j \in S : j <= i}) /\ n <= Cardinality(S) /\ i \in {j \in S : j <= i}
    BY FS_Subset
  <2>2. n # 0 /\ n \in Nat /\ Cardinality(S) \in Nat
    BY <2>1, FS_EmptySet, FS_CardinalityType
  <2>3. QED
    BY <2>1, <2>2
<1>2. Nth(S, n) \in S /\ Cardinality({j \in S : j <= Nth(S, n)}) = n
  BY <1>1, NthFacts
<1>3. Nth(S, n) = i
  <2> DEFINE b == Nth(S, n)
  <2>1. b \in S /\ Cardinality({j \in S : j <= b}) = n
    BY <1>2
  <2> HIDE DEF b
  <2>2. b < i => FALSE
    BY <2>1, <1>1, RankGrows
  <2>3. i < b => FALSE
    BY <2>1, <1>1, RankGrows
  <2>4. b \in Int /\ i \in Int
    BY <2>1
  <2>5. b = i
    BY <2>2, <2>3, <2>4
  <2>6. QED
    BY <2>5 DEF b
<1>4. QED
  BY <1>1, <1>3

-----------------------------------------------------------------------------
(* Lists *)

\* The members of a list of items.
LEMMA RangeFacts ==
  ASSUME NEW seq \in Seq(Item)
  PROVE  /\ Len(seq) \in Nat /\ DOMAIN seq = 1 .. Len(seq)
         /\ \A k \in DOMAIN seq : seq[k] \in Item /\ seq[k] \in Range(seq)
         /\ Range(seq) \subseteq Item
         /\ \A x \in Range(seq) : \E k \in DOMAIN seq : x = seq[k]
<1>1. Len(seq) \in Nat /\ DOMAIN seq = 1 .. Len(seq) /\ seq \in [1 .. Len(seq) -> Item]
  BY LenProperties
<1>2. QED
  BY <1>1 DEF Range

\* An id and a mark.
LEMMA ItemFacts ==
  /\ \A x \in Item : x.id \in Ids /\ x.read \in BOOLEAN
  /\ \A x, y \in Item : x.id = y.id /\ x.read = y.read => x = y
  /\ \A i \in Ids : i \in 1 .. MaxId /\ i \in Nat
BY Numbers DEF Item, Ids

\* A sorted list shows no id twice.
LEMMA SortedOnce ==
  ASSUME NEW seq \in Seq(Item), Sorted(seq), NEW x \in Range(seq), NEW y \in Range(seq),
         x.id = y.id
  PROVE  x = y
<1>1. PICK k \in DOMAIN seq, l \in DOMAIN seq : x = seq[k] /\ y = seq[l]
  BY RangeFacts
<1>2. k \in Nat /\ l \in Nat
  BY RangeFacts
<1>3. seq[k].id \in Nat /\ seq[l].id \in Nat
  BY RangeFacts, ItemFacts
<1>4. ~(k < l) /\ ~(l < k)
  BY <1>1, <1>3 DEF Sorted
<1>5. QED
  BY <1>1, <1>2, <1>4

\* The rows before a cursor are ids.
LEMMA OlderFacts ==
  ASSUME NEW c \in 0 .. Start
  PROVE  /\ Older(c) \in SUBSET Ids /\ Older(c) \in SUBSET Int /\ IsFiniteSet(Older(c))
         /\ Cardinality(Older(c)) \in 0 .. MaxId
         /\ \A i \in Older(c) : i < c
<1>1. Older(c) \in SUBSET Ids /\ (\A i \in Older(c) : i < c)
  BY DEF Older, Stored
<1>2. QED
  BY <1>1, IdSets, ItemFacts

\* A page: the newest rows before the cursor, in order, down to the next cursor.
LEMMA PageFacts ==
  ASSUME TypeOK, NEW c \in 0 .. Start
  PROVE  /\ Page(c) \in Seq(Item) /\ Sorted(Page(c))
         /\ NextCursor(c) \in 0 .. MaxId /\ (c # 0 => NextCursor(c) < c)
         /\ \A x \in Range(Page(c)) : x.id \in Older(c) /\ NextCursor(c) <= x.id /\ Marked(x)
         /\ \A i \in Older(c) : NextCursor(c) <= i => \E x \in Range(Page(c)) : x.id = i
<1> DEFINE O == Older(c)
           all == Cardinality(O)
           len == IF all < PageSize THEN all ELSE PageSize
           item(k) == [id |-> Nth(O, all + 1 - k), read |-> rows[Nth(O, all + 1 - k)] = "read"]
           first == Nth(O, all + 1 - PageSize)
<1>1. O \in SUBSET Ids /\ O \in SUBSET Int /\ IsFiniteSet(O) /\ all \in Nat /\ all <= MaxId
  BY OlderFacts, Numbers
<1>2. Page(c) = [k \in 1 .. len |-> item(k)]
  BY DEF Page
<1>3. NextCursor(c) = IF all > PageSize THEN Page(c)[PageSize].id ELSE 0
  BY DEF NextCursor, NoCursor
<1>4. \A i \in O : i \in Ids /\ i \in Nat /\ i > 0 /\ i <= MaxId /\ i < c /\ rows[i] # "none"
  BY Numbers DEF Older, Stored, Ids
<1>5. len \in Nat /\ len <= all /\ len <= PageSize /\ (all > PageSize => len = PageSize)
      /\ (all <= PageSize => len = all)
  BY <1>1, Numbers
<1> HIDE DEF O, all, len
<1>6. \A n \in 1 .. all : Nth(O, n) \in O
  BY <1>1, NthFacts DEF all
<1>7. \A m, n \in 1 .. all : m < n => Nth(O, m) < Nth(O, n)
  BY <1>1, NthGrows DEF all
<1>8. \A i \in O : \E n \in 1 .. all : Nth(O, n) = i
  BY <1>1, NthOnto DEF all
<1>9. \A k \in 1 .. len : all + 1 - k \in 1 .. all
  BY <1>1, <1>5
<1>10. \A k \in 1 .. len : item(k).id = Nth(O, all + 1 - k) /\ item(k).id \in O /\ item(k) \in Item
                           /\ Marked(item(k))
  <2> TAKE k \in 1 .. len
  <2>1. Nth(O, all + 1 - k) \in O
    BY <1>6, <1>9
  <2>2. item(k) \in Item
    BY <2>1, <1>1 DEF Item
  <2>3. rows[item(k).id] \in {"unread", "read"}
    BY <2>1, <1>4 DEF TypeOK
  <2>4. QED
    BY <2>1, <2>2, <2>3 DEF Marked
<1> HIDE DEF item
<1>11. Page(c) \in Seq(Item) /\ DOMAIN Page(c) = 1 .. len
  BY <1>2, <1>5, <1>10, IsASeq
<1>12. \A k \in 1 .. len : Page(c)[k] = item(k)
  BY <1>2
<1>13. Sorted(Page(c))
  <2>1. SUFFICES ASSUME NEW k \in 1 .. len, NEW l \in 1 .. len, k < l
                 PROVE  item(k).id > item(l).id
    BY <1>11, <1>12 DEF Sorted
  <2>2. all + 1 - l < all + 1 - k /\ all + 1 - l \in 1 .. all /\ all + 1 - k \in 1 .. all
    BY <2>1, <1>1, <1>5, <1>9
  <2>3. Nth(O, all + 1 - l) < Nth(O, all + 1 - k)
    BY <2>2, <1>7
  <2>4. Nth(O, all + 1 - l) \in Int /\ Nth(O, all + 1 - k) \in Int
    BY <2>2, <1>6, <1>4
  <2>5. QED
    BY <2>3, <2>4, <1>10
<1>14. NextCursor(c) = IF all > PageSize THEN first ELSE 0
  BY <1>3, <1>5, <1>10, <1>12, Numbers
<1>15. all > PageSize => first \in O /\ all + 1 - PageSize \in 1 .. all
  BY <1>1, <1>6, Numbers
<1>16. NextCursor(c) \in 0 .. MaxId /\ (c # 0 => NextCursor(c) < c)
  BY <1>14, <1>15, <1>4, Numbers
<1>17. \A k \in 1 .. len : NextCursor(c) <= item(k).id
  <2> TAKE k \in 1 .. len
  <2>1. item(k).id \in O /\ item(k).id \in Nat /\ item(k).id = Nth(O, all + 1 - k)
    BY <1>10, <1>4
  <2>2. CASE all > PageSize
    <3>1. all + 1 - k = all + 1 - PageSize \/ all + 1 - PageSize < all + 1 - k
      BY <1>1, <1>5, Numbers
    <3>2. first = item(k).id \/ first < item(k).id
      BY <3>1, <2>1, <2>2, <1>7, <1>9, <1>15
    <3>3. QED
      BY <3>2, <2>1, <2>2, <1>4, <1>14, <1>15
  <2>3. CASE ~(all > PageSize)
    BY <2>1, <2>3, <1>14
  <2>4. QED
    BY <2>2, <2>3
<1>18. \A x \in Range(Page(c)) : x.id \in O /\ NextCursor(c) <= x.id /\ Marked(x)
  BY <1>10, <1>11, <1>12, <1>17 DEF Range
<1>19. ASSUME NEW i \in O, NextCursor(c) <= i
       PROVE  \E x \in Range(Page(c)) : x.id = i
  <2>1. PICK n \in 1 .. all : Nth(O, n) = i
    BY <1>8
  <2> DEFINE k == all + 1 - n
  <2>2. k \in 1 .. len
    <3>1. CASE all > PageSize
      <4>1. ~(n < all + 1 - PageSize)
        BY <3>1, <2>1, <1>4, <1>7, <1>14, <1>15, <1>19
      <4>2. QED
        BY <4>1, <3>1, <1>1, <1>5, Numbers
    <3>2. CASE ~(all > PageSize)
      BY <3>2, <1>1, <1>5, Numbers
    <3>3. QED
      BY <3>1, <3>2
  <2>3. all + 1 - k = n
    BY <1>1
  <2>4. item(k).id = i
    BY <2>1, <2>2, <2>3, <1>10
  <2>5. QED
    BY <2>2, <2>4, <1>11, <1>12 DEF Range
<1>20. QED
  BY <1>11, <1>13, <1>16, <1>18, <1>19 DEF O

\* Keeping the items at some positions: those items, in their order.
LEMMA FilteredFacts ==
  ASSUME items \in Seq(Item), NEW K \in SUBSET (DOMAIN items)
  PROVE  /\ Filtered(K) \in Seq(Item)
         /\ Range(Filtered(K)) = {items[k] : k \in K}
         /\ Sorted(items) => Sorted(Filtered(K))
<1> DEFINE N == Cardinality(K)
<1>1. /\ K \in SUBSET Int /\ IsFiniteSet(K) /\ N \in Nat
      /\ \A k \in K : k \in DOMAIN items /\ items[k] \in Item
  <2>1. IsFiniteSet(DOMAIN items) /\ DOMAIN items \subseteq Int
    BY RangeFacts, FS_Interval
  <2>2. QED
    BY <2>1, RangeFacts, FS_Subset, FS_CardinalityType
<1> HIDE DEF N
<1>2. /\ \A n \in 1 .. N : Nth(K, n) \in K
      /\ \A m, n \in 1 .. N : m < n => Nth(K, m) < Nth(K, n)
      /\ \A k \in K : \E n \in 1 .. N : Nth(K, n) = k
  BY <1>1, NthFacts, NthGrows, NthOnto DEF N
<1>3. Filtered(K) = [n \in 1 .. N |-> items[Nth(K, n)]]
  BY DEF Filtered, N
<1>4. Filtered(K) \in Seq(Item) /\ DOMAIN Filtered(K) = 1 .. N
  BY <1>1, <1>2, <1>3, IsASeq
<1>5. Range(Filtered(K)) = {items[k] : k \in K}
  BY <1>2, <1>3 DEF Range
<1>6. ASSUME Sorted(items)
      PROVE  Sorted(Filtered(K))
  BY <1>1, <1>2, <1>3, <1>4, <1>6 DEF Sorted
<1>7. QED
  BY <1>4, <1>5, <1>6

\* Marking items as read keeps the list, its order and the other marks.
LEMMA MarkedReadFacts ==
  ASSUME items \in Seq(Item), NEW S
  PROVE  /\ MarkedRead(S) \in Seq(Item)
         /\ Sorted(items) => Sorted(MarkedRead(S))
         /\ \A y \in Range(MarkedRead(S)) :
              \E x \in Range(items) : x.id = y.id /\ (y.read <=> x.read \/ x.id \in S)
         /\ \A x \in Range(items) : \E y \in Range(MarkedRead(S)) :
              x.id = y.id /\ (y.read <=> x.read \/ x.id \in S) /\ (x.id \notin S => y = x)
<1> DEFINE mark(x) == IF x.id \in S THEN [x EXCEPT !.read = TRUE] ELSE x
<1>1. /\ \A k \in DOMAIN items : items[k] \in Item
      /\ Len(items) \in Nat /\ DOMAIN items = 1 .. Len(items)
  BY RangeFacts
<1>2. \A x \in Item : /\ mark(x) \in Item /\ mark(x).id = x.id
                      /\ (mark(x).read <=> x.read \/ x.id \in S) /\ (x.id \notin S => mark(x) = x)
  BY DEF Item
<1>3. MarkedRead(S) = [k \in DOMAIN items |-> mark(items[k])]
  BY DEF MarkedRead
<1> HIDE DEF mark
<1>4. MarkedRead(S) = [k \in 1 .. Len(items) |-> mark(items[k])]
  BY <1>1, <1>3
<1>5. MarkedRead(S) \in Seq(Item)
  BY <1>1, <1>2, <1>4, IsASeq
<1>6. DOMAIN MarkedRead(S) = DOMAIN items /\ \A k \in DOMAIN items : MarkedRead(S)[k] = mark(items[k])
  BY <1>3
<1>7. Sorted(items) => Sorted(MarkedRead(S))
  BY <1>1, <1>2, <1>6 DEF Sorted
<1>8. QED
  BY <1>1, <1>2, <1>5, <1>6, <1>7 DEF Range

\* A list and its continuation.
LEMMA ConcatFacts ==
  ASSUME NEW a \in Seq(Item), NEW b \in Seq(Item)
  PROVE  /\ a \o b \in Seq(Item)
         /\ Range(a \o b) = Range(a) \cup Range(b)
         /\ Sorted(a) /\ Sorted(b) /\ (\A x \in Range(a), y \in Range(b) : x.id > y.id)
              => Sorted(a \o b)
<1> DEFINE c == a \o b
           m == Len(a)
           n == Len(b)
<1>1. /\ c \in Seq(Item) /\ Len(c) = m + n
      /\ \A k \in 1 .. m + n : c[k] = IF k <= m THEN a[k] ELSE b[k - m]
  BY ConcatProperties
<1>2. m \in Nat /\ n \in Nat /\ DOMAIN a = 1 .. m /\ DOMAIN b = 1 .. n /\ DOMAIN c = 1 .. m + n
  BY <1>1, RangeFacts
<1> HIDE DEF c, m, n
<1>3. Range(c) = Range(a) \cup Range(b)
  <2>1. ASSUME NEW x \in Range(c) PROVE x \in Range(a) \cup Range(b)
    <3>1. PICK k \in 1 .. m + n : x = c[k]
      BY <1>2 DEF Range
    <3>2. CASE k <= m
      BY <3>1, <3>2, <1>1, <1>2 DEF Range
    <3>3. CASE ~(k <= m)
      <4>1. k - m \in 1 .. n
        BY <3>1, <3>3, <1>2
      <4>2. QED
        BY <4>1, <3>1, <3>3, <1>1, <1>2 DEF Range
    <3>4. QED
      BY <3>2, <3>3
  <2>2. ASSUME NEW x \in Range(a) PROVE x \in Range(c)
    <3>1. PICK k \in 1 .. m : x = a[k]
      BY <1>2 DEF Range
    <3>2. k \in 1 .. m + n /\ c[k] = x
      BY <3>1, <1>1, <1>2
    <3>3. QED
      BY <3>2, <1>2 DEF Range
  <2>3. ASSUME NEW x \in Range(b) PROVE x \in Range(c)
    <3>1. PICK k \in 1 .. n : x = b[k]
      BY <1>2 DEF Range
    <3>2. PICK l \in 1 .. m + n : ~(l <= m) /\ l - m = k
      <4>1. k + m \in 1 .. m + n /\ ~(k + m <= m) /\ k + m - m = k
        BY <1>2
      <4>2. QED
        BY <4>1, <1>2
    <3>3. c[l] = x /\ l \in DOMAIN c
      BY <3>1, <3>2, <1>1, <1>2
    <3>4. QED
      BY <3>3 DEF Range
  <2>4. QED
    BY <2>1, <2>2, <2>3
<1>4. ASSUME Sorted(a), Sorted(b), \A x \in Range(a), y \in Range(b) : x.id > y.id
      PROVE  Sorted(c)
  <2>1. SUFFICES ASSUME NEW k \in 1 .. m + n, NEW l \in 1 .. m + n, k < l
                 PROVE  c[k].id > c[l].id
    BY <1>2 DEF Sorted
  <2>2. CASE l <= m
    BY <2>1, <2>2, <1>1, <1>2, <1>4 DEF Sorted
  <2>3. CASE k <= m /\ ~(l <= m)
    <3>1. k \in 1 .. m /\ l - m \in 1 .. n
      BY <2>1, <2>3, <1>2
    <3>2. a[k] \in Range(a) /\ b[l - m] \in Range(b)
      BY <3>1, <1>2 DEF Range
    <3>3. QED
      BY <3>2, <2>3, <1>1, <1>4
  <2>4. CASE ~(k <= m)
    <3>1. k - m \in 1 .. n /\ l - m \in 1 .. n /\ k - m < l - m /\ ~(l <= m)
      BY <2>1, <2>4, <1>2
    <3>2. b[k - m].id > b[l - m].id
      BY <3>1, <1>2, <1>4 DEF Sorted
    <3>3. QED
      BY <3>1, <3>2, <2>4, <1>1
  <2>5. QED
    BY <2>1, <2>2, <2>3, <2>4, <1>2
<1>5. QED
  BY <1>1, <1>3, <1>4 DEF c

-----------------------------------------------------------------------------
(* Types, and what holds whatever requests have overlapped *)

\* The flags of the page and of its history.
LEMMA Flags ==
  TypeOK <=> /\ rows \in [Ids -> {"none", "unread", "read"}] /\ arrived \subseteq Ids
             /\ items \in Seq(Item) /\ unread \in 0 .. MaxId /\ cursor \in 0 .. MaxId
             /\ loading \in BOOLEAN /\ loadingMore \in BOOLEAN /\ failed \in BOOLEAN
             /\ tangled \in BOOLEAN /\ lost \in BOOLEAN
             /\ calls \in [Slots -> Call]
             /\ seen \in [list : SUBSET Ids, count : SUBSET Ids]
BY DEF TypeOK

\* The parts of a request.
LEMMA CallFacts ==
  \A c \in Call : /\ c.op \in Op /\ c.todo \in SUBSET {"list", "count", "write"} /\ c.item \in Item
                  /\ c.after \in 0 .. Start /\ c.ok \in BOOLEAN /\ c.page \in Seq(Item)
                  /\ c.next \in 0 .. MaxId /\ c.count \in 0 .. MaxId
                  /\ c.listAt \in SUBSET Ids /\ c.countAt \in SUBSET Ids
BY DEF Call

\* A request that is sent: nothing is done for it yet.
Fresh(c) ==
  /\ c \in Call /\ c.op # "none" /\ c.ok /\ c.listAt = {} /\ c.countAt = {}
  /\ c.todo = CASE c.op = "load" -> {"list", "count"} [] c.op = "more" -> {"list"} [] OTHER -> {"write"}
  /\ c.op = "load" => c.after = Start

\* A request of which nothing is done is one.
LEMMA RequestFacts ==
  ASSUME NEW op \in Op, NEW todo \in SUBSET {"list", "count", "write"}, NEW x \in Item,
         NEW after \in 0 .. Start
  PROVE  Request(op, todo, x, after) \in Call
<1>1. <<>> \in Seq(Item) /\ NoCursor \in 0 .. MaxId /\ 0 \in 0 .. MaxId
  BY Numbers, EmptySeq
<1>2. QED
  BY <1>1 DEF Request, Call

\* No request, and the requests the controls send.
LEMMA NewCalls ==
  /\ NoItem \in Item
  /\ NoCall \in Call /\ NoCall.op = "none" /\ NoCall.todo = {} /\ NoCall.listAt = {}
     /\ NoCall.countAt = {}
  /\ Fresh(LoadCall) /\ LoadCall.op = "load"
  /\ \A a \in 0 .. MaxId :
       LET c == Request("more", {"list"}, NoItem, a)
       IN  Fresh(c) /\ c.op = "more" /\ c.after = a
  /\ \A op \in {"read", "remove", "readAll", "removeAll"}, x \in Item :
       LET c == Request(op, {"write"}, x, 0)
       IN  Fresh(c) /\ c.op = op /\ c.item = x
<1>1. NoItem \in Item
  BY Numbers DEF NoItem, Item, Ids
<1>2. /\ \A op \in {"none", "load", "more", "read", "remove", "readAll", "removeAll"} : op \in Op
      /\ 0 \in 0 .. Start /\ Start \in 0 .. Start /\ \A a \in 0 .. MaxId : a \in 0 .. Start
  BY Numbers DEF Op
<1>3. NoCall \in Call
  BY <1>1, <1>2, RequestFacts DEF NoCall
<1>4. NoCall.op = "none" /\ NoCall.todo = {} /\ NoCall.listAt = {} /\ NoCall.countAt = {}
  BY DEF NoCall, Request
<1>5. LoadCall \in Call
  BY <1>1, <1>2, RequestFacts DEF LoadCall
<1>6. Fresh(LoadCall) /\ LoadCall.op = "load"
  <2>1. LoadCall.op = "load" /\ LoadCall.todo = {"list", "count"} /\ LoadCall.after = Start
        /\ LoadCall.ok /\ LoadCall.listAt = {} /\ LoadCall.countAt = {}
    BY DEF LoadCall, Request
  <2>2. QED
    BY <2>1, <1>5 DEF Fresh
<1>7. ASSUME NEW a \in 0 .. MaxId
      PROVE  LET c == Request("more", {"list"}, NoItem, a)
             IN  Fresh(c) /\ c.op = "more" /\ c.after = a
  <2> DEFINE c == Request("more", {"list"}, NoItem, a)
  <2>1. c \in Call
    BY <1>1, <1>2, RequestFacts
  <2>2. c.op = "more" /\ c.todo = {"list"} /\ c.after = a /\ c.ok /\ c.listAt = {} /\ c.countAt = {}
    BY DEF Request
  <2> HIDE DEF c
  <2>3. Fresh(c) /\ c.op = "more" /\ c.after = a
    BY <2>1, <2>2 DEF Fresh
  <2>4. QED
    BY <2>3 DEF c
<1>8. ASSUME NEW op \in {"read", "remove", "readAll", "removeAll"}, NEW x \in Item
      PROVE  LET c == Request(op, {"write"}, x, 0)
             IN  Fresh(c) /\ c.op = op /\ c.item = x
  <2> DEFINE c == Request(op, {"write"}, x, 0)
  <2>1. c \in Call
    BY <1>2, RequestFacts
  <2>2. c.op = op /\ c.todo = {"write"} /\ c.item = x /\ c.ok /\ c.listAt = {} /\ c.countAt = {}
    BY DEF Request
  <2> HIDE DEF c
  <2>3. Fresh(c) /\ c.op = op /\ c.item = x
    BY <2>1, <2>2 DEF Fresh
  <2>4. QED
    BY <2>3 DEF c
<1>9. QED
  BY <1>1, <1>3, <1>4, <1>6, <1>7, <1>8

\* The first state.
LEMMA InitIInv == Init => IInv
<1> SUFFICES ASSUME Init PROVE IInv
  OBVIOUS
<1>1. PICK t \in Slots : calls = [s \in Slots |-> IF s = t THEN LoadCall ELSE NoCall]
  BY DEF Init
<1>2. \A s \in Slots : calls[s] \in Call /\ calls[s].listAt = {} /\ calls[s].countAt = {}
  BY <1>1, NewCalls DEF Fresh
<1>3. TypeOK
  <2>1. calls \in [Slots -> Call]
    BY <1>1, <1>2
  <2>2. rows \in [Ids -> {"none", "unread", "read"}] /\ arrived \subseteq Ids
    BY DEF Init
  <2>3. items \in Seq(Item) /\ unread \in 0 .. MaxId /\ cursor \in 0 .. MaxId
    BY Numbers, EmptySeq DEF Init
  <2>4. loading \in BOOLEAN /\ loadingMore \in BOOLEAN /\ failed \in BOOLEAN
        /\ tangled \in BOOLEAN /\ lost \in BOOLEAN
    BY DEF Init
  <2>5. seen \in [list : SUBSET Ids, count : SUBSET Ids]
    BY DEF Init
  <2>6. QED
    BY <2>1, <2>2, <2>3, <2>4, <2>5, Flags
<1>4. SeenOK
  BY <1>2 DEF Init, SeenOK
<1>5. \A s \in Slots : calls[s].op \in {"load", "none"} /\ (calls[s].op = "load" <=> s = t)
  BY <1>1, NewCalls
<1>6. \A s \in Slots : CallOK(calls[s])
  <2>1. CallOK(LoadCall)
    BY NewCalls DEF CallOK, Fresh
  <2>2. CallOK(NoCall)
    BY NewCalls DEF CallOK
  <2>3. QED
    BY <1>1, <2>1, <2>2
<1>7. CallsOK
  BY <1>5, <1>6 DEF CallsOK
<1>8. Separate
  BY <1>5 DEF Separate, Busy
<1>9. LoadsOK
  <2>1. LoadOK(LoadCall)
    BY NewCalls DEF LoadOK, Fresh
  <2>2. QED
    BY <1>1, <1>5, <2>1 DEF LoadsOK
<1>10. ~Shown
  BY DEF Init, Shown
<1>11. QED
  BY <1>3, <1>4, <1>7, <1>8, <1>9, <1>10 DEF IInv, Basic

\* What the server's steps change of a request.
LEMMA ServeListCalls ==
  ASSUME TypeOK, CallsOK, NEW s \in Slots, ServeList(s)
  PROVE  /\ calls' \in [Slots -> Call] /\ \A t \in Slots : t # s => calls'[t] = calls[t]
         /\ calls'[s].op = calls[s].op /\ calls'[s].item = calls[s].item
         /\ calls'[s].after = calls[s].after /\ calls'[s].ok = calls[s].ok
         /\ calls'[s].count = calls[s].count /\ calls'[s].countAt = calls[s].countAt
         /\ calls'[s].todo = calls[s].todo \ {"list"}
         /\ calls'[s].page = Page(calls[s].after) /\ calls'[s].next = NextCursor(calls[s].after)
         /\ calls'[s].listAt = arrived
<1> DEFINE c == calls[s]
           p == Page(c.after)
           n == NextCursor(c.after)
           d == [c EXCEPT !.todo = @ \ {"list"}, !.page = p, !.next = n, !.listAt = arrived]
<1>1. calls' = [calls EXCEPT ![s] = d]
  BY DEF ServeList, TypeOK
<1>2. c \in Call /\ calls \in [Slots -> Call] /\ arrived \in SUBSET Ids
  BY DEF TypeOK
<1>3. p \in Seq(Item) /\ n \in 0 .. MaxId
  BY <1>2, CallFacts, PageFacts
<1> HIDE DEF c, p, n
<1>4. /\ d.op = c.op /\ d.item = c.item /\ d.after = c.after /\ d.ok = c.ok /\ d.count = c.count
      /\ d.countAt = c.countAt /\ d.todo = c.todo \ {"list"} /\ d.page = p /\ d.next = n
      /\ d.listAt = arrived
  BY <1>2 DEF Call
<1>5. d \in Call
  BY <1>2, <1>3 DEF Call
<1> HIDE DEF d
<1>6. QED
  BY <1>1, <1>2, <1>4, <1>5 DEF c, p, n

\* The count of unread rows.
LEMMA ServeCountCalls ==
  ASSUME TypeOK, CallsOK, NEW s \in Slots, ServeCount(s)
  PROVE  /\ calls' \in [Slots -> Call] /\ \A t \in Slots : t # s => calls'[t] = calls[t]
         /\ calls'[s].op = calls[s].op /\ calls'[s].item = calls[s].item
         /\ calls'[s].after = calls[s].after /\ calls'[s].ok = calls[s].ok
         /\ calls'[s].page = calls[s].page /\ calls'[s].next = calls[s].next
         /\ calls'[s].listAt = calls[s].listAt
         /\ calls'[s].todo = calls[s].todo \ {"count"}
         /\ calls'[s].count = Unread(Ids) /\ calls'[s].countAt = arrived
<1> DEFINE c == calls[s]
           n == Unread(Ids)
           d == [c EXCEPT !.todo = @ \ {"count"}, !.count = n, !.countAt = arrived]
<1>1. calls' = [calls EXCEPT ![s] = d]
  BY DEF ServeCount, TypeOK
<1>2. c \in Call /\ calls \in [Slots -> Call] /\ arrived \in SUBSET Ids
  BY DEF TypeOK
<1>3. n \in 0 .. MaxId
  BY IdSets DEF Unread
<1> HIDE DEF c, n
<1>4. /\ d.op = c.op /\ d.item = c.item /\ d.after = c.after /\ d.ok = c.ok /\ d.page = c.page
      /\ d.next = c.next /\ d.listAt = c.listAt /\ d.todo = c.todo \ {"count"} /\ d.count = n
      /\ d.countAt = arrived
  BY <1>2 DEF Call
<1>5. d \in Call
  BY <1>2, <1>3 DEF Call
<1> HIDE DEF d
<1>6. QED
  BY <1>1, <1>2, <1>4, <1>5 DEF c, n

\* A mutation.
LEMMA ServeWriteCalls ==
  ASSUME TypeOK, CallsOK, NEW s \in Slots, ServeWrite(s)
  PROVE  /\ calls' \in [Slots -> Call] /\ \A t \in Slots : t # s => calls'[t] = calls[t]
         /\ calls'[s].op = calls[s].op /\ calls'[s].item = calls[s].item
         /\ calls'[s].after = calls[s].after /\ calls'[s].listAt = calls[s].listAt
         /\ calls'[s].countAt = calls[s].countAt
         /\ calls'[s].todo = {}
         /\ calls'[s].ok <=> (calls[s].op \in {"read", "remove"} => rows[calls[s].item.id] # "none")
         /\ calls[s].op \in {"read", "readAll", "remove", "removeAll"}
<1> DEFINE c == calls[s]
           b == c.op \in {"read", "remove"} => rows[c.item.id] # "none"
           d == [c EXCEPT !.todo = {}, !.ok = b]
<1>1. calls' = [calls EXCEPT ![s] = d]
  BY DEF ServeWrite, TypeOK
<1>2. c \in Call /\ calls \in [Slots -> Call]
  BY DEF TypeOK
<1>3. b \in BOOLEAN
  OBVIOUS
<1>4. c.op \in {"read", "readAll", "remove", "removeAll"}
  BY DEF ServeWrite, CallsOK, CallOK
<1> HIDE DEF c, b
<1>5. /\ d.op = c.op /\ d.item = c.item /\ d.after = c.after /\ d.listAt = c.listAt
      /\ d.countAt = c.countAt /\ d.todo = {} /\ d.ok = b
  BY <1>2 DEF Call
<1>6. d \in Call
  BY <1>2, <1>3 DEF Call
<1> HIDE DEF d
<1>7. QED
  BY <1>1, <1>2, <1>4, <1>5, <1>6 DEF c, b

\* The rows after a mutation: it creates none, and makes none unread.
LEMMA WriteRows ==
  ASSUME TypeOK, CallsOK, NEW s \in Slots, ServeWrite(s)
  PROVE  /\ rows' \in [Ids -> {"none", "unread", "read"}]
         /\ \A i \in Ids : /\ rows'[i] # "none" => rows[i] # "none"
                           /\ rows'[i] = "unread" => rows[i] = "unread"
         /\ calls[s].op \in {"read", "remove"} =>
              \A i \in Ids : i # calls[s].item.id => rows'[i] = rows[i]
         /\ calls[s].op = "read" => LET i == calls[s].item.id
                                    IN  rows'[i] = IF rows[i] = "unread" THEN "read" ELSE rows[i]
         /\ calls[s].op = "readAll" =>
              \A i \in Ids : rows'[i] = IF rows[i] = "unread" THEN "read" ELSE rows[i]
         /\ calls[s].op = "remove" => rows'[calls[s].item.id] = "none"
         /\ calls[s].op = "removeAll" => \A i \in Ids : rows'[i] = "none"
<1> DEFINE c == calls[s]
<1>1. c.op \in {"read", "readAll", "remove", "removeAll"}
  BY DEF ServeWrite, CallsOK, CallOK
<1>2. rows' = [i \in Ids |-> Written(c, i)]
  BY DEF ServeWrite
<1>3. c.item.id \in Ids
  BY CallFacts, ItemFacts DEF TypeOK
<1>4. \A i \in Ids : rows[i] \in {"none", "unread", "read"}
  BY DEF TypeOK
<1> HIDE DEF c
<1>5. \A i \in Ids : rows'[i] = Written(c, i)
  BY <1>2
<1>6. CASE c.op = "read"
  <2>1. \A i \in Ids : Written(c, i) = IF i = c.item.id /\ rows[i] = "unread" THEN "read" ELSE rows[i]
    BY <1>6 DEF Written
  <2>2. QED
    BY <2>1, <1>2, <1>3, <1>4, <1>5, <1>6 DEF c
<1>7. CASE c.op = "readAll"
  <2>1. \A i \in Ids : Written(c, i) = IF rows[i] = "unread" THEN "read" ELSE rows[i]
    BY <1>7 DEF Written
  <2>2. QED
    BY <2>1, <1>2, <1>3, <1>4, <1>5, <1>7 DEF c
<1>8. CASE c.op = "remove"
  <2>1. \A i \in Ids : Written(c, i) = IF i = c.item.id THEN "none" ELSE rows[i]
    BY <1>8 DEF Written
  <2>2. QED
    BY <2>1, <1>2, <1>3, <1>4, <1>5, <1>8 DEF c
<1>9. CASE c.op = "removeAll"
  <2>1. \A i \in Ids : Written(c, i) = "none"
    BY <1>9 DEF Written
  <2>2. QED
    BY <2>1, <1>2, <1>3, <1>4, <1>5, <1>9 DEF c
<1>10. QED
  BY <1>1, <1>6, <1>7, <1>8, <1>9

\* An arrival.
LEMMA ArriveRows ==
  ASSUME TypeOK, SeenOK, NEW i \in Ids, Arrive(i)
  PROVE  /\ rows' \in [Ids -> {"none", "unread", "read"}] /\ arrived' = arrived \cup {i}
         /\ \A j \in Ids : j # i => rows'[j] = rows[j]
         /\ i \notin arrived
         /\ \A j \in arrived : j \in Ids /\ rows'[j] = rows[j]
BY DEF TypeOK, Arrive

\* Sending a request.
LEMMA SendCalls ==
  ASSUME TypeOK, NEW s \in Slots, NEW c \in Call, Send(s, c)
  PROVE  /\ calls' \in [Slots -> Call] /\ \A t \in Slots : t # s => calls'[t] = calls[t]
         /\ calls'[s] = c /\ calls[s].op = "none"
         /\ tangled' \in BOOLEAN /\ lost' \in BOOLEAN
BY DEF TypeOK, Send

\* An answered request, or one that failed, leaves its slot.
LEMMA LeaveCalls ==
  ASSUME TypeOK, NEW s \in Slots, Answer(s) \/ Fail(s)
  PROVE  /\ calls' \in [Slots -> Call] /\ \A t \in Slots : t # s => calls'[t] = calls[t]
         /\ calls'[s] = NoCall /\ calls'[s].op = "none" /\ calls[s].op # "none"
BY NewCalls DEF TypeOK, Answer, Fail

\* What an answer leaves on the page has its types.
LEMMA AnswerTypes ==
  ASSUME TypeOK, NEW s \in Slots, Answer(s)
  PROVE  /\ items' \in Seq(Item) /\ unread' \in 0 .. MaxId /\ cursor' \in 0 .. MaxId
         /\ seen' \in [list : SUBSET Ids, count : SUBSET Ids]
<1> DEFINE c == calls[s]
<1>1. c \in Call /\ c.op # "none"
  BY DEF TypeOK, Answer
<1>2. items' = ItemsAfter(c) /\ unread' = CountAfter(c)
  BY DEF Answer
<1>3. /\ cursor' = IF c.op \in {"load", "more"} THEN c.next
                   ELSE IF c.op = "removeAll" THEN NoCursor ELSE cursor
      /\ seen' = CASE c.op = "load" -> [list |-> c.listAt, count |-> c.countAt]
                   [] c.op = "more" -> [seen EXCEPT !.list = {i \in Ids :
                        IF i < c.after THEN i \in c.listAt ELSE i \in seen.list}]
                   [] OTHER -> seen
  BY DEF Answer
<1>4. /\ c.page \in Seq(Item) /\ c.next \in 0 .. MaxId /\ c.count \in 0 .. MaxId
      /\ c.listAt \in SUBSET Ids /\ c.countAt \in SUBSET Ids /\ c.op \in Op
  BY <1>1, CallFacts
<1>5. /\ items \in Seq(Item) /\ unread \in 0 .. MaxId /\ cursor \in 0 .. MaxId
      /\ seen \in [list : SUBSET Ids, count : SUBSET Ids]
  BY DEF TypeOK
<1> HIDE DEF c
<1>6. ItemsAfter(c) \in Seq(Item)
  <2>1. CASE c.op = "more"
    BY <2>1, <1>4, <1>5, ConcatFacts DEF ItemsAfter
  <2>2. CASE c.op \in {"read", "readAll"}
    BY <2>2, <1>5, MarkedReadFacts DEF ItemsAfter
  <2>3. CASE c.op = "remove"
    <3> DEFINE K == {k \in DOMAIN items : items[k].id # c.item.id}
    <3>1. K \in SUBSET (DOMAIN items)
      OBVIOUS
    <3> HIDE DEF K
    <3>2. Filtered(K) \in Seq(Item)
      BY <3>1, <1>5, FilteredFacts
    <3>3. QED
      BY <3>2, <2>3 DEF ItemsAfter, K
  <2>4. CASE c.op \in {"load", "removeAll"}
    BY <2>4, <1>4, EmptySeq DEF ItemsAfter
  <2>5. QED
    BY <2>1, <2>2, <2>3, <2>4, <1>1, <1>4 DEF Op
<1>7. CountAfter(c) \in 0 .. MaxId
  BY <1>4, <1>5, Numbers DEF CountAfter
<1>8. cursor' \in 0 .. MaxId
  BY <1>3, <1>4, <1>5, Numbers
<1>9. seen' \in [list : SUBSET Ids, count : SUBSET Ids]
  <2>1. CASE c.op = "load"
    BY <2>1, <1>3, <1>4
  <2>2. CASE c.op = "more"
    BY <2>2, <1>3, <1>5
  <2>3. CASE c.op \notin {"load", "more"}
    BY <2>3, <1>3, <1>5
  <2>4. QED
    BY <2>1, <2>2, <2>3
<1>10. QED
  BY <1>2, <1>6, <1>7, <1>8, <1>9

\* Using a control sends one request.
LEMMA UseSends ==
  ASSUME TypeOK, NEW s \in Slots, Use(s)
  PROVE  \E c \in Call :
           /\ Fresh(c) /\ Send(s, c)
           /\ c.op = "load" => loading'
           /\ c.op # "load" => Shown /\ loading' = loading /\ failed' = failed
           /\ c.op = "more" => c.after = cursor /\ cursor # NoCursor /\ ~loadingMore /\ loadingMore'
           /\ c.op # "more" => loadingMore' = loadingMore
           /\ c.op \in {"read", "remove"} => ItemOK(c)
           /\ loading' \in BOOLEAN /\ loadingMore' \in BOOLEAN /\ failed' \in BOOLEAN
<1>1. /\ loading \in BOOLEAN /\ loadingMore \in BOOLEAN /\ failed \in BOOLEAN
      /\ cursor \in 0 .. MaxId /\ items \in Seq(Item)
  BY DEF TypeOK
<1>2. CASE Load(s)
  BY <1>1, <1>2, NewCalls DEF Load, Fresh
<1>3. CASE LoadMore(s)
  <2> DEFINE c == Request("more", {"list"}, NoItem, cursor)
  <2>1. Fresh(c) /\ c.op = "more" /\ c.after = cursor
    BY <1>1, NewCalls
  <2>2. Send(s, c)
    BY <1>3 DEF LoadMore
  <2> HIDE DEF c
  <2>3. c \in Call
    BY <2>1 DEF Fresh
  <2>4. QED
    BY <1>1, <1>3, <2>1, <2>2, <2>3 DEF LoadMore
<1>4. CASE MarkAllRead(s) \/ RemoveAll(s)
  <2>1. PICK op \in {"readAll", "removeAll"} : Send(s, Request(op, {"write"}, NoItem, 0))
    BY <1>4 DEF MarkAllRead, RemoveAll
  <2>2. Shown /\ loading' = loading /\ failed' = failed /\ loadingMore' = loadingMore
    BY <1>4 DEF MarkAllRead, RemoveAll
  <2> DEFINE c == Request(op, {"write"}, NoItem, 0)
  <2>3. Fresh(c) /\ c.op = op
    BY NewCalls
  <2> HIDE DEF c
  <2>4. Send(s, c)
    BY <2>1 DEF c
  <2>5. c \in Call
    BY <2>3 DEF Fresh
  <2>6. QED
    BY <1>1, <2>2, <2>3, <2>4, <2>5
<1>5. ASSUME NEW k \in DOMAIN items, MarkRead(s, k) \/ Remove(s, k)
      PROVE  \E op \in {"read", "remove"} : /\ Send(s, Request(op, {"write"}, items[k], 0))
                                            /\ op = "read" => ~items[k].read
  BY <1>5 DEF MarkRead, Remove
<1>6. CASE \E k \in DOMAIN items : MarkRead(s, k) \/ Remove(s, k)
  <2>1. PICK k \in DOMAIN items : MarkRead(s, k) \/ Remove(s, k)
    BY <1>6
  <2>2. Shown /\ loading' = loading /\ failed' = failed /\ loadingMore' = loadingMore
    BY <2>1 DEF MarkRead, Remove
  <2>3. PICK op \in {"read", "remove"} : /\ Send(s, Request(op, {"write"}, items[k], 0))
                                         /\ op = "read" => ~items[k].read
    BY <2>1, <1>5
  <2> DEFINE c == Request(op, {"write"}, items[k], 0)
  <2>4. items[k] \in Item /\ items[k] \in Range(items)
    BY <1>1, RangeFacts
  <2>5. Fresh(c) /\ c.op = op /\ c.item = items[k]
    BY <2>4, NewCalls
  <2>6. Send(s, c)
    BY <2>3
  <2> HIDE DEF c
  <2>7. c \in Call /\ ItemOK(c)
    BY <2>3, <2>4, <2>5 DEF Fresh, ItemOK
  <2>8. QED
    BY <1>1, <2>2, <2>5, <2>6, <2>7
<1>7. QED
  BY <1>2, <1>3, <1>4, <1>6 DEF Use

\* An arrival keeps what holds of everything read before.
LEMMA BasicArrive ==
  ASSUME Basic, NEW i \in Ids, Arrive(i)
  PROVE  Basic'
<1>1. TypeOK /\ SeenOK /\ CallsOK
  BY DEF Basic
<1>2. /\ rows' \in [Ids -> {"none", "unread", "read"}] /\ arrived' = arrived \cup {i}
      /\ \A j \in Ids : j # i => rows'[j] = rows[j]
  BY <1>1, ArriveRows
<1>3. UNCHANGED <<items, unread, cursor, loading, loadingMore, failed, calls, seen, tangled, lost>>
  BY DEF Arrive
<1>4. TypeOK'
  BY <1>1, <1>2, <1>3 DEF TypeOK
<1>5. SeenOK'
  BY <1>1, <1>2, <1>3 DEF SeenOK
<1>6. CallsOK'
  BY <1>1, <1>3 DEF CallsOK, CallOK
<1>7. QED
  BY <1>4, <1>5, <1>6 DEF Basic

\* So do the steps of the server.
LEMMA BasicServe ==
  ASSUME Basic, NEW s \in Slots, Serve(s)
  PROVE  Basic'
<1>1. TypeOK /\ SeenOK /\ CallsOK
  BY DEF Basic
<1>2. UNCHANGED <<arrived, items, unread, cursor, loading, loadingMore, failed, seen, tangled, lost>>
  BY DEF Serve, ServeList, ServeCount, ServeWrite
<1>3. /\ calls' \in [Slots -> Call] /\ \A t \in Slots : t # s => calls'[t] = calls[t]
      /\ calls'[s].op = calls[s].op /\ calls'[s].after = calls[s].after
      /\ calls'[s].todo \subseteq calls[s].todo
      /\ calls'[s].listAt \in {calls[s].listAt, arrived}
      /\ calls'[s].countAt \in {calls[s].countAt, arrived}
  <2>1. CASE ServeList(s)
    BY <2>1, <1>1, ServeListCalls
  <2>2. CASE ServeCount(s)
    BY <2>2, <1>1, ServeCountCalls
  <2>3. CASE ServeWrite(s)
    BY <2>3, <1>1, ServeWriteCalls
  <2>4. QED
    BY <2>1, <2>2, <2>3 DEF Serve
<1>4. /\ rows' \in [Ids -> {"none", "unread", "read"}]
      /\ \A i \in Ids : rows'[i] # "none" => rows[i] # "none"
  <2>1. CASE ServeWrite(s)
    BY <2>1, <1>1, WriteRows
  <2>2. CASE ~ServeWrite(s)
    BY <2>2, <1>1 DEF Serve, ServeList, ServeCount, TypeOK
  <2>3. QED
    BY <2>1, <2>2
<1>5. TypeOK'
  BY <1>1, <1>2, <1>3, <1>4 DEF TypeOK
<1>6. SeenOK'
  BY <1>1, <1>2, <1>3, <1>4 DEF SeenOK
<1>7. CallsOK'
  BY <1>1, <1>2, <1>3 DEF CallsOK, CallOK
<1>8. QED
  BY <1>5, <1>6, <1>7 DEF Basic

\* And the controls.
LEMMA BasicUse ==
  ASSUME Basic, NEW s \in Slots, Use(s)
  PROVE  Basic'
<1>1. TypeOK /\ SeenOK /\ CallsOK
  BY DEF Basic
<1>2. PICK c \in Call :
        /\ Fresh(c) /\ Send(s, c)
        /\ c.op = "more" => ~loadingMore /\ loadingMore'
        /\ c.op # "more" => loadingMore' = loadingMore
        /\ loading' \in BOOLEAN /\ loadingMore' \in BOOLEAN /\ failed' \in BOOLEAN
  BY <1>1, UseSends
<1>3. /\ calls' \in [Slots -> Call] /\ \A t \in Slots : t # s => calls'[t] = calls[t]
      /\ calls'[s] = c /\ calls[s].op = "none" /\ tangled' \in BOOLEAN /\ lost' \in BOOLEAN
  BY <1>1, <1>2, SendCalls
<1>4. UNCHANGED <<rows, arrived, items, unread, cursor, seen>>
  BY <1>2 DEF Send
<1>5. TypeOK'
  BY <1>1, <1>2, <1>3, <1>4 DEF TypeOK
<1>6. SeenOK'
  BY <1>1, <1>2, <1>3, <1>4 DEF SeenOK, Fresh
<1>7. \A t \in Slots : CallOK(calls[t])'
  <2>1. CallOK(c)'
    BY <1>2, CallFacts DEF CallOK, Fresh, Op
  <2>2. ASSUME NEW t \in Slots, t # s PROVE CallOK(calls[t])'
    BY <2>2, <1>1, <1>2, <1>3 DEF CallsOK, CallOK
  <2>3. QED
    BY <2>1, <2>2, <1>3
<1>8. CallsOK'
  BY <1>1, <1>2, <1>3, <1>7 DEF CallsOK, CallOK
<1>9. QED
  BY <1>5, <1>6, <1>8 DEF Basic

\* And the answers, and the failures.
LEMMA BasicLeave ==
  ASSUME Basic, NEW s \in Slots, Answer(s) \/ Fail(s)
  PROVE  Basic'
<1>1. TypeOK /\ SeenOK /\ CallsOK
  BY DEF Basic
<1>2. /\ calls' \in [Slots -> Call] /\ \A t \in Slots : t # s => calls'[t] = calls[t]
      /\ calls'[s] = NoCall /\ calls'[s].op = "none"
  BY <1>1, LeaveCalls
<1>3. /\ UNCHANGED <<rows, arrived, tangled>>
      /\ loading' \in BOOLEAN /\ loadingMore' \in BOOLEAN /\ failed' \in BOOLEAN /\ lost' \in BOOLEAN
      /\ calls[s].op # "more" => loadingMore' = loadingMore
  BY <1>1 DEF Answer, Fail, TypeOK
<1>4. /\ items' \in Seq(Item) /\ unread' \in 0 .. MaxId /\ cursor' \in 0 .. MaxId
      /\ seen' \in [list : SUBSET Ids, count : SUBSET Ids]
  <2>1. CASE Answer(s)
    BY <2>1, <1>1, AnswerTypes
  <2>2. CASE Fail(s)
    BY <2>2, <1>1 DEF Fail, TypeOK
  <2>3. QED
    BY <2>1, <2>2
<1>5. seen'.list \subseteq arrived /\ seen'.count \subseteq arrived
  <2>1. CASE Answer(s)
    BY <2>1, <1>1 DEF Answer, SeenOK, TypeOK
  <2>2. CASE Fail(s)
    BY <2>2, <1>1 DEF Fail, SeenOK
  <2>3. QED
    BY <2>1, <2>2
<1>6. TypeOK'
  BY <1>1, <1>2, <1>3, <1>4 DEF TypeOK
<1>7. SeenOK'
  BY <1>1, <1>2, <1>3, <1>5, NewCalls DEF SeenOK
<1>8. \A t \in Slots : CallOK(calls[t])'
  <2>1. CallOK(calls[s])'
    BY <1>2, NewCalls DEF CallOK
  <2>2. ASSUME NEW t \in Slots, t # s PROVE CallOK(calls[t])'
    <3>1. calls[t].op = "more" => calls[s].op # "more"
      BY <2>2, <1>1 DEF CallsOK
    <3>2. QED
      BY <3>1, <2>2, <1>1, <1>2, <1>3 DEF CallsOK, CallOK
  <2>3. QED
    BY <2>1, <2>2
<1>9. CallsOK'
  BY <1>1, <1>2, <1>8 DEF CallsOK
<1>10. QED
  BY <1>6, <1>7, <1>9 DEF Basic

-----------------------------------------------------------------------------
(* Untangled requests *)

\* Two that depend on each other are never under way.
LEMMA SeparateServe ==
  ASSUME Basic, Separate, NEW s \in Slots, Serve(s)
  PROVE  Separate'
<1>1. TypeOK /\ CallsOK
  BY DEF Basic
<1>2. \A t \in Slots : calls'[t].op = calls[t].op /\ calls'[t].item = calls[t].item
  BY <1>1, ServeListCalls, ServeCountCalls, ServeWriteCalls DEF Serve
<1>3. QED
  BY <1>2 DEF Separate, Busy, Independent

\* Sending one that does is what tangles.
LEMMA SeparateSend ==
  ASSUME Basic, ~tangled => Separate, NEW s \in Slots, NEW c \in Call, c.op # "none", Send(s, c),
         ~tangled'
  PROVE  /\ Separate'
         /\ \A t \in Busy : Independent(c, calls[t])
         /\ c.op # "load" => ~tangled
<1>1. /\ \A t \in Slots : t # s => calls'[t] = calls[t]
      /\ calls'[s] = c /\ calls[s].op = "none"
  BY SendCalls DEF Basic
<1>2. (c.op # "load" => ~tangled) /\ \A t \in Busy : Independent(c, calls[t])
  BY DEF Send
<1>3. c.op = "load" => Busy = {}
  BY <1>2 DEF Independent
<1>4. \A t \in Busy, u \in Busy : t # u => Independent(calls[t], calls[u])
  BY <1>2, <1>3 DEF Separate
<1>5. \A t \in Busy : Independent(calls[t], c)
  BY <1>2 DEF Independent
<1>6. \A t \in Slots : (t \in Busy' <=> t \in Busy \/ t = s) /\ (t # s => calls'[t] = calls[t])
  BY <1>1 DEF Busy
<1>7. SUFFICES ASSUME NEW t \in Busy', NEW u \in Busy', t # u
               PROVE  Independent(calls'[t], calls'[u])
  BY <1>2 DEF Separate, Independent
<1>8. t \in Slots /\ u \in Slots
  BY DEF Busy
<1>9. CASE t = s
  BY <1>1, <1>2, <1>6, <1>7, <1>8, <1>9
<1>10. CASE u = s
  BY <1>1, <1>5, <1>6, <1>7, <1>8, <1>10
<1>11. CASE t # s /\ u # s
  BY <1>4, <1>6, <1>7, <1>8, <1>11
<1>12. QED
  BY <1>9, <1>10, <1>11

\* Requests that leave disturb no other.
LEMMA SeparateLeave ==
  ASSUME Basic, Separate, NEW s \in Slots, Answer(s) \/ Fail(s)
  PROVE  Separate'
<1>1. /\ \A t \in Slots : t # s => calls'[t] = calls[t]
      /\ calls'[s].op = "none"
  BY LeaveCalls DEF Basic
<1>2. QED
  BY <1>1 DEF Separate, Busy, Independent

\* A load that is under way is the only request under way; so is a mutation of all rows.
LEMMA Alone ==
  ASSUME Separate, NEW s \in Slots, calls[s].op \in {"load", "readAll", "removeAll"}
  PROVE  Busy = {s}
BY DEF Separate, Busy, Independent

\* What a list request has read stays as it was, as long as its rows do.
LEMMA PageKept ==
  ASSUME Basic, NEW c \in Call, c.listAt \subseteq arrived, PageOK(c),
         \A i \in c.listAt : c.next <= i /\ i < c.after => rows'[i] = rows[i]
  PROVE  PageOK(c)'
<1>1. \A x \in Range(c.page) : c.next <= x.id /\ x.id < c.after /\ x.id \in c.listAt /\ Marked(x)
  BY DEF PageOK
<1>2. \A x \in Range(c.page) : rows'[x.id] = rows[x.id]
  BY <1>1
<1>3. \A x \in Range(c.page) : Marked(x)'
  BY <1>1, <1>2 DEF Marked
<1>4. QED
  BY <1>1, <1>3 DEF PageOK, Sorted

\* The same for a count.
LEMMA UnreadKept ==
  ASSUME NEW S, \A i \in S : rows'[i] = rows[i]
  PROVE  Unread(S)' = Unread(S)
<1>1. {i \in S : rows'[i] = "unread"} = {i \in S : rows[i] = "unread"}
  OBVIOUS
<1>2. QED
  BY <1>1 DEF Unread

\* Reading a page.
LEMMA ServedPage ==
  ASSUME Basic, NEW s \in Slots, ServeList(s), calls[s].after # 0
  PROVE  PageOK(calls[s])'
<1> DEFINE c == calls[s]
<1>1. TypeOK /\ SeenOK /\ CallsOK
  BY DEF Basic
<1>2. PICK d \in Call : d = calls'[s]
  BY <1>1, ServeListCalls
<1>3. d.after = c.after /\ d.page = Page(c.after) /\ d.next = NextCursor(c.after) /\ d.listAt = arrived
  BY <1>1, <1>2, ServeListCalls
<1>4. c.after \in 0 .. Start /\ c.after # 0
  BY <1>1, CallFacts DEF TypeOK
<1>5. rows' = rows
  BY DEF ServeList
<1> HIDE DEF c
<1>6. /\ Sorted(d.page) /\ d.next < d.after
      /\ \A x \in Range(d.page) : x.id \in Older(d.after) /\ d.next <= x.id /\ Marked(x)
      /\ \A i \in Older(d.after) : d.next <= i => \E x \in Range(d.page) : x.id = i
  BY <1>1, <1>3, <1>4, PageFacts
<1>7. \A i \in Older(d.after) : i \in arrived /\ i < d.after
  BY <1>1 DEF Older, Stored, SeenOK
<1>8. \A i \in arrived : i < d.after /\ rows[i] # "none" => i \in Older(d.after)
  BY <1>1 DEF Older, Stored, TypeOK
<1>9. PageOK(d)
  BY <1>3, <1>6, <1>7, <1>8 DEF PageOK
<1>10. PageOK(d)'
  BY <1>5, <1>9 DEF PageOK, Sorted, Marked
<1>11. QED
  BY <1>2, <1>10

\* A load keeps what it has read, as long as the rows that had arrived keep their marks.
LEMMA LoadKept ==
  ASSUME Basic, NEW c \in Call, c.listAt \subseteq arrived, c.countAt \subseteq arrived,
         LoadOK(c), \A i \in arrived : rows'[i] = rows[i]
  PROVE  LoadOK(c)'
<1>1. "list" \notin c.todo => PageOK(c)'
  BY PageKept DEF LoadOK
<1>2. Unread(c.countAt)' = Unread(c.countAt)
  BY UnreadKept
<1>3. QED
  BY <1>1, <1>2 DEF LoadOK

\* The requests of a load, step by step.
LEMMA LoadsArrive ==
  ASSUME Basic, LoadsOK, NEW i \in Ids, Arrive(i)
  PROVE  LoadsOK'
<1>1. TypeOK /\ SeenOK
  BY DEF Basic
<1>2. \A j \in arrived : rows'[j] = rows[j]
  BY <1>1, ArriveRows
<1>3. calls' = calls
  BY DEF Arrive
<1>4. SUFFICES ASSUME NEW t \in Slots, calls[t].op = "load"
               PROVE  LoadOK(calls[t])'
  BY <1>3 DEF LoadsOK
<1>5. PICK c \in Call : c = calls[t]
  BY <1>1 DEF TypeOK
<1>6. LoadOK(c)'
  BY <1>1, <1>2, <1>4, <1>5, LoadKept DEF LoadsOK, SeenOK
<1>7. QED
  BY <1>3, <1>5, <1>6

\* A load is answered from the rows; no mutation is under way with it.
LEMMA LoadsServe ==
  ASSUME Basic, Separate, LoadsOK, NEW s \in Slots, Serve(s)
  PROVE  LoadsOK'
<1>1. TypeOK /\ SeenOK /\ CallsOK
  BY DEF Basic
<1>2. \A t \in Slots : calls'[t].op = calls[t].op /\ (t # s => calls'[t] = calls[t])
  BY <1>1, ServeListCalls, ServeCountCalls, ServeWriteCalls DEF Serve
<1>3. SUFFICES ASSUME NEW t \in Slots, calls[t].op = "load"
               PROVE  LoadOK(calls[t])'
  BY <1>2 DEF LoadsOK
<1>4. PICK c \in Call : c = calls[t]
  BY <1>1 DEF TypeOK
<1>5. PICK d \in Call : d = calls'[t]
  BY <1>1, ServeListCalls, ServeCountCalls, ServeWriteCalls DEF Serve
<1>6. ~ServeWrite(s)
  <2>1. SUFFICES ASSUME ServeWrite(s) PROVE FALSE
    OBVIOUS
  <2>2. calls[s].op \in {"read", "readAll", "remove", "removeAll"}
    BY <2>1, <1>1, ServeWriteCalls
  <2>3. s \in Busy /\ Busy = {t} /\ s # t
    BY <2>2, <1>3, Alone DEF Busy
  <2>4. QED
    BY <2>3
<1>7. rows' = rows
  BY <1>6 DEF Serve, ServeList, ServeCount
<1>8. LoadOK(c) /\ c.after = Start /\ c.op = "load"
  BY <1>1, <1>3, <1>4 DEF LoadsOK, CallsOK, CallOK
<1>9. c.listAt \subseteq arrived /\ c.countAt \subseteq arrived
  BY <1>1, <1>4 DEF SeenOK
<1>10. LoadOK(c)'
  BY <1>7, <1>8, <1>9, LoadKept
<1>11. CASE t # s
  BY <1>2, <1>4, <1>10, <1>11
<1>12. CASE t = s /\ ServeList(s)
  <2>1. /\ d.count = c.count /\ d.countAt = c.countAt /\ d.todo = c.todo \ {"list"}
    BY <1>1, <1>4, <1>5, <1>12, ServeListCalls
  <2>2. PageOK(d)'
    BY <1>4, <1>5, <1>8, <1>12, Numbers, ServedPage
  <2>3. "count" \notin d.todo => d.count = Unread(d.countAt)'
    BY <2>1, <1>10 DEF LoadOK
  <2>4. LoadOK(d)'
    BY <2>2, <2>3 DEF LoadOK
  <2>5. QED
    BY <2>4, <1>5
<1>13. CASE t = s /\ ServeCount(s)
  <2>1. /\ d.page = c.page /\ d.next = c.next /\ d.listAt = c.listAt /\ d.after = c.after
        /\ d.todo = c.todo \ {"count"}
        /\ d.count = Unread(Ids) /\ d.countAt = arrived
    BY <1>1, <1>4, <1>5, <1>13, ServeCountCalls
  <2>2. "list" \notin d.todo => PageOK(d)'
    BY <2>1, <1>10 DEF LoadOK, PageOK, Sorted
  <2>3. Unread(Ids) = Unread(arrived)
    <3>1. {i \in Ids : rows[i] = "unread"} = {i \in arrived : rows[i] = "unread"}
      BY <1>1 DEF TypeOK, SeenOK
    <3>2. QED
      BY <3>1 DEF Unread
  <2>4. Unread(d.countAt)' = Unread(d.countAt)
    BY <1>7, UnreadKept
  <2>5. LoadOK(d)'
    BY <2>1, <2>2, <2>3, <2>4 DEF LoadOK
  <2>6. QED
    BY <2>5, <1>5
<1>14. QED
  BY <1>6, <1>11, <1>12, <1>13 DEF Serve

\* A load that is sent has read nothing.
LEMMA LoadsUse ==
  ASSUME Basic, ~tangled => LoadsOK, NEW s \in Slots, NEW c \in Call, Fresh(c), Send(s, c),
         c.op # "load" => ~tangled, \A t \in Busy : Independent(c, calls[t])
  PROVE  LoadsOK'
<1>1. TypeOK /\ SeenOK
  BY DEF Basic
<1>2. /\ \A t \in Slots : t # s => calls'[t] = calls[t]
      /\ calls'[s] = c /\ rows' = rows
  BY <1>1, SendCalls DEF Send
<1>3. SUFFICES ASSUME NEW t \in Slots, calls'[t].op = "load"
               PROVE  LoadOK(calls[t])'
  BY DEF LoadsOK
<1>4. CASE t = s
  <2>1. LoadOK(c)'
    BY <1>2, <1>3, <1>4 DEF LoadOK, Fresh
  <2>2. QED
    BY <2>1, <1>2, <1>4
<1>5. CASE t # s
  <2>1. t \in Busy /\ calls[t].op = "load"
    BY <1>2, <1>3, <1>5 DEF Busy
  <2>2. QED
    BY <2>1 DEF Independent
<1>6. QED
  BY <1>4, <1>5

\* The others keep theirs when one leaves.
LEMMA LoadsLeave ==
  ASSUME Basic, LoadsOK, NEW s \in Slots, Answer(s) \/ Fail(s)
  PROVE  LoadsOK'
<1>1. TypeOK /\ SeenOK
  BY DEF Basic
<1>2. /\ \A t \in Slots : t # s => calls'[t] = calls[t]
      /\ calls'[s].op = "none" /\ rows' = rows
  BY <1>1, LeaveCalls DEF Answer, Fail
<1>3. SUFFICES ASSUME NEW t \in Slots, t # s, calls[t].op = "load"
               PROVE  LoadOK(calls[t])'
  BY <1>2 DEF LoadsOK
<1>4. PICK c \in Call : c = calls[t]
  BY <1>1 DEF TypeOK
<1>5. LoadOK(c)'
  BY <1>1, <1>2, <1>3, <1>4, LoadKept DEF LoadsOK, SeenOK
<1>6. QED
  BY <1>2, <1>3, <1>4, <1>5

-----------------------------------------------------------------------------
(* Steps that leave the page and its rows as they are *)

\* The list keeps the rows it shows.
LEMMA ListKept ==
  ASSUME ListOK, UNCHANGED <<items, cursor, seen>>, \A i \in seen.list : rows'[i] = rows[i]
  PROVE  ListOK'
BY DEF ListOK, Sorted

\* And, if no answer under way that concerns it goes away, is as exact as before.
LEMMA ExactKept ==
  ASSUME ListOK, ExactOK, UNCHANGED <<items, seen>>, \A i \in seen.list : rows'[i] = rows[i],
         \A i \in Ids, s \in Busy : Changed(calls[s], i) => s \in Busy' /\ Changed(calls'[s], i),
         \A i \in Ids, s \in Busy : Removed(calls[s], i) => s \in Busy' /\ Removed(calls'[s], i),
         items \in Seq(Item)
  PROVE  ExactOK'
<1>1. SUFFICES ASSUME NEW x \in Range(items)
               PROVE  /\ (\A s \in Busy' : ~Removed(calls'[s], x.id)) => rows'[x.id] # "none"
                      /\ (\A s \in Busy' : ~Changed(calls'[s], x.id)) => Marked(x)'
  BY DEF ExactOK, Removed, Changed
<1>2. x.id \in Ids /\ rows'[x.id] = rows[x.id]
  BY RangeFacts, ItemFacts DEF ListOK
<1>3. Marked(x)' <=> Marked(x)
  BY <1>2 DEF Marked
<1>4. /\ (\A s \in Busy' : ~Removed(calls'[s], x.id)) => \A s \in Busy : ~Removed(calls[s], x.id)
      /\ (\A s \in Busy' : ~Changed(calls'[s], x.id)) => \A s \in Busy : ~Changed(calls[s], x.id)
  BY <1>2
<1>5. QED
  BY <1>2, <1>3, <1>4 DEF ExactOK

\* The sets the badge is compared with depend on the rows that were seen.
LEMMA OwedKept ==
  ASSUME UNCHANGED <<items, seen>>, \A i \in seen.list \cup seen.count : rows'[i] = rows[i]
  PROVE  Owed' = Owed /\ Overpaid' = Overpaid /\ Uncounted' = Uncounted
<1>1. OpenIds' = OpenIds /\ Uncounted' = Uncounted
  BY DEF OpenIds, Uncounted
<1>2. seen'.count = seen.count /\ Uncounted \subseteq seen.list
  BY DEF Uncounted
<1>3. Owed' = Owed
  BY <1>1, <1>2 DEF Owed
<1>4. Overpaid' = Overpaid
  BY <1>1, <1>2 DEF Overpaid
<1>5. QED
  BY <1>1, <1>3, <1>4

\* So does the badge.
LEMMA BadgeKept ==
  ASSUME BadgeOK, UNCHANGED <<items, seen, unread>>,
         \A i \in seen.list \cup seen.count : rows'[i] = rows[i],
         ~lost' => /\ ~lost
                   /\ \A s \in Busy : calls[s].op \in {"readAll", "removeAll"} /\ calls[s].todo = {} =>
                        s \in Busy' /\ calls'[s].op = calls[s].op /\ calls'[s].todo = {}
  PROVE  BadgeOK'
<1>1. Owed' = Owed /\ Overpaid' = Overpaid /\ Uncounted' = Uncounted /\ unread' = unread
  BY OwedKept
<1>2. ~lost' /\ (\A s \in Busy' : calls'[s].op \in {"readAll", "removeAll"} => calls'[s].todo # {})
      => ~lost /\ \A s \in Busy : calls[s].op \in {"readAll", "removeAll"} => calls[s].todo # {}
  OBVIOUS
<1>3. QED
  BY <1>1, <1>2 DEF BadgeOK

\* And what the requests under way say.
LEMMA RequestKept ==
  ASSUME Basic, NEW c \in Call, RequestOK(c), c.listAt \subseteq arrived,
         UNCHANGED <<items, cursor, seen>>, \A i \in arrived : rows'[i] = rows[i],
         ~lost' => ~lost
  PROVE  RequestOK(c)'
<1>1. seen.list \subseteq arrived /\ seen.count \subseteq arrived
  BY DEF Basic, SeenOK
<1>2. c.op = "more" => MoreOK(c)'
  <2>1. SUFFICES ASSUME c.op = "more" PROVE MoreOK(c)'
    OBVIOUS
  <2>2. MoreOK(c)
    BY <2>1 DEF RequestOK
  <2>3. "list" \notin c.todo => PageOK(c)'
    BY <2>2, PageKept DEF MoreOK
  <2>4. QED
    BY <2>2, <2>3 DEF MoreOK
<1>3. c.op \in {"read", "remove"} => ItemOK(c)'
  BY DEF RequestOK, ItemOK
<1>4. WroteOK(c)'
  BY <1>1 DEF RequestOK, WroteOK, Changed, Removed
<1>5. QED
  BY <1>2, <1>3, <1>4 DEF RequestOK

\* An arrival is not shown yet.
LEMMA PageArrive ==
  ASSUME Basic, PageState, NEW i \in Ids, Arrive(i)
  PROVE  PageState'
<1>1. TypeOK /\ SeenOK
  BY DEF Basic
<1>2. \A j \in arrived : rows'[j] = rows[j]
  BY <1>1, ArriveRows
<1>3. UNCHANGED <<items, unread, cursor, loading, failed, calls, seen, lost>>
  BY DEF Arrive
<1>4. \A j \in seen.list \cup seen.count : rows'[j] = rows[j]
  BY <1>1, <1>2 DEF SeenOK
<1>5. Busy' = Busy
  BY <1>3 DEF Busy
<1>6. ListOK' /\ BadgeOK'
  BY <1>3, <1>4, <1>5, ListKept, BadgeKept DEF PageState
<1>7. ~lost' => ExactOK'
  BY <1>1, <1>3, <1>4, <1>5, ExactKept DEF PageState, TypeOK
<1>8. ASSUME NEW t \in Busy' PROVE RequestOK(calls[t])'
  <2>1. t \in Slots /\ t \in Busy
    BY <1>5 DEF Busy
  <2>2. PICK c \in Call : c = calls[t]
    BY <1>1, <2>1 DEF TypeOK
  <2>3. RequestOK(c)'
    BY <1>1, <1>2, <1>3, <2>1, <2>2, RequestKept DEF PageState, SeenOK
  <2>4. QED
    BY <1>3, <2>2, <2>3
<1>9. QED
  BY <1>6, <1>7, <1>8 DEF PageState

\* Reading for a list request changes nothing the page shows.
LEMMA PageRead ==
  ASSUME Basic, PageState, NEW s \in Slots, ServeList(s) \/ ServeCount(s)
  PROVE  PageState'
<1>1. TypeOK /\ SeenOK /\ CallsOK
  BY DEF Basic
<1>2. UNCHANGED <<rows, arrived, items, unread, cursor, loading, failed, seen, lost>>
  BY DEF ServeList, ServeCount
<1>3. /\ \A t \in Slots : calls'[t].op = calls[t].op /\ (t # s => calls'[t] = calls[t])
      /\ calls'[s] \in Call /\ calls'[s].after = calls[s].after /\ calls'[s].ok = calls[s].ok
  BY <1>1, ServeListCalls, ServeCountCalls
<1>4. calls[s].op \in {"load", "more"} /\ Busy' = Busy
  BY <1>1, <1>3 DEF ServeList, ServeCount, CallsOK, CallOK, Busy
<1>5. \A i \in Ids, t \in Busy : /\ Changed(calls[t], i) => Changed(calls'[t], i)
                                 /\ Removed(calls[t], i) => Removed(calls'[t], i)
  BY <1>3, <1>4 DEF Changed, Removed, Busy
<1>6. \A t \in Busy : calls[t].op \in {"readAll", "removeAll"} => calls'[t] = calls[t]
  BY <1>3, <1>4 DEF Busy
<1>7. ListOK' /\ BadgeOK'
  BY <1>2, <1>4, <1>6, ListKept, BadgeKept DEF PageState
<1>8. ~lost' => ExactOK'
  BY <1>1, <1>2, <1>4, <1>5, ExactKept DEF PageState, TypeOK
<1>9. ASSUME NEW t \in Busy' PROVE RequestOK(calls[t])'
  <2>1. t \in Slots /\ t \in Busy
    BY <1>4 DEF Busy
  <2>2. PICK c \in Call : c = calls[t]
    BY <1>1, <2>1 DEF TypeOK
  <2>3. RequestOK(c)'
    BY <1>1, <1>2, <2>1, <2>2, RequestKept DEF PageState, SeenOK
  <2>4. CASE t # s
    BY <1>3, <2>1, <2>2, <2>3, <2>4
  <2>5. CASE t = s
    <3>1. PICK d \in Call : d = calls'[t]
      BY <1>3, <2>5
    <3>2. d.op = c.op /\ d.ok = c.ok /\ d.after = c.after /\ c.op \in {"load", "more"}
      BY <1>3, <1>4, <2>2, <2>5, <3>1
    <3>3. WroteOK(d)'
      BY <3>2 DEF WroteOK, Changed, Removed
    <3>4. ASSUME d.op = "more" PROVE MoreOK(d)'
      <4>1. ServeList(s)
        BY <1>1, <2>2, <2>5, <3>2, <3>4 DEF ServeCount, CallsOK, CallOK
      <4>2. d.listAt = arrived
        BY <1>1, <2>5, <3>1, <4>1, ServeListCalls
      <4>3. c.after # 0 => PageOK(d)'
        BY <2>2, <2>5, <3>1, <4>1, ServedPage
      <4>4. MoreOK(c)
        BY <2>1, <2>2, <3>2, <3>4 DEF PageState, RequestOK
      <4>5. c.after # 0
        BY <4>4, Numbers DEF MoreOK
      <4>6. QED
        BY <1>1, <1>2, <3>2, <4>2, <4>3, <4>4, <4>5 DEF MoreOK, SeenOK
    <3>5. RequestOK(d)'
      BY <1>2, <2>1, <2>2, <3>2, <3>3, <3>4 DEF RequestOK, PageState
    <3>6. QED
      BY <3>1, <3>5
  <2>6. QED
    BY <2>4, <2>5
<1>10. QED
  BY <1>7, <1>8, <1>9 DEF PageState

\* Sending a request changes nothing yet; what it is about is on the page.
LEMMA PageUse ==
  ASSUME Basic, PageState, NEW s \in Slots, NEW c \in Call, Fresh(c), Send(s, c), c.op # "load",
         c.op = "more" => c.after = cursor /\ cursor # NoCursor,
         c.op \in {"read", "remove"} => ItemOK(c)
  PROVE  PageState'
<1>1. TypeOK /\ SeenOK /\ CallsOK
  BY DEF Basic
<1>2. UNCHANGED <<rows, arrived, items, unread, cursor, seen>> /\ (~lost' => ~lost)
  BY DEF Send
<1>3. /\ calls' \in [Slots -> Call] /\ \A t \in Slots : t # s => calls'[t] = calls[t]
      /\ calls'[s] = c /\ calls[s].op = "none"
  BY <1>1, SendCalls
<1>4. \A t \in Busy : t \in Slots /\ t \in Busy' /\ calls'[t] = calls[t]
  BY <1>3 DEF Busy
<1>5. ListOK' /\ BadgeOK'
  BY <1>2, <1>4, ListKept, BadgeKept DEF PageState
<1>6. ~lost' => ExactOK'
  BY <1>1, <1>2, <1>4, ExactKept DEF PageState, TypeOK
<1>7. ASSUME NEW t \in Busy' PROVE RequestOK(calls[t])'
  <2>1. CASE t = s
    <3>1. c.todo # {} /\ c.ok
      BY DEF Fresh
    <3>2. WroteOK(c)'
      BY <3>1 DEF WroteOK, Changed, Removed
    <3>3. c.op = "more" => "list" \in c.todo
      BY DEF Fresh
    <3>4. c.op = "more" => MoreOK(c)'
      BY <1>2, <3>3 DEF MoreOK
    <3>5. c.op \in {"read", "remove"} => ItemOK(c)'
      BY <1>2 DEF ItemOK
    <3>6. RequestOK(c)'
      BY <3>1, <3>2, <3>4, <3>5 DEF RequestOK
    <3>7. QED
      BY <3>6, <2>1, <1>3
  <2>2. CASE t # s
    <3>1. t \in Busy /\ t \in Slots
      BY <1>3, <2>2 DEF Busy
    <3>2. PICK d \in Call : d = calls[t]
      BY <1>1, <3>1 DEF TypeOK
    <3>3. RequestOK(d)'
      BY <1>1, <1>2, <3>1, <3>2, RequestKept DEF PageState, SeenOK
    <3>4. QED
      BY <1>4, <3>1, <3>2, <3>3
  <2>3. QED
    BY <2>1, <2>2
<1>8. QED
  BY <1>5, <1>6, <1>7 DEF PageState

\* A failure: either the server had done nothing, or what it did is lost.
LEMMA PageFail ==
  ASSUME Basic, PageState, NEW s \in Slots, Fail(s)
  PROVE  PageState'
<1>1. TypeOK /\ SeenOK /\ CallsOK
  BY DEF Basic
<1>2. UNCHANGED <<rows, arrived, items, unread, cursor, seen>> /\ (~lost' => ~lost)
  BY DEF Fail
<1>3. /\ calls' \in [Slots -> Call] /\ \A t \in Slots : t # s => calls'[t] = calls[t]
      /\ calls'[s].op = "none" /\ calls[s].op # "none"
  BY <1>1, LeaveCalls
<1>4. \A t \in Busy : t \in Slots /\ (t # s => t \in Busy' /\ calls'[t] = calls[t])
  BY <1>3 DEF Busy
<1>5. ~lost' => /\ \A i \in Ids : ~Changed(calls[s], i) /\ ~Removed(calls[s], i)
                /\ calls[s].op \in {"readAll", "removeAll"} => calls[s].todo # {}
  <2>1. SUFFICES ASSUME ~lost'
                 PROVE  calls[s].op \notin {"load", "more"} => calls[s].todo # {}
    BY DEF Changed, Removed
  <2>2. s \in Busy
    BY <1>3 DEF Busy
  <2>3. calls[s].ok
    BY <1>2, <2>1, <2>2 DEF PageState, RequestOK
  <2>4. QED
    BY <2>1, <2>3 DEF Fail
<1>6. ListOK' /\ BadgeOK'
  BY <1>2, <1>4, <1>5, ListKept, BadgeKept DEF PageState
<1>7. ~lost' => ExactOK'
  BY <1>1, <1>2, <1>4, <1>5, ExactKept DEF PageState, TypeOK
<1>8. ASSUME NEW t \in Busy' PROVE RequestOK(calls[t])'
  <2>1. t \in Busy /\ t \in Slots /\ t # s
    BY <1>3 DEF Busy
  <2>2. PICK d \in Call : d = calls[t]
    BY <1>1, <2>1 DEF TypeOK
  <2>3. RequestOK(d)'
    BY <1>1, <1>2, <2>1, <2>2, RequestKept DEF PageState, SeenOK
  <2>4. QED
    BY <1>4, <2>1, <2>2, <2>3
<1>9. QED
  BY <1>6, <1>7, <1>8 DEF PageState

-----------------------------------------------------------------------------
(* The mutations *)

\* Sets of ids that grow do not get smaller.
LEMMA CardGrows ==
  ASSUME NEW T \in SUBSET Ids, NEW S \in SUBSET T
  PROVE  /\ Cardinality(S) \in Nat /\ Cardinality(T) \in Nat
         /\ Cardinality(S) <= Cardinality(T)
BY IdSets, FS_Subset, Numbers

\* What the badge is compared with are sets of ids.
LEMMA OwedFacts ==
  ASSUME TypeOK
  PROVE  /\ Owed \in SUBSET Ids /\ Overpaid \in SUBSET Ids /\ OpenIds \in SUBSET Ids
         /\ Uncounted \in SUBSET Ids /\ Overpaid \subseteq Uncounted
BY DEF TypeOK, Owed, Overpaid, OpenIds, Uncounted

\* The other untangled requests, next to a mutation of one item.
LEMMA Others ==
  ASSUME Separate, NEW s \in Busy, NEW t \in Busy, t # s,
         calls[s].op \in {"read", "readAll", "remove", "removeAll"}
  PROVE  /\ calls[s].op \in {"read", "remove"} /\ calls[t].op \in {"read", "remove", "more"}
         /\ calls[t].op # "more" => calls[t].item.id # calls[s].item.id
BY DEF Separate, Independent

\* The list after the server has mutated the rows.
LEMMA ListWrite ==
  ASSUME Basic, PageState, NEW s \in Slots, ServeWrite(s)
  PROVE  ListOK'
<1>1. TypeOK /\ SeenOK /\ CallsOK
  BY DEF Basic
<1>2. UNCHANGED <<items, cursor, seen>>
  BY DEF ServeWrite
<1>3. \A i \in Ids : /\ rows'[i] # "none" => rows[i] # "none"
                     /\ rows'[i] = "unread" => rows[i] = "unread"
  BY <1>1, WriteRows
<1>4. seen.list \subseteq Ids
  BY <1>1 DEF TypeOK
<1>5. QED
  BY <1>2, <1>3, <1>4 DEF PageState, ListOK, Sorted

\* An item differs from its row only if an answer under way will change it.
LEMMA ExactWrite ==
  ASSUME Basic, PageState, ~lost, NEW s \in Slots, ServeWrite(s)
  PROVE  ExactOK'
<1> DEFINE c == calls[s]
<1>1. TypeOK /\ SeenOK /\ CallsOK /\ ListOK /\ ExactOK
  BY DEF Basic, PageState
<1>2. UNCHANGED <<items, seen>>
  BY DEF ServeWrite
<1>3. /\ \A t \in Slots : t # s => calls'[t] = calls[t]
      /\ calls'[s].op = c.op /\ calls'[s].item = c.item /\ calls'[s].todo = {}
      /\ c.op \in {"read", "readAll", "remove", "removeAll"}
  BY <1>1, ServeWriteCalls
<1>4. s \in Busy' /\ c.todo # {}
  BY <1>3 DEF Busy, ServeWrite
<1>5. SUFFICES ASSUME NEW x \in Range(items)
               PROVE  /\ (\A t \in Busy' : ~Removed(calls'[t], x.id)) => rows'[x.id] # "none"
                      /\ (\A t \in Busy' : ~Changed(calls'[t], x.id)) => Marked(x)'
  BY <1>2 DEF ExactOK, Removed, Changed
<1>6. x.id \in Ids
  BY <1>1, RangeFacts, ItemFacts DEF TypeOK
<1>7. /\ ~Removed(calls[s], x.id) /\ ~Changed(calls[s], x.id)
      /\ \A t \in Busy : t # s => t \in Busy' /\ calls'[t] = calls[t]
  BY <1>3, <1>4 DEF Removed, Changed, Busy
<1>8. /\ (\A t \in Busy' : ~Removed(calls'[t], x.id)) => rows[x.id] # "none"
      /\ (\A t \in Busy' : ~Changed(calls'[t], x.id)) => Marked(x)
  BY <1>1, <1>7 DEF ExactOK
<1>9. ~Changed(calls'[s], x.id) => c.op \in {"read", "remove"} /\ c.item.id # x.id
  BY <1>3 DEF Changed
<1>10. ~Removed(calls'[s], x.id) => c.op # "removeAll" /\ (c.op = "remove" => c.item.id # x.id)
  BY <1>3 DEF Removed
<1>11. c.op \in {"read", "remove"} /\ c.item.id # x.id => rows'[x.id] = rows[x.id]
  BY <1>1, <1>6, WriteRows
<1>12. c.op \in {"read", "readAll"} => (rows'[x.id] = "none" => rows[x.id] = "none")
  <2>1. CASE c.op = "read" /\ x.id = c.item.id
    BY <2>1, <1>1, <1>6, WriteRows
  <2>2. CASE c.op = "read" /\ x.id # c.item.id
    BY <2>2, <1>11
  <2>3. CASE c.op = "readAll"
    BY <2>3, <1>1, <1>6, WriteRows
  <2>4. QED
    BY <2>1, <2>2, <2>3
<1> HIDE DEF c
<1>13. ASSUME \A t \in Busy' : ~Removed(calls'[t], x.id)
       PROVE  rows'[x.id] # "none"
  BY <1>3, <1>4, <1>8, <1>10, <1>11, <1>12, <1>13
<1>14. ASSUME \A t \in Busy' : ~Changed(calls'[t], x.id)
       PROVE  Marked(x)'
  BY <1>4, <1>8, <1>9, <1>11, <1>14 DEF Marked
<1>15. QED
  BY <1>13, <1>14

\* The badge counts an item as unread until the page is told.
LEMMA BadgeWrite ==
  ASSUME Basic, PageState, NEW s \in Slots, ServeWrite(s)
  PROVE  BadgeOK'
<1> DEFINE c == calls[s]
<1>1. TypeOK /\ SeenOK /\ CallsOK /\ ListOK /\ BadgeOK
  BY DEF Basic, PageState
<1>2. UNCHANGED <<items, seen, unread, lost>>
  BY DEF ServeWrite
<1>3. /\ \A t \in Slots : t # s => calls'[t] = calls[t]
      /\ calls'[s].op = c.op /\ calls'[s].todo = {}
      /\ c.op \in {"read", "readAll", "remove", "removeAll"}
  BY <1>1, ServeWriteCalls
<1>4. s \in Busy /\ s \in Busy'
  BY <1>3 DEF Busy
<1>5. seen.list \subseteq Ids /\ seen.count \subseteq Ids /\ Uncounted \subseteq Ids
  BY <1>1 DEF TypeOK, Uncounted
<1>6. OpenIds' = OpenIds /\ Uncounted' = Uncounted /\ seen'.count = seen.count
  BY <1>2 DEF OpenIds, Uncounted
<1>7. \A i \in Ids : rows'[i] = "unread" => rows[i] = "unread"
  BY <1>1, WriteRows
<1>8. CASE c.op \in {"read", "remove"}
  <2>1. /\ c.item \in Range(items) /\ c.item \in Item /\ c.item.id \in Ids
        /\ c.op = "read" => ~c.item.read
    BY <1>1, <1>4, <1>8, RangeFacts, ItemFacts DEF PageState, RequestOK, ItemOK, TypeOK
  <2>2. c.item.id \in OpenIds \/ rows[c.item.id] # "unread"
    BY <1>1, <2>1 DEF ListOK, OpenIds
  <2>3. \A i \in Ids : i # c.item.id => rows'[i] = rows[i]
    BY <1>1, <1>8, WriteRows
  <2>4. \A i \in Ids : rows'[i] = "unread" \/ i \in OpenIds <=> rows[i] = "unread" \/ i \in OpenIds
    BY <1>7, <2>2, <2>3
  <2>5. Owed' = Owed
    BY <1>5, <1>6, <2>4 DEF Owed
  <2>6. Overpaid' = Overpaid
    BY <1>5, <1>6, <2>4 DEF Overpaid
  <2>7. (\A t \in Busy' : calls'[t].op \in {"readAll", "removeAll"} => calls'[t].todo # {})
          => \A t \in Busy : calls[t].op \in {"readAll", "removeAll"} => calls[t].todo # {}
    BY <1>3, <1>8 DEF Busy
  <2>8. QED
    BY <1>1, <1>2, <1>6, <2>5, <2>6, <2>7 DEF BadgeOK
<1>9. CASE c.op \in {"readAll", "removeAll"}
  <2>1. Owed' \subseteq Owed
    BY <1>5, <1>6, <1>7 DEF Owed
  <2>2. Overpaid \subseteq Overpaid'
    BY <1>5, <1>6, <1>7 DEF Overpaid
  <2>3. Owed \in SUBSET Ids /\ Overpaid' \in SUBSET Ids
    BY <1>1, <1>5, <1>6, OwedFacts DEF Overpaid
  <2>4. /\ Cardinality(Owed') \in Nat /\ Cardinality(Owed) \in Nat
        /\ Cardinality(Owed') <= Cardinality(Owed)
    BY <2>1, <2>3, CardGrows
  <2>5. /\ Cardinality(Overpaid') \in Nat /\ Cardinality(Overpaid) \in Nat
        /\ Cardinality(Overpaid) <= Cardinality(Overpaid')
    BY <2>2, <2>3, CardGrows
  <2>6. unread' + Cardinality(Overpaid') >= Cardinality(Owed')
    BY <1>1, <1>2, <2>4, <2>5, Numbers DEF BadgeOK, TypeOK
  <2>7. ~(\A t \in Busy' : calls'[t].op \in {"readAll", "removeAll"} => calls'[t].todo # {})
    BY <1>3, <1>4, <1>9
  <2>8. QED
    BY <2>6, <2>7 DEF BadgeOK
<1>10. QED
  BY <1>3, <1>8, <1>9

\* The request that was served: what it did, and that it did it to a row.
LEMMA ServedWrite ==
  ASSUME Basic, Separate, PageState, NEW s \in Slots, ServeWrite(s)
  PROVE  RequestOK(calls[s])'
<1>1. TypeOK /\ SeenOK /\ CallsOK /\ ListOK
  BY DEF Basic, PageState
<1>2. UNCHANGED <<items, cursor, seen, lost>>
  BY DEF ServeWrite
<1>3. PICK c \in Call : c = calls[s]
  BY <1>1 DEF TypeOK
<1>4. PICK d \in Call : d = calls'[s]
  BY <1>1, ServeWriteCalls
<1>5. /\ d.op = c.op /\ d.item = c.item /\ d.todo = {}
      /\ d.ok <=> (c.op \in {"read", "remove"} => rows[c.item.id] # "none")
      /\ c.op \in {"read", "readAll", "remove", "removeAll"}
  BY <1>1, <1>3, <1>4, ServeWriteCalls
<1>6. s \in Busy /\ RequestOK(c)
  BY <1>3, <1>5 DEF Busy, PageState
<1>7. c.op \in {"read", "remove"} =>
        c.item \in Range(items) /\ c.item \in Item /\ c.item.id \in Ids /\ ItemOK(c)
  BY <1>1, <1>6, RangeFacts, ItemFacts DEF RequestOK, ItemOK, TypeOK
<1>8. c.op \in {"read", "remove"} => ItemOK(d)'
  BY <1>2, <1>5, <1>7 DEF ItemOK
<1>9. seen'.list \cup seen'.count \subseteq Ids
  BY <1>1, <1>2 DEF TypeOK
<1>10. c.op \in {"read", "readAll"} => \A i \in Ids : Changed(d, i) => rows'[i] # "unread"
  <2>1. CASE c.op = "read"
    BY <2>1, <1>1, <1>3, <1>5, <1>7, WriteRows DEF Changed
  <2>2. CASE c.op = "readAll"
    BY <2>2, <1>1, <1>3, WriteRows
  <2>3. QED
    BY <2>1, <2>2
<1>11. c.op \in {"remove", "removeAll"} => \A i \in Ids : Changed(d, i) => rows'[i] = "none"
  <2>1. CASE c.op = "remove"
    BY <2>1, <1>1, <1>3, <1>5, <1>7, WriteRows DEF Changed
  <2>2. CASE c.op = "removeAll"
    BY <2>2, <1>1, <1>3, WriteRows
  <2>3. QED
    BY <2>1, <2>2
<1>12. \A i : Removed(d, i) => Changed(d, i) /\ c.op \in {"remove", "removeAll"}
  BY <1>5 DEF Removed, Changed
<1>13. WroteOK(d)'
  BY <1>5, <1>9, <1>10, <1>11, <1>12 DEF WroteOK, Removed, Changed
<1>14. ~lost /\ c.op \in {"read", "remove"} => rows[c.item.id] # "none"
  <2>1. SUFFICES ASSUME ~lost, c.op \in {"read", "remove"} PROVE rows[c.item.id] # "none"
    OBVIOUS
  <2>2. ASSUME NEW t \in Busy, Removed(calls[t], c.item.id) PROVE FALSE
    <3>1. t # s
      BY <1>3, <2>2 DEF Removed, ServeWrite
    <3>2. QED
      BY <3>1, <2>2, <1>3, <1>5, <1>6, Others DEF Removed
  <2>3. QED
    BY <2>1, <2>2, <1>7 DEF PageState, ExactOK
<1>15. ~lost' => d.ok
  BY <1>2, <1>5, <1>14
<1>16. RequestOK(d)'
  BY <1>5, <1>8, <1>13, <1>15 DEF RequestOK
<1>17. QED
  BY <1>4, <1>16

\* The other requests under way are about other rows.
LEMMA OtherWrite ==
  ASSUME Basic, Separate, PageState, NEW s \in Slots, ServeWrite(s), NEW t \in Busy, t # s
  PROVE  RequestOK(calls[t])'
<1>1. TypeOK /\ SeenOK /\ CallsOK /\ ListOK
  BY DEF Basic, PageState
<1>2. UNCHANGED <<items, cursor, seen, lost>> /\ t \in Slots
  BY DEF ServeWrite, Busy
<1>3. /\ calls'[t] = calls[t]
      /\ calls[s].op \in {"read", "readAll", "remove", "removeAll"} /\ s \in Busy
  BY <1>1, <1>2, ServeWriteCalls DEF Busy
<1>4. PICK c \in Call : c = calls[s]
  BY <1>1 DEF TypeOK
<1>5. PICK e \in Call : e = calls[t]
  BY <1>1, <1>2 DEF TypeOK
<1>6. c.op \in {"read", "remove"} /\ e.op \in {"read", "remove", "more"}
  BY <1>3, <1>4, <1>5, Others
<1>7. RequestOK(e) /\ RequestOK(c)
  BY <1>3, <1>4, <1>5 DEF PageState
<1>8. /\ c.item \in Range(items) /\ c.item.id \in Ids /\ c.item.id >= cursor
  BY <1>1, <1>6, <1>7, RangeFacts, ItemFacts DEF RequestOK, ItemOK, ListOK, TypeOK
<1>9. \A i \in Ids : i # c.item.id => rows'[i] = rows[i]
  BY <1>1, <1>4, <1>6, WriteRows
<1>10. e.op = "more" => MoreOK(e)'
  <2>1. SUFFICES ASSUME e.op = "more" PROVE MoreOK(e)'
    OBVIOUS
  <2>2. MoreOK(e) /\ e.after = cursor /\ e.listAt \subseteq arrived /\ e.listAt \subseteq Ids
    BY <2>1, <1>1, <1>2, <1>5, <1>7, CallFacts DEF RequestOK, MoreOK, SeenOK
  <2>3. \A i \in e.listAt : i < e.after => i # c.item.id
    BY <2>2, <1>1, <1>8, Numbers, ItemFacts DEF TypeOK
  <2>4. \A i \in e.listAt : i < e.after => rows'[i] = rows[i]
    BY <2>2, <2>3, <1>9
  <2>5. "list" \notin e.todo => PageOK(e)'
    BY <2>2, <2>4, PageKept DEF MoreOK
  <2>6. QED
    BY <2>2, <2>5, <1>2 DEF MoreOK
<1>11. e.op \in {"read", "remove"} => ItemOK(e)'
  BY <1>2, <1>7 DEF RequestOK, ItemOK
<1>12. seen.list \cup seen.count \subseteq Ids
  BY <1>1 DEF TypeOK
<1>13. \A i \in Ids : /\ rows'[i] # "none" => rows[i] # "none"
                      /\ rows'[i] = "unread" => rows[i] = "unread"
  BY <1>1, WriteRows
<1>14. WroteOK(e)'
  BY <1>2, <1>7, <1>12, <1>13 DEF RequestOK, WroteOK, Changed, Removed
<1>15. RequestOK(e)'
  BY <1>2, <1>7, <1>10, <1>11, <1>14 DEF RequestOK
<1>16. QED
  BY <1>3, <1>5, <1>15

\* A mutation, as the page will see it.
LEMMA PageWrite ==
  ASSUME Basic, Separate, PageState, NEW s \in Slots, ServeWrite(s)
  PROVE  PageState'
<1>1. ListOK' /\ BadgeOK'
  BY ListWrite, BadgeWrite
<1>2. ~lost' => ExactOK'
  BY ExactWrite DEF ServeWrite
<1>3. \A t \in Busy' : t \in Busy
  BY ServeWriteCalls DEF Basic, Busy
<1>4. \A t \in Busy' : RequestOK(calls[t])'
  BY <1>3, ServedWrite, OtherWrite
<1>5. QED
  BY <1>1, <1>2, <1>4 DEF PageState

-----------------------------------------------------------------------------
(* The answers about one item *)

\* The list after such an answer: the item is marked, or gone, and the others are as before.
OneItem(c) ==
  /\ Sorted(items')
  /\ \A y \in Range(items') : \E x \in Range(items) :
       /\ x.id = y.id
       /\ y.id # c.item.id => y = x
       /\ y.id = c.item.id => c.op = "read" /\ y.read
  /\ \A x \in Range(items) : x.id # c.item.id => x \in Range(items')
  /\ c.op = "read" => \E y \in Range(items') : y.id = c.item.id

\* That is what marking and filtering do.
LEMMA AnswerOneItem ==
  ASSUME Basic, PageState, NEW s \in Slots, Answer(s), NEW c \in Call, c = calls[s],
         c.op \in {"read", "remove"}
  PROVE  OneItem(c)
<1>1. items \in Seq(Item) /\ ListOK /\ c.item \in Range(items)
  BY DEF Basic, PageState, TypeOK, Busy, RequestOK, ItemOK
<1>2. CASE c.op = "read"
  <2>1. items' = MarkedRead({c.item.id})
    BY <1>2 DEF Answer, ItemsAfter
  <2> DEFINE m == MarkedRead({c.item.id})
  <2>2. /\ m \in Seq(Item) /\ Sorted(m)
        /\ \A y \in Range(m) :
             \E x \in Range(items) : x.id = y.id /\ (y.read <=> x.read \/ x.id \in {c.item.id})
        /\ \A x \in Range(items) : \E y \in Range(m) :
             x.id = y.id /\ (y.read <=> x.read \/ x.id \in {c.item.id})
             /\ (x.id \notin {c.item.id} => y = x)
    BY <1>1, MarkedReadFacts DEF ListOK
  <2> HIDE DEF m
  <2>3. ASSUME NEW y \in Range(m)
        PROVE  \E x \in Range(items) :
                 /\ x.id = y.id
                 /\ y.id # c.item.id => y = x
                 /\ y.id = c.item.id => c.op = "read" /\ y.read
    <3>1. PICK x \in Range(items) : x.id = y.id /\ (y.read <=> x.read \/ x.id \in {c.item.id})
      BY <2>2
    <3>2. PICK z \in Range(m) : x.id = z.id /\ (x.id \notin {c.item.id} => z = x)
      BY <2>2, <3>1
    <3>3. z = y
      BY <2>2, <3>1, <3>2, SortedOnce
    <3>4. QED
      BY <1>2, <3>1, <3>2, <3>3
  <2>4. \A x \in Range(items) : x.id # c.item.id => x \in Range(m)
    BY <2>2
  <2>5. \E y \in Range(m) : y.id = c.item.id
    BY <1>1, <2>2
  <2>6. items' = m
    BY <2>1 DEF m
  <2>7. QED
    BY <2>2, <2>3, <2>4, <2>5, <2>6 DEF OneItem, Sorted
<1>3. CASE c.op = "remove"
  <2> DEFINE K == {k \in DOMAIN items : items[k].id # c.item.id}
  <2>1. items' = Filtered(K)
    BY <1>3 DEF Answer, ItemsAfter
  <2>2. K \in SUBSET (DOMAIN items)
    OBVIOUS
  <2>3. Sorted(Filtered(K)) /\ Range(Filtered(K)) = {items[k] : k \in K}
    BY <1>1, <2>2, FilteredFacts DEF ListOK
  <2>4. {items[k] : k \in K} = {x \in Range(items) : x.id # c.item.id}
    BY DEF Range
  <2> HIDE DEF K
  <2>5. Sorted(items') /\ Range(items') = {x \in Range(items) : x.id # c.item.id}
    BY <2>1, <2>3, <2>4 DEF Sorted
  <2>6. QED
    BY <2>5, <1>3 DEF OneItem
<1>4. QED
  BY <1>2, <1>3

\* What such an answer leaves alone, and what the server had done.
LEMMA AnswerOneFacts ==
  ASSUME Basic, Separate, PageState, NEW s \in Slots, Answer(s), NEW c \in Call, c = calls[s],
         c.op \in {"read", "remove"}
  PROVE  /\ UNCHANGED <<rows, arrived, cursor, seen, lost>>
         /\ s \in Busy /\ RequestOK(c) /\ c.todo = {}
         /\ c.item \in Range(items) /\ c.item \in Item /\ c.item.id \in Ids
         /\ c.item.id \in seen.list /\ rows[c.item.id] # "unread"
         /\ c.op = "remove" => rows[c.item.id] = "none"
         /\ \A t \in Busy' : t \in Busy /\ t \in Slots /\ t # s /\ calls'[t] = calls[t]
         /\ \A t \in Busy : t # s => t \in Busy' /\ calls'[t] = calls[t]
<1>1. TypeOK /\ ListOK
  BY DEF Basic, PageState
<1>2. UNCHANGED <<rows, arrived, cursor, seen, lost>> /\ c.todo = {}
  BY DEF Answer
<1>3. s \in Busy /\ RequestOK(c)
  BY DEF Busy, PageState
<1>4. /\ c.item \in Range(items) /\ c.item \in Item /\ c.item.id \in Ids
      /\ c.item.id \in seen.list
  BY <1>1, <1>3, RangeFacts, ItemFacts DEF RequestOK, ItemOK, TypeOK, ListOK
<1>5. Changed(c, c.item.id) /\ (c.op = "remove" => Removed(c, c.item.id))
  BY <1>2 DEF Changed, Removed
<1>6. rows[c.item.id] # "unread" /\ (c.op = "remove" => rows[c.item.id] = "none")
  BY <1>3, <1>4, <1>5 DEF RequestOK, WroteOK
<1>7. \A t \in Slots : t # s => calls'[t] = calls[t]
  BY <1>1, LeaveCalls
<1>8. calls'[s].op = "none"
  BY <1>1, LeaveCalls
<1>9. QED
  BY <1>2, <1>3, <1>4, <1>6, <1>7, <1>8 DEF Busy

\* The list, the marks and the requests under way after it.
LEMMA AnswerOneList ==
  ASSUME Basic, Separate, PageState, NEW s \in Slots, Answer(s), NEW c \in Call, c = calls[s],
         c.op \in {"read", "remove"}
  PROVE  ListOK' /\ (~lost' => ExactOK') /\ \A t \in Busy' : RequestOK(calls[t])'
<1>1. TypeOK /\ SeenOK /\ ListOK /\ OneItem(c)
  BY AnswerOneItem DEF Basic, PageState
<1>2. /\ UNCHANGED <<rows, arrived, cursor, seen, lost>>
      /\ s \in Busy /\ c.item.id \in seen.list /\ rows[c.item.id] # "unread"
      /\ c.op = "remove" => rows[c.item.id] = "none"
      /\ \A t \in Busy' : t \in Busy /\ t \in Slots /\ t # s /\ calls'[t] = calls[t]
      /\ \A t \in Busy : t # s => t \in Busy' /\ calls'[t] = calls[t]
  BY AnswerOneFacts
<1>3. ListOK'
  <2>1. \A y \in Range(items') : /\ y.id \in seen.list /\ y.id >= cursor
                                 /\ y.read => rows[y.id] # "unread"
    BY <1>1, <1>2 DEF ListOK, OneItem
  <2>2. ASSUME NEW i \in seen.list, i >= cursor, rows[i] # "none"
        PROVE  \E y \in Range(items') : y.id = i
    BY <1>1, <1>2, <2>2 DEF ListOK, OneItem
  <2>3. QED
    BY <1>1, <1>2, <2>1, <2>2 DEF ListOK, OneItem, Sorted
<1>4. \A t \in Busy' : /\ calls[t].op \in {"read", "remove", "more"}
                       /\ calls[t].op # "more" => calls[t].item.id # c.item.id
  BY <1>2, Others
<1>5. ASSUME ~lost
      PROVE  ExactOK'
  <2>1. SUFFICES ASSUME NEW y \in Range(items')
                 PROVE  /\ (\A t \in Busy' : ~Removed(calls'[t], y.id)) => rows'[y.id] # "none"
                        /\ (\A t \in Busy' : ~Changed(calls'[t], y.id)) => Marked(y)'
    BY DEF ExactOK, Removed, Changed
  <2>2. PICK x \in Range(items) : /\ x.id = y.id
                                  /\ y.id # c.item.id => y = x
                                  /\ y.id = c.item.id => c.op = "read" /\ y.read
    BY <1>1 DEF OneItem
  <2>3. rows[x.id] \in {"none", "unread", "read"}
    BY <1>1, RangeFacts, ItemFacts DEF TypeOK
  <2>4. ExactOK
    BY <1>5 DEF PageState
  <2>5. CASE y.id = c.item.id
    <3>1. \A t \in Busy : ~Removed(calls[t], y.id)
      BY <1>2, <1>4, <2>2, <2>5 DEF Removed
    <3>2. rows[y.id] = "read"
      BY <1>2, <2>2, <2>3, <2>4, <2>5, <3>1 DEF ExactOK
    <3>3. QED
      BY <1>2, <2>2, <2>5, <3>2 DEF Marked
  <2>6. CASE y.id # c.item.id
    <3>1. ~Removed(c, y.id) /\ ~Changed(c, y.id)
      BY <2>6 DEF Removed, Changed
    <3>2. /\ (\A t \in Busy' : ~Removed(calls'[t], y.id)) => rows[y.id] # "none"
          /\ (\A t \in Busy' : ~Changed(calls'[t], y.id)) => Marked(y)
      BY <1>2, <2>2, <2>4, <2>6, <3>1 DEF ExactOK
    <3>3. QED
      BY <1>2, <3>2 DEF Marked
  <2>7. QED
    BY <2>5, <2>6
<1>6. ASSUME NEW t \in Busy' PROVE RequestOK(calls[t])'
  <2>1. PICK e \in Call : e = calls[t]
    BY <1>1, <1>2 DEF TypeOK
  <2>2. RequestOK(e) /\ e.listAt \subseteq arrived /\ (e.op # "more" => e.item.id # c.item.id)
    BY <1>1, <1>2, <1>4, <2>1 DEF PageState, SeenOK
  <2>3. e.op = "more" => MoreOK(e)'
    <3>1. SUFFICES ASSUME e.op = "more" PROVE MoreOK(e)'
      OBVIOUS
    <3>2. MoreOK(e)
      BY <2>2, <3>1 DEF RequestOK
    <3>3. "list" \notin e.todo => PageOK(e)'
      BY <1>2, <2>2, <3>2, PageKept DEF MoreOK
    <3>4. QED
      BY <1>2, <3>2, <3>3 DEF MoreOK
  <2>4. e.op \in {"read", "remove"} => ItemOK(e)'
    BY <1>1, <2>2 DEF RequestOK, ItemOK, OneItem
  <2>5. WroteOK(e)'
    BY <1>2, <2>2 DEF RequestOK, WroteOK, Changed, Removed
  <2>6. RequestOK(e)'
    BY <1>2, <2>2, <2>3, <2>4, <2>5 DEF RequestOK
  <2>7. QED
    BY <1>2, <2>1, <2>6
<1>7. QED
  BY <1>2, <1>3, <1>5, <1>6

\* Counting down once, for one item that is no longer shown as unread: either it was
\* owed, or it was never counted.
LEMMA CountedDown ==
  ASSUME TypeOK, BadgeOK, NEW i \in OpenIds, i \in seen.list, rows[i] # "unread",
         OpenIds' = OpenIds \ {i}, UNCHANGED <<rows, seen>>,
         unread' = IF unread > 0 THEN unread - 1 ELSE 0,
         ~lost' => /\ ~lost
                   /\ \A s \in Busy : calls[s].op \in {"readAll", "removeAll"} /\ calls[s].todo = {} =>
                        s \in Busy' /\ calls'[s].op = calls[s].op /\ calls'[s].todo = {}
  PROVE  BadgeOK'
<1>1. /\ Owed \in SUBSET Ids /\ Overpaid \in SUBSET Ids /\ i \in Ids /\ Uncounted' = Uncounted
      /\ unread \in Nat
  BY OwedFacts, Numbers DEF TypeOK, Uncounted
<1>2. /\ IsFiniteSet(Owed) /\ IsFiniteSet(Overpaid)
      /\ Cardinality(Owed) \in Nat /\ Cardinality(Overpaid) \in Nat
  BY <1>1, IdSets, Numbers
<1>3. CASE i \in seen.count
  <2>1. i \in Owed /\ Owed' = Owed \ {i}
    BY <1>3 DEF Owed
  <2>2. Overpaid' = Overpaid
    BY <1>1, <1>3 DEF Overpaid, Uncounted
  <2>3. Cardinality(Owed') = Cardinality(Owed) - 1
    BY <1>2, <2>1, FS_RemoveElement
  <2>4. Cardinality(Owed) > 0
    BY <1>2, <2>1, FS_EmptySet
  <2>5. unread' + Cardinality(Overpaid') >= Cardinality(Owed')
    BY <1>1, <1>2, <2>2, <2>3, <2>4 DEF BadgeOK
  <2>6. ASSUME ~lost', Uncounted' = {},
               \A s \in Busy' : calls'[s].op \in {"readAll", "removeAll"} => calls'[s].todo # {}
        PROVE  unread' = Cardinality(Owed')
    <3>1. unread = Cardinality(Owed)
      BY <1>1, <2>6 DEF BadgeOK
    <3>2. QED
      BY <1>1, <1>2, <2>3, <2>4, <3>1
  <2>7. QED
    BY <2>5, <2>6 DEF BadgeOK
<1>4. CASE i \notin seen.count
  <2>1. Owed' = Owed
    BY <1>4 DEF Owed
  <2>2. Overpaid' = Overpaid \cup {i} /\ i \notin Overpaid
    BY <1>1, <1>4 DEF Overpaid, Uncounted
  <2>3. Cardinality(Overpaid') = Cardinality(Overpaid) + 1
    BY <1>2, <2>2, FS_AddElement
  <2>4. unread' + Cardinality(Overpaid') >= Cardinality(Owed')
    BY <1>1, <1>2, <2>1, <2>3 DEF BadgeOK
  <2>5. Uncounted' # {}
    BY <1>1, <1>4 DEF Uncounted
  <2>6. QED
    BY <2>4, <2>5 DEF BadgeOK
<1>5. QED
  BY <1>3, <1>4

\* The badge after the answer about one item.
LEMMA AnswerOneBadge ==
  ASSUME Basic, Separate, PageState, NEW s \in Slots, Answer(s), NEW c \in Call, c = calls[s],
         c.op \in {"read", "remove"}
  PROVE  BadgeOK'
<1>1. TypeOK /\ SeenOK /\ ListOK /\ BadgeOK /\ OneItem(c)
  BY AnswerOneItem DEF Basic, PageState
<1>2. /\ UNCHANGED <<rows, arrived, cursor, seen, lost>>
      /\ s \in Busy /\ RequestOK(c) /\ c.item \in Range(items) /\ c.item \in Item /\ c.item.id \in Ids
      /\ c.item.id \in seen.list /\ rows[c.item.id] # "unread"
      /\ \A t \in Busy : t # s => t \in Busy' /\ calls'[t] = calls[t]
  BY AnswerOneFacts
<1>3. OpenIds' = OpenIds \ {c.item.id}
  <2>1. ASSUME NEW i \in Ids
        PROVE  (\E y \in Range(items') : y.id = i /\ ~y.read) <=>
               i # c.item.id /\ \E x \in Range(items) : x.id = i /\ ~x.read
    BY <1>1 DEF OneItem
  <2>2. QED
    BY <2>1 DEF OpenIds
<1>4. \A t \in Busy : calls[t].op \in {"readAll", "removeAll"} /\ calls[t].todo = {} =>
        t \in Busy' /\ calls'[t].op = calls[t].op /\ calls'[t].todo = {}
  BY <1>2
<1>5. CASE ~c.item.read
  <2>1. c.item.id \in OpenIds
    BY <1>2, <1>5 DEF OpenIds
  <2>2. unread' = IF unread > 0 THEN unread - 1 ELSE 0
    BY <1>5 DEF Answer, CountAfter
  <2>3. QED
    BY <1>1, <1>2, <1>3, <1>4, <2>1, <2>2, CountedDown
<1>6. CASE c.item.read
  <2>1. c.op = "remove"
    BY <1>2, <1>6 DEF RequestOK, ItemOK
  <2>2. c.item.id \notin OpenIds
    BY <1>1, <1>2, <1>6, SortedOnce DEF OpenIds, ListOK, TypeOK
  <2>3. OpenIds' = OpenIds /\ Uncounted' = Uncounted
    BY <1>2, <1>3, <2>2 DEF Uncounted
  <2>4. Owed' = Owed
    BY <1>2, <2>3 DEF Owed
  <2>5. Overpaid' = Overpaid
    BY <1>2, <2>3 DEF Overpaid
  <2>6. unread' = unread
    BY <1>6, <2>1 DEF Answer, CountAfter
  <2>7. QED
    BY <1>1, <1>2, <1>4, <2>3, <2>4, <2>5, <2>6 DEF BadgeOK
<1>7. QED
  BY <1>2, <1>5, <1>6 DEF Item

-----------------------------------------------------------------------------
(* The answers about all items *)

\* After such an answer no request is under way, and what was seen is not unread.
LEMMA AnswerAllFacts ==
  ASSUME Basic, Separate, PageState, NEW s \in Slots, Answer(s), NEW c \in Call, c = calls[s],
         c.op \in {"readAll", "removeAll"}
  PROVE  /\ UNCHANGED <<rows, arrived, seen, lost>> /\ unread' = 0
         /\ Busy = {s} /\ Busy' = {} /\ c.todo = {}
         /\ \A i \in seen.list \cup seen.count : rows[i] # "unread"
         /\ c.op = "removeAll" => \A i \in seen.list \cup seen.count : rows[i] = "none"
<1>1. TypeOK
  BY DEF Basic
<1>2. UNCHANGED <<rows, arrived, seen, lost>> /\ unread' = 0 /\ c.todo = {}
  BY DEF Answer, CountAfter
<1>3. Busy = {s}
  BY Alone
<1>4. Busy' = {}
  BY <1>1, <1>3, LeaveCalls DEF Busy
<1>5. RequestOK(c)
  BY <1>3 DEF PageState
<1>6. \A i : Changed(c, i) /\ (c.op = "removeAll" => Removed(c, i))
  BY <1>2 DEF Changed, Removed
<1>7. QED
  BY <1>2, <1>3, <1>4, <1>5, <1>6 DEF RequestOK, WroteOK

\* Nothing is shown as unread, so nothing is owed.
LEMMA NothingOwed ==
  ASSUME TypeOK, TypeOK', UNCHANGED <<rows, seen>>, unread' = 0, OpenIds' = {},
         \A i \in seen.list \cup seen.count : rows[i] # "unread"
  PROVE  BadgeOK'
<1>1. Owed' = {}
  BY DEF Owed
<1>2. Overpaid' \in SUBSET Ids
  BY DEF Overpaid, Uncounted, TypeOK
<1>3. Cardinality(Owed') = 0 /\ Cardinality(Overpaid') \in Nat
  BY <1>1, <1>2, FS_EmptySet, IdSets, Numbers
<1>4. QED
  BY <1>3 DEF BadgeOK

\* Every item marked as read.
LEMMA AnswerReadAll ==
  ASSUME Basic, Basic', Separate, PageState, NEW s \in Slots, Answer(s),
         calls[s].op = "readAll"
  PROVE  PageState'
<1>1. PICK c \in Call : c = calls[s]
  BY DEF Basic, TypeOK
<1>2. TypeOK /\ TypeOK' /\ ListOK
  BY DEF Basic, PageState
<1>3. /\ UNCHANGED <<rows, arrived, seen, lost>> /\ unread' = 0
      /\ Busy = {s} /\ Busy' = {} /\ c.todo = {}
      /\ \A i \in seen.list \cup seen.count : rows[i] # "unread"
  BY <1>1, AnswerAllFacts
<1>4. items' = MarkedRead(Ids) /\ cursor' = cursor
  BY DEF Answer, ItemsAfter
<1> DEFINE m == MarkedRead(Ids)
<1>5. /\ m \in Seq(Item) /\ Sorted(m)
      /\ \A y \in Range(m) :
           \E x \in Range(items) : x.id = y.id /\ (y.read <=> x.read \/ x.id \in Ids)
      /\ \A x \in Range(items) : \E y \in Range(m) : x.id = y.id
  BY <1>2, MarkedReadFacts DEF ListOK, TypeOK
<1> HIDE DEF m
<1>6. items' = m
  BY <1>4 DEF m
<1>7. \A x \in Range(items) : x.id \in Ids
  BY <1>2, RangeFacts, ItemFacts DEF TypeOK
<1>8. \A y \in Range(m) : y.read /\ \E x \in Range(items) : x.id = y.id
  BY <1>5, <1>7
<1>9. ListOK'
  <2>1. Sorted(items')
    BY <1>5, <1>6 DEF Sorted
  <2>2. \A y \in Range(items') : y.id \in seen.list /\ y.id >= cursor /\ rows[y.id] # "unread"
    BY <1>2, <1>3, <1>6, <1>8 DEF ListOK
  <2>3. \A i \in seen.list : i >= cursor /\ rows[i] # "none" => \E y \in Range(items') : y.id = i
    BY <1>2, <1>5, <1>6 DEF ListOK
  <2>4. QED
    BY <1>3, <1>4, <2>1, <2>2, <2>3 DEF ListOK, Sorted
<1>10. ~lost' => ExactOK'
  <2>1. SUFFICES ASSUME ~lost', NEW y \in Range(items') PROVE rows[y.id] = "read" /\ y.read
    BY <1>3 DEF ExactOK, Marked
  <2>2. PICK x \in Range(items) : x.id = y.id
    BY <1>6, <1>8
  <2>3. \A t \in Busy : ~Removed(calls[t], x.id)
    BY <1>3 DEF Removed
  <2>4. rows[x.id] # "none" /\ x.id \in seen.list
    BY <1>2, <1>3, <2>1, <2>3 DEF PageState, ExactOK, ListOK
  <2>5. rows[x.id] \in {"none", "unread", "read"}
    BY <1>2, <1>7 DEF TypeOK
  <2>6. QED
    BY <1>3, <1>6, <1>8, <2>2, <2>4, <2>5
<1>11. OpenIds' = {}
  BY <1>6, <1>8 DEF OpenIds
<1>12. BadgeOK'
  BY <1>2, <1>3, <1>11, NothingOwed
<1>13. QED
  BY <1>3, <1>9, <1>10, <1>12 DEF PageState

\* Every item gone.
LEMMA AnswerRemoveAll ==
  ASSUME Basic, Basic', Separate, PageState, NEW s \in Slots, Answer(s),
         calls[s].op = "removeAll"
  PROVE  PageState'
<1>1. PICK c \in Call : c = calls[s]
  BY DEF Basic, TypeOK
<1>2. TypeOK /\ TypeOK'
  BY DEF Basic
<1>3. /\ UNCHANGED <<rows, arrived, seen, lost>> /\ unread' = 0
      /\ Busy' = {}
      /\ \A i \in seen.list \cup seen.count : rows[i] # "unread" /\ rows[i] = "none"
  BY <1>1, AnswerAllFacts
<1>4. items' = <<>>
  BY DEF Answer, ItemsAfter
<1>5. Range(items') = {} /\ DOMAIN items' = {}
  BY <1>4 DEF Range
<1>6. ListOK'
  BY <1>3, <1>5 DEF ListOK, Sorted
<1>7. ExactOK'
  BY <1>5 DEF ExactOK
<1>8. OpenIds' = {}
  BY <1>5 DEF OpenIds
<1>9. BadgeOK'
  BY <1>2, <1>3, <1>8, NothingOwed
<1>10. QED
  BY <1>3, <1>6, <1>7, <1>9 DEF PageState

-----------------------------------------------------------------------------
(* The answers of the list requests *)

\* A loaded page: its rows, its count, and nothing else under way.
LEMMA AnswerLoad ==
  ASSUME Basic, Basic', Separate, LoadsOK, NEW s \in Slots, Answer(s), calls[s].op = "load"
  PROVE  PageState'
<1>1. PICK c \in Call : c = calls[s]
  BY DEF Basic, TypeOK
<1>2. TypeOK /\ TypeOK' /\ CallsOK
  BY DEF Basic
<1>3. /\ rows' = rows /\ items' = c.page /\ unread' = c.count /\ cursor' = c.next
      /\ seen'.list = c.listAt /\ seen'.count = c.countAt /\ c.todo = {} /\ c.op = "load"
  BY <1>1 DEF Answer, ItemsAfter, CountAfter
<1>4. Busy' = {}
  <2>1. Busy = {s}
    BY Alone
  <2>2. QED
    BY <1>2, <2>1, LeaveCalls DEF Busy
<1>5. PageOK(c) /\ c.count = Unread(c.countAt) /\ c.after = Start
  BY <1>1, <1>2, <1>3 DEF LoadsOK, LoadOK, CallsOK, CallOK
<1>6. c.listAt \subseteq Ids /\ c.countAt \subseteq Ids /\ c.page \in Seq(Item) /\ c.next \in Nat
  BY CallFacts, Numbers
<1>7. \A i \in Ids : i < Start /\ i \in Nat
  BY Numbers DEF Ids
<1>8. ListOK'
  <2>1. Sorted(items')
    BY <1>3, <1>5 DEF PageOK, Sorted
  <2>2. \A x \in Range(items') : x.id \in seen'.list /\ x.id >= cursor' /\ (x.read => rows[x.id] # "unread")
    BY <1>3, <1>5, <1>6, <1>7 DEF PageOK, Marked
  <2>3. \A i \in seen'.list : i >= cursor' /\ rows[i] # "none" => \E x \in Range(items') : x.id = i
    BY <1>3, <1>5, <1>6, <1>7 DEF PageOK
  <2>4. QED
    BY <1>3, <2>1, <2>2, <2>3 DEF ListOK, Sorted
<1>9. \A x \in Range(items') : Marked(x)' /\ rows'[x.id] # "none"
  BY <1>3, <1>5 DEF PageOK, Marked
<1>10. ExactOK'
  BY <1>9 DEF ExactOK
<1>11. BadgeOK'
  <2>1. \A i \in OpenIds' : rows[i] = "unread"
    BY <1>3, <1>9 DEF OpenIds, Marked
  <2>2. Owed' = {i \in c.countAt : rows[i] = "unread"}
    BY <1>3, <2>1 DEF Owed
  <2>3. Cardinality(Owed') = c.count
    BY <1>5, <2>2 DEF Unread
  <2>4. Overpaid' \in SUBSET Ids
    BY <1>2 DEF Overpaid, Uncounted, TypeOK
  <2>5. Cardinality(Overpaid') \in Nat /\ c.count \in Nat
    BY <2>4, IdSets, CallFacts, Numbers
  <2>6. QED
    BY <1>3, <2>3, <2>5 DEF BadgeOK
<1>12. QED
  BY <1>4, <1>8, <1>10, <1>11 DEF PageState

\* A further page continues the list from the cursor, among requests for its items.
LEMMA AnswerMore ==
  ASSUME Basic, Basic', Separate, PageState, NEW s \in Slots, Answer(s), calls[s].op = "more"
  PROVE  PageState'
<1>1. PICK c \in Call : c = calls[s]
  BY DEF Basic, TypeOK
<1>2. TypeOK /\ TypeOK' /\ SeenOK /\ CallsOK /\ ListOK /\ BadgeOK
  BY DEF Basic, PageState
<1>3. /\ rows' = rows /\ arrived' = arrived /\ items' = items \o c.page /\ unread' = unread
      /\ cursor' = c.next /\ lost' = lost /\ c.todo = {} /\ c.op = "more"
      /\ seen' = [seen EXCEPT !.list = {i \in Ids : IF i < c.after THEN i \in c.listAt
                                                    ELSE i \in seen.list}]
  BY <1>1 DEF Answer, ItemsAfter, CountAfter
<1>4. /\ seen'.list = {i \in Ids : IF i < c.after THEN i \in c.listAt ELSE i \in seen.list}
      /\ seen'.count = seen.count
  BY <1>2, <1>3 DEF TypeOK
<1>5. MoreOK(c) /\ PageOK(c) /\ c.after = cursor /\ seen.list \subseteq c.listAt
  <2>1. s \in Busy
    BY DEF Busy
  <2>2. QED
    BY <2>1, <1>1, <1>3 DEF PageState, RequestOK, MoreOK
<1>6. /\ c.page \in Seq(Item) /\ items \in Seq(Item) /\ cursor \in Nat /\ c.next \in Nat
      /\ c.listAt \subseteq Ids /\ seen.list \subseteq Ids /\ c.next < cursor
  BY <1>2, <1>5, CallFacts, Numbers DEF TypeOK, PageOK
<1>7. \A i \in Ids : i \in Nat
  BY ItemFacts
<1>8. \A x \in Range(items) : x.id \in seen.list /\ x.id >= cursor /\ x.id \in Ids
  BY <1>2, <1>6, RangeFacts, ItemFacts DEF ListOK
<1>9. \A y \in Range(c.page) : /\ c.next <= y.id /\ y.id < cursor /\ y.id \in c.listAt /\ y.id \in Ids
                               /\ Marked(y) /\ rows[y.id] # "none"
  BY <1>5, <1>6 DEF PageOK, Marked
<1>10. \A x \in Range(items), y \in Range(c.page) : x.id > y.id
  BY <1>6, <1>7, <1>8, <1>9
<1>11. /\ Range(items') = Range(items) \cup Range(c.page)
       /\ Sorted(items \o c.page)
  <2>1. Sorted(items) /\ Sorted(c.page)
    BY <1>2, <1>5 DEF ListOK, PageOK
  <2>2. QED
    BY <1>3, <1>6, <1>10, <2>1, ConcatFacts
<1>12. seen.list \subseteq seen'.list
  BY <1>4, <1>5, <1>6
<1>13. ListOK'
  <2>1. Sorted(items')
    BY <1>3, <1>11 DEF Sorted
  <2>2. ASSUME NEW x \in Range(items')
        PROVE  x.id \in seen'.list /\ x.id >= c.next /\ (x.read => rows[x.id] # "unread")
    <3>1. CASE x \in Range(items)
      BY <3>1, <1>2, <1>6, <1>7, <1>8, <1>12 DEF ListOK
    <3>2. CASE x \in Range(c.page)
      BY <3>2, <1>4, <1>5, <1>6, <1>7, <1>9 DEF Marked
    <3>3. QED
      BY <3>1, <3>2, <1>11
  <2>3. ASSUME NEW i \in seen'.list, i >= c.next, rows[i] # "none"
        PROVE  \E x \in Range(items') : x.id = i
    <3>1. i \in Ids
      BY <1>4
    <3>2. CASE i < cursor
      <4>1. i \in c.listAt
        BY <3>2, <1>4, <1>5
      <4>2. QED
        BY <4>1, <3>1, <3>2, <2>3, <1>5, <1>6, <1>7, <1>11 DEF PageOK
    <3>3. CASE ~(i < cursor)
      <4>1. i \in seen.list /\ i >= cursor
        BY <3>1, <3>3, <1>4, <1>5, <1>6, <1>7
      <4>2. QED
        BY <4>1, <2>3, <1>2, <1>11 DEF ListOK
    <3>4. QED
      BY <3>2, <3>3
  <2>4. QED
    BY <1>3, <2>1, <2>2, <2>3 DEF ListOK, Sorted
<1>14. /\ \A t \in Slots : t # s => calls'[t] = calls[t]
       /\ calls'[s].op = "none"
  BY <1>2, LeaveCalls
<1>15. /\ \A t \in Busy' : t \in Busy /\ t \in Slots /\ t # s /\ calls'[t] = calls[t]
       /\ \A t \in Busy : t # s => t \in Busy' /\ calls'[t] = calls[t]
       /\ s \in Busy
  BY <1>1, <1>3, <1>14 DEF Busy
<1>16. \A i : ~Changed(c, i) /\ ~Removed(c, i)
  BY <1>3 DEF Changed, Removed
<1>17. ASSUME ~lost
       PROVE  ExactOK'
  <2>1. SUFFICES ASSUME NEW x \in Range(items')
                 PROVE  /\ (\A t \in Busy' : ~Removed(calls'[t], x.id)) => rows'[x.id] # "none"
                        /\ (\A t \in Busy' : ~Changed(calls'[t], x.id)) => Marked(x)'
    BY DEF ExactOK, Removed, Changed
  <2>2. CASE x \in Range(items)
    <3>1. /\ (\A t \in Busy' : ~Removed(calls'[t], x.id)) => \A t \in Busy : ~Removed(calls[t], x.id)
          /\ (\A t \in Busy' : ~Changed(calls'[t], x.id)) => \A t \in Busy : ~Changed(calls[t], x.id)
      BY <1>1, <1>15, <1>16
    <3>2. ExactOK
      BY <1>17 DEF PageState
    <3>3. QED
      BY <1>3, <2>2, <3>1, <3>2 DEF ExactOK, Marked
  <2>3. CASE x \in Range(c.page)
    BY <2>3, <1>3, <1>9 DEF Marked
  <2>4. QED
    BY <2>2, <2>3, <1>11
<1>18. ASSUME NEW t \in Busy' PROVE RequestOK(calls[t])'
  <2>1. PICK e \in Call : e = calls[t]
    BY <1>2, <1>15 DEF TypeOK
  <2>2. RequestOK(e)
    BY <1>15, <2>1 DEF PageState
  <2>3. e.op \in {"read", "remove"}
    <3>1. Independent(calls[t], calls[s])
      BY <1>15 DEF Separate
    <3>2. calls[t].op # "more"
      BY <1>2, <1>15 DEF CallsOK
    <3>3. QED
      BY <2>1, <3>1, <3>2 DEF Independent
  <2>4. ItemOK(e) /\ e.item.id \in seen.list /\ e.item.id \in Ids
    BY <1>8, <2>2, <2>3 DEF RequestOK, ItemOK
  <2>5. ItemOK(e)'
    BY <1>11, <2>4 DEF ItemOK
  <2>6. WroteOK(e)'
    <3>1. \A i : Changed(e, i) \/ Removed(e, i) => i = e.item.id
      BY <2>3 DEF Changed, Removed
    <3>2. QED
      BY <1>3, <2>2, <2>4, <3>1 DEF RequestOK, WroteOK, Changed, Removed
  <2>7. RequestOK(e)'
    BY <1>3, <2>2, <2>3, <2>5, <2>6 DEF RequestOK
  <2>8. QED
    BY <1>15, <2>1, <2>7
<1>19. BadgeOK'
  <2>1. OpenIds \subseteq OpenIds' /\ \A i \in OpenIds' : i \in OpenIds \/ rows[i] = "unread"
    BY <1>9, <1>11 DEF OpenIds, Marked
  <2>2. Owed' = Owed
    BY <1>3, <1>4, <2>1 DEF Owed
  <2>3. Uncounted \subseteq Uncounted'
    BY <1>4, <1>12 DEF Uncounted
  <2>4. Overpaid \subseteq Overpaid'
    BY <1>3, <2>1, <2>3 DEF Overpaid
  <2>5. Overpaid' \in SUBSET Ids /\ Owed \in SUBSET Ids
    BY <1>2, OwedFacts DEF Overpaid, Uncounted, TypeOK
  <2>6. /\ Cardinality(Overpaid') \in Nat /\ Cardinality(Overpaid) \in Nat
        /\ Cardinality(Overpaid) <= Cardinality(Overpaid') /\ Cardinality(Owed) \in Nat
    BY <2>4, <2>5, CardGrows, IdSets, Numbers
  <2>7. unread' + Cardinality(Overpaid') >= Cardinality(Owed')
    BY <1>2, <1>3, <2>2, <2>6, Numbers DEF BadgeOK, TypeOK
  <2>8. (\A t \in Busy' : calls'[t].op \in {"readAll", "removeAll"} => calls'[t].todo # {})
          => \A t \in Busy : calls[t].op \in {"readAll", "removeAll"} => calls[t].todo # {}
    BY <1>15
  <2>9. ~lost' /\ Uncounted' = {} => ~lost /\ Uncounted = {}
    BY <1>3, <2>3
  <2>10. QED
    BY <1>2, <1>3, <2>2, <2>7, <2>8, <2>9 DEF BadgeOK
<1>20. QED
  BY <1>3, <1>13, <1>17, <1>18, <1>19 DEF PageState

-----------------------------------------------------------------------------
(* The theorems *)

\* An answer becomes what the page shows.
LEMMA PageAnswer ==
  ASSUME IInv, Basic', NEW s \in Slots, Answer(s), ~tangled, Shown'
  PROVE  PageState'
<1>1. Basic /\ Separate /\ LoadsOK /\ (Shown => PageState)
  BY DEF IInv
<1>2. calls[s].op \in Op /\ calls[s].op # "none"
  BY <1>1, CallFacts DEF Basic, TypeOK, Answer
<1>3. CASE calls[s].op = "load"
  BY <1>1, <1>3, AnswerLoad
<1>4. CASE calls[s].op # "load"
  <2>1. PageState
    BY <1>1, <1>4 DEF Answer, Shown
  <2>2. PICK c \in Call : c = calls[s]
    BY <1>1 DEF Basic, TypeOK
  <2>3. CASE c.op \in {"read", "remove"}
    BY <2>1, <2>2, <2>3, <1>1, AnswerOneList, AnswerOneBadge DEF PageState
  <2>4. CASE c.op = "readAll"
    BY <2>1, <2>2, <2>4, <1>1, AnswerReadAll
  <2>5. CASE c.op = "removeAll"
    BY <2>1, <2>2, <2>5, <1>1, AnswerRemoveAll
  <2>6. CASE c.op = "more"
    BY <2>1, <2>2, <2>6, <1>1, AnswerMore
  <2>7. QED
    BY <1>2, <1>4, <2>2, <2>3, <2>4, <2>5, <2>6 DEF Op
<1>5. QED
  BY <1>3, <1>4

\* Every step preserves the invariant.
LEMMA NextIInv ==
  ASSUME IInv, [Next]_vars
  PROVE  IInv'
<1>1. Basic
  BY DEF IInv
<1>2. ASSUME NEW i \in Ids, Arrive(i)
      PROVE  IInv'
  <2>1. Basic' /\ calls' = calls /\ tangled' = tangled /\ (Shown' <=> Shown)
    BY <1>1, <1>2, BasicArrive DEF Arrive, Shown
  <2>2. Separate => Separate'
    BY <2>1 DEF Separate, Busy
  <2>3. QED
    BY <1>1, <1>2, <2>1, <2>2, LoadsArrive, PageArrive DEF IInv
<1>3. ASSUME NEW s \in Slots, Serve(s)
      PROVE  IInv'
  <2>1. Basic' /\ tangled' = tangled /\ (Shown' <=> Shown)
    <3>1. UNCHANGED <<loading, failed, tangled>>
      BY <1>3 DEF Serve, ServeList, ServeCount, ServeWrite
    <3>2. QED
      BY <3>1, <1>1, <1>3, BasicServe DEF Shown
  <2>2. ~tangled /\ Shown => PageState'
    BY <1>1, <1>3, PageRead, PageWrite DEF IInv, Serve
  <2>3. QED
    BY <1>1, <1>3, <2>1, <2>2, SeparateServe, LoadsServe DEF IInv
<1>4. ASSUME NEW s \in Slots, Use(s)
      PROVE  IInv'
  <2>1. Basic'
    BY <1>1, <1>4, BasicUse
  <2>2. PICK c \in Call :
          /\ Fresh(c) /\ Send(s, c)
          /\ c.op = "load" => loading'
          /\ c.op # "load" => Shown /\ loading' = loading /\ failed' = failed
          /\ c.op = "more" => c.after = cursor /\ cursor # NoCursor
          /\ c.op \in {"read", "remove"} => ItemOK(c)
    BY <1>1, <1>4, UseSends DEF Basic
  <2>3. SUFFICES ASSUME ~tangled' PROVE Separate' /\ LoadsOK' /\ (Shown' => PageState')
    BY <2>1 DEF IInv
  <2>4. Separate' /\ (\A t \in Busy : Independent(c, calls[t])) /\ (c.op # "load" => ~tangled)
    BY <1>1, <2>2, <2>3, SeparateSend DEF IInv, Fresh
  <2>5. LoadsOK'
    BY <1>1, <2>2, <2>4, LoadsUse DEF IInv
  <2>6. Shown' => c.op # "load"
    BY <2>2 DEF Shown
  <2>7. c.op # "load" => PageState
    BY <2>2, <2>4 DEF IInv
  <2>8. Shown' => PageState'
    BY <1>1, <2>2, <2>6, <2>7, PageUse
  <2>9. QED
    BY <2>4, <2>5, <2>8
<1>5. ASSUME NEW s \in Slots, Answer(s)
      PROVE  IInv'
  <2>1. Basic' /\ tangled' = tangled
    BY <1>1, <1>5, BasicLeave DEF Answer
  <2>2. QED
    BY <1>1, <1>5, <2>1, SeparateLeave, LoadsLeave, PageAnswer DEF IInv
<1>6. ASSUME NEW s \in Slots, Fail(s)
      PROVE  IInv'
  <2>1. Basic' /\ tangled' = tangled
    BY <1>1, <1>6, BasicLeave DEF Fail
  <2>2. Shown' => Shown
    <3>1. calls[s].op = "load" => failed'
      BY <1>6 DEF Fail
    <3>2. calls[s].op # "load" => (loading' <=> loading) /\ (failed' <=> failed)
      BY <1>6 DEF Fail
    <3>3. QED
      BY <3>1, <3>2 DEF Shown
  <2>3. QED
    BY <1>1, <1>6, <2>1, <2>2, SeparateLeave, LoadsLeave, PageFail DEF IInv
<1>7. CASE UNCHANGED vars
  <2>1. UNCHANGED <<rows, arrived, items, unread, cursor, loading, loadingMore, failed, calls,
                    seen, tangled, lost>>
    BY <1>7 DEF vars
  <2>2. Basic'
    BY <1>1, <2>1 DEF Basic, TypeOK, SeenOK, CallsOK, CallOK
  <2>3. Busy' = Busy /\ (Separate => Separate') /\ (Shown' <=> Shown)
    BY <2>1 DEF Separate, Busy, Shown
  <2>4. LoadsOK => LoadsOK'
    BY <2>1 DEF LoadsOK, LoadOK, PageOK, Marked, Sorted, Unread
  <2>5. PageState => PageState'
    <3>1. SUFFICES ASSUME PageState PROVE PageState'
      OBVIOUS
    <3>2. ListOK' /\ (~lost' => ExactOK')
      BY <2>1, <2>3, <3>1 DEF PageState, ListOK, Sorted, ExactOK, Marked
    <3>3. BadgeOK'
      BY <2>1, <2>3, <3>1, BadgeKept DEF PageState, Busy
    <3>4. ASSUME NEW t \in Busy' PROVE RequestOK(calls[t])'
      BY <2>1, <2>3, <3>1 DEF PageState, RequestOK, MoreOK, PageOK, Marked, Sorted, ItemOK,
         WroteOK
    <3>5. QED
      BY <3>2, <3>3, <3>4 DEF PageState
  <2>6. QED
    BY <2>1, <2>2, <2>3, <2>4, <2>5 DEF IInv
<1>8. QED
  BY <1>2, <1>3, <1>4, <1>5, <1>6, <1>7 DEF Next

\* Whatever the user does while requests are under way, and however they end, the page
\* differs from the rows by the answers it waits for.
THEOREM Invariance == Spec => []IInv
<1>1. QED
  BY InitIInv, NextIInv, PTL DEF Spec

\* The page's state and the requests keep their types.
THEOREM TypeCorrect == Spec => []TypeOK
<1>1. IInv => TypeOK
  BY DEF IInv, Basic
<1>2. QED
  BY <1>1, Invariance, PTL

\* At rest nothing is under way, so the list shows the rows themselves.
LEMMA RestList == IInv => ListMirrorsRows
<1> DEFINE shown == {items[k].id : k \in DOMAIN items}
           rowsDownTo == {i \in Stored \cap seen.list : i >= cursor}
<1>1. SUFFICES ASSUME IInv, AtRest
               PROVE  /\ \A k, l \in DOMAIN items : k < l => items[k].id > items[l].id
                      /\ rowsDownTo \subseteq shown
                      /\ ~lost => shown = rowsDownTo
                      /\ \A k \in DOMAIN items :
                           LET r == rows[items[k].id]
                           IN  IF items[k].read THEN r # "unread" ELSE ~lost => r = "unread"
  BY DEF ListMirrorsRows
<1>2. PageState /\ TypeOK /\ Busy = {} /\ ListOK
  BY <1>1 DEF IInv, AtRest, Basic, PageState
<1>3. shown = {x.id : x \in Range(items)}
  BY DEF Range
<1>4. \A k, l \in DOMAIN items : k < l => items[k].id > items[l].id
  BY <1>2 DEF ListOK, Sorted
<1>5. rowsDownTo \subseteq shown
  BY <1>2, <1>3 DEF ListOK, Stored
<1>6. ~lost => \A x \in Range(items) : rows[x.id] # "none" /\ Marked(x)
  BY <1>2 DEF PageState, ExactOK
<1>7. \A x \in Range(items) : x.id \in Ids
  BY <1>2, RangeFacts, ItemFacts DEF TypeOK
<1>8. ~lost => shown = rowsDownTo
  BY <1>2, <1>3, <1>5, <1>6, <1>7 DEF ListOK, Stored
<1>9. \A k \in DOMAIN items : items[k] \in Range(items)
  BY DEF Range
<1>10. QED
  BY <1>2, <1>4, <1>5, <1>6, <1>8, <1>9 DEF ListOK, Marked

\* The list of a page at rest shows the rows from the newest down to the cursor that had
\* arrived when they were read, once, in order, with their marks, up to lost answers.
THEOREM ListIsTheRows == Spec => []ListMirrorsRows
BY RestList, Invariance, PTL

\* At rest nothing is owed but unread rows, and nothing overpaid but uncounted ones.
LEMMA RestBadge == IInv => BadgeCountsUnread
<1>1. SUFFICES ASSUME IInv, AtRest
               PROVE  /\ unread + Cardinality(Uncounted) >= Unread(seen.count)
                      /\ ~lost /\ Uncounted = {} => unread = Unread(seen.count)
  BY DEF BadgeCountsUnread
<1>2. PageState /\ TypeOK /\ Busy = {} /\ BadgeOK
  BY <1>1 DEF IInv, AtRest, Basic, PageState
<1> DEFINE U == {i \in seen.count : rows[i] = "unread"}
<1>3. U \subseteq Owed /\ Owed \in SUBSET Ids /\ Overpaid \subseteq Uncounted /\ Uncounted \in SUBSET Ids
  BY <1>2, OwedFacts DEF Owed
<1>4. /\ Cardinality(U) \in Nat /\ Cardinality(Owed) \in Nat /\ Cardinality(U) <= Cardinality(Owed)
      /\ Cardinality(Overpaid) \in Nat /\ Cardinality(Uncounted) \in Nat
      /\ Cardinality(Overpaid) <= Cardinality(Uncounted)
  BY <1>3, CardGrows
<1>5. Unread(seen.count) = Cardinality(U)
  BY DEF Unread
<1> HIDE DEF U
<1>6. unread + Cardinality(Uncounted) >= Unread(seen.count)
  BY <1>2, <1>4, <1>5, Numbers DEF BadgeOK, TypeOK
<1>7. ASSUME ~lost, Uncounted = {}
      PROVE  unread = Unread(seen.count)
  <2>1. unread = Cardinality(Owed)
    BY <1>2, <1>7 DEF BadgeOK
  <2>2. \A x \in Range(items) : Marked(x)
    BY <1>2, <1>7 DEF PageState, ExactOK
  <2>3. Owed = U
    BY <2>2 DEF Owed, OpenIds, Marked, U
  <2>4. QED
    BY <2>1, <2>3, <1>5
<1>8. QED
  BY <1>6, <1>7

\* The badge of a page at rest counts the unread rows that were counted, short of what
\* the page shows but never counted; without lost answers and such rows it is exact.
THEOREM BadgeIsTheUnread == Spec => []BadgeCountsUnread
BY RestBadge, Invariance, PTL
=============================================================================
