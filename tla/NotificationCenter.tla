-------------------------- MODULE NotificationCenter --------------------------
(***************************************************************************)
(* The notification page of one user                                       *)
(* (frontend/src/features/notifications/NotificationCenter.tsx) against    *)
(* the rows it shows a copy of.  Every control sends a request; the server *)
(* handles it in one step; its answer changes the page in a later one.     *)
(* Nothing stops the user from using a control while another request is    *)
(* under way, except the two flags loading and loadingMore.                *)
(***************************************************************************)
EXTENDS Integers, Sequences, FiniteSets

CONSTANTS
  MaxId,      \* bound: notifications are numbered 1..MaxId in the order of created_at
  PageSize,   \* the page limit of GET /notifications
  Slots       \* bound: requests that can be under way at the same time

ASSUME CenterAssumption == {MaxId, PageSize} \subseteq Nat \ {0}

VARIABLES
  rows,        \* the user's rows of notifications, by id
  arrived,     \* the ids ever inserted: created_at is the producer's, so in any order
  items,       \* React state: the notifications on the page
  unread,      \* React state: the number in the badge
  cursor,      \* React state: nextCursor
  loading, loadingMore, failed,
  calls,       \* the requests under way
  seen,        \* history: arrived when each listed position, and the count, were read
  tangled,     \* history: requests that touch the same rows have overlapped
  lost         \* history: the server has done what the page was told had failed

vars == <<rows, arrived, items, unread, cursor, loading, loadingMore, failed, calls,
          seen, tangled, lost>>

Ids == 1..MaxId
Start == MaxId + 1    \* a list request without a cursor
NoCursor == 0

Item == [id : Ids, read : BOOLEAN]

Op == {"none", "load", "more", "read", "readAll", "remove", "removeAll"}

\* A request: what the server still has to do for it, the item it is about as it
\* was when the control was used, and the answer so far.
Call == [op : Op, todo : SUBSET {"list", "count", "write"}, item : Item, after : 0..Start,
         ok : BOOLEAN, page : Seq(Item), next : 0..MaxId, count : 0..MaxId,
         listAt : SUBSET Ids, countAt : SUBSET Ids]

NoItem == [id |-> 1, read |-> FALSE]

\* A request of which nothing is done yet.
Request(op, todo, item, after) ==
  [op |-> op, todo |-> todo, item |-> item, after |-> after, ok |-> TRUE,
   page |-> <<>>, next |-> NoCursor, count |-> 0, listAt |-> {}, countAt |-> {}]

NoCall == Request("none", {}, NoItem, 0)

LoadCall == Request("load", {"list", "count"}, NoItem, Start)

Busy == {s \in Slots : calls[s].op # "none"}

\* The page opens and sends its first requests.
Init ==
  /\ arrived \in SUBSET Ids
  /\ rows \in {f \in [Ids -> {"none", "unread", "read"}] :
                 \A i \in Ids \ arrived : f[i] = "none"}
  /\ items = <<>> /\ unread = 0 /\ cursor = NoCursor
  /\ loading = TRUE /\ loadingMore = FALSE /\ failed = FALSE
  /\ calls \in {[s \in Slots |-> IF s = t THEN LoadCall ELSE NoCall] : t \in Slots}
  /\ seen = [list |-> {}, count |-> {}]
  /\ tangled = FALSE /\ lost = FALSE

----------------------------------------------------------------------------
(* The server *)

\* The inbox worker inserts a notification.
Arrive(i) ==
  /\ i \notin arrived
  /\ arrived' = arrived \cup {i}
  /\ rows' = [rows EXCEPT ![i] = "unread"]
  /\ UNCHANGED <<items, unread, cursor, loading, loadingMore, failed, calls, seen,
                 tangled, lost>>

Stored == {i \in Ids : rows[i] # "none"}
Unread(S) == Cardinality({i \in S : rows[i] = "unread"})

Older(c) == {i \in Stored : i < c}

\* The n-th smallest number in S.
Nth(S, n) == CHOOSE i \in S : Cardinality({j \in S : j <= i}) = n

\* The newest PageSize rows older than the cursor, newest first.
Page(c) ==
  LET all == Cardinality(Older(c))
  IN  [k \in 1 .. (IF all < PageSize THEN all ELSE PageSize) |->
         [id |-> Nth(Older(c), all + 1 - k), read |-> rows[Nth(Older(c), all + 1 - k)] = "read"]]

MutNextCursor(c) ==
  IF Cardinality(Older(c)) > PageSize
  THEN Nth(Older(c), Cardinality(Older(c)) - PageSize) ELSE NoCursor

\* The last row of the page, if one more row was read than the page holds.
NextCursor(c) ==
  IF Cardinality(Older(c)) > PageSize THEN Page(c)[PageSize].id ELSE NoCursor

ServeList(s) ==
  /\ "list" \in calls[s].todo
  /\ calls' = [calls EXCEPT ![s].todo = @ \ {"list"}, ![s].page = Page(calls[s].after),
                            ![s].next = NextCursor(calls[s].after), ![s].listAt = arrived]
  /\ UNCHANGED <<rows, arrived, items, unread, cursor, loading, loadingMore, failed, seen,
                 tangled, lost>>

ServeCount(s) ==
  /\ "count" \in calls[s].todo
  /\ calls' = [calls EXCEPT ![s].todo = @ \ {"count"}, ![s].count = Unread(Ids),
                            ![s].countAt = arrived]
  /\ UNCHANGED <<rows, arrived, items, unread, cursor, loading, loadingMore, failed, seen,
                 tangled, lost>>

\* The four mutations; a row that is gone is answered 404 by the first two.
Written(c, i) ==
  CASE c.op = "read"      -> IF i = c.item.id /\ rows[i] = "unread" THEN "read" ELSE rows[i]
    [] c.op = "readAll"   -> IF rows[i] = "unread" THEN "read" ELSE rows[i]
    [] c.op = "remove"    -> IF i = c.item.id THEN "none" ELSE rows[i]
    [] c.op = "removeAll" -> "none"

ServeWrite(s) ==
  /\ "write" \in calls[s].todo
  /\ rows' = [i \in Ids |-> Written(calls[s], i)]
  /\ calls' = [calls EXCEPT ![s].todo = {},
                 ![s].ok = calls[s].op \in {"read", "remove"} => rows[calls[s].item.id] # "none"]
  /\ UNCHANGED <<arrived, items, unread, cursor, loading, loadingMore, failed, seen,
                 tangled, lost>>

----------------------------------------------------------------------------
(* The controls: what is rendered decides which of them there are *)

Shown == ~loading /\ ~failed

\* Requests of single items do not disturb each other, nor the next page, which
\* has other items.
Independent(c, d) ==
  /\ {c.op, d.op} \subseteq {"read", "remove", "more"}
  /\ c.op # "more" /\ d.op # "more" => c.item.id # d.item.id

Send(s, c) ==
  /\ calls[s].op = "none"
  /\ calls' = [calls EXCEPT ![s] = c]
  /\ tangled' = \/ c.op # "load" /\ tangled
                \/ \E t \in Busy : ~Independent(c, calls[t])
  /\ lost' = (c.op # "load" /\ lost)
  /\ UNCHANGED <<rows, arrived, items, unread, cursor, seen>>

\* The retry of a failed load, and the refresh button of the empty page.
Load(s) ==
  /\ ~loading
  /\ failed \/ items = <<>>
  /\ Send(s, LoadCall)
  /\ loading' = TRUE /\ failed' = FALSE
  /\ UNCHANGED loadingMore

LoadMore(s) ==
  /\ Shown /\ items # <<>> /\ cursor # NoCursor /\ ~loadingMore
  /\ Send(s, Request("more", {"list"}, NoItem, cursor))
  /\ loadingMore' = TRUE
  /\ UNCHANGED <<loading, failed>>

MarkRead(s, k) ==
  /\ Shown /\ ~items[k].read
  /\ Send(s, Request("read", {"write"}, items[k], 0))
  /\ UNCHANGED <<loading, loadingMore, failed>>

Remove(s, k) ==
  /\ Shown
  /\ Send(s, Request("remove", {"write"}, items[k], 0))
  /\ UNCHANGED <<loading, loadingMore, failed>>

MarkAllRead(s) ==
  /\ Shown /\ unread > 0
  /\ Send(s, Request("readAll", {"write"}, NoItem, 0))
  /\ UNCHANGED <<loading, loadingMore, failed>>

RemoveAll(s) ==
  /\ Shown /\ items # <<>>
  /\ Send(s, Request("removeAll", {"write"}, NoItem, 0))
  /\ UNCHANGED <<loading, loadingMore, failed>>

----------------------------------------------------------------------------
(* The answers *)

MutUnclampedCount(c) ==
  CASE c.op = "load" -> c.count
    [] c.op = "read" \/ (c.op = "remove" /\ ~c.item.read) -> unread - 1
    [] c.op \in {"readAll", "removeAll"} -> 0
    [] OTHER -> unread

MutCountAfter(c) ==
  CASE c.op = "load" -> c.count
    [] c.op \in {"read", "remove"} -> IF unread > 0 THEN unread - 1 ELSE 0
    [] c.op \in {"readAll", "removeAll"} -> 0
    [] OTHER -> unread

\* The badge: a removed item counts if it was unread when the control was used.
CountAfter(c) ==
  CASE c.op = "load" -> c.count
    [] c.op = "read" \/ (c.op = "remove" /\ ~c.item.read) -> IF unread > 0 THEN unread - 1 ELSE 0
    [] c.op \in {"readAll", "removeAll"} -> 0
    [] OTHER -> unread

MarkedRead(S) == [k \in DOMAIN items |-> IF items[k].id \in S THEN [items[k] EXCEPT !.read = TRUE]
                                                              ELSE items[k]]

\* The items at the positions in K: items.filter.
Filtered(K) == [n \in 1 .. Cardinality(K) |-> items[Nth(K, n)]]

ItemsAfter(c) ==
  CASE c.op = "load"      -> c.page
    [] c.op = "more"      -> items \o c.page
    [] c.op = "read"      -> MarkedRead({c.item.id})
    [] c.op = "readAll"   -> MarkedRead(Ids)
    [] c.op = "remove"    -> Filtered({k \in DOMAIN items : items[k].id # c.item.id})
    [] c.op = "removeAll" -> <<>>

Answer(s) ==
  LET c == calls[s]
  IN  /\ c.op # "none" /\ c.todo = {} /\ c.ok
      /\ items' = ItemsAfter(c)
      /\ unread' = CountAfter(c)
      /\ cursor' = IF c.op \in {"load", "more"} THEN c.next
                   ELSE IF c.op = "removeAll" THEN NoCursor ELSE cursor
      /\ loading' = (loading /\ c.op # "load")
      /\ loadingMore' = (loadingMore /\ c.op # "more")
      /\ seen' = CASE c.op = "load" -> [list |-> c.listAt, count |-> c.countAt]
                   [] c.op = "more" -> [seen EXCEPT !.list = {i \in Ids :
                        IF i < c.after THEN i \in c.listAt ELSE i \in seen.list}]
                   [] OTHER -> seen
      /\ calls' = [calls EXCEPT ![s] = NoCall]
      /\ UNCHANGED <<rows, arrived, failed, tangled, lost>>

\* An error answer, or none at all, before or after the server did its part.
Fail(s) ==
  LET c == calls[s]
  IN  /\ c.op # "none"
      /\ loading' = (loading /\ c.op # "load")
      /\ loadingMore' = (loadingMore /\ c.op # "more")
      /\ failed' = (failed \/ c.op = "load")
      /\ lost' = (lost \/ (c.todo = {} /\ c.ok /\ c.op \notin {"load", "more"}))
      /\ calls' = [calls EXCEPT ![s] = NoCall]
      /\ UNCHANGED <<rows, arrived, items, unread, cursor, seen, tangled>>

Serve(s) == ServeList(s) \/ ServeCount(s) \/ ServeWrite(s)

Use(s) == \/ Load(s) \/ LoadMore(s) \/ MarkAllRead(s) \/ RemoveAll(s)
          \/ \E k \in DOMAIN items : MarkRead(s, k) \/ Remove(s, k)

Next == (\E i \in Ids : Arrive(i)) \/ \E s \in Slots : Serve(s) \/ Use(s) \/ Answer(s) \/ Fail(s)

Spec == Init /\ [][Next]_vars

----------------------------------------------------------------------------
(* Properties *)

\* Types of the rows, of the page's state and of the requests under way.
TypeOK ==
  /\ rows \in [Ids -> {"none", "unread", "read"}] /\ arrived \subseteq Ids
  /\ items \in Seq(Item) /\ unread \in 0..MaxId /\ cursor \in 0..MaxId
  /\ {loading, loadingMore, failed, tangled, lost} \subseteq BOOLEAN
  /\ calls \in [Slots -> Call]
  /\ seen \in [list : SUBSET Ids, count : SUBSET Ids]

\* The page is at rest and no two requests that touch the same rows overlapped
\* since it was loaded.
AtRest == Shown /\ Busy = {} /\ ~tangled

\* Pages are cut by position, not by number: whatever arrives or is removed
\* between two pages, the list shows each row from the newest down to the cursor
\* that had arrived when its page was read, once, in order, and an item shown as
\* read is not unread on the server.  A lost answer only leaves items that are
\* gone, or unread marks that are read.
ListMirrorsRows ==
  LET shown == {items[k].id : k \in DOMAIN items}
      rowsDownTo == {i \in Stored \cap seen.list : i >= cursor}
  IN  AtRest =>
        /\ \A k, l \in DOMAIN items : k < l => items[k].id > items[l].id
        /\ rowsDownTo \subseteq shown
        /\ ~lost => shown = rowsDownTo
        /\ \A k \in DOMAIN items :
             LET r == rows[items[k].id]
             IN  IF items[k].read THEN r # "unread" ELSE ~lost => r = "unread"

\* Notifications the page may show, and count down for, that its badge never counted:
\* they arrived between the two requests of a load, or before a further page.
Uncounted == seen.list \ seen.count

\* The badge is counted down by the page itself, one request at a time: at rest
\* it is the number of unread rows, short of those that arrived since it was
\* read.  A lost answer leaves it too high; it gets too low only by notifications
\* the page shows but never counted.
BadgeCountsUnread ==
  AtRest => /\ unread + Cardinality(Uncounted) >= Unread(seen.count)
            /\ ~lost /\ Uncounted = {} => unread = Unread(seen.count)
=============================================================================
