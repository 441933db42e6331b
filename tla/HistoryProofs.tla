--------------------------- MODULE HistoryProofs ---------------------------
(***************************************************************************)
(* Theorems about MessageHistory, for any messages, limits and bound on    *)
(* time: reading a room's history page by page misses nothing and repeats  *)
(* nothing, whatever is sent and deleted meanwhile.                        *)
(*                                                                         *)
(* The first part is about the query: ranks number the rows below a cursor *)
(* from the newest on (Ranks), so that LIMIT takes a set of the right size *)
(* that nothing left behind comes after (NewestIs), and the row more than  *)
(* a page tells whether there is another (PageOf).                         *)
(*                                                                         *)
(* HInv then says where a client stands between two calls.  Its cursor is  *)
(* the earliest message it was shown, and what it has yet to see is        *)
(* earlier (OnTheWay); this lasts because rows, once seen, keep their      *)
(* created_at and are only ever marked as deleted (RowsMove, KnownKept).   *)
(* That the page a cursor ends was full, and that something was below it,  *)
(* is what makes all pages but the last full ones; being disjoint, they    *)
(* bound the number of calls (Progress).                                   *)
(***************************************************************************)
EXTENDS MessageHistory, FiniteSetTheorems, SequenceTheorems, TLAPS

-----------------------------------------------------------------------------
(***************************************************************************)
(* The order and the pages of it *)

RowsOK == row \in [Messages -> RowType]

(* How many messages of S come after m. *)
Rank(S, m) == Cardinality({x \in S : Earlier(m, x)})

LEMMA TimeOrder ==
  ASSUME RowsOK, NEW m \in Messages, NEW n \in Messages
  PROVE  /\ ~(Earlier(m, n) /\ Earlier(n, m)) /\ ~Earlier(m, m)
         /\ m = n \/ Earlier(m, n) \/ Earlier(n, m)
         /\ \A k \in Messages : Earlier(m, n) /\ Earlier(n, k) => Earlier(m, k)
<1>1. \A k \in Messages : k \in Nat /\ row[k].createdAt \in Nat
  BY HistoryAssumption DEF RowsOK, RowType
<1> QED BY <1>1 DEF Earlier

(* Ranks number the messages of S from 0, from the newest on. *)
LEMMA Ranks ==
  ASSUME RowsOK, NEW S \in SUBSET Messages, IsFiniteSet(S)
  PROVE  /\ Cardinality(S) \in Nat
         /\ \A m \in S : Rank(S, m) \in 0 .. Cardinality(S) - 1
         /\ \A m, n \in S : Earlier(m, n) => Rank(S, n) < Rank(S, m)
         /\ \A k \in 0 .. Cardinality(S) - 1 : \E m \in S : Rank(S, m) = k
<1> DEFINE N == Cardinality(S)
           After(m) == {x \in S : Earlier(m, x)}
<1>1. N \in Nat
  BY FS_CardinalityType
<1>2. ASSUME NEW m \in S
      PROVE  /\ IsFiniteSet(After(m)) /\ Rank(S, m) = Cardinality(After(m))
             /\ Rank(S, m) \in 0 .. N - 1 /\ Rank(S, m) \in Nat
  <2>1. IsFiniteSet(S \ {m}) /\ Cardinality(S \ {m}) = N - 1
    BY FS_RemoveElement
  <2>2. After(m) \in SUBSET (S \ {m})
    BY TimeOrder
  <2>3. IsFiniteSet(After(m)) /\ Cardinality(After(m)) <= N - 1
    BY <2>1, <2>2, FS_Subset
  <2>4. Cardinality(After(m)) \in Nat
    BY <2>3, FS_CardinalityType
  <2> QED BY <1>1, <2>3, <2>4 DEF Rank
<1>3. ASSUME NEW m \in S, NEW n \in S, Earlier(m, n) PROVE Rank(S, n) < Rank(S, m)
  <2>1. After(n) \cup {n} \in SUBSET After(m) /\ n \notin After(n)
    BY <1>3, TimeOrder
  <2>2. Cardinality(After(n) \cup {n}) = Cardinality(After(n)) + 1
    BY <1>2, <2>1, FS_AddElement
  <2>3. Cardinality(After(n) \cup {n}) <= Cardinality(After(m))
    BY <1>2, <2>1, FS_Subset
  <2>4. /\ Rank(S, n) = Cardinality(After(n)) /\ Rank(S, n) \in Nat
        /\ Rank(S, m) = Cardinality(After(m)) /\ Rank(S, m) \in Nat
    BY <1>2
  <2> HIDE DEF After
  <2> QED BY <2>1, <2>2, <2>3, <2>4
<1>4. \A k \in 0 .. N - 1 : \E m \in S : Rank(S, m) = k
  <2> DEFINE f == [m \in S |-> Rank(S, m)]
             T == 0 .. N - 1
  <2>1. f \in [S -> T]
    BY <1>2
  <2>2. \A m, n \in S : f[m] = f[n] => m = n
    <3> SUFFICES ASSUME NEW m \in S, NEW n \in S, m # n PROVE f[m] # f[n]
      OBVIOUS
    <3>1. Earlier(m, n) \/ Earlier(n, m)
      BY TimeOrder
    <3>2. Rank(S, m) \in Nat /\ Rank(S, n) \in Nat
      BY <1>2
    <3> QED BY <1>3, <3>1, <3>2
  <2>3. f \in Injection(S, T)
    BY <2>1, <2>2 DEF Injection, IsInjective
  <2>4. IsFiniteSet(T) /\ Cardinality(T) = N
    <3>1. 0 \in Int /\ N - 1 \in Int /\ ((N - 1) - 0) + 1 = N /\ (0 > N - 1 => N = 0)
      BY <1>1
    <3>2. /\ IsFiniteSet(0 .. N - 1)
          /\ Cardinality(0 .. N - 1) = IF 0 > N - 1 THEN 0 ELSE ((N - 1) - 0) + 1
      BY <3>1, FS_Interval
    <3> QED BY <3>1, <3>2
  <2>5. f \in Surjection(S, T)
    BY <2>3, <2>4, FS_Injection
  <2> QED BY <2>5 DEF Surjection
<1> QED BY <1>1, <1>2, <1>3, <1>4

LEMMA NewestIs ==
  ASSUME RowsOK, NEW S \in SUBSET Messages, IsFiniteSet(S), NEW n \in Nat
  PROVE  /\ Newest(S, n) \subseteq S /\ IsFiniteSet(Newest(S, n))
         /\ Cardinality(Newest(S, n)) = IF Cardinality(S) <= n THEN Cardinality(S) ELSE n
         /\ Cardinality(S) <= n => Newest(S, n) = S
         /\ \A m \in S \ Newest(S, n), p \in Newest(S, n) : Earlier(m, p)
<1> DEFINE N == Cardinality(S)
           W == Newest(S, n)
<1>1. W = {m \in S : Rank(S, m) < n}
  BY DEF Newest, Rank
<1>2. W \in SUBSET S /\ IsFiniteSet(W)
  BY <1>1, FS_Subset
<1>3. N \in Nat /\ \A m \in S : Rank(S, m) \in 0 .. N - 1
  BY Ranks
<1>4. N <= n => W = S
  BY <1>1, <1>3
<1>5. ASSUME NEW m \in S \ W, NEW p \in W PROVE Earlier(m, p)
  <2>1. m # p /\ ~(Rank(S, m) < Rank(S, p))
    BY <1>1, <1>3, <1>5
  <2> QED BY <1>1, <2>1, Ranks, TimeOrder
<1>6. ASSUME n < N PROVE Cardinality(W) = n
  <2> DEFINE f == [m \in W |-> Rank(S, m)]
             T == 0 .. n - 1
  <2>1. f \in [W -> T]
    BY <1>1, <1>3
  <2>2. \A m, p \in W : f[m] = f[p] => m = p
    <3> SUFFICES ASSUME NEW m \in W, NEW p \in W, m # p PROVE f[m] # f[p]
      OBVIOUS
    <3>1. Earlier(m, p) \/ Earlier(p, m)
      BY <1>1, TimeOrder
    <3> QED BY <1>1, <1>3, <3>1, Ranks
  <2>3. f \in Injection(W, T)
    BY <2>1, <2>2 DEF Injection, IsInjective
  <2>4. IsFiniteSet(T) /\ Cardinality(T) = n
    BY FS_Interval
  <2>5. \A k \in T : \E m \in W : f[m] = k
    <3> TAKE k \in T
    <3>1. PICK m \in S : Rank(S, m) = k
      BY <1>3, <1>6, Ranks
    <3> QED BY <1>1, <3>1
  <2>6. f \in Surjection(W, T)
    BY <2>1, <2>5 DEF Surjection
  <2> QED BY <2>3, <2>4, <2>6, FS_Injection
<1> QED BY <1>2, <1>3, <1>4, <1>5, <1>6

LEMMA LastIs ==
  ASSUME RowsOK, NEW S \in SUBSET Messages, IsFiniteSet(S), S # {}
  PROVE  Last(S) \in S /\ \A x \in S \ {Last(S)} : Earlier(Last(S), x)
<1>1. Cardinality(S) \in Nat \ {0}
  BY FS_CardinalityType, FS_EmptySet
<1>2. PICK m \in S : Rank(S, m) = Cardinality(S) - 1
  BY <1>1, Ranks
<1>3. IsFiniteSet(S \ {m}) /\ Cardinality(S \ {m}) = Cardinality(S) - 1
  BY FS_RemoveElement
<1>4. {x \in S : Earlier(m, x)} \in SUBSET (S \ {m})
  BY TimeOrder
<1>5. {x \in S : Earlier(m, x)} = S \ {m}
  BY <1>2, <1>3, <1>4, FS_Subset DEF Rank
<1>6. \A x \in S \ {m} : Earlier(m, x)
  BY <1>5
<1> QED BY <1>6 DEF Last

-----------------------------------------------------------------------------
(***************************************************************************)
(* The inductive invariant *)

Used == {m \in Messages : row[m].state # "unused"}
Kept == {m \in Messages : row[m].state \in {"sent", "deleted"}}
SomeDeleted == \E m \in Messages : row[m].state = "deleted"

(* The client and its cursor. *)
ReaderOK ==
  /\ at # "refused"
  /\ at = "idle" => pages = <<>> /\ there = {}
  /\ at \in {"idle", "done"} => cursor = None
  /\ at = "check" => cursor # None
  /\ at = "query" => (cursor = None <=> pages = <<>>)

(* What the client knows has a row, and rows keep their created_at. *)
KnownKept == there \cup Shown \subseteq Kept

(* The cursor is the earliest message shown; what is still to be shown is   *)
(* before it, something is unless messages were deleted, and the page that  *)
(* ended with it was full.                                                  *)
OnTheWay ==
  cursor # None =>
    /\ cursor \in Shown
    /\ \A m \in Shown \ {cursor} : Earlier(cursor, m)
    /\ \A m \in there \ Shown : row[m].state = "deleted" \/ Earlier(m, cursor)
    /\ Below(cursor) # {} \/ SomeDeleted
    /\ Cardinality(pages[Len(pages)].shown) = pages[Len(pages)].limit

HInv ==
  /\ TypeOK
  /\ IsFiniteSet(Used)
  /\ ReaderOK
  /\ KnownKept
  /\ OnTheWay
  /\ NothingMissed
  /\ PagesFit

-----------------------------------------------------------------------------
(***************************************************************************)
(* One page                                                                *)
(***************************************************************************)

(* What GetPage reads of the messages B below the cursor: one row more than *)
(* it shows.                                                                *)
LEMMA PageOf ==
  ASSUME RowsOK, NEW B \in SUBSET Messages, IsFiniteSet(B), NEW limit \in Nat \ {0}
  PROVE  LET rows == Newest(B, limit + 1)
             page == Newest(rows, limit)
         IN /\ page \subseteq B /\ IsFiniteSet(page)
            /\ Cardinality(page) \in Nat /\ Cardinality(page) <= limit
            /\ B # {} => page # {}
            /\ \A m \in B \ page, p \in page : Earlier(m, p)
            /\ Cardinality(rows) > limit => Cardinality(page) = limit /\ B \ page # {}
            /\ ~(Cardinality(rows) > limit) => page = B
<1> DEFINE rows == Newest(B, limit + 1)
           page == Newest(rows, limit)
<1>1. /\ rows \subseteq B /\ IsFiniteSet(rows)
      /\ Cardinality(rows) = IF Cardinality(B) <= limit + 1 THEN Cardinality(B) ELSE limit + 1
      /\ Cardinality(B) <= limit + 1 => rows = B
      /\ \A m \in B \ rows, p \in rows : Earlier(m, p)
  BY NewestIs
<1>2. /\ page \subseteq rows /\ IsFiniteSet(page)
      /\ Cardinality(page) = IF Cardinality(rows) <= limit THEN Cardinality(rows) ELSE limit
      /\ Cardinality(rows) <= limit => page = rows
      /\ \A m \in rows \ page, p \in page : Earlier(m, p)
  BY <1>1, NewestIs
<1> HIDE DEF rows, page
<1>3. Cardinality(B) \in Nat /\ Cardinality(rows) \in Nat /\ Cardinality(page) \in Nat
  BY <1>1, <1>2, FS_CardinalityType
<1>4. Cardinality(page) <= limit
  BY <1>2, <1>3
<1>5. B # {} => page # {}
  <2>1. B # {} => Cardinality(B) # 0
    BY FS_EmptySet
  <2>2. page = {} => Cardinality(page) = 0
    BY FS_EmptySet
  <2> QED BY <1>1, <1>2, <1>3, <2>1, <2>2
<1>6. \A m \in B \ page, p \in page : Earlier(m, p)
  BY <1>1, <1>2
<1>7. Cardinality(rows) > limit => Cardinality(page) = limit /\ B \ page # {}
  BY <1>1, <1>2, <1>3
<1>8. ~(Cardinality(rows) > limit) => page = B
  BY <1>1, <1>2, <1>3
<1> QED BY <1>1, <1>2, <1>3, <1>4, <1>5, <1>6, <1>7, <1>8 DEF rows, page

LEMMA PagesGrow ==
  ASSUME TypeOK, NEW p \in [limit : Limits, shown : SUBSET Messages], pages' = Append(pages, p)
  PROVE  /\ Len(pages) \in Nat /\ DOMAIN pages = 1 .. Len(pages)
         /\ DOMAIN pages' = 1 .. Len(pages) + 1 /\ Len(pages') = Len(pages) + 1
         /\ pages'[Len(pages) + 1] = p
         /\ \A i \in 1 .. Len(pages) : pages'[i] = pages[i]
         /\ Shown' = Shown \cup p.shown
         /\ pages' \in Seq([limit : Limits, shown : SUBSET Messages])
<1> DEFINE PageType == [limit : Limits, shown : SUBSET Messages]
<1>1. pages \in Seq(PageType) /\ p \in PageType
  BY DEF TypeOK
<1> HIDE DEF PageType
<1>2. /\ Len(pages) \in Nat /\ DOMAIN pages = 1 .. Len(pages)
      /\ DOMAIN pages' = 1 .. Len(pages) + 1 /\ Len(pages') = Len(pages) + 1
      /\ pages'[Len(pages) + 1] = p
      /\ \A i \in 1 .. Len(pages) : pages'[i] = pages[i]
      /\ pages' \in Seq(PageType)
  BY <1>1, AppendProperties
<1>3. \A i \in DOMAIN pages' : i \in DOMAIN pages \/ i = Len(pages) + 1
  BY <1>2
<1>4. Shown' \subseteq Shown \cup p.shown
  BY <1>2, <1>3 DEF Shown
<1>5. Shown \subseteq Shown' /\ p.shown \subseteq Shown'
  BY <1>2 DEF Shown
<1> QED BY <1>2, <1>4, <1>5 DEF PageType

-----------------------------------------------------------------------------
(***************************************************************************)
(* The steps of the client                                                 *)
(***************************************************************************)

LEMMA InitHistory == Init => HInv
<1> SUFFICES ASSUME Init PROVE HInv
  OBVIOUS
<1>1. TypeOK
  BY HistoryAssumption DEF Init, TypeOK, RowType
<1>2. Used = {} /\ Shown = {}
  BY DEF Init, Used, Shown
<1>3. IsFiniteSet(Used)
  BY <1>2, FS_EmptySet
<1> QED BY <1>1, <1>2, <1>3 DEF Init, HInv, ReaderOK, KnownKept, OnTheWay, NothingMissed, PagesFit,
           PagesGoBack, PagesFull

LEMMA FiniteBelow ==
  ASSUME HInv
  PROVE  Below(cursor) \in SUBSET Messages /\ IsFiniteSet(Below(cursor))
<1>1. Below(cursor) \in SUBSET Used
  BY DEF Below, Visible, Used
<1> QED BY <1>1, FS_Subset DEF HInv, Used

LEMMA SameRows ==
  ASSUME UNCHANGED row
  PROVE  /\ Used' = Used /\ Kept' = Kept /\ Visible' = Visible /\ SomeDeleted' = SomeDeleted
         /\ \A m, n \in Messages : Earlier(m, n)' = Earlier(m, n)
         /\ \A m : Below(m)' = Below(m)
BY DEF Used, Kept, Visible, SomeDeleted, Earlier, Below

LEMMA StartKeeps ==
  ASSUME HInv, StartReading
  PROVE  HInv'
<1> USE DEF HInv, StartReading
<1>1. TypeOK'
  BY DEF TypeOK, Visible
<1>2. Shown' = Shown /\ pages = <<>> /\ cursor = None
  BY DEF Shown, ReaderOK
<1>3. Shown = {}
  BY <1>2 DEF Shown
<1>4. KnownKept'
  BY <1>2, <1>3, SameRows DEF KnownKept, Visible, Kept
<1>5. PagesFit'
  BY <1>2 DEF PagesFit, PagesGoBack, PagesFull
<1> QED BY <1>1, <1>2, <1>4, <1>5, SameRows DEF ReaderOK, OnTheWay, NothingMissed

LEMMA CheckKeeps ==
  ASSUME HInv, CheckCursor
  PROVE  HInv'
<1> USE DEF HInv, CheckCursor
<1>1. cursor # None /\ cursor \in Shown
  BY DEF ReaderOK, OnTheWay
<1>2. cursor \in Kept
  BY <1>1 DEF KnownKept
<1>3. at' = "query"
  BY <1>2 DEF CursorExists, Kept
<1>4. pages # <<>>
  BY <1>1 DEF Shown
<1>5. TypeOK'
  BY <1>3 DEF TypeOK
<1>6. Shown' = Shown
  BY DEF Shown
<1>7. PagesFit'
  BY <1>3, SameRows DEF PagesFit, PagesGoBack, PagesFull, Earlier
<1>8. OnTheWay'
  BY <1>6, SameRows DEF OnTheWay, Earlier
<1>9. KnownKept'
  BY <1>6, SameRows DEF KnownKept
<1> QED BY <1>1, <1>3, <1>4, <1>5, <1>7, <1>8, <1>9, SameRows DEF ReaderOK, NothingMissed

LEMMA GetKeeps ==
  ASSUME HInv, NEW limit \in Limits, GetPage(limit)
  PROVE  HInv'
<1> DEFINE B == Below(cursor)
           rows == Newest(B, limit + 1)
           page == Newest(rows, limit)
           N == Len(pages)
           more == Cardinality(rows) > limit
<1>0. TypeOK /\ RowsOK /\ limit \in Nat \ {0}
  BY HistoryAssumption DEF HInv, TypeOK, RowsOK
<1>1. /\ at = "query" /\ UNCHANGED <<now, row, there>>
      /\ pages' = Append(pages, [limit |-> limit, shown |-> page])
      /\ \/ more /\ at' = "check" /\ cursor' = Last(page)
         \/ ~more /\ at' = "done" /\ cursor' = None
  BY DEF GetPage, TurnTo
<1>2. B \in SUBSET Messages /\ IsFiniteSet(B)
  BY FiniteBelow
<1>3. /\ page \subseteq B /\ IsFiniteSet(page)
      /\ Cardinality(page) \in Nat /\ Cardinality(page) <= limit
      /\ B # {} => page # {}
      /\ \A m \in B \ page, p \in page : Earlier(m, p)
      /\ more => Cardinality(page) = limit /\ B \ page # {}
      /\ ~more => page = B
  BY <1>0, <1>2, PageOf
<1>4. ASSUME NEW m \in B
      PROVE  m \in Visible /\ m \in Kept /\ (cursor # None => Earlier(m, cursor))
  BY <1>4 DEF Below, Visible, Kept
<1>5. page # {} => Last(page) \in page /\ \A x \in page \ {Last(page)} : Earlier(Last(page), x)
  BY <1>0, <1>2, <1>3, LastIs
<1>6. more => page # {}
  BY <1>3
<1> HIDE DEF page, rows, B
<1>7. /\ N \in Nat /\ DOMAIN pages = 1 .. N /\ DOMAIN pages' = 1 .. N + 1 /\ Len(pages') = N + 1
      /\ pages'[N + 1] = [limit |-> limit, shown |-> page]
      /\ \A i \in 1 .. N : pages'[i] = pages[i]
      /\ Shown' = Shown \cup page
      /\ pages' \in Seq([limit : Limits, shown : SUBSET Messages])
  <2>1. [limit |-> limit, shown |-> page] \in [limit : Limits, shown : SUBSET Messages]
    BY <1>2, <1>3
  <2> QED BY <1>0, <1>1, <2>1, PagesGrow
<1>8. TypeOK'
  <2>1. cursor' \in Messages \cup {None}
    BY <1>1, <1>2, <1>3, <1>5, <1>6
  <2> QED BY <1>0, <1>1, <1>7, <2>1 DEF TypeOK
<1>9. cursor = None <=> N = 0
  BY <1>0, <1>1, EmptySeq DEF HInv, ReaderOK, TypeOK
(* What is on this page is before what is on the others. *)
<1>10. ASSUME NEW m \in Shown, NEW n \in page PROVE Earlier(n, m)
  <2>1. cursor # None
    BY <1>7, <1>9 DEF Shown
  <2>2. Earlier(n, cursor) /\ cursor \in Messages /\ n \in Messages /\ m \in Messages
    BY <1>0, <1>2, <1>3, <1>4, <2>1 DEF TypeOK, HInv, KnownKept, Kept
  <2>3. m = cursor \/ Earlier(cursor, m)
    BY <2>1 DEF HInv, OnTheWay
  <2> QED BY <1>0, <2>2, <2>3, TimeOrder
<1>11. KnownKept'
  <2>1. page \subseteq Kept
    BY <1>3, <1>4
  <2> QED BY <1>1, <1>7, <2>1, SameRows DEF HInv, KnownKept
<1>12. ReaderOK'
  <2>1. more => Last(page) \in Messages
    BY <1>2, <1>3, <1>5, <1>6
  <2>2. \A m \in Messages : m # None
    BY HistoryAssumption DEF None
  <2> QED BY <1>1, <2>1, <2>2 DEF ReaderOK
(* What the room showed at the start is on a page, deleted, or still below. *)
<1>13. \A m \in there \ Shown : row[m].state = "deleted" \/ m \in B
  <2> SUFFICES ASSUME NEW m \in there \ Shown, row[m].state # "deleted"
               PROVE  m \in B
    OBVIOUS
  <2>1. m \in Visible
    BY DEF HInv, KnownKept, Kept, Visible
  <2>2. cursor # None => Earlier(m, cursor)
    BY DEF HInv, OnTheWay
  <2> QED BY <2>1, <2>2 DEF B, Below
<1>14. OnTheWay'
  <2> SUFFICES ASSUME more
               PROVE  /\ Last(page) \in Shown'
                      /\ \A m \in Shown' \ {Last(page)} : Earlier(Last(page), m)
                      /\ \A m \in there \ Shown' : row[m].state = "deleted" \/ Earlier(m, Last(page))
                      /\ Below(Last(page)) # {}
                      /\ Cardinality(pages'[N + 1].shown) = pages'[N + 1].limit
    BY <1>1, <1>7, SameRows DEF OnTheWay, Earlier, Below, Visible
  <2>1. Last(page) \in page /\ \A x \in page \ {Last(page)} : Earlier(Last(page), x)
    BY <1>5, <1>6
  <2>2. \A m \in Shown' \ {Last(page)} : Earlier(Last(page), m)
    BY <1>7, <1>10, <2>1
  <2>3. \A m \in B \ page : Earlier(m, Last(page))
    BY <1>3, <2>1
  <2>4. \A m \in there \ Shown' : row[m].state = "deleted" \/ Earlier(m, Last(page))
    BY <1>7, <1>13, <2>3
  <2>5. PICK m \in B : m \notin page
    BY <1>3
  <2>6. m \in Below(Last(page))
    BY <1>4, <2>3, <2>5 DEF Below
  <2> QED BY <1>3, <1>7, <2>1, <2>2, <2>4, <2>6
<1>15. NothingMissed'
  BY <1>1, <1>3, <1>7, <1>13 DEF NothingMissed
<1>16. PagesGoBack'
  <2> SUFFICES ASSUME NEW i \in DOMAIN pages', NEW j \in DOMAIN pages', i < j,
                      NEW m \in pages'[i].shown, NEW n \in pages'[j].shown
               PROVE  Earlier(n, m)
    BY <1>1, SameRows DEF PagesGoBack, Earlier
  <2>1. i \in 1 .. N /\ pages'[i] = pages[i]
    BY <1>7
  <2>2. CASE j = N + 1
    <3>1. m \in Shown /\ n \in page
      BY <1>7, <2>1, <2>2 DEF Shown
    <3> QED BY <1>10, <3>1
  <2>3. CASE j # N + 1
    <3>1. j \in 1 .. N /\ pages'[j] = pages[j]
      BY <1>7, <2>3
    <3> QED BY <1>7, <2>1, <3>1 DEF HInv, PagesFit, PagesGoBack
  <2> QED BY <2>2, <2>3
<1>17. PagesFull'
  <2>1. ASSUME NEW i \in DOMAIN pages'
        PROVE  /\ Cardinality(pages'[i].shown) <= pages'[i].limit
               /\ i < Len(pages') => Cardinality(pages'[i].shown) = pages'[i].limit
               /\ i > 1 => pages'[i].shown # {} \/ SomeDeleted
    <3>1. CASE i = N + 1
      <4>1. i > 1 => page # {} \/ SomeDeleted
        BY <1>3, <1>7, <1>9, <3>1 DEF HInv, OnTheWay, B
      <4> QED BY <1>3, <1>7, <3>1, <4>1
    <3>2. CASE i # N + 1
      <4>1. i \in 1 .. N /\ pages'[i] = pages[i]
        BY <1>7, <3>2
      <4>2. i < N => Cardinality(pages[i].shown) = pages[i].limit
        BY <1>7, <4>1 DEF HInv, PagesFit, PagesFull
      <4>3. i = N => Cardinality(pages[i].shown) = pages[i].limit
        BY <1>7, <1>9, <4>1 DEF HInv, OnTheWay
      <4>4. /\ Cardinality(pages[i].shown) <= pages[i].limit
            /\ i > 1 => pages[i].shown # {} \/ SomeDeleted
        BY <1>7, <4>1 DEF HInv, PagesFit, PagesFull, SomeDeleted
      <4> QED BY <1>7, <4>1, <4>2, <4>3, <4>4
    <3> QED BY <3>1, <3>2
  <2> QED BY <1>1, <2>1, <1>7 DEF PagesFull, SomeDeleted
<1> QED BY <1>1, <1>8, <1>11, <1>12, <1>14, <1>15, <1>16, <1>17, SameRows DEF HInv, PagesFit

-----------------------------------------------------------------------------
(***************************************************************************)
(* The steps of the senders                                                *)
(***************************************************************************)

(* A row that can be seen keeps its created_at, and goes by deletion only.  *)
RowsMove ==
  /\ \A m \in Messages : m \in Kept => m \in Kept' /\ row'[m].createdAt = row[m].createdAt
  /\ \A m \in Messages : row[m].state = "deleted" => row'[m].state = "deleted"

Senders == ClockTicks \/ \E m \in Messages : InsertStarts(m) \/ InsertEnds(m) \/ SoftDelete(m)

LEMMA SendersMove ==
  ASSUME HInv, Senders
  PROVE  RowsMove /\ TypeOK' /\ IsFiniteSet(Used') /\ UNCHANGED reader
<1>0. TypeOK /\ IsFiniteSet(Used)
  BY DEF HInv
<1>1. CASE ClockTicks
  <2>1. now' \in 0 .. MaxTime
    BY <1>0, <1>1, HistoryAssumption DEF ClockTicks, TypeOK
  <2> QED BY <1>0, <1>1, <2>1, SameRows DEF ClockTicks, RowsMove, TypeOK, reader
<1>2. ASSUME NEW m \in Messages, InsertStarts(m)
      PROVE  RowsMove /\ TypeOK' /\ IsFiniteSet(Used') /\ UNCHANGED reader
  <2> DEFINE new == [state |-> "inserting", createdAt |-> now]
  <2>1. new \in RowType
    BY <1>0 DEF TypeOK, RowType
  <2>2. row' = [row EXCEPT ![m] = new] /\ UNCHANGED <<now, reader>> /\ row[m].state = "unused"
    BY <1>2 DEF InsertStarts
  <2>3. Used' \subseteq Used \cup {m}
    BY <1>0, <2>2 DEF Used, TypeOK
  <2>4. IsFiniteSet(Used')
    BY <1>0, <2>3, FS_AddElement, FS_Subset
  <2>5. RowsMove
    BY <1>0, <2>2 DEF RowsMove, Kept, TypeOK
  <2>6. TypeOK'
    BY <1>0, <2>1, <2>2 DEF TypeOK, reader
  <2> QED BY <2>2, <2>4, <2>5, <2>6
<1>3. ASSUME NEW m \in Messages, NEW s \in {"sent", "deleted"},
             row' = [row EXCEPT ![m].state = s], UNCHANGED <<now, reader>>,
             \/ row[m].state = "inserting"
             \/ row[m].state = "sent" /\ s = "deleted"
      PROVE  RowsMove /\ TypeOK' /\ IsFiniteSet(Used') /\ UNCHANGED reader
  <2>1. row'[m].state = s /\ row'[m].createdAt = row[m].createdAt /\ row'[m] \in RowType
    BY <1>0, <1>3 DEF TypeOK, RowType
  <2>2. row' \in [Messages -> RowType] /\ \A n \in Messages \ {m} : row'[n] = row[n]
    BY <1>0, <1>3, <2>1 DEF TypeOK
  <2>3. Used' = Used
    BY <1>0, <1>3, <2>1, <2>2 DEF Used
  <2>4. RowsMove
    BY <1>3, <2>1, <2>2 DEF RowsMove, Kept
  <2> QED BY <1>0, <1>3, <2>2, <2>3, <2>4 DEF TypeOK, reader
<1> QED BY <1>1, <1>2, <1>3 DEF Senders, InsertEnds, SoftDelete

LEMMA SendersKeep ==
  ASSUME HInv, Senders
  PROVE  HInv'
<1>0. RowsMove /\ TypeOK' /\ IsFiniteSet(Used') /\ UNCHANGED reader
  BY SendersMove
<1>1. \A m, n \in Kept : Earlier(m, n)' = Earlier(m, n)
  BY <1>0 DEF RowsMove, Earlier, Kept
<1>2. SomeDeleted => SomeDeleted'
  BY <1>0 DEF RowsMove, SomeDeleted
<1>3. UNCHANGED <<at, cursor, pages, there>> /\ Shown' = Shown
  BY <1>0 DEF reader, Shown
<1>4. \A m \in Shown \cup there : m \in Messages /\ m \in Kept /\ m \in Kept'
  BY <1>0 DEF HInv, KnownKept, RowsMove, Kept
<1>5. KnownKept'
  BY <1>3, <1>4 DEF KnownKept
<1>6. OnTheWay'
  <2>1. CASE cursor = None
    BY <1>3, <2>1 DEF OnTheWay
  <2>2. ASSUME NEW c, c = cursor, c # None
        PROVE  /\ c \in Shown
               /\ \A m \in Shown \ {c} : Earlier(c, m)'
               /\ \A m \in there \ Shown : row'[m].state = "deleted" \/ Earlier(m, c)'
               /\ Below(c)' # {} \/ SomeDeleted'
               /\ Cardinality(pages[Len(pages)].shown) = pages[Len(pages)].limit
    <3>1. /\ c \in Shown /\ c \in Kept
          /\ \A m \in Shown \ {c} : Earlier(c, m)
          /\ \A m \in there \ Shown : row[m].state = "deleted" \/ Earlier(m, c)
          /\ Below(c) # {} \/ SomeDeleted
          /\ Cardinality(pages[Len(pages)].shown) = pages[Len(pages)].limit
      BY <1>4, <2>2 DEF HInv, OnTheWay
    <3>2. \A m \in Shown \ {c} : Earlier(c, m)'
      BY <1>1, <1>4, <3>1
    <3>3. \A m \in there \ Shown : row'[m].state = "deleted" \/ Earlier(m, c)'
      BY <1>0, <1>1, <1>4, <3>1 DEF RowsMove
    <3>4. ASSUME NEW m \in Below(c), ~SomeDeleted' PROVE m \in Below(c)'
      <4>1. m \in Messages /\ m \in Kept /\ Earlier(m, c)
        BY <2>2, <3>4 DEF Below, Visible, Kept
      <4>2. m \in Kept' /\ Earlier(m, c)'
        BY <1>0, <1>1, <3>1, <4>1 DEF RowsMove
      <4>3. row'[m].state = "sent"
        BY <3>4, <4>1, <4>2 DEF Kept, SomeDeleted
      <4> QED BY <4>1, <4>2, <4>3 DEF Below, Visible
    <3> QED BY <1>2, <3>1, <3>2, <3>3, <3>4
  <2> QED BY <1>3, <2>1, <2>2 DEF OnTheWay
<1>7. NothingMissed'
  BY <1>0, <1>3, <1>4 DEF HInv, NothingMissed, RowsMove
<1>8. PagesGoBack'
  <2> SUFFICES ASSUME NEW i \in DOMAIN pages, NEW j \in DOMAIN pages, i < j,
                      NEW m \in pages[i].shown, NEW n \in pages[j].shown
               PROVE  Earlier(n, m)'
    BY <1>3 DEF PagesGoBack
  <2>1. m \in Kept /\ n \in Kept
    BY <1>4 DEF Shown
  <2> QED BY <1>1, <2>1 DEF HInv, PagesFit, PagesGoBack
<1>9. PagesFull'
  BY <1>2, <1>3 DEF HInv, PagesFit, PagesFull, SomeDeleted
<1>10. ReaderOK'
  BY <1>3 DEF HInv, ReaderOK
<1> QED BY <1>0, <1>5, <1>6, <1>7, <1>8, <1>9, <1>10 DEF HInv, PagesFit

-----------------------------------------------------------------------------

LEMMA StepHistory == HInv /\ [Next]_vars => HInv'
<1> SUFFICES ASSUME HInv, [Next]_vars PROVE HInv'
  OBVIOUS
<1>1. CASE UNCHANGED vars
  <2>1. UNCHANGED <<now, row, at, cursor, pages, there>> /\ Shown' = Shown
    BY <1>1 DEF vars, Shown
  <2>2. OnTheWay'
    BY <2>1, SameRows DEF HInv, OnTheWay, Earlier
  <2>3. PagesFit'
    BY <2>1 DEF HInv, PagesFit, PagesGoBack, PagesFull, Earlier
  <2> QED BY <2>1, <2>2, <2>3, SameRows DEF HInv, TypeOK, ReaderOK, KnownKept, NothingMissed
<1> QED BY <1>1, SendersKeep, StartKeeps, CheckKeeps, GetKeeps DEF Next, Reads, Senders

(* How many calls a client makes: each page that is not the last shows a    *)
(* message that was on none before it.                                      *)
Progress == Len(pages) <= Cardinality(Shown) + (IF at = "done" THEN 1 ELSE 0)

LEMMA ShownFinite ==
  ASSUME HInv
  PROVE  IsFiniteSet(Shown) /\ Cardinality(Shown) \in Nat /\ Len(pages) \in Nat
<1>1. Shown \subseteq Used
  BY DEF HInv, KnownKept, Kept, Used
<1> QED BY <1>1, FS_Subset, FS_CardinalityType DEF HInv, TypeOK

LEMMA GetProgress ==
  ASSUME HInv, HInv', Progress, NEW limit \in Limits, GetPage(limit)
  PROVE  Progress'
<1> DEFINE N == Len(pages)
<1>1. PICK p \in [limit : Limits, shown : SUBSET Messages] : pages' = Append(pages, p)
  <2>1. PICK page : pages' = Append(pages, [limit |-> limit, shown |-> page])
    BY DEF GetPage, TurnTo
  <2>2. page \in SUBSET Messages
    <3>1. Len(pages') = N + 1 /\ pages'[N + 1] = [limit |-> limit, shown |-> page]
      BY <2>1 DEF HInv, TypeOK
    <3>2. pages'[N + 1] \in [limit : Limits, shown : SUBSET Messages]
      BY <3>1, ShownFinite DEF HInv, TypeOK
    <3> QED BY <3>1, <3>2
  <2> QED BY <2>1, <2>2
<1>2. /\ N \in Nat /\ DOMAIN pages = 1 .. N /\ DOMAIN pages' = 1 .. N + 1
      /\ Len(pages') = N + 1 /\ pages'[N + 1] = p
      /\ \A i \in 1 .. N : pages'[i] = pages[i]
      /\ Shown' = Shown \cup p.shown
  BY <1>1, PagesGrow DEF HInv
<1>3. at = "query" /\ (at' = "done" \/ at' = "check")
  BY DEF GetPage, TurnTo
<1>4. /\ IsFiniteSet(Shown) /\ Cardinality(Shown) \in Nat
      /\ IsFiniteSet(Shown') /\ Cardinality(Shown') \in Nat
  <2>1. p.shown \subseteq Used'
    BY <1>2 DEF HInv, KnownKept, Kept, Used
  <2>2. IsFiniteSet(p.shown)
    BY <2>1, FS_Subset DEF HInv
  <2> QED BY <1>2, <2>2, ShownFinite, FS_Union, FS_CardinalityType
<1>5. N <= Cardinality(Shown)
  BY <1>3, <1>4 DEF Progress
<1> HIDE DEF N
<1>6. CASE at' = "done"
  <2>1. Cardinality(Shown) <= Cardinality(Shown')
    BY <1>2, <1>4, FS_Subset
  <2> QED BY <1>2, <1>4, <1>5, <1>6, <2>1 DEF Progress
<1>7. CASE at' = "check"
  <2>1. p.shown # {}
    <3>1. Cardinality(p.shown) = p.limit
      BY <1>2, <1>7 DEF HInv, ReaderOK, OnTheWay
    <3>2. p.limit \in Nat \ {0}
      BY HistoryAssumption
    <3> QED BY <3>1, <3>2, FS_EmptySet
  <2>2. PICK n \in p.shown : TRUE
    BY <2>1
  <2>3. n \notin Shown
    <3> SUFFICES ASSUME n \in Shown PROVE FALSE
      OBVIOUS
    <3>1. PICK i \in 1 .. N : n \in pages[i].shown
      BY <1>2 DEF Shown
    <3>2. /\ i \in DOMAIN pages' /\ N + 1 \in DOMAIN pages' /\ i < N + 1
          /\ n \in pages'[i].shown /\ n \in pages'[N + 1].shown
      BY <1>2, <2>2, <3>1
    <3>3. Earlier(n, n)'
      BY <3>2 DEF HInv, PagesFit, PagesGoBack
    <3>4. n \in Nat /\ row'[n].createdAt \in Nat
      <4>1. n \in Messages /\ row' \in [Messages -> RowType]
        BY DEF HInv, TypeOK
      <4> QED BY <4>1, HistoryAssumption DEF RowType
    <3> QED BY <3>3, <3>4 DEF Earlier
  <2>4. Cardinality(Shown \cup {n}) = Cardinality(Shown) + 1
    BY <1>4, <2>3, FS_AddElement
  <2>5. Cardinality(Shown \cup {n}) <= Cardinality(Shown')
    BY <1>2, <1>4, <2>2, FS_Subset
  <2>6. Cardinality(Shown) + 1 <= Cardinality(Shown')
    BY <2>4, <2>5
  <2> QED BY <1>2, <1>4, <1>5, <1>7, <2>6 DEF Progress
<1> QED BY <1>3, <1>6, <1>7

LEMMA StepProgress ==
  ASSUME HInv, HInv', Progress, [Next]_vars
  PROVE  Progress'
<1>1. ASSUME pages' = pages, at = "done" => at' = "done" PROVE Progress'
  <2>1. Shown' = Shown
    BY <1>1 DEF Shown
  <2> QED BY <1>1, <2>1, ShownFinite DEF Progress
<1>2. CASE \E limit \in Limits : GetPage(limit)
  BY <1>2, GetProgress
<1>3. CASE Senders \/ UNCHANGED vars
  <2>1. pages' = pages /\ at' = at
    BY <1>3 DEF Senders, ClockTicks, InsertStarts, InsertEnds, SoftDelete, reader, vars
  <2> QED BY <1>1, <2>1
<1>4. CASE StartReading \/ CheckCursor
  <2>1. pages' = pages /\ at # "done"
    BY <1>4 DEF StartReading, CheckCursor
  <2> QED BY <1>1, <2>1
<1> QED BY <1>2, <1>3, <1>4 DEF Next, Reads, Senders

(* The types of the rows, the cursor and the pages (GetMessagesByRoomID).   *)
THEOREM HistoryTypes == Spec => []TypeOK
<1>1. HInv => TypeOK
  BY DEF HInv
<1> QED BY <1>1, InitHistory, StepHistory, PTL DEF Spec

(* Whatever is sent and deleted between two GetMessages calls, a client     *)
(* that follows next_cursor to the last page was shown every message that   *)
(* was there when it began, unless it has been deleted.                     *)
THEOREM HistoryNothingMissed == Spec => []NothingMissed
<1>1. HInv => NothingMissed
  BY DEF HInv
<1> QED BY <1>1, InitHistory, StepHistory, PTL DEF Spec

(* The pages of GetMessages go back in time, share no message, and each is  *)
(* as long as it was asked to be unless it is the last; a cursor that was   *)
(* given is accepted.                                                       *)
THEOREM HistoryPagesFit == Spec => []PagesFit
<1>1. HInv => PagesFit
  BY DEF HInv
<1> QED BY <1>1, InitHistory, StepHistory, PTL DEF Spec

(* However much is sent and deleted meanwhile, a client makes at most one   *)
(* GetMessages call more than it is shown messages: the part of ReadingEnds *)
(* that is not about fairness.                                              *)
THEOREM HistoryCallsBounded == Spec => [](Len(pages) <= Cardinality(Shown) + 1)
<1>1. Init => Progress
  <2> SUFFICES ASSUME Init PROVE Progress
    OBVIOUS
  <2>1. HInv /\ Len(pages) = 0
    BY InitHistory DEF Init
  <2> QED BY <2>1, ShownFinite DEF Progress
<1>2. HInv /\ Progress => Len(pages) <= Cardinality(Shown) + 1
  <2> SUFFICES ASSUME HInv, Progress PROVE Len(pages) <= Cardinality(Shown) + 1
    OBVIOUS
  <2> QED BY ShownFinite DEF Progress
<1> QED BY <1>1, <1>2, InitHistory, StepHistory, StepProgress, PTL DEF Spec

=============================================================================
