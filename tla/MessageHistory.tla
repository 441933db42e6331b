---------------------------- MODULE MessageHistory ----------------------------
(***************************************************************************)
(* The history of one room (services/message): a client reads it page by   *)
(* page with GetMessages, from the newest message back, while others send  *)
(* and delete.  The order is (created_at, id); created_at is the time the  *)
(* INSERT starts, which may be long before its row can be seen, and two    *)
(* rows may have the same time.                                            *)
(*                                                                         *)
(* External: PostgreSQL and its clock; the client, which asks for the next *)
(* page with the cursor it was given.  A GetMessages that fails changes    *)
(* nothing and is repeated; its membership check is in MessageService.     *)
(***************************************************************************)
EXTENDS Integers, FiniteSets, Sequences

CONSTANTS
  Messages,   (* identifiers of one room, ordered like its random uuids    *)
  Limits,     (* the limits the client may ask for, call by call           *)
  MaxTime     (* bound: the clock of the database                          *)

ASSUME HistoryAssumption ==
  Messages \subseteq Nat /\ Limits \subseteq Nat \ {0} /\ MaxTime \in Nat

None == -1    (* no cursor *)

VARIABLES
  now,        (* the clock of the database                                 *)
  row,        (* row[m]: the state of m and its created_at                 *)
  at,         (* where the client is                                       *)
  cursor,     (* the cursor of its next call                               *)
  pages,      (* the pages it got, each with the limit it had asked for    *)
  there       (* what the room showed when it began to read                *)

vars == <<now, row, at, cursor, pages, there>>
reader == <<at, cursor, pages, there>>

RowType == [state : {"unused", "inserting", "sent", "deleted"}, createdAt : 0 .. MaxTime]

-----------------------------------------------------------------------------
(* The queries of GetMessagesByRoomID *)

Earlier(m, n) ==
  \/ row[m].createdAt < row[n].createdAt
  \/ row[m].createdAt = row[n].createdAt /\ m < n

Visible == {m \in Messages : row[m].state = "sent"}

BelowLoose(c) == {m \in Visible : c = None \/ m = c \/ Earlier(m, c)}
Below(c) == {m \in Visible : c = None \/ Earlier(m, c)}

(* ORDER BY created_at DESC, id DESC LIMIT n *)
Newest(S, n) == {m \in S : Cardinality({x \in S : Earlier(m, x)}) < n}

Last(S) == CHOOSE m \in S : \A x \in S \ {m} : Earlier(m, x)

-----------------------------------------------------------------------------
(* Senders *)

ClockTicks == now < MaxTime /\ now' = now + 1 /\ UNCHANGED <<row, reader>>

(* An INSERT has its created_at before anybody can see its row.             *)
InsertStarts(m) ==
  /\ row[m].state = "unused"
  /\ row' = [row EXCEPT ![m] = [state |-> "inserting", createdAt |-> now]]
  /\ UNCHANGED <<now, reader>>

InsertEnds(m) ==
  /\ row[m].state = "inserting"
  /\ row' = [row EXCEPT ![m].state = "sent"]
  /\ UNCHANGED <<now, reader>>

SoftDelete(m) ==
  /\ row[m].state = "sent"
  /\ row' = [row EXCEPT ![m].state = "deleted"]
  /\ UNCHANGED <<now, reader>>

-----------------------------------------------------------------------------
(* The client and its calls *)

StartReading ==
  /\ at = "idle"
  /\ at' = "query" /\ there' = Visible
  /\ UNCHANGED <<now, row, cursor, pages>>

CursorExistsLive(c) == row[c].state = "sent"
(* SELECT EXISTS, a query of its own, sees deleted rows too.                *)
CursorExists(c) == row[c].state \in {"sent", "deleted"}

CheckCursor ==
  /\ at = "check"
  /\ at' = IF CursorExists(cursor) THEN "query" ELSE "refused"
  /\ UNCHANGED <<now, row, cursor, pages, there>>

TurnTo(limit, page, more, next) ==
  /\ at = "query"
  /\ pages' = Append(pages, [limit |-> limit, shown |-> page])
  /\ \/ more /\ at' = "check" /\ cursor' = next
     \/ ~more /\ at' = "done" /\ cursor' = None
  /\ UNCHANGED <<now, row, there>>

GetPageSkips(limit) ==
  LET rows == Newest(Below(cursor), limit + 1)
  IN TurnTo(limit, Newest(rows, limit), Cardinality(rows) > limit, Last(rows))
(* One row more than the page holds tells that there is a next one.  Its    *)
(* cursor is the last row of this page.                                     *)
GetPage(limit) ==
  LET rows == Newest(Below(cursor), limit + 1)
      page == Newest(rows, limit)
  IN TurnTo(limit, page, Cardinality(rows) > limit, Last(page))

-----------------------------------------------------------------------------

Init ==
  /\ now = 0
  /\ row = [m \in Messages |-> [state |-> "unused", createdAt |-> 0]]
  /\ at = "idle" /\ cursor = None /\ pages = <<>> /\ there = {}

Reads == CheckCursor \/ \E limit \in Limits : GetPage(limit)

Next ==
  \/ ClockTicks
  \/ \E m \in Messages : InsertStarts(m) \/ InsertEnds(m) \/ SoftDelete(m)
  \/ StartReading
  \/ Reads

(* A client that has begun goes on reading; nobody has to send.             *)
Spec == Init /\ [][Next]_vars /\ WF_vars(Reads)

-----------------------------------------------------------------------------
(* Properties *)

TypeOK ==
  /\ now \in 0 .. MaxTime
  /\ row \in [Messages -> RowType]
  /\ at \in {"idle", "check", "query", "done", "refused"}
  /\ cursor \in Messages \cup {None}
  /\ pages \in Seq([limit : Limits, shown : SUBSET Messages])
  /\ there \subseteq Messages

Shown == UNION {pages[i].shown : i \in DOMAIN pages}

(* Reading to the last page misses nothing: what the room showed when the   *)
(* client began has been on a page, unless it has been deleted since,       *)
(* whatever was sent and deleted between two pages, the cursor included.    *)
NothingMissed == at = "done" => \A m \in there : m \in Shown \/ row[m].state = "deleted"

(* Pages go back in time and share nothing: no message is shown twice, none *)
(* on a later page than an earlier message.                                 *)
PagesGoBack ==
  \A i, j \in DOMAIN pages :
    i < j => \A m \in pages[i].shown, n \in pages[j].shown : Earlier(n, m)

(* A page is full if there is a next one, and the next one is not empty,   *)
(* unless messages were deleted: a client makes no call in vain.  It is     *)
(* never refused a cursor it was given.                                     *)
PagesFull ==
  /\ at # "refused"
  /\ \A i \in DOMAIN pages :
       /\ Cardinality(pages[i].shown) <= pages[i].limit
       /\ i < Len(pages) => Cardinality(pages[i].shown) = pages[i].limit
       /\ i > 1 => pages[i].shown # {} \/ \E m \in Messages : row[m].state = "deleted"

(* Both: the pages are those of a list, cut where the client said.          *)
PagesFit == PagesGoBack /\ PagesFull

(* A client that reads on gets to the end, however much is sent meanwhile.  *)
ReadingEnds == (at = "query") ~> (at = "done")

=============================================================================
