------------------------------- MODULE LeadPages -------------------------------
(***************************************************************************)
(* The readers that page through the leads, newest first: the CSV export,  *)
(* streamed page by page, and the dashboard, whose every page is a request *)
(* of its own that carries the cursor of the page before.  Between two     *)
(* pages leads come, go, and move, when a worker writes back a row whose   *)
(* lead has been deleted and uploaded again.                               *)
(***************************************************************************)
EXTENDS LeadTable, Functions

CONSTANTS
  CursorKeys,   \* the keys that _CURSOR_KEY_PATTERN lets pass
  FilterKeys,   \* the keys that do not break a PostgREST filter
  PageSize      \* 200 for the export, 50 for the dashboard

ASSUME PagesAssumption ==
  /\ CursorKeys \subseteq Keys /\ FilterKeys \subseteq Keys /\ PageSize \in Nat \ {0}
  /\ NULL \notin [c : 1..MaxTime, k : Keys]

VARIABLES
  export,     \* _stream_leads_csv
  board,      \* the dashboard
  poll, more  \* its requests on the way, for the first page and the next

pageVars == <<export, board, poll, more>>

(* Above every lead: where the first page begins. *)
Top == [c |-> MaxTime + 1, k |-> 0]

Cursors == [c : 1..MaxTime, k : Keys]
Pages == [rows : Seq(Keys), next : Cursors \cup {NULL}]

(* list_leads_recent, asked for one row more than the page: the cursor of  *)
(* the next page is the last row of this one, if there is a row beyond it. *)
(* Mutant: a boundary of created_at alone.                                 *)
BelowTime(cursor) == {k \in Listed : created[k] < cursor.c}

Below(cursor) ==
  {k \in Listed : created[k] < cursor.c \/ (created[k] = cursor.c /\ k < cursor.k)}

Above(j, k) == created[j] > created[k] \/ (created[j] = created[k] /\ j > k)

(* The elements of a set, one after the other as the relation orders them. *)
Sorted(S, order) ==
  CHOOSE s \in [1..Cardinality(S) -> S] :
    \A i, j \in 1..Cardinality(S) : i < j => <<s[i], s[j]>> \in order

NewestFirst == {pair \in Keys \X Keys : Above(pair[1], pair[2])}

FirstOf(rows) == [i \in 1..(IF Len(rows) < PageSize THEN Len(rows) ELSE PageSize) |-> rows[i]]

Page(cursor) ==
  LET rows == Sorted(Below(cursor), NewestFirst)
  IN  [rows |-> FirstOf(rows),
       next |-> IF Len(rows) > PageSize
                THEN [c |-> created[rows[PageSize]], k |-> rows[PageSize]] ELSE NULL]
-----------------------------------------------------------------------------
(* The export.  A thread reads each page; a key that breaks the filter     *)
(* breaks off a response whose first pages have been sent.  stayed are the *)
(* leads that have been there, and in one place, since it began; steady    *)
(* those that no worker has moved since, whether they were deleted or not. *)
StartExport ==
  /\ export.pc = "idle"
  /\ export' = [pc |-> "reading", cursor |-> Top, rows |-> <<>>, stayed |-> Listed,
                steady |-> Keys]
  /\ UNCHANGED <<tableVars, board, poll, more>>

ExportPage ==
  /\ export.pc = "reading"
  /\ IF export.cursor # Top /\ export.cursor.k \notin FilterKeys
     THEN export' = [export EXCEPT !.pc = "aborted"]
     ELSE LET page == Page(export.cursor)
          IN  export' = [export EXCEPT
                !.pc = IF page.next = NULL THEN "done" ELSE "reading",
                !.cursor = IF page.next = NULL THEN @ ELSE page.next,
                !.rows = @ \o page.rows]
  /\ UNCHANGED <<tableVars, board, poll, more>>
-----------------------------------------------------------------------------
(* The dashboard polls the first page; the operator may ask for the next.  *)
(* A page is on the way from when it was read until it is shown.           *)
Poll ==
  /\ poll = NULL
  /\ poll' = [page |-> Page(Top), stayed |-> Listed]
  /\ UNCHANGED <<tableVars, export, board, more>>

(* raced: a poll has been shown since the request was sent. *)
PollShown ==
  /\ poll # NULL
  /\ board' = [shown |-> poll.page.rows, next |-> poll.page.next,
               stayed |-> poll.stayed, raced |-> FALSE]
  /\ poll' = NULL
  /\ more' = IF more = NULL THEN NULL ELSE [more EXCEPT !.raced = TRUE]
  /\ UNCHANGED <<tableVars, export>>

LoadMore ==
  /\ board.next # NULL /\ more = NULL
  /\ more' = [cursor |-> board.next, page |-> NULL, raced |-> FALSE]
  /\ UNCHANGED <<tableVars, export, board, poll>>

(* _decode_lead_cursor: a key of another alphabet is no cursor at all. *)
Decoded(cursor) == IF cursor.k \in CursorKeys THEN cursor ELSE Top

MoreRead ==
  /\ more # NULL /\ more.page = NULL
  /\ more' = [more EXCEPT !.page = Page(Decoded(more.cursor))]
  /\ UNCHANGED <<tableVars, export, board, poll>>

(* Mutant: what arrives is appended as it is. *)
MoreAppended ==
  /\ more # NULL /\ more.page # NULL
  /\ board' = [board EXCEPT !.shown = @ \o more.page.rows,
                            !.next = more.page.next, !.raced = @ \/ more.raced]
  /\ more' = NULL
  /\ UNCHANGED <<tableVars, export, poll>>

(* loadMoreLeads appends the rows that are not shown yet. *)
Unshown(rows, shown) ==
  LET new == {i \in DOMAIN rows : rows[i] \notin Range(shown)}
      at == Sorted(new, {pair \in new \X new : pair[1] < pair[2]})
  IN  [i \in DOMAIN at |-> rows[at[i]]]

MoreShown ==
  /\ more # NULL /\ more.page # NULL
  /\ board' = [board EXCEPT
       !.shown = @ \o Unshown(more.page.rows, board.shown),
       !.next = more.page.next, !.raced = @ \/ more.raced]
  /\ more' = NULL
  /\ UNCHANGED <<tableVars, export, poll>>

(* The request fails, at the server or on the way. *)
MoreFails ==
  /\ more # NULL
  /\ more' = NULL
  /\ UNCHANGED <<tableVars, export, board, poll>>

ExportStep == StartExport \/ ExportPage

BoardStep == Poll \/ PollShown \/ LoadMore \/ MoreRead \/ MoreShown \/ MoreFails

(* What becomes of the histories when leads go, or are moved. *)
Leave(keys, moved) ==
  /\ export' = [export EXCEPT !.stayed = @ \ keys, !.steady = @ \ moved]
  /\ board' = [board EXCEPT !.stayed = @ \ keys]
  /\ poll' = IF poll = NULL THEN NULL ELSE [poll EXCEPT !.stayed = @ \ keys]
  /\ UNCHANGED more

(* The leads that a write-back gives another created_at than they have. *)
MovedBy(w, done) == {k \in done : created[k] # held[w][k]}

PagesInit ==
  /\ export = [pc |-> "idle", cursor |-> Top, rows |-> <<>>, stayed |-> {}, steady |-> {}]
  /\ board = [shown |-> <<>>, next |-> NULL, stayed |-> {}, raced |-> FALSE]
  /\ poll = NULL /\ more = NULL
-----------------------------------------------------------------------------
PagesTypeOK ==
  /\ export \in [pc : {"idle", "reading", "done", "aborted"}, rows : Seq(Keys),
                 cursor : Cursors \cup {Top}, stayed : SUBSET Keys, steady : SUBSET Keys]
  /\ board \in [shown : Seq(Keys), next : Cursors \cup {NULL},
                stayed : SUBSET Keys, raced : BOOLEAN]
  /\ poll = NULL \/ poll \in [page : Pages, stayed : SUBSET Keys]
  /\ more = NULL \/ more \in [cursor : Cursors,
                              page : Pages \cup {NULL}, raced : BOOLEAN]

ListsOnce(rows, keys) ==
  \A i, j \in DOMAIN rows : i # j /\ rows[i] = rows[j] => rows[i] \notin keys

(* An export that is not broken off lists every lead that was there all    *)
(* along once, and none twice, whatever is uploaded, discovered, deleted   *)
(* or uploaded again between its pages: but for the leads that a worker    *)
(* moved, which writes back the created_at of a row that was deleted.      *)
ExportedOnce ==
  /\ ListsOnce(export.rows, export.steady)
  /\ export.pc = "done" => export.stayed \subseteq Range(export.rows)

(* The dashboard shows no lead twice.  Of the leads that were there all    *)
(* along, and that no worker moved, it skips none above one that it shows, *)
(* unless a poll overtook the request for the next page.                   *)
ShownInFull ==
  /\ IsInjective(board.shown)
  /\ ~board.raced =>
       \A j \in Range(board.shown) \cap board.stayed, k \in board.stayed :
         Above(k, j) => k \in Range(board.shown)

(* No lead at all is listed twice by an export.                            *)
NoneListedTwice == IsInjective(export.rows)

(* "You've seen everything": without a next page, every lead that was      *)
(* there all along is shown.                                               *)
SeenEverything ==
  board.shown # <<>> /\ board.next = NULL => board.stayed \subseteq Range(board.shown)

(* A next page returns the rows strictly after the cursor. *)
RowsAfterCursor ==
  [][MoreRead => Range(more'.page.rows) \subseteq Below(more.cursor)]_pageVars
=============================================================================
