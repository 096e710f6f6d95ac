-------------------------------- MODULE Api --------------------------------
(***************************************************************************)
(* The REST API as its clients use it: GET /health, the pages of           *)
(* GET /transfers and GET /transfers/{tx_hash}, read while the ledger      *)
(* grows.  A response is one SELECT, so it sees the ledger at one instant; *)
(* nothing holds the ledger still between two responses.                   *)
(*   phase:  idle    no listing under way    more    next_cursor was given *)
(*           done    the last page had no next_cursor                      *)
(***************************************************************************)
EXTENDS Ledger

CONSTANTS
    Readers,    \* clients of the API
    Queries,    \* the filters of a listing: [keys, from, to]
    Limit,      \* limit, the rows of one page
    LogIndex,   \* [Keys -> Nat], log_index
    TxOf,       \* [Keys -> tx_hash]
    NoPosition  \* no cursor

ASSUME ApiConstants ==
    /\ Limit \in Nat \ {0}
    /\ LogIndex \in [Keys -> Nat]
    /\ Queries \subseteq [keys : SUBSET Keys, from : Blocks, to : Blocks]
    /\ NoPosition \notin [b : Blocks, l : Nat]

\* A block numbers its logs.
ASSUME LogsAreNumbered ==
    \A b \in Blocks, f \in Forks : \A k, l \in Logs[b][f] :
        LogIndex[k] = LogIndex[l] => k = l

VARIABLES
    phase,
    known,   \* latest_block of each token in the last /health response
    query,   \* the filters of the listing
    cursor,  \* next_cursor of the last page
    page,    \* the rows of the last page
    seen,    \* the rows of the pages before it
    owed     \* history: the rows the listing had to return when it began

readerVars == <<phase, known, query, cursor, page, seen, owed>>
apiVars == <<chainVars, ledgerVars, readerVars>>

Row == [key : Keys, block : Blocks, time : Forks]
Position == [b : Blocks, l : Nat]
NoQuery == [keys |-> {}, from |-> 0, to |-> 0]

ApiTypeOK ==
    /\ phase \in [Readers -> {"idle", "more", "done"}]
    /\ known \in [Readers -> [Tokens -> Int]]
    /\ query \in [Readers -> Queries \cup {NoQuery}]
    /\ cursor \in [Readers -> Position \cup {NoPosition}]
    /\ page \in [Readers -> SUBSET Row]
    /\ seen \in [Readers -> SUBSET Row]
    /\ owed \in [Readers -> SUBSET Row]

NothingKnown == [t \in Tokens |-> StartBlock - 1]

ReadersInit ==
    /\ phase = [r \in Readers |-> "idle"]
    /\ known = [r \in Readers |-> NothingKnown]
    /\ query = [r \in Readers |-> NoQuery]
    /\ cursor = [r \in Readers |-> NoPosition]
    /\ page = [r \in Readers |-> {}]
    /\ seen = [r \in Readers |-> {}]
    /\ owed = [r \in Readers |-> {}]

-----------------------------------------------------------------------------
\* ORDER BY block_number DESC, log_index DESC: x comes before y.
Above(x, y) ==
    \/ x.block > y.block
    \/ x.block = y.block /\ LogIndex[x.key] > LogIndex[y.key]

\* The token, address, block and time filters.  A key belongs to one token,
\* two accounts and, once it is on record, one block.
Matches(q, x) == x.key \in q.keys /\ q.from <= x.block /\ x.block <= q.to

\* encode_cursor of the row.
PositionOf(x) == [b |-> x.block, l |-> LogIndex[x.key]]

\* Mutant: the row at the cursor is returned again.
AtOrAfterCursor(c, x) ==
    c # NoPosition =>
        \/ x.block < c.b
        \/ x.block = c.b /\ LogIndex[x.key] <= c.l

\* tuple_(block_number, log_index) < decode_cursor(cursor).
AfterCursor(c, x) ==
    c # NoPosition =>
        \/ x.block < c.b
        \/ x.block = c.b /\ LogIndex[x.key] < c.l

Selected(q, c) == {x \in book : Matches(q, x) /\ AfterCursor(c, x)}

\* ORDER BY ... LIMIT n.  Which of several rows at one position come first
\* is up to the database.
FirstRows(rest, n) ==
    {rows \in SUBSET rest :
        /\ Cardinality(rows) <= n
        /\ rows # rest => Cardinality(rows) = n
        /\ \A x \in rows, y \in rest \ rows : ~Above(y, x)}

\* Mutant: next_cursor is the row that showed there is more.
CursorPastPage(rest, rows) ==
    {PositionOf(y) : y \in {y \in rest \ rows :
                               \A z \in rest \ rows : ~Above(z, y)}}

\* next_cursor: the position of the last row of the page.
NextCursors(rest, rows) ==
    {PositionOf(x) : x \in {x \in rows : \A y \in rows : ~Above(x, y)}}

\* list_transfers: the page, and a cursor exactly if a row is left.
Respond(r, q, c) ==
    \E rows \in FirstRows(Selected(q, c), Limit) :
        /\ page' = [page EXCEPT ![r] = rows]
        /\ \/ /\ rows = Selected(q, c)
              /\ phase' = [phase EXCEPT ![r] = "done"]
              /\ cursor' = [cursor EXCEPT ![r] = NoPosition]
           \/ /\ rows # Selected(q, c)
              /\ phase' = [phase EXCEPT ![r] = "more"]
              /\ \E next \in NextCursors(Selected(q, c), rows) :
                    cursor' = [cursor EXCEPT ![r] = next]

-----------------------------------------------------------------------------
\* GET /health: the cursors.
Health(r) ==
    /\ phase[r] = "idle"
    /\ known' = [known EXCEPT ![r] = mark]
    /\ UNCHANGED <<phase, query, cursor, page, seen, owed>>

\* GET /transfers without a cursor.
FirstPage(r) ==
    /\ phase[r] = "idle"
    /\ \E q \in Queries :
          /\ query' = [query EXCEPT ![r] = q]
          /\ owed' = [owed EXCEPT ![r] = Selected(q, NoPosition)]
          /\ Respond(r, q, NoPosition)
    /\ UNCHANGED <<known, seen>>

\* GET /transfers with the same filters and the cursor of the last page.
NextPage(r) ==
    /\ phase[r] = "more"
    /\ Respond(r, query[r], cursor[r])
    /\ seen' = [seen EXCEPT ![r] = @ \cup page[r]]
    /\ UNCHANGED <<known, query, owed>>

\* The client is satisfied, or gives up.
Leave(r) ==
    /\ phase[r] # "idle"
    /\ phase' = [phase EXCEPT ![r] = "idle"]
    /\ known' = [known EXCEPT ![r] = NothingKnown]
    /\ query' = [query EXCEPT ![r] = NoQuery]
    /\ cursor' = [cursor EXCEPT ![r] = NoPosition]
    /\ page' = [page EXCEPT ![r] = {}]
    /\ seen' = [seen EXCEPT ![r] = {}]
    /\ owed' = [owed EXCEPT ![r] = {}]

ReaderNext(r) == Health(r) \/ FirstPage(r) \/ NextPage(r) \/ Leave(r)

ApiInit == LedgerInit /\ ReadersInit

ApiNext ==
    \/ LedgerNext /\ UNCHANGED readerVars
    \/ (\E r \in Readers : ReaderNext(r)) /\ UNCHANGED <<chainVars, ledgerVars>>

ApiSpec == ApiInit /\ [][ApiNext]_apiVars

\* GET /transfers/{tx_hash}.
TransfersByTx(tx) == {x \in book : TxOf[x.key] = tx}

-----------------------------------------------------------------------------
Returned(r) == seen[r] \cup page[r]

(***************************************************************************)
(* No row is lost between two pages: whatever the indexer writes above the *)
(* cursor and a backfill below it while a client pages, every row that was *)
(* on record at the first page has been returned when there is no next one *)
(* (routes.py, list_transfers).                                            *)
(***************************************************************************)
NothingMissed ==
    \A r \in Readers : phase[r] = "done" => owed[r] \subseteq Returned(r)

\* The pages of a listing descend: no row comes twice, and none after a row
\* it should have preceded (README.md, "Ordering is block_number DESC").
PagesDescend ==
    \A r \in Readers : \A x \in page[r], y \in seen[r] : Above(y, x)

(***************************************************************************)
(* What a reader may conclude: the pages of a listing hold, for every      *)
(* token and every block from START_BLOCK to the latest_block that /health *)
(* reported before, exactly the canonical transfers that match.            *)
(***************************************************************************)
CompleteUpToMark ==
    \A r \in Readers : phase[r] = "done" =>
        \A t \in Tokens : \A b \in StartBlock .. known[r][t] :
            {x \in Returned(r) : TokenOf[x.key] = t /\ x.block = b} =
                {x \in Canonical(t, b) : Matches(query[r], x)}

(***************************************************************************)
(* A response for a transaction never shows a part of what it did to one   *)
(* token: its transfers are on record all or none.                         *)
(***************************************************************************)
TransactionsWhole ==
    \A x \in book :
        {y \in Canonical(TokenOf[x.key], x.block) : TxOf[y.key] = TxOf[x.key]}
            \subseteq TransfersByTx(TxOf[x.key])

\* A client that keeps asking for the next page comes to the last one,
\* however many rows are written in the meantime.
ReaderEnds == \A r \in Readers : phase[r] = "more" ~> phase[r] # "more"

=============================================================================
