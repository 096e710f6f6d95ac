------------------------- MODULE TransactionsProofs -------------------------
(***************************************************************************)
(* From the writers' transactions to what the clients of the REST API may  *)
(* conclude from their pages, in three parts:                              *)
(*   what the abstract ledger guarantees, from the way it is kept: whole   *)
(*   ranges of blocks that no reorganisation can reach;                    *)
(*   what a client may conclude, for any number of clients, any filters    *)
(*   and any page size, whatever goes on record between two pages;         *)
(*   that the transactions of any number of writers, row by row, implement *)
(*   the ledger the clients read, and never wait in a circle.              *)
(***************************************************************************)
EXTENDS Transactions, ChainProofs, FiniteSetTheorems, WellFoundedInduction

USE DEF Blocks

-----------------------------------------------------------------------------
(* Part 1: the ledger.                                                     *)

LedgerInv ==
    /\ LedgerTypeOK
    /\ ChainInv
    /\ \A c \in covered : Final(c[2])
    /\ Exact
    /\ MarkSound

\* The empty ledger.
LEMMA LedgerBegins ==
    ASSUME StartBlock \in Blocks, LedgerInit
    PROVE  LedgerInv
  BY ChainBegins, ChainConstants
  DEF LedgerInit, LedgerInv, LedgerTypeOK, Exact, MarkSound

\* The chain moves on: what is covered is final, so the book stays exact.
LEMMA ChainKeepsLedger ==
    ASSUME LedgerInv, ChainNext, UNCHANGED ledgerVars
    PROVE  LedgerInv'
<1> USE DEF LedgerInv, LedgerTypeOK
<1>1. ChainTypeOK' /\ ChainInv'
  BY ChainInductive
<1>2. ASSUME NEW c \in covered
      PROVE  Final(c[2])' /\ Canonical(c[1], c[2])' = Canonical(c[1], c[2])
  <2>1. c[1] \in Tokens /\ c[2] \in Blocks /\ c[2] \in Int /\ Final(c[2])
    BY <1>2, ChainConstants
  <2>2. Canonical(c[1], c[2])' = Canonical(c[1], c[2])
    BY <2>1, CanonicalStable
  <2>3. Final(c[2])'
    BY <2>1, FinalStable
  <2> QED BY <2>2, <2>3
<1>3. UNION {Canonical(c[1], c[2])' : c \in covered}
        = UNION {Canonical(c[1], c[2]) : c \in covered}
  BY <1>2
<1>4. Exact'
  BY <1>3 DEF Exact, ledgerVars
<1> QED BY <1>1, <1>2, <1>4 DEF ledgerVars, MarkSound

\* The canonical transfers of a block are transfers.
LEMMA CanonicalType ==
    ASSUME ChainTypeOK, NEW t \in Tokens, NEW b \in Blocks
    PROVE  Canonical(t, b) \subseteq [key : Keys, block : Blocks, time : Forks]
<1>1. fork[b] \in Forks /\ Logs[b][fork[b]] \subseteq Keys
  BY ChainConstants DEF ChainTypeOK
<1> QED BY <1>1 DEF Canonical

\* A range goes on record.
LEMMA CoverKeepsLedger ==
    ASSUME StartBlock \in Blocks, LedgerInv,
           NEW t \in Tokens, NEW f \in Blocks, NEW n \in Blocks, Cover(t, f, n)
    PROVE  LedgerInv'
<1> USE DEF LedgerInv
<1> DEFINE new == UNION {Canonical(t, b) : b \in f .. n}
<1>1. /\ Final(n) /\ book' = book \cup new
      /\ covered' = covered \cup ({t} \X (f .. n))
      /\ head' = head /\ fork' = fork /\ peak' = peak
  BY DEF Cover, chainVars
<1>2. f .. n \subseteq Blocks
  BY ChainConstants
<1>3. ChainTypeOK' /\ ChainInv'
  BY <1>1 DEF LedgerTypeOK, ChainTypeOK, ChainInv, ValidChain
<1>4. ASSUME mark' # mark
      PROVE  \E m \in Int :
               /\ \A b \in StartBlock .. m : <<t, b>> \in covered'
               /\ mark' = [mark EXCEPT ![t] = m]
  <2>1. PICK m \in StartBlock .. n :
          /\ \A b \in StartBlock .. m : <<t, b>> \in covered'
          /\ mark' = [mark EXCEPT ![t] = m]
    BY <1>4 DEF Cover
  <2>2. m \in Int
    OBVIOUS
  <2> QED BY <2>1, <2>2
<1>5. LedgerTypeOK'
  <2>1. new \subseteq [key : Keys, block : Blocks, time : Forks]
    BY <1>2, CanonicalType DEF LedgerTypeOK
  <2>2. mark' \in [Tokens -> Int]
    BY <1>4, ChainConstants DEF LedgerTypeOK
  <2> QED BY <1>1, <1>2, <1>3, <2>1, <2>2 DEF LedgerTypeOK
<1>6. \A c \in covered' : Final(c[2])'
  <2>1. \A b \in f .. n : Final(b)
    BY <1>1, ChainConstants DEF Final, LedgerTypeOK, ChainTypeOK
  <2> QED BY <1>1, <2>1 DEF Final
<1>7. Exact'
  <2>1. \A c : Canonical(c[1], c[2])' = Canonical(c[1], c[2])
    BY <1>1 DEF Canonical
  <2>2. ASSUME NEW r
        PROVE  r \in new <=> \E c \in {t} \X (f .. n) : r \in Canonical(c[1], c[2])
    <3>1. ASSUME NEW b \in f .. n, r \in Canonical(t, b)
          PROVE  \E c \in {t} \X (f .. n) : r \in Canonical(c[1], c[2])
      <4>1. <<t, b>> \in {t} \X (f .. n)
        OBVIOUS
      <4> QED BY <3>1, <4>1
    <3>2. ASSUME NEW c \in {t} \X (f .. n), r \in Canonical(c[1], c[2])
          PROVE  \E b \in f .. n : r \in Canonical(t, b)
      <4>1. c[1] = t /\ c[2] \in f .. n
        OBVIOUS
      <4> QED BY <3>2, <4>1
    <3> QED BY <3>1, <3>2
  <2> HIDE DEF new
  <2>3. ASSUME NEW r
        PROVE  r \in book' <=> \E c \in covered' : r \in Canonical(c[1], c[2])
    <3>1. r \in book <=> \E c \in covered : r \in Canonical(c[1], c[2])
      BY DEF Exact
    <3> QED BY <1>1, <2>2, <3>1
  <2>4. book' = UNION {Canonical(c[1], c[2]) : c \in covered'}
    BY <2>3
  <2> QED BY <2>1, <2>4 DEF Exact
<1>8. MarkSound'
  <2>1. \A s \in Tokens : \A b \in StartBlock .. mark[s] : <<s, b>> \in covered'
    BY <1>1 DEF MarkSound
  <2> QED BY <1>1, <1>4, <2>1 DEF MarkSound, LedgerTypeOK
<1> QED BY <1>3, <1>5, <1>6, <1>7, <1>8

\* Nothing happens, or nothing that concerns the ledger.
LEMMA LedgerStutters ==
    ASSUME LedgerInv, UNCHANGED <<chainVars, ledgerVars>>
    PROVE  LedgerInv'
<1>1. /\ head' = head /\ fork' = fork /\ peak' = peak
      /\ book' = book /\ covered' = covered /\ mark' = mark
  BY DEF chainVars, ledgerVars
<1>2. \A c : Canonical(c[1], c[2])' = Canonical(c[1], c[2])
  BY <1>1 DEF Canonical
<1>3. Exact'
  BY <1>1, <1>2 DEF LedgerInv, Exact
<1> QED BY <1>1, <1>3 DEF LedgerInv, LedgerTypeOK, ChainTypeOK, ChainInv,
        ValidChain, MarkSound, Final

(***************************************************************************)
(* The book is exactly the canonical transfers of the covered blocks, and  *)
(* no mark passes a block that is not covered, whatever the chain does.    *)
(***************************************************************************)
THEOREM LedgerIsExact ==
    ASSUME StartBlock \in Blocks
    PROVE  LedgerSpec => [](Exact /\ MarkSound)
<1>1. LedgerInit => LedgerInv
  BY LedgerBegins
<1>2. LedgerInv /\ [LedgerNext]_<<chainVars, ledgerVars>> => LedgerInv'
  <2> SUFFICES ASSUME LedgerInv, [LedgerNext]_<<chainVars, ledgerVars>>
               PROVE  LedgerInv'
    OBVIOUS
  <2>1. CASE ChainNext /\ UNCHANGED ledgerVars
    BY <2>1, ChainKeepsLedger
  <2>2. CASE \E t \in Tokens, f, n \in Blocks : Cover(t, f, n)
    BY <2>2, CoverKeepsLedger
  <2>3. CASE UNCHANGED <<chainVars, ledgerVars>>
    BY <2>3, LedgerStutters
  <2> QED BY <2>1, <2>2, <2>3 DEF LedgerNext
<1>3. LedgerInv => Exact /\ MarkSound
  BY DEF LedgerInv
<1> QED BY <1>1, <1>2, <1>3, PTL DEF LedgerSpec

-----------------------------------------------------------------------------
(* Part 2: the clients.                                                    *)

\* A listing under way: it returned matching rows at or above its cursor, and
\* what it owes and has not returned lies below it.  What a client heard of
\* /health before was on record when it began.
ReaderInv(r) ==
    /\ \A t \in Tokens : \A b \in StartBlock .. known[r][t] :
          <<t, b>> \in covered
    /\ phase[r] = "idle" => page[r] = {} /\ seen[r] = {} /\ owed[r] = {}
    /\ \A x \in Returned(r) \cup owed[r] : x \in book /\ Matches(query[r], x)
    /\ phase[r] = "more" =>
          /\ cursor[r] \in Position
          /\ \A x \in Returned(r) : ~AfterCursor(cursor[r], x)
          /\ \A x \in owed[r] : x \in Returned(r) \/ AfterCursor(cursor[r], x)
    /\ phase[r] = "done" => owed[r] \subseteq Returned(r)
    /\ \A x \in page[r], y \in seen[r] : Above(y, x)
    /\ phase[r] # "idle" =>
          \A x \in book :
             /\ Matches(query[r], x)
             /\ x.block \in StartBlock .. known[r][TokenOf[x.key]]
             => x \in owed[r]

ApiInv ==
    /\ LedgerInv
    /\ ApiTypeOK
    /\ \A r \in Readers : ReaderInv(r)

-----------------------------------------------------------------------------
\* A row on record is a canonical transfer of its token and block.
LEMMA OnRecord ==
    ASSUME LedgerInv, NEW x \in book
    PROVE  /\ x \in Row /\ x.block \in Int /\ LogIndex[x.key] \in Int
           /\ <<TokenOf[x.key], x.block>> \in covered
           /\ x \in Canonical(TokenOf[x.key], x.block)
           /\ x.key \in Logs[x.block][fork[x.block]]
           /\ x.time = fork[x.block]
<1>1. x \in Row /\ x.block \in Int /\ LogIndex[x.key] \in Int
  BY ApiConstants, ChainConstants DEF LedgerInv, LedgerTypeOK, Row
<1>2. PICK c \in covered : x \in Canonical(c[1], c[2])
  BY DEF LedgerInv, Exact
<1>3. c = <<c[1], c[2]>> /\ c[1] \in Tokens /\ c[2] \in Blocks
  BY DEF LedgerInv, LedgerTypeOK
<1>4. /\ x.block = c[2] /\ TokenOf[x.key] = c[1]
      /\ x.key \in Logs[c[2]][fork[c[2]]] /\ x.time = fork[c[2]]
  BY <1>2 DEF Canonical
<1> QED BY <1>1, <1>2, <1>3, <1>4

\* The transfers of a covered block are on record.
LEMMA CoveredOnRecord ==
    ASSUME LedgerInv, NEW t, NEW b, <<t, b>> \in covered
    PROVE  Canonical(t, b) \subseteq book
<1>1. \A x \in Canonical(t, b) :
        \E c \in covered : x \in Canonical(c[1], c[2])
  <2> SUFFICES ASSUME NEW x \in Canonical(t, b)
               PROVE  \E c \in covered : x \in Canonical(c[1], c[2])
    OBVIOUS
  <2>1. <<t, b>>[1] = t /\ <<t, b>>[2] = b
    OBVIOUS
  <2> QED BY <2>1
<1> QED BY <1>1 DEF LedgerInv, Exact

\* Two rows on record are never at one position.
LEMMA PositionsDiffer ==
    ASSUME LedgerInv, NEW x \in book, NEW y \in book,
           x.block = y.block, LogIndex[x.key] = LogIndex[y.key]
    PROVE  x = y
<1>1. x \in Row /\ y \in Row
  BY OnRecord
<1>2. x.key \in Logs[x.block][fork[x.block]] /\ x.time = fork[x.block]
  BY OnRecord
<1>3. y.key \in Logs[x.block][fork[x.block]] /\ y.time = fork[x.block]
  BY OnRecord
<1>4. x.block \in Blocks /\ fork[x.block] \in Forks
  BY <1>1 DEF Row, LedgerInv, LedgerTypeOK, ChainTypeOK
<1>5. x.key = y.key
  BY <1>2, <1>3, <1>4, LogsAreNumbered
<1> QED BY <1>1, <1>2, <1>3, <1>5 DEF Row

\* The ledger grows, and never inside a block that is covered.
LEMMA LedgerGrows ==
    ASSUME StartBlock \in Blocks, LedgerInv, LedgerNext
    PROVE  /\ LedgerInv'
           /\ book \subseteq book' /\ covered \subseteq covered'
           /\ \A x \in book' : <<TokenOf[x.key], x.block>> \in covered
                                  => x \in book
<1>1. CASE ChainNext /\ UNCHANGED ledgerVars
  BY <1>1, ChainKeepsLedger DEF ledgerVars
<1>2. ASSUME NEW t \in Tokens, NEW f \in Blocks, NEW n \in Blocks, Cover(t, f, n)
      PROVE  /\ LedgerInv'
             /\ book \subseteq book' /\ covered \subseteq covered'
             /\ \A x \in book' : <<TokenOf[x.key], x.block>> \in covered
                                    => x \in book
  <2>1. LedgerInv' /\ book \subseteq book' /\ covered \subseteq covered'
    BY <1>2, CoverKeepsLedger DEF Cover
  <2>2. ASSUME NEW x \in book', <<TokenOf[x.key], x.block>> \in covered
        PROVE  x \in book
    <3>1. CASE x \in book
      BY <3>1
    <3>2. CASE x \notin book
      <4>1. PICK b \in f .. n : x \in Canonical(t, b)
        BY <1>2, <3>2 DEF Cover
      <4>2. x.block = b /\ TokenOf[x.key] = t
        BY <4>1 DEF Canonical
      <4> QED BY <2>2, <4>1, <4>2, CoveredOnRecord
    <3> QED BY <3>1, <3>2
  <2> QED BY <2>1, <2>2
<1> QED BY <1>1, <1>2 DEF LedgerNext

-----------------------------------------------------------------------------
\* What the responses of a reader say, and what it was owed, is its own.
SameReader(s) ==
    /\ phase'[s] = phase[s] /\ known'[s] = known[s] /\ query'[s] = query[s]
    /\ cursor'[s] = cursor[s] /\ page'[s] = page[s] /\ seen'[s] = seen[s]
    /\ owed'[s] = owed[s]

\* A reader that gets no response is where it was, though the ledger grew.
LEMMA ReaderKeeps ==
    ASSUME LedgerInv, LedgerInv', NEW s \in Readers, ReaderInv(s), SameReader(s),
           book \subseteq book', covered \subseteq covered',
           \A x \in book' : <<TokenOf[x.key], x.block>> \in covered => x \in book
    PROVE  ReaderInv(s)'
<1> USE DEF SameReader, Returned
<1>1. \A t \in Tokens : \A b \in StartBlock .. known'[s][t] :
         <<t, b>> \in covered'
  BY DEF ReaderInv
<1>2. \A x \in Returned(s)' \cup owed'[s] : x \in book' /\ Matches(query'[s], x)
  BY DEF ReaderInv, Matches
<1>3. phase'[s] = "more" =>
          /\ cursor'[s] \in Position
          /\ \A x \in Returned(s)' : ~AfterCursor(cursor'[s], x)
          /\ \A x \in owed'[s] : x \in Returned(s)' \/ AfterCursor(cursor'[s], x)
  BY DEF ReaderInv
<1>4. \A x \in page'[s], y \in seen'[s] : Above(y, x)
  BY DEF ReaderInv
<1>5. ASSUME phase'[s] # "idle", NEW x \in book', Matches(query'[s], x),
             x.block \in StartBlock .. known'[s][TokenOf[x.key]]
      PROVE  x \in owed'[s]
  <2>1. TokenOf[x.key] \in Tokens
    BY ChainConstants DEF LedgerInv, LedgerTypeOK
  <2>2. <<TokenOf[x.key], x.block>> \in covered
    BY <1>5, <2>1 DEF ReaderInv
  <2>3. x \in book
    BY <2>2
  <2> QED BY <1>5, <2>3 DEF ReaderInv
<1> QED BY <1>1, <1>2, <1>3, <1>4, <1>5 DEF ReaderInv

\* The same for a step of another reader.
LEMMA OtherReader ==
    ASSUME LedgerInv, NEW s \in Readers, ReaderInv(s), SameReader(s),
           UNCHANGED <<chainVars, ledgerVars>>
    PROVE  ReaderInv(s)'
<1>1. book' = book /\ covered' = covered
  BY DEF ledgerVars
<1> USE DEF SameReader, Returned
<1> QED BY <1>1 DEF ReaderInv, Matches, AfterCursor, Above

-----------------------------------------------------------------------------
\* A listing before its next response: the rows `before` were returned, they
\* are at or above cursor c, and what is missing of `debt` lies below it.
ListingSoFar(q, c, before, debt) ==
    /\ c \in Position \cup {NoPosition}
    /\ before \subseteq book /\ debt \subseteq book
    /\ c = NoPosition => before = {}
    /\ c # NoPosition => \A x \in before : ~AfterCursor(c, x)
    /\ \A x \in debt : Matches(q, x) /\ (x \in before \/ AfterCursor(c, x))

\* What a page of `rows` does to it: either it was the last, or the next
\* cursor divides what was returned from what is missing.
Advances(q, c, before, debt, rows) ==
    /\ rows \subseteq Selected(q, c)
    /\ \A x \in rows, y \in before : Above(y, x)
    /\ rows = Selected(q, c) => debt \subseteq before \cup rows
    /\ rows # Selected(q, c) =>
          \A next \in NextCursors(Selected(q, c), rows) :
             /\ next \in Position
             /\ \A x \in before \cup rows : ~AfterCursor(next, x)
             /\ \A x \in debt : x \in before \cup rows \/ AfterCursor(next, x)

\* Every page the database may choose does.
LEMMA PageAdvances ==
    ASSUME LedgerInv, NEW q, NEW c, NEW before, NEW debt,
           ListingSoFar(q, c, before, debt),
           NEW rows, rows \in FirstRows(Selected(q, c), Limit)
    PROVE  Advances(q, c, before, debt, rows)
<1> USE DEF ListingSoFar
<1>1. /\ rows \subseteq Selected(q, c)
      /\ \A x \in rows, y \in Selected(q, c) \ rows : ~Above(y, x)
  BY DEF FirstRows
<1>2. \A x \in book : x \in Row /\ x.block \in Int /\ LogIndex[x.key] \in Int
  BY OnRecord
<1>3. c # NoPosition => c.b \in Int /\ c.l \in Int
  BY ChainConstants DEF Position
<1>4. \A x \in rows, y \in before : Above(y, x)
  <2> SUFFICES ASSUME NEW x \in rows, NEW y \in before
               PROVE  Above(y, x)
    OBVIOUS
  <2>1. x \in book /\ AfterCursor(c, x) /\ y \in book
    BY <1>1 DEF Selected
  <2>2. c # NoPosition /\ ~AfterCursor(c, y)
    OBVIOUS
  <2> QED BY <1>2, <1>3, <2>1, <2>2 DEF AfterCursor, Above
<1>5. debt \subseteq before \cup Selected(q, c)
  BY DEF Selected
<1>6. ASSUME NEW next \in NextCursors(Selected(q, c), rows),
             rows # Selected(q, c)
      PROVE  /\ next \in Position
             /\ \A x \in before \cup rows : ~AfterCursor(next, x)
             /\ \A x \in debt : x \in before \cup rows \/ AfterCursor(next, x)
  <2>1. PICK z \in rows : next = PositionOf(z) /\ \A y \in rows : ~Above(z, y)
    BY <1>6 DEF NextCursors
  <2>2. z \in book /\ z \in Row /\ z.block \in Int /\ LogIndex[z.key] \in Int
    BY <1>1, <1>2 DEF Selected
  <2>3. next \in Position /\ next # NoPosition
    BY <2>1, <2>2, ApiConstants DEF PositionOf, Position, Row
  <2>4. \A x : AfterCursor(next, x) <=> Above(z, x)
    BY <2>1, <2>2, <2>3, <1>2 DEF AfterCursor, Above, PositionOf
  <2>5. \A x \in before : ~Above(z, x)
    BY <1>2, <1>4, <2>2 DEF Above
  <2>6. ASSUME NEW x \in Selected(q, c) \ rows
        PROVE  Above(z, x)
    <3>1. x \in book /\ ~Above(x, z)
      BY <1>1 DEF Selected
    <3>2. ~(x.block = z.block /\ LogIndex[x.key] = LogIndex[z.key])
      BY <2>2, <3>1, PositionsDiffer
    <3> QED BY <1>2, <2>2, <3>1, <3>2 DEF Above
  <2> QED BY <1>5, <2>1, <2>3, <2>4, <2>5, <2>6
<1> QED BY <1>1, <1>4, <1>5, <1>6 DEF Advances

-----------------------------------------------------------------------------
\* What a client learns in two ways holds of its listing in the same way.
LEMMA OwedUpToMark ==
    ASSUME LedgerInv, NEW r \in Readers, ReaderInv(r), phase[r] = "done",
           NEW t \in Tokens, NEW b \in StartBlock .. known[r][t]
    PROVE  {x \in Returned(r) : TokenOf[x.key] = t /\ x.block = b} =
               {x \in Canonical(t, b) : Matches(query[r], x)}
<1>1. <<t, b>> \in covered
  BY DEF ReaderInv
<1>2. ASSUME NEW x \in Returned(r), TokenOf[x.key] = t, x.block = b
      PROVE  x \in Canonical(t, b) /\ Matches(query[r], x)
  BY <1>2, OnRecord DEF ReaderInv
<1>3. ASSUME NEW x \in Canonical(t, b), Matches(query[r], x)
      PROVE  x \in Returned(r) /\ TokenOf[x.key] = t /\ x.block = b
  <2>1. x \in book
    BY <1>1, CoveredOnRecord
  <2>2. TokenOf[x.key] = t /\ x.block = b
    BY DEF Canonical
  <2>3. x \in owed[r]
    BY <1>3, <2>1, <2>2 DEF ReaderInv
  <2> QED BY <2>2, <2>3 DEF ReaderInv
<1> QED BY <1>2, <1>3

\* The clients have asked for nothing.
LEMMA ApiBegins ==
    ASSUME StartBlock \in Blocks, ApiInit
    PROVE  ApiInv
<1>1. LedgerInv
  BY LedgerBegins DEF ApiInit
<1>2. NothingKnown \in [Tokens -> Int]
  BY ChainConstants DEF NothingKnown
<1>3. ApiTypeOK
  BY <1>2 DEF ApiInit, ReadersInit, ApiTypeOK
<1>4. ASSUME NEW r \in Readers
      PROVE  ReaderInv(r)
  BY ChainConstants DEF ApiInit, ReadersInit, NothingKnown, ReaderInv, Returned
<1> QED BY <1>1, <1>3, <1>4 DEF ApiInv

\* One reader gets one response, or leaves.
LEMMA ReaderStep ==
    ASSUME StartBlock \in Blocks, ApiInv, NEW r \in Readers, ReaderNext(r),
           UNCHANGED <<chainVars, ledgerVars>>
    PROVE  ApiTypeOK' /\ ReaderInv(r)' /\ \A s \in Readers \ {r} : SameReader(s)
<1> USE DEF ApiTypeOK
<1>1. /\ LedgerInv /\ ApiTypeOK /\ ReaderInv(r)
      /\ book' = book /\ covered' = covered /\ mark' = mark
      /\ book \subseteq Row /\ mark \in [Tokens -> Int]
  BY DEF ApiInv, ledgerVars, LedgerInv, LedgerTypeOK, Row
<1>2. \A q, x : Matches(q, x)' <=> Matches(q, x)
  BY DEF Matches
<1>3. CASE Health(r)
  <2>1. \A t \in Tokens : \A b \in StartBlock .. mark[t] : <<t, b>> \in covered
    BY DEF ApiInv, LedgerInv, MarkSound
  <2> QED BY <1>1, <1>3, <2>1
          DEF Health, ReaderInv, Returned, SameReader, Matches
<1>4. CASE FirstPage(r)
  <2>1. PICK q \in Queries :
          /\ query' = [query EXCEPT ![r] = q]
          /\ owed' = [owed EXCEPT ![r] = Selected(q, NoPosition)]
          /\ Respond(r, q, NoPosition)
    BY <1>4 DEF FirstPage
  <2>2. PICK rows \in FirstRows(Selected(q, NoPosition), Limit) :
          /\ page' = [page EXCEPT ![r] = rows]
          /\ \/ /\ rows = Selected(q, NoPosition)
                /\ phase' = [phase EXCEPT ![r] = "done"]
                /\ cursor' = [cursor EXCEPT ![r] = NoPosition]
             \/ /\ rows # Selected(q, NoPosition)
                /\ phase' = [phase EXCEPT ![r] = "more"]
                /\ \E next \in NextCursors(Selected(q, NoPosition), rows) :
                      cursor' = [cursor EXCEPT ![r] = next]
    BY <2>1 DEF Respond
  <2> DEFINE debt == Selected(q, NoPosition)
  <2>3. debt \subseteq book /\ \A x \in book : Matches(q, x) <=> x \in debt
    BY DEF Selected, AfterCursor
  <2>4. Advances(q, NoPosition, {}, debt, rows)
    <3>1. ListingSoFar(q, NoPosition, {}, debt)
      BY DEF ListingSoFar, Selected
    <3> QED BY <1>1, <3>1, PageAdvances
  <2>5. phase[r] = "idle" /\ seen[r] = {} /\ seen' = seen /\ known' = known
    BY <1>1, <1>4 DEF FirstPage, ReaderInv
  <2>6. phase'[r] \in {"done", "more"} /\ cursor'[r] \in Position \cup {NoPosition}
    BY <1>1, <2>2, <2>4 DEF Advances
  <2>7. ApiTypeOK'
    BY <1>1, <2>1, <2>2, <2>3, <2>4, <2>5 DEF Advances
  <2>8. /\ query'[r] = q /\ owed'[r] = debt /\ page'[r] = rows /\ seen'[r] = {}
        /\ known'[r] = known[r]
    BY <1>1, <2>1, <2>2, <2>5
  <2>9. phase'[r] = "more" =>
          /\ cursor'[r] \in Position
          /\ \A x \in rows : ~AfterCursor(cursor'[r], x)
          /\ \A x \in debt : x \in rows \/ AfterCursor(cursor'[r], x)
    BY <1>1, <2>2, <2>4 DEF Advances
  <2>10. phase'[r] = "done" => rows = debt
    BY <1>1, <2>2
  <2>11. \A s \in Readers \ {r} : SameReader(s)
    BY <1>1, <2>1, <2>2, <2>5 DEF SameReader
  <2> HIDE DEF debt
  <2>12. Returned(r)' = rows /\ rows \subseteq debt
    BY <2>4, <2>8 DEF Returned, Advances, debt
  <2>13. ReaderInv(r)'
    BY <1>1, <2>3, <2>6, <2>8, <2>9, <2>10, <2>12
    DEF ReaderInv, Matches, AfterCursor, Above
  <2> QED BY <2>7, <2>11, <2>13
<1>5. CASE NextPage(r)
  <2> DEFINE q == query[r]
             c == cursor[r]
             before == Returned(r)
  <2>1. phase[r] = "more" /\ c \in Position /\ q \in Queries \cup {NoQuery}
    BY <1>1, <1>5 DEF NextPage, ReaderInv
  <2>2. PICK rows \in FirstRows(Selected(q, c), Limit) :
          /\ page' = [page EXCEPT ![r] = rows]
          /\ \/ /\ rows = Selected(q, c)
                /\ phase' = [phase EXCEPT ![r] = "done"]
                /\ cursor' = [cursor EXCEPT ![r] = NoPosition]
             \/ /\ rows # Selected(q, c)
                /\ phase' = [phase EXCEPT ![r] = "more"]
                /\ \E next \in NextCursors(Selected(q, c), rows) :
                      cursor' = [cursor EXCEPT ![r] = next]
    BY <1>5 DEF NextPage, Respond
  <2>3. /\ seen' = [seen EXCEPT ![r] = before]
        /\ known' = known /\ query' = query /\ owed' = owed
    BY <1>1, <1>5 DEF NextPage, Returned
  <2>4. /\ before \in SUBSET book /\ owed[r] \in SUBSET book
        /\ \A x \in before \cup owed[r] : Matches(q, x)
        /\ \A x \in before : ~AfterCursor(c, x)
        /\ \A x \in owed[r] : x \in before \/ AfterCursor(c, x)
    BY <1>1, <2>1 DEF ReaderInv
  <2>5. c # NoPosition
    BY <2>1, ApiConstants DEF Position
  <2> HIDE DEF q, c, before
  <2>6. Advances(q, c, before, owed[r], rows)
    <3>1. ListingSoFar(q, c, before, owed[r])
      BY <2>1, <2>4, <2>5 DEF ListingSoFar
    <3> QED BY <1>1, <3>1, PageAdvances
  <2>7. rows \subseteq book /\ \A x \in rows : Matches(q, x)
    BY <2>6 DEF Selected, Advances
  <2>8. ApiTypeOK'
    BY <1>1, <2>2, <2>3, <2>4, <2>6, <2>7 DEF Advances
  <2>9. /\ query'[r] = q /\ owed'[r] = owed[r] /\ page'[r] = rows
        /\ seen'[r] = before /\ known'[r] = known[r] /\ phase'[r] # "idle"
    BY <1>1, <2>2, <2>3 DEF q
  <2>10. phase'[r] = "more" =>
          /\ cursor'[r] \in Position
          /\ \A x \in before \cup rows : ~AfterCursor(cursor'[r], x)
          /\ \A x \in owed[r] : x \in before \cup rows \/ AfterCursor(cursor'[r], x)
    BY <1>1, <2>2, <2>6 DEF Advances
  <2>11. phase'[r] = "done" => owed[r] \subseteq before \cup rows
    BY <1>1, <2>2, <2>6 DEF Advances
  <2>12. \A s \in Readers \ {r} : SameReader(s)
    BY <1>1, <2>2, <2>3 DEF SameReader
  <2>13. /\ \A t \in Tokens : \A b \in StartBlock .. known[r][t] :
               <<t, b>> \in covered
         /\ \A x \in book :
               /\ Matches(q, x)
               /\ x.block \in StartBlock .. known[r][TokenOf[x.key]]
               => x \in owed[r]
    BY <1>1, <2>1 DEF ReaderInv, q
  <2>14. Returned(r)' = before \cup rows
    BY <2>9 DEF Returned
  <2>15. \A x \in Returned(r)' \cup owed'[r] : x \in book' /\ Matches(query'[r], x)
    BY <1>1, <2>4, <2>7, <2>9, <2>14
  <2>16. phase'[r] = "more" =>
           /\ cursor'[r] \in Position
           /\ \A x \in Returned(r)' : ~AfterCursor(cursor'[r], x)
           /\ \A x \in owed'[r] : x \in Returned(r)' \/ AfterCursor(cursor'[r], x)
    BY <2>9, <2>10, <2>14
  <2>17. \A x \in page'[r], y \in seen'[r] : Above(y, x)
    BY <2>6, <2>9 DEF Advances
  <2>18. ReaderInv(r)'
    BY <1>1, <2>9, <2>11, <2>13, <2>14, <2>15, <2>16, <2>17
    DEF ReaderInv, Matches, AfterCursor, Above
  <2> QED BY <2>8, <2>12, <2>18
<1>6. CASE Leave(r)
  <2>1. NothingKnown \in [Tokens -> Int]
    BY ChainConstants DEF NothingKnown
  <2> QED BY <1>1, <1>6, <2>1, ChainConstants
          DEF Leave, ReaderInv, Returned, SameReader, NothingKnown
<1> QED BY <1>3, <1>4, <1>5, <1>6 DEF ReaderNext

\* Every response and every step of the ledger keeps what the clients know.
LEMMA ApiStep ==
    ASSUME StartBlock \in Blocks, ApiInv, [ApiNext]_apiVars
    PROVE  ApiInv'
<1>1. CASE LedgerNext /\ UNCHANGED readerVars
  <2>1. /\ LedgerInv'
        /\ book \subseteq book' /\ covered \subseteq covered'
        /\ \A x \in book' : <<TokenOf[x.key], x.block>> \in covered => x \in book
    BY <1>1, LedgerGrows DEF ApiInv
  <2>2. \A s \in Readers : SameReader(s)
    BY <1>1 DEF readerVars, SameReader
  <2>3. \A s \in Readers : ReaderInv(s)'
    BY <2>1, <2>2, ReaderKeeps DEF ApiInv
  <2> QED BY <1>1, <2>1, <2>3 DEF ApiInv, ApiTypeOK, readerVars
<1>2. CASE UNCHANGED <<chainVars, ledgerVars>>
  <2>1. LedgerInv'
    <3>1. UNCHANGED <<chainVars, ledgerVars>>
      BY <1>2
    <3> QED BY <3>1, LedgerStutters DEF ApiInv
  <2>2. CASE UNCHANGED readerVars
    <3>1. \A s \in Readers : SameReader(s)
      BY <2>2 DEF readerVars, SameReader
    <3>2. \A s \in Readers : ReaderInv(s)'
      BY <1>2, <3>1, OtherReader DEF ApiInv
    <3> QED BY <2>1, <2>2, <3>2 DEF ApiInv, ApiTypeOK, readerVars
  <2>3. ASSUME NEW r \in Readers, ReaderNext(r)
        PROVE  ApiInv'
    <3>1. /\ ApiTypeOK' /\ ReaderInv(r)'
          /\ \A s \in Readers \ {r} : SameReader(s)
      BY <1>2, <2>3, ReaderStep
    <3>2. \A s \in Readers \ {r} : ReaderInv(s)'
      BY <1>2, <3>1, OtherReader DEF ApiInv
    <3> QED BY <2>1, <3>1, <3>2 DEF ApiInv
  <2>4. UNCHANGED readerVars \/ \E r \in Readers : ReaderNext(r)
    BY <1>2 DEF ApiNext, apiVars
  <2> QED BY <2>2, <2>3, <2>4
<1> QED BY <1>1, <1>2 DEF ApiNext, apiVars

\* The inductive invariant, for any number of clients.
THEOREM ApiInvariant ==
    ASSUME StartBlock \in Blocks
    PROVE  ApiSpec => []ApiInv
<1>1. ApiInit => ApiInv
  BY ApiBegins
<1>2. ApiInv /\ [ApiNext]_apiVars => ApiInv'
  BY ApiStep
<1> QED BY <1>1, <1>2, PTL DEF ApiSpec

(***************************************************************************)
(* No row on record at the first page is lost between pages, however the   *)
(* ledger grows (routes.py, list_transfers).  That a block numbers its     *)
(* logs and that only final blocks are on record is all it takes.          *)
(***************************************************************************)
THEOREM PagingMissesNothing ==
    ASSUME StartBlock \in Blocks
    PROVE  ApiSpec => []NothingMissed
<1>1. ApiInv => NothingMissed
  BY DEF ApiInv, ReaderInv, NothingMissed
<1> QED BY <1>1, ApiInvariant, PTL

\* The pages of a listing descend, and so never repeat a row.
THEOREM PagingDescends ==
    ASSUME StartBlock \in Blocks
    PROVE  ApiSpec => []PagesDescend
<1>1. ApiInv => PagesDescend
  BY DEF ApiInv, ReaderInv, PagesDescend
<1> QED BY <1>1, ApiInvariant, PTL

\* Up to the latest_block of an earlier /health a listing is exactly the chain.
THEOREM PagingCompleteUpToMark ==
    ASSUME StartBlock \in Blocks
    PROVE  ApiSpec => []CompleteUpToMark
<1>1. ApiInv => CompleteUpToMark
  BY OwedUpToMark DEF ApiInv, CompleteUpToMark
<1> QED BY <1>1, ApiInvariant, PTL

\* A transaction's transfers of one token are on record all or none.
THEOREM WholeTransactions ==
    ASSUME StartBlock \in Blocks
    PROVE  ApiSpec => []TransactionsWhole
<1>1. ApiInv => TransactionsWhole
  <2> SUFFICES ASSUME LedgerInv PROVE TransactionsWhole
    BY DEF ApiInv
  <2>1. ASSUME NEW x \in book
        PROVE  Canonical(TokenOf[x.key], x.block) \subseteq book
    BY OnRecord, CoveredOnRecord
  <2> QED BY <2>1 DEF TransactionsWhole, TransfersByTx
<1> QED BY <1>1, ApiInvariant, PTL

-----------------------------------------------------------------------------
(* Part 3: the transactions.                                               *)

\* The writers keep away from what a reorganisation can reach.
BufferSuffices == ReorgDepth <= Buffer

\* A transaction is about final blocks, in the order of the chain: what it
\* wrote comes before what it has still to write, and the rest is on record.
WriterInv(w) ==
    /\ pc[w] = "idle" => pending[w] = {} /\ held[w] = {}
    /\ pc[w] # "idle" =>
          /\ job[w] \in Job /\ job[w].from <= job[w].to /\ Final(job[w].to)
          /\ pending[w] \subseteq JobRows(job[w])
          /\ held[w] \subseteq JobRows(job[w])
          /\ JobRows(job[w]) \subseteq pending[w] \cup held[w] \cup book
          /\ w \in LiveWriters => Continues(job[w].token, job[w].from)
    /\ pc[w] = "rows" <=> pending[w] # {}
    /\ \A x \in held[w], y \in pending[w] : Above(y, x)

TransactionsInv ==
    /\ LedgerInv
    /\ WritersTypeOK
    /\ \A w \in Writers : WriterInv(w)

-----------------------------------------------------------------------------
\* A transfer of the canonical chain, whatever its token.
OnChain(x) ==
    /\ x \in Row /\ x.block <= head
    /\ x.key \in Logs[x.block][fork[x.block]]
    /\ x.time = fork[x.block]

\* Neither its key nor its position occurs twice on the canonical chain.
LEMMA OneOfAKind ==
    ASSUME ChainTypeOK, ChainInv, NEW x, NEW y, OnChain(x), OnChain(y),
           \/ x.key = y.key
           \/ x.block = y.block /\ LogIndex[x.key] = LogIndex[y.key]
    PROVE  x = y
<1>1. x \in Row /\ y \in Row /\ x.block \in 0 .. head /\ y.block \in 0 .. head
  BY ChainConstants DEF OnChain, Row, ChainTypeOK
<1>2. x.block = y.block
  BY <1>1 DEF OnChain, ChainInv, ValidChain
<1>3. x.block \in Blocks /\ fork[x.block] \in Forks
  BY <1>1 DEF Row, ChainTypeOK
<1>4. x.key = y.key
  BY <1>2, <1>3, LogsAreNumbered DEF OnChain
<1> QED BY <1>1, <1>2, <1>4 DEF OnChain, Row

\* A row of a job is a transfer of the chain.
LEMMA JobOnChain ==
    ASSUME ChainTypeOK, NEW j \in Job, NEW x \in JobRows(j)
    PROVE  OnChain(x)
<1>1. PICK b \in j.from .. j.to : x \in Canonical(j.token, b)
  BY DEF JobRows
<1>2. b \in Blocks /\ j.token \in Tokens
  BY ChainConstants DEF Job
<1>3. x \in Row
  BY <1>1, <1>2, CanonicalType DEF Row
<1> QED BY <1>1, <1>2, <1>3, ChainConstants
        DEF Canonical, OnChain, ChainTypeOK

\* A row on record is a transfer of the chain.
LEMMA BookOnChain ==
    ASSUME LedgerInv, NEW x \in book
    PROVE  OnChain(x)
<1>1. x \in Canonical(TokenOf[x.key], x.block) /\ x \in Row /\ x.block \in Int
  BY OnRecord
<1>2. x.block <= head
  BY <1>1, ChainConstants DEF Canonical, LedgerInv, LedgerTypeOK, ChainTypeOK
<1> QED BY <1>2, OnRecord DEF OnChain

\* What a job on final blocks has to write never changes.
LEMMA JobStable ==
    ASSUME ChainTypeOK, ChainInv, ChainNext, NEW j \in Job, Final(j.to)
    PROVE  JobRows(j)' = JobRows(j) /\ Final(j.to)'
<1>1. j.token \in Tokens /\ j.from \in Blocks /\ j.to \in Blocks /\ j.to \in Int
  BY ChainConstants DEF Job
<1>2. Final(j.to)'
  BY <1>1, FinalStable
<1>3. ASSUME NEW b \in j.from .. j.to
      PROVE  Canonical(j.token, b)' = Canonical(j.token, b)
  <2>1. b \in Blocks /\ Final(b)
    BY <1>1, ChainConstants DEF Final, ChainTypeOK
  <2> QED BY <1>1, <2>1, CanonicalStable
<1> QED BY <1>2, <1>3 DEF JobRows

\* A row whose key is taken is itself on record or written already.
LEMMA TakenIsThere ==
    ASSUME TransactionsInv, NEW w \in Writers, pc[w] # "idle",
           NEW x \in pending[w], Taken(w, x)
    PROVE  x \in book \cup held[w]
<1>1. PICK y \in book \cup held[w] : y.key = x.key
  BY DEF Taken
<1>2. job[w] \in Job /\ x \in JobRows(job[w]) /\ held[w] \subseteq JobRows(job[w])
  BY DEF TransactionsInv, WriterInv
<1>3. ChainTypeOK /\ ChainInv /\ LedgerInv
  BY DEF TransactionsInv, LedgerInv, LedgerTypeOK
<1>4. OnChain(x) /\ OnChain(y)
  BY <1>2, <1>3, JobOnChain, BookOnChain
<1>5. x = y
  BY <1>1, <1>3, <1>4, OneOfAKind
<1> QED BY <1>5

-----------------------------------------------------------------------------
\* No transaction is open.
LEMMA TransactionsBegin ==
    ASSUME StartBlock \in Blocks, TransactionsInit
    PROVE  TransactionsInv
<1>1. LedgerInv
  BY LedgerBegins DEF TransactionsInit, ApiInit
<1> QED BY <1>1
        DEF TransactionsInit, WritersInit, TransactionsInv, WritersTypeOK,
            WriterInv

\* A writer whose own transaction does not move is undisturbed by the chain,
\* and by commits of others, which only add rows and coverage.
SameWriter(w) ==
    /\ pc'[w] = pc[w] /\ job'[w] = job[w]
    /\ pending'[w] = pending[w] /\ held'[w] = held[w]

\* A transaction that a step leaves alone.
LEMMA WriterKeeps ==
    ASSUME LedgerInv, NEW w \in Writers, WriterInv(w), SameWriter(w),
           book \subseteq book', covered \subseteq covered',
           ChainNext \/ UNCHANGED chainVars
    PROVE  WriterInv(w)'
<1>1. PICK j : j = job[w]
  OBVIOUS
<1>2. job'[w] = j /\ job[w] = j
  BY <1>1 DEF SameWriter
<1>3. ASSUME j \in Job, Final(j.to)
      PROVE  JobRows(j)' = JobRows(j) /\ Final(j.to)'
  <2>1. CASE ChainNext
    BY <1>3, <2>1, JobStable DEF LedgerInv, LedgerTypeOK
  <2>2. CASE UNCHANGED chainVars
    BY <1>3, <2>2 DEF chainVars, JobRows, Canonical, Final
  <2> QED BY <2>1, <2>2
<1>4. JobRows(job[w])' = JobRows(j)' /\ Final(job[w].to)' = Final(j.to)'
  BY <1>2 DEF JobRows, Canonical, Final
<1>5. Continues(j.token, j.from) => Continues(j.token, j.from)'
  BY DEF Continues
<1>6. Continues(job[w].token, job[w].from)' = Continues(j.token, j.from)'
  BY <1>2 DEF Continues
<1>7. \A x, y : Above(x, y)' <=> Above(x, y)
  BY DEF Above
<1>8. pc'[w] # "idle" =>
          /\ job'[w] \in Job /\ job'[w].from <= job'[w].to /\ Final(job[w].to)'
          /\ pending'[w] \subseteq JobRows(job[w])'
          /\ held'[w] \subseteq JobRows(job[w])'
          /\ JobRows(job[w])' \subseteq pending'[w] \cup held'[w] \cup book'
          /\ w \in LiveWriters => Continues(job[w].token, job[w].from)'
  BY <1>2, <1>3, <1>4, <1>5, <1>6 DEF WriterInv, SameWriter
<1> QED BY <1>2, <1>8 DEF WriterInv, SameWriter, Job, Above

-----------------------------------------------------------------------------
\* One writer moves; every other transaction stays as it was.
LEMMA WriterStep ==
    ASSUME StartBlock \in Blocks, BufferSuffices, TransactionsInv,
           NEW w \in Writers, Begin(w) \/ InsertRow(w) \/ WriteCursor(w)
                                \/ WriteRange(w)
    PROVE  /\ UNCHANGED <<chainVars, ledgerVars>>
           /\ WritersTypeOK' /\ WriterInv(w)'
           /\ \A u \in Writers \ {w} : SameWriter(u)
<1> USE DEF WritersTypeOK
<1>1. /\ LedgerInv /\ WritersTypeOK /\ WriterInv(w)
      /\ ChainTypeOK /\ ChainInv
  BY DEF TransactionsInv, LedgerInv, LedgerTypeOK
<1>2. UNCHANGED <<chainVars, ledgerVars>>
  BY DEF Begin, InsertRow, WriteCursor, WriteRange
<1>3. /\ \A j : JobRows(j)' = JobRows(j)
      /\ \A n : Final(n)' = Final(n)
      /\ \A t, f : Continues(t, f)' = Continues(t, f)
      /\ book' = book
  BY <1>2 DEF chainVars, ledgerVars, JobRows, Canonical, Final, Continues
<1>4. CASE Begin(w)
  <2>1. PICK j \in Job :
          /\ j.from <= j.to /\ j.to <= peak - Buffer
          /\ w \in LiveWriters => Continues(j.token, j.from)
          /\ job' = [job EXCEPT ![w] = j]
          /\ pending' = [pending EXCEPT ![w] = JobRows(j)]
          /\ pc' = [pc EXCEPT ![w] = AfterRows(w, JobRows(j))]
    BY <1>4 DEF Begin
  <2>2. Final(j.to)
    BY <1>1, <2>1, WriterConstants, ChainConstants
    DEF Final, ChainInv, ChainTypeOK, BufferSuffices, Job
  <2>3. JobRows(j) \subseteq Row
    BY <1>1, JobOnChain DEF OnChain
  <2>4. held' = held /\ held[w] = {} /\ pc[w] = "idle"
    BY <1>1, <1>4 DEF Begin, WriterInv
  <2>5. /\ pc'[w] # "idle" /\ (pc'[w] = "rows" <=> JobRows(j) # {})
        /\ pc' \in [Writers -> {"idle", "rows", "cursor", "range", "commit"}]
    BY <1>1, <2>1 DEF AfterRows
  <2>6. job'[w] = j /\ pending'[w] = JobRows(j) /\ held'[w] = {}
    BY <1>1, <2>1, <2>4
  <2>7. WriterInv(w)'
    <3>1. JobRows(job[w])' = JobRows(j) /\ Final(job[w].to)'
      BY <1>3, <2>2, <2>6 DEF JobRows, Canonical, Final
    <3>2. w \in LiveWriters => Continues(job[w].token, job[w].from)'
      BY <1>3, <2>1, <2>6 DEF Continues
    <3> QED BY <2>1, <2>5, <2>6, <3>1, <3>2 DEF WriterInv
  <2>8. WritersTypeOK'
    BY <1>1, <2>1, <2>3, <2>4, <2>5
  <2> QED BY <1>1, <1>2, <2>1, <2>4, <2>7, <2>8 DEF SameWriter
<1>5. CASE InsertRow(w)
  <2>1. PICK x \in pending[w] :
          /\ NextRow(w, x)
          /\ pending' = [pending EXCEPT ![w] = @ \ {x}]
          /\ held' = [held EXCEPT ![w] = IF Taken(w, x) THEN @ ELSE @ \cup {x}]
          /\ pc' = [pc EXCEPT ![w] = AfterRows(w, pending[w] \ {x})]
    BY <1>5 DEF InsertRow
  <2>2. pc[w] = "rows" /\ job' = job
    BY <1>5 DEF InsertRow
  <2>3. /\ pending'[w] = pending[w] \ {x} /\ job'[w] = job[w]
        /\ held'[w] \subseteq held[w] \cup {x} /\ held[w] \subseteq held'[w]
        /\ pc'[w] # "idle" /\ (pc'[w] = "rows" <=> pending[w] \ {x} # {})
        /\ pc' \in [Writers -> {"idle", "rows", "cursor", "range", "commit"}]
    BY <1>1, <2>1, <2>2 DEF AfterRows
  <2>4. x \in book \cup held'[w]
    BY <1>1, <2>1, <2>2, TakenIsThere
  <2>5. ASSUME NEW y \in pending[w] \ {x}
        PROVE  Above(y, x)
    <3>1. OnChain(x) /\ OnChain(y) /\ ~Above(x, y)
      BY <1>1, <2>1, <2>2, JobOnChain DEF WriterInv, NextRow
    <3>2. ~(x.block = y.block /\ LogIndex[x.key] = LogIndex[y.key])
      BY <1>1, <3>1, OneOfAKind
    <3>3. /\ x.block \in Int /\ LogIndex[x.key] \in Int
          /\ y.block \in Int /\ LogIndex[y.key] \in Int
      BY <3>1, ApiConstants, ChainConstants DEF OnChain, Row
    <3> QED BY <3>1, <3>2, <3>3 DEF Above
  <2>6. \A y \in held'[w], z \in pending'[w] : Above(z, y)
    BY <1>1, <2>3, <2>5 DEF WriterInv
  <2>7. WritersTypeOK'
    BY <1>1, <2>1, <2>2, <2>3
  <2>8. WriterInv(w)'
    <3>1. /\ JobRows(job[w])' = JobRows(job[w])
          /\ Final(job[w].to)' = Final(job[w].to)
          /\ Continues(job[w].token, job[w].from)'
               = Continues(job[w].token, job[w].from)
      BY <1>2, <2>2 DEF chainVars, ledgerVars, JobRows, Canonical, Final,
                        Continues
    <3>2. \A y, z : Above(y, z)' <=> Above(y, z)
      BY DEF Above
    <3> QED BY <1>1, <1>3, <2>2, <2>3, <2>4, <2>6, <3>1, <3>2
            DEF WriterInv, Above
  <2> QED BY <1>1, <1>2, <2>1, <2>2, <2>7, <2>8 DEF SameWriter
<1>6. CASE WriteCursor(w) \/ WriteRange(w)
  <2>1. /\ job' = job /\ pending' = pending /\ held' = held
        /\ pc[w] \in {"cursor", "range"} /\ pc'[w] \in {"range", "commit"}
        /\ \A u \in Writers \ {w} : pc'[u] = pc[u]
        /\ pc' \in [Writers -> {"idle", "rows", "cursor", "range", "commit"}]
    BY <1>1, <1>6 DEF WriteCursor, WriteRange
  <2>2. /\ JobRows(job[w])' = JobRows(job[w])
        /\ Final(job[w].to)' = Final(job[w].to)
        /\ Continues(job[w].token, job[w].from)'
             = Continues(job[w].token, job[w].from)
    BY <1>2, <2>1 DEF chainVars, ledgerVars, JobRows, Canonical, Final,
                      Continues
  <2>3. WriterInv(w)'
    BY <1>1, <1>3, <2>1, <2>2 DEF WriterInv, Above
  <2> QED BY <1>1, <1>2, <2>1, <2>3 DEF SameWriter
<1> QED BY <1>4, <1>5, <1>6

\* A commit is what the ledger calls a range that goes on record.
LEMMA CommitCovers ==
    ASSUME StartBlock \in Blocks, TransactionsInv, NEW w \in Writers, Commit(w)
    PROVE  \E t \in Tokens, f, n \in Blocks : Cover(t, f, n)
<1>1. /\ pc[w] = "commit" /\ WriterInv(w) /\ LedgerInv
      /\ mark \in [Tokens -> Int]
  BY DEF TransactionsInv, Commit, LedgerInv, LedgerTypeOK
<1>2. PICK j : j = job[w]
  OBVIOUS
<1>3. /\ j \in Job /\ j.from <= j.to /\ Final(j.to)
      /\ held[w] \subseteq JobRows(j)
      /\ JobRows(j) \subseteq held[w] \cup book
      /\ w \in LiveWriters => Continues(j.token, j.from)
  BY <1>1, <1>2 DEF WriterInv
<1>4. /\ j.token \in Tokens /\ j.from \in Blocks /\ j.to \in Blocks
      /\ j.from \in Int /\ j.to \in Int /\ StartBlock \in Int
  BY <1>3, ChainConstants DEF Job
<1>5. /\ book' = book \cup held[w]
      /\ covered' = covered \cup ({j.token} \X (j.from .. j.to))
      /\ mark' = IF w \in LiveWriters
                 THEN [mark EXCEPT ![j.token] = j.to] ELSE mark
      /\ UNCHANGED chainVars
  BY <1>2 DEF Commit, JobBlocks, Release
<1>6. book' = book \cup UNION {Canonical(j.token, b) : b \in j.from .. j.to}
  BY <1>3, <1>5 DEF JobRows
<1>7. ASSUME w \in LiveWriters
      PROVE  j.to \in StartBlock .. j.to
               /\ \A b \in StartBlock .. j.to : <<j.token, b>> \in covered'
  <2>1. /\ j.from >= StartBlock
        /\ \A b \in StartBlock .. j.from - 1 : <<j.token, b>> \in covered
    BY <1>3, <1>7 DEF Continues
  <2> QED BY <1>3, <1>4, <1>5, <2>1
<1>8. Cover(j.token, j.from, j.to)
  BY <1>3, <1>4, <1>5, <1>6, <1>7 DEF Cover
<1> QED BY <1>4, <1>8

\* The writers that end their transactions are idle, with nothing left.
LEMMA WritersReleased ==
    ASSUME WritersTypeOK, NEW W \in SUBSET Writers, Release(W)
    PROVE  /\ WritersTypeOK' /\ \A w \in W : WriterInv(w)'
           /\ \A u \in Writers \ W : SameWriter(u)
<1>1. \A w \in W : pc'[w] = "idle" /\ pending'[w] = {} /\ held'[w] = {}
  BY DEF Release, Back, WritersTypeOK
<1>2. WritersTypeOK' /\ \A u \in Writers \ W : SameWriter(u)
  BY DEF Release, Back, WritersTypeOK, SameWriter
<1> QED BY <1>1, <1>2 DEF WriterInv

\* Every step keeps the invariant, and is a step of the ledger, of a reader,
\* or of neither.
LEMMA TransactionsStep ==
    ASSUME StartBlock \in Blocks, BufferSuffices, TransactionsInv,
           [TransactionsNext]_txVars
    PROVE  TransactionsInv' /\ [ApiNext]_apiVars
<1>1. LedgerInv /\ WritersTypeOK /\ \A w \in Writers : WriterInv(w)
  BY DEF TransactionsInv
<1>2. ASSUME LedgerNext, book \subseteq book', covered \subseteq covered',
             UNCHANGED readerVars, ChainNext \/ UNCHANGED chainVars,
             NEW W \in SUBSET Writers, \A u \in Writers \ W : SameWriter(u),
             WritersTypeOK', \A w \in W : WriterInv(w)'
      PROVE  TransactionsInv' /\ [ApiNext]_apiVars
  <2>1. LedgerInv'
    BY <1>1, <1>2, LedgerGrows
  <2>2. \A u \in Writers \ W : WriterInv(u)'
    BY <1>1, <1>2, WriterKeeps
  <2> QED BY <1>2, <2>1, <2>2 DEF TransactionsInv, ApiNext
<1>3. ASSUME UNCHANGED <<chainVars, ledgerVars>>,
             NEW W \in SUBSET Writers, \A u \in Writers \ W : SameWriter(u),
             WritersTypeOK', \A w \in W : WriterInv(w)'
      PROVE  TransactionsInv'
  <2>1. LedgerInv'
    BY <1>1, <1>3, LedgerStutters
  <2>2. book \subseteq book' /\ covered \subseteq covered' /\ UNCHANGED chainVars
    BY <1>3 DEF ledgerVars
  <2>3. \A u \in Writers \ W : WriterInv(u)'
    BY <1>1, <1>3, <2>2, WriterKeeps
  <2> QED BY <1>3, <2>1, <2>3 DEF TransactionsInv
<1>4. CASE ChainNext /\ UNCHANGED <<ledgerVars, readerVars, writerVars>>
  <2>1. /\ LedgerNext /\ book \subseteq book' /\ covered \subseteq covered'
        /\ UNCHANGED readerVars /\ ChainNext
    BY <1>4 DEF LedgerNext, ledgerVars
  <2>2. {} \in SUBSET Writers /\ \A u \in Writers \ {} : SameWriter(u)
    BY <1>4 DEF writerVars, SameWriter
  <2>3. WritersTypeOK'
    BY <1>1, <1>4 DEF writerVars, WritersTypeOK
  <2> QED BY <1>2, <2>1, <2>2, <2>3
<1>5. ASSUME NEW w \in Writers, WriterNext(w), UNCHANGED readerVars
      PROVE  TransactionsInv' /\ [ApiNext]_apiVars
  <2>1. CASE Begin(w) \/ InsertRow(w) \/ WriteCursor(w) \/ WriteRange(w)
    <3>1. /\ UNCHANGED <<chainVars, ledgerVars>>
          /\ WritersTypeOK' /\ WriterInv(w)'
          /\ \A u \in Writers \ {w} : SameWriter(u)
      BY <2>1, WriterStep
    <3>2. {w} \in SUBSET Writers /\ \A v \in {w} : WriterInv(v)'
      BY <3>1
    <3>3. TransactionsInv'
      BY <1>3, <3>1, <3>2
    <3> QED BY <1>5, <3>1, <3>3 DEF apiVars
  <2>2. CASE Commit(w)
    <3>1. LedgerNext /\ UNCHANGED chainVars
      BY <2>2, CommitCovers DEF LedgerNext, Commit, Release
    <3>2. book \subseteq book' /\ covered \subseteq covered'
      BY <2>2 DEF Commit
    <3>3. {w} \in SUBSET Writers /\ Release({w})
      BY <2>2 DEF Commit
    <3>4. /\ WritersTypeOK' /\ \A v \in {w} : WriterInv(v)'
          /\ \A u \in Writers \ {w} : SameWriter(u)
      BY <1>1, <3>3, WritersReleased
    <3> QED BY <1>2, <1>5, <3>1, <3>2, <3>3, <3>4
  <2> QED BY <1>5, <2>1, <2>2 DEF WriterNext
<1>7. ASSUME NEW W \in SUBSET Writers, Rollback(W), UNCHANGED readerVars
      PROVE  TransactionsInv' /\ [ApiNext]_apiVars
  <2>1. UNCHANGED <<chainVars, ledgerVars>>
    BY <1>7 DEF Rollback, Discard, Release
  <2>2. /\ WritersTypeOK' /\ \A w \in W : WriterInv(w)'
        /\ \A u \in Writers \ W : SameWriter(u)
    BY <1>1, <1>7, WritersReleased DEF Rollback
  <2>3. TransactionsInv'
    BY <1>3, <2>1, <2>2
  <2> QED BY <1>7, <2>1, <2>3 DEF apiVars
<1>6. CASE UNCHANGED <<chainVars, ledgerVars, writerVars>>
           /\ (UNCHANGED readerVars \/ \E r \in Readers : ReaderNext(r))
  <2>1. {} \in SUBSET Writers /\ \A u \in Writers \ {} : SameWriter(u)
    BY <1>6 DEF writerVars, SameWriter
  <2>2. WritersTypeOK' /\ UNCHANGED <<chainVars, ledgerVars>>
    BY <1>1, <1>6 DEF writerVars, WritersTypeOK
  <2>3. TransactionsInv'
    BY <1>3, <2>1, <2>2
  <2>4. [ApiNext]_apiVars
    BY <1>6, <2>2 DEF ApiNext, apiVars
  <2> QED BY <2>3, <2>4
<1> QED BY <1>4, <1>5, <1>6, <1>7 DEF TransactionsNext, txVars, apiVars

\* The inductive invariant, for any number of writers.
THEOREM TransactionsInvariant ==
    ASSUME StartBlock \in Blocks, BufferSuffices
    PROVE  TransactionsSpec => []TransactionsInv
<1>1. TransactionsInit => TransactionsInv
  BY TransactionsBegin
<1>2. TransactionsInv /\ [TransactionsNext]_txVars => TransactionsInv'
  BY TransactionsStep
<1> QED BY <1>1, <1>2, PTL DEF TransactionsSpec

(***************************************************************************)
(* The transactions of writer.py and service.py, one statement at a time,  *)
(* with waits, conflicts and rollbacks, implement what the clients of the  *)
(* API see: everything proved of Api holds of them.                        *)
(***************************************************************************)
THEOREM TransactionsAreAtomic ==
    ASSUME StartBlock \in Blocks, BufferSuffices
    PROVE  TransactionsSpec => AtomicToReaders
<1>1. TransactionsInit => ApiInit
  BY DEF TransactionsInit
<1>2. TransactionsInv /\ [TransactionsNext]_txVars => [ApiNext]_apiVars
  BY TransactionsStep
<1> QED BY <1>1, <1>2, TransactionsInvariant, PTL
        DEF TransactionsSpec, AtomicToReaders, ApiSpec

-----------------------------------------------------------------------------
\* Only a row whose key is neither on record nor locked is written.
LEMMA InsertKeepsKeys ==
    ASSUME WritersTypeOK, KeysExclusive, NEW w \in Writers, InsertRow(w)
    PROVE  KeysExclusive'
<1>1. PICK x \in pending[w] :
        /\ NextRow(w, x)
        /\ held' = [held EXCEPT ![w] = IF Taken(w, x) THEN @ ELSE @ \cup {x}]
  BY DEF InsertRow
<1>2. pc[w] = "rows" /\ Runs(w) /\ x \in Row /\ book' = book
  BY DEF InsertRow, WritersTypeOK, ledgerVars
<1>3. /\ \A u \in Writers \ {w} : held'[u] = held[u]
      /\ Taken(w, x) => held'[w] = held[w]
      /\ ~Taken(w, x) => held'[w] = held[w] \cup {x}
  BY <1>1 DEF WritersTypeOK
<1>4. CASE Taken(w, x)
  BY <1>2, <1>3, <1>4 DEF KeysExclusive, Others, Holds
<1>5. CASE ~Taken(w, x)
  <2>1. \A u \in Writers \ {w} : ~Holds(u, x)
    BY <1>1, <1>2, <1>5 DEF Runs, Others, WaitsFor
  <2>2. \A y \in book : y.key # x.key
    BY <1>5 DEF Taken
  <2> QED BY <1>2, <1>3, <1>5, <2>1, <2>2 DEF KeysExclusive, Others, Holds
<1> QED BY <1>4, <1>5

\* Nor does a commit, a rollback or anything else make a key held twice.
LEMMA StepKeepsKeys ==
    ASSUME WritersTypeOK, KeysExclusive, [TransactionsNext]_txVars
    PROVE  KeysExclusive'
<1>1. CASE UNCHANGED <<book, held>>
  BY <1>1 DEF KeysExclusive, Others, Holds
<1>2. ASSUME NEW W \in SUBSET Writers, Release(W),
             book' \subseteq book \cup UNION {held[w] : w \in W},
             \A w, u \in W : w = u
      PROVE  KeysExclusive'
  <2>1. /\ \A w \in W : held'[w] = {}
        /\ \A u \in Writers \ W : held'[u] = held[u]
    BY <1>2 DEF Release, Back
  <2> QED BY <1>2, <2>1 DEF KeysExclusive, Others, Holds
<1>3. ASSUME NEW W \in SUBSET Writers, Release(W), book' = book
      PROVE  KeysExclusive'
  <2>1. \A u \in Writers : held'[u] \subseteq held[u]
    BY <1>3 DEF Release, Back
  <2> QED BY <1>3, <2>1 DEF KeysExclusive, Others, Holds
<1>4. ASSUME NEW w \in Writers, WriterNext(w)
      PROVE  KeysExclusive'
  <2>1. CASE Begin(w) \/ WriteCursor(w) \/ WriteRange(w)
    BY <1>1, <2>1 DEF Begin, WriteCursor, WriteRange, ledgerVars
  <2>2. CASE InsertRow(w)
    BY <2>2, InsertKeepsKeys
  <2>3. CASE Commit(w)
    <3>1. {w} \in SUBSET Writers /\ Release({w}) /\ book' = book \cup held[w]
      BY <2>3 DEF Commit
    <3> QED BY <1>2, <3>1
  <2> QED BY <1>4, <2>1, <2>2, <2>3 DEF WriterNext
<1>5. ASSUME NEW W \in SUBSET Writers, Rollback(W)
      PROVE  KeysExclusive'
  BY <1>3, <1>5 DEF Rollback, Discard, ledgerVars
<1> QED BY <1>1, <1>4, <1>5
        DEF TransactionsNext, txVars, apiVars, ledgerVars, writerVars

(***************************************************************************)
(* Two open transactions never hold the same key, and none holds a key     *)
(* that is on record: what an INSERT reports as written is new, whatever   *)
(* the others do before its COMMIT.                                        *)
(***************************************************************************)
THEOREM KeysStayExclusive ==
    ASSUME StartBlock \in Blocks, BufferSuffices
    PROVE  TransactionsSpec => []KeysExclusive
<1>1. TransactionsInit => KeysExclusive
  BY DEF TransactionsInit, WritersInit, KeysExclusive
<1>2. TransactionsInv => WritersTypeOK
  BY DEF TransactionsInv
<1>3. WritersTypeOK /\ KeysExclusive /\ [TransactionsNext]_txVars
        => KeysExclusive'
  BY StepKeepsKeys
<1> QED BY <1>1, <1>2, <1>3, TransactionsInvariant, PTL DEF TransactionsSpec

-----------------------------------------------------------------------------
\* Where a transaction stands: what comes after the rows, and before that
\* how far through the chain it has come.
Stage(w) == CASE pc[w] = "rows" -> 1
              [] pc[w] = "cursor" -> 2
              [] pc[w] = "range" -> 3
              [] pc[w] = "commit" -> 4
              [] OTHER -> 0

\* u has come further than w.
Behind(w, u) ==
    \/ Stage(w) < Stage(u)
    \/ /\ Stage(w) = 1 /\ Stage(u) = 1
       /\ \E x \in pending[w] : \A y \in pending[u] : Above(y, x)

\* A transaction is in one of five stages.
LEMMA StageType == \A w : Stage(w) \in 0 .. 4
  BY DEF Stage

\* Nobody has come further than itself; who is further than one who is
\* further is further.
LEMMA BehindIsAnOrder ==
    ASSUME TransactionsInv
    PROVE  /\ \A w \in Writers : ~Behind(w, w)
           /\ \A u, v, w \in Writers :
                 Behind(w, u) /\ Behind(u, v) => Behind(w, v)
<1>1. \A w \in Writers : \A x \in pending[w] :
        x.block \in Int /\ LogIndex[x.key] \in Int
  BY ApiConstants, ChainConstants DEF TransactionsInv, WritersTypeOK, Row
<1>2. ASSUME NEW w \in Writers
      PROVE  ~Behind(w, w)
  BY <1>1, StageType DEF Behind, Above
<1>3. ASSUME NEW u \in Writers, NEW v \in Writers, NEW w \in Writers,
             Behind(w, u), Behind(u, v)
      PROVE  Behind(w, v)
  <2>1. CASE Stage(w) < Stage(v)
    BY <2>1 DEF Behind
  <2>2. CASE Stage(w) = 1 /\ Stage(u) = 1 /\ Stage(v) = 1
    <3>1. PICK x \in pending[w] : \A y \in pending[u] : Above(y, x)
      BY <1>3, <2>2 DEF Behind
    <3>2. PICK y \in pending[u] : \A z \in pending[v] : Above(z, y)
      BY <1>3, <2>2 DEF Behind
    <3>3. \A z \in pending[v] : Above(z, x)
      BY <1>1, <3>1, <3>2 DEF Above
    <3> QED BY <2>2, <3>3 DEF Behind
  <2> QED BY <1>3, <2>1, <2>2, StageType DEF Behind
<1> QED BY <1>2, <1>3

\* Whoever waits is behind the one it waits for.
LEMMA WaitsAscend ==
    ASSUME TransactionsInv, NEW w \in Writers, NEW u \in Writers, WaitsFor(w, u)
    PROVE  Behind(w, u)
<1>1. /\ WriterInv(w) /\ WriterInv(u) /\ LedgerInv /\ ChainTypeOK /\ ChainInv
      /\ pc[u] \in {"idle", "rows", "cursor", "range", "commit"}
  BY DEF TransactionsInv, WritersTypeOK, LedgerInv, LedgerTypeOK
<1>2. ASSUME pc[w] = "rows", NEW x, NextRow(w, x), Holds(u, x)
      PROVE  Behind(w, u)
  <2>1. PICK y \in held[u] : y.key = x.key
    BY <1>2 DEF Holds
  <2>2. x \in pending[w] /\ pc[u] # "idle"
    BY <1>1, <1>2, <2>1 DEF NextRow, WriterInv
  <2>3. OnChain(x) /\ OnChain(y)
    BY <1>1, <1>2, <2>1, <2>2, JobOnChain DEF WriterInv
  <2>4. x = y
    BY <1>1, <2>1, <2>3, OneOfAKind
  <2>5. \A z \in pending[u] : Above(z, x)
    BY <1>1, <2>1, <2>4 DEF WriterInv
  <2> QED BY <1>1, <1>2, <2>2, <2>5 DEF Behind, Stage
<1>3. CASE pc[w] = "cursor" /\ HoldsCursor(u, job[w].token)
  BY <1>3 DEF HoldsCursor, Behind, Stage
<1>4. CASE pc[w] = "range" /\ HoldsRange(u, job[w])
  BY <1>4 DEF HoldsRange, Behind, Stage
<1> QED BY <1>2, <1>3, <1>4 DEF WaitsFor

(***************************************************************************)
(* No set of transactions waits for itself, for any finite number of live  *)
(* indexers and backfill workers.  Of a set of writers take one that as    *)
(* few of the set as possible are ahead of: whoever it waited for would    *)
(* have fewer ahead.                                                       *)
(***************************************************************************)
THEOREM NeverDeadlocked ==
    ASSUME StartBlock \in Blocks, BufferSuffices, IsFiniteSet(Writers)
    PROVE  TransactionsSpec => []NoWaitCycle
<1>1. TransactionsInv => NoWaitCycle
  <2> SUFFICES ASSUME TransactionsInv, NEW S \in SUBSET Writers, S # {}
               PROVE  \E w \in S : \A u \in S : ~WaitsFor(w, u)
    BY DEF NoWaitCycle
  <2> DEFINE Ahead(w) == {u \in S : Behind(w, u)}
             Sets == {Ahead(w) : w \in S}
  <2>1. IsWellFoundedOn(StrictSubsetOrdering(S), SUBSET S)
    BY FS_Subset, FS_FiniteSubsetsOfFinite, FS_StrictSubsetOrderingWellFounded
  <2>2. Sets \subseteq SUBSET S /\ Sets # {}
    OBVIOUS
  <2>3. PICK A \in Sets : \A B \in Sets : <<B, A>> \notin StrictSubsetOrdering(S)
    BY <2>1, <2>2, WFMin
  <2>4. PICK w \in S : A = Ahead(w)
    OBVIOUS
  <2>5. ASSUME NEW u \in S, WaitsFor(w, u)
        PROVE  FALSE
    <3>1. Behind(w, u)
      BY <2>5, WaitsAscend
    <3>2. Ahead(u) \subseteq Ahead(w) /\ u \in Ahead(w) /\ u \notin Ahead(u)
      BY <3>1, BehindIsAnOrder
    <3>3. <<Ahead(u), Ahead(w)>> \in StrictSubsetOrdering(S)
      BY <3>2 DEF StrictSubsetOrdering
    <3> QED BY <2>3, <2>4, <3>3
  <2> QED BY <2>5
<1> QED BY <1>1, TransactionsInvariant, PTL

=============================================================================
