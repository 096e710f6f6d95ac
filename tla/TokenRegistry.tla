--------------------------- MODULE TokenRegistry ---------------------------
(***************************************************************************)
(* IndexerService.ensure_token for one token, call by call.  The indexer   *)
(* runs it in every cycle and each backfill worker for every chunk, so     *)
(* several processes may look at the same row of the tokens table, ask the *)
(* contract, and write what they got.                                      *)
(*   pc:  idle      between two calls        symbol  contract.symbol()     *)
(*        decimals  contract.decimals()      write   INSERT or UPDATE      *)
(* Indexer and Backfill take the call as one step that leaves a row.       *)
(***************************************************************************)
EXTENDS Integers

CONSTANTS
    Procs,     \* everyone who calls ensure_token
    Symbol,    \* what the contract answers to symbol()
    Unknown,   \* "UNKNOWN"
    Decimals,  \* what the contract answers to decimals()
    NoRow      \* no row for the token

ASSUME RegistryConstants ==
    /\ Symbol # Unknown
    /\ Decimals \in Nat
    /\ NoRow \notin [symbol : {Symbol, Unknown}, decimals : {Decimals, 18}]

VARIABLES
    deployed,  \* whether the contract answers at all
    row,       \* the token's row: symbol (the name is the same) and decimals
    pc,        \* [Procs -> a step above]
    loaded,    \* existing: the row as this process read it
    got        \* the metadata this process has fetched

registryVars == <<deployed, row, pc, loaded, got>>

Metadata == [symbol : {Symbol, Unknown}, decimals : {Decimals, 18}]

\* What _fetch_token_metadata answers when every call fails.
Fallback == [symbol |-> Unknown, decimals |-> 18]

RegistryTypeOK ==
    /\ deployed \in BOOLEAN
    /\ row \in Metadata \cup {NoRow}
    /\ pc \in [Procs -> {"idle", "symbol", "decimals", "write"}]
    /\ loaded \in [Procs -> Metadata \cup {NoRow}]
    /\ got \in [Procs -> Metadata]

RegistryInit ==
    /\ deployed = FALSE
    /\ row = NoRow
    /\ pc = [p \in Procs |-> "idle"]
    /\ loaded = [p \in Procs |-> NoRow]
    /\ got = [p \in Procs |-> Fallback]

\* The contract appears on the chain.
Deploy ==
    /\ ~deployed
    /\ deployed' = TRUE
    /\ UNCHANGED <<row, pc, loaded, got>>

Known(r) == r # NoRow /\ r.symbol # Unknown

\* ensure_token returns, or is left by an exception.
Return(p) ==
    /\ pc' = [pc EXCEPT ![p] = "idle"]
    /\ loaded' = [loaded EXCEPT ![p] = NoRow]
    /\ got' = [got EXCEPT ![p] = Fallback]

\* Mutant: a known symbol does not end the call.
LookAlways(p) ==
    /\ pc[p] = "idle"
    /\ loaded' = [loaded EXCEPT ![p] = row]
    /\ pc' = [pc EXCEPT ![p] = "symbol"]
    /\ UNCHANGED <<deployed, row, got>>

\* session.get(Token).  With a known symbol ensure_token returns at once.
Look(p) ==
    /\ pc[p] = "idle"
    /\ ~Known(row)
    /\ loaded' = [loaded EXCEPT ![p] = row]
    /\ pc' = [pc EXCEPT ![p] = "symbol"]
    /\ UNCHANGED <<deployed, row, got>>

AnswerSymbol(p) ==
    /\ pc[p] = "symbol" /\ deployed
    /\ got' = [got EXCEPT ![p].symbol = Symbol]
    /\ pc' = [pc EXCEPT ![p] = "decimals"]
    /\ UNCHANGED <<deployed, row, loaded>>

\* The call fails for any reason, or the symbol is empty.
MissSymbol(p) ==
    /\ pc[p] = "symbol"
    /\ pc' = [pc EXCEPT ![p] = "decimals"]
    /\ UNCHANGED <<deployed, row, loaded, got>>

AnswerDecimals(p) ==
    /\ pc[p] = "decimals" /\ deployed
    /\ got' = [got EXCEPT ![p].decimals = Decimals]
    /\ pc' = [pc EXCEPT ![p] = "write"]
    /\ UNCHANGED <<deployed, row, loaded>>

MissDecimals(p) ==
    /\ pc[p] = "decimals"
    /\ pc' = [pc EXCEPT ![p] = "write"]
    /\ UNCHANGED <<deployed, row, loaded, got>>

\* Mutant: a row that exists is kept, as it is by ON CONFLICT DO NOTHING.
WrittenNever(old, new, now) == now

\* Mutant: all columns are written.
WrittenWhole(old, new, now) == new

\* The session's UPDATE names the columns that differ from the row as it was
\* loaded; the others keep what the table holds now.
Written(old, new, now) ==
    [symbol   |-> IF new.symbol # old.symbol THEN new.symbol ELSE now.symbol,
     decimals |-> IF new.decimals # old.decimals
                  THEN new.decimals ELSE now.decimals]

\* No row was loaded: INSERT ... ON CONFLICT DO NOTHING.  Else: UPDATE.
Store(p) ==
    /\ pc[p] = "write"
    /\ row' = IF loaded[p] # NoRow THEN Written(loaded[p], got[p], row)
              ELSE IF row = NoRow THEN got[p] ELSE row

Write(p) == Store(p) /\ Return(p) /\ UNCHANGED deployed

\* A statement fails, its commit's reply is lost, or the process is killed.
Raise(p) ==
    /\ pc[p] # "idle"
    /\ UNCHANGED row \/ Store(p)
    /\ Return(p)
    /\ UNCHANGED deployed

Miss(p) == MissSymbol(p) \/ MissDecimals(p)

RegistryStep(p) ==
    Look(p) \/ AnswerSymbol(p) \/ AnswerDecimals(p) \/ Miss(p) \/ Write(p)

RegistryNext == Deploy \/ \E p \in Procs : RegistryStep(p) \/ Raise(p)

RegistrySpec == RegistryInit /\ [][RegistryNext]_registryVars

\* Everyone keeps calling ensure_token, and each call of it ends: calls to
\* the node have a timeout and a bounded number of attempts.
RegistryFairSpec ==
    RegistrySpec /\ \A p \in Procs : WF_registryVars(RegistryStep(p))

-----------------------------------------------------------------------------
(***************************************************************************)
(* A symbol that is known stays: a process that read the row earlier, and  *)
(* whose own call to symbol() failed, does not put UNKNOWN back.           *)
(***************************************************************************)
KnownStaysKnown ==
    [][Known(row) => Known(row') /\ row'.symbol = row.symbol]_registryVars

\* From some point on the contract is there and answers, and no call is left
\* by an exception, unless it has then done all that Write does.
Answering ==
    /\ <>[]deployed
    /\ <>[][\A p \in Procs :
               ~Miss(p) /\ (Raise(p) => Write(p))]_registryVars

(***************************************************************************)
(* Unknown metadata (e.g. the token was not deployed yet when first seen)  *)
(* is retried on subsequent cycles (service.py, comment in ensure_token),  *)
(* as far as the symbol goes: it becomes known.                            *)
(***************************************************************************)
SymbolBecomesKnown == Answering => <>Known(row)

(***************************************************************************)
(* The same of all the metadata: once the contract answers, the row comes  *)
(* to hold what it answers.                                                *)
(***************************************************************************)
UnknownMetadataIsRetried ==
    Answering => <>(row = [symbol |-> Symbol, decimals |-> Decimals])

-----------------------------------------------------------------------------
\* Only rows with an unknown symbol are ever worked on, and rows never go.
LoadedUnknown ==
    \A p \in Procs : loaded[p] # NoRow => ~Known(loaded[p]) /\ row # NoRow

\* The inductive invariant: a call of ensure_token in progress began with a
\* row whose symbol was unknown, or without a row.
RegistryInv == RegistryTypeOK /\ LoadedUnknown

=============================================================================
