------------------------------- MODULE Chain -------------------------------
(***************************************************************************)
(* The Ethereum node as src/chainledger sees it through JSON-RPC: a head   *)
(* (eth_blockNumber), the logs of a block range (eth_getLogs) and block    *)
(* headers (eth_getBlockByNumber).  The node is not part of the            *)
(* repository; this module is the environment of every other one.          *)
(*                                                                         *)
(* A block height can be filled by one of several competing blocks, the    *)
(* members of Forks.  A block is identified by its height and its fork, so *)
(* the fork also stands for everything the header of that block carries;   *)
(* in particular two competing blocks have different timestamps.           *)
(***************************************************************************)
EXTENDS Integers, FiniteSets

CONSTANTS
    MaxBlock,    \* bound: the highest block the model mines
    Forks,       \* the blocks that may compete for one height
    ReorgDepth,  \* how far below the highest head a reorganisation reaches
    Tokens,      \* the contracts in settings.token_addresses
    Keys,        \* log identities: the pairs <<tx_hash, log_index>>
    TokenOf,     \* [Keys -> Tokens], the emitting contract
    Shape,       \* [Keys -> {"erc20", "erc721", "malformed"}]
    Logs         \* Logs[b][f]: the Transfer logs of block b on fork f

Blocks == 0 .. MaxBlock

ASSUME ChainConstants ==
    /\ MaxBlock \in Nat
    /\ ReorgDepth \in Nat
    /\ Forks # {}
    /\ TokenOf \in [Keys -> Tokens]
    /\ Shape \in [Keys -> {"erc20", "erc721", "malformed"}]
    /\ Logs \in [Blocks -> [Forks -> SUBSET Keys]]

VARIABLES
    head,   \* the latest block number
    fork,   \* [Blocks -> Forks]: the canonical block at each height up to head
    peak    \* the highest head so far

chainVars == <<head, fork, peak>>

AnyFork == CHOOSE f \in Forks : TRUE

\* A transaction is included once in a chain: its logs belong to one block.
ValidChain(h, f) ==
    \A b, c \in 0 .. h : b # c => Logs[b][f[b]] \cap Logs[c][f[c]] = {}

ChainTypeOK ==
    /\ head \in Blocks
    /\ peak \in Blocks
    /\ fork \in [Blocks -> Forks]

ChainInit ==
    /\ head = 0
    /\ peak = 0
    /\ fork = [b \in Blocks |-> AnyFork]

Mine ==
    /\ head < MaxBlock
    /\ \E f \in Forks :
          /\ fork' = [fork EXCEPT ![head + 1] = f]
          /\ ValidChain(head + 1, fork')
    /\ head' = head + 1
    /\ peak' = IF head + 1 > peak THEN head + 1 ELSE peak

(***************************************************************************)
(* The node abandons the blocks above base.  Mining replacements afterwards*)
(* completes the reorganisation; a client that looks in between sees the   *)
(* shorter chain, as it does from a node that lags behind.                 *)
(***************************************************************************)
Reorg ==
    /\ \E base \in Blocks :
          /\ base >= peak - ReorgDepth
          /\ base < head
          /\ head' = base
          /\ fork' = [b \in Blocks |-> IF b > base THEN AnyFork ELSE fork[b]]
    /\ UNCHANGED peak

ChainNext == Mine \/ Reorg

\* A block no later reorganisation can replace.
Final(b) == b <= peak - ReorgDepth

\* The chain never retreats out of its own reorganisation depth.
ChainInv ==
    /\ head <= peak
    /\ peak - ReorgDepth <= head
    /\ ValidChain(head, fork)

-----------------------------------------------------------------------------
\* eth_getLogs with address t and the Transfer topic, for blocks f to n: the
\* canonical chain is read at one instant, and a range may end above the head.
GetLogs(t, f, n) ==
    {l \in [key : Keys, block : Blocks] :
        /\ f <= l.block /\ l.block <= n /\ l.block <= head
        /\ l.key \in Logs[l.block][fork[l.block]]
        /\ TokenOf[l.key] = t}

\* What a ledger should hold for block b of token t: its ERC-20 transfers,
\* stamped with the time of the block that is canonical there.
Canonical(t, b) ==
    IF b > head THEN {}
    ELSE {[key |-> k, block |-> b, time |-> fork[b]] :
             k \in {k \in Logs[b][fork[b]] :
                       TokenOf[k] = t /\ Shape[k] = "erc20"}}

=============================================================================
