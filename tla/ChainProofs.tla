---------------------------- MODULE ChainProofs ----------------------------
(***************************************************************************)
(* Lemmas about the chain: what a reorganisation cannot reach stays.       *)
(***************************************************************************)
EXTENDS Chain, TLAPS

USE DEF Blocks

\* A final block is on the chain, and stays there unchanged: the environment
\* of Chain never replaces what lies ReorgDepth below the highest head.
LEMMA FinalStable ==
    ASSUME ChainTypeOK, ChainInv, ChainNext, NEW b \in Int, Final(b)
    PROVE  /\ b <= head /\ b <= head'
           /\ Final(b)'
           /\ b \in Blocks => fork'[b] = fork[b]
<1>1. CASE Mine
  BY <1>1, ChainConstants DEF Mine, Final, ChainInv, ChainTypeOK
<1>2. CASE Reorg
  BY <1>2, ChainConstants DEF Reorg, Final, ChainInv, ChainTypeOK
<1> QED BY <1>1, <1>2 DEF ChainNext

\* What stands above the head is one of the forks.
LEMMA AnyForkType == AnyFork \in Forks
  BY ChainConstants DEF AnyFork

\* The chain's type and invariant are preserved by everything a node does.
LEMMA ChainInductive ==
    ASSUME ChainTypeOK, ChainInv, ChainNext
    PROVE  ChainTypeOK' /\ ChainInv'
<1>1. CASE Mine
  <2>1. PICK f \in Forks :
          fork' = [fork EXCEPT ![head + 1] = f] /\ ValidChain(head + 1, fork')
    BY <1>1 DEF Mine
  <2>2. head + 1 \in Blocks /\ head' = head + 1
    BY <1>1, ChainConstants DEF Mine, ChainTypeOK
  <2>3. ChainTypeOK'
    BY <1>1, <2>1, <2>2, ChainConstants DEF Mine, ChainTypeOK
  <2>4. ValidChain(head, fork)'
    BY <2>1, <2>2 DEF ValidChain
  <2> QED BY <1>1, <2>2, <2>3, <2>4, ChainConstants
          DEF Mine, ChainInv, ChainTypeOK
<1>2. CASE Reorg
  <2>1. PICK base \in Blocks :
          /\ base >= peak - ReorgDepth /\ base < head /\ head' = base
          /\ fork' = [b \in Blocks |-> IF b > base THEN AnyFork ELSE fork[b]]
    BY <1>2 DEF Reorg
  <2>2. peak' = peak
    BY <1>2 DEF Reorg
  <2>3. ChainTypeOK'
    BY <2>1, <2>2, AnyForkType DEF ChainTypeOK
  <2>4. ValidChain(head, fork)'
    <3>1. \A b \in 0 .. head' : b \in 0 .. head /\ b \in Blocks /\ fork'[b] = fork[b]
      BY <2>1, ChainConstants DEF ChainTypeOK
    <3> QED BY <3>1 DEF ValidChain, ChainInv
  <2> QED BY <2>1, <2>2, <2>3, <2>4, ChainConstants DEF ChainInv, ChainTypeOK
<1> QED BY <1>1, <1>2 DEF ChainNext

\* The chain begins well.
LEMMA ChainBegins == ChainInit => ChainTypeOK /\ ChainInv
  BY AnyForkType, ChainConstants DEF ChainInit, ChainTypeOK, ChainInv, ValidChain

\* The transfers of a final block never change.
LEMMA CanonicalStable ==
    ASSUME ChainTypeOK, ChainInv, ChainNext,
           NEW t \in Tokens, NEW b \in Blocks, Final(b)
    PROVE  Canonical(t, b)' = Canonical(t, b)
<1>1. b <= head /\ b <= head' /\ fork'[b] = fork[b]
  BY FinalStable, ChainConstants
<1>2. head \in Int /\ head' \in Int /\ ~(b > head) /\ ~(b > head')
  BY <1>1, ChainInductive, ChainConstants DEF ChainTypeOK
<1> QED BY <1>1, <1>2 DEF Canonical

\* What eth_getLogs returns for a range of final blocks never changes.
LEMMA GetLogsStable ==
    ASSUME ChainTypeOK, ChainInv, ChainNext,
           NEW t \in Tokens, NEW f \in Int, NEW n \in Int, Final(n)
    PROVE  GetLogs(t, f, n)' = GetLogs(t, f, n)
<1>1. \A b \in Blocks : b <= n => b <= head /\ b <= head' /\ fork'[b] = fork[b]
  <2> SUFFICES ASSUME NEW b \in Blocks, b <= n
               PROVE  b <= head /\ b <= head' /\ fork'[b] = fork[b]
    OBVIOUS
  <2>1. Final(b)
    BY ChainConstants DEF Final, ChainTypeOK
  <2> QED BY <2>1, FinalStable, ChainConstants
<1> QED BY <1>1 DEF GetLogs

=============================================================================
