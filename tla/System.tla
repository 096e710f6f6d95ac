------------------------------- MODULE System -------------------------------
(***************************************************************************)
(* Both writers: the live indexer and backfills at work on one database    *)
(* and one node at the same time.  They share the tables and nothing else; *)
(* nothing in the code keeps one out while the other runs.                 *)
(***************************************************************************)
EXTENDS Indexer, Backfill

ASSUME SystemConstants == Indexers \cap Workers = {}

systemVars == <<vars, backfillVars>>

SystemInit == Init /\ BackfillInit

SystemNext ==
    \/ Next /\ UNCHANGED backfillVars
    \/ BackfillNext /\ UNCHANGED procVars

SystemSpec == SystemInit /\ [][SystemNext]_systemVars

\* The inductive invariant: neither disturbs what the other relies on.
SystemInv == IndInv /\ BackfillInv

=============================================================================
