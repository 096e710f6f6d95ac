---------------------------- MODULE Maintenance ----------------------------
(***************************************************************************)
(* Backfills on a database that no live indexer writes to, but an operator *)
(* does: the "historical DB truncation or a manual cursor reset" that      *)
(* models.py names as the reason for gap scans.  The operator works while  *)
(* no backfill is running.                                                 *)
(***************************************************************************)
EXTENDS Backfill

maintenanceVars == <<chainVars, storeVars, fetchVars, backfillVars>>

\* Rows of a token's block range are deleted, with the coverage records that
\* speak of any of these blocks.
Truncate ==
    /\ mpc = "idle"
    /\ \E f, n \in Blocks :
          /\ transfers' = {r \in transfers :
                             ~(TokenOf[r.key] = BackfillToken
                               /\ f <= r.block /\ r.block <= n)}
          /\ ranges' = {r \in ranges : ~(r.token = BackfillToken
                                         /\ f <= r.to /\ r.from <= n)}
    /\ UNCHANGED <<cursors, tokens, chainVars, fetchVars, backfillVars>>

\* The cursor row is deleted, or set to a final block.
ResetCursor ==
    /\ mpc = "idle"
    /\ \E n \in {b \in Blocks : Final(b)} \cup {NoCursor} :
          cursors' = [cursors EXCEPT ![BackfillToken] = n]
    /\ UNCHANGED <<transfers, ranges, tokens, chainVars, fetchVars, backfillVars>>

MaintenanceInit == ChainInit /\ StoreInit /\ FetchInit /\ BackfillInit

MaintenanceNext ==
    \/ ChainNext /\ UNCHANGED <<storeVars, fetchVars, backfillVars>>
    \/ BackfillNext
    \/ Truncate \/ ResetCursor

MaintenanceSpec == MaintenanceInit /\ [][MaintenanceNext]_maintenanceVars

\* The main thread and the workers keep running; their calls return.
FairMaintenanceSpec ==
    /\ MaintenanceSpec
    /\ WF_maintenanceVars(MainStep)
    /\ \A w \in Workers : WF_maintenanceVars(WorkerStep(w))

\* Every variable has its type.
MaintenanceTypeOK == ChainTypeOK /\ StoreTypeOK /\ FetchTypeOK /\ BackfillTypeOK

=============================================================================
