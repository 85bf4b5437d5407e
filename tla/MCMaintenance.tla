---------------------------- MODULE MCMaintenance ----------------------------
(***************************************************************************)
(* The scripts that handle the rows of the lookup tables, for TLC: those   *)
(* of LookupData, or the loaders of Maintenance with the purge of their    *)
(* table.  LookupData starts from empty tables and has one row for all of  *)
(* a table; Maintenance starts from a filled one and has its rows.  A      *)
(* behaviour is one of the two (part), the other one stands still.         *)
(***************************************************************************)
EXTENDS LookupData

CONSTANTS Sessions, Batches, Malformed, MaxRows, Indexed, Seed, NoTable, MaxPurges

VARIABLES part, main, load, bak, loaderIndex, tx, purge, snap, purges

M == INSTANCE Maintenance WITH index <- loaderIndex

ASSUME MaintenanceAssumption == M!LoaderAssumption /\ MaxPurges \in Nat

loaders == <<main, load, bak, loaderIndex, tx, purge, snap, purges>>
vars_p == <<vars, part, loaders>>

Init_p == part \in {"tables", "loaders"} /\ Init /\ M!Init_m

Tables == part = "tables" /\ UNCHANGED <<part, loaders>>
Loaders == part = "loaders" /\ UNCHANGED <<part, vars>>

Next_p ==
  \/ Tables /\ Next
  \/ Loaders /\ M!Next_m

FairSpec_p ==
  /\ Init_p /\ [][Next_p]_vars_p
  /\ \A l \in Loads : WF_vars_p(Tables /\ LoadStep(l))
  /\ SF_vars_p(Loaders /\ M!PurgeStep)
  /\ \A s \in Sessions : SF_vars_p(Loaders /\ M!LoadStep(s))
-----------------------------------------------------------------------------
(* The properties of Maintenance.                                          *)

\* The states of tables, views, backups and scripts, of both.
TypesOK == TypeOK /\ M!TypeOK_m

\* Readers find a whole load or nothing in a table that is loaded and purged.
WholeOrNothing == M!WholeOrNothing

\* A load leaves table and view in agreement, whatever was purged meanwhile.
LoadRefreshesView == M!LoadRefreshesView

\* A purge in the middle of a load takes no row out of the load's backup.
BackupCoversReplaced == M!BackupCoversReplaced

\* Purges and loads that wait for each other's rows all end.
AllEnd == M!AllEnd
=============================================================================
