---------------------------- MODULE Maintenance ----------------------------
(***************************************************************************)
(* The loaders of module Loader together with the last statement of        *)
(* DeleteLookupData.sql, `delete from schools_daycares` (for lots: its     *)
(* third one), which an administrator may run at any time.  It is a        *)
(* transaction of its own in READ COMMITTED: it deletes the rows that were *)
(* committed when it began, waits for those that a load is deleting,       *)
(* passes over those that are gone by then, and refreshes no view.         *)
(***************************************************************************)
EXTENDS Loader

CONSTANT MaxPurges  \* bound: runs of the statement

VARIABLES
  purge,  \* the statement: "idle", "begun" (may wait), "deleted" (uncommitted) or
          \* "committed"
  snap,   \* the rows it is to delete that are still there
  purges

vars_m == <<vars, purge, snap, purges>>
-----------------------------------------------------------------------------
PurgeBegin ==
  /\ purge \in {"idle", "committed"} /\ purge' = "begun"
  /\ snap' = main
  /\ purges < MaxPurges /\ purges' = purges + 1
  /\ UNCHANGED vars

\* All rows that are left are deleted: none is being deleted by a load.
PurgeRows ==
  /\ purge = "begun" /\ purge' = "deleted"
  /\ \A s \in Sessions : tx[s].gone \cap snap = {}
  /\ UNCHANGED <<vars, snap, purges>>

PurgeCommit_left_open ==  \* mutant: the session waits for an explicit COMMIT
  /\ purge = "deleted" /\ snap = {} /\ purge' = "committed"
  /\ main' = main \ snap /\ snap' = {}
  /\ UNCHANGED <<load, bak, index, tx, purges>>

PurgeCommit_one_row ==  \* mutant: only some of the rows are deleted
  /\ purge = "deleted" /\ purge' = "committed"
  /\ \E rows \in SUBSET snap : main' = main \ rows
  /\ snap' = {}
  /\ UNCHANGED <<load, bak, index, tx, purges>>

PurgeCommit ==
  /\ purge = "deleted" /\ purge' = "committed"
  /\ main' = main \ snap /\ snap' = {}
  /\ UNCHANGED <<load, bak, index, tx, purges>>

\* The administrator interrupts psql, or its connection is lost.
PurgeLost ==
  /\ purge \in {"begun", "deleted"} /\ purge' = "idle" /\ snap' = {}
  /\ UNCHANGED <<vars, purges>>
-----------------------------------------------------------------------------
\* The DELETE of a load waits for rows that the purge has deleted; a load that
\* commits has replaced rows, which are then no longer there to purge.
LoadStep(s) ==
  /\ Statement(s)
  /\ At(s, "delete") /\ purge = "deleted" => Shown(s) \cap snap = {}
  /\ snap' = IF At(s, "done") THEN snap \ tx[s].gone ELSE snap
  /\ UNCHANGED <<purge, purges>>

Client(s) ==
  /\ (\E rows \in Inputs : Insert(s, rows)) \/ Disconnect(s)
  /\ UNCHANGED <<purge, snap, purges>>

PurgeStep == PurgeRows \/ PurgeCommit

Init_m == Init /\ purge = "idle" /\ snap = {} /\ purges = 0

Next_m == \/ PurgeBegin \/ PurgeStep \/ PurgeLost
          \/ \E s \in Sessions : LoadStep(s) \/ Client(s)

Spec_m == Init_m /\ [][Next_m]_vars_m

\* As in Loader: lock queues are first come, first served.
FairSpec_m == /\ Spec_m /\ SF_vars_m(PurgeStep)
              /\ \A s \in Sessions : SF_vars_m(LoadStep(s))
-----------------------------------------------------------------------------
TypeOK_m ==
  /\ TypeOK
  /\ purge \in {"idle", "begun", "deleted", "committed"} /\ snap \in Contents
  /\ purges \in 0..MaxPurges

\* Readers of the table find the rows of one whole load, the last one, or none: a
\* purge never leaves part of them, nor deletes part of what a load has put there.
WholeOrNothing == main = index \/ main = {}

LoadCommits(s) == At(s, "done") /\ tx'[s] # tx[s] /\ committed' # committed

\* Whatever was purged before or during it, a load leaves the view in agreement with
\* the table.
LoadRefreshesView == [][\A s \in Sessions : LoadCommits(s) => index' = main']_vars_m

\* The rows a load replaces are all in the backup it leaves, with a purge in the
\* middle of the load too.
BackupCoversReplaced == [][\A s \in Sessions : LoadCommits(s) => main \subseteq bak']_vars_m

\* Purges and loads that wait for each other's rows both end.
AllEnd == /\ purge \in {"begun", "deleted"} ~> purge \in {"idle", "committed"}
          /\ \A s \in Sessions : ~At(s, "idle") ~> At(s, "idle")
-----------------------------------------------------------------------------
(* The inductive invariant: LoadInv, which a purge does not disturb, and   *)

\* what is still there of the rows that a purge is to delete is all or nothing.
PurgeWhole == snap = {} \/ snap = main

IInv_m == TypeOK_m /\ LoadInv /\ PurgeWhole /\ (Indexed => WholeOrNothing)

\* And for BackupCoversReplaced: with one row per INSERT the trigger runs once, and
\* its copy is of a table that the load has not changed.
CopyCovers ==
  \A s \in Sessions :
    /\ tx[s].step \in {"drop", "create", "delete", "transform", "clear", "refresh"}
         => tx[s].left = 1
    /\ tx[s].step \in {"drop", "create"} => ~tx[s].created
    /\ tx[s].step \in Working => main \subseteq tx[s].copy
=============================================================================
