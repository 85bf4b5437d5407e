------------------------- MODULE MaintenanceProofs -------------------------
(* Theorems about module Maintenance, for every set of sessions and batches  *)
(* and any number of purges.                                                 *)
EXTENDS Maintenance, LoaderProofs

\* LoadInv with some or all of the committed rows deleted, and nothing else changed.
LEMMA PurgeKeepsLoads ==
  ASSUME LoadInv, main' \subseteq main, UNCHANGED <<load, bak, index, tx>>
  PROVE  LoadInv'
<1>1. TypeOK'
  BY DEF LoadInv, TypeOK, Contents
<1>2. NameHeldOnce' /\ WorkUnderName' /\ Finished'
  BY DEF LoadInv, NameHeldOnce, WorkUnderName, Finished
<1>3. Replaced'
  BY DEF LoadInv, Replaced
<1> QED  BY <1>1, <1>2, <1>3 DEF LoadInv

\* The steps of loads are steps of Loader.
LEMMA LoadsRefine ==
  ASSUME NEW s \in Sessions, LoadStep(s) \/ Client(s)
  PROVE  Next /\ UNCHANGED <<purge, purges>>
BY DEF LoadStep, Client, Next
-----------------------------------------------------------------------------
\* A statement of a load leaves the rows a purge is to delete as they are, or, when
\* it commits, takes all of them away.
LEMMA StatementInv ==
  ASSUME IInv_m, NEW s \in Sessions, LoadStep(s)
  PROVE  IInv_m'
<1>1. Statement(s) /\ Next /\ UNCHANGED <<purge, purges>>
  BY LoadsRefine DEF LoadStep
<1>2. LoadInv'
  BY <1>1, NextLoadInv DEF IInv_m
<1>3. CASE Commit(s)
  <2>1. tx[s].step = "done" /\ snap' = snap \ tx[s].gone
    BY <1>3 DEF LoadStep, Commit, At
  <2>2. main \subseteq tx[s].gone
    BY <2>1 DEF IInv_m, LoadInv, Replaced
  <2>3. snap' = {}
    BY <2>1, <2>2 DEF IInv_m, PurgeWhole
  <2>4. Indexed => WholeOrNothing'
    BY <1>3, CommitInv DEF IInv_m, WholeOrNothing
  <2> QED  BY <1>1, <1>2, <2>3, <2>4 DEF IInv_m, TypeOK_m, PurgeWhole, LoadInv, Contents
<1>4. CASE ~Commit(s)
  <2>1. UNCHANGED committed
    BY <1>1, <1>4, Zenon DEF Statement, DropBak, CreateBak, DeleteMain, Transform,
                             ClearLoad, Refresh, Raise, Becomes
  <2>2. tx[s].step # "done"
    BY <1>1, <1>4 DEF Statement, DropBak, CreateBak, DeleteMain, Transform, ClearLoad,
                      Refresh, Raise, At
  <2>3. snap' = snap
    BY <2>2 DEF LoadStep, At
  <2> QED  BY <1>1, <1>2, <2>1, <2>3 DEF IInv_m, TypeOK_m, LoadInv, PurgeWhole,
                                         WholeOrNothing, committed
<1> QED  BY <1>3, <1>4

LEMMA ClientInv ==
  ASSUME IInv_m, NEW s \in Sessions, Client(s)
  PROVE  IInv_m'
<1>1. Next /\ UNCHANGED <<committed, purge, snap, purges>>
  BY LoadsRefine DEF Client, Insert, Disconnect, Becomes
<1>2. LoadInv'
  BY <1>1, NextLoadInv DEF IInv_m
<1> QED  BY <1>1, <1>2 DEF IInv_m, TypeOK_m, LoadInv, PurgeWhole, WholeOrNothing,
                           committed

\* The statements of a purge: only its commit changes the table, and leaves nothing of
\* it or, when a load has replaced the rows, all.
LEMMA PurgeInv ==
  ASSUME MaxPurges \in Nat, IInv_m, PurgeBegin \/ PurgeStep \/ PurgeLost
  PROVE  IInv_m'
<1>1. /\ UNCHANGED <<load, bak, index, tx>>
      /\ main' = main \/ (main' = main \ snap /\ snap' = {})
      /\ snap' = snap \/ snap' = main \/ snap' = {}
      /\ purge' \in {"idle", "begun", "deleted", "committed"}
      /\ purges' = purges \/ (purges < MaxPurges /\ purges' = purges + 1)
      /\ main' = main \/ main' = main \ snap
  BY DEF PurgeBegin, PurgeStep, PurgeRows, PurgeCommit, PurgeLost, vars
<1>2. LoadInv'
  BY <1>1, PurgeKeepsLoads DEF IInv_m
<1>3. purges' \in 0..MaxPurges
  BY <1>1 DEF IInv_m, TypeOK_m
<1>4. TypeOK_m'
  BY <1>1, <1>2, <1>3 DEF IInv_m, TypeOK_m, LoadInv, TypeOK, Contents
<1>5. PurgeWhole' /\ (Indexed => WholeOrNothing')
  BY <1>1 DEF IInv_m, PurgeWhole, WholeOrNothing
<1> QED  BY <1>2, <1>4, <1>5 DEF IInv_m

LEMMA InitIInv_m == MaxPurges \in Nat /\ Init_m => IInv_m
<1>1. Init => LoadInv /\ main = index
  BY InitInv DEF IInv, Init
<1> QED  BY <1>1 DEF Init_m, IInv_m, TypeOK_m, LoadInv, PurgeWhole, WholeOrNothing,
                     Contents

LEMMA NextIInv_m ==
  ASSUME MaxPurges \in Nat, IInv_m, [Next_m]_vars_m
  PROVE  IInv_m'
<1>1. CASE UNCHANGED vars_m
  <2>1. LoadInv'
    BY <1>1, NextLoadInv DEF IInv_m, vars_m
  <2> QED  BY <1>1, <2>1 DEF vars_m, vars, IInv_m, TypeOK_m, LoadInv, PurgeWhole,
                             WholeOrNothing
<1> QED  BY <1>1, StatementInv, ClientInv, PurgeInv DEF Next_m

THEOREM Invariance_m == MaxPurges \in Nat => (Spec_m => []IInv_m)
<1> SUFFICES ASSUME MaxPurges \in Nat PROVE Spec_m => []IInv_m
  OBVIOUS
<1> QED  BY InitIInv_m, NextIInv_m, PTL DEF Spec_m

\* The states of table, view, backup, staging table, loads and purges.
THEOREM TypeCorrect_m == MaxPurges \in Nat => (Spec_m => []TypeOK_m)
<1>1. IInv_m => TypeOK_m
  BY DEF IInv_m
<1> QED  BY Invariance_m, <1>1, PTL

\* Readers of schools_daycares find the whole last load, or nothing.
THEOREM WholeOrNone ==
  MaxPurges \in Nat /\ Indexed => (Spec_m => []WholeOrNothing)
<1> SUFFICES ASSUME MaxPurges \in Nat, Indexed PROVE Spec_m => []WholeOrNothing
  OBVIOUS
<1>1. IInv_m => WholeOrNothing
  BY DEF IInv_m
<1> QED  BY Invariance_m, <1>1, PTL
-----------------------------------------------------------------------------
\* What LoadCommits says of a step: it is the commit of that load.
LEMMA LoadCommitsIs ==
  ASSUME IInv_m, Next_m, NEW s \in Sessions, LoadCommits(s)
  PROVE  Commit(s) /\ LoadStep(s)
<1>1. tx[s].step = "done" /\ tx'[s] # tx[s] /\ committed' # committed
  BY DEF LoadCommits, At
<1>2. CASE PurgeBegin \/ PurgeStep \/ PurgeLost
  BY <1>1, <1>2 DEF PurgeBegin, PurgeStep, PurgeRows, PurgeCommit, PurgeLost, vars
<1>3. ASSUME NEW o \in Sessions, Client(o)
      PROVE  FALSE
  BY <1>1, <1>3 DEF Client, Insert, Disconnect, Becomes
<1>4. ASSUME NEW o \in Sessions, LoadStep(o)
      PROVE  Commit(s) /\ LoadStep(s)
  <2>1. Commit(o)
    BY <1>1, <1>4, Zenon DEF LoadStep, Statement, DropBak, CreateBak, DeleteMain,
                             Transform, ClearLoad, Refresh, Raise, Becomes
  <2>2. o = s
    BY <1>1, <2>1 DEF Commit, IInv_m, LoadInv, TypeOK
  <2> QED  BY <1>4, <2>1, <2>2
<1> QED  BY <1>2, <1>3, <1>4 DEF Next_m

\* A load of schools_daycares leaves its view in agreement with the table, whatever
\* was purged before or during it.
THEOREM LoadsRefreshView ==
  MaxPurges \in Nat /\ Indexed => (Spec_m => LoadRefreshesView)
<1> SUFFICES ASSUME MaxPurges \in Nat, Indexed PROVE Spec_m => LoadRefreshesView
  OBVIOUS
<1> DEFINE Agree == \A s \in Sessions : LoadCommits(s) => index' = main'
<1>1. IInv_m /\ Next_m => Agree
  BY LoadCommitsIs, CommitInv DEF IInv_m
<1>2. IInv_m /\ [Next_m]_vars_m => [Agree]_vars_m
  BY <1>1
<1> QED  BY Invariance_m, <1>2, PTL DEF Spec_m, LoadRefreshesView
-----------------------------------------------------------------------------
(* The backup.                                                             *)

\* A statement of session s that changes its own transaction only.
LEMMA CoversLocal ==
  ASSUME IInv_m, CopyCovers, NEW s \in Sessions, NEW t, Becomes(s, t),
         t.step \in {"drop", "create", "delete", "transform", "clear", "refresh"}
           => t.left = 1,
         t.step \in {"drop", "create"} => ~t.created,
         t.step \in Working => main \subseteq t.copy
  PROVE  CopyCovers'
<1>1. /\ tx'[s] = t /\ main' = main
      /\ \A o \in Sessions : o # s => tx'[o] = tx[o]
  BY DEF Becomes, committed, IInv_m, LoadInv, TypeOK
<1> QED  BY <1>1 DEF CopyCovers

LEMMA InsertCovers ==
  ASSUME IInv_m, CopyCovers, MaxRows = 1,
         NEW s \in Sessions, NEW rows \in Inputs, Insert(s, rows)
  PROVE  CopyCovers'
<1> DEFINE t == [NoTx EXCEPT !.step = "drop", !.left = Cardinality(rows),
                             !.staged = rows]
<1>1. IsFiniteSet(rows) /\ rows # {}
  BY FS_Subset, LoaderAssumption DEF Inputs
<1>2. Cardinality(rows) = 1
  <2>1. Cardinality(rows) \in Nat /\ Cardinality(rows) # 0
    BY <1>1, FS_CardinalityType, FS_EmptySet
  <2>2. Cardinality(rows) <= 1
    BY DEF Inputs
  <2> QED  BY <2>1, <2>2
<1>3. t.step = "drop" /\ t.left = 1 /\ ~t.created
  BY <1>2 DEF NoTx
<1> QED  BY <1>3, CoversLocal DEF Insert, Working

\* The copy is of the table as it is: nothing of it has been replaced before.
LEMMA StatementCovers ==
  ASSUME IInv_m, CopyCovers, NEW s \in Sessions, Statement(s)
  PROVE  CopyCovers'
<1> USE DEF Working
<1>0. tx[s] \in Tx
  BY DEF IInv_m, LoadInv, TypeOK
<1>1. CASE DropBak(s)
  <2>1. tx[s].step = "drop" /\ tx[s].left = 1 /\ ~tx[s].created
    BY <1>1 DEF DropBak, At, CopyCovers
  <2> DEFINE t == [tx[s] EXCEPT !.step = "create"]
             u == [t EXCEPT !.dropped = TRUE]
  <2>2. tx[s].copy = NoTable
    BY <2>1 DEF IInv_m, LoadInv, WorkUnderName
  <2>3. /\ t.copy = NoTable
        /\ t.step = "create" /\ t.left = 1 /\ ~t.created
        /\ u.step = "create" /\ u.left = 1 /\ ~u.created
    BY <1>0, <2>1, <2>2 DEF Tx
  <2>4. Becomes(s, t) \/ Becomes(s, u)
    BY <1>1, <2>3 DEF DropBak
  <2> HIDE DEF t, u
  <2> QED  BY <2>3, <2>4, CoversLocal
<1>2. CASE CreateBak(s)
  <2> DEFINE t == [tx[s] EXCEPT !.step = "delete", !.created = TRUE, !.copy = Shown(s)]
  <2>1. tx[s].step = "create" /\ tx[s].left = 1 /\ ~tx[s].created
    BY <1>2 DEF CreateBak, At, CopyCovers
  <2>2. Shown(s) = main
    BY <2>1 DEF IInv_m, LoadInv, WorkUnderName, Shown
  <2>3. t.step = "delete" /\ t.left = 1 /\ t.copy = main
    BY <1>0, <2>1, <2>2 DEF Tx
  <2> QED  BY <1>2, <2>3, CoversLocal DEF CreateBak
<1>3. CASE DeleteMain(s)
  <2> DEFINE t == [tx[s] EXCEPT !.step = "transform", !.gone = @ \cup main, !.added = {}]
  <2>1. t.step = "transform" /\ t.left = 1 /\ main \subseteq t.copy
    BY <1>0, <1>3 DEF DeleteMain, At, CopyCovers, Tx
  <2> QED  BY <1>3, <2>1, CoversLocal DEF DeleteMain
<1>4. CASE Transform(s)
  <2> DEFINE t == [tx[s] EXCEPT !.step = "clear", !.added = @ \cup Staging(s)]
  <2>1. t.step = "clear" /\ t.left = 1 /\ main \subseteq t.copy
    BY <1>0, <1>4 DEF Transform, At, CopyCovers, Tx
  <2> QED  BY <1>4, <2>1, CoversLocal DEF Transform
<1>5. CASE ClearLoad(s)
  <2> DEFINE t == [tx[s] EXCEPT !.cleared = @ \cup load, !.staged = {}]
             u == [t EXCEPT !.step = "refresh"]
             v == AfterRow(t)
  <2>1. tx[s].step = "clear"
    BY <1>5, Zenon DEF ClearLoad, At
  <2>2. t.left = 1 /\ main \subseteq t.copy
    BY <1>0, <2>1 DEF CopyCovers, Tx
  <2>3. u.step = "refresh" /\ u.left = 1 /\ main \subseteq u.copy
    BY <1>0, <2>2 DEF Tx
  <2>4. v.step = "done" /\ main \subseteq v.copy
    BY <1>0, <2>2 DEF AfterRow, Tx
  <2>5. Becomes(s, u) \/ Becomes(s, v)
    BY <1>5 DEF ClearLoad
  <2> HIDE DEF t, u, v
  <2> QED  BY <2>3, <2>4, <2>5, CoversLocal
<1>6. CASE Refresh(s)
  <2> DEFINE t == [tx[s] EXCEPT !.view = Shown(s)]
             v == AfterRow(t)
  <2>1. t.left = 1 /\ main \subseteq t.copy
    BY <1>0, <1>6 DEF Refresh, At, CopyCovers, Tx
  <2>2. v.step = "done" /\ main \subseteq v.copy
    BY <1>0, <2>1 DEF AfterRow, Tx
  <2>3. Becomes(s, v)
    BY <1>6 DEF Refresh
  <2> HIDE DEF t, v
  <2> QED  BY <2>2, <2>3, CoversLocal
<1>7. CASE Commit(s)
  <2>1. tx[s].created
    BY <1>7 DEF Commit, At, IInv_m, LoadInv, WorkUnderName
  <2>2. /\ tx'[s] = NoTx
        /\ \A o \in Sessions : o # s => tx'[o] = tx[o] /\ tx[o].step \notin Working
    BY <1>7, <2>1 DEF Commit, IInv_m, LoadInv, TypeOK, NameHeldOnce, WorkUnderName
  <2> QED  BY <2>2 DEF CopyCovers, NoTx
<1>8. CASE Raise(s)
  BY <1>8, CoversLocal DEF Raise, NoTx
<1> QED  BY <1>1, <1>2, <1>3, <1>4, <1>5, <1>6, <1>7, <1>8 DEF Statement

LEMMA CoversNext ==
  ASSUME IInv_m, CopyCovers, MaxRows = 1, [Next_m]_vars_m
  PROVE  CopyCovers'
<1>1. ASSUME NEW s \in Sessions, Client(s) PROVE CopyCovers'
  BY <1>1, InsertCovers, CoversLocal DEF Client, Disconnect, NoTx, Working
<1>2. ASSUME NEW s \in Sessions, LoadStep(s) PROVE CopyCovers'
  BY <1>2, StatementCovers DEF LoadStep
<1>3. CASE PurgeBegin \/ PurgeStep \/ PurgeLost
  <2>1. main' \subseteq main /\ tx' = tx
    BY <1>3 DEF PurgeBegin, PurgeStep, PurgeRows, PurgeCommit, PurgeLost, vars
  <2> QED  BY <2>1 DEF CopyCovers
<1>4. CASE UNCHANGED vars_m
  BY <1>4 DEF vars_m, vars, CopyCovers
<1> QED  BY <1>1, <1>2, <1>3, <1>4 DEF Next_m

\* With one document per statement, whatever rows a load replaces are in the backup it
\* leaves, although a purge may delete rows after the copy was made.
THEOREM BackupCovers ==
  MaxPurges \in Nat /\ MaxRows = 1 => (Spec_m => BackupCoversReplaced)
<1> SUFFICES ASSUME MaxPurges \in Nat, MaxRows = 1
             PROVE  Spec_m => BackupCoversReplaced
  OBVIOUS
<1> DEFINE Covered == \A s \in Sessions : LoadCommits(s) => main \subseteq bak'
<1>1. Init_m => CopyCovers
  BY DEF Init_m, Init, CopyCovers, NoTx, Working
<1>2. IInv_m /\ CopyCovers /\ [Next_m]_vars_m => CopyCovers'
  BY CoversNext
<1>3. IInv_m /\ CopyCovers /\ Next_m => Covered
  BY LoadCommitsIs DEF CopyCovers, Commit, At, Working
<1>4. IInv_m /\ CopyCovers /\ [Next_m]_vars_m => [Covered]_vars_m
  BY <1>3
<1> QED  BY Invariance_m, <1>1, <1>2, <1>4, PTL DEF Spec_m, BackupCoversReplaced
=============================================================================
