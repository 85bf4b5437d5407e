---------------------------- MODULE LoaderProofs ----------------------------
(* Theorems about module Loader, for every set of sessions and batches. *)
EXTENDS Loader, FiniteSetTheorems, TLAPS

\* The transaction record of an idle session, and how a typed record is read.
LEMMA NoTxType == NoTx \in Tx
  BY DEF NoTx, Tx, Steps, Contents

LEMMA ShownType ==
  ASSUME TypeOK, NEW s \in Sessions
  PROVE  /\ tx[s] \in Tx
         /\ Shown(s) \in Contents /\ Staging(s) \in Contents
         /\ Shown(s) # NoTable
<1>1. tx[s] \in Tx  BY DEF TypeOK
<1>2. Shown(s) \in Contents /\ Staging(s) \in Contents
  BY <1>1 DEF TypeOK, Tx, Contents, Shown, Staging
<1> QED  BY <1>1, <1>2, LoaderAssumption DEF Contents

LEMMA AfterRowFacts ==
  ASSUME NEW t \in Tx, t.left \in Nat \ {0}
  PROVE  /\ AfterRow(t) \in Tx
         /\ AfterRow(t).step \in {"drop", "done"}
         /\ AfterRow(t).staged = t.staged /\ AfterRow(t).cleared = t.cleared
         /\ AfterRow(t).dropped = t.dropped /\ AfterRow(t).created = t.created
         /\ AfterRow(t).copy = t.copy /\ AfterRow(t).view = t.view
         /\ AfterRow(t).gone = t.gone /\ AfterRow(t).added = t.added
<1>1. t.left - 1 \in Nat  OBVIOUS
<1>2. CASE t.left > 1   BY <1>1, <1>2 DEF AfterRow, Tx, Steps
<1>3. CASE ~(t.left > 1)  BY <1>1, <1>3 DEF AfterRow, Tx, Steps
<1> QED  BY <1>2, <1>3

(***************************************************************************)
(* Every action but Commit changes the transaction of one session only.    *)
(* Fits(s, t) is what the new transaction t must satisfy for the invariant *)
(* to survive; each action's proof is that its t fits.                     *)
(***************************************************************************)
Fits(s, t) ==
  /\ t \in Tx
  /\ t.created /\ ~tx[s].created => \A o \in Others(s) : ~tx[o].created
  /\ t.dropped /\ ~tx[s].dropped => \A o \in Others(s) : ~tx[o].dropped
  /\ t.dropped => bak # NoTable
  /\ t.created => bak = NoTable \/ t.dropped
  /\ t.step \in Working => t.created /\ t.copy # NoTable
  /\ ~t.created => /\ t.copy = NoTable /\ t.view = NoTable
                   /\ t.gone = {} /\ t.added = {}
  /\ t.step \notin {"idle", "done"} => t.left > 0
  /\ t.step \in {"refresh", "done"} => t.staged = {}
  /\ t.gone # {} \/ t.added # {} => main \subseteq t.gone
  /\ t.step \in {"transform", "clear", "refresh", "done"} => main \subseteq t.gone
  /\ Indexed /\ t.step = "done" => t.view = t.added

LEMMA LocalStep ==
  ASSUME LoadInv, NEW s \in Sessions, NEW t, Becomes(s, t), Fits(s, t)
  PROVE  LoadInv'
<1> USE DEF Becomes, committed
<1>1. /\ tx'[s] = t
      /\ \A o \in Sessions : o # s => tx'[o] = tx[o]
      /\ main' = main /\ load' = load /\ bak' = bak /\ index' = index
  BY DEF LoadInv, TypeOK
<1>2. TypeOK'
  BY DEF LoadInv, TypeOK, Fits
<1>3. NameHeldOnce'
  BY <1>1 DEF LoadInv, NameHeldOnce, Fits, Others
<1>4. WorkUnderName'
  BY <1>1 DEF LoadInv, WorkUnderName, Fits
<1>5. Finished'
  BY <1>1 DEF LoadInv, Finished, Fits
<1>6. Replaced'
  BY <1>1 DEF LoadInv, Replaced, Fits
<1> QED  BY <1>2, <1>3, <1>4, <1>5, <1>6 DEF LoadInv

LEMMA InsertInv ==
  ASSUME LoadInv, NEW s \in Sessions, NEW rows \in Inputs, Insert(s, rows)
  PROVE  LoadInv'
<1> DEFINE t == [NoTx EXCEPT !.step = "drop", !.left = Cardinality(rows),
                             !.staged = rows]
<1>1. IsFiniteSet(rows) /\ rows # {} /\ rows \in Contents
  BY FS_Subset, LoaderAssumption DEF Inputs, Contents
<1>2. Cardinality(rows) \in Nat /\ Cardinality(rows) > 0
  BY <1>1, FS_CardinalityType, FS_EmptySet
<1>3. t \in Tx
  BY <1>1, <1>2 DEF NoTx, Tx, Steps, Contents
<1>4. Fits(s, t)
  BY <1>2, <1>3 DEF Fits, NoTx, Working
<1> QED  BY <1>4, LocalStep DEF Insert

LEMMA DropBakInv ==
  ASSUME LoadInv, NEW s \in Sessions, DropBak(s)
  PROVE  LoadInv'
<1> DEFINE t == [tx[s] EXCEPT !.step = "create"]
<1>1. tx[s] \in Tx /\ t \in Tx
  BY ShownType DEF LoadInv, Tx, Steps
<1>2. CASE t.copy # NoTable /\ Becomes(s, [t EXCEPT !.copy = NoTable])
  <2>1. Fits(s, [t EXCEPT !.copy = NoTable])
    BY <1>1, <1>2 DEF LoadInv, NameHeldOnce, WorkUnderName, Finished, Replaced, Fits, Tx, Working,
                      DropBak, At
  <2> QED  BY <1>2, <2>1, LocalStep
<1>3. CASE /\ t.copy = NoTable /\ bak # NoTable
           /\ \A o \in Others(s) : ~tx[o].dropped
           /\ Becomes(s, [t EXCEPT !.dropped = TRUE])
  <2>1. Fits(s, [t EXCEPT !.dropped = TRUE])
    BY <1>1, <1>3 DEF LoadInv, NameHeldOnce, WorkUnderName, Finished, Replaced, Fits, Tx, Working,
                      DropBak, At
  <2> QED  BY <1>3, <2>1, LocalStep
<1>4. CASE t.copy = NoTable /\ bak = NoTable /\ Becomes(s, t)
  <2>1. Fits(s, t)
    BY <1>1, <1>4 DEF LoadInv, NameHeldOnce, WorkUnderName, Finished, Replaced, Fits, Tx, Working,
                      DropBak, At
  <2> QED  BY <1>4, <2>1, LocalStep
<1> QED  BY <1>2, <1>3, <1>4 DEF DropBak

LEMMA CreateBakInv ==
  ASSUME LoadInv, NEW s \in Sessions, CreateBak(s)
  PROVE  LoadInv'
<1> DEFINE t == [tx[s] EXCEPT !.step = "delete", !.created = TRUE, !.copy = Shown(s)]
<1>1. tx[s] \in Tx /\ Shown(s) \in Contents /\ Shown(s) # NoTable
  BY ShownType DEF LoadInv
<1>2. t \in Tx
  BY <1>1 DEF Tx, Steps
<1>3. Fits(s, t)
  BY <1>1, <1>2 DEF LoadInv, NameHeldOnce, Finished, Replaced, Fits, Tx, CreateBak, NameTaken, At
<1> QED  BY <1>3, LocalStep DEF CreateBak

LEMMA DeleteMainInv ==
  ASSUME LoadInv, NEW s \in Sessions, DeleteMain(s)
  PROVE  LoadInv'
<1> DEFINE t == [tx[s] EXCEPT !.step = "transform", !.gone = @ \cup main,
                              !.added = {}]
<1>1. tx[s] \in Tx /\ t \in Tx
  BY ShownType DEF LoadInv, TypeOK, Tx, Steps, Contents
<1>2. Fits(s, t)
  BY <1>1 DEF LoadInv, NameHeldOnce, WorkUnderName, Finished, Replaced, Fits, Tx, Working,
              DeleteMain, At
<1> QED  BY <1>2, LocalStep DEF DeleteMain

LEMMA TransformInv ==
  ASSUME LoadInv, NEW s \in Sessions, Transform(s)
  PROVE  LoadInv'
<1> DEFINE t == [tx[s] EXCEPT !.step = "clear", !.added = @ \cup Staging(s)]
<1>1. tx[s] \in Tx /\ Staging(s) \in Contents
  BY ShownType DEF LoadInv
<1>2. t \in Tx
  BY <1>1 DEF Tx, Steps, Contents
<1>3. Fits(s, t)
  BY <1>1, <1>2 DEF LoadInv, NameHeldOnce, WorkUnderName, Finished, Replaced, Fits, Tx, Working,
                    Transform, At
<1> QED  BY <1>3, LocalStep DEF Transform

LEMMA ClearLoadInv ==
  ASSUME LoadInv, NEW s \in Sessions, ClearLoad(s)
  PROVE  LoadInv'
<1> DEFINE t == [tx[s] EXCEPT !.cleared = @ \cup load, !.staged = {}]
<1>1. tx[s] \in Tx /\ t \in Tx /\ t.left \in Nat \ {0}
  <2>1. tx[s] \in Tx /\ load \in Contents
    BY DEF LoadInv, TypeOK
  <2>2. tx[s].step = "clear"
    BY Zenon DEF ClearLoad, At
  <2>3. tx[s].left > 0
    BY <2>2, Zenon DEF LoadInv, Finished
  <2>4. tx[s].cleared \cup load \in Contents /\ {} \in Contents /\ tx[s].left \in Nat
    BY <2>1 DEF Tx, Contents
  <2>5. t \in Tx
    BY <2>1, <2>4 DEF Tx
  <2>6. t.left = tx[s].left
    BY <2>1 DEF Tx
  <2> QED  BY <2>1, <2>3, <2>4, <2>5, <2>6
<1>2. CASE Indexed
  <2>1. Fits(s, [t EXCEPT !.step = "refresh"])
    BY <1>1 DEF LoadInv, NameHeldOnce, WorkUnderName, Finished, Replaced, Fits, Tx, Steps, Working,
                ClearLoad, At
  <2> QED  BY <1>2, <2>1, LocalStep DEF ClearLoad
<1>3. CASE ~Indexed
  <2> DEFINE u == AfterRow(t)
  <2>1. /\ u \in Tx /\ u.step \in {"drop", "done"}
        /\ u.staged = {} /\ u.copy = tx[s].copy /\ u.view = tx[s].view
        /\ u.dropped = tx[s].dropped /\ u.created = tx[s].created
        /\ u.gone = tx[s].gone /\ u.added = tx[s].added
    BY <1>1, AfterRowFacts DEF Tx
  <2>2. u.step # "done" => u.left > 0
    BY <1>1 DEF AfterRow, Tx
  <2>3. Fits(s, u)
    <3> HIDE DEF u
    <3> QED  BY <1>1, <1>3, <2>1, <2>2
             DEF LoadInv, NameHeldOnce, WorkUnderName, Replaced, Fits, Working, ClearLoad, At
  <2> QED  BY <1>3, <2>3, LocalStep DEF ClearLoad
<1> QED  BY <1>2, <1>3

LEMMA RefreshInv ==
  ASSUME LoadInv, NEW s \in Sessions, Refresh(s)
  PROVE  LoadInv'
<1> DEFINE t == [tx[s] EXCEPT !.view = Shown(s)]
           u == AfterRow(t)
<1>1. /\ tx[s] \in Tx /\ Shown(s) \in Contents
      /\ tx[s].left \in Nat \ {0} /\ tx[s].staged = {}
      /\ tx[s].created
  BY ShownType DEF LoadInv, Finished, WorkUnderName, Working, Tx, Refresh, At
<1>2. t \in Tx /\ t.left \in Nat \ {0}
  BY <1>1 DEF Tx
<1>3. /\ u \in Tx /\ u.step \in {"drop", "done"}
      /\ u.staged = {} /\ u.copy = tx[s].copy /\ u.view = Shown(s)
      /\ u.dropped = tx[s].dropped /\ u.created = tx[s].created
      /\ u.gone = tx[s].gone /\ u.added = tx[s].added
  BY <1>1, <1>2, AfterRowFacts DEF Tx
<1>4. u.step # "done" => u.left > 0
  BY <1>2 DEF AfterRow, Tx
<1>5. Fits(s, u)
  <2> HIDE DEF u
  <2> QED  BY <1>1, <1>3, <1>4
           DEF LoadInv, NameHeldOnce, WorkUnderName, Replaced, Fits, Working, Refresh, At, Shown
<1> QED  BY <1>5, LocalStep DEF Refresh

\* A transaction that ends without a trace: Raise, and Disconnect.
LEMMA RollbackInv ==
  ASSUME LoadInv, NEW s \in Sessions, Becomes(s, NoTx)
  PROVE  LoadInv'
<1>1. Fits(s, NoTx)
  BY NoTxType DEF Fits, NoTx, Working
<1> QED  BY <1>1, LocalStep

LEMMA CommitInv ==
  ASSUME LoadInv, NEW s \in Sessions, Commit(s)
  PROVE  LoadInv' /\ main' = tx[s].added /\ (Indexed => index' = main')
<1>0. /\ tx[s] \in Tx /\ tx[s].step = "done"
      /\ Shown(s) \in Contents /\ Staging(s) \in Contents /\ Shown(s) # NoTable
  BY ShownType DEF LoadInv, Commit, At
<1>1. /\ load = {} /\ tx[s].staged = {} /\ tx[s].created /\ tx[s].copy # NoTable
      /\ Shown(s) = tx[s].added
      /\ Indexed => tx[s].view = Shown(s)
  BY <1>0 DEF LoadInv, Finished, Replaced, WorkUnderName, Working, Shown
<1>2. /\ tx'[s] = NoTx
      /\ \A o \in Sessions : o # s => tx'[o] = tx[o]
      /\ main' = Shown(s) /\ load' = {} /\ bak' = tx[s].copy
      /\ Indexed => index' = Shown(s)
  BY <1>0, <1>1 DEF LoadInv, TypeOK, Commit, Staging
<1>3. TypeOK'
  BY <1>0, <1>1, <1>2, NoTxType DEF LoadInv, TypeOK, Tx, Contents, Commit
<1>4. \A o \in Sessions : o # s => ~tx[o].created /\ tx[o].step \notin Working
  BY <1>1 DEF LoadInv, NameHeldOnce, WorkUnderName
<1>5. NameHeldOnce'
  BY <1>1, <1>2, <1>4 DEF LoadInv, NameHeldOnce, NoTx
<1>6. WorkUnderName'
  BY <1>2 DEF LoadInv, WorkUnderName, NoTx, Working
<1>7. Finished'
  BY <1>2, <1>4 DEF LoadInv, Finished, NoTx, Working
<1>8. Replaced'
  BY <1>2, <1>4 DEF LoadInv, Replaced, WorkUnderName, NoTx, Working
<1> QED  BY <1>1, <1>2, <1>3, <1>5, <1>6, <1>7, <1>8 DEF LoadInv

LEMMA InitInv == Init => IInv
<1> SUFFICES ASSUME Init PROVE IInv
  OBVIOUS
<1>1. TypeOK
  BY NoTxType, LoaderAssumption DEF Init, TypeOK, Contents
<1>2. \A s \in Sessions : tx[s] = NoTx
  BY DEF Init
<1>3. NameHeldOnce /\ WorkUnderName /\ Finished /\ Replaced /\ IndexFollowsTable
  BY <1>2 DEF Init, NameHeldOnce, WorkUnderName, Finished, Replaced, IndexFollowsTable,
              NoTx, Working
<1> QED  BY <1>1, <1>3 DEF LoadInv, IInv

LEMMA NextLoadInv == LoadInv /\ [Next]_vars => LoadInv'
<1> SUFFICES ASSUME LoadInv, [Next]_vars PROVE LoadInv'
  OBVIOUS
<1>1. ASSUME NEW s \in Sessions, NEW rows \in Inputs, Insert(s, rows) PROVE LoadInv'
  BY <1>1, InsertInv
<1>2. ASSUME NEW s \in Sessions, DropBak(s) PROVE LoadInv'
  BY <1>2, DropBakInv
<1>3. ASSUME NEW s \in Sessions, CreateBak(s) PROVE LoadInv'
  BY <1>3, CreateBakInv
<1>4. ASSUME NEW s \in Sessions, DeleteMain(s) PROVE LoadInv'
  BY <1>4, DeleteMainInv
<1>5. ASSUME NEW s \in Sessions, Transform(s) PROVE LoadInv'
  BY <1>5, TransformInv
<1>6. ASSUME NEW s \in Sessions, ClearLoad(s) PROVE LoadInv'
  BY <1>6, ClearLoadInv
<1>7. ASSUME NEW s \in Sessions, Refresh(s) PROVE LoadInv'
  BY <1>7, RefreshInv
<1>8. ASSUME NEW s \in Sessions, Commit(s) PROVE LoadInv'
  BY <1>8, CommitInv
<1>9. ASSUME NEW s \in Sessions, Raise(s) \/ Disconnect(s) PROVE LoadInv'
  BY <1>9, RollbackInv DEF Raise, Disconnect
<1>10. CASE UNCHANGED vars
  BY <1>10 DEF LoadInv, TypeOK, NameHeldOnce, WorkUnderName, Finished, Replaced, vars
<1> QED  BY <1>1, <1>2, <1>3, <1>4, <1>5, <1>6, <1>7, <1>8, <1>9, <1>10
         DEF Next, Statement

\* Only a commit changes what is committed.
LEMMA OnlyCommits ==
  ASSUME [Next]_vars, committed' # committed
  PROVE  \E s \in Sessions : Commit(s)
<1> SUFFICES ASSUME ~\E s \in Sessions : Commit(s) PROVE UNCHANGED committed
  OBVIOUS
<1>1. CASE UNCHANGED vars
  BY <1>1 DEF vars, committed
<1>2. ASSUME NEW s \in Sessions,
             \/ \E rows \in Inputs : Insert(s, rows)
             \/ Statement(s)
             \/ Disconnect(s)
      PROVE  UNCHANGED committed
  BY <1>2, Zenon DEF Insert, Disconnect, Statement, DropBak, CreateBak, DeleteMain,
                     Transform, ClearLoad, Refresh, Raise, Becomes
<1> QED  BY <1>1, <1>2 DEF Next

LEMMA NextInv == IInv /\ [Next]_vars => IInv'
<1> SUFFICES ASSUME IInv, [Next]_vars PROVE IInv'
  OBVIOUS
<1>1. LoadInv'
  BY NextLoadInv DEF IInv
<1>2. IndexFollowsTable'
  <2>1. CASE committed' = committed
    BY <2>1 DEF committed, IInv, IndexFollowsTable
  <2>2. CASE committed' # committed
    BY <2>2, OnlyCommits, CommitInv DEF IInv, IndexFollowsTable
  <2> QED  BY <2>1, <2>2
<1> QED  BY <1>1, <1>2 DEF IInv

\* The inductive invariant, from which the properties below follow.
THEOREM Invariance == Spec => []IInv
<1> QED  BY InitInv, NextInv, PTL DEF Spec

\* Type correctness of the loader, for every set of sessions and of batches.
THEOREM TypeCorrect == Spec => []TypeOK
<1>1. IInv => TypeOK  BY DEF IInv, LoadInv
<1> QED  BY <1>1, Invariance, PTL

\* Two loads never overlap in what they change, however many sessions load and
\* however many rows an INSERT has: the name of the backup table is the lock of
\* the trigger functions, although neither takes one.
THEOREM Exclusive == Spec => []LoaderExclusive
<1>1. IInv => LoaderExclusive
  BY DEF IInv, LoadInv, WorkUnderName, NameHeldOnce, LoaderExclusive, Touched, Others
<1> QED  BY <1>1, Invariance, PTL

\* schools_daycares_index never differs from the committed rows of its table.
THEOREM ViewNeverStale == Spec => []IndexFollowsTable
<1>1. IInv => IndexFollowsTable  BY DEF IInv
<1> QED  BY <1>1, Invariance, PTL
-----------------------------------------------------------------------------
(***************************************************************************)
(* The refinement: with one row per INSERT, the trigger is the atomic      *)
(* replacement of module AtomicLoad.  Everything before Commit stutters.   *)
(***************************************************************************)
LEMMA SingleLocal ==
  ASSUME LoadInv, SingleRow, NEW s \in Sessions, NEW t, Becomes(s, t), Single(t)
  PROVE  SingleRow'
<1>1. /\ tx'[s] = t
      /\ \A o \in Sessions : o # s => tx'[o] = tx[o]
      /\ main' = main
  BY DEF LoadInv, TypeOK, Becomes, committed
<1>2. ASSUME NEW o \in Sessions PROVE Single(tx[o])'
  <2>1. Single(tx'[o])
    BY <1>1 DEF SingleRow
  <2> QED  BY <1>1, <2>1 DEF Single
<1> QED  BY <1>2 DEF SingleRow

LEMMA InsertSingle ==
  ASSUME LoadInv, SingleRow, MaxRows = 1,
         NEW s \in Sessions, NEW rows \in Inputs, Insert(s, rows)
  PROVE  SingleRow'
<1> DEFINE t == [NoTx EXCEPT !.step = "drop", !.left = Cardinality(rows),
                             !.staged = rows]
<1>1. IsFiniteSet(rows) /\ rows # {} /\ rows \subseteq Batches
  BY FS_Subset, LoaderAssumption DEF Inputs
<1>2. Cardinality(rows) = 1
  <2>1. Cardinality(rows) \in Nat /\ Cardinality(rows) # 0
    BY <1>1, FS_CardinalityType, FS_EmptySet
  <2>2. Cardinality(rows) <= 1
    BY DEF Inputs
  <2> QED  BY <2>1, <2>2
<1>3. \E b \in Batches : rows = {b}
  BY <1>1, <1>2, FS_Singleton
<1>4. Single(t)
  BY <1>2, <1>3 DEF Single, NoTx, Working
<1> QED  BY <1>4, SingleLocal DEF Insert

LEMMA DropBakSingle ==
  ASSUME LoadInv, SingleRow, NEW s \in Sessions, DropBak(s)
  PROVE  SingleRow'
<1> DEFINE t == [tx[s] EXCEPT !.step = "create"]
<1>1. tx[s] \in Tx /\ Single(tx[s]) /\ tx[s].step = "drop"
  BY ShownType DEF LoadInv, SingleRow, DropBak, At
<1>2. tx[s].copy = NoTable
  BY <1>1 DEF LoadInv, WorkUnderName, Single
<1>3. Single(t) /\ Single([t EXCEPT !.dropped = TRUE])
  BY <1>1 DEF Single, Tx, Working
<1>4. t.copy = NoTable
  BY <1>1, <1>2 DEF Tx
<1> QED  BY <1>3, <1>4, SingleLocal DEF DropBak

LEMMA CreateBakSingle ==
  ASSUME LoadInv, SingleRow, NEW s \in Sessions, CreateBak(s)
  PROVE  SingleRow'
<1> DEFINE t == [tx[s] EXCEPT !.step = "delete", !.created = TRUE, !.copy = Shown(s)]
<1>1. tx[s] \in Tx /\ Single(tx[s]) /\ tx[s].step = "create"
  BY ShownType DEF LoadInv, SingleRow, CreateBak, At
<1>2. tx[s].gone = {} /\ tx[s].added = {}
  BY <1>1 DEF LoadInv, WorkUnderName, Single
<1>3. Shown(s) = main
  BY <1>2 DEF Shown
<1>4. Single(t)
  BY <1>1, <1>2, <1>3 DEF Single, Tx, Working
<1> QED  BY <1>4, SingleLocal DEF CreateBak

LEMMA DeleteMainSingle ==
  ASSUME LoadInv, SingleRow, NEW s \in Sessions, DeleteMain(s)
  PROVE  SingleRow'
<1> DEFINE t == [tx[s] EXCEPT !.step = "transform", !.gone = @ \cup main,
                              !.added = {}]
<1>1. tx[s] \in Tx /\ Single(tx[s]) /\ tx[s].step = "delete"
  BY ShownType DEF LoadInv, SingleRow, DeleteMain, At
<1>2. tx[s].gone \cup main = main
  BY <1>1 DEF Single
<1>3. Single(t)
  BY <1>1, <1>2 DEF Single, Tx, Working
<1> QED  BY <1>3, SingleLocal DEF DeleteMain

LEMMA TransformSingle ==
  ASSUME LoadInv, SingleRow, NEW s \in Sessions, Transform(s)
  PROVE  SingleRow'
<1> DEFINE t == [tx[s] EXCEPT !.step = "clear", !.added = @ \cup Staging(s)]
<1>1. tx[s] \in Tx /\ Single(tx[s]) /\ tx[s].step = "transform"
  BY ShownType DEF LoadInv, SingleRow, Transform, At
<1>2. PICK b \in Batches : tx[s].staged = {b}
  BY <1>1 DEF Single
<1>3. Staging(s) = {b} /\ b \notin Malformed
  BY <1>2 DEF Staging, LoadInv, Finished, Transform
<1>4. tx[s].added \cup Staging(s) = {b}
  BY <1>1, <1>3 DEF Single
<1>5. Single(t)
  BY <1>1, <1>3, <1>4 DEF Single, Tx, Working
<1> QED  BY <1>5, SingleLocal DEF Transform

LEMMA AfterLastRow ==
  ASSUME NEW t \in Tx, t.left = 1, t.step \in {"clear", "refresh"}, Single(t)
  PROVE  Single(AfterRow(t))
<1>1. AfterRow(t) = [t EXCEPT !.step = "done", !.left = t.left - 1]
  BY DEF AfterRow
<1> QED  BY <1>1 DEF Single, Tx, Working

LEMMA ClearLoadSingle ==
  ASSUME LoadInv, SingleRow, NEW s \in Sessions, ClearLoad(s)
  PROVE  SingleRow'
<1> DEFINE t == [tx[s] EXCEPT !.cleared = @ \cup load, !.staged = {}]
<1>1. tx[s] \in Tx /\ Single(tx[s])
  BY ShownType DEF LoadInv, SingleRow
<1>2. tx[s].step = "clear"
  BY Zenon DEF ClearLoad, At
<1>3. t \in Tx /\ t.left = 1 /\ t.step = "clear" /\ Single(t)
  <2>1. tx[s].cleared \cup load \in Contents /\ {} \in Contents
    BY <1>1 DEF Tx, Contents, LoadInv, TypeOK
  <2>2. t \in Tx
    BY <1>1, <2>1 DEF Tx
  <2>3. Single(t) /\ t.left = 1 /\ t.step = "clear"
    BY <1>1, <1>2 DEF Single, Tx, Working
  <2> QED  BY <2>2, <2>3
<1>4. Single(AfterRow(t))
  BY <1>3, AfterLastRow
<1>5. CASE Indexed
  <2>1. Single([t EXCEPT !.step = "refresh"])
    <3> HIDE DEF t
    <3> QED  BY <1>3, <1>5 DEF Single, Tx, Working
  <2> QED  BY <1>5, <2>1, SingleLocal DEF ClearLoad
<1>6. CASE ~Indexed  BY <1>4, <1>6, SingleLocal DEF ClearLoad
<1> QED  BY <1>5, <1>6

LEMMA RefreshSingle ==
  ASSUME LoadInv, SingleRow, NEW s \in Sessions, Refresh(s)
  PROVE  SingleRow'
<1> DEFINE t == [tx[s] EXCEPT !.view = Shown(s)]
<1>1. tx[s] \in Tx /\ Single(tx[s]) /\ tx[s].step = "refresh" /\ Shown(s) \in Contents
  BY ShownType DEF LoadInv, SingleRow, Refresh, At
<1>2. t \in Tx
  BY <1>1 DEF Tx
<1>3. Single(t) /\ t.left = 1 /\ t.step = "refresh"
  BY <1>1 DEF Single, Tx, Working
<1>4. Single(AfterRow(t))
  BY <1>2, <1>3, AfterLastRow
<1> QED  BY <1>4, SingleLocal DEF Refresh

\* What a commit finds and leaves: the batch b of its one row replaces the table.
LEMMA CommitSingle ==
  ASSUME LoadInv, SingleRow, NEW s \in Sessions, Commit(s)
  PROVE  SingleRow' /\ \E b \in Batches \ Malformed : Atomic!Replace(b)
<1>1. tx[s] \in Tx /\ Single(tx[s]) /\ tx[s].step = "done" /\ Shown(s) # NoTable
  BY ShownType DEF LoadInv, SingleRow, Commit, At
<1>2. PICK b \in Batches \ Malformed : tx[s].added = {b}
  BY <1>1 DEF Single
<1>3. tx[s].gone = main /\ tx[s].copy = main /\ Shown(s) = {b}
  BY <1>1, <1>2 DEF Single, Working, Shown
<1>4. tx[s].view = IF Indexed THEN {b} ELSE NoTable
  BY <1>1, <1>2 DEF LoadInv, Replaced, Single
<1>5. Atomic!Replace(b)
  BY <1>1, <1>3, <1>4 DEF Commit, Atomic!Replace
<1>6. /\ tx'[s] = NoTx
      /\ \A o \in Sessions : o # s => tx'[o] = tx[o] /\ tx[o].step \notin Working
  BY <1>1 DEF LoadInv, TypeOK, Commit, NameHeldOnce, WorkUnderName, Working
<1>7. ASSUME NEW o \in Sessions PROVE Single(tx[o])'
  <2>1. Single(tx[o])
    BY DEF SingleRow
  <2>2. CASE o = s
    BY <1>6, <2>2 DEF Single, NoTx, Working
  <2>3. CASE o # s
    BY <1>6, <2>1, <2>3 DEF Single, Working
  <2> QED  BY <2>2, <2>3
<1> QED  BY <1>5, <1>7 DEF SingleRow

LEMMA SingleNext ==
  ASSUME LoadInv, SingleRow, MaxRows = 1, [Next]_vars
  PROVE  SingleRow' /\ [Atomic!Next]_<<main, bak, index>>
<1>1. ASSUME NEW s \in Sessions, NEW rows \in Inputs, Insert(s, rows)
      PROVE  SingleRow' /\ UNCHANGED <<main, bak, index>>
  BY <1>1, InsertSingle DEF Insert, Becomes, committed
<1>2. ASSUME NEW s \in Sessions, DropBak(s)
      PROVE  SingleRow' /\ UNCHANGED <<main, bak, index>>
  <2>1. UNCHANGED committed
    BY <1>2, Zenon DEF DropBak, Becomes
  <2> QED  BY <1>2, <2>1, DropBakSingle DEF committed
<1>3. ASSUME NEW s \in Sessions, CreateBak(s)
      PROVE  SingleRow' /\ UNCHANGED <<main, bak, index>>
  BY <1>3, CreateBakSingle DEF CreateBak, Becomes, committed
<1>4. ASSUME NEW s \in Sessions, DeleteMain(s)
      PROVE  SingleRow' /\ UNCHANGED <<main, bak, index>>
  BY <1>4, DeleteMainSingle DEF DeleteMain, Becomes, committed
<1>5. ASSUME NEW s \in Sessions, Transform(s)
      PROVE  SingleRow' /\ UNCHANGED <<main, bak, index>>
  BY <1>5, TransformSingle DEF Transform, Becomes, committed
<1>6. ASSUME NEW s \in Sessions, ClearLoad(s)
      PROVE  SingleRow' /\ UNCHANGED <<main, bak, index>>
  <2>1. UNCHANGED committed
    BY <1>6, Zenon DEF ClearLoad, Becomes
  <2> QED  BY <1>6, <2>1, ClearLoadSingle DEF committed
<1>7. ASSUME NEW s \in Sessions, Refresh(s)
      PROVE  SingleRow' /\ UNCHANGED <<main, bak, index>>
  BY <1>7, RefreshSingle DEF Refresh, Becomes, committed
<1>8. ASSUME NEW s \in Sessions, Commit(s)
      PROVE  SingleRow' /\ Atomic!Next
  BY <1>8, CommitSingle DEF Atomic!Next
<1>9. ASSUME NEW s \in Sessions, Raise(s) \/ Disconnect(s)
      PROVE  SingleRow' /\ UNCHANGED <<main, bak, index>>
  <2>1. Becomes(s, NoTx)
    BY <1>9 DEF Raise, Disconnect
  <2>2. Single(NoTx)
    BY DEF Single, NoTx, Working
  <2>3. SingleRow'
    BY <2>1, <2>2, SingleLocal
  <2> QED  BY <2>1, <2>3 DEF Becomes, committed
<1>10. CASE UNCHANGED vars
  BY <1>10 DEF SingleRow, Single, vars
<1> QED  BY <1>1, <1>2, <1>3, <1>4, <1>5, <1>6, <1>7, <1>8, <1>9, <1>10
         DEF Next, Statement

\* For clients that insert one document per statement, the trigger implements the
\* atomic replacement: whatever other sessions run, load or abort, each committed
\* load replaces the table by its own batch, keeps the replaced rows as backup and
\* shows the new ones in the view, and nothing else ever changes any of the three.
THEOREM Refinement == MaxRows = 1 => (Spec => AtomicSpec)
<1> SUFFICES ASSUME MaxRows = 1 PROVE Spec => AtomicSpec
  OBVIOUS
<1>1. Init => SingleRow
  BY DEF Init, SingleRow, Single, NoTx, Working
<1>2. LoadInv /\ SingleRow /\ [Next]_vars => SingleRow'
  BY SingleNext
<1>3. LoadInv /\ SingleRow /\ [Next]_vars => [Atomic!Next]_<<main, bak, index>>
  BY SingleNext
<1>4. Init => Atomic!Init
  BY DEF Init, Atomic!Init
<1>5. IInv => LoadInv
  BY DEF IInv
<1> QED  BY <1>1, <1>2, <1>3, <1>4, <1>5, Invariance, PTL DEF Spec, AtomicSpec, Atomic!Spec
=============================================================================
