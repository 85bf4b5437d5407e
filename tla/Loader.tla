------------------------------- MODULE Loader -------------------------------
(***************************************************************************)
(* The AFTER INSERT ... FOR EACH ROW triggers load_schools_daycares() and  *)
(* load_lots() of 2_Create_Lookup_DB.sql.  Both run the same statements:   *)
(* drop the backup table, create it again as a copy of the lookup table,   *)
(* empty the lookup table, fill it from the staging table, empty the       *)
(* staging table; the one for schools then refreshes its materialized      *)
(* view (Indexed).  Sessions run the trigger concurrently, one statement   *)
(* at a time, in READ COMMITTED transactions: a statement sees what is     *)
(* committed plus its own transaction's changes.  No statement locks the   *)
(* lookup table: the only thing that orders two loads is that both drop    *)
(* and create the same backup table.                                       *)
(*                                                                         *)
(* A batch stands for all the rows its JSON document produces; the content *)
(* of a table is the set of batches whose rows it holds.                   *)
(***************************************************************************)
EXTENDS Naturals, FiniteSets

CONSTANTS
  Sessions,   \* database sessions of the clients that load data
  Batches,    \* JSON documents a client may insert
  Malformed,  \* those whose transformation raises (bad JSON, bad date, bad key)
  MaxRows,    \* bound: rows of one INSERT statement
  Indexed,    \* TRUE: load_schools_daycares; FALSE: load_lots
  Seed,       \* rows copied into the table by 5_Lookup_Data.sql
  NoTable     \* a relation that does not exist, or is not touched

ASSUME LoaderAssumption ==
  /\ IsFiniteSet(Batches) /\ Malformed \subseteq Batches /\ Seed \subseteq Batches
  /\ MaxRows \in Nat \ {0}
  /\ Indexed \in BOOLEAN
  /\ \A c \in SUBSET Batches : c # NoTable

VARIABLES
  main,   \* committed rows of schools_daycares / lots
  load,   \* committed rows of the staging table
  bak,    \* committed backup table, or NoTable
  index,  \* committed contents of the materialized view
  tx      \* per session, its open transaction: see NoTx

committed == <<main, load, bak, index>>
vars == <<main, load, bak, index, tx>>

(***************************************************************************)
(* A transaction's uncommitted work.  step: the next statement of the      *)
(* trigger; left: rows whose trigger has still to run to the end.          *)
(***************************************************************************)
NoTx == [step |-> "idle", left |-> 0, staged |-> {}, cleared |-> {},
         dropped |-> FALSE, created |-> FALSE, copy |-> NoTable,
         gone |-> {}, added |-> {}, view |-> NoTable]

Steps == {"idle", "drop", "create", "delete", "transform", "clear", "refresh",
          "done"}

Contents == SUBSET Batches
Tx == [step : Steps, left : Nat, staged : Contents, cleared : Contents,
       dropped : BOOLEAN, created : BOOLEAN, copy : {NoTable} \cup Contents,
       gone : Contents, added : Contents, view : {NoTable} \cup Contents]

\* What the next statement of s sees of the lookup table and of the staging table.
Shown(s)   == (main \ tx[s].gone) \cup tx[s].added
Staging(s) == (load \ tx[s].cleared) \cup tx[s].staged

Others(s) == Sessions \ {s}

\* The statement of s is `step`; it takes the transaction to `t`.
At(s, step) == tx[s].step = step
Becomes(s, t) == tx' = [tx EXCEPT ![s] = t] /\ UNCHANGED committed

AfterRow_off_by_one(t) ==  \* mutant: fires once more than there are rows
  [t EXCEPT !.step = IF t.left >= 1 THEN "drop" ELSE "done", !.left = @ - 1]
AfterRow_same_row(t) ==  \* mutant: the row just handled is not counted
  [t EXCEPT !.step = IF t.left > 1 THEN "drop" ELSE "done"]

\* The step after one run of the trigger, and the runs left after it.
AfterRow(t) == [t EXCEPT !.step = IF t.left > 1 THEN "drop" ELSE "done",
                         !.left = @ - 1]
-----------------------------------------------------------------------------
\* The client's INSERT.  AFTER triggers fire once the statement has inserted all
\* its rows, once for each of them, and each firing sees them all.
Insert(s, rows) ==
  /\ At(s, "idle")
  /\ Becomes(s, [NoTx EXCEPT !.step = "drop", !.left = Cardinality(rows),
                             !.staged = rows])

\* DROP TABLE IF EXISTS ..._bak: needs the exclusive lock on a backup table that
\* exists, held by whoever has dropped it and not committed; otherwise a notice.
DropBak(s) ==
  /\ At(s, "drop")
  /\ LET t == [tx[s] EXCEPT !.step = "create"]
     IN  \/ /\ t.copy # NoTable
            /\ Becomes(s, [t EXCEPT !.copy = NoTable])
         \/ /\ t.copy = NoTable /\ bak # NoTable
            /\ \A o \in Others(s) : ~tx[o].dropped
            /\ Becomes(s, [t EXCEPT !.dropped = TRUE])
         \/ /\ t.copy = NoTable /\ bak = NoTable
            /\ Becomes(s, t)

\* CREATE TABLE ..._bak AS SELECT * FROM ...: a name that an open transaction has
\* created (even if it has dropped it since) is waited for until that transaction
\* ends; a name that is committed is an error (Raise).
NameTaken(s) == bak # NoTable /\ ~tx[s].dropped

CreateBak_temporary(s) ==  \* mutant: a backup table private to the session
  /\ At(s, "create") /\ ~NameTaken(s)
  /\ Becomes(s, [tx[s] EXCEPT !.step = "delete", !.created = TRUE, !.copy = Shown(s)])

CreateBak_no_data(s) ==  \* mutant: ... AS SELECT * FROM ... WITH NO DATA
  /\ At(s, "create") /\ ~NameTaken(s)
  /\ \A o \in Others(s) : ~tx[o].created
  /\ Becomes(s, [tx[s] EXCEPT !.step = "delete", !.created = TRUE, !.copy = {}])

CreateBak(s) ==
  /\ At(s, "create")
  /\ ~NameTaken(s)
  /\ \A o \in Others(s) : ~tx[o].created
  /\ Becomes(s, [tx[s] EXCEPT !.step = "delete", !.created = TRUE,
                              !.copy = Shown(s)])

DeleteMain_forgotten(s) ==  \* mutant: the old rows stay
  At(s, "delete") /\ Becomes(s, [tx[s] EXCEPT !.step = "transform"])

\* DELETE FROM the lookup table: waits for rows another transaction is deleting.
DeleteMain(s) ==
  /\ At(s, "delete")
  /\ \A o \in Others(s) : tx[o].gone \cap Shown(s) = {}
  /\ Becomes(s, [tx[s] EXCEPT !.step = "transform", !.gone = @ \cup main,
                              !.added = {}])

\* INSERT INTO the lookup table, from every row of the staging table.
Transform(s) ==
  /\ At(s, "transform")
  /\ Staging(s) \cap Malformed = {}
  /\ Becomes(s, [tx[s] EXCEPT !.step = "clear", !.added = @ \cup Staging(s)])

ClearLoad_no_refresh(s) ==  \* mutant: REFRESH MATERIALIZED VIEW is left out
  /\ At(s, "clear")
  /\ Becomes(s, AfterRow([tx[s] EXCEPT !.cleared = @ \cup load, !.staged = {}]))

\* DELETE FROM the staging table; RETURN NEW if there is no view to refresh.
ClearLoad(s) ==
  /\ At(s, "clear")
  /\ LET t == [tx[s] EXCEPT !.cleared = @ \cup load, !.staged = {}]
     IN  Becomes(s, IF Indexed THEN [t EXCEPT !.step = "refresh"] ELSE AfterRow(t))

\* REFRESH MATERIALIZED VIEW: takes the view's exclusive lock; RETURN NEW.
Refresh(s) ==
  /\ At(s, "refresh")
  /\ \A o \in Others(s) : tx[o].view = NoTable
  /\ Becomes(s, AfterRow([tx[s] EXCEPT !.view = Shown(s)]))

\* The INSERT has returned: the client's transaction commits.
Commit(s) ==
  /\ At(s, "done")
  /\ main' = Shown(s)
  /\ load' = Staging(s)
  /\ bak' = tx[s].copy
  /\ index' = IF tx[s].view = NoTable THEN index ELSE tx[s].view
  /\ tx' = [tx EXCEPT ![s] = NoTx]

\* A statement of the trigger raises: the transaction is rolled back.
Raise(s) ==
  /\ \/ At(s, "create") /\ NameTaken(s)
     \/ At(s, "transform") /\ Staging(s) \cap Malformed # {}
  /\ Becomes(s, NoTx)

\* The client goes away or rolls back; the server undoes the transaction.
Disconnect(s) == ~At(s, "idle") /\ Becomes(s, NoTx)

-----------------------------------------------------------------------------
Init ==
  /\ main = Seed /\ index = Seed /\ load = {} /\ bak = NoTable
  /\ tx = [s \in Sessions |-> NoTx]

Statement(s) == \/ DropBak(s) \/ CreateBak(s) \/ DeleteMain(s) \/ Transform(s)
                \/ ClearLoad(s) \/ Refresh(s) \/ Commit(s) \/ Raise(s)

Inputs == {rows \in SUBSET Batches : rows # {} /\ Cardinality(rows) <= MaxRows}

Next == \E s \in Sessions :
          \/ \E rows \in Inputs : Insert(s, rows)
          \/ Statement(s)
          \/ Disconnect(s)

Spec == Init /\ [][Next]_vars

\* A started statement is executed: lock queues are first come, first served, so
\* a session that can run again and again does run.
FairSpec == Spec /\ \A s \in Sessions : SF_vars(Statement(s))
-----------------------------------------------------------------------------
TypeOK ==
  /\ main \in Contents /\ load \in Contents /\ index \in Contents
  /\ bak \in {NoTable} \cup Contents
  /\ tx \in [Sessions -> Tx]

\* Two loads never overlap in what they change: while one session has replaced the
\* backup, emptied or filled the table or refreshed the view, no other has.
Touched(s) == \/ tx[s].created \/ tx[s].view # NoTable
              \/ tx[s].gone # {} \/ tx[s].added # {}
LoaderExclusive == \A s \in Sessions : \A o \in Others(s) : ~(Touched(s) /\ Touched(o))

\* schools_daycares_index shows exactly the committed rows of schools_daycares
\* after any number of loads, failed loads and disconnections.
IndexFollowsTable == Indexed => index = main

\* Every load that is started ends, by commit or rollback.
LoadTerminates == \A s \in Sessions : ~At(s, "idle") ~> At(s, "idle")

\* "Add the trigger to xform and transfer data": when the INSERT returns, the
\* table holds what it inserted.  Fails for an INSERT of several rows: the second
\* firing finds the staging table empty and leaves the table empty.
LoadKeepsRows == \A s \in Sessions : At(s, "done") => Shown(s) # {}

\* The loader implements the one-step replacement AtomicLoad promises, as long as
\* clients insert one row (one JSON document) per statement.
Atomic == INSTANCE AtomicLoad WITH table <- main, backup <- bak
AtomicSpec == Atomic!Spec
-----------------------------------------------------------------------------
(* The inductive invariant behind these properties.                        *)

Working == {"delete", "transform", "clear", "refresh", "done"}

\* One transaction at a time holds the name of the backup table, by an exclusive
\* lock on the one it dropped or by the entry of the one it created; and only a
\* transaction that created it has changed anything else.
NameHeldOnce ==
  /\ \A s, o \in Sessions : tx[s].created /\ tx[o].created => s = o
  /\ \A s, o \in Sessions : tx[s].dropped /\ tx[o].dropped => s = o
  /\ \A s \in Sessions : tx[s].dropped => bak # NoTable
  /\ \A s \in Sessions : tx[s].created => bak = NoTable \/ tx[s].dropped

WorkUnderName ==
  \A s \in Sessions :
    /\ tx[s].step \in Working => tx[s].created /\ tx[s].copy # NoTable
    /\ ~tx[s].created => /\ tx[s].copy = NoTable /\ tx[s].view = NoTable
                         /\ tx[s].gone = {} /\ tx[s].added = {}

\* A running trigger has a row to run for; no row of the staging table outlives its
\* transaction.
Finished ==
  /\ load = {}
  /\ \A s \in Sessions :
       /\ tx[s].step \notin {"idle", "done"} => tx[s].left > 0
       /\ tx[s].step \in {"refresh", "done"} => tx[s].staged = {}

\* What has been changed of the table is all of it: every committed row is deleted by
\* then, so that what was added is the table, and what a finished trigger has shown
\* in the view.
Replaced ==
  \A s \in Sessions :
    /\ tx[s].gone # {} \/ tx[s].added # {} => main \subseteq tx[s].gone
    /\ tx[s].step \in {"transform", "clear", "refresh", "done"} => main \subseteq tx[s].gone
    /\ Indexed /\ tx[s].step = "done" => tx[s].view = tx[s].added

LoadInv == TypeOK /\ NameHeldOnce /\ WorkUnderName /\ Finished /\ Replaced
IInv == LoadInv /\ IndexFollowsTable

\* One row per statement: the trigger runs once, on a batch b that it moves from
\* the staging table to the emptied lookup table.
Single(t) ==
  /\ t.step \notin {"idle", "done"} => t.left = 1
  /\ t.step \in {"drop", "create", "delete", "transform"} =>
       (\E b \in Batches : t.staged = {b})
  /\ t.step \in {"drop", "create"} => ~t.created
  /\ t.step = "transform" => t.gone = main
  /\ t.step \in {"delete", "transform"} => t.added = {}
  /\ t.step \in {"clear", "refresh", "done"} =>
       t.gone = main /\ (\E b \in Batches \ Malformed : t.added = {b})
  /\ t.step = "delete" => t.gone = {}
  /\ t.step \in Working => t.copy = main
  /\ ~Indexed => t.view = NoTable /\ t.step # "refresh"

SingleRow == \A s \in Sessions : Single(tx[s])
=============================================================================
