----------------------------- MODULE AtomicLoad -----------------------------
(***************************************************************************)
(* What a loader of the lookup database promises its client: one INSERT    *)
(* into the staging table replaces the whole lookup table by the rows of   *)
(* the inserted batch, keeps the rows it replaced as the backup, and (for  *)
(* a table with a materialized view) shows the new rows in the view, all   *)
(* in one step.  Module Loader is the trigger that implements it.          *)
(***************************************************************************)
CONSTANTS
  Batches,    \* the JSON documents a client may insert
  Malformed,  \* those the transformation rejects
  Indexed,    \* TRUE if the table has a materialized view
  Seed,       \* the rows the setup scripts put in the table
  NoTable     \* "the backup table does not exist"

VARIABLES table, backup, index

Init == table = Seed /\ backup = NoTable /\ index = Seed

Replace(b) == /\ table' = {b}
              /\ backup' = table
              /\ index' = IF Indexed THEN {b} ELSE index

Next == \E b \in Batches \ Malformed : Replace(b)

Spec == Init /\ [][Next]_<<table, backup, index>>
=============================================================================
