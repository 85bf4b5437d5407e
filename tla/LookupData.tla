----------------------------- MODULE LookupData -----------------------------
(***************************************************************************)
(* The three scripts that handle the rows of the lookup tables:            *)
(* 5_Lookup_Data.sql copies them all in one transaction, DeleteLookupData. *)
(* sql deletes them table by table, each in a transaction of its own, and  *)
(* DumpLookups writes six tables to files, each with a pg_dump, and so a   *)
(* snapshot, of its own.  All of them may run at once, and fail.           *)
(*                                                                         *)
(* A table is empty or holds the rows of the data file.                    *)
(***************************************************************************)
EXTENDS Naturals, Sequences

CONSTANTS
  Loads,     \* sessions that run 5_Lookup_Data.sql
  MaxRuns,   \* bound: runs of each script
  MaxFaults  \* bound: statements that fail, connections that are lost

ASSUME LookupDataAssumption == MaxRuns \in Nat /\ MaxFaults \in Nat

CopyOrder == <<"agents", "diseases", "trades", "public_health_units",
               "agents_diseases", "trades_agents", "lots", "schools_daycares">>
DeleteOrder == <<"agents_diseases", "trades_agents", "lots", "diseases", "agents",
                 "trades", "schools_daycares">>
DumpOrder_children_first ==  \* mutant: the order of DeleteLookupData.sql
  <<"agents_diseases", "trades_agents", "diseases", "agents", "trades",
    "schools_daycares">>
DumpOrder == <<"agents", "diseases", "trades", "agents_diseases", "trades_agents",
               "schools_daycares">>

LookupTables == {CopyOrder[i] : i \in DOMAIN CopyOrder}

\* What a table references, ON DELETE CASCADE.
References(t) == IF t = "agents_diseases" THEN {"agents", "diseases"}
                 ELSE IF t = "trades_agents" THEN {"trades", "agents"} ELSE {}

VARIABLES
  content,   \* committed rows of each table: "empty" or "full"
  index,     \* rows of schools_daycares_index
  step,      \* per load: "idle", "open", "failed" (transaction) or "refresh"
  copied,    \* per load: tables its open transaction has filled
  deleteAt,  \* next statement of DeleteLookupData.sql, 0 when it does not run
  dumpAt,    \* next command of DumpLookups, 0 when it does not run
  dump,      \* per table, the file: "none", "empty", "full" or "broken"
  cleared,   \* ghost: the last delete run has met no failure and no load
  reloaded,  \* ghost: a load has committed since the dump began
  runs, faults

loads == <<step, copied>>
deletes == <<deleteAt, cleared>>
dumps == <<dumpAt, dump, reloaded>>
vars == <<content, index, loads, deletes, dumps, runs, faults>>

Fault == faults < MaxFaults /\ faults' = faults + 1
Run == runs < MaxRuns /\ runs' = runs + 1
-----------------------------------------------------------------------------
(* 5_Lookup_Data.sql                                                       *)

Go(l, from, to) == step[l] = from /\ step' = [step EXCEPT ![l] = to]

\* START TRANSACTION
StartLoad(l) ==
  /\ Go(l, "idle", "open") /\ copied' = [copied EXCEPT ![l] = 0]
  /\ cleared' = FALSE
  /\ Run /\ UNCHANGED <<content, index, deleteAt, dumps, faults>>

\* The tables that a load holds rows of, uncommitted.
Holds(l) == IF step[l] = "open" THEN {CopyOrder[i] : i \in 1..copied[l]} ELSE {}

\* COPY: rows of another transaction with the same keys are waited for.
CanCopy(l) ==
  /\ step[l] = "open" /\ copied[l] < Len(CopyOrder)
  /\ \A o \in Loads \ {l} : CopyOrder[copied[l] + 1] \notin Holds(o)

Copy_no_keys(l) ==  \* mutant: the ids are not UNIQUE, rows are loaded twice
  /\ CanCopy(l)
  /\ copied' = [copied EXCEPT ![l] = @ + 1]
  /\ UNCHANGED <<content, index, step, deletes, dumps, runs, faults>>

Copy(l) ==
  /\ CanCopy(l) /\ content[CopyOrder[copied[l] + 1]] = "empty"
  /\ copied' = [copied EXCEPT ![l] = @ + 1]
  /\ UNCHANGED <<content, index, step, deletes, dumps, runs, faults>>

\* Duplicate keys: the transaction has failed.
CopyDuplicate(l) ==
  /\ CanCopy(l) /\ content[CopyOrder[copied[l] + 1]] = "full"
  /\ Go(l, "open", "failed")
  /\ UNCHANGED <<content, index, copied, deletes, dumps, runs, faults>>

CopyFails(l) ==
  /\ copied[l] < Len(CopyOrder) /\ Go(l, "open", "failed")
  /\ Fault /\ UNCHANGED <<content, index, copied, deletes, dumps, runs>>

Commit_each(l) ==  \* mutant: without START TRANSACTION, every COPY commits
  /\ step[l] = "open" /\ copied[l] > 0
  /\ step' = [step EXCEPT ![l] = IF copied[l] = Len(CopyOrder) THEN "refresh" ELSE "open"]
  /\ content' = [t \in LookupTables |-> IF t \in Holds(l) THEN "full" ELSE content[t]]
  /\ reloaded' = TRUE
  /\ UNCHANGED <<index, copied, deletes, dumpAt, dump, runs, faults>>

Commit(l) ==
  /\ copied[l] = Len(CopyOrder) /\ Go(l, "open", "refresh")
  /\ content' = [t \in LookupTables |-> IF t \in Holds(l) THEN "full" ELSE content[t]]
  /\ reloaded' = TRUE
  /\ UNCHANGED <<index, copied, deletes, dumpAt, dump, runs, faults>>

RollBack_never(l) ==  \* mutant: the session of a failed load is left open
  /\ step[l] = "failed" /\ step' = step
  /\ UNCHANGED <<content, index, copied, deletes, dumps, runs, faults>>

\* COMMIT of a failed transaction, and REFRESH; or psql has taken both for data of a
\* COPY that the server refused, and the session ends.
RollBack(l) ==
  /\ Go(l, "failed", "refresh") \/ Go(l, "failed", "idle")
  /\ UNCHANGED <<content, index, copied, deletes, dumps, runs, faults>>

\* REFRESH MATERIALIZED VIEW schools_daycares_index
Refresh(l) ==
  /\ Go(l, "refresh", "idle") /\ index' = content["schools_daycares"]
  /\ UNCHANGED <<content, copied, deletes, dumps, runs, faults>>

LoseLoad(l) ==
  /\ Go(l, "open", "idle") \/ Go(l, "refresh", "idle")
  /\ Fault /\ UNCHANGED <<content, index, copied, deletes, dumps, runs>>
-----------------------------------------------------------------------------
(* DeleteLookupData.sql                                                    *)

NoLoad == \A l \in Loads : step[l] = "idle"

StartDelete ==
  /\ deleteAt = 0 /\ deleteAt' = 1
  /\ cleared' = NoLoad
  /\ Run /\ UNCHANGED <<content, index, loads, dumps, faults>>

Deleting == deleteAt \in DOMAIN DeleteOrder
NextDelete_past_end == deleteAt' = deleteAt + 1  \* mutant: the script has no end
NextDelete == deleteAt' = IF deleteAt = Len(DeleteOrder) THEN 0 ELSE deleteAt + 1

Delete_no_cascade ==  \* mutant: the foreign keys do not say ON DELETE CASCADE
  /\ Deleting /\ NextDelete
  /\ content' = [content EXCEPT ![DeleteOrder[deleteAt]] = "empty"]
  /\ UNCHANGED <<index, loads, cleared, dumps, runs, faults>>

\* DELETE FROM a table, committed; rows that reference it go along.  Rows that are
\* not committed are not seen.
Delete ==
  /\ Deleting /\ NextDelete
  /\ LET table == DeleteOrder[deleteAt]
     IN  content' = [t \in LookupTables |->
                       IF t = table \/ table \in References(t) THEN "empty"
                                                               ELSE content[t]]
  /\ UNCHANGED <<index, loads, cleared, dumps, runs, faults>>

\* A statement fails, and psql goes on with the next; or the connection is lost.
DeleteFails ==
  /\ Deleting /\ (NextDelete \/ deleteAt' = 0)
  /\ cleared' = FALSE
  /\ Fault /\ UNCHANGED <<content, index, loads, dumps, runs>>
-----------------------------------------------------------------------------
(* DumpLookups and DumpLookupsDelete                                       *)

Dumped == {DumpOrder[i] : i \in DOMAIN DumpOrder}

StartDump ==
  /\ dumpAt = 0 /\ dumpAt' = 1
  /\ reloaded' = FALSE
  /\ Run /\ UNCHANGED <<content, index, loads, deletes, dump, faults>>

Dump(outcome) ==
  /\ dumpAt \in DOMAIN DumpOrder /\ dumpAt' = dumpAt + 1
  /\ dump' = [dump EXCEPT ![DumpOrder[dumpAt]] = outcome]
  /\ UNCHANGED <<content, index, loads, deletes, reloaded, runs>>

\* pg_dump -a -t TABLE > TABLE.sql
DumpTable == Dump(content[DumpOrder[dumpAt]]) /\ UNCHANGED faults
DumpFails == Dump("broken") /\ Fault

\* The dump is complete: its files are taken away, and removed.
DeleteDumps ==
  /\ dumpAt = Len(DumpOrder) + 1 /\ dumpAt' = 0
  /\ dump' = [t \in Dumped |-> "none"]
  /\ UNCHANGED <<content, index, loads, deletes, reloaded, runs, faults>>
-----------------------------------------------------------------------------
\* After the setup: tables created, nothing loaded.
Init ==
  /\ content = [t \in LookupTables |-> "empty"] /\ index = "empty"
  /\ step = [l \in Loads |-> "idle"] /\ copied = [l \in Loads |-> 0]
  /\ deleteAt = 0 /\ dumpAt = 0 /\ dump = [t \in Dumped |-> "none"]
  /\ cleared = FALSE /\ reloaded = FALSE /\ runs = 0 /\ faults = 0

LoadStep(l) == Copy(l) \/ CopyDuplicate(l) \/ Commit(l) \/ RollBack(l) \/ Refresh(l)

Next ==
  \/ \E l \in Loads : StartLoad(l) \/ LoadStep(l) \/ CopyFails(l) \/ LoseLoad(l)
  \/ StartDelete \/ Delete \/ DeleteFails
  \/ StartDump \/ DumpTable \/ DumpFails \/ DeleteDumps

Spec == Init /\ [][Next]_vars

\* psql and the server execute what has been started.
FairSpec == Spec /\ \A l \in Loads : WF_vars(LoadStep(l))
-----------------------------------------------------------------------------
TypeOK ==
  /\ content \in [LookupTables -> {"empty", "full"}] /\ index \in {"empty", "full"}
  /\ step \in [Loads -> {"idle", "open", "failed", "refresh"}]
  /\ copied \in [Loads -> 0..Len(CopyOrder)]
  /\ deleteAt \in 0..Len(DeleteOrder) /\ dumpAt \in 0..Len(DumpOrder) + 1
  /\ dump \in [Dumped -> {"none", "empty", "full", "broken"}]
  /\ cleared \in BOOLEAN /\ reloaded \in BOOLEAN
  /\ runs \in Nat /\ faults \in Nat

\* No row references a row that is not there, even when one of the deletes was
\* skipped and the next ones were executed.
ReferencesHold ==
  \A t \in LookupTables : content[t] = "full" =>
    \A r \in References(t) : content[r] = "full"

\* Readers see all the lookup data appear at once, whoever deletes or loads too.
LoadedTogether ==
  [][(\E t \in LookupTables : content[t] = "empty" /\ content'[t] = "full")
       => \A t \in LookupTables : content[t] = "empty" /\ content'[t] = "full"]_vars

\* The files of a dump can be loaded again in their order: parents are dumped before
\* the rows that reference them, so deletes in between do no harm; only a load does.
DumpClosed ==
  dumpAt = Len(DumpOrder) + 1 /\ ~reloaded =>
    \A t \in Dumped : dump[t] = "full" =>
      \A r \in References(t) : dump[r] \in {"full", "broken"}

\* A load that waits for the rows of another one is not left waiting.
LoadEnds == \A l \in Loads : step[l] # "idle" ~> step[l] = "idle"

\* "clear all lookup data": after a run of DeleteLookupData.sql that has met no failure
\* and no load, the tables are empty that the data file has filled.  Fails: the script
\* leaves out public_health_units.
ClearedTables ==
  cleared /\ deleteAt = 0 => \A t \in LookupTables : content[t] = "empty"

\* What the script does achieve: no other table has rows then.
OnlyUnitsLeft ==
  cleared /\ deleteAt = 0 =>
    \A t \in LookupTables \ {"public_health_units"} : content[t] = "empty"

\* The data file can be loaded once: the rows of public_health_units, which no script
\* deletes, make every later load fail as a whole, and a table that was emptied stays
\* empty.
DataLoadedOnce ==
  [][content["public_health_units"] = "full" =>
       \A t \in LookupTables : content[t] = "empty" => content'[t] = "empty"]_vars
-----------------------------------------------------------------------------
(* The inductive invariant: no two loads hold rows of a table, and never of one     *)
(* that has rows; what a dump has passed, it has in its files if it is still there, *)
(* and with it what it references.                                                  *)

HeldEmpty == \A l \in Loads : \A t \in Holds(l) : content[t] = "empty"
HeldOnce == \A l, o \in Loads : l # o => Holds(l) \cap Holds(o) = {}

DumpFollows ==
  ~reloaded => \A i \in DOMAIN DumpOrder :
    i < dumpAt /\ content[DumpOrder[i]] = "full" => dump[DumpOrder[i]] \in {"full", "broken"}

DumpedClosed ==
  ~reloaded => \A i \in DOMAIN DumpOrder :
    i < dumpAt /\ dump[DumpOrder[i]] = "full" =>
      \A r \in References(DumpOrder[i]) : dump[r] \in {"full", "broken"}

\* And for OnlyUnitsLeft: a delete run that nothing came into has emptied what it has
\* passed, and no load is active.
ClearedSoFar ==
  cleared => /\ NoLoad
             /\ \A i \in DOMAIN DeleteOrder :
                  deleteAt = 0 \/ i < deleteAt => content[DeleteOrder[i]] = "empty"

IInv == /\ TypeOK /\ ReferencesHold /\ HeldEmpty /\ HeldOnce
        /\ DumpFollows /\ DumpedClosed
=============================================================================
