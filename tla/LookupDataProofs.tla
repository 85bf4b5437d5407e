-------------------------- MODULE LookupDataProofs --------------------------
(* Theorems about module LookupData, for any set of loading sessions and any *)
(* number of runs and failures; and, at the end, about its composition with  *)
(* Maintenance in MCMaintenance, with what MaintenanceProofs proves of that. *)
EXTENDS MCMaintenance, TLAPS

MP == INSTANCE MaintenanceProofs WITH index <- loaderIndex

-----------------------------------------------------------------------------
(* The orders of the scripts.                                              *)

LEMMA Lengths ==
  Len(CopyOrder) = 8 /\ Len(DumpOrder) = 6 /\ Len(DeleteOrder) = 7
BY DEF CopyOrder, DumpOrder, DeleteOrder

LEMMA CopyOrderShape ==
  /\ DOMAIN CopyOrder = 1..8 /\ Len(CopyOrder) = 8
  /\ \A i \in 1..8 : CopyOrder[i] \in LookupTables
  /\ \A t \in LookupTables : \E i \in 1..8 : CopyOrder[i] = t
BY DEF CopyOrder, LookupTables

LEMMA DumpOrderShape ==
  /\ DOMAIN DumpOrder = 1..6 /\ Len(DumpOrder) = 6
  /\ \A i \in 1..6 : DumpOrder[i] \in LookupTables /\ DumpOrder[i] \in Dumped
  /\ \A t \in Dumped : \E i \in 1..6 : DumpOrder[i] = t
<1>1. DOMAIN DumpOrder = 1..6 /\ Len(DumpOrder) = 6
  BY DEF DumpOrder
<1>2. \A i \in 1..6 : DumpOrder[i] \in Dumped
  BY <1>1 DEF Dumped
<1>3. LookupTables = {"agents", "diseases", "trades", "public_health_units",
                      "agents_diseases", "trades_agents", "lots", "schools_daycares"}
  BY DEF LookupTables, CopyOrder
<1>4. \A i \in 1..6 : DumpOrder[i] \in LookupTables
  BY <1>3 DEF DumpOrder
<1> QED  BY <1>1, <1>2, <1>4 DEF Dumped

LEMMA DumpOrderOnce ==
  \A i, j \in 1..6 : i # j => DumpOrder[i] # DumpOrder[j]
BY DEF DumpOrder

LEMMA DeleteOrderShape ==
  DOMAIN DeleteOrder = 1..7 /\ Len(DeleteOrder) = 7
BY DEF DeleteOrder

\* What a table references is dumped before the table.
LEMMA ParentsFirst ==
  ASSUME NEW i \in 1..6, NEW r \in References(DumpOrder[i])
  PROVE  \E j \in 1..6 : j < i /\ DumpOrder[j] = r
<1>1. /\ DumpOrder[1] = "agents" /\ DumpOrder[2] = "diseases" /\ DumpOrder[3] = "trades"
      /\ DumpOrder[4] = "agents_diseases" /\ DumpOrder[5] = "trades_agents"
      /\ DumpOrder[6] = "schools_daycares"
  BY DEF DumpOrder
<1>2. i \in {4, 5}
  BY <1>1 DEF References
<1>3. r \in {"agents", "diseases", "trades"}
  BY DEF References
<1> QED  BY <1>1, <1>2, <1>3

\* References are one level deep.
LEMMA ParentsHaveNone ==
  ASSUME NEW t, NEW r \in References(t)
  PROVE  References(r) = {} /\ r \in LookupTables
<1>1. r \in {"agents", "diseases", "trades"}
  BY DEF References
<1>2. \A i \in 1..8 : CopyOrder[i] \in LookupTables
  BY CopyOrderShape
<1>3. CopyOrder[1] = "agents" /\ CopyOrder[2] = "diseases" /\ CopyOrder[3] = "trades"
  BY DEF CopyOrder
<1>4. r \in LookupTables
  BY <1>1, <1>2, <1>3
<1> QED  BY <1>1, <1>4 DEF References
-----------------------------------------------------------------------------
(* The parts of IInv and what they depend on.                              *)

\* A step of a load that neither commits nor copies: what it holds shrinks, if it
\* changes.
LEMMA LoadKeeps ==
  ASSUME IInv, NEW l \in Loads, UNCHANGED <<content, dumpAt, dump, reloaded>>,
         TypeOK', \A o \in Loads : Holds(o)' \subseteq Holds(o)
  PROVE  IInv'
<1>1. ReferencesHold' /\ DumpFollows' /\ DumpedClosed'
  BY DEF IInv, ReferencesHold, DumpFollows, DumpedClosed
<1>2. HeldEmpty' /\ HeldOnce'
  BY DEF IInv, HeldEmpty, HeldOnce
<1> QED  BY <1>1, <1>2 DEF IInv

\* What a load holds depends on its own step and count.
LEMMA HoldsOf ==
  ASSUME TypeOK, NEW l \in Loads
  PROVE  /\ step[l] # "open" => Holds(l) = {}
         /\ step[l] = "open" => Holds(l) = {CopyOrder[i] : i \in 1..copied[l]}
         /\ step'[l] # "open" => Holds(l)' = {}
         /\ step'[l] = "open" => Holds(l)' = {CopyOrder[i] : i \in 1..copied'[l]}
BY DEF Holds

LEMMA HoldsTables ==
  ASSUME TypeOK, NEW l \in Loads
  PROVE  Holds(l) \subseteq LookupTables
<1>1. copied[l] \in 0..8
  BY Lengths DEF TypeOK
<1>2. 1..copied[l] \subseteq 1..8
  BY <1>1
<1>3. \A i \in 1..copied[l] : CopyOrder[i] \in LookupTables
  BY <1>2, CopyOrderShape
<1> QED  BY <1>3 DEF Holds

\* Leaving the transaction, or staying out of it.
LEMMA LeaveKeeps ==
  ASSUME IInv, NEW l \in Loads, NEW to \in {"idle", "open", "failed", "refresh"},
         step' = [step EXCEPT ![l] = to],
         (to # "open" /\ copied' = copied) \/ copied' = [copied EXCEPT ![l] = 0],
         UNCHANGED <<content, dumpAt, dump, reloaded>>,
         TypeOK'
  PROVE  IInv'
<1>1. /\ step'[l] = to
      /\ \A o \in Loads \ {l} : step'[o] = step[o] /\ copied'[o] = copied[o]
  BY DEF IInv, TypeOK
<1>2. Holds(l)' = {}
  <2>1. CASE to # "open"
    BY <1>1, <2>1, HoldsOf DEF IInv
  <2>2. CASE copied' = [copied EXCEPT ![l] = 0]
    <3>1. copied'[l] = 0
      BY <2>2 DEF IInv, TypeOK
    <3>2. 1..copied'[l] = {}
      BY <3>1
    <3> QED  BY <3>2, HoldsOf DEF IInv
  <2> QED  BY <2>1, <2>2
<1>3. \A o \in Loads \ {l} : Holds(o)' = Holds(o)
  BY <1>1 DEF Holds
<1>4. \A o \in Loads : Holds(o)' \subseteq Holds(o)
  BY <1>2, <1>3
<1> QED  BY <1>4, LoadKeeps
-----------------------------------------------------------------------------
(* 5_Lookup_Data.sql                                                       *)

LEMMA StartLoadInv ==
  ASSUME IInv, NEW l \in Loads, StartLoad(l)
  PROVE  IInv'
<1>1. /\ step' = [step EXCEPT ![l] = "open"] /\ copied' = [copied EXCEPT ![l] = 0]
      /\ UNCHANGED <<content, index, deleteAt, dumps, faults>>
      /\ runs' = runs + 1
  BY DEF StartLoad, Go, Run
<1>2. cleared' \in BOOLEAN
  BY Zenon DEF StartLoad
<1>3. TypeOK'
  BY <1>1, <1>2, Lengths DEF IInv, TypeOK, dumps
<1> QED  BY <1>1, <1>3, LeaveKeeps DEF dumps

\* Steps that leave the transaction without a trace in the tables.
LEMMA LeaveInv ==
  ASSUME IInv, NEW l \in Loads,
         CopyDuplicate(l) \/ CopyFails(l) \/ RollBack(l) \/ LoseLoad(l)
  PROVE  IInv'
<1>1. PICK to \in {"idle", "failed", "refresh"} : step' = [step EXCEPT ![l] = to]
  BY Zenon DEF CopyDuplicate, CopyFails, RollBack, LoseLoad, Go
<1>2. /\ UNCHANGED <<content, index, copied, deletes, dumps, runs>>
      /\ faults' = faults \/ faults' = faults + 1
  BY DEF CopyDuplicate, CopyFails, RollBack, LoseLoad, Fault
<1>3. TypeOK'
  BY <1>1, <1>2 DEF IInv, TypeOK, deletes, dumps
<1> QED  BY <1>1, <1>2, <1>3, LeaveKeeps DEF dumps

LEMMA RefreshInv ==
  ASSUME IInv, NEW l \in Loads, Refresh(l)
  PROVE  IInv'
<1>1. /\ step' = [step EXCEPT ![l] = "idle"]
      /\ UNCHANGED <<content, copied, deletes, dumps, runs, faults>>
      /\ index' = content["schools_daycares"]
  BY DEF Refresh, Go
<1>2. CopyOrder[8] = "schools_daycares"
  BY DEF CopyOrder
<1>3. "schools_daycares" \in LookupTables
  BY <1>2, CopyOrderShape
<1>4. TypeOK'
  BY <1>1, <1>3 DEF IInv, TypeOK, deletes, dumps
<1> QED  BY <1>1, <1>4, LeaveKeeps DEF dumps

\* The load that copies a table finds it empty, and no other load holds it.
LEMMA CopyInv ==
  ASSUME IInv, NEW l \in Loads, Copy(l)
  PROVE  IInv'
<1> DEFINE t == CopyOrder[copied[l] + 1]
<1>1. /\ step[l] = "open" /\ copied[l] < 8 /\ content[t] = "empty"
      /\ \A o \in Loads \ {l} : t \notin Holds(o)
      /\ copied' = [copied EXCEPT ![l] = @ + 1]
      /\ UNCHANGED <<content, index, step, deletes, dumps, runs, faults>>
  BY CopyOrderShape DEF Copy, CanCopy
<1>2. /\ copied'[l] = copied[l] + 1 /\ copied[l] \in 0..7
      /\ \A o \in Loads \ {l} : copied'[o] = copied[o]
  BY <1>1, CopyOrderShape DEF IInv, TypeOK
<1>3. TypeOK'
  BY <1>1, <1>2, CopyOrderShape DEF IInv, TypeOK, deletes, dumps
<1>4. \A o \in Loads \ {l} : Holds(o)' = Holds(o)
  BY <1>1, <1>2 DEF Holds
<1>5. Holds(l)' = Holds(l) \cup {t}
  <2>1. Holds(l) = {CopyOrder[i] : i \in 1..copied[l]}
    BY <1>1 DEF Holds
  <2>2. Holds(l)' = {CopyOrder[i] : i \in 1..copied[l] + 1}
    BY <1>1, <1>2 DEF Holds
  <2>3. 1..copied[l] + 1 = 1..copied[l] \cup {copied[l] + 1}
    BY <1>2
  <2> QED  BY <2>1, <2>2, <2>3
<1>6. HeldEmpty'
  BY <1>1, <1>4, <1>5 DEF IInv, HeldEmpty
<1>7. HeldOnce'
  BY <1>1, <1>4, <1>5 DEF IInv, HeldOnce
<1>8. ReferencesHold' /\ DumpFollows' /\ DumpedClosed'
  BY <1>1 DEF IInv, ReferencesHold, DumpFollows, DumpedClosed, dumps
<1> QED  BY <1>3, <1>6, <1>7, <1>8 DEF IInv

\* A load that commits holds every table: all are empty before and full after, and no
\* other load holds any of them.
LEMMA CommitFills ==
  ASSUME IInv, NEW l \in Loads, Commit(l)
  PROVE  /\ \A t \in LookupTables : content[t] = "empty" /\ content'[t] = "full"
         /\ \A o \in Loads \ {l} : Holds(o) = {}
<1>1. step[l] = "open" /\ copied[l] = 8
  BY CopyOrderShape DEF Commit, Go
<1>2. Holds(l) = {CopyOrder[i] : i \in 1..8}
  BY <1>1 DEF Holds
<1>3. Holds(l) = LookupTables
  BY <1>2, CopyOrderShape
<1>4. \A t \in LookupTables : content[t] = "empty"
  BY <1>3 DEF IInv, HeldEmpty
<1>5. \A t \in LookupTables : content'[t] = "full"
  BY <1>3 DEF Commit
<1>6. ASSUME NEW o \in Loads \ {l} PROVE Holds(o) = {}
  <2>1. Holds(o) \subseteq LookupTables
    BY HoldsTables DEF IInv
  <2>2. Holds(o) \cap LookupTables = {}
    BY <1>3 DEF IInv, HeldOnce
  <2> QED  BY <2>1, <2>2
<1> QED  BY <1>4, <1>5, <1>6

LEMMA CommitInv ==
  ASSUME IInv, NEW l \in Loads, Commit(l)
  PROVE  IInv'
<1>1. /\ step' = [step EXCEPT ![l] = "refresh"] /\ reloaded' = TRUE
      /\ UNCHANGED <<index, copied, deletes, dumpAt, dump, runs, faults>>
      /\ content' \in [LookupTables -> {"empty", "full"}]
  BY DEF Commit, Go, IInv, TypeOK
<1>2. /\ step'[l] = "refresh"
      /\ \A o \in Loads \ {l} : step'[o] = step[o]
  BY <1>1 DEF IInv, TypeOK
<1>3. TypeOK'
  BY <1>1 DEF IInv, TypeOK, deletes
<1>4. \A o \in Loads : Holds(o)' = {}
  <2>1. Holds(l)' = {}
    BY <1>2 DEF Holds
  <2>2. ASSUME NEW o \in Loads \ {l} PROVE Holds(o)' = Holds(o)
    BY <1>1, <1>2 DEF Holds
  <2> QED  BY <2>1, <2>2, CommitFills
<1>5. HeldEmpty' /\ HeldOnce'
  BY <1>4 DEF HeldEmpty, HeldOnce
<1>6. ReferencesHold'
  BY CommitFills, ParentsHaveNone DEF ReferencesHold
<1>7. DumpFollows' /\ DumpedClosed'
  BY <1>1 DEF DumpFollows, DumpedClosed
<1> QED  BY <1>3, <1>5, <1>6, <1>7 DEF IInv
-----------------------------------------------------------------------------
(* DeleteLookupData.sql                                                    *)

LEMMA NextDeleteOK ==
  ASSUME deleteAt \in 0..7, Deleting, NextDelete
  PROVE  deleteAt' \in 0..Len(DeleteOrder)
BY DeleteOrderShape DEF Deleting, NextDelete

\* A table is emptied together with the tables that reference it.
LEMMA DeleteInv ==
  ASSUME IInv, Delete
  PROVE  IInv'
<1> DEFINE table == DeleteOrder[deleteAt]
<1>1. /\ UNCHANGED <<index, loads, cleared, dumps, runs, faults>>
      /\ \A t \in LookupTables :
           content'[t] = IF t = table \/ table \in References(t) THEN "empty"
                                                                  ELSE content[t]
      /\ content' \in [LookupTables -> {"empty", "full"}]
  BY DEF Delete, IInv, TypeOK
<1>2. deleteAt' \in 0..Len(DeleteOrder)
  BY NextDeleteOK, DeleteOrderShape DEF Delete, IInv, TypeOK
<1>3. TypeOK'
  BY <1>1, <1>2 DEF IInv, TypeOK, loads, dumps
<1>4. \A t \in LookupTables : content'[t] = "full" => content[t] = "full"
  BY <1>1
<1>5. ReferencesHold'
  <2> SUFFICES ASSUME NEW t \in LookupTables, content'[t] = "full", NEW r \in References(t)
               PROVE  content'[r] = "full"
    BY DEF ReferencesHold
  <2>1. content[r] = "full" /\ table \notin References(t)
    BY <1>1, <1>4 DEF IInv, ReferencesHold
  <2>2. r \in LookupTables /\ References(r) = {} /\ r # table
    BY <2>1, ParentsHaveNone
  <2> QED  BY <1>1, <2>1, <2>2
<1>6. HeldEmpty' /\ HeldOnce'
  <2>1. \A l \in Loads : Holds(l)' = Holds(l)
    BY <1>1 DEF Holds, loads
  <2>2. \A l \in Loads : Holds(l) \subseteq LookupTables
    BY HoldsTables DEF IInv
  <2> QED  BY <1>1, <2>1, <2>2 DEF IInv, HeldEmpty, HeldOnce
<1>7. DumpFollows' /\ DumpedClosed'
  BY <1>1, <1>4, DumpOrderShape DEF IInv, DumpFollows, DumpedClosed, dumps
<1> QED  BY <1>3, <1>5, <1>6, <1>7 DEF IInv

\* Steps that change no rows, no dump and no load.
LEMMA OthersKeep ==
  ASSUME IInv, TypeOK', UNCHANGED <<content, loads, dumps>>
  PROVE  IInv'
<1>1. \A l \in Loads : Holds(l)' = Holds(l)
  BY DEF Holds, loads
<1>2. HeldEmpty' /\ HeldOnce'
  BY <1>1 DEF IInv, HeldEmpty, HeldOnce
<1>3. ReferencesHold' /\ DumpFollows' /\ DumpedClosed'
  BY DEF IInv, ReferencesHold, DumpFollows, DumpedClosed, dumps
<1> QED  BY <1>2, <1>3 DEF IInv

LEMMA DeleteOtherInv ==
  ASSUME IInv, StartDelete \/ DeleteFails
  PROVE  IInv'
<1>1. /\ UNCHANGED <<content, index, loads, dumps>> /\ cleared' \in BOOLEAN
      /\ runs' = runs \/ runs' = runs + 1
      /\ faults' = faults \/ faults' = faults + 1
  BY DEF StartDelete, DeleteFails, NoLoad, Run, Fault
<1>2. deleteAt' \in 0..Len(DeleteOrder)
  BY NextDeleteOK, DeleteOrderShape DEF StartDelete, DeleteFails, IInv, TypeOK
<1>3. TypeOK'
  BY <1>1, <1>2 DEF IInv, TypeOK, loads, dumps
<1> QED  BY <1>1, <1>3, OthersKeep
-----------------------------------------------------------------------------
(* DumpLookups                                                             *)

\* Steps that only dump.
LEMMA DumpKeeps ==
  ASSUME IInv, TypeOK', UNCHANGED <<content, loads>>, DumpFollows', DumpedClosed'
  PROVE  IInv'
<1>1. \A l \in Loads : Holds(l)' = Holds(l)
  BY DEF Holds, loads
<1>2. HeldEmpty' /\ HeldOnce' /\ ReferencesHold'
  BY <1>1 DEF IInv, HeldEmpty, HeldOnce, ReferencesHold
<1> QED  BY <1>2 DEF IInv

LEMMA StartDumpInv ==
  ASSUME IInv, StartDump
  PROVE  IInv'
<1>1. /\ dumpAt' = 1 /\ runs' = runs + 1
      /\ UNCHANGED <<content, index, loads, deletes, dump, faults>>
  BY DEF StartDump, Run
<1>2. reloaded' \in BOOLEAN
  BY Zenon DEF StartDump
<1>3. TypeOK'
  BY <1>1, <1>2, Lengths DEF IInv, TypeOK, loads, deletes
<1>4. DumpFollows' /\ DumpedClosed'
  BY <1>1, DumpOrderShape DEF DumpFollows, DumpedClosed
<1> QED  BY <1>1, <1>3, <1>4, DumpKeeps

LEMMA DeleteDumpsInv ==
  ASSUME IInv, DeleteDumps
  PROVE  IInv'
<1>1. /\ dumpAt' = 0 /\ dump' = [t \in Dumped |-> "none"]
      /\ UNCHANGED <<content, index, loads, deletes, reloaded, runs, faults>>
  BY DEF DeleteDumps
<1>2. TypeOK'
  BY <1>1, Lengths DEF IInv, TypeOK, loads, deletes
<1>3. DumpFollows' /\ DumpedClosed'
  BY <1>1, DumpOrderShape DEF DumpFollows, DumpedClosed
<1> QED  BY <1>1, <1>2, <1>3, DumpKeeps

\* The file just written has rows only if the table had, so that what it references
\* had rows too, and has them in its file since no load came between.
LEMMA DumpInv ==
  ASSUME IInv, DumpTable \/ DumpFails
  PROVE  IInv'
<1> DEFINE table == DumpOrder[dumpAt]
<1>1. PICK outcome \in {content[table], "broken"} : Dump(outcome)
  BY DEF DumpTable, DumpFails
<1>2. /\ dumpAt \in 1..6 /\ dumpAt' = dumpAt + 1
      /\ dump' = [dump EXCEPT ![table] = outcome]
      /\ UNCHANGED <<content, index, loads, deletes, reloaded, runs>>
  BY <1>1, DumpOrderShape DEF Dump
<1>3. faults' = faults \/ faults' = faults + 1
  BY DEF DumpTable, DumpFails, Fault
<1>4. table \in Dumped /\ table \in LookupTables
  BY <1>2, DumpOrderShape
<1>5. outcome \in {"empty", "full", "broken"}
  BY <1>1, <1>4 DEF IInv, TypeOK
<1>6. /\ dump' \in [Dumped -> {"none", "empty", "full", "broken"}]
      /\ dump'[table] = outcome
      /\ \A t \in Dumped \ {table} : dump'[t] = dump[t]
  BY <1>2, <1>4, <1>5 DEF IInv, TypeOK
<1>7. TypeOK'
  BY <1>2, <1>3, <1>6, DumpOrderShape DEF IInv, TypeOK, loads, deletes
<1>8. \A i \in 1..6 : i < dumpAt' => i = dumpAt \/ (i < dumpAt /\ DumpOrder[i] # table)
  BY <1>2, DumpOrderOnce
<1>9. DumpFollows'
  <2> SUFFICES ASSUME ~reloaded, NEW i \in 1..6, i < dumpAt', content[DumpOrder[i]] = "full"
               PROVE  dump'[DumpOrder[i]] \in {"full", "broken"}
    BY <1>2, DumpOrderShape DEF DumpFollows
  <2>1. CASE i = dumpAt
    BY <1>1, <1>6, <2>1
  <2>2. CASE i < dumpAt /\ DumpOrder[i] # table
    BY <1>6, <2>2, DumpOrderShape DEF IInv, DumpFollows
  <2> QED  BY <1>8, <2>1, <2>2
<1>10. DumpedClosed'
  <2> SUFFICES ASSUME ~reloaded, NEW i \in 1..6, i < dumpAt', dump'[DumpOrder[i]] = "full",
                      NEW r \in References(DumpOrder[i])
               PROVE  dump'[r] \in {"full", "broken"}
    BY <1>2, DumpOrderShape DEF DumpedClosed
  <2>1. PICK j \in 1..6 : j < i /\ DumpOrder[j] = r
    BY ParentsFirst
  <2>2. j < dumpAt /\ r # table /\ r \in Dumped
    BY <1>2, <2>1, DumpOrderOnce, DumpOrderShape
  <2>3. CASE i = dumpAt
    <3>1. content[table] = "full"
      BY <1>1, <1>6, <2>3
    <3>2. content[r] = "full"
      BY <1>4, <2>3, <3>1 DEF IInv, ReferencesHold
    <3>3. dump[r] \in {"full", "broken"}
      BY <2>1, <2>2, <3>2, DumpOrderShape DEF IInv, DumpFollows
    <3> QED  BY <1>6, <2>2, <3>3
  <2>4. CASE i < dumpAt /\ DumpOrder[i] # table
    <3>1. dump[DumpOrder[i]] = "full"
      BY <1>6, <2>4, DumpOrderShape
    <3>2. dump[r] \in {"full", "broken"}
      BY <2>4, <3>1, DumpOrderShape DEF IInv, DumpedClosed
    <3> QED  BY <1>6, <2>2, <3>2
  <2> QED  BY <1>8, <2>3, <2>4
<1> QED  BY <1>2, <1>7, <1>9, <1>10, DumpKeeps
-----------------------------------------------------------------------------
LEMMA InitIInv == Init => IInv
<1> SUFFICES ASSUME Init PROVE IInv
  OBVIOUS
<1>0. cleared \in BOOLEAN /\ reloaded \in BOOLEAN
  BY Zenon DEF Init
<1>1. TypeOK
  BY <1>0, Lengths DEF Init, TypeOK
<1>2. \A l \in Loads : Holds(l) = {}
  BY DEF Init, Holds
<1>3. HeldEmpty /\ HeldOnce
  BY <1>2 DEF HeldEmpty, HeldOnce
<1>4. ReferencesHold
  BY DEF Init, ReferencesHold
<1>5. DumpFollows /\ DumpedClosed
  BY DumpOrderShape DEF Init, DumpFollows, DumpedClosed
<1> QED  BY <1>1, <1>3, <1>4, <1>5 DEF IInv

LEMMA NextIInv == IInv /\ [Next]_vars => IInv'
<1> SUFFICES ASSUME IInv, [Next]_vars PROVE IInv'
  OBVIOUS
<1>1. CASE UNCHANGED vars
  <2>1. TypeOK'
    BY <1>1 DEF vars, loads, deletes, dumps, IInv, TypeOK
  <2> QED  BY <1>1, <2>1, OthersKeep DEF vars
<1>2. CASE \E l \in Loads : StartLoad(l) \/ LoadStep(l) \/ CopyFails(l) \/ LoseLoad(l)
  BY <1>2, StartLoadInv, CopyInv, CommitInv, RefreshInv, LeaveInv DEF LoadStep
<1>3. CASE StartDelete \/ Delete \/ DeleteFails
  BY <1>3, DeleteInv, DeleteOtherInv
<1>4. CASE StartDump \/ DumpTable \/ DumpFails \/ DeleteDumps
  BY <1>4, StartDumpInv, DumpInv, DeleteDumpsInv
<1> QED  BY <1>1, <1>2, <1>3, <1>4 DEF Next

THEOREM Invariance == Spec => []IInv
<1> QED  BY InitIInv, NextIInv, PTL DEF Spec

\* Tables, loads, files and positions stay within their types.
THEOREM TypeCorrect == Spec => []TypeOK
<1>1. IInv => TypeOK
  BY DEF IInv
<1> QED  BY Invariance, <1>1, PTL

\* No table has rows that reference rows which are gone, whatever failed.
THEOREM NoDanglingReference == Spec => []ReferencesHold
<1>1. IInv => ReferencesHold
  BY DEF IInv
<1> QED  BY Invariance, <1>1, PTL

\* A dump that no load came into can be loaded again, file by file in its order.
THEOREM DumpsAreClosed == Spec => []DumpClosed
<1>1. IInv => DumpClosed
  <2> SUFFICES ASSUME IInv, dumpAt = 7, ~reloaded, NEW t \in Dumped, dump[t] = "full",
                      NEW r \in References(t)
               PROVE  dump[r] \in {"full", "broken"}
    BY DumpOrderShape DEF DumpClosed
  <2>1. PICK i \in 1..6 : DumpOrder[i] = t
    BY DumpOrderShape
  <2> QED  BY <2>1, DumpOrderShape DEF IInv, DumpedClosed
<1> QED  BY Invariance, <1>1, PTL

-----------------------------------------------------------------------------
\* A table is filled only by a load that fills all of them, from empty.
FillsAll ==
  (\E t \in LookupTables : content[t] = "empty" /\ content'[t] = "full")
    => \A t \in LookupTables : content[t] = "empty" /\ content'[t] = "full"

LEMMA StepFillsAll == ASSUME IInv, Next PROVE FillsAll
<1>1. CASE \E l \in Loads : Commit(l)
  <2>1. PICK l \in Loads : Commit(l)
    BY <1>1
  <2> QED  BY <2>1, CommitFills DEF FillsAll
<1>2. CASE Delete
  BY <1>2 DEF Delete, IInv, TypeOK, FillsAll
<1>3. CASE content' = content
  BY <1>3 DEF FillsAll
<1>4. (\E l \in Loads : Commit(l)) \/ Delete \/ content' = content
  BY DEF Next, LoadStep, StartLoad, Copy, CopyDuplicate, CopyFails, RollBack,
         Refresh, LoseLoad, StartDelete, DeleteFails, StartDump, DumpTable,
         DumpFails, Dump, DeleteDumps
<1> QED  BY <1>1, <1>2, <1>3, <1>4

\* The lookup data appear all at once, for any number of loads and deletes.
THEOREM LoadsAreWhole == Spec => LoadedTogether
<1>1. IInv /\ [Next]_vars => [FillsAll]_vars
  BY StepFillsAll
<1> QED  BY Invariance, <1>1, PTL DEF Spec, LoadedTogether, FillsAll

\* As long as public_health_units has its rows no other table is filled: the script
\* that deletes the lookup data does not make a second load possible.
THEOREM LoadsOnce == Spec => DataLoadedOnce
<1> DEFINE Once == content["public_health_units"] = "full" =>
                     \A t \in LookupTables : content[t] = "empty" => content'[t] = "empty"
<1>1. "public_health_units" \in LookupTables
  <2>1. CopyOrder[4] = "public_health_units"
    BY DEF CopyOrder
  <2> QED  BY <2>1, CopyOrderShape
<1>2. ASSUME IInv, Next PROVE Once
  <2>1. IInv'
    BY <1>2, NextIInv
  <2>2. content' \in [LookupTables -> {"empty", "full"}]
    BY <2>1 DEF IInv, TypeOK
  <2> QED  BY <1>1, <1>2, <2>2, StepFillsAll DEF FillsAll
<1>3. IInv /\ [Next]_vars => [Once]_vars
  BY <1>2
<1> QED  BY Invariance, <1>3, PTL DEF Spec, DataLoadedOnce
-----------------------------------------------------------------------------
LEMMA DeleteOrderTables ==
  /\ \A i \in 1..7 : DeleteOrder[i] \in LookupTables
  /\ \A t \in LookupTables \ {"public_health_units"} : \E i \in 1..7 : DeleteOrder[i] = t
<1>1. LookupTables = {"agents", "diseases", "trades", "public_health_units",
                      "agents_diseases", "trades_agents", "lots", "schools_daycares"}
  BY DEF LookupTables, CopyOrder
<1>2. /\ DeleteOrder[1] = "agents_diseases" /\ DeleteOrder[2] = "trades_agents"
      /\ DeleteOrder[3] = "lots" /\ DeleteOrder[4] = "diseases"
      /\ DeleteOrder[5] = "agents" /\ DeleteOrder[6] = "trades"
      /\ DeleteOrder[7] = "schools_daycares"
  BY DEF DeleteOrder
<1> QED  BY <1>1, <1>2

LEMMA ClearedStep == ASSUME IInv, ClearedSoFar, Next PROVE ClearedSoFar'
<1> SUFFICES ASSUME cleared' PROVE ClearedSoFar'
  BY DEF ClearedSoFar
<1>1. CASE StartDelete
  <2>1. /\ deleteAt' = 1 /\ cleared' = NoLoad /\ UNCHANGED loads
    BY <1>1, Zenon DEF StartDelete
  <2>2. NoLoad'
    BY <2>1 DEF NoLoad, loads
  <2> QED  BY <2>1, <2>2, DeleteOrderShape DEF ClearedSoFar
<1>2. CASE Delete
  <2>1. /\ cleared' = cleared /\ UNCHANGED loads /\ NextDelete /\ deleteAt \in 1..7
        /\ \A t \in LookupTables : content[t] = "empty" => content'[t] = "empty"
        /\ content'[DeleteOrder[deleteAt]] = "empty"
    BY <1>2, DeleteOrderShape, DeleteOrderTables DEF Delete, Deleting
  <2>2. NoLoad'
    BY <2>1 DEF NoLoad, loads, ClearedSoFar
  <2>3. \A i \in 1..7 : deleteAt' = 0 \/ i < deleteAt' => i < deleteAt \/ i = deleteAt
    BY <2>1, DeleteOrderShape DEF NextDelete
  <2> QED  BY <2>1, <2>2, <2>3, DeleteOrderShape, DeleteOrderTables DEF ClearedSoFar
<1>3. CASE UNCHANGED <<content, deleteAt, cleared, step>>
  BY <1>3 DEF ClearedSoFar, NoLoad
<1>4. CASE \E l \in Loads : LoadStep(l) \/ CopyFails(l) \/ LoseLoad(l)
  <2>1. PICK l \in Loads : LoadStep(l) \/ CopyFails(l) \/ LoseLoad(l)
    BY <1>4
  <2>2. step[l] # "idle" /\ cleared' = cleared
    BY <2>1 DEF LoadStep, Copy, CanCopy, CopyDuplicate, CopyFails, Commit, RollBack,
                Refresh, LoseLoad, Go, deletes
  <2> QED  BY <2>2 DEF ClearedSoFar, NoLoad
<1>5. CASE (\E l \in Loads : StartLoad(l)) \/ DeleteFails
  BY <1>5, Zenon DEF StartLoad, DeleteFails
<1>6. CASE StartDump \/ DumpTable \/ DumpFails \/ DeleteDumps
  BY <1>3, <1>6 DEF StartDump, DumpTable, DumpFails, Dump, DeleteDumps, loads, deletes
<1> QED  BY <1>1, <1>2, <1>4, <1>5, <1>6 DEF Next

\* A delete run that meets no failure and no load leaves rows in public_health_units
\* only: that table is all that ClearedTables fails for.
THEOREM Cleared == Spec => []OnlyUnitsLeft
<1>1. Init => ClearedSoFar
  BY DEF Init, ClearedSoFar
<1>2. IInv /\ ClearedSoFar /\ [Next]_vars => ClearedSoFar'
  <2>1. CASE UNCHANGED vars
    BY <2>1 DEF vars, loads, deletes, ClearedSoFar, NoLoad
  <2> QED  BY <2>1, ClearedStep
<1>3. ClearedSoFar => OnlyUnitsLeft
  BY DeleteOrderShape, DeleteOrderTables DEF ClearedSoFar, OnlyUnitsLeft
<1> QED  BY Invariance, <1>1, <1>2, <1>3, PTL DEF Spec
-----------------------------------------------------------------------------
(* The composition: each part takes its own steps, or stands still.        *)

LEMMA TablesSpec == FairSpec_p => Spec
<1>1. Init_p => Init
  BY DEF Init_p
<1>2. [Next_p]_vars_p => [Next]_vars
  BY DEF Next_p, Tables, Loaders, vars_p
<1> QED  BY <1>1, <1>2, PTL DEF FairSpec_p, Spec

\* What is proved of the tables holds whatever the loaders do.
THEOREM TablesHold ==
  FairSpec_p => /\ [](ReferencesHold /\ DumpClosed /\ OnlyUnitsLeft)
                /\ LoadedTogether /\ DataLoadedOnce
<1> QED  BY TablesSpec, NoDanglingReference, DumpsAreClosed, Cleared, LoadsAreWhole,
            LoadsOnce, PTL

LEMMA LoadersAssumption == MP!LoaderAssumption /\ MaxPurges \in Nat
BY MaintenanceAssumption DEF M!LoaderAssumption, MP!LoaderAssumption, M!IsFiniteSet,
                             MP!IsFiniteSet

LEMMA LoadersSpec == FairSpec_p => MP!Spec_m
<1>1. Init_p => MP!Init_m
  BY DEF Init_p, M!Init_m, MP!Init_m, M!Init, MP!Init, M!NoTx, MP!NoTx
<1>2. M!Next_m => MP!Next_m
  BY Zenon
  DEF M!AfterRow, MP!AfterRow, M!At, MP!At, M!Becomes, MP!Becomes, M!Cardinality,
      MP!Cardinality, M!ClearLoad, MP!ClearLoad, M!Client, MP!Client, M!Commit,
      MP!Commit, M!CreateBak, MP!CreateBak, M!DeleteMain, MP!DeleteMain,
      M!Disconnect, MP!Disconnect, M!DropBak, MP!DropBak, M!Inputs, MP!Inputs,
      M!Insert, MP!Insert, M!LoadStep, MP!LoadStep, M!NameTaken, MP!NameTaken,
      M!Next_m, MP!Next_m, M!NoTx, MP!NoTx, M!Others, MP!Others, M!PurgeBegin,
      MP!PurgeBegin, M!PurgeCommit, MP!PurgeCommit, M!PurgeLost, MP!PurgeLost,
      M!PurgeRows, MP!PurgeRows, M!PurgeStep, MP!PurgeStep, M!Raise, MP!Raise,
      M!Refresh, MP!Refresh, M!Shown, MP!Shown, M!Staging, MP!Staging,
      M!Statement, MP!Statement, M!Transform, MP!Transform, M!committed,
      MP!committed, M!vars, MP!vars
<1>3. [Next_p]_vars_p => [MP!Next_m]_MP!vars_m
  BY <1>2 DEF Next_p, Tables, Loaders, vars_p, loaders, MP!vars_m, MP!vars
<1> QED  BY <1>1, <1>3, PTL DEF FairSpec_p, MP!Spec_m

\* The states of tables, views, backups, loads, purges and scripts.
THEOREM AllTypesCorrect == FairSpec_p => []TypesOK
<1>1. MP!Spec_m => []MP!TypeOK_m
  BY LoadersAssumption, MP!TypeCorrect_m
<1>2. MP!TypeOK_m => M!TypeOK_m
  BY DEF M!TypeOK_m, MP!TypeOK_m, M!TypeOK, MP!TypeOK, M!Contents, MP!Contents,
         M!Tx, MP!Tx, M!Steps, MP!Steps
<1> QED  BY <1>1, <1>2, LoadersSpec, TablesSpec, TypeCorrect, PTL DEF TypesOK

\* Readers of schools_daycares find the whole last load or nothing, whatever is loaded
\* and purged at the same time.
THEOREM ReadersSeeWhole == Indexed => (FairSpec_p => []WholeOrNothing)
<1> SUFFICES ASSUME Indexed PROVE FairSpec_p => []WholeOrNothing
  OBVIOUS
<1>1. MP!Spec_m => []MP!WholeOrNothing
  BY LoadersAssumption, MP!WholeOrNone
<1>2. MP!WholeOrNothing => WholeOrNothing
  BY DEF WholeOrNothing, M!WholeOrNothing, MP!WholeOrNothing
<1> QED  BY <1>1, <1>2, LoadersSpec, PTL

\* A load leaves schools_daycares_index in agreement with its table, whatever was
\* purged before or during it.
THEOREM ViewRefreshed == Indexed => (FairSpec_p => LoadRefreshesView)
<1> SUFFICES ASSUME Indexed PROVE FairSpec_p => LoadRefreshesView
  OBVIOUS
<1>1. MP!Spec_m => MP!LoadRefreshesView
  BY LoadersAssumption, MP!LoadsRefreshView
<1>2. MP!LoadRefreshesView => LoadRefreshesView
  BY DEF LoadRefreshesView, M!LoadRefreshesView, MP!LoadRefreshesView, M!LoadCommits,
         MP!LoadCommits, M!At, MP!At, M!committed, MP!committed, M!vars_m,
         MP!vars_m, M!vars, MP!vars
<1> QED  BY <1>1, <1>2, LoadersSpec, PTL

\* With one document per INSERT the rows that a load replaces are all in the backup it
\* leaves, although a purge may come between the copy and the DELETE.
THEOREM BackupHasReplaced == MaxRows = 1 => (FairSpec_p => BackupCoversReplaced)
<1> SUFFICES ASSUME MaxRows = 1 PROVE FairSpec_p => BackupCoversReplaced
  OBVIOUS
<1>1. MP!Spec_m => MP!BackupCoversReplaced
  BY LoadersAssumption, MP!BackupCovers
<1>2. MP!BackupCoversReplaced => BackupCoversReplaced
  BY DEF BackupCoversReplaced, M!BackupCoversReplaced, MP!BackupCoversReplaced, M!LoadCommits,
         MP!LoadCommits, M!At, MP!At, M!committed, MP!committed, M!vars_m,
         MP!vars_m, M!vars, MP!vars
<1> QED  BY <1>1, <1>2, LoadersSpec, PTL
=============================================================================
