---------------------------- MODULE ProcessLock ----------------------------
(***************************************************************************)
(* The protocol that the table process_lock of 2_Create_Lookup_DB.sql is   *)
(* made for, in the transaction its comment prescribes to workers:         *)
(*                                                                         *)
(*   begin; select ... where current_date - N days >= updated_at           *)
(*          for update nowait;                                             *)
(*   .. do the updates ..                                                  *)
(*   update process_lock set updated_at = current_date; commit             *)
(*                                                                         *)
(* current_date is the day on which the transaction began, however long it *)
(* lasts.  The select finds the row as it was when the select started, and *)
(* then locks its latest version, which must satisfy the condition too.    *)
(***************************************************************************)
EXTENDS Integers

CONSTANTS
  Workers,     \* the scheduled workers
  Nobody,      \* not a worker
  Interval,    \* N: the days between two runs
  InitialAge,  \* days the first row is in the past: 60 in the script
  MaxDay,      \* bound: days that pass after the table was created
  MaxCrashes   \* bound: workers that die or lose their connection

ASSUME ProcessLockAssumption ==
  /\ Nobody \notin Workers
  /\ Interval \in Nat \ {0} /\ InitialAge \in Nat
  /\ MaxDay \in Nat /\ MaxCrashes \in Nat

VARIABLES
  today,       \* the server's date
  updated_at,  \* committed value of the row
  holder,      \* the worker whose transaction has locked the row, or Nobody
  step,        \* per worker: see Steps
  date,        \* per worker: current_date of its transaction
  crashes      \* used up of MaxCrashes

vars == <<today, updated_at, holder, step, date, crashes>>

Steps == {"idle",      \* no transaction
          "begun",     \* begin
          "found",     \* the select has found the row, and has not locked it yet
          "none",      \* the select has returned no row
          "working",   \* .. do the updates ..
          "updated"}   \* the row is updated, not committed

Due(w) == date[w] - Interval >= updated_at

Go(w, from, to) == step[w] = from /\ step' = [step EXCEPT ![w] = to]

\* The end of w's transaction, which frees the row if it has locked it.
Release(w) == holder' = IF holder = w THEN Nobody ELSE holder
-----------------------------------------------------------------------------
Begin(w) ==
  /\ Go(w, "idle", "begun")
  /\ date' = [date EXCEPT ![w] = today]
  /\ UNCHANGED <<today, updated_at, holder, crashes>>

Find(w) ==
  /\ Go(w, "begun", IF Due(w) THEN "found" ELSE "none")
  /\ UNCHANGED <<today, updated_at, holder, date, crashes>>

Lock_shared(w) ==  \* mutant: the select without FOR UPDATE waits for nobody
  /\ Go(w, "found", IF Due(w) THEN "working" ELSE "none")
  /\ holder' = IF Due(w) THEN w ELSE holder
  /\ UNCHANGED <<today, updated_at, date, crashes>>

Lock_unchecked(w) ==  \* mutant: the latest version is locked and not checked again
  /\ holder = Nobody
  /\ Go(w, "found", "working")
  /\ holder' = w
  /\ UNCHANGED <<today, updated_at, date, crashes>>

\* FOR UPDATE: the latest version is locked, and checked again.  A row that fails
\* the second check is not returned, and yet stays locked.
Lock(w) ==
  /\ holder = Nobody
  /\ Go(w, "found", IF Due(w) THEN "working" ELSE "none")
  /\ holder' = w
  /\ UNCHANGED <<today, updated_at, date, crashes>>

\* NOWAIT: the transaction fails when another one holds the lock.
Refuse(w) ==
  /\ holder # Nobody
  /\ Go(w, "found", "idle")
  /\ UNCHANGED <<today, updated_at, holder, date, crashes>>

GiveUp_pooled(w) ==  \* mutant: who has got no row leaves its transaction open
  /\ Go(w, "none", "idle")
  /\ UNCHANGED <<today, updated_at, holder, date, crashes>>

\* No row: the worker ends its transaction, until the next call of the scheduler.
GiveUp(w) ==
  /\ Go(w, "none", "idle")
  /\ Release(w)
  /\ UNCHANGED <<today, updated_at, date, crashes>>

Update(w) ==
  /\ Go(w, "working", "updated")
  /\ UNCHANGED <<today, updated_at, holder, date, crashes>>

Commit_next_due(w) ==  \* mutant: the row keeps the day of the next run
  /\ Go(w, "updated", "idle")
  /\ updated_at' = date[w] + Interval
  /\ holder' = Nobody
  /\ UNCHANGED <<today, date, crashes>>

Commit(w) ==
  /\ Go(w, "updated", "idle")
  /\ updated_at' = date[w]
  /\ holder' = Nobody
  /\ UNCHANGED <<today, date, crashes>>

\* The worker dies: the server rolls its transaction back and frees the lock.
Crash(w) ==
  /\ crashes < MaxCrashes /\ crashes' = crashes + 1
  /\ step[w] # "idle" /\ step' = [step EXCEPT ![w] = "idle"]
  /\ Release(w)
  /\ UNCHANGED <<today, updated_at, date>>

Midnight ==
  /\ today < InitialAge + MaxDay
  /\ today' = today + 1
  /\ UNCHANGED <<updated_at, holder, step, date, crashes>>
-----------------------------------------------------------------------------
\* Days are counted from the day of the first row.
Init ==
  /\ today = InitialAge /\ updated_at = 0
  /\ holder = Nobody /\ crashes = 0
  /\ step = [w \in Workers |-> "idle"]
  /\ date = [w \in Workers |-> InitialAge]

Call(w) == \/ Begin(w) \/ Find(w) \/ Lock(w) \/ Refuse(w) \/ GiveUp(w)
           \/ Update(w) \/ Commit(w)

Next == Midnight \/ \E w \in Workers : Call(w) \/ Crash(w)

Spec == Init /\ [][Next]_vars

\* The scheduler calls every worker again and again, and a call takes its steps.
FairSpec == Spec /\ \A w \in Workers : WF_vars(Call(w))
-----------------------------------------------------------------------------
\* Types; and neither the row nor a transaction has a date in the future.
TypeOK ==
  /\ today \in Nat /\ updated_at \in 0..today /\ crashes \in 0..MaxCrashes
  /\ holder \in Workers \cup {Nobody}
  /\ step \in [Workers -> Steps] /\ date \in [Workers -> 0..today]

\* "only one worker can run this", and only when N days have passed since the run
\* whose date is in the row.
OneDueWorker ==
  \A w \in Workers : step[w] \in {"working", "updated"} =>
    /\ Due(w)
    /\ \A o \in Workers : step[o] \in {"working", "updated"} => o = w

\* The date of the row only moves forward, and by at least N days at a time, even
\* when runs last over midnight or a worker's transaction began days ago.
Spaced == [][updated_at' # updated_at => updated_at' >= updated_at + Interval]_vars

\* "Other callers will get a failed transaction if the date is too recent".  Fails:
\* they get an empty result, and their transaction is as good as before.
TooRecentFails == \A w \in Workers : step[w] # "none"

\* A run that is due is made, though workers die and callers are refused, also by one
\* that holds the row and has not got it: the row does not keep a date N days old.
DueRuns == \A d \in 0..InitialAge + MaxDay :
  (updated_at = d /\ today - Interval >= d) ~> updated_at # d

\* The inductive invariant: who works holds the lock; who holds it works, or has
\* found out under the lock that it must not.
IInv ==
  /\ TypeOK /\ OneDueWorker
  /\ \A w \in Workers :
       /\ step[w] \in {"working", "updated"} => holder = w
       /\ holder = w => step[w] \in {"working", "updated", "none"}
=============================================================================
