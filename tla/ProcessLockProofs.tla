------------------------- MODULE ProcessLockProofs -------------------------
(* Theorems about module ProcessLock, for every set of workers, any interval *)
(* and any number of days and crashes.                                       *)
EXTENDS ProcessLock, TLAPS

Works(w) == step[w] \in {"working", "updated"}

HeldByWorker ==
  \A w \in Workers : /\ Works(w) => holder = w
                     /\ holder = w => Works(w) \/ step[w] = "none"

(***************************************************************************)
(* An action of w that leaves row and date alone keeps the invariant if w  *)
(* then works only with the lock and on a row that is due, holds the lock  *)
(* only to work or with an empty result, and touches nobody else's lock.   *)
(***************************************************************************)
LocalTo(w, to) ==
  /\ step' = [step EXCEPT ![w] = to] /\ to \in Steps
  /\ updated_at' = updated_at /\ today' = today
  /\ crashes' \in 0..MaxCrashes
  /\ holder' \in Workers \cup {Nobody}
  /\ to \in {"working", "updated"} => holder' = w
  /\ holder' = w => to \in {"working", "updated", "none"}
  /\ \A o \in Workers \ {w} : holder' = o <=> holder = o
  /\ to \in {"working", "updated"} => Due(w)'

LEMMA LocalStep ==
  ASSUME IInv, NEW w \in Workers, NEW to, LocalTo(w, to),
         date' \in [Workers -> 0..today],
         \A o \in Workers \ {w} : date'[o] = date[o]
  PROVE  IInv'
<1>1. /\ step' \in [Workers -> Steps] /\ step'[w] = to
      /\ \A o \in Workers \ {w} : step'[o] = step[o]
  BY DEF IInv, TypeOK, LocalTo
<1>2. TypeOK'
  BY <1>1 DEF IInv, TypeOK, LocalTo
<1>3. HeldByWorker'
  BY <1>1 DEF IInv, HeldByWorker, Works, LocalTo
<1>4. \A o \in Workers : Works(o)' => Due(o)'
  BY <1>1 DEF IInv, OneDueWorker, Works, Due, LocalTo
<1>5. \A o, p \in Workers : Works(o)' /\ Works(p)' => o = p
  BY <1>3 DEF HeldByWorker
<1> QED  BY <1>2, <1>3, <1>4, <1>5 DEF IInv, OneDueWorker, Works, HeldByWorker

LEMMA BeginInv ==
  ASSUME IInv, NEW w \in Workers, Begin(w)
  PROVE  IInv'
<1>1. step[w] = "idle" /\ holder # w
  BY DEF Begin, Go, IInv
<1>2. LocalTo(w, "begun")
  BY <1>1 DEF LocalTo, Begin, Go, Steps, IInv, TypeOK
<1>3. /\ date' \in [Workers -> 0..today]
      /\ \A o \in Workers \ {w} : date'[o] = date[o]
  BY DEF Begin, IInv, TypeOK
<1> QED  BY <1>2, <1>3, LocalStep

\* Find and Lock: the two moments at which the date of the row is looked at.
LEMMA FindInv ==
  ASSUME IInv, NEW w \in Workers, Find(w)
  PROVE  IInv'
<1>1. step[w] = "begun" /\ holder # w
  BY DEF Find, Go, IInv
<1>2. PICK to \in {"found", "none"} : step' = [step EXCEPT ![w] = to]
  BY Zenon DEF Find, Go
<1>3. LocalTo(w, to) /\ date' = date
  BY <1>1, <1>2 DEF LocalTo, Find, Steps, IInv, TypeOK
<1> QED  BY <1>3, LocalStep DEF IInv, TypeOK

LEMMA LockInv ==
  ASSUME IInv, NEW w \in Workers, Lock(w)
  PROVE  IInv'
<1>1. /\ step[w] = "found" /\ holder = Nobody
      /\ UNCHANGED <<today, updated_at, date, crashes>>
  BY DEF Lock, Go
<1>2. Due(w)' = Due(w)
  BY <1>1 DEF Due
<1>3. PICK to \in {"working", "none"} :
        step' = [step EXCEPT ![w] = to] /\ (to = "working" => Due(w))
  BY Zenon DEF Lock, Go
<1>4. holder' = w
  BY DEF Lock
<1>5. LocalTo(w, to)
  BY <1>1, <1>2, <1>3, <1>4, ProcessLockAssumption DEF LocalTo, Steps, IInv, TypeOK
<1> QED  BY <1>1, <1>5, LocalStep DEF IInv, TypeOK

LEMMA LeaveInv ==
  ASSUME IInv, NEW w \in Workers, Refuse(w) \/ GiveUp(w)
  PROVE  IInv'
<1>1. holder' \in {holder, Nobody} /\ holder' # w /\ (holder # w => holder' = holder)
  <2>1. CASE Refuse(w)
    BY <2>1 DEF Refuse, Go, IInv
  <2>2. CASE GiveUp(w)
    BY <2>2, ProcessLockAssumption DEF GiveUp, Release
  <2> QED  BY <2>1, <2>2
<1>2. LocalTo(w, "idle") /\ date' = date
  BY <1>1, ProcessLockAssumption
     DEF LocalTo, Refuse, GiveUp, Go, Steps, IInv, TypeOK
<1> QED  BY <1>2, LocalStep DEF IInv, TypeOK

LEMMA UpdateInv ==
  ASSUME IInv, NEW w \in Workers, Update(w)
  PROVE  IInv'
<1>1. step[w] = "working" /\ holder = w /\ Due(w)
  BY DEF Update, Go, IInv, OneDueWorker
<1>2. LocalTo(w, "updated") /\ date' = date
  BY <1>1 DEF LocalTo, Update, Go, Steps, IInv, TypeOK, Due
<1> QED  BY <1>2, LocalStep DEF IInv, TypeOK

LEMMA CrashInv ==
  ASSUME IInv, NEW w \in Workers, Crash(w)
  PROVE  IInv'
<1>1. /\ holder' \in {holder, Nobody} /\ holder' # w
      /\ holder # w => holder' = holder
  BY ProcessLockAssumption DEF Crash, Release
<1>2. crashes' \in 0..MaxCrashes
  BY ProcessLockAssumption DEF Crash, IInv, TypeOK
<1>3. LocalTo(w, "idle") /\ date' = date
  BY <1>1, <1>2, ProcessLockAssumption DEF LocalTo, Crash, Steps, IInv, TypeOK
<1> QED  BY <1>3, LocalStep DEF IInv, TypeOK

\* Who commits has the lock, so that nobody else works on the row it changes; it
\* saw the row N days or more before the date that it writes.
LEMMA CommitInv ==
  ASSUME IInv, NEW w \in Workers, Commit(w)
  PROVE  IInv' /\ updated_at' >= updated_at + Interval
<1>1. step[w] = "updated" /\ holder = w /\ Due(w)
  BY DEF Commit, Go, IInv, OneDueWorker
<1>2. /\ step' \in [Workers -> Steps] /\ step'[w] = "idle"
      /\ \A o \in Workers \ {w} : step'[o] = step[o]
  BY DEF Commit, Go, IInv, TypeOK, Steps
<1>3. \A o \in Workers : ~Works(o)'
  BY <1>1, <1>2 DEF Works, IInv
<1>4. TypeOK'
  BY <1>2 DEF Commit, IInv, TypeOK
<1>5. HeldByWorker'
  BY <1>3, ProcessLockAssumption DEF HeldByWorker, Commit
<1>6. IInv'
  BY <1>3, <1>4, <1>5 DEF IInv, OneDueWorker, Works, HeldByWorker
<1>7. date[w] \in Nat /\ updated_at \in Nat /\ Interval \in Nat
  BY ProcessLockAssumption DEF IInv, TypeOK
<1>8. updated_at' >= updated_at + Interval
  BY <1>1, <1>7 DEF Commit, Due
<1> QED  BY <1>6, <1>8

LEMMA MidnightInv ==
  ASSUME IInv, Midnight
  PROVE  IInv'
<1>1. today' \in Nat /\ \A n \in 0..today : n \in 0..today'
  BY DEF Midnight, IInv, TypeOK
<1>2. TypeOK'
  BY <1>1 DEF Midnight, IInv, TypeOK
<1> QED  BY <1>2 DEF Midnight, IInv, OneDueWorker, Due

LEMMA InitInv ==
  ASSUME Init
  PROVE  IInv
<1>1. TypeOK
  BY ProcessLockAssumption DEF Init, TypeOK, Steps
<1> QED  BY <1>1, ProcessLockAssumption DEF Init, IInv, OneDueWorker

LEMMA NextInv ==
  ASSUME IInv, [Next]_vars
  PROVE  IInv' /\ (updated_at' # updated_at => updated_at' >= updated_at + Interval)
<1>1. ASSUME NEW w \in Workers, Begin(w) \/ Find(w) \/ Lock(w)
      PROVE  IInv' /\ updated_at' = updated_at
  BY <1>1, BeginInv, FindInv, LockInv DEF Begin, Find, Lock
<1>2. ASSUME NEW w \in Workers, Refuse(w) \/ GiveUp(w)
      PROVE  IInv' /\ updated_at' = updated_at
  BY <1>2, LeaveInv DEF Refuse, GiveUp
<1>3. ASSUME NEW w \in Workers, Update(w) \/ Crash(w)
      PROVE  IInv' /\ updated_at' = updated_at
  BY <1>3, UpdateInv, CrashInv DEF Update, Crash
<1>4. ASSUME NEW w \in Workers, Commit(w)
      PROVE  IInv' /\ updated_at' >= updated_at + Interval
  BY <1>4, CommitInv
<1>5. CASE Midnight
  BY <1>5, MidnightInv DEF Midnight
<1>6. CASE UNCHANGED vars
  BY <1>6 DEF vars, IInv, TypeOK, OneDueWorker, Due
<1> QED  BY <1>1, <1>2, <1>3, <1>4, <1>5, <1>6 DEF Next, Call

\* The inductive invariant of the protocol that 2_Create_Lookup_DB.sql prescribes.
THEOREM Invariance == Spec => []IInv
<1>1. Init => IInv
  BY InitInv
<1>2. IInv /\ [Next]_vars => IInv'
  BY NextInv
<1> QED  BY <1>1, <1>2, PTL DEF Spec

\* Neither the row nor a transaction ever has a date in the future.
THEOREM TypeCorrect == Spec => []TypeOK
<1>1. IInv => TypeOK
  BY DEF IInv
<1> QED  BY <1>1, Invariance, PTL

\* However many workers the scheduler starts, one at most does the updates, and only
\* when N days have passed since the date in the row.
THEOREM OneWorker == Spec => []OneDueWorker
<1>1. IInv => OneDueWorker
  BY DEF IInv
<1> QED  BY <1>1, Invariance, PTL

\* Two dates that the row shows one after the other are N days apart at least.
THEOREM RunsAreSpaced == Spec => Spaced
<1>1. IInv /\ [Next]_vars
        => [updated_at' # updated_at => updated_at' >= updated_at + Interval]_vars
  BY NextInv
<1> QED  BY <1>1, Invariance, PTL DEF Spec, Spaced
=============================================================================
