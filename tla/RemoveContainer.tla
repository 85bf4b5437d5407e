-------------------------- MODULE RemoveContainer --------------------------
(***************************************************************************)
(* scripts/rm_psql.sh: polls the state of the container that runs          *)
(* exec_psql.sh, removes it when it is shut down, and gives up when its    *)
(* counter passes TIMEOUT or the container is in no state it expects.  The *)
(* container lives its own life meanwhile.  Time is counted in INTERVALs,  *)
(* like the script's counter NOW; the `sleep INTERVAL` between two polls   *)
(* is an error that takes no time, and a poll takes as long as it takes.   *)
(***************************************************************************)
EXTENDS Naturals

CONSTANTS
  Timeout,     \* TIMEOUT / INTERVAL: 4320 in the script
  MaxClock,    \* bound: intervals that pass
  MaxRestarts, \* bound: times somebody starts the container again
  MaxFaults    \* bound: polls that fail, removals that fail

VARIABLES
  container, \* its state on the platform, see States
  step,      \* of the script: "inspect", "decide", "remove" or "end"
  seen,      \* CONTAINER_STATUS: the state at the last poll
  now,       \* NOW / INTERVAL
  result,    \* "none", "exit0", "exit1" (gave up), "lost" (cannot find it: exit 1)
  clock, restarts, faults

vars == <<container, step, seen, now, result, clock, restarts, faults>>

States == {"Building", "Running", "Shutdown", "Crashed", "gone"}
Known == {"Shutdown", "Running", "Building"}
-----------------------------------------------------------------------------
Go(from, to) == step = from /\ step' = to

\* while [ $NOW -le $TIMEOUT ]: cf ic inspect
Inspect ==
  /\ now <= Timeout /\ Go("inspect", "decide")
  /\ seen' = container
  /\ UNCHANGED <<container, now, result, clock, restarts, faults>>

InspectFails ==
  /\ now <= Timeout /\ Go("inspect", "decide")
  /\ seen' = "gone"
  /\ faults < MaxFaults /\ faults' = faults + 1
  /\ UNCHANGED <<container, now, result, clock, restarts>>

GiveUp ==
  /\ now > Timeout /\ Go("inspect", "end")
  /\ result' = "exit1"
  /\ UNCHANGED <<container, seen, now, clock, restarts, faults>>

Lost_ignored ==  \* mutant: an unexpected state is polled again
  /\ seen \notin Known /\ Go("decide", "inspect")
  /\ UNCHANGED <<container, seen, now, result, clock, restarts, faults>>

\* "Cant find container, exit"
Lost ==
  /\ seen \notin Known /\ Go("decide", "end")
  /\ result' = "lost"
  /\ UNCHANGED <<container, seen, now, clock, restarts, faults>>

Found ==
  /\ seen = "Shutdown" /\ Go("decide", "remove")
  /\ UNCHANGED <<container, seen, now, result, clock, restarts, faults>>

Again_also_shutdown ==  \* mutant: any expected state is polled again
  /\ seen \in Known /\ Go("decide", "inspect")
  /\ now' = now + 1
  /\ UNCHANGED <<container, seen, result, clock, restarts, faults>>

\* NOW=$(($NOW + $INTERVAL)); sleep INTERVAL
Again ==
  /\ seen \in Known \ {"Shutdown"} /\ Go("decide", "inspect")
  /\ now' = now + 1
  /\ UNCHANGED <<container, seen, result, clock, restarts, faults>>

\* cf ic rm, which refuses a container that runs; exit 0 either way.
Remove ==
  /\ Go("remove", "end")
  /\ result' = "exit0"
  /\ \/ container' = (IF container \in {"Shutdown", "Crashed"} THEN "gone" ELSE container)
        /\ UNCHANGED faults
     \/ faults < MaxFaults /\ faults' = faults + 1 /\ UNCHANGED container
  /\ UNCHANGED <<seen, now, clock, restarts>>

Script == Inspect \/ GiveUp \/ Lost \/ Found \/ Again \/ Remove
-----------------------------------------------------------------------------
Lives ==
  /\ \/ container = "Building" /\ container' \in {"Running", "Crashed"} /\ UNCHANGED restarts
     \/ container = "Running" /\ container' \in {"Shutdown", "Crashed"} /\ UNCHANGED restarts
     \/ /\ container \in {"Shutdown", "Crashed"} /\ container' = "Running"
        /\ restarts < MaxRestarts /\ restarts' = restarts + 1
  /\ UNCHANGED <<step, seen, now, result, clock, faults>>

Tick ==
  /\ step # "end" /\ clock < MaxClock /\ clock' = clock + 1
  /\ UNCHANGED <<container, step, seen, now, result, restarts, faults>>

Init ==
  /\ container \in {"Building", "Running"}
  /\ step = "inspect" /\ seen = "none" /\ now = 0 /\ result = "none"
  /\ clock = 0 /\ restarts = 0 /\ faults = 0

Next == Script \/ InspectFails \/ Lives \/ Tick

Spec == Init /\ [][Next]_vars

\* The shell executes the script.
FairSpec == Spec /\ WF_vars(Script)
-----------------------------------------------------------------------------
TypeOK ==
  /\ container \in States /\ seen \in States \cup {"none"}
  /\ step \in {"inspect", "decide", "remove", "end"}
  /\ now \in 0..Timeout + 1
  /\ result \in {"none", "exit0", "exit1", "lost"}
  /\ clock \in 0..MaxClock /\ restarts \in 0..MaxRestarts /\ faults \in 0..MaxFaults

\* The script ends, even if the container runs for ever and time stands still.
ScriptEnds == <>(step = "end")

\* A container that shuts down for good while there are polls left does not stay
\* behind, unless a command failed.
ShutdownRemoved ==
  (container = "Shutdown" /\ step = "inspect" /\ now <= Timeout)
    ~> (container # "Shutdown" \/ faults > 0)
=============================================================================
