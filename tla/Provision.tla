----------------------------- MODULE Provision -----------------------------
(***************************************************************************)
(* scripts/one-time-setup.js and scripts/create-services.sh: both create   *)
(* service instances and a key for each of them with the cf command.       *)
(*                                                                         *)
(* One-time runs handle one service: check that there is none of its name, *)
(* create it, create its key under the name they were given for it, and    *)
(* stop at the first answer they do not like.  Without a name for the key  *)
(* they call it undefined; without a name for the service they do nothing. *)
(* Shell runs create every service and look at no answer; the keys that    *)
(* they create are named by the kind of the service                        *)
(* (compose-for-postgresql) and not by the service (icon-postgresql).      *)
(* Pipelines and people start them at any time, more than one at once;     *)
(* commands fail, also after they have had their effect, and runs are      *)
(* killed. The platform takes minutes to create a service, and until then  *)
(* it refuses a key.                                                       *)
(***************************************************************************)
EXTENDS Naturals, Sequences

CONSTANTS
  OneTime,    \* runs of one-time-setup.js
  Shell,      \* runs of create-services.sh
  Services,   \* the sequence of names create-services.sh creates services under
  Kinds,      \* the sequence of their kinds, which its key commands name
  Credentials, \* the names that one-time runs are given for keys
  MaxStarts,  \* bound: runs started
  MaxFaults   \* bound: commands that fail and runs that are killed

Ours == {Services[i] : i \in DOMAIN Services}
Names == Ours \cup {Kinds[i] : i \in DOMAIN Kinds}
Given == Credentials \cup {"undefined"}
KeyNames == Given \cup {"Credentials-1"}

ASSUME ProvisionAssumption ==
  /\ Services \in Seq(Ours) /\ Services # <<>>
  /\ Kinds \in Seq(Names \ Ours) /\ Len(Kinds) = Len(Services)
  /\ OneTime \cap Shell = {}
  /\ MaxStarts \in Nat /\ MaxFaults \in Nat

VARIABLES
  service, \* per name: "absent", "creating" or "ready"
  keys,    \* the service keys: <<name of the service, name of the key>>
  step,    \* per one-time run: see Steps
  name,    \* per one-time run: the service's name, its second argument
  credential, \* per one-time run: the key's name, its third argument
  at,      \* per shell run: its next command, 0 when it does not run
  clean,   \* ghost, per shell run: no failure has hit it
  starts, faults  \* used up of MaxStarts and MaxFaults

platform == <<service, keys>>
onetime == <<step, name, credential>>
vars == <<platform, onetime, at, clean, starts, faults>>

Steps == {"idle",           \* never started, or killed
          "check", "create", "key",
          "exit0", "exit1",
          "usage"}          \* exit 1 for want of arguments

\* The commands of create-services.sh; its keys are all called Credentials-1.
Commands == [i \in 1..2 * Len(Services) |->
               LET k == (i + 1) \div 2
               IN  IF i % 2 = 1 THEN [cmd |-> "create", name |-> Services[k]]
                                ELSE [cmd |-> "key", name |-> Kinds[k]]]
-----------------------------------------------------------------------------
(* The cf command: its effect, and what its exit status may be.            *)

Exists(n) == service[n] # "absent"

\* cf create-service.  Of a name that is taken it says OK or fails, which depends on
\* the plan of the other service.
CreateService(n, ok) ==
  /\ Exists(n) \/ ok
  /\ service' = IF Exists(n) THEN service ELSE [service EXCEPT ![n] = "creating"]
  /\ UNCHANGED keys

\* cf create-service-key: fails as long as the service is not there.
CreateKey(n, k, ok) ==
  /\ ok => service[n] = "ready"
  /\ ok \/ service[n] # "ready" \/ <<n, k>> \in keys
  /\ keys' = IF ok THEN keys \cup {<<n, k>>} ELSE keys
  /\ UNCHANGED service

Effect(cmd, n, k, ok) == \/ cmd = "create" /\ CreateService(n, ok)
                         \/ cmd = "key" /\ CreateKey(n, k, ok)

\* A command that fails for a reason of its own: without effect, or after it.
Breaks(cmd, n, k) ==
  /\ faults < MaxFaults /\ faults' = faults + 1
  /\ UNCHANGED platform \/ Effect(cmd, n, k, TRUE)
-----------------------------------------------------------------------------
(* one-time-setup.js                                                       *)

Go(p, from, to) == step[p] = from /\ step' = [step EXCEPT ![p] = to]
Still == UNCHANGED <<name, credential, at, clean, starts>>

Start(p, to) ==
  /\ step[p] \in Steps \ {"check", "create", "key"} /\ step' = [step EXCEPT ![p] = to]
  /\ starts < MaxStarts /\ starts' = starts + 1
  /\ UNCHANGED <<platform, at, clean, faults>>

StartOneTime(p, n, k) ==
  /\ Start(p, "check")
  /\ name' = [name EXCEPT ![p] = n] /\ credential' = [credential EXCEPT ![p] = k]

\* Only the first two arguments are looked for.
Usage(p) == Start(p, "usage") /\ UNCHANGED <<name, credential>>

\* cf service NAME --guid | wc -l: one line, the guid, means that it exists.  A cf that
\* fails prints no guid, and its run goes on as if there were no service; the run ends
\* when the pipeline as a whole fails.
Check(p) ==
  \/ /\ Go(p, "check", IF Exists(name[p]) THEN "exit1" ELSE "create")
     /\ UNCHANGED <<platform, faults>> /\ Still
  \/ /\ \E to \in {"create", "exit1"} : Go(p, "check", to)
     /\ Breaks("check", name[p], credential[p]) /\ UNCHANGED platform /\ Still

Create(p) ==
  \/ \E ok \in BOOLEAN :
       /\ Go(p, "create", IF ok THEN "key" ELSE "exit1")
       /\ CreateService(name[p], ok) /\ UNCHANGED faults /\ Still
  \/ /\ Go(p, "create", "exit1")
     /\ Breaks("create", name[p], credential[p]) /\ Still

Key_unchecked(p) ==  \* mutant: the error of the command is not looked at
  \/ \E ok \in BOOLEAN :
       /\ Go(p, "key", "exit0")
       /\ CreateKey(name[p], credential[p], ok) /\ UNCHANGED faults /\ Still
  \/ /\ Go(p, "key", "exit0")
     /\ Breaks("key", name[p], credential[p]) /\ Still

Key(p) ==
  \/ \E ok \in BOOLEAN :
       /\ Go(p, "key", IF ok THEN "exit0" ELSE "exit1")
       /\ CreateKey(name[p], credential[p], ok) /\ UNCHANGED faults /\ Still
  \/ /\ Go(p, "key", "exit1")
     /\ Breaks("key", name[p], credential[p]) /\ Still

KillOneTime(p) ==
  /\ step[p] \in {"check", "create", "key"} /\ step' = [step EXCEPT ![p] = "idle"]
  /\ faults < MaxFaults /\ faults' = faults + 1
  /\ UNCHANGED platform /\ Still
-----------------------------------------------------------------------------
(* create-services.sh                                                      *)

Done == Len(Commands) + 1

StartShell(q) ==
  /\ at[q] \in {0, Done} /\ at' = [at EXCEPT ![q] = 1]
  /\ clean' = [clean EXCEPT ![q] = TRUE]
  /\ starts < MaxStarts /\ starts' = starts + 1
  /\ UNCHANGED <<platform, onetime, faults>>

Command_errexit(q) ==  \* mutant: the script stops at an error, as under set -e
  /\ at[q] \in DOMAIN Commands
  /\ UNCHANGED <<onetime, starts>>
  /\ LET c == Commands[at[q]]
     IN  \/ \E ok \in BOOLEAN :
              /\ Effect(c.cmd, c.name, "Credentials-1", ok)
              /\ UNCHANGED <<clean, faults>>
              /\ at' = [at EXCEPT ![q] = IF ok THEN @ + 1 ELSE Done]
         \/ /\ Breaks(c.cmd, c.name, "Credentials-1")
            /\ clean' = [clean EXCEPT ![q] = FALSE] /\ at' = [at EXCEPT ![q] = Done]

Command(q) ==
  /\ at[q] \in DOMAIN Commands /\ at' = [at EXCEPT ![q] = @ + 1]
  /\ LET c == Commands[at[q]]
     IN  \/ /\ \E ok \in BOOLEAN : Effect(c.cmd, c.name, "Credentials-1", ok)
            /\ UNCHANGED <<clean, faults>>
         \/ /\ Breaks(c.cmd, c.name, "Credentials-1")
            /\ clean' = [clean EXCEPT ![q] = FALSE]
  /\ UNCHANGED <<onetime, starts>>

KillShell(q) ==
  /\ at[q] \in DOMAIN Commands /\ at' = [at EXCEPT ![q] = 0]
  /\ faults < MaxFaults /\ faults' = faults + 1
  /\ clean' = [clean EXCEPT ![q] = FALSE]
  /\ UNCHANGED <<platform, onetime, starts>>
-----------------------------------------------------------------------------
\* The platform has created the service.
Ready(n) ==
  /\ service[n] = "creating" /\ service' = [service EXCEPT ![n] = "ready"]
  /\ UNCHANGED <<keys, onetime, at, clean, starts, faults>>

Init ==
  /\ service = [n \in Names |-> "absent"] /\ keys = {}
  /\ step = [p \in OneTime |-> "idle"] /\ name \in [OneTime -> {Services[1]}]
  /\ credential = [p \in OneTime |-> "undefined"]
  /\ at = [q \in Shell |-> 0]
  /\ clean = [q \in Shell |-> FALSE]
  /\ starts = 0 /\ faults = 0

Next ==
  \/ \E p \in OneTime : \/ \E n \in Names, k \in Given : StartOneTime(p, n, k)
                        \/ Usage(p) \/ Check(p) \/ Create(p) \/ Key(p) \/ KillOneTime(p)
  \/ \E q \in Shell : StartShell(q) \/ Command(q) \/ KillShell(q)
  \/ \E n \in Names : Ready(n)

Spec == Init /\ [][Next]_vars
-----------------------------------------------------------------------------
TypeOK ==
  /\ service \in [Names -> {"absent", "creating", "ready"}]
  /\ keys \subseteq Names \X KeyNames
  /\ step \in [OneTime -> Steps] /\ name \in [OneTime -> Names]
  /\ credential \in [OneTime -> Given]
  /\ at \in [Shell -> 0..Done]
  /\ clean \in [Shell -> BOOLEAN]
  /\ starts \in 0..MaxStarts /\ faults \in 0..MaxFaults

\* A pipeline stage that has passed can rely on it: when one-time-setup.js exits with
\* status 0, the service is there and has a key of the name that the run was given,
\* whatever else runs or has failed.  Given none, the run makes the key "undefined".
ExitZeroMeansKey ==
  \A p \in OneTime : step[p] = "exit0" =>
    service[name[p]] = "ready" /\ <<name[p], credential[p]>> \in keys

\* create-services.sh goes on after refusals: undisturbed, it leaves no service out,
\* whichever of them existed and whoever else was creating them.
ShellCreatesAll ==
  \A q \in Shell : at[q] = Done /\ clean[q] => \A n \in Ours : Exists(n)

Quiet == /\ \A p \in OneTime : step[p] \notin {"check", "create", "key"}
         /\ \A q \in Shell : at[q] \notin DOMAIN Commands

\* "Creates the 3 compose services .. along with their service keys", and "create the
\* service key with the name specified".  When create-services.sh has run, and
\* one-time-setup.js for a service, and nothing has failed, that service has a key.
\* Fails: the first names the service's kind in its key command, and the second stops
\* at a service that it finds there, whether or not it has a key.
KeysCreated ==
  Quiet /\ faults = 0 => \A n \in Ours :
    /\ service[n] = "ready"
    /\ \E q \in Shell : at[q] = Done
    /\ \E p \in OneTime : name[p] = n /\ step[p] \in {"exit0", "exit1"}
    => \E k \in KeyNames : <<n, k>> \in keys
-----------------------------------------------------------------------------
(* The inductive invariant behind ShellCreatesAll: a run that nothing has hit leaves *)
(* a service behind at each create command it has passed.                            *)

CreatedBehind ==
  \A q \in Shell : clean[q] =>
    \A i \in DOMAIN Commands :
      i < at[q] /\ Commands[i].cmd = "create" => Exists(Commands[i].name)

IInv == TypeOK /\ ExitZeroMeansKey /\ CreatedBehind
=============================================================================
