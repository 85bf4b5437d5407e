-------------------------- MODULE ProvisionProofs --------------------------
(* Theorems about module Provision, for every list of services, any runs and *)
(* any number of starts and failures.                                        *)
EXTENDS Provision, TLAPS

-----------------------------------------------------------------------------
(* The commands.                                                           *)

\* create-services.sh has two commands for each service.
LEMMA CommandsShape ==
  /\ DOMAIN Commands = 1..2 * Len(Services) /\ Len(Commands) = 2 * Len(Services)
  /\ Len(Services) \in Nat /\ Done \in Nat /\ Done = 2 * Len(Services) + 1
<1>1. Len(Services) \in Nat
  BY ProvisionAssumption
<1>2. DOMAIN Commands = 1..2 * Len(Services)
  BY DEF Commands
<1>3. Len(Commands) = 2 * Len(Services)
  BY <1>1, <1>2
<1> QED  BY <1>1, <1>2, <1>3 DEF Done

LEMMA CommandName ==
  ASSUME NEW i \in DOMAIN Commands
  PROVE  /\ Commands[i].name \in Names
         /\ Commands[i].cmd \in {"create", "key"}
         /\ Commands[i].cmd = "key" => Commands[i].name \notin Ours
<1> DEFINE k == (i + 1) \div 2
<1>1. i \in 1..2 * Len(Services) /\ Len(Services) \in Nat
  BY CommandsShape
<1>2. k \in 1..Len(Services)
  BY <1>1
<1>3. /\ Services[k] \in Ours /\ Services[k] \in Names
      /\ Kinds[k] \in Names /\ Kinds[k] \notin Ours
  BY <1>2, ProvisionAssumption DEF Names, Ours
<1>4. Commands[i] = IF i % 2 = 1 THEN [cmd |-> "create", name |-> Services[k]]
                                 ELSE [cmd |-> "key", name |-> Kinds[k]]
  BY <1>1 DEF Commands
<1> HIDE DEF k
<1>5. \/ Commands[i] = [cmd |-> "create", name |-> Services[k]]
      \/ Commands[i] = [cmd |-> "key", name |-> Kinds[k]]
  BY <1>4, Zenon
<1> QED  BY <1>3, <1>5

\* Each service has its create command.
LEMMA CreateCommand ==
  ASSUME NEW n \in Ours
  PROVE  \E i \in DOMAIN Commands : Commands[i].cmd = "create" /\ Commands[i].name = n
<1>1. PICK j \in 1..Len(Services) : Services[j] = n
  BY ProvisionAssumption DEF Ours
<1>2. /\ 2 * j - 1 \in 1..2 * Len(Services)
      /\ (2 * j - 1) % 2 = 1 /\ ((2 * j - 1) + 1) \div 2 = j
  BY <1>1, CommandsShape
<1>3. Commands[2 * j - 1] = [cmd |-> "create", name |-> n]
  BY <1>1, <1>2 DEF Commands
<1> QED  BY <1>2, <1>3, CommandsShape
-----------------------------------------------------------------------------
(* Commands only add to the platform.                                      *)

Services_ == [Names -> {"absent", "creating", "ready"}]
PlatformOK == service \in Services_ /\ keys \subseteq Names \X KeyNames

Adds == /\ PlatformOK'
        /\ \A n \in Names : service[n] = "ready" => service'[n] = "ready"
        /\ \A n \in Names : Exists(n) => Exists(n)'
        /\ keys \subseteq keys'

LEMMA CreateAdds ==
  ASSUME PlatformOK, NEW n \in Names, NEW k \in KeyNames, NEW ok \in BOOLEAN,
         CreateService(n, ok) \/ CreateKey(n, k, ok)
  PROVE  Adds
BY DEF PlatformOK, Adds, CreateService, CreateKey, Exists, Services_

LEMMA EffectAdds ==
  ASSUME PlatformOK, NEW cmd, NEW n \in Names, NEW k \in KeyNames, NEW ok \in BOOLEAN,
         Effect(cmd, n, k, ok)
  PROVE  Adds
BY CreateAdds DEF Effect

LEMMA StayAdds ==
  ASSUME PlatformOK, UNCHANGED platform
  PROVE  Adds
BY DEF PlatformOK, Adds, platform, Exists

LEMMA BreaksAdds ==
  ASSUME PlatformOK, NEW cmd, NEW n \in Names, NEW k \in KeyNames, Breaks(cmd, n, k)
  PROVE  Adds
<1>1. CASE UNCHANGED platform
  BY <1>1, StayAdds
<1>2. CASE Effect(cmd, n, k, TRUE)
  BY <1>2, EffectAdds
<1> QED  BY <1>1, <1>2 DEF Breaks

\* After a create command, whatever it answers, there is such a service.
LEMMA CreateLeavesService ==
  ASSUME PlatformOK, NEW n \in Names, NEW ok \in BOOLEAN, CreateService(n, ok)
  PROVE  Exists(n)'
BY DEF PlatformOK, CreateService, Exists, Services_
-----------------------------------------------------------------------------
(* Steps, by what they leave alone.                                        *)

CountersOK == starts' \in 0..MaxStarts /\ faults' \in 0..MaxFaults

\* A step of a one-time run p: to state `to`, which is exit0 only with the key made.
OneTimeStep(p, to) ==
  /\ Adds /\ CountersOK
  /\ step' = [step EXCEPT ![p] = to] /\ to \in Steps
  /\ name' \in [OneTime -> Names] /\ credential' \in [OneTime -> Given]
  /\ \A o \in OneTime \ {p} : name'[o] = name[o] /\ credential'[o] = credential[o]
  /\ to = "exit0" => /\ service'[name'[p]] = "ready"
                     /\ <<name'[p], credential'[p]>> \in keys'
  /\ UNCHANGED <<at, clean>>

LEMMA OneTimeKeepsIInv ==
  ASSUME IInv, NEW p \in OneTime, NEW to, OneTimeStep(p, to)
  PROVE  IInv'
<1>1. /\ step' \in [OneTime -> Steps] /\ step'[p] = to
      /\ \A o \in OneTime \ {p} : step'[o] = step[o]
  BY DEF OneTimeStep, IInv, TypeOK
<1>2. TypeOK'
  BY <1>1 DEF OneTimeStep, IInv, TypeOK, Adds, PlatformOK, Services_, CountersOK
<1>3. ExitZeroMeansKey'
  BY <1>1 DEF OneTimeStep, IInv, TypeOK, ExitZeroMeansKey, Adds
<1>4. CreatedBehind'
  BY CommandName DEF OneTimeStep, IInv, CreatedBehind, Adds
<1> QED  BY <1>2, <1>3, <1>4 DEF IInv

\* A step of a shell run q.
ShellStep(q) ==
  /\ Adds /\ CountersOK
  /\ UNCHANGED onetime
  /\ at' \in [Shell -> 0..Done]
  /\ clean' \in [Shell -> BOOLEAN]
  /\ \A o \in Shell \ {q} : at'[o] = at[o] /\ clean'[o] = clean[o]
  /\ clean'[q] =>
       \A i \in DOMAIN Commands :
         i < at'[q] /\ Commands[i].cmd = "create" => Exists(Commands[i].name)'

LEMMA ShellKeepsIInv ==
  ASSUME IInv, NEW q \in Shell, ShellStep(q)
  PROVE  IInv'
<1>1. TypeOK'
  BY DEF ShellStep, IInv, TypeOK, Adds, PlatformOK, Services_, CountersOK, onetime
<1>2. ExitZeroMeansKey'
  BY DEF ShellStep, IInv, TypeOK, ExitZeroMeansKey, Adds, onetime
<1>3. CreatedBehind'
  BY CommandName DEF ShellStep, IInv, CreatedBehind, Adds
<1> QED  BY <1>1, <1>2, <1>3 DEF IInv
-----------------------------------------------------------------------------
(* The actions.                                                            *)

LEMMA StartOneTimeInv ==
  ASSUME IInv, NEW p \in OneTime,
         Usage(p) \/ \E n \in Names, k \in Given : StartOneTime(p, n, k)
  PROVE  IInv'
<1>0. PICK to \in {"check", "usage"} : Start(p, to)
  BY DEF Usage, StartOneTime
<1>1. Adds
  BY <1>0, StayAdds DEF Start, IInv, TypeOK, PlatformOK, Services_
<1>2. CountersOK
  BY <1>0, ProvisionAssumption DEF Start, IInv, TypeOK, CountersOK
<1>3. /\ name' \in [OneTime -> Names] /\ credential' \in [OneTime -> Given]
      /\ \A o \in OneTime \ {p} : name'[o] = name[o] /\ credential'[o] = credential[o]
  BY DEF Usage, StartOneTime, IInv, TypeOK
<1>4. OneTimeStep(p, to)
  BY <1>0, <1>1, <1>2, <1>3 DEF Start, OneTimeStep, Steps
<1> QED  BY <1>0, <1>4, OneTimeKeepsIInv DEF Steps

\* Check, Create, Key and a kill: the run goes on or ends, and changes nothing else of
\* itself.
LEMMA CommandEnds ==
  ASSUME IInv, NEW p \in OneTime, NEW to \in Steps, Still, Adds,
         \/ UNCHANGED faults
         \/ faults < MaxFaults /\ faults' = faults + 1,
         step' = [step EXCEPT ![p] = to],
         to = "exit0" => service'[name[p]] = "ready" /\ <<name[p], credential[p]>> \in keys'
  PROVE  IInv'
<1>1. CountersOK
  BY ProvisionAssumption DEF Still, IInv, TypeOK, CountersOK
<1>2. OneTimeStep(p, to)
  BY <1>1 DEF OneTimeStep, Still, IInv, TypeOK
<1> QED  BY <1>2, OneTimeKeepsIInv

LEMMA CheckInv ==
  ASSUME IInv, NEW p \in OneTime, Check(p)
  PROVE  IInv'
<1>1. PICK to \in {"exit1", "create"} : step' = [step EXCEPT ![p] = to]
  BY Zenon DEF Check, Go
<1>2. /\ Still /\ UNCHANGED platform
      /\ UNCHANGED faults \/ (faults < MaxFaults /\ faults' = faults + 1)
  BY Zenon DEF Check, Breaks
<1>3. Adds
  BY <1>2, StayAdds DEF IInv, TypeOK, PlatformOK, Services_
<1> QED  BY <1>1, <1>2, <1>3, CommandEnds DEF Steps

LEMMA Arguments ==
  ASSUME IInv, NEW p \in OneTime
  PROVE  PlatformOK /\ name[p] \in Names /\ credential[p] \in KeyNames
BY DEF IInv, TypeOK, PlatformOK, Services_, KeyNames

LEMMA CreateInv ==
  ASSUME IInv, NEW p \in OneTime, Create(p)
  PROVE  IInv'
<1>1. PICK to \in {"key", "exit1"} : step' = [step EXCEPT ![p] = to]
  BY Zenon DEF Create, Go
<1>2. /\ Still
      /\ UNCHANGED faults \/ (faults < MaxFaults /\ faults' = faults + 1)
  BY Zenon DEF Create, Breaks
<1>3. \/ \E ok \in BOOLEAN : CreateService(name[p], ok)
      \/ Breaks("create", name[p], credential[p])
  BY Zenon DEF Create
<1>4. Adds
  BY <1>3, Arguments, CreateAdds, BreaksAdds
<1> QED  BY <1>1, <1>2, <1>4, CommandEnds DEF Steps

LEMMA KeyInv ==
  ASSUME IInv, NEW p \in OneTime, Key(p)
  PROVE  IInv'
<1>1. ASSUME NEW ok \in BOOLEAN,
             Go(p, "key", IF ok THEN "exit0" ELSE "exit1"),
             CreateKey(name[p], credential[p], ok), UNCHANGED faults, Still
      PROVE  IInv'
  <2>1. PICK to \in {"exit0", "exit1"} :
          step' = [step EXCEPT ![p] = to] /\ (to = "exit0" => ok)
    BY <1>1, Zenon DEF Go
  <2>2. ok => service'[name[p]] = "ready" /\ <<name[p], credential[p]>> \in keys'
    BY <1>1 DEF CreateKey
  <2>3. Adds
    BY <1>1, Arguments, CreateAdds
  <2> QED  BY <1>1, <2>1, <2>2, <2>3, CommandEnds DEF Steps
<1>2. CASE Go(p, "key", "exit1") /\ Breaks("key", name[p], credential[p]) /\ Still
  <2>1. Adds
    BY <1>2, Arguments, BreaksAdds
  <2> QED  BY <1>2, <2>1, CommandEnds DEF Breaks, Go, Steps
<1> QED  BY <1>1, <1>2, Zenon DEF Key

LEMMA KillOneTimeInv ==
  ASSUME IInv, NEW p \in OneTime, KillOneTime(p)
  PROVE  IInv'
<1>1. Adds
  BY StayAdds DEF KillOneTime, IInv, TypeOK, PlatformOK, Services_
<1> QED  BY <1>1, CommandEnds DEF KillOneTime, Steps

LEMMA StartShellInv ==
  ASSUME IInv, NEW q \in Shell, StartShell(q)
  PROVE  IInv'
<1>1. Adds
  BY StayAdds DEF StartShell, IInv, TypeOK, PlatformOK, Services_
<1>2. CountersOK
  BY ProvisionAssumption DEF StartShell, IInv, TypeOK, CountersOK
<1>3. at' \in [Shell -> 0..Done] /\ at'[q] = 1
  BY CommandsShape DEF StartShell, IInv, TypeOK
<1>4. UNCHANGED <<service, onetime>>
  BY DEF StartShell, platform
<1>5. ShellStep(q)
  BY <1>1, <1>2, <1>3, <1>4, CommandsShape DEF StartShell, ShellStep, IInv, TypeOK
<1> QED  BY <1>5, ShellKeepsIInv

\* The services that the shell run has passed exist, and so does the one whose command
\* answers now, unless the run is hit.
LEMMA CommandInv ==
  ASSUME IInv, NEW q \in Shell, Command(q)
  PROVE  IInv'
<1> DEFINE c == Commands[at[q]]
<1>1. /\ at[q] \in DOMAIN Commands /\ c.name \in Names
      /\ at' = [at EXCEPT ![q] = @ + 1]
      /\ UNCHANGED <<onetime, starts>>
  BY CommandName DEF Command
<1>2. PlatformOK /\ "Credentials-1" \in KeyNames
  BY DEF IInv, TypeOK, PlatformOK, Services_, KeyNames
<1>3. at' \in [Shell -> 0..Done] /\ at'[q] = at[q] + 1
  BY <1>1, CommandsShape DEF IInv, TypeOK
<1>4. \A i \in DOMAIN Commands : i < at'[q] => i < at[q] \/ i = at[q]
  BY <1>1, <1>3, CommandsShape
<1>5. ASSUME NEW ok \in BOOLEAN, Effect(c.cmd, c.name, "Credentials-1", ok), UNCHANGED <<clean, faults>>
      PROVE  IInv'
  <2>1. Adds
    BY <1>1, <1>2, <1>5, EffectAdds
  <2>2. CountersOK
    BY <1>1, <1>5 DEF IInv, TypeOK, CountersOK
  <2>3. c.cmd = "create" => service'[c.name] # "absent"
    BY <1>1, <1>2, <1>5, CreateLeavesService DEF Effect, Exists
  <2>4. clean[q] =>
          \A i \in DOMAIN Commands :
            i < at'[q] /\ Commands[i].cmd = "create" => Exists(Commands[i].name)'
    BY <1>4, <2>1, <2>3, CommandName DEF Adds, IInv, CreatedBehind, Exists
  <2>5. ShellStep(q)
    BY <1>1, <1>3, <1>5, <2>1, <2>2, <2>4 DEF ShellStep, IInv, TypeOK
  <2> QED  BY <2>5, ShellKeepsIInv
<1>6. CASE /\ Breaks(c.cmd, c.name, "Credentials-1")
           /\ clean' = [clean EXCEPT ![q] = FALSE]
  <2>1. Adds
    BY <1>1, <1>2, <1>6, BreaksAdds
  <2>2. CountersOK
    BY <1>1, <1>6, ProvisionAssumption DEF Breaks, IInv, TypeOK, CountersOK
  <2>3. /\ clean' \in [Shell -> BOOLEAN] /\ ~clean'[q]
        /\ \A o \in Shell \ {q} : clean'[o] = clean[o]
    BY <1>6 DEF IInv, TypeOK
  <2>4. ShellStep(q)
    BY <1>1, <1>3, <2>1, <2>2, <2>3 DEF ShellStep, IInv, TypeOK
  <2> QED  BY <2>4, ShellKeepsIInv
<1> QED  BY <1>5, <1>6, Zenon DEF Command

LEMMA KillShellInv ==
  ASSUME IInv, NEW q \in Shell, KillShell(q)
  PROVE  IInv'
<1>1. Adds
  BY StayAdds DEF KillShell, IInv, TypeOK, PlatformOK, Services_
<1>2. CountersOK
  BY ProvisionAssumption DEF KillShell, IInv, TypeOK, CountersOK
<1>3. /\ clean' \in [Shell -> BOOLEAN] /\ ~clean'[q]
      /\ \A o \in Shell \ {q} : clean'[o] = clean[o]
  BY DEF KillShell, IInv, TypeOK
<1>4. at' \in [Shell -> 0..Done]
  BY CommandsShape DEF KillShell, IInv, TypeOK
<1>5. ShellStep(q)
  BY <1>1, <1>2, <1>3, <1>4 DEF KillShell, ShellStep, IInv, TypeOK, platform
<1> QED  BY <1>5, ShellKeepsIInv

LEMMA ReadyInv ==
  ASSUME IInv, NEW n \in Names, Ready(n)
  PROVE  IInv'
<1>1. Adds
  BY DEF Ready, IInv, TypeOK, Adds, PlatformOK, Services_, Exists
<1>2. UNCHANGED <<keys, onetime, at, clean, starts, faults>>
  BY DEF Ready
<1>3. TypeOK'
  BY <1>1, <1>2 DEF IInv, TypeOK, Adds, PlatformOK, Services_, onetime
<1>4. ExitZeroMeansKey'
  BY <1>1, <1>2 DEF IInv, TypeOK, ExitZeroMeansKey, Adds, onetime
<1>5. CreatedBehind'
  BY <1>1, <1>2, CommandName DEF IInv, CreatedBehind, Adds
<1> QED  BY <1>3, <1>4, <1>5 DEF IInv
-----------------------------------------------------------------------------
LEMMA InitIInv == Init => IInv
<1> SUFFICES ASSUME Init PROVE IInv
  OBVIOUS
<1>1. Services[1] \in Names
  BY ProvisionAssumption DEF Names, Ours
<1>2. TypeOK
  BY <1>1, CommandsShape, ProvisionAssumption DEF Init, TypeOK, Steps, Given
<1>3. ExitZeroMeansKey /\ CreatedBehind
  BY DEF Init, ExitZeroMeansKey, CreatedBehind
<1> QED  BY <1>2, <1>3 DEF IInv

LEMMA NextIInv == IInv /\ [Next]_vars => IInv'
<1> SUFFICES ASSUME IInv, [Next]_vars PROVE IInv'
  OBVIOUS
<1>1. CASE UNCHANGED vars
  <2>1. TypeOK'
    BY <1>1 DEF vars, platform, onetime, IInv, TypeOK
  <2>2. ExitZeroMeansKey' /\ CreatedBehind'
    BY <1>1 DEF vars, platform, onetime, IInv, ExitZeroMeansKey, CreatedBehind, Exists
  <2> QED  BY <2>1, <2>2 DEF IInv
<1>2. CASE \E p \in OneTime : \/ \E n \in Names, k \in Given : StartOneTime(p, n, k)
                              \/ Usage(p) \/ Check(p) \/ Create(p) \/ Key(p) \/ KillOneTime(p)
  BY <1>2, StartOneTimeInv, CheckInv, CreateInv, KeyInv, KillOneTimeInv
<1>3. CASE \E q \in Shell : StartShell(q) \/ Command(q) \/ KillShell(q)
  BY <1>3, StartShellInv, CommandInv, KillShellInv
<1>4. CASE \E n \in Names : Ready(n)
  BY <1>4, ReadyInv
<1> QED  BY <1>1, <1>2, <1>3, <1>4 DEF Next

THEOREM Invariance == Spec => []IInv
<1> QED  BY InitIInv, NextIInv, PTL DEF Spec

\* The platform, the runs and the counters stay within their types.
THEOREM TypeCorrect == Spec => []TypeOK
<1>1. IInv => TypeOK
  BY DEF IInv
<1> QED  BY Invariance, <1>1, PTL

\* A run of one-time-setup.js that has exited with status 0 has its service, and the
\* key of the name it was given, for good.
THEOREM ZeroMeansKey == Spec => []ExitZeroMeansKey
<1>1. IInv => ExitZeroMeansKey
  BY DEF IInv
<1> QED  BY Invariance, <1>1, PTL

\* An undisturbed create-services.sh leaves no service out, however many there are.
THEOREM NoServiceLeftOut == Spec => []ShellCreatesAll
<1>1. IInv => ShellCreatesAll
  <2> SUFFICES ASSUME IInv, NEW q \in Shell, at[q] = Done, clean[q], NEW n \in Ours
               PROVE  Exists(n)
    BY DEF ShellCreatesAll
  <2>1. PICK i \in DOMAIN Commands : Commands[i].cmd = "create" /\ Commands[i].name = n
    BY CreateCommand
  <2>2. i < at[q]
    BY CommandsShape
  <2> QED  BY <2>1, <2>2 DEF IInv, CreatedBehind
<1> QED  BY Invariance, <1>1, PTL
=============================================================================
