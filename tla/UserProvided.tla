---------------------------- MODULE UserProvided ----------------------------
(***************************************************************************)
(* scripts/create_user_provided_service.sh: writes the configuration from  *)
(* its environment to creds.json, line by line, and creates or updates the *)
(* user-provided service env_setup from that file.  Runs in one directory  *)
(* share the file; they may overlap, be killed, or use a given file (-f).  *)
(*                                                                         *)
(* A line of the file is <<r, i>>, the i-th line that run r writes: the    *)
(* first opens the JSON object, the last closes it, and the one before it  *)
(* is the only one without a comma.                                        *)
(***************************************************************************)
EXTENDS Naturals, Sequences

CONSTANTS
  Runs,       \* invocations, each with an environment of its own
  WithFile,   \* those with -f: they use a complete file of their own
  Lines,      \* lines of creds.json
  MaxFaults   \* bound: commands that fail and runs that are killed

VARIABLES
  creds,      \* the lines of creds.json, <<>> when there is no such file
  ups,        \* what the service env_setup holds, <<>> when there is no such service
  similar,    \* another service has env_setup within its name
  step,       \* per run: see Steps
  written,    \* per run: lines it has written
  overlapped, \* ghost: runs that were active together with another one
  clean,      \* ghost: runs that nothing has hit
  faults

vars == <<creds, ups, similar, step, written, overlapped, clean, faults>>

Steps == {"new", "remove", "write", "list", "create", "update", "cleanup",
          "end", "dead"}

\* The file run r means to write, or is given.
Own(r) == [i \in 1..Lines |-> <<r, i>>]
File(r) == IF r \in WithFile THEN Own(r) ELSE creds

\* What cf accepts: one object, opened once and closed once, at the right places.
ValidJson(f) ==
  /\ Len(f) >= 3
  /\ \A k \in DOMAIN f : /\ f[k][2] = 1 <=> k = 1
                         /\ f[k][2] = Lines <=> k = Len(f)
                         /\ f[k][2] = Lines - 1 <=> k = Len(f) - 1

Active == {r \in Runs : step[r] \notin {"new", "end", "dead"}}

Go(r, from, to) == step[r] = from /\ step' = [step EXCEPT ![r] = to]
-----------------------------------------------------------------------------
Start(r) ==
  /\ Go(r, "new", IF r \in WithFile THEN "list" ELSE "remove")
  /\ overlapped' = overlapped \cup (IF Active = {} THEN {} ELSE Active \cup {r})
  /\ UNCHANGED <<creds, ups, similar, written, clean, faults>>

\* "REMOVE CRED.JSON IF EXIST"
Remove(r) ==
  /\ Go(r, "remove", "write")
  /\ creds' = <<>>
  /\ UNCHANGED <<ups, similar, written, overlapped, clean, faults>>

Write_off_by_one(r) ==  \* mutant: one line too many
  /\ Go(r, "write", IF written[r] = Lines THEN "list" ELSE "write")
  /\ creds' = (IF written[r] = 0 THEN <<>> ELSE creds) \o << <<r, written[r] + 1>> >>
  /\ written' = [written EXCEPT ![r] = @ + 1]
  /\ UNCHANGED <<ups, similar, overlapped, clean, faults>>

Write_drops_line(r) ==  \* mutant: the second line is forgotten
  /\ Go(r, "write", IF written[r] + 1 = Lines THEN "list" ELSE "write")
  /\ creds' = (IF written[r] = 0 THEN <<>> ELSE creds)
                \o (IF written[r] = 1 THEN <<>> ELSE << <<r, written[r] + 1>> >>)
  /\ written' = [written EXCEPT ![r] = @ + 1]
  /\ UNCHANGED <<ups, similar, overlapped, clean, faults>>

\* echo: the first line with >, the others with >>.
Write(r) ==
  /\ Go(r, "write", IF written[r] + 1 = Lines THEN "list" ELSE "write")
  /\ creds' = (IF written[r] = 0 THEN <<>> ELSE creds) \o << <<r, written[r] + 1>> >>
  /\ written' = [written EXCEPT ![r] = @ + 1]
  /\ UNCHANGED <<ups, similar, overlapped, clean, faults>>

List_create_only(r) ==  \* mutant: before the update of an existing service
  /\ Go(r, "list", "create")
  /\ UNCHANGED <<creds, ups, similar, written, overlapped, clean, faults>>

\* cf services | grep env_setup
List(r) ==
  /\ Go(r, "list", IF ups # <<>> \/ similar THEN "update" ELSE "create")
  /\ UNCHANGED <<creds, ups, similar, written, overlapped, clean, faults>>

\* cf cups ... -p FILE fails if the name is taken, cf uups if there is no such
\* service, and both if the file is not what they expect.
Upload(r, from, possible) ==
  /\ Go(r, from, "cleanup")
  /\ ups' = IF possible /\ ValidJson(File(r)) THEN File(r) ELSE ups
  /\ UNCHANGED <<creds, similar, written, overlapped, clean, faults>>

Create(r) == Upload(r, "create", ups = <<>>)
Update(r) == Upload(r, "update", ups # <<>>)

\* [ -z HASFILE ] asks whether the word HASFILE is empty: the file stays.
Cleanup(r) ==
  /\ Go(r, "cleanup", "end")
  /\ UNCHANGED <<creds, ups, similar, written, overlapped, clean, faults>>
-----------------------------------------------------------------------------
Fault(r) == faults < MaxFaults /\ faults' = faults + 1 /\ clean' = clean \ {r}

\* cf services fails: no line of its output has the name.
ListFails(r) ==
  /\ Go(r, "list", "create") /\ Fault(r)
  /\ UNCHANGED <<creds, ups, similar, written, overlapped>>

UploadFails(r) ==
  /\ Go(r, "create", "cleanup") \/ Go(r, "update", "cleanup")
  /\ Fault(r) /\ UNCHANGED <<creds, ups, similar, written, overlapped>>

Kill(r) ==
  /\ r \in Active /\ step' = [step EXCEPT ![r] = "dead"]
  /\ Fault(r) /\ UNCHANGED <<creds, ups, similar, written, overlapped>>
-----------------------------------------------------------------------------
Init ==
  /\ creds = <<>> /\ ups = <<>> /\ similar \in BOOLEAN
  /\ step = [r \in Runs |-> "new"] /\ written = [r \in Runs |-> 0]
  /\ overlapped = {} /\ clean = Runs /\ faults = 0

Next == \E r \in Runs :
  \/ Start(r) \/ Remove(r) \/ Write(r) \/ List(r) \/ Create(r) \/ Update(r)
  \/ Cleanup(r) \/ ListFails(r) \/ UploadFails(r) \/ Kill(r)

Spec == Init /\ [][Next]_vars
-----------------------------------------------------------------------------
Line == Runs \X (1..Lines)

TypeOK ==
  /\ creds \in Seq(Line) /\ ups \in Seq(Line) /\ similar \in BOOLEAN
  /\ step \in [Runs -> Steps] /\ written \in [Runs -> 0..Lines]
  /\ overlapped \subseteq Runs /\ clean \subseteq Runs
  /\ faults \in 0..MaxFaults

\* Runs that never overlapped put one run's whole configuration into the service, no
\* matter where earlier runs were killed and what they left in the file.
UpsWhole == overlapped = {} => ups \in {Own(r) : r \in Runs} \cup {<<>>}

\* A run that nothing disturbs gets its own configuration into the service, whether
\* the service was there or not.  But while another service has env_setup within its
\* name, nobody learns that there is none: unless the listing fails, every run tries an
\* update of what does not exist, and no run ever creates it.
RunTakesEffect ==
  [][\A r \in clean \ overlapped : step[r] = "cleanup" /\ step'[r] = "end" =>
       /\ ~similar => ups' = Own(r)
       /\ similar /\ faults = 0 => ups' = <<>>]_vars
=============================================================================
