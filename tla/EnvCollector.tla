---------------------------- MODULE EnvCollector ----------------------------
(***************************************************************************)
(* scripts/env.js: four cf commands run at once, each with a promise and a *)
(* callback that puts values into one shared object; when all promises are *)
(* resolved the object is written to local.json.  Answers come in any      *)
(* order.  A callback that throws is nobody's rejection: it ends the       *)
(* process.  A rejection is not handled: the process goes on, or ends,     *)
(* which depends on the version of node.                                   *)
(***************************************************************************)
EXTENDS Naturals

CONSTANTS
  Services,    \* icon-elasticsearch, icon-postgresql, icon-rabbitmq
  Ups,         \* env_setup, the user-provided service
  UpsKeys,     \* the names in its credentials
  OldFile, Torn, \* contents of local.json: of an earlier run; cut while written
  MaxFaults    \* bound: answers that are errors or not what is expected

Commands == Services \cup {Ups}

\* A service gives its uri under its own name, env_setup all its credentials.
KeysOf(c) == IF c = Ups THEN UpsKeys ELSE {c}

VARIABLES
  answers,  \* per command: "none", "failed", "given" or "bare" (see Answer)
  store,    \* from keys to the command whose value they hold
  promise,  \* per command: "pending", "resolved" or "rejected"
  node,     \* the process: "running", "writing", "exited", "threw" or "killed"
  text,     \* what is being written: the object when JSON.stringify saw it
  file,     \* local.json
  faults

vars == <<answers, store, promise, node, text, file, faults>>
-----------------------------------------------------------------------------
Alive == node \in {"running", "writing"}
Answered(c, a) == answers[c] = "none" /\ answers' = [answers EXCEPT ![c] = a]
Settle(c, p) == promise' = [promise EXCEPT ![c] = p]

Put(keys, c) == [k \in DOMAIN store \cup keys |-> IF k \in keys THEN c ELSE store[k]]

Give_shared_name(c) ==  \* mutant: serviceName is one variable for all callbacks
  /\ Alive /\ Answered(c, "given")
  /\ \E k \in Commands : store' = Put(KeysOf(k), c)
  /\ Settle(c, "resolved")
  /\ UNCHANGED <<node, text, file, faults>>

\* The answer is what was expected.
Give(c) ==
  /\ Alive /\ Answered(c, "given")
  /\ store' = Put(KeysOf(c), c)
  /\ Settle(c, "resolved")
  /\ UNCHANGED <<node, text, file, faults>>

\* A service key without a uri, or env_setup without credentials: nothing to put, or
\* undefined, which JSON.stringify leaves out.
GiveBare(c) ==
  /\ Alive /\ Answered(c, "bare")
  /\ faults < MaxFaults /\ faults' = faults + 1
  /\ store' = [k \in DOMAIN store \ (IF c = Ups THEN {} ELSE {c}) |-> store[k]]
  /\ Settle(c, "resolved")
  /\ UNCHANGED <<node, text, file>>

\* The command ends with an error: reject(error).  Nobody handles the rejection.
Fail(c) ==
  /\ Alive /\ Answered(c, "failed")
  /\ faults < MaxFaults /\ faults' = faults + 1
  /\ Settle(c, "rejected")
  /\ node' \in {node, "threw"}
  /\ UNCHANGED <<store, text, file>>

\* cf curl succeeds and prints an error, or no JSON at all: JSON.parse or the access
\* to ['entity']['credentials'] throws in the callback.
Throw(c) ==
  /\ Alive /\ Answered(c, "failed")
  /\ faults < MaxFaults /\ faults' = faults + 1
  /\ node' = "threw"
  /\ UNCHANGED <<store, promise, text, file>>
-----------------------------------------------------------------------------
StartWriting_first ==  \* mutant: Promise.race for Promise.all
  /\ node = "running" /\ \E c \in Commands : promise[c] = "resolved"
  /\ node' = "writing" /\ text' = store /\ file' = Torn
  /\ UNCHANGED <<answers, store, promise, faults>>

\* Promise.all is resolved; fs.writeFile empties the file.
StartWriting ==
  /\ node = "running" /\ \A c \in Commands : promise[c] = "resolved"
  /\ node' = "writing" /\ text' = store /\ file' = Torn
  /\ UNCHANGED <<answers, store, promise, faults>>

FinishWriting ==
  /\ node = "writing" /\ node' = "exited" /\ file' = text
  /\ UNCHANGED <<answers, store, promise, text, faults>>

\* The disk is full: the callback of writeFile throws.
WriteFails ==
  /\ node = "writing" /\ node' = "threw"
  /\ faults < MaxFaults /\ faults' = faults + 1
  /\ UNCHANGED <<answers, store, promise, text, file>>

Exit_all_resolved ==  \* mutant: a timer keeps the process until the file is written
  /\ node = "running" /\ \A c \in Commands : promise[c] = "resolved"
  /\ node' = "exited"
  /\ UNCHANGED <<answers, store, promise, text, file, faults>>

\* Nothing is left to wait for: a rejected Promise.all writes nothing.
Exit ==
  /\ node = "running" /\ \A c \in Commands : promise[c] # "pending"
  /\ \E c \in Commands : promise[c] = "rejected"
  /\ node' = "exited"
  /\ UNCHANGED <<answers, store, promise, text, file, faults>>

Kill ==
  /\ Alive /\ node' = "killed"
  /\ faults < MaxFaults /\ faults' = faults + 1
  /\ UNCHANGED <<answers, store, promise, text, file>>
-----------------------------------------------------------------------------
Nothing == [k \in {} |-> Ups]

Init ==
  /\ answers = [c \in Commands |-> "none"] /\ store = Nothing
  /\ promise = [c \in Commands |-> "pending"]
  /\ node = "running" /\ text = Nothing /\ file = OldFile /\ faults = 0

Callback(c) == Give(c) \/ GiveBare(c) \/ Fail(c) \/ Throw(c)
Own == StartWriting \/ FinishWriting \/ Exit

Next == Own \/ WriteFails \/ Kill \/ \E c \in Commands : Callback(c)

Spec == Init /\ [][Next]_vars

\* Every command ends, and the event loop runs what is ready.
FairSpec == Spec /\ WF_vars(Own) /\ \A c \in Commands : WF_vars(Callback(c))
-----------------------------------------------------------------------------
IsObject(f) == /\ DOMAIN f \subseteq Services \cup UpsKeys
               /\ \A k \in DOMAIN f : f[k] \in Commands

TypeOK ==
  /\ answers \in [Commands -> {"none", "failed", "given", "bare"}]
  /\ IsObject(store) /\ IsObject(text) /\ (file \in {OldFile, Torn} \/ IsObject(file))
  /\ promise \in [Commands -> {"pending", "resolved", "rejected"}]
  /\ node \in {"running", "writing", "exited", "threw", "killed"}
  /\ faults \in 0..MaxFaults

\* local.json is written once, when all four commands have answered and none failed,
\* and then has a value for every key that was given; a run that fails leaves the
\* file of the run before.
Promised == INSTANCE Collect
CollectSpec == Promised!Spec

\* The tests never read a value of the wrong origin: only for a credential that has
\* the name of a service does what is written depend on the order of the answers.
OrderDoesNotMatter ==
  file \notin {OldFile, Torn} =>
    \A k \in DOMAIN file \ (Services \cap UpsKeys) :
      file[k] = IF k \in Services THEN k ELSE Ups

\* The process ends, whatever the commands answer.
ProcessEnds == <>~Alive
=============================================================================
