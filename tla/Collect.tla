------------------------------- MODULE Collect -------------------------------
(***************************************************************************)
(* What env.js promises the test stage of a pipeline: local.json is        *)
(* written only when every answer is there, it then holds a value for each *)
(* key that any answer gave, and while it is written it can be torn.       *)
(***************************************************************************)
CONSTANTS
  Commands,     \* the answers to collect
  KeysOf(_),    \* the keys that the answer of a command gives values for
  OldFile, Torn \* the file of an earlier run; a file whose writing was cut

VARIABLES answers, \* per command: "none", "failed", "given" (its keys) or "bare"
          file

Given(k) == {c \in Commands : answers[c] = "given" /\ k \in KeysOf(c)}
KeysWith(a) == UNION {KeysOf(c) : c \in {d \in Commands : answers[d] = a}}

\* A file with all keys that were given, each from a command that gave it.  A bare
\* answer may take a key away that another command gave under the same name.
Whole(f) == /\ KeysWith("given") \ KeysWith("bare") \subseteq DOMAIN f
            /\ \A k \in DOMAIN f : f[k] \in Given(k)

Init == answers = [c \in Commands |-> "none"] /\ file = OldFile

Answer(c) ==
  /\ answers[c] = "none"
  /\ \E a \in {"failed", "given", "bare"} : answers' = [answers EXCEPT ![c] = a]
  /\ UNCHANGED file

Open ==
  /\ file = OldFile /\ file' = Torn
  /\ \A c \in Commands : answers[c] \in {"given", "bare"}
  /\ UNCHANGED answers

Write == file = Torn /\ file' # Torn /\ Whole(file') /\ UNCHANGED answers

Next == Open \/ Write \/ \E c \in Commands : Answer(c)

Spec == Init /\ [][Next]_<<answers, file>>
=============================================================================
