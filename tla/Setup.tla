------------------------------- MODULE Setup -------------------------------
(***************************************************************************)
(* scripts/exec_psql.sh and the SQL files it runs: the statements, in      *)
(* order, that drop, create and fill the database, against a catalog that  *)
(* keeps what earlier runs left.  psql runs each file in a session of its  *)
(* own and without ON_ERROR_STOP: a failing statement is reported and the  *)
(* next one runs; every statement commits by itself, except between START  *)
(* TRANSACTION and COMMIT of 5_Lookup_Data.sql.  Statements may fail for a *)
(* reason of their own (a deadlock with a client, no disk), connections    *)
(* may be lost, the script may be killed; somebody then runs it again.     *)
(***************************************************************************)
EXTENDS Naturals, Sequences, FiniteSets

CONSTANTS
  Starts,     \* files a run may start from: 1 (exec_psql.sh), 2 (Build_Steps.txt)
  MaxFaults,  \* bound: failures that the scripts do not cause themselves
  MaxUses     \* bound: loads and submissions of clients between the runs

ASSUME SetupAssumption == Starts \subseteq {1, 2} /\ MaxFaults \in Nat /\ MaxUses \in Nat

VARIABLES
  objs,     \* the objects that exist, by the names the scripts use
  content,  \* of each relation: "unpopulated", "empty", "full" or "other" (see Values)
  defaultRead, \* ALTER DEFAULT PRIVILEGES has run: new relations are readable
  readable, \* relations readonly may SELECT from
  file, at, \* the next statement of a run
  status,   \* of the script: "idle", "running" or "completed"
  tx,       \* of the file's session: "none", "open" or "failed"
  copied,   \* tables filled by the open transaction
  clean,    \* ghost: this run started from Drop_DB.sql or from an empty
            \* database, and nothing but its own statements made it fail
  faults, uses  \* used up of MaxFaults and MaxUses

catalog == <<objs, content, defaultRead, readable>>
vars == <<catalog, file, at, status, tx, copied, clean, faults, uses>>
-----------------------------------------------------------------------------
(* The objects.                                                            *)

LookupTables == {"agents", "diseases", "trades", "public_health_units",
                 "agents_diseases", "trades_agents", "lots", "schools_daycares"}
SubmitTables == {"Immun_Submission", "Submission_Attachment"}
Tables == LookupTables \cup SubmitTables \cup
          {"geocodes", "process_lock", "load_schools_daycares", "load_lots",
           "schools_daycares_bak", "lots_bak"}
MatViews == {"schools_daycares_index", "geocodes_index", "cities_index"}
Views == {"diseases_index", "agents_index", "trades_index", "lots_index",
          "immunization_lookups", "lot_lookups", "retrieval_lookups"}
Relations == Tables \cup MatViews \cup Views

\* What a materialized view is computed from.
Source == [schools_daycares_index |-> "schools_daycares",
           geocodes_index |-> "geocodes", cities_index |-> "geocodes_index"]

VaccineTables == {"agents", "diseases", "trades", "agents_diseases", "trades_agents"}

\* What must exist for an object to be created, and keeps it from being dropped
\* without CASCADE.
Needs(o) ==
  CASE o \in {"agents", "diseases", "trades"} -> {"prevalence_range"}
    [] o = "trades_agents_fkeys"   -> {"trades_agents", "agents", "trades"}
    [] o = "agents_diseases_fkeys" -> {"agents_diseases", "agents", "diseases"}
    [] o \in {"trades_agents_agent_snomed_fkey_idx",
              "trades_agents_trade_snomed_fkey_idx"}   -> {"trades_agents"}
    [] o \in {"agents_diseases_agent_snomed_fkey_idx",
              "agents_diseases_disease_snomed_fkey_idx"} -> {"agents_diseases"}
    [] o \in {"lots_agent_jf_idx", "lots_trade_jf_idx", "lots_index"} -> {"lots"}
    [] o \in {"trades_jf_idx", "trades_index"} -> {"trades"}
    [] o = "diseases_index" -> {"diseases"}
    [] o = "agents_index"   -> {"agents"}
    [] o \in MatViews       -> {Source[o]}
    [] o \in {"immunization_lookups", "retrieval_lookups"} -> VaccineTables
    [] o = "lot_lookups"    -> {"agents", "trades", "lots"}
    [] o = "load_schools_daycares_trigger" ->
         {"load_schools_daycares", "load_schools_daycares()"}
    [] o = "load_lots_trigger" -> {"load_lots", "load_lots()"}
    [] o = "Immun_Submission_pkey" -> {"Immun_Submission"}
    [] o = "Submission_Attachment_pkey" -> {"Submission_Attachment"}
    [] o = "file_upload_check" -> {"Submission_Attachment", "file_upload_check()"}
    [] o \in {"connect", "usage"} -> {"readonly"}
    [] OTHER -> {}

\* Foreign keys come with the CREATE TABLE, and go alone when a table they
\* reference is dropped with CASCADE.
Parts(o) == CASE o = "trades_agents" -> {"trades_agents_fkeys"}
              [] o = "agents_diseases" -> {"agents_diseases_fkeys"}
              [] OTHER -> {}
-----------------------------------------------------------------------------
(* The scripts: sequences of statements, each an operation on an object.   *)

Each(op, names) == [i \in DOMAIN names |-> [op |-> op, on |-> names[i]]]

Drop_DB_no_backups ==  \* mutant: written before the loaders kept a backup
  Each("dropCascade",
       <<"retrieval_lookups", "lot_lookups", "immunization_lookups",
         "cities_index", "geocodes_index", "schools_daycares_index",
         "lots_index", "trades_index", "agents_index", "diseases_index",
         "agents_diseases", "trades_agents", "lots", "diseases", "agents", "trades",
         "geocodes", "public_health_units", "schools_daycares",
         "Submission_Attachment", "Immun_Submission", "process_lock",
         "load_lots", "load_schools_daycares">>)
  \o Each("drop", <<"load_lots()", "load_schools_daycares()", "prevalence_range">>)

Drop_DB ==
  Each("dropCascade",
       <<"retrieval_lookups", "lot_lookups", "immunization_lookups",
         "cities_index", "geocodes_index", "schools_daycares_index",
         "lots_index", "trades_index", "agents_index", "diseases_index",
         "agents_diseases", "trades_agents", "lots", "diseases", "agents", "trades",
         "geocodes", "public_health_units", "schools_daycares",
         "Submission_Attachment", "Immun_Submission", "process_lock",
         "load_lots", "lots_bak", "load_schools_daycares", "schools_daycares_bak">>)
  \o Each("drop", <<"load_lots()", "load_schools_daycares()", "prevalence_range">>)

Add_Roles ==
  Each("make", <<"readonly", "connect", "usage">>)
  \o << [op |-> "grantSelect", on |-> "readonly"],
        [op |-> "alterDefault", on |-> "readonly"] >>

\* CREATE, CREATE OR REPLACE and CREATE ... IF NOT EXISTS leave an existing object
\* as it is, the first by failing.
Create_Lookup_DB ==
  Each("drop", <<"prevalence_range">>)
  \o Each("make",
          <<"prevalence_range", "trades", "agents", "diseases", "lots",
            "public_health_units", "trades_agents", "agents_diseases",
            "schools_daycares", "geocodes", "process_lock">>)
  \o << [op |-> "insert", on |-> "process_lock"] >>
  \o Each("make",
          <<"trades_agents_agent_snomed_fkey_idx", "trades_agents_trade_snomed_fkey_idx",
            "agents_diseases_agent_snomed_fkey_idx",
            "agents_diseases_disease_snomed_fkey_idx",
            "lots_agent_jf_idx", "lots_trade_jf_idx", "trades_jf_idx",
            "diseases_index", "agents_index", "trades_index", "lots_index",
            "schools_daycares_index", "geocodes_index", "cities_index",
            "immunization_lookups", "lot_lookups", "retrieval_lookups",
            "load_schools_daycares", "load_schools_daycares()">>)
  \o Each("drop", <<"load_schools_daycares_trigger">>)
  \o Each("make", <<"load_schools_daycares_trigger", "load_lots", "lots", "load_lots()">>)
  \o Each("drop", <<"load_lots_trigger">>)
  \o Each("make", <<"load_lots_trigger">>)

Create_Submit_DB ==
  Each("drop", <<"Immun_Submission">>) \o Each("make", <<"Immun_Submission">>)
  \o Each("drop", <<"Submission_Attachment">>)
  \o Each("make", <<"Submission_Attachment", "Immun_Submission_pkey",
                    "Submission_Attachment_pkey", "file_upload_check()",
                    "file_upload_check">>)

\* Not in the repository.  It must fill geocodes, and refresh geocodes_index, which
\* no other script does and the refresh of cities_index needs.
Geocode_Data == << [op |-> "copy", on |-> "geocodes"],
                   [op |-> "refresh", on |-> "geocodes_index"] >>

Lookup_Data ==
  << [op |-> "start", on |-> "transaction"] >>
  \o Each("copy", <<"agents", "diseases", "trades", "public_health_units",
                    "agents_diseases", "trades_agents", "lots", "schools_daycares">>)
  \o << [op |-> "commit", on |-> "transaction"] >>
  \o Each("refresh", <<"schools_daycares_index", "cities_index">>)

Files == <<Drop_DB, Add_Roles, Create_Lookup_DB, Create_Submit_DB, Geocode_Data,
           Lookup_Data>>
-----------------------------------------------------------------------------
Values == {"unpopulated", \* a materialized view never refreshed; also: no such relation
           "empty", "full",
           "other"}       \* rows that are not exactly those of the data files

Holds(o, v) == [content EXCEPT ![o] = v]

\* An object goes with everything that depends on it; chains have length two.
Dependents(S) == S \cup {o \in objs : Needs(o) \cap S # {}}
Cascade(o) == Dependents(Dependents({o}))

Created(o) == objs \cup {o} \cup Parts(o)

\* Constraints and triggers go with their table, CASCADE or not.
Owned(o) ==
  CASE o = "Immun_Submission" -> {"Immun_Submission_pkey"}
    [] o = "Submission_Attachment" -> {"Submission_Attachment_pkey", "file_upload_check"}
    [] OTHER -> {}

Droppable(o) == Dependents({o}) \subseteq {o} \cup Owned(o)

\* Where a created relation starts.
Fresh(o) == IF o \in Tables THEN "empty" ELSE "unpopulated"

st == Files[file][at]
Running == status = "running" /\ at <= Len(Files[file])

\* The current statement is `op`, and its session accepts statements.
Stmt(op) == Running /\ st.op = op /\ tx # "failed"
Advance == at' = at + 1 /\ UNCHANGED <<file, status, clean, faults, uses>>

\* The statement changes objects and rows and commits, with the session's
\* transaction untouched.
Autocommit == Advance /\ UNCHANGED <<tx, copied, defaultRead>>
-----------------------------------------------------------------------------
Remove_keep_grants(gone) ==  \* mutant: privileges survive their relation
  /\ objs' = objs \ gone
  /\ content' = [r \in Relations |-> IF r \in gone THEN "unpopulated" ELSE content[r]]
  /\ UNCHANGED readable

Remove(gone) ==
  /\ objs' = objs \ gone
  /\ readable' = readable \ gone
  /\ content' = [r \in Relations |-> IF r \in gone THEN "unpopulated" ELSE content[r]]

\* DROP ... IF EXISTS [CASCADE]; without CASCADE nothing may depend on the object.
Drop ==
  /\ Stmt("drop") \/ Stmt("dropCascade")
  /\ st.op = "drop" => Droppable(st.on)
  /\ Remove(Cascade(st.on))
  /\ Autocommit

\* A table is created with its foreign keys, or not at all.
Required(o) == (UNION {Needs(p) : p \in {o} \cup Parts(o)}) \ {o}
Creatable(o) == o \notin objs /\ Required(o) \subseteq objs

Make ==
  /\ Stmt("make") /\ Creatable(st.on)
  /\ objs' = Created(st.on)
  /\ content' = IF st.on \in Relations THEN Holds(st.on, Fresh(st.on)) ELSE content
  /\ readable' = IF defaultRead THEN readable \cup ({st.on} \cap Relations) ELSE readable
  /\ Autocommit

GrantSelect ==
  /\ Stmt("grantSelect") /\ st.on \in objs
  /\ readable' = objs \cap Relations
  /\ Autocommit /\ UNCHANGED <<objs, content>>

AlterDefault ==
  /\ Stmt("alterDefault") /\ st.on \in objs
  /\ defaultRead' = TRUE
  /\ Advance /\ UNCHANGED <<objs, content, readable, tx, copied>>

\* The first row of process_lock, unless there is one.
Insertable(o) == o \in objs /\ content[o] = "empty"

Insert ==
  /\ Stmt("insert") /\ Insertable(st.on)
  /\ content' = Holds(st.on, "full")
  /\ Autocommit /\ UNCHANGED <<objs, readable>>

\* COPY ... FROM stdin.  Every table but geocodes has a key, which rejects the rows
\* that are already there.  Inside the transaction the rows wait for COMMIT.
Copyable(o) == /\ o \in objs
               /\ o # "geocodes" => content[o] = "empty" /\ o \notin copied

Copy ==
  /\ Stmt("copy") /\ Copyable(st.on)
  /\ IF tx = "open"
     THEN copied' = copied \cup {st.on} /\ UNCHANGED content
     ELSE /\ content' = Holds(st.on, IF content[st.on] = "empty" THEN "full" ELSE "other")
          /\ UNCHANGED copied
  /\ Advance /\ UNCHANGED <<objs, defaultRead, readable, tx>>

\* REFRESH MATERIALIZED VIEW, from a relation that has itself been populated.
Refreshable(o) == o \in objs /\ content[Source[o]] # "unpopulated"

Refresh ==
  /\ Stmt("refresh") /\ Refreshable(st.on)
  /\ content' = Holds(st.on, content[Source[st.on]])
  /\ Autocommit /\ UNCHANGED <<objs, readable>>

StartTransaction_autocommit ==  \* mutant: the data file without START TRANSACTION
  Stmt("start") /\ Advance /\ UNCHANGED <<catalog, tx, copied>>

StartTransaction ==
  /\ Stmt("start")
  /\ tx' = "open"
  /\ Advance /\ UNCHANGED <<catalog, copied>>

Commit ==
  /\ Stmt("commit")
  /\ content' = [r \in Relations |-> IF r \in copied THEN "full" ELSE content[r]]
  /\ tx' = "none" /\ copied' = {}
  /\ Advance /\ UNCHANGED <<objs, defaultRead, readable>>

\* A statement that cannot be executed has no effect, and fails an open transaction.
Impossible ==
  \/ st.op = "drop" /\ ~Droppable(st.on)
  \/ st.op = "make" /\ ~Creatable(st.on)
  \/ st.op \in {"grantSelect", "alterDefault"} /\ st.on \notin objs
  \/ st.op = "insert" /\ ~Insertable(st.on)
  \/ st.op = "copy" /\ ~Copyable(st.on)
  \/ st.op = "refresh" /\ ~Refreshable(st.on)

SkipStmt ==
  /\ tx' = (IF tx = "open" THEN "failed" ELSE tx)
  /\ at' = at + 1
  /\ UNCHANGED <<catalog, file, status, copied, uses>>

Error ==
  /\ Running /\ tx # "failed" /\ Impossible
  /\ SkipStmt /\ UNCHANGED <<clean, faults>>

\* In a failed transaction every statement is an error; COMMIT ends it, rolling back,
\* unless psql has taken it for the rest of the rows of a COPY that was refused.
ErrorInFailed ==
  /\ Running /\ tx = "failed"
  /\ at' = at + 1
  /\ \/ st.op = "commit" /\ tx' = "none" /\ copied' = {}
     \/ UNCHANGED <<tx, copied>>
  /\ UNCHANGED <<catalog, file, status, clean, faults, uses>>

\* The end of the file, or of its session: what is not committed is rolled back.
\* The script goes on, and says "PSQL scripting completed", whatever psql returned.
EndSession ==
  /\ tx' = "none" /\ copied' = {}
  /\ IF file < Len(Files) THEN file' = file + 1 /\ at' = 1 /\ UNCHANGED status
                          ELSE status' = "completed" /\ file' = 1 /\ at' = 1
  /\ UNCHANGED <<catalog, uses>>

NextFile ==
  /\ status = "running" /\ at > Len(Files[file])
  /\ EndSession /\ UNCHANGED <<clean, faults>>
-----------------------------------------------------------------------------
(* What the scripts do not cause.                                          *)

Fault == faults < MaxFaults /\ faults' = faults + 1 /\ clean' = FALSE

StatementFails == /\ Running /\ tx # "failed" /\ st.op \notin {"start", "commit"}
                  /\ SkipStmt /\ Fault

ConnectionLost == Running /\ EndSession /\ Fault

\* The script is killed, or finds no service key (the run does nothing at all).
Killed ==
  /\ status = "running"
  /\ status' = "idle" /\ file' = 1 /\ at' = 1 /\ tx' = "none" /\ copied' = {}
  /\ Fault /\ UNCHANGED <<catalog, uses>>

\* exec_psql.sh runs every file; Build_Steps.txt has them run from 1_Add_Roles.sql on.
Start(first) ==
  /\ status # "running"
  /\ status' = "running" /\ file' = first /\ at' = 1
  /\ clean' = (first = 1 \/ objs = {})
  /\ UNCHANGED <<catalog, tx, copied, faults, uses>>

\* Between runs the database is used: load_lots() and load_schools_daycares()
\* replace their table and leave a backup; submissions are stored.
Use ==
  /\ status # "running" /\ status' = "idle" /\ clean' = FALSE
  /\ uses < MaxUses /\ uses' = uses + 1
  /\ UNCHANGED <<file, at, tx, copied, faults, defaultRead>>

Load(table, loader, bak, idx) ==
  /\ {table, loader} \cup idx \subseteq objs
  /\ objs' = objs \cup {bak}
  /\ content' = [r \in Relations |-> CASE r \in {table} \cup idx -> "other"
                                       [] r = bak -> content[table]
                                       [] OTHER -> content[r]]
  /\ readable' = IF defaultRead THEN readable \cup {bak} ELSE readable \ {bak}
  /\ Use

Submit(table) ==
  /\ table \in objs
  /\ content' = Holds(table, "other")
  /\ Use /\ UNCHANGED <<objs, readable>>
-----------------------------------------------------------------------------
Init ==
  /\ objs = {} /\ readable = {} /\ defaultRead = FALSE
  /\ content = [r \in Relations |-> "unpopulated"]
  /\ file = 1 /\ at = 1 /\ status = "idle" /\ tx = "none" /\ copied = {}
  /\ clean = FALSE /\ faults = 0 /\ uses = 0

Next ==
  \/ Drop \/ Make \/ GrantSelect \/ AlterDefault \/ Insert \/ Copy \/ Refresh
  \/ StartTransaction \/ Commit \/ Error \/ ErrorInFailed \/ NextFile
  \/ StatementFails \/ ConnectionLost \/ Killed
  \/ \E first \in Starts : Start(first)
  \/ Load("schools_daycares", "load_schools_daycares_trigger", "schools_daycares_bak",
          {"schools_daycares_index"})
  \/ Load("lots", "load_lots_trigger", "lots_bak", {})
  \/ \E t \in SubmitTables : Submit(t)

Spec == Init /\ [][Next]_vars
-----------------------------------------------------------------------------
Statements == UNION {{Files[f][i] : i \in DOMAIN Files[f]} : f \in DOMAIN Files}
Installed == UNION {{x.on} \cup Parts(x.on) : x \in {y \in Statements : y.op = "make"}}

TypeOK ==
  /\ objs \subseteq Installed \cup Tables /\ readable \subseteq objs \cap Relations
  /\ content \in [Relations -> Values] /\ copied \subseteq LookupTables
  /\ defaultRead \in BOOLEAN /\ clean \in BOOLEAN
  /\ file \in DOMAIN Files /\ at \in 1..Len(Files[file]) + 1
  /\ status \in {"idle", "running", "completed"} /\ tx \in {"none", "open", "failed"}
  /\ faults \in 0..MaxFaults /\ uses \in 0..MaxUses

Filled == LookupTables \cup MatViews \cup {"geocodes", "process_lock"}

Complete ==
  /\ objs = Installed
  /\ \A r \in objs \cap Tables : content[r] = IF r \in Filled THEN "full" ELSE "empty"
  /\ \A r \in MatViews : content[r] = "full"
  /\ Relations \cap objs \subseteq readable

\* A run that meets no failure but those of its own statements builds the whole
\* database, whatever earlier runs, cut at any statement, and clients have left.
CleanRunCompletes == status = "completed" /\ clean => Complete

\* echo "PSQL scripting completed".  Fails: the script looks at no result of psql.
CompletedMeansComplete == status = "completed" => Complete

\* The lookup data appear all at once: a table is filled only together with all the
\* others, even if a table that was not dropped makes a COPY fail.
LoadedTogether ==
  [][(\E t \in LookupTables : content[t] = "empty" /\ content'[t] = "full")
       => \A t \in LookupTables : content[t] = "empty" /\ content'[t] = "full"]_vars
=============================================================================
