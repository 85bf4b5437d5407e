------------------------------ MODULE MCScripts ------------------------------
(***************************************************************************)
(* The scripts of scripts/ and geocode-data/ that share no state, for TLC: *)
(* a behaviour is one of them (script), with all its runs and its platform,*)
(* and the others stand still.                                             *)
(***************************************************************************)
EXTENDS Provision

CONSTANTS
  pgl, rmq, kindOfPgl, kindOfRmq,                 \* of Provision
  Runs, WithFile, Lines,                          \* of UserProvided
  Bound, Ups, UpsKeys, OldFile, Torn,             \* of EnvCollector
  Timeout, MaxClock, MaxRestarts,                 \* of RemoveContainer
  key, hostkey, text, MaxLines,                   \* of Properties
  MaxRecords, Provinces, Types, Directions, Numbers, Routes  \* of Geocode

\* Two services, of the three that the scripts create.
TwoServices == <<pgl, rmq>>
TwoKinds == <<kindOfPgl, kindOfRmq>>

\* One name of a property that contains another one.
KeyInHostkey == {<<key, key>>, <<hostkey, hostkey>>, <<key, hostkey>>}

VARIABLES
  script,
  creds, ups, similar, cupsStep, written, overlapped, undisturbed, cupsFaults,
  answers, store, promise, node, object, local, envFaults,
  container, rmStep, seen, now, result, clock, restarts, rmFaults,
  properties, asked, printed,
  records, PROV_FULL, ST_TYPE_FULL, ST_DIR_FULL, rows, phase

U == INSTANCE UserProvided WITH
       step <- cupsStep, clean <- undisturbed, faults <- cupsFaults
E == INSTANCE EnvCollector WITH
       Services <- Bound, text <- object, file <- local, faults <- envFaults
R == INSTANCE RemoveContainer WITH step <- rmStep, faults <- rmFaults
P == INSTANCE Properties WITH
       Names <- {key, hostkey}, Fields <- {key, hostkey, text}, Within <- KeyInHostkey,
       file <- properties
G == INSTANCE Geocode

\* What is known of the constants: creds.json is written as an object of at least three
\* lines, and a local.json that was cut is no object.
Objects == UNION {[D -> E!Commands] : D \in SUBSET (Bound \cup UpsKeys)}
ASSUME ScriptsAssumption ==
  /\ Lines \in Nat /\ Lines >= 3
  /\ Torn \notin Objects
  /\ {Timeout, MaxClock, MaxRestarts, MaxLines, MaxRecords} \subseteq Nat

cups == <<creds, ups, similar, cupsStep, written, overlapped, undisturbed, cupsFaults>>
env == <<answers, store, promise, node, object, local, envFaults>>
rm == <<container, rmStep, seen, now, result, clock, restarts, rmFaults>>
props == <<properties, asked, printed>>
awk == <<records, PROV_FULL, ST_TYPE_FULL, ST_DIR_FULL, rows, phase>>
all == <<script, vars, cups, env, rm, props, awk>>
-----------------------------------------------------------------------------
Scripts == {"provision", "cups", "env", "rm", "properties", "awk"}

\* Where a script that is not run may start in several states, it has one of them.
Init_s ==
  /\ script \in Scripts
  /\ Init /\ U!Init /\ E!Init /\ R!Init /\ P!Init /\ G!Init
  /\ script # "cups" => ~similar
  /\ script # "rm" => container = "Running"
  /\ script # "properties" => asked = key

Runs_(s) == script = s /\ UNCHANGED script

Provisions == Runs_("provision") /\ UNCHANGED <<cups, env, rm, props, awk>>
Uploads == Runs_("cups") /\ UNCHANGED <<vars, env, rm, props, awk>>
Collects == Runs_("env") /\ UNCHANGED <<vars, cups, rm, props, awk>>
Removes == Runs_("rm") /\ UNCHANGED <<vars, cups, env, props, awk>>
Reads == Runs_("properties") /\ UNCHANGED <<vars, cups, env, rm, awk>>
Converts == Runs_("awk") /\ UNCHANGED <<vars, cups, env, rm, props>>

Next_s ==
  \/ Provisions /\ Next
  \/ Uploads /\ U!Next
  \/ Collects /\ E!Next
  \/ Removes /\ R!Next
  \/ Reads /\ P!Next
  \/ Converts /\ G!Next

FairSpec_s ==
  /\ Init_s /\ [][Next_s]_all
  /\ WF_all(Collects /\ E!Own)
  /\ \A c \in E!Commands : WF_all(Collects /\ E!Callback(c))
  /\ WF_all(Removes /\ R!Script)
-----------------------------------------------------------------------------
\* The states of all scripts and of what they work on.
ScriptsTypeOK == TypeOK /\ U!TypeOK /\ E!TypeOK /\ R!TypeOK /\ P!TypeOK /\ G!TypeOK

\* create_user_provided_service.sh: without overlap, one run's whole configuration.
UpsWhole == U!UpsWhole

\* create_user_provided_service.sh: an undisturbed run uploads its own configuration.
RunTakesEffect == U!RunTakesEffect

\* env.js: local.json is written whole, after all answers, or not at all.
CollectSpec == E!CollectSpec

\* env.js: what is written does not depend on the order of the answers.
OrderDoesNotMatter == E!OrderDoesNotMatter

\* env.js: the process ends.
ProcessEnds == script = "env" => E!ProcessEnds

\* rm_psql.sh: the script ends.
ScriptEnds == script = "rm" => R!ScriptEnds

\* rm_psql.sh: a container that stays shut down is removed.
ShutdownRemoved == R!ShutdownRemoved

\* read_properties.sh: no definition of the name is overlooked.
DefinitionsPrinted == P!DefinitionsPrinted

\* gen_geo_etl.awk: nothing of one record gets into the row of another one.
RowsDescribeRecords == G!RowsDescribeRecords
=============================================================================
