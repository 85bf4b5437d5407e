# Verification of icon-r2-init-setup

The repository sets up and serves the database of an immunization reporting
system: SQL files that create a lookup database and a submission database, a
script that runs them with `psql`, loader triggers through which the running
system replaces its lookup data, a trigger that limits file uploads, and a few
scripts for the Bluemix platform. Its code is small; what makes it hard is that
everything runs concurrently (database sessions, workers, pipelines), in steps
that can fail one by one.

Contents: [inventory](#inventory), [modules](#modules-and-how-they-correspond-to-the-code),
[runs](#runs-and-bounds), [fairness](#fairness), [proofs](#what-is-proved),
[assumptions](#assumptions-about-the-environment),
[defects](#defects-met-while-modelling), [plan](#plan), [not modelled](#not-modelled).

## Inventory

| Part | Source | State | Operations |
|---|---|---|---|
| Lookup schema | `2_Create_Lookup_DB.sql` 24-392 | 9 tables, a domain, 7 views, 3 materialized views | created by setup, read by the application |
| Loaders | `2_Create_Lookup_DB.sql` 390-488 | staging table, lookup table, backup table, materialized view | a client's INSERT into the staging table runs the trigger |
| `process_lock` | `2_Create_Lookup_DB.sql` 139-159 | one row with the day of the last run | a worker selects it `for update nowait`, works, updates it |
| Submission database | `3_Create_Submit_DB.sql` | `Immun_Submission`, `Submission_Attachment` | inserts; trigger `file_upload_check` |
| Roles | `1_Add_Roles.sql` | role `readonly`, grants, default privileges | run by setup |
| Data | `5_Lookup_Data.sql`, `4_Geocode_Data.sql` (not in the repository) | rows of the lookup tables | COPY in one transaction, then REFRESH |
| Setup run | `scripts/exec_psql.sh`, `Drop_DB.sql`, `Build_Steps.txt` | the whole catalog | drop, create, fill, one session for each file |
| Maintenance | `DeleteLookupData.sql`, `DeleteGeocodeData.sql`, `DumpLookups*` | the lookup tables | delete all rows, dump tables |
| Provisioning | `one-time-setup.js`, `create-services.sh` | services and keys of the platform, steps of the runs | check, create service, create key |
| User-provided service | `create_user_provided_service.sh` | `creds.json`, the service `env_setup` | write line by line, list, create or update |
| Environment collector | `env.js` | promises, the shared object, `local.json` | four concurrent commands, one file |
| Container removal | `rm_psql.sh` | a container's state, the state last seen, a poll counter | poll, remove, give up |
| Readers | `read_properties.sh`, `services.sh` | the properties file, which pipelines append to | text extraction |
| Geocode conversion | `geocode-data/gen_geo_etl.awk` | global variables that live from record to record | record to row |

How they interact: setup creates what the loaders, the worker and the upload
sessions use, and destroys it when it runs again. Loaders interact with each
other through the backup table and the materialized view, and leave backup
tables that the next setup run has to find and drop. The maintenance scripts work
on the tables that setup fills and the loaders replace. Upload sessions interact
through the attachments they count. Provisioning must have created the service
key that `exec_psql.sh` reads.

Hard behaviours, and the property that makes each part correct:

* Loaders: sessions interleave statement by statement, statements raise, clients
  vanish. Loads must exclude each other although nothing locks the lookup table;
  each must look like one atomic replacement; the view must never be stale; every
  load must end.
* Uploads: the check and the insert are two steps. The limit should hold; it does
  so without overlap and per session, and not otherwise.
* Setup: any statement can fail and any run can be cut. An undisturbed run must
  repair whatever is there; the lookup data must appear all at once; what the
  script says should be true.
* `process_lock`: one worker at a time, not again for N days, across midnight.
* Maintenance: deletes commit table by table, dumps have one snapshot for each file,
  and both run among loads. References must hold, dumps must be loadable, readers
  must find whole loads.
* Provisioning: commands fail, runs are killed, several run at once, and the
  platform takes minutes. An exit status 0 must mean a usable service; services should
  come with their keys, and do not.
* User-provided service: runs share `creds.json`. What is uploaded must be one run's
  whole configuration.
* Collector: answers come in any order and may be bad. The file must be written whole
  or not at all, must not depend on the order, and the process must end.
* Container removal: the state acted on is old, the container may be started again,
  and the script must end all the same.
* Geocode conversion: nothing of one record may get into the row of the next.

## Modules and how they correspond to the code

**AtomicLoad** is the promise of a loader: one step replaces the table by the
inserted batch, keeps the replaced rows as backup and shows the new rows in the
view.

**Loader** is the trigger function, one action for each SQL statement
(`DropBak`, `CreateBak`, `DeleteMain`, `Transform`, `ClearLoad`, `Refresh`), plus
the client's `Insert`, `Commit` and `Disconnect` and the error path `Raise`.
`load_schools_daycares()` and `load_lots()` run the same statements up to the
refresh; the constant `Indexed` chooses. The committed tables are `main`, `load`,
`bak` and `index`; `tx[s]` is what session s has changed and not committed.
The guards are PostgreSQL's locks: `DropBak` waits for the session that has
dropped the same backup table, `CreateBak` for the one that has created its name
(kept until that transaction ends, even if it has dropped the table again),
`DeleteMain` for rows another session deletes, `Refresh` for the lock on the
view. A batch stands for all rows of one JSON document; tables hold sets of
batches; a malformed batch stands for every reason the transformation raises
(bad JSON, bad date, repeated key).

**FileUpload** is an insert into `Submission_Attachment` as two steps: `Insert` /
`Refuse` (the trigger counts) and `Store` / `Duplicate` (the row and the primary
key, which `TypeOK` includes: `KeyedById`). `counter_` counts committed rows and the
session's own. `overlapped` and the
field `by` are history: no action reads them; they state which uploads the limit
holds for.

**ProcessLock** is the transaction that the comment of `process_lock` prescribes.
`date[w]` is `current_date` of w's transaction, fixed at `Begin`. The select is two
steps, because PostgreSQL looks for the row in a snapshot (`Find`) and then locks
its latest version and checks the condition again (`Lock`); a row that fails the second
check is not returned, and stays locked until the transaction ends all the same.
`Refuse` is NOWAIT against a held lock, `GiveUp` a worker that got no row and ends its
transaction, which releases the row if `Lock` had locked it. `Update` and `Commit` write
the date of the transaction's start. `Midnight` and `Crash` come at any moment. The
protocol is a comment in this repository and the worker is elsewhere, so what is
shown is about workers that follow it, looking at the rows of the select.

**Setup** is `exec_psql.sh` and its files. The scripts are sequences of
statements (`Drop_DB`, `Add_Roles`, `Create_Lookup_DB`, ...), in the order of the
files and under the names the files use; a statement is an operation on an object
and one action executes each operation. The catalog is the set of objects, the
content of each relation (`empty`, `full` with exactly the rows of the data files,
`other`, `unpopulated`) and what `readonly` can read. `Error` is a statement that
cannot be executed: psql goes on. `StatementFails`, `ConnectionLost` and `Killed`
are failures the scripts do not cause; `Load` and `Submit` are the use of the
database between runs. After a COPY is refused, psql reads its data lines as
commands and may swallow the statements that follow: `ErrorInFailed` allows the
COMMIT to be lost. What `exec_psql.sh` does besides (login, reading the service key,
`unzip` of `4_Geocode_Data.sql.zip`) and the `CREATE EXTENSION IF NOT EXISTS` statements of
`2_Create_Lookup_DB.sql` 15-17 are left out: nothing the model has hangs on an extension,
and a zip file that cannot be read is a session of `4_Geocode_Data.sql` that is lost. A run starts from `Drop_DB.sql` (`exec_psql.sh`) or from
`1_Add_Roles.sql` (`Build_Steps.txt`). Columns, SET statements and the setval of
`lots_lot_id_seq` are left out; primary keys belong to their tables, foreign keys
are objects of their own because CASCADE removes them alone. `3_Create_Submit_DB.sql`
drops the submission tables again, without CASCADE: their key and trigger go along
(`Owned`), any other dependent would stop the statement (`Droppable`). A table is
created with its foreign keys or not at all, so that the tables they reference must
be there (`Required`).

**LookupData** is the three scripts that handle the rows of the lookup tables, each
table being empty or filled. A load (`5_Lookup_Data.sql`) is a transaction:
`StartLoad`, one `Copy` for each table, `Commit`, `Refresh`; a COPY waits while
another load holds rows of its table, and finds duplicate keys if the table is full
(`CopyDuplicate`). `DeleteLookupData.sql` is one committed `Delete` for each table,
which takes referencing rows along, or a statement that fails and is passed over.
`DumpLookups` is one `DumpTable` for each table, of what is committed at that moment.
`cleared` and `reloaded` are history: `cleared`
says that nothing has come into the delete run.

**Maintenance** is module Loader together with `delete from schools_daycares`, at the
level of rows: `PurgeBegin` takes the snapshot, `PurgeRows` waits for rows that a load
is deleting, `PurgeCommit` makes the delete visible. The loader's DELETE waits for
the purge in turn (`LoadStep`), and a load that commits first has replaced rows that
the purge then passes over.

**Provision** is `one-time-setup.js` and `create-services.sh` (`Command` after
`Command`) against a platform that creates a service (`Ready`) some time after it has
accepted the order, and refuses a key until then. A one-time run is for the service
`name` and the key `credential`, its arguments 2 and 3: `Usage` is a run without the first
two, which exits with 1; a run without the third goes on and makes a key with the name
`undefined` (`Given`). `Check` counts the lines that `cf service | wc -l` prints, so a cf that
fails looks like a missing service, and the run ends only if the pipeline as a whole
fails. Keys are pairs of service and name; those of `create-services.sh` are all called
`Credentials-1`. `Breaks` is a command that fails for a reason of its own, without effect or
after it. Runs start at any time, in any number up to a bound, and are killed.

**UserProvided** is `create_user_provided_service.sh`: the runs of one directory share
`creds.json`, whose lines are pairs of the run and the line's number. `Write` is one
`echo`; `Create` and `Update` succeed when the name is free or taken and the file is
an object (`ValidJson`). That supposes that the values which the script takes from its
environment have no quotes or backslashes, and that `cf` refuses a file that is no JSON
(versions that then prompt for the credentials find no terminal in a pipeline). A name of another service that contains `env_setup` makes
`grep` find it (`similar`). `overlapped` and `clean` are history.

**EnvCollector** is `env.js`: one callback per command (`Give`, `GiveBare`, `Fail`,
`Throw`: by what the answer is), then `StartWriting` and `FinishWriting`, between
which the file is torn. The object maps each key to the command whose value it holds.
**Collect** is its promise: the file of the last run, until all answers are there;
then a torn file; then a whole one.

**RemoveContainer** is `rm_psql.sh`: `Inspect`, then `Again`, `Found` and `Remove`,
`Lost` or `GiveUp`, while the container `Lives`. Polls do not pause (line 22), so `Tick`
and the counter are unrelated.

**Properties** is `read_properties.sh`; which texts contain a name is the constant
`Within`. **Geocode** is `main()` of `gen_geo_etl.awk` with its three global variables;
of the translation tables it has some entries each.

`MCFileUpload` only adds a symmetry set. `MCLoader` (the triggers for schools and for
lots, two instances of Loader), `MCScripts` and `MCMaintenance` put modules side by side
that share no state: a behaviour picks one of
them in its first state, and the others stand still, so that the run has as many states
as its parts have together, not their product. What is checked of a part there is
the same as in a run of its own. The modules named `...Proofs` hold the theorems;
`ScriptsProofs` states those about the scripts of `MCScripts`, and `LookupDataProofs`
carries those about both parts of `MCMaintenance` over to it. Definitions
marked *mutant* in the modules are deliberately wrong variants of the definition after
them; nothing uses them except the check that each property is able to fail.

## Runs and bounds

| Run | Configuration | Result |
|---|---|---|
| `loader`: schools | 3 sessions, 3 batches (1 malformed), 1 row per INSERT, view | `TypeOK`, `LoaderExclusive`, `IndexFollowsTable`, `LoadsTerminate` hold; `AtomicSpec`: refines AtomicLoad |
| `loader`: lots | 2 sessions, 3 batches, up to 2 rows, no view | `LoadsTerminate` holds |
| `loader_rows` | 2 sessions, up to 2 rows, view | **violation** of `LoadKeepsRows` |
| `file_upload` | 2 sessions, 4 ids, 2 transaction ids | `TypeOK` (with the key), `SerialLimit`, `SessionLimit` hold |
| `file_upload_limit` | 2 sessions, 3 ids | **violation** of `AtMostTwoFiles` |
| `setup` | 2 failures at any place, 1 use, both ways to start | `TypeOK`, `CleanRunCompletes`, `LoadedTogether` hold |
| `setup_echo` | `exec_psql.sh`, 1 failure | **violation** of `CompletedMeansComplete` |
| `process_lock` | 3 workers, every 2 days, 4 midnights, 1 crash | `TypeOK`, `OneDueWorker`, `Spaced`, `DueRuns` hold under `FairSpec` |
| `process_lock_too_recent` | 2 workers | **violation** of `TooRecentFails` |
| `maintenance`: LookupData | 2 loads, 3 runs, 1 failure, tables empty at first | `ReferencesHold`, `DumpClosed`, `LoadedTogether`, `DataLoadedOnce`, `LoadEnds` hold |
| `maintenance`: Maintenance | 2 sessions, 3 batches (2 in the table at first, 1 malformed), 1 delete | `WholeOrNothing`, `LoadRefreshesView`, `BackupCoversReplaced`, `AllEnd` hold |
| `scripts`: Provision | 2 pipelines, 1 shell run, 2 services, 2 names for keys, 3 starts, 2 faults | `ExitZeroMeansKey`, `ShellCreatesAll` hold |
| `scripts`: UserProvided | 3 runs, one with `-f`, 4 lines, 2 faults | `UpsWhole`, `RunTakesEffect` hold |
| `scripts`: EnvCollector | 4 commands, a credential with a service's name, 2 faults | refines Collect (`CollectSpec`); `OrderDoesNotMatter`, `ProcessEnds` hold |
| `scripts`: RemoveContainer | 4 intervals, 1 restart, 2 faults | `ScriptEnds`, `ShutdownRemoved` hold |
| `scripts`: Properties, Geocode | 2 lines; 2 records | `DefinitionsPrinted`; `RowsDescribeRecords` hold |
| `delete_all` | 1 load, 2 runs, no failure | **violation** of `ClearedTables` |
| `provision_keys` | the constants of `scripts` | **violation** of `KeysCreated` |

Why the bounds are enough. Three sessions are one that holds the backup name, one
that waits and one that arrives when the name is handed over; a second row per
INSERT is the least that runs the trigger twice. Four ids let both sessions add
all the files one session can add; two transaction ids show that overlap on one
does not spoil the other. For setup, two failures are enough to leave a table
behind in one run and to cut the run that follows it; runs are not bounded, only
failures and uses are. For the lock, the three workers are one that works, one that
has found the row before the other commits, and one that is refused; four midnights
let a run last over two days and the row become due twice. In LookupData three
runs are a load, what disturbs it, and what finds the result; one failure is enough to
skip the delete of a parent or a child. Maintenance starts with two batches in the
table, so that a purge may be left with a part of what it saw; a second purge would
find what the first one has left, which is a whole load or nothing. In Provision a
third start is the rerun that finds what two overlapping runs have left, and of two
faults one leaves a service half made and one hits the rerun. In UserProvided four
lines have a first, a middle, a last with a comma and a closing one apart. Two records
of Geocode let a value get from one to the next. The type invariants of all modules in
a run are one invariant (`TypesOK`, `ScriptsTypeOK`). The theorems remove these bounds
from every safety property: what remains bounded is liveness.

What the violations show.

* `LoadKeepsRows`: the trigger is `FOR EACH ROW` (line 435) but works on the whole
  staging table. With an INSERT of two documents the first firing loads both and
  empties the staging table; the second backs up the new rows over the old backup,
  empties the table and loads nothing. The insert succeeds, the table and its view
  are empty, the rows of before are gone from the backup. Clients must insert one
  row per statement; then the loader is atomic (theorem `Refinement`).
* `AtMostTwoFiles`: a third file is stored when its count runs before the commit of
  another upload for the same transaction id.
* `CompletedMeansComplete`: the script prints `PSQL scripting completed` whatever
  happened to the files.
* `TooRecentFails`: the comment says that a caller who comes too early gets a failed
  transaction. It gets an empty result and no error; only NOWAIT fails. A worker
  that reacts to errors alone would do the updates.
* `ClearedTables`: `DeleteLookupData.sql` says "clear all lookup data" (line 1), except for
  geocodes, and has no delete for `public_health_units`. `OnlyUnitsLeft` (proved) says that
  this is the only table it leaves.
* `KeysCreated`: `scripts/README.md` says that `create-services.sh` creates the services
  "along with their service keys" (line 29) and that `one-time-setup.js` will "create the
  service key with the name specified" (line 45). The key commands of the first name the
  kind of the service and not the service; the second stops when it finds the service. Both
  have run, nothing has failed, the service is ready, and it has no key.

## Fairness

`FairSpec` of Loader: strong fairness of `Statement(s)` for
each session. The server executes the statements of a running trigger by itself,
no client acts between them, and PostgreSQL's lock queues are first come, first
served: a session that can run again and again is not passed over for ever.
`Insert` and `Disconnect` are not fair: a client may never load, and need not go
away for another load to end. The `Commit` in `Statement` assumes what the
one-statement transaction of an autocommit client does.

`FairSpec` of LookupData: weak fairness of each load's steps, which psql and the server
execute one after the other. A COPY that waits for the rows of another load goes on
when that one has ended, whichever way.

`FairSpec_m` of Maintenance: strong fairness of each load and of the purge, for the
reason given for Loader: their locks are queues. `PurgeBegin` and `PurgeLost` are not
fair.

`FairSpec` of EnvCollector: every command ends in one way or another, so each callback
runs, and the event loop runs what is ready (`Own`). `FairSpec` of RemoveContainer: the
shell executes the script; nothing is assumed of the container or of time. In MCLoader, MCScripts
and MCMaintenance the same conditions are stated for the part that runs.

`FairSpec` of ProcessLock: weak fairness of `Call(w)` for each worker. The scheduler
the comment mentions calls every worker again and again, and a call that has begun
takes its next step; NOWAIT means that no step waits. Crashes are not fair and are
bounded, `Midnight` need not come.

## What is proved

Every invariant and every action property of a passing run is a theorem of the
specification that the run checks (for `loader`, of Loader, which each of its two parts
is an instance of), and so are the two refinements. They are proved for
every value of the constants that satisfies the named assumptions: any number of
sessions, batches, rows, workers, runs, services, failures. Four results have a hypothesis
besides: `MaxRows = 1` or `Indexed`, explained below. The assumptions are no more
than what the constants are: `LoaderAssumption` (of which the proofs use that `Batches` is
finite, `NoTable` is no set of batches and `MaxRows` is positive), `FileUploadAssumption`
(`NoRow` is no row), `ProcessLockAssumption`, `ProvisionAssumption` (the kinds are not names
of services), `ScriptsAssumption` (`creds.json` has at least three lines, a torn file is no
object), `LookupDataAssumption`, `MaintenanceAssumption` and `SetupAssumption` (bounds are
numbers). TLC evaluates each on a run. Each inductive invariant was checked by TLC before
it was proved.

* `LoaderProofs!Invariance`: `IInv` is an invariant of `Loader`. `LoaderExclusive`
  is not inductive: it needs that the name of the backup table is held by one
  transaction (`NameHeldOnce`), that only its holder has changed anything else
  (`WorkUnderName`), that a running trigger has a row to run for and that nothing is
  left in the staging table (`Finished`), and that a load which has changed the table has
  taken away all that is committed, so that what it has added, and has shown in the view,
  is what its commit will leave (`Replaced`). These four and the types, `LoadInv`, say
  nothing of the committed view and hold whatever else deletes rows; `IInv` adds
  `IndexFollowsTable`. All actions but `Commit` change one transaction only: lemma
  `LocalStep` reduces each to a condition on the new record (`Fits`). Hence
  `TypeCorrect`, `Exclusive` and `ViewNeverStale`.
* `LoaderProofs!Refinement`: if `MaxRows = 1`, `Spec` implies `AtomicSpec`. It adds
  the invariant `SingleRow` (the trigger fires once, on one batch, and the backup
  it has made is the table it will replace); every step stutters except `Commit`,
  which is `Replace` (lemma `CommitSingle`). The hypothesis is needed: `loader_rows` shows
  what happens without it.
* `MaintenanceProofs`: the steps of a load are steps of `Loader` (`LoadsRefine`), and a
  purge preserves `LoadInv` (`PurgeKeepsLoads`). What makes `WholeOrNothing` inductive is
  `PurgeWhole`: what is still there of the rows a purge has seen is all of the table or
  nothing of it, because a load that commits takes every committed row away.
  `WholeOrNone` and `LoadsRefreshView` are about loads with a view (`Indexed`).
  `BackupCovers` is about one document per INSERT, for the reason above; it adds
  `CopyCovers`: a purge may make the table smaller than the copy in the backup, nothing
  makes it larger.
* `LookupDataProofs`: `IInv` says that no two loads hold rows of one table, nor of a
  table that has rows (`HeldOnce`, `HeldEmpty`), and that what a dump has passed is in
  its files, with what it references (`DumpFollows`, `DumpedClosed`). Hence
  `NoDanglingReference`, `DumpsAreClosed`, `LoadsAreWhole` (lemma `StepFillsAll`: only a
  commit fills tables, and it fills all, which were all empty) and `LoadsOnce`. `Cleared`
  (`OnlyUnitsLeft`: an undisturbed delete run leaves rows in `public_health_units` only)
  needs `ClearedSoFar`, about the part of the delete run that is done. The order in
  which the scripts name the tables enters through lemmas about the sequences alone.
  `TablesHold`, `AllTypesCorrect`, `ReadersSeeWhole`, `ViewRefreshed` and
  `BackupHasReplaced` state all this, and the theorems of `MaintenanceProofs`, of
  `MCMaintenance`, whose steps are steps of one part (`TablesSpec`, `LoadersSpec`).
* `FileUploadProofs`: `TypeCorrect` (the table keeps its key, uncommitted rows
  included), `LimitWithoutOverlap`, `LimitPerSession`.
  The invariant adds that rows are finitely many, that in-flight rows are their
  session's own (`Owned`) and that a transaction id that never overlapped is in
  flight in one session (`Sole`). Only `Insert` adds a row, and in the case that
  matters what it counted is all there is; for the other actions one lemma
  (`NoNewRowInv`) says that no row appears that was not there before.
* `ProcessLockProofs`: `TypeCorrect`, `OneWorker`, `RunsAreSpaced`. `OneDueWorker` is not
  inductive: `IInv` adds that who works holds the lock, and that who holds it works or has
  an empty result. Then only the holder can commit, and what it saw under the lock, a date N days before its own, is
  still in the row, which gives `Spaced`. Lemma `LocalStep` treats every action that
  leaves the row alone.
* `SetupProofs!TypeCorrect` and `DataAppearTogether`, from the invariant `Base`. `Closed`:
  whatever is in the catalog, what it depends on is there too, after any CASCADE
  (`RemoveKeeps`; `ChainsAreShort`: a chain of dependencies has two links at most).
  `TxOK`: the transaction is open from START to COMMIT, and while it has not failed every
  COPY so far has filled an empty table. So a commit fills all eight tables
  (`CommitCopied`), and nothing else fills one (`FilledByCommit`).
* `SetupProofs!CleanRunBuildsAll`: an undisturbed run builds the whole database, whatever
  earlier runs and uses have left. The argument follows the run. While `Drop_DB.sql` runs,
  what it has dropped is gone (`Dropping`), and each of its statements goes through. Of
  all that a run or a client can ever have made, the drops leave the role, its two
  privileges and at most the trigger function (`RemainsIsLeftover`, `AllDropped`): the
  backup tables go too. From then on the catalog holds what the statements so far have made
  and filled, and besides nothing but that remainder (`Built`, over `Made` and `Loaded`). A statement does then what it says because of the order of the files
  (`Order`): what a statement creates is not there yet unless it is a remainder, and what
  it needs was made or filled by an earlier one. At the end all is made and filled
  (`AllAtEnd`, `RunCompletes`). `Error` is possible in such a run only for the statements
  that recreate a remainder, and changes nothing.
* `ProvisionProofs`: `ZeroMeansKey`, `NoServiceLeftOut`.
  `ExitZeroMeansKey` is inductive with the types: nothing takes a key away.
  `ShellCreatesAll` needs `CreatedBehind`: an undisturbed run leaves a service behind at
  each create command it has passed.
* `ScriptsProofs`: each step of `MCScripts` is a step of one script and leaves the others
  alone (`StandStill`), so an invariant is proved of one module's steps and holds of
  `FairSpec_s`. *UserProvided*: `UpsIsWhole`, `EffectOfRun`. A run that has not overlapped
  is alone (`CupsAlone`), so the file holds the lines it has written (`CredsFollow`) and
  the service is what it has seen (`UpsFollows`); `UpsHidden` is about a similar name.
  *EnvCollector*: `OrderIndependent` and `Collecting` (the refinement of Collect) from
  `StoreSound` (the shared object is whole at every moment, for the answers there are),
  `FileFollows` and `WritingAnswered`. *Properties*: `NoDefinitionOverlooked`, for a file
  of any length. It is proved by counting: a line's place in the output is its rank among
  the lines that match, and there is a line of each rank. *Geocode*: `RowsAreRecords`, for
  any number of records: the next row gets the next rank (`AnotherRow`), and each of the
  three global variables is set anew before it is written. `ProvisioningHolds` and
  `ScriptsTypesCorrect` complete the run.

Only model-checked: all liveness (`LoadsTerminate`, `DueRuns`, `LoadEnds`, `AllEnd`,
`ProcessEnds`, `ScriptEnds`, `ShutdownRemoved`), which is out of the prover's reach, and the
six violations, which are single behaviours.

## Assumptions about the environment

PostgreSQL 9.6 at its default isolation, READ COMMITTED: each statement sees what
is committed when it starts and its own transaction's work. A client runs one
INSERT into a staging table per transaction. A row trigger sees rows that its own
statement has inserted before. CREATE TABLE of a name another transaction has
created waits in the catalog's unique index. The aborted state of a failed
transaction is identified with its end, since its locks and its work are gone.
In Loader nothing else writes the lookup table; Maintenance adds the delete that may.
In Setup nobody else is connected during a run. A load and a purge visit the rows of
a table in the same order, so that two row locks do not make a cycle: both scan the
table from its start.

The platform: `cf create-service` of a name that is taken says OK or fails, depending
on the plan of the service that has it; `cf create-service-key` fails while the service
is not ready and says OK if the key exists; `cf cups` needs a free name and
`cf uups` an existing one. Any command may fail on its own, with or without its effect
in Provision, without it elsewhere. A rejection that nobody handles ends the process or
not, depending on the version of node; an exception in a callback ends it.

## Defects met while modelling

Six are shown by the runs that expect a violation. These were met in the modelled
code too; the models contain them, and properties say what holds in spite of them.

* `one-time-setup.js:57` creates the key right after the service, while the platform
  still creates it and refuses. The script exits with 1, and every later run stops at
  "already exists": it never makes that service's key. Without a third argument it makes
  a key with the name `undefined` and exits with 0 (line 79 passes what is not there).
* `create-services.sh:6`, `:9` and `:12` name the kind of the service where
  `cf create-service-key` expects the service: none of its services gets a key
  (`KeysCreated`).
* `create_user_provided_service.sh:48` looks for `env_setup` anywhere in the list of
  services. Another service with such a name makes every run try an update of what does
  not exist (`RunTakesEffect`, second part). Line 57 tests the word `HASFILE` instead of
  the variable, so that the credentials stay in `creds.json`.
* `env.js:12` and `:26` parse and look into the answer inside a callback: a bad answer
  throws and ends the process where a rejection was meant.
* `rm_psql.sh:22` sleeps for the time `INTERVAL`, which is no number: there is no pause
  between polls, and twelve hours of patience are as long as 4321 polls.
* `DeleteLookupData.sql` leaves out `public_health_units` (`ClearedTables`), whose keys make
  every later load fail as a whole (`DataLoadedOnce`); it does not refresh
  `schools_daycares_index`; and a delete that has waited for a load does not see the rows
  that load has put there.
* `gen_geo_etl.awk:3` writes a COPY into `geocode`; the table is `geocodes`. In
  `getFullStreetDir` the translation of the abbreviation (502, 506, 510) is assigned to a
  parameter and lost: a row of Quebec may have the English abbreviation and the
  French direction.
* `read_properties.sh:8` prints every line that has the name anywhere.
* `2_Create_Lookup_DB.sql:26`: `... OR NULL` makes the check of `prevalence_range` true or
  unknown, never false, and an unknown check is passed.

## Plan

The order was: Loader and AtomicLoad, FileUpload, Setup, ProcessLock; then Provision,
UserProvided, EnvCollector with Collect, RemoveContainer; then LookupData and
Maintenance; then Properties and Geocode; each with its runs, and proofs for those whose
invariants hold for any number of actors; last, the proofs about Maintenance, Setup,
Properties and Geocode. What is left:

1. Setup with clients connected, once the lock order of concurrent DDL is known well
   enough to be modelled and not invented.
2. An abstract specification of a setup run (a database that is there as a whole or being
   built) that Setup implements; the invariants `Dropping` and `Built` are most of its
   refinement mapping.
3. The same for the process lock: an abstract lock of which the two-step select is an
   implementation.

## Not modelled

* `services.sh` prints parts of a command's output and changes nothing.
  `DeleteGeocodeData.sql` is one statement on a table that nothing else in the repository
  fills; the load of the file that `gen_geo_etl.awk` writes always fails.
* Two setup runs at once, or one with clients connected: how concurrent DROP CASCADE,
  CREATE and GRANT statements wait for each other depends on the order in which
  PostgreSQL locks catalog rows, which nothing in the repository determines.
* The domain `prevalence_range`, the joins and column expressions of the views, and the
  transformation of JSON into columns: stateless expressions, not protocols.
* The contents of the data files, SQL settings, indexes as performance objects (they
  exist in Setup by name only). `4_Geocode_Data.sql` is not in the repository: Setup
  assumes of it what the other scripts need, that it fills `geocodes` and refreshes
  `geocodes_index`.
* The vendored PostgreSQL client under `pgsql/`: binaries, and some 190,000 lines of
  third-party headers (PostgreSQL, OpenSSL, Kerberos, LDAP, libxml2). They are all the C
  code there is in the repository, and none of its own: its program is the SQL files,
  shell scripts, JavaScript and awk, some 1,500 lines without data, which the inventory
  names one by one. The share of the C lines that is modelled is therefore zero.
