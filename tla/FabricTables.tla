----------------------------- MODULE FabricTables -----------------------------
(***************************************************************************)
(* The scripts that bring the Learning tables to a Fabric lakehouse:       *)
(* seed_fabric_certification_ready_cli.py writes a CSV file per table and  *)
(* uploads them, upload_..._delta_tables_cli.py builds Delta tables from   *)
(* the CSV files and replaces the folder of each in the lakehouse, the two *)
(* load_fabric_..._cli.py scripts ask Fabric to load each uploaded CSV     *)
(* file, fabric_livy_register_...py runs one Spark statement in a session  *)
(* of its own.  Each may fail or be killed at any request and be run again.*)
(*                                                                         *)
(* OneLake, the load operations and Livy are not in the repository: they   *)
(* are modelled from the requests the scripts send and the answers they    *)
(* handle.                                                                 *)
(***************************************************************************)
EXTENDS Naturals, Sequences, FiniteSets

CONSTANTS TableCount,  \* tables, in the order of the scripts' TABLES
          MaxRuns,     \* bound: scripts run
          Waits        \* polls of an operation before giving up

ASSUME TablesAssumption == /\ TableCount \in Nat \ {0}
                           /\ MaxRuns \in Nat
                           /\ Waits \in Nat \ {0}

Tables == 1 .. TableCount

\* The files of one Delta table as sorted(rglob("*")) gives them: the
\* _delta_log directory sorts before the parquet files it names.
Parts == <<"log", "data">>

VARIABLES
  seeder,  \* the seed script
  csv,     \* the local CSV file of each table
  staged,  \* the CSV file of each table in the lakehouse
  built,   \* the CSV file from which each local Delta table was built
  build,   \* the run that built the local Delta tables last
  folder,  \* the remote folder of each table: its files
  upload,  \* the upload script
  load,    \* the load operations Fabric accepted, by script and table
  rows,    \* what each loaded table holds: of which load, from which file
  loader,  \* a load script
  livy,    \* the Livy script
  sessions, \* the Livy sessions that are open
  runs,    \* scripts run so far
  cut,     \* history: where a seeding stopped before its end
  left     \* history: loads, by script and table, that went on when it had ended

seedVars == <<seeder, csv, staged, cut>>
uploadVars == <<built, build, folder, upload>>
loadVars == <<load, rows, loader, left>>
livyVars == <<livy, sessions>>
tablesVars == <<seedVars, uploadVars, loadVars, livyVars, runs>>

\* A file by the run that wrote it: two seedings may differ in every row.
NoFile == [run |-> 0, whole |-> FALSE]
Written(run, whole) == [run |-> run, whole |-> whole]
NoFiles == [p \in DOMAIN Parts |-> NoFile]

FreshSeeder == [pc |-> "idle", table |-> 1, uploads |-> FALSE]
FreshUpload == [pc |-> "idle", table |-> 1, part |-> 1]
FreshLoader == [pc |-> "idle", run |-> 0, strict |-> FALSE, table |-> 1, ok |-> {},
                unseen |-> {}, failed |-> {}, waits |-> 0]

\* An operation waits, has read the staged file, or has ended.
Operation(state, from) == [state |-> state, from |-> from]

FreshLivy == [pc |-> "idle", session |-> 0, warned |-> FALSE]

\* One operator, one script at a time.
NothingRuns == /\ seeder.pc \in {"idle", "done"}
               /\ upload.pc \in {"idle", "done"}
               /\ loader.pc \in {"idle", "done"}
               /\ livy.pc \in {"idle", "done"}
               /\ runs < MaxRuns

TablesInit ==
  /\ seeder = FreshSeeder
  /\ csv = [t \in Tables |-> NoFile]
  /\ staged = [t \in Tables |-> NoFile]
  /\ built = [t \in Tables |-> NoFile]
  /\ build = 0
  /\ folder = [t \in Tables |-> NoFiles]
  /\ upload = FreshUpload
  /\ load = [r \in 1 .. MaxRuns |-> [t \in Tables |-> Operation("none", NoFile)]]
  /\ rows = [t \in Tables |-> [by |-> 0, from |-> NoFile]]
  /\ loader = FreshLoader
  /\ livy = FreshLivy
  /\ sessions = {}
  /\ runs = 0
  /\ cut = {}
  /\ left = {}

-----------------------------------------------------------------------------
(* seed_fabric_certification_ready_cli.py                                  *)

\* main begins, with --upload or without.
RunSeed ==
  /\ NothingRuns
  /\ runs' = runs + 1
  /\ \E uploads \in BOOLEAN :
       seeder' = [FreshSeeder EXCEPT !.pc = "write", !.uploads = uploads]
  /\ UNCHANGED <<csv, staged, cut, uploadVars, loadVars, livyVars>>

\* write_csv, one table after the other.
WriteCsv ==
  /\ seeder.pc = "write"
  /\ csv' = [csv EXCEPT ![seeder.table] = Written(runs, TRUE)]
  /\ seeder' = IF seeder.table < TableCount
               THEN [seeder EXCEPT !.table = @ + 1]
               ELSE [seeder EXCEPT !.table = 1,
                                   !.pc = IF seeder.uploads THEN "delete" ELSE "done"]
  /\ UNCHANGED <<staged, cut, uploadVars, loadVars, livyVars, runs>>

\* upload_file: DELETE, then PUT of an empty file, then its bytes and a flush.
StageCsv ==
  /\ \/ /\ seeder.pc = "delete"
        /\ staged' = [staged EXCEPT ![seeder.table] = NoFile]
        /\ seeder' = [seeder EXCEPT !.pc = "create"]
     \/ /\ seeder.pc = "create"
        /\ staged' = [staged EXCEPT ![seeder.table] = Written(runs, FALSE)]
        /\ seeder' = [seeder EXCEPT !.pc = "fill"]
     \/ /\ seeder.pc = "fill"
        /\ staged' = [staged EXCEPT ![seeder.table] = csv[seeder.table]]
        /\ seeder' = IF seeder.table < TableCount
                     THEN [seeder EXCEPT !.pc = "delete", !.table = @ + 1]
                     ELSE [seeder EXCEPT !.pc = "done"]
  /\ UNCHANGED <<csv, cut, uploadVars, loadVars, livyVars, runs>>

\* A request fails, or the script is killed: at once, or in the middle of a file.
SeederStops ==
  /\ seeder.pc \notin {"idle", "done"}
  /\ seeder' = FreshSeeder
  /\ cut' = cut \union {IF seeder.pc = "write" THEN "csv" ELSE "lakehouse"}
  /\ \/ UNCHANGED csv
     \/ /\ seeder.pc = "write"
        /\ csv' = [csv EXCEPT ![seeder.table] = Written(runs, FALSE)]
  /\ UNCHANGED <<staged, uploadVars, loadVars, livyVars, runs>>

-----------------------------------------------------------------------------
(* upload_fabric_certification_ready_delta_tables_cli.py                   *)

\* build_delta_tables: every table is written anew, under new file names,
\* before anything is uploaded; without a CSV file it raises.
BuildTables ==
  /\ NothingRuns
  /\ runs' = runs + 1
  /\ IF \A t \in Tables : csv[t] # NoFile
     THEN /\ built' = csv
          /\ build' = runs'
          /\ upload' = [FreshUpload EXCEPT !.pc = "delete"]
     ELSE /\ upload' = FreshUpload
          /\ UNCHANGED <<built, build>>
  /\ UNCHANGED <<folder, seedVars, loadVars, livyVars>>

\* delete_directory, recursive, a missing folder is fine; then the folder is
\* made again.
ReplaceFolder ==
  /\ upload.pc = "delete"
  /\ folder' = [folder EXCEPT ![upload.table] = NoFiles]
  /\ upload' = [upload EXCEPT !.pc = "create", !.part = 1]
  /\ UNCHANGED <<built, build, seedVars, loadVars, livyVars, runs>>

\* upload_file, its first request: an empty file.
CreateFile ==
  /\ upload.pc = "create"
  /\ folder' = [folder EXCEPT ![upload.table][upload.part] =
                                Written(build, FALSE)]
  /\ upload' = [upload EXCEPT !.pc = "write"]
  /\ UNCHANGED <<built, build, seedVars, loadVars, livyVars, runs>>

\* Append and flush; then the next file, the next table, or the end.
WriteFile ==
  /\ upload.pc = "write"
  /\ folder' = [folder EXCEPT ![upload.table][upload.part].whole = TRUE]
  /\ upload' = IF upload.part < Len(Parts)
               THEN [upload EXCEPT !.pc = "create", !.part = @ + 1]
               ELSE IF upload.table < TableCount
               THEN [upload EXCEPT !.pc = "delete", !.table = @ + 1]
               ELSE [upload EXCEPT !.pc = "done"]
  /\ UNCHANGED <<built, build, seedVars, loadVars, livyVars, runs>>

\* request raises, for any error but a tolerated 404 or 409: the script ends.
UploadFails ==
  /\ upload.pc \in {"delete", "create", "write"}
  /\ upload' = FreshUpload
  /\ UNCHANGED <<built, build, folder, seedVars, loadVars, livyVars, runs>>

-----------------------------------------------------------------------------
(* The two load scripts                                                    *)

Runs(operation) == operation.state \in {"posted", "read"}

\* What an earlier script's operation came to is asked by nobody any more.
StillRunning == [r \in 1 .. MaxRuns |-> [t \in Tables |->
                  IF Runs(load[r][t]) THEN load[r][t] ELSE Operation("none", NoFile)]]

RunLoader(strict) ==
  /\ NothingRuns
  /\ runs' = runs + 1
  /\ loader' = [FreshLoader EXCEPT !.pc = "post", !.run = runs', !.strict = strict]
  /\ load' = StillRunning
  /\ UNCHANGED <<rows, left, seedVars, uploadVars, livyVars>>

\* load_fabric_certification_ready_tables_cli.main: any failure ends it.
LoadTables == RunLoader(TRUE)

\* load_fabric_certification_ready_core_tables_cli.main: goes on to the next
\* table, and exits with 1 if one failed.
LoadCoreTables == RunLoader(FALSE)

NextTable(l) == IF l.table < TableCount
                THEN [l EXCEPT !.pc = "post", !.table = @ + 1, !.waits = 0]
                ELSE [l EXCEPT !.pc = "done", !.waits = 0]

Loaded == loader' = NextTable([loader EXCEPT !.ok = @ \union {loader.table}])

\* Mutant: an error is passed over.
PassedOver == Loaded

LoadFailed ==
  loader' = IF loader.strict THEN FreshLoader
            ELSE NextTable([loader EXCEPT !.failed = @ \union {loader.table}])

\* The loads that go on when the script has ended.
LeaveRunning ==
  left' = IF loader'.pc \in {"idle", "done"}
          THEN left \union {<<loader.run, t>> : t \in {u \in Tables : Runs(load'[loader.run][u])}}
          ELSE left

\* The POST: refused; accepted with an operation; accepted without one, which
\* both scripts take for a success; accepted with the answer lost.
PostLoad ==
  /\ loader.pc = "post"
  /\ \/ LoadFailed /\ UNCHANGED load
     \/ /\ load' = [load EXCEPT ![loader.run][loader.table] = Operation("posted", NoFile)]
        /\ \/ loader' = [loader EXCEPT !.pc = "wait"]
           \/ loader' = NextTable([loader EXCEPT
                          !.ok = @ \union {loader.table},
                          !.unseen = @ \union {loader.table}])
           \/ LoadFailed
  /\ LeaveRunning
  /\ UNCHANGED <<rows, seedVars, uploadVars, livyVars, runs>>

Polled == load[loader.run][loader.table]

WaitLoad(strict) ==
  /\ loader.pc = "wait" /\ loader.strict = strict
  /\ \/ /\ Runs(Polled)
        /\ loader.waits + 1 < Waits
        /\ loader' = [loader EXCEPT !.waits = @ + 1]
     \/ Polled.state = "done" /\ Loaded
     \/ LoadFailed
  /\ UNCHANGED load
  /\ LeaveRunning
  /\ UNCHANGED <<rows, seedVars, uploadVars, livyVars, runs>>

\* wait_for_operation: a failure or 120 polls raise.
WaitForOperation == WaitLoad(TRUE)

\* wait: False after a failure or 90 polls; a failed request is caught in main.
CoreWait == WaitLoad(FALSE)

\* A load script is killed.
LoaderDies ==
  /\ loader.pc \in {"post", "wait"}
  /\ loader' = FreshLoader
  /\ UNCHANGED <<load, rows>>
  /\ LeaveRunning
  /\ UNCHANGED <<seedVars, uploadVars, livyVars, runs>>

\* Fabric goes on with an operation, whether or not a script still polls it, and
\* with those of several scripts in any order.  It reads the file as it is then,
ReadStaged ==
  /\ \E r \in 1 .. MaxRuns, t \in Tables :
       /\ load[r][t].state = "posted" /\ staged[t] # NoFile
       /\ load' = [load EXCEPT ![r][t] = Operation("read", staged[t])]
  /\ UNCHANGED <<rows, loader, left, seedVars, uploadVars, livyVars, runs>>

\* and replaces the rows of the table (mode "Overwrite"), or fails.
EndLoad ==
  /\ \E r \in 1 .. MaxRuns, t \in Tables :
       \/ /\ load[r][t].state = "read"
          /\ rows' = [rows EXCEPT ![t] = [by |-> r, from |-> load[r][t].from]]
          /\ load' = [load EXCEPT ![r][t] = Operation("done", NoFile)]
       \/ /\ Runs(load[r][t])
          /\ load' = [load EXCEPT ![r][t] = Operation("failed", NoFile)]
          /\ UNCHANGED rows
  /\ UNCHANGED <<loader, left, seedVars, uploadVars, livyVars, runs>>

-----------------------------------------------------------------------------
(* fabric_livy_register_certification_tables.py                            *)

\* main, up to its try: the session is created, or the script ends.
OpenSession ==
  /\ NothingRuns
  /\ runs' = runs + 1
  /\ \/ livy' = FreshLivy /\ UNCHANGED sessions
     \/ /\ livy' = [FreshLivy EXCEPT !.pc = "starting", !.session = runs']
        /\ sessions' = sessions \union {runs'}
  /\ UNCHANGED <<seedVars, uploadVars, loadVars>>

\* wait_session_idle: any end but "idle" raises, and the finally runs.
WaitSession ==
  /\ livy.pc = "starting"
  /\ \E pc \in {"statement", "cleanup"} : livy' = [livy EXCEPT !.pc = pc]
  /\ UNCHANGED <<sessions, seedVars, uploadVars, loadVars, runs>>

\* run_statement: the tables are registered, or it raises; the finally comes next.
RunStatement ==
  /\ livy.pc = "statement"
  /\ livy' = [livy EXCEPT !.pc = "cleanup"]
  /\ UNCHANGED <<sessions, seedVars, uploadVars, loadVars, runs>>

\* The finally: a DELETE that fails is a warning.
DeleteSession ==
  /\ livy.pc = "cleanup"
  /\ \/ /\ livy' = [livy EXCEPT !.pc = "done"]
        /\ sessions' = sessions \ {livy.session}
     \/ /\ livy' = [livy EXCEPT !.pc = "done", !.warned = TRUE]
        /\ UNCHANGED sessions
  /\ UNCHANGED <<seedVars, uploadVars, loadVars, runs>>

\* Killed: the finally does not run, and the session stays.
LivyDies ==
  /\ livy.pc \in {"starting", "statement", "cleanup"}
  /\ livy' = FreshLivy
  /\ UNCHANGED <<sessions, seedVars, uploadVars, loadVars, runs>>

TablesNext ==
  \/ RunSeed \/ WriteCsv \/ StageCsv \/ SeederStops
  \/ BuildTables \/ ReplaceFolder \/ CreateFile \/ WriteFile \/ UploadFails
  \/ LoadTables \/ LoadCoreTables \/ PostLoad \/ WaitForOperation \/ CoreWait
  \/ LoaderDies \/ ReadStaged \/ EndLoad
  \/ OpenSession \/ WaitSession \/ RunStatement \/ DeleteSession \/ LivyDies

TablesSpec == TablesInit /\ [][TablesNext]_tablesVars

-----------------------------------------------------------------------------
(* Properties                                                              *)

File == [run: 0 .. MaxRuns, whole: BOOLEAN]

TablesTypeOK ==
  /\ seeder \in [pc: {"idle", "write", "delete", "create", "fill", "done"},
                 table: Tables, uploads: BOOLEAN]
  /\ csv \in [Tables -> File] /\ staged \in [Tables -> File] /\ built \in [Tables -> File]
  /\ build \in 0 .. MaxRuns
  /\ folder \in [Tables -> [DOMAIN Parts -> File]]
  /\ upload \in [pc: {"idle", "delete", "create", "write", "done"},
                 table: Tables, part: DOMAIN Parts]
  /\ load \in [1 .. MaxRuns -> [Tables ->
                [state: {"none", "posted", "read", "done", "failed"}, from: File]]]
  /\ rows \in [Tables -> [by: 0 .. MaxRuns, from: File]]
  /\ loader \in [pc: {"idle", "post", "wait", "done"}, run: 0 .. MaxRuns,
                 strict: BOOLEAN, table: Tables, ok: SUBSET Tables, unseen: SUBSET Tables,
                 failed: SUBSET Tables, waits: 0 .. Waits - 1]
  /\ livy \in [pc: {"idle", "starting", "statement", "cleanup", "done"},
               session: 0 .. MaxRuns, warned: BOOLEAN]
  /\ sessions \subseteq 1 .. MaxRuns
  /\ runs \in 0 .. MaxRuns
  /\ cut \subseteq {"csv", "lakehouse"}
  /\ left \subseteq (1 .. MaxRuns) \X Tables

\* However many scripts died on the way: a remote table never mixes the files of
\* two builds.  A script that ended by itself has done what it says, and so that
\* the tables fit together: a seeding left every file in the lakehouse as it is
\* here; an upload replaced every table by the newest build, from one seeding
\* unless one stopped while it wrote the files.  Of a load script, every table it
\* does not report as failed, but for those it could not watch, holds the rows of
\* its own load - unless a load that an earlier script left in Fabric replaced
\* them since - and the script's own rows are from one seeding unless one stopped.
\* A table holds rows from half a file only then, or from a load that outlived its
\* script.  A Livy session is closed unless the script warned.
ScriptsDoWhatTheyReport ==
  /\ \A t \in Tables : \A p, q \in DOMAIN Parts :
       folder[t][p] # NoFile /\ folder[t][q] # NoFile
         => folder[t][p].run = folder[t][q].run
  /\ seeder.pc = "done" /\ seeder.uploads => staged = csv
  /\ upload.pc = "done" =>
       /\ \A t \in Tables : \A p \in DOMAIN Parts : folder[t][p] = Written(build, TRUE)
       /\ "csv" \notin cut => \A t, u \in Tables : built[t] = built[u] /\ built[t].whole
  /\ loader.pc = "done" =>
       LET watched == loader.ok \ loader.unseen
           own     == {t \in watched : rows[t].by = loader.run}
       IN
       /\ loader.ok \union loader.failed = Tables
       /\ \A t \in watched \ own :
            rows[t].by \in 1 .. loader.run - 1 /\ <<rows[t].by, t>> \in left
       /\ cut = {} => \A t, u \in own : rows[t].from = rows[u].from
  /\ \A t \in Tables :
       rows[t].by # 0 /\ cut = {} => rows[t].from.whole \/ <<rows[t].by, t>> \in left
  /\ livy.pc = "done" /\ livy.session \in sessions => livy.warned
=============================================================================
