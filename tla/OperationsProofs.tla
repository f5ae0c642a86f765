--------------------------- MODULE OperationsProofs ---------------------------
(***************************************************************************)
(* What the Fabric table scripts leave behind when any of them may have    *)
(* been stopped at any request, for any number of tables, runs and polls;  *)
(* and the types of the operator's side as a whole, from those of its      *)
(* three components.  Proved with TLAPS.                                   *)
(***************************************************************************)
EXTENDS MCOperations, BootstrapProofs, LauncherProofs

-----------------------------------------------------------------------------
\* The tables: the invariant.

Seeding   == seeder.pc \notin {"idle", "done"}
Uploading == upload.pc \in {"delete", "create", "write"}
Loading   == loader.pc \in {"post", "wait"}
InSession == livy.pc \in {"starting", "statement", "cleanup"}

OneAtATime ==
  /\ Seeding => ~Uploading /\ ~Loading /\ ~InSession
  /\ Uploading => ~Loading /\ ~InSession
  /\ Loading => ~InSession

\* Files of one seeding, whole, or none at all.
Alike(files) == \A t, u \in Tables : /\ files[t] = files[u]
                                     /\ files[t] # NoFile => files[t].whole

CsvKept ==
  "csv" \notin cut =>
    /\ seeder.pc = "write" =>
         \A t \in 1 .. (seeder.table - 1) : csv[t] = Written(runs, TRUE)
    /\ seeder.pc # "write" => Alike(csv)

StagedKept ==
  /\ seeder.pc \in {"delete", "create", "fill"} =>
       \A t \in 1 .. (seeder.table - 1) : staged[t] = csv[t]
  /\ seeder.pc = "done" /\ seeder.uploads => staged = csv
  /\ cut = {} /\ seeder.pc \in {"idle", "write", "done"} => Alike(staged)

BuiltKept == upload.pc # "idle" /\ "csv" \notin cut =>
               \A t, u \in Tables : built[t] = built[u] /\ built[t].whole

FolderUnmixed ==
  \A t \in Tables : \A p, q \in DOMAIN Parts :
    folder[t][p] # NoFile /\ folder[t][q] # NoFile => folder[t][p].run = folder[t][q].run

Replaced(t) == \A p \in DOMAIN Parts : folder[t][p] = Written(build, TRUE)

\* The tables before the one under way are replaced, and its parts in turn.
FolderKept ==
  /\ FolderUnmixed
  /\ Uploading => \A t \in 1 .. (upload.table - 1) : Replaced(t)
  /\ upload.pc \in {"create", "write"} =>
       \A p \in DOMAIN Parts :
         /\ p < upload.part => folder[upload.table][p] = Written(build, TRUE)
         /\ p > upload.part => folder[upload.table][p] = NoFile
  /\ upload.pc = "create" => folder[upload.table][upload.part] = NoFile
  /\ upload.pc = "write" => folder[upload.table][upload.part] = Written(build, FALSE)
  /\ upload.pc = "done" => \A t \in Tables : Replaced(t)

Watched == loader.ok \ loader.unseen

Ended == loader.pc = "done"

\* A later load of an earlier script than the loader's has the table.
Older(t) == rows[t].by \in 1 .. loader.run - 1 /\ <<rows[t].by, t>> \in left

\* The loader's own operation for a table: the file it has read is the one that
\* is staged while the script runs, and once it is done only an older load may
\* have replaced its rows.
Own(t) ==
  /\ load[loader.run][t].state = "read" => load[loader.run][t].from = staged[t]
  /\ load[loader.run][t].state = "done" =>
       \/ /\ rows[t].by = loader.run
          /\ rows[t].from = staged[t]
       \/ Older(t)

\* The tables before the one under way are answered for; what was watched is done.
LoadsKept ==
  /\ Loading => /\ loader.run = runs
                /\ loader.ok \union loader.failed = 1 .. (loader.table - 1)
                /\ \A t \in Tables : Own(t)
  /\ Loading \/ Ended => /\ loader.run \in 1 .. MaxRuns
                         /\ \A t \in Watched : load[loader.run][t].state = "done"
  /\ Ended =>
       /\ loader.ok \union loader.failed = Tables
       /\ \A t \in Watched : rows[t].by = loader.run \/ Older(t)
       /\ cut = {} => \A t, u \in Watched :
            rows[t].by = loader.run /\ rows[u].by = loader.run => rows[t].from = rows[u].from

\* An operation belongs to a script that ran; the last one is the loader's.
LoadsNumbered ==
  \A r \in 1 .. MaxRuns, t \in Tables : load[r][t].state # "none" =>
    r <= runs /\ (Ended => r <= loader.run)

\* A load that no script watches was left; half a file is read by such a load only.
LoadsLeft ==
  /\ \A r \in 1 .. MaxRuns, t \in Tables :
       /\ Runs(load[r][t]) => <<r, t>> \in left \/ (Loading /\ r = loader.run)
       /\ load[r][t].state = "read" /\ cut = {} => load[r][t].from.whole \/ <<r, t>> \in left
  /\ \A t \in Tables :
       rows[t].by # 0 /\ cut = {} => rows[t].from.whole \/ <<rows[t].by, t>> \in left

SessionsClosed == livy.pc = "done" /\ livy.session \in sessions => livy.warned

TablesInv ==
  /\ TablesTypeOK /\ OneAtATime
  /\ CsvKept /\ StagedKept /\ BuiltKept /\ FolderKept
  /\ LoadsKept /\ LoadsNumbered /\ LoadsLeft /\ SessionsClosed

-----------------------------------------------------------------------------
\* The tables: which script moves what.

SeedStep   == RunSeed \/ WriteCsv \/ StageCsv \/ SeederStops
UploadStep == BuildTables \/ ReplaceFolder \/ CreateFile \/ WriteFile \/ UploadFails
LoadStep   == LoadTables \/ LoadCoreTables \/ PostLoad \/ WaitForOperation \/ CoreWait
              \/ LoaderDies \/ ReadStaged \/ EndLoad
LivyStep   == OpenSession \/ WaitSession \/ RunStatement \/ DeleteSession \/ LivyDies

\* A script leaves the variables of the others alone, and the number of runs
\* too, unless it begins.
LEMMA ScriptFrames ==
  ASSUME [TablesNext]_tablesVars
  PROVE  \/ SeedStep /\ UNCHANGED <<uploadVars, loadVars, livyVars>>
         \/ UploadStep /\ UNCHANGED <<seedVars, loadVars, livyVars>>
         \/ LoadStep /\ UNCHANGED <<seedVars, uploadVars, livyVars>>
         \/ LivyStep /\ UNCHANGED <<seedVars, uploadVars, loadVars>>
         \/ UNCHANGED tablesVars
PROOF
<1>1. CASE UNCHANGED tablesVars
  BY <1>1
<1>2. CASE SeedStep
  BY <1>2 DEF SeedStep, RunSeed, WriteCsv, StageCsv, SeederStops
<1>3. CASE UploadStep
  BY <1>3 DEF UploadStep, BuildTables, ReplaceFolder, CreateFile, WriteFile, UploadFails
<1>4. CASE LoadStep
  BY <1>4 DEF LoadStep, LoadTables, LoadCoreTables, RunLoader, PostLoad, WaitForOperation,
              CoreWait, WaitLoad, LoaderDies, ReadStaged, EndLoad
<1>5. CASE LivyStep
  BY <1>5 DEF LivyStep, OpenSession, WaitSession, RunStatement, DeleteSession, LivyDies
<1> QED BY <1>1, <1>2, <1>3, <1>4, <1>5
        DEF TablesNext, SeedStep, UploadStep, LoadStep, LivyStep

\* NextTable goes on to the next table, or ends.
LEMMA NextTableIs ==
  ASSUME NEW l \in [pc: {"idle", "post", "wait", "done"}, run: 0 .. MaxRuns,
                    strict: BOOLEAN, table: Tables, ok: SUBSET Tables, unseen: SUBSET Tables,
                    failed: SUBSET Tables, waits: 0 .. Waits - 1]
  PROVE  LET n == NextTable(l) IN
         /\ n \in [pc: {"idle", "post", "wait", "done"}, run: 0 .. MaxRuns,
                   strict: BOOLEAN, table: Tables, ok: SUBSET Tables, unseen: SUBSET Tables,
                   failed: SUBSET Tables, waits: 0 .. Waits - 1]
         /\ n.run = l.run /\ n.ok = l.ok /\ n.failed = l.failed /\ n.unseen = l.unseen
         /\ l.table < TableCount => n.pc = "post" /\ n.table = l.table + 1
         /\ ~ (l.table < TableCount) => n.pc = "done" /\ l.table = TableCount
PROOF
<1> USE TablesAssumption
<1>0. l.table \in 1 .. TableCount /\ 0 \in 0 .. Waits - 1
  BY DEF Tables
<1>1. CASE l.table < TableCount
  <2>1. NextTable(l) = [l EXCEPT !.pc = "post", !.table = @ + 1, !.waits = 0]
    BY <1>1 DEF NextTable
  <2>2. l.table + 1 \in Tables
    BY <1>0, <1>1 DEF Tables
  <2> QED BY <1>0, <1>1, <2>1, <2>2
<1>2. CASE ~ (l.table < TableCount)
  <2>1. NextTable(l) = [l EXCEPT !.pc = "done", !.waits = 0]
    BY <1>2 DEF NextTable
  <2>2. l.table = TableCount
    BY <1>0, <1>2
  <2> QED BY <1>0, <1>2, <2>1, <2>2
<1> QED BY <1>1, <1>2

-----------------------------------------------------------------------------
\* The tables: types.

Seeder == [pc: {"idle", "write", "delete", "create", "fill", "done"},
           table: Tables, uploads: BOOLEAN]
Upload == [pc: {"idle", "delete", "create", "write", "done"},
           table: Tables, part: DOMAIN Parts]
Load   == [state: {"none", "posted", "read", "done", "failed"}, from: File]
Loader == [pc: {"idle", "post", "wait", "done"}, run: 0 .. MaxRuns, strict: BOOLEAN,
           table: Tables, ok: SUBSET Tables, unseen: SUBSET Tables,
           failed: SUBSET Tables, waits: 0 .. Waits - 1]
Livy   == [pc: {"idle", "starting", "statement", "cleanup", "done"},
           session: 0 .. MaxRuns, warned: BOOLEAN]

LEMMA FreshScripts ==
  /\ FreshSeeder \in Seeder /\ FreshUpload \in Upload
  /\ FreshLoader \in Loader /\ FreshLivy \in Livy
  /\ DOMAIN Parts = {1, 2} /\ NoFile \in File
PROOF BY TablesAssumption DEF FreshSeeder, FreshUpload, FreshLoader, FreshLivy, Seeder, Upload,
         Loader, Livy, Tables, Parts, NoFile, File

LEMMA SeedTyped ==
  ASSUME TablesTypeOK, SeedStep
  PROVE  /\ seeder' \in Seeder /\ csv' \in [Tables -> File] /\ staged' \in [Tables -> File]
         /\ cut' \subseteq {"csv", "lakehouse"} /\ runs' \in 0 .. MaxRuns
PROOF
<1> USE TablesAssumption, FreshScripts
<1>1. seeder \in Seeder /\ csv \in [Tables -> File] /\ staged \in [Tables -> File]
      /\ runs \in 0 .. MaxRuns /\ cut \subseteq {"csv", "lakehouse"}
  BY DEF TablesTypeOK, Seeder
<1>2. \A w \in BOOLEAN : Written(runs, w) \in File
  BY <1>1 DEF Written, File
<1>t. seeder.table \in Tables /\ (seeder.table < TableCount => seeder.table + 1 \in Tables)
      /\ 1 \in Tables
  BY <1>1 DEF Seeder, Tables
<1>3. CASE RunSeed
  <2>1. seeder' \in Seeder
    BY <1>3 DEF RunSeed, Seeder
  <2>2. runs' \in 0 .. MaxRuns
    BY <1>1, <1>3 DEF RunSeed, NothingRuns
  <2> QED BY <1>1, <1>3, <2>1, <2>2 DEF RunSeed
<1>4. CASE WriteCsv
  <2>1. seeder' \in Seeder
    BY <1>1, <1>t, <1>4 DEF WriteCsv, Seeder
  <2>2. csv' \in [Tables -> File]
    BY <1>1, <1>2, <1>t, <1>4 DEF WriteCsv
  <2> QED BY <1>1, <1>4, <2>1, <2>2 DEF WriteCsv
<1>5. CASE StageCsv
  <2>1. csv[seeder.table] \in File
    BY <1>1, <1>t
  <2>2. seeder' \in Seeder
    <3>1. \A pc \in {"create", "fill", "done"} : [seeder EXCEPT !.pc = pc] \in Seeder
      BY <1>1 DEF Seeder
    <3>2. seeder.table < TableCount =>
            [seeder EXCEPT !.pc = "delete", !.table = @ + 1] \in Seeder
      BY <1>1, <1>t DEF Seeder
    <3> QED BY <1>5, <3>1, <3>2 DEF StageCsv
  <2>3. staged' \in [Tables -> File]
    BY <1>1, <1>2, <1>t, <1>5, <2>1 DEF StageCsv
  <2> QED BY <1>1, <1>5, <2>2, <2>3 DEF StageCsv
<1>6. CASE SeederStops
  BY <1>1, <1>2, <1>6 DEF SeederStops
<1> QED BY <1>3, <1>4, <1>5, <1>6 DEF SeedStep

LEMMA UploadTyped ==
  ASSUME TablesTypeOK, UploadStep
  PROVE  /\ upload' \in Upload /\ built' \in [Tables -> File] /\ build' \in 0 .. MaxRuns
         /\ folder' \in [Tables -> [DOMAIN Parts -> File]] /\ runs' \in 0 .. MaxRuns
PROOF
<1> USE TablesAssumption, FreshScripts
<1>1. /\ upload \in Upload /\ built \in [Tables -> File] /\ build \in 0 .. MaxRuns
      /\ folder \in [Tables -> [DOMAIN Parts -> File]] /\ runs \in 0 .. MaxRuns
      /\ csv \in [Tables -> File]
  BY DEF TablesTypeOK, Upload
<1>2. \A w \in BOOLEAN : Written(build, w) \in File
  BY <1>1 DEF Written, File
<1>3. CASE BuildTables
  BY <1>1, <1>3 DEF BuildTables, NothingRuns, Upload
<1>4. CASE ReplaceFolder
  BY <1>1, <1>4 DEF ReplaceFolder, NoFiles, Upload
<1>5. CASE CreateFile
  BY <1>1, <1>2, <1>5 DEF CreateFile, Upload
<1>6. CASE WriteFile
  <2> DEFINE t == upload.table
             p == upload.part
  <2>i. t \in Tables /\ p \in DOMAIN Parts
    BY <1>1 DEF Upload
  <2>1. folder' \in [Tables -> [DOMAIN Parts -> File]]
    <3>1. folder[t] \in [DOMAIN Parts -> File] /\ folder[t][p] \in File
      BY <1>1, <2>i
    <3>2. [folder[t][p] EXCEPT !.whole = TRUE] \in File
      BY <3>1 DEF File
    <3>3. folder' = [folder EXCEPT ![t] = [folder[t] EXCEPT
                                             ![p] = [folder[t][p] EXCEPT !.whole = TRUE]]]
      BY <1>6, Zenon DEF WriteFile
    <3> HIDE DEF t, p
    <3> QED BY <1>1, <2>i, <3>1, <3>2, <3>3
  <2>2. upload' \in Upload
    <3>1. /\ t < TableCount => t + 1 \in Tables
          /\ p < Len(Parts) => p + 1 \in DOMAIN Parts
      BY <1>1 DEF Upload, Tables, Parts
    <3> QED BY <1>1, <1>6, <3>1 DEF WriteFile, Upload
  <2> QED BY <1>1, <1>6, <2>1, <2>2 DEF WriteFile
<1>7. CASE UploadFails
  BY <1>1, <1>7 DEF UploadFails
<1> QED BY <1>3, <1>4, <1>5, <1>6, <1>7 DEF UploadStep

LEMMA LoadTyped ==
  ASSUME TablesTypeOK, LoadsKept, LoadStep
  PROVE  /\ loader' \in Loader /\ load' \in [1 .. MaxRuns -> [Tables -> Load]]
         /\ rows' \in [Tables -> [by: 0 .. MaxRuns, from: File]]
         /\ left' \subseteq (1 .. MaxRuns) \X Tables /\ runs' \in 0 .. MaxRuns
PROOF
<1> USE TablesAssumption, FreshScripts
<1> DEFINE Loads == [1 .. MaxRuns -> [Tables -> Load]]
           Rows  == [Tables -> [by: 0 .. MaxRuns, from: File]]
           Lefts == SUBSET ((1 .. MaxRuns) \X Tables)
<1>1. /\ loader \in Loader /\ load \in Loads /\ rows \in Rows /\ left \in Lefts
      /\ runs \in 0 .. MaxRuns /\ staged \in [Tables -> File] /\ loader.table \in Tables
  BY DEF TablesTypeOK, Loader, Load
<1>o. \A state \in {"none", "posted", "read", "done", "failed"}, f \in File :
        Operation(state, f) \in Load
  BY DEF Operation, Load
<1>r. Loading => loader.run \in 1 .. MaxRuns
  BY DEF LoadsKept
<1>2. LeaveRunning /\ Loading => left' \in Lefts
  <2> SUFFICES ASSUME LeaveRunning, Loading PROVE left' \in Lefts
    OBVIOUS
  <2>1. \A t \in Tables : <<loader.run, t>> \in (1 .. MaxRuns) \X Tables
    BY <1>r
  <2> QED BY <1>1, <2>1 DEF LeaveRunning
<1>3. LoadFailed => loader' \in Loader
  <2>1. [loader EXCEPT !.failed = @ \union {loader.table}] \in Loader
    BY <1>1 DEF Loader
  <2> QED BY <2>1, NextTableIs DEF LoadFailed, Loader
<1>4. Loaded => loader' \in Loader
  <2>1. [loader EXCEPT !.ok = @ \union {loader.table}] \in Loader
    BY <1>1 DEF Loader
  <2> QED BY <2>1, NextTableIs DEF Loaded, Loader
<1> DEFINE Typed == /\ loader' \in Loader /\ load' \in Loads /\ rows' \in Rows
                    /\ left' \in Lefts /\ runs' \in 0 .. MaxRuns
<1>5. ASSUME NEW strict \in BOOLEAN, RunLoader(strict) PROVE Typed
  <2>1. runs' \in 0 .. MaxRuns
    BY <1>1, <1>5 DEF RunLoader, NothingRuns
  <2>2. loader' \in Loader
    BY <1>5, <2>1 DEF RunLoader, Loader
  <2>3. load' \in Loads
    <3>1. load' = StillRunning
      BY <1>5 DEF RunLoader
    <3>2. \A q \in 1 .. MaxRuns, t \in Tables :
            load[q][t] \in Load /\ Operation("none", NoFile) \in Load
      BY <1>1, <1>o
    <3> QED BY <3>1, <3>2 DEF StillRunning
  <2> QED BY <1>1, <1>5, <2>1, <2>2, <2>3 DEF RunLoader
<1>6. CASE PostLoad
  <2>1. Loading /\ LeaveRunning /\ UNCHANGED <<runs, rows>>
    BY <1>6 DEF PostLoad, Loading
  <2>2. load' \in Loads
    <3>1. CASE load' = load
      BY <1>1, <3>1
    <3>2. CASE load' = [load EXCEPT ![loader.run][loader.table] = Operation("posted", NoFile)]
      BY <1>1, <1>o, <1>r, <2>1, <3>2
    <3> QED BY <1>6, <3>1, <3>2 DEF PostLoad
  <2>3. loader' \in Loader
    <3>1. [loader EXCEPT !.pc = "wait"] \in Loader
      BY <1>1 DEF Loader
    <3> DEFINE l == [loader EXCEPT !.ok = @ \union {loader.table},
                                   !.unseen = @ \union {loader.table}]
    <3>2. l \in Loader
      BY <1>1 DEF Loader
    <3>3. NextTable(l) \in Loader
      <4> HIDE DEF l
      <4> QED BY <3>2, NextTableIs DEF Loader
    <3> QED BY <1>3, <1>6, <3>1, <3>3 DEF PostLoad
  <2> QED BY <1>1, <1>2, <2>1, <2>2, <2>3
<1>7. ASSUME NEW strict \in BOOLEAN, WaitLoad(strict) PROVE Typed
  <2>1. loader.waits + 1 < Waits => [loader EXCEPT !.waits = @ + 1] \in Loader
    <3>1. loader \in Loader
      BY <1>1
    <3>2. loader.waits + 1 < Waits => loader.waits + 1 \in 0 .. Waits - 1
      BY <3>1 DEF Loader
    <3> QED BY <3>1, <3>2 DEF Loader
  <2>2. Loading /\ LeaveRunning /\ UNCHANGED <<runs, rows, load>>
    BY <1>7 DEF WaitLoad, Loading
  <2> QED BY <1>1, <1>2, <1>3, <1>4, <1>7, <2>1, <2>2 DEF WaitLoad
<1>8. CASE ReadStaged
  <2>1. PICK q \in 1 .. MaxRuns, t \in Tables :
          load' = [load EXCEPT ![q][t] = Operation("read", staged[t])]
    BY <1>8 DEF ReadStaged
  <2>2. staged[t] \in File /\ Operation("read", staged[t]) \in Load
    BY <1>1, <1>o
  <2>3. load' \in Loads
    BY <1>1, <2>1, <2>2
  <2> QED BY <1>1, <1>8, <2>3 DEF ReadStaged
<1>9. CASE EndLoad
  <2>1. PICK q \in 1 .. MaxRuns, t \in Tables :
          \/ /\ rows' = [rows EXCEPT ![t] = [by |-> q, from |-> load[q][t].from]]
             /\ load' = [load EXCEPT ![q][t] = Operation("done", NoFile)]
          \/ /\ load' = [load EXCEPT ![q][t] = Operation("failed", NoFile)]
             /\ UNCHANGED rows
    BY <1>9 DEF EndLoad
  <2>2. load' \in Loads
    <3>1. Operation("done", NoFile) \in Load /\ Operation("failed", NoFile) \in Load
      BY <1>o
    <3>2. PICK op \in Load : load' = [load EXCEPT ![q][t] = op]
      BY <2>1, <3>1
    <3>3. load[q] \in [Tables -> Load]
      BY <1>1
    <3> QED BY <1>1, <3>2, <3>3
  <2>3. rows' \in Rows
    <3>1. load[q][t] \in Load
      BY <1>1
    <3>2. [by |-> q, from |-> load[q][t].from] \in [by: 0 .. MaxRuns, from: File]
      BY <3>1 DEF Load
    <3> QED BY <1>1, <2>1, <3>2
  <2> QED BY <1>1, <1>9, <2>2, <2>3 DEF EndLoad
<1>10. CASE LoaderDies
  <2>1. Loading /\ LeaveRunning /\ UNCHANGED <<runs, rows, load>>
    BY <1>10 DEF LoaderDies, Loading
  <2> QED BY <1>1, <1>2, <1>10, <2>1 DEF LoaderDies
<1> QED BY <1>5, <1>6, <1>7, <1>8, <1>9, <1>10 DEF LoadStep, LoadTables, LoadCoreTables,
        WaitForOperation, CoreWait

LEMMA LivyTyped ==
  ASSUME TablesTypeOK, LivyStep
  PROVE  livy' \in Livy /\ sessions' \subseteq 1 .. MaxRuns /\ runs' \in 0 .. MaxRuns
PROOF
<1> USE TablesAssumption, FreshScripts
<1>1. livy \in Livy /\ sessions \subseteq 1 .. MaxRuns /\ runs \in 0 .. MaxRuns
  BY DEF TablesTypeOK, Livy
<1>2. CASE OpenSession
  <2>1. runs' \in 1 .. MaxRuns /\ runs' \in 0 .. MaxRuns
    BY <1>1, <1>2 DEF OpenSession, NothingRuns
  <2>2. livy' \in Livy
    BY <1>2, <2>1 DEF OpenSession, Livy
  <2> QED BY <1>1, <1>2, <2>1, <2>2 DEF OpenSession
<1>3. CASE WaitSession
  BY <1>1, <1>3 DEF WaitSession, Livy
<1>4. CASE RunStatement
  BY <1>1, <1>4 DEF RunStatement, Livy
<1>5. CASE DeleteSession
  BY <1>1, <1>5 DEF DeleteSession, Livy
<1>6. CASE LivyDies
  BY <1>1, <1>6 DEF LivyDies
<1> QED BY <1>2, <1>3, <1>4, <1>5, <1>6 DEF LivyStep

LEMMA TablesTyped ==
  ASSUME TablesTypeOK, LoadsKept, [TablesNext]_tablesVars
  PROVE  TablesTypeOK'
PROOF
<1> USE DEF seedVars, uploadVars, loadVars, livyVars, tablesVars
<1>1. CASE SeedStep /\ UNCHANGED <<uploadVars, loadVars, livyVars>>
  BY <1>1, SeedTyped DEF TablesTypeOK, Seeder
<1>2. CASE UploadStep /\ UNCHANGED <<seedVars, loadVars, livyVars>>
  <2>1. /\ upload' \in Upload /\ built' \in [Tables -> File] /\ build' \in 0 .. MaxRuns
        /\ folder' \in [Tables -> [DOMAIN Parts -> File]] /\ runs' \in 0 .. MaxRuns
    BY <1>2, UploadTyped
  <2>2. UNCHANGED <<seeder, csv, staged, cut, load, rows, loader, left, livy, sessions>>
    BY <1>2
  <2> QED BY <2>1, <2>2 DEF TablesTypeOK, Upload
<1>3. CASE LoadStep /\ UNCHANGED <<seedVars, uploadVars, livyVars>>
  <2>1. /\ loader' \in Loader /\ load' \in [1 .. MaxRuns -> [Tables -> Load]]
        /\ rows' \in [Tables -> [by: 0 .. MaxRuns, from: File]]
        /\ left' \subseteq (1 .. MaxRuns) \X Tables /\ runs' \in 0 .. MaxRuns
    BY <1>3, LoadTyped
  <2>2. UNCHANGED <<seeder, csv, staged, cut, built, build, folder, upload, livy, sessions>>
    BY <1>3
  <2> QED BY <2>1, <2>2 DEF TablesTypeOK, Loader, Load
<1>4. CASE LivyStep /\ UNCHANGED <<seedVars, uploadVars, loadVars>>
  BY <1>4, LivyTyped DEF TablesTypeOK, Livy
<1>5. CASE UNCHANGED tablesVars
  BY <1>5 DEF TablesTypeOK
<1> QED BY <1>1, <1>2, <1>3, <1>4, <1>5, ScriptFrames

-----------------------------------------------------------------------------
\* The tables: every script keeps its own conjunct, and the others' too.

LEMMA OneAtATimeStep ==
  ASSUME OneAtATime, [TablesNext]_tablesVars
  PROVE  OneAtATime'
PROOF
<1> USE DEF seedVars, uploadVars, loadVars, livyVars, tablesVars,
            Seeding, Uploading, Loading, InSession
<1>1. CASE SeedStep /\ UNCHANGED <<uploadVars, loadVars, livyVars>>
  <2>1. Seeding \/ NothingRuns
    BY <1>1 DEF SeedStep, RunSeed, WriteCsv, StageCsv, SeederStops
  <2> QED BY <1>1, <2>1 DEF OneAtATime, NothingRuns
<1>2. CASE UploadStep /\ UNCHANGED <<seedVars, loadVars, livyVars>>
  <2>1. Uploading \/ NothingRuns
    BY <1>2 DEF UploadStep, BuildTables, ReplaceFolder, CreateFile, WriteFile, UploadFails
  <2> QED BY <1>2, <2>1 DEF OneAtATime, NothingRuns
<1>3. CASE LoadStep /\ UNCHANGED <<seedVars, uploadVars, livyVars>>
  <2>1. Loading \/ NothingRuns \/ loader' = loader
    BY <1>3 DEF LoadStep, LoadTables, LoadCoreTables, RunLoader, PostLoad, WaitForOperation,
                CoreWait, WaitLoad, LoaderDies, ReadStaged, EndLoad
  <2> QED BY <1>3, <2>1 DEF OneAtATime, NothingRuns
<1>4. CASE LivyStep /\ UNCHANGED <<seedVars, uploadVars, loadVars>>
  <2>1. InSession \/ NothingRuns
    BY <1>4 DEF LivyStep, OpenSession, WaitSession, RunStatement, DeleteSession, LivyDies
  <2> QED BY <1>4, <2>1 DEF OneAtATime, NothingRuns
<1>5. CASE UNCHANGED tablesVars
  BY <1>5 DEF OneAtATime
<1> QED BY <1>1, <1>2, <1>3, <1>4, <1>5, ScriptFrames

\* While a script runs no other begins, so the number of runs stays.
LEMMA RunsStay ==
  ASSUME OneAtATime, [TablesNext]_tablesVars, Seeding \/ Uploading \/ Loading \/ InSession
  PROVE  runs' = runs
PROOF
<1>1. ~ NothingRuns
  BY DEF NothingRuns, Seeding, Uploading, Loading, InSession
<1> QED BY <1>1 DEF TablesNext, tablesVars, RunSeed, WriteCsv, StageCsv, SeederStops,
      BuildTables, ReplaceFolder, CreateFile, WriteFile, UploadFails, LoadTables,
      LoadCoreTables, RunLoader, PostLoad, WaitForOperation, CoreWait, WaitLoad, LoaderDies,
      ReadStaged, EndLoad, OpenSession, WaitSession, RunStatement, DeleteSession, LivyDies

LEMMA SeedKept ==
  ASSUME TablesTypeOK, OneAtATime, CsvKept, StagedKept, [TablesNext]_tablesVars
  PROVE  CsvKept' /\ StagedKept'
PROOF
<1> USE DEF seedVars, tablesVars
<1>1. /\ seeder \in Seeder /\ csv \in [Tables -> File] /\ staged \in [Tables -> File]
      /\ Tables = 1 .. TableCount /\ seeder.table \in Tables
      /\ NoFile = [run |-> 0, whole |-> FALSE] /\ TableCount \in Nat
  BY TablesAssumption DEF TablesTypeOK, Seeder, Tables, NoFile
<1>2. CASE UNCHANGED seedVars
  <2>1. seeder.pc = "write" => runs' = runs
    BY RunsStay DEF Seeding
  <2> QED BY <1>2, <2>1 DEF CsvKept, StagedKept, Alike, Written
<1>3. CASE RunSeed
  <2>1. /\ UNCHANGED <<csv, staged, cut>> /\ seeder.pc \in {"idle", "done"}
        /\ seeder'.pc = "write" /\ seeder'.table = 1
    BY <1>3 DEF RunSeed, NothingRuns, FreshSeeder
  <2> QED BY <2>1 DEF CsvKept, StagedKept, Alike
<1> DEFINE W == Written(runs, TRUE)
<1>w. W.whole = TRUE
  BY DEF Written
<1>t. PICK t \in Tables : t = seeder.table
  BY <1>1
<1>n. TableCount \in Nat /\ t \in 1 .. TableCount
  BY <1>1
<1>4. CASE WriteCsv
  <2>1. /\ UNCHANGED <<staged, cut, runs>> /\ seeder.pc = "write"
        /\ csv' = [csv EXCEPT ![t] = W] /\ W' = W
    BY <1>4, <1>t DEF WriteCsv
  <2>c. "csv" \notin cut => \A u \in 1 .. (t - 1) : csv[u] = W
    BY <1>t, <2>1 DEF CsvKept
  <2> HIDE DEF W
  <2>i. "csv" \notin cut => \A u \in 1 .. t : csv'[u] = W
    BY <1>1, <1>n, <2>1, <2>c
  <2>2. CASE t < TableCount
    <3>1. seeder'.pc = "write" /\ seeder'.table = t + 1
      BY <1>1, <1>4, <1>t, <2>2 DEF WriteCsv, Seeder
    <3>2. CsvKept'
      <4>1. (t + 1) - 1 = t
        BY <1>n
      <4> QED BY <2>1, <2>i, <3>1, <4>1 DEF CsvKept, W
    <3> QED BY <2>1, <3>1, <3>2 DEF StagedKept, Alike
  <2>3. CASE ~ (t < TableCount)
    <3>1. seeder'.table = 1 /\ seeder'.pc = IF seeder.uploads THEN "delete" ELSE "done"
      BY <1>1, <1>4, <1>t, <2>3 DEF WriteCsv, Seeder
    <3>2. seeder'.uploads = seeder.uploads /\ seeder.uploads \in BOOLEAN
      BY <1>1, <1>4, <1>t, <2>3 DEF WriteCsv, Seeder
    <3>3. CsvKept'
      <4>1. "csv" \notin cut => \A u \in Tables : csv'[u] = W
        BY <1>1, <1>n, <2>i, <2>3
      <4> QED BY <1>w, <2>1, <3>1, <4>1 DEF CsvKept, Alike
    <3>4. StagedKept'
      BY <2>1, <3>1, <3>2 DEF StagedKept, Alike
    <3> QED BY <3>3, <3>4
  <2> QED BY <2>2, <2>3
<1>5. CASE StageCsv
  <2>1. UNCHANGED <<csv, cut>> /\ seeder.pc \in {"delete", "create", "fill"}
    BY <1>5 DEF StageCsv
  <2>i. \A u \in 1 .. (t - 1) : staged[u] = csv[u]
    BY <1>t, <2>1 DEF StagedKept
  <2>s. \A u \in Tables \ {t} : staged'[u] = staged[u]
    BY <1>1, <1>t, <1>5 DEF StageCsv
  <2>2. CsvKept'
    <3>1. seeder'.pc # "write"
      BY <1>1, <1>5 DEF StageCsv, Seeder
    <3> QED BY <2>1, <3>1 DEF CsvKept, Alike
  <2>3. CASE seeder.pc # "fill"
    <3>1. seeder'.pc \in {"create", "fill"} /\ seeder'.table = t
      BY <1>1, <1>t, <1>5, <2>3 DEF StageCsv, Seeder
    <3>2. \A u \in 1 .. (t - 1) : staged'[u] = csv[u]
      BY <1>1, <1>n, <2>i, <2>s
    <3> QED BY <2>1, <2>2, <3>1, <3>2 DEF StagedKept
  <2>4. CASE seeder.pc = "fill"
    <3>1. staged' = [staged EXCEPT ![t] = csv[t]]
      BY <1>t, <1>5, <2>4 DEF StageCsv
    <3>2. \A u \in 1 .. t : staged'[u] = csv[u]
      BY <1>1, <1>n, <2>i, <3>1
    <3>3. CASE t < TableCount
      <4>1. seeder'.pc = "delete" /\ seeder'.table = t + 1
        BY <1>1, <1>t, <1>5, <2>4, <3>3 DEF StageCsv, Seeder
      <4>2. (t + 1) - 1 = t
        BY <1>n
      <4> QED BY <2>1, <2>2, <3>2, <4>1, <4>2 DEF StagedKept
    <3>4. CASE ~ (t < TableCount)
      <4>1. seeder'.pc = "done"
        BY <1>1, <1>t, <1>5, <2>4, <3>4 DEF StageCsv, Seeder
      <4>2. staged' = csv'
        <5>1. \A u \in Tables : staged'[u] = csv[u]
          BY <1>1, <1>n, <3>2, <3>4
        <5> QED BY <1>1, <2>1, <3>1, <5>1
      <4>3. cut' = {} => Alike(staged)'
        BY <2>1, <2>4, <4>2 DEF CsvKept, Alike
      <4> QED BY <2>2, <4>1, <4>2, <4>3 DEF StagedKept
    <3> QED BY <3>3, <3>4
  <2> QED BY <2>3, <2>4
<1>6. CASE SeederStops
  <2>1. seeder'.pc = "idle" /\ cut' # {} /\ (seeder.pc = "write" => "csv" \in cut')
    BY <1>6 DEF SeederStops, FreshSeeder
  <2>2. seeder.pc # "write" => csv' = csv
    BY <1>6 DEF SeederStops
  <2>3. cut \subseteq cut'
    BY <1>6 DEF SeederStops
  <2> QED BY <2>1, <2>2, <2>3 DEF CsvKept, StagedKept, Alike
<1> QED BY <1>2, <1>3, <1>4, <1>5, <1>6, ScriptFrames DEF SeedStep

\* What was stopped stays recorded.
LEMMA CutGrows ==
  ASSUME [TablesNext]_tablesVars
  PROVE  cut \subseteq cut' /\ left \subseteq left'
PROOF
<1> USE DEF seedVars, loadVars, tablesVars
<1>1. cut \subseteq cut'
  <2>1. SeedStep => cut \subseteq cut'
    BY DEF SeedStep, RunSeed, WriteCsv, StageCsv, SeederStops
  <2> QED BY <2>1, ScriptFrames
<1>2. left \subseteq left'
  <2>1. LoadStep => left \subseteq left'
    BY DEF LoadStep, LoadTables, LoadCoreTables, RunLoader, PostLoad, WaitForOperation,
           CoreWait, WaitLoad, LoaderDies, ReadStaged, EndLoad, LeaveRunning
  <2> QED BY <2>1, ScriptFrames
<1> QED BY <1>1, <1>2

LEMMA BuiltKeptStep ==
  ASSUME CsvKept, BuiltKept, [TablesNext]_tablesVars
  PROVE  BuiltKept'
PROOF
<1> USE CutGrows DEF uploadVars, tablesVars
<1>1. CASE UNCHANGED uploadVars
  BY <1>1 DEF BuiltKept
<1>2. CASE BuildTables
  <2>1. CASE \A t \in Tables : csv[t] # NoFile
    <3>1. /\ built' = csv /\ UNCHANGED cut /\ seeder.pc # "write"
      BY <1>2, <2>1 DEF BuildTables, NothingRuns, seedVars
    <3> QED BY <2>1, <3>1 DEF BuiltKept, CsvKept, Alike
  <2>2. CASE ~ \A t \in Tables : csv[t] # NoFile
    <3>1. upload'.pc = "idle"
      BY <1>2, <2>2 DEF BuildTables, FreshUpload
    <3> QED BY <3>1 DEF BuiltKept
  <2> QED BY <2>1, <2>2
<1>3. CASE ReplaceFolder \/ CreateFile \/ WriteFile \/ UploadFails
  <2>1. built' = built /\ upload.pc # "idle"
    BY <1>3 DEF ReplaceFolder, CreateFile, WriteFile, UploadFails
  <2> QED BY <2>1 DEF BuiltKept
<1> QED BY <1>1, <1>2, <1>3, ScriptFrames DEF UploadStep

\* A file that is filled is of the same run.
LEMMA Filled ==
  ASSUME NEW r, NEW w, NEW v
  PROVE  [[run |-> r, whole |-> w] EXCEPT !.whole = v] = [run |-> r, whole |-> v]
PROOF OBVIOUS

LEMMA FolderKeptStep ==
  ASSUME TablesTypeOK, FolderKept, [TablesNext]_tablesVars
  PROVE  FolderKept'
PROOF
<1> USE DEF uploadVars, tablesVars, Uploading
<1>1. /\ upload \in Upload /\ folder \in [Tables -> [DOMAIN Parts -> File]]
      /\ TableCount \in Nat /\ Tables = 1 .. TableCount
      /\ DOMAIN Parts = {1, 2} /\ Len(Parts) = 2
  BY FreshScripts, TablesAssumption DEF TablesTypeOK, Upload, Tables, Parts
<1>2. PICK t \in Tables, p \in {1, 2} : t = upload.table /\ p = upload.part
  BY <1>1 DEF Upload
<1>n. t \in 1 .. TableCount
  BY <1>1
<1> DEFINE W == Written(build, TRUE)
           F == Written(build, FALSE)
<1>w. W.run = build /\ F.run = build
  BY DEF Written
<1>v. [F EXCEPT !.whole = TRUE] = W
  BY Filled, Zenon DEF Written
<1>3. CASE UNCHANGED uploadVars
  BY <1>3 DEF FolderKept, FolderUnmixed, Replaced
<1>4. CASE BuildTables
  <2>1. folder' = folder /\ upload'.pc \in {"idle", "delete"} /\ upload'.table = 1
    BY <1>4 DEF BuildTables, FreshUpload
  <2>2. FolderUnmixed' /\ 1 .. (1 - 1) = {}
    BY <2>1 DEF FolderKept, FolderUnmixed
  <2> QED BY <2>1, <2>2 DEF FolderKept
<1>5. ASSUME build' = build, \A u \in Tables \ {t} : folder'[u] = folder[u],
             Uploading, NEW f \in {folder'[t]},
             \A q, r \in {1, 2} : f[q] # NoFile /\ f[r] # NoFile => f[q].run = f[r].run
      PROVE  /\ FolderUnmixed' /\ \A u \in 1 .. (t - 1) : Replaced(u)'
  <2>1. FolderUnmixed'
    BY <1>1, <1>5 DEF FolderKept, FolderUnmixed
  <2>2. ASSUME NEW u \in 1 .. (t - 1) PROVE Replaced(u)'
    <3>1. u \in Tables /\ u # t
      BY <1>1, <1>n
    <3>2. Replaced(u)
      BY <1>2, <1>5 DEF FolderKept
    <3> QED BY <1>5, <3>1, <3>2 DEF Replaced
  <2> QED BY <2>1, <2>2
<1>6. CASE ReplaceFolder
  <2>1. /\ folder' = [folder EXCEPT ![t] = NoFiles] /\ build' = build
        /\ upload.pc = "delete" /\ upload'.pc = "create" /\ upload'.part = 1 /\ upload'.table = t
    BY <1>1, <1>2, <1>6 DEF ReplaceFolder, Upload
  <2>2. /\ folder'[t] = NoFiles /\ \A q \in {1, 2} : NoFiles[q] = NoFile
        /\ \A u \in Tables \ {t} : folder'[u] = folder[u]
    BY <1>1, <2>1 DEF NoFiles
  <2>3. FolderUnmixed' /\ \A u \in 1 .. (t - 1) : Replaced(u)'
    BY <1>5, <2>1, <2>2
  <2>4. \A q \in DOMAIN Parts : ~ (q < 1) /\ folder'[t][q] = NoFile
    BY <1>1, <2>2
  <2>5. folder'[t][1] = NoFile
    BY <2>2
  <2> QED BY <2>1, <2>3, <2>4, <2>5 DEF FolderKept
<1>7. CASE CreateFile
  <2>1. /\ folder' = [folder EXCEPT ![t][p] = F] /\ build' = build
        /\ upload.pc = "create" /\ upload'.pc = "write" /\ upload'.part = p /\ upload'.table = t
    BY <1>1, <1>2, <1>7 DEF CreateFile, Upload
  <2>2. /\ folder'[t][p] = F
        /\ \A q \in {1, 2} \ {p} : folder'[t][q] = folder[t][q]
        /\ \A u \in Tables \ {t} : folder'[u] = folder[u]
    <3> HIDE DEF F
    <3>1. folder[t] \in [{1, 2} -> File]
      BY <1>1
    <3> QED BY <1>1, <2>1, <3>1
  <2>3. /\ \A q \in {1, 2} : /\ q < p => folder[t][q] = W
                             /\ q > p => folder[t][q] = NoFile
    BY <1>1, <1>2, <2>1 DEF FolderKept
  <2>4. \A q \in {1, 2} : folder'[t][q] # NoFile => folder'[t][q].run = build
    <3> HIDE DEF W, F
    <3> QED BY <1>w, <2>2, <2>3
  <2>5. FolderUnmixed' /\ \A u \in 1 .. (t - 1) : Replaced(u)'
    BY <1>5, <2>1, <2>2, <2>4
  <2>6. \A q \in DOMAIN Parts : /\ q < p => folder'[t][q] = W
                                /\ q > p => folder'[t][q] = NoFile
    <3> HIDE DEF W, F
    <3> QED BY <1>1, <2>1, <2>2, <2>3
  <2> QED BY <2>1, <2>2, <2>5, <2>6 DEF FolderKept
<1>8. CASE WriteFile
  <2>1. /\ folder' = [folder EXCEPT ![t][p].whole = TRUE] /\ build' = build
        /\ upload.pc = "write"
    BY <1>2, <1>8 DEF WriteFile
  <2>2. folder[t][p] = F
    BY <1>2, <2>1 DEF FolderKept
  <2>3. /\ folder'[t][p] = W
        /\ \A q \in {1, 2} \ {p} : folder'[t][q] = folder[t][q]
        /\ \A u \in Tables \ {t} : folder'[u] = folder[u]
    <3> DEFINE w == [folder[t][p] EXCEPT !.whole = TRUE]
    <3>1. folder' = [folder EXCEPT ![t] = [folder[t] EXCEPT ![p] = w]]
      BY <2>1, Zenon
    <3>2. w = W
      BY <1>v, <2>2, Zenon
    <3> HIDE DEF w
    <3>3. folder[t] \in [{1, 2} -> File]
      BY <1>1
    <3> QED BY <1>1, <3>1, <3>2, <3>3
  <2>4. \A q \in {1, 2} : /\ q < p => folder[t][q] = W
                          /\ q > p => folder[t][q] = NoFile
    BY <1>1, <1>2, <2>1 DEF FolderKept
  <2>5. \A q \in {1, 2} : folder'[t][q] # NoFile => folder'[t][q].run = build
    <3> HIDE DEF W, F
    <3> QED BY <1>w, <2>3, <2>4
  <2>6. FolderUnmixed' /\ \A u \in 1 .. (t - 1) : Replaced(u)'
    BY <1>5, <2>1, <2>3, <2>5
  <2>7. p = 2 => Replaced(t)'
    <3>1. p = 2 => \A q \in {1, 2} : folder'[t][q] = W
      <4> HIDE DEF W, F
      <4> QED BY <2>3, <2>4
    <3> QED BY <1>1, <2>1, <3>1 DEF Replaced
  <2>8. CASE p < 2
    <3>1. upload'.pc = "create" /\ upload'.part = 2 /\ upload'.table = t /\ p = 1
      BY <1>1, <1>2, <1>8, <2>8 DEF WriteFile, Upload
    <3>2. folder'[t][1] = W /\ folder'[t][2] = NoFile
      <4> HIDE DEF W, F
      <4> QED BY <2>3, <2>4, <3>1
    <3>3. \A q \in DOMAIN Parts : /\ q < 2 => folder'[t][q] = W
                                  /\ q > 2 => folder'[t][q] = NoFile
      <4> HIDE DEF W, F
      <4> QED BY <1>1, <3>2
    <3>4. folder'[t][2] = NoFile
      BY <3>2
    <3> QED BY <2>1, <2>6, <3>1, <3>3, <3>4 DEF FolderKept
  <2>9. CASE p = 2 /\ t < TableCount
    <3>1. upload'.pc = "delete" /\ upload'.table = t + 1
      BY <1>1, <1>2, <1>8, <2>9 DEF WriteFile, Upload
    <3>2. \A u \in 1 .. ((t + 1) - 1) : u = t \/ u \in 1 .. (t - 1)
      BY <1>n, <1>1
    <3>3. \A u \in 1 .. ((t + 1) - 1) : Replaced(u)'
      BY <2>6, <2>7, <2>9, <3>2
    <3> QED BY <2>6, <3>1, <3>3 DEF FolderKept
  <2>10. CASE p = 2 /\ ~ (t < TableCount)
    <3>1. upload'.pc = "done"
      BY <1>1, <1>2, <1>8, <2>10 DEF WriteFile, Upload
    <3>2. \A u \in Tables : u = t \/ u \in 1 .. (t - 1)
      BY <1>n, <1>1, <2>10
    <3>3. \A u \in Tables : Replaced(u)'
      BY <2>6, <2>7, <2>10, <3>2
    <3> QED BY <2>6, <3>1, <3>3 DEF FolderKept
  <2> QED BY <2>8, <2>9, <2>10
<1>9. CASE UploadFails
  <2>1. folder' = folder /\ upload'.pc = "idle"
    BY <1>9 DEF UploadFails, FreshUpload
  <2> QED BY <2>1 DEF FolderKept, FolderUnmixed
<1> QED BY <1>3, <1>4, <1>6, <1>7, <1>8, <1>9, ScriptFrames DEF UploadStep

\* A load script that goes on, or ends by itself, keeps its run.
LEMMA LoaderKeepsRun ==
  ASSUME loader \in Loader, PostLoad \/ WaitForOperation \/ CoreWait \/ LoaderDies,
         Loading' \/ Ended'
  PROVE  loader'.run = loader.run
PROOF
<1>1. ASSUME NEW l \in Loader, loader' = NextTable(l), l.run = loader.run
      PROVE  loader'.run = loader.run
  BY <1>1, NextTableIs DEF Loader
<1>2. loader.table \in Tables
  BY DEF Loader
<1>3. CASE LoadFailed
  <2> DEFINE l == [loader EXCEPT !.failed = @ \union {loader.table}]
  <2>1. l \in Loader /\ l.run = loader.run
    BY <1>2 DEF Loader
  <2>2. ~ loader.strict
    BY <1>3 DEF LoadFailed, FreshLoader, Loading, Ended
  <2>3. loader' = NextTable(l)
    BY <1>3, <2>2 DEF LoadFailed
  <2> HIDE DEF l
  <2> QED BY <1>1, <2>1, <2>3
<1>4. CASE Loaded
  <2> DEFINE l == [loader EXCEPT !.ok = @ \union {loader.table}]
  <2>1. l \in Loader /\ l.run = loader.run /\ loader' = NextTable(l)
    BY <1>2, <1>4 DEF Loader, Loaded
  <2> HIDE DEF l
  <2> QED BY <1>1, <2>1
<1>5. CASE PostLoad
  <2> DEFINE l == [loader EXCEPT !.ok = @ \union {loader.table},
                                 !.unseen = @ \union {loader.table}]
  <2>1. l \in Loader /\ l.run = loader.run
    BY <1>2 DEF Loader
  <2>2. loader' = [loader EXCEPT !.pc = "wait"] => loader'.run = loader.run
    BY DEF Loader
  <2>3. loader' = [loader EXCEPT !.pc = "wait"] \/ loader' = NextTable(l) \/ LoadFailed
    BY <1>5 DEF PostLoad
  <2> HIDE DEF l
  <2> QED BY <1>1, <1>3, <2>1, <2>2, <2>3
<1>6. ASSUME NEW strict, WaitLoad(strict) PROVE loader'.run = loader.run
  <2>1. loader' = [loader EXCEPT !.waits = @ + 1] => loader'.run = loader.run
    BY DEF Loader
  <2> QED BY <1>3, <1>4, <1>6, <2>1 DEF WaitLoad
<1>7. ~ LoaderDies
  BY DEF LoaderDies, FreshLoader, Loading, Ended
<1> QED BY <1>5, <1>6, <1>7 DEF WaitForOperation, CoreWait

\* The script goes on to the next table, or ends having answered for every one.
LEMMA LoaderGoesOn ==
  ASSUME TablesTypeOK, OneAtATime, StagedKept, LoadsKept, Loading,
         UNCHANGED <<staged, cut, runs>>,
         NEW t \in Tables, t = loader.table, NEW l \in Loader, loader' = NextTable(l),
         l.table = t, l.run = loader.run,
         l.ok \union l.failed = (loader.ok \union loader.failed) \union {t},
         Loading' \/ Ended' => \A u \in Tables : Own(u)',
         \A u \in l.ok \ l.unseen : load'[l.run][u].state = "done"
  PROVE  LoadsKept'
PROOF
<1>1. /\ loader'.ok = l.ok /\ loader'.failed = l.failed /\ loader'.unseen = l.unseen
      /\ loader'.run = loader.run
      /\ t < TableCount => loader'.pc = "post" /\ loader'.table = t + 1
      /\ ~ (t < TableCount) => loader'.pc = "done" /\ t = TableCount
  BY NextTableIs DEF Loader
<1>2. t \in 1 .. TableCount /\ TableCount \in Nat /\ Tables = 1 .. TableCount
  BY TablesAssumption DEF Tables
<1>3. l.ok \union l.failed = 1 .. t
  <2>1. loader.ok \union loader.failed = 1 .. (t - 1)
    BY DEF LoadsKept
  <2>2. 1 .. t = (1 .. (t - 1)) \union {t}
    BY <1>2
  <2> QED BY <2>1, <2>2
<1>4. Watched' = l.ok \ l.unseen
  BY <1>1 DEF Watched
<1>5. loader'.run \in 1 .. MaxRuns /\ loader'.run = runs'
  BY <1>1 DEF LoadsKept
<1>6. \A u \in Watched' : load'[loader'.run][u].state = "done"
  BY <1>1, <1>4
<1>o. \A u \in Tables : Own(u)'
  BY <1>1 DEF Loading, Ended
<1>7. CASE t < TableCount
  <2>1. (t + 1) - 1 = t
    BY <1>2
  <2> QED BY <1>1, <1>3, <1>5, <1>6, <1>7, <1>o, <2>1 DEF LoadsKept, Loading, Ended
<1>8. CASE ~ (t < TableCount)
  <2>1. loader'.ok \union loader'.failed = Tables
    BY <1>1, <1>2, <1>3, <1>8
  <2>2. \A u \in Watched' : u \in Tables
    BY <2>1 DEF Watched
  <2>3. \A u \in Watched' : \/ rows'[u].by = loader'.run /\ rows'[u].from = staged[u]
                            \/ Older(u)' /\ rows'[u].by # loader'.run
    <3> SUFFICES ASSUME NEW u \in Watched'
                 PROVE  \/ rows'[u].by = loader'.run /\ rows'[u].from = staged[u]
                        \/ Older(u)' /\ rows'[u].by # loader'.run
      OBVIOUS
    <3>1. Own(u)' /\ load'[loader'.run][u].state = "done"
      BY <1>6, <1>o, <2>2
    <3>2. Older(u)' => rows'[u].by # loader'.run
      BY <1>5 DEF Older
    <3> QED BY <3>1, <3>2 DEF Own
  <2>4. cut' = {} => \A u, v \in Tables : staged[u] = staged[v]
    <3>1. cut = {} => Alike(staged)
      BY DEF OneAtATime, Seeding, StagedKept, TablesTypeOK
    <3> QED BY <3>1 DEF Alike
  <2>5. cut' = {} => \A u, v \in Watched' :
          rows'[u].by = loader'.run /\ rows'[v].by = loader'.run => rows'[u].from = rows'[v].from
    BY <2>2, <2>3, <2>4
  <2>6. \A u \in Watched' : rows'[u].by = loader'.run \/ Older(u)'
    BY <2>3
  <2> QED BY <1>1, <1>5, <1>6, <1>8, <2>1, <2>5, <2>6 DEF LoadsKept, Loading, Ended
<1> QED BY <1>7, <1>8

\* What a script has loaded is kept while neither its operations nor the rows move.
LEMMA OwnStays ==
  ASSUME NEW u \in Tables, Own(u), loader'.run = loader.run, UNCHANGED <<staged, rows>>,
         left \subseteq left',
         \/ load'[loader.run][u] = load[loader.run][u]
         \/ load'[loader.run][u].state = "posted"
  PROVE  Own(u)'
PROOF
<1>1. Older(u) => Older(u)'
  BY DEF Older
<1> QED BY <1>1 DEF Own

\* While a load script runs, what is staged is staged.
LEMMA StagedStays ==
  ASSUME OneAtATime, [TablesNext]_tablesVars, Loading
  PROVE  staged' = staged /\ cut' = cut
PROOF
<1> USE DEF seedVars, tablesVars
<1>1. ~ Seeding /\ ~ NothingRuns
  BY DEF OneAtATime, NothingRuns, Loading
<1>2. ~ SeedStep
  BY <1>1 DEF SeedStep, RunSeed, WriteCsv, StageCsv, SeederStops, Seeding
<1> QED BY <1>2, ScriptFrames

LEMMA LoadsKeptStep ==
  ASSUME TablesTypeOK, OneAtATime, StagedKept, LoadsKept, LoadsNumbered, LoadsLeft,
         [TablesNext]_tablesVars
  PROVE  LoadsKept'
PROOF
<1> USE DEF loadVars, tablesVars
<1>1. /\ loader \in Loader /\ load \in [1 .. MaxRuns -> [Tables -> Load]]
      /\ staged \in [Tables -> File] /\ rows \in [Tables -> [by: 0 .. MaxRuns, from: File]]
      /\ TableCount \in Nat /\ Tables = 1 .. TableCount /\ runs \in Nat /\ MaxRuns \in Nat
  BY TablesAssumption DEF TablesTypeOK, Loader, Load, Tables
<1>2. PICK t \in Tables : t = loader.table
  BY <1>1 DEF Loader
<1>3. t \in 1 .. TableCount
  BY <1>1
<1>4. Loading => /\ t \notin Watched /\ Watched \subseteq Tables
                 /\ loader.run \in 1 .. MaxRuns /\ loader.run = runs
                 /\ \A u \in Watched : load[loader.run][u].state = "done"
                 /\ \A u \in Tables : Own(u)
  BY <1>1, <1>2, <1>3 DEF LoadsKept, Watched, Loader
<1>c. cut \subseteq cut' /\ left \subseteq left'
  BY CutGrows
<1>l. Loading => UNCHANGED <<staged, cut, runs>>
  BY StagedStays, RunsStay
<1>5. CASE UNCHANGED loadVars
  <2>1. /\ Watched' = Watched /\ Loading' = Loading /\ Ended' = Ended
        /\ \A u \in Tables : Older(u) => Older(u)'
    BY <1>5 DEF Watched, Loading, Ended, Older
  <2>2. Loading => \A u \in Tables : Own(u)'
    BY <1>4, <1>5, <1>l, OwnStays
  <2>3. CASE Loading
    <3>1. ~ Ended
      BY <2>3 DEF Loading, Ended
    <3> QED BY <1>5, <1>l, <2>1, <2>2, <2>3, <3>1 DEF LoadsKept
  <2>4. CASE ~ Loading
    <3>1. Ended => Watched \subseteq Tables
      BY DEF LoadsKept, Watched
    <3> QED BY <1>5, <1>c, <2>1, <2>4, <3>1 DEF LoadsKept
  <2> QED BY <2>3, <2>4
<1>6. ASSUME NEW strict, RunLoader(strict) PROVE LoadsKept'
  <2>1. /\ loader'.pc = "post" /\ loader'.table = 1 /\ loader'.ok = {} /\ loader'.failed = {}
        /\ loader'.run = runs' /\ runs' = runs + 1 /\ runs < MaxRuns /\ load' = StillRunning
    BY <1>6 DEF RunLoader, FreshLoader, NothingRuns
  <2>2. 1 .. (1 - 1) = {} /\ Watched' = {} /\ runs' \in 1 .. MaxRuns
    BY <1>1, <2>1 DEF Watched
  <2>3. ASSUME NEW u \in Tables PROVE Own(u)'
    <3>1. load[runs'][u].state = "none"
      BY <1>1, <2>1, <2>2 DEF LoadsNumbered
    <3>2. load'[runs'][u].state = "none"
      <4>1. load'[runs'][u] = IF Runs(load[runs'][u]) THEN load[runs'][u]
                              ELSE Operation("none", NoFile)
        BY <2>1, <2>2 DEF StillRunning
      <4> QED BY <3>1, <4>1 DEF Runs, Operation
    <3> QED BY <2>1, <3>2 DEF Own
  <2> QED BY <2>1, <2>2, <2>3 DEF LoadsKept, Loading, Ended
<1>7. ASSUME LoadFailed, Loading, Loading' \/ Ended' => \A u \in Tables : Own(u)',
             \A u \in Watched : load'[loader.run][u] = load[loader.run][u]
      PROVE  LoadsKept'
  <2>1. CASE loader.strict
    <3>1. loader'.pc = "idle"
      BY <1>7, <2>1 DEF LoadFailed, FreshLoader
    <3> QED BY <3>1 DEF LoadsKept, Loading, Ended
  <2>2. CASE ~ loader.strict
    <3> DEFINE l == [loader EXCEPT !.failed = @ \union {loader.table}]
    <3>1. loader' = NextTable(l)
      BY <1>7, <2>2 DEF LoadFailed
    <3>2. /\ l \in Loader /\ l.table = t /\ l.ok = loader.ok /\ l.unseen = loader.unseen
          /\ l.failed = loader.failed \union {t} /\ l.run = loader.run
      BY <1>1, <1>2 DEF Loader
    <3> HIDE DEF l
    <3>3. l.ok \union l.failed = (loader.ok \union loader.failed) \union {t}
      BY <3>2
    <3>4. \A u \in l.ok \ l.unseen : load'[l.run][u].state = "done"
      BY <1>4, <1>7, <3>2 DEF Watched
    <3> QED BY <1>2, <1>7, <1>l, <3>1, <3>2, <3>3, <3>4, LoaderGoesOn
  <2> QED BY <2>1, <2>2
<1>8. CASE PostLoad
  <2>1. loader.pc = "post" /\ Loading /\ UNCHANGED rows
    BY <1>8 DEF PostLoad, Loading
  <2> DEFINE begun == Operation("posted", NoFile)
             done  == [loader EXCEPT !.ok = @ \union {loader.table},
                                     !.unseen = @ \union {loader.table}]
  <2>2. \/ LoadFailed /\ load' = load
        \/ /\ load' = [load EXCEPT ![loader.run][t] = begun]
           /\ \/ loader' = [loader EXCEPT !.pc = "wait"]
              \/ loader' = NextTable(done)
              \/ LoadFailed
    BY <1>2, <1>8 DEF PostLoad
  <2>3. /\ \A u \in Tables \ {t} : load'[loader.run][u] = load[loader.run][u]
        /\ load'[loader.run][t] \in {load[loader.run][t], begun}
    <3> HIDE DEF begun, done
    <3>1. CASE load' = load
      BY <3>1
    <3>2. CASE load' = [load EXCEPT ![loader.run][t] = begun]
      BY <1>1, <1>4, <2>1, <3>2
    <3> QED BY <2>2, <3>1, <3>2
  <2>4. \A u \in Watched : load'[loader.run][u] = load[loader.run][u]
    BY <1>4, <2>1, <2>3
  <2>5. ASSUME Loading' \/ Ended' PROVE \A u \in Tables : Own(u)'
    <3>1. begun.state = "posted"
      BY DEF Operation
    <3>2. loader'.run = loader.run
      BY <1>1, <1>8, <2>5, LoaderKeepsRun
    <3> HIDE DEF begun, done
    <3> QED BY <1>4, <1>c, <1>l, <2>1, <2>3, <3>1, <3>2, OwnStays
  <2>6. CASE LoadFailed
    BY <1>7, <2>1, <2>4, <2>5, <2>6
  <2>7. CASE loader' = [loader EXCEPT !.pc = "wait"]
    <3>1. /\ loader'.pc = "wait" /\ loader'.table = t /\ loader'.ok = loader.ok
          /\ loader'.failed = loader.failed /\ loader'.unseen = loader.unseen
          /\ loader'.run = loader.run
      BY <1>1, <1>2, <2>7 DEF Loader
    <3>2. Watched' = Watched
      BY <3>1 DEF Watched
    <3> HIDE DEF begun
    <3> QED BY <1>2, <1>4, <1>l, <2>1, <2>4, <2>5, <3>1, <3>2 DEF LoadsKept, Loading, Ended
  <2>8. CASE loader' = NextTable(done)
    <3>1. /\ done \in Loader /\ done.table = t /\ done.ok = loader.ok \union {t}
          /\ done.unseen = loader.unseen \union {t} /\ done.failed = loader.failed
          /\ done.run = loader.run
      BY <1>1, <1>2 DEF Loader
    <3> HIDE DEF done
    <3>2. done.ok \union done.failed = (loader.ok \union loader.failed) \union {t}
      BY <3>1
    <3>3. \A u \in done.ok \ done.unseen : load'[done.run][u].state = "done"
      BY <1>4, <2>1, <2>4, <3>1 DEF Watched
    <3> QED BY <1>2, <1>l, <2>1, <2>5, <2>8, <3>1, <3>2, <3>3, LoaderGoesOn
  <2> QED BY <2>2, <2>6, <2>7, <2>8
<1>9. ASSUME NEW strict \in BOOLEAN, WaitLoad(strict) PROVE LoadsKept'
  <2>1. /\ loader.pc = "wait" /\ Loading /\ UNCHANGED <<load, rows>>
    BY <1>9 DEF WaitLoad, Loading
  <2>2. ASSUME Loading' \/ Ended' PROVE \A u \in Tables : Own(u)'
    <3>1. loader'.run = loader.run
      BY <1>1, <1>9, <2>2, LoaderKeepsRun DEF WaitForOperation, CoreWait
    <3> QED BY <1>4, <1>c, <1>l, <2>1, <3>1, OwnStays
  <2>3. CASE LoadFailed
    BY <1>7, <2>1, <2>2, <2>3
  <2>4. CASE loader' = [loader EXCEPT !.waits = @ + 1]
    <3>1. /\ loader'.pc = "wait" /\ loader'.table = loader.table /\ loader'.ok = loader.ok
          /\ loader'.failed = loader.failed /\ loader'.unseen = loader.unseen
          /\ loader'.run = loader.run
      BY <1>1, <2>1, <2>4 DEF Loader
    <3>2. Watched' = Watched
      BY <3>1 DEF Watched
    <3> QED BY <1>4, <1>l, <2>1, <2>2, <3>1, <3>2 DEF LoadsKept, Loading, Ended
  <2>5. CASE Polled.state = "done" /\ Loaded
    <3> DEFINE l == [loader EXCEPT !.ok = @ \union {loader.table}]
    <3>1. loader' = NextTable(l)
      BY <2>5 DEF Loaded
    <3>2. /\ l \in Loader /\ l.table = t /\ l.ok = loader.ok \union {t}
          /\ l.unseen = loader.unseen /\ l.failed = loader.failed /\ l.run = loader.run
      BY <1>1, <1>2 DEF Loader
    <3> HIDE DEF l
    <3>3. l.ok \union l.failed = (loader.ok \union loader.failed) \union {t}
      BY <3>2
    <3>4. load[loader.run][t].state = "done"
      BY <1>2, <2>5 DEF Polled
    <3>5. \A u \in l.ok \ l.unseen : load'[l.run][u].state = "done"
      BY <1>4, <2>1, <3>2, <3>4 DEF Watched
    <3> QED BY <1>2, <1>l, <2>1, <2>2, <3>1, <3>2, <3>3, <3>5, LoaderGoesOn
  <2> QED BY <1>9, <2>3, <2>4, <2>5 DEF WaitLoad
<1>10. CASE ReadStaged
  <2>1. PICK q \in 1 .. MaxRuns, u \in Tables :
          /\ load[q][u].state = "posted"
          /\ load' = [load EXCEPT ![q][u] = Operation("read", staged[u])]
    BY <1>10 DEF ReadStaged
  <2>2. UNCHANGED <<loader, rows, left, staged, cut, runs>>
    BY <1>10 DEF ReadStaged, seedVars
  <2> DEFINE op == Operation("read", staged[u])
  <2>o. op.state = "read" /\ op.from = staged[u]
    BY DEF Operation
  <2> HIDE DEF op
  <2>3. ASSUME NEW p \in 1 .. MaxRuns, NEW v \in Tables
        PROVE  load'[p][v] = IF p = q /\ v = u THEN op ELSE load[p][v]
    BY <1>1, <2>1 DEF op
  <2>4. Watched' = Watched /\ Loading' = Loading /\ Ended' = Ended
    BY <2>2 DEF Watched, Loading, Ended
  <2>5. Loading \/ Ended => \A v \in Watched : load'[loader.run][v].state = "done"
    <3>1. Loading \/ Ended => Watched \subseteq Tables
      BY <1>4 DEF LoadsKept, Watched
    <3> QED BY <2>1, <2>3, <3>1 DEF LoadsKept
  <2>6. Loading => \A v \in Tables : Own(v)'
    <3> SUFFICES ASSUME Loading, NEW v \in Tables PROVE Own(v)'
      OBVIOUS
    <3>1. CASE q = loader.run /\ v = u
      BY <1>4, <2>2, <2>3, <2>o, <3>1 DEF Own
    <3>2. CASE ~ (q = loader.run /\ v = u)
      <4>1. load'[loader.run][v] = load[loader.run][v]
        BY <1>4, <2>3, <3>2
      <4> QED BY <1>4, <2>2, <4>1, OwnStays
    <3> QED BY <3>1, <3>2
  <2> QED BY <2>2, <2>4, <2>5, <2>6 DEF LoadsKept, Older
<1>11. CASE EndLoad
  <2>1. PICK q \in 1 .. MaxRuns, u \in Tables :
          \/ /\ load[q][u].state = "read"
             /\ rows' = [rows EXCEPT ![u] = [by |-> q, from |-> load[q][u].from]]
             /\ load' = [load EXCEPT ![q][u] = Operation("done", NoFile)]
          \/ /\ Runs(load[q][u])
             /\ load' = [load EXCEPT ![q][u] = Operation("failed", NoFile)]
             /\ UNCHANGED rows
    BY <1>11 DEF EndLoad
  <2>2. UNCHANGED <<loader, left, staged, cut, runs>>
    BY <1>11 DEF EndLoad, seedVars
  <2>3. /\ Runs(load[q][u]) /\ load[q][u].state # "done" /\ load[q][u].state # "none"
        /\ load'[q][u].state \in {"done", "failed"}
        /\ \A p \in 1 .. MaxRuns, v \in Tables : p # q \/ v # u => load'[p][v] = load[p][v]
        /\ \A v \in Tables \ {u} : rows'[v] = rows[v]
        /\ \/ /\ load[q][u].state = "read"
              /\ rows'[u].by = q /\ rows'[u].from = load[q][u].from
           \/ rows'[u] = rows[u] /\ load'[q][u].state # "done"
    <3>1. /\ \A f : Operation("done", f).state = "done"
          /\ \A f : Operation("failed", f).state = "failed"
      BY DEF Operation
    <3>2. CASE /\ load[q][u].state = "read"
               /\ rows' = [rows EXCEPT ![u] = [by |-> q, from |-> load[q][u].from]]
               /\ load' = [load EXCEPT ![q][u] = Operation("done", NoFile)]
      BY <1>1, <3>1, <3>2 DEF Runs
    <3>3. CASE /\ Runs(load[q][u])
               /\ load' = [load EXCEPT ![q][u] = Operation("failed", NoFile)]
               /\ UNCHANGED rows
      BY <1>1, <3>1, <3>3 DEF Runs
    <3> QED BY <2>1, <3>2, <3>3
  <2>4. Watched' = Watched /\ Loading' = Loading /\ Ended' = Ended
    BY <2>2 DEF Watched, Loading, Ended
  <2>w. Loading \/ Ended => /\ Watched \subseteq Tables /\ loader.run \in 1 .. MaxRuns
                            /\ \A v \in Watched : load[loader.run][v].state = "done"
    BY <1>4 DEF LoadsKept, Watched
  <2>5. Loading \/ Ended => \A v \in Watched : load'[loader.run][v].state = "done"
    BY <2>3, <2>w
  <2>6. (Loading \/ Ended) /\ q # loader.run /\ rows'[u] # rows[u] => Older(u)'
    <3> SUFFICES ASSUME Loading \/ Ended, q # loader.run, rows'[u] # rows[u] PROVE Older(u)'
      OBVIOUS
    <3>1. <<q, u>> \in left
      BY <2>3 DEF LoadsLeft
    <3>2. q <= loader.run
      BY <1>4, <2>3 DEF LoadsNumbered
    <3>3. q \in 1 .. loader.run - 1
      BY <1>1, <2>w, <3>2 DEF Loader
    <3> QED BY <2>2, <2>3, <3>1, <3>3 DEF Older
  <2>7. Loading => \A v \in Tables : Own(v)'
    <3> SUFFICES ASSUME Loading, NEW v \in Tables PROVE Own(v)'
      OBVIOUS
    <3>0. loader'.run = loader.run /\ loader.run \in 1 .. MaxRuns /\ staged' = staged /\ Own(v)
      BY <1>4, <2>2
    <3>1. CASE v # u
      <4>1. load'[loader.run][v] = load[loader.run][v] /\ rows'[v] = rows[v]
        BY <2>3, <3>0, <3>1
      <4> QED BY <2>2, <3>0, <4>1 DEF Own, Older
    <3>2. CASE v = u /\ q = loader.run
      BY <2>3, <3>0, <3>2 DEF Own
    <3>3. CASE v = u /\ q # loader.run
      <4>1. load'[loader.run][v] = load[loader.run][v]
        BY <2>3, <3>0, <3>3
      <4>2. rows'[v] # rows[v] => Older(v)'
        BY <2>6, <3>3
      <4>3. rows'[v] = rows[v] /\ Older(v) => Older(v)'
        BY <2>2 DEF Older
      <4> QED BY <3>0, <4>1, <4>2, <4>3 DEF Own
    <3> QED BY <3>1, <3>2, <3>3
  <2>8. Ended => \A v \in Watched : \/ rows'[v] = rows[v]
                                    \/ Older(v)' /\ rows'[v].by # loader.run
    <3> SUFFICES ASSUME Ended, NEW v \in Watched, rows'[v] # rows[v]
                 PROVE  Older(v)' /\ rows'[v].by # loader.run
      OBVIOUS
    <3>1. v = u /\ v \in Tables
      BY <2>3, <2>w
    <3>2. q # loader.run
      BY <2>3, <2>w, <3>1
    <3>3. rows'[v].by = q
      BY <2>3, <3>1
    <3> QED BY <2>6, <3>1, <3>2, <3>3
  <2>9. Ended => \A v \in Watched : rows'[v].by = loader.run \/ Older(v)'
    <3>1. ASSUME NEW v, rows'[v] = rows[v], Older(v) PROVE Older(v)'
      BY <2>2, <3>1 DEF Older
    <3> QED BY <2>8, <3>1 DEF LoadsKept
  <2>10. Ended /\ cut = {} => \A v, w \in Watched :
           rows'[v].by = loader.run /\ rows'[w].by = loader.run => rows'[v].from = rows'[w].from
    BY <2>8 DEF LoadsKept
  <2> QED BY <2>2, <2>4, <2>5, <2>7, <2>9, <2>10 DEF LoadsKept
<1>12. CASE LoaderDies
  <2>1. loader'.pc = "idle"
    BY <1>12 DEF LoaderDies, FreshLoader
  <2> QED BY <2>1 DEF LoadsKept, Loading, Ended
<1> QED BY <1>5, <1>6, <1>8, <1>9, <1>10, <1>11, <1>12, ScriptFrames
        DEF LoadStep, LoadTables, LoadCoreTables, WaitForOperation, CoreWait

\* An operation begins under the run of the script that posts it.
LEMMA LoadsNumberedStep ==
  ASSUME TablesTypeOK, OneAtATime, LoadsKept, LoadsNumbered, [TablesNext]_tablesVars
  PROVE  LoadsNumbered'
PROOF
<1> USE DEF loadVars, tablesVars
<1>1. /\ loader \in Loader /\ load \in [1 .. MaxRuns -> [Tables -> Load]] /\ runs \in Nat
      /\ loader.table \in Tables
  BY TablesAssumption DEF TablesTypeOK, Loader, Load
<1>r. runs' \in Nat /\ runs <= runs'
  <2>1. runs' = runs \/ runs' = runs + 1
    BY DEF TablesNext, RunSeed, WriteCsv, StageCsv, SeederStops,
       BuildTables, ReplaceFolder, CreateFile, WriteFile, UploadFails, LoadTables,
       LoadCoreTables, RunLoader, PostLoad, WaitForOperation, CoreWait, WaitLoad, LoaderDies,
       ReadStaged, EndLoad, OpenSession, WaitSession, RunStatement, DeleteSession, LivyDies
  <2> QED BY <1>1, <2>1
<1>2. ASSUME Ended' => Ended /\ loader'.run = loader.run,
             \A q \in 1 .. MaxRuns, t \in Tables :
               load'[q][t].state # "none" => load[q][t].state # "none"
      PROVE  LoadsNumbered'
  BY <1>1, <1>r, <1>2 DEF LoadsNumbered
<1>3. CASE UNCHANGED loadVars
  BY <1>2, <1>3 DEF Ended
<1>4. ASSUME NEW strict, RunLoader(strict) PROVE LoadsNumbered'
  <2>1. loader'.pc = "post" /\ load' = StillRunning
    BY <1>4 DEF RunLoader, FreshLoader
  <2>2. ASSUME NEW q \in 1 .. MaxRuns, NEW t \in Tables, load'[q][t].state # "none"
        PROVE  load[q][t].state # "none"
    BY <2>1, <2>2 DEF StillRunning, Operation
  <2> QED BY <1>2, <2>1, <2>2 DEF Ended
<1>5. CASE ReadStaged \/ EndLoad
  <2>1. loader' = loader
    BY <1>5 DEF ReadStaged, EndLoad
  <2>2. PICK q \in 1 .. MaxRuns, u \in Tables :
          load[q][u].state # "none" /\ \E op : load' = [load EXCEPT ![q][u] = op]
    BY <1>5 DEF ReadStaged, EndLoad, Operation, Runs
  <2>3. ASSUME NEW p \in 1 .. MaxRuns, NEW t \in Tables, load'[p][t].state # "none"
        PROVE  load[p][t].state # "none"
    BY <1>1, <2>2, <2>3
  <2> QED BY <1>2, <2>1, <2>3 DEF Ended
<1>6. CASE PostLoad \/ WaitForOperation \/ CoreWait \/ LoaderDies
  <2>1. Loading
    BY <1>6 DEF PostLoad, WaitForOperation, CoreWait, WaitLoad, LoaderDies, Loading
  <2>2. loader.run = runs /\ loader.run \in 1 .. MaxRuns /\ runs' = runs
    BY <2>1, RunsStay DEF LoadsKept
  <2>3. Ended' => loader'.run = loader.run
    BY <1>1, <1>6, LoaderKeepsRun
  <2>4. \A q \in 1 .. MaxRuns, u \in Tables : q # loader.run => load'[q][u] = load[q][u]
    <3>1. \/ load' = load
          \/ load' = [load EXCEPT ![loader.run][loader.table] = Operation("posted", NoFile)]
      BY <1>6 DEF PostLoad, WaitForOperation, CoreWait, WaitLoad, LoaderDies
    <3> QED BY <1>1, <2>2, <3>1
  <2>5. ASSUME NEW q \in 1 .. MaxRuns, NEW u \in Tables, load'[q][u].state # "none"
        PROVE  q <= runs
    BY <1>1, <2>2, <2>4, <2>5 DEF LoadsNumbered
  <2> QED BY <2>2, <2>3, <2>5 DEF LoadsNumbered
<1> QED BY <1>3, <1>4, <1>5, <1>6, ScriptFrames DEF LoadStep, LoadTables, LoadCoreTables

LEMMA LoadsLeftStep ==
  ASSUME TablesTypeOK, OneAtATime, StagedKept, LoadsKept, LoadsLeft, [TablesNext]_tablesVars
  PROVE  LoadsLeft'
PROOF
<1> USE DEF loadVars, tablesVars
<1>1. /\ loader \in Loader /\ load \in [1 .. MaxRuns -> [Tables -> Load]]
      /\ rows \in [Tables -> [by: 0 .. MaxRuns, from: File]]
      /\ loader.table \in Tables /\ loader' \in Loader
  BY LoadTyped, TablesTyped DEF TablesTypeOK, Loader, Load
<1>2. cut \subseteq cut' /\ left \subseteq left'
  BY CutGrows
<1>3. ASSUME Loading => Loading' /\ loader'.run = loader.run, UNCHANGED rows,
             \A q \in 1 .. MaxRuns, t \in Tables :
               load'[q][t] = load[q][t] \/ load'[q][t].state = "none"
      PROVE  LoadsLeft'
  BY <1>2, <1>3 DEF LoadsLeft, Runs
<1>4. CASE UNCHANGED loadVars
  BY <1>3, <1>4 DEF Loading
<1>5. ASSUME NEW strict, RunLoader(strict) PROVE LoadsLeft'
  <2>1. UNCHANGED rows /\ load' = StillRunning /\ ~ Loading
    BY <1>5 DEF RunLoader, NothingRuns, Loading
  <2>2. ASSUME NEW q \in 1 .. MaxRuns, NEW t \in Tables
        PROVE  load'[q][t] = load[q][t] \/ load'[q][t].state = "none"
    BY <2>1 DEF StillRunning, Operation
  <2> QED BY <1>3, <2>1, <2>2
<1>6. CASE PostLoad \/ WaitForOperation \/ CoreWait \/ LoaderDies
  <2>1. Loading /\ LeaveRunning /\ UNCHANGED rows
    BY <1>6 DEF PostLoad, WaitForOperation, CoreWait, WaitLoad, LoaderDies, Loading
  <2>2. loader.run \in 1 .. MaxRuns
    BY <2>1 DEF LoadsKept
  <2>3. \A q \in 1 .. MaxRuns, u \in Tables :
          \/ load'[q][u] = load[q][u]
          \/ q = loader.run /\ load'[q][u].state = "posted"
    <3>1. \/ load' = load
          \/ load' = [load EXCEPT ![loader.run][loader.table] = Operation("posted", NoFile)]
      BY <1>6 DEF PostLoad, WaitForOperation, CoreWait, WaitLoad, LoaderDies
    <3>2. \A f : Operation("posted", f).state = "posted"
      BY DEF Operation
    <3>3. CASE load' = [load EXCEPT ![loader.run][loader.table] = Operation("posted", NoFile)]
      <4> DEFINE op == Operation("posted", NoFile)
      <4>1. op.state = "posted"
        BY <3>2
      <4> HIDE DEF op
      <4>2. load' = [load EXCEPT ![loader.run][loader.table] = op]
        BY <3>3 DEF op
      <4>3. \A q \in 1 .. MaxRuns : load[q] \in [Tables -> Load]
        BY <1>1
      <4>4. ASSUME NEW q \in 1 .. MaxRuns, NEW u \in Tables
            PROVE  load'[q][u] = IF q = loader.run /\ u = loader.table THEN op
                                 ELSE load[q][u]
        BY <1>1, <4>2, <4>3
      <4> QED BY <4>1, <4>4
    <3> QED BY <3>1, <3>3
  <2>4. Loading' => loader'.run = loader.run
    BY <1>1, <1>6, LoaderKeepsRun
  <2>5. ~ Loading' => \A u \in Tables : Runs(load'[loader.run][u]) => <<loader.run, u>> \in left'
    BY <1>1, <2>1 DEF LeaveRunning, Loading, Loader
  <2>6. ASSUME NEW q \in 1 .. MaxRuns, NEW u \in Tables, Runs(load'[q][u])
        PROVE  <<q, u>> \in left' \/ (Loading' /\ q = loader'.run)
    <3>1. CASE q = loader.run
      BY <2>4, <2>5, <2>6, <3>1
    <3>2. CASE q # loader.run
      BY <1>2, <2>3, <2>6, <3>2 DEF LoadsLeft
    <3> QED BY <3>1, <3>2
  <2>7. ASSUME NEW q \in 1 .. MaxRuns, NEW u \in Tables, load'[q][u].state = "read", cut' = {}
        PROVE  load'[q][u].from.whole \/ <<q, u>> \in left'
    BY <1>2, <2>3, <2>7 DEF LoadsLeft
  <2> QED BY <1>2, <2>1, <2>6, <2>7 DEF LoadsLeft
<1>7. CASE ReadStaged
  <2>1. PICK q \in 1 .. MaxRuns, u \in Tables :
          /\ load[q][u].state = "posted" /\ staged[u] # NoFile
          /\ load' = [load EXCEPT ![q][u] = Operation("read", staged[u])]
    BY <1>7 DEF ReadStaged
  <2>2. UNCHANGED <<loader, rows, left, staged, cut>>
    BY <1>7 DEF ReadStaged, seedVars
  <2> DEFINE op == Operation("read", staged[u])
  <2>o. op.state = "read" /\ op.from = staged[u]
    BY DEF Operation
  <2> HIDE DEF op
  <2>3. ASSUME NEW p \in 1 .. MaxRuns, NEW v \in Tables
        PROVE  load'[p][v] = IF p = q /\ v = u THEN op ELSE load[p][v]
    BY <1>1, <2>1 DEF op
  <2>4. <<q, u>> \in left \/ (Loading /\ q = loader.run)
    BY <2>1 DEF LoadsLeft, Runs
  <2>5. Loading /\ cut = {} => staged[u].whole
    BY <2>1 DEF OneAtATime, Seeding, StagedKept, Alike, TablesTypeOK
  <2>6. ASSUME NEW p \in 1 .. MaxRuns, NEW v \in Tables
        PROVE  /\ Runs(load'[p][v]) => <<p, v>> \in left \/ (Loading /\ p = loader.run)
               /\ load'[p][v].state = "read" /\ cut = {} =>
                    load'[p][v].from.whole \/ <<p, v>> \in left
    <3>1. CASE p = q /\ v = u
      BY <2>3, <2>4, <2>5, <2>o, <3>1
    <3>2. CASE ~ (p = q /\ v = u)
      BY <2>3, <3>2 DEF LoadsLeft
    <3> QED BY <3>1, <3>2
  <2> QED BY <2>2, <2>6 DEF LoadsLeft, Loading
<1>8. CASE EndLoad
  <2>1. PICK q \in 1 .. MaxRuns, u \in Tables :
          \/ /\ load[q][u].state = "read"
             /\ rows' = [rows EXCEPT ![u] = [by |-> q, from |-> load[q][u].from]]
             /\ load' = [load EXCEPT ![q][u] = Operation("done", NoFile)]
          \/ /\ load' = [load EXCEPT ![q][u] = Operation("failed", NoFile)]
             /\ UNCHANGED rows
    BY <1>8 DEF EndLoad
  <2>2. UNCHANGED <<loader, left, cut>>
    BY <1>8 DEF EndLoad, seedVars
  <2>3. \A p \in 1 .. MaxRuns, v \in Tables :
          load'[p][v] = load[p][v] \/ load'[p][v].state \in {"done", "failed"}
    <3>1. /\ \A f : Operation("done", f).state = "done"
          /\ \A f : Operation("failed", f).state = "failed"
      BY DEF Operation
    <3>2. PICK op : load' = [load EXCEPT ![q][u] = op] /\ op.state \in {"done", "failed"}
      BY <2>1, <3>1
    <3>3. \A p \in 1 .. MaxRuns : load[p] \in [Tables -> Load]
      BY <1>1
    <3>4. ASSUME NEW p \in 1 .. MaxRuns, NEW v \in Tables
          PROVE  load'[p][v] = IF p = q /\ v = u THEN op ELSE load[p][v]
      BY <1>1, <3>2, <3>3
    <3> QED BY <3>2, <3>4
  <2>4. ASSUME NEW v \in Tables, rows'[v].by # 0, cut = {}
        PROVE  rows'[v].from.whole \/ <<rows'[v].by, v>> \in left
    <3>1. CASE rows'[v] = rows[v]
      BY <2>4, <3>1 DEF LoadsLeft
    <3>2. CASE rows'[v] # rows[v]
      <4>1. /\ v = u /\ load[q][u].state = "read"
            /\ rows'[v].by = q /\ rows'[v].from = load[q][u].from
        BY <1>1, <2>1, <3>2
      <4> QED BY <2>4, <4>1 DEF LoadsLeft
    <3> QED BY <3>1, <3>2
  <2> QED BY <2>2, <2>3, <2>4 DEF LoadsLeft, Loading, Runs
<1> QED BY <1>4, <1>5, <1>6, <1>7, <1>8, ScriptFrames DEF LoadStep, LoadTables, LoadCoreTables

LEMMA SessionsClosedStep ==
  ASSUME TablesTypeOK, SessionsClosed, [TablesNext]_tablesVars
  PROVE  SessionsClosed'
PROOF
<1> USE DEF livyVars, tablesVars
<1>1. livy \in Livy
  BY DEF TablesTypeOK, Livy
<1>2. CASE UNCHANGED livyVars
  BY <1>2 DEF SessionsClosed
<1>3. CASE OpenSession \/ WaitSession \/ RunStatement \/ LivyDies
  <2>1. OpenSession \/ LivyDies => livy'.pc # "done"
    <3>1. \A s : [FreshLivy EXCEPT !.pc = "starting", !.session = s].pc = "starting"
      BY DEF FreshLivy
    <3>2. FreshLivy.pc = "idle"
      BY DEF FreshLivy
    <3> QED BY <3>1, <3>2, Zenon DEF OpenSession, LivyDies
  <2>2. WaitSession => livy'.pc # "done"
    BY <1>1 DEF WaitSession, Livy
  <2>3. RunStatement => livy'.pc # "done"
    BY <1>1 DEF RunStatement, Livy
  <2> QED BY <1>3, <2>1, <2>2, <2>3 DEF SessionsClosed
<1>4. CASE DeleteSession
  <2>1. livy'.session = livy.session
    BY <1>1, <1>4 DEF DeleteSession, Livy
  <2>2. livy'.warned \/ sessions' = sessions \ {livy.session}
    BY <1>1, <1>4 DEF DeleteSession, Livy
  <2> QED BY <2>1, <2>2 DEF SessionsClosed
<1> QED BY <1>2, <1>3, <1>4, ScriptFrames DEF LivyStep

-----------------------------------------------------------------------------
\* The tables: the theorems.

LEMMA TablesInvInit == TablesInit => TablesInv
PROOF
<1> SUFFICES ASSUME TablesInit PROVE TablesInv
  OBVIOUS
<1>1. TablesTypeOK
  <2>1. NoFiles \in [DOMAIN Parts -> File] /\ 0 \in 0 .. MaxRuns
    BY TablesAssumption, FreshScripts DEF NoFiles
  <2>2. Operation("none", NoFile) \in Load
    BY FreshScripts DEF Load, Operation
  <2> QED BY FreshScripts, <2>1, <2>2
          DEF TablesInit, TablesTypeOK, Seeder, Upload, Loader, Livy, Load
<1>2. /\ seeder.pc = "idle" /\ upload.pc = "idle" /\ loader.pc = "idle" /\ livy.pc = "idle"
  BY DEF TablesInit, FreshSeeder, FreshUpload, FreshLoader, FreshLivy
<1>3. OneAtATime /\ CsvKept /\ StagedKept /\ BuiltKept /\ SessionsClosed
  BY <1>2 DEF TablesInit, OneAtATime, Seeding, Uploading, Loading, InSession, CsvKept,
              StagedKept, BuiltKept, SessionsClosed, Alike
<1>4. FolderKept
  BY <1>2 DEF TablesInit, NoFiles, FolderKept, FolderUnmixed, Uploading
<1>5. LoadsKept /\ LoadsNumbered /\ LoadsLeft
  <2>1. /\ \A q \in 1 .. MaxRuns, t \in Tables : load[q][t].state = "none"
        /\ \A t \in Tables : rows[t].by = 0
    BY DEF TablesInit, Operation
  <2> QED BY <1>2, <2>1 DEF LoadsKept, LoadsNumbered, LoadsLeft, Loading, Ended, Runs
<1> QED BY <1>1, <1>3, <1>4, <1>5 DEF TablesInv

\* One script at a time, and what each leaves behind: the invariant.
THEOREM TablesInvariance == TablesSpec => []TablesInv
PROOF
<1>1. TablesInv /\ [TablesNext]_tablesVars => TablesInv'
  BY TablesTyped, OneAtATimeStep, SeedKept, BuiltKeptStep, FolderKeptStep, LoadsKeptStep,
     LoadsNumberedStep, LoadsLeftStep, SessionsClosedStep DEF TablesInv
<1> QED BY <1>1, TablesInvInit, PTL DEF TablesSpec

\* However many scripts were stopped on the way, a table mixes no two builds,
\* and a script that ended by itself has done what it says, for any number of
\* tables, scripts and polls.
THEOREM ScriptsReportTruly == TablesSpec => []ScriptsDoWhatTheyReport
PROOF
<1>1. TablesInv => ScriptsDoWhatTheyReport
  <2> SUFFICES ASSUME TablesInv PROVE ScriptsDoWhatTheyReport
    OBVIOUS
  <2>1. \A t \in Tables : \A p, q \in DOMAIN Parts :
          folder[t][p] # NoFile /\ folder[t][q] # NoFile
            => folder[t][p].run = folder[t][q].run
    BY DEF TablesInv, FolderKept, FolderUnmixed
  <2>2. seeder.pc = "done" /\ seeder.uploads => staged = csv
    BY DEF TablesInv, StagedKept
  <2>3. upload.pc = "done" =>
          /\ \A t \in Tables : \A p \in DOMAIN Parts : folder[t][p] = Written(build, TRUE)
          /\ "csv" \notin cut => \A t, u \in Tables : built[t] = built[u] /\ built[t].whole
    BY DEF TablesInv, FolderKept, BuiltKept, Replaced
  <2>4. loader.pc = "done" =>
          LET watched == loader.ok \ loader.unseen
              own     == {t \in watched : rows[t].by = loader.run}
          IN
          /\ loader.ok \union loader.failed = Tables
          /\ \A t \in watched \ own :
               rows[t].by \in 1 .. loader.run - 1 /\ <<rows[t].by, t>> \in left
          /\ cut = {} => \A t, u \in own : rows[t].from = rows[u].from
    BY DEF TablesInv, LoadsKept, Watched, Ended, Older
  <2>5. \A t \in Tables :
          rows[t].by # 0 /\ cut = {} => rows[t].from.whole \/ <<rows[t].by, t>> \in left
    BY DEF TablesInv, LoadsLeft
  <2>6. livy.pc = "done" /\ livy.session \in sessions => livy.warned
    BY DEF TablesInv, SessionsClosed
  <2> QED BY <2>1, <2>2, <2>3, <2>4, <2>5, <2>6, Zenon DEF ScriptsDoWhatTheyReport
<1> QED BY <1>1, TablesInvariance, PTL

-----------------------------------------------------------------------------
\* The operator's side as a whole.

\* Whichever component moves, the variables of all three keep their types.
THEOREM OperationsTypes == OperationsSpec => []OperationsTypeOK
PROOF
<1>1. OperationsInit => BootstrapInit /\ TablesInit /\ LauncherInit
  BY DEF OperationsInit
<1>2. [OperationsNext]_operationsVars =>
        /\ [BootstrapNext]_bootstrapVars
        /\ [TablesNext]_tablesVars
        /\ [LauncherNext]_launcherVars
  BY DEF OperationsNext, operationsVars, BootstrapScene, TablesScene, LauncherScene
<1>3. OperationsSpec => BootstrapSpec /\ TablesSpec /\ LauncherSpec
  BY <1>1, <1>2, PTL DEF OperationsSpec, BootstrapSpec, TablesSpec, LauncherSpec
<1>4. TablesInv => TablesTypeOK
  BY DEF TablesInv
<1>5. LauncherInv => LauncherTypeOK
  BY DEF LauncherInv
<1>6. BootstrapTypeOK /\ TablesTypeOK /\ LauncherTypeOK => OperationsTypeOK
  BY DEF OperationsTypeOK
<1> QED BY <1>3, <1>4, <1>5, <1>6, BootstrapTypes, TablesInvariance, LauncherInvariance, PTL
=============================================================================
