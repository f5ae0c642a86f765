--------------------------- MODULE FabricBootstrap ---------------------------
(***************************************************************************)
(* The commands that prepare Microsoft Fabric: `make fabric-bootstrap`     *)
(* (fabric_bootstrap.py), which creates or reuses a workspace, a lakehouse *)
(* and an ontology, and update_fabric_certification_ready_ontology.py,     *)
(* which replaces an ontology's definition.  An operator runs them, one at *)
(* a time, again and again; an attempt may stop at any request.  Between   *)
(* two commands the operator may write ids into .env, and delete a         *)
(* workspace, as docs/cost-controls.md tells to.                           *)
(*                                                                         *)
(* Fabric itself is not in the repository.  It is whatever the commands    *)
(* rely on: creations and updates may go on after the answer (HTTP 202),   *)
(* answers may be lost, names need not be unique, a listing shows what is  *)
(* ready.                                                                  *)
(***************************************************************************)
EXTENDS Naturals, FiniteSets

CONSTANTS MaxResources,  \* bound: resources that exist in the tenant
          MaxAttempts,   \* bound: commands run
          Polls,         \* polls of a long-running operation before giving up
          MayBeFar       \* kinds whose listing may be longer than ten pages

ASSUME BootstrapAssumption ==
  /\ MaxResources \in Nat \ {0}
  /\ MaxAttempts \in Nat
  /\ Polls \in Nat \ {0}
  /\ MayBeFar \subseteq {"workspace", "lakehouse", "ontology"}

Kinds == {"workspace", "lakehouse", "ontology"}
Ids   == 1 .. MaxResources
NoId  == 0
Elsewhere == MaxResources + 1 \* an id that names nothing in the tenant

VARIABLES
  tenant,      \* the resources that exist, or are being created, in Fabric
  definition,  \* what each ontology holds
  updating,    \* definition updates that Fabric runs, or that failed
  content,     \* Files/concord_iq_scenarios.json of each lakehouse
  far,         \* kinds whose listing is longer than ten pages
  dotenv,      \* the resource ids in .env
  attempt,     \* the bootstrap command that runs, or the last one
  script,      \* the ontology script that runs, or the last one
  report,      \* fabric_seed/bootstrap-report.md
  attempts,    \* commands run so far
  loose        \* history: kinds of which the tenant holds, or will hold, a
               \* resource that the search by name of a later attempt misses

bootstrapVars == <<tenant, definition, updating, content, far, dotenv,
                   attempt, script, report, attempts, loose>>

Resource == [id: Ids, kind: Kinds, ws: Ids \union {NoId},
             ready: BOOLEAN, named: BOOLEAN]

\* named: the resource bears the name the settings give to its kind.
Creation(kind, ws, id, ready) ==
  [id |-> id, kind |-> kind, ws |-> ws, ready |-> ready, named |-> TRUE]

FreshAttempt ==
  [pc |-> "idle", kind |-> "workspace", id |-> [k \in Kinds |-> NoId],
   status |-> [k \in Kinds |-> "none"],
   target |-> NoId, polls |-> 0, seeded |-> FALSE, uploaded |-> FALSE]

FreshScript == [pc |-> "idle", id |-> NoId, polls |-> 0]

\* One operator, one command at a time.
Quiet == /\ attempt.pc \in {"idle", "done"} /\ script.pc = "idle"
         /\ attempts < MaxAttempts

BootstrapInit ==
  /\ tenant = {}
  /\ definition = [i \in Ids |-> "none"]
  /\ updating = {}
  /\ content = [i \in Ids |-> "absent"]
  /\ far \in SUBSET MayBeFar
  /\ dotenv = [k \in Kinds |-> NoId]
  /\ attempt = FreshAttempt
  /\ script = FreshScript
  /\ report = "none"
  /\ attempts = 0
  /\ loose = {}

-----------------------------------------------------------------------------
(* The commands' beginnings and ends                                       *)

\* export_fabric_seed: every artifact is written anew, and over the report the
\* text of a dry run.
ExportSeed == report' = "dry run"

\* dry_run: the export; no request.
DryRun ==
  /\ Quiet
  /\ ExportSeed
  /\ attempts' = attempts + 1
  /\ UNCHANGED <<tenant, definition, updating, content, far, dotenv, attempt,
                 script, loose>>

\* bootstrap, up to its try: the export; then a token from .env or the Azure
\* CLI.  Without a token the command ends and leaves the report of a dry run.
Bootstrap ==
  /\ Quiet
  /\ attempts' = attempts + 1
  /\ ExportSeed
  /\ \E pc \in {"find", "idle"} : attempt' = [FreshAttempt EXCEPT !.pc = pc]
  /\ UNCHANGED <<tenant, definition, updating, content, far, dotenv, script,
                 loose>>

\* A FabricBootstrapError: the report says where the bootstrap stopped.
Stop ==
  /\ attempt' = FreshAttempt
  /\ report' = "stopped"

\* The resource this attempt asked for and Fabric has not finished.
Target == {r \in tenant : r.id = attempt.target}
Running == \E r \in Target : ~r.ready

\* The attempt ends while Fabric still creates the resource: a later search
\* by name may come too early.
LeaveBehind ==
  loose' = IF Running THEN loose \union {attempt.kind} ELSE loose

\* The process dies, or an exception that is no FabricBootstrapError (a read
\* that times out is a TimeoutError) passes every handler: no report.
Die ==
  /\ attempt.pc \notin {"idle", "done"}
  /\ attempt' = FreshAttempt
  /\ LeaveBehind
  /\ UNCHANGED <<tenant, definition, updating, content, far, dotenv, script,
                 report, attempts>>

-----------------------------------------------------------------------------
(* workspace(), lakehouse(), ontology(): the same steps for each kind      *)

\* Mutant: the items of every workspace are listed.
ListedAnywhere(kind, ws) ==
  {r \in tenant : r.kind = kind /\ r.ready /\ r.named /\ kind \notin far}

\* What FabricApiClient._list and the search by name find: resources of the
\* kind, in the workspace found before, in the first ten pages.
Listed(kind, ws) ==
  {r \in tenant : /\ r.kind = kind /\ r.ready /\ r.named
                  /\ kind # "workspace" => r.ws = ws
                  /\ kind \notin far}

\* Mutant: items are sought without the id of their workspace.
FoundNowhere(kind) == Listed(kind, NoId)

Found(kind) == Listed(kind, attempt.id["workspace"])

\* A request that names a resource is refused unless Fabric has it.
Exists(kind) == \E r \in tenant : r.id = attempt.id[kind] /\ r.kind = kind /\ r.ready

PlaceExists == attempt.kind # "workspace" => Exists("workspace")

AfterKind ==
  [workspace |-> [pc |-> "capacity", kind |-> "lakehouse"],
   lakehouse |-> [pc |-> "find", kind |-> "ontology"],
   ontology  |-> [pc |-> "define", kind |-> "ontology"]]

\* The FabricResource of the attempt's kind is known, and how it came to be:
\* the report says so.  Go on with the next kind.
Resolve(id, status) ==
  attempt' = [attempt EXCEPT
    !.id[attempt.kind] = id,
    !.status[attempt.kind] = status,
    !.pc = AfterKind[attempt.kind].pc,
    !.kind = AfterKind[attempt.kind].kind,
    !.target = NoId,
    !.polls = 0]

\* A configured id is taken as it is, without a request.
UseConfigured ==
  /\ attempt.pc = "find"
  /\ dotenv[attempt.kind] # NoId
  /\ Resolve(dotenv[attempt.kind], "configured")
  /\ UNCHANGED <<tenant, definition, updating, content, far, dotenv, script,
                 report, attempts, loose>>

\* The first of the listing that bears the name; the order is Fabric's.  Of a
\* workspace that does not exist nothing is listed, and the request fails.
FindByName ==
  /\ attempt.pc = "find"
  /\ dotenv[attempt.kind] = NoId
  /\ \/ /\ PlaceExists
        /\ \E r \in Found(attempt.kind) : Resolve(r.id, "named")
        /\ UNCHANGED report
     \/ /\ PlaceExists
        /\ Found(attempt.kind) = {}
        /\ attempt' = [attempt EXCEPT !.pc = "create"]
        /\ UNCHANGED report
     \/ Stop
  /\ UNCHANGED <<tenant, definition, updating, content, far, dotenv, script,
                 attempts, loose>>

\* An id is opaque, and Fabric gives none out twice: one that nothing in the
\* tenant has, and that no file and no command still holds from something deleted.
Held   == {r.id : r \in tenant} \union {dotenv[k] : k \in Kinds}
            \union {attempt.id[k] : k \in Kinds} \union {script.id}
NewIds == {i \in Ids \ Held : 1 .. i - 1 \subseteq Held}

\* POST of a new resource.  Fabric refuses; or creates it and answers 201 with
\* its id; or accepts it (202), with or without an operation to poll; or does
\* either and the answer is lost.
Create ==
  /\ attempt.pc = "create"
  /\ \/ /\ Stop
        /\ UNCHANGED <<tenant, loose>>
     \/ \E id \in NewIds, ready \in BOOLEAN :
          /\ tenant' = tenant \union
               {Creation(attempt.kind, attempt.id["workspace"], id, ready)}
          /\ \/ /\ IF ready
                   THEN Resolve(id, "created")
                   ELSE \E pc \in {"poll", "refind"} :
                          attempt' = [attempt EXCEPT !.pc = pc, !.target = id]
                /\ UNCHANGED <<report, loose>>
             \/ /\ loose' = loose \union (IF ready THEN {} ELSE {attempt.kind})
                /\ attempt' = FreshAttempt
                /\ report' \in {"stopped", report}
  /\ UNCHANGED <<definition, updating, content, far, dotenv, script, attempts>>

\* Mutant: the polls are counted from one.
PollsAndOne(polls) == polls < Polls

PollsLeft(polls) == polls + 1 < Polls

\* _poll_operation: a failed operation, a failed request or too many polls
\* stop the bootstrap; Fabric goes on with what it accepted.
PollCreation ==
  /\ attempt.pc = "poll"
  /\ \/ /\ Running
        /\ PollsLeft(attempt.polls)
        /\ attempt' = [attempt EXCEPT !.polls = @ + 1]
        /\ UNCHANGED <<report, loose>>
     \/ /\ ~Running /\ Target # {}
        /\ attempt' = [attempt EXCEPT !.pc = "refind"]
        /\ UNCHANGED <<report, loose>>
     \/ Stop /\ LeaveBehind
  /\ UNCHANGED <<tenant, definition, updating, content, far, dotenv, script,
                 attempts>>

\* The answer to an accepted creation has no id: search by name once more.
FindCreated ==
  /\ attempt.pc = "refind"
  /\ \/ /\ \E r \in Found(attempt.kind) : Resolve(r.id, "created")
        /\ LeaveBehind
        /\ UNCHANGED report
     \/ Stop /\ LeaveBehind
  /\ UNCHANGED <<tenant, definition, updating, content, far, dotenv, script,
                 attempts>>

-----------------------------------------------------------------------------
(* The rest of the bootstrap: none of its failures stops it                *)

\* The capacity was part of the creation, or is requested now, or none is
\* wanted; a failed request is a warning.  Nothing later depends on it.
AssignCapacity ==
  /\ attempt.pc = "capacity"
  /\ attempt' = [attempt EXCEPT !.pc = "find"]
  /\ UNCHANGED <<tenant, definition, updating, content, far, dotenv, script,
                 report, attempts, loose>>

\* updateDefinition?updateMetadata=true: the ontology takes the definition and
\* the display name of its .platform part.
Renamed(id, what) ==
  {IF r.id = id THEN [r EXCEPT !.named = (what = "business")] ELSE r : r \in tenant}

Apply(id, what) ==
  /\ definition' = [definition EXCEPT ![id] = what]
  /\ tenant' = Renamed(id, what)
  /\ loose' = loose \union (IF what = "business" THEN {} ELSE {"ontology"})

Accept(id, what) ==
  updating' = (updating \ {<<id, what, "failed">>}) \union {<<id, what, "running">>}

\* build_ontology_definition and its POST: refused; done; accepted with an
\* operation to poll; accepted without one, which counts as done.
DefineOntology ==
  LET id == attempt.id["ontology"]
      Goes(pc, seeded) == attempt' = [attempt EXCEPT !.pc = pc, !.seeded = seeded]
  IN
  /\ attempt.pc = "define"
  /\ \/ /\ Goes("put", FALSE)
        /\ UNCHANGED <<definition, tenant, loose, updating>>
     \/ /\ Exists("ontology")
        /\ Goes("put", TRUE)
        /\ Apply(id, "business")
        /\ UNCHANGED updating
     \/ /\ Exists("ontology")
        /\ Goes("pollDefinition", FALSE) \/ Goes("put", TRUE)
        /\ Accept(id, "business")
        /\ UNCHANGED <<definition, tenant, loose>>
  /\ UNCHANGED <<content, far, dotenv, script, report, attempts>>

\* Only a "succeeded" counts; any other end is a warning and a manual import.
PollDefinition ==
  LET update(state) == <<attempt.id["ontology"], "business", state>> \in updating
  IN
  /\ attempt.pc = "pollDefinition"
  /\ \/ /\ update("running")
        /\ PollsLeft(attempt.polls)
        /\ attempt' = [attempt EXCEPT !.polls = @ + 1]
     \/ /\ ~update("running") /\ ~update("failed")
        /\ attempt' = [attempt EXCEPT !.pc = "put", !.seeded = TRUE]
     \/ attempt' = [attempt EXCEPT !.pc = "put"]
  /\ UNCHANGED <<tenant, definition, updating, content, far, dotenv, script,
                 report, attempts, loose>>

\* upload_scenario_content: create an empty file over the old one, append,
\* flush.  A failure ends the upload, whatever the file now is.
Finish(uploaded) ==
  /\ attempt' = [attempt EXCEPT !.pc = "done", !.uploaded = uploaded]
  /\ report' = "completed"

UploadContent ==
  LET lake == attempt.id["lakehouse"]
      File(state) == Exists("lakehouse") /\ content' = [content EXCEPT ![lake] = state]
  IN
  /\ \/ /\ attempt.pc = "put"
        /\ \/ /\ File("empty")
              /\ attempt' = [attempt EXCEPT !.pc = "append"]
              /\ UNCHANGED report
           \/ File("empty") /\ Finish(FALSE)
           \/ UNCHANGED content /\ Finish(FALSE)
     \/ /\ attempt.pc = "append"
        /\ UNCHANGED content
        /\ \/ /\ attempt' = [attempt EXCEPT !.pc = "flush"]
              /\ UNCHANGED report
           \/ Finish(FALSE)
     \/ /\ attempt.pc = "flush"
        /\ \/ File("whole") /\ Finish(TRUE)
           \/ File("whole") /\ Finish(FALSE)
           \/ UNCHANGED content /\ Finish(FALSE)
  /\ UNCHANGED <<tenant, definition, updating, far, dotenv, script, attempts,
                 loose>>

-----------------------------------------------------------------------------
(* The operator, between two commands                                      *)

\* .env is text.  An id in it names a resource of its kind, be it one that a
\* bootstrap printed or another, or nothing that a request would find.
EditDotenv ==
  /\ Quiet
  /\ \E k \in Kinds, i \in {NoId, Elsewhere} \union Ids :
       /\ i \in Ids => \E r \in tenant : r.id = i /\ r.kind = k /\ r.ready
       /\ i # dotenv[k]
       /\ dotenv' = [dotenv EXCEPT ![k] = i]
  /\ UNCHANGED <<tenant, definition, updating, content, far, attempt, script,
                 report, attempts, loose>>

\* A workspace is deleted, and everything in it.  What the last command printed
\* is history then.
DeleteWorkspace ==
  /\ Quiet
  /\ \E w \in tenant :
       LET gone == {r \in tenant : r = w \/ r.ws = w.id}
           ids  == {r.id : r \in gone}
       IN
       /\ w.kind = "workspace" /\ w.ready
       /\ tenant' = tenant \ gone
       /\ updating' = {u \in updating : u[1] \notin ids}
       /\ definition' = [i \in Ids |-> IF i \in ids THEN "none" ELSE definition[i]]
       /\ content' = [i \in Ids |-> IF i \in ids THEN "absent" ELSE content[i]]
  /\ attempt' = FreshAttempt
  /\ UNCHANGED <<far, dotenv, script, report, attempts, loose>>

-----------------------------------------------------------------------------
(* update_fabric_certification_ready_ontology.py                           *)

\* Without both ids in .env it exits.  The ontology is the one whose id the
\* operator gives, or the first whose name contains the given one.
RunScript ==
  /\ Quiet
  /\ dotenv["workspace"] # NoId /\ dotenv["lakehouse"] # NoId
  /\ \E r \in tenant :
       /\ r.kind = "ontology" /\ r.ready /\ r.ws = dotenv["workspace"]
       /\ script' = [FreshScript EXCEPT !.pc = "backup", !.id = r.id]
  /\ attempts' = attempts + 1
  /\ UNCHANGED <<tenant, definition, updating, content, far, dotenv, attempt,
                 report, loose>>

\* get_definition and the backup file; a failure only warns.  Without --apply
\* the script ends here.
BackUp ==
  /\ script.pc = "backup"
  /\ script' \in {[script EXCEPT !.pc = "apply"], FreshScript}
  /\ UNCHANGED <<tenant, definition, updating, content, far, dotenv, attempt,
                 report, attempts, loose>>

\* update_definition: refused, done, or accepted with an operation to poll.
ApplyDefinition ==
  /\ script.pc = "apply"
  /\ \/ /\ script' = FreshScript
        /\ UNCHANGED <<definition, tenant, loose, updating>>
     \/ /\ script' = FreshScript
        /\ Apply(script.id, "certification")
        /\ UNCHANGED updating
     \/ /\ script' = [script EXCEPT !.pc = "poll", !.polls = 0]
        /\ Accept(script.id, "certification")
        /\ UNCHANGED <<definition, tenant, loose>>
  /\ UNCHANGED <<content, far, dotenv, attempt, report, attempts>>

PollScript ==
  /\ script.pc = "poll"
  /\ \/ /\ <<script.id, "certification", "running">> \in updating
        /\ PollsLeft(script.polls)
        /\ script' = [script EXCEPT !.polls = @ + 1]
     \/ script' = FreshScript
  /\ UNCHANGED <<tenant, definition, updating, content, far, dotenv, attempt,
                 report, attempts, loose>>

-----------------------------------------------------------------------------
(* Fabric, on its own                                                      *)

FinishCreation ==
  /\ \E r \in tenant :
       /\ ~r.ready
       /\ \/ tenant' = (tenant \ {r}) \union {[r EXCEPT !.ready = TRUE]}
          \/ tenant' = tenant \ {r}
  /\ UNCHANGED <<definition, updating, content, far, dotenv, attempt, script,
                 report, attempts, loose>>

FinishUpdate ==
  /\ \E u \in {v \in updating : v[3] = "running"} :
       \/ /\ updating' = updating \ {u}
          /\ Apply(u[1], u[2])
       \/ /\ updating' = (updating \ {u}) \union {<<u[1], u[2], "failed">>}
          /\ UNCHANGED <<definition, tenant, loose>>
  /\ UNCHANGED <<content, far, dotenv, attempt, script, report, attempts>>

BootstrapNext ==
  \/ DryRun \/ Bootstrap \/ Die
  \/ UseConfigured \/ FindByName \/ Create \/ PollCreation \/ FindCreated
  \/ AssignCapacity \/ DefineOntology \/ PollDefinition \/ UploadContent
  \/ EditDotenv \/ DeleteWorkspace
  \/ RunScript \/ BackUp \/ ApplyDefinition \/ PollScript
  \/ FinishCreation \/ FinishUpdate

BootstrapSpec == BootstrapInit /\ [][BootstrapNext]_bootstrapVars

-----------------------------------------------------------------------------
(* Properties                                                              *)

BootstrapTypeOK ==
  /\ tenant \subseteq Resource
  /\ definition \in [Ids -> {"none", "business", "certification"}]
  /\ updating \subseteq Ids \X {"business", "certification"} \X {"running", "failed"}
  /\ content \in [Ids -> {"absent", "empty", "whole"}]
  /\ far \subseteq Kinds
  /\ dotenv \in [Kinds -> Ids \union {NoId, Elsewhere}]
  /\ attempt \in [pc: {"idle", "find", "create", "poll", "refind", "capacity",
                       "define", "pollDefinition", "put", "append", "flush", "done"},
                  kind: Kinds, id: [Kinds -> Ids \union {NoId, Elsewhere}],
                  status: [Kinds -> {"none", "configured", "named", "created"}],
                  target: Ids \union {NoId}, polls: 0 .. Polls - 1,
                  seeded: BOOLEAN, uploaded: BOOLEAN]
  /\ script \in [pc: {"idle", "backup", "apply", "poll"},
                 id: Ids \union {NoId}, polls: 0 .. Polls - 1]
  /\ report \in {"none", "dry run", "stopped", "completed"}
  /\ attempts \in 0 .. MaxAttempts
  /\ loose \subseteq Kinds

\* Running the bootstrap again after any failure, lost answer or death does
\* not make a second resource of one name in one place - except where a search
\* by name cannot see the first: its listing is too long, an earlier attempt
\* left while Fabric still created it, or the ontology script renamed it.
DuplicateIsExplained ==
  \A r, s \in tenant :
    r # s /\ r.kind = s.kind /\ r.ws = s.ws /\ r.named /\ s.named
      => r.kind \in far \union loose

\* What a finished bootstrap reports as created, or as reused by name, exists:
\* a resource of its kind, in the workspace whose id it prints with it, whatever
\* failed, was deleted or was written into .env before; and content it calls
\* uploaded is whole, in a lakehouse that exists.  Of an id that was configured
\* it says nothing, because the bootstrap asks nobody about it.
ResultIsCoherent ==
  attempt.pc = "done" =>
    /\ \A k \in Kinds : attempt.status[k] # "configured" =>
         \E r \in tenant :
           /\ r.id = attempt.id[k] /\ r.kind = k /\ r.ready
           /\ k = "workspace" \/ r.ws = attempt.id["workspace"]
    /\ attempt.uploaded =>
         /\ Exists("lakehouse")
         /\ content[attempt.id["lakehouse"]] = "whole"
=============================================================================
