----------------------------- MODULE DevLauncher -----------------------------
(***************************************************************************)
(* The development launcher (dev_launcher.py, cloud_auth.py): `make dev`   *)
(* and its variants get the tokens of their mode, start a back end and a   *)
(* front end, record the two pids in .concord-dev/state.json and wait for  *)
(* them; `make stop` terminates the pids of that file.  Launchers may run  *)
(* in several terminals and share the one file; each may be interrupted or *)
(* killed at any point, and a child may end by itself or not obey SIGTERM. *)
(*                                                                         *)
(* The operating system is not in the repository: every process has a pid  *)
(* of its own, and a signal to a process that is gone does nothing.        *)
(***************************************************************************)
EXTENDS Naturals, FiniteSets

CONSTANTS Launchers,   \* terminals in which a launcher may run
          MaxProcesses \* bound: processes spawned

ASSUME LauncherAssumption == MaxProcesses \in Nat \ {0}

Pids == 1 .. MaxProcesses
NoPid == 0

Modes == {"local", "demo", "foundry", "fabric", "work-iq"}
Tokens == {"foundry", "foundry_iq", "fabric_iq", "work_iq"}

VARIABLES
  process,    \* the processes the launchers spawned
  launcher,   \* what runs in each terminal
  stateFile,  \* .concord-dev/state.json
  stopper,    \* a `make stop`
  inherited,  \* cloud settings of the shell and of .env
  configured, \* .env names the Fabric resources
  unrecorded, \* history: pids whose launcher ended before its file was whole
  overlapped  \* history: a stack was started beside another one, or beside a
              \* `make stop` under way

launcherVars == <<process, launcher, stateFile, stopper, inherited, configured,
                  unrecorded, overlapped>>

surroundings == <<inherited, configured>>

-----------------------------------------------------------------------------
(* build_runtime_environment                                               *)

\* The tokens a mode acquires.
Needs ==
  [m \in Modes |-> CASE m = "local"   -> {}
                     [] m = "demo"    -> {"fabric_iq", "foundry"}
                     [] m = "foundry" -> {"foundry"}
                     [] m = "fabric"  -> {"fabric_iq"}
                     [] m = "work-iq" -> {"work_iq"}]

\* Mutant: inherited tokens stay where no acquired one replaces them.
KeepingTokens(mode, base) ==
  [cloud  |-> mode # "local",
   tokens |-> [t \in Tokens |-> IF t \in Needs[mode] THEN "fresh" ELSE base.tokens[t]],
   budget |-> IF mode = "local" THEN "zero" ELSE base.budget]

\* Inherited tokens are removed and the acquired ones set; a local child may
\* make no call, a cloud child as many as it inherited, or a default.
Environment(mode, base) ==
  [cloud  |-> mode # "local",
   tokens |-> [t \in Tokens |-> IF t \in Needs[mode] THEN "fresh" ELSE "none"],
   budget |-> IF mode = "local" THEN "zero"
              ELSE IF base.budget = "unset" THEN "some"
              ELSE base.budget]

-----------------------------------------------------------------------------

NoProcess == [role |-> "none"]
Gone == [role |-> "gone"]
Live(p) == process[p] \notin {NoProcess, Gone}
Children(l) == {launcher[l].backend, launcher[l].frontend} \ {NoPid}

FreePids == {p \in Pids : /\ process[p] = NoProcess
                          /\ \A q \in 1 .. p - 1 : process[q] # NoProcess}

StackEnv(l) == Environment(launcher[l].mode, inherited)
Child(role, env) == [role |-> role, env |-> env, asked |-> FALSE]

AtRest == [pc |-> "idle", mode |-> "local", backend |-> NoPid, frontend |-> NoPid]

NoState == [kind |-> "none", pids |-> {}]
TornState   == [kind |-> "torn", pids |-> {}]

LauncherInit ==
  /\ process = [p \in Pids |-> NoProcess]
  /\ launcher = [l \in Launchers |-> AtRest]
  /\ stateFile = NoState
  /\ stopper = [pc |-> "idle", pids |-> {}]
  /\ inherited \in [tokens: {[t \in Tokens |-> "stale"]},
                    budget: {"unset", "zero", "some"}]
  /\ configured \in BOOLEAN
  /\ unrecorded = {}
  /\ overlapped = FALSE

\* run_dev_stack begins; a failed cold-open check ends it before anything.
Launch(l, mode) ==
  /\ launcher[l].pc = "idle"
  /\ FreePids # {}
  /\ launcher' = [launcher EXCEPT ![l] = [AtRest EXCEPT !.pc = "token", !.mode = mode]]
  /\ UNCHANGED <<process, stateFile, stopper, surroundings, unrecorded, overlapped>>

Move(l, pc) == launcher' = [launcher EXCEPT ![l].pc = pc]
GiveUp(l) == launcher' = [launcher EXCEPT ![l] = AtRest]

\* _acquire_token, _acquire_demo_tokens, get_work_iq_access_token: any token
\* that cannot be had ends the launcher; Fabric wants its resources in .env.
AcquireTokens(l) ==
  /\ launcher[l].pc = "token"
  /\ \/ /\ "fabric_iq" \in Needs[launcher[l].mode] => configured
        /\ Move(l, "backend")
     \/ /\ launcher[l].mode # "local"
        /\ GiveUp(l)
  /\ UNCHANGED <<process, stateFile, stopper, surroundings, unrecorded, overlapped>>

\* DevStack.start, first spawn.
SpawnBackend(l) ==
  /\ launcher[l].pc = "backend"
  /\ \E p \in FreePids :
       /\ process' = [process EXCEPT ![p] =
            Child("backend", StackEnv(l))]
       /\ launcher' = [launcher EXCEPT ![l].pc = "frontend", ![l].backend = p]
  /\ overlapped' = (\/ overlapped \/ stopper.pc # "idle"
                    \/ \E m \in Launchers : Children(m) # {}
                    \/ \E p \in Pids : Live(p) /\ ~process[p].asked)
  /\ UNCHANGED <<stateFile, stopper, surroundings, unrecorded>>

\* Second spawn, in the local environment made from the back end's; without
\* pnpm it raises, and start leaves the back end behind.
SpawnFrontend(l) ==
  /\ launcher[l].pc = "frontend"
  /\ \/ /\ \E p \in FreePids :
             /\ process' = [process EXCEPT ![p] = Child("frontend",
                  Environment("local", StackEnv(l)))]
             /\ launcher' = [launcher EXCEPT ![l].pc = "record", ![l].frontend = p,
                                        ![l].mode = "local"]
        /\ UNCHANGED unrecorded
     \/ /\ GiveUp(l)
        /\ UNCHANGED process
        /\ unrecorded' = unrecorded \union Children(l)
  /\ UNCHANGED <<stateFile, stopper, surroundings, overlapped>>

\* _write_state; then the banner, and wait.
WriteState(l) ==
  /\ launcher[l].pc = "record"
  /\ stateFile' = [kind |-> "pids", pids |-> Children(l)]
  /\ Move(l, "running")
  /\ UNCHANGED <<process, stopper, surroundings, unrecorded, overlapped>>

\* Mutant: only the first process is terminated.
AskFirst(ps) == [p \in Pids |-> IF p \in ps /\ (\A q \in ps : p <= q) /\ Live(p)
                                THEN [process[p] EXCEPT !.asked = TRUE] ELSE process[p]]

\* DevStack.wait ends: Ctrl-C, or both children are gone.  shutdown sends
\* SIGTERM to those that live.
Ask(ps) == [p \in Pids |-> IF p \in ps /\ Live(p) THEN [process[p] EXCEPT !.asked = TRUE]
                           ELSE process[p]]

Shutdown(l) ==
  /\ launcher[l].pc = "running"
  /\ process' = Ask(Children(l))
  /\ Move(l, "waiting")
  /\ UNCHANGED <<stateFile, stopper, surroundings, unrecorded, overlapped>>

\* shutdown's end: each child is gone, or was waited for ten seconds; the file
\* is removed, whoever wrote it.
EndShutdown(l) ==
  /\ launcher[l].pc = "waiting"
  /\ stateFile' = NoState
  /\ GiveUp(l)
  /\ UNCHANGED <<process, stopper, surroundings, unrecorded, overlapped>>

\* The launcher is killed; or, once its file is written, interrupted again
\* while it waits, which passes suppress(Exception).  Killed while it writes,
\* it leaves a file that is no JSON.
LauncherDies(l) ==
  /\ launcher[l].pc # "idle"
  /\ GiveUp(l)
  /\ \/ /\ UNCHANGED stateFile
        /\ unrecorded' = IF launcher[l].pc \in {"frontend", "record"}
                         THEN unrecorded \union Children(l) ELSE unrecorded
     \/ /\ launcher[l].pc = "record"
        /\ stateFile' = TornState
        /\ unrecorded' = unrecorded \union Children(l)
  /\ UNCHANGED <<process, stopper, surroundings, overlapped>>

\* stop_dev_stack: read the file; SIGTERM to each pid.
StopStack ==
  /\ stopper.pc = "idle"
  /\ stateFile.kind # "none"
  /\ stopper' = [pc |-> "unlink", pids |-> stateFile.pids]
  /\ process' = Ask(stateFile.pids)
  /\ overlapped' = (\/ overlapped
                    \/ \E l \in Launchers : launcher[l].pc \in {"frontend", "record"})
  /\ UNCHANGED <<launcher, stateFile, surroundings, unrecorded>>

\* Then remove it, or what has become of it.
Unlink ==
  /\ stopper.pc = "unlink"
  /\ stopper' = [pc |-> "idle", pids |-> {}]
  /\ stateFile' = NoState
  /\ UNCHANGED <<process, launcher, surroundings, unrecorded, overlapped>>

\* A child ends: asked to, by a fault, or because its port is taken.
Exit(p) ==
  /\ Live(p)
  /\ process' = [process EXCEPT ![p] = Gone]
  /\ UNCHANGED <<launcher, stateFile, stopper, surroundings, unrecorded, overlapped>>

LauncherNext ==
  \/ \E l \in Launchers :
       \/ \E m \in Modes : Launch(l, m)
       \/ AcquireTokens(l)
       \/ SpawnBackend(l) \/ SpawnFrontend(l) \/ WriteState(l)
       \/ Shutdown(l) \/ EndShutdown(l) \/ LauncherDies(l)
  \/ StopStack \/ Unlink
  \/ \E p \in Pids : Exit(p)

LauncherSpec == LauncherInit /\ [][LauncherNext]_launcherVars

-----------------------------------------------------------------------------
(* Properties                                                              *)

EnvironmentOK == [cloud: BOOLEAN, tokens: [Tokens -> {"none", "stale", "fresh"}],
                  budget: {"zero", "some"}]

\* What the state keeps of a child and of a terminal.
ChildOK == [role: {"backend", "frontend"}, env: EnvironmentOK, asked: BOOLEAN]
TerminalOK ==
  [pc: {"idle", "token", "backend", "frontend", "record", "running", "waiting"},
   mode: Modes, backend: Pids \union {NoPid}, frontend: Pids \union {NoPid}]

LauncherTypeOK ==
  /\ process \in [Pids -> {NoProcess, Gone} \union ChildOK]
  /\ launcher \in [Launchers -> TerminalOK]
  /\ stateFile \in [kind: {"none", "torn", "pids"}, pids: SUBSET Pids]
  /\ stopper \in [pc: {"idle", "unlink"}, pids: SUBSET Pids]
  /\ inherited \in [tokens: [Tokens -> {"none", "stale"}],
                    budget: {"unset", "zero", "some"}]
  /\ configured \in BOOLEAN /\ overlapped \in BOOLEAN
  /\ unrecorded \subseteq Pids

\* One stack at a time, whatever is interrupted, killed or torn: a child that
\* outlives its launcher was asked to end, or is in the file `make stop` reads.
\* The one exception is a launcher that ended before its file was whole.
OrphansAreExplained ==
  ~overlapped =>
    \A p \in Pids :
      Live(p) /\ (\A l \in Launchers : p \notin Children(l))
        => process[p].asked \/ p \in stateFile.pids \/ p \in unrecorded

\* A child was given what its role and the surroundings allow.
Equipped(child) ==
  LET env == child.env
      held == {t \in Tokens : env.tokens[t] # "none"} IN
  /\ \A t \in held : env.tokens[t] = "fresh"
  /\ child.role = "frontend" => held = {} /\ ~env.cloud /\ env.budget = "zero"
  /\ env.cloud <=> held # {}
  /\ env.cloud /\ env.budget = "zero" => inherited.budget = "zero"
  /\ "fabric_iq" \in held => configured

\* Side by side or in turn, in whatever surroundings: no child is started with
\* an inherited token in its environment, a front end holds none and may call
\* nothing, and a back end that is allowed the cloud holds the tokens of a mode,
\* with no call to spend only where the surroundings say so.
ChildrenAreEquipped == \A p \in Pids : Live(p) => Equipped(process[p])
=============================================================================
