--------------------------- MODULE LauncherProofs ---------------------------
(***************************************************************************)
(* What DevLauncher guarantees for any number of terminals and of spawned  *)
(* processes, proved with TLAPS.                                           *)
(***************************************************************************)
EXTENDS DevLauncher, TLAPS

-----------------------------------------------------------------------------
(* Environments                                                            *)

\* What a child environment must be, by the mode it was built for.
Clean(mode, env) ==
  /\ env \in EnvironmentOK
  /\ \A t \in Tokens : env.tokens[t] = IF t \in Needs[mode] THEN "fresh" ELSE "none"
  /\ env.cloud <=> mode # "local"
  /\ mode = "local" => env.budget = "zero"

\* A mode needs tokens exactly if it allows the cloud.
LEMMA ModesNeedTokens ==
  \A m \in Modes : /\ Needs[m] \subseteq Tokens
                   /\ m # "local" <=> Needs[m] # {}
PROOF BY DEF Modes, Needs, Tokens

\* build_runtime_environment leaves nothing of the inherited tokens.
LEMMA EnvironmentsClean ==
  ASSUME NEW mode \in Modes, NEW base, base.budget \in {"unset", "zero", "some"}
  PROVE  /\ Clean(mode, Environment(mode, base))
         /\ (Environment(mode, base).budget = "zero" /\ mode # "local") => base.budget = "zero"
PROOF
<1> DEFINE env == Environment(mode, base)
<1>1. /\ env.cloud = (mode # "local")
      /\ env.tokens = [t \in Tokens |-> IF t \in Needs[mode] THEN "fresh" ELSE "none"]
      /\ env.budget = IF mode = "local" THEN "zero"
                      ELSE IF base.budget = "unset" THEN "some" ELSE base.budget
  BY DEF Environment
<1>2. env.budget \in {"zero", "some"} /\ (env.budget = "zero" /\ mode # "local" => base.budget = "zero")
  BY <1>1
<1>3. env.tokens \in [Tokens -> {"none", "stale", "fresh"}]
  BY <1>1
<1>4. env.cloud \in BOOLEAN
  BY <1>1
<1>5. env \in EnvironmentOK
  BY <1>2, <1>3, <1>4 DEF EnvironmentOK, Environment
<1> QED BY <1>1, <1>2, <1>5 DEF Clean

-----------------------------------------------------------------------------
(* The invariant                                                           *)

Asked(p) == Live(p) => process[p].asked

\* A launcher that is past its tokens has the resources its mode needs.
ModesConfigured ==
  \A l \in Launchers : launcher[l].pc \in {"backend", "frontend"} =>
    ("fabric_iq" \in Needs[launcher[l].mode] => configured)

\* A launcher has a back end from its first spawn to its end.
Stages ==
  \A l \in Launchers :
    IF launcher[l].pc \in {"idle", "token", "backend"} THEN Children(l) = {}
    ELSE /\ launcher[l].backend \in Pids
         /\ launcher[l].pc = "frontend" => launcher[l].frontend = NoPid

\* One stack at a time: whatever is not of that stack was asked to end.
OneStack ==
  ~overlapped =>
    \A l \in Launchers : Children(l) # {} =>
      /\ \A m \in Launchers : Children(m) # {} => m = l
      /\ \A p \in Pids \ Children(l) : Asked(p)

\* A stack that runs is recorded, or on its way out.
Recorded ==
  ~overlapped =>
    \A l \in Launchers : \A p \in Children(l) :
      /\ launcher[l].pc = "running" => Asked(p) \/ p \in stateFile.pids
      /\ launcher[l].pc = "waiting" => Asked(p)

\* `make stop` has asked all it is about to forget.
Stopping ==
  ~overlapped /\ stopper.pc = "unlink" =>
    /\ \A p \in stateFile.pids : Asked(p)
    /\ \A l \in Launchers : launcher[l].pc \notin {"frontend", "record"}

LauncherInv ==
  /\ LauncherTypeOK
  /\ ModesConfigured /\ ChildrenAreEquipped
  /\ Stages /\ OneStack /\ Recorded /\ Stopping /\ OrphansAreExplained

\* Every step keeps the types.
LEMMA LauncherTypeStep ==
  ASSUME LauncherTypeOK, [LauncherNext]_launcherVars
  PROVE  LauncherTypeOK'
PROOF
<1> USE DEF LauncherTypeOK, surroundings
<1>t. \A r \in TerminalOK, pc \in {"idle", "token", "backend", "frontend", "record", "running", "waiting"} :
        [r EXCEPT !.pc = pc] \in TerminalOK
  BY DEF TerminalOK
<1>r. AtRest \in TerminalOK
  BY DEF AtRest, TerminalOK, Modes
<1>s. \A r \in TerminalOK, p \in Pids :
        /\ [r EXCEPT !.pc = "frontend", !.backend = p] \in TerminalOK
        /\ [r EXCEPT !.pc = "record", !.frontend = p, !.mode = "local"] \in TerminalOK
  BY DEF TerminalOK, Modes
<1>a. \A ps : Ask(ps) \in [Pids -> {NoProcess, Gone} \union ChildOK]
  <2>1. \A c \in ChildOK : [c EXCEPT !.asked = TRUE] \in ChildOK
    BY DEF ChildOK
  <2> QED BY <2>1 DEF Ask, Live
<1>f. \A l \in Launchers : Children(l) \subseteq Pids
  BY DEF Children, TerminalOK
<1>1. ASSUME NEW l \in Launchers, NEW m \in Modes, Launch(l, m) PROVE LauncherTypeOK'
  BY <1>1, <1>r DEF Launch, TerminalOK
<1>2. ASSUME NEW l \in Launchers, AcquireTokens(l) PROVE LauncherTypeOK'
  <2>1. CASE Move(l, "backend")
    BY <1>2, <2>1, <1>t DEF AcquireTokens, Move
  <2>2. CASE GiveUp(l)
    BY <1>2, <2>2, <1>r DEF AcquireTokens, GiveUp
  <2> QED BY <1>2, <2>1, <2>2 DEF AcquireTokens
<1>3. ASSUME NEW l \in Launchers, SpawnBackend(l) PROVE LauncherTypeOK'
<2>1. PICK p \in FreePids :
        /\ process' = [process EXCEPT ![p] = Child("backend", StackEnv(l))]
        /\ launcher' = [launcher EXCEPT ![l].pc = "frontend", ![l].backend = p]
  BY <1>3 DEF SpawnBackend
<2>2. p \in Pids
  BY DEF FreePids
<2>3. StackEnv(l) \in EnvironmentOK
  BY EnvironmentsClean DEF StackEnv, Clean, TerminalOK
<2>4. Child("backend", StackEnv(l)) \in ChildOK
  BY <2>3 DEF Child, ChildOK
<2>5. process' \in [Pids -> {NoProcess, Gone} \union ChildOK]
  BY <2>1, <2>4
<2>6. launcher' \in [Launchers -> TerminalOK]
  BY <2>1, <2>2, <1>s
<2>7. overlapped' \in BOOLEAN
  BY <1>3 DEF SpawnBackend
<2> QED BY <1>3, <2>5, <2>6, <2>7 DEF SpawnBackend
<1>4. ASSUME NEW l \in Launchers, SpawnFrontend(l) PROVE LauncherTypeOK'
<2>1. CASE \E p \in FreePids :
        /\ process' = [process EXCEPT ![p] = Child("frontend", Environment("local", StackEnv(l)))]
        /\ launcher' = [launcher EXCEPT ![l].pc = "record", ![l].frontend = p, ![l].mode = "local"]
        /\ UNCHANGED unrecorded
  <3>1. PICK p \in Pids :
          /\ process' = [process EXCEPT ![p] = Child("frontend", Environment("local", StackEnv(l)))]
          /\ launcher' = [launcher EXCEPT ![l].pc = "record", ![l].frontend = p, ![l].mode = "local"]
    BY <2>1 DEF FreePids
  <3>2. StackEnv(l).budget \in {"unset", "zero", "some"}
    BY EnvironmentsClean DEF StackEnv, Clean, TerminalOK, EnvironmentOK
  <3>3. Environment("local", StackEnv(l)) \in EnvironmentOK
    BY <3>2, EnvironmentsClean DEF Clean, Modes
  <3>4. process' \in [Pids -> {NoProcess, Gone} \union ChildOK]
    BY <3>1, <3>3 DEF Child, ChildOK
  <3>5. launcher' \in [Launchers -> TerminalOK]
    BY <3>1, <1>s
  <3> QED BY <1>4, <2>1, <3>4, <3>5 DEF SpawnFrontend
<2>2. CASE GiveUp(l) /\ UNCHANGED process /\ unrecorded' = unrecorded \union Children(l)
  BY <1>4, <2>2, <1>r, <1>f DEF SpawnFrontend, GiveUp
<2> QED BY <1>4, <2>1, <2>2 DEF SpawnFrontend
<1>5. ASSUME NEW l \in Launchers, WriteState(l) PROVE LauncherTypeOK'
  BY <1>5, <1>t, <1>f DEF WriteState, Move
<1>6. ASSUME NEW l \in Launchers, Shutdown(l) PROVE LauncherTypeOK'
  BY <1>6, <1>t, <1>a DEF Shutdown, Move
<1>7. ASSUME NEW l \in Launchers, EndShutdown(l) PROVE LauncherTypeOK'
  BY <1>7, <1>r DEF EndShutdown, GiveUp, NoState
<1>8. ASSUME NEW l \in Launchers, LauncherDies(l) PROVE LauncherTypeOK'
  BY <1>8, <1>r, <1>f DEF LauncherDies, GiveUp, TornState
<1>9. ASSUME StopStack PROVE LauncherTypeOK'
<2>1. stopper' \in [pc: {"idle", "unlink"}, pids: SUBSET Pids]
  BY <1>9 DEF StopStack
<2>2. overlapped' \in BOOLEAN
  BY <1>9 DEF StopStack
<2> QED BY <1>9, <2>1, <2>2, <1>a DEF StopStack
<1>10. ASSUME Unlink PROVE LauncherTypeOK'
  BY <1>10 DEF Unlink, NoState
<1>11. ASSUME NEW p \in Pids, Exit(p) PROVE LauncherTypeOK'
  BY <1>11 DEF Exit
<1>u. CASE UNCHANGED launcherVars
  BY <1>u DEF launcherVars
<1> QED BY <1>u, <1>1, <1>2, <1>3, <1>4, <1>5, <1>6, <1>7, <1>8, <1>9, <1>10, <1>11 DEF LauncherNext

-----------------------------------------------------------------------------
(* ChildrenAreEquipped                                                     *)

\* A child started in a clean environment of its mode is equipped.
LEMMA CleanIsEquipped ==
  ASSUME NEW mode \in Modes, NEW env, NEW role, Clean(mode, env),
         role = "frontend" => mode = "local",
         mode # "local" /\ env.budget = "zero" => inherited.budget = "zero",
         "fabric_iq" \in Needs[mode] => configured
  PROVE  Equipped(Child(role, env))
PROOF
<1> DEFINE held == {t \in Tokens : env.tokens[t] # "none"}
<1>1. held = Needs[mode]
  BY ModesNeedTokens DEF Clean
<1>2. \A t \in held : env.tokens[t] = "fresh"
  BY DEF Clean
<1>3. env.cloud <=> held # {}
  BY <1>1, ModesNeedTokens DEF Clean
<1>4. mode = "local" => held = {} /\ ~env.cloud /\ env.budget = "zero"
  BY <1>1, ModesNeedTokens DEF Clean
<1>5. Child(role, env).env = env /\ Child(role, env).role = role
  BY DEF Child
<1> QED BY <1>1, <1>2, <1>3, <1>4, <1>5 DEF Equipped, Clean

\* Every step equips the child it starts, and leaves the others theirs.
LEMMA EquippedStep ==
  ASSUME LauncherTypeOK, ModesConfigured, ChildrenAreEquipped, [LauncherNext]_launcherVars
  PROVE  ModesConfigured' /\ ChildrenAreEquipped'
PROOF
<1> DEFINE Goal == ModesConfigured' /\ ChildrenAreEquipped'
<1>s. ASSUME UNCHANGED surroundings PROVE \A c : Equipped(c)' <=> Equipped(c)
  BY <1>s DEF surroundings, Equipped
<1>p. ASSUME UNCHANGED surroundings, UNCHANGED process PROVE ChildrenAreEquipped'
  BY <1>p DEF surroundings, Equipped, ChildrenAreEquipped, Live
<1>a. ASSUME UNCHANGED surroundings, NEW ps, process' = Ask(ps) PROVE ChildrenAreEquipped'
  <2>1. \A p \in Pids : Live(p)' => Live(p)
    BY <1>a DEF Ask, Live
  <2>2. \A p \in Pids : Live(p) => process'[p].env = process[p].env /\ process'[p].role = process[p].role
    BY <1>a DEF Ask, Live, LauncherTypeOK, ChildOK
  <2> QED BY <1>a, <2>1, <2>2 DEF surroundings, Equipped, ChildrenAreEquipped
<1>m. ASSUME NEW l \in Launchers, UNCHANGED surroundings, launcher'[l].pc \notin {"backend", "frontend"},
             \A k \in Launchers \ {l} : launcher'[k] = launcher[k]
      PROVE  ModesConfigured'
  BY <1>m DEF ModesConfigured, surroundings
<1>v. ASSUME NEW l \in Launchers, NEW pc, Move(l, pc)
      PROVE  launcher'[l].pc = pc /\ \A k \in Launchers \ {l} : launcher'[k] = launcher[k]
  BY <1>v DEF Move, LauncherTypeOK, TerminalOK
<1>g. ASSUME NEW l \in Launchers, GiveUp(l)
      PROVE  launcher'[l].pc = "idle" /\ \A k \in Launchers \ {l} : launcher'[k] = launcher[k]
  BY <1>g DEF GiveUp, AtRest, LauncherTypeOK
<1>1. ASSUME NEW l \in Launchers, NEW m \in Modes, Launch(l, m) PROVE Goal
<2>1. ModesConfigured'
  BY <1>1 DEF Launch, ModesConfigured, surroundings, AtRest, LauncherTypeOK, TerminalOK
<2> QED BY <1>1, <2>1, <1>p DEF Launch
<1>2. ASSUME NEW l \in Launchers, AcquireTokens(l) PROVE Goal
<2>1. ModesConfigured'
  <3>1. CASE Move(l, "backend") /\ ("fabric_iq" \in Needs[launcher[l].mode] => configured)
    BY <1>2, <3>1 DEF AcquireTokens, Move, ModesConfigured, surroundings, LauncherTypeOK, TerminalOK
  <3>2. CASE GiveUp(l)
    BY <1>2, <3>2, <1>m, <1>g DEF AcquireTokens
  <3> QED BY <1>2, <3>1, <3>2 DEF AcquireTokens
<2> QED BY <1>2, <2>1, <1>p DEF AcquireTokens
<1>3. ASSUME NEW l \in Launchers, SpawnBackend(l) PROVE Goal
<2>1. PICK p \in FreePids :
        /\ process' = [process EXCEPT ![p] = Child("backend", StackEnv(l))]
        /\ launcher' = [launcher EXCEPT ![l].pc = "frontend", ![l].backend = p]
  BY <1>3 DEF SpawnBackend
<2>2. ModesConfigured'
  BY <1>3, <2>1 DEF SpawnBackend, ModesConfigured, surroundings, LauncherTypeOK, TerminalOK
<2>3. /\ launcher[l].mode \in Modes /\ inherited.budget \in {"unset", "zero", "some"}
      /\ "fabric_iq" \in Needs[launcher[l].mode] => configured
  BY <1>3 DEF SpawnBackend, ModesConfigured, LauncherTypeOK, TerminalOK
<2>4. Equipped(Child("backend", StackEnv(l)))
  BY <2>3, EnvironmentsClean, CleanIsEquipped DEF StackEnv
<2>5. ChildrenAreEquipped'
  BY <1>3, <2>1, <2>4, <1>s DEF SpawnBackend, ChildrenAreEquipped, Live, LauncherTypeOK
<2> QED BY <2>2, <2>5
<1>4. ASSUME NEW l \in Launchers, SpawnFrontend(l) PROVE Goal
<2>1. CASE \E p \in FreePids :
        /\ process' = [process EXCEPT ![p] = Child("frontend", Environment("local", StackEnv(l)))]
        /\ launcher' = [launcher EXCEPT ![l].pc = "record", ![l].frontend = p, ![l].mode = "local"]
        /\ UNCHANGED unrecorded
  <3>1. PICK p \in Pids :
          /\ process' = [process EXCEPT ![p] = Child("frontend", Environment("local", StackEnv(l)))]
          /\ launcher' = [launcher EXCEPT ![l].pc = "record", ![l].frontend = p, ![l].mode = "local"]
    BY <2>1 DEF FreePids
  <3>2. ModesConfigured'
    BY <1>4, <3>1, <1>m DEF SpawnFrontend, LauncherTypeOK, TerminalOK
  <3>3. launcher[l].mode \in Modes /\ inherited.budget \in {"unset", "zero", "some"}
    BY DEF LauncherTypeOK, TerminalOK
  <3>4. StackEnv(l).budget \in {"unset", "zero", "some"}
    BY <3>3, EnvironmentsClean DEF StackEnv, Clean, EnvironmentOK
  <3>5. "local" \in Modes /\ Needs["local"] = {}
    BY ModesNeedTokens DEF Modes
  <3>6. Equipped(Child("frontend", Environment("local", StackEnv(l))))
    BY <3>4, <3>5, EnvironmentsClean, CleanIsEquipped
  <3>7. ChildrenAreEquipped'
    BY <1>4, <3>1, <3>6, <1>s DEF SpawnFrontend, ChildrenAreEquipped, Live, LauncherTypeOK
  <3> QED BY <3>2, <3>7
<2>2. CASE GiveUp(l) /\ UNCHANGED process
  BY <1>4, <2>2, <1>p, <1>m, <1>g DEF SpawnFrontend
<2> QED BY <1>4, <2>1, <2>2 DEF SpawnFrontend
<1>5. ASSUME NEW l \in Launchers, WriteState(l) PROVE Goal
  BY <1>5, <1>p, <1>m, <1>v DEF WriteState
<1>6. ASSUME NEW l \in Launchers, Shutdown(l) PROVE Goal
  BY <1>6, <1>a, <1>m, <1>v DEF Shutdown
<1>7. ASSUME NEW l \in Launchers, EndShutdown(l) PROVE Goal
  BY <1>7, <1>p, <1>m, <1>g DEF EndShutdown
<1>8. ASSUME NEW l \in Launchers, LauncherDies(l) PROVE Goal
  BY <1>8, <1>p, <1>m, <1>g DEF LauncherDies
<1>9. ASSUME StopStack PROVE Goal
  BY <1>9, <1>a DEF StopStack, ModesConfigured, surroundings
<1>10. ASSUME Unlink PROVE Goal
  BY <1>10, <1>p DEF Unlink, ModesConfigured, surroundings
<1>11. ASSUME NEW p \in Pids, Exit(p) PROVE Goal
<2>1. ChildrenAreEquipped'
  BY <1>11, <1>s DEF Exit, ChildrenAreEquipped, Live, LauncherTypeOK, Gone
<2> QED BY <1>11, <2>1 DEF Exit, ModesConfigured, surroundings
<1>u. CASE UNCHANGED launcherVars
  BY <1>u, <1>p DEF launcherVars, ModesConfigured, surroundings
<1> QED BY <1>u, <1>1, <1>2, <1>3, <1>4, <1>5, <1>6, <1>7, <1>8, <1>9, <1>10, <1>11 DEF LauncherNext

-----------------------------------------------------------------------------
(* OrphansAreExplained                                                     *)

\* No child has the pid that stands for none.
LEMMA ChildPids ==
  ASSUME LauncherTypeOK
  PROVE  /\ \A l \in Launchers : Children(l) \subseteq Pids
         /\ \A p \in Pids : p # NoPid
PROOF BY DEF LauncherTypeOK, TerminalOK, Children, Pids, NoPid

\* A terminal that goes on to another step keeps its children.
LEMMA MoveKeeps ==
  ASSUME LauncherTypeOK, NEW l \in Launchers, NEW pc, Move(l, pc)
  PROVE  /\ launcher'[l].pc = pc
         /\ \A m \in Launchers : Children(m)' = Children(m)
         /\ \A m \in Launchers \ {l} : launcher'[m] = launcher[m]
         /\ \A m \in Launchers : launcher'[m].backend = launcher[m].backend
PROOF BY DEF LauncherTypeOK, TerminalOK, Move, Children

\* A terminal whose launcher ended has none.
LEMMA GiveUpForgets ==
  ASSUME LauncherTypeOK, NEW l \in Launchers, GiveUp(l)
  PROVE  /\ launcher'[l].pc = "idle" /\ Children(l)' = {}
         /\ \A m \in Launchers \ {l} : launcher'[m] = launcher[m] /\ Children(m)' = Children(m)
PROOF BY DEF LauncherTypeOK, TerminalOK, GiveUp, AtRest, Children

\* SIGTERM to ps: those of them that live are asked, nothing else happens.
LEMMA AskAsks ==
  ASSUME LauncherTypeOK, NEW ps, process' = Ask(ps)
  PROVE  /\ \A p \in Pids : Live(p)' <=> Live(p)
         /\ \A p \in Pids : Asked(p)' <=> (Asked(p) \/ p \in ps)
PROOF
<1>1. \A p \in Pids : Live(p) => process[p] \in ChildOK
  BY DEF LauncherTypeOK, Live
<1>2. \A c \in ChildOK : /\ [c EXCEPT !.asked = TRUE].asked = TRUE
                        /\ [c EXCEPT !.asked = TRUE].role = c.role
                        /\ c.role # "none" /\ c.role # "gone"
  BY DEF ChildOK
<1>3. \A p \in Pids : process'[p] = IF p \in ps /\ Live(p)
                                   THEN [process[p] EXCEPT !.asked = TRUE] ELSE process[p]
  BY DEF Ask
<1>4. NoProcess.role = "none" /\ Gone.role = "gone"
  BY DEF NoProcess, Gone
<1>5. ASSUME NEW p \in Pids PROVE (Live(p)' <=> Live(p)) /\ (Asked(p)' <=> Asked(p) \/ p \in ps)
  <2>1. CASE p \in ps /\ Live(p)
    <3>1. process[p] \in ChildOK /\ process'[p] = [process[p] EXCEPT !.asked = TRUE]
      BY <2>1, <1>1, <1>3
    <3>2. process'[p].asked = TRUE /\ process'[p].role \notin {"none", "gone"}
      BY <3>1, <1>2
    <3>3. Live(p)'
      BY <3>2, <1>4 DEF Live
    <3> QED BY <2>1, <3>2, <3>3 DEF Asked
  <2>2. CASE p \notin ps \/ ~Live(p)
    BY <2>2, <1>3 DEF Live, Asked
  <2> QED BY <2>1, <2>2
<1> QED BY <1>5

\* Every step leaves a terminal at a stage that fits its children.
LEMMA StagesStep ==
  ASSUME LauncherTypeOK, Stages, [LauncherNext]_launcherVars
  PROVE  Stages'
PROOF
<1>k. ASSUME UNCHANGED launcher PROVE \A m \in Launchers : Children(m)' = Children(m)
  BY <1>k DEF Children
<1>1. ASSUME NEW l \in Launchers, NEW m \in Modes, Launch(l, m) PROVE Stages'
<2>1. Children(l)' = {} /\ launcher'[l].pc = "token" /\ \A k \in Launchers \ {l} : launcher'[k] = launcher[k] /\ Children(k)' = Children(k)
    BY <1>1 DEF Launch, AtRest, Children, LauncherTypeOK
<2> QED BY <2>1 DEF Stages
<1>2. ASSUME NEW l \in Launchers, AcquireTokens(l) PROVE Stages'
  BY <1>2, MoveKeeps, GiveUpForgets DEF AcquireTokens, Stages
<1>3. ASSUME NEW l \in Launchers, SpawnBackend(l) PROVE Stages'
<2>1. PICK p \in Pids : launcher' = [launcher EXCEPT ![l].pc = "frontend", ![l].backend = p]
  BY <1>3 DEF SpawnBackend, FreePids
<2>2. launcher'[l].pc = "frontend" /\ launcher'[l].backend = p /\ \A k \in Launchers \ {l} : launcher'[k] = launcher[k] /\ Children(k)' = Children(k)
  BY <2>1 DEF Children, LauncherTypeOK, TerminalOK
<2>3. launcher'[l].frontend = launcher[l].frontend
  BY <2>1 DEF LauncherTypeOK, TerminalOK
<2>4. launcher[l].frontend = NoPid
  BY <1>3 DEF SpawnBackend, Stages, Children
<2> QED BY <2>2, <2>3, <2>4 DEF Stages
<1>4. ASSUME NEW l \in Launchers, SpawnFrontend(l) PROVE Stages'
<2>1. CASE GiveUp(l)
  BY <2>1, GiveUpForgets DEF Stages
<2>2. ASSUME NEW p \in Pids, launcher' = [launcher EXCEPT ![l].pc = "record", ![l].frontend = p, ![l].mode = "local"] PROVE Stages'
  <3>1. launcher'[l].pc = "record" /\ launcher'[l].backend = launcher[l].backend
        /\ \A k \in Launchers \ {l} : launcher'[k] = launcher[k] /\ Children(k)' = Children(k)
    BY <2>2 DEF Children, LauncherTypeOK, TerminalOK
  <3>2. launcher[l].pc = "frontend"
    BY <1>4 DEF SpawnFrontend
  <3> QED BY <3>1, <3>2 DEF Stages
<2> QED BY <1>4, <2>1, <2>2 DEF SpawnFrontend, FreePids
<1>5. ASSUME NEW l \in Launchers, WriteState(l) PROVE Stages'
  BY <1>5, MoveKeeps DEF WriteState, Stages
<1>6. ASSUME NEW l \in Launchers, Shutdown(l) PROVE Stages'
  BY <1>6, MoveKeeps DEF Shutdown, Stages
<1>7. ASSUME NEW l \in Launchers, EndShutdown(l) PROVE Stages'
  BY <1>7, GiveUpForgets DEF EndShutdown, Stages
<1>8. ASSUME NEW l \in Launchers, LauncherDies(l) PROVE Stages'
  BY <1>8, GiveUpForgets DEF LauncherDies, Stages
<1>9. ASSUME StopStack PROVE Stages'
  BY <1>9, <1>k DEF StopStack, Stages
<1>10. ASSUME Unlink PROVE Stages'
  BY <1>10, <1>k DEF Unlink, Stages
<1>11. ASSUME NEW p \in Pids, Exit(p) PROVE Stages'
  BY <1>11, <1>k DEF Exit, Stages
<1>u. CASE UNCHANGED launcherVars
  BY <1>u, <1>k DEF launcherVars, Stages
<1> QED BY <1>u, <1>1, <1>2, <1>3, <1>4, <1>5, <1>6, <1>7, <1>8, <1>9, <1>10, <1>11 DEF LauncherNext

\* The part of the invariant about stacks and the state file.
StacksOK == OneStack /\ Recorded /\ Stopping /\ OrphansAreExplained

\* Every step keeps that part.
LEMMA StacksStep ==
  ASSUME LauncherTypeOK, Stages, StacksOK, [LauncherNext]_launcherVars
  PROVE  StacksOK'
PROOF
<1> USE DEF StacksOK
<1>p. ASSUME UNCHANGED process PROVE \A p : (Live(p)' <=> Live(p)) /\ (Asked(p)' <=> Asked(p))
  BY <1>p DEF Live, Asked
<1>o. OrphansAreExplained <=>
        (~overlapped => \A p \in Pids : (\A l \in Launchers : p \notin Children(l))
                          => Asked(p) \/ p \in stateFile.pids \/ p \in unrecorded)
  BY DEF OrphansAreExplained, Asked
<1>q. OrphansAreExplained' <=>
        (~overlapped' => \A p \in Pids : (\A l \in Launchers : p \notin Children(l)')
                          => Asked(p)' \/ p \in stateFile'.pids \/ p \in unrecorded')
  BY DEF OrphansAreExplained, Asked
<1>f. NoState.pids = {} /\ TornState.pids = {}
  BY DEF NoState, TornState
<1>c. \A l \in Launchers : Children(l) \subseteq Pids
  BY ChildPids
<1>s. ASSUME NEW l \in Launchers, launcher[l].pc \in {"frontend", "record", "running", "waiting"}
      PROVE  Children(l) # {}
  BY <1>s DEF Stages, Children, Pids, NoPid
<1>1. ASSUME NEW l \in Launchers, NEW m \in Modes, Launch(l, m) PROVE StacksOK'
<2>1. /\ UNCHANGED <<process, stateFile, stopper, unrecorded, overlapped>>
      /\ launcher[l].pc = "idle" /\ launcher'[l].pc = "token" /\ Children(l)' = {}
      /\ \A k \in Launchers \ {l} : launcher'[k] = launcher[k] /\ Children(k)' = Children(k)
  BY <1>1 DEF Launch, AtRest, Children, LauncherTypeOK
<2>2. \A k \in Launchers : Children(k)' = Children(k)
  BY <2>1 DEF Stages
<2> QED BY <2>1, <2>2, <1>p, <1>o, <1>q DEF OneStack, Recorded, Stopping
<1>2. ASSUME NEW l \in Launchers, AcquireTokens(l) PROVE StacksOK'
<2>1. /\ UNCHANGED <<process, stateFile, stopper, unrecorded, overlapped>>
      /\ launcher[l].pc = "token" /\ launcher'[l].pc \in {"idle", "backend"}
      /\ \A k \in Launchers \ {l} : launcher'[k] = launcher[k]
  BY <1>2, MoveKeeps, GiveUpForgets DEF AcquireTokens
<2>2. \A k \in Launchers : Children(k)' = Children(k)
  BY <1>2, MoveKeeps, GiveUpForgets DEF AcquireTokens, Stages
<2> QED BY <2>1, <2>2, <1>p, <1>o, <1>q DEF OneStack, Recorded, Stopping
<1>3. ASSUME NEW l \in Launchers, SpawnBackend(l) PROVE StacksOK'
<2> SUFFICES ASSUME ~overlapped' PROVE StacksOK'
  BY DEF OneStack, Recorded, Stopping, OrphansAreExplained
<2>1. PICK p \in FreePids :
        /\ process' = [process EXCEPT ![p] = Child("backend", StackEnv(l))]
        /\ launcher' = [launcher EXCEPT ![l].pc = "frontend", ![l].backend = p]
  BY <1>3 DEF SpawnBackend
<2>2. /\ p \in Pids /\ ~Live(p)
  BY DEF FreePids, Live
<2>3. /\ ~overlapped /\ stopper'.pc = "idle"
      /\ \A k \in Launchers : Children(k) = {}
      /\ \A q \in Pids : Live(q) => process[q].asked
  BY <1>3 DEF SpawnBackend, LauncherTypeOK
<2>4. /\ launcher'[l].pc = "frontend" /\ p \in Children(l)'
      /\ \A k \in Launchers \ {l} : launcher'[k] = launcher[k] /\ Children(k)' = {}
  <3>1. launcher'[l].pc = "frontend" /\ launcher'[l].backend = p /\ \A k \in Launchers \ {l} : launcher'[k] = launcher[k]
    BY <2>1 DEF LauncherTypeOK, TerminalOK
  <3>2. p # NoPid
    BY <2>2, ChildPids
  <3> QED BY <3>1, <3>2, <2>3 DEF Children
<2>5. \A q \in Pids \ {p} : Asked(q)'
  BY <2>1, <2>2, <2>3 DEF Live, Asked, LauncherTypeOK
<2>6. OneStack' /\ Recorded' /\ Stopping'
  BY <2>3, <2>4, <2>5 DEF OneStack, Recorded, Stopping
<2> QED BY <2>4, <2>5, <2>6, <1>q
<1>4. ASSUME NEW l \in Launchers, SpawnFrontend(l) PROVE StacksOK'
<2> SUFFICES ASSUME ~overlapped' PROVE StacksOK'
  BY DEF OneStack, Recorded, Stopping, OrphansAreExplained
<2>0. /\ ~overlapped /\ launcher[l].pc = "frontend" /\ Children(l) # {}
      /\ UNCHANGED <<stateFile, stopper, overlapped>> /\ stopper.pc # "unlink"
  BY <1>4, <1>s DEF SpawnFrontend, surroundings, Stopping
<2>1. /\ \A m \in Launchers \ {l} : Children(m) = {}
      /\ \A p \in Pids \ Children(l) : Asked(p)
  BY <2>0 DEF OneStack
<2>2. CASE \E p \in FreePids :
        /\ process' = [process EXCEPT ![p] = Child("frontend", Environment("local", StackEnv(l)))]
        /\ launcher' = [launcher EXCEPT ![l].pc = "record", ![l].frontend = p, ![l].mode = "local"]
        /\ UNCHANGED unrecorded
  <3>1. PICK p \in Pids :
          /\ process' = [process EXCEPT ![p] = Child("frontend", Environment("local", StackEnv(l)))]
          /\ launcher' = [launcher EXCEPT ![l].pc = "record", ![l].frontend = p, ![l].mode = "local"]
    BY <2>2 DEF FreePids
  <3>2. launcher[l].frontend = NoPid
    BY <2>0 DEF Stages
  <3>3. /\ launcher'[l].pc = "record" /\ Children(l) \subseteq Children(l)' /\ p \in Children(l)'
        /\ \A k \in Launchers \ {l} : launcher'[k] = launcher[k] /\ Children(k)' = {}
    BY <3>1, <3>2, <2>1, ChildPids DEF Children, LauncherTypeOK, TerminalOK
  <3>4. \A q \in Pids \ Children(l)' : Asked(q)'
    BY <3>1, <3>3, <2>1 DEF Live, Asked, LauncherTypeOK
  <3>5. OneStack' /\ Recorded' /\ Stopping'
    BY <2>0, <3>3, <3>4 DEF OneStack, Recorded, Stopping
  <3> QED BY <3>3, <3>4, <3>5, <1>q
<2>3. CASE GiveUp(l) /\ UNCHANGED process /\ unrecorded' = unrecorded \union Children(l)
  <3>1. \A k \in Launchers : Children(k)' = {}
    BY <2>3, <2>1, GiveUpForgets
  <3>2. OneStack' /\ Recorded' /\ Stopping'
    BY <2>0, <3>1 DEF OneStack, Recorded, Stopping
  <3> QED BY <2>1, <2>3, <3>2, <1>p, <1>q
<2> QED BY <1>4, <2>2, <2>3 DEF SpawnFrontend
<1>5. ASSUME NEW l \in Launchers, WriteState(l) PROVE StacksOK'
<2> SUFFICES ASSUME ~overlapped' PROVE StacksOK'
  BY DEF OneStack, Recorded, Stopping, OrphansAreExplained
<2>0. /\ ~overlapped /\ launcher[l].pc = "record" /\ Children(l) # {}
      /\ UNCHANGED <<process, stopper, unrecorded, overlapped>> /\ stopper.pc # "unlink"
      /\ stateFile'.pids = Children(l) /\ Move(l, "running")
  BY <1>5, <1>s DEF WriteState, Stopping
<2>1. /\ \A m \in Launchers \ {l} : Children(m) = {}
      /\ \A p \in Pids \ Children(l) : Asked(p)
  BY <2>0 DEF OneStack
<2>2. \A m \in Launchers : Children(m)' = Children(m)
  BY <2>0, MoveKeeps
<2>3. OneStack' /\ Recorded' /\ Stopping'
  BY <2>0, <2>1, <2>2, <1>p, MoveKeeps DEF OneStack, Recorded, Stopping
<2> QED BY <2>0, <2>1, <2>2, <2>3, <1>p, <1>q
<1>6. ASSUME NEW l \in Launchers, Shutdown(l) PROVE StacksOK'
<2>0. /\ launcher[l].pc = "running"
      /\ UNCHANGED <<stateFile, stopper, unrecorded, overlapped>>
      /\ process' = Ask(Children(l)) /\ Move(l, "waiting")
  BY <1>6 DEF Shutdown, surroundings
<2>1. \A p \in Pids : Asked(p)' <=> Asked(p) \/ p \in Children(l)
  BY <2>0, AskAsks
<2>2. /\ launcher'[l].pc = "waiting"
      /\ \A m \in Launchers : Children(m)' = Children(m)
      /\ \A m \in Launchers \ {l} : launcher'[m] = launcher[m]
  BY <2>0, MoveKeeps
<2>p. stateFile.pids \subseteq Pids
  BY DEF LauncherTypeOK
<2>3. OneStack' /\ Recorded'
  BY <2>0, <2>1, <2>2, <1>c DEF OneStack, Recorded
<2>4. Stopping'
  BY <2>0, <2>1, <2>2, <2>p DEF Stopping
<2> QED BY <2>0, <2>1, <2>2, <2>3, <2>4, <1>o, <1>q
<1>7. ASSUME NEW l \in Launchers, EndShutdown(l) PROVE StacksOK'
<2> SUFFICES ASSUME ~overlapped' PROVE StacksOK'
  BY DEF OneStack, Recorded, Stopping, OrphansAreExplained
<2>0. /\ ~overlapped /\ launcher[l].pc = "waiting" /\ Children(l) # {}
      /\ UNCHANGED <<process, stopper, unrecorded, overlapped>>
      /\ stateFile'.pids = {} /\ GiveUp(l)
  BY <1>7, <1>s, <1>f DEF EndShutdown, surroundings
<2>1. /\ \A m \in Launchers \ {l} : Children(m) = {}
      /\ \A p \in Pids : Asked(p)
  BY <2>0 DEF OneStack, Recorded
<2>2. \A m \in Launchers : Children(m)' = {}
  BY <2>0, <2>1, GiveUpForgets
<2>3. OneStack' /\ Recorded' /\ Stopping'
  BY <2>0, <2>1, <2>2, <1>p, GiveUpForgets DEF OneStack, Recorded, Stopping
<2> QED BY <2>1, <2>3, <1>p, <1>q, <2>0
<1>8. ASSUME NEW l \in Launchers, LauncherDies(l) PROVE StacksOK'
<2> SUFFICES ASSUME ~overlapped' PROVE StacksOK'
  BY DEF OneStack, Recorded, Stopping, OrphansAreExplained
<2>0. /\ ~overlapped /\ GiveUp(l)
      /\ UNCHANGED <<process, stopper, overlapped>>
      /\ launcher[l].pc \in {"frontend", "record"} => unrecorded' = unrecorded \union Children(l)
      /\ launcher[l].pc \notin {"frontend", "record"} => UNCHANGED unrecorded
      /\ stateFile' = stateFile \/ (stateFile'.pids = {} /\ launcher[l].pc = "record")
  BY <1>8, <1>f DEF LauncherDies, surroundings
<2>1. ASSUME Children(l) # {} PROVE (\A m \in Launchers \ {l} : Children(m) = {}) /\ \A p \in Pids \ Children(l) : Asked(p)
  BY <2>0, <2>1 DEF OneStack
<2>2. /\ Children(l)' = {} /\ launcher'[l].pc = "idle"
      /\ \A m \in Launchers \ {l} : launcher'[m] = launcher[m] /\ Children(m)' = Children(m)
  BY <2>0, GiveUpForgets
<2>3. OneStack'
  BY <2>0, <2>2, <1>p DEF OneStack
<2>4. Recorded'
  BY <2>0, <2>1, <2>2, <1>p, <1>s DEF Recorded
<2>5. Stopping'
  BY <2>0, <2>2, <1>p DEF Stopping
<2>6. ASSUME NEW p \in Pids, \A m \in Launchers : p \notin Children(m)'
      PROVE  Asked(p)' \/ p \in stateFile'.pids \/ p \in unrecorded'
  <3>1. CASE p \in Children(l)
    <4>1. launcher[l].pc \in {"frontend", "record", "running", "waiting"}
      BY <3>1 DEF Stages, LauncherTypeOK, TerminalOK
    <4> QED BY <4>1, <3>1, <2>0, <1>p DEF Recorded
  <3>2. CASE p \notin Children(l)
    <4>1. \A m \in Launchers : p \notin Children(m)
      BY <3>2, <2>2, <2>6
    <4>2. CASE Children(l) # {}
      BY <4>2, <2>1, <3>2, <1>p, <2>0
    <4>3. CASE Children(l) = {}
      BY <4>1, <4>3, <2>0, <1>o, <1>p, <1>s
    <4> QED BY <4>2, <4>3
  <3> QED BY <3>1, <3>2
<2> QED BY <2>3, <2>4, <2>5, <2>6, <1>q
<1>9. ASSUME StopStack PROVE StacksOK'
<2> SUFFICES ASSUME ~overlapped' PROVE StacksOK'
  BY DEF OneStack, Recorded, Stopping, OrphansAreExplained
<2>0. /\ ~overlapped /\ process' = Ask(stateFile.pids)
      /\ UNCHANGED <<launcher, stateFile, unrecorded>>
      /\ \A l \in Launchers : launcher[l].pc \notin {"frontend", "record"}
  BY <1>9 DEF StopStack, surroundings, LauncherTypeOK
<2>1. stateFile.pids \subseteq Pids
  BY DEF LauncherTypeOK
<2>2. \A p \in Pids : Asked(p)' <=> Asked(p) \/ p \in stateFile.pids
  BY <2>0, AskAsks
<2>3. \A l \in Launchers : Children(l)' = Children(l)
  BY <2>0 DEF Children
<2>4. OneStack' /\ Recorded' /\ Stopping'
  BY <2>0, <2>1, <2>2, <2>3, <1>c DEF OneStack, Recorded, Stopping
<2> QED BY <2>0, <2>2, <2>3, <2>4, <1>o, <1>q
<1>10. ASSUME Unlink PROVE StacksOK'
<2> SUFFICES ASSUME ~overlapped' PROVE StacksOK'
  BY DEF OneStack, Recorded, Stopping, OrphansAreExplained
<2>0. /\ ~overlapped /\ stopper'.pc = "idle" /\ UNCHANGED <<process, launcher, unrecorded>>
      /\ \A p \in stateFile.pids : Asked(p)
  BY <1>10 DEF Unlink, surroundings, Stopping
<2>1. \A l \in Launchers : Children(l)' = Children(l)
  BY <2>0 DEF Children
<2>2. OneStack' /\ Recorded' /\ Stopping'
  BY <2>0, <2>1, <1>p DEF OneStack, Recorded, Stopping
<2> QED BY <2>0, <2>1, <2>2, <1>o, <1>p, <1>q
<1>11. ASSUME NEW p \in Pids, Exit(p) PROVE StacksOK'
<2>0. /\ UNCHANGED <<launcher, stateFile, stopper, unrecorded, overlapped>>
      /\ \A q \in Pids : Asked(q) => Asked(q)'
  BY <1>11 DEF Exit, surroundings, Asked, Live, LauncherTypeOK
<2>1. \A l \in Launchers : Children(l)' = Children(l)
  BY <2>0 DEF Children
<2>p. stateFile.pids \subseteq Pids
  BY DEF LauncherTypeOK
<2>2. OneStack' /\ Recorded' /\ Stopping'
  BY <2>0, <2>1, <2>p, <1>c DEF OneStack, Recorded, Stopping
<2> QED BY <2>0, <2>1, <2>2, <1>o, <1>q
<1>u. CASE UNCHANGED launcherVars
  <2>1. \A l \in Launchers : Children(l)' = Children(l)
    BY <1>u DEF launcherVars, Children
  <2> QED BY <1>u, <2>1, <1>p, <1>o, <1>q DEF launcherVars, OneStack, Recorded, Stopping
<1> QED BY <1>u, <1>1, <1>2, <1>3, <1>4, <1>5, <1>6, <1>7, <1>8, <1>9, <1>10, <1>11 DEF LauncherNext

-----------------------------------------------------------------------------
(* The theorems                                                            *)

\* Nothing runs at first, and no state file is left.
LEMMA LauncherInvInit == LauncherInit => LauncherInv
PROOF
<1> SUFFICES ASSUME LauncherInit PROVE LauncherInv
  OBVIOUS
<1>1. \A p \in Pids : ~Live(p)
  BY DEF LauncherInit, Live
<1>2. \A l \in Launchers : launcher[l] = AtRest /\ Children(l) = {}
  BY DEF LauncherInit, AtRest, Children
<1>3. LauncherTypeOK
  <2>1. AtRest \in TerminalOK
    BY DEF AtRest, TerminalOK, Modes
  <2> QED BY <2>1 DEF LauncherInit, LauncherTypeOK, NoState
<1>4. ModesConfigured /\ Stages
  BY <1>2 DEF ModesConfigured, Stages, AtRest
<1>5. ChildrenAreEquipped /\ OrphansAreExplained
  BY <1>1 DEF ChildrenAreEquipped, OrphansAreExplained
<1>6. OneStack /\ Recorded /\ Stopping
  BY <1>2 DEF LauncherInit, OneStack, Recorded, Stopping
<1> QED BY <1>3, <1>4, <1>5, <1>6 DEF LauncherInv

\* Every step of every terminal, child and operator keeps the invariant.
LEMMA LauncherInvStep == LauncherInv /\ [LauncherNext]_launcherVars => LauncherInv'
PROOF BY LauncherTypeStep, EquippedStep, StagesStep, StacksStep DEF LauncherInv, StacksOK

\* Whatever is launched, interrupted, killed or stopped, in any number of
\* terminals, the invariant holds.
THEOREM LauncherInvariance == LauncherSpec => []LauncherInv
PROOF BY LauncherInvInit, LauncherInvStep, PTL DEF LauncherSpec

\* build_runtime_environment, for any number of launchers side by side: no child
\* starts with an inherited token, and each with what its role allows.
THEOREM ChildrenEquipped == LauncherSpec => []ChildrenAreEquipped
PROOF
<1>1. LauncherInv => ChildrenAreEquipped
  BY DEF LauncherInv
<1> QED BY <1>1, LauncherInvariance, PTL

\* DevStack and stop_dev_stack, for stacks that are started in turn, in any
\* number: nobody is left alive who was not asked to end, is not in the file
\* and was not lost before his launcher had written it.
THEOREM OrphansExplained == LauncherSpec => []OrphansAreExplained
PROOF
<1>1. LauncherInv => OrphansAreExplained
  BY DEF LauncherInv
<1> QED BY <1>1, LauncherInvariance, PTL
=============================================================================
