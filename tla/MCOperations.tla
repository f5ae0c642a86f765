---------------------------- MODULE MCOperations ----------------------------
(***************************************************************************)
(* The operator's side of the repository for TLC: the Fabric bootstrap,    *)
(* the table scripts and the development launcher.  They share no state,   *)
(* so a property of one is decided by the behaviours in which only that    *)
(* one moves: the scene says which, and the states to visit are the sum of *)
(* the three and not their product.                                        *)
(***************************************************************************)
EXTENDS FabricBootstrap, FabricTables, DevLauncher

VARIABLE scene \* the component that moves

operationsVars == <<bootstrapVars, tablesVars, launcherVars, scene>>

OperationsInit ==
  /\ scene \in {"bootstrap", "tables", "launcher"}
  /\ BootstrapInit /\ TablesInit /\ LauncherInit
  /\ scene # "bootstrap" => far = {}
  /\ scene # "launcher" => inherited.budget = "unset" /\ ~configured

BootstrapScene == /\ scene = "bootstrap"
                  /\ BootstrapNext
                  /\ UNCHANGED <<tablesVars, launcherVars, scene>>

TablesScene == /\ scene = "tables"
               /\ TablesNext
               /\ UNCHANGED <<bootstrapVars, launcherVars, scene>>

LauncherScene == /\ scene = "launcher"
                 /\ LauncherNext
                 /\ UNCHANGED <<bootstrapVars, tablesVars, scene>>

OperationsNext == BootstrapScene \/ TablesScene \/ LauncherScene

OperationsSpec == OperationsInit /\ [][OperationsNext]_operationsVars

\* Bound: two stacks side by side are followed until three processes are
\* spawned, stacks in turn to the end.
OverlapBound == overlapped => process[3] = NoProcess

\* Bound: a listing of workspaces that is too long is followed for two commands,
\* one to create a workspace and one that does not find it.
FarBound == far # {} => attempts <= 2

\* Bound: at most one load outlives its script; the steps of a second one in
\* Fabric are the same again.
LeftBound == Cardinality(left) <= 1

\* Bound: the last of four scripts is a load, after seedings and loads; an upload
\* or a Livy session is among three.
LastLoads == runs = MaxRuns => loader.run = runs /\ build = 0 /\ livy.session = 0

-----------------------------------------------------------------------------

\* Every variable of the three components has its type.
OperationsTypeOK == BootstrapTypeOK /\ TablesTypeOK /\ LauncherTypeOK
=============================================================================
