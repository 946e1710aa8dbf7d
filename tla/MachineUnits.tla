---------------------------- MODULE MachineUnits ----------------------------
(***************************************************************************)
(* Which machines run which applications: the node rows of clusterd with   *)
(* their roles and machine ids, the machines and the application units of  *)
(* the Juju machine model, the machine_ids that Sunbeam stores with the    *)
(* Terraform variables of each application, and the Kubernetes endpoint    *)
(* that clusterd and Juju know, under the local provider's `bootstrap`,    *)
(* `join` and `remove` commands and the commands that reapply the          *)
(* hypervisor plan.                                                        *)
(*                                                                         *)
(* A command is the list of its steps, run one after the other until one   *)
(* fails.  A step that deploys an application reads the ids from the rows, *)
(* stores them, and runs terraform under the lock of its plan: each of     *)
(* these is an action, so that commands interleave there.  Steps that      *)
(* repeat the previous one and those that touch neither machines, units    *)
(* nor the endpoint are left out of the lists.                             *)
(***************************************************************************)
EXTENDS Integers, FiniteSets, Sequences

CONSTANTS
  Nodes,        \* the machines of the operators
  Seed,         \* the one that bootstraps the cluster
  RolesOf,      \* the roles each node is given, by bootstrap or join
  Apps,         \* the machine applications considered
  Admins,       \* the sessions that run the other commands
  Forceful,     \* the sessions that remove with --force
  Fallible,     \* the nodes and sessions whose command may fail or be killed
  MaxMachines,  \* bound: machines ever added to the Juju model
  Replicas,     \* ceph_replica_scale: 3
  Exclusion,    \* "all", "node": the operators run one command at a time, in
                \* all or for a node, "none": any two
  LateReport,   \* whether Juju may report a machine after the wait for it
  None          \* no node, no command

AllApps == {"sunbeam-machine", "k8s", "role-distributor", "microovn",
            "microceph", "cinder-volume", "openstack-hypervisor"}

AllRoles == {"control", "compute", "storage", "network"}

ASSUME SeedAssumption == Seed \in Nodes /\ None \notin Nodes \union Admins
ASSUME AdminsAssumption == Nodes \intersect Admins = {}
ASSUME RolesAssumption == RolesOf \in [Nodes -> SUBSET AllRoles]
ASSUME AppsAssumption == Apps \subseteq AllApps
ASSUME ExclusionAssumption == Exclusion \in {"all", "node", "none"}
ASSUME BoundAssumption == MaxMachines \in Nat \ {0} /\ Replicas \in Nat \ {0}

VARIABLES
  rows,         \* clusterd: the nodes that have a row
  machineid,    \* clusterd: the machine id in the row of a node
  bootstrapped, \* clusterd: the sunbeam_bootstrapped flag
  stored,       \* clusterd: machine_ids in the Terraform variables of an app
  kubeconfig,   \* clusterd: the machine the stored kubeconfig points at
  added,        \* Juju: the machines ever added; their ids count up from 0
  host,         \* Juju: the node behind a machine, None when it is no machine
  reported,     \* Juju: the machines that have reported their address
  units,        \* Juju: the machines an application has a unit on
  cloud,        \* Juju: the machine its k8s cloud points at
  lock,         \* the lock of the Terraform plan of an application
  todo,         \* the steps a command has left; empty: there is no command
  phase,        \* how far it is in the first of them
  ids,          \* the machine ids it passes to terraform
  found,        \* the message of its AddJujuMachineStep
  target,       \* the node a session removes
  joined,       \* history: nodes that joined, and are not being removed
  removed       \* history: nodes whose removal was reported, until they join

rowVars == <<rows, machineid, bootstrapped>>
planVars == <<stored, units, lock>>
jujuVars == <<added, host, reported>>
endpointVars == <<kubeconfig, cloud>>
procVars == <<todo, phase, ids, found, target>>
history == <<joined, removed>>
vars == <<rowVars, planVars, jujuVars, endpointVars, procVars, history>>

Procs == Nodes \union Admins
MachineIds == 0..(MaxMachines - 1)
NoMachine == -1
machines == {m \in MachineIds : host[m] # None}

\* Most plans are given the ids of the rows, which are numbers, and the OVN
\* plans their str; in Python, and in the JSON stored, the two differ.
AsInt(m) == <<"int", m>>
AsStr(m) == <<"str", m>>
AsStored(app, m) == IF app \in {"microovn", "role-distributor"} THEN AsStr(m) ELSE AsInt(m)
StoredIds == {AsInt(m) : m \in MachineIds} \union {AsStr(m) : m \in MachineIds}

\* The roles whose nodes run an application.
AppRoles ==
  [app \in AllApps |->
     CASE app = "sunbeam-machine" -> {"control", "compute", "storage"}
       [] app = "microovn" -> {"control", "compute", "network"}
       [] app \in {"k8s", "role-distributor"} -> {"control"}
       [] app \in {"microceph", "cinder-volume"} -> {"storage"}
       [] app = "openstack-hypervisor" -> {"compute"}]

Runs(n, app) == RolesOf[n] \intersect AppRoles[app] # {}

\* The ids of the rows by role, without the -1 of nodes that have none yet.
RowIds(app) == {machineid[n] : n \in {k \in rows : Runs(k, app)}} \ {NoMachine}

-----------------------------------------------------------------------------
(* The steps of the commands.                                              *)

Step(op, app) == [op |-> op, app |-> app]
Plain(op) == <<Step(op, "-")>>
OnApp(op, app) == IF app \in Apps THEN <<Step(op, app)>> ELSE <<>>
Deploy(app) == OnApp("deploy", app)
Remove(app) == OnApp("remove", app)
If(cond, steps) == IF cond THEN steps ELSE <<>>

Has(n, role) == role \in RolesOf[n]

DeploySunbeamMachineApplicationStep == Deploy("sunbeam-machine")
DeployK8SApplicationStep == Deploy("k8s")
DeployRoleDistributorApplicationStep == Deploy("role-distributor")
DeployMicroOVNApplicationStep == Deploy("microovn")
DeployMicrocephApplicationStep == Deploy("microceph")
DeployCinderVolumeApplicationStep == Deploy("cinder-volume")
DeployHypervisorApplicationStep == Deploy("openstack-hypervisor")
\* Its targets depend on the application, which terraform applies with them.
ReapplyHypervisorOptionalIntegrationsStep == Deploy("openstack-hypervisor")
ReapplyHypervisorTerraformPlanStep == OnApp("reapply", "openstack-hypervisor")
\* Both read the rows again.
ReapplyRoleDistributorApplicationStep == Deploy("role-distributor")
ReapplyMicroOVNTerraformPlanStep == Deploy("microovn")

RemoveCinderVolumeUnitsStep == Remove("cinder-volume")
RemoveMicrocephUnitsStep == Remove("microceph")
RemoveMicroOVNUnitsStep == Remove("microovn")
RemoveRoleDistributorUnitsStep == Remove("role-distributor")
RemoveK8SUnitsStep == Remove("k8s")
RemoveSunbeamMachineUnitsStep == Remove("sunbeam-machine")

is_microovn_necessary(n) == Runs(n, "microovn")

get_k8s_plans ==
  DeployK8SApplicationStep \o If("k8s" \in Apps, Plain("store-kubeconfig"))

BootstrapPlan ==
  Plain("row") \o Plain("machine")
  \o DeploySunbeamMachineApplicationStep
  \o get_k8s_plans \o If("k8s" \in Apps, Plain("cloud"))
  \o If(is_microovn_necessary(Seed),
        DeployRoleDistributorApplicationStep \o DeployMicroOVNApplicationStep)
  \o DeployMicrocephApplicationStep \o DeployCinderVolumeApplicationStep
  \o DeployHypervisorApplicationStep
  \o Plain("bootstrapped")

JoinPlan(n) ==
  Plain("row") \o Plain("machine") \o Plain("update")
  \o DeploySunbeamMachineApplicationStep
  \o If(Has(n, "control"), DeployK8SApplicationStep)
  \o If(is_microovn_necessary(n),
        DeployRoleDistributorApplicationStep \o DeployMicroOVNApplicationStep)
  \o If(Has(n, "storage"),
        DeployMicrocephApplicationStep \o DeployCinderVolumeApplicationStep
        \o ReapplyHypervisorOptionalIntegrationsStep)
  \o If(Has(n, "compute"),
        DeployHypervisorApplicationStep \o ReapplyHypervisorTerraformPlanStep)

RemovePlan ==
  OnApp("check", "cinder-volume") \o OnApp("check", "microceph")
  \o If("k8s" \in Apps, Plain("migrate") \o Plain("cloud"))
  \o OnApp("remove-hypervisor", "openstack-hypervisor")
  \o RemoveCinderVolumeUnitsStep \o RemoveMicrocephUnitsStep
  \o RemoveMicroOVNUnitsStep
  \o If(RowIds("microovn") # {}, RemoveRoleDistributorUnitsStep)
  \o RemoveK8SUnitsStep \o RemoveSunbeamMachineUnitsStep
  \o Plain("remove-machine") \o Plain("remove-row")
  \o If(RowIds("microovn") # {},
        ReapplyRoleDistributorApplicationStep \o ReapplyMicroOVNTerraformPlanStep)

Ops == {"row", "machine", "update", "deploy", "reapply", "store-kubeconfig",
        "cloud", "bootstrapped", "check", "migrate", "remove",
        "remove-hypervisor", "remove-machine", "remove-row"}

TypeOK ==
  /\ rows \subseteq Nodes
  /\ machineid \in [Nodes -> MachineIds \union {NoMachine}]
  /\ bootstrapped \in BOOLEAN
  /\ stored \in [Apps -> SUBSET StoredIds]
  /\ kubeconfig \in MachineIds \union {NoMachine}
  /\ cloud \in MachineIds \union {NoMachine}
  /\ added \in 0..MaxMachines
  /\ host \in [MachineIds -> Nodes \union {None}]
  /\ reported \subseteq machines
  /\ units \in [Apps -> SUBSET machines]
  /\ lock \in [Apps -> Procs \union {None}]
  /\ todo \in [Procs -> Seq([op : Ops, app : Apps \union {"-"}])]
  /\ phase \in [Procs -> {"step", "write", "apply", "applying"}]
  /\ ids \in [Procs -> SUBSET StoredIds]
  /\ found \in [Nodes -> MachineIds \union {NoMachine}]
  /\ target \in [Admins -> Nodes]
  /\ joined \subseteq Nodes
  /\ removed \subseteq Nodes

Init ==
  /\ rows = {} /\ bootstrapped = FALSE
  /\ machineid = [n \in Nodes |-> NoMachine]
  /\ stored = [app \in Apps |-> {}]
  /\ kubeconfig = NoMachine /\ cloud = NoMachine
  /\ added = 0
  /\ host = [m \in MachineIds |-> None]
  /\ reported = {}
  /\ units = [app \in Apps |-> {}]
  /\ lock = [app \in Apps |-> None]
  /\ todo = [p \in Procs |-> <<>>]
  /\ phase = [p \in Procs |-> "step"]
  /\ ids = [p \in Procs |-> {}]
  /\ found = [n \in Nodes |-> NoMachine]
  /\ target = [a \in Admins |-> Seed]
  /\ joined = {} /\ removed = {}

-----------------------------------------------------------------------------
(* run_plan: the steps in order, up to the first that fails.               *)

At(p, op) ==
  /\ todo[p] # <<>>
  /\ Head(todo[p]).op = op
  /\ phase[p] = "step"

App(p) == Head(todo[p]).app

\* The step completes or is skipped.
Proceed(p) ==
  /\ todo' = [todo EXCEPT ![p] = Tail(todo[p])]
  /\ phase' = [phase EXCEPT ![p] = "step"]

\* The step fails, and the command with it.
Fail(p) ==
  /\ todo' = [todo EXCEPT ![p] = <<>>]
  /\ phase' = [phase EXCEPT ![p] = "step"]

\* A node whose command completes has joined, a node that a session has
\* removed is gone.
Done(p) ==
  LET last == Len(todo[p]) = 1
  IN  IF p \in Nodes
        THEN /\ joined' = IF last THEN joined \union {p} ELSE joined
             /\ UNCHANGED removed
        ELSE /\ removed' = IF last /\ Head(todo[p]).op # "reapply"
                             THEN removed \union {target[p]} ELSE removed
             /\ UNCHANGED joined

Continue(p) == Proceed(p) /\ Done(p)
Stop(p) == Fail(p) /\ UNCHANGED history

\* The commands that run, and the nodes they add or remove.
Running == {p \in Procs : todo[p] # <<>>}
Removing == {a \in Running \intersect Admins : Head(todo[a]).op # "reapply"}
Busy == (Running \intersect Nodes) \union {target[a] : a \in Removing}

Begin(p, n, plan) ==
  /\ todo[p] = <<>>
  /\ Exclusion = "all" => Running = {}
  /\ Exclusion = "node" => n \notin Busy
  /\ todo' = [todo EXCEPT ![p] = plan]
  /\ UNCHANGED <<phase, ids, found, rowVars, planVars, jujuVars, endpointVars>>

StartBootstrap ==
  /\ ~bootstrapped
  /\ Begin(Seed, Seed, BootstrapPlan)
  /\ UNCHANGED <<target, history>>

\* A node joins, for the first time or again after a failure or a removal.
StartJoin(n) ==
  /\ bootstrapped /\ n # Seed /\ n \notin joined
  /\ Begin(n, n, JoinPlan(n))
  /\ removed' = removed \ {n}
  /\ UNCHANGED <<target, joined>>

StartRemove(a, n) ==
  /\ bootstrapped
  /\ Begin(a, n, RemovePlan)
  /\ target' = [target EXCEPT ![a] = n]
  /\ joined' = joined \ {n}
  /\ UNCHANGED removed

\* The commands that configure networking and the features that end with
\* ReapplyHypervisorTerraformPlanStep.
StartReapply(a) ==
  /\ bootstrapped /\ "openstack-hypervisor" \in Apps
  /\ Begin(a, None, ReapplyHypervisorTerraformPlanStep)
  /\ UNCHANGED <<target, history>>

\* The command fails in the middle of a step or is killed; terraform may
\* leave the lock of the plan behind.
Abort(p) ==
  /\ p \in Fallible
  /\ todo[p] # <<>>
  /\ Stop(p)
  /\ \/ UNCHANGED lock
     \/ /\ phase[p] = "applying"
        /\ lock' = [lock EXCEPT ![App(p)] = None]
  /\ ids' = [ids EXCEPT ![p] = {}]
  /\ UNCHANGED <<rowVars, stored, units, jujuVars, endpointVars, found, target>>

\* `sunbeam plans unlock`, for a lock that was left behind.
Unlock(app) ==
  /\ lock[app] # None
  /\ LET p == lock[app] IN ~(phase[p] = "applying" /\ App(p) = app)
  /\ lock' = [lock EXCEPT ![app] = None]
  /\ UNCHANGED <<rowVars, stored, units, jujuVars, endpointVars, procVars, history>>

-----------------------------------------------------------------------------
(* The row and the machine of a node.                                      *)

\* ClusterInitStep, which writes machine id 0, and ClusterJoinNodeStep; both
\* are skipped on a node that is in the cluster.
AddRow(n) ==
  /\ At(n, "row")
  /\ Continue(n)
  /\ rows' = rows \union {n}
  /\ machineid' = [machineid EXCEPT ![n] = IF n \in rows THEN machineid[n]
                                           ELSE IF n = Seed THEN 0 ELSE NoMachine]
  /\ UNCHANGED <<bootstrapped, planVars, jujuVars, endpointVars, ids, found, target>>

\* Mutant of AddJujuMachine: a skipped step does not tell the machine id.
AddJujuMachineSilent(n) ==
  LET mine == {m \in machines : host[m] = n}
  IN  /\ At(n, "machine")
      /\ \/ /\ mine # {}
            /\ found' = [found EXCEPT ![n] = NoMachine]
            /\ UNCHANGED jujuVars
         \/ /\ mine = {} /\ added < MaxMachines
            /\ added' = added + 1
            /\ host' = [host EXCEPT ![added] = n]
            /\ reported' = reported \union {added}
            /\ found' = [found EXCEPT ![n] = added]
      /\ Continue(n)
      /\ UNCHANGED <<rowVars, planVars, endpointVars, ids, target>>

\* AddJujuMachineStep: skipped when Juju shows the address of the node;
\* otherwise the machine is added and waited for, and the step answers "-1"
\* if it is not reported in time.  Juju refuses to add a host twice.
AddJujuMachine(n) ==
  LET mine == {m \in machines : host[m] = n}
  IN  /\ At(n, "machine")
      /\ \/ \E m \in mine \intersect reported :
              /\ found' = [found EXCEPT ![n] = m]
              /\ Continue(n)
              /\ UNCHANGED jujuVars
         \/ /\ mine # {} /\ mine \intersect reported = {}
            /\ Stop(n)
            /\ UNCHANGED <<found, jujuVars>>
         \/ /\ mine = {} /\ added < MaxMachines
            /\ added' = added + 1
            /\ host' = [host EXCEPT ![added] = n]
            /\ \/ /\ reported' = reported \union {added}
                  /\ found' = [found EXCEPT ![n] = added]
               \/ /\ LateReport
                  /\ found' = [found EXCEPT ![n] = NoMachine]
                  /\ UNCHANGED reported
            /\ Continue(n)
      /\ UNCHANGED <<rowVars, planVars, endpointVars, ids, target>>

\* The machine agent reports its address after the wait.
Report(m) ==
  /\ m \in machines \ reported
  /\ reported' = reported \union {m}
  /\ UNCHANGED <<rowVars, planVars, added, host, endpointVars, procVars, history>>

\* ClusterUpdateNodeStep: clusterd keeps the id it has when it is given -1,
\* and fails when there is no row.
UpdateNode(n) ==
  /\ At(n, "update")
  /\ IF n \in rows THEN Continue(n) ELSE Stop(n)
  /\ machineid' = [machineid EXCEPT ![n] =
                     IF n \in rows /\ found[n] # NoMachine THEN found[n] ELSE machineid[n]]
  /\ found' = [found EXCEPT ![n] = NoMachine]
  /\ UNCHANGED <<rows, bootstrapped, planVars, jujuVars, endpointVars, ids, target>>

\* SetBootstrapped.
SetBootstrapped(n) ==
  /\ At(n, "bootstrapped")
  /\ Continue(n)
  /\ bootstrapped' = TRUE
  /\ UNCHANGED <<rows, machineid, planVars, jujuVars, endpointVars, ids, found, target>>

-----------------------------------------------------------------------------
(* Terraform plans of the machine applications.                            *)

Goto(p, to) == phase' = [phase EXCEPT ![p] = to] /\ UNCHANGED <<todo, history>>

\* DeployMachineApplicationStep.run of every application: the ids of the
\* rows.  The role distributor needs a control machine.
ReadIds(p) ==
  /\ At(p, "deploy")
  /\ IF App(p) = "role-distributor" /\ RowIds("role-distributor") = {}
       THEN Stop(p) /\ UNCHANGED ids
       ELSE /\ ids' = [ids EXCEPT ![p] = {AsStored(App(p), m) : m \in RowIds(App(p))}]
            /\ Goto(p, "write")
  /\ UNCHANGED <<rowVars, planVars, jujuVars, endpointVars, found, target>>

\* ReapplyHypervisorTerraformPlanStep: the stored ids are used again.
ReadStoredIds(p) ==
  /\ At(p, "reapply")
  /\ IF \E n \in rows : Has(n, "compute")
       THEN /\ ids' = [ids EXCEPT ![p] = stored[App(p)]]
            /\ Goto(p, "write")
       ELSE Continue(p) /\ UNCHANGED ids
  /\ UNCHANGED <<rowVars, planVars, jujuVars, endpointVars, found, target>>

\* update_tfvars: the variables are stored before they are applied.
WriteVars(p) ==
  /\ phase[p] = "write"
  /\ stored' = [stored EXCEPT ![App(p)] = ids[p]]
  /\ Goto(p, "apply")
  /\ UNCHANGED <<rowVars, units, lock, jujuVars, endpointVars, ids, found, target>>

\* terraform apply takes the lock of the plan.  While it is held the whole
\* step is run again after a minute, five times at most.
ApplyStart(p) ==
  /\ phase[p] = "apply"
  /\ \/ /\ lock[App(p)] = None
        /\ lock' = [lock EXCEPT ![App(p)] = p]
        /\ Goto(p, "applying")
        /\ UNCHANGED ids
     \/ /\ lock[App(p)] # None
        /\ Goto(p, "step") \/ Stop(p)
        /\ ids' = [ids EXCEPT ![p] = {}]
        /\ UNCHANGED lock
  /\ UNCHANGED <<rowVars, stored, units, jujuVars, endpointVars, found, target>>

\* Mutant of ApplyEnd: a machine that is not there is not an error.
ApplyEndBlind(p) ==
  /\ phase[p] = "applying"
  /\ lock' = [lock EXCEPT ![App(p)] = None]
  /\ units' = [units EXCEPT ![App(p)] = {i[2] : i \in ids[p]}]
  /\ ids' = [ids EXCEPT ![p] = {}]
  /\ Continue(p)
  /\ UNCHANGED <<rowVars, stored, jujuVars, endpointVars, found, target>>

\* The Juju provider gives the application a unit on each machine listed and
\* on no other; a machine that is not there is an error.
ApplyEnd(p) ==
  LET wanted == {i[2] : i \in ids[p]}
  IN  /\ phase[p] = "applying"
      /\ lock' = [lock EXCEPT ![App(p)] = None]
      /\ IF wanted \subseteq machines
           THEN Continue(p) /\ units' = [units EXCEPT ![App(p)] = wanted]
           ELSE Stop(p) /\ UNCHANGED units
      /\ ids' = [ids EXCEPT ![p] = {}]
      /\ UNCHANGED <<rowVars, stored, jujuVars, endpointVars, found, target>>

-----------------------------------------------------------------------------
(* The Kubernetes endpoint.                                                *)

\* StoreK8SKubeConfigStep: skipped once a kubeconfig is stored.
StoreKubeconfig(n) ==
  /\ At(n, "store-kubeconfig")
  /\ IF kubeconfig # NoMachine \/ units["k8s"] = {}
       THEN UNCHANGED kubeconfig
       ELSE kubeconfig' \in units["k8s"]
  /\ IF kubeconfig' # NoMachine THEN Continue(n) ELSE Stop(n)
  /\ UNCHANGED <<rowVars, planVars, jujuVars, cloud, ids, found, target>>

\* Mutant of UpdateK8SCloud: a cloud that is there is left alone.
UpdateK8SCloudOnce(p) ==
  /\ At(p, "cloud")
  /\ cloud' = IF cloud = NoMachine THEN kubeconfig ELSE cloud
  /\ Continue(p)
  /\ UNCHANGED <<rowVars, planVars, jujuVars, kubeconfig, ids, found, target>>

\* AddK8SCloudStep of bootstrap, UpdateK8SCloudStep of remove.
UpdateK8SCloud(p) ==
  /\ At(p, "cloud")
  /\ cloud' = kubeconfig
  /\ Continue(p)
  /\ UNCHANGED <<rowVars, planVars, jujuVars, kubeconfig, ids, found, target>>

\* skip_checks: the control node has a k8s unit on the machine of its row.
HasK8SUnit(n) == n \in rows /\ Has(n, "control") /\ machineid[n] \in units["k8s"]

\* MigrateK8SKubeconfigStep: the kubeconfig that points at the node is
\* replaced by that of another unit, and the removal fails without one.
MigrateKubeconfig(a) ==
  LET n == target[a]
      others == units["k8s"] \ {machineid[n]}
      needed == HasK8SUnit(n) /\ kubeconfig = machineid[n]
  IN  /\ At(a, "migrate")
      /\ \/ ~needed /\ Continue(a) /\ UNCHANGED kubeconfig
         \/ needed /\ others = {} /\ Stop(a) /\ UNCHANGED kubeconfig
         \/ needed /\ kubeconfig' \in others /\ Continue(a)
      /\ UNCHANGED <<rowVars, planVars, jujuVars, cloud, ids, found, target>>

-----------------------------------------------------------------------------
(* Removing a node.                                                        *)

StorageRows == {n \in rows : Has(n, "storage")}

ceph_replica_scale(nodes) ==
  LET n == IF nodes = 0 THEN 1 ELSE nodes IN IF n < Replicas THEN n ELSE Replicas

\* The node runs a unit of the application, as far as its row tells.
OnNode(n, app) == n \in rows /\ machineid[n] \in units[app]

\* Mutant of CheckDistribution: one node too many may go.
CheckDistributionOff(a) ==
  LET n == target[a]
      nb == Cardinality(StorageRows)
      refuse == /\ OnNode(n, App(a)) /\ Has(n, "storage") /\ a \notin Forceful
                /\ nb = 1 \/ (App(a) = "microceph" /\ nb < ceph_replica_scale(nb))
  IN  /\ At(a, "check")
      /\ IF refuse THEN Stop(a) ELSE Continue(a)
      /\ UNCHANGED <<rowVars, planVars, jujuVars, endpointVars, ids, found, target>>

\* CheckCinderVolumeDistributionStep and CheckMicrocephDistributionStep.
CheckDistribution(a) ==
  LET n == target[a]
      nb == Cardinality(StorageRows)
      refuse == /\ OnNode(n, App(a)) /\ Has(n, "storage") /\ a \notin Forceful
                /\ nb = 1 \/ (App(a) = "microceph" /\ nb - 1 < ceph_replica_scale(nb))
  IN  /\ At(a, "check")
      /\ IF refuse THEN Stop(a) ELSE Continue(a)
      /\ UNCHANGED <<rowVars, planVars, jujuVars, endpointVars, ids, found, target>>

\* RemoveMachineUnitsStep of the applications: skipped for a node without a
\* row or without a unit on the machine of its row.
RemoveUnits(a) ==
  LET n == target[a]
  IN  /\ At(a, "remove")
      /\ units' = [units EXCEPT ![App(a)] =
                     IF OnNode(n, App(a)) THEN units[App(a)] \ {machineid[n]} ELSE units[App(a)]]
      /\ Continue(a)
      /\ UNCHANGED <<rowVars, stored, lock, jujuVars, endpointVars, ids, found, target>>

\* RemoveHypervisorUnitStep: running guests stop a removal without --force;
\* the id that is looked for in the stored ids is a str.
RemoveHypervisorUnit(a) ==
  LET n == target[a]
      app == App(a)
  IN  /\ At(a, "remove-hypervisor")
      /\ \/ /\ ~OnNode(n, app)
            /\ Continue(a)
            /\ UNCHANGED <<units, stored>>
         \/ /\ OnNode(n, app) /\ a \notin Forceful
            /\ Stop(a)
            /\ UNCHANGED <<units, stored>>
         \/ /\ OnNode(n, app)
            /\ units' = [units EXCEPT ![app] = units[app] \ {machineid[n]}]
            /\ stored' = [stored EXCEPT ![app] = stored[app] \ {AsStr(machineid[n])}]
            /\ Continue(a)
      /\ UNCHANGED <<rowVars, lock, jujuVars, endpointVars, ids, found, target>>

\* Mutant of RemoveJujuMachine: a machine that Juju keeps is not an error.
RemoveJujuMachineSoft(a) ==
  LET m == machineid[target[a]]
      gone == m \in machines /\ \A app \in Apps : m \notin units[app]
  IN  /\ At(a, "remove-machine")
      /\ host' = IF gone THEN [host EXCEPT ![m] = None] ELSE host
      /\ reported' = IF gone THEN reported \ {m} ELSE reported
      /\ Continue(a)
      /\ UNCHANGED <<added, rowVars, planVars, endpointVars, ids, found, target>>

\* RemoveJujuMachineStep: skipped when the id of the row is no machine;
\* Juju refuses to remove a machine that has units.
RemoveJujuMachine(a) ==
  LET n == target[a]
      m == machineid[n]
  IN  /\ At(a, "remove-machine")
      /\ \/ /\ n \notin rows \/ m \notin machines
            /\ Continue(a)
            /\ UNCHANGED jujuVars
         \/ /\ n \in rows /\ m \in machines /\ \E app \in Apps : m \in units[app]
            /\ Stop(a)
            /\ UNCHANGED jujuVars
         \/ /\ n \in rows /\ m \in machines /\ \A app \in Apps : m \notin units[app]
            /\ host' = [host EXCEPT ![m] = None]
            /\ reported' = reported \ {m}
            /\ UNCHANGED added
            /\ Continue(a)
      /\ UNCHANGED <<rowVars, planVars, endpointVars, ids, found, target>>

\* ClusterRemoveNodeStep.
RemoveRow(a) ==
  /\ At(a, "remove-row")
  /\ rows' = rows \ {target[a]}
  /\ machineid' = [machineid EXCEPT ![target[a]] = NoMachine]
  /\ Continue(a)
  /\ UNCHANGED <<bootstrapped, planVars, jujuVars, endpointVars, ids, found, target>>

-----------------------------------------------------------------------------
NodeStep(n) ==
  \/ StartJoin(n)
  \/ AddRow(n) \/ AddJujuMachine(n) \/ UpdateNode(n)
  \/ StoreKubeconfig(n) \/ SetBootstrapped(n)

AdminStep(a) ==
  \/ StartReapply(a) \/ \E n \in Nodes : StartRemove(a, n)
  \/ CheckDistribution(a) \/ MigrateKubeconfig(a)
  \/ RemoveUnits(a) \/ RemoveHypervisorUnit(a)
  \/ RemoveJujuMachine(a) \/ RemoveRow(a)

PlanStep(p) ==
  \/ ReadIds(p) \/ ReadStoredIds(p) \/ WriteVars(p)
  \/ ApplyStart(p) \/ ApplyEnd(p)
  \/ UpdateK8SCloud(p) \/ Abort(p)

Next ==
  \/ StartBootstrap
  \/ \E n \in Nodes : NodeStep(n)
  \/ \E a \in Admins : AdminStep(a)
  \/ \E p \in Procs : PlanStep(p)
  \/ \E m \in MachineIds : Report(m)
  \/ \E app \in Apps : Unlock(app)

Spec == Init /\ [][Next]_vars

-----------------------------------------------------------------------------
\* A node whose join was reported has a unit of every application of its
\* roles, until somebody starts to remove it: no other command takes it away.
JoinedHasUnits ==
  \A n \in joined : \A app \in Apps :
    Runs(n, app) => n \in rows /\ machineid[n] \in units[app] /\ host[machineid[n]] = n

\* A node that `cluster remove` reports as removed has left no row, no Juju
\* machine and so no unit, however often the command failed before.
RemovedLeavesNothing ==
  \A n \in removed : n \notin rows /\ \A m \in machines : host[m] # n

\* The Kubernetes API server that clusterd's kubeconfig and Juju's cloud
\* point at runs: it is moved away before the unit of a node is removed.
EndpointAlive ==
  "k8s" \in Apps => {kubeconfig, cloud} \ {NoMachine} \subseteq units["k8s"]

\* A removal without --force leaves as many Ceph nodes as the pools have
\* replicas: it never takes data below its replication.
ReplicasKept ==
  [][\A a \in Admins \ Forceful :
       /\ At(a, "remove") /\ App(a) = "microceph"
       /\ units'["microceph"] # units["microceph"]
       => Cardinality(units'["microceph"])
            >= ceph_replica_scale(Cardinality(units["microceph"]))]_vars
=============================================================================
