-------------------------- MODULE MaintenanceMode --------------------------
(***************************************************************************)
(* `sunbeam cluster maintenance enable` and `disable`: pre-flight checks,  *)
(* a dry run that lets Watcher audit the host, a question, the operations  *)
(* one by one (stopping at the first that fails, without rollback) and the *)
(* checks afterwards.  Meanwhile instances are created and deleted, pods   *)
(* are scheduled, and nodes in maintenance are switched off and on.        *)
(* One command runs at a time.                                             *)
(***************************************************************************)
EXTENDS Naturals, Sequences, FiniteSets, SequencesExt

CONSTANTS
    Control, Compute, Storage,   \* the nodes with each role
    Instances, Unmovable,        \* Nova instances; those in ERROR or with ephemeral disks
    Workloads, Controllers,      \* replicated workloads on Kubernetes; Juju controllers
    Replicas,                    \* replicas of each workload
    MaxFaults                    \* bound: operations that fail, commands killed

Nodes == Control \cup Compute \cup Storage
Nowhere == "nowhere"

ASSUME NodesAssumption == IsFiniteSet(Control) /\ Nowhere \notin Nodes
ASSUME InstancesAssumption == IsFiniteSet(Instances)

Pods == Workloads \X (1..Replicas)

VARIABLES
    nova,      \* compute nodes whose nova-compute service is enabled
    place,     \* place[i]: the host of instance i, Nowhere if it does not exist
    cordoned,  \* control nodes that are unschedulable
    pods,      \* pods[p]: the node of pod p, Nowhere while it is pending
    ceph,      \* storage nodes in Ceph maintenance
    off,       \* nodes that are switched off
    maint,     \* nodes whose enable command reported success, not disabled since
    cmd,       \* the running command
    pc,        \* "none", "check", "dry run", "ask", "run", "verify"
    ops,       \* operations left, as the dry run found them
    faults

mvars == <<nova, place, cordoned, pods, ceph, off, maint, cmd, pc, ops, faults>>
world == <<nova, place, cordoned, pods, ceph, off>>

NoCmd == [kind |-> "none", node |-> Nowhere, force |-> FALSE, allow |-> FALSE]
On(n) == {i \in Instances : place[i] = n}
Ready(w) == {p \in Pods : p[1] = w /\ pods[p] # Nowhere}

----------------------------------------------------------------------------
(* The pre-flight checks of EnableMaintenance.check; the ones that need an *)
(* answer of Watcher or MicroCeph are in Refused.                          *)

NoLastNodeCheck(force) == Cardinality(Nodes) > 1 \/ force

ControlRoleCheckAny(force) == Cardinality(Control \ cordoned) > 0 \/ force

NoLastControlRoleCheck(force) == Cardinality(Control \ cordoned) > 1 \/ force

K8sDqliteRedundancyCheck(n, force) ==
    \/ Cardinality(Control \ (off \cup {n})) >= Cardinality(Control) \div 2 + 1
    \/ force

ReplicasRedundancyCheck(n, allow) ==
    \/ \A p \in Pods : pods[p] = n => Cardinality(Ready(p[1])) > 1
    \/ allow

InstancesStatusCheck(n, force) == On(n) \cap Unmovable = {} \/ force

\* Not to be forced
NoJujuControllerPodCheck(n) == \A p \in Pods : p[1] \in Controllers => pods[p] # n

EnableChecks(c) ==
    /\ NoLastNodeCheck(c.force)
    /\ c.node \in Compute => InstancesStatusCheck(c.node, c.force)
    /\ c.node \in Control =>
          /\ NoLastControlRoleCheck(c.force)
          /\ K8sDqliteRedundancyCheck(c.node, c.force)
          /\ ReplicasRedundancyCheck(c.node, c.allow)
          /\ NoJujuControllerPodCheck(c.node)

----------------------------------------------------------------------------
(* The operations, in the order of apply *)

If(condition, steps) == IF condition THEN steps ELSE <<>>

Migrations(n, instances) ==
    SetToSeq({[op |-> "migrate", i |-> i] : i \in instances})

\* RunWatcherAuditStep of the strategy host_maintenance, enter-maintenance of
\* MicroCeph, CordonControlRoleNodeStep and DrainControlRoleNodeStep
EnableOperations(n, instances) ==
       If(n \in Compute, <<[op |-> "nova off"]>> \o Migrations(n, instances))
    \o If(n \in Storage, <<[op |-> "ceph enter"]>>)
    \o If(n \in Control, <<[op |-> "cordon"], [op |-> "drain"]>>)

DisableKeepingCeph(n, moves) ==
       If(n \in Compute, <<[op |-> "nova on"]>> \o moves)
    \o If(n \in Control, <<[op |-> "uncordon"]>>)

\* EnableHypervisorStep, RunWatcherAuditStep of the strategy
\* workload_stabilization, exit-maintenance and UncordonControlRoleNodeStep
DisableOperations(n, moves) ==
       If(n \in Compute, <<[op |-> "nova on"]>> \o moves)
    \o If(n \in Storage, <<[op |-> "ceph exit"]>>)
    \o If(n \in Control, <<[op |-> "uncordon"]>>)

----------------------------------------------------------------------------
Init ==
    /\ nova = Compute /\ cordoned = {} /\ ceph = {} /\ off = {}
    /\ place \in [Instances -> Compute \cup {Nowhere}]
    /\ pods \in [Pods -> Control]
    /\ maint = {} /\ cmd = NoCmd /\ pc = "none" /\ ops = <<>>
    /\ faults = 0

Fault == faults < MaxFaults /\ faults' = faults + 1

EndCommand == cmd' = NoCmd /\ pc' = "none" /\ ops' = <<>>

Enable(n, force, allow) ==
    /\ cmd = NoCmd /\ n \notin off
    /\ cmd' = [kind |-> "enable", node |-> n, force |-> force, allow |-> allow]
    /\ pc' = "check"
    /\ UNCHANGED <<world, maint, ops, faults>>

Disable(n) ==
    /\ cmd = NoCmd /\ n \notin off
    /\ cmd' = [NoCmd EXCEPT !.kind = "disable", !.node = n]
    /\ pc' = "dry run"
    /\ UNCHANGED <<world, maint, ops, faults>>

Check ==
    /\ pc = "check"
    /\ IF EnableChecks(cmd)
       THEN pc' = "dry run" /\ UNCHANGED <<cmd, ops>>
       ELSE EndCommand
    /\ UNCHANGED <<world, maint, faults>>

\* Watcher is not deployed, MicroCeph refuses in its own check, or the name of
\* the node is not found.
Refused ==
    /\ pc = "check"
    /\ EndCommand
    /\ UNCHANGED <<world, maint, faults>>

\* What the audit workload_stabilization may recommend: nothing, or a move to
\* a host that is enabled while the audit runs, before EnableHypervisorStep
Balancing ==
    {<<>>} \cup {<<[op |-> "balance", i |-> i, to |-> h]>> : i \in Instances, h \in nova \ off}

\* CreateWatcherHostMaintenanceAuditStep and what the user is shown
EnableDryRun ==
    /\ pc = "dry run" /\ cmd.kind = "enable"
    /\ ops' = EnableOperations(cmd.node, On(cmd.node))
    /\ pc' = "ask"
    /\ UNCHANGED <<world, maint, cmd, faults>>

\* CreateWatcherWorkloadBalancingAuditStep, unless it is turned off
DisableDryRun ==
    /\ pc = "dry run" /\ cmd.kind = "disable"
    /\ \E moves \in Balancing : ops' = DisableOperations(cmd.node, moves)
    /\ pc' = "ask"
    /\ UNCHANGED <<world, maint, cmd, faults>>

\* The answer; --dry-run is like no.
Answer(yes) ==
    /\ pc = "ask"
    /\ IF yes
       THEN /\ pc' = "run" /\ UNCHANGED <<cmd, ops>>
            /\ maint' = maint \ {cmd.node}
       ELSE EndCommand /\ UNCHANGED <<maint>>
    /\ UNCHANGED <<world, faults>>

Now == Head(ops)

(* What one operation does *)

\* change_nova_service_state and migrate of the host_maintenance audit; an
\* instance that is gone has nothing to migrate.
RunWatcherAudit(n) ==
    /\ \/ Now.op = "nova off" /\ nova' = nova \ {n} /\ place' = place
       \/ /\ Now.op = "migrate" /\ nova' = nova
          /\ IF place[Now.i] = n
             THEN /\ Now.i \notin Unmovable
                  /\ \E h \in (nova \ off) \ {n} : place' = [place EXCEPT ![Now.i] = h]
             ELSE place' = place
       \/ /\ Now.op = "balance" /\ nova' = nova
          /\ place' = IF place[Now.i] # Nowhere /\ Now.to \in nova \ off
                      THEN [place EXCEPT ![Now.i] = Now.to] ELSE place
    /\ UNCHANGED <<cordoned, pods, ceph>>

EnableHypervisor(n) ==
    /\ Now.op = "nova on" /\ nova' = nova \cup {n}
    /\ UNCHANGED <<place, cordoned, pods, ceph>>

MicroCephAction(n) ==
    /\ \/ Now.op = "ceph enter" /\ ceph' = ceph \cup {n}
       \/ Now.op = "ceph exit" /\ ceph' = ceph \ {n}
    /\ UNCHANGED <<nova, place, cordoned, pods>>

CordonControlRoleNode(n) ==
    /\ Now.op = "cordon" /\ cordoned' = cordoned \cup {n}
    /\ UNCHANGED <<nova, place, pods, ceph>>

UncordonControlRoleNode(n) ==
    /\ Now.op = "uncordon" /\ cordoned' = cordoned \ {n}
    /\ UNCHANGED <<nova, place, pods, ceph>>

DrainControlRoleNode(n) ==
    /\ Now.op = "drain"
    /\ pods' = [p \in Pods |-> IF pods[p] = n THEN Nowhere ELSE pods[p]]
    /\ UNCHANGED <<nova, place, cordoned, ceph>>

RunOperation ==
    /\ pc = "run" /\ ops # <<>>
    /\ \/ RunWatcherAudit(cmd.node) \/ EnableHypervisor(cmd.node) \/ MicroCephAction(cmd.node)
       \/ CordonControlRoleNode(cmd.node) \/ UncordonControlRoleNode(cmd.node)
       \/ DrainControlRoleNode(cmd.node)
    /\ ops' = Tail(ops)
    /\ UNCHANGED <<off, maint, cmd, pc, faults>>

\* A migration that is not possible fails the audit, and so the command.
NoHost ==
    /\ pc = "run" /\ ops # <<>> /\ Now.op = "migrate"
    /\ place[Now.i] = cmd.node
    /\ Now.i \in Unmovable \/ (nova \ off) \ {cmd.node} = {}
    /\ EndCommand
    /\ UNCHANGED <<world, maint, faults>>

OperationsDone ==
    /\ pc = "run" /\ ops = <<>>
    /\ pc' = "verify"
    /\ UNCHANGED <<world, maint, cmd, ops, faults>>

\* An operation fails (check_operation_succeeded raises) or the command is
\* killed; what was done stays.
Stopped ==
    /\ pc # "none" /\ Fault
    /\ EndCommand
    /\ UNCHANGED <<world, maint>>

\* NovaInDisableStatusCheck and NoInstancesOnNodeCheck
ComputeVerifiedByService(n) == n \notin nova

ComputeVerified(n) == n \notin nova /\ On(n) = {}

\* ControlRoleNodeCordonedCheck and ControlRoleNodeUncordonedCheck
CordonVerified(n, want) == (n \in cordoned) = want

VerifyChecks(c) ==
    /\ c.kind = "enable" /\ c.node \in Compute => ComputeVerified(c.node)
    /\ c.node \in Control => CordonVerified(c.node, c.kind = "enable")

\* With --force a failed check is only logged.
Verify ==
    /\ pc = "verify"
    /\ maint' = IF cmd.kind = "enable" /\ VerifyChecks(cmd) THEN maint \cup {cmd.node} ELSE maint
    /\ EndCommand
    /\ UNCHANGED <<world, faults>>

----------------------------------------------------------------------------
(* Around the commands *)

\* The Nova scheduler places an instance on an enabled host; users delete it.
Boot(i, h) ==
    /\ place[i] = Nowhere /\ h \in nova \ off
    /\ place' = [place EXCEPT ![i] = h]
    /\ UNCHANGED <<nova, cordoned, pods, ceph, off, maint, cmd, pc, ops, faults>>

Delete(i) ==
    /\ place[i] # Nowhere
    /\ place' = [place EXCEPT ![i] = Nowhere]
    /\ UNCHANGED <<nova, cordoned, pods, ceph, off, maint, cmd, pc, ops, faults>>

\* The Kubernetes scheduler
Schedule(p) ==
    /\ pods[p] = Nowhere
    /\ \E n \in Control \ (cordoned \cup off) : pods' = [pods EXCEPT ![p] = n]
    /\ UNCHANGED <<nova, place, cordoned, ceph, off, maint, cmd, pc, ops, faults>>

\* What maintenance is for: the node is switched off, and on again.
SwitchOff(n) ==
    /\ n \in maint /\ n \notin off
    /\ off' = off \cup {n}
    /\ UNCHANGED <<nova, place, cordoned, pods, ceph, maint, cmd, pc, ops, faults>>

SwitchOn(n) ==
    /\ n \in off
    /\ off' = off \ {n}
    /\ UNCHANGED <<nova, place, cordoned, pods, ceph, maint, cmd, pc, ops, faults>>

\* CordonK8SUnitStep of a node removal that stopped before the unit was gone
RemovalStopped(n) ==
    /\ cmd = NoCmd /\ n \notin cordoned /\ Fault
    /\ cordoned' = cordoned \cup {n}
    /\ UNCHANGED <<nova, place, pods, ceph, off, maint, cmd, pc, ops>>

----------------------------------------------------------------------------
Step ==
    \/ Check \/ Refused \/ EnableDryRun \/ DisableDryRun \/ RunOperation \/ NoHost \/ OperationsDone \/ Verify
    \/ \E yes \in BOOLEAN : Answer(yes)

Next ==
    \/ \E n \in Nodes, force, allow \in BOOLEAN : Enable(n, force, allow)
    \/ \E n \in Nodes : Disable(n) \/ SwitchOff(n) \/ SwitchOn(n)
    \/ \E n \in Control : RemovalStopped(n)
    \/ Step \/ Stopped
    \/ \E i \in Instances : (\E h \in Compute : Boot(i, h)) \/ Delete(i)
    \/ \E p \in Pods : Schedule(p)

\* A command goes on and is answered.
Spec == Init /\ [][Next]_mvars /\ WF_mvars(Step)

----------------------------------------------------------------------------
(* Properties *)

TypeOK ==
    /\ nova \subseteq Compute /\ cordoned \subseteq Control /\ ceph \subseteq Storage
    /\ off \subseteq Nodes /\ maint \subseteq Nodes
    /\ place \in [Instances -> Compute \cup {Nowhere}]
    /\ pods \in [Pods -> Control \cup {Nowhere}]
    /\ (pc = "none") = (cmd = NoCmd) /\ (pc = "none" => ops = <<>>)

\* A node reported to be in maintenance runs no instance and stays so until
\* it is disabled: the audit is older than the moment Nova is disabled, and
\* only the checks of verify see an instance that came in between.
EmptyInMaintenance ==
    \A n \in maint : On(n) = {} /\ n \notin nova /\ (n \in Control => n \in cordoned)

\* Without --force, entering maintenance never cordons the last control node
\* that is schedulable, also when a removal left another one cordoned
\* (NoLastControlRoleCheck is made before the question, the cordon after);
\* and not even with --force does it evict the Juju controller it is run
\* through: nothing reschedules it onto the node between check and drain.
LeavesControl ==
    [][cmd.kind = "enable" =>
          /\ ~ cmd.force /\ cordoned' # cordoned => Control \ cordoned' # {}
          /\ \A p \in Pods : p[1] \in Controllers => pods'[p] = pods[p]]_mvars

\* Disabling that reported success undoes everything an enable did, also one
\* that stopped half way, and the cordon of a removal.
DisableRestores ==
    [][LET n == cmd.node
       IN  pc = "verify" /\ cmd.kind = "disable" /\ pc' = "none" /\ faults' = faults /\ VerifyChecks(cmd)
           => n \notin cordoned /\ n \notin ceph /\ (n \in Compute => n \in nova)]_mvars

\* Every command ends.
CommandsEnd == pc # "none" ~> pc = "none"
=============================================================================
