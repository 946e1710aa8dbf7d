--------------------------- MODULE BackupRestore ---------------------------
(***************************************************************************)
(* `sunbeam backup create`, `list` and `restore`.  A backup is an action   *)
(* of the MySQL or Vault charm that goes on when the command stops waiting *)
(* for it.  A restore of MySQL pauses the API applications, scales the     *)
(* routers to 0 and the cluster to 1, restores and scales everything back; *)
(* when a step fails the revert plan, built beforehand, is run to its end. *)
(* One command runs at a time.  A step may fail before or after its effect *)
(* and the command may be killed (bound MaxFaults).                        *)
(***************************************************************************)
EXTENDS Naturals, Sequences, FiniteSets, SequencesExt, FiniteSetsExt

CONSTANTS
    MySQLs,        \* applications of charm mysql-k8s
    Vaults,        \* applications of charm vault-k8s
    MysqlClient,   \* pairs of applications related by interface mysql_client
    RouterNames,   \* applications named *-mysql-router
    Past,          \* the backups there are to begin with
    Scale0,        \* the scale of each MySQL application and router at rest
    MaxBackups,    \* bound: no backup is made once an application has as many
    MaxFaults      \* bound: failures, timeouts and commands killed

Backed == MySQLs \cup Vaults
None == 0

\* An application has one charm.
ASSUME BackedAssumption == IsFiniteSet(Backed) /\ MySQLs \cap Vaults = {}

ASSUME BoundsAssumption == MaxBackups \in Nat /\ MaxFaults \in Nat

VARIABLES
    scale,     \* the scale asked of Juju
    units,     \* the units there are
    paused,    \* API applications with a paused unit
    repo,      \* repo[a][id]: "running", "finished" or "failed", as list-backups tells
    doing,     \* doing[a]: the backup the restore action of the charm is restoring
    data,      \* data[a]: the backup restored last
    cmd,       \* "none", "backup", "list" or "restore"
    pc,        \* where the command is
    toTime,    \* the option --restore-to-time is given
    targets,   \* the applications the command still works on
    shown,     \* shown[a]: the backups the inventory printed
    waiting,   \* applications whose backup thread has not returned
    pending,   \* the applications prepared for a restore, the first being restored
    plan,      \* the steps left of the application being restored (or reverted)
    outcome,   \* outcome[a]: the result reported, "none" before
    began,     \* what the command found when it was given, or when it built its plans
    late,      \* applications whose restore action the command gave up on
    faults

bvars == <<scale, units, paused, repo, doing, data, cmd, pc, toTime, targets, shown, waiting, pending,
           plan, outcome, began, late, faults>>
juju == <<scale, units, paused, repo, doing, data, late>>

----------------------------------------------------------------------------
(* Which applications a MySQL application serves *)

\* _related_apps_for_interface: both directions of the relation
Related(a) == {b \in UNION {{p[1], p[2]} : p \in {q \in MysqlClient : a \in {q[1], q[2]}}} : b # a}

RouterApps(m) == Related(m)

\* _api_apps_via_routers
ApiApps(m) == UNION {Related(r) : r \in RouterApps(m)} \ ({m} \cup RouterNames)

\* A MySQL application and its routers, scaled by a restore
Served(m) == {m} \cup RouterApps(m)

\* Kubernetes knows the scale of each, and the backups found have ended or not.
ASSUME ModelAssumption ==
    /\ IsFiniteSet(MysqlClient)
    /\ Scale0 \in [DOMAIN Scale0 -> Nat]
    /\ \A m \in MySQLs : Served(m) \subseteq DOMAIN Scale0
    /\ Past \in [Backed -> Seq({"running", "finished", "failed"})]
    /\ \A a \in Backed : Len(Past[a]) <= MaxBackups

\* In the many-mysql topology each service has its own MySQL application,
\* behind routers of its own; in the other there is one.
ASSUME SeparateAssumption ==
    \A m, n \in MySQLs : m # n =>
        Served(m) \cap Served(n) = {} /\ ApiApps(m) \cap ApiApps(n) = {}

----------------------------------------------------------------------------
(* The plans *)

PauseApps(m) == SetToSeq({[op |-> "pause", app |-> a, n |-> 0] : a \in ApiApps(m)})
ResumeApps(m) == SetToSeq({[op |-> "resume", app |-> a, n |-> 0] : a \in ApiApps(m)})
Scale(a, n) == [op |-> "scale", app |-> a, n |-> n]
ScaleRouters(m, to) == SetToSeq({Scale(r, to[r]) : r \in RouterApps(m)})

\* The scales read when the plan is built (_current_scale counts the units)
ScaleBack(m, now) == <<Scale(m, now[m])>> \o ScaleRouters(m, now) \o ResumeApps(m)

PlanWithoutRouters(a, now) ==
    IF a \in Vaults THEN <<[op |-> "restore", app |-> a, n |-> 0]>>
    ELSE PauseApps(a) \o <<Scale(a, 1), [op |-> "restore", app |-> a, n |-> 0]>>
         \o ScaleBack(a, now)

build_restore_plan(a, now) ==
    IF a \in Vaults THEN <<[op |-> "restore", app |-> a, n |-> 0]>>
    ELSE PauseApps(a) \o ScaleRouters(a, [r \in RouterApps(a) |-> 0])
         \o <<Scale(a, 1), [op |-> "restore", app |-> a, n |-> 0]>>
         \o ScaleBack(a, now)

RevertResumesOnly(a, now) == IF a \in Vaults THEN <<>> ELSE ResumeApps(a)

build_restore_revert_plan(a, now) == IF a \in Vaults THEN <<>> ELSE ScaleBack(a, now)

\* parse_backup_list: the table of MySQL has a status for each backup, that of
\* Vault names the ones in the store.
MySQLParse(statuses) == {i \in DOMAIN statuses : statuses[i] = "finished"}
VaultParse(statuses) == {i \in DOMAIN statuses : statuses[i] = "finished"}
Successful(a, statuses) == IF a \in MySQLs THEN MySQLParse(statuses) ELSE VaultParse(statuses)

\* _latest_backup: the greatest id among the successful ones, 0 if there is none
LatestOfAny(a) == Max({0} \cup DOMAIN repo[a])

LatestBackup(a) == Max({0} \cup Successful(a, repo[a]))

\* restore_params: MySQL can go to a point in time, which needs no backup id.
PointInTime == MaxBackups + 1
RestoreParams(a) == IF toTime /\ a \in MySQLs THEN PointInTime ELSE LatestBackup(a)

----------------------------------------------------------------------------
Init ==
    /\ scale = Scale0 /\ units = Scale0 /\ paused = {}
    /\ repo = Past
    /\ doing = [a \in Backed |-> None] /\ data = [a \in Backed |-> None]
    /\ cmd = "none" /\ pc = "none" /\ toTime = FALSE /\ targets = {} /\ waiting = {}
    /\ shown = [a \in Backed |-> <<>>] /\ pending = <<>> /\ plan = <<>>
    /\ outcome = [a \in Backed |-> "none"]
    /\ began = [kind |-> "none", ids |-> [a \in Backed |-> 0], scale |-> Scale0, units |-> Scale0,
                 paused |-> {}]
    /\ late = {} /\ faults = 0

Fail == faults < MaxFaults /\ faults' = faults + 1

ExitInPlace ==
    /\ cmd' = "none" /\ pc' = pc
    /\ targets' = {} /\ waiting' = {} /\ pending' = <<>> /\ plan' = <<>>

\* sys.exit, an exception of run_plan, or the end
Exit ==
    /\ cmd' = "none" /\ pc' = "none"
    /\ targets' = {} /\ waiting' = {} /\ pending' = <<>> /\ plan' = <<>>

Found(kind) ==
    [kind |-> kind, ids |-> [a \in Backed |-> Len(repo[a])], scale |-> scale, units |-> units,
     paused |-> paused]

----------------------------------------------------------------------------
(* DiscoverBackupApplicationsStep and ValidateStep: an application that is *)
(* not related to S3, or that is not active and --force is not given, is   *)
(* left out (any that the outside made so), and that has to be confirmed.  *)

Validate(kind, pit) ==
    /\ cmd = "none"
    /\ kind = "backup" => \A a \in Backed : Len(repo[a]) < MaxBackups
    /\ pit => kind = "restore"
    /\ \E valid \in SUBSET Backed :
        /\ valid # {}
        /\ IF valid = Backed THEN faults' = faults ELSE Fail
        /\ targets' = valid
    /\ cmd' = kind /\ toTime' = pit
    /\ pc' = IF kind = "backup" THEN "resolve" ELSE "inventory"
    /\ outcome' = [a \in Backed |-> "none"]
    /\ shown' = [a \in Backed |-> <<>>]
    /\ began' = Found(kind)
    /\ UNCHANGED <<juju, waiting, pending, plan>>

\* One of the questions is answered with no (click.Abort), before anything runs.
Decline ==
    /\ pc \in {"resolve", "confirm"}
    /\ Exit
    /\ UNCHANGED <<juju, toTime, shown, outcome, began, faults>>

----------------------------------------------------------------------------
(* RunBackupStep: the targets are resolved, then one thread for each runs  *)
(* the action and waits for it.                                            *)

\* resolve_backup_target: no leader, or the status of the MySQL cluster is
\* not known and --force is not given, is a failed result of that application.
ResolveBackupTargets ==
    /\ pc = "resolve"
    /\ \E unresolved \in SUBSET targets :
        LET sent == targets \ unresolved
        IN  /\ IF unresolved = {} THEN faults' = faults ELSE Fail
            /\ repo' = [a \in Backed |->
                           IF a \in sent THEN Append(repo[a], "running") ELSE repo[a]]
            /\ waiting' = sent
            /\ outcome' = [a \in Backed |-> IF a \in unresolved THEN "unresolved" ELSE "none"]
    /\ pc' = "backups"
    /\ UNCHANGED <<scale, units, paused, doing, data, late, cmd, toTime, targets, shown, pending,
                   plan, began>>

\* The charm ends a backup, also one nobody waits for any more.
BackupEnds(a, id) ==
    /\ id \in DOMAIN repo[a] /\ repo[a][id] = "running"
    /\ \/ repo' = [repo EXCEPT ![a][id] = "finished"] /\ faults' = faults
       \/ repo' = [repo EXCEPT ![a][id] = "failed"] /\ Fail
    /\ UNCHANGED <<scale, units, paused, doing, data, late, cmd, pc, toTime, targets, shown,
                   waiting, pending, plan, outcome, began>>

\* _BackupAppStep: what the action answers
BackupAppResult(status) == IF status = "finished" THEN "success" ELSE "failed"

\* A thread gets the answer, or its wait runs out.
BackupReturns(a) ==
    /\ pc = "backups" /\ a \in waiting
    /\ LET status == Last(repo[a])
       IN  /\ IF status = "running" THEN Fail ELSE faults' = faults
           /\ outcome' = [outcome EXCEPT ![a] = BackupAppResult(status)]
    /\ waiting' = waiting \ {a}
    /\ UNCHANGED <<juju, cmd, pc, toTime, targets, shown, pending, plan, began>>

\* WriteBackupManifestStep and the exit code, from the results
BackupDone ==
    /\ pc = "backups" /\ waiting = {}
    /\ Exit
    /\ UNCHANGED <<juju, toTime, shown, outcome, began, faults>>

----------------------------------------------------------------------------
(* ListBackupsStep: the list action of each application, in parallel.  One *)
(* that fails leaves an entry with an error.                               *)

\* _filter_restore_targets: what was listed and has a successful backup; the
\* rest is left out once that is confirmed.
FilterRestoreTargets(listed) == {a \in listed : Successful(a, repo[a]) # {}}

ListBackups ==
    /\ pc = "inventory"
    /\ \E listed \in SUBSET targets :
        /\ IF listed = targets THEN faults' = faults ELSE Fail
        /\ shown' = [a \in Backed |-> IF cmd = "restore" /\ a \in listed THEN repo[a] ELSE <<>>]
        /\ pc' = IF cmd = "list" THEN "listed" ELSE "confirm"
        /\ targets' = IF cmd = "list" THEN targets ELSE FilterRestoreTargets(listed)
    /\ UNCHANGED <<juju, cmd, toTime, waiting, pending, plan, outcome, began>>

\* ResolveActionTargetsStep: an application of a restore has no leader.
UnresolvedTarget ==
    /\ pc = "inventory" /\ cmd = "restore"
    /\ Fail /\ Exit
    /\ UNCHANGED <<juju, toTime, shown, outcome, began>>

\* The inventory manifest of `list`; a restore that has no target left fails.
NothingMore ==
    /\ pc = "listed" \/ (pc = "confirm" /\ targets = {})
    /\ Exit
    /\ UNCHANGED <<juju, toTime, shown, outcome, began, faults>>

----------------------------------------------------------------------------
(* RestoreStep *)

Prepared(a) ==
    [app |-> a, plan |-> build_restore_plan(a, units), revert |-> build_restore_revert_plan(a, units)]

\* The plans of all applications are built before the first step.
PrepareRestore ==
    /\ pc = "confirm" /\ targets # {}
    /\ pending' = SetToSeq({Prepared(a) : a \in targets})
    /\ pc' = "next" /\ began' = Found("restore")
    /\ UNCHANGED <<juju, cmd, targets, waiting, plan, toTime, shown, outcome, faults>>

\* Before that, a client without the actions pause and resume, or a scale
\* that cannot be read, ends the command.
PrecheckFails ==
    /\ pc = "confirm" /\ targets # {}
    /\ Fail /\ Exit
    /\ UNCHANGED <<juju, toTime, shown, outcome, began>>

\* The loop over the prepared applications
NextApp ==
    /\ pc = "next"
    /\ IF pending = <<>>
       THEN Exit
       ELSE plan' = Head(pending).plan /\ pc' = "run" /\ UNCHANGED <<cmd, targets, waiting, pending>>
    /\ UNCHANGED <<juju, toTime, shown, outcome, began, faults>>

Now == Head(plan)
App == Head(pending).app

SameCommand == UNCHANGED <<cmd, toTime, targets, shown, waiting, pending, outcome, began>>

\* What a step asks of Juju or of a charm
StepEffect ==
    CASE Now.op = "pause" -> paused' = paused \cup {Now.app} /\ UNCHANGED <<scale, doing>>
      [] Now.op = "resume" -> paused' = paused \ {Now.app} /\ UNCHANGED <<scale, doing>>
      [] Now.op = "scale" -> scale' = [scale EXCEPT ![Now.app] = Now.n] /\ UNCHANGED <<paused, doing>>
      [] Now.op = "restore" ->
             doing' = [doing EXCEPT ![Now.app] = RestoreParams(Now.app)] /\ UNCHANGED <<scale, paused>>

\* What the step waits for: the units, or the answer of the restore action
StepDone ==
    CASE Now.op = "scale" -> units[Now.app] = Now.n
      [] Now.op = "restore" -> doing[Now.app] = None
      [] OTHER -> TRUE

\* restore_params finds the latest backup again, just before the action.
RunStep ==
    /\ pc \in {"run", "revert"} /\ plan # <<>>
    /\ Now.op = "restore" => doing[Now.app] = None /\ RestoreParams(Now.app) # None
    /\ StepEffect
    /\ pc' = IF pc = "run" THEN "run wait" ELSE "revert wait"
    /\ UNCHANGED <<units, repo, data, late, plan, faults>> /\ SameCommand

\* Kubernetes follows the scale.
UnitsFollow(a) ==
    /\ units[a] # scale[a]
    /\ units' = [units EXCEPT ![a] = scale[a]]
    /\ UNCHANGED <<scale, paused, repo, doing, data, late, cmd, pc, toTime, targets, shown,
                   waiting, pending, plan, outcome, began, faults>>

\* The restore action of the charm ends, also one that nobody waits for.
RestoreEnds(a) ==
    /\ doing[a] # None
    /\ data' = [data EXCEPT ![a] = doing[a]]
    /\ doing' = [doing EXCEPT ![a] = None]
    /\ late' = late \ {a}
    /\ UNCHANGED <<scale, units, paused, repo, cmd, pc, toTime, targets, shown, waiting, pending,
                   plan, outcome, began, faults>>

StepReturns ==
    /\ pc \in {"run wait", "revert wait"}
    /\ StepDone
    /\ plan' = Tail(plan)
    /\ pc' = IF pc = "run wait" THEN "run" ELSE "revert"
    /\ UNCHANGED <<juju, faults>> /\ SameCommand

\* An action that fails changes nothing; one whose wait runs out goes on.
StepFails ==
    /\ plan # <<>> /\ Fail
    /\ pc \in {"run", "run wait", "revert", "revert wait"}
    /\ late' = IF Now.op = "restore" /\ doing[Now.app] # None THEN late \cup {Now.app} ELSE late
    /\ IF pc \in {"run", "run wait"}
       THEN pc' = "revert" /\ plan' = Head(pending).revert /\ outcome' = outcome
       \* _run_revert_plan goes on with the next step
       ELSE /\ pc' = "revert" /\ plan' = Tail(plan)
            /\ outcome' = [outcome EXCEPT ![App] = "rollback failed"]
    /\ UNCHANGED <<scale, units, paused, repo, doing, data, cmd, toTime, targets, shown, waiting,
                   pending, began>>

AppRestored ==
    /\ pc = "run" /\ plan = <<>>
    /\ outcome' = [outcome EXCEPT ![App] = "success"]
    /\ pending' = Tail(pending) /\ pc' = "next"
    /\ UNCHANGED <<juju, cmd, toTime, targets, shown, waiting, plan, began, faults>>

Reverted ==
    IF outcome[App] = "rollback failed" THEN "rollback failed"
    ELSE IF App \in Vaults THEN "failed" ELSE "reverted"

\* The result of the failed application; the ones after it are not tried.
AppReverted ==
    /\ pc = "revert" /\ plan = <<>>
    /\ outcome' = [a \in Backed |->
          CASE a = App -> Reverted
            [] \E i \in 2..Len(pending) : pending[i].app = a -> "not attempted"
            [] OTHER -> outcome[a]]
    /\ Exit
    /\ UNCHANGED <<juju, toTime, shown, began, faults>>

\* The process is killed; what the charms and Kubernetes do goes on.
Kill ==
    /\ cmd # "none" /\ Fail
    /\ Exit
    /\ late' = late \cup {a \in Backed : doing[a] # None}
    /\ UNCHANGED <<scale, units, paused, repo, doing, data, toTime, shown, outcome, began>>

----------------------------------------------------------------------------
Command == \E k \in {"backup", "list", "restore"}, pit \in BOOLEAN : Validate(k, pit)

Step ==
    \/ ResolveBackupTargets \/ (\E a \in Backed : BackupReturns(a)) \/ BackupDone
    \/ ListBackups \/ UnresolvedTarget \/ NothingMore
    \/ PrepareRestore \/ PrecheckFails \/ NextApp \/ RunStep \/ StepReturns \/ StepFails
    \/ AppRestored \/ AppReverted

Outside ==
    \/ \E a \in Backed, id \in 1..(PointInTime - 1) : BackupEnds(a, id)
    \/ \E a \in DOMAIN Scale0 : UnitsFollow(a)
    \/ \E a \in Backed : RestoreEnds(a)

Next == Command \/ Step \/ Outside \/ Decline \/ Kill

\* The command goes on until it ends, its questions are answered, and the
\* charms and Kubernetes do what they were asked.
Spec == Init /\ [][Next]_bvars /\ WF_bvars(Step) /\ WF_bvars(Outside)

----------------------------------------------------------------------------
(* Properties *)

TypeOK ==
    /\ scale \in [DOMAIN Scale0 -> Nat] /\ units \in [DOMAIN Scale0 -> Nat]
    /\ \A a \in Backed : Len(repo[a]) < PointInTime /\ doing[a] \in 0..PointInTime
    /\ (cmd = "none") = (pc = "none")
    /\ pc \in {"run", "run wait", "revert", "revert wait"} => pending # <<>>
    /\ waiting \subseteq targets
    /\ late \subseteq {a \in Backed : doing[a] # None}

Quiesced(m) ==
    /\ ApiApps(m) \subseteq paused
    /\ units[m] = 1 /\ \A r \in RouterApps(m) : units[r] = 0

\* The data of a MySQL cluster is replaced only while its API applications
\* are paused, its routers are gone and one unit is left
\* (build_restore_plan, _ScaleAppStep), except by a restore action the
\* command gave up on: run_action times out, the action goes on, and the
\* revert plan resumes the clients meanwhile.
RestoredWhileQuiet ==
    [][\A m \in MySQLs : doing[m] # None /\ doing'[m] = None /\ m \notin late => Quiesced(m)]_bvars

\* A restore disturbs one application at a time: the loop of RestoreStep
\* stops at the first that fails, also when its rollback failed.
OneAtATime ==
    cmd = "restore" /\ pc \notin {"inventory", "confirm"} =>
    \A m, n \in MySQLs :
        /\ ~ (paused \cap ApiApps(m) \subseteq began.paused)
        /\ ~ (paused \cap ApiApps(n) \subseteq began.paused)
        => m = n

\* What the result of an application says is true: restored or reverted, its
\* clients run and every application has the scale found when the plan was
\* built, however many steps failed and whichever; not attempted, nothing
\* was touched (_restore_one, _run_revert_plan).  One application is disturbed
\* at a time.
OutcomeTrue ==
    /\ OneAtATime
    /\ cmd = "none" /\ began.kind = "restore" =>
          \A m \in MySQLs :
             /\ outcome[m] \in {"success", "reverted"} =>
                    /\ \A a \in Served(m) : scale[a] = began.units[a] /\ units[a] = began.units[a]
                    /\ ApiApps(m) \cap paused = {}
             /\ outcome[m] = "not attempted" =>
                    /\ \A a \in Served(m) : scale[a] = began.scale[a]
                    /\ ApiApps(m) \cap paused = ApiApps(m) \cap began.paused

\* What the commands say of backups is true.  A restore that succeeded put back
\* a finished backup, no older than the newest in the inventory that was
\* confirmed (restore_params lists again); what the manifest and the exit code
\* of a backup count as succeeded is in the repository, finished, and was made
\* by this command (_BackupAppStep).
BackupsTrue ==
    cmd = "none" =>
    \A a \in Backed : outcome[a] = "success" =>
        /\ began.kind = "restore" /\ ~ (toTime /\ a \in MySQLs) =>
               /\ data[a] \in DOMAIN repo[a] /\ repo[a][data[a]] = "finished"
               /\ \A i \in DOMAIN shown[a] : shown[a][i] = "finished" => i <= data[a]
        /\ began.kind = "backup" =>
               \E i \in DOMAIN repo[a] : i > began.ids[a] /\ repo[a][i] = "finished"

=============================================================================
