---------------------------- MODULE JujuBootstrap ----------------------------
(***************************************************************************)
(* `sunbeam cluster bootstrap` of the local provider: the machines model   *)
(* is made on the Juju controller the user bootstrapped on LXD, Kubernetes *)
(* is deployed in it, a second controller is bootstrapped on Kubernetes,   *)
(* the model migrates there, and the client is registered as the user of   *)
(* the node.  Any step may fail or the command be killed; the user gives   *)
(* the command again.  With --controller the model is made on an external  *)
(* controller and nothing migrates.                                        *)
(***************************************************************************)
EXTENDS Naturals, Sequences, FiniteSets

CONSTANTS
    Machine0Apps,     \* applications deployed before the controller moves, in order
    LaterApps,        \* applications deployed after it, in order
    MaxStops          \* bound: commands that stop before their end, migrations that abort

None == "none"

VARIABLES
    external,   \* --controller is given
    current,    \* the controller the Juju client has selected
    login,      \* the user of the client at "k8s", None if "k8s" is not registered
    up,         \* the controller on Kubernetes runs
    models,     \* controllers that hold a model openstack-machines
    machine,    \* the controller whose model holds this machine
    moving,     \* a migration to "k8s" is going on
    db,         \* the controller recorded in clusterd
    migrated,   \* juju-controller-migrated in clusterd
    user,       \* the user of the node at "k8s": None, "added", "superuser"
    row,        \* the user's row in clusterd: None, "empty", "token", "used"
    account,    \* account.yaml: None, "lxd_admin", "k8s_admin", "node", "ext"
    backup,     \* the user at "k8s" in accounts.yaml.bk
    apps,       \* applications deployed
    done,       \* bootstrapped, in clusterd
    jhelper,    \* the controller of the command's JujuHelper
    token,      \* the token CreateJujuUserStep returned
    pc,         \* the step of the running command, 0 when none runs
    stops

juju == <<current, login, up, models, machine, moving, user>>
files == <<account, backup>>
clusterd == <<db, migrated, row, done>>
local == <<jhelper, token>>
bvars == <<external, juju, files, clusterd, local, apps, pc, stops>>

----------------------------------------------------------------------------
(* The steps, in the order bootstrap and deploy_and_migrate_juju_controller *)
(* put them                                                                *)

Deploy(as) == [i \in DOMAIN as |-> <<"deploy", as[i]>>]
Steps(names) == [i \in DOMAIN names |-> <<names[i], None>>]

get_juju_controller_plans ==
    <<<<"backup_user", "lxd">>, <<"controller", "lxd">>, <<"admin", "lxd">>>>

get_juju_model_machine_plans == Steps(<<"reload", "model", "machine">>)

\* The last is set_juju_controller_migrated, after the plan
get_juju_migrate_plans ==
    Steps(<<"switch_k8s", "migrate", "wait">>)
    \o <<<<"controller", "k8s">>, <<"admin", "k8s">>, <<"flag", None>>>>

UserPlansBackupLast ==
    Steps(<<"user_row", "grant", "save_user", "unregister", "register", "backup_user">>)

get_juju_user_plans ==
    Steps(<<"user_row", "grant", "backup_user", "save_user", "unregister", "register">>)

ServicesPlan == Deploy(LaterApps) \o Steps(<<"bootstrapped">>)

LocalPlan ==
    Steps(<<"switch">>) \o get_juju_controller_plans
    \o get_juju_model_machine_plans \o Deploy(Machine0Apps) \o Steps(<<"bootstrap_juju">>)
    \o get_juju_migrate_plans \o Steps(<<"reload", "add_user", "superuser">>)
    \o get_juju_user_plans \o ServicesPlan

ExternalPlan ==
    <<<<"switch", None>>, <<"controller", "ext">>, <<"account_ext", None>>>>
    \o get_juju_model_machine_plans \o Deploy(Machine0Apps) \o ServicesPlan

Plan == IF external THEN ExternalPlan ELSE LocalPlan

AllApps == {Machine0Apps[i] : i \in DOMAIN Machine0Apps} \cup {LaterApps[i] : i \in DOMAIN LaterApps}

----------------------------------------------------------------------------
Init ==
    /\ external \in BOOLEAN
    /\ current = "lxd" /\ login = None /\ up = FALSE
    /\ models = {} /\ machine = None /\ moving = FALSE /\ user = None
    /\ db = None /\ migrated = FALSE /\ row = None /\ done = FALSE
    /\ account = None /\ backup = None /\ apps = {}
    /\ jhelper = None /\ token = None /\ pc = 0 /\ stops = 0

\* The command is given, again after one that stopped or succeeded.
Start ==
    /\ pc = 0
    /\ pc' = 1 /\ jhelper' = None /\ token' = None
    /\ UNCHANGED <<external, juju, files, clusterd, apps, stops>>

At(name) == pc # 0 /\ Plan[pc][1] = name

Advance == pc' = IF pc = Len(Plan) THEN 0 ELSE pc + 1

\* run_plan stops at the first step that does not succeed.
GoOnIf(ok) == IF ok THEN Advance ELSE pc' = 0

Registered(c) == c = "lxd" \/ (c = "k8s" /\ login # None) \/ (c = "ext" /\ external)

SwitchTo(c) ==
    /\ current' = IF Registered(c) THEN c ELSE current
    /\ GoOnIf(Registered(c))

\* SwitchToController(juju_controller or the one in clusterd or the LXD one)
SwitchFirst ==
    /\ At("switch")
    /\ SwitchTo(IF external THEN "ext" ELSE IF db = None THEN "lxd" ELSE db)
    /\ UNCHANGED <<external, login, up, models, machine, moving, user, files, clusterd, local, apps, stops>>

SwitchToController ==
    /\ At("switch_k8s") /\ SwitchTo("k8s")
    /\ UNCHANGED <<external, login, up, models, machine, moving, user, files, clusterd, local, apps, stops>>

\* The plans of the LXD controller are made only while nothing has migrated.
Omitted == migrated /\ Plan[pc][2] = "lxd"

OmitStep ==
    /\ pc # 0 /\ Omitted
    /\ Advance
    /\ UNCHANGED <<external, juju, files, clusterd, local, apps, stops>>

CurrentUser == IF current = "k8s" THEN login ELSE "admin"

\* accounts.yaml is copied while the client is logged in as admin.
BackupBootstrapUser ==
    /\ At("backup_user") /\ ~Omitted
    /\ backup' = IF CurrentUser = "admin" THEN login ELSE backup
    /\ GoOnIf(CurrentUser # None)
    /\ UNCHANGED <<external, juju, account, clusterd, local, apps, stops>>

\* Written whenever it differs from what is recorded
Recorded(c) == c

ClusterUpdateJujuController(c) ==
    /\ At("controller") /\ Plan[pc][2] = c /\ ~Omitted
    /\ db' = IF Registered(c) THEN Recorded(c) ELSE db
    /\ GoOnIf(Registered(c))
    /\ UNCHANGED <<external, juju, files, migrated, row, done, local, apps, stops>>

Admin(c) == IF c = "lxd" THEN "lxd_admin" ELSE "k8s_admin"

\* Only the account of the bootstrap user is saved.
AdminSaved(c) == account' = IF c = "k8s" /\ login # "admin" THEN account ELSE Admin(c)

SaveJujuAdminUserLocally(c) ==
    /\ At("admin") /\ Plan[pc][2] = c /\ ~Omitted
    /\ AdminSaved(c)
    /\ Advance
    /\ UNCHANGED <<external, juju, backup, clusterd, local, apps, stops>>

SaveJujuRemoteUserLocally ==
    /\ At("account_ext")
    /\ account' = "ext"
    /\ Advance
    /\ UNCHANGED <<external, juju, backup, clusterd, local, apps, stops>>

reload_credentials ==
    /\ At("reload")
    /\ jhelper' = db
    /\ Advance
    /\ UNCHANGED <<external, juju, files, clusterd, token, apps, stops>>

\* model_exists asks the controller of the helper, add_model the selected one.
AddJujuModel ==
    /\ At("model")
    /\ IF jhelper \in models
       THEN Advance /\ UNCHANGED models
       ELSE GoOnIf(current \notin models) /\ models' = models \cup {current}
    /\ UNCHANGED <<external, current, login, up, machine, moving, user, files, clusterd, local, apps, stops>>

\* A machine that is in the model is skipped; Juju refuses to add one that it
\* already provisioned for another model.
MachineFoundOrAdded == machine \in {None, current}

AddJujuMachine ==
    /\ At("machine")
    /\ machine' = IF machine = None THEN current ELSE machine
    /\ GoOnIf(current \in models /\ MachineFoundOrAdded)
    /\ UNCHANGED <<external, current, login, up, models, moving, user, files, clusterd, local, apps, stops>>

\* The steps that deploy an application in the model of the command's helper;
\* a model that migrates takes no changes.
DeployApplication ==
    /\ At("deploy")
    /\ apps' = IF jhelper \in models /\ ~moving THEN apps \cup {Plan[pc][2]} ELSE apps
    /\ GoOnIf(jhelper \in models /\ ~moving)
    /\ UNCHANGED <<external, juju, files, clusterd, local, stops>>

\* AddK8SCloudInClientStep, BootstrapJujuStep; skipped when registered
BootstrapJuju ==
    /\ At("bootstrap_juju")
    /\ GoOnIf(login # None \/ ~up)
    /\ up' = TRUE
    /\ login' = IF up THEN login ELSE "admin"
    /\ current' = IF up THEN current ELSE "k8s"
    /\ UNCHANGED <<external, models, machine, moving, user, files, clusterd, local, apps, stops>>

\* MigrateModelStep: selects the new controller, is skipped when the model is
\* there, and fails when it is not on the old one or already migrates.
MigrateModel ==
    /\ At("migrate")
    /\ current' = "k8s"
    /\ IF "k8s" \in models \/ ("lxd" \in models /\ ~moving) THEN Advance ELSE pc' = 0
    /\ moving' = (moving \/ ("k8s" \notin models /\ "lxd" \in models))
    /\ UNCHANGED <<external, login, up, models, machine, user, files, clusterd, local, apps, stops>>

\* _wait_for_model; an aborted migration is tried again, three times in all.
WaitForModel ==
    /\ At("wait") /\ ~moving
    /\ IF "k8s" \in models THEN Advance ELSE pc' \in {pc - 1, 0}
    /\ UNCHANGED <<external, juju, files, clusterd, local, apps, stops>>

\* Juju, in its own time
MigrationEnds ==
    /\ moving /\ moving' = FALSE
    /\ models' = (models \ {"lxd"}) \cup {"k8s"}
    /\ machine' = IF machine = "lxd" THEN "k8s" ELSE machine
    /\ UNCHANGED <<external, current, login, up, user, files, clusterd, local, apps, pc, stops>>

MigrationAborts ==
    /\ moving /\ stops < MaxStops
    /\ moving' = FALSE /\ stops' = stops + 1
    /\ UNCHANGED <<external, current, login, up, models, machine, user, files, clusterd, local, apps, pc>>

set_juju_controller_migrated ==
    /\ At("flag")
    /\ migrated' = TRUE
    /\ Advance
    /\ UNCHANGED <<external, juju, files, db, row, done, local, apps, stops>>

\* Skipped, without a token, when the user exists
AddUserNeeded == user = None

CreateJujuUser ==
    /\ At("add_user")
    /\ user' = IF AddUserNeeded THEN "added" ELSE user
    /\ token' = IF AddUserNeeded THEN "token" ELSE None
    /\ Advance
    /\ UNCHANGED <<external, current, login, up, models, machine, moving, files, clusterd, jhelper, apps, stops>>

GrantSuperuser ==
    /\ At("superuser")
    /\ user' = IF token = None THEN user ELSE "superuser"
    /\ Advance
    /\ UNCHANGED <<external, current, login, up, models, machine, moving, files, clusterd, local, apps, stops>>

ClusterAddJujuUser ==
    /\ At("user_row")
    /\ row' = IF row # None THEN row ELSE IF token = None THEN "empty" ELSE token
    /\ Advance
    /\ UNCHANGED <<external, juju, files, db, migrated, done, local, apps, stops>>

JujuGrantModelAccess ==
    /\ At("grant")
    /\ GoOnIf(current \in models)
    /\ UNCHANGED <<external, juju, files, clusterd, local, apps, stops>>

SaveJujuUserLocally ==
    /\ At("save_user")
    /\ account' = "node"
    /\ Advance
    /\ UNCHANGED <<external, juju, backup, clusterd, local, apps, stops>>

\* RegisterJujuUserStep is skipped when the client is logged in as the user of
\* account.yaml, and fails without a token.
UnregisterController ==
    /\ At("unregister")
    /\ login' = IF CurrentUser # account /\ row \in {"token", "used"} THEN None ELSE login
    /\ GoOnIf(CurrentUser = account \/ row \in {"token", "used"})
    /\ UNCHANGED <<external, current, up, models, machine, moving, user, files, clusterd, local, apps, stops>>

RegisterController ==
    /\ At("register")
    /\ IF login = "node"
       THEN Advance /\ UNCHANGED <<login, row>>
       ELSE /\ GoOnIf(row = "token")
            /\ login' = IF row = "token" THEN "node" ELSE login
            /\ row' = IF row = "token" THEN "used" ELSE row
    /\ UNCHANGED <<external, current, up, models, machine, moving, user, files, db, migrated, done, local, apps, stops>>

SetBootstrapped ==
    /\ At("bootstrapped")
    /\ done' = TRUE
    /\ Advance
    /\ UNCHANGED <<external, juju, files, db, migrated, row, local, apps, stops>>

\* The command is killed, or what the step asks for fails or times out.
Stop ==
    /\ pc # 0 /\ stops < MaxStops
    /\ pc' = 0 /\ stops' = stops + 1
    /\ UNCHANGED <<external, juju, files, clusterd, local, apps>>

Step ==
    \/ SwitchFirst \/ SwitchToController \/ OmitStep \/ BackupBootstrapUser
    \/ \E c \in {"lxd", "k8s", "ext"} : ClusterUpdateJujuController(c)
    \/ \E c \in {"lxd", "k8s"} : SaveJujuAdminUserLocally(c)
    \/ SaveJujuRemoteUserLocally \/ reload_credentials
    \/ AddJujuModel \/ AddJujuMachine \/ DeployApplication
    \/ BootstrapJuju \/ MigrateModel \/ WaitForModel \/ set_juju_controller_migrated
    \/ CreateJujuUser \/ GrantSuperuser \/ ClusterAddJujuUser \/ JujuGrantModelAccess
    \/ SaveJujuUserLocally \/ UnregisterController \/ RegisterController
    \/ SetBootstrapped

Next == Start \/ Step \/ MigrationEnds \/ MigrationAborts \/ Stop

\* A command goes on, Juju ends a migration it began, and the user gives the
\* command until it succeeds.
Fairness == WF_bvars(Start) /\ WF_bvars(Step) /\ WF_bvars(MigrationEnds)

Spec == Init /\ [][Next]_bvars /\ Fairness

----------------------------------------------------------------------------
(* Properties *)

TypeOK ==
    /\ external \in BOOLEAN /\ up \in BOOLEAN /\ moving \in BOOLEAN
    /\ migrated \in BOOLEAN /\ done \in BOOLEAN
    /\ current \in {"lxd", "k8s", "ext"} /\ login \in {None, "admin", "node"}
    /\ models \subseteq {"lxd", "k8s", "ext"} /\ machine \in models \cup {None}
    /\ db \in {None, "lxd", "k8s", "ext"} /\ jhelper \in {None, "lxd", "k8s", "ext"}
    /\ user \in {None, "added", "superuser"} /\ token \in {None, "token"}
    /\ row \in {None, "empty", "token", "used"}
    /\ account \in {None, "lxd_admin", "k8s_admin", "node", "ext"}
    /\ backup \in {None, "admin"}
    /\ apps \subseteq AllApps /\ pc \in 0..Len(Plan) /\ stops \in 0..MaxStops

Target == IF external THEN "ext" ELSE "k8s"

\* Registering the user of the node replaces the admin of the new controller in
\* the client's files: by then the backup holds the admin's credentials, and
\* account.yaml has the password of the user that the client logs in as.
CredentialsKept == login = "node" => backup = "admin" /\ account = "node"

\* A bootstrap that says it succeeded, at whichever attempt, leaves one machines
\* model, on the controller that clusterd records and that the client uses, with
\* the machine and every application in it, and no LXD credentials in use; and
\* at no moment are the credentials of the new controller's admin lost.
BootstrapLeaves ==
    /\ CredentialsKept
    /\ done =>
          /\ models = {Target} /\ machine = Target /\ db = Target /\ current = Target
          /\ apps = AllApps
          /\ external \/ (migrated /\ login = "node" /\ account = "node" /\ user = "superuser")

\* What giving bootstrap again does not repair: a command that stopped between
\* the end of the migration and the flag, between `juju add-user` and the
\* user's row, or between unregistering and registering the controller.
Stranded ==
    \/ "k8s" \in models /\ ~migrated
    \/ user # None /\ (row \in {None, "empty"} \/ user = "added")
    \/ up /\ login = None

\* Whatever stops a bootstrap, giving it again completes it, the three windows
\* of Stranded apart.
Completed == done \/ Stranded

=============================================================================
