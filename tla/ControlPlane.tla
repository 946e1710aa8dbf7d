---------------------------- MODULE ControlPlane ----------------------------
(* The variables of the OpenStack plan as the commands of an operator leave *)
(* them: `bootstrap`, which asks and deploys; the commands that deploy once *)
(* more (`resize`, `storage add`, the join of the first storage node);      *)
(* `refresh` and `configure sriov`, which reapply with a manifest; `proxy`; *)
(* and the enabling and disabling of a feature with a database.             *)
(*                                                                          *)
(* A command is a sequence of steps, one for every row it writes, and may   *)
(* stop before any of them; rows, stored variables and what is deployed are *)
(* therefore apart until a later command brings them together.              *)
EXTENDS Naturals, FiniteSets

CONSTANTS
    Manifests,      \* manifests an operator may give; a record each, see TypeOK
    Answers,        \* manifest, endpoints and proxy an operator may give to bootstrap
    Cleared,        \* the manifest in force once the stored one is cleared
    NoSize,         \* no size given
    DEFAULT_STORAGE_DATABASE, DEFAULT_RABBITMQ_STORAGE,
    Sites,          \* numbers of hosts that control and that store
    LargeFrom,      \* hosts from which the topology is large (10)
    SmallHost,      \* the host has too few cores or too little memory for many databases
    MaxStops,       \* commands that stop half way
    MaxCommands     \* commands

VARIABLES
    nodes, osdNodes,    \* hosts that control; hosts that store
    manifest,           \* the manifest stored in clusterd
    answered,           \* rows of clusterd: answers, model configuration, sizes
    planVars, plane,    \* variables stored for the plan; those it was last applied with
    order, at,          \* the command being run and its next step
    unchecked,          \* a size was written by a step that does not check sizes
    halfway,            \* the last command on the feature stopped
    orderStops, orders

vars == <<nodes, osdNodes, manifest, answered, planVars, plane, order, at, unchecked, halfway,
          orderStops, orders>>

None == "none"
Unanswered == {None}
Topologies == {"single", "multi", "large"}
Services == {"core", "feature"}
EndpointKeys == {"ip", "hostname"}

Resting == [kind |-> "rest", manifest |-> Cleared, endpoints |-> {}, proxy |-> FALSE]
NoVars == [database |-> None]

\* Variables of the plan before the first command.
FreshVars ==
    [database |-> "single", region |-> None, mysql |-> NoSize, rabbit |-> NoSize,
     rabbitComputed |-> FALSE, endpoints |-> {}, proxy |-> FALSE, api |-> 1, ha |-> 1,
     ingress |-> 1, connections |-> 0, ceph |-> FALSE, infra |-> Cleared.infra,
     feature |-> FALSE]

Exists(v) == v # NoVars

(***************************************************************************)
(* Sizing.                                                                 *)
(***************************************************************************)
determine_target_topology ==
    CASE nodes = 1 /\ SmallHost -> "single"
      [] nodes < LargeFrom /\ ~ (nodes = 1 /\ SmallHost) -> "multi"
      [] OTHER -> "large"

compute_ha_scale(topology, control) ==
    IF topology = "single" \/ control < 3 THEN 1 ELSE 3

AtMost(n, m) == IF n < m THEN n ELSE m

compute_os_api_scale(topology, control) ==
    CASE topology = "single" -> 1
      [] topology = "multi" \/ (topology = "large" /\ control < 3) -> AtMost(control, 3)
      [] OTHER -> AtMost(control + 2, 7)

compute_ingress_scale(topology, control) ==
    IF topology = "single" THEN 1 ELSE AtMost(control, 3)

\* Connections the databases are sized for, in units of one service of one
\* replica; cinder also counts the hosts that store.
get_database_resource_tfvars(services, api) == Cardinality(services) * api + osdNodes

(***************************************************************************)
(* Sizes of volumes.                                                       *)
(***************************************************************************)
get_database_storage_dict(m) ==
    CASE m.mysql # NoSize -> m.mysql
      [] m.mysql = NoSize /\ answered.mysql # NoSize -> answered.mysql
      [] OTHER -> DEFAULT_STORAGE_DATABASE

\* The size of the volumes of RabbitMQ: a row decides; a cluster that was
\* deployed without one gets none.
get_rabbitmq_storage(m) ==
    CASE answered.rabbit # NoSize -> answered.rabbit
      [] answered.rabbit = NoSize /\ Exists(planVars) -> NoSize
      [] OTHER -> IF m.rabbit # NoSize THEN m.rabbit ELSE DEFAULT_RABBITMQ_STORAGE

Differs(given, stored) == given # NoSize /\ stored # NoSize /\ given # stored

\* Mutant: only the databases are compared.
ComparesDatabases(m) == Exists(planVars) /\ Differs(m.mysql, planVars.mysql)

check_storage_modifications_in_manifest(m) ==
    Exists(planVars) /\ (Differs(m.mysql, planVars.mysql) \/ Differs(m.rabbit, planVars.rabbit))

(***************************************************************************)
(* Variables of the plan: what is stored and computed, under what the      *)
(* manifest gives, under what the step gives.                              *)
(***************************************************************************)
_load_and_filter_db_tfvars ==
    IF ~ Exists(planVars) THEN FreshVars
    ELSE [planVars EXCEPT !.rabbit = IF planVars.rabbitComputed THEN @ ELSE NoSize]

_get_tfvars(m) ==
    LET given(size, stored) == IF size # NoSize THEN size ELSE stored IN
    [_load_and_filter_db_tfvars EXCEPT !.infra = m.infra,
                                       !.mysql = given(m.mysql, @),
                                       !.rabbit = given(m.rabbit, @)]

update_tfvars(m, override) ==
    [k \in DOMAIN FreshVars |-> IF k \in DOMAIN override THEN override[k] ELSE _get_tfvars(m)[k]]

\* The plan with the variables of manifest m would move a charm that has a
\* refresh command of its own.
pending_infra_app_changes(m) == Exists(plane) /\ m.infra # plane.infra

(***************************************************************************)
(* Initial states: nothing, or a cluster deployed by an earlier release,   *)
(* which has no rows for sizes.                                            *)
(***************************************************************************)
NoRows == [database |-> None, topology |-> None, region |-> None, endpoints |-> Unanswered,
           proxy |-> FALSE, model |-> FALSE, services |-> {}, mysql |-> NoSize,
           rabbit |-> NoSize]

EarlierRows == [NoRows EXCEPT !.database = "single", !.topology = "multi", !.region = "r1",
                              !.services = {"core"}]

EarlierVars == [FreshVars EXCEPT !.region = "r1", !.connections = 1]

Init ==
    /\ \E site \in Sites : nodes = site[1] /\ osdNodes = site[2]
    /\ manifest = Cleared
    /\ \/ answered = NoRows /\ planVars = NoVars
       \/ answered = EarlierRows /\ planVars = EarlierVars
    /\ plane = planVars
    /\ order = Resting /\ at = "idle" /\ unchecked = FALSE /\ halfway = FALSE
    /\ orderStops = 0 /\ orders = 0

(***************************************************************************)
(* Commands.                                                               *)
(***************************************************************************)
Give(o, step) ==
    /\ at = "idle" /\ orders < MaxCommands
    /\ order' = o /\ at' = step /\ orders' = orders + 1
    /\ UNCHANGED <<nodes, osdNodes, manifest, answered, planVars, plane, unchecked, halfway,
                   orderStops>>

bootstrap ==
    \E a \in Answers :
        Give([kind |-> "bootstrap", manifest |-> a.manifest, endpoints |-> a.endpoints,
              proxy |-> a.proxy], "manifest")

\* `resize`, `storage add` and `remove`, the join of the first storage node.
resize ==
    Exists(plane) /\ Give([Resting EXCEPT !.kind = "resize", !.manifest = manifest], "validate")

refresh ==
    /\ Exists(plane)
    /\ \/ \E m \in Manifests \cup {manifest} :
             Give([Resting EXCEPT !.kind = "refresh", !.manifest = m], "validate")
       \/ Give([Resting EXCEPT !.kind = "refresh"], "clear")

_update_proxy ==
    /\ Exists(plane)
    /\ \E p \in BOOLEAN :
          Give([Resting EXCEPT !.kind = "proxy", !.manifest = manifest, !.proxy = p], "proxy")

feature ==
    /\ Exists(plane)
    /\ \E kind \in {"enable", "disable"} :
          Give([Resting EXCEPT !.kind = kind, !.manifest = manifest], "validate")

OnFeature == order.kind \in {"enable", "disable"}
Deploys == order.kind \in {"bootstrap", "resize"}

(***************************************************************************)
(* Steps.                                                                  *)
(***************************************************************************)
End ==
    /\ order' = Resting /\ at' = "idle"
    /\ UNCHANGED <<nodes, osdNodes, orders>>

GoTo(step) == at' = step /\ UNCHANGED <<nodes, osdNodes, order, unchecked, halfway, orderStops,
                                        orders>>

\* A step fails, or the command is killed.
Fail ==
    /\ End /\ halfway' = (halfway \/ OnFeature)
    /\ UNCHANGED <<manifest, answered, planVars, plane, unchecked, orderStops>>

Stop ==
    /\ at # "idle" /\ orderStops < MaxStops /\ orderStops' = orderStops + 1
    /\ End /\ halfway' = (halfway \/ OnFeature)
    /\ UNCHANGED <<manifest, answered, planVars, plane, unchecked>>

Write(step, row, next) ==
    /\ at = step /\ answered' = row /\ GoTo(next)
    /\ UNCHANGED <<manifest, planVars, plane>>

\* What the gate lets through goes to the step after it.
AfterGate ==
    CASE order.kind = "refresh" -> "manifest"
      [] OTHER -> "check"

ValidateInfraAppsStep ==
    /\ at = "validate"
    /\ \/ pending_infra_app_changes(order.manifest) /\ Fail
       \/ /\ ~ pending_infra_app_changes(order.manifest)
          /\ GoTo(AfterGate) /\ UNCHANGED <<manifest, answered, planVars, plane>>

AddManifestStep ==
    \/ /\ at = "manifest" /\ manifest' = order.manifest
       /\ GoTo(IF order.kind = "bootstrap" THEN "proxy" ELSE "reapply")
       /\ UNCHANGED <<answered, planVars, plane>>
    \/ /\ at = "clear" /\ manifest' = Cleared /\ GoTo("validate")
       /\ UNCHANGED <<answered, planVars, plane>>

PromptForProxyStep ==
    Write("proxy", [answered EXCEPT !.proxy = order.proxy],
          IF order.kind = "proxy" THEN "model" ELSE "database")

PromptDatabaseTopologyStep ==
    Write("database",
          [answered EXCEPT !.database = IF @ # None THEN @ ELSE order.manifest.database],
          "region")

PromptRegionStep ==
    Write("region", [answered EXCEPT !.region = IF @ # None THEN @ ELSE order.manifest.region],
          "endpoints")

EndpointsConfigurationStep ==
    Write("endpoints", [answered EXCEPT !.endpoints = order.endpoints], "check")

DeployIsSkip ==
    /\ at = "check"
    /\ \/ check_storage_modifications_in_manifest(order.manifest) /\ Fail
       \/ /\ ~ check_storage_modifications_in_manifest(order.manifest)
          /\ GoTo(IF OnFeature THEN "services" ELSE "topology")
          /\ UNCHANGED <<manifest, answered, planVars, plane>>

WriteTopology ==
    Write("topology",
          [answered EXCEPT !.topology = determine_target_topology,
                           !.database = IF @ # None THEN @ ELSE "single"], "model")

\* Only `bootstrap` hands the settings of the proxy over.
WriteModelConfig ==
    Write("model", [answered EXCEPT !.model = order.proxy],
          IF order.kind = "proxy" THEN "modelVars" ELSE "services")

write_database_resource_dict ==
    Write("services",
          [answered EXCEPT !.services =
              CASE order.kind = "enable" -> @ \cup Services
                [] order.kind = "disable" -> (@ \cup {"core"}) \ {"feature"}
                [] OTHER -> @ \cup {"core"}],
          "sizes")

\* With one database a feature only reads the row.
write_database_storage_dict ==
    Write("sizes",
          [answered EXCEPT !.mysql =
              IF OnFeature /\ answered.database = "single" THEN @
              ELSE get_database_storage_dict(order.manifest)],
          IF OnFeature THEN "featureVars" ELSE "rabbit")

WriteRabbitmqStorage ==
    Write("rabbit", [answered EXCEPT !.rabbit = get_rabbitmq_storage(order.manifest)], "vars")

\* Answers that were turned off are cleared; the others are merged into what
\* is stored.
get_endpoints_tfvars(before) ==
    CASE answered.endpoints = Unanswered -> before
      [] answered.endpoints = {} -> {}
      [] OTHER -> before \cup answered.endpoints

DeployTfvars ==
    LET rabbit == get_rabbitmq_storage(order.manifest)
        api == compute_os_api_scale(answered.topology, nodes)
        base == [database |-> answered.database, region |-> answered.region,
                 mysql |-> answered.mysql, proxy |-> answered.model, api |-> api,
                 ha |-> compute_ha_scale(answered.topology, nodes),
                 ingress |-> compute_ingress_scale(answered.topology, nodes),
                 connections |-> get_database_resource_tfvars(answered.services, api),
                 endpoints |-> get_endpoints_tfvars(_load_and_filter_db_tfvars.endpoints),
                 ceph |-> osdNodes > 0] IN
    IF rabbit = NoSize THEN base
    ELSE [k \in DOMAIN base \cup {"rabbit", "rabbitComputed"} |->
             CASE k = "rabbit" -> rabbit
               [] k = "rabbitComputed" -> TRUE
               [] OTHER -> base[k]]

FeatureTfvars ==
    [feature |-> order.kind = "enable", mysql |-> answered.mysql,
     connections |-> get_database_resource_tfvars(answered.services, planVars.api)]

Store(step, override, next) ==
    /\ at = step /\ planVars' = update_tfvars(order.manifest, override)
    /\ unchecked' = (unchecked \/ (step \in {"reapply", "modelVars"} /\ Exists(planVars)
                                     /\ (planVars'.mysql # planVars.mysql
                                           \/ planVars'.rabbit # planVars.rabbit)))
    /\ at' = next
    /\ UNCHANGED <<nodes, osdNodes, manifest, answered, plane, order, halfway, orderStops,
                   orders>>

DeployControlPlaneStep == Store("vars", DeployTfvars, "apply")
ReapplyOpenStackTerraformPlanStep == Store("reapply", [ceph |-> osdNodes > 0], "apply")
OpenStackApplicationStep == Store("featureVars", FeatureTfvars, "apply")
UpdateOpenStackModelConfigStep == Store("modelVars", [proxy |-> answered.model], "target")

apply ==
    /\ at = "apply" /\ plane' = planVars
    /\ End /\ halfway' = (halfway /\ ~ OnFeature)
    /\ UNCHANGED <<manifest, answered, planVars, unchecked, orderStops>>

\* Only the model is applied.
apply_target ==
    /\ at = "target" /\ plane' = [plane EXCEPT !.proxy = planVars.proxy]
    /\ End /\ UNCHANGED <<manifest, answered, planVars, unchecked, halfway, orderStops>>

\* Hosts join and leave between commands.
Hosts ==
    /\ at = "idle"
    /\ \E site \in Sites : nodes' = site[1] /\ osdNodes' = site[2]
    /\ UNCHANGED <<manifest, answered, planVars, plane, order, at, unchecked, halfway,
                   orderStops, orders>>

Step ==
    \/ ValidateInfraAppsStep \/ AddManifestStep \/ PromptForProxyStep
    \/ PromptDatabaseTopologyStep \/ PromptRegionStep \/ EndpointsConfigurationStep
    \/ DeployIsSkip \/ WriteTopology \/ WriteModelConfig \/ write_database_resource_dict
    \/ write_database_storage_dict \/ WriteRabbitmqStorage
    \/ DeployControlPlaneStep \/ ReapplyOpenStackTerraformPlanStep \/ OpenStackApplicationStep
    \/ UpdateOpenStackModelConfigStep \/ apply \/ apply_target

Next == bootstrap \/ resize \/ refresh \/ _update_proxy \/ feature \/ Hosts \/ Step \/ Stop

Spec == Init /\ [][Next]_vars

(***************************************************************************)
(* Properties.                                                             *)
(***************************************************************************)
PlanVars ==
    [database : {"single", "multi"}, region : {None, "r1", "r2"},
     mysql : {NoSize, DEFAULT_STORAGE_DATABASE} \cup {m.mysql : m \in Manifests},
     rabbit : {NoSize, DEFAULT_RABBITMQ_STORAGE} \cup {m.rabbit : m \in Manifests},
     rabbitComputed : BOOLEAN, endpoints : SUBSET EndpointKeys, proxy : BOOLEAN, api : 1..7,
     ha : {1, 3}, ingress : 1..3, connections : Nat, ceph : BOOLEAN,
     infra : {m.infra : m \in Manifests \cup {Cleared}}, feature : BOOLEAN]

\* Every variable has its type; what is deployed was stored before.
TypeOK ==
    /\ <<nodes, osdNodes>> \in Sites
    /\ manifest \in Manifests \cup {Cleared}
    /\ answered.topology \in Topologies \cup {None} /\ answered.services \subseteq Services
    /\ {planVars, plane} \subseteq PlanVars \cup {NoVars}
    /\ Exists(plane) => Exists(planVars)
    /\ at = "idle" <=> order = Resting
    /\ unchecked \in BOOLEAN /\ halfway \in BOOLEAN
    /\ orderStops \in 0..MaxStops /\ orders \in 0..MaxCommands

\* The answers a command that deploys must have served.
Served ==
    /\ plane.database = answered.database /\ plane.region = answered.region
    /\ plane.proxy = answered.model
    /\ answered.endpoints = {} => plane.endpoints = {}
    /\ answered.endpoints # Unanswered => answered.endpoints \subseteq plane.endpoints

\* What the commands keep of a cluster that is deployed, whatever manifests and
\* answers they are given and wherever earlier ones stopped:
\*   - the number of databases and the region never change, also when
\*     `bootstrap` is given again with other answers (openstack.py:1593, 1309);
\*   - the sizes of volumes do not change, unless a refresh or a change of the
\*     proxy, which do not check them, wrote others (openstack.py:878);
\*   - no command but `bootstrap` moves a charm that has a refresh command of
\*     its own (openstack.py:185);
\*   - a feature comes and goes by its own commands, and the databases are sized
\*     for all that use them, unless such a command stopped half way;
\*   - a deployment that completes serves the answers it was given.
Keeps ==
    LET deploys == at = "apply" /\ at' = "idle" /\ orderStops' = orderStops IN
    /\ Exists(plane) =>
          /\ plane'.database = plane.database /\ plane'.region = plane.region
          /\ ~ unchecked => /\ plane.mysql # NoSize => plane'.mysql = plane.mysql
                            /\ plane.rabbitComputed => plane'.rabbit = plane.rabbit
          /\ plane'.infra # plane.infra => order.kind = "bootstrap"
          /\ plane'.feature # plane.feature => OnFeature \/ halfway
    /\ deploys /\ ~ halfway' => plane'.connections >= plane'.api * (IF plane'.feature THEN 2 ELSE 1)
    /\ deploys /\ Deploys => Served'
    /\ deploys /\ order.kind = "bootstrap" => plane'.proxy = answered.proxy

ControlPlaneKept == [][Keeps]_vars
=============================================================================
