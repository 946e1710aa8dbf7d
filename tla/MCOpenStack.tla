----------------------------- MODULE MCOpenStack -----------------------------
(* The OpenStack that is deployed.  A behaviour takes one of two parts:     *)
(*   "backup"   two MySQL clusters with a router and an API application     *)
(*              each, and Vault, are backed up and restored;                *)
(*   "control"  the variables of its plan are written by the commands that  *)
(*              deploy, resize, refresh and configure it.                   *)
(* In each part the commands of the other rest.                             *)
EXTENDS BackupRestore

CONSTANTS Sites, LargeFrom, MaxStops, MaxCommands

\* A cluster has a host that controls.
ASSUME OpenStackAssumption ==
    /\ Sites \subseteq (Nat \ {0}) \X Nat
    /\ LargeFrom \in Nat /\ {MaxStops, MaxCommands} \subseteq Nat

VARIABLES
    part,
    nodes, osdNodes, manifest, answered, planVars, plane, order, at, unchecked, halfway,
    orderStops, orders

MCMysqlClient ==
    {<<"nova-mysql", "nova-mysql-router">>, <<"nova-mysql-router", "nova">>,
     <<"glance-mysql", "glance-mysql-router">>, <<"glance-mysql-router", "glance">>}

MCScale0 ==
    [a \in {"nova-mysql", "nova-mysql-router", "glance-mysql", "glance-mysql-router"} |->
        IF a = "nova-mysql" THEN 3 ELSE 2]

MCPast ==
    [a \in {"nova-mysql", "glance-mysql", "vault"} |->
        IF a = "nova-mysql" THEN <<"finished">> ELSE <<>>]

\* One controller, or three that store as well.
MCSites == {<<1, 0>>, <<3, 1>>}

\* No size given; other databases, region and sizes; other charms.
Plain == [database |-> "single", region |-> "r1", mysql |-> "none", rabbit |-> "none", infra |-> 1]
Other == [Plain EXCEPT !.database = "multi", !.region = "r2", !.mysql = "40G", !.rabbit = "8G"]
Newer == [Plain EXCEPT !.infra = 2]

Answer(m, endpoints, proxy) == [manifest |-> m, endpoints |-> endpoints, proxy |-> proxy]

C == INSTANCE ControlPlane
       WITH Manifests <- {Plain, Other, Newer}, Cleared <- Plain, NoSize <- "none",
            Answers <- {Answer(Plain, {}, FALSE), Answer(Other, {"ip"}, TRUE),
                        Answer(Newer, {"hostname"}, FALSE)},
            DEFAULT_STORAGE_DATABASE <- "20G", DEFAULT_RABBITMQ_STORAGE <- "4G",
            SmallHost <- TRUE

cvars == <<nodes, osdNodes, manifest, answered, planVars, plane, order, at, unchecked, halfway,
           orderStops, orders>>

PartInit ==
    /\ part \in {"backup", "control"}
    /\ Init /\ C!Init
    /\ part = "backup" => nodes = 1 /\ answered = C!NoRows

PartNext ==
    /\ UNCHANGED part
    /\ \/ part = "backup" /\ Next /\ UNCHANGED cvars
       \/ part = "control" /\ C!Next /\ UNCHANGED bvars

PartSpec == PartInit /\ [][PartNext]_<<part, bvars, cvars>>

\* The state of each part has its types.
PartTypeOK == TypeOK /\ C!TypeOK

\* No command changes what cannot be changed later, and what is deployed serves
\* what was answered.
ControlPlaneKept == C!ControlPlaneKept
=============================================================================
