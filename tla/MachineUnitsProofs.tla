------------------------- MODULE MachineUnitsProofs -------------------------
(***************************************************************************)
(* For any nodes, roles, applications and sessions: the machines and units *)
(* have their types.  While operators run one command at a time, whatever  *)
(* fails or is killed: a joined node keeps its units, when Juju reports    *)
(* machines in time, and the Kubernetes endpoint stays alive.  While they  *)
(* run one at a time for each node, a removed node leaves nothing.         *)
(***************************************************************************)
EXTENDS MachineUnits, SequenceTheorems, TLAPS

----------------------------------------------------------------------------
(* Plans as sequences: which steps are left, and in which order            *)

\* The steps that a plan may hold: those of an application name one.
Steps ==
  {x \in [op : Ops, app : Apps \union {"-"}] :
     /\ x.op \in {"deploy", "reapply", "check", "remove", "remove-hypervisor"} => x.app \in Apps
     /\ x.op \in {"reapply", "remove-hypervisor"} => x.app = "openstack-hypervisor"
     /\ x.op \in {"store-kubeconfig", "cloud", "migrate"} => "k8s" \in Apps}

Elems(q) == {q[i] : i \in 1..Len(q)}

NodeOps == {"row", "machine", "update", "deploy", "reapply", "store-kubeconfig", "cloud",
            "bootstrapped"}
AdminOps == {"check", "migrate", "cloud", "remove-hypervisor", "remove", "remove-machine",
             "remove-row", "deploy", "reapply"}

\* The order of the steps, as far as the properties depend on it.
NodeRank(op) ==
  CASE op = "row" -> 1 [] op = "machine" -> 2 [] op = "update" -> 3
    [] op = "bootstrapped" -> 9 [] OTHER -> 4

AdminRank(op) ==
  CASE op = "check" -> 1 [] op = "migrate" -> 2 [] op = "cloud" -> 3
    [] op \in {"remove-hypervisor", "remove"} -> 4 [] op = "remove-machine" -> 5
    [] op = "remove-row" -> 6 [] op = "reapply" -> 8 [] OTHER -> 7

Rank(p, op) == IF p \in Nodes THEN NodeRank(op) ELSE AdminRank(op)

\* A plan of p between two ranks; only the last step has rank 9.
Within(p, q, lo, hi) ==
  /\ q \in Seq(Steps)
  /\ \A x \in Elems(q) :
       /\ lo <= Rank(p, x.op) /\ Rank(p, x.op) <= hi
       /\ x.op \in (IF p \in Nodes THEN NodeOps ELSE AdminOps)
  /\ \A i, j \in 1..Len(q) :
       i < j => Rank(p, q[i].op) <= Rank(p, q[j].op) /\ Rank(p, q[i].op) < 9

PlanOK(p) == Within(p, todo[p], 1, 9)

Holds(q, op) == \E x \in Elems(q) : x.op = op
Left(p, op) == Holds(todo[p], op)

----------------------------------------------------------------------------
(* Type correctness                                                        *)

\* A process that applies a plan is at a step that does.
Applies ==
  \A p \in Procs : phase[p] # "step" =>
    todo[p] # <<>> /\ Head(todo[p]).op \in {"deploy", "reapply"}

TypeInv == TypeOK /\ (\A p \in Procs : PlanOK(p)) /\ Applies

----------------------------------------------------------------------------
(* One command at a time                                                   *)

OneCommand == \A p, q \in Procs : todo[p] # <<>> /\ todo[q] # <<>> => p = q

\* A machine has one node and never another one; ids are not given again.
MachinesFit ==
  /\ \A m \in MachineIds : host[m] # None => m < added
  /\ \A m, k \in machines : host[m] = host[k] => m = k

\* The id of a row is that of a machine of its node, or that was; the seed has
\* its id before its machine.
IdsFit ==
  \A n \in Nodes : machineid[n] # NoMachine =>
    /\ machineid[n] < added \/ (n = Seed /\ machineid[n] = 0 /\ ~bootstrapped)
    /\ host[machineid[n]] \in {n, None}
    /\ \A k \in Nodes \ {n} : machineid[k] # machineid[n]

\* Until it is bootstrapped the cluster is the seed.
SeedFirst ==
  /\ \A p \in Procs \ {Seed} : todo[p] # <<>> => bootstrapped
  /\ todo[Seed] # <<>> =>
       /\ ~bootstrapped /\ Left(Seed, "bootstrapped")
       /\ Left(Seed, "machine") \/ added = 1
  /\ ~bootstrapped =>
       /\ joined = {}
       /\ \A n \in Nodes : machineid[n] # NoMachine => n = Seed /\ machineid[n] = 0
       /\ Seed \in rows => machineid[Seed] = 0
       /\ added = 0 \/ (added = 1 /\ host[0] = Seed)

\* What AddJujuMachineStep found is a machine of the node, while its command runs.
FoundFits ==
  \A n \in Nodes : todo[n] # <<>> /\ ~Left(n, "machine") /\ found[n] # NoMachine =>
    host[found[n]] = n

\* What a process is about to store and apply is what the rows or the stored
\* variables say.
IdsCurrent ==
  \A p \in Procs : phase[p] # "step" =>
    /\ Head(todo[p]).op = "deploy" =>
         ids[p] = {AsStored(App(p), m) : m \in RowIds(App(p))}
    /\ Head(todo[p]).op = "reapply" => ids[p] = stored[App(p)]
    /\ phase[p] \in {"apply", "applying"} => stored[App(p)] = ids[p]

BaseInv ==
  /\ TypeInv /\ OneCommand /\ MachinesFit /\ IdsFit /\ SeedFirst /\ FoundFits /\ IdsCurrent

----------------------------------------------------------------------------
(* The Kubernetes endpoint                                                 *)

EndpointOnUnit ==
  "k8s" \in Apps =>
    /\ units["k8s"] \subseteq RowIds("k8s")
    /\ {kubeconfig, cloud} \subseteq units["k8s"] \union {NoMachine}

\* A session that removes a node: it moves the endpoint, Juju follows, then the
\* unit goes, then the row.
Removes(a) == \E x \in Elems(todo[a]) : Rank(a, x.op) <= 6

MovedFirst(a) ==
  /\ Left(a, "migrate") => Left(a, "cloud")
  /\ Left(a, "migrate") \/ kubeconfig = NoMachine \/ kubeconfig # machineid[target[a]]
  /\ Left(a, "cloud") \/ cloud = kubeconfig
  /\ \/ Step("remove", "k8s") \in Elems(todo[a])
     \/ target[a] \notin rows \/ machineid[target[a]] \notin units["k8s"]

RemovesLast == "k8s" \in Apps => \A a \in Admins : Removes(a) => MovedFirst(a)

EndpointInv == BaseInv /\ EndpointOnUnit /\ RemovesLast

----------------------------------------------------------------------------
(* The units of joined nodes                                               *)

\* A node has its machine, and an application its unit on it and its id stored.
Placed(n) == n \in rows /\ machineid[n] \in MachineIds /\ host[machineid[n]] = n
Served(n, app) ==
  /\ Placed(n) /\ machineid[n] \in units[app]
  /\ AsStored(app, machineid[n]) \in stored[app]

JoinedServed == \A n \in joined : \A app \in Apps : Runs(n, app) => Served(n, app)

\* A command of a node with the steps q left: its row, its machine, and then one
\* application after the other.
SoFar(n, q) ==
  /\ Holds(q, "row") \/ n \in rows
  /\ \/ Holds(q, "machine") /\ (n = Seed \/ Holds(q, "update"))
     \/ n # Seed /\ Holds(q, "update") /\ found[n] # NoMachine
     \/ Placed(n)
  /\ \A app \in Apps : Runs(n, app) => Step("deploy", app) \in Elems(q) \/ Served(n, app)

NodeSoFar == \A n \in Nodes : todo[n] # <<>> => n \notin joined /\ SoFar(n, todo[n])

\* A node that is being removed has not joined.
RemovedNotJoined ==
  \A a \in Admins : (\E x \in Elems(todo[a]) : x.op # "reapply") => target[a] \notin joined

JoinInv == BaseInv /\ JoinedServed /\ NodeSoFar /\ RemovedNotJoined

----------------------------------------------------------------------------
(* Sequences of steps                                                      *)

LEMMA RankType == \A p, op : Rank(p, op) \in 1..9
BY DEF Rank, NodeRank, AdminRank

LEMMA NoSteps ==
  ASSUME NEW p, NEW lo, NEW hi
  PROVE  Within(p, <<>>, lo, hi) /\ Elems(<<>>) = {}
BY DEF Within, Elems

LEMMA OneStep ==
  ASSUME NEW p, NEW x \in Steps, NEW lo \in Int, NEW hi \in Int,
         lo <= Rank(p, x.op), Rank(p, x.op) <= hi,
         x.op \in (IF p \in Nodes THEN NodeOps ELSE AdminOps)
  PROVE  Within(p, <<x>>, lo, hi) /\ Elems(<<x>>) = {x}
<1>1. <<x>> \in Seq(Steps) /\ Len(<<x>>) = 1 /\ <<x>>[1] = x
  OBVIOUS
<1>2. Elems(<<x>>) = {x}
  BY <1>1 DEF Elems
<1> QED
  BY <1>1, <1>2 DEF Within

\* The steps of a plan of two parts.
Both(S, T) == S \union T

LEMMA ThenSteps ==
  ASSUME NEW p, NEW a \in Int, NEW b \in Int, NEW c \in Int, NEW d \in Int,
         NEW s, NEW t, Within(p, s, a, b), Within(p, t, c, d), a <= c, b <= c, b <= d, b < 9
  PROVE  Within(p, s \o t, a, d) /\ Elems(s \o t) = Both(Elems(s), Elems(t))
<1> DEFINE st == s \o t
<1>1. /\ s \in Seq(Steps) /\ t \in Seq(Steps) /\ st \in Seq(Steps)
      /\ Len(s) \in Nat /\ Len(t) \in Nat /\ Len(st) = Len(s) + Len(t)
      /\ \A i \in 1..Len(s) : st[i] = s[i]
      /\ \A i \in 1..Len(t) : st[Len(s) + i] = t[i]
  BY DEF Within
<1>2. \A i \in 1..Len(st) :
        \/ i \in 1..Len(s) /\ st[i] = s[i]
        \/ i - Len(s) \in 1..Len(t) /\ st[i] = t[i - Len(s)]
  BY <1>1
<1>3. Elems(st) = Elems(s) \union Elems(t)
  <2>1. Elems(st) \subseteq Elems(s) \union Elems(t)
    BY <1>2 DEF Elems
  <2>2. Elems(s) \subseteq Elems(st)
    BY <1>1 DEF Elems
  <2>3. Elems(t) \subseteq Elems(st)
    <3>1. \A i \in 1..Len(t) : Len(s) + i \in 1..Len(st)
      BY <1>1
    <3> QED
      BY <1>1, <3>1 DEF Elems
  <2> QED
    BY <2>1, <2>2, <2>3
<1>4. \A x \in Elems(st) :
        /\ a <= Rank(p, x.op) /\ Rank(p, x.op) <= d
        /\ x.op \in (IF p \in Nodes THEN NodeOps ELSE AdminOps)
  <2>1. \A x \in Elems(s) :
          /\ a <= Rank(p, x.op) /\ Rank(p, x.op) <= b
          /\ x.op \in (IF p \in Nodes THEN NodeOps ELSE AdminOps)
    BY DEF Within
  <2>2. \A x \in Elems(t) :
          /\ c <= Rank(p, x.op) /\ Rank(p, x.op) <= d
          /\ x.op \in (IF p \in Nodes THEN NodeOps ELSE AdminOps)
    BY DEF Within
  <2>3. \A x : Rank(p, x.op) \in Int
    BY RankType
  <2> QED
    BY <1>3, <2>1, <2>2, <2>3
<1>5. \A i, j \in 1..Len(st) :
        i < j => Rank(p, st[i].op) <= Rank(p, st[j].op) /\ Rank(p, st[i].op) < 9
  <2> SUFFICES ASSUME NEW i \in 1..Len(st), NEW j \in 1..Len(st), i < j
               PROVE  Rank(p, st[i].op) <= Rank(p, st[j].op) /\ Rank(p, st[i].op) < 9
    OBVIOUS
  <2>1. Rank(p, st[i].op) \in Int /\ Rank(p, st[j].op) \in Int
    BY RankType
  <2>2. CASE j \in 1..Len(s)
    <3>1. i \in 1..Len(s) /\ st[i] = s[i] /\ st[j] = s[j]
      BY <1>1, <2>2
    <3> QED
      BY <2>2, <3>1 DEF Within
  <2>3. CASE i \in 1..Len(s) /\ j \notin 1..Len(s)
    <3>1. st[i] = s[i] /\ s[i] \in Elems(s)
      BY <1>1, <2>3 DEF Elems
    <3>2. j - Len(s) \in 1..Len(t) /\ st[j] = t[j - Len(s)] /\ t[j - Len(s)] \in Elems(t)
      BY <1>2, <2>3 DEF Elems
    <3>3. Rank(p, st[i].op) <= b /\ c <= Rank(p, st[j].op)
      BY <3>1, <3>2 DEF Within
    <3> QED
      BY <2>1, <3>3
  <2>4. CASE i \notin 1..Len(s)
    <3>1. i - Len(s) \in 1..Len(t) /\ st[i] = t[i - Len(s)]
      BY <1>2, <2>4
    <3>2. j \notin 1..Len(s)
      BY <1>1, <2>4
    <3>3. j - Len(s) \in 1..Len(t) /\ st[j] = t[j - Len(s)]
      BY <1>2, <3>2
    <3>4. i - Len(s) < j - Len(s)
      BY <1>1
    <3> QED
      BY <3>1, <3>3, <3>4 DEF Within
  <2> QED
    BY <2>2, <2>3, <2>4
<1> QED
  BY <1>1, <1>3, <1>4, <1>5 DEF Within, Both

\* The steps after the first.
LEMMA RestSteps ==
  ASSUME NEW p, NEW q, Within(p, q, 1, 9), Len(q) \in Nat \ {0}
  PROVE  /\ Within(p, Tail(q), 1, 9)
         /\ Elems(q) = Both({Head(q)}, Elems(Tail(q)))
         /\ Head(q) \in Steps
         /\ Head(q).op \in (IF p \in Nodes THEN NodeOps ELSE AdminOps)
         /\ \A x \in Elems(Tail(q)) :
              Rank(p, Head(q).op) <= Rank(p, x.op) /\ Rank(p, Head(q).op) < 9
         /\ Len(q) = 1 <=> Len(Tail(q)) = 0
<1> DEFINE r == Tail(q)
<1>1. /\ q \in Seq(Steps) /\ Len(q) \in Nat /\ Len(q) > 0 /\ r \in Seq(Steps)
      /\ Len(r) = Len(q) - 1 /\ Head(q) = q[1]
      /\ \A i \in 1..Len(r) : r[i] = q[i + 1]
  BY DEF Within
<1>2. \A i \in 1..Len(r) : i + 1 \in 1..Len(q) /\ 1 < i + 1
  BY <1>1
<1>3. Elems(q) = {Head(q)} \union Elems(r)
  <2>1. ASSUME NEW i \in 1..Len(q), i # 1 PROVE i - 1 \in 1..Len(r) /\ q[i] = r[i - 1]
    BY <1>1, <2>1
  <2>2. Elems(q) \subseteq {Head(q)} \union Elems(r)
    <3> SUFFICES ASSUME NEW i \in 1..Len(q) PROVE q[i] \in {Head(q)} \union Elems(r)
      BY DEF Elems
    <3>1. CASE i = 1
      BY <1>1, <3>1
    <3>2. CASE i # 1
      BY <2>1, <3>2 DEF Elems
    <3> QED
      BY <3>1, <3>2
  <2>3. 1 \in 1..Len(q)
    BY <1>1
  <2>4. Head(q) \in Elems(q)
    BY <1>1, <2>3 DEF Elems
  <2>5. Elems(r) \subseteq Elems(q)
    BY <1>1, <1>2 DEF Elems
  <2> QED
    BY <2>2, <2>4, <2>5
<1>4. \A x \in Elems(r) : Rank(p, Head(q).op) <= Rank(p, x.op) /\ Rank(p, Head(q).op) < 9
  <2> SUFFICES ASSUME NEW i \in 1..Len(r)
               PROVE  Rank(p, q[1].op) <= Rank(p, r[i].op) /\ Rank(p, q[1].op) < 9
    BY <1>1 DEF Elems
  <2>1. 1 \in 1..Len(q)
    BY <1>1
  <2> QED
    BY <1>1, <1>2, <2>1 DEF Within
<1>5. Within(p, r, 1, 9)
  <2>1. \A i, j \in 1..Len(r) :
          i < j => Rank(p, r[i].op) <= Rank(p, r[j].op) /\ Rank(p, r[i].op) < 9
    <3> SUFFICES ASSUME NEW i \in 1..Len(r), NEW j \in 1..Len(r), i < j
                 PROVE  Rank(p, r[i].op) <= Rank(p, r[j].op) /\ Rank(p, r[i].op) < 9
      OBVIOUS
    <3>1. i + 1 \in 1..Len(q) /\ j + 1 \in 1..Len(q) /\ i + 1 < j + 1
      BY <1>1
    <3> QED
      BY <1>1, <3>1 DEF Within
  <2> QED
    BY <1>1, <1>3, <2>1 DEF Within
<1>6. Head(q) \in Elems(q)
  BY <1>3
<1>7. Len(q) = 1 <=> Len(r) = 0
  BY <1>1
<1> QED
  BY <1>1, <1>3, <1>4, <1>5, <1>6, <1>7 DEF Within, Both

----------------------------------------------------------------------------
(* What the plans hold                                                     *)

LEMMA AppRolesValues ==
  /\ AppRoles["sunbeam-machine"] = {"control", "compute", "storage"}
  /\ AppRoles["microovn"] = {"control", "compute", "network"}
  /\ AppRoles["k8s"] = {"control"} /\ AppRoles["role-distributor"] = {"control"}
  /\ AppRoles["microceph"] = {"storage"} /\ AppRoles["cinder-volume"] = {"storage"}
  /\ AppRoles["openstack-hypervisor"] = {"compute"}
BY DEF AppRoles, AllApps

LEMMA Wider ==
  ASSUME NEW p, NEW q, NEW a \in Int, NEW b \in Int, NEW c \in Int, NEW d \in Int,
         Within(p, q, a, b), c <= a, b <= d
  PROVE  Within(p, q, c, d)
BY RankType DEF Within

LEMMA PlainStep ==
  ASSUME NEW p, NEW op \in Ops, NEW r \in Int, r = Rank(p, op),
         op \notin {"deploy", "reapply", "check", "remove", "remove-hypervisor"},
         op \in {"store-kubeconfig", "cloud", "migrate"} => "k8s" \in Apps,
         op \in (IF p \in Nodes THEN NodeOps ELSE AdminOps)
  PROVE  Within(p, Plain(op), r, r) /\ Elems(Plain(op)) = {Step(op, "-")}
<1>1. Step(op, "-") \in Steps /\ Step(op, "-").op = op
  BY DEF Step, Steps
<1> QED
  BY <1>1, OneStep DEF Plain

LEMMA OnAppStep ==
  ASSUME NEW p, NEW app, NEW r \in Int,
         NEW op \in {"deploy", "reapply", "check", "remove", "remove-hypervisor"},
         r = Rank(p, op), op \in (IF p \in Nodes THEN NodeOps ELSE AdminOps),
         op \in {"reapply", "remove-hypervisor"} => app = "openstack-hypervisor"
  PROVE  /\ Within(p, OnApp(op, app), r, r)
         /\ Elems(OnApp(op, app)) = {Step(op, a) : a \in {app} \intersect Apps}
<1>1. CASE app \in Apps
  <2>1. Step(op, app) \in Steps /\ Step(op, app).op = op
    BY <1>1 DEF Step, Steps, Ops
  <2>2. OnApp(op, app) = <<Step(op, app)>>
    BY <1>1 DEF OnApp
  <2>3. Within(p, <<Step(op, app)>>, r, r) /\ Elems(<<Step(op, app)>>) = {Step(op, app)}
    BY <2>1, OneStep
  <2> QED
    BY <1>1, <2>2, <2>3
<1>2. CASE app \notin Apps
  <2>1. OnApp(op, app) = <<>>
    BY <1>2 DEF OnApp
  <2> QED
    BY <1>2, <2>1, NoSteps
<1> QED
  BY <1>1, <1>2

LEMMA IfSteps ==
  ASSUME NEW p, NEW q, NEW lo, NEW hi, NEW cond \in BOOLEAN, cond => Within(p, q, lo, hi)
  PROVE  /\ Within(p, If(cond, q), lo, hi)
         /\ cond => Elems(If(cond, q)) = Elems(q)
         /\ Elems(If(cond, q)) \subseteq Elems(q)
<1>1. CASE cond
  BY <1>1 DEF If
<1>2. CASE ~cond
  <2>1. If(cond, q) = <<>>
    BY <1>2 DEF If
  <2> QED
    BY <1>2, <2>1, NoSteps
<1> QED
  BY <1>1, <1>2

\* The steps that deploy an application.
DeployOf(S) == {Step("deploy", app) : app \in S \intersect Apps}

LEMMA NodeRanks ==
  ASSUME NEW n \in Nodes
  PROVE  /\ Rank(n, "row") = 1 /\ Rank(n, "machine") = 2 /\ Rank(n, "update") = 3
         /\ Rank(n, "deploy") = 4 /\ Rank(n, "reapply") = 4
         /\ Rank(n, "store-kubeconfig") = 4 /\ Rank(n, "cloud") = 4
         /\ Rank(n, "bootstrapped") = 9
BY DEF Rank, NodeRank

LEMMA AdminRanks ==
  ASSUME NEW a \in Admins
  PROVE  /\ a \notin Nodes
         /\ Rank(a, "check") = 1 /\ Rank(a, "migrate") = 2 /\ Rank(a, "cloud") = 3
         /\ Rank(a, "remove-hypervisor") = 4 /\ Rank(a, "remove") = 4
         /\ Rank(a, "remove-machine") = 5 /\ Rank(a, "remove-row") = 6
         /\ Rank(a, "deploy") = 7 /\ Rank(a, "reapply") = 8
BY AdminsAssumption DEF Rank, AdminRank

\* Deploying one application after the other.
LEMMA DeployStep ==
  ASSUME NEW n \in Nodes, NEW app
  PROVE  Within(n, Deploy(app), 4, 4) /\ Elems(Deploy(app)) = DeployOf({app})
<1>1. Rank(n, "deploy") = 4 /\ "deploy" \in (IF n \in Nodes THEN NodeOps ELSE AdminOps)
  BY NodeRanks DEF NodeOps
<1>2. /\ Within(n, OnApp("deploy", app), 4, 4)
      /\ Elems(OnApp("deploy", app)) = {Step("deploy", a) : a \in {app} \intersect Apps}
  BY <1>1, OnAppStep
<1> QED
  BY <1>2 DEF Deploy, DeployOf

LEMMA DeployTwo ==
  ASSUME NEW n \in Nodes, NEW app, NEW s, NEW S,
         Within(n, s, 4, 4) /\ Elems(s) = DeployOf(S)
  PROVE  /\ Within(n, s \o Deploy(app), 4, 4)
         /\ Elems(s \o Deploy(app)) = DeployOf(S \union {app})
<1>1. Within(n, Deploy(app), 4, 4) /\ Elems(Deploy(app)) = DeployOf({app})
  BY DeployStep
<1>2. /\ Within(n, s \o Deploy(app), 4, 4)
      /\ Elems(s \o Deploy(app)) = Both(Elems(s), Elems(Deploy(app)))
  BY <1>1, ThenSteps
<1> QED
  BY <1>1, <1>2 DEF DeployOf, Both

LEMMA ReapplyPlanHolds ==
  ASSUME NEW p \in Procs
  PROVE  /\ Within(p, ReapplyHypervisorTerraformPlanStep, 1, 9)
         /\ p \in Nodes => Within(p, ReapplyHypervisorTerraformPlanStep, 4, 4)
         /\ \A x \in Elems(ReapplyHypervisorTerraformPlanStep) : x.op = "reapply"
<1>1. Rank(p, "reapply") \in {4, 8} /\ (p \in Nodes => Rank(p, "reapply") = 4)
  BY DEF Rank, NodeRank, AdminRank
<1>2. "reapply" \in (IF p \in Nodes THEN NodeOps ELSE AdminOps)
  BY DEF NodeOps, AdminOps
<1> DEFINE r == Rank(p, "reapply")
           q == OnApp("reapply", "openstack-hypervisor")
<1>3. r \in Int /\ 1 <= r /\ r <= 9
  BY <1>1
<1>4. /\ Within(p, q, r, r)
      /\ Elems(q) = {Step("reapply", a) : a \in {"openstack-hypervisor"} \intersect Apps}
  BY <1>2, <1>3, OnAppStep
<1>5. Within(p, q, 1, 9)
  BY <1>3, <1>4, Wider
<1>6. \A x \in Elems(q) : x.op = "reapply"
  BY <1>4 DEF Step
<1> QED
  BY <1>1, <1>4, <1>5, <1>6 DEF ReapplyHypervisorTerraformPlanStep

\* The deployments for microovn, and those of join and bootstrap for storage.
LEMMA OVNSteps ==
  ASSUME NEW n \in Nodes
  PROVE  LET steps == DeployRoleDistributorApplicationStep \o DeployMicroOVNApplicationStep
         IN  Within(n, steps, 4, 4) /\ Elems(steps) = DeployOf({"role-distributor", "microovn"})
<1>1. /\ Within(n, Deploy("role-distributor"), 4, 4)
      /\ Elems(Deploy("role-distributor")) = DeployOf({"role-distributor"})
  BY DeployStep
<1>2. /\ Within(n, Deploy("role-distributor") \o Deploy("microovn"), 4, 4)
      /\ Elems(Deploy("role-distributor") \o Deploy("microovn"))
           = DeployOf({"role-distributor"} \union {"microovn"})
  BY <1>1, DeployTwo
<1>3. {"role-distributor"} \union {"microovn"} = {"role-distributor", "microovn"}
  OBVIOUS
<1> QED
  BY <1>2, <1>3 DEF DeployRoleDistributorApplicationStep, DeployMicroOVNApplicationStep

LEMMA StorageSteps ==
  ASSUME NEW n \in Nodes
  PROVE  LET steps == DeployMicrocephApplicationStep \o DeployCinderVolumeApplicationStep
         IN  Within(n, steps, 4, 4) /\ Elems(steps) = DeployOf({"microceph", "cinder-volume"})
<1>1. /\ Within(n, Deploy("microceph"), 4, 4)
      /\ Elems(Deploy("microceph")) = DeployOf({"microceph"})
  BY DeployStep
<1>2. /\ Within(n, Deploy("microceph") \o Deploy("cinder-volume"), 4, 4)
      /\ Elems(Deploy("microceph") \o Deploy("cinder-volume"))
           = DeployOf({"microceph"} \union {"cinder-volume"})
  BY <1>1, DeployTwo
<1>3. {"microceph"} \union {"cinder-volume"} = {"microceph", "cinder-volume"}
  OBVIOUS
<1> QED
  BY <1>2, <1>3 DEF DeployMicrocephApplicationStep, DeployCinderVolumeApplicationStep

LEMMA JoinPlanHolds ==
  ASSUME NEW n \in Nodes
  PROVE  /\ Within(n, JoinPlan(n), 1, 9)
         /\ \A op \in {"row", "machine", "update"} : Step(op, "-") \in Elems(JoinPlan(n))
         /\ \A app \in Apps : Runs(n, app) => Step("deploy", app) \in Elems(JoinPlan(n))
<1> DEFINE A == Plain("row") \o Plain("machine") \o Plain("update")
           B == Deploy("sunbeam-machine")
           C == If(Has(n, "control"), Deploy("k8s"))
           ovn == DeployRoleDistributorApplicationStep \o DeployMicroOVNApplicationStep
           D == If(is_microovn_necessary(n), ovn)
           osd == DeployMicrocephApplicationStep \o DeployCinderVolumeApplicationStep
           ceph == osd \o Deploy("openstack-hypervisor")
           E == If(Has(n, "storage"), ceph)
           nova == Deploy("openstack-hypervisor") \o ReapplyHypervisorTerraformPlanStep
           F == If(Has(n, "compute"), nova)
<1>1. /\ Within(n, A, 1, 3)
      /\ Elems(A) = {Step("row", "-"), Step("machine", "-"), Step("update", "-")}
  <2>1. /\ Rank(n, "row") = 1 /\ Rank(n, "machine") = 2 /\ Rank(n, "update") = 3
        /\ {"row", "machine", "update"} \subseteq NodeOps
    BY NodeRanks DEF NodeOps
  <2>2. Within(n, Plain("row"), 1, 1) /\ Elems(Plain("row")) = {Step("row", "-")}
    BY <2>1, PlainStep DEF Ops
  <2>3. Within(n, Plain("machine"), 2, 2) /\ Elems(Plain("machine")) = {Step("machine", "-")}
    BY <2>1, PlainStep DEF Ops
  <2>4. Within(n, Plain("update"), 3, 3) /\ Elems(Plain("update")) = {Step("update", "-")}
    BY <2>1, PlainStep DEF Ops
  <2>5. /\ Within(n, Plain("row") \o Plain("machine"), 1, 2)
        /\ Elems(Plain("row") \o Plain("machine"))
             = Both(Elems(Plain("row")), Elems(Plain("machine")))
    BY <2>2, <2>3, ThenSteps
  <2>6. /\ Within(n, A, 1, 3)
        /\ Elems(A) = Both(Elems(Plain("row") \o Plain("machine")), Elems(Plain("update")))
    BY <2>4, <2>5, ThenSteps
  <2> QED
    BY <2>2, <2>3, <2>4, <2>5, <2>6 DEF Both
<1>2. Within(n, B, 4, 4) /\ Elems(B) = DeployOf({"sunbeam-machine"})
  BY DeployStep
<1>3. /\ Within(n, C, 4, 4)
      /\ Has(n, "control") => Elems(C) = DeployOf({"k8s"})
  <2>1. Has(n, "control") \in BOOLEAN
    BY DEF Has
  <2>2. Within(n, Deploy("k8s"), 4, 4) /\ Elems(Deploy("k8s")) = DeployOf({"k8s"})
    BY DeployStep
  <2> QED
    BY <2>1, <2>2, IfSteps
<1>4. /\ Within(n, D, 4, 4)
      /\ is_microovn_necessary(n) => Elems(D) = DeployOf({"role-distributor", "microovn"})
  <2>1. is_microovn_necessary(n) \in BOOLEAN
    BY DEF is_microovn_necessary, Runs
  <2>2. Within(n, ovn, 4, 4) /\ Elems(ovn) = DeployOf({"role-distributor", "microovn"})
    BY OVNSteps
  <2> HIDE DEF ovn
  <2> QED
    BY <2>1, <2>2, IfSteps
<1>5. /\ Within(n, E, 4, 4)
      /\ Has(n, "storage") =>
           Elems(E) = DeployOf({"microceph", "cinder-volume"} \union {"openstack-hypervisor"})
  <2>1. Has(n, "storage") \in BOOLEAN
    BY DEF Has
  <2>2. Within(n, osd, 4, 4) /\ Elems(osd) = DeployOf({"microceph", "cinder-volume"})
    BY StorageSteps
  <2> HIDE DEF osd
  <2>3. /\ Within(n, ceph, 4, 4)
        /\ Elems(ceph) = DeployOf({"microceph", "cinder-volume"} \union {"openstack-hypervisor"})
    BY <2>2, DeployTwo
  <2> HIDE DEF ceph
  <2> QED
    BY <2>1, <2>3, IfSteps
<1>6. /\ Within(n, F, 4, 4)
      /\ Has(n, "compute") => DeployOf({"openstack-hypervisor"}) \subseteq Elems(F)
  <2>1. Has(n, "compute") \in BOOLEAN
    BY DEF Has
  <2>2. /\ Within(n, Deploy("openstack-hypervisor"), 4, 4)
        /\ Elems(Deploy("openstack-hypervisor")) = DeployOf({"openstack-hypervisor"})
    BY DeployStep
  <2>3. Within(n, ReapplyHypervisorTerraformPlanStep, 4, 4)
    BY ReapplyPlanHolds DEF Procs
  <2>4. /\ Within(n, nova, 4, 4)
        /\ Elems(nova) = Both(Elems(Deploy("openstack-hypervisor")),
                              Elems(ReapplyHypervisorTerraformPlanStep))
    BY <2>2, <2>3, ThenSteps
  <2>5. DeployOf({"openstack-hypervisor"}) \subseteq Elems(nova)
    BY <2>2, <2>4 DEF Both
  <2> HIDE DEF nova
  <2> QED
    BY <2>1, <2>4, <2>5, IfSteps
<1>7. JoinPlan(n) = A \o B \o C \o D \o E \o F
  BY DEF JoinPlan, DeploySunbeamMachineApplicationStep, DeployK8SApplicationStep,
         ReapplyHypervisorOptionalIntegrationsStep, DeployHypervisorApplicationStep
<1> HIDE DEF A, B, C, D, E, F
<1>8. Within(n, A \o B, 1, 4) /\ Elems(A \o B) = Both(Elems(A), Elems(B))
  BY <1>1, <1>2, ThenSteps
<1>9. Within(n, A \o B \o C, 1, 4) /\ Elems(A \o B \o C) = Both(Elems(A \o B), Elems(C))
  BY <1>3, <1>8, ThenSteps
<1>10. /\ Within(n, A \o B \o C \o D, 1, 4)
       /\ Elems(A \o B \o C \o D) = Both(Elems(A \o B \o C), Elems(D))
  BY <1>4, <1>9, ThenSteps
<1>11. /\ Within(n, A \o B \o C \o D \o E, 1, 4)
       /\ Elems(A \o B \o C \o D \o E) = Both(Elems(A \o B \o C \o D), Elems(E))
  BY <1>5, <1>10, ThenSteps
<1>12. /\ Within(n, A \o B \o C \o D \o E \o F, 1, 4)
       /\ Elems(A \o B \o C \o D \o E \o F) = Both(Elems(A \o B \o C \o D \o E), Elems(F))
  BY <1>6, <1>11, ThenSteps
<1>13. /\ Elems(A) \subseteq Elems(JoinPlan(n)) /\ Elems(B) \subseteq Elems(JoinPlan(n))
       /\ Elems(C) \subseteq Elems(JoinPlan(n)) /\ Elems(D) \subseteq Elems(JoinPlan(n))
       /\ Elems(E) \subseteq Elems(JoinPlan(n)) /\ Elems(F) \subseteq Elems(JoinPlan(n))
  BY <1>7, <1>8, <1>9, <1>10, <1>11, <1>12 DEF Both
<1>14. \A app \in Apps : Runs(n, app) => Step("deploy", app) \in Elems(JoinPlan(n))
  <2> SUFFICES ASSUME NEW app \in Apps, Runs(n, app)
               PROVE  Step("deploy", app) \in Elems(JoinPlan(n))
    OBVIOUS
  <2>1. /\ app = "sunbeam-machine" => Step("deploy", app) \in Elems(B)
        /\ Has(n, "control") /\ app = "k8s" => Step("deploy", app) \in Elems(C)
        /\ is_microovn_necessary(n) /\ app \in {"role-distributor", "microovn"} =>
             Step("deploy", app) \in Elems(D)
        /\ Has(n, "storage") /\ app \in {"microceph", "cinder-volume"} =>
             Step("deploy", app) \in Elems(E)
        /\ Has(n, "compute") /\ app = "openstack-hypervisor" => Step("deploy", app) \in Elems(F)
    BY <1>2, <1>3, <1>4, <1>5, <1>6 DEF DeployOf
  <2>2. app = "k8s" => Has(n, "control")
    BY AppRolesValues DEF Runs, Has
  <2>3. app \in {"role-distributor", "microovn"} => is_microovn_necessary(n)
    BY AppRolesValues DEF Runs, is_microovn_necessary
  <2>4. app \in {"microceph", "cinder-volume"} => Has(n, "storage")
    BY AppRolesValues DEF Runs, Has
  <2>5. app = "openstack-hypervisor" => Has(n, "compute")
    BY AppRolesValues DEF Runs, Has
  <2> QED
    BY <1>13, <2>1, <2>2, <2>3, <2>4, <2>5, AppsAssumption DEF AllApps
<1>15. Within(n, JoinPlan(n), 1, 9)
  BY <1>7, <1>12, Wider
<1> QED
  BY <1>1, <1>13, <1>14, <1>15

LEMMA BootstrapPlanHolds ==
  /\ Within(Seed, BootstrapPlan, 1, 9)
  /\ \A op \in {"row", "machine", "bootstrapped"} : Step(op, "-") \in Elems(BootstrapPlan)
  /\ \A app \in Apps : Runs(Seed, app) => Step("deploy", app) \in Elems(BootstrapPlan)
<1> DEFINE A == Plain("row") \o Plain("machine")
           B == Deploy("sunbeam-machine")
           store == If("k8s" \in Apps, Plain("store-kubeconfig"))
           C == Deploy("k8s") \o store
           D == If("k8s" \in Apps, Plain("cloud"))
           ovn == DeployRoleDistributorApplicationStep \o DeployMicroOVNApplicationStep
           E == If(is_microovn_necessary(Seed), ovn)
           F == Deploy("microceph")
           G == Deploy("cinder-volume")
           H == Deploy("openstack-hypervisor")
           I == Plain("bootstrapped")
<1>1. /\ Seed \in Nodes /\ Rank(Seed, "row") = 1 /\ Rank(Seed, "machine") = 2
      /\ Rank(Seed, "store-kubeconfig") = 4 /\ Rank(Seed, "cloud") = 4
      /\ Rank(Seed, "bootstrapped") = 9
      /\ {"row", "machine", "store-kubeconfig", "cloud", "bootstrapped"} \subseteq NodeOps
  BY SeedAssumption, NodeRanks DEF NodeOps
<1>2. /\ Within(Seed, A, 1, 2)
      /\ Elems(A) = {Step("row", "-"), Step("machine", "-")}
  <2>1. Within(Seed, Plain("row"), 1, 1) /\ Elems(Plain("row")) = {Step("row", "-")}
    BY <1>1, PlainStep DEF Ops
  <2>2. /\ Within(Seed, Plain("machine"), 2, 2)
        /\ Elems(Plain("machine")) = {Step("machine", "-")}
    BY <1>1, PlainStep DEF Ops
  <2>3. Within(Seed, A, 1, 2) /\ Elems(A) = Both(Elems(Plain("row")), Elems(Plain("machine")))
    BY <2>1, <2>2, ThenSteps
  <2> QED
    BY <2>1, <2>2, <2>3 DEF Both
<1>3. Within(Seed, B, 4, 4) /\ Elems(B) = DeployOf({"sunbeam-machine"})
  BY <1>1, DeployStep
<1>4. Within(Seed, C, 4, 4) /\ DeployOf({"k8s"}) \subseteq Elems(C)
  <2>1. Within(Seed, Deploy("k8s"), 4, 4) /\ Elems(Deploy("k8s")) = DeployOf({"k8s"})
    BY <1>1, DeployStep
  <2>2. "k8s" \in Apps => Within(Seed, Plain("store-kubeconfig"), 4, 4)
    BY <1>1, PlainStep DEF Ops
  <2>3. Within(Seed, store, 4, 4)
    BY <2>2, NoSteps DEF If
  <2> HIDE DEF store
  <2>4. Within(Seed, C, 4, 4) /\ Elems(C) = Both(Elems(Deploy("k8s")), Elems(store))
    BY <2>1, <2>3, ThenSteps
  <2> QED
    BY <2>1, <2>4 DEF Both
<1>5. Within(Seed, D, 4, 4)
  <2>1. "k8s" \in Apps => Within(Seed, Plain("cloud"), 4, 4)
    BY <1>1, PlainStep DEF Ops
  <2> QED
    BY <2>1, NoSteps DEF If
<1>6. /\ Within(Seed, E, 4, 4)
      /\ is_microovn_necessary(Seed) => Elems(E) = DeployOf({"role-distributor", "microovn"})
  <2>1. is_microovn_necessary(Seed) \in BOOLEAN
    BY DEF is_microovn_necessary, Runs
  <2>2. Within(Seed, ovn, 4, 4) /\ Elems(ovn) = DeployOf({"role-distributor", "microovn"})
    BY <1>1, OVNSteps
  <2> HIDE DEF ovn
  <2> QED
    BY <2>1, <2>2, IfSteps
<1>7. /\ Within(Seed, F, 4, 4) /\ Elems(F) = DeployOf({"microceph"})
      /\ Within(Seed, G, 4, 4) /\ Elems(G) = DeployOf({"cinder-volume"})
      /\ Within(Seed, H, 4, 4) /\ Elems(H) = DeployOf({"openstack-hypervisor"})
  BY <1>1, DeployStep
<1>8. Within(Seed, I, 9, 9) /\ Elems(I) = {Step("bootstrapped", "-")}
  BY <1>1, PlainStep DEF Ops
<1>9. BootstrapPlan = A \o B \o C \o D \o E \o F \o G \o H \o I
  BY DEF BootstrapPlan, DeploySunbeamMachineApplicationStep, get_k8s_plans,
         DeployK8SApplicationStep, DeployMicrocephApplicationStep,
         DeployCinderVolumeApplicationStep, DeployHypervisorApplicationStep
<1> HIDE DEF A, B, C, D, E, F, G, H, I
<1>10. Within(Seed, A \o B, 1, 4) /\ Elems(A \o B) = Both(Elems(A), Elems(B))
  BY <1>2, <1>3, ThenSteps
<1>11. Within(Seed, A \o B \o C, 1, 4) /\ Elems(A \o B \o C) = Both(Elems(A \o B), Elems(C))
  BY <1>4, <1>10, ThenSteps
<1>12. /\ Within(Seed, A \o B \o C \o D, 1, 4)
       /\ Elems(A \o B \o C \o D) = Both(Elems(A \o B \o C), Elems(D))
  BY <1>5, <1>11, ThenSteps
<1>13. /\ Within(Seed, A \o B \o C \o D \o E, 1, 4)
       /\ Elems(A \o B \o C \o D \o E) = Both(Elems(A \o B \o C \o D), Elems(E))
  BY <1>6, <1>12, ThenSteps
<1>14. /\ Within(Seed, A \o B \o C \o D \o E \o F, 1, 4)
       /\ Elems(A \o B \o C \o D \o E \o F) = Both(Elems(A \o B \o C \o D \o E), Elems(F))
  BY <1>7, <1>13, ThenSteps
<1>15. /\ Within(Seed, A \o B \o C \o D \o E \o F \o G, 1, 4)
       /\ Elems(A \o B \o C \o D \o E \o F \o G)
            = Both(Elems(A \o B \o C \o D \o E \o F), Elems(G))
  BY <1>7, <1>14, ThenSteps
<1>16. /\ Within(Seed, A \o B \o C \o D \o E \o F \o G \o H, 1, 4)
       /\ Elems(A \o B \o C \o D \o E \o F \o G \o H)
            = Both(Elems(A \o B \o C \o D \o E \o F \o G), Elems(H))
  BY <1>7, <1>15, ThenSteps
<1>17. /\ Within(Seed, A \o B \o C \o D \o E \o F \o G \o H \o I, 1, 9)
       /\ Elems(A \o B \o C \o D \o E \o F \o G \o H \o I)
            = Both(Elems(A \o B \o C \o D \o E \o F \o G \o H), Elems(I))
  BY <1>8, <1>16, ThenSteps
<1> DEFINE Q == Elems(BootstrapPlan)
<1>18. /\ Elems(A) \subseteq Q /\ Elems(B) \subseteq Q /\ Elems(C) \subseteq Q
       /\ Elems(E) \subseteq Q /\ Elems(F) \subseteq Q /\ Elems(G) \subseteq Q
       /\ Elems(H) \subseteq Q /\ Elems(I) \subseteq Q
  BY <1>9, <1>10, <1>11, <1>12, <1>13, <1>14, <1>15, <1>16, <1>17 DEF Both
<1>19. ASSUME NEW app \in Apps, Runs(Seed, app) PROVE Step("deploy", app) \in Q
  <2>1. /\ app = "sunbeam-machine" => Step("deploy", app) \in Elems(B)
        /\ app = "k8s" => Step("deploy", app) \in Elems(C)
        /\ is_microovn_necessary(Seed) /\ app \in {"role-distributor", "microovn"} =>
             Step("deploy", app) \in Elems(E)
        /\ app = "microceph" => Step("deploy", app) \in Elems(F)
        /\ app = "cinder-volume" => Step("deploy", app) \in Elems(G)
        /\ app = "openstack-hypervisor" => Step("deploy", app) \in Elems(H)
    BY <1>3, <1>4, <1>6, <1>7 DEF DeployOf
  <2>2. app \in {"role-distributor", "microovn"} => is_microovn_necessary(Seed)
    BY <1>19, AppRolesValues DEF Runs, is_microovn_necessary
  <2> QED
    BY <1>18, <2>1, <2>2, AppsAssumption DEF AllApps
<1> QED
  BY <1>2, <1>8, <1>9, <1>17, <1>18, <1>19

LEMMA RemovePlanHolds ==
  ASSUME NEW a \in Admins
  PROVE  /\ Within(a, RemovePlan, 1, 9)
         /\ {Step("remove-machine", "-"), Step("remove-row", "-")} \subseteq Elems(RemovePlan)
         /\ \A x \in Elems(RemovePlan) : x.op # "reapply"
         /\ "k8s" \in Apps =>
              {Step("migrate", "-"), Step("cloud", "-"), Step("remove", "k8s")}
                \subseteq Elems(RemovePlan)
<1> DEFINE A == OnApp("check", "cinder-volume")
           B == OnApp("check", "microceph")
           move == Plain("migrate") \o Plain("cloud")
           C == If("k8s" \in Apps, move)
           D == OnApp("remove-hypervisor", "openstack-hypervisor")
           E == OnApp("remove", "cinder-volume")
           F == OnApp("remove", "microceph")
           G == OnApp("remove", "microovn")
           H == If(RowIds("microovn") # {}, OnApp("remove", "role-distributor"))
           I == OnApp("remove", "k8s")
           J == OnApp("remove", "sunbeam-machine")
           K == Plain("remove-machine")
           L == Plain("remove-row")
           both == OnApp("deploy", "role-distributor") \o OnApp("deploy", "microovn")
           M == If(RowIds("microovn") # {}, both)
<1>1. /\ a \notin Nodes
      /\ Rank(a, "check") = 1 /\ Rank(a, "migrate") = 2 /\ Rank(a, "cloud") = 3
      /\ Rank(a, "remove-hypervisor") = 4 /\ Rank(a, "remove") = 4
      /\ Rank(a, "remove-machine") = 5 /\ Rank(a, "remove-row") = 6
      /\ Rank(a, "deploy") = 7
      /\ {"check", "migrate", "cloud", "remove-hypervisor", "remove", "remove-machine",
          "remove-row", "deploy"} \subseteq AdminOps
  BY AdminRanks DEF AdminOps
<1>2. \A app : Within(a, OnApp("check", app), 1, 1)
  BY <1>1, OnAppStep
<1>3. \A app : Within(a, OnApp("remove", app), 4, 4)
  BY <1>1, OnAppStep
<1>4. \A app : Within(a, OnApp("deploy", app), 7, 7)
  BY <1>1, OnAppStep
<1>5. Within(a, A, 1, 1) /\ Within(a, B, 1, 1)
  BY <1>2
<1>6. /\ Within(a, C, 2, 3)
      /\ "k8s" \in Apps => Elems(C) = {Step("migrate", "-"), Step("cloud", "-")}
  <2>1. "k8s" \in Apps => /\ Within(a, Plain("migrate"), 2, 2)
                          /\ Elems(Plain("migrate")) = {Step("migrate", "-")}
    BY <1>1, PlainStep DEF Ops
  <2>2. "k8s" \in Apps => /\ Within(a, Plain("cloud"), 3, 3)
                          /\ Elems(Plain("cloud")) = {Step("cloud", "-")}
    BY <1>1, PlainStep DEF Ops
  <2>3. "k8s" \in Apps => /\ Within(a, move, 2, 3)
                          /\ Elems(move) = Both(Elems(Plain("migrate")), Elems(Plain("cloud")))
    BY <2>1, <2>2, ThenSteps
  <2>4. "k8s" \in Apps => Elems(move) = {Step("migrate", "-"), Step("cloud", "-")}
    BY <2>1, <2>2, <2>3 DEF Both
  <2> HIDE DEF move
  <2> QED
    BY <2>3, <2>4, NoSteps DEF If
<1>7. Within(a, D, 4, 4)
  BY <1>1, OnAppStep
<1>8. Within(a, E, 4, 4) /\ Within(a, F, 4, 4) /\ Within(a, G, 4, 4) /\ Within(a, J, 4, 4)
  BY <1>3
<1>9. Within(a, H, 4, 4)
  BY <1>3, IfSteps
<1>10. Within(a, I, 4, 4) /\ ("k8s" \in Apps => Elems(I) = {Step("remove", "k8s")})
  <2>1. "remove" \in (IF a \in Nodes THEN NodeOps ELSE AdminOps) /\ Rank(a, "remove") = 4
    BY <1>1
  <2>2. /\ Within(a, I, 4, 4)
        /\ Elems(I) = {Step("remove", app) : app \in {"k8s"} \intersect Apps}
    BY <2>1, OnAppStep
  <2> QED
    BY <2>2
<1>11. Within(a, K, 5, 5) /\ Elems(K) = {Step("remove-machine", "-")}
  <2>1. "remove-machine" \in Ops /\ "remove-machine" \in (IF a \in Nodes THEN NodeOps ELSE AdminOps)
    BY <1>1 DEF Ops
  <2> QED
    BY <1>1, <2>1, PlainStep
<1>12. Within(a, L, 6, 6) /\ Elems(L) = {Step("remove-row", "-")}
  BY <1>1, PlainStep DEF Ops
<1>13. Within(a, M, 7, 7)
  <2>1. /\ Within(a, OnApp("deploy", "role-distributor"), 7, 7)
        /\ Within(a, OnApp("deploy", "microovn"), 7, 7)
    BY <1>4
  <2>2. Within(a, both, 7, 7)
    BY <2>1, ThenSteps
  <2> HIDE DEF both
  <2> QED
    BY <2>2, IfSteps
<1>14. RemovePlan = A \o B \o C \o D \o E \o F \o G \o H \o I \o J \o K \o L \o M
  BY DEF RemovePlan, Remove, Deploy, RemoveCinderVolumeUnitsStep, RemoveMicrocephUnitsStep,
         RemoveMicroOVNUnitsStep, RemoveRoleDistributorUnitsStep, RemoveK8SUnitsStep,
         RemoveSunbeamMachineUnitsStep, ReapplyRoleDistributorApplicationStep,
         ReapplyMicroOVNTerraformPlanStep
<1> HIDE DEF A, B, C, D, E, F, G, H, I, J, K, L, M
<1> DEFINE Q1 == A \o B
           Q2 == Q1 \o C
           Q3 == Q2 \o D
           Q4 == Q3 \o E
           Q5 == Q4 \o F
           Q6 == Q5 \o G
           Q7 == Q6 \o H
           Q8 == Q7 \o I
           Q9 == Q8 \o J
           Q10 == Q9 \o K
           Q11 == Q10 \o L
           Q12 == Q11 \o M
<1>15. RemovePlan = Q12
  BY <1>14
<1>16. Within(a, Q1, 1, 1)
  BY <1>5, ThenSteps
<1> HIDE DEF Q1
<1>17. Within(a, Q2, 1, 3) /\ Elems(Q2) = Both(Elems(Q1), Elems(C))
  BY <1>6, <1>16, ThenSteps
<1> HIDE DEF Q2
<1>18. Within(a, Q3, 1, 4) /\ Elems(Q3) = Both(Elems(Q2), Elems(D))
  BY <1>7, <1>17, ThenSteps
<1> HIDE DEF Q3
<1>19. Within(a, Q4, 1, 4) /\ Elems(Q4) = Both(Elems(Q3), Elems(E))
  BY <1>8, <1>18, ThenSteps
<1> HIDE DEF Q4
<1>20. Within(a, Q5, 1, 4) /\ Elems(Q5) = Both(Elems(Q4), Elems(F))
  BY <1>8, <1>19, ThenSteps
<1> HIDE DEF Q5
<1>21. Within(a, Q6, 1, 4) /\ Elems(Q6) = Both(Elems(Q5), Elems(G))
  BY <1>8, <1>20, ThenSteps
<1> HIDE DEF Q6
<1>22. Within(a, Q7, 1, 4) /\ Elems(Q7) = Both(Elems(Q6), Elems(H))
  BY <1>9, <1>21, ThenSteps
<1> HIDE DEF Q7
<1>23. Within(a, Q8, 1, 4) /\ Elems(Q8) = Both(Elems(Q7), Elems(I))
  BY <1>10, <1>22, ThenSteps
<1> HIDE DEF Q8
<1>24. Within(a, Q9, 1, 4) /\ Elems(Q9) = Both(Elems(Q8), Elems(J))
  BY <1>8, <1>23, ThenSteps
<1> HIDE DEF Q9
<1>25. Within(a, Q10, 1, 5) /\ Elems(Q10) = Both(Elems(Q9), Elems(K))
  BY <1>11, <1>24, ThenSteps
<1> HIDE DEF Q10
<1>26. Within(a, Q11, 1, 6) /\ Elems(Q11) = Both(Elems(Q10), Elems(L))
  BY <1>12, <1>25, ThenSteps
<1> HIDE DEF Q11
<1>27. Within(a, Q12, 1, 7) /\ Elems(Q12) = Both(Elems(Q11), Elems(M))
  BY <1>13, <1>26, ThenSteps
<1> HIDE DEF Q12
<1>28. Elems(C) \subseteq Elems(Q12) /\ Elems(I) \subseteq Elems(Q12)
       /\ Elems(K) \subseteq Elems(Q12) /\ Elems(L) \subseteq Elems(Q12)
  BY <1>17, <1>18, <1>19, <1>20, <1>21, <1>22, <1>23, <1>24, <1>25, <1>26, <1>27 DEF Both
<1>29. Within(a, RemovePlan, 1, 9)
  BY <1>15, <1>27, Wider
<1>30. \A x \in Elems(RemovePlan) : x.op # "reapply"
  <2>1. \A x \in Elems(RemovePlan) : Rank(a, x.op) <= 7
    BY <1>15, <1>27 DEF Within
  <2> QED
    BY <2>1, AdminRanks
<1> QED
  BY <1>6, <1>10, <1>11, <1>12, <1>15, <1>28, <1>29, <1>30

----------------------------------------------------------------------------
(* Type correctness                                                        *)

\* The parts of the type invariant, by the variables they are about.
TypeControl ==
  /\ todo \in [Procs -> Seq(Steps)] /\ phase \in [Procs -> {"step", "write", "apply", "applying"}]
  /\ \A p \in Procs : PlanOK(p)
  /\ Applies
TypeRows ==
  /\ rows \subseteq Nodes /\ machineid \in [Nodes -> MachineIds \union {NoMachine}]
  /\ bootstrapped \in BOOLEAN
TypeEndpoint == kubeconfig \in MachineIds \union {NoMachine} /\ cloud \in MachineIds \union {NoMachine}
TypeJuju ==
  /\ added \in 0..MaxMachines /\ host \in [MachineIds -> Nodes \union {None}]
  /\ reported \subseteq machines /\ units \in [Apps -> SUBSET machines]
TypePlans ==
  /\ stored \in [Apps -> SUBSET StoredIds] /\ lock \in [Apps -> Procs \union {None}]
  /\ ids \in [Procs -> SUBSET StoredIds]
TypeNodes ==
  /\ found \in [Nodes -> MachineIds \union {NoMachine}] /\ target \in [Admins -> Nodes]
  /\ joined \subseteq Nodes /\ removed \subseteq Nodes

LEMMA StepsAreTyped ==
  ASSUME NEW q \in Seq(Steps) PROVE q \in Seq([op : Ops, app : Apps \union {"-"}])
<1> DEFINE R == [op : Ops, app : Apps \union {"-"}]
<1>1. Steps \subseteq R
  BY DEF Steps
<1> HIDE DEF R
<1>2. q \in Seq(R)
  BY <1>1, SeqMonotonic
<1> QED
  BY <1>2 DEF R

LEMMA TypeParts ==
  TypeInv <=> /\ TypeControl /\ TypeRows /\ TypeEndpoint /\ TypeJuju /\ TypePlans /\ TypeNodes
<1>1. ASSUME TypeInv PROVE todo \in [Procs -> Seq(Steps)]
  BY <1>1 DEF TypeInv, TypeOK, PlanOK, Within
<1>2. ASSUME TypeControl PROVE todo \in [Procs -> Seq([op : Ops, app : Apps \union {"-"}])]
  BY <1>2, StepsAreTyped DEF TypeControl
<1> QED
  BY <1>1, <1>2 DEF TypeInv, TypeOK, TypeControl, TypeRows, TypeEndpoint, TypeJuju, TypePlans,
     TypeNodes

LEMMA TypePartsNext ==
  TypeInv' <=> /\ TypeControl' /\ TypeRows' /\ TypeEndpoint' /\ TypeJuju' /\ TypePlans'
               /\ TypeNodes'
BY TypeParts, PTL

\* What the first step of a process says, and the steps after it.
LEMMA FirstStep ==
  ASSUME TypeControl, NEW p \in Procs, todo[p] # <<>>
  PROVE  /\ Head(todo[p]) \in Steps
         /\ Within(p, Tail(todo[p]), 1, 9)
         /\ Elems(todo[p]) = {Head(todo[p])} \union Elems(Tail(todo[p]))
         /\ \A x \in Elems(Tail(todo[p])) :
              /\ Rank(p, Head(todo[p]).op) <= Rank(p, x.op)
              /\ Rank(p, Head(todo[p]).op) < 9
         /\ Len(todo[p]) = 1 <=> Tail(todo[p]) = <<>>
         /\ Head(todo[p]).op \in (IF p \in Nodes THEN NodeOps ELSE AdminOps)
<1>1. Within(p, todo[p], 1, 9)
  BY DEF TypeControl, PlanOK
<1> DEFINE q == todo[p]
<1> HIDE DEF q
<1>2. /\ Head(q) \in Steps
      /\ Within(p, Tail(q), 1, 9)
      /\ Elems(q) = Both({Head(q)}, Elems(Tail(q)))
      /\ \A x \in Elems(Tail(q)) :
           Rank(p, Head(q).op) <= Rank(p, x.op) /\ Rank(p, Head(q).op) < 9
      /\ Len(q) = 1 <=> Len(Tail(q)) = 0
      /\ Head(q).op \in (IF p \in Nodes THEN NodeOps ELSE AdminOps)
  <2>1. Within(p, q, 1, 9) /\ Len(q) \in Nat \ {0}
    BY <1>1, EmptySeq DEF q, Within
  <2>2. Head(q) \in Steps
    BY <2>1, RestSteps
  <2>3. Within(p, Tail(q), 1, 9)
    BY <2>1, RestSteps
  <2>4. Elems(q) = Both({Head(q)}, Elems(Tail(q)))
    BY <2>1, RestSteps
  <2>5. \A x \in Elems(Tail(q)) :
           Rank(p, Head(q).op) <= Rank(p, x.op) /\ Rank(p, Head(q).op) < 9
    BY <2>1, RestSteps
  <2>6. Len(q) = 1 <=> Len(Tail(q)) = 0
    BY <2>1, RestSteps
  <2>7. Head(q).op \in (IF p \in Nodes THEN NodeOps ELSE AdminOps)
    BY <2>1, RestSteps
  <2> QED
    BY <2>2, <2>3, <2>4, <2>5, <2>6, <2>7
<1>3. Len(Tail(q)) = 0 <=> Tail(q) = <<>>
  BY <1>1, <1>2, EmptySeq DEF Within
<1> QED
  BY <1>2, <1>3 DEF q, Both

\* A process in the middle of a plan, or at a step of an application.
LEMMA AppOfStep ==
  ASSUME TypeControl, NEW p \in Procs,
         \/ phase[p] # "step"
         \/ \E op \in {"deploy", "reapply", "check", "remove", "remove-hypervisor"} : At(p, op)
  PROVE  App(p) \in Apps /\ todo[p] # <<>>
<1>1. todo[p] # <<>> /\ Head(todo[p]).op \in
        {"deploy", "reapply", "check", "remove", "remove-hypervisor"}
  BY DEF TypeControl, Applies, At
<1>2. Head(todo[p]) \in Steps
  BY <1>1, FirstStep
<1> QED
  BY <1>1, <1>2 DEF Steps, App

LEMMA K8SOfStep ==
  ASSUME TypeControl, NEW p \in Procs, NEW op \in {"store-kubeconfig", "cloud", "migrate"},
         At(p, op)
  PROVE  "k8s" \in Apps
<1>1. Head(todo[p]) \in Steps
  BY FirstStep DEF At
<1> QED
  BY <1>1 DEF Steps, At

LEMMA ControlStep ==
  ASSUME TypeControl, NEW p \in Procs, NEW q, NEW to,
         todo' = [todo EXCEPT ![p] = q], phase' = [phase EXCEPT ![p] = to],
         Within(p, q, 1, 9),
         \/ to = "step"
         \/ /\ to \in {"write", "apply", "applying"}
            /\ q # <<>> /\ Head(q).op \in {"deploy", "reapply"}
  PROVE  TypeControl'
<1>1. q \in Seq(Steps)
  BY DEF Within
<1>2. /\ todo' \in [Procs -> Seq(Steps)]
      /\ phase' \in [Procs -> {"step", "write", "apply", "applying"}]
  BY <1>1 DEF TypeControl
<1>3. /\ todo'[p] = q /\ phase'[p] = to
      /\ \A r \in Procs : r # p => todo'[r] = todo[r] /\ phase'[r] = phase[r]
  BY DEF TypeControl
<1>4. \A r \in Procs : Within(r, todo'[r], 1, 9)
  BY <1>3 DEF TypeControl, PlanOK
<1>5. Applies'
  BY <1>3 DEF TypeControl, Applies
<1> QED
  BY <1>2, <1>4, <1>5 DEF TypeControl, PlanOK

LEMMA ProceedControl ==
  ASSUME TypeControl, NEW p \in Procs, todo[p] # <<>>, Proceed(p)
  PROVE  TypeControl'
BY FirstStep, ControlStep DEF Proceed

LEMMA FailControl ==
  ASSUME TypeControl, NEW p \in Procs, Fail(p)
  PROVE  TypeControl'
BY NoSteps, ControlStep DEF Fail

LEMMA GotoControl ==
  ASSUME TypeControl, NEW p \in Procs, NEW to \in {"step", "write", "apply", "applying"},
         Goto(p, to), todo[p] # <<>>, Head(todo[p]).op \in {"deploy", "reapply"}
  PROVE  TypeControl'
<1>1. todo' = [todo EXCEPT ![p] = todo[p]]
  BY DEF TypeControl, Goto
<1>2. Within(p, todo[p], 1, 9)
  BY DEF TypeControl, PlanOK
<1> QED
  BY <1>1, <1>2, ControlStep DEF Goto

LEMMA BeginControl ==
  ASSUME TypeControl, NEW p \in Procs, NEW n, NEW plan, Within(p, plan, 1, 9), Begin(p, n, plan)
  PROVE  TypeControl'
<1>1. phase[p] = "step"
  BY DEF TypeControl, Applies, Begin
<1>2. phase' = [phase EXCEPT ![p] = "step"]
  BY <1>1 DEF TypeControl, Begin
<1> QED
  BY <1>2, ControlStep DEF Begin

LEMMA ControlFrame ==
  ASSUME TypeControl, UNCHANGED <<todo, phase>> PROVE TypeControl'
BY DEF TypeControl, PlanOK, Applies

LEMMA JujuFrame ==
  ASSUME TypeJuju, UNCHANGED <<jujuVars, units>> PROVE TypeJuju'
BY DEF TypeJuju, jujuVars, machines

LEMMA DoneNodes ==
  ASSUME TypeNodes, NEW p \in Procs, Done(p)
  PROVE  joined' \subseteq Nodes /\ removed' \subseteq Nodes
BY DEF TypeNodes, Done, Procs

LEMMA TypeInit == Init => TypeInv
<1> SUFFICES ASSUME Init PROVE TypeInv
  OBVIOUS
<1>1. /\ TypeRows /\ TypeEndpoint /\ TypePlans /\ TypeNodes
  BY SeedAssumption DEF Init, TypeRows, TypeEndpoint, TypePlans, TypeNodes
<1>2. TypeJuju
  BY BoundAssumption DEF Init, TypeJuju, machines
<1>3. TypeControl
  BY NoSteps DEF Init, TypeControl, PlanOK, Applies
<1> QED
  BY <1>1, <1>2, <1>3, TypeParts

\* Each action keeps each part; the parts it does not touch are framed.
LEMMA TypeStep == TypeInv /\ [Next]_vars => TypeInv'
<1> SUFFICES ASSUME TypeInv, [Next]_vars
             PROVE  /\ TypeControl' /\ TypeRows' /\ TypeEndpoint' /\ TypeJuju' /\ TypePlans'
                    /\ TypeNodes'
  BY TypePartsNext
<1>0. TypeControl /\ TypeRows /\ TypeEndpoint /\ TypeJuju /\ TypePlans /\ TypeNodes
  BY TypeParts
<1> USE <1>0
<1>1. CASE UNCHANGED vars
  <2>1. UNCHANGED <<rowVars, endpointVars, jujuVars, planVars, procVars, history>>
    BY <1>1 DEF vars
  <2>2. TypeControl'
    BY <2>1, ControlFrame DEF procVars
  <2>3. TypeRows' /\ TypeEndpoint' /\ TypePlans' /\ TypeNodes'
    BY <2>1 DEF rowVars, endpointVars, planVars, procVars, history, TypeRows, TypeEndpoint,
       TypePlans, TypeNodes
  <2>4. TypeJuju'
    BY <2>1, JujuFrame DEF planVars
  <2> QED
    BY <2>2, <2>3, <2>4
<1>2. CASE StartBootstrap
  <2>1. Begin(Seed, Seed, BootstrapPlan) /\ UNCHANGED <<target, history>>
    BY <1>2 DEF StartBootstrap
  <2>2. TypeControl'
    BY <2>1, BeginControl, BootstrapPlanHolds, SeedAssumption DEF Procs
  <2>3. TypeRows' /\ TypeEndpoint' /\ TypePlans' /\ TypeNodes'
    BY <2>1 DEF Begin, rowVars, endpointVars, planVars, history, TypeRows, TypeEndpoint,
       TypePlans, TypeNodes
  <2>4. TypeJuju'
    BY <2>1, JujuFrame DEF Begin, planVars
  <2> QED
    BY <2>2, <2>3, <2>4
<1>3. ASSUME NEW n \in Nodes, StartJoin(n)
      PROVE  /\ TypeControl' /\ TypeRows' /\ TypeEndpoint' /\ TypeJuju' /\ TypePlans'
             /\ TypeNodes'
  <2>1. Begin(n, n, JoinPlan(n)) /\ removed' = removed \ {n} /\ UNCHANGED <<target, joined>>
    BY <1>3 DEF StartJoin
  <2>2. TypeControl'
    BY <2>1, BeginControl, JoinPlanHolds DEF Procs
  <2>3. TypeRows' /\ TypeEndpoint' /\ TypePlans' /\ TypeNodes'
    BY <2>1 DEF Begin, rowVars, endpointVars, planVars, TypeRows, TypeEndpoint,
       TypePlans, TypeNodes
  <2>4. TypeJuju'
    BY <2>1, JujuFrame DEF Begin, planVars
  <2> QED
    BY <2>2, <2>3, <2>4
<1>4. ASSUME NEW a \in Admins, NEW n \in Nodes, StartRemove(a, n)
      PROVE  /\ TypeControl' /\ TypeRows' /\ TypeEndpoint' /\ TypeJuju' /\ TypePlans'
             /\ TypeNodes'
  <2>1. /\ Begin(a, n, RemovePlan) /\ target' = [target EXCEPT ![a] = n]
        /\ joined' = joined \ {n} /\ UNCHANGED removed
    BY <1>4 DEF StartRemove
  <2>2. TypeControl'
    BY <2>1, BeginControl, RemovePlanHolds DEF Procs
  <2>3. TypeRows' /\ TypeEndpoint' /\ TypePlans' /\ TypeNodes'
    BY <2>1 DEF Begin, rowVars, endpointVars, planVars, TypeRows, TypeEndpoint,
       TypePlans, TypeNodes
  <2>4. TypeJuju'
    BY <2>1, JujuFrame DEF Begin, planVars
  <2> QED
    BY <2>2, <2>3, <2>4
<1>5. ASSUME NEW a \in Admins, StartReapply(a)
      PROVE  /\ TypeControl' /\ TypeRows' /\ TypeEndpoint' /\ TypeJuju' /\ TypePlans'
             /\ TypeNodes'
  <2>1. /\ Begin(a, None, ReapplyHypervisorTerraformPlanStep)
        /\ UNCHANGED <<target, history>>
    BY <1>5 DEF StartReapply
  <2>2. TypeControl'
    BY <2>1, BeginControl, ReapplyPlanHolds DEF Procs
  <2>3. TypeRows' /\ TypeEndpoint' /\ TypePlans' /\ TypeNodes'
    BY <2>1 DEF Begin, rowVars, endpointVars, planVars, history, TypeRows, TypeEndpoint,
       TypePlans, TypeNodes
  <2>4. TypeJuju'
    BY <2>1, JujuFrame DEF Begin, planVars
  <2> QED
    BY <2>2, <2>3, <2>4
<1>6. ASSUME NEW p \in Procs, Abort(p)
      PROVE  /\ TypeControl' /\ TypeRows' /\ TypeEndpoint' /\ TypeJuju' /\ TypePlans'
             /\ TypeNodes'
  <2>1. TypeControl'
    BY <1>6, FailControl DEF Abort, Stop
  <2>2. TypeRows' /\ TypeEndpoint' /\ TypeNodes'
    BY <1>6 DEF Abort, Stop, history, rowVars, endpointVars, TypeRows, TypeEndpoint, TypeNodes
  <2>3. TypePlans'
    BY <1>6 DEF Abort, TypePlans
  <2>4. TypeJuju'
    BY <1>6, JujuFrame DEF Abort
  <2> QED
    BY <2>1, <2>2, <2>3, <2>4
<1>7. ASSUME NEW app \in Apps, Unlock(app)
      PROVE  /\ TypeControl' /\ TypeRows' /\ TypeEndpoint' /\ TypeJuju' /\ TypePlans'
             /\ TypeNodes'
  <2>1. TypeControl'
    BY <1>7, ControlFrame DEF Unlock, procVars
  <2>2. TypeRows' /\ TypeEndpoint' /\ TypeNodes' /\ TypePlans'
    BY <1>7 DEF Unlock, history, procVars, rowVars, endpointVars, TypeRows, TypeEndpoint,
       TypeNodes, TypePlans
  <2>3. TypeJuju'
    BY <1>7, JujuFrame DEF Unlock
  <2> QED
    BY <2>1, <2>2, <2>3
<1>8. ASSUME NEW n \in Nodes, AddRow(n)
      PROVE  /\ TypeControl' /\ TypeRows' /\ TypeEndpoint' /\ TypeJuju' /\ TypePlans'
             /\ TypeNodes'
  <2>1. TypeControl'
    BY <1>8, ProceedControl DEF AddRow, Continue, At, Procs
  <2>2. TypeRows'
    BY <1>8, BoundAssumption DEF AddRow, TypeRows, MachineIds, NoMachine
  <2>3. TypeEndpoint' /\ TypePlans' /\ TypeNodes'
    BY <1>8, DoneNodes DEF AddRow, Continue, endpointVars, planVars, TypeEndpoint, TypePlans,
       TypeNodes, Procs
  <2>4. TypeJuju'
    BY <1>8, JujuFrame DEF AddRow, planVars
  <2> QED
    BY <2>1, <2>2, <2>3, <2>4
<1>9. ASSUME NEW n \in Nodes, AddJujuMachine(n)
      PROVE  /\ TypeControl' /\ TypeRows' /\ TypeEndpoint' /\ TypeJuju' /\ TypePlans'
             /\ TypeNodes'
  <2>0. todo[n] # <<>> /\ (Continue(n) \/ Stop(n)) /\ n \in Procs
    BY <1>9 DEF AddJujuMachine, At, Procs
  <2>1. TypeControl'
    BY <2>0, ProceedControl, FailControl DEF Continue, Stop
  <2>2. TypeRows' /\ TypeEndpoint' /\ TypePlans'
    BY <1>9 DEF AddJujuMachine, rowVars, endpointVars, planVars, TypeRows, TypeEndpoint,
       TypePlans
  <2>3. TypeNodes'
    <3>1. joined' \subseteq Nodes /\ removed' \subseteq Nodes
      BY <2>0, DoneNodes DEF Continue, Stop, history, TypeNodes
    <3>2. found' \in [Nodes -> MachineIds \union {NoMachine}] /\ UNCHANGED target
      BY <1>9, BoundAssumption DEF AddJujuMachine, TypeNodes, TypeJuju, machines, MachineIds
    <3> QED
      BY <3>1, <3>2 DEF TypeNodes
  <2>4. TypeJuju'
    <3>1. CASE UNCHANGED jujuVars
      BY <1>9, <3>1, JujuFrame DEF AddJujuMachine, planVars
    <3>2. CASE /\ added < MaxMachines /\ added' = added + 1
               /\ host' = [host EXCEPT ![added] = n]
               /\ reported' \subseteq reported \union {added}
      <4>1. added \in MachineIds /\ added' \in 0..MaxMachines
        BY <3>2, BoundAssumption DEF TypeJuju, MachineIds
      <4>2. n # None
        BY SeedAssumption
      <4>3. /\ host' \in [MachineIds -> Nodes \union {None}]
            /\ machines \subseteq machines' /\ added \in machines'
        BY <3>2, <4>1, <4>2 DEF TypeJuju, machines
      <4>4. units' = units
        BY <1>9 DEF AddJujuMachine, planVars
      <4> QED
        BY <3>2, <4>1, <4>3, <4>4 DEF TypeJuju
    <3> QED
      BY <1>9, <3>1, <3>2 DEF AddJujuMachine
  <2> QED
    BY <2>1, <2>2, <2>3, <2>4
<1>10. ASSUME NEW m \in MachineIds, Report(m)
       PROVE  /\ TypeControl' /\ TypeRows' /\ TypeEndpoint' /\ TypeJuju' /\ TypePlans'
              /\ TypeNodes'
  <2>1. TypeControl'
    BY <1>10, ControlFrame DEF Report, procVars
  <2>2. TypeRows' /\ TypeEndpoint' /\ TypeNodes' /\ TypePlans'
    BY <1>10 DEF Report, history, procVars, rowVars, endpointVars, planVars, TypeRows,
       TypeEndpoint, TypeNodes, TypePlans
  <2>3. TypeJuju'
    BY <1>10 DEF Report, TypeJuju, planVars, machines
  <2> QED
    BY <2>1, <2>2, <2>3
<1>11. ASSUME NEW n \in Nodes, UpdateNode(n)
       PROVE  /\ TypeControl' /\ TypeRows' /\ TypeEndpoint' /\ TypeJuju' /\ TypePlans'
              /\ TypeNodes'
  <2>0. todo[n] # <<>> /\ (Continue(n) \/ Stop(n)) /\ n \in Procs
    BY <1>11 DEF UpdateNode, At, Procs
  <2>1. TypeControl'
    BY <2>0, ProceedControl, FailControl DEF Continue, Stop
  <2>2. TypeRows' /\ TypeEndpoint' /\ TypePlans'
    BY <1>11 DEF UpdateNode, endpointVars, planVars, TypeRows, TypeEndpoint, TypePlans, TypeNodes
  <2>3. TypeNodes'
    <3>1. joined' \subseteq Nodes /\ removed' \subseteq Nodes
      BY <2>0, DoneNodes DEF Continue, Stop, history, TypeNodes
    <3> QED
      BY <1>11, <3>1 DEF UpdateNode, TypeNodes
  <2>4. TypeJuju'
    BY <1>11, JujuFrame DEF UpdateNode, planVars
  <2> QED
    BY <2>1, <2>2, <2>3, <2>4
<1>12. ASSUME NEW n \in Nodes, SetBootstrapped(n)
       PROVE  /\ TypeControl' /\ TypeRows' /\ TypeEndpoint' /\ TypeJuju' /\ TypePlans'
              /\ TypeNodes'
  <2>1. TypeControl'
    BY <1>12, ProceedControl DEF SetBootstrapped, Continue, At, Procs
  <2>2. TypeRows' /\ TypeEndpoint' /\ TypePlans' /\ TypeNodes'
    BY <1>12, DoneNodes DEF SetBootstrapped, Continue, endpointVars, planVars, TypeRows,
       TypeEndpoint, TypePlans, TypeNodes, Procs
  <2>3. TypeJuju'
    BY <1>12, JujuFrame DEF SetBootstrapped, planVars
  <2> QED
    BY <2>1, <2>2, <2>3
<1>13. ASSUME NEW p \in Procs, ReadIds(p)
       PROVE  /\ TypeControl' /\ TypeRows' /\ TypeEndpoint' /\ TypeJuju' /\ TypePlans'
              /\ TypeNodes'
  <2>1. CASE Stop(p) /\ UNCHANGED ids
    <3>1. TypeControl'
      BY <2>1, FailControl DEF Stop
    <3>2. TypeRows' /\ TypeEndpoint' /\ TypePlans' /\ TypeNodes'
      BY <1>13, <2>1 DEF ReadIds, Stop, history, rowVars, endpointVars, planVars, TypeRows,
         TypeEndpoint, TypePlans, TypeNodes
    <3>3. TypeJuju'
      BY <1>13, JujuFrame DEF ReadIds, planVars
    <3> QED
      BY <3>1, <3>2, <3>3
  <2>2. CASE /\ ids' = [ids EXCEPT ![p] = {AsStored(App(p), m) : m \in RowIds(App(p))}]
             /\ Goto(p, "write")
    <3>1. TypeControl'
      BY <1>13, <2>2, GotoControl DEF ReadIds, At
    <3>2. TypeRows' /\ TypeEndpoint' /\ TypeNodes'
      BY <1>13, <2>2 DEF ReadIds, Goto, history, rowVars, endpointVars, TypeRows,
         TypeEndpoint, TypeNodes
    <3>3. RowIds(App(p)) \subseteq MachineIds
      BY DEF RowIds, TypeRows
    <3>4. {AsStored(App(p), m) : m \in RowIds(App(p))} \subseteq StoredIds
      BY <3>3 DEF AsStored, StoredIds
    <3>5. TypePlans'
      BY <1>13, <2>2, <3>4 DEF ReadIds, planVars, TypePlans
    <3>6. TypeJuju'
      BY <1>13, JujuFrame DEF ReadIds, planVars
    <3> QED
      BY <3>1, <3>2, <3>5, <3>6
  <2> QED
    BY <1>13, <2>1, <2>2 DEF ReadIds
<1>14. ASSUME NEW p \in Procs, ReadStoredIds(p)
       PROVE  /\ TypeControl' /\ TypeRows' /\ TypeEndpoint' /\ TypeJuju' /\ TypePlans'
              /\ TypeNodes'
  <2>0. App(p) \in Apps /\ todo[p] # <<>>
    BY <1>14, AppOfStep DEF ReadStoredIds
  <2>1. TypeControl'
    <3>1. CASE Goto(p, "write")
      BY <1>14, <3>1, GotoControl DEF ReadStoredIds, At
    <3>2. CASE Continue(p)
      BY <2>0, <3>2, ProceedControl DEF Continue
    <3> QED
      BY <1>14, <3>1, <3>2 DEF ReadStoredIds
  <2>2. TypeRows' /\ TypeEndpoint'
    BY <1>14 DEF ReadStoredIds, rowVars, endpointVars, TypeRows, TypeEndpoint
  <2>3. TypePlans'
    BY <1>14, <2>0 DEF ReadStoredIds, planVars, TypePlans
  <2>4. TypeNodes'
    <3>1. joined' \subseteq Nodes /\ removed' \subseteq Nodes
      BY <1>14, DoneNodes DEF ReadStoredIds, Goto, Continue, history, TypeNodes
    <3> QED
      BY <1>14, <3>1 DEF ReadStoredIds, TypeNodes
  <2>5. TypeJuju'
    BY <1>14, JujuFrame DEF ReadStoredIds, planVars
  <2> QED
    BY <2>1, <2>2, <2>3, <2>4, <2>5
<1>15. ASSUME NEW p \in Procs, WriteVars(p)
       PROVE  /\ TypeControl' /\ TypeRows' /\ TypeEndpoint' /\ TypeJuju' /\ TypePlans'
              /\ TypeNodes'
  <2>0. App(p) \in Apps /\ todo[p] # <<>> /\ Head(todo[p]).op \in {"deploy", "reapply"}
    BY <1>15, AppOfStep DEF WriteVars, TypeControl, Applies
  <2>1. TypeControl'
    BY <1>15, <2>0, GotoControl DEF WriteVars
  <2>2. TypeRows' /\ TypeEndpoint' /\ TypePlans' /\ TypeNodes'
    BY <1>15, <2>0 DEF WriteVars, Goto, history, rowVars, endpointVars, TypeRows, TypeEndpoint,
       TypePlans, TypeNodes
  <2>3. TypeJuju'
    BY <1>15, JujuFrame DEF WriteVars
  <2> QED
    BY <2>1, <2>2, <2>3
<1>16. ASSUME NEW p \in Procs, ApplyStart(p)
       PROVE  /\ TypeControl' /\ TypeRows' /\ TypeEndpoint' /\ TypeJuju' /\ TypePlans'
              /\ TypeNodes'
  <2>0. App(p) \in Apps /\ todo[p] # <<>> /\ Head(todo[p]).op \in {"deploy", "reapply"}
    BY <1>16, AppOfStep DEF ApplyStart, TypeControl, Applies
  <2>1. TypeControl'
    <3>1. CASE Goto(p, "applying")
      BY <3>1, <2>0, GotoControl
    <3>2. CASE Goto(p, "step")
      BY <3>2, <2>0, GotoControl
    <3>3. CASE Stop(p)
      BY <3>3, FailControl DEF Stop
    <3> QED
      BY <1>16, <3>1, <3>2, <3>3 DEF ApplyStart
  <2>2. TypeRows' /\ TypeEndpoint' /\ TypeNodes'
    BY <1>16 DEF ApplyStart, Goto, Stop, history, rowVars, endpointVars, TypeRows, TypeEndpoint,
       TypeNodes
  <2>3. TypePlans'
    BY <1>16, <2>0 DEF ApplyStart, TypePlans
  <2>4. TypeJuju'
    BY <1>16, JujuFrame DEF ApplyStart
  <2> QED
    BY <2>1, <2>2, <2>3, <2>4
<1>17. ASSUME NEW p \in Procs, ApplyEnd(p)
       PROVE  /\ TypeControl' /\ TypeRows' /\ TypeEndpoint' /\ TypeJuju' /\ TypePlans'
              /\ TypeNodes'
  <2>0. App(p) \in Apps /\ todo[p] # <<>> /\ (Continue(p) \/ Stop(p))
    BY <1>17, AppOfStep DEF ApplyEnd
  <2>1. TypeControl'
    BY <2>0, ProceedControl, FailControl DEF Continue, Stop
  <2>2. TypeRows' /\ TypeEndpoint'
    BY <1>17 DEF ApplyEnd, rowVars, endpointVars, TypeRows, TypeEndpoint
  <2>3. TypePlans'
    BY <1>17, <2>0 DEF ApplyEnd, TypePlans
  <2>4. TypeNodes'
    <3>1. joined' \subseteq Nodes /\ removed' \subseteq Nodes
      BY <2>0, DoneNodes DEF Continue, Stop, history, TypeNodes
    <3> QED
      BY <1>17, <3>1 DEF ApplyEnd, TypeNodes
  <2>5. TypeJuju'
    <3>1. UNCHANGED jujuVars
      BY <1>17 DEF ApplyEnd
    <3>2. units' \in [Apps -> SUBSET machines]
      BY <1>17, <2>0 DEF ApplyEnd, TypeJuju
    <3> QED
      BY <3>1, <3>2 DEF TypeJuju, jujuVars, machines
  <2> QED
    BY <2>1, <2>2, <2>3, <2>4, <2>5
<1>18. ASSUME NEW n \in Nodes, StoreKubeconfig(n)
       PROVE  /\ TypeControl' /\ TypeRows' /\ TypeEndpoint' /\ TypeJuju' /\ TypePlans'
              /\ TypeNodes'
  <2>0. todo[n] # <<>> /\ (Continue(n) \/ Stop(n)) /\ n \in Procs /\ "k8s" \in Apps
    BY <1>18, K8SOfStep DEF StoreKubeconfig, At, Procs
  <2>1. TypeControl'
    BY <2>0, ProceedControl, FailControl DEF Continue, Stop
  <2>2. TypeRows' /\ TypePlans'
    BY <1>18 DEF StoreKubeconfig, rowVars, planVars, TypeRows, TypePlans
  <2>3. TypeEndpoint'
    BY <1>18, <2>0 DEF StoreKubeconfig, TypeEndpoint, TypeJuju, machines
  <2>4. TypeNodes'
    <3>1. joined' \subseteq Nodes /\ removed' \subseteq Nodes
      BY <2>0, DoneNodes DEF Continue, Stop, history, TypeNodes
    <3> QED
      BY <1>18, <3>1 DEF StoreKubeconfig, TypeNodes
  <2>5. TypeJuju'
    BY <1>18, JujuFrame DEF StoreKubeconfig, planVars
  <2> QED
    BY <2>1, <2>2, <2>3, <2>4, <2>5
<1>19. ASSUME NEW p \in Procs, UpdateK8SCloud(p)
       PROVE  /\ TypeControl' /\ TypeRows' /\ TypeEndpoint' /\ TypeJuju' /\ TypePlans'
              /\ TypeNodes'
  <2>1. TypeControl'
    BY <1>19, ProceedControl DEF UpdateK8SCloud, Continue, At
  <2>2. TypeRows' /\ TypeEndpoint' /\ TypePlans' /\ TypeNodes'
    BY <1>19, DoneNodes DEF UpdateK8SCloud, Continue, rowVars, planVars, TypeRows,
       TypeEndpoint, TypePlans, TypeNodes
  <2>3. TypeJuju'
    BY <1>19, JujuFrame DEF UpdateK8SCloud, planVars
  <2> QED
    BY <2>1, <2>2, <2>3
<1>20. ASSUME NEW a \in Admins, MigrateKubeconfig(a)
       PROVE  /\ TypeControl' /\ TypeRows' /\ TypeEndpoint' /\ TypeJuju' /\ TypePlans'
              /\ TypeNodes'
  <2>0. todo[a] # <<>> /\ (Continue(a) \/ Stop(a)) /\ a \in Procs /\ "k8s" \in Apps
    BY <1>20, K8SOfStep DEF MigrateKubeconfig, At, Procs
  <2>1. TypeControl'
    BY <2>0, ProceedControl, FailControl DEF Continue, Stop
  <2>2. TypeRows' /\ TypePlans'
    BY <1>20 DEF MigrateKubeconfig, rowVars, planVars, TypeRows, TypePlans
  <2>3. TypeEndpoint'
    BY <1>20, <2>0 DEF MigrateKubeconfig, TypeEndpoint, TypeJuju, machines
  <2>4. TypeNodes'
    <3>1. joined' \subseteq Nodes /\ removed' \subseteq Nodes
      BY <2>0, DoneNodes DEF Continue, Stop, history, TypeNodes
    <3> QED
      BY <1>20, <3>1 DEF MigrateKubeconfig, TypeNodes
  <2>5. TypeJuju'
    BY <1>20, JujuFrame DEF MigrateKubeconfig, planVars
  <2> QED
    BY <2>1, <2>2, <2>3, <2>4, <2>5
<1>21. ASSUME NEW a \in Admins, CheckDistribution(a)
       PROVE  /\ TypeControl' /\ TypeRows' /\ TypeEndpoint' /\ TypeJuju' /\ TypePlans'
              /\ TypeNodes'
  <2>0. todo[a] # <<>> /\ (Continue(a) \/ Stop(a)) /\ a \in Procs
    BY <1>21 DEF CheckDistribution, At, Procs
  <2>1. TypeControl'
    BY <2>0, ProceedControl, FailControl DEF Continue, Stop
  <2>2. TypeRows' /\ TypeEndpoint' /\ TypePlans'
    BY <1>21 DEF CheckDistribution, rowVars, endpointVars, planVars, TypeRows, TypeEndpoint,
       TypePlans
  <2>3. TypeNodes'
    <3>1. joined' \subseteq Nodes /\ removed' \subseteq Nodes
      BY <2>0, DoneNodes DEF Continue, Stop, history, TypeNodes
    <3> QED
      BY <1>21, <3>1 DEF CheckDistribution, TypeNodes
  <2>4. TypeJuju'
    BY <1>21, JujuFrame DEF CheckDistribution, planVars
  <2> QED
    BY <2>1, <2>2, <2>3, <2>4
<1>22. ASSUME NEW a \in Admins, RemoveUnits(a)
       PROVE  /\ TypeControl' /\ TypeRows' /\ TypeEndpoint' /\ TypeJuju' /\ TypePlans'
              /\ TypeNodes'
  <2>0. App(a) \in Apps /\ todo[a] # <<>> /\ Continue(a) /\ a \in Procs
    BY <1>22, AppOfStep DEF RemoveUnits, Procs
  <2>1. TypeControl'
    BY <2>0, ProceedControl DEF Continue
  <2>2. TypeRows' /\ TypeEndpoint' /\ TypePlans' /\ TypeNodes'
    BY <1>22, <2>0, DoneNodes DEF RemoveUnits, Continue, rowVars, endpointVars, TypeRows,
       TypeEndpoint, TypePlans, TypeNodes
  <2>3. TypeJuju'
    <3>1. UNCHANGED jujuVars
      BY <1>22 DEF RemoveUnits
    <3>2. units' \in [Apps -> SUBSET machines]
      BY <1>22, <2>0 DEF RemoveUnits, TypeJuju
    <3> QED
      BY <3>1, <3>2 DEF TypeJuju, jujuVars, machines
  <2> QED
    BY <2>1, <2>2, <2>3
<1>23. ASSUME NEW a \in Admins, RemoveHypervisorUnit(a)
       PROVE  /\ TypeControl' /\ TypeRows' /\ TypeEndpoint' /\ TypeJuju' /\ TypePlans'
              /\ TypeNodes'
  <2>0. App(a) \in Apps /\ todo[a] # <<>> /\ (Continue(a) \/ Stop(a)) /\ a \in Procs
    BY <1>23, AppOfStep DEF RemoveHypervisorUnit, Procs
  <2>1. TypeControl'
    BY <2>0, ProceedControl, FailControl DEF Continue, Stop
  <2>2. TypeRows' /\ TypeEndpoint'
    BY <1>23 DEF RemoveHypervisorUnit, rowVars, endpointVars, TypeRows, TypeEndpoint
  <2>3. TypePlans'
    BY <1>23, <2>0 DEF RemoveHypervisorUnit, TypePlans
  <2>4. TypeNodes'
    <3>1. joined' \subseteq Nodes /\ removed' \subseteq Nodes
      BY <2>0, DoneNodes DEF Continue, Stop, history, TypeNodes
    <3> QED
      BY <1>23, <3>1 DEF RemoveHypervisorUnit, TypeNodes
  <2>5. TypeJuju'
    <3>1. UNCHANGED jujuVars
      BY <1>23 DEF RemoveHypervisorUnit
    <3>2. units' \in [Apps -> SUBSET machines]
      BY <1>23, <2>0 DEF RemoveHypervisorUnit, TypeJuju
    <3> QED
      BY <3>1, <3>2 DEF TypeJuju, jujuVars, machines
  <2> QED
    BY <2>1, <2>2, <2>3, <2>4, <2>5
<1>24. ASSUME NEW a \in Admins, RemoveJujuMachine(a)
       PROVE  /\ TypeControl' /\ TypeRows' /\ TypeEndpoint' /\ TypeJuju' /\ TypePlans'
              /\ TypeNodes'
  <2>0. todo[a] # <<>> /\ (Continue(a) \/ Stop(a)) /\ a \in Procs
    BY <1>24 DEF RemoveJujuMachine, At, Procs
  <2>1. TypeControl'
    BY <2>0, ProceedControl, FailControl DEF Continue, Stop
  <2>2. TypeRows' /\ TypeEndpoint' /\ TypePlans'
    BY <1>24 DEF RemoveJujuMachine, rowVars, endpointVars, planVars, TypeRows, TypeEndpoint,
       TypePlans
  <2>3. TypeNodes'
    <3>1. joined' \subseteq Nodes /\ removed' \subseteq Nodes
      BY <2>0, DoneNodes DEF Continue, Stop, history, TypeNodes
    <3> QED
      BY <1>24, <3>1 DEF RemoveJujuMachine, TypeNodes
  <2>4. TypeJuju'
    <3> DEFINE m == machineid[target[a]]
    <3>1. CASE UNCHANGED jujuVars
      BY <1>24, <3>1, JujuFrame DEF RemoveJujuMachine, planVars
    <3>2. CASE /\ m \in machines /\ \A app \in Apps : m \notin units[app]
               /\ host' = [host EXCEPT ![m] = None] /\ reported' = reported \ {m}
               /\ UNCHANGED added
      <4> HIDE DEF m
      <4>1. host' \in [MachineIds -> Nodes \union {None}] /\ machines' = machines \ {m}
        BY <3>2 DEF TypeJuju, machines
      <4>2. units' = units
        BY <1>24 DEF RemoveJujuMachine, planVars
      <4> QED
        BY <3>2, <4>1, <4>2 DEF TypeJuju
    <3> QED
      BY <1>24, <3>1, <3>2 DEF RemoveJujuMachine
  <2> QED
    BY <2>1, <2>2, <2>3, <2>4
<1>25. ASSUME NEW a \in Admins, RemoveRow(a)
       PROVE  /\ TypeControl' /\ TypeRows' /\ TypeEndpoint' /\ TypeJuju' /\ TypePlans'
              /\ TypeNodes'
  <2>1. TypeControl'
    BY <1>25, ProceedControl DEF RemoveRow, Continue, At, Procs
  <2>2. TypeRows' /\ TypeEndpoint' /\ TypePlans' /\ TypeNodes'
    BY <1>25, DoneNodes DEF RemoveRow, Continue, endpointVars, planVars, TypeRows,
       TypeEndpoint, TypePlans, TypeNodes, Procs
  <2>3. TypeJuju'
    BY <1>25, JujuFrame DEF RemoveRow, planVars
  <2> QED
    BY <2>1, <2>2, <2>3
<1> QED
  BY <1>1, <1>2, <1>3, <1>4, <1>5, <1>6, <1>7, <1>8, <1>9, <1>10, <1>11, <1>12, <1>13, <1>14,
     <1>15, <1>16, <1>17, <1>18, <1>19, <1>20, <1>21, <1>22, <1>23, <1>24, <1>25
     DEF Next, NodeStep, AdminStep, PlanStep

\* The rows of clusterd, the machines and units of Juju, the stored ids and the
\* commands have their types, whichever commands overlap, fail or are killed.
THEOREM TypeCorrect == Spec => []TypeOK
<1>1. TypeInv => TypeOK
  BY DEF TypeInv
<1> QED
  BY <1>1, TypeInit, TypeStep, PTL DEF Spec

----------------------------------------------------------------------------
(* One command at a time: rows, machines and what a command has read       *)

LEMMA RankFour ==
  /\ \A n \in Nodes : /\ Rank(n, "row") = 1 /\ Rank(n, "machine") = 2 /\ Rank(n, "update") = 3
                      /\ Rank(n, "bootstrapped") = 9
  /\ \A a \in Admins : Rank(a, "migrate") = 2 /\ Rank(a, "cloud") = 3
                       /\ Rank(a, "remove") = 4 /\ Rank(a, "remove-row") = 6
BY NodeRanks, AdminRanks

\* A step that ends, with or without an error, of the only command there is.
LEMMA OwnStep ==
  ASSUME TypeControl, OneCommand, NEW p \in Procs, todo[p] # <<>>, Continue(p) \/ Stop(p)
  PROVE  /\ \A r \in Procs \ {p} : todo[r] = <<>> /\ todo'[r] = <<>>
         /\ \A r \in Procs : phase'[r] = "step"
         /\ Stop(p) => todo'[p] = <<>>
         /\ Continue(p) => todo'[p] = Tail(todo[p])
         /\ OneCommand' /\ IdsCurrent'
<1>1. \A r \in Procs \ {p} : todo[r] = <<>> /\ phase[r] = "step"
  BY DEF OneCommand, TypeControl, Applies
<1>2. /\ \A r \in Procs \ {p} : todo'[r] = todo[r] /\ phase'[r] = phase[r]
      /\ phase'[p] = "step"
      /\ Stop(p) => todo'[p] = <<>>
      /\ Continue(p) => todo'[p] = Tail(todo[p])
  BY DEF Continue, Proceed, Stop, Fail, TypeControl
<1>3. \A r \in Procs : phase'[r] = "step"
  BY <1>1, <1>2
<1>4. OneCommand'
  BY <1>1, <1>2 DEF OneCommand
<1>5. IdsCurrent'
  BY <1>3 DEF IdsCurrent
<1> QED
  BY <1>1, <1>2, <1>3, <1>4, <1>5

\* What is left of a command after a step that completes.
LEMMA LeftAfter ==
  ASSUME TypeControl, NEW p \in Procs, todo[p] # <<>>, todo'[p] = Tail(todo[p])
  PROVE  /\ \A op : Holds(todo[p], op) <=> Head(todo[p]).op = op \/ Holds(todo'[p], op)
         /\ \A x : x \in Elems(todo[p]) <=> x = Head(todo[p]) \/ x \in Elems(todo'[p])
         /\ \A x \in Elems(todo'[p]) :
              Rank(p, Head(todo[p]).op) <= Rank(p, x.op) /\ Rank(p, Head(todo[p]).op) < 9
         /\ Len(todo[p]) = 1 <=> todo'[p] = <<>>
<1>1. Elems(todo[p]) = {Head(todo[p])} \union Elems(Tail(todo[p]))
  BY FirstStep
<1>2. \A x : x \in Elems(todo[p]) <=> x = Head(todo[p]) \/ x \in Elems(todo'[p])
  BY <1>1
<1>3. \A op : Holds(todo[p], op) <=> Head(todo[p]).op = op \/ Holds(todo'[p], op)
  BY <1>2 DEF Holds
<1>4. \A x \in Elems(todo'[p]) :
        Rank(p, Head(todo[p]).op) <= Rank(p, x.op) /\ Rank(p, Head(todo[p]).op) < 9
  BY FirstStep
<1>5. Len(todo[p]) = 1 <=> todo'[p] = <<>>
  BY FirstStep
<1> QED
  BY <1>2, <1>3, <1>4, <1>5

LEMMA EmptyHolds ==
  /\ Elems(<<>>) = {}
  /\ \A op : ~Holds(<<>>, op)
<1>1. Elems(<<>>) = {}
  BY NoSteps
<1> QED
  BY <1>1 DEF Holds

LEMMA SomeStep ==
  ASSUME TypeControl, NEW p \in Procs, todo[p] # <<>>
  PROVE  Head(todo[p]) \in Elems(todo[p])
BY FirstStep

\* The seed is bootstrapped by the last step of its command and no other.
LEMMA SeedStep ==
  ASSUME TypeControl, OneCommand, SeedFirst, NEW p \in Procs, todo[p] # <<>>,
         Stop(p) \/ (Continue(p) /\ Head(todo[p]).op # "bootstrapped"),
         bootstrapped' = bootstrapped
  PROVE  /\ \A r \in Procs \ {Seed} : todo'[r] # <<>> => bootstrapped'
         /\ todo'[Seed] # <<>> => ~bootstrapped' /\ Left(Seed, "bootstrapped")'
         /\ ~bootstrapped => joined' = {} /\ p = Seed
         /\ todo'[Seed] # <<>> => p = Seed /\ ~Stop(p)
<1>1. /\ \A r \in Procs \ {p} : todo[r] = <<>> /\ todo'[r] = <<>>
      /\ Stop(p) => todo'[p] = <<>>
      /\ Continue(p) => todo'[p] = Tail(todo[p])
  BY OwnStep
<1>2. ~bootstrapped => p = Seed
  BY DEF SeedFirst
<1>3. p = Seed => Left(p, "bootstrapped") /\ ~bootstrapped
  BY DEF SeedFirst
<1>4. Continue(p) /\ Head(todo[p]).op # "bootstrapped" /\ p = Seed => Left(p, "bootstrapped")'
  BY <1>1, <1>3, LeftAfter DEF Left
<1>5. todo'[Seed] # <<>> => p = Seed /\ ~Stop(p)
  BY <1>1, SeedAssumption DEF Procs
<1>6. Continue(p) /\ Head(todo[p]).op # "bootstrapped" /\ p = Seed => Len(todo[p]) # 1
  BY <1>1, <1>4, LeftAfter, EmptyHolds DEF Left
<1>7. ~bootstrapped => joined' = {}
  <2>1. CASE Stop(p)
    BY <2>1 DEF Stop, history, SeedFirst
  <2>2. CASE Continue(p) /\ Head(todo[p]).op # "bootstrapped"
    BY <1>2, <1>6, <2>2, SeedAssumption DEF Continue, Done, SeedFirst
  <2> QED
    BY <2>1, <2>2
<1> QED
  BY <1>1, <1>2, <1>3, <1>4, <1>5, <1>7

\* The machine that was found stays that of the node.
LEMMA FoundStep ==
  ASSUME TypeControl, OneCommand, FoundFits, NEW p \in Procs, todo[p] # <<>>,
         Stop(p) \/ (Continue(p) /\ Head(todo[p]).op # "machine"),
         p \in Nodes => host' = host /\ (found'[p] = found[p] \/ found'[p] = NoMachine)
  PROVE  FoundFits'
<1>1. /\ \A r \in Procs \ {p} : todo[r] = <<>> /\ todo'[r] = <<>>
      /\ Stop(p) => todo'[p] = <<>>
      /\ Continue(p) => todo'[p] = Tail(todo[p])
  BY OwnStep
<1>2. Continue(p) /\ Head(todo[p]).op # "machine" =>
        (Left(p, "machine") => Left(p, "machine")')
  BY <1>1, LeftAfter DEF Left
<1> SUFFICES ASSUME NEW n \in Nodes, todo'[n] # <<>>, ~Left(n, "machine")',
                    found'[n] # NoMachine
             PROVE  host'[found'[n]] = n
  BY DEF FoundFits
<1>3. n = p /\ ~Stop(p)
  BY <1>1 DEF Procs
<1> QED
  BY <1>2, <1>3 DEF FoundFits

\* A step of the rows and machines it reads, or of none.
LEMMA QuietBase ==
  ASSUME BaseInv, TypeInv', NEW p \in Procs, todo[p] # <<>>,
         Stop(p) \/ (Continue(p) /\ Head(todo[p]).op \notin {"machine", "bootstrapped"}),
         UNCHANGED <<rowVars, added, host, found>>
  PROVE  BaseInv'
<1>0. TypeControl /\ OneCommand /\ SeedFirst /\ FoundFits
  BY TypeParts DEF BaseInv
<1>1. /\ OneCommand' /\ IdsCurrent'
      /\ Continue(p) => todo'[p] = Tail(todo[p])
  BY <1>0, OwnStep
<1>2. MachinesFit' /\ IdsFit'
  BY DEF BaseInv, MachinesFit, IdsFit, machines, rowVars
<1>3. FoundFits'
  BY <1>0, FoundStep
<1>4. SeedFirst'
  <2>1. bootstrapped' = bootstrapped
    BY DEF rowVars
  <2>2. /\ \A r \in Procs \ {Seed} : todo'[r] # <<>> => bootstrapped'
        /\ todo'[Seed] # <<>> => ~bootstrapped' /\ Left(Seed, "bootstrapped")'
        /\ ~bootstrapped => joined' = {}
        /\ todo'[Seed] # <<>> => p = Seed /\ ~Stop(p)
    BY <1>0, <2>1, SeedStep
  <2>3. Continue(p) /\ Head(todo[p]).op # "machine" =>
          (Left(p, "machine") => Left(p, "machine")')
    BY <1>0, <1>1, LeftAfter DEF Left
  <2>4. todo'[Seed] # <<>> => Left(Seed, "machine")' \/ added' = 1
    BY <1>0, <2>2, <2>3 DEF SeedFirst
  <2> QED
    BY <1>0, <2>2, <2>4 DEF SeedFirst, rowVars
<1> QED
  BY <1>1, <1>2, <1>3, <1>4 DEF BaseInv

\* A step that goes on with its plan.
LEMMA GotoBase ==
  ASSUME BaseInv, TypeInv', NEW p \in Procs, todo[p] # <<>>, NEW to, Goto(p, to),
         UNCHANGED <<rowVars, added, host, found>>,
         to # "step" =>
           /\ Head(todo[p]).op = "deploy" =>
                ids'[p] = {AsStored(App(p), m) : m \in RowIds(App(p))}
           /\ Head(todo[p]).op = "reapply" => ids'[p] = stored'[App(p)]
           /\ to \in {"apply", "applying"} => stored'[App(p)] = ids'[p]
  PROVE  BaseInv'
<1>0. TypeControl /\ OneCommand /\ SeedFirst /\ FoundFits
  BY TypeParts DEF BaseInv
<1>1. \A r \in Procs \ {p} : todo[r] = <<>> /\ phase[r] = "step"
  BY <1>0 DEF OneCommand, TypeControl, Applies
<1>2. /\ todo' = todo /\ joined' = joined /\ phase'[p] = to
      /\ \A r \in Procs \ {p} : phase'[r] = "step"
  BY <1>0, <1>1 DEF Goto, history, TypeControl
<1>3. OneCommand' /\ MachinesFit' /\ IdsFit' /\ FoundFits'
  BY <1>0, <1>2 DEF BaseInv, OneCommand, MachinesFit, IdsFit, FoundFits, machines, rowVars, Left
<1>4. SeedFirst'
  BY <1>0, <1>2 DEF SeedFirst, Left, rowVars
<1>5. IdsCurrent'
  <2> SUFFICES ASSUME NEW r \in Procs, phase'[r] # "step"
               PROVE  /\ Head(todo'[r]).op = "deploy" =>
                           ids'[r] = {AsStored(App(r)', m) : m \in (RowIds(App(r)))'}
                      /\ Head(todo'[r]).op = "reapply" => ids'[r] = stored'[App(r)']
                      /\ phase'[r] \in {"apply", "applying"} => stored'[App(r)'] = ids'[r]
    BY DEF IdsCurrent
  <2>1. r = p /\ App(r)' = App(p) /\ (RowIds(App(r)))' = RowIds(App(p))
    BY <1>2 DEF App, RowIds, rowVars
  <2> QED
    BY <1>2, <2>1
<1> QED
  BY <1>3, <1>4, <1>5 DEF BaseInv

\* A command that starts, when there is no other.
LEMMA BeginBase ==
  ASSUME Exclusion = "all", BaseInv, TypeInv', NEW p \in Procs, NEW n, NEW plan,
         Begin(p, n, plan), joined' \subseteq joined,
         p \in Nodes => Holds(plan, "machine"),
         IF p = Seed THEN ~bootstrapped /\ Holds(plan, "bootstrapped") ELSE bootstrapped
  PROVE  BaseInv'
<1>0. TypeControl /\ OneCommand /\ SeedFirst /\ FoundFits
  BY TypeParts DEF BaseInv
<1>1. \A r \in Procs : todo[r] = <<>> /\ phase[r] = "step"
  BY <1>0 DEF Begin, Running, TypeControl, Applies
<1>2. /\ todo'[p] = plan /\ \A r \in Procs \ {p} : todo'[r] = <<>>
      /\ UNCHANGED <<rowVars, added, host, found, phase>>
  BY <1>0, <1>1 DEF Begin, TypeControl, jujuVars
<1>3. OneCommand' /\ MachinesFit' /\ IdsFit'
  BY <1>2 DEF BaseInv, OneCommand, MachinesFit, IdsFit, machines, rowVars
<1>4. FoundFits'
  BY <1>2 DEF FoundFits, Left, Procs
<1>5. IdsCurrent'
  BY <1>1, <1>2 DEF IdsCurrent
<1>6. SeedFirst'
  <2>1. Seed \in Nodes /\ Seed \in Procs
    BY SeedAssumption DEF Procs
  <2>2. \A r \in Procs \ {Seed} : todo'[r] # <<>> => bootstrapped'
    BY <1>2 DEF rowVars
  <2>3. todo'[Seed] # <<>> =>
          /\ ~bootstrapped' /\ Left(Seed, "bootstrapped")'
          /\ Left(Seed, "machine")'
    BY <1>2, <2>1 DEF rowVars, Left
  <2>4. ~bootstrapped' =>
          /\ joined' = {}
          /\ \A k \in Nodes : machineid'[k] # NoMachine => k = Seed /\ machineid'[k] = 0
          /\ Seed \in rows' => machineid'[Seed] = 0
          /\ added' = 0 \/ (added' = 1 /\ host'[0] = Seed)
    BY <1>0, <1>2 DEF SeedFirst, rowVars
  <2> QED
    BY <2>2, <2>3, <2>4 DEF SeedFirst
<1> QED
  BY <1>3, <1>4, <1>5, <1>6 DEF BaseInv

LEMMA FrameBase ==
  ASSUME BaseInv, TypeInv', UNCHANGED <<rowVars, added, host, procVars, joined, stored>>
  PROVE  BaseInv'
<1>1. OneCommand' /\ MachinesFit' /\ IdsFit'
  BY DEF BaseInv, rowVars, procVars, OneCommand, MachinesFit, IdsFit, machines
<1>2. SeedFirst' /\ FoundFits'
  BY DEF BaseInv, rowVars, procVars, SeedFirst, FoundFits, Left
<1>3. IdsCurrent'
  BY DEF BaseInv, rowVars, procVars, IdsCurrent, RowIds, App
<1> QED
  BY <1>1, <1>2, <1>3 DEF BaseInv

LEMMA BaseInit == Init => BaseInv
<1> SUFFICES ASSUME Init PROVE BaseInv
  OBVIOUS
<1>1. TypeInv
  BY TypeInit
<1>2. OneCommand /\ MachinesFit /\ IdsFit /\ FoundFits /\ IdsCurrent
  BY DEF Init, OneCommand, MachinesFit, IdsFit, FoundFits, IdsCurrent, machines
<1>3. SeedFirst
  BY SeedAssumption DEF Init, SeedFirst, Procs
<1> QED
  BY <1>1, <1>2, <1>3 DEF BaseInv

\* The steps of AddJujuMachine that add a machine, or find one.
LEMMA AddMachineBase ==
  ASSUME BaseInv, TypeInv', NEW n \in Nodes, AddJujuMachine(n)
  PROVE  BaseInv'
<1>0. /\ TypeControl /\ TypeJuju /\ TypeRows /\ OneCommand /\ SeedFirst /\ FoundFits
      /\ n \in Procs /\ todo[n] # <<>> /\ Head(todo[n]).op = "machine"
      /\ Stop(n) \/ Continue(n)
      /\ UNCHANGED rowVars
  BY TypeParts DEF BaseInv, AddJujuMachine, At, Procs
<1>1. /\ OneCommand' /\ IdsCurrent'
      /\ \A r \in Procs \ {n} : todo'[r] = <<>>
      /\ Stop(n) => todo'[n] = <<>>
  BY <1>0, OwnStep
<1>2. /\ \A r \in Procs \ {Seed} : todo'[r] # <<>> => bootstrapped'
      /\ todo'[Seed] # <<>> => ~bootstrapped' /\ Left(Seed, "bootstrapped")'
      /\ ~bootstrapped => joined' = {} /\ n = Seed
      /\ todo'[Seed] # <<>> => n = Seed /\ ~Stop(n)
  BY <1>0, SeedStep DEF rowVars
<1>3. CASE /\ UNCHANGED jujuVars
           /\ Stop(n) \/ \E m \in machines : host[m] = n /\ found' = [found EXCEPT ![n] = m]
  <2>1. UNCHANGED <<host, added, rows, machineid, bootstrapped>>
    BY <1>0, <1>3 DEF jujuVars, rowVars
  <2>2. MachinesFit' /\ IdsFit'
    BY <2>1 DEF BaseInv, MachinesFit, IdsFit, machines
  <2>3. FoundFits'
    <3> SUFFICES ASSUME NEW k \in Nodes, todo'[k] # <<>>, found'[k] # NoMachine
                 PROVE  host'[found'[k]] = k
      BY DEF FoundFits
    <3>1. k = n /\ ~Stop(n)
      BY <1>1 DEF Procs
    <3> QED
      BY <1>3, <2>1, <3>1, TypeParts DEF BaseInv, TypeNodes
  <2>4. SeedFirst'
    <3>1. todo'[Seed] # <<>> => added' = 1
      <4> SUFFICES ASSUME todo'[Seed] # <<>> PROVE added = 1
        BY <2>1
      <4>1. ~bootstrapped
        BY <1>2, <2>1
      <4>2. PICK m \in machines : host[m] = n
        BY <1>2, <1>3
      <4>3. m < added
        BY <1>0, <4>2, SeedAssumption DEF BaseInv, MachinesFit, machines
      <4>4. m \in Nat
        BY BoundAssumption DEF machines, MachineIds
      <4> QED
        BY <1>0, <4>1, <4>3, <4>4 DEF SeedFirst
    <3> QED
      BY <1>0, <1>2, <2>1, <3>1 DEF SeedFirst
  <2> QED
    BY <1>1, <2>2, <2>3, <2>4 DEF BaseInv
<1>4. CASE /\ \A m \in machines : host[m] # n
           /\ added < MaxMachines /\ added' = added + 1
           /\ host' = [host EXCEPT ![added] = n]
           /\ found' \in {[found EXCEPT ![n] = added], [found EXCEPT ![n] = NoMachine]}
  <2>1. /\ added \in MachineIds /\ host[added] = None /\ n # None
        /\ host'[added] = n /\ \A m \in MachineIds \ {added} : host'[m] = host[m]
    <3>1. added \in MachineIds
      BY <1>0, <1>4, BoundAssumption DEF TypeJuju, MachineIds
    <3>2. host[added] = None
      BY <3>1 DEF BaseInv, MachinesFit, MachineIds
    <3> QED
      BY <1>0, <1>4, <3>1, <3>2, SeedAssumption DEF TypeJuju
  <2>2. added \in Nat
    BY <2>1, BoundAssumption DEF MachineIds
  <2>3. UNCHANGED <<rows, machineid, bootstrapped>>
    BY <1>0 DEF rowVars
  <2>4. MachinesFit'
    <3>1. machines' = machines \union {added} /\ added \notin machines
      BY <2>1 DEF machines
    <3>2. \A m \in MachineIds : host'[m] # None => m < added'
      BY <1>4, <2>1, <2>2 DEF BaseInv, MachinesFit, MachineIds
    <3>3. ASSUME NEW m \in machines', NEW k \in machines', host'[m] = host'[k] PROVE m = k
      BY <1>4, <2>1, <3>1, <3>3 DEF BaseInv, MachinesFit, machines
    <3> QED
      BY <3>2, <3>3 DEF MachinesFit
  <2>5. IdsFit'
    <3> SUFFICES ASSUME NEW k \in Nodes, machineid[k] # NoMachine
                 PROVE  /\ machineid[k] < added' \/ (k = Seed /\ machineid[k] = 0 /\ ~bootstrapped)
                        /\ host'[machineid[k]] \in {k, None}
                        /\ \A j \in Nodes \ {k} : machineid[j] # machineid[k]
      BY <2>3 DEF IdsFit
    <3>1. /\ machineid[k] < added \/ (k = Seed /\ machineid[k] = 0 /\ ~bootstrapped)
          /\ host[machineid[k]] \in {k, None}
          /\ \A j \in Nodes \ {k} : machineid[j] # machineid[k]
      BY DEF BaseInv, IdsFit
    <3>2. machineid[k] \in MachineIds /\ machineid[k] \in Int
      BY <1>0, BoundAssumption DEF TypeRows, MachineIds
    <3>3. machineid[k] < added' \/ (k = Seed /\ machineid[k] = 0 /\ ~bootstrapped)
      BY <1>4, <2>2, <3>1, <3>2
    <3>4. machineid[k] = added => k = n
      BY <1>2, <2>2, <3>1
    <3> QED
      BY <2>1, <3>1, <3>2, <3>3, <3>4
  <2>6. FoundFits'
    <3> SUFFICES ASSUME NEW k \in Nodes, todo'[k] # <<>>, found'[k] # NoMachine
                 PROVE  host'[found'[k]] = k
      BY DEF FoundFits
    <3>1. k = n
      BY <1>1 DEF Procs
    <3> QED
      BY <1>4, <2>1, <3>1, TypeParts DEF BaseInv, TypeNodes
  <2>7. SeedFirst'
    <3>1. ~bootstrapped => added = 0 /\ n = Seed
      <4> SUFFICES ASSUME ~bootstrapped PROVE added = 0 /\ n = Seed
        OBVIOUS
      <4>1. n = Seed /\ (added = 0 \/ (added = 1 /\ host[0] = Seed))
        BY <1>0, <1>2 DEF SeedFirst
      <4>2. host[0] = Seed => 0 \in machines
        BY BoundAssumption, SeedAssumption DEF machines, MachineIds
      <4> QED
        BY <1>4, <4>1, <4>2
    <3>2. ~bootstrapped => added' = 1 /\ host'[0] = Seed
      BY <1>4, <2>1, <3>1
    <3> QED
      BY <1>0, <1>2, <2>3, <3>2 DEF SeedFirst
  <2> QED
    BY <1>1, <2>4, <2>5, <2>6, <2>7 DEF BaseInv
<1> QED
  BY <1>3, <1>4 DEF AddJujuMachine

LEMMA UpdateNodeBase ==
  ASSUME BaseInv, TypeInv', NEW n \in Nodes, UpdateNode(n)
  PROVE  BaseInv'
<1>0. /\ TypeControl /\ TypeJuju /\ TypeRows /\ TypeNodes /\ OneCommand /\ SeedFirst /\ FoundFits
      /\ n \in Procs /\ todo[n] # <<>> /\ Head(todo[n]).op = "update"
      /\ Stop(n) \/ Continue(n)
      /\ UNCHANGED <<rows, bootstrapped, added, host>>
  BY TypeParts DEF BaseInv, UpdateNode, At, Procs, jujuVars
<1>1. OneCommand' /\ IdsCurrent' /\ (Continue(n) => todo'[n] = Tail(todo[n]))
  BY <1>0, OwnStep
<1>2. MachinesFit'
  BY <1>0 DEF BaseInv, MachinesFit, machines
<1>3. FoundFits'
  <2>1. found'[n] = NoMachine
    BY <1>0 DEF UpdateNode, TypeNodes
  <2> QED
    BY <1>0, <2>1, FoundStep
<1>4. ~Left(n, "machine")
  <2>1. Rank(n, "machine") = 2 /\ Rank(n, "update") = 3
    BY RankFour
  <2>2. /\ Elems(todo[n]) = {Head(todo[n])} \union Elems(Tail(todo[n]))
        /\ \A x \in Elems(Tail(todo[n])) : 3 <= Rank(n, x.op)
    BY <1>0, <2>1, FirstStep
  <2> QED
    BY <1>0, <2>1, <2>2 DEF Left, Holds
<1>5. found[n] # NoMachine =>
        /\ found[n] \in MachineIds /\ host[found[n]] = n /\ found[n] < added
  <2> SUFFICES ASSUME found[n] # NoMachine
               PROVE  found[n] \in MachineIds /\ host[found[n]] = n /\ found[n] < added
    OBVIOUS
  <2>1. found[n] \in MachineIds /\ host[found[n]] = n
    BY <1>0, <1>4 DEF FoundFits, TypeNodes
  <2>2. n # None
    BY SeedAssumption
  <2> QED
    BY <2>1, <2>2 DEF BaseInv, MachinesFit
<1>6. /\ \A k \in Nodes \ {n} : machineid'[k] = machineid[k]
      /\ machineid'[n] \in {machineid[n], found[n]}
      /\ machineid'[n] = machineid[n] \/ found[n] # NoMachine
  BY <1>0 DEF UpdateNode, TypeRows
<1>7. IdsFit'
  <2>1. CASE machineid'[n] = machineid[n]
    BY <1>0, <1>6, <2>1 DEF BaseInv, IdsFit
  <2>2. CASE machineid'[n] = found[n] /\ found[n] # NoMachine
    <3>1. \A k \in Nodes \ {n} : machineid[k] # found[n]
      BY <1>5, <2>2, SeedAssumption DEF BaseInv, IdsFit
    <3> QED
      BY <1>0, <1>5, <1>6, <2>2, <3>1 DEF BaseInv, IdsFit
  <2> QED
    BY <1>6, <2>1, <2>2
<1>8. SeedFirst'
  <2>1. /\ \A r \in Procs \ {Seed} : todo'[r] # <<>> => bootstrapped'
        /\ todo'[Seed] # <<>> => ~bootstrapped' /\ Left(Seed, "bootstrapped")'
        /\ ~bootstrapped => joined' = {} /\ n = Seed
        /\ todo'[Seed] # <<>> => n = Seed /\ ~Stop(n)
    BY <1>0, SeedStep
  <2>2. todo'[Seed] # <<>> => added' = 1
    BY <1>0, <1>4, <2>1 DEF SeedFirst
  <2>3. ~bootstrapped /\ found[Seed] # NoMachine => found[Seed] = 0
    <3> SUFFICES ASSUME ~bootstrapped, found[Seed] # NoMachine PROVE found[Seed] = 0
      OBVIOUS
    <3>1. found[Seed] \in MachineIds /\ found[Seed] < added /\ added \in {0, 1}
      BY <1>0, <1>5, <2>1 DEF SeedFirst
    <3> QED
      BY <3>1, BoundAssumption DEF MachineIds
  <2>4. ~bootstrapped =>
          /\ \A k \in Nodes : machineid'[k] # NoMachine => k = Seed /\ machineid'[k] = 0
          /\ Seed \in rows => machineid'[Seed] = 0
    BY <1>0, <1>6, <2>1, <2>3 DEF SeedFirst
  <2> QED
    BY <1>0, <2>1, <2>2, <2>4 DEF SeedFirst
<1> QED
  BY <1>1, <1>2, <1>3, <1>7, <1>8 DEF BaseInv

LEMMA AddRowBase ==
  ASSUME BaseInv, TypeInv', NEW n \in Nodes, AddRow(n)
  PROVE  BaseInv'
<1>0. /\ TypeControl /\ TypeJuju /\ TypeRows /\ OneCommand /\ SeedFirst /\ FoundFits
      /\ n \in Procs /\ todo[n] # <<>> /\ Head(todo[n]).op = "row" /\ Continue(n)
      /\ UNCHANGED <<bootstrapped, added, host, found>>
  BY TypeParts DEF BaseInv, AddRow, At, Procs, jujuVars
<1>1. OneCommand' /\ IdsCurrent' /\ todo'[n] = Tail(todo[n])
  BY <1>0, OwnStep
<1>2. MachinesFit'
  BY <1>0 DEF BaseInv, MachinesFit, machines
<1>3. FoundFits'
  BY <1>0, FoundStep
<1>4. /\ \A k \in Nodes \ {n} : machineid'[k] = machineid[k]
      /\ n \in rows => machineid'[n] = machineid[n]
      /\ n \notin rows /\ n = Seed => machineid'[n] = 0
      /\ n \notin rows /\ n # Seed => machineid'[n] = NoMachine
  BY <1>0 DEF AddRow, TypeRows
<1>5. /\ \A r \in Procs \ {Seed} : todo'[r] # <<>> => bootstrapped'
      /\ todo'[Seed] # <<>> => ~bootstrapped' /\ Left(Seed, "bootstrapped")'
      /\ ~bootstrapped => joined' = {} /\ n = Seed
      /\ todo'[Seed] # <<>> => n = Seed /\ ~Stop(n)
  BY <1>0, SeedStep
<1>6. n = Seed => ~bootstrapped
  BY <1>0 DEF SeedFirst
<1>7. IdsFit'
  <2>1. CASE n \in rows
    BY <1>0, <1>4, <2>1 DEF BaseInv, IdsFit
  <2>2. CASE n \notin rows /\ n # Seed
    BY <1>0, <1>4, <2>2 DEF BaseInv, IdsFit
  <2>3. CASE n \notin rows /\ n = Seed
    <3>1. /\ machineid'[Seed] = 0 /\ \A k \in Nodes \ {Seed} : machineid'[k] = NoMachine
      BY <1>0, <1>4, <1>6, <2>3 DEF SeedFirst
    <3>2. host[0] \in {Seed, None}
      <4>1. 0 \in MachineIds
        BY BoundAssumption DEF MachineIds
      <4>2. added = 0 => host[0] = None
        BY <4>1 DEF BaseInv, MachinesFit
      <4> QED
        BY <1>0, <1>6, <2>3, <4>2 DEF SeedFirst
    <3> QED
      BY <1>0, <1>6, <2>3, <3>1, <3>2 DEF IdsFit, NoMachine
  <2> QED
    BY <2>1, <2>2, <2>3
<1>8. SeedFirst'
  <2>1. todo'[Seed] # <<>> => Left(Seed, "machine")' \/ added' = 1
    BY <1>0, <1>1, <1>5, LeftAfter DEF SeedFirst, Left
  <2>2. rows' = rows \union {n}
    BY DEF AddRow
  <2>3. ~bootstrapped =>
          /\ \A k \in Nodes : machineid'[k] # NoMachine => k = Seed /\ machineid'[k] = 0
          /\ machineid'[Seed] = 0
    BY <1>0, <1>4, <1>5 DEF SeedFirst
  <2> QED
    BY <1>0, <1>5, <2>1, <2>2, <2>3 DEF SeedFirst
<1> QED
  BY <1>1, <1>2, <1>3, <1>7, <1>8 DEF BaseInv

LEMMA SetBootstrappedBase ==
  ASSUME BaseInv, TypeInv', NEW n \in Nodes, SetBootstrapped(n)
  PROVE  BaseInv'
<1>0. /\ TypeControl /\ TypeRows /\ OneCommand /\ SeedFirst /\ FoundFits
      /\ n \in Procs /\ todo[n] # <<>> /\ Head(todo[n]).op = "bootstrapped" /\ Continue(n)
      /\ UNCHANGED <<rows, machineid, added, host, found>> /\ bootstrapped' = TRUE
  BY TypeParts DEF BaseInv, SetBootstrapped, At, Procs, jujuVars
<1>1. /\ OneCommand' /\ IdsCurrent' /\ todo'[n] = Tail(todo[n])
      /\ \A r \in Procs \ {n} : todo'[r] = <<>>
  BY <1>0, OwnStep
<1>2. MachinesFit' /\ FoundFits'
  BY <1>0, FoundStep DEF BaseInv, MachinesFit, machines
<1>3. Elems(todo[n]) = {Head(todo[n])} /\ todo'[n] = <<>>
  <2>1. Rank(n, "bootstrapped") = 9
    BY RankFour
  <2>2. Elems(todo'[n]) = {}
    BY <1>0, <1>1, <2>1, LeftAfter
  <2>3. todo'[n] \in Seq(Steps)
    BY TypePartsNext, <1>0 DEF TypeControl
  <2>4. todo'[n] = <<>>
    <3> SUFFICES ASSUME todo'[n] # <<>> PROVE FALSE
      OBVIOUS
    <3>1. Len(todo'[n]) \in Nat \ {0}
      BY <2>3, EmptySeq
    <3>2. 1 \in 1..Len(todo'[n])
      BY <3>1
    <3>3. todo'[n][1] \in Elems(todo'[n])
      BY <3>2 DEF Elems
    <3> QED
      BY <2>2, <3>3
  <2> QED
    BY <1>0, <1>1, <2>2, <2>4, FirstStep
<1>4. machineid[Seed] # NoMachine => machineid[Seed] < added
  <2>1. CASE n = Seed
    <3>1. ~Left(Seed, "machine")
      BY <1>0, <1>3, <2>1 DEF Left, Holds
    <3> QED
      BY <1>0, <2>1, <3>1 DEF SeedFirst
  <2>2. CASE n # Seed
    BY <1>0, <2>2, SeedAssumption DEF BaseInv, IdsFit, SeedFirst
  <2> QED
    BY <2>1, <2>2
<1>5. IdsFit'
  BY <1>0, <1>4 DEF BaseInv, IdsFit
<1>6. SeedFirst'
  BY <1>0, <1>1, <1>3, SeedAssumption DEF SeedFirst, Procs
<1> QED
  BY <1>1, <1>2, <1>5, <1>6 DEF BaseInv

LEMMA RemoveJujuMachineBase ==
  ASSUME BaseInv, TypeInv', NEW a \in Admins, RemoveJujuMachine(a)
  PROVE  BaseInv'
<1>0. /\ TypeControl /\ TypeJuju /\ TypeRows /\ OneCommand /\ SeedFirst /\ FoundFits
      /\ a \in Procs /\ a \notin Nodes /\ todo[a] # <<>> /\ Head(todo[a]).op = "remove-machine"
      /\ Stop(a) \/ Continue(a)
      /\ UNCHANGED <<rowVars, found, added>>
  BY TypeParts, AdminsAssumption DEF BaseInv, RemoveJujuMachine, At, Procs, jujuVars
<1>1. CASE UNCHANGED host
  BY <1>0, <1>1, QuietBase
<1>2. CASE host' = [host EXCEPT ![machineid[target[a]]] = None]
  <2>1. \A m \in MachineIds : host'[m] \in {host[m], None}
    BY <1>0, <1>2 DEF TypeJuju
  <2>2. OneCommand' /\ IdsCurrent'
    BY <1>0, OwnStep
  <2>3. MachinesFit'
    BY <1>0, <2>1 DEF BaseInv, MachinesFit, machines
  <2>4. IdsFit'
    <3> SUFFICES ASSUME NEW n \in Nodes, machineid[n] # NoMachine
                 PROVE  host'[machineid[n]] \in {n, None}
      BY <1>0 DEF BaseInv, IdsFit, rowVars
    <3> QED
      BY <1>0, <2>1 DEF BaseInv, IdsFit, TypeRows
  <2>5. FoundFits'
    BY <1>0, FoundStep
  <2>6. SeedFirst'
    <3>1. bootstrapped' = bootstrapped
      BY <1>0 DEF rowVars
    <3>2. /\ \A r \in Procs \ {Seed} : todo'[r] # <<>> => bootstrapped'
          /\ todo'[Seed] # <<>> => a = Seed
          /\ ~bootstrapped => a = Seed
      BY <1>0, <3>1, SeedStep
    <3> QED
      BY <1>0, <3>1, <3>2, SeedAssumption DEF SeedFirst
  <2> QED
    BY <2>2, <2>3, <2>4, <2>5, <2>6 DEF BaseInv
<1> QED
  BY <1>1, <1>2 DEF RemoveJujuMachine, jujuVars

LEMMA RemoveRowBase ==
  ASSUME BaseInv, TypeInv', NEW a \in Admins, RemoveRow(a)
  PROVE  BaseInv'
<1>0. /\ TypeControl /\ TypeJuju /\ TypeRows /\ OneCommand /\ SeedFirst /\ FoundFits
      /\ a \in Procs /\ a \notin Nodes /\ todo[a] # <<>> /\ Head(todo[a]).op = "remove-row"
      /\ Continue(a) /\ UNCHANGED <<bootstrapped, found, added, host>>
  BY TypeParts, AdminsAssumption DEF BaseInv, RemoveRow, At, Procs, jujuVars
<1>1. OneCommand' /\ IdsCurrent'
  BY <1>0, OwnStep
<1>2. MachinesFit' /\ FoundFits'
  BY <1>0, FoundStep DEF BaseInv, MachinesFit, machines
<1>3. IdsFit'
  BY <1>0 DEF BaseInv, IdsFit, RemoveRow, TypeRows
<1>4. SeedFirst'
  <2>1. /\ \A r \in Procs \ {Seed} : todo'[r] # <<>> => bootstrapped'
        /\ todo'[Seed] # <<>> => a = Seed
        /\ ~bootstrapped => a = Seed
    BY <1>0, SeedStep
  <2> QED
    BY <1>0, <2>1, SeedAssumption DEF SeedFirst
<1> QED
  BY <1>1, <1>2, <1>3, <1>4 DEF BaseInv

\* BaseInv is inductive while the operators run one command at a time.
LEMMA BaseStep ==
  ASSUME Exclusion = "all", BaseInv, [Next]_vars
  PROVE  BaseInv'
<1>0. TypeInv' /\ TypeControl /\ SeedFirst
  BY TypeStep, TypeParts DEF BaseInv
<1>1. CASE UNCHANGED vars
  BY <1>0, <1>1, FrameBase DEF vars, jujuVars, planVars, history
<1>2. CASE StartBootstrap
  <2>1. /\ Begin(Seed, Seed, BootstrapPlan) /\ ~bootstrapped /\ joined' \subseteq joined
        /\ Seed \in Procs
    BY <1>2, SeedAssumption DEF StartBootstrap, history, Procs
  <2>2. Holds(BootstrapPlan, "machine") /\ Holds(BootstrapPlan, "bootstrapped")
    <3>1. /\ Step("machine", "-") \in Elems(BootstrapPlan)
          /\ Step("bootstrapped", "-") \in Elems(BootstrapPlan)
      BY BootstrapPlanHolds
    <3> QED
      BY <3>1 DEF Holds, Step
  <2> QED
    BY <1>0, <2>1, <2>2, BeginBase
<1>3. ASSUME NEW n \in Nodes, StartJoin(n) PROVE BaseInv'
  <2>1. /\ Begin(n, n, JoinPlan(n)) /\ bootstrapped /\ n # Seed /\ joined' \subseteq joined
        /\ n \in Procs
    BY <1>3 DEF StartJoin, Procs
  <2>2. Holds(JoinPlan(n), "machine")
    <3>1. Step("machine", "-") \in Elems(JoinPlan(n))
      BY JoinPlanHolds
    <3> QED
      BY <3>1 DEF Holds, Step
  <2> QED
    BY <1>0, <2>1, <2>2, BeginBase
<1>4. ASSUME NEW a \in Admins, NEW n \in Nodes, StartRemove(a, n) PROVE BaseInv'
  <2>1. /\ Begin(a, n, RemovePlan) /\ bootstrapped /\ joined' \subseteq joined
        /\ a \in Procs /\ a \notin Nodes /\ a # Seed
    BY <1>4, AdminsAssumption, SeedAssumption DEF StartRemove, Procs
  <2> QED
    BY <1>0, <2>1, BeginBase
<1>5. ASSUME NEW a \in Admins, StartReapply(a) PROVE BaseInv'
  <2>1. /\ Begin(a, None, ReapplyHypervisorTerraformPlanStep) /\ bootstrapped
        /\ joined' \subseteq joined /\ a \in Procs /\ a \notin Nodes /\ a # Seed
    BY <1>5, AdminsAssumption, SeedAssumption DEF StartReapply, Procs, history
  <2> QED
    BY <1>0, <2>1, BeginBase
<1>6. ASSUME NEW p \in Procs, Abort(p) PROVE BaseInv'
  BY <1>0, <1>6, QuietBase DEF Abort, jujuVars
<1>7. ASSUME NEW app \in Apps, Unlock(app) PROVE BaseInv'
  BY <1>0, <1>7, FrameBase DEF Unlock, jujuVars, history
<1>8. ASSUME NEW m \in MachineIds, Report(m) PROVE BaseInv'
  BY <1>0, <1>8, FrameBase DEF Report, planVars, history
<1>9. ASSUME NEW n \in Nodes, AddRow(n) \/ AddJujuMachine(n) \/ UpdateNode(n) \/ SetBootstrapped(n)
      PROVE  BaseInv'
  BY <1>0, <1>9, AddRowBase, AddMachineBase, UpdateNodeBase, SetBootstrappedBase
<1>10. ASSUME NEW p \in Procs, ReadIds(p) PROVE BaseInv'
  <2>1. /\ UNCHANGED <<rowVars, added, host, found>> /\ todo[p] # <<>>
        /\ Head(todo[p]).op = "deploy"
    BY <1>10 DEF ReadIds, At, jujuVars
  <2>2. CASE Stop(p)
    BY <1>0, <2>1, <2>2, QuietBase
  <2>3. CASE /\ ids' = [ids EXCEPT ![p] = {AsStored(App(p), m) : m \in RowIds(App(p))}]
             /\ Goto(p, "write")
    <3>1. ids'[p] = {AsStored(App(p), m) : m \in RowIds(App(p))}
      BY <2>3, TypeParts DEF BaseInv, TypePlans
    <3> QED
      BY <1>0, <2>1, <2>3, <3>1, GotoBase
  <2> QED
    BY <1>10, <2>2, <2>3 DEF ReadIds
<1>11. ASSUME NEW p \in Procs, ReadStoredIds(p) PROVE BaseInv'
  <2>1. /\ UNCHANGED <<rowVars, added, host, found, stored>> /\ todo[p] # <<>>
        /\ Head(todo[p]).op = "reapply"
    BY <1>11 DEF ReadStoredIds, At, jujuVars, planVars
  <2>2. CASE Continue(p)
    BY <1>0, <2>1, <2>2, QuietBase
  <2>3. CASE ids' = [ids EXCEPT ![p] = stored[App(p)]] /\ Goto(p, "write")
    <3>1. ids'[p] = stored'[App(p)]
      BY <2>1, <2>3, TypeParts DEF BaseInv, TypePlans
    <3> QED
      BY <1>0, <2>1, <2>3, <3>1, GotoBase
  <2> QED
    BY <1>11, <2>2, <2>3 DEF ReadStoredIds
<1>12. ASSUME NEW p \in Procs, WriteVars(p) PROVE BaseInv'
  <2>1. /\ UNCHANGED <<rowVars, added, host, found, ids>> /\ phase[p] = "write"
        /\ Goto(p, "apply")
    BY <1>12 DEF WriteVars, jujuVars
  <2>2. App(p) \in Apps /\ todo[p] # <<>>
    BY <1>0, <2>1, AppOfStep
  <2>3. stored'[App(p)] = ids[p]
    BY <1>12, <2>2, TypeParts DEF BaseInv, TypePlans, WriteVars
  <2>4. Head(todo[p]).op = "deploy" => ids[p] = {AsStored(App(p), m) : m \in RowIds(App(p))}
    BY <2>1 DEF BaseInv, IdsCurrent
  <2> QED
    BY <1>0, <2>1, <2>2, <2>3, <2>4, GotoBase
<1>13. ASSUME NEW p \in Procs, ApplyStart(p) PROVE BaseInv'
  <2>1. UNCHANGED <<rowVars, added, host, found, stored>> /\ phase[p] = "apply"
    BY <1>13 DEF ApplyStart, jujuVars
  <2>2. App(p) \in Apps /\ todo[p] # <<>>
    BY <1>0, <2>1, AppOfStep
  <2>3. CASE Goto(p, "applying") /\ UNCHANGED ids
    <3>1. /\ Head(todo[p]).op = "deploy" =>
               ids[p] = {AsStored(App(p), m) : m \in RowIds(App(p))}
          /\ stored[App(p)] = ids[p]
      BY <2>1 DEF BaseInv, IdsCurrent
    <3> QED
      BY <1>0, <2>1, <2>2, <2>3, <3>1, GotoBase
  <2>4. CASE Goto(p, "step")
    BY <1>0, <2>1, <2>2, <2>4, GotoBase
  <2>5. CASE Stop(p)
    BY <1>0, <2>1, <2>2, <2>5, QuietBase
  <2> QED
    BY <1>13, <2>3, <2>4, <2>5 DEF ApplyStart
<1>14. ASSUME NEW p \in Procs, ApplyEnd(p) PROVE BaseInv'
  <2>1. /\ UNCHANGED <<rowVars, added, host, found>> /\ phase[p] = "applying"
        /\ Continue(p) \/ Stop(p)
    BY <1>14 DEF ApplyEnd, jujuVars
  <2>2. todo[p] # <<>> /\ Head(todo[p]).op \in {"deploy", "reapply"}
    BY <1>0, <2>1 DEF TypeControl, Applies
  <2> QED
    BY <1>0, <2>1, <2>2, QuietBase
<1>15. ASSUME NEW n \in Nodes, StoreKubeconfig(n) PROVE BaseInv'
  BY <1>0, <1>15, QuietBase DEF StoreKubeconfig, At, jujuVars, Procs
<1>16. ASSUME NEW p \in Procs, UpdateK8SCloud(p) PROVE BaseInv'
  BY <1>0, <1>16, QuietBase DEF UpdateK8SCloud, At, jujuVars
<1>17. ASSUME NEW a \in Admins, CheckDistribution(a) PROVE BaseInv'
  BY <1>0, <1>17, QuietBase DEF CheckDistribution, At, jujuVars, Procs
<1>18. ASSUME NEW a \in Admins, MigrateKubeconfig(a) PROVE BaseInv'
  BY <1>0, <1>18, QuietBase DEF MigrateKubeconfig, At, jujuVars, Procs
<1>19. ASSUME NEW a \in Admins, RemoveUnits(a) PROVE BaseInv'
  BY <1>0, <1>19, QuietBase DEF RemoveUnits, At, jujuVars, Procs
<1>20. ASSUME NEW a \in Admins, RemoveHypervisorUnit(a) PROVE BaseInv'
  BY <1>0, <1>20, QuietBase DEF RemoveHypervisorUnit, At, jujuVars, Procs
<1>21. ASSUME NEW a \in Admins, RemoveJujuMachine(a) \/ RemoveRow(a) PROVE BaseInv'
  BY <1>0, <1>21, RemoveJujuMachineBase, RemoveRowBase
<1> QED
  BY <1>1, <1>2, <1>3, <1>4, <1>5, <1>6, <1>7, <1>8, <1>9, <1>10, <1>11, <1>12, <1>13, <1>14,
     <1>15, <1>16, <1>17, <1>18, <1>19, <1>20, <1>21
     DEF Next, NodeStep, AdminStep, PlanStep

----------------------------------------------------------------------------
(* The Kubernetes endpoint                                                 *)

LEMMA EndpointInit == Init => EndpointInv
<1> SUFFICES ASSUME Init PROVE EndpointInv
  OBVIOUS
<1>1. BaseInv
  BY BaseInit
<1>2. EndpointOnUnit
  BY DEF Init, EndpointOnUnit
<1>3. RemovesLast
  BY EmptyHolds DEF Init, RemovesLast, Removes, Procs
<1> QED
  BY <1>1, <1>2, <1>3 DEF EndpointInv

LEMMA OnUnitFrame ==
  ASSUME EndpointOnUnit, UNCHANGED <<rows, machineid, kubeconfig, cloud>>,
         "k8s" \in Apps => units'["k8s"] = units["k8s"]
  PROVE  EndpointOnUnit'
BY DEF EndpointOnUnit, RowIds

LEMMA RemovesFrame ==
  ASSUME RemovesLast, UNCHANGED <<rows, machineid, kubeconfig, cloud, units, todo, target>>
  PROVE  RemovesLast'
BY DEF RemovesLast, Removes, MovedFirst, Left

\* After a step of a node, of a session that deploys, or one that failed, nobody
\* is removing.
LEMMA NotRemoving ==
  ASSUME TypeControl, OneCommand, NEW p \in Procs, todo[p] # <<>>, Continue(p) \/ Stop(p),
         Stop(p) \/ p \in Nodes \/ Head(todo[p]).op \in {"deploy", "reapply"}
  PROVE  RemovesLast'
<1>1. /\ \A r \in Procs \ {p} : todo'[r] = <<>>
      /\ Stop(p) => todo'[p] = <<>>
      /\ Continue(p) => todo'[p] = Tail(todo[p])
  BY OwnStep
<1>2. \A a \in Admins : todo'[a] = <<>> => ~Removes(a)'
  BY EmptyHolds DEF Removes
<1>3. \A a \in Admins : a # p => ~Removes(a)'
  BY <1>1, <1>2 DEF Procs
<1>4. CASE Stop(p) \/ p \in Nodes
  BY <1>1, <1>2, <1>3, <1>4, AdminsAssumption DEF RemovesLast
<1>5. CASE Continue(p) /\ p \in Admins /\ Head(todo[p]).op \in {"deploy", "reapply"}
  <2>1. Rank(p, Head(todo[p]).op) \in {7, 8}
    BY <1>5, AdminRanks
  <2>2. \A x : Rank(p, x.op) \in Int
    BY RankType
  <2>3. \A x \in Elems(todo'[p]) : 7 <= Rank(p, x.op)
    BY <1>1, <1>5, <2>1, <2>2, LeftAfter
  <2>4. ~Removes(p)'
    BY <2>2, <2>3 DEF Removes
  <2> QED
    BY <1>3, <2>4 DEF RemovesLast
<1> QED
  BY <1>4, <1>5 DEF Procs

\* A session that is removing goes on.
LEMMA RemovingStep ==
  ASSUME TypeControl, OneCommand, RemovesLast, NEW a \in Admins, todo[a] # <<>>,
         Continue(a) \/ Stop(a),
         todo'[a] = Tail(todo[a]) /\ MovedFirst(a) => MovedFirst(a)'
  PROVE  RemovesLast'
<1>1. CASE Stop(a)
  BY <1>1, NotRemoving DEF Procs
<1>2. CASE Continue(a)
  <2>1. /\ \A r \in Procs \ {a} : todo'[r] = <<>>
        /\ todo'[a] = Tail(todo[a])
    BY <1>2, OwnStep DEF Procs
  <2>2. Removes(a)' => Removes(a)
    <3>1. \A x : x \in Elems(todo'[a]) => x \in Elems(todo[a])
      BY <2>1, LeftAfter DEF Procs
    <3> QED
      BY <3>1 DEF Removes
  <2>3. \A r \in Admins \ {a} : ~Removes(r)'
    BY <2>1, EmptyHolds DEF Removes, Procs
  <2> QED
    BY <2>1, <2>2, <2>3 DEF RemovesLast
<1> QED
  BY <1>1, <1>2

\* What is left of a removal after a step that neither moves nor removes.
LEMMA MovedFrame ==
  ASSUME TypeControl, NEW a \in Admins, todo[a] # <<>>, todo'[a] = Tail(todo[a]), MovedFirst(a),
         Head(todo[a]).op \notin {"migrate", "cloud"}, Head(todo[a]) # Step("remove", "k8s"),
         UNCHANGED <<rows, machineid, kubeconfig, cloud, target>>,
         units'["k8s"] = units["k8s"]
  PROVE  MovedFirst(a)'
<1>1. /\ Left(a, "migrate") <=> Left(a, "migrate")'
      /\ Left(a, "cloud") <=> Left(a, "cloud")'
      /\ Step("remove", "k8s") \in Elems(todo[a]) => Step("remove", "k8s") \in Elems(todo'[a])
  BY LeftAfter DEF Left, Procs
<1> QED
  BY <1>1 DEF MovedFirst

LEMMA RemoveK8SOnly ==
  ASSUME TypeControl, NEW a \in Admins, todo[a] # <<>>
  PROVE  /\ Head(todo[a]) = Step(Head(todo[a]).op, App(a))
         /\ Head(todo[a]).op = "remove" /\ App(a) # "k8s" =>
              Head(todo[a]) # Step("remove", "k8s")
         /\ Head(todo[a]).op # "remove" => Head(todo[a]) # Step("remove", "k8s")
         /\ Head(todo[a]).op \in {"reapply", "remove-hypervisor"} =>
              App(a) = "openstack-hypervisor"
<1>1. Head(todo[a]) \in Steps
  BY FirstStep DEF Procs
<1> QED
  BY <1>1 DEF Steps, Step, App

\* The unit of the endpoint is gone before the steps that could take it away.
LEMMA PassedSteps ==
  ASSUME TypeControl, NEW p \in Procs, NEW op, todo[p] # <<>>,
         Rank(p, op) < Rank(p, Head(todo[p]).op)
  PROVE  ~Left(p, op)
<1>1. /\ Elems(todo[p]) = {Head(todo[p])} \union Elems(Tail(todo[p]))
      /\ \A x \in Elems(Tail(todo[p])) : Rank(p, Head(todo[p]).op) <= Rank(p, x.op)
  BY FirstStep
<1>2. \A r, s : Rank(r, s) \in Int
  BY RankType
<1>3. \A x \in Elems(todo[p]) : Rank(p, Head(todo[p]).op) <= Rank(p, x.op)
  BY <1>1, <1>2
<1> QED
  BY <1>2, <1>3 DEF Left, Holds

\* A kubeconfig at the machine of a node is at a unit of that node.
LEMMA EndpointOfNode ==
  ASSUME TypeInv, IdsFit, EndpointOnUnit, "k8s" \in Apps, NEW n \in Nodes,
         kubeconfig = machineid[n], kubeconfig # NoMachine
  PROVE  HasK8SUnit(n)
<1>1. kubeconfig \in units["k8s"] /\ kubeconfig \in RowIds("k8s")
  BY DEF EndpointOnUnit
<1>2. PICK k \in rows : Runs(k, "k8s") /\ machineid[k] = kubeconfig
  BY <1>1 DEF RowIds
<1>3. k \in Nodes
  BY <1>2, TypeParts DEF TypeRows
<1>4. k = n
  BY <1>2, <1>3 DEF IdsFit
<1>5. Has(n, "control")
  BY <1>2, <1>4, AppRolesValues DEF Runs, Has
<1> QED
  BY <1>1, <1>2, <1>4, <1>5 DEF HasK8SUnit

LEMMA MigrateEndpoint ==
  ASSUME EndpointInv, "k8s" \in Apps, NEW a \in Admins, MigrateKubeconfig(a)
  PROVE  EndpointOnUnit' /\ RemovesLast'
<1>0. /\ TypeInv /\ TypeControl /\ TypeNodes /\ OneCommand /\ IdsFit /\ EndpointOnUnit /\ RemovesLast
      /\ todo[a] # <<>> /\ Head(todo[a]).op = "migrate" /\ (Continue(a) \/ Stop(a))
      /\ UNCHANGED <<rows, machineid, cloud, units, target>>
  BY TypeParts DEF EndpointInv, BaseInv, MigrateKubeconfig, At, rowVars, planVars
<1>1. EndpointOnUnit'
  BY <1>0 DEF MigrateKubeconfig, EndpointOnUnit, RowIds
<1>2. ASSUME todo'[a] = Tail(todo[a]), MovedFirst(a), Continue(a) PROVE MovedFirst(a)'
  <2>1. /\ Left(a, "cloud") <=> Left(a, "cloud")'
        /\ Left(a, "migrate")
        /\ Step("remove", "k8s") \in Elems(todo[a]) => Step("remove", "k8s") \in Elems(todo'[a])
    BY <1>0, <1>2, LeftAfter, RemoveK8SOnly DEF Left, Procs
  <2>2. target[a] \in Nodes
    BY <1>0 DEF TypeNodes
  <2>3. kubeconfig' = NoMachine \/ kubeconfig' # machineid[target[a]] \/ todo'[a] = <<>>
    <3>1. CASE ~(HasK8SUnit(target[a]) /\ kubeconfig = machineid[target[a]])
               /\ kubeconfig' = kubeconfig
      BY <1>0, <2>2, <3>1, EndpointOfNode
    <3>2. CASE kubeconfig' \in units["k8s"] \ {machineid[target[a]]}
      BY <3>2
    <3>3. CASE Stop(a)
      BY <1>0, <3>3, OwnStep DEF Procs
    <3> QED
      BY <3>1, <3>2, <3>3 DEF MigrateKubeconfig
  <2>4. todo'[a] # <<>>
    BY <1>2, <2>1, EmptyHolds DEF MovedFirst, Left
  <2> QED
    BY <1>0, <1>2, <2>1, <2>3, <2>4 DEF MovedFirst
<1>3. RemovesLast'
  <2>1. CASE Continue(a)
    BY <1>0, <1>2, <2>1, RemovingStep
  <2>2. CASE Stop(a)
    BY <1>0, <2>2, NotRemoving DEF Procs
  <2> QED
    BY <1>0, <2>1, <2>2
<1> QED
  BY <1>1, <1>3

LEMMA CloudEndpoint ==
  ASSUME EndpointInv, "k8s" \in Apps, NEW p \in Procs, UpdateK8SCloud(p)
  PROVE  EndpointOnUnit' /\ RemovesLast'
<1>0. /\ TypeControl /\ OneCommand /\ EndpointOnUnit /\ RemovesLast
      /\ todo[p] # <<>> /\ Head(todo[p]).op = "cloud" /\ Continue(p)
      /\ UNCHANGED <<rows, machineid, kubeconfig, units, target>> /\ cloud' = kubeconfig
  BY TypeParts DEF EndpointInv, BaseInv, UpdateK8SCloud, At, rowVars, planVars
<1>1. EndpointOnUnit'
  BY <1>0 DEF EndpointOnUnit, RowIds
<1>2. CASE p \in Nodes
  BY <1>0, <1>1, <1>2, NotRemoving
<1>3. CASE p \in Admins
  <2>1. ASSUME todo'[p] = Tail(todo[p]), MovedFirst(p) PROVE MovedFirst(p)'
    <3>1. ~Left(p, "migrate") /\ ~Left(p, "migrate")'
      <4>1. ~Left(p, "migrate")
        BY <1>0, <1>3, AdminRanks, PassedSteps
      <4> QED
        BY <1>0, <2>1, <4>1, LeftAfter DEF Left
    <3>2. Step("remove", "k8s") \in Elems(todo[p]) => Step("remove", "k8s") \in Elems(todo'[p])
      BY <1>0, <1>3, <2>1, LeftAfter, RemoveK8SOnly
    <3> QED
      BY <1>0, <2>1, <3>1, <3>2 DEF MovedFirst
  <2> QED
    BY <1>0, <1>1, <1>3, <2>1, RemovingStep
<1> QED
  BY <1>2, <1>3 DEF Procs

LEMMA RemoveUnitsEndpoint ==
  ASSUME EndpointInv, "k8s" \in Apps, NEW a \in Admins, RemoveUnits(a)
  PROVE  EndpointOnUnit' /\ RemovesLast'
<1>0. /\ TypeControl /\ TypeJuju /\ OneCommand /\ EndpointOnUnit /\ RemovesLast
      /\ todo[a] # <<>> /\ Head(todo[a]).op = "remove" /\ Continue(a)
      /\ UNCHANGED <<rows, machineid, kubeconfig, cloud, target>> /\ App(a) \in Apps
  BY TypeParts, AppOfStep DEF EndpointInv, BaseInv, RemoveUnits, At, rowVars, endpointVars, Procs
<1>1. todo'[a] = Tail(todo[a])
  BY <1>0, OwnStep DEF Procs
<1>2. CASE App(a) # "k8s"
  <2>1. units'["k8s"] = units["k8s"] /\ Head(todo[a]) # Step("remove", "k8s")
    BY <1>0, <1>2, RemoveK8SOnly DEF RemoveUnits, TypeJuju
  <2>2. EndpointOnUnit'
    BY <1>0, <2>1, OnUnitFrame
  <2>3. todo'[a] = Tail(todo[a]) /\ MovedFirst(a) => MovedFirst(a)'
    BY <1>0, <2>1, MovedFrame
  <2> QED
    BY <1>0, <2>2, <2>3, RemovingStep
<1>3. CASE App(a) = "k8s"
  <2>1. Removes(a)
    <3>1. Head(todo[a]) \in Elems(todo[a]) /\ Rank(a, Head(todo[a]).op) = 4
      BY <1>0, SomeStep, AdminRanks DEF Procs
    <3> QED
      BY <3>1 DEF Removes
  <2>2. ~Left(a, "migrate") /\ ~Left(a, "cloud")
    BY <1>0, AdminRanks, PassedSteps DEF Procs
  <2>3. ~Left(a, "migrate")' /\ ~Left(a, "cloud")'
    BY <1>0, <1>1, <2>2, LeftAfter DEF Left, Procs
  <2>4. /\ kubeconfig = NoMachine \/ kubeconfig # machineid[target[a]]
        /\ cloud = kubeconfig
    BY <1>0, <2>1, <2>2 DEF RemovesLast, MovedFirst
  <2>5. /\ units'["k8s"] = IF OnNode(target[a], "k8s")
                             THEN units["k8s"] \ {machineid[target[a]]} ELSE units["k8s"]
    BY <1>0, <1>3 DEF RemoveUnits, TypeJuju
  <2>6. EndpointOnUnit'
    BY <1>0, <2>4, <2>5 DEF EndpointOnUnit, RowIds
  <2>7. target[a] \notin rows \/ machineid[target[a]] \notin units'["k8s"]
    BY <2>5 DEF OnNode
  <2>8. MovedFirst(a)'
    BY <1>0, <2>3, <2>4, <2>7 DEF MovedFirst
  <2> QED
    BY <1>0, <2>6, <2>8, RemovingStep
<1> QED
  BY <1>2, <1>3

LEMMA RemoveRowEndpoint ==
  ASSUME EndpointInv, "k8s" \in Apps, NEW a \in Admins, RemoveRow(a)
  PROVE  EndpointOnUnit' /\ RemovesLast'
<1>0. /\ TypeControl /\ TypeRows /\ TypeNodes /\ OneCommand /\ EndpointOnUnit /\ RemovesLast
      /\ todo[a] # <<>> /\ Head(todo[a]).op = "remove-row" /\ Continue(a)
      /\ UNCHANGED <<kubeconfig, cloud, units, target>>
      /\ rows' = rows \ {target[a]} /\ machineid' = [machineid EXCEPT ![target[a]] = NoMachine]
  BY TypeParts DEF EndpointInv, BaseInv, RemoveRow, At, planVars, endpointVars, Procs
<1>1. todo'[a] = Tail(todo[a])
  BY <1>0, OwnStep DEF Procs
<1>2. Removes(a)
  <2>1. Head(todo[a]) \in Elems(todo[a]) /\ Rank(a, Head(todo[a]).op) = 6
    BY <1>0, SomeStep, AdminRanks DEF Procs
  <2> QED
    BY <2>1 DEF Removes
<1>3. /\ ~Left(a, "migrate") /\ ~Left(a, "cloud")
      /\ Step("remove", "k8s") \notin Elems(todo[a])
  <2>1. ~Left(a, "migrate") /\ ~Left(a, "cloud") /\ ~Left(a, "remove")
    BY <1>0, AdminRanks, PassedSteps DEF Procs
  <2> QED
    BY <2>1 DEF Left, Holds, Step
<1>4. target[a] \notin rows \/ machineid[target[a]] \notin units["k8s"]
  BY <1>0, <1>2, <1>3 DEF RemovesLast, MovedFirst
<1>5. EndpointOnUnit'
  <2>1. units["k8s"] \subseteq (RowIds("k8s"))'
    <3> SUFFICES ASSUME NEW m \in units["k8s"] PROVE m \in (RowIds("k8s"))'
      OBVIOUS
    <3>1. PICK k \in rows : Runs(k, "k8s") /\ machineid[k] = m /\ m # NoMachine
      BY <1>0 DEF EndpointOnUnit, RowIds
    <3>2. k # target[a]
      BY <1>4, <3>1
    <3>3. k \in rows' /\ machineid'[k] = m
      BY <1>0, <3>1, <3>2 DEF TypeRows
    <3> QED
      BY <3>1, <3>3 DEF RowIds
  <2> QED
    BY <1>0, <2>1 DEF EndpointOnUnit
<1>6. MovedFirst(a)'
  <2>1. ~Left(a, "migrate")' /\ ~Left(a, "cloud")'
    BY <1>0, <1>1, <1>3, LeftAfter DEF Left, Procs
  <2>2. target[a] \notin rows' /\ machineid'[target[a]] = NoMachine
    BY <1>0 DEF TypeRows, TypeNodes
  <2>3. cloud = kubeconfig
    BY <1>0, <1>2, <1>3 DEF RemovesLast, MovedFirst
  <2> QED
    BY <1>0, <2>1, <2>2, <2>3 DEF MovedFirst
<1> QED
  BY <1>0, <1>5, <1>6, RemovingStep

LEMMA AddRowEndpoint ==
  ASSUME EndpointInv, "k8s" \in Apps, NEW n \in Nodes, AddRow(n)
  PROVE  EndpointOnUnit' /\ RemovesLast'
<1>0. /\ TypeControl /\ TypeRows /\ OneCommand /\ EndpointOnUnit
      /\ n \in Procs /\ todo[n] # <<>> /\ Continue(n)
      /\ UNCHANGED <<kubeconfig, cloud, units>>
      /\ rows' = rows \union {n}
      /\ \A k \in rows : machineid'[k] = machineid[k]
  BY TypeParts DEF EndpointInv, BaseInv, AddRow, At, planVars, endpointVars, Procs, TypeRows
<1>1. RowIds("k8s") \subseteq (RowIds("k8s"))'
  BY <1>0 DEF RowIds
<1>2. EndpointOnUnit'
  BY <1>0, <1>1 DEF EndpointOnUnit
<1> QED
  BY <1>0, <1>2, NotRemoving

\* A node whose id changes has no unit on the machine of its old id.
LEMMA UpdateNodeEndpoint ==
  ASSUME EndpointInv, "k8s" \in Apps, NEW n \in Nodes, UpdateNode(n)
  PROVE  EndpointOnUnit' /\ RemovesLast'
<1>0. /\ TypeControl /\ TypeRows /\ TypeNodes /\ TypeJuju /\ OneCommand /\ EndpointOnUnit
      /\ FoundFits /\ IdsFit /\ MachinesFit
      /\ n \in Procs /\ todo[n] # <<>> /\ Head(todo[n]).op = "update" /\ (Continue(n) \/ Stop(n))
      /\ UNCHANGED <<rows, kubeconfig, cloud, units>>
  BY TypeParts DEF EndpointInv, BaseInv, UpdateNode, At, planVars, endpointVars, Procs
<1>1. /\ \A k \in Nodes \ {n} : machineid'[k] = machineid[k]
      /\ machineid'[n] = machineid[n] \/ (machineid'[n] = found[n] /\ found[n] # NoMachine)
  BY <1>0 DEF UpdateNode, TypeRows
<1>2. ~Left(n, "machine")
  BY <1>0, NodeRanks, PassedSteps
<1>3. units["k8s"] \subseteq (RowIds("k8s"))'
  <2> SUFFICES ASSUME NEW m \in units["k8s"] PROVE m \in (RowIds("k8s"))'
    OBVIOUS
  <2>1. PICK k \in rows : Runs(k, "k8s") /\ machineid[k] = m /\ m # NoMachine
    BY <1>0 DEF EndpointOnUnit, RowIds
  <2>2. k \in Nodes /\ m \in machines
    BY <1>0, <2>1 DEF TypeRows, TypeJuju
  <2>3. machineid'[k] = m
    <3>1. CASE k # n
      BY <1>1, <2>1, <2>2, <3>1
    <3>2. CASE k = n /\ machineid'[n] = found[n] /\ found[n] # NoMachine
      <4>1. host[found[n]] = n /\ found[n] \in machines
        BY <1>0, <1>2, <3>2, SeedAssumption DEF FoundFits, TypeNodes, machines
      <4>2. host[m] = n
        BY <1>0, <2>1, <2>2, <3>2 DEF IdsFit, machines
      <4> QED
        BY <1>0, <2>2, <3>2, <4>1, <4>2 DEF MachinesFit
    <3> QED
      BY <1>1, <2>1, <3>1, <3>2
  <2> QED
    BY <1>0, <2>1, <2>3 DEF RowIds
<1>4. EndpointOnUnit'
  BY <1>0, <1>3 DEF EndpointOnUnit
<1> QED
  BY <1>0, <1>4, NotRemoving

\* The Kubernetes plan is applied to the machines of the rows.
LEMMA ApplyEndEndpoint ==
  ASSUME EndpointInv, "k8s" \in Apps, NEW p \in Procs, ApplyEnd(p)
  PROVE  EndpointOnUnit' /\ RemovesLast'
<1>0. /\ TypeControl /\ TypeJuju /\ OneCommand /\ EndpointOnUnit
      /\ phase[p] = "applying" /\ (Continue(p) \/ Stop(p))
      /\ UNCHANGED <<rows, machineid, kubeconfig, cloud>>
  BY TypeParts DEF EndpointInv, BaseInv, ApplyEnd, rowVars, endpointVars
<1>1. App(p) \in Apps /\ todo[p] # <<>> /\ Head(todo[p]).op \in {"deploy", "reapply"}
  BY <1>0, AppOfStep DEF TypeControl, Applies
<1>2. CASE units'["k8s"] = units["k8s"]
  BY <1>0, <1>1, <1>2, OnUnitFrame, NotRemoving
<1>3. CASE units'["k8s"] # units["k8s"]
  <2>1. App(p) = "k8s" /\ units'["k8s"] = {i[2] : i \in ids[p]}
    BY <1>1, <1>3, <1>0 DEF ApplyEnd, TypeJuju
  <2>2. Head(todo[p]).op = "deploy"
    <3>1. Head(todo[p]) \in Steps
      BY <1>0, <1>1, FirstStep
    <3> QED
      BY <1>1, <2>1, <3>1 DEF Steps, App
  <2>3. ids[p] = {AsStored("k8s", m) : m \in RowIds("k8s")}
    BY <1>0, <2>1, <2>2 DEF EndpointInv, BaseInv, IdsCurrent
  <2>4. \A m : AsStored("k8s", m)[2] = m
    BY DEF AsStored, AsInt, AsStr
  <2>5. units'["k8s"] = RowIds("k8s")
    BY <2>1, <2>3, <2>4
  <2>6. EndpointOnUnit'
    BY <1>0, <2>5 DEF EndpointOnUnit, RowIds
  <2> QED
    BY <1>0, <1>1, <2>6, NotRemoving
<1> QED
  BY <1>2, <1>3

LEMMA StartEndpoint ==
  ASSUME EndpointInv, TypeInv', "k8s" \in Apps, Exclusion = "all",
         \/ StartBootstrap \/ \E n \in Nodes : StartJoin(n)
         \/ \E a \in Admins : StartReapply(a) \/ \E n \in Nodes : StartRemove(a, n)
  PROVE  EndpointOnUnit' /\ RemovesLast'
<1>0. TypeControl /\ EndpointOnUnit
  BY TypeParts DEF EndpointInv, BaseInv
<1>1. ASSUME NEW p \in Procs, NEW n, NEW plan, Begin(p, n, plan)
      PROVE  /\ EndpointOnUnit'
             /\ todo'[p] = plan /\ \A a \in Admins \ {p} : ~Removes(a)'
             /\ UNCHANGED <<kubeconfig, cloud>>
  <2>1. UNCHANGED <<rows, machineid, kubeconfig, cloud, units>>
    BY <1>1 DEF Begin, rowVars, endpointVars, planVars
  <2>2. todo'[p] = plan /\ \A r \in Procs \ {p} : todo'[r] = <<>>
    BY <1>0, <1>1 DEF Begin, Running, TypeControl
  <2>3. \A a \in Admins \ {p} : ~Removes(a)'
    BY <2>2, EmptyHolds DEF Removes, Procs
  <2> QED
    BY <1>0, <2>1, <2>2, <2>3, OnUnitFrame
<1>2. CASE StartBootstrap
  BY <1>1, <1>2, AdminsAssumption, SeedAssumption DEF StartBootstrap, RemovesLast, Procs
<1>3. ASSUME NEW n \in Nodes, StartJoin(n) PROVE EndpointOnUnit' /\ RemovesLast'
  BY <1>1, <1>3, AdminsAssumption DEF StartJoin, RemovesLast, Procs
<1>4. ASSUME NEW a \in Admins, StartReapply(a) PROVE EndpointOnUnit' /\ RemovesLast'
  <2>1. /\ EndpointOnUnit' /\ todo'[a] = ReapplyHypervisorTerraformPlanStep
        /\ \A r \in Admins \ {a} : ~Removes(r)'
    BY <1>1, <1>4 DEF StartReapply, Procs
  <2>2. \A x \in Elems(todo'[a]) : Rank(a, x.op) = 8
    BY <2>1, ReapplyPlanHolds, AdminRanks DEF Procs
  <2>3. ~Removes(a)'
    BY <2>2 DEF Removes
  <2> QED
    BY <2>1, <2>3 DEF RemovesLast
<1>5. ASSUME NEW a \in Admins, NEW n \in Nodes, StartRemove(a, n)
      PROVE  EndpointOnUnit' /\ RemovesLast'
  <2>1. /\ EndpointOnUnit' /\ todo'[a] = RemovePlan
        /\ \A r \in Admins \ {a} : ~Removes(r)'
    BY <1>1, <1>5 DEF StartRemove, Procs
  <2>2. {Step("migrate", "-"), Step("cloud", "-"), Step("remove", "k8s")} \subseteq Elems(todo'[a])
    BY <2>1, RemovePlanHolds
  <2>3. Left(a, "migrate")' /\ Left(a, "cloud")' /\ Step("remove", "k8s") \in Elems(todo'[a])
    BY <2>2 DEF Left, Holds, Step
  <2>4. MovedFirst(a)'
    BY <2>3 DEF MovedFirst
  <2> QED
    BY <2>1, <2>4 DEF RemovesLast
<1> QED
  BY <1>2, <1>3, <1>4, <1>5

LEMMA EndpointStep ==
  ASSUME Exclusion = "all", EndpointInv, [Next]_vars
  PROVE  EndpointInv'
<1>0. /\ BaseInv' /\ TypeInv' /\ TypeControl /\ TypeJuju /\ OneCommand
      /\ EndpointOnUnit /\ RemovesLast
  BY BaseStep, TypeParts DEF EndpointInv, BaseInv
<1>1. CASE "k8s" \notin Apps
  BY <1>0, <1>1 DEF EndpointInv, EndpointOnUnit, RemovesLast
<1>2. CASE "k8s" \in Apps
  <2> SUFFICES EndpointOnUnit' /\ RemovesLast'
    BY <1>0 DEF EndpointInv
  <2> USE <1>2
  <2>1. ASSUME UNCHANGED <<rows, machineid, kubeconfig, cloud, units, todo, target>>
        PROVE  EndpointOnUnit' /\ RemovesLast'
    BY <1>0, <2>1, OnUnitFrame, RemovesFrame
  <2>2. ASSUME NEW p \in Procs, todo[p] # <<>>, Continue(p) \/ Stop(p),
               UNCHANGED <<rows, machineid, kubeconfig, cloud, units>>,
               Stop(p) \/ p \in Nodes \/ Head(todo[p]).op \in {"deploy", "reapply"}
        PROVE  EndpointOnUnit' /\ RemovesLast'
    BY <1>0, <2>2, OnUnitFrame, NotRemoving
  <2>3. CASE UNCHANGED vars
    BY <2>1, <2>3 DEF vars, rowVars, planVars, endpointVars, procVars
  <2>4. CASE \/ StartBootstrap \/ \E n \in Nodes : StartJoin(n)
             \/ \E a \in Admins : StartReapply(a) \/ \E n \in Nodes : StartRemove(a, n)
    BY <1>0, <2>4, StartEndpoint
  <2>5. CASE \E m \in MachineIds : Report(m)
    BY <2>1, <2>5 DEF Report, rowVars, planVars, endpointVars, procVars
  <2>6. CASE \E app \in Apps : Unlock(app)
    BY <2>1, <2>6 DEF Unlock, rowVars, endpointVars, procVars
  <2>7. ASSUME NEW n \in Nodes,
               AddRow(n) \/ AddJujuMachine(n) \/ UpdateNode(n) \/ StoreKubeconfig(n)
               \/ SetBootstrapped(n)
        PROVE  EndpointOnUnit' /\ RemovesLast'
    <3>1. n \in Procs
      BY DEF Procs
    <3>2. CASE AddRow(n) \/ UpdateNode(n)
      BY <3>2, AddRowEndpoint, UpdateNodeEndpoint
    <3>3. CASE AddJujuMachine(n)
      BY <2>2, <3>1, <3>3 DEF AddJujuMachine, At, rowVars, planVars, endpointVars
    <3>4. CASE SetBootstrapped(n)
      BY <2>2, <3>1, <3>4 DEF SetBootstrapped, At, planVars, endpointVars
    <3>5. CASE StoreKubeconfig(n)
      <4>1. /\ todo[n] # <<>> /\ (Continue(n) \/ Stop(n))
            /\ UNCHANGED <<rows, machineid, cloud, units>>
            /\ kubeconfig' \in units["k8s"] \union {kubeconfig}
        BY <3>5 DEF StoreKubeconfig, At, rowVars, planVars
      <4>2. EndpointOnUnit'
        BY <1>0, <4>1 DEF EndpointOnUnit, RowIds
      <4> QED
        BY <1>0, <3>1, <4>1, <4>2, NotRemoving
    <3> QED
      BY <2>7, <3>2, <3>3, <3>4, <3>5
  <2>8. ASSUME NEW p \in Procs, PlanStep(p) PROVE EndpointOnUnit' /\ RemovesLast'
    <3>1. CASE ReadIds(p)
      <4>1. CASE Stop(p)
        BY <2>2, <3>1, <4>1 DEF ReadIds, At, rowVars, planVars, endpointVars
      <4>2. CASE Goto(p, "write")
        BY <2>1, <3>1, <4>2 DEF ReadIds, Goto, rowVars, planVars, endpointVars
      <4> QED
        BY <3>1, <4>1, <4>2 DEF ReadIds
    <3>2. CASE ReadStoredIds(p)
      <4>1. CASE Continue(p)
        BY <2>2, <3>2, <4>1 DEF ReadStoredIds, At, rowVars, planVars, endpointVars
      <4>2. CASE Goto(p, "write")
        BY <2>1, <3>2, <4>2 DEF ReadStoredIds, Goto, rowVars, planVars, endpointVars
      <4> QED
        BY <3>2, <4>1, <4>2 DEF ReadStoredIds
    <3>3. CASE WriteVars(p)
      BY <2>1, <3>3 DEF WriteVars, Goto, rowVars, endpointVars
    <3>4. CASE ApplyStart(p)
      <4>1. todo[p] # <<>>
        BY <1>0, <3>4, AppOfStep DEF ApplyStart
      <4>2. CASE Stop(p)
        BY <2>2, <3>4, <4>1, <4>2 DEF ApplyStart, rowVars, endpointVars
      <4>3. CASE Goto(p, "applying") \/ Goto(p, "step")
        BY <2>1, <3>4, <4>3 DEF ApplyStart, Goto, rowVars, endpointVars
      <4> QED
        BY <3>4, <4>2, <4>3 DEF ApplyStart
    <3>5. CASE Abort(p)
      BY <2>2, <3>5 DEF Abort, rowVars, endpointVars
    <3> QED
      BY <2>8, <3>1, <3>2, <3>3, <3>4, <3>5, ApplyEndEndpoint, CloudEndpoint DEF PlanStep
  <2>9. ASSUME NEW a \in Admins,
               CheckDistribution(a) \/ RemoveJujuMachine(a) \/ RemoveHypervisorUnit(a)
        PROVE  EndpointOnUnit' /\ RemovesLast'
    <3>1. /\ todo[a] # <<>> /\ (Continue(a) \/ Stop(a)) /\ a \in Procs
          /\ UNCHANGED <<rows, machineid, kubeconfig, cloud, target>>
          /\ Head(todo[a]).op \in {"check", "remove-machine", "remove-hypervisor"}
      BY <2>9 DEF CheckDistribution, RemoveJujuMachine, RemoveHypervisorUnit, At, rowVars,
         endpointVars, Procs
    <3>2. units'["k8s"] = units["k8s"]
      <4>1. CASE RemoveHypervisorUnit(a)
        BY <1>0, <3>1, <4>1, RemoveK8SOnly DEF RemoveHypervisorUnit, At, TypeJuju
      <4> QED
        BY <2>9, <4>1 DEF CheckDistribution, RemoveJujuMachine, planVars
    <3>3. EndpointOnUnit'
      BY <1>0, <3>1, <3>2, OnUnitFrame
    <3>4. todo'[a] = Tail(todo[a]) /\ MovedFirst(a) => MovedFirst(a)'
      BY <1>0, <3>1, <3>2, MovedFrame, RemoveK8SOnly
    <3> QED
      BY <1>0, <3>1, <3>3, <3>4, RemovingStep
  <2>10. ASSUME NEW a \in Admins, MigrateKubeconfig(a) \/ RemoveUnits(a) \/ RemoveRow(a)
         PROVE  EndpointOnUnit' /\ RemovesLast'
    BY <2>10, MigrateEndpoint, RemoveUnitsEndpoint, RemoveRowEndpoint
  <2>11. ASSUME NEW a \in Admins, AdminStep(a) PROVE EndpointOnUnit' /\ RemovesLast'
    BY <2>4, <2>9, <2>10, <2>11 DEF AdminStep
  <2>12. ASSUME NEW n \in Nodes, NodeStep(n) PROVE EndpointOnUnit' /\ RemovesLast'
    BY <2>4, <2>7, <2>12 DEF NodeStep
  <2> QED
    BY <2>3, <2>4, <2>5, <2>6, <2>8, <2>11, <2>12 DEF Next
<1> QED
  BY <1>1, <1>2

\* While the operators run one command at a time, the endpoint that clusterd's
\* kubeconfig and Juju's cloud point at is always one with a k8s unit, whatever
\* command fails or is killed, in whichever order the nodes are removed.
THEOREM EndpointIsAlwaysAlive ==
  ASSUME Exclusion = "all"
  PROVE  Spec => []EndpointAlive
<1>1. EndpointInv => EndpointAlive
  BY DEF EndpointInv, EndpointOnUnit, EndpointAlive
<1>2. EndpointInv /\ [Next]_vars => EndpointInv'
  BY EndpointStep
<1> QED
  BY <1>1, <1>2, EndpointInit, PTL DEF Spec

----------------------------------------------------------------------------
(* The units of joined nodes                                               *)

\* What a step keeps of a node.
ServiceKept(n) ==
  /\ n \in rows => n \in rows'
  /\ Placed(n) => Placed(n)'
  /\ \A app \in Apps : Runs(n, app) /\ Served(n, app) => Served(n, app)'

LEMMA KeptFrame ==
  ASSUME NEW n, UNCHANGED <<rows, machineid, host, units, stored>>
  PROVE  ServiceKept(n)
BY DEF ServiceKept, Placed, Served

LEMMA JoinInit == Init => JoinInv
<1> SUFFICES ASSUME Init PROVE JoinInv
  OBVIOUS
<1>1. BaseInv
  BY BaseInit
<1>2. JoinedServed
  BY DEF Init, JoinedServed
<1>3. NodeSoFar
  BY DEF Init, NodeSoFar, Procs
<1>4. RemovedNotJoined
  BY DEF Init, RemovedNotJoined
<1> QED
  BY <1>1, <1>2, <1>3, <1>4 DEF JoinInv

\* A step that ends.
LEMMA JoinOwn ==
  ASSUME TypeControl, OneCommand, JoinedServed, NodeSoFar, RemovedNotJoined,
         NEW p \in Procs, todo[p] # <<>>, Continue(p) \/ Stop(p), UNCHANGED target,
         \A n \in Nodes : n \in joined => ServiceKept(n), joined \subseteq Nodes,
         p \in Nodes /\ Continue(p) => SoFar(p, todo[p])'
  PROVE  JoinedServed' /\ NodeSoFar' /\ RemovedNotJoined'
<1>1. /\ \A r \in Procs \ {p} : todo'[r] = <<>>
      /\ Stop(p) => todo'[p] = <<>> /\ joined' = joined
      /\ Continue(p) => todo'[p] = Tail(todo[p])
  BY OwnStep DEF Stop, history
<1>2. Continue(p) => joined' = IF p \in Nodes /\ todo'[p] = <<>> THEN joined \union {p} ELSE joined
  BY <1>1, LeftAfter DEF Continue, Done
<1>3. \A n \in joined : n \in Nodes => \A app \in Apps : Runs(n, app) => Served(n, app)'
  BY DEF JoinedServed, ServiceKept
<1>4. p \in Nodes /\ Continue(p) /\ todo'[p] = <<>> =>
        \A app \in Apps : Runs(p, app) => Served(p, app)'
  BY EmptyHolds DEF SoFar
<1>5. \A n \in joined : n \in Nodes
  OBVIOUS
<1>6. JoinedServed'
  BY <1>1, <1>2, <1>3, <1>4, <1>5 DEF JoinedServed
<1>7. NodeSoFar'
  <2> SUFFICES ASSUME NEW n \in Nodes, todo'[n] # <<>>
               PROVE  n \notin joined' /\ SoFar(n, todo[n])'
    BY DEF NodeSoFar
  <2>1. n = p /\ Continue(p) /\ p \in Nodes
    BY <1>1 DEF Procs
  <2> QED
    BY <1>2, <2>1 DEF NodeSoFar
<1>8. RemovedNotJoined'
  <2> SUFFICES ASSUME NEW a \in Admins, NEW x \in Elems(todo'[a]), x.op # "reapply"
               PROVE  target'[a] \notin joined'
    BY DEF RemovedNotJoined
  <2>1. a = p /\ Continue(p) /\ a \notin Nodes
    BY <1>1, EmptyHolds, AdminsAssumption DEF Procs
  <2>2. x \in Elems(todo[a])
    BY <1>1, <2>1, LeftAfter
  <2> QED
    BY <1>2, <2>1, <2>2 DEF RemovedNotJoined
<1> QED
  BY <1>6, <1>7, <1>8

\* A step that goes on, or no step of a command.
LEMMA JoinFrame ==
  ASSUME JoinedServed, NodeSoFar, RemovedNotJoined, UNCHANGED <<todo, joined, target, found>>,
         \A n \in Nodes : n \in joined \/ todo[n] # <<>> => ServiceKept(n),
         joined \subseteq Nodes
  PROVE  JoinedServed' /\ NodeSoFar' /\ RemovedNotJoined'
<1>1. JoinedServed'
  BY DEF JoinedServed, ServiceKept
<1>2. RemovedNotJoined'
  BY DEF RemovedNotJoined
<1>3. NodeSoFar'
  <2> SUFFICES ASSUME NEW n \in Nodes, todo[n] # <<>>
               PROVE  n \notin joined /\ SoFar(n, todo[n])'
    BY DEF NodeSoFar
  <2>1. n \notin joined /\ SoFar(n, todo[n]) /\ ServiceKept(n)
    BY DEF NodeSoFar
  <2> QED
    BY <2>1 DEF SoFar, ServiceKept
<1> QED
  BY <1>1, <1>2, <1>3

\* A step of a node that deploys nothing, and neither its row nor its machine.
LEMMA SoFarQuiet ==
  ASSUME TypeControl, NodeSoFar, NEW n \in Nodes, todo[n] # <<>>, todo'[n] = Tail(todo[n]),
         Head(todo[n]).op \notin {"row", "machine", "update", "deploy"},
         found'[n] = found[n], ServiceKept(n)
  PROVE  SoFar(n, todo[n])'
<1>1. SoFar(n, todo[n])
  BY DEF NodeSoFar
<1>2. /\ \A op : Holds(todo[n], op) <=> Head(todo[n]).op = op \/ Holds(todo'[n], op)
      /\ \A x : x \in Elems(todo[n]) <=> x = Head(todo[n]) \/ x \in Elems(todo'[n])
  BY LeftAfter DEF Procs
<1>3. /\ Holds(todo[n], "row") => Holds(todo'[n], "row")
      /\ Holds(todo[n], "machine") => Holds(todo'[n], "machine")
      /\ Holds(todo[n], "update") => Holds(todo'[n], "update")
  BY <1>2
<1>4. \A app : Step("deploy", app) \in Elems(todo[n]) => Step("deploy", app) \in Elems(todo'[n])
  BY <1>2 DEF Step
<1> QED
  BY <1>1, <1>3, <1>4 DEF SoFar, ServiceKept

\* By the time a node deploys an application it has its row and its machine.
LEMMA DeployingPlaced ==
  ASSUME TypeControl, NodeSoFar, NEW n \in Nodes, todo[n] # <<>>,
         Head(todo[n]).op \in {"deploy", "reapply", "store-kubeconfig", "cloud"}
  PROVE  n \in rows /\ Placed(n)
<1>1. SoFar(n, todo[n])
  BY DEF NodeSoFar
<1>2. Rank(n, Head(todo[n]).op) = 4
  BY NodeRanks
<1>3. ~Left(n, "row") /\ ~Left(n, "machine") /\ ~Left(n, "update")
  BY <1>2, NodeRanks, PassedSteps DEF Procs
<1> QED
  BY <1>1, <1>3 DEF SoFar, Left

LEMMA AddRowJoin ==
  ASSUME JoinInv, NEW n \in Nodes, AddRow(n)
  PROVE  JoinedServed' /\ NodeSoFar' /\ RemovedNotJoined'
<1>0. /\ TypeControl /\ TypeRows /\ TypeNodes /\ OneCommand
      /\ JoinedServed /\ NodeSoFar /\ RemovedNotJoined
      /\ n \in Procs /\ todo[n] # <<>> /\ Head(todo[n]).op = "row" /\ Continue(n)
      /\ UNCHANGED <<host, units, stored, found, target>>
      /\ rows' = rows \union {n}
      /\ \A k \in rows : machineid'[k] = machineid[k]
  BY TypeParts DEF JoinInv, BaseInv, AddRow, At, planVars, jujuVars, Procs, TypeRows
<1>1. todo'[n] = Tail(todo[n])
  BY <1>0, OwnStep
<1>2. \A k \in Nodes : ServiceKept(k)
  BY <1>0 DEF ServiceKept, Placed, Served
<1>3. SoFar(n, todo[n])'
  <2>1. SoFar(n, todo[n])
    BY <1>0 DEF NodeSoFar
  <2>2. /\ \A op : Holds(todo[n], op) <=> Head(todo[n]).op = op \/ Holds(todo'[n], op)
        /\ \A x : x \in Elems(todo[n]) <=> x = Head(todo[n]) \/ x \in Elems(todo'[n])
    BY <1>0, <1>1, LeftAfter
  <2>3. /\ Holds(todo[n], "machine") => Holds(todo'[n], "machine")
        /\ Holds(todo[n], "update") => Holds(todo'[n], "update")
    BY <1>0, <2>2
  <2>4. \A app : Step("deploy", app) \in Elems(todo[n]) => Step("deploy", app) \in Elems(todo'[n])
    BY <1>0, <2>2 DEF Step
  <2> QED
    BY <1>0, <1>2, <2>1, <2>3, <2>4 DEF SoFar, ServiceKept
<1> QED
  BY <1>0, <1>2, <1>3, JoinOwn DEF TypeNodes

\* Juju reports the machine in time: what was found is the machine of the node.
LEMMA AddMachineJoin ==
  ASSUME ~LateReport, JoinInv, BaseInv', NEW n \in Nodes, AddJujuMachine(n)
  PROVE  JoinedServed' /\ NodeSoFar' /\ RemovedNotJoined'
<1>0. /\ TypeControl /\ TypeRows /\ TypeJuju /\ TypeNodes /\ OneCommand /\ SeedFirst
      /\ MachinesFit /\ JoinedServed /\ NodeSoFar /\ RemovedNotJoined
      /\ n \in Procs /\ todo[n] # <<>> /\ Head(todo[n]).op = "machine"
      /\ Continue(n) \/ Stop(n)
      /\ UNCHANGED <<rows, machineid, bootstrapped, units, stored, target>>
  BY TypeParts DEF JoinInv, BaseInv, AddJujuMachine, At, planVars, rowVars, Procs
<1>1. \A m \in MachineIds : host[m] # None => host'[m] = host[m]
  <2>1. CASE UNCHANGED jujuVars
    BY <2>1 DEF jujuVars
  <2>2. CASE added < MaxMachines /\ host' = [host EXCEPT ![added] = n]
    <3>1. added \in MachineIds /\ host[added] = None
      BY <1>0, <2>2, BoundAssumption DEF TypeJuju, MachineIds, MachinesFit
    <3> QED
      BY <1>0, <2>2, <3>1 DEF TypeJuju
  <2> QED
    BY <2>1, <2>2 DEF AddJujuMachine
<1>2. \A k \in Nodes : ServiceKept(k)
  BY <1>0, <1>1, SeedAssumption DEF ServiceKept, Placed, Served
<1>3. Stop(n) \/ found'[n] # NoMachine
  BY <1>0, BoundAssumption DEF AddJujuMachine, machines, MachineIds, NoMachine, TypeNodes, TypeJuju
<1>4. CASE Stop(n)
  <2>1. todo'[n] = <<>> /\ joined' = joined
    BY <1>0, <1>4, OwnStep DEF Stop, history
  <2>2. \A r \in Procs : todo'[r] = <<>>
    BY <1>0, <2>1, OwnStep
  <2> QED
    BY <1>0, <1>2, <2>1, <2>2, EmptyHolds
       DEF JoinedServed, NodeSoFar, RemovedNotJoined, ServiceKept, Procs, TypeNodes
<1>5. CASE Continue(n) /\ found'[n] # NoMachine
  <2>0. todo'[n] = Tail(todo[n])
    BY <1>0, <1>5, OwnStep
  <2>1. SoFar(n, todo[n])
    BY <1>0 DEF NodeSoFar
  <2>2. /\ \A op : Holds(todo[n], op) <=> Head(todo[n]).op = op \/ Holds(todo'[n], op)
        /\ \A x : x \in Elems(todo[n]) <=> x = Head(todo[n]) \/ x \in Elems(todo'[n])
    BY <1>0, <2>0, LeftAfter
  <2>3. ~Left(n, "row")
    BY <1>0, NodeRanks, PassedSteps
  <2>4. n \in rows /\ n \in rows'
    BY <1>0, <2>1, <2>3 DEF SoFar, Left
  <2>5. Holds(todo[n], "update") => Holds(todo'[n], "update")
    BY <1>0, <2>2
  <2>6. \A app : Step("deploy", app) \in Elems(todo[n]) => Step("deploy", app) \in Elems(todo'[n])
    BY <1>0, <2>2 DEF Step
  <2>7. n = Seed => Placed(n)'
    <3> SUFFICES ASSUME n = Seed PROVE Placed(Seed)'
      OBVIOUS
    <3>1. ~bootstrapped /\ ~bootstrapped'
      BY <1>0 DEF SeedFirst
    <3>2. machineid'[Seed] = 0
      BY <1>0, <2>4, <3>1 DEF SeedFirst
    <3>3. host'[0] = Seed
      <4>1. found'[n] # NoMachine
        BY <1>5
      <4>2. added' # 0
        <5>1. CASE UNCHANGED jujuVars
          <6>0. added' # added + 1
            BY <1>0, <5>1, BoundAssumption DEF TypeJuju, jujuVars
          <6>1. PICK m \in machines : host[m] = n
            BY <6>0 DEF AddJujuMachine
          <6>2. m < added /\ m \in Nat
            BY <1>0, <6>1, BoundAssumption DEF MachinesFit, machines, MachineIds
          <6> QED
            BY <1>0, <5>1, <6>1, <6>2, SeedAssumption DEF jujuVars, TypeJuju
        <5>2. CASE added' = added + 1
          BY <1>0, <5>2, BoundAssumption DEF TypeJuju
        <5> QED
          BY <5>1, <5>2 DEF AddJujuMachine
      <4> QED
        BY <3>1, <4>2 DEF BaseInv, SeedFirst
    <3> QED
      BY <2>4, <3>2, <3>3, BoundAssumption DEF Placed, MachineIds
  <2>8. n # Seed => Holds(todo'[n], "update") \/ Placed(n)'
    BY <1>2, <2>1, <2>5 DEF SoFar, ServiceKept
  <2>9. SoFar(n, todo[n])'
    BY <1>2, <1>5, <2>1, <2>4, <2>6, <2>7, <2>8 DEF SoFar, ServiceKept
  <2> QED
    BY <1>0, <1>2, <2>9, JoinOwn DEF TypeNodes
<1> QED
  BY <1>0, <1>3, <1>4, <1>5

LEMMA UpdateNodeJoin ==
  ASSUME JoinInv, NEW n \in Nodes, UpdateNode(n)
  PROVE  JoinedServed' /\ NodeSoFar' /\ RemovedNotJoined'
<1>0. /\ TypeControl /\ TypeRows /\ TypeNodes /\ OneCommand /\ FoundFits /\ MachinesFit
      /\ JoinedServed /\ NodeSoFar /\ RemovedNotJoined
      /\ n \in Procs /\ todo[n] # <<>> /\ Head(todo[n]).op = "update" /\ (Continue(n) \/ Stop(n))
      /\ UNCHANGED <<rows, host, units, stored, target>>
  BY TypeParts DEF JoinInv, BaseInv, UpdateNode, At, planVars, jujuVars, Procs
<1>1. SoFar(n, todo[n]) /\ n \notin joined
  BY <1>0 DEF NodeSoFar
<1>2. ~Left(n, "row") /\ ~Left(n, "machine")
  BY <1>0, NodeRanks, PassedSteps
<1>3. n \in rows /\ (found[n] # NoMachine \/ Placed(n))
  BY <1>1, <1>2 DEF SoFar, Left
<1>4. found[n] # NoMachine => found[n] \in MachineIds /\ host[found[n]] = n
  BY <1>0, <1>2 DEF FoundFits, TypeNodes
<1>5. /\ \A k \in Nodes \ {n} : machineid'[k] = machineid[k]
      /\ machineid'[n] = IF found[n] # NoMachine THEN found[n] ELSE machineid[n]
  BY <1>0, <1>3 DEF UpdateNode, TypeRows
<1>6. Placed(n)'
  BY <1>0, <1>3, <1>4, <1>5 DEF Placed
<1>7. Placed(n) => machineid'[n] = machineid[n]
  BY <1>0, <1>4, <1>5, SeedAssumption DEF Placed, MachinesFit, machines
<1>8. \A k \in Nodes : ServiceKept(k)
  BY <1>0, <1>5, <1>6, <1>7 DEF ServiceKept, Placed, Served
<1>9. Continue(n) => SoFar(n, todo[n])'
  <2> SUFFICES ASSUME Continue(n) PROVE SoFar(n, todo[n])'
    OBVIOUS
  <2>1. todo'[n] = Tail(todo[n])
    BY <1>0, OwnStep
  <2>2. \A app : Step("deploy", app) \in Elems(todo[n]) => Step("deploy", app) \in Elems(todo'[n])
    BY <1>0, <2>1, LeftAfter DEF Step
  <2> QED
    BY <1>0, <1>1, <1>3, <1>6, <1>8, <2>2 DEF SoFar, ServiceKept
<1> QED
  BY <1>0, <1>8, <1>9, JoinOwn DEF TypeNodes

\* Storing the ids of the rows, or again those that were stored, keeps the id of
\* every node that is served.
LEMMA WriteJoin ==
  ASSUME JoinInv, NEW p \in Procs, WriteVars(p)
  PROVE  JoinedServed' /\ NodeSoFar' /\ RemovedNotJoined'
<1>0. /\ TypeControl /\ TypePlans /\ TypeNodes /\ JoinedServed /\ NodeSoFar /\ RemovedNotJoined
      /\ phase[p] = "write" /\ UNCHANGED <<rows, machineid, host, units, todo, joined, target, found>>
      /\ stored' = [stored EXCEPT ![App(p)] = ids[p]]
  BY TypeParts DEF JoinInv, BaseInv, WriteVars, Goto, rowVars, jujuVars, history
<1>1. App(p) \in Apps /\ todo[p] # <<>> /\ Head(todo[p]).op \in {"deploy", "reapply"}
  BY <1>0, AppOfStep DEF TypeControl, Applies
<1>2. ASSUME NEW n \in Nodes PROVE ServiceKept(n)
  <2>1. ASSUME Runs(n, App(p)), Served(n, App(p))
        PROVE  AsStored(App(p), machineid[n]) \in ids[p]
    <3>1. CASE Head(todo[p]).op = "deploy"
      <4>1. ids[p] = {AsStored(App(p), m) : m \in RowIds(App(p))}
        BY <1>0, <3>1 DEF JoinInv, BaseInv, IdsCurrent
      <4>2. machineid[n] \in RowIds(App(p))
        BY <2>1, BoundAssumption DEF Served, Placed, RowIds, MachineIds, NoMachine
      <4> QED
        BY <4>1, <4>2
    <3>2. CASE Head(todo[p]).op = "reapply"
      <4>1. ids[p] = stored[App(p)]
        BY <1>0, <3>2 DEF JoinInv, BaseInv, IdsCurrent
      <4> QED
        BY <2>1, <4>1 DEF Served
    <3> QED
      BY <1>1, <3>1, <3>2
  <2> QED
    BY <1>0, <2>1 DEF ServiceKept, Served, Placed, TypePlans
<1> QED
  BY <1>0, <1>2, JoinFrame DEF TypeNodes

\* Applying them keeps their units, and gives the node that deploys its own.
LEMMA ApplyEndJoin ==
  ASSUME JoinInv, NEW p \in Procs, ApplyEnd(p)
  PROVE  JoinedServed' /\ NodeSoFar' /\ RemovedNotJoined'
<1>0. /\ TypeControl /\ TypeJuju /\ TypePlans /\ TypeNodes /\ OneCommand
      /\ JoinedServed /\ NodeSoFar /\ RemovedNotJoined
      /\ phase[p] = "applying" /\ (Continue(p) \/ Stop(p))
      /\ UNCHANGED <<rows, machineid, host, stored, target, found>>
  BY TypeParts DEF JoinInv, BaseInv, ApplyEnd, rowVars, jujuVars
<1>1. App(p) \in Apps /\ todo[p] # <<>> /\ Head(todo[p]).op \in {"deploy", "reapply"}
  BY <1>0, AppOfStep DEF TypeControl, Applies
<1> DEFINE wanted == {i[2] : i \in ids[p]}
<1>2. units' = units \/ units' = [units EXCEPT ![App(p)] = wanted]
  BY DEF ApplyEnd
<1>3. /\ Head(todo[p]).op = "deploy" => ids[p] = {AsStored(App(p), m) : m \in RowIds(App(p))}
      /\ stored[App(p)] = ids[p]
  BY <1>0 DEF JoinInv, BaseInv, IdsCurrent
<1>4. \A app, m : AsStored(app, m)[2] = m
  BY DEF AsStored, AsInt, AsStr
<1>5. ASSUME NEW n \in Nodes PROVE ServiceKept(n)
  <2>1. Served(n, App(p)) => machineid[n] \in wanted
    BY <1>3, <1>4 DEF Served
  <2> QED
    BY <1>0, <1>1, <1>2, <2>1 DEF ServiceKept, Served, Placed, TypeJuju
<1>6. p \in Nodes /\ Continue(p) => SoFar(p, todo[p])' \/ Stop(p)
  <2> SUFFICES ASSUME p \in Nodes, Continue(p), ~Stop(p) PROVE SoFar(p, todo[p])'
    OBVIOUS
  <2>1. p \in rows /\ Placed(p) /\ SoFar(p, todo[p])
    BY <1>0, <1>1, DeployingPlaced DEF NodeSoFar
  <2>2. todo'[p] = Tail(todo[p])
    BY <1>0, <1>1, OwnStep
  <2>3. \A x : x \in Elems(todo[p]) <=> x = Head(todo[p]) \/ x \in Elems(todo'[p])
    BY <1>0, <1>1, <2>2, LeftAfter
  <2>4. ASSUME NEW app \in Apps, Runs(p, app)
        PROVE  Step("deploy", app) \in Elems(todo'[p]) \/ Served(p, app)'
    <3>1. CASE Head(todo[p]) # Step("deploy", app)
      BY <1>5, <2>1, <2>3, <2>4, <3>1 DEF SoFar, ServiceKept
    <3>2. CASE Head(todo[p]) = Step("deploy", app)
      <4>1. app = App(p) /\ Head(todo[p]).op = "deploy"
        BY <3>2 DEF Step, App
      <4>2. machineid[p] \in RowIds(app)
        BY <2>1, <2>4, BoundAssumption DEF Placed, RowIds, MachineIds, NoMachine
      <4>3. AsStored(app, machineid[p]) \in ids[p]
        BY <1>3, <4>1, <4>2
      <4>4. machineid[p] \in wanted
        BY <1>4, <4>3
      <4>5. machineid[p] \in units'[app]
        <5>1. units' = [units EXCEPT ![App(p)] = wanted]
          BY DEF ApplyEnd
        <5> QED
          BY <1>0, <1>1, <4>1, <4>4, <5>1 DEF TypeJuju
      <4>6. AsStored(app, machineid[p]) \in stored'[app]
        BY <1>0, <1>3, <4>1, <4>3
      <4> QED
        BY <1>0, <1>5, <2>1, <4>5, <4>6 DEF Served, ServiceKept
    <3> QED
      BY <3>1, <3>2
  <2> QED
    BY <1>5, <2>1, <2>4 DEF SoFar, ServiceKept
<1>7. CASE Stop(p)
  <2>1. \A r \in Procs : todo'[r] = <<>>
    BY <1>0, <1>1, <1>7, OwnStep
  <2>2. joined' = joined
    BY <1>7 DEF Stop, history
  <2> QED
    BY <1>0, <1>5, <2>1, <2>2, EmptyHolds
       DEF JoinedServed, NodeSoFar, RemovedNotJoined, ServiceKept, Procs, TypeNodes
<1>8. CASE ~Stop(p)
  BY <1>0, <1>1, <1>5, <1>6, <1>8, JoinOwn DEF TypeNodes
<1> QED
  BY <1>7, <1>8

\* A removal takes away what belongs to its target, which has not joined, and
\* nothing of another node.
LEMMA RemovalKeeps ==
  ASSUME JoinInv, NEW a \in Admins,
         RemoveUnits(a) \/ RemoveHypervisorUnit(a) \/ RemoveJujuMachine(a) \/ RemoveRow(a)
  PROVE  JoinedServed' /\ NodeSoFar' /\ RemovedNotJoined'
<1>0. /\ TypeControl /\ TypeRows /\ TypeJuju /\ TypePlans /\ TypeNodes /\ OneCommand /\ IdsFit
      /\ JoinedServed /\ NodeSoFar /\ RemovedNotJoined
      /\ a \in Procs /\ a \notin Nodes /\ todo[a] # <<>> /\ (Continue(a) \/ Stop(a))
      /\ Head(todo[a]).op # "reapply" /\ UNCHANGED target
  BY TypeParts, AdminsAssumption DEF JoinInv, BaseInv, RemoveUnits, RemoveHypervisorUnit,
     RemoveJujuMachine, RemoveRow, At, Procs
<1>1. target[a] \notin joined
  BY <1>0, SomeStep DEF RemovedNotJoined
<1> DEFINE t == machineid[target[a]]
<1>2. target[a] \in Nodes
  BY <1>0 DEF TypeNodes
<1>3. \A n \in Nodes : n # target[a] /\ Placed(n) => machineid[n] # t
  BY <1>0, <1>2, BoundAssumption DEF IdsFit, Placed, MachineIds, NoMachine
<1>4. ASSUME NEW n \in Nodes, n # target[a] PROVE ServiceKept(n)
  <2>1. CASE RemoveUnits(a)
    <3>1. /\ UNCHANGED <<rows, machineid, host, stored>>
          /\ units' = [units EXCEPT ![App(a)] =
                         IF OnNode(target[a], App(a)) THEN units[App(a)] \ {t} ELSE units[App(a)]]
      BY <2>1 DEF RemoveUnits, rowVars, jujuVars
    <3>2. \A app \in Apps : units[app] \ {t} \subseteq units'[app]
      BY <1>0, <3>1 DEF TypeJuju
    <3> QED
      BY <1>3, <1>4, <3>1, <3>2 DEF ServiceKept, Served, Placed
  <2>2. CASE RemoveHypervisorUnit(a)
    <3>1. /\ UNCHANGED <<rows, machineid, host>>
          /\ units' \in {units, [units EXCEPT ![App(a)] = units[App(a)] \ {t}]}
          /\ stored' \in {stored, [stored EXCEPT ![App(a)] = stored[App(a)] \ {AsStr(t)}]}
      BY <2>2 DEF RemoveHypervisorUnit, rowVars, jujuVars
    <3>2. \A app \in Apps : /\ units[app] \ {t} \subseteq units'[app]
                            /\ stored[app] \ {AsStr(t)} \subseteq stored'[app]
      BY <1>0, <3>1 DEF TypeJuju, TypePlans
    <3>3. \A app, m : m # t => AsStored(app, m) # AsStr(t)
      BY DEF AsStored, AsInt, AsStr
    <3> QED
      BY <1>3, <1>4, <3>1, <3>2, <3>3 DEF ServiceKept, Served, Placed
  <2>3. CASE RemoveJujuMachine(a)
    <3>1. /\ UNCHANGED <<rows, machineid, units, stored>>
          /\ host' \in {host, [host EXCEPT ![t] = None]}
      BY <2>3 DEF RemoveJujuMachine, rowVars, planVars, jujuVars
    <3>2. Placed(n) => host'[machineid[n]] = n
      BY <1>0, <1>3, <1>4, <3>1 DEF Placed, TypeJuju
    <3> QED
      BY <3>1, <3>2 DEF ServiceKept, Served, Placed
  <2>4. CASE RemoveRow(a)
    <3>1. /\ UNCHANGED <<host, units, stored>>
          /\ n \in rows => n \in rows'
          /\ machineid'[n] = machineid[n]
      BY <1>0, <1>4, <2>4 DEF RemoveRow, planVars, jujuVars, TypeRows
    <3> QED
      BY <3>1 DEF ServiceKept, Served, Placed
  <2> QED
    BY <2>1, <2>2, <2>3, <2>4
<1>5. \A n \in Nodes : n \in joined => ServiceKept(n)
  BY <1>1, <1>4
<1> QED
  BY <1>0, <1>5, JoinOwn DEF TypeNodes

LEMMA StartJoined ==
  ASSUME JoinInv, Exclusion = "all",
         \/ StartBootstrap \/ \E n \in Nodes : StartJoin(n)
         \/ \E a \in Admins : StartReapply(a) \/ \E n \in Nodes : StartRemove(a, n)
  PROVE  JoinedServed' /\ NodeSoFar' /\ RemovedNotJoined'
<1>0. TypeControl /\ TypeNodes /\ SeedFirst /\ JoinedServed /\ RemovedNotJoined
  BY TypeParts DEF JoinInv, BaseInv
<1>1. ASSUME NEW p \in Procs, NEW n, NEW plan, Begin(p, n, plan), joined' \subseteq joined
      PROVE  /\ JoinedServed'
             /\ todo'[p] = plan /\ \A r \in Procs \ {p} : todo'[r] = <<>>
             /\ \A a \in Admins \ {p} : Elems(todo'[a]) = {}
             /\ \A k \in Nodes \ {p} : todo'[k] = <<>>
  <2>1. UNCHANGED <<rows, machineid, host, units, stored>>
    BY <1>1 DEF Begin, rowVars, jujuVars, planVars
  <2>2. todo'[p] = plan /\ \A r \in Procs \ {p} : todo'[r] = <<>>
    BY <1>0, <1>1 DEF Begin, Running, TypeControl
  <2>3. JoinedServed'
    BY <1>0, <1>1, <2>1 DEF JoinedServed, Served, Placed
  <2> QED
    BY <2>2, <2>3, EmptyHolds DEF Procs
<1>2. CASE StartBootstrap
  <2>1. /\ Begin(Seed, Seed, BootstrapPlan) /\ Seed \in Procs /\ Seed \notin Admins
        /\ Seed \notin joined /\ joined' = joined
    BY <1>0, <1>2, SeedAssumption, AdminsAssumption DEF StartBootstrap, SeedFirst, Procs, history
  <2>2. /\ Step("row", "-") \in Elems(BootstrapPlan)
        /\ Step("machine", "-") \in Elems(BootstrapPlan)
        /\ \A app \in Apps : Runs(Seed, app) => Step("deploy", app) \in Elems(BootstrapPlan)
    BY BootstrapPlanHolds
  <2>3. Holds(BootstrapPlan, "row") /\ Holds(BootstrapPlan, "machine")
    BY <2>2 DEF Holds, Step
  <2>4. todo'[Seed] = BootstrapPlan
    BY <1>1, <2>1
  <2>5. SoFar(Seed, todo[Seed])'
    BY <2>2, <2>3, <2>4 DEF SoFar
  <2> QED
    BY <1>1, <2>1, <2>5 DEF NodeSoFar, RemovedNotJoined
<1>3. ASSUME NEW n \in Nodes, StartJoin(n)
      PROVE  JoinedServed' /\ NodeSoFar' /\ RemovedNotJoined'
  <2>1. /\ Begin(n, n, JoinPlan(n)) /\ n \in Procs /\ n \notin Admins
        /\ n \notin joined /\ joined' = joined
    BY <1>3, AdminsAssumption DEF StartJoin, Procs
  <2>2. /\ \A op \in {"row", "machine", "update"} : Step(op, "-") \in Elems(JoinPlan(n))
        /\ \A app \in Apps : Runs(n, app) => Step("deploy", app) \in Elems(JoinPlan(n))
    BY JoinPlanHolds
  <2>3. \A op \in {"row", "machine", "update"} : Holds(JoinPlan(n), op)
    BY <2>2 DEF Holds, Step
  <2>4. todo'[n] = JoinPlan(n)
    BY <1>1, <2>1
  <2>5. SoFar(n, todo[n])'
    BY <2>2, <2>3, <2>4 DEF SoFar
  <2> QED
    BY <1>1, <2>1, <2>5 DEF NodeSoFar, RemovedNotJoined
<1>4. ASSUME NEW a \in Admins, StartReapply(a)
      PROVE  JoinedServed' /\ NodeSoFar' /\ RemovedNotJoined'
  <2>1. /\ Begin(a, None, ReapplyHypervisorTerraformPlanStep) /\ a \in Procs /\ a \notin Nodes
        /\ joined' = joined
    BY <1>4, AdminsAssumption DEF StartReapply, Procs, history
  <2>2. \A x \in Elems(todo'[a]) : x.op = "reapply"
    BY <1>1, <2>1, ReapplyPlanHolds
  <2> QED
    BY <1>1, <2>1, <2>2 DEF NodeSoFar, RemovedNotJoined
<1>5. ASSUME NEW a \in Admins, NEW n \in Nodes, StartRemove(a, n)
      PROVE  JoinedServed' /\ NodeSoFar' /\ RemovedNotJoined'
  <2>1. /\ Begin(a, n, RemovePlan) /\ a \in Procs /\ a \notin Nodes
        /\ joined' = joined \ {n} /\ target'[a] = n
    BY <1>0, <1>5, AdminsAssumption DEF StartRemove, Procs, TypeNodes
  <2> QED
    BY <1>1, <2>1 DEF NodeSoFar, RemovedNotJoined
<1> QED
  BY <1>2, <1>3, <1>4, <1>5

\* A step that ends and touches neither rows, machines, units nor stored ids.
LEMMA QuietJoin ==
  ASSUME JoinInv, NEW p \in Procs, todo[p] # <<>>, Continue(p) \/ Stop(p),
         UNCHANGED <<rows, machineid, host, units, stored, target, found>>,
         Stop(p) \/ Head(todo[p]).op \notin {"row", "machine", "update", "deploy"}
  PROVE  JoinedServed' /\ NodeSoFar' /\ RemovedNotJoined'
<1>0. /\ TypeControl /\ TypeNodes /\ OneCommand
      /\ JoinedServed /\ NodeSoFar /\ RemovedNotJoined
  BY TypeParts DEF JoinInv, BaseInv
<1>1. \A n \in Nodes : ServiceKept(n)
  BY KeptFrame
<1>2. CASE Stop(p)
  <2>1. \A r \in Procs : todo'[r] = <<>>
    BY <1>0, <1>2, OwnStep
  <2>2. joined' = joined
    BY <1>2 DEF Stop, history
  <2> QED
    BY <1>0, <1>1, <2>1, <2>2, EmptyHolds
       DEF JoinedServed, NodeSoFar, RemovedNotJoined, ServiceKept, Procs, TypeNodes
<1>3. CASE ~Stop(p)
  <2>1. todo'[p] = Tail(todo[p])
    BY <1>0, <1>3, OwnStep
  <2>2. p \in Nodes => SoFar(p, todo[p])'
    BY <1>0, <1>1, <1>3, <2>1, SoFarQuiet
  <2> QED
    BY <1>0, <1>1, <1>3, <2>2, JoinOwn DEF TypeNodes
<1> QED
  BY <1>2, <1>3

LEMMA JoinStep ==
  ASSUME Exclusion = "all", ~LateReport, JoinInv, [Next]_vars
  PROVE  JoinInv'
<1>0. BaseInv' /\ TypeControl /\ TypeNodes /\ JoinedServed /\ NodeSoFar /\ RemovedNotJoined
  BY BaseStep, TypeParts DEF JoinInv, BaseInv
<1> DEFINE Keeps == JoinedServed' /\ NodeSoFar' /\ RemovedNotJoined'
<1> SUFFICES Keeps
  BY <1>0 DEF JoinInv
<1>1. ASSUME UNCHANGED <<rows, machineid, host, units, stored, todo, joined, target, found>>
      PROVE  Keeps
  BY <1>0, <1>1, KeptFrame, JoinFrame DEF TypeNodes
<1>2. CASE UNCHANGED vars
  BY <1>1, <1>2 DEF vars, rowVars, planVars, jujuVars, procVars, history
<1>3. CASE \/ StartBootstrap \/ \E n \in Nodes : StartJoin(n)
           \/ \E a \in Admins : StartReapply(a) \/ \E n \in Nodes : StartRemove(a, n)
  BY <1>3, StartJoined
<1>4. CASE \E m \in MachineIds : Report(m)
  BY <1>1, <1>4 DEF Report, rowVars, planVars, procVars, history
<1>5. CASE \E app \in Apps : Unlock(app)
  BY <1>1, <1>5 DEF Unlock, rowVars, jujuVars, procVars, history
<1>6. ASSUME NEW n \in Nodes,
             AddRow(n) \/ AddJujuMachine(n) \/ UpdateNode(n) \/ StoreKubeconfig(n)
             \/ SetBootstrapped(n)
      PROVE  Keeps
  <2>1. n \in Procs
    BY DEF Procs
  <2>2. CASE StoreKubeconfig(n)
    BY <2>1, <2>2, QuietJoin DEF StoreKubeconfig, At, rowVars, planVars, jujuVars
  <2>3. CASE SetBootstrapped(n)
    BY <2>1, <2>3, QuietJoin DEF SetBootstrapped, At, planVars, jujuVars
  <2> QED
    BY <1>0, <1>6, <2>2, <2>3, AddRowJoin, AddMachineJoin, UpdateNodeJoin
<1>7. ASSUME NEW p \in Procs, PlanStep(p) PROVE Keeps
  <2>1. CASE ReadIds(p)
    <3>1. CASE Stop(p)
      BY <2>1, <3>1, QuietJoin DEF ReadIds, At, rowVars, planVars, jujuVars
    <3>2. CASE Goto(p, "write")
      BY <1>1, <2>1, <3>2 DEF ReadIds, Goto, rowVars, planVars, jujuVars, history
    <3> QED
      BY <2>1, <3>1, <3>2 DEF ReadIds
  <2>2. CASE ReadStoredIds(p)
    <3>1. CASE Continue(p)
      BY <2>2, <3>1, QuietJoin DEF ReadStoredIds, At, rowVars, planVars, jujuVars
    <3>2. CASE Goto(p, "write")
      BY <1>1, <2>2, <3>2 DEF ReadStoredIds, Goto, rowVars, planVars, jujuVars, history
    <3> QED
      BY <2>2, <3>1, <3>2 DEF ReadStoredIds
  <2>3. CASE ApplyStart(p)
    <3>1. todo[p] # <<>>
      BY <1>0, <2>3, AppOfStep DEF ApplyStart
    <3>2. CASE Stop(p)
      BY <2>3, <3>1, <3>2, QuietJoin DEF ApplyStart, rowVars, jujuVars
    <3>3. CASE Goto(p, "applying") \/ Goto(p, "step")
      BY <1>1, <2>3, <3>3 DEF ApplyStart, Goto, rowVars, jujuVars, history
    <3> QED
      BY <2>3, <3>2, <3>3 DEF ApplyStart
  <2>4. CASE UpdateK8SCloud(p)
    BY <2>4, QuietJoin DEF UpdateK8SCloud, At, rowVars, planVars, jujuVars
  <2>5. CASE Abort(p)
    BY <2>5, QuietJoin DEF Abort, rowVars, jujuVars
  <2> QED
    BY <1>7, <2>1, <2>2, <2>3, <2>4, <2>5, WriteJoin, ApplyEndJoin DEF PlanStep
<1>8. ASSUME NEW a \in Admins, CheckDistribution(a) \/ MigrateKubeconfig(a) PROVE Keeps
  <2>1. a \in Procs
    BY DEF Procs
  <2>2. CASE CheckDistribution(a)
    BY <2>1, <2>2, QuietJoin DEF CheckDistribution, At, rowVars, planVars, jujuVars
  <2>3. CASE MigrateKubeconfig(a)
    BY <2>1, <2>3, QuietJoin DEF MigrateKubeconfig, At, rowVars, planVars, jujuVars
  <2> QED
    BY <1>8, <2>2, <2>3
<1>9. ASSUME NEW a \in Admins, AdminStep(a) PROVE Keeps
  BY <1>3, <1>8, <1>9, RemovalKeeps DEF AdminStep
<1>10. ASSUME NEW n \in Nodes, NodeStep(n) PROVE Keeps
  BY <1>3, <1>6, <1>10 DEF NodeStep
<1> QED
  BY <1>2, <1>3, <1>4, <1>5, <1>7, <1>9, <1>10 DEF Next

\* While the operators run one command at a time, and Juju reports a machine
\* while AddJujuMachineStep waits for it, a node whose join was reported keeps
\* its machine and a unit of every application of its roles until somebody
\* starts to remove it: no join, removal or reapplied plan of another command
\* takes them away, wherever that command fails or is killed.
THEOREM JoinedAlwaysHaveUnits ==
  ASSUME Exclusion = "all", ~LateReport
  PROVE  Spec => []JoinedHasUnits
<1>1. JoinInv => JoinedHasUnits
  BY DEF JoinInv, JoinedServed, Served, Placed, JoinedHasUnits
<1>2. JoinInv /\ [Next]_vars => JoinInv'
  BY JoinStep
<1> QED
  BY <1>1, <1>2, JoinInit, PTL DEF Spec

----------------------------------------------------------------------------
(* What a removal leaves, one command at a time for each node              *)

\* A session removes a node, and a process is busy with one.
RemovesNode(a) == a \in Admins /\ todo[a] # <<>> /\ Head(todo[a]).op # "reapply"
Works(p, n) == (p = n /\ todo[n] # <<>>) \/ (RemovesNode(p) /\ target[p] = n)

OnePerNode == \A n \in Nodes : \A p, q \in Procs : Works(p, n) /\ Works(q, n) => p = q

\* A removal reapplies no stored ids, a reapply does nothing else.
OneKind ==
  \A a \in Admins : \A x, y \in Elems(todo[a]) : x.op = "reapply" => y.op = "reapply"

\* Until it is bootstrapped the cluster is the seed, whose id is 0.
SeedAlone ==
  /\ \A p \in Procs \ {Seed} : todo[p] # <<>> => bootstrapped
  /\ todo[Seed] # <<>> => ~bootstrapped /\ (Left(Seed, "machine") \/ added = 1)
  /\ ~bootstrapped =>
       /\ Seed \in rows => machineid[Seed] = 0
       /\ added = 0 \/ (added = 1 /\ host[0] = Seed)

\* The id of a row is that of a machine of its node, or that was.
IdsOwn ==
  \A n \in Nodes : machineid[n] # NoMachine =>
    /\ machineid[n] < added \/ (n = Seed /\ machineid[n] = 0 /\ ~bootstrapped)
    /\ host[machineid[n]] \in {n, None}

NoMachineOf(n) == \A m \in machines : host[m] # n

\* The row of a node names its machine.
Named(n) == \E m \in machines : host[m] = n /\ machineid[n] = m

\* How far a join is: its row, its machine, and the id in the row.
JoinSoFar(n) ==
  todo[n] # <<>> =>
    /\ Left(n, "row") \/ n \in rows
    /\ n # Seed =>
         /\ Left(n, "machine") => Left(n, "update")
         /\ Left(n, "machine") \/ ~Left(n, "update") \/ found[n] # NoMachine \/ Named(n)

\* The row of a machine's node names the machine, or is about to.
Linked ==
  \A m \in machines :
    /\ host[m] \in rows
    /\ machineid[host[m]] = m \/ (host[m] # Seed /\ todo[host[m]] # <<>> /\ Left(host[m], "update"))

\* How far a removal is.
RemoveSoFar(a) ==
  RemovesNode(a) =>
    /\ Left(a, "remove-machine") \/ NoMachineOf(target[a])
    /\ Left(a, "remove-row") \/ target[a] \notin rows

Gone(n) == n \notin rows /\ NoMachineOf(n) /\ todo[n] = <<>> /\ (n = Seed => bootstrapped)

NodesInv == OnePerNode /\ OneKind /\ SeedAlone
IdsInv == MachinesFit /\ machines \subseteq reported /\ IdsOwn /\ FoundFits /\ Linked
LeaveInv ==
  /\ TypeInv /\ NodesInv /\ IdsInv
  /\ (\A n \in Nodes : JoinSoFar(n)) /\ (\A a \in Admins : RemoveSoFar(a))
  /\ \A n \in removed : Gone(n)

LEMMA HeadIsStep ==
  ASSUME NEW q \in Seq(Steps), q # <<>>
  PROVE  Head(q) \in Elems(q)
<1>1. Len(q) \in Nat \ {0}
  BY EmptySeq
<1>2. 1 \in 1..Len(q) /\ Head(q) = q[1]
  BY <1>1
<1> QED
  BY <1>2 DEF Elems

\* The steps of a join and of a removal come in their order.
LEMMA NodeOrder ==
  ASSUME TypeControl, NEW n \in Nodes, todo[n] # <<>>
  PROVE  /\ Head(todo[n]).op \notin {"row", "machine", "update"} => ~Left(n, "update")
         /\ Head(todo[n]).op # "row" => ~Left(n, "row")
         /\ Head(todo[n]).op \notin {"row", "machine"} => ~Left(n, "machine")
         /\ Head(todo[n]).op = "bootstrapped" => Tail(todo[n]) = <<>>
<1> DEFINE h == Head(todo[n])
<1>1. n \in Procs
  BY DEF Procs
<1>2. /\ Elems(todo[n]) = {h} \union Elems(Tail(todo[n]))
      /\ \A x \in Elems(Tail(todo[n])) : Rank(n, h.op) <= Rank(n, x.op) /\ Rank(n, h.op) < 9
      /\ Within(n, Tail(todo[n]), 1, 9)
  BY <1>1, FirstStep
<1>3. \A op : Rank(n, op) \in Int
  BY RankType
<1>4. /\ Rank(n, "row") = 1 /\ Rank(n, "machine") = 2 /\ Rank(n, "update") = 3
      /\ Rank(n, "bootstrapped") = 9
      /\ \A op : op \notin {"row", "machine", "update"} => 4 <= Rank(n, op)
  BY RankFour DEF Rank, NodeRank
<1>5. h.op \notin {"row", "machine", "update"} => ~Left(n, "update")
  BY <1>2, <1>3, <1>4 DEF Left, Holds
<1>6. h.op # "row" => ~Left(n, "row")
  BY <1>2, <1>3, <1>4 DEF Left, Holds
<1>7. h.op \notin {"row", "machine"} => ~Left(n, "machine")
  BY <1>2, <1>3, <1>4 DEF Left, Holds
<1>8. h.op = "bootstrapped" => Tail(todo[n]) = <<>>
  <2>1. h.op = "bootstrapped" => Elems(Tail(todo[n])) = {}
    BY <1>2, <1>4
  <2>2. Tail(todo[n]) \in Seq(Steps)
    BY <1>2 DEF Within
  <2> QED
    BY <2>1, <2>2, HeadIsStep
<1> QED
  BY <1>5, <1>6, <1>7, <1>8

LEMMA AdminOrder ==
  ASSUME TypeControl, NEW a \in Admins, todo[a] # <<>>, Head(todo[a]).op = "remove-row"
  PROVE  ~Left(a, "remove-machine")
<1>1. a \in Procs
  BY DEF Procs
<1>2. /\ Elems(todo[a]) = {Head(todo[a])} \union Elems(Tail(todo[a]))
      /\ \A x \in Elems(Tail(todo[a])) : Rank(a, "remove-row") <= Rank(a, x.op)
  BY <1>1, FirstStep
<1>3. Rank(a, "remove-machine") = 5 /\ Rank(a, "remove-row") = 6
  BY AdminRanks
<1> QED
  BY <1>2, <1>3 DEF Left, Holds

\* What a step of a process that ends leaves of the commands.
LEMMA EndStep ==
  ASSUME TypeControl, TypeInv', OneKind, OnePerNode, NEW p \in Procs, todo[p] # <<>>,
         Continue(p) \/ Stop(p), target' = target
  PROVE  /\ \A r \in Procs \ {p} : todo'[r] = todo[r]
         /\ Stop(p) => todo'[p] = <<>>
         /\ Continue(p) => todo'[p] = Tail(todo[p])
         /\ \A op : Left(p, op)' => Left(p, op)
         /\ \A op : Continue(p) /\ Head(todo[p]).op # op => (Left(p, op)' <=> Left(p, op))
         /\ \A a : RemovesNode(a)' => RemovesNode(a)
         /\ OnePerNode' /\ OneKind'
<1>1. /\ \A r \in Procs \ {p} : todo'[r] = todo[r]
      /\ Stop(p) => todo'[p] = <<>>
      /\ Continue(p) => todo'[p] = Tail(todo[p])
  BY DEF Continue, Proceed, Stop, Fail, TypeControl
<1>2. Continue(p) => \A x : x \in Elems(todo[p]) <=> x = Head(todo[p]) \/ x \in Elems(todo'[p])
  BY <1>1, LeftAfter
<1>3. \A x : x \in Elems(todo'[p]) => x \in Elems(todo[p])
  BY <1>1, <1>2, EmptyHolds
<1>4. \A op : Continue(p) => (Left(p, op) <=> Head(todo[p]).op = op \/ Left(p, op)')
  BY <1>1, LeftAfter DEF Left
<1>5. \A op : Left(p, op)' => Left(p, op)
  BY <1>3 DEF Left, Holds
<1>6. OneKind'
  BY <1>1, <1>3 DEF OneKind, Procs
<1>7. ASSUME NEW a, RemovesNode(a)' PROVE RemovesNode(a)
  <2>1. CASE a = p
    <3>1. a \in Admins /\ todo'[p] # <<>> /\ Head(todo'[p]).op # "reapply"
      BY <1>7, <2>1 DEF RemovesNode
    <3>2. todo'[p] \in Seq(Steps)
      BY TypePartsNext DEF TypeControl
    <3>3. Head(todo'[p]) \in Elems(todo[p]) /\ Head(todo[p]) \in Elems(todo[p])
      BY <1>3, <3>1, <3>2, HeadIsStep, SomeStep
    <3> QED
      BY <2>1, <3>1, <3>3 DEF OneKind, RemovesNode
  <2>2. CASE a # p
    BY <1>1, <1>7, <2>2 DEF RemovesNode, Procs
  <2> QED
    BY <2>1, <2>2
<1>8. ASSUME NEW n \in Nodes, NEW r \in Procs, Works(r, n)' PROVE Works(r, n)
  BY <1>1, <1>7, <1>8 DEF Works
<1>9. OnePerNode'
  BY <1>8 DEF OnePerNode
<1> QED
  BY <1>1, <1>4, <1>5, <1>6, <1>7, <1>9

\* The seed is alone until its last step.
LEMMA SeedAloneStep ==
  ASSUME TypeControl, TypeInv', OneKind, OnePerNode, SeedAlone, NEW p \in Procs, todo[p] # <<>>,
         Stop(p) \/ (Continue(p) /\ Head(todo[p]).op # "bootstrapped"),
         target' = target, bootstrapped' = bootstrapped,
         ~bootstrapped /\ added = 1 => added' = 1,
         p = Seed /\ ~Stop(p) /\ Head(todo[p]).op = "machine" => added' = 1
  PROVE  /\ \A r \in Procs \ {Seed} : todo'[r] # <<>> => bootstrapped'
         /\ todo'[Seed] # <<>> => ~bootstrapped' /\ (Left(Seed, "machine")' \/ added' = 1)
<1>1. /\ \A r \in Procs \ {p} : todo'[r] = todo[r]
      /\ Stop(p) => todo'[p] = <<>>
      /\ \A op : Continue(p) /\ Head(todo[p]).op # op => (Left(p, op)' <=> Left(p, op))
  BY EndStep
<1>2. \A r \in Procs \ {Seed} : todo'[r] # <<>> => bootstrapped'
  BY <1>1 DEF SeedAlone
<1>3. Seed \in Procs
  BY SeedAssumption DEF Procs
<1>4. ASSUME todo'[Seed] # <<>> PROVE ~bootstrapped' /\ (Left(Seed, "machine")' \/ added' = 1)
  <2>1. todo[Seed] # <<>>
    BY <1>1, <1>3, <1>4
  <2>2. ~bootstrapped /\ (Left(Seed, "machine") \/ added = 1)
    BY <2>1 DEF SeedAlone
  <2>3. p = Seed
    BY <1>3, <2>2 DEF SeedAlone
  <2> QED
    BY <1>1, <1>4, <2>2, <2>3
<1> QED
  BY <1>2, <1>4

\* A node that a completed step reports as removed, or that was removed before.
LEMMA GoneStep ==
  ASSUME LeaveInv, TypeInv', NEW p \in Procs, todo[p] # <<>>, Continue(p) \/ Stop(p),
         target' = target, bootstrapped => bootstrapped',
         \A n \in Nodes : Gone(n) => n \notin rows' /\ NoMachineOf(n)',
         RemovesNode(p) /\ ~Stop(p) /\ todo'[p] = <<>> =>
           target[p] \notin rows' /\ NoMachineOf(target[p])'
  PROVE  \A n \in removed' : Gone(n)'
<1>0. /\ TypeControl /\ TypeNodes /\ OneKind /\ OnePerNode /\ SeedAlone
      /\ \A n \in removed : Gone(n)
  BY TypeParts DEF LeaveInv, NodesInv
<1>1. /\ \A r \in Procs \ {p} : todo'[r] = todo[r]
      /\ Stop(p) => todo'[p] = <<>>
      /\ Continue(p) => todo'[p] = Tail(todo[p])
  BY <1>0, EndStep
<1>2. ASSUME NEW n \in removed PROVE Gone(n)'
  <2>1. n \in Nodes /\ Gone(n)
    BY <1>0 DEF TypeNodes
  <2>2. n # p /\ todo'[n] = <<>>
    BY <1>1, <2>1 DEF Gone, Procs
  <2> QED
    BY <2>1, <2>2 DEF Gone
<1>3. CASE removed' = removed
  BY <1>2, <1>3
<1>4. CASE /\ p \in Admins /\ ~Stop(p) /\ Continue(p) /\ Len(todo[p]) = 1 /\ Head(todo[p]).op # "reapply"
           /\ removed' = removed \union {target[p]}
  <2> DEFINE n == target[p]
  <2>1. RemovesNode(p) /\ n \in Nodes /\ p \notin Nodes
    BY <1>0, <1>4, AdminsAssumption DEF RemovesNode, TypeNodes
  <2>2. todo'[p] = <<>>
    BY <1>0, <1>1, <1>4, LeftAfter
  <2>3. n \notin rows' /\ NoMachineOf(n)'
    BY <1>4, <2>1, <2>2
  <2>4. todo[n] = <<>>
    BY <1>0, <2>1 DEF OnePerNode, Works, Procs
  <2>5. todo'[n] = <<>>
    BY <1>1, <2>1, <2>4 DEF Procs
  <2>6. bootstrapped
    BY <1>0, <2>1, SeedAssumption DEF SeedAlone
  <2>7. Gone(n)'
    BY <2>3, <2>5, <2>6 DEF Gone
  <2> QED
    BY <1>2, <1>4, <2>7
<1>5. removed' = removed \/ (p \in Admins /\ ~Stop(p) /\ Continue(p) /\ Len(todo[p]) = 1
        /\ Head(todo[p]).op # "reapply" /\ removed' = removed \union {target[p]})
  BY DEF Continue, Done, Stop, history, Procs
<1> QED
  BY <1>3, <1>4, <1>5

LEMMA LeaveParts ==
  LeaveInv => /\ TypeControl /\ TypeJuju /\ TypeRows /\ TypeNodes /\ OneKind /\ OnePerNode /\ SeedAlone
              /\ MachinesFit /\ machines \subseteq reported /\ IdsOwn /\ FoundFits /\ Linked
              /\ (\A n \in Nodes : JoinSoFar(n)) /\ (\A a \in Admins : RemoveSoFar(a))
              /\ \A n \in removed : Gone(n)
BY TypeParts DEF LeaveInv, NodesInv, IdsInv

LEMMA LeaveInit == Init => LeaveInv
<1> SUFFICES ASSUME Init PROVE LeaveInv
  OBVIOUS
<1>1. TypeInv
  BY TypeInit
<1>2. Elems(<<>>) = {} /\ \A p \in Procs : todo[p] = <<>>
  BY EmptyHolds DEF Init
<1>3. NodesInv
  BY <1>2, SeedAssumption DEF Init, NodesInv, OnePerNode, OneKind, SeedAlone, Works, RemovesNode,
     Procs
<1>4. machines = {}
  BY DEF Init, machines
<1>5. IdsInv
  BY <1>2, <1>4, BoundAssumption
     DEF Init, IdsInv, MachinesFit, IdsOwn, FoundFits, Linked, MachineIds, Procs
<1>6. (\A n \in Nodes : JoinSoFar(n)) /\ (\A a \in Admins : RemoveSoFar(a)) /\ removed = {}
  BY <1>2 DEF Init, JoinSoFar, RemoveSoFar, RemovesNode, Procs
<1> QED
  BY <1>1, <1>3, <1>5, <1>6 DEF LeaveInv

\* Nothing that the invariant is about changes.
LEMMA LeaveFrame ==
  ASSUME LeaveInv, TypeInv', reported \subseteq reported',
         UNCHANGED <<rowVars, added, host, todo, found, target, removed>>
  PROVE  LeaveInv'
<1>1. machines' = machines /\ UNCHANGED <<rows, machineid, bootstrapped>>
  BY DEF machines, rowVars
<1>2. NodesInv'
  BY <1>1 DEF LeaveInv, NodesInv, OnePerNode, OneKind, SeedAlone, Works, RemovesNode, Left
<1>3. IdsInv'
  BY <1>1 DEF LeaveInv, IdsInv, MachinesFit, IdsOwn, FoundFits, Linked, Left
<1>4. (\A n \in Nodes : JoinSoFar(n)') /\ (\A a \in Admins : RemoveSoFar(a)')
  BY <1>1 DEF LeaveInv, JoinSoFar, Named, RemoveSoFar, RemovesNode, NoMachineOf, Left
<1>5. \A n \in removed' : Gone(n)'
  BY <1>1 DEF LeaveInv, Gone, NoMachineOf
<1> QED
  BY <1>2, <1>3, <1>4, <1>5 DEF LeaveInv

\* The steps that say how far a join or a removal is.
Marks == {"row", "machine", "update", "bootstrapped", "remove-machine", "remove-row"}

\* The parts about commands, after a step that ends and changes no row and no machine.
LEMMA QuietLeave ==
  ASSUME LeaveInv, TypeInv', NEW p \in Procs, todo[p] # <<>>,
         \/ Stop(p) /\ (p \in Nodes \ {Seed} => Head(todo[p]).op \notin {"row", "machine", "update"})
         \/ Continue(p) /\ Head(todo[p]).op \notin Marks,
         UNCHANGED <<rowVars, jujuVars, found, target>>
  PROVE  LeaveInv'
<1>0. /\ TypeControl /\ TypeJuju /\ TypeRows /\ TypeNodes /\ OneKind /\ OnePerNode /\ SeedAlone
      /\ MachinesFit /\ machines \subseteq reported /\ IdsOwn /\ FoundFits /\ Linked
      /\ (\A n \in Nodes : JoinSoFar(n)) /\ (\A a \in Admins : RemoveSoFar(a))
  BY LeaveParts
<1>1. /\ machines' = machines
      /\ UNCHANGED <<rows, machineid, bootstrapped, added, host, reported, found, target>>
      /\ Stop(p) \/ Continue(p)
  BY DEF machines, rowVars, jujuVars
<1>2. /\ \A r \in Procs \ {p} : todo'[r] = todo[r]
      /\ Stop(p) => todo'[p] = <<>>
      /\ \A a : RemovesNode(a)' => RemovesNode(a)
      /\ OnePerNode' /\ OneKind'
  BY <1>0, <1>1, EndStep
<1>3. ~Stop(p) => \A op \in Marks : Left(p, op)' <=> Left(p, op)
  BY <1>0, <1>1, EndStep
<1>4. \A r \in Procs : todo'[r] # <<>> =>
        todo[r] # <<>> /\ \A op \in Marks : Left(r, op)' <=> Left(r, op)
  BY <1>2, <1>3 DEF Left
<1>5. NodesInv'
  <2>1. /\ \A r \in Procs \ {Seed} : todo'[r] # <<>> => bootstrapped'
        /\ todo'[Seed] # <<>> => ~bootstrapped' /\ (Left(Seed, "machine")' \/ added' = 1)
    <3>1. Stop(p) \/ (Continue(p) /\ Head(todo[p]).op # "bootstrapped")
      BY DEF Marks
    <3>2. ~(p = Seed /\ ~Stop(p) /\ Head(todo[p]).op = "machine")
      BY DEF Marks
    <3> QED
      BY <1>0, <1>1, <3>1, <3>2, SeedAloneStep
  <2>2. SeedAlone'
    BY <1>0, <1>1, <2>1 DEF SeedAlone
  <2> QED
    BY <1>2, <2>2 DEF NodesInv
<1>6. IdsInv'
  <2>1. FoundFits'
    BY <1>0, <1>1, <1>4 DEF FoundFits, Procs, Marks
  <2>2. Linked'
    <3> SUFFICES ASSUME NEW m \in machines, NEW n, n = host[m]
                 PROVE  /\ n \in rows
                        /\ machineid[n] = m \/ (n # Seed /\ todo'[n] # <<>> /\ Left(n, "update")')
      BY <1>1 DEF Linked, Left
    <3>1. /\ n \in rows /\ n \in Nodes /\ n \in Procs
          /\ machineid[n] = m \/ (n # Seed /\ todo[n] # <<>> /\ Left(n, "update"))
      BY <1>0 DEF Linked, TypeRows, Procs
    <3>2. CASE machineid[n] = m
      BY <3>1, <3>2
    <3>3. CASE n # Seed /\ todo[n] # <<>> /\ Left(n, "update")
      <4>1. CASE n # p
        BY <1>2, <3>1, <3>3, <4>1 DEF Left
      <4>2. CASE n = p /\ ~Stop(p)
        <5>1. Left(n, "update")'
          BY <1>3, <3>3, <4>2 DEF Marks
        <5>2. todo'[n] # <<>>
          BY <5>1, EmptyHolds DEF Left
        <5> QED
          BY <3>1, <3>3, <5>1, <5>2
      <4>3. CASE n = p /\ Stop(p)
        <5>1. Head(todo[n]).op \notin {"row", "machine", "update"}
          BY <3>1, <3>3, <4>3 DEF Marks
        <5> QED
          BY <1>0, <3>1, <3>3, <5>1, NodeOrder
      <4> QED
        BY <4>1, <4>2, <4>3
    <3> QED
      BY <3>1, <3>2, <3>3
  <2>3. MachinesFit' /\ IdsOwn'
    BY <1>0, <1>1 DEF MachinesFit, IdsOwn
  <2> QED
    BY <1>0, <1>1, <2>1, <2>2, <2>3 DEF IdsInv
<1>7. \A n \in Nodes : JoinSoFar(n)'
  BY <1>0, <1>1, <1>4 DEF JoinSoFar, Named, Procs, Marks
<1>8. \A a \in Admins : RemoveSoFar(a)'
  <2> SUFFICES ASSUME NEW a \in Admins, RemovesNode(a)'
               PROVE  /\ Left(a, "remove-machine")' \/ NoMachineOf(target[a])'
                      /\ Left(a, "remove-row")' \/ target[a] \notin rows
    BY <1>1 DEF RemoveSoFar
  <2>1. RemovesNode(a) /\ todo'[a] # <<>> /\ a \in Procs
    BY <1>2 DEF RemovesNode, Procs
  <2> QED
    BY <1>0, <1>1, <1>4, <2>1 DEF RemoveSoFar, NoMachineOf, Marks
<1>9. \A n \in removed' : Gone(n)'
  <2>1. RemovesNode(p) /\ ~Stop(p) /\ todo'[p] = <<>> =>
          target[p] \notin rows' /\ NoMachineOf(target[p])'
    <3> SUFFICES ASSUME RemovesNode(p), ~Stop(p), todo'[p] = <<>>
                 PROVE  target[p] \notin rows /\ NoMachineOf(target[p])'
      BY <1>1
    <3>1. ~Left(p, "remove-machine") /\ ~Left(p, "remove-row")
      BY <1>3, EmptyHolds DEF Left, Marks
    <3> QED
      BY <1>0, <1>1, <3>1 DEF RemoveSoFar, RemovesNode, NoMachineOf
  <2> QED
    BY <1>0, <1>1, <2>1, GoneStep DEF Gone, NoMachineOf
<1> QED
  BY <1>5, <1>6, <1>7, <1>8, <1>9 DEF LeaveInv

\* A command starts on a node that no other is busy with.
LEMMA NodeIsFree ==
  ASSUME Exclusion # "none", TypeNodes, NEW p \in Procs, NEW n \in Nodes, NEW plan, Begin(p, n, plan)
  PROVE  \A r \in Procs : ~Works(r, n)
<1>1. CASE Exclusion = "all"
  BY <1>1 DEF Begin, Running, Works, RemovesNode, Procs
<1>2. CASE Exclusion = "node"
  <2>1. n \notin Busy
    BY <1>2 DEF Begin
  <2>2. todo[n] = <<>>
    BY <2>1 DEF Busy, Running, Procs
  <2>3. \A a : RemovesNode(a) => a \in Removing
    BY DEF RemovesNode, Removing, Running, Procs
  <2>4. \A a : RemovesNode(a) => target[a] # n
    BY <2>1, <2>3 DEF Busy
  <2> QED
    BY <2>2, <2>4 DEF Works
<1> QED
  BY <1>1, <1>2, ExclusionAssumption

LEMMA BeginLeave ==
  ASSUME Exclusion # "none", LeaveInv, TypeInv', NEW p \in Procs, NEW n, NEW plan, Begin(p, n, plan),
         \A r \in Admins \ {p} : target'[r] = target[r],
         IF p = Seed THEN ~bootstrapped ELSE bootstrapped,
         p \in Nodes => /\ n = p /\ Holds(plan, "row") /\ Holds(plan, "machine")
                        /\ p # Seed => Holds(plan, "update"),
         p \in Admins => \/ \A x \in Elems(plan) : x.op = "reapply"
                         \/ /\ n \in Nodes /\ target'[p] = n
                            /\ \A x \in Elems(plan) : x.op # "reapply"
                            /\ Holds(plan, "remove-machine") /\ Holds(plan, "remove-row"),
         removed' \subseteq removed, p \in Nodes \ {Seed} => p \notin removed'
  PROVE  LeaveInv'
<1>0. /\ TypeControl /\ TypeJuju /\ TypeRows /\ TypeNodes /\ OneKind /\ OnePerNode /\ SeedAlone
      /\ MachinesFit /\ machines \subseteq reported /\ IdsOwn /\ FoundFits /\ Linked
      /\ (\A k \in Nodes : JoinSoFar(k)) /\ (\A a \in Admins : RemoveSoFar(a))
      /\ \A k \in removed : Gone(k)
  BY LeaveParts
<1>1. /\ machines' = machines /\ todo[p] = <<>> /\ todo'[p] = plan
      /\ \A r \in Procs \ {p} : todo'[r] = todo[r]
      /\ UNCHANGED <<rows, machineid, bootstrapped, added, host, reported, found>>
  BY <1>0 DEF Begin, TypeControl, machines, rowVars, jujuVars
<1>2. n \in Nodes => \A r \in Procs : ~Works(r, n)
  BY <1>0, NodeIsFree
<1>3. ASSUME RemovesNode(p)'
      PROVE  /\ p \in Admins /\ n \in Nodes /\ target'[p] = n
             /\ Holds(plan, "remove-machine") /\ Holds(plan, "remove-row")
  <2>1. p \in Admins /\ plan # <<>> /\ Head(plan).op # "reapply"
    BY <1>1, <1>3 DEF RemovesNode
  <2>2. plan \in Seq(Steps)
    BY <1>1, TypePartsNext DEF TypeControl
  <2>3. Head(plan) \in Elems(plan)
    BY <2>1, <2>2, HeadIsStep
  <2> QED
    BY <2>1, <2>3
<1>4. ASSUME NEW k \in Nodes, NEW r \in Procs, Works(r, k)'
      PROVE  IF r = p THEN k = n ELSE Works(r, k)
  <2>1. CASE r = p
    BY <1>1, <1>3, <1>4, <2>1, AdminsAssumption DEF Works
  <2>2. CASE r # p
    BY <1>1, <1>4, <2>2 DEF Works, RemovesNode, Procs
  <2> QED
    BY <2>1, <2>2
<1>5. OnePerNode'
  <2> SUFFICES ASSUME NEW k \in Nodes, NEW q \in Procs, NEW r \in Procs, Works(q, k)', Works(r, k)'
               PROVE  q = r
    BY DEF OnePerNode
  <2>1. (q = p => k = n) /\ (q # p => Works(q, k))
    BY <1>4
  <2>2. (r = p => k = n) /\ (r # p => Works(r, k))
    BY <1>4
  <2> QED
    BY <1>0, <1>2, <2>1, <2>2 DEF OnePerNode
<1>6. OneKind'
  <2>1. p \in Admins => \A x, y \in Elems(plan) : x.op = "reapply" => y.op = "reapply"
    OBVIOUS
  <2> QED
    BY <1>0, <1>1, <2>1 DEF OneKind, Procs
<1>7. SeedAlone'
  <2>1. \A r \in Procs \ {Seed} : todo'[r] # <<>> => bootstrapped'
    BY <1>0, <1>1 DEF SeedAlone
  <2>2. todo'[Seed] # <<>> => ~bootstrapped' /\ (Left(Seed, "machine")' \/ added' = 1)
    BY <1>0, <1>1, SeedAssumption DEF SeedAlone, Left, Procs
  <2> QED
    BY <1>0, <1>1, <2>1, <2>2 DEF SeedAlone
<1>8. IdsInv'
  <2>1. MachinesFit' /\ IdsOwn'
    BY <1>0, <1>1 DEF MachinesFit, IdsOwn
  <2>2. FoundFits'
    BY <1>0, <1>1 DEF FoundFits, Left, Procs
  <2>3. Linked'
    <3> SUFFICES ASSUME NEW m \in machines, NEW k, k = host[m]
                 PROVE  /\ k \in rows
                        /\ machineid[k] = m \/ (k # Seed /\ todo'[k] # <<>> /\ Left(k, "update")')
      BY <1>1 DEF Linked, Left
    <3>1. /\ k \in rows /\ k \in Procs
          /\ machineid[k] = m \/ (k # Seed /\ todo[k] # <<>> /\ Left(k, "update"))
      BY <1>0 DEF Linked, TypeRows, Procs
    <3> QED
      BY <1>1, <3>1 DEF Left
  <2> QED
    BY <1>0, <1>1, <2>1, <2>2, <2>3 DEF IdsInv
<1>9. \A k \in Nodes : JoinSoFar(k)'
  <2> SUFFICES ASSUME NEW k \in Nodes, todo'[k] # <<>> PROVE JoinSoFar(k)'
    BY DEF JoinSoFar
  <2>1. CASE k = p
    BY <1>1, <2>1 DEF JoinSoFar, Named, Left
  <2>2. CASE k # p
    BY <1>0, <1>1, <2>2 DEF JoinSoFar, Named, Left, Procs
  <2> QED
    BY <2>1, <2>2
<1>10. \A a \in Admins : RemoveSoFar(a)'
  <2> SUFFICES ASSUME NEW a \in Admins, RemovesNode(a)' PROVE RemoveSoFar(a)'
    BY DEF RemoveSoFar
  <2>1. CASE a = p
    BY <1>1, <1>3, <2>1 DEF RemoveSoFar, Left
  <2>2. CASE a # p
    <3>1. todo'[a] = todo[a] /\ target'[a] = target[a] /\ RemovesNode(a)
      BY <1>1, <2>2 DEF Procs, RemovesNode
    <3> QED
      BY <1>0, <1>1, <3>1 DEF RemoveSoFar, NoMachineOf, Left
  <2> QED
    BY <2>1, <2>2
<1>11. \A k \in removed' : Gone(k)'
  <2> SUFFICES ASSUME NEW k \in removed' PROVE Gone(k)'
    OBVIOUS
  <2>1. Gone(k) /\ k \in Nodes
    BY <1>0 DEF TypeNodes
  <2>2. k # p
    BY <2>1 DEF Gone
  <2>3. todo'[k] = <<>>
    BY <1>1, <2>1, <2>2 DEF Gone, Procs
  <2> QED
    BY <1>1, <2>1, <2>3 DEF Gone, NoMachineOf
<1> QED
  BY <1>5, <1>6, <1>7, <1>8, <1>9, <1>10, <1>11 DEF LeaveInv, NodesInv

\* A step of a join is about its own node only, which no session removes.
LEMMA NodeLeave ==
  ASSUME LeaveInv, TypeInv', NEW n \in Nodes, todo[n] # <<>>, Continue(n) \/ Stop(n),
         target' = target, bootstrapped => bootstrapped',
         \A k \in Nodes \ {n} : (k \in rows' <=> k \in rows) /\ found'[k] = found[k],
         \A k \in Nodes \ {n} : (NoMachineOf(k) => NoMachineOf(k)') /\ (Named(k) => Named(k)')
  PROVE  /\ \A k \in Nodes \ {n} : todo'[k] = todo[k] /\ JoinSoFar(k)'
         /\ \A a \in Admins : RemoveSoFar(a)'
         /\ \A k \in removed' : Gone(k)'
         /\ OnePerNode' /\ OneKind'
         /\ \A op : Left(n, op)' => Left(n, op)
         /\ \A op : Continue(n) /\ Head(todo[n]).op # op => (Left(n, op)' <=> Left(n, op))
         /\ Stop(n) => todo'[n] = <<>>
<1>0. /\ TypeControl /\ TypeNodes /\ OneKind /\ OnePerNode
      /\ (\A k \in Nodes : JoinSoFar(k)) /\ (\A a \in Admins : RemoveSoFar(a))
      /\ n \in Procs /\ n \notin Admins
  BY LeaveParts, AdminsAssumption DEF Procs
<1>1. /\ \A r \in Procs \ {n} : todo'[r] = todo[r]
      /\ Stop(n) => todo'[n] = <<>>
      /\ \A a : RemovesNode(a)' => RemovesNode(a)
      /\ OnePerNode' /\ OneKind'
      /\ \A op : Left(n, op)' => Left(n, op)
      /\ \A op : Continue(n) /\ Head(todo[n]).op # op => (Left(n, op)' <=> Left(n, op))
  BY <1>0, EndStep
<1>2. \A k \in Nodes \ {n} : todo'[k] = todo[k] /\ JoinSoFar(k)'
  BY <1>0, <1>1 DEF JoinSoFar, Left, Procs
<1>3. ASSUME NEW a \in Admins, RemovesNode(a)' PROVE RemoveSoFar(a)'
  <2>1. RemovesNode(a) /\ a # n /\ a \in Procs /\ target[a] \in Nodes /\ todo'[a] = todo[a]
    BY <1>0, <1>1, <1>3 DEF Procs, TypeNodes
  <2>2. target[a] # n
    <3>1. Works(a, target[a]) /\ Works(n, n)
      BY <2>1 DEF Works
    <3> QED
      BY <1>0, <2>1, <3>1 DEF OnePerNode
  <2>3. (Left(a, "remove-machine") \/ NoMachineOf(target[a]))
        /\ (Left(a, "remove-row") \/ target[a] \notin rows)
    BY <1>0, <2>1 DEF RemoveSoFar
  <2> DEFINE k == target[a]
  <2>4. k \in Nodes \ {n} /\ target'[a] = k
    BY <2>1, <2>2
  <2>5. (k \in rows' <=> k \in rows) /\ (NoMachineOf(k) => \A m \in machines' : host'[m] # k)
    BY <2>4 DEF NoMachineOf
  <2> QED
    BY <2>1, <2>3, <2>4, <2>5 DEF RemoveSoFar, Left, NoMachineOf
<1>4. \A k \in removed' : Gone(k)'
  <2>1. \A k \in Nodes : Gone(k) => k # n
    BY DEF Gone
  <2>2. \A k \in Nodes : Gone(k) => k \notin rows' /\ NoMachineOf(k)'
    BY <2>1 DEF Gone
  <2>3. ~RemovesNode(n)
    BY <1>0 DEF RemovesNode
  <2> QED
    BY <1>0, <2>2, <2>3, GoneStep
<1> QED
  BY <1>1, <1>2, <1>3, <1>4 DEF RemoveSoFar

LEMMA AddRowLeave ==
  ASSUME LeaveInv, TypeInv', NEW n \in Nodes, AddRow(n)
  PROVE  LeaveInv'
<1>0. /\ TypeControl /\ TypeJuju /\ TypeRows /\ TypeNodes /\ OneKind /\ OnePerNode /\ SeedAlone
      /\ MachinesFit /\ machines \subseteq reported /\ IdsOwn /\ FoundFits /\ Linked
      /\ JoinSoFar(n)
      /\ n \in Procs /\ todo[n] # <<>> /\ Head(todo[n]).op = "row" /\ Continue(n)
      /\ UNCHANGED <<bootstrapped, added, host, reported, found, target>>
      /\ machines' = machines /\ rows' = rows \union {n}
  BY LeaveParts DEF AddRow, At, Procs, jujuVars, machines
<1>1. /\ \A k \in Nodes \ {n} : machineid'[k] = machineid[k]
      /\ n \in rows => machineid'[n] = machineid[n]
      /\ n \notin rows => machineid'[n] = IF n = Seed THEN 0 ELSE NoMachine
  BY <1>0 DEF AddRow, TypeRows
<1>2. /\ \A k \in Nodes \ {n} : todo'[k] = todo[k] /\ JoinSoFar(k)'
      /\ \A a \in Admins : RemoveSoFar(a)'
      /\ \A k \in removed' : Gone(k)'
      /\ OnePerNode' /\ OneKind'
      /\ \A op : op # "row" => (Left(n, op)' <=> Left(n, op))
  BY <1>0, <1>1, NodeLeave DEF NoMachineOf, Named
<1>3. JoinSoFar(n)'
  <2>1. Named(n) => Named(n)'
    BY <1>0, <1>1 DEF Named, Linked
  <2>2. todo'[n] # <<>> => todo[n] # <<>> /\ n \in rows'
    BY <1>0
  <2> QED
    BY <1>0, <1>2, <2>1, <2>2 DEF JoinSoFar
<1>4. ~bootstrapped => n = Seed
  BY <1>0 DEF SeedAlone
<1>5. n = Seed => ~bootstrapped
  BY <1>0 DEF SeedAlone
<1>6. SeedAlone'
  <2>1. /\ \A r \in Procs \ {Seed} : todo'[r] # <<>> => bootstrapped'
        /\ todo'[Seed] # <<>> => ~bootstrapped' /\ (Left(Seed, "machine")' \/ added' = 1)
    BY <1>0, SeedAloneStep
  <2>2. ~bootstrapped => machineid'[Seed] = 0
    BY <1>0, <1>1, <1>4 DEF SeedAlone
  <2> QED
    BY <1>0, <2>1, <2>2 DEF SeedAlone
<1>7. MachinesFit' /\ FoundFits'
  BY <1>0, <1>2 DEF MachinesFit, FoundFits, Left
<1>8. IdsOwn'
  <2>1. n = Seed => host[0] \in {Seed, None}
    <3>1. 0 \in MachineIds
      BY BoundAssumption DEF MachineIds
    <3>2. added = 0 => host[0] = None
      BY <1>0, <3>1 DEF MachinesFit
    <3> QED
      BY <1>0, <1>5, <3>2 DEF SeedAlone
  <2> QED
    BY <1>0, <1>1, <1>5, <2>1 DEF IdsOwn
<1>9. Linked'
  <2> SUFFICES ASSUME NEW m \in machines, NEW k, k = host[m]
               PROVE  /\ k \in rows'
                      /\ machineid'[k] = m \/ (k # Seed /\ todo'[k] # <<>> /\ Left(k, "update")')
    BY <1>0 DEF Linked, Left
  <2>1. /\ k \in rows /\ k \in Nodes
        /\ machineid[k] = m \/ (k # Seed /\ todo[k] # <<>> /\ Left(k, "update"))
    BY <1>0 DEF Linked, TypeRows
  <2>2. Left(k, "update") => Left(k, "update")'
    BY <1>2, <2>1 DEF Left
  <2>3. Left(k, "update")' => todo'[k] # <<>>
    BY EmptyHolds DEF Left
  <2> QED
    BY <1>0, <1>1, <2>1, <2>2, <2>3
<1> QED
  BY <1>0, <1>2, <1>3, <1>6, <1>7, <1>8, <1>9 DEF LeaveInv, NodesInv, IdsInv

LEMMA UpdateNodeLeave ==
  ASSUME LeaveInv, TypeInv', NEW n \in Nodes, UpdateNode(n)
  PROVE  LeaveInv'
<1>0. /\ TypeControl /\ TypeJuju /\ TypeRows /\ TypeNodes /\ OneKind /\ OnePerNode /\ SeedAlone
      /\ MachinesFit /\ machines \subseteq reported /\ IdsOwn /\ FoundFits /\ Linked
      /\ JoinSoFar(n)
      /\ n \in Procs /\ todo[n] # <<>> /\ Head(todo[n]).op = "update"
      /\ UNCHANGED <<rows, bootstrapped, added, host, reported, target>>
      /\ machines' = machines
  BY LeaveParts DEF UpdateNode, At, Procs, jujuVars, machines
<1>1. ~Left(n, "row") /\ ~Left(n, "machine") /\ Left(n, "update")
  BY <1>0, NodeOrder, SomeStep DEF Left, Holds
<1>2. n \in rows /\ Continue(n) /\ (n # Seed => found[n] # NoMachine \/ Named(n))
  BY <1>0, <1>1 DEF JoinSoFar, UpdateNode
<1>3. /\ \A k \in Nodes \ {n} : machineid'[k] = machineid[k] /\ found'[k] = found[k]
      /\ found[n] # NoMachine => machineid'[n] = found[n]
      /\ found[n] = NoMachine => machineid'[n] = machineid[n]
      /\ found'[n] = NoMachine
  BY <1>0, <1>2 DEF UpdateNode, TypeRows, TypeNodes
<1>4. found[n] # NoMachine => found[n] \in machines /\ host[found[n]] = n /\ found[n] < added
  <2> SUFFICES ASSUME found[n] # NoMachine
               PROVE  found[n] \in machines /\ host[found[n]] = n /\ found[n] < added
    OBVIOUS
  <2>1. found[n] \in MachineIds /\ host[found[n]] = n /\ host[found[n]] # None
    BY <1>0, <1>1, SeedAssumption DEF FoundFits, TypeNodes
  <2> QED
    BY <1>0, <2>1 DEF MachinesFit, machines
<1>5. \A m \in machines : host[m] = n => machineid'[n] = m \/ n = Seed
  <2> SUFFICES ASSUME NEW m \in machines, host[m] = n, n # Seed PROVE machineid'[n] = m
    OBVIOUS
  <2>1. CASE found[n] # NoMachine
    BY <1>0, <1>3, <1>4, <2>1 DEF MachinesFit
  <2>2. CASE found[n] = NoMachine
    BY <1>0, <1>2, <1>3, <2>2 DEF MachinesFit, Named
  <2> QED
    BY <2>1, <2>2
<1>6. \A m \in machines : host[m] = n /\ n = Seed => machineid'[n] = m
  <2> SUFFICES ASSUME NEW m \in machines, host[m] = n, n = Seed PROVE machineid'[n] = m
    OBVIOUS
  <2>1. machineid[n] = m
    BY <1>0 DEF Linked
  <2> QED
    BY <1>0, <1>3, <1>4, <2>1 DEF MachinesFit
<1>7. n # Seed => Named(n)'
  BY <1>0, <1>2, <1>3, <1>4 DEF Named
<1>8. /\ \A k \in Nodes \ {n} : todo'[k] = todo[k] /\ JoinSoFar(k)'
      /\ \A a \in Admins : RemoveSoFar(a)'
      /\ \A k \in removed' : Gone(k)'
      /\ OnePerNode' /\ OneKind'
      /\ \A op : Left(n, op)' => Left(n, op)
      /\ \A op : op # "update" => (Left(n, op)' <=> Left(n, op))
  BY <1>0, <1>2, <1>3, NodeLeave DEF NoMachineOf, Named
<1>9. JoinSoFar(n)'
  BY <1>0, <1>1, <1>2, <1>7, <1>8 DEF JoinSoFar
<1>10. SeedAlone'
  <2>1. /\ \A r \in Procs \ {Seed} : todo'[r] # <<>> => bootstrapped'
        /\ todo'[Seed] # <<>> => ~bootstrapped' /\ (Left(Seed, "machine")' \/ added' = 1)
    BY <1>0, <1>2, SeedAloneStep
  <2>2. ~bootstrapped /\ Seed \in rows => machineid'[Seed] = 0
    <3>1. Seed # n => machineid'[Seed] = machineid[Seed]
      BY <1>3, SeedAssumption
    <3>2. ~bootstrapped /\ found[n] # NoMachine => found[n] = 0
      BY <1>0, <1>4 DEF SeedAlone, machines, MachineIds
    <3> QED
      BY <1>0, <1>3, <3>1, <3>2 DEF SeedAlone
  <2> QED
    BY <1>0, <2>1, <2>2 DEF SeedAlone
<1>11. MachinesFit' /\ FoundFits' /\ IdsOwn'
  <2>1. FoundFits'
    BY <1>0, <1>3, <1>8 DEF FoundFits, Left
  <2>2. IdsOwn'
    BY <1>0, <1>3, <1>4 DEF IdsOwn
  <2> QED
    BY <1>0, <2>1, <2>2 DEF MachinesFit
<1>12. Linked'
  <2> SUFFICES ASSUME NEW m \in machines, NEW k, k = host[m]
               PROVE  /\ k \in rows
                      /\ machineid'[k] = m \/ (k # Seed /\ todo'[k] # <<>> /\ Left(k, "update")')
    BY <1>0 DEF Linked, Left
  <2>1. /\ k \in rows /\ k \in Nodes
        /\ machineid[k] = m \/ (k # Seed /\ todo[k] # <<>> /\ Left(k, "update"))
    BY <1>0 DEF Linked, TypeRows
  <2>2. CASE k = n
    BY <1>5, <1>6, <2>1, <2>2
  <2>3. CASE k # n
    BY <1>3, <1>8, <2>1, <2>3 DEF Left
  <2> QED
    BY <2>2, <2>3
<1> QED
  BY <1>0, <1>8, <1>9, <1>10, <1>11, <1>12 DEF LeaveInv, NodesInv, IdsInv

LEMMA AddJujuMachineLeave ==
  ASSUME ~LateReport, LeaveInv, TypeInv', NEW n \in Nodes, AddJujuMachine(n)
  PROVE  LeaveInv'
<1>0. /\ TypeControl /\ TypeJuju /\ TypeRows /\ TypeNodes /\ OneKind /\ OnePerNode /\ SeedAlone
      /\ MachinesFit /\ machines \subseteq reported /\ IdsOwn /\ FoundFits /\ Linked
      /\ JoinSoFar(n) /\ None \notin Nodes
      /\ n \in Procs /\ todo[n] # <<>> /\ Head(todo[n]).op = "machine"
      /\ UNCHANGED <<rows, machineid, bootstrapped, target>>
  BY LeaveParts, SeedAssumption DEF AddJujuMachine, At, Procs, rowVars
<1>1. n \in rows /\ (n # Seed => Left(n, "update")) /\ Left(n, "machine")
  BY <1>0, NodeOrder, SomeStep DEF JoinSoFar, Left, Holds
\* The machine is there already, or it is new.
<1>2. /\ Continue(n)
      /\ \/ /\ \E m \in machines : host[m] = n /\ found' = [found EXCEPT ![n] = m]
            /\ UNCHANGED jujuVars
         \/ /\ NoMachineOf(n) /\ added < MaxMachines
            /\ added' = added + 1 /\ host' = [host EXCEPT ![added] = n]
            /\ reported' = reported \union {added} /\ found' = [found EXCEPT ![n] = added]
  BY <1>0 DEF AddJujuMachine, NoMachineOf
<1>3. /\ \A k \in Nodes \ {n} : found'[k] = found[k]
      /\ machines \subseteq machines' /\ \A m \in machines : host'[m] = host[m]
      /\ \A m \in machines' \ machines : m = added /\ host'[m] = n /\ NoMachineOf(n) /\ added' = added + 1
      /\ machines' \subseteq reported'
      /\ added' \in {added, added + 1} /\ added \in Int
      /\ found'[n] \in machines' /\ host'[found'[n]] = n
      /\ \A m \in MachineIds : host[m] # None => m < added
      /\ \A m \in MachineIds : host'[m] # None => m < added'
  <2>1. CASE UNCHANGED jujuVars
    BY <1>0, <1>2, <2>1 DEF jujuVars, machines, TypeNodes, TypeJuju, MachinesFit
  <2>2. CASE /\ NoMachineOf(n) /\ added < MaxMachines
             /\ added' = added + 1 /\ host' = [host EXCEPT ![added] = n]
             /\ reported' = reported \union {added} /\ found' = [found EXCEPT ![n] = added]
    <3>1. added \in MachineIds /\ added \in Int /\ host[added] = None
      BY <1>0, <2>2, BoundAssumption DEF TypeJuju, MachineIds, MachinesFit
    <3>2. /\ host'[added] = n /\ \A m \in MachineIds \ {added} : host'[m] = host[m]
          /\ found'[n] = added /\ \A k \in Nodes \ {n} : found'[k] = found[k]
      BY <1>0, <2>2, <3>1 DEF TypeJuju, TypeNodes
    <3>3. machines' = machines \union {added} /\ added \notin machines
      BY <1>0, <3>1, <3>2 DEF machines
    <3>4. \A m \in MachineIds : host'[m] # None => m < added'
      BY <1>0, <2>2, <3>1, <3>2 DEF MachinesFit, MachineIds
    <3> QED
      BY <1>0, <2>2, <3>1, <3>2, <3>3, <3>4 DEF MachinesFit, machines
  <2> QED
    BY <1>2, <2>1, <2>2
<1>4. /\ \A k \in Nodes \ {n} : todo'[k] = todo[k] /\ JoinSoFar(k)'
      /\ \A a \in Admins : RemoveSoFar(a)'
      /\ \A k \in removed' : Gone(k)'
      /\ OnePerNode' /\ OneKind'
      /\ \A op : Left(n, op)' => Left(n, op)
      /\ \A op : op # "machine" => (Left(n, op)' <=> Left(n, op))
  <2>1. \A k \in Nodes \ {n} : (NoMachineOf(k) => NoMachineOf(k)') /\ (Named(k) => Named(k)')
    BY <1>0, <1>3 DEF NoMachineOf, Named
  <2> QED
    BY <1>0, <1>2, <1>3, <2>1, NodeLeave
<1>5. JoinSoFar(n)'
  <2>1. found'[n] # NoMachine
    BY <1>3 DEF machines, MachineIds, NoMachine
  <2> QED
    BY <1>0, <1>1, <1>4, <2>1 DEF JoinSoFar
<1>6. MachinesFit' /\ machines' \subseteq reported' /\ FoundFits'
  <2>1. \A m, k \in machines' : host'[m] = host'[k] => m = k
    BY <1>0, <1>3 DEF MachinesFit, NoMachineOf
  <2>2. FoundFits'
    <3> SUFFICES ASSUME NEW k \in Nodes, todo'[k] # <<>>, ~Left(k, "machine")', found'[k] # NoMachine
                 PROVE  host'[found'[k]] = k
      BY DEF FoundFits
    <3>1. CASE k = n
      BY <1>3, <3>1
    <3>2. CASE k # n
      <4>1. host[found[k]] = k /\ found'[k] = found[k] /\ found[k] \in MachineIds
        BY <1>0, <1>3, <1>4, <3>2 DEF FoundFits, Left, TypeNodes
      <4> QED
        BY <1>0, <1>3, <4>1 DEF machines
    <3> QED
      BY <3>1, <3>2
  <2> QED
    BY <1>3, <2>1, <2>2 DEF MachinesFit
<1>7. n = Seed => added' = 1 /\ ~bootstrapped
  <2> SUFFICES ASSUME n = Seed PROVE added' = 1 /\ ~bootstrapped
    OBVIOUS
  <2>1. ~bootstrapped /\ (added = 0 \/ (added = 1 /\ host[0] = Seed))
    BY <1>0 DEF SeedAlone
  <2>2. 0 \in MachineIds
    BY BoundAssumption DEF MachineIds
  <2>3. added = 0 => machines = {}
    BY <1>0, <1>3 DEF machines, MachineIds
  <2>4. added = 0 => added' = 1
    BY <1>2, <2>3
  <2>5. added = 1 => added' = 1
    BY <1>0, <1>2, <2>1, <2>2 DEF machines, NoMachineOf, jujuVars
  <2> QED
    BY <2>1, <2>4, <2>5
<1>8. ~bootstrapped => n = Seed
  BY <1>0 DEF SeedAlone
<1>9. SeedAlone'
  <2>1. /\ \A r \in Procs \ {Seed} : todo'[r] # <<>> => bootstrapped'
        /\ todo'[Seed] # <<>> => ~bootstrapped' /\ (Left(Seed, "machine")' \/ added' = 1)
    BY <1>0, <1>2, <1>7, <1>8, SeedAloneStep
  <2>2. ~bootstrapped => host'[0] = Seed
    <3> SUFFICES ASSUME ~bootstrapped PROVE host'[0] = Seed
      OBVIOUS
    <3>1. 0 \in MachineIds /\ n = Seed
      BY <1>8, BoundAssumption DEF MachineIds
    <3>2. CASE added = 0
      BY <1>0, <1>2, <1>7, <3>1, <3>2 DEF jujuVars, TypeJuju
    <3>3. CASE added = 1 /\ host[0] = Seed
      BY <1>0, <1>3, <3>1, <3>3 DEF machines
    <3> QED
      BY <1>0, <3>2, <3>3 DEF SeedAlone
  <2> QED
    BY <1>0, <1>7, <1>8, <2>1, <2>2 DEF SeedAlone
<1>10. IdsOwn'
  <2> SUFFICES ASSUME NEW k \in Nodes, machineid[k] # NoMachine
               PROVE  /\ machineid[k] < added' \/ (k = Seed /\ machineid[k] = 0 /\ ~bootstrapped)
                      /\ host'[machineid[k]] \in {k, None}
    BY <1>0 DEF IdsOwn
  <2>1. /\ machineid[k] < added \/ (k = Seed /\ machineid[k] = 0 /\ ~bootstrapped)
        /\ host[machineid[k]] \in {k, None} /\ machineid[k] \in MachineIds
    BY <1>0 DEF IdsOwn, TypeRows
  <2>2. machineid[k] \in Int
    BY <2>1 DEF MachineIds
  <2>3. machineid[k] < added \/ k = Seed => host'[machineid[k]] \in {k, None}
    <3>1. CASE machineid[k] < added
      BY <1>0, <1>3, <2>1, <2>2, <3>1 DEF machines
    <3>2. CASE k = Seed /\ ~bootstrapped
      BY <1>3, <1>8, <2>1, <3>2 DEF machines
    <3> QED
      BY <2>1, <3>1, <3>2
  <2> QED
    BY <1>3, <2>1, <2>2, <2>3
<1>11. Linked'
  <2> SUFFICES ASSUME NEW m \in machines', NEW k, k = host'[m]
               PROVE  /\ k \in rows
                      /\ machineid[k] = m \/ (k # Seed /\ todo'[k] # <<>> /\ Left(k, "update")')
    BY <1>0 DEF Linked, Left
  <2>1. CASE m \in machines
    <3>1. /\ k = host[m] /\ k \in rows /\ k \in Nodes
          /\ machineid[k] = m \/ (k # Seed /\ todo[k] # <<>> /\ Left(k, "update"))
      BY <1>0, <1>3, <2>1 DEF Linked, TypeRows
    <3>2. Left(k, "update") => Left(k, "update")'
      BY <1>4, <3>1 DEF Left
    <3>3. Left(k, "update")' => todo'[k] # <<>>
      BY EmptyHolds DEF Left
    <3> QED
      BY <3>1, <3>2, <3>3
  <2>2. CASE m \notin machines
    <3>1. m = added /\ k = n /\ added' = added + 1
      BY <1>3, <2>2
    <3>2. CASE n = Seed
      <4>1. machineid[Seed] = 0 /\ added = 0
        BY <1>0, <1>1, <1>3, <1>7, <3>1, <3>2 DEF SeedAlone
      <4> QED
        BY <1>1, <3>1, <3>2, <4>1
    <3>3. CASE n # Seed
      <4>1. Left(n, "update")'
        BY <1>1, <1>4, <3>3
      <4>2. todo'[n] # <<>>
        BY <4>1, EmptyHolds DEF Left
      <4> QED
        BY <1>1, <3>1, <3>3, <4>1, <4>2
    <3> QED
      BY <3>2, <3>3
  <2> QED
    BY <2>1, <2>2
<1> QED
  BY <1>0, <1>4, <1>5, <1>6, <1>9, <1>10, <1>11 DEF LeaveInv, NodesInv, IdsInv

LEMMA SetBootstrappedLeave ==
  ASSUME LeaveInv, TypeInv', NEW n \in Nodes, SetBootstrapped(n)
  PROVE  LeaveInv'
<1>0. /\ TypeControl /\ TypeJuju /\ TypeRows /\ TypeNodes /\ OneKind /\ OnePerNode /\ SeedAlone
      /\ MachinesFit /\ machines \subseteq reported /\ IdsOwn /\ FoundFits /\ Linked
      /\ JoinSoFar(n)
      /\ n \in Procs /\ todo[n] # <<>> /\ Head(todo[n]).op = "bootstrapped" /\ Continue(n)
      /\ UNCHANGED <<rows, machineid, added, host, reported, found, target>>
      /\ bootstrapped' = TRUE /\ machines' = machines
  BY LeaveParts DEF SetBootstrapped, At, Procs, jujuVars, machines
<1>1. Tail(todo[n]) = <<>> /\ ~Left(n, "machine") /\ ~Left(n, "update")
  BY <1>0, NodeOrder
<1>2. /\ \A k \in Nodes \ {n} : todo'[k] = todo[k] /\ JoinSoFar(k)'
      /\ \A a \in Admins : RemoveSoFar(a)'
      /\ \A k \in removed' : Gone(k)'
      /\ OnePerNode' /\ OneKind'
  BY <1>0, NodeLeave DEF NoMachineOf, Named
<1>3. todo'[n] = <<>>
  BY <1>0, <1>1, EndStep
<1>4. JoinSoFar(n)'
  BY <1>3 DEF JoinSoFar
<1>5. todo'[Seed] = <<>>
  <2>1. CASE n = Seed
    BY <1>3, <2>1
  <2>2. CASE n # Seed
    BY <1>0, <1>2, <2>2, SeedAssumption DEF SeedAlone
  <2> QED
    BY <2>1, <2>2
<1>6. SeedAlone'
  BY <1>0, <1>5 DEF SeedAlone
<1>7. MachinesFit' /\ FoundFits'
  <2>1. FoundFits'
    BY <1>0, <1>2, <1>3 DEF FoundFits, Left
  <2> QED
    BY <1>0, <2>1 DEF MachinesFit
<1>8. IdsOwn'
  <2>1. ~bootstrapped => n = Seed /\ added = 1
    BY <1>0, <1>1 DEF SeedAlone
  <2> QED
    BY <1>0, <2>1 DEF IdsOwn
<1>9. Linked'
  <2> SUFFICES ASSUME NEW m \in machines, NEW k, k = host[m]
               PROVE  /\ k \in rows
                      /\ machineid[k] = m \/ (k # Seed /\ todo'[k] # <<>> /\ Left(k, "update")')
    BY <1>0 DEF Linked, Left
  <2>1. /\ k \in rows /\ k \in Nodes
        /\ machineid[k] = m \/ (k # Seed /\ todo[k] # <<>> /\ Left(k, "update"))
    BY <1>0 DEF Linked, TypeRows
  <2> QED
    BY <1>1, <1>2, <2>1 DEF Left
<1> QED
  BY <1>0, <1>2, <1>4, <1>6, <1>7, <1>8, <1>9 DEF LeaveInv, NodesInv, IdsInv

\* A step of a removal is about its target only, which no node's command adds.
LEMMA AdminLeave ==
  ASSUME LeaveInv, TypeInv', NEW a \in Admins, todo[a] # <<>>, Continue(a),
         Head(todo[a]).op \in {"remove-machine", "remove-row"},
         UNCHANGED <<target, found, bootstrapped, added>>,
         rows' \subseteq rows, machines' \subseteq machines,
         \A m \in MachineIds : host'[m] \in {host[m], None},
         \A k \in Nodes \ {target[a]} :
           /\ k \in rows => k \in rows'
           /\ machineid'[k] = machineid[k]
           /\ \A m \in MachineIds : host[m] = k => host'[m] = k,
         machineid'[target[a]] \in {machineid[target[a]], NoMachine},
         Left(a, "remove-machine")' \/ NoMachineOf(target[a])',
         Left(a, "remove-row")' \/ target[a] \notin rows',
         Linked'
  PROVE  machines' \subseteq reported' => LeaveInv'
<1> DEFINE n == target[a]
<1>0. /\ TypeControl /\ TypeJuju /\ TypeRows /\ TypeNodes /\ OneKind /\ OnePerNode /\ SeedAlone
      /\ MachinesFit /\ IdsOwn /\ FoundFits
      /\ (\A k \in Nodes : JoinSoFar(k)) /\ (\A b \in Admins : RemoveSoFar(b))
      /\ a \in Procs /\ a \notin Nodes /\ n \in Nodes /\ RemovesNode(a) /\ None \notin Nodes
  BY LeaveParts, AdminsAssumption, SeedAssumption DEF Procs, TypeNodes, RemovesNode
<1>1. /\ \A r \in Procs \ {a} : todo'[r] = todo[r]
      /\ \A b : RemovesNode(b)' => RemovesNode(b)
      /\ OnePerNode' /\ OneKind'
  BY <1>0, EndStep
<1>2. /\ \A r \in Procs \ {a} : ~Works(r, n)
      /\ todo[n] = <<>> /\ todo'[n] = <<>>
  BY <1>0, <1>1 DEF OnePerNode, Works, Procs
<1>3. bootstrapped
  BY <1>0, SeedAssumption DEF SeedAlone
<1>4. \A k \in Nodes : NoMachineOf(k) => NoMachineOf(k)'
  BY <1>0 DEF NoMachineOf, machines
<1>5. \A k \in Nodes \ {n} : Named(k) => Named(k)'
  BY <1>0 DEF Named, machines
<1>6. \A k \in Nodes : JoinSoFar(k)'
  <2> SUFFICES ASSUME NEW k \in Nodes, todo'[k] # <<>> PROVE JoinSoFar(k)'
    BY DEF JoinSoFar
  <2>1. k # n /\ todo'[k] = todo[k] /\ JoinSoFar(k)
    BY <1>0, <1>1, <1>2 DEF Procs
  <2> QED
    BY <1>5, <2>1 DEF JoinSoFar, Left
<1>7. \A b \in Admins : RemoveSoFar(b)'
  <2> SUFFICES ASSUME NEW b \in Admins, RemovesNode(b)' PROVE RemoveSoFar(b)'
    BY DEF RemoveSoFar
  <2>1. CASE b = a
    BY <2>1 DEF RemoveSoFar
  <2>2. CASE b # a
    <3>1. RemoveSoFar(b) /\ RemovesNode(b) /\ todo'[b] = todo[b] /\ target[b] \in Nodes
      BY <1>0, <1>1, <2>2 DEF Procs, TypeNodes
    <3> DEFINE k == target[b]
    <3>2. k \in Nodes /\ target'[b] = k /\ (NoMachineOf(k) => \A m \in machines' : host'[m] # k)
      BY <1>4, <3>1 DEF NoMachineOf
    <3> QED
      BY <3>1, <3>2 DEF RemoveSoFar, NoMachineOf, Left
  <2> QED
    BY <2>1, <2>2
<1>8. \A k \in removed' : Gone(k)'
  <2>1. \A k \in Nodes : Gone(k) => k \notin rows' /\ NoMachineOf(k)'
    BY <1>4 DEF Gone
  <2>2. todo'[a] = <<>> => n \notin rows' /\ NoMachineOf(n)'
    BY EmptyHolds DEF Left
  <2> QED
    BY <1>0, <2>1, <2>2, GoneStep
<1>9. MachinesFit' /\ IdsOwn'
  <2>1. \A m \in machines' : m \in machines /\ host'[m] = host[m]
    BY DEF machines
  <2>2. MachinesFit'
    BY <1>0, <2>1 DEF MachinesFit, machines
  <2>3. \A k \in Nodes : machineid'[k] # NoMachine =>
          machineid'[k] = machineid[k] /\ machineid[k] \in MachineIds
    BY <1>0 DEF TypeRows
  <2>4. IdsOwn'
    BY <1>0, <2>3 DEF IdsOwn
  <2> QED
    BY <2>2, <2>4
<1>10. FoundFits'
  <2> SUFFICES ASSUME NEW k \in Nodes, todo'[k] # <<>>, ~Left(k, "machine")', found[k] # NoMachine
               PROVE  host'[found[k]] = k
    BY DEF FoundFits
  <2>1. k # n /\ todo'[k] = todo[k] /\ found[k] \in MachineIds
    BY <1>0, <1>1, <1>2 DEF Procs, TypeNodes
  <2> QED
    BY <1>0, <2>1 DEF FoundFits, Left
<1>11. SeedAlone'
  BY <1>0, <1>1, <1>3, SeedAssumption DEF SeedAlone, Procs
<1> QED
  BY <1>1, <1>6, <1>7, <1>8, <1>9, <1>10, <1>11 DEF LeaveInv, NodesInv, IdsInv

LEMMA RemoveJujuMachineLeave ==
  ASSUME LeaveInv, TypeInv', NEW a \in Admins, RemoveJujuMachine(a)
  PROVE  LeaveInv'
<1> DEFINE n == target[a]
           m0 == machineid[n]
<1>0. /\ TypeControl /\ TypeJuju /\ TypeRows /\ TypeNodes /\ OneKind /\ OnePerNode /\ SeedAlone
      /\ MachinesFit /\ machines \subseteq reported /\ IdsOwn /\ Linked
      /\ a \in Procs /\ a \notin Nodes /\ n \in Nodes /\ todo[a] # <<>> /\ None \notin Nodes
      /\ Head(todo[a]).op = "remove-machine"
      /\ UNCHANGED <<rows, machineid, bootstrapped, found, target>>
  BY LeaveParts, AdminsAssumption, SeedAssumption
     DEF RemoveJujuMachine, At, Procs, rowVars, TypeNodes
<1>1. CASE Stop(a) /\ UNCHANGED jujuVars
  BY <1>0, <1>1, QuietLeave DEF RemoveJujuMachine
<1>2. RemovesNode(a) /\ todo[n] = <<>>
  BY <1>0 DEF RemovesNode, OnePerNode, Works, Procs
\* The only machine of the node is the one its row names.
<1>3. \A m \in machines : host[m] = n => n \in rows /\ m = m0
  BY <1>0, <1>2 DEF Linked
<1>4. ASSUME Continue(a) PROVE Left(a, "remove-row")' \/ n \notin rows
  <2>1. Left(a, "remove-row") \/ n \notin rows
    BY <1>0, <1>2, LeaveParts DEF RemoveSoFar
  <2> QED
    BY <1>0, <1>4, <2>1, EndStep
<1>5. CASE Continue(a) /\ (n \notin rows \/ m0 \notin machines) /\ UNCHANGED jujuVars
  <2>1. NoMachineOf(n) /\ machines' = machines /\ NoMachineOf(n)' /\ Linked'
    <3>1. NoMachineOf(n)
      BY <1>3, <1>5 DEF NoMachineOf
    <3>2. machines' = machines /\ host' = host
      BY <1>5 DEF machines, jujuVars
    <3>3. \A k \in Nodes : todo'[k] = todo[k]
      BY <1>0, <1>5, EndStep DEF Procs
    <3>4. Linked'
      <4> SUFFICES ASSUME NEW m \in machines, NEW k, k = host[m]
                   PROVE  /\ k \in rows
                          /\ machineid[k] = m \/ (k # Seed /\ todo'[k] # <<>> /\ Left(k, "update")')
        BY <1>0, <3>2 DEF Linked, Left
      <4>1. /\ k \in rows /\ k \in Nodes
            /\ machineid[k] = m \/ (k # Seed /\ todo[k] # <<>> /\ Left(k, "update"))
        BY <1>0 DEF Linked, TypeRows
      <4> QED
        BY <3>3, <4>1 DEF Left
    <3>5. NoMachineOf(n)'
      BY <1>0, <3>1, <3>2 DEF NoMachineOf
    <3> QED
      BY <3>1, <3>2, <3>4, <3>5
  <2> QED
    BY <1>0, <1>4, <1>5, <2>1, AdminLeave DEF jujuVars
<1>6. CASE /\ Continue(a) /\ n \in rows /\ m0 \in machines
           /\ host' = [host EXCEPT ![m0] = None] /\ reported' = reported \ {m0} /\ added' = added
  <2>1. host[m0] = n
    BY <1>0, <1>6 DEF IdsOwn, machines, MachineIds, NoMachine
  <2>2. /\ m0 \in MachineIds /\ host'[m0] = None
        /\ \A m \in MachineIds \ {m0} : host'[m] = host[m]
        /\ machines' = machines \ {m0}
    BY <1>0, <1>6 DEF TypeJuju, machines
  <2>3. NoMachineOf(n)'
    BY <1>0, <1>3, <2>2 DEF NoMachineOf, machines
  <2>4. Linked'
    <3> SUFFICES ASSUME NEW m \in machines', NEW k, k = host'[m]
                 PROVE  /\ k \in rows
                        /\ machineid[k] = m \/ (k # Seed /\ todo'[k] # <<>> /\ Left(k, "update")')
      BY <1>0 DEF Linked, Left
    <3>1. /\ m \in machines /\ k = host[m] /\ k \in rows /\ k \in Nodes
          /\ machineid[k] = m \/ (k # Seed /\ todo[k] # <<>> /\ Left(k, "update"))
      BY <1>0, <2>2 DEF Linked, TypeRows, machines
    <3>2. todo'[k] = todo[k]
      BY <1>0, <1>6, <3>1, EndStep DEF Procs
    <3> QED
      BY <3>1, <3>2 DEF Left
  <2>5. \A k \in Nodes \ {n} : \A m \in MachineIds : host[m] = k => host'[m] = k
    BY <2>1, <2>2
  <2>6. machines' \subseteq machines /\ machines' \subseteq reported'
    BY <1>0, <1>6, <2>2
  <2>7. \A m \in MachineIds : host'[m] \in {host[m], None}
    BY <2>2
  <2> QED
    BY <1>0, <1>4, <1>6, <2>3, <2>4, <2>5, <2>6, <2>7, AdminLeave
<1> QED
  BY <1>1, <1>5, <1>6 DEF RemoveJujuMachine

LEMMA RemoveRowLeave ==
  ASSUME LeaveInv, TypeInv', NEW a \in Admins, RemoveRow(a)
  PROVE  LeaveInv'
<1> DEFINE n == target[a]
<1>0. /\ TypeControl /\ TypeJuju /\ TypeRows /\ TypeNodes /\ OneKind /\ OnePerNode
      /\ machines \subseteq reported /\ Linked
      /\ a \in Procs /\ a \notin Nodes /\ n \in Nodes /\ todo[a] # <<>>
      /\ Head(todo[a]).op = "remove-row" /\ Continue(a)
      /\ UNCHANGED <<bootstrapped, added, host, reported, found, target>>
      /\ machines' = machines /\ rows' = rows \ {n}
  BY LeaveParts, AdminsAssumption DEF RemoveRow, At, Procs, jujuVars, machines, TypeNodes
<1>1. machineid'[n] = NoMachine /\ \A k \in Nodes \ {n} : machineid'[k] = machineid[k]
  BY <1>0 DEF RemoveRow, TypeRows
<1>2. NoMachineOf(n)
  <2>1. ~Left(a, "remove-machine") /\ RemovesNode(a)
    BY <1>0, AdminOrder DEF RemovesNode
  <2> QED
    BY <2>1, LeaveParts DEF RemoveSoFar
<1>3. NoMachineOf(n)' /\ \A k \in Nodes : todo'[k] = todo[k]
  BY <1>0, <1>2, EndStep DEF NoMachineOf, Procs
<1>4. Linked'
  <2> SUFFICES ASSUME NEW m \in machines, NEW k, k = host[m]
               PROVE  /\ k \in rows'
                      /\ machineid'[k] = m \/ (k # Seed /\ todo'[k] # <<>> /\ Left(k, "update")')
    BY <1>0 DEF Linked, Left
  <2>1. /\ k \in rows /\ k \in Nodes /\ k # n
        /\ machineid[k] = m \/ (k # Seed /\ todo[k] # <<>> /\ Left(k, "update"))
    BY <1>0, <1>2 DEF Linked, TypeRows, NoMachineOf
  <2> QED
    BY <1>0, <1>1, <1>3, <2>1 DEF Left
<1> QED
  BY <1>0, <1>1, <1>3, <1>4, AdminLeave

LEMMA LeaveStep ==
  ASSUME Exclusion # "none", Fallible \intersect Nodes \subseteq {Seed}, ~LateReport, LeaveInv, [Next]_vars
  PROVE  LeaveInv'
<1>0. TypeInv' /\ TypeControl /\ TypeJuju /\ SeedAlone
  BY TypeStep, LeaveParts DEF LeaveInv
<1>1. CASE UNCHANGED vars
  BY <1>0, <1>1, LeaveFrame DEF vars, jujuVars, procVars, history
<1>2. CASE StartBootstrap
  <2>1. /\ Begin(Seed, Seed, BootstrapPlan) /\ ~bootstrapped /\ removed' = removed
        /\ target' = target /\ Seed \in Procs /\ Seed \in Nodes /\ Seed \notin Admins
    BY <1>2, SeedAssumption, AdminsAssumption DEF StartBootstrap, history, Procs
  <2>2. Holds(BootstrapPlan, "row") /\ Holds(BootstrapPlan, "machine")
    <3>1. {Step("row", "-"), Step("machine", "-")} \subseteq Elems(BootstrapPlan)
      BY BootstrapPlanHolds
    <3> QED
      BY <3>1 DEF Holds, Step
  <2> QED
    BY <1>0, <2>1, <2>2, BeginLeave
<1>3. ASSUME NEW n \in Nodes, StartJoin(n) PROVE LeaveInv'
  <2>1. /\ Begin(n, n, JoinPlan(n)) /\ bootstrapped /\ n # Seed /\ removed' = removed \ {n}
        /\ target' = target /\ n \in Procs /\ n \notin Admins
    BY <1>3, AdminsAssumption DEF StartJoin, Procs
  <2>2. /\ Holds(JoinPlan(n), "row") /\ Holds(JoinPlan(n), "machine")
        /\ Holds(JoinPlan(n), "update")
    <3>1. {Step("row", "-"), Step("machine", "-"), Step("update", "-")} \subseteq Elems(JoinPlan(n))
      BY JoinPlanHolds
    <3> QED
      BY <3>1 DEF Holds, Step
  <2> QED
    BY <1>0, <2>1, <2>2, BeginLeave
<1>4. ASSUME NEW a \in Admins, NEW n \in Nodes, StartRemove(a, n) PROVE LeaveInv'
  <2>1. /\ Begin(a, n, RemovePlan) /\ bootstrapped /\ removed' = removed
        /\ a \in Procs /\ a \notin Nodes /\ a # Seed
    BY <1>4, AdminsAssumption, SeedAssumption DEF StartRemove, Procs
  <2>2. target'[a] = n /\ \A b \in Admins \ {a} : target'[b] = target[b]
    BY <1>4, LeaveParts DEF StartRemove, TypeNodes
  <2>3. /\ Holds(RemovePlan, "remove-machine") /\ Holds(RemovePlan, "remove-row")
        /\ \A x \in Elems(RemovePlan) : x.op # "reapply"
    BY RemovePlanHolds DEF Holds, Step
  <2> QED
    BY <1>0, <2>1, <2>2, <2>3, BeginLeave
<1>5. ASSUME NEW a \in Admins, StartReapply(a) PROVE LeaveInv'
  <2>1. /\ Begin(a, None, ReapplyHypervisorTerraformPlanStep) /\ bootstrapped
        /\ removed' = removed /\ target' = target /\ a \in Procs /\ a \notin Nodes /\ a # Seed
    BY <1>5, AdminsAssumption, SeedAssumption DEF StartReapply, Procs, history
  <2>2. \A x \in Elems(ReapplyHypervisorTerraformPlanStep) : x.op = "reapply"
    BY <2>1, ReapplyPlanHolds
  <2> QED
    BY <1>0, <2>1, <2>2, BeginLeave
<1>6. ASSUME NEW p \in Procs, Abort(p) PROVE LeaveInv'
  BY <1>0, <1>6, QuietLeave DEF Abort
<1>7. ASSUME NEW app \in Apps, Unlock(app) PROVE LeaveInv'
  BY <1>0, <1>7, LeaveFrame DEF Unlock, jujuVars, procVars, history
<1>8. ASSUME NEW m \in MachineIds, Report(m) PROVE LeaveInv'
  BY <1>0, <1>8, LeaveFrame DEF Report, procVars, history
<1>9. ASSUME NEW n \in Nodes, AddRow(n) \/ AddJujuMachine(n) \/ UpdateNode(n) \/ SetBootstrapped(n)
      PROVE  LeaveInv'
  BY <1>0, <1>9, AddRowLeave, AddJujuMachineLeave, UpdateNodeLeave, SetBootstrappedLeave
\* A step that deploys: it goes on in the same step of its command, or ends it.
<1>10. ASSUME NEW p \in Procs, todo[p] # <<>>, Head(todo[p]).op \in {"deploy", "reapply"},
              UNCHANGED <<rowVars, jujuVars, found, target>>,
              Continue(p) \/ Stop(p) \/ \E to \in {"step", "write", "apply", "applying"} : Goto(p, to)
       PROVE  LeaveInv'
  <2>1. CASE Continue(p) \/ Stop(p)
    BY <1>0, <1>10, <2>1, QuietLeave DEF Marks
  <2>2. CASE \E to \in {"step", "write", "apply", "applying"} : Goto(p, to)
    BY <1>0, <1>10, <2>2, LeaveFrame DEF Goto, jujuVars, history
  <2> QED
    BY <1>10, <2>1, <2>2
<1>11. ASSUME NEW p \in Procs, ReadIds(p) \/ ReadStoredIds(p) PROVE LeaveInv'
  BY <1>10, <1>11 DEF ReadIds, ReadStoredIds, At
<1>12. ASSUME NEW p \in Procs, WriteVars(p) \/ ApplyStart(p) \/ ApplyEnd(p) PROVE LeaveInv'
  <2>1. todo[p] # <<>> /\ Head(todo[p]).op \in {"deploy", "reapply"}
    BY <1>0, <1>12 DEF TypeControl, Applies, WriteVars, ApplyStart, ApplyEnd
  <2> QED
    BY <1>10, <1>12, <2>1 DEF WriteVars, ApplyStart, ApplyEnd
<1>13. ASSUME NEW n \in Nodes, StoreKubeconfig(n) PROVE LeaveInv'
  BY <1>0, <1>13, QuietLeave DEF StoreKubeconfig, At, Procs, Marks
<1>14. ASSUME NEW p \in Procs, UpdateK8SCloud(p) PROVE LeaveInv'
  BY <1>0, <1>14, QuietLeave DEF UpdateK8SCloud, At, Marks
<1>15. ASSUME NEW a \in Admins,
              CheckDistribution(a) \/ MigrateKubeconfig(a) \/ RemoveUnits(a) \/ RemoveHypervisorUnit(a)
       PROVE  LeaveInv'
  <2>1. a \in Procs /\ a \notin Nodes
    BY AdminsAssumption DEF Procs
  <2>2. /\ todo[a] # <<>> /\ Head(todo[a]).op \in {"check", "migrate", "remove", "remove-hypervisor"}
        /\ UNCHANGED <<rowVars, jujuVars, found, target>>
        /\ Continue(a) \/ Stop(a)
    BY <1>15 DEF CheckDistribution, MigrateKubeconfig, RemoveUnits, RemoveHypervisorUnit, At
  <2> QED
    BY <1>0, <2>1, <2>2, QuietLeave DEF Marks
<1>16. ASSUME NEW a \in Admins, RemoveJujuMachine(a) \/ RemoveRow(a) PROVE LeaveInv'
  BY <1>0, <1>16, RemoveJujuMachineLeave, RemoveRowLeave
<1>17. ASSUME NEW n \in Nodes, NodeStep(n) PROVE LeaveInv'
  BY <1>3, <1>9, <1>13, <1>17 DEF NodeStep
<1>18. ASSUME NEW a \in Admins, AdminStep(a) PROVE LeaveInv'
  BY <1>4, <1>5, <1>15, <1>16, <1>18 DEF AdminStep
<1>19. ASSUME NEW p \in Procs, PlanStep(p) PROVE LeaveInv'
  BY <1>6, <1>11, <1>12, <1>14, <1>19 DEF PlanStep
<1> QED
  BY <1>1, <1>2, <1>7, <1>8, <1>17, <1>18, <1>19 DEF Next

\* While no two commands work on one node, nothing kills the command of a node
\* that joins (bootstrap may be), and Juju reports a machine while AddJujuMachineStep waits for
\* it, a node that `cluster remove` reports as removed has left no row and no
\* Juju machine, until it joins again: however many other nodes join and are
\* removed at the same time, and wherever removals before failed or were killed.
THEOREM RemovedNodesLeaveNothing ==
  ASSUME Exclusion # "none", Fallible \intersect Nodes \subseteq {Seed}, ~LateReport
  PROVE  Spec => []RemovedLeavesNothing
<1>1. LeaveInv => RemovedLeavesNothing
  BY DEF LeaveInv, Gone, NoMachineOf, RemovedLeavesNothing
<1>2. LeaveInv /\ [Next]_vars => LeaveInv'
  BY LeaveStep
<1> QED
  BY <1>1, <1>2, LeaveInit, PTL DEF Spec

=============================================================================
