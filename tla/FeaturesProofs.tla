--------------------------- MODULE FeaturesProofs ---------------------------
(***************************************************************************)
(* Maintenance mode: for any nodes, instances, pods and any number of      *)
(* failures, the types, the promises of the mode and what its commands     *)
(* never do.  The features: on a MAAS deployment or not and for any number *)
(* of commands that fail, that what the enabled ones need of each other is *)
(* there.                                                                  *)
(***************************************************************************)
EXTENDS MCFeatures, SequenceTheorems, FiniteSetTheorems, TLAPS

----------------------------------------------------------------------------
(* What a command may be, and the operations it may have left              *)

Commands ==
  [kind : {"none", "enable", "disable"}, node : Nodes \cup {Nowhere},
   force : BOOLEAN, allow : BOOLEAN]

Phases == {"none", "check", "dry run", "ask", "run", "verify"}

EnableNames == {"nova off", "migrate", "ceph enter", "cordon", "drain"}
DisableNames == {"nova on", "balance", "ceph exit", "uncordon"}

Operations ==
       [op : EnableNames \cup DisableNames]
  \cup [op : {"migrate"}, i : Instances]
  \cup [op : {"balance"}, i : Instances, to : Compute]

\* An operation of the command c: it is about a role that the node has.
Suits(c, x) ==
  /\ x.op \in IF c.kind = "enable" THEN EnableNames ELSE DisableNames
  /\ x.op = "nova on" => c.node \in Compute
  /\ x.op \in {"ceph enter", "ceph exit"} => c.node \in Storage
  /\ x.op \in {"cordon", "drain", "uncordon"} => c.node \in Control

CommandInv ==
  /\ cmd \in Commands /\ pc \in Phases
  /\ pc = "none" => cmd = NoCmd
  /\ pc # "none" => cmd.kind # "none" /\ cmd.node \in Nodes
  /\ pc = "check" => cmd.kind = "enable"
  /\ pc \in {"none", "check", "dry run", "verify"} => ops = <<>>

AllSuit(c, q) == q \in Seq(Operations) /\ \A x \in ToSet(q) : Suits(c, x)

OpsInv == AllSuit(cmd, ops)

TypeInv == TypeOK /\ CommandInv /\ OpsInv /\ faults \in Nat

----------------------------------------------------------------------------
(* The inductive invariants                                                *)

\* A command that changes a node has taken it out of maintenance first.
MaintInv ==
  /\ EmptyInMaintenance
  /\ pc \in {"run", "verify"} => cmd.node \notin maint

\* The pods of the controllers are placed, and not on the node of an enable
\* command that was checked; that node is not the last to be schedulable.
Checked == cmd.kind = "enable" /\ pc # "check"

ControlInv ==
  \A p \in Pods : p[1] \in Controllers =>
    pods[p] \in Control /\ (Checked => pods[p] # cmd.node)

ScheduleInv ==
  Checked /\ ~cmd.force /\ cmd.node \in Control => Control \ (cordoned \cup {cmd.node}) # {}

\* What a disable command has not undone yet is among the operations left.
RestoreInv ==
  cmd.kind = "disable" /\ pc \in {"ask", "run", "verify"} =>
    /\ cmd.node \in nova \cup (Nodes \ Compute) \/ [op |-> "nova on"] \in ToSet(ops)
    /\ cmd.node \notin ceph \/ [op |-> "ceph exit"] \in ToSet(ops)

----------------------------------------------------------------------------
(* Sequences of operations                                                 *)

LEMMA ElementsRest ==
  ASSUME NEW S, NEW q \in Seq(S), q # <<>>
  PROVE  /\ Head(q) \in S /\ Head(q) \in ToSet(q)
         /\ Tail(q) \in Seq(S)
         /\ \A x : x \in ToSet(q) <=> x = Head(q) \/ x \in ToSet(Tail(q))
<1> DEFINE r == Tail(q)
<1>1. /\ Len(q) \in Nat /\ Len(q) > 0 /\ r \in Seq(S) /\ Len(r) = Len(q) - 1 /\ Head(q) = q[1]
      /\ \A i \in 1..Len(r) : r[i] = q[i + 1]
      /\ DOMAIN q = 1..Len(q) /\ DOMAIN r = 1..Len(r)
  OBVIOUS
<1>2. ASSUME NEW i \in 1..Len(q), i # 1 PROVE i - 1 \in 1..Len(r) /\ q[i] = r[i - 1]
  BY <1>1, <1>2
<1>3. \A i \in 1..Len(r) : i + 1 \in 1..Len(q)
  BY <1>1
<1>4. 1 \in 1..Len(q)
  BY <1>1
<1>5. \A x \in ToSet(q) : x = Head(q) \/ x \in ToSet(r)
  <2> SUFFICES ASSUME NEW i \in 1..Len(q) PROVE q[i] = Head(q) \/ q[i] \in ToSet(r)
    BY <1>1 DEF ToSet
  <2>1. CASE i = 1
    BY <1>1, <2>1
  <2>2. CASE i # 1
    BY <1>1, <1>2, <2>2 DEF ToSet
  <2> QED
    BY <2>1, <2>2
<1>6. \A x \in ToSet(r) : x \in ToSet(q)
  BY <1>1, <1>3 DEF ToSet
<1>7. Head(q) \in ToSet(q) /\ Head(q) \in S
  BY <1>1, <1>4 DEF ToSet
<1> QED
  BY <1>1, <1>5, <1>6, <1>7

LEMMA ElementsThen ==
  ASSUME NEW S, NEW s \in Seq(S), NEW t \in Seq(S)
  PROVE  /\ s \o t \in Seq(S)
         /\ \A x : x \in ToSet(s \o t) <=> x \in ToSet(s) \/ x \in ToSet(t)
<1> DEFINE st == s \o t
<1>1. /\ st \in Seq(S) /\ Len(s) \in Nat /\ Len(t) \in Nat /\ Len(st) = Len(s) + Len(t)
      /\ \A i \in 1..Len(s) : st[i] = s[i]
      /\ \A i \in 1..Len(t) : st[Len(s) + i] = t[i]
      /\ DOMAIN s = 1..Len(s) /\ DOMAIN t = 1..Len(t) /\ DOMAIN st = 1..Len(st)
  OBVIOUS
<1>2. \A i \in 1..Len(st) :
        \/ i \in 1..Len(s) /\ st[i] = s[i]
        \/ i - Len(s) \in 1..Len(t) /\ st[i] = t[i - Len(s)]
  BY <1>1
<1>3. \A i \in 1..Len(s) : i \in 1..Len(st)
  BY <1>1
<1>4. \A i \in 1..Len(t) : Len(s) + i \in 1..Len(st)
  BY <1>1
<1>5. \A x \in ToSet(st) : x \in ToSet(s) \/ x \in ToSet(t)
  BY <1>1, <1>2 DEF ToSet
<1>6. \A x \in ToSet(s) : x \in ToSet(st)
  BY <1>1, <1>3 DEF ToSet
<1>7. \A x \in ToSet(t) : x \in ToSet(st)
  BY <1>1, <1>4 DEF ToSet
<1> QED
  BY <1>1, <1>5, <1>6, <1>7

LEMMA ElementsNone == ToSet(<<>>) = {}
BY DEF ToSet

LEMMA ElementsOne ==
  ASSUME NEW S, NEW e \in S
  PROVE  <<e>> \in Seq(S) /\ \A x : x \in ToSet(<<e>>) <=> x = e
<1>1. <<e>> \in Seq(S) /\ DOMAIN <<e>> = {1} /\ <<e>>[1] = e
  OBVIOUS
<1> QED
  BY <1>1 DEF ToSet

\* SetToSeq: each element of a finite set, in some order.
LEMMA ElementsOfSet ==
  ASSUME NEW S, IsFiniteSet(S)
  PROVE  SetToSeq(S) \in Seq(S) /\ \A x : x \in ToSet(SetToSeq(S)) => x \in S
<1>1. PICK n \in Nat : n = Cardinality(S)
  BY FS_CardinalityType
<1>2. PICK f : f \in Bijection(1..n, S)
  BY <1>1, FS_CardinalityType DEF ExistsBijection
<1>3. f \in [1..n -> S] /\ IsInjective(f)
  BY <1>2 DEF Bijection, Injection, IsInjective
<1>4. SetToSeq(S) \in [1..n -> S]
  BY <1>1, <1>3 DEF SetToSeq
<1>5. SetToSeq(S) \in Seq(S)
  BY <1>1, <1>4
<1> QED
  BY <1>4, <1>5 DEF ToSet

LEMMA MigrationsOf ==
  ASSUME NEW instances \in SUBSET Instances, NEW n
  PROVE  /\ Migrations(n, instances) \in Seq(Operations)
         /\ \A x \in ToSet(Migrations(n, instances)) : x.op = "migrate"
<1> DEFINE steps == {[op |-> "migrate", i |-> i] : i \in instances}
           f == [i \in instances |-> [op |-> "migrate", i |-> i]]
<1>1. IsFiniteSet(instances)
  BY InstancesAssumption, FS_Subset
<1>2. f \in Surjection(instances, steps)
  BY DEF Surjection
<1>3. IsFiniteSet(steps)
  BY <1>1, <1>2, FS_Surjection
<1>4. SetToSeq(steps) \in Seq(steps) /\ \A x : x \in ToSet(SetToSeq(steps)) => x \in steps
  BY <1>3, ElementsOfSet
<1>5. \A x \in steps : x \in Operations /\ x.op = "migrate"
  BY DEF Operations
<1>6. SetToSeq(steps) \in Seq(Operations)
  <2> HIDE DEF steps
  <2> QED
    BY <1>4, <1>5
<1> QED
  BY <1>4, <1>5, <1>6 DEF Migrations

\* Operations of one command are put together by EnableOperations and
\* DisableOperations.

LEMMA SuitPlain ==
  ASSUME NEW c, NEW name \in EnableNames \cup DisableNames, Suits(c, [op |-> name])
  PROVE  AllSuit(c, <<[op |-> name]>>) /\ [op |-> name] \in ToSet(<<[op |-> name]>>)
<1> DEFINE e == [op |-> name]
<1>1. e \in Operations
  BY DEF Operations
<1>2. Suits(c, e)
  OBVIOUS
<1> HIDE DEF e
<1>3. <<e>> \in Seq(Operations) /\ \A x : x \in ToSet(<<e>>) <=> x = e
  BY <1>1, ElementsOne
<1>4. AllSuit(c, <<e>>) /\ e \in ToSet(<<e>>)
  BY <1>2, <1>3 DEF AllSuit
<1> QED
  BY <1>4 DEF e

LEMMA SuitThen ==
  ASSUME NEW c, NEW s, NEW t, AllSuit(c, s), AllSuit(c, t)
  PROVE  AllSuit(c, s \o t) /\ \A x : x \in ToSet(s \o t) <=> x \in ToSet(s) \/ x \in ToSet(t)
BY ElementsThen DEF AllSuit

LEMMA SuitNone == ASSUME NEW c PROVE AllSuit(c, <<>>)
BY ElementsNone DEF AllSuit

LEMMA EnableOperationsOf ==
  ASSUME NEW c, c.kind = "enable", NEW instances \in SUBSET Instances
  PROVE  AllSuit(c, EnableOperations(c.node, instances))
<1> DEFINE n == c.node
           nova_off == <<[op |-> "nova off"]>>
           a == nova_off \o Migrations(n, instances)
           b == <<[op |-> "ceph enter"]>>
           cordon == <<[op |-> "cordon"]>>
           drain == <<[op |-> "drain"]>>
           d == cordon \o drain
<1>1. AllSuit(c, Migrations(n, instances))
  BY MigrationsOf DEF AllSuit, Suits, EnableNames
<1>2. Suits(c, [op |-> "nova off"])
  BY DEF Suits, EnableNames
<1>3. AllSuit(c, nova_off)
  BY <1>2, SuitPlain DEF EnableNames
<1>4. AllSuit(c, a)
  BY <1>1, <1>3, SuitThen
<1>5. n \in Storage => Suits(c, [op |-> "ceph enter"])
  BY DEF Suits, EnableNames
<1>6. n \in Storage => AllSuit(c, b)
  BY <1>5, SuitPlain DEF EnableNames
<1>7. n \in Control => Suits(c, [op |-> "cordon"]) /\ Suits(c, [op |-> "drain"])
  BY DEF Suits, EnableNames
<1>8. n \in Control => AllSuit(c, cordon) /\ AllSuit(c, drain)
  BY <1>7, SuitPlain DEF EnableNames
<1>9. n \in Control => AllSuit(c, d)
  BY <1>8, SuitThen
<1>10. <<[op |-> "cordon"], [op |-> "drain"]>> = d
  OBVIOUS
<1> DEFINE A == If(n \in Compute, a)
           B == If(n \in Storage, b)
           D == If(n \in Control, d)
<1>11. EnableOperations(n, instances) = A \o B \o D
  BY <1>10 DEF EnableOperations
<1> HIDE DEF a, b, d
<1>12. AllSuit(c, A) /\ AllSuit(c, B) /\ AllSuit(c, D)
  BY <1>4, <1>6, <1>9, SuitNone DEF If
<1> HIDE DEF A, B, D
<1>13. AllSuit(c, A \o B)
  BY <1>12, SuitThen
<1>14. AllSuit(c, A \o B \o D)
  BY <1>12, <1>13, SuitThen
<1> QED
  BY <1>11, <1>14

LEMMA DisableOperationsOf ==
  ASSUME NEW c, c.kind = "disable", nova \subseteq Compute, NEW moves \in Balancing
  PROVE  /\ AllSuit(c, DisableOperations(c.node, moves))
         /\ c.node \in Compute => [op |-> "nova on"] \in ToSet(DisableOperations(c.node, moves))
         /\ c.node \in Storage => [op |-> "ceph exit"] \in ToSet(DisableOperations(c.node, moves))
<1> DEFINE n == c.node
           nova_on == <<[op |-> "nova on"]>>
           a == nova_on \o moves
           b == <<[op |-> "ceph exit"]>>
           d == <<[op |-> "uncordon"]>>
<1>1. AllSuit(c, moves)
  <2>1. CASE moves = <<>>
    BY <2>1, ElementsNone DEF AllSuit
  <2>2. CASE moves # <<>>
    <3>1. PICK i \in Instances, h \in nova \ off : moves = <<[op |-> "balance", i |-> i, to |-> h]>>
      BY <2>2 DEF Balancing
    <3> DEFINE e == [op |-> "balance", i |-> i, to |-> h]
    <3>2. e \in Operations
      BY DEF Operations
    <3>3. Suits(c, e)
      BY DEF Suits, DisableNames
    <3> HIDE DEF e
    <3>4. moves \in Seq(Operations) /\ \A x : x \in ToSet(moves) <=> x = e
      BY <3>1, <3>2, ElementsOne DEF e
    <3> QED
      BY <3>3, <3>4 DEF AllSuit
  <2> QED
    BY <2>1, <2>2
<1>2. n \in Compute => Suits(c, [op |-> "nova on"])
  BY DEF Suits, DisableNames
<1>3. n \in Compute => AllSuit(c, nova_on) /\ [op |-> "nova on"] \in ToSet(nova_on)
  BY <1>2, SuitPlain DEF DisableNames
<1>4. n \in Compute => AllSuit(c, a) /\ [op |-> "nova on"] \in ToSet(a)
  BY <1>1, <1>3, SuitThen
<1>5. n \in Storage => Suits(c, [op |-> "ceph exit"])
  BY DEF Suits, DisableNames
<1>6. n \in Storage => AllSuit(c, b) /\ [op |-> "ceph exit"] \in ToSet(b)
  BY <1>5, SuitPlain DEF DisableNames
<1>7. n \in Control => Suits(c, [op |-> "uncordon"])
  BY DEF Suits, DisableNames
<1>8. n \in Control => AllSuit(c, d)
  BY <1>7, SuitPlain DEF DisableNames
<1> DEFINE A == If(n \in Compute, a)
           B == If(n \in Storage, b)
           D == If(n \in Control, d)
<1>9. DisableOperations(n, moves) = A \o B \o D
  BY DEF DisableOperations
<1> HIDE DEF a, b, d
<1>10. /\ AllSuit(c, A) /\ AllSuit(c, B) /\ AllSuit(c, D)
       /\ n \in Compute => [op |-> "nova on"] \in ToSet(A)
       /\ n \in Storage => [op |-> "ceph exit"] \in ToSet(B)
  BY <1>4, <1>6, <1>8, SuitNone DEF If
<1> HIDE DEF A, B, D
<1>11. /\ AllSuit(c, A \o B)
       /\ n \in Compute => [op |-> "nova on"] \in ToSet(A \o B)
       /\ n \in Storage => [op |-> "ceph exit"] \in ToSet(A \o B)
  BY <1>10, SuitThen
<1>12. /\ AllSuit(c, A \o B \o D)
       /\ n \in Compute => [op |-> "nova on"] \in ToSet(A \o B \o D)
       /\ n \in Storage => [op |-> "ceph exit"] \in ToSet(A \o B \o D)
  BY <1>10, <1>11, SuitThen
<1> QED
  BY <1>9, <1>12

----------------------------------------------------------------------------
(* Type correctness                                                        *)

WorldOK ==
  /\ nova \subseteq Compute /\ cordoned \subseteq Control /\ ceph \subseteq Storage
  /\ off \subseteq Nodes /\ maint \subseteq Nodes
  /\ place \in [Instances -> Compute \cup {Nowhere}]
  /\ pods \in [Pods -> Control \cup {Nowhere}]

LEMMA TypeParts == TypeInv <=> WorldOK /\ CommandInv /\ OpsInv /\ faults \in Nat
<1>1. CommandInv /\ pc = "none" => cmd = NoCmd /\ ops = <<>>
  BY DEF CommandInv
<1>2. CommandInv /\ cmd = NoCmd => pc = "none"
  <2>1. NoCmd.kind = "none"
    BY DEF NoCmd
  <2> QED
    BY <2>1 DEF CommandInv
<1>3. CommandInv => ((pc = "none") = (cmd = NoCmd)) /\ (pc = "none" => ops = <<>>)
  BY <1>1, <1>2
<1> QED
  BY <1>3 DEF TypeInv, TypeOK, WorldOK

LEMMA TypeInit == Init => TypeInv
<1> SUFFICES ASSUME Init PROVE WorldOK /\ CommandInv /\ OpsInv /\ faults \in Nat
  BY TypeParts
<1>1. WorldOK
  BY DEF Init, WorldOK
<1>2. CommandInv
  BY DEF Init, CommandInv, NoCmd, Commands, Phases
<1>3. OpsInv
  BY SuitNone DEF Init, OpsInv
<1> QED
  BY <1>1, <1>2, <1>3 DEF Init

\* A command that ends.
LEMMA EndTypes == ASSUME EndCommand PROVE CommandInv' /\ OpsInv'
<1>1. CommandInv'
  BY DEF EndCommand, CommandInv, NoCmd, Commands, Phases
<1>2. OpsInv'
  BY SuitNone DEF EndCommand, OpsInv
<1> QED
  BY <1>1, <1>2

\* A command that goes on with the operations it has.
LEMMA GoOnTypes ==
  ASSUME CommandInv, OpsInv, pc # "none", UNCHANGED <<cmd, ops>>,
         pc' \in Phases \ {"none", "check"},
         pc' \in {"dry run", "verify"} => ops = <<>>
  PROVE  CommandInv' /\ OpsInv'
<1>1. CommandInv'
  BY DEF CommandInv
<1>2. OpsInv'
  BY DEF OpsInv
<1> QED
  BY <1>1, <1>2

LEMMA RunOperationTypes ==
  ASSUME TypeInv, RunOperation
  PROVE  /\ WorldOK' /\ CommandInv' /\ OpsInv'
         /\ Suits(cmd, Now) /\ Now \in Operations
         /\ \A x : x \in ToSet(ops) <=> x = Now \/ x \in ToSet(ops')
<1>0. /\ WorldOK /\ CommandInv /\ ops \in Seq(Operations) /\ ops # <<>> /\ ops' = Tail(ops)
      /\ pc = "run" /\ cmd.node \in Nodes /\ UNCHANGED <<off, maint, cmd, pc, faults>>
      /\ \A x \in ToSet(ops) : Suits(cmd, x)
  BY TypeParts DEF RunOperation, OpsInv, AllSuit, CommandInv
<1>1. /\ Now \in Operations /\ Now \in ToSet(ops) /\ ops' \in Seq(Operations)
      /\ \A x : x \in ToSet(ops) <=> x = Now \/ x \in ToSet(ops')
  BY <1>0, ElementsRest DEF Now
<1>2. Suits(cmd, Now)
  BY <1>0, <1>1
<1>3. OpsInv'
  BY <1>0, <1>1 DEF OpsInv, AllSuit
<1>4. CommandInv'
  BY <1>0 DEF CommandInv
<1>5. WorldOK'
  <2>1. CASE RunWatcherAudit(cmd.node)
    <3>1. nova' \subseteq Compute
      BY <1>0, <2>1 DEF RunWatcherAudit, WorldOK
    <3>2. place' \in [Instances -> Compute \cup {Nowhere}]
      BY <1>0, <2>1 DEF RunWatcherAudit, WorldOK
    <3> QED
      BY <1>0, <2>1, <3>1, <3>2 DEF RunWatcherAudit, WorldOK
  <2>2. CASE EnableHypervisor(cmd.node) \/ MicroCephAction(cmd.node)
    BY <1>0, <1>2, <2>2 DEF EnableHypervisor, MicroCephAction, WorldOK, Suits
  <2>3. CASE CordonControlRoleNode(cmd.node) \/ UncordonControlRoleNode(cmd.node)
    BY <1>0, <1>2, <2>3 DEF CordonControlRoleNode, UncordonControlRoleNode, WorldOK, Suits
  <2>4. CASE DrainControlRoleNode(cmd.node)
    BY <1>0, <2>4 DEF DrainControlRoleNode, WorldOK
  <2> QED
    BY <2>1, <2>2, <2>3, <2>4 DEF RunOperation
<1> QED
  BY <1>1, <1>2, <1>3, <1>4, <1>5

LEMMA TypeStep == TypeInv /\ [Next]_mvars => TypeInv'
<1> SUFFICES ASSUME TypeInv, [Next]_mvars PROVE (WorldOK /\ CommandInv /\ OpsInv /\ faults \in Nat)'
  BY TypeParts, PTL
<1>0. WorldOK /\ CommandInv /\ OpsInv /\ faults \in Nat
  BY TypeParts
<1> USE <1>0
<1>1. CASE UNCHANGED mvars
  BY <1>1 DEF mvars, WorldOK, CommandInv, OpsInv
<1>2. ASSUME NEW n \in Nodes, NEW force \in BOOLEAN, NEW allow \in BOOLEAN, Enable(n, force, allow)
      PROVE  (WorldOK /\ CommandInv /\ OpsInv /\ faults \in Nat)'
  <2>1. ops = <<>>
    BY <1>2 DEF Enable, CommandInv, NoCmd
  <2>2. OpsInv'
    BY <1>2, <2>1, SuitNone DEF Enable, OpsInv
  <2>3. CommandInv'
    BY <1>2, <2>1 DEF Enable, CommandInv, Commands, Phases
  <2> QED
    BY <1>2, <2>2, <2>3 DEF Enable, world, WorldOK
<1>3. ASSUME NEW n \in Nodes, Disable(n)
      PROVE  (WorldOK /\ CommandInv /\ OpsInv /\ faults \in Nat)'
  <2>1. ops = <<>>
    BY <1>3 DEF Disable, CommandInv, NoCmd
  <2>2. OpsInv'
    BY <1>3, <2>1, SuitNone DEF Disable, OpsInv
  <2>3. CommandInv'
    BY <1>3, <2>1 DEF Disable, CommandInv, Commands, Phases, NoCmd
  <2> QED
    BY <1>3, <2>2, <2>3 DEF Disable, world, WorldOK
<1>4. CASE Check
  BY <1>4, EndTypes, GoOnTypes DEF Check, world, WorldOK, CommandInv, Phases
<1>5. CASE Refused \/ NoHost
  BY <1>5, EndTypes DEF Refused, NoHost, world, WorldOK
<1>6. CASE EnableDryRun
  <2>1. On(cmd.node) \in SUBSET Instances
    BY DEF On
  <2>2. OpsInv'
    BY <1>6, <2>1, EnableOperationsOf DEF EnableDryRun, OpsInv
  <2>3. CommandInv'
    BY <1>6 DEF EnableDryRun, CommandInv, Phases
  <2> QED
    BY <1>6, <2>2, <2>3 DEF EnableDryRun, world, WorldOK
<1>7. CASE DisableDryRun
  <2>1. OpsInv'
    BY <1>7, DisableOperationsOf DEF DisableDryRun, OpsInv, WorldOK
  <2>2. CommandInv'
    BY <1>7 DEF DisableDryRun, CommandInv, Phases
  <2> QED
    BY <1>7, <2>1, <2>2 DEF DisableDryRun, world, WorldOK
<1>8. ASSUME NEW yes \in BOOLEAN, Answer(yes)
      PROVE  (WorldOK /\ CommandInv /\ OpsInv /\ faults \in Nat)'
  BY <1>8, EndTypes, GoOnTypes DEF Answer, world, WorldOK, Phases
<1>9. CASE RunOperation
  BY <1>9, RunOperationTypes DEF RunOperation
<1>10. CASE OperationsDone
  BY <1>10, GoOnTypes DEF OperationsDone, world, WorldOK, Phases
<1>11. CASE Stopped
  BY <1>11, EndTypes DEF Stopped, Fault, world, WorldOK
<1>12. CASE Verify
  <2>1. maint' \subseteq Nodes
    BY <1>12 DEF Verify, WorldOK, CommandInv
  <2> QED
    BY <1>12, <2>1, EndTypes DEF Verify, world, WorldOK
<1>13. ASSUME NEW i \in Instances, (\E h \in Compute : Boot(i, h)) \/ Delete(i)
       PROVE  (WorldOK /\ CommandInv /\ OpsInv /\ faults \in Nat)'
  BY <1>13 DEF Boot, Delete, WorldOK, CommandInv, OpsInv
<1>14. ASSUME NEW p \in Pods, Schedule(p)
       PROVE  (WorldOK /\ CommandInv /\ OpsInv /\ faults \in Nat)'
  BY <1>14 DEF Schedule, WorldOK, CommandInv, OpsInv
<1>15. ASSUME NEW n \in Nodes, SwitchOff(n) \/ SwitchOn(n)
       PROVE  (WorldOK /\ CommandInv /\ OpsInv /\ faults \in Nat)'
  BY <1>15 DEF SwitchOff, SwitchOn, WorldOK, CommandInv, OpsInv
<1>16. ASSUME NEW n \in Control, RemovalStopped(n)
       PROVE  (WorldOK /\ CommandInv /\ OpsInv /\ faults \in Nat)'
  <2>1. WorldOK' /\ faults' \in Nat
    BY <1>16 DEF RemovalStopped, Fault, WorldOK
  <2>2. CommandInv' /\ OpsInv'
    BY <1>16 DEF RemovalStopped, CommandInv, OpsInv
  <2> QED
    BY <2>1, <2>2
<1> QED
  BY <1>1, <1>2, <1>3, <1>4, <1>5, <1>6, <1>7, <1>8, <1>9, <1>10, <1>11, <1>12, <1>13, <1>14,
     <1>15, <1>16 DEF Next, Step

\* The nodes, the instances, the pods and the command have their types.
THEOREM TypeCorrect == Spec => []TypeOK
<1>1. TypeInv => TypeOK
  BY DEF TypeInv
<1> QED
  BY <1>1, TypeInit, TypeStep, PTL DEF Spec

----------------------------------------------------------------------------
(* A node in maintenance is empty                                          *)

\* What an operation leaves alone: other nodes, and instances that are placed
\* on a disabled host.
LEMMA OperationEffect ==
  ASSUME TypeInv, RunOperation
  PROVE  /\ nova' \subseteq nova \cup {cmd.node} /\ cordoned' \subseteq cordoned \cup {cmd.node}
         /\ nova \subseteq nova' \cup {cmd.node} /\ cordoned \subseteq cordoned' \cup {cmd.node}
         /\ ceph' \subseteq ceph \cup {cmd.node}
         /\ \A i \in Instances : place'[i] = place[i] \/ place'[i] \in nova
         /\ \A p \in Pods : pods'[p] = pods[p] \/ (Now.op = "drain" /\ pods[p] = cmd.node)
         /\ cordoned' # cordoned => Now.op \in {"cordon", "uncordon"}
<1>0. WorldOK
  BY TypeParts
<1>1. CASE RunWatcherAudit(cmd.node)
  <2>1. ASSUME NEW i \in Instances PROVE place'[i] = place[i] \/ place'[i] \in nova
    <3>1. CASE Now.op = "nova off" /\ place' = place
      BY <3>1
    <3>2. CASE Now.op = "migrate"
      <4>1. \/ place' = place
            \/ \E h \in nova : place' = [place EXCEPT ![Now.i] = h]
        BY <1>1, <3>2 DEF RunWatcherAudit
      <4> QED
        BY <1>0, <4>1 DEF WorldOK
    <3>3. CASE Now.op = "balance"
      <4>1. \/ place' = place
            \/ Now.to \in nova /\ place' = [place EXCEPT ![Now.i] = Now.to]
        BY <1>1, <3>3 DEF RunWatcherAudit
      <4> QED
        BY <1>0, <4>1 DEF WorldOK
    <3> QED
      BY <1>1, <3>1, <3>2, <3>3 DEF RunWatcherAudit
  <2> QED
    BY <1>1, <2>1 DEF RunWatcherAudit
<1>2. CASE EnableHypervisor(cmd.node)
  BY <1>2 DEF EnableHypervisor
<1>3. CASE MicroCephAction(cmd.node)
  BY <1>3 DEF MicroCephAction
<1>4. CASE CordonControlRoleNode(cmd.node) \/ UncordonControlRoleNode(cmd.node)
  BY <1>4 DEF CordonControlRoleNode, UncordonControlRoleNode
<1>5. CASE DrainControlRoleNode(cmd.node)
  BY <1>0, <1>5 DEF DrainControlRoleNode, WorldOK
<1> QED
  BY <1>1, <1>2, <1>3, <1>4, <1>5 DEF RunOperation

LEMMA StaysEmpty ==
  ASSUME WorldOK, EmptyInMaintenance, maint' \subseteq maint,
         \A i \in Instances : place'[i] = place[i] \/ place'[i] \in nova \cup {Nowhere},
         \A n \in maint' : n \in nova' => n \in nova,
         \A n \in maint' : n \in cordoned => n \in cordoned'
  PROVE  EmptyInMaintenance'
<1> SUFFICES ASSUME NEW n \in maint'
             PROVE  On(n)' = {} /\ n \notin nova' /\ (n \in Control => n \in cordoned')
  BY DEF EmptyInMaintenance
<1>1. On(n) = {} /\ n \notin nova /\ (n \in Control => n \in cordoned)
  BY DEF EmptyInMaintenance
<1>2. n # Nowhere
  BY NodesAssumption DEF WorldOK
<1>3. \A i \in Instances : place'[i] # n
  BY <1>1, <1>2 DEF On
<1> QED
  BY <1>1, <1>3 DEF On

LEMMA MaintInit == Init => MaintInv
BY DEF Init, MaintInv, EmptyInMaintenance

LEMMA MaintStep ==
  ASSUME TypeInv, MaintInv, [Next]_mvars
  PROVE  MaintInv'
<1>0. WorldOK /\ CommandInv /\ EmptyInMaintenance /\ (pc \in {"run", "verify"} => cmd.node \notin maint)
  BY TypeParts DEF MaintInv
<1> USE <1>0
<1>1. ASSUME EndCommand, maint' = maint, UNCHANGED world
      PROVE  MaintInv'
  BY <1>1, StaysEmpty DEF EndCommand, world, MaintInv
<1>2. ASSUME pc' \notin {"run", "verify"}, maint' = maint, UNCHANGED world PROVE MaintInv'
  BY <1>2, StaysEmpty DEF world, MaintInv
<1>3. CASE UNCHANGED mvars
  BY <1>3, StaysEmpty DEF mvars, MaintInv
<1>4. ASSUME NEW n \in Nodes, (\E force, allow \in BOOLEAN : Enable(n, force, allow)) \/ Disable(n)
      PROVE  MaintInv'
  BY <1>2, <1>4 DEF Enable, Disable
<1>5. CASE Check \/ Refused \/ NoHost \/ Stopped \/ EnableDryRun \/ DisableDryRun
  BY <1>1, <1>2, <1>5 DEF Check, Refused, NoHost, Stopped, EnableDryRun, DisableDryRun
<1>6. ASSUME NEW yes \in BOOLEAN, Answer(yes) PROVE MaintInv'
  <2>1. CASE yes
    <3>1. maint' = maint \ {cmd.node} /\ cmd' = cmd /\ UNCHANGED world
      BY <1>6, <2>1 DEF Answer
    <3>2. EmptyInMaintenance'
      BY <3>1, StaysEmpty DEF world
    <3> QED
      BY <3>1, <3>2 DEF MaintInv
  <2> QED
    BY <1>1, <1>6, <2>1 DEF Answer
<1>7. CASE RunOperation
  <2>1. maint' = maint /\ cmd' = cmd /\ cmd.node \notin maint
    BY <1>7 DEF RunOperation
  <2>2. EmptyInMaintenance'
    BY <1>7, <2>1, StaysEmpty, OperationEffect
  <2> QED
    BY <2>1, <2>2 DEF MaintInv
<1>8. CASE OperationsDone
  <2>1. UNCHANGED <<world, maint, cmd>> /\ cmd.node \notin maint
    BY <1>8 DEF OperationsDone
  <2> QED
    BY <2>1, StaysEmpty DEF world, MaintInv
<1>9. CASE Verify
  <2>1. pc' = "none" /\ UNCHANGED world /\ cmd.node \in Nodes
    BY <1>9 DEF Verify, EndCommand, CommandInv
  <2>2. CASE cmd.kind = "enable" /\ VerifyChecks(cmd)
    <3>1. maint' = maint \cup {cmd.node}
      BY <1>9, <2>2 DEF Verify
    <3>2. cmd.node \notin nova /\ On(cmd.node) = {}
      <4>1. CASE cmd.node \in Compute
        BY <2>2, <4>1 DEF VerifyChecks, ComputeVerified
      <4>2. CASE cmd.node \notin Compute
        BY <2>1, <4>2, NodesAssumption DEF WorldOK, On
      <4> QED
        BY <4>1, <4>2
    <3>3. cmd.node \in Control => cmd.node \in cordoned
      BY <2>2 DEF VerifyChecks, CordonVerified
    <3>4. EmptyInMaintenance'
      BY <2>1, <3>1, <3>2, <3>3 DEF EmptyInMaintenance, On, world
    <3> QED
      BY <2>1, <3>4 DEF MaintInv
  <2>3. CASE ~(cmd.kind = "enable" /\ VerifyChecks(cmd))
    BY <1>2, <1>9, <2>1, <2>3 DEF Verify
  <2> QED
    BY <2>2, <2>3
<1>10. ASSUME NEW i \in Instances, (\E h \in Compute : Boot(i, h)) \/ Delete(i) PROVE MaintInv'
  <2>1. /\ UNCHANGED <<nova, cordoned, maint, cmd, pc>>
        /\ \E h \in nova \cup {Nowhere} : place' = [place EXCEPT ![i] = h]
    BY <1>10 DEF Boot, Delete
  <2>2. \A k \in Instances : place'[k] = place[k] \/ place'[k] \in nova \cup {Nowhere}
    BY <2>1 DEF WorldOK
  <2> QED
    BY <2>1, <2>2, StaysEmpty DEF MaintInv
<1>11. ASSUME NEW p \in Pods, Schedule(p) PROVE MaintInv'
  BY <1>11, StaysEmpty DEF Schedule, MaintInv
<1>12. ASSUME NEW n \in Nodes, SwitchOff(n) \/ SwitchOn(n) PROVE MaintInv'
  BY <1>12, StaysEmpty DEF SwitchOff, SwitchOn, MaintInv
<1>13. ASSUME NEW n \in Control, RemovalStopped(n) PROVE MaintInv'
  BY <1>13, StaysEmpty DEF RemovalStopped, MaintInv
<1> QED
  BY <1>3, <1>4, <1>5, <1>6, <1>7, <1>8, <1>9, <1>10, <1>11, <1>12, <1>13 DEF Next, Step

\* A node that `enable` reported to be in maintenance runs no instance, its Nova
\* service is disabled and it is cordoned, until `disable` or another `enable`
\* of it is confirmed: whatever is created, scheduled, switched off or migrated
\* meanwhile, and wherever an operation fails or a command is killed.
THEOREM MaintenanceIsEmpty == Spec => []EmptyInMaintenance
<1>1. MaintInv => EmptyInMaintenance
  BY DEF MaintInv
<1>2. TypeInv /\ MaintInv /\ [Next]_mvars => MaintInv'
  BY MaintStep
<1> QED
  BY <1>1, <1>2, TypeInit, TypeStep, MaintInit, PTL DEF Spec

----------------------------------------------------------------------------
(* Control nodes and the pods of the controllers                           *)

GuardInv == ControlInv /\ ScheduleInv

LEMMA GuardInit == Init => GuardInv
<1>1. Init => cmd.kind = "none"
  BY DEF Init, NoCmd
<1> QED
  BY <1>1 DEF Init, GuardInv, ControlInv, ScheduleInv, Checked, Pods

\* No command was checked, or it is the same as before; a pod of a controller
\* stays where it is.
LEMMA GuardFrame ==
  ASSUME GuardInv,
         \A p \in Pods : p[1] \in Controllers => pods'[p] = pods[p],
         cmd'.kind # "enable" \/ pc' = "check" \/ (cmd' = cmd /\ Checked /\ cordoned' \subseteq cordoned \cup {cmd.node})
  PROVE  GuardInv'
<1>1. Checked' => cmd' = cmd /\ Checked /\ cordoned' \subseteq cordoned \cup {cmd.node}
  BY DEF Checked
<1>2. ControlInv'
  BY <1>1 DEF GuardInv, ControlInv
<1>3. ScheduleInv'
  BY <1>1 DEF GuardInv, ScheduleInv
<1> QED
  BY <1>2, <1>3 DEF GuardInv

\* The checks of an enable command, before anything is changed.
LEMMA CheckedGuard ==
  ASSUME TypeInv, GuardInv, EnableChecks(cmd), UNCHANGED <<pods, cordoned, cmd>>, pc' # "check"
  PROVE  GuardInv'
<1>0. WorldOK
  BY TypeParts
<1>1. ASSUME NEW p \in Pods, p[1] \in Controllers PROVE pods[p] \in Control /\ pods[p] # cmd.node
  <2>1. pods[p] \in Control
    BY <1>1 DEF GuardInv, ControlInv
  <2>2. cmd.node \in Control => pods[p] # cmd.node
    BY <1>1 DEF EnableChecks, NoJujuControllerPodCheck
  <2> QED
    BY <2>1, <2>2
<1>2. ASSUME ~cmd.force, cmd.node \in Control PROVE Control \ (cordoned \cup {cmd.node}) # {}
  <2> DEFINE free == Control \ cordoned
  <2>1. Cardinality(free) > 1
    BY <1>2 DEF EnableChecks, NoLastControlRoleCheck
  <2>2. IsFiniteSet(free) /\ Cardinality(free) \in Nat
    BY NodesAssumption, FS_Subset, FS_CardinalityType
  <2>3. free # {} /\ \A x : free # {x}
    BY <2>1, <2>2, FS_EmptySet, FS_Singleton
  <2> QED
    BY <2>3
<1> QED
  BY <1>1, <1>2 DEF GuardInv, ControlInv, ScheduleInv, Checked

LEMMA GuardStep ==
  ASSUME TypeInv, GuardInv, [Next]_mvars
  PROVE  GuardInv'
<1>0. WorldOK /\ CommandInv /\ (EndCommand => cmd'.kind # "enable")
  BY TypeParts DEF EndCommand, NoCmd
<1> USE <1>0
<1>1. ASSUME UNCHANGED <<pods, cordoned>>, EndCommand \/ UNCHANGED <<cmd, pc>>
      PROVE  GuardInv'
  BY <1>1 DEF GuardInv, ControlInv, ScheduleInv, Checked
<1>2. ASSUME UNCHANGED <<pods, cordoned, cmd>>, pc # "check" PROVE GuardInv'
  BY <1>2 DEF GuardInv, ControlInv, ScheduleInv, Checked
<1>3. CASE UNCHANGED mvars
  BY <1>1, <1>3 DEF mvars
<1>4. ASSUME NEW n \in Nodes, NEW force \in BOOLEAN, NEW allow \in BOOLEAN, Enable(n, force, allow)
      PROVE  GuardInv'
  BY <1>4, GuardFrame DEF Enable, world
<1>5. ASSUME NEW n \in Nodes, Disable(n) PROVE GuardInv'
  <2>1. cmd'.kind = "disable"
    BY <1>5 DEF Disable, NoCmd
  <2> QED
    BY <1>5, <2>1, GuardFrame DEF Disable, world
<1>6. CASE Check
  BY <1>1, <1>6, CheckedGuard DEF Check, world
<1>7. CASE Refused \/ NoHost \/ Stopped \/ Verify
  BY <1>1, <1>7 DEF Refused, NoHost, Stopped, Verify, world
<1>8. CASE EnableDryRun \/ DisableDryRun \/ OperationsDone
  BY <1>2, <1>8 DEF EnableDryRun, DisableDryRun, OperationsDone, world
<1>9. ASSUME NEW yes \in BOOLEAN, Answer(yes) PROVE GuardInv'
  BY <1>1, <1>2, <1>9 DEF Answer, world
<1>10. CASE RunOperation
  <2>1. cmd' = cmd /\ pc' = pc /\ pc = "run" /\ Suits(cmd, Now)
    BY <1>10, RunOperationTypes DEF RunOperation
  <2>2. Now.op = "drain" => cmd.kind = "enable"
    BY <2>1 DEF Suits, DisableNames
  <2>3. \A p \in Pods : p[1] \in Controllers => pods'[p] = pods[p]
    BY <1>10, <2>1, <2>2, OperationEffect DEF GuardInv, ControlInv, Checked
  <2>4. cordoned' \subseteq cordoned \cup {cmd.node}
    BY <1>10, OperationEffect
  <2> QED
    BY <2>1, <2>3, <2>4, GuardFrame DEF Checked
<1>11. ASSUME NEW i \in Instances, (\E h \in Compute : Boot(i, h)) \/ Delete(i) PROVE GuardInv'
  BY <1>1, <1>11 DEF Boot, Delete
<1>12. ASSUME NEW p \in Pods, Schedule(p) PROVE GuardInv'
  <2>1. /\ UNCHANGED <<cordoned, cmd, pc>> /\ pods[p] = Nowhere
        /\ \E n \in Control : pods' = [pods EXCEPT ![p] = n]
    BY <1>12 DEF Schedule
  <2>2. \A q \in Pods : q[1] \in Controllers => q # p
    BY <2>1, NodesAssumption DEF GuardInv, ControlInv, Nodes
  <2>3. \A q \in Pods : q[1] \in Controllers => pods'[q] = pods[q]
    BY <2>1, <2>2 DEF WorldOK
  <2> QED
    BY <2>1, <2>3, GuardFrame DEF Checked
<1>13. ASSUME NEW n \in Nodes, SwitchOff(n) \/ SwitchOn(n) PROVE GuardInv'
  BY <1>1, <1>13 DEF SwitchOff, SwitchOn
<1>14. ASSUME NEW n \in Control, RemovalStopped(n) PROVE GuardInv'
  <2>1. cmd'.kind = "none" /\ UNCHANGED pods
    BY <1>14 DEF RemovalStopped, NoCmd
  <2> QED
    BY <2>1, GuardFrame
<1> QED
  BY <1>3, <1>4, <1>5, <1>6, <1>7, <1>8, <1>9, <1>10, <1>11, <1>12, <1>13, <1>14 DEF Next, Step

\* Which steps of an enable command change what is schedulable, and what is
\* evicted.
LEMMA ControlLeft ==
  ASSUME TypeInv, GuardInv, [Next]_mvars, cmd.kind = "enable"
  PROVE  /\ ~ cmd.force /\ cordoned' # cordoned => Control \ cordoned' # {}
         /\ \A p \in Pods : p[1] \in Controllers => pods'[p] = pods[p]
<1>0. WorldOK /\ CommandInv /\ cmd # NoCmd
  BY TypeParts DEF NoCmd
<1>1. CASE RunOperation
  <2>1. pc = "run" /\ Suits(cmd, Now) /\ Checked
    BY <1>1, RunOperationTypes DEF RunOperation, Checked
  <2>2. cordoned' # cordoned => cmd.node \in Control
    BY <1>1, <2>1, OperationEffect DEF Suits, EnableNames
  <2>3. ~cmd.force /\ cordoned' # cordoned => Control \ cordoned' # {}
    BY <1>1, <2>1, <2>2, OperationEffect DEF GuardInv, ScheduleInv
  <2>4. \A p \in Pods : p[1] \in Controllers => pods'[p] = pods[p]
    BY <1>1, <2>1, OperationEffect DEF GuardInv, ControlInv
  <2> QED
    BY <2>3, <2>4
<1>2. ASSUME NEW p \in Pods, Schedule(p)
      PROVE  cordoned' = cordoned /\ \A q \in Pods : q[1] \in Controllers => pods'[q] = pods[q]
  <2>1. pods[p] = Nowhere /\ \E n \in Control : pods' = [pods EXCEPT ![p] = n]
    BY <1>2 DEF Schedule
  <2>2. \A q \in Pods : q[1] \in Controllers => q # p
    BY <2>1, NodesAssumption DEF GuardInv, ControlInv, Nodes
  <2> QED
    BY <1>0, <1>2, <2>1, <2>2 DEF Schedule, WorldOK
<1>3. CASE Step /\ ~RunOperation
  BY <1>3 DEF Step, Check, Refused, NoHost, Verify, EnableDryRun, DisableDryRun, OperationsDone,
     Answer, world
<1>4. CASE Stopped
  BY <1>4 DEF Stopped, world
<1>5. ASSUME NEW n \in Nodes,
             \/ \E force, allow \in BOOLEAN : Enable(n, force, allow)
             \/ Disable(n) \/ SwitchOff(n) \/ SwitchOn(n)
      PROVE  UNCHANGED <<cordoned, pods>>
  BY <1>5 DEF Enable, Disable, SwitchOff, SwitchOn, world
<1>6. ASSUME NEW i \in Instances, (\E h \in Compute : Boot(i, h)) \/ Delete(i)
      PROVE  UNCHANGED <<cordoned, pods>>
  BY <1>6 DEF Boot, Delete
<1>7. ASSUME NEW n \in Control PROVE ~RemovalStopped(n)
  BY <1>0 DEF RemovalStopped
<1>8. CASE UNCHANGED mvars
  BY <1>8 DEF mvars
<1> QED
  BY <1>1, <1>2, <1>3, <1>4, <1>5, <1>6, <1>7, <1>8 DEF Next

\* Without --force an enable command leaves a control node that is schedulable,
\* although its check is older than the cordon and removals that stopped left
\* others cordoned; no enable command evicts a pod of the Juju controllers.
THEOREM ControlIsLeft == Spec => LeavesControl
<1>1. TypeInv /\ GuardInv /\ [Next]_mvars => GuardInv'
  BY GuardStep
<1>2. TypeInv /\ GuardInv /\ [Next]_mvars =>
        [cmd.kind = "enable" =>
           /\ ~ cmd.force /\ cordoned' # cordoned => Control \ cordoned' # {}
           /\ \A p \in Pods : p[1] \in Controllers => pods'[p] = pods[p]]_mvars
  BY ControlLeft
<1> QED
  BY <1>1, <1>2, TypeInit, TypeStep, GuardInit, PTL DEF Spec, LeavesControl

----------------------------------------------------------------------------
(* What disabling undoes                                                   *)

LEMMA RestoreInit == Init => RestoreInv
BY DEF Init, RestoreInv, NoCmd

LEMMA RestoreFrame ==
  ASSUME RestoreInv, UNCHANGED <<nova, ceph, cmd, pc, ops>>
  PROVE  RestoreInv'
BY DEF RestoreInv

LEMMA RestoreStep ==
  ASSUME TypeInv, RestoreInv, [Next]_mvars
  PROVE  RestoreInv'
<1>0. /\ WorldOK /\ CommandInv
      /\ EndCommand => cmd'.kind # "disable"
  BY TypeParts DEF EndCommand, NoCmd
<1> USE <1>0
<1>1. CASE UNCHANGED mvars
  BY <1>1, RestoreFrame DEF mvars
<1>2. ASSUME EndCommand \/ pc' \in {"check", "dry run"} \/ cmd'.kind = "enable" PROVE RestoreInv'
  BY <1>2 DEF RestoreInv
<1>3. ASSUME pc \in {"ask", "run"}, UNCHANGED <<nova, ceph, cmd, ops>> PROVE RestoreInv'
  BY <1>3 DEF RestoreInv
<1>4. ASSUME NEW n \in Nodes, (\E force, allow \in BOOLEAN : Enable(n, force, allow)) \/ Disable(n)
      PROVE  RestoreInv'
  BY <1>2, <1>4 DEF Enable, Disable
<1>5. CASE Check \/ Refused \/ NoHost \/ Stopped \/ Verify
  BY <1>2, <1>5 DEF Check, Refused, NoHost, Stopped, Verify
<1>6. CASE EnableDryRun
  BY <1>2, <1>6 DEF EnableDryRun
<1>7. CASE DisableDryRun
  <2>1. /\ cmd.node \in Compute => [op |-> "nova on"] \in ToSet(ops')
        /\ cmd.node \in Storage => [op |-> "ceph exit"] \in ToSet(ops')
        /\ UNCHANGED <<world, cmd>> /\ cmd.node \in Nodes
    BY <1>7, DisableOperationsOf DEF DisableDryRun, WorldOK, CommandInv
  <2> QED
    BY <2>1 DEF RestoreInv, world, WorldOK
<1>8. ASSUME NEW yes \in BOOLEAN, Answer(yes) PROVE RestoreInv'
  BY <1>2, <1>3, <1>8 DEF Answer, world
<1>9. CASE RunOperation
  <2> SUFFICES ASSUME cmd.kind = "disable" PROVE RestoreInv'
    BY <1>9 DEF RunOperation, RestoreInv
  <2>1. /\ pc = "run" /\ pc' = pc /\ cmd' = cmd /\ Suits(cmd, Now)
        /\ \A x : x \in ToSet(ops) <=> x = Now \/ x \in ToSet(ops')
    BY <1>9, RunOperationTypes DEF RunOperation
  <2>2. Now.op \in DisableNames
    BY <2>1 DEF Suits
  <2>3. cmd.node \in nova' \cup (Nodes \ Compute) \/ [op |-> "nova on"] \in ToSet(ops')
    <3>1. CASE Now = [op |-> "nova on"]
      BY <1>9, <3>1 DEF RunOperation, RunWatcherAudit, EnableHypervisor, MicroCephAction,
         CordonControlRoleNode, UncordonControlRoleNode, DrainControlRoleNode
    <3>2. CASE Now # [op |-> "nova on"]
      <4>1. cmd.node \in nova \cup (Nodes \ Compute) \/ [op |-> "nova on"] \in ToSet(ops')
        BY <2>1, <3>2 DEF RestoreInv
      <4>2. nova \subseteq nova'
        BY <1>9, <2>2 DEF RunOperation, RunWatcherAudit, EnableHypervisor, MicroCephAction,
           CordonControlRoleNode, UncordonControlRoleNode, DrainControlRoleNode, DisableNames
      <4> QED
        BY <4>1, <4>2
    <3> QED
      BY <3>1, <3>2
  <2>4. cmd.node \notin ceph' \/ [op |-> "ceph exit"] \in ToSet(ops')
    <3>1. CASE Now = [op |-> "ceph exit"]
      BY <1>9, <3>1 DEF RunOperation, RunWatcherAudit, EnableHypervisor, MicroCephAction,
         CordonControlRoleNode, UncordonControlRoleNode, DrainControlRoleNode
    <3>2. CASE Now # [op |-> "ceph exit"]
      <4>1. cmd.node \notin ceph \/ [op |-> "ceph exit"] \in ToSet(ops')
        BY <2>1, <3>2 DEF RestoreInv
      <4>2. ceph' \subseteq ceph
        BY <1>9, <2>2 DEF RunOperation, RunWatcherAudit, EnableHypervisor, MicroCephAction,
           CordonControlRoleNode, UncordonControlRoleNode, DrainControlRoleNode, DisableNames
      <4> QED
        BY <4>1, <4>2
    <3> QED
      BY <3>1, <3>2
  <2> QED
    BY <2>1, <2>3, <2>4 DEF RestoreInv
<1>10. CASE OperationsDone
  BY <1>3, <1>10 DEF OperationsDone, world
<1>11. ASSUME NEW i \in Instances, (\E h \in Compute : Boot(i, h)) \/ Delete(i) PROVE RestoreInv'
  BY <1>11, RestoreFrame DEF Boot, Delete
<1>12. ASSUME NEW p \in Pods, Schedule(p) PROVE RestoreInv'
  BY <1>12, RestoreFrame DEF Schedule
<1>13. ASSUME NEW n \in Nodes, SwitchOff(n) \/ SwitchOn(n) PROVE RestoreInv'
  BY <1>13, RestoreFrame DEF SwitchOff, SwitchOn
<1>14. ASSUME NEW n \in Control, RemovalStopped(n) PROVE RestoreInv'
  BY <1>14, RestoreFrame DEF RemovalStopped
<1> QED
  BY <1>1, <1>4, <1>5, <1>6, <1>7, <1>8, <1>9, <1>10, <1>11, <1>12, <1>13, <1>14 DEF Next, Step

\* A disable command whose checks passed has nothing left to run.
LEMMA Restored ==
  ASSUME TypeInv, RestoreInv, pc = "verify", cmd.kind = "disable", VerifyChecks(cmd)
  PROVE  /\ cmd.node \notin cordoned /\ cmd.node \notin ceph
         /\ cmd.node \in Compute => cmd.node \in nova
<1>0. WorldOK /\ ops = <<>>
  BY TypeParts DEF CommandInv
<1>1. cmd.node \in nova \cup (Nodes \ Compute) /\ cmd.node \notin ceph
  BY <1>0, ElementsNone DEF RestoreInv
<1>2. cmd.node \notin cordoned
  BY <1>0 DEF VerifyChecks, CordonVerified, WorldOK
<1> QED
  BY <1>1, <1>2

\* A disable command that reported success left the node schedulable, out of
\* Ceph maintenance and with its Nova service enabled, whatever an enable that
\* stopped half way or a removal had left of it.
THEOREM DisableUndoes == Spec => DisableRestores
<1>1. TypeInv /\ RestoreInv /\ [Next]_mvars => RestoreInv'
  BY RestoreStep
<1>2. TypeInv /\ RestoreInv /\ [Next]_mvars =>
        [LET n == cmd.node
         IN  pc = "verify" /\ cmd.kind = "disable" /\ pc' = "none" /\ faults' = faults
             /\ VerifyChecks(cmd)
             => n \notin cordoned /\ n \notin ceph /\ (n \in Compute => n \in nova)]_mvars
  BY Restored
<1> QED
  BY <1>1, <1>2, TypeInit, TypeStep, RestoreInit, PTL DEF Spec, DisableRestores

----------------------------------------------------------------------------
(* Features: the state of the books                                        *)

\* The kinds of things and their names
Kinds ==
  {"openstack", "hypervisor", "cinder-volume", "storage-backend", "manila-data", "consul-client",
   "cni", "amphora-setup", "k8s-plan", "cos", "agent", "agent-infra", "hardware-observer",
   "ubuntu-pro", "db", "saas", "k8s", "juju", "keystone", "vault"}
Names ==
  {"active", "amphora_enabled", "aodh", "barbican", "barbican-offer", "bind", "bind_ip", "bind_pool",
   "caaph_proxy", "capi_crds", "ceilometer", "ceilometer-offer", "ceph-nfs", "cilium_not_exclusive",
   "cluster_api", "collector", "conductor-groups", "consul-management", "consul-storage",
   "consul-storage_ip", "consul-storage_pool", "consul-tenant", "cos", "cos_grants", "cos_infra",
   "cos_ip", "cos_machines", "cos_offers", "cos_openstack", "cos_pool", "cos_storage", "designate",
   "gnocchi", "hardware-observer", "heat", "images-sync", "ironic", "kubeconfig_secret", "ldap-apps",
   "magnum", "magnum_kubeconfig", "manila", "manila-cephfs", "manila-data", "masakari",
   "masakari-offer", "model", "multus", "multus_conf", "notifications", "observability.embedded",
   "observability.external", "octavia", "octavia_amphora", "octavia_tls", "openstack-port-cni",
   "orc_crds", "plugin_heat", "plugin_magnum", "plugin_manila", "plugin_octavia", "plugin_watcher",
   "public_tls", "remote_cos_relations", "resources", "shards", "switch-secrets", "switch_secrets",
   "telemetry", "temp_url_secret", "tempest", "tls.ca", "tls.self-signed", "tls.vault", "token",
   "vault", "watcher"}
Things == Kinds \X Names
Grouped == F!TlsProviders \cup F!ObservabilityProviders

\* The state that atoms and calls read and write, as a record
Book(v, l, fl, d, m) == [vars |-> v, live |-> l, flag |-> fl, dirty |-> d, menu |-> m]
Books == [vars : SUBSET Things, live : SUBSET Things, flag : [F!Features -> BOOLEAN],
          dirty : SUBSET (F!Features \cup {"amphora"}), menu : Menus]
books == Book(vars, live, flag, dirty, menu)
Flags(s) == {f \in F!Features : s.flag[f]}

\* Who consumes what of another plan
CosPlans == {"openstack", "agent"} \cup (IF Maas THEN {"agent-infra"} ELSE {})
Stack == <<"cos", "cos">>
Links ==
  {<< <<"hypervisor", "barbican-offer">>, <<"openstack", "barbican">> >>,
   << <<"hypervisor", "ceilometer-offer">>, <<"openstack", "telemetry">> >>,
   << <<"hypervisor", "masakari-offer">>, <<"openstack", "masakari">> >>,
   << <<"manila-data", "manila-data">>, <<"openstack", "manila">> >>}
  \cup {<< <<"consul-client", n>>, <<"openstack", n>> >> : n \in F!ConsulServers}
  \cup {<< <<p, "cos_offers">>, Stack >> : p \in CosPlans}
Amphora == <<"openstack", "octavia_amphora">>
AmphoraNeeds == F!Of("cni", F!CniApps) \cup F!Of("amphora-setup", {"resources"})
AmphoraLinks == {<<Amphora, y>> : y \in AmphoraNeeds}

\* A configuration of Amphora that did not reach its end may leave it without them.
LinksOf(s) == Links \cup (IF "amphora" \in s.dirty THEN {} ELSE AmphoraLinks)

Plans == {"openstack", "hypervisor", "cinder-volume", "storage-backend", "manila-data", "consul-client",
          "cni", "amphora-setup", "k8s-plan", "cos", "agent", "agent-infra", "hardware-observer"}

\* What exists, or will with the next apply of its plan (the variables of manila-data
\* outlive it); and what exists and stays.
Used(s) == s.live \cup {x \in s.vars : x[1] # "manila-data"}
Provided(s) == {y \in s.live \cap s.vars : y[1] \in Plans}

Linked(s) == \A l \in LinksOf(s) : l[1] \in Used(s) => l[2] \in Provided(s)
Fitting(x) ==
  /\ x[1] = "consul-client" => x[2] \in F!ConsulServers
  /\ x[2] = "cos_offers" => x[1] \in CosPlans
Shaped(s) == \A x \in s.vars \cup s.live : Fitting(x)
RowsRight(s) ==
  \A G \in {F!TlsProviders, F!ObservabilityProviders} :
     \A f \in G : s.flag[f] /\ f \notin s.dirty => \A g \in G : (<<"db", g>> \in s.live) <=> (g = f)

Req(f, rows) ==
    CASE f \in {"resource-optimization"} \cup F!ObservabilityProviders -> {"telemetry"}
      [] f = "maintenance" -> {"resource-optimization"}
      [] f \in {"secrets", "tls.vault"} -> {"vault"}
      [] f = "caas" -> {"secrets", "loadbalancer"}
      [] f = "loadbalancer" /\ F!AmphoraRow \in rows -> {"secrets"}
      [] OTHER -> {}
RequirementsRight(s) == \A f \in Flags(s) : Req(f, s.live) \subseteq Flags(s)

Good(s) ==
  /\ Flags(s) \subseteq s.menu /\ s.dirty \subseteq s.menu \cup {"amphora"}
  /\ Linked(s) /\ Shaped(s) /\ RowsRight(s) /\ RequirementsRight(s)
GoodBooks == {s \in Books : Good(s)}

----------------------------------------------------------------------------
(* Atoms and calls                                                         *)

AtomPlans == Plans \cup {"ubuntu-pro"}
Simple ==
  [op : {"need", "lack", "make", "drop"}, things : SUBSET Things]
  \cup [op : {"store"}, on : SUBSET Things, off : SUBSET Things]
  \cup [op : {"forget", "apply", "destroy"}, plan : AtomPlans]
  \cup [op : {"only"}, plan : AtomPlans, things : SUBSET Things]
Conditional == [op : {"stored", "there"}, x : Things, is : BOOLEAN, steps : Seq(Simple)]
Calls ==
  [op : {"requirements", "require", "begin", "end", "enabled", "disabled", "drain", "hook"},
   f : F!Features \cup {"amphora"}]
Atoms == Simple \cup Conditional \cup Calls

\* Assertions about a sequence of atoms: one before each, and one at the end, such that
\* each atom leads from its own to the next, by the rules K.
Triple(K, P, t, Q) ==
  /\ t \in Seq(Atoms)
  /\ \E A \in [1..(Len(t) + 1) -> SUBSET GoodBooks] :
        /\ P \subseteq A[1] /\ A[Len(t) + 1] \subseteq Q
        /\ \A i \in 1..Len(t) : <<A[i], t[i], A[i + 1]>> \in K
Rising(K) ==
  \A P, Q, R \in SUBSET GoodBooks, a \in Atoms :
     <<P, a, Q>> \in K /\ Q \subseteq R => <<P, a, R>> \in K

LEMMA TripleEmpty ==
  ASSUME NEW K, NEW P \in SUBSET GoodBooks, NEW Q, P \subseteq Q
  PROVE  Triple(K, P, <<>>, Q)
<1> DEFINE A == [i \in 1..(0 + 1) |-> P]
<1>1. Len(<<>>) = 0 /\ <<>> \in Seq(Atoms)
  OBVIOUS
<1>2. A \in [1..(0 + 1) -> SUBSET GoodBooks] /\ A[1] = P /\ A[0 + 1] = P
  OBVIOUS
<1> HIDE DEF A
<1> QED
  BY <1>1, <1>2 DEF Triple

LEMMA TripleOne ==
  ASSUME NEW K, NEW P \in SUBSET GoodBooks, NEW Q \in SUBSET GoodBooks, NEW a \in Atoms, <<P, a, Q>> \in K
  PROVE  Triple(K, P, <<a>>, Q)
<1> DEFINE A == [i \in 1..(1 + 1) |-> IF i = 1 THEN P ELSE Q]
<1>1. Len(<<a>>) = 1 /\ <<a>> \in Seq(Atoms) /\ <<a>>[1] = a
  OBVIOUS
<1>2. A \in [1..(1 + 1) -> SUBSET GoodBooks] /\ A[1] = P /\ A[1 + 1] = Q
  OBVIOUS
<1> HIDE DEF A
<1>3. \A i \in 1..1 : <<A[i], <<a>>[i], A[i + 1]>> \in K
  BY <1>1, <1>2
<1> QED
  BY <1>1, <1>2, <1>3 DEF Triple

\* One after the other
LEMMA TripleThen ==
  ASSUME NEW K, Rising(K), NEW P, NEW Q, NEW R, NEW s, NEW t, Triple(K, P, s, Q), Triple(K, Q, t, R)
  PROVE  Triple(K, P, s \o t, R)
<1>1. s \in Seq(Atoms) /\ t \in Seq(Atoms) /\ Len(s) \in Nat /\ Len(t) \in Nat
  BY DEF Triple
<1>2. PICK A \in [1..(Len(s) + 1) -> SUBSET GoodBooks] :
        /\ P \subseteq A[1] /\ A[Len(s) + 1] \subseteq Q
        /\ \A i \in 1..Len(s) : <<A[i], s[i], A[i + 1]>> \in K
  BY DEF Triple
<1>3. PICK B \in [1..(Len(t) + 1) -> SUBSET GoodBooks] :
        /\ Q \subseteq B[1] /\ B[Len(t) + 1] \subseteq R
        /\ \A i \in 1..Len(t) : <<B[i], t[i], B[i + 1]>> \in K
  BY DEF Triple
<1>4. s \o t \in Seq(Atoms) /\ Len(s \o t) = Len(s) + Len(t)
      /\ (\A i \in 1..Len(s) : (s \o t)[i] = s[i] /\ s[i] \in Atoms)
      /\ \A i \in (Len(s) + 1)..(Len(s) + Len(t)) : (s \o t)[i] = t[i - Len(s)]
  BY <1>1
<1> DEFINE n == Len(s)
           m == Len(t)
           C == [i \in 1..(n + m + 1) |-> IF i <= n THEN A[i] ELSE B[i - n]]
<1>5. C \in [1..(n + m + 1) -> SUBSET GoodBooks]
  <2> SUFFICES ASSUME NEW i \in 1..(n + m + 1)
               PROVE  (IF i <= n THEN A[i] ELSE B[i - n]) \in SUBSET GoodBooks
    OBVIOUS
  <2>1. i <= n => i \in 1..(n + 1)
    BY <1>1
  <2>2. ~(i <= n) => i - n \in 1..(m + 1)
    BY <1>1
  <2> QED
    BY <1>2, <1>3, <2>1, <2>2
<1>6. P \subseteq C[1]
  <2>1. 1 \in 1..(n + m + 1) /\ (~(1 <= n) => n = 0)
    BY <1>1
  <2> QED
    BY <1>2, <1>3, <2>1
<1>7. C[n + m + 1] \subseteq R
  <2>1. n + m + 1 \in 1..(n + m + 1) /\ ~(n + m + 1 <= n) /\ (n + m + 1) - n = m + 1
    BY <1>1
  <2> QED
    BY <1>3, <2>1
<1>8. ASSUME NEW i \in 1..(n + m) PROVE <<C[i], (s \o t)[i], C[i + 1]>> \in K
  <2>0. i \in 1..(n + m + 1) /\ i + 1 \in 1..(n + m + 1)
    BY <1>1
  <2>1. CASE i + 1 <= n
    <3>1. C[i] = A[i] /\ C[i + 1] = A[i + 1] /\ i \in 1..n
      BY <1>1, <2>0, <2>1
    <3> QED
      BY <1>2, <1>4, <3>1
  <2>2. CASE i = n
    <3>1. C[i] = A[i] /\ C[i + 1] = B[1] /\ i \in 1..n
      BY <1>1, <2>0, <2>2
    <3>2. <<A[i], s[i], A[i + 1]>> \in K /\ A[i + 1] \subseteq B[1]
      BY <1>2, <1>3, <2>2, <3>1
    <3>3. A[i] \in SUBSET GoodBooks /\ A[i + 1] \in SUBSET GoodBooks /\ B[1] \in SUBSET GoodBooks
      <4>1. i \in 1..(Len(s) + 1) /\ i + 1 \in 1..(Len(s) + 1) /\ 1 \in 1..(Len(t) + 1)
        BY <1>1, <2>0, <2>2
      <4> QED
        BY <1>2, <1>3, <4>1
    <3>4. s[i] \in Atoms /\ (s \o t)[i] = s[i]
      BY <1>4, <3>1
    <3>5. \A a \in Atoms : <<A[i], a, A[i + 1]>> \in K => <<A[i], a, B[1]>> \in K
      BY <3>2, <3>3 DEF Rising
    <3>6. <<A[i], s[i], B[1]>> \in K
      BY <3>2, <3>4, <3>5
    <3> QED
      BY <3>1, <3>4, <3>6
  <2>3. CASE i > n
    <3>1. C[i] = B[i - n] /\ C[i + 1] = B[(i - n) + 1] /\ i - n \in 1..m /\ i \in (n + 1)..(n + m)
      BY <1>1, <2>0, <2>3
    <3> QED
      BY <1>3, <1>4, <3>1
  <2>4. i + 1 <= n \/ i = n \/ i > n
    BY <1>1, <2>0
  <2> QED
    BY <2>1, <2>2, <2>3, <2>4
<1> HIDE DEF C
<1> QED
  BY <1>4, <1>5, <1>6, <1>7, <1>8 DEF Triple

LEMMA TripleFits ==
  ASSUME NEW K, NEW P, NEW Q, NEW R, NEW S, NEW t, Triple(K, Q, t, R), P \subseteq Q, R \subseteq S
  PROVE  Triple(K, P, t, S)
BY DEF Triple

LEMMA TripleMore ==
  ASSUME NEW K, NEW L, K \subseteq L, NEW P, NEW Q, NEW t, Triple(K, P, t, Q)
  PROVE  Triple(L, P, t, Q)
BY DEF Triple

\* The first atom, and the rest
LEMMA TripleHead ==
  ASSUME NEW K, NEW P, NEW Q, NEW t, Triple(K, P, t, Q), t # <<>>
  PROVE  \E A, B \in SUBSET GoodBooks :
           /\ P \subseteq A /\ Head(t) \in Atoms /\ <<A, Head(t), B>> \in K /\ Triple(K, B, Tail(t), Q)
<1>1. t \in Seq(Atoms) /\ Len(t) \in Nat /\ Len(t) >= 1 /\ Head(t) = t[1] /\ t[1] \in Atoms
  BY DEF Triple
<1>2. PICK A \in [1..(Len(t) + 1) -> SUBSET GoodBooks] :
        /\ P \subseteq A[1] /\ A[Len(t) + 1] \subseteq Q
        /\ \A i \in 1..Len(t) : <<A[i], t[i], A[i + 1]>> \in K
  BY DEF Triple
<1> DEFINE n == Len(t) - 1
           u == Tail(t)
           B == [i \in 1..(n + 1) |-> A[i + 1]]
<1>3. u \in Seq(Atoms) /\ Len(u) = n /\ n \in Nat /\ \A i \in 1..n : u[i] = t[i + 1]
  BY <1>1
<1>4. B \in [1..(n + 1) -> SUBSET GoodBooks]
  <2> SUFFICES ASSUME NEW i \in 1..(n + 1) PROVE A[i + 1] \in SUBSET GoodBooks
    OBVIOUS
  <2>1. i + 1 \in 1..(Len(t) + 1)
    BY <1>1
  <2> QED
    BY <1>2, <2>1
<1>5. B[1] = A[1 + 1] /\ B[n + 1] = A[Len(t) + 1]
  BY <1>1
<1>6. ASSUME NEW i \in 1..n PROVE <<B[i], u[i], B[i + 1]>> \in K
  <2>1. i + 1 \in 1..Len(t) /\ i \in 1..(n + 1) /\ i + 1 \in 1..(n + 1)
    BY <1>1
  <2>2. B[i] = A[i + 1] /\ B[i + 1] = A[(i + 1) + 1] /\ u[i] = t[i + 1]
    BY <1>3, <2>1
  <2> QED
    BY <1>2, <2>1, <2>2
<1> HIDE DEF B, u
<1>7. Triple(K, A[1 + 1], u, Q)
  BY <1>2, <1>3, <1>4, <1>5, <1>6 DEF Triple
<1>8. A[1] \in SUBSET GoodBooks /\ A[1 + 1] \in SUBSET GoodBooks /\ <<A[1], t[1], A[1 + 1]>> \in K
  BY <1>1, <1>2
<1> QED
  BY <1>1, <1>2, <1>7, <1>8 DEF u

----------------------------------------------------------------------------
(* The rules: what an atom or a call has to lead to                        *)

NextLive(a, s) ==
  LET L == F!Lives(a, s.vars, s.live)
  IN  F!Settled(L \cup F!Brings(IF a.op = "apply" THEN {x \in L : x[1] = a.plan} ELSE {}))
Does(a, s) == Book(F!Stored(a, s.vars), NextLive(a, s), s.flag, s.dirty, s.menu)

Rules0 ==
  {r \in (SUBSET GoodBooks) \X Simple \X (SUBSET GoodBooks) :
     \A s \in r[1] : F!Goes(r[2], s.live) => Does(r[2], s) \in r[3]}

Meets(a, s) == IF a.op = "stored" THEN (a.x \in s.vars) = a.is ELSE (a.x \in s.live) = a.is
Rules1 ==
  {r \in (SUBSET GoodBooks) \X Conditional \X (SUBSET GoodBooks) :
     /\ Triple(Rules0, {s \in r[1] : Meets(r[2], s)}, r[2].steps, r[3])
     /\ {s \in r[1] : ~ Meets(r[2], s)} \subseteq r[3]}

\* The rows of clusterd that requirements and checks read
Watched == {F!AmphoraRow} \cup {<<"db", g>> : g \in Grouped}
Kept(s, r) ==
  Flags(s) \subseteq Flags(r) /\ s.live \cap Watched = r.live \cap Watched /\ s.menu = r.menu

Raised(s, f, value, d) ==
  Book(s.vars, s.live, [s.flag EXCEPT ![f] = value], d, s.menu)
Dirtied(s, d) == Book(s.vars, s.live, s.flag, d, s.menu)

Staying(m) == {r \in GoodBooks : r.menu = m}

\* Of the calls that expand to commands: what the command makes of the books.
Leads(s, a, Q) ==
  CASE a.op = "begin" -> Dirtied(s, s.dirty \cup {a.f}) \in Q
    [] a.op = "end" -> Dirtied(s, s.dirty \ {a.f}) \in Q
    [] a.op = "enabled" -> a.f \in F!Features /\ Raised(s, a.f, TRUE, s.dirty \ {a.f}) \in Q
    [] a.op = "disabled" -> a.f \in F!Features /\ Raised(s, a.f, FALSE, s.dirty \ {a.f}) \in Q
    [] a.op = "require" ->
         /\ a.f \in s.menu /\ a.f \notin Grouped
         /\ \A r \in GoodBooks : Kept(s, r) /\ a.f \in Flags(r) => r \in Q
    [] a.op = "requirements" ->
         /\ a.f \in s.menu
         /\ \A r \in GoodBooks : Kept(s, r) /\ Req(a.f, r.live) \subseteq Flags(r) => r \in Q
    [] OTHER -> a.f \in s.menu /\ Staying(s.menu) \subseteq Q
RulesC ==
  {r \in (SUBSET GoodBooks) \X Calls \X (SUBSET GoodBooks) : \A s \in r[1] : Leads(s, r[2], r[3])}

Rules == Rules0 \cup Rules1 \cup RulesC

LEMMA OpsDiffer ==
  /\ \A a \in Simple : a.op \in {"need", "lack", "make", "drop", "store", "forget", "apply", "destroy", "only"}
  /\ \A a \in Conditional : a.op \in {"stored", "there"}
  /\ \A a \in Calls : a.op \in {"requirements", "require", "begin", "end", "enabled", "disabled", "drain", "hook"}
BY DEF Simple, Conditional, Calls

LEMMA Rules0Rise == Rising(Rules0)
BY DEF Rising, Rules0

LEMMA RulesRise == Rising(Rules)
<1> SUFFICES ASSUME NEW P \in SUBSET GoodBooks, NEW Q \in SUBSET GoodBooks, NEW R \in SUBSET GoodBooks,
                    NEW a \in Atoms, <<P, a, Q>> \in Rules, Q \subseteq R
             PROVE  <<P, a, R>> \in Rules
  BY DEF Rising
<1>1. CASE <<P, a, Q>> \in Rules0
  BY <1>1 DEF Rules0, Rules
<1>2. CASE <<P, a, Q>> \in Rules1
  <2>1. a \in Conditional /\ Triple(Rules0, {s \in P : Meets(a, s)}, a.steps, Q)
        /\ {s \in P : ~ Meets(a, s)} \subseteq Q
    BY <1>2 DEF Rules1
  <2>2. Triple(Rules0, {s \in P : Meets(a, s)}, a.steps, R)
    BY <2>1, TripleFits
  <2> QED
    BY <2>1, <2>2 DEF Rules1, Rules
<1>3. CASE <<P, a, Q>> \in RulesC
  <2>1. a \in Calls /\ \A s \in P : Leads(s, a, Q)
    BY <1>3 DEF RulesC
  <2>2. ASSUME NEW s \in P PROVE Leads(s, a, R)
    <3>1. Leads(s, a, Q)
      BY <2>1
    <3> QED
      BY <3>1 DEF Leads
  <2> QED
    BY <2>1, <2>2 DEF RulesC, Rules
<1> QED
  BY <1>1, <1>2, <1>3 DEF Rules

----------------------------------------------------------------------------
(* What a simple atom does to the things                                   *)

\* What comes with an apply
Brought == {x \in Things : x[1] \in {"saas", "k8s"} /\ x[2] # "cos_offers"}

LEMMA BringsLittle == ASSUME NEW L PROVE F!Brings(L) \subseteq Brought
<1> DEFINE D == {<<"hypervisor", "barbican-offer">>, <<"hypervisor", "ceilometer-offer">>,
                 <<"hypervisor", "masakari-offer">>, <<"openstack", "cos_offers">>,
                 <<"agent", "cos_offers">>, <<"agent-infra", "cos_offers">>, <<"cni", "multus">>}
           b(x) == CASE x[2] = "barbican-offer" -> <<"saas", "barbican">>
                     [] x[2] = "ceilometer-offer" -> <<"saas", "ceilometer">>
                     [] x[2] = "masakari-offer" -> <<"saas", "masakari">>
                     [] x[1] = "openstack" -> <<"saas", "cos_openstack">>
                     [] x[1] = "agent" -> <<"saas", "cos_machines">>
                     [] x[1] = "agent-infra" -> <<"saas", "cos_infra">>
                     [] x[1] = "cni" -> <<"k8s", "multus_conf">>
           with == [x \in D |-> b(x)]
<1>1. F!Brings(L) = {with[x] : x \in L \cap DOMAIN with}
  BY DEF F!Brings
<1>2. \A x \in D : b(x) \in Brought
  <2>1. /\ <<"saas", "barbican">> \in Brought /\ <<"saas", "ceilometer">> \in Brought
        /\ <<"saas", "masakari">> \in Brought /\ <<"saas", "cos_openstack">> \in Brought
        /\ <<"saas", "cos_machines">> \in Brought /\ <<"saas", "cos_infra">> \in Brought
        /\ <<"k8s", "multus_conf">> \in Brought
    <3>1. ASSUME NEW p \in {"saas", "k8s"}, NEW n \in Names, n # "cos_offers" PROVE <<p, n>> \in Brought
      BY <3>1 DEF Brought, Things, Kinds
    <3> QED
      BY <3>1 DEF Names
  <2>2. ASSUME NEW x \in D, x[2] \in {"barbican-offer", "ceilometer-offer", "masakari-offer"}
        PROVE  b(x) \in Brought
    BY <2>1, <2>2
  <2>3. ASSUME NEW x \in D, x[2] \in {"cos_offers", "multus"}
        PROVE  b(x) \in Brought
    <3>1. x[1] \in {"openstack", "agent", "agent-infra", "cni"}
          /\ x[2] \notin {"barbican-offer", "ceilometer-offer", "masakari-offer"}
      BY <2>3
    <3> QED
      BY <2>1, <3>1
  <2>4. \A x \in D : x[2] \in {"barbican-offer", "ceilometer-offer", "masakari-offer", "cos_offers", "multus"}
    OBVIOUS
  <2> QED
    BY <2>2, <2>3, <2>4
<1> HIDE DEF D, b
<1> QED
  BY <1>1, <1>2

LEMMA HostsItself ==
  ASSUME NEW x \in Things, x[1] \in Plans \cup {"db"}
  PROVE  F!Host(x) = x
BY DEF F!Host, F!VaultActive, F!Of, Plans, Things

LEMMA NextLiveFacts ==
  ASSUME NEW a \in Simple, NEW s \in Books, F!Lives(a, s.vars, s.live) \subseteq Things
  PROVE  /\ NextLive(a, s) \subseteq F!Lives(a, s.vars, s.live) \cup Brought
         /\ \A x \in F!Lives(a, s.vars, s.live) : x[1] \in Plans \cup {"db"} => x \in NextLive(a, s)
<1> DEFINE L == F!Lives(a, s.vars, s.live)
           M == L \cup F!Brings(IF a.op = "apply" THEN {x \in L : x[1] = a.plan} ELSE {})
<1>1. NextLive(a, s) = F!Settled(M)
  BY DEF NextLive
<1>2. M \subseteq L \cup Brought /\ L \subseteq M
  BY BringsLittle
<1> HIDE DEF L, M
<1>3. F!Settled(M) \subseteq M
  BY DEF F!Settled
<1>4. \A x \in M : F!Host(x) = x => x \in F!Settled(M)
  BY DEF F!Settled
<1> USE DEF L
<1> QED
  BY <1>1, <1>2, <1>3, <1>4, HostsItself

\* What an atom turns on, what may come to use others by it, what it may take away
All(plan) == {x \in Things : x[1] = plan}
Gives(a) == CASE a.op \in {"make", "only"} -> a.things [] a.op = "store" -> a.on [] OTHER -> {}
Adds(a) ==
  CASE a.op \in {"make", "only"} -> a.things
    [] a.op = "store" -> a.on
    [] a.op = "apply" /\ a.plan = "manila-data" -> All("manila-data")
    [] OTHER -> {}
Cuts(a) ==
  CASE a.op = "drop" -> a.things
    [] a.op = "store" -> a.off \ a.on
    [] a.op \in {"forget", "destroy", "only"} -> All(a.plan)
    [] OTHER -> {}

LEMMA SimpleFields ==
  ASSUME NEW a \in Simple
  PROVE  /\ a.op \in {"need", "lack", "make", "drop", "only"} => a.things \in SUBSET Things
         /\ a.op = "store" => a.on \in SUBSET Things /\ a.off \in SUBSET Things
         /\ a.op \in {"forget", "apply", "destroy", "only"} => a.plan \in AtomPlans
         /\ a.op \in {"need", "lack", "make", "drop", "store", "forget", "apply", "destroy", "only"}
BY DEF Simple

LEMMA LivesAndStored ==
  ASSUME NEW a \in Simple, NEW s \in Books
  PROVE  /\ F!Lives(a, s.vars, s.live) \in SUBSET Things /\ F!Stored(a, s.vars) \in SUBSET Things
         /\ F!Lives(a, s.vars, s.live) \subseteq s.live \cup s.vars \cup Gives(a)
         /\ F!Stored(a, s.vars) \subseteq s.vars \cup Gives(a)
BY SimpleFields DEF Books, F!Lives, F!Stored, F!Replaced, Gives

LEMMA DoesFields ==
  ASSUME NEW a \in Simple, NEW s \in Books
  PROVE  /\ Does(a, s) \in Books
         /\ Does(a, s).vars = F!Stored(a, s.vars) /\ Does(a, s).live = NextLive(a, s)
         /\ Does(a, s).flag = s.flag /\ Does(a, s).dirty = s.dirty /\ Does(a, s).menu = s.menu
<1>1. NextLive(a, s) \in SUBSET Things
  BY LivesAndStored, NextLiveFacts DEF Brought
<1> QED
  BY <1>1, LivesAndStored DEF Does, Book, Books

LEMMA Footprint ==
  ASSUME NEW a \in Simple, NEW s \in Books
  PROVE  /\ Used(Does(a, s)) \subseteq Used(s) \cup Adds(a) \cup Brought
         /\ Provided(s) \ Cuts(a) \subseteq Provided(Does(a, s))
         /\ Does(a, s).vars \cup Does(a, s).live \subseteq s.vars \cup s.live \cup Gives(a) \cup Brought
<1> DEFINE L == F!Lives(a, s.vars, s.live)
           V == F!Stored(a, s.vars)
           r == Does(a, s)
<1>1. r.vars = V /\ r.live \subseteq L \cup Brought /\ V \subseteq Things /\ L \subseteq Things
      /\ \A x \in L : x[1] \in Plans => x \in r.live
  BY DoesFields, LivesAndStored, NextLiveFacts
<1>2. L \cup V \subseteq s.vars \cup s.live \cup Gives(a)
  BY LivesAndStored
<1>3. \A x \in V : x[1] # "manila-data" => x \in Used(s) \cup Adds(a)
  BY SimpleFields DEF F!Stored, Used, Adds
<1>4. L \subseteq Used(s) \cup Adds(a)
  <2>1. CASE a.op = "apply"
    <3>1. L = {x \in s.live : x[1] # a.plan} \cup {x \in s.vars : x[1] = a.plan}
      BY <2>1 DEF F!Lives, F!Replaced
    <3>2. ASSUME NEW x \in s.vars, x[1] = a.plan PROVE x \in Used(s) \cup Adds(a)
      <4>1. x \in Things
        BY DEF Books
      <4> QED
        BY <2>1, <3>2, <4>1 DEF Used, Adds, All
    <3> QED
      BY <3>1, <3>2 DEF Used
  <2>2. CASE a.op # "apply"
    BY <2>2, SimpleFields DEF F!Lives, F!Replaced, Used, Adds
  <2> QED
    BY <2>1, <2>2
<1>5. ASSUME NEW x \in Provided(s), x \notin Cuts(a) PROVE x \in L /\ x \in V /\ x[1] \in Plans
  <2>1. x \in Things /\ x \in s.live /\ x \in s.vars /\ x[1] \in Plans
    BY DEF Provided, Books
  <2>2. x \in V
    BY <1>5, <2>1, SimpleFields DEF F!Stored, Cuts, All
  <2>3. x \in L
    BY <1>5, <2>1, SimpleFields DEF F!Lives, F!Replaced, Cuts, All
  <2> QED
    BY <2>1, <2>2, <2>3
<1> HIDE DEF L, V, r
<1>6. Used(r) \subseteq Used(s) \cup Adds(a) \cup Brought
  BY <1>1, <1>3, <1>4 DEF Used
<1>7. Provided(s) \ Cuts(a) \subseteq Provided(r)
  BY <1>1, <1>5 DEF Provided
<1> USE DEF r
<1> QED
  BY <1>1, <1>2, <1>6, <1>7

----------------------------------------------------------------------------
(* Contexts: sets of books that atoms away from the watched rows stay in   *)

Same(s, r) ==
  /\ r.flag = s.flag /\ r.dirty = s.dirty /\ r.menu = s.menu
  /\ r.live \cap Watched = s.live \cap Watched
Context(C) == C \in SUBSET GoodBooks /\ \A s \in C, r \in GoodBooks : Same(s, r) => r \in C

\* The books of C with the things S provided and the things N unused
At(C, S, N) == {s \in C : S \subseteq Provided(s) /\ N \cap Used(s) = {}}

LEMMA WatchedRows == \A x \in Watched : x \in Things /\ x[1] = "db"
BY DEF Watched, Things, Kinds, Names, Grouped, F!AmphoraRow, F!TlsProviders, F!ObservabilityProviders

LEMMA ConsumersAreOfPlans == \A l \in Links \cup AmphoraLinks : l[1] \notin Brought /\ l[1][1] \in Plans
BY DEF Links, AmphoraLinks, Amphora, Brought, CosPlans, Plans

LEMMA StaysGood ==
  ASSUME NEW s \in GoodBooks, NEW r \in Books, Same(s, r), Shaped(r), Linked(r)
  PROVE  r \in GoodBooks
<1>1. Flags(r) = Flags(s) /\ r.dirty = s.dirty /\ r.menu = s.menu /\ r.flag = s.flag
  BY DEF Same, Flags
<1>2. \A x \in Watched : (x \in r.live) <=> (x \in s.live)
  BY DEF Same
<1>3. RowsRight(r)
  <2>1. \A g \in Grouped : <<"db", g>> \in Watched
    BY DEF Watched
  <2>2. \A G \in {F!TlsProviders, F!ObservabilityProviders} : \A g \in G :
          (<<"db", g>> \in r.live) <=> (<<"db", g>> \in s.live)
    BY <1>2, <2>1 DEF Grouped
  <2>3. RowsRight(s)
    BY DEF GoodBooks, Good
  <2> QED
    BY <1>1, <2>2, <2>3 DEF RowsRight
<1>4. \A f : Req(f, r.live) = Req(f, s.live)
  BY <1>2 DEF Req, Watched
<1>5. RequirementsRight(r)
  BY <1>1, <1>4 DEF GoodBooks, Good, RequirementsRight
<1> QED
  BY <1>1, <1>3, <1>5 DEF GoodBooks, Good

Untouched(a) == a.op \in {"make", "drop", "only"} => a.things \cap Watched = {}

LEMMA WatchedStay ==
  ASSUME NEW a \in Simple, Untouched(a), NEW s \in Books
  PROVE  Same(s, Does(a, s))
<1>1. ASSUME NEW x \in Watched
      PROVE  /\ (x \in F!Lives(a, s.vars, s.live)) <=> (x \in s.live)
             /\ (x \in NextLive(a, s)) <=> (x \in F!Lives(a, s.vars, s.live))
  <2>1. x \in Things /\ x[1] = "db" /\ x \notin Brought /\ x[1] \notin AtomPlans
    BY WatchedRows DEF Brought, AtomPlans, Plans
  <2>2. (x \in NextLive(a, s)) <=> (x \in F!Lives(a, s.vars, s.live))
    BY <2>1, NextLiveFacts, LivesAndStored
  <2>3. (x \in F!Lives(a, s.vars, s.live)) <=> (x \in s.live)
    BY <2>1, SimpleFields DEF F!Lives, F!Replaced, Untouched
  <2> QED
    BY <2>2, <2>3
<1> QED
  BY <1>1, DoesFields DEF Same

\* What an atom may do where S is provided and N unused, if the links Lk have to be kept
Mild(a, Lk, S, N) ==
  /\ a \in Simple /\ Untouched(a)
  /\ \A x \in Gives(a) : Fitting(x)
  /\ \A l \in Lk : /\ l[1] \in Adds(a) => l[2] \in S \ Cuts(a)
                   /\ l[2] \in Cuts(a) => l[1] \in N \ Adds(a)

Keeps(C, Lk) == Lk \subseteq Links \cup AmphoraLinks /\ \A s \in C : LinksOf(s) \subseteq Lk

LEMMA MildStep ==
  ASSUME NEW C, Context(C), NEW Lk, Keeps(C, Lk), NEW S, NEW N, N \cap Brought = {},
         NEW a, Mild(a, Lk, S, N), NEW s \in At(C, S, N)
  PROVE  Does(a, s) \in At(C, S \ Cuts(a), N \ Adds(a))
<1> DEFINE r == Does(a, s)
<1>1. s \in C /\ s \in GoodBooks /\ s \in Books /\ a \in Simple /\ S \subseteq Provided(s) /\ N \cap Used(s) = {}
  BY DEF At, Context, GoodBooks, Mild
<1>2. r \in Books /\ Same(s, r)
  BY <1>1, DoesFields, WatchedStay DEF Mild
<1>3. /\ Used(r) \subseteq Used(s) \cup Adds(a) \cup Brought
      /\ Provided(s) \ Cuts(a) \subseteq Provided(r)
      /\ r.vars \cup r.live \subseteq s.vars \cup s.live \cup Gives(a) \cup Brought
  BY <1>1, Footprint
<1> HIDE DEF r
<1>4. Shaped(r)
  <2>1. \A x \in Brought : Fitting(x)
    BY DEF Brought, Fitting
  <2> QED
    BY <1>1, <1>3, <2>1 DEF Mild, Shaped, GoodBooks, Good
<1>5. Linked(r)
  <2> SUFFICES ASSUME NEW l \in LinksOf(r), l[1] \in Used(r) PROVE l[2] \in Provided(r)
    BY DEF Linked
  <2>1. l \in LinksOf(s) /\ l \in Lk /\ l[1] \notin Brought
    BY <1>1, <1>2, ConsumersAreOfPlans DEF LinksOf, Same, Keeps
  <2>2. CASE l[1] \in Adds(a)
    BY <1>1, <1>3, <2>1, <2>2 DEF Mild
  <2>3. CASE l[1] \notin Adds(a)
    <3>1. l[1] \in Used(s)
      BY <1>3, <2>1, <2>3
    <3>2. l[2] \in Provided(s)
      BY <1>1, <2>1, <3>1 DEF GoodBooks, Good, Linked
    <3>3. l[2] \notin Cuts(a)
      BY <1>1, <2>1, <3>1 DEF Mild
    <3> QED
      BY <1>3, <3>2, <3>3
  <2> QED
    BY <2>2, <2>3
<1>6. r \in C
  BY <1>1, <1>2, <1>4, <1>5, StaysGood DEF Context
<1>7. S \ Cuts(a) \subseteq Provided(r) /\ (N \ Adds(a)) \cap Used(r) = {}
  BY <1>1, <1>3
<1> QED
  BY <1>6, <1>7 DEF At, r

----------------------------------------------------------------------------
(* Sequences of atoms within a context                                     *)

LEMMA AtGood == ASSUME NEW C, Context(C), NEW S, NEW N PROVE At(C, S, N) \in SUBSET GoodBooks
BY DEF Context, At

LEMMA RulesInclude == Rules0 \subseteq Rules /\ Rules1 \subseteq Rules /\ RulesC \subseteq Rules
BY DEF Rules

LEMMA AtomsInclude == Simple \subseteq Atoms /\ Conditional \subseteq Atoms /\ Calls \subseteq Atoms
BY DEF Atoms

LEMMA MildRule ==
  ASSUME NEW C, Context(C), NEW Lk, Keeps(C, Lk), NEW S, NEW N, N \cap Brought = {},
         NEW a, Mild(a, Lk, S, N), NEW S2, S2 \subseteq S \ Cuts(a), NEW N2, N2 \subseteq N \ Adds(a)
  PROVE  <<At(C, S, N), a, At(C, S2, N2)>> \in Rules0
<1>1. a \in Simple
  BY DEF Mild
<1>2. \A s \in At(C, S, N) : Does(a, s) \in At(C, S \ Cuts(a), N \ Adds(a))
  BY MildStep
<1>3. At(C, S \ Cuts(a), N \ Adds(a)) \subseteq At(C, S2, N2)
  BY DEF At
<1> QED
  BY <1>1, <1>2, <1>3, AtGood DEF Rules0

LEMMA MildOne ==
  ASSUME NEW C, Context(C), NEW Lk, Keeps(C, Lk), NEW S, NEW N, N \cap Brought = {},
         NEW a, Mild(a, Lk, S, N), NEW S2, S2 \subseteq S \ Cuts(a), NEW N2, N2 \subseteq N \ Adds(a)
  PROVE  Triple(Rules, At(C, S, N), <<a>>, At(C, S2, N2))
<1>1. a \in Atoms /\ <<At(C, S, N), a, At(C, S2, N2)>> \in Rules
  BY MildRule, RulesInclude, AtomsInclude DEF Mild
<1> QED
  BY <1>1, AtGood, TripleOne

\* Steps that leave alone what the links need, S and N
CalmSteps(Lk, S, N) ==
  {a \in Simple :
     /\ Untouched(a) /\ \A x \in Gives(a) : Fitting(x)
     /\ \A l \in Lk : l[1] \notin Adds(a) /\ l[2] \notin Cuts(a)
     /\ S \cap Cuts(a) = {} /\ N \cap Adds(a) = {}}
Calm(Lk, S, N) ==
  CalmSteps(Lk, S, N) \cup {a \in Conditional : a.steps \in Seq(CalmSteps(Lk, S, N))}

LEMMA CalmRule ==
  ASSUME NEW C, Context(C), NEW Lk, Keeps(C, Lk), NEW S, NEW N, N \cap Brought = {},
         NEW a \in CalmSteps(Lk, S, N)
  PROVE  <<At(C, S, N), a, At(C, S, N)>> \in Rules0
<1>1. Mild(a, Lk, S, N) /\ S \subseteq S \ Cuts(a) /\ N \subseteq N \ Adds(a)
  BY DEF CalmSteps, Mild
<1> QED
  BY <1>1, MildRule

\* An assertion that every atom keeps
LEMMA TripleSame ==
  ASSUME NEW K, NEW P \in SUBSET GoodBooks, NEW t \in Seq(Atoms),
         \A i \in 1..Len(t) : <<P, t[i], P>> \in K
  PROVE  Triple(K, P, t, P)
<1> DEFINE A == [i \in 1..(Len(t) + 1) |-> P]
<1>1. Len(t) \in Nat /\ 1 \in 1..(Len(t) + 1) /\ Len(t) + 1 \in 1..(Len(t) + 1)
      /\ \A i \in 1..Len(t) : i \in 1..(Len(t) + 1) /\ i + 1 \in 1..(Len(t) + 1)
  OBVIOUS
<1>2. A \in [1..(Len(t) + 1) -> SUBSET GoodBooks] /\ \A i \in 1..(Len(t) + 1) : A[i] = P
  OBVIOUS
<1> HIDE DEF A
<1> QED
  BY <1>1, <1>2 DEF Triple

LEMMA CalmSimpleTriple ==
  ASSUME NEW C, Context(C), NEW Lk, Keeps(C, Lk), NEW S, NEW N, N \cap Brought = {},
         NEW t \in Seq(CalmSteps(Lk, S, N))
  PROVE  Triple(Rules0, At(C, S, N), t, At(C, S, N))
<1>1. \A i \in 1..Len(t) : t[i] \in CalmSteps(Lk, S, N)
  OBVIOUS
<1>2. \A i \in 1..Len(t) : <<At(C, S, N), t[i], At(C, S, N)>> \in Rules0
  BY <1>1, CalmRule
<1>3. t \in Seq(Atoms)
  <2>1. CalmSteps(Lk, S, N) \subseteq Atoms
    BY AtomsInclude DEF CalmSteps
  <2> QED
    BY <2>1, SeqMonotonic
<1> QED
  BY <1>2, <1>3, AtGood, TripleSame

LEMMA CalmTriple ==
  ASSUME NEW C, Context(C), NEW Lk, Keeps(C, Lk), NEW S, NEW N, N \cap Brought = {},
         NEW t \in Seq(Calm(Lk, S, N))
  PROVE  Triple(Rules, At(C, S, N), t, At(C, S, N))
<1> DEFINE P == At(C, S, N)
<1>1. P \in SUBSET GoodBooks
  BY AtGood
<1>2. ASSUME NEW a \in Calm(Lk, S, N) PROVE a \in Atoms /\ <<P, a, P>> \in Rules
  <2>1. CASE a \in CalmSteps(Lk, S, N)
    BY <2>1, CalmRule, RulesInclude, AtomsInclude DEF CalmSteps
  <2>2. CASE a \in Conditional /\ a.steps \in Seq(CalmSteps(Lk, S, N))
    <3>1. Triple(Rules0, P, a.steps, P)
      BY <2>2, CalmSimpleTriple
    <3>2. Triple(Rules0, {s \in P : Meets(a, s)}, a.steps, P)
      <4>1. {s \in P : Meets(a, s)} \subseteq P
        OBVIOUS
      <4> QED
        BY <3>1, <4>1, TripleFits
    <3>3. <<P, a, P>> \in Rules1
      BY <1>1, <2>2, <3>2 DEF Rules1
    <3> QED
      BY <2>2, <3>3, RulesInclude, AtomsInclude
  <2> QED
    BY <2>1, <2>2 DEF Calm
<1> HIDE DEF P
<1>3. \A i \in 1..Len(t) : t[i] \in Calm(Lk, S, N)
  OBVIOUS
<1>4. t \in Seq(Atoms)
  <2>1. Calm(Lk, S, N) \subseteq Atoms
    BY <1>2
  <2> QED
    BY <2>1, SeqMonotonic
<1>5. Triple(Rules, P, t, P)
  BY <1>1, <1>2, <1>3, <1>4, TripleSame
<1> QED
  BY <1>5 DEF P

----------------------------------------------------------------------------
(* Calm steps                                                              *)

AllLinks == Links \cup AmphoraLinks
PlanThings == {x \in Things : x[1] \in Plans}

Consumes(x) ==
  \/ x[1] = "hypervisor" /\ x[2] \in {"barbican-offer", "ceilometer-offer", "masakari-offer"}
  \/ x[1] \in {"consul-client", "manila-data"} \/ x[2] = "cos_offers"
OfferNames == {"barbican", "telemetry", "masakari", "manila"} \cup F!ConsulServers
Offers(y) == (y[1] = "openstack" /\ y[2] \in OfferNames) \/ y[1] = "cos"

LEMMA LinkEnds ==
  /\ \A l \in Links : Consumes(l[1]) /\ Offers(l[2])
  /\ \A l \in AllLinks : /\ Consumes(l[1]) \/ l[1] = Amphora
                         /\ Offers(l[2]) \/ l[2][1] \in {"cni", "amphora-setup"}
BY DEF Links, AllLinks, AmphoraLinks, AmphoraNeeds, Consumes, Offers, OfferNames, Stack, F!Of

\* A thing that may be turned on, or off
SafeOn(x, Lk, N) == x \in Things \ Watched /\ Fitting(x) /\ x \notin N /\ \A l \in Lk : l[1] # x
SafeOff(x, Lk, S) == x \in Things \ Watched /\ x \notin S /\ \A l \in Lk : l[2] # x

LEMMA SafeThings ==
  ASSUME NEW Lk, Lk \subseteq AllLinks, NEW S \in SUBSET PlanThings, NEW x \in Things \ Watched,
         x[1] \notin Plans, x[2] # "cos_offers"
  PROVE  SafeOn(x, Lk, S) /\ SafeOff(x, Lk, S)
<1>1. \A l \in Lk : l[1] # x /\ l[2] # x
  <2>1. \A l \in AllLinks : l[1][1] \in Plans /\ l[2][1] \in Plans
    BY LinkEnds, ConsumersAreOfPlans DEF Offers, Plans, AllLinks
  <2> QED
    BY <2>1
<1>2. x \notin S /\ x[1] # "consul-client"
  BY DEF PlanThings, Plans
<1> QED
  BY <1>1, <1>2 DEF SafeOn, SafeOff, Fitting

LEMMA SeqThen == ASSUME NEW X, NEW s \in Seq(X), NEW t \in Seq(X) PROVE s \o t \in Seq(X)
OBVIOUS

LEMMA SeqOne == ASSUME NEW X, NEW a \in X PROVE <<a>> \in Seq(X)
OBVIOUS

LEMMA OfThings ==
  ASSUME NEW plan \in Kinds, NEW ns \in SUBSET Names
  PROVE  F!Of(plan, ns) \in SUBSET Things /\ \A x \in F!Of(plan, ns) : x[1] = plan /\ x[2] \in ns /\ x = <<plan, x[2]>>
BY DEF F!Of, Things

LEMMA PlanKinds == Plans \subseteq AtomPlans /\ AtomPlans \subseteq Kinds /\ "ubuntu-pro" \in AtomPlans
BY DEF AtomPlans, Plans, Kinds

LEMMA CheckCalm ==
  ASSUME NEW Lk, NEW S, NEW N, NEW X \in SUBSET Things
  PROVE  F!Need(X) \in Seq(CalmSteps(Lk, S, N)) /\ F!Lack(X) \in Seq(CalmSteps(Lk, S, N))
<1>1. ASSUME NEW a, a = [op |-> "need", things |-> X] \/ a = [op |-> "lack", things |-> X]
      PROVE  a \in CalmSteps(Lk, S, N)
  BY <1>1 DEF CalmSteps, Simple, Untouched, Gives, Adds, Cuts
<1> QED
  BY <1>1, SeqOne DEF F!Need, F!Lack

LEMMA MakeCalm ==
  ASSUME NEW Lk, NEW S, NEW N, NEW X, \A x \in X : SafeOn(x, Lk, N)
  PROVE  F!Make(X) \in Seq(CalmSteps(Lk, S, N))
<1>1. [op |-> "make", things |-> X] \in CalmSteps(Lk, S, N)
  BY DEF CalmSteps, Simple, Untouched, Gives, Adds, Cuts, SafeOn
<1> QED
  BY <1>1, SeqOne DEF F!Make

LEMMA DropCalm ==
  ASSUME NEW Lk, NEW S, NEW N, NEW X, \A x \in X : SafeOff(x, Lk, S)
  PROVE  F!Drop(X) \in Seq(CalmSteps(Lk, S, N))
<1>1. [op |-> "drop", things |-> X] \in CalmSteps(Lk, S, N)
  BY DEF CalmSteps, Simple, Untouched, Gives, Adds, Cuts, SafeOff
<1> QED
  BY <1>1, SeqOne DEF F!Drop

LEMMA StoreCalm ==
  ASSUME NEW Lk, NEW S, NEW N, NEW plan \in Plans, NEW ons \in SUBSET Names, NEW offs \in SUBSET Names,
         \A n \in ons : SafeOn(<<plan, n>>, Lk, N), \A n \in offs \ ons : SafeOff(<<plan, n>>, Lk, S)
  PROVE  F!Store(plan, ons, offs) \in Seq(CalmSteps(Lk, S, N))
<1>1. /\ F!Of(plan, ons) \in SUBSET Things /\ F!Of(plan, offs) \in SUBSET Things
      /\ \A x \in F!Of(plan, ons) : SafeOn(x, Lk, N)
      /\ \A x \in F!Of(plan, offs) \ F!Of(plan, ons) : SafeOff(x, Lk, S)
  BY PlanKinds DEF F!Of, Things
<1>2. [op |-> "store", on |-> F!Of(plan, ons), off |-> F!Of(plan, offs)] \in CalmSteps(Lk, S, N)
  BY <1>1 DEF CalmSteps, Simple, Untouched, Gives, Adds, Cuts, SafeOn, SafeOff
<1> QED
  BY <1>2, SeqOne DEF F!Store

LEMMA ApplyCalm ==
  ASSUME NEW Lk, NEW S, NEW N, NEW plan \in Plans \ {"manila-data"}
  PROVE  F!Apply(plan) \in Seq(CalmSteps(Lk, S, N))
<1>1. [op |-> "apply", plan |-> plan] \in CalmSteps(Lk, S, N)
  BY PlanKinds DEF CalmSteps, Simple, Untouched, Gives, Adds, Cuts
<1> QED
  BY <1>1, SeqOne DEF F!Apply

LEMMA StoreAndApplyCalm ==
  ASSUME NEW Lk, NEW S, NEW N, NEW plan \in Plans \ {"manila-data"}, NEW ons \in SUBSET Names,
         NEW offs \in SUBSET Names,
         \A n \in ons : SafeOn(<<plan, n>>, Lk, N), \A n \in offs \ ons : SafeOff(<<plan, n>>, Lk, S)
  PROVE  F!StoreAndApply(plan, ons, offs) \in Seq(CalmSteps(Lk, S, N))
BY StoreCalm, ApplyCalm, SeqThen DEF F!StoreAndApply

\* A plan that offers nothing and that S does not name is destroyed and forgotten.
Private(plan, Lk, S) == \A x \in All(plan) : x \notin S /\ \A l \in Lk : l[2] # x

LEMMA DestroyCalm ==
  ASSUME NEW Lk, NEW S, NEW N, NEW plan \in AtomPlans, Private(plan, Lk, S)
  PROVE  F!Destroy(plan) \in Seq(CalmSteps(Lk, S, N)) /\ F!Forget(plan) \in Seq(CalmSteps(Lk, S, N))
<1>1. ASSUME NEW a, a = [op |-> "destroy", plan |-> plan] \/ a = [op |-> "forget", plan |-> plan]
      PROVE  a \in CalmSteps(Lk, S, N)
  BY <1>1 DEF CalmSteps, Simple, Untouched, Gives, Adds, Cuts, Private
<1> QED
  BY <1>1, SeqOne DEF F!Destroy, F!Forget

LEMMA PrivatePlans ==
  ASSUME NEW Lk, NEW S, NEW plan, \A x \in S : x[1] # plan,
         \/ Lk = AllLinks /\ plan \notin {"openstack", "cos", "cni", "amphora-setup"}
         \/ Lk = Links /\ plan \notin {"openstack", "cos"}
  PROVE  Private(plan, Lk, S)
BY LinkEnds DEF Private, All, Offers

----------------------------------------------------------------------------
(* Steps that provide what others use, or stop using it                    *)

LEMMA StoreAndApplyDoes ==
  ASSUME NEW C, Context(C), NEW Lk, Keeps(C, Lk), NEW S, NEW N \in SUBSET PlanThings,
         NEW plan \in Plans, NEW ons \in SUBSET Names, NEW offs \in SUBSET Names,
         NEW T, T = F!Of(plan, ons), NEW U, U = F!Of(plan, offs) \ T,
         \A x \in T : Fitting(x),
         \A l \in Lk : /\ l[1] \in T \/ (l[1][1] = plan /\ plan = "manila-data") => l[2] \in S \ U
                       /\ l[2] \in U => l[1] \in N \ T,
         plan = "manila-data" => N = {},
         NEW S2, S2 \subseteq (S \ U) \cup T, NEW N2, N2 \subseteq (N \ T) \cup U,
         plan = "manila-data" => N2 = {}
  PROVE  Triple(Rules, At(C, S, N), F!StoreAndApply(plan, ons, offs), At(C, S2, N2))
<1> DEFINE a == [op |-> "store", on |-> F!Of(plan, ons), off |-> F!Of(plan, offs)]
           b == [op |-> "apply", plan |-> plan]
           S1 == S \ U
           N1 == N \ T
           M == {s \in At(C, S1, N1) : T \subseteq s.vars /\ U \cap s.vars = {}}
<1>1. /\ T \in SUBSET Things /\ U \in SUBSET Things /\ F!Of(plan, offs) \in SUBSET Things
      /\ \A x \in T \cup U : x[1] = plan
  BY PlanKinds, OfThings
<1>2. T \cap Watched = {} /\ U \cap Watched = {} /\ plan \in AtomPlans /\ N \cap Brought = {}
  BY <1>1, WatchedRows, PlanKinds DEF Plans, PlanThings, Brought
<1>3. a \in Simple /\ b \in Simple /\ a.op = "store" /\ b.op = "apply" /\ a.on = T /\ a.off = F!Of(plan, offs)
      /\ b.plan = plan
  BY <1>1, <1>2 DEF Simple
<1>4. Adds(a) = T /\ Cuts(a) = U /\ Gives(a) = T /\ Cuts(b) = {} /\ Gives(b) = {}
      /\ Adds(b) = IF plan = "manila-data" THEN All("manila-data") ELSE {}
  BY <1>3 DEF Adds, Cuts, Gives
<1> HIDE DEF a, b
<1>5. Mild(a, Lk, S, N)
  BY <1>3, <1>4 DEF Mild, Untouched
<1>6. Mild(b, Lk, S1, N1)
  <2>1. \A l \in Lk : l[1] \in Adds(b) => l[1][1] = plan /\ plan = "manila-data"
    BY <1>4 DEF All
  <2> QED
    BY <1>3, <1>4, <2>1 DEF Mild, Untouched
<1>7. ASSUME NEW s \in At(C, S, N) PROVE Does(a, s) \in M
  <2>1. Does(a, s) \in At(C, S1, N1)
    BY <1>2, <1>4, <1>5, MildStep
  <2>2. s \in Books
    BY DEF At, Context, GoodBooks
  <2>3. Does(a, s).vars = (s.vars \ F!Of(plan, offs)) \cup T
    BY <1>3, <2>2, DoesFields DEF F!Stored
  <2> QED
    BY <2>1, <2>3
<1>8. ASSUME NEW s \in M PROVE Does(b, s) \in At(C, S2, N2)
  <2> DEFINE r == Does(b, s)
  <2>1. s \in At(C, S1, N1) /\ s \in Books /\ T \subseteq s.vars /\ U \cap s.vars = {}
    BY DEF At, Context, GoodBooks
  <2>2. r \in At(C, S1 \ Cuts(b), N1 \ Adds(b))
    BY <1>2, <1>6, <2>1, MildStep
  <2>3. r.vars = s.vars
    BY <1>3, <2>1, DoesFields DEF F!Stored
  <2>4. F!Lives(b, s.vars, s.live) = {x \in s.live : x[1] # plan} \cup {x \in s.vars : x[1] = plan}
    BY <1>3 DEF F!Lives, F!Replaced
  <2>5. r.live \subseteq F!Lives(b, s.vars, s.live) \cup Brought
        /\ \A x \in F!Lives(b, s.vars, s.live) : x[1] \in Plans \cup {"db"} => x \in r.live
    BY <1>3, <2>1, DoesFields, NextLiveFacts, LivesAndStored
  <2> HIDE DEF r
  <2>6. T \subseteq Provided(r)
    BY <1>1, <2>1, <2>3, <2>4, <2>5 DEF Provided
  <2>7. ASSUME NEW x \in U PROVE x \notin Used(r)
    <3>1. x[1] = plan /\ x \notin s.vars /\ x \notin Brought
      BY <1>1, <2>1 DEF Brought, Plans
    <3> QED
      BY <2>3, <2>4, <2>5, <3>1 DEF Used
  <2>8. S1 \subseteq Provided(r) /\ (N1 \ Adds(b)) \cap Used(r) = {} /\ r \in C
    BY <1>4, <2>2 DEF At
  <2>9. plan # "manila-data" => N1 \cap Used(r) = {}
    BY <1>4, <2>8
  <2>10. S2 \subseteq Provided(r)
    BY <2>6, <2>8
  <2>11. N2 \cap Used(r) = {}
    BY <2>7, <2>9
  <2> QED
    BY <2>8, <2>10, <2>11 DEF At, r
<1>9. M \in SUBSET GoodBooks /\ At(C, S, N) \in SUBSET GoodBooks /\ At(C, S2, N2) \in SUBSET GoodBooks
  BY AtGood
<1> HIDE DEF M
<1>10. <<At(C, S, N), a, M>> \in Rules0 /\ <<M, b, At(C, S2, N2)>> \in Rules0
  BY <1>3, <1>7, <1>8, <1>9 DEF Rules0
<1>11. Triple(Rules, At(C, S, N), <<a>>, M) /\ Triple(Rules, M, <<b>>, At(C, S2, N2))
  BY <1>3, <1>9, <1>10, RulesInclude, AtomsInclude, TripleOne
<1>12. F!StoreAndApply(plan, ons, offs) = <<a>> \o <<b>>
  BY DEF F!StoreAndApply, F!Store, F!Apply, a, b
<1> QED
  BY <1>11, <1>12, RulesRise, TripleThen

\* A plan that nothing uses is destroyed and its variables are forgotten.
LEMMA RemoveDoes ==
  ASSUME NEW C, Context(C), NEW Lk, Keeps(C, Lk), NEW S, NEW N \in SUBSET PlanThings,
         NEW plan \in Plans, NEW ns \in SUBSET Names, Private(plan, Lk, S),
         NEW N2, N2 \subseteq N \cup All(plan)
  PROVE  Triple(Rules, At(C, S, N), F!Destroy(plan) \o F!AwaitGone(plan, ns) \o F!Forget(plan), At(C, S, N2))
<1> DEFINE a == [op |-> "destroy", plan |-> plan]
           b == [op |-> "lack", things |-> F!Of(plan, ns)]
           c == [op |-> "forget", plan |-> plan]
           M == {s \in At(C, S, N) : s.live \cap All(plan) = {}}
<1>1. N \cap Brought = {} /\ plan \in AtomPlans /\ All(plan) \cap Brought = {} /\ F!Of(plan, ns) \in SUBSET Things
  BY PlanKinds, OfThings DEF Plans, PlanThings, Brought, All
<1>2. /\ a \in Simple /\ a.op = "destroy" /\ a.plan = plan
      /\ b \in Simple /\ b.op = "lack"
      /\ c \in Simple /\ c.op = "forget" /\ c.plan = plan
  BY <1>1 DEF Simple
<1>3. <<a>> = F!Destroy(plan) /\ <<b>> = F!AwaitGone(plan, ns) /\ <<c>> = F!Forget(plan)
  BY DEF F!Destroy, F!AwaitGone, F!Lack, F!Forget
<1> HIDE DEF a, b, c
<1>4. /\ Cuts(a) = All(plan) /\ Adds(a) = {} /\ Gives(a) = {}
      /\ Cuts(b) = {} /\ Adds(b) = {} /\ Gives(b) = {}
      /\ Cuts(c) = All(plan) /\ Adds(c) = {} /\ Gives(c) = {}
  BY <1>2 DEF Cuts, Adds, Gives
<1>5. /\ S \ All(plan) = S /\ \A l \in Lk : l[2] \notin All(plan)
  BY DEF Private
<1>6. Mild(a, Lk, S, N) /\ Mild(b, Lk, S, N) /\ Mild(c, Lk, S, N)
  BY <1>2, <1>4, <1>5 DEF Mild, Untouched
<1>7. ASSUME NEW s \in At(C, S, N)
      PROVE  /\ Does(a, s) \in M
             /\ s.live \cap All(plan) = {} => Does(b, s) \in M /\ Does(c, s) \in At(C, S, N2)
  <2>1. s \in Books
    BY DEF At, Context, GoodBooks
  <2>2. Does(a, s) \in At(C, S, N) /\ Does(b, s) \in At(C, S, N) /\ Does(c, s) \in At(C, S, N)
    <3>1. \A e : Mild(e, Lk, S, N) => Does(e, s) \in At(C, S \ Cuts(e), N \ Adds(e))
      BY <1>1, MildStep
    <3>2. S \ {} = S /\ N \ {} = N
      OBVIOUS
    <3> QED
      BY <1>4, <1>5, <1>6, <3>1, <3>2
  <2>3. Does(a, s).live \cap All(plan) = {}
    BY <1>1, <1>2, <2>1, DoesFields, NextLiveFacts, LivesAndStored DEF F!Lives, F!Replaced, All
  <2>4. ASSUME s.live \cap All(plan) = {}
        PROVE  Does(b, s).live \cap All(plan) = {} /\ Does(c, s).live \cap All(plan) = {}
    <3>1. F!Lives(b, s.vars, s.live) = s.live /\ F!Lives(c, s.vars, s.live) = s.live
      BY <1>2 DEF F!Lives
    <3>2. s.live \subseteq Things
      BY <2>1 DEF Books
    <3>3. NextLive(b, s) \subseteq s.live \cup Brought /\ NextLive(c, s) \subseteq s.live \cup Brought
      BY <1>2, <2>1, <3>1, <3>2, NextLiveFacts
    <3>4. Does(b, s).live = NextLive(b, s) /\ Does(c, s).live = NextLive(c, s)
      BY <1>2, <2>1, DoesFields
    <3> QED
      BY <1>1, <2>4, <3>3, <3>4
  <2>5. Does(c, s).vars \cap All(plan) = {}
    <3>1. Does(c, s).vars = F!Stored(c, s.vars)
      BY <1>2, <2>1, DoesFields
    <3> QED
      BY <1>2, <3>1 DEF F!Stored, All
  <2>6. ASSUME s.live \cap All(plan) = {} PROVE N2 \cap Used(Does(c, s)) = {}
    BY <2>2, <2>4, <2>5, <2>6 DEF Used, At
  <2> QED
    BY <2>2, <2>3, <2>4, <2>6 DEF At
<1>8. M \in SUBSET GoodBooks /\ At(C, S, N) \in SUBSET GoodBooks /\ At(C, S, N2) \in SUBSET GoodBooks
  BY AtGood
<1>9. \A s \in M : s \in At(C, S, N) /\ s.live \cap All(plan) = {}
  OBVIOUS
<1> HIDE DEF M
<1>10. <<At(C, S, N), a, M>> \in Rules0 /\ <<M, b, M>> \in Rules0 /\ <<M, c, At(C, S, N2)>> \in Rules0
  BY <1>2, <1>7, <1>8, <1>9 DEF Rules0
<1>11. /\ Triple(Rules, At(C, S, N), <<a>>, M) /\ Triple(Rules, M, <<b>>, M)
       /\ Triple(Rules, M, <<c>>, At(C, S, N2))
  BY <1>2, <1>8, <1>10, RulesInclude, AtomsInclude, TripleOne
<1> QED
  BY <1>3, <1>11, RulesRise, TripleThen

----------------------------------------------------------------------------
(* The application sets of the openstack plan                              *)

DbNames == Names \ ({"amphora_enabled", "cos_offers"} \cup Grouped)

AppSet(c) ==
  c.vars \in SUBSET Names /\ c.clears \in SUBSET Names /\ c.waits \in SUBSET Names /\ c.db \in SUBSET DbNames

LEMMA UnwatchedRows == \A n \in DbNames : <<"db", n>> \in Things \ Watched
BY DEF DbNames, Watched, Things, Kinds, F!AmphoraRow

LEMMA PlanUnwatched == \A plan \in Plans, n \in Names : <<plan, n>> \in Things \ Watched
BY WatchedRows, PlanKinds DEF Things, Plans

LEMMA OpenstackOn ==
  ASSUME NEW Lk, Lk \subseteq AllLinks, NEW N, NEW n \in Names \ {"cos_offers", "octavia_amphora"},
         <<"openstack", n>> \notin N
  PROVE  SafeOn(<<"openstack", n>>, Lk, N)
<1>1. \A l \in Lk : l[1] # <<"openstack", n>>
  BY LinkEnds DEF Consumes, Amphora
<1> QED
  BY <1>1, PlanUnwatched DEF SafeOn, Fitting, Plans

LEMMA OpenstackOff ==
  ASSUME NEW Lk, Lk \subseteq AllLinks, NEW S, NEW n \in Names \ OfferNames, <<"openstack", n>> \notin S
  PROVE  SafeOff(<<"openstack", n>>, Lk, S)
<1>1. \A l \in Lk : l[2] # <<"openstack", n>>
  BY LinkEnds DEF Offers
<1> QED
  BY <1>1, PlanUnwatched DEF SafeOff, Plans

LEMMA RowsCalm ==
  ASSUME NEW Lk, Lk \subseteq AllLinks, NEW S \in SUBSET PlanThings, NEW N \in SUBSET PlanThings,
         NEW ns \in SUBSET DbNames
  PROVE  /\ F!Make(F!Of("db", ns)) \in Seq(CalmSteps(Lk, S, N))
         /\ F!Drop(F!Of("db", ns)) \in Seq(CalmSteps(Lk, S, N))
<1>1. ASSUME NEW x \in F!Of("db", ns)
      PROVE  SafeOn(x, Lk, N) /\ SafeOff(x, Lk, S)
  <2>1. PICK n \in ns : x = <<"db", n>>
    BY DEF F!Of
  <2>2. x \in Things \ Watched
    BY <2>1, UnwatchedRows
  <2>3. x[1] \notin Plans /\ x[2] # "cos_offers"
    BY <2>1 DEF Plans, DbNames
  <2> QED
    BY <2>2, <2>3, SafeThings
<1> QED
  BY <1>1, MakeCalm, DropCalm

LEMMA SetsCalm ==
  ASSUME NEW Lk, NEW S, NEW N, NEW t \in Seq(CalmSteps(Lk, S, N))
  PROVE  t \in Seq(Calm(Lk, S, N))
<1>1. CalmSteps(Lk, S, N) \subseteq Calm(Lk, S, N)
  BY DEF Calm
<1> QED
  BY <1>1, SeqMonotonic

LEMMA AwaitCalm ==
  ASSUME NEW Lk, NEW S, NEW N, NEW plan \in Kinds, NEW ns \in SUBSET Names
  PROVE  /\ F!Await(plan, ns) \in Seq(CalmSteps(Lk, S, N))
         /\ F!AwaitGone(plan, ns) \in Seq(CalmSteps(Lk, S, N))
BY OfThings, CheckCalm DEF F!Await, F!AwaitGone

LEMMA EnableCalm ==
  ASSUME NEW Lk, Lk \subseteq AllLinks, NEW S \in SUBSET PlanThings, NEW N \in SUBSET PlanThings,
         NEW c, AppSet(c), \A n \in c.vars : n \notin {"cos_offers", "octavia_amphora"} /\ <<"openstack", n>> \notin N
  PROVE  F!EnableOpenStackApplicationStep(c) \in Seq(CalmSteps(Lk, S, N))
<1>1. "openstack" \in Plans \ {"manila-data"} /\ "openstack" \in Kinds
  BY DEF Plans, Kinds
<1>2. \A n \in c.vars : SafeOn(<<"openstack", n>>, Lk, N)
  BY OpenstackOn DEF AppSet
<1>3. F!StoreAndApply("openstack", c.vars, {}) \in Seq(CalmSteps(Lk, S, N))
  BY <1>1, <1>2, StoreAndApplyCalm DEF AppSet
<1>4. F!Make(F!Of("db", c.db)) \in Seq(CalmSteps(Lk, S, N))
  BY RowsCalm DEF AppSet
<1>5. F!Await("openstack", c.waits) \in Seq(CalmSteps(Lk, S, N))
  BY <1>1, AwaitCalm DEF AppSet
<1> QED
  BY <1>3, <1>4, <1>5, SeqThen DEF F!EnableOpenStackApplicationStep

LEMMA DisableCalm ==
  ASSUME NEW Lk, Lk \subseteq AllLinks, NEW S \in SUBSET PlanThings, NEW N \in SUBSET PlanThings,
         NEW c, AppSet(c), \A n \in c.vars \cup c.clears : n \notin OfferNames /\ <<"openstack", n>> \notin S
  PROVE  F!DisableOpenStackApplicationStep(c) \in Seq(CalmSteps(Lk, S, N))
<1>1. "openstack" \in Plans \ {"manila-data"} /\ "openstack" \in Kinds
  BY DEF Plans, Kinds
<1>2. \A n \in c.vars \cup c.clears : SafeOff(<<"openstack", n>>, Lk, S)
  BY OpenstackOff DEF AppSet
<1>3. F!StoreAndApply("openstack", {}, c.vars \cup c.clears) \in Seq(CalmSteps(Lk, S, N))
  BY <1>1, <1>2, StoreAndApplyCalm DEF AppSet
<1>4. F!Drop(F!Of("db", c.db)) \in Seq(CalmSteps(Lk, S, N))
  BY RowsCalm DEF AppSet
<1>5. F!AwaitGone("openstack", c.waits) \in Seq(CalmSteps(Lk, S, N))
  BY <1>1, AwaitCalm DEF AppSet
<1> QED
  BY <1>3, <1>4, <1>5, SeqThen DEF F!DisableOpenStackApplicationStep

LEMMA CalmDoes ==
  ASSUME NEW C, Context(C), NEW Lk, Keeps(C, Lk), NEW S, NEW N \in SUBSET PlanThings,
         NEW t \in Seq(CalmSteps(Lk, S, N))
  PROVE  Triple(Rules, At(C, S, N), t, At(C, S, N))
<1>1. N \cap Brought = {}
  BY DEF PlanThings, Brought, Plans
<1>2. Triple(Rules0, At(C, S, N), t, At(C, S, N))
  BY <1>1, CalmSimpleTriple
<1> QED
  BY <1>2, RulesInclude, TripleMore

\* After an enable its applications are provided; what was is still provided.
LEMMA EnableDoes ==
  ASSUME NEW C, Context(C), NEW Lk, Keeps(C, Lk), NEW S \in SUBSET PlanThings,
         NEW c, AppSet(c), "octavia_amphora" \notin c.vars,
         "cos_offers" \in c.vars => Stack \in S
  PROVE  Triple(Rules, At(C, S, {}), F!EnableOpenStackApplicationStep(c),
                At(C, S \cup F!Of("openstack", c.vars), {}))
<1> DEFINE T == F!Of("openstack", c.vars)
           S2 == S \cup T
           s1 == F!Make(F!Of("db", c.db))
           s2 == F!StoreAndApply("openstack", c.vars, {})
           s3 == F!Await("openstack", c.waits)
<1>0. "openstack" \in Plans /\ "openstack" \in Kinds
  BY DEF Plans, Kinds
<1>1. Lk \subseteq AllLinks /\ {} \in SUBSET PlanThings /\ T \in SUBSET Things
      /\ \A x \in T : x[1] = "openstack" /\ x[2] \in c.vars
  BY <1>0, OfThings DEF Keeps, AllLinks, AppSet
<1>2. S2 \in SUBSET PlanThings
  BY <1>0, <1>1 DEF PlanThings
<1>3. s1 \in Seq(CalmSteps(Lk, S, {}))
  BY <1>1, RowsCalm DEF AppSet
<1>4. s3 \in Seq(CalmSteps(Lk, S2, {}))
  BY <1>0, AwaitCalm DEF AppSet
<1>5. \A x \in T : Fitting(x)
  BY <1>1 DEF Fitting, CosPlans
<1>6. \A l \in Lk : l[1] \in T => l[2] \in S
  <2> SUFFICES ASSUME NEW l \in Lk, l[1] \in T PROVE l[2] \in S
    OBVIOUS
  <2>1. l \in AllLinks /\ l[1][1] = "openstack" /\ l[1][2] \in c.vars
    BY <1>1
  <2>2. l[1][2] = "cos_offers"
    BY <1>1, <2>1, LinkEnds DEF Consumes, Amphora
  <2>3. l[2] = Stack
    BY <2>1, <2>2 DEF AllLinks, Links, AmphoraLinks, Amphora
  <2> QED
    BY <2>1, <2>2, <2>3
<1>7. F!Of("openstack", {}) \ T = {} /\ {} \in SUBSET Names /\ S \ {} = S
  BY DEF F!Of
<1>8. Triple(Rules, At(C, S, {}), s2, At(C, S2, {}))
  <2>1. \A l \in Lk : /\ l[1] \in T \/ (l[1][1] = "openstack" /\ "openstack" = "manila-data") => l[2] \in S \ {}
                      /\ l[2] \in {} => l[1] \in {} \ T
    BY <1>6
  <2>2. S2 \subseteq (S \ {}) \cup T /\ {} \subseteq ({} \ T) \cup {}
    OBVIOUS
  <2>3. c.vars \in SUBSET Names
    BY DEF AppSet
  <2> HIDE DEF T, S2
  <2> QED
    BY <1>0, <1>1, <1>5, <1>7, <2>1, <2>2, <2>3, StoreAndApplyDoes DEF T
<1>9. Triple(Rules, At(C, S, {}), s1, At(C, S, {})) /\ Triple(Rules, At(C, S2, {}), s3, At(C, S2, {}))
  BY <1>1, <1>3, <1>4, CalmDoes
<1>10. F!EnableOpenStackApplicationStep(c) = s1 \o s2 \o s3
  BY DEF F!EnableOpenStackApplicationStep
<1> HIDE DEF s1, s2, s3, S2
<1>11. Triple(Rules, At(C, S, {}), s1 \o s2, At(C, S2, {}))
  BY <1>8, <1>9, RulesRise, TripleThen
<1>12. Triple(Rules, At(C, S, {}), s1 \o s2 \o s3, At(C, S2, {}))
  BY <1>9, <1>11, RulesRise, TripleThen
<1> QED
  BY <1>10, <1>12 DEF S2

\* After a disable nothing of its applications is left; what was unused still is.
LEMMA DisableDoes ==
  ASSUME NEW C, Context(C), NEW Lk, Keeps(C, Lk), NEW N \in SUBSET PlanThings,
         NEW c, AppSet(c),
         \A l \in Lk : l[2] \in F!Of("openstack", c.vars \cup c.clears) => l[1] \in N
  PROVE  Triple(Rules, At(C, {}, N), F!DisableOpenStackApplicationStep(c),
                At(C, {}, N \cup F!Of("openstack", c.vars \cup c.clears)))
<1> DEFINE ns == c.vars \cup c.clears
           U == F!Of("openstack", ns)
           N2 == N \cup U
           s1 == F!Drop(F!Of("db", c.db))
           s2 == F!StoreAndApply("openstack", {}, ns)
           s3 == F!AwaitGone("openstack", c.waits)
<1>0. "openstack" \in Plans /\ "openstack" \in Kinds /\ ns \in SUBSET Names /\ "openstack" # "manila-data"
  BY DEF Plans, Kinds, AppSet
<1>1. Lk \subseteq AllLinks /\ {} \in SUBSET PlanThings /\ U \in SUBSET PlanThings
  <2>1. U \in SUBSET Things /\ \A x \in U : x[1] = "openstack"
    BY <1>0, OfThings
  <2> QED
    BY <1>0, <2>1 DEF Keeps, AllLinks, PlanThings
<1>2. N2 \in SUBSET PlanThings
  BY <1>1
<1>3. s1 \in Seq(CalmSteps(Lk, {}, N))
  BY <1>1, RowsCalm DEF AppSet
<1>4. s3 \in Seq(CalmSteps(Lk, {}, N2))
  BY <1>0, AwaitCalm DEF AppSet
<1>5. \A l \in Lk : l[2] \in U => l[1] \in N
  OBVIOUS
<1> HIDE DEF ns
<1>7. F!Of("openstack", {}) = {} /\ U \ {} = U /\ {} \in SUBSET Names
  BY DEF F!Of
<1>8. Triple(Rules, At(C, {}, N), s2, At(C, {}, N2))
  <2>1. \A l \in Lk : /\ l[1] \in {} \/ (l[1][1] = "openstack" /\ "openstack" = "manila-data") => l[2] \in {} \ U
                      /\ l[2] \in U => l[1] \in N \ {}
    BY <1>0, <1>5
  <2>2. {} \subseteq ({} \ U) \cup {} /\ N2 \subseteq (N \ {}) \cup U
    OBVIOUS
  <2>3. U = F!Of("openstack", ns) \ {} /\ {} = F!Of("openstack", {})
    BY <1>7
  <2>4. \A x \in {} : Fitting(x)
    OBVIOUS
  <2> HIDE DEF U, N2
  <2> QED
    BY <1>0, <1>1, <1>7, <2>1, <2>2, <2>3, <2>4, StoreAndApplyDoes
<1>9. Triple(Rules, At(C, {}, N), s1, At(C, {}, N)) /\ Triple(Rules, At(C, {}, N2), s3, At(C, {}, N2))
  BY <1>1, <1>2, <1>3, <1>4, CalmDoes
<1>10. F!DisableOpenStackApplicationStep(c) = s1 \o s2 \o s3
  BY DEF F!DisableOpenStackApplicationStep, ns
<1> HIDE DEF s1, s2, s3, N2
<1>11. Triple(Rules, At(C, {}, N), s1 \o s2, At(C, {}, N2))
  BY <1>8, <1>9, RulesRise, TripleThen
<1>12. Triple(Rules, At(C, {}, N), s1 \o s2 \o s3, At(C, {}, N2))
  BY <1>9, <1>11, RulesRise, TripleThen
<1> QED
  BY <1>10, <1>12 DEF N2, ns

\* Seen with less knowledge
LEMMA AtLess ==
  ASSUME NEW C, NEW S, NEW N, NEW S2, S2 \subseteq S, NEW N2, N2 \subseteq N
  PROVE  At(C, S, N) \subseteq At(C, S2, N2)
BY DEF At

LEMMA AtAll == ASSUME NEW C PROVE At(C, {}, {}) = C
BY DEF At

----------------------------------------------------------------------------
(* The steps of the features that touch no link                            *)

OtherKinds == Kinds \ (Plans \cup {"db"})

LEMMA OthersCalm ==
  ASSUME NEW Lk, Lk \subseteq AllLinks, NEW S \in SUBSET PlanThings, NEW N \in SUBSET PlanThings,
         NEW kind \in OtherKinds, NEW ns \in SUBSET Names, "cos_offers" \notin ns
  PROVE  /\ F!Make(F!Of(kind, ns)) \in Seq(CalmSteps(Lk, S, N))
         /\ F!Drop(F!Of(kind, ns)) \in Seq(CalmSteps(Lk, S, N))
<1>1. ASSUME NEW x \in F!Of(kind, ns)
      PROVE  SafeOn(x, Lk, N) /\ SafeOff(x, Lk, S)
  <2>1. x \in Things /\ x[1] = kind /\ x[2] \in ns
    BY OfThings DEF OtherKinds
  <2>2. x \notin Watched /\ x[1] \notin Plans
    BY <2>1, WatchedRows DEF OtherKinds
  <2> QED
    BY <2>1, <2>2, SafeThings
<1> QED
  BY <1>1, MakeCalm, DropCalm

LEMMA MaasCalm == ASSUME NEW X, NEW t \in Seq(X) PROVE F!OnMaas(t) \in Seq(X)
BY DEF F!OnMaas

\* Variables of a plan that neither uses nor offers anything of the links
QuietPlans ==
  {"cinder-volume", "storage-backend", "k8s-plan", "hardware-observer", "agent", "agent-infra"}

LEMMA QuietCalm ==
  ASSUME NEW Lk, Lk \subseteq AllLinks, NEW S \in SUBSET PlanThings, NEW N \in SUBSET PlanThings,
         NEW plan \in QuietPlans, \A x \in S \cup N : x[1] # plan,
         NEW ons \in SUBSET Names, NEW offs \in SUBSET Names, "cos_offers" \notin ons
  PROVE  F!StoreAndApply(plan, ons, offs) \in Seq(CalmSteps(Lk, S, N))
<1>1. plan \in Plans \ {"manila-data"}
  BY DEF QuietPlans, Plans
<1>2. \A n \in Names : \A l \in Lk : l[2] # <<plan, n>>
  BY LinkEnds DEF Offers, QuietPlans
<1>3. \A n \in ons : \A l \in Lk : l[1] # <<plan, n>>
  BY LinkEnds DEF Consumes, Amphora, QuietPlans
<1>4. \A n \in Names : <<plan, n>> \in Things \ Watched /\ <<plan, n>> \notin S \cup N
  BY <1>1, PlanUnwatched
<1>5. \A n \in ons : Fitting(<<plan, n>>)
  BY DEF Fitting, QuietPlans
<1> QED
  BY <1>1, <1>2, <1>3, <1>4, <1>5, StoreAndApplyCalm DEF SafeOn, SafeOff

Plain == Seq(CalmSteps(AllLinks, {}, {}))

LEMMA PlainSteps ==
  /\ \A c : AppSet(c) /\ c.vars \cap {"cos_offers", "octavia_amphora"} = {}
            => F!EnableOpenStackApplicationStep(c) \in Plain
  /\ \A c : AppSet(c) /\ (c.vars \cup c.clears) \cap OfferNames = {}
            => F!DisableOpenStackApplicationStep(c) \in Plain
  /\ \A kind \in OtherKinds : \A ns \in SUBSET Names :
       "cos_offers" \notin ns
       => F!Make(F!Of(kind, ns)) \in Plain /\ F!Drop(F!Of(kind, ns)) \in Plain
  /\ \A t \in Plain : F!OnMaas(t) \in Plain
  /\ \A s, t \in Plain : s \o t \in Plain
  /\ <<>> \in Plain
<1>1. {} \in SUBSET PlanThings /\ AllLinks \subseteq AllLinks
  OBVIOUS
<1>2. ASSUME NEW c, AppSet(c), c.vars \cap {"cos_offers", "octavia_amphora"} = {}
      PROVE  F!EnableOpenStackApplicationStep(c) \in Plain
  BY <1>1, <1>2, EnableCalm DEF Plain
<1>3. ASSUME NEW c, AppSet(c), (c.vars \cup c.clears) \cap OfferNames = {}
      PROVE  F!DisableOpenStackApplicationStep(c) \in Plain
  BY <1>1, <1>3, DisableCalm DEF Plain
<1>4. ASSUME NEW kind \in OtherKinds, NEW ns \in SUBSET Names, "cos_offers" \notin ns
      PROVE  F!Make(F!Of(kind, ns)) \in Plain /\ F!Drop(F!Of(kind, ns)) \in Plain
  BY <1>1, <1>4, OthersCalm DEF Plain
<1> QED
  BY <1>2, <1>3, <1>4, MaasCalm, SeqThen DEF Plain

LEMMA SomeDbNames ==
  {"heat", "watcher", "barbican", "aodh", "gnocchi", "designate", "masakari", "magnum", "octavia",
   "cos_storage"} \subseteq DbNames
BY DEF DbNames, Names, Grouped, F!TlsProviders, F!ObservabilityProviders

\* Application sets that neither use nor offer anything of the links
QuietSet(c) ==
  /\ AppSet(c) /\ c.vars \cap {"cos_offers", "octavia_amphora"} = {}
  /\ (c.vars \cup c.clears) \cap OfferNames = {}

LEMMA QuietSets ==
  /\ QuietSet(F!OrchestrationApps)
  /\ QuietSet(F!OptimizationApps)
  /\ QuietSet(F!ImagesSyncApps)
  /\ QuietSet(F!ValidationApps)
  /\ QuietSet(F!VaultApps)
  /\ QuietSet(F!LDAPApps)
  /\ QuietSet(F!DnsApps)
  /\ QuietSet(F!CaasApps)
  /\ QuietSet(F!LoadbalancerApps)
  /\ QuietSet(F!BaremetalApps)
  /\ QuietSet(F!CaasAppsWithSecret)
<1> USE SomeDbNames DEF QuietSet, AppSet, F!Apps, OfferNames, F!ConsulServers, Names
<1>1. QuietSet(F!OrchestrationApps)
  BY DEF F!OrchestrationApps
<1>2. QuietSet(F!OptimizationApps)
  BY DEF F!OptimizationApps
<1>3. QuietSet(F!ImagesSyncApps)
  BY DEF F!ImagesSyncApps
<1>4. QuietSet(F!ValidationApps)
  BY DEF F!ValidationApps
<1>5. QuietSet(F!VaultApps)
  BY DEF F!VaultApps
<1>6. QuietSet(F!LDAPApps)
  BY DEF F!LDAPApps
<1>7. QuietSet(F!DnsApps)
  BY DEF F!DnsApps
<1>8. QuietSet(F!CaasApps)
  BY DEF F!CaasApps
<1>9. QuietSet(F!LoadbalancerApps)
  BY DEF F!LoadbalancerApps
<1>10. QuietSet(F!BaremetalApps)
  BY DEF F!BaremetalApps
<1>11. QuietSet(F!CaasAppsWithSecret)
  BY DEF F!CaasAppsWithSecret, F!CaasApps
<1> QED
  BY <1>1, <1>2, <1>3, <1>4, <1>5, <1>6, <1>7, <1>8, <1>9, <1>10, <1>11

LEMMA QuietRemoval ==
  ASSUME NEW plan \in {"hardware-observer", "agent", "agent-infra"}, NEW ns \in SUBSET Names
  PROVE  F!Destroy(plan) \o F!AwaitGone(plan, ns) \o F!Forget(plan) \in Plain
<1>1. plan \in AtomPlans /\ plan \in Kinds /\ plan \notin {"openstack", "cos", "cni", "amphora-setup"}
  BY DEF AtomPlans, Plans, Kinds
<1>2. Private(plan, AllLinks, {})
  BY <1>1, PrivatePlans
<1>3. F!Destroy(plan) \in Plain /\ F!Forget(plan) \in Plain /\ F!AwaitGone(plan, ns) \in Plain
  BY <1>1, <1>2, DestroyCalm, AwaitCalm DEF Plain
<1> QED
  BY <1>3, PlainSteps

LEMMA QuietStores ==
  /\ \A plan \in QuietPlans : \A ons, offs \in SUBSET Names :
       "cos_offers" \notin ons => F!StoreAndApply(plan, ons, offs) \in Plain
  /\ \A ons, offs \in SUBSET Names :
       /\ ons \cap {"cos_offers", "octavia_amphora"} = {} /\ offs \cap OfferNames = {}
       => F!StoreAndApply("openstack", ons, offs) \in Plain
<1>1. {} \in SUBSET PlanThings /\ AllLinks \subseteq AllLinks
  OBVIOUS
<1>2. ASSUME NEW plan \in QuietPlans, NEW ons \in SUBSET Names, NEW offs \in SUBSET Names, "cos_offers" \notin ons
      PROVE  F!StoreAndApply(plan, ons, offs) \in Plain
  BY <1>1, <1>2, QuietCalm DEF Plain
<1>3. ASSUME NEW ons \in SUBSET Names, NEW offs \in SUBSET Names,
             ons \cap {"cos_offers", "octavia_amphora"} = {}, offs \cap OfferNames = {}
      PROVE  F!StoreAndApply("openstack", ons, offs) \in Plain
  <2>1. "openstack" \in Plans \ {"manila-data"}
    BY DEF Plans
  <2>2. \A n \in ons : SafeOn(<<"openstack", n>>, AllLinks, {})
    BY <1>1, <1>3, OpenstackOn
  <2>3. \A n \in offs \ ons : SafeOff(<<"openstack", n>>, AllLinks, {})
    BY <1>1, <1>3, OpenstackOff
  <2> QED
    BY <2>1, <2>2, <2>3, StoreAndApplyCalm DEF Plain
<1> QED
  BY <1>2, <1>3

AllCalm == Seq(Calm(AllLinks, {}, {}))

LEMMA ConditionalCalm ==
  ASSUME NEW x \in Things, NEW is \in BOOLEAN, NEW t \in Plain
  PROVE  F!IfThere(x, is, t) \in AllCalm /\ F!IfStored(x, is, t) \in AllCalm
<1>1. t \in Seq(Simple)
  <2>1. CalmSteps(AllLinks, {}, {}) \subseteq Simple
    BY DEF CalmSteps
  <2> QED
    BY <2>1, SeqMonotonic DEF Plain
<1>2. ASSUME NEW a, a = [op |-> "there", x |-> x, is |-> is, steps |-> t]
                    \/ a = [op |-> "stored", x |-> x, is |-> is, steps |-> t]
      PROVE  a \in Calm(AllLinks, {}, {})
  BY <1>1, <1>2 DEF Calm, Conditional, Plain
<1> QED
  BY <1>2, SeqOne DEF F!IfThere, F!IfStored, AllCalm

LEMMA AllCalmSteps ==
  /\ Plain \subseteq AllCalm
  /\ \A s, t \in AllCalm : s \o t \in AllCalm
BY SetsCalm, SeqThen DEF Plain, AllCalm

LEMMA OnlyCalm ==
  ASSUME NEW ns \in SUBSET {"token"}
  PROVE  F!ApplyOnly("ubuntu-pro", ns) \in Plain
<1>1. F!Of("ubuntu-pro", ns) \in SUBSET Things /\ \A x \in F!Of("ubuntu-pro", ns) : x[1] = "ubuntu-pro" /\ x[2] = "token"
  <2>1. "ubuntu-pro" \in Kinds /\ ns \in SUBSET Names
    BY DEF Kinds, Names
  <2> QED
    BY <2>1, OfThings
<1> DEFINE a == [op |-> "only", plan |-> "ubuntu-pro", things |-> F!Of("ubuntu-pro", ns)]
<1>2. a \in Simple /\ a.op = "only" /\ a.plan = "ubuntu-pro" /\ a.things = F!Of("ubuntu-pro", ns)
  BY <1>1, PlanKinds DEF Simple
<1>3. a.things \cap Watched = {}
  BY <1>1, <1>2, WatchedRows
<1>4. \A x \in a.things : Fitting(x)
  BY <1>1, <1>2 DEF Fitting
<1>5. \A l \in AllLinks : l[1][1] # "ubuntu-pro" /\ l[2][1] # "ubuntu-pro"
  BY LinkEnds, ConsumersAreOfPlans DEF Offers, Plans, AllLinks
<1> HIDE DEF a
<1>6. \A l \in AllLinks : l[1] \notin Adds(a) /\ l[2] \notin Cuts(a)
  BY <1>1, <1>2, <1>5 DEF Adds, Cuts, All
<1>7. a \in CalmSteps(AllLinks, {}, {})
  BY <1>2, <1>3, <1>4, <1>6 DEF CalmSteps, Untouched, Gives
<1>8. F!ApplyOnly("ubuntu-pro", ns) = <<a>>
  BY DEF a, F!ApplyOnly
<1> QED
  BY <1>7, <1>8, SeqOne DEF Plain

----------------------------------------------------------------------------
(* The plans of most features are calm                                     *)

Simplest == {"orchestration", "resource-optimization", "images-sync", "validation", "vault", "ldap"}
CalmFeatures == Simplest \cup {"dns", "pro", "caas", "baremetal", "maintenance", "observability.external"}
                \cup F!TlsProviders

LEMMA KindsOfSteps == {"k8s", "juju", "keystone", "saas", "vault"} \subseteq OtherKinds
BY DEF OtherKinds, Kinds, Plans

LEMMA SimplestCalm ==
  ASSUME NEW f \in Simplest
  PROVE  F!RunEnablePlans(f) \in Plain /\ F!RunDisablePlans(f) \in Plain
<1>1. ASSUME NEW c, QuietSet(c)
      PROVE  F!EnableOpenStackApplicationStep(c) \in Plain /\ F!DisableOpenStackApplicationStep(c) \in Plain
  BY <1>1, PlainSteps DEF QuietSet
<1>2. CASE f = "orchestration"
  <2>1. F!RunEnablePlans(f) = F!EnableOpenStackApplicationStep(F!OrchestrationApps)
        /\ F!RunDisablePlans(f) = F!DisableOpenStackApplicationStep(F!OrchestrationApps)
    BY <1>2 DEF F!RunEnablePlans, F!RunDisablePlans, F!TlsProviders
  <2> QED
    BY <1>1, <2>1, QuietSets
<1>3. CASE f = "resource-optimization"
  <2>1. F!RunEnablePlans(f) = F!EnableOpenStackApplicationStep(F!OptimizationApps)
        /\ F!RunDisablePlans(f) = F!DisableOpenStackApplicationStep(F!OptimizationApps)
    BY <1>3 DEF F!RunEnablePlans, F!RunDisablePlans, F!TlsProviders
  <2> QED
    BY <1>1, <2>1, QuietSets
<1>4. CASE f = "images-sync"
  <2>1. F!RunEnablePlans(f) = F!EnableOpenStackApplicationStep(F!ImagesSyncApps)
        /\ F!RunDisablePlans(f) = F!DisableOpenStackApplicationStep(F!ImagesSyncApps)
    BY <1>4 DEF F!RunEnablePlans, F!RunDisablePlans, F!TlsProviders
  <2> QED
    BY <1>1, <2>1, QuietSets
<1>5. CASE f = "validation"
  <2>1. F!RunEnablePlans(f) = F!EnableOpenStackApplicationStep(F!ValidationApps)
        /\ F!RunDisablePlans(f) = F!DisableOpenStackApplicationStep(F!ValidationApps)
    BY <1>5 DEF F!RunEnablePlans, F!RunDisablePlans, F!TlsProviders
  <2> QED
    BY <1>1, <2>1, QuietSets
<1>6. CASE f = "vault"
  <2>1. F!RunEnablePlans(f) = F!EnableOpenStackApplicationStep(F!VaultApps)
        /\ F!RunDisablePlans(f) = F!DisableOpenStackApplicationStep(F!VaultApps)
    BY <1>6 DEF F!RunEnablePlans, F!RunDisablePlans, F!TlsProviders
  <2> QED
    BY <1>1, <2>1, QuietSets
<1>7. CASE f = "ldap"
  <2>1. F!RunEnablePlans(f) = F!EnableOpenStackApplicationStep(F!LDAPApps)
        /\ F!RunDisablePlans(f) = F!DisableOpenStackApplicationStep(F!LDAPApps)
    BY <1>7 DEF F!RunEnablePlans, F!RunDisablePlans, F!TlsProviders
  <2> QED
    BY <1>1, <2>1, QuietSets
<1> QED
  BY <1>2, <1>3, <1>4, <1>5, <1>6, <1>7 DEF Simplest

LEMMA DnsCalm ==
  /\ F!DnsEnable \in Plain /\ F!DnsUpgrade \in Plain
  /\ F!DisableOpenStackApplicationStep(F!DnsApps) \in Plain
<1>1. F!PatchBindLoadBalancerIPPoolStep \in Plain /\ F!PatchBindLoadBalancerIPStep \in Plain
  <2>1. {"bind_pool"} \in SUBSET Names /\ {"bind_ip"} \in SUBSET Names /\ "k8s" \in OtherKinds
    BY KindsOfSteps DEF Names
  <2> QED
    BY <2>1, PlainSteps DEF F!PatchBindLoadBalancerIPPoolStep, F!PatchBindLoadBalancerIPStep
<1> QED
  BY <1>1, PlainSteps, QuietSets DEF QuietSet, F!DnsEnable, F!DnsUpgrade

LEMMA CaasCalm == F!CaasEnable \in AllCalm /\ F!CaasDisable \in AllCalm
<1>1. "k8s" \in OtherKinds /\ "juju" \in OtherKinds
  BY KindsOfSteps
<1>2. /\ {"orc_crds"} \in SUBSET Names /\ {"cluster_api", "capi_crds"} \in SUBSET Names
      /\ {"caaph_proxy"} \in SUBSET Names /\ {"kubeconfig_secret"} \in SUBSET Names
      /\ {"cluster_api", "caaph_proxy"} \in SUBSET Names /\ {"capi_crds"} \in SUBSET Names
      /\ "cluster_api" \in Names
  BY DEF Names
<1>3. /\ F!InstallOrcCrd \in Plain /\ F!Make(F!Of("k8s", {"cluster_api", "capi_crds"})) \in Plain
      /\ F!PatchCaaphProxyStep \in Plain /\ F!CreateKubeConfigSecretStep \in Plain
      /\ F!DeleteKubeConfigSecretStep \in Plain
  BY <1>1, <1>2, PlainSteps DEF F!InstallOrcCrd, F!PatchCaaphProxyStep, F!CreateKubeConfigSecretStep,
     F!DeleteKubeConfigSecretStep
<1>4. F!DeleteCapi \in Plain /\ F!DeleteOrcResources \in Plain
  BY <1>1, <1>2, PlainSteps DEF F!DeleteCapi, F!DeleteOrcResources
<1>5. F!SetupClusterAPI \in AllCalm
  <2>1. F!ProvidersReady \in Things
    BY <1>2 DEF F!ProvidersReady, Things, Kinds
  <2>2. F!InstallOrcCrd \o F!Make(F!Of("k8s", {"cluster_api", "capi_crds"})) \in Plain
    BY <1>3, PlainSteps
  <2> QED
    BY <2>1, <2>2, ConditionalCalm DEF F!SetupClusterAPI
<1>6. /\ F!EnableOpenStackApplicationStep(F!CaasApps) \in Plain
      /\ F!EnableOpenStackApplicationStep(F!CaasAppsWithSecret) \in Plain
      /\ F!DisableOpenStackApplicationStep(F!CaasApps) \in Plain
  BY QuietSets, PlainSteps DEF QuietSet
<1>7. F!CaasEnable \in AllCalm
  BY <1>3, <1>5, <1>6, AllCalmSteps DEF F!CaasEnable
<1>8. F!CaasDisable \in Plain
  BY <1>3, <1>4, <1>6, PlainSteps DEF F!CaasDisable, F!DeleteClusterAPI
<1> QED
  BY <1>7, <1>8, AllCalmSteps

LEMMA BaremetalCalm == F!BaremetalEnable \in Plain /\ F!BaremetalDisable \in Plain
<1>1. "juju" \in OtherKinds
  BY KindsOfSteps
<1>2. /\ {"temp_url_secret"} \in SUBSET Names /\ {"switch_secrets"} \in SUBSET Names
      /\ {"switch-secrets"} \in SUBSET Names /\ {"shards"} \in SUBSET Names
      /\ {"conductor-groups"} \in SUBSET Names
  BY DEF Names
<1>3. F!RunSetTempUrlSecretStep \in Plain /\ F!Make(F!Of("juju", {"switch_secrets"})) \in Plain
  BY <1>1, <1>2, PlainSteps DEF F!RunSetTempUrlSecretStep
<1>4. /\ F!StoreAndApply("openstack", {"switch-secrets"}, {}) \in Plain
      /\ F!DeployNovaIronicShardsStep \in Plain /\ F!DeployIronicConductorGroupsStep \in Plain
  BY <1>2, QuietStores DEF F!DeployNovaIronicShardsStep, F!DeployIronicConductorGroupsStep
<1>5. F!UpdateSwitchConfigs \in Plain
  BY <1>3, <1>4, PlainSteps DEF F!UpdateSwitchConfigs
<1>6. F!EnableOpenStackApplicationStep(F!BaremetalApps) \in Plain
      /\ F!DisableOpenStackApplicationStep(F!BaremetalApps) \in Plain
  BY QuietSets, PlainSteps DEF QuietSet
<1> QED
  BY <1>3, <1>4, <1>5, <1>6, PlainSteps DEF F!BaremetalEnable, F!BaremetalDisable

LEMMA TlsCalm ==
  ASSUME NEW f \in F!TlsProviders
  PROVE  F!TlsEnable(f) \in Plain /\ F!TlsDisable(f) \in AllCalm
<1>1. /\ F!TlsProviders \in SUBSET Names /\ F!TlsProviders \cap OfferNames = {} /\ "public_tls" \in Names
      /\ "public_tls" \notin OfferNames
      /\ F!TlsProviders \cap {"cos_offers", "octavia_amphora"} = {}
  BY DEF F!TlsProviders, Names, OfferNames, F!ConsulServers
<1>2. F!TlsEnable(f) \in Plain
  <2>1. F!StoreAndApply("openstack", {f, "public_tls"}, F!TlsProviders \ {f}) \in Plain
    BY <1>1, QuietStores
  <2> QED
    BY <2>1 DEF F!TlsEnable, F!StoreAndApply, F!PublicTls
<1>3. /\ F!StoreAndApply("openstack", {}, F!TlsProviders \cup {F!PublicTls}) \in Plain
      /\ F!StoreAndApply("openstack", {}, F!TlsProviders) \in Plain
  BY <1>1, QuietStores DEF F!PublicTls
<1>4. F!TlsRow(f) \in Things
  BY <1>1 DEF F!TlsRow, Things, Kinds
<1>5. F!TlsDisable(f) \in AllCalm
  BY <1>3, <1>4, ConditionalCalm, AllCalmSteps DEF F!TlsDisable
<1> QED
  BY <1>2, <1>5

LEMMA ExternalCalm ==
  /\ \A offers \in BOOLEAN : F!ExternalEnable(offers) \in Plain
  /\ F!ExternalDisable \in Plain
<1> DEFINE c == F!ObservabilityApps("observability.external")
<1>1. /\ AppSet(c) /\ c.vars = {"collector"} /\ c.clears = {"cos_offers"}
      /\ c.vars \cap {"cos_offers", "octavia_amphora"} = {} /\ (c.vars \cup c.clears) \cap OfferNames = {}
  BY DEF F!ObservabilityApps, F!Apps, AppSet, Names, OfferNames, F!ConsulServers
<1>2. F!EnableOpenStackApplicationStep(c) \in Plain /\ F!DisableOpenStackApplicationStep(c) \in Plain
  BY <1>1, PlainSteps
<1>3. /\ {"collector"} \in SUBSET Names /\ {"hardware-observer"} \in SUBSET Names /\ {} \in SUBSET Names
      /\ {"remote_cos_relations"} \in SUBSET Names /\ {"cos_openstack"} \in SUBSET Names
      /\ {"cos_infra"} \in SUBSET Names /\ {"cos_machines"} \in SUBSET Names
  BY DEF Names
<1>4. "agent" \in QuietPlans /\ "agent-infra" \in QuietPlans /\ "hardware-observer" \in QuietPlans
  BY DEF QuietPlans
<1>5. /\ F!DeployObservabilityAgentStep("observability.external") \in Plain
      /\ F!DeployObservabilityAgentInfraStep("observability.external") \in Plain
      /\ F!DeployHardwareObserverStep \in Plain
  BY <1>1, <1>3, <1>4, QuietStores
  DEF F!DeployObservabilityAgentStep, F!DeployObservabilityAgentInfraStep, F!DeployHardwareObserverStep
<1>6. "saas" \in OtherKinds /\ "juju" \in OtherKinds
  BY KindsOfSteps
<1>7. /\ F!IntegrateRemoteCosOffersStep \in Plain /\ F!RemoveRemoteCosOffersStep \in Plain
      /\ F!RemoveSaasApplicationsStep({"cos_openstack"}) \in Plain
      /\ F!RemoveSaasApplicationsStep({"cos_infra"}) \in Plain
      /\ F!RemoveSaasApplicationsStep({"cos_machines"}) \in Plain
  BY <1>3, <1>6, PlainSteps
  DEF F!IntegrateRemoteCosOffersStep, F!RemoveRemoteCosOffersStep, F!RemoveSaasApplicationsStep
<1>8. /\ F!RemoveHardwareObserverStep \in Plain /\ F!RemoveObservabilityAgentStep \in Plain
      /\ F!RemoveObservabilityAgentInfraStep \in Plain
  BY <1>3, QuietRemoval
  DEF F!RemoveHardwareObserverStep, F!RemoveObservabilityAgentStep, F!RemoveObservabilityAgentInfraStep
<1> HIDE DEF c
<1>9. ASSUME NEW offers \in BOOLEAN PROVE F!ExternalEnable(offers) \in Plain
  <2>1. (IF offers THEN F!IntegrateRemoteCosOffersStep ELSE <<>>) \in Plain
    BY <1>7, PlainSteps
  <2>2. F!OnMaas(F!DeployObservabilityAgentInfraStep("observability.external")) \in Plain
    BY <1>5, PlainSteps
  <2> QED
    BY <1>2, <1>5, <2>1, <2>2, PlainSteps DEF F!ExternalEnable, c
<1>10. F!ExternalDisable \in Plain
  <2>1. F!OnMaas(F!RemoveObservabilityAgentInfraStep \o F!RemoveSaasApplicationsStep({"cos_infra"})) \in Plain
    BY <1>7, <1>8, PlainSteps
  <2> QED
    BY <1>2, <1>7, <1>8, <2>1, PlainSteps DEF F!ExternalDisable, c
<1> QED
  BY <1>9, <1>10

----------------------------------------------------------------------------
(* The features with links: what uses comes last and goes first            *)

LEMMA KeepsAll == ASSUME NEW C PROVE Keeps(C, AllLinks)
BY DEF Keeps, AllLinks, LinksOf

LEMMA AllCalmDoes ==
  ASSUME NEW C, Context(C), NEW t \in AllCalm
  PROVE  Triple(Rules, C, t, C)
<1>1. {} \cap Brought = {}
  OBVIOUS
<1>2. Triple(Rules, At(C, {}, {}), t, At(C, {}, {}))
  BY <1>1, KeepsAll, CalmTriple DEF AllCalm
<1> QED
  BY <1>2, AtAll

LEMMA UserDoes ==
  ASSUME NEW C, Context(C), NEW S \in SUBSET PlanThings, NEW plan \in Plans, NEW ns \in SUBSET Names,
         \A n \in ns : Fitting(<<plan, n>>),
         \A l \in AllLinks : l[1][1] = plan /\ (l[1][2] \in ns \/ plan = "manila-data") => l[2] \in S
  PROVE  Triple(Rules, At(C, S, {}), F!StoreAndApply(plan, ns, {}), At(C, S, {}))
<1> DEFINE T == F!Of(plan, ns)
<1>1. \A x \in T : Fitting(x) /\ x[1] = plan /\ x[2] \in ns
  BY DEF F!Of
<1>2. F!Of(plan, {}) \ T = {} /\ {} \in SUBSET Names /\ {} \in SUBSET PlanThings
  BY DEF F!Of
<1>3. \A l \in AllLinks : /\ l[1] \in T \/ (l[1][1] = plan /\ plan = "manila-data") => l[2] \in S \ {}
                         /\ l[2] \in {} => l[1] \in {} \ T
  BY <1>1
<1>4. S \subseteq (S \ {}) \cup T /\ {} \subseteq ({} \ T) \cup {}
  OBVIOUS
<1>5. T = F!Of(plan, ns)
  OBVIOUS
<1> HIDE DEF T
<1> QED
  BY <1>1, <1>2, <1>3, <1>4, <1>5, KeepsAll, StoreAndApplyDoes

LEMMA UserGoes ==
  ASSUME NEW C, Context(C), NEW N \in SUBSET PlanThings, NEW plan \in Plans \ {"manila-data"},
         NEW ns \in SUBSET Names, \A l \in AllLinks : l[2][1] # plan
  PROVE  Triple(Rules, At(C, {}, N), F!StoreAndApply(plan, {}, ns), At(C, {}, N \cup F!Of(plan, ns)))
<1> DEFINE U == F!Of(plan, ns)
           N2 == N \cup U
<1>1. \A x \in U : x[1] = plan
  BY DEF F!Of
<1>2. U \ {} = U /\ F!Of(plan, {}) = {} /\ {} \in SUBSET Names
  BY DEF F!Of
<1>3. \A l \in AllLinks : /\ l[1] \in {} \/ (l[1][1] = plan /\ plan = "manila-data") => l[2] \in {} \ U
                          /\ l[2] \in U => l[1] \in N \ {}
  BY <1>1
<1>4. {} \subseteq ({} \ U) \cup {} /\ N2 \subseteq (N \ {}) \cup U
  OBVIOUS
<1>5. U = F!Of(plan, ns) \ {} /\ {} = F!Of(plan, {}) /\ \A x \in {} : Fitting(x)
  BY <1>2
<1>6. Triple(Rules, At(C, {}, N), F!StoreAndApply(plan, {}, ns), At(C, {}, N2))
  <2> HIDE DEF U, N2
  <2> QED
    BY <1>2, <1>3, <1>4, <1>5, KeepsAll, StoreAndApplyDoes
<1> QED
  BY <1>6

LEMMA CalmWithout ==
  ASSUME NEW C, Context(C), NEW N \in SUBSET PlanThings,
         NEW kind \in OtherKinds, NEW ns \in SUBSET Names, "cos_offers" \notin ns
  PROVE  Triple(Rules, At(C, {}, N), F!Drop(F!Of(kind, ns)), At(C, {}, N))
<1>1. F!Drop(F!Of(kind, ns)) \in Seq(CalmSteps(AllLinks, {}, N))
  BY OthersCalm
<1> QED
  BY <1>1, KeepsAll, CalmDoes

LEMMA LinksOfHypervisor ==
  \A l \in AllLinks :
    /\ l[2][1] # "hypervisor" /\ l[2][1] # "consul-client"
    /\ l[1] = <<"hypervisor", "barbican-offer">> <=> l[2] = <<"openstack", "barbican">>
    /\ l[1] = <<"hypervisor", "ceilometer-offer">> <=> l[2] = <<"openstack", "telemetry">>
    /\ l[1] = <<"hypervisor", "masakari-offer">> <=> l[2] = <<"openstack", "masakari">>
    /\ l[1][1] = "hypervisor" => l[1][2] \in {"barbican-offer", "ceilometer-offer", "masakari-offer"}
    /\ l[1] \in PlanThings
BY DEF AllLinks, Links, AmphoraLinks, AmphoraNeeds, Amphora, F!ConsulServers, CosPlans, Stack, F!Of,
   PlanThings, Plans, Things, Kinds, Names

LEMMA OtherLinks ==
  \A l \in AllLinks :
    /\ l[1][1] = "manila-data" => l[1] = <<"manila-data", "manila-data">>
    /\ l[1][1] = "manila-data" <=> l[2] = <<"openstack", "manila">>
    /\ \A n \in F!ConsulServers :
         l[1] = <<"consul-client", n>> <=> l[2] = <<"openstack", n>>
    /\ l[1][1] = "consul-client" => l[1][2] \in F!ConsulServers
    /\ l[1][2] = "cos_offers" <=> l[2] = Stack
BY DEF AllLinks, Links, AmphoraLinks, AmphoraNeeds, Amphora, F!ConsulServers, CosPlans, Stack, F!Of

LEMMA LinkPairs == \A l \in AllLinks : l[1] = <<l[1][1], l[1][2]>> /\ l[2] = <<l[2][1], l[2][2]>>
BY DEF AllLinks, Links, AmphoraLinks, AmphoraNeeds, Amphora, F!ConsulServers, CosPlans, Stack, F!Of

LEMMA TripleChain ==
  ASSUME NEW P, NEW Q, NEW R, NEW s, NEW t, Triple(Rules, P, s, Q), Triple(Rules, Q, t, R)
  PROVE  Triple(Rules, P, s \o t, R)
BY RulesRise, TripleThen

LEMMA LinkedSets ==
  /\ AppSet(F!SecretsApps) /\ F!SecretsApps.vars = {"barbican"} /\ F!SecretsApps.clears = {}
  /\ AppSet(F!TelemetryApps) /\ F!TelemetryApps.vars = {"telemetry"} /\ F!TelemetryApps.clears = {}
  /\ AppSet(F!SharedFilesystemApps) /\ F!SharedFilesystemApps.clears = {}
  /\ F!SharedFilesystemApps.vars = {"manila", "manila-cephfs", "ceph-nfs", "plugin_manila"}
  /\ AppSet(F!InstanceRecoveryApps) /\ F!InstanceRecoveryApps.vars = F!ConsulServers \cup {"masakari"}
  /\ F!InstanceRecoveryApps.clears = {"consul-tenant", "consul-storage"}
<1> USE SomeDbNames DEF AppSet, F!Apps, F!ConsulServers, Names
<1>1. AppSet(F!SecretsApps) /\ F!SecretsApps.vars = {"barbican"} /\ F!SecretsApps.clears = {}
  BY DEF F!SecretsApps
<1>2. AppSet(F!TelemetryApps) /\ F!TelemetryApps.vars = {"telemetry"} /\ F!TelemetryApps.clears = {}
  BY DEF F!TelemetryApps
<1>3. /\ AppSet(F!SharedFilesystemApps) /\ F!SharedFilesystemApps.clears = {}
      /\ F!SharedFilesystemApps.vars = {"manila", "manila-cephfs", "ceph-nfs", "plugin_manila"}
  BY DEF F!SharedFilesystemApps
<1>4. /\ AppSet(F!InstanceRecoveryApps) /\ F!InstanceRecoveryApps.vars = F!ConsulServers \cup {"masakari"}
      /\ F!InstanceRecoveryApps.clears = {"consul-tenant", "consul-storage"}
  BY DEF F!InstanceRecoveryApps
<1> QED
  BY <1>1, <1>2, <1>3, <1>4

LEMMA OfOpenstack ==
  ASSUME NEW ns \in SUBSET Names
  PROVE  F!Of("openstack", ns) \in SUBSET PlanThings /\ \A n \in ns : <<"openstack", n>> \in F!Of("openstack", ns)
BY OfThings DEF PlanThings, Plans, Kinds, F!Of

\* Enabling: the applications, from nothing known to be provided
LEMMA ServiceComes ==
  ASSUME NEW C, Context(C), NEW c, AppSet(c), c.vars \cap {"octavia_amphora", "cos_offers"} = {}
  PROVE  Triple(Rules, C, F!EnableOpenStackApplicationStep(c), At(C, F!Of("openstack", c.vars), {}))
<1>1. {} \cup F!Of("openstack", c.vars) = F!Of("openstack", c.vars) /\ {} \in SUBSET PlanThings
  OBVIOUS
<1>2. Triple(Rules, At(C, {}, {}), F!EnableOpenStackApplicationStep(c),
             At(C, {} \cup F!Of("openstack", c.vars), {}))
  BY <1>1, KeepsAll, EnableDoes
<1> QED
  BY <1>1, <1>2, AtAll

LEMMA EndsIn ==
  ASSUME NEW C, NEW P, NEW t, NEW S, NEW N, Triple(Rules, P, t, At(C, S, N))
  PROVE  Triple(Rules, P, t, C)
<1>1. At(C, S, N) \subseteq C /\ P \subseteq P
  BY DEF At
<1> QED
  BY <1>1, TripleFits

\* Disabling: what used the applications is gone.
LEMMA ServiceGoes ==
  ASSUME NEW C, Context(C), NEW N \in SUBSET PlanThings, NEW c, AppSet(c),
         \A l \in AllLinks : l[2][1] = "openstack" /\ l[2][2] \in c.vars \cup c.clears => l[1] \in N
  PROVE  Triple(Rules, At(C, {}, N), F!DisableOpenStackApplicationStep(c), C)
<1>1. \A l \in AllLinks : l[2] \in F!Of("openstack", c.vars \cup c.clears) => l[1] \in N
  BY DEF F!Of
<1>2. Triple(Rules, At(C, {}, N), F!DisableOpenStackApplicationStep(c),
             At(C, {}, N \cup F!Of("openstack", c.vars \cup c.clears)))
  BY <1>1, KeepsAll, DisableDoes
<1> QED
  BY <1>2, EndsIn

OfferVars == {"barbican-offer", "ceilometer-offer", "masakari-offer"}

LEMMA OfferComes ==
  ASSUME NEW C, Context(C), NEW S \in SUBSET PlanThings, NEW o \in OfferVars,
         \A l \in AllLinks : l[1] = <<"hypervisor", o>> => l[2] \in S
  PROVE  Triple(Rules, At(C, S, {}), F!ReapplyHypervisor({o}, {}), At(C, S, {}))
<1>1. {o} \in SUBSET Names /\ "hypervisor" \in Plans /\ "hypervisor" # "manila-data"
      /\ \A n \in {o} : Fitting(<<"hypervisor", n>>)
  BY DEF Names, Plans, Fitting, OfferVars
<1>2. \A l \in AllLinks : l[1][1] = "hypervisor" /\ (l[1][2] \in {o} \/ "hypervisor" = "manila-data") => l[2] \in S
  BY LinkPairs
<1> QED
  BY <1>1, <1>2, UserDoes DEF F!ReapplyHypervisor

LEMMA OfferGoes ==
  ASSUME NEW C, Context(C), NEW o \in OfferVars
  PROVE  /\ F!Of("hypervisor", {o}) \in SUBSET PlanThings /\ <<"hypervisor", o>> \in F!Of("hypervisor", {o})
         /\ Triple(Rules, C, F!ReapplyHypervisor({}, {o}), At(C, {}, F!Of("hypervisor", {o})))
<1> DEFINE N == F!Of("hypervisor", {o})
<1>1. {o} \in SUBSET Names /\ "hypervisor" \in Plans \ {"manila-data"} /\ "hypervisor" \in Kinds
  BY DEF Names, Plans, Kinds, OfferVars
<1>2. N \in SUBSET PlanThings /\ <<"hypervisor", o>> \in N
  BY <1>1, OfThings DEF PlanThings, F!Of
<1>3. {} \cup N = N /\ {} \in SUBSET PlanThings
  OBVIOUS
<1>4. Triple(Rules, At(C, {}, {}), F!StoreAndApply("hypervisor", {}, {o}), At(C, {}, {} \cup N))
  BY <1>1, <1>3, LinksOfHypervisor, UserGoes
<1> QED
  BY <1>2, <1>3, <1>4, AtAll DEF F!ReapplyHypervisor

LEMMA SecretsEnables ==
  ASSUME NEW C, Context(C) PROVE Triple(Rules, C, F!SecretsEnable, C)
<1> DEFINE S == F!Of("openstack", {"barbican"})
<1>1. Triple(Rules, C, F!EnableOpenStackApplicationStep(F!SecretsApps), At(C, S, {}))
  BY LinkedSets, ServiceComes
<1>2. S \in SUBSET PlanThings /\ <<"openstack", "barbican">> \in S
  BY OfOpenstack DEF Names
<1> HIDE DEF S
<1>3. Triple(Rules, At(C, S, {}), F!ReapplyHypervisor({"barbican-offer"}, {}), At(C, S, {}))
  BY <1>2, LinksOfHypervisor, OfferComes DEF OfferVars
<1> QED
  BY <1>1, <1>3, TripleChain, EndsIn DEF F!SecretsEnable

LEMMA SecretsDisables ==
  ASSUME NEW C, Context(C) PROVE Triple(Rules, C, F!SecretsDisable, C)
<1> DEFINE N == F!Of("hypervisor", {"barbican-offer"})
<1>1. N \in SUBSET PlanThings /\ <<"hypervisor", "barbican-offer">> \in N
      /\ Triple(Rules, C, F!ReapplyHypervisor({}, {"barbican-offer"}), At(C, {}, N))
  BY OfferGoes DEF OfferVars
<1>2. Triple(Rules, At(C, {}, N), F!RemoveSaasApplicationsStep({"barbican"}), At(C, {}, N))
  <2>1. {"barbican"} \in SUBSET Names
    BY DEF Names
  <2> QED
    BY <1>1, <2>1, KindsOfSteps, CalmWithout DEF F!RemoveSaasApplicationsStep
<1>3. \A l \in AllLinks : l[2][1] = "openstack" /\ l[2][2] \in {"barbican"} \cup {} => l[1] \in N
  BY <1>1, LinkPairs, LinksOfHypervisor
<1> HIDE DEF N
<1>4. Triple(Rules, At(C, {}, N), F!DisableOpenStackApplicationStep(F!SecretsApps), C)
  BY <1>1, <1>3, LinkedSets, ServiceGoes
<1> QED
  BY <1>1, <1>2, <1>4, TripleChain DEF F!SecretsDisable

LEMMA TelemetryEnables ==
  ASSUME NEW C, Context(C) PROVE Triple(Rules, C, F!TelemetryEnable, C)
<1> DEFINE S == F!Of("openstack", {"telemetry"})
<1>1. Triple(Rules, C, F!EnableOpenStackApplicationStep(F!TelemetryApps), At(C, S, {}))
  BY LinkedSets, ServiceComes
<1>2. S \in SUBSET PlanThings /\ <<"openstack", "telemetry">> \in S
  BY OfOpenstack DEF Names
<1> HIDE DEF S
<1>3. Triple(Rules, At(C, S, {}), F!ReapplyHypervisor({"ceilometer-offer"}, {}), C)
  BY <1>2, LinksOfHypervisor, OfferComes, EndsIn DEF OfferVars
<1>4. /\ F!StoreAndApply("cinder-volume", {"notifications"}, {}) \in AllCalm
      /\ F!DeploySpecificCinderVolume({"notifications"}, {}) \in AllCalm
  <2>1. {"notifications"} \in SUBSET Names /\ {} \in SUBSET Names
        /\ "cinder-volume" \in QuietPlans /\ "storage-backend" \in QuietPlans
    BY DEF Names, QuietPlans
  <2> QED
    BY <2>1, QuietStores, AllCalmSteps DEF F!DeploySpecificCinderVolume
<1> QED
  BY <1>1, <1>3, <1>4, AllCalmDoes, TripleChain DEF F!TelemetryEnable

LEMMA TelemetryDisables ==
  ASSUME NEW C, Context(C) PROVE Triple(Rules, C, F!TelemetryDisable, C)
<1> DEFINE N == F!Of("hypervisor", {"ceilometer-offer"})
<1>1. N \in SUBSET PlanThings /\ <<"hypervisor", "ceilometer-offer">> \in N
      /\ Triple(Rules, C, F!ReapplyHypervisor({}, {"ceilometer-offer"}), At(C, {}, N))
  BY OfferGoes DEF OfferVars
<1>2. Triple(Rules, At(C, {}, N), F!RemoveSaasApplicationsStep({"ceilometer"}), At(C, {}, N))
  <2>1. {"ceilometer"} \in SUBSET Names
    BY DEF Names
  <2> QED
    BY <1>1, <2>1, KindsOfSteps, CalmWithout DEF F!RemoveSaasApplicationsStep
<1>3. \A l \in AllLinks : l[2][1] = "openstack" /\ l[2][2] \in {"telemetry"} \cup {} => l[1] \in N
  BY <1>1, LinkPairs, LinksOfHypervisor
<1>4. {"notifications"} \in SUBSET Names /\ {} \in SUBSET Names
      /\ "cinder-volume" \in QuietPlans /\ "storage-backend" \in QuietPlans
  BY DEF Names, QuietPlans
<1>5. Triple(Rules, At(C, {}, N), F!StoreAndApply("cinder-volume", {}, {"notifications"}), At(C, {}, N))
  <2>1. \A x \in {} \cup N : x[1] # "cinder-volume"
    BY DEF F!Of
  <2>2. F!StoreAndApply("cinder-volume", {}, {"notifications"}) \in Seq(CalmSteps(AllLinks, {}, N))
    <3>1. {} \in SUBSET PlanThings /\ AllLinks \subseteq AllLinks /\ "cos_offers" \notin {}
      OBVIOUS
    <3> HIDE DEF N
    <3> QED
      BY <1>1, <1>4, <2>1, <3>1, QuietCalm
  <2> QED
    BY <1>1, <2>2, KeepsAll, CalmDoes
<1> HIDE DEF N
<1>6. Triple(Rules, At(C, {}, N), F!DisableOpenStackApplicationStep(F!TelemetryApps), C)
  BY <1>1, <1>3, LinkedSets, ServiceGoes
<1>7. Triple(Rules, C, F!DeploySpecificCinderVolume({}, {"notifications"}), C)
  BY <1>4, QuietStores, AllCalmSteps, AllCalmDoes DEF F!DeploySpecificCinderVolume
<1> QED
  BY <1>1, <1>2, <1>5, <1>6, <1>7, TripleChain DEF F!TelemetryDisable

LEMMA SharedFilesystemEnables ==
  ASSUME NEW C, Context(C) PROVE Triple(Rules, C, F!SharedFilesystemEnable, C)
<1> DEFINE S == F!Of("openstack", {"manila", "manila-cephfs", "ceph-nfs", "plugin_manila"})
<1>1. Triple(Rules, C, F!EnableOpenStackApplicationStep(F!SharedFilesystemApps), At(C, S, {}))
  BY LinkedSets, ServiceComes
<1>2. S \in SUBSET PlanThings /\ <<"openstack", "manila">> \in S
  BY OfOpenstack DEF Names
<1> HIDE DEF S
<1>3. {"manila-data"} \in SUBSET Names /\ "manila-data" \in Plans /\ "manila-data" \in Kinds
      /\ \A n \in {"manila-data"} : Fitting(<<"manila-data", n>>)
  BY DEF Names, Plans, Kinds, Fitting
<1>4. Triple(Rules, At(C, S, {}), F!StoreAndApply("manila-data", {"manila-data"}, {}), At(C, S, {}))
  <2>1. \A l \in AllLinks : l[1][1] = "manila-data" /\ (l[1][2] \in {"manila-data"} \/ "manila-data" = "manila-data")
                            => l[2] \in S
    BY <1>2, OtherLinks
  <2> QED
    BY <1>2, <1>3, <2>1, UserDoes
<1>5. Triple(Rules, At(C, S, {}), F!Await("manila-data", {"manila-data"}), At(C, S, {}))
  <2>1. {} \in SUBSET PlanThings
    OBVIOUS
  <2> QED
    BY <1>3, <2>1, AwaitCalm, KeepsAll, CalmDoes
<1>6. Triple(Rules, At(C, S, {}), F!DeployManilaDataApplicationStep, At(C, S, {}))
  BY <1>4, <1>5, TripleChain DEF F!DeployManilaDataApplicationStep
<1> QED
  BY <1>1, <1>6, TripleChain, EndsIn DEF F!SharedFilesystemEnable

\* The variables of manila-data stay, what they deployed goes.
LEMMA ManilaDataGoes ==
  ASSUME NEW C, Context(C)
  PROVE  Triple(Rules, C, F!DestroyManilaDataApplicationStep, At(C, {}, All("manila-data")))
<1> DEFINE a == [op |-> "destroy", plan |-> "manila-data"]
           N == All("manila-data")
<1>1. "manila-data" \in AtomPlans /\ "manila-data" \in Kinds /\ N \in SUBSET PlanThings /\ N \cap Brought = {}
      /\ {"manila-data"} \in SUBSET Names
  BY DEF AtomPlans, Plans, Kinds, PlanThings, All, Brought, Names
<1>2. a \in Simple /\ a.op = "destroy" /\ a.plan = "manila-data"
  BY <1>1 DEF Simple
<1>3. <<a>> = F!Destroy("manila-data")
  BY DEF F!Destroy
<1> HIDE DEF a
<1>4. Cuts(a) = N /\ Adds(a) = {} /\ Gives(a) = {}
  BY <1>2 DEF Cuts, Adds, Gives
<1>5. \A l \in AllLinks : l[2] \notin N
  BY LinkEnds DEF Offers, All
<1>6. Mild(a, AllLinks, {}, {})
  BY <1>2, <1>4, <1>5 DEF Mild, Untouched
<1>7. ASSUME NEW s \in C PROVE Does(a, s) \in At(C, {}, N)
  <2>1. s \in Books /\ s \in At(C, {}, {})
    BY AtAll DEF Context, GoodBooks
  <2>2. Does(a, s) \in At(C, {} \ Cuts(a), {} \ Adds(a))
    <3>1. {} \cap Brought = {}
      OBVIOUS
    <3> QED
      BY <1>6, <2>1, <3>1, KeepsAll, MildStep
  <2>3. Does(a, s).live \cap N = {}
    BY <1>1, <1>2, <2>1, DoesFields, NextLiveFacts, LivesAndStored DEF F!Lives, F!Replaced, All
  <2>4. N \cap Used(Does(a, s)) = {}
    BY <2>3 DEF Used, All
  <2> QED
    BY <2>2, <2>4 DEF At
<1>8. C \in SUBSET GoodBooks /\ At(C, {}, N) \in SUBSET GoodBooks
  BY AtGood DEF Context
<1>9. Triple(Rules, C, <<a>>, At(C, {}, N))
  <2>1. <<C, a, At(C, {}, N)>> \in Rules0
    BY <1>2, <1>7, <1>8 DEF Rules0
  <2> QED
    BY <1>2, <1>8, <2>1, RulesInclude, AtomsInclude, TripleOne
<1> HIDE DEF N
<1>10. Triple(Rules, At(C, {}, N), F!AwaitGone("manila-data", {"manila-data"}), At(C, {}, N))
  BY <1>1, AwaitCalm, KeepsAll, CalmDoes
<1> QED
  BY <1>3, <1>9, <1>10, TripleChain DEF F!DestroyManilaDataApplicationStep, N

LEMMA SharedFilesystemDisables ==
  ASSUME NEW C, Context(C) PROVE Triple(Rules, C, F!SharedFilesystemDisable, C)
<1> DEFINE N == All("manila-data")
<1>1. N \in SUBSET PlanThings
  BY DEF All, PlanThings, Plans
<1>2. \A l \in AllLinks : l[2][1] = "openstack"
         /\ l[2][2] \in {"manila", "manila-cephfs", "ceph-nfs", "plugin_manila"} \cup {} => l[1] \in N
  <2> SUFFICES ASSUME NEW l \in AllLinks, l[2][1] = "openstack",
                      l[2][2] \in {"manila", "manila-cephfs", "ceph-nfs", "plugin_manila"}
               PROVE  l[1] \in N
    OBVIOUS
  <2>1. l[2][2] \in OfferNames
    BY LinkEnds DEF Offers
  <2>2. l[2] = <<"openstack", "manila">>
    BY <2>1, LinkPairs DEF OfferNames, F!ConsulServers
  <2>3. l[1][1] = "manila-data" /\ l[1] \in PlanThings
    BY <2>2, OtherLinks, LinksOfHypervisor
  <2> QED
    BY <2>3 DEF All, PlanThings
<1>3. Triple(Rules, C, F!DestroyManilaDataApplicationStep, At(C, {}, N))
  BY ManilaDataGoes
<1> HIDE DEF N
<1>4. Triple(Rules, At(C, {}, N), F!DisableOpenStackApplicationStep(F!SharedFilesystemApps), C)
  BY <1>1, <1>2, LinkedSets, ServiceGoes
<1> QED
  BY <1>3, <1>4, TripleChain DEF F!SharedFilesystemDisable

LEMMA InstanceRecoveryEnables ==
  ASSUME NEW C, Context(C) PROVE Triple(Rules, C, F!InstanceRecoveryEnable, C)
<1> DEFINE S == F!Of("openstack", F!ConsulServers \cup {"masakari"})
<1>1. Triple(Rules, C, F!EnableOpenStackApplicationStep(F!InstanceRecoveryApps), At(C, S, {}))
  <2>1. (F!ConsulServers \cup {"masakari"}) \cap {"octavia_amphora", "cos_offers"} = {}
    BY DEF F!ConsulServers
  <2> QED
    BY <2>1, LinkedSets, ServiceComes
<1>2. /\ F!ConsulServers \in SUBSET Names /\ F!ConsulServers \cup {"masakari"} \in SUBSET Names
      /\ {"consul-storage_pool", "consul-storage_ip"} \in SUBSET Names /\ {} \in SUBSET PlanThings
      /\ "consul-client" \in Plans /\ "consul-client" \in Kinds /\ "consul-client" # "manila-data"
  BY DEF F!ConsulServers, Names, Plans, Kinds
<1>3. S \in SUBSET PlanThings /\ \A n \in F!ConsulServers \cup {"masakari"} : <<"openstack", n>> \in S
  BY <1>2, OfOpenstack
<1> HIDE DEF S
<1>4. Triple(Rules, At(C, S, {}), F!OnMaas(F!PatchConsulStorageLoadBalancer), At(C, S, {}))
  <2>1. F!PatchConsulStorageLoadBalancer \in Seq(CalmSteps(AllLinks, S, {}))
    BY <1>2, <1>3, KindsOfSteps, OthersCalm DEF F!PatchConsulStorageLoadBalancer
  <2>2. F!OnMaas(F!PatchConsulStorageLoadBalancer) \in Seq(CalmSteps(AllLinks, S, {}))
    BY <2>1, MaasCalm
  <2> QED
    BY <1>2, <2>2, KeepsAll, CalmDoes
<1>5. Triple(Rules, At(C, S, {}), F!DeployConsulClientStep, At(C, S, {}))
  <2>1. \A n \in F!ConsulServers : Fitting(<<"consul-client", n>>)
    BY DEF Fitting, F!ConsulServers
  <2>2. \A l \in AllLinks : l[1][1] = "consul-client"
           /\ (l[1][2] \in F!ConsulServers \/ "consul-client" = "manila-data") => l[2] \in S
    BY <1>3, LinkPairs, OtherLinks
  <2>3. Triple(Rules, At(C, S, {}), F!StoreAndApply("consul-client", F!ConsulServers, {}), At(C, S, {}))
    BY <1>2, <1>3, <2>1, <2>2, UserDoes
  <2>4. Triple(Rules, At(C, S, {}), F!Await("consul-client", F!ConsulServers), At(C, S, {}))
    BY <1>2, AwaitCalm, KeepsAll, CalmDoes
  <2> QED
    BY <2>3, <2>4, TripleChain DEF F!DeployConsulClientStep
<1>6. Triple(Rules, At(C, S, {}), F!ReapplyHypervisor({"masakari-offer"}, {}), At(C, S, {}))
  BY <1>3, LinksOfHypervisor, OfferComes DEF OfferVars
<1> QED
  BY <1>1, <1>4, <1>5, <1>6, TripleChain, EndsIn DEF F!InstanceRecoveryEnable

LEMMA InstanceRecoveryDisables ==
  ASSUME NEW C, Context(C) PROVE Triple(Rules, C, F!InstanceRecoveryDisable, C)
<1> DEFINE M == F!Of("hypervisor", {"masakari-offer"})
           N == M \cup All("consul-client")
<1>1. M \in SUBSET PlanThings /\ <<"hypervisor", "masakari-offer">> \in M
      /\ Triple(Rules, C, F!ReapplyHypervisor({}, {"masakari-offer"}), At(C, {}, M))
  BY OfferGoes DEF OfferVars
<1>2. Triple(Rules, At(C, {}, M), F!RemoveSaasApplicationsStep({"masakari"}), At(C, {}, M))
  <2>1. {"masakari"} \in SUBSET Names
    BY DEF Names
  <2> QED
    BY <1>1, <2>1, KindsOfSteps, CalmWithout DEF F!RemoveSaasApplicationsStep
<1>3. Triple(Rules, At(C, {}, M), F!RemoveConsulClientStep, At(C, {}, N))
  <2>1. "consul-client" \in Plans /\ F!ConsulServers \in SUBSET Names
    BY DEF Plans, F!ConsulServers, Names
  <2>2. Private("consul-client", AllLinks, {})
    BY PrivatePlans
  <2>3. N \subseteq M \cup All("consul-client")
    OBVIOUS
  <2> HIDE DEF M, N
  <2> QED
    BY <1>1, <2>1, <2>2, <2>3, KeepsAll, RemoveDoes DEF F!RemoveConsulClientStep
<1>4. N \in SUBSET PlanThings
  BY <1>1 DEF All, PlanThings, Plans
<1>5. \A l \in AllLinks : l[2][1] = "openstack"
         /\ l[2][2] \in (F!ConsulServers \cup {"masakari"}) \cup {"consul-tenant", "consul-storage"} => l[1] \in N
  <2> SUFFICES ASSUME NEW l \in AllLinks, l[2][1] = "openstack",
                      l[2][2] \in (F!ConsulServers \cup {"masakari"}) \cup {"consul-tenant", "consul-storage"}
               PROVE  l[1] \in N
    OBVIOUS
  <2>1. l[2][2] \in OfferNames /\ l[2] = <<"openstack", l[2][2]>> /\ l[1] \in PlanThings
    BY LinkEnds, LinkPairs, LinksOfHypervisor DEF Offers
  <2>2. l[2][2] = "masakari" \/ l[2][2] \in F!ConsulServers
    BY <2>1 DEF OfferNames, F!ConsulServers
  <2>3. CASE l[2][2] = "masakari"
    BY <1>1, <2>1, <2>3, LinksOfHypervisor
  <2>4. CASE l[2][2] \in F!ConsulServers
    BY <2>1, <2>4, OtherLinks DEF All, PlanThings
  <2> QED
    BY <2>2, <2>3, <2>4
<1> HIDE DEF M, N
<1>6. Triple(Rules, At(C, {}, N), F!DisableOpenStackApplicationStep(F!InstanceRecoveryApps), C)
  BY <1>4, <1>5, LinkedSets, ServiceGoes
<1> QED
  BY <1>1, <1>2, <1>3, <1>6, TripleChain DEF F!InstanceRecoveryDisable

----------------------------------------------------------------------------
(* Observability: the stack, and what uses its offers                      *)

Embedded == F!ObservabilityApps("observability.embedded")

LEMMA EmbeddedSet ==
  /\ AppSet(Embedded) /\ Embedded.vars = {"collector", "cos_offers"} /\ Embedded.clears = {"cos_offers"}
BY DEF Embedded, F!ObservabilityApps, F!Apps, AppSet, Names

LEMMA StackComes ==
  ASSUME NEW C, Context(C)
  PROVE  Triple(Rules, C, F!DeployObservabilityStackStep, At(C, {Stack}, {}))
<1>1. /\ {"cos"} \in SUBSET Names /\ {} \in SUBSET Names /\ "cos" \in Plans /\ "cos" \in Kinds
      /\ "cos" # "manila-data" /\ {} \in SUBSET PlanThings
      /\ F!Of("cos", {"cos"}) = {Stack} /\ F!Of("cos", {}) \ {Stack} = {}
  BY DEF Names, Plans, Kinds, Stack, F!Of
<1>2. Triple(Rules, C, F!Make(F!Of("db", {"cos_storage"})), C)
  <2>1. F!Make(F!Of("db", {"cos_storage"})) \in AllCalm
    BY <1>1, SomeDbNames, RowsCalm, AllCalmSteps DEF Plain
  <2> QED
    BY <2>1, AllCalmDoes
<1>3. Triple(Rules, At(C, {}, {}), F!StoreAndApply("cos", {"cos"}, {}), At(C, {Stack}, {}))
  <2>1. \A x \in {Stack} : Fitting(x)
    BY DEF Stack, Fitting
  <2>2. \A l \in AllLinks : /\ l[1] \in {Stack} \/ (l[1][1] = "cos" /\ "cos" = "manila-data") => l[2] \in {} \ {}
                            /\ l[2] \in {} => l[1] \in {} \ {Stack}
    BY LinkEnds DEF Consumes, Stack, Amphora
  <2>3. {Stack} \subseteq ({} \ {}) \cup {Stack} /\ {} \subseteq ({} \ {Stack}) \cup {}
    OBVIOUS
  <2>4. {Stack} = F!Of("cos", {"cos"}) /\ {} = F!Of("cos", {}) \ {Stack}
    BY <1>1
  <2> HIDE DEF Stack
  <2> QED
    BY <1>1, <2>1, <2>2, <2>3, <2>4, KeepsAll, StoreAndApplyDoes
<1>4. Triple(Rules, At(C, {Stack}, {}), F!Await("cos", {"cos"}), At(C, {Stack}, {}))
  BY <1>1, AwaitCalm, KeepsAll, CalmDoes
<1> QED
  BY <1>2, <1>3, <1>4, AtAll, TripleChain DEF F!DeployObservabilityStackStep

LEMMA StackUsers == \A l \in AllLinks : l[1][2] = "cos_offers" => l[2] \in {Stack} /\ l[1][1] \in CosPlans
BY DEF AllLinks, Links, AmphoraLinks, Amphora, F!ConsulServers

LEMMA EmbeddedEnables ==
  ASSUME NEW C, Context(C) PROVE Triple(Rules, C, F!EmbeddedEnable, C)
<1> DEFINE S == {Stack}
           P == At(C, S, {})
<1>0. /\ S \in SUBSET PlanThings /\ {} \in SUBSET PlanThings /\ AllLinks \subseteq AllLinks
      /\ {"cos_pool"} \in SUBSET Names /\ {"cos_ip"} \in SUBSET Names
      /\ {"collector", "cos_offers"} \in SUBSET Names /\ {"hardware-observer"} \in SUBSET Names
      /\ {} \in SUBSET Names /\ "agent" \in Plans /\ "hardware-observer" \in QuietPlans
      /\ "agent-infra" \in Plans
  BY DEF PlanThings, Stack, Things, Kinds, Plans, Names, QuietPlans
<1>1. Triple(Rules, C, F!DeployObservabilityStackStep, P)
  BY StackComes
<1>2. /\ Triple(Rules, P, F!OnMaas(F!PatchCosLoadBalancerIPPoolStep), P)
      /\ Triple(Rules, P, F!PatchCosLoadBalancerIPStep, P)
  <2>1. /\ F!PatchCosLoadBalancerIPPoolStep \in Seq(CalmSteps(AllLinks, S, {}))
        /\ F!PatchCosLoadBalancerIPStep \in Seq(CalmSteps(AllLinks, S, {}))
    BY <1>0, KindsOfSteps, OthersCalm DEF F!PatchCosLoadBalancerIPPoolStep, F!PatchCosLoadBalancerIPStep
  <2>2. F!OnMaas(F!PatchCosLoadBalancerIPPoolStep) \in Seq(CalmSteps(AllLinks, S, {}))
    BY <2>1, MaasCalm
  <2> QED
    BY <1>0, <2>1, <2>2, KeepsAll, CalmDoes
<1>3. Triple(Rules, P, F!EnableOpenStackApplicationStep(Embedded), P)
  <2>1. Triple(Rules, P, F!EnableOpenStackApplicationStep(Embedded), At(C, S \cup F!Of("openstack", Embedded.vars), {}))
    BY <1>0, EmbeddedSet, KeepsAll, EnableDoes
  <2>2. At(C, S \cup F!Of("openstack", Embedded.vars), {}) \subseteq P /\ P \subseteq P
    BY AtLess
  <2> QED
    BY <2>1, <2>2, TripleFits
<1>4. Triple(Rules, P, F!DeployObservabilityAgentStep("observability.embedded"), P)
  <2>1. \A n \in {"collector", "cos_offers"} : Fitting(<<"agent", n>>)
    BY DEF Fitting, CosPlans
  <2>2. \A l \in AllLinks : l[1][1] = "agent"
           /\ (l[1][2] \in {"collector", "cos_offers"} \/ "agent" = "manila-data") => l[2] \in S
    BY LinkEnds, StackUsers DEF Consumes, Amphora
  <2> QED
    BY <1>0, <2>1, <2>2, EmbeddedSet, UserDoes DEF F!DeployObservabilityAgentStep, Embedded
<1>5. Triple(Rules, P, F!DeployHardwareObserverStep, P)
  <2>1. \A x \in S \cup {} : x[1] # "hardware-observer"
    BY DEF Stack
  <2>2. F!DeployHardwareObserverStep \in Seq(CalmSteps(AllLinks, S, {}))
    <3> HIDE DEF S
    <3> QED
      BY <1>0, <2>1, QuietCalm DEF F!DeployHardwareObserverStep
  <2> QED
    BY <1>0, <2>2, KeepsAll, CalmDoes
<1>6. Triple(Rules, P, F!OnMaas(F!DeployObservabilityAgentInfraStep("observability.embedded")), P)
  <2>1. CASE Maas
    <3>1. \A n \in {"collector", "cos_offers"} : Fitting(<<"agent-infra", n>>)
      BY <2>1 DEF Fitting, CosPlans
    <3>2. \A l \in AllLinks : l[1][1] = "agent-infra"
             /\ (l[1][2] \in {"collector", "cos_offers"} \/ "agent-infra" = "manila-data") => l[2] \in S
      BY LinkEnds, StackUsers DEF Consumes, Amphora
    <3>3. Triple(Rules, P, F!DeployObservabilityAgentInfraStep("observability.embedded"), P)
      BY <1>0, <3>1, <3>2, EmbeddedSet, UserDoes DEF F!DeployObservabilityAgentInfraStep, Embedded
    <3> QED
      BY <2>1, <3>3 DEF F!OnMaas
  <2>2. CASE ~ Maas
    <3>1. P \in SUBSET GoodBooks /\ P \subseteq P
      BY AtGood
    <3> QED
      BY <2>2, <3>1, TripleEmpty DEF F!OnMaas
  <2> QED
    BY <2>1, <2>2
<1> HIDE DEF P, S
<1>7. Triple(Rules, P, F!OnMaas(F!DeployObservabilityAgentInfraStep("observability.embedded")), C)
  BY <1>6, EndsIn DEF P
<1> QED
  BY <1>1, <1>2, <1>3, <1>4, <1>5, <1>7, TripleChain DEF F!EmbeddedEnable, Embedded

LEMMA EmbeddedDisables ==
  ASSUME NEW C, Context(C) PROVE Triple(Rules, C, F!EmbeddedDisable, C)
<1> DEFINE N0 == F!Of("openstack", {"collector", "cos_offers"})
           N1 == N0 \cup (IF Maas THEN All("agent-infra") ELSE {})
           N2 == N1 \cup All("agent")
           P0 == At(C, {}, N0)
           P1 == At(C, {}, N1)
           P2 == At(C, {}, N2)
<1>0. /\ {"collector"} \in SUBSET Names /\ {"cos_openstack"} \in SUBSET Names /\ {"cos_infra"} \in SUBSET Names
      /\ {"cos_machines"} \in SUBSET Names /\ {"hardware-observer"} \in SUBSET Names
      /\ {"collector", "cos_offers"} \in SUBSET Names /\ {"cos"} \in SUBSET Names
      /\ {"hardware-observer", "agent", "agent-infra"} \subseteq Plans
      /\ {} \in SUBSET PlanThings
  BY DEF Names, Plans
<1>1. N0 \in SUBSET PlanThings /\ N1 \in SUBSET PlanThings /\ N2 \in SUBSET PlanThings
      /\ <<"openstack", "cos_offers">> \in N0
  <2>1. N0 \in SUBSET PlanThings /\ <<"openstack", "cos_offers">> \in N0
    BY <1>0, OfOpenstack
  <2> QED
    BY <1>0, <2>1 DEF All, PlanThings
<1>2. Triple(Rules, C, F!DisableOpenStackApplicationStep(Embedded), P0)
  <2>1. Embedded.vars \cup Embedded.clears = {"collector", "cos_offers"}
    BY EmbeddedSet
  <2>2. \A l \in AllLinks : l[2] \in N0 => l[1] \in {}
    <3>1. \A x \in N0 : x[1] = "openstack" /\ x[2] \in {"collector", "cos_offers"}
      BY DEF F!Of
    <3> QED
      BY <3>1, LinkEnds DEF Offers, OfferNames, F!ConsulServers
  <2>3. {} \cup N0 = N0
    OBVIOUS
  <2>4. Triple(Rules, At(C, {}, {}), F!DisableOpenStackApplicationStep(Embedded), At(C, {}, {} \cup N0))
    BY <1>0, <2>1, <2>2, EmbeddedSet, KeepsAll, DisableDoes
  <2> QED
    BY <2>3, <2>4, AtAll
<1> HIDE DEF N0
<1>3. Triple(Rules, P0, F!RemoveSaasApplicationsStep({"cos_openstack"}), P0)
  BY <1>0, <1>1, KindsOfSteps, CalmWithout DEF F!RemoveSaasApplicationsStep
<1>4. Private("hardware-observer", AllLinks, {}) /\ Private("agent", AllLinks, {}) /\ Private("agent-infra", AllLinks, {})
  BY PrivatePlans
<1>5. Triple(Rules, P0, F!RemoveHardwareObserverStep, P0)
  <2>1. N0 \subseteq N0 \cup All("hardware-observer")
    OBVIOUS
  <2> QED
    BY <1>0, <1>1, <1>4, <2>1, KeepsAll, RemoveDoes DEF F!RemoveHardwareObserverStep
<1>6. Triple(Rules, P0, F!OnMaas(F!RemoveObservabilityAgentInfraStep \o F!RemoveSaasApplicationsStep({"cos_infra"})), P1)
  <2>1. CASE Maas
    <3>1. N1 \subseteq N0 \cup All("agent-infra")
      BY <2>1
    <3> HIDE DEF N1
    <3>2. Triple(Rules, P0, F!RemoveObservabilityAgentInfraStep, P1)
      BY <1>0, <1>1, <1>4, <3>1, KeepsAll, RemoveDoes DEF F!RemoveObservabilityAgentInfraStep
    <3>3. Triple(Rules, P1, F!RemoveSaasApplicationsStep({"cos_infra"}), P1)
      BY <1>0, <1>1, KindsOfSteps, CalmWithout DEF F!RemoveSaasApplicationsStep
    <3> QED
      BY <2>1, <3>2, <3>3, TripleChain DEF F!OnMaas
  <2>2. CASE ~ Maas
    <3>1. P0 \in SUBSET GoodBooks /\ P0 \subseteq P1
      BY <2>2, AtGood
    <3> QED
      BY <2>2, <3>1, TripleEmpty DEF F!OnMaas
  <2> QED
    BY <2>1, <2>2
<1>7. Triple(Rules, P1, F!RemoveObservabilityAgentStep, P2)
  <2>1. N2 \subseteq N1 \cup All("agent")
    OBVIOUS
  <2> HIDE DEF N1, N2
  <2> QED
    BY <1>0, <1>1, <1>4, <2>1, KeepsAll, RemoveDoes DEF F!RemoveObservabilityAgentStep
<1>8. Triple(Rules, P2, F!RemoveSaasApplicationsStep({"cos_machines"}), P2)
  BY <1>0, <1>1, KindsOfSteps, CalmWithout DEF F!RemoveSaasApplicationsStep
<1>9. \A l \in AllLinks : l[2] \in All("cos") => l[1] \in N2
  <2> SUFFICES ASSUME NEW l \in AllLinks, l[2] \in All("cos") PROVE l[1] \in N2
    OBVIOUS
  <2>1. l[2] = Stack
    BY DEF All, AllLinks, Links, AmphoraLinks, AmphoraNeeds, Stack, F!Of
  <2>2. l[1][2] = "cos_offers" /\ l[1][1] \in CosPlans /\ l[1] \in PlanThings /\ l[1] = <<l[1][1], l[1][2]>>
    BY <2>1, OtherLinks, StackUsers, LinksOfHypervisor, LinkPairs
  <2>3. l[1][1] = "openstack" \/ l[1][1] = "agent" \/ (l[1][1] = "agent-infra" /\ Maas)
    BY <2>2 DEF CosPlans
  <2> QED
    BY <1>1, <2>2, <2>3 DEF All, PlanThings
<1>10. Triple(Rules, P2, F!RemoveObservabilityStackStep, C)
  <2> DEFINE a == [op |-> "destroy", plan |-> "cos"]
  <2>1. a \in Simple /\ Cuts(a) = All("cos") /\ Adds(a) = {} /\ Gives(a) = {} /\ Untouched(a)
    BY DEF Simple, AtomPlans, Plans, Cuts, Adds, Gives, Untouched
  <2>2. <<a>> = F!Destroy("cos")
    BY DEF F!Destroy
  <2> HIDE DEF a, N2
  <2>3. Mild(a, AllLinks, {}, N2)
    BY <1>9, <2>1 DEF Mild
  <2>4. N2 \cap Brought = {} /\ {} \subseteq {} \ Cuts(a) /\ N2 \subseteq N2 \ Adds(a)
    BY <1>1, <2>1 DEF PlanThings, Brought, Plans
  <2>5. Triple(Rules, P2, <<a>>, P2)
    BY <2>3, <2>4, KeepsAll, MildOne
  <2>6. Triple(Rules, P2, F!AwaitGone("cos", {"cos"}), P2)
    <3>1. "cos" \in Kinds
      BY DEF Kinds
    <3> QED
      BY <1>0, <1>1, <3>1, AwaitCalm, KeepsAll, CalmDoes
  <2> QED
    BY <2>2, <2>5, <2>6, TripleChain, EndsIn DEF F!RemoveObservabilityStackStep
<1> HIDE DEF P0, P1, P2
<1> QED
  BY <1>2, <1>3, <1>5, <1>6, <1>7, <1>8, <1>10, TripleChain DEF F!EmbeddedDisable, Embedded

----------------------------------------------------------------------------
(* The load balancer: what Amphora needs goes after Amphora                *)

LEMMA AmphoraFacts ==
  /\ Amphora \in PlanThings /\ AmphoraNeeds \in SUBSET PlanThings
  /\ \A l \in AllLinks : l[2][1] \in {"cni", "amphora-setup"} => l[1] = Amphora
  /\ \A l \in Links : l[1] # Amphora /\ l[2][1] \notin {"cni", "amphora-setup"}
  /\ \A l \in AllLinks : l[1] = Amphora => l[2] \in AmphoraNeeds
BY DEF AllLinks, Links, AmphoraLinks, AmphoraNeeds, Amphora, F!ConsulServers, CosPlans, Stack, F!Of, F!CniApps,
   PlanThings, Plans, Things, Kinds, Names

LEMMA ServedGoes ==
  ASSUME NEW C, Context(C), NEW Lk, Keeps(C, Lk), NEW N \in SUBSET PlanThings,
         NEW plan \in {"cni", "amphora-setup"}, Lk = Links \/ Amphora \in N
  PROVE  /\ Triple(Rules, At(C, {}, N), F!Destroy(plan), At(C, {}, N))
         /\ Triple(Rules, At(C, {}, N), F!Forget(plan), At(C, {}, N))
<1>1. ASSUME NEW a, a = [op |-> "destroy", plan |-> plan] \/ a = [op |-> "forget", plan |-> plan]
      PROVE  Triple(Rules, At(C, {}, N), <<a>>, At(C, {}, N))
  <2>1. a \in Simple /\ Cuts(a) = All(plan) /\ Adds(a) = {} /\ Gives(a) = {} /\ Untouched(a)
    BY <1>1 DEF Simple, AtomPlans, Plans, Cuts, Adds, Gives, Untouched
  <2>2. \A l \in Lk : l[2] \in All(plan) => l[1] \in N
    <3>1. \A l \in Lk : l \in AllLinks
      BY DEF Keeps, AllLinks
    <3> QED
      BY <3>1, AmphoraFacts DEF All
  <2>3. Mild(a, Lk, {}, N)
    BY <2>1, <2>2 DEF Mild
  <2>4. N \cap Brought = {} /\ {} \subseteq {} \ Cuts(a) /\ N \subseteq N \ Adds(a)
    BY <2>1 DEF PlanThings, Brought, Plans
  <2> QED
    BY <2>3, <2>4, MildOne
<1> QED
  BY <1>1 DEF F!Destroy, F!Forget

LEMMA ConditionCalm ==
  ASSUME NEW Lk, NEW S, NEW N, NEW x \in Things, NEW is \in BOOLEAN, NEW t \in Seq(CalmSteps(Lk, S, N))
  PROVE  F!IfStored(x, is, t) \in Seq(Calm(Lk, S, N))
<1>1. t \in Seq(Simple)
  <2>1. CalmSteps(Lk, S, N) \subseteq Simple
    BY DEF CalmSteps
  <2> QED
    BY <2>1, SeqMonotonic
<1>2. [op |-> "stored", x |-> x, is |-> is, steps |-> t] \in Calm(Lk, S, N)
  BY <1>1 DEF Calm, Conditional
<1> QED
  BY <1>2, SeqOne DEF F!IfStored

LEMMA CiliumCalm ==
  ASSUME NEW C, Context(C), NEW Lk, Keeps(C, Lk), NEW S \in SUBSET PlanThings, NEW N \in SUBSET PlanThings,
         \A x \in S \cup N : x[1] # "k8s-plan", NEW on \in BOOLEAN
  PROVE  Triple(Rules, At(C, S, N), F!UpdateCiliumCNIExclusiveStep(on), At(C, S, N))
<1>1. /\ F!Annotation \in Things /\ F!Annotation[2] \in Names /\ F!Annotation[2] # "cos_offers"
      /\ "k8s-plan" \in QuietPlans
  BY DEF F!Annotation, Things, Kinds, Names, QuietPlans
<1>2. Lk \subseteq AllLinks /\ {F!Annotation[2]} \in SUBSET Names /\ {} \in SUBSET Names
      /\ "cos_offers" \notin {F!Annotation[2]} /\ "cos_offers" \notin {}
  BY <1>1 DEF Keeps, AllLinks
<1>3. /\ F!StoreAndApply("k8s-plan", {F!Annotation[2]}, {}) \in Seq(CalmSteps(Lk, S, N))
      /\ F!StoreAndApply("k8s-plan", {}, {F!Annotation[2]}) \in Seq(CalmSteps(Lk, S, N))
  BY <1>1, <1>2, QuietCalm
<1>4. F!UpdateCiliumCNIExclusiveStep(on) \in Seq(Calm(Lk, S, N))
  BY <1>1, <1>3, ConditionCalm DEF F!UpdateCiliumCNIExclusiveStep
<1>5. N \cap Brought = {}
  BY DEF PlanThings, Brought, Plans
<1> QED
  BY <1>4, <1>5, CalmTriple

\* The CNI, the files of Multus and the annotation of Cilium
LEMMA InfraGoes ==
  ASSUME NEW C, Context(C), NEW Lk, Keeps(C, Lk), NEW N \in SUBSET PlanThings,
         \A x \in N : x[1] # "k8s-plan", Lk = Links \/ Amphora \in N
  PROVE  /\ Triple(Rules, At(C, {}, N), F!RemoveCNIInfraStep, At(C, {}, N))
         /\ Triple(Rules, At(C, {}, N), F!CleanupMultusCNIFilesStep, At(C, {}, N))
         /\ Triple(Rules, At(C, {}, N), F!UpdateCiliumCNIExclusiveStep(FALSE), At(C, {}, N))
<1>0. {} \in SUBSET PlanThings /\ F!CniApps \in SUBSET Names /\ "cni" \in Kinds /\ {"multus_conf"} \in SUBSET Names
      /\ Lk \subseteq AllLinks
  BY DEF F!CniApps, Names, Kinds, Keeps, AllLinks
<1>1. Triple(Rules, At(C, {}, N), F!AwaitGone("cni", F!CniApps), At(C, {}, N))
  BY <1>0, AwaitCalm, CalmDoes
<1>2. Triple(Rules, At(C, {}, N), F!RemoveCNIInfraStep, At(C, {}, N))
  BY <1>1, ServedGoes, TripleChain DEF F!RemoveCNIInfraStep
<1>3. F!CleanupMultusCNIFilesStep \in Seq(CalmSteps(Lk, {}, N))
  BY <1>0, KindsOfSteps, OthersCalm DEF F!CleanupMultusCNIFilesStep
<1> QED
  BY <1>0, <1>2, <1>3, CalmDoes, CiliumCalm

LEMMA LoadbalancerDisables ==
  ASSUME NEW C, Context(C) PROVE Triple(Rules, C, F!LoadbalancerDisable, C)
<1> DEFINE ns == F!LoadbalancerApps.vars \cup F!LoadbalancerApps.clears
           N == F!Of("openstack", ns)
<1>1. ns = {"octavia", "plugin_octavia", "octavia_amphora", "octavia_tls"} /\ AppSet(F!LoadbalancerApps)
      /\ ns \cap OfferNames = {} /\ ns \in SUBSET Names
  BY QuietSets DEF QuietSet, F!LoadbalancerApps, F!Apps, AppSet
<1>2. Amphora \in N /\ N \in SUBSET PlanThings /\ \A x \in N : x[1] # "k8s-plan"
  BY <1>1, OfOpenstack DEF Amphora, F!Of
<1>3. Triple(Rules, C, F!DisableOpenStackApplicationStep(F!LoadbalancerApps), At(C, {}, N))
  <2>1. \A l \in AllLinks : l[2] \in N => l[1] \in {}
    <3>1. \A x \in N : x[1] = "openstack" /\ x[2] \notin OfferNames
      BY <1>1 DEF F!Of
    <3> HIDE DEF N
    <3> QED
      BY <3>1, LinkEnds DEF Offers
  <2>2. {} \cup N = N /\ {} \in SUBSET PlanThings
    OBVIOUS
  <2>3. Triple(Rules, At(C, {}, {}), F!DisableOpenStackApplicationStep(F!LoadbalancerApps), At(C, {}, {} \cup N))
    BY <1>1, <2>1, <2>2, KeepsAll, DisableDoes
  <2> QED
    BY <2>2, <2>3, AtAll
<1> HIDE DEF N
<1>4. Triple(Rules, At(C, {}, N), F!DestroyAmphoraResourcesStep, At(C, {}, N))
  BY <1>2, KeepsAll, ServedGoes, TripleChain DEF F!DestroyAmphoraResourcesStep
<1> QED
  BY <1>2, <1>3, <1>4, KeepsAll, InfraGoes, TripleChain, EndsIn DEF F!LoadbalancerDisable

----------------------------------------------------------------------------
(* The watched rows                                                        *)

\* What making or dropping such rows does to the rest
LEMMA RowStep ==
  ASSUME NEW a \in Simple, a.op \in {"make", "drop"}, a.things \subseteq Watched, NEW s \in GoodBooks
  PROVE  /\ Does(a, s) \in Books /\ Shaped(Does(a, s)) /\ Linked(Does(a, s))
         /\ Does(a, s).flag = s.flag /\ Does(a, s).dirty = s.dirty /\ Does(a, s).menu = s.menu
         /\ Flags(Does(a, s)) = Flags(s)
         /\ Does(a, s).live \cap Watched
              = (IF a.op = "make" THEN s.live \cup a.things ELSE s.live \ a.things) \cap Watched
<1> DEFINE r == Does(a, s)
<1>1. s \in Books /\ r \in Books /\ r.flag = s.flag /\ r.dirty = s.dirty /\ r.menu = s.menu
      /\ r.live = NextLive(a, s)
  BY DoesFields DEF GoodBooks
<1>2. Adds(a) \subseteq Watched /\ Cuts(a) \subseteq Watched /\ Gives(a) \subseteq Watched
  BY DEF Adds, Cuts, Gives
<1>3. /\ Used(r) \subseteq Used(s) \cup Watched \cup Brought
      /\ Provided(s) \ Watched \subseteq Provided(r)
      /\ r.vars \cup r.live \subseteq s.vars \cup s.live \cup Watched \cup Brought
  BY <1>1, <1>2, Footprint
<1>4. \A x \in Watched : x \in Things /\ x[1] = "db" /\ x \notin Brought /\ x[1] \notin AtomPlans /\ Fitting(x)
  <2>1. \A x \in Watched : x[2] # "cos_offers"
    BY DEF Watched, Grouped, F!TlsProviders, F!ObservabilityProviders, F!AmphoraRow
  <2> QED
    BY <2>1, WatchedRows DEF Brought, AtomPlans, Plans, Fitting
<1>5. \A x \in Watched : x \in r.live <=> x \in F!Lives(a, s.vars, s.live)
  BY <1>1, <1>4, NextLiveFacts, LivesAndStored
<1>6. F!Lives(a, s.vars, s.live) = IF a.op = "make" THEN s.live \cup a.things ELSE s.live \ a.things
  BY DEF F!Lives
<1> HIDE DEF r
<1>7. Shaped(r)
  <2>1. \A x \in Brought : Fitting(x)
    BY DEF Brought, Fitting
  <2> QED
    BY <1>3, <1>4, <2>1 DEF Shaped, GoodBooks, Good
<1>8. Linked(r)
  <2> SUFFICES ASSUME NEW l \in LinksOf(r), l[1] \in Used(r) PROVE l[2] \in Provided(r)
    BY DEF Linked
  <2>1. l \in LinksOf(s) /\ l[1] \notin Brought /\ l[1][1] \in Plans
    BY <1>1, ConsumersAreOfPlans DEF LinksOf
  <2>2. l[1] \in Used(s)
    BY <1>3, <1>4, <2>1 DEF AtomPlans
  <2>3. l[2] \in Provided(s) /\ l[2][1] \in Plans
    BY <2>1, <2>2 DEF GoodBooks, Good, Linked, Provided
  <2> QED
    BY <1>3, <1>4, <2>3 DEF AtomPlans
<1>9. Flags(r) = Flags(s)
  BY <1>1 DEF Flags
<1> QED
  BY <1>1, <1>5, <1>6, <1>7, <1>8, <1>9 DEF r

\* One atom that leads from P to Q
LEMMA AtomDoes ==
  ASSUME NEW P \in SUBSET GoodBooks, NEW Q \in SUBSET GoodBooks, NEW a \in Simple,
         \A s \in P : F!Goes(a, s.live) => Does(a, s) \in Q
  PROVE  Triple(Rules, P, <<a>>, Q)
<1>1. <<P, a, Q>> \in Rules0
  BY DEF Rules0
<1> QED
  BY <1>1, RulesInclude, AtomsInclude, TripleOne

LEMMA CallDoes ==
  ASSUME NEW P \in SUBSET GoodBooks, NEW Q \in SUBSET GoodBooks, NEW a \in Calls, \A s \in P : Leads(s, a, Q)
  PROVE  Triple(Rules, P, <<a>>, Q)
<1>1. <<P, a, Q>> \in RulesC
  BY DEF RulesC
<1> QED
  BY <1>1, RulesInclude, AtomsInclude, TripleOne

----------------------------------------------------------------------------
(* The configuration of Amphora                                            *)

LEMMA AmphoraRowFacts ==
  /\ F!AmphoraRow \in Watched /\ F!AmphoraRow \in Things
  /\ \A g \in Grouped : <<"db", g>> # F!AmphoraRow
BY WatchedRows DEF Watched, F!AmphoraRow, Grouped, F!TlsProviders, F!ObservabilityProviders

\* While it runs: the secrets feature is enabled, as the command asks.
Configuring(m) == {s \in Staying(m) : "amphora" \in s.dirty /\ "secrets" \in Flags(s)}

LEMMA ConfiguringFacts ==
  ASSUME NEW m
  PROVE  Context(Configuring(m)) /\ Keeps(Configuring(m), Links) /\ Context(Staying(m))
BY DEF Context, Configuring, Staying, Same, Flags, Keeps, LinksOf

\* The stored answer, when the secrets feature is enabled or the answer is no
LEMMA AnswerStaysGood ==
  ASSUME NEW a \in Simple, a.op \in {"make", "drop"}, a.things = {F!AmphoraRow}, NEW s \in GoodBooks,
         a.op = "make" => "secrets" \in Flags(s)
  PROVE  Does(a, s) \in GoodBooks
<1> DEFINE r == Does(a, s)
<1>1. /\ r \in Books /\ Shaped(r) /\ Linked(r) /\ r.flag = s.flag /\ r.dirty = s.dirty /\ r.menu = s.menu
      /\ Flags(r) = Flags(s)
      /\ r.live \cap Watched = (IF a.op = "make" THEN s.live \cup a.things ELSE s.live \ a.things) \cap Watched
  BY AmphoraRowFacts, RowStep
<1> HIDE DEF r
<1>2. \A g \in Grouped : <<"db", g>> \in r.live <=> <<"db", g>> \in s.live
  BY <1>1, AmphoraRowFacts DEF Watched
<1>3. RowsRight(r)
  <2>1. \A G \in {F!TlsProviders, F!ObservabilityProviders} : \A g \in G :
          (<<"db", g>> \in r.live) <=> (<<"db", g>> \in s.live)
    BY <1>2 DEF Grouped
  <2>2. RowsRight(s)
    BY DEF GoodBooks, Good
  <2> QED
    BY <1>1, <2>1, <2>2 DEF RowsRight
<1>4. RequirementsRight(r)
  <2>1. a.op = "drop" => F!AmphoraRow \notin r.live
    BY <1>1, AmphoraRowFacts
  <2>2. \A f : Req(f, r.live) \subseteq Req(f, s.live) \/ (a.op = "make" /\ Req(f, r.live) \subseteq {"secrets"})
    BY <2>1 DEF Req
  <2> QED
    BY <1>1, <2>2 DEF GoodBooks, Good, RequirementsRight
<1>5. r \in GoodBooks
  BY <1>1, <1>3, <1>4 DEF GoodBooks, Good
<1> QED
  BY <1>5 DEF r

LEMMA AnswerStored ==
  ASSUME NEW m
  PROVE  /\ \A on \in BOOLEAN : Triple(Rules, Configuring(m), F!AmphoraConfigStep(on), Configuring(m))
         /\ Triple(Rules, Staying(m), F!AmphoraConfigStep(FALSE), Staying(m))
<1>1. ASSUME NEW a, a = [op |-> "make", things |-> {F!AmphoraRow}] \/ a = [op |-> "drop", things |-> {F!AmphoraRow}]
      PROVE  /\ Triple(Rules, Configuring(m), <<a>>, Configuring(m))
             /\ a.op = "drop" => Triple(Rules, Staying(m), <<a>>, Staying(m))
  <2>1. a \in Simple /\ a.op \in {"make", "drop"} /\ a.things = {F!AmphoraRow} /\ a.things \subseteq Watched
    BY <1>1, AmphoraRowFacts DEF Simple
  <2>2. ASSUME NEW s \in Staying(m), "secrets" \in Flags(s) \/ a.op = "drop"
        PROVE  /\ Does(a, s) \in Staying(m)
               /\ Does(a, s).dirty = s.dirty /\ Flags(Does(a, s)) = Flags(s)
    BY <2>1, <2>2, AnswerStaysGood, RowStep DEF Staying
  <2>3. Configuring(m) \in SUBSET GoodBooks /\ Staying(m) \in SUBSET GoodBooks
    BY DEF Configuring, Staying
  <2>4. \A s \in Configuring(m) : Does(a, s) \in Configuring(m)
    BY <2>2 DEF Configuring
  <2>5. a.op = "drop" => \A s \in Staying(m) : Does(a, s) \in Staying(m)
    BY <2>2
  <2> QED
    BY <2>1, <2>3, <2>4, <2>5, AtomDoes
<1> QED
  BY <1>1 DEF F!AmphoraConfigStep, F!Make, F!Drop

OctaviaConfig == {"octavia_amphora", "octavia_tls"}

LEMMA TurnsOn ==
  ASSUME NEW C, Context(C), NEW Lk, Keeps(C, Lk), NEW S, NEW plan \in Plans \ {"manila-data"},
         NEW ns \in SUBSET Names, \A x \in F!Of(plan, ns) : Fitting(x),
         \A l \in Lk : l[1] \in F!Of(plan, ns) => l[2] \in S
  PROVE  Triple(Rules, At(C, S, {}), F!StoreAndApply(plan, ns, {}), At(C, S \cup F!Of(plan, ns), {}))
<1> DEFINE T == F!Of(plan, ns)
           S2 == S \cup T
<1>1. /\ {} = F!Of(plan, {}) \ T /\ T = F!Of(plan, ns) /\ {} \in SUBSET Names /\ {} \in SUBSET PlanThings
      /\ plan \in Plans /\ plan # "manila-data"
  BY DEF F!Of
<1>2. \A l \in Lk : /\ l[1] \in T \/ (l[1][1] = plan /\ plan = "manila-data") => l[2] \in S \ {}
                    /\ l[2] \in {} => l[1] \in {} \ T
  BY <1>1
<1>3. S2 \subseteq (S \ {}) \cup T /\ {} \subseteq ({} \ T) \cup {}
  OBVIOUS
<1>4. \A x \in T : Fitting(x)
  OBVIOUS
<1> HIDE DEF T, S2
<1>5. Triple(Rules, At(C, S, {}), F!StoreAndApply(plan, ns, {}), At(C, S2, {}))
  BY <1>1, <1>2, <1>3, <1>4, StoreAndApplyDoes
<1> QED
  BY <1>5 DEF S2, T

LEMMA ConfigureOn ==
  ASSUME NEW m, NEW before \in BOOLEAN
  PROVE  Triple(Rules, Configuring(m), F!LoadbalancerConfigure(TRUE, before), At(Configuring(m), AmphoraNeeds, {}))
<1> DEFINE C == Configuring(m)
           S1 == F!Of("amphora-setup", {"resources"})
           S2 == F!Of("cni", F!CniApps)
<1>0. /\ Context(C) /\ Keeps(C, Links) /\ {} \in SUBSET PlanThings /\ {} \in SUBSET Names
      /\ {"resources"} \in SUBSET Names /\ F!CniApps \in SUBSET Names /\ "cni" \in Kinds
      /\ "amphora-setup" \in Plans /\ "cni" \in Plans /\ "cni" # "manila-data" /\ "amphora-setup" # "manila-data"
      /\ "openstack" \in Plans \ {"manila-data"} /\ "openstack" \in Kinds /\ {"octavia"} \in SUBSET Names
      /\ OctaviaConfig \in SUBSET Names
  BY ConfiguringFacts DEF Names, F!CniApps, Kinds, Plans, OctaviaConfig
<1>1. /\ AmphoraNeeds = S2 \cup S1 /\ AmphoraNeeds \in SUBSET PlanThings
      /\ \A x \in S1 : x[1] = "amphora-setup" /\ Fitting(x)
      /\ \A x \in S2 : x[1] = "cni" /\ Fitting(x)
  BY AmphoraFacts DEF AmphoraNeeds, F!Of, Fitting, F!CniApps
<1>2. \A l \in Links : l[1][1] \notin {"cni", "amphora-setup"}
  BY DEF Links, CosPlans
<1>3. \A ns, plan : F!Of(plan, {}) \ ns = {} /\ F!Of(plan, {}) = {}
  BY DEF F!Of
<1>4. Triple(Rules, C, F!AmphoraConfigStep(TRUE), C)
  BY AnswerStored
<1>5. Triple(Rules, C, F!CreateAmphoraResourcesStep, At(C, S1, {}))
  <2>1. \A l \in Links : l[1] \in S1 => l[2] \in {}
    BY <1>1, <1>2
  <2>2. {} \cup S1 = S1
    OBVIOUS
  <2> HIDE DEF C, S1
  <2>3. Triple(Rules, At(C, {}, {}), F!StoreAndApply("amphora-setup", {"resources"}, {}), At(C, {} \cup S1, {}))
    BY <1>0, <1>1, <2>1, TurnsOn DEF S1
  <2> QED
    BY <2>2, <2>3, AtAll DEF F!CreateAmphoraResourcesStep
<1>6. Triple(Rules, At(C, S1, {}), F!DeployAmphoraInfraStep, At(C, AmphoraNeeds, {}))
  <2>1. \A l \in Links : l[1] \in S2 => l[2] \in S1
    BY <1>1, <1>2
  <2>2. S1 \cup S2 = AmphoraNeeds
    BY <1>1
  <2> HIDE DEF C, S1, S2
  <2>3. Triple(Rules, At(C, S1, {}), F!StoreAndApply("cni", F!CniApps, {}), At(C, S1 \cup S2, {}))
    BY <1>0, <1>1, <2>1, TurnsOn DEF S2
  <2>4. Triple(Rules, At(C, AmphoraNeeds, {}), F!Await("cni", F!CniApps), At(C, AmphoraNeeds, {}))
    BY <1>0, <1>1, AwaitCalm, CalmDoes
  <2> QED
    BY <2>2, <2>3, <2>4, TripleChain DEF F!DeployAmphoraInfraStep
<1>7. Triple(Rules, At(C, AmphoraNeeds, {}), F!UpdateCiliumCNIExclusiveStep(TRUE), At(C, AmphoraNeeds, {}))
  BY <1>0, <1>1, CiliumCalm
<1>8. Triple(Rules, At(C, AmphoraNeeds, {}), F!UpdateOctaviaAmphoraConfigStep(TRUE), At(C, AmphoraNeeds, {}))
  <2>1. \A n \in OctaviaConfig : SafeOn(<<"openstack", n>>, Links, {})
    <3>1. \A n \in OctaviaConfig : \A l \in Links : l[1] # <<"openstack", n>>
      BY LinkEnds DEF Consumes, OctaviaConfig
    <3>2. \A n \in OctaviaConfig : n # "cos_offers"
      BY DEF OctaviaConfig
    <3> QED
      BY <1>0, <3>1, <3>2, PlanUnwatched DEF SafeOn, Fitting
  <2>2. \A n \in {} \ OctaviaConfig : SafeOff(<<"openstack", n>>, Links, AmphoraNeeds)
    OBVIOUS
  <2>3. F!StoreAndApply("openstack", OctaviaConfig, {}) \in Seq(CalmSteps(Links, AmphoraNeeds, {}))
    BY <1>0, <2>1, <2>2, StoreAndApplyCalm
  <2>4. F!Await("openstack", {"octavia"}) \in Seq(CalmSteps(Links, AmphoraNeeds, {}))
    BY <1>0, AwaitCalm
  <2>5. F!UpdateOctaviaAmphoraConfigStep(TRUE) = F!StoreAndApply("openstack", OctaviaConfig, {}) \o F!Await("openstack", {"octavia"})
    BY DEF F!UpdateOctaviaAmphoraConfigStep, OctaviaConfig
  <2> QED
    BY <1>0, <2>3, <2>4, <2>5, SeqThen, CalmDoes
<1>9. F!LoadbalancerConfigure(TRUE, before)
        = F!AmphoraConfigStep(TRUE)
          \o (F!CreateAmphoraResourcesStep \o F!DeployAmphoraInfraStep
              \o F!UpdateCiliumCNIExclusiveStep(TRUE) \o F!UpdateOctaviaAmphoraConfigStep(TRUE))
  BY DEF F!LoadbalancerConfigure
<1> HIDE DEF C, S1
<1>10. Triple(Rules, C, F!CreateAmphoraResourcesStep \o F!DeployAmphoraInfraStep
                        \o F!UpdateCiliumCNIExclusiveStep(TRUE) \o F!UpdateOctaviaAmphoraConfigStep(TRUE),
              At(C, AmphoraNeeds, {}))
  BY <1>5, <1>6, <1>7, <1>8, TripleChain
<1> QED
  BY <1>4, <1>9, <1>10, TripleChain DEF C

LEMMA ConfigureOff ==
  ASSUME NEW m
  PROVE  /\ Triple(Rules, Configuring(m), F!LoadbalancerConfigure(FALSE, TRUE), At(Configuring(m), {}, {Amphora}))
         /\ Triple(Rules, Staying(m), F!LoadbalancerConfigure(FALSE, FALSE), Staying(m))
<1> DEFINE C == Configuring(m)
           U == F!Of("openstack", OctaviaConfig)
<1>0. /\ Context(C) /\ Keeps(C, Links) /\ {} \in SUBSET PlanThings /\ {} \in SUBSET Names
      /\ "openstack" \in Plans /\ "openstack" # "manila-data" /\ "openstack" \in Kinds
      /\ {"octavia"} \in SUBSET Names /\ OctaviaConfig \in SUBSET Names
  BY ConfiguringFacts DEF Names, Kinds, Plans, OctaviaConfig
<1>1. Triple(Rules, C, F!AmphoraConfigStep(FALSE), C) /\ Triple(Rules, Staying(m), F!AmphoraConfigStep(FALSE), Staying(m))
  BY AnswerStored
<1>2. /\ Triple(Rules, C, F!RemoveCNIInfraStep, C)
      /\ Triple(Rules, C, F!CleanupMultusCNIFilesStep, C)
      /\ Triple(Rules, C, F!UpdateCiliumCNIExclusiveStep(FALSE), C)
  <2>1. \A x \in {} : x[1] # "k8s-plan"
    OBVIOUS
  <2> HIDE DEF C
  <2> QED
    BY <1>0, <2>1, InfraGoes, AtAll
<1>3. Triple(Rules, C, F!UpdateOctaviaAmphoraConfigStep(FALSE), At(C, {}, {Amphora}))
  <2>1. U \ {} = U /\ F!Of("openstack", {}) = {} /\ U \in SUBSET PlanThings /\ Amphora \in U
    BY <1>0, OfOpenstack DEF F!Of, Amphora, OctaviaConfig
  <2>2. \A l \in Links : /\ l[1] \in {} \/ (l[1][1] = "openstack" /\ "openstack" = "manila-data") => l[2] \in {} \ U
                         /\ l[2] \in U => l[1] \in {} \ {}
    <3>1. \A x \in U : x[1] = "openstack" /\ x[2] \in OctaviaConfig
      BY DEF F!Of
    <3>2. OctaviaConfig \cap OfferNames = {}
      BY DEF OctaviaConfig, OfferNames, F!ConsulServers
    <3> HIDE DEF U
    <3> QED
      BY <3>1, <3>2, LinkEnds DEF Offers
  <2>3. {} \subseteq ({} \ U) \cup {} /\ U \subseteq ({} \ {}) \cup U /\ \A x \in {} : Fitting(x)
    OBVIOUS
  <2>4. U = F!Of("openstack", OctaviaConfig) \ {} /\ {} = F!Of("openstack", {})
    BY <2>1
  <2> HIDE DEF C, U
  <2>5. Triple(Rules, At(C, {}, {}), F!StoreAndApply("openstack", {}, OctaviaConfig), At(C, {}, U))
    BY <1>0, <2>1, <2>2, <2>3, <2>4, StoreAndApplyDoes
  <2>6. Triple(Rules, At(C, {}, U), F!Await("openstack", {"octavia"}), At(C, {}, U))
    BY <1>0, <2>1, AwaitCalm, CalmDoes
  <2>7. F!UpdateOctaviaAmphoraConfigStep(FALSE) = F!StoreAndApply("openstack", {}, OctaviaConfig) \o F!Await("openstack", {"octavia"})
    BY DEF F!UpdateOctaviaAmphoraConfigStep, OctaviaConfig
  <2>8. Triple(Rules, C, F!UpdateOctaviaAmphoraConfigStep(FALSE), At(C, {}, U))
    <3>1. Triple(Rules, C, F!StoreAndApply("openstack", {}, OctaviaConfig), At(C, {}, U))
      BY <2>5, AtAll
    <3> QED
      BY <2>6, <2>7, <3>1, TripleChain
  <2>9. At(C, {}, U) \subseteq At(C, {}, {Amphora}) /\ C \subseteq C
    BY <2>1, AtLess
  <2> QED
    BY <2>8, <2>9, TripleFits
<1>4. /\ F!LoadbalancerConfigure(FALSE, TRUE)
           = F!AmphoraConfigStep(FALSE)
             \o (F!RemoveCNIInfraStep \o F!CleanupMultusCNIFilesStep
                 \o F!UpdateCiliumCNIExclusiveStep(FALSE) \o F!UpdateOctaviaAmphoraConfigStep(FALSE))
      /\ F!LoadbalancerConfigure(FALSE, FALSE) = F!AmphoraConfigStep(FALSE) \o <<>>
  BY DEF F!LoadbalancerConfigure
<1> HIDE DEF C
<1>5. Triple(Rules, C, F!RemoveCNIInfraStep \o F!CleanupMultusCNIFilesStep
                       \o F!UpdateCiliumCNIExclusiveStep(FALSE) \o F!UpdateOctaviaAmphoraConfigStep(FALSE),
             At(C, {}, {Amphora}))
  BY <1>2, <1>3, TripleChain
<1>6. Triple(Rules, Staying(m), <<>>, Staying(m))
  <2>1. Staying(m) \in SUBSET GoodBooks /\ Staying(m) \subseteq Staying(m)
    BY DEF Staying
  <2> QED
    BY <2>1, TripleEmpty
<1> QED
  BY <1>1, <1>4, <1>5, <1>6, TripleChain DEF C

----------------------------------------------------------------------------
(* The plans of every feature                                              *)

LEMMA RunEnableKeeps ==
  ASSUME NEW C, Context(C), NEW f \in F!Features
  PROVE  Triple(Rules, C, F!RunEnablePlans(f), C)
<1> USE DEF F!TlsProviders
<1>1. \A t \in Plain \cup AllCalm : Triple(Rules, C, t, C)
  BY AllCalmSteps, AllCalmDoes
<1>2. CASE f \in Simplest
  BY <1>1, <1>2, SimplestCalm
<1>3. CASE f = "secrets"
  <2>1. F!RunEnablePlans(f) = F!SecretsEnable
    BY <1>3 DEF F!RunEnablePlans
  <2> QED
    BY <2>1, SecretsEnables
<1>4. CASE f = "telemetry"
  <2>1. F!RunEnablePlans(f) = F!TelemetryEnable
    BY <1>4 DEF F!RunEnablePlans
  <2> QED
    BY <2>1, TelemetryEnables
<1>5. CASE f = "dns"
  <2>1. F!RunEnablePlans(f) = F!DnsEnable
    BY <1>5 DEF F!RunEnablePlans
  <2> QED
    BY <1>1, <2>1, DnsCalm
<1>6. CASE f = "pro"
  <2>1. F!RunEnablePlans(f) = F!EnableUbuntuProApplicationStep
    BY <1>6 DEF F!RunEnablePlans
  <2> QED
    BY <1>1, <2>1, OnlyCalm DEF F!EnableUbuntuProApplicationStep
<1>7. CASE f = "shared-filesystem"
  <2>1. F!RunEnablePlans(f) = F!SharedFilesystemEnable
    BY <1>7 DEF F!RunEnablePlans
  <2> QED
    BY <2>1, SharedFilesystemEnables
<1>8. CASE f = "instance-recovery"
  <2>1. F!RunEnablePlans(f) = F!InstanceRecoveryEnable
    BY <1>8 DEF F!RunEnablePlans
  <2> QED
    BY <2>1, InstanceRecoveryEnables
<1>9. CASE f = "caas"
  <2>1. F!RunEnablePlans(f) = F!CaasEnable
    BY <1>9 DEF F!RunEnablePlans
  <2> QED
    BY <1>1, <2>1, CaasCalm
<1>10. CASE f = "loadbalancer"
  <2>1. F!RunEnablePlans(f) = F!EnableOpenStackApplicationStep(F!LoadbalancerApps)
    BY <1>10 DEF F!RunEnablePlans
  <2>2. F!EnableOpenStackApplicationStep(F!LoadbalancerApps) \in Plain
    BY QuietSets, PlainSteps DEF QuietSet
  <2> QED
    BY <1>1, <2>1, <2>2
<1>11. CASE f = "baremetal"
  <2>1. F!RunEnablePlans(f) = F!BaremetalEnable
    BY <1>11 DEF F!RunEnablePlans
  <2> QED
    BY <1>1, <2>1, BaremetalCalm
<1>12. CASE f \in F!TlsProviders
  <2>1. F!RunEnablePlans(f) = F!TlsEnable(f)
    BY <1>12 DEF F!RunEnablePlans
  <2> QED
    BY <1>1, <1>12, <2>1, TlsCalm
<1>13. CASE f = "observability.embedded"
  <2>1. F!RunEnablePlans(f) = F!EmbeddedEnable
    BY <1>13 DEF F!RunEnablePlans
  <2> QED
    BY <2>1, EmbeddedEnables
<1>14. CASE f = "observability.external"
  <2>1. F!RunEnablePlans(f) = F!ExternalEnable(TRUE)
    BY <1>14 DEF F!RunEnablePlans
  <2> QED
    BY <1>1, <2>1, ExternalCalm
<1>15. CASE f = "maintenance"
  <2>1. F!RunEnablePlans(f) = <<>>
    BY <1>15 DEF F!RunEnablePlans
  <2> QED
    BY <1>1, <2>1, PlainSteps
<1> QED
  BY <1>2, <1>3, <1>4, <1>5, <1>6, <1>7, <1>8, <1>9, <1>10, <1>11, <1>12, <1>13, <1>14, <1>15
  DEF F!Features, F!ObservabilityProviders, Simplest

LEMMA RunDisableKeeps ==
  ASSUME NEW C, Context(C), NEW f \in F!Features
  PROVE  Triple(Rules, C, F!RunDisablePlans(f), C)
<1> USE DEF F!TlsProviders
<1>1. \A t \in Plain \cup AllCalm : Triple(Rules, C, t, C)
  BY AllCalmSteps, AllCalmDoes
<1>2. CASE f \in Simplest
  BY <1>1, <1>2, SimplestCalm
<1>3. CASE f = "secrets"
  <2>1. F!RunDisablePlans(f) = F!SecretsDisable
    BY <1>3 DEF F!RunDisablePlans
  <2> QED
    BY <2>1, SecretsDisables
<1>4. CASE f = "telemetry"
  <2>1. F!RunDisablePlans(f) = F!TelemetryDisable
    BY <1>4 DEF F!RunDisablePlans
  <2> QED
    BY <2>1, TelemetryDisables
<1>5. CASE f = "dns"
  <2>1. F!RunDisablePlans(f) = F!DisableOpenStackApplicationStep(F!DnsApps)
    BY <1>5 DEF F!RunDisablePlans
  <2> QED
    BY <1>1, <2>1, DnsCalm
<1>6. CASE f = "pro"
  <2>1. F!RunDisablePlans(f) = F!DisableUbuntuProApplicationStep
    BY <1>6 DEF F!RunDisablePlans
  <2> QED
    BY <1>1, <2>1, OnlyCalm DEF F!DisableUbuntuProApplicationStep
<1>7. CASE f = "shared-filesystem"
  <2>1. F!RunDisablePlans(f) = F!SharedFilesystemDisable
    BY <1>7 DEF F!RunDisablePlans
  <2> QED
    BY <2>1, SharedFilesystemDisables
<1>8. CASE f = "instance-recovery"
  <2>1. F!RunDisablePlans(f) = F!InstanceRecoveryDisable
    BY <1>8 DEF F!RunDisablePlans
  <2> QED
    BY <2>1, InstanceRecoveryDisables
<1>9. CASE f = "caas"
  <2>1. F!RunDisablePlans(f) = F!CaasDisable
    BY <1>9 DEF F!RunDisablePlans
  <2> QED
    BY <1>1, <2>1, CaasCalm
<1>10. CASE f = "loadbalancer"
  <2>1. F!RunDisablePlans(f) = F!LoadbalancerDisable
    BY <1>10 DEF F!RunDisablePlans
  <2> QED
    BY <2>1, LoadbalancerDisables
<1>11. CASE f = "baremetal"
  <2>1. F!RunDisablePlans(f) = F!BaremetalDisable
    BY <1>11 DEF F!RunDisablePlans
  <2> QED
    BY <1>1, <2>1, BaremetalCalm
<1>12. CASE f \in F!TlsProviders
  <2>1. F!RunDisablePlans(f) = F!TlsDisable(f)
    BY <1>12 DEF F!RunDisablePlans
  <2> QED
    BY <1>1, <1>12, <2>1, TlsCalm
<1>13. CASE f = "observability.embedded"
  <2>1. F!RunDisablePlans(f) = F!EmbeddedDisable
    BY <1>13 DEF F!RunDisablePlans
  <2> QED
    BY <2>1, EmbeddedDisables
<1>14. CASE f = "observability.external"
  <2>1. F!RunDisablePlans(f) = F!ExternalDisable
    BY <1>14 DEF F!RunDisablePlans
  <2> QED
    BY <1>1, <2>1, ExternalCalm
<1>15. CASE f = "maintenance"
  <2>1. F!RunDisablePlans(f) = <<>>
    BY <1>15 DEF F!RunDisablePlans
  <2> QED
    BY <1>1, <2>1, PlainSteps
<1> QED
  BY <1>2, <1>3, <1>4, <1>5, <1>6, <1>7, <1>8, <1>9, <1>10, <1>11, <1>12, <1>13, <1>14, <1>15
  DEF F!Features, F!ObservabilityProviders, Simplest

----------------------------------------------------------------------------
(* What a command reads of the books                                       *)

\* No row of another provider of the group
Clear(f, s) == \A g \in F!Group(f) \ {f} : <<"db", g>> \notin s.live

LEMMA GroupFacts ==
  ASSUME NEW f \in F!Features
  PROVE  /\ f \notin Grouped => F!Group(f) = {f}
         /\ f \in Grouped => F!Group(f) \subseteq Grouped /\ f \in F!Group(f)
         /\ \A g \in F!Group(f) : F!Group(g) = F!Group(f) /\ f \in F!Group(g)
         /\ f \in F!TlsProviders => F!Group(f) = F!TlsProviders
         /\ f \in F!ObservabilityProviders => F!Group(f) = F!ObservabilityProviders
         /\ f # "amphora"
BY DEF F!Group, Grouped, F!TlsProviders, F!ObservabilityProviders, F!Features

LEMMA ReadsWatched ==
  ASSUME NEW s, NEW r, s.live \cap Watched = r.live \cap Watched, NEW f \in F!Features
  PROVE  Req(f, s.live) = Req(f, r.live) /\ (Clear(f, s) <=> Clear(f, r))
<1>1. \A x \in Watched : (x \in s.live) <=> (x \in r.live)
  OBVIOUS
<1>2. Req(f, s.live) = Req(f, r.live)
  BY <1>1 DEF Req, Watched
<1>3. \A g \in F!Group(f) \ {f} : <<"db", g>> \in Watched
  BY GroupFacts DEF Watched
<1> QED
  BY <1>1, <1>2, <1>3 DEF Clear

LEMMA KeptFacts ==
  /\ \A s : Kept(s, s)
  /\ \A s, r, q : Kept(s, r) /\ Kept(r, q) => Kept(s, q)
  /\ \A s, r : Same(s, r) => Kept(s, r) /\ Flags(r) = Flags(s)
BY DEF Kept, Same, Flags

\* The rows of a group decide which of its providers may be enabled.
LEMMA RowsOfGroup ==
  ASSUME NEW s, RowsRight(s), NEW f \in F!Features, NEW g \in F!Features, f \in Grouped,
         g \in F!Group(f), s.flag[g], g \notin s.dirty, NEW h \in F!Group(f)
  PROVE  (<<"db", h>> \in s.live) <=> (h = g)
<1>1. CASE f \in F!TlsProviders
  BY <1>1, GroupFacts DEF RowsRight
<1>2. CASE f \in F!ObservabilityProviders
  BY <1>2, GroupFacts DEF RowsRight
<1> QED
  BY <1>1, <1>2 DEF Grouped

\* If the rows of one group change while none of its providers is enabled
\* and clean, or are right for those that are
LEMMA RowsChange ==
  ASSUME NEW s, RowsRight(s), NEW r, NEW f \in F!Features,
         \A g \in Grouped \ F!Group(f) :
            /\ r.flag[g] = s.flag[g] /\ (g \in r.dirty <=> g \in s.dirty)
            /\ <<"db", g>> \in r.live <=> <<"db", g>> \in s.live,
         \A g, h \in F!Group(f) : f \in Grouped /\ r.flag[g] /\ g \notin r.dirty
                                  => ((<<"db", h>> \in r.live) <=> (h = g))
  PROVE  RowsRight(r)
<1> SUFFICES ASSUME NEW G \in {F!TlsProviders, F!ObservabilityProviders}, NEW g \in G,
                    r.flag[g], g \notin r.dirty, NEW h \in G
             PROVE  (<<"db", h>> \in r.live) <=> (h = g)
  BY DEF RowsRight
<1>1. CASE f \in G
  <2>1. F!Group(f) = G /\ f \in Grouped
    BY <1>1, GroupFacts DEF Grouped
  <2> QED
    BY <2>1
<1>2. CASE f \notin G
  <2>1. F!Group(f) \cap G = {} /\ G \subseteq Grouped
    BY <1>2 DEF F!Group, Grouped, F!TlsProviders, F!ObservabilityProviders
  <2>2. s.flag[g] /\ g \notin s.dirty /\ (<<"db", h>> \in r.live <=> <<"db", h>> \in s.live)
    BY <2>1
  <2> QED
    BY <2>2 DEF RowsRight
<1> QED
  BY <1>1, <1>2

LEMMA DirtiedFields ==
  ASSUME NEW s \in Books, NEW d \in SUBSET (F!Features \cup {"amphora"})
  PROVE  /\ Dirtied(s, d) \in Books /\ Flags(Dirtied(s, d)) = Flags(s)
         /\ Dirtied(s, d).vars = s.vars /\ Dirtied(s, d).live = s.live /\ Dirtied(s, d).flag = s.flag
         /\ Dirtied(s, d).dirty = d /\ Dirtied(s, d).menu = s.menu
         /\ Used(Dirtied(s, d)) = Used(s) /\ Provided(Dirtied(s, d)) = Provided(s)
         /\ Shaped(Dirtied(s, d)) <=> Shaped(s)
BY DEF Dirtied, Book, Books, Flags, Used, Provided, Shaped

LEMMA BooksMenu ==
  ASSUME NEW s \in Books, NEW f \in s.menu
  PROVE  f \in F!Features
BY DEF Books, Menus, F!Features, F!TlsProviders, F!ObservabilityProviders

LEMMA BeginStaysGood ==
  ASSUME NEW s \in GoodBooks, NEW f \in s.menu \cup {"amphora"}
  PROVE  Dirtied(s, s.dirty \cup {f}) \in GoodBooks
<1> DEFINE r == Dirtied(s, s.dirty \cup {f})
<1>1. s \in Books /\ s.dirty \cup {f} \in SUBSET (F!Features \cup {"amphora"})
  BY BooksMenu DEF GoodBooks, Books
<1>2. /\ r \in Books /\ Flags(r) = Flags(s) /\ r.live = s.live /\ r.flag = s.flag
      /\ r.dirty = s.dirty \cup {f} /\ r.menu = s.menu
      /\ Used(r) = Used(s) /\ Provided(r) = Provided(s) /\ (Shaped(r) <=> Shaped(s))
  BY <1>1, DirtiedFields
<1> HIDE DEF r
<1>3. Linked(r)
  BY <1>2 DEF LinksOf, Linked, GoodBooks, Good
<1>4. RowsRight(r) /\ RequirementsRight(r)
  BY <1>2 DEF RowsRight, RequirementsRight, GoodBooks, Good
<1>5. r \in GoodBooks
  BY <1>2, <1>3, <1>4 DEF GoodBooks, Good
<1> QED
  BY <1>5 DEF r

----------------------------------------------------------------------------
(* enable_feature                                                          *)

Around(s) == {r \in GoodBooks : Same(s, r)}
Vetted(s, f) == {r \in Around(s) : f \in F!ObservabilityProviders => Clear(f, r)}
Supplied(s, f) ==
  {r \in GoodBooks : /\ Kept(s, r) /\ Req(f, r.live) \subseteq Flags(r)
                     /\ f \in F!ObservabilityProviders => Clear(f, r)}
Enabling(s, f) == {r \in GoodBooks : Kept(s, r) /\ Req(f, r.live) \subseteq Flags(r) /\ Clear(f, r)}
Begun(s, f) == {r \in Enabling(s, f) : f \in r.dirty}
Written(s, f) ==
  {r \in GoodBooks : /\ r.menu = s.menu /\ Req(f, r.live) \subseteq Flags(r) /\ Clear(f, r) /\ f \in r.dirty
                     /\ f \in Grouped => <<"db", f>> \in r.live
                     /\ f \notin Grouped => Kept(s, r)}
Enabled(s, f) == {r \in Staying(s.menu) : f \in Flags(r) /\ (f \notin Grouped => Kept(s, r))}

LEMMA SetsOfBooks ==
  ASSUME NEW s, NEW f
  PROVE  /\ {s} \cap GoodBooks \in SUBSET GoodBooks /\ Around(s) \in SUBSET GoodBooks /\ Vetted(s, f) \in SUBSET GoodBooks
         /\ Supplied(s, f) \in SUBSET GoodBooks /\ Enabling(s, f) \in SUBSET GoodBooks
         /\ Begun(s, f) \in SUBSET GoodBooks /\ Written(s, f) \in SUBSET GoodBooks
         /\ Enabled(s, f) \in SUBSET GoodBooks
BY DEF Around, Vetted, Supplied, Enabling, Begun, Written, Enabled, Staying

LEMMA EnableContexts ==
  ASSUME NEW s, NEW f \in F!Features
  PROVE  /\ Context(Around(s)) /\ Context(Vetted(s, f)) /\ Context(Supplied(s, f)) /\ Context(Enabling(s, f))
         /\ Context(Begun(s, f))
<1>1. \A q, r : Same(q, r) => /\ Same(s, q) => Same(s, r)
                              /\ Kept(s, q) => Kept(s, r)
                              /\ Flags(q) = Flags(r) /\ q.dirty = r.dirty
                              /\ Req(f, q.live) = Req(f, r.live) /\ (Clear(f, q) <=> Clear(f, r))
  <2> SUFFICES ASSUME NEW q, NEW r, Same(q, r)
               PROVE  /\ Same(s, q) => Same(s, r)
                      /\ Kept(s, q) => Kept(s, r)
                      /\ Flags(q) = Flags(r) /\ q.dirty = r.dirty
                      /\ Req(f, q.live) = Req(f, r.live) /\ (Clear(f, q) <=> Clear(f, r))
    OBVIOUS
  <2>1. q.live \cap Watched = r.live \cap Watched /\ q.dirty = r.dirty /\ (Same(s, q) => Same(s, r))
    BY DEF Same
  <2>2. Kept(q, r) /\ Flags(q) = Flags(r)
    BY KeptFacts
  <2> QED
    BY <2>1, <2>2, KeptFacts, ReadsWatched
<1> QED
  BY <1>1, SetsOfBooks DEF Context, Around, Vetted, Supplied, Enabling, Begun

\* The checks of the rows of a group
LEMMA LackClears ==
  ASSUME NEW C, Context(C), NEW f \in Grouped
  PROVE  Triple(Rules, C, F!Lack({<<"db", g>> : g \in F!Group(f) \ {f}}), {r \in C : Clear(f, r)})
<1> DEFINE X == {<<"db", g>> : g \in F!Group(f) \ {f}}
           a == [op |-> "lack", things |-> X]
<1>1. f \in F!Features /\ X \subseteq Watched /\ X \in SUBSET Things
  <2>1. f \in F!Features
    BY DEF Grouped, F!Features
  <2>2. F!Group(f) \subseteq Grouped
    BY <2>1, GroupFacts
  <2> QED
    BY <2>1, <2>2, WatchedRows DEF Watched
<1>2. a \in Simple /\ a.op = "lack" /\ a.things = X /\ Mild(a, AllLinks, {}, {})
  BY <1>1 DEF Simple, Mild, Untouched, Gives, Adds, Cuts
<1>3. \A s : Clear(f, s) <=> X \cap s.live = {}
  BY DEF Clear
<1> HIDE DEF a, X
<1>4. ASSUME NEW s \in C, F!Goes(a, s.live) PROVE Does(a, s) \in C /\ Clear(f, Does(a, s))
  <2>1. Clear(f, s)
    BY <1>2, <1>3, <1>4 DEF F!Goes
  <2>2. s \in Books /\ s \in At(C, {}, {}) /\ {} \cap Brought = {}
    BY AtAll DEF Context, GoodBooks
  <2>3. Does(a, s) \in C
    <3>1. Does(a, s) \in At(C, {} \ Cuts(a), {} \ Adds(a))
      BY <1>2, <2>2, KeepsAll, MildStep
    <3> QED
      BY <3>1 DEF At
  <2>4. Same(s, Does(a, s))
    BY <1>2, <2>2, WatchedStay DEF Mild
  <2> QED
    BY <1>1, <2>1, <2>3, <2>4, ReadsWatched DEF Same
<1>5. C \in SUBSET GoodBooks /\ {r \in C : Clear(f, r)} \in SUBSET GoodBooks
  BY DEF Context
<1>6. Triple(Rules, C, <<a>>, {r \in C : Clear(f, r)})
  BY <1>2, <1>4, <1>5, AtomDoes
<1> QED
  BY <1>6 DEF a, X, F!Lack

LEMMA ChecksClear ==
  ASSUME NEW C, Context(C)
  PROVE  /\ \A f \in F!TlsProviders : Triple(Rules, C, F!TlsCheck(f), {r \in C : Clear(f, r)})
         /\ \A f \in F!ObservabilityProviders : Triple(Rules, C, F!ObservabilityCheck(f), {r \in C : Clear(f, r)})
<1>1. ASSUME NEW f \in F!TlsProviders PROVE Triple(Rules, C, F!TlsCheck(f), {r \in C : Clear(f, r)})
  <2>1. F!Group(f) = F!TlsProviders /\ f \in Grouped
    BY GroupFacts DEF Grouped, F!Features
  <2> QED
    BY <2>1, LackClears DEF F!TlsCheck, F!TlsRow
<1>2. ASSUME NEW f \in F!ObservabilityProviders PROVE Triple(Rules, C, F!ObservabilityCheck(f), {r \in C : Clear(f, r)})
  <2>1. F!Group(f) = F!ObservabilityProviders /\ f \in Grouped
    BY GroupFacts DEF Grouped, F!Features
  <2> QED
    BY <2>1, LackClears DEF F!ObservabilityCheck, F!ObservabilityRow
<1> QED
  BY <1>1, <1>2

LEMMA Nothing ==
  ASSUME NEW P \in SUBSET GoodBooks, NEW Q, P \subseteq Q PROVE Triple(Rules, P, <<>>, Q)
BY TripleEmpty

LEMMA ChecksEnable ==
  ASSUME NEW s \in GoodBooks, NEW f \in s.menu
  PROVE  /\ Triple(Rules, {s}, F!PreChecks(f), Vetted(s, f))
         /\ Triple(Rules, Vetted(s, f), F!Call("requirements", f), Supplied(s, f))
         /\ Triple(Rules, Supplied(s, f), F!PreEnableChecks(f), Enabling(s, f))
         /\ Triple(Rules, Enabling(s, f), F!Call("begin", f), Begun(s, f))
<1>0. f \in F!Features /\ s \in Books
  BY BooksMenu DEF GoodBooks
<1>1. Triple(Rules, {s}, F!PreChecks(f), Vetted(s, f))
  <2>1. {s} \subseteq Around(s) /\ {s} \in SUBSET GoodBooks
    BY DEF Around, Same
  <2>2. CASE f \in F!ObservabilityProviders
    <3>1. Triple(Rules, Around(s), F!ObservabilityCheck(f), {r \in Around(s) : Clear(f, r)})
      BY <1>0, <2>2, EnableContexts, ChecksClear
    <3>2. {r \in Around(s) : Clear(f, r)} \subseteq Vetted(s, f)
      BY DEF Vetted
    <3> QED
      BY <2>1, <2>2, <3>1, <3>2, TripleFits DEF F!PreChecks
  <2>3. CASE f \notin F!ObservabilityProviders
    <3>1. {s} \subseteq Vetted(s, f)
      BY <2>1, <2>3 DEF Vetted
    <3> QED
      BY <2>1, <2>3, <3>1, Nothing DEF F!PreChecks
  <2> QED
    BY <2>2, <2>3
<1>2. Triple(Rules, Vetted(s, f), F!Call("requirements", f), Supplied(s, f))
  <2> DEFINE a == [op |-> "requirements", f |-> f]
  <2>1. a \in Calls /\ a.op = "requirements" /\ a.f = f
    BY <1>0 DEF Calls
  <2> HIDE DEF a
  <2>2. ASSUME NEW q \in Vetted(s, f) PROVE Leads(q, a, Supplied(s, f))
    <3>1. Same(s, q) /\ (f \in F!ObservabilityProviders => Clear(f, q)) /\ q.menu = s.menu
      BY DEF Vetted, Around, Same
    <3>2. ASSUME NEW r \in GoodBooks, Kept(q, r), Req(f, r.live) \subseteq Flags(r)
          PROVE  r \in Supplied(s, f)
      <4>1. Kept(s, r)
        BY <3>1, <3>2, KeptFacts
      <4>2. Clear(f, q) <=> Clear(f, r)
        BY <1>0, <3>2, ReadsWatched DEF Kept
      <4> QED
        BY <3>1, <3>2, <4>1, <4>2 DEF Supplied
    <3> QED
      BY <2>1, <3>1, <3>2 DEF Leads
  <2>3. Triple(Rules, Vetted(s, f), <<a>>, Supplied(s, f))
    BY <2>1, <2>2, SetsOfBooks, CallDoes
  <2> QED
    BY <2>3 DEF a, F!Call
<1>3. Triple(Rules, Supplied(s, f), F!PreEnableChecks(f), Enabling(s, f))
  <2>1. {r \in Supplied(s, f) : Clear(f, r)} \subseteq Enabling(s, f) /\ Context(Supplied(s, f)) /\ Context(Enabling(s, f))
        /\ Supplied(s, f) \subseteq Supplied(s, f)
    BY <1>0, EnableContexts DEF Supplied, Enabling
  <2>2. ASSUME f \notin F!TlsProviders PROVE Supplied(s, f) \subseteq Enabling(s, f)
    <3>1. f \in Grouped => f \in F!ObservabilityProviders
      BY <2>2 DEF Grouped
    <3>2. f \notin Grouped => \A r : Clear(f, r)
      BY <1>0, GroupFacts DEF Clear
    <3> QED
      BY <3>1, <3>2 DEF Supplied, Enabling
  <2>3. \A C : Context(C) => Triple(Rules, C, F!is_vault_application_active, C)
    <3>1. {F!VaultActive} \in SUBSET Things
      BY DEF F!VaultActive, Things, Kinds, Names
    <3>2. F!is_vault_application_active \in AllCalm
      BY <3>1, CheckCalm, AllCalmSteps DEF F!is_vault_application_active, Plain
    <3> QED
      BY <3>2, AllCalmDoes
  <2>4. CASE f = "secrets"
    <3>1. F!PreEnableChecks(f) = F!is_vault_application_active /\ f \notin F!TlsProviders
      BY <2>4 DEF F!PreEnableChecks, F!TlsProviders
    <3> QED
      BY <2>1, <2>2, <2>3, <3>1, TripleFits
  <2>5. CASE f \in F!TlsProviders
    <3>1. Triple(Rules, Supplied(s, f), F!TlsCheck(f), Enabling(s, f))
      BY <2>1, <2>5, ChecksClear, TripleFits
    <3>2. F!PreEnableChecks(f) = F!TlsCheck(f) \/ F!PreEnableChecks(f) = F!TlsCheck(f) \o F!is_vault_application_active
      BY <2>5 DEF F!PreEnableChecks, F!TlsProviders
    <3> QED
      BY <2>1, <2>3, <3>1, <3>2, TripleChain
  <2>6. CASE f \notin F!TlsProviders /\ f # "secrets"
    <3>1. F!PreEnableChecks(f) = <<>>
      BY <2>6 DEF F!PreEnableChecks, F!TlsProviders
    <3> QED
      BY <2>2, <2>6, <3>1, SetsOfBooks, Nothing
  <2> QED
    BY <2>4, <2>5, <2>6
<1>4. Triple(Rules, Enabling(s, f), F!Call("begin", f), Begun(s, f))
  <2> DEFINE a == [op |-> "begin", f |-> f]
  <2>1. a \in Calls /\ a.op = "begin" /\ a.f = f
    BY <1>0 DEF Calls
  <2> HIDE DEF a
  <2>2. ASSUME NEW q \in Enabling(s, f) PROVE Leads(q, a, Begun(s, f))
    <3> DEFINE r == Dirtied(q, q.dirty \cup {f})
    <3>1. q \in GoodBooks /\ Kept(s, q) /\ Req(f, q.live) \subseteq Flags(q) /\ Clear(f, q) /\ q.menu = s.menu
          /\ q \in Books /\ q.dirty \cup {f} \in SUBSET (F!Features \cup {"amphora"})
      BY <1>0 DEF Enabling, Kept, GoodBooks, Books
    <3>2. r \in GoodBooks
      BY <3>1, BeginStaysGood
    <3>3. Flags(r) = Flags(q) /\ r.live = q.live /\ r.dirty = q.dirty \cup {f} /\ r.menu = q.menu
      BY <3>1, DirtiedFields
    <3> HIDE DEF r
    <3>4. r \in Begun(s, f)
      BY <3>1, <3>2, <3>3 DEF Begun, Enabling, Kept, Clear
    <3> QED
      BY <2>1, <3>4 DEF Leads, r
  <2>3. Triple(Rules, Enabling(s, f), <<a>>, Begun(s, f))
    BY <2>1, <2>2, SetsOfBooks, CallDoes
  <2> QED
    BY <2>3 DEF a, F!Call
<1> QED
  BY <1>1, <1>2, <1>3, <1>4

LEMMA WrittenContext ==
  ASSUME NEW s, NEW f \in F!Features
  PROVE  Context(Written(s, f)) /\ (f \notin Grouped => Begun(s, f) \subseteq Written(s, f))
<1>1. ASSUME NEW q, NEW r, Same(q, r)
      PROVE  /\ q.menu = r.menu /\ q.dirty = r.dirty /\ Flags(q) = Flags(r)
             /\ Req(f, q.live) = Req(f, r.live) /\ (Clear(f, q) <=> Clear(f, r))
             /\ f \in Grouped => (<<"db", f>> \in q.live <=> <<"db", f>> \in r.live)
             /\ Kept(s, q) => Kept(s, r)
  <2>1. q.live \cap Watched = r.live \cap Watched /\ q.dirty = r.dirty /\ q.menu = r.menu
    BY <1>1 DEF Same
  <2>2. f \in Grouped => <<"db", f>> \in Watched
    BY DEF Watched
  <2>3. Kept(q, r) /\ Flags(q) = Flags(r)
    BY <1>1, KeptFacts
  <2> QED
    BY <2>1, <2>2, <2>3, KeptFacts, ReadsWatched
<1>2. \A q \in Written(s, f), r \in GoodBooks : Same(q, r) => r \in Written(s, f)
  BY <1>1 DEF Written
<1>3. f \notin Grouped => Begun(s, f) \subseteq Written(s, f)
  BY DEF Begun, Enabling, Written, Kept
<1> QED
  BY <1>2, <1>3, SetsOfBooks DEF Context

LEMMA RowWritten ==
  ASSUME NEW s, NEW f \in Grouped
  PROVE  Triple(Rules, Begun(s, f), F!Make({<<"db", f>>}), Written(s, f))
<1> DEFINE x == <<"db", f>>
           a == [op |-> "make", things |-> {x}]
<1>1. f \in F!Features /\ x \in Watched /\ x # F!AmphoraRow /\ F!Group(f) \subseteq F!Features
  <2>1. f \in F!Features /\ Grouped \subseteq F!Features
    BY DEF Grouped, F!Features
  <2>2. F!Group(f) \subseteq Grouped
    BY <2>1, GroupFacts
  <2> QED
    BY <2>1, <2>2, AmphoraRowFacts DEF Watched
<1>2. a \in Simple /\ a.op = "make" /\ a.things = {x} /\ a.things \subseteq Watched
  BY <1>1, WatchedRows DEF Simple
<1>3. \A g : <<"db", g>> = x <=> g = f
  OBVIOUS
<1> HIDE DEF a, x
<1>4. ASSUME NEW q \in Begun(s, f) PROVE Does(a, q) \in Written(s, f)
  <2> DEFINE r == Does(a, q)
  <2>1. q \in GoodBooks /\ RowsRight(q) /\ RequirementsRight(q) /\ Clear(f, q) /\ f \in q.dirty /\ q.menu = s.menu
        /\ Req(f, q.live) \subseteq Flags(q)
    BY DEF Begun, Enabling, Kept, GoodBooks, Good
  <2>2. /\ r \in Books /\ Shaped(r) /\ Linked(r) /\ r.flag = q.flag /\ r.dirty = q.dirty /\ r.menu = q.menu
        /\ Flags(r) = Flags(q) /\ r.live \cap Watched = (q.live \cup {x}) \cap Watched
    BY <1>2, <2>1, RowStep
  <2> HIDE DEF r
  <2>3. \A y \in Watched : y \in r.live <=> y \in q.live \/ y = x
    BY <2>2
  <2>4. \A g \in Grouped : <<"db", g>> \in r.live <=> <<"db", g>> \in q.live \/ g = f
    BY <1>3, <2>3 DEF Watched
  <2>5. \A g : Req(g, r.live) = Req(g, q.live)
    BY <1>1, <2>3, AmphoraRowFacts DEF Req
  <2>6. RowsRight(r)
    <3>1. f \in F!Group(f)
      BY <1>1, GroupFacts
    <3>2. \A g \in Grouped \ F!Group(f) :
            /\ r.flag[g] = q.flag[g] /\ (g \in r.dirty <=> g \in q.dirty)
            /\ <<"db", g>> \in r.live <=> <<"db", g>> \in q.live
      BY <2>2, <2>4, <3>1
    <3>3. \A g \in F!Group(f) : ~ (r.flag[g] /\ g \notin r.dirty)
      <4> SUFFICES ASSUME NEW g \in F!Group(f), r.flag[g], g \notin r.dirty PROVE FALSE
        OBVIOUS
      <4>1. g # f /\ q.flag[g] /\ g \notin q.dirty
        BY <2>1, <2>2
      <4>2. <<"db", g>> \in q.live
        BY <1>1, <2>1, <4>1, RowsOfGroup
      <4> QED
        BY <2>1, <4>1, <4>2 DEF Clear
    <3> QED
      BY <1>1, <2>1, <3>2, <3>3, RowsChange
  <2>7. RequirementsRight(r)
    BY <2>1, <2>2, <2>5 DEF RequirementsRight
  <2>8. Clear(f, r)
    <3>1. F!Group(f) \subseteq Grouped
      BY <1>1, GroupFacts
    <3> QED
      BY <2>1, <2>4, <3>1 DEF Clear
  <2>9. r \in GoodBooks
    BY <2>1, <2>2, <2>6, <2>7 DEF GoodBooks, Good
  <2>10. <<"db", f>> \in r.live
    BY <2>4
  <2>11. r \in Written(s, f)
    BY <2>1, <2>2, <2>5, <2>8, <2>9, <2>10 DEF Written
  <2> QED
    BY <2>11 DEF r
<1>5. Triple(Rules, Begun(s, f), <<a>>, Written(s, f))
  BY <1>2, <1>4, SetsOfBooks, AtomDoes
<1> QED
  BY <1>5 DEF a, x, F!Make

LEMMA PostEnables ==
  ASSUME NEW s, NEW f \in F!Features
  PROVE  Triple(Rules, Begun(s, f), F!PostEnable(f), Written(s, f))
<1>1. Context(Begun(s, f)) /\ Context(Written(s, f))
  BY EnableContexts, WrittenContext
<1>2. CASE f \in {"tls.ca", "tls.vault"}
  <2>1. F!PostEnable(f) = F!AddCACertsToKeystoneStep(f) \o F!Make({<<"db", f>>}) /\ f \in Grouped
    BY <1>2 DEF F!PostEnable, F!TlsPostEnable, F!TlsRow, Grouped, F!TlsProviders, F!ObservabilityProviders
  <2>2. F!AddCACertsToKeystoneStep(f) \in AllCalm
    <3>1. {f} \in SUBSET Names /\ "cos_offers" \notin {f}
      BY <1>2 DEF Names
    <3> QED
      BY <3>1, KindsOfSteps, PlainSteps, AllCalmSteps DEF F!AddCACertsToKeystoneStep
  <2> QED
    BY <1>1, <2>1, <2>2, AllCalmDoes, RowWritten, TripleChain
<1>3. CASE f = "tls.self-signed"
  <2>1. F!PostEnable(f) = F!Make({<<"db", f>>}) /\ f \in Grouped
    BY <1>3 DEF F!PostEnable, F!SelfSignedPostEnable, F!TlsRow, Grouped, F!TlsProviders, F!ObservabilityProviders
  <2> QED
    BY <2>1, RowWritten
<1>4. CASE f \in F!ObservabilityProviders
  <2>1. F!PostEnable(f) = F!Make({<<"db", f>>}) \o F!Make(F!Of("juju", {"cos_grants"})) /\ f \in Grouped
    BY <1>4 DEF F!PostEnable, F!ObservabilityPostEnable, F!ObservabilityRow, Grouped, F!ObservabilityProviders
  <2>2. F!Make(F!Of("juju", {"cos_grants"})) \in AllCalm
    <3>1. {"cos_grants"} \in SUBSET Names
      BY DEF Names
    <3> QED
      BY <3>1, KindsOfSteps, PlainSteps, AllCalmSteps
  <2> QED
    BY <1>1, <2>1, <2>2, AllCalmDoes, RowWritten, TripleChain
<1>5. CASE f \notin Grouped
  <2>1. F!PostEnable(f) = <<>>
    BY <1>5 DEF F!PostEnable, Grouped, F!TlsProviders
  <2> QED
    BY <1>5, <2>1, WrittenContext, SetsOfBooks, Nothing
<1> QED
  BY <1>2, <1>3, <1>4, <1>5 DEF Grouped, F!TlsProviders

\* Books that differ in the flag of f
LEMMA Reflagged ==
  ASSUME NEW s, NEW f \in F!Features, NEW r,
         r.vars = s.vars, r.live = s.live, r.menu = s.menu, r.dirty = s.dirty \ {f},
         \A g \in F!Features \ {f} : r.flag[g] = s.flag[g]
  PROVE  /\ r.flag[f] => Flags(r) = Flags(s) \cup {f}
         /\ ~ r.flag[f] => Flags(r) = Flags(s) \ {f}
         /\ Used(r) = Used(s) /\ Provided(r) = Provided(s) /\ (Shaped(r) <=> Shaped(s))
         /\ (Linked(r) <=> Linked(s))
<1>1. (r.flag[f] => Flags(r) = Flags(s) \cup {f}) /\ (~ r.flag[f] => Flags(r) = Flags(s) \ {f})
  BY DEF Flags
<1>2. LinksOf(r) = LinksOf(s)
  BY GroupFacts DEF LinksOf
<1>3. Used(r) = Used(s) /\ Provided(r) = Provided(s) /\ (Shaped(r) <=> Shaped(s))
  BY DEF Used, Provided, Shaped
<1> QED
  BY <1>1, <1>2, <1>3 DEF Linked

LEMMA FlagWritten ==
  ASSUME NEW s \in GoodBooks, NEW f \in s.menu
  PROVE  Triple(Rules, Written(s, f), F!Call("enabled", f), Enabled(s, f))
<1> DEFINE a == [op |-> "enabled", f |-> f]
<1>0. f \in F!Features /\ s \in Books /\ Grouped \subseteq F!Features
  BY BooksMenu DEF GoodBooks, Grouped, F!Features
<1>1. a \in Calls /\ a.op = "enabled" /\ a.f = f
  BY <1>0 DEF Calls
<1> HIDE DEF a
<1>2. ASSUME NEW q \in Written(s, f) PROVE Leads(q, a, Enabled(s, f))
  <2> DEFINE r == Raised(q, f, TRUE, q.dirty \ {f})
  <2>1. /\ q \in GoodBooks /\ q \in Books /\ Good(q) /\ q.menu = s.menu /\ Req(f, q.live) \subseteq Flags(q)
        /\ Clear(f, q) /\ f \in q.dirty /\ (f \in Grouped => <<"db", f>> \in q.live)
        /\ (f \notin Grouped => Kept(s, q))
    BY DEF Written, GoodBooks
  <2>2. /\ r \in Books /\ r.vars = q.vars /\ r.live = q.live /\ r.menu = q.menu /\ r.dirty = q.dirty \ {f}
        /\ r.flag[f] /\ \A g \in F!Features \ {f} : r.flag[g] = q.flag[g]
    BY <1>0, <2>1 DEF Raised, Book, Books
  <2> HIDE DEF r
  <2>20. /\ Flags(r) = Flags(q) \cup {f}
         /\ Used(r) = Used(q) /\ Provided(r) = Provided(q) /\ (Shaped(r) <=> Shaped(q))
         /\ (Linked(r) <=> Linked(q))
    BY <1>0, <2>2, Reflagged
  <2>3. RowsRight(r)
    <3>1. \A g \in Grouped \ F!Group(f) :
            /\ r.flag[g] = q.flag[g] /\ (g \in r.dirty <=> g \in q.dirty)
            /\ <<"db", g>> \in r.live <=> <<"db", g>> \in q.live
      <4>1. \A g \in Grouped \ F!Group(f) : g # f
        BY <1>0, GroupFacts
      <4> QED
        BY <1>0, <2>2, <4>1
    <3>2. ASSUME NEW g \in F!Group(f), NEW h \in F!Group(f), f \in Grouped, r.flag[g], g \notin r.dirty
          PROVE  (<<"db", h>> \in r.live) <=> (h = g)
      <4>1. F!Group(f) \subseteq F!Features
        BY <1>0, <3>2, GroupFacts
      <4>2. CASE g = f
        BY <2>1, <2>2, <3>2, <4>2 DEF Clear
      <4>3. CASE g # f
        <5>1. q.flag[g] /\ g \notin q.dirty /\ RowsRight(q)
          BY <2>1, <2>2, <3>2, <4>1, <4>3 DEF Good
        <5>2. <<"db", g>> \in q.live
          BY <1>0, <3>2, <4>1, <5>1, RowsOfGroup
        <5> QED
          BY <2>1, <4>3, <5>2 DEF Clear
      <4> QED
        BY <4>2, <4>3
    <3> QED
      BY <1>0, <2>1, <3>1, <3>2, RowsChange DEF Good
  <2>4. RequirementsRight(r)
    BY <2>1, <2>2, <2>20 DEF Good, RequirementsRight
  <2>5. r \in GoodBooks
    BY <2>1, <2>2, <2>20, <2>3, <2>4 DEF Good, GoodBooks
  <2>6. r \in Enabled(s, f)
    BY <2>1, <2>2, <2>20, <2>5 DEF Enabled, Staying, Kept
  <2> QED
    BY <1>0, <1>1, <2>6 DEF Leads, r
<1>3. Triple(Rules, Written(s, f), <<a>>, Enabled(s, f))
  BY <1>1, <1>2, SetsOfBooks, CallDoes
<1> QED
  BY <1>3 DEF a, F!Call

LEMMA EnableFeatureDoes ==
  ASSUME NEW s \in GoodBooks, NEW f \in s.menu
  PROVE  Triple(Rules, {s}, F!EnableFeature(f), Enabled(s, f))
<1>1. f \in F!Features
  BY BooksMenu DEF GoodBooks
<1>2. Triple(Rules, Begun(s, f), F!RunEnablePlans(f), Begun(s, f))
  BY <1>1, EnableContexts, RunEnableKeeps
<1>3. Triple(Rules, Begun(s, f), F!PostEnable(f), Written(s, f))
  BY <1>1, PostEnables
<1> QED
  BY <1>2, <1>3, ChecksEnable, FlagWritten, TripleChain DEF F!EnableFeature

----------------------------------------------------------------------------
(* disable_feature                                                         *)

\* No enabled feature requires f.
Free(f, s) == \A g \in Flags(s) : f \notin Req(g, s.live)
Unneeded(m, f) == {r \in Staying(m) : Free(f, r)}
Leaving(m, f) == {r \in Unneeded(m, f) : Clear(f, r)}
Left(m, f) == {r \in Leaving(m, f) : f \in r.dirty}

LEMMA DisableContexts ==
  ASSUME NEW m, NEW f \in F!Features
  PROVE  Context(Unneeded(m, f)) /\ Context(Leaving(m, f)) /\ Context(Left(m, f))
<1>1. \A q, r : Same(q, r) => /\ q.menu = r.menu /\ q.dirty = r.dirty
                              /\ Free(f, q) => Free(f, r)
                              /\ Clear(f, q) <=> Clear(f, r)
  <2> SUFFICES ASSUME NEW q, NEW r, Same(q, r)
               PROVE  /\ q.menu = r.menu /\ q.dirty = r.dirty
                      /\ Free(f, q) => Free(f, r)
                      /\ Clear(f, q) <=> Clear(f, r)
    OBVIOUS
  <2>1. q.live \cap Watched = r.live \cap Watched /\ q.dirty = r.dirty /\ q.menu = r.menu
    BY DEF Same
  <2>2. Flags(q) = Flags(r) /\ Flags(q) \subseteq F!Features
    BY KeptFacts DEF Flags
  <2>3. \A g \in Flags(q) : Req(g, q.live) = Req(g, r.live)
    BY <2>1, <2>2, ReadsWatched
  <2>4. Clear(f, q) <=> Clear(f, r)
    BY <2>1, ReadsWatched
  <2> QED
    BY <2>1, <2>2, <2>3, <2>4 DEF Free
<1> QED
  BY <1>1 DEF Context, Unneeded, Leaving, Left, Staying

LEMMA ChecksDisable ==
  ASSUME NEW m, NEW f \in F!Features
  PROVE  Triple(Rules, Unneeded(m, f), F!PreDisableChecks(f), Leaving(m, f))
<1>1. Context(Unneeded(m, f)) /\ Unneeded(m, f) \in SUBSET GoodBooks
  BY DisableContexts DEF Context
<1>2. CASE f \in F!TlsProviders
  BY <1>1, <1>2, ChecksClear DEF F!PreDisableChecks, Leaving
<1>3. CASE f \in F!ObservabilityProviders
  <2>1. f \notin F!TlsProviders
    BY <1>3 DEF F!ObservabilityProviders, F!TlsProviders
  <2> QED
    BY <1>1, <1>3, <2>1, ChecksClear DEF F!PreDisableChecks, Leaving
<1>4. CASE f \notin Grouped
  <2>1. \A r : Clear(f, r)
    BY <1>4, GroupFacts DEF Clear
  <2>2. F!PreDisableChecks(f) = <<>>
    BY <1>4 DEF F!PreDisableChecks, Grouped
  <2>3. Unneeded(m, f) \subseteq Leaving(m, f)
    BY <2>1 DEF Leaving
  <2> QED
    BY <1>1, <2>2, <2>3, Nothing
<1> QED
  BY <1>2, <1>3, <1>4 DEF Grouped

LEMMA DisableBegins ==
  ASSUME NEW m, NEW f \in F!Features, f \in m
  PROVE  Triple(Rules, Leaving(m, f), F!Call("begin", f), Left(m, f))
<1> DEFINE a == [op |-> "begin", f |-> f]
<1>1. a \in Calls /\ a.op = "begin" /\ a.f = f
  BY DEF Calls
<1> HIDE DEF a
<1>2. ASSUME NEW q \in Leaving(m, f) PROVE Leads(q, a, Left(m, f))
  <2> DEFINE r == Dirtied(q, q.dirty \cup {f})
  <2>1. q \in GoodBooks /\ q \in Books /\ q.menu = m /\ Free(f, q) /\ Clear(f, q)
        /\ q.dirty \cup {f} \in SUBSET (F!Features \cup {"amphora"})
    BY DEF Leaving, Unneeded, Staying, GoodBooks, Books
  <2>2. r \in GoodBooks
    BY <2>1, BeginStaysGood
  <2>3. Flags(r) = Flags(q) /\ r.live = q.live /\ r.dirty = q.dirty \cup {f} /\ r.menu = q.menu
    BY <2>1, DirtiedFields
  <2> HIDE DEF r
  <2>4. r \in Left(m, f)
    BY <2>1, <2>2, <2>3 DEF Left, Leaving, Unneeded, Staying, Free, Clear
  <2> QED
    BY <1>1, <2>4 DEF Leads, r
<1>3. Leaving(m, f) \in SUBSET GoodBooks /\ Left(m, f) \in SUBSET GoodBooks
  BY DEF Left, Leaving, Unneeded, Staying
<1>4. Triple(Rules, Leaving(m, f), <<a>>, Left(m, f))
  BY <1>1, <1>2, <1>3, CallDoes
<1> QED
  BY <1>4 DEF a, F!Call

\* The rows of the group go with the plans.
LEMMA RowsDropped ==
  ASSUME NEW m, NEW f \in Grouped
  PROVE  Triple(Rules, Left(m, f), F!Drop({<<"db", g>> : g \in F!Group(f)}), Left(m, f))
<1> DEFINE X == {<<"db", g>> : g \in F!Group(f)}
           a == [op |-> "drop", things |-> X]
<1>1. f \in F!Features /\ F!Group(f) \subseteq F!Features /\ F!Group(f) \subseteq Grouped
  <2>1. f \in F!Features /\ Grouped \subseteq F!Features
    BY DEF Grouped, F!Features
  <2> QED
    BY <2>1, GroupFacts
<1>2. X \subseteq Watched /\ X \in SUBSET Things /\ F!AmphoraRow \notin X
  BY <1>1, WatchedRows, AmphoraRowFacts DEF Watched
<1>3. a \in Simple /\ a.op = "drop" /\ a.things = X /\ a.things \subseteq Watched
  BY <1>2 DEF Simple
<1>4. \A g : <<"db", g>> \in X <=> g \in F!Group(f)
  OBVIOUS
<1> HIDE DEF a, X
<1>5. ASSUME NEW q \in Left(m, f) PROVE Does(a, q) \in Left(m, f)
  <2> DEFINE r == Does(a, q)
  <2>1. q \in GoodBooks /\ Good(q) /\ Clear(f, q) /\ f \in q.dirty /\ q.menu = m /\ Free(f, q)
    BY DEF Left, Leaving, Unneeded, Staying, GoodBooks
  <2>2. /\ r \in Books /\ Shaped(r) /\ Linked(r) /\ r.flag = q.flag /\ r.dirty = q.dirty /\ r.menu = q.menu
        /\ Flags(r) = Flags(q) /\ r.live \cap Watched = (q.live \ X) \cap Watched
    BY <1>3, <2>1, RowStep
  <2> HIDE DEF r
  <2>3. \A y \in Watched : y \in r.live <=> y \in q.live /\ y \notin X
    BY <2>2
  <2>4. \A g \in Grouped : <<"db", g>> \in r.live <=> <<"db", g>> \in q.live /\ g \notin F!Group(f)
    BY <1>4, <2>3 DEF Watched
  <2>5. \A g : Req(g, r.live) = Req(g, q.live)
    BY <1>2, <2>3, AmphoraRowFacts DEF Req
  <2>6. RowsRight(r)
    <3>1. f \in F!Group(f)
      BY <1>1, GroupFacts
    <3>2. \A g \in Grouped \ F!Group(f) :
            /\ r.flag[g] = q.flag[g] /\ (g \in r.dirty <=> g \in q.dirty)
            /\ <<"db", g>> \in r.live <=> <<"db", g>> \in q.live
      BY <2>2, <2>4
    <3>3. \A g \in F!Group(f) : ~ (r.flag[g] /\ g \notin r.dirty)
      <4> SUFFICES ASSUME NEW g \in F!Group(f), r.flag[g], g \notin r.dirty PROVE FALSE
        OBVIOUS
      <4>1. g # f /\ q.flag[g] /\ g \notin q.dirty /\ RowsRight(q)
        BY <2>1, <2>2 DEF Good
      <4>2. <<"db", g>> \in q.live
        BY <1>1, <4>1, RowsOfGroup
      <4> QED
        BY <2>1, <4>1, <4>2 DEF Clear
    <3> QED
      BY <1>1, <2>1, <3>2, <3>3, RowsChange DEF Good
  <2>7. RequirementsRight(r)
    BY <2>1, <2>2, <2>5 DEF RequirementsRight, Good
  <2>8. Clear(f, r)
    BY <1>1, <2>4 DEF Clear
  <2>9. r \in GoodBooks
    BY <2>1, <2>2, <2>6, <2>7 DEF GoodBooks, Good
  <2>10. Free(f, r)
    BY <2>1, <2>2, <2>5 DEF Free
  <2>11. r \in Left(m, f)
    BY <2>1, <2>2, <2>8, <2>9, <2>10 DEF Left, Leaving, Unneeded, Staying
  <2> QED
    BY <2>11 DEF r
<1>6. Left(m, f) \in SUBSET GoodBooks
  BY DEF Left, Leaving, Unneeded, Staying
<1>7. Triple(Rules, Left(m, f), <<a>>, Left(m, f))
  BY <1>3, <1>5, <1>6, AtomDoes
<1> QED
  BY <1>7 DEF a, X, F!Drop

LEMMA AnswerDropped ==
  ASSUME NEW m, NEW f \in F!Features
  PROVE  Triple(Rules, Left(m, f), F!LoadbalancerPostDisable, Left(m, f))
<1> DEFINE a == [op |-> "drop", things |-> {F!AmphoraRow}]
<1>1. a \in Simple /\ a.op = "drop" /\ a.things = {F!AmphoraRow} /\ a.things \subseteq Watched
  BY AmphoraRowFacts DEF Simple
<1> HIDE DEF a
<1>2. ASSUME NEW q \in Left(m, f) PROVE Does(a, q) \in Left(m, f)
  <2> DEFINE r == Does(a, q)
  <2>1. q \in GoodBooks /\ Clear(f, q) /\ f \in q.dirty /\ q.menu = m /\ Free(f, q)
    BY DEF Left, Leaving, Unneeded, Staying
  <2>2. /\ r \in GoodBooks /\ r.dirty = q.dirty /\ r.menu = q.menu
        /\ Flags(r) = Flags(q) /\ r.live \cap Watched = (q.live \ {F!AmphoraRow}) \cap Watched
    BY <1>1, <2>1, RowStep, AnswerStaysGood
  <2> HIDE DEF r
  <2>3. \A y \in Watched : y \in r.live => y \in q.live
    BY <2>2
  <2>4. \A g : Req(g, r.live) \subseteq Req(g, q.live)
    BY <2>3, AmphoraRowFacts DEF Req
  <2>5. Clear(f, r)
    <3>1. \A g \in F!Group(f) \ {f} : <<"db", g>> \in Watched
      BY GroupFacts DEF Watched
    <3> QED
      BY <2>1, <2>3, <3>1 DEF Clear
  <2>6. r \in Left(m, f)
    BY <2>1, <2>2, <2>4, <2>5 DEF Left, Leaving, Unneeded, Staying, Free
  <2> QED
    BY <2>6 DEF r
<1>3. Left(m, f) \in SUBSET GoodBooks
  BY DEF Left, Leaving, Unneeded, Staying
<1>4. Triple(Rules, Left(m, f), <<a>>, Left(m, f))
  BY <1>1, <1>2, <1>3, AtomDoes
<1> QED
  BY <1>4 DEF a, F!LoadbalancerPostDisable, F!Drop

LEMMA PostDisables ==
  ASSUME NEW m, NEW f \in F!Features
  PROVE  Triple(Rules, Left(m, f), F!PostDisable(f), Left(m, f))
<1>1. Context(Left(m, f)) /\ Left(m, f) \in SUBSET GoodBooks
  BY DisableContexts DEF Context
<1>2. CASE f \in {"tls.ca", "tls.vault"}
  <2>1. F!PostDisable(f) = F!RemoveCACertsFromKeystoneStep(f) \o F!Drop({<<"db", g>> : g \in F!Group(f)}) /\ f \in Grouped
    <3>1. f \in F!TlsProviders
      BY <1>2 DEF F!TlsProviders
    <3>2. F!Group(f) = F!TlsProviders /\ f \in Grouped
      BY <3>1, GroupFacts DEF Grouped, F!Features
    <3>3. F!PostDisable(f) = F!RemoveCACertsFromKeystoneStep(f) \o F!Drop({<<"db", g>> : g \in F!TlsProviders})
      <4>1. F!PostDisable(f) = F!TlsPostDisable(f)
        BY <1>2 DEF F!PostDisable, F!ObservabilityProviders
      <4> QED
        BY <4>1 DEF F!TlsPostDisable, F!TlsRow
    <3> QED
      BY <3>2, <3>3
  <2>2. F!RemoveCACertsFromKeystoneStep(f) \in AllCalm
    <3>1. {f} \in SUBSET Names /\ "cos_offers" \notin {f}
      BY <1>2 DEF Names
    <3> QED
      BY <3>1, KindsOfSteps, PlainSteps, AllCalmSteps DEF F!RemoveCACertsFromKeystoneStep
  <2> QED
    BY <1>1, <2>1, <2>2, AllCalmDoes, RowsDropped, TripleChain
<1>3. CASE f = "tls.self-signed"
  <2>1. F!PostDisable(f) = F!Drop({<<"db", g>> : g \in F!Group(f)}) /\ f \in Grouped
    <3>1. f \in F!TlsProviders
      BY <1>3 DEF F!TlsProviders
    <3>2. F!Group(f) = F!TlsProviders /\ f \in Grouped
      BY <3>1, GroupFacts DEF Grouped, F!Features
    <3>3. F!PostDisable(f) = F!Drop({<<"db", g>> : g \in F!TlsProviders})
      <4>1. F!PostDisable(f) = F!SelfSignedPostDisable
        BY <1>3 DEF F!PostDisable, F!ObservabilityProviders
      <4> QED
        BY <4>1 DEF F!SelfSignedPostDisable, F!TlsRow
    <3> QED
      BY <3>2, <3>3
  <2> QED
    BY <2>1, RowsDropped
<1>4. CASE f \in F!ObservabilityProviders
  <2>1. F!PostDisable(f) = F!Drop({<<"db", g>> : g \in F!Group(f)}) /\ f \in Grouped
    <3>1. F!PostDisable(f) = F!ObservabilityPostDisable
      BY <1>4 DEF F!PostDisable, F!ObservabilityProviders
    <3> QED
      BY <1>4, <3>1, GroupFacts DEF F!ObservabilityPostDisable, F!ObservabilityRow, Grouped
  <2> QED
    BY <2>1, RowsDropped
<1>5. CASE f = "loadbalancer"
  <2>1. F!PostDisable(f) = F!LoadbalancerPostDisable
    BY <1>5 DEF F!PostDisable, F!ObservabilityProviders
  <2> QED
    BY <2>1, AnswerDropped
<1>6. CASE f \notin Grouped \cup {"loadbalancer"}
  <2>1. F!PostDisable(f) = <<>>
    BY <1>6 DEF F!PostDisable, Grouped, F!TlsProviders
  <2> QED
    BY <1>1, <2>1, Nothing
<1> QED
  BY <1>2, <1>3, <1>4, <1>5, <1>6 DEF Grouped, F!TlsProviders

LEMMA FlagErased ==
  ASSUME NEW m, NEW f \in F!Features
  PROVE  Triple(Rules, Left(m, f), F!Call("disabled", f), Staying(m))
<1> DEFINE a == [op |-> "disabled", f |-> f]
<1>1. a \in Calls /\ a.op = "disabled" /\ a.f = f
  BY DEF Calls
<1> HIDE DEF a
<1>2. ASSUME NEW q \in Left(m, f) PROVE Leads(q, a, Staying(m))
  <2> DEFINE r == Raised(q, f, FALSE, q.dirty \ {f})
  <2>1. q \in GoodBooks /\ q \in Books /\ Good(q) /\ q.menu = m /\ Free(f, q)
    BY DEF Left, Leaving, Unneeded, Staying, GoodBooks
  <2>2. /\ r \in Books /\ r.vars = q.vars /\ r.live = q.live /\ r.menu = q.menu /\ r.dirty = q.dirty \ {f}
        /\ ~ r.flag[f] /\ \A g \in F!Features \ {f} : r.flag[g] = q.flag[g]
    BY <2>1 DEF Raised, Book, Books
  <2> HIDE DEF r
  <2>3. /\ Flags(r) = Flags(q) \ {f}
        /\ Used(r) = Used(q) /\ Provided(r) = Provided(q) /\ (Shaped(r) <=> Shaped(q))
        /\ (Linked(r) <=> Linked(q))
    BY <2>2, Reflagged
  <2>4. RowsRight(r)
    <3>1. \A g \in Grouped \ F!Group(f) :
            /\ r.flag[g] = q.flag[g] /\ (g \in r.dirty <=> g \in q.dirty)
            /\ <<"db", g>> \in r.live <=> <<"db", g>> \in q.live
      <4>1. \A g \in Grouped \ F!Group(f) : g # f /\ g \in F!Features
        BY GroupFacts DEF Grouped, F!Features
      <4> QED
        BY <2>2, <4>1
    <3>2. ASSUME NEW g \in F!Group(f), NEW h \in F!Group(f), f \in Grouped, r.flag[g], g \notin r.dirty
          PROVE  (<<"db", h>> \in r.live) <=> (h = g)
      <4>1. F!Group(f) \subseteq F!Features
        BY <3>2, GroupFacts DEF Grouped, F!Features
      <4>2. g # f /\ q.flag[g] /\ g \notin q.dirty
        BY <2>2, <3>2, <4>1
      <4> QED
        BY <2>1, <2>2, <3>2, <4>1, <4>2, RowsOfGroup DEF Good
    <3> QED
      BY <2>1, <3>1, <3>2, RowsChange DEF Good
  <2>5. RequirementsRight(r)
    BY <2>1, <2>2, <2>3 DEF Good, RequirementsRight, Free
  <2>6. r \in Staying(m)
    BY <2>1, <2>2, <2>3, <2>4, <2>5 DEF Good, GoodBooks, Staying
  <2> QED
    BY <1>1, <2>6 DEF Leads, r
<1>3. Left(m, f) \in SUBSET GoodBooks /\ Staying(m) \in SUBSET GoodBooks
  BY DEF Left, Leaving, Unneeded, Staying
<1>4. Triple(Rules, Left(m, f), <<a>>, Staying(m))
  BY <1>1, <1>2, <1>3, CallDoes
<1> QED
  BY <1>4 DEF a, F!Call

LEMMA DisableFeatureDoes ==
  ASSUME NEW s \in GoodBooks, NEW f \in s.menu, Free(f, s)
  PROVE  Triple(Rules, {s}, F!DisableFeature(f), Staying(s.menu))
<1> DEFINE m == s.menu
<1>1. f \in F!Features /\ f \in m
  BY BooksMenu DEF GoodBooks
<1>2. {s} \subseteq Unneeded(m, f)
  BY DEF Unneeded, Staying
<1> HIDE DEF m
<1>3. Triple(Rules, Unneeded(m, f), F!PreDisableChecks(f), Leaving(m, f))
  BY <1>1, ChecksDisable
<1>4. Triple(Rules, Leaving(m, f), F!Call("begin", f), Left(m, f))
  BY <1>1, DisableBegins
<1>5. Triple(Rules, Left(m, f), F!RunDisablePlans(f), Left(m, f))
  BY <1>1, DisableContexts, RunDisableKeeps
<1>6. Triple(Rules, Left(m, f), F!PostDisable(f), Left(m, f))
  BY <1>1, PostDisables
<1>7. Triple(Rules, Left(m, f), F!Call("disabled", f), Staying(m))
  BY <1>1, FlagErased
<1>8. Triple(Rules, Unneeded(m, f), F!DisableFeature(f), Staying(m))
  BY <1>3, <1>4, <1>5, <1>6, <1>7, TripleChain DEF F!DisableFeature
<1>9. Staying(m) \subseteq Staying(m)
  OBVIOUS
<1>10. Triple(Rules, {s}, F!DisableFeature(f), Staying(m))
  BY <1>2, <1>8, <1>9, TripleFits
<1> QED
  BY <1>10 DEF m

----------------------------------------------------------------------------
(* The other commands                                                      *)

LEMMA HookDoes ==
  ASSUME NEW m, NEW f
  PROVE  Triple(Rules, Staying(m), F!UpgradeHook(f), Staying(m))
<1>1. Context(Staying(m)) /\ Staying(m) \in SUBSET GoodBooks
  BY ConfiguringFacts DEF Context
<1>2. CASE f = "dns"
  BY <1>1, <1>2, DnsCalm, AllCalmSteps, AllCalmDoes DEF F!UpgradeHook
<1>3. CASE f = "observability.embedded"
  BY <1>1, <1>3, EmbeddedEnables DEF F!UpgradeHook
<1>4. CASE f = "observability.external"
  BY <1>1, <1>4, ExternalCalm, AllCalmSteps, AllCalmDoes DEF F!UpgradeHook
<1>5. CASE f \notin {"dns", "observability.embedded", "observability.external"}
  BY <1>1, <1>5, Nothing DEF F!UpgradeHook
<1> QED
  BY <1>2, <1>3, <1>4, <1>5

LEMMA ModelConfigDoes ==
  ASSUME NEW m
  PROVE  Triple(Rules, Staying(m), F!UpdateObservabilityModelConfigStep, Staying(m))
<1>1. Context(Staying(m))
  BY ConfiguringFacts
<1>2. SafeOn(<<"cos", "cos">>, AllLinks, {}) /\ SafeOn(<<"cos", "model">>, AllLinks, {})
  <2>1. "cos" \in Plans /\ "cos" \in Names /\ "model" \in Names
    BY DEF Plans, Names
  <2>2. \A l \in AllLinks : l[1][1] # "cos"
    <3>1. CosPlans \cap {"cos"} = {}
      BY DEF CosPlans
    <3> QED
      BY <3>1 DEF AllLinks, Links, AmphoraLinks, Amphora
  <2>3. \A n \in {"cos", "model"} : Fitting(<<"cos", n>>)
    BY DEF Fitting
  <2> QED
    BY <2>1, <2>2, <2>3, PlanUnwatched DEF SafeOn
<1>3. F!Store("cos", {"cos"}, {}) \in Plain
  <2>1. "cos" \in Plans /\ {"cos"} \in SUBSET Names /\ {} \in SUBSET Names /\ {} \ {"cos"} = {}
    BY DEF Plans, Names
  <2>2. \A n \in {"cos"} : SafeOn(<<"cos", n>>, AllLinks, {})
    BY <1>2
  <2> QED
    BY <2>1, <2>2, StoreCalm DEF Plain
<1>4. F!Make(F!Of("cos", {"model"})) \in Plain
  <2>1. \A x \in F!Of("cos", {"model"}) : SafeOn(x, AllLinks, {})
    BY <1>2 DEF F!Of
  <2> QED
    BY <2>1, MakeCalm DEF Plain
<1> QED
  BY <1>1, <1>3, <1>4, PlainSteps, AllCalmSteps, AllCalmDoes DEF F!UpdateObservabilityModelConfigStep

LEMMA AuthorizeDoes ==
  ASSUME NEW m
  PROVE  Triple(Rules, Staying(m), F!Make({F!VaultActive}), Staying(m))
<1>1. Context(Staying(m))
  BY ConfiguringFacts
<1>2. {F!VaultActive} = F!Of("vault", {"active"}) /\ {"active"} \in SUBSET Names /\ "cos_offers" \notin {"active"}
  BY DEF F!Of, F!VaultActive, Names
<1> QED
  BY <1>1, <1>2, KindsOfSteps, PlainSteps, AllCalmSteps, AllCalmDoes

\* `loadbalancer configure` marks Amphora until it reached its end.
LEMMA ConfigureBegins ==
  ASSUME NEW s \in GoodBooks, "secrets" \in Flags(s)
  PROVE  Triple(Rules, {s}, F!Call("begin", "amphora"), Configuring(s.menu))
<1> DEFINE a == [op |-> "begin", f |-> "amphora"]
           r == Dirtied(s, s.dirty \cup {"amphora"})
<1>1. a \in Calls /\ a.op = "begin" /\ a.f = "amphora"
  BY DEF Calls
<1>2. r \in GoodBooks
  BY BeginStaysGood
<1>3. Flags(r) = Flags(s) /\ r.dirty = s.dirty \cup {"amphora"} /\ r.menu = s.menu
  <2>1. s \in Books /\ s.dirty \cup {"amphora"} \in SUBSET (F!Features \cup {"amphora"})
    BY DEF GoodBooks, Books
  <2> QED
    BY <2>1, DirtiedFields
<1> HIDE DEF a, r
<1>4. r \in Configuring(s.menu)
  BY <1>2, <1>3 DEF Configuring, Staying
<1>5. Leads(s, a, Configuring(s.menu))
  BY <1>1, <1>4 DEF Leads, r
<1>6. {s} \in SUBSET GoodBooks /\ Configuring(s.menu) \in SUBSET GoodBooks
  BY DEF Configuring, Staying
<1>7. Triple(Rules, {s}, <<a>>, Configuring(s.menu))
  BY <1>1, <1>5, <1>6, CallDoes
<1> QED
  BY <1>7 DEF a, F!Call

LEMMA ConfigureEnds ==
  ASSUME NEW m
  PROVE  /\ Triple(Rules, At(Configuring(m), AmphoraNeeds, {}), F!Call("end", "amphora"), Staying(m))
         /\ Triple(Rules, At(Configuring(m), {}, {Amphora}), F!Call("end", "amphora"), Staying(m))
<1> DEFINE a == [op |-> "end", f |-> "amphora"]
           P == {s \in Configuring(m) : AmphoraNeeds \subseteq Provided(s) \/ Amphora \notin Used(s)}
<1>1. a \in Calls /\ a.op = "end" /\ a.f = "amphora"
  BY DEF Calls
<1> HIDE DEF a
<1>2. ASSUME NEW q \in P PROVE Leads(q, a, Staying(m))
  <2> DEFINE r == Dirtied(q, q.dirty \ {"amphora"})
  <2>1. q \in GoodBooks /\ q \in Books /\ Good(q) /\ q.menu = m /\ q.dirty \ {"amphora"} \in SUBSET (F!Features \cup {"amphora"})
    BY DEF Configuring, Staying, GoodBooks, Books
  <2>2. /\ r \in Books /\ Flags(r) = Flags(q) /\ r.live = q.live /\ r.flag = q.flag
        /\ r.dirty = q.dirty \ {"amphora"} /\ r.menu = q.menu
        /\ Used(r) = Used(q) /\ Provided(r) = Provided(q) /\ (Shaped(r) <=> Shaped(q))
    BY <2>1, DirtiedFields
  <2> HIDE DEF r
  <2>3. Linked(r)
    <3> SUFFICES ASSUME NEW l \in LinksOf(r), l[1] \in Used(r) PROVE l[2] \in Provided(r)
      BY DEF Linked
    <3>1. CASE l \in Links
      BY <2>1, <2>2, <3>1 DEF Good, Linked, LinksOf
    <3>2. CASE l \in AmphoraLinks
      <4>1. l[1] = Amphora /\ l[2] \in AmphoraNeeds
        BY <3>2 DEF AmphoraLinks
      <4> QED
        BY <2>2, <4>1
    <3> QED
      BY <3>1, <3>2 DEF LinksOf
  <2>4. RowsRight(r)
    <3>1. \A G \in {F!TlsProviders, F!ObservabilityProviders} : \A g \in G : g \in r.dirty <=> g \in q.dirty
      BY <2>2 DEF F!TlsProviders, F!ObservabilityProviders
    <3> QED
      BY <2>1, <2>2, <3>1 DEF RowsRight, Good
  <2>5. RequirementsRight(r)
    BY <2>1, <2>2 DEF RequirementsRight, Good
  <2>6. r \in Staying(m)
    BY <2>1, <2>2, <2>3, <2>4, <2>5 DEF Good, GoodBooks, Staying
  <2> QED
    BY <1>1, <2>6 DEF Leads, r
<1>3. P \in SUBSET GoodBooks /\ Staying(m) \in SUBSET GoodBooks
  BY DEF Configuring, Staying
<1>4. At(Configuring(m), AmphoraNeeds, {}) \subseteq P /\ At(Configuring(m), {}, {Amphora}) \subseteq P
  BY DEF At
<1> HIDE DEF P
<1>5. Triple(Rules, P, <<a>>, Staying(m)) /\ Staying(m) \subseteq Staying(m)
  BY <1>1, <1>2, <1>3, CallDoes
<1> QED
  BY <1>4, <1>5, TripleFits DEF a, F!Call

LEMMA ConfigureDoes ==
  ASSUME NEW s \in GoodBooks, "secrets" \in Flags(s), NEW before \in BOOLEAN
  PROVE  /\ Triple(Rules, {s}, F!Call("begin", "amphora") \o F!LoadbalancerConfigure(TRUE, before)
                               \o F!Call("end", "amphora"), Staying(s.menu))
         /\ Triple(Rules, {s}, F!Call("begin", "amphora") \o F!LoadbalancerConfigure(FALSE, TRUE)
                               \o F!Call("end", "amphora"), Staying(s.menu))
         /\ Triple(Rules, {s}, F!LoadbalancerConfigure(FALSE, FALSE), Staying(s.menu))
<1> DEFINE m == s.menu
           b == F!Call("begin", "amphora")
           e == F!Call("end", "amphora")
<1>1. Staying(m) \subseteq Staying(m) /\ {s} \subseteq Staying(m)
  BY DEF Staying
<1>2. Triple(Rules, {s}, b, Configuring(m))
  BY ConfigureBegins
<1> HIDE DEF m, b
<1>3. Triple(Rules, At(Configuring(m), AmphoraNeeds, {}), e, Staying(m))
      /\ Triple(Rules, At(Configuring(m), {}, {Amphora}), e, Staying(m))
  BY ConfigureEnds
<1> HIDE DEF e
<1>4. Triple(Rules, {s}, b \o F!LoadbalancerConfigure(TRUE, before), At(Configuring(m), AmphoraNeeds, {}))
  BY <1>2, ConfigureOn, TripleChain
<1>5. Triple(Rules, {s}, b \o F!LoadbalancerConfigure(FALSE, TRUE), At(Configuring(m), {}, {Amphora}))
  BY <1>2, ConfigureOff, TripleChain
<1>6. Triple(Rules, {s}, (b \o F!LoadbalancerConfigure(TRUE, before)) \o e, Staying(m))
  BY <1>3, <1>4, TripleChain
<1>7. Triple(Rules, {s}, (b \o F!LoadbalancerConfigure(FALSE, TRUE)) \o e, Staying(m))
  BY <1>3, <1>5, TripleChain
<1>8. Triple(Rules, {s}, F!LoadbalancerConfigure(FALSE, FALSE), Staying(m))
  BY <1>1, ConfigureOff, TripleFits
<1> QED
  BY <1>6, <1>7, <1>8 DEF m, b, e

----------------------------------------------------------------------------
(* Commands for several features                                           *)

LEMMA MenusFinite ==
  ASSUME NEW m \in Menus
  PROVE  IsFiniteSet(m) /\ m \subseteq F!Features
<1>1. ASSUME NEW a, NEW b, NEW c, NEW d PROVE IsFiniteSet({a, b, c, d})
  <2>1. IsFiniteSet({a}) /\ IsFiniteSet({b}) /\ IsFiniteSet({c}) /\ IsFiniteSet({d})
    BY FS_Singleton
  <2>2. IsFiniteSet({a} \cup {b})
    BY <2>1, FS_AddElement
  <2>3. IsFiniteSet(({a} \cup {b}) \cup {c})
    BY <2>2, FS_AddElement
  <2>4. IsFiniteSet((({a} \cup {b}) \cup {c}) \cup {d})
    BY <2>3, FS_AddElement
  <2>5. (({a} \cup {b}) \cup {c}) \cup {d} = {a, b, c, d}
    OBVIOUS
  <2> QED
    BY <2>4, <2>5
<1>2. ASSUME NEW a, NEW b, NEW c PROVE IsFiniteSet({a, b, c}) /\ IsFiniteSet({a, b})
  <2> DEFINE X == {a, b, c, c}
             Y == {a, b, b, b}
  <2>1. IsFiniteSet(X) /\ IsFiniteSet(Y)
    BY <1>1
  <2>2. X = {a, b, c} /\ Y = {a, b}
    OBVIOUS
  <2> HIDE DEF X, Y
  <2> QED
    BY <2>1, <2>2
<1>3. IsFiniteSet(m)
  <2>1. CASE m = {"telemetry", "resource-optimization", "maintenance"}
    <3>1. IsFiniteSet({"telemetry", "resource-optimization", "maintenance"})
      BY <1>1, <1>2
    <3> QED
      BY <2>1, <3>1
  <2>2. CASE m = {"secrets", "vault", "tls.vault"}
    <3>1. IsFiniteSet({"secrets", "vault", "tls.vault"})
      BY <1>1, <1>2
    <3> QED
      BY <2>2, <3>1
  <2>3. CASE m = {"caas", "secrets", "vault", "loadbalancer"}
    <3>1. IsFiniteSet({"caas", "secrets", "vault", "loadbalancer"})
      BY <1>1, <1>2
    <3> QED
      BY <2>3, <3>1
  <2>4. CASE m = {"tls.ca", "tls.self-signed"}
    <3>1. IsFiniteSet({"tls.ca", "tls.self-signed"})
      BY <1>1, <1>2
    <3> QED
      BY <2>4, <3>1
  <2>5. CASE m = {"observability.embedded", "observability.external", "telemetry"}
    <3>1. IsFiniteSet({"observability.embedded", "observability.external", "telemetry"})
      BY <1>1, <1>2
    <3> QED
      BY <2>5, <3>1
  <2>6. CASE m = {"instance-recovery", "orchestration"}
    <3>1. IsFiniteSet({"instance-recovery", "orchestration"})
      BY <1>1, <1>2
    <3> QED
      BY <2>6, <3>1
  <2>7. CASE m = {"shared-filesystem", "dns"}
    <3>1. IsFiniteSet({"shared-filesystem", "dns"})
      BY <1>1, <1>2
    <3> QED
      BY <2>7, <3>1
  <2>8. CASE m = {"baremetal", "pro"}
    <3>1. IsFiniteSet({"baremetal", "pro"})
      BY <1>1, <1>2
    <3> QED
      BY <2>8, <3>1
  <2>9. CASE m = {"images-sync", "validation", "ldap"}
    <3>1. IsFiniteSet({"images-sync", "validation", "ldap"})
      BY <1>1, <1>2
    <3> QED
      BY <2>9, <3>1
  <2> QED
    BY <2>1, <2>2, <2>3, <2>4, <2>5, <2>6, <2>7, <2>8, <2>9 DEF Menus
<1>4. m \subseteq F!Features
  BY DEF Menus, F!Features, F!TlsProviders, F!ObservabilityProviders
<1> QED
  BY <1>3, <1>4

LEMMA CallsOfFacts ==
  ASSUME NEW name, NEW S, IsFiniteSet(S), NEW t \in F!CallsOf(name, S)
  PROVE  \E n \in Nat : \E q \in [1..n -> S] :
            /\ t = [i \in 1..n |-> [op |-> name, f |-> q[i]]]
            /\ \A x \in S : \E i \in 1..n : q[i] = x
<1> DEFINE n == Cardinality(S)
<1>1. n \in Nat /\ n = F!Cardinality(S)
  <2>1. Cardinality(S) = F!Cardinality(S)
    BY DEF Cardinality, F!Cardinality
  <2> QED
    BY <2>1, FS_CardinalityType
<1>2. PICK q \in F!SetToSeqs(S) : t = [i \in DOMAIN q |-> [op |-> name, f |-> q[i]]]
  BY DEF F!CallsOf
<1>3. q \in [1..n -> S] /\ \A i, j \in 1..n : i # j => q[i] # q[j]
  BY <1>1 DEF F!SetToSeqs
<1>4. q \in Injection(1..n, S)
  BY <1>3 DEF Injection, IsInjective
<1>5. Cardinality(1..n) = n
  BY <1>1, FS_Interval
<1>6. q \in Surjection(1..n, S)
  BY <1>4, <1>5, FS_Injection
<1>7. \A x \in S : \E i \in 1..n : q[i] = x
  BY <1>6 DEF Surjection
<1> QED
  BY <1>1, <1>2, <1>3, <1>7

\* hook and drain
LEMMA ManyCalls ==
  ASSUME NEW m \in Menus, NEW S \in SUBSET m, NEW name \in {"hook", "drain"}, NEW t \in F!CallsOf(name, S)
  PROVE  Triple(Rules, Staying(m), t, Staying(m))
<1>1. IsFiniteSet(S) /\ S \subseteq F!Features
  BY MenusFinite, FS_Subset
<1>2. PICK n \in Nat : \E q \in [1..n -> S] : t = [i \in 1..n |-> [op |-> name, f |-> q[i]]]
  BY <1>1, CallsOfFacts
<1>3. PICK q \in [1..n -> S] : t = [i \in 1..n |-> [op |-> name, f |-> q[i]]]
  BY <1>2
<1>4. ASSUME NEW f \in S
      PROVE  [op |-> name, f |-> f] \in Calls /\ <<Staying(m), [op |-> name, f |-> f], Staying(m)>> \in RulesC
  <2> DEFINE a == [op |-> name, f |-> f]
  <2>1. a \in Calls /\ a.op \in {"hook", "drain"} /\ a.f \in m
    BY <1>1, <1>4 DEF Calls
  <2> HIDE DEF a
  <2>2. \A s \in Staying(m) : Leads(s, a, Staying(m))
    BY <2>1 DEF Leads, Staying
  <2>3. Staying(m) \in SUBSET GoodBooks
    BY DEF Staying
  <2>4. <<Staying(m), a, Staying(m)>> \in RulesC
    BY <2>1, <2>2, <2>3 DEF RulesC
  <2> QED
    BY <2>1, <2>4 DEF a
<1>5. \A i \in 1..n : t[i] \in Calls /\ <<Staying(m), t[i], Staying(m)>> \in Rules
  BY <1>3, <1>4, RulesInclude
<1>6. Len(t) = n /\ t \in Seq(Atoms)
  <2>1. t \in [1..n -> Atoms]
    BY <1>3, <1>5, AtomsInclude
  <2> QED
    BY <2>1
<1>7. Staying(m) \in SUBSET GoodBooks
  BY DEF Staying
<1> QED
  BY <1>5, <1>6, <1>7, TripleSame

\* Menus are closed under what their features require.
LEMMA ReqInMenu ==
  ASSUME NEW s \in GoodBooks, NEW f \in s.menu
  PROVE  IsFiniteSet(Req(f, s.live)) /\ Req(f, s.live) \subseteq s.menu /\ Req(f, s.live) \cap Grouped = {}
<1>1. s.menu \in Menus
  BY DEF GoodBooks, Books
<1>2. f \in F!Features /\ IsFiniteSet(s.menu)
  BY <1>1, MenusFinite
<1>3. Req(f, s.live) \cap Grouped = {}
  BY DEF Req, Grouped, F!TlsProviders, F!ObservabilityProviders
<1>4. Req(f, s.live) \subseteq s.menu
  BY <1>1 DEF Req, Menus, F!ObservabilityProviders
<1> QED
  BY <1>2, <1>3, <1>4, FS_Subset

LEMMA RequirementsDo ==
  ASSUME NEW s \in GoodBooks, NEW f \in s.menu, NEW t \in F!CallsOf("require", Req(f, s.live)),
         NEW Q \in SUBSET GoodBooks,
         \A r \in GoodBooks : Kept(s, r) /\ Req(f, r.live) \subseteq Flags(r) => r \in Q
  PROVE  Triple(Rules, {s}, t, Q)
<1> DEFINE S == Req(f, s.live)
<1>0. f \in F!Features /\ S \subseteq F!Features /\ S \subseteq s.menu /\ S \cap Grouped = {}
  BY ReqInMenu, BooksMenu DEF GoodBooks
<1>1. PICK n \in Nat : \E q \in [1..n -> S] : /\ t = [i \in 1..n |-> [op |-> "require", f |-> q[i]]]
                                            /\ \A x \in S : \E i \in 1..n : q[i] = x
  BY ReqInMenu, CallsOfFacts
<1>2. PICK q \in [1..n -> S] : /\ t = [i \in 1..n |-> [op |-> "require", f |-> q[i]]]
                              /\ \A x \in S : \E i \in 1..n : q[i] = x
  BY <1>1
<1> HIDE DEF S
<1> DEFINE B(i) == {r \in GoodBooks : Kept(s, r) /\ \A j \in 1..(i - 1) : q[j] \in Flags(r)}
           A == [i \in 1..(n + 1) |-> B(i)]
<1>3. A \in [1..(n + 1) -> SUBSET GoodBooks] /\ \A i \in 1..(n + 1) : A[i] = B(i)
  OBVIOUS
<1>4. {s} \subseteq A[1]
  <2>1. 1 \in 1..(n + 1) /\ 1..(1 - 1) = {}
    OBVIOUS
  <2>2. s \in B(1)
    BY <2>1, KeptFacts
  <2> QED
    BY <1>3, <2>1, <2>2
<1>5. A[n + 1] \subseteq Q
  <2> SUFFICES ASSUME NEW r \in B(n + 1) PROVE r \in Q
    BY <1>3
  <2>1. r \in GoodBooks /\ Kept(s, r) /\ \A j \in 1..n : q[j] \in Flags(r)
    OBVIOUS
  <2>2. S \subseteq Flags(r)
    BY <1>2, <2>1
  <2>3. Req(f, r.live) = S
    BY <1>0, <2>1, ReadsWatched DEF Kept, S
  <2> QED
    BY <2>1, <2>2, <2>3
<1>6. ASSUME NEW i \in 1..n PROVE t[i] \in Atoms /\ <<A[i], t[i], A[i + 1]>> \in Rules
  <2> DEFINE a == t[i]
  <2>1. a \in Calls /\ a.op = "require" /\ a.f = q[i] /\ q[i] \in S
    BY <1>0, <1>2 DEF Calls
  <2>2. i \in 1..(n + 1) /\ i + 1 \in 1..(n + 1) /\ A[i] = B(i) /\ A[i + 1] = B(i + 1)
    BY <1>3
  <2>3. \A j \in 1..((i + 1) - 1) : j = i \/ j \in 1..(i - 1)
    OBVIOUS
  <2>4. \A p, r : Kept(p, r) => Flags(p) \subseteq Flags(r)
    BY DEF Kept
  <2>5. ASSUME NEW p \in B(i), NEW r \in GoodBooks, Kept(p, r), q[i] \in Flags(r)
        PROVE  r \in B(i + 1)
    <3>1. Kept(s, r) /\ \A j \in 1..(i - 1) : q[j] \in Flags(r)
      BY <2>4, <2>5, KeptFacts
    <3> QED
      BY <2>3, <2>5, <3>1
  <2>6. \A p \in B(i) : q[i] \in p.menu /\ q[i] \notin Grouped
    BY <1>0, <2>1 DEF Kept
  <2> HIDE DEF A, B, a
  <2>7. \A p \in B(i) : Leads(p, a, B(i + 1))
    BY <2>1, <2>5, <2>6 DEF Leads
  <2>8. B(i) \in SUBSET GoodBooks /\ B(i + 1) \in SUBSET GoodBooks
    BY DEF B
  <2>9. <<B(i), a, B(i + 1)>> \in RulesC
    BY <2>1, <2>7, <2>8 DEF RulesC
  <2> QED
    BY <2>1, <2>2, <2>9, RulesInclude, AtomsInclude DEF a
<1> HIDE DEF A, B
<1>7. t \in Seq(Atoms) /\ Len(t) = n
  <2>1. t \in [1..n -> Atoms]
    BY <1>2, <1>6
  <2> QED
    BY <2>1
<1> QED
  BY <1>3, <1>4, <1>5, <1>6, <1>7 DEF Triple

----------------------------------------------------------------------------
(* The books of every state are good, and the rest of the running command  *)
(* keeps them so.                                                          *)

CommandNames ==
  {"none", "enable", "disable", "amphora_on", "amphora_off", "authorize", "upgrade", "proxy", "disable_all"}
BooksInv ==
  /\ books \in GoodBooks
  /\ Triple(Rules, {books}, todo, Staying(menu))
  /\ featureCmd \in CommandNames
  /\ featureCmd = "none" => todo = <<>>
  /\ aborts \in 0..MaxAborts

LEMMA BooksFields ==
  /\ books.vars = vars /\ books.live = live /\ books.flag = flag /\ books.dirty = dirty /\ books.menu = menu
  /\ books' = Book(vars', live', flag', dirty', menu')
  /\ books'.menu = menu'
BY DEF books, Book

LEMMA RequirementsAreReq == \A f : F!get_requirements(f) = Req(f, live)
BY DEF F!get_requirements, Req

LEMMA BooksStart == F!Init => BooksInv
<1> SUFFICES ASSUME F!Init PROVE BooksInv
  OBVIOUS
<1>1. /\ books.vars = {} /\ books.live = {} /\ books.dirty = {} /\ books.menu = menu /\ menu \in Menus
      /\ books.flag = [f \in F!Features |-> FALSE] /\ todo = <<>> /\ featureCmd = "none" /\ aborts = 0
  BY BooksFields DEF F!Init
<1>2. books \in Books
  BY <1>1 DEF books, Book, Books
<1>3. Flags(books) = {} /\ Used(books) = {}
  BY <1>1 DEF Flags, Used
<1>4. \A G \in {F!TlsProviders, F!ObservabilityProviders} : \A f \in G : ~ books.flag[f]
  BY <1>1 DEF F!TlsProviders, F!ObservabilityProviders, F!Features
<1>5. Linked(books) /\ Shaped(books) /\ RowsRight(books) /\ RequirementsRight(books)
  BY <1>1, <1>3, <1>4 DEF Linked, Shaped, RowsRight, RequirementsRight
<1>6. books \in GoodBooks
  BY <1>1, <1>2, <1>3, <1>5 DEF GoodBooks, Good
<1>7. {books} \in SUBSET GoodBooks /\ {books} \subseteq Staying(menu)
  BY <1>1, <1>6 DEF Staying
<1>8. Triple(Rules, {books}, todo, Staying(menu))
  BY <1>1, <1>7, Nothing
<1> QED
  BY <1>1, <1>6, <1>8, AbortsAssumption DEF BooksInv, CommandNames

\* Between commands nothing is left to do.
LEMMA BooksRest ==
  ASSUME BooksInv, books' = books, menu' = menu, todo' = <<>>, featureCmd' = "none", aborts' \in 0..MaxAborts
  PROVE  BooksInv'
<1>1. books \in GoodBooks
  BY DEF BooksInv
<1>2. {books} \in SUBSET GoodBooks /\ {books} \subseteq Staying(menu)
  BY <1>1, BooksFields DEF Staying
<1>3. Triple(Rules, {books}, <<>>, Staying(menu))
  BY <1>2, Nothing
<1>4. Triple(Rules, {books'}, todo', Staying(menu'))
  BY <1>3
<1> QED
  BY <1>1, <1>4 DEF BooksInv, CommandNames

LEMMA BooksBegin ==
  ASSUME BooksInv, NEW name \in CommandNames \ {"none"}, NEW calls, F!Start(name, calls),
         Triple(Rules, {books}, calls, Staying(menu))
  PROVE  BooksInv'
<1>1. /\ menu' = menu /\ flag' = flag /\ vars' = vars /\ live' = live /\ dirty' = dirty /\ aborts' = aborts
      /\ featureCmd' = name /\ todo' = calls
  BY DEF F!Start
<1>2. books' = books
  BY <1>1, BooksFields DEF books
<1>3. Triple(Rules, {books'}, todo', Staying(menu'))
  BY <1>1, <1>2
<1>4. books' \in GoodBooks /\ featureCmd' \in CommandNames /\ featureCmd' # "none" /\ aborts' \in 0..MaxAborts
  BY <1>1, <1>2 DEF BooksInv
<1> QED
  BY <1>3, <1>4 DEF BooksInv

LEMMA BooksCommand ==
  ASSUME BooksInv, F!Command
  PROVE  BooksInv'
<1>0. books \in GoodBooks /\ books.menu = menu /\ menu \in Menus /\ menu \subseteq F!Features
      /\ {books} \subseteq Staying(menu) /\ {books} \in SUBSET GoodBooks
  <2>1. books \in GoodBooks /\ books.menu = menu
    BY BooksFields DEF BooksInv
  <2>2. menu \in Menus
    BY <2>1 DEF GoodBooks, Books
  <2> QED
    BY <2>1, <2>2, MenusFinite DEF Staying
<1>00. \A f : f \in Flags(books) <=> f \in F!Features /\ flag[f]
  BY BooksFields DEF Flags
<1>1. ASSUME NEW f \in menu, F!Enable(f) PROVE BooksInv'
  <2>1. Triple(Rules, {books}, F!EnableFeature(f), Enabled(books, f))
    BY <1>0, EnableFeatureDoes
  <2>2. Enabled(books, f) \subseteq Staying(menu)
    BY <1>0 DEF Enabled
  <2>3. Triple(Rules, {books}, F!EnableFeature(f), Staying(menu))
    BY <2>1, <2>2, TripleFits
  <2> QED
    BY <1>1, <2>3, BooksBegin DEF F!Enable, CommandNames
<1>2. ASSUME NEW f \in menu, F!Disable(f) PROVE BooksInv'
  <2>1. Free(f, books)
    <3>1. \A g \in Flags(books) : g \in menu /\ flag[g]
      BY <1>0, <1>00 DEF GoodBooks, Good
    <3>2. \A g \in menu : flag[g] => f \notin F!get_requirements(g)
      BY <1>2 DEF F!Disable, F!Requirers
    <3> QED
      BY <3>1, <3>2, RequirementsAreReq, BooksFields DEF Free
  <2>2. Triple(Rules, {books}, F!DisableFeature(f), Staying(menu))
    BY <1>0, <2>1, DisableFeatureDoes
  <2> QED
    BY <1>2, <2>2, BooksBegin DEF F!Disable, CommandNames
<1>3. ASSUME NEW on \in BOOLEAN, F!Configure(on) PROVE BooksInv'
  <2>1. "secrets" \in Flags(books)
    BY <1>0, <1>00, <1>3 DEF F!Configure
  <2> DEFINE before == F!AmphoraRow \in live
  <2>2. before \in BOOLEAN
    OBVIOUS
  <2> DEFINE calls == IF on \/ before
                      THEN F!Call("begin", "amphora") \o F!LoadbalancerConfigure(on, before) \o F!Call("end", "amphora")
                      ELSE F!LoadbalancerConfigure(on, FALSE)
             name == IF on THEN "amphora_on" ELSE "amphora_off"
  <2>3. F!Start(name, calls) /\ name \in CommandNames \ {"none"}
    BY <1>3 DEF F!Configure, CommandNames
  <2>4. Triple(Rules, {books}, calls, Staying(menu))
    <3>1. CASE on
      <4>1. calls = F!Call("begin", "amphora") \o F!LoadbalancerConfigure(TRUE, before) \o F!Call("end", "amphora")
        BY <3>1
      <4> HIDE DEF before, calls
      <4> QED
        BY <1>0, <2>1, <2>2, <4>1, ConfigureDoes
    <3>2. CASE ~ on /\ before
      <4>1. calls = F!Call("begin", "amphora") \o F!LoadbalancerConfigure(FALSE, TRUE) \o F!Call("end", "amphora")
        BY <3>2
      <4> HIDE DEF before, calls
      <4> QED
        BY <1>0, <2>1, <4>1, ConfigureDoes
    <3>3. CASE ~ on /\ ~ before
      <4>1. calls = F!LoadbalancerConfigure(FALSE, FALSE)
        BY <3>3
      <4> HIDE DEF before, calls
      <4> QED
        BY <1>0, <2>1, <4>1, ConfigureDoes
    <3> QED
      BY <3>1, <3>2, <3>3
  <2> HIDE DEF calls, name
  <2> QED
    BY <2>3, <2>4, BooksBegin
<1>4. ASSUME F!AuthorizeVault PROVE BooksInv'
  <2>1. Triple(Rules, {books}, F!Make({F!VaultActive}), Staying(menu))
    BY <1>0, AuthorizeDoes, TripleFits
  <2> QED
    BY <1>4, <2>1, BooksBegin DEF F!AuthorizeVault, CommandNames
<1>5. ASSUME F!UpdateFeatures PROVE BooksInv'
  <2> DEFINE S == {f \in {g \in menu : flag[g]} : F!HasHook(f)}
  <2>1. PICK calls \in F!CallsOf("hook", S) : F!Start("upgrade", calls)
    BY <1>5 DEF F!UpdateFeatures
  <2>2. S \in SUBSET menu
    OBVIOUS
  <2> HIDE DEF S
  <2>3. Triple(Rules, Staying(menu), calls, Staying(menu))
    BY <1>0, <2>2, ManyCalls
  <2>4. Triple(Rules, {books}, calls, Staying(menu))
    BY <1>0, <2>3, TripleFits
  <2> QED
    BY <2>1, <2>4, BooksBegin DEF CommandNames
<1>6. ASSUME F!UpdateProxyModelConfigs PROVE BooksInv'
  <2>1. Triple(Rules, {books}, F!UpdateObservabilityModelConfigStep, Staying(menu))
    BY <1>0, ModelConfigDoes, TripleFits
  <2> QED
    BY <1>6, <2>1, BooksBegin DEF F!UpdateProxyModelConfigs, CommandNames
<1>7. ASSUME F!DisableEnabledFeatures PROVE BooksInv'
  <2> DEFINE S == {f \in menu : flag[f]}
  <2>1. PICK calls \in F!CallsOf("drain", S) : F!Start("disable_all", calls)
    BY <1>7 DEF F!DisableEnabledFeatures
  <2>2. S \in SUBSET menu
    OBVIOUS
  <2> HIDE DEF S
  <2>3. Triple(Rules, Staying(menu), calls, Staying(menu))
    BY <1>0, <2>2, ManyCalls
  <2>4. Triple(Rules, {books}, calls, Staying(menu))
    BY <1>0, <2>3, TripleFits
  <2> QED
    BY <2>1, <2>4, BooksBegin DEF CommandNames
<1> QED
  BY <1>1, <1>2, <1>3, <1>4, <1>5, <1>6, <1>7 DEF F!Command

LEMMA BooksMoved ==
  ASSUME BooksInv, NEW B, NEW calls, Triple(Rules, {books'}, calls, B), books' \in GoodBooks,
         Triple(Rules, B, Tail(todo), Staying(menu)), todo' = calls \o Tail(todo),
         menu' = menu, featureCmd' = featureCmd, aborts' = aborts, todo # <<>>
  PROVE  BooksInv'
<1>1. Triple(Rules, {books'}, calls \o Tail(todo), Staying(menu))
  BY TripleChain
<1>2. Triple(Rules, {books'}, todo', Staying(menu'))
  BY <1>1
<1> QED
  BY <1>2 DEF BooksInv

LEMMA BooksExpanded ==
  ASSUME BooksInv, NEW B, NEW calls, F!Expanded(calls), Triple(Rules, {books}, calls, B),
         Triple(Rules, B, Tail(todo), Staying(menu)), menu' = menu, aborts' = aborts, todo # <<>>
  PROVE  BooksInv'
<1>1. flag' = flag /\ vars' = vars /\ live' = live /\ dirty' = dirty /\ featureCmd' = featureCmd
      /\ todo' = calls \o Tail(todo)
  BY DEF F!Expanded, F!Rest
<1>2. books' = books
  BY <1>1, BooksFields DEF books
<1>3. books' \in GoodBooks /\ Triple(Rules, {books'}, calls, B)
  BY <1>2 DEF BooksInv
<1> QED
  BY <1>1, <1>3, BooksMoved

LEMMA BooksRefused ==
  ASSUME BooksInv, F!Refused, menu' = menu, aborts' = aborts
  PROVE  BooksInv'
<1>1. flag' = flag /\ vars' = vars /\ live' = live /\ dirty' = dirty /\ featureCmd' = "none" /\ todo' = <<>>
  BY DEF F!Refused, F!Stop
<1>2. books' = books
  BY <1>1, BooksFields DEF books
<1>3. aborts' \in 0..MaxAborts
  BY DEF BooksInv
<1> QED
  BY <1>1, <1>2, <1>3, BooksRest

LEMMA BooksStepped ==
  ASSUME BooksInv, NEW B \in SUBSET GoodBooks, books' \in B, Triple(Rules, B, Tail(todo), Staying(menu)),
         todo' = Tail(todo), menu' = menu, featureCmd' = featureCmd, aborts' = aborts, todo # <<>>
  PROVE  BooksInv'
<1>1. {books'} \subseteq B
  OBVIOUS
<1>2. Triple(Rules, {books'}, Tail(todo), Staying(menu))
  <2>1. Staying(menu) \subseteq Staying(menu)
    OBVIOUS
  <2> QED
    BY <1>1, <2>1, TripleFits
<1>3. Triple(Rules, {books'}, todo', Staying(menu'))
  BY <1>2
<1> QED
  BY <1>3 DEF BooksInv

LEMMA BooksExecuteSimple ==
  ASSUME BooksInv, F!Execute, NEW A \in SUBSET GoodBooks, NEW B \in SUBSET GoodBooks, books \in A,
         <<A, Head(todo), B>> \in Rules0, Triple(Rules, B, Tail(todo), Staying(menu))
  PROVE  BooksInv'
<1> DEFINE a == Head(todo)
<1>1. a \in Simple /\ (F!Goes(a, live) => Does(a, books) \in B)
  BY BooksFields DEF Rules0
<1>2. a.op \in {"need", "lack", "make", "drop", "store", "forget", "apply", "destroy", "only"}
  BY <1>1, OpsDiffer
<1>3. todo # <<>> /\ menu' = menu /\ aborts' = aborts
  BY DEF F!Execute
<1>4. CASE ~ F!Goes(a, live)
  <2>1. a.op \in {"need", "lack"}
    BY <1>2, <1>4 DEF F!Goes
  <2>2. F!Refused
    BY <1>4, <2>1 DEF F!Execute, F!Now
  <2> QED
    BY <1>3, <2>2, BooksRefused
<1>5. CASE F!Goes(a, live)
  <2>1. /\ vars' = F!Stored(a, vars)
        /\ live' = F!Settled(F!Lives(a, vars, live)
                             \cup F!Brings(IF a.op = "apply" THEN {x \in F!Lives(a, vars, live) : x[1] = a.plan} ELSE {}))
        /\ todo' = Tail(todo) /\ featureCmd' = featureCmd /\ flag' = flag /\ dirty' = dirty
    BY <1>2, <1>5 DEF F!Execute, F!Now, F!Rest, F!Changed
  <2>2. books' = Does(a, books)
    BY <1>3, <2>1, BooksFields DEF Does, NextLive
  <2> QED
    BY <1>1, <1>3, <1>5, <2>1, <2>2, BooksStepped
<1> QED
  BY <1>4, <1>5

LEMMA BooksExecuteConditional ==
  ASSUME BooksInv, F!Execute, NEW A \in SUBSET GoodBooks, NEW B \in SUBSET GoodBooks, books \in A,
         <<A, Head(todo), B>> \in Rules1, Triple(Rules, B, Tail(todo), Staying(menu))
  PROVE  BooksInv'
<1> DEFINE a == Head(todo)
<1>1. /\ a \in Conditional
      /\ Triple(Rules0, {s \in A : Meets(a, s)}, a.steps, B)
      /\ {s \in A : ~ Meets(a, s)} \subseteq B
  BY DEF Rules1
<1>2. a.op \in {"stored", "there"}
  BY <1>1, OpsDiffer
<1>3. todo # <<>> /\ menu' = menu /\ aborts' = aborts
  BY DEF F!Execute
<1>4. F!Expanded(F!Inserted(a, vars, live))
  BY <1>2 DEF F!Execute, F!Now
<1>5. F!Inserted(a, vars, live) = IF Meets(a, books) THEN a.steps ELSE <<>>
  BY <1>2, BooksFields DEF F!Inserted, Meets
<1>6. Triple(Rules, {books}, F!Inserted(a, vars, live), B)
  <2>1. CASE Meets(a, books)
    <3>1. {books} \subseteq {s \in A : Meets(a, s)} /\ B \subseteq B
      BY <2>1
    <3>2. Triple(Rules0, {books}, a.steps, B)
      BY <1>1, <3>1, TripleFits
    <3>3. Triple(Rules, {books}, a.steps, B)
      BY <3>2, RulesInclude, TripleMore
    <3> QED
      BY <1>5, <2>1, <3>3
  <2>2. CASE ~ Meets(a, books)
    <3>1. {books} \subseteq B /\ {books} \in SUBSET GoodBooks
      BY <1>1, <2>2
    <3>2. Triple(Rules, {books}, <<>>, B)
      BY <3>1, Nothing
    <3> QED
      BY <1>5, <2>2, <3>2
  <2> QED
    BY <2>1, <2>2
<1> QED
  BY <1>3, <1>4, <1>6, BooksExpanded

LEMMA BooksExecuteCall ==
  ASSUME BooksInv, F!Execute, NEW A \in SUBSET GoodBooks, NEW B \in SUBSET GoodBooks, books \in A,
         <<A, Head(todo), B>> \in RulesC, Triple(Rules, B, Tail(todo), Staying(menu))
  PROVE  BooksInv'
<1> DEFINE a == Head(todo)
<1>1. a \in Calls /\ Leads(books, a, B)
  BY DEF RulesC
<1>2. a.op \in {"requirements", "require", "begin", "end", "enabled", "disabled", "drain", "hook"}
  BY <1>1, OpsDiffer
<1>3. todo # <<>> /\ menu' = menu /\ aborts' = aborts
  BY DEF F!Execute
<1>4. books \in GoodBooks /\ books \in Books /\ books.menu = menu /\ {books} \in SUBSET GoodBooks
      /\ books \in Staying(menu)
  BY BooksFields DEF BooksInv, GoodBooks, Staying
<1>5. \A f \in menu : f \in F!Features /\ (f \in Flags(books) <=> flag[f])
  BY <1>4, BooksMenu, BooksFields DEF Flags
<1>6. CASE a.op = "begin"
  <2>1. dirty' = dirty \cup {a.f} /\ todo' = Tail(todo) /\ featureCmd' = featureCmd
        /\ flag' = flag /\ vars' = vars /\ live' = live
    BY <1>6 DEF F!Execute, F!Now, F!Rest
  <2>2. books' = Dirtied(books, books.dirty \cup {a.f})
    BY <1>3, <2>1, BooksFields DEF Dirtied
  <2>3. books' \in B
    BY <1>1, <1>6, <2>2 DEF Leads
  <2> QED
    BY <1>3, <2>1, <2>3, BooksStepped
<1>7. CASE a.op = "end"
  <2>1. dirty' = dirty \ {a.f} /\ todo' = Tail(todo) /\ featureCmd' = featureCmd
        /\ flag' = flag /\ vars' = vars /\ live' = live
    BY <1>7 DEF F!Execute, F!Now, F!Rest
  <2>2. books' = Dirtied(books, books.dirty \ {a.f})
    BY <1>3, <2>1, BooksFields DEF Dirtied
  <2>3. books' \in B
    BY <1>1, <1>7, <2>2 DEF Leads
  <2> QED
    BY <1>3, <2>1, <2>3, BooksStepped
<1>8. CASE a.op \in {"enabled", "disabled"}
  <2> DEFINE value == a.op = "enabled"
  <2>1. F!Flagged(a.f, value)
    BY <1>8 DEF F!Execute, F!Now
  <2>2. flag' = [flag EXCEPT ![a.f] = value] /\ dirty' = dirty \ {a.f} /\ todo' = Tail(todo)
        /\ featureCmd' = featureCmd /\ vars' = vars /\ live' = live
    BY <2>1 DEF F!Flagged, F!Rest
  <2>3. books' = Raised(books, a.f, value, books.dirty \ {a.f})
    BY <1>3, <2>2, BooksFields DEF Raised
  <2>4. books' \in B
    <3>1. CASE a.op = "enabled"
      BY <1>1, <2>3, <3>1 DEF Leads
    <3>2. CASE a.op = "disabled"
      BY <1>1, <2>3, <3>2 DEF Leads
    <3> QED
      BY <1>8, <3>1, <3>2
  <2> QED
    BY <1>3, <2>2, <2>4, BooksStepped
<1>9. CASE a.op = "require"
  <2>1. /\ a.f \in menu /\ a.f \notin Grouped
        /\ \A r \in GoodBooks : Kept(books, r) /\ a.f \in Flags(r) => r \in B
    BY <1>1, <1>4, <1>9 DEF Leads
  <2>2. CASE flag[a.f]
    <3>1. F!Expanded(<<>>)
      BY <1>9, <2>2 DEF F!Execute, F!Now, F!Requirement
    <3>2. {books} \subseteq B
      BY <1>4, <1>5, <2>1, <2>2, KeptFacts
    <3>3. Triple(Rules, {books}, <<>>, B)
      BY <1>4, <3>2, Nothing
    <3> QED
      BY <1>3, <3>1, <3>3, BooksExpanded
  <2>3. CASE ~ flag[a.f] /\ ~ F!IsAutomatic(a.f)
    <3>1. F!Refused
      BY <1>9, <2>3 DEF F!Execute, F!Now, F!Requirement
    <3> QED
      BY <1>3, <3>1, BooksRefused
  <2>4. CASE ~ flag[a.f] /\ F!IsAutomatic(a.f)
    <3>1. F!Expanded(F!EnableFeature(a.f))
      BY <1>9, <2>4 DEF F!Execute, F!Now, F!Requirement
    <3>2. Triple(Rules, {books}, F!EnableFeature(a.f), Enabled(books, a.f))
      BY <1>4, <2>1, EnableFeatureDoes
    <3>3. Enabled(books, a.f) \subseteq B
      BY <2>1 DEF Enabled, Staying
    <3>4. Triple(Rules, {books}, F!EnableFeature(a.f), B)
      BY <3>2, <3>3, TripleFits
    <3> QED
      BY <1>3, <3>1, <3>4, BooksExpanded
  <2> QED
    BY <2>2, <2>3, <2>4
<1>10. CASE a.op = "requirements"
  <2>1. /\ a.f \in menu
        /\ \A r \in GoodBooks : Kept(books, r) /\ Req(a.f, r.live) \subseteq Flags(r) => r \in B
    BY <1>1, <1>4, <1>10 DEF Leads
  <2>2. PICK calls \in F!EnableRequirements(a.f) : F!Expanded(calls)
    BY <1>10 DEF F!Execute, F!Now
  <2>3. calls \in F!CallsOf("require", Req(a.f, books.live))
    BY <2>2, RequirementsAreReq, BooksFields DEF F!EnableRequirements
  <2>4. Triple(Rules, {books}, calls, B)
    BY <1>4, <2>1, <2>3, RequirementsDo
  <2> QED
    BY <1>3, <2>2, <2>4, BooksExpanded
<1>11. CASE a.op = "hook"
  <2>1. a.f \in menu /\ Staying(menu) \subseteq B
    BY <1>1, <1>4, <1>11 DEF Leads
  <2>2. F!Expanded(F!UpgradeHook(a.f))
    BY <1>11 DEF F!Execute, F!Now
  <2>3. {books} \subseteq Staying(menu)
    BY <1>4
  <2>4. Triple(Rules, {books}, F!UpgradeHook(a.f), B)
    BY <2>1, <2>3, HookDoes, TripleFits
  <2> QED
    BY <1>3, <2>2, <2>4, BooksExpanded
<1>12. CASE a.op = "drain"
  <2>1. a.f \in menu /\ Staying(menu) \subseteq B
    BY <1>1, <1>4, <1>12 DEF Leads
  <2>2. CASE F!Requirers(a.f) # {}
    <3>1. todo' = Append(Tail(todo), a) /\ featureCmd' = featureCmd /\ flag' = flag
          /\ vars' = vars /\ live' = live /\ dirty' = dirty
      BY <1>12, <2>2 DEF F!Execute, F!Now, F!Rest
    <3>2. books' = books
      BY <1>3, <3>1, BooksFields DEF books
    <3>3. \A s \in Staying(menu) : Leads(s, a, Staying(menu))
      BY <1>12, <2>1 DEF Leads, Staying
    <3>4. Staying(menu) \in SUBSET GoodBooks
      BY DEF Staying
    <3>5. Triple(Rules, Staying(menu), <<a>>, Staying(menu))
      BY <1>1, <3>3, <3>4, CallDoes
    <3>6. {books} \subseteq B /\ Staying(menu) \subseteq Staying(menu)
      BY <1>4, <2>1
    <3>7. Triple(Rules, {books}, Tail(todo), Staying(menu))
      BY <3>6, TripleFits
    <3>8. Triple(Rules, {books}, Tail(todo) \o <<a>>, Staying(menu))
      BY <3>5, <3>7, TripleChain
    <3>9. Append(Tail(todo), a) = Tail(todo) \o <<a>>
      <4>1. Tail(todo) \in Seq(Atoms) /\ a \in Atoms
        BY <1>1, AtomsInclude DEF Triple
      <4> QED
        BY <4>1
    <3>10. Triple(Rules, {books'}, todo', Staying(menu'))
      BY <1>3, <3>1, <3>2, <3>8, <3>9
    <3> QED
      BY <1>3, <3>1, <3>2, <3>10 DEF BooksInv
  <2>3. CASE F!Requirers(a.f) = {}
    <3>1. F!Expanded(F!DisableFeature(a.f))
      BY <1>12, <2>3 DEF F!Execute, F!Now
    <3>2. Free(a.f, books)
      <4>1. \A g \in Flags(books) : g \in menu /\ flag[g]
        BY <1>4, <1>5 DEF GoodBooks, Good
      <4>2. \A g \in menu : flag[g] => a.f \notin F!get_requirements(g)
        BY <2>3 DEF F!Requirers
      <4> QED
        BY <4>1, <4>2, RequirementsAreReq, BooksFields DEF Free
    <3>3. Triple(Rules, {books}, F!DisableFeature(a.f), Staying(menu))
      BY <1>4, <2>1, <3>2, DisableFeatureDoes
    <3>4. Triple(Rules, {books}, F!DisableFeature(a.f), B)
      <4>1. {books} \subseteq {books}
        OBVIOUS
      <4> QED
        BY <2>1, <3>3, <4>1, TripleFits
    <3> QED
      BY <1>3, <3>1, <3>4, BooksExpanded
  <2> QED
    BY <2>2, <2>3
<1> QED
  BY <1>2, <1>6, <1>7, <1>8, <1>9, <1>10, <1>11, <1>12

LEMMA BooksNext ==
  ASSUME BooksInv, F!Next
  PROVE  BooksInv'
<1>1. ASSUME F!Execute PROVE BooksInv'
  <2>1. Triple(Rules, {books}, todo, Staying(menu)) /\ todo # <<>>
    BY <1>1 DEF BooksInv, F!Execute
  <2>2. PICK A \in SUBSET GoodBooks, B \in SUBSET GoodBooks :
          {books} \subseteq A /\ <<A, Head(todo), B>> \in Rules /\ Triple(Rules, B, Tail(todo), Staying(menu))
    <3> DEFINE P == {books}
               Q == Staying(menu)
    <3>1. Triple(Rules, P, todo, Q) /\ todo # <<>>
      BY <2>1
    <3> HIDE DEF P, Q
    <3>2. \E A, B \in SUBSET GoodBooks :
            /\ P \subseteq A /\ Head(todo) \in Atoms /\ <<A, Head(todo), B>> \in Rules
            /\ Triple(Rules, B, Tail(todo), Q)
      BY <3>1, TripleHead
    <3> QED
      BY <3>2 DEF P, Q
  <2>3. books \in A
    BY <2>2
  <2> QED
    BY <1>1, <2>2, <2>3, BooksExecuteSimple, BooksExecuteConditional, BooksExecuteCall DEF Rules
<1>2. ASSUME F!Finish PROVE BooksInv'
  <2>1. /\ menu' = menu /\ flag' = flag /\ vars' = vars /\ live' = live /\ dirty' = dirty /\ aborts' = aborts
        /\ featureCmd' = "none" /\ todo' = <<>>
    BY <1>2 DEF F!Finish, F!Stop
  <2>2. books' = books
    BY <2>1, BooksFields DEF books
  <2>3. aborts' \in 0..MaxAborts
    BY <2>1 DEF BooksInv
  <2> QED
    BY <2>1, <2>2, <2>3, BooksRest
<1>3. ASSUME F!Abort PROVE BooksInv'
  <2>1. /\ menu' = menu /\ flag' = flag /\ vars' = vars /\ live' = live /\ dirty' = dirty
        /\ aborts < MaxAborts /\ aborts' = aborts + 1
        /\ featureCmd' = "none" /\ todo' = <<>>
    BY <1>3 DEF F!Abort, F!Stop
  <2>2. books' = books
    BY <2>1, BooksFields DEF books
  <2>3. aborts' \in 0..MaxAborts
    BY <2>1, AbortsAssumption DEF BooksInv
  <2> QED
    BY <2>1, <2>2, <2>3, BooksRest
<1> QED
  BY <1>1, <1>2, <1>3, BooksCommand DEF F!Next

----------------------------------------------------------------------------
(* The theorems                                                            *)

LEMMA GoodFits ==
  ASSUME books \in GoodBooks
  PROVE  F!FeaturesFit
<1>1. /\ books \in Books /\ Good(books) /\ menu \in Menus /\ menu \subseteq F!Features
      /\ live \subseteq Things
  <2>1. books \in Books /\ Good(books)
    BY DEF GoodBooks
  <2>2. menu \in Menus /\ live \subseteq Things
    BY <2>1, BooksFields DEF Books
  <2> QED
    BY <2>1, <2>2, MenusFinite
<1>2. \A f \in menu : f \in F!Features /\ (f \in Flags(books) <=> flag[f])
  BY <1>1, BooksFields DEF Flags
<1>3. F!RequirementsMet
  <2> SUFFICES ASSUME NEW f \in menu, flag[f], NEW g \in F!get_requirements(f) PROVE flag[g]
    BY DEF F!RequirementsMet
  <2>1. g \in Req(f, books.live)
    BY RequirementsAreReq, BooksFields
  <2>2. g \in Flags(books)
    BY <1>1, <1>2, <2>1 DEF Good, RequirementsRight
  <2> QED
    BY <2>2, BooksFields DEF Flags
<1>4. \A l \in Links : l[1] \in live => l[2] \in live
  <2>1. \A l \in Links : l[1] \in Used(books) => l[2] \in Provided(books)
    BY <1>1 DEF Good, Linked, LinksOf
  <2> QED
    BY <2>1, BooksFields DEF Used, Provided
<1>5. \A x \in live : Fitting(x) /\ x = <<x[1], x[2]>>
  <2>1. \A x \in live : Fitting(x)
    BY <1>1, BooksFields DEF Good, Shaped
  <2>2. \A x \in Things : x = <<x[1], x[2]>>
    BY DEF Things
  <2> QED
    BY <1>1, <2>1, <2>2
<1>6. F!ConsumersHaveProviders
  <2>1. \A o \in F!OfferedBy : << <<"hypervisor", o[1]>>, <<"openstack", o[2]>> >> \in Links
    BY DEF F!OfferedBy, Links
  <2>2. \A o \in F!OfferedBy : <<"hypervisor", o[1]>> \in live => <<"openstack", o[2]>> \in live
    BY <1>4, <2>1
  <2>3. ASSUME NEW x \in live, x[1] = "consul-client" PROVE <<"openstack", x[2]>> \in live
    <3>1. x[2] \in F!ConsulServers /\ x = <<"consul-client", x[2]>>
      BY <1>5, <2>3 DEF Fitting
    <3>2. << <<"consul-client", x[2]>>, <<"openstack", x[2]>> >> \in Links
      BY <3>1 DEF Links
    <3> QED
      BY <1>4, <3>1, <3>2
  <2>4. <<"manila-data", "manila-data">> \in live => <<"openstack", "manila">> \in live
    <3>1. << <<"manila-data", "manila-data">>, <<"openstack", "manila">> >> \in Links
      BY DEF Links
    <3> QED
      BY <1>4, <3>1
  <2>5. ASSUME NEW x \in live, x[2] = "cos_offers" PROVE <<"cos", "cos">> \in live
    <3>1. x[1] \in CosPlans /\ x = <<x[1], "cos_offers">>
      BY <1>5, <2>5 DEF Fitting
    <3>2. << <<x[1], "cos_offers">>, Stack >> \in Links
      BY <3>1 DEF Links
    <3> QED
      BY <1>4, <3>1, <3>2 DEF Stack
  <2> QED
    BY <2>2, <2>3, <2>4, <2>5 DEF F!ConsumersHaveProviders
<1>7. F!OneProvider
  <2> SUFFICES ASSUME NEW f \in menu, NEW g \in menu, F!Group(f) = F!Group(g), f # g,
                      flag[f], flag[g], f \notin dirty, g \notin dirty
               PROVE  FALSE
    BY DEF F!OneProvider
  <2>1. f \in F!Features /\ g \in F!Features
    BY <1>2
  <2>2. f \in F!Group(f) /\ g \in F!Group(g)
    <3>1. \A h \in F!Features : h \in F!Group(h)
      BY GroupFacts
    <3> QED
      BY <2>1, <3>1
  <2>3. f \in Grouped
    <3>1. f \notin Grouped => F!Group(f) = {f}
      BY <2>1, GroupFacts
    <3> QED
      BY <2>2, <3>1
  <2>4. RowsRight(books) /\ books.flag[f] /\ books.flag[g] /\ f \notin books.dirty /\ g \notin books.dirty
    BY <1>1, BooksFields DEF Good
  <2>5. (<<"db", g>> \in books.live) <=> (g = f)
    BY <2>1, <2>2, <2>3, <2>4, RowsOfGroup
  <2>6. (<<"db", g>> \in books.live) <=> (g = g)
    BY <2>1, <2>2, <2>3, <2>4, RowsOfGroup
  <2> QED
    BY <2>5, <2>6
<1>8. F!AmphoraServed
  <2> SUFFICES ASSUME Amphora \in live, "amphora" \notin dirty, NEW y \in AmphoraNeeds PROVE y \in live
    BY DEF F!AmphoraServed, Amphora, AmphoraNeeds
  <2>1. <<Amphora, y>> \in LinksOf(books) /\ Amphora \in Used(books)
    BY BooksFields DEF LinksOf, AmphoraLinks, Used
  <2>2. y \in Provided(books)
    BY <1>1, <2>1 DEF Good, Linked
  <2> QED
    BY <2>2, BooksFields DEF Provided
<1> QED
  BY <1>3, <1>6, <1>7, <1>8 DEF F!FeaturesFit

LEMMA BooksTypes ==
  ASSUME BooksInv
  PROVE  F!TypeOK
<1>1. books \in Books /\ Good(books)
  BY DEF BooksInv, GoodBooks
<1>2. menu \in Menus /\ flag \in [F!Features -> BOOLEAN] /\ vars \subseteq Things /\ live \subseteq Things
  BY <1>1, BooksFields DEF Books
<1>3. \A x \in Things : Len(x) = 2
  BY DEF Things
<1>4. dirty \subseteq menu \cup {"amphora"}
  BY <1>1, BooksFields DEF Good
<1> QED
  BY <1>2, <1>3, <1>4 DEF BooksInv, CommandNames, F!TypeOK

PartInv == Lifecycle => BooksInv

LEMMA PartStart == PartInit => PartInv /\ Init
BY BooksStart DEF PartInit, PartInv, Lifecycle, Maintenance

LEMMA PartStep ==
  ASSUME PartInv, [PartNext]_<<part, lvars, mvars>>
  PROVE  PartInv' /\ [Next]_mvars
<1>1. CASE PartNext
  <2>1. part' = part
    BY <1>1 DEF PartNext
  <2>2. CASE Lifecycle /\ F!Next /\ UNCHANGED mvars
    <3>1. BooksInv /\ F!Next
      BY <2>2 DEF PartInv
    <3> QED
      BY <2>2, <3>1, BooksNext DEF PartInv
  <2>3. CASE Maintenance /\ Next /\ UNCHANGED lvars
    <3>1. ~ Lifecycle'
      BY <2>1, <2>3 DEF Lifecycle, Maintenance
    <3> QED
      BY <2>3, <3>1 DEF PartInv
  <2> QED
    BY <1>1, <2>2, <2>3 DEF PartNext
<1>2. CASE UNCHANGED <<part, lvars, mvars>>
  <2>1. menu' = menu /\ flag' = flag /\ vars' = vars /\ live' = live /\ dirty' = dirty /\ aborts' = aborts
        /\ featureCmd' = featureCmd /\ todo' = todo /\ part' = part /\ UNCHANGED mvars
    BY <1>2 DEF lvars
  <2>2. books' = books
    BY <2>1, BooksFields DEF books
  <2> QED
    BY <2>1, <2>2 DEF PartInv, BooksInv, Lifecycle
<1> QED
  BY <1>1, <1>2

\* Both parts keep their types, however many commands fail or are killed.
THEOREM PartsHaveTheirTypes == PartSpec => []PartTypeOK
<1>1. PartInit => PartInv /\ TypeInv
  BY PartStart, TypeInit
<1>2. PartInv /\ TypeInv /\ [PartNext]_<<part, lvars, mvars>> => PartInv' /\ TypeInv'
  BY PartStep, TypeStep
<1>3. PartInv /\ TypeInv => PartTypeOK
  BY BooksTypes DEF PartInv, TypeInv, PartTypeOK
<1> QED
  BY <1>1, <1>2, <1>3, PTL DEF PartSpec

\* Whatever commands are given, fail or are killed between any two of their atoms: an
\* enabled feature has its requirements enabled, what consumes an offer or a server of
\* another plan does not outlive it, a group has one provider, and Octavia is configured
\* for Amphora only with its network.
THEOREM FeaturesFitTogether == PartSpec => []FeaturesFit
<1>1. PartInit => PartInv
  BY PartStart
<1>2. PartInv /\ [PartNext]_<<part, lvars, mvars>> => PartInv'
  BY PartStep
<1>3. PartInv => FeaturesFit
  BY GoodFits DEF PartInv, BooksInv, FeaturesFit
<1> QED
  BY <1>1, <1>2, <1>3, PTL DEF PartSpec
=============================================================================
