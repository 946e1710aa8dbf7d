---------------------- MODULE ClusterMembershipProofs ----------------------
(***************************************************************************)
(* Proofs about ClusterMembership, for any nodes, sessions and failures,   *)
(* and, at the end, about the removals of MCClusterMembership.             *)
(*                                                                         *)
(* RowsAreMembers is not inductive: that `cluster remove` may delete a     *)
(* member depends on the row not coming back after remove_node_info, and   *)
(* that a join may add a row on the member still being there.  IInv adds   *)
(* what is true in the middle of the two commands.                         *)
(***************************************************************************)
EXTENDS MCClusterMembership, TLAPS

\* A session about to remove a member has deleted its row, and the node is
\* not about to add it again.
Removing ==
  \A a \in Admins : apc[a] = "rmMember" =>
    /\ target[a] \in members
    /\ target[a] \notin rows
    /\ npc[target[a]] \notin {"initRow", "joinRow"}

\* Only one session at a time is that far with a node.
OneRemover ==
  \A a, b \in Admins :
    apc[a] = "rmMember" /\ apc[b] = "rmMember" /\ target[a] = target[b] => a = b

\* A node becomes a member by its own command only.
Joining == \A n \in Nodes : npc[n] \in {"init", "join"} => n \notin members

\* Only the seed runs bootstrap.
Deploying == \A n \in Nodes : npc[n] \in {"init", "initRow", "deploy"} => n = Seed

\* A node that is about to add its row is a member that has none.
Adding ==
  \A n \in Nodes : npc[n] \in {"initRow", "joinRow"} => n \in members /\ n \notin rows

IInv ==
  TypeOK /\ RowsAreMembers /\ Removing /\ OneRemover /\ Joining /\ Deploying /\ Adding

-----------------------------------------------------------------------------
\* The commands of a node keep the types.
LEMMA NodeTypeOK ==
  ASSUME TypeOK, NEW n \in Nodes, NodeStep(n)
  PROVE  TypeOK'
<1>1. CASE InitCheck(n)
  BY <1>1 DEF InitCheck, NodeGoto, dbVars, jujuVars, nodeVars, adminVars, TypeOK,
       NodePCs, AdminPCs, Secrets
<1>2. CASE BootstrapCluster(n)
  BY <1>2 DEF BootstrapCluster, NodeGoto, dbVars, jujuVars, nodeVars, adminVars,
       TypeOK, NodePCs, AdminPCs, Secrets
<1>3. CASE DeployController(n)
  BY <1>3 DEF DeployController, NodeGoto, dbVars, jujuVars, nodeVars, adminVars,
       TypeOK, NodePCs, AdminPCs, Secrets
<1>4. CASE JoinCheck(n)
  BY <1>4 DEF JoinCheck, NodeGoto, dbVars, jujuVars, nodeVars, adminVars, TypeOK,
       NodePCs, AdminPCs, Secrets
<1>5. CASE JoinCluster(n)
  BY <1>5 DEF JoinCluster, NodeGoto, dbVars, jujuVars, nodeVars, adminVars, TypeOK,
       NodePCs, AdminPCs, Secrets
<1>6. CASE AddNodeInfo(n)
  BY <1>6 DEF AddNodeInfo, NodeGoto, dbVars, jujuVars, nodeVars, adminVars, TypeOK,
       NodePCs, AdminPCs, Secrets
<1>7. CASE RegisterCheck(n)
  BY <1>7 DEF RegisterCheck, NodeGoto, dbVars, jujuVars, nodeVars, adminVars,
       TypeOK, NodePCs, AdminPCs, Secrets
<1>8. CASE Register(n)
  BY <1>8 DEF Register, NodeGoto, dbVars, jujuVars, nodeVars, adminVars, TypeOK,
       NodePCs, AdminPCs, Secrets
<1>9. CASE UpdateNodeInfo(n)
  BY <1>9 DEF UpdateNodeInfo, NodeGoto, dbVars, jujuVars, nodeVars, adminVars,
       TypeOK, NodePCs, AdminPCs, Secrets
<1>10. CASE NodeAbort(n)
  BY <1>10 DEF NodeAbort, NodeGoto, dbVars, jujuVars, nodeVars, adminVars, TypeOK,
       NodePCs, AdminPCs, Secrets
<1>11. CASE Reuse(n)
  BY <1>11 DEF Reuse, NodeGoto, dbVars, jujuVars, nodeVars, adminVars, TypeOK,
       NodePCs, AdminPCs, Secrets
<1>12. QED BY <1>1, <1>2, <1>3, <1>4, <1>5, <1>6, <1>7, <1>8, <1>9,
          <1>10, <1>11 DEF NodeStep

\* So does `cluster add` ...
LEMMA AddTypeOK ==
  ASSUME TypeOK, NEW a \in Admins, AddStep(a)
  PROVE  TypeOK'
<1>1. CASE CheckMember(a)
  BY <1>1 DEF CheckMember, Goto, dbVars, jujuVars, nodeVars, adminVars, TypeOK,
       NodePCs, AdminPCs, Secrets
<1>2. CASE CheckToken(a)
  BY <1>2 DEF CheckToken, Goto, dbVars, jujuVars, nodeVars, adminVars, TypeOK,
       NodePCs, AdminPCs, Secrets
<1>3. CASE GenerateToken(a)
  BY <1>3 DEF GenerateToken, Goto, dbVars, jujuVars, nodeVars, adminVars, TypeOK,
       NodePCs, AdminPCs, Secrets
<1>4. CASE CreateCheck(a)
  BY <1>4 DEF CreateCheck, Goto, dbVars, jujuVars, nodeVars, adminVars, TypeOK,
       NodePCs, AdminPCs, Secrets
<1>5. CASE CreateUser(a)
  <2>1. CASE Issue(a)
    <3>1. issued[target[a]] + 1 \in Secrets /\ a \in DOMAIN secret
      BY <2>1, SecretsAssumption DEF Issue, TypeOK, Secrets
    <3>2. issued' \in [Nodes -> Secrets] /\ live' \in [Nodes -> BOOLEAN]
          /\ secret' \in [Admins -> Secrets]
      BY <2>1, <3>1 DEF Issue, TypeOK
    <3>3. apc' \in [Admins -> AdminPCs]
      BY <1>5 DEF CreateUser, Goto, TypeOK, AdminPCs
    <3>4. QED BY <1>5, <3>2, <3>3 DEF CreateUser, dbVars, nodeVars, TypeOK
  <2>2. CASE UNCHANGED <<issued, live, secret>>
    BY <1>5, <2>2 DEF CreateUser, Goto, dbVars, nodeVars, TypeOK, AdminPCs
  <2>3. QED BY <1>5, <2>1, <2>2 DEF CreateUser
<1>6. CASE Grant(a)
  BY <1>6 DEF Grant, Goto, dbVars, jujuVars, nodeVars, adminVars, TypeOK, NodePCs,
       AdminPCs, Secrets
<1>7. CASE Choose(a)
  BY <1>7 DEF Choose, Goto, dbVars, jujuVars, nodeVars, adminVars, TypeOK, NodePCs,
       AdminPCs, Secrets
<1>8. CASE ResetUser(a)
  BY <1>8, SecretsAssumption DEF ResetUser, Goto, Issue, dbVars, jujuVars, nodeVars,
       adminVars, TypeOK, NodePCs, AdminPCs, Secrets
<1>9. CASE AddUserCheck(a)
  BY <1>9 DEF AddUserCheck, Goto, dbVars, jujuVars, nodeVars, adminVars, TypeOK,
       NodePCs, AdminPCs, Secrets
<1>10. CASE AddJujuUser(a)
  BY <1>10 DEF AddJujuUser, Goto, dbVars, jujuVars, nodeVars, adminVars, TypeOK,
       NodePCs, AdminPCs, Secrets
<1>11. CASE UpdateUserCheck(a)
  BY <1>11 DEF UpdateUserCheck, Goto, dbVars, jujuVars, nodeVars, adminVars, TypeOK,
       NodePCs, AdminPCs, Secrets
<1>12. CASE UpdateJujuUser(a)
  BY <1>12 DEF UpdateJujuUser, Goto, dbVars, jujuVars, nodeVars, adminVars, TypeOK,
       NodePCs, AdminPCs, Secrets
<1>13. QED BY <1>1, <1>2, <1>3, <1>4, <1>5, <1>6, <1>7, <1>8, <1>9,
          <1>10, <1>11, <1>12 DEF AddStep

\* ... and `cluster remove`, and the end of both ...
LEMMA RemoveTypeOK ==
  ASSUME TypeOK, NEW a \in Admins, RemoveStep(a) \/ Finish(a) \/ AdminAbort(a)
  PROVE  TypeOK'
<1>1. CASE Prompt(a)
  BY <1>1 DEF Prompt, Goto, dbVars, jujuVars, nodeVars, adminVars, TypeOK, NodePCs,
       AdminPCs, Secrets
<1>2. CASE PromptToken(a)
  BY <1>2 DEF PromptToken, Goto, dbVars, jujuVars, nodeVars, adminVars, TypeOK,
       NodePCs, AdminPCs, Secrets
<1>3. CASE RemoveCheck(a)
  BY <1>3 DEF RemoveCheck, Goto, dbVars, jujuVars, nodeVars, adminVars, TypeOK,
       NodePCs, AdminPCs, Secrets
<1>4. CASE RemoveRow(a)
  BY <1>4 DEF RemoveRow, Goto, dbVars, jujuVars, nodeVars, adminVars, TypeOK,
       NodePCs, AdminPCs, Secrets
<1>5. CASE RemoveMember(a)
  BY <1>5 DEF RemoveMember, Goto, dbVars, jujuVars, nodeVars, adminVars, TypeOK,
       NodePCs, AdminPCs, Secrets
<1>6. CASE RemoveToken(a)
  BY <1>6 DEF RemoveToken, Goto, dbVars, jujuVars, nodeVars, adminVars, TypeOK,
       NodePCs, AdminPCs, Secrets
<1>7. CASE Finish(a)
  BY <1>7 DEF Finish, Goto, dbVars, jujuVars, nodeVars, adminVars, TypeOK, NodePCs,
       AdminPCs, Secrets
<1>8. CASE AdminAbort(a)
  BY <1>8 DEF AdminAbort, Goto, dbVars, jujuVars, nodeVars, adminVars, TypeOK,
       NodePCs, AdminPCs, Secrets
<1>9. QED BY <1>1, <1>2, <1>3, <1>4, <1>5, <1>6, <1>7, <1>8 DEF RemoveStep

\* ... and their start.
LEMMA StartTypeOK ==
  ASSUME TypeOK, NEW a \in Admins, NEW n \in Nodes, StartAdd(a, n) \/ StartRemove(a, n)
  PROVE  TypeOK'
<1>1. PICK to \in {"members", "prompt", "rmMembers"} : Start(a, n, to)
  BY DEF StartAdd, StartRemove
<1>2. QED BY <1>1, SecretsAssumption DEF Start, Goto, dbVars, jujuVars, nodeVars,
     adminVars, TypeOK, NodePCs, AdminPCs, Secrets

-----------------------------------------------------------------------------
\* Every value that a command keeps or a call writes has its type, whichever
\* commands interleave and wherever they fail.
THEOREM TypeCorrect == Spec => []TypeOK
<1>1. Init => TypeOK
  BY SeedAssumption, SecretsAssumption DEF Init, TypeOK, NodePCs, AdminPCs, Secrets
<1>2. TypeOK /\ [Next]_vars => TypeOK'
  <2>1. SUFFICES ASSUME TypeOK, [Next]_vars PROVE TypeOK'
    OBVIOUS
  <2>2. CASE Next
    BY <2>1, <2>2, NodeTypeOK, AddTypeOK, RemoveTypeOK, StartTypeOK DEF Next
  <2>3. CASE UNCHANGED vars
    BY <2>1, <2>3 DEF vars, dbVars, jujuVars, nodeVars, adminVars, TypeOK
  <2>4. QED BY <2>1, <2>2, <2>3
<1>3. QED BY <1>1, <1>2, PTL DEF Spec

-----------------------------------------------------------------------------
\* A join makes a member first and its row second: each command of a node
\* keeps the invariant.
LEMMA NodeRows ==
  ASSUME IInv, NEW n \in Nodes, NodeStep(n)
  PROVE  RowsAreMembers' /\ Removing' /\ OneRemover' /\ Joining' /\ Deploying' /\ Adding'
<1>1. CASE InitCheck(n)
  BY <1>1 DEF InitCheck, NodeGoto, dbVars, jujuVars, nodeVars, adminVars, TypeOK,
       RowsAreMembers, Removing, OneRemover, Joining, Deploying, Adding, IInv
<1>2. CASE BootstrapCluster(n)
  BY <1>2 DEF BootstrapCluster, NodeGoto, dbVars, jujuVars, nodeVars, adminVars,
       TypeOK, RowsAreMembers, Removing, OneRemover, Joining, Deploying, Adding,
       IInv
<1>3. CASE DeployController(n)
  BY <1>3 DEF DeployController, NodeGoto, dbVars, jujuVars, nodeVars, adminVars,
       TypeOK, RowsAreMembers, Removing, OneRemover, Joining, Deploying, Adding,
       IInv
<1>4. CASE JoinCheck(n)
  BY <1>4 DEF JoinCheck, NodeGoto, dbVars, jujuVars, nodeVars, adminVars, TypeOK,
       RowsAreMembers, Removing, OneRemover, Joining, Deploying, Adding, IInv
<1>5. CASE JoinCluster(n)
  BY <1>5 DEF JoinCluster, NodeGoto, dbVars, jujuVars, nodeVars, adminVars, TypeOK,
       RowsAreMembers, Removing, OneRemover, Joining, Deploying, Adding, IInv
<1>6. CASE AddNodeInfo(n)
  BY <1>6 DEF AddNodeInfo, NodeGoto, dbVars, jujuVars, nodeVars, adminVars, TypeOK,
       RowsAreMembers, Removing, OneRemover, Joining, Deploying, Adding, IInv
<1>7. CASE RegisterCheck(n)
  BY <1>7 DEF RegisterCheck, NodeGoto, dbVars, jujuVars, nodeVars, adminVars,
       TypeOK, RowsAreMembers, Removing, OneRemover, Joining, Deploying, Adding,
       IInv
<1>8. CASE Register(n)
  BY <1>8 DEF Register, NodeGoto, dbVars, jujuVars, nodeVars, adminVars, TypeOK,
       RowsAreMembers, Removing, OneRemover, Joining, Deploying, Adding, IInv
<1>9. CASE UpdateNodeInfo(n)
  BY <1>9 DEF UpdateNodeInfo, NodeGoto, dbVars, jujuVars, nodeVars, adminVars,
       TypeOK, RowsAreMembers, Removing, OneRemover, Joining, Deploying, Adding,
       IInv
<1>10. CASE NodeAbort(n)
  BY <1>10 DEF NodeAbort, NodeGoto, dbVars, jujuVars, nodeVars, adminVars, TypeOK,
       RowsAreMembers, Removing, OneRemover, Joining, Deploying, Adding, IInv
<1>11. CASE Reuse(n)
  BY <1>11 DEF Reuse, NodeGoto, dbVars, jujuVars, nodeVars, adminVars, TypeOK,
       RowsAreMembers, Removing, OneRemover, Joining, Deploying, Adding, IInv
<1>12. QED BY <1>1, <1>2, <1>3, <1>4, <1>5, <1>6, <1>7, <1>8, <1>9,
          <1>10, <1>11 DEF NodeStep

\* `cluster add` touches neither members nor rows.
LEMMA AddRows ==
  ASSUME IInv, NEW a \in Admins, AddStep(a)
  PROVE  RowsAreMembers' /\ Removing' /\ OneRemover' /\ Joining' /\ Deploying' /\ Adding'
<1>1. CASE CheckMember(a)
  BY <1>1 DEF CheckMember, Goto, dbVars, jujuVars, nodeVars, adminVars, TypeOK,
       RowsAreMembers, Removing, OneRemover, Joining, Deploying, Adding, IInv
<1>2. CASE CheckToken(a)
  BY <1>2 DEF CheckToken, Goto, dbVars, jujuVars, nodeVars, adminVars, TypeOK,
       RowsAreMembers, Removing, OneRemover, Joining, Deploying, Adding, IInv
<1>3. CASE GenerateToken(a)
  BY <1>3 DEF GenerateToken, Goto, dbVars, jujuVars, nodeVars, adminVars, TypeOK,
       RowsAreMembers, Removing, OneRemover, Joining, Deploying, Adding, IInv
<1>4. CASE CreateCheck(a)
  BY <1>4 DEF CreateCheck, Goto, dbVars, jujuVars, nodeVars, adminVars, TypeOK,
       RowsAreMembers, Removing, OneRemover, Joining, Deploying, Adding, IInv
<1>5. CASE CreateUser(a)
  BY <1>5, SecretsAssumption DEF CreateUser, Goto, Issue, dbVars, jujuVars,
       nodeVars, adminVars, TypeOK, RowsAreMembers, Removing, OneRemover, Joining,
       Deploying, Adding, IInv
<1>6. CASE Grant(a)
  BY <1>6 DEF Grant, Goto, dbVars, jujuVars, nodeVars, adminVars, TypeOK,
       RowsAreMembers, Removing, OneRemover, Joining, Deploying, Adding, IInv
<1>7. CASE Choose(a)
  BY <1>7 DEF Choose, Goto, dbVars, jujuVars, nodeVars, adminVars, TypeOK,
       RowsAreMembers, Removing, OneRemover, Joining, Deploying, Adding, IInv
<1>8. CASE ResetUser(a)
  BY <1>8, SecretsAssumption DEF ResetUser, Goto, Issue, dbVars, jujuVars, nodeVars,
       adminVars, TypeOK, RowsAreMembers, Removing, OneRemover, Joining, Deploying,
       Adding, IInv
<1>9. CASE AddUserCheck(a)
  BY <1>9 DEF AddUserCheck, Goto, dbVars, jujuVars, nodeVars, adminVars, TypeOK,
       RowsAreMembers, Removing, OneRemover, Joining, Deploying, Adding, IInv
<1>10. CASE AddJujuUser(a)
  BY <1>10 DEF AddJujuUser, Goto, dbVars, jujuVars, nodeVars, adminVars, TypeOK,
       RowsAreMembers, Removing, OneRemover, Joining, Deploying, Adding, IInv
<1>11. CASE UpdateUserCheck(a)
  BY <1>11 DEF UpdateUserCheck, Goto, dbVars, jujuVars, nodeVars, adminVars, TypeOK,
       RowsAreMembers, Removing, OneRemover, Joining, Deploying, Adding, IInv
<1>12. CASE UpdateJujuUser(a)
  BY <1>12 DEF UpdateJujuUser, Goto, dbVars, jujuVars, nodeVars, adminVars, TypeOK,
       RowsAreMembers, Removing, OneRemover, Joining, Deploying, Adding, IInv
<1>13. QED BY <1>1, <1>2, <1>3, <1>4, <1>5, <1>6, <1>7, <1>8, <1>9,
          <1>10, <1>11, <1>12 DEF AddStep

\* A removal deletes the row first and the member second.
LEMMA RemoveRows ==
  ASSUME IInv, NEW a \in Admins, RemoveStep(a) \/ Finish(a) \/ AdminAbort(a)
  PROVE  RowsAreMembers' /\ Removing' /\ OneRemover' /\ Joining' /\ Deploying' /\ Adding'
<1>1. CASE Prompt(a)
  BY <1>1 DEF Prompt, Goto, dbVars, jujuVars, nodeVars, adminVars, TypeOK,
       RowsAreMembers, Removing, OneRemover, Joining, Deploying, Adding, IInv
<1>2. CASE PromptToken(a)
  BY <1>2 DEF PromptToken, Goto, dbVars, jujuVars, nodeVars, adminVars, TypeOK,
       RowsAreMembers, Removing, OneRemover, Joining, Deploying, Adding, IInv
<1>3. CASE RemoveCheck(a)
  BY <1>3 DEF RemoveCheck, Goto, dbVars, jujuVars, nodeVars, adminVars, TypeOK,
       RowsAreMembers, Removing, OneRemover, Joining, Deploying, Adding, IInv
<1>4. CASE RemoveRow(a)
  BY <1>4 DEF RemoveRow, Goto, dbVars, jujuVars, nodeVars, adminVars, TypeOK,
       RowsAreMembers, Removing, OneRemover, Joining, Deploying, Adding, IInv
<1>5. CASE RemoveMember(a)
  BY <1>5 DEF RemoveMember, Goto, dbVars, jujuVars, nodeVars, adminVars, TypeOK,
       RowsAreMembers, Removing, OneRemover, Joining, Deploying, Adding, IInv
<1>6. CASE RemoveToken(a)
  BY <1>6 DEF RemoveToken, Goto, dbVars, jujuVars, nodeVars, adminVars, TypeOK,
       RowsAreMembers, Removing, OneRemover, Joining, Deploying, Adding, IInv
<1>7. CASE Finish(a)
  BY <1>7 DEF Finish, Goto, dbVars, jujuVars, nodeVars, adminVars, TypeOK,
       RowsAreMembers, Removing, OneRemover, Joining, Deploying, Adding, IInv
<1>8. CASE AdminAbort(a)
  BY <1>8 DEF AdminAbort, Goto, dbVars, jujuVars, nodeVars, adminVars, TypeOK,
       RowsAreMembers, Removing, OneRemover, Joining, Deploying, Adding, IInv
<1>9. QED BY <1>1, <1>2, <1>3, <1>4, <1>5, <1>6, <1>7, <1>8 DEF RemoveStep

\* A session starts away from the critical part of a removal.
LEMMA StartRows ==
  ASSUME IInv, NEW a \in Admins, NEW n \in Nodes, StartAdd(a, n) \/ StartRemove(a, n)
  PROVE  RowsAreMembers' /\ Removing' /\ OneRemover' /\ Joining' /\ Deploying' /\ Adding'
<1>1. PICK to \in {"members", "prompt", "rmMembers"} : Start(a, n, to)
  BY DEF StartAdd, StartRemove
<1>2. QED BY <1>1, SecretsAssumption DEF Start, Goto, dbVars, jujuVars, nodeVars,
     adminVars, TypeOK, RowsAreMembers, Removing, OneRemover, Joining, Deploying,
     Adding, IInv

-----------------------------------------------------------------------------
\* The invariant holds in every state.
LEMMA Inductive == Spec => []IInv
<1>1. Init => IInv
  <2>1. SUFFICES ASSUME Init PROVE IInv
    OBVIOUS
  <2>2. TypeOK
    BY <2>1, SeedAssumption, SecretsAssumption
    DEF Init, TypeOK, NodePCs, AdminPCs, Secrets
  <2>3. RowsAreMembers /\ Removing /\ OneRemover /\ Joining /\ Deploying /\ Adding
    BY <2>1 DEF Init, RowsAreMembers, Removing, OneRemover, Joining, Deploying, Adding
  <2>4. QED BY <2>2, <2>3 DEF IInv
<1>2. IInv /\ [Next]_vars => IInv'
  <2>1. SUFFICES ASSUME IInv, [Next]_vars PROVE IInv'
    OBVIOUS
  <2>2. TypeOK
    BY <2>1 DEF IInv
  <2>3. CASE Next
    <3>1. TypeOK'
      BY <2>2, <2>3, NodeTypeOK, AddTypeOK, RemoveTypeOK, StartTypeOK DEF Next
    <3>2. RowsAreMembers' /\ Removing' /\ OneRemover' /\ Joining' /\ Deploying' /\ Adding'
      BY <2>1, <2>3, NodeRows, AddRows, RemoveRows, StartRows DEF Next
    <3>3. QED BY <3>1, <3>2 DEF IInv
  <2>4. CASE UNCHANGED vars
    BY <2>1, <2>4 DEF vars, dbVars, jujuVars, nodeVars, adminVars, IInv, TypeOK,
       RowsAreMembers, Removing, OneRemover, Joining, Deploying, Adding
  <2>5. QED BY <2>1, <2>3, <2>4
<1>3. QED BY <1>1, <1>2, PTL DEF Spec

\* No node row outlives the membership of its node: with any number of
\* sessions that add and remove any nodes, and commands that stop anywhere,
\* the order of the calls keeps the foreign key of the table nodes.
THEOREM RowsStayMembers == Spec => []RowsAreMembers
<1>1. IInv => RowsAreMembers
  BY DEF IInv
<1>2. QED BY <1>1, Inductive, PTL

\* A join that reports success has its row and its membership at that moment.
THEOREM JoinsAreRegistered == Spec => JoinedIsRegistered
<1>1. IInv /\ [Next]_vars
        => [\A n \in Nodes \ {Seed} :
              npc'[n] = "joined" /\ npc[n] # "joined" => n \in rows /\ n \in members]_vars
  <2>1. SUFFICES ASSUME IInv, Next, NEW n \in Nodes \ {Seed},
                        npc'[n] = "joined", npc[n] # "joined"
                 PROVE  n \in rows /\ n \in members
    OBVIOUS
  <2>2. TypeOK /\ RowsAreMembers /\ Deploying
    BY <2>1 DEF IInv
  <2>3. PICK m \in Nodes : NodeStep(m)
    BY <2>1, <2>2 DEF Next, StartAdd, StartRemove, Start, AddStep, RemoveStep,
         Finish, AdminAbort,
       CheckMember, CheckToken, GenerateToken, CreateCheck, CreateUser, Grant, Choose,
       ResetUser, AddUserCheck, AddJujuUser, UpdateUserCheck, UpdateJujuUser,
       Prompt, PromptToken, RemoveCheck, RemoveRow, RemoveMember, RemoveToken, nodeVars
  <2>4. UpdateNodeInfo(n) \/ DeployController(n)
    BY <2>1, <2>2, <2>3 DEF TypeOK, NodeStep, NodeGoto, InitCheck, BootstrapCluster,
       DeployController, JoinCheck, JoinCluster, AddNodeInfo, RegisterCheck, Register,
       UpdateNodeInfo, NodeAbort, Reuse
  <2>5. n \in rows
    BY <2>1, <2>2, <2>4 DEF UpdateNodeInfo, DeployController, Deploying, NodeGoto, TypeOK
  <2>6. QED BY <2>2, <2>5 DEF RowsAreMembers
<1>2. QED BY <1>1, Inductive, PTL DEF Spec, JoinedIsRegistered

-----------------------------------------------------------------------------
(* Removals that fail while other nodes join: the part "nodes"             *)

\* What MachineUnitsProofs assumes holds of the nodes, the roles and the session.
LEMMA NodesInstance ==
  /\ MaxMachines \in Nat \ {0} /\ Replicas \in Nat \ {0}
  /\ "node" \in {"all", "node", "none"} /\ "node" # "none" /\ ~FALSE
  /\ {"microovn"} \subseteq N!AllApps
  /\ Compute \in [{s, n1, n2} -> SUBSET N!AllRoles]
  /\ {s, n1, n2} \cap {c} = {} /\ {c} \cap {s, n1, n2} \subseteq {Seed}
  /\ Seed \in {s, n1, n2} /\ None \notin {s, n1, n2} \cup {c}
BY NodesAssumption DEF N!AllApps, N!AllRoles, Compute

\* A node that `cluster remove` reports as removed has left no row in clusterd
\* and no machine in Juju, while two other nodes join and removals, with --force
\* too, fail or are killed: LeaveInv, which MachineUnitsProofs shows inductive,
\* in the part "nodes".
THEOREM RemovedLeaveNothing == PartSpec => []NodesLeaveNothing
<1> DEFINE Inv == part = "nodes" => N!LeaveInv
<1>1. PartInit => Inv
  <2>1. N!Init => N!LeaveInv
    BY N!LeaveInit, NodesInstance, Zenon
  <2> QED
    BY <2>1 DEF PartInit
<1>2. Inv /\ [PartNext]_<<part, vars, uvars>> => Inv'
  <2> SUFFICES ASSUME N!LeaveInv, [PartNext]_<<part, vars, uvars>>, part = "nodes"
               PROVE  N!LeaveInv'
    BY DEF PartNext
  <2>1. N!Next \/ UNCHANGED uvars
    BY DEF PartNext
  <2>2. [N!Next]_N!vars
    BY <2>1 DEF uvars, N!vars, N!rowVars, N!planVars, N!jujuVars, N!endpointVars, N!procVars,
         N!history
  <2> QED
    BY <2>2, N!LeaveStep, NodesInstance, Zenon
<1>3. Inv => NodesLeaveNothing
  BY DEF NodesLeaveNothing, N!LeaveInv, N!Gone, N!NoMachineOf, N!RemovedLeavesNothing
<1> QED
  BY <1>1, <1>2, <1>3, PTL DEF PartSpec
=============================================================================
