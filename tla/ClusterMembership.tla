------------------------- MODULE ClusterMembership -------------------------
(***************************************************************************)
(* Who belongs to a cluster: the members and the join tokens that          *)
(* microcluster keeps, the node rows and the Juju user rows that clusterd  *)
(* keeps, and the users of the Juju controller, under the commands         *)
(* `sunbeam cluster bootstrap`, `add`, `join` and `remove`.                *)
(*                                                                         *)
(* A command is a sequence of remote calls, and each call is an action: a  *)
(* command may fail or be killed between any two of them, be run again,    *)
(* and interleave with the commands of other operators and nodes.  The     *)
(* foreign key of the node rows is deliberately not modelled:              *)
(* RowsAreMembers shows that the order of the calls keeps it by itself.    *)
(***************************************************************************)
EXTENDS Naturals

CONSTANTS
  Nodes,       \* the machines
  Seed,        \* the machine that bootstraps the cluster
  Admins,      \* the sessions that run `cluster add` and `cluster remove`
  Fallible,    \* the sessions and machines whose command may fail or be killed
  MaxSecrets   \* bound: registration secrets Juju issues for a user

ASSUME SeedAssumption == Seed \in Nodes
ASSUME SecretsAssumption == MaxSecrets \in Nat

VARIABLES
  members,     \* core_cluster_members: the nodes in the cluster
  tokens,      \* internal_token_records: the nodes a join token exists for
  rows,        \* the table nodes
  userRows,    \* the table jujuuser: the users in it ...
  rowToken,    \* ... and the secret in the row of each; 0 is the empty string
  issued,      \* Juju: the last secret issued for a user; 0: there is no user
  live,        \* Juju: that secret has not been used to register yet
  registered,  \* the nodes logged in to the Juju controller as their user
  npc,         \* where the bootstrap or join command of a node is
  nsecret,     \* the secret that command read
  apc,         \* where the command of an admin session is
  target,      \* the node that command is about
  added,       \* result of its ClusterAddNodeStep
  secret       \* message of its CreateJujuUserStep or ResetJujuUserStep

dbVars == <<members, tokens, rows, userRows, rowToken>>
jujuVars == <<issued, live, registered>>
nodeVars == <<npc, nsecret>>
adminVars == <<apc, target, added, secret>>
vars == <<dbVars, jujuVars, nodeVars, adminVars>>

NodePCs == {"idle", "init", "initRow", "deploy", "joinCheck", "join",
            "joinRow", "registerCheck", "register", "update", "joined"}

AdminPCs == {"idle", "members", "tokens", "generate", "createCheck", "create",
             "grant", "choose", "reset", "addCheck", "addUser", "updateCheck",
             "updateUser", "printed", "prompt", "promptToken", "rmMembers",
             "rmRow", "rmMember", "rmToken", "removed"}

Secrets == 0..MaxSecrets

TypeOK ==
  /\ members \subseteq Nodes
  /\ tokens \subseteq Nodes
  /\ rows \subseteq Nodes
  /\ userRows \subseteq Nodes
  /\ registered \subseteq Nodes
  /\ rowToken \in [Nodes -> Secrets]
  /\ issued \in [Nodes -> Secrets]
  /\ live \in [Nodes -> BOOLEAN]
  /\ npc \in [Nodes -> NodePCs]
  /\ nsecret \in [Nodes -> Secrets]
  /\ apc \in [Admins -> AdminPCs]
  /\ target \in [Admins -> Nodes]
  /\ added \in [Admins -> {"none", "completed", "token", "member"}]
  /\ secret \in [Admins -> Secrets]

Init ==
  /\ members = {} /\ tokens = {} /\ rows = {} /\ userRows = {}
  /\ registered = {}
  /\ rowToken = [n \in Nodes |-> 0]
  /\ issued = [n \in Nodes |-> 0]
  /\ live = [n \in Nodes |-> FALSE]
  /\ npc = [n \in Nodes |-> "idle"]
  /\ nsecret = [n \in Nodes |-> 0]
  /\ apc = [a \in Admins |-> "idle"]
  /\ target = [a \in Admins |-> Seed]
  /\ added = [a \in Admins |-> "none"]
  /\ secret = [a \in Admins |-> 0]

-----------------------------------------------------------------------------
(* The commands of a node: bootstrap on the seed, join on the others.      *)

NodeGoto(n, from, to) ==
  /\ npc[n] = from
  /\ npc' = [npc EXCEPT ![n] = to]

\* ClusterInitStep.is_skip: a node that is a member already skips the step.
InitCheck(n) ==
  /\ n = Seed
  /\ NodeGoto(n, "idle", IF n \in members THEN "deploy" ELSE "init")
  /\ UNCHANGED <<dbVars, jujuVars, nsecret, adminVars>>

\* ClusterService.bootstrap, its first call.
BootstrapCluster(n) ==
  /\ NodeGoto(n, "init", "initRow")
  /\ members' = members \union {n}
  /\ UNCHANGED <<tokens, rows, userRows, rowToken, jujuVars, nsecret, adminVars>>

\* The rest of bootstrap, which deploys Juju and logs the node in.
DeployController(n) ==
  /\ NodeGoto(n, "deploy", "joined")
  /\ registered' = registered \union {n}
  /\ UNCHANGED <<dbVars, issued, live, nsecret, adminVars>>

\* ClusterJoinNodeStep.is_skip.
JoinCheck(n) ==
  /\ n # Seed
  /\ NodeGoto(n, "idle", IF n \in members THEN "registerCheck" ELSE "join")
  /\ UNCHANGED <<dbVars, jujuVars, nsecret, adminVars>>

\* ClusterService.join_node, its first call: the token is used up, and
\* NodeJoinException ends the command when there is none.
JoinCluster(n) ==
  /\ \/ /\ n \in tokens
        /\ NodeGoto(n, "join", "joinRow")
        /\ members' = members \union {n}
        /\ tokens' = tokens \ {n}
     \/ /\ n \notin tokens
        /\ NodeGoto(n, "join", "idle")
        /\ UNCHANGED <<members, tokens>>
  /\ UNCHANGED <<rows, userRows, rowToken, jujuVars, nsecret, adminVars>>

\* add_node_info, the second call of bootstrap and of join_node.
AddNodeInfo(n) ==
  /\ \/ NodeGoto(n, "initRow", IF n \in rows THEN "idle" ELSE "deploy")
     \/ NodeGoto(n, "joinRow", IF n \in rows THEN "idle" ELSE "registerCheck")
  /\ rows' = rows \union {n}
  /\ UNCHANGED <<members, tokens, userRows, rowToken, jujuVars, nsecret, adminVars>>

\* RegisterJujuUserStep.is_skip: the node reads the secret of its row.
RegisterCheck(n) ==
  /\ NodeGoto(n, "registerCheck",
              CASE n \in registered -> "update"
                [] n \notin registered /\ n \in userRows -> "register"
                [] OTHER -> "idle")
  /\ nsecret' = [nsecret EXCEPT ![n] = rowToken[n]]
  /\ UNCHANGED <<dbVars, jujuVars, adminVars>>

\* RegisterJujuUserStep.run: Juju accepts the secret it issued last, once.
Register(n) ==
  /\ \/ /\ nsecret[n] # 0 /\ nsecret[n] = issued[n] /\ live[n]
        /\ NodeGoto(n, "register", "update")
        /\ live' = [live EXCEPT ![n] = FALSE]
        /\ registered' = registered \union {n}
     \/ /\ ~(nsecret[n] # 0 /\ nsecret[n] = issued[n] /\ live[n])
        /\ NodeGoto(n, "register", "idle")
        /\ UNCHANGED <<live, registered>>
  /\ UNCHANGED <<dbVars, issued, nsecret, adminVars>>

\* Mutant of UpdateNodeInfo: a row that is not there is not an error.
UpdateNodeInfoSoft(n) ==
  /\ NodeGoto(n, "update", "joined")
  /\ UNCHANGED <<dbVars, jujuVars, nsecret, adminVars>>

\* ClusterUpdateNodeStep of the join command, once the node is a machine of
\* Juju: clusterd answers that the row does not exist if it does not.
UpdateNodeInfo(n) ==
  /\ NodeGoto(n, "update", IF n \in rows THEN "joined" ELSE "idle")
  /\ UNCHANGED <<dbVars, jujuVars, nsecret, adminVars>>

\* The command of the node fails in a call, or is killed.
NodeAbort(n) ==
  /\ n \in Fallible
  /\ npc[n] \notin {"idle", "joined"}
  /\ npc' = [npc EXCEPT ![n] = "idle"]
  /\ UNCHANGED <<dbVars, jujuVars, nsecret, adminVars>>

\* The operator cleans up a node that was removed, to use it again.
Reuse(n) ==
  /\ n # Seed /\ n \notin members
  /\ NodeGoto(n, "joined", "idle")
  /\ registered' = registered \ {n}
  /\ UNCHANGED <<dbVars, issued, live, nsecret, adminVars>>

-----------------------------------------------------------------------------
(* `cluster add`.                                                          *)

Goto(a, from, to) ==
  /\ apc[a] = from
  /\ apc' = [apc EXCEPT ![a] = to]

\* A session works on a node once the cluster is bootstrapped.
Start(a, n, to) ==
  /\ Seed \in registered
  /\ Goto(a, "idle", to)
  /\ target' = [target EXCEPT ![a] = n]
  /\ added' = [added EXCEPT ![a] = "none"]
  /\ secret' = [secret EXCEPT ![a] = 0]
  /\ UNCHANGED <<dbVars, jujuVars, nodeVars>>

StartAdd(a, n) == n # Seed /\ Start(a, n, "members")

\* ClusterAddNodeStep.is_skip, get_cluster_members.
CheckMember(a) ==
  LET skip == target[a] \in members
  IN  /\ Goto(a, "members", IF skip THEN "createCheck" ELSE "tokens")
      /\ added' = [added EXCEPT ![a] = IF skip THEN "member" ELSE "none"]
      /\ UNCHANGED <<dbVars, jujuVars, nodeVars, target, secret>>

\* Mutant of CheckToken: a result that the command does not know.
CheckTokenUnknown(a) ==
  LET skip == target[a] \in tokens
  IN  /\ Goto(a, "tokens", IF skip THEN "createCheck" ELSE "generate")
      /\ added' = [added EXCEPT ![a] = IF skip THEN "skipped" ELSE "none"]
      /\ UNCHANGED <<dbVars, jujuVars, nodeVars, target, secret>>

\* ClusterAddNodeStep.is_skip, list_tokens: a token that exists is reused.
CheckToken(a) ==
  LET skip == target[a] \in tokens
  IN  /\ Goto(a, "tokens", IF skip THEN "createCheck" ELSE "generate")
      /\ added' = [added EXCEPT ![a] = IF skip THEN "token" ELSE "none"]
      /\ UNCHANGED <<dbVars, jujuVars, nodeVars, target, secret>>

\* ClusterAddNodeStep.run: TokenAlreadyGeneratedException ends the command.
GenerateToken(a) ==
  LET fail == target[a] \in tokens
  IN  /\ Goto(a, "generate", IF fail THEN "idle" ELSE "createCheck")
      /\ tokens' = tokens \union {target[a]}
      /\ added' = [added EXCEPT ![a] = IF fail THEN "none" ELSE "completed"]
      /\ UNCHANGED <<members, rows, userRows, rowToken, jujuVars, nodeVars, target, secret>>

\* CreateJujuUserStep.is_skip: the user of a node is never removed.
CreateCheck(a) ==
  /\ Goto(a, "createCheck", IF issued[target[a]] # 0 THEN "choose" ELSE "create")
  /\ UNCHANGED <<dbVars, jujuVars, nodeVars, target, added, secret>>

\* Juju issues a secret for the user: it replaces the last one.
Issue(a) ==
  LET n == target[a]
  IN  /\ issued[n] < MaxSecrets
      /\ issued' = [issued EXCEPT ![n] = issued[n] + 1]
      /\ live' = [live EXCEPT ![n] = TRUE]
      /\ secret' = [secret EXCEPT ![a] = issued[n] + 1]

\* CreateJujuUserStep.run, add-user: it fails when the user exists by then.
CreateUser(a) ==
  /\ \/ /\ issued[target[a]] = 0
        /\ Goto(a, "create", "grant")
        /\ Issue(a)
     \/ /\ issued[target[a]] # 0
        /\ Goto(a, "create", "idle")
        /\ UNCHANGED <<issued, live, secret>>
  /\ UNCHANGED <<dbVars, registered, nodeVars, target, added>>

\* The grants of CreateJujuUserStep and of JujuGrantModelAccessStep.
Grant(a) ==
  /\ Goto(a, "grant", "choose")
  /\ UNCHANGED <<dbVars, jujuVars, nodeVars, target, added, secret>>

\* add: a node is taken to be re-added when this run generated its token
\* and found its user.
Choose(a) ==
  /\ Goto(a, "choose", IF added[a] = "completed" /\ secret[a] = 0
                       THEN "reset" ELSE "addCheck")
  /\ UNCHANGED <<dbVars, jujuVars, nodeVars, target, added, secret>>

\* ResetJujuUserStep.run: the password of the user no longer works.
ResetUser(a) ==
  /\ Goto(a, "reset", "updateCheck")
  /\ Issue(a)
  /\ registered' = registered \ {target[a]}
  /\ UNCHANGED <<dbVars, nodeVars, target, added>>

\* ClusterAddJujuUserStep.is_skip: a row that exists is left as it is.
AddUserCheck(a) ==
  /\ Goto(a, "addCheck", IF target[a] \in userRows THEN "printed" ELSE "addUser")
  /\ UNCHANGED <<dbVars, jujuVars, nodeVars, target, added, secret>>

\* add_juju_user, of ClusterAddJujuUserStep or of ClusterUpdateJujuUserStep:
\* the user name is unique.
AddJujuUser(a) ==
  LET n == target[a]
      fail == n \in userRows
  IN  /\ Goto(a, "addUser", IF fail THEN "idle" ELSE "printed")
      /\ userRows' = userRows \union {n}
      /\ rowToken' = IF fail THEN rowToken ELSE [rowToken EXCEPT ![n] = secret[a]]
      /\ UNCHANGED <<members, tokens, rows, jujuVars, nodeVars, target, added, secret>>

\* ClusterUpdateJujuUserStep.is_skip.
UpdateUserCheck(a) ==
  LET n == target[a]
  IN  /\ Goto(a, "updateCheck",
              IF n \in userRows /\ rowToken[n] = secret[a] THEN "printed" ELSE "updateUser")
      /\ UNCHANGED <<dbVars, jujuVars, nodeVars, target, added, secret>>

\* update_juju_user: a row that is not there is added by another call.
UpdateJujuUser(a) ==
  LET n == target[a]
      found == n \in userRows
  IN  /\ Goto(a, "updateUser", IF found THEN "printed" ELSE "addUser")
      /\ rowToken' = IF found THEN [rowToken EXCEPT ![n] = secret[a]] ELSE rowToken
      /\ UNCHANGED <<members, tokens, rows, userRows, jujuVars, nodeVars, target, added, secret>>

-----------------------------------------------------------------------------
(* `cluster remove`, as far as the membership is concerned.                *)

StartRemove(a, n) == \E to \in {"prompt", "rmMembers"} : Start(a, n, to)

\* PromptCheckNodeExistStep, which --force leaves out.
Prompt(a) ==
  /\ Goto(a, "prompt", IF target[a] \in members THEN "rmMembers" ELSE "promptToken")
  /\ UNCHANGED <<dbVars, jujuVars, nodeVars, target, added, secret>>

\* It goes on without the node only if a token exists and the operator agrees.
PromptToken(a) ==
  /\ \/ target[a] \in tokens /\ Goto(a, "promptToken", "rmMembers")
     \/ Goto(a, "promptToken", "idle")
  /\ UNCHANGED <<dbVars, jujuVars, nodeVars, target, added, secret>>

\* remove_node, get_cluster_members.
RemoveCheck(a) ==
  /\ Goto(a, "rmMembers", IF target[a] \in members THEN "rmRow" ELSE "rmToken")
  /\ UNCHANGED <<dbVars, jujuVars, nodeVars, target, added, secret>>

\* Mutant of RemoveRow: the member is removed and its row left behind.
RemoveRowAlways(a) ==
  /\ Goto(a, "rmRow", "rmMember")
  /\ UNCHANGED <<dbVars, jujuVars, nodeVars, target, added, secret>>

\* remove_node, remove_node_info: NodeNotExistInClusterException counts as
\* a success of ClusterRemoveNodeStep.
RemoveRow(a) ==
  LET n == target[a]
  IN  /\ Goto(a, "rmRow", IF n \in rows THEN "rmMember" ELSE "removed")
      /\ rows' = rows \ {n}
      /\ UNCHANGED <<members, tokens, userRows, rowToken, jujuVars, nodeVars, target, added, secret>>

\* remove_node, remove: the last member cannot be removed, and a node that
\* is no member counts as removed.
RemoveMember(a) ==
  LET n == target[a]
      last == members = {n}
  IN  /\ Goto(a, "rmMember", IF last THEN "idle" ELSE "removed")
      /\ members' = IF last THEN members ELSE members \ {n}
      /\ UNCHANGED <<tokens, rows, userRows, rowToken, jujuVars, nodeVars, target, added, secret>>

\* remove_node, delete_token: TokenNotFoundException counts as a success.
RemoveToken(a) ==
  /\ Goto(a, "rmToken", "removed")
  /\ tokens' = tokens \ {target[a]}
  /\ UNCHANGED <<members, rows, userRows, rowToken, jujuVars, nodeVars, target, added, secret>>

-----------------------------------------------------------------------------
\* The command prints its last message and ends.
Finish(a) ==
  /\ \E from \in {"printed", "removed"} : Goto(a, from, "idle")
  /\ UNCHANGED <<dbVars, jujuVars, nodeVars, target, added, secret>>

\* The command fails in a call, or is killed.
AdminAbort(a) ==
  /\ a \in Fallible
  /\ apc[a] \notin {"idle", "printed", "removed"}
  /\ apc' = [apc EXCEPT ![a] = "idle"]
  /\ UNCHANGED <<dbVars, jujuVars, nodeVars, target, added, secret>>

NodeStep(n) ==
  \/ InitCheck(n) \/ BootstrapCluster(n) \/ DeployController(n)
  \/ JoinCheck(n) \/ JoinCluster(n) \/ AddNodeInfo(n)
  \/ RegisterCheck(n) \/ Register(n) \/ UpdateNodeInfo(n)
  \/ NodeAbort(n) \/ Reuse(n)

AddStep(a) ==
  \/ CheckMember(a) \/ CheckToken(a) \/ GenerateToken(a)
  \/ CreateCheck(a) \/ CreateUser(a) \/ Grant(a) \/ Choose(a) \/ ResetUser(a)
  \/ AddUserCheck(a) \/ AddJujuUser(a) \/ UpdateUserCheck(a) \/ UpdateJujuUser(a)

RemoveStep(a) ==
  \/ Prompt(a) \/ PromptToken(a)
  \/ RemoveCheck(a) \/ RemoveRow(a) \/ RemoveMember(a) \/ RemoveToken(a)

Next ==
  \/ \E n \in Nodes : NodeStep(n)
  \/ \E a \in Admins :
       \/ \E n \in Nodes : StartAdd(a, n) \/ StartRemove(a, n)
       \/ AddStep(a) \/ RemoveStep(a) \/ Finish(a) \/ AdminAbort(a)

Spec == Init /\ [][Next]_vars

-----------------------------------------------------------------------------
\* No node row outlives the membership of its node, whichever commands
\* interleave, fail or are repeated: remove_node deletes the row before the
\* member and goes no further when the row is gone, join_node adds the row
\* after the member.
RowsAreMembers == rows \subseteq members

\* A join command reports success only for a node that is a member and has
\* its row, even if it is a repetition that skipped ClusterJoinNodeStep, or
\* the node is being removed meanwhile.
JoinedIsRegistered ==
  [][\A n \in Nodes \ {Seed} :
       npc'[n] = "joined" /\ npc[n] # "joined" => n \in rows /\ n \in members]_vars
=============================================================================
