-------------------------- MODULE FeatureGateSync --------------------------
(***************************************************************************)
(* The feature gates of a local deployment: the table of clusterd, the     *)
(* `feature.*` options of the snap on every node, and the two programs     *)
(* that copy them.  The configure hook pushes all options of its node to   *)
(* the table after a `snap set`; the syncer of each clusterd daemon polls  *)
(* the table and, when it differs from what it saw last, writes it to the  *)
(* options of its node.                                                    *)
(*                                                                         *)
(* The hook asks clusterd gate by gate, one call to read and another to    *)
(* write, and the syncer sets option by option: all of these interleave.   *)
(* The 2 s debounce only delays a poll, which comes every 5 s, and on MAAS *)
(* the syncer does nothing.  No gate of FEATURE_GATES requires another, so *)
(* the validation of the hook refuses nothing.                             *)
(***************************************************************************)
EXTENDS Naturals

CONSTANTS
  Nodes,      \* the nodes, with the snap installed
  Seed,       \* the one that bootstraps the cluster
  Gates,      \* the feature gates
  Inputs,     \* what operators set gates to; "none" stands for `snap unset`
  Writers,    \* the nodes where they do so
  Deletable,  \* the gates a client of the API may delete
  Triggers,   \* whether snapd runs the configure hook after `snapctl set`
  Fallible,   \* the nodes where snapctl may fail
  MaxOps      \* bound: changes by operators, and restarts of daemons

Values == {"true", "false", "none"}

ASSUME SeedAssumption == Seed \in Nodes
ASSUME WritersAssumption == Writers \subseteq Nodes /\ Fallible \subseteq Nodes
ASSUME InputsAssumption == Gates # {} /\ Inputs \subseteq Values /\ Deletable \subseteq Gates
ASSUME TriggersAssumption == Triggers \in SUBSET BOOLEAN
ASSUME BoundAssumption == MaxOps \in Nat

VARIABLES
  db,             \* clusterd: the feature gates, "none" without a row
  cluster,        \* the nodes whose daemon is in the cluster
  conf,           \* the options of the snap on a node
  view,           \* the options as the hook of a node read them
  push,           \* the gates it has still to push; empty: no hook runs
  call,           \* its next call: "get", "update" or "add"
  gate,           \* the gate of that call
  lastKnownGates, \* the gates as the syncer of a node saw them last
  listed,         \* the gates as its poll read them
  todo,           \* the gates the poll has still to set or unset
  polling,        \* whether a poll is under way
  ops             \* the changes and restarts so far

hookVars == <<view, push, call, gate>>
pollVars == <<lastKnownGates, listed, todo, polling>>
vars == <<db, cluster, conf, hookVars, pollVars, ops>>

AnyGate == CHOOSE k \in Gates : TRUE
NoGates == [k \in Gates |-> "none"]
Present(gates) == {k \in Gates : gates[k] # "none"}

TypeOK ==
  /\ db \in [Gates -> Values]
  /\ cluster \subseteq Nodes
  /\ conf \in [Nodes -> [Gates -> Values]]
  /\ view \in [Nodes -> [Gates -> Values]]
  /\ push \in [Nodes -> SUBSET Gates]
  /\ \A n \in Nodes : push[n] \subseteq Present(view[n])
  /\ call \in [Nodes -> {"get", "update", "add"}]
  /\ gate \in [Nodes -> Gates]
  /\ \A n \in Nodes : call[n] # "get" => gate[n] \in push[n]
  /\ lastKnownGates \in [Nodes -> [Gates -> Values]]
  /\ listed \in [Nodes -> [Gates -> Values]]
  /\ todo \in [Nodes -> SUBSET Gates]
  /\ polling \in [Nodes -> BOOLEAN]
  /\ ops \in 0..MaxOps

\* The options of a node may have been set before it is in a cluster.
Init ==
  /\ db = NoGates
  /\ cluster = {}
  /\ conf \in [Nodes -> [Gates -> Inputs \union {"none"}]]
  /\ view = [n \in Nodes |-> NoGates]
  /\ push = [n \in Nodes |-> {}]
  /\ call = [n \in Nodes |-> "get"]
  /\ gate = [n \in Nodes |-> AnyGate]
  /\ lastKnownGates = [n \in Nodes |-> NoGates]
  /\ listed = [n \in Nodes |-> NoGates]
  /\ todo = [n \in Nodes |-> {}]
  /\ polling = [n \in Nodes |-> FALSE]
  /\ ops = 0

-----------------------------------------------------------------------------
Operate == ops < MaxOps /\ ops' = ops + 1

(* sync_feature_gates_from_snap_to_cluster: all options of the node, none  *)
(* of those that are unset, when its clusterd can be reached.              *)

Option(n, k, v) == [conf[n] EXCEPT ![k] = v]

StartHook(n, options, reachable) ==
  /\ push[n] = {}
  /\ push' = [push EXCEPT ![n] = IF reachable THEN Present(options) ELSE {}]
  /\ view' = [view EXCEPT ![n] = IF reachable THEN options ELSE NoGates]
  /\ UNCHANGED <<call, gate>>

\* Mutant of Pushed: the hook stays in its last call.
PushedStuck(n, k) ==
  /\ push' = [push EXCEPT ![n] = @ \ {k}]
  /\ UNCHANGED <<view, call, gate>>

\* The hook has done with a gate, and after the last one it ends.
Pushed(n, k) ==
  /\ push' = [push EXCEPT ![n] = @ \ {k}]
  /\ view' = [view EXCEPT ![n] = IF push[n] = {k} THEN NoGates ELSE @]
  /\ call' = [call EXCEPT ![n] = "get"]
  /\ gate' = [gate EXCEPT ![n] = AnyGate]

\* get_feature_gate: the gate is written if it differs, added if it is not
\* there.
HookGet(n) ==
  \E k \in push[n] :
    /\ call[n] = "get"
    /\ IF db[k] = view[n][k]
       THEN Pushed(n, k)
       ELSE /\ call' = [call EXCEPT ![n] = IF db[k] = "none" THEN "add" ELSE "update"]
            /\ gate' = [gate EXCEPT ![n] = k]
            /\ UNCHANGED <<push, view>>
    /\ UNCHANGED <<db, cluster, conf, pollVars, ops>>

\* update_feature_gate: fails if the gate is gone by now, and then it is added.
HookUpdate(n) ==
  /\ call[n] = "update"
  /\ IF db[gate[n]] = "none"
     THEN call' = [call EXCEPT ![n] = "add"] /\ UNCHANGED <<db, push, view, gate>>
     ELSE /\ db' = [db EXCEPT ![gate[n]] = view[n][gate[n]]]
          /\ Pushed(n, gate[n])
  /\ UNCHANGED <<cluster, conf, pollVars, ops>>

\* add_feature_gate: fails if the gate is there by now, which is logged.
HookAdd(n) ==
  /\ call[n] = "add"
  /\ db' = IF db[gate[n]] = "none"
           THEN [db EXCEPT ![gate[n]] = view[n][gate[n]]] ELSE db
  /\ Pushed(n, gate[n])
  /\ UNCHANGED <<cluster, conf, pollVars, ops>>

\* `snap set` or `snap unset` by an operator; snapd runs one configure hook of
\* a snap at a time.
SnapSet(n, k, v) ==
  /\ n \in Writers
  /\ Operate
  /\ conf' = [conf EXCEPT ![n] = Option(n, k, v)]
  /\ StartHook(n, Option(n, k, v), n \in cluster)
  /\ UNCHANGED <<db, cluster, pollVars>>

-----------------------------------------------------------------------------
(* The cluster.                                                            *)

\* The daemon starts its syncer with OnStart; bootstrap then runs
\* SyncFeatureGatesToCluster, and join has no such step.
Bootstrap ==
  /\ cluster = {}
  /\ cluster' = {Seed}
  /\ UNCHANGED <<conf, db, pollVars, ops>>
  /\ StartHook(Seed, conf[Seed], TRUE)

Join(n) ==
  /\ cluster # {} /\ n \notin cluster
  /\ cluster' = cluster \union {n}
  /\ UNCHANGED <<db, conf, hookVars, pollVars, ops>>

\* The daemon stops and starts again: its syncer has seen nothing yet, and
\* the hook has skipped the gates it came to in between.
Restart(n) ==
  /\ n \in cluster
  /\ Operate
  /\ \E left \in SUBSET push[n] :
       /\ push' = [push EXCEPT ![n] = left]
       /\ call' = [call EXCEPT ![n] = IF gate[n] \in left THEN @ ELSE "get"]
  /\ lastKnownGates' = [lastKnownGates EXCEPT ![n] = NoGates]
  /\ listed' = [listed EXCEPT ![n] = NoGates]
  /\ todo' = [todo EXCEPT ![n] = {}]
  /\ polling' = [polling EXCEPT ![n] = FALSE]
  /\ UNCHANGED <<db, cluster, conf, view, gate>>

\* DELETE of a gate through the API.
DeleteFeatureGate(k) ==
  /\ k \in Deletable /\ db[k] # "none"
  /\ Operate
  /\ db' = [db EXCEPT ![k] = "none"]
  /\ UNCHANGED <<cluster, conf, hookVars, pollVars>>

-----------------------------------------------------------------------------
(* syncOnceUnlocked.                                                       *)

\* Mutant of PollList: gates that changed their value are not noticed.
PollListNew(n) ==
  /\ n \in cluster /\ ~polling[n]
  /\ Present(db) # Present(lastKnownGates[n])
  /\ polling' = [polling EXCEPT ![n] = TRUE]
  /\ listed' = [listed EXCEPT ![n] = db]
  /\ todo' = [todo EXCEPT ![n] = Present(db) \union Present(lastKnownGates[n])]
  /\ UNCHANGED <<db, cluster, conf, hookVars, lastKnownGates, ops>>

\* The gates are listed and, if they differ from the last known ones, all of
\* them are set and those that are gone unset.
PollList(n) ==
  /\ n \in cluster /\ ~polling[n]
  /\ db # lastKnownGates[n]
  /\ polling' = [polling EXCEPT ![n] = TRUE]
  /\ listed' = [listed EXCEPT ![n] = db]
  /\ todo' = [todo EXCEPT ![n] = Present(db) \union Present(lastKnownGates[n])]
  /\ UNCHANGED <<db, cluster, conf, hookVars, lastKnownGates, ops>>

\* snapctl set, and after all of them snapctl unset; an error is only logged.
PollSet(n) ==
  \E k \in todo[n] :
    /\ listed[n][k] = "none" => todo[n] \intersect Present(listed[n]) = {}
    /\ todo' = [todo EXCEPT ![n] = @ \ {k}]
    /\ \E failed \in {FALSE} \union {n \in Fallible}, trigger \in Triggers :
         LET options == IF failed THEN conf[n] ELSE Option(n, k, listed[n][k])
         IN  /\ conf' = [conf EXCEPT ![n] = options]
             /\ IF trigger /\ ~failed
                THEN StartHook(n, options, TRUE) ELSE UNCHANGED hookVars
    /\ UNCHANGED <<db, cluster, lastKnownGates, listed, polling, ops>>

\* Mutant of PollEnd: the gates are listed again for the next comparison.
PollEndRelist(n) ==
  /\ polling[n] /\ todo[n] = {}
  /\ lastKnownGates' = [lastKnownGates EXCEPT ![n] = db]
  /\ polling' = [polling EXCEPT ![n] = FALSE]
  /\ listed' = [listed EXCEPT ![n] = NoGates]
  /\ UNCHANGED <<db, cluster, conf, hookVars, todo, ops>>

\* What was listed is what the next poll compares with.
PollEnd(n) ==
  /\ polling[n] /\ todo[n] = {}
  /\ lastKnownGates' = [lastKnownGates EXCEPT ![n] = listed[n]]
  /\ polling' = [polling EXCEPT ![n] = FALSE]
  /\ listed' = [listed EXCEPT ![n] = NoGates]
  /\ UNCHANGED <<db, cluster, conf, hookVars, todo, ops>>

-----------------------------------------------------------------------------
Hook(n) == HookGet(n) \/ HookUpdate(n) \/ HookAdd(n)
Poll(n) == PollList(n) \/ PollSet(n) \/ PollEnd(n)

Next ==
  \/ Bootstrap
  \/ \E n \in Nodes :
       \/ Join(n) \/ Restart(n) \/ Hook(n) \/ Poll(n)
       \/ \E k \in Gates, v \in Inputs : SnapSet(n, k, v)
  \/ \E k \in Gates : DeleteFeatureGate(k)

Spec == Init /\ [][Next]_vars

\* A hook that runs goes on, and the daemon of a node goes on polling.
FairSpec == Spec /\ \A n \in Nodes : WF_vars(Hook(n)) /\ WF_vars(Poll(n))

-----------------------------------------------------------------------------
\* A node whose syncer has nothing left to do has every gate as the cluster
\* has it: comparing with the last known gates loses no change.
Agreement ==
  \A n \in cluster :
    push[n] = {} /\ ~polling[n] /\ lastKnownGates[n] = db =>
      \A k \in Present(db) : conf[n][k] = db[k]

\* When operators leave the gates alone, every node of the cluster ends up
\* with the gates of the cluster, whatever restarted or joined meanwhile.
Converges ==
  <>[](\A n \in cluster : \A k \in Present(db) : conf[n][k] = db[k])
=============================================================================
