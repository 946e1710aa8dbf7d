----------------------- MODULE FeatureGateSyncProofs -----------------------
(***************************************************************************)
(* Agreement for every set of nodes and gates, provided that gates are set *)
(* on the seed only, never unset, snapctl does not fail and does not run   *)
(* the configure hook.                                                     *)
(***************************************************************************)
EXTENDS FeatureGateSync, TLAPS

\* The circumstances under which the nodes agree.
OneWriter ==
  /\ Writers \subseteq {Seed}
  /\ "none" \notin Inputs
  /\ TRUE \notin Triggers
  /\ Fallible = {}

\* The gates that the syncer of a node has written, or is writing, to its
\* options.
Base(n) == IF polling[n] THEN listed[n] ELSE lastKnownGates[n]

\* The option was last written by the syncer, or it is about to be: if it
\* differs from the gate, the syncer will notice.
Caught(n, k) == k \in todo[n] \/ Base(n)[k] = "none" \/ Base(n)[k] = conf[n][k]

\* Only polls have options to write, only the seed pushes, and not before
\* there is a cluster; a gate it adds is not there.
Quiet ==
  /\ \A n \in Nodes : ~polling[n] => todo[n] = {}
  /\ \A n \in Nodes \ {Seed} : push[n] = {}
  /\ Seed \notin cluster => db = NoGates /\ push[Seed] = {}
  /\ call[Seed] = "add" => db[gate[Seed]] = "none"

Followers == \A n \in Nodes \ {Seed} : \A k \in Gates : Caught(n, k)

\* On the seed an option that its syncer has not written is either being
\* pushed, or is the gate.
SeedPushes ==
  \A k \in Gates :
    /\ k \in push[Seed] => view[Seed][k] = conf[Seed][k] \/ Caught(Seed, k)
    /\ k \in Present(db) \ push[Seed] => conf[Seed][k] = db[k] \/ Caught(Seed, k)

\* The inductive invariant behind Agreement.
IInv == TypeOK /\ Quiet /\ Followers /\ SeedPushes

-----------------------------------------------------------------------------
LEMMA GateTypes ==
  /\ AnyGate \in Gates
  /\ NoGates \in [Gates -> Values]
  /\ \A gates \in [Gates -> Values] : Present(gates) \subseteq Gates
  /\ Present(NoGates) = {}
BY InputsAssumption DEF AnyGate, NoGates, Present, Values

LEMMA OptionType ==
  ASSUME conf \in [Nodes -> [Gates -> Values]], NEW n \in Nodes, NEW k \in Gates,
         NEW v \in Values
  PROVE  Option(n, k, v) \in [Gates -> Values]
BY DEF Option

LEMMA StartHookType ==
  ASSUME TypeOK, NEW n \in Nodes, NEW options \in [Gates -> Values],
         NEW reachable \in BOOLEAN, StartHook(n, options, reachable)
  PROVE  /\ view' \in [Nodes -> [Gates -> Values]]
         /\ push' \in [Nodes -> SUBSET Gates]
         /\ \A p \in Nodes : push'[p] \subseteq Present(view'[p])
         /\ call' = call /\ gate' = gate
         /\ \A p \in Nodes : call'[p] # "get" => gate'[p] \in push'[p]
<1>1. Present(options) \subseteq Gates
  BY GateTypes
<1>2. view' \in [Nodes -> [Gates -> Values]] /\ push' \in [Nodes -> SUBSET Gates]
  BY <1>1, GateTypes DEF TypeOK, StartHook
<1>3. \A p \in Nodes : push'[p] \subseteq Present(view'[p])
  BY GateTypes DEF TypeOK, StartHook
<1>4. \A p \in Nodes : call'[p] # "get" => gate'[p] \in push'[p]
  BY DEF TypeOK, StartHook
<1>. QED
  BY <1>2, <1>3, <1>4 DEF StartHook

LEMMA PushedType ==
  ASSUME TypeOK, NEW n \in Nodes, NEW k \in push[n], Pushed(n, k)
  PROVE  /\ view' \in [Nodes -> [Gates -> Values]]
         /\ push' \in [Nodes -> SUBSET Gates]
         /\ \A p \in Nodes : push'[p] \subseteq Present(view'[p])
         /\ call' \in [Nodes -> {"get", "update", "add"}]
         /\ gate' \in [Nodes -> Gates]
         /\ \A p \in Nodes : call'[p] # "get" => gate'[p] \in push'[p]
<1>1. view' \in [Nodes -> [Gates -> Values]] /\ push' \in [Nodes -> SUBSET Gates]
  BY GateTypes DEF TypeOK, Pushed
<1>2. \A p \in Nodes : push'[p] \subseteq Present(view'[p])
  BY DEF TypeOK, Pushed
<1>3. /\ call' \in [Nodes -> {"get", "update", "add"}]
      /\ gate' \in [Nodes -> Gates]
      /\ \A p \in Nodes : call'[p] # "get" => gate'[p] \in push'[p]
  BY GateTypes DEF TypeOK, Pushed
<1>. QED
  BY <1>1, <1>2, <1>3

LEMMA TypeInit == Init => TypeOK
<1>. SUFFICES ASSUME Init PROVE TypeOK
  OBVIOUS
<1>1. Inputs \union {"none"} \subseteq Values
  BY InputsAssumption DEF Values
<1>2. conf \in [Nodes -> [Gates -> Values]]
  BY <1>1 DEF Init
<1>3. 0 \in 0..MaxOps
  BY BoundAssumption
<1>. QED
  BY <1>2, <1>3, GateTypes DEF Init, TypeOK

LEMMA TypeStep == TypeOK /\ [Next]_vars => TypeOK'
<1>. SUFFICES ASSUME TypeOK, [Next]_vars PROVE TypeOK'
  OBVIOUS
<1>1. CASE Bootstrap
  <2>1. conf[Seed] \in [Gates -> Values]
    BY SeedAssumption DEF TypeOK
  <2>. QED
    BY <1>1, <2>1, StartHookType, SeedAssumption DEF TypeOK, Bootstrap, pollVars
<1>2. ASSUME NEW n \in Nodes, Join(n) PROVE TypeOK'
  BY <1>2 DEF TypeOK, Join, hookVars, pollVars
<1>3. ASSUME NEW n \in Nodes, Restart(n) PROVE TypeOK'
  <2>1. PICK left \in SUBSET push[n] :
          /\ push' = [push EXCEPT ![n] = left]
          /\ call' = [call EXCEPT ![n] = IF gate[n] \in left THEN @ ELSE "get"]
    BY <1>3 DEF Restart
  <2>2. /\ push' \in [Nodes -> SUBSET Gates]
        /\ \A p \in Nodes : push'[p] \subseteq Present(view'[p])
        /\ call' \in [Nodes -> {"get", "update", "add"}]
        /\ \A p \in Nodes : call'[p] # "get" => gate'[p] \in push'[p]
    BY <1>3, <2>1 DEF TypeOK, Restart
  <2>. QED
    BY <1>3, <2>2, GateTypes, BoundAssumption DEF TypeOK, Restart, Operate
<1>4. ASSUME NEW n \in Nodes, HookGet(n) PROVE TypeOK'
  <2>1. PICK k \in push[n] :
          /\ call[n] = "get"
          /\ IF db[k] = view[n][k]
             THEN Pushed(n, k)
             ELSE /\ call' = [call EXCEPT ![n] = IF db[k] = "none" THEN "add" ELSE "update"]
                  /\ gate' = [gate EXCEPT ![n] = k]
                  /\ UNCHANGED <<push, view>>
    BY <1>4 DEF HookGet
  <2>2. UNCHANGED <<db, cluster, conf, pollVars, ops>>
    BY <1>4 DEF HookGet
  <2>3. CASE db[k] = view[n][k]
    BY <2>1, <2>2, <2>3, PushedType DEF TypeOK, pollVars
  <2>4. CASE db[k] # view[n][k]
    <3>1. PICK c \in {"add", "update"} : call' = [call EXCEPT ![n] = c]
      BY <2>1, <2>4
    <3>2. gate' = [gate EXCEPT ![n] = k] /\ UNCHANGED <<push, view>> /\ k \in Gates
      BY <2>1, <2>4 DEF TypeOK
    <3>3. /\ call' \in [Nodes -> {"get", "update", "add"}]
          /\ gate' \in [Nodes -> Gates]
          /\ \A p \in Nodes : call'[p] # "get" => gate'[p] \in push'[p]
      BY <3>1, <3>2 DEF TypeOK
    <3>. QED
      BY <2>2, <3>2, <3>3 DEF TypeOK, pollVars
  <2>. QED
    BY <2>3, <2>4
<1>5. ASSUME NEW n \in Nodes, HookUpdate(n) PROVE TypeOK'
  <2>1. gate[n] \in push[n] /\ gate[n] \in Gates
    BY <1>5 DEF TypeOK, HookUpdate
  <2>2. CASE db[gate[n]] = "none"
    BY <1>5, <2>1, <2>2 DEF TypeOK, HookUpdate, pollVars
  <2>3. CASE db[gate[n]] # "none"
    <3>1. Pushed(n, gate[n]) /\ db' = [db EXCEPT ![gate[n]] = view[n][gate[n]]]
      BY <1>5, <2>3 DEF HookUpdate
    <3>2. db' \in [Gates -> Values]
      BY <2>1, <3>1 DEF TypeOK
    <3>. QED
      BY <1>5, <2>1, <3>1, <3>2, PushedType DEF TypeOK, HookUpdate, pollVars
  <2>. QED
    BY <2>2, <2>3
<1>6. ASSUME NEW n \in Nodes, HookAdd(n) PROVE TypeOK'
  <2>1. gate[n] \in push[n] /\ gate[n] \in Gates
    BY <1>6 DEF TypeOK, HookAdd
  <2>2. Pushed(n, gate[n]) /\ db' \in [Gates -> Values]
    BY <1>6, <2>1 DEF TypeOK, HookAdd
  <2>. QED
    BY <1>6, <2>1, <2>2, PushedType DEF TypeOK, HookAdd, pollVars
<1>7. ASSUME NEW n \in Nodes, PollList(n) PROVE TypeOK'
  BY <1>7, GateTypes DEF TypeOK, PollList, hookVars
<1>8. ASSUME NEW n \in Nodes, PollSet(n) PROVE TypeOK'
  <2>1. PICK k \in todo[n], failed \in BOOLEAN, trigger \in BOOLEAN :
          /\ todo' = [todo EXCEPT ![n] = @ \ {k}]
          /\ conf' = [conf EXCEPT ![n] = IF failed THEN conf[n] ELSE Option(n, k, listed[n][k])]
          /\ IF trigger /\ ~failed
             THEN StartHook(n, IF failed THEN conf[n] ELSE Option(n, k, listed[n][k]), TRUE)
             ELSE UNCHANGED hookVars
    BY <1>8, TriggersAssumption DEF PollSet
  <2>2. UNCHANGED <<db, cluster, lastKnownGates, listed, polling, ops>>
    BY <1>8 DEF PollSet
  <2>3. k \in Gates /\ listed[n][k] \in Values
    BY DEF TypeOK
  <2>4. Option(n, k, listed[n][k]) \in [Gates -> Values]
    BY <2>3, OptionType DEF TypeOK
  <2>5. conf' \in [Nodes -> [Gates -> Values]] /\ todo' \in [Nodes -> SUBSET Gates]
    BY <2>1, <2>4 DEF TypeOK
  <2>6. CASE trigger /\ ~failed
    BY <2>1, <2>2, <2>4, <2>5, <2>6, StartHookType DEF TypeOK
  <2>7. CASE ~(trigger /\ ~failed)
    BY <2>1, <2>2, <2>5, <2>7 DEF TypeOK, hookVars
  <2>. QED
    BY <2>6, <2>7
<1>9. ASSUME NEW n \in Nodes, PollEnd(n) PROVE TypeOK'
  BY <1>9, GateTypes DEF TypeOK, PollEnd, hookVars
<1>10. ASSUME NEW n \in Nodes, NEW k \in Gates, NEW v \in Inputs, SnapSet(n, k, v)
       PROVE  TypeOK'
  <2>1. Option(n, k, v) \in [Gates -> Values]
    BY OptionType, InputsAssumption DEF TypeOK
  <2>2. conf' \in [Nodes -> [Gates -> Values]]
    BY <1>10, <2>1 DEF TypeOK, SnapSet
  <2>3. StartHook(n, Option(n, k, v), TRUE) \/ StartHook(n, Option(n, k, v), FALSE)
    BY <1>10 DEF SnapSet, StartHook
  <2>4. ops' \in 0..MaxOps
    BY <1>10, BoundAssumption DEF TypeOK, SnapSet, Operate
  <2>5. UNCHANGED <<db, cluster, pollVars>>
    BY <1>10 DEF SnapSet
  <2>6. /\ view' \in [Nodes -> [Gates -> Values]]
        /\ push' \in [Nodes -> SUBSET Gates]
        /\ \A p \in Nodes : push'[p] \subseteq Present(view'[p])
        /\ call' = call /\ gate' = gate
        /\ \A p \in Nodes : call'[p] # "get" => gate'[p] \in push'[p]
    BY <2>1, <2>3, StartHookType
  <2>. QED
    BY <2>2, <2>4, <2>5, <2>6 DEF TypeOK, pollVars
<1>11. ASSUME NEW k \in Gates, DeleteFeatureGate(k) PROVE TypeOK'
  BY <1>11, BoundAssumption DEF TypeOK, DeleteFeatureGate, Operate, hookVars, pollVars, Values
<1>12. CASE UNCHANGED vars
  BY <1>12 DEF TypeOK, vars, hookVars, pollVars
<1>. QED
  BY <1>1, <1>2, <1>3, <1>4, <1>5, <1>6, <1>7, <1>8, <1>9, <1>10, <1>11, <1>12
  DEF Next, Hook, Poll

\* Every variable of the hooks and the syncers keeps its type; in particular a
\* hook only pushes options that are set.
THEOREM TypeCorrect == Spec => []TypeOK
BY TypeInit, TypeStep, PTL DEF Spec

-----------------------------------------------------------------------------
\* Steps that touch neither the syncers nor the options leave Caught as it is.
LEMMA CaughtKept ==
  ASSUME UNCHANGED <<conf, pollVars>>
  PROVE  \A n \in Nodes, k \in Gates : Caught(n, k)' <=> Caught(n, k)
BY DEF Caught, Base, pollVars

LEMMA InvInit == Init => IInv
<1>. SUFFICES ASSUME Init PROVE IInv
  OBVIOUS
<1>1. \A n \in Nodes, k \in Gates : Caught(n, k)
  BY DEF Init, Caught, Base, NoGates
<1>. QED
  BY <1>1, TypeInit, SeedAssumption, GateTypes
  DEF Init, IInv, Quiet, Followers, SeedPushes

LEMMA BootstrapInv == IInv /\ TypeOK' /\ Bootstrap => IInv'
<1>. SUFFICES ASSUME IInv, TypeOK', Bootstrap PROVE IInv'
  OBVIOUS
<1>1. /\ UNCHANGED <<conf, db, pollVars>> /\ cluster' = {Seed}
      /\ StartHook(Seed, conf[Seed], TRUE) /\ Seed \notin cluster
  BY DEF Bootstrap
<1>2. /\ push' = [push EXCEPT ![Seed] = Present(conf[Seed])]
      /\ view' = [view EXCEPT ![Seed] = conf[Seed]]
      /\ UNCHANGED <<call, gate>>
  BY <1>1 DEF StartHook
<1>3. Quiet'
  BY <1>1, <1>2, SeedAssumption DEF IInv, Quiet, TypeOK, pollVars
<1>4. Followers'
  BY <1>1, CaughtKept DEF IInv, Followers
<1>5. Present(db)' = {}
  BY <1>1, GateTypes DEF IInv, Quiet
<1>6. view'[Seed] = conf'[Seed]
  BY <1>1, <1>2, SeedAssumption DEF IInv, TypeOK
<1>7. SeedPushes'
  BY <1>5, <1>6 DEF SeedPushes
<1>. QED
  BY <1>3, <1>4, <1>7 DEF IInv

LEMMA JoinInv ==
  ASSUME NEW n \in Nodes, IInv, TypeOK', Join(n)
  PROVE  IInv'
<1>1. /\ UNCHANGED <<db, conf, hookVars, pollVars>>
      /\ cluster' = cluster \union {n}
  BY DEF Join
<1>2. Quiet'
  BY <1>1 DEF IInv, Quiet, hookVars, pollVars
<1>3. Followers' /\ SeedPushes'
  BY <1>1, CaughtKept, SeedAssumption DEF IInv, Followers, SeedPushes, hookVars, Present
<1>. QED
  BY <1>2, <1>3 DEF IInv

LEMMA RestartInv ==
  ASSUME NEW n \in Nodes, IInv, TypeOK', Restart(n)
  PROVE  IInv'
<1>1. PICK left \in SUBSET push[n] :
        /\ push' = [push EXCEPT ![n] = left]
        /\ call' = [call EXCEPT ![n] = IF gate[n] \in left THEN @ ELSE "get"]
  BY DEF Restart
<1>2. /\ UNCHANGED <<db, cluster, conf, view, gate>>
      /\ lastKnownGates' = [lastKnownGates EXCEPT ![n] = NoGates]
      /\ listed' = [listed EXCEPT ![n] = NoGates]
      /\ todo' = [todo EXCEPT ![n] = {}]
      /\ polling' = [polling EXCEPT ![n] = FALSE]
  BY DEF Restart
<1>3. \A k \in Gates : Caught(n, k)'
  BY <1>2 DEF IInv, TypeOK, Caught, Base, NoGates
<1>4. \A p \in Nodes \ {n}, k \in Gates : Caught(p, k)' <=> Caught(p, k)
  BY <1>2 DEF IInv, TypeOK, Caught, Base
<1>5. \A p \in Nodes : push'[p] \subseteq push[p] /\ (p # n => push'[p] = push[p])
  BY <1>1 DEF IInv, TypeOK
<1>6. Quiet'
  <2>1. \A p \in Nodes : ~polling'[p] => todo'[p] = {}
    BY <1>2 DEF IInv, Quiet, TypeOK
  <2>2. call'[Seed] = "add" => call[Seed] = "add"
    BY <1>1, SeedAssumption DEF IInv, TypeOK
  <2>. QED
    BY <1>2, <1>5, <2>1, <2>2, SeedAssumption DEF IInv, Quiet
<1>7. Followers'
  BY <1>3, <1>4 DEF IInv, Followers
<1>8. SeedPushes'
  <2>1. CASE n = Seed
    BY <1>3, <2>1 DEF SeedPushes
  <2>2. CASE n # Seed
    <3>1. push'[Seed] = push[Seed] /\ \A k \in Gates : Caught(Seed, k)' <=> Caught(Seed, k)
      BY <1>4, <1>5, <2>2, SeedAssumption
    <3>. QED
      BY <1>2, <3>1 DEF IInv, SeedPushes, Present
  <2>. QED
    BY <2>1, <2>2
<1>. QED
  BY <1>6, <1>7, <1>8 DEF IInv

\* What is left to push, and what the seed has pushed, after Pushed.
LEMMA PushedFacts ==
  ASSUME TypeOK, NEW n \in Nodes, NEW g \in push[n], Pushed(n, g)
  PROVE  /\ push'[n] = push[n] \ {g}
         /\ \A p \in Nodes \ {n} : push'[p] = push[p]
         /\ call'[n] = "get"
         /\ \A k \in push'[n] : view'[n][k] = view[n][k]
<1>1. push'[n] = push[n] \ {g} /\ \A p \in Nodes \ {n} : push'[p] = push[p]
  BY DEF TypeOK, Pushed
<1>2. call'[n] = "get"
  BY DEF TypeOK, Pushed
<1>3. push[n] = {g} => push'[n] = {}
  BY <1>1
<1>4. push[n] # {g} => view'[n] = view[n]
  BY DEF TypeOK, Pushed
<1>. QED
  BY <1>1, <1>2, <1>3, <1>4

\* A call of the seed's hook that leaves the gate as the hook wants it.
LEMMA SeedWrites ==
  ASSUME IInv, TypeOK', NEW g \in push[Seed], Pushed(Seed, g),
         UNCHANGED <<cluster, conf, pollVars>>,
         db'[g] = view[Seed][g],
         \A k \in Gates \ {g} : db'[k] = db[k]
  PROVE  IInv'
<1>. USE SeedAssumption
<1>1. /\ push'[Seed] = push[Seed] \ {g}
      /\ \A p \in Nodes \ {Seed} : push'[p] = push[p]
      /\ call'[Seed] = "get"
      /\ \A k \in push'[Seed] : view'[Seed][k] = view[Seed][k]
  BY PushedFacts DEF IInv
<1>2. Seed \in cluster
  BY DEF IInv, Quiet
<1>3. Quiet'
  BY <1>1, <1>2 DEF IInv, Quiet, pollVars
<1>4. Followers'
  BY CaughtKept DEF IInv, Followers
<1>5. SeedPushes'
  <2>. SUFFICES ASSUME NEW k \in Gates
                PROVE  /\ k \in push'[Seed] => view'[Seed][k] = conf'[Seed][k] \/ Caught(Seed, k)'
                       /\ k \in Present(db)' \ push'[Seed] => conf'[Seed][k] = db'[k] \/ Caught(Seed, k)'
    BY DEF SeedPushes
  <2>1. Caught(Seed, k)' <=> Caught(Seed, k)
    BY CaughtKept
  <2>2. k \in push'[Seed] => view'[Seed][k] = conf'[Seed][k] \/ Caught(Seed, k)'
    BY <1>1, <2>1 DEF IInv, SeedPushes
  <2>3. CASE k = g
    BY <1>1, <2>1, <2>2, <2>3 DEF IInv, SeedPushes
  <2>4. CASE k # g
    <3>1. k \in Present(db)' \ push'[Seed] => k \in Present(db) \ push[Seed]
      BY <1>1, <2>4 DEF Present
    <3>. QED
      BY <2>1, <2>2, <2>4, <3>1 DEF IInv, SeedPushes
  <2>. QED
    BY <2>3, <2>4
<1>. QED
  BY <1>3, <1>4, <1>5 DEF IInv

\* A call of the seed's hook that changes neither gates nor what is to push.
LEMMA SeedCalls ==
  ASSUME IInv, TypeOK', UNCHANGED <<db, cluster, conf, push, view, pollVars>>,
         call'[Seed] = "add" => db[gate'[Seed]] = "none"
  PROVE  IInv'
<1>1. Quiet'
  BY DEF IInv, Quiet, pollVars
<1>2. Followers' /\ SeedPushes'
  BY CaughtKept, SeedAssumption DEF IInv, Followers, SeedPushes, Present
<1>. QED
  BY <1>1, <1>2 DEF IInv

LEMMA HookInv ==
  ASSUME NEW n \in Nodes, IInv, TypeOK', Hook(n)
  PROVE  IInv'
<1>1. n = Seed /\ push[Seed] # {}
  BY DEF Hook, HookGet, HookUpdate, HookAdd, IInv, Quiet, TypeOK
<1>2. CASE HookGet(n)
  <2>1. PICK k \in push[n] :
          /\ IF db[k] = view[n][k]
             THEN Pushed(n, k)
             ELSE /\ call' = [call EXCEPT ![n] = IF db[k] = "none" THEN "add" ELSE "update"]
                  /\ gate' = [gate EXCEPT ![n] = k]
                  /\ UNCHANGED <<push, view>>
    BY <1>2 DEF HookGet
  <2>2. UNCHANGED <<db, cluster, conf, pollVars>>
    BY <1>2 DEF HookGet
  <2>3. CASE db[k] = view[n][k]
    BY <1>1, <2>1, <2>2, <2>3, SeedWrites
  <2>4. CASE db[k] # view[n][k]
    <3>1. call'[Seed] = "add" => db[gate'[Seed]] = "none"
      BY <1>1, <2>1, <2>4 DEF IInv, TypeOK
    <3>. QED
      BY <2>1, <2>2, <2>4, <3>1, SeedCalls
  <2>. QED
    BY <2>3, <2>4
<1>3. CASE HookUpdate(n)
  <2>1. gate[n] \in push[n] /\ gate[n] \in Gates
    BY <1>3 DEF IInv, TypeOK, HookUpdate
  <2>2. UNCHANGED <<cluster, conf, pollVars>>
    BY <1>3 DEF HookUpdate
  <2>3. CASE db[gate[n]] = "none"
    BY <1>1, <1>3, <2>2, <2>3, SeedCalls DEF HookUpdate
  <2>4. CASE db[gate[n]] # "none"
    <3>1. Pushed(n, gate[n]) /\ db' = [db EXCEPT ![gate[n]] = view[n][gate[n]]]
      BY <1>3, <2>4 DEF HookUpdate
    <3>2. /\ db'[gate[n]] = view[n][gate[n]]
          /\ \A k \in Gates \ {gate[n]} : db'[k] = db[k]
      BY <2>1, <3>1 DEF IInv, TypeOK
    <3>. QED
      BY <1>1, <2>1, <2>2, <3>1, <3>2, SeedWrites
  <2>. QED
    BY <2>3, <2>4
<1>4. CASE HookAdd(n)
  <2>1. gate[n] \in push[n] /\ gate[n] \in Gates /\ db[gate[n]] = "none"
    BY <1>1, <1>4 DEF IInv, TypeOK, Quiet, HookAdd
  <2>2. /\ UNCHANGED <<cluster, conf, pollVars>>
        /\ Pushed(n, gate[n])
        /\ db' = [db EXCEPT ![gate[n]] = view[n][gate[n]]]
    BY <1>4, <2>1 DEF HookAdd
  <2>3. /\ db'[gate[n]] = view[n][gate[n]]
        /\ \A k \in Gates \ {gate[n]} : db'[k] = db[k]
    BY <2>1, <2>2 DEF IInv, TypeOK
  <2>. QED
    BY <1>1, <2>1, <2>2, <2>3, SeedWrites
<1>. QED
  BY <1>2, <1>3, <1>4 DEF Hook

\* A step of a syncer that leaves gates and hooks alone, and after which
\* every gate is caught that was, and every gate of the cluster on its node.
LEMMA SyncerSteps ==
  ASSUME NEW n \in Nodes, IInv, TypeOK',
         UNCHANGED <<db, cluster, hookVars>>,
         \A p \in Nodes : ~polling'[p] => todo'[p] = {},
         \A p \in Nodes, k \in Gates : Caught(p, k) => Caught(p, k)',
         \A p \in Nodes, k \in Gates : conf'[p][k] = conf[p][k] \/ Caught(p, k)'
  PROVE  IInv'
<1>1. Quiet'
  BY DEF IInv, Quiet, hookVars
<1>2. Followers'
  BY DEF IInv, Followers
<1>3. SeedPushes'
  BY SeedAssumption DEF IInv, SeedPushes, Present, hookVars
<1>. QED
  BY <1>1, <1>2, <1>3 DEF IInv

LEMMA PollInv ==
  ASSUME NEW n \in Nodes, IInv, TypeOK', OneWriter, Poll(n)
  PROVE  IInv'
<1>1. CASE PollList(n)
  <2>1. /\ UNCHANGED <<db, cluster, conf, hookVars, lastKnownGates>>
        /\ polling' = [polling EXCEPT ![n] = TRUE]
        /\ listed' = [listed EXCEPT ![n] = db]
        /\ todo' = [todo EXCEPT ![n] = Present(db) \union Present(lastKnownGates[n])]
        /\ ~polling[n]
    BY <1>1 DEF PollList
  <2>2. \A p \in Nodes : ~polling'[p] => todo'[p] = {}
    BY <2>1 DEF IInv, Quiet, TypeOK
  <2>3. \A k \in Gates : Caught(n, k)'
    BY <2>1 DEF IInv, TypeOK, Caught, Base, Present
  <2>4. \A p \in Nodes \ {n}, k \in Gates : Caught(p, k) => Caught(p, k)'
    BY <2>1 DEF IInv, TypeOK, Caught, Base
  <2>. QED
    BY <2>1, <2>2, <2>3, <2>4, SyncerSteps
<1>2. CASE PollSet(n)
  <2>1. PICK k \in todo[n] :
          /\ todo' = [todo EXCEPT ![n] = @ \ {k}]
          /\ conf' = [conf EXCEPT ![n] = Option(n, k, listed[n][k])]
          /\ UNCHANGED hookVars
    BY <1>2 DEF PollSet, OneWriter
  <2>2. UNCHANGED <<db, cluster, lastKnownGates, listed, polling>>
    BY <1>2 DEF PollSet
  <2>3. polling[n] /\ k \in Gates
    BY DEF IInv, Quiet, TypeOK
  <2>4. /\ conf'[n][k] = listed[n][k]
        /\ \A j \in Gates \ {k} : conf'[n][j] = conf[n][j]
        /\ \A p \in Nodes \ {n} : conf'[p] = conf[p]
    BY <2>1, <2>3 DEF IInv, TypeOK, Option
  <2>5. Caught(n, k)'
    BY <2>2, <2>3, <2>4 DEF Caught, Base
  <2>6. \A j \in Gates \ {k} : Caught(n, j) => Caught(n, j)'
    BY <2>1, <2>2, <2>4 DEF IInv, TypeOK, Caught, Base
  <2>7. \A p \in Nodes \ {n}, j \in Gates : Caught(p, j) => Caught(p, j)'
    BY <2>1, <2>2, <2>4 DEF IInv, TypeOK, Caught, Base
  <2>8. \A p \in Nodes : ~polling'[p] => todo'[p] = {}
    BY <2>1, <2>2, <2>3 DEF IInv, Quiet, TypeOK
  <2>9. \A p \in Nodes, j \in Gates : conf'[p][j] = conf[p][j] \/ Caught(p, j)'
    BY <2>4, <2>5
  <2>10. \A p \in Nodes, j \in Gates : Caught(p, j) => Caught(p, j)'
    BY <2>5, <2>6, <2>7
  <2>. QED
    BY <2>1, <2>2, <2>8, <2>9, <2>10, SyncerSteps
<1>3. CASE PollEnd(n)
  <2>1. /\ UNCHANGED <<db, cluster, conf, hookVars, todo>>
        /\ polling' = [polling EXCEPT ![n] = FALSE]
        /\ listed' = [listed EXCEPT ![n] = NoGates]
        /\ lastKnownGates' = [lastKnownGates EXCEPT ![n] = listed[n]]
        /\ polling[n] /\ todo[n] = {}
    BY <1>3 DEF PollEnd
  <2>2. \A p \in Nodes : ~polling'[p] => todo'[p] = {}
    BY <2>1 DEF IInv, Quiet, TypeOK
  <2>3. \A p \in Nodes : Base(p)' = Base(p)
    BY <2>1 DEF IInv, TypeOK, Base
  <2>4. \A p \in Nodes, k \in Gates : Caught(p, k) => Caught(p, k)'
    BY <2>1, <2>3 DEF Caught
  <2>. QED
    BY <2>1, <2>2, <2>4, SyncerSteps
<1>. QED
  BY <1>1, <1>2, <1>3 DEF Poll

LEMMA SnapSetInv ==
  ASSUME NEW n \in Nodes, NEW k \in Gates, NEW v \in Inputs,
         IInv, TypeOK', OneWriter, SnapSet(n, k, v)
  PROVE  IInv'
<1>. USE SeedAssumption
<1>1. n = Seed /\ v # "none"
  BY DEF SnapSet, OneWriter
<1>2. /\ UNCHANGED <<db, cluster, pollVars, call, gate>>
      /\ conf' = [conf EXCEPT ![Seed] = Option(Seed, k, v)]
      /\ push[Seed] = {}
      /\ push' = [push EXCEPT ![Seed] = IF Seed \in cluster THEN Present(Option(Seed, k, v)) ELSE {}]
      /\ view' = [view EXCEPT ![Seed] = IF Seed \in cluster THEN Option(Seed, k, v) ELSE NoGates]
  BY <1>1 DEF SnapSet, StartHook
<1>3. /\ conf'[Seed] = Option(Seed, k, v)
      /\ conf'[Seed][k] = v
      /\ \A j \in Gates \ {k} : conf'[Seed][j] = conf[Seed][j]
      /\ \A p \in Nodes \ {Seed} : conf'[p] = conf[p] /\ push'[p] = push[p]
  BY <1>2 DEF IInv, TypeOK, Option
<1>4. \A p \in Nodes \ {Seed}, j \in Gates : Caught(p, j) => Caught(p, j)'
  BY <1>2, <1>3 DEF Caught, Base, pollVars
<1>5. \A j \in Gates \ {k} : Caught(Seed, j) => Caught(Seed, j)'
  BY <1>2, <1>3 DEF Caught, Base, pollVars
<1>6. Followers'
  BY <1>4 DEF IInv, Followers
<1>7. call[Seed] = "get"
  BY <1>2 DEF IInv, TypeOK
<1>8. CASE Seed \in cluster
  <2>1. push'[Seed] = Present(conf'[Seed]) /\ view'[Seed] = conf'[Seed]
    BY <1>2, <1>3, <1>8 DEF IInv, TypeOK
  <2>2. Quiet'
    BY <1>2, <1>3, <1>7, <1>8 DEF IInv, Quiet, pollVars
  <2>3. ASSUME NEW j \in Gates, j \in Present(db)' \ push'[Seed]
        PROVE  conf'[Seed][j] = db'[j] \/ Caught(Seed, j)'
    <3>1. j # k
      BY <1>1, <1>3, <2>1, <2>3 DEF Present
    <3>2. j \in Present(db) \ push[Seed]
      BY <1>2, <2>3 DEF Present
    <3>. QED
      BY <1>2, <1>3, <1>5, <3>1, <3>2 DEF IInv, SeedPushes
  <2>4. SeedPushes'
    BY <2>1, <2>3 DEF SeedPushes
  <2>. QED
    BY <1>6, <2>2, <2>4 DEF IInv
<1>9. CASE Seed \notin cluster
  <2>1. push'[Seed] = {}
    BY <1>2, <1>9 DEF IInv, TypeOK
  <2>2. Quiet'
    BY <1>2, <1>3, <1>7, <1>9, <2>1 DEF IInv, Quiet, pollVars
  <2>3. Present(db)' = {}
    BY <1>2, <1>9, GateTypes DEF IInv, Quiet
  <2>4. SeedPushes'
    BY <2>1, <2>3 DEF SeedPushes
  <2>. QED
    BY <1>6, <2>2, <2>4 DEF IInv
<1>. QED
  BY <1>8, <1>9

LEMMA DeleteInv ==
  ASSUME NEW k \in Gates, IInv, TypeOK', DeleteFeatureGate(k)
  PROVE  IInv'
<1>1. /\ UNCHANGED <<cluster, conf, hookVars, pollVars>>
      /\ db' = [db EXCEPT ![k] = "none"] /\ db[k] # "none"
  BY DEF DeleteFeatureGate
<1>2. /\ db'[k] = "none"
      /\ \A j \in Gates \ {k} : db'[j] = db[j]
  BY <1>1 DEF IInv, TypeOK
<1>3. Quiet'
  <2>1. Seed \in cluster
    BY <1>1 DEF IInv, Quiet, NoGates
  <2>2. gate[Seed] \in Gates
    BY SeedAssumption DEF IInv, TypeOK
  <2>. QED
    BY <1>1, <1>2, <2>1, <2>2 DEF IInv, Quiet, hookVars, pollVars
<1>4. Followers'
  BY <1>1, CaughtKept DEF IInv, Followers
<1>5. SeedPushes'
  BY <1>1, <1>2, CaughtKept, SeedAssumption DEF IInv, SeedPushes, Present, hookVars
<1>. QED
  BY <1>3, <1>4, <1>5 DEF IInv

LEMMA InvStep == OneWriter /\ IInv /\ [Next]_vars => IInv'
<1>. SUFFICES ASSUME OneWriter, IInv, [Next]_vars PROVE IInv'
  OBVIOUS
<1>1. TypeOK'
  BY TypeStep DEF IInv
<1>2. CASE UNCHANGED vars
  <2>1. UNCHANGED <<db, cluster, conf, push, view, pollVars>> /\ UNCHANGED <<call, gate>>
    BY <1>2 DEF vars, hookVars
  <2>. QED
    BY <1>1, <2>1, SeedCalls DEF IInv, Quiet
<1>. QED
  BY <1>1, <1>2, BootstrapInv, JoinInv, RestartInv, HookInv, PollInv, SnapSetInv, DeleteInv
  DEF Next

LEMMA InvAgreement == IInv => Agreement
<1>. SUFFICES ASSUME IInv, NEW n \in cluster, push[n] = {}, ~polling[n],
                     lastKnownGates[n] = db, NEW k \in Present(db)
              PROVE  conf[n][k] = db[k]
  BY DEF Agreement
<1>1. n \in Nodes /\ k \in Gates /\ db[k] # "none"
  BY DEF IInv, TypeOK, Present
<1>2. Caught(n, k) => conf[n][k] = db[k]
  BY <1>1 DEF IInv, Quiet, Caught, Base
<1>3. CASE n = Seed
  BY <1>1, <1>2, <1>3 DEF IInv, SeedPushes
<1>4. CASE n # Seed
  BY <1>1, <1>2, <1>4 DEF IInv, Followers
<1>. QED
  BY <1>3, <1>4

\* While gates are set on the seed only, a node whose syncer is at rest has
\* every gate of the cluster, however hooks, polls, restarts, joins and
\* deletions interleave and however many nodes and gates there are.
THEOREM OneWriterAgrees ==
  ASSUME OneWriter
  PROVE  Spec => []Agreement
<1>1. IInv /\ [Next]_vars => IInv'
  BY InvStep
<1>. QED
  BY <1>1, InvInit, InvAgreement, PTL DEF Spec
=============================================================================
