---------------------------- MODULE MaasMachines ----------------------------
(***************************************************************************)
(* Machines of a MAAS deployment in three books: MAAS itself (which system *)
(* carries a host name and which roles it is tagged with), the node rows   *)
(* of clusterd, and the machines of two Juju models, one for the machines  *)
(* that run clusterd and one for the others.  `sunbeam cluster bootstrap`, *)
(* `deploy` and `remove` copy from one book to the next, step by step, and *)
(* can be killed between two steps and given again.                        *)
(* One command runs at a time.                                             *)
(***************************************************************************)
EXTENDS Naturals, Integers, Sequences, FiniteSets, SequencesExt, FiniteSetsExt, Functions

CONSTANTS
    Infra, Workers,     \* hosts tagged sunbeam, and the other hosts
    Dpus,               \* the workers that are DPUs
    Removable,          \* hosts an operator removes
    Systems,            \* bound: system ids; each new one is larger
    MaxInfra, MaxMachines,   \* bounds: machines ever added to each model
    MaxFaults           \* bound: commands killed, machines that fail to deploy

Hosts == Infra \cup Workers
Models == {"infra", "machines"}
Nothing == [sys |-> 0, mid |-> -1]    \* no row

VARIABLES
    maas,     \* maas[h]: the system that carries name h (and its tags)
    rows,     \* rows[h]: node row of clusterd, or Nothing
    juju,     \* juju[m]: machines of model m; the id of a machine is its place
    cmd,      \* the running command and its host
    pc,
    todo,     \* hosts to write, to place; what is_skip read, kept until run
    sync,     \* hosts whose id is copied from Juju
    faults

vars == <<maas, rows, juju, cmd, pc, todo, sync, faults>>

NoCmd == [kind |-> "none", host |-> "none"]
Fault == faults < MaxFaults /\ faults' = faults + 1
Ids(m) == 0..(Len(juju[m]) - 1)
Machine(m, id) == juju[m][id + 1]
Present(m) == {id \in Ids(m) : Machine(m, id).st # "gone"}
Rows == {h \in Hosts : rows[h] # Nothing}
Went(p) == pc' = p /\ UNCHANGED cmd
End == cmd' = NoCmd /\ pc' = "none" /\ todo' = {} /\ sync' = {}

\* A machine is "pending" until its instance id is known, "started" until its
\* agent reports "Deployed"; "error" if it got no instance.
Known == {"started", "deployed", "dying"}

\* The host name comes with the agent, the instance id and the display name
\* with the instance.
MatchesHostname(h, machine) == machine.st \in {"deployed", "dying"} /\ machine.host = h

_node_matches_juju_machine(h, machine) ==
    machine.st \in Known /\ (machine.host = h \/ machine.sys = rows[h].sys)

MatchOf(h, m) == {id \in Present(m) : _node_matches_juju_machine(h, Machine(m, id))}

\* wait_all_machines_deployed looks at every machine of the model; a machine
\* on its way out still reads "Deployed".
AllDeployed(m) == \A id \in Present(m) : Machine(m, id).st \in {"deployed", "dying"}

----------------------------------------------------------------------------
Init ==
    /\ LET system == CHOOSE f \in [Hosts -> Systems] : IsInjective(f) /\ \A h \in Hosts : f[h] <= Cardinality(Hosts)
       IN  maas = system
    /\ rows = [h \in Hosts |-> Nothing]
    /\ juju = [m \in Models |-> <<>>]
    /\ cmd = NoCmd /\ pc = "none" /\ todo = {} /\ sync = {} /\ faults = 0

\* The bound on machines stops commands before they start.
Room(m, hosts, max) == Len(juju[m]) + Cardinality(hosts) <= max

Bootstrap ==
    /\ cmd = NoCmd /\ Room("infra", Infra, MaxInfra) /\ cmd' = [NoCmd EXCEPT !.kind = "bootstrap"] /\ pc' = "infra"
    /\ UNCHANGED <<maas, rows, juju, todo, sync, faults>>

\* clusterd answers
Bootstrapped == \E h \in Infra : rows[h].mid # -1

Deploy ==
    /\ cmd = NoCmd /\ Bootstrapped /\ Room("machines", Workers, MaxMachines)
    /\ cmd' = [NoCmd EXCEPT !.kind = "deploy"] /\ pc' = "rows"
    /\ UNCHANGED <<maas, rows, juju, todo, sync, faults>>

----------------------------------------------------------------------------
(* MaasDeployInfraMachinesStep *)

Placed(m, h, sys) == juju' = [juju EXCEPT ![m] = Append(@, [host |-> h, sys |-> sys, st |-> "pending"])]

SelectInfra ==
    /\ pc = "infra"
    /\ LET found == {h \in Infra : \E id \in Present("infra") : MatchesHostname(h, Machine("infra", id))}
       IN  todo' = Infra \ found
    /\ Went(IF todo' = {} THEN "infra_up" ELSE "place_infra")
    /\ UNCHANGED <<maas, rows, juju, sync, faults>>

PlaceInfra ==
    /\ pc = "place_infra"
    /\ IF todo = {} THEN Went("infra_wait") /\ UNCHANGED <<todo, juju>>
       ELSE /\ \E h \in todo : Placed("infra", h, maas[h]) /\ todo' = todo \ {h}
            /\ UNCHANGED <<pc, cmd>>
    /\ UNCHANGED <<maas, rows, sync, faults>>

InfraReady ==
    /\ pc = "infra_wait" /\ AllDeployed("infra")
    /\ Went("infra_up")
    /\ UNCHANGED <<maas, rows, juju, todo, sync, faults>>

\* Clusterd is deployed on these machines and its credentials are saved.
InfraUp ==
    /\ pc = "infra_up"
    /\ Went("rows")
    /\ UNCHANGED <<maas, rows, juju, todo, sync, faults>>

----------------------------------------------------------------------------
(* MaasAddMachinesToClusterdStep: new rows, and rows whose system (or      *)
(* roles, architecture, image) changed, keep their machine id.             *)

SelectRows ==
    /\ pc = "rows"
    /\ todo' = {h \in Hosts : rows[h].sys # maas[h]}
    /\ Went("write_rows")
    /\ UNCHANGED <<maas, rows, juju, sync, faults>>

WriteRow ==
    /\ pc = "write_rows"
    /\ IF todo = {}
       THEN Went(IF cmd.kind = "bootstrap" THEN "infra_ids" ELSE "select") /\ UNCHANGED <<todo, rows>>
       ELSE \E h \in todo : /\ rows' = [rows EXCEPT ![h].sys = maas[h]]
                            /\ todo' = todo \ {h} /\ UNCHANGED <<pc, cmd>>
    /\ UNCHANGED <<maas, juju, sync, faults>>

\* UpdateJujuMachineIDStep of the infra model
UpdateInfraIds ==
    /\ pc = "infra_ids"
    /\ LET Of(h) == {id \in Present("infra") : MatchesHostname(h, Machine("infra", id))}
           wrong == {h \in Rows : \E id \in Of(h) :
                        \/ rows[h].mid \notin {-1, id}
                        \/ Machine("infra", id).sys # rows[h].sys}
       IN  rows' = IF wrong # {} THEN rows
                   ELSE [h \in Hosts |-> IF h \in Rows /\ rows[h].mid = -1 /\ Of(h) # {}
                                         THEN [rows[h] EXCEPT !.mid = Min(Of(h))] ELSE rows[h]]
    /\ End
    /\ UNCHANGED <<maas, juju, faults>>

----------------------------------------------------------------------------
(* MaasDeployMachinesStep *)

ToDeploy == {h \in Rows \cap Workers : MatchOf(h, "machines") = {}}
ToUpdate == {h \in Rows \cap Workers : MatchOf(h, "machines") # {} /\ rows[h].mid = -1}

\* The machine of another id, or of another system
MismatchOfIds(h) ==
    LET id == Min(MatchOf(h, "machines"))
    IN  MatchOf(h, "machines") # {} /\ rows[h].mid \notin {-1, id}

Mismatch(h) ==
    LET id == Min(MatchOf(h, "machines"))
    IN  MatchOf(h, "machines") # {}
        /\ (rows[h].mid \notin {-1, id} \/ Machine("machines", id).sys # rows[h].sys)

Select ==
    /\ pc = "select"
    /\ IF Rows = {} \/ \E h \in Rows \cap Workers : Mismatch(h) THEN End
       ELSE /\ todo' = ToDeploy /\ sync' = ToUpdate
            /\ Went(IF ToDeploy \cup ToUpdate = {} THEN "rest" ELSE "place")
    /\ UNCHANGED <<maas, rows, juju, faults>>

\* _partition_nodes_by_dpu: DPUs come after all others.
Batch == IF todo \ Dpus # {} THEN todo \ Dpus ELSE todo

\* add_machine; the id is written by the next call.
AddMachine ==
    /\ pc = "place" /\ todo # {}
    /\ \E h \in Batch :
          /\ Placed("machines", h, rows[h].sys)
          /\ pc' = "store" /\ cmd' = [cmd EXCEPT !.host = h]
    /\ UNCHANGED <<maas, rows, todo, sync, faults>>

\* The batch ends with the last host of its kind.
StoreId ==
    /\ pc = "store"
    /\ rows' = [rows EXCEPT ![cmd.host].mid = Len(juju["machines"]) - 1]
    /\ todo' = todo \ {cmd.host} /\ cmd' = [cmd EXCEPT !.host = "none"]
    /\ pc' = IF Batch \ {cmd.host} # {} THEN "place" ELSE "sync"
    /\ UNCHANGED <<maas, juju, sync, faults>>

NothingToPlace ==
    /\ pc = "place" /\ todo = {}
    /\ Went("sync")
    /\ UNCHANGED <<maas, rows, juju, todo, sync, faults>>

_sync_updated_node_machine_ids ==
    /\ pc = "sync"
    /\ rows' = [h \in Hosts |-> IF h \in sync /\ MatchOf(h, "machines") # {}
                                THEN [rows[h] EXCEPT !.mid = Min(MatchOf(h, "machines"))] ELSE rows[h]]
    /\ Went("wait")
    /\ UNCHANGED <<maas, juju, todo, sync, faults>>

WaitDone ==
    /\ pc = "wait" /\ AllDeployed("machines")
    /\ Went(IF todo = {} THEN "rest" ELSE "place")
    /\ UNCHANGED <<maas, rows, juju, todo, sync, faults>>

\* The rest of the deployment: counts of roles, then the plans of the applications
Rest ==
    /\ pc = "rest" /\ End
    /\ UNCHANGED <<maas, rows, juju, faults>>

Timeout ==
    /\ \/ pc = "wait" /\ ~ AllDeployed("machines")
       \/ pc = "infra_wait" /\ ~ AllDeployed("infra")
    /\ End
    /\ UNCHANGED <<maas, rows, juju, faults>>

----------------------------------------------------------------------------
(* remove_node; the units on the machine go before it does.               *)

RemoveNode(h) ==
    /\ cmd = NoCmd /\ Bootstrapped /\ h \in Removable /\ h \in Rows
    /\ cmd' = [kind |-> "remove", host |-> h] /\ pc' = "remove_machine"
    /\ UNCHANGED <<maas, rows, juju, todo, sync, faults>>

\* RemoveJujuMachineStep takes the id of the row for one of the machines model,
\* and does not wait.
RemoveJujuMachine ==
    /\ pc = "remove_machine"
    /\ LET id == rows[cmd.host].mid
       IN  juju' = IF id \in Present("machines")
                   THEN [juju EXCEPT !["machines"][id + 1].st = IF @ = "pending" THEN "gone" ELSE "dying"]
                   ELSE juju
    /\ Went("remove_row")
    /\ UNCHANGED <<maas, rows, todo, sync, faults>>

RemoveMachineFromClusterd ==
    /\ pc = "remove_row"
    /\ rows' = [rows EXCEPT ![cmd.host] = Nothing]
    /\ End
    /\ UNCHANGED <<maas, juju, faults>>

----------------------------------------------------------------------------
(* Kills, MAAS and Juju *)

Killed ==
    /\ pc # "none" /\ Fault /\ End
    /\ UNCHANGED <<maas, rows, juju>>

Holds(m, id) == Machine(m, id).st \in Known
Taken(sys) == \E m \in Models : \E id \in Ids(m) : Holds(m, id) /\ Machine(m, id).sys = sys

\* MAAS gives the system that was asked for, unless another machine has it or
\* it was taken out of MAAS.
Provision(m, id) ==
    /\ Machine(m, id).st = "pending"
    /\ LET x == Machine(m, id)
       IN  juju' = [juju EXCEPT ![m][id + 1].st =
                       IF Taken(x.sys) \/ maas[x.host] # x.sys THEN "error" ELSE "started"]
    /\ UNCHANGED <<maas, rows, cmd, pc, todo, sync, faults>>

ProvisionFails(m, id) ==
    /\ Machine(m, id).st = "pending" /\ Fault
    /\ juju' = [juju EXCEPT ![m][id + 1].st = "error"]
    /\ UNCHANGED <<maas, rows, cmd, pc, todo, sync>>

AgentUp(m, id) ==
    /\ Machine(m, id).st = "started"
    /\ juju' = [juju EXCEPT ![m][id + 1].st = "deployed"]
    /\ UNCHANGED <<maas, rows, cmd, pc, todo, sync, faults>>

MachineGone(m, id) ==
    /\ Machine(m, id).st = "dying"
    /\ juju' = [juju EXCEPT ![m][id + 1].st = "gone"]
    /\ UNCHANGED <<maas, rows, cmd, pc, todo, sync, faults>>

\* The operator takes a system out of MAAS and gives its name to another one.
Replace(h) ==
    /\ cmd = NoCmd
    /\ \E sys \in Systems : (\A g \in Hosts : maas[g] < sys) /\ maas' = [maas EXCEPT ![h] = sys]
    /\ UNCHANGED <<rows, juju, cmd, pc, todo, sync, faults>>

----------------------------------------------------------------------------
Steps ==
    \/ SelectInfra \/ PlaceInfra \/ InfraReady \/ InfraUp \/ SelectRows \/ WriteRow
    \/ UpdateInfraIds \/ Select \/ AddMachine \/ StoreId \/ NothingToPlace
    \/ _sync_updated_node_machine_ids \/ WaitDone \/ Rest \/ Timeout
    \/ RemoveJujuMachine \/ RemoveMachineFromClusterd

World ==
    \E m \in Models : \E id \in Ids(m) :
       Provision(m, id) \/ ProvisionFails(m, id) \/ AgentUp(m, id) \/ MachineGone(m, id)

Next ==
    \/ Bootstrap \/ Deploy \/ Steps \/ Killed \/ World
    \/ \E h \in Hosts : RemoveNode(h) \/ (h \in Workers /\ Replace(h))

\* A command goes on; its waits end, one way or the other.
Spec == Init /\ [][Next]_vars /\ WF_vars(Steps)

----------------------------------------------------------------------------
(* Properties *)

Row == [sys : Systems \cup {0}, mid : Int]

TypeOK ==
    /\ maas \in [Hosts -> Systems]
    /\ rows \in [Hosts -> Row]
    /\ \A h \in Hosts : rows[h].mid \in {-1} \cup Ids(IF h \in Infra THEN "infra" ELSE "machines")
    /\ \A m \in Models : \A id \in Ids(m) :
          /\ Machine(m, id).host \in Hosts /\ Machine(m, id).sys \in Systems
          /\ Machine(m, id).st \in Known \cup {"pending", "error", "gone"}
    /\ (pc = "none") = (cmd = NoCmd) /\ (pc = "none" => todo = {} /\ sync = {})

\* What `deploy` decides about the machines is right, however often it was
\* killed and machines were removed or replaced.  When it goes on to the
\* applications, the id in every row is that of a machine of this host and of
\* the system MAAS had for it, with an instance, or the machine it found is one
\* that a removal was still taking away; and it refuses a host only if its
\* system was replaced under it, or if a second machine was added for it.
GoesOnRight ==
    pc = "rest" /\ pc' = "none" /\ faults' = faults =>
        \A h \in Rows \cap Workers :
           \/ rows[h].mid = -1 /\ \E id \in Ids("machines") :
                 Machine("machines", id).host = h /\ Machine("machines", id).st = "gone"
           \/ LET x == Machine("machines", rows[h].mid)
              IN  x.host = h /\ x.sys = rows[h].sys /\ x.st \in Known \cup {"gone"}

RefusesRight ==
    pc = "select" /\ pc' = "none" /\ faults' = faults /\ Rows # {} =>
        \E h \in Workers, a \in Ids("machines") :
           /\ Machine("machines", a).host = h
           /\ \/ Machine("machines", a).sys # rows[h].sys
              \/ \E b \in Ids("machines") \ {a} : Machine("machines", b).host = h

DeployedRight == [][GoesOnRight /\ RefusesRight]_vars

\* "Removing machine {name} from Juju model"
OnlyItsOwnMachine ==
    [][\A id \in Ids("machines") :
          cmd.kind = "remove" /\ Machine("machines", id).st \in {"pending", "started", "deployed"}
          /\ juju'["machines"][id + 1].st \in {"dying", "gone"} => Machine("machines", id).host = cmd.host]_vars

=============================================================================
