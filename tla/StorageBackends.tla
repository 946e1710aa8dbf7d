--------------------------- MODULE StorageBackends ---------------------------
(***************************************************************************)
(* `sunbeam storage add` and `remove`.  All backends share one plan and    *)
(* one set of stored variables, which every step reads, changes and writes *)
(* back before it applies the plan; a backend that is not highly available *)
(* runs in the application cinder-volume-noha, deployed with the first and *)
(* destroyed with the last of them.  Commands are given on several nodes   *)
(* at once (each has its own copy of the plan's files), and may be killed. *)
(***************************************************************************)
EXTENDS FiniteSets, Naturals

CONSTANTS
    Sessions,     \* where commands are given
    Backends,     \* names, each of a type of its own
    NonHA,        \* backends whose configuration does not support HA
    MaxStops,     \* bound: commands that fail or are killed
    MaxCommands   \* bound: commands given

Nobody == "nobody"
Killed == "killed"   \* holds the lock of a plan whose command was killed

ASSUME StorageAssumption ==
    /\ NonHA \subseteq Backends
    /\ Nobody \notin Backends \cup Sessions /\ Killed \notin Sessions

VARIABLES
    vars,      \* TerraformVarsStorageBackends: backends, and cinder-volume-noha
    deployed,  \* what the last apply of the plan deployed
    rows,      \* storage backends recorded in clusterd
    answers,   \* backends with stored answers
    types,     \* StorageBackendsEnabled
    lock,      \* the session that applies the plan, or Killed
    pc,        \* pc[s]: the next step of the command of s
    target,    \* target[s]: its backend
    copy,      \* copy[s]: the variables it read and changed
    seen,      \* seen[s]: the enabled types it read
    stopped,   \* backends whose last command did not complete
    overlap,   \* a command wrote what it read before another changed it, see below
    stops, given

world == <<vars, deployed, rows, answers, types, lock>>
sessions == <<pc, target, copy, seen>>
svars == <<world, sessions, stopped, overlap, stops, given>>

NoVars == [backends |-> {}, noha |-> FALSE]

----------------------------------------------------------------------------
Init ==
    /\ vars = NoVars /\ deployed = NoVars /\ rows = {} /\ answers = {} /\ types = {}
    /\ lock = Nobody
    /\ pc = [s \in Sessions |-> "idle"] /\ target = [s \in Sessions |-> Nobody]
    /\ copy = [s \in Sessions |-> NoVars] /\ seen = [s \in Sessions |-> {}]
    /\ stopped = {} /\ overlap = FALSE /\ stops = 0 /\ given = 0

Goto(s, step) == pc' = [pc EXCEPT ![s] = step]

Give(s, b) ==
    /\ pc[s] = "idle" /\ given < MaxCommands
    /\ \A t \in Sessions : target[t] # b
    /\ target' = [target EXCEPT ![s] = b] /\ given' = given + 1
    /\ UNCHANGED <<world, copy, seen, stopped, overlap, stops>>

\* add_backend_instance; the answers are written before the plan runs.
Add(s, b) ==
    /\ Give(s, b) /\ Goto(s, "add answers")

\* Only a recorded backend can be removed.
Remove(s, b) ==
    /\ b \in rows
    /\ Give(s, b) /\ Goto(s, "remove read")

prompt_backend_config(s) ==
    /\ pc[s] = "add answers"
    /\ answers' = answers \cup {target[s]}
    /\ Goto(s, IF target[s] \in NonHA THEN "noha read" ELSE "add read")
    /\ UNCHANGED <<vars, deployed, rows, types, lock, target, copy, seen, stopped, overlap, stops, given>>

----------------------------------------------------------------------------
(* Reading the variables, writing them back with a change, and applying    *)

ReadVars(s, step) ==
    /\ copy' = [copy EXCEPT ![s] = vars]
    /\ Goto(s, step)
    /\ UNCHANGED <<world, target, seen, stopped, overlap, stops, given>>

Stop(s) ==
    /\ pc' = [pc EXCEPT ![s] = "idle"] /\ target' = [target EXCEPT ![s] = Nobody]
    /\ copy' = [copy EXCEPT ![s] = NoVars] /\ seen' = [seen EXCEPT ![s] = {}]
    /\ stopped' = stopped \cup {target[s]}

\* DeploySpecificCinderVolumeStep refuses when the variables of a recorded
\* backend are missing.
DeploySpecificRead(s) ==
    /\ pc[s] = "noha read"
    /\ IF rows \subseteq vars.backends
       THEN ReadVars(s, "noha write")
       ELSE Stop(s) /\ UNCHANGED <<world, overlap, stops, given>>

StorageBackendDeployRead(s) == pc[s] = "add read" /\ ReadVars(s, "add write")

StorageBackendDestroyRead(s) == pc[s] = "remove read" /\ ReadVars(s, "remove write")

DestroySpecificRead(s) == pc[s] = "destroy read" /\ ReadVars(s, "destroy write")

\* What each step changes in the variables it read
Changed(s) ==
    CASE pc[s] = "noha write" -> [copy[s] EXCEPT !.noha = TRUE]
      [] pc[s] = "add write" -> [copy[s] EXCEPT !.backends = @ \cup {target[s]}]
      [] pc[s] = "remove write" -> [copy[s] EXCEPT !.backends = @ \ {target[s]}]
      [] pc[s] = "destroy write" -> [copy[s] EXCEPT !.noha = FALSE]

ApplyStep(s) ==
    CASE pc[s] = "noha write" -> "noha apply"
      [] pc[s] = "add write" -> "add apply"
      [] pc[s] = "remove write" -> "remove apply"
      [] pc[s] = "destroy write" -> "destroy apply"

\* Another command deploys cinder-volume-noha and has not recorded its backend.
NohaInUse(s) ==
    \E t \in Sessions \ {s} :
        target[t] \in NonHA \ rows /\ pc[t] \notin {"idle", "add answers", "noha read"}

\* The backend is recorded too late for a command that found none.
NohaDoomed(s) ==
    \E t \in Sessions \ {s} :
        target[s] \in NonHA /\ pc[t] \in {"destroy read", "destroy write", "destroy apply"}

\* update_tfvars replaces the keys of the variables read before.
update_tfvars(s) ==
    /\ pc[s] \in {"noha write", "add write", "remove write", "destroy write"}
    /\ vars' = Changed(s)
    /\ copy' = [copy EXCEPT ![s] = Changed(s)]
    /\ overlap' = (overlap \/ vars # copy[s] \/ (pc[s] = "destroy write" /\ NohaInUse(s)))
    /\ Goto(s, ApplyStep(s))
    /\ UNCHANGED <<deployed, rows, answers, types, lock, target, seen, stopped, stops, given>>

Applying(s) == pc[s] \in {"noha apply", "add apply", "remove apply", "destroy apply"}

apply(s) ==
    /\ Applying(s) /\ lock = Nobody
    /\ lock' = s
    /\ UNCHANGED <<vars, deployed, rows, answers, types, sessions, stopped, overlap, stops, given>>

\* TerraformStateLockedException: the steps of the backend run again from their
\* start, the steps of cinder-volume-noha fail.
Locked(s) ==
    /\ Applying(s) /\ lock \notin {s, Nobody}
    /\ CASE pc[s] = "add apply" -> Goto(s, "add read")
         [] pc[s] = "remove apply" -> Goto(s, "remove read")
         [] OTHER -> FALSE
    /\ UNCHANGED <<world, target, copy, seen, stopped, overlap, stops, given>>

\* At once, or after five minutes of attempts
LockedFails(s) ==
    /\ Applying(s) /\ lock \notin {s, Nobody}
    /\ Stop(s)
    /\ UNCHANGED <<world, overlap, stops, given>>

\* Another session wrote after this one and has applied before it.
Applied(s) ==
    /\ Applying(s) /\ lock = s
    /\ lock' = Nobody
    /\ deployed' = copy[s]
    /\ overlap' = (overlap \/ vars # copy[s])
    /\ Goto(s, CASE pc[s] = "noha apply" -> "add read"
                 [] pc[s] = "add apply" -> "add row"
                 [] pc[s] = "remove apply" -> "remove row"
                 [] pc[s] = "destroy apply" -> "end")
    /\ UNCHANGED <<vars, rows, answers, types, target, copy, seen, stopped, stops, given>>

----------------------------------------------------------------------------
(* The rows, the answers and the list of types *)

add_storage_backend(s) ==
    /\ pc[s] = "add row"
    /\ rows' = rows \cup {target[s]}
    /\ overlap' = (overlap \/ NohaDoomed(s))
    /\ Goto(s, "types read")
    /\ UNCHANGED <<vars, deployed, answers, types, lock, target, copy, seen, stopped, stops, given>>

\* After wait_application_ready
enable_backend_read(s) ==
    /\ pc[s] = "types read"
    /\ seen' = [seen EXCEPT ![s] = types]
    /\ Goto(s, IF target[s] \in types THEN "end" ELSE "types write")
    /\ UNCHANGED <<world, target, copy, stopped, overlap, stops, given>>

enable_backend_write(s) ==
    /\ pc[s] = "types write"
    /\ types' = seen[s] \cup {target[s]}
    /\ overlap' = (overlap \/ types # seen[s])
    /\ Goto(s, "end")
    /\ UNCHANGED <<vars, deployed, rows, answers, lock, target, copy, seen, stopped, stops, given>>

delete_storage_backend(s) ==
    /\ pc[s] = "remove row"
    /\ rows' = rows \ {target[s]}
    /\ Goto(s, "remove answers")
    /\ UNCHANGED <<vars, deployed, answers, types, lock, target, copy, seen, stopped, overlap, stops, given>>

PrincipalNotRecorded(s) == target[s] \in NonHA

\* DestroySpecificCinderVolumeStep.is_skip
PrincipalUnused(s) == target[s] \in NonHA /\ rows \cap NonHA = {}

delete_config(s) ==
    /\ pc[s] = "remove answers"
    /\ answers' = answers \ {target[s]}
    /\ Goto(s, IF PrincipalUnused(s) THEN "destroy read" ELSE "end")
    /\ UNCHANGED <<vars, deployed, rows, types, lock, target, copy, seen, stopped, overlap, stops, given>>

\* DeployControlPlaneStep, the last of both plans, changes none of this.
Completed(s) ==
    /\ pc[s] = "end"
    /\ pc' = [pc EXCEPT ![s] = "idle"] /\ target' = [target EXCEPT ![s] = Nobody]
    /\ copy' = [copy EXCEPT ![s] = NoVars] /\ seen' = [seen EXCEPT ![s] = {}]
    /\ stopped' = stopped \ {target[s]}
    /\ UNCHANGED <<world, overlap, stops, given>>

\* Killed, perhaps while it applies the plan, or the step fails or times out
Stopped(s) ==
    /\ pc[s] # "idle" /\ stops < MaxStops /\ stops' = stops + 1
    /\ IF lock = s
       THEN deployed' \in {deployed, copy[s]} /\ lock' \in {Nobody, Killed}
       ELSE UNCHANGED <<deployed, lock>>
    /\ overlap' = (overlap \/ (lock = s /\ vars # copy[s]))
    /\ Stop(s)
    /\ UNCHANGED <<vars, rows, answers, types, given>>

\* sunbeam plans unlock
unlock_plan ==
    /\ lock = Killed /\ lock' = Nobody
    /\ UNCHANGED <<vars, deployed, rows, answers, types, sessions, stopped, overlap, stops, given>>

Step(s) ==
    \/ prompt_backend_config(s) \/ DeploySpecificRead(s) \/ StorageBackendDeployRead(s)
    \/ StorageBackendDestroyRead(s) \/ DestroySpecificRead(s) \/ update_tfvars(s)
    \/ apply(s) \/ Locked(s) \/ LockedFails(s) \/ Applied(s)
    \/ add_storage_backend(s) \/ enable_backend_read(s) \/ enable_backend_write(s)
    \/ delete_storage_backend(s) \/ delete_config(s) \/ Completed(s)

Next ==
    \/ \E s \in Sessions :
        \/ Step(s) \/ Stopped(s)
        \/ \E b \in Backends : Add(s, b) \/ Remove(s, b)
    \/ unlock_plan

\* A step goes on, and is not retried for ever.
Fairness == \A s \in Sessions : WF_svars(Step(s)) /\ SF_svars(LockedFails(s))

Spec == Init /\ [][Next]_svars /\ Fairness

----------------------------------------------------------------------------
(* Properties *)

Variables == [backends : SUBSET Backends, noha : BOOLEAN]

TypeOK ==
    /\ vars \in Variables /\ deployed \in Variables /\ copy \in [Sessions -> Variables]
    /\ rows \subseteq answers /\ answers \subseteq Backends /\ types \subseteq Backends
    /\ target \in [Sessions -> Backends \cup {Nobody}] /\ seen \in [Sessions -> SUBSET Backends]
    /\ lock \in Sessions \cup {Nobody, Killed} /\ stopped \subseteq Backends
    /\ \A s \in Sessions : pc[s] = "idle" <=> target[s] = Nobody

AtRest(b) == b \notin stopped /\ \A s \in Sessions : target[s] # b

\* A backend whose last command completed is recorded exactly when the plan's
\* stored variables have it and the plan deployed it, with the application it
\* runs in and its type enabled, and cinder-volume-noha is gone with the last
\* backend that used it, whatever commands on other backends were stopped half
\* way.  Only commands that overlapped can make it otherwise.
RecordedIsDeployed ==
    \/ overlap
    \/ /\ \A b \in Backends : AtRest(b) =>
             /\ b \in rows <=> b \in vars.backends
             /\ b \in rows <=> b \in deployed.backends
             /\ b \in rows => b \in types /\ (b \in NonHA => vars.noha /\ deployed.noha)
       /\ (\A b \in NonHA : AtRest(b) /\ b \notin rows) => ~deployed.noha

\* Every command ends, also when two of them meet at the lock of the plan.
CommandsEnd == \A s \in Sessions : pc[s] # "idle" ~> pc[s] = "idle"

=============================================================================
