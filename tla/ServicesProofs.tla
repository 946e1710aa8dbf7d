--------------------------- MODULE ServicesProofs ---------------------------
(***************************************************************************)
(* For any sessions, backends, units, providers, routers and bounds: the   *)
(* state of each part of MCServices has its types; a storage backend at    *)
(* rest is recorded exactly when it is stored and deployed, unless         *)
(* commands overlapped; a vault of dev mode opens with the keys that are   *)
(* stored; an identity provider is configured, stored and deployed alike;  *)
(* MySQL is upgraded in the order its charm demands; and a bootstrap of    *)
(* the Juju controller that succeeds leaves one controller.                *)
(***************************************************************************)
EXTENDS MCServices, FiniteSetTheorems, SequenceTheorems, TLAPS

----------------------------------------------------------------------------
(***************************************************************************)
(* Storage backends: what two sessions record, store and deploy            *)
(***************************************************************************)

Adding == {"add answers", "noha read", "noha write", "noha apply", "add read", "add write",
           "add apply", "add row", "types read", "types write"}
Removing == {"remove read", "remove write", "remove apply", "remove row", "remove answers",
             "destroy read", "destroy write", "destroy apply"}
Destroying == {"destroy read", "destroy write", "destroy apply"}
Steps == Adding \cup Removing \cup {"idle", "end"}

----------------------------------------------------------------------------
(* Type correctness, whatever overlaps                                     *)

\* A command has a backend of its own, which no other command has.
OwnTarget ==
    \A s, t \in Sessions : s # t /\ target[s] = target[t] => target[s] = Nobody

\* Answers are written before anything else of a backend, and deleted last.
AnswersFirst ==
    \A s \in Sessions :
        /\ pc[s] \in Adding \ {"add answers"} => target[s] \in answers
        /\ pc[s] \in {"remove answers"} \cup Destroying => target[s] \notin rows

\* Only a command that applies the plan has its lock.
LockApplies == \A s \in Sessions : lock = s => Applying(s)

TypeInv == TypeOK /\ pc \in [Sessions -> Steps] /\ OwnTarget /\ AnswersFirst /\ LockApplies

----------------------------------------------------------------------------
(* What holds while no two commands overlapped                             *)

\* Recorded, stored and deployed alike.
InPlace(b) ==
    /\ b \in rows <=> b \in vars.backends
    /\ b \in rows <=> b \in deployed.backends
    /\ b \in rows => b \in types /\ (b \in NonHA => vars.noha /\ deployed.noha)

RestInPlace == \A b \in Backends : AtRest(b) => InPlace(b)

\* The application of a backend that is not highly available, while its command
\* goes on: deployed first, and kept until the last such backend is gone.
NohaFirst(s) ==
    /\ pc[s] \in {"noha read", "noha write", "noha apply"} => target[s] \in NonHA
    /\ pc[s] = "noha apply" => copy[s].noha
    /\ pc[s] \in {"add read", "add write", "add apply", "add row", "types read", "types write"}
         => (target[s] \in NonHA => vars.noha /\ deployed.noha)

NohaLast(s) ==
    /\ pc[s] \in Destroying => target[s] \in NonHA /\ \A b \in NonHA : b \notin rows
    /\ pc[s] = "destroy apply" => ~copy[s].noha

\* How far an added backend is: stored, deployed, recorded.
AddedSoFar(s) ==
    /\ pc[s] = "add apply" => target[s] \in copy[s].backends
    /\ pc[s] \in {"add apply", "add row", "types read", "types write"}
         => target[s] \in vars.backends
    /\ pc[s] \in {"add row", "types read", "types write"} => target[s] \in deployed.backends
    /\ pc[s] \in {"types read", "types write"} => target[s] \in rows

RemovedSoFar(s) ==
    /\ pc[s] = "remove apply" => target[s] \notin copy[s].backends
    /\ pc[s] \in {"remove apply", "remove row", "remove answers"} \cup Destroying
         => target[s] \notin vars.backends
    /\ pc[s] \in {"remove row", "remove answers"} \cup Destroying
         => target[s] \notin deployed.backends

\* What a command has achieved so far.
Achieved(s) ==
    /\ NohaFirst(s) /\ NohaLast(s) /\ AddedSoFar(s) /\ RemovedSoFar(s)
    /\ pc[s] = "end" => InPlace(target[s])

\* A reason for cinder-volume-noha to be there: a backend that is recorded, or
\* whose command goes on or stopped.
Uses(b) ==
    \/ b \in rows
    \/ \E s \in Sessions : target[s] = b /\ pc[s] # "end"
    \/ b \in stopped /\ \A s \in Sessions : target[s] # b

NohaIsUsed == vars.noha \/ deployed.noha => \E b \in NonHA : Uses(b)

PlaceInv == RestInPlace /\ (\A s \in Sessions : Achieved(s)) /\ NohaIsUsed

IInv == TypeInv /\ (overlap \/ PlaceInv)
----------------------------------------------------------------------------
LEMMA TypeInit == Init => TypeInv
BY StorageAssumption DEF Init, TypeInv, TypeOK, Variables, NoVars, OwnTarget, AnswersFirst,
   LockApplies, Steps, Adding, Removing, Destroying

\* A step that changes the stored variables keeps them variables.
LEMMA ChangedType ==
  ASSUME TypeInv, NEW s \in Sessions,
         pc[s] \in {"noha write", "add write", "remove write", "destroy write"}
  PROVE  Changed(s) \in Variables
<1> USE DEF TypeInv, TypeOK, Variables, Changed
<1>1. target[s] \in Backends /\ copy[s] \in Variables
  OBVIOUS
<1>2. CASE pc[s] = "noha write"
  BY <1>1, <1>2
<1>3. CASE pc[s] = "add write"
  BY <1>1, <1>3
<1>4. CASE pc[s] = "remove write"
  BY <1>1, <1>4
<1>5. CASE pc[s] = "destroy write"
  BY <1>1, <1>5
<1> QED
  BY <1>2, <1>3, <1>4, <1>5

\* Reading the variables, and stopping, change one session only.
LEMMA ReadTypes ==
  ASSUME TypeInv, NEW s \in Sessions, NEW step, ReadVars(s, step),
         <<pc[s], step>> \in {<<"noha read", "noha write">>, <<"add read", "add write">>,
                              <<"remove read", "remove write">>, <<"destroy read",
                                  "destroy write">>}
  PROVE  TypeInv'
<1> USE StorageAssumption
    DEF TypeInv, Steps, Adding, Removing, Destroying, world, ReadVars, Goto
<1>1. TypeOK' /\ (pc \in [Sessions -> Steps])'
  BY DEF TypeOK, Variables
<1>2. OwnTarget' /\ AnswersFirst'
  BY DEF TypeOK, OwnTarget, AnswersFirst
<1>3. LockApplies'
  BY DEF TypeOK, LockApplies, Applying
<1> QED
  BY <1>1, <1>2, <1>3

LEMMA StopTypes ==
  ASSUME TypeInv, NEW s \in Sessions, pc[s] # "idle", Stop(s),
         UNCHANGED <<vars, rows, answers, types>>, deployed' \in {deployed, copy[s]},
         lock' \in {lock, Nobody, Killed}, lock' # s
  PROVE  TypeInv'
<1> USE StorageAssumption
    DEF TypeInv, Steps, Adding, Removing, Destroying, Stop
<1>1. TypeOK' /\ (pc \in [Sessions -> Steps])'
  <2>1. target[s] \in Backends
    BY DEF TypeOK
  <2>2. copy' \in [Sessions -> Variables] /\ seen' \in [Sessions -> SUBSET Backends]
    BY DEF TypeOK, Variables, NoVars
  <2>3. /\ target' \in [Sessions -> Backends \cup {Nobody}] /\ pc' \in [Sessions -> Steps]
        /\ \A t \in Sessions : pc'[t] = "idle" <=> target'[t] = Nobody
    BY DEF TypeOK
  <2>4. lock' \in Sessions \cup {Nobody, Killed}
    BY DEF TypeOK
  <2>5. copy[s] \in Variables /\ deployed \in Variables
    BY DEF TypeOK
  <2>6. deployed' \in Variables
    BY <2>5
  <2> QED
    BY <2>1, <2>2, <2>3, <2>4, <2>6 DEF TypeOK
<1>2. OwnTarget' /\ AnswersFirst'
  BY DEF TypeOK, OwnTarget, AnswersFirst
<1>3. LockApplies'
  BY DEF TypeOK, LockApplies, Applying
<1> QED
  BY <1>1, <1>2, <1>3

LEMMA TypeStep == TypeInv /\ [Next]_svars => TypeInv'
<1> SUFFICES ASSUME TypeInv, [Next]_svars PROVE TypeInv'
  OBVIOUS
<1> USE StorageAssumption
    DEF TypeInv, Steps, Adding, Removing, Destroying, world, sessions, Goto
<1>1. ASSUME NEW s \in Sessions, NEW b \in Backends, Add(s, b) PROVE TypeInv'
  <2>1. TypeOK' /\ (pc \in [Sessions -> Steps])'
    BY <1>1 DEF TypeOK, Variables, Add, Give, Applying
  <2>2. OwnTarget'
    BY <1>1 DEF TypeOK, OwnTarget, Add, Give
  <2>3. AnswersFirst'
    BY <1>1 DEF TypeOK, OwnTarget, AnswersFirst, Add, Give, Applying
  <2>4. LockApplies'
    BY <1>1 DEF TypeOK, LockApplies, Applying, Add, Give
  <2> QED
    BY <2>1, <2>2, <2>3, <2>4
<1>2. ASSUME NEW s \in Sessions, NEW b \in Backends, Remove(s, b) PROVE TypeInv'
  <2>1. TypeOK' /\ (pc \in [Sessions -> Steps])'
    BY <1>2 DEF TypeOK, Variables, Remove, Give, Applying
  <2>2. OwnTarget'
    BY <1>2 DEF TypeOK, OwnTarget, Remove, Give
  <2>3. AnswersFirst'
    BY <1>2 DEF TypeOK, OwnTarget, AnswersFirst, Remove, Give, Applying
  <2>4. LockApplies'
    BY <1>2 DEF TypeOK, LockApplies, Applying, Remove, Give
  <2> QED
    BY <2>1, <2>2, <2>3, <2>4
<1>3. ASSUME NEW s \in Sessions, prompt_backend_config(s) PROVE TypeInv'
  <2>1. TypeOK' /\ (pc \in [Sessions -> Steps])'
    <3>1. /\ vars' \in Variables /\ deployed' \in Variables /\ copy' \in [Sessions -> Variables]
          /\ seen' \in [Sessions -> SUBSET Backends]
      BY <1>3 DEF TypeOK, Variables, prompt_backend_config, Applying
    <3>2. rows' \subseteq answers' /\ answers' \subseteq Backends /\ types' \subseteq Backends
      BY <1>3 DEF TypeOK, AnswersFirst, prompt_backend_config
    <3>3. /\ target' \in [Sessions -> Backends \cup {Nobody}] /\ pc' \in [Sessions -> Steps]
          /\ lock' \in Sessions \cup {Nobody, Killed} /\ stopped' \subseteq Backends
      BY <1>3 DEF TypeOK, prompt_backend_config, Applying
    <3>4. \A t \in Sessions : pc'[t] = "idle" <=> target'[t] = Nobody
      BY <1>3 DEF TypeOK, prompt_backend_config, Applying
    <3> QED
      BY <3>1, <3>2, <3>3, <3>4 DEF TypeOK
  <2>2. OwnTarget'
    BY <1>3 DEF TypeOK, OwnTarget, prompt_backend_config
  <2>3. AnswersFirst'
    BY <1>3 DEF TypeOK, OwnTarget, AnswersFirst, prompt_backend_config, Applying
  <2>4. LockApplies'
    BY <1>3 DEF TypeOK, LockApplies, Applying, prompt_backend_config
  <2> QED
    BY <2>1, <2>2, <2>3, <2>4
<1>4. ASSUME NEW s \in Sessions, DeploySpecificRead(s) PROVE TypeInv'
  <2>1. CASE rows \subseteq vars.backends
    BY <1>4, <2>1, ReadTypes DEF DeploySpecificRead
  <2>2. CASE ~(rows \subseteq vars.backends)
    BY <1>4, <2>2, StopTypes DEF DeploySpecificRead, LockApplies, Applying
  <2> QED
    BY <2>1, <2>2
<1>5. ASSUME NEW s \in Sessions, StorageBackendDeployRead(s) PROVE TypeInv'
  BY <1>5, ReadTypes DEF StorageBackendDeployRead
<1>6. ASSUME NEW s \in Sessions, StorageBackendDestroyRead(s) PROVE TypeInv'
  BY <1>6, ReadTypes DEF StorageBackendDestroyRead
<1>7. ASSUME NEW s \in Sessions, DestroySpecificRead(s) PROVE TypeInv'
  BY <1>7, ReadTypes DEF DestroySpecificRead
<1>8. ASSUME NEW s \in Sessions, update_tfvars(s) PROVE TypeInv'
  <2>1. TypeOK' /\ (pc \in [Sessions -> Steps])'
    <3>1. /\ vars' \in Variables /\ deployed' \in Variables /\ copy' \in [Sessions -> Variables]
          /\ seen' \in [Sessions -> SUBSET Backends]
      BY <1>8, ChangedType DEF TypeOK, update_tfvars
    <3>2. rows' \subseteq answers' /\ answers' \subseteq Backends /\ types' \subseteq Backends
      BY <1>8 DEF TypeOK, AnswersFirst, update_tfvars, Changed, ApplyStep
    <3>3. /\ target' \in [Sessions -> Backends \cup {Nobody}] /\ pc' \in [Sessions -> Steps]
          /\ lock' \in Sessions \cup {Nobody, Killed} /\ stopped' \subseteq Backends
      BY <1>8 DEF TypeOK, update_tfvars, Changed, ApplyStep, Applying
    <3>4. \A t \in Sessions : pc'[t] = "idle" <=> target'[t] = Nobody
      BY <1>8 DEF TypeOK, update_tfvars, Changed, ApplyStep, Applying
    <3> QED
      BY <3>1, <3>2, <3>3, <3>4 DEF TypeOK
  <2>2. OwnTarget'
    BY <1>8 DEF TypeOK, OwnTarget, update_tfvars, Changed, ApplyStep
  <2>3. AnswersFirst'
    BY <1>8 DEF TypeOK, OwnTarget, AnswersFirst, update_tfvars, Changed, ApplyStep, Applying
  <2>4. LockApplies'
    BY <1>8 DEF TypeOK, LockApplies, Applying, update_tfvars, Changed, ApplyStep
  <2> QED
    BY <2>1, <2>2, <2>3, <2>4
<1>9. ASSUME NEW s \in Sessions, apply(s) PROVE TypeInv'
  <2>1. TypeOK' /\ (pc \in [Sessions -> Steps])'
    BY <1>9 DEF TypeOK, Variables, apply, Applying
  <2>2. OwnTarget'
    BY <1>9 DEF TypeOK, OwnTarget, apply
  <2>3. AnswersFirst'
    BY <1>9 DEF TypeOK, OwnTarget, AnswersFirst, apply, Applying
  <2>4. LockApplies'
    BY <1>9 DEF TypeOK, LockApplies, Applying, apply
  <2> QED
    BY <2>1, <2>2, <2>3, <2>4
<1>10. ASSUME NEW s \in Sessions, Locked(s) PROVE TypeInv'
  <2>1. TypeOK' /\ (pc \in [Sessions -> Steps])'
    <3>1. /\ vars' \in Variables /\ deployed' \in Variables /\ copy' \in [Sessions -> Variables]
          /\ seen' \in [Sessions -> SUBSET Backends]
      BY <1>10 DEF TypeOK, Variables, Locked, Applying
    <3>2. rows' \subseteq answers' /\ answers' \subseteq Backends /\ types' \subseteq Backends
      BY <1>10 DEF TypeOK, AnswersFirst, Locked
    <3>3. /\ target' \in [Sessions -> Backends \cup {Nobody}] /\ pc' \in [Sessions -> Steps]
          /\ lock' \in Sessions \cup {Nobody, Killed} /\ stopped' \subseteq Backends
      BY <1>10 DEF TypeOK, Locked, Applying
    <3>4. \A t \in Sessions : pc'[t] = "idle" <=> target'[t] = Nobody
      BY <1>10 DEF TypeOK, Locked, Applying
    <3> QED
      BY <3>1, <3>2, <3>3, <3>4 DEF TypeOK
  <2>2. OwnTarget'
    BY <1>10 DEF TypeOK, OwnTarget, Locked
  <2>3. AnswersFirst'
    BY <1>10 DEF TypeOK, OwnTarget, AnswersFirst, Locked, Applying
  <2>4. LockApplies'
    BY <1>10 DEF TypeOK, LockApplies, Applying, Locked
  <2> QED
    BY <2>1, <2>2, <2>3, <2>4
<1>11. ASSUME NEW s \in Sessions, LockedFails(s) PROVE TypeInv'
  BY <1>11, StopTypes DEF LockedFails, Applying
<1>12. ASSUME NEW s \in Sessions, Applied(s) PROVE TypeInv'
  <2>1. TypeOK' /\ (pc \in [Sessions -> Steps])'
    BY <1>12 DEF TypeOK, Variables, Applied, Applying
  <2>2. OwnTarget'
    BY <1>12 DEF TypeOK, OwnTarget, Applied
  <2>3. AnswersFirst'
    BY <1>12 DEF TypeOK, OwnTarget, AnswersFirst, Applied, Applying
  <2>4. LockApplies'
    BY <1>12 DEF TypeOK, LockApplies, Applying, Applied
  <2> QED
    BY <2>1, <2>2, <2>3, <2>4
<1>13. ASSUME NEW s \in Sessions, add_storage_backend(s) PROVE TypeInv'
  <2>1. TypeOK' /\ (pc \in [Sessions -> Steps])'
    <3>1. /\ vars' \in Variables /\ deployed' \in Variables /\ copy' \in [Sessions -> Variables]
          /\ seen' \in [Sessions -> SUBSET Backends]
      BY <1>13 DEF TypeOK, Variables, add_storage_backend, Applying
    <3>2. rows' \subseteq answers' /\ answers' \subseteq Backends /\ types' \subseteq Backends
      BY <1>13 DEF TypeOK, AnswersFirst, add_storage_backend
    <3>3. /\ target' \in [Sessions -> Backends \cup {Nobody}] /\ pc' \in [Sessions -> Steps]
          /\ lock' \in Sessions \cup {Nobody, Killed} /\ stopped' \subseteq Backends
      BY <1>13 DEF TypeOK, add_storage_backend, Applying
    <3>4. \A t \in Sessions : pc'[t] = "idle" <=> target'[t] = Nobody
      BY <1>13 DEF TypeOK, add_storage_backend, Applying
    <3> QED
      BY <3>1, <3>2, <3>3, <3>4 DEF TypeOK
  <2>2. OwnTarget'
    BY <1>13 DEF TypeOK, OwnTarget, add_storage_backend
  <2>3. AnswersFirst'
    BY <1>13 DEF TypeOK, OwnTarget, AnswersFirst, add_storage_backend, Applying
  <2>4. LockApplies'
    BY <1>13 DEF TypeOK, LockApplies, Applying, add_storage_backend
  <2> QED
    BY <2>1, <2>2, <2>3, <2>4
<1>14. ASSUME NEW s \in Sessions, enable_backend_read(s) PROVE TypeInv'
  <2>1. TypeOK' /\ (pc \in [Sessions -> Steps])'
    BY <1>14 DEF TypeOK, Variables, enable_backend_read, Applying
  <2>2. OwnTarget'
    BY <1>14 DEF TypeOK, OwnTarget, enable_backend_read
  <2>3. AnswersFirst'
    BY <1>14 DEF TypeOK, OwnTarget, AnswersFirst, enable_backend_read, Applying
  <2>4. LockApplies'
    BY <1>14 DEF TypeOK, LockApplies, Applying, enable_backend_read
  <2> QED
    BY <2>1, <2>2, <2>3, <2>4
<1>15. ASSUME NEW s \in Sessions, enable_backend_write(s) PROVE TypeInv'
  <2>1. TypeOK' /\ (pc \in [Sessions -> Steps])'
    <3>1. /\ vars' \in Variables /\ deployed' \in Variables /\ copy' \in [Sessions -> Variables]
          /\ seen' \in [Sessions -> SUBSET Backends]
      BY <1>15 DEF TypeOK, Variables, enable_backend_write, Applying
    <3>2. rows' \subseteq answers' /\ answers' \subseteq Backends /\ types' \subseteq Backends
      BY <1>15 DEF TypeOK, AnswersFirst, enable_backend_write
    <3>3. /\ target' \in [Sessions -> Backends \cup {Nobody}] /\ pc' \in [Sessions -> Steps]
          /\ lock' \in Sessions \cup {Nobody, Killed} /\ stopped' \subseteq Backends
      BY <1>15 DEF TypeOK, enable_backend_write, Applying
    <3>4. \A t \in Sessions : pc'[t] = "idle" <=> target'[t] = Nobody
      BY <1>15 DEF TypeOK, enable_backend_write, Applying
    <3> QED
      BY <3>1, <3>2, <3>3, <3>4 DEF TypeOK
  <2>2. OwnTarget'
    BY <1>15 DEF TypeOK, OwnTarget, enable_backend_write
  <2>3. AnswersFirst'
    BY <1>15 DEF TypeOK, OwnTarget, AnswersFirst, enable_backend_write, Applying
  <2>4. LockApplies'
    BY <1>15 DEF TypeOK, LockApplies, Applying, enable_backend_write
  <2> QED
    BY <2>1, <2>2, <2>3, <2>4
<1>16. ASSUME NEW s \in Sessions, delete_storage_backend(s) PROVE TypeInv'
  <2>1. TypeOK' /\ (pc \in [Sessions -> Steps])'
    BY <1>16 DEF TypeOK, Variables, delete_storage_backend, Applying
  <2>2. OwnTarget'
    BY <1>16 DEF TypeOK, OwnTarget, delete_storage_backend
  <2>3. AnswersFirst'
    BY <1>16 DEF TypeOK, OwnTarget, AnswersFirst, delete_storage_backend, Applying
  <2>4. LockApplies'
    BY <1>16 DEF TypeOK, LockApplies, Applying, delete_storage_backend
  <2> QED
    BY <2>1, <2>2, <2>3, <2>4
<1>17. ASSUME NEW s \in Sessions, delete_config(s) PROVE TypeInv'
  <2>1. TypeOK' /\ (pc \in [Sessions -> Steps])'
    <3>1. /\ vars' \in Variables /\ deployed' \in Variables /\ copy' \in [Sessions -> Variables]
          /\ seen' \in [Sessions -> SUBSET Backends]
      BY <1>17 DEF TypeOK, Variables, delete_config, PrincipalUnused, Applying
    <3>2. rows' \subseteq answers' /\ answers' \subseteq Backends /\ types' \subseteq Backends
      BY <1>17 DEF TypeOK, AnswersFirst, delete_config, PrincipalUnused
    <3>3. /\ target' \in [Sessions -> Backends \cup {Nobody}] /\ pc' \in [Sessions -> Steps]
          /\ lock' \in Sessions \cup {Nobody, Killed} /\ stopped' \subseteq Backends
      BY <1>17 DEF TypeOK, delete_config, PrincipalUnused, Applying
    <3>4. \A t \in Sessions : pc'[t] = "idle" <=> target'[t] = Nobody
      BY <1>17 DEF TypeOK, delete_config, PrincipalUnused, Applying
    <3> QED
      BY <3>1, <3>2, <3>3, <3>4 DEF TypeOK
  <2>2. OwnTarget'
    BY <1>17 DEF TypeOK, OwnTarget, delete_config, PrincipalUnused
  <2>3. AnswersFirst'
    BY <1>17 DEF TypeOK, OwnTarget, AnswersFirst, delete_config, PrincipalUnused, Applying
  <2>4. LockApplies'
    BY <1>17 DEF TypeOK, LockApplies, Applying, delete_config, PrincipalUnused
  <2> QED
    BY <2>1, <2>2, <2>3, <2>4
<1>18. ASSUME NEW s \in Sessions, Completed(s) PROVE TypeInv'
  <2>1. TypeOK' /\ (pc \in [Sessions -> Steps])'
    BY <1>18 DEF TypeOK, Variables, Completed, NoVars, Applying
  <2>2. OwnTarget'
    BY <1>18 DEF TypeOK, OwnTarget, Completed, NoVars
  <2>3. AnswersFirst'
    BY <1>18 DEF TypeOK, OwnTarget, AnswersFirst, Completed, NoVars, Applying
  <2>4. LockApplies'
    BY <1>18 DEF TypeOK, LockApplies, Applying, Completed, NoVars
  <2> QED
    BY <2>1, <2>2, <2>3, <2>4
<1>19. ASSUME NEW s \in Sessions, Stopped(s) PROVE TypeInv'
  BY <1>19, StopTypes DEF Stopped
<1>20. ASSUME unlock_plan PROVE TypeInv'
  BY <1>20 DEF unlock_plan, TypeOK, OwnTarget, AnswersFirst, LockApplies, Applying
<1>21. CASE UNCHANGED svars
  BY <1>21 DEF svars, TypeOK, OwnTarget, AnswersFirst, LockApplies, Applying
<1> QED
  BY <1>1, <1>2, <1>3, <1>4, <1>5, <1>6, <1>7, <1>8, <1>9, <1>10, <1>11, <1>12, <1>13, <1>14,
     <1>15, <1>16, <1>17, <1>18, <1>19, <1>20, <1>21 DEF Next, Step

\* The state of the storage commands has its types.
THEOREM TypeCorrect == Spec => []TypeOK
<1>1. TypeInv => TypeOK
  BY DEF TypeInv
<1> QED
  BY <1>1, TypeInit, TypeStep, PTL DEF Spec

----------------------------------------------------------------------------
(* What a step leaves alone                                                *)

\* The types as facts about one session.
LEMMA Shape ==
  ASSUME TypeInv, NEW s \in Sessions
  PROVE  /\ pc \in [Sessions -> Steps] /\ copy \in [Sessions -> Variables]
         /\ target \in [Sessions -> Backends \cup {Nobody}]
         /\ seen \in [Sessions -> SUBSET Backends]
         /\ pc[s] # "idle" => target[s] \in Backends
         /\ pc[s] # "idle" => \A t \in Sessions \ {s} : target[t] # target[s]
         /\ vars \in Variables /\ deployed \in Variables
BY StorageAssumption DEF TypeInv, TypeOK, OwnTarget

LEMMA AchievedFrame ==
  ASSUME NEW t \in Sessions, Achieved(t), UNCHANGED <<vars, deployed, rows, types>>,
         pc'[t] = pc[t], target'[t] = target[t], copy'[t] = copy[t]
  PROVE  Achieved(t)'
BY DEF Achieved, NohaFirst, NohaLast, AddedSoFar, RemovedSoFar, InPlace

\* A step of one session that changes nothing that is stored, deployed or recorded
LEMMA QuietStep ==
  ASSUME TypeInv, PlaceInv, NEW s \in Sessions, UNCHANGED <<vars, deployed, rows, types>>,
         \A t \in Sessions \ {s} :
             pc'[t] = pc[t] /\ target'[t] = target[t] /\ copy'[t] = copy[t],
         Achieved(s)',
         \A b \in Backends : AtRest(b)' => AtRest(b) \/ InPlace(b),
         vars.noha \/ deployed.noha => \E b \in NonHA : Uses(b)'
  PROVE  PlaceInv'
<1>1. RestInPlace'
  BY DEF PlaceInv, RestInPlace, InPlace
<1>2. ASSUME NEW t \in Sessions PROVE Achieved(t)'
  BY AchievedFrame DEF PlaceInv
<1>3. NohaIsUsed'
  BY DEF NohaIsUsed
<1> QED
  BY <1>1, <1>2, <1>3 DEF PlaceInv

\* Such a step with a command that goes on with its backend
LEMMA QuietMove ==
  ASSUME TypeInv, PlaceInv, NEW s \in Sessions, UNCHANGED <<vars, deployed, rows, types>>,
         UNCHANGED <<target, stopped>>, NEW step, step # "end" \/ pc[s] = "end"
             \/ target[s] \in rows,
         Goto(s, step), NEW c, copy' = [copy EXCEPT ![s] = c], Achieved(s)'
  PROVE  PlaceInv'
<1>1. \A t \in Sessions \ {s} : pc'[t] = pc[t] /\ target'[t] = target[t] /\ copy'[t] = copy[t]
  BY Shape DEF Goto
<1>2. \A b \in Backends : AtRest(b)' => AtRest(b)
  BY DEF AtRest
<1>3. ASSUME NEW b \in NonHA, Uses(b) PROVE Uses(b)'
  BY <1>1, <1>3, Shape DEF Uses, Goto
<1>4. vars.noha \/ deployed.noha => \E b \in NonHA : Uses(b)'
  BY <1>3 DEF PlaceInv, NohaIsUsed
<1> QED
  BY <1>1, <1>2, <1>4, QuietStep

\* A command that is given
LEMMA QuietGive ==
  ASSUME TypeInv, PlaceInv, NEW s \in Sessions, NEW b \in Backends, Give(s, b),
         NEW step \in {"add answers", "remove read"}, Goto(s, step)
  PROVE  PlaceInv'
<1>1. /\ \A t \in Sessions \ {s} : pc'[t] = pc[t] /\ target'[t] = target[t] /\ copy'[t] = copy[t]
      /\ pc'[s] = step /\ target'[s] = b /\ UNCHANGED <<vars, deployed, rows, types, stopped>>
  BY Shape DEF Give, Goto, world
<1>2. Achieved(s)'
  BY <1>1 DEF Achieved, NohaFirst, NohaLast, AddedSoFar, RemovedSoFar, Destroying
<1>3. target[s] = Nobody
  BY DEF Give, TypeInv, TypeOK
<1>4. \A c \in Backends : AtRest(c)' => AtRest(c)
  BY <1>1, <1>3, StorageAssumption DEF AtRest
<1>5. ASSUME NEW c \in NonHA, Uses(c) PROVE Uses(c)'
  BY <1>1, <1>3, <1>5, StorageAssumption DEF Uses
<1>6. vars.noha \/ deployed.noha => \E c \in NonHA : Uses(c)'
  BY <1>5 DEF PlaceInv, NohaIsUsed
<1> QED
  BY <1>1, <1>2, <1>4, <1>6, QuietStep

\* A command that stops leaves its backend not at rest.
LEMMA QuietStop ==
  ASSUME TypeInv, PlaceInv, NEW s \in Sessions, pc[s] # "idle", Stop(s),
         UNCHANGED <<vars, deployed, rows, types>>
  PROVE  PlaceInv'
<1>1. /\ \A t \in Sessions \ {s} : pc'[t] = pc[t] /\ target'[t] = target[t] /\ copy'[t] = copy[t]
      /\ pc'[s] = "idle" /\ target'[s] = Nobody /\ stopped' = stopped \cup {target[s]}
  BY Shape DEF Stop
<1>2. Achieved(s)'
  BY <1>1 DEF Achieved, NohaFirst, NohaLast, AddedSoFar, RemovedSoFar, Destroying
<1>3. target[s] \in Backends /\ \A t \in Sessions \ {s} : target[t] # target[s]
  BY Shape
<1>4. \A c \in Backends : AtRest(c)' => AtRest(c)
  BY <1>1 DEF AtRest
<1>5. ASSUME NEW c \in NonHA, Uses(c) PROVE Uses(c)'
  BY <1>1, <1>3, <1>5, StorageAssumption DEF Uses
<1>6. vars.noha \/ deployed.noha => \E c \in NonHA : Uses(c)'
  BY <1>5 DEF PlaceInv, NohaIsUsed
<1> QED
  BY <1>1, <1>2, <1>4, <1>6, QuietStep

----------------------------------------------------------------------------
(* What a step changes                                                     *)

\* Writing the variables: of the backends, only that of the command.
LEMMA Written ==
  ASSUME TypeInv, NEW s \in Sessions, update_tfvars(s), ~overlap'
  PROVE  /\ vars = copy[s] /\ copy'[s] = vars'
         /\ \A b \in Backends \ {target[s]} : b \in vars'.backends <=> b \in vars.backends
         /\ vars.noha /\ pc[s] # "destroy write" => vars'.noha
         /\ vars'.noha /\ pc[s] # "noha write" => vars.noha
         /\ pc[s] = "noha write" => pc'[s] = "noha apply" /\ vars'.noha
         /\ pc[s] = "add write" => pc'[s] = "add apply" /\ target[s] \in vars'.backends
         /\ pc[s] = "remove write" => pc'[s] = "remove apply" /\ target[s] \notin vars'.backends
         /\ pc[s] = "destroy write" =>
              /\ pc'[s] = "destroy apply" /\ ~vars'.noha /\ ~NohaInUse(s)
              /\ vars'.backends = vars.backends
<1>1. /\ pc \in [Sessions -> Steps] /\ copy \in [Sessions -> Variables]
      /\ vars = copy[s] /\ copy[s] \in Variables /\ vars' = Changed(s) /\ copy'[s] = vars'
      /\ pc'[s] = ApplyStep(s) /\ (pc[s] = "destroy write" => ~NohaInUse(s))
      /\ pc[s] \in {"noha write", "add write", "remove write", "destroy write"}
  BY Shape DEF update_tfvars, Goto
<1>2. CASE pc[s] = "noha write"
  BY <1>1, <1>2 DEF Changed, ApplyStep, Variables
<1>3. CASE pc[s] = "add write"
  <2>1. Changed(s) = [copy[s] EXCEPT !.backends = @ \cup {target[s]}] /\ ApplyStep(s) = "add apply"
    BY <1>3 DEF Changed, ApplyStep
  <2>2. /\ vars'.backends = vars.backends \cup {target[s]} /\ vars'.noha = vars.noha
    BY <1>1, <2>1 DEF Variables
  <2> QED
    BY <1>1, <1>3, <2>1, <2>2
<1>4. CASE pc[s] = "remove write"
  BY <1>1, <1>4 DEF Changed, ApplyStep, Variables
<1>5. CASE pc[s] = "destroy write"
  BY <1>1, <1>5 DEF Changed, ApplyStep, Variables
<1> QED
  BY <1>1, <1>2, <1>3, <1>4, <1>5

LEMMA WriteStep ==
  ASSUME TypeInv, PlaceInv, NEW s \in Sessions, update_tfvars(s), ~overlap'
  PROVE  PlaceInv'
<1>1. /\ \A t \in Sessions \ {s} : pc'[t] = pc[t] /\ target'[t] = target[t] /\ copy'[t] = copy[t]
      /\ target' = target /\ UNCHANGED <<deployed, rows, types, stopped>>
      /\ target[s] \in Backends /\ \A t \in Sessions \ {s} : target[t] # target[s]
      /\ pc[s] \in {"noha write", "add write", "remove write", "destroy write"}
      /\ pc'[s] \in {"noha apply", "add apply", "remove apply", "destroy apply"}
  BY Shape, Written DEF update_tfvars, Goto
<1>2. \A b \in NonHA : b \in rows => pc[s] # "destroy write"
  BY DEF PlaceInv, Achieved, NohaLast, Destroying
<1>3. RestInPlace'
  <2> SUFFICES ASSUME NEW b \in Backends, AtRest(b)' PROVE InPlace(b)'
    BY DEF RestInPlace
  <2>1. b # target[s] /\ InPlace(b)
    BY <1>1 DEF AtRest, PlaceInv, RestInPlace
  <2> QED
    BY <2>1, <1>1, <1>2, Written DEF InPlace
<1>4. ASSUME NEW t \in Sessions \ {s} PROVE Achieved(t)'
  <2>1. Achieved(t)
    BY DEF PlaceInv
  <2>2. target[t] # target[s] /\ (pc[t] # "idle" => target[t] \in Backends)
    BY <1>1, Shape
  <2>3. (pc[t] \in {"add read", "add write", "add apply", "add row", "types read", "types write"}
         /\ target[t] \in NonHA) => pc[s] # "destroy write"
    BY <1>2, Written DEF NohaInUse
  <2>4. NohaFirst(t)' /\ NohaLast(t)'
    BY <1>1, <2>1, <2>3, Written DEF Achieved, NohaFirst, NohaLast
  <2>5. AddedSoFar(t)' /\ RemovedSoFar(t)'
    BY <1>1, <2>1, <2>2, Written DEF Achieved, AddedSoFar, RemovedSoFar, Destroying
  <2>6. (pc[t] = "end" => InPlace(target[t]))'
    BY <1>1, <1>2, <2>1, <2>2, Written DEF Achieved, InPlace
  <2> QED
    BY <2>4, <2>5, <2>6 DEF Achieved
<1>5. Achieved(s)'
  <2>1. Achieved(s)
    BY DEF PlaceInv
  <2>2. NohaFirst(s)' /\ NohaLast(s)'
    BY <1>1, <2>1, Written DEF Achieved, NohaFirst, NohaLast, Destroying
  <2>3. AddedSoFar(s)' /\ RemovedSoFar(s)'
    BY <1>1, <2>1, Written DEF Achieved, AddedSoFar, RemovedSoFar, Destroying
  <2> QED
    BY <1>1, <2>2, <2>3 DEF Achieved
<1>6. NohaIsUsed'
  <2>1. ASSUME NEW b \in NonHA, Uses(b) PROVE Uses(b)'
    BY <1>1, <2>1 DEF Uses
  <2>2. CASE pc[s] = "noha write"
    <3>1. PICK b \in NonHA : b = target[s]
      BY <2>2 DEF PlaceInv, Achieved, NohaFirst
    <3>2. Uses(b)'
      BY <1>1, <3>1 DEF Uses
    <3> QED
      BY <3>2 DEF NohaIsUsed
  <2>3. CASE pc[s] # "noha write"
    BY <1>1, <2>1, <2>3, Written DEF PlaceInv, NohaIsUsed
  <2> QED
    BY <2>2, <2>3
<1> QED
  BY <1>3, <1>4, <1>5, <1>6 DEF PlaceInv

\* Applying the plan deploys what is stored, or the commands overlapped.
LEMMA AppliedFrame ==
  ASSUME TypeInv, PlaceInv, NEW s \in Sessions, deployed' \in {deployed, vars},
         UNCHANGED <<vars, rows, types>>
  PROVE  /\ \A b \in Backends : InPlace(b) => InPlace(b)'
         /\ \A t \in Sessions : pc'[t] = pc[t] /\ target'[t] = target[t] /\ copy'[t] = copy[t]
              => Achieved(t)'
         /\ vars'.noha \/ deployed'.noha => \E b \in NonHA : Uses(b)
<1>1. \A b \in Backends : InPlace(b) => InPlace(b)'
  BY DEF InPlace
<1>2. ASSUME NEW t \in Sessions, pc'[t] = pc[t], target'[t] = target[t], copy'[t] = copy[t]
      PROVE  Achieved(t)'
  <2>1. Achieved(t)
    BY DEF PlaceInv
  <2>2. NohaFirst(t)' /\ NohaLast(t)'
    BY <1>2, <2>1 DEF Achieved, NohaFirst, NohaLast
  <2>3. AddedSoFar(t)' /\ RemovedSoFar(t)'
    BY <1>2, <2>1 DEF Achieved, AddedSoFar, RemovedSoFar
  <2>4. (pc[t] = "end" => InPlace(target[t]))'
    BY <1>1, <1>2, <2>1, Shape DEF Achieved
  <2> QED
    BY <2>2, <2>3, <2>4 DEF Achieved
<1>3. vars'.noha \/ deployed'.noha => \E b \in NonHA : Uses(b)
  BY DEF PlaceInv, NohaIsUsed
<1> QED
  BY <1>1, <1>2, <1>3

LEMMA AppliedStep ==
  ASSUME TypeInv, PlaceInv, NEW s \in Sessions, Applied(s), ~overlap'
  PROVE  PlaceInv'
<1>1. /\ \A t \in Sessions \ {s} : pc'[t] = pc[t] /\ target'[t] = target[t] /\ copy'[t] = copy[t]
      /\ target' = target /\ copy' = copy /\ UNCHANGED <<vars, rows, types, stopped>>
      /\ deployed' = vars /\ vars = copy[s]
      /\ target[s] \in Backends /\ \A t \in Sessions \ {s} : target[t] # target[s]
  BY Shape DEF Applied, Applying, Goto
<1>2. \/ pc[s] = "noha apply" /\ pc'[s] = "add read"
      \/ pc[s] = "add apply" /\ pc'[s] = "add row"
      \/ pc[s] = "remove apply" /\ pc'[s] = "remove row"
      \/ pc[s] = "destroy apply" /\ pc'[s] = "end"
  BY Shape DEF Applied, Applying, Goto
<1>3. RestInPlace'
  BY <1>1, AppliedFrame DEF RestInPlace, AtRest, PlaceInv
<1>4. ASSUME NEW t \in Sessions \ {s} PROVE Achieved(t)'
  BY <1>1, AppliedFrame
<1>5. Achieved(s)'
  <2>1. Achieved(s)
    BY DEF PlaceInv
  <2>2. NohaFirst(s)' /\ NohaLast(s)'
    BY <1>1, <1>2, <2>1 DEF Achieved, NohaFirst, NohaLast, Destroying
  <2>3. AddedSoFar(s)' /\ RemovedSoFar(s)'
    BY <1>1, <1>2, <2>1 DEF Achieved, AddedSoFar, RemovedSoFar, Destroying
  <2>4. (pc[s] = "end" => InPlace(target[s]))'
    BY <1>1, <1>2, <2>1 DEF Achieved, NohaLast, RemovedSoFar, Destroying, InPlace
  <2> QED
    BY <2>2, <2>3, <2>4 DEF Achieved
<1>6. NohaIsUsed'
  <2>1. CASE pc[s] = "destroy apply"
    BY <1>1, <2>1 DEF NohaIsUsed, PlaceInv, Achieved, NohaLast
  <2>2. CASE pc[s] # "destroy apply"
    <3>1. ASSUME NEW b \in NonHA, Uses(b) PROVE Uses(b)'
      BY <1>1, <1>2, <2>2, <3>1 DEF Uses
    <3> QED
      BY <1>1, <3>1, AppliedFrame DEF NohaIsUsed
  <2> QED
    BY <2>1, <2>2
<1> QED
  BY <1>3, <1>4, <1>5, <1>6 DEF PlaceInv

\* A killed apply may or may not have deployed.
LEMMA StoppedStep ==
  ASSUME TypeInv, PlaceInv, NEW s \in Sessions, Stopped(s), ~overlap'
  PROVE  PlaceInv'
<1>1. /\ \A t \in Sessions \ {s} : pc'[t] = pc[t] /\ target'[t] = target[t] /\ copy'[t] = copy[t]
      /\ pc'[s] = "idle" /\ target'[s] = Nobody /\ stopped' = stopped \cup {target[s]}
      /\ UNCHANGED <<vars, rows, types>> /\ deployed' \in {deployed, vars}
      /\ target[s] \in Backends /\ \A t \in Sessions \ {s} : target[t] # target[s]
  BY Shape DEF Stopped, Stop
<1>2. RestInPlace'
  BY <1>1, AppliedFrame DEF RestInPlace, AtRest, PlaceInv
<1>3. ASSUME NEW t \in Sessions \ {s} PROVE Achieved(t)'
  BY <1>1, AppliedFrame
<1>4. Achieved(s)'
  BY <1>1 DEF Achieved, NohaFirst, NohaLast, AddedSoFar, RemovedSoFar, Destroying
<1>5. ASSUME NEW b \in NonHA, Uses(b) PROVE Uses(b)'
  BY <1>1, <1>5, StorageAssumption DEF Uses
<1>6. NohaIsUsed'
  BY <1>1, <1>5, AppliedFrame DEF NohaIsUsed
<1> QED
  BY <1>2, <1>3, <1>4, <1>6 DEF PlaceInv

LEMMA AddRowStep ==
  ASSUME TypeInv, PlaceInv, NEW s \in Sessions, add_storage_backend(s), ~overlap'
  PROVE  PlaceInv'
<1>1. /\ \A t \in Sessions \ {s} : pc'[t] = pc[t] /\ target'[t] = target[t] /\ copy'[t] = copy[t]
      /\ target' = target /\ UNCHANGED <<vars, deployed, types, stopped>>
      /\ pc[s] = "add row" /\ pc'[s] = "types read"
      /\ rows' = rows \cup {target[s]}
      /\ target[s] \in Backends /\ \A t \in Sessions \ {s} : target[t] # target[s]
      /\ ~NohaDoomed(s)
  BY Shape DEF add_storage_backend, Goto
<1>2. Achieved(s)
  BY DEF PlaceInv
<1>3. RestInPlace'
  <2> SUFFICES ASSUME NEW b \in Backends, AtRest(b)' PROVE InPlace(b)'
    BY DEF RestInPlace
  <2>1. b # target[s] /\ InPlace(b)
    BY <1>1 DEF AtRest, PlaceInv, RestInPlace
  <2> QED
    BY <2>1, <1>1 DEF InPlace
<1>4. ASSUME NEW t \in Sessions \ {s} PROVE Achieved(t)'
  <2>1. Achieved(t) /\ target[t] # target[s]
    BY <1>1 DEF PlaceInv
  <2>2. target[s] \in NonHA => pc[t] \notin Destroying
    BY <1>1 DEF NohaDoomed, Destroying
  <2>3. NohaFirst(t)' /\ NohaLast(t)'
    BY <1>1, <2>1, <2>2 DEF Achieved, NohaFirst, NohaLast
  <2>4. AddedSoFar(t)' /\ RemovedSoFar(t)'
    BY <1>1, <2>1 DEF Achieved, AddedSoFar, RemovedSoFar
  <2>5. (pc[t] = "end" => InPlace(target[t]))'
    BY <1>1, <2>1 DEF Achieved, InPlace
  <2> QED
    BY <2>3, <2>4, <2>5 DEF Achieved
<1>5. Achieved(s)'
  BY <1>1, <1>2 DEF Achieved, NohaFirst, NohaLast, AddedSoFar, RemovedSoFar, Destroying
<1>6. NohaIsUsed'
  <2>1. ASSUME NEW b \in NonHA, Uses(b) PROVE Uses(b)'
    BY <1>1, <2>1 DEF Uses
  <2> QED
    BY <1>1, <2>1 DEF PlaceInv, NohaIsUsed
<1> QED
  BY <1>3, <1>4, <1>5, <1>6 DEF PlaceInv

LEMMA TypesWriteStep ==
  ASSUME TypeInv, PlaceInv, NEW s \in Sessions, enable_backend_write(s), ~overlap'
  PROVE  PlaceInv'
<1>1. /\ \A t \in Sessions \ {s} : pc'[t] = pc[t] /\ target'[t] = target[t] /\ copy'[t] = copy[t]
      /\ target' = target /\ UNCHANGED <<vars, deployed, rows, stopped>>
      /\ pc[s] = "types write" /\ pc'[s] = "end"
      /\ types' = types \cup {target[s]}
  BY Shape DEF enable_backend_write, Goto
<1>2. Achieved(s)
  BY DEF PlaceInv
<1>3. \A b \in Backends : InPlace(b) => InPlace(b)'
  BY <1>1 DEF InPlace
<1>4. RestInPlace'
  BY <1>1, <1>3 DEF RestInPlace, AtRest, PlaceInv
<1>5. ASSUME NEW t \in Sessions \ {s} PROVE Achieved(t)'
  BY <1>1 DEF PlaceInv, Achieved, NohaFirst, NohaLast, AddedSoFar, RemovedSoFar, InPlace
<1>6. Achieved(s)'
  <2>1. NohaFirst(s)' /\ NohaLast(s)' /\ AddedSoFar(s)' /\ RemovedSoFar(s)'
    BY <1>1 DEF NohaFirst, NohaLast, AddedSoFar, RemovedSoFar, Destroying
  <2>2. InPlace(target[s])'
    BY <1>1, <1>2 DEF Achieved, NohaFirst, AddedSoFar, InPlace
  <2> QED
    BY <2>1, <2>2 DEF Achieved
<1>7. NohaIsUsed'
  <2>1. target[s] \in rows
    BY <1>1, <1>2 DEF Achieved, AddedSoFar
  <2>2. ASSUME NEW b \in NonHA, Uses(b) PROVE Uses(b)'
    BY <1>1, <2>1, <2>2 DEF Uses
  <2> QED
    BY <1>1, <2>2 DEF PlaceInv, NohaIsUsed
<1> QED
  BY <1>4, <1>5, <1>6, <1>7 DEF PlaceInv

LEMMA DeleteRowStep ==
  ASSUME TypeInv, PlaceInv, NEW s \in Sessions, delete_storage_backend(s)
  PROVE  PlaceInv'
<1>1. /\ \A t \in Sessions \ {s} : pc'[t] = pc[t] /\ target'[t] = target[t] /\ copy'[t] = copy[t]
      /\ target' = target /\ UNCHANGED <<vars, deployed, types, stopped>>
      /\ pc[s] = "remove row" /\ pc'[s] = "remove answers"
      /\ rows' = rows \ {target[s]}
      /\ target[s] \in Backends /\ \A t \in Sessions \ {s} : target[t] # target[s]
  BY Shape DEF delete_storage_backend, Goto
<1>2. Achieved(s)
  BY DEF PlaceInv
<1>3. RestInPlace'
  <2> SUFFICES ASSUME NEW b \in Backends, AtRest(b)' PROVE InPlace(b)'
    BY DEF RestInPlace
  <2>1. b # target[s] /\ InPlace(b)
    BY <1>1 DEF AtRest, PlaceInv, RestInPlace
  <2> QED
    BY <2>1, <1>1 DEF InPlace
<1>4. ASSUME NEW t \in Sessions \ {s} PROVE Achieved(t)'
  <2>1. Achieved(t) /\ target[t] # target[s]
    BY <1>1 DEF PlaceInv
  <2>2. NohaFirst(t)' /\ NohaLast(t)'
    BY <1>1, <2>1 DEF Achieved, NohaFirst, NohaLast
  <2>3. AddedSoFar(t)' /\ RemovedSoFar(t)'
    BY <1>1, <2>1 DEF Achieved, AddedSoFar, RemovedSoFar
  <2>4. (pc[t] = "end" => InPlace(target[t]))'
    BY <1>1, <2>1 DEF Achieved, InPlace
  <2> QED
    BY <2>2, <2>3, <2>4 DEF Achieved
<1>5. Achieved(s)'
  BY <1>1, <1>2 DEF Achieved, NohaFirst, NohaLast, AddedSoFar, RemovedSoFar, Destroying
<1>6. NohaIsUsed'
  <2>1. ASSUME NEW b \in NonHA, Uses(b) PROVE Uses(b)'
    BY <1>1, <2>1 DEF Uses
  <2> QED
    BY <1>1, <2>1 DEF PlaceInv, NohaIsUsed
<1> QED
  BY <1>3, <1>4, <1>5, <1>6 DEF PlaceInv

\* The answers go last; cinder-volume-noha follows when nothing recorded uses it.
LEMMA DeleteAnswersStep ==
  ASSUME TypeInv, PlaceInv, NEW s \in Sessions, delete_config(s)
  PROVE  PlaceInv'
<1>1. /\ \A t \in Sessions \ {s} : pc'[t] = pc[t] /\ target'[t] = target[t] /\ copy'[t] = copy[t]
      /\ target' = target /\ UNCHANGED <<vars, deployed, rows, types, stopped, copy>>
      /\ pc[s] = "remove answers"
      /\ pc'[s] = IF PrincipalUnused(s) THEN "destroy read" ELSE "end"
      /\ target[s] \in Backends /\ target[s] \notin rows
  BY Shape DEF delete_config, Goto, TypeInv, AnswersFirst
<1>2. Achieved(s)
  BY DEF PlaceInv
<1>3. CASE PrincipalUnused(s)
  <2>1. Achieved(s)'
    BY <1>1, <1>2, <1>3
       DEF Achieved, NohaFirst, NohaLast, AddedSoFar, RemovedSoFar, Destroying, PrincipalUnused
  <2>2. \A b \in Backends : AtRest(b)' => AtRest(b)
    BY <1>1 DEF AtRest
  <2>3. ASSUME NEW b \in NonHA, Uses(b) PROVE Uses(b)'
    BY <1>1, <1>3, <2>3 DEF Uses
  <2>4. vars.noha \/ deployed.noha => \E b \in NonHA : Uses(b)'
    BY <2>3 DEF PlaceInv, NohaIsUsed
  <2> QED
    BY <1>1, <2>1, <2>2, <2>4, QuietStep
<1>4. CASE ~PrincipalUnused(s)
  <2>1. Achieved(s)'
    BY <1>1, <1>2, <1>4
       DEF Achieved, NohaFirst, NohaLast, AddedSoFar, RemovedSoFar, Destroying, InPlace
  <2>2. \A b \in Backends : AtRest(b)' => AtRest(b)
    BY <1>1 DEF AtRest
  <2>3. vars.noha \/ deployed.noha => \E b \in NonHA : Uses(b)'
    <3>1. CASE target[s] \in NonHA
      BY <1>1, <1>4, <3>1 DEF PrincipalUnused, Uses
    <3>2. CASE target[s] \notin NonHA
      <4>1. ASSUME NEW b \in NonHA, Uses(b) PROVE Uses(b)'
        BY <1>1, <3>2, <4>1 DEF Uses
      <4> QED
        BY <4>1 DEF PlaceInv, NohaIsUsed
    <3> QED
      BY <3>1, <3>2
  <2> QED
    BY <1>1, <2>1, <2>2, <2>3, QuietStep
<1> QED
  BY <1>3, <1>4

\* A command that completes leaves its backend in place, and no application
\* that only it used.
LEMMA CompletedStep ==
  ASSUME TypeInv, PlaceInv, NEW s \in Sessions, Completed(s)
  PROVE  PlaceInv'
<1>1. /\ \A t \in Sessions \ {s} : pc'[t] = pc[t] /\ target'[t] = target[t] /\ copy'[t] = copy[t]
      /\ pc'[s] = "idle" /\ target'[s] = Nobody /\ stopped' = stopped \ {target[s]}
      /\ pc[s] = "end" /\ UNCHANGED <<vars, deployed, rows, types>>
      /\ target[s] \in Backends /\ \A t \in Sessions \ {s} : target[t] # target[s]
  BY Shape DEF Completed, world
<1>2. InPlace(target[s])
  BY <1>1 DEF PlaceInv, Achieved
<1>3. Achieved(s)'
  BY <1>1 DEF Achieved, NohaFirst, NohaLast, AddedSoFar, RemovedSoFar, Destroying
<1>4. \A b \in Backends : AtRest(b)' => AtRest(b) \/ InPlace(b)
  BY <1>1, <1>2 DEF AtRest
<1>5. ASSUME NEW b \in NonHA, Uses(b) PROVE Uses(b)'
  BY <1>1, <1>5, StorageAssumption DEF Uses
<1>6. vars.noha \/ deployed.noha => \E b \in NonHA : Uses(b)'
  BY <1>5 DEF PlaceInv, NohaIsUsed
<1> QED
  BY <1>1, <1>3, <1>4, <1>6, QuietStep

\* A step that moves no session
LEMMA QuietStays ==
  ASSUME TypeInv, PlaceInv, UNCHANGED <<vars, deployed, rows, types, pc, target, copy, stopped>>
  PROVE  PlaceInv'
<1>1. \A t \in Sessions : Achieved(t)'
  BY AchievedFrame DEF PlaceInv
<1>2. RestInPlace'
  BY DEF PlaceInv, RestInPlace, AtRest, InPlace
<1>3. ASSUME NEW b \in NonHA, Uses(b) PROVE Uses(b)'
  BY <1>3 DEF Uses
<1>4. NohaIsUsed'
  BY <1>3 DEF PlaceInv, NohaIsUsed
<1> QED
  BY <1>1, <1>2, <1>4 DEF PlaceInv

LEMMA PlaceStep ==
  ASSUME TypeInv, PlaceInv, [Next]_svars, ~overlap'
  PROVE  PlaceInv'
<1> USE DEF Achieved, NohaFirst, NohaLast, AddedSoFar, RemovedSoFar, Destroying
<1>1. ASSUME NEW s \in Sessions, NEW b \in Backends, Add(s, b) \/ Remove(s, b) PROVE PlaceInv'
  BY <1>1, QuietGive DEF Add, Remove
<1>2. ASSUME NEW s \in Sessions, prompt_backend_config(s) PROVE PlaceInv'
  <2>1. Achieved(s)'
    BY <1>2, Shape DEF prompt_backend_config, Goto
  <2>2. copy' = [copy EXCEPT ![s] = copy[s]]
    BY <1>2, Shape DEF prompt_backend_config
  <2> QED
    BY <1>2, <2>1, <2>2, QuietMove DEF prompt_backend_config
<1>3. ASSUME NEW s \in Sessions, NEW step \in {"noha write", "add write", "remove write",
      "destroy write"},
             ReadVars(s, step), Achieved(s)'
      PROVE  PlaceInv'
  BY <1>3, QuietMove DEF ReadVars, world
<1>4. ASSUME NEW s \in Sessions, DeploySpecificRead(s) PROVE PlaceInv'
  <2>1. CASE rows \subseteq vars.backends
    <3>1. Achieved(s)'
      BY <1>4, <2>1, Shape DEF DeploySpecificRead, ReadVars, Goto, world, PlaceInv
    <3> QED
      BY <1>3, <1>4, <2>1, <3>1 DEF DeploySpecificRead
  <2>2. CASE ~(rows \subseteq vars.backends)
    BY <1>4, <2>2, QuietStop DEF DeploySpecificRead, world
  <2> QED
    BY <2>1, <2>2
<1>5. ASSUME NEW s \in Sessions, StorageBackendDeployRead(s) PROVE PlaceInv'
  <2>1. Achieved(s)'
    BY <1>5, Shape DEF StorageBackendDeployRead, ReadVars, Goto, world, PlaceInv
  <2> QED
    BY <1>3, <1>5, <2>1 DEF StorageBackendDeployRead
<1>6. ASSUME NEW s \in Sessions, StorageBackendDestroyRead(s) PROVE PlaceInv'
  <2>1. Achieved(s)'
    BY <1>6, Shape DEF StorageBackendDestroyRead, ReadVars, Goto, world
  <2> QED
    BY <1>3, <1>6, <2>1 DEF StorageBackendDestroyRead
<1>7. ASSUME NEW s \in Sessions, DestroySpecificRead(s) PROVE PlaceInv'
  <2>1. Achieved(s)'
    BY <1>7, Shape DEF DestroySpecificRead, ReadVars, Goto, world, PlaceInv
  <2> QED
    BY <1>3, <1>7, <2>1 DEF DestroySpecificRead
<1>8. ASSUME NEW s \in Sessions, apply(s) PROVE PlaceInv'
  BY <1>8, QuietStays DEF apply, sessions
<1>9. ASSUME unlock_plan PROVE PlaceInv'
  BY <1>9, QuietStays DEF unlock_plan, sessions
<1>10. ASSUME NEW s \in Sessions, Locked(s) PROVE PlaceInv'
  <2>1. \/ pc[s] = "add apply" /\ Goto(s, "add read")
        \/ pc[s] = "remove apply" /\ Goto(s, "remove read")
    BY <1>10 DEF Locked
  <2>2. Achieved(s)'
    BY <1>10, <2>1, Shape DEF Locked, Goto, world, PlaceInv
  <2>3. copy' = [copy EXCEPT ![s] = copy[s]]
    BY <1>10, Shape DEF Locked
  <2> QED
    BY <1>10, <2>1, <2>2, <2>3, QuietMove DEF Locked, world
<1>11. ASSUME NEW s \in Sessions, LockedFails(s) PROVE PlaceInv'
  BY <1>11, QuietStop DEF LockedFails, Applying, world
<1>12. ASSUME NEW s \in Sessions, enable_backend_read(s) PROVE PlaceInv'
  <2>1. Achieved(s)'
    BY <1>12, Shape DEF enable_backend_read, Goto, world, PlaceInv, InPlace
  <2>2. copy' = [copy EXCEPT ![s] = copy[s]] /\ target[s] \in rows
    BY <1>12, Shape DEF enable_backend_read, PlaceInv
  <2> QED
    BY <1>12, <2>1, <2>2, QuietMove DEF enable_backend_read, world
<1>13. CASE UNCHANGED svars
  BY <1>13, QuietStays DEF svars, world, sessions
<1> QED
  BY <1>1, <1>2, <1>4, <1>5, <1>6, <1>7, <1>8, <1>9, <1>10, <1>11, <1>12, <1>13, WriteStep,
     AppliedStep, StoppedStep, AddRowStep, TypesWriteStep, DeleteRowStep, DeleteAnswersStep,
     CompletedStep
     DEF Next, Step

LEMMA IInit == Init => IInv
<1> SUFFICES ASSUME Init PROVE IInv
  OBVIOUS
<1>1. TypeInv
  BY TypeInit
<1>2. PlaceInv
  BY DEF Init, NoVars, PlaceInv, RestInPlace, InPlace, Achieved, NohaFirst, NohaLast, AddedSoFar,
     RemovedSoFar, Destroying, NohaIsUsed
<1> QED
  BY <1>1, <1>2 DEF IInv

\* That commands overlapped is never forgotten.
LEMMA OverlapStays ==
  ASSUME [Next]_svars, overlap
  PROVE  overlap'
BY DEF Next, Step, svars, Add, Remove, Give, prompt_backend_config, DeploySpecificRead,
   StorageBackendDeployRead, StorageBackendDestroyRead, DestroySpecificRead, ReadVars,
   update_tfvars, apply, Locked, LockedFails, Applied, add_storage_backend, enable_backend_read,
   enable_backend_write, delete_storage_backend, delete_config, Completed, Stopped, unlock_plan

LEMMA IStep == IInv /\ [Next]_svars => IInv'
BY TypeStep, PlaceStep, OverlapStays DEF IInv

\* A backend whose last command completed is recorded exactly when it is stored
\* and deployed, with its type and the application it runs in, and
\* cinder-volume-noha goes with the last backend that used it.
THEOREM RecordedIsAlwaysDeployed == Spec => []RecordedIsDeployed
<1>1. IInv => RecordedIsDeployed
  <2> SUFFICES ASSUME IInv, ~overlap PROVE RecordedIsDeployed
    BY DEF RecordedIsDeployed
  <2>1. PlaceInv
    BY DEF IInv
  <2>2. ASSUME NEW b \in Backends, AtRest(b) PROVE InPlace(b)
    BY <2>1, <2>2 DEF PlaceInv, RestInPlace
  <2>3. ASSUME \A b \in NonHA : AtRest(b) /\ b \notin rows PROVE ~deployed.noha
    BY <2>1, <2>3 DEF PlaceInv, NohaIsUsed, Uses, AtRest
  <2> QED
    BY <2>2, <2>3 DEF RecordedIsDeployed, InPlace
<1> QED
  BY <1>1, IInit, IStep, PTL DEF Spec

----------------------------------------------------------------------------
(***************************************************************************)
(* Vault: keys, seals and the two rounds of an unseal                      *)
(***************************************************************************)

\* The steps of each command of the vault feature.
AutoSteps == {"unseal", "wait", "token", "authorize"}
DisableSteps == {"undeploy", "unflag", "clear", "done"}
RefreshSteps == {"refresh", "migrate", "status"}
VaultSteps == {"idle", "deploy", "flag", "init", "store"} \cup AutoSteps \cup DisableSteps
              \cup RefreshSteps

\* The commands whose steps these are.
CommandOf ==
    /\ vaultPc \in VaultSteps
    /\ vaultPc \in {"deploy", "flag"} => vaultCmd \in {"enable", "enable_dev"}
    /\ vaultPc \in {"init", "store"} => vaultCmd = "enable_dev"
    /\ vaultPc \in {"unseal", "token", "authorize"} => vaultCmd \in {"enable_dev", "refresh"}
    /\ vaultPc = "wait" => vaultCmd \in {"enable_dev", "refresh", "by_hand"}
    /\ vaultPc \in DisableSteps => vaultCmd = "disable"
    /\ vaultPc \in RefreshSteps => vaultCmd = "refresh"
    /\ vaultPc # "idle" => vaultResult \in {"running", "none"}

\* The keys stored are those of the vault of dev mode that runs, but between its
\* initialisation and the write.
KeysInv ==
    /\ row = gen /\ gen # 0 => mode = "dev"
    /\ mode = "dev" /\ ~lost /\ vaultPc # "store" => row = gen
    /\ vaultPc \in {"unflag", "clear", "done"} => gen = 0
    /\ vaultPc = "store" => gen # 0 /\ mode = "dev"

\* A vault without keys is sealed, and an unsealed unit was given enough keys.
VaultData ==
    /\ row \in 0..gens /\ gen \in 0..gens /\ gens \in Nat
    /\ keys \in [Units -> SUBSET (1..Threshold)]
    /\ sealed \subseteq Units /\ joined \subseteq Units /\ leader \in Units
    /\ (gen = 0) = (mode = "none") /\ (gen = 0 => sealed = Units)
    /\ \A u \in Units : u \notin sealed => V!Cardinality(keys[u]) >= V!Needed

\* A command initialises the vault at most once.
Counted ==
    /\ commands \in 0..VaultCommands /\ gens <= commands
    /\ vaultPc \in {"deploy", "flag", "init"} => gens < commands

RoundsLeft ==
    /\ rounds \in 0..2 /\ (asking # {} => vaultPc = "wait") /\ (vaultPc = "idle" => rounds = 0)
    /\ vaultPc = "unseal" \/ (vaultPc = "wait" /\ vaultCmd # "by_hand") => rounds \in 1..2
    /\ vaultPc = "status" => rounds = 2
    /\ vaultCmd = "by_hand" => rounds = 0

VaultTypeInv == VaultData /\ CommandOf /\ Counted /\ RoundsLeft

\* While nothing disturbs the command: the first of its two rounds opens the
\* leader, the second the other units.
QuietInv ==
    quiet =>
      /\ vaultPc = "unseal" /\ rounds = 1 => leader \notin sealed
      /\ vaultPc = "wait" /\ vaultCmd # "by_hand" => rounds = 2 /\ leader \notin sealed
      /\ vaultPc \in {"token", "authorize"} => sealed = {}
      /\ vaultResult = "unsealed" => sealed = {} /\ authorised

\* Where the vault of a fresh `enable --dev-mode` is.
Untouched == row = 0 /\ gen = 0
SealedOff == sealed = Units /\ keys = [u \in Units |-> {}]
OpenWithKeys == gen # 0 /\ row = gen /\ sealed = {} /\ Units \ {leader} \subseteq joined
Opening(us) == /\ gen # 0 /\ row = gen /\ leader \in joined /\ sealed = us
               /\ \A u \in us : keys[u] = {}

FreshInv ==
    fresh =>
      /\ vaultResult # "failed" /\ vaultCmd \in {"none", "enable_dev", "disable"}
      /\ vaultPc \in {"idle", "deploy", "flag", "init", "store"} \cup AutoSteps
      /\ vaultPc \in {"idle", "deploy", "flag"} => (Untouched /\ SealedOff) \/ OpenWithKeys
      /\ vaultPc \in {"deploy", "flag"} => known = row
      /\ vaultPc = "init" => Untouched /\ SealedOff
      /\ vaultPc = "store" => SealedOff /\ leader \in joined
      /\ vaultPc = "unseal" =>
           \/ OpenWithKeys
           \/ rounds = 2 /\ Opening(Units)
           \/ rounds = 1 /\ Opening(Units \ {leader}) /\ Units \ {leader} \subseteq joined
      /\ vaultPc = "wait" => rounds = 2 /\ asking = Units \ {leader} /\ Opening(asking)
      /\ vaultPc \in {"token", "authorize"} => OpenWithKeys

\* What is undeployed is sealed, until its command completes.
UndeployedInv ==
    /\ vaultPc \in {"unflag", "clear", "done"} => SealedOff
    /\ vaultPc = "done" => row = 0

ConfigInv ==
    vaultCmd = "refresh" /\ (vaultPc = "status" \/ vaultPc \in AutoSteps
                             \/ vaultResult \in {"completed", "unsealed", "sealed"})
        => config \in {{}, V!vault_pki_config_key(channel)}

VaultInv == VaultTypeInv /\ KeysInv /\ QuietInv /\ FreshInv /\ UndeployedInv /\ ConfigInv

\* The cardinality of the module is that of the library.
LEMMA VaultCardinality == ASSUME NEW S PROVE V!Cardinality(S) = Cardinality(S)
BY DEF V!Cardinality, Cardinality

\* A key given to sealed units opens those that have enough of them.
LEMMA GiveEffect ==
  ASSUME VaultData, NEW us \in SUBSET Units, NEW k \in 1..Threshold, V!Give(us, k)
  PROVE  /\ keys' \in [Units -> SUBSET (1..Threshold)] /\ sealed' \subseteq sealed
         /\ \A u \in Units : u \notin sealed' => V!Cardinality(keys'[u]) >= V!Needed
         /\ mode = "dev" => sealed' \cap us = {}
         /\ \A u \in sealed \ us : keys'[u] = keys[u] /\ (keys[u] = {} => u \in sealed')
<1> DEFINE now == [u \in Units |-> IF u \in us \cap sealed THEN keys[u] \cup {k} ELSE keys[u]]
<1>1. keys' = now /\ sealed' = {u \in sealed : V!Cardinality(now[u]) < V!Needed}
  BY DEF V!Give
<1>2. now \in [Units -> SUBSET (1..Threshold)]
  BY DEF VaultData
<1>3. V!Needed \in Nat \ {0} /\ (mode = "dev" => V!Needed = 1)
  BY ServicesAssumption DEF V!Needed
<1>4. ASSUME NEW u \in Units
      PROVE  /\ V!Cardinality(now[u]) \in Nat /\ V!Cardinality(keys[u]) \in Nat
             /\ (V!Cardinality(now[u]) = 0 <=> now[u] = {})
  <2>1. IsFiniteSet(1..Threshold)
    BY ServicesAssumption, FS_Interval
  <2>2. now[u] \subseteq 1..Threshold /\ keys[u] \subseteq 1..Threshold
    BY <1>2 DEF VaultData
  <2>3. IsFiniteSet(now[u]) /\ IsFiniteSet(keys[u])
    BY <2>1, <2>2, FS_Subset
  <2> QED
    BY <2>3, VaultCardinality, FS_CardinalityType, FS_EmptySet
<1> HIDE DEF now
<1>5. \A u \in sealed \ us : now[u] = keys[u]
  BY DEF now, VaultData
<1>6. \A u \in sealed \cap us : now[u] # {}
  BY DEF now, VaultData
<1>7. \A u \in Units \ sealed : now[u] = keys[u]
  BY DEF now
<1>8. \A u \in Units : u \notin sealed' => V!Cardinality(keys'[u]) >= V!Needed
  BY <1>1, <1>3, <1>4, <1>7 DEF VaultData
<1>9. mode = "dev" => sealed' \cap us = {}
  BY <1>1, <1>3, <1>4, <1>6 DEF VaultData
<1>10. \A u \in sealed \ us : keys'[u] = keys[u] /\ (keys[u] = {} => u \in sealed')
  BY <1>1, <1>3, <1>4, <1>5 DEF VaultData
<1> QED
  BY <1>1, <1>2, <1>8, <1>9, <1>10

\* What a key step does to the vault, whichever way it ends.
LEMMA UnsealData ==
  ASSUME VaultData, NEW k \in 1..Threshold, NEW g,
         V!LeaderOpened(k, g) \/ V!UnsealDone(k, g) \/ V!UnsealFails(k, g)
  PROVE  /\ keys' \in [Units -> SUBSET (1..Threshold)] /\ sealed' \subseteq sealed
         /\ \A u \in Units : u \notin sealed' => V!Cardinality(keys'[u]) >= V!Needed
         /\ sealed' # sealed => gen # 0
         /\ UNCHANGED <<vault, gen, gens, mode, joined, leader, authorised, channel>>
<1> USE DEF V!Accepts, V!Others, VaultData
<1>1. {leader} \in SUBSET Units /\ Units \ {leader} \in SUBSET Units
  OBVIOUS
<1>2. CASE V!UnsealFails(k, g)
  BY <1>2 DEF V!UnsealFails, V!vault
<1>3. ASSUME NEW us \in SUBSET Units, V!Give(us, k), gen # 0
      PROVE  /\ keys' \in [Units -> SUBSET (1..Threshold)] /\ sealed' \subseteq sealed
             /\ \A u \in Units : u \notin sealed' => V!Cardinality(keys'[u]) >= V!Needed
             /\ sealed' # sealed => gen # 0
             /\ UNCHANGED <<vault, gen, gens, mode, joined, leader, authorised, channel>>
  <2>1. UNCHANGED <<vault, gen, gens, mode, joined, leader, authorised, channel>>
    BY <1>3 DEF V!Give
  <2> QED
    BY <1>3, <2>1, GiveEffect
<1>4. CASE V!LeaderOpened(k, g)
  BY <1>1, <1>3, <1>4 DEF V!LeaderOpened
<1>5. CASE V!UnsealDone(k, g)
  BY <1>1, <1>3, <1>5 DEF V!UnsealDone
<1> QED
  BY <1>2, <1>4, <1>5

LEMMA VaultDataStep == VaultTypeInv /\ V!Next => VaultData'
<1> SUFFICES ASSUME VaultTypeInv, V!Next PROVE VaultData'
  OBVIOUS
<1> USE ServicesAssumption DEF VaultTypeInv, VaultData, RoundsLeft, Counted, CommandOf, VaultSteps,
      AutoSteps, DisableSteps, RefreshSteps, V!Needed, V!vault, V!stored, V!session, V!vvars,
      V!Goto, V!End, V!Command, V!ByHand, V!Disturb, V!SealedAgain, V!After, V!Disabling,
      V!Initialised, V!RoundDone, V!AfterLeader, V!UnsealFailed, V!Rounds, V!OneRound
<1>1. CASE V!run_enable_plans
  BY <1>1 DEF V!run_enable_plans
<1>2. CASE V!FeatureEnabled
  BY <1>2 DEF V!FeatureEnabled
<1>3. CASE V!run_disable_plans
  BY <1>3 DEF V!run_disable_plans
<1>4. CASE V!FeatureDisabled
  BY <1>4 DEF V!FeatureDisabled
<1>5. CASE V!Cleared
  BY <1>5 DEF V!Cleared
<1>6. CASE V!Disabled
  BY <1>6 DEF V!Disabled
<1>7. CASE V!VaultInitStep
  BY <1>7 DEF V!VaultInitStep
<1>8. CASE V!StoreKeys
  BY <1>8 DEF V!StoreKeys
<1>9. CASE V!auto_unseal_vault
  <2>1. 1 \in 1..Threshold
    BY ServicesAssumption
  <2>2. V!LeaderOpened(1, row) \/ V!UnsealDone(1, row) \/ V!UnsealFails(1, row)
    BY <1>9 DEF V!auto_unseal_vault
  <2> QED
    BY <1>9, <2>1, <2>2, UnsealData DEF V!auto_unseal_vault
<1>10. CASE V!AwaitOthers
  BY <1>10 DEF V!AwaitOthers
<1>11. CASE V!create_token
  BY <1>11 DEF V!create_token
<1>12. CASE V!authorize_charm
  BY <1>12 DEF V!authorize_charm
<1>13. CASE V!CharmRefreshed
  BY <1>13 DEF V!CharmRefreshed
<1>14. CASE V!Migrated
  BY <1>14 DEF V!Migrated
<1>15. CASE V!SealStatus
  BY <1>15 DEF V!SealStatus
<1>16. CASE V!Killed
  BY <1>16 DEF V!Killed
<1>17. CASE V!Enable
  BY <1>17 DEF V!Enable
<1>18. CASE V!EnableDev
  BY <1>18 DEF V!EnableDev
<1>19. CASE V!Disable
  BY <1>19 DEF V!Disable
<1>20. CASE V!Refresh
  BY <1>20 DEF V!Refresh
<1>21. CASE V!ConfigureTls
  BY <1>21 DEF V!ConfigureTls
<1>22. CASE V!initialize_vault
  BY <1>22 DEF V!initialize_vault
<1>23. CASE V!authorize_by_hand
  BY <1>23 DEF V!authorize_by_hand
<1>24. ASSUME NEW k \in 1..Threshold, V!unseal_vault(k) PROVE VaultData'
  <2>1. V!LeaderOpened(k, gen) \/ V!UnsealDone(k, gen) \/ V!UnsealFails(k, gen)
    BY <1>24 DEF V!unseal_vault
  <2> QED
    BY <1>24, <2>1, UnsealData DEF V!unseal_vault
<1>25. ASSUME NEW u \in Units, V!Join(u) PROVE VaultData'
  BY <1>25 DEF V!Join
<1>26. ASSUME NEW u \in Units, V!Restart(u) PROVE VaultData'
  BY <1>26 DEF V!Restart
<1>27. ASSUME NEW u \in Units, V!MoveLeader(u) PROVE VaultData'
  BY <1>27 DEF V!MoveLeader
<1> QED
  BY <1>1, <1>2, <1>3, <1>4, <1>5, <1>6, <1>7, <1>8, <1>9, <1>10, <1>11, <1>12, <1>13, <1>14, <1>15,
      <1>16, <1>17, <1>18, <1>19, <1>20, <1>21, <1>22, <1>23, <1>24, <1>25, <1>26, <1>27
      DEF V!Next, V!Step

LEMMA CommandOfStep == CommandOf /\ RoundsLeft /\ V!Next => CommandOf'
<1> SUFFICES ASSUME CommandOf /\ RoundsLeft, V!Next PROVE CommandOf'
  OBVIOUS
<1> USE ServicesAssumption DEF CommandOf, RoundsLeft, VaultSteps, AutoSteps, DisableSteps,
      RefreshSteps, V!vault, V!stored, V!session, V!vvars, V!Goto, V!End, V!Command, V!ByHand,
      V!Disturb, V!SealedAgain, V!After, V!Disabling, V!Initialised, V!RoundDone, V!AfterLeader,
      V!UnsealFailed, V!Rounds, V!OneRound
<1>1. CASE V!run_enable_plans
  BY <1>1 DEF V!run_enable_plans
<1>2. CASE V!FeatureEnabled
  BY <1>2 DEF V!FeatureEnabled
<1>3. CASE V!run_disable_plans
  BY <1>3 DEF V!run_disable_plans
<1>4. CASE V!FeatureDisabled
  BY <1>4 DEF V!FeatureDisabled
<1>5. CASE V!Cleared
  BY <1>5 DEF V!Cleared
<1>6. CASE V!Disabled
  BY <1>6 DEF V!Disabled
<1>7. CASE V!VaultInitStep
  BY <1>7 DEF V!VaultInitStep
<1>8. CASE V!StoreKeys
  BY <1>8 DEF V!StoreKeys
<1>9. CASE V!auto_unseal_vault
  BY <1>9 DEF V!auto_unseal_vault, V!LeaderOpened, V!UnsealDone, V!UnsealFails, V!Give
<1>10. CASE V!AwaitOthers
  BY <1>10 DEF V!AwaitOthers
<1>11. CASE V!create_token
  BY <1>11 DEF V!create_token
<1>12. CASE V!authorize_charm
  BY <1>12 DEF V!authorize_charm
<1>13. CASE V!CharmRefreshed
  BY <1>13 DEF V!CharmRefreshed
<1>14. CASE V!Migrated
  BY <1>14 DEF V!Migrated
<1>15. CASE V!SealStatus
  BY <1>15 DEF V!SealStatus
<1>16. CASE V!Killed
  BY <1>16 DEF V!Killed
<1>17. CASE V!Enable
  BY <1>17 DEF V!Enable
<1>18. CASE V!EnableDev
  BY <1>18 DEF V!EnableDev
<1>19. CASE V!Disable
  BY <1>19 DEF V!Disable
<1>20. CASE V!Refresh
  BY <1>20 DEF V!Refresh
<1>21. CASE V!ConfigureTls
  BY <1>21 DEF V!ConfigureTls
<1>22. CASE V!initialize_vault
  BY <1>22 DEF V!initialize_vault
<1>23. CASE V!authorize_by_hand
  BY <1>23 DEF V!authorize_by_hand
<1>24. ASSUME NEW k \in 1..Threshold, V!unseal_vault(k) PROVE CommandOf'
  BY <1>24 DEF V!unseal_vault, V!LeaderOpened, V!UnsealDone, V!UnsealFails, V!Give
<1>25. ASSUME NEW u \in Units, V!Join(u) PROVE CommandOf'
  BY <1>25 DEF V!Join
<1>26. ASSUME NEW u \in Units, V!Restart(u) PROVE CommandOf'
  BY <1>26 DEF V!Restart
<1>27. ASSUME NEW u \in Units, V!MoveLeader(u) PROVE CommandOf'
  BY <1>27 DEF V!MoveLeader
<1> QED
  BY <1>1, <1>2, <1>3, <1>4, <1>5, <1>6, <1>7, <1>8, <1>9, <1>10, <1>11, <1>12, <1>13, <1>14, <1>15,
      <1>16, <1>17, <1>18, <1>19, <1>20, <1>21, <1>22, <1>23, <1>24, <1>25, <1>26, <1>27
      DEF V!Next, V!Step

LEMMA CountedStep == VaultTypeInv /\ V!Next => Counted'
<1> SUFFICES ASSUME VaultTypeInv, V!Next PROVE Counted'
  OBVIOUS
<1> USE ServicesAssumption DEF VaultTypeInv, VaultData, Counted, CommandOf, VaultSteps, AutoSteps,
      DisableSteps, RefreshSteps, V!vault, V!stored, V!session, V!vvars, V!Goto, V!End, V!Command,
      V!ByHand, V!Disturb, V!SealedAgain, V!After, V!Disabling, V!Initialised, V!RoundDone,
      V!AfterLeader, V!UnsealFailed, V!Rounds, V!OneRound
<1>1. CASE V!run_enable_plans
  BY <1>1 DEF V!run_enable_plans
<1>2. CASE V!FeatureEnabled
  BY <1>2 DEF V!FeatureEnabled
<1>3. CASE V!run_disable_plans
  BY <1>3 DEF V!run_disable_plans
<1>4. CASE V!FeatureDisabled
  BY <1>4 DEF V!FeatureDisabled
<1>5. CASE V!Cleared
  BY <1>5 DEF V!Cleared
<1>6. CASE V!Disabled
  BY <1>6 DEF V!Disabled
<1>7. CASE V!VaultInitStep
  BY <1>7 DEF V!VaultInitStep
<1>8. CASE V!StoreKeys
  BY <1>8 DEF V!StoreKeys
<1>9. CASE V!auto_unseal_vault
  BY <1>9 DEF V!auto_unseal_vault, V!LeaderOpened, V!UnsealDone, V!UnsealFails, V!Give
<1>10. CASE V!AwaitOthers
  BY <1>10 DEF V!AwaitOthers
<1>11. CASE V!create_token
  BY <1>11 DEF V!create_token
<1>12. CASE V!authorize_charm
  BY <1>12 DEF V!authorize_charm
<1>13. CASE V!CharmRefreshed
  BY <1>13 DEF V!CharmRefreshed
<1>14. CASE V!Migrated
  BY <1>14 DEF V!Migrated
<1>15. CASE V!SealStatus
  BY <1>15 DEF V!SealStatus
<1>16. CASE V!Killed
  BY <1>16 DEF V!Killed
<1>17. CASE V!Enable
  BY <1>17 DEF V!Enable
<1>18. CASE V!EnableDev
  BY <1>18 DEF V!EnableDev
<1>19. CASE V!Disable
  BY <1>19 DEF V!Disable
<1>20. CASE V!Refresh
  BY <1>20 DEF V!Refresh
<1>21. CASE V!ConfigureTls
  BY <1>21 DEF V!ConfigureTls
<1>22. CASE V!initialize_vault
  BY <1>22 DEF V!initialize_vault
<1>23. CASE V!authorize_by_hand
  BY <1>23 DEF V!authorize_by_hand
<1>24. ASSUME NEW k \in 1..Threshold, V!unseal_vault(k) PROVE Counted'
  <2>1. V!LeaderOpened(k, gen) \/ V!UnsealDone(k, gen) \/ V!UnsealFails(k, gen)
    BY <1>24 DEF V!unseal_vault
  <2>2. gens' = gens
    BY <2>1, UnsealData
  <2>3. commands' = commands + 1 /\ commands < VaultCommands /\ vaultPc' \in {"idle", "wait"}
    BY <1>24 DEF V!unseal_vault, V!LeaderOpened
  <2> QED
    BY <2>2, <2>3
<1>25. ASSUME NEW u \in Units, V!Join(u) PROVE Counted'
  BY <1>25 DEF V!Join
<1>26. ASSUME NEW u \in Units, V!Restart(u) PROVE Counted'
  BY <1>26 DEF V!Restart
<1>27. ASSUME NEW u \in Units, V!MoveLeader(u) PROVE Counted'
  BY <1>27 DEF V!MoveLeader
<1> QED
  BY <1>1, <1>2, <1>3, <1>4, <1>5, <1>6, <1>7, <1>8, <1>9, <1>10, <1>11, <1>12, <1>13, <1>14, <1>15,
      <1>16, <1>17, <1>18, <1>19, <1>20, <1>21, <1>22, <1>23, <1>24, <1>25, <1>26, <1>27
      DEF V!Next, V!Step

LEMMA RoundsStep == VaultTypeInv /\ V!Next => RoundsLeft'
<1> SUFFICES ASSUME VaultTypeInv, V!Next PROVE RoundsLeft'
  OBVIOUS
<1> USE ServicesAssumption DEF VaultTypeInv, RoundsLeft, CommandOf, VaultSteps, AutoSteps,
      DisableSteps, RefreshSteps, V!vault, V!stored, V!session, V!vvars, V!Goto, V!End, V!Command,
      V!ByHand, V!Disturb, V!SealedAgain, V!After, V!Disabling, V!Initialised, V!RoundDone,
      V!AfterLeader, V!UnsealFailed, V!Rounds, V!OneRound
<1>1. CASE V!run_enable_plans
  BY <1>1 DEF V!run_enable_plans
<1>2. CASE V!FeatureEnabled
  BY <1>2 DEF V!FeatureEnabled
<1>3. CASE V!run_disable_plans
  BY <1>3 DEF V!run_disable_plans
<1>4. CASE V!FeatureDisabled
  BY <1>4 DEF V!FeatureDisabled
<1>5. CASE V!Cleared
  BY <1>5 DEF V!Cleared
<1>6. CASE V!Disabled
  BY <1>6 DEF V!Disabled
<1>7. CASE V!VaultInitStep
  BY <1>7 DEF V!VaultInitStep
<1>8. CASE V!StoreKeys
  BY <1>8 DEF V!StoreKeys
<1>9. CASE V!auto_unseal_vault
  BY <1>9 DEF V!auto_unseal_vault, V!LeaderOpened, V!UnsealDone, V!UnsealFails, V!Give
<1>10. CASE V!AwaitOthers
  BY <1>10 DEF V!AwaitOthers
<1>11. CASE V!create_token
  BY <1>11 DEF V!create_token
<1>12. CASE V!authorize_charm
  BY <1>12 DEF V!authorize_charm
<1>13. CASE V!CharmRefreshed
  BY <1>13 DEF V!CharmRefreshed
<1>14. CASE V!Migrated
  BY <1>14 DEF V!Migrated
<1>15. CASE V!SealStatus
  BY <1>15 DEF V!SealStatus
<1>16. CASE V!Killed
  BY <1>16 DEF V!Killed
<1>17. CASE V!Enable
  BY <1>17 DEF V!Enable
<1>18. CASE V!EnableDev
  BY <1>18 DEF V!EnableDev
<1>19. CASE V!Disable
  BY <1>19 DEF V!Disable
<1>20. CASE V!Refresh
  BY <1>20 DEF V!Refresh
<1>21. CASE V!ConfigureTls
  BY <1>21 DEF V!ConfigureTls
<1>22. CASE V!initialize_vault
  BY <1>22 DEF V!initialize_vault
<1>23. CASE V!authorize_by_hand
  BY <1>23 DEF V!authorize_by_hand
<1>24. ASSUME NEW k \in 1..Threshold, V!unseal_vault(k) PROVE RoundsLeft'
  BY <1>24 DEF V!unseal_vault, V!LeaderOpened, V!UnsealDone, V!UnsealFails, V!Give
<1>25. ASSUME NEW u \in Units, V!Join(u) PROVE RoundsLeft'
  BY <1>25 DEF V!Join
<1>26. ASSUME NEW u \in Units, V!Restart(u) PROVE RoundsLeft'
  BY <1>26 DEF V!Restart
<1>27. ASSUME NEW u \in Units, V!MoveLeader(u) PROVE RoundsLeft'
  BY <1>27 DEF V!MoveLeader
<1> QED
  BY <1>1, <1>2, <1>3, <1>4, <1>5, <1>6, <1>7, <1>8, <1>9, <1>10, <1>11, <1>12, <1>13, <1>14, <1>15,
      <1>16, <1>17, <1>18, <1>19, <1>20, <1>21, <1>22, <1>23, <1>24, <1>25, <1>26, <1>27
      DEF V!Next, V!Step

LEMMA KeysStep == VaultTypeInv /\ KeysInv /\ V!Next => KeysInv'
<1> SUFFICES ASSUME VaultTypeInv /\ KeysInv, V!Next PROVE KeysInv'
  OBVIOUS
<1> USE ServicesAssumption DEF VaultTypeInv, VaultData, RoundsLeft, Counted, CommandOf, VaultSteps,
      AutoSteps, DisableSteps, RefreshSteps, KeysInv, V!vault, V!stored, V!session, V!vvars, V!Goto,
      V!End, V!Command, V!ByHand, V!Disturb, V!SealedAgain, V!After, V!Disabling, V!Initialised,
      V!RoundDone, V!AfterLeader, V!UnsealFailed, V!Rounds, V!OneRound
<1>1. CASE V!run_enable_plans
  BY <1>1 DEF V!run_enable_plans
<1>2. CASE V!FeatureEnabled
  BY <1>2 DEF V!FeatureEnabled
<1>3. CASE V!run_disable_plans
  BY <1>3 DEF V!run_disable_plans
<1>4. CASE V!FeatureDisabled
  BY <1>4 DEF V!FeatureDisabled
<1>5. CASE V!Cleared
  BY <1>5 DEF V!Cleared
<1>6. CASE V!Disabled
  BY <1>6 DEF V!Disabled
<1>7. CASE V!VaultInitStep
  BY <1>7 DEF V!VaultInitStep
<1>8. CASE V!StoreKeys
  BY <1>8 DEF V!StoreKeys
<1>9. CASE V!auto_unseal_vault
  BY <1>9 DEF V!auto_unseal_vault, V!LeaderOpened, V!UnsealDone, V!UnsealFails, V!Give
<1>10. CASE V!AwaitOthers
  BY <1>10 DEF V!AwaitOthers
<1>11. CASE V!create_token
  BY <1>11 DEF V!create_token
<1>12. CASE V!authorize_charm
  BY <1>12 DEF V!authorize_charm
<1>13. CASE V!CharmRefreshed
  BY <1>13 DEF V!CharmRefreshed
<1>14. CASE V!Migrated
  BY <1>14 DEF V!Migrated
<1>15. CASE V!SealStatus
  BY <1>15 DEF V!SealStatus
<1>16. CASE V!Killed
  BY <1>16 DEF V!Killed
<1>17. CASE V!Enable
  BY <1>17 DEF V!Enable
<1>18. CASE V!EnableDev
  BY <1>18 DEF V!EnableDev
<1>19. CASE V!Disable
  BY <1>19 DEF V!Disable
<1>20. CASE V!Refresh
  BY <1>20 DEF V!Refresh
<1>21. CASE V!ConfigureTls
  BY <1>21 DEF V!ConfigureTls
<1>22. CASE V!initialize_vault
  BY <1>22 DEF V!initialize_vault
<1>23. CASE V!authorize_by_hand
  BY <1>23 DEF V!authorize_by_hand
<1>24. ASSUME NEW k \in 1..Threshold, V!unseal_vault(k) PROVE KeysInv'
  BY <1>24 DEF V!unseal_vault, V!LeaderOpened, V!UnsealDone, V!UnsealFails, V!Give
<1>25. ASSUME NEW u \in Units, V!Join(u) PROVE KeysInv'
  BY <1>25 DEF V!Join
<1>26. ASSUME NEW u \in Units, V!Restart(u) PROVE KeysInv'
  BY <1>26 DEF V!Restart
<1>27. ASSUME NEW u \in Units, V!MoveLeader(u) PROVE KeysInv'
  BY <1>27 DEF V!MoveLeader
<1> QED
  BY <1>1, <1>2, <1>3, <1>4, <1>5, <1>6, <1>7, <1>8, <1>9, <1>10, <1>11, <1>12, <1>13, <1>14, <1>15,
      <1>16, <1>17, <1>18, <1>19, <1>20, <1>21, <1>22, <1>23, <1>24, <1>25, <1>26, <1>27
      DEF V!Next, V!Step

LEMMA UndeployedStep == VaultTypeInv /\ KeysInv /\ UndeployedInv /\ V!Next => UndeployedInv'
<1> SUFFICES ASSUME VaultTypeInv /\ KeysInv /\ UndeployedInv, V!Next PROVE UndeployedInv'
  OBVIOUS
<1> USE ServicesAssumption DEF VaultTypeInv, VaultData, RoundsLeft, Counted, CommandOf, VaultSteps,
      AutoSteps, DisableSteps, RefreshSteps, KeysInv, UndeployedInv, SealedOff, V!vault, V!stored,
      V!session, V!vvars, V!Goto, V!End, V!Command, V!ByHand, V!Disturb, V!SealedAgain, V!After,
      V!Disabling, V!Initialised, V!RoundDone, V!AfterLeader, V!UnsealFailed, V!Rounds, V!OneRound
<1>1. CASE V!run_enable_plans
  BY <1>1 DEF V!run_enable_plans
<1>2. CASE V!FeatureEnabled
  BY <1>2 DEF V!FeatureEnabled
<1>3. CASE V!run_disable_plans
  BY <1>3 DEF V!run_disable_plans
<1>4. CASE V!FeatureDisabled
  BY <1>4 DEF V!FeatureDisabled
<1>5. CASE V!Cleared
  BY <1>5 DEF V!Cleared
<1>6. CASE V!Disabled
  BY <1>6 DEF V!Disabled
<1>7. CASE V!VaultInitStep
  BY <1>7 DEF V!VaultInitStep
<1>8. CASE V!StoreKeys
  BY <1>8 DEF V!StoreKeys
<1>9. CASE V!auto_unseal_vault
  BY <1>9 DEF V!auto_unseal_vault, V!LeaderOpened, V!UnsealDone, V!UnsealFails, V!Give
<1>10. CASE V!AwaitOthers
  BY <1>10 DEF V!AwaitOthers
<1>11. CASE V!create_token
  BY <1>11 DEF V!create_token
<1>12. CASE V!authorize_charm
  BY <1>12 DEF V!authorize_charm
<1>13. CASE V!CharmRefreshed
  BY <1>13 DEF V!CharmRefreshed
<1>14. CASE V!Migrated
  BY <1>14 DEF V!Migrated
<1>15. CASE V!SealStatus
  BY <1>15 DEF V!SealStatus
<1>16. CASE V!Killed
  BY <1>16 DEF V!Killed
<1>17. CASE V!Enable
  BY <1>17 DEF V!Enable
<1>18. CASE V!EnableDev
  BY <1>18 DEF V!EnableDev
<1>19. CASE V!Disable
  BY <1>19 DEF V!Disable
<1>20. CASE V!Refresh
  BY <1>20 DEF V!Refresh
<1>21. CASE V!ConfigureTls
  BY <1>21 DEF V!ConfigureTls
<1>22. CASE V!initialize_vault
  BY <1>22 DEF V!initialize_vault
<1>23. CASE V!authorize_by_hand
  BY <1>23 DEF V!authorize_by_hand
<1>24. ASSUME NEW k \in 1..Threshold, V!unseal_vault(k) PROVE UndeployedInv'
  BY <1>24 DEF V!unseal_vault, V!LeaderOpened, V!UnsealDone, V!UnsealFails, V!Give
<1>25. ASSUME NEW u \in Units, V!Join(u) PROVE UndeployedInv'
  BY <1>25 DEF V!Join
<1>26. ASSUME NEW u \in Units, V!Restart(u) PROVE UndeployedInv'
  BY <1>26 DEF V!Restart
<1>27. ASSUME NEW u \in Units, V!MoveLeader(u) PROVE UndeployedInv'
  BY <1>27 DEF V!MoveLeader
<1> QED
  BY <1>1, <1>2, <1>3, <1>4, <1>5, <1>6, <1>7, <1>8, <1>9, <1>10, <1>11, <1>12, <1>13, <1>14, <1>15,
      <1>16, <1>17, <1>18, <1>19, <1>20, <1>21, <1>22, <1>23, <1>24, <1>25, <1>26, <1>27
      DEF V!Next, V!Step

LEMMA ConfigStep == VaultTypeInv /\ ConfigInv /\ V!Next => ConfigInv'
<1> SUFFICES ASSUME VaultTypeInv /\ ConfigInv, V!Next PROVE ConfigInv'
  OBVIOUS
<1> USE ServicesAssumption DEF VaultTypeInv, VaultData, RoundsLeft, Counted, CommandOf, VaultSteps,
      AutoSteps, DisableSteps, RefreshSteps, ConfigInv, V!vault_pki_config_key,
      V!migrate_vault_config_in_db, V!vault, V!stored, V!session, V!vvars, V!Goto, V!End, V!Command,
      V!ByHand, V!Disturb, V!SealedAgain, V!After, V!Disabling, V!Initialised, V!RoundDone,
      V!AfterLeader, V!UnsealFailed, V!Rounds, V!OneRound
<1>1. CASE V!run_enable_plans
  BY <1>1 DEF V!run_enable_plans
<1>2. CASE V!FeatureEnabled
  BY <1>2 DEF V!FeatureEnabled
<1>3. CASE V!run_disable_plans
  BY <1>3 DEF V!run_disable_plans
<1>4. CASE V!FeatureDisabled
  BY <1>4 DEF V!FeatureDisabled
<1>5. CASE V!Cleared
  BY <1>5 DEF V!Cleared
<1>6. CASE V!Disabled
  BY <1>6 DEF V!Disabled
<1>7. CASE V!VaultInitStep
  BY <1>7 DEF V!VaultInitStep
<1>8. CASE V!StoreKeys
  BY <1>8 DEF V!StoreKeys
<1>9. CASE V!auto_unseal_vault
  BY <1>9 DEF V!auto_unseal_vault, V!LeaderOpened, V!UnsealDone, V!UnsealFails, V!Give
<1>10. CASE V!AwaitOthers
  BY <1>10 DEF V!AwaitOthers
<1>11. CASE V!create_token
  BY <1>11 DEF V!create_token
<1>12. CASE V!authorize_charm
  BY <1>12 DEF V!authorize_charm
<1>13. CASE V!CharmRefreshed
  BY <1>13 DEF V!CharmRefreshed
<1>14. CASE V!Migrated
  BY <1>14 DEF V!Migrated
<1>15. CASE V!SealStatus
  BY <1>15 DEF V!SealStatus
<1>16. CASE V!Killed
  BY <1>16 DEF V!Killed
<1>17. CASE V!Enable
  BY <1>17 DEF V!Enable
<1>18. CASE V!EnableDev
  BY <1>18 DEF V!EnableDev
<1>19. CASE V!Disable
  BY <1>19 DEF V!Disable
<1>20. CASE V!Refresh
  BY <1>20 DEF V!Refresh
<1>21. CASE V!ConfigureTls
  BY <1>21 DEF V!ConfigureTls
<1>22. CASE V!initialize_vault
  BY <1>22 DEF V!initialize_vault
<1>23. CASE V!authorize_by_hand
  BY <1>23 DEF V!authorize_by_hand
<1>24. ASSUME NEW k \in 1..Threshold, V!unseal_vault(k) PROVE ConfigInv'
  BY <1>24 DEF V!unseal_vault, V!LeaderOpened, V!UnsealDone, V!UnsealFails, V!Give
<1>25. ASSUME NEW u \in Units, V!Join(u) PROVE ConfigInv'
  BY <1>25 DEF V!Join
<1>26. ASSUME NEW u \in Units, V!Restart(u) PROVE ConfigInv'
  BY <1>26 DEF V!Restart
<1>27. ASSUME NEW u \in Units, V!MoveLeader(u) PROVE ConfigInv'
  BY <1>27 DEF V!MoveLeader
<1> QED
  BY <1>1, <1>2, <1>3, <1>4, <1>5, <1>6, <1>7, <1>8, <1>9, <1>10, <1>11, <1>12, <1>13, <1>14, <1>15,
      <1>16, <1>17, <1>18, <1>19, <1>20, <1>21, <1>22, <1>23, <1>24, <1>25, <1>26, <1>27
      DEF V!Next, V!Step

LEMMA SealQuietStep == VaultTypeInv /\ KeysInv /\ QuietInv /\ V!Next => QuietInv'
<1> SUFFICES ASSUME VaultTypeInv /\ KeysInv /\ QuietInv, V!Next PROVE QuietInv'
  OBVIOUS
<1> USE ServicesAssumption DEF VaultTypeInv, VaultData, RoundsLeft, Counted, CommandOf, VaultSteps,
      AutoSteps, DisableSteps, RefreshSteps, KeysInv, QuietInv, V!vault, V!stored, V!session,
      V!vvars, V!Goto, V!End, V!Command, V!ByHand, V!Disturb, V!SealedAgain, V!After, V!Disabling,
      V!Initialised, V!RoundDone, V!AfterLeader, V!UnsealFailed, V!Rounds, V!OneRound
<1>1. CASE V!run_enable_plans
  BY <1>1 DEF V!run_enable_plans
<1>2. CASE V!FeatureEnabled
  <2>1. quiet' = quiet /\ sealed' = sealed /\ leader' = leader /\ vaultResult' # "unsealed"
    BY <1>2 DEF V!FeatureEnabled
  <2>2. vaultPc' \in {"idle", "init"} \/ (vaultPc' = "unseal" /\ rounds' = 2)
    BY <1>2 DEF V!FeatureEnabled
  <2> QED
    BY <2>1, <2>2
<1>3. CASE V!run_disable_plans
  BY <1>3 DEF V!run_disable_plans
<1>4. CASE V!FeatureDisabled
  BY <1>4 DEF V!FeatureDisabled
<1>5. CASE V!Cleared
  BY <1>5 DEF V!Cleared
<1>6. CASE V!Disabled
  BY <1>6 DEF V!Disabled
<1>7. CASE V!VaultInitStep
  BY <1>7 DEF V!VaultInitStep
<1>8. CASE V!StoreKeys
  BY <1>8 DEF V!StoreKeys
<1>9. CASE V!auto_unseal_vault
  <2>1. CASE V!UnsealFails(1, row)
    <3>1. vaultPc' = "idle" /\ vaultResult' # "unsealed"
      BY <1>9, <2>1 DEF V!auto_unseal_vault, V!UnsealFails, V!LeaderOpened, V!UnsealDone
    <3> QED
      BY <3>1
  <2> SUFFICES ASSUME quiet, ~V!UnsealFails(1, row) PROVE QuietInv'
    BY <1>9, <2>1 DEF V!auto_unseal_vault
  <2>2. row = gen /\ gen # 0 /\ mode = "dev"
    BY <1>9 DEF V!auto_unseal_vault, V!LeaderOpened, V!UnsealDone, V!Accepts
  <2>3. vaultPc = "unseal" /\ vaultResult # "unsealed" /\ rounds \in 1..2 /\ 1 \in 1..Threshold
    BY <1>9 DEF V!auto_unseal_vault
  <2>4. CASE V!LeaderOpened(1, row) /\ UNCHANGED rounds
    <3>1. leader' = leader /\ leader \notin sealed' /\ vaultPc' = "wait" /\ leader \in sealed
      BY <2>4 DEF V!LeaderOpened, V!Give
    <3>2. vaultResult' = vaultResult
      BY <1>9, <2>4 DEF V!auto_unseal_vault
    <3>3. rounds = 2
      BY <2>3, <3>1
    <3> QED
      BY <2>3, <2>4, <3>1, <3>2, <3>3
  <2>5. ASSUME V!UnsealDone(1, row), V!RoundDone, leader \in sealed PROVE QuietInv'
    <3>1. rounds = 2 /\ vaultPc' = "unseal" /\ rounds' = 1
      BY <1>9, <2>3, <2>5 DEF V!auto_unseal_vault
    <3>2. V!Give({leader}, 1) /\ {leader} \in SUBSET Units
      BY <2>5 DEF V!UnsealDone
    <3>3. leader \notin sealed'
      BY <2>2, <2>3, <3>2, GiveEffect
    <3>4. leader' = leader
      BY <3>2 DEF V!Give
    <3> QED
      BY <2>3, <2>5, <3>1, <3>3, <3>4
  <2>6. ASSUME V!UnsealDone(1, row), V!RoundDone, leader \notin sealed PROVE QuietInv'
    <3>1. V!Give(Units \ {leader}, 1) /\ Units \ {leader} \in SUBSET Units
      BY <2>6 DEF V!UnsealDone, V!Others
    <3>2. sealed' \subseteq sealed /\ sealed' \cap (Units \ {leader}) = {}
      BY <2>2, <2>3, <3>1, GiveEffect
    <3>3. sealed' = {} /\ vaultPc' \in {"unseal", "token"} /\ leader \notin sealed'
      BY <2>6, <3>2
    <3> QED
      BY <2>3, <2>6, <3>3
  <2> QED
    BY <1>9, <2>4, <2>5, <2>6 DEF V!auto_unseal_vault
<1>10. CASE V!AwaitOthers
  <2>1. quiet' = quiet /\ sealed' = sealed /\ leader' = leader /\ vaultResult' # "unsealed"
    BY <1>10 DEF V!AwaitOthers
  <2>2. CASE vaultCmd = "by_hand"
    <3>1. vaultPc' = "idle"
      BY <1>10, <2>2 DEF V!AwaitOthers
    <3> QED
      BY <2>1, <3>1
  <2>3. CASE vaultCmd # "by_hand"
    <3>1. quiet => rounds = 2 /\ leader \notin sealed
      BY <1>10, <2>3 DEF V!AwaitOthers
    <3>2. vaultPc' = "idle" \/ (rounds' = rounds - 1
          /\ vaultPc' = IF rounds = 1 THEN "token" ELSE "unseal")
      BY <1>10, <2>3 DEF V!AwaitOthers
    <3>3. quiet => vaultPc' \in {"idle", "unseal"}
      BY <3>1, <3>2
    <3> QED
      BY <2>1, <3>1, <3>3
  <2> QED
    BY <2>2, <2>3
<1>11. CASE V!create_token
  BY <1>11 DEF V!create_token
<1>12. CASE V!authorize_charm
  BY <1>12 DEF V!authorize_charm
<1>13. CASE V!CharmRefreshed
  BY <1>13 DEF V!CharmRefreshed
<1>14. CASE V!Migrated
  BY <1>14 DEF V!Migrated
<1>15. CASE V!SealStatus
  <2>1. quiet' = quiet /\ sealed' = sealed /\ leader' = leader /\ vaultResult' # "unsealed"
    BY <1>15 DEF V!SealStatus
  <2>2. vaultPc' = "idle" \/ (vaultPc' = "unseal" /\ rounds' = 2)
    BY <1>15 DEF V!SealStatus
  <2> QED
    BY <2>1, <2>2
<1>16. CASE V!Killed
  BY <1>16 DEF V!Killed
<1>17. CASE V!Enable
  BY <1>17 DEF V!Enable
<1>18. CASE V!EnableDev
  BY <1>18 DEF V!EnableDev
<1>19. CASE V!Disable
  BY <1>19 DEF V!Disable
<1>20. CASE V!Refresh
  BY <1>20 DEF V!Refresh
<1>21. CASE V!ConfigureTls
  BY <1>21 DEF V!ConfigureTls
<1>22. CASE V!initialize_vault
  BY <1>22 DEF V!initialize_vault
<1>23. CASE V!authorize_by_hand
  BY <1>23 DEF V!authorize_by_hand
<1>24. ASSUME NEW k \in 1..Threshold, V!unseal_vault(k) PROVE QuietInv'
  BY <1>24 DEF V!unseal_vault, V!LeaderOpened, V!UnsealDone, V!UnsealFails, V!Give
<1>25. ASSUME NEW u \in Units, V!Join(u) PROVE QuietInv'
  BY <1>25 DEF V!Join
<1>26. ASSUME NEW u \in Units, V!Restart(u) PROVE QuietInv'
  BY <1>26 DEF V!Restart
<1>27. ASSUME NEW u \in Units, V!MoveLeader(u) PROVE QuietInv'
  BY SMTT(30), <1>27 DEF V!MoveLeader
<1> QED
  BY <1>1, <1>2, <1>3, <1>4, <1>5, <1>6, <1>7, <1>8, <1>9, <1>10, <1>11, <1>12, <1>13, <1>14, <1>15,
      <1>16, <1>17, <1>18, <1>19, <1>20, <1>21, <1>22, <1>23, <1>24, <1>25, <1>26, <1>27
      DEF V!Next, V!Step

LEMMA FreshStep == VaultTypeInv /\ KeysInv /\ UndeployedInv /\ FreshInv /\ V!Next => FreshInv'
<1> SUFFICES ASSUME VaultTypeInv /\ KeysInv /\ UndeployedInv /\ FreshInv, V!Next PROVE FreshInv'
  OBVIOUS
<1> USE ServicesAssumption DEF VaultTypeInv, VaultData, RoundsLeft, Counted, CommandOf, VaultSteps,
      AutoSteps, DisableSteps, RefreshSteps, KeysInv, UndeployedInv, FreshInv, Untouched, SealedOff,
      OpenWithKeys, Opening, V!vault, V!stored, V!session, V!vvars, V!Goto, V!End, V!Command,
      V!ByHand, V!Disturb, V!SealedAgain, V!After, V!Disabling, V!Initialised, V!RoundDone,
      V!AfterLeader, V!UnsealFailed, V!Rounds, V!OneRound
<1>1. CASE V!run_enable_plans
  BY <1>1 DEF V!run_enable_plans
<1>2. CASE V!FeatureEnabled
  BY <1>2 DEF V!FeatureEnabled
<1>3. CASE V!run_disable_plans
  BY <1>3 DEF V!run_disable_plans
<1>4. CASE V!FeatureDisabled
  BY <1>4 DEF V!FeatureDisabled
<1>5. CASE V!Cleared
  BY <1>5 DEF V!Cleared
<1>6. CASE V!Disabled
  BY <1>6 DEF V!Disabled
<1>7. CASE V!VaultInitStep
  BY <1>7 DEF V!VaultInitStep
<1>8. CASE V!StoreKeys
  BY <1>8 DEF V!StoreKeys
<1>9. CASE V!auto_unseal_vault
  <2> SUFFICES ASSUME fresh PROVE FreshInv'
    BY <1>9 DEF V!auto_unseal_vault, V!LeaderOpened
  <2> DEFINE others == Units \ {leader}
  <2>1. vaultCmd = "enable_dev" /\ vaultResult # "failed" /\ gen # 0 /\ row = gen /\ mode = "dev"
    BY <1>9 DEF V!auto_unseal_vault
  <2>2. /\ \/ OpenWithKeys
           \/ rounds = 2 /\ Opening(Units)
           \/ rounds = 1 /\ Opening(others) /\ others \subseteq joined
        /\ 1 \in 1..Threshold /\ rounds \in 1..2
    BY <1>9 DEF V!auto_unseal_vault
  <2>3. ~V!UnsealFails(1, row) /\ {leader} \in SUBSET Units /\ others \in SUBSET Units
    BY <2>1, <2>2 DEF V!UnsealFails, V!Accepts, V!Others
  <2>4. UNCHANGED <<gen, row, leader, joined, vaultCmd, vaultResult>>
    BY <1>9, <2>3 DEF V!auto_unseal_vault, V!LeaderOpened, V!UnsealDone, V!Give
  <2>5. ASSUME V!LeaderOpened(1, row), UNCHANGED rounds PROVE FreshInv'
    <3>1. leader \in sealed /\ rounds = 2 /\ Opening(Units) /\ V!Give({leader}, 1)
      BY <2>2, <2>5 DEF V!LeaderOpened
    <3>2. sealed' = others /\ \A u \in others : keys'[u] = {}
      <4>1. leader \notin sealed' /\ sealed' \subseteq Units
        BY Zenon, <2>1, <2>2, <2>3, <3>1, GiveEffect
      <4>2. \A u \in others : keys'[u] = keys[u] /\ u \in sealed'
        BY <2>1, <2>2, <2>3, <3>1, GiveEffect
      <4> QED
        BY <3>1, <4>1, <4>2
    <3>3. vaultPc' = "wait" /\ asking' = others
      BY <2>5 DEF V!LeaderOpened, V!Others
    <3> HIDE DEF others
    <3> QED
      BY <2>1, <2>4, <2>5, <3>1, <3>2, <3>3 DEF others
  <2>6. ASSUME V!UnsealDone(1, row), V!RoundDone, leader \in sealed PROVE FreshInv'
    <3>1. rounds = 2 /\ Opening(Units) /\ V!Give({leader}, 1)
      BY <2>2, <2>6 DEF V!UnsealDone
    <3>2. leader \notin sealed' /\ sealed' \subseteq sealed
      BY Zenon, <2>1, <2>2, <2>3, <3>1, GiveEffect
    <3>3. others = {} /\ sealed' = {}
      BY <2>6, <3>2 DEF V!UnsealDone, V!Others
    <3>4. vaultPc' = "unseal"
      BY <2>6, <3>1
    <3> QED
      BY <2>1, <2>4, <3>3, <3>4
  <2>7. ASSUME V!UnsealDone(1, row), V!RoundDone, leader \notin sealed PROVE FreshInv'
    <3>1. V!Give(others, 1) /\ others \subseteq joined
      BY <2>2, <2>7 DEF V!UnsealDone, V!Others, V!Accepts
    <3>2. sealed' \subseteq sealed /\ sealed' \cap others = {}
      BY <2>1, <2>2, <2>3, <3>1, GiveEffect
    <3>3. sealed' = {} /\ vaultPc' \in {"unseal", "token"}
      BY <2>7, <3>2
    <3> QED
      BY <2>1, <2>4, <3>1, <3>3
  <2> QED
    BY <1>9, <2>3, <2>5, <2>6, <2>7 DEF V!auto_unseal_vault
<1>10. CASE V!AwaitOthers
  <2> SUFFICES ASSUME fresh PROVE FreshInv'
    BY <1>10 DEF V!AwaitOthers
  <2>1. rounds = 2 /\ asking = Units \ {leader} /\ Opening(asking) /\ vaultCmd = "enable_dev"
    BY <1>10 DEF V!AwaitOthers
  <2>2. /\ asking \subseteq joined /\ vaultPc' = "unseal" /\ rounds' = 1
        /\ UNCHANGED <<gen, row, leader, joined, sealed, keys, vaultResult, vaultCmd>>
    BY <1>10, <2>1 DEF V!AwaitOthers
  <2> QED
    BY <2>1, <2>2
<1>11. CASE V!create_token
  BY <1>11 DEF V!create_token
<1>12. CASE V!authorize_charm
  BY <1>12 DEF V!authorize_charm
<1>13. CASE V!CharmRefreshed
  BY <1>13 DEF V!CharmRefreshed
<1>14. CASE V!Migrated
  BY <1>14 DEF V!Migrated
<1>15. CASE V!SealStatus
  BY <1>15 DEF V!SealStatus
<1>16. CASE V!Killed
  BY <1>16 DEF V!Killed
<1>17. CASE V!Enable
  BY <1>17 DEF V!Enable
<1>18. CASE V!EnableDev
  BY <1>18 DEF V!EnableDev
<1>19. CASE V!Disable
  BY <1>19 DEF V!Disable
<1>20. CASE V!Refresh
  BY <1>20 DEF V!Refresh
<1>21. CASE V!ConfigureTls
  BY <1>21 DEF V!ConfigureTls
<1>22. CASE V!initialize_vault
  BY <1>22 DEF V!initialize_vault
<1>23. CASE V!authorize_by_hand
  BY <1>23 DEF V!authorize_by_hand
<1>24. ASSUME NEW k \in 1..Threshold, V!unseal_vault(k) PROVE FreshInv'
  BY <1>24 DEF V!unseal_vault, V!LeaderOpened, V!UnsealDone, V!UnsealFails, V!Give
<1>25. ASSUME NEW u \in Units, V!Join(u) PROVE FreshInv'
  BY <1>25 DEF V!Join
<1>26. ASSUME NEW u \in Units, V!Restart(u) PROVE FreshInv'
  BY <1>26 DEF V!Restart
<1>27. ASSUME NEW u \in Units, V!MoveLeader(u) PROVE FreshInv'
  BY <1>27 DEF V!MoveLeader
<1> QED
  BY <1>1, <1>2, <1>3, <1>4, <1>5, <1>6, <1>7, <1>8, <1>9, <1>10, <1>11, <1>12, <1>13, <1>14, <1>15,
      <1>16, <1>17, <1>18, <1>19, <1>20, <1>21, <1>22, <1>23, <1>24, <1>25, <1>26, <1>27
      DEF V!Next, V!Step

LEMMA VaultInit == V!Init => VaultInv
<1> SUFFICES ASSUME V!Init PROVE VaultInv
  OBVIOUS
<1> USE ServicesAssumption DEF V!Init, VaultSteps, SealedOff, Untouched
<1>1. VaultData
  BY DEF VaultData
<1>2. CommandOf /\ Counted /\ RoundsLeft
  BY DEF CommandOf, Counted, RoundsLeft, DisableSteps, RefreshSteps
<1>3. KeysInv /\ QuietInv /\ UndeployedInv /\ ConfigInv
  BY DEF KeysInv, QuietInv, UndeployedInv, ConfigInv
<1>4. FreshInv
  BY DEF FreshInv
<1> QED
  BY <1>1, <1>2, <1>3, <1>4 DEF VaultInv, VaultTypeInv

LEMMA VaultRests == VaultInv /\ UNCHANGED vvars => VaultInv'
<1> SUFFICES ASSUME VaultInv, UNCHANGED vvars PROVE VaultInv'
  OBVIOUS
<1> USE DEF vvars, VaultInv, VaultTypeInv
<1>1. VaultData'
  BY DEF VaultData, V!Needed
<1>2. CommandOf' /\ Counted' /\ RoundsLeft'
  BY DEF CommandOf, Counted, RoundsLeft
<1>3. KeysInv' /\ QuietInv' /\ UndeployedInv' /\ ConfigInv'
  BY DEF KeysInv, QuietInv, UndeployedInv, ConfigInv, V!vault_pki_config_key, SealedOff
<1>4. FreshInv'
  BY DEF FreshInv, Untouched, SealedOff, OpenWithKeys, Opening
<1> QED
  BY <1>1, <1>2, <1>3, <1>4

LEMMA VaultStep == VaultInv /\ V!Next => VaultInv'
BY VaultDataStep, CommandOfStep, CountedStep, RoundsStep, KeysStep, UndeployedStep, ConfigStep,
   SealQuietStep, FreshStep DEF VaultInv, VaultTypeInv

\* What the run checks, from the invariant.
LEMMA VaultInvOpens == VaultInv => V!VaultOpens
<1> SUFFICES ASSUME VaultInv PROVE V!VaultOpens
  OBVIOUS
<1> USE DEF VaultInv
<1>1. V!AutoUnsealed
  BY DEF V!AutoUnsealed, QuietInv
<1>2. V!KeysKept
  BY DEF V!KeysKept, KeysInv
<1>3. V!FreshEnableSucceeds
  BY DEF V!FreshEnableSucceeds, FreshInv
<1>4. V!ConfigFits
  BY DEF V!ConfigFits, ConfigInv
<1> QED
  BY <1>1, <1>2, <1>3, <1>4 DEF V!VaultOpens

\* Types, from the invariant.
LEMMA VaultInvTypes == VaultInv => V!TypeOK
<1> SUFFICES ASSUME VaultInv PROVE V!TypeOK
  OBVIOUS
<1>1. VaultData /\ Counted /\ RoundsLeft
  BY DEF VaultInv, VaultTypeInv
<1>2. gens \in 0..VaultCommands
  BY <1>1, ServicesAssumption DEF VaultData, Counted
<1> QED
  BY <1>1, <1>2 DEF V!TypeOK, VaultData, RoundsLeft, V!Rounds

\* A vault of dev mode opens with the keys that are stored: an unsealing that
\* nothing disturbed opens every unit, the keys in clusterd are those of the vault
\* that runs, a fresh `enable --dev-mode` succeeds, and the PKI configuration fits
\* the channel, whichever command was killed before.
THEOREM VaultAlwaysOpens == PartSpec => []VaultOpens
<1> DEFINE Inv == part = "vault" => VaultInv
<1>1. PartInit => Inv
  BY VaultInit DEF PartInit
<1>2. Inv /\ [PartNext]_<<part, bvars, qvars, svars, vvars, ivars>> => Inv'
  BY VaultStep, VaultRests DEF PartNext
<1>3. Inv => VaultOpens
  BY SMTT(30), VaultInvOpens DEF VaultOpens
<1> QED
  BY <1>1, <1>2, <1>3, PTL DEF PartSpec

----------------------------------------------------------------------------
(***************************************************************************)
(* Identity providers: the record, the stored variables, the file of the   *)
(* node and what is deployed                                               *)
(***************************************************************************)

\* The steps of each command about identity providers.
AddSteps == {"add_ask", "add_apply", "add_cfg", "add_tfvars"}
CanonicalSteps == {"canonical_ask", "canonical_cfg", "canonical_offers"}
RmSteps == {"rm_tfvars", "rm_cfg", "rm_apply", "rm_gone"}
PurgeSteps == {"purge_list", "purge_next", "purge_cfg", "crash"}
UpdateSteps == {"up_cfg", "up_tfvars"}
ManifestSteps == {"validate", "deploy", "canonical_all"}
SamlSteps == {"saml_secret", "saml_store", "saml_content", "saml_tfvars"}
IdSteps == {"idle", "rm_saas", "apply", "wait"} \cup AddSteps \cup CanonicalSteps \cup RmSteps
           \cup PurgeSteps \cup UpdateSteps \cup ManifestSteps \cup SamlSteps

\* The types of the state.
IdTypes ==
    /\ cfg \in [I!Providers -> {I!None} \cup I!Versions] /\ top \subseteq Canonical
    /\ tfvars \in I!Variables /\ file \in [Nodes -> I!Variables] /\ providers \in I!Variables
    /\ saas \subseteq Canonical /\ idAnswers \subseteq I!Providers
    /\ secret \in {I!None} \cup I!Versions /\ (secretId \/ idPc = "saml_store" => secret # I!None)
    /\ want \in [I!Providers \cup {"saml"} -> {I!None} \cup I!Versions]
    /\ node \in Nodes /\ version \in I!Versions /\ stale \in BOOLEAN

\* Which command takes a step, and what it is about.
IdCommand ==
    /\ idPc \in IdSteps /\ idTarget \in I!Providers \cup {"saml", I!Nobody}
    /\ idPc \in AddSteps => cmd = "add" /\ idTarget \in External
    /\ idPc \in CanonicalSteps => cmd = "add" /\ idTarget \in Canonical
    /\ idPc \in RmSteps => cmd \in {"remove", "purge"} /\ idTarget \in External
    /\ idPc = "rm_saas" => cmd = "remove" /\ idTarget \in Canonical
    /\ idPc \in PurgeSteps => cmd = "purge"
    /\ idPc \in UpdateSteps => cmd = "update" /\ idTarget \in External
    /\ idPc \in ManifestSteps => cmd = "bootstrap" /\ idTarget = I!Nobody
    /\ idPc \in SamlSteps => cmd = "saml" /\ idTarget = "saml"
    /\ idPc = "apply" => \/ cmd = "update" /\ idTarget \in External
                         \/ cmd = "saml" /\ idTarget = "saml"
                         \/ cmd = "bootstrap" /\ idTarget = I!Nobody
    /\ idPc = "wait" => \/ cmd \in {"add", "update"} /\ idTarget \in External
                        \/ cmd = "saml" /\ idTarget = "saml"
                        \/ cmd = "remove" /\ idTarget \in Canonical

\* A purge has the providers it has still to remove.
IdSubjects ==
    /\ todo \subseteq External /\ idStopped \subseteq I!Providers \cup {"saml"}
    /\ todo # {} => cmd = "purge" /\ idPc \in {"purge_next"} \cup RmSteps
    /\ idPc \in RmSteps => idTarget \notin todo

IdTypeInv == IdTypes /\ IdCommand /\ IdSubjects

\* Configured, stored and deployed as provider p was last asked to be.
Settled(p) == cfg[p] = want[p] /\ tfvars[p] = want[p] /\ (~stale => providers[p] = want[p])
\* Nothing of provider p is left.
Absent(p) == cfg[p] = I!None /\ tfvars[p] = I!None /\ (~stale => providers[p] = I!None)

\* The command that goes on may have changed what there is of provider p.
Purging == cmd = "purge" /\ idPc \in {"purge_next", "purge_cfg"} \cup RmSteps
Moving(p) ==
    \/ p = idTarget /\ idPc \in {"add_cfg", "add_tfvars", "rm_cfg", "rm_apply", "rm_gone",
         "up_tfvars", "apply", "wait"}
    \/ cmd = "bootstrap" /\ idPc \in {"deploy", "apply", "canonical_all"} /\ p \in Profiles
    \/ Purging /\ p \notin todo

\* What no running command is changing is in step.
SettledInv == \A p \in External \ idStopped : ~Moving(p) => Settled(p)

\* How far an added provider is: deployed, configured, stored.
AddInv ==
    /\ idPc \in {"add_cfg", "add_tfvars"} =>
         /\ providers[idTarget] = version /\ file[node][idTarget] = version
         /\ file[node]["saml"] = tfvars["saml"]
         /\ \A p \in External \ (idStopped \cup {idTarget}) : file[node][p] = tfvars[p]
    /\ idPc = "add_tfvars" => cfg[idTarget] = version

\* How far a removed provider is: variables, record, deployment.
RemoveInv ==
    /\ idPc = "rm_tfvars" /\ idTarget \notin idStopped =>
         Settled(idTarget) /\ cfg[idTarget] # I!None
    /\ idPc \in {"rm_cfg", "rm_apply", "rm_gone"} => tfvars[idTarget] = I!None
    /\ idPc \in {"rm_apply", "rm_gone"} => cfg[idTarget] = I!None
    /\ idPc = "rm_gone" /\ ~stale => providers[idTarget] = I!None
    /\ idPc \in {"rm_cfg", "rm_apply"} /\ idTarget \notin idStopped => file[node] = tfvars

\* A purge has listed what is configured, and leaves nothing of the others.
PurgeInv ==
    /\ \A p \in todo : cfg[p] # I!None
    /\ Purging => \A p \in External \ idStopped :
         p \notin todo /\ (p # idTarget \/ idPc \in PurgeSteps) => Absent(p)

\* An apply takes what was just stored.
StoredInv ==
    /\ idPc = "up_tfvars" => cfg[idTarget] = version
    /\ idPc = "apply" => file[node] = tfvars
    /\ (idPc = "apply" /\ cmd = "update") \/ (idPc = "wait" /\ cmd \in {"add", "update"}) =>
         cfg[idTarget] = version /\ tfvars[idTarget] = version
    /\ idPc = "wait" /\ cmd \in {"add", "update"} /\ ~stale => providers[idTarget] = version

\* How far the profiles of the manifest are.
ManifestInv ==
    /\ cmd = "bootstrap" /\ idPc \in {"deploy", "apply", "canonical_all"} =>
         \A p \in Profiles : cfg[p] = version
    /\ cmd = "bootstrap" /\ idPc \in {"apply", "canonical_all"} =>
         \A p \in Profiles \cap External : tfvars[p] = version
    /\ idPc = "canonical_all" /\ ~stale =>
         \A p \in Profiles \cap External : providers[p] = version

\* The certificate: the secret, its record, and what Keystone mounts.
Certified(v) == secret = v /\ secretId /\ tfvars["saml"] # I!None
SamlInv ==
    /\ want["saml"] # I!None /\ "saml" \notin idStopped /\ ~(cmd = "saml" /\ idPc # "idle") =>
         Certified(want["saml"]) /\ (~stale => providers["saml"] # I!None)
    /\ idPc \in {"saml_store", "saml_tfvars"} => secret = version
    /\ idPc \in {"saml_content", "saml_tfvars"} => secretId
    /\ idPc \in {"apply", "wait"} /\ cmd = "saml" => Certified(version)
    /\ idPc = "wait" /\ cmd = "saml" /\ ~stale => providers["saml"] # I!None

\* The inductive invariant.
IdInv == IdTypeInv /\ SettledInv /\ AddInv /\ RemoveInv /\ PurgeInv /\ StoredInv /\ ManifestInv
    /\ SamlInv

LEMMA IdTypesStep == IdTypeInv /\ I!Next => IdTypes'
<1> SUFFICES ASSUME IdTypeInv, I!Next PROVE IdTypes'
  OBVIOUS
<1> USE ServicesAssumption DEF IdTypeInv, IdTypes, IdCommand, I!Variables, I!Versions, I!None,
      IdSteps, AddSteps, CanonicalSteps, RmSteps, PurgeSteps, UpdateSteps, ManifestSteps, SamlSteps,
      I!world, I!args, I!session, I!Give, I!Goto, I!End, I!Subjects, I!apply, I!Merged, I!Providers,
      I!Nobody
<1>1. CASE I!Asked
  BY <1>1 DEF I!Asked
<1>2. CASE I!AddApply
  BY <1>2 DEF I!AddApply
<1>3. CASE I!AddCfg
  BY <1>3 DEF I!AddCfg
<1>4. CASE I!AddTfvars
  BY <1>4 DEF I!AddTfvars
<1>5. CASE I!Waited
  BY <1>5 DEF I!Waited
<1>6. CASE I!CanonicalCfg
  BY <1>6 DEF I!CanonicalCfg
<1>7. CASE I!CanonicalOffers
  BY <1>7 DEF I!CanonicalOffers
<1>8. CASE I!RmTfvars
  <2>1. tfvars' \in I!Variables
    BY <1>8 DEF I!RmTfvars
  <2>2. file' \in [Nodes -> I!Variables]
    BY <1>8, <2>1 DEF I!RmTfvars
  <2> QED
    BY <1>8, <2>1, <2>2 DEF I!RmTfvars
<1>9. CASE I!RmCfg
  BY <1>9 DEF I!RmCfg
<1>10. CASE I!RmApply
  BY <1>10 DEF I!RmApply
<1>11. CASE I!RmGone
  BY <1>11 DEF I!RmGone
<1>12. CASE I!RmSaas
  BY <1>12 DEF I!RmSaas
<1>13. CASE I!Crash
  BY <1>13 DEF I!Crash
<1>14. CASE I!PurgeList
  BY <1>14 DEF I!PurgeList
<1>15. CASE I!PurgeNext
  BY <1>15 DEF I!PurgeNext
<1>16. CASE I!PurgeSaas
  BY <1>16 DEF I!PurgeSaas
<1>17. CASE I!PurgeCfg
  BY <1>17 DEF I!PurgeCfg
<1>18. CASE I!_update_openid
  BY <1>18 DEF I!_update_openid
<1>19. CASE I!UpTfvars
  BY <1>19 DEF I!UpTfvars
<1>20. CASE I!Apply
  BY <1>20 DEF I!Apply
<1>21. CASE I!ValidateIdentityManifest
  BY <1>21 DEF I!ValidateIdentityManifest
<1>22. CASE I!DeployIdentityProviders
  <2>1. CASE top # {}
    BY <1>22, <2>1 DEF I!DeployIdentityProviders
  <2>2. CASE top = {}
    <3>1. tfvars' \in I!Variables
      <4>1. DOMAIN tfvars = External \cup {"saml"}
        OBVIOUS
      <4>2. tfvars' = [p \in External \cup {"saml"} |->
                        IF p \in External /\ cfg[p] # I!None THEN cfg[p] ELSE tfvars[p]]
        BY <1>22, <2>2, <4>1 DEF I!DeployIdentityProviders
      <4>3. ASSUME NEW p \in External \cup {"saml"}
            PROVE  tfvars[p] \in {I!None} \cup I!Versions
        OBVIOUS
      <4>4. ASSUME NEW p \in External PROVE cfg[p] \in {I!None} \cup I!Versions
        OBVIOUS
      <4> QED
        BY <4>2, <4>3, <4>4
    <3>2. file' \in [Nodes -> I!Variables]
      BY <1>22, <2>2, <3>1 DEF I!DeployIdentityProviders
    <3>3. /\ UNCHANGED <<cfg, top, providers, saas, idAnswers, secret, secretId, want, node,
               version, stale>>
          /\ idPc' = "apply"
      BY <1>22, <2>2 DEF I!DeployIdentityProviders
    <3> HIDE DEF I!Variables
    <3> QED
      BY <3>1, <3>2, <3>3
  <2> QED
    BY <2>1, <2>2
<1>23. CASE I!CanonicalAll
  BY <1>23 DEF I!CanonicalAll
<1>24. CASE I!SamlSecret
  BY <1>24 DEF I!SamlSecret
<1>25. CASE I!SamlStore
  BY <1>25 DEF I!SamlStore
<1>26. CASE I!SamlContent
  BY <1>26 DEF I!SamlContent
<1>27. CASE I!SamlTfvars
  BY <1>27 DEF I!SamlTfvars
<1>28. CASE I!Stopped
  BY <1>28 DEF I!Stopped
<1>29. ASSUME NEW n \in Nodes, I!Purge(n) PROVE IdTypes'
  BY <1>29 DEF I!Purge
<1>30. ASSUME NEW n \in Nodes, I!PurgeCrashes(n) PROVE IdTypes'
  BY <1>30 DEF I!PurgeCrashes
<1>31. ASSUME NEW n \in Nodes, I!Bootstrap(n) PROVE IdTypes'
  BY <1>31 DEF I!Bootstrap
<1>32. ASSUME NEW n \in Nodes, NEW p \in I!Providers, I!Remove(n, p) PROVE IdTypes'
  BY <1>32 DEF I!Remove
<1>33. ASSUME NEW n \in Nodes, NEW p \in I!Providers, I!RemoveUnknown(n, p) PROVE IdTypes'
  BY <1>33 DEF I!RemoveUnknown
<1>34. ASSUME NEW n \in Nodes, NEW v \in I!Versions, I!set_saml_x509(n, v) PROVE IdTypes'
  BY <1>34 DEF I!set_saml_x509
<1>35. ASSUME NEW n \in Nodes, NEW v \in I!Versions, NEW p \in I!Providers, I!Add(n, p, v)
      PROVE IdTypes'
  BY <1>35 DEF I!Add
<1>36. ASSUME NEW n \in Nodes, NEW v \in I!Versions, NEW p \in I!Providers, I!Update(n, p, v)
      PROVE IdTypes'
  BY SMTT(30), <1>36 DEF I!Update
<1> QED
  BY <1>1, <1>2, <1>3, <1>4, <1>5, <1>6, <1>7, <1>8, <1>9, <1>10, <1>11, <1>12, <1>13, <1>14, <1>15,
      <1>16, <1>17, <1>18, <1>19, <1>20, <1>21, <1>22, <1>23, <1>24, <1>25, <1>26, <1>27, <1>28,
      <1>29, <1>30, <1>31, <1>32, <1>33, <1>34, <1>35, <1>36 DEF I!Next, I!Step

LEMMA IdCommandStep == IdTypeInv /\ I!Next => IdCommand'
<1> SUFFICES ASSUME IdTypeInv, I!Next PROVE IdCommand'
  OBVIOUS
<1> USE ServicesAssumption DEF IdTypeInv, IdCommand, IdSubjects, IdSteps, AddSteps, CanonicalSteps,
      RmSteps, PurgeSteps, UpdateSteps, ManifestSteps, SamlSteps, I!world, I!args, I!session,
      I!Give, I!Goto, I!End, I!Subjects, I!apply, I!Merged, I!Providers, I!Nobody
<1>1. CASE I!Asked
  BY <1>1 DEF I!Asked
<1>2. CASE I!AddApply
  BY <1>2 DEF I!AddApply
<1>3. CASE I!AddCfg
  BY <1>3 DEF I!AddCfg
<1>4. CASE I!AddTfvars
  BY <1>4 DEF I!AddTfvars
<1>5. CASE I!Waited
  BY <1>5 DEF I!Waited
<1>6. CASE I!CanonicalCfg
  BY <1>6 DEF I!CanonicalCfg
<1>7. CASE I!CanonicalOffers
  BY <1>7 DEF I!CanonicalOffers
<1>8. CASE I!RmTfvars
  BY <1>8 DEF I!RmTfvars
<1>9. CASE I!RmCfg
  BY <1>9 DEF I!RmCfg
<1>10. CASE I!RmApply
  BY <1>10 DEF I!RmApply
<1>11. CASE I!RmGone
  BY <1>11 DEF I!RmGone
<1>12. CASE I!RmSaas
  BY <1>12 DEF I!RmSaas
<1>13. CASE I!Crash
  BY <1>13 DEF I!Crash
<1>14. CASE I!PurgeList
  BY <1>14 DEF I!PurgeList
<1>15. CASE I!PurgeNext
  BY <1>15 DEF I!PurgeNext
<1>16. CASE I!PurgeSaas
  BY <1>16 DEF I!PurgeSaas
<1>17. CASE I!PurgeCfg
  BY <1>17 DEF I!PurgeCfg
<1>18. CASE I!_update_openid
  BY <1>18 DEF I!_update_openid
<1>19. CASE I!UpTfvars
  BY <1>19 DEF I!UpTfvars
<1>20. CASE I!Apply
  BY <1>20 DEF I!Apply
<1>21. CASE I!ValidateIdentityManifest
  BY <1>21 DEF I!ValidateIdentityManifest
<1>22. CASE I!DeployIdentityProviders
  <2>1. cmd' = cmd /\ idTarget' = idTarget /\ cmd = "bootstrap"
    BY <1>22 DEF I!DeployIdentityProviders
  <2>2. idPc' = "idle" \/ (idPc' = "apply" /\ idTarget = I!Nobody)
    BY <1>22 DEF I!DeployIdentityProviders
  <2> QED
    BY <2>1, <2>2
<1>23. CASE I!CanonicalAll
  BY <1>23 DEF I!CanonicalAll
<1>24. CASE I!SamlSecret
  BY <1>24 DEF I!SamlSecret
<1>25. CASE I!SamlStore
  BY <1>25 DEF I!SamlStore
<1>26. CASE I!SamlContent
  BY <1>26 DEF I!SamlContent
<1>27. CASE I!SamlTfvars
  BY <1>27 DEF I!SamlTfvars
<1>28. CASE I!Stopped
  BY <1>28 DEF I!Stopped
<1>29. ASSUME NEW n \in Nodes, I!Purge(n) PROVE IdCommand'
  BY <1>29 DEF I!Purge
<1>30. ASSUME NEW n \in Nodes, I!PurgeCrashes(n) PROVE IdCommand'
  BY <1>30 DEF I!PurgeCrashes
<1>31. ASSUME NEW n \in Nodes, I!Bootstrap(n) PROVE IdCommand'
  BY <1>31 DEF I!Bootstrap
<1>32. ASSUME NEW n \in Nodes, NEW p \in I!Providers, I!Remove(n, p) PROVE IdCommand'
  BY <1>32 DEF I!Remove
<1>33. ASSUME NEW n \in Nodes, NEW p \in I!Providers, I!RemoveUnknown(n, p) PROVE IdCommand'
  BY <1>33 DEF I!RemoveUnknown
<1>34. ASSUME NEW n \in Nodes, NEW v \in I!Versions, I!set_saml_x509(n, v) PROVE IdCommand'
  BY <1>34 DEF I!set_saml_x509
<1>35. ASSUME NEW n \in Nodes, NEW v \in I!Versions, NEW p \in I!Providers, I!Add(n, p, v)
      PROVE IdCommand'
  BY <1>35 DEF I!Add
<1>36. ASSUME NEW n \in Nodes, NEW v \in I!Versions, NEW p \in I!Providers, I!Update(n, p, v)
      PROVE IdCommand'
  BY <1>36 DEF I!Update
<1> QED
  BY <1>1, <1>2, <1>3, <1>4, <1>5, <1>6, <1>7, <1>8, <1>9, <1>10, <1>11, <1>12, <1>13, <1>14, <1>15,
      <1>16, <1>17, <1>18, <1>19, <1>20, <1>21, <1>22, <1>23, <1>24, <1>25, <1>26, <1>27, <1>28,
      <1>29, <1>30, <1>31, <1>32, <1>33, <1>34, <1>35, <1>36 DEF I!Next, I!Step

LEMMA IdSubjectsStep == IdTypeInv /\ I!Next => IdSubjects'
<1> SUFFICES ASSUME IdTypeInv, I!Next PROVE IdSubjects'
  OBVIOUS
<1> USE ServicesAssumption DEF IdTypeInv, IdCommand, IdSubjects, IdSteps, AddSteps, CanonicalSteps,
      RmSteps, PurgeSteps, UpdateSteps, ManifestSteps, SamlSteps, I!world, I!args, I!session,
      I!Give, I!Goto, I!End, I!Subjects, I!apply, I!Merged, I!Providers, I!Nobody
<1>1. CASE I!Asked
  BY <1>1 DEF I!Asked
<1>2. CASE I!AddApply
  BY <1>2 DEF I!AddApply
<1>3. CASE I!AddCfg
  BY <1>3 DEF I!AddCfg
<1>4. CASE I!AddTfvars
  BY <1>4 DEF I!AddTfvars
<1>5. CASE I!Waited
  BY <1>5 DEF I!Waited
<1>6. CASE I!CanonicalCfg
  BY <1>6 DEF I!CanonicalCfg
<1>7. CASE I!CanonicalOffers
  BY <1>7 DEF I!CanonicalOffers
<1>8. CASE I!RmTfvars
  BY <1>8 DEF I!RmTfvars
<1>9. CASE I!RmCfg
  BY <1>9 DEF I!RmCfg
<1>10. CASE I!RmApply
  BY <1>10 DEF I!RmApply
<1>11. CASE I!RmGone
  BY <1>11 DEF I!RmGone
<1>12. CASE I!RmSaas
  BY <1>12 DEF I!RmSaas
<1>13. CASE I!Crash
  BY <1>13 DEF I!Crash
<1>14. CASE I!PurgeList
  BY <1>14 DEF I!PurgeList
<1>15. CASE I!PurgeNext
  BY <1>15 DEF I!PurgeNext
<1>16. CASE I!PurgeSaas
  BY <1>16 DEF I!PurgeSaas
<1>17. CASE I!PurgeCfg
  BY <1>17 DEF I!PurgeCfg
<1>18. CASE I!_update_openid
  BY <1>18 DEF I!_update_openid
<1>19. CASE I!UpTfvars
  BY <1>19 DEF I!UpTfvars
<1>20. CASE I!Apply
  BY <1>20 DEF I!Apply
<1>21. CASE I!ValidateIdentityManifest
  BY <1>21 DEF I!ValidateIdentityManifest
<1>22. CASE I!DeployIdentityProviders
  <2>1. todo' \in {todo, {}} /\ idPc' \in {"apply", "idle"}
    BY <1>22 DEF I!DeployIdentityProviders
  <2>2. idStopped' \subseteq idStopped \cup Profiles
    BY <1>22 DEF I!DeployIdentityProviders
  <2>3. todo = {}
    BY <1>22 DEF I!DeployIdentityProviders
  <2> QED
    BY <2>1, <2>2, <2>3
<1>23. CASE I!CanonicalAll
  BY <1>23 DEF I!CanonicalAll
<1>24. CASE I!SamlSecret
  BY <1>24 DEF I!SamlSecret
<1>25. CASE I!SamlStore
  BY <1>25 DEF I!SamlStore
<1>26. CASE I!SamlContent
  BY <1>26 DEF I!SamlContent
<1>27. CASE I!SamlTfvars
  BY <1>27 DEF I!SamlTfvars
<1>28. CASE I!Stopped
  BY <1>28 DEF I!Stopped
<1>29. ASSUME NEW n \in Nodes, I!Purge(n) PROVE IdSubjects'
  BY <1>29 DEF I!Purge
<1>30. ASSUME NEW n \in Nodes, I!PurgeCrashes(n) PROVE IdSubjects'
  BY <1>30 DEF I!PurgeCrashes
<1>31. ASSUME NEW n \in Nodes, I!Bootstrap(n) PROVE IdSubjects'
  BY <1>31 DEF I!Bootstrap
<1>32. ASSUME NEW n \in Nodes, NEW p \in I!Providers, I!Remove(n, p) PROVE IdSubjects'
  BY <1>32 DEF I!Remove
<1>33. ASSUME NEW n \in Nodes, NEW p \in I!Providers, I!RemoveUnknown(n, p) PROVE IdSubjects'
  BY <1>33 DEF I!RemoveUnknown
<1>34. ASSUME NEW n \in Nodes, NEW v \in I!Versions, I!set_saml_x509(n, v) PROVE IdSubjects'
  BY <1>34 DEF I!set_saml_x509
<1>35. ASSUME NEW n \in Nodes, NEW v \in I!Versions, NEW p \in I!Providers, I!Add(n, p, v)
      PROVE IdSubjects'
  BY <1>35 DEF I!Add
<1>36. ASSUME NEW n \in Nodes, NEW v \in I!Versions, NEW p \in I!Providers, I!Update(n, p, v)
      PROVE IdSubjects'
  BY SMTT(30), <1>36 DEF I!Update
<1> QED
  BY <1>1, <1>2, <1>3, <1>4, <1>5, <1>6, <1>7, <1>8, <1>9, <1>10, <1>11, <1>12, <1>13, <1>14, <1>15,
      <1>16, <1>17, <1>18, <1>19, <1>20, <1>21, <1>22, <1>23, <1>24, <1>25, <1>26, <1>27, <1>28,
      <1>29, <1>30, <1>31, <1>32, <1>33, <1>34, <1>35, <1>36 DEF I!Next, I!Step

LEMMA SettledStep == IdInv /\ I!Next => SettledInv'
<1> SUFFICES ASSUME IdInv, I!Next PROVE SettledInv'
  OBVIOUS
<1> USE ServicesAssumption DEF IdInv, IdTypeInv, IdTypes, IdCommand, IdSubjects, I!Variables,
      I!Versions, I!None, IdSteps, AddSteps, CanonicalSteps, RmSteps, PurgeSteps, UpdateSteps,
      ManifestSteps, SamlSteps, SettledInv, Settled, Moving, Purging, Absent, AddInv, RemoveInv,
      PurgeInv, StoredInv, ManifestInv, I!world, I!args, I!session, I!Give, I!Goto, I!End,
      I!Subjects, I!apply, I!Merged, I!Providers, I!Nobody
<1>1. CASE I!Asked
  BY <1>1 DEF I!Asked
<1>2. CASE I!AddApply
  BY <1>2 DEF I!AddApply
<1>3. CASE I!AddCfg
  BY <1>3 DEF I!AddCfg
<1>4. CASE I!AddTfvars
  BY <1>4 DEF I!AddTfvars
<1>5. CASE I!Waited
  BY <1>5 DEF I!Waited
<1>6. CASE I!CanonicalCfg
  BY <1>6 DEF I!CanonicalCfg
<1>7. CASE I!CanonicalOffers
  BY <1>7 DEF I!CanonicalOffers
<1>8. CASE I!RmTfvars
  BY <1>8 DEF I!RmTfvars
<1>9. CASE I!RmCfg
  BY <1>9 DEF I!RmCfg
<1>10. CASE I!RmApply
  BY Zenon, <1>10 DEF I!RmApply
<1>11. CASE I!RmGone
  BY <1>11 DEF I!RmGone
<1>12. CASE I!RmSaas
  BY <1>12 DEF I!RmSaas
<1>13. CASE I!Crash
  BY <1>13 DEF I!Crash
<1>14. CASE I!PurgeList
  BY <1>14 DEF I!PurgeList
<1>15. CASE I!PurgeNext
  BY <1>15 DEF I!PurgeNext
<1>16. CASE I!PurgeSaas
  BY <1>16 DEF I!PurgeSaas
<1>17. CASE I!PurgeCfg
  BY <1>17 DEF I!PurgeCfg
<1>18. CASE I!_update_openid
  BY <1>18 DEF I!_update_openid
<1>19. CASE I!UpTfvars
  BY <1>19 DEF I!UpTfvars
<1>20. CASE I!Apply
  BY <1>20 DEF I!Apply
<1>21. CASE I!ValidateIdentityManifest
  BY <1>21 DEF I!ValidateIdentityManifest
<1>22. CASE I!DeployIdentityProviders
  BY <1>22 DEF I!DeployIdentityProviders
<1>23. CASE I!CanonicalAll
  BY <1>23 DEF I!CanonicalAll
<1>24. CASE I!SamlSecret
  BY <1>24 DEF I!SamlSecret
<1>25. CASE I!SamlStore
  BY <1>25 DEF I!SamlStore
<1>26. CASE I!SamlContent
  BY <1>26 DEF I!SamlContent
<1>27. CASE I!SamlTfvars
  BY <1>27 DEF I!SamlTfvars
<1>28. CASE I!Stopped
  BY <1>28 DEF I!Stopped
<1>29. ASSUME NEW n \in Nodes, I!Purge(n) PROVE SettledInv'
  BY <1>29 DEF I!Purge
<1>30. ASSUME NEW n \in Nodes, I!PurgeCrashes(n) PROVE SettledInv'
  BY <1>30 DEF I!PurgeCrashes
<1>31. ASSUME NEW n \in Nodes, I!Bootstrap(n) PROVE SettledInv'
  BY <1>31 DEF I!Bootstrap
<1>32. ASSUME NEW n \in Nodes, NEW p \in I!Providers, I!Remove(n, p) PROVE SettledInv'
  BY <1>32 DEF I!Remove
<1>33. ASSUME NEW n \in Nodes, NEW p \in I!Providers, I!RemoveUnknown(n, p) PROVE SettledInv'
  BY <1>33 DEF I!RemoveUnknown
<1>34. ASSUME NEW n \in Nodes, NEW v \in I!Versions, I!set_saml_x509(n, v) PROVE SettledInv'
  BY <1>34 DEF I!set_saml_x509
<1>35. ASSUME NEW n \in Nodes, NEW v \in I!Versions, NEW p \in I!Providers, I!Add(n, p, v)
      PROVE SettledInv'
  BY <1>35 DEF I!Add
<1>36. ASSUME NEW n \in Nodes, NEW v \in I!Versions, NEW p \in I!Providers, I!Update(n, p, v)
      PROVE SettledInv'
  BY SMTT(30), <1>36 DEF I!Update
<1> QED
  BY <1>1, <1>2, <1>3, <1>4, <1>5, <1>6, <1>7, <1>8, <1>9, <1>10, <1>11, <1>12, <1>13, <1>14, <1>15,
      <1>16, <1>17, <1>18, <1>19, <1>20, <1>21, <1>22, <1>23, <1>24, <1>25, <1>26, <1>27, <1>28,
      <1>29, <1>30, <1>31, <1>32, <1>33, <1>34, <1>35, <1>36 DEF I!Next, I!Step

LEMMA AddStep == IdInv /\ I!Next => AddInv'
<1> SUFFICES ASSUME IdInv, I!Next PROVE AddInv'
  OBVIOUS
<1> USE ServicesAssumption DEF IdInv, IdTypeInv, IdTypes, IdCommand, IdSubjects, I!Variables,
      I!Versions, I!None, IdSteps, AddSteps, CanonicalSteps, RmSteps, PurgeSteps, UpdateSteps,
      ManifestSteps, SamlSteps, SettledInv, AddInv, Settled, Moving, Purging, I!world, I!args,
      I!session, I!Give, I!Goto, I!End, I!Subjects, I!apply, I!Merged, I!Providers, I!Nobody
<1>1. CASE I!Asked
  BY <1>1 DEF I!Asked
<1>2. CASE I!AddApply
  BY <1>2 DEF I!AddApply
<1>3. CASE I!AddCfg
  BY <1>3 DEF I!AddCfg
<1>4. CASE I!AddTfvars
  BY <1>4 DEF I!AddTfvars
<1>5. CASE I!Waited
  BY <1>5 DEF I!Waited
<1>6. CASE I!CanonicalCfg
  BY <1>6 DEF I!CanonicalCfg
<1>7. CASE I!CanonicalOffers
  BY <1>7 DEF I!CanonicalOffers
<1>8. CASE I!RmTfvars
  BY <1>8 DEF I!RmTfvars
<1>9. CASE I!RmCfg
  BY <1>9 DEF I!RmCfg
<1>10. CASE I!RmApply
  BY <1>10 DEF I!RmApply
<1>11. CASE I!RmGone
  BY <1>11 DEF I!RmGone
<1>12. CASE I!RmSaas
  BY <1>12 DEF I!RmSaas
<1>13. CASE I!Crash
  BY <1>13 DEF I!Crash
<1>14. CASE I!PurgeList
  BY <1>14 DEF I!PurgeList
<1>15. CASE I!PurgeNext
  BY <1>15 DEF I!PurgeNext
<1>16. CASE I!PurgeSaas
  BY <1>16 DEF I!PurgeSaas
<1>17. CASE I!PurgeCfg
  BY <1>17 DEF I!PurgeCfg
<1>18. CASE I!_update_openid
  BY <1>18 DEF I!_update_openid
<1>19. CASE I!UpTfvars
  BY <1>19 DEF I!UpTfvars
<1>20. CASE I!Apply
  BY <1>20 DEF I!Apply
<1>21. CASE I!ValidateIdentityManifest
  BY <1>21 DEF I!ValidateIdentityManifest
<1>22. CASE I!DeployIdentityProviders
  BY <1>22 DEF I!DeployIdentityProviders
<1>23. CASE I!CanonicalAll
  BY <1>23 DEF I!CanonicalAll
<1>24. CASE I!SamlSecret
  BY <1>24 DEF I!SamlSecret
<1>25. CASE I!SamlStore
  BY <1>25 DEF I!SamlStore
<1>26. CASE I!SamlContent
  BY <1>26 DEF I!SamlContent
<1>27. CASE I!SamlTfvars
  BY <1>27 DEF I!SamlTfvars
<1>28. CASE I!Stopped
  BY <1>28 DEF I!Stopped
<1>29. ASSUME NEW n \in Nodes, I!Purge(n) PROVE AddInv'
  BY <1>29 DEF I!Purge
<1>30. ASSUME NEW n \in Nodes, I!PurgeCrashes(n) PROVE AddInv'
  BY <1>30 DEF I!PurgeCrashes
<1>31. ASSUME NEW n \in Nodes, I!Bootstrap(n) PROVE AddInv'
  BY <1>31 DEF I!Bootstrap
<1>32. ASSUME NEW n \in Nodes, NEW p \in I!Providers, I!Remove(n, p) PROVE AddInv'
  BY <1>32 DEF I!Remove
<1>33. ASSUME NEW n \in Nodes, NEW p \in I!Providers, I!RemoveUnknown(n, p) PROVE AddInv'
  BY <1>33 DEF I!RemoveUnknown
<1>34. ASSUME NEW n \in Nodes, NEW v \in I!Versions, I!set_saml_x509(n, v) PROVE AddInv'
  BY <1>34 DEF I!set_saml_x509
<1>35. ASSUME NEW n \in Nodes, NEW v \in I!Versions, NEW p \in I!Providers, I!Add(n, p, v)
      PROVE AddInv'
  BY <1>35 DEF I!Add
<1>36. ASSUME NEW n \in Nodes, NEW v \in I!Versions, NEW p \in I!Providers, I!Update(n, p, v)
      PROVE AddInv'
  BY SMTT(30), <1>36 DEF I!Update
<1> QED
  BY <1>1, <1>2, <1>3, <1>4, <1>5, <1>6, <1>7, <1>8, <1>9, <1>10, <1>11, <1>12, <1>13, <1>14, <1>15,
      <1>16, <1>17, <1>18, <1>19, <1>20, <1>21, <1>22, <1>23, <1>24, <1>25, <1>26, <1>27, <1>28,
      <1>29, <1>30, <1>31, <1>32, <1>33, <1>34, <1>35, <1>36 DEF I!Next, I!Step

LEMMA RemoveStep == IdInv /\ I!Next => RemoveInv'
<1> SUFFICES ASSUME IdInv, I!Next PROVE RemoveInv'
  OBVIOUS
<1> USE ServicesAssumption DEF IdInv, IdTypeInv, IdTypes, IdCommand, IdSubjects, I!Variables,
      I!Versions, I!None, IdSteps, AddSteps, CanonicalSteps, RmSteps, PurgeSteps, UpdateSteps,
      ManifestSteps, SamlSteps, SettledInv, RemoveInv, Settled, Moving, Purging, I!world, I!args,
      I!session, I!Give, I!Goto, I!End, I!Subjects, I!apply, I!Merged, I!Providers, I!Nobody
<1>1. CASE I!Asked
  BY <1>1 DEF I!Asked
<1>2. CASE I!AddApply
  BY <1>2 DEF I!AddApply
<1>3. CASE I!AddCfg
  BY <1>3 DEF I!AddCfg
<1>4. CASE I!AddTfvars
  BY <1>4 DEF I!AddTfvars
<1>5. CASE I!Waited
  BY <1>5 DEF I!Waited
<1>6. CASE I!CanonicalCfg
  BY <1>6 DEF I!CanonicalCfg
<1>7. CASE I!CanonicalOffers
  BY <1>7 DEF I!CanonicalOffers
<1>8. CASE I!RmTfvars
  BY <1>8 DEF I!RmTfvars
<1>9. CASE I!RmCfg
  BY <1>9 DEF I!RmCfg
<1>10. CASE I!RmApply
  BY <1>10 DEF I!RmApply
<1>11. CASE I!RmGone
  BY <1>11 DEF I!RmGone
<1>12. CASE I!RmSaas
  BY <1>12 DEF I!RmSaas
<1>13. CASE I!Crash
  BY <1>13 DEF I!Crash
<1>14. CASE I!PurgeList
  BY <1>14 DEF I!PurgeList
<1>15. CASE I!PurgeNext
  BY <1>15 DEF I!PurgeNext, PurgeInv
<1>16. CASE I!PurgeSaas
  BY <1>16 DEF I!PurgeSaas
<1>17. CASE I!PurgeCfg
  BY <1>17 DEF I!PurgeCfg
<1>18. CASE I!_update_openid
  BY <1>18 DEF I!_update_openid
<1>19. CASE I!UpTfvars
  BY <1>19 DEF I!UpTfvars
<1>20. CASE I!Apply
  BY <1>20 DEF I!Apply
<1>21. CASE I!ValidateIdentityManifest
  BY <1>21 DEF I!ValidateIdentityManifest
<1>22. CASE I!DeployIdentityProviders
  BY <1>22 DEF I!DeployIdentityProviders
<1>23. CASE I!CanonicalAll
  BY <1>23 DEF I!CanonicalAll
<1>24. CASE I!SamlSecret
  BY <1>24 DEF I!SamlSecret
<1>25. CASE I!SamlStore
  BY <1>25 DEF I!SamlStore
<1>26. CASE I!SamlContent
  BY <1>26 DEF I!SamlContent
<1>27. CASE I!SamlTfvars
  BY <1>27 DEF I!SamlTfvars
<1>28. CASE I!Stopped
  BY <1>28 DEF I!Stopped
<1>29. ASSUME NEW n \in Nodes, I!Purge(n) PROVE RemoveInv'
  BY <1>29 DEF I!Purge
<1>30. ASSUME NEW n \in Nodes, I!PurgeCrashes(n) PROVE RemoveInv'
  BY <1>30 DEF I!PurgeCrashes
<1>31. ASSUME NEW n \in Nodes, I!Bootstrap(n) PROVE RemoveInv'
  BY <1>31 DEF I!Bootstrap
<1>32. ASSUME NEW n \in Nodes, NEW p \in I!Providers, I!Remove(n, p) PROVE RemoveInv'
  BY <1>32 DEF I!Remove
<1>33. ASSUME NEW n \in Nodes, NEW p \in I!Providers, I!RemoveUnknown(n, p) PROVE RemoveInv'
  BY <1>33 DEF I!RemoveUnknown
<1>34. ASSUME NEW n \in Nodes, NEW v \in I!Versions, I!set_saml_x509(n, v) PROVE RemoveInv'
  BY <1>34 DEF I!set_saml_x509
<1>35. ASSUME NEW n \in Nodes, NEW v \in I!Versions, NEW p \in I!Providers, I!Add(n, p, v)
      PROVE RemoveInv'
  BY <1>35 DEF I!Add
<1>36. ASSUME NEW n \in Nodes, NEW v \in I!Versions, NEW p \in I!Providers, I!Update(n, p, v)
      PROVE RemoveInv'
  BY <1>36 DEF I!Update
<1> QED
  BY <1>1, <1>2, <1>3, <1>4, <1>5, <1>6, <1>7, <1>8, <1>9, <1>10, <1>11, <1>12, <1>13, <1>14, <1>15,
      <1>16, <1>17, <1>18, <1>19, <1>20, <1>21, <1>22, <1>23, <1>24, <1>25, <1>26, <1>27, <1>28,
      <1>29, <1>30, <1>31, <1>32, <1>33, <1>34, <1>35, <1>36 DEF I!Next, I!Step

LEMMA PurgeStep == IdInv /\ I!Next => PurgeInv'
<1> SUFFICES ASSUME IdInv, I!Next PROVE PurgeInv'
  OBVIOUS
<1> USE ServicesAssumption DEF IdInv, IdTypeInv, IdTypes, IdCommand, IdSubjects, I!Variables,
      I!Versions, I!None, IdSteps, AddSteps, CanonicalSteps, RmSteps, PurgeSteps, UpdateSteps,
      ManifestSteps, SamlSteps, SettledInv, PurgeInv, RemoveInv, Settled, Moving, Purging, Absent,
      I!world, I!args, I!session, I!Give, I!Goto, I!End, I!Subjects, I!apply, I!Merged, I!Providers,
      I!Nobody
<1>1. CASE I!Asked
  BY <1>1 DEF I!Asked
<1>2. CASE I!AddApply
  BY <1>2 DEF I!AddApply
<1>3. CASE I!AddCfg
  BY <1>3 DEF I!AddCfg
<1>4. CASE I!AddTfvars
  BY <1>4 DEF I!AddTfvars
<1>5. CASE I!Waited
  BY <1>5 DEF I!Waited
<1>6. CASE I!CanonicalCfg
  BY <1>6 DEF I!CanonicalCfg
<1>7. CASE I!CanonicalOffers
  BY <1>7 DEF I!CanonicalOffers
<1>8. CASE I!RmTfvars
  BY <1>8 DEF I!RmTfvars
<1>9. CASE I!RmCfg
  BY <1>9 DEF I!RmCfg
<1>10. CASE I!RmApply
  BY <1>10 DEF I!RmApply
<1>11. CASE I!RmGone
  BY <1>11 DEF I!RmGone
<1>12. CASE I!RmSaas
  BY <1>12 DEF I!RmSaas
<1>13. CASE I!Crash
  BY <1>13 DEF I!Crash
<1>14. CASE I!PurgeList
  BY <1>14 DEF I!PurgeList
<1>15. CASE I!PurgeNext
  BY <1>15 DEF I!PurgeNext
<1>16. CASE I!PurgeSaas
  BY <1>16 DEF I!PurgeSaas
<1>17. CASE I!PurgeCfg
  BY <1>17 DEF I!PurgeCfg
<1>18. CASE I!_update_openid
  BY <1>18 DEF I!_update_openid
<1>19. CASE I!UpTfvars
  BY <1>19 DEF I!UpTfvars
<1>20. CASE I!Apply
  BY <1>20 DEF I!Apply
<1>21. CASE I!ValidateIdentityManifest
  BY <1>21 DEF I!ValidateIdentityManifest
<1>22. CASE I!DeployIdentityProviders
  BY <1>22 DEF I!DeployIdentityProviders
<1>23. CASE I!CanonicalAll
  BY <1>23 DEF I!CanonicalAll
<1>24. CASE I!SamlSecret
  BY <1>24 DEF I!SamlSecret
<1>25. CASE I!SamlStore
  BY <1>25 DEF I!SamlStore
<1>26. CASE I!SamlContent
  BY <1>26 DEF I!SamlContent
<1>27. CASE I!SamlTfvars
  BY <1>27 DEF I!SamlTfvars
<1>28. CASE I!Stopped
  BY <1>28 DEF I!Stopped
<1>29. ASSUME NEW n \in Nodes, I!Purge(n) PROVE PurgeInv'
  BY <1>29 DEF I!Purge
<1>30. ASSUME NEW n \in Nodes, I!PurgeCrashes(n) PROVE PurgeInv'
  BY <1>30 DEF I!PurgeCrashes
<1>31. ASSUME NEW n \in Nodes, I!Bootstrap(n) PROVE PurgeInv'
  BY <1>31 DEF I!Bootstrap
<1>32. ASSUME NEW n \in Nodes, NEW p \in I!Providers, I!Remove(n, p) PROVE PurgeInv'
  BY <1>32 DEF I!Remove
<1>33. ASSUME NEW n \in Nodes, NEW p \in I!Providers, I!RemoveUnknown(n, p) PROVE PurgeInv'
  BY <1>33 DEF I!RemoveUnknown
<1>34. ASSUME NEW n \in Nodes, NEW v \in I!Versions, I!set_saml_x509(n, v) PROVE PurgeInv'
  BY <1>34 DEF I!set_saml_x509
<1>35. ASSUME NEW n \in Nodes, NEW v \in I!Versions, NEW p \in I!Providers, I!Add(n, p, v)
      PROVE PurgeInv'
  BY <1>35 DEF I!Add
<1>36. ASSUME NEW n \in Nodes, NEW v \in I!Versions, NEW p \in I!Providers, I!Update(n, p, v)
      PROVE PurgeInv'
  BY <1>36 DEF I!Update
<1> QED
  BY <1>1, <1>2, <1>3, <1>4, <1>5, <1>6, <1>7, <1>8, <1>9, <1>10, <1>11, <1>12, <1>13, <1>14, <1>15,
      <1>16, <1>17, <1>18, <1>19, <1>20, <1>21, <1>22, <1>23, <1>24, <1>25, <1>26, <1>27, <1>28,
      <1>29, <1>30, <1>31, <1>32, <1>33, <1>34, <1>35, <1>36 DEF I!Next, I!Step

LEMMA StoredStep == IdInv /\ I!Next => StoredInv'
<1> SUFFICES ASSUME IdInv, I!Next PROVE StoredInv'
  OBVIOUS
<1> USE ServicesAssumption DEF IdInv, IdTypeInv, IdTypes, IdCommand, IdSubjects, I!Variables,
      I!Versions, I!None, IdSteps, AddSteps, CanonicalSteps, RmSteps, PurgeSteps, UpdateSteps,
      ManifestSteps, SamlSteps, AddInv, StoredInv, I!world, I!args, I!session, I!Give, I!Goto,
      I!End, I!Subjects, I!apply, I!Merged, I!Providers, I!Nobody
<1>1. CASE I!Asked
  BY <1>1 DEF I!Asked
<1>2. CASE I!AddApply
  BY <1>2 DEF I!AddApply
<1>3. CASE I!AddCfg
  BY <1>3 DEF I!AddCfg
<1>4. CASE I!AddTfvars
  BY <1>4 DEF I!AddTfvars
<1>5. CASE I!Waited
  BY <1>5 DEF I!Waited
<1>6. CASE I!CanonicalCfg
  BY <1>6 DEF I!CanonicalCfg
<1>7. CASE I!CanonicalOffers
  BY <1>7 DEF I!CanonicalOffers
<1>8. CASE I!RmTfvars
  BY <1>8 DEF I!RmTfvars
<1>9. CASE I!RmCfg
  BY <1>9 DEF I!RmCfg
<1>10. CASE I!RmApply
  BY <1>10 DEF I!RmApply
<1>11. CASE I!RmGone
  BY <1>11 DEF I!RmGone
<1>12. CASE I!RmSaas
  BY <1>12 DEF I!RmSaas
<1>13. CASE I!Crash
  BY <1>13 DEF I!Crash
<1>14. CASE I!PurgeList
  BY <1>14 DEF I!PurgeList
<1>15. CASE I!PurgeNext
  BY <1>15 DEF I!PurgeNext
<1>16. CASE I!PurgeSaas
  BY <1>16 DEF I!PurgeSaas
<1>17. CASE I!PurgeCfg
  BY <1>17 DEF I!PurgeCfg
<1>18. CASE I!_update_openid
  BY <1>18 DEF I!_update_openid
<1>19. CASE I!UpTfvars
  BY <1>19 DEF I!UpTfvars
<1>20. CASE I!Apply
  BY <1>20 DEF I!Apply
<1>21. CASE I!ValidateIdentityManifest
  BY <1>21 DEF I!ValidateIdentityManifest
<1>22. CASE I!DeployIdentityProviders
  BY <1>22 DEF I!DeployIdentityProviders
<1>23. CASE I!CanonicalAll
  BY <1>23 DEF I!CanonicalAll
<1>24. CASE I!SamlSecret
  BY <1>24 DEF I!SamlSecret
<1>25. CASE I!SamlStore
  BY <1>25 DEF I!SamlStore
<1>26. CASE I!SamlContent
  BY <1>26 DEF I!SamlContent
<1>27. CASE I!SamlTfvars
  BY <1>27 DEF I!SamlTfvars
<1>28. CASE I!Stopped
  BY <1>28 DEF I!Stopped
<1>29. ASSUME NEW n \in Nodes, I!Purge(n) PROVE StoredInv'
  BY <1>29 DEF I!Purge
<1>30. ASSUME NEW n \in Nodes, I!PurgeCrashes(n) PROVE StoredInv'
  BY <1>30 DEF I!PurgeCrashes
<1>31. ASSUME NEW n \in Nodes, I!Bootstrap(n) PROVE StoredInv'
  BY <1>31 DEF I!Bootstrap
<1>32. ASSUME NEW n \in Nodes, NEW p \in I!Providers, I!Remove(n, p) PROVE StoredInv'
  BY <1>32 DEF I!Remove
<1>33. ASSUME NEW n \in Nodes, NEW p \in I!Providers, I!RemoveUnknown(n, p) PROVE StoredInv'
  BY <1>33 DEF I!RemoveUnknown
<1>34. ASSUME NEW n \in Nodes, NEW v \in I!Versions, I!set_saml_x509(n, v) PROVE StoredInv'
  BY <1>34 DEF I!set_saml_x509
<1>35. ASSUME NEW n \in Nodes, NEW v \in I!Versions, NEW p \in I!Providers, I!Add(n, p, v)
      PROVE StoredInv'
  BY <1>35 DEF I!Add
<1>36. ASSUME NEW n \in Nodes, NEW v \in I!Versions, NEW p \in I!Providers, I!Update(n, p, v)
      PROVE StoredInv'
  BY <1>36 DEF I!Update
<1> QED
  BY <1>1, <1>2, <1>3, <1>4, <1>5, <1>6, <1>7, <1>8, <1>9, <1>10, <1>11, <1>12, <1>13, <1>14, <1>15,
      <1>16, <1>17, <1>18, <1>19, <1>20, <1>21, <1>22, <1>23, <1>24, <1>25, <1>26, <1>27, <1>28,
      <1>29, <1>30, <1>31, <1>32, <1>33, <1>34, <1>35, <1>36 DEF I!Next, I!Step

LEMMA ManifestStep == IdInv /\ I!Next => ManifestInv'
<1> SUFFICES ASSUME IdInv, I!Next PROVE ManifestInv'
  OBVIOUS
<1> USE ServicesAssumption DEF IdInv, IdTypeInv, IdTypes, IdCommand, IdSubjects, I!Variables,
      I!Versions, I!None, IdSteps, AddSteps, CanonicalSteps, RmSteps, PurgeSteps, UpdateSteps,
      ManifestSteps, SamlSteps, StoredInv, ManifestInv, I!world, I!args, I!session, I!Give, I!Goto,
      I!End, I!Subjects, I!apply, I!Merged, I!Providers, I!Nobody
<1>1. CASE I!Asked
  BY <1>1 DEF I!Asked
<1>2. CASE I!AddApply
  BY <1>2 DEF I!AddApply
<1>3. CASE I!AddCfg
  BY <1>3 DEF I!AddCfg
<1>4. CASE I!AddTfvars
  BY <1>4 DEF I!AddTfvars
<1>5. CASE I!Waited
  BY <1>5 DEF I!Waited
<1>6. CASE I!CanonicalCfg
  BY <1>6 DEF I!CanonicalCfg
<1>7. CASE I!CanonicalOffers
  BY <1>7 DEF I!CanonicalOffers
<1>8. CASE I!RmTfvars
  BY <1>8 DEF I!RmTfvars
<1>9. CASE I!RmCfg
  BY <1>9 DEF I!RmCfg
<1>10. CASE I!RmApply
  BY <1>10 DEF I!RmApply
<1>11. CASE I!RmGone
  BY <1>11 DEF I!RmGone
<1>12. CASE I!RmSaas
  BY <1>12 DEF I!RmSaas
<1>13. CASE I!Crash
  BY <1>13 DEF I!Crash
<1>14. CASE I!PurgeList
  BY <1>14 DEF I!PurgeList
<1>15. CASE I!PurgeNext
  BY <1>15 DEF I!PurgeNext
<1>16. CASE I!PurgeSaas
  BY <1>16 DEF I!PurgeSaas
<1>17. CASE I!PurgeCfg
  BY <1>17 DEF I!PurgeCfg
<1>18. CASE I!_update_openid
  BY <1>18 DEF I!_update_openid
<1>19. CASE I!UpTfvars
  BY <1>19 DEF I!UpTfvars
<1>20. CASE I!Apply
  BY <1>20 DEF I!Apply
<1>21. CASE I!ValidateIdentityManifest
  BY <1>21 DEF I!ValidateIdentityManifest
<1>22. CASE I!DeployIdentityProviders
  BY <1>22 DEF I!DeployIdentityProviders
<1>23. CASE I!CanonicalAll
  BY <1>23 DEF I!CanonicalAll
<1>24. CASE I!SamlSecret
  BY <1>24 DEF I!SamlSecret
<1>25. CASE I!SamlStore
  BY <1>25 DEF I!SamlStore
<1>26. CASE I!SamlContent
  BY <1>26 DEF I!SamlContent
<1>27. CASE I!SamlTfvars
  BY <1>27 DEF I!SamlTfvars
<1>28. CASE I!Stopped
  BY <1>28 DEF I!Stopped
<1>29. ASSUME NEW n \in Nodes, I!Purge(n) PROVE ManifestInv'
  BY <1>29 DEF I!Purge
<1>30. ASSUME NEW n \in Nodes, I!PurgeCrashes(n) PROVE ManifestInv'
  BY <1>30 DEF I!PurgeCrashes
<1>31. ASSUME NEW n \in Nodes, I!Bootstrap(n) PROVE ManifestInv'
  BY <1>31 DEF I!Bootstrap
<1>32. ASSUME NEW n \in Nodes, NEW p \in I!Providers, I!Remove(n, p) PROVE ManifestInv'
  BY <1>32 DEF I!Remove
<1>33. ASSUME NEW n \in Nodes, NEW p \in I!Providers, I!RemoveUnknown(n, p) PROVE ManifestInv'
  BY <1>33 DEF I!RemoveUnknown
<1>34. ASSUME NEW n \in Nodes, NEW v \in I!Versions, I!set_saml_x509(n, v) PROVE ManifestInv'
  BY <1>34 DEF I!set_saml_x509
<1>35. ASSUME NEW n \in Nodes, NEW v \in I!Versions, NEW p \in I!Providers, I!Add(n, p, v)
      PROVE ManifestInv'
  BY <1>35 DEF I!Add
<1>36. ASSUME NEW n \in Nodes, NEW v \in I!Versions, NEW p \in I!Providers, I!Update(n, p, v)
      PROVE ManifestInv'
  BY SMTT(30), <1>36 DEF I!Update
<1> QED
  BY <1>1, <1>2, <1>3, <1>4, <1>5, <1>6, <1>7, <1>8, <1>9, <1>10, <1>11, <1>12, <1>13, <1>14, <1>15,
      <1>16, <1>17, <1>18, <1>19, <1>20, <1>21, <1>22, <1>23, <1>24, <1>25, <1>26, <1>27, <1>28,
      <1>29, <1>30, <1>31, <1>32, <1>33, <1>34, <1>35, <1>36 DEF I!Next, I!Step

LEMMA SamlStep == IdInv /\ I!Next => SamlInv'
<1> SUFFICES ASSUME IdInv, I!Next PROVE SamlInv'
  OBVIOUS
<1> USE ServicesAssumption DEF IdInv, IdTypeInv, IdTypes, IdCommand, IdSubjects, I!Variables,
      I!Versions, I!None, IdSteps, AddSteps, CanonicalSteps, RmSteps, PurgeSteps, UpdateSteps,
      ManifestSteps, SamlSteps, StoredInv, AddInv, RemoveInv, SamlInv, Certified, I!world, I!args,
      I!session, I!Give, I!Goto, I!End, I!Subjects, I!apply, I!Merged, I!Providers, I!Nobody
<1>1. CASE I!Asked
  BY <1>1 DEF I!Asked
<1>2. CASE I!AddApply
  BY <1>2 DEF I!AddApply
<1>3. CASE I!AddCfg
  BY <1>3 DEF I!AddCfg
<1>4. CASE I!AddTfvars
  BY <1>4 DEF I!AddTfvars
<1>5. CASE I!Waited
  BY <1>5 DEF I!Waited
<1>6. CASE I!CanonicalCfg
  BY <1>6 DEF I!CanonicalCfg
<1>7. CASE I!CanonicalOffers
  BY <1>7 DEF I!CanonicalOffers
<1>8. CASE I!RmTfvars
  BY <1>8 DEF I!RmTfvars
<1>9. CASE I!RmCfg
  BY <1>9 DEF I!RmCfg
<1>10. CASE I!RmApply
  BY <1>10 DEF I!RmApply
<1>11. CASE I!RmGone
  BY <1>11 DEF I!RmGone
<1>12. CASE I!RmSaas
  BY <1>12 DEF I!RmSaas
<1>13. CASE I!Crash
  BY <1>13 DEF I!Crash
<1>14. CASE I!PurgeList
  BY <1>14 DEF I!PurgeList
<1>15. CASE I!PurgeNext
  BY <1>15 DEF I!PurgeNext
<1>16. CASE I!PurgeSaas
  BY <1>16 DEF I!PurgeSaas
<1>17. CASE I!PurgeCfg
  BY <1>17 DEF I!PurgeCfg
<1>18. CASE I!_update_openid
  BY <1>18 DEF I!_update_openid
<1>19. CASE I!UpTfvars
  BY <1>19 DEF I!UpTfvars
<1>20. CASE I!Apply
  BY <1>20 DEF I!Apply
<1>21. CASE I!ValidateIdentityManifest
  BY <1>21 DEF I!ValidateIdentityManifest
<1>22. CASE I!DeployIdentityProviders
  BY <1>22 DEF I!DeployIdentityProviders
<1>23. CASE I!CanonicalAll
  BY <1>23 DEF I!CanonicalAll
<1>24. CASE I!SamlSecret
  BY <1>24 DEF I!SamlSecret
<1>25. CASE I!SamlStore
  BY <1>25 DEF I!SamlStore
<1>26. CASE I!SamlContent
  BY <1>26 DEF I!SamlContent
<1>27. CASE I!SamlTfvars
  BY <1>27 DEF I!SamlTfvars
<1>28. CASE I!Stopped
  BY <1>28 DEF I!Stopped
<1>29. ASSUME NEW n \in Nodes, I!Purge(n) PROVE SamlInv'
  BY <1>29 DEF I!Purge
<1>30. ASSUME NEW n \in Nodes, I!PurgeCrashes(n) PROVE SamlInv'
  BY <1>30 DEF I!PurgeCrashes
<1>31. ASSUME NEW n \in Nodes, I!Bootstrap(n) PROVE SamlInv'
  BY <1>31 DEF I!Bootstrap
<1>32. ASSUME NEW n \in Nodes, NEW p \in I!Providers, I!Remove(n, p) PROVE SamlInv'
  BY <1>32 DEF I!Remove
<1>33. ASSUME NEW n \in Nodes, NEW p \in I!Providers, I!RemoveUnknown(n, p) PROVE SamlInv'
  BY <1>33 DEF I!RemoveUnknown
<1>34. ASSUME NEW n \in Nodes, NEW v \in I!Versions, I!set_saml_x509(n, v) PROVE SamlInv'
  BY <1>34 DEF I!set_saml_x509
<1>35. ASSUME NEW n \in Nodes, NEW v \in I!Versions, NEW p \in I!Providers, I!Add(n, p, v)
      PROVE SamlInv'
  BY <1>35 DEF I!Add
<1>36. ASSUME NEW n \in Nodes, NEW v \in I!Versions, NEW p \in I!Providers, I!Update(n, p, v)
      PROVE SamlInv'
  BY <1>36 DEF I!Update
<1> QED
  BY <1>1, <1>2, <1>3, <1>4, <1>5, <1>6, <1>7, <1>8, <1>9, <1>10, <1>11, <1>12, <1>13, <1>14, <1>15,
      <1>16, <1>17, <1>18, <1>19, <1>20, <1>21, <1>22, <1>23, <1>24, <1>25, <1>26, <1>27, <1>28,
      <1>29, <1>30, <1>31, <1>32, <1>33, <1>34, <1>35, <1>36 DEF I!Next, I!Step

LEMMA IdInit == I!Init => IdInv
<1> SUFFICES ASSUME I!Init PROVE IdInv
  OBVIOUS
<1> USE ServicesAssumption DEF I!Init, I!Providers, I!Versions, I!None, I!Nobody
<1>1. IdTypes
  <2>1. I!NoProviders \in I!Variables
    BY DEF I!NoProviders, I!Variables
  <2>2. tfvars \in I!Variables /\ file \in [Nodes -> I!Variables] /\ providers \in I!Variables
    BY <2>1
  <2>3. cfg \in [I!Providers -> {I!None} \cup I!Versions]
    OBVIOUS
  <2>4. want \in [I!Providers \cup {"saml"} -> {I!None} \cup I!Versions]
    OBVIOUS
  <2>5. /\ top \subseteq Canonical /\ saas \subseteq Canonical /\ idAnswers \subseteq I!Providers
        /\ node \in Nodes /\ version \in I!Versions
    OBVIOUS
  <2>6. secret = I!None /\ ~secretId /\ idPc # "saml_store" /\ stale \in BOOLEAN
    OBVIOUS
  <2> HIDE DEF I!Providers, I!Versions, I!Init
  <2> QED
    BY <2>2, <2>3, <2>4, <2>5, <2>6 DEF IdTypes
<1>2. IdCommand /\ IdSubjects
  BY DEF IdCommand, IdSubjects, IdSteps, AddSteps, CanonicalSteps, RmSteps, PurgeSteps,
         UpdateSteps, ManifestSteps, SamlSteps
<1>3. SettledInv
  BY DEF SettledInv, Settled, I!NoProviders
<1>4. AddInv /\ RemoveInv /\ StoredInv /\ ManifestInv /\ SamlInv
  BY DEF AddInv, RemoveInv, StoredInv, ManifestInv, SamlInv
<1>5. PurgeInv
  BY DEF PurgeInv, Purging
<1> QED
  BY <1>1, <1>2, <1>3, <1>4, <1>5 DEF IdInv, IdTypeInv

LEMMA IdRests == IdInv /\ UNCHANGED ivars => IdInv'
<1> SUFFICES ASSUME IdInv, UNCHANGED ivars PROVE IdInv'
  OBVIOUS
<1> USE DEF ivars, IdInv, IdTypeInv
<1>1. IdTypes' /\ IdCommand' /\ IdSubjects'
  BY DEF IdTypes, IdCommand, IdSubjects
<1>2. SettledInv'
  BY DEF SettledInv, Settled, Moving, Purging
<1>3. AddInv' /\ RemoveInv' /\ StoredInv' /\ ManifestInv' /\ SamlInv'
  BY DEF AddInv, RemoveInv, StoredInv, ManifestInv, SamlInv, Settled, Certified
<1>4. PurgeInv'
  BY DEF PurgeInv, Purging, Absent
<1> QED
  BY <1>1, <1>2, <1>3, <1>4

LEMMA IdStep == IdInv /\ I!Next => IdInv'
<1> SUFFICES ASSUME IdInv, I!Next PROVE IdInv'
  OBVIOUS
<1>1. IdTypeInv'
  BY IdTypesStep, IdCommandStep, IdSubjectsStep DEF IdInv, IdTypeInv
<1> QED
  BY <1>1, SettledStep, AddStep, RemoveStep, PurgeStep, StoredStep, ManifestStep, SamlStep
     DEF IdInv

\* What the run checks, from the invariant.
LEMMA IdInvInStep == IdInv => I!ProvidersInStep
<1> SUFFICES ASSUME IdInv PROVE I!ProvidersInStep
  OBVIOUS
<1>1. I!InStep
  BY DEF IdInv, SettledInv, Settled, Moving, Purging, RmSteps, I!InStep
<1>2. I!FilesCurrent
  BY DEF IdInv, RemoveInv, StoredInv, I!FilesCurrent
<1>3. I!SamlCurrent
  BY DEF IdInv, SamlInv, Certified, I!SamlCurrent, I!None
<1> QED
  BY <1>1, <1>2, <1>3 DEF I!ProvidersInStep

LEMMA IdInvTypes == IdInv => I!TypeOK
<1> SUFFICES ASSUME IdInv PROVE I!TypeOK
  OBVIOUS
<1> QED
  BY DEF IdInv, IdTypeInv, IdTypes, IdCommand, IdSubjects, RmSteps, I!TypeOK

\* An identity provider is configured in clusterd, stored in the variables and
\* deployed alike, the file of a node is current when the plan is applied, and the
\* certificate of SAML is what Keystone mounts, unless a command that was about it
\* was killed or failed.
THEOREM ProvidersAlwaysInStep == PartSpec => []ProvidersInStep
<1> DEFINE Inv == part = "identity" => IdInv
<1>1. PartInit => Inv
  BY IdInit DEF PartInit
<1>2. Inv /\ [PartNext]_<<part, bvars, qvars, svars, vvars, ivars>> => Inv'
  BY IdStep, IdRests DEF PartNext
<1>3. Inv => ProvidersInStep
  BY IdInvInStep DEF ProvidersInStep
<1> QED
  BY <1>1, <1>2, <1>3, PTL DEF PartSpec

----------------------------------------------------------------------------
(***************************************************************************)
(* MySQL: the routers that settle, the states of the upgrade, the scale    *)
(***************************************************************************)

\* The steps of the refresh of the routers and of MySQL.
MySQLSteps == {"idle", "routers", "refresh_routers", "wait_routers", "mysql", "upgrade", "highest",
               "resumed", "scaled_back", "end", "reapply"}

Polled == [polls : 0..SettlePolls, resumes : 0..MaxResume]
\* The types of the routers and of the waits for them.
RouterTypes ==
    /\ latest \in 1..MaxRev /\ failed \in BOOLEAN
    /\ router \in [Routers -> [rev : 1..latest, phase : Q!Phases]]
    /\ mysqlTodo \subseteq DOMAIN wait /\ DOMAIN wait \subseteq Routers
    /\ mysqlFresh \subseteq Routers
    /\ wait = [r \in DOMAIN wait |-> wait[r]]
    /\ \A r \in DOMAIN wait : wait[r] \in Polled
    /\ mysqlStops \in 0..MySQLStops /\ mysqlPc \in MySQLSteps

\* A router that this command refreshed is waited for, and polled often enough
\* only once it has settled.
RoutersInv ==
    /\ mysqlPc \in {"idle", "routers"} => mysqlFresh = {} /\ wait = Q!Polling({})
    /\ mysqlTodo # {} => mysqlPc = "refresh_routers"
    /\ mysqlTodo \cap mysqlFresh = {}
    /\ mysqlPc \in {"refresh_routers", "wait_routers"} /\ ~failed
         => mysqlFresh \subseteq DOMAIN wait
    /\ mysqlPc = "refresh_routers" => \A r \in DOMAIN wait : wait[r].polls = 0
    /\ \A r \in DOMAIN wait : wait[r].polls = SettlePolls => router[r].phase = "settled"
    /\ mysqlPc \in {"mysql", "upgrade", "highest", "resumed"} =>
         \A r \in mysqlFresh : router[r].phase = "settled"

\* The types of the charm and of the state the upgrade saves.
CharmTypes ==
    /\ rev \in 1..latest /\ scale \in Nat \ {0} /\ stack \in 0..scale
    /\ open \in BOOLEAN /\ ordered \in BOOLEAN /\ mysqlLost \in BOOLEAN
    /\ saved \in [st : 0..Q!SCALED_BACK, scale : Nat]
    /\ saved.st = 0 <=> saved = Q!NoState
    /\ saved.st # 0 => saved.scale # 0

\* The units the database has while it is upgraded.
Larger == Q!_target_scale_for_upgrade(saved.scale)

\* What the charm has done when the command has come so far.
UpgradeInv ==
    /\ open \/ ordered => stack > 0
    /\ mysqlPc = "upgrade" /\ saved.st = 0 => stack = 0
    /\ saved.st = 1 => stack = 0
    /\ saved.st = 2 => stack \in {0, scale} /\ ~open /\ ~ordered
    /\ saved.st = 3 => stack >= scale - 1 /\ ~open
    /\ saved.st \in 2..5 => scale = Larger
    /\ saved.st \in 6..7 => stack = 0
    /\ mysqlPc = "highest" => saved.st = 3
    /\ mysqlPc = "resumed" => saved.st = 4
    /\ mysqlPc = "scaled_back" => saved.st = 6
    /\ mysqlPc = "end" => saved.st \in 6..7

\* The units the database had are recorded until they are restored.
ScaleInv ==
    mysqlLost \/
      /\ saved.st = 0 => scale = Scale0
      /\ saved.st # 0 => saved.scale = Scale0 /\ scale \in {Scale0, Larger}
      /\ saved.st = 7 \/ mysqlPc \in {"scaled_back", "end"} => scale = Scale0

\* The inductive invariant.
MySQLInv == RouterTypes /\ RoutersInv /\ CharmTypes /\ UpgradeInv /\ ScaleInv

\* One unit more, or two.
LEMMA TargetLarger ==
  ASSUME NEW n \in Nat PROVE Q!_target_scale_for_upgrade(n) \in {n + 1, n + 2}
BY DEF Q!_target_scale_for_upgrade

\* The charm is only replaced and resumed while there is a unit to spare.
LEMMA UnitToSpare ==
  ASSUME CharmTypes, UpgradeInv, saved.st \in 2..5
  PROVE  scale >= 2
<1>1. saved.st # 0 /\ saved.scale \in Nat \ {0}
  BY DEF CharmTypes
<1>2. scale \in {saved.scale + 1, saved.scale + 2}
  BY <1>1, TargetLarger DEF UpgradeInv, Larger
<1> QED
  BY <1>1, <1>2

\* The polls and resumes of a wait.
LEMMA PolledType ==
  ASSUME RouterTypes, NEW r \in DOMAIN wait
  PROVE  wait[r] = [polls |-> wait[r].polls, resumes |-> wait[r].resumes]
         /\ wait[r].polls \in 0..SettlePolls /\ wait[r].resumes \in 0..MaxResume
BY DEF RouterTypes, Polled

LEMMA RouterTypesStep == MySQLInv /\ Q!Next => RouterTypes'
<1> SUFFICES ASSUME MySQLInv, Q!Next PROVE RouterTypes'
  OBVIOUS
<1> USE ServicesAssumption DEF MySQLInv, RouterTypes, RoutersInv, CharmTypes, MySQLSteps, Polled,
      Q!Phases, Q!Polling, Q!charm, Q!step, Q!EndCommand, Q!Reached, Q!_set_state, Q!RECORDED,
      Q!SCALED_UP, Q!PRECHECK_DONE, Q!HIGHEST_UNIT_UPGRADED, Q!UPGRADE_RESUMED, Q!UNITS_SETTLED,
      Q!SCALED_BACK, Q!NoState
<1>1. CASE Q!Release
  BY SMTT(30), <1>1 DEF Q!Release, Q!RecordNeeded, Q!RefreshDue, Q!ResumeDue, Q!MySQLIsSkip
<1>2. CASE Q!RouterIsSkip
  <2> DEFINE waited == Q!AppsToWait
  <2>1. waited \subseteq Routers
        /\ {r \in Routers : Q!in_channel_refresh_needed(r)} \subseteq waited
    BY DEF Q!AppsToWait
  <2>2. CASE UNCHANGED <<mysqlTodo, wait>>
    BY <1>2, <2>2 DEF Q!RouterIsSkip
  <2>3. CASE ~UNCHANGED <<mysqlTodo, wait>>
    <3>1. /\ wait' = [r \in waited |-> [polls |-> 0, resumes |-> 0]]
          /\ mysqlTodo' = {r \in Routers : Q!in_channel_refresh_needed(r)}
               /\ mysqlPc' = "refresh_routers"
      BY <1>2, <2>3 DEF Q!RouterIsSkip
    <3>2. DOMAIN wait' = waited /\ \A r \in waited : wait'[r] = [polls |-> 0, resumes |-> 0]
      BY <3>1
    <3>3. [polls |-> 0, resumes |-> 0] \in Polled /\ wait' = [r \in DOMAIN wait' |-> wait'[r]]
      BY <3>1, <3>2
    <3> HIDE DEF waited, Polled
    <3> QED
      BY <1>2, <2>1, <3>1, <3>2, <3>3 DEF Q!RouterIsSkip
  <2> QED
    BY <2>2, <2>3
<1>3. CASE Q!AllRefreshed
  BY <1>3 DEF Q!AllRefreshed, Q!RecordNeeded, Q!RefreshDue, Q!ResumeDue, Q!MySQLIsSkip
<1>4. CASE Q!RoutersDone
  <2>1. DOMAIN wait' = {} /\ mysqlTodo' \in {mysqlTodo, {}} /\ wait' = [r \in {} |-> [polls |-> 0,
        resumes |-> 0]]
    BY <1>4 DEF Q!RoutersDone
  <2>2. mysqlTodo = {} /\ mysqlFresh' \subseteq mysqlFresh /\ mysqlPc' \in {"idle", "mysql"}
    BY <1>4 DEF Q!RoutersDone
  <2>3. UNCHANGED <<latest, router, failed, mysqlStops>>
    BY <1>4 DEF Q!RoutersDone
  <2>4. wait' = [r \in DOMAIN wait' |-> wait'[r]]
    BY <2>1
  <2> QED
    BY <2>1, <2>2, <2>3, <2>4
<1>5. CASE Q!BeginMySQL
  BY <1>5 DEF Q!BeginMySQL, Q!RecordNeeded, Q!RefreshDue, Q!ResumeDue, Q!MySQLIsSkip
<1>6. CASE Q!record_original_state
  BY <1>6 DEF Q!record_original_state, Q!RecordNeeded, Q!RefreshDue, Q!ResumeDue, Q!MySQLIsSkip
<1>7. CASE Q!scale_up
  BY <1>7 DEF Q!scale_up, Q!RecordNeeded, Q!RefreshDue, Q!ResumeDue, Q!MySQLIsSkip
<1>8. CASE Q!run_precheck
  BY <1>8 DEF Q!run_precheck, Q!RecordNeeded, Q!RefreshDue, Q!ResumeDue, Q!MySQLIsSkip
<1>9. CASE Q!charm_refresh
  BY <1>9 DEF Q!charm_refresh, Q!RecordNeeded, Q!RefreshDue, Q!ResumeDue, Q!MySQLIsSkip
<1>10. CASE Q!HighestUpgraded
  BY <1>10 DEF Q!HighestUpgraded, Q!RecordNeeded, Q!RefreshDue, Q!ResumeDue, Q!MySQLIsSkip
<1>11. CASE Q!resume_upgrade
  BY <1>11 DEF Q!resume_upgrade, Q!RecordNeeded, Q!RefreshDue, Q!ResumeDue, Q!MySQLIsSkip
<1>12. CASE Q!Resumed
  BY <1>12 DEF Q!Resumed, Q!RecordNeeded, Q!RefreshDue, Q!ResumeDue, Q!MySQLIsSkip
<1>13. CASE Q!ResumeRefused
  BY <1>13 DEF Q!ResumeRefused, Q!RecordNeeded, Q!RefreshDue, Q!ResumeDue, Q!MySQLIsSkip
<1>14. CASE Q!wait_until_active
  BY <1>14 DEF Q!wait_until_active, Q!RecordNeeded, Q!RefreshDue, Q!ResumeDue, Q!MySQLIsSkip
<1>15. CASE Q!scale_back
  BY <1>15 DEF Q!scale_back, Q!RecordNeeded, Q!RefreshDue, Q!ResumeDue, Q!MySQLIsSkip
<1>16. CASE Q!ScaledBack
  BY <1>16 DEF Q!ScaledBack, Q!RecordNeeded, Q!RefreshDue, Q!ResumeDue, Q!MySQLIsSkip
<1>17. CASE Q!_reset_state
  BY SMTT(30), <1>17 DEF Q!_reset_state, Q!RecordNeeded, Q!RefreshDue, Q!ResumeDue, Q!MySQLIsSkip
<1>18. CASE Q!Reapply
  BY <1>18 DEF Q!Reapply, Q!RecordNeeded, Q!RefreshDue, Q!ResumeDue, Q!MySQLIsSkip
<1>19. CASE Q!UnitUpgrades
  BY SMTT(30), <1>19 DEF Q!UnitUpgrades, Q!RecordNeeded, Q!RefreshDue, Q!ResumeDue, Q!MySQLIsSkip
<1>20. CASE Q!ScaleBackFails
  BY <1>20 DEF Q!ScaleBackFails, Q!RecordNeeded, Q!RefreshDue, Q!ResumeDue, Q!MySQLIsSkip
<1>21. CASE Q!Stop
  BY SMTT(30), <1>21 DEF Q!Stop, Q!RecordNeeded, Q!RefreshDue, Q!ResumeDue, Q!MySQLIsSkip
<1>22. ASSUME NEW reset \in BOOLEAN, Q!Refresh(reset) PROVE RouterTypes'
  BY <1>22 DEF Q!Refresh
<1>23. ASSUME NEW r \in Routers, Q!RefreshRouter(r) PROVE RouterTypes'
  BY <1>23 DEF Q!RefreshRouter
<1>24. ASSUME NEW r \in Routers, Q!PollHealthy(r) PROVE RouterTypes'
  <2>1. r \in DOMAIN wait /\ wait' = [wait EXCEPT ![r].polls = wait[r].polls + 1]
    BY <1>24 DEF Q!PollHealthy
  <2>2. wait[r].polls \in 0..SettlePolls /\ wait[r].resumes \in 0..MaxResume
    BY <2>1, PolledType
  <2>3. [wait[r] EXCEPT !.polls = wait[r].polls + 1] \in Polled
    <3>1. wait[r] = [polls |-> wait[r].polls, resumes |-> wait[r].resumes]
      BY <2>1, PolledType
    <3> QED
      BY <1>24, <2>2, <3>1 DEF Q!PollHealthy, Q!Phases
  <2>4. wait' = [x \in DOMAIN wait |-> IF x = r
                                       THEN [wait[r] EXCEPT !.polls = wait[r].polls + 1]
                                       ELSE wait[x]]
    BY <2>1
  <2>5. DOMAIN wait' = DOMAIN wait /\ wait' = [x \in DOMAIN wait' |-> wait'[x]]
    BY <2>4
  <2>6. \A x \in DOMAIN wait' : wait'[x] \in Polled
    <3> HIDE DEF Polled
    <3> QED
      BY <2>3, <2>4 DEF RouterTypes
  <2>7. router' \in [Routers -> [rev : 1..latest, phase : Q!Phases]]
        /\ mysqlStops' \in 0..MySQLStops
    BY <1>24 DEF Q!PollHealthy
  <2>8. UNCHANGED <<latest, failed, mysqlTodo, mysqlFresh, mysqlPc>>
    BY <1>24 DEF Q!PollHealthy
  <2> HIDE DEF Polled
  <2> QED
    BY <2>5, <2>6, <2>7, <2>8
<1>25. ASSUME NEW r \in Routers, Q!PollBusy(r) PROVE RouterTypes'
  <2>1. r \in DOMAIN wait /\ wait' = [wait EXCEPT ![r].polls = 0]
    BY <1>25 DEF Q!PollBusy
  <2>2. wait[r].polls \in 0..SettlePolls /\ wait[r].resumes \in 0..MaxResume
    BY <2>1, PolledType
  <2>3. [wait[r] EXCEPT !.polls = 0] \in Polled
    <3>1. wait[r] = [polls |-> wait[r].polls, resumes |-> wait[r].resumes]
      BY <2>1, PolledType
    <3> QED
      BY <1>25, <2>2, <3>1 DEF Q!PollBusy, Q!Phases
  <2>4. wait' = [x \in DOMAIN wait |-> IF x = r THEN [wait[r] EXCEPT !.polls = 0] ELSE wait[x]]
    BY <2>1
  <2>5. DOMAIN wait' = DOMAIN wait /\ wait' = [x \in DOMAIN wait' |-> wait'[x]]
    BY <2>4
  <2>6. \A x \in DOMAIN wait' : wait'[x] \in Polled
    <3> HIDE DEF Polled
    <3> QED
      BY <2>3, <2>4 DEF RouterTypes
  <2>7. router' \in [Routers -> [rev : 1..latest, phase : Q!Phases]]
        /\ mysqlStops' \in 0..MySQLStops
    BY <1>25 DEF Q!PollBusy
  <2>8. UNCHANGED <<latest, failed, mysqlTodo, mysqlFresh, mysqlPc>>
    BY <1>25 DEF Q!PollBusy
  <2> HIDE DEF Polled
  <2> QED
    BY <2>5, <2>6, <2>7, <2>8
<1>26. ASSUME NEW r \in Routers, Q!_resume(r) PROVE RouterTypes'
  <2>1. r \in DOMAIN wait /\ wait' = [wait EXCEPT ![r] = [polls |-> 0,
        resumes |-> wait[r].resumes + 1]]
    BY <1>26 DEF Q!_resume
  <2>2. wait[r].polls \in 0..SettlePolls /\ wait[r].resumes \in 0..MaxResume
    BY <2>1, PolledType
  <2>3. [polls |-> 0, resumes |-> wait[r].resumes + 1] \in Polled
    <3>1. wait[r] = [polls |-> wait[r].polls, resumes |-> wait[r].resumes]
      BY <2>1, PolledType
    <3> QED
      BY <1>26, <2>2, <3>1 DEF Q!_resume, Q!Phases
  <2>4. wait' = [x \in DOMAIN wait |-> IF x = r THEN [polls |-> 0,
        resumes |-> wait[r].resumes + 1] ELSE wait[x]]
    BY <2>1
  <2>5. DOMAIN wait' = DOMAIN wait /\ wait' = [x \in DOMAIN wait' |-> wait'[x]]
    BY <2>4
  <2>6. \A x \in DOMAIN wait' : wait'[x] \in Polled
    <3> HIDE DEF Polled
    <3> QED
      BY <2>3, <2>4 DEF RouterTypes
  <2>7. router' \in [Routers -> [rev : 1..latest, phase : Q!Phases]]
        /\ mysqlStops' \in 0..MySQLStops
    <3>1. router[r] = [rev |-> router[r].rev, phase |-> router[r].phase]
          /\ router[r].rev \in 1..latest
      OBVIOUS
    <3>2. CASE UNCHANGED router
      BY <1>26, <3>2 DEF Q!_resume
    <3>3. CASE router' = [router EXCEPT ![r].phase = "other_units"]
      <4>1. router' = [x \in Routers |-> IF x = r
                                         THEN [router[r] EXCEPT !.phase = "other_units"]
                                         ELSE router[x]]
        BY <3>3
      <4>2. [router[r] EXCEPT !.phase = "other_units"] = [rev |-> router[r].rev,
            phase |-> "other_units"]
        BY SMTT(30), <3>1
      <4> QED
        BY <1>26, <3>1, <4>1, <4>2 DEF Q!_resume
    <3> QED
      BY <1>26, <3>2, <3>3 DEF Q!_resume
  <2>8. UNCHANGED <<latest, failed, mysqlTodo, mysqlFresh, mysqlPc>>
    BY <1>26 DEF Q!_resume
  <2> HIDE DEF Polled
  <2> QED
    BY <2>5, <2>6, <2>7, <2>8
<1>27. ASSUME NEW r \in Routers, Q!GiveUp(r) PROVE RouterTypes'
  BY <1>27 DEF Q!GiveUp
<1>28. ASSUME NEW r \in Routers, Q!RouterGoesOn(r) PROVE RouterTypes'
  <2>1. router[r] = [rev |-> router[r].rev, phase |-> router[r].phase]
        /\ router[r].rev \in 1..latest
    OBVIOUS
  <2>2. \/ router' = [router EXCEPT ![r].phase = "first_unit"]
        \/ router' = [router EXCEPT ![r].phase = "paused"]
        \/ router' = [router EXCEPT ![r].phase = "settled"]
    BY <1>28 DEF Q!RouterGoesOn
  <2>3. ASSUME NEW ph \in Q!Phases, router' = [router EXCEPT ![r].phase = ph]
        PROVE  router' \in [Routers -> [rev : 1..latest, phase : Q!Phases]]
    <3>1. router' = [x \in Routers |-> IF x = r THEN [router[r] EXCEPT !.phase = ph] ELSE router[x]]
      BY <2>3
    <3>2. [router[r] EXCEPT !.phase = ph] = [rev |-> router[r].rev, phase |-> ph]
      BY SMTT(30), <2>1
    <3> HIDE DEF Q!Phases
    <3> QED
      BY <2>1, <3>1, <3>2
  <2>4. router' \in [Routers -> [rev : 1..latest, phase : Q!Phases]]
    BY <2>2, <2>3
  <2>5. UNCHANGED <<latest, failed, mysqlTodo, mysqlFresh, mysqlPc, wait, mysqlStops>>
    BY <1>28 DEF Q!RouterGoesOn
  <2> QED
    BY ONLY RouterTypes, <2>4, <2>5 DEF RouterTypes
<1>29. ASSUME NEW r \in Routers, Q!RefreshRefused(r) PROVE RouterTypes'
  BY <1>29 DEF Q!RefreshRefused
<1> QED
  BY <1>1, <1>2, <1>3, <1>4, <1>5, <1>6, <1>7, <1>8, <1>9, <1>10, <1>11, <1>12, <1>13, <1>14, <1>15,
      <1>16, <1>17, <1>18, <1>19, <1>20, <1>21, <1>22, <1>23, <1>24, <1>25, <1>26, <1>27, <1>28,
      <1>29 DEF Q!Next, Q!RouterStep, Q!MySQLStep, Q!Charms

LEMMA RoutersStep == MySQLInv /\ Q!Next => RoutersInv'
<1> SUFFICES ASSUME MySQLInv, Q!Next PROVE RoutersInv'
  OBVIOUS
<1> USE ServicesAssumption DEF MySQLInv, RouterTypes, RoutersInv, MySQLSteps, Polled, Q!Polling,
      Q!_refresh_done, Q!Healthy, Q!charm, Q!step, Q!EndCommand, Q!Reached, Q!_set_state,
      Q!RECORDED, Q!SCALED_UP, Q!PRECHECK_DONE, Q!HIGHEST_UNIT_UPGRADED, Q!UPGRADE_RESUMED,
      Q!UNITS_SETTLED, Q!SCALED_BACK, Q!NoState
<1>1. CASE Q!Release
  BY <1>1 DEF Q!Release, Q!RecordNeeded, Q!RefreshDue, Q!ResumeDue, Q!MySQLIsSkip
<1>2. CASE Q!RouterIsSkip
  BY <1>2 DEF Q!RouterIsSkip, Q!AppsToWait, Q!in_channel_refresh_needed, Q!UpgradeInProgress,
      Q!Polling
<1>3. CASE Q!AllRefreshed
  BY <1>3 DEF Q!AllRefreshed, Q!RecordNeeded, Q!RefreshDue, Q!ResumeDue, Q!MySQLIsSkip
<1>4. CASE Q!RoutersDone
  BY SMTT(30), <1>4 DEF Q!RoutersDone, Q!RecordNeeded, Q!RefreshDue, Q!ResumeDue, Q!MySQLIsSkip
<1>5. CASE Q!BeginMySQL
  BY <1>5 DEF Q!BeginMySQL, Q!RecordNeeded, Q!RefreshDue, Q!ResumeDue, Q!MySQLIsSkip
<1>6. CASE Q!record_original_state
  BY <1>6 DEF Q!record_original_state, Q!RecordNeeded, Q!RefreshDue, Q!ResumeDue, Q!MySQLIsSkip
<1>7. CASE Q!scale_up
  BY <1>7 DEF Q!scale_up, Q!RecordNeeded, Q!RefreshDue, Q!ResumeDue, Q!MySQLIsSkip
<1>8. CASE Q!run_precheck
  BY <1>8 DEF Q!run_precheck, Q!RecordNeeded, Q!RefreshDue, Q!ResumeDue, Q!MySQLIsSkip
<1>9. CASE Q!charm_refresh
  BY <1>9 DEF Q!charm_refresh, Q!RecordNeeded, Q!RefreshDue, Q!ResumeDue, Q!MySQLIsSkip
<1>10. CASE Q!HighestUpgraded
  BY <1>10 DEF Q!HighestUpgraded, Q!RecordNeeded, Q!RefreshDue, Q!ResumeDue, Q!MySQLIsSkip
<1>11. CASE Q!resume_upgrade
  BY <1>11 DEF Q!resume_upgrade, Q!RecordNeeded, Q!RefreshDue, Q!ResumeDue, Q!MySQLIsSkip
<1>12. CASE Q!Resumed
  BY <1>12 DEF Q!Resumed, Q!RecordNeeded, Q!RefreshDue, Q!ResumeDue, Q!MySQLIsSkip
<1>13. CASE Q!ResumeRefused
  BY <1>13 DEF Q!ResumeRefused, Q!RecordNeeded, Q!RefreshDue, Q!ResumeDue, Q!MySQLIsSkip
<1>14. CASE Q!wait_until_active
  BY <1>14 DEF Q!wait_until_active, Q!RecordNeeded, Q!RefreshDue, Q!ResumeDue, Q!MySQLIsSkip
<1>15. CASE Q!scale_back
  BY <1>15 DEF Q!scale_back, Q!RecordNeeded, Q!RefreshDue, Q!ResumeDue, Q!MySQLIsSkip
<1>16. CASE Q!ScaledBack
  BY <1>16 DEF Q!ScaledBack, Q!RecordNeeded, Q!RefreshDue, Q!ResumeDue, Q!MySQLIsSkip
<1>17. CASE Q!_reset_state
  BY <1>17 DEF Q!_reset_state, Q!RecordNeeded, Q!RefreshDue, Q!ResumeDue, Q!MySQLIsSkip
<1>18. CASE Q!Reapply
  BY <1>18 DEF Q!Reapply, Q!RecordNeeded, Q!RefreshDue, Q!ResumeDue, Q!MySQLIsSkip
<1>19. CASE Q!UnitUpgrades
  BY <1>19 DEF Q!UnitUpgrades, Q!RecordNeeded, Q!RefreshDue, Q!ResumeDue, Q!MySQLIsSkip
<1>20. CASE Q!ScaleBackFails
  BY <1>20 DEF Q!ScaleBackFails, Q!RecordNeeded, Q!RefreshDue, Q!ResumeDue, Q!MySQLIsSkip
<1>21. CASE Q!Stop
  BY <1>21 DEF Q!Stop, Q!RecordNeeded, Q!RefreshDue, Q!ResumeDue, Q!MySQLIsSkip
<1>22. ASSUME NEW reset \in BOOLEAN, Q!Refresh(reset) PROVE RoutersInv'
  BY <1>22 DEF Q!Refresh
<1>23. ASSUME NEW r \in Routers, Q!RefreshRouter(r) PROVE RoutersInv'
  BY <1>23 DEF Q!RefreshRouter
<1>24. ASSUME NEW r \in Routers, Q!PollHealthy(r) PROVE RoutersInv'
  BY <1>24 DEF Q!PollHealthy
<1>25. ASSUME NEW r \in Routers, Q!PollBusy(r) PROVE RoutersInv'
  BY <1>25 DEF Q!PollBusy
<1>26. ASSUME NEW r \in Routers, Q!_resume(r) PROVE RoutersInv'
  BY <1>26 DEF Q!_resume
<1>27. ASSUME NEW r \in Routers, Q!GiveUp(r) PROVE RoutersInv'
  BY <1>27 DEF Q!GiveUp
<1>28. ASSUME NEW r \in Routers, Q!RouterGoesOn(r) PROVE RoutersInv'
  BY <1>28 DEF Q!RouterGoesOn
<1>29. ASSUME NEW r \in Routers, Q!RefreshRefused(r) PROVE RoutersInv'
  BY <1>29 DEF Q!RefreshRefused
<1> QED
  BY <1>1, <1>2, <1>3, <1>4, <1>5, <1>6, <1>7, <1>8, <1>9, <1>10, <1>11, <1>12, <1>13, <1>14, <1>15,
      <1>16, <1>17, <1>18, <1>19, <1>20, <1>21, <1>22, <1>23, <1>24, <1>25, <1>26, <1>27, <1>28,
      <1>29 DEF Q!Next, Q!RouterStep, Q!MySQLStep, Q!Charms

LEMMA CharmTypesStep == MySQLInv /\ Q!Next => CharmTypes'
<1> SUFFICES ASSUME MySQLInv, Q!Next PROVE CharmTypes'
  OBVIOUS
<1> USE ServicesAssumption DEF MySQLInv, RouterTypes, CharmTypes, UpgradeInv, MySQLSteps, Larger,
      Q!charm, Q!step, Q!EndCommand, Q!Reached, Q!_set_state, Q!RECORDED, Q!SCALED_UP,
      Q!PRECHECK_DONE, Q!HIGHEST_UNIT_UPGRADED, Q!UPGRADE_RESUMED, Q!UNITS_SETTLED, Q!SCALED_BACK,
      Q!NoState
<1>1. CASE Q!Release
  BY <1>1 DEF Q!Release, Q!RecordNeeded, Q!RefreshDue, Q!ResumeDue, Q!MySQLIsSkip
<1>2. CASE Q!RouterIsSkip
  BY <1>2 DEF Q!RouterIsSkip, Q!AppsToWait, Q!in_channel_refresh_needed, Q!UpgradeInProgress,
      Q!Polling
<1>3. CASE Q!AllRefreshed
  BY <1>3 DEF Q!AllRefreshed, Q!RecordNeeded, Q!RefreshDue, Q!ResumeDue, Q!MySQLIsSkip
<1>4. CASE Q!RoutersDone
  BY <1>4 DEF Q!RoutersDone, Q!RecordNeeded, Q!RefreshDue, Q!ResumeDue, Q!MySQLIsSkip
<1>5. CASE Q!BeginMySQL
  BY <1>5 DEF Q!BeginMySQL, Q!RecordNeeded, Q!RefreshDue, Q!ResumeDue, Q!MySQLIsSkip
<1>6. CASE Q!record_original_state
  BY <1>6 DEF Q!record_original_state, Q!RecordNeeded, Q!RefreshDue, Q!ResumeDue, Q!MySQLIsSkip
<1>7. CASE Q!scale_up
  BY <1>7, TargetLarger DEF Q!scale_up, Q!RecordNeeded
<1>8. CASE Q!run_precheck
  BY <1>8 DEF Q!run_precheck, Q!RecordNeeded, Q!RefreshDue, Q!ResumeDue, Q!MySQLIsSkip
<1>9. CASE Q!charm_refresh
  BY <1>9 DEF Q!charm_refresh, Q!RecordNeeded, Q!RefreshDue, Q!ResumeDue, Q!MySQLIsSkip
<1>10. CASE Q!HighestUpgraded
  BY <1>10 DEF Q!HighestUpgraded, Q!RecordNeeded, Q!RefreshDue, Q!ResumeDue, Q!MySQLIsSkip
<1>11. CASE Q!resume_upgrade
  BY <1>11 DEF Q!resume_upgrade, Q!RecordNeeded, Q!RefreshDue, Q!ResumeDue, Q!MySQLIsSkip
<1>12. CASE Q!Resumed
  BY <1>12 DEF Q!Resumed, Q!RecordNeeded, Q!RefreshDue, Q!ResumeDue, Q!MySQLIsSkip
<1>13. CASE Q!ResumeRefused
  BY <1>13 DEF Q!ResumeRefused, Q!RecordNeeded, Q!RefreshDue, Q!ResumeDue, Q!MySQLIsSkip
<1>14. CASE Q!wait_until_active
  BY <1>14 DEF Q!wait_until_active, Q!RecordNeeded, Q!RefreshDue, Q!ResumeDue, Q!MySQLIsSkip
<1>15. CASE Q!scale_back
  BY <1>15 DEF Q!scale_back, Q!RecordNeeded, Q!RefreshDue, Q!ResumeDue, Q!MySQLIsSkip
<1>16. CASE Q!ScaledBack
  BY <1>16 DEF Q!ScaledBack, Q!RecordNeeded, Q!RefreshDue, Q!ResumeDue, Q!MySQLIsSkip
<1>17. CASE Q!_reset_state
  BY <1>17 DEF Q!_reset_state, Q!RecordNeeded, Q!RefreshDue, Q!ResumeDue, Q!MySQLIsSkip
<1>18. CASE Q!Reapply
  BY <1>18 DEF Q!Reapply, Q!RecordNeeded, Q!RefreshDue, Q!ResumeDue, Q!MySQLIsSkip
<1>19. CASE Q!UnitUpgrades
  BY <1>19 DEF Q!UnitUpgrades, Q!RecordNeeded, Q!RefreshDue, Q!ResumeDue, Q!MySQLIsSkip
<1>20. CASE Q!ScaleBackFails
  BY <1>20 DEF Q!ScaleBackFails, Q!RecordNeeded, Q!RefreshDue, Q!ResumeDue, Q!MySQLIsSkip
<1>21. CASE Q!Stop
  BY <1>21 DEF Q!Stop, Q!RecordNeeded, Q!RefreshDue, Q!ResumeDue, Q!MySQLIsSkip
<1>22. ASSUME NEW reset \in BOOLEAN, Q!Refresh(reset) PROVE CharmTypes'
  BY <1>22 DEF Q!Refresh
<1>23. ASSUME NEW r \in Routers, Q!RefreshRouter(r) PROVE CharmTypes'
  BY <1>23 DEF Q!RefreshRouter
<1>24. ASSUME NEW r \in Routers, Q!PollHealthy(r) PROVE CharmTypes'
  BY <1>24 DEF Q!PollHealthy
<1>25. ASSUME NEW r \in Routers, Q!PollBusy(r) PROVE CharmTypes'
  BY <1>25 DEF Q!PollBusy
<1>26. ASSUME NEW r \in Routers, Q!_resume(r) PROVE CharmTypes'
  BY <1>26 DEF Q!_resume
<1>27. ASSUME NEW r \in Routers, Q!GiveUp(r) PROVE CharmTypes'
  BY <1>27 DEF Q!GiveUp
<1>28. ASSUME NEW r \in Routers, Q!RouterGoesOn(r) PROVE CharmTypes'
  BY <1>28 DEF Q!RouterGoesOn
<1>29. ASSUME NEW r \in Routers, Q!RefreshRefused(r) PROVE CharmTypes'
  BY <1>29 DEF Q!RefreshRefused
<1> QED
  BY <1>1, <1>2, <1>3, <1>4, <1>5, <1>6, <1>7, <1>8, <1>9, <1>10, <1>11, <1>12, <1>13, <1>14, <1>15,
      <1>16, <1>17, <1>18, <1>19, <1>20, <1>21, <1>22, <1>23, <1>24, <1>25, <1>26, <1>27, <1>28,
      <1>29 DEF Q!Next, Q!RouterStep, Q!MySQLStep, Q!Charms

LEMMA UpgradeStep == MySQLInv /\ Q!Next => UpgradeInv'
<1> SUFFICES ASSUME MySQLInv, Q!Next PROVE UpgradeInv'
  OBVIOUS
<1> USE ServicesAssumption DEF MySQLInv, CharmTypes, UpgradeInv, MySQLSteps, Larger, Q!charm,
      Q!step, Q!EndCommand, Q!Reached, Q!_set_state, Q!RECORDED, Q!SCALED_UP, Q!PRECHECK_DONE,
      Q!HIGHEST_UNIT_UPGRADED, Q!UPGRADE_RESUMED, Q!UNITS_SETTLED, Q!SCALED_BACK, Q!NoState
<1>1. CASE Q!Release
  BY <1>1 DEF Q!Release, Q!RecordNeeded, Q!RefreshDue, Q!ResumeDue, Q!MySQLIsSkip
<1>2. CASE Q!RouterIsSkip
  BY <1>2 DEF Q!RouterIsSkip, Q!AppsToWait, Q!in_channel_refresh_needed, Q!UpgradeInProgress,
      Q!Polling
<1>3. CASE Q!AllRefreshed
  BY <1>3 DEF Q!AllRefreshed, Q!RecordNeeded, Q!RefreshDue, Q!ResumeDue, Q!MySQLIsSkip
<1>4. CASE Q!RoutersDone
  BY <1>4 DEF Q!RoutersDone, Q!RecordNeeded, Q!RefreshDue, Q!ResumeDue, Q!MySQLIsSkip
<1>5. CASE Q!BeginMySQL
  BY <1>5 DEF Q!BeginMySQL, Q!RecordNeeded, Q!RefreshDue, Q!ResumeDue, Q!MySQLIsSkip
<1>6. CASE Q!record_original_state
  BY <1>6 DEF Q!record_original_state, Q!RecordNeeded, Q!RefreshDue, Q!ResumeDue, Q!MySQLIsSkip
<1>7. CASE Q!scale_up
  BY <1>7 DEF Q!scale_up, Q!RecordNeeded, Q!RefreshDue, Q!ResumeDue, Q!MySQLIsSkip
<1>8. CASE Q!run_precheck
  BY <1>8 DEF Q!run_precheck, Q!RecordNeeded, Q!RefreshDue, Q!ResumeDue, Q!MySQLIsSkip
<1>9. CASE Q!charm_refresh
  BY <1>9, UnitToSpare DEF Q!charm_refresh, Q!RefreshDue, Q!ResumeDue
<1>10. CASE Q!HighestUpgraded
  BY <1>10 DEF Q!HighestUpgraded, Q!RecordNeeded, Q!RefreshDue, Q!ResumeDue, Q!MySQLIsSkip
<1>11. CASE Q!resume_upgrade
  BY <1>11, UnitToSpare DEF Q!resume_upgrade, Q!RefreshDue, Q!ResumeDue
<1>12. CASE Q!Resumed
  BY <1>12 DEF Q!Resumed, Q!RecordNeeded, Q!RefreshDue, Q!ResumeDue, Q!MySQLIsSkip
<1>13. CASE Q!ResumeRefused
  BY <1>13 DEF Q!ResumeRefused, Q!RecordNeeded, Q!RefreshDue, Q!ResumeDue, Q!MySQLIsSkip
<1>14. CASE Q!wait_until_active
  BY <1>14 DEF Q!wait_until_active, Q!RecordNeeded, Q!RefreshDue, Q!ResumeDue, Q!MySQLIsSkip
<1>15. CASE Q!scale_back
  BY <1>15 DEF Q!scale_back, Q!RecordNeeded, Q!RefreshDue, Q!ResumeDue, Q!MySQLIsSkip
<1>16. CASE Q!ScaledBack
  BY <1>16 DEF Q!ScaledBack, Q!RecordNeeded, Q!RefreshDue, Q!ResumeDue, Q!MySQLIsSkip
<1>17. CASE Q!_reset_state
  BY <1>17 DEF Q!_reset_state, Q!RecordNeeded, Q!RefreshDue, Q!ResumeDue, Q!MySQLIsSkip
<1>18. CASE Q!Reapply
  BY <1>18 DEF Q!Reapply, Q!RecordNeeded, Q!RefreshDue, Q!ResumeDue, Q!MySQLIsSkip
<1>19. CASE Q!UnitUpgrades
  <2>1. /\ ordered /\ stack > 0 /\ (stack < scale => open) /\ stack' = stack - 1
        /\ open' = (open /\ stack > 1) /\ ordered' = (stack > 1)
        /\ UNCHANGED <<scale, saved, mysqlPc>>
    BY <1>19 DEF Q!UnitUpgrades
  <2>2. saved \in [st : 0..7, scale : Nat] /\ stack \in Nat /\ scale \in Nat /\ stack <= scale
    OBVIOUS
  <2>3. (open' => stack > 1) /\ (ordered' => stack > 1)
    BY <2>1, Zenon
  <2>4. open' \/ ordered' => stack' > 0
    BY <2>1, <2>2, <2>3
  <2>5. saved.st \in 3..5 \/ saved.st \notin 1..7
    BY <2>1, <2>2
  <2>6. CASE saved.st = 3
    BY <2>1, <2>2, <2>6, UnitToSpare
  <2>7. CASE saved.st \in {4, 5}
    BY <2>1, <2>2, <2>3, <2>4, <2>7, UnitToSpare
  <2>8. CASE saved.st = 0
    BY <2>1, <2>2, <2>3, <2>4, <2>8
  <2> QED
    BY <2>2, <2>5, <2>6, <2>7, <2>8
<1>20. CASE Q!ScaleBackFails
  BY <1>20 DEF Q!ScaleBackFails, Q!RecordNeeded, Q!RefreshDue, Q!ResumeDue, Q!MySQLIsSkip
<1>21. CASE Q!Stop
  BY <1>21 DEF Q!Stop, Q!RecordNeeded, Q!RefreshDue, Q!ResumeDue, Q!MySQLIsSkip
<1>22. ASSUME NEW reset \in BOOLEAN, Q!Refresh(reset) PROVE UpgradeInv'
  BY <1>22 DEF Q!Refresh
<1>23. ASSUME NEW r \in Routers, Q!RefreshRouter(r) PROVE UpgradeInv'
  BY <1>23 DEF Q!RefreshRouter
<1>24. ASSUME NEW r \in Routers, Q!PollHealthy(r) PROVE UpgradeInv'
  BY <1>24 DEF Q!PollHealthy
<1>25. ASSUME NEW r \in Routers, Q!PollBusy(r) PROVE UpgradeInv'
  BY <1>25 DEF Q!PollBusy
<1>26. ASSUME NEW r \in Routers, Q!_resume(r) PROVE UpgradeInv'
  BY <1>26 DEF Q!_resume
<1>27. ASSUME NEW r \in Routers, Q!GiveUp(r) PROVE UpgradeInv'
  BY <1>27 DEF Q!GiveUp
<1>28. ASSUME NEW r \in Routers, Q!RouterGoesOn(r) PROVE UpgradeInv'
  BY <1>28 DEF Q!RouterGoesOn
<1>29. ASSUME NEW r \in Routers, Q!RefreshRefused(r) PROVE UpgradeInv'
  BY <1>29 DEF Q!RefreshRefused
<1> QED
  BY <1>1, <1>2, <1>3, <1>4, <1>5, <1>6, <1>7, <1>8, <1>9, <1>10, <1>11, <1>12, <1>13, <1>14, <1>15,
      <1>16, <1>17, <1>18, <1>19, <1>20, <1>21, <1>22, <1>23, <1>24, <1>25, <1>26, <1>27, <1>28,
      <1>29 DEF Q!Next, Q!RouterStep, Q!MySQLStep, Q!Charms

LEMMA ScaleStep == MySQLInv /\ Q!Next => ScaleInv'
<1> SUFFICES ASSUME MySQLInv, Q!Next PROVE ScaleInv'
  OBVIOUS
<1> USE ServicesAssumption DEF MySQLInv, CharmTypes, UpgradeInv, ScaleInv, MySQLSteps, Larger,
      Q!charm, Q!step, Q!EndCommand, Q!Reached, Q!_set_state, Q!RECORDED, Q!SCALED_UP,
      Q!PRECHECK_DONE, Q!HIGHEST_UNIT_UPGRADED, Q!UPGRADE_RESUMED, Q!UNITS_SETTLED, Q!SCALED_BACK,
      Q!NoState
<1>1. CASE Q!Release
  BY <1>1 DEF Q!Release, Q!RecordNeeded, Q!RefreshDue, Q!ResumeDue, Q!MySQLIsSkip
<1>2. CASE Q!RouterIsSkip
  BY <1>2 DEF Q!RouterIsSkip, Q!AppsToWait, Q!in_channel_refresh_needed, Q!UpgradeInProgress,
      Q!Polling
<1>3. CASE Q!AllRefreshed
  BY <1>3 DEF Q!AllRefreshed, Q!RecordNeeded, Q!RefreshDue, Q!ResumeDue, Q!MySQLIsSkip
<1>4. CASE Q!RoutersDone
  BY <1>4 DEF Q!RoutersDone, Q!RecordNeeded, Q!RefreshDue, Q!ResumeDue, Q!MySQLIsSkip
<1>5. CASE Q!BeginMySQL
  BY <1>5 DEF Q!BeginMySQL, Q!RecordNeeded, Q!RefreshDue, Q!ResumeDue, Q!MySQLIsSkip
<1>6. CASE Q!record_original_state
  BY <1>6 DEF Q!record_original_state, Q!RecordNeeded, Q!RefreshDue, Q!ResumeDue, Q!MySQLIsSkip
<1>7. CASE Q!scale_up
  BY <1>7 DEF Q!scale_up, Q!RecordNeeded, Q!RefreshDue, Q!ResumeDue, Q!MySQLIsSkip
<1>8. CASE Q!run_precheck
  BY <1>8 DEF Q!run_precheck, Q!RecordNeeded, Q!RefreshDue, Q!ResumeDue, Q!MySQLIsSkip
<1>9. CASE Q!charm_refresh
  BY <1>9 DEF Q!charm_refresh, Q!RecordNeeded, Q!RefreshDue, Q!ResumeDue, Q!MySQLIsSkip
<1>10. CASE Q!HighestUpgraded
  BY <1>10 DEF Q!HighestUpgraded, Q!RecordNeeded, Q!RefreshDue, Q!ResumeDue, Q!MySQLIsSkip
<1>11. CASE Q!resume_upgrade
  BY <1>11 DEF Q!resume_upgrade, Q!RecordNeeded, Q!RefreshDue, Q!ResumeDue, Q!MySQLIsSkip
<1>12. CASE Q!Resumed
  BY <1>12 DEF Q!Resumed, Q!RecordNeeded, Q!RefreshDue, Q!ResumeDue, Q!MySQLIsSkip
<1>13. CASE Q!ResumeRefused
  BY <1>13 DEF Q!ResumeRefused, Q!RecordNeeded, Q!RefreshDue, Q!ResumeDue, Q!MySQLIsSkip
<1>14. CASE Q!wait_until_active
  BY <1>14 DEF Q!wait_until_active, Q!RecordNeeded, Q!RefreshDue, Q!ResumeDue, Q!MySQLIsSkip
<1>15. CASE Q!scale_back
  BY <1>15 DEF Q!scale_back, Q!RecordNeeded, Q!RefreshDue, Q!ResumeDue, Q!MySQLIsSkip
<1>16. CASE Q!ScaledBack
  BY <1>16 DEF Q!ScaledBack, Q!RecordNeeded, Q!RefreshDue, Q!ResumeDue, Q!MySQLIsSkip
<1>17. CASE Q!_reset_state
  BY <1>17 DEF Q!_reset_state, Q!RecordNeeded, Q!RefreshDue, Q!ResumeDue, Q!MySQLIsSkip
<1>18. CASE Q!Reapply
  BY <1>18 DEF Q!Reapply, Q!RecordNeeded, Q!RefreshDue, Q!ResumeDue, Q!MySQLIsSkip
<1>19. CASE Q!UnitUpgrades
  BY <1>19 DEF Q!UnitUpgrades, Q!RecordNeeded, Q!RefreshDue, Q!ResumeDue, Q!MySQLIsSkip
<1>20. CASE Q!ScaleBackFails
  BY <1>20 DEF Q!ScaleBackFails, Q!RecordNeeded, Q!RefreshDue, Q!ResumeDue, Q!MySQLIsSkip
<1>21. CASE Q!Stop
  BY <1>21 DEF Q!Stop, Q!RecordNeeded, Q!RefreshDue, Q!ResumeDue, Q!MySQLIsSkip
<1>22. ASSUME NEW reset \in BOOLEAN, Q!Refresh(reset) PROVE ScaleInv'
  BY <1>22 DEF Q!Refresh
<1>23. ASSUME NEW r \in Routers, Q!RefreshRouter(r) PROVE ScaleInv'
  BY <1>23 DEF Q!RefreshRouter
<1>24. ASSUME NEW r \in Routers, Q!PollHealthy(r) PROVE ScaleInv'
  BY <1>24 DEF Q!PollHealthy
<1>25. ASSUME NEW r \in Routers, Q!PollBusy(r) PROVE ScaleInv'
  BY <1>25 DEF Q!PollBusy
<1>26. ASSUME NEW r \in Routers, Q!_resume(r) PROVE ScaleInv'
  BY <1>26 DEF Q!_resume
<1>27. ASSUME NEW r \in Routers, Q!GiveUp(r) PROVE ScaleInv'
  BY <1>27 DEF Q!GiveUp
<1>28. ASSUME NEW r \in Routers, Q!RouterGoesOn(r) PROVE ScaleInv'
  BY <1>28 DEF Q!RouterGoesOn
<1>29. ASSUME NEW r \in Routers, Q!RefreshRefused(r) PROVE ScaleInv'
  BY <1>29 DEF Q!RefreshRefused
<1> QED
  BY <1>1, <1>2, <1>3, <1>4, <1>5, <1>6, <1>7, <1>8, <1>9, <1>10, <1>11, <1>12, <1>13, <1>14, <1>15,
      <1>16, <1>17, <1>18, <1>19, <1>20, <1>21, <1>22, <1>23, <1>24, <1>25, <1>26, <1>27, <1>28,
      <1>29 DEF Q!Next, Q!RouterStep, Q!MySQLStep, Q!Charms

LEMMA MySQLInit == Q!Init => MySQLInv
<1> SUFFICES ASSUME Q!Init PROVE MySQLInv
  OBVIOUS
<1> USE ServicesAssumption DEF Q!Init, Q!Polling, Q!NoState
<1>1. RouterTypes
  <2>1. DOMAIN wait = {} /\ wait = [r \in DOMAIN wait |-> wait[r]]
    OBVIOUS
  <2>2. router \in [Routers -> [rev : 1..1, phase : Q!Phases]]
    BY DEF Q!Phases
  <2> QED
    <3>1. latest = 1 /\ MaxRev \in Nat \ {0} /\ MySQLStops \in Nat
      OBVIOUS
    <3>2. latest \in 1..MaxRev /\ failed \in BOOLEAN /\ mysqlStops \in 0..MySQLStops
          /\ mysqlPc \in MySQLSteps
      <4>1. failed \in BOOLEAN /\ mysqlPc \in MySQLSteps
        BY Zenon DEF MySQLSteps
      <4>2. mysqlStops = 0
        OBVIOUS
      <4> QED
        BY ONLY <3>1, <4>1, <4>2
    <3>3. router \in [Routers -> [rev : 1..latest, phase : Q!Phases]]
      BY <2>2, <3>1
    <3>4. mysqlTodo = {} /\ mysqlFresh = {}
      OBVIOUS
    <3> QED
      BY ONLY <2>1, <3>2, <3>3, <3>4 DEF RouterTypes
<1>2. RoutersInv
  BY DEF RoutersInv
<1>3. CharmTypes
  <2>1. saved = [st |-> 0, scale |-> 0] /\ Scale0 \in Nat \ {0}
    OBVIOUS
  <2>2. saved.st = 0 /\ saved \in [st : 0..7, scale : Nat]
    BY <2>1
  <2>3. latest = 1 /\ rev = 1 /\ scale = Scale0 /\ stack = 0 /\ open \in BOOLEAN
        /\ ordered \in BOOLEAN
        /\ mysqlLost \in BOOLEAN
    OBVIOUS
  <2> QED
    BY ONLY <2>1, <2>2, <2>3 DEF CharmTypes, Q!SCALED_BACK, Q!NoState
<1>4. UpgradeInv
  BY DEF UpgradeInv
<1>5. ScaleInv
  BY DEF ScaleInv
<1> QED
  BY <1>1, <1>2, <1>3, <1>4, <1>5 DEF MySQLInv

LEMMA MySQLRests == MySQLInv /\ UNCHANGED qvars => MySQLInv'
<1> SUFFICES ASSUME MySQLInv, UNCHANGED qvars PROVE MySQLInv'
  OBVIOUS
<1> QED
  BY DEF qvars, MySQLInv, RouterTypes, RoutersInv, CharmTypes, UpgradeInv, ScaleInv, Larger

LEMMA MySQLStep == MySQLInv /\ Q!Next => MySQLInv'
BY RouterTypesStep, RoutersStep, CharmTypesStep, UpgradeStep, ScaleStep DEF MySQLInv

\* The charm is only refreshed by a command that is at the state after the
\* pre-upgrade check, and nothing else replaces its revision.
LEMMA RevisionStep ==
  MySQLInv /\ Q!Next /\ rev' # rev => stack > 0 /\ scale = Larger
<1> SUFFICES ASSUME MySQLInv, Q!Next, rev' # rev PROVE stack > 0 /\ scale = Larger
  OBVIOUS
<1> USE DEF Q!charm, Q!step
<1>1. Q!charm_refresh
  BY DEF Q!Next, Q!RouterStep, Q!MySQLStep, Q!Charms, Q!Release, Q!Refresh, Q!RouterIsSkip,
     Q!AllRefreshed, Q!RoutersDone, Q!RefreshRouter, Q!PollHealthy, Q!PollBusy, Q!_resume,
     Q!GiveUp, Q!RefreshRefused, Q!BeginMySQL, Q!record_original_state, Q!scale_up,
     Q!run_precheck, Q!HighestUpgraded, Q!resume_upgrade, Q!Resumed, Q!ResumeRefused,
     Q!wait_until_active, Q!scale_back, Q!ScaledBack, Q!ScaleBackFails, Q!_reset_state,
     Q!Reapply, Q!Stop, Q!UnitUpgrades, Q!RouterGoesOn
<1>2. saved.st = 3
  BY <1>1 DEF MySQLInv, CharmTypes, Q!charm_refresh, Q!RefreshDue, Q!Reached, Q!PRECHECK_DONE,
     Q!HIGHEST_UNIT_UPGRADED, Q!SCALED_BACK
<1>3. scale >= 2 /\ scale \in Nat /\ stack \in Nat
  BY <1>2, UnitToSpare DEF MySQLInv, CharmTypes
<1> QED
  BY <1>2, <1>3 DEF MySQLInv, UpgradeInv

\* Types, from the invariant.
LEMMA MySQLInvTypes == MySQLInv => Q!TypeOK
<1> SUFFICES ASSUME MySQLInv PROVE Q!TypeOK
  OBVIOUS
<1>1. saved.st \in 0..Q!SCALED_BACK
  BY DEF MySQLInv, CharmTypes
<1> QED
  BY <1>1 DEF MySQLInv, RouterTypes, RoutersInv, CharmTypes, Polled, Q!TypeOK

\* The routers are refreshed and settled before MySQL is, the charm of MySQL is
\* only replaced when the pre-upgrade check has passed at the larger scale, and the
\* units it had before are recorded until they are restored.
THEOREM UpgradeAlwaysOrdered == PartSpec => UpgradeOrdered
<1>1. PartInit => MySQLInv
  BY MySQLInit DEF PartInit
<1>2. MySQLInv /\ [PartNext]_<<part, bvars, qvars, svars, vvars, ivars>> => MySQLInv'
  BY MySQLStep, MySQLRests DEF PartNext
<1>3. MySQLInv /\ MySQLInv' /\ [PartNext]_<<part, bvars, qvars, svars, vvars, ivars>>
      => [/\ Q!RoutersFirst' /\ Q!ScaleRecorded'
          /\ rev' # rev => stack > 0 /\ scale = Larger]_Q!qvars
  <2> SUFFICES ASSUME MySQLInv, MySQLInv', [PartNext]_<<part, bvars, qvars, svars, vvars, ivars>>,
                      Q!qvars' # Q!qvars
               PROVE  /\ Q!RoutersFirst' /\ Q!ScaleRecorded'
                      /\ rev' # rev => stack > 0 /\ scale = Larger
    OBVIOUS
  <2>1. Q!RoutersFirst'
    BY DEF MySQLInv, RoutersInv, Q!RoutersFirst
  <2>2. Q!ScaleRecorded'
    BY DEF MySQLInv, ScaleInv, Q!ScaleRecorded
  <2>3. Q!Next
    BY DEF PartNext, qvars, Q!qvars, Q!charm, Q!step
  <2> QED
    BY <2>1, <2>2, <2>3, RevisionStep
<1> QED
  BY <1>1, <1>2, <1>3, PTL DEF PartSpec, UpgradeOrdered, Q!UpgradeOrdered, Larger

----------------------------------------------------------------------------
(***************************************************************************)
(* The Juju controller: the plan as rows, the worlds it passes through,    *)
(* and what is done at each position                                       *)
(***************************************************************************)

\* The types of the state, but for the models.
BootTypes ==
    /\ external \in BOOLEAN /\ up \in BOOLEAN /\ moving \in BOOLEAN
    /\ migrated \in BOOLEAN /\ done \in BOOLEAN
    /\ current \in {"lxd", "k8s", "ext"} /\ login \in {"none", "admin", "node"}
    /\ db \in {"none", "lxd", "k8s", "ext"} /\ jhelper \in {"none", "lxd", "k8s", "ext"}
    /\ user \in {"none", "added", "superuser"} /\ token \in {"none", "token"}
    /\ bootRow \in {"none", "empty", "token", "used"}
    /\ account \in {"none", "lxd_admin", "k8s_admin", "node", "ext"}
    /\ backup \in {"none", "admin"}
    /\ apps \subseteq {"sunbeam-machine", "k8s", "microceph", "openstack", "hypervisor"}
    /\ bootStops \in 0..BootStops
    /\ bootPc \in 0..(IF external THEN 12 ELSE 29)

\* Where the machines model, its machine and the record of the controller are.
Nowhere == models = {} /\ machine = "none" /\ ~moving /\ db \in {"none", "lxd"} /\ ~migrated
OnLxd == models = {"lxd"} /\ machine \in {"none", "lxd"} /\ (moving => machine = "lxd")
    /\ db = "lxd" /\ ~migrated
Moved == models = {"k8s"} /\ machine = "k8s" /\ ~moving /\ db \in {"lxd", "k8s"} /\ ~migrated
Twice == models = {"k8s", "lxd"} /\ machine = "k8s" /\ ~moving /\ db = "lxd" /\ ~migrated
OnK8s == models = {"k8s"} /\ machine = "k8s" /\ ~moving /\ db = "k8s" /\ migrated

\* The five ways the world is, one after the other.
World == Nowhere \/ OnLxd \/ Moved \/ Twice \/ OnK8s

\* What the running command of the local provider has done so far.
Position ==
    /\ Twice => bootPc \in 0..7
    /\ current # "ext"
    /\ bootPc \in 2..3 => current = (IF db = "none" THEN "lxd" ELSE db)
    /\ bootPc \in 4..6 /\ ~migrated => db = "lxd" /\ (current = "k8s" => models = {"k8s"})
    /\ bootPc \in 4..10 /\ migrated => current = "k8s"
    /\ bootPc \in 6..14 => jhelper = db
    /\ bootPc \in 7..10 /\ ~migrated => current = "lxd" /\ db = "lxd"
    /\ bootPc = 7 => models # {}
    /\ bootPc \in 8..29 => machine # "none"
    /\ bootPc \in 9..12 /\ ~migrated => OnLxd /\ ~moving
    /\ bootPc = 13 => models # {}
    /\ bootPc \in 12..29 => current = "k8s"
    /\ bootPc \in 14..29 => "k8s" \in models
    /\ bootPc \in 15..29 => db = "k8s"
    /\ bootPc \in 17..29 => migrated
    /\ bootPc \in 18..29 => jhelper = "k8s"
    /\ bootPc \in 9..29 => "sunbeam-machine" \in apps
    /\ bootPc \in 10..29 => "k8s" \in apps
    /\ bootPc \in 27..29 => "microceph" \in apps
    /\ bootPc \in 28..29 => "openstack" \in apps
    /\ bootPc = 29 => "hypervisor" \in apps

\* The users of the new controller.
Users ==
    /\ login # "none" \/ bootPc \in 12..29 => up
    /\ login = "node" => migrated /\ account = "node" /\ backup = "admin" /\ bootRow = "used"
    /\ bootRow \in {"token", "used"} => user = "superuser"
    /\ bootPc \in 1..18 => token = "none"
    /\ bootPc \in 20..29 /\ token = "token" => user = "superuser"
    /\ bootPc \in 12..24 => login # "none"
    /\ bootPc \in 23..25 => backup = "admin"
    /\ bootPc \in 24..25 => account = "node"
    /\ bootPc = 25 => login # "admin"
    /\ bootPc \in 26..29 => login = "node"

\* A bootstrap that has succeeded.
DoneLocal == done => OnK8s /\ current = "k8s" /\ login = "node" /\ apps = B!AllApps

\* What is done at each position of the plan of an external controller.
Abroad ==
    /\ ~up /\ ~moving /\ ~migrated /\ login = "none" /\ user = "none" /\ bootRow = "none"
    /\ token = "none"
    /\ current # "k8s" /\ db \in {"none", "ext"} /\ jhelper \in {"none", "ext"}
    /\ models \subseteq {"ext"} /\ machine \in {"none"} \cup models
    /\ bootPc > 1 => current = "ext"
    /\ bootPc > 2 => db = "ext"
    /\ bootPc > 4 => jhelper = "ext"
    /\ bootPc > 5 => models = {"ext"}
    /\ bootPc > 6 => machine = "ext"
    /\ bootPc > 7 => "sunbeam-machine" \in apps
    /\ bootPc > 8 => "k8s" \in apps
    /\ bootPc > 9 => "microceph" \in apps
    /\ bootPc > 10 => "openstack" \in apps
    /\ bootPc > 11 => "hypervisor" \in apps
    /\ done => models = {"ext"} /\ machine = "ext" /\ db = "ext" /\ current = "ext"
         /\ apps = B!AllApps

\* The inductive invariant.
BootInv ==
    /\ BootTypes
    /\ IF external THEN Abroad ELSE World /\ Position /\ Users /\ DoneLocal

\* The names of steps and what they are about; plans are sequences of pairs.
Names == {"switch", "none", "backup_user", "lxd", "controller", "admin", "reload", "model",
          "machine", "deploy", "sunbeam-machine", "k8s", "bootstrap_juju", "switch_k8s",
          "migrate", "wait", "flag", "add_user", "superuser", "user_row", "grant", "save_user",
          "unregister", "register", "microceph", "openstack", "hypervisor", "bootstrapped",
          "ext", "account_ext"}
Rows == Seq(Names \X Names)

\* p is s followed by t.
Joined(p, s, t) ==
    /\ p \in Rows /\ Len(p) = Len(s) + Len(t)
    /\ \A i \in 1..Len(p) : p[i] = IF i <= Len(s) THEN s[i] ELSE t[i - Len(s)]

LEMMA Joins == \A s, t \in Rows : Joined(s \o t, s, t)
BY ConcatProperties DEF Rows, Joined

\* The rows of each part of the plans.
LEMMA SwitchRows ==
  /\ B!Steps(<<"switch">>) \in Rows /\ Len(B!Steps(<<"switch">>)) = 1
  /\ B!Steps(<<"switch">>)[1] = <<"switch", "none">>
<1> DEFINE p == <<<<"switch", "none">>>>
<1>1. B!Steps(<<"switch">>) = p
  BY DEF B!Steps, B!None
<1>2. p \in Rows
  BY DEF Rows, Names
<1> QED
  BY <1>1, <1>2

LEMMA ControllerRows ==
  /\ B!get_juju_controller_plans \in Rows /\ Len(B!get_juju_controller_plans) = 3
  /\ B!get_juju_controller_plans[1] = <<"backup_user", "lxd">>
  /\ B!get_juju_controller_plans[2] = <<"controller", "lxd">>
  /\ B!get_juju_controller_plans[3] = <<"admin", "lxd">>
<1> DEFINE p == <<<<"backup_user", "lxd">>, <<"controller", "lxd">>, <<"admin", "lxd">>>>
<1>1. B!get_juju_controller_plans = p
  BY DEF B!get_juju_controller_plans, B!None
<1>2. p \in Rows
  BY DEF Rows, Names
<1> QED
  BY <1>1, <1>2

LEMMA MachineRows ==
  /\ B!get_juju_model_machine_plans \in Rows /\ Len(B!get_juju_model_machine_plans) = 3
  /\ B!get_juju_model_machine_plans[1] = <<"reload", "none">>
  /\ B!get_juju_model_machine_plans[2] = <<"model", "none">>
  /\ B!get_juju_model_machine_plans[3] = <<"machine", "none">>
<1> DEFINE p == <<<<"reload", "none">>, <<"model", "none">>, <<"machine", "none">>>>
<1>1. B!get_juju_model_machine_plans = p
  BY DEF B!get_juju_model_machine_plans, B!Steps, B!None
<1>2. p \in Rows
  BY DEF Rows, Names
<1> QED
  BY <1>1, <1>2

LEMMA EarlyRows ==
  /\ B!Deploy(<<"sunbeam-machine", "k8s">>) \in Rows /\ Len(B!Deploy(<<"sunbeam-machine",
       "k8s">>)) = 2
  /\ B!Deploy(<<"sunbeam-machine", "k8s">>)[1] = <<"deploy", "sunbeam-machine">>
       /\ B!Deploy(<<"sunbeam-machine", "k8s">>)[2] = <<"deploy", "k8s">>
<1> DEFINE p == <<<<"deploy", "sunbeam-machine">>, <<"deploy", "k8s">>>>
<1>1. B!Deploy(<<"sunbeam-machine", "k8s">>) = p
  BY DEF B!Deploy, B!None
<1>2. p \in Rows
  BY DEF Rows, Names
<1> QED
  BY <1>1, <1>2

LEMMA JujuRows ==
  /\ B!Steps(<<"bootstrap_juju">>) \in Rows /\ Len(B!Steps(<<"bootstrap_juju">>)) = 1
  /\ B!Steps(<<"bootstrap_juju">>)[1] = <<"bootstrap_juju", "none">>
<1> DEFINE p == <<<<"bootstrap_juju", "none">>>>
<1>1. B!Steps(<<"bootstrap_juju">>) = p
  BY DEF B!Steps, B!None
<1>2. p \in Rows
  BY DEF Rows, Names
<1> QED
  BY <1>1, <1>2

LEMMA MoveRows ==
  /\ B!Steps(<<"switch_k8s", "migrate", "wait">>) \in Rows /\ Len(B!Steps(<<"switch_k8s", "migrate",
       "wait">>)) = 3
  /\ B!Steps(<<"switch_k8s", "migrate", "wait">>)[1] = <<"switch_k8s", "none">>
       /\ B!Steps(<<"switch_k8s", "migrate", "wait">>)[2] = <<"migrate", "none">>
  /\ B!Steps(<<"switch_k8s", "migrate", "wait">>)[3] = <<"wait", "none">>
<1> DEFINE p == <<<<"switch_k8s", "none">>, <<"migrate", "none">>, <<"wait", "none">>>>
<1>1. B!Steps(<<"switch_k8s", "migrate", "wait">>) = p
  BY DEF B!Steps, B!None
<1>2. p \in Rows
  BY DEF Rows, Names
<1> QED
  BY <1>1, <1>2

LEMMA UserRows ==
  /\ B!Steps(<<"reload", "add_user", "superuser">>) \in Rows /\ Len(B!Steps(<<"reload", "add_user",
       "superuser">>)) = 3
  /\ B!Steps(<<"reload", "add_user", "superuser">>)[1] = <<"reload", "none">> /\ B!Steps(<<"reload",
       "add_user", "superuser">>)[2] = <<"add_user", "none">>
  /\ B!Steps(<<"reload", "add_user", "superuser">>)[3] = <<"superuser", "none">>
<1> DEFINE p == <<<<"reload", "none">>, <<"add_user", "none">>, <<"superuser", "none">>>>
<1>1. B!Steps(<<"reload", "add_user", "superuser">>) = p
  BY DEF B!Steps, B!None
<1>2. p \in Rows
  BY DEF Rows, Names
<1> QED
  BY <1>1, <1>2

LEMMA NodeUserRows ==
  /\ B!get_juju_user_plans \in Rows /\ Len(B!get_juju_user_plans) = 6
  /\ B!get_juju_user_plans[1] = <<"user_row", "none">>
  /\ B!get_juju_user_plans[2] = <<"grant", "none">>
  /\ B!get_juju_user_plans[3] = <<"backup_user", "none">>
  /\ B!get_juju_user_plans[4] = <<"save_user", "none">>
  /\ B!get_juju_user_plans[5] = <<"unregister", "none">>
  /\ B!get_juju_user_plans[6] = <<"register", "none">>
<1> DEFINE p == <<<<"user_row", "none">>, <<"grant", "none">>, <<"backup_user", "none">>,
          <<"save_user", "none">>, <<"unregister", "none">>, <<"register", "none">>>>
<1>1. B!get_juju_user_plans = p
  BY DEF B!get_juju_user_plans, B!Steps, B!None
<1>2. p \in Rows
  BY DEF Rows, Names
<1> QED
  BY <1>1, <1>2

LEMMA LateRows ==
  /\ B!Deploy(<<"microceph", "openstack", "hypervisor">>) \in Rows /\ Len(B!Deploy(<<"microceph",
       "openstack", "hypervisor">>)) = 3
  /\ B!Deploy(<<"microceph", "openstack", "hypervisor">>)[1] = <<"deploy", "microceph">>
       /\ B!Deploy(<<"microceph", "openstack", "hypervisor">>)[2] = <<"deploy", "openstack">>
  /\ B!Deploy(<<"microceph", "openstack", "hypervisor">>)[3] = <<"deploy", "hypervisor">>
<1> DEFINE p == <<<<"deploy", "microceph">>, <<"deploy", "openstack">>, <<"deploy",
          "hypervisor">>>>
<1>1. B!Deploy(<<"microceph", "openstack", "hypervisor">>) = p
  BY DEF B!Deploy, B!None
<1>2. p \in Rows
  BY DEF Rows, Names
<1> QED
  BY <1>1, <1>2

LEMMA EndRows ==
  /\ B!Steps(<<"bootstrapped">>) \in Rows /\ Len(B!Steps(<<"bootstrapped">>)) = 1
  /\ B!Steps(<<"bootstrapped">>)[1] = <<"bootstrapped", "none">>
<1> DEFINE p == <<<<"bootstrapped", "none">>>>
<1>1. B!Steps(<<"bootstrapped">>) = p
  BY DEF B!Steps, B!None
<1>2. p \in Rows
  BY DEF Rows, Names
<1> QED
  BY <1>1, <1>2

LEMMA MovedRows ==
  /\ <<<<"controller", "k8s">>, <<"admin", "k8s">>, <<"flag", B!None>>>> \in Rows
  /\ Len(<<<<"controller", "k8s">>, <<"admin", "k8s">>, <<"flag", B!None>>>>) = 3
  /\ <<<<"controller", "k8s">>, <<"admin", "k8s">>, <<"flag", B!None>>>>[1] = <<"controller",
       "k8s">>
  /\ <<<<"controller", "k8s">>, <<"admin", "k8s">>, <<"flag", B!None>>>>[2] = <<"admin", "k8s">>
  /\ <<<<"controller", "k8s">>, <<"admin", "k8s">>, <<"flag", B!None>>>>[3] = <<"flag", "none">>
<1> DEFINE p == <<<<"controller", "k8s">>, <<"admin", "k8s">>, <<"flag", "none">>>>
<1>1. <<<<"controller", "k8s">>, <<"admin", "k8s">>, <<"flag", B!None>>>> = p
  BY DEF B!None
<1>2. p \in Rows
  BY DEF Rows, Names
<1> QED
  BY <1>1, <1>2

LEMMA AbroadRows ==
  /\ <<<<"switch", B!None>>, <<"controller", "ext">>, <<"account_ext", B!None>>>> \in Rows
  /\ Len(<<<<"switch", B!None>>, <<"controller", "ext">>, <<"account_ext", B!None>>>>) = 3
  /\ <<<<"switch", B!None>>, <<"controller", "ext">>, <<"account_ext", B!None>>>>[1] = <<"switch",
       "none">>
  /\ <<<<"switch", B!None>>, <<"controller", "ext">>, <<"account_ext",
       B!None>>>>[2] = <<"controller", "ext">>
  /\ <<<<"switch", B!None>>, <<"controller", "ext">>, <<"account_ext",
       B!None>>>>[3] = <<"account_ext", "none">>
<1> DEFINE p == <<<<"switch", "none">>, <<"controller", "ext">>, <<"account_ext", "none">>>>
<1>1. <<<<"switch", B!None>>, <<"controller", "ext">>, <<"account_ext", B!None>>>> = p
  BY DEF B!None
<1>2. p \in Rows
  BY DEF Rows, Names
<1> QED
  BY <1>1, <1>2

LEMMA MigrateRows ==
  /\ B!get_juju_migrate_plans \in Rows /\ Len(B!get_juju_migrate_plans) = 6
  /\ B!get_juju_migrate_plans[1] = <<"switch_k8s", "none">>
  /\ B!get_juju_migrate_plans[2] = <<"migrate", "none">>
  /\ B!get_juju_migrate_plans[3] = <<"wait", "none">>
  /\ B!get_juju_migrate_plans[4] = <<"controller", "k8s">>
  /\ B!get_juju_migrate_plans[5] = <<"admin", "k8s">>
  /\ B!get_juju_migrate_plans[6] = <<"flag", "none">>
<1> DEFINE s0 == B!Steps(<<"switch_k8s", "migrate", "wait">>)
<1> DEFINE s1 == <<<<"controller", "k8s">>, <<"admin", "k8s">>, <<"flag", B!None>>>>
<1> DEFINE p1 == s0 \o s1
<1>1. B!get_juju_migrate_plans = p1
  BY DEF B!get_juju_migrate_plans
<1>2. s0 \in Rows /\ Len(s0) = 3 /\ s0[1] = <<"switch_k8s", "none">> /\ s0[2] = <<"migrate",
      "none">>
      /\ s0[3] = <<"wait", "none">>
  BY MoveRows
<1>3. s1 \in Rows /\ Len(s1) = 3 /\ s1[1] = <<"controller", "k8s">> /\ s1[2] = <<"admin", "k8s">>
      /\ s1[3] = <<"flag", "none">>
  BY MovedRows
<1> HIDE DEF s0, s1
<1>4. Joined(p1, s0, s1)
  BY <1>2, <1>3, Joins DEF Joined
<1> HIDE DEF p1
<1>5. p1 \in Rows /\ Len(p1) = 6
  BY <1>2, <1>3, <1>4 DEF Joined
<1>6. /\ p1[1] = <<"switch_k8s", "none">> /\ p1[2] = <<"migrate", "none">>
       /\ p1[3] = <<"wait", "none">>
  BY <1>2, <1>3, <1>4, <1>5 DEF Joined
<1>7. /\ p1[4] = <<"controller", "k8s">> /\ p1[5] = <<"admin", "k8s">>
       /\ p1[6] = <<"flag", "none">>
  BY <1>2, <1>3, <1>4, <1>5 DEF Joined
<1> QED
  BY <1>1, <1>5, <1>6, <1>7

LEMMA ServicesRows ==
  /\ B!ServicesPlan \in Rows /\ Len(B!ServicesPlan) = 4
  /\ B!ServicesPlan[1] = <<"deploy", "microceph">> /\ B!ServicesPlan[2] = <<"deploy", "openstack">>
  /\ B!ServicesPlan[3] = <<"deploy", "hypervisor">>
  /\ B!ServicesPlan[4] = <<"bootstrapped", "none">>
<1> DEFINE s0 == B!Deploy(<<"microceph", "openstack", "hypervisor">>)
<1> DEFINE s1 == B!Steps(<<"bootstrapped">>)
<1> DEFINE p1 == s0 \o s1
<1>1. B!ServicesPlan = p1
  BY DEF B!ServicesPlan
<1>2. s0 \in Rows /\ Len(s0) = 3 /\ s0[1] = <<"deploy", "microceph">> /\ s0[2] = <<"deploy",
      "openstack">>
      /\ s0[3] = <<"deploy", "hypervisor">>
  BY LateRows
<1>3. s1 \in Rows /\ Len(s1) = 1 /\ s1[1] = <<"bootstrapped", "none">>
  BY EndRows
<1> HIDE DEF s0, s1
<1>4. Joined(p1, s0, s1)
  BY <1>2, <1>3, Joins DEF Joined
<1> HIDE DEF p1
<1>5. p1 \in Rows /\ Len(p1) = 4
  BY <1>2, <1>3, <1>4 DEF Joined
<1>6. /\ p1[1] = <<"deploy", "microceph">> /\ p1[2] = <<"deploy", "openstack">>
       /\ p1[3] = <<"deploy", "hypervisor">>
  BY <1>2, <1>3, <1>4, <1>5 DEF Joined
<1>7. /\ p1[4] = <<"bootstrapped", "none">>
  BY <1>2, <1>3, <1>4, <1>5 DEF Joined
<1> QED
  BY <1>1, <1>5, <1>6, <1>7

\* The rows of the plan of the local provider.
LEMMA LocalRows ==
  /\ B!LocalPlan \in Rows /\ Len(B!LocalPlan) = 29
  /\ B!LocalPlan[1] = <<"switch", "none">> /\ B!LocalPlan[2] = <<"backup_user", "lxd">>
  /\ B!LocalPlan[3] = <<"controller", "lxd">> /\ B!LocalPlan[4] = <<"admin", "lxd">>
  /\ B!LocalPlan[5] = <<"reload", "none">> /\ B!LocalPlan[6] = <<"model", "none">>
  /\ B!LocalPlan[7] = <<"machine", "none">> /\ B!LocalPlan[8] = <<"deploy", "sunbeam-machine">>
  /\ B!LocalPlan[9] = <<"deploy", "k8s">> /\ B!LocalPlan[10] = <<"bootstrap_juju", "none">>
  /\ B!LocalPlan[11] = <<"switch_k8s", "none">> /\ B!LocalPlan[12] = <<"migrate", "none">>
  /\ B!LocalPlan[13] = <<"wait", "none">> /\ B!LocalPlan[14] = <<"controller", "k8s">>
  /\ B!LocalPlan[15] = <<"admin", "k8s">> /\ B!LocalPlan[16] = <<"flag", "none">>
  /\ B!LocalPlan[17] = <<"reload", "none">> /\ B!LocalPlan[18] = <<"add_user", "none">>
  /\ B!LocalPlan[19] = <<"superuser", "none">> /\ B!LocalPlan[20] = <<"user_row", "none">>
  /\ B!LocalPlan[21] = <<"grant", "none">> /\ B!LocalPlan[22] = <<"backup_user", "none">>
  /\ B!LocalPlan[23] = <<"save_user", "none">> /\ B!LocalPlan[24] = <<"unregister", "none">>
  /\ B!LocalPlan[25] = <<"register", "none">> /\ B!LocalPlan[26] = <<"deploy", "microceph">>
  /\ B!LocalPlan[27] = <<"deploy", "openstack">> /\ B!LocalPlan[28] = <<"deploy", "hypervisor">>
  /\ B!LocalPlan[29] = <<"bootstrapped", "none">>
<1> DEFINE s0 == B!Steps(<<"switch">>)
<1> DEFINE s1 == B!get_juju_controller_plans
<1> DEFINE s2 == B!get_juju_model_machine_plans
<1> DEFINE s3 == B!Deploy(<<"sunbeam-machine", "k8s">>)
<1> DEFINE s4 == B!Steps(<<"bootstrap_juju">>)
<1> DEFINE s5 == B!get_juju_migrate_plans
<1> DEFINE s6 == B!Steps(<<"reload", "add_user", "superuser">>)
<1> DEFINE s7 == B!get_juju_user_plans
<1> DEFINE s8 == B!ServicesPlan
<1> DEFINE p1 == s0 \o s1
<1> DEFINE p2 == p1 \o s2
<1> DEFINE p3 == p2 \o s3
<1> DEFINE p4 == p3 \o s4
<1> DEFINE p5 == p4 \o s5
<1> DEFINE p6 == p5 \o s6
<1> DEFINE p7 == p6 \o s7
<1> DEFINE p8 == p7 \o s8
<1>1. B!LocalPlan = p8
  BY DEF B!LocalPlan
<1>2. s0 \in Rows /\ Len(s0) = 1 /\ s0[1] = <<"switch", "none">>
  BY SwitchRows
<1>3. s1 \in Rows /\ Len(s1) = 3 /\ s1[1] = <<"backup_user", "lxd">> /\ s1[2] = <<"controller",
      "lxd">>
      /\ s1[3] = <<"admin", "lxd">>
  BY ControllerRows
<1>4. s2 \in Rows /\ Len(s2) = 3 /\ s2[1] = <<"reload", "none">> /\ s2[2] = <<"model", "none">>
      /\ s2[3] = <<"machine", "none">>
  BY MachineRows
<1>5. s3 \in Rows /\ Len(s3) = 2 /\ s3[1] = <<"deploy", "sunbeam-machine">> /\ s3[2] = <<"deploy",
      "k8s">>
  BY EarlyRows
<1>6. s4 \in Rows /\ Len(s4) = 1 /\ s4[1] = <<"bootstrap_juju", "none">>
  BY JujuRows
<1>7. s5 \in Rows /\ Len(s5) = 6 /\ s5[1] = <<"switch_k8s", "none">> /\ s5[2] = <<"migrate",
      "none">>
      /\ s5[3] = <<"wait", "none">> /\ s5[4] = <<"controller", "k8s">>
      /\ s5[5] = <<"admin", "k8s">> /\ s5[6] = <<"flag", "none">>
  BY MigrateRows
<1>8. s6 \in Rows /\ Len(s6) = 3 /\ s6[1] = <<"reload", "none">> /\ s6[2] = <<"add_user", "none">>
      /\ s6[3] = <<"superuser", "none">>
  BY UserRows
<1>9. s7 \in Rows /\ Len(s7) = 6 /\ s7[1] = <<"user_row", "none">> /\ s7[2] = <<"grant", "none">>
      /\ s7[3] = <<"backup_user", "none">> /\ s7[4] = <<"save_user", "none">>
      /\ s7[5] = <<"unregister", "none">> /\ s7[6] = <<"register", "none">>
  BY NodeUserRows
<1>10. s8 \in Rows /\ Len(s8) = 4 /\ s8[1] = <<"deploy", "microceph">> /\ s8[2] = <<"deploy",
      "openstack">>
      /\ s8[3] = <<"deploy", "hypervisor">> /\ s8[4] = <<"bootstrapped", "none">>
  BY ServicesRows
<1> HIDE DEF s0, s1, s2, s3, s4, s5, s6, s7, s8
<1>11. Joined(p1, s0, s1)
  BY <1>2, <1>3, Joins DEF Joined
<1> HIDE DEF p1
<1>12. p1 \in Rows /\ Len(p1) = 4
  BY <1>2, <1>3, <1>11 DEF Joined
<1>13. /\ p1[1] = <<"switch", "none">>
  BY <1>2, <1>3, <1>11, <1>12 DEF Joined
<1>14. /\ p1[2] = <<"backup_user", "lxd">> /\ p1[3] = <<"controller", "lxd">>
       /\ p1[4] = <<"admin", "lxd">>
  BY <1>2, <1>3, <1>11, <1>12 DEF Joined
<1>15. Joined(p2, p1, s2)
  BY <1>12, <1>13, <1>14, <1>4, Joins DEF Joined
<1> HIDE DEF p2
<1>16. p2 \in Rows /\ Len(p2) = 7
  BY <1>12, <1>13, <1>14, <1>4, <1>15 DEF Joined
<1>17. /\ p2[1] = <<"switch", "none">> /\ p2[2] = <<"backup_user", "lxd">>
       /\ p2[3] = <<"controller", "lxd">> /\ p2[4] = <<"admin", "lxd">>
  BY <1>12, <1>13, <1>14, <1>4, <1>15, <1>16 DEF Joined
<1>18. /\ p2[5] = <<"reload", "none">> /\ p2[6] = <<"model", "none">>
       /\ p2[7] = <<"machine", "none">>
  BY <1>12, <1>13, <1>14, <1>4, <1>15, <1>16 DEF Joined
<1>19. Joined(p3, p2, s3)
  BY <1>16, <1>17, <1>18, <1>5, Joins DEF Joined
<1> HIDE DEF p3
<1>20. p3 \in Rows /\ Len(p3) = 9
  BY <1>16, <1>17, <1>18, <1>5, <1>19 DEF Joined
<1>21. /\ p3[1] = <<"switch", "none">> /\ p3[2] = <<"backup_user", "lxd">>
       /\ p3[3] = <<"controller", "lxd">> /\ p3[4] = <<"admin", "lxd">>
       /\ p3[5] = <<"reload", "none">> /\ p3[6] = <<"model", "none">>
       /\ p3[7] = <<"machine", "none">>
  BY <1>16, <1>17, <1>18, <1>5, <1>19, <1>20 DEF Joined
<1>22. /\ p3[8] = <<"deploy", "sunbeam-machine">> /\ p3[9] = <<"deploy", "k8s">>
  BY <1>16, <1>17, <1>18, <1>5, <1>19, <1>20 DEF Joined
<1>23. Joined(p4, p3, s4)
  BY <1>20, <1>21, <1>22, <1>6, Joins DEF Joined
<1> HIDE DEF p4
<1>24. p4 \in Rows /\ Len(p4) = 10
  BY <1>20, <1>21, <1>22, <1>6, <1>23 DEF Joined
<1>25. /\ p4[1] = <<"switch", "none">> /\ p4[2] = <<"backup_user", "lxd">>
       /\ p4[3] = <<"controller", "lxd">> /\ p4[4] = <<"admin", "lxd">>
       /\ p4[5] = <<"reload", "none">> /\ p4[6] = <<"model", "none">>
       /\ p4[7] = <<"machine", "none">> /\ p4[8] = <<"deploy", "sunbeam-machine">>
       /\ p4[9] = <<"deploy", "k8s">>
  BY <1>20, <1>21, <1>22, <1>6, <1>23, <1>24 DEF Joined
<1>26. /\ p4[10] = <<"bootstrap_juju", "none">>
  BY <1>20, <1>21, <1>22, <1>6, <1>23, <1>24 DEF Joined
<1>27. Joined(p5, p4, s5)
  BY <1>24, <1>25, <1>26, <1>7, Joins DEF Joined
<1> HIDE DEF p5
<1>28. p5 \in Rows /\ Len(p5) = 16
  BY <1>24, <1>25, <1>26, <1>7, <1>27 DEF Joined
<1>29. /\ p5[1] = <<"switch", "none">> /\ p5[2] = <<"backup_user", "lxd">>
       /\ p5[3] = <<"controller", "lxd">> /\ p5[4] = <<"admin", "lxd">>
       /\ p5[5] = <<"reload", "none">> /\ p5[6] = <<"model", "none">>
       /\ p5[7] = <<"machine", "none">> /\ p5[8] = <<"deploy", "sunbeam-machine">>
       /\ p5[9] = <<"deploy", "k8s">> /\ p5[10] = <<"bootstrap_juju", "none">>
  BY <1>24, <1>25, <1>26, <1>7, <1>27, <1>28 DEF Joined
<1>30. /\ p5[11] = <<"switch_k8s", "none">> /\ p5[12] = <<"migrate", "none">>
       /\ p5[13] = <<"wait", "none">> /\ p5[14] = <<"controller", "k8s">>
       /\ p5[15] = <<"admin", "k8s">> /\ p5[16] = <<"flag", "none">>
  BY <1>24, <1>25, <1>26, <1>7, <1>27, <1>28 DEF Joined
<1>31. Joined(p6, p5, s6)
  BY <1>28, <1>29, <1>30, <1>8, Joins DEF Joined
<1> HIDE DEF p6
<1>32. p6 \in Rows /\ Len(p6) = 19
  BY <1>28, <1>29, <1>30, <1>8, <1>31 DEF Joined
<1>33. /\ p6[1] = <<"switch", "none">> /\ p6[2] = <<"backup_user", "lxd">>
       /\ p6[3] = <<"controller", "lxd">> /\ p6[4] = <<"admin", "lxd">>
       /\ p6[5] = <<"reload", "none">> /\ p6[6] = <<"model", "none">>
       /\ p6[7] = <<"machine", "none">> /\ p6[8] = <<"deploy", "sunbeam-machine">>
       /\ p6[9] = <<"deploy", "k8s">> /\ p6[10] = <<"bootstrap_juju", "none">>
       /\ p6[11] = <<"switch_k8s", "none">> /\ p6[12] = <<"migrate", "none">>
       /\ p6[13] = <<"wait", "none">> /\ p6[14] = <<"controller", "k8s">>
       /\ p6[15] = <<"admin", "k8s">> /\ p6[16] = <<"flag", "none">>
  BY <1>28, <1>29, <1>30, <1>8, <1>31, <1>32 DEF Joined
<1>34. /\ p6[17] = <<"reload", "none">> /\ p6[18] = <<"add_user", "none">>
       /\ p6[19] = <<"superuser", "none">>
  BY <1>28, <1>29, <1>30, <1>8, <1>31, <1>32 DEF Joined
<1>35. Joined(p7, p6, s7)
  BY <1>32, <1>33, <1>34, <1>9, Joins DEF Joined
<1> HIDE DEF p7
<1>36. p7 \in Rows /\ Len(p7) = 25
  BY <1>32, <1>33, <1>34, <1>9, <1>35 DEF Joined
<1>37. /\ p7[1] = <<"switch", "none">> /\ p7[2] = <<"backup_user", "lxd">>
       /\ p7[3] = <<"controller", "lxd">> /\ p7[4] = <<"admin", "lxd">>
       /\ p7[5] = <<"reload", "none">> /\ p7[6] = <<"model", "none">>
       /\ p7[7] = <<"machine", "none">> /\ p7[8] = <<"deploy", "sunbeam-machine">>
       /\ p7[9] = <<"deploy", "k8s">> /\ p7[10] = <<"bootstrap_juju", "none">>
       /\ p7[11] = <<"switch_k8s", "none">> /\ p7[12] = <<"migrate", "none">>
       /\ p7[13] = <<"wait", "none">> /\ p7[14] = <<"controller", "k8s">>
       /\ p7[15] = <<"admin", "k8s">> /\ p7[16] = <<"flag", "none">>
       /\ p7[17] = <<"reload", "none">> /\ p7[18] = <<"add_user", "none">>
       /\ p7[19] = <<"superuser", "none">>
  BY <1>32, <1>33, <1>34, <1>9, <1>35, <1>36 DEF Joined
<1>38. /\ p7[20] = <<"user_row", "none">> /\ p7[21] = <<"grant", "none">>
       /\ p7[22] = <<"backup_user", "none">> /\ p7[23] = <<"save_user", "none">>
       /\ p7[24] = <<"unregister", "none">> /\ p7[25] = <<"register", "none">>
  BY <1>32, <1>33, <1>34, <1>9, <1>35, <1>36 DEF Joined
<1>39. Joined(p8, p7, s8)
  BY <1>36, <1>37, <1>38, <1>10, Joins DEF Joined
<1> HIDE DEF p8
<1>40. p8 \in Rows /\ Len(p8) = 29
  BY <1>36, <1>37, <1>38, <1>10, <1>39 DEF Joined
<1>41. /\ p8[1] = <<"switch", "none">> /\ p8[2] = <<"backup_user", "lxd">>
       /\ p8[3] = <<"controller", "lxd">> /\ p8[4] = <<"admin", "lxd">>
       /\ p8[5] = <<"reload", "none">> /\ p8[6] = <<"model", "none">>
       /\ p8[7] = <<"machine", "none">> /\ p8[8] = <<"deploy", "sunbeam-machine">>
       /\ p8[9] = <<"deploy", "k8s">> /\ p8[10] = <<"bootstrap_juju", "none">>
       /\ p8[11] = <<"switch_k8s", "none">> /\ p8[12] = <<"migrate", "none">>
       /\ p8[13] = <<"wait", "none">> /\ p8[14] = <<"controller", "k8s">>
       /\ p8[15] = <<"admin", "k8s">> /\ p8[16] = <<"flag", "none">>
       /\ p8[17] = <<"reload", "none">> /\ p8[18] = <<"add_user", "none">>
       /\ p8[19] = <<"superuser", "none">> /\ p8[20] = <<"user_row", "none">>
       /\ p8[21] = <<"grant", "none">> /\ p8[22] = <<"backup_user", "none">>
       /\ p8[23] = <<"save_user", "none">> /\ p8[24] = <<"unregister", "none">>
       /\ p8[25] = <<"register", "none">>
  BY <1>36, <1>37, <1>38, <1>10, <1>39, <1>40 DEF Joined
<1>42. /\ p8[26] = <<"deploy", "microceph">> /\ p8[27] = <<"deploy", "openstack">>
       /\ p8[28] = <<"deploy", "hypervisor">> /\ p8[29] = <<"bootstrapped", "none">>
  BY <1>36, <1>37, <1>38, <1>10, <1>39, <1>40 DEF Joined
<1> QED
  BY <1>1, <1>40, <1>41, <1>42

\* The rows of the plan for an external controller.
LEMMA ExternalRows ==
  /\ B!ExternalPlan \in Rows /\ Len(B!ExternalPlan) = 12
  /\ B!ExternalPlan[1] = <<"switch", "none">> /\ B!ExternalPlan[2] = <<"controller", "ext">>
  /\ B!ExternalPlan[3] = <<"account_ext", "none">> /\ B!ExternalPlan[4] = <<"reload", "none">>
  /\ B!ExternalPlan[5] = <<"model", "none">> /\ B!ExternalPlan[6] = <<"machine", "none">>
  /\ B!ExternalPlan[7] = <<"deploy", "sunbeam-machine">> /\ B!ExternalPlan[8] = <<"deploy", "k8s">>
  /\ B!ExternalPlan[9] = <<"deploy", "microceph">> /\ B!ExternalPlan[10] = <<"deploy", "openstack">>
  /\ B!ExternalPlan[11] = <<"deploy", "hypervisor">>
  /\ B!ExternalPlan[12] = <<"bootstrapped", "none">>
<1> DEFINE s0 == <<<<"switch", B!None>>, <<"controller", "ext">>, <<"account_ext", B!None>>>>
<1> DEFINE s1 == B!get_juju_model_machine_plans
<1> DEFINE s2 == B!Deploy(<<"sunbeam-machine", "k8s">>)
<1> DEFINE s3 == B!ServicesPlan
<1> DEFINE p1 == s0 \o s1
<1> DEFINE p2 == p1 \o s2
<1> DEFINE p3 == p2 \o s3
<1>1. B!ExternalPlan = p3
  BY DEF B!ExternalPlan
<1>2. s0 \in Rows /\ Len(s0) = 3 /\ s0[1] = <<"switch", "none">> /\ s0[2] = <<"controller", "ext">>
      /\ s0[3] = <<"account_ext", "none">>
  BY AbroadRows
<1>3. s1 \in Rows /\ Len(s1) = 3 /\ s1[1] = <<"reload", "none">> /\ s1[2] = <<"model", "none">>
      /\ s1[3] = <<"machine", "none">>
  BY MachineRows
<1>4. s2 \in Rows /\ Len(s2) = 2 /\ s2[1] = <<"deploy", "sunbeam-machine">> /\ s2[2] = <<"deploy",
      "k8s">>
  BY EarlyRows
<1>5. s3 \in Rows /\ Len(s3) = 4 /\ s3[1] = <<"deploy", "microceph">> /\ s3[2] = <<"deploy",
      "openstack">>
      /\ s3[3] = <<"deploy", "hypervisor">> /\ s3[4] = <<"bootstrapped", "none">>
  BY ServicesRows
<1> HIDE DEF s0, s1, s2, s3
<1>6. Joined(p1, s0, s1)
  BY <1>2, <1>3, Joins DEF Joined
<1> HIDE DEF p1
<1>7. p1 \in Rows /\ Len(p1) = 6
  BY <1>2, <1>3, <1>6 DEF Joined
<1>8. /\ p1[1] = <<"switch", "none">> /\ p1[2] = <<"controller", "ext">>
       /\ p1[3] = <<"account_ext", "none">>
  BY <1>2, <1>3, <1>6, <1>7 DEF Joined
<1>9. /\ p1[4] = <<"reload", "none">> /\ p1[5] = <<"model", "none">>
       /\ p1[6] = <<"machine", "none">>
  BY <1>2, <1>3, <1>6, <1>7 DEF Joined
<1>10. Joined(p2, p1, s2)
  BY <1>7, <1>8, <1>9, <1>4, Joins DEF Joined
<1> HIDE DEF p2
<1>11. p2 \in Rows /\ Len(p2) = 8
  BY <1>7, <1>8, <1>9, <1>4, <1>10 DEF Joined
<1>12. /\ p2[1] = <<"switch", "none">> /\ p2[2] = <<"controller", "ext">>
       /\ p2[3] = <<"account_ext", "none">> /\ p2[4] = <<"reload", "none">>
       /\ p2[5] = <<"model", "none">> /\ p2[6] = <<"machine", "none">>
  BY <1>7, <1>8, <1>9, <1>4, <1>10, <1>11 DEF Joined
<1>13. /\ p2[7] = <<"deploy", "sunbeam-machine">> /\ p2[8] = <<"deploy", "k8s">>
  BY <1>7, <1>8, <1>9, <1>4, <1>10, <1>11 DEF Joined
<1>14. Joined(p3, p2, s3)
  BY <1>11, <1>12, <1>13, <1>5, Joins DEF Joined
<1> HIDE DEF p3
<1>15. p3 \in Rows /\ Len(p3) = 12
  BY <1>11, <1>12, <1>13, <1>5, <1>14 DEF Joined
<1>16. /\ p3[1] = <<"switch", "none">> /\ p3[2] = <<"controller", "ext">>
       /\ p3[3] = <<"account_ext", "none">> /\ p3[4] = <<"reload", "none">>
       /\ p3[5] = <<"model", "none">> /\ p3[6] = <<"machine", "none">>
       /\ p3[7] = <<"deploy", "sunbeam-machine">> /\ p3[8] = <<"deploy", "k8s">>
  BY <1>11, <1>12, <1>13, <1>5, <1>14, <1>15 DEF Joined
<1>17. /\ p3[9] = <<"deploy", "microceph">> /\ p3[10] = <<"deploy", "openstack">>
       /\ p3[11] = <<"deploy", "hypervisor">> /\ p3[12] = <<"bootstrapped", "none">>
  BY <1>11, <1>12, <1>13, <1>5, <1>14, <1>15 DEF Joined
<1> QED
  BY <1>1, <1>15, <1>16, <1>17

\* Where in the plan of the local provider each step is.
LEMMA LocalAt ==
  ASSUME ~external, bootPc \in 0..29
  PROVE  /\ Len(B!Plan) = 29
         /\ B!At("switch") => bootPc = 1
         /\ B!At("backup_user") => (bootPc = 2 /\ B!Plan[bootPc][2] = "lxd") \/ (bootPc = 22
              /\ B!Plan[bootPc][2] = "none")
         /\ B!At("controller") => (bootPc = 3 /\ B!Plan[bootPc][2] = "lxd") \/ (bootPc = 14
              /\ B!Plan[bootPc][2] = "k8s")
         /\ B!At("admin") => (bootPc = 4 /\ B!Plan[bootPc][2] = "lxd") \/ (bootPc = 15
              /\ B!Plan[bootPc][2] = "k8s")
         /\ B!At("reload") => bootPc \in {5, 17}
         /\ B!At("model") => bootPc = 6
         /\ B!At("machine") => bootPc = 7
         /\ B!At("deploy") => (bootPc = 8 /\ B!Plan[bootPc][2] = "sunbeam-machine")
              \/ (bootPc = 9 /\ B!Plan[bootPc][2] = "k8s") \/ (bootPc = 26
              /\ B!Plan[bootPc][2] = "microceph") \/ (bootPc = 27
              /\ B!Plan[bootPc][2] = "openstack") \/ (bootPc = 28
              /\ B!Plan[bootPc][2] = "hypervisor")
         /\ B!At("bootstrap_juju") => bootPc = 10
         /\ B!At("switch_k8s") => bootPc = 11
         /\ B!At("migrate") => bootPc = 12
         /\ B!At("wait") => bootPc = 13
         /\ B!At("flag") => bootPc = 16
         /\ B!At("add_user") => bootPc = 18
         /\ B!At("superuser") => bootPc = 19
         /\ B!At("user_row") => bootPc = 20
         /\ B!At("grant") => bootPc = 21
         /\ B!At("save_user") => bootPc = 23
         /\ B!At("unregister") => bootPc = 24
         /\ B!At("register") => bootPc = 25
         /\ B!At("bootstrapped") => bootPc = 29
         /\ ~B!At("account_ext")
         /\ bootPc # 0 /\ B!Omitted => migrated /\ bootPc \in {2, 3, 4}
         /\ bootPc \in {2, 3, 4} /\ ~B!Omitted => ~migrated
         /\ bootPc = 22 => ~B!Omitted
<1>1. B!Plan = B!LocalPlan
  BY DEF B!Plan
<1>2. Len(B!Plan) = 29
  BY <1>1, LocalRows
<1>3. /\ B!Plan[1] = <<"switch", "none">> /\ B!Plan[2] = <<"backup_user", "lxd">>
      /\ B!Plan[3] = <<"controller", "lxd">> /\ B!Plan[4] = <<"admin", "lxd">>
      /\ B!Plan[5] = <<"reload", "none">> /\ B!Plan[6] = <<"model", "none">>
      /\ B!Plan[7] = <<"machine", "none">> /\ B!Plan[8] = <<"deploy", "sunbeam-machine">>
      /\ B!Plan[9] = <<"deploy", "k8s">> /\ B!Plan[10] = <<"bootstrap_juju", "none">>
      /\ B!Plan[11] = <<"switch_k8s", "none">> /\ B!Plan[12] = <<"migrate", "none">>
      /\ B!Plan[13] = <<"wait", "none">> /\ B!Plan[14] = <<"controller", "k8s">>
      /\ B!Plan[15] = <<"admin", "k8s">> /\ B!Plan[16] = <<"flag", "none">>
      /\ B!Plan[17] = <<"reload", "none">> /\ B!Plan[18] = <<"add_user", "none">>
      /\ B!Plan[19] = <<"superuser", "none">> /\ B!Plan[20] = <<"user_row", "none">>
      /\ B!Plan[21] = <<"grant", "none">> /\ B!Plan[22] = <<"backup_user", "none">>
      /\ B!Plan[23] = <<"save_user", "none">> /\ B!Plan[24] = <<"unregister", "none">>
      /\ B!Plan[25] = <<"register", "none">> /\ B!Plan[26] = <<"deploy", "microceph">>
      /\ B!Plan[27] = <<"deploy", "openstack">> /\ B!Plan[28] = <<"deploy", "hypervisor">>
      /\ B!Plan[29] = <<"bootstrapped", "none">>
  BY <1>1, LocalRows
<1>4. bootPc = 0 \/ bootPc = 1 \/ bootPc = 2 \/ bootPc = 3 \/ bootPc = 4 \/ bootPc = 5 \/
      bootPc = 6 \/ bootPc = 7 \/ bootPc = 8 \/ bootPc = 9 \/ bootPc = 10 \/ bootPc = 11 \/
      bootPc = 12 \/ bootPc = 13 \/ bootPc = 14 \/ bootPc = 15 \/ bootPc = 16 \/ bootPc =
      17 \/ bootPc = 18 \/ bootPc = 19 \/ bootPc = 20 \/ bootPc = 21 \/ bootPc = 22 \/
      bootPc = 23 \/ bootPc = 24 \/ bootPc = 25 \/ bootPc = 26 \/ bootPc = 27 \/ bootPc =
      28 \/ bootPc = 29
  OBVIOUS
<1>5. B!At("switch") => bootPc = 1
  BY <1>3, <1>4 DEF B!At, B!Omitted
<1>6. B!At("backup_user") => (bootPc = 2 /\ B!Plan[bootPc][2] = "lxd") \/ (bootPc = 22
      /\ B!Plan[bootPc][2] = "none")
  BY <1>3, <1>4 DEF B!At, B!Omitted
<1>7. B!At("controller") => (bootPc = 3 /\ B!Plan[bootPc][2] = "lxd") \/ (bootPc = 14
      /\ B!Plan[bootPc][2] = "k8s")
  BY <1>3, <1>4 DEF B!At, B!Omitted
<1>8. B!At("admin") => (bootPc = 4 /\ B!Plan[bootPc][2] = "lxd") \/ (bootPc = 15
      /\ B!Plan[bootPc][2] = "k8s")
  BY <1>3, <1>4 DEF B!At, B!Omitted
<1>9. B!At("reload") => bootPc \in {5, 17}
  BY <1>3, <1>4 DEF B!At, B!Omitted
<1>10. B!At("model") => bootPc = 6
  BY <1>3, <1>4 DEF B!At, B!Omitted
<1>11. B!At("machine") => bootPc = 7
  BY <1>3, <1>4 DEF B!At, B!Omitted
<1>12. B!At("deploy") => (bootPc = 8 /\ B!Plan[bootPc][2] = "sunbeam-machine") \/ (bootPc = 9
      /\ B!Plan[bootPc][2] = "k8s") \/ (bootPc = 26 /\ B!Plan[bootPc][2] = "microceph")
      \/ (bootPc = 27 /\ B!Plan[bootPc][2] = "openstack") \/ (bootPc = 28
      /\ B!Plan[bootPc][2] = "hypervisor")
  BY <1>3, <1>4 DEF B!At, B!Omitted
<1>13. B!At("bootstrap_juju") => bootPc = 10
  BY <1>3, <1>4 DEF B!At, B!Omitted
<1>14. B!At("switch_k8s") => bootPc = 11
  BY <1>3, <1>4 DEF B!At, B!Omitted
<1>15. B!At("migrate") => bootPc = 12
  BY <1>3, <1>4 DEF B!At, B!Omitted
<1>16. B!At("wait") => bootPc = 13
  BY <1>3, <1>4 DEF B!At, B!Omitted
<1>17. B!At("flag") => bootPc = 16
  BY <1>3, <1>4 DEF B!At, B!Omitted
<1>18. B!At("add_user") => bootPc = 18
  BY <1>3, <1>4 DEF B!At, B!Omitted
<1>19. B!At("superuser") => bootPc = 19
  BY <1>3, <1>4 DEF B!At, B!Omitted
<1>20. B!At("user_row") => bootPc = 20
  BY <1>3, <1>4 DEF B!At, B!Omitted
<1>21. B!At("grant") => bootPc = 21
  BY <1>3, <1>4 DEF B!At, B!Omitted
<1>22. B!At("save_user") => bootPc = 23
  BY <1>3, <1>4 DEF B!At, B!Omitted
<1>23. B!At("unregister") => bootPc = 24
  BY <1>3, <1>4 DEF B!At, B!Omitted
<1>24. B!At("register") => bootPc = 25
  BY <1>3, <1>4 DEF B!At, B!Omitted
<1>25. B!At("bootstrapped") => bootPc = 29
  BY <1>3, <1>4 DEF B!At, B!Omitted
<1>26. ~B!At("account_ext")
  BY <1>3, <1>4 DEF B!At, B!Omitted
<1>27. bootPc # 0 /\ B!Omitted => migrated /\ bootPc \in {2, 3, 4}
  BY <1>3, <1>4 DEF B!At, B!Omitted
<1>28. bootPc \in {2, 3, 4} /\ ~B!Omitted => ~migrated
  BY <1>3, <1>4 DEF B!At, B!Omitted
<1>29. bootPc = 22 => ~B!Omitted
  BY <1>3, <1>4 DEF B!At, B!Omitted
<1> QED
  BY <1>2, <1>5, <1>6, <1>7, <1>8, <1>9, <1>10, <1>11, <1>12, <1>13, <1>14, <1>15, <1>16, <1>17,
      <1>18, <1>19, <1>20, <1>21, <1>22, <1>23, <1>24, <1>25, <1>26, <1>27, <1>28, <1>29

\* Where in the plan for an external controller each step is.
LEMMA ExternalAt ==
  ASSUME external, bootPc \in 0..12
  PROVE  /\ Len(B!Plan) = 12
         /\ B!At("switch") => bootPc = 1
         /\ ~B!At("backup_user")
         /\ B!At("controller") => bootPc = 2 /\ B!Plan[bootPc][2] = "ext"
         /\ ~B!At("admin")
         /\ B!At("reload") => bootPc = 4
         /\ B!At("model") => bootPc = 5
         /\ B!At("machine") => bootPc = 6
         /\ B!At("deploy") => (bootPc = 7 /\ B!Plan[bootPc][2] = "sunbeam-machine")
              \/ (bootPc = 8 /\ B!Plan[bootPc][2] = "k8s") \/ (bootPc = 9
              /\ B!Plan[bootPc][2] = "microceph") \/ (bootPc = 10
              /\ B!Plan[bootPc][2] = "openstack") \/ (bootPc = 11
              /\ B!Plan[bootPc][2] = "hypervisor")
         /\ ~B!At("bootstrap_juju")
         /\ ~B!At("switch_k8s")
         /\ ~B!At("migrate")
         /\ ~B!At("wait")
         /\ ~B!At("flag")
         /\ ~B!At("add_user")
         /\ ~B!At("superuser")
         /\ ~B!At("user_row")
         /\ ~B!At("grant")
         /\ ~B!At("save_user")
         /\ ~B!At("unregister")
         /\ ~B!At("register")
         /\ B!At("bootstrapped") => bootPc = 12
         /\ B!At("account_ext") => bootPc = 3
         /\ bootPc # 0 /\ B!Omitted => migrated /\ bootPc \in {}
<1>1. B!Plan = B!ExternalPlan
  BY DEF B!Plan
<1>2. Len(B!Plan) = 12
  BY <1>1, ExternalRows
<1>3. /\ B!Plan[1] = <<"switch", "none">> /\ B!Plan[2] = <<"controller", "ext">>
      /\ B!Plan[3] = <<"account_ext", "none">> /\ B!Plan[4] = <<"reload", "none">>
      /\ B!Plan[5] = <<"model", "none">> /\ B!Plan[6] = <<"machine", "none">>
      /\ B!Plan[7] = <<"deploy", "sunbeam-machine">> /\ B!Plan[8] = <<"deploy", "k8s">>
      /\ B!Plan[9] = <<"deploy", "microceph">> /\ B!Plan[10] = <<"deploy", "openstack">>
      /\ B!Plan[11] = <<"deploy", "hypervisor">> /\ B!Plan[12] = <<"bootstrapped", "none">>
  BY <1>1, ExternalRows
<1>4. bootPc = 0 \/ bootPc = 1 \/ bootPc = 2 \/ bootPc = 3 \/ bootPc = 4 \/ bootPc = 5 \/
      bootPc = 6 \/ bootPc = 7 \/ bootPc = 8 \/ bootPc = 9 \/ bootPc = 10 \/ bootPc = 11 \/
      bootPc = 12
  OBVIOUS
<1>5. B!At("switch") => bootPc = 1
  BY <1>3, <1>4 DEF B!At, B!Omitted
<1>6. ~B!At("backup_user")
  BY <1>3, <1>4 DEF B!At, B!Omitted
<1>7. B!At("controller") => bootPc = 2 /\ B!Plan[bootPc][2] = "ext"
  BY <1>3, <1>4 DEF B!At, B!Omitted
<1>8. ~B!At("admin")
  BY <1>3, <1>4 DEF B!At, B!Omitted
<1>9. B!At("reload") => bootPc = 4
  BY <1>3, <1>4 DEF B!At, B!Omitted
<1>10. B!At("model") => bootPc = 5
  BY <1>3, <1>4 DEF B!At, B!Omitted
<1>11. B!At("machine") => bootPc = 6
  BY <1>3, <1>4 DEF B!At, B!Omitted
<1>12. B!At("deploy") => (bootPc = 7 /\ B!Plan[bootPc][2] = "sunbeam-machine") \/ (bootPc = 8
      /\ B!Plan[bootPc][2] = "k8s") \/ (bootPc = 9 /\ B!Plan[bootPc][2] = "microceph")
      \/ (bootPc = 10 /\ B!Plan[bootPc][2] = "openstack") \/ (bootPc = 11
      /\ B!Plan[bootPc][2] = "hypervisor")
  BY <1>3, <1>4 DEF B!At, B!Omitted
<1>13. ~B!At("bootstrap_juju")
  BY <1>3, <1>4 DEF B!At, B!Omitted
<1>14. ~B!At("switch_k8s")
  BY <1>3, <1>4 DEF B!At, B!Omitted
<1>15. ~B!At("migrate")
  BY <1>3, <1>4 DEF B!At, B!Omitted
<1>16. ~B!At("wait")
  BY <1>3, <1>4 DEF B!At, B!Omitted
<1>17. ~B!At("flag")
  BY <1>3, <1>4 DEF B!At, B!Omitted
<1>18. ~B!At("add_user")
  BY <1>3, <1>4 DEF B!At, B!Omitted
<1>19. ~B!At("superuser")
  BY <1>3, <1>4 DEF B!At, B!Omitted
<1>20. ~B!At("user_row")
  BY <1>3, <1>4 DEF B!At, B!Omitted
<1>21. ~B!At("grant")
  BY <1>3, <1>4 DEF B!At, B!Omitted
<1>22. ~B!At("save_user")
  BY <1>3, <1>4 DEF B!At, B!Omitted
<1>23. ~B!At("unregister")
  BY <1>3, <1>4 DEF B!At, B!Omitted
<1>24. ~B!At("register")
  BY <1>3, <1>4 DEF B!At, B!Omitted
<1>25. B!At("bootstrapped") => bootPc = 12
  BY <1>3, <1>4 DEF B!At, B!Omitted
<1>26. B!At("account_ext") => bootPc = 3
  BY <1>3, <1>4 DEF B!At, B!Omitted
<1>27. bootPc # 0 /\ B!Omitted => migrated /\ bootPc \in {}
  BY <1>3, <1>4 DEF B!At, B!Omitted
<1> QED
  BY <1>2, <1>5, <1>6, <1>7, <1>8, <1>9, <1>10, <1>11, <1>12, <1>13, <1>14, <1>15, <1>16, <1>17,
      <1>18, <1>19, <1>20, <1>21, <1>22, <1>23, <1>24, <1>25, <1>26, <1>27

\* The applications of the plans.
LEMMA AppsDeployed ==
  B!AllApps = {"sunbeam-machine", "k8s", "microceph", "openstack", "hypervisor"}
<1>1. {<<"sunbeam-machine", "k8s">>[i] : i \in DOMAIN <<"sunbeam-machine",
      "k8s">>} = {"sunbeam-machine", "k8s"}
  <2>1. DOMAIN <<"sunbeam-machine", "k8s">> = {1, 2}
    OBVIOUS
  <2> QED
    BY <2>1
<1>2. {<<"microceph", "openstack", "hypervisor">>[i] : i \in DOMAIN <<"microceph", "openstack",
      "hypervisor">>}
      = {"microceph", "openstack", "hypervisor"}
  <2>1. DOMAIN <<"microceph", "openstack", "hypervisor">> = {1, 2, 3}
    OBVIOUS
  <2> QED
    BY <2>1
<1> QED
  BY <1>1, <1>2 DEF B!AllApps

\* The two records of the controller, of LXD and then of Kubernetes.
LEMMA ControllerRecorded ==
  ASSUME ~external, bootPc \in 0..29, NEW c \in {"lxd", "k8s", "ext"},
         B!ClusterUpdateJujuController(c)
  PROVE  /\ \/ bootPc = 3 /\ c = "lxd" /\ bootPc' = 4
            \/ bootPc = 14 /\ c = "k8s" /\ bootPc' \in {0, 15}
         /\ db' = IF bootPc' = 0 THEN db ELSE c
         /\ bootPc = 3 => ~migrated
         /\ UNCHANGED <<external, current, login, up, models, machine, moving, migrated, user,
                        bootRow, account, backup, apps, done, jhelper, token>>
<1>1. /\ B!At("controller") /\ B!Plan[bootPc][2] = c /\ ~B!Omitted
      /\ db' = IF B!Registered(c) THEN c ELSE db
      /\ IF B!Registered(c) THEN B!Advance ELSE bootPc' = 0
      /\ UNCHANGED <<external, current, login, up, models, machine, moving, migrated, user,
                     bootRow, account, backup, apps, done, jhelper, token>>
  BY DEF B!ClusterUpdateJujuController, B!Recorded, B!GoOnIf, B!juju, B!files, B!local
<1>2. (bootPc = 3 /\ c = "lxd" /\ ~migrated) \/ (bootPc = 14 /\ c = "k8s")
  BY <1>1, LocalAt
<1>3. Len(B!Plan) = 29
  BY LocalAt
<1>4. B!Advance => bootPc' = bootPc + 1
  BY <1>2, <1>3 DEF B!Advance
<1>5. c = "lxd" => B!Registered(c)
  BY DEF B!Registered
<1> HIDE DEF B!At, B!Plan, B!Registered, B!Advance
<1> QED
  BY <1>1, <1>2, <1>4, <1>5

LEMMA HomeTypesStep == BootInv /\ ~external /\ B!Next => BootTypes'
<1> SUFFICES ASSUME BootInv /\ ~external, B!Next PROVE BootTypes'
  OBVIOUS
<1> USE ServicesAssumption DEF BootInv, BootTypes, World, Position, Users, Nowhere, OnLxd, Moved,
      Twice, OnK8s, B!juju, B!files, B!clusterd, B!local, B!Advance, B!GoOnIf, B!None
<1>0. bootPc \in 0..29
  BY DEF BootInv, BootTypes
<1>1. CASE B!Start
  BY <1>0, <1>1, LocalAt DEF B!Start
<1>2. CASE B!SwitchFirst
  BY <1>0, <1>2, LocalAt DEF B!SwitchFirst, B!SwitchTo, B!Registered
<1>3. CASE B!SwitchToController
  BY <1>0, <1>3, LocalAt DEF B!SwitchToController, B!SwitchTo, B!Registered
<1>4. CASE B!OmitStep
  BY <1>0, <1>4, LocalAt DEF B!OmitStep
<1>5. CASE B!BackupBootstrapUser
  BY <1>0, <1>5, LocalAt DEF B!BackupBootstrapUser, B!CurrentUser
<1>6. CASE B!SaveJujuRemoteUserLocally
  BY <1>0, <1>6, LocalAt DEF B!SaveJujuRemoteUserLocally
<1>7. CASE B!reload_credentials
  BY <1>0, <1>7, LocalAt DEF B!reload_credentials
<1>8. CASE B!AddJujuModel
  BY <1>0, <1>8, LocalAt DEF B!AddJujuModel
<1>9. CASE B!AddJujuMachine
  BY <1>0, <1>9, LocalAt DEF B!AddJujuMachine, B!MachineFoundOrAdded
<1>10. CASE B!DeployApplication
  <2>1. \/ apps' = apps
        \/ B!At("deploy") /\ apps' = apps \cup {B!Plan[bootPc][2]}
    BY <1>10 DEF B!DeployApplication
  <2>2. B!At("deploy") => B!Plan[bootPc][2] \in B!AllApps
    BY <1>0, LocalAt, AppsDeployed
  <2>3. bootPc \in {8, 9, 26, 27, 28} /\ bootPc' \in {0, bootPc + 1}
    BY <1>0, <1>10, LocalAt DEF B!DeployApplication
  <2>4. UNCHANGED <<external, current, login, up, models, machine, moving, db, migrated, user,
        bootRow, account, backup, done, jhelper, token>> /\ bootStops' = bootStops
    BY <1>10 DEF B!DeployApplication
  <2>5. apps' \subseteq {"sunbeam-machine", "k8s", "microceph", "openstack", "hypervisor"}
    BY <2>1, <2>2, AppsDeployed
  <2>6. bootPc' \in 0..29
    BY <2>3
  <2> QED
    BY <2>4, <2>5, <2>6
<1>11. CASE B!BootstrapJuju
  <2>1. bootPc = 10 /\ bootPc' \in {0, 11}
    BY <1>0, <1>11, LocalAt DEF B!BootstrapJuju
  <2>2. up' = TRUE /\ login' \in {login, "admin"} /\ current' \in {current, "k8s"}
    BY <1>11 DEF B!BootstrapJuju
  <2>3. UNCHANGED <<external, models, machine, moving, db, migrated, user, bootRow, account, backup,
        apps, done, jhelper, token, bootStops>>
    BY <1>11 DEF B!BootstrapJuju
  <2> QED
    BY <2>1, <2>2, <2>3
<1>12. CASE B!MigrateModel
  BY <1>0, <1>12, LocalAt DEF B!MigrateModel
<1>13. CASE B!WaitForModel
  BY <1>0, <1>13, LocalAt DEF B!WaitForModel
<1>14. CASE B!set_juju_controller_migrated
  BY <1>0, <1>14, LocalAt DEF B!set_juju_controller_migrated
<1>15. CASE B!CreateJujuUser
  BY <1>0, <1>15, LocalAt DEF B!CreateJujuUser, B!AddUserNeeded
<1>16. CASE B!GrantSuperuser
  BY <1>0, <1>16, LocalAt DEF B!GrantSuperuser
<1>17. CASE B!ClusterAddJujuUser
  BY <1>0, <1>17, LocalAt DEF B!ClusterAddJujuUser
<1>18. CASE B!JujuGrantModelAccess
  BY <1>0, <1>18, LocalAt DEF B!JujuGrantModelAccess
<1>19. CASE B!SaveJujuUserLocally
  BY <1>0, <1>19, LocalAt DEF B!SaveJujuUserLocally
<1>20. CASE B!UnregisterController
  BY <1>0, <1>20, LocalAt DEF B!UnregisterController, B!CurrentUser
<1>21. CASE B!RegisterController
  BY <1>0, <1>21, LocalAt DEF B!RegisterController
<1>22. CASE B!SetBootstrapped
  <2>1. done' \in BOOLEAN
    BY <1>22, Zenon DEF B!SetBootstrapped
  <2>2. bootPc' = 0 /\ bootStops' = bootStops
        /\ UNCHANGED <<external, current, login, up, models, machine, moving, db, migrated, user,
             bootRow, account, backup, apps, jhelper, token>>
    BY <1>0, <1>22, LocalAt DEF B!SetBootstrapped
  <2> QED
    BY <2>1, <2>2
<1>23. CASE B!MigrationEnds
  <2>1. moving' \in BOOLEAN
    BY <1>23, Zenon DEF B!MigrationEnds
  <2>2. bootPc' = bootPc /\ bootStops' = bootStops
        /\ UNCHANGED <<external, current, login, up, db, migrated, user, bootRow, account, backup,
             apps, done, jhelper, token>>
    BY <1>0, <1>23, LocalAt DEF B!MigrationEnds
  <2> QED
    BY <2>1, <2>2
<1>24. CASE B!MigrationAborts
  <2>1. moving' \in BOOLEAN
    BY <1>24, Zenon DEF B!MigrationAborts
  <2>2. bootPc' = bootPc /\ bootStops' \in 0..BootStops
        /\ UNCHANGED <<external, current, login, up, models, machine, db, migrated, user, bootRow,
             account, backup, apps, done, jhelper, token>>
    BY <1>0, <1>24, LocalAt DEF B!MigrationAborts
  <2> QED
    BY <2>1, <2>2
<1>25. CASE B!Stop
  BY <1>0, <1>25, LocalAt DEF B!Stop
<1>26. ASSUME NEW c \in {"lxd", "k8s", "ext"}, B!ClusterUpdateJujuController(c) PROVE BootTypes'
  BY SMTT(30), <1>0, <1>26, LocalAt DEF B!ClusterUpdateJujuController, B!Registered, B!Recorded
<1>27. ASSUME NEW c \in {"lxd", "k8s"}, B!SaveJujuAdminUserLocally(c) PROVE BootTypes'
  BY <1>0, <1>27, LocalAt DEF B!SaveJujuAdminUserLocally, B!AdminSaved, B!Admin
<1> QED
  BY <1>1, <1>2, <1>3, <1>4, <1>5, <1>6, <1>7, <1>8, <1>9, <1>10, <1>11, <1>12, <1>13, <1>14, <1>15,
      <1>16, <1>17, <1>18, <1>19, <1>20, <1>21, <1>22, <1>23, <1>24, <1>25, <1>26, <1>27
      DEF B!Next, B!Step

LEMMA AbroadTypesStep == BootInv /\ external /\ B!Next => BootTypes'
<1> SUFFICES ASSUME BootInv /\ external, B!Next PROVE BootTypes'
  OBVIOUS
<1> USE ServicesAssumption DEF BootInv, BootTypes, Abroad, B!juju, B!files, B!clusterd, B!local,
      B!Advance, B!GoOnIf, B!None
<1>0. bootPc \in 0..12
  BY DEF BootInv, BootTypes
<1>1. CASE B!Start
  BY <1>0, <1>1, ExternalAt DEF B!Start
<1>2. CASE B!SwitchFirst
  BY <1>0, <1>2, ExternalAt DEF B!SwitchFirst, B!SwitchTo, B!Registered
<1>3. CASE B!SwitchToController
  BY <1>0, <1>3, ExternalAt DEF B!SwitchToController, B!SwitchTo, B!Registered
<1>4. CASE B!OmitStep
  BY <1>0, <1>4, ExternalAt DEF B!OmitStep
<1>5. CASE B!BackupBootstrapUser
  BY <1>0, <1>5, ExternalAt DEF B!BackupBootstrapUser, B!CurrentUser
<1>6. CASE B!SaveJujuRemoteUserLocally
  BY <1>0, <1>6, ExternalAt DEF B!SaveJujuRemoteUserLocally
<1>7. CASE B!reload_credentials
  BY <1>0, <1>7, ExternalAt DEF B!reload_credentials
<1>8. CASE B!AddJujuModel
  BY <1>0, <1>8, ExternalAt DEF B!AddJujuModel
<1>9. CASE B!AddJujuMachine
  BY <1>0, <1>9, ExternalAt DEF B!AddJujuMachine, B!MachineFoundOrAdded
<1>10. CASE B!DeployApplication
  <2>1. \/ apps' = apps
        \/ B!At("deploy") /\ apps' = apps \cup {B!Plan[bootPc][2]}
    BY <1>10 DEF B!DeployApplication
  <2>2. B!At("deploy") => B!Plan[bootPc][2] \in B!AllApps
    BY <1>0, ExternalAt, AppsDeployed
  <2>3. bootPc \in {7, 8, 9, 10, 11} /\ bootPc' \in {0, bootPc + 1}
    BY <1>0, <1>10, ExternalAt DEF B!DeployApplication
  <2>4. UNCHANGED <<external, current, login, up, models, machine, moving, db, migrated, user,
        bootRow, account, backup, done, jhelper, token>> /\ bootStops' = bootStops
    BY <1>10 DEF B!DeployApplication
  <2>5. apps' \subseteq {"sunbeam-machine", "k8s", "microceph", "openstack", "hypervisor"}
    BY <2>1, <2>2, AppsDeployed
  <2>6. bootPc' \in 0..12
    BY <2>3
  <2> QED
    BY <2>4, <2>5, <2>6
<1>11. CASE B!BootstrapJuju
  BY <1>0, <1>11, ExternalAt DEF B!BootstrapJuju
<1>12. CASE B!MigrateModel
  BY <1>0, <1>12, ExternalAt DEF B!MigrateModel
<1>13. CASE B!WaitForModel
  BY <1>0, <1>13, ExternalAt DEF B!WaitForModel
<1>14. CASE B!set_juju_controller_migrated
  BY <1>0, <1>14, ExternalAt DEF B!set_juju_controller_migrated
<1>15. CASE B!CreateJujuUser
  BY <1>0, <1>15, ExternalAt DEF B!CreateJujuUser, B!AddUserNeeded
<1>16. CASE B!GrantSuperuser
  BY <1>0, <1>16, ExternalAt DEF B!GrantSuperuser
<1>17. CASE B!ClusterAddJujuUser
  BY <1>0, <1>17, ExternalAt DEF B!ClusterAddJujuUser
<1>18. CASE B!JujuGrantModelAccess
  BY <1>0, <1>18, ExternalAt DEF B!JujuGrantModelAccess
<1>19. CASE B!SaveJujuUserLocally
  BY <1>0, <1>19, ExternalAt DEF B!SaveJujuUserLocally
<1>20. CASE B!UnregisterController
  BY <1>0, <1>20, ExternalAt DEF B!UnregisterController, B!CurrentUser
<1>21. CASE B!RegisterController
  BY <1>0, <1>21, ExternalAt DEF B!RegisterController
<1>22. CASE B!SetBootstrapped
  <2>1. done' \in BOOLEAN
    BY <1>22, Zenon DEF B!SetBootstrapped
  <2>2. bootPc' = 0 /\ bootStops' = bootStops
        /\ UNCHANGED <<external, current, login, up, models, machine, moving, db, migrated, user,
             bootRow, account, backup, apps, jhelper, token>>
    BY <1>0, <1>22, ExternalAt DEF B!SetBootstrapped
  <2> QED
    BY <2>1, <2>2
<1>23. CASE B!MigrationEnds
  BY <1>0, <1>23, ExternalAt DEF B!MigrationEnds
<1>24. CASE B!MigrationAborts
  BY <1>0, <1>24, ExternalAt DEF B!MigrationAborts
<1>25. CASE B!Stop
  BY <1>0, <1>25, ExternalAt DEF B!Stop
<1>26. ASSUME NEW c \in {"lxd", "k8s", "ext"}, B!ClusterUpdateJujuController(c) PROVE BootTypes'
  BY <1>0, <1>26, ExternalAt DEF B!ClusterUpdateJujuController, B!Registered, B!Recorded
<1>27. ASSUME NEW c \in {"lxd", "k8s"}, B!SaveJujuAdminUserLocally(c) PROVE BootTypes'
  BY <1>0, <1>27, ExternalAt DEF B!SaveJujuAdminUserLocally, B!AdminSaved, B!Admin
<1> QED
  BY <1>1, <1>2, <1>3, <1>4, <1>5, <1>6, <1>7, <1>8, <1>9, <1>10, <1>11, <1>12, <1>13, <1>14, <1>15,
      <1>16, <1>17, <1>18, <1>19, <1>20, <1>21, <1>22, <1>23, <1>24, <1>25, <1>26, <1>27
      DEF B!Next, B!Step

LEMMA WorldStep == BootInv /\ ~external /\ B!Next => World'
<1> SUFFICES ASSUME BootInv /\ ~external, B!Next PROVE World'
  OBVIOUS
<1> USE ServicesAssumption DEF BootInv, BootTypes, World, Position, Nowhere, OnLxd, Moved, Twice,
      OnK8s, B!juju, B!files, B!clusterd, B!local, B!Advance, B!GoOnIf, B!None
<1>0. bootPc \in 0..29
  BY DEF BootInv, BootTypes
<1>1. CASE B!Start
  BY <1>0, <1>1, LocalAt DEF B!Start
<1>2. CASE B!SwitchFirst
  BY <1>0, <1>2, LocalAt DEF B!SwitchFirst, B!SwitchTo, B!Registered
<1>3. CASE B!SwitchToController
  BY <1>0, <1>3, LocalAt DEF B!SwitchToController, B!SwitchTo, B!Registered
<1>4. CASE B!OmitStep
  BY <1>0, <1>4, LocalAt DEF B!OmitStep
<1>5. CASE B!BackupBootstrapUser
  BY <1>0, <1>5, LocalAt DEF B!BackupBootstrapUser, B!CurrentUser
<1>6. CASE B!SaveJujuRemoteUserLocally
  BY <1>0, <1>6, LocalAt DEF B!SaveJujuRemoteUserLocally
<1>7. CASE B!reload_credentials
  BY <1>0, <1>7, LocalAt DEF B!reload_credentials
<1>8. CASE B!AddJujuModel
  BY <1>0, <1>8, LocalAt DEF B!AddJujuModel
<1>9. CASE B!AddJujuMachine
  BY <1>0, <1>9, LocalAt DEF B!AddJujuMachine, B!MachineFoundOrAdded
<1>10. CASE B!DeployApplication
  BY <1>0, <1>10, LocalAt DEF B!DeployApplication
<1>11. CASE B!BootstrapJuju
  BY <1>0, <1>11, LocalAt DEF B!BootstrapJuju
<1>12. CASE B!MigrateModel
  BY <1>0, <1>12, LocalAt DEF B!MigrateModel
<1>13. CASE B!WaitForModel
  BY <1>0, <1>13, LocalAt DEF B!WaitForModel
<1>14. CASE B!set_juju_controller_migrated
  BY <1>0, <1>14, LocalAt DEF B!set_juju_controller_migrated
<1>15. CASE B!CreateJujuUser
  BY <1>0, <1>15, LocalAt DEF B!CreateJujuUser, B!AddUserNeeded
<1>16. CASE B!GrantSuperuser
  BY <1>0, <1>16, LocalAt DEF B!GrantSuperuser
<1>17. CASE B!ClusterAddJujuUser
  BY <1>0, <1>17, LocalAt DEF B!ClusterAddJujuUser
<1>18. CASE B!JujuGrantModelAccess
  BY <1>0, <1>18, LocalAt DEF B!JujuGrantModelAccess
<1>19. CASE B!SaveJujuUserLocally
  BY <1>0, <1>19, LocalAt DEF B!SaveJujuUserLocally
<1>20. CASE B!UnregisterController
  BY <1>0, <1>20, LocalAt DEF B!UnregisterController, B!CurrentUser
<1>21. CASE B!RegisterController
  BY <1>0, <1>21, LocalAt DEF B!RegisterController
<1>22. CASE B!SetBootstrapped
  BY <1>0, <1>22, LocalAt DEF B!SetBootstrapped
<1>23. CASE B!MigrationEnds
  BY <1>0, <1>23, LocalAt DEF B!MigrationEnds
<1>24. CASE B!MigrationAborts
  BY <1>0, <1>24, LocalAt DEF B!MigrationAborts
<1>25. CASE B!Stop
  BY <1>0, <1>25, LocalAt DEF B!Stop
<1>26. ASSUME NEW c \in {"lxd", "k8s", "ext"}, B!ClusterUpdateJujuController(c) PROVE World'
  BY <1>0, <1>26, LocalAt DEF B!ClusterUpdateJujuController, B!Registered, B!Recorded
<1>27. ASSUME NEW c \in {"lxd", "k8s"}, B!SaveJujuAdminUserLocally(c) PROVE World'
  BY SMTT(30), <1>0, <1>27, LocalAt DEF B!SaveJujuAdminUserLocally, B!AdminSaved, B!Admin
<1> QED
  BY <1>1, <1>2, <1>3, <1>4, <1>5, <1>6, <1>7, <1>8, <1>9, <1>10, <1>11, <1>12, <1>13, <1>14, <1>15,
      <1>16, <1>17, <1>18, <1>19, <1>20, <1>21, <1>22, <1>23, <1>24, <1>25, <1>26, <1>27
      DEF B!Next, B!Step

LEMMA PositionStep == BootInv /\ ~external /\ B!Next => Position'
<1> SUFFICES ASSUME BootInv /\ ~external, B!Next PROVE Position'
  OBVIOUS
<1> USE ServicesAssumption DEF BootInv, BootTypes, World, Position, Users, Nowhere, OnLxd, Moved,
      Twice, OnK8s, B!juju, B!files, B!clusterd, B!local, B!Advance, B!GoOnIf, B!None
<1>0. bootPc \in 0..29
  BY DEF BootInv, BootTypes
<1>1. CASE B!Start
  BY <1>0, <1>1, LocalAt DEF B!Start
<1>2. CASE B!SwitchFirst
  <2>1. /\ bootPc = 1 /\ bootPc' \in {0, 2} /\ current' # "ext"
        /\ bootPc' = 2 => current' = IF db = "none" THEN "lxd" ELSE db
        /\ UNCHANGED <<external, login, up, models, machine, moving, db, migrated, user, bootRow,
             account, backup, apps, done, jhelper, token>>
    BY <1>0, <1>2, LocalAt DEF B!SwitchFirst, B!SwitchTo, B!Registered
  <2>2. CASE bootPc' = 0
    BY <2>1, <2>2
  <2>3. CASE bootPc' = 2
    BY <2>1, <2>3
  <2> QED
    BY <2>1, <2>2, <2>3
<1>3. CASE B!SwitchToController
  <2>1. /\ bootPc = 11 /\ bootPc' \in {0, 12} /\ current' # "ext"
        /\ bootPc' = 12 => current' = "k8s" /\ login # "none"
        /\ UNCHANGED <<external, login, up, models, machine, moving, db, migrated, user, bootRow,
             account, backup, apps, done, jhelper, token>>
    BY <1>0, <1>3, LocalAt DEF B!SwitchToController, B!SwitchTo, B!Registered
  <2>2. CASE bootPc' = 0
    BY <2>1, <2>2
  <2>3. CASE bootPc' = 12
    BY <2>1, <2>3
  <2> QED
    BY <2>1, <2>2, <2>3
<1>4. CASE B!OmitStep
  BY <1>0, <1>4, LocalAt DEF B!OmitStep
<1>5. CASE B!BackupBootstrapUser
  <2>1. /\ <<bootPc, bootPc'>> \in {<<2, 0>>, <<2, 3>>, <<22, 0>>, <<22, 23>>}
        /\ UNCHANGED <<external, current, login, up, models, machine, moving, db, migrated, user,
             bootRow, account, apps, done, jhelper, token>>
    BY <1>0, <1>5, LocalAt DEF B!BackupBootstrapUser, B!CurrentUser
  <2>2. CASE bootPc = 2 /\ bootPc' = 3
    BY <2>1, <2>2
  <2>3. CASE bootPc = 22 /\ bootPc' = 23
    BY <2>1, <2>3
  <2>4. CASE bootPc' = 0
    BY <2>1, <2>4
  <2> QED
    BY <2>1, <2>2, <2>3, <2>4
<1>6. CASE B!SaveJujuRemoteUserLocally
  BY <1>0, <1>6, LocalAt DEF B!SaveJujuRemoteUserLocally
<1>7. CASE B!reload_credentials
  BY <1>0, <1>7, LocalAt DEF B!reload_credentials
<1>8. CASE B!AddJujuModel
  <2>1. /\ bootPc = 6 /\ bootPc' \in {0, 7}
        /\ models' = models \/ models' = models \cup {current}
        /\ bootPc' = 7 => (jhelper \in models /\ models' = models) \/ (current \notin models
             /\ jhelper \notin models /\ models' = models \cup {current})
        /\ UNCHANGED <<external, current, login, up, machine, moving, db, migrated, user, bootRow,
             account, backup, apps, done, jhelper, token>>
    BY <1>0, <1>8, LocalAt DEF B!AddJujuModel
  <2>2. CASE bootPc' = 0
    BY <2>1, <2>2
  <2>3. CASE bootPc' = 7 /\ models' = models
    BY <2>1, <2>3
  <2>4. CASE bootPc' = 7 /\ models' # models
    BY <2>1, <2>4
  <2> QED
    BY <2>1, <2>2, <2>3, <2>4
<1>9. CASE B!AddJujuMachine
  <2>1. /\ bootPc = 7 /\ bootPc' \in {0, 8}
        /\ machine' = IF machine = "none" THEN current ELSE machine
        /\ bootPc' = 8 => current \in models /\ machine \in {"none", current}
        /\ UNCHANGED <<external, current, login, up, models, moving, db, migrated, user, bootRow,
             account, backup, apps, done, jhelper, token>>
    BY <1>0, <1>9, LocalAt DEF B!AddJujuMachine, B!MachineFoundOrAdded
  <2>2. CASE bootPc' = 0
    BY <2>1, <2>2
  <2>3. CASE bootPc' = 8
    BY <2>1, <2>3
  <2> QED
    BY <2>1, <2>2, <2>3
<1>10. CASE B!DeployApplication
  <2>1. bootPc \in {8, 9, 26, 27, 28} /\ UNCHANGED <<external, current, login, up, models, machine,
        moving, db, migrated, user, bootRow, account, backup, done, jhelper, token>>
    BY <1>0, <1>10, LocalAt DEF B!DeployApplication
  <2>2. \/ bootPc' = 0 /\ apps' = apps
        \/ bootPc' = bootPc + 1 /\ jhelper \in models /\ ~moving /\ apps' = apps
             \cup {B!Plan[bootPc][2]}
    <3>1. Len(B!Plan) = 29
      BY <1>0, LocalAt
    <3>2. bootPc # Len(B!Plan) /\ bootPc + 1 # 0
      BY <2>1, <3>1
    <3> QED
      BY <1>10, <3>2 DEF B!DeployApplication
  <2>3. B!At("deploy")
    BY <1>10 DEF B!DeployApplication
  <2>4. \/ bootPc' = 0 /\ apps' = apps
        \/ bootPc = 8 /\ bootPc' = 9 /\ jhelper \in models /\ ~moving /\ apps' = apps
             \cup {"sunbeam-machine"}
        \/ bootPc = 9 /\ bootPc' = 10 /\ jhelper \in models /\ ~moving /\ apps' = apps \cup {"k8s"}
        \/ bootPc = 26 /\ bootPc' = 27 /\ jhelper \in models /\ ~moving /\ apps' = apps
             \cup {"microceph"}
        \/ bootPc = 27 /\ bootPc' = 28 /\ jhelper \in models /\ ~moving /\ apps' = apps
             \cup {"openstack"}
        \/ bootPc = 28 /\ bootPc' = 29 /\ jhelper \in models /\ ~moving /\ apps' = apps
             \cup {"hypervisor"}
    BY <1>0, <2>1, <2>2, <2>3, LocalAt
  <2>5. CASE bootPc = 8 /\ bootPc' = 9 /\ jhelper \in models /\ ~moving /\ apps' = apps
        \cup {"sunbeam-machine"}
    BY <2>1, <2>5
  <2>6. CASE bootPc = 9 /\ bootPc' = 10 /\ jhelper \in models /\ ~moving /\ apps' = apps
        \cup {"k8s"}
    BY <2>1, <2>6
  <2>7. CASE bootPc = 26 /\ bootPc' = 27 /\ jhelper \in models /\ ~moving /\ apps' = apps
        \cup {"microceph"}
    BY <2>1, <2>7
  <2>8. CASE bootPc = 27 /\ bootPc' = 28 /\ jhelper \in models /\ ~moving /\ apps' = apps
        \cup {"openstack"}
    BY <2>1, <2>8
  <2>9. CASE bootPc = 28 /\ bootPc' = 29 /\ jhelper \in models /\ ~moving /\ apps' = apps
        \cup {"hypervisor"}
    BY <2>1, <2>9
  <2>10. CASE bootPc' = 0 /\ apps' = apps
    BY <2>1, <2>10
  <2> QED
    BY <2>4, <2>5, <2>6, <2>7, <2>8, <2>9, <2>10
<1>11. CASE B!BootstrapJuju
  <2>1. /\ bootPc = 10 /\ bootPc' \in {0, 11} /\ current' \in {current, "k8s"}
        /\ UNCHANGED <<external, models, machine, moving, db, migrated, user, bootRow, account,
             backup, apps, done, jhelper, token>>
    BY <1>0, <1>11, LocalAt DEF B!BootstrapJuju
  <2>2. CASE bootPc' = 0
    BY <2>1, <2>2
  <2>3. CASE bootPc' = 11
    BY <2>1, <2>3
  <2> QED
    BY <2>1, <2>2, <2>3
<1>12. CASE B!MigrateModel
  <2>1. /\ bootPc = 12 /\ bootPc' \in {0, 13} /\ current' = "k8s"
        /\ moving' = (moving \/ ("k8s" \notin models /\ "lxd" \in models))
        /\ UNCHANGED <<external, login, up, models, machine, db, migrated, user, bootRow, account,
             backup, apps, done, jhelper, token>>
    BY <1>0, <1>12, LocalAt DEF B!MigrateModel
  <2>2. CASE bootPc' = 0
    BY <2>1, <2>2
  <2>3. CASE bootPc' = 13
    BY <2>1, <2>3
  <2> QED
    BY <2>1, <2>2, <2>3
<1>13. CASE B!WaitForModel
  <2>1. bootPc = 13 /\ Len(B!Plan) = 29 /\ B!At("wait")
    BY <1>0, <1>13, LocalAt DEF B!WaitForModel
  <2>2. IF "k8s" \in models THEN bootPc' = 14 ELSE bootPc' \in {12, 0}
    <3>1. IF "k8s" \in models THEN B!Advance ELSE bootPc' \in {bootPc - 1, 0}
      BY <1>13 DEF B!WaitForModel
    <3> QED
      BY <2>1, <3>1
  <2>3. ~moving /\ UNCHANGED <<external, current, login, up, models, machine, moving, db, migrated,
        user, bootRow, account, backup, apps, done, jhelper, token>>
    BY <1>13 DEF B!WaitForModel
  <2>4. CASE bootPc' = 0
    BY <2>1, <2>3, <2>4
  <2>5. CASE bootPc' = 12
    BY <2>1, <2>2, <2>3, <2>5
  <2>6. CASE bootPc' = 14
    BY <2>1, <2>2, <2>3, <2>6
  <2> QED
    BY <2>2, <2>4, <2>5, <2>6
<1>14. CASE B!set_juju_controller_migrated
  BY <1>0, <1>14, LocalAt DEF B!set_juju_controller_migrated
<1>15. CASE B!CreateJujuUser
  BY <1>0, <1>15, LocalAt DEF B!CreateJujuUser, B!AddUserNeeded
<1>16. CASE B!GrantSuperuser
  BY <1>0, <1>16, LocalAt DEF B!GrantSuperuser
<1>17. CASE B!ClusterAddJujuUser
  BY <1>0, <1>17, LocalAt DEF B!ClusterAddJujuUser
<1>18. CASE B!JujuGrantModelAccess
  BY SMTT(30), <1>0, <1>18, LocalAt DEF B!JujuGrantModelAccess
<1>19. CASE B!SaveJujuUserLocally
  BY <1>0, <1>19, LocalAt DEF B!SaveJujuUserLocally
<1>20. CASE B!UnregisterController
  BY SMTT(30), <1>0, <1>20, LocalAt DEF B!UnregisterController, B!CurrentUser
<1>21. CASE B!RegisterController
  BY SMTT(30), <1>0, <1>21, LocalAt DEF B!RegisterController
<1>22. CASE B!SetBootstrapped
  BY <1>0, <1>22, LocalAt DEF B!SetBootstrapped
<1>23. CASE B!MigrationEnds
  BY <1>0, <1>23, LocalAt DEF B!MigrationEnds
<1>24. CASE B!MigrationAborts
  BY <1>0, <1>24, LocalAt DEF B!MigrationAborts
<1>25. CASE B!Stop
  BY <1>0, <1>25, LocalAt DEF B!Stop
<1>26. ASSUME NEW c \in {"lxd", "k8s", "ext"}, B!ClusterUpdateJujuController(c) PROVE Position'
  <2>1. /\ \/ bootPc = 3 /\ c = "lxd" /\ bootPc' = 4
           \/ bootPc = 14 /\ c = "k8s" /\ bootPc' \in {0, 15}
        /\ db' = IF bootPc' = 0 THEN db ELSE c
        /\ bootPc = 3 => ~migrated
        /\ UNCHANGED <<external, current, login, up, models, machine, moving, migrated, user,
             bootRow, account, backup, apps, done, jhelper, token>>
    BY <1>0, <1>26, ControllerRecorded
  <2>2. CASE bootPc' = 0
    BY <2>1, <2>2
  <2>3. CASE bootPc' = 4
    BY <2>1, <2>3
  <2>4. CASE bootPc' = 15
    BY <2>1, <2>4
  <2> QED
    BY <2>1, <2>2, <2>3, <2>4
<1>27. ASSUME NEW c \in {"lxd", "k8s"}, B!SaveJujuAdminUserLocally(c) PROVE Position'
  BY <1>0, <1>27, LocalAt DEF B!SaveJujuAdminUserLocally, B!AdminSaved, B!Admin
<1> QED
  BY <1>1, <1>2, <1>3, <1>4, <1>5, <1>6, <1>7, <1>8, <1>9, <1>10, <1>11, <1>12, <1>13, <1>14, <1>15,
      <1>16, <1>17, <1>18, <1>19, <1>20, <1>21, <1>22, <1>23, <1>24, <1>25, <1>26, <1>27
      DEF B!Next, B!Step

LEMMA UsersStep == BootInv /\ ~external /\ B!Next => Users'
<1> SUFFICES ASSUME BootInv /\ ~external, B!Next PROVE Users'
  OBVIOUS
<1> USE ServicesAssumption DEF BootInv, BootTypes, World, Position, Users, Nowhere, OnLxd, Moved,
      Twice, OnK8s, B!juju, B!files, B!clusterd, B!local, B!Advance, B!GoOnIf, B!None
<1>0. bootPc \in 0..29
  BY DEF BootInv, BootTypes
<1>1. CASE B!Start
  BY <1>0, <1>1, LocalAt DEF B!Start
<1>2. CASE B!SwitchFirst
  <2>1. /\ bootPc = 1 /\ bootPc' \in {0, 2} /\ current' # "ext"
        /\ bootPc' = 2 => current' = IF db = "none" THEN "lxd" ELSE db
        /\ UNCHANGED <<external, login, up, models, machine, moving, db, migrated, user, bootRow,
             account, backup, apps, done, jhelper, token>>
    BY <1>0, <1>2, LocalAt DEF B!SwitchFirst, B!SwitchTo, B!Registered
  <2>2. CASE bootPc' = 0
    BY <2>1, <2>2
  <2>3. CASE bootPc' = 2
    BY <2>1, <2>3
  <2> QED
    BY <2>1, <2>2, <2>3
<1>3. CASE B!SwitchToController
  <2>1. /\ bootPc = 11 /\ bootPc' \in {0, 12} /\ current' # "ext"
        /\ bootPc' = 12 => current' = "k8s" /\ login # "none"
        /\ UNCHANGED <<external, login, up, models, machine, moving, db, migrated, user, bootRow,
             account, backup, apps, done, jhelper, token>>
    BY <1>0, <1>3, LocalAt DEF B!SwitchToController, B!SwitchTo, B!Registered
  <2>2. CASE bootPc' = 0
    BY <2>1, <2>2
  <2>3. CASE bootPc' = 12
    BY <2>1, <2>3
  <2> QED
    BY <2>1, <2>2, <2>3
<1>4. CASE B!OmitStep
  BY <1>0, <1>4, LocalAt DEF B!OmitStep
<1>5. CASE B!BackupBootstrapUser
  <2>1. <<bootPc, bootPc'>> \in {<<2, 0>>, <<2, 3>>, <<22, 0>>, <<22, 23>>} /\ (bootPc = 2
        => ~migrated)
    BY <1>0, <1>5, LocalAt DEF B!BackupBootstrapUser
  <2>2. UNCHANGED <<external, current, login, up, models, machine, moving, db, migrated, user,
        bootRow, account, apps, done, jhelper, token>>
    BY <1>5 DEF B!BackupBootstrapUser
  <2>3. backup' = (IF B!CurrentUser = "admin" THEN login ELSE backup) /\ (bootPc = 22
        => B!CurrentUser = login)
    BY <1>5 DEF B!BackupBootstrapUser, B!CurrentUser
  <2>4. bootPc = 22 => backup' = IF login = "admin" THEN login ELSE backup
    BY <2>3
  <2>5. backup' \in {backup, login}
    BY <2>3
  <2>6. CASE bootPc = 2 /\ bootPc' = 3
    BY <2>1, <2>2, <2>5, <2>6
  <2>7. CASE bootPc = 22 /\ bootPc' = 23
    BY <2>2, <2>4, <2>7
  <2>8. CASE bootPc = 2 /\ bootPc' = 0
    BY <2>1, <2>2, <2>5, <2>8
  <2>9. CASE bootPc = 22 /\ bootPc' = 0
    BY <2>2, <2>4, <2>9
  <2> QED
    BY <2>1, <2>6, <2>7, <2>8, <2>9
<1>6. CASE B!SaveJujuRemoteUserLocally
  BY <1>0, <1>6, LocalAt DEF B!SaveJujuRemoteUserLocally
<1>7. CASE B!reload_credentials
  BY <1>0, <1>7, LocalAt DEF B!reload_credentials
<1>8. CASE B!AddJujuModel
  <2>1. /\ bootPc = 6 /\ bootPc' \in {0, 7}
        /\ models' = models \/ models' = models \cup {current}
        /\ bootPc' = 7 => (jhelper \in models /\ models' = models) \/ (current \notin models
             /\ jhelper \notin models /\ models' = models \cup {current})
        /\ UNCHANGED <<external, current, login, up, machine, moving, db, migrated, user, bootRow,
             account, backup, apps, done, jhelper, token>>
    BY <1>0, <1>8, LocalAt DEF B!AddJujuModel
  <2>2. CASE bootPc' = 0
    BY <2>1, <2>2
  <2>3. CASE bootPc' = 7 /\ models' = models
    BY <2>1, <2>3
  <2>4. CASE bootPc' = 7 /\ models' # models
    BY <2>1, <2>4
  <2> QED
    BY <2>1, <2>2, <2>3, <2>4
<1>9. CASE B!AddJujuMachine
  <2>1. /\ bootPc = 7 /\ bootPc' \in {0, 8}
        /\ machine' = IF machine = "none" THEN current ELSE machine
        /\ bootPc' = 8 => current \in models /\ machine \in {"none", current}
        /\ UNCHANGED <<external, current, login, up, models, moving, db, migrated, user, bootRow,
             account, backup, apps, done, jhelper, token>>
    BY <1>0, <1>9, LocalAt DEF B!AddJujuMachine, B!MachineFoundOrAdded
  <2>2. CASE bootPc' = 0
    BY <2>1, <2>2
  <2>3. CASE bootPc' = 8
    BY <2>1, <2>3
  <2> QED
    BY <2>1, <2>2, <2>3
<1>10. CASE B!DeployApplication
  <2>1. bootPc \in {8, 9, 26, 27, 28} /\ UNCHANGED <<external, current, login, up, models, machine,
        moving, db, migrated, user, bootRow, account, backup, done, jhelper, token>>
    BY <1>0, <1>10, LocalAt DEF B!DeployApplication
  <2>2. \/ bootPc' = 0 /\ apps' = apps
        \/ bootPc' = bootPc + 1 /\ jhelper \in models /\ ~moving /\ apps' = apps
             \cup {B!Plan[bootPc][2]}
    <3>1. Len(B!Plan) = 29
      BY <1>0, LocalAt
    <3>2. bootPc # Len(B!Plan) /\ bootPc + 1 # 0
      BY <2>1, <3>1
    <3> QED
      BY <1>10, <3>2 DEF B!DeployApplication
  <2>3. B!At("deploy")
    BY <1>10 DEF B!DeployApplication
  <2>4. \/ bootPc' = 0 /\ apps' = apps
        \/ bootPc = 8 /\ bootPc' = 9 /\ jhelper \in models /\ ~moving /\ apps' = apps
             \cup {"sunbeam-machine"}
        \/ bootPc = 9 /\ bootPc' = 10 /\ jhelper \in models /\ ~moving /\ apps' = apps \cup {"k8s"}
        \/ bootPc = 26 /\ bootPc' = 27 /\ jhelper \in models /\ ~moving /\ apps' = apps
             \cup {"microceph"}
        \/ bootPc = 27 /\ bootPc' = 28 /\ jhelper \in models /\ ~moving /\ apps' = apps
             \cup {"openstack"}
        \/ bootPc = 28 /\ bootPc' = 29 /\ jhelper \in models /\ ~moving /\ apps' = apps
             \cup {"hypervisor"}
    BY <1>0, <2>1, <2>2, <2>3, LocalAt
  <2>5. CASE bootPc = 8 /\ bootPc' = 9 /\ jhelper \in models /\ ~moving /\ apps' = apps
        \cup {"sunbeam-machine"}
    BY <2>1, <2>5
  <2>6. CASE bootPc = 9 /\ bootPc' = 10 /\ jhelper \in models /\ ~moving /\ apps' = apps
        \cup {"k8s"}
    BY <2>1, <2>6
  <2>7. CASE bootPc = 26 /\ bootPc' = 27 /\ jhelper \in models /\ ~moving /\ apps' = apps
        \cup {"microceph"}
    BY <2>1, <2>7
  <2>8. CASE bootPc = 27 /\ bootPc' = 28 /\ jhelper \in models /\ ~moving /\ apps' = apps
        \cup {"openstack"}
    BY <2>1, <2>8
  <2>9. CASE bootPc = 28 /\ bootPc' = 29 /\ jhelper \in models /\ ~moving /\ apps' = apps
        \cup {"hypervisor"}
    BY <2>1, <2>9
  <2>10. CASE bootPc' = 0 /\ apps' = apps
    BY <2>1, <2>10
  <2> QED
    BY <2>4, <2>5, <2>6, <2>7, <2>8, <2>9, <2>10
<1>11. CASE B!BootstrapJuju
  <2>1. /\ bootPc = 10 /\ bootPc' \in {0, 11} /\ up' = TRUE
        /\ login' = IF up THEN login ELSE "admin"
        /\ UNCHANGED <<external, models, machine, moving, db, migrated, user, bootRow, account,
             backup, apps, done, jhelper, token>>
    BY <1>0, <1>11, LocalAt DEF B!BootstrapJuju
  <2>2. CASE bootPc' = 0
    BY <2>1, <2>2
  <2>3. CASE bootPc' = 11
    BY <2>1, <2>3
  <2> QED
    BY <2>1, <2>2, <2>3
<1>12. CASE B!MigrateModel
  BY SMTT(30), <1>0, <1>12, LocalAt DEF B!MigrateModel
<1>13. CASE B!WaitForModel
  BY SMTT(30), <1>0, <1>13, LocalAt DEF B!WaitForModel
<1>14. CASE B!set_juju_controller_migrated
  BY <1>0, <1>14, LocalAt DEF B!set_juju_controller_migrated
<1>15. CASE B!CreateJujuUser
  BY <1>0, <1>15, LocalAt DEF B!CreateJujuUser, B!AddUserNeeded
<1>16. CASE B!GrantSuperuser
  BY <1>0, <1>16, LocalAt DEF B!GrantSuperuser
<1>17. CASE B!ClusterAddJujuUser
  BY <1>0, <1>17, LocalAt DEF B!ClusterAddJujuUser
<1>18. CASE B!JujuGrantModelAccess
  <2>1. /\ bootPc = 21 /\ bootPc' \in {0, 22}
        /\ UNCHANGED <<external, current, login, up, models, machine, moving, db, migrated, user,
             bootRow, account, backup, apps, done, jhelper, token>>
    BY <1>0, <1>18, LocalAt DEF B!JujuGrantModelAccess
  <2>2. CASE bootPc' = 0
    BY <2>1, <2>2
  <2>3. CASE bootPc' = 22
    BY <2>1, <2>3
  <2> QED
    BY <2>1, <2>2, <2>3
<1>19. CASE B!SaveJujuUserLocally
  BY <1>0, <1>19, LocalAt DEF B!SaveJujuUserLocally
<1>20. CASE B!UnregisterController
  <2>1. /\ bootPc = 24 /\ bootPc' \in {0, 25}
        /\ login' = IF login # account /\ bootRow \in {"token", "used"} THEN "none" ELSE login
        /\ bootPc' = 25 => login = account \/ bootRow \in {"token", "used"}
        /\ UNCHANGED <<external, current, up, models, machine, moving, db, migrated, user, bootRow,
             account, backup, apps, done, jhelper, token>>
    BY <1>0, <1>20, LocalAt DEF B!UnregisterController, B!CurrentUser
  <2>2. CASE bootPc' = 0
    BY <2>1, <2>2
  <2>3. CASE bootPc' = 25
    BY <2>1, <2>3
  <2> QED
    BY <2>1, <2>2, <2>3
<1>21. CASE B!RegisterController
  <2>1. /\ bootPc = 25 /\ bootPc' \in {0, 26}
        /\ \/ UNCHANGED <<login, bootRow>> /\ (bootPc' = 26 => login = "node")
           \/ bootRow = "token" /\ login' = "node" /\ bootRow' = "used"
        /\ UNCHANGED <<external, current, up, models, machine, moving, db, migrated, user, account,
             backup, apps, done, jhelper, token>>
    BY <1>0, <1>21, LocalAt DEF B!RegisterController
  <2>2. CASE UNCHANGED <<login, bootRow>>
    BY <2>1, <2>2
  <2>3. CASE bootRow = "token" /\ login' = "node" /\ bootRow' = "used"
    BY <2>1, <2>3
  <2> QED
    BY <2>1, <2>2, <2>3
<1>22. CASE B!SetBootstrapped
  BY <1>0, <1>22, LocalAt DEF B!SetBootstrapped
<1>23. CASE B!MigrationEnds
  BY <1>0, <1>23, LocalAt DEF B!MigrationEnds
<1>24. CASE B!MigrationAborts
  BY <1>0, <1>24, LocalAt DEF B!MigrationAborts
<1>25. CASE B!Stop
  BY <1>0, <1>25, LocalAt DEF B!Stop
<1>26. ASSUME NEW c \in {"lxd", "k8s", "ext"}, B!ClusterUpdateJujuController(c) PROVE Users'
  <2>1. /\ \/ bootPc = 3 /\ c = "lxd" /\ bootPc' = 4
           \/ bootPc = 14 /\ c = "k8s" /\ bootPc' \in {0, 15}
        /\ db' = IF bootPc' = 0 THEN db ELSE c
        /\ bootPc = 3 => ~migrated
        /\ UNCHANGED <<external, current, login, up, models, machine, moving, migrated, user,
             bootRow, account, backup, apps, done, jhelper, token>>
    BY <1>0, <1>26, ControllerRecorded
  <2>2. CASE bootPc' = 0
    BY <2>1, <2>2
  <2>3. CASE bootPc' = 4
    BY <2>1, <2>3
  <2>4. CASE bootPc' = 15
    BY <2>1, <2>4
  <2> QED
    BY <2>1, <2>2, <2>3, <2>4
<1>27. ASSUME NEW c \in {"lxd", "k8s"}, B!SaveJujuAdminUserLocally(c) PROVE Users'
  BY <1>0, <1>27, LocalAt DEF B!SaveJujuAdminUserLocally, B!AdminSaved, B!Admin
<1> QED
  BY <1>1, <1>2, <1>3, <1>4, <1>5, <1>6, <1>7, <1>8, <1>9, <1>10, <1>11, <1>12, <1>13, <1>14, <1>15,
      <1>16, <1>17, <1>18, <1>19, <1>20, <1>21, <1>22, <1>23, <1>24, <1>25, <1>26, <1>27
      DEF B!Next, B!Step

LEMMA DoneStep == BootInv /\ ~external /\ B!Next => DoneLocal'
<1> SUFFICES ASSUME BootInv /\ ~external, B!Next PROVE DoneLocal'
  OBVIOUS
<1> USE ServicesAssumption DEF BootInv, BootTypes, World, Position, Users, DoneLocal, Nowhere,
      OnLxd, Moved, Twice, OnK8s, B!juju, B!files, B!clusterd, B!local, B!Advance, B!GoOnIf, B!None
<1>0. bootPc \in 0..29
  BY DEF BootInv, BootTypes
<1>1. CASE B!Start
  BY <1>0, <1>1, LocalAt DEF B!Start
<1>2. CASE B!SwitchFirst
  BY <1>0, <1>2, LocalAt DEF B!SwitchFirst, B!SwitchTo, B!Registered
<1>3. CASE B!SwitchToController
  BY <1>0, <1>3, LocalAt DEF B!SwitchToController, B!SwitchTo, B!Registered
<1>4. CASE B!OmitStep
  BY <1>0, <1>4, LocalAt DEF B!OmitStep
<1>5. CASE B!BackupBootstrapUser
  BY <1>0, <1>5, LocalAt DEF B!BackupBootstrapUser, B!CurrentUser
<1>6. CASE B!SaveJujuRemoteUserLocally
  BY <1>0, <1>6, LocalAt DEF B!SaveJujuRemoteUserLocally
<1>7. CASE B!reload_credentials
  BY <1>0, <1>7, LocalAt DEF B!reload_credentials
<1>8. CASE B!AddJujuModel
  BY <1>0, <1>8, LocalAt DEF B!AddJujuModel
<1>9. CASE B!AddJujuMachine
  BY <1>0, <1>9, LocalAt DEF B!AddJujuMachine, B!MachineFoundOrAdded
<1>10. CASE B!DeployApplication
  <2>1. /\ apps \subseteq apps' /\ UNCHANGED <<external, current, login, up, models, machine,
             moving, db, migrated, user, bootRow, account, backup, done, jhelper, token>>
    BY <1>0, <1>10, LocalAt DEF B!DeployApplication
  <2>2. apps' \subseteq B!AllApps
    <3>1. \/ apps' = apps
          \/ B!At("deploy") /\ apps' = apps \cup {B!Plan[bootPc][2]}
      BY <1>0, <1>10 DEF B!DeployApplication
    <3>2. bootPc \in {8, 9, 26, 27, 28} /\ B!At("deploy") => B!Plan[bootPc][2] \in B!AllApps
      BY <1>0, LocalAt, AppsDeployed
    <3> QED
      BY <1>0, <1>10, <3>1, <3>2, LocalAt, AppsDeployed DEF B!DeployApplication
  <2> QED
    BY <2>1, <2>2
<1>11. CASE B!BootstrapJuju
  BY <1>0, <1>11, LocalAt DEF B!BootstrapJuju
<1>12. CASE B!MigrateModel
  BY <1>0, <1>12, LocalAt DEF B!MigrateModel
<1>13. CASE B!WaitForModel
  BY <1>0, <1>13, LocalAt DEF B!WaitForModel
<1>14. CASE B!set_juju_controller_migrated
  BY <1>0, <1>14, LocalAt DEF B!set_juju_controller_migrated
<1>15. CASE B!CreateJujuUser
  BY <1>0, <1>15, LocalAt DEF B!CreateJujuUser, B!AddUserNeeded
<1>16. CASE B!GrantSuperuser
  BY <1>0, <1>16, LocalAt DEF B!GrantSuperuser
<1>17. CASE B!ClusterAddJujuUser
  BY <1>0, <1>17, LocalAt DEF B!ClusterAddJujuUser
<1>18. CASE B!JujuGrantModelAccess
  BY <1>0, <1>18, LocalAt DEF B!JujuGrantModelAccess
<1>19. CASE B!SaveJujuUserLocally
  BY <1>0, <1>19, LocalAt DEF B!SaveJujuUserLocally
<1>20. CASE B!UnregisterController
  BY <1>0, <1>20, LocalAt DEF B!UnregisterController, B!CurrentUser
<1>21. CASE B!RegisterController
  BY <1>0, <1>21, LocalAt DEF B!RegisterController
<1>22. CASE B!SetBootstrapped
  <2>1. /\ bootPc = 29
        /\ UNCHANGED <<external, current, login, up, models, machine, moving, db, migrated, user,
             bootRow, account, backup, apps, jhelper, token>>
    BY <1>0, <1>22, LocalAt DEF B!SetBootstrapped
  <2>2. OnK8s /\ current = "k8s" /\ login = "node"
    BY <2>1
  <2>3. {"sunbeam-machine", "k8s", "microceph", "openstack", "hypervisor"} \subseteq apps
    BY <2>1
  <2>4. apps = B!AllApps
    BY <2>3, AppsDeployed
  <2> QED
    BY <2>1, <2>2, <2>4
<1>23. CASE B!MigrationEnds
  BY <1>0, <1>23, LocalAt DEF B!MigrationEnds
<1>24. CASE B!MigrationAborts
  BY <1>0, <1>24, LocalAt DEF B!MigrationAborts
<1>25. CASE B!Stop
  BY <1>0, <1>25, LocalAt DEF B!Stop
<1>26. ASSUME NEW c \in {"lxd", "k8s", "ext"}, B!ClusterUpdateJujuController(c) PROVE DoneLocal'
  BY <1>0, <1>26, LocalAt DEF B!ClusterUpdateJujuController, B!Registered, B!Recorded
<1>27. ASSUME NEW c \in {"lxd", "k8s"}, B!SaveJujuAdminUserLocally(c) PROVE DoneLocal'
  BY SMTT(30), <1>0, <1>27, LocalAt DEF B!SaveJujuAdminUserLocally, B!AdminSaved, B!Admin
<1> QED
  BY <1>1, <1>2, <1>3, <1>4, <1>5, <1>6, <1>7, <1>8, <1>9, <1>10, <1>11, <1>12, <1>13, <1>14, <1>15,
      <1>16, <1>17, <1>18, <1>19, <1>20, <1>21, <1>22, <1>23, <1>24, <1>25, <1>26, <1>27
      DEF B!Next, B!Step

LEMMA AbroadStep == BootInv /\ external /\ B!Next => Abroad'
<1> SUFFICES ASSUME BootInv /\ external, B!Next PROVE Abroad'
  OBVIOUS
<1> USE ServicesAssumption DEF BootInv, BootTypes, Abroad, B!juju, B!files, B!clusterd, B!local,
      B!Advance, B!GoOnIf, B!None
<1>0. bootPc \in 0..12
  BY DEF BootInv, BootTypes
<1>1. CASE B!Start
  BY <1>0, <1>1, ExternalAt DEF B!Start
<1>2. CASE B!SwitchFirst
  BY SMTT(30), <1>0, <1>2, ExternalAt DEF B!SwitchFirst, B!SwitchTo, B!Registered
<1>3. CASE B!SwitchToController
  BY <1>0, <1>3, ExternalAt DEF B!SwitchToController, B!SwitchTo, B!Registered
<1>4. CASE B!OmitStep
  BY <1>0, <1>4, ExternalAt DEF B!OmitStep
<1>5. CASE B!BackupBootstrapUser
  BY <1>0, <1>5, ExternalAt DEF B!BackupBootstrapUser, B!CurrentUser
<1>6. CASE B!SaveJujuRemoteUserLocally
  BY <1>0, <1>6, ExternalAt DEF B!SaveJujuRemoteUserLocally
<1>7. CASE B!reload_credentials
  BY <1>0, <1>7, ExternalAt DEF B!reload_credentials
<1>8. CASE B!AddJujuModel
  BY SMTT(30), <1>0, <1>8, ExternalAt DEF B!AddJujuModel
<1>9. CASE B!AddJujuMachine
  BY <1>0, <1>9, ExternalAt DEF B!AddJujuMachine, B!MachineFoundOrAdded
<1>10. CASE B!DeployApplication
  <2>1. bootPc \in {7, 8, 9, 10, 11} /\ UNCHANGED <<external, current, login, up, models, machine,
        moving, db, migrated, user, bootRow, account, backup, done, jhelper, token>>
    BY <1>0, <1>10, ExternalAt DEF B!DeployApplication
  <2>2. \/ bootPc' = 0 /\ apps' = apps
        \/ bootPc' = bootPc + 1 /\ jhelper \in models /\ ~moving /\ apps' = apps
             \cup {B!Plan[bootPc][2]}
    <3>1. Len(B!Plan) = 12
      BY <1>0, ExternalAt
    <3>2. bootPc # Len(B!Plan) /\ bootPc + 1 # 0
      BY <2>1, <3>1
    <3> QED
      BY <1>10, <3>2 DEF B!DeployApplication
  <2>3. B!At("deploy")
    BY <1>10 DEF B!DeployApplication
  <2>4. \/ bootPc' = 0 /\ apps' = apps
        \/ bootPc = 7 /\ bootPc' = 8 /\ jhelper \in models /\ ~moving /\ apps' = apps
             \cup {"sunbeam-machine"}
        \/ bootPc = 8 /\ bootPc' = 9 /\ jhelper \in models /\ ~moving /\ apps' = apps \cup {"k8s"}
        \/ bootPc = 9 /\ bootPc' = 10 /\ jhelper \in models /\ ~moving /\ apps' = apps
             \cup {"microceph"}
        \/ bootPc = 10 /\ bootPc' = 11 /\ jhelper \in models /\ ~moving /\ apps' = apps
             \cup {"openstack"}
        \/ bootPc = 11 /\ bootPc' = 12 /\ jhelper \in models /\ ~moving /\ apps' = apps
             \cup {"hypervisor"}
    BY <1>0, <2>1, <2>2, <2>3, ExternalAt
  <2>5. done => apps' = B!AllApps
    BY <2>4, AppsDeployed
  <2>6. CASE bootPc = 7 /\ bootPc' = 8 /\ jhelper \in models /\ ~moving /\ apps' = apps
        \cup {"sunbeam-machine"}
    BY <2>1, <2>5, <2>6
  <2>7. CASE bootPc = 8 /\ bootPc' = 9 /\ jhelper \in models /\ ~moving /\ apps' = apps \cup {"k8s"}
    BY <2>1, <2>5, <2>7
  <2>8. CASE bootPc = 9 /\ bootPc' = 10 /\ jhelper \in models /\ ~moving /\ apps' = apps
        \cup {"microceph"}
    BY <2>1, <2>5, <2>8
  <2>9. CASE bootPc = 10 /\ bootPc' = 11 /\ jhelper \in models /\ ~moving /\ apps' = apps
        \cup {"openstack"}
    BY <2>1, <2>5, <2>9
  <2>10. CASE bootPc = 11 /\ bootPc' = 12 /\ jhelper \in models /\ ~moving /\ apps' = apps
        \cup {"hypervisor"}
    BY <2>1, <2>5, <2>10
  <2>11. CASE bootPc' = 0 /\ apps' = apps
    BY <2>1, <2>5, <2>11
  <2> QED
    BY <2>4, <2>6, <2>7, <2>8, <2>9, <2>10, <2>11
<1>11. CASE B!BootstrapJuju
  BY <1>0, <1>11, ExternalAt DEF B!BootstrapJuju
<1>12. CASE B!MigrateModel
  BY <1>0, <1>12, ExternalAt DEF B!MigrateModel
<1>13. CASE B!WaitForModel
  BY <1>0, <1>13, ExternalAt DEF B!WaitForModel
<1>14. CASE B!set_juju_controller_migrated
  BY <1>0, <1>14, ExternalAt DEF B!set_juju_controller_migrated
<1>15. CASE B!CreateJujuUser
  BY <1>0, <1>15, ExternalAt DEF B!CreateJujuUser, B!AddUserNeeded
<1>16. CASE B!GrantSuperuser
  BY <1>0, <1>16, ExternalAt DEF B!GrantSuperuser
<1>17. CASE B!ClusterAddJujuUser
  BY <1>0, <1>17, ExternalAt DEF B!ClusterAddJujuUser
<1>18. CASE B!JujuGrantModelAccess
  BY <1>0, <1>18, ExternalAt DEF B!JujuGrantModelAccess
<1>19. CASE B!SaveJujuUserLocally
  BY <1>0, <1>19, ExternalAt DEF B!SaveJujuUserLocally
<1>20. CASE B!UnregisterController
  BY <1>0, <1>20, ExternalAt DEF B!UnregisterController, B!CurrentUser
<1>21. CASE B!RegisterController
  BY <1>0, <1>21, ExternalAt DEF B!RegisterController
<1>22. CASE B!SetBootstrapped
  <2>1. /\ bootPc = 12
        /\ UNCHANGED <<external, current, login, up, models, machine, moving, db, migrated, user,
             bootRow, account, backup, apps, jhelper, token>>
    BY <1>0, <1>22, ExternalAt DEF B!SetBootstrapped
  <2>2. models = {"ext"} /\ machine = "ext" /\ db = "ext" /\ current = "ext"
    BY <2>1
  <2>3. {"sunbeam-machine", "k8s", "microceph", "openstack", "hypervisor"} \subseteq apps
    BY <2>1
  <2>4. apps = B!AllApps
    BY <2>3, AppsDeployed
  <2> QED
    BY <2>1, <2>2, <2>4
<1>23. CASE B!MigrationEnds
  BY <1>0, <1>23, ExternalAt DEF B!MigrationEnds
<1>24. CASE B!MigrationAborts
  BY <1>0, <1>24, ExternalAt DEF B!MigrationAborts
<1>25. CASE B!Stop
  BY <1>0, <1>25, ExternalAt DEF B!Stop
<1>26. ASSUME NEW c \in {"lxd", "k8s", "ext"}, B!ClusterUpdateJujuController(c) PROVE Abroad'
  BY SMTT(30), <1>0, <1>26, ExternalAt DEF B!ClusterUpdateJujuController, B!Registered, B!Recorded
<1>27. ASSUME NEW c \in {"lxd", "k8s"}, B!SaveJujuAdminUserLocally(c) PROVE Abroad'
  BY <1>0, <1>27, ExternalAt DEF B!SaveJujuAdminUserLocally, B!AdminSaved, B!Admin
<1> QED
  BY <1>1, <1>2, <1>3, <1>4, <1>5, <1>6, <1>7, <1>8, <1>9, <1>10, <1>11, <1>12, <1>13, <1>14, <1>15,
      <1>16, <1>17, <1>18, <1>19, <1>20, <1>21, <1>22, <1>23, <1>24, <1>25, <1>26, <1>27
      DEF B!Next, B!Step

LEMMA BootInit == B!Init => BootInv
<1> SUFFICES ASSUME B!Init PROVE BootInv
  OBVIOUS
<1> USE ServicesAssumption DEF B!Init, B!None
<1>1. BootTypes
  <2>1. /\ external \in BOOLEAN /\ up \in BOOLEAN /\ moving \in BOOLEAN /\ migrated \in BOOLEAN
        /\ done \in BOOLEAN
    BY Zenon
  <2>2. bootStops \in 0..BootStops /\ bootPc = 0 /\ apps = {}
    OBVIOUS
  <2>3. /\ current = "lxd" /\ login = "none" /\ db = "none" /\ jhelper = "none" /\ user = "none"
        /\ token = "none" /\ bootRow = "none" /\ account = "none" /\ backup = "none"
    OBVIOUS
  <2> QED
    BY ONLY <2>1, <2>2, <2>3 DEF BootTypes
<1>2. external => Abroad
  BY DEF Abroad
<1>3. World /\ Position /\ Users /\ DoneLocal
  BY DEF World, Nowhere, OnLxd, Moved, Twice, OnK8s, Position, Users, DoneLocal
<1> QED
  BY <1>1, <1>2, <1>3 DEF BootInv

LEMMA BootRests == BootInv /\ UNCHANGED bvars => BootInv'
<1> SUFFICES ASSUME BootInv, UNCHANGED bvars PROVE BootInv'
  OBVIOUS
<1> QED
  BY DEF bvars, BootInv, BootTypes, World, Nowhere, OnLxd, Moved, Twice, OnK8s, Position, Users,
     DoneLocal, Abroad, B!AllApps

LEMMA BootStep == BootInv /\ B!Next => BootInv'
<1> SUFFICES ASSUME BootInv, B!Next PROVE BootInv'
  OBVIOUS
<1>1. UNCHANGED external
  BY DEF B!Next, B!Step, B!Start, B!SwitchFirst, B!SwitchToController, B!OmitStep,
     B!BackupBootstrapUser, B!ClusterUpdateJujuController, B!SaveJujuAdminUserLocally,
     B!SaveJujuRemoteUserLocally, B!reload_credentials, B!AddJujuModel, B!AddJujuMachine,
     B!DeployApplication, B!BootstrapJuju, B!MigrateModel, B!WaitForModel,
     B!set_juju_controller_migrated, B!CreateJujuUser, B!GrantSuperuser, B!ClusterAddJujuUser,
     B!JujuGrantModelAccess, B!SaveJujuUserLocally, B!UnregisterController, B!RegisterController,
     B!SetBootstrapped, B!MigrationEnds, B!MigrationAborts, B!Stop
<1>2. BootTypes'
  BY HomeTypesStep, AbroadTypesStep
<1>3. CASE external
  BY <1>1, <1>2, <1>3, AbroadStep DEF BootInv
<1>4. CASE ~external
  BY <1>1, <1>2, <1>4, WorldStep, PositionStep, UsersStep, DoneStep DEF BootInv
<1> QED
  BY <1>3, <1>4

\* What the run checks, from the invariant.
LEMMA BootInvLeaves == BootInv => B!BootstrapLeaves
<1> SUFFICES ASSUME BootInv PROVE B!BootstrapLeaves
  OBVIOUS
<1>1. CASE external
  BY <1>1 DEF BootInv, BootTypes, Abroad, B!BootstrapLeaves, B!CredentialsKept, B!Target
<1>2. CASE ~external
  <2>1. B!CredentialsKept
    BY <1>2 DEF BootInv, Users, B!CredentialsKept
  <2>2. done => models = {"k8s"} /\ machine = "k8s" /\ db = "k8s" /\ current = "k8s"
                /\ apps = B!AllApps /\ migrated /\ login = "node"
    BY <1>2 DEF BootInv, DoneLocal, OnK8s
  <2>3. login = "node" => account = "node" /\ user = "superuser"
    BY <1>2 DEF BootInv, Users
  <2> QED
    BY <1>2, <2>1, <2>2, <2>3 DEF B!BootstrapLeaves, B!Target
<1> QED
  BY <1>1, <1>2

\* Types, from the invariant.
LEMMA BootInvTypes == BootInv => B!TypeOK
<1> SUFFICES ASSUME BootInv PROVE B!TypeOK
  OBVIOUS
<1>1. BootTypes
  BY DEF BootInv
<1>2. models \subseteq {"lxd", "k8s", "ext"} /\ machine \in models \cup {"none"}
  BY DEF BootInv, World, Abroad, Nowhere, OnLxd, Moved, Twice, OnK8s
<1>3. bootPc \in 0..Len(B!Plan)
  BY <1>1, LocalAt, ExternalAt DEF BootTypes
<1>4. apps \subseteq B!AllApps
  BY <1>1, AppsDeployed DEF BootTypes
<1> QED
  BY <1>1, <1>2, <1>3, <1>4 DEF BootTypes, B!TypeOK, B!None

\* A bootstrap that reports success leaves one controller, one machines model, one
\* record of it and the applications in place, and never loses the credentials of
\* an admin, whatever was killed or failed between its steps.
THEOREM BootstrapAlwaysLeaves == PartSpec => []BootstrapLeaves
<1>1. PartInit => BootInv
  BY BootInit DEF PartInit
<1>2. BootInv /\ [PartNext]_<<part, bvars, qvars, svars, vvars, ivars>> => BootInv'
  BY BootStep, BootRests DEF PartNext
<1>3. BootInv => BootstrapLeaves
  BY BootInvLeaves DEF BootstrapLeaves
<1> QED
  BY <1>1, <1>2, <1>3, PTL DEF PartSpec

----------------------------------------------------------------------------
(* The parts together                                                      *)

\* The state of each part has its types: what clusterd, Juju and the charms
\* hold while the commands of that part run, fail and are killed.
THEOREM PartsHaveTheirTypes == PartSpec => []PartTypeOK
<1> DEFINE Inv == /\ part = "boot" => BootInv
                  /\ part = "mysql" => MySQLInv
                  /\ part = "storage" => TypeInv
                  /\ part = "vault" => VaultInv
                  /\ part = "identity" => IdInv
<1>1. PartInit => Inv
  BY BootInit, MySQLInit, TypeInit, VaultInit, IdInit DEF PartInit
<1>2. Inv /\ [PartNext]_<<part, bvars, qvars, svars, vvars, ivars>> => Inv'
  <2> SUFFICES ASSUME Inv, [PartNext]_<<part, bvars, qvars, svars, vvars, ivars>>
               PROVE  Inv'
    OBVIOUS
  <2>1. UNCHANGED part
    BY DEF PartNext
  <2>2. part = "boot" => BootInv'
    BY BootStep, BootRests DEF PartNext
  <2>3. part = "mysql" => MySQLInv'
    BY MySQLStep, MySQLRests DEF PartNext
  <2>4. part = "storage" => TypeInv'
    BY TypeStep DEF PartNext
  <2>5. part = "vault" => VaultInv'
    BY VaultStep, VaultRests DEF PartNext
  <2>6. part = "identity" => IdInv'
    BY IdStep, IdRests DEF PartNext
  <2> QED
    BY <2>1, <2>2, <2>3, <2>4, <2>5, <2>6
<1>3. Inv => PartTypeOK
  BY BootInvTypes, MySQLInvTypes, VaultInvTypes, IdInvTypes DEF TypeInv, PartTypeOK
<1> QED
  BY <1>1, <1>2, <1>3, PTL DEF PartSpec
=============================================================================
