-------------------------- MODULE TerraformBackend --------------------------
(***************************************************************************)
(* The Terraform HTTP backend that clusterd serves for ONE plan (plans use *)
(* distinct config rows, so they do not interact), and the clients that    *)
(* use it: a run of terraform, a run of the step                           *)
(* EnsureCiliumDeviceByHostStep, and an operator's `sunbeam plans unlock`. *)
(*                                                                         *)
(* A client is one invocation: it has one lock (ID, Operation, Who), which *)
(* is therefore identified with the client; a step that is retried later   *)
(* is another client.  Every database access of a handler is a transaction *)
(* of its own, hence an action of its own.  A client whose connection      *)
(* breaks does not know how far its handler got, and the handler goes on   *)
(* or is cancelled.                                                        *)
(***************************************************************************)
EXTENDS Naturals

CONSTANTS
  Terraform,   \* runs of the terraform binary
  Cilium,      \* runs of EnsureCiliumDeviceByHostStep
  Operators,   \* runs of `sunbeam plans unlock`
  Breakable,   \* the kinds of requests whose connection may break
  Fallible,    \* the kinds of requests whose transactions may fail
  Crashable,   \* the clients that may be killed
  MaxReqs,     \* bound: requests a client sends
  NoLock       \* no row tflock-<plan>

Clients == Terraform \union Cilium \union Operators

ASSUME ClientsAssumption ==
  /\ NoLock \notin Clients
  /\ Terraform \intersect Cilium = {}
  /\ Terraform \intersect Operators = {}
  /\ Cilium \intersect Operators = {}

ASSUME BoundAssumption == MaxReqs \in Nat

VARIABLES
  lock,     \* the row tflock-<plan>: the client whose lock it is, or NoLock
  tfstate,  \* the row tfstate-<plan>: the runs whose apply it contains
  reqs,     \* the request each client sent as its k-th, and its handler
  sent,     \* how many requests a client has sent
  pc,       \* where a client is
  view      \* what a client read: the state it works on, or the lock it saw

vars == <<lock, tfstate, reqs, sent, pc, view>>

-----------------------------------------------------------------------------
Ops == {"none", "lock", "get", "put", "unlock", "lockget"}

\* A handler runs its transactions from "recv" on, and ends in an answer.
Running == {"recv", "create", "reread", "write", "delete"}
Answers == {"200", "404", "409", "423", "500"}

Slots == Clients \X (1..MaxReqs)

Requests == [op   : Ops,
             arg  : Clients \union {NoLock},
             data : SUBSET Clients,
             st   : {"none"} \union Running \union Answers]

NoRequest == [op |-> "none", arg |-> NoLock, data |-> {}, st |-> "none"]

PCs == {"start", "locking", "locked", "reading", "applying", "writing",
        "written", "unlocking", "lockgetting", "found",
        "done", "failed", "crashed"}

Finished == {"done", "failed", "crashed"}

\* The client waits for the answer to its last request.
Waiting == {"locking", "reading", "writing", "unlocking", "lockgetting"}

\* The client believes that the lock of the plan is its own.
Holding == {"locked", "reading", "applying", "writing", "written"}

TypeOK ==
  /\ lock \in Clients \union {NoLock}
  /\ tfstate \in SUBSET Clients
  /\ reqs \in [Slots -> Requests]
  /\ sent \in [Clients -> 0..MaxReqs]
  /\ pc \in [Clients -> PCs]
  /\ view \in [Clients -> [st : SUBSET Clients, lk : Clients \union {NoLock}]]

Init ==
  /\ lock = NoLock
  /\ tfstate = {}
  /\ reqs = [s \in Slots |-> NoRequest]
  /\ sent = [c \in Clients |-> 0]
  /\ pc = [c \in Clients |-> "start"]
  /\ view = [c \in Clients |-> [st |-> {}, lk |-> NoLock]]

-----------------------------------------------------------------------------
(* clusterd: one action per transaction of a handler.                      *)

\* The client of slot s no longer waits for the answer.
Abandoned(s) == s[2] # sent[s[1]] \/ pc[s[1]] \notin Waiting

\* The handler of slot s goes on to st; an answer nobody waits for is lost.
Reply(s, arg, data, st) ==
  reqs' = [reqs EXCEPT ![s] =
             IF st \in Answers /\ Abandoned(s) THEN NoRequest
             ELSE [op |-> reqs[s].op, arg |-> arg, data |-> data, st |-> st]]

Goto(s, st) == Reply(s, reqs[s].arg, reqs[s].data, st)

At(s, op, st) == reqs[s].op = op /\ reqs[s].st = st

\* Mutant of LockAnswer: the lock found is not compared with the request.
LockAnswerLocked(s) == "423"

\* The answer to a lock request that finds the lock of some client.
LockAnswer(s) == IF lock = reqs[s].arg THEN "423" ELSE "409"

\* updateTerraformLock, the first getLock.
LockGet(s) ==
  /\ At(s, "lock", "recv")
  /\ Goto(s, IF lock = NoLock THEN "create" ELSE LockAnswer(s))
  /\ UNCHANGED <<lock, tfstate>>

\* Mutant of LockCreate: the row is written without checking for the key.
LockCreateOverwrites(s) ==
  /\ At(s, "lock", "create")
  /\ lock' = reqs[s].arg
  /\ Goto(s, "200")
  /\ UNCHANGED tfstate

\* updateTerraformLock, createLock: CreateConfigItem refuses an existing key.
LockCreate(s) ==
  /\ At(s, "lock", "create")
  /\ \/ /\ lock = NoLock
        /\ lock' = reqs[s].arg
        /\ Goto(s, "200")
     \/ /\ lock # NoLock
        /\ Goto(s, "reread")
        /\ UNCHANGED lock
  /\ UNCHANGED tfstate

\* updateTerraformLock, the getLock after a conflict.
LockReread(s) ==
  /\ At(s, "lock", "reread")
  /\ Goto(s, IF lock = NoLock THEN "500" ELSE LockAnswer(s))
  /\ UNCHANGED <<lock, tfstate>>

\* UpdateTerraformState, GetConfig of the lock and the comparison of the ID.
StateCheck(s) ==
  /\ At(s, "put", "recv")
  /\ Goto(s, IF lock = NoLock THEN "500"
             ELSE IF lock = reqs[s].arg THEN "write" ELSE "409")
  /\ UNCHANGED <<lock, tfstate>>

\* UpdateTerraformState, UpdateConfig of the state.
StateWrite(s) ==
  /\ At(s, "put", "write")
  /\ tfstate' = reqs[s].data
  /\ Goto(s, "200")
  /\ UNCHANGED lock

\* DeleteTerraformLock, GetConfig and the comparison with the request.
UnlockCheck(s) ==
  /\ At(s, "unlock", "recv")
  /\ Goto(s, IF lock = NoLock THEN "200"
             ELSE IF lock = reqs[s].arg THEN "delete" ELSE "409")
  /\ UNCHANGED <<lock, tfstate>>

\* Mutant of UnlockDelete: the row is emptied instead of deleted.
UnlockDeleteEmpties(s) ==
  /\ At(s, "unlock", "delete")
  /\ Goto(s, "200")
  /\ lock' = ""
  /\ UNCHANGED tfstate

\* DeleteTerraformLock, DeleteConfig: by key, whatever the row holds now.
UnlockDelete(s) ==
  /\ At(s, "unlock", "delete")
  /\ Goto(s, IF lock = NoLock THEN "500" ELSE "200")
  /\ lock' = NoLock
  /\ UNCHANGED tfstate

\* GetTerraformState: a missing row is answered 404, an empty state to
\* terraform.
StateGet(s) ==
  /\ At(s, "get", "recv")
  /\ Reply(s, reqs[s].arg, tfstate, "200")
  /\ UNCHANGED <<lock, tfstate>>

\* GetTerraformLock.
LockShow(s) ==
  /\ At(s, "lockget", "recv")
  /\ Reply(s, lock, {}, IF lock = NoLock THEN "404" ELSE "200")
  /\ UNCHANGED <<lock, tfstate>>

\* The transaction fails (no leader, database timeout) and has no effect.
HandlerError(s) ==
  /\ reqs[s].st \in Running
  /\ reqs[s].op \in Fallible
  /\ Goto(s, "500")
  /\ UNCHANGED <<lock, tfstate>>

\* The context of a request whose client went away is cancelled.
HandlerCancelled(s) ==
  /\ reqs[s].st \in Running
  /\ Abandoned(s)
  /\ reqs' = [reqs EXCEPT ![s] = NoRequest]
  /\ UNCHANGED <<lock, tfstate>>

Serve(s) ==
  /\ \/ LockGet(s) \/ LockCreate(s) \/ LockReread(s)
     \/ StateCheck(s) \/ StateWrite(s) \/ StateGet(s)
     \/ UnlockCheck(s) \/ UnlockDelete(s) \/ LockShow(s)
  /\ UNCHANGED <<sent, pc, view>>

HandlerFails(s) ==
  /\ HandlerError(s) \/ HandlerCancelled(s)
  /\ UNCHANGED <<sent, pc, view>>

-----------------------------------------------------------------------------
(* The clients.                                                            *)

\* Client c sends its next request and waits at `to`.
Send(c, op, arg, data, to) ==
  /\ sent[c] < MaxReqs
  /\ sent' = [sent EXCEPT ![c] = @ + 1]
  /\ reqs' = [reqs EXCEPT ![<<c, sent[c] + 1>>] =
                [op |-> op, arg |-> arg, data |-> data, st |-> "recv"]]
  /\ pc' = [pc EXCEPT ![c] = to]
  /\ UNCHANGED <<lock, tfstate>>

Current(c) == reqs[<<c, sent[c]>>]

\* Bound: a request is repeated only while c can still send the ones that
\* follow it in a run of terraform.
Following == [lock |-> 3, get |-> 2, put |-> 1, unlock |-> 0]

MayRepeat(c, op) == sent[c] + Following[op] < MaxReqs

\* Client c gets one of the answers to its last request and goes on to `to`.
Receive(c, at, answers, to) ==
  /\ pc[c] = at
  /\ Current(c).st \in answers
  /\ pc' = [pc EXCEPT ![c] = to]
  /\ reqs' = [reqs EXCEPT ![<<c, sent[c]>>] = NoRequest]
  /\ UNCHANGED <<lock, tfstate, sent>>

\* lock_method PUT of terraform, and _acquire_reconciliation_lock.
RequestLock(c) ==
  /\ c \in Terraform \union Cilium
  /\ pc[c] = "start"
  /\ Send(c, "lock", c, {}, "locking")
  /\ UNCHANGED view

\* terraform takes both 409 and 423 for a locked state;
\* lock_terraform_plan takes 423 for success.
LockGranted(c) ==
  /\ Receive(c, "locking", IF c \in Cilium THEN {"200", "423"} ELSE {"200"},
             "locked")
  /\ UNCHANGED view

LockRefused(c) ==
  /\ Receive(c, "locking", IF c \in Cilium THEN {"409", "500"}
                           ELSE {"409", "423", "500"}, "failed")
  /\ UNCHANGED view

\* tenacity retries _acquire_reconciliation_lock while the plan is locked.
RetryLock(c) ==
  /\ c \in Cilium
  /\ pc[c] = "locking"
  /\ Current(c).st = "409"
  /\ MayRepeat(c, "lock")
  /\ Send(c, "lock", c, {}, "locking")
  /\ UNCHANGED view

\* terraform reads the state, then plans and applies on what it read.
ReadState(c) ==
  /\ c \in Terraform
  /\ pc[c] = "locked"
  /\ Send(c, "get", c, {}, "reading")
  /\ UNCHANGED view

StateRead(c) ==
  /\ Receive(c, "reading", {"200"}, "applying")
  /\ view' = [view EXCEPT ![c].st = Current(c).data]

ReadFailed(c) ==
  /\ Receive(c, "reading", {"500"}, "written")
  /\ UNCHANGED view

WriteState(c) ==
  /\ pc[c] = "applying"
  /\ Send(c, "put", c, view[c].st \union {c}, "writing")
  /\ UNCHANGED view

\* Saved or not, terraform goes on to release the lock.
StateWritten(c) ==
  /\ Receive(c, "writing", {"200", "409", "500"}, "written")
  /\ UNCHANGED view

\* The unlock of terraform, and the `finally` of the Cilium step.
RequestUnlock(c) ==
  /\ pc[c] = "written" \/ (c \in Cilium /\ pc[c] = "locked")
  /\ Send(c, "unlock", c, {}, "unlocking")
  /\ UNCHANGED view

Unlocked(c) ==
  /\ Receive(c, "unlocking", {"200"}, "done")
  /\ UNCHANGED view

UnlockFailed(c) ==
  /\ Receive(c, "unlocking", {"409", "500"}, "failed")
  /\ UNCHANGED view

\* `sunbeam plans unlock`: fetch the lock, then unlock with what was fetched.
ShowLock(c) ==
  /\ c \in Operators
  /\ pc[c] = "start"
  /\ Send(c, "lockget", NoLock, {}, "lockgetting")
  /\ UNCHANGED view

LockShown(c) ==
  /\ Receive(c, "lockgetting", {"200"}, "found")
  /\ view' = [view EXCEPT ![c].lk = Current(c).arg]

NoLockShown(c) ==
  /\ Receive(c, "lockgetting", {"404", "500"}, "failed")
  /\ UNCHANGED view

ForceUnlock(c) ==
  /\ c \in Operators
  /\ pc[c] = "found"
  /\ Send(c, "unlock", view[c].lk, {}, "unlocking")
  /\ UNCHANGED view

\* The connection of c's request breaks (ClusterServiceUnavailableException)
\* and the request is sent again: by terraform's HTTP client, which also does
\* so after a 500, and by the Cilium step if it is the lock request.
Resend(c) ==
  /\ pc[c] \in Waiting
  /\ \/ /\ Current(c).op \in Breakable
        /\ c \in Terraform \/ (c \in Cilium /\ pc[c] = "locking")
     \/ c \in Terraform /\ Current(c).st = "500"
  /\ MayRepeat(c, Current(c).op)
  /\ LET r == Current(c) IN Send(c, r.op, c, r.data, pc[c])
  /\ UNCHANGED view

\* Mutant of GiveUp: an error after the lock was granted ends the client.
GiveUpHolding(c) ==
  /\ pc[c] \in Waiting
  /\ Current(c).op \in Breakable
  /\ pc' = [pc EXCEPT ![c] = "failed"]
  /\ UNCHANGED <<lock, tfstate, reqs, sent, view>>

\* The connection breaks and the client gives the request up: before the
\* lock it fails, with the lock it goes on to release it.
GiveUp(c) ==
  /\ pc[c] \in Waiting
  /\ Current(c).op \in Breakable
  /\ pc' = [pc EXCEPT ![c] = IF pc[c] \in {"reading", "writing"}
                             THEN "written" ELSE "failed"]
  /\ UNCHANGED <<lock, tfstate, reqs, sent, view>>

Crash(c) ==
  /\ c \in Crashable
  /\ pc[c] \notin Finished \union {"start"}
  /\ pc' = [pc EXCEPT ![c] = "crashed"]
  /\ UNCHANGED <<lock, tfstate, reqs, sent, view>>

TerraformStep(c) ==
  \/ ReadState(c) \/ StateRead(c) \/ ReadFailed(c)
  \/ WriteState(c) \/ StateWritten(c)

OperatorStep(c) ==
  \/ ShowLock(c) \/ LockShown(c) \/ NoLockShown(c) \/ ForceUnlock(c)

LockStep(c) ==
  \/ RequestLock(c) \/ LockGranted(c) \/ LockRefused(c) \/ RetryLock(c)
  \/ RequestUnlock(c) \/ Unlocked(c) \/ UnlockFailed(c)

Fault(c) == Resend(c) \/ GiveUp(c) \/ Crash(c)

Next ==
  \/ \E s \in Slots : Serve(s) \/ HandlerFails(s)
  \/ \E c \in Clients :
       TerraformStep(c) \/ OperatorStep(c) \/ LockStep(c) \/ Fault(c)

Spec == Init /\ [][Next]_vars

-----------------------------------------------------------------------------
(* What the lock is for.                                                   *)

\* No two clients are between "lock granted" and "unlock requested" for the
\* plan at once (updateTerraformLock, DeleteTerraformLock).  Holds when no
\* operator unlocks and no unlock request is sent twice over two connections.
MutualExclusion ==
  \A c, d \in Clients : pc[c] \in Holding /\ pc[d] \in Holding => c = d

\* The lock row of the plan and the state row only change the way an atomic
\* lock with an owner would change them (PlanLock), although every handler is
\* several transactions: no handler deletes a lock that is not its client's,
\* and no PUT of a state overwrites the apply of another run.
Abstract == INSTANCE PlanLock
              WITH Owners <- Clients, Nobody <- NoLock,
                   owner <- lock, applied <- tfstate

ImplementsPlanLock == Abstract!Spec

\* The clients' own steps and the handlers are scheduled; faults are not.
Fairness ==
  /\ \A s \in Slots : WF_vars(Serve(s))
  /\ \A c \in Clients :
       WF_vars(TerraformStep(c) \/ OperatorStep(c) \/ LockStep(c))

FairSpec == Spec /\ Fairness

\* Nobody keeps a plan locked for ever: once granted, a lock is given back,
\* whatever happened to the state requests in between.
LockReleased == \A c \in Clients : (lock = c) ~> (lock = NoLock)

=============================================================================
