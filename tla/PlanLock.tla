------------------------------ MODULE PlanLock ------------------------------
(***************************************************************************)
(* What clusterd promises to the users of one Terraform plan: the plan has *)
(* one lock, only its owner changes the plan's state, every change extends *)
(* the state that was there, and only the owner gives the lock back.       *)
(* TerraformBackend is shown to implement this specification.              *)
(***************************************************************************)
CONSTANTS Owners, Nobody

VARIABLES
  owner,   \* who holds the lock of the plan, or Nobody
  applied  \* the owners whose apply the stored state contains

vars == <<owner, applied>>

Init == owner = Nobody /\ applied = {}

Acquire(c) == owner = Nobody /\ owner' = c /\ UNCHANGED applied

Commit(c) == owner = c /\ applied' = applied \union {c} /\ UNCHANGED owner

Release(c) == owner = c /\ owner' = Nobody /\ UNCHANGED applied

Next == \E c \in Owners : Acquire(c) \/ Commit(c) \/ Release(c)

Spec == Init /\ [][Next]_vars
=============================================================================
