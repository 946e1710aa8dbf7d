------------------------- MODULE MCTerraformBackend -------------------------
(* A behaviour takes one of two parts:                                     *)
(*   "locked"    clients that may crash compete for the lock of a plan;    *)
(*   "released"  nobody crashes, an operator unlocks in between, and the   *)
(*               clients and handlers are scheduled fairly.                *)
EXTENDS TerraformBackend

CONSTANTS t1, k1, o1

VARIABLES
  part,
  rLock, rTfstate, rReqs, rSent, rPc, rView

L == INSTANCE TerraformBackend
       WITH Operators <- {o1}, Breakable <- {"get"}, Fallible <- {"get", "put"}, Crashable <- {},
            lock <- rLock, tfstate <- rTfstate, reqs <- rReqs,
            sent <- rSent, pc <- rPc, view <- rView

rVars == <<rLock, rTfstate, rReqs, rSent, rPc, rView>>

PartInit == part \in {"locked", "released"} /\ Init /\ L!Init

PartNext ==
  /\ UNCHANGED part
  /\ \/ part = "locked" /\ Next /\ UNCHANGED rVars
     \/ part = "released" /\ L!Next /\ UNCHANGED vars

\* TerraformBackend!Fairness, of the part "released".
PartFairness ==
  /\ \A s \in L!Slots : WF_rVars(part = "released" /\ L!Serve(s))
  /\ \A c \in L!Clients :
       WF_rVars(/\ part = "released"
                /\ L!TerraformStep(c) \/ L!OperatorStep(c) \/ L!LockStep(c))

PartSpec == PartInit /\ [][PartNext]_<<part, vars, rVars>> /\ PartFairness

\* A granted lock is given back (TerraformBackend!LockReleased).
GrantedIsReleased == L!LockReleased
=============================================================================
