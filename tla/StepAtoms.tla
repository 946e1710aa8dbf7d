----------------------------- MODULE StepAtoms -----------------------------
(***************************************************************************)
(* Steps as data.  A step class of the code is a sequence of atoms, a plan *)
(* given to run_plan is a concatenation of steps, and the modules of the   *)
(* commands execute them one atom at a time, so that a command may fail or *)
(* be killed between any two of them.                                      *)
(*                                                                         *)
(* A thing is a pair: <<plan, name>> is a variable of a Terraform plan in  *)
(* clusterd and, once the plan is applied, what the variable deploys;      *)
(* other first components stand for what lives outside Terraform: "db" for *)
(* a row of clusterd, "juju", "k8s", "keystone" and so on.                 *)
(* A step may fail at any atom, so waits that only cost time, drift checks *)
(* and validations that change nothing are fail points of the interpreter. *)
(***************************************************************************)
EXTENDS Naturals, Sequences

----------------------------------------------------------------------------
(* Atoms *)

Of(plan, names) == {plan} \X names

\* The step fails unless (if) these things are there.
Need(S) == <<[op |-> "need", things |-> S]>>
Lack(S) == <<[op |-> "lack", things |-> S]>>

Make(S) == <<[op |-> "make", things |-> S]>>
Drop(S) == <<[op |-> "drop", things |-> S]>>

\* TerraformHelper.update_tfvars: overrides are merged into the stored row.
Store(plan, on, off) == <<[op |-> "store", on |-> Of(plan, on), off |-> Of(plan, off)]>>

\* delete_config, or update_config with a row that enables nothing
Forget(plan) == <<[op |-> "forget", plan |-> plan]>>

\* TerraformHelper.apply and destroy
Apply(plan) == <<[op |-> "apply", plan |-> plan]>>
Destroy(plan) == <<[op |-> "destroy", plan |-> plan]>>

\* An apply of variables that are not kept in clusterd (tfvar_config=None)
ApplyOnly(plan, names) == <<[op |-> "only", plan |-> plan, things |-> Of(plan, names)]>>

\* is_skip: the steps run if thing x is (is not) among the stored variables,
\* or among the things that exist.
IfStored(x, is, steps) == <<[op |-> "stored", x |-> x, is |-> is, steps |-> steps]>>
IfThere(x, is, steps) == <<[op |-> "there", x |-> x, is |-> is, steps |-> steps]>>

\* wait_until_desired_status and wait_application_gone
Await(plan, names) == Need(Of(plan, names))
AwaitGone(plan, names) == Lack(Of(plan, names))

\* update_tfvars_and_apply_tf
StoreAndApply(plan, on, off) == Store(plan, on, off) \o Apply(plan)

----------------------------------------------------------------------------
(* The interpreter: what atom a makes of the stored variables and of what  *)
(* exists.  Goes(a) says whether the step goes on, Inserted(a) the steps   *)
(* a condition adds to the rest of the plan.                               *)

Goes(a, live) ==
    CASE a.op = "need" -> a.things \subseteq live
      [] a.op = "lack" -> a.things \cap live = {}
      [] OTHER -> TRUE

StoredReplaced(a, vars) ==
    CASE a.op = "store" -> {x \in vars : \A y \in a.on \cup a.off : x[1] # y[1]} \cup a.on
      [] a.op = "forget" -> {x \in vars : x[1] # a.plan}
      [] OTHER -> vars

Stored(a, vars) ==
    CASE a.op = "store" -> (vars \ a.off) \cup a.on
      [] a.op = "forget" -> {x \in vars : x[1] # a.plan}
      [] OTHER -> vars

\* The things of plan p are replaced as a whole.
Replaced(live, p, things) == {x \in live : x[1] # p} \cup things

Lives(a, vars, live) ==
    CASE a.op = "make" -> live \cup a.things
      [] a.op = "drop" -> live \ a.things
      [] a.op = "apply" -> Replaced(live, a.plan, {x \in vars : x[1] = a.plan})
      [] a.op = "destroy" -> Replaced(live, a.plan, {})
      [] a.op = "only" -> Replaced(live, a.plan, a.things)
      [] OTHER -> live

Inserted(a, vars, live) ==
    CASE a.op = "stored" -> IF (a.x \in vars) = a.is THEN a.steps ELSE <<>>
      [] a.op = "there" -> IF (a.x \in live) = a.is THEN a.steps ELSE <<>>
      [] OTHER -> <<>>

=============================================================================
