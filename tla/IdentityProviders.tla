-------------------------- MODULE IdentityProviders --------------------------
(***************************************************************************)
(* `sunbeam identity provider add`, `remove`, `update`, `purge` and        *)
(* `set-saml-x509`, and the identity steps of bootstrap with a manifest.   *)
(* External providers are entries of the variables of the OpenStack plan,  *)
(* Canonical ones are remote applications that are integrated directly.    *)
(* A step writes the SSO configuration, the stored variables and the       *)
(* variables file of its node one after the other, in an order of its own, *)
(* and may be stopped between any two writes.                              *)
(***************************************************************************)
EXTENDS FiniteSets, Naturals

CONSTANTS
    External, Canonical,   \* providers, by type
    Nodes,                 \* where commands are given
    Profiles,              \* providers of the manifest
    MaxStops,              \* bound: commands that fail or are killed
    MaxCommands            \* bound: commands given

Providers == External \cup Canonical
Versions == 1..2           \* of a provider's configuration, and of the certificate
None == 0
Nobody == "nobody"

VARIABLES
    cfg,        \* SSO configuration, by protocol: cfg[p] is the version of p
    top,        \* providers it holds beside the protocols
    tfvars,     \* stored variables of the plan: providers, and the certificate
    file,       \* file[n]: the variables file of node n
    deployed,   \* what the last apply deployed
    saas,       \* Canonical providers integrated with Keystone
    answers,    \* providers with stored answers
    secret, secretId,   \* the Juju secret with the certificate, and whether it is recorded

    pc, cmd, node, target, version,
    todo,       \* providers that are left to purge
    result,
    want,       \* want[p]: what the last completed command on p asked for
    stopped,    \* providers whose last command did not complete
    stale,      \* a plan was applied with a file other than the stored variables
    stops, given

world == <<cfg, top, tfvars, file, deployed, saas, answers, secret, secretId>>
args == <<cmd, node, target, version>>
session == <<pc, args, todo, result, want, stopped, stops, given>>
ivars == <<world, session, stale>>

NoProviders == [p \in External \cup {"saml"} |-> None]

Init ==
    /\ cfg = [p \in Providers |-> None] /\ top = {} /\ tfvars = NoProviders
    /\ file = [n \in Nodes |-> NoProviders] /\ deployed = NoProviders
    /\ saas = {} /\ answers = {} /\ secret = None /\ secretId = FALSE
    /\ pc = "idle" /\ cmd = "none" /\ node \in Nodes /\ target = Nobody /\ version = 1
    /\ todo = {} /\ result = "none" /\ want = [p \in Providers \cup {"saml"} |-> None]
    /\ stopped = {} /\ stale = FALSE /\ stops = 0 /\ given = 0

----------------------------------------------------------------------------
Give(n, c, p, v, first) ==
    /\ pc = "idle" /\ given < MaxCommands /\ given' = given + 1
    /\ cmd' = c /\ node' = n /\ target' = p /\ version' = v /\ pc' = first /\ result' = "running"
    /\ UNCHANGED <<world, todo, want, stopped, stale, stops>>

Goto(step) == pc' = step /\ UNCHANGED <<args, todo, result, want, stopped, stops, given>>

\* The providers a command is about
Subjects ==
    CASE cmd = "purge" -> Providers
      [] cmd = "bootstrap" -> Profiles
      [] OTHER -> {target}

End(outcome) ==
    /\ pc' = "idle" /\ result' = outcome /\ todo' = {}
    /\ want' = [p \in DOMAIN want |->
                  IF p \notin Subjects \/ outcome # "completed" THEN want[p]
                  ELSE IF cmd \in {"remove", "purge"} THEN None ELSE version]
    /\ stopped' = CASE outcome = "completed" -> IF cmd = "purge" THEN stopped ELSE stopped \ Subjects
                    [] outcome = "failed" -> stopped \cup Subjects
                    [] OTHER -> stopped
    /\ UNCHANGED <<args, stops, given>>

Stopped ==
    /\ pc # "idle" /\ stops < MaxStops /\ stops' = stops + 1
    /\ pc' = "idle" /\ result' = "stopped" /\ todo' = {}
    /\ stopped' = stopped \cup Subjects
    /\ UNCHANGED <<world, args, want, stale, given>>

\* terraform apply takes the variables of the node's file.
apply ==
    /\ deployed' = file[node]
    /\ stale' = (stale \/ file[node] # tfvars)

----------------------------------------------------------------------------
(* add_sso *)

Add(n, p, v) ==
    /\ cfg[p] = None
    /\ Give(n, "add", p, v, IF p \in External THEN "add_ask" ELSE "canonical_ask")

Asked ==
    /\ pc \in {"add_ask", "canonical_ask"}
    /\ Goto(IF pc = "add_ask" THEN "add_apply" ELSE "canonical_cfg")
    /\ answers' = answers \cup {target}
    /\ UNCHANGED <<cfg, top, tfvars, file, deployed, saas, secret, secretId, stale>>

\* The variables with every external provider of the configuration
Merged(new) ==
    [p \in DOMAIN tfvars |-> IF p \in External /\ new[p] # None THEN new[p] ELSE tfvars[p]]

\* A provider beside the protocols is taken for a protocol: KeyError.
AddApply ==
    /\ pc = "add_apply"
    /\ IF top # {}
       THEN End("crashed") /\ UNCHANGED <<file, deployed, stale>>
       ELSE LET vars == Merged([cfg EXCEPT ![target] = version]) IN
            /\ Goto("add_cfg")
            /\ file' = [file EXCEPT ![node] = vars] /\ deployed' = vars
            /\ UNCHANGED stale
    /\ UNCHANGED <<cfg, top, tfvars, saas, answers, secret, secretId>>

AddCfg ==
    /\ pc = "add_cfg" /\ Goto("add_tfvars")
    /\ cfg' = [cfg EXCEPT ![target] = version]
    /\ UNCHANGED <<top, tfvars, file, deployed, saas, answers, secret, secretId, stale>>

\* What the step wrote to its file, which it then waits for
AddTfvars ==
    /\ pc = "add_tfvars" /\ Goto("wait")
    /\ tfvars' = file[node]
    /\ UNCHANGED <<cfg, top, file, deployed, saas, answers, secret, secretId, stale>>

Waited == pc = "wait" /\ End("completed") /\ UNCHANGED <<world, stale>>

\* AddCanonicalProviderStep does not file the provider under its protocol.
CanonicalCfg ==
    /\ pc = "canonical_cfg" /\ Goto("canonical_offers")
    /\ top' = top \cup {target}
    /\ UNCHANGED <<cfg, tfvars, file, deployed, saas, answers, secret, secretId, stale>>

CanonicalOffers ==
    /\ pc = "canonical_offers" /\ End("completed")
    /\ saas' = saas \cup {target}
    /\ UNCHANGED <<cfg, top, tfvars, file, deployed, answers, secret, secretId, stale>>

----------------------------------------------------------------------------
(* remove_sso *)

\* A provider that is not filed under the protocol "does not exist".
RemoveUnknown(n, p) ==
    /\ cfg[p] = None /\ pc = "idle" /\ given < MaxCommands /\ given' = given + 1
    /\ cmd' = "remove" /\ node' = n /\ target' = p /\ result' = "does_not_exist"
    /\ UNCHANGED <<world, pc, version, todo, want, stopped, stale, stops>>

Remove(n, p) ==
    /\ cfg[p] # None
    /\ Give(n, "remove", p, version, IF p \in External THEN "rm_tfvars" ELSE "rm_saas")

RmStoredOnly ==
    /\ pc = "rm_tfvars" /\ Goto("rm_cfg")
    /\ tfvars' = [tfvars EXCEPT ![target] = None]
    /\ UNCHANGED <<cfg, top, file, deployed, saas, answers, secret, secretId, stale>>

\* The file is only written when the variables have the provider.
RmTfvars ==
    /\ pc = "rm_tfvars" /\ Goto("rm_cfg")
    /\ IF tfvars[target] # None
       THEN /\ tfvars' = [tfvars EXCEPT ![target] = None]
            /\ file' = [file EXCEPT ![node] = tfvars']
       ELSE UNCHANGED <<tfvars, file>>
    /\ UNCHANGED <<cfg, top, deployed, saas, answers, secret, secretId, stale>>

RmCfg ==
    /\ pc = "rm_cfg" /\ Goto("rm_apply")
    /\ cfg' = [cfg EXCEPT ![target] = None]
    /\ UNCHANGED <<top, tfvars, file, deployed, saas, answers, secret, secretId, stale>>

RmApply ==
    /\ pc = "rm_apply" /\ apply /\ Goto("rm_gone")
    /\ UNCHANGED <<cfg, top, tfvars, file, saas, answers, secret, secretId>>

\* wait_application_gone, then the answers
RmGone ==
    /\ pc = "rm_gone"
    /\ IF deployed[target] # None THEN End("failed") /\ UNCHANGED answers
       ELSE /\ answers' = answers \ {target}
            /\ IF cmd = "purge" THEN Goto("purge_next") ELSE End("completed")
    /\ UNCHANGED <<cfg, top, tfvars, file, deployed, saas, secret, secretId, stale>>

\* The remote applications are removed first; the entry looked up is then
\* deleted beside the protocols, where only `add` puts it.
RmSaas ==
    /\ pc = "rm_saas" /\ saas' = saas \ {target}
    /\ IF target \in top
       THEN top' = top \ {target} /\ Goto("wait")
       ELSE End("failed") /\ UNCHANGED top
    /\ UNCHANGED <<cfg, tfvars, file, deployed, answers, secret, secretId, stale>>

----------------------------------------------------------------------------
(* purge_sso *)

\* A provider beside the protocols is taken for a protocol: ValueError.
Purge(n) == top = {} /\ Give(n, "purge", Nobody, 1, "purge_list")

PurgeCrashes(n) == top # {} /\ Give(n, "purge", Nobody, 1, "crash")

Crash == pc = "crash" /\ End("crashed") /\ UNCHANGED <<world, stale>>

PurgeList ==
    /\ pc = "purge_list"
    /\ todo' = {p \in External : cfg[p] # None} /\ pc' = "purge_next"
    /\ UNCHANGED <<world, args, result, want, stopped, stale, stops, given>>

PurgeNext ==
    /\ pc = "purge_next" /\ todo # {}
    /\ \E p \in todo : target' = p /\ todo' = todo \ {p}
    /\ pc' = "rm_tfvars"
    /\ UNCHANGED <<world, cmd, node, version, result, want, stopped, stale, stops, given>>

PurgeSaas ==
    /\ pc = "purge_next" /\ todo = {} /\ Goto("purge_cfg")
    /\ saas' = saas \ {p \in Canonical : cfg[p] # None}
    /\ UNCHANGED <<cfg, top, tfvars, file, deployed, answers, secret, secretId, stale>>

PurgeCfg ==
    /\ pc = "purge_cfg" /\ End("completed")
    /\ cfg' = [p \in Providers |-> None] /\ top' = {}
    /\ UNCHANGED <<tfvars, file, deployed, saas, answers, secret, secretId, stale>>

----------------------------------------------------------------------------
(* update_sso *)

Update(n, p, v) ==
    /\ p \in External /\ cfg[p] # None
    /\ Give(n, "update", p, v, "up_cfg")

_update_openid ==
    /\ pc = "up_cfg" /\ Goto("up_tfvars")
    /\ cfg' = [cfg EXCEPT ![target] = version]
    /\ UNCHANGED <<top, tfvars, file, deployed, saas, answers, secret, secretId, stale>>

UpTfvars ==
    /\ pc = "up_tfvars" /\ Goto("apply")
    /\ tfvars' = [tfvars EXCEPT ![target] = version]
    /\ file' = [file EXCEPT ![node] = tfvars']
    /\ UNCHANGED <<cfg, top, deployed, saas, answers, secret, secretId, stale>>

Apply ==
    /\ pc = "apply" /\ apply
    /\ Goto(IF cmd = "bootstrap" THEN "canonical_all" ELSE "wait")
    /\ UNCHANGED <<cfg, top, tfvars, file, saas, answers, secret, secretId>>

----------------------------------------------------------------------------
(* ValidateIdentityManifest and, later in the plan, DeployIdentityProvidersStep *)

Bootstrap(n) == Give(n, "bootstrap", Nobody, 1, "validate")

ValidateIdentityManifest ==
    /\ pc = "validate" /\ Goto("deploy")
    /\ cfg' = [p \in Providers |-> IF p \in Profiles THEN version ELSE cfg[p]]
    /\ UNCHANGED <<top, tfvars, file, deployed, saas, answers, secret, secretId, stale>>

DeployIdentityProviders ==
    /\ pc = "deploy"
    /\ IF top # {} THEN End("failed") /\ UNCHANGED <<tfvars, file>>
       ELSE /\ Goto("apply") /\ tfvars' = Merged(cfg) /\ file' = [file EXCEPT ![node] = tfvars']
    /\ UNCHANGED <<cfg, top, deployed, saas, answers, secret, secretId, stale>>

CanonicalAll ==
    /\ pc = "canonical_all" /\ End("completed")
    /\ saas' = saas \cup {p \in Canonical : cfg[p] # None}
    /\ UNCHANGED <<cfg, top, tfvars, file, deployed, answers, secret, secretId, stale>>

----------------------------------------------------------------------------
(* SetKeystoneSAMLCertAndKeyStep *)

set_saml_x509(n, v) == Give(n, "saml", "saml", v, "saml_secret")

\* A secret whose id was not recorded cannot be added again.
SamlSecret ==
    /\ pc = "saml_secret"
    /\ IF secretId THEN Goto("saml_content") /\ UNCHANGED secret
       ELSE IF secret = None THEN Goto("saml_store") /\ secret' = version
       ELSE End("failed") /\ UNCHANGED secret
    /\ UNCHANGED <<cfg, top, tfvars, file, deployed, saas, answers, secretId, stale>>

SamlStore ==
    /\ pc = "saml_store" /\ Goto("saml_content") /\ secretId' = TRUE
    /\ UNCHANGED <<cfg, top, tfvars, file, deployed, saas, answers, secret, stale>>

SamlContent ==
    /\ pc = "saml_content" /\ Goto("saml_tfvars") /\ secret' = version
    /\ UNCHANGED <<cfg, top, tfvars, file, deployed, saas, answers, secretId, stale>>

SamlTfvars ==
    /\ pc = "saml_tfvars" /\ Goto("apply")
    /\ tfvars' = [tfvars EXCEPT !["saml"] = 1] /\ file' = [file EXCEPT ![node] = tfvars']
    /\ UNCHANGED <<cfg, top, deployed, saas, answers, secret, secretId, stale>>

----------------------------------------------------------------------------
Step ==
    \/ Asked \/ AddApply \/ AddCfg \/ AddTfvars \/ Waited \/ CanonicalCfg \/ CanonicalOffers
    \/ RmTfvars \/ RmCfg \/ RmApply \/ RmGone \/ RmSaas
    \/ Crash \/ PurgeList \/ PurgeNext \/ PurgeSaas \/ PurgeCfg
    \/ _update_openid \/ UpTfvars \/ Apply
    \/ ValidateIdentityManifest \/ DeployIdentityProviders \/ CanonicalAll
    \/ SamlSecret \/ SamlStore \/ SamlContent \/ SamlTfvars

Next ==
    \/ Step \/ Stopped
    \/ \E n \in Nodes :
        \/ Purge(n) \/ PurgeCrashes(n) \/ Bootstrap(n)
        \/ \E p \in Providers : Remove(n, p) \/ RemoveUnknown(n, p)
        \/ \E v \in Versions :
            set_saml_x509(n, v) \/ \E p \in Providers : Add(n, p, v) \/ Update(n, p, v)

Fairness == WF_ivars(Step)

Spec == Init /\ [][Next]_ivars /\ Fairness

----------------------------------------------------------------------------
(* Properties *)

Variables == [External \cup {"saml"} -> {None} \cup Versions]

TypeOK ==
    /\ cfg \in [Providers -> {None} \cup Versions] /\ top \subseteq Canonical
    /\ tfvars \in Variables /\ file \in [Nodes -> Variables] /\ deployed \in Variables
    /\ saas \subseteq Canonical /\ answers \subseteq Providers
    /\ secret \in {None} \cup Versions /\ (secretId => secret # None)
    /\ todo \subseteq External /\ (todo # {} => cmd = "purge" /\ pc # "idle")
    /\ stopped \subseteq Providers \cup {"saml"}

\* An external provider whose last command completed is configured, stored and
\* deployed with the credentials that command gave, or in none of the three
\* places, whatever happened to other providers before and after, unless a
\* plan was applied with an outdated file.
InStep ==
    pc = "idle" /\ ~stale =>
        \A p \in External \ stopped :
            cfg[p] = want[p] /\ tfvars[p] = want[p] /\ deployed[p] = want[p]

\* A command applies the plan with the variables that are stored, unless it is
\* about a provider whose last command did not complete.
FilesCurrent ==
    pc \in {"rm_apply", "apply"} /\ target \notin stopped => file[node] = tfvars

\* After a `set-saml-x509` that completed, Keystone serves the certificate it gave.
SamlCurrent ==
    pc = "idle" /\ ~stale /\ want["saml"] # None /\ "saml" \notin stopped =>
        secret = want["saml"] /\ secretId /\ deployed["saml"] # None

\* Configuration, variables and Keystone agree on every provider and on the SAML
\* certificate, for every sequence of commands of which some were stopped.
ProvidersInStep == InStep /\ FilesCurrent /\ SamlCurrent

\* A command ends, also when it purges providers one after the other.
CommandsEnd == pc # "idle" ~> pc = "idle"

\* remove_sso says "does not exist" only of a provider that does not serve logins.
UnknownIsAbsent ==
    result = "does_not_exist" /\ target \notin stopped =>
        target \notin saas /\ (target \in External => deployed[target] = None)

=============================================================================
