-------------------------- MODULE FeatureLifecycle --------------------------
(***************************************************************************)
(* `sunbeam enable` and `sunbeam disable`, the configuration of Amphora,   *)
(* the hooks of an upgrade and the removal of all features when a cluster  *)
(* is destroyed: one command at a time, each of which may fail or be       *)
(* killed before any of its atoms and be given again.                      *)
(***************************************************************************)
EXTENDS FeatureCatalogue, FiniteSets, SequencesExt

CONSTANTS
    Menus,      \* the sets of features a behaviour may use
    MaxAborts   \* how many commands are killed or fail for an outside reason

VARIABLES
    menu,    \* the features of this behaviour
    flag,    \* flag[f]: the row of f says "enabled": "true"
    vars,    \* the variables the rows of the plans turn on
    live,    \* what exists: deployed by the plans, or made by steps
    todo,    \* the atoms and calls the running command has left
    cmd,     \* the running command, "none" between commands
    dirty,   \* features whose last command did not reach its end ("amphora": configure)
    aborts

lvars == <<menu, flag, vars, live, todo, cmd, dirty, aborts>>

Features ==
    {"orchestration", "resource-optimization", "images-sync", "validation", "vault", "ldap",
     "secrets", "telemetry", "dns", "pro", "shared-filesystem", "instance-recovery", "caas",
     "loadbalancer", "baremetal", "maintenance"} \cup TlsProviders \cup ObservabilityProviders

----------------------------------------------------------------------------
(* Requirements *)

\* `requires` of the feature classes, and LoadbalancerFeature.get_requirements,
\* which asks for secrets only while the stored answer turns Amphora on.
get_requirements(f) ==
    CASE f \in {"resource-optimization"} \cup ObservabilityProviders -> {"telemetry"}
      [] f = "maintenance" -> {"resource-optimization"}
      [] f \in {"secrets", "tls.vault"} -> {"vault"}
      [] f = "caas" -> {"secrets", "loadbalancer"}
      [] f = "loadbalancer" /\ AmphoraRow \in live -> {"secrets"}
      [] OTHER -> {}

\* check_feature_is_automatically_enableable: the configuration of these
\* has fields without default.
IsAutomatic(f) == f \notin {"dns", "pro", "tls.ca", "tls.vault"}

RequirersAny(f) == {g \in menu : f \in get_requirements(g)}

\* check_enablement_requirements(state="disable"): enabled features that
\* require f.
Requirers(f) == {g \in menu : flag[g] /\ f \in get_requirements(g)}

----------------------------------------------------------------------------
(* Calls: instructions that stand for methods of EnableDisableFeature *)

Call(name, f) == <<[op |-> name, f |-> f]>>

RunEnablePlans(f) ==
    CASE f = "orchestration" -> EnableOpenStackApplicationStep(OrchestrationApps)
      [] f = "resource-optimization" -> EnableOpenStackApplicationStep(OptimizationApps)
      [] f = "images-sync" -> EnableOpenStackApplicationStep(ImagesSyncApps)
      [] f = "validation" -> EnableOpenStackApplicationStep(ValidationApps)
      [] f = "vault" -> EnableOpenStackApplicationStep(VaultApps)
      [] f = "ldap" -> EnableOpenStackApplicationStep(LDAPApps)
      [] f = "secrets" -> SecretsEnable
      [] f = "telemetry" -> TelemetryEnable
      [] f = "dns" -> DnsEnable
      [] f = "pro" -> EnableUbuntuProApplicationStep
      [] f = "shared-filesystem" -> SharedFilesystemEnable
      [] f = "instance-recovery" -> InstanceRecoveryEnable
      [] f = "caas" -> CaasEnable
      [] f = "loadbalancer" -> EnableOpenStackApplicationStep(LoadbalancerApps)
      [] f = "baremetal" -> BaremetalEnable
      [] f \in TlsProviders -> TlsEnable(f)
      [] f = "observability.embedded" -> EmbeddedEnable
      [] f = "observability.external" -> ExternalEnable(TRUE)
      [] f = "maintenance" -> <<>>

RunDisablePlans(f) ==
    CASE f = "orchestration" -> DisableOpenStackApplicationStep(OrchestrationApps)
      [] f = "resource-optimization" -> DisableOpenStackApplicationStep(OptimizationApps)
      [] f = "images-sync" -> DisableOpenStackApplicationStep(ImagesSyncApps)
      [] f = "validation" -> DisableOpenStackApplicationStep(ValidationApps)
      [] f = "vault" -> DisableOpenStackApplicationStep(VaultApps)
      [] f = "ldap" -> DisableOpenStackApplicationStep(LDAPApps)
      [] f = "secrets" -> SecretsDisable
      [] f = "telemetry" -> TelemetryDisable
      [] f = "dns" -> DisableOpenStackApplicationStep(DnsApps)
      [] f = "pro" -> DisableUbuntuProApplicationStep
      [] f = "shared-filesystem" -> SharedFilesystemDisable
      [] f = "instance-recovery" -> InstanceRecoveryDisable
      [] f = "caas" -> CaasDisable
      [] f = "loadbalancer" -> LoadbalancerDisable
      [] f = "baremetal" -> BaremetalDisable
      [] f \in TlsProviders -> TlsDisable(f)
      [] f = "observability.embedded" -> EmbeddedDisable
      [] f = "observability.external" -> ExternalDisable
      [] f = "maintenance" -> <<>>

\* What pre_enable checks besides the requirements: before them ...
PreChecks(f) == IF f \in ObservabilityProviders THEN ObservabilityCheck(f) ELSE <<>>

\* ... and after them.
PreEnableChecks(f) ==
    CASE f = "secrets" -> is_vault_application_active
      [] f = "tls.vault" -> TlsCheck(f) \o is_vault_application_active
      [] f \in {"tls.ca", "tls.self-signed"} -> TlsCheck(f)
      [] OTHER -> <<>>
PreDisableChecks(f) ==
    CASE f \in TlsProviders -> TlsCheck(f)
      [] f \in ObservabilityProviders -> ObservabilityCheck(f)
      [] OTHER -> <<>>
PostEnable(f) ==
    CASE f \in {"tls.ca", "tls.vault"} -> TlsPostEnable(f)
      [] f = "tls.self-signed" -> SelfSignedPostEnable
      [] f \in ObservabilityProviders -> ObservabilityPostEnable(f)
      [] OTHER -> <<>>
PostDisable(f) ==
    CASE f \in {"tls.ca", "tls.vault"} -> TlsPostDisable(f)
      [] f = "tls.self-signed" -> SelfSignedPostDisable
      [] f \in ObservabilityProviders -> ObservabilityPostDisable
      [] f = "loadbalancer" -> LoadbalancerPostDisable
      [] OTHER -> <<>>

\* enable_feature: the flag is the last thing written.
EnableFeature(f) ==
       PreChecks(f)
    \o Call("requirements", f) \o PreEnableChecks(f)
    \o Call("begin", f) \o RunEnablePlans(f) \o PostEnable(f)
    \o Call("enabled", f)

\* disable_feature after its check of the requirers
DisableFeature(f) ==
       PreDisableChecks(f)
    \o Call("begin", f) \o RunDisablePlans(f) \o PostDisable(f)
    \o Call("disabled", f)

\* upgrade_hook of the features that have one of their own
HasHook(f) == f \in {"dns"} \cup ObservabilityProviders
UpgradeHook(f) ==
    CASE f = "dns" -> DnsUpgrade
      [] f = "observability.embedded" -> EmbeddedEnable
      [] f = "observability.external" -> ExternalEnable(FALSE)
      [] OTHER -> <<>>

\* A requirement is met by its flag; the versions are compatible in one
\* snap (check_enabled_requirement_is_compatible).
Requirement(f) == flag[f]

\* One call for each feature of a set, in any order
CallsOf(name, features) ==
    {[i \in DOMAIN q |-> [op |-> name, f |-> q[i]]] : q \in SetToSeqs(features)}

EnableRequirements(f) == CallsOf("require", get_requirements(f))

----------------------------------------------------------------------------
(* What an applied plan brings with it, and what goes with an application *)

Brings(L) ==
    LET with == [x \in {<<"hypervisor", "barbican-offer">>, <<"hypervisor", "ceilometer-offer">>,
                        <<"hypervisor", "masakari-offer">>, <<"openstack", "cos_offers">>,
                        <<"agent", "cos_offers">>, <<"agent-infra", "cos_offers">>,
                        <<"cni", "multus">>} |->
                 CASE x[2] = "barbican-offer" -> <<"saas", "barbican">>
                   [] x[2] = "ceilometer-offer" -> <<"saas", "ceilometer">>
                   [] x[2] = "masakari-offer" -> <<"saas", "masakari">>
                   [] x[1] = "openstack" -> <<"saas", "cos_openstack">>
                   [] x[1] = "agent" -> <<"saas", "cos_machines">>
                   [] x[1] = "agent-infra" -> <<"saas", "cos_infra">>
                   [] x[1] = "cni" -> <<"k8s", "multus_conf">>]
    IN  {with[x] : x \in L \cap DOMAIN with}

Host(x) ==
    CASE x = VaultActive -> <<"openstack", "vault">>
      [] x \in Of("k8s", {"bind_ip", "bind_pool"}) -> <<"openstack", "bind">>
      [] x \in Of("k8s", {"consul-storage_ip", "consul-storage_pool"}) ->
             <<"openstack", "consul-storage">>
      [] x \in Of("k8s", {"cos_ip", "cos_pool"}) \cup Of("juju", {"cos_grants"}) -> <<"cos", "cos">>
      [] x = <<"juju", "remote_cos_relations">> -> <<"openstack", "collector">>
      [] x = <<"juju", "temp_url_secret">> -> <<"openstack", "ironic">>
      [] x = <<"k8s", "caaph_proxy">> -> <<"k8s", "cluster_api">>
      [] OTHER -> x

Settled(L) == {x \in L : Host(x) \in L}

----------------------------------------------------------------------------
Init ==
    /\ menu \in Menus
    /\ flag = [f \in Features |-> FALSE]
    /\ vars = {} /\ live = {}
    /\ todo = <<>> /\ cmd = "none" /\ dirty = {} /\ aborts = 0

Start(name, calls) ==
    /\ cmd = "none"
    /\ cmd' = name /\ todo' = calls
    /\ UNCHANGED <<menu, flag, vars, live, dirty, aborts>>

\* enable_cmd; a feature that is enabled may be enabled again.
Enable(f) == Start("enable", EnableFeature(f))

\* disable_cmd, for a feature that is enabled or not; refused with
\* HasRequirersFeaturesError before anything is changed.
Disable(f) == Requirers(f) = {} /\ Start("disable", DisableFeature(f))

\* `loadbalancer configure`, which needs the secrets feature; the answer
\* stored before is read before the new one.
Configure(on) ==
    /\ {"loadbalancer", "secrets"} \subseteq menu
    /\ flag["loadbalancer"] /\ flag["secrets"]
    /\ Start(IF on THEN "amphora_on" ELSE "amphora_off",
             IF on \/ AmphoraRow \in live
             THEN Call("begin", "amphora") \o LoadbalancerConfigure(on, AmphoraRow \in live)
                  \o Call("end", "amphora")
             ELSE LoadbalancerConfigure(on, FALSE))

\* vault init, unseal and authorize-charm, each of them a command of its own
AuthorizeVault ==
    /\ <<"openstack", "vault">> \in live
    /\ Start("authorize", Make({VaultActive}))

\* FeatureManager.update_features: the hook of every enabled feature
UpdateFeatures ==
    LET enabled == {f \in menu : flag[f]}
    IN  /\ enabled # {}
        /\ \E calls \in CallsOf("hook", {f \in enabled : HasHook(f)}) : Start("upgrade", calls)

\* FeatureManager.update_proxy_model_configs
UpdateProxyModelConfigs ==
    /\ "observability.embedded" \in menu /\ flag["observability.embedded"]
    /\ Start("proxy", UpdateObservabilityModelConfigStep)

\* DisableEnabledFeatures: a queue of what is enabled, in the order in
\* which the features were registered (any)
DisableEnabledFeatures ==
    LET enabled == {f \in menu : flag[f]}
    IN  /\ enabled # {}
        /\ \E calls \in CallsOf("drain", enabled) : Start("disable_all", calls)

----------------------------------------------------------------------------
(* The atoms of the running command *)

Rest == Tail(todo)
Now == Head(todo)

StopKeeping == todo' = todo /\ cmd' = "none"

Stop == todo' = <<>> /\ cmd' = "none"

Changed(newVars, newLive) ==
    /\ vars' = newVars /\ live' = newLive /\ todo' = Rest
    /\ UNCHANGED <<cmd, flag, dirty>>

Expanded(calls) ==
    /\ todo' = calls \o Rest
    /\ UNCHANGED <<cmd, flag, vars, live, dirty>>

Refused == Stop /\ UNCHANGED <<flag, vars, live, dirty>>

\* The call of enable_feature or disable_feature ended: the flag is written
\* by update_feature_info.
Flagged(f, value) ==
    /\ flag' = [flag EXCEPT ![f] = value]
    /\ dirty' = dirty \ {f}
    /\ todo' = Rest
    /\ UNCHANGED <<cmd, vars, live>>

Execute ==
    /\ todo # <<>>
    /\ UNCHANGED <<menu, aborts>>
    /\ CASE Now.op \in {"need", "lack"} /\ ~ Goes(Now, live) -> Refused
         [] Now.op \in {"stored", "there"} -> Expanded(Inserted(Now, vars, live))
         [] Now.op = "requirements" -> \E calls \in EnableRequirements(Now.f) : Expanded(calls)
         [] Now.op = "hook" -> Expanded(UpgradeHook(Now.f))
         [] Now.op = "require" ->
                CASE Requirement(Now.f) -> Expanded(<<>>)
                  [] ~ Requirement(Now.f) /\ ~ IsAutomatic(Now.f) -> Refused
                  [] OTHER -> Expanded(EnableFeature(Now.f))
         [] Now.op = "begin" ->
                /\ dirty' = dirty \cup {Now.f} /\ todo' = Rest
                /\ UNCHANGED <<cmd, flag, vars, live>>
         [] Now.op = "end" ->
                /\ dirty' = dirty \ {Now.f} /\ todo' = Rest
                /\ UNCHANGED <<cmd, flag, vars, live>>
         [] Now.op = "enabled" -> Flagged(Now.f, TRUE)
         [] Now.op = "disabled" -> Flagged(Now.f, FALSE)
         \* a feature with requirers goes back to the end of the queue
         [] Now.op = "drain" ->
                IF Requirers(Now.f) # {}
                THEN todo' = Append(Rest, Now) /\ UNCHANGED <<cmd, flag, vars, live, dirty>>
                ELSE Expanded(DisableFeature(Now.f))
         [] OTHER ->
                LET L == Lives(Now, vars, live)
                    applied == IF Now.op = "apply" THEN {x \in L : x[1] = Now.plan} ELSE {}
                IN  Changed(Stored(Now, vars), Settled(L \cup Brings(applied)))

\* The command reached its end.
Finish ==
    /\ cmd # "none" /\ todo = <<>>
    /\ Stop
    /\ UNCHANGED <<menu, flag, vars, live, dirty, aborts>>

\* A call of the next atom fails, a wait runs out, or the process is killed.
Abort ==
    /\ todo # <<>> /\ aborts < MaxAborts
    /\ aborts' = aborts + 1
    /\ Stop
    /\ UNCHANGED <<menu, flag, vars, live, dirty>>

Command ==
    \/ \E f \in menu : Enable(f) \/ Disable(f)
    \/ \E on \in BOOLEAN : Configure(on)
    \/ AuthorizeVault
    \/ UpdateFeatures
    \/ UpdateProxyModelConfigs
    \/ DisableEnabledFeatures

Next == Command \/ Execute \/ Finish \/ Abort

\* A command that runs goes on; nobody has to give one.
Spec == Init /\ [][Next]_lvars /\ WF_lvars(Execute) /\ WF_lvars(Finish)

----------------------------------------------------------------------------
(* Properties *)

TypeOK ==
    /\ menu \in Menus
    /\ flag \in [Features -> BOOLEAN]
    /\ \A x \in vars \cup live : Len(x) = 2
    /\ cmd \in {"none", "enable", "disable", "amphora_on", "amphora_off", "authorize",
                "upgrade", "proxy", "disable_all"}
    /\ cmd = "none" => todo = <<>>
    /\ dirty \subseteq menu \cup {"amphora"}
    /\ aborts \in 0..MaxAborts

\* What a user of an enabled feature counts on.
Provides(f) ==
    CASE f = "orchestration" -> Of("openstack", {"heat", "plugin_heat"}) \cup Of("db", {"heat"})
      [] f = "resource-optimization" ->
             Of("openstack", {"watcher", "plugin_watcher"}) \cup Of("db", {"watcher"})
      [] f = "images-sync" -> Of("openstack", {"images-sync"})
      [] f = "validation" -> Of("openstack", {"tempest"})
      [] f = "vault" -> Of("openstack", {"vault"})
      [] f = "secrets" ->
             Of("openstack", {"barbican"}) \cup Of("hypervisor", {"barbican-offer"})
             \cup Of("saas", {"barbican"}) \cup Of("db", {"barbican"})
      [] f = "telemetry" ->
             Of("openstack", {"telemetry"}) \cup Of("hypervisor", {"ceilometer-offer"})
             \cup Of("saas", {"ceilometer"}) \cup Of("db", {"aodh", "gnocchi"})
             \cup Of("cinder-volume", {"notifications"}) \cup Of("storage-backend", {"notifications"})
      [] f = "dns" -> Of("openstack", {"designate", "bind"}) \cup Of("k8s", {"bind_ip"})
      [] f = "pro" -> Of("ubuntu-pro", {"token"})
      [] f = "shared-filesystem" ->
             Of("openstack", {"manila", "manila-cephfs", "ceph-nfs"})
             \cup Of("manila-data", {"manila-data"})
      [] f = "instance-recovery" ->
             Of("openstack", {"masakari"}) \cup Of("openstack", ConsulServers)
             \cup Of("consul-client", ConsulServers) \cup Of("hypervisor", {"masakari-offer"})
      [] f = "caas" ->
             Of("openstack", {"magnum", "plugin_magnum"}) \cup Of("juju", {"kubeconfig_secret"})
             \cup Of("k8s", {"cluster_api", "orc_crds", "capi_crds"})
      [] f = "loadbalancer" -> Of("openstack", {"octavia", "plugin_octavia"}) \cup Of("db", {"octavia"})
      [] f = "baremetal" -> Of("openstack", {"ironic", "shards", "conductor-groups", "switch-secrets"})
      [] f = "tls.self-signed" -> {Provider(f), TlsRow(f)} \cup Of("openstack", {PublicTls})
      [] f \in TlsProviders ->
             {Provider(f), TlsRow(f)} \cup Of("openstack", {PublicTls}) \cup Of("keystone", {f})
      [] f = "observability.embedded" ->
             Of("cos", {"cos"}) \cup {"openstack", "agent"} \X {"collector", "cos_offers"}
             \cup Of("hardware-observer", {"hardware-observer"}) \cup {ObservabilityRow(f)}
      [] f = "observability.external" ->
             {"openstack", "agent"} \X {"collector"} \cup {ObservabilityRow(f)}
             \cup Of("hardware-observer", {"hardware-observer"})
      [] OTHER -> {}

Group(f) ==
    CASE f \in TlsProviders -> TlsProviders
      [] f \in ObservabilityProviders -> ObservabilityProviders
      [] OTHER -> {f}

\* A feature whose last command reached its end and that is enabled is
\* deployed as a whole, whatever was enabled, disabled or left half done
\* since: the variables of all features are merged into shared rows
\* (TerraformHelper.update_tfvars, add_horizon_plugin_to_tfvars,
\* _get_database_resource_tfvars) and every apply takes all of them.
EnabledIsDeployed ==
    \A f \in menu : flag[f] /\ f \notin dirty => Provides(f) \subseteq live

\* A feature that was disabled leaves nothing, also when commands before
\* the disable had stopped half way (disable_feature undoes what any part
\* of enable_feature did).  TLS for the endpoints is not covered: it stays
\* on when the enable stopped before it wrote the row of the provider.
DisabledIsGone ==
    \A f \in menu :
        (\A g \in Group(f) : ~ flag[g] /\ g \notin dirty) =>
        live \cap (Provides(f) \ Of("openstack", {PublicTls})) = {}

\* An enabled feature has its requirements enabled, whatever failed:
\* enable_requirements comes first, the flag last, and a disable is refused
\* while an enabled feature requires it (also while the stored answers of
\* the load balancer turn Amphora on).
RequirementsMet ==
    \A f \in menu : flag[f] => \A g \in get_requirements(f) : flag[g]

\* What consumes an offer or a server of another plan never outlives it:
\* the plans are applied in one order by enable and in the other by disable.
OfferedBy ==
    {<<"barbican-offer", "barbican">>, <<"ceilometer-offer", "telemetry">>,
     <<"masakari-offer", "masakari">>}
ConsumersHaveProviders ==
    /\ \A o \in OfferedBy :
          <<"hypervisor", o[1]>> \in live => <<"openstack", o[2]>> \in live
    /\ \A x \in live : x[1] = "consul-client" => <<"openstack", x[2]>> \in live
    /\ <<"manila-data", "manila-data">> \in live => <<"openstack", "manila">> \in live
    /\ (\E x \in live : x[2] = "cos_offers") => <<"cos", "cos">> \in live

\* One TLS provider and one observability provider at a time: the row in
\* clusterd is checked before and written after the plans (pre_enable,
\* post_enable, pre_disable and post_disable of the two groups).
OneProvider ==
    \A f, g \in menu :
        Group(f) = Group(g) /\ f # g => ~ (flag[f] /\ flag[g] /\ {f, g} \cap dirty = {})

\* Octavia is configured for Amphora only with the network and the CNI its
\* amphorae need (run_configure_plans and run_disable_plans share three
\* plans and the stored answer), except while a
\* configuration that stopped half way was not given again.  The annotation
\* of Cilium is not covered, as its step looks at what is stored; nor is the
\* other direction: an enable after a disable that stopped half way leaves
\* the answer on and Octavia without its configuration.
AmphoraServed ==
    <<"openstack", "octavia_amphora">> \in live /\ "amphora" \notin dirty
    => Of("cni", CniApps) \cup Of("amphora-setup", {"resources"}) \subseteq live

\* What the enabled features need of each other is there, whatever commands
\* failed or were killed: their requirements, the providers of what they
\* consume, a single TLS and observability provider, the network of Amphora.
FeaturesFit ==
    RequirementsMet /\ ConsumersHaveProviders /\ OneProvider /\ AmphoraServed

\* Every command ends; in particular the queue of DisableEnabledFeatures,
\* to which features with requirers return, becomes empty.
CommandsEnd == cmd # "none" ~> cmd = "none"
=============================================================================
