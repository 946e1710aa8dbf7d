-------------------------- MODULE FeatureCatalogue --------------------------
(***************************************************************************)
(* What enabling and disabling each feature does, as data.  A step class   *)
(* of the code is a sequence of atoms, a feature's run_enable_plans and    *)
(* run_disable_plans are concatenations of steps, and FeatureLifecycle     *)
(* interprets them one atom at a time.                                     *)
(***************************************************************************)
EXTENDS StepAtoms

CONSTANT Maas   \* is this a MAAS deployment (is_maas_deployment)?

OnMaas(steps) == IF Maas THEN steps ELSE <<>>

----------------------------------------------------------------------------
(* Steps the features share.  An application set c has the variables that  *)
(* enable it, the databases it adds to the resource row, the variables its *)
(* disable clears besides, and the applications that are waited for.       *)

Apps(names, databases) ==
    [vars |-> names, db |-> databases, clears |-> {}, waits |-> names]

\* get_database_tfvars writes the database rows before the drift check, so
\* they are kept when the step fails there.
EnableOpenStackApplicationStep(c) ==
       Make(Of("db", c.db))
    \o StoreAndApply("openstack", c.vars, {})
    \o Await("openstack", c.waits)

DisableKeepingDatabases(c) ==
    StoreAndApply("openstack", {}, c.vars \cup c.clears) \o AwaitGone("openstack", c.waits)

DisableOpenStackApplicationStep(c) ==
       Drop(Of("db", c.db))
    \o StoreAndApply("openstack", {}, c.vars \cup c.clears)
    \o AwaitGone("openstack", c.waits)

ReapplyHypervisor(on, off) == StoreAndApply("hypervisor", on, off)

RemoveSaasApplicationsStep(offers) == Drop(Of("saas", offers))

----------------------------------------------------------------------------
(* Features that are one application set of the openstack plan *)

OrchestrationApps == Apps({"heat", "plugin_heat"}, {"heat"})
OptimizationApps  == Apps({"watcher", "plugin_watcher"}, {"watcher"})
ImagesSyncApps    == Apps({"images-sync"}, {})
ValidationApps    == Apps({"tempest"}, {})
VaultApps         == Apps({"vault"}, {})
\* enabling ldap stores nothing; the domains are added by commands
LDAPApps          == [Apps({}, {}) EXCEPT !.clears = {"ldap-apps"}]

----------------------------------------------------------------------------
(* secrets and telemetry: applications and offers the machines consume *)

SecretsApps == Apps({"barbican"}, {"barbican"})

SecretsEnable ==
    EnableOpenStackApplicationStep(SecretsApps) \o ReapplyHypervisor({"barbican-offer"}, {})

SecretsDisableServiceFirst ==
       DisableOpenStackApplicationStep(SecretsApps)
    \o ReapplyHypervisor({}, {"barbican-offer"})
    \o RemoveSaasApplicationsStep({"barbican"})

SecretsDisable ==
       ReapplyHypervisor({}, {"barbican-offer"})
    \o RemoveSaasApplicationsStep({"barbican"})
    \o DisableOpenStackApplicationStep(SecretsApps)

TelemetryApps == Apps({"telemetry"}, {"aodh", "gnocchi"})

\* Once per principal of the storage backends; an exception is logged only.
DeploySpecificCinderVolume(on, off) == StoreAndApply("storage-backend", on, off)

TelemetryEnable ==
       EnableOpenStackApplicationStep(TelemetryApps)
    \o ReapplyHypervisor({"ceilometer-offer"}, {})
    \o StoreAndApply("cinder-volume", {"notifications"}, {})
    \o DeploySpecificCinderVolume({"notifications"}, {})

TelemetryDisable ==
       ReapplyHypervisor({}, {"ceilometer-offer"})
    \o StoreAndApply("cinder-volume", {}, {"notifications"})
    \o RemoveSaasApplicationsStep({"ceilometer"})
    \o DisableOpenStackApplicationStep(TelemetryApps)
    \o DeploySpecificCinderVolume({}, {"notifications"})

----------------------------------------------------------------------------
(* dns, pro and shared-filesystem *)

DnsApps == Apps({"designate", "bind"}, {"designate"})
PatchBindLoadBalancerIPPoolStep == Make(Of("k8s", {"bind_pool"}))
PatchBindLoadBalancerIPStep == Make(Of("k8s", {"bind_ip"}))

DnsEnable ==
       EnableOpenStackApplicationStep(DnsApps)
    \o OnMaas(PatchBindLoadBalancerIPPoolStep) \o PatchBindLoadBalancerIPStep

DnsUpgrade == OnMaas(PatchBindLoadBalancerIPPoolStep) \o PatchBindLoadBalancerIPStep

EnableUbuntuProApplicationStep == ApplyOnly("ubuntu-pro", {"token"})
DisableUbuntuProApplicationStep == ApplyOnly("ubuntu-pro", {})

SharedFilesystemApps ==
    Apps({"manila", "manila-cephfs", "ceph-nfs", "plugin_manila"}, {})

DeployManilaDataApplicationStep ==
    StoreAndApply("manila-data", {"manila-data"}, {}) \o Await("manila-data", {"manila-data"})

\* Skipped when there is nothing; the stored variables stay.
DestroyManilaDataApplicationStep ==
    Destroy("manila-data") \o AwaitGone("manila-data", {"manila-data"})

SharedFilesystemEnable ==
    EnableOpenStackApplicationStep(SharedFilesystemApps) \o DeployManilaDataApplicationStep
SharedFilesystemDisable ==
    DestroyManilaDataApplicationStep \o DisableOpenStackApplicationStep(SharedFilesystemApps)

----------------------------------------------------------------------------
(* instance-recovery: masakari, consul servers and consul clients *)

\* management always; storage and tenant where their space is one of its own
ConsulServers == {"consul-management"} \cup (IF Maas THEN {"consul-storage"} ELSE {})

InstanceRecoveryApps ==
    [Apps(ConsulServers \cup {"masakari"}, {"masakari"})
        EXCEPT !.clears = {"consul-tenant", "consul-storage"}]

PatchConsulStorageLoadBalancer == Make(Of("k8s", {"consul-storage_pool", "consul-storage_ip"}))

DeployConsulClientStep ==
    StoreAndApply("consul-client", ConsulServers, {}) \o Await("consul-client", ConsulServers)

RemoveConsulClientStep ==
    Destroy("consul-client") \o AwaitGone("consul-client", ConsulServers) \o Forget("consul-client")

InstanceRecoveryEnable ==
       EnableOpenStackApplicationStep(InstanceRecoveryApps)
    \o OnMaas(PatchConsulStorageLoadBalancer)
    \o DeployConsulClientStep
    \o ReapplyHypervisor({"masakari-offer"}, {})

InstanceRecoveryDisable ==
       ReapplyHypervisor({}, {"masakari-offer"})
    \o RemoveSaasApplicationsStep({"masakari"})
    \o RemoveConsulClientStep
    \o DisableOpenStackApplicationStep(InstanceRecoveryApps)

----------------------------------------------------------------------------
(* caas: the cluster API in Kubernetes, magnum and its kubeconfig secret *)

CaasApps == Apps({"magnum", "plugin_magnum"}, {"magnum"})
\* The second enable has the id of the secret; the disable keeps it stored.
CaasAppsWithSecret == [CaasApps EXCEPT !.vars = @ \cup {"magnum_kubeconfig"}]

\* All providers run, in the version that is wanted: the step is skipped.
ProvidersReady == <<"k8s", "cluster_api">>

InstallOrcCrd == Make(Of("k8s", {"orc_crds"}))

SetupClusterAPI ==
    IfThere(ProvidersReady, FALSE, InstallOrcCrd \o Make(Of("k8s", {"cluster_api", "capi_crds"})))

PatchCaaphProxyStep == Make(Of("k8s", {"caaph_proxy"}))
CreateKubeConfigSecretStep == Make(Of("juju", {"kubeconfig_secret"}))
DeleteKubeConfigSecretStep == Drop(Of("juju", {"kubeconfig_secret"}))
\* The providers and their namespaces, then the CRDs
DeleteCapi == Drop(Of("k8s", {"cluster_api", "caaph_proxy"})) \o Drop(Of("k8s", {"capi_crds"}))

DeleteOrcResources == Drop(Of("k8s", {"orc_crds"}))

\* It fails while workload clusters exist, and may be run again after a
\* failure: components that are gone are not an error.
DeleteClusterAPI == DeleteCapi \o DeleteOrcResources

CaasEnable ==
       SetupClusterAPI \o PatchCaaphProxyStep
    \o EnableOpenStackApplicationStep(CaasApps)
    \o CreateKubeConfigSecretStep
    \o EnableOpenStackApplicationStep(CaasAppsWithSecret)

CaasDisable ==
    DeleteClusterAPI \o DisableOpenStackApplicationStep(CaasApps) \o DeleteKubeConfigSecretStep

----------------------------------------------------------------------------
(* loadbalancer, and its Amphora provider that `configure` turns on and off *)

AmphoraRow == <<"db", "amphora_enabled">>
Annotation == <<"k8s-plan", "cilium_not_exclusive">>
CniApps == {"multus", "openstack-port-cni"}

LoadbalancerApps ==
    [Apps({"octavia", "plugin_octavia"}, {"octavia"})
        EXCEPT !.clears = {"octavia_amphora", "octavia_tls"}]

AmphoraConfigStep(on) == IF on THEN Make({AmphoraRow}) ELSE Drop({AmphoraRow})
CreateAmphoraResourcesStep == StoreAndApply("amphora-setup", {"resources"}, {})
DeployAmphoraInfraStep == StoreAndApply("cni", CniApps, {}) \o Await("cni", CniApps)
RemoveCNIInfraStep == Destroy("cni") \o Forget("cni") \o AwaitGone("cni", CniApps)
DestroyAmphoraResourcesStep == Destroy("amphora-setup") \o Forget("amphora-setup")
CleanupMultusCNIFilesStep == Drop(Of("k8s", {"multus_conf"}))
\* The step is skipped by what is stored, not by what was applied.
UpdateCiliumCNIExclusiveStep(multus) ==
    IfStored(Annotation, ~ multus,
             IF multus THEN StoreAndApply("k8s-plan", {Annotation[2]}, {})
                       ELSE StoreAndApply("k8s-plan", {}, {Annotation[2]}))
UpdateOctaviaAmphoraConfigStep(on) ==
    LET config == {"octavia_amphora", "octavia_tls"}
    IN  (IF on THEN StoreAndApply("openstack", config, {})
               ELSE StoreAndApply("openstack", {}, config))
        \o Await("openstack", {"octavia"})

LoadbalancerDisable ==
       DisableOpenStackApplicationStep(LoadbalancerApps)
    \o RemoveCNIInfraStep \o CleanupMultusCNIFilesStep
    \o UpdateCiliumCNIExclusiveStep(FALSE)
    \o DestroyAmphoraResourcesStep

\* post_disable: the answers are deleted
LoadbalancerPostDisable == Drop({AmphoraRow})

\* What is done after the answer is stored, depending on it and on the
\* answer that was stored before (previously_enabled).
LoadbalancerConfigure(on, before) ==
    AmphoraConfigStep(on) \o
    CASE on -> CreateAmphoraResourcesStep \o DeployAmphoraInfraStep
               \o UpdateCiliumCNIExclusiveStep(TRUE) \o UpdateOctaviaAmphoraConfigStep(TRUE)
      [] ~ on /\ before ->
               RemoveCNIInfraStep \o CleanupMultusCNIFilesStep
               \o UpdateCiliumCNIExclusiveStep(FALSE) \o UpdateOctaviaAmphoraConfigStep(FALSE)
      [] OTHER -> <<>>

----------------------------------------------------------------------------
(* baremetal *)

BaremetalApps ==
    [Apps({"ironic"}, {}) EXCEPT !.clears = {"shards", "conductor-groups", "switch-secrets"}]

RunSetTempUrlSecretStep == Make(Of("juju", {"temp_url_secret"}))
UpdateSwitchConfigs ==
    Make(Of("juju", {"switch_secrets"})) \o StoreAndApply("openstack", {"switch-secrets"}, {})
DeployNovaIronicShardsStep == StoreAndApply("openstack", {"shards"}, {})
DeployIronicConductorGroupsStep == StoreAndApply("openstack", {"conductor-groups"}, {})

\* with shards and conductor groups in the configuration
BaremetalEnable ==
       EnableOpenStackApplicationStep(BaremetalApps) \o RunSetTempUrlSecretStep
    \o UpdateSwitchConfigs
    \o DeployNovaIronicShardsStep
    \o DeployIronicConductorGroupsStep \o RunSetTempUrlSecretStep

BaremetalDisable == DisableOpenStackApplicationStep(BaremetalApps)

----------------------------------------------------------------------------
(* tls: three providers of which one may be set, kept in one row.          *)
(* traefik-to-tls-provider is one variable with three values.              *)

TlsProviders == {"tls.ca", "tls.vault", "tls.self-signed"}
TlsRow(f) == <<"db", f>>
Provider(f) == <<"openstack", f>>
PublicTls == "public_tls"

\* traefik-to-tls-provider := f, and TLS for the (default) public endpoint
TlsEnable(f) ==
    Store("openstack", {f, PublicTls}, TlsProviders \ {f}) \o Apply("openstack")

\* Only the endpoints of the row are turned off, so none when an enable
\* stopped before it wrote the row.
TlsDisable(f) ==
    IfThere(TlsRow(f), TRUE,  StoreAndApply("openstack", {}, TlsProviders \cup {PublicTls}))
 \o IfThere(TlsRow(f), FALSE, StoreAndApply("openstack", {}, TlsProviders))

AddCACertsToKeystoneStep(f) == Make(Of("keystone", {f}))
RemoveCACertsFromKeystoneStep(f) == Drop(Of("keystone", {f}))

\* pre_enable and pre_disable: the row names no other provider
TlsCheck(f) == Lack({TlsRow(g) : g \in TlsProviders \ {f}})

TlsPostEnable(f) == AddCACertsToKeystoneStep(f) \o Make({TlsRow(f)})
TlsPostDisable(f) ==
    RemoveCACertsFromKeystoneStep(f) \o Drop({TlsRow(g) : g \in TlsProviders})

\* The CA of the deployment itself is in keystone already.
SelfSignedPostEnable == Make({TlsRow("tls.self-signed")})
SelfSignedPostDisable == Drop({TlsRow(g) : g \in TlsProviders})

\* Vault must be initialised, unsealed and authorised.
VaultActive == <<"vault", "active">>
is_vault_application_active == Need({VaultActive})

----------------------------------------------------------------------------
(* observability: an embedded stack, or agents that send to a remote one *)

ObservabilityProviders == {"observability.embedded", "observability.external"}
ObservabilityRow(f) == <<"db", f>>

\* Both enable the collectors of the openstack plan; the embedded one adds
\* the offers of the stack, and every disable clears both.
ObservabilityApps(f) ==
    [Apps({"collector"} \cup (IF f = "observability.embedded" THEN {"cos_offers"} ELSE {}), {})
        EXCEPT !.clears = {"cos_offers"}, !.waits = {"collector"}]

DeployObservabilityStackStep ==
    Make(Of("db", {"cos_storage"})) \o StoreAndApply("cos", {"cos"}, {}) \o Await("cos", {"cos"})
RemoveObservabilityStackStep == Destroy("cos") \o AwaitGone("cos", {"cos"})
PatchCosLoadBalancerIPPoolStep == Make(Of("k8s", {"cos_pool"}))
PatchCosLoadBalancerIPStep == Make(Of("k8s", {"cos_ip"}))

DeployObservabilityAgentStep(f) ==
    StoreAndApply("agent", ObservabilityApps(f).vars, {})
RemoveObservabilityAgentStep ==
    Destroy("agent") \o AwaitGone("agent", {"collector"}) \o Forget("agent")

DeployHardwareObserverStep == StoreAndApply("hardware-observer", {"hardware-observer"}, {})
RemoveHardwareObserverStep ==
       Destroy("hardware-observer") \o AwaitGone("hardware-observer", {"hardware-observer"})
    \o Forget("hardware-observer")

DeployObservabilityAgentInfraStep(f) ==
    StoreAndApply("agent-infra", ObservabilityApps(f).vars, {})
RemoveObservabilityAgentInfraStep ==
    Destroy("agent-infra") \o AwaitGone("agent-infra", {"collector"}) \o Forget("agent-infra")

IntegrateRemoteCosOffersStep == Make(Of("juju", {"remote_cos_relations"}))
RemoveRemoteCosOffersStep == Drop(Of("juju", {"remote_cos_relations"}))

UpdateObservabilityModelConfigStep == Store("cos", {"cos"}, {}) \o Make(Of("cos", {"model"}))

EmbeddedEnable ==
    LET f == "observability.embedded"
    IN     DeployObservabilityStackStep
        \o OnMaas(PatchCosLoadBalancerIPPoolStep) \o PatchCosLoadBalancerIPStep
        \o EnableOpenStackApplicationStep(ObservabilityApps(f))
        \o DeployObservabilityAgentStep(f) \o DeployHardwareObserverStep
        \o OnMaas(DeployObservabilityAgentInfraStep(f))

EmbeddedDisable ==
       DisableOpenStackApplicationStep(ObservabilityApps("observability.embedded"))
    \o RemoveSaasApplicationsStep({"cos_openstack"})
    \o RemoveHardwareObserverStep
    \o OnMaas(RemoveObservabilityAgentInfraStep \o RemoveSaasApplicationsStep({"cos_infra"}))
    \o RemoveObservabilityAgentStep \o RemoveSaasApplicationsStep({"cos_machines"})
    \o RemoveObservabilityStackStep

ExternalEnable(offers) ==
    LET f == "observability.external"
    IN     EnableOpenStackApplicationStep(ObservabilityApps(f))
        \o DeployObservabilityAgentStep(f) \o DeployHardwareObserverStep
        \o OnMaas(DeployObservabilityAgentInfraStep(f))
        \o (IF offers THEN IntegrateRemoteCosOffersStep ELSE <<>>)

ExternalDisable ==
       RemoveRemoteCosOffersStep
    \o DisableOpenStackApplicationStep(ObservabilityApps("observability.external"))
    \o RemoveSaasApplicationsStep({"cos_openstack"})
    \o RemoveHardwareObserverStep
    \o OnMaas(RemoveObservabilityAgentInfraStep \o RemoveSaasApplicationsStep({"cos_infra"}))
    \o RemoveObservabilityAgentStep \o RemoveSaasApplicationsStep({"cos_machines"})

ObservabilityCheck(f) == Lack({ObservabilityRow(g) : g \in ObservabilityProviders \ {f}})

ObservabilityPostEnable(f) == Make({ObservabilityRow(f)}) \o Make(Of("juju", {"cos_grants"}))
ObservabilityPostDisable == Drop({ObservabilityRow(g) : g \in ObservabilityProviders})

=============================================================================
