SPECIFICATION PartSpec
CONSTANTS
    Maas = TRUE
    MaxAborts = 1
    Control = {"a", "b", "c"}
    Compute = {"a", "b"}
    Storage = {"a"}
    Instances = {"i", "e"}
    Unmovable = {"e"}
    Workloads = {"w", "juju"}
    Controllers = {"juju"}
    Replicas = 1
    MaxFaults = 1
INVARIANTS PartTypeOK EnabledIsDeployed  FeaturesFit EmptyInMaintenance
PROPERTIES PartsEnd LeavesControl DisableRestores
CHECK_DEADLOCK FALSE
