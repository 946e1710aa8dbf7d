SPECIFICATION PartSpec
CONSTANTS
    Routers = {"keystone", "nova"}
    Scale0 = 1
    SettlePolls = 2
    MaxResume = 2
    MaxRev = 2
    Sessions = {"s1", "s2"}
    Backends = {"pure", "netapp"}
    NonHA = {"pure", "netapp"}
    Units = {"v0", "v1", "v2"}
    Threshold = 2
    MaxEvents = 2
    External = {"okta", "entra"}
    Canonical = {"iam"}
    Nodes = {"n1", "n2"}
    Profiles = {"okta", "iam"}
    MaxCommands = 3
    MaxStops = 1
    BootStops = 3
    MySQLStops = 2
    VaultCommands = 4
INVARIANTS PartTypeOK
INVARIANTS BootstrapLeaves RecordedIsDeployed VaultOpens ProvidersInStep
PROPERTIES  AgainCompletes ServicesEnd
CHECK_DEADLOCK FALSE
