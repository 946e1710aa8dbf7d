SPECIFICATION PartSpec
CONSTANTS
    Infra = {"i"}
    Workers = {"v", "w"}
    Dpus = {"w"}
    Removable = {"v", "w"}
    Systems = {1, 2, 3, 4}
    MaxInfra = 2
    MaxMachines = 4
    MaxMachineFaults = 2
    Machines = {"i", "a", "b"}
    Disks = {1, 2, 3}
    Partitioned = {3}
    Sites <- MCSites
    RoleSets <- MCRoleSets
    MaxChanges = 2
    MaxFaults = 1
INVARIANTS PartTypeOK DeployedAsTagged
PROPERTIES DeployedRight ValidatedDeploys
CHECK_DEADLOCK FALSE
