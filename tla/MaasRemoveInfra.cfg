SPECIFICATION Spec
CONSTANTS
    Infra = {"i"}
    Workers = {"v", "w"}
    Dpus = {"w"}
    Removable = {"i", "v", "w"}
    Systems = {1, 2, 3, 4}
    MaxInfra = 2
    MaxMachines = 4
    MaxFaults = 2

PROPERTIES OnlyItsOwnMachine
CHECK_DEADLOCK FALSE
