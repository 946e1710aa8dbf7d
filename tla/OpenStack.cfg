SPECIFICATION PartSpec
CONSTANTS
    MySQLs = {"nova-mysql", "glance-mysql"}
    Vaults = {"vault"}
    RouterNames = {"nova-mysql-router", "glance-mysql-router"}
    MysqlClient <- MCMysqlClient
    Scale0 <- MCScale0
    Past <- MCPast
    MaxBackups = 2
    MaxFaults = 2
    Sites <- MCSites
    LargeFrom = 3
    MaxStops = 1
    MaxCommands = 3
INVARIANTS PartTypeOK OutcomeTrue BackupsTrue
PROPERTIES RestoredWhileQuiet ControlPlaneKept
