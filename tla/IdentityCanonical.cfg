\* UnknownIsAbsent is violated: a Canonical provider that was added can be
\* neither removed nor purged.
SPECIFICATION Spec
CONSTANTS
    External = {"okta", "entra"}
    Canonical = {"iam"}
    Nodes = {"n1"}
    Profiles = {"okta"}
    MaxStops = 0
    MaxCommands = 3
INVARIANT UnknownIsAbsent
CHECK_DEADLOCK FALSE
