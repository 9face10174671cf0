SPECIFICATION AuditSpec
CONSTANTS
    Maps <- MCMaps
INVARIANTS SearchIsRight
CHECK_DEADLOCK FALSE
