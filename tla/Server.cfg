SPECIFICATION FairSpec
CONSTANTS
    Keys = {k1, k2}
    DSNs = {d1}
    Malformed = malformed
    Unset = unset
    Requests = {r1, r2}
    Kinds = {"api", "readyz", "healthz"}
    PoolSize = 1
    MaxEdits = 1
    MaxBoots = 2
INVARIANTS ServesAsDeployed KeysOpenAsDeployed ReadyIsVouched
PROPERTIES ProbesAnswer
CHECK_DEADLOCK FALSE
