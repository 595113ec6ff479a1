CONSTANTS
    u = u
    v = v
    s1 = s1
    s2 = s2
    h1 = h1
    h2 = h2
    Urls = {u, v}
    Exporters <- MCExporters
    Sessions = {s1, s2}
    Hashes = {h1, h2}
    NumCall = 2
    NumPost = 6
    Retries = 2
    Envs <- MCEnvs
SPECIFICATION Spec
INVARIANTS SentStored RefsMatch MissingHasReason ShutdownDelivers
PROPERTY CallsRecorded
CHECK_DEADLOCK FALSE
