\* One controller process that need not do anything, whose calls fail and which
\* crashes, and one request after another.
SPECIFICATION ProxyFairSpec
CONSTANTS
    Sessions = {s1}
    Controllers = {c1}
    NoName = NoName
    Profiles = {"default"}
    ConfiguredProfiles = {"default"}
    RuntimeClassProfiles = {}
    TTLs = {1, 2}
    FaultyCalls = {"createPod", "deletePod", "patchStatus", "crash"}
    MaxFaults = 1
    MaxTime = 3
    MaxIncarnations = 1
    Requests = {r1}
INVARIANT
    RevokedIsDenied
PROPERTY
    AccessEnds
