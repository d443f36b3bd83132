\* Two controller processes at once (replicaCount of 2, or the overlap of a
\* rolling update).
SPECIFICATION FairSpec
CONSTANTS
    Sessions = {s1}
    Controllers = {c1, c2}
    NoName = NoName
    Profiles = {"default"}
    ConfiguredProfiles = {"default"}
    RuntimeClassProfiles = {}
    TTLs = {1, 2}
    FaultyCalls = {}
    MaxFaults = 0
    MaxTime = 2
    MaxIncarnations = 1
INVARIANTS
    TokenMatchesExpiry
    ExpiryFollowsTTL
PROPERTIES
    LatePodsAreFew
    LateReportsAreFew
    DeletionCompletes
    ExpiryEnforced
