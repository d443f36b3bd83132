\* One controller process, which may crash, any of whose calls may fail, with
\* or without taking effect, while the name of a session is used twice.
SPECIFICATION FairSpec
CONSTANTS
    Sessions = {s1}
    Controllers = {c1}
    NoName = NoName
    Profiles = {"default", "kata"}
    ConfiguredProfiles = {"default", "kata"}
    RuntimeClassProfiles = {"kata"}
    TTLs = {1}
    FaultyCalls = {"getSession", "addFinalizer", "checkRuntimeClass", "getPod",
                   "createPod", "deletePod", "patchStatus", "removeFinalizer",
                   "crash"}
    MaxFaults = 2
    MaxTime = 2
    MaxIncarnations = 2
INVARIANT
    StatusConsistent
PROPERTIES
    DeletionCompletes
    ExpiryEnforced
    ReadinessConverges
