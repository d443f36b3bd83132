\* One controller process: it may crash, and any of its calls but the
\* deletion of a Pod may fail with or without taking effect.  The name of a
\* session is used twice.
SPECIFICATION Spec
CONSTANTS
    Sessions = {s1}
    Controllers = {c1}
    NoName = NoName
    Profiles = {"default", "kata", "gvisor"}
    ConfiguredProfiles = {"default", "kata"}
    RuntimeClassProfiles = {"kata"}
    TTLs = {1, 2}
    FaultyCalls = {"getSession", "addFinalizer", "checkRuntimeClass", "getPod",
                   "createPod", "patchStatus", "removeFinalizer", "crash"}
    MaxFaults = 2
    MaxTime = 3
    MaxIncarnations = 2
INVARIANTS
    TypeOK
    PodHasOwner
    ExpiredHasNoPod
PROPERTY
    ExpiredIsFinal
    ImplementsContract
