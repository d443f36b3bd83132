\* One creation of a Pod fails, and the next succeeds.
SPECIFICATION Spec
CONSTANTS
    Sessions = {s1}
    Controllers = {c1}
    NoName = NoName
    Profiles = {"default"}
    ConfiguredProfiles = {"default"}
    RuntimeClassProfiles = {}
    TTLs = {2}
    FaultyCalls = {"createPod"}
    MaxFaults = 1
    MaxTime = 1
    MaxIncarnations = 1
INVARIANT
    RunningHasNoReason
