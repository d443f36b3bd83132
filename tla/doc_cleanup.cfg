\* One deletion of a Pod fails.
SPECIFICATION Spec
CONSTANTS
    Sessions = {s1}
    Controllers = {c1}
    NoName = NoName
    Profiles = {"default"}
    ConfiguredProfiles = {"default"}
    RuntimeClassProfiles = {}
    TTLs = {2}
    FaultyCalls = {"deletePod"}
    MaxFaults = 1
    MaxTime = 2
    MaxIncarnations = 1
PROPERTY
    CleanupBeforeRemoval
