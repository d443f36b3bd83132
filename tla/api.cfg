\* Two users, one request after another, any of whose calls may fail, with or
\* without taking effect, and which may be broken off; the controller's
\* deletions may fail as well.
SPECIFICATION ApiFairSpec
CONSTANTS
    Sessions = {s1}
    Controllers = {c1}
    NoName = NoName
    Profiles = {"default"}
    ConfiguredProfiles = {"default"}
    RuntimeClassProfiles = {}
    TTLs = {1}
    FaultyCalls = {"deletePod", "removeFinalizer"}
    MaxFaults = 1
    MaxTime = 2
    MaxIncarnations = 1
    Users = {u1, u2}
    NoUser = NoUser
    Requests = {r1}
    MaxStoreFaults = 1
INVARIANT
    PromiseKept
PROPERTIES
    ImplementsApi
    AcknowledgedDeletionCompletes
