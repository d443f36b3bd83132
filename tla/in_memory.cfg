\* Two requests under way at any time, and one terminal connection.
SPECIFICATION InMemoryFairSpec
CONSTANTS
    Users = {u1}
    NoUser = NoUser
    Requests = {r1, r2}
    Sessions = {s1}
    NoName = NoName
    Connected = s1
    Capacity = 2
INVARIANTS
    EchoTypeOK
    PanicOnlyAfterDeletion
PROPERTIES
    ImplementsApi
    DeletionEndsTerminal
    ReturnReleasesAll
