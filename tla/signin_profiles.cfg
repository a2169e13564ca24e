\* One launcher and one sign-in screen at a time, beside whatever routes and
\* catch-up threads are still running: two profiles, two passwords, a second
\* process, kills at every point.
SPECIFICATION Spec
CONSTANTS
    Profile = {main, second}
    Default = main
    Password = {pw1, pw2}
    OldKey = {old}
    Backend = {b1, b2}
    Client = {c1, c2}
    None = None
    Absent = Absent
    Plain = Plain
    Unruly = {}
    MaxSalt = 3
    MaxStart = 3
    MaxAsk = 5
SYMMETRY Symmetry
INVARIANTS
    TypeOK
    OneBackend
    KeyIsForActive
PROPERTIES
    DataStaysReachable
    LastUsedWasSignedIn
CHECK_DEADLOCK FALSE
