\* Installations of every era, four runs of any script, each one stopped
\* anywhere but inside a rekey, and a backend between them.
SPECIFICATION Spec
CONSTANTS
    Password = {pw1, pw2}
    Random = Random
    None = None
    Absent = Absent
    Plain = Plain
    Era = {"plain", "random", "password"}
    Unruly = {}
    MaxMade = 5
    MaxWrite = 2
    MaxRun = 4
SYMMETRY Symmetry
INVARIANTS
    TypeOK
    DataSurvives
    LiveOpens
PROPERTIES
    SecretsApart
CHECK_DEADLOCK FALSE
