\* set_db_password.py may also die between its new salt and the rekey.
SPECIFICATION Spec
CONSTANTS
    Password = {pw1, pw2}
    Random = Random
    None = None
    Absent = Absent
    Plain = Plain
    Era = {"password"}
    Unruly = {"interrupt"}
    MaxMade = 3
    MaxWrite = 1
    MaxRun = 1
INVARIANTS
    DataSurvives
CHECK_DEADLOCK FALSE
