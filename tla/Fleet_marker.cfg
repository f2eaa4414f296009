SPECIFICATION Spec
CONSTANTS
    Lane = {"A", "B"}
    Settings = {"s1", "s2"}
    None = None
INVARIANTS
    FailsTowardUngoverned
