CONSTANTS
    Process = {p1, p2}
    Database = {d1, d2}
    Version = {v1}
    Unit = {u1}
    Active = {p1}
    Nobody = nobody
SPECIFICATION Spec
SYMMETRY GateSymmetry
CHECK_DEADLOCK FALSE
INVARIANTS
    TypeOK
    ArmedIsExclusive
    GateStaysShut
PROPERTIES
    KillHolds
    LimitsInForce
    KillMissesNothing
