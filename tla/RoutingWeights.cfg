CONSTANTS
    a = a
    b = b
    c = c
    Backends = {a, b, c}
    Absent <- AbsentValue
    FractionNum = 3
    FractionDen = 4
    Scores = {1, 15, 25, 30, 60, 65, 70, 100, 105, 140, 460, 1000}
CHECK_DEADLOCK FALSE
SPECIFICATION Spec
INVARIANTS OrderAndPoolKept ClampIsIdempotent SkewBelowOutlierMargin
