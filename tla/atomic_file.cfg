SPECIFICATION Spec
CONSTANTS
    Writers = {w1, w2}
    Values = {v1, v2, v3}
    NoFile = nofile
    Torn = torn
SYMMETRY Symmetry
INVARIANTS
    NeverTorn
PROPERTIES
    ImplementsRegister
