CONSTANTS
    Members = {m1, m2}
    Nobody = Nobody
    Shifts = {h1}
    NoShift = NoShift
    Gone = Gone
    Swaps = {x1, x2}
    Leaves = {l1}
    Workers = {w1, w2}
SPECIFICATION Spec
VIEW View
SYMMETRY Symmetry
INVARIANTS
    SwapTakesFromRequester
    DeactivatedHasNothingPending
