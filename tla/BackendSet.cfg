\* Five threads, three backends of weights 2, 0 and 1.
SPECIFICATION Spec
CONSTANTS
    Callers = {c1, c2, c3, c4, c5}
    N = 3
    Specified <- Weights
    Wrap = 16
    NoCaller = NoCaller
SYMMETRY Symmetric
INVARIANTS
    LoadExact
    PickJustified
    WeightedShare
