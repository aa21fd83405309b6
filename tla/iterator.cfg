SPECIFICATION Spec
CONSTANTS
    Names = {0, 1, 2, 3}
    Strides <- ShortStrides
INVARIANTS TypeOK
PROPERTIES Sweeps
