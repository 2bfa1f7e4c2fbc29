\* Three threads read one block.
SPECIFICATION Spec
CONSTANTS
    Thread = {t1, t2, t3}
    Nobody = Nobody
INVARIANT ReadsAreWhole
CHECK_DEADLOCK FALSE
