\* Three threads read one block.
SPECIFICATION FairSpec
CONSTANTS
    Thread = {t1, t2, t3}
    Nobody = Nobody
INVARIANTS TypeOK LockedReadsAreWhole
PROPERTIES NeverPulledTwice LockReleased
\* a thread that cannot open the cache file keeps the lock: all others wait
CHECK_DEADLOCK FALSE
