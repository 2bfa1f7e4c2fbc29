\* Late lists and a change of leader, and a larger group with one stop.
SPECIFICATION Spec
CONSTANTS
    Setups <- SafetySetups
    NoLeader = NoLeader
INVARIANTS TypeOK LeaderWatches NoReset
\* the group comes to rest
CHECK_DEADLOCK FALSE
