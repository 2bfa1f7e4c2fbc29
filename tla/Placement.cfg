\* RS<2,2> or RE<3> on three datanodes, all unreliable or one reliable.
SPECIFICATION FairSpec
CONSTANTS
    Datanode = {1, 2, 3}
    ReliableSets = {{}, {2}}
    K = 2
    M = 2
    R = 3
INVARIANTS TypeOK ShortMeansAllFailed EmptyMeansTooManyLost
PROPERTY ReliableUploadEnds
