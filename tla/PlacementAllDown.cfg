\* RS<1,2> or RE<3>: both datanodes may stop for good.
SPECIFICATION FairSpec
CONSTANTS
    Datanode = {1, 2}
    ReliableSets = {{}}
    K = 1
    M = 2
    R = 3
PROPERTY UploadEnds
