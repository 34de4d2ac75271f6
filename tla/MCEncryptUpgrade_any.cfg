SPECIFICATION FairSpec
CONSTANTS
    Rows = {a, b}
    Versions <- Releases
    SmallestEncrypted <- Smallest
INVARIANTS TypeOK OpenedComplete StatusNeverOverclaims
PROPERTIES LossOnlyByRemoval NeedFollowsVersion 
