SPECIFICATION Spec
CONSTANTS
    Rows = {a, b}
    Versions <- Releases
    SmallestEncrypted <- Smallest
INVARIANT SurvivesDecryption
