SPECIFICATION Spec
CONSTANTS
    Nil = Nil
    NoRow = NoRow
    NoCall = NoCall
    CharHalf = 2
    IntHalf = 4
    LongHalf = 8
    Ids = {1, 2, 3}
    KindsUsed = {"c", "i", "q", "Q", "NSString", "NSMutableString", "NSNumber", "NSDate", "NSData", "UIColor", "object"}
    Evolves <- Later
    Values <- Stored
    Changes <- Stored
    Wheres <- Given
    Orders <- Sorts
    Windows <- Pages
INVARIANT TypeOK
 
