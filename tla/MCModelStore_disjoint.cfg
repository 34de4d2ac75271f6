SPECIFICATION Spec
CONSTANTS
    One = One
    Two = Two
    t1 = t1
    t2 = t2
    Nil = Nil
    NoTable = NoTable
    NoCall = NoCall
    Columns <- AllColumns
    KeyColumns <- Key
    BlobColumns = {"note"}
    Values <- TwoValues
    Threads = {t1, t2}
    Tables = {"class"}
    ClassTable = "class"
    ModelsOf <- Disjoint
    ColumnLists <- KeyColumnLists
    BatchTables = {"class"}
    Removals = {"record", "erase", "drop"}
    QuietOnly = TRUE
INVARIANT TypeOK
PROPERTIES CallsAreAtomic SaveTakesEffect DeletesOneRecord
