SPECIFICATION Spec
CONSTANTS
    One = One
    Two = Two
    t1 = t1
    t2 = t2
    Nil = Nil
    NoTable = NoTable
    NoCall = NoCall
    Columns <- AllColumns
    KeyColumns <- Key
    BlobColumns = {}
    Values <- TwoValues
    Threads = {t1, t2}
    Tables = {"class"}
    ClassTable = "class"
    ModelsOf <- Shared
    ColumnLists <- NoColumnLists
    BatchTables = {"class"}
    Removals = {}
    QuietOnly = TRUE
PROPERTY SaveTakesEffect
