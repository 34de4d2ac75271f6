SPECIFICATION Spec
CONSTANTS
    NoTable = NoTable
    Versions = {1, 2}
    Classes = {"NBUser", "PPUser", "NBNote"}
    ClassName <- ClassNames
    Fields <- ClassFields
    Dynamic <- Extra
INVARIANTS TypeOK RequestServed
PROPERTIES OnlyDeleteShrinks VersionSavedLast UpdatesAreAtomic
