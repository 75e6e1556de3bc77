SPECIFICATION Spec

CONSTANTS
    Numbers <- MC_Numbers
    Null = Null
    Words = Words
    Object = Object
    LowerCase <- MC_LowerCase
    Versions = {"old", "new"}
    SchemaOf <- MC_SchemaOf
    StartDocs <- MC_StartDocs
    EditPaths <- MC_EditPaths
    EditNodes = {0, Words, Object}
    SaveValues = {3}
    EditBound = 1

INVARIANTS
    TypeOK

PROPERTIES
    SavedReadsBack
    UnknownKept
    OtherVersionsKeepTheirs
    LoadedIsInOrder
