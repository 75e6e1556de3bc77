SPECIFICATION Spec

CONSTANTS
    Numbers <- MC_Numbers
    Null = Null
    Words = Words
    Object = Object
    LowerCase <- MC_LowerCase
    Versions = {"old", "new"}
    SchemaOf <- MC_SchemaOf
    StartDocs <- MC_StartDocs
    EditPaths <- MC_CapitalPaths
    EditNodes = {0, Words, Object}
    SaveValues = {3}
    EditBound = 2

PROPERTIES
    UnknownKept
