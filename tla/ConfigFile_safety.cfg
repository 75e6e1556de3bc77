SPECIFICATION Spec

CONSTANTS
    Values <- MC_Values
    Norm <- MC_Norm
    Default = "default"
    Extras <- MC_Extras
    Marks = {m1, m2, m3, m4, m5}
    Absent = Absent
    NoStamp = NoStamp
    EditTexts <- MC_EditTexts
    MenuTexts <- MC_MenuTexts
    SaveValues = {"wild"}
    Faults = {"write", "rename_bak", "rename_tmp", "callback", "crash"}

SYMMETRY MC_Symmetry

INVARIANTS
    TypeOK
    StampMatchesText
    LiveMatchesText
    Coherent
    SaveOnCourse
    NeverTorn

PROPERTIES
    NothingLost
    SaveKeepsKeys
    SavedIsOnDisk
    ImplementsStore
