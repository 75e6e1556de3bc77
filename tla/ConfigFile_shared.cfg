SPECIFICATION Spec

CONSTANTS
    Values <- MC_Values
    Norm <- MC_Norm
    Default = "default"
    Extras <- MC_Extras
    Marks = {m1, m2, m3, m4, m5}
    Absent = Absent
    NoStamp = NoStamp
    EditTexts <- MC_DocOrTypo
    MenuTexts <- MC_OneMenuText
    SaveValues = {"low"}
    Faults = {"edit_mid_call", "same_stamp", "callback"}

SYMMETRY MC_Symmetry

PROPERTIES
    SaveIsNoEdit
    FailsOnce
