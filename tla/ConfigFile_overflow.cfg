SPECIFICATION Spec

CONSTANTS
    Values <- MC_Values
    Norm <- MC_Norm
    Default = "default"
    Extras <- MC_Extras
    Marks = {m1, m2, m3, m4}
    Absent = Absent
    NoStamp = NoStamp
    EditTexts <- MC_Overflow
    MenuTexts <- MC_NoTexts
    SaveValues = {"wild"}
    Faults = {}

SYMMETRY MC_Symmetry

PROPERTIES
    FailsOnce
