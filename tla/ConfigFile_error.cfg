SPECIFICATION Spec

CONSTANTS
    Values <- MC_Values
    Norm <- MC_Norm
    Default = "default"
    Extras <- MC_Extras
    Marks = {m1, m2, m3, m4}
    Absent = Absent
    NoStamp = NoStamp
    EditTexts <- MC_TwoDocs
    MenuTexts <- MC_OneMenuText
    SaveValues = {"wild"}
    Faults = {"rename_tmp"}

SYMMETRY MC_Symmetry

PROPERTIES
    ErrorWritesNothing
