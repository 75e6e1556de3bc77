SPECIFICATION Spec

CONSTANTS
    WideHalf = 32
    NarrowHalf = 4
    DoubleBits = 4
    FloatBits = 2
    DoubleMax = 480
    FloatMax = 192
    Exponential <- MC_Exponential
    FloatDecimal <- MC_FloatDecimal
    Fields <- MC_IntegerFields
    EnumNames <- MC_EnumNames
    Words <- MC_Words
    TrueWords = {"on"}
    FalseWords = {"off"}
    Unset = Unset
    StartNodes <- MC_StartNodes
    SetValues <- MC_SetValues
    Subjects = {"setting"}
    Alphabet <- MC_Alphabet
    Bound <- MC_Bound

PROPERTIES
    TooLargeKeepsDefault
