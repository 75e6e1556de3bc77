SPECIFICATION Spec

CONSTANTS
    WideHalf = 32
    NarrowHalf = 4
    DoubleBits = 4
    FloatBits = 2
    DoubleMax = 480
    FloatMax = 192
    Exponential <- MC_Exponential
    FloatDecimal <- MC_FloatDecimal
    Fields <- MC_Fields
    EnumNames <- MC_EnumNames
    Words <- MC_Words
    TrueWords = {"on"}
    FalseWords = {"off"}
    Unset = Unset
    StartNodes <- MC_StartNodes
    SetValues <- MC_SetValues
    Subjects = {"setting", "file", "value", "bytes", "units16", "units32"}
    Alphabet <- MC_Alphabet
    Bound <- MC_Bound

INVARIANTS
    TypeOK
    TrailingCommasMatch
    RenderedTextSurvives
    WideTextSurvives

PROPERTIES
    WrittenReadsBack
    NoSilentChange

\* A text that has grown to its bound stops.
CHECK_DEADLOCK FALSE
