------------------------------- MODULE Settings -------------------------------
(***************************************************************************)
(* One setting of a mod and the node of the file that spells it: the mod   *)
(* or its menu sets a value, a save writes it, a start loads what the file *)
(* says, and a person types something else.  Numbers are those of Numbers; *)
(* a text is the sequence of its tokens, of which each is a word or a      *)
(* number, so that one token alone can be read as a scalar and several are *)
(* a separated list.                                                       *)
(***************************************************************************)
EXTENDS Numbers, FiniteSets, SequencesExt

CONSTANTS
    Fields,         \* the fields a setting may have
    EnumNames,      \* the names of an enum: from words to ordinals
    Words,          \* the words of a text
    TrueWords, FalseWords,
    Unset,          \* the value of an optional without one
    StartNodes,     \* what the file may hold at first
    SetValues       \* SetValues[type]: what the mod may set such a field to

VARIABLES
    field,      \* the field: its type, range, flag and default
    node,       \* what the file holds for it
    value,      \* what the struct holds
    report,     \* the severest diagnostic of the last load
    last        \* what was done last: "load", "save" or "set"

settingVars == <<field, node, value, report, last>>

-----------------------------------------------------------------------------
(* Nodes *)

Null == [kind |-> "null"]
Bool(b) == [kind |-> "bool", bool |-> b]
Word(w) == [kind |-> "word", word |-> w]
Digits(x) == [kind |-> "number", number |-> x]
String(tokens) == [kind |-> "string", tokens |-> tokens]
List(items) == [kind |-> "list", items |-> items]

Tokens == [kind : {"word"}, word : Words] \cup [kind : {"number"}, number : Int]

\* What a file may hold for a setting; an element of a list is no list.
NoNode == {Null, NotJson, [kind |-> "object"]}
ScalarNodes ==
    NoNode \cup [kind : {"bool"}, bool : BOOLEAN] \cup Numerals
        \cup [kind : {"string"}, tokens : Seq(Tokens)]
Nodes == ScalarNodes \cup [kind : {"list"}, items : Seq(ScalarNodes)]

\* The word a text consists of, trimmed and without regard to case.
WordOf(n) ==
    IF n.kind # "string" \/ Len(n.tokens) # 1 THEN {}
    ELSE {t.word : t \in {u \in {n.tokens[1]} : u.kind = "word"}}

-----------------------------------------------------------------------------
(* Coerce *)

CoerceBool(n) ==
    IF n.kind = "bool" THEN {n.bool}
    ELSE {TRUE : w \in WordOf(n) \cap TrueWords}
            \cup {FALSE : w \in WordOf(n) \cap FalseWords}
            \cup {x # 0 : x \in CoerceDouble(n)}

CoerceUtf8(n) ==
    CASE n.kind = "string" -> {n.tokens}
      [] n.kind = "bool"   -> {<<Word(IF n.bool THEN "true" ELSE "false")>>}
      [] OTHER -> {<<Digits(x)>> : x \in IF AsInt64(n) # {} THEN AsInt64(n) ELSE AsDouble(n)}

-----------------------------------------------------------------------------
(* ValueTraits *)

ReadEnum(n) ==
    IF n.kind = "string" THEN {EnumNames[w] : w \in WordOf(n) \cap DOMAIN EnumNames}
    ELSE AsInt64(n) \cap {EnumNames[w] : w \in DOMAIN EnumNames}

ReadScalar(type, range, n) ==
    CASE type = "bool"   -> CoerceBool(n)
      [] type = "string" -> CoerceUtf8(n)
      [] type = "enum"   -> ReadEnum(n)
      [] OTHER           -> ReadNumber(type, range, n)

WriteEnum(v) ==
    LET names == {w \in DOMAIN EnumNames : EnumNames[w] = v}
    IN  IF names = {} THEN AppendJsonNumber(Double(v), FALSE)
        ELSE String(<<Word(CHOOSE w \in names : TRUE)>>)

WriteScalar(type, v) ==
    CASE type = "bool"   -> Bool(v)
      [] type = "string" -> String(v)
      [] type = "enum"   -> WriteEnum(v)
      [] OTHER           -> WriteNumber(type, v)

Lists == {"list", "set"}

\* The elements a list is read from: one separated string stands in for a list.
Elements(n) ==
    CASE n.kind = "string" -> [k \in DOMAIN n.tokens |-> String(<<n.tokens[k]>>)]
      [] n.kind = "list"   -> n.items
      [] OTHER             -> <<>>

\* One bad entry costs that entry alone.
ReadElements(f, n) ==
    LET elements == Elements(n)
        Readings(k) == ReadScalar(f.element, f.range, elements[k])
        read[k \in Nat] ==
            IF k = 0 THEN <<>>
            ELSE IF Readings(k) = {} THEN read[k - 1]
            ELSE Append(read[k - 1], CHOOSE v \in Readings(k) : TRUE)
    IN  read[Len(elements)]

\* A set of distinct elements, or a list of all of them.
Collected(f, read) == IF f.type = "set" THEN ToSet(read) ELSE read

ReadList(f, n) ==
    IF n.kind \notin {"string", "list"} THEN {}
    ELSE LET read == ReadElements(f, n)
         IN  {IF read = <<>> /\ f.keepDefaultIfEmpty THEN f.default ELSE Collected(f, read)}

WriteElements(f, v) ==
    LET elements == IF f.type = "set" THEN SetToSeq(v) ELSE v
        items == [k \in DOMAIN elements |-> WriteScalar(f.element, elements[k])]
    IN  IF \E k \in DOMAIN items : items[k] = NotJson THEN NotJson ELSE List(items)

\* What a fresh struct may hold after reading n; nothing if it keeps its default.
Read(f, n) ==
    CASE f.type \in Lists    -> ReadList(f, n)
      [] f.type = "optional" -> ReadScalar(f.element, f.range, n)
      [] OTHER               -> ReadScalar(f.type, f.range, n)

Write(f, v) ==
    CASE f.type \in Lists    -> WriteElements(f, v)
      [] f.type = "optional" -> IF v = Unset THEN Null ELSE WriteScalar(f.element, v)
      [] OTHER               -> WriteScalar(f.type, v)

\* Detail::Clamp and WarnUnreadable warn; a text that is no JSON is an Error.
Diagnose(f, n) ==
    LET type == IF f.type \in Lists \cup {"optional"} THEN f.element ELSE f.type
        read == IF f.type \in Lists THEN Elements(n) ELSE <<n>>
    IN  IF n = NotJson THEN "error"
        ELSE IF \/ Read(f, n) = {}
                \/ /\ type \in IntegerTypes \cup FloatingTypes
                   /\ \E k \in DOMAIN read : \E x \in Clamped(type, read[k]) : Outside(f.range, x)
             THEN "warning"
        ELSE "none"

-----------------------------------------------------------------------------
(* Values *)

ScalarTypes == IntegerTypes \cup FloatingTypes \cup {"bool", "string", "enum"}

\* What a variable of a type holds.
Holds(type, v) ==
    CASE type \in IntegerTypes -> Whole(v) /\ v \in Lowest(type)..Highest(type)
      [] type = "float"  -> v \in {Infinity, -Infinity} \/ (Finite(v) /\ Float(v) = v)
      [] type = "double" -> v \in Doubles
      [] type = "bool"   -> v \in BOOLEAN
      [] type = "enum"   -> Whole(v) /\ v \in Lowest("int64")..Highest("int64")
      [] OTHER           -> v \in Seq(Tokens)

Members(f, v) == IF f.type = "set" THEN v ELSE ToSet(v)

\* What a field's member of the struct holds.
FieldHolds(f, v) ==
    CASE f.type \in Lists ->
            /\ IF f.type = "set" THEN IsFiniteSet(v) ELSE v \in Seq(Members(f, v))
            /\ \A w \in Members(f, v) : Holds(f.element, w)
      [] f.type = "optional" -> v = Unset \/ Holds(f.element, v)
      [] OTHER -> Holds(f.type, v)

ASSUME SettingsAssumption ==
    /\ TrueWords \cap FalseWords = {}
    /\ TrueWords \cup FalseWords \cup DOMAIN EnumNames \cup {"true", "false"} \subseteq Words
    /\ \A word \in DOMAIN EnumNames : Holds("enum", EnumNames[word])
    /\ StartNodes \subseteq Nodes
    /\ \A f \in Fields :
        /\ f.type \in ScalarTypes \cup Lists \cup {"optional"} /\ f.element \in ScalarTypes
        /\ f.range \in {<<>>} \cup (Doubles \X Doubles)
        /\ f.keepDefaultIfEmpty \in BOOLEAN
        \* A 64-bit element may be read in two ways; lists of them are left out.
        /\ f.type \in Lists => f.element # "int64"
        /\ \A v \in {f.default} \cup SetValues[f.type] : FieldHolds(f, v)

-----------------------------------------------------------------------------
(* The setting *)

SettingInit ==
    /\ field \in Fields
    /\ node \in StartNodes
    /\ value = field.default
    /\ report = "none"
    /\ last = "set"

\* A start loads the file into a fresh struct.
Load ==
    /\ value' \in IF node = NotJson \/ Read(field, node) = {} THEN {field.default}
                  ELSE Read(field, node)
    /\ report' = Diagnose(field, node)
    /\ last' = "load"
    /\ UNCHANGED <<field, node>>

\* Nothing is written over a file that does not parse.
Save ==
    /\ node # NotJson
    /\ node' = Write(field, value)
    /\ last' = "save"
    /\ UNCHANGED <<field, value, report>>

Set(v) ==
    /\ value' = v
    /\ last' = "set"
    /\ UNCHANGED <<field, node, report>>

SettingNext == Load \/ Save \/ \E v \in SetValues[field.type] : Set(v)

-----------------------------------------------------------------------------
(* Properties *)

SettingTypeOK ==
    /\ field \in Fields
    /\ node \in Nodes
    /\ FieldHolds(field, value)
    /\ report \in {"none", "warning", "error"} /\ last \in {"load", "save", "set"}

\* The double that a load makes of a number a save has written.
Reread(type, v) == Double(IF type = "float" THEN FloatDecimal[v] ELSE v)

\* A float is written as its shortest decimal and read through a double: rounding
\* twice may end elsewhere than rounding once where the double is exactly between
\* two floats and the decimal is not.  A file spells 7.038531e-26 for the float
\* 0x15AE43FD and loads it as 0x15AE43FE (Write.cpp:87-90, Traits.hpp:98-103).
RoundedTwice(v) == LET x == Reread("float", v) IN x # FloatDecimal[v] /\ Halfway(x)

\* Values that no file spells: a uint64, which Read never accepts; a 64-bit
\* integer that is no double; a float's infinity, or one that is rounded twice; an
\* enum value without a name; a number that is out of the field's range, in the
\* struct and in the file, so that a load clamps it.
UnspelledScalar(type, range, v) ==
    CASE type = "uint64" -> TRUE
      [] type \in (IntegerTypes \ {"uint64"}) \cup FloatingTypes ->
            \/ ~Finite(v)
            \/ IF type = "float" THEN RoundedTwice(v) ELSE Double(v) # v
            \/ Outside(range, v) /\ Outside(range, Reread(type, v))
      [] type = "enum" -> \A w \in DOMAIN EnumNames : EnumNames[w] # v
      [] OTHER -> FALSE

\* And those a load takes for no answer: an empty list where the field keeps its
\* default, an unset optional.
Unspelled(f, v) ==
    CASE f.type \in Lists ->
            \/ Members(f, v) = {} /\ f.keepDefaultIfEmpty
            \/ \E w \in Members(f, v) : UnspelledScalar(f.element, f.range, w)
      [] f.type = "optional" -> v = Unset \/ UnspelledScalar(f.element, f.range, v)
      [] OTHER -> UnspelledScalar(f.type, f.range, v)

\* "The shortest form that reads back as the same value" (Write.hpp:38): what is
\* saved loads as it was, for every value of every type but the unspelled.
WrittenReadsBack ==
    [][last = "save" /\ last' = "load" => value' = value \/ Unspelled(field, value)]_settingVars

\* The number a node spells.
Spelled(n) ==
    IF n.kind = "number" THEN {n.number}
    ELSE {t.number : t \in {u \in (IF n.kind = "string" /\ Len(n.tokens) = 1
                                   THEN {n.tokens[1]} ELSE {}) : u.kind = "number"}}

\* The three numbers that a load alters in silence, against that line.  What is
\* an unsigned integer of the library above the signed 64 bits wraps.
Wraps(n, x) == n.kind = "number" /\ n.form = "unsigned" /\ x > Highest("int64")

\* What an int64 field is given passes through a double, which may be another
\* number, or 2^63, of which the cast is undefined.
ThroughDouble(type, x) ==
    type = "int64" /\ (Double(x) # x \/ Trunc(Double(x)) > Highest("int64"))

\* What is beyond the largest float is cast to an infinity.
BeyondFloat(x) == ~Finite(Float(Double(x)))

\* "Something was discarded or altered" is a Warning (Diagnostics.hpp:31-33): a
\* number that loads without one is the number in the file, cut to a whole one, or
\* rounded to a double or a finite float, as the type asks.  What goes through a
\* double is at least a cast of that double.
NoSilentChange ==
    [][last' = "load" /\ report' = "none" =>
        \A x \in Spelled(node) :
            CASE field.type \in IntegerTypes ->
                    \/ value' = Trunc(x)
                    \/ Wraps(node, x)
                    \/ ThroughDouble(field.type, x) /\ value' \in ToInt64(Double(x))
              [] field.type = "float" -> value' = Float(Double(x)) \/ BeyondFloat(x)
              [] field.type = "double" -> value' = Double(x)
              [] OTHER -> TRUE]_settingVars

\* "An integer too large for its target keeps the default, so one digit too many
\* avoids silently wrapping" (README.md:183-184).
TooLargeKeepsDefault ==
    [][last' = "load" /\ field.type \in IntegerTypes /\ field.range = <<>> =>
        \A x \in Spelled(node) : x > Highest(field.type) => value' = field.default]_settingVars
===============================================================================
