---------------------------- MODULE Conversions_MC ----------------------------
(***************************************************************************)
(* Small instances of Conversions.  Numbers are counted in halves; a       *)
(* narrow integer is one of -4..3 or 0..7, a wide one of -32..31 or 0..63, *)
(* a double has four significant bits and a float two.  The literals       *)
(* stand on both sides of every edge these widths have.                    *)
(***************************************************************************)
EXTENDS Conversions, TLC

MC_Exponential == {6, 20, -20, 64}

\* Most floats are their own decimals here.  That of 96 is read as 112, exactly
\* between 96 and 128, and goes to 128, which is even; that of 64 is read as 80,
\* between 64 and 96, and comes back; those of 128 and 192 are read as doubles
\* beside them.
MC_FloatDecimal ==
    (64 :> 78) @@ (96 :> 110) @@ (128 :> 140) @@ (192 :> 170) @@ [v \in Floats |-> v]

MC_Words == {"on", "off", "true", "false", "quiet", "loud", "x"}

MC_EnumNames == ("quiet" :> 0) @@ ("loud" :> 4)

Plain(type, default) ==
    [type |-> type, element |-> type, range |-> <<>>, keepDefaultIfEmpty |-> FALSE,
     default |-> default]
Ranged(type, default) == [Plain(type, default) EXCEPT !.range = <<2, 8>>]
Of(type, element, default, keep) ==
    [Plain(type, default) EXCEPT !.element = element, !.keepDefaultIfEmpty = keep]

MC_Fields ==
    {Plain(type, 0) : type \in IntegerTypes \cup FloatingTypes \cup {"enum"}}
    \cup {Ranged(type, 2) : type \in {"int", "int64", "float"}}
    \cup {Plain("bool", FALSE), Plain("string", <<>>),
          Of("list", "int", <<2>>, TRUE), Of("list", "enum", <<0>>, FALSE),
          [Of("list", "float", <<>>, TRUE) EXCEPT !.range = <<2, 8>>],
          Of("set", "int", {}, TRUE), Of("set", "string", {}, FALSE),
          Of("optional", "int", Unset, FALSE), Of("optional", "bool", TRUE, FALSE)}

MC_IntegerFields == {Plain("int", 0), Plain("unsigned", 0)}

Literals ==
    {-66, -64, -20, -10, -8, -3, 0, 1, 2, 3, 4, 9, 14, 16, 20, 31, 33, 62, 64, 66, 74, 126, 128, 208, 240, 480}
TooLarge == 600     \* for a double

\* Every literal as it is, and with a fraction or an exponent; every literal in
\* quotes; words; separated texts; lists with good and bad entries.
MC_StartNodes ==
    {Null, Bool(TRUE), NotJson, [kind |-> "object"]}
    \cup {ParseLiteral([number |-> x, fractional |-> f]) : x \in Literals, f \in BOOLEAN}
    \cup {String(<<Digits(x)>>) : x \in Literals \cup {TooLarge}}
    \cup {String(<<Word(w)>>) : w \in {"on", "off", "quiet", "x"}}
    \cup {String(<<>>), String(<<Digits(4), Word("x")>>), String(<<Word("loud"), Digits(TooLarge)>>)}
    \cup {List(<<>>), List(<<Null, Number("unsigned", 4), Number("unsigned", 4)>>),
          List(<<String(<<Word("quiet")>>), Number("signed", -10)>>)}

MC_SetValues ==
    [type \in IntegerTypes |-> {Lowest(type), Lowest(type) + 2, 6, Highest(type)}]
    @@ ("float" :> {-3, 6, 64, 96, 128, 192})
    @@ ("double" :> {-3, 9, 480})
    @@ ("enum" :> {2, 4})
    @@ ("bool" :> BOOLEAN)
    @@ ("string" :> {<<>>, <<Digits(4)>>, <<Word("x"), Word("on")>>})
    @@ ("list" :> {<<>>, <<4, 4, 0>>, <<4, 2>>})
    @@ ("set" :> {{}})
    @@ ("optional" :> {Unset})

\* The bytes and units at the edges of the encodings.
MC_Alphabet ==
    ("file" :> {"\"", "\\", "/", "*", ",", "]", "\n", "\r"})
    @@ ("value" :> {"\"", "\\", "/", "*", ",", "]", "\n", "\r", "^A", "BOM"})
    @@ ("bytes" :> {65, 128, 143, 144, 159, 160, 191, 193, 194, 224, 237, 240, 244, 245, 255})
    @@ ("units16" :> {65, 128, 2048, 55296, 56319, 56320, 57343, 65535})
    @@ ("units32" :> {65, 127, 2047, 55295, 55296, 57343, 65536, 1114111, 1114112})

MC_Bound ==
    ("file" :> 6) @@ ("value" :> 4) @@ ("bytes" :> 4) @@ ("units16" :> 4) @@ ("units32" :> 3)
===============================================================================
