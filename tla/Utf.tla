--------------------------------- MODULE Utf ---------------------------------
(***************************************************************************)
(* UTF-8 to and from the platform's wchar_t, whose units have 16 or 32     *)
(* bits.  Bytes, units and code points are numbers.                        *)
(***************************************************************************)
EXTENDS Naturals, Sequences, SequencesExt, FiniteSetsExt

Replacement == 65533
Planes == 17
MaxCodePoint == (Planes * 65536) - 1

HighSurrogates == 55296..56319
LowSurrogates == 56320..57343
Surrogates == HighSurrogates \cup LowSurrogates

Continuations == 128..191

-----------------------------------------------------------------------------
\* What a lead byte announces: how many bytes follow and its own bits.
Lead(byte) ==
    CASE byte \in 192..223 -> [extra |-> 1, bits |-> byte % 32]
      [] byte \in 224..239 -> [extra |-> 2, bits |-> byte % 16]
      [] byte \in 240..247 -> [extra |-> 3, bits |-> byte % 8]
      [] OTHER -> [extra |-> 0, bits |-> byte]

\* How many of the announced continuations are there, up to the first that is not.
Arrived(bytes, i, extra) ==
    Max({k \in 0..extra : \A j \in i + 1..i + k : j <= Len(bytes) /\ bytes[j] \in Continuations})

\* Variant with a bug: an overlong encoding is taken for what it spells.
ShortestAny(extra) == 0

\* The least code point that needs so many continuations.
Shortest(extra) == CASE extra = 1 -> 128 [] extra = 2 -> 2048 [] OTHER -> 65536

\* What a lead byte and the continuations after it spell.
Gathered(bytes, i, come) ==
    LET bits[k \in 0..come] ==
            IF k = 0 THEN Lead(bytes[i]).bits ELSE (bits[k - 1] * 64) + (bytes[i + k] % 64)
    IN  bits[come]

\* The code point at i and where the next one starts.  A damaged sequence is
\* consumed as far as its continuations have arrived.
DecodeUtf8(bytes, i) ==
    LET lead == Lead(bytes[i])
        come == Arrived(bytes, i, lead.extra)
        cp == Gathered(bytes, i, come)
        bad == \/ come < lead.extra
               \/ cp < Shortest(lead.extra)
               \/ cp \in Surrogates
               \/ cp > MaxCodePoint
    IN  [next |-> i + come + 1,
         cp |-> IF bytes[i] < 128 THEN bytes[i]
                ELSE IF lead.extra = 0 \/ bad THEN Replacement ELSE cp]

AppendWide(bits, cp) ==
    IF bits = 32 \/ cp < 65536 THEN <<cp>>
    ELSE <<55296 + ((cp - 65536) \div 1024), 56320 + ((cp - 65536) % 1024)>>

AppendUtf8(cp) ==
    LET Tail6(shift) == 128 + ((cp \div shift) % 64)
    IN  IF cp < 128 THEN <<cp>>
        ELSE IF cp < 2048 THEN <<192 + (cp \div 64), Tail6(1)>>
        ELSE IF cp < 65536 THEN <<224 + (cp \div 4096), Tail6(64), Tail6(1)>>
        ELSE <<240 + (cp \div (64 * 4096)), Tail6(4096), Tail6(64), Tail6(1)>>

Utf8ToWide(bits, bytes) ==
    LET from[i \in Nat \ {0}] ==
            IF i > Len(bytes) THEN <<>>
            ELSE LET decoded == DecodeUtf8(bytes, i)
                 IN  AppendWide(bits, decoded.cp) \o from[decoded.next]
    IN  from[1]

\* Of 16-bit units, a high and a low surrogate are one code point.
IsPair(bits, wide, i) ==
    /\ bits = 16
    /\ i < Len(wide)
    /\ wide[i] \in HighSurrogates
    /\ wide[i + 1] \in LowSurrogates

\* The code point that they spell.
FromPair(high, low) == 65536 + ((high - 55296) * 1024) + (low - 56320)

WideToUtf8(bits, wide) ==
    LET from[i \in Nat \ {0}] ==
            IF i > Len(wide) THEN <<>>
            ELSE IF IsPair(bits, wide, i)
            THEN AppendUtf8(FromPair(wide[i], wide[i + 1])) \o from[i + 2]
            ELSE AppendUtf8(IF wide[i] \in Surrogates \/ wide[i] > MaxCodePoint
                            THEN Replacement ELSE wide[i]) \o from[i + 1]
    IN  from[1]

-----------------------------------------------------------------------------
\* The well-formed sequences, as the JSON library accepts them in a string.
WellFormedSequences ==
    LET any == Continuations
    IN  {<<0..127>>, <<194..223, any>>,
         <<{224}, 160..191, any>>, <<225..236, any, any>>,
         <<{237}, 128..159, any>>, <<238..239, any, any>>,
         <<{240}, 144..191, any, any>>, <<241..243, any, any, any>>,
         <<{244}, 128..143, any, any>>}

WellFormedUtf8(bytes) ==
    LET wellFormed[i \in Nat \ {0}] ==
            \/ i > Len(bytes)
            \/ \E form \in WellFormedSequences :
                /\ i + Len(form) <= Len(bytes) + 1
                /\ \A k \in DOMAIN form : bytes[i + k - 1] \in form[k]
                /\ wellFormed[i + Len(form)]
    IN  wellFormed[1]

\* The plain characters, in their order.
Ascii(bytes) ==
    LET plain[k \in 0..Len(bytes)] ==
            IF k = 0 THEN <<>>
            ELSE IF bytes[k] < 128 THEN Append(plain[k - 1], bytes[k]) ELSE plain[k - 1]
    IN  plain[Len(bytes)]

-----------------------------------------------------------------------------
(* Properties of a text *)

\* A wide setting read from any bytes is written as a text the library accepts:
\* what was well formed comes back as it was, and damage costs no plain
\* character beside it (Utf.hpp:19-20).
BytesSurvive(bytes) ==
    \A bits \in {16, 32} :
        LET saved == WideToUtf8(bits, Utf8ToWide(bits, bytes))
        IN  /\ WellFormedUtf8(saved)
            /\ WellFormedUtf8(bytes) => saved = bytes
            /\ Ascii(saved) = Ascii(bytes)

IsCharacter(bits, wide, i) ==
    \/ wide[i] \notin Surrogates /\ wide[i] <= MaxCodePoint
    \/ IsPair(bits, wide, i)
    \/ i > 1 /\ IsPair(bits, wide, i - 1)

\* Whatever units the mod put into a wide setting, the file is well formed, and
\* it reads back as those units unless one of them was no character.
UnitsSurvive(bits, wide) ==
    LET saved == WideToUtf8(bits, wide)
    IN  /\ WellFormedUtf8(saved)
        /\ Ascii(saved) = Ascii(wide)
        /\ (\A i \in DOMAIN wide : IsCharacter(bits, wide, i)) => Utf8ToWide(bits, saved) = wide
==============================================================================
