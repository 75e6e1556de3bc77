-------------------------------- MODULE Jsonc --------------------------------
(***************************************************************************)
(* SanitiseJsonc, which takes trailing commas out of a text before the     *)
(* JSON library parses it, and the texts Write puts into a file.  A text   *)
(* is a sequence of characters; "BOM" stands for the three bytes of the    *)
(* byte order mark and "u0001" for the five characters after the backslash *)
(* of a \u escape.                                                         *)
(***************************************************************************)
EXTENDS Naturals, Sequences, SequencesExt, FiniteSetsExt

IsSpace(c) == c \in {" ", "\t", "\r", "\n"}
IsClosing(c) == c \in {"}", "]"}

-----------------------------------------------------------------------------
(* The scanner *)

StartsWith(text, i, second) == i < Len(text) /\ text[i] = "/" /\ text[i + 1] = second
StartsLineComment(text, i) == StartsWith(text, i, "/")
StartsBlockComment(text, i) == StartsWith(text, i, "*")
StartsComment(text, i) == StartsLineComment(text, i) \/ StartsBlockComment(text, i)

Past(text) == Len(text) + 1
FirstOf(positions, text) == IF positions = {} THEN Past(text) ELSE Min(positions)

\* A line comment ends before its line feed, a block comment after its slash.
SkipComment(text, i) ==
    IF StartsLineComment(text, i)
    THEN FirstOf({j \in i + 2..Len(text) : text[j] = "\n"}, text)
    ELSE FirstOf({j \in i + 4..Past(text) : text[j - 2] = "*" /\ text[j - 1] = "/"}, text)

\* Just past the string literal whose opening quote is at i.
SkipString(text, i) ==
    LET skip[j \in Nat \ {0}] ==
            IF j > Len(text) THEN Past(text)
            ELSE IF text[j] = "\\" THEN skip[j + 2]
            ELSE IF text[j] = "\"" THEN j + 1
            ELSE skip[j + 1]
    IN  skip[i + 1]

\* Variant with a bug: a comment after a comma carries meaning.
NextSignificantNoComments(text, i) ==
    FirstOf({j \in i..Len(text) : ~IsSpace(text[j])}, text)

\* Past white space and comments.
NextSignificant(text, i) ==
    LET next[j \in Nat \ {0}] ==
            IF j > Len(text) THEN Past(text)
            ELSE IF IsSpace(text[j]) THEN next[j + 1]
            ELSE IF StartsComment(text, j) THEN next[SkipComment(text, j)]
            ELSE j
    IN  next[i]

TrailingCommas(text) ==
    LET IsTrailing(i) ==
            LET next == NextSignificant(text, i + 1)
            IN  next <= Len(text) /\ IsClosing(text[next])
        scan[i \in Nat \ {0}] ==
            IF i > Len(text) THEN {}
            ELSE IF text[i] = "\"" THEN scan[SkipString(text, i)]
            ELSE IF StartsComment(text, i) THEN scan[SkipComment(text, i)]
            ELSE (IF text[i] = "," /\ IsTrailing(i) THEN {i} ELSE {}) \cup scan[i + 1]
    IN  scan[1]

StripBom(text) == IF text # <<>> /\ text[1] = "BOM" THEN Tail(text) ELSE text

Erase(text, positions) ==
    FlattenSeq([i \in DOMAIN text |-> IF i \in positions THEN <<>> ELSE <<text[i]>>])

SanitiseJsonc(text) == Erase(StripBom(text), TrailingCommas(StripBom(text)))

-----------------------------------------------------------------------------
(* The writer *)

EscapeLetter ==
    [c \in {"\"", "\\", "\n", "\r", "\t", "\f"} |->
        CASE c = "\n" -> "n" [] c = "\r" -> "r" [] c = "\t" -> "t" [] c = "\f" -> "f" [] OTHER -> c]
ControlEscape == [c \in {"^A"} |-> "u0001"]

\* Variant with a bug: a backslash passes through.
EscapedNotBackslash(c) ==
    IF c \in DOMAIN EscapeLetter \ {"\\"} THEN <<"\\", EscapeLetter[c]>>
    ELSE IF c \in DOMAIN ControlEscape THEN <<"\\", ControlEscape[c]>>
    ELSE <<c>>

Escaped(c) ==
    IF c \in DOMAIN EscapeLetter THEN <<"\\", EscapeLetter[c]>>
    ELSE IF c \in DOMAIN ControlEscape THEN <<"\\", ControlEscape[c]>>
    ELSE <<c>>

AppendJsonString(text) ==
    <<"\"">> \o FlattenSeq([k \in DOMAIN text |-> Escaped(text[k])]) \o <<"\"">>

\* One comment for each line of the help text.
AppendComment(text) ==
    <<"/", "/">>
        \o FlattenSeq([k \in DOMAIN text |->
                IF text[k] = "\n" THEN <<"\n", "/", "/">> ELSE <<text[k]>>])
        \o <<"\n">>

\* A member of a list, then the note and the value of the next one.
Rendered(text) ==
    AppendJsonString(text) \o <<",", "\n">> \o AppendComment(text) \o AppendJsonString(text) \o <<"]">>

-----------------------------------------------------------------------------
(* The JSON library's lexer, character by character: the mode it is in,    *)
(* the comma nothing has followed yet, the commas a bracket has followed,  *)
(* the string it is reading and those it has read.                         *)

LexerStart ==
    [mode |-> "code", at |-> 1, comma |-> 0, trailing |-> {}, reading |-> <<>>, strings |-> <<>>]

Unescaped(c) ==
    IF \E d \in DOMAIN EscapeLetter : EscapeLetter[d] = c
    THEN CHOOSE d \in DOMAIN EscapeLetter : EscapeLetter[d] = c
    ELSE IF \E d \in DOMAIN ControlEscape : ControlEscape[d] = c
    THEN CHOOSE d \in DOMAIN ControlEscape : ControlEscape[d] = c
    ELSE c

LexCode(lexer, c) ==
    CASE IsSpace(c) -> [lexer EXCEPT !.mode = "code"]
      [] c = "," -> [lexer EXCEPT !.mode = "code", !.comma = lexer.at]
      [] c = "\"" -> [lexer EXCEPT !.mode = "string", !.comma = 0, !.reading = <<>>]
      [] IsClosing(c) ->
            [lexer EXCEPT !.mode = "code", !.comma = 0,
                          !.trailing = @ \cup ({lexer.comma} \ {0})]
      [] OTHER -> [lexer EXCEPT !.mode = "code", !.comma = 0]

LexString(lexer, c) ==
    CASE c = "\\" -> [lexer EXCEPT !.mode = "escape"]
      [] c = "\"" -> [lexer EXCEPT !.mode = "code", !.strings = Append(@, lexer.reading)]
      [] OTHER -> [lexer EXCEPT !.reading = Append(@, c)]

LexMode(lexer, c) ==
    CASE lexer.mode = "code" ->
            IF c = "/" THEN [lexer EXCEPT !.mode = "slash"] ELSE LexCode(lexer, c)
      [] lexer.mode = "slash" ->
            IF c = "/" THEN [lexer EXCEPT !.mode = "line"]
            ELSE IF c = "*" THEN [lexer EXCEPT !.mode = "block"]
            ELSE LexCode([lexer EXCEPT !.comma = 0], c)
      [] lexer.mode = "line" ->
            IF c \in {"\n", "\r"} THEN [lexer EXCEPT !.mode = "code"] ELSE lexer
      [] lexer.mode = "block" ->
            IF c = "*" THEN [lexer EXCEPT !.mode = "star"] ELSE lexer
      [] lexer.mode = "star" ->
            IF c = "/" THEN [lexer EXCEPT !.mode = "code"]
            ELSE IF c = "*" THEN lexer
            ELSE [lexer EXCEPT !.mode = "block"]
      [] lexer.mode = "escape" ->
            [lexer EXCEPT !.mode = "string", !.reading = Append(@, Unescaped(c))]
      [] OTHER -> LexString(lexer, c)

LexChar(lexer, c) == [LexMode(lexer, c) EXCEPT !.at = @ + 1]

Lex(text) ==
    LET lex[k \in 0..Len(text)] == IF k = 0 THEN LexerStart ELSE LexChar(lex[k - 1], text[k])
    IN  lex[Len(text)]

-----------------------------------------------------------------------------
(* Properties of a text *)

\* A carriage return without a line feed ends a comment for the library and not
\* for the scanner.
BareReturn(text) ==
    \E i \in DOMAIN text : text[i] = "\r" /\ (i = Len(text) \/ text[i + 1] # "\n")

\* The commas taken out are exactly those the library would meet before a
\* bracket or a brace: what looks like one in a string or in a comment stays,
\* and comments between comma and bracket hide none (Jsonc.hpp:5-9).
CommasMatch(text) ==
    ~BareReturn(text) => TrailingCommas(StripBom(text)) = Lex(StripBom(text)).trailing

\* Whatever a setting or its help text holds, quotes, escapes, commas before
\* brackets and marks of comments included, a rendering comes through the
\* scanner unchanged and the library reads the text back.
RenderedSurvives(text) ==
    ~BareReturn(text) =>
        LET file == Rendered(text)
        IN  SanitiseJsonc(file) = file /\ Lex(file).strings = <<text, text>> /\ Lex(file).mode = "code"
==============================================================================
