------------------------------- MODULE MCLexer -------------------------------
(* Small instances of Prelexer and Lexer for TLC.                            *)
EXTENDS Lexer

Alphabet == {"/", ":", "{", "}", "*", "a", "1", " "}

ShortTexts == (UNION {[1..n -> Alphabet] : n \in 0..1}) \cup
              (UNION {{<<"/">> \o s : s \in [1..n -> Alphabet]} : n \in 1..4})

(* Names at, and beyond, the limit; names longer than a length can hold.     *)
LongTexts ==
    LET a == "a"
    IN  { <<"/", a, a, a, a, a>>, <<"/", a, a, a, a, a, a>>, <<"/", ":", a, a, a, a, a, a>>,
          <<"/", a, a, a, a, a, a, a, a, a>>, <<"/", a, "/", "*", "/", a>>,
          <<"/", a, "/", "<", a, ">">>, <<"/", "<", a, ">", a>>, <<"/", "<", a>>,
          <<"/", "<", a, ">", "/">>, <<"/", "{", a, "}", "/", "{", a, "}">>,
          <<"/", ":", a, "/", ":", a, "/">>, <<"/", a, "/", a, "/", a>>,
          <<"/", a, "_", "/", "*">>, <<"/", "{", a, "_", "1", "}">> }

TextsDef == ShortTexts \cup LongTexts
SyntaxesDef == {COLON, BRACE, ANGLE}
=============================================================================
