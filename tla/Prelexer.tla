------------------------------ MODULE Prelexer ------------------------------
(***************************************************************************)
(* prelexer.c: the tokens of a route pattern.  The builder loads a pattern *)
(* and calls prelexer_next until the token is END, TRAILING or ILLEGAL,    *)
(* one call per step.                                                      *)
(*                                                                         *)
(* A text is a sequence of characters, without the NUL that ends it in     *)
(* memory.  One letter, one digit and one illegal character stand for all  *)
(* of their kind wherever a TLC instance chooses the texts.                *)
(***************************************************************************)
EXTENDS Naturals, SequencesExt

CONSTANTS Texts,      \* the patterns, and the request paths
          Syntaxes,   \* the parameter syntaxes builders are created with
          CharLimit,  \* LEXER_CHAR_LIMIT, 16 * 255
          MaxLength,  \* UINT16_MAX, the largest token length
          MaxCalls    \* bound: calls of a lexer on one text

COLON == "WROUTER_SYNTAX_COLON"
BRACE == "WROUTER_SYNTAX_BRACE"
ANGLE == "WROUTER_SYNTAX_ANGLE"

NUL == "NUL"

ASSUME LexerAssumption ==
    /\ {CharLimit, MaxLength, MaxCalls} \subseteq Nat /\ CharLimit <= MaxLength
    /\ \A t \in Texts : t \in Seq(ToSet(t)) /\ NUL \notin ToSet(t)
    /\ Syntaxes \subseteq {COLON, BRACE, ANGLE}

VARIABLES syntax, text, cursor,   \* prelexer_t; the cursor is a position, 0 for NULL
          tokens                  \* what prelexer_next has returned

preVars == <<syntax, text, cursor, tokens>>

Letters == {"a"}
Word == Letters \cup {"1", "_"}            \* isalnum, or an underscore
Illegals == {"*", "#", "?", " "}           \* with isspace and iscntrl

Char(i) == IF i \in DOMAIN text THEN text[i] ELSE NUL

Opening == CASE syntax = COLON -> ":" [] syntax = BRACE -> "{" [] syntax = ANGLE -> "<"
Closing == CASE syntax = COLON -> {} [] syntax = BRACE -> {"}"} [] syntax = ANGLE -> {">"}

(* The first position from i on, the end included, whose character is in   *)
(* the set, or is not in it.                                               *)
Find(i, set) == Min({j \in i..(Len(text) + 1) : j > Len(text) \/ Char(j) \in set})
FindOther(i, set) == Min({j \in i..(Len(text) + 1) : Char(j) \notin set})

Stop == {"END", "TRAILING", "ILLEGAL"}     \* the types that end the builder's loop
Ended(toks) == toks # <<>> /\ Last(toks).type \in Stop

Loads(t) == t # <<>> /\ t[1] = "/"

(* prelexer_init and prelexer_load; a failed load zeroes the syntax too.   *)
PreInit ==
    /\ text \in Texts
    /\ \/ Loads(text) /\ cursor = 1 /\ syntax \in Syntaxes
       \/ ~Loads(text) /\ cursor = 0 /\ syntax = COLON
    /\ tokens = <<>>

Calling == ~Ended(tokens) /\ Len(tokens) < MaxCalls

Emit(type, name, next) ==
    /\ tokens' = Append(tokens, [type |-> type, name |-> name])
    /\ cursor' = next
    /\ UNCHANGED <<syntax, text>>

(* The characters from start up to stop, by a length narrowed to 16 bits.  *)
Slice(start, stop) ==
    LET length == (stop - start) % (MaxLength + 1) IN SubSeq(text, start, start + length - 1)

EmitName(type, start, stop, next) ==
    IF stop - start > CharLimit THEN Emit("ILLEGAL", <<>>, stop)
    ELSE Emit(type, Slice(start, stop), next)

(* Where a segment starts: behind a slash, if there is one.                *)
Start == IF Char(cursor) = "/" THEN cursor + 1 ELSE cursor

NotLoaded == Calling /\ cursor = 0 /\ Emit("ILLEGAL", <<>>, 0)

EndOfPattern == Calling /\ cursor # 0 /\ Char(cursor) = NUL /\ Emit("END", <<>>, cursor)

LastSlash ==
    /\ Calling /\ cursor # 0 /\ Char(cursor) # NUL /\ Char(Start) = NUL
    /\ Emit(IF Start = 2 THEN "END" ELSE "TRAILING", <<>>, Start)

DoubleSlash == Calling /\ cursor # 0 /\ Char(Start) = "/" /\ Emit("ILLEGAL", <<>>, Start)

(* Mutant: the name of a parameter runs on to the next slash.              *)
ParamTokenToSlash ==
    /\ Calling /\ cursor # 0 /\ Char(Start) = Opening
    /\ LET start == Start + 1
           stop  == Find(start, {"/"})
       IN  EmitName("PARAM", start, stop, stop)

(* [A-Za-z][A-Za-z0-9_]*, then a slash, the end, or the closing bracket.   *)
ParamToken ==
    /\ Calling /\ cursor # 0 /\ Char(Start) = Opening
    /\ LET start == Start + 1
           stop  == FindOther(start, Word)
       IN  IF Char(start) \notin Letters THEN Emit("ILLEGAL", <<>>, start)
           ELSE IF Char(stop) \in Closing THEN EmitName("PARAM", start, stop, stop + 1)
           ELSE IF Char(stop) \in {"/", NUL} THEN EmitName("PARAM", start, stop, stop)
           ELSE Emit("ILLEGAL", <<>>, stop)

WildcardToken ==
    /\ Calling /\ cursor # 0 /\ Char(Start) = "*"
    /\ Emit(IF Char(Start + 1) \in {NUL, "/"} THEN "WILDCARD" ELSE "ILLEGAL", <<>>, Start + 1)

(* Mutant: illegal characters in a literal are let through.                *)
LiteralTokenStarred ==
    /\ Calling /\ cursor # 0 /\ Char(Start) \notin {NUL, "/", "*", Opening}
    /\ LET stop == Find(Start, {"/"}) IN EmitName("LITERAL", Start, stop, stop)

LiteralToken ==
    /\ Calling /\ cursor # 0 /\ Char(Start) \notin {NUL, "/", "*", Opening}
    /\ LET stop == Find(Start, {"/"} \cup Illegals)
       IN  IF Char(stop) \in Illegals THEN Emit("ILLEGAL", <<>>, stop)
           ELSE EmitName("LITERAL", Start, stop, stop)

PreNext == \/ NotLoaded \/ EndOfPattern \/ LastSlash \/ DoubleSlash
           \/ ParamToken \/ WildcardToken \/ LiteralToken

-----------------------------------------------------------------------------
(* The text that tokens are written as.                                    *)
Spelling(tok) ==
    CASE tok.type = "LITERAL"  -> <<"/">> \o tok.name
      [] tok.type = "PARAM"    -> <<"/", Opening>> \o tok.name \o SetToSeq(Closing)
      [] tok.type = "WILDCARD" -> <<"/", "*">>
      [] tok.type = "TRAILING" -> <<"/">>
      [] OTHER                 -> <<>>
Spelled(toks) == IF Len(toks) = 1 THEN <<"/">>
                 ELSE FlattenSeq([i \in DOMAIN toks |-> Spelling(toks[i])])

(* "Valid parameter names are [A-Za-z][A-Za-z0-9_]*" (prelexer.c:42).      *)
ProperName(s) == s # <<>> /\ Head(s) \in Letters /\ ToSet(s) \subseteq Word

(* What may stand between two slashes of a pattern in the colon syntax.    *)
ProperSegment(s) ==
    \/ s = <<"*">>
    \/ s[1] = ":" /\ ProperName(Tail(s)) /\ Len(Tail(s)) <= CharLimit
    \/ s[1] # ":" /\ ToSet(s) \cap Illegals = {} /\ Len(s) <= CharLimit

LegalPattern ==
    /\ Loads(text)
    /\ \A i \in DOMAIN text : text[i] = "/" =>
          LET s == SubSeq(text, i + 1, Find(i + 1, {"/"}) - 1)
          IN  IF s = <<>> THEN i = Len(text) ELSE ProperSegment(s)

Accepted == Ended(tokens) /\ Last(tokens).type # "ILLEGAL"

(* With the colon syntax, a pattern is accepted if and only if every one   *)
(* of its segments is legal, and then nothing of it is lost or read twice: *)
(* its tokens, written out again, are the pattern (prelexer_next).         *)
PatternsRoundTrip ==
    (Ended(tokens) /\ syntax = COLON) =>
        /\ Accepted <=> LegalPattern
        /\ Accepted => Spelled(tokens) = text

(* "A URL is divided into segments by the `/` character. A segment maybe   *)
(* either be a literal string, parameter, or wildcard" (README.md): so it  *)
(* is in every syntax.                                                     *)
SegmentsDividedBySlash == Accepted => Spelled(tokens) = text
=============================================================================
