-------------------------------- MODULE Lexer --------------------------------
(***************************************************************************)
(* lexer.c: the tokens of a request path.  The text that the prelexer has  *)
(* read as a pattern is then loaded as a request, with its length and      *)
(* without a terminator, so that the two can be compared.  lexer_next may  *)
(* be called again after the token that ends route_match's loop.           *)
(***************************************************************************)
EXTENDS Prelexer

VARIABLES at,      \* lexer_t: the cursor, 0 for NULL
          found    \* what lexer_next has returned

lexVars == <<preVars, at, found>>

(* Mutant: no limit on the size of a request.                              *)
LexLoadUnlimited == IF Loads(text) THEN 1 ELSE 0

LexLoad == IF Loads(text) /\ Len(text) <= CharLimit THEN 1 ELSE 0

LexInit == PreInit /\ found = <<>> /\ at = LexLoad

Requested == Ended(tokens) /\ Len(found) < MaxCalls

Return(type, name, next) ==
    /\ found' = Append(found, [type |-> type, name |-> name])
    /\ at' = next
    /\ UNCHANGED preVars

NullRequest == Requested /\ at = 0 /\ Return("ILLEGAL", <<>>, at)

EndOfPath == Requested /\ at = Len(text) + 1 /\ Return("END", <<>>, at)

(* A slash at the very end: the root, or a trailing slash.                 *)
SlashAtEnd ==
    /\ Requested /\ at = Len(text) /\ Char(at) = "/"
    /\ Return(IF at = 1 THEN "END" ELSE "TRAILING", <<>>, at)

AtSegment == Requested /\ at \in 1..Len(text) /\ ~(at = Len(text) /\ Char(at) = "/")
SegmentEnd == Find(at + 1, {"/"} \cup Illegals)

(* Mutant: the cursor moves on to what is illegal.                         *)
IllegalSegmentPassed ==
    /\ AtSegment /\ (Char(at + 1) = "/" \/ Char(SegmentEnd) \in Illegals)
    /\ Return("ILLEGAL", <<>>, SegmentEnd)

(* A double slash, or an illegal character; the cursor stays.              *)
IllegalSegment ==
    /\ AtSegment /\ (Char(at + 1) = "/" \/ Char(SegmentEnd) \in Illegals)
    /\ Return("ILLEGAL", <<>>, at)

(* Mutant: the cursor is not saved.                                        *)
LiteralSegmentStuck ==
    /\ AtSegment /\ Char(at + 1) # "/" /\ Char(SegmentEnd) \notin Illegals
    /\ Return("LITERAL", Slice(at + 1, SegmentEnd), at)

LiteralSegment ==
    /\ AtSegment /\ Char(at + 1) # "/" /\ Char(SegmentEnd) \notin Illegals
    /\ Return("LITERAL", Slice(at + 1, SegmentEnd), SegmentEnd)

LexNext == NullRequest \/ EndOfPath \/ SlashAtEnd \/ IllegalSegment \/ LiteralSegment

Next == (PreNext /\ UNCHANGED <<at, found>>) \/ LexNext

(* The callers' loops call again until a token stops them.                 *)
LexerSpec == LexInit /\ [][Next]_lexVars /\ WF_lexVars(Next)
-----------------------------------------------------------------------------
(* The tokens that route_match sees: up to the first that stops it.        *)
Stopped == {i \in DOMAIN found : found[i].type \in Stop}
Seen == SubSeq(found, 1, Min(Stopped))
Answered == Stopped # {}

Legal == /\ Loads(text) /\ Len(text) <= CharLimit
         /\ ToSet(text) \cap Illegals = {}
         /\ \A i \in 1..(Len(text) - 1) : ~(text[i] = "/" /\ text[i + 1] = "/")

(* A request's tokens, written out again, are the request, to its last     *)
(* character and whatever the width of a length; ILLEGAL is returned for   *)
(* illegal requests and for no others.                                     *)
RequestsRoundTrip ==
    Answered => IF Last(Seen).type = "ILLEGAL" THEN ~Legal
                ELSE Legal /\ Spelled(Seen) = text

(* A pattern without parameters and wildcards is requested by its own      *)
(* text: the two lexers agree on it, and on what is illegal in a literal.  *)
OwnTextMatches ==
    (Answered /\ Accepted /\ Len(text) <= CharLimit
        /\ \A i \in DOMAIN tokens : tokens[i].type \notin {"PARAM", "WILDCARD"})
    => Seen = tokens

(* The lexer "should never advance beyond ILLEGAL, even if called          *)
(* repeatedly" (tests/test_lexer.c), nor beyond END or TRAILING.           *)
NeverAdvancesBeyondStop ==
    \A i \in Stopped : i < Len(found) => found[i + 1] = found[i]

(* Both loops end: every pattern and every path comes to a token that      *)
(* stops its reader.                                                       *)
ReadersStop == <>(Ended(tokens) /\ Answered)
=============================================================================
