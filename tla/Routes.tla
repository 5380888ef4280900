------------------------------- MODULE Routes -------------------------------
(***************************************************************************)
(* Route patterns, as the builder sees them: the sequence of tokens that   *)
(* prelexer_next returns for a pattern string (token.h, builder.c:51-52).  *)
(* A literal or parameter token carries a name; names are the positive     *)
(* naturals, ordered as strcmp orders the strings they stand for.          *)
(*                                                                         *)
(* A *route* is what an accepted pattern denotes: its literal and          *)
(* parameter steps followed by the one token that terminates it.           *)
(***************************************************************************)
EXTENDS Naturals, SequencesExt

CONSTANT Names        \* the literal and parameter names in use
ASSUME NamesAssumption == Names \subseteq Nat \ {0}

NoName == 0           \* the NULL string

Lit(n) == [type |-> "LITERAL", str |-> n]
Par(n) == [type |-> "PARAM",   str |-> n]
Wildcard == [type |-> "WILDCARD", str |-> NoName]
Trailing == [type |-> "TRAILING", str |-> NoName]
End      == [type |-> "END",      str |-> NoName]
Illegal  == [type |-> "ILLEGAL",  str |-> NoName]

Literals == {Lit(n) : n \in Names}
Params   == {Par(n) : n \in Names}
Step     == Literals \cup Params           \* what a segment can be entered by
Terminator == {Wildcard, Trailing, End}    \* what a route can end with
Token    == Step \cup Terminator \cup {Illegal}

(* What the prelexer can produce: END, TRAILING and ILLEGAL stop it, and   *)
(* nothing else does.                                                      *)
Tokenised(p) ==
    /\ p \in Seq(Token)
    /\ p # <<>>
    /\ \A i \in 1..Len(p) :
          (i = Len(p)) <=> (p[i] \in {Trailing, End, Illegal})

(* Nothing illegal, and a wildcard only as the last segment.               *)
WellFormed(p) ==
    \A i \in 1..Len(p) : /\ p[i] # Illegal
                         /\ p[i] = Wildcard => p[i + 1] = End

(* The route of a well-formed pattern: the END that follows a wildcard is  *)
(* not part of it.                                                         *)
RouteOf(p) ==
    IF Len(p) > 1 /\ p[Len(p) - 1] = Wildcard THEN SubSeq(p, 1, Len(p) - 1) ELSE p

Prefix(s, k) == SubSeq(s, 1, k)

(* Two tokens that cannot follow the same prefix: a parameter excludes     *)
(* every other literal, parameter and wildcard.                            *)
Clash(a, b) ==
    /\ a # b
    /\ {a, b} \cap Params # {}
    /\ {a, b} \subseteq Params \cup Literals \cup {Wildcard}

(* The constraints of the README, on whole routes: distinct, and wherever  *)
(* they part they part on tokens that do not clash.                        *)
Compatible(r, s) ==
    /\ r # s
    /\ \A k \in 1..Len(r) :
          (k <= Len(s) /\ Prefix(r, k - 1) = Prefix(s, k - 1)) => ~Clash(r[k], s[k])

-----------------------------------------------------------------------------
(* The tokens that known routes have after the first k tokens of p.        *)
Followers(routes, p, k) ==
    {r[k + 1] : r \in {s \in routes : Len(s) > k /\ Prefix(s, k) = Prefix(p, k)}}

(* What is wrong with token k of pattern p when the known routes are       *)
(* given.  The order of the tests is the order of builder_add_route.       *)
Fault(routes, p, k) ==
    LET F == Followers(routes, p, k - 1)
        tok == p[k]
    IN  CASE tok \in Literals ->
               IF F \cap Params # {} THEN "LITERAL_CONFLICTS_WITH_PARAM" ELSE "OK"
          [] tok \in Params ->
               IF Wildcard \in F THEN "PARAM_CONFLICTS_WITH_WILDCARD"
               ELSE IF F \cap Literals # {} THEN "PARAM_CONFLICTS_WITH_LITERAL"
               ELSE IF F \cap Params \subseteq {tok} THEN "OK" ELSE "PARAM_NAME_MISMATCH"
          [] tok = Wildcard ->
               IF Wildcard \in F THEN "DUPLICATE_ROUTE"
               ELSE IF F \cap Params # {} THEN "WILDCARD_CONFLICTS_WITH_PARAM"
               ELSE IF p[k + 1] # End THEN "WILDCARD_NOT_FINAL" ELSE "OK"
          [] tok \in {Trailing, End} ->
               IF tok \in F THEN "DUPLICATE_ROUTE" ELSE "OK"
          [] OTHER -> "ILLEGAL_PATTERN"

(* The first fault from the left, or OK: what adding p must answer.        *)
Verdict(routes, p) ==
    LET faults == {k \in 1..Len(p) : Fault(routes, p, k) # "OK"}
    IN  IF faults = {} THEN "OK"
        ELSE Fault(routes, p, CHOOSE k \in faults : \A j \in faults : k <= j)
=============================================================================
