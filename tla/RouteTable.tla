----------------------------- MODULE RouteTable -----------------------------
(***************************************************************************)
(* What a route builder promises, without the tree: a table of routes,     *)
(* each with the context it was given.  A pattern is asked for, and the    *)
(* answer comes in one step: it either enters the whole route or enters    *)
(* nothing and spoils the builder for good.  Which of the two depends on   *)
(* the pattern and on the routes already in the table alone, except that   *)
(* memory or an index range may run out.                                   *)
(***************************************************************************)
EXTENDS Routes

CONSTANTS Contexts,   \* what a route carries: its handler and context
          NULL,       \* no context
          Patterns,   \* the patterns callers add
          Exhausted   \* the errors a lack of room may give

VARIABLES table,      \* the routes: a function from route to context
          corrupted,  \* an addition has failed
          asked,      \* the pattern to be added, none between calls
          context,    \*   and the context it brings
          answer      \* what the last addition returned

tableVars == <<table, corrupted, asked, context, answer>>

TableInit ==
    /\ table = <<>> /\ corrupted = FALSE
    /\ asked = <<>> /\ context = NULL
    /\ answer = "OK"

Ask(p, c) ==
    /\ asked = <<>> /\ ~corrupted
    /\ asked' = p /\ context' = c
    /\ UNCHANGED <<table, corrupted, answer>>

Answer(e) ==
    /\ answer' = e
    /\ asked' = <<>> /\ context' = NULL
    /\ corrupted' = (corrupted \/ e # "OK")

AskCorrupted == asked = <<>> /\ corrupted /\ Answer("BUILDER_CORRUPTED") /\ UNCHANGED table

Accept ==
    /\ asked # <<>>
    /\ Verdict(DOMAIN table, asked) = "OK"
    /\ table' = [r \in DOMAIN table \cup {RouteOf(asked)} |->
                    IF r = RouteOf(asked) THEN context ELSE table[r]]
    /\ Answer("OK")

Refuse ==
    /\ asked # <<>>
    /\ \E e \in ({Verdict(DOMAIN table, asked)} \ {"OK"}) \cup Exhausted : Answer(e)
    /\ UNCHANGED table

TableNext ==
    \/ \E p \in Patterns, c \in Contexts : Ask(p, c)
    \/ AskCorrupted \/ Accept \/ Refuse

TableSpec == TableInit /\ [][TableNext]_tableVars
=============================================================================
