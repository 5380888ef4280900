-------------------------------- MODULE Api --------------------------------
(***************************************************************************)
(* The library as its clients see it: what a builder and a router hold,    *)
(* and what each call may do to it.  Ownership makes a state machine of    *)
(* these operators, which Lifetime implements; the modules of the bindings *)
(* build on them.                                                          *)
(***************************************************************************)
EXTENDS Integers, SequencesExt

CONSTANTS Contexts,   \* what callers store with routes
          NULL,       \* no context
          Counting,   \* whether the options hold retain and release
          AllocFails  \* whether an allocation may fail
ASSUME ApiAssumption == {Counting, AllocFails} \subseteq BOOLEAN /\ NULL \notin Contexts

(* How often each context is held: once per route and fallback with it.    *)
Nothing == [c \in Contexts |-> 0]
With(held, c) == [d \in Contexts |-> held[d] + (IF d = c THEN 1 ELSE 0)]

(* held: what wrouter_builder_free will release; hollow: whether it will   *)
(* run into a null pointer doing so.                                       *)
NoBuilder == [open |-> FALSE, held |-> Nothing, corrupted |-> FALSE, hollow |-> FALSE]
NewBuilder(fallback) == [NoBuilder EXCEPT !.open = TRUE, !.held = With(Nothing, fallback)]

ApiBuilder == [open : BOOLEAN, held : [Contexts -> Nat], corrupted : BOOLEAN, hollow : BOOLEAN]

(* wrouter_add_route: the route is held, or the builder is corrupted.      *)
Added(b, c) ==
    IF b.corrupted THEN {} ELSE {[b EXCEPT !.held = With(@, c)]}
Spoilt(b) ==
    {[b EXCEPT !.corrupted = TRUE, !.hollow = (b.hollow \/ h)] : h \in {FALSE, Counting}}

(* What a call may die of.                                                 *)
CreateFaults == {"none"} \cup (IF Counting THEN {"null_deref"} ELSE {})
FreeFault(b) == IF b.hollow THEN "null_deref" ELSE "none"
CompileFaults(b) == {"none"} \cup (IF AllocFails /\ ~b.corrupted THEN {"double_free"} ELSE {})
=============================================================================
