------------------------------ MODULE Builder ------------------------------
(***************************************************************************)
(* builder.c: wrouter_add_route on a builder that wrouter_builder_create   *)
(* returned.  builder_add_route walks down the tree one token at a time,   *)
(* making the segments it misses; it may stop half way, at a conflict or   *)
(* for want of memory, and leaves what it has made.                        *)
(***************************************************************************)
EXTENDS Tree

CONSTANTS Patterns,    \* the patterns callers add, as token sequences
          MaxSymbols,  \* UINT16_MAX, the limit of a symbol table
          AllocFails,  \* whether an allocation may fail
          RefCounting  \* whether the options hold retain and release
ASSUME BuilderAssumption == /\ \A p \in Patterns : Tokenised(p)
                            /\ MaxSymbols \in Nat
                            /\ {AllocFails, RefCounting} \subseteq BOOLEAN

VARIABLES tree,        \* the segments below builder->root
          literals,    \* the literal symbol table, oldest entry first
          params,      \* the parameter symbol table
          corrupted,
          refs,        \* per context, retain calls less release calls
          cur,         \* builder_add_route: the segment reached,
          rest,        \*   the tokens still to come, none between calls,
          route,       \*   and the route being added
          err          \* what the last call returned

tables == <<literals, params>>
walk == <<cur, rest, route>>
vars == <<tree, literals, params, corrupted, refs, cur, rest, route, err>>

Walking == rest # <<>>
tok == Head(rest)
seg == tree[cur]

TypeOK ==
    /\ tree \in [DOMAIN tree -> Segment]
    /\ DOMAIN tree \subseteq Seq(Step)
    /\ Root \in DOMAIN tree /\ cur \in DOMAIN tree
    /\ literals \in Seq(Names) /\ params \in Seq(Names)
    /\ corrupted \in BOOLEAN
    /\ refs \in [Contexts -> Nat]
    /\ rest \in Seq(Token) /\ (Walking => Tokenised(rest))
    /\ route \in Contexts \cup {NULL} /\ (Walking => route \in Contexts)

Init ==
    /\ tree = [k \in {Root} |-> NewSegment]
    /\ literals = <<>> /\ params = <<>>
    /\ corrupted = FALSE
    /\ refs = [c \in Contexts |-> 0]
    /\ cur = Root /\ rest = <<>> /\ route = NULL
    /\ err = "OK"

(* Mutant: a failed addition leaves the builder usable.                    *)
ReturnUnmarked(e) ==
    /\ err' = e
    /\ UNCHANGED corrupted
    /\ cur' = Root /\ rest' = <<>> /\ route' = NULL

(* Leaving builder_add_route and, in wrouter_add_route, marking a failure. *)
Return(e) ==
    /\ err' = e
    /\ corrupted' = (corrupted \/ e # "OK")
    /\ cur' = Root /\ rest' = <<>> /\ route' = NULL

(* Entering the segment that the current token leads to.                   *)
Descend ==
    /\ cur' = Append(cur, tok)
    /\ rest' = Tail(rest)
    /\ UNCHANGED <<corrupted, err, route>>

AddRoute(p, c) ==
    /\ ~Walking
    /\ IF corrupted THEN Return("BUILDER_CORRUPTED")
       ELSE rest' = p /\ route' = c /\ cur' = Root /\ UNCHANGED <<corrupted, err>>
    /\ UNCHANGED <<tree, tables, refs>>

(* Mutant: release is called for retain.                                   *)
RetainedBackwards(c) == [refs EXCEPT ![c] = @ - 1]

Retained(c) == IF RefCounting THEN [refs EXCEPT ![c] = @ + 1] ELSE refs

(* builder_terminate: the context of the new terminal is retained.         *)
Terminate(newTree) ==
    /\ tree' = newTree
    /\ refs' = Retained(route)
    /\ Return("OK")
    /\ UNCHANGED tables

(* Mutant: no search for duplicates.                                       *)
InternAlways(table, n) == Append(table, n)

(* symbol_append on a table that is not full: a name is entered once.      *)
Intern(table, n) ==
    IF Contains(table, n) THEN table ELSE Append(table, n)
Full(table) == Len(table) >= MaxSymbols

-----------------------------------------------------------------------------
(* The errors that the code returns before it changes anything, in the     *)
(* order of its tests; "OK" when the token is acceptable here.             *)
(* Mutant: literals are let in beside a parameter.                         *)
LiteralConflictUnseen == "OK"

LiteralConflict == IF seg.spec = "SPEC_PARAM" THEN "LITERAL_CONFLICTS_WITH_PARAM" ELSE "OK"

(* Mutant: a parameter is refused where one of the same name stands.       *)
ParamConflictStrict ==
    CASE seg.spec = "SPEC_WILDCARD" -> "PARAM_CONFLICTS_WITH_WILDCARD"
      [] seg.spec # "SPEC_WILDCARD" /\ seg.children # <<>> -> "PARAM_CONFLICTS_WITH_LITERAL"
      [] seg.spec = "SPEC_PARAM" /\ seg.children = <<>> -> "PARAM_NAME_MISMATCH"
      [] OTHER -> "OK"

ParamConflict ==
    CASE seg.spec = "SPEC_WILDCARD" -> "PARAM_CONFLICTS_WITH_WILDCARD"
      [] seg.spec # "SPEC_WILDCARD" /\ seg.children # <<>> -> "PARAM_CONFLICTS_WITH_LITERAL"
      [] seg.spec = "SPEC_PARAM" /\ seg.children = <<>> /\ seg.param # tok.str
            -> "PARAM_NAME_MISMATCH"
      [] OTHER -> "OK"

(* Mutant: what follows a wildcard is not looked at.                       *)
WildcardConflictUnended ==
    CASE seg.spec = "SPEC_WILDCARD" -> "DUPLICATE_ROUTE"
      [] seg.spec = "SPEC_PARAM" -> "WILDCARD_CONFLICTS_WITH_PARAM"
      [] OTHER -> "OK"

WildcardConflict ==
    CASE seg.spec = "SPEC_WILDCARD" -> "DUPLICATE_ROUTE"
      [] seg.spec = "SPEC_PARAM" -> "WILDCARD_CONFLICTS_WITH_PARAM"
      [] seg.spec = "SPEC_NONE" /\ rest[2] # End -> "WILDCARD_NOT_FINAL"
      [] OTHER -> "OK"

Conflict ==
    CASE tok.type = "LITERAL"  -> LiteralConflict
      [] tok.type = "PARAM"    -> ParamConflict
      [] tok.type = "WILDCARD" -> WildcardConflict
      [] tok.type = "TRAILING" -> IF seg.trailing # NULL THEN "DUPLICATE_ROUTE" ELSE "OK"
      [] tok.type = "END"      -> IF seg.terminal # NULL THEN "DUPLICATE_ROUTE" ELSE "OK"
      [] OTHER -> "ILLEGAL_PATTERN"

Reject ==
    /\ Walking /\ Conflict # "OK"
    /\ Return(Conflict)
    /\ UNCHANGED <<tree, tables, refs>>

(* A token of the given type that the tests let through.                   *)
Admits(type) == Walking /\ Conflict = "OK" /\ tok.type = type

AddTerminal ==
    /\ Admits("END")
    /\ Terminate([tree EXCEPT ![cur].terminal = route])

AddTrailing ==
    /\ Admits("TRAILING")
    /\ Terminate([tree EXCEPT ![cur].trailing = route])

AddWildcard ==
    /\ Admits("WILDCARD")
    /\ Terminate([tree EXCEPT ![cur].spec = "SPEC_WILDCARD", ![cur].wildcard = route])

FollowLiteral ==
    /\ Admits("LITERAL") /\ FindChild(tree, cur, tok.str)
    /\ Descend
    /\ UNCHANGED <<tree, tables, refs>>

AddLiteral ==
    /\ Admits("LITERAL") /\ ~FindChild(tree, cur, tok.str)
    /\ ~Full(literals) /\ HasRoom(tree, cur)
    /\ literals' = Intern(literals, tok.str)
    /\ tree' = AppendChild(tree, cur, tok.str)
    /\ Descend
    /\ UNCHANGED <<params, refs>>

FollowParam ==
    /\ Admits("PARAM") /\ seg.spec = "SPEC_PARAM"
    /\ Descend
    /\ UNCHANGED <<tree, tables, refs>>

AddParam ==
    /\ Admits("PARAM") /\ seg.spec = "SPEC_NONE"
    /\ ~Full(params)
    /\ params' = Intern(params, tok.str)
    /\ tree' = SetParam([tree EXCEPT ![cur].spec = "SPEC_PARAM"], cur, tok.str)
    /\ Descend
    /\ UNCHANGED <<literals, refs>>

-----------------------------------------------------------------------------
(* Out of room: the symbol table is full, or the list of children is.  In  *)
(* the second case the name has been entered in the table already.         *)
LiteralOutOfRange ==
    /\ Admits("LITERAL") /\ ~FindChild(tree, cur, tok.str)
    /\ \/ Full(literals) /\ UNCHANGED literals
       \/ /\ ~Full(literals) /\ ~HasRoom(tree, cur)
          /\ literals' = Intern(literals, tok.str)
    /\ Return("OUT_OF_RANGE")
    /\ UNCHANGED <<tree, params, refs>>

(* spec_type is set before the parameter's segment exists.                 *)
ParamOutOfRange ==
    /\ Admits("PARAM") /\ seg.spec = "SPEC_NONE" /\ Full(params)
    /\ tree' = [tree EXCEPT ![cur].spec = "SPEC_PARAM"]
    /\ Return("OUT_OF_RANGE")
    /\ UNCHANGED <<tables, refs>>

(* Some allocation of this token's case fails: the segment's, the symbol's *)
(* or the terminal's.  The marks made before it stay.                      *)
OutOfMemory ==
    /\ AllocFails
    /\ \/ Admits("END") /\ UNCHANGED tree
       \/ Admits("TRAILING") /\ UNCHANGED tree
       \/ Admits("LITERAL") /\ ~FindChild(tree, cur, tok.str) /\ UNCHANGED tree
       \/ /\ Admits("PARAM") /\ seg.spec = "SPEC_NONE"
          /\ tree' = [tree EXCEPT ![cur].spec = "SPEC_PARAM"]
       \/ Admits("WILDCARD") /\ tree' = [tree EXCEPT ![cur].spec = "SPEC_WILDCARD"]
    /\ Return("NO_MEMORY")
    /\ UNCHANGED <<tables, refs>>

Walk ==
    \/ Reject \/ AddTerminal \/ AddTrailing \/ AddWildcard
    \/ FollowLiteral \/ AddLiteral \/ FollowParam \/ AddParam
    \/ LiteralOutOfRange \/ ParamOutOfRange \/ OutOfMemory

Next == (\E p \in Patterns, c \in Contexts : AddRoute(p, c)) \/ Walk

Spec == Init /\ [][Next]_vars

-----------------------------------------------------------------------------
(* The table of routes that the tree stands for.                           *)
Accepted == [r \in Held(tree) |-> HeldContext(tree, r)]

Table == INSTANCE RouteTable
            WITH table <- Accepted, asked <- cur \o rest, context <- route, answer <- err,
                 Exhausted <- {"OUT_OF_RANGE", "NO_MEMORY"}

(* The walk over shared segments (builder_add_route) adds a route entirely *)
(* or not at all, and answers with the first fault that the pattern shows  *)
(* against the routes accepted before, whatever order they came in and     *)
(* whatever earlier calls left in the tree.                                *)
ImplementsRouteTable == Table!TableSpec

(* No two routes of the tree break the README's constraints: wherever two  *)
(* of them part, no parameter stands against anything else.                *)
RoutesCompatible ==
    \A r, s \in Held(tree) : r # s => Compatible(r, s)

(* A refusal for a conflict is never spurious: the pattern is ill-formed   *)
(* or incompatible with some accepted route.  Compatible is symmetric, so  *)
(* a set of routes accepted in one order is accepted in every order        *)
(* (the tests retry conflicts "in opposite order").                        *)
RefusalsJustified ==
    [][ (Walking /\ err' # "OK" /\ rest' = <<>>) =>
          LET p == cur \o rest
          IN  \/ err' \in {"OUT_OF_RANGE", "NO_MEMORY"}
              \/ ~WellFormed(p)
              \/ \E r \in Held(tree) : ~Compatible(RouteOf(p), r)
      ]_vars

(* Between calls a builder that is not corrupted holds a tree fit for      *)
(* compilation: every pointer set, every segment on the way to a route.  A *)
(* walk that stops half way leaves its dead ends and null pointers only in *)
(* a builder that can no longer be compiled.                               *)
BuildsSoundTrees == (~Walking /\ ~corrupted) => SoundTree(tree)

(* The symbol tables of a sound tree hold the names of its segments, each  *)
(* once: compilation sorts them and finds every name it resolves.          *)
SymbolsExact ==
    ~corrupted =>
        /\ ToSet(literals) = {n \in Names : \E k \in DOMAIN tree : FindChild(tree, k, n)}
        /\ ToSet(params) = {tree[k].param : k \in DOMAIN tree} \ {NoName}
        /\ IsInjective(literals) /\ IsInjective(params)
=============================================================================
