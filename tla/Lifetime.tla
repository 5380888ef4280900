------------------------------ MODULE Lifetime ------------------------------
(***************************************************************************)
(* The life of a builder and of the routers compiled from it, in one       *)
(* thread of a C program: which contexts each of them has retained, which  *)
(* blocks are freed, and what happens when an allocation fails on the way  *)
(* (builder.c create/free, compiler.c, router.c free).                     *)
(***************************************************************************)
EXTENDS Builder

CONSTANTS Routers,    \* the routers that may be compiled from the builder
          Fallback,   \* the context of the fallback route
          MaxSize     \* UINT16_MAX: words of a graph, and terminals
ASSUME LifetimeAssumption ==
    Fallback \in Contexts /\ MaxSize \in Nat /\ IsFiniteSet(Routers)

VARIABLES builder,    \* "absent", "open" or "freed"
          router,     \* the same, "live" for "open", per router
          kept,       \* the terminals of each router: route to context
          consuming,  \* wrouter_consume has compiled and still must destroy
          fault       \* what the process died of

lifeVars == <<builder, router, kept, consuming, fault>>
allVars == <<vars, lifeVars>>

Faults == {"none", "null_deref", "double_free"}

LifeTypeOK ==
    /\ TypeOK
    /\ builder \in {"absent", "open", "freed"}
    /\ router \in [Routers -> {"absent", "live", "freed"}]
    /\ \A r \in Routers : kept[r] \in [DOMAIN kept[r] -> Contexts]
    /\ consuming \in BOOLEAN
    /\ fault \in Faults

LifeInit ==
    /\ Init
    /\ builder = "absent"
    /\ router = [r \in Routers |-> "absent"]
    /\ kept = [r \in Routers |-> <<>>]
    /\ consuming = FALSE
    /\ fault = "none"

Running == fault = "none"
Idle == Running /\ builder = "open" /\ ~Walking /\ ~consuming

treeVars == <<tree, literals, params, corrupted, cur, rest, route, err>>

(* Mutant: the fallback is not released.                                   *)
ReleaseTerminals(held) ==
    refs' = IF RefCounting THEN [c \in Contexts |-> refs[c] - held[c]] ELSE refs

(* Releasing a whole set of terminals, given the number held per context,  *)
(* and the fallback with it.                                               *)
ReleaseAll(held) ==
    refs' = IF RefCounting
            THEN [c \in Contexts |-> refs[c] - held[c] - (IF c = Fallback THEN 1 ELSE 0)]
            ELSE refs

-----------------------------------------------------------------------------
CreateBuilder ==
    /\ Running /\ builder = "absent"
    /\ builder' = "open"
    /\ refs' = Retained(Fallback)
    /\ UNCHANGED <<treeVars, router, kept, consuming, fault>>

(* The builder's own block, or its root, cannot be had.  In the second     *)
(* case the retained fallback is to be released by wrouter_builder_free,   *)
(* which starts at the root that does not exist.                           *)
CreateBuilderFails ==
    /\ Running /\ builder = "absent" /\ AllocFails
    /\ builder' = "freed"
    /\ fault' \in {"none", IF RefCounting THEN "null_deref" ELSE "none"}
    /\ UNCHANGED <<treeVars, refs, router, kept, consuming>>

Build ==
    /\ Running /\ builder = "open" /\ ~consuming
    /\ Next
    /\ UNCHANGED lifeVars

(* A segment whose special pointer is null although spec_type promises it. *)
Hollow(k) ==
    \/ tree[k].spec = "SPEC_PARAM" /\ tree[k].param = NoName
    \/ tree[k].spec = "SPEC_WILDCARD" /\ tree[k].wildcard = NULL

(* wrouter_builder_free: segment_release visits every segment, then the    *)
(* fallback is released and the segments, tables and builder are freed.    *)
DestroyBuilder ==
    /\ builder' = "freed"
    /\ consuming' = FALSE
    /\ IF RefCounting /\ \E k \in DOMAIN tree : Hollow(k)
       THEN fault' = "null_deref" /\ UNCHANGED refs
       ELSE ReleaseAll([c \in Contexts |-> HeldCount(tree, c)]) /\ UNCHANGED fault
    /\ UNCHANGED <<treeVars, router, kept>>

FreeBuilder == Idle /\ DestroyBuilder

ConsumeEnds == Running /\ consuming /\ DestroyBuilder

-----------------------------------------------------------------------------
(* wrouter_compile, alone or as the first half of wrouter_consume.         *)
Compile(r, consume) ==
    /\ Idle /\ router[r] = "absent"
    /\ consuming' = consume
    /\ UNCHANGED <<treeVars, builder>>

(* Mutant: a corrupted builder is compiled.                                *)
CompilableAlways == TRUE

Compilable == ~corrupted
InRange == GraphSize(tree) <= MaxSize /\ Cardinality(Held(tree)) <= MaxSize

CompileRefused(r, consume) ==
    /\ Compile(r, consume) /\ ~Compilable
    /\ UNCHANGED <<refs, router, kept, fault>>

(* The fallback is retained first; graph_compile then retains each         *)
(* terminal as it appends it.                                              *)
CompileSucceeds(r, consume) ==
    /\ Compile(r, consume) /\ Compilable /\ InRange
    /\ router' = [router EXCEPT ![r] = "live"]
    /\ kept' = [kept EXCEPT ![r] = Accepted]
    /\ refs' = IF RefCounting
               THEN [c \in Contexts |-> Retained(Fallback)[c] + HeldCount(tree, c)]
               ELSE refs
    /\ UNCHANGED fault

(* Mutant: the retained fallback is not released.                          *)
CompileOutOfRangeLeaking(r, consume) ==
    /\ Compile(r, consume) /\ Compilable /\ ~InRange
    /\ refs' = Retained(Fallback)
    /\ UNCHANGED <<router, kept, fault>>

(* The fallback is retained and released again.                            *)
CompileOutOfRange(r, consume) ==
    /\ Compile(r, consume) /\ Compilable /\ ~InRange
    /\ UNCHANGED <<refs, router, kept, fault>>

(* An allocation of wrouter_compile fails.  wrouter_free then undoes what  *)
(* was done: it releases the fallback, and no terminal, since none has     *)
(* been appended; and it frees the arrays of a symbol list or of the       *)
(* terminals again if their own failure path had freed one of the two.     *)
CompileOutOfMemory(r, consume) ==
    /\ Compile(r, consume) /\ Compilable /\ AllocFails
    /\ \/ UNCHANGED fault                        \* the router, the graph, or the first of a pair
       \/ InRange /\ fault' = "double_free"      \* the second of a pair
    /\ UNCHANGED <<refs, router, kept>>

(* wrouter_free.                                                           *)
FreeRouter(r) ==
    /\ Running /\ router[r] = "live" /\ ~consuming /\ ~Walking
    /\ router' = [router EXCEPT ![r] = "freed"]
    /\ ReleaseAll([c \in Contexts |-> Cardinality({p \in DOMAIN kept[r] : kept[r][p] = c})])
    /\ kept' = [kept EXCEPT ![r] = <<>>]
    /\ UNCHANGED <<treeVars, builder, consuming, fault>>

LifeNext ==
    \/ CreateBuilder \/ CreateBuilderFails \/ Build \/ FreeBuilder \/ ConsumeEnds
    \/ \E r \in Routers :
          \/ FreeRouter(r)
          \/ \E consume \in BOOLEAN :
                \/ CompileRefused(r, consume) \/ CompileSucceeds(r, consume)
                \/ CompileOutOfRange(r, consume) \/ CompileOutOfMemory(r, consume)

LifeSpec == LifeInit /\ [][LifeNext]_allVars
-----------------------------------------------------------------------------
HolderCount(c, count) == count + (IF c = Fallback THEN 1 ELSE 0)

(* Retain and release calls balance at every moment: a context is retained *)
(* once for each terminal and fallback of the builder and of every live    *)
(* router that holds it, whatever failed before and in whatever order they *)
(* are freed.  When all are gone the count is zero; while a router lives,  *)
(* what it can return is retained.                                         *)
RefsExact ==
    (Running /\ RefCounting) =>
        \A c \in Contexts :
            refs[c] = (IF builder = "open" THEN HolderCount(c, HeldCount(tree, c)) ELSE 0)
                      + MapThenSumSet(LAMBDA r : IF router[r] = "live"
                            THEN HolderCount(c, Cardinality({p \in DOMAIN kept[r] : kept[r][p] = c}))
                            ELSE 0, Routers)

(* What the builder and the routers hold, and the promise made of it.      *)
Holdings(count(_)) == [c \in Contexts |-> HolderCount(c, count(c))]

HeldByBuilder ==
    [open |-> builder = "open",
     held |-> IF builder = "open" THEN Holdings(LAMBDA c : HeldCount(tree, c)) ELSE [c \in Contexts |-> 0],
     corrupted |-> builder = "open" /\ corrupted,
     hollow |-> RefCounting /\ builder = "open" /\ \E k \in DOMAIN tree : Hollow(k)]
HeldByRouter(r) ==
    [live |-> router[r] = "live",
     held |-> IF router[r] = "live"
              THEN Holdings(LAMBDA c : Cardinality({p \in DOMAIN kept[r] : kept[r][p] = c}))
              ELSE [c \in Contexts |-> 0]]

Promise == INSTANCE Ownership
              WITH Counting <- RefCounting, lib <- HeldByBuilder,
                   routers <- [r \in Routers |-> HeldByRouter(r)], died <- fault

(* Clients may rely on the operators of Api: whatever calls fail, half way *)
(* through a pattern or a compilation, a builder holds the routes accepted *)
(* so far and a router what its builder held, contexts are retained as     *)
(* often as they are held, and only the known faults end a process.        *)
ImplementsOwnership == Promise!OwnSpec

(* A router is only ever compiled from a tree without dead ends or null    *)
(* special pointers, so graph_compile may follow all of them.              *)
CompiledTreesSound ==
    [][ (\E r \in Routers : router[r] = "absent" /\ router'[r] = "live") => SoundTree(tree)
      ]_allVars

(* A failed creation takes "the normal free path to release any retained   *)
(* fallback context" (builder.c:214), and no addition has failed yet.      *)
FailedCreationIsFreed == ~corrupted => fault # "null_deref"

(* wrouter_builder_free releases "all route contexts" of a builder that    *)
(* was created (builder.c:281), a corrupted one too.                       *)
CorruptedBuilderIsFreed == corrupted => fault # "null_deref"

(* wrouter_compile requires an error output "so failures can be reported"  *)
(* (compiler.c:22): it lives to report them.                               *)
CompileFailureIsReported == fault # "double_free"
=============================================================================
