# libwrouter in TLA+

libwrouter routes request paths. A *builder* takes route patterns
(`/board/:id/*`) and grows a tree of segments; the *compiler* flattens the tree
into a graph of 16-bit words, the *router*, which never changes again; any
number of *dispatchers*, each owned by one thread, resolve request paths against
one router. Three bindings put these objects under the ownership rules of Erlang,
Python and C++. These modules model the library and its bindings, check the models
with TLC and prove most of their invariants and both refinements with TLAPS.

Paths such as `builder.c:107` are relative to the library's `src/` directory; `bindings/...` and
`tests/...` are relative to the repository.

## 1. Inventory

| Part | State | Operations | Talks to |
|---|---|---|---|
| prelexer (`prelexer.c`) | cursor, parameter syntax | `init`, `load`, `next` | called by the builder, one token at a time |
| builder (`builder.c`) | tree, two symbol tables, `corrupted`, fallback, callbacks | `create`, `add_route` (and three wrappers), `free`, `destroy` | segments, symbols; calls `retain`/`release` |
| segments (`segment.c`) | children list, special union and its type, terminal, trailing | `create`, `append_child`, `find_child`, `free`, `release` | symbol tables |
| symbols (`symbol.c`, `arena.c`) | growing table over an arena; sorted list in a router | `append`, `compile`, `resolve`, `nresolve`, `lookup` | builder, compiler, matcher |
| compiler (`compiler.c`, `graph.c`) | statistics, write cursor | `graph_stats`, `graph_compile`, `compile`, `consume` | reads the tree, writes graph and terminals, retains contexts |
| terminals (`terminal.c`) | parallel arrays of offsets and routes | `alloc`, `append`, `lookup` | compiler, matcher |
| matcher (`router.c`) | graph cursor, remembered wildcard | `route_match`, `free` | lexer, symbols, terminals, parameters |
| dispatcher (`dispatcher.c`) | lexer, parameter array | `create`, `dispatch`, `resolve`, `free` | a shared router; calls handlers |
| lexer (`lexer.c`) | request, cursor | `load`, `next` | matcher |
| parameters (`params.c`) | array and count; snapshots | `next`, `param`, `copy` | handlers |
| Python binding (`bindings/python`) | objects with reference counts; references held by native builders and routers | construct, `add`, `compile`, `build_router`, `resolve`, deallocators | the public API; `Py_INCREF`/`Py_DECREF` as retain and release |
| Erlang binding (`bindings/erlang`) | resources, copied terms with counts of their own | `new`, `resolve`, the resource's destructor | the public API; the VM's scheduler threads and resources |
| C++ binding (`bindings/cpp`) | owning objects that can be moved, handlers beside them | `add`, `consume`, moves, `dispatch`, destructors | the public API; `handler_trampoline` |
| errors (`errors.c`) | none | messages | |

What is hard about it:

* **Partial failure.** `builder_add_route` changes the tree token by token and
  returns from the middle at a conflict, a limit or a failed allocation. It undoes
  nothing; it relies on `corrupted` to keep the half-made tree from being used.
  `spec_type` is set before the pointer it promises exists.
* **Order.** Conflicts are only tested against what a walk meets, yet whether a set
  of routes is acceptable must not depend on the order of the additions.
* **Agreement of separate passes.** `graph_stats` sizes what `graph_compile` fills;
  the binary search over terminals assumes an order that only the traversal gives;
  edges are sorted after their targets are known; the array of parameters is sized
  by a count that the matcher never compares with.
* **State carried far.** The matcher remembers a wildcard and uses it many tokens
  later; a dispatcher is used again for the next request; a router is shared.
* **Ownership.** Contexts are retained and released from three places (builder,
  compiler, router), in any order, with failures in between; the bindings add owners
  of their own: counted objects, resources that the VM destroys in some thread at some
  later time, and vectors of handlers that must move when the native object does.
* **Re-entrance.** A handler may dispatch again on the dispatcher that called it, whose
  parameters are then overwritten while the first handler still has a pointer to them.
* **Numbers.** Lengths are narrowed to 16 bits, sizes are compared with a limit before
  they are added, bytes are compared as signed and as unsigned characters.

What makes each part correct: the builder accepts exactly the patterns that are
compatible with those accepted before, entirely or not at all; a tree that can be
compiled has no dead ends and no null pointers; the graph is the tree; a path finds
the route that fits it exactly, or the most specific wildcard, or the fallback, with
that route's parameters; retain and release calls balance; a snapshot of parameters
answers like the parameters it was made of; what a binding hands out stays allocated
for as long as its language says it may be used.

## 2. Modules

| Module | Models | Extends |
|---|---|---|
| `Routes` | tokens, routes, the constraints between routes | |
| `RouteTable` | *abstract*: a table of routes; a pattern is asked for, then answered in one step | `Routes` |
| `Tree` | segments and trees, what a tree stands for | `Routes` |
| `Builder` | `wrouter_add_route`, one token per step | `Tree` |
| `History` | `Builder` with a log of the routes accepted | `Builder` |
| `Lifetime` | create, compile, consume, free; reference counts | `Builder` |
| `Graph` | `graph_stats`, `graph_compile`, terminals, symbols | `Tree` |
| `Match` | dispatchers in threads, `route_match` | `Graph` |
| `Prelexer` | `prelexer.c` over characters, one call per step | |
| `Lexer` | `lexer.c`, on the text that the prelexer has read | `Prelexer` |
| `Arena` | `arena.c`, one pass of the loop per step | |
| `Symbols` | `symbol.c`: the growing table and the compiled list | `Arena` |
| `Handlers` | `dispatcher.c`, `params.c`, handlers that dispatch again, snapshots | |
| `Api` | what builders and routers hold, as operators | |
| `Ownership` | *abstract*: a builder, routers, and what they hold | `Api` |
| `Erlang` | `wrouter_nif.c` in processes on several threads | `Api` |
| `Python` | `Builder`, `Router`, `Dispatcher` objects, `build_router` | `Api` |
| `Cpp` | `wrouter.hpp`, `wrouter.cpp`: objects that own, move and throw | `Api` |
| `DataProofs` | lemmas about sums over sets, recursion and concatenation | |
| `BuilderProofs` | theorems about `Builder`, `History` and `Lifetime`; the refinements of `RouteTable` and `Ownership` | `Lifetime`, `History`, `DataProofs` |
| `GraphProofs` | theorems about `Graph`: counting, writing | `Graph`, `DataProofs` |
| `MatchProofs` | theorems about `Graph` as it is read, and about `Match` | `Match`, `GraphProofs` |
| `StringsProofs` | theorems about `Prelexer`, `Lexer`, `Arena` and `Symbols` | these, `DataProofs` |
| `HandlersProofs` | theorems about `Handlers` | `Handlers`, `DataProofs` |
| `BindingsProofs` | theorems about `Erlang` and `Python` | these, `DataProofs` |
| `CppProofs` | theorems about `Cpp` | `Cpp` |
| `MC...` | instances for TLC | |

The modules meet at three seams. `Tokenised` (in `Routes`) is what `Builder` and
`Match` assume of the lexers. `Tree` is what `Graph` assumes of `Builder`. `Api` is what
the bindings assume of the library, and `Lifetime` is shown to implement it
(`ImplementsOwnership`).

**Names and tokens.** A name is a positive natural, ordered as `strcmp` orders the
strings; 0 is the null string. A pattern is the token sequence the prelexer returns for
it, a request path the sequence the lexer returns. `Tokenised` says what such sequences
look like: END, TRAILING and ILLEGAL are final and nothing else is.

**Trees.** The pointer structure is a function from *ways* (sequences of literal and
parameter steps from the root) to records. A child pointer is the way one step longer;
`special.param` is the parameter's name; a null special pointer under a set `spec_type`
is `NoName` or `NULL` there. Two segments never share a way, as two children of a
segment never share a name (`Builder` refuses to make one; `AddLiteral` would
overwrite a segment if it did, which `TreeIsCanonical` would show).

**Builder.** `AddRoute` is the call; then each step is one pass of the loop of
`builder_add_route`: `Reject` for the tests that come before any change, the `Add...`
and `Follow...` actions for what they let through, `LiteralOutOfRange`,
`ParamOutOfRange` and `OutOfMemory` for failures after that, with exactly the marks
the code leaves behind. `Return` is the exit, where `wrouter_add_route` sets
`corrupted`. When `symbol_append` fails for want of memory it may leave a slot counted
and not filled; the builder is corrupted from then on and nothing reads the slot, so
the model leaves the table unchanged.

**Lifetime.** One thread, one builder, several routers. `Build` is any step of
`Builder`. Compilation is one action per outcome: the code up to the range check
only reads the tree, and no other code runs meanwhile. A process that followed a null
pointer or freed a block twice has stopped (`fault`); that is undefined behaviour in
C, and the model stops there rather than choosing a continuation.

**Graph.** The recursion of the two traversals is an explicit stack; a `node` entry
is a pending call, a `leaf` the wildcard or trailing node that follows the calls,
a `sort` the `qsort` after a segment's literals. A caller stores an edge when the call returns; the
model stores it when the callee's first word is written, which no code in between
reads. The 16-bit casts are `Narrow`. `MaxSize` stands for `UINT16_MAX` and
`LinearSearch` for the 16 below which lists are scanned.

**Match.** One token per step and dispatcher. A parameter's value is the position in
the path where it starts. Writing beyond the parameter array is undefined; the
dispatcher's `pc` is then `"undefined"` and it takes no more steps. Handlers are not
called: the answer is the context found. `MatchFairSpec` adds that a thread inside
`route_match` is scheduled.

**Prelexer and Lexer.** A text is a sequence of characters; one letter, digit, blank
and so on stands for its class. Each step is one call of `prelexer_next` or
`lexer_next`, with one action per way out of the function. After a stopping token of
the prelexer the same text is loaded as a request, so that the two can be compared on
it. `CharLimit` stands for the limit of 16 * 255 characters and `MaxLength` for the
width of the 16-bit `length` of a token, by which `Slice` cuts; `MaxCalls` bounds the
calls made after the token that stopped a reader.

**Arena.** A call takes one step per pass of the loop: allocate in the tail if it has
room, else go on to a new block. An address is a block and an offset; of what `malloc`
returns only the remainder by the alignments matters (`Bases`).

**Symbols.** `symbol_append` is split where the arena is called, since the slot has by
then been counted and is filled afterwards. A failed call ends the appends, as the
builder is corrupted by it, but not the table's life. `symbol_compile` sorts by
`strcmp` and lays the strings in one region of `arena_used` bytes; the searches
compare with `symbol_ncompare` and `symbol_compare`, through `bsearch` of libc.
Strings are sequences of bytes, 200 among them, so that signed and unsigned characters
differ.

**Handlers.** A stack of frames, one per call of a handler that has not returned. The
dispatcher's array points into the text of its last request, and a text is freed when
the call it was given to has returned. A frame of a C++ callable owns a snapshot made
before it is called (`handler_trampoline`); clients keep copies. `MaxSize` is the limit
of 65535 bytes and `SizeMod` the width of `size_t`.

**Api and Ownership.** A builder is what it holds per context, whether it is corrupted,
and whether it is *hollow*, that is, has a null pointer that its release will follow.
`Added`, `Spoilt` and the faults are what a call may do to it. `Ownership` is the state
machine of these operators; `HeldByBuilder` and `HeldByRouter` in `Lifetime` are the
refinement mapping, computed from the tree and the terminals.

**Erlang.** Several processes run `new_nif` and `resolve_nif` on scheduler threads of
their own, one library call or one change of a count per step; nothing locks the
counts of contexts. `Send` and `Drop` are what processes do with terms of a router, and
`Destroy` is the destructor of a resource, at any time after the last term is gone.
Lists may hold malformed elements, and every allocation may fail.

**Python.** Every call holds the interpreter's lock from its start to its end, so a
call is a step, with the deallocators that it sets off. Threads pass references to
each other and drop them in any order. `Failing` names the constructors that may
run out of memory, none in `python_build_router`, and `BuildRouter` says whether the
program uses `build_router`.

**Cpp.** One thread and the variables of its program; `made` is a variable's lifetime.
A moved-from object has no native one. `threw` marks a builder whose `push_back` threw
`bad_alloc` after the route was added, when the route has lost its handler. Calls on a
builder without a native one end the process (`AddToNone`), for the library reads a
null pointer.

## 3. Properties and runs

| Run | Instance | Properties |
|---|---|---|
| `builder` | 3 names, 22 patterns, at most 3 routes, failing allocations, 2 children per segment, 3 symbols per table | `TypeOK`, `RoutesCompatible`, `BuildsSoundTrees`, `TreeIsCanonical`, `SymbolsExact`, `ImplementsRouteTable`, `RefusalsJustified` |
| `lifetime` | 1 builder, 2 routers, graphs of at most 7 words | `LifeTypeOK`, `RefsExact`, `CompiledTreesSound`, `ImplementsOwnership` |
| `match` | trees of up to 4 of 12 routes, compiled; trees of up to 3 of 14 routes, compiled and matched by one thread; 3 trees matched by two | `TerminalsSorted`, `FillsAllocation`, `GraphIsTree`, `MaxParamsExact`, `ExactRouteFound`, `WildcardIsMostSpecific`, `FallbackIsLast`, `RequestsAnswered` |
| `lexer` | all texts of up to 5 of 8 characters behind a slash, and longer ones at the limits; 3 syntaxes | `PatternsRoundTrip`, `RequestsRoundTrip`, `OwnTextMatches`, `NeverAdvancesBeyondStop`, `ReadersStop` |
| `tables` | blocks of 6 bytes; a program's allocations of 1, 3 and 9 bytes, aligned to 1 or 4; or a table of at most 5 of 6 strings of up to 3 bytes, which starts at 1 slot | `AllocationsApart`, `SlotsFilled`, `RegionFilledExactly`, `ResolvesExactly` |
| `handlers` | 4 requests, 2 calls deep, 2 kept snapshots, regions of at most 11 bytes | `SnapshotsFaithful`, `SnapshotsWithinLimit`, `HandlersSeeTheirOwn` |
| `erlang` | 2 processes, 2 resources, 2 contexts, lists of at most 2 | `ContextsCounted`, `ContextsUnshared`, `NoUseAfterFree`, `CallsAnswer` |
| `python` | 2 threads, one context and one block of memory for each class | `CountsExact`, `DispatchersResolve` |
| `cpp` | 2 variables each for builders and routers, 2 native routers, 2 handlers, 1 dispatcher | `OwnedOnce`, `HandlersBesideRoutes`, `DispatchersKeepRouters` |

What they say:

* `ImplementsRouteTable` is the refinement of `RouteTable`: the tree, read as the set
  of routes it holds, changes only when the whole route asked for enters with its
  context, and every answer is the first fault from the left of the pattern asked for
  against the routes *accepted* before. The only other answers are those for a lack of
  room. The pattern asked for is `cur \o rest`, the way walked and the tokens to come.
* `RoutesCompatible` and `RefusalsJustified` together say that acceptance does not
  depend on order: accepted routes are pairwise compatible, refused ones are not
  compatible with some accepted route, and the relation is symmetric.
* `BuildsSoundTrees` and `CompiledTreesSound`: dead ends and null pointers exist only
  in a builder that is in the middle of a call or corrupted, and no router is compiled
  from one.
* `TreeIsCanonical` compares the tree with the one computed from the list of
  accepted routes alone, the children in the order of `segment_append_child`.
* `RefsExact`: retain calls less release calls is the number of holders, at every moment,
  after every failure that leaves the process alive.
* `FillsAllocation`, `TerminalsSorted`, `GraphIsTree`: the buffers are filled exactly,
  the searches find what they need sorted, and reading the finished words with the
  matcher's own rules gives back the tree, each terminal under its own offset.
* `MaxParamsExact`: `max_params` is the most parameters a single route binds.
* `ExactRouteFound`, `WildcardIsMostSpecific`, `FallbackIsLast`: what a request is
  answered with, said of routes and not of the graph, for every history of requests of
  this and of other dispatchers. `RequestsAnswered`: every request is.
* `ImplementsOwnership` is the refinement of `Ownership`: a call that fails anywhere,
  half way through a pattern or a compilation, leaves builder and routers holding what
  `Api` says, and only the library's known faults end a process.
* `PatternsRoundTrip`, `RequestsRoundTrip`: the tokens, written out again, are the text,
  exactly when all of its segments are legal. `OwnTextMatches`: the two lexers agree on
  a pattern of literals, which the matcher relies on and nothing in the code enforces.
  `NeverAdvancesBeyondStop`: `lexer_next`, called again, stays where it stopped (the
  prelexer is not called again in the model). `ReadersStop`: both loops end.
* `AllocationsApart`: nothing overlaps, and a block just made holds the allocation it was
  made for, so that the arena's loop makes no second one. `RegionFilledExactly`: the measure by which the
  region of a compiled list is allocated counts every byte that is then written.
* `SlotsFilled`: no search reads a slot that a failure left counted and not filled.
  `ResolvesExactly`: the order that sorts and the two that search agree on every string.
* `SnapshotsFaithful`, `HandlersSeeTheirOwn`: nested dispatches, freed requests and
  copies of copies never change what a snapshot or a callable's parameters say;
  `SnapshotsWithinLimit`: no comparison of sizes wraps round.
* `ContextsCounted`, `NoUseAfterFree`, `ContextsUnshared`: an Erlang context lives
  exactly as long as something holds it, and its unlocked count is never reached from
  two threads. `CallsAnswer`: no NIF call hangs.
* `CountsExact`, `DispatchersResolve`: a Python object's count is the number of
  references to it, wherever deallocators run, and a dispatcher keeps everything it can
  return.
* `OwnedOnce`, `HandlersBesideRoutes`, `DispatchersKeepRouters`: in C++, moves and
  failures neither lose nor share an owner, and a handler stays with the routes that
  call it.

**Bounds.** Conflicts and prefixes are between two routes at one segment; three routes
give a failed walk over segments shared with two others, and two names give equal
and different ones. The patterns of `builder` hold every pair of token types at the
root and one level down. `MaxRoutes` is a state constraint on accepted routes only:
calls that fail are never cut off. The third names let both symbol tables and a child list run
full in the middle of a pattern. `MaxSize = 25` in `match` is passed by some trees
and refused for others; `LinearSearch = 1` makes both searches happen in lists of two
and three. Trees of three routes are compiled in every order of the additions; larger ones, and
those matched by one thread, in one order, since edges are sorted. A single thread's first
request may be any of about 70 paths of up to 4 segments, later ones are three that
bind, get lost and end; two threads interleave 15 paths in every order.
In `lifetime`, `MaxSize = 7` puts some trees out of range.
In `lexer` the limit falls inside names and behind them, and one name is longer than a
length can hold. Blocks of 6 bytes in `tables` are left with no room, with room that
the padding takes, and replaced by a larger one for 9. Five symbols make the table grow three
times, from every number of slots to the limit; its names are prefixes of each
other and differ in bytes above 127. In `handlers` one set of parameters fills the
limit exactly and one passes it with its last value; two calls deep is one handler
called inside another. `erlang` has room for two calls that make routers at once or for one
router that is resolved in one process and dropped in the other. In `python` and `cpp`
names are reused after what they named was freed, so histories are unbounded;
`MaxHeld` caps the references one thread holds to one object, `MaxRoutes` the routes of
a builder. Permutations of threads, and of objects and variables in `cpp`, are
symmetries: nothing tells them apart, and these two runs check invariants only.

Deadlock is checked in `builder` and in `handlers`, where a call can always be
made; the other systems end (everything freed, the graph finished or refused, a
dispatcher's state undefined, a process dead, a text read).

**Fairness** is assumed in three places. Weak fairness of the lexers' steps: their
callers are loops without another way out than a token that stops them
(`builder.c:51`, `router.c:52`), so `ReadersStop` asks whether the lexers end these
loops. Weak fairness of each dispatcher's `MatchStep`: a thread in `route_match` waits
for nothing. Weak fairness of each Erlang process's `Work`: a NIF call, once begun, is run to its
end by its scheduler. New requests, new calls, sends, drops and destructors are never
promised to happen.

Every property of a passing run has a mutant: a definition marked *Mutant* in the
modules, a plausible slip in the code it stands next to, under which TLC finds the
property violated.

## 4. Where the code and its documentation disagree

Three have a run that checks one property and finds it violated.

| Run | Statement | What happens |
|---|---|---|
| `params_overrun` | `graph.c:59` "Reserve space for wildcard parameter." | With `/a/*` and `/a/:x`-like routes below another branch (`/a/b/:y/c`), the path `/a/b/1/2` binds `:y` and then, lost, the wildcard: two entries in an array of one. |
| `corrupted_free` | `builder.c:281` "Release all route contexts." | A failed addition leaves `spec_type` set and its pointer null, and the release follows it. |
| `python_build_router` | `bindings/python/NOTES:3` a context "is always a PyObject"; `graph.c:113` says that Python needs the retain callback | `build_router` gives no callbacks (`wroutermodule.c:56`): a context that the program drops is freed while the router returns it. |

Six more are stated as properties beside these. They are part of no run; TLC refutes
each when it takes the place of the properties in the configuration named.

| Property | Configuration | Statement | What happens |
|---|---|---|---|
| `WildcardsAreFallback` | `MCMatch` | README, Constraints: "Wildcards are evaluated as a fallback. The most specific wildcard will match." | With `/a/*` and `/a/b/c`, the path `/a/b` is not found: only a literal without an edge takes the wildcard. |
| `IllegalPathsFallBack` | `MCMatch` | `tests/test_router.c:757` "Illegal paths should not match the wildcard and fallback instead." | The wildcard is taken before the rest of the path is lexed. |
| `FailedCreationIsFreed` | `MCLifetime` | `builder.c:214` "Use the normal free path to release any retained fallback context." | That path starts from the root segment, whose allocation is what failed. |
| `CompileFailureIsReported` | `MCLifetime` | `compiler.c:22` "Require an error output so failures can be reported." | An array whose partner could not be allocated is freed twice before the report. |
| `SegmentsDividedBySlash` | `MCLexer` | `README.md:170` "A URL is divided into segments by the `/` character." | `{id}foo` is read as the parameter and then a literal, as `{id}/foo` is. |
| `FailedDispatchersHarmless` | `MCPython` | `tests/test_dispatcher.py:219` expects reference counting to be correct | When `PyDispatcher_new` fails, `Py_DECREF(self)` runs the deallocator, and the failure path then frees and drops the same things again (`dispatcher.c:63`). |

The first is also why `WildcardIsMostSpecific` only asks for the route's own parameters
first and the wildcard's last: the parameters bound below the wildcard stay in between.

## 5. Proofs

Each theorem holds for every value of the constants that satisfies the named assumptions of
its module. What is assumed is what the code or its language gives: names are positive and
limits natural, patterns are `Tokenised`, strings are nonempty sequences of bytes without a NUL,
texts are sequences without a NUL, `LEXER_CHAR_LIMIT` is not above what a token's length can hold,
alignments are positive, `NULL` and the kinds of objects are different things, and there are
finitely many processes, threads, objects and routers at a time. A tree that is compiled is finite
and sound, which `SoundTreesCompiled` proves of every tree that `Lifetime` compiles, and
no segment of it has more literals than `NODE_LITERALS_MASK` can count, which `Builder` refuses
to add; the record of the fallback is none of the records of routes, for it lies in another
allocation. Where a property is not inductive, the invariant that is was checked with TLC on
the instance of the run, except those of `Graph` and `Match`, which say that offsets *exist* and
so cannot be evaluated.

| Module | Inductive invariant | Properties that follow |
|---|---|---|
| `BuilderProofs` | `IInv` | `TypeOK`, `RoutesCompatible` |
| | `SInv` (over `IInv`) | `BuildsSoundTrees`, `SymbolsExact` |
| | `RInv` (over `SInv`) | `ImplementsRouteTable`, `RefusalsJustified` |
| | `HInv` (over `RInv`) | `TreeIsCanonical` |
| | `LInv` (over `RInv`) | `LifeTypeOK`, `RefsExact`, `CompiledTreesSound`, `ImplementsOwnership` |
| `GraphProofs` | `CountInv` | `MaxParamsExact` |
| | `CompileInv` (over `CountInv`) | `FillsAllocation`, `TerminalsSorted` |
| `MatchProofs` | the same two | `GraphIsTree` |
| | `MatchInv` (over both) | `ExactRouteFound`, `WildcardIsMostSpecific`, `FallbackIsLast` |
| `StringsProofs` | `LInv` | `RequestsRoundTrip`, `NeverAdvancesBeyondStop` |
| | `PatternsInv` | `PatternsRoundTrip` |
| | `OwnInv` (over both) | `OwnTextMatches` |
| | `AInv` | `AllocationsApart` of an arena |
| | `TInv` (over `AInv`) | `SlotsFilled`, `AllocationsApart` of a table |
| | `RoomInv`, `CompiledInv` (over `TInv`) | `RegionFilledExactly`, `ResolvesExactly` |
| `HandlersProofs` | `HInv` | `SnapshotsFaithful`, `SnapshotsWithinLimit`, `HandlersSeeTheirOwn` |
| `BindingsProofs` | `EInv` | `NoUseAfterFree`, `ContextsCounted`, `ContextsUnshared` |
| | `PInv` | `CountsExact`, `DispatchersResolve` |
| `CppProofs` | `CppInv` | `OwnedOnce`, `HandlersBesideRoutes`, `DispatchersKeepRouters` |

**The builder.** `TypeOK` needs that a child or a parameter that a segment names exists
(`FollowLiteral` and `FollowParam` go there); `RoutesCompatible` speaks of whole routes while a
step looks at one segment. `IInv == TypeOK /\ Shape(tree)` has what both need:

* `Pointers`: named children and parameters exist;
* `Paths`: for every segment and every position on its way, the prefix is a segment that
  has the next step. It is stated for all positions at once, so that no induction
  over the length of a way is needed;
* `Exclusive`: a parameter excludes children and a wildcard.

`Shape` holds at every moment, in the middle of calls and in corrupted builders.
`ShapeCompatible` derives the property: two routes of the tree that agree up to some segment
both continue with steps that this segment has, and `Exclusive` leaves no two that clash.

`SInv` adds what a corrupted builder lacks: no null pointer, symbol tables that hold the
tree's names, and no dead end, except the way of the walk. The exception is the point: in the
middle of a call the new segments lead nowhere, and every way out of the call either fills a slot
at the end of that way (`ArrivedSound`) or sets `corrupted`.

`RInv` adds `NoFaultSoFar`: the part of the pattern behind the walk has no fault against the routes
held. With it, the test that a step makes of one segment (`Conflict`) is the first fault of the
whole pattern (`ConflictIsFault`), which is the answer that `RouteTable` gives in one step. An
accepted pattern has no fault at all, and one step fills the slot that makes the whole
route appear in `Held`; all other steps map to a stutter. `OrderIrrelevant` completes the
argument on order: compatibility is symmetric.

**History.** `HInv` adds the log: until a call fails it lists the routes that the tree holds, with
their contexts, and of two children of a segment the older is needed by a route accepted before any
that needs the younger (`OldestFirst`). A new child is needed by no accepted route yet. When a route
is accepted and needs a child, an older sibling of that child is not on the way walked, so it leads
to an older route: there are no dead ends (`OrderAdded`). `CanonicalTree` then computes the tree
from the log, part by part of a segment; the children are the first uses of the literals in
ascending order, which is unique (`ClimbsOrdered`).

**Lifetime.** `LInv` says of every context that its count is the builder's share plus the sum of the
routers' shares. A step of `Builder` changes the first by the route that it enters; compiling, freeing
and consuming change one term of the second. `ImplementsOwnership` follows with the
same shares as refinement mapping; that a tree is sound is what excludes the null pointers
that `Ownership` does not allow.

**Sums, recursion, concatenation.** The counts are `SumFunctionOnSet` and `MapThenSumSet` of the
community modules, defined through a choice and a recursive function. `DataProofs` proves what
they are, from the definitions: a sum exists, is unique, and changes by as much as a term.
The library's induction theorems take an operator as parameter; in its place the lemmas
take a least counterexample in a set (`LeastSubset`, `LeastNat`, from the theorems on well-founded
relations). In the same way it shows that a function defined by recursion over
the naturals exists and what `FlattenSeq` returns.

**The compiler.** Both traversals recurse; a stack of pending calls is what is left of the recursion.
`GraphProofs` names what becomes a node, and the sorts, by items of the tree: the segments, their
wildcards and trailing slashes, and a `Sort` of each segment with children. No item on the stack is below another
(`Apart`), and an item is *done with* when it is not below one on the stack (`Rest`). So a step that pops
an item and pushes what is directly below it is done with exactly one more, and nothing has to be
said of the depth. `CountInv` says that the counters are sums over what is done with, and `max_params` the
largest need among it; when the stack is empty, that is the tree. `CompileInv` says that there
are a stack of items and an offset for each item done with such that nodes do not overlap and fill
what was written so far (`Allotted`), every word is as the tree says, except the edges to nodes not placed yet and the
order of edges not sorted yet (`Written`), and the terminals are those of the items done with, at
ascending offsets (`Terminals`). `FillsAllocation` compares the two sums. That `refs` ascends,
which `terminal_lookup` assumes and nothing sorts for, holds because a terminal is appended when its node
takes the end of the graph.

**Reading the graph.** A finished graph is `Complete`: `CompileInv` without exceptions. `Parts` and
`Edges` say what the accessors of `route_match` then read at the offset of a segment. The linear and
the binary search are two functions of ascending keys, which `SearchFinds` shows to return the position of
the key or 0, however many keys there are. `GraphIsTree` follows way by way.

**The matcher.** Part 2 of `MatchProofs` has no steps: two segments along the same path, of
which one has a child that fits, are on one way, because a parameter excludes literals; so a path leads one way into
a sound tree, and where that way ends decides which routes fit and cover. `MatchInv` says of every
dispatcher that its cursor is at a segment on the way, that the parameters of the way's steps are
bound, and that the wildcard it remembers is the last one of the segments above, or none is there (`Remembered`). It
says this of all offsets for which the graph is complete, so that a step need not show that they stay: the
router is not written (`RouterStep`). An answer then is one of three (`Answer`), and each
property follows from it without a step.

**The lexers.** Each reads a text that the other does not know, so the invariants relate what was
returned to the text alone. `LInv` says that the literals found, written out again, are the path up
to the cursor, and that behind them stands, over and over, what is returned at that cursor
(`Returns`). `PatternsInv` says the same of patterns, segment by segment: what is before the
cursor is legal, and every token is what is returned where those before it end (`Traced`). At
the token that stops the reader, what is written out is the whole text, or the segment at the cursor is the one
that is not legal (`PatternReads`). In the two bracket syntaxes a segment may go on behind a
parameter, so there `PatternsInv` speaks of patterns without parameters only, and `PatternsRoundTrip`
of the colon syntax. `OwnInv` compares the two: `Traced` gives what the
prelexer returned where the request's cursor is, and `LexersAgree` that the lexer returns the same. `SliceIs`
is where the assumption on the two limits is needed: no length that passes the test against
`LEXER_CHAR_LIMIT` is changed when it is narrowed to 16 bits.

**Arena and tables.** That allocations lie apart is not inductive: `AInv` says that each lies in
the *used* part of its block, and later ones of the block behind it. `PaddingAligns` is the
arithmetic of the mask; it also bounds the padding, from which `JustMadeFits` concludes that a
new block is never too small for its call (`EachHolds`). `TInv` says which slot is the unfilled one while `symbol_append`
waits for its string, and that its string is in no other slot. `RoomInv` says that the bytes used
are the sum over the strings kept, each with its NUL: with an alignment of 1 nothing is lost to padding, and a new
block adds nothing. `PrecedesOrders` shows that `strcmp` orders strings strictly and totally, so that the place of each
is the number of those before it (`SortedLists`), and `Comparisons` that the two functions given to
`bsearch` have the sign of that order for every byte, though one of them sees a length and the other a NUL.
`CompiledInv` says that the region is laid out from an ascending list of exactly those strings; so what is
read back at an offset is its string (`ReadsBack`), the comparisons with the elements of the
list fall (`FallingIs`), and every solution of the recursion of `bsearch` finds the 0 among them or
answers that there is none (`SearchFinds`, by induction on the length of the range).

**Handlers.** `params_copy` lays strings out in one region and `Params_get` walks over them.
The lemmas describe the region by the partial regions before each parameter (`Joined` of `DataProofs`):
each string *stands* at the length of what is before it, and
`strlen` from there finds its terminator and no other. `SnapshotAnswers` concludes that a snapshot answers every lookup
as what it was made of; the state machine then only has to remember of what that was (`HInv`),
and for a C handler, that the dispatcher's parameters are still in place unless it was disturbed.

**Erlang.** `EInv` is a ledger with an entry for each context: it is unused, or one call has it (in hand, or in the
builder or router of that call), or one resource has it, and whoever has it holds it as often
as it is counted. The entry says at once that counts are exact and that nothing is shared, and
each step moves one entry: `EntryOfCall` and `EntryOfBlock` name the owner, and the step lemmas give the
entry after the step. `ContextsCounted` sums over processes and resources; with one owner the sum has one term.

**Python.** `CountsExact` counts what *live* objects hold, sets which change with the step. `PInv` adds that freed objects
hold nothing, so that every term is a cardinality or a sum over a constant set. `DropTakesOff` is the heart: what
a dropped reference and the deallocators it sets off drop in turn (`Drops`) is exactly what
is no longer held afterwards, and `DropKeeps` concludes that no count falls below zero.

**C++.** `CppInv` joins the three properties with `CppTypeOK` and `UnmadeEmpty`, for none is inductive alone.
A move of a router keeps the dispatchers' routers only because no other object has the
same native one; a `consume` into a variable keeps handlers apart only because a
variable that is not made owns nothing (`UnmadeEmpty`); a handler stays beside its
route because both owners are disjoint. The steps that
change one builder share `BuilderStep`, and the ways to give a router away share `RouterStep`,
which says what the new owners must be like for the invariant to survive.

Every safety invariant, action property and refinement that a passing run checks is thus stated by a
theorem.

**Only model-checked:**

* liveness (`ReadersStop`, `RequestsAnswered`, `CallsAnswer`), which rests on fairness;
* `SegmentsDividedBySlash` and the other statements of section 4, which are refuted and not proved.

## 6. Not modelled, and the plan

Not modelled:

* `errors.c`, a table of messages, and the examples, which are clients over an HTTP server;
* in the Python binding the initialisation of the module and its `ParamSyntax`
  constants, and the dictionary of parameters in an answer: `resolve` never drops the reference that
  `PyDict_New` returned (`bindings/python/dispatcher.c:117`), a leak that is plain in
  one line and has no further state;
* in the bindings the contents of strings. A `std::string_view` need not end in a NUL, which
  `Builder::add` and `dispatch` need: a contract on the argument, not a state;
* a `calloc` of no bytes that returns null (`terminal.c:11`) is not told apart from a
  failed one, which the model has;
* `token.c`, the names of token types for tests.

What could follow:

1. That `Prelexer` and `Lexer` give `Builder` and `Match` the tokens that these take as tokenised
   patterns and paths, as a refinement: the properties of both sides meet at `RequestsRoundTrip` and
   `PatternsRoundTrip`, and no module composes them.
2. The dispatcher of `Handlers` over the steps of `Match`, which it takes as one.
