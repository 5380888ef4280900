-------------------------------- MODULE Cpp --------------------------------
(***************************************************************************)
(* bindings/cpp: Builder, Router and Dispatcher objects of one thread of a *)
(* C++ program.  The library is given no callbacks: a route's context is a *)
(* pointer to a handler that the Builder, and then the Router, owns in a   *)
(* vector beside the native object.  Builders and routers can be moved,    *)
(* which leaves the old object without a native one.                       *)
(***************************************************************************)
EXTENDS Api

CONSTANTS Builders, Routers, Dispatchers,  \* variables of the program
          Natives,                         \* blocks for wrouter_t
          MaxRoutes                        \* bound: routes of a builder
ASSUME CppAssumption == ~Counting /\ MaxRoutes \in Nat /\ NULL \notin Natives

Handlers == Contexts

VARIABLES builder,     \* BuilderBase: ptr_ and handlers_
          router,      \* RouterBase: ptr_ and handlers_
          dispatcher,  \* DispatcherBase: the native router it uses
          heap,        \* per block, whether it is live and what its routes hold
          alive,       \* the handlers allocated
          died         \* what the process died of

cppVars == <<builder, router, dispatcher, heap, alive, died>>

(* threw: whether an add of this builder has thrown bad_alloc.             *)
Unmade == [made |-> FALSE, native |-> NoBuilder, handlers |-> {}, threw |-> FALSE]
NoRouter == [made |-> FALSE, native |-> NULL, handlers |-> {}]
Freed == [live |-> FALSE, held |-> Nothing, threw |-> FALSE]

CppTypeOK ==
    /\ builder \in [Builders -> [made : BOOLEAN, native : ApiBuilder, handlers : SUBSET Handlers,
                                threw : BOOLEAN]]
    /\ router \in [Routers -> [made : BOOLEAN, native : Natives \cup {NULL},
                              handlers : SUBSET Handlers]]
    /\ dispatcher \in [Dispatchers -> Natives \cup {NULL}]
    /\ heap \in [Natives -> [live : BOOLEAN, held : [Handlers -> Nat], threw : BOOLEAN]]
    /\ alive \subseteq Handlers
    /\ died \in {"none", "null_deref", "double_free", "use_after_free"}

CppInit ==
    /\ builder = [b \in Builders |-> Unmade]
    /\ router = [r \in Routers |-> NoRouter]
    /\ dispatcher = [d \in Dispatchers |-> NULL]
    /\ heap = [n \in Natives |-> Freed]
    /\ alive = {} /\ died = "none"

Running == died = "none"
Dies(fault) == died' = fault /\ UNCHANGED <<builder, router, dispatcher, heap, alive>>

-----------------------------------------------------------------------------
NewBuilderObject(b) ==
    /\ Running /\ ~builder[b].made
    /\ builder' = [builder EXCEPT ![b] = [Unmade EXCEPT !.made = TRUE, !.native = NewBuilder(NULL)]]
    /\ UNCHANGED <<router, dispatcher, heap, alive, died>>

Open(b) == Running /\ builder[b].made /\ builder[b].native.open
Adding(b) == Open(b) /\ MapThenSumSet(LAMBDA h : builder[b].native.held[h], Handlers) < MaxRoutes

(* Builder::add: make_unique, wrouter_add_handler_ctx, push_back.          *)
AddHandler(b, h) ==
    /\ Adding(b) /\ h \notin alive
    /\ \E native \in Added(builder[b].native, h) :
          builder' = [builder EXCEPT ![b].native = native, ![b].handlers = @ \cup {h}]
    /\ alive' = alive \cup {h}
    /\ UNCHANGED <<router, dispatcher, heap, died>>

(* Error is thrown, and the handler goes with the unique_ptr.              *)
AddHandlerRefused(b) ==
    /\ Open(b)
    /\ \E native \in Spoilt(builder[b].native) : builder' = [builder EXCEPT ![b].native = native]
    /\ UNCHANGED <<router, dispatcher, heap, alive, died>>

(* push_back throws bad_alloc: the route stays, the handler goes.          *)
AddHandlerUnstored(b, h) ==
    /\ Adding(b) /\ AllocFails /\ h \notin alive
    /\ \E native \in Added(builder[b].native, h) :
          builder' = [builder EXCEPT ![b].native = native, ![b].threw = TRUE]
    /\ UNCHANGED <<router, dispatcher, heap, alive, died>>

(* A builder that was moved from or consumed hands wrouter_add_route a     *)
(* null pointer, which it reads.                                           *)
AddToNone(b) ==
    /\ Running /\ builder[b].made /\ ~builder[b].native.open
    /\ Dies("null_deref")

(* Mutant: the handlers stay with the builder.                             *)
ConsumeUnmoved(b, r, n) ==
    /\ Open(b) /\ ~builder[b].native.corrupted /\ ~router[r].made /\ ~heap[n].live
    /\ heap' = [heap EXCEPT ![n] = [live |-> TRUE, held |-> builder[b].native.held,
                                    threw |-> builder[b].threw]]
    /\ router' = [router EXCEPT ![r] = [made |-> TRUE, native |-> n, handlers |-> {}]]
    /\ builder' = [builder EXCEPT ![b].native = NoBuilder]
    /\ UNCHANGED <<dispatcher, alive, died>>

(* BuilderBase::consume: the native builder is compiled and freed, the     *)
(* handlers move.                                                          *)
Consume(b, r, n) ==
    /\ Open(b) /\ ~builder[b].native.corrupted /\ ~router[r].made /\ ~heap[n].live
    /\ heap' = [heap EXCEPT ![n] = [live |-> TRUE, held |-> builder[b].native.held,
                                    threw |-> builder[b].threw]]
    /\ router' = [router EXCEPT ![r] = [made |-> TRUE, native |-> n, handlers |-> builder[b].handlers]]
    /\ builder' = [builder EXCEPT ![b] = [Unmade EXCEPT !.made = TRUE]]
    /\ UNCHANGED <<dispatcher, alive, died>>

(* Error is thrown: the native builder is gone too, or was before.         *)
ConsumeFails(b) ==
    /\ Running /\ builder[b].made
    /\ \/ /\ builder' = [builder EXCEPT ![b].native = NoBuilder]
          /\ UNCHANGED <<router, dispatcher, heap, alive, died>>
       \/ \E fault \in CompileFaults(builder[b].native) : builder[b].native.open /\ Dies(fault)

-----------------------------------------------------------------------------
(* Destructors and move assignments free a native object and then the      *)
(* handlers.  A program frees a router only "after freeing all dispatchers *)
(* ... that may be using the router" (dispatcher.c:106).                   *)
(* A move constructor has a target that is not made yet.                   *)
MovedTo(f, none, from, to) == [f EXCEPT ![to] = f[from], ![from] = [none EXCEPT !.made = TRUE]]

MoveBuilder(a, b) ==
    /\ Running /\ builder[a].made /\ a # b
    /\ builder' = MovedTo(builder, Unmade, a, b)
    /\ alive' = alive \ builder[b].handlers
    /\ UNCHANGED <<router, dispatcher, heap, died>>

DestroyBuilder(b) ==
    /\ Running /\ builder[b].made
    /\ builder' = [builder EXCEPT ![b] = Unmade]
    /\ alive' = alive \ builder[b].handlers
    /\ UNCHANGED <<router, dispatcher, heap, died>>

Replaceable(r) == \A d \in Dispatchers : dispatcher[d] = NULL \/ dispatcher[d] # router[r].native
FreeNative(r) ==
    /\ heap' = [n \in Natives |-> IF n = router[r].native THEN Freed ELSE heap[n]]
    /\ alive' = alive \ router[r].handlers

(* Mutant: the native pointer is copied.                                   *)
MoveRouterCopied(a, b) ==
    /\ Running /\ router[a].made /\ a # b /\ Replaceable(b)
    /\ router' = [router EXCEPT ![b] = router[a], ![a].handlers = {}]
    /\ FreeNative(b)
    /\ UNCHANGED <<builder, dispatcher, died>>

(* Mutant: the native router is destroyed after the exchange.              *)
MoveRouterDestroyed(a, b) ==
    /\ Running /\ router[a].made /\ a # b /\ Replaceable(b)
    /\ router' = MovedTo(router, NoRouter, a, b)
    /\ heap' = [n \in Natives |-> IF n = router[a].native THEN Freed ELSE heap[n]]
    /\ alive' = alive \ router[b].handlers
    /\ UNCHANGED <<builder, dispatcher, died>>

MoveRouter(a, b) ==
    /\ Running /\ router[a].made /\ a # b /\ Replaceable(b)
    /\ router' = MovedTo(router, NoRouter, a, b)
    /\ FreeNative(b)
    /\ UNCHANGED <<builder, dispatcher, died>>

DestroyRouter(r) ==
    /\ Running /\ router[r].made /\ Replaceable(r)
    /\ router' = [router EXCEPT ![r] = NoRouter]
    /\ FreeNative(r)
    /\ UNCHANGED <<builder, dispatcher, died>>

-----------------------------------------------------------------------------
NewDispatcher(d, r) ==
    /\ Running /\ dispatcher[d] = NULL /\ router[r].made
    /\ IF router[r].native = NULL THEN Dies("null_deref")
       ELSE /\ dispatcher' = [dispatcher EXCEPT ![d] = router[r].native]
            /\ UNCHANGED <<builder, router, heap, alive, died>>

DestroyDispatcher(d) ==
    /\ Running /\ dispatcher[d] # NULL
    /\ dispatcher' = [dispatcher EXCEPT ![d] = NULL]
    /\ UNCHANGED <<builder, router, heap, alive, died>>

(* A path meets some route, whose handler handler_trampoline invokes.      *)
Dispatch(d) ==
    /\ Running /\ dispatcher[d] # NULL
    /\ \E h \in {g \in Handlers : heap[dispatcher[d]].held[g] > 0} :
          Dies(IF h \in alive THEN "none" ELSE "use_after_free")

CppNext ==
    \/ \E b \in Builders :
          \/ NewBuilderObject(b) \/ AddHandlerRefused(b) \/ AddToNone(b)
          \/ ConsumeFails(b) \/ DestroyBuilder(b)
          \/ \E h \in Handlers : AddHandler(b, h) \/ AddHandlerUnstored(b, h)
          \/ \E r \in Routers, n \in Natives : Consume(b, r, n)
          \/ \E a \in Builders : MoveBuilder(a, b)
    \/ \E r \in Routers :
          \/ DestroyRouter(r)
          \/ \E a \in Routers : MoveRouter(a, r)
    \/ \E d \in Dispatchers :
          \/ DestroyDispatcher(d) \/ Dispatch(d)
          \/ \E r \in Routers : NewDispatcher(d, r)

CppSpec == CppInit /\ [][CppNext]_cppVars
-----------------------------------------------------------------------------
(* Every handler and every native router has one owner as long as it       *)
(* lives: whatever is added, refused, consumed, moved or moved from, it is *)
(* freed once, and nothing leaks.                                          *)
HandlersOwned ==
    /\ alive = (UNION {builder[b].handlers : b \in Builders})
               \cup (UNION {router[r].handlers : r \in Routers})
    /\ \A a, b \in Builders : a # b => builder[a].handlers \cap builder[b].handlers = {}
    /\ \A r, s \in Routers : r # s => router[r].handlers \cap router[s].handlers = {}
    /\ \A b \in Builders, r \in Routers : builder[b].handlers \cap router[r].handlers = {}

NativesOwned ==
    /\ \A n \in Natives : heap[n].live <=> \E r \in Routers : router[r].native = n
    /\ \A r, s \in Routers : r # s /\ router[r].native = router[s].native => router[r].native = NULL

OwnedOnce == HandlersOwned /\ NativesOwned

(* The handler of every route lives beside the native object that can call *)
(* it, in the same Builder or Router, through moves too (test_router_move_ *)
(* keeps_handlers), unless an add has thrown bad_alloc: the route without  *)
(* its handler is then still there to be compiled and dispatched to.       *)
HandlersBesideRoutes ==
    /\ \A b \in Builders : ~builder[b].threw =>
          \A h \in Handlers : builder[b].native.held[h] > 0 => h \in builder[b].handlers
    /\ \A r \in Routers : router[r].native # NULL /\ ~heap[router[r].native].threw =>
          \A h \in Handlers : heap[router[r].native].held[h] > 0 => h \in router[r].handlers

(* A dispatcher keeps its router when the Router object is moved, for it   *)
(* holds the native one.                                                   *)
DispatchersKeepRouters ==
    \A d \in Dispatchers : dispatcher[d] # NULL =>
        \E r \in Routers : router[r].native = dispatcher[d] /\ heap[dispatcher[d]].live
=============================================================================
