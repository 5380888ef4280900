------------------------------- MODULE Python -------------------------------
(***************************************************************************)
(* bindings/python: Builder, Router and Dispatcher objects, and build_     *)
(* router, as threads of a Python program use them.  Every call holds the  *)
(* interpreter's lock from its start to its end, so a call is one step.    *)
(* Objects are counted; the last reference that goes, in whatever thread,  *)
(* calls the deallocator, which drops the references the object holds.     *)
(***************************************************************************)
EXTENDS Api

CONSTANTS Threads, Builders, Routers, Dispatchers,
          BuildRouter,  \* whether build_router is used
          Failing,      \* the objects of the binding whose creation may fail
          MaxHeld       \* bound: contexts held by a builder

Objects == Contexts \cup Builders \cup Routers \cup Dispatchers
ASSUME PythonAssumption ==
    /\ Counting /\ BuildRouter \in BOOLEAN
    /\ Failing \subseteq {"router", "dispatcher"} /\ MaxHeld \in Nat
    /\ \A S \in {Threads, Builders, Routers, Dispatchers} : IsFiniteSet(S)
    /\ \A S \in {Contexts, Builders, Routers} : S \cap Dispatchers = {}
    /\ Contexts \cap (Builders \cup Routers) = {} /\ Builders \cap Routers = {} /\ NULL \notin Objects

VARIABLES names,      \* per thread, the objects it has a reference to
          cnt,        \* per object, its reference count, 0 when it is freed
          builder,    \* PyBuilder: the native builder and its thread
          router,     \* PyRouter: what the native router holds, and whether
                      \*   it has retained it
          dispatcher, \* PyDispatcher: its router object and its thread
          lost,       \* what native routers hold that no object owns
          died        \* what the process died of

pyVars == <<names, cnt, builder, router, dispatcher, lost, died>>
natives == <<builder, router, dispatcher>>

(* What is left of an object that has been freed.                          *)
NoPyBuilder == [native |-> NoBuilder, owner |-> NULL]
NoPyRouter == [held |-> Nothing, retained |-> FALSE]
NoPyDispatcher == [router |-> NULL, owner |-> NULL]

PyInit ==
    /\ names = [t \in Threads |-> {}]
    /\ cnt = [o \in Objects |-> 0]
    /\ builder = [b \in Builders |-> NoPyBuilder]
    /\ router = [r \in Routers |-> NoPyRouter]
    /\ dispatcher = [d \in Dispatchers |-> NoPyDispatcher]
    /\ lost = Nothing /\ died = "none"

Running == died = "none"
Uses(t, o) == Running /\ o \in names[t]
Fresh(o) == Running /\ cnt[o] = 0
Gets(t, o) == names' = [names EXCEPT ![t] = @ \cup {o}]

(* References retained for what a builder or router holds.                 *)
Increased(held) == [o \in Objects |-> cnt[o] + (IF o \in Contexts THEN held[o] ELSE 0)]

-----------------------------------------------------------------------------
(* Py_DECREF of an object o, and the deallocators that it makes run: of a  *)
(* dispatcher, a router (wrouter_free) or a builder (wrouter_builder_free).*)
DyingDispatchers(o) == {o} \cap {d \in Dispatchers : cnt[d] = 1}

RouterDrops(o) ==
    [r \in Routers |-> (IF r = o THEN 1 ELSE 0)
                       + Cardinality({d \in DyingDispatchers(o) : dispatcher[d].router = r})]
DyingRouters(o) == {r \in Routers : cnt[r] > 0 /\ cnt[r] <= RouterDrops(o)[r]}
DyingBuilders(o) == {o} \cap {b \in Builders : cnt[b] = 1}

(* Mutant: wrouter_free releases no terminals.                             *)
ContextDropsUnrouted(o) ==
    [c \in Contexts |->
        (IF c = o THEN 1 ELSE 0)
        + MapThenSumSet(LAMBDA b : builder[b].native.held[c], DyingBuilders(o))]

ContextDrops(o) ==
    [c \in Contexts |->
        (IF c = o THEN 1 ELSE 0)
        + MapThenSumSet(LAMBDA r : IF router[r].retained THEN router[r].held[c] ELSE 0,
                        DyingRouters(o))
        + MapThenSumSet(LAMBDA b : builder[b].native.held[c], DyingBuilders(o))]

Drops(o) ==
    [x \in Objects |->
        CASE x \in Contexts -> ContextDrops(o)[x]
          [] x \in Routers  -> RouterDrops(o)[x]
          [] OTHER          -> IF x = o THEN 1 ELSE 0]

Decref(o) ==
    /\ cnt' = [x \in Objects |-> Max({0, cnt[x] - Drops(o)[x]})]
    /\ died' = CASE \E b \in DyingBuilders(o) : FreeFault(builder[b].native) # "none" -> "null_deref"
                 [] \E x \in Objects : Drops(o)[x] > cnt[x] -> "use_after_free"
                 [] OTHER -> "none"
    /\ builder' = [b \in Builders |-> IF cnt'[b] = 0 THEN NoPyBuilder ELSE builder[b]]
    /\ router' = [r \in Routers |-> IF cnt'[r] = 0 THEN NoPyRouter ELSE router[r]]
    /\ dispatcher' = [d \in Dispatchers |-> IF cnt'[d] = 0 THEN NoPyDispatcher ELSE dispatcher[d]]

-----------------------------------------------------------------------------
(* The program: it makes objects to store, hands references from thread to *)
(* thread, and drops them.                                                 *)
NewContext(t) ==
    /\ \E c \in Contexts : Fresh(c) /\ cnt' = [cnt EXCEPT ![c] = 1] /\ Gets(t, c)
    /\ UNCHANGED <<natives, lost, died>>

Give(t, u, o) ==
    /\ Uses(t, o) /\ o \notin names[u]
    /\ Gets(u, o)
    /\ cnt' = [cnt EXCEPT ![o] = @ + 1]
    /\ UNCHANGED <<natives, lost, died>>

Drop(t, o) ==
    /\ Uses(t, o)
    /\ names' = [names EXCEPT ![t] = @ \ {o}]
    /\ Decref(o)
    /\ UNCHANGED lost

(* PyBuilder_new.                                                          *)
NewBuilderObject(t, b) ==
    /\ Fresh(b)
    /\ builder' = [builder EXCEPT ![b] = [native |-> NewBuilder(NULL), owner |-> t]]
    /\ cnt' = [cnt EXCEPT ![b] = 1] /\ Gets(t, b)
    /\ UNCHANGED <<router, dispatcher, lost, died>>

NewBuilderObjectFails ==
    /\ Running /\ AllocFails
    /\ died' \in CreateFaults
    /\ UNCHANGED <<names, cnt, natives, lost>>

(* PyBuilder_add.                                                          *)
BuilderAdd(t, b, c) ==
    /\ Uses(t, b) /\ Uses(t, c) /\ builder[b].owner = t
    /\ MapThenSumSet(LAMBDA d : builder[b].native.held[d], Contexts) < MaxHeld
    /\ \E native \in Added(builder[b].native, c) :
          /\ builder' = [builder EXCEPT ![b].native = native]
          /\ cnt' = [cnt EXCEPT ![c] = @ + 1]
    /\ UNCHANGED <<names, router, dispatcher, lost, died>>

BuilderAddFails(t, b) ==
    /\ Uses(t, b) /\ builder[b].owner = t
    /\ \E native \in Spoilt(builder[b].native) : builder' = [builder EXCEPT ![b].native = native]
    /\ UNCHANGED <<names, cnt, router, dispatcher, lost, died>>

(* PyBuilder_compile and PyRouter_FromRouter; the builder goes on.         *)
BuilderCompile(t, b, r) ==
    /\ Uses(t, b) /\ builder[b].owner = t /\ ~builder[b].native.corrupted /\ Fresh(r)
    /\ LET held == builder[b].native.held
       IN  /\ router' = [router EXCEPT ![r] = [held |-> held, retained |-> TRUE]]
           /\ cnt' = [Increased(held) EXCEPT ![r] = 1]
    /\ Gets(t, r)
    /\ UNCHANGED <<builder, dispatcher, lost, died>>

BuilderCompileFails(t, b) ==
    /\ Uses(t, b) /\ builder[b].owner = t
    /\ died' \in CompileFaults(builder[b].native)
    /\ UNCHANGED <<names, cnt, natives, lost>>

(* The router is compiled, but there is no memory for its object.          *)
RouterObjectFails(t, b) ==
    /\ Uses(t, b) /\ builder[b].owner = t /\ ~builder[b].native.corrupted
    /\ "router" \in Failing /\ lost = Nothing
    /\ lost' = builder[b].native.held
    /\ cnt' = Increased(lost')
    /\ UNCHANGED <<names, natives, died>>

(* build_router: neither its builder nor the router retains anything.      *)
BuildRouterOf(t, r) ==
    /\ BuildRouter /\ Fresh(r)
    /\ \E cs \in SUBSET (Contexts \cap names[t]) :
          router' = [router EXCEPT ![r] = [held     |-> [c \in Contexts |-> IF c \in cs THEN 1 ELSE 0],
                                           retained |-> FALSE]]
    /\ cnt' = [cnt EXCEPT ![r] = 1] /\ Gets(t, r)
    /\ UNCHANGED <<builder, dispatcher, lost, died>>

(* A failure at whatever step only frees what was made, if it can.         *)
BuildRouterFails ==
    /\ Running /\ BuildRouter
    /\ died' \in CompileFaults(NewBuilder(NULL))
    /\ UNCHANGED <<names, cnt, natives, lost>>

(* PyDispatcher_new.                                                       *)
(* Mutant: the router's reference is borrowed.                             *)
NewDispatcherBorrowing(t, d, r) ==
    /\ Uses(t, r) /\ Fresh(d)
    /\ dispatcher' = [dispatcher EXCEPT ![d] = [router |-> r, owner |-> t]]
    /\ cnt' = [cnt EXCEPT ![d] = 1] /\ Gets(t, d)
    /\ UNCHANGED <<builder, router, lost, died>>

NewDispatcher(t, d, r) ==
    /\ Uses(t, r) /\ Fresh(d)
    /\ dispatcher' = [dispatcher EXCEPT ![d] = [router |-> r, owner |-> t]]
    /\ cnt' = [cnt EXCEPT ![d] = 1, ![r] = @ + 1] /\ Gets(t, d)
    /\ UNCHANGED <<builder, router, lost, died>>

(* There is no memory for the inner block or the native dispatcher: the    *)
(* failure path drops self, whose deallocator drops the router, and reads  *)
(* self again to drop the router once more; in the second case it has also *)
(* freed the inner block that the deallocator frees.                       *)
NewDispatcherFails(t, r) ==
    /\ Uses(t, r) /\ "dispatcher" \in Failing
    /\ died' \in {"use_after_free", "double_free"}
    /\ UNCHANGED <<names, cnt, natives, lost>>

(* PyDispatcher_resolve: the answer is a new reference, to a context of    *)
(* the router or to None.                                                  *)
Resolve(t, d) ==
    /\ Uses(t, d) /\ dispatcher[d].owner = t
    /\ \E c \in {x \in Contexts : router[dispatcher[d].router].held[x] > 0} :
          IF cnt[c] = 0 THEN died' = "use_after_free" /\ UNCHANGED <<names, cnt>>
          ELSE /\ Gets(t, c)
               /\ cnt' = [cnt EXCEPT ![c] = @ + (IF c \in names[t] THEN 0 ELSE 1)]
               /\ UNCHANGED died
    /\ UNCHANGED <<natives, lost>>

PyNext ==
    \/ NewBuilderObjectFails \/ BuildRouterFails
    \/ \E t \in Threads :
       \/ NewContext(t)
       \/ \E o \in Objects : Drop(t, o) \/ \E u \in Threads : Give(t, u, o)
       \/ \E b \in Builders :
             \/ NewBuilderObject(t, b) \/ BuilderAddFails(t, b) \/ BuilderCompileFails(t, b)
             \/ RouterObjectFails(t, b)
             \/ \E c \in Contexts : BuilderAdd(t, b, c)
             \/ \E r \in Routers : BuilderCompile(t, b, r)
       \/ \E r \in Routers :
             \/ BuildRouterOf(t, r) \/ NewDispatcherFails(t, r)
             \/ \E d \in Dispatchers : NewDispatcher(t, d, r)
       \/ \E d \in Dispatchers : Resolve(t, d)

PySpec == PyInit /\ [][PyNext]_pyVars
-----------------------------------------------------------------------------
Live(os) == {o \in os : cnt[o] > 0}

(* Who holds a reference: names, dispatchers, builders, and the routers    *)
(* that retain, a lost one too.                                            *)
Holders(o) ==
    Cardinality({t \in Threads : o \in names[t]})
    + Cardinality({d \in Live(Dispatchers) : dispatcher[d].router = o})
    + IF o \notin Contexts THEN 0
      ELSE lost[o]
           + MapThenSumSet(LAMBDA b : builder[b].native.held[o], Live(Builders))
           + MapThenSumSet(LAMBDA r : IF router[r].retained THEN router[r].held[o] ELSE 0,
                           Live(Routers))

(* Every object is counted exactly as often as it is referred to, through  *)
(* compilations, failed additions and deallocations in any thread: it is   *)
(* neither freed early nor kept, but by a router that lost its object.     *)
CountsExact == Running => \A o \in Objects : cnt[o] = Holders(o)

(* A dispatcher's router lives as long as the dispatcher, and with it the  *)
(* contexts it can return if a Builder made it, in whatever order the      *)
(* program drops its names and in whatever thread.                         *)
DispatchersResolve ==
    Running => \A d \in Live(Dispatchers) :
        LET r == dispatcher[d].router
        IN  /\ cnt[r] > 0
            /\ router[r].retained => \A c \in Contexts : router[r].held[c] > 0 => cnt[c] > 0

(* What a router returns "is always a PyObject *" (NOTES:3), whichever     *)
(* call built the router.                                                  *)
AnswersAreObjects == died # "use_after_free"

(* Reference counting is correct (tests/test_dispatcher.py:219) when the   *)
(* creation of a dispatcher fails, too: a Builder's routers are used.      *)
FailedDispatchersHarmless == died \notin {"use_after_free", "double_free"}
=============================================================================
