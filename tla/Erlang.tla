------------------------------- MODULE Erlang -------------------------------
(***************************************************************************)
(* bindings/erlang/c_src/wrouter_nif.c: Erlang processes that make routers *)
(* from lists of routes and resolve paths, on scheduler threads of their   *)
(* own.  A router is a resource that the VM destroys when no process has a *)
(* term for it; a route's context is a copied term with a count of its own *)
(* (refs), that no lock protects.                                          *)
(***************************************************************************)
EXTENDS Api

CONSTANTS Procs,      \* Erlang processes
          Resources,  \* resource blocks
          MaxItems    \* bound: length of a list of routes
ASSUME ErlangAssumption ==
    Counting /\ MaxItems \in Nat /\ IsFiniteSet(Procs) /\ IsFiniteSet(Resources)

VARIABLES proc,       \* per process, the call it is in
          terms,      \* per process, the resources it has terms for
          resource,   \* per block, its router, or no router
          refs,       \* route_context_t: per context, its count,
          alive,      \*   and whether it is allocated
          crash       \* what the VM died of

erlVars == <<proc, terms, resource, refs, alive, crash>>

NoRouter == [live |-> FALSE, held |-> Nothing]
Router(held) == [live |-> TRUE, held |-> held]
Idle == [pc |-> "idle", list |-> <<>>, builder |-> NoBuilder, ctx |-> NULL,
         router |-> NoRouter, arg |-> NULL]

(* What an element of the list can be.                                     *)
Items == {"route", "malformed"}
Lists == UNION {[1..n -> Items] : n \in 0..MaxItems}

ErlInit ==
    /\ proc = [p \in Procs |-> Idle]
    /\ terms = [p \in Procs |-> {}]
    /\ resource = [r \in Resources |-> NoRouter]
    /\ refs = Nothing /\ alive = {} /\ crash = "none"

Up == crash = "none"
At(p, pc) == Up /\ proc[p].pc = pc
Goto(p, record) == proc' = [proc EXCEPT ![p] = record]
Answer(p) == Goto(p, Idle)

-----------------------------------------------------------------------------
(* route_context_retain and route_context_release, called as often as the  *)
(* sets of contexts given by a builder or router say.                      *)
(* Mutant: a count of one is taken for none.                               *)
ReleasedEarly(count, held) ==
    [c \in Contexts |-> IF count[c] > held[c] + 1 THEN count[c] - held[c] ELSE 0]

Released(count, held) ==
    [c \in Contexts |-> IF count[c] > held[c] THEN count[c] - held[c] ELSE 0]
Retained(count, held) == [c \in Contexts |-> count[c] + held[c]]
Survivors(count, held) == {c \in alive : held[c] = 0 \/ Released(count, held)[c] > 0}

(* Whether a context is touched that has been freed, before or by an       *)
(* earlier one of these releases.                                          *)
TouchesFreed(count, held) ==
    \E c \in Contexts : held[c] > 0 /\ (c \notin alive \/ held[c] > Max({count[c], 1}))

ReleaseHeld(held) ==
    /\ refs' = Released(refs, held)
    /\ alive' = Survivors(refs, held)
    /\ crash' = IF TouchesFreed(refs, held) THEN "use_after_free" ELSE "none"

(* wrouter_builder_free.                                                   *)
FreeBuilder(b) ==
    IF FreeFault(b) # "none" THEN crash' = FreeFault(b) /\ UNCHANGED <<refs, alive>>
    ELSE ReleaseHeld(b.held)

-----------------------------------------------------------------------------
(* new_nif.                                                                *)
CallNew(p) ==
    /\ At(p, "idle")
    /\ \E list \in Lists : Goto(p, [Idle EXCEPT !.pc = "items", !.list = list, !.builder = NewBuilder(NULL)])
    /\ UNCHANGED <<terms, resource, refs, alive, crash>>

CallNewFails(p) ==
    /\ At(p, "idle") /\ AllocFails
    /\ crash' \in CreateFaults
    /\ UNCHANGED <<proc, terms, resource, refs, alive>>

(* Mutant: the loop goes on with the same element.                         *)
MalformedSkipped(p) ==
    /\ At(p, "items") /\ proc[p].list # <<>> /\ Head(proc[p].list) = "malformed"
    /\ UNCHANGED erlVars

Malformed(p) ==
    /\ At(p, "items") /\ proc[p].list # <<>> /\ Head(proc[p].list) = "malformed"
    /\ FreeBuilder(proc[p].builder) /\ Answer(p)
    /\ UNCHANGED <<terms, resource>>

(* Mutant: one context serves equal terms.                                 *)
CreateContextShared(p) ==
    /\ At(p, "items") /\ proc[p].list # <<>> /\ Head(proc[p].list) = "route"
    /\ \E c \in Contexts :
          /\ Goto(p, [proc[p] EXCEPT !.pc = "add", !.ctx = c])
          /\ alive' = alive \cup {c}
    /\ UNCHANGED <<terms, resource, refs, crash>>

(* route_context_create: the context is in hand, without references.       *)
CreateContext(p) ==
    /\ At(p, "items") /\ proc[p].list # <<>> /\ Head(proc[p].list) = "route"
    /\ \E c \in Contexts \ alive :
          /\ Goto(p, [proc[p] EXCEPT !.pc = "add", !.ctx = c])
          /\ alive' = alive \cup {c}
          /\ refs' = [refs EXCEPT ![c] = 0]
    /\ UNCHANGED <<terms, resource, crash>>

(* The copy of the pattern or the context cannot be had.                   *)
CreateContextFails(p) ==
    /\ At(p, "items") /\ proc[p].list # <<>> /\ Head(proc[p].list) = "route"
    /\ AllocFails
    /\ FreeBuilder(proc[p].builder) /\ Answer(p)
    /\ UNCHANGED <<terms, resource>>

AddContext(p) ==
    /\ At(p, "add")
    /\ \E b \in Added(proc[p].builder, proc[p].ctx) :
          Goto(p, [proc[p] EXCEPT !.pc = "items", !.list = Tail(@), !.builder = b, !.ctx = NULL])
    /\ refs' = [refs EXCEPT ![proc[p].ctx] = @ + 1]
    /\ UNCHANGED <<terms, resource, alive, crash>>

(* Mutant: the context is left to the builder.                             *)
AddContextFailsLeaking(p) ==
    /\ At(p, "add")
    /\ Answer(p)
    /\ \E b \in Spoilt(proc[p].builder) : FreeBuilder(b)
    /\ UNCHANGED <<terms, resource>>

(* The context, which the builder has not retained, is freed by hand.      *)
AddContextFails(p) ==
    /\ At(p, "add")
    /\ Answer(p)
    /\ \E b \in Spoilt(proc[p].builder) :
          IF FreeFault(b) # "none" THEN crash' = FreeFault(b) /\ UNCHANGED <<refs, alive>>
          ELSE LET held == b.held IN
               /\ refs' = Released(refs, held)
               /\ alive' = Survivors(refs, held) \ {proc[p].ctx}
               /\ crash' = IF TouchesFreed(refs, held) THEN "use_after_free" ELSE "none"
    /\ UNCHANGED <<terms, resource>>

(* wrouter_consume: compilation retains what the builder then releases.    *)
Consume(p) ==
    /\ At(p, "items") /\ proc[p].list = <<>>
    /\ LET held == proc[p].builder.held
           both == Retained(refs, held)
       IN  /\ refs' = Released(both, held)
           /\ alive' = Survivors(both, held)
           /\ crash' = IF TouchesFreed(both, held) THEN "use_after_free" ELSE "none"
           /\ Goto(p, [Idle EXCEPT !.pc = "made", !.router = Router(held)])
    /\ UNCHANGED <<terms, resource>>

ConsumeFails(p) ==
    /\ At(p, "items") /\ proc[p].list = <<>>
    /\ Answer(p)
    /\ \/ FreeBuilder(proc[p].builder)
       \/ /\ crash' \in CompileFaults(proc[p].builder) \ {"none"}
          /\ UNCHANGED <<refs, alive>>
    /\ UNCHANGED <<terms, resource>>

(* The router goes into a block, of which the process gets a term.         *)
MakeResource(p) ==
    /\ At(p, "made")
    /\ \E r \in Resources :
          /\ ~resource[r].live
          /\ resource' = [resource EXCEPT ![r] = proc[p].router]
          /\ terms' = [terms EXCEPT ![p] = @ \cup {r}]
    /\ Answer(p)
    /\ UNCHANGED <<refs, alive, crash>>

(* Mutant: the router is not freed.                                        *)
NoResourceLeaking(p) ==
    /\ At(p, "made") /\ AllocFails
    /\ Answer(p)
    /\ UNCHANGED <<terms, resource, refs, alive, crash>>

NoResource(p) ==
    /\ At(p, "made") /\ AllocFails
    /\ ReleaseHeld(proc[p].router.held) /\ Answer(p)
    /\ UNCHANGED <<terms, resource>>

-----------------------------------------------------------------------------
(* resolve_nif, with a dispatcher of its own.  A path may meet any route   *)
(* of the router, or none.                                                 *)
CallResolve(p) ==
    /\ At(p, "idle")
    /\ \E r \in terms[p] : Goto(p, [Idle EXCEPT !.pc = "resolve", !.arg = r])
    /\ UNCHANGED <<terms, resource, refs, alive, crash>>

ResolvePath(p) ==
    /\ At(p, "resolve")
    /\ \E c \in {d \in Contexts : resource[proc[p].arg].held[d] > 0} :
          Goto(p, [proc[p] EXCEPT !.pc = "copy", !.ctx = c])
    /\ UNCHANGED <<terms, resource, refs, alive, crash>>

(* No route, or no dispatcher.                                             *)
NotFound(p) ==
    /\ At(p, "resolve")
    /\ Answer(p)
    /\ UNCHANGED <<terms, resource, refs, alive, crash>>

CopyTerm(p) ==
    /\ At(p, "copy")
    /\ Answer(p)
    /\ crash' = IF proc[p].ctx \in alive THEN "none" ELSE "use_after_free"
    /\ UNCHANGED <<terms, resource, refs, alive>>

-----------------------------------------------------------------------------
(* The VM: processes send terms and drop them; a call keeps its argument.  *)
Send(p, q) ==
    /\ Up /\ p # q
    /\ \E r \in terms[p] : terms' = [terms EXCEPT ![q] = @ \cup {r}]
    /\ UNCHANGED <<proc, resource, refs, alive, crash>>

DropTerm(p) ==
    /\ Up
    /\ \E r \in terms[p] \ {proc[p].arg} : terms' = [terms EXCEPT ![p] = @ \ {r}]
    /\ UNCHANGED <<proc, resource, refs, alive, crash>>

(* router_resource_dtor, at some time after the last term is gone.         *)
Destroy(r) ==
    /\ Up /\ resource[r].live /\ \A p \in Procs : r \notin terms[p]
    /\ ReleaseHeld(resource[r].held)
    /\ resource' = [resource EXCEPT ![r] = NoRouter]
    /\ UNCHANGED <<proc, terms>>

(* What a call does once it has started: the scheduler runs it to its end. *)
Work(p) ==
    \/ Malformed(p) \/ CreateContext(p) \/ CreateContextFails(p)
    \/ AddContext(p) \/ AddContextFails(p) \/ Consume(p) \/ ConsumeFails(p)
    \/ MakeResource(p) \/ NoResource(p) \/ ResolvePath(p) \/ NotFound(p) \/ CopyTerm(p)

ErlNext ==
    \/ \E p \in Procs :
          \/ CallNew(p) \/ CallNewFails(p) \/ CallResolve(p) \/ Work(p) \/ DropTerm(p)
          \/ \E q \in Procs : Send(p, q)
    \/ \E r \in Resources : Destroy(r)

ErlSpec == ErlInit /\ [][ErlNext]_erlVars /\ \A p \in Procs : WF_erlVars(Work(p))
-----------------------------------------------------------------------------
HeldInCall(p, c) == proc[p].builder.held[c] + proc[p].router.held[c]
HeldBy(c) ==
    MapThenSumSet(LAMBDA p : HeldInCall(p, c), Procs)
    + MapThenSumSet(LAMBDA r : resource[r].held[c], Resources)
InHand(p, c) == proc[p].pc = "add" /\ proc[p].ctx = c

(* A context is allocated for as long as a builder or a router of some     *)
(* call or resource holds it, and counts these holders; before it is added *)
(* it is in hand and counts none.  So none is freed twice, or early, and   *)
(* none leaks, whichever step of making a router fails.                    *)
ContextsCounted ==
    Up => \A c \in Contexts :
        IF \E p \in Procs : InHand(p, c) THEN c \in alive /\ refs[c] = 0 /\ HeldBy(c) = 0
        ELSE (c \in alive <=> HeldBy(c) > 0) /\ (c \in alive => refs[c] = HeldBy(c))

(* The unprotected counts need no lock: a context belongs to one process   *)
(* in a call or to one resource, which only its destructor releases.       *)
ContextsUnshared ==
    Up => \A c \in Contexts :
        Cardinality({p \in Procs : HeldInCall(p, c) > 0 \/ InHand(p, c)}
                    \cup {r \in Resources : resource[r].held[c] > 0}) <= 1

(* A resolution reads the term of a context that is still allocated,       *)
(* although other processes drop their terms for the router meanwhile, and *)
(* no context is released that has been freed.                             *)
NoUseAfterFree == crash # "use_after_free"

(* Every call answers, unless the VM died of a fault of the library.       *)
CallsAnswer == \A p \in Procs : proc[p].pc # "idle" ~> (proc[p].pc = "idle" \/ ~Up)
=============================================================================
