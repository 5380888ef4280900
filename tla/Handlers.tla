------------------------------ MODULE Handlers ------------------------------
(***************************************************************************)
(* dispatcher.c and params.c, seen by handlers: one dispatcher, used by    *)
(* one thread, whose handlers may dispatch or resolve again on it before   *)
(* they return.  Its parameters point into the text of the last request;   *)
(* a snapshot (wrouter_params_copy) does not.  Handlers are C functions,   *)
(* or C++ callables behind handler_trampoline, which get a snapshot.       *)
(*                                                                         *)
(* What a request binds is Match's business: here it is a constant.        *)
(***************************************************************************)
EXTENDS Naturals, SequencesExt

CONSTANTS Requests,   \* the requests, and
          Bindings,   \*   the parameters each binds: names and values
          Chars,      \*   of characters other than NUL
          NULL,       \* no snapshot
          MaxSize,    \* UINT16_MAX, the limit on a snapshot
          SizeMod,    \* one more than the largest size_t
          AllocFails, \* whether an allocation may fail
          MaxDepth,   \* bound: nested calls
          MaxKept     \* bound: snapshots kept
NUL == "NUL"
ASSUME HandlersAssumption ==
    /\ \A r \in Requests :
          Bindings[r] \in Seq([name : Seq(Chars) \ {<<>>}, value : Seq(Chars)])
    /\ NUL \notin Chars
    /\ {MaxSize, SizeMod, MaxDepth, MaxKept} \subseteq Nat /\ MaxSize < SizeMod

VARIABLES params,   \* dispatcher->params, and which text the values point into
          frames,   \* the handlers that have not returned, the innermost last
          texts,    \* the request texts not yet freed, by depth of their call
          kept      \* the snapshots that clients hold

handlerVars == <<params, frames, texts, kept>>

Depth == Len(frames)
Start == [bound |-> <<>>, text |-> 0]
HandlersInit == params = Start /\ frames = <<>> /\ texts = {} /\ kept = {}

-----------------------------------------------------------------------------
(* Adding to the size of a region, refused when it would pass the limit.   *)
FAILED == SizeMod
(* Mutant: compared with the limit alone.                                  *)
GrowUnsummed(size, n) == IF n > MaxSize THEN FAILED ELSE size + n
Grow(size, n) == IF n > (MaxSize - size) % SizeMod THEN FAILED ELSE size + n

RegionSize(ps) ==
    LET size[i \in 0..Len(ps)] ==
            IF i = 0 THEN 0
            ELSE IF size[i - 1] = FAILED THEN FAILED
            ELSE LET named == Grow(size[i - 1], Len(ps[i].name) + 1)
                 IN  IF named = FAILED THEN FAILED ELSE Grow(named, Len(ps[i].value) + 1)
    IN  size[Len(ps)]

(* Mutant: a value's terminator is overwritten by the next name.           *)
StringsUnterminated(p) == p.name \o <<NUL>> \o p.value
Strings(p) == p.name \o <<NUL>> \o p.value \o <<NUL>>

(* The region of calloc'ed bytes with every name and value behind the      *)
(* other, and the positions where they start.                              *)
Snapshot(ps) ==
    LET offset(i) == Len(FlattenSeq([j \in 1..(i - 1) |-> Strings(ps[j])])) + 1
        bytes     == FlattenSeq([i \in DOMAIN ps |-> Strings(ps[i])])
        size      == RegionSize(ps)
    IN  [region |-> bytes \o [i \in 1..(IF size > Len(bytes) THEN size - Len(bytes) ELSE 0) |-> NUL],
         base   |-> [i \in DOMAIN ps |-> [name  |-> offset(i),
                                          value |-> offset(i) + Len(ps[i].name) + 1]]]

StringAt(s, o) == SubSeq(s.region, o, Min({i \in o..Len(s.region) : s.region[i] = NUL}) - 1)

(* wrouter_params_copy, of parameters whose text is alive.                 *)
Copies(ps) ==
    (IF RegionSize(ps) = FAILED THEN {NULL} ELSE {Snapshot(ps)})
    \cup (IF AllocFails THEN {NULL} ELSE {})

(* Mutant: the callable runs before its parameters are copied.             *)
FrameEntered(r, cpp) == [request |-> r, cpp |-> cpp, own |-> NULL, entered |-> TRUE,
                         disturbed |-> FALSE]
Frame(r, cpp) == [request |-> r, cpp |-> cpp, own |-> NULL, entered |-> ~cpp, disturbed |-> FALSE]

(* The handler that makes the call, if there is one, has its parameters    *)
(* replaced.                                                               *)
Disturbed == IF frames = <<>> THEN <<>> ELSE [frames EXCEPT ![Depth].disturbed = TRUE]
Entered == \A f \in ToSet(frames) : f.entered

(* wrouter_ndispatch up to the call of the handler, if the route has one.  *)
Dispatch(r, cpp) ==
    /\ Entered /\ Depth < MaxDepth
    /\ params' = [bound |-> Bindings[r], text |-> Depth + 1]
    /\ frames' = Append(Disturbed, Frame(r, cpp))
    /\ texts' = texts \cup {Depth + 1}
    /\ UNCHANGED kept

(* wrouter_nresolve, or a dispatch to a route without a handler.           *)
Resolve(r) ==
    /\ Entered /\ Depth < MaxDepth
    /\ params' = [bound |-> Bindings[r], text |-> Depth + 1]
    /\ frames' = Disturbed
    /\ texts' = texts \cup {Depth + 1}
    /\ UNCHANGED kept

(* handler_trampoline: the snapshot is made before the callable is called. *)
Enter ==
    /\ frames # <<>> /\ Last(frames).cpp /\ Last(frames).own = NULL
    /\ \E s \in Copies(params.bound) \ {NULL} :
          frames' = [frames EXCEPT ![Depth].own = s, ![Depth].entered = TRUE]
    /\ UNCHANGED <<params, texts, kept>>

(* bad_alloc leaves the trampoline, or the handler returns.                *)
EnterFails == ~Entered /\ NULL \in Copies(params.bound)
Return ==
    /\ frames # <<>> /\ (Entered \/ EnterFails)
    /\ frames' = Front(frames)
    /\ UNCHANGED <<params, texts, kept>>

(* The caller frees a request's text once its call has returned.           *)
FreeText(t) ==
    /\ t > Depth
    /\ texts' = texts \ {t}
    /\ UNCHANGED <<params, frames, kept>>

(* A client copies the dispatcher's parameters, or a callable copies its   *)
(* Params, which share one snapshot; of is what the copy was made from.    *)
Keep ==
    /\ Cardinality(kept) < MaxKept /\ Entered
    /\ \E k \in {[of |-> params.bound, snapshot |-> s] :
                    s \in IF params.text \in texts THEN Copies(params.bound) \ {NULL} ELSE {}}
                \cup {[of |-> Bindings[f.request], snapshot |-> f.own] :
                    f \in {g \in ToSet(frames) : g.own # NULL}} :
          kept' = kept \cup {k}
    /\ UNCHANGED <<params, frames, texts>>

FreeSnapshot ==
    /\ \E k \in kept : kept' = kept \ {k}
    /\ UNCHANGED <<params, frames, texts>>

HandlersNext ==
    \/ \E r \in Requests : Resolve(r) \/ \E cpp \in BOOLEAN : Dispatch(r, cpp)
    \/ Enter \/ Return \/ Keep \/ FreeSnapshot
    \/ \E t \in texts : FreeText(t)

HandlersSpec == HandlersInit /\ [][HandlersNext]_handlerVars
-----------------------------------------------------------------------------
(* Lookup by index and by name, in the dispatcher's array and in Params:   *)
(* the values, or no value.                                                *)
wrouter_iparam(ps, i) == IF i \in DOMAIN ps THEN {ps[i].value} ELSE {}
wrouter_param(ps, n) ==
    LET named == {i \in DOMAIN ps : ps[i].name = n} IN wrouter_iparam(ps, Min(named \cup {Len(ps) + 1}))

Params_at(s, i) == IF i \in DOMAIN s.base THEN {StringAt(s, s.base[i].value)} ELSE {}
Params_get(s, n) ==
    LET named == {i \in DOMAIN s.base : StringAt(s, s.base[i].name) = n}
    IN  Params_at(s, Min(named \cup {Len(s.base) + 1}))

(* A snapshot answers as the parameters it was made from did, whatever the *)
(* dispatcher has matched and the clients have freed since: each value is  *)
(* found by its name and its index, and ends where it ended.               *)
SnapshotsFaithful ==
    \A k \in kept :
        /\ \A i \in 1..(Len(k.of) + 1) : Params_at(k.snapshot, i) = wrouter_iparam(k.of, i)
        /\ \A i \in DOMAIN k.of :
              Params_get(k.snapshot, k.of[i].name) = wrouter_param(k.of, k.of[i].name)

(* A snapshot is limited to MaxSize bytes in all, which it fills exactly:  *)
(* the comparisons of unsigned sizes never wrap round.                     *)
SnapshotsWithinLimit ==
    \A k \in kept :
        /\ Len(k.snapshot.region) <= MaxSize
        /\ Len(k.snapshot.region) = Len(FlattenSeq([i \in DOMAIN k.of |-> Strings(k.of[i])]))

(* A C++ callable keeps the parameters of its own request through nested   *)
(* dispatches on the same dispatcher (test_callable_params_survive_nested_ *)
(* dispatch); a C handler keeps them, and their text, until it makes such  *)
(* a call.                                                                 *)
HandlersSeeTheirOwn ==
    \A d \in DOMAIN frames :
        LET f == frames[d]
            ps == Bindings[f.request]
        IN  IF f.cpp THEN f.own # NULL => \A i \in 1..(Len(ps) + 1) : Params_at(f.own, i) = wrouter_iparam(ps, i)
            ELSE ~f.disturbed => params = [bound |-> ps, text |-> d] /\ d \in texts
=============================================================================
