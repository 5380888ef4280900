------------------------------ MODULE CppProofs ------------------------------
(***************************************************************************)
(* Theorems about Cpp, for all builders, routers, dispatchers, handlers    *)
(* and blocks, and for any bound on the routes.                            *)
(***************************************************************************)
EXTENDS Cpp, TLAPS

(* Objects that do not exist own nothing.                                  *)
UnmadeEmpty ==
    /\ \A b \in Builders : ~builder[b].made => builder[b].handlers = {}
    /\ \A r \in Routers : ~router[r].made => router[r].handlers = {} /\ router[r].native = NULL

CppInv == /\ CppTypeOK /\ UnmadeEmpty
          /\ OwnedOnce /\ HandlersBesideRoutes /\ DispatchersKeepRouters

LEMMA NothingHeld == Nothing \in [Handlers -> Nat] /\ \A h \in Handlers : Nothing[h] = 0
BY DEF Nothing, Handlers

LEMMA WithProperties ==
    ASSUME NEW held \in [Handlers -> Nat], NEW c
    PROVE  /\ With(held, c) \in [Handlers -> Nat]
           /\ \A h \in Handlers : With(held, c)[h] > 0 => h = c \/ held[h] > 0
BY DEF With, Handlers

LEMMA NoBuilderType ==
    /\ NoBuilder \in ApiBuilder /\ NoBuilder.held = Nothing
    /\ Unmade.native = NoBuilder /\ Unmade.handlers = {}
BY NothingHeld DEF NoBuilder, ApiBuilder, Unmade, Handlers

LEMMA NewBuilderType ==
    /\ NewBuilder(NULL) \in ApiBuilder
    /\ \A h \in Handlers : NewBuilder(NULL).held[h] = 0
<1>1. With(Nothing, NULL) \in [Handlers -> Nat] /\ \A h \in Handlers : With(Nothing, NULL)[h] = 0
  BY NothingHeld, ApiAssumption DEF With, Handlers
<1>2. NoBuilder \in ApiBuilder
  BY NoBuilderType
<1>3. NewBuilder(NULL) = [NoBuilder EXCEPT !.open = TRUE, !.held = With(Nothing, NULL)]
  BY DEF NewBuilder
<1>4. NewBuilder(NULL) \in ApiBuilder /\ NewBuilder(NULL).held = With(Nothing, NULL)
  BY <1>1, <1>2, <1>3 DEF ApiBuilder, Handlers
<1> QED BY <1>1, <1>4

LEMMA AddedType ==
    ASSUME NEW b \in ApiBuilder, NEW c, NEW n \in Added(b, c)
    PROVE  n \in ApiBuilder /\ n.held = With(b.held, c)
<1>1. b.held \in [Handlers -> Nat]
  BY DEF ApiBuilder, Handlers
<1>2. n = [b EXCEPT !.held = With(b.held, c)]
  BY DEF Added
<1> QED BY <1>1, <1>2, WithProperties DEF ApiBuilder, Handlers

LEMMA SpoiltType ==
    ASSUME NEW b \in ApiBuilder, NEW n \in Spoilt(b)
    PROVE  n \in ApiBuilder /\ n.held = b.held
BY ApiAssumption DEF Spoilt, ApiBuilder
-----------------------------------------------------------------------------
LEMMA InitInv == CppInit => CppInv
<1> SUFFICES ASSUME CppInit PROVE CppInv
  OBVIOUS
<1> USE NothingHeld, NoBuilderType
<1>1. CppTypeOK
  BY DEF CppInit, CppTypeOK, Unmade, NoRouter, Freed, Handlers
<1>2. OwnedOnce
  BY CppAssumption DEF CppInit, OwnedOnce, HandlersOwned, NativesOwned, Unmade, NoRouter, Freed
<1>3. HandlersBesideRoutes
  BY DEF CppInit, HandlersBesideRoutes, Unmade, NoRouter
<1>4. DispatchersKeepRouters
  BY DEF CppInit, DispatchersKeepRouters
<1>5. UnmadeEmpty
  BY DEF CppInit, UnmadeEmpty, Unmade, NoRouter
<1> QED BY <1>1, <1>2, <1>3, <1>4, <1>5 DEF CppInv

-----------------------------------------------------------------------------
(* Steps that do not touch what an invariant is about.                     *)
LEMMA StutterInv ==
    ASSUME CppInv, UNCHANGED cppVars
    PROVE  CppInv'
BY DEF CppInv, cppVars, CppTypeOK, OwnedOnce, HandlersOwned, NativesOwned, HandlersBesideRoutes,
       DispatchersKeepRouters, UnmadeEmpty

LEMMA DiesInv ==
    ASSUME CppInv, NEW fault \in {"none", "null_deref", "double_free", "use_after_free"}, Dies(fault)
    PROVE  CppInv'
BY DEF CppInv, Dies, CppTypeOK, OwnedOnce, HandlersOwned, NativesOwned, HandlersBesideRoutes,
       DispatchersKeepRouters, UnmadeEmpty

(* A step that changes one builder and the handlers alive: the builder     *)
(* keeps, gains or frees handlers of its own.                              *)
LEMMA BuilderStep ==
    ASSUME CppInv, NEW b \in Builders,
           NEW x \in [made : BOOLEAN, native : ApiBuilder, handlers : SUBSET Handlers, threw : BOOLEAN],
           builder' = [builder EXCEPT ![b] = x],
           alive' = (alive \ builder[b].handlers) \cup x.handlers,
           x.handlers \cap (alive \ builder[b].handlers) = {},
           ~x.made => x.handlers = {},
           ~x.threw => \A h \in Handlers : x.native.held[h] > 0 => h \in x.handlers,
           UNCHANGED <<router, dispatcher, heap, died>>
    PROVE  CppInv'
<1>1. CppTypeOK'
  BY DEF CppInv, CppTypeOK
<1>2. builder'[b] = x /\ \A a \in Builders : a # b => builder'[a] = builder[a]
  BY DEF CppInv, CppTypeOK
<1>3. HandlersOwned'
  <2>1. /\ \A a \in Builders : a # b => builder[a].handlers \subseteq alive \ builder[b].handlers
        /\ \A r \in Routers : router[r].handlers \subseteq alive \ builder[b].handlers
    BY DEF CppInv, OwnedOnce, HandlersOwned
  <2>2. ASSUME NEW h
        PROVE  h \in alive' <=> \/ \E a \in Builders : h \in builder'[a].handlers
                               \/ \E r \in Routers : h \in router'[r].handlers
    <3>1. h \in alive <=> \/ \E a \in Builders : h \in builder[a].handlers
                         \/ \E r \in Routers : h \in router[r].handlers
      BY DEF CppInv, OwnedOnce, HandlersOwned
    <3> QED BY <3>1, <2>1, <1>2
  <2>3. \A a, c \in Builders : a # c => builder'[a].handlers \cap builder'[c].handlers = {}
    BY <2>1, <1>2 DEF CppInv, OwnedOnce, HandlersOwned
  <2>4. \A a \in Builders, r \in Routers : builder'[a].handlers \cap router'[r].handlers = {}
    BY <2>1, <1>2 DEF CppInv, OwnedOnce, HandlersOwned
  <2>5. \A r, t \in Routers : r # t => router'[r].handlers \cap router'[t].handlers = {}
    BY DEF CppInv, OwnedOnce, HandlersOwned
  <2>6. alive' = (UNION {builder'[a].handlers : a \in Builders})
                 \cup (UNION {router'[r].handlers : r \in Routers})
    BY <2>2
  <2> QED BY <2>3, <2>4, <2>5, <2>6 DEF HandlersOwned
<1>4. NativesOwned'
  BY DEF CppInv, OwnedOnce, NativesOwned
<1>5. HandlersBesideRoutes'
  BY <1>2 DEF CppInv, HandlersBesideRoutes
<1>6. DispatchersKeepRouters'
  BY DEF CppInv, DispatchersKeepRouters
<1>7. UnmadeEmpty'
  BY <1>2 DEF CppInv, UnmadeEmpty
<1> QED BY <1>1, <1>3, <1>4, <1>5, <1>6, <1>7 DEF CppInv, OwnedOnce
-----------------------------------------------------------------------------
(* The steps of one builder.                                               *)
BuilderType == [made : BOOLEAN, native : ApiBuilder, handlers : SUBSET Handlers, threw : BOOLEAN]

LEMMA NewBuilderInv ==
    ASSUME CppInv, NEW b \in Builders, NewBuilderObject(b)
    PROVE  CppInv'
<1> DEFINE x == [Unmade EXCEPT !.made = TRUE, !.native = NewBuilder(NULL)]
<1>1. /\ x \in BuilderType /\ x.handlers = {} /\ x.made
      /\ \A h \in Handlers : x.native.held[h] = 0
  BY NewBuilderType DEF Unmade, BuilderType
<1>2. builder' = [builder EXCEPT ![b] = x] /\ UNCHANGED <<router, dispatcher, heap, alive, died>>
  BY DEF NewBuilderObject
<1>3. builder[b].handlers = {}
  BY DEF CppInv, UnmadeEmpty, NewBuilderObject
<1> HIDE DEF x
<1>4. /\ alive' = (alive \ builder[b].handlers) \cup x.handlers
      /\ x.handlers \cap (alive \ builder[b].handlers) = {}
  BY <1>1, <1>2, <1>3
<1>5. \A h \in Handlers : x.native.held[h] > 0 => h \in x.handlers
  BY <1>1
<1> QED BY <1>1, <1>2, <1>4, <1>5, BuilderStep DEF BuilderType

LEMMA AddHandlerInv ==
    ASSUME CppInv, NEW b \in Builders, NEW h \in Handlers, AddHandler(b, h)
    PROVE  CppInv'
<1>1. PICK native \in Added(builder[b].native, h) :
          builder' = [builder EXCEPT ![b].native = native, ![b].handlers = @ \cup {h}]
  BY DEF AddHandler
<1> DEFINE x == [builder[b] EXCEPT !.native = native, !.handlers = builder[b].handlers \cup {h}]
<1>2. builder[b] \in BuilderType
  BY DEF CppInv, CppTypeOK, BuilderType
<1>3. native \in ApiBuilder /\ native.held = With(builder[b].native.held, h)
  BY <1>2, AddedType DEF BuilderType
<1>4. /\ x \in BuilderType /\ x.handlers = builder[b].handlers \cup {h} /\ x.native = native
      /\ x.threw = builder[b].threw /\ x.made = builder[b].made
  BY <1>2, <1>3 DEF BuilderType
<1>5. builder' = [builder EXCEPT ![b] = x]
  BY <1>1
<1>6. /\ builder[b].handlers \subseteq alive /\ h \notin alive /\ alive' = alive \cup {h} /\ builder[b].made
      /\ UNCHANGED <<router, dispatcher, heap, died>>
  BY DEF CppInv, OwnedOnce, HandlersOwned, AddHandler, Adding, Open
<1>7. ~x.threw => \A g \in Handlers : x.native.held[g] > 0 => g \in x.handlers
  <2>1. builder[b].native.held \in [Handlers -> Nat]
    BY <1>2 DEF BuilderType, ApiBuilder, Handlers
  <2>2. ~builder[b].threw =>
            \A g \in Handlers : builder[b].native.held[g] > 0 => g \in builder[b].handlers
    BY DEF CppInv, HandlersBesideRoutes
  <2> QED BY <1>3, <1>4, <2>1, <2>2, WithProperties
<1>8. /\ x.handlers \cap (alive \ builder[b].handlers) = {}
      /\ alive' = (alive \ builder[b].handlers) \cup x.handlers
  BY <1>4, <1>6
<1> HIDE DEF x
<1> QED BY <1>4, <1>5, <1>6, <1>7, <1>8, BuilderStep DEF BuilderType

LEMMA AddHandlerRefusedInv ==
    ASSUME CppInv, NEW b \in Builders, AddHandlerRefused(b)
    PROVE  CppInv'
<1>1. PICK native \in Spoilt(builder[b].native) : builder' = [builder EXCEPT ![b].native = native]
  BY DEF AddHandlerRefused
<1> DEFINE x == [builder[b] EXCEPT !.native = native]
<1>2. builder[b] \in BuilderType
  BY DEF CppInv, CppTypeOK, BuilderType
<1>3. native \in ApiBuilder /\ native.held = builder[b].native.held
  BY <1>2, SpoiltType DEF BuilderType
<1>4. /\ x \in BuilderType /\ x.handlers = builder[b].handlers /\ x.native = native
      /\ x.threw = builder[b].threw /\ x.made = builder[b].made
  BY <1>2, <1>3 DEF BuilderType
<1>5. builder' = [builder EXCEPT ![b] = x]
  BY <1>1
<1>6. /\ builder[b].handlers \subseteq alive /\ builder[b].made
      /\ UNCHANGED <<router, dispatcher, heap, alive, died>>
  BY DEF CppInv, OwnedOnce, HandlersOwned, AddHandlerRefused, Open
<1>7. ~x.threw => \A g \in Handlers : x.native.held[g] > 0 => g \in x.handlers
  BY <1>3, <1>4 DEF CppInv, HandlersBesideRoutes
<1> HIDE DEF x
<1> QED BY <1>4, <1>5, <1>6, <1>7, BuilderStep DEF BuilderType

LEMMA AddHandlerUnstoredInv ==
    ASSUME CppInv, NEW b \in Builders, NEW h \in Handlers, AddHandlerUnstored(b, h)
    PROVE  CppInv'
<1>1. PICK native \in Added(builder[b].native, h) :
          builder' = [builder EXCEPT ![b].native = native, ![b].threw = TRUE]
  BY DEF AddHandlerUnstored
<1> DEFINE x == [builder[b] EXCEPT !.native = native, !.threw = TRUE]
<1>2. builder[b] \in BuilderType
  BY DEF CppInv, CppTypeOK, BuilderType
<1>3. native \in ApiBuilder
  BY <1>2, AddedType DEF BuilderType
<1>4. x \in BuilderType /\ x.handlers = builder[b].handlers /\ x.threw /\ x.made = builder[b].made
  BY <1>2, <1>3 DEF BuilderType
<1>5. builder' = [builder EXCEPT ![b] = x]
  BY <1>1
<1>6. /\ builder[b].handlers \subseteq alive /\ builder[b].made
      /\ UNCHANGED <<router, dispatcher, heap, alive, died>>
  BY DEF CppInv, OwnedOnce, HandlersOwned, AddHandlerUnstored, Adding, Open
<1> HIDE DEF x
<1> QED BY <1>4, <1>5, <1>6, BuilderStep DEF BuilderType

LEMMA DestroyBuilderInv ==
    ASSUME CppInv, NEW b \in Builders, DestroyBuilder(b)
    PROVE  CppInv'
<1>1. /\ Unmade \in BuilderType /\ Unmade.handlers = {} /\ \A h \in Handlers : Unmade.native.held[h] = 0
  BY NoBuilderType, NothingHeld DEF Unmade, BuilderType
<1>2. /\ builder' = [builder EXCEPT ![b] = Unmade] /\ alive' = alive \ builder[b].handlers
      /\ UNCHANGED <<router, dispatcher, heap, died>>
  BY DEF DestroyBuilder
<1> DEFINE x == Unmade
<1>3. /\ alive' = (alive \ builder[b].handlers) \cup x.handlers
      /\ x.handlers \cap (alive \ builder[b].handlers) = {}
      /\ ~x.made => x.handlers = {}
  BY <1>1, <1>2
<1>4. \A h \in Handlers : x.native.held[h] > 0 => h \in x.handlers
  BY <1>1
<1>5. x \in BuilderType /\ builder' = [builder EXCEPT ![b] = x]
  BY <1>1, <1>2
<1> HIDE DEF x
<1> QED BY <1>2, <1>3, <1>4, <1>5, BuilderStep DEF BuilderType

LEMMA ConsumeFailsInv ==
    ASSUME CppInv, NEW b \in Builders, ConsumeFails(b)
    PROVE  CppInv'
<1>1. CASE /\ builder' = [builder EXCEPT ![b].native = NoBuilder]
           /\ UNCHANGED <<router, dispatcher, heap, alive, died>>
  <2> DEFINE x == [builder[b] EXCEPT !.native = NoBuilder]
  <2>1. builder[b] \in BuilderType
    BY DEF CppInv, CppTypeOK, BuilderType
  <2>2. /\ x \in BuilderType /\ x.handlers = builder[b].handlers /\ x.native = NoBuilder
        /\ x.made = builder[b].made
    BY <2>1, NoBuilderType DEF BuilderType
  <2>3. builder' = [builder EXCEPT ![b] = x]
    BY <1>1
  <2>4. \A h \in Handlers : x.native.held[h] = 0
    BY <2>2, NoBuilderType, NothingHeld
  <2>5. builder[b].handlers \subseteq alive /\ builder[b].made
    BY DEF CppInv, OwnedOnce, HandlersOwned, ConsumeFails
  <2> HIDE DEF x
  <2>6. /\ alive' = (alive \ builder[b].handlers) \cup x.handlers
        /\ x.handlers \cap (alive \ builder[b].handlers) = {}
    BY <1>1, <2>2, <2>5
  <2>7. \A h \in Handlers : x.native.held[h] > 0 => h \in x.handlers
    BY <2>4
  <2> QED BY <1>1, <2>2, <2>3, <2>5, <2>6, <2>7, BuilderStep DEF BuilderType
<1>2. CASE \E fault \in CompileFaults(builder[b].native) : Dies(fault)
  <2>1. CompileFaults(builder[b].native) \subseteq {"none", "double_free"}
    BY DEF CompileFaults
  <2> QED BY <1>2, <2>1, DiesInv
<1> QED BY <1>1, <1>2 DEF ConsumeFails
-----------------------------------------------------------------------------
(* The steps that involve routers.                                         *)
MovedFrom == [Unmade EXCEPT !.made = TRUE]
RouterType == [made : BOOLEAN, native : Natives \cup {NULL}, handlers : SUBSET Handlers]

LEMMA MovedFromType ==
    /\ MovedFrom \in BuilderType /\ MovedFrom.handlers = {} /\ MovedFrom.made
    /\ \A h \in Handlers : ~(MovedFrom.native.held[h] > 0)
<1>1. Unmade \in BuilderType
  BY NoBuilderType DEF Unmade, BuilderType
<1>2. /\ MovedFrom \in BuilderType /\ MovedFrom.handlers = {} /\ MovedFrom.made
      /\ MovedFrom.native = NoBuilder
  BY <1>1, NoBuilderType DEF MovedFrom, BuilderType
<1> QED BY <1>2, NoBuilderType, NothingHeld

LEMMA ConsumeInv ==
    ASSUME CppInv, NEW b \in Builders, NEW r \in Routers, NEW n \in Natives, Consume(b, r, n)
    PROVE  CppInv'
<1> DEFINE x == MovedFrom
           y == [made |-> TRUE, native |-> n, handlers |-> builder[b].handlers]
           z == [live |-> TRUE, held |-> builder[b].native.held, threw |-> builder[b].threw]
<1>1. /\ x \in BuilderType /\ x.handlers = {} /\ x.made
      /\ \A h \in Handlers : ~(x.native.held[h] > 0)
  BY MovedFromType
<1>2. /\ builder[b] \in BuilderType /\ builder[b].native.held \in [Handlers -> Nat]
      /\ n # NULL
  BY CppAssumption DEF CppInv, CppTypeOK, BuilderType, ApiBuilder, Handlers
<1>3. /\ builder' = [builder EXCEPT ![b] = x] /\ router' = [router EXCEPT ![r] = y]
      /\ heap' = [heap EXCEPT ![n] = z] /\ UNCHANGED <<dispatcher, alive, died>>
  BY DEF Consume, MovedFrom
<1>4. router[r].handlers = {} /\ router[r].native = NULL
  BY DEF CppInv, UnmadeEmpty, Consume
<1>5. \A s \in Routers : router[s].native # n
  BY DEF CppInv, OwnedOnce, NativesOwned, Consume
<1>6. /\ y.made /\ y.native = n /\ y.handlers = builder[b].handlers
      /\ z.live /\ z.held = builder[b].native.held /\ z.threw = builder[b].threw
  OBVIOUS
<1>7. CppTypeOK'
  <2>1. y \in RouterType
    BY <1>2 DEF BuilderType, RouterType
  <2>2. z \in [live : BOOLEAN, held : [Handlers -> Nat], threw : BOOLEAN]
    BY <1>2 DEF BuilderType
  <2> HIDE DEF x, y, z
  <2> QED BY <1>1, <1>3, <2>1, <2>2 DEF CppInv, CppTypeOK, BuilderType, RouterType
<1> HIDE DEF x, y, z
<1>8. /\ builder'[b] = x /\ \A a \in Builders : a # b => builder'[a] = builder[a]
      /\ router'[r] = y /\ \A s \in Routers : s # r => router'[s] = router[s]
      /\ heap'[n] = z /\ \A m \in Natives : m # n => heap'[m] = heap[m]
  BY <1>3 DEF CppInv, CppTypeOK
<1>9. HandlersOwned'
  <2>1. ASSUME NEW h
        PROVE  h \in alive' <=> \/ \E a \in Builders : h \in builder'[a].handlers
                               \/ \E s \in Routers : h \in router'[s].handlers
    <3>1. h \in alive <=> \/ \E a \in Builders : h \in builder[a].handlers
                         \/ \E s \in Routers : h \in router[s].handlers
      BY DEF CppInv, OwnedOnce, HandlersOwned
    <3> QED BY <3>1, <1>1, <1>3, <1>4, <1>6, <1>8
  <2>2. alive' = (UNION {builder'[a].handlers : a \in Builders})
                 \cup (UNION {router'[s].handlers : s \in Routers})
    BY <2>1
  <2>3. \A a, c \in Builders : a # c => builder'[a].handlers \cap builder'[c].handlers = {}
    BY <1>1, <1>8 DEF CppInv, OwnedOnce, HandlersOwned
  <2>4. \A s, t \in Routers : s # t => router'[s].handlers \cap router'[t].handlers = {}
    BY <1>6, <1>8 DEF CppInv, OwnedOnce, HandlersOwned
  <2>5. \A a \in Builders, s \in Routers : builder'[a].handlers \cap router'[s].handlers = {}
    BY <1>1, <1>6, <1>8 DEF CppInv, OwnedOnce, HandlersOwned
  <2> QED BY <2>2, <2>3, <2>4, <2>5 DEF HandlersOwned
<1>10. NativesOwned'
  <2>1. ASSUME NEW m \in Natives
        PROVE  heap'[m].live <=> \E s \in Routers : router'[s].native = m
    <3>1. heap[m].live <=> \E s \in Routers : router[s].native = m
      BY DEF CppInv, OwnedOnce, NativesOwned
    <3>2. m # NULL
      BY CppAssumption
    <3> QED BY <3>1, <3>2, <1>4, <1>6, <1>8
  <2>2. \A s, t \in Routers : s # t /\ router'[s].native = router'[t].native => router'[s].native = NULL
    BY <1>5, <1>6, <1>8 DEF CppInv, OwnedOnce, NativesOwned
  <2> QED BY <2>1, <2>2 DEF NativesOwned
<1>11. HandlersBesideRoutes'
  <2>1. \A a \in Builders : ~builder'[a].threw =>
            \A h \in Handlers : builder'[a].native.held[h] > 0 => h \in builder'[a].handlers
    BY <1>1, <1>8 DEF CppInv, HandlersBesideRoutes
  <2>2. ASSUME NEW s \in Routers, router'[s].native # NULL, ~heap'[router'[s].native].threw,
               NEW h \in Handlers, heap'[router'[s].native].held[h] > 0
        PROVE  h \in router'[s].handlers
    <3>1. CASE s = r
      BY <2>2, <3>1, <1>6, <1>8 DEF CppInv, HandlersBesideRoutes
    <3>2. CASE s # r
      <4>1. router'[s] = router[s] /\ router[s].native \in Natives /\ router[s].native # n
        BY <2>2, <3>2, <1>5, <1>8 DEF CppInv, CppTypeOK
      <4> QED BY <2>2, <4>1, <1>8 DEF CppInv, HandlersBesideRoutes
    <3> QED BY <3>1, <3>2
  <2> QED BY <2>1, <2>2 DEF HandlersBesideRoutes
<1>12. DispatchersKeepRouters'
  <2>1. ASSUME NEW d \in Dispatchers, dispatcher'[d] # NULL
        PROVE  \E s \in Routers : router'[s].native = dispatcher'[d] /\ heap'[dispatcher'[d]].live
    <3>1. dispatcher'[d] = dispatcher[d] /\ dispatcher[d] \in Natives
      BY <2>1, <1>3 DEF CppInv, CppTypeOK
    <3>2. PICK s \in Routers : router[s].native = dispatcher[d] /\ heap[dispatcher[d]].live
      BY <2>1, <3>1 DEF CppInv, DispatchersKeepRouters
    <3>3. s # r /\ dispatcher[d] # n
      BY <2>1, <3>1, <3>2, <1>4, <1>5
    <3> QED BY <3>1, <3>2, <3>3, <1>8
  <2> QED BY <2>1 DEF DispatchersKeepRouters
<1>13. UnmadeEmpty'
  BY <1>1, <1>6, <1>8 DEF CppInv, UnmadeEmpty
<1> QED BY <1>7, <1>9, <1>10, <1>11, <1>12, <1>13 DEF CppInv, OwnedOnce

LEMMA MoveBuilderInv ==
    ASSUME CppInv, NEW a \in Builders, NEW b \in Builders, MoveBuilder(a, b)
    PROVE  CppInv'
<1> USE MovedFromType
<1>1. /\ a # b /\ builder' = [builder EXCEPT ![b] = builder[a], ![a] = MovedFrom]
      /\ alive' = alive \ builder[b].handlers /\ UNCHANGED <<router, dispatcher, heap, died>>
      /\ builder[a].made
  BY DEF MoveBuilder, MovedTo, MovedFrom
<1>2. CppTypeOK'
  BY <1>1 DEF CppInv, CppTypeOK, BuilderType
<1>3. /\ builder'[b] = builder[a] /\ builder'[a] = MovedFrom
      /\ \A c \in Builders : c # a /\ c # b => builder'[c] = builder[c]
  BY <1>1 DEF CppInv, CppTypeOK
<1>4. HandlersOwned'
  <2>1. ASSUME NEW h
        PROVE  h \in alive' <=> \/ \E c \in Builders : h \in builder'[c].handlers
                               \/ \E r \in Routers : h \in router'[r].handlers
    <3>1. h \in alive <=> \/ \E c \in Builders : h \in builder[c].handlers
                         \/ \E r \in Routers : h \in router[r].handlers
      BY DEF CppInv, OwnedOnce, HandlersOwned
    <3>2. h \in builder[b].handlers =>
              /\ \A c \in Builders : c # b => h \notin builder[c].handlers
              /\ \A r \in Routers : h \notin router[r].handlers
      BY DEF CppInv, OwnedOnce, HandlersOwned
    <3> QED BY <3>1, <3>2, <1>1, <1>3
  <2>2. alive' = (UNION {builder'[c].handlers : c \in Builders})
                 \cup (UNION {router'[r].handlers : r \in Routers})
    BY <2>1
  <2> DEFINE Was(c) == IF c = b THEN a ELSE c
  <2>3. ASSUME NEW c \in Builders, builder'[c].handlers # {}
        PROVE  c # a /\ Was(c) \in Builders /\ builder'[c].handlers = builder[Was(c)].handlers
    BY <2>3, <1>1, <1>3
  <2>4. \A c, d \in Builders : c # d => builder'[c].handlers \cap builder'[d].handlers = {}
    <3>1. \A c, d \in Builders : c # d => builder[c].handlers \cap builder[d].handlers = {}
      BY DEF CppInv, OwnedOnce, HandlersOwned
    <3> SUFFICES ASSUME NEW c \in Builders, NEW d \in Builders, c # d,
                        builder'[c].handlers # {}, builder'[d].handlers # {}
                 PROVE  builder'[c].handlers \cap builder'[d].handlers = {}
      OBVIOUS
    <3>2. Was(c) # Was(d)
      BY <2>3
    <3> HIDE DEF Was
    <3> QED BY <2>3, <3>1, <3>2
  <2>5. \A s, t \in Routers : s # t => router'[s].handlers \cap router'[t].handlers = {}
    BY <1>1 DEF CppInv, OwnedOnce, HandlersOwned
  <2>6. \A c \in Builders, s \in Routers : builder'[c].handlers \cap router'[s].handlers = {}
    <3>1. \A c \in Builders, s \in Routers : builder[c].handlers \cap router[s].handlers = {}
      BY DEF CppInv, OwnedOnce, HandlersOwned
    <3> HIDE DEF Was
    <3> QED BY <1>1, <2>3, <3>1
  <2> QED BY <2>2, <2>4, <2>5, <2>6 DEF HandlersOwned
<1>5. NativesOwned'
  BY <1>1 DEF CppInv, OwnedOnce, NativesOwned
<1>6. HandlersBesideRoutes'
  <2>1. \A c \in Builders : ~builder'[c].threw =>
            \A h \in Handlers : builder'[c].native.held[h] > 0 => h \in builder'[c].handlers
    BY <1>3 DEF CppInv, HandlersBesideRoutes
  <2> QED BY <1>1, <2>1 DEF CppInv, HandlersBesideRoutes
<1>7. DispatchersKeepRouters'
  BY <1>1 DEF CppInv, DispatchersKeepRouters
<1>8. UnmadeEmpty'
  BY <1>1, <1>3 DEF CppInv, UnmadeEmpty
<1> QED BY <1>2, <1>4, <1>5, <1>6, <1>7, <1>8 DEF CppInv, OwnedOnce

(* The router b is destroyed, or replaced by the router a that b is moved  *)
(* from: x is what b is, and y what a is afterwards.                       *)
LEMMA RouterStep ==
    ASSUME CppInv, NEW a \in Routers, NEW b \in Routers, NEW x \in RouterType, NEW y \in RouterType,
           \/ a = b /\ x = y
           \/ a # b /\ x = router[a],
           y.handlers = {}, y.native = NULL,
           ~x.made => x.handlers = {} /\ x.native = NULL,
           router' = [router EXCEPT ![b] = x, ![a] = y],
           Replaceable(b), FreeNative(b), UNCHANGED <<builder, dispatcher, died>>
    PROVE  CppInv'
<1>1. CppTypeOK'
  <2>1. Freed \in [live : BOOLEAN, held : [Handlers -> Nat], threw : BOOLEAN]
    BY NothingHeld DEF Freed
  <2>2. heap' \in [Natives -> [live : BOOLEAN, held : [Handlers -> Nat], threw : BOOLEAN]]
    <3>1. heap' = [n \in Natives |-> IF n = router[b].native THEN Freed ELSE heap[n]]
      BY DEF FreeNative
    <3> QED BY <2>1, <3>1 DEF CppInv, CppTypeOK
  <2>3. router' \in [Routers -> RouterType]
    BY DEF CppInv, CppTypeOK, RouterType
  <2>4. alive' \subseteq Handlers
    BY DEF FreeNative, CppInv, CppTypeOK
  <2> QED BY <2>2, <2>3, <2>4 DEF CppInv, CppTypeOK, RouterType
<1>2. /\ router'[a] = y /\ router'[b] = x
      /\ \A s \in Routers : s # a /\ s # b => router'[s] = router[s]
  BY DEF CppInv, CppTypeOK
<1>3. /\ alive' = alive \ router[b].handlers
      /\ \A n \in Natives : heap'[n] = IF n = router[b].native THEN Freed ELSE heap[n]
  BY DEF FreeNative
<1> DEFINE Was(s) == IF s = b THEN a ELSE s
<1>a. \A s \in Routers : \/ router'[s].handlers = {} /\ router'[s].native = NULL
                         \/ s # a /\ Was(s) \in Routers /\ router'[s] = router[Was(s)]
  BY <1>2
<1>b. \A s, t \in Routers : s # t /\ s # a /\ t # a => Was(s) # Was(t)
  OBVIOUS
<1>c. \A s \in Routers : s # a => Was(s) # b
  OBVIOUS
<1>d. ASSUME NEW s \in Routers, s # b
      PROVE  \E t \in Routers : router'[t] = router[s]
  <2>1. CASE s = a
    BY <2>1, <1>d, <1>2
  <2>2. CASE s # a
    BY <2>2, <1>d, <1>2
  <2> QED BY <2>1, <2>2
<1> HIDE DEF Was
<1>4. HandlersOwned'
  <2>1. ASSUME NEW h
        PROVE  h \in alive' <=> \/ \E c \in Builders : h \in builder'[c].handlers
                               \/ \E s \in Routers : h \in router'[s].handlers
    <3>1. h \in alive <=> \/ \E c \in Builders : h \in builder[c].handlers
                         \/ \E s \in Routers : h \in router[s].handlers
      BY DEF CppInv, OwnedOnce, HandlersOwned
    <3>2. h \in router[b].handlers =>
              /\ \A c \in Builders : h \notin builder[c].handlers
              /\ \A s \in Routers : s # b => h \notin router[s].handlers
      BY DEF CppInv, OwnedOnce, HandlersOwned
    <3>3. (\E s \in Routers : h \in router'[s].handlers)
              <=> \E s \in Routers : s # b /\ h \in router[s].handlers
      <4>1. ASSUME NEW s \in Routers, h \in router'[s].handlers
            PROVE  \E t \in Routers : t # b /\ h \in router[t].handlers
        BY <4>1, <1>a, <1>c
      <4>2. ASSUME NEW s \in Routers, s # b, h \in router[s].handlers
            PROVE  \E t \in Routers : h \in router'[t].handlers
        BY <4>2, <1>d
      <4> QED BY <4>1, <4>2
    <3> QED BY <3>1, <3>2, <3>3, <1>3
  <2>2. alive' = (UNION {builder'[c].handlers : c \in Builders})
                 \cup (UNION {router'[s].handlers : s \in Routers})
    BY <2>1
  <2>3. \A c, d \in Builders : c # d => builder'[c].handlers \cap builder'[d].handlers = {}
    BY DEF CppInv, OwnedOnce, HandlersOwned
  <2>4. \A s, t \in Routers : s # t => router'[s].handlers \cap router'[t].handlers = {}
    <3>1. \A s, t \in Routers : s # t => router[s].handlers \cap router[t].handlers = {}
      BY DEF CppInv, OwnedOnce, HandlersOwned
    <3> SUFFICES ASSUME NEW s \in Routers, NEW t \in Routers, s # t,
                        router'[s].handlers # {}, router'[t].handlers # {}
                 PROVE  router'[s].handlers \cap router'[t].handlers = {}
      OBVIOUS
    <3>2. /\ s # a /\ Was(s) \in Routers /\ router'[s] = router[Was(s)]
          /\ t # a /\ Was(t) \in Routers /\ router'[t] = router[Was(t)]
      BY <1>a
    <3>3. Was(s) # Was(t)
      BY <3>2, <1>b
    <3> QED BY <3>1, <3>2, <3>3
  <2>5. \A c \in Builders, s \in Routers : builder'[c].handlers \cap router'[s].handlers = {}
    <3>1. \A c \in Builders, s \in Routers : builder[c].handlers \cap router[s].handlers = {}
      BY DEF CppInv, OwnedOnce, HandlersOwned
    <3> QED BY <1>a, <3>1
  <2> QED BY <2>2, <2>3, <2>4, <2>5 DEF HandlersOwned
<1>5. NativesOwned'
  <2>1. ASSUME NEW n \in Natives
        PROVE  heap'[n].live <=> \E s \in Routers : router'[s].native = n
    <3>1. /\ heap[n].live <=> \E s \in Routers : router[s].native = n
          /\ n # NULL
      BY CppAssumption DEF CppInv, OwnedOnce, NativesOwned
    <3>2. (\E s \in Routers : router'[s].native = n)
              <=> \E s \in Routers : s # b /\ router[s].native = n
      <4>1. ASSUME NEW s \in Routers, router'[s].native = n
            PROVE  \E t \in Routers : t # b /\ router[t].native = n
        BY <4>1, <3>1, <1>a, <1>c
      <4>2. ASSUME NEW s \in Routers, s # b, router[s].native = n
            PROVE  \E t \in Routers : router'[t].native = n
        BY <4>2, <1>d
      <4> QED BY <4>1, <4>2
    <3>3. \A s \in Routers : s # b /\ router[s].native = n => router[b].native # n
      BY <3>1 DEF CppInv, OwnedOnce, NativesOwned
    <3>4. CASE n = router[b].native
      <4>1. heap'[n].live = FALSE
        BY <3>4, <1>3 DEF Freed
      <4> QED BY <3>2, <3>3, <3>4, <4>1
    <3>5. CASE n # router[b].native
      <4>1. heap'[n] = heap[n]
        BY <3>5, <1>3
      <4> QED BY <3>1, <3>2, <3>5, <4>1
    <3> QED BY <3>4, <3>5
  <2>2. \A s, t \in Routers : s # t /\ router'[s].native = router'[t].native => router'[s].native = NULL
    <3>1. \A s, t \in Routers : s # t /\ router[s].native = router[t].native => router[s].native = NULL
      BY DEF CppInv, OwnedOnce, NativesOwned
    <3> SUFFICES ASSUME NEW s \in Routers, NEW t \in Routers, s # t,
                        router'[s].native = router'[t].native, router'[s].native # NULL
                 PROVE  FALSE
      OBVIOUS
    <3>2. /\ s # a /\ Was(s) \in Routers /\ router'[s] = router[Was(s)]
          /\ t # a /\ Was(t) \in Routers /\ router'[t] = router[Was(t)]
      BY <1>a
    <3>3. Was(s) # Was(t)
      BY <3>2, <1>b
    <3> QED BY <3>1, <3>2, <3>3
  <2> QED BY <2>1, <2>2 DEF NativesOwned
<1>6. HandlersBesideRoutes'
  <2>1. \A c \in Builders : ~builder'[c].threw =>
            \A h \in Handlers : builder'[c].native.held[h] > 0 => h \in builder'[c].handlers
    BY DEF CppInv, HandlersBesideRoutes
  <2>2. ASSUME NEW s \in Routers, router'[s].native # NULL, ~heap'[router'[s].native].threw,
               NEW h \in Handlers, heap'[router'[s].native].held[h] > 0
        PROVE  h \in router'[s].handlers
    <3>1. PICK t \in Routers : router'[s] = router[t] /\ t # b
      BY <2>2, <1>a, <1>c
    <3>2. router[t].native \in Natives /\ router[t].native # router[b].native
      BY <2>2, <3>1 DEF CppInv, CppTypeOK, OwnedOnce, NativesOwned
    <3>3. heap'[router[t].native] = heap[router[t].native]
      BY <3>2, <1>3
    <3> QED BY <2>2, <3>1, <3>3 DEF CppInv, HandlersBesideRoutes
  <2> QED BY <2>1, <2>2 DEF HandlersBesideRoutes
<1>7. DispatchersKeepRouters'
  <2>1. ASSUME NEW d \in Dispatchers, dispatcher'[d] # NULL
        PROVE  \E s \in Routers : router'[s].native = dispatcher'[d] /\ heap'[dispatcher'[d]].live
    <3>1. dispatcher'[d] = dispatcher[d] /\ dispatcher[d] \in Natives
      BY <2>1 DEF CppInv, CppTypeOK
    <3>2. PICK s \in Routers : router[s].native = dispatcher[d] /\ heap[dispatcher[d]].live
      BY <2>1, <3>1 DEF CppInv, DispatchersKeepRouters
    <3>3. dispatcher[d] # router[b].native
      BY <2>1, <3>1 DEF Replaceable
    <3>4. heap'[dispatcher[d]].live
      BY <3>1, <3>2, <3>3, <1>3
    <3>5. \E t \in Routers : router'[t].native = router[s].native
      <4>1. s # b
        BY <3>2, <3>3
      <4> QED BY <4>1, <1>d
    <3> QED BY <3>1, <3>2, <3>4, <3>5
  <2> QED BY <2>1 DEF DispatchersKeepRouters
<1>8. UnmadeEmpty'
  BY <1>2 DEF CppInv, UnmadeEmpty
<1> QED BY <1>1, <1>4, <1>5, <1>6, <1>7, <1>8 DEF CppInv, OwnedOnce

LEMMA MoveRouterInv ==
    ASSUME CppInv, NEW a \in Routers, NEW b \in Routers, MoveRouter(a, b)
    PROVE  CppInv'
<1> DEFINE x == router[a]
           y == [NoRouter EXCEPT !.made = TRUE]
<1>1. x \in RouterType /\ y \in RouterType /\ y.handlers = {} /\ y.native = NULL /\ x.made
  BY DEF CppInv, CppTypeOK, RouterType, NoRouter, MoveRouter
<1>2. a # b /\ router' = [router EXCEPT ![b] = x, ![a] = y]
  BY DEF MoveRouter, MovedTo
<1>3. Replaceable(b) /\ FreeNative(b) /\ UNCHANGED <<builder, dispatcher, died>>
  BY DEF MoveRouter
<1>4. x = router[a]
  OBVIOUS
<1> HIDE DEF x, y
<1> QED BY <1>1, <1>2, <1>3, <1>4, RouterStep

LEMMA DestroyRouterInv ==
    ASSUME CppInv, NEW r \in Routers, DestroyRouter(r)
    PROVE  CppInv'
<1>1. NoRouter \in RouterType /\ NoRouter.handlers = {} /\ NoRouter.native = NULL
  BY DEF NoRouter, RouterType
<1>2. /\ router' = [router EXCEPT ![r] = NoRouter, ![r] = NoRouter]
      /\ Replaceable(r) /\ FreeNative(r) /\ UNCHANGED <<builder, dispatcher, died>>
  BY DEF DestroyRouter, CppInv, CppTypeOK
<1> QED BY <1>1, <1>2, RouterStep
-----------------------------------------------------------------------------
(* The steps of one dispatcher.                                            *)
LEMMA DispatcherInv ==
    ASSUME CppInv, NEW d \in Dispatchers, NEW n \in Natives \cup {NULL},
           dispatcher' = [dispatcher EXCEPT ![d] = n],
           n # NULL => \E r \in Routers : router[r].native = n,
           UNCHANGED <<builder, router, heap, alive, died>>
    PROVE  CppInv'
<1>1. CppTypeOK' /\ UnmadeEmpty' /\ OwnedOnce' /\ HandlersBesideRoutes'
  BY DEF CppInv, CppTypeOK, UnmadeEmpty, OwnedOnce, HandlersOwned, NativesOwned, HandlersBesideRoutes
<1>2. n # NULL => heap[n].live
  BY DEF CppInv, OwnedOnce, NativesOwned
<1>3. DispatchersKeepRouters'
  BY <1>2 DEF CppInv, CppTypeOK, DispatchersKeepRouters
<1> QED BY <1>1, <1>3 DEF CppInv

LEMMA NewDispatcherInv ==
    ASSUME CppInv, NEW d \in Dispatchers, NEW r \in Routers, NewDispatcher(d, r)
    PROVE  CppInv'
<1>1. CASE router[r].native = NULL
  BY <1>1, DiesInv DEF NewDispatcher
<1>2. CASE router[r].native # NULL
  <2>1. router[r].native \in Natives
    BY <1>2 DEF CppInv, CppTypeOK
  <2>2. /\ dispatcher' = [dispatcher EXCEPT ![d] = router[r].native]
        /\ UNCHANGED <<builder, router, heap, alive, died>>
    BY <1>2 DEF NewDispatcher
  <2> QED BY <2>1, <2>2, DispatcherInv
<1> QED BY <1>1, <1>2

LEMMA DestroyDispatcherInv ==
    ASSUME CppInv, NEW d \in Dispatchers, DestroyDispatcher(d)
    PROVE  CppInv'
BY DispatcherInv DEF DestroyDispatcher
-----------------------------------------------------------------------------
(* CppInv is inductive.  It joins the properties, for each needs others: a *)
(* native router moves without freeing its dispatchers' only because no    *)
(* two Router objects hold it, and nothing is lost when a router is made   *)
(* only because an object that is not made owns nothing.                   *)
LEMMA NextInv ==
    ASSUME CppInv, [CppNext]_cppVars
    PROVE  CppInv'
<1>1. ASSUME NEW b \in Builders,
             \/ NewBuilderObject(b) \/ AddHandlerRefused(b) \/ AddToNone(b)
             \/ ConsumeFails(b) \/ DestroyBuilder(b)
             \/ \E h \in Handlers : AddHandler(b, h) \/ AddHandlerUnstored(b, h)
             \/ \E r \in Routers, n \in Natives : Consume(b, r, n)
             \/ \E a \in Builders : MoveBuilder(a, b)
      PROVE  CppInv'
  <2>1. CASE NewBuilderObject(b)
    BY <2>1, NewBuilderInv
  <2>2. CASE AddHandlerRefused(b)
    BY <2>2, AddHandlerRefusedInv
  <2>3. CASE AddToNone(b)
    BY <2>3, DiesInv DEF AddToNone
  <2>4. CASE ConsumeFails(b)
    BY <2>4, ConsumeFailsInv
  <2>5. CASE DestroyBuilder(b)
    BY <2>5, DestroyBuilderInv
  <2>6. ASSUME NEW h \in Handlers, AddHandler(b, h) \/ AddHandlerUnstored(b, h)
        PROVE  CppInv'
    BY <2>6, AddHandlerInv, AddHandlerUnstoredInv
  <2>7. ASSUME NEW r \in Routers, NEW n \in Natives, Consume(b, r, n)
        PROVE  CppInv'
    BY <2>7, ConsumeInv
  <2>8. ASSUME NEW a \in Builders, MoveBuilder(a, b)
        PROVE  CppInv'
    BY <2>8, MoveBuilderInv
  <2> QED BY <1>1, <2>1, <2>2, <2>3, <2>4, <2>5, <2>6, <2>7, <2>8
<1>2. ASSUME NEW r \in Routers, DestroyRouter(r) \/ \E a \in Routers : MoveRouter(a, r)
      PROVE  CppInv'
  BY <1>2, DestroyRouterInv, MoveRouterInv
<1>3. ASSUME NEW d \in Dispatchers,
             DestroyDispatcher(d) \/ Dispatch(d) \/ \E r \in Routers : NewDispatcher(d, r)
      PROVE  CppInv'
  <2>1. CASE DestroyDispatcher(d)
    BY <2>1, DestroyDispatcherInv
  <2>2. CASE Dispatch(d)
    BY <2>2, DiesInv DEF Dispatch
  <2>3. ASSUME NEW r \in Routers, NewDispatcher(d, r)
        PROVE  CppInv'
    BY <2>3, NewDispatcherInv
  <2> QED BY <1>3, <2>1, <2>2, <2>3
<1>4. CASE UNCHANGED cppVars
  BY <1>4, StutterInv
<1> QED BY <1>1, <1>2, <1>3, <1>4 DEF CppNext

LEMMA CppInvariant == CppSpec => []CppInv
<1>1. CppInit => CppInv
  BY InitInv
<1>2. CppInv /\ [CppNext]_cppVars => CppInv'
  BY NextInv
<1> QED BY <1>1, <1>2, PTL DEF CppSpec

(* Whatever is added, refused, consumed, moved or moved from, every        *)
(* handler and every native router has one owner and is freed once.        *)
THEOREM HandlersAndNativesOwned == CppSpec => []OwnedOnce
<1>1. CppInv => OwnedOnce
  BY DEF CppInv
<1> QED BY <1>1, CppInvariant, PTL

(* The handler of every route lives beside the native object that can call *)
(* it, unless an add threw bad_alloc.                                      *)
THEOREM HandlersOfRoutes == CppSpec => []HandlersBesideRoutes
<1>1. CppInv => HandlersBesideRoutes
  BY DEF CppInv
<1> QED BY <1>1, CppInvariant, PTL

(* A dispatcher's router lives on in some Router object.                   *)
THEOREM RoutersOfDispatchers == CppSpec => []DispatchersKeepRouters
<1>1. CppInv => DispatchersKeepRouters
  BY DEF CppInv
<1> QED BY <1>1, CppInvariant, PTL
=============================================================================
