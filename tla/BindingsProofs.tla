--------------------------- MODULE BindingsProofs ---------------------------
(***************************************************************************)
(* Theorems about the bindings whose objects are counted: of Erlang and of *)
(* Python, for every number of processes or threads, of objects and of     *)
(* contexts, and for lists and builders of every length.                   *)
(*                                                                         *)
(* Part 1: the counts of the Erlang binding need no lock.                  *)
(* Part 2: the counts of the Python binding are exact.                     *)
(***************************************************************************)
EXTENDS Erlang, Python, DataProofs

-----------------------------------------------------------------------------
(***************************************************************************)
(* Part 1.  The Erlang binding.  The invariant is a ledger with an entry   *)
(* for each context: nobody has it, one call has it (in hand or in its     *)
(* builder or router), or one block has it, and whoever has it holds it as *)
(* often as it counts.                                                     *)
(***************************************************************************)
-----------------------------------------------------------------------------

(* The types of the state.                                                 *)
Process == [pc : {"idle", "items", "add", "made", "resolve", "copy"}, list : Seq(Items),
            builder : ApiBuilder, ctx : Contexts \cup {NULL},
            router : [live : BOOLEAN, held : [Contexts -> Nat]], arg : Resources \cup {NULL}]

ErlTypeOK ==
    /\ proc \in [Procs -> Process]
    /\ terms \in [Procs -> SUBSET Resources]
    /\ resource \in [Resources -> [live : BOOLEAN, held : [Contexts -> Nat]]]
    /\ refs \in [Contexts -> Nat]
    /\ alive \in SUBSET Contexts

(* What each step of a call has at hand: a builder with routes, a router,  *)
(* a context, or an argument that it keeps a term for; mine are the terms  *)
(* of the process and rs the blocks.                                       *)
Shaped(call, mine, rs) ==
    /\ call.pc \notin {"items", "add"} => call.builder.held = Nothing
    /\ IF call.pc = "made" THEN call.router.live ELSE call.router.held = Nothing
    /\ call.pc = "add" => call.ctx \in Contexts /\ call.list # <<>>
    /\ call.pc \in {"resolve", "copy"} => call.arg \in mine
    /\ call.pc = "copy" => call.ctx \in Contexts /\ rs[call.arg].held[call.ctx] > 0
    /\ \A r \in mine : rs[r].live

CallsShaped ==
    /\ \A p \in Procs : Shaped(proc[p], terms[p], resource)
    /\ \A r \in Resources : ~resource[r].live => resource[r].held = Nothing

(* The ledger of a context c, of calls ps, blocks rs, counts n and the     *)
(* contexts live: it is not in use, or one call has it, or one block.      *)
HeldIn(ps, p, c) == ps[p].builder.held[c] + ps[p].router.held[c]
Has(ps, p, c) == ps[p].pc = "add" /\ ps[p].ctx = c
NoCalls(ps, P, c) == \A q \in P : HeldIn(ps, q, c) = 0 /\ ~Has(ps, q, c)
NoBlocks(rs, R, c) == \A r \in R : rs[r].held[c] = 0

Unused(ps, rs, live, c) ==
    c \notin live /\ NoCalls(ps, Procs, c) /\ NoBlocks(rs, Resources, c)

(* A call that has the context in hand has not added it.                   *)
OfCall(ps, rs, n, live, c, p) ==
    /\ c \in live /\ NoCalls(ps, Procs \ {p}, c) /\ NoBlocks(rs, Resources, c)
    /\ HeldIn(ps, p, c) = n[c] /\ (Has(ps, p, c) <=> n[c] = 0)

OfBlock(ps, rs, n, live, c, r) ==
    /\ c \in live /\ NoCalls(ps, Procs, c) /\ NoBlocks(rs, Resources \ {r}, c)
    /\ rs[r].held[c] = n[c] /\ n[c] > 0

Booked(ps, rs, n, live, c) ==
    \/ Unused(ps, rs, live, c)
    \/ \E p \in Procs : OfCall(ps, rs, n, live, c, p)
    \/ \E r \in Resources : OfBlock(ps, rs, n, live, c, r)

Ledger == \A c \in Contexts : Booked(proc, resource, refs, alive, c)

Healthy == ErlTypeOK /\ CallsShaped /\ Ledger
EInv == NoUseAfterFree /\ (Up => Healthy)
-----------------------------------------------------------------------------
(* How the entry of one context changes with a step of one call or block.  *)
Apart(f, g, S, x) == \A y \in S \ {x} : g[y] = f[y]

LEMMA HeldInIsNat ==
    ASSUME NEW ps \in [Procs -> Process], NEW p \in Procs, NEW c \in Contexts
    PROVE  HeldIn(ps, p, c) \in Nat
BY DEF HeldIn, Process, ApiBuilder

LEMMA EntryOfCall ==
    ASSUME NEW ps \in [Procs -> Process], NEW rs \in [Resources -> [live : BOOLEAN, held : [Contexts -> Nat]]],
           NEW n \in [Contexts -> Nat], NEW live, NEW c \in Contexts, NEW p \in Procs,
           Booked(ps, rs, n, live, c),
           HeldIn(ps, p, c) > 0 \/ Has(ps, p, c)
    PROVE  OfCall(ps, rs, n, live, c, p)
<1>1. ~(HeldIn(ps, p, c) = 0 /\ ~Has(ps, p, c))
  BY HeldInIsNat
<1>2. \A P : p \in P => ~NoCalls(ps, P, c)
  BY <1>1 DEF NoCalls
<1>3. \A q \in Procs : OfCall(ps, rs, n, live, c, q) => q = p
  BY <1>2 DEF OfCall
<1> QED BY <1>2, <1>3 DEF Booked, Unused, OfBlock

LEMMA EntryOfBlock ==
    ASSUME NEW ps \in [Procs -> Process], NEW rs \in [Resources -> [live : BOOLEAN, held : [Contexts -> Nat]]],
           NEW n \in [Contexts -> Nat], NEW live, NEW c \in Contexts, NEW r \in Resources,
           Booked(ps, rs, n, live, c),
           rs[r].held[c] > 0
    PROVE  OfBlock(ps, rs, n, live, c, r)
<1>1. \A R : r \in R => ~NoBlocks(rs, R, c)
  BY DEF NoBlocks
<1>2. \A s \in Resources : OfBlock(ps, rs, n, live, c, s) => s = r
  BY <1>1 DEF OfBlock
<1> QED BY <1>1, <1>2 DEF Booked, Unused, OfCall

LEMMA CallKeeps ==
    ASSUME NEW ps, NEW ps2, NEW rs, NEW n, NEW n2, NEW live, NEW live2,
           NEW c \in Contexts, NEW p \in Procs,
           Booked(ps, rs, n, live, c), Apart(ps, ps2, Procs, p),
           HeldIn(ps2, p, c) = HeldIn(ps, p, c), Has(ps2, p, c) <=> Has(ps, p, c),
           n2[c] = n[c], c \in live2 <=> c \in live
    PROVE  Booked(ps2, rs, n2, live2, c)
<1>1. \A q \in Procs : HeldIn(ps2, q, c) = HeldIn(ps, q, c) /\ (Has(ps2, q, c) <=> Has(ps, q, c))
  BY DEF Apart, HeldIn, Has
<1> QED BY <1>1 DEF Booked, Unused, OfCall, OfBlock, NoCalls

LEMMA CallEnds ==
    ASSUME NEW ps \in [Procs -> Process], NEW ps2, NEW rs \in [Resources -> [live : BOOLEAN, held : [Contexts -> Nat]]],
           NEW n \in [Contexts -> Nat], NEW n2, NEW live, NEW live2,
           NEW c \in Contexts, NEW p \in Procs,
           Booked(ps, rs, n, live, c), Apart(ps, ps2, Procs, p),
           HeldIn(ps2, p, c) = 0, ~Has(ps2, p, c),
           HeldIn(ps, p, c) = 0 /\ ~Has(ps, p, c) => n2[c] = n[c] /\ (c \in live2 <=> c \in live),
           HeldIn(ps, p, c) > 0 \/ Has(ps, p, c) => c \notin live2
    PROVE  Booked(ps2, rs, n2, live2, c)
<1>1. CASE HeldIn(ps, p, c) = 0 /\ ~Has(ps, p, c)
  BY <1>1, CallKeeps
<1>2. CASE HeldIn(ps, p, c) > 0 \/ Has(ps, p, c)
  <2>1. OfCall(ps, rs, n, live, c, p)
    BY <1>2, EntryOfCall
  <2>2. \A q \in Procs : HeldIn(ps2, q, c) = 0 /\ ~Has(ps2, q, c)
    BY <2>1 DEF OfCall, NoCalls, Apart, HeldIn, Has
  <2> QED BY <1>2, <2>1, <2>2 DEF Booked, Unused, OfCall, NoCalls
<1> QED BY <1>1, <1>2, HeldInIsNat

LEMMA CallTakes ==
    ASSUME NEW ps, NEW ps2, NEW rs, NEW n, NEW n2, NEW live, NEW live2,
           NEW c \in Contexts, NEW p \in Procs,
           Booked(ps, rs, n, live, c), Apart(ps, ps2, Procs, p), c \notin live,
           HeldIn(ps2, p, c) = HeldIn(ps, p, c), Has(ps2, p, c), n2[c] = 0, c \in live2
    PROVE  Booked(ps2, rs, n2, live2, c)
<1>1. Unused(ps, rs, live, c)
  BY DEF Booked, OfCall, OfBlock
<1>2. NoCalls(ps2, Procs \ {p}, c) /\ HeldIn(ps2, p, c) = 0
  BY <1>1 DEF Unused, NoCalls, Apart, HeldIn, Has
<1> QED BY <1>1, <1>2 DEF Booked, Unused, OfCall

LEMMA CallAdds ==
    ASSUME NEW ps \in [Procs -> Process], NEW ps2, NEW rs \in [Resources -> [live : BOOLEAN, held : [Contexts -> Nat]]],
           NEW n \in [Contexts -> Nat], NEW n2, NEW live,
           NEW c \in Contexts, NEW p \in Procs,
           Booked(ps, rs, n, live, c), Apart(ps, ps2, Procs, p), Has(ps, p, c), ~Has(ps2, p, c),
           HeldIn(ps2, p, c) = HeldIn(ps, p, c) + 1, n2[c] = n[c] + 1
    PROVE  Booked(ps2, rs, n2, live, c)
<1>1. OfCall(ps, rs, n, live, c, p)
  BY EntryOfCall
<1>2. NoCalls(ps2, Procs \ {p}, c)
  BY <1>1 DEF OfCall, NoCalls, Apart, HeldIn, Has
<1>3. HeldIn(ps, p, c) = n[c] /\ n[c] \in Nat
  BY <1>1 DEF OfCall
<1>4. n2[c] # 0 /\ HeldIn(ps2, p, c) = n2[c]
  BY <1>3
<1> QED BY <1>1, <1>2, <1>4 DEF Booked, OfCall

LEMMA CallHandsOver ==
    ASSUME NEW ps \in [Procs -> Process], NEW ps2, NEW rs \in [Resources -> [live : BOOLEAN, held : [Contexts -> Nat]]], NEW rs2,
           NEW n \in [Contexts -> Nat], NEW live, NEW c \in Contexts, NEW p \in Procs, NEW r \in Resources,
           Booked(ps, rs, n, live, c), Apart(ps, ps2, Procs, p), Apart(rs, rs2, Resources, r),
           ~Has(ps, p, c), ~Has(ps2, p, c), HeldIn(ps2, p, c) = 0,
           rs[r].held[c] = 0, rs2[r].held[c] = HeldIn(ps, p, c)
    PROVE  Booked(ps2, rs2, n, live, c)
<1>1. CASE HeldIn(ps, p, c) > 0
  <2>1. OfCall(ps, rs, n, live, c, p)
    BY <1>1, EntryOfCall
  <2>2. NoCalls(ps2, Procs, c)
    BY <2>1 DEF OfCall, NoCalls, Apart, HeldIn, Has
  <2>3. NoBlocks(rs2, Resources \ {r}, c)
    BY <2>1 DEF OfCall, NoBlocks, Apart
  <2>4. rs2[r].held[c] = n[c] /\ n[c] > 0
    BY <1>1, <2>1 DEF OfCall
  <2> QED BY <2>1, <2>2, <2>3, <2>4 DEF Booked, OfCall, OfBlock
<1>2. CASE HeldIn(ps, p, c) = 0
  <2>1. \A q \in Procs : HeldIn(ps2, q, c) = HeldIn(ps, q, c) /\ (Has(ps2, q, c) <=> Has(ps, q, c))
    BY <1>2 DEF Apart, HeldIn, Has
  <2>2. \A s \in Resources : rs2[s].held[c] = rs[s].held[c]
    BY <1>2 DEF Apart
  <2> QED BY <2>1, <2>2 DEF Booked, Unused, OfCall, OfBlock, NoCalls, NoBlocks
<1> QED BY <1>1, <1>2, HeldInIsNat

LEMMA BlockEnds ==
    ASSUME NEW ps \in [Procs -> Process], NEW rs \in [Resources -> [live : BOOLEAN, held : [Contexts -> Nat]]], NEW rs2,
           NEW n \in [Contexts -> Nat], NEW n2, NEW live, NEW live2, NEW c \in Contexts, NEW r \in Resources,
           Booked(ps, rs, n, live, c), Apart(rs, rs2, Resources, r), rs2[r].held[c] = 0,
           rs[r].held[c] = 0 => n2[c] = n[c] /\ (c \in live2 <=> c \in live),
           rs[r].held[c] > 0 => c \notin live2
    PROVE  Booked(ps, rs2, n2, live2, c)
<1>1. rs[r].held[c] \in Nat
  OBVIOUS
<1>2. CASE rs[r].held[c] > 0
  <2>1. OfBlock(ps, rs, n, live, c, r)
    BY <1>2, EntryOfBlock
  <2>2. NoBlocks(rs2, Resources, c)
    BY <2>1 DEF OfBlock, NoBlocks, Apart
  <2> QED BY <1>2, <2>1, <2>2 DEF Booked, Unused, OfBlock
<1>3. CASE rs[r].held[c] = 0
  <2>1. \A s \in Resources : rs2[s].held[c] = rs[s].held[c]
    BY <1>3 DEF Apart
  <2> QED BY <1>3, <2>1 DEF Booked, Unused, OfCall, OfBlock, NoBlocks
<1> QED BY <1>1, <1>2, <1>3

-----------------------------------------------------------------------------
(* The counts after releases of what their caller holds.                   *)
LEMMA MaxWithOne ==
    ASSUME NEW n \in Nat
    PROVE  Max({n, 1}) \in Nat /\ Max({n, 1}) >= n
<1> DEFINE m == IF n > 1 THEN n ELSE 1
<1>1. m \in {n, 1} /\ \A y \in {n, 1} : m >= y
  OBVIOUS
<1>2. Max({n, 1}) \in {n, 1} /\ \A y \in {n, 1} : Max({n, 1}) >= y
  <2> HIDE DEF m
  <2> QED BY <1>1, Zenon DEF Max
<1> QED BY <1>2

OwnedOnly(held) == \A c \in Contexts : held[c] > 0 => c \in alive /\ refs[c] = held[c]

LEMMA ReleasesOwn ==
    ASSUME refs \in [Contexts -> Nat], alive \in SUBSET Contexts,
           NEW held \in [Contexts -> Nat], OwnedOnly(held)
    PROVE  /\ ~TouchesFreed(refs, held)
           /\ Released(refs, held) \in [Contexts -> Nat]
           /\ Survivors(refs, held) \in SUBSET Contexts
           /\ \A c \in Contexts : held[c] = 0 =>
                 Released(refs, held)[c] = refs[c] /\ (c \in Survivors(refs, held) <=> c \in alive)
           /\ \A c \in Contexts : held[c] > 0 => c \notin Survivors(refs, held)
<1>1. ASSUME NEW c \in Contexts, held[c] > 0 PROVE c \in alive /\ ~(held[c] > Max({refs[c], 1}))
  <2>1. c \in alive /\ refs[c] = held[c] /\ refs[c] \in Nat
    BY <1>1 DEF OwnedOnly
  <2>2. Max({refs[c], 1}) \in Nat /\ Max({refs[c], 1}) >= refs[c]
    BY <2>1, MaxWithOne
  <2> QED BY <2>1, <2>2
<1>2. Released(refs, held) \in [Contexts -> Nat]
  BY DEF Released
<1>3. ASSUME NEW c \in Contexts PROVE Released(refs, held)[c] = IF refs[c] > held[c] THEN refs[c] - held[c] ELSE 0
  BY DEF Released
<1>4. \A c \in Contexts : held[c] = 0 => Released(refs, held)[c] = refs[c]
  BY <1>3
<1>5. \A c \in Contexts : held[c] > 0 => Released(refs, held)[c] = 0
  BY <1>3 DEF OwnedOnly
<1>6. ~TouchesFreed(refs, held)
  BY <1>1 DEF TouchesFreed
<1>7. \A c \in Contexts : c \in Survivors(refs, held) <=> c \in alive /\ held[c] = 0
  BY <1>5 DEF Survivors
<1> QED BY <1>2, <1>4, <1>6, <1>7 DEF Survivors

LEMMA CompilationKeepsCounts ==
    ASSUME refs \in [Contexts -> Nat], alive \in SUBSET Contexts,
           NEW held \in [Contexts -> Nat], OwnedOnly(held)
    PROVE  /\ ~TouchesFreed(Retained(refs, held), held)
           /\ Released(Retained(refs, held), held) = refs
           /\ Survivors(Retained(refs, held), held) = alive
<1> DEFINE both == Retained(refs, held)
<1>1. \A c \in Contexts : both[c] = refs[c] + held[c] /\ both[c] \in Nat
  BY DEF Retained
<1> HIDE DEF both
<1>2. ASSUME NEW c \in Contexts, held[c] > 0 PROVE c \in alive /\ ~(held[c] > Max({both[c], 1}))
  <2>1. c \in alive /\ held[c] <= both[c] /\ both[c] \in Nat /\ held[c] \in Nat
    BY <1>1, <1>2 DEF OwnedOnly
  <2>2. Max({both[c], 1}) \in Nat /\ Max({both[c], 1}) >= both[c]
    BY <2>1, MaxWithOne
  <2> QED BY <2>1, <2>2
<1>3. ASSUME NEW c \in Contexts PROVE (IF both[c] > held[c] THEN both[c] - held[c] ELSE 0) = refs[c]
  <2>1. both[c] = refs[c] + held[c] /\ refs[c] \in Nat /\ held[c] \in Nat
    BY <1>1
  <2> QED BY <2>1
<1>4. Released(both, held) = refs
  BY <1>3 DEF Released
<1>5. Survivors(both, held) = alive
  BY <1>4 DEF Survivors, OwnedOnly
<1> QED BY <1>2, <1>4, <1>5 DEF TouchesFreed, both

(* A call owns what its builder, its router and its hand hold; a block     *)
(* what its router holds.                                                  *)
LEMMA CallOwns ==
    ASSUME Healthy, NEW p \in Procs
    PROVE  /\ \A c \in Contexts : HeldIn(proc, p, c) > 0 => c \in alive /\ refs[c] = HeldIn(proc, p, c)
           /\ \A c \in Contexts : Has(proc, p, c) => c \in alive /\ refs[c] = 0 /\ HeldIn(proc, p, c) = 0
<1>1. ASSUME NEW c \in Contexts, HeldIn(proc, p, c) > 0 \/ Has(proc, p, c)
      PROVE  OfCall(proc, resource, refs, alive, c, p)
  BY <1>1, EntryOfCall DEF Healthy, ErlTypeOK, Ledger
<1> QED BY <1>1 DEF OfCall

LEMMA BlockOwns ==
    ASSUME Healthy, NEW r \in Resources
    PROVE  OwnedOnly(resource[r].held)
<1>1. ASSUME NEW c \in Contexts, resource[r].held[c] > 0
      PROVE  OfBlock(proc, resource, refs, alive, c, r)
  BY <1>1, EntryOfBlock DEF Healthy, ErlTypeOK, Ledger
<1> QED BY <1>1 DEF OfBlock, OwnedOnly

LEMMA CallHolds ==
    ASSUME Healthy, NEW p \in Procs
    PROVE  /\ proc[p] \in Process
           /\ proc[p].builder.held \in [Contexts -> Nat] /\ proc[p].router.held \in [Contexts -> Nat]
           /\ proc[p].pc # "made" => \A c \in Contexts : HeldIn(proc, p, c) = proc[p].builder.held[c]
           /\ proc[p].pc \notin {"items", "add"} => \A c \in Contexts : HeldIn(proc, p, c) = proc[p].router.held[c]
<1>1. proc[p] \in Process /\ Shaped(proc[p], terms[p], resource)
  BY DEF Healthy, ErlTypeOK, CallsShaped
<1>2. proc[p].builder.held \in [Contexts -> Nat] /\ proc[p].router.held \in [Contexts -> Nat]
  BY <1>1 DEF Process, ApiBuilder
<1>3. \A n \in Nat : n + 0 = n /\ 0 + n = n
  OBVIOUS
<1>4. proc[p].pc # "made" => \A c \in Contexts : proc[p].router.held[c] = 0
  BY <1>1 DEF Shaped, Nothing
<1>5. proc[p].pc \notin {"items", "add"} => \A c \in Contexts : proc[p].builder.held[c] = 0
  BY <1>1 DEF Shaped, Nothing
<1>6. \A c \in Contexts : proc[p].builder.held[c] \in Nat /\ proc[p].router.held[c] \in Nat
  BY <1>2
<1> QED BY <1>1, <1>2, <1>3, <1>4, <1>5, <1>6 DEF HeldIn

-----------------------------------------------------------------------------
(* Steps of a process: what a step that changes only its call has to show. *)
LEMMA StepOfCall ==
    ASSUME Healthy, NEW p \in Procs, NEW call \in Process, proc' = [proc EXCEPT ![p] = call],
           UNCHANGED <<terms, resource>>, refs' \in [Contexts -> Nat], alive' \in SUBSET Contexts,
           Shaped(call, terms[p], resource), Ledger'
    PROVE  Healthy'
<1>1. ErlTypeOK'
  BY DEF Healthy, ErlTypeOK
<1>2. CallsShaped'
  <2>1. ASSUME NEW q \in Procs PROVE Shaped(proc'[q], terms'[q], resource')
    <3>1. CASE q = p
      <4>1. proc'[p] = call /\ terms'[p] = terms[p] /\ resource' = resource
        BY DEF Healthy, ErlTypeOK
      <4> QED BY <3>1, <4>1
    <3>2. CASE q # p
      <4>1. proc'[q] = proc[q] /\ terms'[q] = terms[q] /\ resource' = resource
        BY <3>2 DEF Healthy, ErlTypeOK
      <4> QED BY <4>1 DEF Healthy, CallsShaped
    <3> QED BY <3>1, <3>2
  <2> QED BY <2>1 DEF CallsShaped, Healthy
<1> QED BY <1>1, <1>2 DEF Healthy

LEMMA ChangesOneCall ==
    ASSUME Healthy, NEW p \in Procs, NEW call, proc' = [proc EXCEPT ![p] = call]
    PROVE  Apart(proc, proc', Procs, p) /\ proc'[p] = call
BY DEF Healthy, ErlTypeOK, Apart

LEMMA IdleIsProcess ==
    /\ Idle \in Process /\ Idle.pc = "idle" /\ \A c \in Contexts : Idle.builder.held[c] = 0 /\ Idle.router.held[c] = 0
    /\ Idle.builder.held = Nothing /\ Idle.router.held = Nothing
<1>1. Nothing \in [Contexts -> Nat] /\ \A c \in Contexts : Nothing[c] = 0
  BY DEF Nothing
<1>2. NoBuilder \in ApiBuilder /\ NoBuilder.held = Nothing
  BY <1>1 DEF NoBuilder, ApiBuilder
<1>3. <<>> \in Seq(Items)
  OBVIOUS
<1> QED BY <1>1, <1>2, <1>3 DEF Idle, Process, NoRouter

(* A call whose counts and context in hand stay as they were.              *)
LEMMA StepKeeps ==
    ASSUME Healthy, NEW p \in Procs, NEW call \in Process, proc' = [proc EXCEPT ![p] = call],
           UNCHANGED <<terms, resource, refs, alive>>, Shaped(call, terms[p], resource),
           proc[p].pc # "add", call.pc # "add",
           \A c \in Contexts : call.builder.held[c] + call.router.held[c] = HeldIn(proc, p, c)
    PROVE  Healthy'
<1>1. Apart(proc, proc', Procs, p) /\ proc'[p] = call
  BY ChangesOneCall
<1>2. ASSUME NEW c \in Contexts PROVE Booked(proc', resource', refs', alive', c)
  <2>1. Booked(proc, resource, refs, alive, c)
    BY DEF Healthy, Ledger
  <2>2. HeldIn(proc', p, c) = HeldIn(proc, p, c) /\ ~Has(proc', p, c) /\ ~Has(proc, p, c)
    BY <1>1 DEF HeldIn, Has
  <2>3. Booked(proc', resource, refs, alive, c)
    BY <1>1, <2>1, <2>2, CallKeeps
  <2> QED BY <2>3
<1>3. refs' \in [Contexts -> Nat] /\ alive' \in SUBSET Contexts
  BY DEF Healthy, ErlTypeOK
<1> QED BY <1>2, <1>3, StepOfCall DEF Ledger

(* A call that answers, and leaves nothing behind.                         *)
LEMMA StepEnds ==
    ASSUME Healthy, NEW p \in Procs, Answer(p), UNCHANGED <<terms, resource>>,
           refs' \in [Contexts -> Nat], alive' \in SUBSET Contexts,
           \A c \in Contexts :
              /\ HeldIn(proc, p, c) = 0 /\ ~Has(proc, p, c) => refs'[c] = refs[c] /\ (c \in alive' <=> c \in alive)
              /\ HeldIn(proc, p, c) > 0 \/ Has(proc, p, c) => c \notin alive'
    PROVE  Healthy'
<1>1. proc' = [proc EXCEPT ![p] = Idle]
  BY DEF Answer, Goto
<1>2. Apart(proc, proc', Procs, p) /\ proc'[p] = Idle
  BY <1>1, ChangesOneCall
<1>3. ASSUME NEW c \in Contexts PROVE Booked(proc', resource', refs', alive', c)
  <2>1. /\ Booked(proc, resource, refs, alive, c) /\ proc \in [Procs -> Process] /\ refs \in [Contexts -> Nat]
        /\ resource \in [Resources -> [live : BOOLEAN, held : [Contexts -> Nat]]]
    BY DEF Healthy, Ledger, ErlTypeOK
  <2>2. HeldIn(proc', p, c) = 0 /\ ~Has(proc', p, c)
    BY <1>2, IdleIsProcess DEF HeldIn, Has
  <2>3. Booked(proc', resource, refs', alive', c)
    BY <1>2, <2>1, <2>2, CallEnds
  <2> QED BY <2>3
<1>4. \A r \in terms[p] : resource[r].live
  BY DEF Healthy, CallsShaped, Shaped
<1>5. Shaped(Idle, terms[p], resource)
  BY <1>4, IdleIsProcess DEF Shaped
<1> QED BY <1>1, <1>3, <1>5, IdleIsProcess, StepOfCall DEF Ledger

LEMMA Survived == (crash' # "use_after_free" /\ (crash' = "none" => Healthy')) => EInv'
BY DEF EInv, NoUseAfterFree, Up

(* The release of all that a call holds, by whatever has its counts.       *)
LEMMA ReleasesCall ==
    ASSUME Healthy, NEW p \in Procs, proc[p].pc # "add", NEW held \in [Contexts -> Nat],
           \A c \in Contexts : held[c] = HeldIn(proc, p, c),
           ReleaseHeld(held), Answer(p), UNCHANGED <<terms, resource>>
    PROVE  EInv'
<1>1. refs \in [Contexts -> Nat] /\ alive \in SUBSET Contexts
  BY DEF Healthy, ErlTypeOK
<1>2. OwnedOnly(held)
  BY CallOwns DEF OwnedOnly
<1>3. refs' = Released(refs, held) /\ alive' = Survivors(refs, held) /\ crash' = "none"
  BY <1>1, <1>2, ReleasesOwn DEF ReleaseHeld
<1>4. \A c \in Contexts : ~Has(proc, p, c)
  BY DEF Has
<1>5. Healthy'
  BY <1>1, <1>2, <1>3, <1>4, ReleasesOwn, StepEnds
<1> QED BY <1>3, <1>5, Survived

(* wrouter_builder_free, in the error paths of new_nif.                    *)
LEMMA FreesBuilder ==
    ASSUME Healthy, NEW p \in Procs, proc[p].pc = "items",
           FreeBuilder(proc[p].builder), Answer(p), UNCHANGED <<terms, resource>>
    PROVE  EInv'
<1>1. CASE FreeFault(proc[p].builder) # "none"
  BY <1>1, Survived DEF FreeBuilder, FreeFault
<1>2. CASE FreeFault(proc[p].builder) = "none"
  <2>1. ReleaseHeld(proc[p].builder.held)
    BY <1>2 DEF FreeBuilder
  <2>2. /\ proc[p].builder.held \in [Contexts -> Nat]
        /\ \A c \in Contexts : proc[p].builder.held[c] = HeldIn(proc, p, c)
    BY CallHolds
  <2> QED BY <2>1, <2>2, ReleasesCall
<1> QED BY <1>1, <1>2

-----------------------------------------------------------------------------
(* new_nif.                                                                *)
LEMMA WithNull == With(Nothing, NULL) = Nothing
BY ApiAssumption DEF With, Nothing

LEMMA CallNewStep ==
    ASSUME EInv, NEW p \in Procs, CallNew(p)
    PROVE  EInv'
<1>1. Healthy /\ proc[p].pc = "idle" /\ crash' = "none"
  BY DEF CallNew, At, EInv, Up
<1>2. PICK list \in Lists : Goto(p, [Idle EXCEPT !.pc = "items", !.list = list, !.builder = NewBuilder(NULL)])
  BY DEF CallNew
<1> DEFINE call == [Idle EXCEPT !.pc = "items", !.list = list, !.builder = NewBuilder(NULL)]
<1>3. NewBuilder(NULL) \in ApiBuilder /\ NewBuilder(NULL).held = Nothing
  <2>1. Nothing \in [Contexts -> Nat]
    BY DEF Nothing
  <2> QED BY <2>1, WithNull DEF NewBuilder, NoBuilder, ApiBuilder
<1>4. list \in Seq(Items)
  <2>1. \A n \in Nat : [1..n -> Items] \subseteq Seq(Items)
    OBVIOUS
  <2> QED BY <2>1 DEF Lists
<1>5. call \in Process /\ call.pc = "items" /\ call.builder.held = Nothing /\ call.router.held = Nothing
  BY <1>3, <1>4, IdleIsProcess DEF Process
<1>6. \A c \in Contexts : HeldIn(proc, p, c) = 0 /\ Nothing[c] + Nothing[c] = 0
  <2>1. \A c \in Contexts : proc[p].builder.held[c] = 0 /\ proc[p].router.held[c] = 0
    BY <1>1 DEF Healthy, CallsShaped, Shaped, Nothing
  <2> QED BY <2>1 DEF HeldIn, Nothing
<1> HIDE DEF call
<1>7. proc' = [proc EXCEPT ![p] = call] /\ UNCHANGED <<terms, resource, refs, alive>>
  BY <1>2 DEF CallNew, Goto, call
<1>8. Shaped(call, terms[p], resource)
  BY <1>1, <1>5 DEF Shaped, Healthy, CallsShaped
<1>9. Healthy'
  BY <1>1, <1>5, <1>6, <1>7, <1>8, StepKeeps
<1> QED BY <1>1, <1>9, Survived

LEMMA CallNewFailsStep ==
    ASSUME EInv, NEW p \in Procs, CallNewFails(p)
    PROVE  EInv'
<1>1. Healthy /\ UNCHANGED <<proc, terms, resource, refs, alive>> /\ crash' \in {"none", "null_deref"}
  BY DEF CallNewFails, At, EInv, Up, CreateFaults
<1>2. Healthy'
  BY <1>1 DEF Healthy, ErlTypeOK, CallsShaped, Ledger
<1> QED BY <1>1, <1>2, Survived

LEMMA CreateContextStep ==
    ASSUME EInv, NEW p \in Procs, CreateContext(p)
    PROVE  EInv'
<1>1. Healthy /\ proc[p].pc = "items" /\ crash' = "none" /\ proc[p].list # <<>>
  BY DEF CreateContext, At, EInv, Up
<1>2. PICK d \in Contexts \ alive :
         /\ Goto(p, [proc[p] EXCEPT !.pc = "add", !.ctx = d])
         /\ alive' = alive \cup {d} /\ refs' = [refs EXCEPT ![d] = 0]
  BY DEF CreateContext
<1> DEFINE call == [proc[p] EXCEPT !.pc = "add", !.ctx = d]
<1>3. proc[p] \in Process
  BY <1>1, CallHolds
<1>4. /\ call \in Process /\ call.pc = "add" /\ call.ctx = d /\ call.list = proc[p].list
      /\ call.builder = proc[p].builder /\ call.router = proc[p].router
  BY <1>3 DEF Process
<1> HIDE DEF call
<1>5. proc' = [proc EXCEPT ![p] = call] /\ UNCHANGED <<terms, resource>>
  BY <1>2 DEF CreateContext, Goto, call
<1>6. refs' \in [Contexts -> Nat] /\ alive' \in SUBSET Contexts
  BY <1>1, <1>2 DEF Healthy, ErlTypeOK
<1>7. Shaped(call, terms[p], resource)
  BY <1>1, <1>4 DEF Shaped, Healthy, CallsShaped
<1>8. Apart(proc, proc', Procs, p) /\ proc'[p] = call
  BY <1>1, <1>5, ChangesOneCall
<1>9. ASSUME NEW c \in Contexts PROVE Booked(proc', resource', refs', alive', c)
  <2>1. Booked(proc, resource, refs, alive, c) /\ refs \in [Contexts -> Nat]
    BY <1>1 DEF Healthy, Ledger, ErlTypeOK
  <2>2. HeldIn(proc', p, c) = HeldIn(proc, p, c) /\ ~Has(proc, p, c)
    BY <1>1, <1>4, <1>8 DEF HeldIn, Has
  <2>3. ASSUME c = d PROVE Booked(proc', resource, refs', alive', c)
    <3>1. Has(proc', p, c) /\ c \notin alive /\ refs'[c] = 0 /\ c \in alive'
      BY <1>2, <1>4, <1>8, <2>1, <2>3 DEF Has
    <3> QED BY <1>8, <2>1, <2>2, <3>1, CallTakes
  <2>4. ASSUME c # d PROVE Booked(proc', resource, refs', alive', c)
    <3>1. ~Has(proc', p, c) /\ refs'[c] = refs[c] /\ (c \in alive' <=> c \in alive)
      BY <1>2, <1>4, <1>8, <2>1, <2>4 DEF Has
    <3> QED BY <1>8, <2>1, <2>2, <3>1, CallKeeps
  <2> QED BY <1>5, <2>3, <2>4
<1>10. Healthy'
  BY <1>1, <1>4, <1>5, <1>6, <1>7, <1>9, StepOfCall DEF Ledger
<1> QED BY <1>1, <1>10, Survived

LEMMA AddContextStep ==
    ASSUME EInv, NEW p \in Procs, AddContext(p)
    PROVE  EInv'
<1>1. Healthy /\ proc[p].pc = "add" /\ crash' = "none"
  BY DEF AddContext, At, EInv, Up
<1> DEFINE d == proc[p].ctx
<1>2. PICK b \in Added(proc[p].builder, d) :
         Goto(p, [proc[p] EXCEPT !.pc = "items", !.list = Tail(@), !.builder = b, !.ctx = NULL])
  BY DEF AddContext
<1> DEFINE call == [proc[p] EXCEPT !.pc = "items", !.list = Tail(@), !.builder = b, !.ctx = NULL]
<1>3. proc[p] \in Process /\ proc[p].list # <<>> /\ d \in Contexts /\ proc[p].builder \in ApiBuilder
  BY <1>1, CallHolds DEF Healthy, CallsShaped, Shaped, Process
<1>4. b = [proc[p].builder EXCEPT !.held = With(@, d)]
  BY <1>2 DEF Added
<1>5. With(proc[p].builder.held, d) \in [Contexts -> Nat]
  BY <1>3 DEF With, ApiBuilder
<1>6. b \in ApiBuilder /\ b.held = With(proc[p].builder.held, d)
  BY <1>3, <1>4, <1>5 DEF ApiBuilder
<1>7. /\ call \in Process /\ call.pc = "items" /\ call.builder = b /\ call.router = proc[p].router
  <2>1. Tail(proc[p].list) \in Seq(Items)
    BY <1>3 DEF Process
  <2> QED BY <1>3, <1>6, <2>1 DEF Process
<1> HIDE DEF call
<1>8. proc' = [proc EXCEPT ![p] = call] /\ UNCHANGED <<terms, resource, alive>> /\ refs' = [refs EXCEPT ![d] = @ + 1]
  BY <1>2 DEF AddContext, Goto, call
<1>9. refs' \in [Contexts -> Nat] /\ alive' \in SUBSET Contexts
  <2>1. refs \in [Contexts -> Nat] /\ alive \in SUBSET Contexts /\ refs[d] + 1 \in Nat
    BY <1>1, <1>3 DEF Healthy, ErlTypeOK
  <2> HIDE DEF d
  <2> QED BY <1>8, <2>1
<1>10. Shaped(call, terms[p], resource)
  BY <1>1, <1>7 DEF Shaped, Healthy, CallsShaped
<1>11. Apart(proc, proc', Procs, p) /\ proc'[p] = call
  BY <1>1, <1>8, ChangesOneCall
<1>12. ASSUME NEW c \in Contexts PROVE Booked(proc', resource', refs', alive', c)
  <2>1. /\ Booked(proc, resource, refs, alive, c) /\ refs \in [Contexts -> Nat] /\ proc \in [Procs -> Process]
        /\ resource \in [Resources -> [live : BOOLEAN, held : [Contexts -> Nat]]]
    BY <1>1 DEF Healthy, Ledger, ErlTypeOK
  <2>2. ~Has(proc', p, c) /\ (Has(proc, p, c) <=> c = d)
    BY <1>1, <1>7, <1>11 DEF Has
  <2>3. /\ HeldIn(proc', p, c) = With(proc[p].builder.held, d)[c] + proc[p].router.held[c]
        /\ HeldIn(proc, p, c) = proc[p].builder.held[c] + proc[p].router.held[c]
    BY <1>6, <1>7, <1>11 DEF HeldIn
  <2>4. proc[p].builder.held[c] \in Nat /\ proc[p].router.held[c] \in Nat
    BY <1>3 DEF Process, ApiBuilder
  <2>5. \A x, y \in Nat : (x + 1) + y = (x + y) + 1 /\ (x + 0) + y = x + y
    OBVIOUS
  <2>6. ASSUME c = d PROVE Booked(proc', resource, refs', alive, c)
    <3>1. HeldIn(proc', p, c) = HeldIn(proc, p, c) + 1
      BY <2>3, <2>4, <2>5, <2>6 DEF With
    <3>2. refs'[c] = refs[c] + 1
      BY <1>8, <2>1, <2>6
    <3> QED BY <1>11, <2>1, <2>2, <2>6, <3>1, <3>2, CallAdds
  <2>7. ASSUME c # d PROVE Booked(proc', resource, refs', alive, c)
    <3>1. HeldIn(proc', p, c) = HeldIn(proc, p, c)
      BY <2>3, <2>4, <2>5, <2>7 DEF With
    <3>2. refs'[c] = refs[c]
      BY <1>8, <2>1, <2>7
    <3> QED BY <1>11, <2>1, <2>2, <2>7, <3>1, <3>2, CallKeeps
  <2> QED BY <1>8, <2>6, <2>7
<1>13. Healthy'
  BY <1>1, <1>7, <1>8, <1>9, <1>10, <1>12, StepOfCall DEF Ledger
<1> QED BY <1>1, <1>13, Survived

(* What the builder held is released; the context in hand, with a count of *)
(* zero, is freed by hand.                                                 *)
LEMMA AddContextFailsStep ==
    ASSUME EInv, NEW p \in Procs, AddContextFails(p)
    PROVE  EInv'
<1>1. Healthy /\ proc[p].pc = "add" /\ Answer(p) /\ UNCHANGED <<terms, resource>>
  BY DEF AddContextFails, At, EInv, Up
<1> DEFINE d == proc[p].ctx
           held == proc[p].builder.held
<1>2. PICK b \in Spoilt(proc[p].builder) :
         IF FreeFault(b) # "none" THEN crash' = FreeFault(b) /\ UNCHANGED <<refs, alive>>
         ELSE /\ refs' = Released(refs, b.held)
              /\ alive' = Survivors(refs, b.held) \ {d}
              /\ crash' = IF TouchesFreed(refs, b.held) THEN "use_after_free" ELSE "none"
  BY DEF AddContextFails
<1>3. b.held = held
  <2>1. proc[p].builder \in ApiBuilder
    BY <1>1, CallHolds DEF Process
  <2> QED BY <2>1 DEF Spoilt, ApiBuilder
<1>4. CASE FreeFault(b) # "none"
  BY <1>2, <1>4, Survived DEF FreeFault
<1>5. CASE FreeFault(b) = "none"
  <2>1. /\ held \in [Contexts -> Nat] /\ \A c \in Contexts : HeldIn(proc, p, c) = held[c]
        /\ refs \in [Contexts -> Nat] /\ alive \in SUBSET Contexts
    BY <1>1, CallHolds DEF Healthy, ErlTypeOK
  <2>2. /\ \A c \in Contexts : HeldIn(proc, p, c) > 0 => c \in alive /\ refs[c] = HeldIn(proc, p, c)
        /\ \A c \in Contexts : Has(proc, p, c) => HeldIn(proc, p, c) = 0
    BY <1>1, CallOwns
  <2> HIDE DEF held
  <2>3. OwnedOnly(held)
    BY <2>1, <2>2 DEF OwnedOnly
  <2>4. /\ refs' = Released(refs, held) /\ alive' = Survivors(refs, held) \ {d} /\ crash' = "none"
    BY <1>2, <1>3, <1>5, <2>1, <2>3, ReleasesOwn
  <2>5. \A c \in Contexts : Has(proc, p, c) <=> c = d
    BY <1>1 DEF Has
  <2> HIDE DEF d
  <2>6. /\ refs' \in [Contexts -> Nat] /\ alive' \in SUBSET Contexts
        /\ \A c \in Contexts : held[c] = 0 => refs'[c] = refs[c] /\ (c \in alive' <=> c \in alive /\ c # d)
        /\ \A c \in Contexts : held[c] > 0 => c \notin alive'
    BY <2>1, <2>3, <2>4, ReleasesOwn
  <2>7. Healthy'
    <3>1. ASSUME NEW c \in Contexts
          PROVE  /\ HeldIn(proc, p, c) = 0 /\ ~Has(proc, p, c) => refs'[c] = refs[c] /\ (c \in alive' <=> c \in alive)
                 /\ HeldIn(proc, p, c) > 0 \/ Has(proc, p, c) => c \notin alive'
      BY <2>1, <2>2, <2>5, <2>6
    <3> QED BY <1>1, <2>6, <3>1, StepEnds
  <2> QED BY <2>4, <2>7, Survived
<1> QED BY <1>4, <1>5

LEMMA ConsumeStep ==
    ASSUME EInv, NEW p \in Procs, Consume(p)
    PROVE  EInv'
<1>1. Healthy /\ proc[p].pc = "items" /\ UNCHANGED <<terms, resource>>
  BY DEF Consume, At, EInv, Up
<1> DEFINE held == proc[p].builder.held
           call == [Idle EXCEPT !.pc = "made", !.router = Router(held)]
<1>2. /\ held \in [Contexts -> Nat] /\ \A c \in Contexts : HeldIn(proc, p, c) = held[c]
      /\ refs \in [Contexts -> Nat] /\ alive \in SUBSET Contexts
  BY <1>1, CallHolds DEF Healthy, ErlTypeOK
<1>3. OwnedOnly(held)
  BY <1>1, <1>2, CallOwns DEF OwnedOnly
<1>4. /\ refs' = Released(Retained(refs, held), held)
      /\ alive' = Survivors(Retained(refs, held), held)
      /\ crash' = IF TouchesFreed(Retained(refs, held), held) THEN "use_after_free" ELSE "none"
      /\ proc' = [proc EXCEPT ![p] = call]
  BY DEF Consume, Goto
<1> HIDE DEF held
<1>5. UNCHANGED <<refs, alive>> /\ crash' = "none"
  BY <1>2, <1>3, <1>4, CompilationKeepsCounts
<1>6. /\ call \in Process /\ call.pc = "made" /\ call.builder.held = Nothing /\ call.router.held = held /\ call.router.live
  BY <1>2, IdleIsProcess DEF Process, Router
<1>7. Shaped(call, terms[p], resource)
  <2>1. \A r \in terms[p] : resource[r].live
    BY <1>1 DEF Healthy, CallsShaped, Shaped
  <2> HIDE DEF call
  <2> QED BY <1>6, <2>1 DEF Shaped
<1>8. \A c \in Contexts : call.builder.held[c] + call.router.held[c] = HeldIn(proc, p, c)
  <2>1. \A c \in Contexts : 0 + held[c] = held[c]
    BY <1>2
  <2> HIDE DEF call
  <2> QED BY <1>2, <1>6, <2>1 DEF Nothing
<1>9. Healthy'
  BY <1>1, <1>4, <1>5, <1>6, <1>7, <1>8, StepKeeps
<1> QED BY <1>5, <1>9, Survived

LEMMA ConsumeFailsStep ==
    ASSUME EInv, NEW p \in Procs, ConsumeFails(p)
    PROVE  EInv'
<1>1. Healthy /\ proc[p].pc = "items" /\ Answer(p) /\ UNCHANGED <<terms, resource>>
  BY DEF ConsumeFails, At, EInv, Up
<1>2. CASE FreeBuilder(proc[p].builder)
  BY <1>1, <1>2, FreesBuilder
<1>3. CASE crash' \in CompileFaults(proc[p].builder) \ {"none"}
  BY <1>3, Survived DEF CompileFaults
<1> QED BY <1>2, <1>3 DEF ConsumeFails

(* What the call holds becomes what the block holds.                       *)
LEMMA MakeResourceStep ==
    ASSUME EInv, NEW p \in Procs, MakeResource(p)
    PROVE  EInv'
<1>1. Healthy /\ proc[p].pc = "made" /\ UNCHANGED <<refs, alive>> /\ crash' = "none" /\ proc' = [proc EXCEPT ![p] = Idle]
  BY DEF MakeResource, At, EInv, Up, Answer, Goto
<1>2. PICK r \in Resources :
         /\ ~resource[r].live
         /\ resource' = [resource EXCEPT ![r] = proc[p].router]
         /\ terms' = [terms EXCEPT ![p] = @ \cup {r}]
  BY DEF MakeResource
<1>3. /\ proc[p] \in Process /\ proc[p].router.held \in [Contexts -> Nat]
      /\ \A c \in Contexts : HeldIn(proc, p, c) = proc[p].router.held[c]
  BY <1>1, CallHolds
<1>4. ErlTypeOK
  BY <1>1 DEF Healthy
<1>5. proc[p].router \in [live : BOOLEAN, held : [Contexts -> Nat]]
  BY <1>3 DEF Process
<1>6. ErlTypeOK'
  BY <1>1, <1>2, <1>4, <1>5, IdleIsProcess DEF ErlTypeOK
<1>7. Apart(proc, proc', Procs, p) /\ proc'[p] = Idle
  BY <1>1, ChangesOneCall
<1>8. Apart(resource, resource', Resources, r) /\ resource'[r] = proc[p].router
  BY <1>2, <1>4 DEF ErlTypeOK, Apart
<1>9. resource[r].held = Nothing
  BY <1>1, <1>2 DEF Healthy, CallsShaped
<1>10. ASSUME NEW c \in Contexts PROVE Booked(proc', resource', refs', alive', c)
  <2>1. /\ Booked(proc, resource, refs, alive, c) /\ proc \in [Procs -> Process] /\ refs \in [Contexts -> Nat]
        /\ resource \in [Resources -> [live : BOOLEAN, held : [Contexts -> Nat]]]
    BY <1>1, <1>4 DEF Healthy, Ledger, ErlTypeOK
  <2>2. HeldIn(proc', p, c) = 0 /\ ~Has(proc', p, c) /\ ~Has(proc, p, c)
    BY <1>1, <1>7, IdleIsProcess DEF HeldIn, Has
  <2>3. resource[r].held[c] = 0 /\ resource'[r].held[c] = HeldIn(proc, p, c)
    BY <1>3, <1>8, <1>9 DEF Nothing
  <2>4. Booked(proc', resource', refs, alive, c)
    BY <1>7, <1>8, <2>1, <2>2, <2>3, CallHandsOver
  <2> QED BY <1>1, <2>4
<1>11. CallsShaped'
  <2>1. proc[p].router.live /\ \A q \in Procs : Shaped(proc[q], terms[q], resource)
    BY <1>1 DEF Healthy, CallsShaped, Shaped
  <2>2. /\ \A s \in Resources : resource[s].live => resource'[s] = resource[s]
        /\ \A s \in Resources : resource[s].live => resource'[s].live
        /\ resource'[r].live
    BY <1>2, <1>8, <2>1 DEF Apart
  <2>3. ASSUME NEW q \in Procs PROVE Shaped(proc'[q], terms'[q], resource')
    <3>1. \A s \in terms[q] : s \in Resources /\ resource[s].live
      BY <1>4, <2>1 DEF ErlTypeOK, Shaped
    <3>2. CASE q = p
      <4>1. terms'[p] = terms[p] \cup {r}
        BY <1>2, <1>4 DEF ErlTypeOK
      <4>2. \A s \in terms'[p] : resource'[s].live
        BY <2>2, <3>1, <3>2, <4>1
      <4> QED BY <1>7, <3>2, <4>2, IdleIsProcess DEF Shaped
    <3>3. CASE q # p
      <4>1. proc'[q] = proc[q] /\ terms'[q] = terms[q]
        BY <1>2, <1>4, <1>7, <3>3 DEF ErlTypeOK, Apart
      <4>2. \A s \in terms[q] : resource'[s] = resource[s]
        BY <2>2, <3>1
      <4> QED BY <2>1, <3>1, <4>1, <4>2 DEF Shaped
    <3> QED BY <3>2, <3>3
  <2>4. ASSUME NEW s \in Resources, ~resource'[s].live PROVE resource'[s].held = Nothing
    <3>1. s # r /\ resource'[s] = resource[s]
      BY <1>8, <2>2, <2>4 DEF Apart
    <3> QED BY <1>1, <2>4, <3>1 DEF Healthy, CallsShaped
  <2> QED BY <2>3, <2>4 DEF CallsShaped
<1> QED BY <1>1, <1>6, <1>10, <1>11, Survived DEF Healthy, Ledger

LEMMA NoResourceStep ==
    ASSUME EInv, NEW p \in Procs, NoResource(p)
    PROVE  EInv'
<1>1. /\ Healthy /\ proc[p].pc = "made" /\ Answer(p) /\ UNCHANGED <<terms, resource>>
      /\ ReleaseHeld(proc[p].router.held)
  BY DEF NoResource, At, EInv, Up
<1>2. /\ proc[p].router.held \in [Contexts -> Nat]
      /\ \A c \in Contexts : proc[p].router.held[c] = HeldIn(proc, p, c)
  BY <1>1, CallHolds
<1> QED BY <1>1, <1>2, ReleasesCall

-----------------------------------------------------------------------------
(* resolve_nif.                                                            *)
LEMMA IdleHoldsNothing ==
    ASSUME Healthy, NEW p \in Procs, proc[p].pc \in {"idle", "resolve", "copy"}, NEW c \in Contexts
    PROVE  HeldIn(proc, p, c) = 0 /\ proc[p].builder.held = Nothing /\ proc[p].router.held = Nothing
BY DEF Healthy, CallsShaped, Shaped, HeldIn, Nothing

LEMMA CallResolveStep ==
    ASSUME EInv, NEW p \in Procs, CallResolve(p)
    PROVE  EInv'
<1>1. Healthy /\ proc[p].pc = "idle" /\ UNCHANGED <<terms, resource, refs, alive>> /\ crash' = "none"
  BY DEF CallResolve, At, EInv, Up
<1>2. PICK r \in terms[p] : proc' = [proc EXCEPT ![p] = [Idle EXCEPT !.pc = "resolve", !.arg = r]]
  BY DEF CallResolve, Goto
<1> DEFINE call == [Idle EXCEPT !.pc = "resolve", !.arg = r]
<1>3. r \in Resources /\ \A s \in terms[p] : resource[s].live
  BY <1>1 DEF Healthy, ErlTypeOK, CallsShaped, Shaped
<1>4. call \in Process /\ call.pc = "resolve" /\ call.arg = r /\ call.builder.held = Nothing /\ call.router.held = Nothing
  BY <1>3, IdleIsProcess DEF Process
<1> HIDE DEF call
<1>5. Shaped(call, terms[p], resource)
  BY <1>3, <1>4 DEF Shaped
<1>6. \A c \in Contexts : call.builder.held[c] + call.router.held[c] = HeldIn(proc, p, c)
  BY <1>1, <1>4, IdleHoldsNothing DEF Nothing
<1>7. Healthy'
  BY <1>1, <1>2, <1>4, <1>5, <1>6, StepKeeps DEF call
<1> QED BY <1>1, <1>7, Survived

LEMMA ResolveStep ==
    ASSUME EInv, NEW p \in Procs, ResolvePath(p)
    PROVE  EInv'
<1>1. Healthy /\ proc[p].pc = "resolve" /\ UNCHANGED <<terms, resource, refs, alive>> /\ crash' = "none"
  BY DEF ResolvePath, At, EInv, Up
<1>2. PICK c \in {d \in Contexts : resource[proc[p].arg].held[d] > 0} :
         proc' = [proc EXCEPT ![p] = [proc[p] EXCEPT !.pc = "copy", !.ctx = c]]
  BY DEF ResolvePath, Goto
<1> DEFINE call == [proc[p] EXCEPT !.pc = "copy", !.ctx = c]
<1>3. proc[p] \in Process /\ Shaped(proc[p], terms[p], resource)
  BY <1>1 DEF Healthy, ErlTypeOK, CallsShaped
<1>4. /\ call \in Process /\ call.pc = "copy" /\ call.arg = proc[p].arg /\ call.ctx = c
      /\ call.builder = proc[p].builder /\ call.router = proc[p].router
  BY <1>3 DEF Process
<1> HIDE DEF call
<1>5. Shaped(call, terms[p], resource)
  BY <1>1, <1>2, <1>3, <1>4 DEF Shaped
<1>6. \A d \in Contexts : call.builder.held[d] + call.router.held[d] = HeldIn(proc, p, d)
  BY <1>4 DEF HeldIn
<1>7. Healthy'
  BY <1>1, <1>2, <1>4, <1>5, <1>6, StepKeeps DEF call
<1> QED BY <1>1, <1>7, Survived

LEMMA AnswersEmptyHanded ==
    ASSUME Healthy, NEW p \in Procs, proc[p].pc \in {"resolve", "copy"}, Answer(p),
           UNCHANGED <<terms, resource, refs, alive>>
    PROVE  Healthy'
<1>1. \A c \in Contexts : HeldIn(proc, p, c) = 0 /\ ~Has(proc, p, c)
  BY IdleHoldsNothing DEF Has
<1>2. refs' \in [Contexts -> Nat] /\ alive' \in SUBSET Contexts
  BY DEF Healthy, ErlTypeOK
<1> QED BY <1>1, <1>2, StepEnds

LEMMA NotFoundStep ==
    ASSUME EInv, NEW p \in Procs, NotFound(p)
    PROVE  EInv'
<1>1. /\ Healthy /\ proc[p].pc = "resolve" /\ Answer(p)
      /\ UNCHANGED <<terms, resource, refs, alive>> /\ crash' = "none"
  BY DEF NotFound, At, EInv, Up
<1> QED BY <1>1, AnswersEmptyHanded, Survived

(* The block of the argument lives and counts the context, which lives.    *)
LEMMA CopyTermStep ==
    ASSUME EInv, NEW p \in Procs, CopyTerm(p)
    PROVE  EInv'
<1>1. /\ Healthy /\ proc[p].pc = "copy" /\ Answer(p) /\ UNCHANGED <<terms, resource, refs, alive>>
      /\ crash' = IF proc[p].ctx \in alive THEN "none" ELSE "use_after_free"
  BY DEF CopyTerm, At, EInv, Up
<1>2. proc[p].ctx \in Contexts /\ resource[proc[p].arg].held[proc[p].ctx] > 0 /\ proc[p].arg \in Resources
  BY <1>1 DEF Healthy, ErlTypeOK, CallsShaped, Shaped
<1>3. proc[p].ctx \in alive
  BY <1>1, <1>2, BlockOwns DEF OwnedOnly
<1> QED BY <1>1, <1>3, AnswersEmptyHanded, Survived

-----------------------------------------------------------------------------
(* The VM.                                                                 *)
LEMMA TermsMove ==
    ASSUME Healthy, UNCHANGED <<proc, resource, refs, alive>>, terms' \in [Procs -> SUBSET Resources],
           \A p \in Procs : proc[p].pc \in {"resolve", "copy"} => proc[p].arg \in terms'[p],
           \A p \in Procs : \A r \in terms'[p] : \E q \in Procs : r \in terms[q]
    PROVE  Healthy'
<1>1. ErlTypeOK' /\ Ledger'
  BY DEF Healthy, ErlTypeOK, Ledger
<1>2. ASSUME NEW p \in Procs PROVE Shaped(proc[p], terms'[p], resource)
  <2>1. \A q \in Procs : Shaped(proc[q], terms[q], resource)
    BY DEF Healthy, CallsShaped
  <2>2. \A r \in terms'[p] : resource[r].live
    BY <2>1 DEF Shaped
  <2> QED BY <2>1, <2>2 DEF Shaped
<1>3. CallsShaped'
  BY <1>2 DEF Healthy, CallsShaped
<1> QED BY <1>1, <1>3 DEF Healthy

LEMMA SendStep ==
    ASSUME EInv, NEW p \in Procs, NEW q \in Procs, Send(p, q)
    PROVE  EInv'
<1>1. Healthy /\ UNCHANGED <<proc, resource, refs, alive>> /\ crash' = "none" /\ terms \in [Procs -> SUBSET Resources]
  BY DEF Send, EInv, Up, Healthy, ErlTypeOK
<1>2. PICK r \in terms[p] : terms' = [terms EXCEPT ![q] = @ \cup {r}]
  BY DEF Send
<1>3. /\ terms' \in [Procs -> SUBSET Resources]
      /\ \A x \in Procs : terms[x] \subseteq terms'[x] /\ terms'[x] \subseteq terms[x] \cup {r}
  BY <1>1, <1>2
<1>4. \A x \in Procs : proc[x].pc \in {"resolve", "copy"} => proc[x].arg \in terms[x]
  BY <1>1 DEF Healthy, CallsShaped, Shaped
<1>5. Healthy'
  BY <1>1, <1>3, <1>4, TermsMove
<1> QED BY <1>1, <1>5, Survived

LEMMA DropStep ==
    ASSUME EInv, NEW p \in Procs, DropTerm(p)
    PROVE  EInv'
<1>1. Healthy /\ UNCHANGED <<proc, resource, refs, alive>> /\ crash' = "none" /\ terms \in [Procs -> SUBSET Resources]
  BY DEF DropTerm, EInv, Up, Healthy, ErlTypeOK
<1>2. PICK r \in terms[p] \ {proc[p].arg} : terms' = [terms EXCEPT ![p] = @ \ {r}]
  BY DEF DropTerm
<1>3. /\ terms' \in [Procs -> SUBSET Resources] /\ terms'[p] = terms[p] \ {r}
      /\ \A x \in Procs : terms'[x] \subseteq terms[x]
      /\ \A x \in Procs \ {p} : terms'[x] = terms[x]
  BY <1>1, <1>2
<1>4. \A x \in Procs : proc[x].pc \in {"resolve", "copy"} => proc[x].arg \in terms[x]
  BY <1>1 DEF Healthy, CallsShaped, Shaped
<1>5. \A x \in Procs : proc[x].pc \in {"resolve", "copy"} => proc[x].arg \in terms'[x]
  BY <1>2, <1>3, <1>4
<1>6. Healthy'
  BY <1>1, <1>3, <1>5, TermsMove
<1> QED BY <1>1, <1>6, Survived

LEMMA DestroyStep ==
    ASSUME EInv, NEW r \in Resources, Destroy(r)
    PROVE  EInv'
<1>1. /\ Healthy /\ UNCHANGED <<proc, terms>> /\ \A p \in Procs : r \notin terms[p]
      /\ ReleaseHeld(resource[r].held) /\ resource' = [resource EXCEPT ![r] = NoRouter]
  BY DEF Destroy, EInv, Up
<1> DEFINE held == resource[r].held
<1>2. held \in [Contexts -> Nat] /\ OwnedOnly(held) /\ refs \in [Contexts -> Nat] /\ alive \in SUBSET Contexts
  BY <1>1, BlockOwns DEF Healthy, ErlTypeOK
<1>3. refs' = Released(refs, held) /\ alive' = Survivors(refs, held) /\ crash' = "none"
  BY <1>1, <1>2, ReleasesOwn DEF ReleaseHeld
<1>4. /\ resource' \in [Resources -> [live : BOOLEAN, held : [Contexts -> Nat]]]
      /\ Apart(resource, resource', Resources, r)
      /\ resource'[r].held = Nothing
  <2>1. NoRouter \in [live : BOOLEAN, held : [Contexts -> Nat]] /\ NoRouter.held = Nothing
    BY DEF NoRouter, Nothing
  <2>2. resource \in [Resources -> [live : BOOLEAN, held : [Contexts -> Nat]]]
    BY <1>1 DEF Healthy, ErlTypeOK
  <2> QED BY <1>1, <2>1, <2>2 DEF Apart
<1>5. ErlTypeOK'
  BY <1>1, <1>2, <1>3, <1>4, ReleasesOwn DEF Healthy, ErlTypeOK
<1>6. CallsShaped'
  <2>1. \A p \in Procs : Shaped(proc[p], terms[p], resource) /\ terms[p] \in SUBSET Resources
    BY <1>1 DEF Healthy, ErlTypeOK, CallsShaped
  <2>2. ASSUME NEW p \in Procs PROVE Shaped(proc[p], terms[p], resource')
    <3>1. \A s \in terms[p] : resource'[s] = resource[s]
      BY <1>1, <1>4, <2>1 DEF Apart
    <3> QED BY <2>1, <3>1 DEF Shaped
  <2>3. \A s \in Resources : ~resource'[s].live => resource'[s].held = Nothing
    BY <1>1, <1>4 DEF Apart, Healthy, CallsShaped
  <2> QED BY <1>1, <2>2, <2>3 DEF CallsShaped
<1>7. ASSUME NEW c \in Contexts PROVE Booked(proc', resource', refs', alive', c)
  <2>1. /\ Booked(proc, resource, refs, alive, c) /\ proc \in [Procs -> Process]
        /\ resource \in [Resources -> [live : BOOLEAN, held : [Contexts -> Nat]]]
    BY <1>1 DEF Healthy, Ledger, ErlTypeOK
  <2>2. resource'[r].held[c] = 0
    BY <1>4 DEF Nothing
  <2>3. /\ held[c] = 0 => refs'[c] = refs[c] /\ (c \in alive' <=> c \in alive)
        /\ held[c] > 0 => c \notin alive'
    BY <1>2, <1>3, ReleasesOwn
  <2>4. Booked(proc, resource', refs', alive', c)
    BY <1>2, <1>4, <2>1, <2>2, <2>3, BlockEnds
  <2> QED BY <1>1, <2>4
<1> QED BY <1>3, <1>5, <1>6, <1>7, Survived DEF Healthy, Ledger

-----------------------------------------------------------------------------
LEMMA InitEInv == ErlInit => EInv
<1> SUFFICES ASSUME ErlInit PROVE EInv
  OBVIOUS
<1>1. \A p \in Procs : proc[p] = Idle /\ terms[p] = {}
  BY DEF ErlInit
<1>2. \A r \in Resources : resource[r].live = FALSE /\ resource[r].held = Nothing
  BY DEF ErlInit, NoRouter
<1>3. \A c \in Contexts : Nothing[c] = 0 /\ Nothing \in [Contexts -> Nat]
  BY DEF Nothing
<1>4. ErlTypeOK
  BY <1>3, IdleIsProcess DEF ErlInit, ErlTypeOK, NoRouter, Nothing
<1>5. CallsShaped
  BY <1>1, <1>2, IdleIsProcess DEF CallsShaped, Shaped
<1>6. ASSUME NEW c \in Contexts PROVE Unused(proc, resource, alive, c)
  <2>1. \A p \in Procs : HeldIn(proc, p, c) = 0 /\ ~Has(proc, p, c)
    BY <1>1, IdleIsProcess DEF HeldIn, Has
  <2> QED BY <1>2, <1>3, <2>1 DEF Unused, NoCalls, NoBlocks, ErlInit
<1> QED BY <1>4, <1>5, <1>6 DEF EInv, NoUseAfterFree, Healthy, Ledger, Booked, ErlInit

LEMMA NextEInv == EInv /\ [ErlNext]_erlVars => EInv'
<1> SUFFICES ASSUME EInv, [ErlNext]_erlVars PROVE EInv'
  OBVIOUS
<1>1. CASE UNCHANGED erlVars
  BY <1>1 DEF erlVars, EInv, NoUseAfterFree, Up, Healthy, ErlTypeOK, CallsShaped, Ledger
<1>2. ASSUME NEW p \in Procs, Work(p) PROVE EInv'
  <2>1. CASE Malformed(p) \/ CreateContextFails(p)
    <3>1. /\ Healthy /\ proc[p].pc = "items" /\ FreeBuilder(proc[p].builder)
          /\ Answer(p) /\ UNCHANGED <<terms, resource>>
      BY <2>1 DEF Malformed, CreateContextFails, At, EInv, Up
    <3> QED BY <3>1, FreesBuilder
  <2>2. CASE CreateContext(p)
    BY <2>2, CreateContextStep
  <2>3. CASE AddContext(p)
    BY <2>3, AddContextStep
  <2>4. CASE AddContextFails(p)
    BY <2>4, AddContextFailsStep
  <2>5. CASE Consume(p)
    BY <2>5, ConsumeStep
  <2>6. CASE ConsumeFails(p)
    BY <2>6, ConsumeFailsStep
  <2>7. CASE MakeResource(p)
    BY <2>7, MakeResourceStep
  <2>8. CASE NoResource(p)
    BY <2>8, NoResourceStep
  <2>9. CASE ResolvePath(p)
    BY <2>9, ResolveStep
  <2>10. CASE NotFound(p)
    BY <2>10, NotFoundStep
  <2>11. CASE CopyTerm(p)
    BY <2>11, CopyTermStep
  <2> QED BY <1>2, <2>1, <2>2, <2>3, <2>4, <2>5, <2>6, <2>7, <2>8, <2>9, <2>10, <2>11 DEF Work
<1>3. ASSUME NEW p \in Procs, CallNew(p) \/ CallNewFails(p) \/ CallResolve(p) \/ DropTerm(p) PROVE EInv'
  BY <1>3, CallNewStep, CallNewFailsStep, CallResolveStep, DropStep
<1>4. ASSUME NEW p \in Procs, NEW q \in Procs, Send(p, q) PROVE EInv'
  BY <1>4, SendStep
<1>5. ASSUME NEW r \in Resources, Destroy(r) PROVE EInv'
  BY <1>5, DestroyStep
<1> QED BY <1>1, <1>2, <1>3, <1>4, <1>5 DEF ErlNext

(* The ledger of contexts is an invariant: nobody, one call or one block   *)
(* has a context, whichever steps fail and however calls interleave.       *)
THEOREM LedgerKept == ErlSpec => []EInv
<1>1. ErlInit => EInv
  BY InitEInv
<1>2. EInv /\ [ErlNext]_erlVars => EInv'
  BY NextEInv
<1> QED BY <1>1, <1>2, PTL DEF ErlSpec

(* No call reads a context that has been freed, and none releases one,     *)
(* although the destructor runs while other processes resolve.             *)
THEOREM NoneUsedAfterFree == ErlSpec => []NoUseAfterFree
<1>1. EInv => NoUseAfterFree
  BY DEF EInv
<1> QED BY <1>1, LedgerKept, PTL

-----------------------------------------------------------------------------
(* The sums of the ledger.                                                 *)
LEMMA SumsOfHolders ==
    ASSUME NEW c
    PROVE  /\ MapThenSumSet(LAMBDA p : HeldInCall(p, c), Procs)
                 = SumFunctionOnSet([p \in Procs |-> HeldInCall(p, c)], Procs)
           /\ MapThenSumSet(LAMBDA r : resource[r].held[c], Resources)
                 = SumFunctionOnSet([r \in Resources |-> resource[r].held[c]], Resources)
<1> DEFINE calls == [p \in Procs |-> HeldInCall(p, c)]
<1>1. MapThenSumSet(LAMBDA p : HeldInCall(p, c), Procs)
         = (CHOOSE g : g = [s \in SUBSET Procs |-> IF s = {} THEN 0
                                ELSE HeldInCall(Pick(s), c) + g[s \ {Pick(s)}]])[Procs]
  BY Zenon DEF MapThenSumSet, MapThenFoldSet, Pick
<1>2. \A s \in SUBSET Procs : s # {} => calls[Pick(s)] = HeldInCall(Pick(s), c)
  BY PickProperties
<1> HIDE DEF calls
<1>3. \A g : Sums(calls, Procs, g) <=> g = [s \in SUBSET Procs |-> IF s = {} THEN 0
                                ELSE HeldInCall(Pick(s), c) + g[s \ {Pick(s)}]]
  BY <1>2 DEF Sums
<1>4. MapThenSumSet(LAMBDA p : HeldInCall(p, c), Procs) = SumFunctionOnSet(calls, Procs)
  BY <1>1, <1>3, SumIsChosen
<1> QED BY <1>4, SumOfHeld DEF calls

LEMMA SumsOfLedger ==
    ASSUME Healthy, NEW c \in Contexts
    PROVE  /\ Unused(proc, resource, alive, c) => HeldBy(c) = 0
           /\ \A p \in Procs : OfCall(proc, resource, refs, alive, c, p) => HeldBy(c) = refs[c]
           /\ \A r \in Resources : OfBlock(proc, resource, refs, alive, c, r) => HeldBy(c) = refs[c]
<1> DEFINE calls == [p \in Procs |-> HeldInCall(p, c)]
           blocks == [r \in Resources |-> resource[r].held[c]]
           inCalls == SumFunctionOnSet(calls, Procs)
           inBlocks == SumFunctionOnSet(blocks, Resources)
<1>1. HeldBy(c) = inCalls + inBlocks
  BY SumsOfHolders DEF HeldBy
<1>2. \A p \in Procs : HeldInCall(p, c) = HeldIn(proc, p, c) /\ HeldIn(proc, p, c) \in Nat
  BY HeldInIsNat DEF HeldInCall, HeldIn, Healthy, ErlTypeOK
<1>3. calls \in [Procs -> Nat] /\ \A p \in Procs : calls[p] = HeldIn(proc, p, c)
  BY <1>2
<1>4. blocks \in [Resources -> Nat] /\ \A r \in Resources : blocks[r] = resource[r].held[c]
  BY DEF Healthy, ErlTypeOK
<1>5. IsFiniteSet(Procs) /\ IsFiniteSet(Resources)
  BY ErlangAssumption
<1>6. refs[c] \in Nat
  BY DEF Healthy, ErlTypeOK
<1> HIDE DEF calls, blocks
<1>7. /\ inCalls \in Nat
      /\ (\A p \in Procs : calls[p] = 0) => inCalls = 0
      /\ \A p \in Procs : (\A q \in Procs \ {p} : calls[q] = 0) => inCalls = calls[p]
  BY <1>3, <1>5, SumBounds, SumZero
<1>8. /\ inBlocks \in Nat
      /\ (\A r \in Resources : blocks[r] = 0) => inBlocks = 0
      /\ \A r \in Resources : (\A s \in Resources \ {r} : blocks[s] = 0) => inBlocks = blocks[r]
  BY <1>4, <1>5, SumBounds, SumZero
<1> HIDE DEF inCalls, inBlocks
<1>9. ASSUME Unused(proc, resource, alive, c) PROVE HeldBy(c) = 0
  <2>1. inCalls = 0 /\ inBlocks = 0
    BY <1>3, <1>4, <1>7, <1>8, <1>9 DEF Unused, NoCalls, NoBlocks
  <2> QED BY <1>1, <2>1
<1>10. ASSUME NEW p \in Procs, OfCall(proc, resource, refs, alive, c, p) PROVE HeldBy(c) = refs[c]
  <2>1. inCalls = refs[c] /\ inBlocks = 0
    BY <1>3, <1>4, <1>7, <1>8, <1>10 DEF OfCall, NoCalls, NoBlocks
  <2> QED BY <1>1, <1>6, <2>1
<1>11. ASSUME NEW r \in Resources, OfBlock(proc, resource, refs, alive, c, r) PROVE HeldBy(c) = refs[c]
  <2>1. inCalls = 0 /\ inBlocks = refs[c]
    BY <1>3, <1>4, <1>7, <1>8, <1>11 DEF OfBlock, NoCalls, NoBlocks
  <2> QED BY <1>1, <1>6, <2>1
<1> QED BY <1>9, <1>10, <1>11

(* A context is allocated exactly as long as it is in hand or held, and    *)
(* its count is the number of times the calls and blocks hold it.          *)
THEOREM CountsOfContexts == ErlSpec => []ContextsCounted
<1>1. ASSUME EInv PROVE ContextsCounted
  <2> SUFFICES ASSUME Up, NEW c \in Contexts
               PROVE  IF \E p \in Procs : InHand(p, c) THEN c \in alive /\ refs[c] = 0 /\ HeldBy(c) = 0
                      ELSE (c \in alive <=> HeldBy(c) > 0) /\ (c \in alive => refs[c] = HeldBy(c))
    BY DEF ContextsCounted
  <2>1. Healthy /\ refs[c] \in Nat
    BY <1>1 DEF EInv, Healthy, ErlTypeOK
  <2>2. \A p \in Procs : InHand(p, c) <=> Has(proc, p, c)
    BY DEF InHand, Has
  <2>3. CASE Unused(proc, resource, alive, c)
    <3>1. HeldBy(c) = 0 /\ c \notin alive /\ ~\E p \in Procs : InHand(p, c)
      BY <2>1, <2>2, <2>3, SumsOfLedger DEF Unused, NoCalls
    <3> QED BY <3>1
  <2>4. ASSUME NEW p \in Procs, OfCall(proc, resource, refs, alive, c, p)
        PROVE  /\ HeldBy(c) = refs[c] /\ c \in alive
               /\ (\E q \in Procs : InHand(q, c)) <=> refs[c] = 0
    BY <2>1, <2>2, <2>4, SumsOfLedger DEF OfCall, NoCalls
  <2>5. ASSUME NEW r \in Resources, OfBlock(proc, resource, refs, alive, c, r)
        PROVE  HeldBy(c) = refs[c] /\ refs[c] > 0 /\ c \in alive /\ ~\E q \in Procs : InHand(q, c)
    BY <2>1, <2>2, <2>5, SumsOfLedger DEF OfBlock, NoCalls
  <2> QED BY <2>1, <2>3, <2>4, <2>5 DEF Healthy, Ledger, Booked
<1> QED BY <1>1, LedgerKept, PTL

(* No two processes ever touch the count of a context at once: one call or *)
(* one block has it.                                                       *)
THEOREM ContextsOfOneHolder == ErlSpec => []ContextsUnshared
<1>1. ASSUME EInv PROVE ContextsUnshared
  <2> SUFFICES ASSUME Up, NEW c \in Contexts
               PROVE  Cardinality({p \in Procs : HeldInCall(p, c) > 0 \/ InHand(p, c)}
                                  \cup {r \in Resources : resource[r].held[c] > 0}) <= 1
    BY DEF ContextsUnshared
  <2> DEFINE H == {p \in Procs : HeldInCall(p, c) > 0 \/ InHand(p, c)}
                  \cup {r \in Resources : resource[r].held[c] > 0}
  <2>1. Booked(proc, resource, refs, alive, c)
    BY <1>1 DEF EInv, Healthy, Ledger
  <2>2. \A p \in Procs : (InHand(p, c) <=> Has(proc, p, c)) /\ HeldInCall(p, c) = HeldIn(proc, p, c)
    BY DEF InHand, Has, HeldInCall, HeldIn
  <2>3. H = {} \/ \E x : H = {x}
    <3>1. CASE Unused(proc, resource, alive, c)
      <4>1. H = {}
        BY <2>2, <3>1 DEF Unused, NoCalls, NoBlocks
      <4> QED BY <4>1
    <3>2. ASSUME NEW p \in Procs, OfCall(proc, resource, refs, alive, c, p) PROVE H \subseteq {p}
      BY <2>2, <3>2 DEF OfCall, NoCalls, NoBlocks
    <3>3. ASSUME NEW r \in Resources, OfBlock(proc, resource, refs, alive, c, r) PROVE H \subseteq {r}
      BY <2>2, <3>3 DEF OfBlock, NoCalls, NoBlocks
    <3>4. \A x : H \subseteq {x} => H = {} \/ H = {x}
      OBVIOUS
    <3> HIDE DEF H
    <3> QED BY <2>1, <3>1, <3>2, <3>3, <3>4 DEF Booked
  <2> HIDE DEF H
  <2>4. Cardinality(H) <= 1
    <3>1. Cardinality({}) = 0 /\ \A x : Cardinality({x}) = 1
      BY FS_EmptySet, FS_Singleton
    <3>2. Cardinality(H) = 0 \/ Cardinality(H) = 1
      BY <2>3, <3>1, Zenon
    <3> QED BY <3>2
  <2> QED BY <2>4 DEF H
<1> QED BY <1>1, LedgerKept, PTL

-----------------------------------------------------------------------------
(***************************************************************************)
(* Part 2.  The Python binding.  Holders counts what live objects hold; the*)
(* invariant adds that freed objects hold nothing, so that every term is a *)
(* count or a sum over a constant set and each step changes it by what     *)
(* DataProofs says.                                                        *)
(***************************************************************************)
-----------------------------------------------------------------------------

PyBuilder == [native : ApiBuilder, owner : Threads \cup {NULL}]
PyRouter == [held : [Contexts -> Nat], retained : BOOLEAN]
PyDispatcher == [router : Routers \cup {NULL}, owner : Threads \cup {NULL}]

PyTypeOK ==
    /\ names \in [Threads -> SUBSET Objects]
    /\ cnt \in [Objects -> Nat]
    /\ builder \in [Builders -> PyBuilder]
    /\ router \in [Routers -> PyRouter]
    /\ dispatcher \in [Dispatchers -> PyDispatcher]
    /\ lost \in [Contexts -> Nat]

FreedAreEmpty ==
    /\ \A b \in Builders : cnt[b] = 0 => builder[b] = NoPyBuilder
    /\ \A r \in Routers : cnt[r] = 0 => router[r] = NoPyRouter
    /\ \A d \in Dispatchers : /\ cnt[d] = 0 => dispatcher[d] = NoPyDispatcher
                              /\ cnt[d] > 0 => dispatcher[d].router # NULL

(* The references to an object x: names, dispatchers, builders, routers    *)
(* and the router that was lost.                                           *)
Named(ns, x) == Cardinality({t \in Threads : x \in ns[t]})
Pointed(ds, x) == Cardinality({d \in Dispatchers : ds[d].router = x})
BuiltTerms(bs, c) == [b \in Builders |-> bs[b].native.held[c]]
Built(bs, c) == SumFunctionOnSet(BuiltTerms(bs, c), Builders)
RetainedOf(r, c) == IF r.retained THEN r.held[c] ELSE 0
RoutedTerms(rs, c) == [r \in Routers |-> RetainedOf(rs[r], c)]
Routed(rs, c) == SumFunctionOnSet(RoutedTerms(rs, c), Routers)

Stored(bs, rs, l, x) == IF x \in Contexts THEN l[x] + Built(bs, x) + Routed(rs, x) ELSE 0
Refs(ns, ds, bs, rs, l, x) == Named(ns, x) + Pointed(ds, x) + Stored(bs, rs, l, x)

Counted == \A x \in Objects : cnt[x] = Refs(names, dispatcher, builder, router, lost, x)

Consistent == PyTypeOK /\ FreedAreEmpty /\ Counted
PInv == Running => Consistent
-----------------------------------------------------------------------------
(* The terms are naturals, and what changes one.                           *)
LEMMA FiniteKinds == IsFiniteSet(Threads) /\ IsFiniteSet(Builders) /\ IsFiniteSet(Routers) /\ IsFiniteSet(Dispatchers)
BY PythonAssumption

LEMMA NamedType ==
    ASSUME NEW ns, NEW x
    PROVE  /\ Named(ns, x) \in Nat /\ IsFiniteSet({t \in Threads : x \in ns[t]})
           /\ \A t \in Threads : x \in ns[t] => Named(ns, x) > 0
<1> DEFINE S == {t \in Threads : x \in ns[t]}
<1>1. S \in SUBSET Threads
  OBVIOUS
<1> HIDE DEF S
<1>2. IsFiniteSet(S)
  BY <1>1, FiniteKinds, FS_Subset
<1>3. Cardinality(S) \in Nat /\ (Cardinality(S) = 0 <=> S = {})
  BY <1>2, FS_CardinalityType, FS_EmptySet
<1> QED BY <1>2, <1>3 DEF S, Named

LEMMA PointedType ==
    ASSUME NEW ds, NEW x
    PROVE  /\ Pointed(ds, x) \in Nat /\ IsFiniteSet({d \in Dispatchers : ds[d].router = x})
           /\ \A d \in Dispatchers : ds[d].router = x => Pointed(ds, x) > 0
<1> DEFINE S == {d \in Dispatchers : ds[d].router = x}
<1>1. S \in SUBSET Dispatchers
  OBVIOUS
<1> HIDE DEF S
<1>2. IsFiniteSet(S)
  BY <1>1, FiniteKinds, FS_Subset
<1>3. Cardinality(S) \in Nat /\ (Cardinality(S) = 0 <=> S = {})
  BY <1>2, FS_CardinalityType, FS_EmptySet
<1>4. \A d \in Dispatchers : ds[d].router = x => S # {}
  BY DEF S
<1>5. Pointed(ds, x) = Cardinality(S)
  BY DEF S, Pointed
<1>6. IsFiniteSet({d \in Dispatchers : ds[d].router = x})
  BY <1>2 DEF S
<1> QED BY <1>3, <1>4, <1>5, <1>6

LEMMA BuiltType ==
    ASSUME NEW bs \in [Builders -> PyBuilder], NEW c \in Contexts
    PROVE  /\ BuiltTerms(bs, c) \in [Builders -> Nat] /\ Built(bs, c) \in Nat
           /\ \A b \in Builders : bs[b].native.held[c] \in Nat /\ bs[b].native.held[c] <= Built(bs, c)
<1>1. \A b \in Builders : bs[b].native.held[c] \in Nat
  BY DEF PyBuilder, ApiBuilder
<1> DEFINE f == BuiltTerms(bs, c)
<1>2. f \in [Builders -> Nat] /\ \A b \in Builders : f[b] = bs[b].native.held[c]
  BY <1>1 DEF BuiltTerms
<1> HIDE DEF f
<1>3. SumFunctionOnSet(f, Builders) \in Nat /\ \A b \in Builders : f[b] <= SumFunctionOnSet(f, Builders)
  BY <1>2, FiniteKinds, SumBounds
<1> QED BY <1>1, <1>2, <1>3 DEF Built, f

LEMMA RoutedType ==
    ASSUME NEW rs \in [Routers -> PyRouter], NEW c \in Contexts
    PROVE  /\ RoutedTerms(rs, c) \in [Routers -> Nat] /\ Routed(rs, c) \in Nat
           /\ \A r \in Routers : RetainedOf(rs[r], c) \in Nat /\ RetainedOf(rs[r], c) <= Routed(rs, c)
<1>1. \A r \in Routers : RetainedOf(rs[r], c) \in Nat
  BY DEF PyRouter, RetainedOf
<1> DEFINE f == RoutedTerms(rs, c)
<1>2. f \in [Routers -> Nat] /\ \A r \in Routers : f[r] = RetainedOf(rs[r], c)
  BY <1>1 DEF RoutedTerms
<1> HIDE DEF f
<1>3. SumFunctionOnSet(f, Routers) \in Nat /\ \A r \in Routers : f[r] <= SumFunctionOnSet(f, Routers)
  BY <1>2, FiniteKinds, SumBounds
<1> QED BY <1>1, <1>2, <1>3 DEF Routed, f

LEMMA NatToInt ==
    ASSUME NEW S, NEW f \in [S -> Nat]
    PROVE  f \in [S -> Int]
OBVIOUS

One(o, x) == IF x = o THEN 1 ELSE 0

NamesWith(ns, t, x) == [ns EXCEPT ![t] = @ \cup {x}]
NamesWithout(ns, t, x) == [ns EXCEPT ![t] = @ \ {x}]
DispatchersWith(ds, d, q) == [ds EXCEPT ![d] = q]
DispatchersWithout(ds, D) == [d \in Dispatchers |-> IF d \in D THEN NoPyDispatcher ELSE ds[d]]

LEMMA NamedAdds ==
    ASSUME NEW ns \in [Threads -> SUBSET Objects], NEW t \in Threads, NEW x, x \notin ns[t],
           NEW z
    PROVE  Named(NamesWith(ns, t, x), z) = Named(ns, z) + One(x, z)
<1> DEFINE ms == NamesWith(ns, t, x)
<1>0. ms = [ns EXCEPT ![t] = @ \cup {x}]
  BY DEF NamesWith
<1> HIDE DEF ms
<1> DEFINE S(q, y) == {u \in Threads : y \in q[u]}
<1>1. S(ms, x) = S(ns, x) \cup {t} /\ t \notin S(ns, x)
  BY <1>0
<1>2. \A y : y # x => S(ms, y) = S(ns, y)
  BY <1>0
<1>3. IsFiniteSet(S(ns, x))
  BY NamedType
<1> HIDE DEF S
<1>4. Cardinality(S(ms, x)) = Cardinality(S(ns, x)) + 1
  BY <1>1, <1>3, FS_AddElement
<1>5. Named(ms, x) = Named(ns, x) + 1 /\ \A y : y # x => Named(ms, y) = Named(ns, y)
  BY <1>2, <1>4 DEF Named, S
<1>6. Named(ns, z) \in Nat
  BY NamedType
<1>7. Named(ms, z) = Named(ns, z) + One(x, z)
  BY <1>5, <1>6 DEF One
<1> QED BY <1>7 DEF ms

LEMMA NamedDrops ==
    ASSUME NEW ns \in [Threads -> SUBSET Objects], NEW t \in Threads, NEW x \in ns[t],
           NEW z
    PROVE  Named(ns, z) = Named(NamesWithout(ns, t, x), z) + One(x, z)
<1> DEFINE ms == NamesWithout(ns, t, x)
<1>0. ms = [ns EXCEPT ![t] = @ \ {x}]
  BY DEF NamesWithout
<1> HIDE DEF ms
<1> DEFINE S(q, y) == {u \in Threads : y \in q[u]}
<1>1. S(ms, x) = S(ns, x) \ {t} /\ t \in S(ns, x)
  BY <1>0
<1>2. \A y : y # x => S(ms, y) = S(ns, y)
  BY <1>0
<1>3. IsFiniteSet(S(ns, x)) /\ Cardinality(S(ns, x)) \in Nat
  BY NamedType DEF Named
<1> HIDE DEF S
<1>4. Cardinality(S(ms, x)) = Cardinality(S(ns, x)) - 1
  <2> DEFINE A == S(ns, x)
  <2>1. t \in A /\ IsFiniteSet(A)
    BY <1>1, <1>3
  <2> HIDE DEF A
  <2>2. Cardinality(A \ {t}) = Cardinality(A) - 1
    BY <2>1, FS_RemoveElement
  <2> QED BY <1>1, <2>2 DEF A
<1>5. Cardinality(S(ns, x)) = Cardinality(S(ms, x)) + 1
  BY <1>3, <1>4
<1>6. Named(ns, x) = Named(ms, x) + 1 /\ \A y : y # x => Named(ms, y) = Named(ns, y)
  BY <1>2, <1>5 DEF Named, S
<1>7. Named(ms, z) \in Nat
  BY NamedType
<1>8. Named(ns, z) = Named(ms, z) + One(x, z)
  BY <1>6, <1>7 DEF One
<1> QED BY <1>8 DEF ms

LEMMA PointedAdds ==
    ASSUME NEW ds \in [Dispatchers -> PyDispatcher], NEW d \in Dispatchers, ds[d].router = NULL,
           NEW q \in PyDispatcher, NEW r \in Routers, q.router = r,
           NEW z \in Objects
    PROVE  Pointed(DispatchersWith(ds, d, q), z) = Pointed(ds, z) + One(r, z)
<1> DEFINE es == DispatchersWith(ds, d, q)
<1>0. es = [ds EXCEPT ![d] = q]
  BY DEF DispatchersWith
<1> HIDE DEF es
<1> DEFINE S(p, y) == {e \in Dispatchers : p[e].router = y}
<1>1. r # NULL /\ \A y \in Objects : y # NULL
  BY PythonAssumption DEF Objects
<1>2. S(es, r) = S(ds, r) \cup {d} /\ d \notin S(ds, r)
  BY <1>0, <1>1
<1>3. \A y \in Objects : y # r => S(es, y) = S(ds, y)
  BY <1>0, <1>1
<1>4. IsFiniteSet(S(ds, r))
  BY PointedType
<1> HIDE DEF S
<1>5. Cardinality(S(es, r)) = Cardinality(S(ds, r)) + 1
  BY <1>2, <1>4, FS_AddElement
<1>6. Pointed(es, r) = Pointed(ds, r) + 1 /\ \A y \in Objects : y # r => Pointed(es, y) = Pointed(ds, y)
  BY <1>3, <1>5 DEF Pointed, S
<1>7. Pointed(ds, z) \in Nat
  BY PointedType
<1>8. Pointed(es, z) = Pointed(ds, z) + One(r, z)
  BY <1>6, <1>7 DEF One
<1> QED BY <1>8 DEF es

LEMMA BuiltChanges ==
    ASSUME NEW bs \in [Builders -> PyBuilder], NEW b \in Builders, NEW q \in PyBuilder,
           NEW as, as = [bs EXCEPT ![b] = q], NEW c \in Contexts
    PROVE  Built(as, c) = Built(bs, c) + (q.native.held[c] - bs[b].native.held[c])
<1> DEFINE f == BuiltTerms(bs, c)
           v == q.native.held[c]
<1>1. f \in [Builders -> Int] /\ f[b] = bs[b].native.held[c]
  <2>1. BuiltTerms(bs, c) \in [Builders -> Nat]
    BY BuiltType
  <2>2. f[b] = bs[b].native.held[c]
    BY DEF BuiltTerms
  <2>3. f \in [Builders -> Int]
    BY <2>1, NatToInt
  <2> QED BY <2>2, <2>3
<1>2. v \in Int
  BY DEF PyBuilder, ApiBuilder
<1>3. BuiltTerms(as, c) = [f EXCEPT ![b] = v]
  BY DEF BuiltTerms
<1> HIDE DEF f, v
<1>4. SumFunctionOnSet([f EXCEPT ![b] = v], Builders) = SumFunctionOnSet(f, Builders) + (v - f[b])
  BY <1>1, <1>2, FiniteKinds, SumExcept
<1> QED BY <1>1, <1>3, <1>4 DEF Built, f, v

LEMMA RoutedChanges ==
    ASSUME NEW rs \in [Routers -> PyRouter], NEW r \in Routers, NEW q \in PyRouter,
           NEW as, as = [rs EXCEPT ![r] = q], NEW c \in Contexts
    PROVE  Routed(as, c) = Routed(rs, c) + (RetainedOf(q, c) - RetainedOf(rs[r], c))
<1> DEFINE f == RoutedTerms(rs, c)
           v == RetainedOf(q, c)
<1>1. f \in [Routers -> Int] /\ f[r] = RetainedOf(rs[r], c)
  <2>1. RoutedTerms(rs, c) \in [Routers -> Nat]
    BY RoutedType
  <2>2. f[r] = RetainedOf(rs[r], c)
    BY DEF RoutedTerms
  <2>3. f \in [Routers -> Int]
    BY <2>1, NatToInt
  <2> QED BY <2>2, <2>3
<1>2. v \in Int
  BY DEF PyRouter, RetainedOf
<1>3. RoutedTerms(as, c) = [f EXCEPT ![r] = v]
  BY DEF RoutedTerms
<1> HIDE DEF f, v
<1>4. SumFunctionOnSet([f EXCEPT ![r] = v], Routers) = SumFunctionOnSet(f, Routers) + (v - f[r])
  BY <1>1, <1>2, FiniteKinds, SumExcept
<1> QED BY <1>1, <1>3, <1>4 DEF Routed, f, v

LEMMA NothingHeld ==
    /\ Nothing \in [Contexts -> Nat] /\ \A c \in Contexts : Nothing[c] = 0
    /\ NoPyBuilder \in PyBuilder /\ \A c \in Contexts : NoPyBuilder.native.held[c] = 0
    /\ NoPyRouter \in PyRouter /\ \A c \in Contexts : RetainedOf(NoPyRouter, c) = 0
    /\ NoPyDispatcher \in PyDispatcher /\ NoPyDispatcher.router = NULL
<1>1. Nothing \in [Contexts -> Nat] /\ \A c \in Contexts : Nothing[c] = 0
  BY DEF Nothing
<1>2. PICK yes, no : yes = TRUE /\ no = FALSE
  OBVIOUS
<1>3. NoBuilder = [open |-> no, held |-> Nothing, corrupted |-> no, hollow |-> no]
  BY <1>2 DEF NoBuilder
<1>4. NoBuilder \in ApiBuilder /\ NoBuilder.held = Nothing
  BY <1>1, <1>2, <1>3 DEF ApiBuilder
<1>5. NoPyBuilder \in PyBuilder /\ NoPyBuilder.native.held = Nothing
  BY <1>4 DEF NoPyBuilder, PyBuilder
<1>6. NoPyRouter = [held |-> Nothing, retained |-> no]
  BY <1>2 DEF NoPyRouter
<1>7. NoPyRouter \in PyRouter /\ ~NoPyRouter.retained
  BY <1>1, <1>2, <1>6 DEF PyRouter
<1>8. NoPyDispatcher \in PyDispatcher /\ NoPyDispatcher.router = NULL
  BY DEF NoPyDispatcher, PyDispatcher
<1> QED BY <1>1, <1>5, <1>7, <1>8 DEF RetainedOf

(* The sums over some of the builders and routers, as the module writes    *)
(* them.                                                                   *)
LEMMA SumOfBuilt ==
    ASSUME NEW S \in SUBSET Builders, NEW bs, NEW c
    PROVE  MapThenSumSet(LAMBDA b : bs[b].native.held[c], S) = SumFunctionOnSet(BuiltTerms(bs, c), S)
<1> DEFINE f == BuiltTerms(bs, c)
<1>1. MapThenSumSet(LAMBDA b : bs[b].native.held[c], S)
         = (CHOOSE g : g = [s \in SUBSET S |-> IF s = {} THEN 0
                                ELSE bs[Pick(s)].native.held[c] + g[s \ {Pick(s)}]])[S]
  BY Zenon DEF MapThenSumSet, MapThenFoldSet, Pick
<1>2. \A s \in SUBSET S : s # {} => f[Pick(s)] = bs[Pick(s)].native.held[c]
  BY PickProperties DEF BuiltTerms
<1> HIDE DEF f
<1>3. \A g : Sums(f, S, g) <=> g = [s \in SUBSET S |-> IF s = {} THEN 0
                                ELSE bs[Pick(s)].native.held[c] + g[s \ {Pick(s)}]]
  BY <1>2 DEF Sums
<1>4. MapThenSumSet(LAMBDA b : bs[b].native.held[c], S) = SumFunctionOnSet(f, S)
  BY <1>1, <1>3, SumIsChosen
<1> QED BY <1>4 DEF f

LEMMA SumOfRouted ==
    ASSUME NEW S \in SUBSET Routers, NEW rs, NEW c
    PROVE  MapThenSumSet(LAMBDA r : IF rs[r].retained THEN rs[r].held[c] ELSE 0, S)
               = SumFunctionOnSet(RoutedTerms(rs, c), S)
<1> DEFINE f == RoutedTerms(rs, c)
<1>1. MapThenSumSet(LAMBDA r : IF rs[r].retained THEN rs[r].held[c] ELSE 0, S)
         = (CHOOSE g : g = [s \in SUBSET S |-> IF s = {} THEN 0
                ELSE (IF rs[Pick(s)].retained THEN rs[Pick(s)].held[c] ELSE 0) + g[s \ {Pick(s)}]])[S]
  BY Zenon DEF MapThenSumSet, MapThenFoldSet, Pick
<1>2. \A s \in SUBSET S : s # {} =>
         f[Pick(s)] = IF rs[Pick(s)].retained THEN rs[Pick(s)].held[c] ELSE 0
  BY PickProperties DEF RoutedTerms, RetainedOf
<1> HIDE DEF f
<1>3. \A g : Sums(f, S, g) <=> g = [s \in SUBSET S |-> IF s = {} THEN 0
                ELSE (IF rs[Pick(s)].retained THEN rs[Pick(s)].held[c] ELSE 0) + g[s \ {Pick(s)}]]
  BY <1>2 DEF Sums
<1>4. MapThenSumSet(LAMBDA r : IF rs[r].retained THEN rs[r].held[c] ELSE 0, S) = SumFunctionOnSet(f, S)
  BY <1>1, <1>3, SumIsChosen
<1> QED BY <1>4 DEF f

(* What freeing some objects takes off.                                    *)
LEMMA BuiltFreed ==
    ASSUME NEW bs \in [Builders -> PyBuilder], NEW D \in SUBSET Builders, NEW c \in Contexts,
           NEW as, as = [b \in Builders |-> IF b \in D THEN NoPyBuilder ELSE bs[b]]
    PROVE  Built(bs, c) = Built(as, c) + SumFunctionOnSet(BuiltTerms(bs, c), D)
<1> DEFINE f == BuiltTerms(bs, c)
           u == BuiltTerms(as, c)
<1>1. f \in [Builders -> Int]
  BY BuiltType, NatToInt
<1>2. \A b \in Builders : u[b] = IF b \in D THEN 0 ELSE f[b]
  BY NothingHeld DEF BuiltTerms
<1> HIDE DEF f, u
<1>3. SumFunctionOnSet(f, Builders) = SumFunctionOnSet(u, Builders) + SumFunctionOnSet(f, D)
  BY <1>1, <1>2, FiniteKinds, SumCleared
<1> QED BY <1>3 DEF Built, f, u

LEMMA RoutedFreed ==
    ASSUME NEW rs \in [Routers -> PyRouter], NEW D \in SUBSET Routers, NEW c \in Contexts,
           NEW as, as = [r \in Routers |-> IF r \in D THEN NoPyRouter ELSE rs[r]]
    PROVE  Routed(rs, c) = Routed(as, c) + SumFunctionOnSet(RoutedTerms(rs, c), D)
<1> DEFINE f == RoutedTerms(rs, c)
           u == RoutedTerms(as, c)
<1>1. f \in [Routers -> Int]
  BY RoutedType, NatToInt
<1>2. \A r \in Routers : u[r] = IF r \in D THEN 0 ELSE f[r]
  BY NothingHeld DEF RoutedTerms
<1> HIDE DEF f, u
<1>3. SumFunctionOnSet(f, Routers) = SumFunctionOnSet(u, Routers) + SumFunctionOnSet(f, D)
  BY <1>1, <1>2, FiniteKinds, SumCleared
<1> QED BY <1>3 DEF Routed, f, u

PointedIn(D, ds, x) == Cardinality({d \in D : ds[d].router = x})

LEMMA PointedFreed ==
    ASSUME NEW ds \in [Dispatchers -> PyDispatcher], NEW o, NEW D, D = {} \/ (o \in Dispatchers /\ D = {o}),
           NEW x \in Objects
    PROVE  /\ Pointed(ds, x) = Pointed(DispatchersWithout(ds, D), x) + PointedIn(D, ds, x)
           /\ PointedIn(D, ds, x) \in Nat
           /\ x \notin Routers => PointedIn(D, ds, x) = 0
<1> DEFINE es == DispatchersWithout(ds, D)
<1>0. es = [d \in Dispatchers |-> IF d \in D THEN NoPyDispatcher ELSE ds[d]]
  BY DEF DispatchersWithout
<1> HIDE DEF es
<1> DEFINE S(p) == {d \in Dispatchers : p[d].router = x}
           T == {d \in D : ds[d].router = x}
<1>1. x # NULL /\ \A d \in Dispatchers : ds[d].router \in Routers \cup {NULL}
  BY PythonAssumption DEF PyDispatcher
<1>2. S(es) = S(ds) \ T
  BY <1>0, <1>1, NothingHeld
<1>3. IsFiniteSet(S(ds)) /\ Cardinality(S(ds)) \in Nat
  BY PointedType DEF Pointed
<1>4. T = {} \/ (o \in S(ds) /\ T = {o})
  OBVIOUS
<1>5. x \notin Routers => T = {}
  BY <1>1, <1>4
<1> HIDE DEF S, T
<1>6. Cardinality({}) = 0 /\ Cardinality({o}) = 1
  BY FS_EmptySet, FS_Singleton
<1> DEFINE Off == Cardinality(S(ds)) = Cardinality(S(es)) + Cardinality(T) /\ Cardinality(T) \in Nat
<1>7. ASSUME T = {} PROVE Off
  <2>1. S(es) = S(ds)
    BY <1>2, <1>7
  <2> QED BY <1>3, <1>6, <1>7, <2>1
<1>8. ASSUME o \in S(ds), T = {o} PROVE Off
  <2> DEFINE A == S(ds)
  <2>1. o \in A /\ IsFiniteSet(A) /\ Cardinality(A) \in Nat /\ S(es) = A \ {o}
    BY <1>2, <1>3, <1>8
  <2> HIDE DEF A
  <2>2. Cardinality(A \ {o}) = Cardinality(A) - 1
    BY <2>1, FS_RemoveElement
  <2>3. Cardinality(S(es)) = Cardinality(A) - 1
    BY <2>1, <2>2, Zenon
  <2>4. Cardinality(A) = Cardinality(S(es)) + 1
    BY <2>1, <2>3
  <2> QED BY <1>6, <1>8, <2>4 DEF A
<1>9. Off /\ (x \notin Routers => Cardinality(T) = 0)
  BY <1>4, <1>5, <1>6, <1>7, <1>8
<1> QED BY <1>9 DEF Pointed, PointedIn, S, T, es

-----------------------------------------------------------------------------
(* A dropped reference, and what the deallocators that it makes run drop   *)
(* in turn: as much as is no longer held.                                  *)
LEMMA MaxWithZero ==
    ASSUME NEW n \in Int
    PROVE  Max({0, n}) = IF n > 0 THEN n ELSE 0
<1> DEFINE m == IF n > 0 THEN n ELSE 0
<1>1. m \in {0, n} /\ m \in Int /\ \A y \in {0, n} : m >= y
  OBVIOUS
<1>2. Max({0, n}) \in {0, n} /\ \A y \in {0, n} : Max({0, n}) >= y
  <2> HIDE DEF m
  <2> QED BY <1>1, Zenon DEF Max
<1> QED BY <1>2

LEMMA SumOfSome ==
    ASSUME NEW S, IsFiniteSet(S), NEW D \in SUBSET S, NEW f \in [S -> Nat]
    PROVE  SumFunctionOnSet(f, D) \in Nat
<1> DEFINE g == [x \in D |-> f[x]]
<1>1. g \in [D -> Nat] /\ \A x \in D : g[x] = f[x]
  OBVIOUS
<1>2. IsFiniteSet(D)
  BY FS_Subset
<1> HIDE DEF g
<1>3. SumFunctionOnSet(g, D) \in Nat
  BY <1>1, <1>2, SumBounds
<1>4. SumFunctionOnSet(g, D) = SumFunctionOnSet(f, D)
  BY <1>1, SumAgree
<1> QED BY <1>3, <1>4

DropsPointed(o, x) == PointedIn(DyingDispatchers(o), dispatcher, x)
DropsStored(o, x) ==
    IF x \in Contexts THEN SumFunctionOnSet(RoutedTerms(router, x), DyingRouters(o))
                           + SumFunctionOnSet(BuiltTerms(builder, x), DyingBuilders(o))
    ELSE 0

LEMMA DropsAre ==
    ASSUME PyTypeOK, NEW o, NEW x \in Objects
    PROVE  /\ DropsStored(o, x) \in Nat
           /\ x \in Contexts => Drops(o)[x] = One(o, x) + DropsStored(o, x)
           /\ x \in Routers => Drops(o)[x] = One(o, x) + DropsPointed(o, x)
           /\ x \notin Contexts \cup Routers => Drops(o)[x] = One(o, x)
<1>1. Drops(o)[x] = CASE x \in Contexts -> ContextDrops(o)[x]
                      [] x \in Routers  -> RouterDrops(o)[x]
                      [] OTHER          -> IF x = o THEN 1 ELSE 0
  BY DEF Drops
<1>2. ASSUME x \in Contexts PROVE ContextDrops(o)[x] = One(o, x) + DropsStored(o, x) /\ DropsStored(o, x) \in Nat
  <2> DEFINE B == DyingBuilders(o)
             R == DyingRouters(o)
             sb == MapThenSumSet(LAMBDA b : builder[b].native.held[x], B)
             sr == MapThenSumSet(LAMBDA r : IF router[r].retained THEN router[r].held[x] ELSE 0, R)
  <2>1. B \in SUBSET Builders /\ R \in SUBSET Routers
    BY DEF DyingBuilders, DyingRouters
  <2>2. ContextDrops(o)[x] = One(o, x) + sr + sb
    BY <1>2, Zenon DEF ContextDrops, One
  <2>3. sb = SumFunctionOnSet(BuiltTerms(builder, x), B)
    <3> HIDE DEF B
    <3> QED BY <2>1, SumOfBuilt
  <2>4. sr = SumFunctionOnSet(RoutedTerms(router, x), R)
    <3> HIDE DEF R
    <3> QED BY <2>1, SumOfRouted
  <2> HIDE DEF sb, sr
  <2>5. DropsStored(o, x) = sr + sb
    BY <1>2, <2>3, <2>4 DEF DropsStored
  <2>6. BuiltTerms(builder, x) \in [Builders -> Nat] /\ RoutedTerms(router, x) \in [Routers -> Nat]
    BY <1>2, BuiltType, RoutedType DEF PyTypeOK
  <2>7. sb \in Nat /\ sr \in Nat
    <3> HIDE DEF B, R
    <3> QED BY <2>1, <2>3, <2>4, <2>6, FiniteKinds, SumOfSome
  <2>8. One(o, x) \in Nat
    BY DEF One
  <2> QED BY <2>2, <2>5, <2>7, <2>8
<1>3. ASSUME x \in Routers PROVE RouterDrops(o)[x] = One(o, x) + DropsPointed(o, x)
  BY <1>3 DEF RouterDrops, One, DropsPointed, PointedIn
<1>4. x \in Contexts => x \notin Routers
  BY PythonAssumption
<1>5. x \notin Contexts => DropsStored(o, x) = 0
  BY DEF DropsStored
<1> QED BY <1>1, <1>2, <1>3, <1>4, <1>5 DEF One

LEMMA DropTakesOff ==
    ASSUME PyTypeOK, NEW t \in Threads, NEW o \in names[t], NEW x \in Objects,
           NEW ns, ns = NamesWithout(names, t, o),
           NEW bs, bs = [b \in Builders |-> IF b \in DyingBuilders(o) THEN NoPyBuilder ELSE builder[b]],
           NEW rs, rs = [r \in Routers |-> IF r \in DyingRouters(o) THEN NoPyRouter ELSE router[r]],
           NEW ds, ds = DispatchersWithout(dispatcher, DyingDispatchers(o))
    PROVE  /\ Drops(o)[x] \in Nat /\ Refs(ns, ds, bs, rs, lost, x) \in Nat
           /\ Refs(names, dispatcher, builder, router, lost, x)
                  = Refs(ns, ds, bs, rs, lost, x) + Drops(o)[x]
<1> USE DEF PyTypeOK
<1>1. Named(names, x) = Named(ns, x) + One(o, x) /\ Named(ns, x) \in Nat /\ One(o, x) \in Nat
  <2>1. Named(names, x) = Named(ns, x) + One(o, x)
    BY NamedDrops
  <2> QED BY <2>1, NamedType DEF One
<1>2. /\ Pointed(dispatcher, x) = Pointed(ds, x) + DropsPointed(o, x)
      /\ DropsPointed(o, x) \in Nat /\ Pointed(ds, x) \in Nat
      /\ x \notin Routers => DropsPointed(o, x) = 0
  <2> DEFINE D == DyingDispatchers(o)
  <2>1. D = {} \/ (o \in Dispatchers /\ D = {o})
    BY DEF DyingDispatchers
  <2>2. ds = DispatchersWithout(dispatcher, D)
    OBVIOUS
  <2> HIDE DEF D
  <2>3. /\ Pointed(dispatcher, x) = Pointed(ds, x) + PointedIn(D, dispatcher, x)
        /\ PointedIn(D, dispatcher, x) \in Nat
        /\ x \notin Routers => PointedIn(D, dispatcher, x) = 0
    BY <2>1, <2>2, PointedFreed
  <2>4. Pointed(ds, x) \in Nat
    BY PointedType
  <2> QED BY <2>3, <2>4 DEF DropsPointed, D
<1>3. /\ Stored(builder, router, lost, x) = Stored(bs, rs, lost, x) + DropsStored(o, x)
      /\ Stored(bs, rs, lost, x) \in Nat /\ DropsStored(o, x) \in Nat
  <2>1. CASE x \in Contexts
    <3> DEFINE B == DyingBuilders(o)
               R == DyingRouters(o)
               sb == SumFunctionOnSet(BuiltTerms(builder, x), B)
               sr == SumFunctionOnSet(RoutedTerms(router, x), R)
    <3>1. B \in SUBSET Builders /\ R \in SUBSET Routers
      BY DEF DyingBuilders, DyingRouters
    <3>2. bs \in [Builders -> PyBuilder] /\ rs \in [Routers -> PyRouter]
      BY NothingHeld
    <3>3. Built(builder, x) = Built(bs, x) + sb
      <4> HIDE DEF B
      <4> QED BY <2>1, <3>1, BuiltFreed DEF B
    <3>4. Routed(router, x) = Routed(rs, x) + sr
      <4> HIDE DEF R
      <4> QED BY <2>1, <3>1, RoutedFreed DEF R
    <3>5. BuiltTerms(builder, x) \in [Builders -> Nat] /\ RoutedTerms(router, x) \in [Routers -> Nat]
      BY <2>1, BuiltType, RoutedType
    <3>6. sb \in Nat /\ sr \in Nat
      <4> HIDE DEF B, R
      <4> QED BY <3>1, <3>5, FiniteKinds, SumOfSome
    <3>7. Built(bs, x) \in Nat /\ Routed(rs, x) \in Nat /\ lost[x] \in Nat
      BY <2>1, <3>2, BuiltType, RoutedType
    <3>8. DropsStored(o, x) = sr + sb
      BY <2>1 DEF DropsStored
    <3> HIDE DEF sb, sr
    <3>9. Stored(builder, router, lost, x) = lost[x] + (Built(bs, x) + sb) + (Routed(rs, x) + sr)
      BY <2>1, <3>3, <3>4 DEF Stored
    <3>10. Stored(bs, rs, lost, x) = lost[x] + Built(bs, x) + Routed(rs, x)
      BY <2>1 DEF Stored
    <3> QED BY <3>6, <3>7, <3>8, <3>9, <3>10
  <2>2. CASE x \notin Contexts
    BY <2>2 DEF Stored, DropsStored
  <2> QED BY <2>1, <2>2
<1>4. Drops(o)[x] = One(o, x) + DropsPointed(o, x) + DropsStored(o, x)
  <2>1. x \notin Contexts => DropsStored(o, x) = 0
    BY DEF DropsStored
  <2>2. x \in Contexts => x \notin Routers
    BY PythonAssumption
  <2> QED BY <1>1, <1>2, <1>3, <2>1, <2>2, DropsAre
<1>5. /\ Refs(names, dispatcher, builder, router, lost, x)
            = (Named(ns, x) + One(o, x)) + (Pointed(ds, x) + DropsPointed(o, x))
              + (Stored(bs, rs, lost, x) + DropsStored(o, x))
      /\ Refs(ns, ds, bs, rs, lost, x) = Named(ns, x) + Pointed(ds, x) + Stored(bs, rs, lost, x)
  BY <1>1, <1>2, <1>3, Zenon DEF Refs
<1> QED BY <1>1, <1>2, <1>3, <1>4, <1>5

(* The counts go down by what is dropped, never below zero, and what is    *)
(* freed is what they say.                                                 *)
LEMMA DropKeeps ==
    ASSUME Consistent, NEW t \in Threads, NEW o \in names[t], Drop(t, o)
    PROVE  Consistent'
<1> DEFINE ns == NamesWithout(names, t, o)
           bs == [b \in Builders |-> IF b \in DyingBuilders(o) THEN NoPyBuilder ELSE builder[b]]
           rs == [r \in Routers |-> IF r \in DyingRouters(o) THEN NoPyRouter ELSE router[r]]
           ds == DispatchersWithout(dispatcher, DyingDispatchers(o))
<1>1. PyTypeOK /\ FreedAreEmpty /\ Counted
  BY DEF Consistent
<1>2. ASSUME NEW x \in Objects
      PROVE  /\ Drops(o)[x] \in Nat /\ Refs(ns, ds, bs, rs, lost, x) \in Nat
             /\ cnt[x] = Refs(ns, ds, bs, rs, lost, x) + Drops(o)[x]
  <2> HIDE DEF ns, bs, rs, ds
  <2>1. /\ Drops(o)[x] \in Nat /\ Refs(ns, ds, bs, rs, lost, x) \in Nat
        /\ Refs(names, dispatcher, builder, router, lost, x)
                  = Refs(ns, ds, bs, rs, lost, x) + Drops(o)[x]
    BY <1>1, DropTakesOff DEF ns, bs, rs, ds
  <2> QED BY <1>1, <2>1 DEF Counted
<1> HIDE DEF ns, bs, rs, ds
<1>3. /\ names' = ns /\ lost' = lost
      /\ cnt' = [x \in Objects |-> Max({0, cnt[x] - Drops(o)[x]})]
      /\ builder' = [b \in Builders |-> IF cnt'[b] = 0 THEN NoPyBuilder ELSE builder[b]]
      /\ router' = [r \in Routers |-> IF cnt'[r] = 0 THEN NoPyRouter ELSE router[r]]
      /\ dispatcher' = [d \in Dispatchers |-> IF cnt'[d] = 0 THEN NoPyDispatcher ELSE dispatcher[d]]
  BY DEF Drop, Decref, ns, NamesWithout
<1>4. ASSUME NEW x \in Objects
      PROVE  /\ cnt'[x] = Refs(ns, ds, bs, rs, lost, x) /\ cnt'[x] \in Nat
             /\ cnt'[x] = cnt[x] - Drops(o)[x] /\ cnt[x] \in Nat /\ Drops(o)[x] \in Nat
  <2>1. cnt[x] \in Nat
    BY <1>1 DEF PyTypeOK
  <2>2. cnt[x] - Drops(o)[x] \in Int /\ cnt[x] - Drops(o)[x] = Refs(ns, ds, bs, rs, lost, x)
    BY <1>2, <2>1
  <2>3. cnt'[x] = Max({0, cnt[x] - Drops(o)[x]})
    BY <1>3
  <2>4. Max({0, cnt[x] - Drops(o)[x]}) = cnt[x] - Drops(o)[x]
    BY <1>2, <2>2, MaxWithZero
  <2> QED BY <1>2, <2>1, <2>2, <2>3, <2>4
<1>5. builder' = bs
  <2>1. ASSUME NEW b \in Builders
        PROVE  (IF cnt'[b] = 0 THEN NoPyBuilder ELSE builder[b])
                  = (IF b \in DyingBuilders(o) THEN NoPyBuilder ELSE builder[b])
    <3>1. b \in Objects /\ b \notin Contexts \cup Routers
      BY PythonAssumption DEF Objects
    <3>2. Drops(o)[b] = One(o, b)
      BY <1>1, <3>1, DropsAre
    <3>3. b \in DyingBuilders(o) <=> b = o /\ cnt[b] = 1
      BY DEF DyingBuilders
    <3>4. cnt[b] = 0 => builder[b] = NoPyBuilder
      BY <1>1 DEF FreedAreEmpty
    <3>5. cnt'[b] = cnt[b] - Drops(o)[b] /\ cnt[b] \in Nat /\ cnt'[b] \in Nat
      BY <1>4, <3>1
    <3>6. CASE b = o
      BY <3>2, <3>3, <3>4, <3>5, <3>6 DEF One
    <3>7. CASE b # o
      BY <3>2, <3>3, <3>4, <3>5, <3>7 DEF One
    <3> QED BY <3>6, <3>7
  <2> QED BY <1>3, <2>1 DEF bs
<1>6. dispatcher' = ds
  <2>1. ASSUME NEW d \in Dispatchers
        PROVE  (IF cnt'[d] = 0 THEN NoPyDispatcher ELSE dispatcher[d])
                  = (IF d \in DyingDispatchers(o) THEN NoPyDispatcher ELSE dispatcher[d])
    <3>1. d \in Objects /\ d \notin Contexts \cup Routers
      BY PythonAssumption DEF Objects
    <3>2. Drops(o)[d] = One(o, d)
      BY <1>1, <3>1, DropsAre
    <3>3. d \in DyingDispatchers(o) <=> d = o /\ cnt[d] = 1
      BY DEF DyingDispatchers
    <3>4. cnt[d] = 0 => dispatcher[d] = NoPyDispatcher
      BY <1>1 DEF FreedAreEmpty
    <3>5. cnt'[d] = cnt[d] - Drops(o)[d] /\ cnt[d] \in Nat /\ cnt'[d] \in Nat
      BY <1>4, <3>1
    <3>6. CASE d = o
      BY <3>2, <3>3, <3>4, <3>5, <3>6 DEF One
    <3>7. CASE d # o
      BY <3>2, <3>3, <3>4, <3>5, <3>7 DEF One
    <3> QED BY <3>6, <3>7
  <2> QED BY <1>3, <2>1 DEF ds, DispatchersWithout
<1>7. router' = rs
  <2>1. ASSUME NEW r \in Routers
        PROVE  (IF cnt'[r] = 0 THEN NoPyRouter ELSE router[r])
                  = (IF r \in DyingRouters(o) THEN NoPyRouter ELSE router[r])
    <3>1. r \in Objects /\ r \notin Contexts
      BY PythonAssumption DEF Objects
    <3>2. Drops(o)[r] = RouterDrops(o)[r]
      BY <3>1 DEF Drops
    <3>3. r \in DyingRouters(o) <=> cnt[r] > 0 /\ cnt[r] <= Drops(o)[r]
      BY <3>2 DEF DyingRouters
    <3>4. cnt[r] = 0 => router[r] = NoPyRouter
      BY <1>1 DEF FreedAreEmpty
    <3>5. cnt'[r] = cnt[r] - Drops(o)[r] /\ cnt[r] \in Nat /\ cnt'[r] \in Nat /\ Drops(o)[r] \in Nat
      BY <1>4, <3>1
    <3>6. cnt'[r] = 0 <=> cnt[r] <= Drops(o)[r]
      BY <3>5
    <3> QED BY <3>3, <3>4, <3>5, <3>6
  <2> QED BY <1>3, <2>1 DEF rs
<1>8. Counted'
  <2>1. \A x \in Objects : cnt'[x] = Refs(names', dispatcher', builder', router', lost', x)
    BY <1>3, <1>4, <1>5, <1>6, <1>7
  <2> QED BY <2>1 DEF Counted, Refs, Named, Pointed, Stored, Built, Routed, BuiltTerms, RoutedTerms, RetainedOf
<1>9. PyTypeOK'
  <2>1. ns \in [Threads -> SUBSET Objects]
    BY <1>1 DEF PyTypeOK, ns, NamesWithout
  <2>2. cnt' \in [Objects -> Nat]
    BY <1>3, <1>4
  <2>3. bs \in [Builders -> PyBuilder] /\ rs \in [Routers -> PyRouter] /\ ds \in [Dispatchers -> PyDispatcher]
    BY <1>1, NothingHeld DEF PyTypeOK, bs, rs, ds, DispatchersWithout
  <2> QED BY <1>1, <1>3, <1>5, <1>6, <1>7, <2>1, <2>2, <2>3 DEF PyTypeOK
<1>10. FreedAreEmpty'
  <2>1. /\ \A b \in Builders : cnt'[b] = 0 => builder'[b] = NoPyBuilder
        /\ \A r \in Routers : cnt'[r] = 0 => router'[r] = NoPyRouter
        /\ \A d \in Dispatchers : cnt'[d] = 0 => dispatcher'[d] = NoPyDispatcher
    BY <1>3
  <2>2. ASSUME NEW d \in Dispatchers, cnt'[d] > 0 PROVE dispatcher'[d].router # NULL
    <3>1. dispatcher'[d] = dispatcher[d]
      BY <1>3, <2>2
    <3>2. cnt[d] > 0
      BY <1>4, <2>2 DEF Objects
    <3> QED BY <1>1, <3>1, <3>2 DEF FreedAreEmpty
  <2> QED BY <2>1, <2>2 DEF FreedAreEmpty, NoPyBuilder, NoPyRouter, NoPyDispatcher
<1> QED BY <1>8, <1>9, <1>10 DEF Consistent

-----------------------------------------------------------------------------
(* What the other steps add.                                               *)
LEMMA RefsParts ==
    ASSUME Consistent, NEW x \in Objects
    PROVE  /\ cnt[x] \in Nat
           /\ cnt[x] = Named(names, x) + Pointed(dispatcher, x) + Stored(builder, router, lost, x)
           /\ Named(names, x) \in Nat /\ Pointed(dispatcher, x) \in Nat
           /\ Stored(builder, router, lost, x) \in Nat
<1>1. PyTypeOK /\ Counted
  BY DEF Consistent
<1>2. Named(names, x) \in Nat /\ Pointed(dispatcher, x) \in Nat
  BY NamedType, PointedType
<1>3. Stored(builder, router, lost, x) \in Nat
  <2>1. CASE x \in Contexts
    <3>1. lost[x] \in Nat /\ Built(builder, x) \in Nat /\ Routed(router, x) \in Nat
      BY <1>1, <2>1, BuiltType, RoutedType DEF PyTypeOK
    <3> QED BY <2>1, <3>1 DEF Stored
  <2>2. CASE x \notin Contexts
    BY <2>2 DEF Stored
  <2> QED BY <2>1, <2>2
<1>4. cnt[x] \in Nat
  BY <1>1 DEF PyTypeOK
<1> QED BY <1>1, <1>2, <1>3, <1>4 DEF Counted, Refs

LEMMA CountedAfter ==
    ASSUME \A x \in Objects :
               cnt'[x] = Named(names', x) + Pointed(dispatcher', x) + Stored(builder', router', lost', x)
    PROVE  Counted'
BY DEF Counted, Refs, Named, Pointed, Stored, Built, Routed, BuiltTerms, RoutedTerms, RetainedOf

LEMMA FreedAfter ==
    ASSUME \A b \in Builders : cnt'[b] = 0 => builder'[b] = NoPyBuilder,
           \A r \in Routers : cnt'[r] = 0 => router'[r] = NoPyRouter,
           \A d \in Dispatchers : cnt'[d] = 0 => dispatcher'[d] = NoPyDispatcher,
           \A d \in Dispatchers : cnt'[d] > 0 => dispatcher'[d].router # NULL
    PROVE  FreedAreEmpty'
BY DEF FreedAreEmpty, NoPyBuilder, NoPyRouter, NoPyDispatcher

(* An object that is not in use is not referred to and holds nothing.      *)
LEMMA FreshIsUnknown ==
    ASSUME Consistent, NEW x \in Objects, Fresh(x)
    PROVE  /\ cnt[x] = 0 /\ \A t \in Threads : x \notin names[t]
           /\ x \in Builders => builder[x] = NoPyBuilder
           /\ x \in Routers => router[x] = NoPyRouter
           /\ x \in Dispatchers => dispatcher[x] = NoPyDispatcher
<1>1. cnt[x] = 0
  BY DEF Fresh
<1>2. Named(names, x) = 0
  BY <1>1, RefsParts
<1>3. \A t \in Threads : x \notin names[t]
  <2>1. \A t \in Threads : x \in names[t] => Named(names, x) > 0
    BY NamedType
  <2> QED BY <1>2, <2>1
<1> QED BY <1>1, <1>3 DEF Consistent, FreedAreEmpty

LEMMA UsedIsLive ==
    ASSUME Consistent, NEW t \in Threads, NEW x, Uses(t, x)
    PROVE  x \in Objects /\ x \in names[t] /\ cnt[x] > 0
<1>1. x \in names[t] /\ x \in Objects
  BY DEF Uses, Consistent, PyTypeOK
<1>2. Named(names, x) > 0
  BY <1>1, NamedType
<1> QED BY <1>1, <1>2, RefsParts

LEMMA GetsNames ==
    ASSUME PyTypeOK, NEW t \in Threads, NEW o \in Objects, o \notin names[t], Gets(t, o)
    PROVE  /\ names' \in [Threads -> SUBSET Objects]
           /\ \A x : Named(names', x) = Named(names, x) + One(o, x)
<1>1. names' = NamesWith(names, t, o)
  BY DEF Gets, NamesWith
<1>2. names' \in [Threads -> SUBSET Objects]
  BY <1>1 DEF PyTypeOK, NamesWith
<1>3. \A x : Named(NamesWith(names, t, o), x) = Named(names, x) + One(o, x)
  BY NamedAdds DEF PyTypeOK
<1> QED BY <1>1, <1>2, <1>3

(* One more name.                                                          *)
LEMMA NameKeeps ==
    ASSUME Consistent, NEW t \in Threads, NEW o \in Objects, o \notin names[t], Gets(t, o),
           o \in Contexts \/ cnt[o] > 0, cnt' = [cnt EXCEPT ![o] = @ + 1], UNCHANGED <<natives, lost>>
    PROVE  Consistent'
<1> USE DEF natives
<1>1. PyTypeOK /\ FreedAreEmpty
  BY DEF Consistent
<1>2. /\ names' \in [Threads -> SUBSET Objects]
      /\ \A x : Named(names', x) = Named(names, x) + One(o, x)
  BY <1>1, GetsNames
<1>3. \A x \in Objects : cnt'[x] = cnt[x] + One(o, x) /\ cnt[x] \in Nat /\ One(o, x) \in Nat
  BY <1>1 DEF PyTypeOK, One
<1>4. ASSUME NEW x \in Objects
      PROVE  cnt'[x] = Named(names', x) + Pointed(dispatcher', x) + Stored(builder', router', lost', x)
  BY <1>2, <1>3, RefsParts
<1>5. PyTypeOK'
  BY <1>1, <1>2 DEF PyTypeOK
<1>6. o \notin Builders \cup Routers \cup Dispatchers \/ cnt[o] > 0
  BY PythonAssumption
<1>7. FreedAreEmpty'
  <2>1. \A x \in Objects : cnt'[x] = 0 => cnt[x] = 0
    BY <1>3 DEF One
  <2>2. \A x \in Dispatchers : cnt'[x] > 0 => cnt[x] > 0
    BY <1>3, <1>6 DEF One, Objects
  <2> QED BY <1>1, <2>1, <2>2, FreedAfter DEF FreedAreEmpty, Objects
<1> QED BY <1>4, <1>5, <1>7, CountedAfter DEF Consistent

LEMMA NewContextKeeps ==
    ASSUME Consistent, NEW t \in Threads, NewContext(t)
    PROVE  Consistent'
<1>1. PICK c \in Contexts : Fresh(c) /\ cnt' = [cnt EXCEPT ![c] = 1] /\ Gets(t, c)
  BY DEF NewContext
<1>2. c \in Objects /\ cnt \in [Objects -> Nat]
  BY DEF Objects, Consistent, PyTypeOK
<1>3. cnt[c] = 0 /\ c \notin names[t]
  BY <1>1, <1>2, FreshIsUnknown
<1>4. cnt' = [cnt EXCEPT ![c] = @ + 1]
  BY <1>1, <1>2, <1>3
<1> QED BY <1>1, <1>2, <1>3, <1>4, NameKeeps DEF NewContext

LEMMA GiveKeeps ==
    ASSUME Consistent, NEW t \in Threads, NEW u \in Threads, NEW o \in Objects, Give(t, u, o)
    PROVE  Consistent'
<1>1. cnt[o] > 0
  BY UsedIsLive DEF Give
<1> QED BY <1>1, NameKeeps DEF Give

LEMMA ResolveKeeps ==
    ASSUME Consistent, NEW t \in Threads, NEW d \in Dispatchers, Resolve(t, d), Running'
    PROVE  Consistent'
<1>1. PICK c \in Contexts :
         /\ Gets(t, c)
         /\ cnt' = [cnt EXCEPT ![c] = @ + (IF c \in names[t] THEN 0 ELSE 1)]
         \/ UNCHANGED <<names, cnt>>
  BY DEF Resolve, Running
<1>2. c \in Objects /\ cnt \in [Objects -> Nat] /\ names \in [Threads -> SUBSET Objects]
  BY DEF Objects, Consistent, PyTypeOK
<1>3. UNCHANGED <<natives, lost>>
  BY DEF Resolve
<1>4. CASE UNCHANGED <<names, cnt>>
  BY <1>3, <1>4 DEF natives, Consistent, PyTypeOK, FreedAreEmpty, Counted, Refs, Named, Pointed, Stored,
       Built, Routed, BuiltTerms, RoutedTerms, RetainedOf, NoPyBuilder, NoPyRouter, NoPyDispatcher
<1>5. CASE Gets(t, c) /\ cnt' = [cnt EXCEPT ![c] = @ + (IF c \in names[t] THEN 0 ELSE 1)]
  <2>1. CASE c \in names[t]
    <3>1. names' = names /\ cnt' = cnt
      BY <1>2, <1>5, <2>1 DEF Gets
    <3> QED BY <1>4, <3>1
  <2>2. CASE c \notin names[t]
    BY <1>2, <1>3, <1>5, <2>2, NameKeeps
  <2> QED BY <2>1, <2>2
<1> QED BY <1>1, <1>4, <1>5

(* A change of one builder.                                                *)
LEMMA BuilderChanges ==
    ASSUME PyTypeOK, NEW b \in Builders, NEW q \in PyBuilder, builder' = [builder EXCEPT ![b] = q],
           UNCHANGED <<router, lost>>, NEW held \in [Contexts -> Nat], held = builder[b].native.held,
           NEW x \in Objects
    PROVE  Stored(builder', router', lost', x)
               = Stored(builder, router, lost, x) + (IF x \in Contexts THEN q.native.held[x] - held[x] ELSE 0)
<1>1. CASE x \in Contexts
  <2>1. Built(builder', x) = Built(builder, x) + (q.native.held[x] - builder[b].native.held[x])
    <3> DEFINE as == builder'
    <3>1. as = [builder EXCEPT ![b] = q]
      OBVIOUS
    <3> HIDE DEF as
    <3>2. Built(as, x) = Built(builder, x) + (q.native.held[x] - builder[b].native.held[x])
      BY <1>1, <3>1, BuiltChanges DEF PyTypeOK
    <3> QED BY <3>2 DEF as
  <2>2. Routed(router, x) \in Nat /\ Built(builder, x) \in Nat /\ lost[x] \in Nat
    BY <1>1, BuiltType, RoutedType DEF PyTypeOK
  <2>3. q.native.held[x] \in Nat /\ held[x] \in Nat
    BY <1>1 DEF PyBuilder, ApiBuilder
  <2>4. Stored(builder', router', lost', x) = lost[x] + Built(builder', x) + Routed(router, x)
    BY <1>1 DEF Stored
  <2>5. Stored(builder, router, lost, x) = lost[x] + Built(builder, x) + Routed(router, x)
    BY <1>1 DEF Stored
  <2> QED BY <1>1, <2>1, <2>2, <2>3, <2>4, <2>5
<1>2. CASE x \notin Contexts
  BY <1>2 DEF Stored
<1> QED BY <1>1, <1>2

(* A change of one router.                                                 *)
LEMMA RouterChanges ==
    ASSUME PyTypeOK, NEW r \in Routers, NEW q \in PyRouter, router' = [router EXCEPT ![r] = q],
           UNCHANGED <<builder, lost>>, router[r] = NoPyRouter, NEW x \in Objects
    PROVE  Stored(builder', router', lost', x)
               = Stored(builder, router, lost, x) + (IF x \in Contexts THEN RetainedOf(q, x) ELSE 0)
<1>1. CASE x \in Contexts
  <2>1. Routed(router', x) = Routed(router, x) + (RetainedOf(q, x) - RetainedOf(router[r], x))
    <3> DEFINE as == router'
    <3>1. as = [router EXCEPT ![r] = q]
      OBVIOUS
    <3> HIDE DEF as
    <3>2. Routed(as, x) = Routed(router, x) + (RetainedOf(q, x) - RetainedOf(router[r], x))
      BY <1>1, <3>1, RoutedChanges DEF PyTypeOK
    <3> QED BY <3>2 DEF as
  <2>2. Routed(router, x) \in Nat /\ Built(builder, x) \in Nat /\ lost[x] \in Nat
    BY <1>1, BuiltType, RoutedType DEF PyTypeOK
  <2>3. RetainedOf(q, x) \in Nat /\ RetainedOf(router[r], x) = 0
    BY <1>1, NothingHeld DEF PyRouter, RetainedOf
  <2>4. Stored(builder', router', lost', x) = lost[x] + Built(builder, x) + Routed(router', x)
    BY <1>1 DEF Stored
  <2>5. Stored(builder, router, lost, x) = lost[x] + Built(builder, x) + Routed(router, x)
    BY <1>1 DEF Stored
  <2> QED BY <1>1, <2>1, <2>2, <2>3, <2>4, <2>5
<1>2. CASE x \notin Contexts
  BY <1>2 DEF Stored
<1> QED BY <1>1, <1>2

LEMMA NewNative ==
    /\ NewBuilder(NULL) \in ApiBuilder
    /\ \A c \in Contexts : NewBuilder(NULL).held[c] = 0
<1>1. PICK yes, no : yes = TRUE /\ no = FALSE
  OBVIOUS
<1>2. NoBuilder = [open |-> no, held |-> Nothing, corrupted |-> no, hollow |-> no]
  BY <1>1 DEF NoBuilder
<1> DEFINE held == With(Nothing, NULL)
<1>3. held \in [Contexts -> Nat] /\ \A c \in Contexts : held[c] = 0
  BY ApiAssumption DEF With, Nothing
<1> HIDE DEF held
<1>4. NewBuilder(NULL) = [NoBuilder EXCEPT !.open = yes, !.held = held]
  BY <1>1 DEF NewBuilder, held
<1>5. NewBuilder(NULL) = [open |-> yes, held |-> held, corrupted |-> no, hollow |-> no]
  BY <1>2, <1>4
<1> DEFINE m == [open |-> yes, held |-> held, corrupted |-> no, hollow |-> no]
<1>6. m \in ApiBuilder /\ \A c \in Contexts : m.held[c] = 0
  BY <1>1, <1>3 DEF ApiBuilder
<1> HIDE DEF m
<1> QED BY <1>5, <1>6, Zenon DEF m

LEMMA NewBuilderObjectKeeps ==
    ASSUME Consistent, NEW t \in Threads, NEW b \in Builders, NewBuilderObject(t, b)
    PROVE  Consistent'
<1> DEFINE q == [native |-> NewBuilder(NULL), owner |-> t]
           held == builder[b].native.held
<1>1. PyTypeOK /\ FreedAreEmpty
  BY DEF Consistent
<1>2. b \in Objects /\ b \notin Contexts
  BY PythonAssumption DEF Objects
<1>3. Fresh(b) /\ Gets(t, b) /\ cnt' = [cnt EXCEPT ![b] = 1] /\ UNCHANGED <<router, dispatcher, lost>>
  BY DEF NewBuilderObject
<1>4. cnt[b] = 0 /\ b \notin names[t] /\ builder[b] = NoPyBuilder
  BY <1>2, <1>3, FreshIsUnknown
<1>5. builder' = [builder EXCEPT ![b] = q]
  BY DEF NewBuilderObject
<1>6. q \in PyBuilder /\ \A c \in Contexts : q.native.held[c] = 0
  BY NewNative DEF PyBuilder
<1>7. held \in [Contexts -> Nat] /\ \A c \in Contexts : held[c] = 0
  BY <1>4, NothingHeld DEF PyBuilder, ApiBuilder
<1> HIDE DEF q, held
<1>8. /\ names' \in [Threads -> SUBSET Objects]
      /\ \A x : Named(names', x) = Named(names, x) + One(b, x)
  BY <1>1, <1>2, <1>3, <1>4, GetsNames
<1>9. \A x \in Objects : cnt'[x] = cnt[x] + One(b, x) /\ cnt[x] \in Nat /\ One(b, x) \in Nat
  BY <1>1, <1>3, <1>4 DEF PyTypeOK, One
<1>10. ASSUME NEW x \in Objects
       PROVE  cnt'[x] = Named(names', x) + Pointed(dispatcher', x) + Stored(builder', router', lost', x)
  <2>1. Stored(builder', router', lost', x)
          = Stored(builder, router, lost, x) + (IF x \in Contexts THEN q.native.held[x] - held[x] ELSE 0)
    BY <1>1, <1>3, <1>5, <1>6, <1>7, BuilderChanges DEF held
  <2>2. Stored(builder', router', lost', x) = Stored(builder, router, lost, x)
    BY <1>6, <1>7, <2>1, RefsParts
  <2>3. dispatcher' = dispatcher
    BY <1>3
  <2> QED BY <1>8, <1>9, <2>2, <2>3, RefsParts
<1>11. PyTypeOK'
  BY <1>1, <1>3, <1>5, <1>6, <1>8 DEF PyTypeOK
<1>12. FreedAreEmpty'
  <2>1. \A x \in Objects : x # b => cnt'[x] = cnt[x]
    BY <1>1, <1>3 DEF PyTypeOK
  <2>2. cnt'[b] = 1 /\ \A x \in Builders : x # b => builder'[x] = builder[x]
    BY <1>1, <1>2, <1>3, <1>5 DEF PyTypeOK
  <2>3. b \notin Routers \cup Dispatchers
    BY PythonAssumption
  <2> QED BY <1>1, <1>3, <2>1, <2>2, <2>3, FreedAfter DEF FreedAreEmpty, Objects
<1> QED BY <1>10, <1>11, <1>12, CountedAfter DEF Consistent

(* An addition, or the failure of one.                                     *)
LEMMA BuilderAddKeeps ==
    ASSUME Consistent, NEW t \in Threads, NEW b \in Builders, NEW c \in Contexts, BuilderAdd(t, b, c)
    PROVE  Consistent'
<1> DEFINE n == builder[b].native
<1>1. PyTypeOK /\ FreedAreEmpty
  BY DEF Consistent
<1>2. PICK m \in Added(n, c) : /\ builder' = [builder EXCEPT ![b].native = m]
                               /\ cnt' = [cnt EXCEPT ![c] = @ + 1]
  BY DEF BuilderAdd
<1>3. Uses(t, b) /\ UNCHANGED <<names, router, dispatcher, lost>>
  BY DEF BuilderAdd
<1>4. cnt[b] > 0
  BY <1>3, UsedIsLive
<1>5. n \in ApiBuilder /\ builder[b] \in PyBuilder
  BY <1>1 DEF PyTypeOK, PyBuilder
<1> DEFINE q == [builder[b] EXCEPT !.native = m]
<1>6. m = [n EXCEPT !.held = With(@, c)]
  BY <1>2 DEF Added
<1>7. m \in ApiBuilder /\ \A x \in Contexts : m.held[x] = n.held[x] + One(c, x)
  <2> HIDE DEF n
  <2>1. With(n.held, c) \in [Contexts -> Nat] /\ \A x \in Contexts : With(n.held, c)[x] = n.held[x] + One(c, x)
    BY <1>5 DEF ApiBuilder, With, One
  <2> QED BY <1>5, <1>6, <2>1 DEF ApiBuilder
<1>8. q \in PyBuilder /\ q.native = m /\ builder' = [builder EXCEPT ![b] = q]
  BY <1>1, <1>2, <1>5, <1>7 DEF PyBuilder, PyTypeOK
<1>9. n.held \in [Contexts -> Nat]
  BY <1>5 DEF ApiBuilder
<1>10. c \in Objects /\ \A x \in Objects : cnt'[x] = cnt[x] + One(c, x) /\ cnt[x] \in Nat /\ One(c, x) \in Nat
  BY <1>1, <1>2 DEF PyTypeOK, One, Objects
<1> HIDE DEF q
<1>11. ASSUME NEW x \in Objects
       PROVE  cnt'[x] = Named(names', x) + Pointed(dispatcher', x) + Stored(builder', router', lost', x)
  <2> DEFINE held == n.held
  <2>0. held \in [Contexts -> Nat] /\ held = builder[b].native.held
    BY <1>9
  <2> HIDE DEF held
  <2>1. Stored(builder', router', lost', x)
          = Stored(builder, router, lost, x) + (IF x \in Contexts THEN q.native.held[x] - held[x] ELSE 0)
    BY <1>1, <1>3, <1>8, <2>0, BuilderChanges
  <2>2. x \in Contexts => q.native.held[x] = held[x] + One(c, x) /\ held[x] \in Nat
    BY <1>7, <1>8, <2>0 DEF held
  <2>3. x \notin Contexts => One(c, x) = 0
    BY DEF One
  <2>4. Stored(builder', router', lost', x) = Stored(builder, router, lost, x) + One(c, x)
    BY <1>10, <2>1, <2>2, <2>3, RefsParts
  <2>5. dispatcher' = dispatcher /\ names' = names
    BY <1>3
  <2> QED BY <1>10, <2>4, <2>5, RefsParts
<1>12. PyTypeOK'
  BY <1>1, <1>2, <1>3, <1>8, <1>10 DEF PyTypeOK
<1>13. FreedAreEmpty'
  <2>1. c \notin Builders \cup Routers \cup Dispatchers
    BY PythonAssumption
  <2>2. \A x \in Builders \cup Routers \cup Dispatchers : cnt'[x] = cnt[x]
    BY <1>1, <1>2, <2>1 DEF PyTypeOK, Objects
  <2>3. \A x \in Builders : x # b => builder'[x] = builder[x]
    BY <1>1, <1>8 DEF PyTypeOK
  <2> QED BY <1>1, <1>3, <1>4, <2>2, <2>3, FreedAfter DEF FreedAreEmpty
<1> QED BY <1>11, <1>12, <1>13, CountedAfter DEF Consistent

LEMMA BuilderAddFailsKeeps ==
    ASSUME Consistent, NEW t \in Threads, NEW b \in Builders, BuilderAddFails(t, b)
    PROVE  Consistent'
<1> DEFINE n == builder[b].native
           held == n.held
<1>1. PyTypeOK /\ FreedAreEmpty
  BY DEF Consistent
<1>2. PICK m \in Spoilt(n) : builder' = [builder EXCEPT ![b].native = m]
  BY DEF BuilderAddFails
<1>3. Uses(t, b) /\ UNCHANGED <<names, cnt, router, dispatcher, lost>>
  BY DEF BuilderAddFails
<1>4. cnt[b] > 0
  BY <1>3, UsedIsLive
<1>5. n \in ApiBuilder /\ builder[b] \in PyBuilder
  BY <1>1 DEF PyTypeOK, PyBuilder
<1>6. m \in ApiBuilder /\ m.held = held
  <2>1. PICK h \in {FALSE, Counting} : m = [n EXCEPT !.corrupted = TRUE, !.hollow = (n.hollow \/ h)]
    BY <1>2 DEF Spoilt
  <2>2. PICK yes, y \in BOOLEAN : yes = TRUE /\ y = (n.hollow \/ h)
    OBVIOUS
  <2> HIDE DEF n
  <2>3. m = [n EXCEPT !.corrupted = yes, !.hollow = y]
    BY <2>1, <2>2
  <2>4. yes \in BOOLEAN
    BY <2>2
  <2> QED BY <1>5, <2>3, <2>4 DEF ApiBuilder
<1> DEFINE q == [builder[b] EXCEPT !.native = m]
<1>7. q \in PyBuilder /\ q.native = m /\ builder' = [builder EXCEPT ![b] = q]
  BY <1>1, <1>2, <1>5, <1>6 DEF PyBuilder, PyTypeOK
<1>8. held \in [Contexts -> Nat] /\ held = builder[b].native.held
  BY <1>5 DEF ApiBuilder
<1>9. q.native.held = held
  BY <1>6, <1>7
<1> HIDE DEF q, held, n
<1>10. ASSUME NEW x \in Objects
       PROVE  cnt'[x] = Named(names', x) + Pointed(dispatcher', x) + Stored(builder', router', lost', x)
  <2>1. Stored(builder', router', lost', x)
          = Stored(builder, router, lost, x) + (IF x \in Contexts THEN q.native.held[x] - held[x] ELSE 0)
    BY <1>1, <1>3, <1>7, <1>8, BuilderChanges
  <2>2. Stored(builder', router', lost', x) = Stored(builder, router, lost, x)
    BY <1>8, <1>9, <2>1, RefsParts
  <2>3. dispatcher' = dispatcher /\ names' = names /\ cnt' = cnt
    BY <1>3
  <2> QED BY <2>2, <2>3, RefsParts
<1>11. PyTypeOK'
  BY <1>1, <1>3, <1>7 DEF PyTypeOK
<1>12. FreedAreEmpty'
  <2>1. \A x \in Builders : x # b => builder'[x] = builder[x]
    BY <1>1, <1>7 DEF PyTypeOK
  <2> QED BY <1>1, <1>3, <1>4, <2>1, FreedAfter DEF FreedAreEmpty
<1> QED BY <1>10, <1>11, <1>12, CountedAfter DEF Consistent

(* A new router, which retains the contexts that it holds or does not.     *)
LEMMA RouterKeeps ==
    ASSUME Consistent, NEW t \in Threads, NEW r \in Routers, NEW q \in PyRouter, Fresh(r), Gets(t, r),
           router' = [router EXCEPT ![r] = q], UNCHANGED <<builder, dispatcher, lost>>,
           cnt' = [[x \in Objects |-> cnt[x] + (IF x \in Contexts THEN RetainedOf(q, x) ELSE 0)]
                      EXCEPT ![r] = 1]
    PROVE  Consistent'
<1>1. PyTypeOK /\ FreedAreEmpty
  BY DEF Consistent
<1>2. r \in Objects /\ r \notin Contexts \cup Builders \cup Dispatchers
  BY PythonAssumption DEF Objects
<1>3. cnt[r] = 0 /\ r \notin names[t] /\ router[r] = NoPyRouter
  BY <1>2, FreshIsUnknown
<1>4. /\ names' \in [Threads -> SUBSET Objects]
      /\ \A x : Named(names', x) = Named(names, x) + One(r, x)
  BY <1>1, <1>2, <1>3, GetsNames
<1>5. \A x \in Contexts : RetainedOf(q, x) \in Nat
  BY DEF PyRouter, RetainedOf
<1> DEFINE More(x) == IF x \in Contexts THEN RetainedOf(q, x) ELSE 0
<1>6. \A x \in Objects : More(x) \in Nat /\ One(r, x) \in Nat /\ cnt[x] \in Nat
  BY <1>1, <1>5 DEF One, PyTypeOK
<1>7. \A x \in Objects : cnt'[x] = cnt[x] + One(r, x) + More(x)
  <2>1. ASSUME NEW x \in Objects, x = r PROVE cnt'[x] = cnt[x] + One(r, x) + More(x)
    <3>1. cnt'[x] = 1 /\ More(x) = 0 /\ One(r, x) = 1 /\ cnt[x] = 0
      BY <1>2, <1>3, <2>1 DEF One
    <3> QED BY <3>1
  <2>2. ASSUME NEW x \in Objects, x # r PROVE cnt'[x] = cnt[x] + One(r, x) + More(x)
    <3>1. cnt'[x] = cnt[x] + More(x) /\ One(r, x) = 0
      BY <2>2 DEF One
    <3> QED BY <1>6, <3>1
  <2> QED BY <2>1, <2>2
<1>8. ASSUME NEW x \in Objects
      PROVE  cnt'[x] = Named(names', x) + Pointed(dispatcher', x) + Stored(builder', router', lost', x)
  <2>1. Stored(builder', router', lost', x) = Stored(builder, router, lost, x) + More(x)
    BY <1>1, <1>3, RouterChanges
  <2>2. dispatcher' = dispatcher
    OBVIOUS
  <2> HIDE DEF More
  <2> QED BY <1>4, <1>6, <1>7, <2>1, <2>2, RefsParts
<1>9. cnt' \in [Objects -> Nat]
  <2>1. \A x \in Objects : cnt[x] + More(x) \in Nat
    <3> HIDE DEF More
    <3> QED BY <1>6
  <2>2. cnt' = [[x \in Objects |-> cnt[x] + More(x)] EXCEPT ![r] = 1]
    OBVIOUS
  <2> DEFINE f == [x \in Objects |-> cnt[x] + More(x)]
  <2>3. f \in [Objects -> Nat]
    <3> HIDE DEF More
    <3> QED BY <2>1
  <2> HIDE DEF f
  <2>4. cnt' = [f EXCEPT ![r] = 1]
    BY <2>2 DEF f
  <2> QED BY ONLY <2>3, <2>4
<1>10. PyTypeOK'
  BY <1>1, <1>4, <1>9 DEF PyTypeOK
<1>11. FreedAreEmpty'
  <2>1. \A x \in Builders \cup Dispatchers : cnt'[x] = cnt[x]
    <3>1. \A x \in Builders \cup Dispatchers : x \in Objects /\ x # r /\ x \notin Contexts
      BY <1>2, PythonAssumption DEF Objects
    <3> QED BY <1>6, <3>1
  <2>2. \A x \in Routers : x # r => cnt'[x] = cnt[x] /\ router'[x] = router[x]
    <3>1. \A x \in Routers : x \in Objects /\ x \notin Contexts
      BY PythonAssumption DEF Objects
    <3> QED BY <1>1, <1>6, <3>1 DEF PyTypeOK
  <2>3. cnt'[r] = 1
    BY <1>2
  <2> QED BY <1>1, <2>1, <2>2, <2>3, FreedAfter DEF FreedAreEmpty
<1> QED BY <1>8, <1>10, <1>11, CountedAfter DEF Consistent

LEMMA BuilderCompileKeeps ==
    ASSUME Consistent, NEW t \in Threads, NEW b \in Builders, NEW r \in Routers, BuilderCompile(t, b, r)
    PROVE  Consistent'
<1>1. PICK yes : yes = TRUE
  OBVIOUS
<1> DEFINE held == builder[b].native.held
           q == [held |-> held, retained |-> yes]
<1>2. /\ Fresh(r) /\ Gets(t, r) /\ UNCHANGED <<builder, dispatcher, lost>>
      /\ router' = [router EXCEPT ![r] = q] /\ cnt' = [Increased(held) EXCEPT ![r] = 1]
  BY <1>1 DEF BuilderCompile
<1>3. held \in [Contexts -> Nat]
  BY DEF Consistent, PyTypeOK, PyBuilder, ApiBuilder
<1> HIDE DEF held
<1>4. q \in PyRouter /\ \A c \in Contexts : RetainedOf(q, c) = held[c]
  BY <1>1, <1>3 DEF PyRouter, RetainedOf
<1> HIDE DEF q
<1>5. Increased(held) = [x \in Objects |-> cnt[x] + (IF x \in Contexts THEN RetainedOf(q, x) ELSE 0)]
  BY <1>4 DEF Increased
<1> QED BY <1>2, <1>4, <1>5, RouterKeeps

LEMMA BuildRouterOfKeeps ==
    ASSUME Consistent, NEW t \in Threads, NEW r \in Routers, BuildRouterOf(t, r)
    PROVE  Consistent'
<1>1. PICK no : no = FALSE
  OBVIOUS
<1>2. PICK cs \in SUBSET (Contexts \cap names[t]) :
         router' = [router EXCEPT ![r] = [held     |-> [c \in Contexts |-> IF c \in cs THEN 1 ELSE 0],
                                          retained |-> FALSE]]
  BY DEF BuildRouterOf
<1> DEFINE held == [c \in Contexts |-> IF c \in cs THEN 1 ELSE 0]
           q == [held |-> held, retained |-> no]
<1>3. /\ Fresh(r) /\ Gets(t, r) /\ UNCHANGED <<builder, dispatcher, lost>>
      /\ router' = [router EXCEPT ![r] = q] /\ cnt' = [cnt EXCEPT ![r] = 1]
  BY <1>1, <1>2 DEF BuildRouterOf
<1>4. held \in [Contexts -> Nat]
  OBVIOUS
<1> HIDE DEF held
<1>5. q \in PyRouter /\ \A c \in Contexts : RetainedOf(q, c) = 0
  BY <1>1, <1>4 DEF PyRouter, RetainedOf
<1> HIDE DEF q
<1>6. cnt \in [Objects -> Nat]
  BY DEF Consistent, PyTypeOK
<1>7. cnt = [x \in Objects |-> cnt[x] + (IF x \in Contexts THEN RetainedOf(q, x) ELSE 0)]
  <2>1. \A x \in Objects : cnt[x] = cnt[x] + (IF x \in Contexts THEN RetainedOf(q, x) ELSE 0)
    BY <1>5, <1>6
  <2> QED BY <1>6, <2>1
<1>8. cnt' = [[x \in Objects |-> cnt[x] + (IF x \in Contexts THEN RetainedOf(q, x) ELSE 0)] EXCEPT ![r] = 1]
  BY <1>3, <1>7, Zenon
<1> QED BY <1>3, <1>5, <1>8, RouterKeeps

(* The router that a compilation loses still holds what it has retained.   *)
LEMMA RouterObjectFailsKeeps ==
    ASSUME Consistent, NEW t \in Threads, NEW b \in Builders, RouterObjectFails(t, b)
    PROVE  Consistent'
<1> DEFINE held == builder[b].native.held
<1>1. PyTypeOK /\ FreedAreEmpty
  BY DEF Consistent
<1>2. lost = Nothing /\ lost' = held /\ cnt' = Increased(held) /\ UNCHANGED <<names, builder, router, dispatcher>>
  BY DEF RouterObjectFails, natives, Increased
<1>3. held \in [Contexts -> Nat]
  BY <1>1 DEF PyTypeOK, PyBuilder, ApiBuilder
<1> HIDE DEF held
<1>4. ASSUME NEW x \in Objects
      PROVE  cnt'[x] = Named(names', x) + Pointed(dispatcher', x) + Stored(builder', router', lost', x)
  <2>1. CASE x \in Contexts
    <3>1. Routed(router, x) \in Nat /\ Built(builder, x) \in Nat /\ lost[x] = 0 /\ held[x] \in Nat
      BY <1>1, <1>2, <1>3, <2>1, BuiltType, RoutedType, NothingHeld DEF PyTypeOK
    <3>2. cnt'[x] = cnt[x] + held[x]
      BY <1>2, <2>1 DEF Increased
    <3>3. Stored(builder, router, lost, x) = Built(builder, x) + Routed(router, x)
      BY <2>1, <3>1 DEF Stored
    <3>4. Stored(builder', router', lost', x) = held[x] + Built(builder, x) + Routed(router, x)
      BY <1>2, <2>1 DEF Stored
    <3>5. Named(names', x) = Named(names, x) /\ Pointed(dispatcher', x) = Pointed(dispatcher, x)
      BY <1>2
    <3> QED BY <3>1, <3>2, <3>3, <3>4, <3>5, RefsParts
  <2>2. CASE x \notin Contexts
    <3>1. cnt'[x] = cnt[x]
      BY <1>1, <1>2, <2>2 DEF Increased, PyTypeOK
    <3>2. Stored(builder, router, lost, x) = 0 /\ Stored(builder', router', lost', x) = 0
      BY <2>2 DEF Stored
    <3>3. Named(names', x) = Named(names, x) /\ Pointed(dispatcher', x) = Pointed(dispatcher, x)
      BY <1>2
    <3> QED BY <3>1, <3>2, <3>3, RefsParts
  <2> QED BY <2>1, <2>2
<1>5. PyTypeOK'
  <2>1. cnt' \in [Objects -> Nat]
    BY <1>1, <1>2, <1>3 DEF Increased, PyTypeOK
  <2> QED BY <1>1, <1>2, <1>3, <2>1 DEF PyTypeOK
<1>6. FreedAreEmpty'
  <2>1. \A x \in Builders \cup Routers \cup Dispatchers : cnt'[x] = cnt[x]
    <3>1. \A x \in Builders \cup Routers \cup Dispatchers : x \in Objects /\ x \notin Contexts
      BY PythonAssumption DEF Objects
    <3> QED BY <1>1, <1>2, <3>1 DEF Increased, PyTypeOK
  <2> QED BY <1>1, <1>2, <2>1, FreedAfter DEF FreedAreEmpty
<1> QED BY <1>4, <1>5, <1>6, CountedAfter DEF Consistent

LEMMA NewDispatcherKeeps ==
    ASSUME Consistent, NEW t \in Threads, NEW d \in Dispatchers, NEW r \in Routers, NewDispatcher(t, d, r)
    PROVE  Consistent'
<1> DEFINE q == [router |-> r, owner |-> t]
<1>1. PyTypeOK /\ FreedAreEmpty
  BY DEF Consistent
<1>2. d \in Objects /\ r \in Objects /\ d # r /\ d \notin Builders \cup Routers /\ r \notin Builders \cup Dispatchers
      /\ r # NULL
  BY PythonAssumption DEF Objects
<1>3. /\ Uses(t, r) /\ Fresh(d) /\ Gets(t, d) /\ UNCHANGED <<builder, router, lost>>
      /\ dispatcher' = [dispatcher EXCEPT ![d] = q]
      /\ cnt' = [cnt EXCEPT ![d] = 1, ![r] = @ + 1]
  BY DEF NewDispatcher
<1>4. cnt[d] = 0 /\ d \notin names[t] /\ dispatcher[d] = NoPyDispatcher
  BY <1>2, <1>3, FreshIsUnknown
<1>5. cnt[r] > 0
  BY <1>3, UsedIsLive
<1>6. q \in PyDispatcher /\ q.router = r
  BY DEF PyDispatcher
<1>7. dispatcher[d].router = NULL
  BY <1>4, NothingHeld
<1> HIDE DEF q
<1>8. /\ names' \in [Threads -> SUBSET Objects]
      /\ \A x : Named(names', x) = Named(names, x) + One(d, x)
  BY <1>1, <1>2, <1>3, <1>4, GetsNames
<1>9. ASSUME NEW z \in Objects PROVE Pointed(dispatcher', z) = Pointed(dispatcher, z) + One(r, z)
  <2>1. dispatcher' = DispatchersWith(dispatcher, d, q)
    BY <1>3 DEF DispatchersWith
  <2>2. dispatcher \in [Dispatchers -> PyDispatcher]
    BY <1>1 DEF PyTypeOK
  <2>3. Pointed(DispatchersWith(dispatcher, d, q), z) = Pointed(dispatcher, z) + One(r, z)
    BY <1>6, <1>7, <2>2, PointedAdds
  <2> QED BY <2>1, <2>3
<1>10. \A x \in Objects : /\ cnt'[x] = cnt[x] + One(d, x) + One(r, x)
                          /\ cnt[x] \in Nat /\ One(d, x) \in Nat /\ One(r, x) \in Nat
  BY <1>1, <1>2, <1>3, <1>4 DEF PyTypeOK, One
<1>11. ASSUME NEW x \in Objects
       PROVE  cnt'[x] = Named(names', x) + Pointed(dispatcher', x) + Stored(builder', router', lost', x)
  <2>1. Stored(builder', router', lost', x) = Stored(builder, router, lost, x)
    BY <1>3
  <2> QED BY <1>8, <1>9, <1>10, <2>1, RefsParts
<1>12. PyTypeOK'
  <2>1. cnt' \in [Objects -> Nat]
    BY <1>1, <1>2, <1>3 DEF PyTypeOK
  <2> QED BY <1>1, <1>3, <1>6, <1>8, <2>1 DEF PyTypeOK
<1>13. FreedAreEmpty'
  <2>1. \A x \in Objects : x # d /\ x # r => cnt'[x] = cnt[x]
    BY <1>1, <1>3 DEF PyTypeOK
  <2>2. cnt'[d] = 1 /\ cnt'[r] > 0
    BY <1>1, <1>2, <1>3, <1>5 DEF PyTypeOK
  <2>3. dispatcher'[d] = q /\ \A x \in Dispatchers : x # d => dispatcher'[x] = dispatcher[x]
    BY <1>1, <1>3 DEF PyTypeOK
  <2>4. /\ \A x \in Builders : cnt'[x] = 0 => builder'[x] = NoPyBuilder
        /\ \A x \in Routers : cnt'[x] = 0 => router'[x] = NoPyRouter
    <3>1. \A x \in Builders : cnt[x] = 0 => builder[x] = NoPyBuilder
      BY <1>1 DEF FreedAreEmpty
    <3>2. \A x \in Routers : cnt[x] = 0 => router[x] = NoPyRouter
      BY <1>1 DEF FreedAreEmpty
    <3>3. \A x \in Builders : x \in Objects /\ x # d /\ x # r
      BY <1>2 DEF Objects
    <3>4. \A x \in Routers : x \in Objects /\ x # d
      BY <1>2 DEF Objects
    <3>5. cnt'[r] # 0 /\ UNCHANGED <<builder, router>>
      BY <1>3, <2>2
    <3>6. \A x \in Builders : cnt'[x] = 0 => builder'[x] = NoPyBuilder
      BY <2>1, <3>1, <3>3, <3>5
    <3>7. \A x \in Routers : cnt'[x] = 0 => router'[x] = NoPyRouter
      BY <2>1, <3>2, <3>4, <3>5
    <3> QED BY <3>6, <3>7
  <2>5. \A x \in Dispatchers : /\ cnt'[x] = 0 => dispatcher'[x] = NoPyDispatcher
                               /\ cnt'[x] > 0 => dispatcher'[x].router # NULL
    BY <1>1, <1>2, <1>6, <2>1, <2>2, <2>3 DEF FreedAreEmpty, Objects
  <2> QED BY <2>4, <2>5, FreedAfter
<1> QED BY <1>11, <1>12, <1>13, CountedAfter DEF Consistent

LEMMA UnchangedKeeps ==
    ASSUME Consistent, UNCHANGED <<names, cnt, natives, lost>>
    PROVE  Consistent'
<1> USE DEF natives
<1>1. PyTypeOK /\ FreedAreEmpty
  BY DEF Consistent
<1>2. ASSUME NEW x \in Objects
      PROVE  cnt'[x] = Named(names', x) + Pointed(dispatcher', x) + Stored(builder', router', lost', x)
  BY RefsParts
<1>3. PyTypeOK'
  BY <1>1 DEF PyTypeOK
<1>4. FreedAreEmpty'
  BY <1>1, FreedAfter DEF FreedAreEmpty
<1> QED BY <1>2, <1>3, <1>4, CountedAfter DEF Consistent

-----------------------------------------------------------------------------
(* While the process runs, the counts are consistent: at first, when       *)
(* nothing exists, and after every step.                                   *)
LEMMA PyInitially == PyInit => PInv
<1> SUFFICES ASSUME PyInit PROVE Consistent
  BY DEF PInv
<1>1. /\ names = [t \in Threads |-> {}] /\ cnt = [o \in Objects |-> 0]
      /\ builder = [b \in Builders |-> NoPyBuilder] /\ router = [r \in Routers |-> NoPyRouter]
      /\ dispatcher = [d \in Dispatchers |-> NoPyDispatcher] /\ lost = Nothing
  BY DEF PyInit
<1>2. PyTypeOK
  BY <1>1, NothingHeld DEF PyTypeOK
<1>3. FreedAreEmpty
  <2>1. \A x \in Builders \cup Routers \cup Dispatchers : cnt[x] = 0
    BY <1>1 DEF Objects
  <2>2. /\ \A b \in Builders : builder[b] = NoPyBuilder
        /\ \A r \in Routers : router[r] = NoPyRouter
        /\ \A d \in Dispatchers : dispatcher[d] = NoPyDispatcher
    BY <1>1
  <2> QED BY <2>1, <2>2 DEF FreedAreEmpty
<1>4. ASSUME NEW x \in Objects PROVE cnt[x] = Refs(names, dispatcher, builder, router, lost, x)
  <2>1. Named(names, x) = 0
    <3>1. {t \in Threads : x \in names[t]} = {}
      BY <1>1
    <3> QED BY <3>1, FS_EmptySet DEF Named
  <2>2. Pointed(dispatcher, x) = 0
    <3>1. {d \in Dispatchers : dispatcher[d].router = x} = {}
      BY <1>1, NothingHeld, PythonAssumption
    <3> QED BY <3>1, FS_EmptySet DEF Pointed
  <2>3. Stored(builder, router, lost, x) = 0
    <3>1. CASE x \in Contexts
      <4>1. \A b \in Builders : BuiltTerms(builder, x)[b] = 0
        BY <1>1, <3>1, NothingHeld DEF BuiltTerms
      <4>2. Built(builder, x) = 0
        <5> HIDE DEF BuiltTerms
        <5> QED BY <4>1, FiniteKinds, SumZero DEF Built
      <4>3. \A r \in Routers : RoutedTerms(router, x)[r] = 0
        BY <1>1, <3>1, NothingHeld DEF RoutedTerms
      <4>4. Routed(router, x) = 0
        <5> HIDE DEF RoutedTerms
        <5> QED BY <4>3, FiniteKinds, SumZero DEF Routed
      <4>5. lost[x] = 0
        BY <1>1, <3>1, NothingHeld
      <4> QED BY <3>1, <4>2, <4>4, <4>5 DEF Stored
    <3>2. CASE x \notin Contexts
      BY <3>2 DEF Stored
    <3> QED BY <3>1, <3>2
  <2>4. cnt[x] = 0
    BY <1>1
  <2> QED BY <2>1, <2>2, <2>3, <2>4 DEF Refs
<1> QED BY <1>2, <1>3, <1>4 DEF Consistent, Counted

LEMMA PySteps == PInv /\ [PyNext]_pyVars => PInv'
<1> SUFFICES ASSUME PInv, [PyNext]_pyVars, Running' PROVE Consistent'
  BY DEF PInv
<1>1. CASE UNCHANGED pyVars
  <2>1. Running /\ UNCHANGED <<names, cnt, natives, lost>>
    BY <1>1 DEF pyVars, natives, Running
  <2> QED BY <2>1, UnchangedKeeps DEF PInv
<1>2. CASE NewBuilderObjectFails \/ BuildRouterFails
  <2>1. Running /\ UNCHANGED <<names, cnt, natives, lost>>
    BY <1>2 DEF NewBuilderObjectFails, BuildRouterFails
  <2> QED BY <2>1, UnchangedKeeps DEF PInv
<1>3. CASE \E t \in Threads : NewContext(t)
  <2>1. Running
    BY <1>3 DEF NewContext, Fresh
  <2> QED BY <1>3, <2>1, NewContextKeeps DEF PInv
<1>4. ASSUME NEW t \in Threads, NEW o \in Objects, Drop(t, o) PROVE Consistent'
  <2>1. Running /\ o \in names[t]
    BY <1>4 DEF Drop, Uses
  <2> QED BY <1>4, <2>1, DropKeeps DEF PInv
<1>5. ASSUME NEW t \in Threads, NEW u \in Threads, NEW o \in Objects, Give(t, u, o) PROVE Consistent'
  <2>1. Running
    BY <1>5 DEF Give, Uses
  <2> QED BY <1>5, <2>1, GiveKeeps DEF PInv
<1>6. ASSUME NEW t \in Threads, NEW b \in Builders,
             \/ NewBuilderObject(t, b) \/ BuilderAddFails(t, b) \/ BuilderCompileFails(t, b)
             \/ RouterObjectFails(t, b)
      PROVE  Consistent'
  <2>1. Running /\ Consistent
    BY <1>6 DEF NewBuilderObject, BuilderAddFails, BuilderCompileFails, RouterObjectFails, Uses, Fresh, PInv
  <2>2. CASE BuilderCompileFails(t, b)
    <3>1. UNCHANGED <<names, cnt, natives, lost>>
      BY <2>2 DEF BuilderCompileFails
    <3> QED BY <2>1, <3>1, UnchangedKeeps
  <2> QED BY <1>6, <2>1, <2>2, NewBuilderObjectKeeps, BuilderAddFailsKeeps, RouterObjectFailsKeeps
<1>7. ASSUME NEW t \in Threads, NEW b \in Builders, NEW c \in Contexts, BuilderAdd(t, b, c) PROVE Consistent'
  <2>1. Running
    BY <1>7 DEF BuilderAdd, Uses
  <2> QED BY <1>7, <2>1, BuilderAddKeeps DEF PInv
<1>8. ASSUME NEW t \in Threads, NEW b \in Builders, NEW r \in Routers, BuilderCompile(t, b, r) PROVE Consistent'
  <2>1. Running
    BY <1>8 DEF BuilderCompile, Uses
  <2> QED BY <1>8, <2>1, BuilderCompileKeeps DEF PInv
<1>9. ASSUME NEW t \in Threads, NEW r \in Routers, BuildRouterOf(t, r) \/ NewDispatcherFails(t, r)
      PROVE  Consistent'
  <2>1. Running /\ Consistent
    BY <1>9 DEF BuildRouterOf, NewDispatcherFails, Uses, Fresh, PInv
  <2>2. ~NewDispatcherFails(t, r)
    BY DEF NewDispatcherFails, Running
  <2> QED BY <1>9, <2>1, <2>2, BuildRouterOfKeeps
<1>10. ASSUME NEW t \in Threads, NEW d \in Dispatchers, NEW r \in Routers, NewDispatcher(t, d, r)
       PROVE  Consistent'
  <2>1. Running
    BY <1>10 DEF NewDispatcher, Uses
  <2> QED BY <1>10, <2>1, NewDispatcherKeeps DEF PInv
<1>11. ASSUME NEW t \in Threads, NEW d \in Dispatchers, Resolve(t, d) PROVE Consistent'
  <2>1. Running
    BY <1>11 DEF Resolve, Uses
  <2> QED BY <1>11, <2>1, ResolveKeeps DEF PInv
<1> QED BY <1>1, <1>2, <1>3, <1>4, <1>5, <1>6, <1>7, <1>8, <1>9, <1>10, <1>11 DEF PyNext

(* Every reference that a count stands for is somewhere, and is the only   *)
(* reason for it: PInv holds in every state of the program.                *)
THEOREM ReferencesCounted == PySpec => []PInv
BY PyInitially, PySteps, PTL DEF PySpec

(* Holders counts what live objects hold: the same, as freed objects hold  *)
(* nothing.                                                                *)
LEMMA HoldersAreRefs ==
    ASSUME Consistent, NEW x \in Objects
    PROVE  Holders(x) = Refs(names, dispatcher, builder, router, lost, x)
<1>1. PyTypeOK /\ FreedAreEmpty
  BY DEF Consistent
<1>2. {d \in Live(Dispatchers) : dispatcher[d].router = x} = {d \in Dispatchers : dispatcher[d].router = x}
  <2>1. \A d \in Dispatchers : d \notin Live(Dispatchers) => dispatcher[d].router # x
    <3>1. x # NULL
      BY PythonAssumption
    <3>2. \A d \in Dispatchers : d \notin Live(Dispatchers) => cnt[d] = 0
      BY <1>1 DEF Live, Objects, PyTypeOK
    <3> QED BY <1>1, <3>1, <3>2, NothingHeld DEF FreedAreEmpty
  <2> QED BY <2>1 DEF Live
<1> DEFINE sb == MapThenSumSet(LAMBDA b : builder[b].native.held[x], Live(Builders))
           sr == MapThenSumSet(LAMBDA r : IF router[r].retained THEN router[r].held[x] ELSE 0, Live(Routers))
<1>3. ASSUME x \in Contexts PROVE sb = Built(builder, x) /\ sr = Routed(router, x)
  <2> DEFINE B == Live(Builders)
             R == Live(Routers)
             f == BuiltTerms(builder, x)
             g == RoutedTerms(router, x)
  <2>1. B \in SUBSET Builders /\ R \in SUBSET Routers
    BY DEF Live
  <2>2. f \in [Builders -> Int] /\ g \in [Routers -> Int]
    <3>1. BuiltTerms(builder, x) \in [Builders -> Nat] /\ RoutedTerms(router, x) \in [Routers -> Nat]
      BY <1>1, <1>3, BuiltType, RoutedType DEF PyTypeOK
    <3>2. f \in [Builders -> Int]
      BY <3>1, NatToInt
    <3>3. g \in [Routers -> Int]
      BY <3>1, NatToInt
    <3> QED BY <3>2, <3>3
  <2>3. /\ \A b \in Builders \ B : cnt[b] = 0
        /\ \A r \in Routers \ R : cnt[r] = 0
    BY <1>1 DEF Live, Objects, PyTypeOK
  <2>4. /\ \A b \in Builders \ B : f[b] = 0
        /\ \A r \in Routers \ R : g[r] = 0
    <3> HIDE DEF B, R
    <3> QED BY <1>1, <1>3, <2>3, NothingHeld DEF FreedAreEmpty, BuiltTerms, RoutedTerms
  <2>5. sb = SumFunctionOnSet(f, B)
    <3> HIDE DEF B
    <3>1. MapThenSumSet(LAMBDA b : builder[b].native.held[x], B) = SumFunctionOnSet(f, B)
      BY <2>1, SumOfBuilt
    <3> QED BY <3>1 DEF B
  <2>6. sr = SumFunctionOnSet(g, R)
    <3> HIDE DEF R
    <3>1. MapThenSumSet(LAMBDA r : IF router[r].retained THEN router[r].held[x] ELSE 0, R) = SumFunctionOnSet(g, R)
      BY <2>1, SumOfRouted
    <3> QED BY <3>1 DEF R
  <2> HIDE DEF B, R, f, g, sb, sr
  <2>7. SumFunctionOnSet(f, Builders) = SumFunctionOnSet(f, B)
    BY <2>1, <2>2, <2>4, FiniteKinds, SumSubset
  <2>8. SumFunctionOnSet(g, Routers) = SumFunctionOnSet(g, R)
    BY <2>1, <2>2, <2>4, FiniteKinds, SumSubset
  <2> QED BY <2>5, <2>6, <2>7, <2>8 DEF Built, Routed, f, g
<1> DEFINE kept == IF x \notin Contexts THEN 0 ELSE lost[x] + sb + sr
<1>4. Holders(x) = Named(names, x) + Pointed(dispatcher, x) + kept
  BY <1>2, Zenon DEF Holders, Named, Pointed
<1> HIDE DEF sb, sr
<1>5. kept = Stored(builder, router, lost, x)
  BY <1>3 DEF Stored
<1> QED BY <1>4, <1>5, Zenon DEF Refs

(* Every object is counted exactly as often as names, dispatchers,         *)
(* builders and routers refer to it, whatever the threads do.              *)
THEOREM CountsAreExact == PySpec => []CountsExact
<1>1. PInv => CountsExact
  <2> SUFFICES ASSUME Consistent, NEW o \in Objects PROVE cnt[o] = Holders(o)
    BY DEF PInv, CountsExact
  <2>1. cnt[o] = Refs(names, dispatcher, builder, router, lost, o)
    BY DEF Consistent, Counted
  <2> QED BY <2>1, HoldersAreRefs
<1> QED BY <1>1, ReferencesCounted, PTL

(* The router of a live dispatcher, and the contexts it can return, are    *)
(* alive: the dispatcher and the router are among what their counts count. *)
THEOREM DispatchersFindTheirs == PySpec => []DispatchersResolve
<1>1. PInv => DispatchersResolve
  <2> SUFFICES ASSUME Consistent, NEW d \in Live(Dispatchers)
               PROVE  LET r == dispatcher[d].router
                      IN  /\ cnt[r] > 0
                          /\ router[r].retained => \A c \in Contexts : router[r].held[c] > 0 => cnt[c] > 0
    BY DEF PInv, DispatchersResolve
  <2>1. PyTypeOK /\ FreedAreEmpty
    BY DEF Consistent
  <2> DEFINE r == dispatcher[d].router
  <2>2. d \in Dispatchers /\ r \in Routers /\ r \in Objects
    BY <2>1 DEF Live, FreedAreEmpty, PyTypeOK, PyDispatcher, Objects
  <2>3. Pointed(dispatcher, r) > 0
    BY <2>2, PointedType
  <2> HIDE DEF r
  <2>4. cnt[r] > 0
    BY <2>2, <2>3, RefsParts DEF r
  <2>5. ASSUME router[r].retained, NEW c \in Contexts, router[r].held[c] > 0 PROVE cnt[c] > 0
    <3>1. Routed(router, c) \in Nat /\ RetainedOf(router[r], c) <= Routed(router, c)
      BY <2>1, <2>2, RoutedType DEF PyTypeOK
    <3>2. RetainedOf(router[r], c) = router[r].held[c] /\ router[r].held[c] \in Nat
      BY <2>1, <2>2, <2>5 DEF RetainedOf, PyTypeOK, PyRouter
    <3>3. Routed(router, c) > 0
      BY <2>5, <3>1, <3>2
    <3>4. lost[c] \in Nat /\ Built(builder, c) \in Nat /\ c \in Objects
      BY <2>1, BuiltType DEF PyTypeOK, Objects
    <3>5. Stored(builder, router, lost, c) > 0
      BY <3>1, <3>3, <3>4 DEF Stored
    <3> QED BY <3>4, <3>5, RefsParts
  <2> QED BY <2>4, <2>5 DEF r
<1> QED BY <1>1, ReferencesCounted, PTL
=============================================================================
