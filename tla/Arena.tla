-------------------------------- MODULE Arena --------------------------------
(***************************************************************************)
(* arena.c: a list of blocks, filled from the last one on.  A call takes   *)
(* one step per pass of the loop of arena_alloc_aligned.                   *)
(*                                                                         *)
(* An address is a block and an offset into it; of the address malloc      *)
(* gave the block only what is left by the alignments matters.             *)
(***************************************************************************)
EXTENDS Integers, SequencesExt

CONSTANTS BlockSize,   \* ARENA_BLOCK_SIZE
          Bases,       \* the addresses of blocks, modulo the largest alignment
          MallocFails, \* whether malloc may fail
          MaxBlocks    \* bound: blocks of an arena
ASSUME ArenaAssumption == /\ BlockSize \in Nat \ {0} /\ MaxBlocks \in Nat /\ Bases \subseteq Nat
                          /\ MallocFails \in BOOLEAN

VARIABLES blocks,   \* the list from head to tail
          request,  \* the call under way, or none
          allocs    \* what earlier calls have returned, in their order

arenaVars == <<blocks, request, allocs>>

None == [size |-> 0, align |-> 1]
Pending == request # None

ArenaInit == blocks = <<>> /\ request = None /\ allocs = <<>>

Alloc(size, align) ==
    /\ ~Pending
    /\ request' = [size |-> size, align |-> align]
    /\ UNCHANGED <<blocks, allocs>>

NewSize == Max({request.size + request.align - 1, BlockSize})

(* The padding that block b needs before an allocation.                    *)
Padding(b) == (-(b.base + b.used)) % request.align
(* Mutant: the padding is not counted.                                     *)
TotalUnpadded(b) == request.size
Total(b) == Padding(b) + request.size

Fits(b) == b.used + Total(b) <= b.size

Take ==
    /\ Pending /\ blocks # <<>>
    /\ LET b == Last(blocks)
       IN  /\ Fits(b)
           /\ blocks' = [blocks EXCEPT ![Len(blocks)].used = @ + Total(b)]
           /\ allocs' = Append(allocs, [block |-> Len(blocks), offset |-> b.used + Padding(b),
                                        size |-> request.size, align |-> request.align])
    /\ request' = None

(* The first block, or another because the last one is full.               *)
NeedsBlock == Pending /\ (IF blocks = <<>> THEN TRUE ELSE ~Fits(Last(blocks)))

Extend ==
    /\ NeedsBlock /\ Len(blocks) < MaxBlocks
    /\ \E base \in Bases : blocks' = Append(blocks, [base |-> base, used |-> 0, size |-> NewSize])
    /\ UNCHANGED <<request, allocs>>

Fail ==
    /\ NeedsBlock /\ (MallocFails \/ Len(blocks) = MaxBlocks)
    /\ request' = None
    /\ UNCHANGED <<blocks, allocs>>

arena_used == SumFunction([k \in DOMAIN blocks |-> blocks[k].used])

(* arena_free; the tail it leaves behind is not looked at without a head.  *)
ArenaFree == ~Pending /\ blocks' = <<>> /\ allocs' = <<>> /\ UNCHANGED request
-----------------------------------------------------------------------------
CONSTANTS Sizes, Alignments    \* of the calls made to an arena on its own
ASSUME CallsAssumption == Sizes \subseteq Nat /\ Alignments \subseteq Nat \ {0}

ArenaNext ==
    \/ \E size \in Sizes, align \in Alignments : Alloc(size, align)
    \/ Take \/ Extend \/ Fail \/ ArenaFree

ArenaSpec == ArenaInit /\ [][ArenaNext]_arenaVars

Inside(a) == a.offset + a.size <= blocks[a.block].size

(* A block was made for an allocation and holds one, unless the call that  *)
(* made it is about to take it: no call makes two.                         *)
Holds(k) == \E i \in DOMAIN allocs : allocs[i].block = k
NoBlockInVain == \A k \in DOMAIN blocks : Holds(k) \/ (k = Len(blocks) /\ Pending)

(* What arena_alloc_aligned returns is aligned, lies inside its block and  *)
(* overlaps nothing returned before; and the block that it makes is large  *)
(* enough at the worst alignment, or its loop would make blocks for ever.  *)
AllocationsApart ==
    /\ NoBlockInVain
    /\ \A i \in DOMAIN allocs :
           LET a == allocs[i]
           IN  /\ Inside(a) /\ (blocks[a.block].base + a.offset) % a.align = 0
               /\ \A j \in DOMAIN allocs : (i < j /\ allocs[j].block = a.block) =>
                      allocs[j].offset >= a.offset + a.size
=============================================================================
