------------------------------- MODULE Symbols -------------------------------
(***************************************************************************)
(* symbol.c: a growing table of strings over an arena (symbol_table_t),    *)
(* and the sorted list in one region that symbol_compile makes of it       *)
(* (symbols_t).  A string is a sequence of bytes 1..255; the NUL behind it *)
(* is 0.                                                                   *)
(***************************************************************************)
EXTENDS Arena

CONSTANTS Strings,     \* the names that are appended and looked up
          MaxSymbols,  \* UINT16_MAX
          Capacity0    \* the first capacity of a table, 1024
ASSUME SymbolsAssumption == /\ Strings \subseteq Seq(1..255) \ {<<>>}
                            /\ MaxSymbols \in Nat /\ Capacity0 \in Nat \ {0}

VARIABLES base, capacity,  \* symbol_table_t; a slot holds the number of an
                           \* allocation, 0 before it is filled
          memory,          \* the string in each allocation
          wanted,          \* symbol_append: the string whose allocation is awaited
          errors,          \* whether a call has failed: the builder is corrupted
          list, region     \* symbols_t: offsets into the region, and its bytes

symbolVars == <<arenaVars, base, capacity, memory, wanted, errors, list, region>>

NoString == <<>>
Appending == wanted # NoString
Open == ~Appending /\ ~errors /\ region = <<>>

SymbolsInit ==
    /\ ArenaInit
    /\ base = <<>> /\ capacity = 0 /\ memory = <<>>
    /\ wanted = NoString /\ errors = FALSE
    /\ list = <<>> /\ region = <<>>

Known(s) == \E i \in DOMAIN base : memory[base[i]] = s

-----------------------------------------------------------------------------
(* symbol_append, for a builder that makes no call after one that failed.  *)
(* The count is tested before the duplicates.                              *)
AppendRefused(s) ==
    /\ Open /\ Len(base) >= MaxSymbols
    /\ errors' = TRUE
    /\ UNCHANGED <<arenaVars, base, capacity, memory, wanted, list, region>>

AppendDuplicate(s) ==
    /\ Open /\ Len(base) < MaxSymbols /\ Known(s)
    /\ UNCHANGED symbolVars

(* Mutant: no room for the terminator.                                     *)
AppendSlotShort(s) ==
    /\ Open /\ Len(base) < MaxSymbols /\ ~Known(s)
    /\ capacity' = IF Len(base) + 1 <= capacity THEN capacity
                   ELSE IF capacity = 0 THEN Capacity0 ELSE capacity * 2
    /\ base' = Append(base, 0) /\ wanted' = s
    /\ Alloc(Len(s), 1)
    /\ UNCHANGED <<memory, errors, list, region>>

(* symbol_table_next_slot: the slot is counted now, filled when the arena  *)
(* has answered.                                                           *)
AppendSlot(s) ==
    /\ Open /\ Len(base) < MaxSymbols /\ ~Known(s)
    /\ capacity' = IF Len(base) + 1 <= capacity THEN capacity
                   ELSE IF capacity = 0 THEN Capacity0 ELSE capacity * 2
    /\ base' = Append(base, 0) /\ wanted' = s
    /\ Alloc(Len(s) + 1, 1)
    /\ UNCHANGED <<memory, errors, list, region>>

NoSlot(s) ==
    /\ Open /\ Len(base) < MaxSymbols /\ ~Known(s)
    /\ MallocFails /\ Len(base) + 1 > capacity
    /\ errors' = TRUE
    /\ UNCHANGED <<arenaVars, base, capacity, memory, wanted, list, region>>

ArenaGrows == Extend /\ UNCHANGED <<base, capacity, memory, wanted, errors, list, region>>

Fill ==
    /\ Take
    /\ base' = [base EXCEPT ![Len(base)] = Len(allocs) + 1]
    /\ memory' = Append(memory, wanted)
    /\ wanted' = NoString
    /\ UNCHANGED <<capacity, errors, list, region>>

(* Mutant: the failure is not reported.                                    *)
NoRoomUnreported ==
    /\ Fail
    /\ wanted' = NoString
    /\ UNCHANGED <<base, capacity, memory, errors, list, region>>

(* The slot stays, counted and not filled.                                 *)
NoRoom ==
    /\ Fail
    /\ wanted' = NoString /\ errors' = TRUE
    /\ UNCHANGED <<base, capacity, memory, list, region>>

-----------------------------------------------------------------------------
Byte(s, i) == IF i \in DOMAIN s THEN s[i] ELSE 0
Differ(a, b) == Min({i \in 1..(Len(a) + 1) : i > Len(a) \/ Byte(a, i) # Byte(b, i)})

(* strcmp, by which qsort sorts.                                           *)
Precedes(a, b) == Byte(a, Differ(a, b)) < Byte(b, Differ(a, b))

(* qsort: the string that i - 1 others precede goes to place i.            *)
Sorted(S) ==
    LET before(s) == Cardinality({r \in S : Precedes(r, s)})
    IN  [i \in 1..Cardinality(S) |-> CHOOSE s \in S : before(s) = i - 1]

(* symbol_compile: the strings in order, each with its NUL, one behind the *)
(* other, and the offsets of their first bytes.                            *)
Compile ==
    /\ Open /\ base # <<>>
    /\ LET names  == Sorted({memory[base[i]] : i \in DOMAIN base})
           nul(i) == Append(names[i], 0)
       IN  /\ region' = FlattenSeq([i \in DOMAIN names |-> nul(i)])
           /\ list' = [i \in DOMAIN names |->
                          Len(FlattenSeq([j \in 1..(i - 1) |-> nul(j)])) + 1]
    /\ UNCHANGED <<arenaVars, base, capacity, memory, wanted, errors>>

(* symbol_table_free; the compiled list stays.                             *)
FreeTable ==
    /\ ~Appending /\ (region # <<>> \/ errors)
    /\ ArenaFree
    /\ base' = <<>> /\ capacity' = 0 /\ memory' = <<>>
    /\ UNCHANGED <<wanted, errors, list, region>>

SymbolsNext ==
    \/ \E s \in Strings : \/ AppendRefused(s) \/ AppendDuplicate(s)
                          \/ AppendSlot(s) \/ NoSlot(s)
    \/ ArenaGrows \/ Fill \/ NoRoom \/ Compile \/ FreeTable

SymbolsSpec == SymbolsInit /\ [][SymbolsNext]_symbolVars
-----------------------------------------------------------------------------
(* The string that starts at an offset of the region.                      *)
StringAt(o) == SubSeq(region, o, Min({i \in o..Len(region) : region[i] = 0}) - 1)
Listed == [i \in DOMAIN list |-> StringAt(list[i])]

(* Mutant: bytes are compared as signed characters.                        *)
symbol_ncompareSigned(key, sym) ==
    LET i == Differ(key, sym)
        signed(b) == IF b > 127 THEN b - 256 ELSE b
    IN  signed(Byte(key, i)) - signed(Byte(sym, i))

(* A key with a length against a string with a terminator.                 *)
symbol_ncompare(key, sym) ==
    LET i == Differ(key, sym)
    IN  IF i > Len(key) THEN -Byte(sym, i) ELSE key[i] - Byte(sym, i)

symbol_compare(key, sym) == Byte(key, Differ(key, sym)) - Byte(sym, Differ(key, sym))

(* bsearch of libc: the place of the 0 among the comparisons of the key    *)
(* with every element, or 0.                                               *)
Search(comparisons) ==
    LET n == Len(comparisons)
        find[range \in (0..n) \X (0..n)] ==
            LET low == range[1]
                high == range[2]
                mid == (low + high) \div 2
            IN  IF low >= high THEN 0
                ELSE IF comparisons[mid + 1] < 0 THEN find[<<low, mid>>]
                ELSE IF comparisons[mid + 1] > 0 THEN find[<<mid + 1, high>>]
                ELSE mid + 1
    IN  find[<<0, n>>]

symbol_nresolve(key) == Search([i \in DOMAIN list |-> symbol_ncompare(key, Listed[i])])
symbol_resolve(key) == Search([i \in DOMAIN list |-> symbol_compare(key, Listed[i])])
symbol_lookup(symbol) == Listed[symbol]

-----------------------------------------------------------------------------
(* Every slot that the duplicate search of a later symbol_append, or a     *)
(* symbol_compile, can read has been filled, with a name of its own; and   *)
(* the slots counted fit the table.                                        *)
SlotsFilled ==
    /\ Len(base) <= capacity
    /\ Open => /\ \A i \in DOMAIN base : base[i] # 0
               /\ IsInjective([i \in DOMAIN base |-> memory[base[i]]])

(* symbol_compile writes its region, sized by arena_used, to the last byte *)
(* and not beyond.                                                         *)
RegionFilledExactly ==
    (region # <<>> /\ base # <<>>) => Len(region) = arena_used

(* Both searches find a string in the compiled list if and only if it was  *)
(* appended, and lookup gives it back: the sort by strcmp, the comparison  *)
(* functions and bsearch agree, on bytes above 127 too, and after the      *)
(* table is freed.                                                         *)
ResolvesExactly ==
    region # <<>> => \A s \in Strings :
        /\ symbol_nresolve(s) = symbol_resolve(s)
        /\ symbol_nresolve(s) # 0 => symbol_lookup(symbol_nresolve(s)) = s
        /\ base # <<>> => (symbol_nresolve(s) # 0 <=> Known(s))
=============================================================================
