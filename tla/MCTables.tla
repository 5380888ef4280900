------------------------------ MODULE MCTables ------------------------------
(* Small instances of Arena and Symbols for TLC.  The client of the arena is  *)
(* a program, which makes aligned allocations, or a symbol table, with        *)
(* strings of up to three bytes, some above 127, prefixes of each other       *)
(* included.                                                                  *)
EXTENDS Symbols

VARIABLE client

StringsDef == {<<97>>, <<200>>, <<97, 97>>, <<97, 200>>, <<200, 97>>, <<98, 97, 98>>}
BasesDef == {0, 2}

TablesInit == SymbolsInit /\ client \in {"program", "table"}
TablesNext ==
    /\ \/ client = "table" /\ SymbolsNext
       \/ /\ client = "program" /\ ArenaNext
          /\ UNCHANGED <<base, capacity, memory, wanted, errors, list, region>>
    /\ UNCHANGED client

TablesSpec == TablesInit /\ [][TablesNext]_<<symbolVars, client>>

FewAllocs == client = "program" => Len(allocs) <= 4
=============================================================================
