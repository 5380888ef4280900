----------------------------- MODULE Ownership -----------------------------
(***************************************************************************)
(* The promise to clients: at every moment a context is retained exactly   *)
(* as often as the builder and the routers of the client hold it.          *)
(***************************************************************************)
EXTENDS Api

CONSTANTS Fallback, Routers

VARIABLES lib,       \* the builder
          routers,   \* per router, whether it is live and what it holds
          refs,      \* per context, retain calls less release calls
          died       \* what the process died of

ownVars == <<lib, routers, refs, died>>

NoRouter == [live |-> FALSE, held |-> Nothing]

Balance(b, rs) ==
    [c \in Contexts |-> IF Counting THEN b.held[c] + MapThenSumSet(LAMBDA r : rs[r].held[c], Routers)
                        ELSE 0]

OwnInit ==
    /\ lib = NoBuilder /\ routers = [r \in Routers |-> NoRouter]
    /\ refs = Nothing /\ died = "none"

CreateOrFail ==
    /\ ~lib.open
    /\ lib' \in {NewBuilder(Fallback)} \cup (IF AllocFails THEN {lib} ELSE {})
    /\ UNCHANGED routers

Add == 
    /\ lib.open
    /\ lib' \in (UNION {Added(lib, c) : c \in Contexts}) \cup Spoilt(lib)
    /\ UNCHANGED routers

Free ==
    /\ lib.open /\ FreeFault(lib) = "none"
    /\ lib' = NoBuilder
    /\ UNCHANGED routers

Compile(r) ==
    /\ lib.open /\ ~lib.corrupted /\ ~routers[r].live
    /\ routers' = [routers EXCEPT ![r] = [live |-> TRUE, held |-> lib.held]]
    /\ UNCHANGED lib

FreeRouter(r) ==
    /\ routers[r].live
    /\ routers' = [routers EXCEPT ![r] = NoRouter]
    /\ UNCHANGED lib

Works ==
    /\ CreateOrFail \/ Add \/ Free \/ \E r \in Routers : Compile(r) \/ FreeRouter(r)
    /\ refs' = Balance(lib', routers')
    /\ UNCHANGED died

(* A process may only die where the library has one of its known faults.   *)
Dies ==
    /\ \/ ~lib.open /\ AllocFails /\ died' \in CreateFaults
       \/ lib.open /\ died' \in {FreeFault(lib)} \cup CompileFaults(lib)
    /\ died' # "none"
    /\ UNCHANGED refs

OwnNext == died = "none" /\ (Works \/ Dies)
OwnSpec == OwnInit /\ [][OwnNext]_ownVars
=============================================================================
