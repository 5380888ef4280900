------------------------------ MODULE History ------------------------------
(***************************************************************************)
(* Builder with a history variable: the routes that wrouter_add_route has  *)
(* accepted, in the order in which it did.  The tree is compared with the  *)
(* one computed from that list alone.                                      *)
(***************************************************************************)
EXTENDS Builder

VARIABLE log    \* the routes accepted so far, each with its context

LogInit == Init /\ log = <<>>

Accepts == Walking /\ rest' = <<>> /\ err' = "OK"

LogNext ==
    /\ Next
    /\ log' = IF Accepts THEN Append(log, <<RouteOf(cur \o rest), route>>) ELSE log

LogSpec == LogInit /\ [][LogNext]_<<vars, log>>

LoggedRoutes   == [i \in DOMAIN log |-> log[i][1]]
LoggedContexts == [i \in DOMAIN log |-> log[i][2]]

(* The tree depends on nothing but the routes accepted and their order: no *)
(* trace is left of the segments that other calls walked through, and the  *)
(* children of a segment, which are searched and compiled in their order   *)
(* (builder_append_child), stand in the order in which a route first       *)
(* needed them.                                                            *)
TreeIsCanonical ==
    (~Walking /\ ~corrupted) => tree = TreeOf(LoggedRoutes, LoggedContexts)
=============================================================================
