----------------------------- MODULE MCHandlers -----------------------------
(* A small instance of Handlers for TLC: no parameters, two of one name, a    *)
(* set that fills the limit exactly, and one that passes it with its value.  *)
EXTENDS Handlers
RequestsDef == 1..4
CharsDef == {"i", "n", "o", "_", "a", "b", "c", "x"}
P(n, v) == [name |-> n, value |-> v]
BindingsDef == << <<>>,
                  << P(<<"i">>, <<"a">>), P(<<"i">>, <<"b">>) >>,
                  << P(<<"n", "o">>, <<"x">>), P(<<"_">>, <<>>), P(<<"i">>, <<>>) >>,
                  << P(<<"i">>, <<"a", "b", "c">>), P(<<"o">>, <<"a", "b", "c">>) >> >>
=============================================================================
