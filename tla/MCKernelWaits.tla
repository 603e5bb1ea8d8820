---------------------------- MODULE MCKernelWaits ----------------------------
(***************************************************************************)
(* Two threads that each wait for all of the same two mutants, and name     *)
(* them in opposite orders.                                                 *)
(***************************************************************************)
EXTENDS KernelWaits

Mutants == {"m1", "m2"}
EachMutant == [o \in Mutants |-> "mutant"]
NoLimit == [o \in Mutants |-> 0]

ForAll(objects) == [api |-> "nt-all", objects |-> objects, timed |-> FALSE]
OppositeOrders == {ForAll(<<"m1", "m2">>), ForAll(<<"m2", "m1">>)}

=============================================================================
