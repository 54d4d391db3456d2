---------------------------- MODULE MCDbManager -----------------------------
(***************************************************************************)
(* DbManager for TLC: bounds and symmetry of its instances.                *)
(***************************************************************************)
EXTENDS DbManager, TLC

\* Bounds on the calls: two registrations are what it takes to have two
\* clients, or the same one twice.
TwoEach == [t \in Threads |-> 2]
OneEach == [t \in Threads |-> IF t = Greeter THEN 3 ELSE 1]

Symmetry == Permutations(Clients) \cup Permutations(Threads \ {Greeter})
=============================================================================
