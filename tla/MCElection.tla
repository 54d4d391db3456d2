----------------------------- MODULE MCElection -----------------------------
(***************************************************************************)
(* Instances of Election for TLC.  A pair of servers on a network that may *)
(* do anything to their messages, and a trio on a network that is fast     *)
(* compared with the timeouts of the code (10 ms) and loses nothing.       *)
(***************************************************************************)
EXTENDS Election

Pair == {1, 2}
Trio == {1, 2, 3}

\* Everything that may go wrong, in any order, up to MaxFaults times.
EveryFault == {"crash", "loss", "suspicion", "clock"}
NoFault == {}

\* coordinator_ip is zero, or whatever the heap held, until it is assigned.
Zero == {NoServer}
ZeroOrGarbage == {NoServer, Nobody}

=============================================================================
