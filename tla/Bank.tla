-------------------------------- MODULE Bank --------------------------------
(***************************************************************************)
(* What the account database of a Brix server promises, whatever threads   *)
(* call it: accounts open with a fixed balance, money moves between two    *)
(* open accounts in one indivisible step and never beyond what the sender  *)
(* has, and an account closes with whatever it holds.                      *)
(***************************************************************************)
EXTENDS Naturals

CONSTANTS
  Clients,            \* client addresses, the keys of the database
  Amounts,            \* transfer amounts a request can carry
  STARTING_BALANCE    \* balance of a new account

VARIABLES
  accounts,           \* the clients that have an account
  balance             \* balance of each client's account

vars == <<accounts, balance>>

Init ==
  /\ accounts = {}
  /\ balance = [c \in Clients |-> 0]

Open(c) ==
  /\ c \notin accounts
  /\ accounts' = accounts \cup {c}
  /\ balance' = [balance EXCEPT ![c] = STARTING_BALANCE]

Transfer(from, to, a) ==
  /\ {from, to} \subseteq accounts
  /\ from # to
  /\ 0 < a /\ a <= balance[from]
  /\ balance' = [balance EXCEPT ![from] = @ - a, ![to] = @ + a]
  /\ UNCHANGED accounts

Close(c) ==
  /\ c \in accounts
  /\ accounts' = accounts \ {c}
  /\ UNCHANGED balance

Next ==
  \/ \E c \in Clients : Open(c) \/ Close(c)
  \/ \E from, to \in Clients, a \in Amounts : Transfer(from, to, a)

Spec == Init /\ [][Next]_vars
=============================================================================
