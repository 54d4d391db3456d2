------------------------------ MODULE Requests ------------------------------
(***************************************************************************)
(* What a Brix client promises its user: the requests are worked off in    *)
(* the order in which they were typed in, each one until it is done or     *)
(* given up.  A transfer is made once, and once more for every answer to   *)
(* it that got lost; one that is done has been made, and one that is given *)
(* up has been made no more often than answers to it got lost.             *)
(***************************************************************************)
EXTENDS Naturals, Sequences

CONSTANTS
  Clients,            \* client addresses
  Program             \* what the user of each client types in

VARIABLES
  made,               \* how often each request has moved money
  lost,               \* how many answers that reported so got lost
  outcome             \* of each request

vars == <<made, lost, outcome>>

Lines(c) == DOMAIN Program[c]

Init ==
  /\ made = [c \in Clients |-> [i \in Lines(c) |-> 0]]
  /\ lost = [c \in Clients |-> [i \in Lines(c) |-> 0]]
  /\ outcome = [c \in Clients |-> [i \in Lines(c) |-> "pending"]]

Transfer(c, i) == Program[c][i].type = "REQ" /\ Program[c][i].transfer_amount > 0

HasTurn(c, i) ==
  /\ outcome[c][i] = "pending"
  /\ \A j \in 1 .. (i - 1) : outcome[c][j] # "pending"

Ends(c, i, how) ==
  /\ outcome' = [outcome EXCEPT ![c][i] = how]
  /\ UNCHANGED <<made, lost>>

Refuse(c, i) == Program[c][i].type = "ERROR" /\ Ends(c, i, "refused")

Make(c, i) ==
  /\ HasTurn(c, i) /\ Transfer(c, i)
  /\ made[c][i] = lost[c][i]
  /\ made' = [made EXCEPT ![c][i] = @ + 1]
  /\ UNCHANGED <<lost, outcome>>

LoseAnswer(c, i) ==
  /\ HasTurn(c, i)
  /\ lost[c][i] < made[c][i]
  /\ lost' = [lost EXCEPT ![c][i] = @ + 1]
  /\ UNCHANGED <<made, outcome>>

Finish(c, i) ==
  /\ HasTurn(c, i)
  /\ Transfer(c, i) => made[c][i] > lost[c][i]
  /\ Ends(c, i, "done")

GiveUp(c, i) ==
  /\ HasTurn(c, i)
  /\ made[c][i] = lost[c][i]
  /\ Ends(c, i, "given up")

Next ==
  \E c \in Clients : \E i \in Lines(c) :
    Refuse(c, i) \/ Make(c, i) \/ LoseAnswer(c, i) \/ Finish(c, i) \/ GiveUp(c, i)

Spec == Init /\ [][Next]_vars
=============================================================================
