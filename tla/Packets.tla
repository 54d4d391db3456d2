------------------------------ MODULE Packets -------------------------------
(***************************************************************************)
(* The datagrams between a Brix client and a server.  All of them are      *)
(* text; parsing gives back the fields that printing wrote, and a datagram *)
(* has the address of its sender.  The client's address and amount, the    *)
(* account's balance and the server's address are printed in some of them  *)
(* and looked at by nobody.  A packet is a record with the fields that are *)
(* looked at.                                                              *)
(***************************************************************************)
EXTENDS Integers

\* id tells which request of the user a packet carries: it is not in the
\* datagram, and no step of a server or a client depends on it.
REQ(from, seq_num, receiver, transfer_amount, id) ==
  [type |-> "REQ", from |-> from, seq_num |-> seq_num, receiver |-> receiver,
   transfer_amount |-> transfer_amount, id |-> id]

\* A KIL packet carries no number; the one it is parsed to is -1.
KIL(from) == [type |-> "KIL", from |-> from, seq_num |-> -1]

\* id is the one of the request that is answered.
ACK(to, seq_num, result, id) ==
  [type |-> "ACK", to |-> to, seq_num |-> seq_num, result |-> result, id |-> id]

\* Discovery: a client asks for the coordinator, which answers with its address.
DIS(from) == [type |-> "DIS", from |-> from]
LOC(to)   == [type |-> "LOC", to |-> to]

\* The client that sent a datagram, or that it is sent to.
Client(m) == IF m.type \in {"ACK", "LOC"} THEN m.to ELSE m.from

=============================================================================
