---------------------------- MODULE MCDispatcher ----------------------------
(***************************************************************************)
(* Dispatcher for TLC.                                                     *)
(***************************************************************************)
EXTENDS Dispatcher, TLC

CONSTANTS c1, c2

Line(type, receiver, amount) ==
  [type |-> type, receiver |-> receiver, transfer_amount |-> amount]
Kill == Line("KILL", NoClient, 0)

\* One user makes two transfers, enough money for both or, when the first is
\* made twice, for none but it, and stays.  The other types in something that is
\* no request and leaves: before, between or after the transfers.
Uneven ==
  c1 :> <<Line("REQ", c2, 1), Line("REQ", c2, 1)>>
    @@ c2 :> <<Line("ERROR", NoClient, 0), Kill>>
=============================================================================
