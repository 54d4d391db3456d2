--------------------------- MODULE RequestServer ----------------------------
(***************************************************************************)
(* A Brix server as its clients see it: the greeter, which registers       *)
(* whoever looks for a server, the multiplexer, which starts a detached    *)
(* thread for every packet, and the threads that process REQ and KIL       *)
(* packets.  Here the clients send anything, in any order and any number   *)
(* of copies; Dispatcher composes the server with clients as they are.     *)
(*                                                                         *)
(* The operations of the database are the indivisible steps of Bank, which *)
(* DbManager implements.  What is left of their interleaving is what a     *)
(* request does with several of them: the number of a packet is checked on *)
(* a copy of the record, the transaction looks the record up again, and    *)
(* the record it returns is read after the locks are gone.                 *)
(***************************************************************************)
EXTENDS Packets, FiniteSets

CONSTANTS
  Clients,            \* client addresses
  NoClient,           \* the greeter is waiting, or no KIL packet came yet
  Threads,            \* packet threads that can run at the same time
  Amounts,            \* amounts a REQ packet can carry
  STARTING_BALANCE,
  Garbage,            \* number read from a freed record
  MaxNumber,          \* bound on the sequence numbers clients send
  MaxSends,           \* bound on the number of packets they send
  MaxNet              \* bound on the datagrams under way at the same time

ASSUME ServerAssumption ==
  /\ NoClient \notin Clients
  /\ Amounts \subseteq Nat
  /\ STARTING_BALANCE \in Nat
  /\ Garbage \in Int
  /\ MaxNumber \in Nat /\ MaxSends \in Nat /\ MaxNet \in Nat

VARIABLES
  accounts,           \* registered clients
  balance,            \* their balances, 0 without an account
  last_request,       \* and the last_request fields of their records
  num_transactions,
  is_coordinator,     \* what the election says, read by the greeter only
  greeting,           \* client the greeter has registered and not yet answered
  kill_params,        \* the KIL parameters on the stack of the multiplexer
  pc,                 \* where each packet thread is
  packet,             \* packet each thread works on
  result,             \* result its answer will have
  number,             \* last_request as it read it, then seq_num of its answer
  dangling,           \* threads whose pointer to a record outlived the record
  alive,              \* FALSE once an exception nobody catches ends the server
  net,                \* datagrams on the way to the server or to a client
  published,          \* num_transactions of the newest snapshot that was broadcast
  transfer,           \* history: num_transactions after each thread's transfer
  moved,              \* history: transfers with each number since registration
  killed,             \* history: clients whose KIL packet was received
  overlapped,         \* history: two handlers worked for the same client at once
  sends               \* packets sent so far

db      == <<accounts, balance, last_request, num_transactions>>
threads == <<pc, packet, result, number, dangling>>
hist    == <<transfer, moved, killed>>
vars    == <<db, is_coordinator, greeting, kill_params, threads, alive, net,
             published, hist, overlapped, sends>>

Numbers == 1 .. MaxNumber

Init ==
  /\ accounts = {}
  /\ balance = [c \in Clients |-> 0]
  /\ last_request = [c \in Clients |-> 0]
  /\ num_transactions = 0
  /\ is_coordinator \in BOOLEAN
  /\ greeting = NoClient
  /\ kill_params = KIL(NoClient)
  /\ pc = [t \in Threads |-> "idle"]
  /\ packet = [t \in Threads |-> KIL(NoClient)]
  /\ result = [t \in Threads |-> "NONE"]
  /\ number = [t \in Threads |-> 0]
  /\ dangling = {}
  /\ alive = TRUE
  /\ net = {}
  /\ published = 0
  /\ transfer = [t \in Threads |-> 0]
  /\ moved = [c \in Clients |-> [n \in Numbers |-> 0]]
  /\ killed = {}
  /\ overlapped = FALSE
  /\ sends = 0

-----------------------------------------------------------------------------
(* The greeter (server_discovery_service).                                 *)

\* register_client; a client that is registered keeps its record.
Register(c) ==
  IF c \in accounts
    THEN UNCHANGED db
    ELSE /\ accounts' = accounts \cup {c}
         /\ balance' = [balance EXCEPT ![c] = STARTING_BALANCE]
         /\ last_request' = [last_request EXCEPT ![c] = 0]
         /\ UNCHANGED num_transactions

Greet(m) ==
  /\ m.type = "DIS" /\ greeting = NoClient
  /\ net' = net \ {m}
  /\ IF is_coordinator
       THEN Register(m.from) /\ greeting' = m.from
       ELSE UNCHANGED <<db, greeting>>
  /\ UNCHANGED <<is_coordinator, kill_params, threads, alive, published, hist, sends>>

\* What it broadcasts was copied before it answers.
GreeterAnswer ==
  /\ greeting # NoClient
  /\ net' = net \cup {LOC(greeting)}
  /\ published' \in published .. num_transactions
  /\ greeting' = NoClient
  /\ UNCHANGED <<db, is_coordinator, kill_params, threads, alive, hist, sends>>

\* The election promotes or demotes the server.
RoleChange ==
  /\ is_coordinator' = ~ is_coordinator
  /\ UNCHANGED <<db, greeting, kill_params, threads, alive, net, published, hist, sends>>

-----------------------------------------------------------------------------
(* The multiplexer (packet_multiplexer).                                   *)

\* Mutant: REQ threads use the place of the KIL parameters as well.
StartRequest_SharedParams(t, m) ==
  /\ m.type = "REQ" /\ pc[t] = "idle"
  /\ net' = net \ {m}
  /\ kill_params' = KIL(m.from)
  /\ pc' = [pc EXCEPT ![t] = "check"]
  /\ packet' = [packet EXCEPT ![t] = m]
  /\ UNCHANGED <<db, is_coordinator, greeting, result, number, dangling, alive, published,
                 hist, sends>>

\* A REQ thread owns its parameters, a KIL thread gets a pointer to those on
\* the stack of the loop, which keeps one place for them.
StartRequest(t, m) ==
  /\ m.type = "REQ" /\ pc[t] = "idle"
  /\ net' = net \ {m}
  /\ pc' = [pc EXCEPT ![t] = "check"]
  /\ packet' = [packet EXCEPT ![t] = m]
  /\ UNCHANGED <<db, is_coordinator, greeting, kill_params, result, number, dangling,
                 alive, published, hist, sends>>

StartKill(t, m) ==
  /\ m.type = "KIL" /\ pc[t] = "idle"
  /\ net' = net \ {m}
  /\ kill_params' = m
  /\ killed' = killed \cup {m.from}
  /\ pc' = [pc EXCEPT ![t] = "params"]
  /\ packet' = [packet EXCEPT ![t] = m]
  /\ UNCHANGED <<db, is_coordinator, greeting, result, number, dangling, alive, published,
                 transfer, moved, sends>>

-----------------------------------------------------------------------------
(* process_req_packet                                                      *)

Goto(t, label) == pc' = [pc EXCEPT ![t] = label]
Result(t, r)   == result' = [result EXCEPT ![t] = r]

\* Mutant: a packet from the future is let through.
check_packet_status_Ahead(n, last) == IF n < last + 1 THEN "DUPLICATE" ELSE "VALID"

\* check_packet_status of a packet with number n against the record that was
\* read; without a record get_client_info returns an empty one.
check_packet_status(n, last) ==
  IF n = last + 1 THEN "VALID" ELSE IF n < last + 1 THEN "DUPLICATE" ELSE "OUT_OF_ORDER"

CheckPacket(t) ==
  /\ pc[t] = "check"
  /\ LET c      == packet[t].from
         last   == IF c \in accounts THEN last_request[c] ELSE 0
         status == check_packet_status(packet[t].seq_num, last)
     IN /\ Result(t, status)
        /\ number' = [number EXCEPT ![t] = last]
        /\ Goto(t, IF status = "VALID" THEN "transaction" ELSE "reply")
  /\ UNCHANGED <<db, is_coordinator, greeting, kill_params, packet, dangling, alive,
                 net, published, hist, sends>>

\* Mutant: the balance is not looked at.
Outcome_NoBalanceCheck(from, to, a) ==
  IF from \notin accounts THEN "SENDER_NOT_REGISTERED"
  ELSE IF to \notin accounts THEN "RECEIVER_NOT_REGISTERED" ELSE "SUCCESS"

\* The outcome of make_transaction, as process_db_transaction words it.
Outcome(from, to, a) ==
  CASE from \notin accounts -> "SENDER_NOT_REGISTERED"
    [] from \in accounts /\ a = 0 -> "BALANCE_CHECK"
    [] from \in accounts /\ a # 0 /\ from = to -> "BAD_REQUEST"
    [] from \in accounts /\ a # 0 /\ from # to /\ to \notin accounts -> "RECEIVER_NOT_REGISTERED"
    [] OTHER -> IF balance[from] < a THEN "INSUFFICIENT_BALANCE" ELSE "SUCCESS"

\* make_transaction up to the release of its locks: it counts the request and
\* moves the money, whatever the number of the packet is by now.
Transaction(t) ==
  LET c == packet[t].from
      r == packet[t].receiver
      a == packet[t].transfer_amount
      n == packet[t].seq_num
      outcome == Outcome(c, r, a)
  IN /\ pc[t] = "transaction"
     /\ Result(t, outcome)
     /\ last_request' = IF outcome \in {"SUCCESS", "INSUFFICIENT_BALANCE"}
                          THEN [last_request EXCEPT ![c] = @ + 1] ELSE last_request
     /\ IF outcome = "SUCCESS"
          THEN /\ balance' = [balance EXCEPT ![c] = @ - a, ![r] = @ + a]
               /\ num_transactions' = num_transactions + 1
               /\ moved' = [moved EXCEPT ![c][n] = @ + 1]
               /\ transfer' = [transfer EXCEPT ![t] = num_transactions']
          ELSE UNCHANGED <<balance, num_transactions, moved, transfer>>
     /\ number' = [number EXCEPT ![t] =
          IF outcome = "RECEIVER_NOT_REGISTERED" THEN last_request[c] ELSE 0]
     /\ Goto(t, IF outcome \in {"SENDER_NOT_REGISTERED", "RECEIVER_NOT_REGISTERED"}
                  THEN "reply" ELSE "record")
     /\ UNCHANGED <<accounts, is_coordinator, greeting, kill_params, packet, dangling, alive,
                    net, published, killed, sends>>

\* The sender's record, read with no lock held: through a pointer when the
\* request was counted, else by a search that throws when there is none.
TakeRecord(t) ==
  LET c == packet[t].from IN
  /\ pc[t] = "record"
  /\ IF result[t] \in {"SUCCESS", "INSUFFICIENT_BALANCE"} \/ c \in accounts
       THEN /\ \E n \in {last_request[c]} \cup {g \in {Garbage} : t \in dangling} :
                 number' = [number EXCEPT ![t] = n]
            /\ Goto(t, IF result[t] = "SUCCESS" THEN "publish" ELSE "reply")
            /\ UNCHANGED alive
       ELSE alive' = FALSE /\ UNCHANGED <<pc, number>>
  /\ dangling' = dangling \ {t}
  /\ UNCHANGED <<db, is_coordinator, greeting, kill_params, packet, result, net, published,
                 hist, sends>>

\* Mutant: the snapshot was taken before the transfer.
Publish_OldSnapshot(t) ==
  /\ pc[t] = "publish"
  /\ published' = num_transactions - 1
  /\ Goto(t, "reply")
  /\ UNCHANGED <<db, is_coordinator, greeting, kill_params, packet, result, number, dangling,
                 alive, net, hist, sends>>

\* Only a transfer is broadcast, and before it is answered.
Publish(t) ==
  /\ pc[t] = "publish"
  /\ published' = num_transactions
  /\ Goto(t, "reply")
  /\ UNCHANGED <<db, is_coordinator, greeting, kill_params, packet, result, number, dangling,
                 alive, net, hist, sends>>

Finish(t, answer) ==
  /\ net' = net \cup {answer}
  /\ Goto(t, "idle")
  /\ packet' = [packet EXCEPT ![t] = KIL(NoClient)]
  /\ Result(t, "NONE")
  /\ number' = [number EXCEPT ![t] = 0]
  /\ transfer' = [transfer EXCEPT ![t] = 0]

Reply(t) ==
  /\ pc[t] = "reply"
  /\ Finish(t, ACK(packet[t].from, number[t], result[t], packet[t].id))
  /\ UNCHANGED <<db, is_coordinator, greeting, kill_params, dangling, alive, published,
                 moved, killed, sends>>

-----------------------------------------------------------------------------
(* process_kill_packet                                                     *)

CopyParams(t) ==
  /\ pc[t] = "params"
  /\ packet' = [packet EXCEPT ![t] = kill_params]
  /\ Goto(t, "remove")
  /\ UNCHANGED <<db, is_coordinator, greeting, kill_params, result, number, dangling, alive,
                 net, published, hist, sends>>

RemoveClient(t) ==
  LET c == packet[t].from IN
  /\ pc[t] = "remove"
  /\ Result(t, IF c \in accounts THEN "KILL" ELSE "SENDER_NOT_REGISTERED")
  /\ accounts' = accounts \ {c}
  /\ balance' = [balance EXCEPT ![c] = 0]
  /\ moved' = [moved EXCEPT ![c] = [n \in Numbers |-> 0]]
  /\ dangling' = dangling \cup
       {u \in Threads : c \in accounts /\ pc[u] = "record" /\ packet[u].from = c}
  /\ Goto(t, "kill_reply")
  /\ UNCHANGED <<last_request, num_transactions, is_coordinator, greeting, kill_params,
                 packet, number, alive, net, published, transfer, killed, sends>>

\* The removal is broadcast after it has been answered.
KillReply(t) ==
  /\ pc[t] = "kill_reply"
  /\ Finish(t, ACK(packet[t].from, packet[t].seq_num, result[t], 0))
  /\ published' = IF result[t] = "KILL" THEN num_transactions ELSE published
  /\ UNCHANGED <<db, is_coordinator, greeting, kill_params, dangling, alive, moved, killed,
                 sends>>

-----------------------------------------------------------------------------
(* Clients that send anything.                                             *)

Send(m) ==
  /\ sends < MaxSends /\ Cardinality(net) < MaxNet
  /\ sends' = sends + 1
  /\ net' = net \cup {m}
  /\ UNCHANGED <<db, is_coordinator, greeting, kill_params, threads, alive, published, hist>>

\* A datagram is lost, or an answer taken by its client.
Drop(m) ==
  /\ net' = net \ {m}
  /\ UNCHANGED <<db, is_coordinator, greeting, kill_params, threads, alive, published, hist, sends>>

ClientStep ==
  \/ \E c \in Clients : Send(DIS(c)) \/ Send(KIL(c))
  \/ \E c, r \in Clients, n \in Numbers, a \in Amounts : Send(REQ(c, n, r, a, n))
  \/ \E m \in net : Drop(m)

-----------------------------------------------------------------------------
ThreadStep(t) ==
  \/ CheckPacket(t) \/ Transaction(t) \/ TakeRecord(t) \/ Publish(t) \/ Reply(t)
  \/ CopyParams(t) \/ RemoveClient(t) \/ KillReply(t)

GreeterStep == (\E m \in net : Greet(m)) \/ GreeterAnswer

Multiplex(t) == \E m \in net : StartRequest(t, m) \/ StartKill(t, m)

\* Two handlers work for the same client.
Overlap ==
  \E t \in Threads :
    /\ pc[t] # "idle"
    /\ \/ greeting = packet[t].from
       \/ \E u \in Threads \ {t} : pc[u] # "idle" /\ packet[u].from = packet[t].from

ServerStep ==
  /\ alive
  /\ GreeterStep \/ \E t \in Threads : Multiplex(t) \/ ThreadStep(t)
  /\ overlapped' = (overlapped \/ Overlap')

Next ==
  \/ ServerStep
  \/ (ClientStep \/ RoleChange) /\ UNCHANGED overlapped

Spec == Init /\ [][Next]_vars

-----------------------------------------------------------------------------
(* Properties.                                                             *)

Results == {"VALID", "DUPLICATE", "OUT_OF_ORDER", "SENDER_NOT_REGISTERED", "BALANCE_CHECK",
            "BAD_REQUEST", "RECEIVER_NOT_REGISTERED", "INSUFFICIENT_BALANCE", "SUCCESS", "KILL"}
Requests == {REQ(c, n, r, a, n) : c, r \in Clients, n \in Numbers, a \in Amounts}
Kills    == {KIL(c) : c \in Clients \cup {NoClient}}

\* Every variable has its type, and a thread the packet its place asks for.
TypeOK ==
  /\ accounts \subseteq Clients
  /\ balance \in [Clients -> Nat]
  /\ last_request \in [Clients -> Nat]
  /\ num_transactions \in Nat
  /\ is_coordinator \in BOOLEAN
  /\ greeting \in Clients \cup {NoClient}
  /\ kill_params \in Kills
  /\ packet \in [Threads -> Requests \cup Kills]
  /\ pc \in [Threads -> {"idle", "check", "transaction", "record", "publish", "reply",
                         "params", "remove", "kill_reply"}]
  /\ \A t \in Threads :
       pc[t] \in {"check", "transaction", "record", "publish", "reply"} => packet[t] \in Requests
  /\ result \in [Threads -> Results \cup {"NONE"}]
  /\ number \in [Threads -> Int]
  /\ dangling \subseteq Threads
  /\ alive \in BOOLEAN
  /\ published \in Nat
  /\ transfer \in [Threads -> Nat]
  /\ moved \in [Clients -> [Numbers -> Nat]]
  /\ killed \subseteq Clients
  /\ overlapped \in BOOLEAN
  /\ sends \in Nat

\* A sequence number moves money once: however often a packet arrives, and
\* whatever becomes of its account in between, check_packet_status lets one
\* copy through, as long as the server never handles two packets of the same
\* client at a time.  (Two threads can both have read the old last_request.)
OncePerNumber ==
  ~ overlapped => \A c \in Clients, n \in Numbers : moved[c][n] <= 1

\* A transfer that is answered with SUCCESS is in a snapshot that has been
\* broadcast before, so a coordinator that crashes after the answer has told.
AnsweredIsPublished ==
  \A t \in Threads :
    pc[t] = "reply" /\ result[t] = "SUCCESS" => transfer[t] <= published

\* An account is only closed when its owner asked for it, although the
\* parameters of a KIL thread may be those of a later KIL packet.
OnlyKilledAreRemoved ==
  [][\A c \in Clients : c \in accounts \ accounts' => c \in killed]_vars

=============================================================================
