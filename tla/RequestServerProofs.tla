------------------------ MODULE RequestServerProofs -------------------------
(***************************************************************************)
(* Proofs about RequestServer, for any number of clients and packet        *)
(* threads, and any packets in any order and number.                       *)
(***************************************************************************)
EXTENDS RequestServer, TLAPS

Labels == {"idle", "check", "transaction", "record", "publish", "reply", "params", "remove",
           "kill_reply"}
ReqLabels == {"check", "transaction", "record", "publish", "reply"}

\* The packets that are under way, and those the threads work on.
Shape ==
  /\ pc \in [Threads -> Labels]
  /\ packet \in [Threads -> Requests \cup Kills]
  /\ \A t \in Threads :
       /\ pc[t] \in ReqLabels => packet[t] \in Requests
       /\ pc[t] = "params" => kill_params.from \in killed
       /\ pc[t] = "remove" => packet[t].from \in killed
       /\ pc[t] # "idle" => packet[t].from \in Clients
  /\ kill_params \in Kills
  /\ killed \subseteq Clients
  /\ greeting \in Clients \cup {NoClient}
  /\ \A m \in net :
       /\ m.type = "REQ" => m \in Requests
       /\ m.type = "KIL" => m \in Kills /\ m.from \in Clients
       /\ m.type = "DIS" => m.from \in Clients

LEMMA RequestFields ==
  ASSUME NEW m \in Requests
  PROVE  /\ m.type = "REQ" /\ m.from \in Clients /\ m.receiver \in Clients
         /\ m.seq_num \in Numbers /\ m.transfer_amount \in Nat
<1>1. PICK c, r \in Clients, n \in Numbers, a \in Amounts : m = REQ(c, n, r, a, n)
  BY DEF Requests
<1> QED
  BY <1>1, ServerAssumption DEF REQ

LEMMA KillFields ==
  /\ \A m \in Kills : m.type = "KIL" /\ m.seq_num = -1 /\ m.from \in Clients \cup {NoClient}
  /\ \A c \in Clients \cup {NoClient} : KIL(c) \in Kills /\ KIL(c).from = c /\ KIL(c).type = "KIL"
  BY DEF Kills, KIL

LEMMA SentRequests ==
  \A c, r \in Clients, n \in Numbers, a \in Amounts : REQ(c, n, r, a, n) \in Requests
  BY DEF Requests

LEMMA ShapeInit == Init => Shape
  BY RequestFields, KillFields, SentRequests DEF Init, Shape, Labels, ReqLabels

LEMMA ShapeStep == Shape /\ [Next]_vars => Shape'
<1> SUFFICES ASSUME Shape, [Next]_vars PROVE Shape'
  OBVIOUS
<1> USE DEF Shape, Labels, ReqLabels, db, threads, hist, Goto, Result
<1>1. CASE UNCHANGED vars
  BY <1>1 DEF vars
<1>2. ASSUME NEW m \in net, Greet(m) PROVE Shape'
  BY <1>2 DEF Greet
<1>3. CASE GreeterAnswer
  BY <1>3 DEF GreeterAnswer, LOC
<1>4. ASSUME NEW t \in Threads, NEW m \in net, StartRequest(t, m) PROVE Shape'
  BY <1>4, RequestFields, KillFields, SentRequests DEF StartRequest
<1>5. ASSUME NEW t \in Threads, NEW m \in net, StartKill(t, m) PROVE Shape'
  BY <1>5, RequestFields, KillFields, SentRequests DEF StartKill
<1>6. ASSUME NEW t \in Threads, CheckPacket(t) PROVE Shape'
  BY <1>6 DEF CheckPacket
<1>7. ASSUME NEW t \in Threads, Transaction(t) PROVE Shape'
  BY <1>7 DEF Transaction
<1>8. ASSUME NEW t \in Threads, TakeRecord(t) PROVE Shape'
  BY <1>8 DEF TakeRecord
<1>9. ASSUME NEW t \in Threads, Publish(t) PROVE Shape'
  BY <1>9 DEF Publish
<1>10. ASSUME NEW t \in Threads, Reply(t) PROVE Shape'
  BY <1>10, RequestFields, KillFields, SentRequests DEF Reply, Finish, ACK
<1>11. ASSUME NEW t \in Threads, CopyParams(t) PROVE Shape'
  BY <1>11 DEF CopyParams
<1>12. ASSUME NEW t \in Threads, RemoveClient(t) PROVE Shape'
  BY <1>12 DEF RemoveClient
<1>13. ASSUME NEW t \in Threads, KillReply(t) PROVE Shape'
  BY <1>13, RequestFields, KillFields, SentRequests DEF KillReply, Finish, ACK
<1>14. CASE ClientStep
  <2>1. ASSUME NEW c \in Clients, Send(DIS(c)) \/ Send(KIL(c)) PROVE Shape'
    BY <2>1, RequestFields, KillFields, SentRequests DEF Send, DIS
  <2>2. ASSUME NEW c \in Clients, NEW r \in Clients, NEW n \in Numbers, NEW a \in Amounts,
               Send(REQ(c, n, r, a, n)) PROVE Shape'
    BY <2>2, RequestFields, KillFields, SentRequests DEF Send
  <2>3. ASSUME NEW m \in net, Drop(m) PROVE Shape'
    BY <2>3 DEF Drop
  <2> QED
    BY <1>14, <2>1, <2>2, <2>3 DEF ClientStep
<1>15. CASE RoleChange
  BY <1>15 DEF RoleChange
<1> QED
  BY <1>1, <1>2, <1>3, <1>4, <1>5, <1>6, <1>7, <1>8, <1>9, <1>10, <1>11, <1>12, <1>13, <1>14, <1>15
     DEF Next, ServerStep, GreeterStep, Multiplex, ThreadStep

LEMMA ShapeAlways == Spec => []Shape
  BY ShapeInit, ShapeStep, PTL DEF Spec

-----------------------------------------------------------------------------
(* The values.  Whether a transfer is made is decided, and the money moved, *)
(* in one step, so that no balance goes below zero.                        *)

Values ==
  /\ accounts \subseteq Clients
  /\ balance \in [Clients -> Nat]
  /\ last_request \in [Clients -> Nat]
  /\ num_transactions \in Nat
  /\ is_coordinator \in BOOLEAN
  /\ result \in [Threads -> Results \cup {"NONE"}]
  /\ number \in [Threads -> Int]
  /\ dangling \subseteq Threads
  /\ alive \in BOOLEAN
  /\ published \in Nat
  /\ transfer \in [Threads -> Nat]
  /\ moved \in [Clients -> [Numbers -> Nat]]
  /\ overlapped \in BOOLEAN
  /\ sends \in Nat

LEMMA ValuesInit == Init => Values
<1> SUFFICES ASSUME Init PROVE Values
  OBVIOUS
<1>1. moved \in [Clients -> [Numbers -> Nat]]
  BY DEF Init
<1>2. balance \in [Clients -> Nat] /\ last_request \in [Clients -> Nat]
  BY DEF Init
<1>3. /\ result \in [Threads -> Results \cup {"NONE"}]
      /\ number \in [Threads -> Int]
      /\ transfer \in [Threads -> Nat]
  BY DEF Init
<1>4. /\ accounts \subseteq Clients /\ dangling \subseteq Threads
      /\ is_coordinator \in BOOLEAN /\ alive \in BOOLEAN /\ overlapped \in BOOLEAN
      /\ num_transactions \in Nat /\ published \in Nat /\ sends \in Nat
  BY DEF Init
<1> QED
  BY <1>1, <1>2, <1>3, <1>4 DEF Values

LEMMA OutcomeMeans ==
  ASSUME NEW from, NEW to, NEW a
  PROVE  /\ Outcome(from, to, a) \in Results
         /\ Outcome(from, to, a) = "SUCCESS" =>
              {from, to} \subseteq accounts /\ from # to /\ ~ (balance[from] < a)
         /\ Outcome(from, to, a) \in {"INSUFFICIENT_BALANCE", "RECEIVER_NOT_REGISTERED"} =>
              from \in accounts
         /\ Outcome(from, to, a) \notin {"VALID", "DUPLICATE", "OUT_OF_ORDER"}
  BY DEF Outcome, Results

\* What a transaction does, for the sender, the receiver, the number and the
\* amount of its packet.
LEMMA TransactionDoes ==
  ASSUME Shape, Values, NEW t \in Threads, Transaction(t),
         NEW c, c = packet[t].from, NEW r, r = packet[t].receiver,
         NEW n, n = packet[t].seq_num, NEW a, a = packet[t].transfer_amount
  PROVE  /\ c \in Clients /\ r \in Clients /\ n \in Numbers /\ a \in Nat
         /\ pc[t] = "transaction"
         /\ result' = [result EXCEPT ![t] = Outcome(c, r, a)]
         /\ Outcome(c, r, a) = "SUCCESS" =>
              /\ balance[c] >= a /\ c # r /\ c \in accounts /\ r \in accounts
              /\ last_request' = [last_request EXCEPT ![c] = @ + 1]
              /\ balance' = [balance EXCEPT ![c] = @ - a, ![r] = @ + a]
              /\ num_transactions' = num_transactions + 1
              /\ moved' = [moved EXCEPT ![c][n] = @ + 1]
              /\ transfer' = [transfer EXCEPT ![t] = num_transactions']
              /\ pc' = [pc EXCEPT ![t] = "record"]
         /\ Outcome(c, r, a) # "SUCCESS" =>
              /\ \/ UNCHANGED last_request
                 \/ c \in accounts /\ last_request' = [last_request EXCEPT ![c] = @ + 1]
              /\ UNCHANGED <<balance, num_transactions, moved, transfer>>
              /\ \/ pc' = [pc EXCEPT ![t] = "record"]
                 \/ pc' = [pc EXCEPT ![t] = "reply"]
         /\ number' \in [Threads -> Int]
         /\ UNCHANGED <<accounts, is_coordinator, greeting, kill_params, packet, dangling,
                        alive, net, published, killed, sends>>
<1>1. c \in Clients /\ r \in Clients /\ n \in Numbers /\ a \in Nat /\ pc[t] = "transaction"
  BY RequestFields DEF Transaction, Shape, ReqLabels
<1>2. number' \in [Threads -> Int]
  BY <1>1 DEF Transaction, Values
<1>3. result' = [result EXCEPT ![t] = Outcome(c, r, a)]
  BY DEF Transaction, Result
<1>4. CASE Outcome(c, r, a) = "SUCCESS"
  <2>1. balance[c] >= a /\ c # r /\ c \in accounts /\ r \in accounts
    BY <1>1, <1>4, OutcomeMeans DEF Values
  <2>2. /\ last_request' = [last_request EXCEPT ![c] = @ + 1]
        /\ balance' = [balance EXCEPT ![c] = @ - a, ![r] = @ + a]
        /\ num_transactions' = num_transactions + 1
        /\ moved' = [moved EXCEPT ![c][n] = @ + 1]
        /\ transfer' = [transfer EXCEPT ![t] = num_transactions']
    BY <1>4 DEF Transaction
  <2>3. pc' = [pc EXCEPT ![t] = "record"]
    BY <1>4 DEF Transaction, Goto
  <2> QED
    BY <1>1, <1>2, <1>3, <1>4, <2>1, <2>2, <2>3 DEF Transaction
<1>5. CASE Outcome(c, r, a) # "SUCCESS"
  <2>1. \/ UNCHANGED last_request
        \/ c \in accounts /\ last_request' = [last_request EXCEPT ![c] = @ + 1]
    BY <1>5, OutcomeMeans DEF Transaction
  <2>2. UNCHANGED <<balance, num_transactions, moved, transfer>>
    BY <1>5 DEF Transaction
  <2>3. \/ pc' = [pc EXCEPT ![t] = "record"]
        \/ pc' = [pc EXCEPT ![t] = "reply"]
    BY <1>5 DEF Transaction, Goto
  <2> QED
    BY <1>1, <1>2, <1>3, <1>5, <2>1, <2>2, <2>3 DEF Transaction
<1> QED
  BY <1>4, <1>5

LEMMA ValuesStep == Shape /\ Values /\ [Next]_vars => Values'
<1> SUFFICES ASSUME Shape, Values, [Next]_vars PROVE Values'
  OBVIOUS
<1> USE ServerAssumption DEF Values, Results, db, threads, hist, Goto, Result
<1>0. overlapped' \in BOOLEAN
  BY DEF Next, ServerStep, vars
<1>1. CASE UNCHANGED vars
  BY <1>1 DEF vars
<1>2. ASSUME NEW m \in net, Greet(m) PROVE Values'
  <2>1. CASE is_coordinator /\ m.from \notin accounts
    <3>1. m.from \in Clients
      BY <1>2 DEF Greet, Shape
    <3>2. /\ accounts' = accounts \cup {m.from}
          /\ balance' = [balance EXCEPT ![m.from] = STARTING_BALANCE]
          /\ last_request' = [last_request EXCEPT ![m.from] = 0]
          /\ UNCHANGED <<num_transactions, is_coordinator, result, number, dangling, alive,
                         published, transfer, moved, sends>>
      BY <1>2, <2>1 DEF Greet, Register
    <3>3. balance' \in [Clients -> Nat] /\ last_request' \in [Clients -> Nat]
      BY <3>2
    <3> QED
      BY <1>0, <3>1, <3>2, <3>3
  <2>2. CASE ~ (is_coordinator /\ m.from \notin accounts)
    BY <1>0, <1>2, <2>2 DEF Greet, Register
  <2> QED
    BY <2>1, <2>2
<1>3. CASE GreeterAnswer
  BY <1>0, <1>3 DEF GreeterAnswer
<1>4. ASSUME NEW t \in Threads, NEW m \in net, StartRequest(t, m) \/ StartKill(t, m) PROVE Values'
  BY <1>0, <1>4 DEF StartRequest, StartKill
<1>5. ASSUME NEW t \in Threads, CheckPacket(t) PROVE Values'
  BY <1>0, <1>5 DEF CheckPacket, check_packet_status, Shape
<1>6. ASSUME NEW t \in Threads, Transaction(t) PROVE Values'
  <2> DEFINE c == packet[t].from
             r == packet[t].receiver
             n == packet[t].seq_num
             a == packet[t].transfer_amount
  <2>0. /\ c = packet[t].from /\ r = packet[t].receiver
        /\ n = packet[t].seq_num /\ a = packet[t].transfer_amount
    OBVIOUS
  <2> HIDE DEF c, r, n, a
  <2>1. /\ c \in Clients /\ r \in Clients /\ n \in Numbers /\ a \in Nat
        /\ result' = [result EXCEPT ![t] = Outcome(c, r, a)]
        /\ number' \in [Threads -> Int]
        /\ UNCHANGED <<accounts, is_coordinator, dangling, alive, published, sends>>
    BY <1>6, <2>0, TransactionDoes
  <2>2. result' \in [Threads -> Results \cup {"NONE"}]
    BY <2>1, OutcomeMeans
  <2>3. CASE Outcome(c, r, a) = "SUCCESS"
    <3>0. balance[c] >= a /\ c # r
      BY <1>6, <2>0, <2>3, TransactionDoes
    <3>1. /\ last_request' = [last_request EXCEPT ![c] = @ + 1]
          /\ balance' = [balance EXCEPT ![c] = @ - a, ![r] = @ + a]
          /\ num_transactions' = num_transactions + 1
          /\ moved' = [moved EXCEPT ![c][n] = @ + 1]
          /\ transfer' = [transfer EXCEPT ![t] = num_transactions']
      BY <1>6, <2>3 DEF c, r, n, a, Transaction
    <3>2. balance' \in [Clients -> Nat]
      BY <2>1, <3>0, <3>1
    <3>3. moved' \in [Clients -> [Numbers -> Nat]]
      BY <2>1, <3>1
    <3>4. last_request' \in [Clients -> Nat] /\ transfer' \in [Threads -> Nat]
          /\ num_transactions' \in Nat
      BY <2>1, <3>1
    <3> QED
      BY <1>0, <2>1, <2>2, <3>2, <3>3, <3>4
  <2>4. CASE Outcome(c, r, a) # "SUCCESS"
    <3>1. /\ \/ UNCHANGED last_request
             \/ last_request' = [last_request EXCEPT ![c] = @ + 1]
          /\ UNCHANGED <<balance, num_transactions, moved, transfer>>
      BY <1>6, <2>0, <2>4, TransactionDoes
    <3>2. last_request' \in [Clients -> Nat]
      BY <2>1, <3>1
    <3> QED
      BY <1>0, <2>1, <2>2, <3>1, <3>2
  <2> QED
    BY <2>3, <2>4
<1>7. ASSUME NEW t \in Threads, TakeRecord(t) PROVE Values'
  <2>1. /\ UNCHANGED <<db, is_coordinator, result, published, hist, sends>>
        /\ dangling' \subseteq Threads /\ alive' \in BOOLEAN
    BY <1>7 DEF TakeRecord
  <2>2. packet[t].from \in Clients
    BY <1>7 DEF TakeRecord, Shape
  <2>3. number' \in [Threads -> Int]
    <3>1. \/ UNCHANGED number
          \/ \E n \in {last_request[packet[t].from]} \cup {g \in {Garbage} : t \in dangling} :
               number' = [number EXCEPT ![t] = n]
      BY <1>7 DEF TakeRecord
    <3>2. CASE UNCHANGED number
      BY <3>2
    <3>3. ASSUME NEW n \in {last_request[packet[t].from]} \cup {g \in {Garbage} : t \in dangling},
                 number' = [number EXCEPT ![t] = n]
          PROVE  number' \in [Threads -> Int]
      <4>1. n \in Int
        BY <2>2
      <4> QED
        BY <3>3, <4>1
    <3> QED
      BY <3>1, <3>2, <3>3
  <2> QED
    BY <1>0, <2>1, <2>3
<1>8. ASSUME NEW t \in Threads, Publish(t) PROVE Values'
  BY <1>0, <1>8 DEF Publish
<1>9. ASSUME NEW t \in Threads, Reply(t) PROVE Values'
  BY <1>0, <1>9 DEF Reply, Finish
<1>10. ASSUME NEW t \in Threads, CopyParams(t) PROVE Values'
  BY <1>0, <1>10 DEF CopyParams
<1>11. ASSUME NEW t \in Threads, RemoveClient(t) PROVE Values'
  BY <1>0, <1>11 DEF RemoveClient, Shape
<1>12. ASSUME NEW t \in Threads, KillReply(t) PROVE Values'
  BY <1>0, <1>12 DEF KillReply, Finish
<1>13. CASE ClientStep \/ RoleChange
  <2>1. /\ UNCHANGED <<db, result, number, dangling, alive, published, hist>>
        /\ is_coordinator' \in BOOLEAN
        /\ UNCHANGED sends \/ sends' = sends + 1
    BY <1>13 DEF ClientStep, RoleChange, Send, Drop
  <2> QED
    BY <1>0, <2>1
<1> QED
  BY <1>1, <1>2, <1>3, <1>4, <1>5, <1>6, <1>7, <1>8, <1>9, <1>10, <1>11, <1>12, <1>13
     DEF Next, ServerStep, GreeterStep, Multiplex, ThreadStep

LEMMA ValuesAlways == Spec => []Values
  BY ValuesInit, ValuesStep, ShapeAlways, PTL DEF Spec

\* The variables of a server keep their types, whatever its clients send: no
\* balance goes below zero, and a thread works on the kind of packet its code
\* is for.
THEOREM Types == Spec => []TypeOK
<1>1. Shape /\ Values => TypeOK
  BY DEF Shape, Values, TypeOK, Labels, ReqLabels
<1> QED
  BY <1>1, ShapeAlways, ValuesAlways, PTL

-----------------------------------------------------------------------------
(* Accounts: only RemoveClient closes one, and the parameters it has copied *)
(* are those of some KIL packet, though maybe not of its own.              *)

LEMMA OnlyRemoveShrinks ==
  ASSUME [Next]_vars, \A t \in Threads : ~ RemoveClient(t)
  PROVE  accounts \subseteq accounts'
<1> USE DEF db, threads, hist
<1>1. CASE UNCHANGED vars
  BY <1>1 DEF vars
<1>2. CASE ClientStep \/ RoleChange
  BY <1>2 DEF ClientStep, Send, Drop, RoleChange
<1>3. CASE GreeterStep
  BY <1>3 DEF GreeterStep, Greet, Register, GreeterAnswer
<1>4. ASSUME NEW t \in Threads, Multiplex(t) PROVE accounts \subseteq accounts'
  BY <1>4 DEF Multiplex, StartRequest, StartKill
<1>5. ASSUME NEW t \in Threads, ThreadStep(t) PROVE accounts \subseteq accounts'
  BY <1>5 DEF ThreadStep, CheckPacket, Transaction, TakeRecord, Publish, Reply, CopyParams, KillReply
<1> QED
  BY <1>1, <1>2, <1>3, <1>4, <1>5 DEF Next, ServerStep

\* An account is only closed when its owner asked for it: the parameters that
\* process_kill_packet copies belong to a KIL packet that has arrived.
THEOREM ClosedByOwner == Spec => OnlyKilledAreRemoved
<1>1. Shape /\ [Next]_vars => \A c \in Clients : c \in accounts \ accounts' => c \in killed
  <2> SUFFICES ASSUME Shape, [Next]_vars, NEW c \in accounts \ accounts'
               PROVE  c \in killed
    OBVIOUS
  <2>1. PICK t \in Threads : RemoveClient(t)
    BY OnlyRemoveShrinks
  <2> QED
    BY <2>1 DEF RemoveClient, Shape
<1> QED
  BY <1>1, ShapeAlways, PTL DEF Spec, OnlyKilledAreRemoved

-----------------------------------------------------------------------------
(* Answers and snapshots.                                                  *)

Told ==
  /\ published <= num_transactions
  /\ \A t \in Threads : transfer[t] <= num_transactions
  /\ AnsweredIsPublished

LEMMA ToldStep == Shape /\ Values /\ Values' /\ Told /\ [Next]_vars => Told'
<1> SUFFICES ASSUME Shape, Values, Values', Told, [Next]_vars PROVE Told'
  OBVIOUS
<1> USE DEF Told, AnsweredIsPublished, db, threads, hist, Goto, Result
<1>0. /\ num_transactions \in Nat /\ published \in Nat /\ transfer \in [Threads -> Nat]
      /\ result \in [Threads -> Results \cup {"NONE"}] /\ pc \in [Threads -> Labels]
  BY DEF Shape, Values
<1>1. CASE UNCHANGED vars
  BY <1>1 DEF vars
<1>2. CASE GreeterStep
  BY <1>0, <1>2 DEF GreeterStep, Greet, Register, GreeterAnswer
<1>3. ASSUME NEW t \in Threads, Multiplex(t) PROVE Told'
  BY <1>0, <1>3 DEF Multiplex, StartRequest, StartKill
<1>4. ASSUME NEW t \in Threads, CheckPacket(t) PROVE Told'
  BY <1>0, <1>4 DEF CheckPacket, check_packet_status
<1>5. ASSUME NEW t \in Threads, Transaction(t) PROVE Told'
  <2> DEFINE o == Outcome(packet[t].from, packet[t].receiver, packet[t].transfer_amount)
  <2>1. result' = [result EXCEPT ![t] = o] /\ UNCHANGED published
    BY <1>5 DEF Transaction
  <2>2. CASE o = "SUCCESS"
    <3>1. /\ num_transactions' = num_transactions + 1
          /\ transfer' = [transfer EXCEPT ![t] = num_transactions']
          /\ pc' = [pc EXCEPT ![t] = "record"]
      BY <1>5, <2>2 DEF Transaction
    <3> QED
      BY <1>0, <2>1, <3>1
  <2>3. CASE o # "SUCCESS"
    <3>1. UNCHANGED <<num_transactions, transfer>>
      BY <1>5, <2>3 DEF Transaction
    <3>2. \A u \in Threads \ {t} : pc'[u] = pc[u]
      BY <1>0, <1>5 DEF Transaction
    <3> QED
      BY <1>0, <2>1, <2>3, <3>1, <3>2
  <2> QED
    BY <2>2, <2>3
<1>6. ASSUME NEW t \in Threads, TakeRecord(t) PROVE Told'
  BY <1>0, <1>6 DEF TakeRecord
<1>7. ASSUME NEW t \in Threads, Publish(t) PROVE Told'
  BY <1>0, <1>7 DEF Publish
<1>8. ASSUME NEW t \in Threads, Reply(t) PROVE Told'
  BY <1>0, <1>8 DEF Reply, Finish
<1>9. ASSUME NEW t \in Threads, CopyParams(t) PROVE Told'
  BY <1>0, <1>9 DEF CopyParams
<1>10. ASSUME NEW t \in Threads, RemoveClient(t) PROVE Told'
  BY <1>0, <1>10 DEF RemoveClient
<1>11. ASSUME NEW t \in Threads, KillReply(t) PROVE Told'
  BY <1>0, <1>11 DEF KillReply, Finish
<1>12. CASE ClientStep \/ RoleChange
  BY <1>12 DEF ClientStep, RoleChange, Send, Drop
<1> QED
  BY <1>1, <1>2, <1>3, <1>4, <1>5, <1>6, <1>7, <1>8, <1>9, <1>10, <1>11, <1>12
     DEF Next, ServerStep, ThreadStep

\* process_req_packet broadcasts a snapshot that holds the transfer before it
\* sends the answer, whatever the other threads do in between.
THEOREM AnswersAreTold == Spec => []AnsweredIsPublished
<1>1. Init => Told
  BY DEF Init, Told, AnsweredIsPublished
<1>2. Told => AnsweredIsPublished
  BY DEF Told
<1> QED
  BY <1>1, <1>2, ToldStep, ShapeAlways, ValuesAlways, PTL DEF Spec

-----------------------------------------------------------------------------
(* Sequence numbers.  While no two handlers work for the same client, the  *)
(* number that CheckPacket has accepted is still the next one when the     *)
(* transaction is made, and every number that has moved money is below it. *)

NextNumber ==
  \A t \in Threads :
    pc[t] = "transaction" /\ packet[t].from \in accounts =>
      packet[t].seq_num = last_request[packet[t].from] + 1

Spent ==
  \A c \in Clients, n \in Numbers :
    /\ c \notin accounts => moved[c][n] = 0
    /\ moved[c][n] >= 1 => n <= last_request[c]
    /\ moved[c][n] <= 1

Once == ~ overlapped => ~ Overlap /\ NextNumber /\ Spent

\* What the steps that are not about a transaction leave alone.
LEMMA OnceKept ==
  ASSUME Once, Shape,
         ~ overlapped' => ~ overlapped /\ (Overlap' => Overlap),
         UNCHANGED <<accounts, last_request, moved>>,
         \A t \in Threads :
           pc'[t] = "transaction" => pc[t] = "transaction" /\ packet'[t] = packet[t]
  PROVE  Once'
<1> SUFFICES ASSUME ~ overlapped' PROVE ~ Overlap' /\ NextNumber' /\ Spent'
  BY DEF Once
<1>1. ~ overlapped /\ ~ Overlap'
  BY DEF Once
<1>2. NextNumber'
  BY <1>1 DEF Once, NextNumber
<1>3. Spent'
  BY <1>1 DEF Once, Spent
<1> QED
  BY <1>1, <1>2, <1>3

\* A thread that is alone with its client.
LEMMA Alone ==
  ASSUME ~ Overlap, NEW t \in Threads, pc[t] # "idle"
  PROVE  /\ greeting # packet[t].from
         /\ \A u \in Threads \ {t} : pc[u] # "idle" => packet[u].from # packet[t].from
  BY DEF Overlap

LEMMA OnceStep == Shape /\ Shape' /\ Values /\ Values' /\ Once /\ [Next]_vars => Once'
<1> SUFFICES ASSUME Shape, Shape', Values, Values', Once, [Next]_vars PROVE Once'
  OBVIOUS
<1> USE DEF db, threads, hist, Goto, Result
<1>0. /\ pc \in [Threads -> Labels] /\ pc' \in [Threads -> Labels]
      /\ packet \in [Threads -> Requests \cup Kills]
      /\ \A t \in Threads : pc[t] # "idle" => packet[t].from \in Clients
      /\ last_request \in [Clients -> Nat] /\ accounts \subseteq Clients
      /\ moved \in [Clients -> [Numbers -> Nat]]
  BY DEF Shape, Values
<1>1. CASE UNCHANGED vars
  <2>1. ~ overlapped' => ~ overlapped /\ (Overlap' => Overlap)
    BY <1>1 DEF vars, Overlap
  <2> QED
    BY <1>1, <2>1, OnceKept DEF vars
<1>2. CASE (ClientStep \/ RoleChange) /\ UNCHANGED overlapped
  <2>1. UNCHANGED <<accounts, last_request, moved, pc, packet, greeting>>
    BY <1>2 DEF ClientStep, RoleChange, Send, Drop
  <2>2. ~ overlapped' => ~ overlapped /\ (Overlap' => Overlap)
    BY <1>2, <2>1 DEF Overlap
  <2> QED
    BY <1>2, <2>1, <2>2, OnceKept
<1>3. CASE ServerStep
  <2>0. ~ overlapped' => ~ overlapped /\ ~ Overlap'
    BY <1>3 DEF ServerStep
  <2>1. ASSUME NEW m \in net, Greet(m) PROVE Once'
    <3>1. CASE UNCHANGED <<accounts, last_request>>
      <4>1. UNCHANGED <<pc, packet, moved>>
        BY <2>1 DEF Greet
      <4> QED
        BY <2>0, <3>1, <4>1, OnceKept
    <3>2. CASE ~ UNCHANGED <<accounts, last_request>>
      <4> DEFINE c == m.from
      <4>1. /\ c \in Clients \ accounts /\ accounts' = accounts \cup {c} /\ greeting' = c
            /\ last_request' = [last_request EXCEPT ![c] = 0]
            /\ UNCHANGED <<pc, packet, moved>>
        BY <2>1, <3>2 DEF Greet, Register, Shape
      <4> SUFFICES ASSUME ~ overlapped' PROVE ~ Overlap' /\ NextNumber' /\ Spent'
        BY DEF Once
      <4>2. ~ overlapped /\ ~ Overlap' /\ NextNumber /\ Spent
        BY <2>0 DEF Once
      <4>3. \A t \in Threads : pc[t] = "transaction" => packet[t].from # c
        BY <4>1, <4>2 DEF Overlap
      <4>4. NextNumber'
        BY <1>0, <4>1, <4>2, <4>3 DEF NextNumber
      <4>5. Spent'
        BY <1>0, <4>1, <4>2 DEF Spent
      <4> QED
        BY <4>2, <4>4, <4>5
    <3> QED
      BY <3>1, <3>2
  <2>2. CASE GreeterAnswer
    <3>1. UNCHANGED <<accounts, last_request, moved, pc, packet>>
      BY <2>2 DEF GreeterAnswer
    <3> QED
      BY <2>0, <3>1, OnceKept
  <2>3. ASSUME NEW t \in Threads, Multiplex(t) PROVE Once'
    <3>1. UNCHANGED <<accounts, last_request, moved>>
      BY <2>3 DEF Multiplex, StartRequest, StartKill
    <3>2. \A u \in Threads :
            pc'[u] = "transaction" => pc[u] = "transaction" /\ packet'[u] = packet[u]
      BY <1>0, <2>3 DEF Multiplex, StartRequest, StartKill
    <3> QED
      BY <2>0, <3>1, <3>2, OnceKept
  <2>4. ASSUME NEW t \in Threads, CheckPacket(t) PROVE Once'
    <3> DEFINE c == packet[t].from
               last == IF c \in accounts THEN last_request[c] ELSE 0
    <3> SUFFICES ASSUME ~ overlapped' PROVE ~ Overlap' /\ NextNumber' /\ Spent'
      BY DEF Once
    <3>1. ~ overlapped /\ ~ Overlap' /\ NextNumber /\ Spent
      BY <2>0 DEF Once
    <3>2. UNCHANGED <<accounts, last_request, moved, packet>>
      BY <2>4 DEF CheckPacket
    <3>3. Spent'
      BY <3>1, <3>2 DEF Spent
    <3>4. pc'[t] = "transaction" => packet[t].seq_num = last + 1
      BY <1>0, <2>4 DEF CheckPacket, check_packet_status
    <3>5. \A u \in Threads \ {t} : pc'[u] = pc[u]
      BY <1>0, <2>4 DEF CheckPacket
    <3>6. NextNumber'
      BY <3>1, <3>2, <3>4, <3>5 DEF NextNumber
    <3> QED
      BY <3>1, <3>3, <3>6
  <2>5. ASSUME NEW t \in Threads, Transaction(t) PROVE Once'
    <3> DEFINE c == packet[t].from
               n == packet[t].seq_num
               o == Outcome(c, packet[t].receiver, packet[t].transfer_amount)
    <3> SUFFICES ASSUME ~ overlapped' PROVE ~ Overlap' /\ NextNumber' /\ Spent'
      BY DEF Once
    <3>1. ~ overlapped /\ ~ Overlap /\ ~ Overlap' /\ NextNumber /\ Spent
      BY <2>0 DEF Once
    <3>2. c \in Clients /\ n \in Numbers /\ pc[t] = "transaction"
      BY <2>5, RequestFields DEF Transaction, Shape, ReqLabels
    <3>3. UNCHANGED <<accounts, packet>> /\ pc'[t] # "transaction"
      BY <1>0, <2>5 DEF Transaction
    <3>4. \A u \in Threads \ {t} : pc'[u] = pc[u]
      BY <1>0, <2>5 DEF Transaction
    <3>5. \A u \in Threads \ {t} : pc[u] # "idle" => packet[u].from # c
      BY <3>1, <3>2, Alone
    <3>6. \A d \in Clients \ {c} : last_request'[d] = last_request[d]
      BY <1>0, <2>5 DEF Transaction
    <3>7. NextNumber'
      BY <1>0, <3>1, <3>3, <3>4, <3>5, <3>6 DEF NextNumber
    <3>8. CASE o = "SUCCESS"
      <4>1. /\ c \in accounts
            /\ last_request' = [last_request EXCEPT ![c] = @ + 1]
            /\ moved' = [moved EXCEPT ![c][n] = @ + 1]
        BY <2>5, <3>8, OutcomeMeans DEF Transaction
      <4>2. n = last_request[c] + 1
        BY <3>1, <3>2, <4>1 DEF NextNumber
      <4>3. moved[c][n] = 0
        BY <1>0, <3>1, <3>2, <4>2 DEF Spent
      <4>4. /\ moved'[c][n] = 1 /\ last_request'[c] = n
            /\ \A d \in Clients, k \in Numbers : <<d, k>> # <<c, n>> => moved'[d][k] = moved[d][k]
        BY <1>0, <3>2, <4>1, <4>2, <4>3
      <4>5. Spent'
        BY <1>0, <3>1, <3>2, <3>3, <3>6, <4>1, <4>2, <4>4 DEF Spent, Numbers
      <4> QED
        BY <3>1, <3>7, <4>5
    <3>9. CASE o # "SUCCESS"
      <4>1. UNCHANGED moved
        BY <2>5, <3>9 DEF Transaction
      <4>2. last_request'[c] \in {last_request[c], last_request[c] + 1}
        BY <1>0, <2>5, <3>2 DEF Transaction
      <4>3. \A d \in Clients : last_request'[d] \in {last_request[d], last_request[d] + 1}
        BY <3>6, <4>2
      <4>4. \A d \in Clients, k \in Numbers :
              k \in Int /\ last_request[d] \in Int /\ (k <= last_request[d] => k <= last_request'[d])
        BY <1>0, <4>3 DEF Numbers
      <4>5. Spent'
        BY <3>1, <3>3, <4>1, <4>4 DEF Spent
      <4> QED
        BY <3>1, <3>7, <4>5
    <3> QED
      BY <3>8, <3>9
  <2>6. ASSUME NEW t \in Threads,
               TakeRecord(t) \/ Publish(t) \/ Reply(t) \/ CopyParams(t) \/ KillReply(t)
        PROVE  Once'
    <3>1. UNCHANGED <<accounts, last_request>>
      BY <2>6 DEF TakeRecord, Publish, Reply, CopyParams, KillReply
    <3>2. UNCHANGED moved
      BY <2>6 DEF TakeRecord, Publish, Reply, CopyParams, KillReply
    <3>3. \A u \in Threads :
            pc'[u] = "transaction" => pc[u] = "transaction" /\ packet'[u] = packet[u]
      BY <1>0, <2>6 DEF TakeRecord, Publish, Reply, CopyParams, KillReply, Finish
    <3> QED
      BY <2>0, <3>1, <3>2, <3>3, OnceKept
  <2>7. ASSUME NEW t \in Threads, RemoveClient(t) PROVE Once'
    <3> DEFINE c == packet[t].from
    <3> SUFFICES ASSUME ~ overlapped' PROVE ~ Overlap' /\ NextNumber' /\ Spent'
      BY DEF Once
    <3>1. ~ overlapped /\ ~ Overlap' /\ NextNumber /\ Spent
      BY <2>0 DEF Once
    <3>2. /\ accounts' = accounts \ {c} /\ UNCHANGED <<last_request, packet>>
          /\ moved' = [moved EXCEPT ![c] = [n \in Numbers |-> 0]]
      BY <2>7 DEF RemoveClient
    <3>3. \A u \in Threads : pc'[u] = "transaction" => pc[u] = "transaction"
      BY <1>0, <2>7 DEF RemoveClient
    <3>4. NextNumber'
      BY <3>1, <3>2, <3>3 DEF NextNumber
    <3>5. Spent'
      BY <1>0, <3>1, <3>2 DEF Spent
    <3> QED
      BY <3>1, <3>4, <3>5
  <2> QED
    BY <1>3, <2>1, <2>2, <2>3, <2>4, <2>5, <2>6, <2>7
       DEF ServerStep, GreeterStep, ThreadStep
<1> QED
  BY <1>1, <1>2, <1>3 DEF Next

\* A sequence number moves money at most once, for any number of copies of
\* any packets, as long as the server never handles two packets of a client
\* at a time; process_req_packet does nothing to make sure of that.
THEOREM NumbersMoveOnce == Spec => []OncePerNumber
<1>1. Init => Once
  <2> SUFFICES ASSUME Init PROVE Once
    OBVIOUS
  <2>1. ~ Overlap /\ NextNumber
    BY DEF Init, Overlap, NextNumber
  <2>2. Spent
    BY DEF Init, Spent
  <2> QED
    BY <2>1, <2>2 DEF Once
<1>2. Once => OncePerNumber
  BY DEF Once, Spent, OncePerNumber
<1> QED
  BY <1>1, <1>2, OnceStep, ShapeAlways, ValuesAlways, PTL DEF Spec
=============================================================================
