----------------------------- MODULE Dispatcher -----------------------------
(***************************************************************************)
(* Brix clients and the server they talk to.  Each client has a main       *)
(* thread, which queues what the user types in, and a dispatcher thread,   *)
(* which sends one request at a time, waits for the answer, tries again,   *)
(* and looks for a server again when no answer comes.                      *)
(*                                                                         *)
(* The network is prompt: what is not lost is there, and answered, before  *)
(* the client's timeouts (200 ms for an answer, 500 ms for a discovery).   *)
(***************************************************************************)
EXTENDS Packets, Sequences, FiniteSets

CONSTANTS
  Clients, NoClient, Threads, Amounts, STARTING_BALANCE, Garbage, MaxNumber,
                      \* as in RequestServer
  Program,            \* what the user of each client types in, line by line, and
                      \* the KILL that main adds when the user leaves
  MAX_RETRIES,        \* times a request is sent
  MAX_DISCOVERIES,    \* times a discovery is sent
  Lossy,              \* types of datagrams that can get lost
  MaxLosses           \* bound on how many do

\* request_t::from_string makes requests and errors of what the user types in;
\* only main makes a KILL, after the last line.
ASSUME ProgramAssumption ==
  /\ NoClient \notin Clients
  /\ \A c \in Clients :
       /\ Program[c] \in Seq([type : {"REQ", "KILL", "ERROR"}, receiver : Clients \cup {NoClient},
                             transfer_amount : Nat])
       /\ \A i \in DOMAIN Program[c] : Program[c][i].type = "KILL" => i = Len(Program[c])

VARIABLES
  accounts, balance, last_request, num_transactions, is_coordinator, greeting, kill_params,
  pc, packet, result, number, dangling, alive, net, published, transfer, moved, killed,
  overlapped,         \* as in RequestServer
  lines,              \* lines each main thread has read
  request_queue,      \* lines that are queued
  is_alive,
  at,                 \* where each dispatcher thread is
  request,            \* line it dispatches, 0 between two requests
  retries,            \* times that request was sent
  tries,              \* times the current discovery was sent
  current_request,    \* number of the next packet
  servaddr,           \* "server", or "nowhere" for an address nobody answers at
  outcome,            \* history: of each line
  made,               \* history: how often each line has moved money
  lost,               \* history: answers that reported so and got lost
  losses              \* datagrams lost so far

server == <<accounts, balance, last_request, num_transactions, is_coordinator, greeting,
            kill_params, pc, packet, result, number, dangling, alive, published, transfer,
            moved, killed, overlapped>>
main       == <<lines, request_queue, is_alive>>
dispatcher == <<at, request, retries, tries, current_request, servaddr>>
hist       == <<made, lost, losses>>
vars       == <<server, net, main, dispatcher, outcome, hist>>

Server == INSTANCE RequestServer WITH sends <- 0, MaxSends <- 0, MaxNet <- 0

PerLine(v) == [c \in Clients |-> [i \in DOMAIN Program[c] |-> v]]

Init ==
  /\ Server!Init
  /\ lines = [c \in Clients |-> 0]
  /\ request_queue = [c \in Clients |-> <<>>]
  /\ is_alive = [c \in Clients |-> TRUE]
  /\ at = [c \in Clients |-> "discover"]
  /\ request = [c \in Clients |-> 0]
  /\ retries = [c \in Clients |-> 0]
  /\ tries = [c \in Clients |-> 0]
  /\ current_request = [c \in Clients |-> 1]
  /\ servaddr = [c \in Clients |-> "nowhere"]
  /\ outcome = PerLine("pending")
  /\ made = PerLine(0) /\ lost = PerLine(0)
  /\ losses = 0

-----------------------------------------------------------------------------
(* The main thread.                                                        *)

\* The dispatcher's constructor returns when its discovery is over.
Constructed(c) == request[c] > 0 \/ at[c] \notin {"discover", "locate"}

queue_request(c, i) ==
  IF Program[c][i].type = "ERROR"
    THEN outcome' = [outcome EXCEPT ![c][i] = "refused"] /\ UNCHANGED request_queue
    ELSE request_queue' = [request_queue EXCEPT ![c] = Append(@, i)] /\ UNCHANGED outcome

\* request_t::from_string gives a line that it cannot parse the type ERROR.
ReadLine(c) ==
  LET i == lines[c] + 1 IN
  /\ Constructed(c) /\ i \in DOMAIN Program[c]
  /\ lines' = [lines EXCEPT ![c] = i]
  /\ queue_request(c, i)
  /\ UNCHANGED <<server, net, is_alive, dispatcher, hist>>

\* main queues a KILL when there are no more lines.
Leaves(c) == Program[c][Len(Program[c])].type = "KILL"

\* ~RequestDispatcher; main then waits for the dispatcher thread.
Delete(c) ==
  /\ Constructed(c) /\ lines[c] = Len(Program[c]) /\ Leaves(c)
  /\ is_alive[c]
  /\ is_alive' = [is_alive EXCEPT ![c] = FALSE]
  /\ UNCHANGED <<server, net, lines, request_queue, dispatcher, outcome, hist>>

-----------------------------------------------------------------------------
(* The loop of the dispatcher thread (process_requests).                   *)

Goto(c, label) == at' = [at EXCEPT ![c] = label]

\* is_alive is read before the queue is: once it is FALSE nothing is queued.
TestAlive(c) ==
  /\ at[c] = "loop"
  /\ Goto(c, IF is_alive[c] THEN "take" ELSE "drain")
  /\ UNCHANGED <<server, net, main, request, retries, tries, current_request, servaddr,
                 outcome, hist>>

\* Mutant: the thread does not look at the queue again.
TestQueue_NotAgain(c) ==
  /\ at[c] = "drain"
  /\ Goto(c, "exited")
  /\ UNCHANGED <<server, net, main, request, retries, tries, current_request, servaddr,
                 outcome, hist>>

TestQueue(c) ==
  /\ at[c] = "drain"
  /\ Goto(c, IF request_queue[c] = <<>> THEN "exited" ELSE "take")
  /\ UNCHANGED <<server, net, main, request, retries, tries, current_request, servaddr,
                 outcome, hist>>

TakeRequest(c) ==
  /\ at[c] = "take"
  /\ IF request_queue[c] = <<>>
       THEN Goto(c, "loop") /\ UNCHANGED <<request_queue, request>>
       ELSE /\ request_queue' = [request_queue EXCEPT ![c] = Tail(@)]
            /\ request' = [request EXCEPT ![c] = Head(request_queue[c])]
            /\ Goto(c, "send")
  /\ UNCHANGED <<server, net, lines, is_alive, retries, tries, current_request, servaddr,
                 outcome, hist>>

-----------------------------------------------------------------------------
(* dispatch_request                                                        *)

\* Nothing about c is under way, not even in a KIL thread of another client that
\* is about to copy c's parameters: no answer will come any more.
Quiet(c) ==
  /\ \A m \in net : Client(m) # c
  /\ \A t \in Threads : pc[t] # "idle" =>
       packet[t].from # c /\ ~ (pc[t] = "params" /\ kill_params.from = c)
  /\ greeting # c

Datagram(c) ==
  LET line == Program[c][request[c]] IN
  IF line.type = "REQ"
    THEN REQ(c, current_request[c], line.receiver, line.transfer_amount, request[c])
    ELSE KIL(c)

\* Mutant: what is sent again is not counted.
SendRequest_Uncounted(c) ==
  /\ at[c] = "send" /\ retries[c] < MAX_RETRIES
  /\ net' = net \cup {m \in {Datagram(c)} : servaddr[c] = "server"}
  /\ Goto(c, "wait")
  /\ UNCHANGED <<server, main, request, retries, tries, current_request, servaddr, outcome, hist>>

SendRequest(c) ==
  /\ at[c] = "send" /\ retries[c] < MAX_RETRIES
  /\ retries' = [retries EXCEPT ![c] = @ + 1]
  /\ net' = net \cup {m \in {Datagram(c)} : servaddr[c] = "server"}
  /\ Goto(c, "wait")
  /\ UNCHANGED <<server, main, request, tries, current_request, servaddr, outcome, hist>>

EndRequest(c, how) ==
  /\ outcome' = [outcome EXCEPT ![c][request[c]] = how]
  /\ request' = [request EXCEPT ![c] = 0]
  /\ retries' = [retries EXCEPT ![c] = 0]
  /\ Goto(c, "loop")

\* Too many retries, giving up: nobody is told.
GiveUp(c) ==
  /\ at[c] = "send" /\ retries[c] = MAX_RETRIES
  /\ EndRequest(c, "given up")
  /\ UNCHANGED <<server, net, main, tries, current_request, servaddr, hist>>

\* Mutant: an answer of any kind ends the request.
ReceiveAnswer_AnyResult(c, m) ==
  /\ at[c] = "wait" /\ m.type = "ACK" /\ m.to = c
  /\ net' = net \ {m}
  /\ current_request' = [current_request EXCEPT ![c] = m.seq_num + 1]
  /\ EndRequest(c, "done")
  /\ UNCHANGED <<server, main, tries, servaddr, hist>>

\* handle_response: the next packet's number comes from any answer, whatever
\* request it answers.
ReceiveAnswer(c, m) ==
  /\ at[c] = "wait" /\ m.type = "ACK" /\ m.to = c
  /\ net' = net \ {m}
  /\ current_request' = [current_request EXCEPT ![c] = m.seq_num + 1]
  /\ IF m.result \in {"SUCCESS", "BALANCE_CHECK", "KILL"}
       THEN EndRequest(c, "done")
       ELSE Goto(c, "send") /\ UNCHANGED <<request, retries, outcome>>
  /\ UNCHANGED <<server, main, tries, servaddr, hist>>

\* Mutant: the timeout is shorter than an answer can take.
AnswerTimeout_Short(c) ==
  /\ at[c] = "wait"
  /\ Goto(c, "discover")
  /\ UNCHANGED <<server, net, main, request, retries, tries, current_request, servaddr, outcome, hist>>

AnswerTimeout(c) ==
  /\ at[c] = "wait" /\ Quiet(c)
  /\ Goto(c, "discover")
  /\ UNCHANGED <<server, net, main, request, retries, tries, current_request, servaddr, outcome, hist>>

-----------------------------------------------------------------------------
(* locate_request_server and client_discovery_protocol                     *)

Discover(c) ==
  /\ at[c] = "discover" /\ tries[c] < MAX_DISCOVERIES
  /\ tries' = [tries EXCEPT ![c] = @ + 1]
  /\ net' = net \cup {DIS(c)}
  /\ Goto(c, "locate")
  /\ UNCHANGED <<server, main, request, retries, current_request, servaddr, outcome, hist>>

Located(c, where) ==
  /\ servaddr' = [servaddr EXCEPT ![c] = where]
  /\ tries' = [tries EXCEPT ![c] = 0]
  /\ Goto(c, IF request[c] = 0 THEN "loop" ELSE "send")

ReceiveLocation(c, m) ==
  /\ at[c] = "locate" /\ m.type = "LOC" /\ m.to = c
  /\ net' = net \ {m}
  /\ Located(c, "server")
  /\ UNCHANGED <<server, main, request, retries, current_request, outcome, hist>>

LocationTimeout(c) ==
  /\ at[c] = "locate" /\ Quiet(c)
  /\ Goto(c, "discover")
  /\ UNCHANGED <<server, net, main, request, retries, tries, current_request, servaddr,
                 outcome, hist>>

\* The address is then read from variables that were never set: it may be the
\* one they held in the last call.
DiscoveryFails(c) ==
  /\ at[c] = "discover" /\ tries[c] = MAX_DISCOVERIES
  /\ \E where \in {servaddr[c], "nowhere"} : Located(c, where)
  /\ UNCHANGED <<server, net, main, request, retries, current_request, outcome, hist>>

-----------------------------------------------------------------------------
MainStep(c) == ReadLine(c) \/ Delete(c)

DispatcherStep(c) ==
  \/ TestAlive(c) \/ TestQueue(c) \/ TakeRequest(c)
  \/ SendRequest(c) \/ GiveUp(c) \/ AnswerTimeout(c)
  \/ Discover(c) \/ LocationTimeout(c) \/ DiscoveryFails(c)
  \/ \E m \in net : ReceiveAnswer(c, m) \/ ReceiveLocation(c, m)

MovesMoney(c, i) ==
  \E t \in Threads : /\ pc[t] = "transaction" /\ result'[t] = "SUCCESS"
                     /\ packet[t].from = c /\ packet[t].id = i

ServerStep ==
  /\ Server!ServerStep
  /\ made' = [c \in Clients |-> [i \in DOMAIN Program[c] |->
                made[c][i] + IF MovesMoney(c, i) THEN 1 ELSE 0]]
  /\ UNCHANGED <<main, dispatcher, outcome, lost, losses>>

Lose(m) ==
  /\ m.type \in Lossy /\ losses < MaxLosses
  /\ losses' = losses + 1
  /\ net' = net \ {m}
  /\ IF m.type = "ACK" /\ m.result = "SUCCESS"
       THEN lost' = [lost EXCEPT ![m.to][m.id] = @ + 1] ELSE UNCHANGED lost
  /\ UNCHANGED <<server, main, dispatcher, outcome, made>>

Next ==
  \/ \E c \in Clients : MainStep(c) \/ DispatcherStep(c)
  \/ ServerStep
  \/ \E m \in net : Lose(m)

Spec == Init /\ [][Next]_vars

\* The threads of a client and those of the server run, and receive what is there.
Fairness ==
  /\ WF_vars(ServerStep)
  /\ \A c \in Clients : WF_vars(MainStep(c)) /\ WF_vars(DispatcherStep(c))
FairSpec == Spec /\ Fairness

-----------------------------------------------------------------------------
(* Properties.                                                             *)

\* A client ends with an empty queue and an answer, or MAX_RETRIES tries, for
\* every line: the dispatcher thread does not die before the last request,
\* although main stops it from outside while it reads the queue unlocked.
NothingLeftBehind ==
  \A c \in Clients : at[c] = "exited" =>
    request_queue[c] = <<>> /\ \A i \in DOMAIN Program[c] : outcome[c][i] # "pending"

\* A client that was told of the end of its account has none, although each
\* discovery it makes on the way registers it again.
KilledIsGone ==
  \A c \in Clients : \A i \in DOMAIN Program[c] :
    Program[c][i].type = "KILL" /\ outcome[c][i] = "done" => c \notin accounts

\* Retries, discoveries and the sequence numbers taken from answers add up to
\* what the user was promised: each transfer is made once, in order, and once
\* more only for each answer that was lost.
Promise == INSTANCE Requests
RequestsSpec == Promise!Spec

\* Every request is answered or given up, and the client of a user who leaves
\* comes to an end, whatever is lost: no retry goes on for ever and no thread
\* waits for another that does not run.
EveryClientEnds ==
  \A c \in Clients :
    /\ \A i \in DOMAIN Program[c] : <>(outcome[c][i] # "pending")
    /\ Leaves(c) => <>(at[c] = "exited")

=============================================================================
