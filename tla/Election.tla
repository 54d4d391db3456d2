------------------------------ MODULE Election ------------------------------
(***************************************************************************)
(* The election of the coordinator (RedundancyManager) on every server of  *)
(* a Brix network.  Each server runs a state machine over one UDP socket   *)
(* with a receive timeout, and a heartbeat tester thread that tests the    *)
(* coordinator it knows and starts an election when it gets no answer.     *)
(*                                                                         *)
(* A message in net is in flight or in the receiver's socket; messages are *)
(* received in any order.  A server ignores its own broadcasts, so they    *)
(* are not sent to it.  One iteration of the state machine is one step: it *)
(* reads a message or times out.  The tester may write the state in the    *)
(* middle of it; only in HeartbeatLost does that lead to a state that no   *)
(* order of whole steps leads to.  A coordinator that receives an          *)
(* election message also broadcasts its database: that broadcast uses a    *)
(* socket and state of its own and is not part of this module.             *)
(***************************************************************************)
EXTENDS Naturals, FiniteSets

CONSTANTS
  Servers,            \* ids of the servers, which are their addresses
  NoServer,           \* address 0.0.0.0, at which a server tests itself
  Nobody,             \* an address nobody answers at
  Uninitialised,      \* addresses coordinator_ip may hold before it is set
  FastNetwork,        \* TRUE: a round trip is shorter than the socket timeout
  Faults,             \* of "crash", "loss", "suspicion" and "clock"
  MaxFaults           \* bound on their number

ASSUME ElectionAssumption ==
  /\ Servers \subseteq Nat
  /\ NoServer \notin Servers /\ Nobody \notin Servers
  /\ Uninitialised \subseteq {NoServer, Nobody}
  /\ FastNetwork \in BOOLEAN
  /\ MaxFaults \in Nat

VARIABLES
  up,                 \* servers that run
  state,              \* state of each server's state machine
  is_coordinator,     \* servers that take themselves for the coordinator
  coordinator_ip,     \* coordinator each server follows
  waited,             \* servers that started answer_max_wait_time ago or earlier
  testing,            \* address each tester is testing, NoServer between tests
  net,                \* messages sent and not yet received
  answered,           \* history: servers answered to in the current election
  announced,          \* history: servers that announced themselves
  faults              \* faults so far

fsm  == <<state, is_coordinator, coordinator_ip>>
hist == <<answered, announced>>
vars == <<up, fsm, waited, testing, net, hist, faults>>

Message(type, from, to) == [type |-> type, from |-> from, to |-> to]
Broadcast(type, s) == {Message(type, s, r) : r \in Servers \ {s}}

Init ==
  /\ up = {}
  /\ state = [s \in Servers |-> "INIT"]
  /\ is_coordinator = {}
  /\ coordinator_ip = [s \in Servers |-> NoServer]
  /\ waited = {}
  /\ testing = [s \in Servers |-> NoServer]
  /\ net = {}
  /\ answered = {} /\ announced = {}
  /\ faults = 0

-----------------------------------------------------------------------------
(* Servers start, fail and lose messages.                                  *)

Boot(s) ==
  /\ s \notin up
  /\ up' = up \cup {s}
  /\ \E garbage \in Uninitialised :
       coordinator_ip' = [coordinator_ip EXCEPT ![s] = garbage]
  /\ UNCHANGED <<state, is_coordinator, waited, testing, net, hist, faults>>

Fault(kind) ==
  /\ kind \in Faults /\ faults < MaxFaults
  /\ faults' = faults + 1

\* Nothing is kept on disk, and the socket's messages go with the process.
Crash(s) ==
  /\ s \in up /\ Fault("crash")
  /\ up' = up \ {s}
  /\ state' = [state EXCEPT ![s] = "INIT"]
  /\ is_coordinator' = is_coordinator \ {s}
  /\ coordinator_ip' = [coordinator_ip EXCEPT ![s] = NoServer]
  /\ waited' = waited \ {s}
  /\ testing' = [testing EXCEPT ![s] = NoServer]
  /\ net' = {m \in net : m.to # s}
  /\ answered' = answered \ {s}
  /\ UNCHANGED announced

Lose(m) ==
  /\ Fault("loss")
  /\ net' = net \ {m}
  /\ UNCHANGED <<up, fsm, waited, testing, hist>>

\* A message to a server that is down is not received by anybody.
Reachable(msgs) == {m \in msgs : m.to \in up}

-----------------------------------------------------------------------------
(* The state machine (single_socket_election).                             *)

Enter(s, st) ==
  /\ state' = [state EXCEPT ![s] = st]
  /\ answered' = answered \ {s}

\* The first iteration starts an election, whatever message it reads.
Start(s) ==
  /\ s \in up /\ state[s] = "INIT"
  /\ Enter(s, "IN_PROGRESS")
  /\ is_coordinator' = is_coordinator \ {s}
  /\ \E read \in {{}} \cup {{m} : m \in {n \in net : n.to = s}} :
       net' = (net \ read) \cup Reachable(Broadcast("ELE", s))
  /\ UNCHANGED <<up, coordinator_ip, waited, testing, announced, faults>>

Receives(s, m, type) ==
  s \in up /\ state[s] # "INIT" /\ m.to = s /\ m.type = type

\* Mutant: the address is not recorded.
ReceiveCoordinator_NotRecorded(s, m) ==
  /\ Receives(s, m, "CRD")
  /\ Enter(s, "NOT_IN_PROGRESS")
  /\ UNCHANGED coordinator_ip
  /\ is_coordinator' = is_coordinator \ {s}
  /\ net' = net \ {m}
  /\ UNCHANGED <<up, waited, testing, announced, faults>>

\* Mutant: demote is not called.
ReceiveCoordinator_NoDemotion(s, m) ==
  /\ Receives(s, m, "CRD")
  /\ Enter(s, "NOT_IN_PROGRESS")
  /\ coordinator_ip' = [coordinator_ip EXCEPT ![s] = m.from]
  /\ UNCHANGED is_coordinator
  /\ net' = net \ {m}
  /\ UNCHANGED <<up, waited, testing, announced, faults>>

\* handle_coordinator_announcement, in every state.
ReceiveCoordinator(s, m) ==
  /\ Receives(s, m, "CRD")
  /\ Enter(s, "NOT_IN_PROGRESS")
  /\ coordinator_ip' = [coordinator_ip EXCEPT ![s] = m.from]
  /\ is_coordinator' = is_coordinator \ {s}
  /\ net' = net \ {m}
  /\ UNCHANGED <<up, waited, testing, announced, faults>>

\* Mutant: the assignment commented out in start_election_procedure.
JoinElection_StepsDown(s, m) ==
  /\ Receives(s, m, "ELE")
  /\ state[s] = "NOT_IN_PROGRESS" /\ m.from < s
  /\ Enter(s, "IN_PROGRESS")
  /\ is_coordinator' = is_coordinator \ {s}
  /\ net' = (net \ {m}) \cup Reachable(Broadcast("ELE", s) \cup {Message("ANS", s, m.from)})
  /\ UNCHANGED <<up, coordinator_ip, waited, testing, announced, faults>>

\* start_election_procedure.
JoinElection(s, m) ==
  /\ Receives(s, m, "ELE")
  /\ state[s] = "NOT_IN_PROGRESS" /\ m.from < s
  /\ Enter(s, "IN_PROGRESS")
  /\ net' = (net \ {m}) \cup Reachable(Broadcast("ELE", s) \cup {Message("ANS", s, m.from)})
  /\ UNCHANGED <<up, is_coordinator, coordinator_ip, waited, testing, announced, faults>>

AnswerElection(s, m) ==
  /\ Receives(s, m, "ELE")
  /\ state[s] = "IN_PROGRESS" /\ m.from < s
  /\ net' = (net \ {m}) \cup Reachable({Message("ANS", s, m.from)})
  /\ UNCHANGED <<up, fsm, waited, testing, hist, faults>>

\* Mutant: state, an int, takes a value of the other enum.
Defer_WrongEnum(s, m) ==
  /\ Receives(s, m, "ELE")
  /\ state[s] \in {"NOT_IN_PROGRESS", "IN_PROGRESS"} /\ m.from > s
  /\ Enter(s, "COORD_ANNOUNCEMENT")
  /\ net' = net \ {m}
  /\ UNCHANGED <<up, is_coordinator, coordinator_ip, waited, testing, announced, faults>>

\* Mutant: no comparison with the sender.
Defer_Unconditionally(s, m) ==
  /\ Receives(s, m, "ELE")
  /\ state[s] \in {"NOT_IN_PROGRESS", "IN_PROGRESS"}
  /\ Enter(s, "WAITING_FOR_COORD")
  /\ net' = net \ {m}
  /\ UNCHANGED <<up, is_coordinator, coordinator_ip, waited, testing, announced, faults>>

\* Mutant: follows the higher server before it announces itself.
Defer_Follows(s, m) ==
  /\ Receives(s, m, "ELE")
  /\ state[s] \in {"NOT_IN_PROGRESS", "IN_PROGRESS"} /\ m.from > s
  /\ Enter(s, "WAITING_FOR_COORD")
  /\ coordinator_ip' = [coordinator_ip EXCEPT ![s] = m.from]
  /\ net' = net \ {m}
  /\ UNCHANGED <<up, is_coordinator, waited, testing, announced, faults>>

Defer(s, m) ==
  /\ Receives(s, m, "ELE")
  /\ state[s] \in {"NOT_IN_PROGRESS", "IN_PROGRESS"} /\ m.from > s
  /\ Enter(s, "WAITING_FOR_COORD")
  /\ net' = net \ {m}
  /\ UNCHANGED <<up, is_coordinator, coordinator_ip, waited, testing, announced, faults>>

IgnoreElection(s, m) ==
  /\ Receives(s, m, "ELE")
  /\ state[s] = "WAITING_FOR_COORD"
  /\ net' = net \ {m}
  /\ UNCHANGED <<up, fsm, waited, testing, hist, faults>>

\* Answers change nothing in any state.
ReceiveAnswer(s, m) ==
  /\ Receives(s, m, "ANS")
  /\ answered' = IF state[s] = "IN_PROGRESS" THEN answered \cup {s} ELSE answered
  /\ net' = net \ {m}
  /\ UNCHANGED <<up, fsm, waited, testing, announced, faults>>

\* start_time is set when the machine starts and never again.
WaitElapses(s) ==
  /\ s \in up \ waited
  /\ waited' = waited \cup {s}
  /\ UNCHANGED <<up, fsm, testing, net, hist, faults>>

\* get_current_time_ms returns an int: when it wraps, the wait so far is negative.
ClockWraps(s) ==
  /\ s \in waited /\ Fault("clock")
  /\ waited' = waited \ {s}
  /\ UNCHANGED <<up, fsm, testing, net, hist>>

\* handle_in_progress_timeout; a timeout changes nothing in the other states.
Timeout(s) ==
  /\ s \in up /\ state[s] = "IN_PROGRESS"
  /\ FastNetwork => \A m \in net : s \notin {m.from, m.to}
  /\ s \in waited
  /\ Enter(s, "NOT_IN_PROGRESS")
  /\ is_coordinator' = is_coordinator \cup {s}
  /\ announced' = announced \cup {s}
  /\ net' = net \cup Reachable(Broadcast("CRD", s))
  /\ UNCHANGED <<up, coordinator_ip, waited, testing, faults>>

-----------------------------------------------------------------------------
(* The heartbeat tester (heartbeat_tester_loop).                           *)

HeartbeatTest(s) ==
  /\ s \in up \ is_coordinator
  /\ testing[s] = NoServer /\ coordinator_ip[s] # NoServer
  /\ testing' = [testing EXCEPT ![s] = coordinator_ip[s]]
  /\ UNCHANGED <<up, fsm, waited, net, hist, faults>>

\* Every server answers, coordinator or not.
HeartbeatAnswered(s) ==
  /\ testing[s] \in up
  /\ testing' = [testing EXCEPT ![s] = NoServer]
  /\ UNCHANGED <<up, fsm, waited, net, hist, faults>>

\* backup_election; the state is not looked at again after the test.  When the
\* state machine is just handling an answer it assigns the state it was in, and
\* the tester's assignment is lost.
HeartbeatLost(s) ==
  /\ testing[s] # NoServer
  /\ IF testing[s] \in up THEN Fault("suspicion") ELSE UNCHANGED faults
  /\ testing' = [testing EXCEPT ![s] = NoServer]
  /\ \/ /\ Enter(s, "IN_PROGRESS")
        /\ net' = net \cup Reachable(Broadcast("ELE", s))
     \/ /\ state[s] = "WAITING_FOR_COORD"
        /\ \E m \in net : /\ Receives(s, m, "ANS")
                         /\ net' = (net \ {m}) \cup Reachable(Broadcast("ELE", s))
        /\ UNCHANGED <<state, answered>>
  /\ UNCHANGED <<up, is_coordinator, coordinator_ip, waited, announced>>

-----------------------------------------------------------------------------
Receive(s) ==
  \E m \in net :
    \/ ReceiveCoordinator(s, m) \/ ReceiveAnswer(s, m)
    \/ JoinElection(s, m) \/ AnswerElection(s, m) \/ Defer(s, m) \/ IgnoreElection(s, m)

Machine(s) == Start(s) \/ Receive(s) \/ Timeout(s)
Tester(s) == HeartbeatTest(s) \/ HeartbeatAnswered(s) \/ HeartbeatLost(s)

Next ==
  \/ \E s \in Servers : Boot(s) \/ Crash(s) \/ Machine(s) \/ Tester(s) \/ WaitElapses(s) \/ ClockWraps(s)
  \/ \E m \in net : Lose(m)

Spec == Init /\ [][Next]_vars

\* recvfrom returns after 10 ms at the latest, the tester tests every two
\* seconds, and time passes.
Fairness ==
  \A s \in Servers : WF_vars(Machine(s)) /\ WF_vars(Tester(s)) /\ WF_vars(WaitElapses(s))
FairSpec == Spec /\ Fairness

-----------------------------------------------------------------------------
(* Properties.                                                             *)

States == {"INIT", "NOT_IN_PROGRESS", "IN_PROGRESS", "WAITING_FOR_COORD"}
Messages == [type : {"ELE", "ANS", "CRD"}, from : Servers, to : Servers]

\* Every variable has its type.
TypeOK ==
  /\ up \subseteq Servers
  /\ state \in [Servers -> States]
  /\ is_coordinator \subseteq up
  /\ coordinator_ip \in [Servers -> Servers \cup {NoServer, Nobody}]
  /\ waited \subseteq up
  /\ testing \in [Servers -> Servers \cup {NoServer, Nobody}]
  /\ net \subseteq Messages
  /\ answered \subseteq up
  /\ announced \subseteq Servers
  /\ faults \in 0 .. MaxFaults

\* A server that is not in an election is the coordinator or knows one: the
\* tester then has an address to test.  Elections, demotions, restarts and
\* late heartbeat results all have to keep it so.
SettledKnowsCoordinator ==
  \A s \in up : state[s] = "NOT_IN_PROGRESS" =>
    s \in is_coordinator \/ coordinator_ip[s] \in Servers \ {s}

\* A server only follows, and only gives way to, one that won an election.
FollowsAnnounced ==
  /\ is_coordinator \subseteq announced
  /\ \A s \in up : coordinator_ip[s] \in Servers => coordinator_ip[s] \in announced

\* The server with the highest id waits for nobody's announcement: whoever
\* waits has heard of an election by a higher id.
DefersUpwards ==
  \A s \in Servers : state[s] = "WAITING_FOR_COORD" => \E r \in Servers : r > s

\* When messages overtake timeouts and servers do not fail, an announcement
\* never leaves the network without a coordinator: nobody gives way to a
\* server that has itself given way.
NeverHeadless == announced # {} => is_coordinator # {}

\* ... and once no message is left and every server has settled, they agree
\* on exactly one coordinator.
QuietAgreement ==
  net = {} /\ (\A s \in up : state[s] = "NOT_IN_PROGRESS") /\ up # {} =>
    \E c \in up : is_coordinator = {c}

\* As soon as some server runs, a coordinator emerges.
CoordinatorEmerges == up # {} ~> is_coordinator # {}

\* "no answers or coordinator announcement received, become coordinator": a
\* server to which a higher one answered does not promote itself.
PromotedUnanswered ==
  [][\A s \in Servers : s \in is_coordinator' \ is_coordinator => s \notin answered]_vars

\* "if we have lower id, do nothing and wait for coordinator announcement":
\* a server that waits for an announcement does not wait for ever.
WaitingEnds ==
  \A s \in Servers : state[s] = "WAITING_FOR_COORD" ~> state[s] # "WAITING_FOR_COORD"

=============================================================================
