--------------------------- MODULE ElectionProofs ---------------------------
(***************************************************************************)
(* Proofs about Election, for any number of servers, of messages under way *)
(* and of faults.                                                          *)
(***************************************************************************)
EXTENDS Election, TLAPS

\* What a message tells its receiver: it comes from another server, and an
\* announcement comes from one that has won an election.
NetIsTrue ==
  \A m \in net : /\ m.from # m.to
                 /\ m.type = "CRD" => m.from \in announced

\* A server that does not run is in the state it will start in.
DownIsInit == \A s \in Servers \ up : state[s] = "INIT" /\ testing[s] = NoServer

IInv ==
  /\ TypeOK
  /\ NetIsTrue
  /\ DownIsInit
  /\ SettledKnowsCoordinator
  /\ FollowsAnnounced
  /\ DefersUpwards

LEMMA InitIInv == Init => IInv
  BY ElectionAssumption
     DEF Init, IInv, TypeOK, States, NetIsTrue, DownIsInit, SettledKnowsCoordinator,
         FollowsAnnounced, DefersUpwards

\* What is broadcast or answered is a message to another server.
Truthful(M) ==
  /\ M \subseteq Messages
  /\ \A m \in M : m.from # m.to /\ m.type # "CRD"

LEMMA Sent ==
  ASSUME NEW s \in Servers
  PROVE  /\ Truthful(Reachable(Broadcast("ELE", s)))
         /\ \A r \in Servers \ {s} :
              /\ Truthful(Reachable({Message("ANS", s, r)}))
              /\ Truthful(Reachable(Broadcast("ELE", s) \cup {Message("ANS", s, r)}))
  BY DEF Reachable, Broadcast, Message, Messages, Truthful

LEMMA Announced ==
  ASSUME NEW s \in Servers
  PROVE  /\ Reachable(Broadcast("CRD", s)) \subseteq Messages
         /\ \A m \in Reachable(Broadcast("CRD", s)) : m.from = s /\ m.to # s
  BY DEF Reachable, Broadcast, Message, Messages

\* A step that takes messages from the net and adds truthful ones, and keeps
\* those who have announced themselves, keeps the net true.
LEMMA StaysTrue ==
  ASSUME net \subseteq Messages, NetIsTrue, announced' = announced,
         NEW M, Truthful(M), net' \subseteq net \cup M
  PROVE  net' \subseteq Messages /\ NetIsTrue'
  BY DEF NetIsTrue, Truthful

\* Every step of the election preserves the invariant, one action at a time.
LEMMA StepIInv == IInv /\ [Next]_vars => IInv'
<1> SUFFICES ASSUME IInv, [Next]_vars PROVE IInv'
  OBVIOUS
<1> USE ElectionAssumption
        DEF IInv, TypeOK, States, NetIsTrue, DownIsInit, SettledKnowsCoordinator,
            FollowsAnnounced, DefersUpwards, fsm, hist
<1>1. CASE UNCHANGED vars
  BY <1>1 DEF vars
<1>2. ASSUME NEW s \in Servers, Boot(s) PROVE IInv'
  BY <1>2 DEF Boot
<1>3. ASSUME NEW s \in Servers, Crash(s) PROVE IInv'
  BY <1>3 DEF Crash, Fault
<1>4. ASSUME NEW m \in net, Lose(m) PROVE IInv'
  BY <1>4 DEF Lose, Fault
<1>5. ASSUME NEW s \in Servers, Start(s) PROVE IInv'
  <2>1. net' \subseteq net \cup Reachable(Broadcast("ELE", s)) /\ announced' = announced
    BY <1>5 DEF Start
  <2>2. net' \subseteq Messages /\ NetIsTrue'
    BY <2>1, Sent, StaysTrue
  <2> QED
    BY <1>5, <2>2 DEF Start, Enter
<1>6. ASSUME NEW s \in Servers, NEW m \in net, Receives(s, m, m.type) PROVE
        /\ ReceiveCoordinator(s, m) => IInv'
        /\ ReceiveAnswer(s, m) => IInv'
        /\ JoinElection(s, m) => IInv'
        /\ AnswerElection(s, m) => IInv'
        /\ Defer(s, m) => IInv'
        /\ IgnoreElection(s, m) => IInv'
  <2>1. m.from \in Servers /\ m.from # s /\ m.to = s
    BY <1>6 DEF Receives, Messages
  <2>2. ASSUME ReceiveCoordinator(s, m) PROVE IInv'
    BY <2>1, <2>2 DEF ReceiveCoordinator, Receives, Enter
  <2>3. ASSUME ReceiveAnswer(s, m) PROVE IInv'
    BY <2>1, <2>3 DEF ReceiveAnswer, Receives
  <2>4. ASSUME JoinElection(s, m) PROVE IInv'
    <3>1. /\ net' \subseteq net \cup Reachable(Broadcast("ELE", s) \cup {Message("ANS", s, m.from)})
          /\ announced' = announced
      BY <2>4 DEF JoinElection
    <3>2. net' \subseteq Messages /\ NetIsTrue'
      BY <2>1, <3>1, Sent, StaysTrue
    <3> QED
      BY <2>1, <2>4, <3>2 DEF JoinElection, Receives, Enter
  <2>5. ASSUME AnswerElection(s, m) PROVE IInv'
    <3>1. /\ net' \subseteq net \cup Reachable({Message("ANS", s, m.from)})
          /\ announced' = announced
      BY <2>5 DEF AnswerElection
    <3>2. net' \subseteq Messages /\ NetIsTrue'
      BY <2>1, <3>1, Sent, StaysTrue
    <3> QED
      BY <2>1, <2>5, <3>2 DEF AnswerElection, Receives
  <2>6. ASSUME Defer(s, m) PROVE IInv'
    <3>1. /\ state' = [state EXCEPT ![s] = "WAITING_FOR_COORD"]
          /\ answered' = answered \ {s} /\ net' = net \ {m}
          /\ UNCHANGED <<up, is_coordinator, coordinator_ip, waited, testing, announced, faults>>
          /\ m.from > s /\ s \in up
      BY <2>6 DEF Defer, Receives, Enter
    <3>2. DefersUpwards'
      <4>1. \E r \in Servers : r > s
        BY <2>1, <3>1
      <4>2. \A r \in Servers \ {s} : state'[r] = state[r]
        BY <3>1
      <4> QED
        BY <4>1, <4>2
    <3>3. TypeOK' /\ NetIsTrue' /\ DownIsInit'
      BY <3>1
    <3>4. SettledKnowsCoordinator' /\ FollowsAnnounced'
      BY <3>1
    <3> QED
      BY <3>2, <3>3, <3>4
  <2>7. ASSUME IgnoreElection(s, m) PROVE IInv'
    BY <2>7 DEF IgnoreElection
  <2> QED
    BY <2>2, <2>3, <2>4, <2>5, <2>6, <2>7
<1>7. ASSUME NEW s \in Servers, Timeout(s) PROVE IInv'
  BY <1>7, Announced DEF Timeout, Enter
<1>8. ASSUME NEW s \in Servers, WaitElapses(s) \/ ClockWraps(s) PROVE IInv'
  <2>1. CASE WaitElapses(s)
    BY <2>1 DEF WaitElapses
  <2>2. CASE ClockWraps(s)
    BY <2>2 DEF ClockWraps, Fault
  <2> QED
    BY <1>8, <2>1, <2>2
<1>9. ASSUME NEW s \in Servers, HeartbeatTest(s) \/ HeartbeatAnswered(s) PROVE IInv'
  <2>1. CASE HeartbeatTest(s)
    BY <2>1 DEF HeartbeatTest
  <2>2. CASE HeartbeatAnswered(s)
    BY <2>2 DEF HeartbeatAnswered
  <2> QED
    BY <1>9, <2>1, <2>2
<1>10. ASSUME NEW s \in Servers, HeartbeatLost(s) PROVE IInv'
  <2>1. net' \subseteq net \cup Reachable(Broadcast("ELE", s)) /\ announced' = announced
    BY <1>10 DEF HeartbeatLost
  <2>2. net' \subseteq Messages /\ NetIsTrue'
    BY <2>1, Sent, StaysTrue
  <2>3. /\ faults' \in 0 .. MaxFaults
        /\ UNCHANGED <<up, is_coordinator, coordinator_ip, waited, announced>>
        /\ testing' = [testing EXCEPT ![s] = NoServer]
    BY <1>10 DEF HeartbeatLost, Fault
  <2>4. \/ state' = [state EXCEPT ![s] = "IN_PROGRESS"] /\ answered' = answered \ {s}
        \/ UNCHANGED <<state, answered>>
    BY <1>10 DEF HeartbeatLost, Enter
  <2>5. s \in up
    BY <1>10 DEF HeartbeatLost
  <2>6. state' \in [Servers -> States] /\ answered' \subseteq up'
    BY <2>3, <2>4
  <2>7. DownIsInit'
    BY <2>3, <2>4, <2>5
  <2>8. TypeOK'
    BY <2>2, <2>3, <2>6
  <2>9. SettledKnowsCoordinator' /\ FollowsAnnounced' /\ DefersUpwards'
    BY <2>3, <2>4, <2>5
  <2> QED
    BY <2>2, <2>7, <2>8, <2>9
<1>11. ASSUME NEW s \in Servers, Receive(s) PROVE IInv'
  BY <1>6, <1>11 DEF Receive, Receives, ReceiveCoordinator, ReceiveAnswer, JoinElection,
     AnswerElection, Defer, IgnoreElection
<1> QED
  BY <1>1, <1>2, <1>3, <1>4, <1>5, <1>7, <1>8, <1>9, <1>10, <1>11
     DEF Next, Machine, Tester

LEMMA Always == Spec => []IInv
  BY InitIInv, StepIInv, PTL DEF Spec

\* The variables of Election keep their types: no transition assigns a value
\* of another enumeration to state, an int in the code.
THEOREM Types == Spec => []TypeOK
<1>1. IInv => TypeOK
  BY DEF IInv
<1> QED
  BY <1>1, Always, PTL

\* A server that is in no election is the coordinator or has the address of
\* another server to test, whatever was lost, late, repeated or restarted.
THEOREM SettledAlwaysKnows == Spec => []SettledKnowsCoordinator
<1>1. IInv => SettledKnowsCoordinator
  BY DEF IInv
<1> QED
  BY <1>1, Always, PTL

\* Servers only follow or give way to a server that has announced itself.
THEOREM OnlyAnnouncedAreFollowed == Spec => []FollowsAnnounced
<1>1. IInv => FollowsAnnounced
  BY DEF IInv
<1> QED
  BY <1>1, Always, PTL

\* Whoever waits for an announcement waits for a higher server's: the highest
\* one never waits.
THEOREM WaitersDeferUpwards == Spec => []DefersUpwards
<1>1. IInv => DefersUpwards
  BY DEF IInv
<1> QED
  BY <1>1, Always, PTL

-----------------------------------------------------------------------------
(* The fast network.  A server announces itself only when no message to it *)
(* is under way.  So the one that did so last hears no older announcement  *)
(* afterwards: it stays the coordinator until another one announces itself *)
(* in turn, and whoever else takes itself for one has yet to receive an    *)
(* announcement.                                                           *)

Immortal == FastNetwork /\ "crash" \notin Faults
Reliable == Immortal /\ "loss" \notin Faults

Addressed(s) == \E m \in net : m.type = "CRD" /\ m.to = s

\* c announced itself last.
Prevails(c) == c \in is_coordinator /\ state[c] # "INIT" /\ ~ Addressed(c)

Rivals(c) == \A s \in is_coordinator \ {c} : Addressed(s)

Headed ==
  announced # {} => \E c \in Servers : Prevails(c) /\ (Reliable => Rivals(c))

\* Announcements under way stay so, and who is no coordinator stays none.
LEMMA Undisturbed ==
  ASSUME NEW c, Prevails(c), Reliable => Rivals(c),
         c \in is_coordinator', is_coordinator' \subseteq is_coordinator, state'[c] # "INIT",
         \A m \in net' : m.type = "CRD" => m \in net,
         Reliable => \A m \in net : m.type = "CRD" => m \in net' \/ m.to \notin is_coordinator'
  PROVE  Prevails(c)' /\ (Reliable => Rivals(c)')
  BY DEF Prevails, Rivals, Addressed

LEMMA HeadedStep == IInv /\ Headed /\ [Next]_vars => (Immortal => Headed')
<1> SUFFICES ASSUME IInv, Headed, [Next]_vars, Immortal, announced' # {}
             PROVE  \E c \in Servers : Prevails(c)' /\ (Reliable => Rivals(c)')
  BY DEF Headed
<1> USE DEF fsm, hist, Enter
<1> DEFINE Goal == \E c \in Servers : Prevails(c)' /\ (Reliable => Rivals(c)')
<1>1. ASSUME NEW s \in Servers, Timeout(s) PROVE Goal
  <2>1. /\ is_coordinator' = is_coordinator \cup {s}
        /\ net' = net \cup Reachable(Broadcast("CRD", s))
        /\ \A m \in net : m.to # s
        /\ state' = [state EXCEPT ![s] = "NOT_IN_PROGRESS"]
    BY <1>1 DEF Timeout, Immortal
  <2>2. Prevails(s)'
    BY <2>1, Announced DEF Prevails, Addressed, IInv, TypeOK
  <2>3. \A r \in is_coordinator' \ {s} : Message("CRD", s, r) \in net'
    BY <2>1 DEF Reachable, Broadcast, Message, IInv, TypeOK
  <2>4. Rivals(s)'
    BY <2>3 DEF Rivals, Addressed, Message
  <2> QED
    BY <2>2, <2>4
<1>2. ASSUME announced' = announced,
             \A c \in Servers : Prevails(c) =>
               c \in is_coordinator' /\ is_coordinator' \subseteq is_coordinator /\ state'[c] # "INIT",
             \A m \in net' : m.type = "CRD" => m \in net,
             Reliable => \A m \in net : m.type = "CRD" => m \in net' \/ m.to \notin is_coordinator'
      PROVE  Goal
  BY <1>2, Undisturbed DEF Headed
<1>3. \A M : \A s \in Servers : M = Reachable(Broadcast("ELE", s)) =>
        \A m \in M : m.type # "CRD"
  BY Sent DEF Truthful
<1>4. CASE UNCHANGED vars
  BY <1>2, <1>4 DEF vars, Prevails
<1>5. ASSUME NEW s \in Servers, Boot(s) PROVE Goal
  BY <1>2, <1>5 DEF Boot, Prevails
<1>6. ASSUME NEW s \in Servers, Crash(s) PROVE Goal
  BY <1>6 DEF Crash, Fault, Immortal
<1>7. ASSUME NEW m \in net, Lose(m) PROVE Goal
  BY <1>2, <1>7 DEF Lose, Fault, Reliable, Prevails
<1>8. ASSUME NEW s \in Servers, Start(s) PROVE Goal
  <2>1. /\ state[s] = "INIT" /\ is_coordinator' = is_coordinator \ {s} /\ announced' = announced
        /\ state' = [state EXCEPT ![s] = "IN_PROGRESS"]
    BY <1>8 DEF Start
  <2>2. PICK read \in {{}} \cup {{m} : m \in {n \in net : n.to = s}} :
          net' = (net \ read) \cup Reachable(Broadcast("ELE", s))
    BY <1>8 DEF Start
  <2>3. \A m \in net' : m.type = "CRD" => m \in net
    BY <1>3, <2>2
  <2>4. \A m \in net : m \in net' \/ m.to \notin is_coordinator'
    BY <2>1, <2>2
  <2>5. \A c \in Servers : Prevails(c) =>
          c \in is_coordinator' /\ is_coordinator' \subseteq is_coordinator /\ state'[c] # "INIT"
    BY <2>1 DEF Prevails, IInv, TypeOK
  <2> QED
    BY <1>2, <2>1, <2>3, <2>4, <2>5
<1>9. ASSUME NEW s \in Servers, NEW m \in net, ReceiveCoordinator(s, m) PROVE Goal
  <2>1. /\ m.type = "CRD" /\ m.to = s /\ is_coordinator' = is_coordinator \ {s}
        /\ net' = net \ {m} /\ announced' = announced
        /\ state' = [state EXCEPT ![s] = "NOT_IN_PROGRESS"]
    BY <1>9 DEF ReceiveCoordinator, Receives
  <2>2. \A c \in Servers : Prevails(c) =>
          c \in is_coordinator' /\ is_coordinator' \subseteq is_coordinator /\ state'[c] # "INIT"
    BY <2>1 DEF Prevails, Addressed, IInv, TypeOK
  <2> QED
    BY <1>2, <2>1, <2>2
<1>10. ASSUME NEW s \in Servers, NEW m \in net, NEW type \in {"ELE", "ANS"}, Receives(s, m, type),
              \A n \in net' : n.type = "CRD" => n \in net, net \ {m} \subseteq net',
              UNCHANGED <<is_coordinator, announced>>,
              \A r \in Servers : state[r] # "INIT" => state'[r] # "INIT"
       PROVE  Goal
  BY <1>2, <1>10 DEF Receives, Prevails
<1>11. ASSUME NEW s \in Servers, NEW m \in net,
              \/ ReceiveAnswer(s, m) \/ JoinElection(s, m) \/ AnswerElection(s, m)
              \/ Defer(s, m) \/ IgnoreElection(s, m)
       PROVE  Goal
  <2>0. m \in Messages /\ m.from # m.to /\ state \in [Servers -> States]
    BY DEF IInv, TypeOK, NetIsTrue
  <2>1. CASE ReceiveAnswer(s, m)
    BY <1>10, <2>1 DEF ReceiveAnswer
  <2>2. CASE JoinElection(s, m)
    <3>1. /\ Receives(s, m, "ELE") /\ m.from \in Servers \ {s}
          /\ net' = (net \ {m}) \cup Reachable(Broadcast("ELE", s) \cup {Message("ANS", s, m.from)})
          /\ UNCHANGED <<is_coordinator, announced>>
          /\ state' = [state EXCEPT ![s] = "IN_PROGRESS"]
      BY <2>0, <2>2 DEF JoinElection, Receives, Messages
    <3>2. \A n \in Reachable(Broadcast("ELE", s) \cup {Message("ANS", s, m.from)}) : n.type # "CRD"
      BY <3>1, Sent DEF Truthful
    <3>3. \A r \in Servers : state[r] # "INIT" => state'[r] # "INIT"
      BY <2>0, <3>1
    <3> QED
      BY <1>10, <3>1, <3>2, <3>3
  <2>3. CASE AnswerElection(s, m)
    <3>1. /\ Receives(s, m, "ELE") /\ m.from \in Servers \ {s}
          /\ net' = (net \ {m}) \cup Reachable({Message("ANS", s, m.from)})
          /\ UNCHANGED <<is_coordinator, announced, state>>
      BY <2>0, <2>3 DEF AnswerElection, Receives, Messages
    <3>2. \A n \in Reachable({Message("ANS", s, m.from)}) : n.type # "CRD"
      BY <3>1, Sent DEF Truthful
    <3> QED
      BY <1>10, <3>1, <3>2
  <2>4. CASE Defer(s, m)
    <3>1. /\ Receives(s, m, "ELE") /\ net' = net \ {m}
          /\ UNCHANGED <<is_coordinator, announced>>
          /\ state' = [state EXCEPT ![s] = "WAITING_FOR_COORD"]
      BY <2>4 DEF Defer
    <3>2. \A r \in Servers : state[r] # "INIT" => state'[r] # "INIT"
      BY <2>0, <3>1
    <3> QED
      BY <1>10, <3>1, <3>2
  <2>5. CASE IgnoreElection(s, m)
    BY <1>10, <2>5 DEF IgnoreElection
  <2> QED
    BY <1>11, <2>1, <2>2, <2>3, <2>4, <2>5
<1>12. ASSUME NEW s \in Servers,
              \/ WaitElapses(s) \/ ClockWraps(s) \/ HeartbeatTest(s) \/ HeartbeatAnswered(s)
       PROVE  Goal
  BY <1>2, <1>12 DEF WaitElapses, ClockWraps, HeartbeatTest, HeartbeatAnswered, Prevails
<1>13. ASSUME NEW s \in Servers, HeartbeatLost(s) PROVE Goal
  <2>1. UNCHANGED <<is_coordinator, announced>>
    BY <1>13 DEF HeartbeatLost
  <2>2. \A r \in Servers : state[r] # "INIT" => state'[r] # "INIT"
    BY <1>13 DEF HeartbeatLost, IInv, TypeOK
  <2>3. /\ \A m \in net' : m.type = "CRD" => m \in net
        /\ \A m \in net : m.type = "CRD" => m \in net'
    BY <1>3, <1>13 DEF HeartbeatLost, Receives
  <2> QED
    BY <1>2, <2>1, <2>2, <2>3 DEF Prevails
<1> QED
  BY <1>1, <1>4, <1>5, <1>6, <1>7, <1>8, <1>9, <1>11, <1>12, <1>13
     DEF Next, Machine, Tester, Receive

LEMMA AlwaysHeaded == Spec => [](Immortal => Headed)
<1>1. Init => (Immortal => Headed)
  BY DEF Init, Headed
<1>2. IInv /\ (Immortal => Headed) /\ [Next]_vars => (Immortal => Headed)'
  BY HeadedStep DEF Immortal
<1> QED
  BY <1>1, <1>2, Always, PTL DEF Spec

\* On a fast network, whose servers do not end, no exchange of elections and
\* announcements leaves the servers without a coordinator once there was one,
\* whatever messages are lost and tests fail.
THEOREM AlwaysACoordinator == Spec => [](Immortal => NeverHeadless)
<1>1. (Immortal => Headed) => (Immortal => NeverHeadless)
  BY DEF Headed, Prevails, NeverHeadless
<1> QED
  BY <1>1, AlwaysHeaded, PTL

\* If no message is lost either, one server and no other takes itself for the
\* coordinator when the election is over.
THEOREM OneCoordinatorWhenQuiet == Spec => [](Reliable => QuietAgreement)
<1>1. IInv /\ (Immortal => Headed) => (Reliable => QuietAgreement)
  <2> SUFFICES ASSUME IInv, Headed, Reliable, net = {}, up # {},
                      \A s \in up : state[s] = "NOT_IN_PROGRESS"
               PROVE  \E c \in up : is_coordinator = {c}
    BY DEF QuietAgreement, Reliable
  <2>1. announced # {}
    BY DEF IInv, SettledKnowsCoordinator, FollowsAnnounced
  <2>2. PICK c \in Servers : Prevails(c) /\ Rivals(c)
    BY <2>1 DEF Headed
  <2> QED
    BY <2>2 DEF Prevails, Rivals, Addressed, IInv, TypeOK
<1> QED
  BY <1>1, Always, AlwaysHeaded, PTL
=============================================================================
