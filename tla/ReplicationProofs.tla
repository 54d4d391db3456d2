------------------------- MODULE ReplicationProofs --------------------------
(***************************************************************************)
(* Proofs about Replication, for any number of servers, clients, threads   *)
(* and requests.                                                           *)
(***************************************************************************)
EXTENDS Replication, SumTheorems, TLAPS

Labels == {"idle", "changing", "metadata", "records", "answer"}

\* Who runs, and where the threads are.
Places ==
  /\ up \subseteq Servers
  /\ coordinator \in up \cup {NoServer}
  /\ pc \in [Servers -> [Threads -> Labels]]
  /\ faults \in Nat

\* The steps of a thread leave the servers as they are, and move one thread.
LEMMA ThreadMoves ==
  ASSUME Places, NEW s \in Servers, NEW t \in Threads, ThreadStep(s, t)
  PROVE  /\ UNCHANGED <<up, coordinator, behind, faults>>
         /\ \E l \in Labels : pc' = [pc EXCEPT ![s][t] = l]
<1> USE DEF servers, hist, Request, Begin, Goto, Labels, Places, Finish
<1>1. ASSUME NEW c \in Clients, Register(s, t, c)
      PROVE  /\ UNCHANGED <<up, coordinator, behind, faults>>
             /\ \E l \in Labels : pc' = [pc EXCEPT ![s][t] = l]
  BY <1>1 DEF Register
<1>2. CASE Process(s, t)
  <2>1. ASSUME NEW c \in Clients, Remove(s, t, c)
        PROVE  /\ UNCHANGED <<up, coordinator, behind, faults>>
               /\ \E l \in Labels : pc' = [pc EXCEPT ![s][t] = l]
    BY <2>1 DEF Remove
  <2>2. ASSUME NEW c \in Clients, NEW r \in Clients, NEW a \in Amounts, Debit(s, t, c, r, a)
        PROVE  /\ UNCHANGED <<up, coordinator, behind, faults>>
               /\ \E l \in Labels : pc' = [pc EXCEPT ![s][t] = l]
    BY <2>2 DEF Debit
  <2>3. ASSUME NEW c \in Clients, NEW r \in Clients, NEW a \in Amounts, Refuse(s, t, c, r, a)
        PROVE  /\ UNCHANGED <<up, coordinator, behind, faults>>
               /\ \E l \in Labels : pc' = [pc EXCEPT ![s][t] = l]
    <3>1. pc' = [pc EXCEPT ![s][t] = pc[s][t]]
      BY <2>3 DEF Refuse
    <3> QED
      BY <2>3, <3>1 DEF Refuse
  <2> QED
    BY <1>2, <2>1, <2>2, <2>3 DEF Process
<1>3. CASE Complete(s, t)
  BY <1>3 DEF Complete
<1>4. CASE AnswerElection(s, t)
  BY <1>4 DEF AnswerElection
<1>5. CASE CopyMetadata(s, t)
  BY <1>5 DEF CopyMetadata
<1>6. CASE Broadcast(s, t)
  BY <1>6 DEF Broadcast
<1>7. CASE Answer(s, t)
  BY <1>7 DEF Answer
<1> QED
  BY <1>1, <1>2, <1>3, <1>4, <1>5, <1>6, <1>7 DEF ThreadStep

LEMMA PlacesInit == Init => Places
  BY DEF Init, Places, Labels

LEMMA PlacesStep == Places /\ [Next]_vars => Places'
<1> SUFFICES ASSUME Places, [Next]_vars PROVE Places'
  OBVIOUS
<1>1. CASE UNCHANGED vars
  BY <1>1 DEF Places, vars, servers, threads
<1>2. ASSUME NEW s \in Servers, Boot(s) PROVE Places'
  BY <1>2 DEF Boot, Places, threads
<1>3. ASSUME NEW s \in Servers, Elect(s) PROVE Places'
  BY <1>3 DEF Elect, Places, threads
<1>4. ASSUME NEW s, Stop(s) PROVE Places'
  <2>1. pc' = [pc EXCEPT ![s] = [t \in Threads |-> "idle"]]
    BY <1>4 DEF Stop, Fresh
  <2>2. pc' \in [Servers -> [Threads -> Labels]]
    BY <2>1 DEF Places, Labels
  <2> QED
    BY <1>4, <2>2 DEF Stop, Fault, Places
<1>5. ASSUME NEW s \in Servers, NEW t \in Threads, ThreadStep(s, t) PROVE Places'
  BY <1>5, ThreadMoves DEF Places
<1>6. ASSUME NEW m \in net, Lose(m) PROVE Places'
  BY <1>6 DEF Lose, Fault, Places, servers, threads
<1>7. CASE IgnoreElection
  BY <1>7 DEF IgnoreElection, Fault, Places, threads
<1>8. ASSUME NEW m \in net, Receive(m) PROVE Places'
  <2>1. ASSUME NEW d, Load(m, d) PROVE Places'
    BY <2>1 DEF Load, Places, servers, threads
  <2> QED
    BY <1>4, <1>8, <2>1 DEF Receive
<1> QED
  BY <1>1, <1>2, <1>3, <1>4, <1>5, <1>6, <1>7, <1>8 DEF Next, Step, Crash

-----------------------------------------------------------------------------
(* Without faults, a server that has missed something is about to get the  *)
(* coordinator's database: the coordinator will hear of it, is copying its *)
(* database, or a snapshot is under way.  Before the first election there  *)
(* is nothing to miss.                                                     *)

NothingYet ==
  /\ net = {} /\ behind = {}
  /\ \A s \in Servers : db[s] = Empty /\ \A t \in Threads : pc[s][t] = "idle"

Copied == pc[coordinator]["election"] \in {"metadata", "records"}

WillHear ==
  /\ behind \subseteq up \ {coordinator}
  /\ asked \/ Copied \/ \A s \in behind : \E m \in net : m.to = s

Informed ==
  faults = 0 => IF coordinator = NoServer THEN NothingYet ELSE WillHear

\* Nobody has an account before there is a coordinator to register clients.
LEMMA NothingHappens ==
  ASSUME Places, NothingYet, coordinator = NoServer,
         NEW s \in Servers, NEW t \in Threads, ThreadStep(s, t)
  PROVE  FALSE
<1>1. pc[s][t] = "idle" /\ Records(s) = {}
  BY DEF NothingYet, Records, Empty, Database
<1> QED
  BY <1>1, ReplicationAssumption
     DEF ThreadStep, Register, Process, Remove, Debit, Refuse, Transferable, Complete,
         AnswerElection, CopyMetadata, Broadcast, Answer

LEMMA InformedStep == Places /\ Places' /\ Informed /\ [Next]_vars => Informed'
<1> SUFFICES ASSUME Places, Places', Informed, [Next]_vars, faults' = 0
             PROVE  IF coordinator' = NoServer THEN NothingYet' ELSE WillHear'
  BY DEF Informed
<1>0. "election" \in Threads
  BY DEF Threads
<1>1. CASE UNCHANGED vars
  BY <1>1 DEF Informed, NothingYet, WillHear, Copied, vars, servers, threads, hist
<1>2. ASSUME NEW s \in Servers, Boot(s)
      PROVE  IF coordinator' = NoServer THEN NothingYet' ELSE WillHear'
  <2>1. UNCHANGED <<coordinator, net, db, pc, faults>> /\ asked' = (coordinator # NoServer)
    BY <1>2 DEF Boot, threads
  <2>2. CASE coordinator = NoServer
    <3>1. behind' = behind \ {s}
      BY <1>2, <2>1, <2>2 DEF Boot, Informed, NothingYet, Places
    <3> QED
      BY <2>1, <2>2, <3>1 DEF Informed, NothingYet
  <2>3. CASE coordinator # NoServer
    BY <1>2, <2>1, <2>3 DEF Boot, Informed, WillHear, Places
  <2> QED
    BY <2>2, <2>3
<1>3. ASSUME NEW s \in Servers, Elect(s)
      PROVE  IF coordinator' = NoServer THEN NothingYet' ELSE WillHear'
  <2>1. /\ UNCHANGED <<up, asked, net, behind, faults>> /\ coordinator' = s /\ s \in up
        /\ net = {} /\ ~ asked
        /\ \A r \in up : pc[r]["election"] = "idle"
    BY <1>3 DEF Elect, hist
  <2>2. behind = {}
    BY <2>1 DEF Informed, NothingYet, WillHear, Copied, Places
  <2> QED
    BY <2>1, <2>2, ReplicationAssumption DEF WillHear, Places
<1>4. ASSUME NEW s, Stop(s) PROVE FALSE
  BY <1>4 DEF Stop, Fault, Places
<1>5. ASSUME NEW s \in Servers, NEW t \in Threads, ThreadStep(s, t)
      PROVE  IF coordinator' = NoServer THEN NothingYet' ELSE WillHear'
  <2>1. coordinator # NoServer /\ faults = 0
    BY <1>5, NothingHappens, ThreadMoves DEF Informed
  <2>2. WillHear /\ UNCHANGED <<up, coordinator, behind>> /\ coordinator \in up
    BY <1>5, <2>1, ThreadMoves DEF Informed, Places
  <2> SUFFICES WillHear'
    BY <2>1, <2>2
  <2>3. net \subseteq net'
    BY <1>5 DEF ThreadStep, Register, Process, Remove, Debit, Refuse, Request, Complete,
                AnswerElection, CopyMetadata, Broadcast, Answer
  <2>4. CASE AnswerElection(s, t)
    <3>1. Copied'
      BY <1>0, <2>2, <2>4 DEF AnswerElection, Goto, Copied, Places
    <3> QED
      BY <2>2, <3>1 DEF WillHear
  <2>5. CASE Broadcast(s, t)
    <3>1. CASE s = coordinator /\ t = "election"
      <4>1. \A r \in behind : \E m \in net' : m.to = r
        <5> DEFINE M(r) == [to |-> r, snapshot |-> [copy[s][t] EXCEPT !.records = db[s].records]]
        <5>1. \A r \in up \ {s} : M(r) \in net'
          BY <2>5 DEF Broadcast
        <5>2. \A r : M(r).to = r
          OBVIOUS
        <5> QED
          BY <2>2, <3>1, <5>1, <5>2 DEF WillHear
      <4> QED
        BY <2>2, <4>1 DEF WillHear
    <3>2. CASE ~ (s = coordinator /\ t = "election")
      <4>1. pc'[coordinator]["election"] = pc[coordinator]["election"]
        BY <1>0, <1>5, <2>2, <3>2, ThreadMoves DEF Places
      <4>2. UNCHANGED asked
        BY <2>5 DEF Broadcast, servers
      <4> QED
        BY <2>2, <2>3, <4>1, <4>2 DEF WillHear, Copied
    <3> QED
      BY <3>1, <3>2
  <2>6. CASE ~ AnswerElection(s, t) /\ ~ Broadcast(s, t)
    <3>1. UNCHANGED asked
      BY <1>5, <2>6 DEF ThreadStep, Register, Process, Remove, Debit, Refuse, Request, Complete,
                        CopyMetadata, Answer, servers
    <3>2. Copied => Copied'
      <4>1. CASE s = coordinator /\ t = "election" /\ CopyMetadata(s, t)
        BY <1>0, <2>2, <4>1 DEF CopyMetadata, Goto, Copied, Places
      <4>2. CASE ~ (s = coordinator /\ t = "election")
        BY <1>0, <1>5, <2>2, <4>2, ThreadMoves DEF Copied, Places
      <4>3. CASE s = coordinator /\ t = "election" /\ ~ CopyMetadata(s, t)
        <5>1. pc[s][t] \in {"idle", "changing", "answer"}
          BY <1>5, <2>6, <4>3 DEF ThreadStep, Register, Process, Remove, Debit, Refuse, Request,
                                  Begin, Complete, Answer
        <5> QED
          BY <4>3, <5>1 DEF Copied
      <4> QED
        BY <4>1, <4>2, <4>3
    <3> QED
      BY <2>2, <2>3, <3>1, <3>2 DEF WillHear
  <2> QED
    BY <2>1, <2>2, <2>4, <2>5, <2>6
<1>6. ASSUME NEW m \in net, Lose(m) PROVE FALSE
  BY <1>6 DEF Lose, Fault, Places
<1>7. CASE IgnoreElection
  BY <1>7 DEF IgnoreElection, Fault, Places
<1>8. ASSUME NEW m \in net, NEW d, Load(m, d)
      PROVE  IF coordinator' = NoServer THEN NothingYet' ELSE WillHear'
  <2>1. /\ UNCHANGED <<up, coordinator, asked, pc, faults>>
        /\ net' = net \ {m} /\ behind' = behind \ {m.to}
    BY <1>8 DEF Load, servers, threads
  <2>2. coordinator # NoServer
    BY <2>1 DEF Informed, NothingYet
  <2> QED
    BY <2>1, <2>2 DEF Informed, WillHear, Copied
<1>9. ASSUME NEW m \in net, Receive(m)
      PROVE  \E d : Load(m, d)
  BY <1>4, <1>9 DEF Receive
<1> QED
  BY <1>1, <1>2, <1>3, <1>4, <1>5, <1>6, <1>7, <1>8, <1>9 DEF Next, Step, Crash

\* A server that takes over has got the database, because every coordinator
\* broadcasts it for the servers that start, as long as nothing fails.
THEOREM SuccessorsAreInformed == Spec => []TakesOverInformed
<1>1. Init => Informed
  BY DEF Init, Informed, NothingYet
<1>2. Places /\ Informed => TakesOverInformed
  BY ReplicationAssumption DEF Informed, NothingYet, WillHear, TakesOverInformed
<1> QED
  BY <1>1, <1>2, PlacesInit, PlacesStep, InformedStep, PTL DEF Spec

-----------------------------------------------------------------------------
(* The values: whatever is loaded, in whatever order and however cut.      *)

IsDb(d) ==
  /\ d \in [num_transactions : Nat, total_transferred : 0 .. 2 * INT_MAX + 1,
             total_balance : Int, records : {d.records}]
  /\ d.records \in [DOMAIN d.records -> [balance : Nat, last_request : Nat]]
  /\ DOMAIN d.records \subseteq Clients

Jobs == [op : {"NONE", "DIS", "REQ", "KIL", "ELE"}, client : Clients \cup {NoClient},
         receiver : Clients \cup {NoClient}, amount : Nat]

\* A server that does not run has nothing left of an earlier life.
DownIsFresh ==
  \A s \in Servers \ up : db[s] = Empty /\ \A t \in Threads : pc[s][t] = "idle"

Flags ==
  /\ asked \in BOOLEAN /\ raced \in BOOLEAN /\ disturbed \in BOOLEAN /\ cut \in BOOLEAN
  /\ answered \in Nat /\ updates \in Nat
  /\ behind \subseteq Servers

Typed ==
  /\ db = [s \in Servers |-> db[s]]
  /\ \A s \in Servers : IsDb(db[s])
  /\ copy = [s \in Servers |-> [t \in Threads |-> copy[s][t]]]
  /\ \A s \in Servers, t \in Threads : IsDb(copy[s][t])
  /\ job \in [Servers -> [Threads -> Jobs]]
  /\ \A s \in Servers, t \in Threads : pc[s][t] = "changing" => job[s][t].op \in {"DIS", "REQ", "KIL"}
  /\ \A m \in net : m.to \in up /\ IsDb(m.snapshot)

LEMMA ModuloInRange ==
  ASSUME NEW n \in Nat, NEW k \in Nat \ {0} PROVE n % k \in 0 .. (k - 1)
  OBVIOUS

LEMMA EmptyIsDb == IsDb(Empty)
  BY ReplicationAssumption DEF IsDb, Empty, Database

\* A database with other records.
LEMMA OtherRecords ==
  ASSUME NEW d, IsDb(d), NEW K \in SUBSET Clients,
         NEW f \in [K -> [balance : Nat, last_request : Nat]]
  PROVE  IsDb([d EXCEPT !.records = f])
  BY DEF IsDb

LEMMA FlagsInit == Init => Flags
<1> SUFFICES ASSUME Init PROVE Flags
  OBVIOUS
<1>1. asked = FALSE /\ raced = FALSE /\ disturbed = FALSE /\ cut = FALSE
  BY DEF Init
<1>2. answered \in Nat /\ updates \in Nat /\ behind \subseteq Servers
  BY DEF Init
<1>3. asked \in BOOLEAN /\ raced \in BOOLEAN /\ disturbed \in BOOLEAN /\ cut \in BOOLEAN
  BY <1>1, Zenon
<1> QED
  BY <1>2, <1>3, Zenon DEF Flags

LEMMA FlagsStep == Places /\ Typed /\ Flags /\ [Next]_vars => Flags'
<1> SUFFICES ASSUME Places, Typed, Flags, [Next]_vars PROVE Flags'
  OBVIOUS
<1>1. CASE UNCHANGED vars
  BY <1>1 DEF vars, servers, hist, Flags
<1> DEFINE Bits  == asked \in BOOLEAN /\ disturbed \in BOOLEAN
           Rest  == answered \in Nat /\ updates \in Nat /\ behind \subseteq Servers
<1>2. ASSUME NEW s \in Servers, Boot(s) PROVE Bits' /\ Rest' /\ cut' = cut
  BY <1>2 DEF Boot, Flags
<1>3. ASSUME NEW s \in Servers, Elect(s) PROVE Bits' /\ Rest' /\ cut' = cut
  <2>1. Bits'
    BY <1>3, Zenon DEF Elect, Flags
  <2> QED
    BY <1>3, <2>1 DEF Elect, Flags, hist
<1>4. ASSUME NEW s, Stop(s) PROVE Bits' /\ Rest'
  <2>1. Bits'
    BY <1>4, Zenon DEF Stop, Flags
  <2> QED
    BY <1>4, <2>1 DEF Stop, Flags
<1>5. ASSUME NEW s \in Servers, NEW t \in Threads, ThreadStep(s, t)
      PROVE  Bits' /\ Rest' /\ cut' = cut
  <2>1. ASSUME NEW j, Begin(s, t, j) PROVE disturbed' \in BOOLEAN
    BY <2>1, Zenon DEF Begin
  <2>2. ASSUME NEW j, Request(s, t, j) PROVE Bits' /\ Rest' /\ cut' = cut
    <3>1. disturbed' \in BOOLEAN
      BY <2>1, <2>2 DEF Request
    <3> QED
      BY <2>2, <3>1 DEF Request, servers, hist, Flags
  <2>3. CASE \E c \in Clients : Register(s, t, c)
    <3>1. PICK j : Request(s, t, j)
      BY <2>3 DEF Register
    <3> QED
      BY <2>2, <3>1
  <2>4. CASE Process(s, t)
    <3>1. PICK j : Request(s, t, j)
      BY <2>4 DEF Process, Remove, Debit, Refuse
    <3> QED
      BY <2>2, <3>1
  <2>5. CASE AnswerElection(s, t)
    <3>1. Bits'
      BY <2>1, <2>5 DEF AnswerElection
    <3> QED
      BY <2>5, <3>1 DEF AnswerElection, hist, Flags
  <2>6. CASE Complete(s, t) \/ CopyMetadata(s, t) \/ Broadcast(s, t) \/ Answer(s, t)
    BY <2>6 DEF Complete, CopyMetadata, Broadcast, Answer, servers, hist, Flags
  <2> QED
    BY <1>5, <2>3, <2>4, <2>5, <2>6 DEF ThreadStep
<1>6. ASSUME NEW m \in net, Lose(m) PROVE Bits' /\ Rest' /\ cut' = cut
  BY <1>6 DEF Lose, Places, Typed, Flags, servers
<1>7. ASSUME IgnoreElection PROVE Bits' /\ Rest' /\ cut' = cut
  <2>1. Bits'
    BY <1>7, Zenon DEF IgnoreElection, Flags
  <2> QED
    BY <1>7, <2>1 DEF IgnoreElection, Flags, hist
<1>8. CASE Step /\ raced' = (raced \/ \E s \in up' : Changing(s)' /\ Copying(s)')
  <2>1. raced' \in BOOLEAN
    BY <1>8, Zenon
  <2>2. Bits' /\ Rest' /\ cut' = cut
    BY <1>2, <1>3, <1>4, <1>5, <1>6, <1>7, <1>8 DEF Step, Crash
  <2> QED
    BY <2>1, <2>2 DEF Flags
<1>9. ASSUME NEW m \in net, Receive(m), raced' = (raced \/ Changing(m.to) \/ Copying(m.to))
      PROVE  Flags'
  <2>1. ASSUME NEW d, Load(m, d) PROVE Bits' /\ Rest'
    BY <2>1 DEF Load, Flags, servers
  <2>2. raced' \in BOOLEAN
    BY <1>9, Zenon
  <2>3. cut' \in BOOLEAN
    BY <1>9, Zenon DEF Receive
  <2>4. Bits' /\ Rest'
    BY <1>4, <1>9, <2>1 DEF Receive
  <2> QED
    BY <2>2, <2>3, <2>4 DEF Flags
<1> QED
  BY <1>1, <1>8, <1>9 DEF Next

LEMMA DownInit == Init => DownIsFresh
  BY DEF Init, DownIsFresh

LEMMA StopFresh ==
  ASSUME Places, Typed, NEW s \in Servers, Stop(s)
  PROVE  /\ db'[s] = Empty /\ \A t \in Threads : pc'[s][t] = "idle"
         /\ \A r \in Servers \ {s} :
              db'[r] = db[r] /\ pc'[r] = pc[r] /\ job'[r] = job[r] /\ copy'[r] = copy[r]
  BY DEF Places, Typed, Stop, Fresh

\* Where a thread's step may change the database.
LEMMA ThreadWrites ==
  ASSUME Places, Typed, NEW s \in Servers, NEW t \in Threads, ThreadStep(s, t), s \in up
  PROVE  \A r \in Servers \ {s} : db'[r] = db[r] /\ pc'[r] = pc[r]
<1>1. \A r \in Servers \ {s} : pc'[r] = pc[r]
  BY ThreadMoves DEF Places
<1>2. \A r \in Servers \ {s} : db'[r] = db[r]
  BY DEF Typed, ThreadStep, Register, Process, Remove, Debit, Refuse, SetRecords, Complete,
         AnswerElection, CopyMetadata, Broadcast, Answer
<1> QED
  BY <1>1, <1>2

LEMMA OnlyRunningStep ==
  ASSUME Places, DownIsFresh, NEW s \in Servers, NEW t \in Threads, ThreadStep(s, t)
  PROVE  s \in up
<1>1. pc[s][t] # "idle" => s \in up
  BY DEF DownIsFresh
<1> QED
  BY <1>1 DEF ThreadStep, Register, Process, Remove, Debit, Refuse, Request, Begin, Complete,
              AnswerElection, CopyMetadata, Broadcast, Answer

LEMMA DownStep == Places /\ Typed /\ DownIsFresh /\ [Next]_vars => DownIsFresh'
<1> SUFFICES ASSUME Places, Typed, DownIsFresh, [Next]_vars PROVE DownIsFresh'
  OBVIOUS
<1>1. CASE UNCHANGED vars
  BY <1>1 DEF vars, servers, threads, DownIsFresh
<1>2. ASSUME NEW s \in Servers, Boot(s) PROVE DownIsFresh'
  BY <1>2 DEF Boot, threads, DownIsFresh
<1>3. ASSUME NEW s \in Servers, Elect(s) PROVE DownIsFresh'
  BY <1>3 DEF Elect, threads, DownIsFresh
<1>4. ASSUME NEW s \in Servers, Stop(s) PROVE DownIsFresh'
  BY <1>4, StopFresh DEF Stop, DownIsFresh
<1>5. ASSUME NEW s \in Servers, NEW t \in Threads, ThreadStep(s, t) PROVE DownIsFresh'
  BY <1>5, ThreadMoves, OnlyRunningStep, ThreadWrites DEF DownIsFresh
<1>6. ASSUME NEW m \in net, Lose(m) PROVE DownIsFresh'
  BY <1>6 DEF Lose, servers, threads, DownIsFresh
<1>7. CASE IgnoreElection
  BY <1>7 DEF IgnoreElection, threads, DownIsFresh
<1>8. ASSUME NEW m \in net, NEW d, Load(m, d) PROVE DownIsFresh'
  BY <1>8 DEF Load, servers, threads, DownIsFresh, Typed
<1>9. ASSUME NEW m \in net, Receive(m) PROVE DownIsFresh'
  <2>1. m.to \in Servers
    BY DEF Typed, Places
  <2> QED
    BY <1>4, <1>8, <1>9, <2>1 DEF Receive
<1> QED
  BY <1>1, <1>2, <1>3, <1>4, <1>5, <1>6, <1>7, <1>9 DEF Next, Step, Crash

Databases == /\ db = [s \in Servers |-> db[s]]
             /\ \A s \in Servers : IsDb(db[s])

LEMMA WriteDb ==
  ASSUME Typed, NEW s \in Servers, NEW d, IsDb(d), db' = [db EXCEPT ![s] = d]
  PROVE  Databases'
  BY DEF Typed, Databases

LEMMA WriteRecords ==
  ASSUME Typed, NEW s \in Servers, NEW K \in SUBSET Clients,
         NEW f \in [K -> [balance : Nat, last_request : Nat]], SetRecords(s, f)
  PROVE  Databases'
<1>1. db' = [db EXCEPT ![s] = [db[s] EXCEPT !.records = f]]
  BY DEF SetRecords, Typed
<1>2. IsDb([db[s] EXCEPT !.records = f])
  BY OtherRecords DEF Typed
<1> QED
  BY <1>1, <1>2, WriteDb

\* A request writes databases and a job of its kind.
LEMMA ProcessTyped ==
  ASSUME Places, Typed, NEW s \in Servers, NEW t \in Threads, Process(s, t)
  PROVE  /\ Databases'
         /\ \/ pc' = pc /\ job' = [job EXCEPT ![s][t] = NoJob]
            \/ \E j \in Jobs : j.op \in {"REQ", "KIL"} /\ job' = [job EXCEPT ![s][t] = j]
                             /\ pc' = [pc EXCEPT ![s][t] = "changing"]
         /\ UNCHANGED <<up, copy, net>> /\ pc[s][t] = "idle"
<1> DEFINE f == db[s].records
<1>1. /\ f \in [DOMAIN f -> [balance : Nat, last_request : Nat]]
      /\ DOMAIN f \subseteq Clients
  BY DEF Typed, IsDb
<1>2. ASSUME NEW c \in Clients, Remove(s, t, c)
      PROVE  /\ Databases'
             /\ \E j \in Jobs : j.op \in {"REQ", "KIL"} /\ job' = [job EXCEPT ![s][t] = j]
                              /\ pc' = [pc EXCEPT ![s][t] = "changing"]
             /\ UNCHANGED <<up, copy, net>> /\ pc[s][t] = "idle"
  <2>1. Databases'
    BY <1>1, <1>2, WriteRecords DEF Remove, Records
  <2>2. Job("KIL", c, NoClient, f[c].balance) \in Jobs
    BY <1>1, <1>2 DEF Job, Jobs, Remove, Records
  <2>3. /\ job' = [job EXCEPT ![s][t] = Job("KIL", c, NoClient, f[c].balance)]
        /\ pc' = [pc EXCEPT ![s][t] = "changing"]
        /\ UNCHANGED <<up, copy, net>> /\ pc[s][t] = "idle"
    BY <1>2 DEF Remove, Request, Begin, Goto, servers
  <2>4. Job("KIL", c, NoClient, f[c].balance).op = "KIL"
    BY DEF Job
  <2> QED
    BY <2>1, <2>2, <2>3, <2>4
<1>3. ASSUME NEW c \in Clients, NEW r \in Clients, NEW a \in Amounts, Debit(s, t, c, r, a)
      PROVE  /\ Databases'
             /\ \E j \in Jobs : j.op \in {"REQ", "KIL"} /\ job' = [job EXCEPT ![s][t] = j]
                              /\ pc' = [pc EXCEPT ![s][t] = "changing"]
             /\ UNCHANGED <<up, copy, net>> /\ pc[s][t] = "idle"
  <2>1. a \in Nat /\ c \in DOMAIN f /\ f[c].balance - a \in Nat
    BY <1>1, <1>3, ReplicationAssumption DEF Debit, Transferable, Records
  <2>2. [f EXCEPT ![c].balance = @ - a, ![c].last_request = @ + 1]
          \in [DOMAIN f -> [balance : Nat, last_request : Nat]]
    BY <1>1, <2>1
  <2>3. Databases'
    BY <1>1, <1>3, <2>2, WriteRecords DEF Debit
  <2>4. Job("REQ", c, r, a) \in Jobs /\ Job("REQ", c, r, a).op = "REQ"
    BY <2>1 DEF Job, Jobs
  <2>5. /\ job' = [job EXCEPT ![s][t] = Job("REQ", c, r, a)]
        /\ pc' = [pc EXCEPT ![s][t] = "changing"]
        /\ UNCHANGED <<up, copy, net>> /\ pc[s][t] = "idle"
    BY <1>3 DEF Debit, Request, Begin, Goto, servers
  <2> QED
    BY <2>3, <2>4, <2>5
<1>4. ASSUME NEW c \in Clients, NEW r \in Clients, NEW a \in Amounts, Refuse(s, t, c, r, a)
      PROVE  /\ Databases'
             /\ pc' = pc /\ job' = [job EXCEPT ![s][t] = NoJob]
             /\ UNCHANGED <<up, copy, net>> /\ pc[s][t] = "idle"
  <2>1. [f EXCEPT ![c].last_request = @ + 1] \in [DOMAIN f -> [balance : Nat, last_request : Nat]]
    BY <1>1, <1>4 DEF Refuse, Transferable, Records
  <2>2. Databases'
    BY <1>1, <1>4, <2>1, WriteRecords DEF Refuse
  <2> QED
    BY <1>4, <2>2 DEF Refuse, Request, Begin, servers
<1> QED
  BY <1>2, <1>3, <1>4 DEF Process

LEMMA RegisterTyped ==
  ASSUME Places, Typed, NEW s \in Servers, NEW t \in Threads, NEW c \in Clients,
         Register(s, t, c)
  PROVE  /\ Databases'
         /\ \E j \in Jobs, l \in {"metadata", "changing"} :
              j.op = "DIS" /\ job' = [job EXCEPT ![s][t] = j] /\ pc' = [pc EXCEPT ![s][t] = l]
         /\ UNCHANGED <<up, copy, net>> /\ pc[s][t] = "idle"
<1> DEFINE f == db[s].records
           g == [x \in DOMAIN f \cup {c} |-> IF x = c THEN Record(STARTING_BALANCE, 0) ELSE f[x]]
<1>1. /\ f \in [DOMAIN f -> [balance : Nat, last_request : Nat]]
      /\ DOMAIN f \subseteq Clients
  BY DEF Typed, IsDb
<1>2. g \in [DOMAIN f \cup {c} -> [balance : Nat, last_request : Nat]]
  BY <1>1, ReplicationAssumption DEF Record
<1>3. Databases'
  <2>1. CASE c \in Records(s)
    BY <2>1 DEF Register, Typed, Databases
  <2>2. CASE c \notin Records(s)
    <3>1. SetRecords(s, g)
      BY <2>2 DEF Register, Records
    <3> HIDE DEF g
    <3> QED
      BY <1>1, <1>2, <3>1, WriteRecords
  <2> QED
    BY <2>1, <2>2
<1>4. Job("DIS", c, NoClient, 0) \in Jobs /\ Job("DIS", c, NoClient, 0).op = "DIS"
  BY DEF Job, Jobs
<1>5. /\ job' = [job EXCEPT ![s][t] = Job("DIS", c, NoClient, 0)]
      /\ \E l \in {"metadata", "changing"} : pc' = [pc EXCEPT ![s][t] = l]
      /\ UNCHANGED <<up, copy, net>> /\ pc[s][t] = "idle"
  BY DEF Register, Request, Begin, Goto, servers
<1> QED
  BY <1>3, <1>4, <1>5

LEMMA CompleteTyped ==
  ASSUME Places, Typed, NEW s \in Servers, NEW t \in Threads, Complete(s, t)
  PROVE  Databases'
<1> DEFINE j == job[s][t]
           d == db[s]
           f == [c \in DOMAIN d.records |->
                  [d.records[c] EXCEPT !.balance = @ + IF c = j.receiver THEN j.amount ELSE 0]]
<1>1. j.op \in {"DIS", "REQ", "KIL"} /\ j.amount \in Nat /\ IsDb(d)
  BY DEF Complete, Typed, Jobs
<1>2. CASE j.op = "DIS"
  <2>1. IsDb([d EXCEPT !.total_balance = @ + STARTING_BALANCE])
    BY <1>1, ReplicationAssumption DEF IsDb
  <2>2. db' = [db EXCEPT ![s] = [d EXCEPT !.total_balance = @ + STARTING_BALANCE]]
    BY <1>2 DEF Complete
  <2> QED
    BY <2>1, <2>2, WriteDb
<1>3. CASE j.op = "KIL"
  <2>1. IsDb([d EXCEPT !.total_balance = @ - j.amount])
    BY <1>1 DEF IsDb
  <2>2. db' = [db EXCEPT ![s] = [d EXCEPT !.total_balance = @ - j.amount]]
    BY <1>3 DEF Complete
  <2> QED
    BY <2>1, <2>2, WriteDb
<1>4. CASE j.op = "REQ"
  <2> DEFINE n == (d.total_transferred + j.amount) % (2 * (INT_MAX + 1))
  <2>1. n \in 0 .. 2 * INT_MAX + 1
    <3>1. d.total_transferred + j.amount \in Nat /\ 2 * (INT_MAX + 1) \in Nat \ {0}
      BY <1>1, ReplicationAssumption DEF IsDb
    <3>2. n \in 0 .. (2 * (INT_MAX + 1) - 1)
      BY <3>1, ModuloInRange
    <3>3. 2 * (INT_MAX + 1) - 1 = 2 * INT_MAX + 1
      BY ReplicationAssumption
    <3> QED
      BY <3>2, <3>3
  <2>2. f \in [DOMAIN d.records -> [balance : Nat, last_request : Nat]]
    BY <1>1 DEF IsDb
  <2>3. DOMAIN f = DOMAIN d.records
    OBVIOUS
  <2>4. db' = [db EXCEPT ![s] = Database(d.num_transactions + 1, n, d.total_balance, f)]
    BY <1>4 DEF Complete
  <2> HIDE DEF f, n
  <2>5. IsDb(Database(d.num_transactions + 1, n, d.total_balance, f))
    BY <1>1, <2>1, <2>2, <2>3 DEF IsDb, Database
  <2> QED
    BY <2>4, <2>5, WriteDb
<1> QED
  BY <1>1, <1>2, <1>3, <1>4

\* The rest of Typed, of threads and of snapshots under way.
Copies ==
  /\ copy = [s \in Servers |-> [t \in Threads |-> copy[s][t]]]
  /\ \A s \in Servers, t \in Threads : IsDb(copy[s][t])

Working ==
  /\ job \in [Servers -> [Threads -> Jobs]]
  /\ \A s \in Servers, t \in Threads : pc[s][t] = "changing" => job[s][t].op \in {"DIS", "REQ", "KIL"}

Underway == \A m \in net : m.to \in up /\ IsDb(m.snapshot)

LEMMA TypedParts ==
  /\ Typed <=> Databases /\ Copies /\ Working /\ Underway
  /\ Typed' <=> Databases' /\ Copies' /\ Working' /\ Underway'
  BY DEF Typed, Databases, Copies, Working, Underway

LEMMA NoJobIsJob == NoJob \in Jobs
  BY DEF NoJob, Job, Jobs

LEMMA Works ==
  ASSUME Places, Working, NEW s \in Servers, NEW t \in Threads, NEW j \in Jobs, NEW l \in Labels,
         job' = [job EXCEPT ![s][t] = j], pc' = [pc EXCEPT ![s][t] = l],
         l = "changing" => j.op \in {"DIS", "REQ", "KIL"}
  PROVE  Working'
  BY DEF Working, Places

LEMMA TypedInit == Init => Typed
<1> SUFFICES ASSUME Init PROVE Typed
  OBVIOUS
<1>1. Databases /\ Copies
  BY EmptyIsDb DEF Init, Databases, Copies
<1>2. Working /\ Underway
  BY NoJobIsJob DEF Init, Working, Underway
<1> QED
  BY <1>1, <1>2, TypedParts

LEMMA ThreadTyped ==
  ASSUME Places, Typed, NEW s \in Servers, NEW t \in Threads, ThreadStep(s, t)
  PROVE  Typed'
<1> USE TypedParts
<1>1. ASSUME NEW c \in Clients, Register(s, t, c) PROVE Typed'
  <2>1. Databases' /\ Copies' /\ Underway'
    BY <1>1, RegisterTyped DEF Copies, Underway
  <2>2. Working'
    BY <1>1, RegisterTyped, Works DEF Labels
  <2> QED
    BY <2>1, <2>2
<1>2. CASE Process(s, t)
  <2>1. Databases' /\ Copies' /\ Underway'
    BY <1>2, ProcessTyped DEF Copies, Underway
  <2>2. CASE pc' = pc /\ job' = [job EXCEPT ![s][t] = NoJob]
    <3>1. pc[s][t] = "idle"
      BY <1>2, ProcessTyped
    <3>2. Working'
      BY <2>2, <3>1, NoJobIsJob DEF Working, Places
    <3> QED
      BY <2>1, <3>2
  <2>3. CASE \E j \in Jobs : /\ j.op \in {"REQ", "KIL"} /\ job' = [job EXCEPT ![s][t] = j]
                             /\ pc' = [pc EXCEPT ![s][t] = "changing"]
    <3>1. Working'
      BY <2>3, Works DEF Labels
    <3> QED
      BY <2>1, <3>1
  <2> QED
    BY <1>2, <2>2, <2>3, ProcessTyped
<1>3. CASE Complete(s, t)
  <2>1. Databases' /\ Copies' /\ Underway'
    BY <1>3, CompleteTyped DEF Complete, Copies, Underway, servers
  <2>2. Working'
    BY <1>3 DEF Complete, Goto, Working, Places
  <2> QED
    BY <2>1, <2>2
<1>4. CASE AnswerElection(s, t)
  <2>1. Databases' /\ Copies' /\ Underway'
    BY <1>4 DEF AnswerElection, Databases, Copies, Underway
  <2>2. Job("ELE", NoClient, NoClient, 0) \in Jobs
    BY DEF Job, Jobs
  <2>3. Working'
    BY <1>4, <2>2, Works DEF AnswerElection, Begin, Goto, Labels
  <2> QED
    BY <2>1, <2>3
<1>5. CASE CopyMetadata(s, t)
  <2>1. Databases' /\ Underway'
    BY <1>5 DEF CopyMetadata, Databases, Underway, servers
  <2>2. Working'
    BY <1>5 DEF CopyMetadata, Goto, Working, Places
  <2>3. IsDb([db[s] EXCEPT !.records = Empty.records])
    BY EmptyIsDb, OtherRecords DEF Databases, IsDb
  <2>4. Copies'
    BY <1>5, <2>3 DEF CopyMetadata, Copies
  <2> QED
    BY <2>1, <2>2, <2>4
<1>6. CASE Broadcast(s, t)
  <2>1. Databases'
    BY <1>6 DEF Broadcast, Databases
  <2>2. Copies'
    BY <1>6, EmptyIsDb DEF Broadcast, Copies
  <2>3. Working'
    <3>1. CASE job[s][t].op = "REQ"
      BY <1>6, <3>1 DEF Broadcast, Goto, Working, Places
    <3>2. CASE job[s][t].op # "REQ"
      BY <1>6, <3>2, NoJobIsJob, Works DEF Broadcast, Finish, Goto, Labels
    <3> QED
      BY <3>1, <3>2
  <2>4. Underway'
    <3> DEFINE S == [copy[s][t] EXCEPT !.records = db[s].records]
    <3>1. IsDb(S)
      <4>1. IsDb(copy[s][t]) /\ IsDb(db[s])
        BY DEF Databases, Copies
      <4>2. /\ db[s].records \in [DOMAIN db[s].records -> [balance : Nat, last_request : Nat]]
            /\ DOMAIN db[s].records \subseteq Clients
        BY <4>1 DEF IsDb
      <4> QED
        BY <4>1, <4>2, OtherRecords
    <3>2. net' = net \cup {[to |-> r, snapshot |-> S] : r \in up \ {s}} /\ up' = up
      BY <1>6 DEF Broadcast, servers
    <3> HIDE DEF S
    <3> QED
      BY <3>1, <3>2 DEF Underway
  <2> QED
    BY <2>1, <2>2, <2>3, <2>4
<1>7. CASE Answer(s, t)
  <2>1. Databases' /\ Copies' /\ Underway'
    BY <1>7 DEF Answer, Databases, Copies, Underway, servers
  <2>2. Working'
    BY <1>7, NoJobIsJob, Works DEF Answer, Finish, Goto, Labels
  <2> QED
    BY <2>1, <2>2
<1> QED
  BY <1>1, <1>2, <1>3, <1>4, <1>5, <1>6, <1>7 DEF ThreadStep

LEMMA StopTyped ==
  ASSUME Places, Typed, NEW s \in Servers, Stop(s) PROVE Typed'
<1> USE TypedParts
<1>1. Databases' /\ Copies'
  BY EmptyIsDb DEF Stop, Fresh, Databases, Copies
<1>2. Working'
  BY NoJobIsJob DEF Stop, Fresh, Working, Places
<1>3. Underway'
  BY DEF Stop, Underway
<1> QED
  BY <1>1, <1>2, <1>3

\* Whatever part of a text is parsed, it is a database.
LEMMA TruncatedIsDb ==
  ASSUME NEW d, IsDb(d), NEW K \in SUBSET DOMAIN d.records, NEW c \in K,
         NEW n \in 0 .. d.records[c].last_request
  PROVE  IsDb([d EXCEPT !.records = Truncated(d.records, K, c, n)])
<1>1. d.records[c].last_request \in Nat /\ K \subseteq Clients
  BY DEF IsDb
<1>2. Restrict(d.records, K) \in [K -> [balance : Nat, last_request : Nat]]
  BY DEF IsDb, Restrict
<1>3. Truncated(d.records, K, c, n) \in [K -> [balance : Nat, last_request : Nat]]
  BY <1>1, <1>2 DEF Truncated
<1> QED
  BY <1>1, <1>3, OtherRecords

LEMMA TypedStep == Places /\ Typed /\ [Next]_vars => Typed'
<1> SUFFICES ASSUME Places, Typed, [Next]_vars PROVE Typed'
  OBVIOUS
<1> USE TypedParts
<1>1. CASE UNCHANGED vars
  BY <1>1 DEF vars, servers, threads, Typed
<1>2. ASSUME NEW s \in Servers, Boot(s) PROVE Typed'
  BY <1>2 DEF Boot, threads, Typed
<1>3. ASSUME NEW s \in Servers, Elect(s) PROVE Typed'
  BY <1>3 DEF Elect, threads, Typed
<1>6. ASSUME NEW m \in net, Lose(m) PROVE Typed'
  BY <1>6 DEF Lose, servers, threads, Typed
<1>7. CASE IgnoreElection
  BY <1>7 DEF IgnoreElection, threads, Typed
<1>8. ASSUME NEW m \in net, NEW d, IsDb(d), Load(m, d) PROVE Typed'
  <2>1. Databases'
    BY <1>8, WriteDb DEF Load, Underway, Places
  <2> QED
    BY <1>8, <2>1 DEF Load, servers, threads, Copies, Working, Underway
<1>9. ASSUME NEW m \in net, Receive(m) PROVE Typed'
  <2>1. m.to \in Servers /\ IsDb(m.snapshot)
    BY DEF Underway, Places
  <2>2. CASE \E K \in SUBSET DOMAIN m.snapshot.records : \E c \in K :
               \E n \in 0 .. m.snapshot.records[c].last_request :
                 Load(m, [m.snapshot EXCEPT !.records = Truncated(m.snapshot.records, K, c, n)])
    BY <1>8, <2>1, <2>2, TruncatedIsDb
  <2> QED
    BY <1>8, <1>9, <2>1, <2>2, StopTyped DEF Receive
<1> QED
  BY <1>1, <1>2, <1>3, <1>6, <1>7, <1>9, ThreadTyped, StopTyped DEF Next, Step, Crash

IInv == Places /\ Flags /\ Typed /\ DownIsFresh

LEMMA Always == Spec => []IInv
<1>1. Init => IInv
  BY PlacesInit, FlagsInit, TypedInit, DownInit DEF IInv
<1>2. IInv /\ [Next]_vars => IInv'
  BY PlacesStep, FlagsStep, TypedStep, DownStep DEF IInv
<1> QED
  BY <1>1, <1>2, PTL DEF Spec

\* The variables keep their types whatever snapshots are loaded: balances are
\* natural numbers, totals in the range of their fields, and a snapshot is only
\* sent to servers that run.
THEOREM Types == Spec => []TypeOK
<1>1. IInv => TypeOK
  <2> SUFFICES ASSUME IInv PROVE TypeOK
    OBVIOUS
  <2>1. {asked, raced, disturbed, cut} \subseteq BOOLEAN
    BY Zenon DEF IInv, Flags
  <2>2. /\ up \cup behind \subseteq Servers /\ coordinator \in up \cup {NoServer}
        /\ {answered, updates, faults} \subseteq Nat
    BY DEF IInv, Flags, Places
  <2>3. \A s \in Servers :
          /\ db[s].num_transactions \in Nat
          /\ db[s].total_transferred \in 0 .. 2 * INT_MAX + 1
          /\ db[s].total_balance \in Int
          /\ Records(s) \subseteq Clients
          /\ \A c \in Records(s) : db[s].records[c] \in [balance : Nat, last_request : Nat]
    BY DEF IInv, Typed, IsDb, Records
  <2>4. \A s \in Servers, t \in Threads :
          /\ pc[s][t] \in {"idle", "changing", "metadata", "records", "answer"}
          /\ job[s][t].op \in {"NONE", "DIS", "REQ", "KIL", "ELE"}
    BY DEF IInv, Places, Labels, Typed, Jobs
  <2>5. \A m \in net : m.to \in up
    BY DEF IInv, Typed
  <2> QED
    BY <2>1, <2>2, <2>3, <2>4, <2>5 DEF TypeOK
<1> QED
  BY <1>1, Always, PTL

-----------------------------------------------------------------------------
(* What the servers know when requests do not overlap.                     *)

Busy(s, t)   == pc[s][t] # "idle"
Before(s, t) == pc[s][t] \in {"changing", "metadata", "records"}
Reached(s)   == \A m \in net : m.to # s

\* A server that missed nothing, is to receive nothing, and is not in a change
\* that it has not broadcast.
Settled(s) == s \in up \ behind /\ Reached(s) /\ \A t \in Threads : ~ Before(s, t)

\* One request at a time, by a server that missed nothing.
Alone ==
  /\ \A s, r \in up : \A t, u \in Threads : Busy(s, t) /\ Busy(r, u) => s = r /\ t = u
  /\ \A s \in up, t \in Threads :
       /\ Before(s, t) => net = {} /\ s \notin behind
       /\ Busy(s, t) => s \notin behind /\ Reached(s)

\* Settled servers and snapshots have one database.
Holds(D) ==
  /\ \A s \in up : Settled(s) => Public(db[s]) = D
  /\ \A m \in net : Public(m.snapshot) = D

Agreed == \E D : Holds(D)

Faithful ==
  \A s \in up, t \in Threads :
    pc[s][t] = "records" => copy[s][t] = [db[s] EXCEPT !.records = Empty.records]

\* n transactions are known wherever they have to be.
Known(n) ==
  /\ \A s \in up \ behind : Reached(s) => n <= db[s].num_transactions
  /\ \A m \in net : n <= m.snapshot.num_transactions

Counted ==
  /\ Known(answered)
  /\ \A s \in up, t \in Threads :
       /\ pc[s][t] = "answer" => Known(answered + 1)
       /\ pc[s][t] \in {"metadata", "records"} /\ job[s][t].op = "REQ" =>
            answered + 1 <= db[s].num_transactions

Order   == Alone /\ Agreed /\ Faithful /\ Counted
Orderly == ~ disturbed /\ ~ cut => Order

LEMMA OrderInit == Init => Orderly
<1> SUFFICES ASSUME Init PROVE Order
  BY DEF Orderly
<1>1. up = {} /\ net = {}
  BY DEF Init
<1> QED
  BY <1>1 DEF Order, Alone, Agreed, Holds, Faithful, Counted, Known

\* A server ends.
LEMMA StopOrder ==
  ASSUME IInv, Order, NEW s \in Servers, Stop(s) PROVE Order'
<1>1. /\ up' = up \ {s} /\ net' = {m \in net : m.to # s} /\ behind' = behind /\ answered' = answered
      /\ \A r \in up' : db'[r] = db[r] /\ pc'[r] = pc[r] /\ job'[r] = job[r] /\ copy'[r] = copy[r]
  BY StopFresh DEF Stop, IInv, Places
<1>2. \A r \in up' : Reached(r)' <=> Reached(r)
  BY <1>1 DEF Reached
<1>3. Alone'
  BY <1>1, <1>2 DEF Order, Alone, Busy, Before
<1>4. Agreed'
  <2>1. PICK D : Holds(D)
    BY DEF Order, Agreed
  <2>2. Holds(D)'
    BY <1>1, <1>2, <2>1 DEF Holds, Settled, Before
  <2> QED
    BY <2>2 DEF Agreed
<1>5. \A n : Known(n) => Known(n)'
  BY <1>1, <1>2 DEF Known
<1>6. Faithful' /\ Counted'
  BY <1>1, <1>5 DEF Order, Faithful, Counted
<1> QED
  BY <1>3, <1>4, <1>6 DEF Order

\* A server starts: it has missed something, or there was nothing yet.
LEMMA BootOrder ==
  ASSUME IInv, Order, NEW s \in Servers, Boot(s) PROVE Order'
<1>1. /\ s \notin up /\ up' = up \cup {s} /\ UNCHANGED <<db, pc, job, copy, net>>
      /\ db[s] = Empty /\ \A t \in Threads : pc[s][t] = "idle"
      /\ \A r \in up : r \in behind' <=> r \in behind
  BY DEF Boot, threads, IInv, DownIsFresh
<1>2. \A r : Reached(r)' <=> Reached(r)
  BY <1>1 DEF Reached
<1>3. Alone' /\ Faithful'
  BY <1>1, <1>2 DEF Order, Alone, Faithful, Busy, Before
<1>4. CASE s \in behind'
  <2>1. up # {} /\ answered' = answered
    BY <1>4 DEF Boot, IInv, Typed
  <2>2. PICK D : Holds(D)
    BY DEF Order, Agreed
  <2>3. Holds(D)'
    BY <1>1, <1>2, <1>4, <2>2 DEF Holds, Settled, Before
  <2>4. \A n : Known(n) => Known(n)'
    BY <1>1, <1>2, <1>4 DEF Known
  <2>5. Counted'
    BY <1>1, <2>1, <2>4 DEF Order, Counted
  <2> QED
    BY <1>3, <2>3, <2>5 DEF Order, Agreed
<1>5. CASE s \notin behind'
  <2>1. net = {} /\ \A r \in up : r \notin behind /\ db[r] = Empty
    BY <1>5 DEF Boot
  <2>2. Holds(Public(Empty))'
    BY <1>1, <2>1 DEF Holds, Settled
  <2>3. CASE up = {}
    <3>1. Empty.num_transactions = 0 /\ answered' = 0
      BY <2>3 DEF Empty, Database, Boot
    <3>2. Known(answered)'
      BY <1>1, <2>1, <2>3, <3>1 DEF Known
    <3> QED
      BY <1>1, <1>3, <2>2, <2>3, <3>2 DEF Order, Agreed, Counted
  <2>4. CASE up # {}
    <3>1. PICK r \in up : TRUE
      BY <2>4
    <3>2. answered' = answered
      BY <2>4 DEF Boot
    <3>3. \A n : Known(n) => Known(n)'
      BY <1>1, <2>1, <3>1 DEF Known, Reached
    <3>4. Counted'
      BY <1>1, <3>2, <3>3 DEF Order, Counted
    <3> QED
      BY <1>3, <2>2, <3>4 DEF Order, Agreed
  <2> QED
    BY <2>3, <2>4
<1> QED
  BY <1>4, <1>5

LEMMA LoseOrder ==
  ASSUME IInv, Order, NEW m \in net, Lose(m) PROVE Order'
<1>1. /\ UNCHANGED <<up, db, pc, job, copy, answered>>
      /\ net' = net \ {m} /\ behind' = behind \cup {m.to}
  BY DEF Lose, servers, threads
<1>2. \A r : r # m.to => (Reached(r)' <=> Reached(r))
  BY <1>1 DEF Reached
<1>3. \A s \in up, t \in Threads : Busy(s, t) => s # m.to /\ ~ Before(s, t)
  BY DEF Order, Alone, Reached
<1>4. Alone' /\ Faithful'
  BY <1>1, <1>2, <1>3 DEF Order, Alone, Faithful, Busy, Before
<1>5. Agreed'
  <2>1. PICK D : Holds(D)
    BY DEF Order, Agreed
  <2>2. Holds(D)'
    BY <1>1, <1>2, <2>1 DEF Holds, Settled, Before
  <2> QED
    BY <2>2 DEF Agreed
<1>6. \A n : Known(n) => Known(n)'
  BY <1>1, <1>2 DEF Known
<1>7. Counted'
  BY <1>1, <1>6 DEF Order, Counted
<1> QED
  BY <1>4, <1>5, <1>7 DEF Order

LEMMA LoadOrder ==
  ASSUME IInv, Order, NEW m \in net, Load(m, m.snapshot) PROVE Order'
<1>1. /\ UNCHANGED <<up, pc, job, copy, answered>>
      /\ net' = net \ {m} /\ behind' = behind \ {m.to}
      /\ \A r \in Servers : db'[r] = IF r = m.to THEN m.snapshot ELSE db[r]
  BY DEF Load, servers, threads, IInv, Typed
<1>2. \A r : r # m.to => (Reached(r)' <=> Reached(r))
  BY <1>1 DEF Reached
<1>3. \A s \in up, t \in Threads : Busy(s, t) => s # m.to /\ ~ Before(s, t)
  BY DEF Order, Alone, Reached
<1>4. Alone' /\ Faithful'
  BY <1>1, <1>2, <1>3 DEF Order, Alone, Faithful, Busy, Before
<1>5. Agreed'
  <2>1. PICK D : Holds(D)
    BY DEF Order, Agreed
  <2>2. Holds(D)'
    BY <1>1, <1>2, <2>1 DEF Holds, Settled, Before, IInv, Places
  <2> QED
    BY <2>2 DEF Agreed
<1>6. \A n : Known(n) => Known(n)'
  BY <1>1, <1>2 DEF Known, IInv, Places
<1>7. Counted'
  BY <1>1, <1>3, <1>6 DEF Order, Counted, Busy, Before
<1> QED
  BY <1>4, <1>5, <1>7 DEF Order

\* A request begins: no other is under way, and the server missed nothing.
LEMMA BeginOrder ==
  ASSUME IInv, Order, NEW s \in Servers, NEW t \in Threads, NEW j, NEW l \in Labels,
         Begin(s, t, j), ~ disturbed', UNCHANGED <<up, copy, net, answered, behind>>,
         pc' = [pc EXCEPT ![s][t] = l],
         l \in {"idle", "changing", "metadata"}, l = "metadata" => j.op # "REQ",
         \A r \in up \ {s} : db'[r] = db[r],
         db'[s].num_transactions = db[s].num_transactions,
         l = "idle" => Public(db'[s]) = Public(db[s])
  PROVE  Order'
<1>1. /\ s \in up /\ s \notin behind /\ net = {}
      /\ \A r \in up, u \in Threads : pc[r][u] = "idle"
      /\ \A r \in up, u \in Threads : pc'[r][u] = IF r = s /\ u = t THEN l ELSE "idle"
      /\ job'[s][t] = j
  BY DEF Begin, Calm, IInv, Places, Typed
<1>2. Alone' /\ Faithful'
  BY <1>1 DEF Alone, Faithful, Busy, Before, Reached
<1>3. Agreed'
  <2>1. PICK D : Holds(D)
    BY DEF Order, Agreed
  <2>2. Holds(D)'
    BY <1>1, <2>1 DEF Holds, Settled, Before, Reached
  <2> QED
    BY <2>2 DEF Agreed
<1>4. Known(answered)'
  BY <1>1 DEF Order, Counted, Known, Reached
<1>5. Counted'
  BY <1>1, <1>4 DEF Counted
<1> QED
  BY <1>2, <1>3, <1>5 DEF Order

\* A request that is refused changes what is not public.
LEMMA RefusedIsPublic ==
  ASSUME NEW d, IsDb(d), NEW c \in DOMAIN d.records
  PROVE  Public([d EXCEPT !.records = [d.records EXCEPT ![c].last_request = @ + 1]]) = Public(d)
<1> DEFINE f == [d.records EXCEPT ![c].last_request = @ + 1]
<1>1. DOMAIN f = DOMAIN d.records /\ \A x \in DOMAIN d.records : f[x].balance = d.records[x].balance
  BY DEF IsDb
<1>2. [x \in DOMAIN f |-> f[x].balance] = [x \in DOMAIN d.records |-> d.records[x].balance]
  BY <1>1
<1> HIDE DEF f
<1>3. Public([d EXCEPT !.records = f]) = Public(d)
  BY <1>2 DEF Public, IsDb
<1> QED
  BY <1>3 DEF f

LEMMA RequestOrder ==
  ASSUME IInv, Order, ~ disturbed', NEW s \in Servers, NEW t \in Threads,
         (\E c \in Clients : Register(s, t, c)) \/ Process(s, t) \/ AnswerElection(s, t)
  PROVE  Order'
<1>0. Typed /\ IsDb(db[s])
  BY DEF IInv, Typed
<1>1. ASSUME NEW f, SetRecords(s, f)
      PROVE  /\ \A r \in up \ {s} : db'[r] = db[r]
             /\ db'[s] = [db[s] EXCEPT !.records = f]
             /\ db'[s].num_transactions = db[s].num_transactions
  <2>1. db' = [db EXCEPT ![s] = [db[s] EXCEPT !.records = f]]
    BY <1>0, <1>1 DEF SetRecords, Typed
  <2>2. \A r \in up \ {s} : r \in Servers
    BY DEF IInv, Places
  <2>3. (\A r \in Servers : db'[r] = IF r = s THEN [db[s] EXCEPT !.records = f] ELSE db[r])
    BY <1>0, <2>1 DEF Typed
  <2>4. [db[s] EXCEPT !.records = f].num_transactions = db[s].num_transactions
    BY <1>0 DEF IsDb
  <2> QED
    BY <2>2, <2>3, <2>4
<1>2. ASSUME NEW c \in Clients, Register(s, t, c) PROVE Order'
  <2>1. /\ Begin(s, t, Job("DIS", c, NoClient, 0)) /\ UNCHANGED <<up, copy, net, answered, behind>>
        /\ \E l \in {"metadata", "changing"} : pc' = [pc EXCEPT ![s][t] = l]
    BY <1>2 DEF Register, Request, Goto, servers, hist
  <2>2. /\ \A r \in up \ {s} : db'[r] = db[r]
        /\ db'[s].num_transactions = db[s].num_transactions
    BY <1>1, <1>2 DEF Register
  <2>3. Job("DIS", c, NoClient, 0).op = "DIS"
    BY DEF Job
  <2> QED
    BY <2>1, <2>2, <2>3, BeginOrder DEF Labels
<1>3. ASSUME NEW c \in Clients, Remove(s, t, c) PROVE Order'
  <2>1. PICK j : /\ Begin(s, t, j) /\ UNCHANGED <<up, copy, net, answered, behind>>
                 /\ pc' = [pc EXCEPT ![s][t] = "changing"]
    BY <1>3 DEF Remove, Request, Goto, servers, hist
  <2>2. /\ \A r \in up \ {s} : db'[r] = db[r]
        /\ db'[s].num_transactions = db[s].num_transactions
    BY <1>1, <1>3 DEF Remove
  <2>3. "changing" \in Labels /\ "changing" \in {"idle", "changing", "metadata"}
        /\ "changing" # "idle" /\ "changing" # "metadata"
    BY DEF Labels
  <2> QED
    BY <2>1, <2>2, <2>3, BeginOrder, Zenon
<1>4. ASSUME NEW c \in Clients, NEW r \in Clients, NEW a \in Amounts, Debit(s, t, c, r, a)
      PROVE  Order'
  <2>1. PICK j : /\ Begin(s, t, j) /\ UNCHANGED <<up, copy, net, answered, behind>>
                 /\ pc' = [pc EXCEPT ![s][t] = "changing"]
    BY <1>4 DEF Debit, Request, Goto, servers, hist
  <2>2. /\ \A q \in up \ {s} : db'[q] = db[q]
        /\ db'[s].num_transactions = db[s].num_transactions
    BY <1>1, <1>4 DEF Debit
  <2>3. "changing" \in Labels /\ "changing" \in {"idle", "changing", "metadata"}
        /\ "changing" # "idle" /\ "changing" # "metadata"
    BY DEF Labels
  <2> QED
    BY <2>1, <2>2, <2>3, BeginOrder, Zenon
<1>5. ASSUME NEW c \in Clients, NEW r \in Clients, NEW a \in Amounts, Refuse(s, t, c, r, a)
      PROVE  Order'
  <2>1. /\ Begin(s, t, NoJob) /\ UNCHANGED <<up, copy, net, answered, behind>> /\ pc[s][t] = "idle"
        /\ pc' = pc
    BY <1>5 DEF Refuse, Request, Begin, servers, hist
  <2>2. pc' = [pc EXCEPT ![s][t] = "idle"]
    BY <2>1 DEF IInv, Places
  <2>3. SetRecords(s, [db[s].records EXCEPT ![c].last_request = @ + 1]) /\ c \in DOMAIN db[s].records
    BY <1>5 DEF Refuse, Transferable, Records
  <2>4. /\ \A q \in up \ {s} : db'[q] = db[q]
        /\ db'[s].num_transactions = db[s].num_transactions
        /\ Public(db'[s]) = Public(db[s])
    <3>1. Public([db[s] EXCEPT !.records = [db[s].records EXCEPT ![c].last_request = @ + 1]])
            = Public(db[s])
      BY <1>0, <2>3, RefusedIsPublic
    <3> QED
      BY <1>1, <2>3, <3>1
  <2>5. "idle" \in Labels /\ "idle" \in {"idle", "changing", "metadata"} /\ "idle" # "metadata"
    BY DEF Labels
  <2> QED
    BY <2>1, <2>2, <2>4, <2>5, BeginOrder, Zenon
<1>6. CASE AnswerElection(s, t)
  <2>1. /\ Begin(s, t, Job("ELE", NoClient, NoClient, 0)) /\ UNCHANGED <<up, copy, net, db, answered, behind>>
        /\ pc' = [pc EXCEPT ![s][t] = "metadata"]
    BY <1>6 DEF AnswerElection, Goto, hist
  <2>2. Job("ELE", NoClient, NoClient, 0).op = "ELE"
    BY DEF Job
  <2> QED
    BY <2>1, <2>2, BeginOrder DEF Labels
<1> QED
  BY <1>2, <1>3, <1>4, <1>5, <1>6 DEF Process

\* The request that is under way goes on: no other thread is busy.
LEMMA OneBusy ==
  ASSUME IInv, Order, NEW s \in up, NEW t \in Threads, Busy(s, t)
  PROVE  /\ \A r \in up, u \in Threads : pc[r][u] # "idle" => r = s /\ u = t
         /\ s \notin behind /\ Reached(s)
         /\ Before(s, t) => net = {}
  BY DEF Order, Alone, Busy

LEMMA CompleteOrder ==
  ASSUME IInv, Order, NEW s \in up, NEW t \in Threads, Complete(s, t) PROVE Order'
<1>1. /\ UNCHANGED <<up, net, job, behind, answered>> /\ pc[s][t] = "changing"
      /\ \A r \in up, u \in Threads : pc'[r][u] = IF r = s /\ u = t THEN "metadata" ELSE pc[r][u]
      /\ \A r \in up \ {s} : db'[r] = db[r]
  BY DEF Complete, Goto, servers, hist, IInv, Places, Typed
<1>2. /\ \A r \in up, u \in Threads : pc[r][u] # "idle" => r = s /\ u = t
      /\ s \notin behind /\ net = {}
  BY <1>1, OneBusy DEF Busy, Before
<1>3. /\ job[s][t].op \in {"DIS", "REQ", "KIL"} /\ db[s].num_transactions \in Nat /\ s \in Servers
      /\ IsDb(db[s])
  BY <1>1 DEF IInv, Typed, IsDb, Places
<1>4. db'[s].num_transactions = db[s].num_transactions + IF job[s][t].op = "REQ" THEN 1 ELSE 0
  <2>1. CASE job[s][t].op = "DIS"
    <3>1. db' = [db EXCEPT ![s] = [db[s] EXCEPT !.total_balance = @ + STARTING_BALANCE]]
      BY <2>1 DEF Complete
    <3>2. db'[s] = [db[s] EXCEPT !.total_balance = @ + STARTING_BALANCE]
      BY <1>3, <3>1 DEF IInv, Typed
    <3> QED
      BY <1>3, <2>1, <3>2 DEF IsDb
  <2>2. CASE job[s][t].op = "KIL"
    <3>1. db' = [db EXCEPT ![s] = [db[s] EXCEPT !.total_balance = @ - job[s][t].amount]]
      BY <2>2 DEF Complete
    <3>2. db'[s] = [db[s] EXCEPT !.total_balance = @ - job[s][t].amount]
      BY <1>3, <3>1 DEF IInv, Typed
    <3> QED
      BY <1>3, <2>2, <3>2 DEF IsDb
  <2>3. CASE job[s][t].op = "REQ"
    BY <1>3, <2>3 DEF Complete, IInv, Typed, Database
  <2> QED
    BY <1>3, <2>1, <2>2, <2>3
<1>5. Alone' /\ Faithful'
  BY <1>1, <1>2 DEF Alone, Faithful, Busy, Before, Reached
<1>6. Agreed'
  <2>1. PICK D : Holds(D)
    BY DEF Order, Agreed
  <2>2. Holds(D)'
    BY <1>1, <1>2, <2>1 DEF Holds, Settled, Before, Reached
  <2> QED
    BY <2>2 DEF Agreed
<1>7. answered \in Nat /\ answered <= db[s].num_transactions
  BY <1>2 DEF Order, Counted, Known, Reached, IInv, Flags
<1>8. Known(answered)'
  BY <1>1, <1>2, <1>3, <1>4, <1>7 DEF Order, Counted, Known, Reached
<1>9. Counted'
  BY <1>1, <1>2, <1>3, <1>4, <1>7, <1>8 DEF Counted
<1> QED
  BY <1>5, <1>6, <1>9 DEF Order

LEMMA CopyOrder ==
  ASSUME IInv, Order, NEW s \in up, NEW t \in Threads, CopyMetadata(s, t) PROVE Order'
<1>1. /\ UNCHANGED <<up, db, net, job, behind, answered>> /\ pc[s][t] = "metadata"
      /\ \A r \in up, u \in Threads : pc'[r][u] = IF r = s /\ u = t THEN "records" ELSE pc[r][u]
      /\ copy'[s][t] = [db[s] EXCEPT !.records = Empty.records]
  BY DEF CopyMetadata, Goto, servers, hist, IInv, Places, Typed
<1>2. /\ \A r \in up, u \in Threads : pc[r][u] # "idle" => r = s /\ u = t
      /\ s \notin behind /\ net = {}
  BY <1>1, OneBusy DEF Busy, Before
<1>3. Alone' /\ Faithful'
  BY <1>1, <1>2 DEF Alone, Faithful, Busy, Before, Reached
<1>4. Agreed'
  <2>1. PICK D : Holds(D)
    BY DEF Order, Agreed
  <2>2. Holds(D)'
    BY <1>1, <1>2, <2>1 DEF Holds, Settled, Before, Reached
  <2> QED
    BY <2>2 DEF Agreed
<1>5. Known(answered)'
  BY <1>1 DEF Order, Counted, Known, Reached
<1>6. Counted'
  BY <1>1, <1>2, <1>5 DEF Order, Counted
<1> QED
  BY <1>3, <1>4, <1>6 DEF Order

\* Every other server is to receive the database of the sender.
LEMMA BroadcastOrder ==
  ASSUME IInv, Order, NEW s \in up, NEW t \in Threads, Broadcast(s, t) PROVE Order'
<1>0. pc[s][t] = "records" /\ IsDb(db[s]) /\ IsDb(copy[s][t])
  BY DEF Broadcast, IInv, Typed, Places
<1>1. /\ \A r \in up, u \in Threads : pc[r][u] # "idle" => r = s /\ u = t
      /\ s \notin behind /\ net = {}
  BY <1>0, OneBusy DEF Busy, Before
<1>2. [copy[s][t] EXCEPT !.records = db[s].records] = db[s]
  <2>1. copy[s][t] = [db[s] EXCEPT !.records = Empty.records]
    BY <1>0 DEF Order, Faithful
  <2>2. /\ db[s] \in [num_transactions : Nat, total_transferred : 0 .. 2 * INT_MAX + 1,
                      total_balance : Int, records : {db[s].records}]
    BY <1>0 DEF IsDb
  <2> QED
    BY <2>1, <2>2
<1>3. /\ UNCHANGED <<up, db, behind, answered>>
      /\ net' = {[to |-> r, snapshot |-> db[s]] : r \in up \ {s}}
  BY <1>1, <1>2 DEF Broadcast, servers, hist
<1>4. /\ \A r \in up \ {s} : ~ Reached(r)'
      /\ Reached(s)'
      /\ \A m \in net' : m.snapshot = db[s]
  <2> DEFINE M(r) == [to |-> r, snapshot |-> db[s]]
  <2>1. \A r \in up \ {s} : M(r) \in net' /\ M(r).to = r
    BY <1>3
  <2>2. \A m \in net' : m.to \in up \ {s} /\ m.snapshot = db[s]
    BY <1>3
  <2>3. \A r \in up \ {s} : ~ Reached(r)'
    BY <2>1 DEF Reached
  <2> QED
    BY <2>2, <2>3 DEF Reached
<1>5. \E l \in {"idle", "answer"} :
        /\ \A r \in up, u \in Threads : pc'[r][u] = IF r = s /\ u = t THEN l ELSE pc[r][u]
        /\ l = "answer" => job[s][t].op = "REQ"
  <2>1. CASE job[s][t].op = "REQ"
    BY <2>1 DEF Broadcast, Goto, IInv, Places
  <2>2. CASE job[s][t].op # "REQ"
    BY <2>2 DEF Broadcast, Finish, Goto, IInv, Places
  <2> QED
    BY <2>1, <2>2
<1>6. PICK l \in {"idle", "answer"} :
        /\ \A r \in up, u \in Threads : pc'[r][u] = IF r = s /\ u = t THEN l ELSE "idle"
        /\ l = "answer" => job[s][t].op = "REQ"
  BY <1>1, <1>5
<1>7. Alone' /\ Faithful'
  BY <1>1, <1>3, <1>4, <1>6 DEF Alone, Faithful, Busy, Before
<1>8. Agreed'
  <2>1. Holds(Public(db[s]))'
    BY <1>3, <1>4, <1>6 DEF Holds, Settled
  <2> QED
    BY <2>1 DEF Agreed
<1>9. \A n : n <= db[s].num_transactions => Known(n)'
  BY <1>3, <1>4 DEF Known
<1>10. answered <= db[s].num_transactions
  BY <1>1 DEF Order, Counted, Known, Reached
<1>11. Counted'
  BY <1>0, <1>3, <1>6, <1>9, <1>10 DEF Order, Counted
<1> QED
  BY <1>7, <1>8, <1>11 DEF Order

LEMMA AnswerOrder ==
  ASSUME IInv, Order, NEW s \in up, NEW t \in Threads, Answer(s, t) PROVE Order'
<1>1. /\ UNCHANGED <<up, db, net, behind, copy>> /\ answered' = answered + 1 /\ pc[s][t] = "answer"
      /\ \A r \in up, u \in Threads : pc'[r][u] = IF r = s /\ u = t THEN "idle" ELSE pc[r][u]
  BY DEF Answer, Finish, Goto, servers, IInv, Places
<1>2. \A r \in up, u \in Threads : pc'[r][u] = "idle"
  BY <1>1, OneBusy DEF Busy
<1>3. Alone' /\ Faithful'
  BY <1>1, <1>2 DEF Alone, Faithful, Busy, Before
<1>4. Agreed'
  <2>1. PICK D : Holds(D)
    BY DEF Order, Agreed
  <2>2. \A r \in up : Settled(r)' => Settled(r)
    BY <1>1, OneBusy DEF Settled, Reached, Before, Busy
  <2>3. Holds(D)'
    BY <1>1, <2>1, <2>2 DEF Holds
  <2> QED
    BY <2>3 DEF Agreed
<1>5. Known(answered)'
  BY <1>1 DEF Order, Counted, Known, Reached
<1>6. Counted'
  BY <1>1, <1>2, <1>5 DEF Counted
<1> QED
  BY <1>3, <1>4, <1>6 DEF Order

LEMMA OrderlyStep == IInv /\ Orderly /\ [Next]_vars => Orderly'
<1> SUFFICES ASSUME IInv, Orderly, [Next]_vars, ~ disturbed', ~ cut' PROVE Order'
  BY DEF Orderly
<1>1. CASE UNCHANGED vars
  <2>1. Order
    BY <1>1 DEF vars, hist, Orderly
  <2> QED
    BY <1>1, <2>1 DEF vars, servers, threads, hist, Order, Alone, Agreed, Holds, Faithful, Counted,
                      Known, Settled, Reached, Before, Busy
<1>2. ASSUME NEW s \in Servers, Boot(s) PROVE Order'
  BY <1>2, BootOrder DEF Boot, Orderly
<1>3. ASSUME NEW s \in Servers, Elect(s) PROVE Order'
  <2>1. /\ Order /\ UNCHANGED <<up, db, pc, job, copy, net, answered, behind>>
    BY <1>3 DEF Elect, threads, hist, Orderly
  <2> QED
    BY <2>1 DEF Order, Alone, Agreed, Holds, Faithful, Counted, Known, Settled, Reached, Before, Busy
<1>4. ASSUME NEW s \in Servers, Stop(s), cut' = cut PROVE Order'
  BY <1>4, StopOrder DEF Stop, Orderly
<1>5. ASSUME NEW s \in Servers, NEW t \in Threads, ThreadStep(s, t) PROVE Order'
  <2>1. Order
    <3>1. cut' = cut
      BY <1>5 DEF ThreadStep, Register, Process, Remove, Debit, Refuse, Request, Complete,
                  AnswerElection, CopyMetadata, Broadcast, Answer, hist
    <3>2. disturbed => disturbed'
      BY <1>5 DEF ThreadStep, Register, Process, Remove, Debit, Refuse, Request, Begin, Complete,
                  AnswerElection, CopyMetadata, Broadcast, Answer
    <3> QED
      BY <3>1, <3>2 DEF Orderly
  <2>2. s \in up
    BY <1>5, OnlyRunningStep DEF IInv
  <2> QED
    BY <1>5, <2>1, <2>2, RequestOrder, CompleteOrder, CopyOrder, BroadcastOrder, AnswerOrder
       DEF ThreadStep
<1>6. ASSUME NEW m \in net, Lose(m) PROVE Order'
  BY <1>6, LoseOrder DEF Lose, Orderly
<1>7. CASE IgnoreElection
  <2>1. /\ Order /\ UNCHANGED <<up, db, pc, job, copy, net, answered, behind>>
    BY <1>7 DEF IgnoreElection, threads, hist, Orderly
  <2> QED
    BY <2>1 DEF Order, Alone, Agreed, Holds, Faithful, Counted, Known, Settled, Reached, Before, Busy
<1>8. ASSUME NEW m \in net, Receive(m) PROVE Order'
  <2>1. m.to \in Servers
    BY DEF IInv, Places, Typed
  <2>2. cut' = cut /\ ~ (Size(m.snapshot.records) > Capacity)
    BY <1>8 DEF Receive, IInv, Flags
  <2>3. CASE Stop(m.to)
    BY <1>4, <2>1, <2>2, <2>3
  <2>4. CASE Load(m, m.snapshot)
    BY <2>2, <2>4, LoadOrder DEF Load, Orderly
  <2> QED
    BY <1>8, <2>2, <2>3, <2>4 DEF Receive
<1> QED
  BY <1>1, <1>2, <1>3, <1>4, <1>5, <1>6, <1>7, <1>8 DEF Next, Step, Crash

LEMMA AlwaysOrderly == Spec => []Orderly
<1> QED
  BY Always, OrderInit, OrderlyStep, PTL DEF Spec

\* A transfer that was answered with SUCCESS is in the database of every server
\* that missed nothing, coordinators to come included, unless requests overlapped.
THEOREM TransfersOutliveCoordinators == Spec => []AnsweredSurvives
<1>1. Orderly => AnsweredSurvives
  BY DEF Orderly, Order, Counted, Known, Reached, AnsweredSurvives
<1> QED
  BY <1>1, AlwaysOrderly, PTL

\* Servers that missed nothing have one database once nothing is under way,
\* unless requests overlapped.
THEOREM ServersAgree == Spec => []AgreeWhenCalm
<1>1. Places /\ Orderly => AgreeWhenCalm
  <2> SUFFICES ASSUME Places, Orderly, Calm, ~ disturbed, ~ cut,
                      NEW s \in up \ behind, NEW r \in up \ behind
               PROVE  Public(db[s]) = Public(db[r])
    BY DEF AgreeWhenCalm
  <2>1. PICK D : Holds(D)
    BY DEF Orderly, Order, Agreed
  <2>2. Settled(s) /\ Settled(r)
    BY DEF Calm, Settled, Reached, Before
  <2> QED
    BY <2>1, <2>2 DEF Holds
<1>2. IInv => Places
  BY DEF IInv
<1> QED
  BY <1>1, <1>2, Always, AlwaysOrderly, PTL

-----------------------------------------------------------------------------
(* The money.  While a thread is in a change, what it has put into the     *)
(* accounts, or taken out of them, is not in the total.                    *)

Changers(s) == {t \in Threads : pc[s][t] = "changing"}
Owes(j)     == IF j.op = "DIS" THEN STARTING_BALANCE ELSE - j.amount
Debts(s)    == [t \in Threads |-> Owes(job[s][t])]
Owed(s)     == SumFunctionOnSet(Debts(s), Changers(s))

\* A snapshot that was cut has lost accounts, and none the amounts in them.
Near(money, total) == money <= total /\ (~ cut => money = total)

Sound(s) ==
  /\ ~ (Changing(s) /\ Copying(s))
  /\ \A t \in Threads : pc[s][t] = "records" => copy[s][t].total_balance = db[s].total_balance
  /\ \A t \in Changers(s) : job[s][t].op = "REQ" => job[s][t].receiver \in Records(s)
  /\ IsFiniteSet(Records(s)) /\ IsFiniteSet(Changers(s))
  /\ Near(Money(db[s]), db[s].total_balance + Owed(s))

SoundCopy(d) == IsFiniteSet(DOMAIN d.records) /\ Near(Money(d), d.total_balance)

AddsUp == ~ raced => (\A s \in Servers : Sound(s)) /\ \A m \in net : SoundCopy(m.snapshot)

LEMMA BalancesType ==
  ASSUME NEW d, IsDb(d)
  PROVE  /\ d.total_balance \in Int
         /\ \A c \in DOMAIN d.records : Balances(d)[c] \in Nat /\ Balances(d)[c] = d.records[c].balance
  BY DEF IsDb, Balances

LEMMA DebtsType ==
  ASSUME Typed, NEW s \in Servers, NEW t \in Threads
  PROVE  Debts(s)[t] \in Int /\ Debts(s)[t] = Owes(job[s][t])
<1>1. job[s][t].amount \in Nat
  BY DEF Typed, Jobs
<1> QED
  BY <1>1, ReplicationAssumption DEF Debts, Owes

\* A server that nothing happens to, or another step than a step of its threads.
LEMMA SoundElsewhere ==
  ASSUME NEW s \in Servers, Sound(s), db'[s] = db[s], pc'[s] = pc[s], job'[s] = job[s],
         copy'[s] = copy[s], cut => cut'
  PROVE  Sound(s)'
<1>1. Changers(s)' = Changers(s) /\ Debts(s)' = Debts(s) /\ Records(s)' = Records(s)
  BY DEF Changers, Debts, Records
<1>2. Owed(s)' = Owed(s) /\ Money(db[s])' = Money(db[s])
  BY <1>1 DEF Owed, Money, Balances
<1>3. Changing(s)' <=> Changing(s)
  BY DEF Changing
<1>4. Copying(s)' <=> Copying(s)
  BY DEF Copying
<1> QED
  BY <1>1, <1>2, <1>3, <1>4 DEF Sound, Near

\* Nothing of what is known of a snapshot is lost.
LEMMA SoundUnderway ==
  ASSUME NEW d, SoundCopy(d), cut => cut' PROVE SoundCopy(d)'
<1>1. Money(d)' = Money(d)
  BY DEF Money, Balances
<1> QED
  BY <1>1 DEF SoundCopy, Near

\* What a client has, and what a thread owes to the total.
Holding(s, c) == Part(Balances(db[s]), Records(s), c)
Owing(s, t)   == Part(Debts(s), Changers(s), t)

\* Only the account of c is changed, and only thread t moves.
Only(s, t, c) ==
  /\ \A u \in Threads \ {t} : pc'[s][u] = pc[s][u] /\ job'[s][u] = job[s][u] /\ copy'[s][u] = copy[s][u]
  /\ Records(s)' \ {c} = Records(s) \ {c}
  /\ \A x \in Records(s) \ {c} : db'[s].records[x].balance = db[s].records[x].balance

LEMMA SumsMove ==
  ASSUME Typed, Typed', NEW s \in Servers, NEW t \in Threads, NEW c, Sound(s), Only(s, t, c),
         cut' = cut,
         Holding(s, c)' - Holding(s, c)
           = (db'[s].total_balance - db[s].total_balance) + (Owing(s, t)' - Owing(s, t))
  PROVE  /\ IsFiniteSet(Records(s)') /\ IsFiniteSet(Changers(s)')
         /\ Near(Money(db[s]), db[s].total_balance + Owed(s))'
<1>1. IsDb(db[s]) /\ IsDb(db'[s])
  BY DEF Typed
<1>2. DifferAt(Balances(db[s]), Records(s), Balances(db'[s]), Records(s)', c)
  <2>1. /\ \A x \in Records(s) : Balances(db[s])[x] = db[s].records[x].balance /\ Balances(db[s])[x] \in Int
        /\ \A x \in Records(s)' : Balances(db'[s])[x] = db'[s].records[x].balance /\ Balances(db'[s])[x] \in Int
    BY <1>1, BalancesType DEF Records
  <2>2. IsFiniteSet(Records(s))
    BY DEF Sound
  <2> QED
    BY <2>1, <2>2 DEF Only, DifferAt
<1>3. DifferAt(Debts(s), Changers(s), Debts(s)', Changers(s)', t)
  <2>1. \A u \in Threads : /\ Debts(s)[u] \in Int /\ Debts(s)[u] = Owes(job[s][u])
                           /\ Debts(s)'[u] \in Int /\ Debts(s)'[u] = Owes(job'[s][u])
    <3>1. ASSUME NEW u \in Threads PROVE Debts(s)'[u] = Owes(job'[s][u]) /\ Debts(s)'[u] \in Int
      <4>1. job'[s][u].amount \in Nat
        BY DEF Typed, Jobs
      <4> QED
        BY <4>1, ReplicationAssumption DEF Debts, Owes
    <3> QED
      BY <3>1, DebtsType
  <2>2. IsFiniteSet(Changers(s)) /\ Changers(s) \subseteq Threads /\ Changers(s)' \subseteq Threads
    BY DEF Sound, Changers
  <2>3. \A u \in Threads \ {t} : u \in Changers(s)' <=> u \in Changers(s)
    BY DEF Only, Changers
  <2>4. \A u \in Threads \ {t} : Debts(s)'[u] = Debts(s)[u]
    BY <2>1 DEF Only
  <2>5. Changers(s) \ {t} = Changers(s)' \ {t}
    BY <2>2, <2>3
  <2> QED
    BY <2>1, <2>2, <2>4, <2>5 DEF DifferAt
<1>4. /\ IsFiniteSet(Records(s)') /\ Money(db[s]) \in Int /\ Money(db'[s]) \in Int
      /\ Money(db'[s]) - Holding(s, c)' = Money(db[s]) - Holding(s, c)
  BY <1>2, SumChange DEF Money, Holding, Records
<1>5. /\ IsFiniteSet(Changers(s)') /\ Owed(s) \in Int /\ Owed(s)' \in Int
      /\ Owed(s)' - Owing(s, t)' = Owed(s) - Owing(s, t)
  BY <1>3, SumChange DEF Owed, Owing
<1>6. /\ Holding(s, c) \in Int /\ Holding(s, c)' \in Int
      /\ Owing(s, t) \in Int /\ Owing(s, t)' \in Int
  BY <1>2, <1>3 DEF DifferAt, Holding, Owing, Part
<1>7. db[s].total_balance \in Int /\ db'[s].total_balance \in Int
  BY <1>1 DEF IsDb
<1>8. Near(Money(db[s]), db[s].total_balance + Owed(s))
  BY DEF Sound
<1> DEFINE m == Money(db[s])
           m1 == Money(db'[s])
           w == Owed(s)
           w1 == Owed(s)'
           v == db[s].total_balance
           v1 == db'[s].total_balance
           h == Holding(s, c)
           h1 == Holding(s, c)'
           o == Owing(s, t)
           o1 == Owing(s, t)'
<1>9. /\ {m, m1, w, w1, v, v1, h, h1, o, o1} \subseteq Int
      /\ m1 - h1 = m - h /\ w1 - o1 = w - o /\ h1 - h = (v1 - v) + (o1 - o)
  BY <1>4, <1>5, <1>6, <1>7
<1>10. m <= v + w /\ (~ cut => m = v + w)
  BY <1>8 DEF Near
<1>11. Near(Money(db[s]), db[s].total_balance + Owed(s))' <=> m1 <= v1 + w1 /\ (~ cut' => m1 = v1 + w1)
  BY DEF Near
<1> HIDE DEF m, m1, w, w1, v, v1, h, h1, o, o1
<1>12. m1 <= v1 + w1 /\ (~ cut => m1 = v1 + w1)
  BY <1>9, <1>10
<1> QED
  BY <1>4, <1>5, <1>11, <1>12

\* The receiver of a transfer that is under way keeps its account.
Receivers(s) ==
  \A u \in Changers(s) : job[s][u].op = "REQ" => job[s][u].receiver \in Records(s)

LEMMA SoundStep ==
  ASSUME Typed, Typed', NEW s \in Servers, NEW t \in Threads, NEW c, Sound(s), Only(s, t, c),
         cut' = cut,
         Holding(s, c)' - Holding(s, c)
           = (db'[s].total_balance - db[s].total_balance) + (Owing(s, t)' - Owing(s, t)),
         ~ (Changing(s)' /\ Copying(s)'),
         db'[s].total_balance = db[s].total_balance \/ ~ Copying(s)',
         pc'[s][t] = "records" => copy'[s][t].total_balance = db'[s].total_balance,
         Receivers(s)'
  PROVE  Sound(s)'
<1>1. \A u \in Threads : pc'[s][u] = "records" => copy'[s][u].total_balance = db'[s].total_balance
  <2>1. ASSUME NEW u \in Threads \ {t}, pc'[s][u] = "records"
        PROVE  copy'[s][u].total_balance = db'[s].total_balance
    <3>1. pc[s][u] = "records" /\ copy'[s][u] = copy[s][u]
      BY <2>1 DEF Only
    <3>2. Copying(s)'
      BY <2>1 DEF Copying
    <3> QED
      BY <3>1, <3>2 DEF Sound
  <2> QED
    BY <2>1
<1> QED
  BY <1>1, SumsMove DEF Sound, Receivers

LEMMA OwingIs ==
  ASSUME Typed, NEW s \in Servers, NEW t \in Threads
  PROVE  Owing(s, t) = IF pc[s][t] = "changing" THEN Owes(job[s][t]) ELSE 0
  BY DebtsType DEF Owing, Part, Changers

LEMMA OwingBecomes ==
  ASSUME Typed', NEW s \in Servers, NEW t \in Threads
  PROVE  Owing(s, t)' = IF pc'[s][t] = "changing" THEN Owes(job'[s][t]) ELSE 0
  BY DEF Owing, Part, Changers, Debts

LEMMA HoldingIs ==
  ASSUME Typed, NEW s \in Servers, NEW c
  PROVE  Holding(s, c) = IF c \in Records(s) THEN db[s].records[c].balance ELSE 0
  BY DEF Holding, Part, Records, Balances

LEMMA HoldingBecomes ==
  ASSUME Typed', NEW s \in Servers, NEW c
  PROVE  Holding(s, c)' = IF c \in Records(s)' THEN db'[s].records[c].balance ELSE 0
  BY DEF Holding, Part, Records, Balances

\* A step that leaves the database alone, of a thread that is in no change
\* before or after it.
LEMMA IdleSound ==
  ASSUME IInv, IInv', NEW s \in Servers, NEW t \in Threads, Sound(s),
         db' = db, cut' = cut, pc[s][t] # "changing", pc'[s][t] # "changing",
         \A u \in Threads \ {t} : pc'[s][u] = pc[s][u] /\ job'[s][u] = job[s][u] /\ copy'[s][u] = copy[s][u],
         pc'[s][t] = "records" => copy'[s][t].total_balance = db[s].total_balance,
         ~ (Changing(s)' /\ Copying(s)')
  PROVE  Sound(s)'
<1>0. Typed /\ Typed'
  BY DEF IInv
<1>1. Only(s, t, NoClient) /\ Records(s)' = Records(s)
  BY DEF Only, Records
<1>2. Holding(s, NoClient)' = 0 /\ Holding(s, NoClient) = 0
  <2>1. NoClient \notin Records(s)
    BY <1>0, ReplicationAssumption DEF Typed, IsDb, Records
  <2> QED
    BY <1>1, <2>1 DEF Holding, Part
<1>3. Owing(s, t)' = 0 /\ Owing(s, t) = 0
  BY DEF Owing, Part, Changers
<1>4. Receivers(s)'
  BY <1>1 DEF Receivers, Sound, Changers
<1>5. db[s].total_balance \in Int
  BY <1>0 DEF Typed, IsDb
<1> QED
  BY <1>0, <1>1, <1>2, <1>3, <1>4, <1>5, SoundStep

\* What a request writes.
LEMMA Writes ==
  ASSUME IInv, NEW s \in Servers, NEW t \in Threads, NEW f, NEW j, NEW l,
         SetRecords(s, f), Request(s, t, j), Goto(s, t, l)
  PROVE  /\ db'[s].total_balance = db[s].total_balance
         /\ db'[s].records = f /\ Records(s)' = DOMAIN f
         /\ cut' = cut /\ copy' = copy
         /\ pc[s][t] = "idle" /\ pc'[s][t] = l /\ job'[s][t] = j
         /\ \A u \in Threads \ {t} : pc'[s][u] = pc[s][u] /\ job'[s][u] = job[s][u]
<1>1. IsDb(db[s]) /\ Typed /\ Places
  BY DEF IInv, Typed
<1>2. db'[s] = [db[s] EXCEPT !.records = f]
  BY <1>1 DEF SetRecords, Typed
<1>3. /\ [db[s] EXCEPT !.records = f].records = f
      /\ [db[s] EXCEPT !.records = f].total_balance = db[s].total_balance
  BY <1>1 DEF IsDb
<1>4. /\ cut' = cut /\ copy' = copy /\ pc[s][t] = "idle" /\ job' = [job EXCEPT ![s][t] = j]
      /\ pc' = [pc EXCEPT ![s][t] = l]
  BY DEF Request, Begin, Goto, hist
<1>5. /\ pc'[s][t] = l /\ job'[s][t] = j
      /\ \A u \in Threads \ {t} : pc'[s][u] = pc[s][u] /\ job'[s][u] = job[s][u]
  BY <1>1, <1>4 DEF Places, Typed
<1> QED
  BY <1>2, <1>3, <1>4, <1>5 DEF Records

\* A request that starts a change of the account of c.
LEMMA ChangeSound ==
  ASSUME IInv, IInv', NEW s \in Servers, NEW t \in Threads, NEW c, NEW f, NEW j, Sound(s),
         SetRecords(s, f), Request(s, t, j), Goto(s, t, "changing"),
         ~ (Changing(s)' /\ Copying(s)'),
         DOMAIN f \ {c} = Records(s) \ {c},
         \A x \in Records(s) \ {c} : f[x].balance = db[s].records[x].balance,
         (IF c \in DOMAIN f THEN f[c].balance ELSE 0)
           - (IF c \in Records(s) THEN db[s].records[c].balance ELSE 0) = Owes(j),
         j.op = "REQ" => j.receiver \in DOMAIN f,
         \A u \in Changers(s) : job[s][u].op = "REQ" => job[s][u].receiver \in DOMAIN f
  PROVE  Sound(s)'
<1>0. Typed /\ Typed'
  BY DEF IInv
<1>1. /\ db'[s].total_balance = db[s].total_balance
      /\ db'[s].records = f /\ Records(s)' = DOMAIN f
      /\ cut' = cut /\ copy' = copy
      /\ pc[s][t] = "idle" /\ pc'[s][t] = "changing" /\ job'[s][t] = j
      /\ \A u \in Threads \ {t} : pc'[s][u] = pc[s][u] /\ job'[s][u] = job[s][u]
  BY Writes
<1>2. Only(s, t, c)
  BY <1>1 DEF Only
<1>3. Holding(s, c)' - Holding(s, c) = Owes(j)
  BY <1>0, <1>1, HoldingIs, HoldingBecomes
<1>4. Owing(s, t) = 0 /\ Owing(s, t)' = Owes(j) /\ Owing(s, t)' \in Int
  <2>1. Owing(s, t) = 0 /\ Owing(s, t)' = Owes(j)
    BY <1>0, <1>1, OwingIs, OwingBecomes
  <2>2. j \in Jobs
    BY <1>0, <1>1 DEF Typed
  <2>3. Owes(j) \in Int
    BY <2>2, ReplicationAssumption DEF Owes, Jobs
  <2> QED
    BY <2>1, <2>3
<1>5. db[s].total_balance \in Int
  BY <1>0 DEF Typed, IsDb
<1>6. Receivers(s)'
  BY <1>1 DEF Receivers, Changers
<1>7. Holding(s, c)' - Holding(s, c)
        = (db'[s].total_balance - db[s].total_balance) + (Owing(s, t)' - Owing(s, t))
  BY <1>1, <1>3, <1>4, <1>5
<1> QED
  BY <1>0, <1>1, <1>2, <1>6, <1>7, SoundStep

LEMMA RegisterSound ==
  ASSUME IInv, IInv', NEW s \in Servers, NEW t \in Threads, NEW c \in Clients, Register(s, t, c),
         Sound(s), ~ (Changing(s)' /\ Copying(s)')
  PROVE  Sound(s)'
<1> DEFINE j == Job("DIS", c, NoClient, 0)
           g == [x \in Records(s) \cup {c} |->
                  IF x = c THEN Record(STARTING_BALANCE, 0) ELSE db[s].records[x]]
<1>1. Request(s, t, j)
  BY DEF Register
<1>2. CASE c \in Records(s)
  <2>1. db' = db /\ Goto(s, t, "metadata")
    BY <1>2 DEF Register
  <2>2. /\ cut' = cut /\ copy' = copy /\ pc[s][t] = "idle" /\ job' = [job EXCEPT ![s][t] = j]
        /\ pc' = [pc EXCEPT ![s][t] = "metadata"]
    BY <1>1, <2>1 DEF Request, Begin, Goto, hist
  <2>3. /\ pc'[s][t] = "metadata"
        /\ \A u \in Threads \ {t} : pc'[s][u] = pc[s][u] /\ job'[s][u] = job[s][u]
    BY <2>2 DEF IInv, Places, Typed
  <2> QED
    BY <2>1, <2>2, <2>3, IdleSound
<1>3. CASE c \notin Records(s)
  <2>1. SetRecords(s, g) /\ Goto(s, t, "changing")
    BY <1>3 DEF Register
  <2>2. /\ DOMAIN g = Records(s) \cup {c}
        /\ g[c].balance = STARTING_BALANCE
        /\ \A x \in Records(s) \ {c} : g[x] = db[s].records[x]
    BY DEF Record
  <2>3. j.op = "DIS" /\ Owes(j) = STARTING_BALANCE
    BY DEF Job, Owes
  <2>4. \A u \in Changers(s) : job[s][u].op = "REQ" => job[s][u].receiver \in DOMAIN g
    BY <2>2 DEF Sound
  <2> HIDE DEF g, j
  <2>5. (IF c \in DOMAIN g THEN g[c].balance ELSE 0)
           - (IF c \in Records(s) THEN db[s].records[c].balance ELSE 0) = Owes(j)
    BY <1>3, <2>2, <2>3, ReplicationAssumption
  <2>6. DOMAIN g \ {c} = Records(s) \ {c}
    BY <2>2
  <2>7. \A x \in Records(s) \ {c} : g[x].balance = db[s].records[x].balance
    BY <2>2
  <2> QED
    BY <1>1, <2>1, <2>3, <2>4, <2>5, <2>6, <2>7, ChangeSound
<1> QED
  BY <1>2, <1>3

LEMMA RemoveSound ==
  ASSUME IInv, IInv', NEW s \in Servers, NEW t \in Threads, NEW c \in Clients, Remove(s, t, c),
         Sound(s), ~ (Changing(s)' /\ Copying(s)')
  PROVE  Sound(s)'
<1> DEFINE j == Job("KIL", c, NoClient, db[s].records[c].balance)
           g == [x \in Records(s) \ {c} |-> db[s].records[x]]
<1>1. /\ Request(s, t, j) /\ SetRecords(s, g) /\ Goto(s, t, "changing")
      /\ c \in Records(s) /\ ~ Locked(s, c)
  BY DEF Remove
<1>2. DOMAIN g = Records(s) \ {c} /\ \A x \in Records(s) \ {c} : g[x] = db[s].records[x]
  OBVIOUS
<1>3. j.op = "KIL" /\ Owes(j) = - db[s].records[c].balance
  BY DEF Job, Owes
<1>4. db[s].records[c].balance \in Nat
  BY <1>1 DEF IInv, Typed, IsDb, Records
<1>5. \A u \in Changers(s) : job[s][u].op = "REQ" => job[s][u].receiver \in DOMAIN g
  BY <1>1, <1>2 DEF Sound, Locked, Changers
<1> HIDE DEF g, j
<1>6. (IF c \in DOMAIN g THEN g[c].balance ELSE 0)
         - (IF c \in Records(s) THEN db[s].records[c].balance ELSE 0) = Owes(j)
  BY <1>1, <1>2, <1>3, <1>4
<1>7. DOMAIN g \ {c} = Records(s) \ {c}
  BY <1>2
<1>8. \A x \in Records(s) \ {c} : g[x].balance = db[s].records[x].balance
  BY <1>2
<1> QED
  BY <1>1, <1>3, <1>5, <1>6, <1>7, <1>8, ChangeSound

LEMMA DebitSound ==
  ASSUME IInv, IInv', NEW s \in Servers, NEW t \in Threads, NEW c \in Clients, NEW r \in Clients,
         NEW a \in Amounts, Debit(s, t, c, r, a), Sound(s), ~ (Changing(s)' /\ Copying(s)')
  PROVE  Sound(s)'
<1> DEFINE j == Job("REQ", c, r, a)
           f == db[s].records
           g == [f EXCEPT ![c].balance = @ - a, ![c].last_request = @ + 1]
<1>1. /\ Request(s, t, j) /\ SetRecords(s, g) /\ Goto(s, t, "changing")
      /\ {c, r} \subseteq Records(s) /\ c # r
  BY DEF Debit, Transferable
<1>2. f \in [Records(s) -> [balance : Nat, last_request : Nat]]
  BY DEF IInv, Typed, IsDb, Records
<1>3. /\ DOMAIN g = Records(s) /\ g[c].balance = f[c].balance - a /\ f[c].balance \in Nat
      /\ \A x \in Records(s) \ {c} : g[x] = f[x]
  BY <1>1, <1>2
<1>4. j.op = "REQ" /\ j.receiver = r /\ Owes(j) = - a /\ a \in Nat
  BY ReplicationAssumption DEF Job, Owes
<1>5. \A u \in Changers(s) : job[s][u].op = "REQ" => job[s][u].receiver \in DOMAIN g
  BY <1>3 DEF Sound
<1> HIDE DEF g, j
<1>6. (IF c \in DOMAIN g THEN g[c].balance ELSE 0)
         - (IF c \in Records(s) THEN db[s].records[c].balance ELSE 0) = Owes(j)
  BY <1>1, <1>3, <1>4
<1>7. DOMAIN g \ {c} = Records(s) \ {c} /\ j.receiver \in DOMAIN g
  BY <1>1, <1>3, <1>4
<1>8. \A x \in Records(s) \ {c} : g[x].balance = db[s].records[x].balance
  BY <1>3
<1> QED
  BY <1>1, <1>4, <1>5, <1>6, <1>7, <1>8, ChangeSound

\* A request that is refused moves no money.
LEMMA RefuseSound ==
  ASSUME IInv, IInv', NEW s \in Servers, NEW t \in Threads, NEW c \in Clients, NEW r \in Clients,
         NEW a \in Amounts, Refuse(s, t, c, r, a), Sound(s), ~ (Changing(s)' /\ Copying(s)')
  PROVE  Sound(s)'
<1> DEFINE f == db[s].records
           g == [f EXCEPT ![c].last_request = @ + 1]
<1>0. Typed /\ Typed' /\ Places
  BY DEF IInv
<1>1. Request(s, t, NoJob) /\ SetRecords(s, g) /\ pc' = pc /\ c \in Records(s) /\ pc[s][t] = "idle"
  BY DEF Refuse, Transferable, Request, Begin
<1>2. f \in [Records(s) -> [balance : Nat, last_request : Nat]]
  BY <1>0 DEF Typed, IsDb, Records
<1>3. DOMAIN g = Records(s) /\ \A x \in Records(s) : g[x].balance = f[x].balance
  BY <1>1, <1>2
<1> HIDE DEF g
<1>4. Goto(s, t, "idle")
  BY <1>0, <1>1 DEF Goto, Places
<1>5. /\ db'[s].total_balance = db[s].total_balance
      /\ db'[s].records = g /\ Records(s)' = DOMAIN g
      /\ cut' = cut /\ copy' = copy
      /\ \A u \in Threads \ {t} : pc'[s][u] = pc[s][u] /\ job'[s][u] = job[s][u]
  BY <1>1, <1>4, Writes
<1>6. Only(s, t, c)
  BY <1>3, <1>5 DEF Only
<1>7. Holding(s, c)' = Holding(s, c) /\ Holding(s, c) \in Int
  <2>1. f[c].balance \in Nat
    BY <1>1, <1>2
  <2> QED
    BY <1>0, <1>1, <1>3, <1>5, <2>1, HoldingIs, HoldingBecomes
<1>8. Owing(s, t)' = 0 /\ Owing(s, t) = 0
  BY <1>1 DEF Owing, Part, Changers
<1>9. Receivers(s)'
  BY <1>1, <1>3, <1>5 DEF Receivers, Sound, Changers
<1>10. db[s].total_balance \in Int
  BY <1>0 DEF Typed, IsDb
<1>11. Holding(s, c)' - Holding(s, c)
         = (db'[s].total_balance - db[s].total_balance) + (Owing(s, t)' - Owing(s, t))
  BY <1>5, <1>7, <1>8, <1>10
<1> QED
  BY <1>0, <1>1, <1>5, <1>6, <1>9, <1>11, SoundStep

\* A change that is completed owes nothing any more.
LEMMA CompleteSound ==
  ASSUME IInv, IInv', NEW s \in Servers, NEW t \in Threads, Complete(s, t), Sound(s),
         ~ (Changing(s)' /\ Copying(s)')
  PROVE  Sound(s)'
<1> DEFINE j == job[s][t]
           d == db[s]
<1>0. Typed /\ Typed' /\ Places /\ IsDb(d)
  BY DEF IInv, Typed
<1>1. /\ pc[s][t] = "changing" /\ cut' = cut /\ job' = job /\ copy' = copy
      /\ pc'[s][t] = "metadata"
      /\ \A u \in Threads \ {t} : pc'[s][u] = pc[s][u]
  BY <1>0 DEF Complete, Goto, hist, Places
<1>2. j.op \in {"DIS", "REQ", "KIL"} /\ j.amount \in Nat /\ d.total_balance \in Int
  BY <1>0, <1>1 DEF Typed, Jobs, IsDb
<1>3. Changing(s) /\ ~ Copying(s)
  BY <1>1 DEF Changing, Sound
<1>4. ~ Copying(s)'
  BY <1>1, <1>3 DEF Copying
<1>5. Owing(s, t) = Owes(j) /\ Owing(s, t)' = 0
  BY <1>0, <1>1, OwingIs, OwingBecomes
<1>6. CASE j.op \in {"DIS", "KIL"}
  <2>1. /\ db'[s].records = d.records
        /\ db'[s].total_balance = d.total_balance + Owes(j)
    <3>1. CASE j.op = "DIS"
      <4>1. db' = [db EXCEPT ![s] = [d EXCEPT !.total_balance = @ + STARTING_BALANCE]]
        BY <3>1 DEF Complete
      <4>2. db'[s] = [d EXCEPT !.total_balance = @ + STARTING_BALANCE]
        BY <1>0, <4>1 DEF Typed
      <4> QED
        BY <1>0, <3>1, <4>2 DEF IsDb, Owes
    <3>2. CASE j.op = "KIL"
      <4>1. db' = [db EXCEPT ![s] = [d EXCEPT !.total_balance = @ - j.amount]]
        BY <3>2 DEF Complete
      <4>2. db'[s] = [d EXCEPT !.total_balance = @ - j.amount]
        BY <1>0, <4>1 DEF Typed
      <4>3. db'[s].total_balance = d.total_balance - j.amount /\ db'[s].records = d.records
        BY <1>0, <4>2 DEF IsDb
      <4>4. Owes(j) = - j.amount
        BY <3>2 DEF Owes
      <4> QED
        BY <1>2, <4>3, <4>4
    <3> QED
      BY <1>6, <3>1, <3>2
  <2>2. Records(s)' = Records(s) /\ NoClient \notin Records(s)
    BY <1>0, <2>1, ReplicationAssumption DEF Records, IsDb
  <2>3. Only(s, t, NoClient)
    BY <1>1, <2>1, <2>2 DEF Only
  <2>4. Holding(s, NoClient)' = 0 /\ Holding(s, NoClient) = 0
    BY <2>2 DEF Holding, Part
  <2>5. Owes(j) \in Int
    BY <1>2, ReplicationAssumption DEF Owes
  <2>6. Holding(s, NoClient)' - Holding(s, NoClient)
          = (db'[s].total_balance - db[s].total_balance) + (Owing(s, t)' - Owing(s, t))
    BY <1>2, <1>5, <2>1, <2>4, <2>5
  <2>7. Receivers(s)'
    BY <1>1, <2>2 DEF Receivers, Sound, Changers
  <2>8. pc'[s][t] # "records"
    BY <1>1
  <2> QED
    BY <1>0, <1>1, <1>4, <2>3, <2>6, <2>7, <2>8, SoundStep
<1>7. CASE j.op = "REQ"
  <2>0. PICK r \in Clients \cup {NoClient} : r = j.receiver
    BY <1>0 DEF Typed, Jobs
  <2> DEFINE g == [c \in DOMAIN d.records |->
                  [d.records[c] EXCEPT !.balance = @ + IF c = r THEN j.amount ELSE 0]]
  <2>1. db'[s].records = g /\ db'[s].total_balance = d.total_balance
    <3>1. db' = [db EXCEPT ![s] =
                   Database(d.num_transactions + 1,
                            (d.total_transferred + j.amount) % (2 * (INT_MAX + 1)),
                            d.total_balance, g)]
      BY <1>7, <2>0 DEF Complete
    <3> HIDE DEF g
    <3>2. db'[s] = Database(d.num_transactions + 1,
                            (d.total_transferred + j.amount) % (2 * (INT_MAX + 1)),
                            d.total_balance, g)
      BY <1>0, <3>1 DEF Typed
    <3> QED
      BY <3>2 DEF Database
  <2>2. r \in Records(s)
    BY <1>1, <1>7, <2>0 DEF Sound, Changers
  <2>3. /\ DOMAIN g = Records(s)
        /\ \A c \in Records(s) : d.records[c].balance \in Nat
        /\ \A c \in Records(s) \ {r} : g[c].balance = d.records[c].balance
        /\ g[r].balance = d.records[r].balance + j.amount
    BY <1>0, <1>2, <2>2 DEF IsDb, Records
  <2> HIDE DEF g
  <2>4. Records(s)' = Records(s)
    BY <2>1, <2>3 DEF Records
  <2>5. Only(s, t, r)
    BY <1>1, <2>1, <2>3, <2>4 DEF Only
  <2>6. /\ Holding(s, r) = d.records[r].balance
        /\ Holding(s, r)' = d.records[r].balance + j.amount
    BY <1>0, <2>1, <2>2, <2>3, <2>4, HoldingIs, HoldingBecomes
  <2>7. Owes(j) = - j.amount /\ d.records[r].balance \in Nat
    BY <1>7, <2>2, <2>3 DEF Owes
  <2>8. Holding(s, r)' - Holding(s, r)
          = (db'[s].total_balance - db[s].total_balance) + (Owing(s, t)' - Owing(s, t))
    BY <1>2, <1>5, <2>1, <2>6, <2>7
  <2>9. Receivers(s)'
    BY <1>1, <2>4 DEF Receivers, Sound, Changers
  <2>10. pc'[s][t] # "records"
    BY <1>1
  <2> QED
    BY <1>0, <1>1, <1>4, <2>5, <2>8, <2>9, <2>10, SoundStep
<1> QED
  BY <1>2, <1>6, <1>7

LEMMA ThreadSound ==
  ASSUME IInv, IInv', NEW s \in Servers, NEW t \in Threads, ThreadStep(s, t), Sound(s),
         ~ (Changing(s)' /\ Copying(s)')
  PROVE  Sound(s)'
<1>0. Places /\ Typed
  BY DEF IInv
<1>1. CASE AnswerElection(s, t)
  <2>1. /\ db' = db /\ cut' = cut /\ copy' = copy
        /\ pc[s][t] = "idle" /\ pc' = [pc EXCEPT ![s][t] = "metadata"]
        /\ job' = [job EXCEPT ![s][t] = Job("ELE", NoClient, NoClient, 0)]
    BY <1>1 DEF AnswerElection, Begin, Goto, hist
  <2>2. /\ pc'[s][t] = "metadata"
        /\ \A u \in Threads \ {t} : pc'[s][u] = pc[s][u] /\ job'[s][u] = job[s][u]
    BY <1>0, <2>1 DEF Places, Typed
  <2> QED
    BY <2>1, <2>2, IdleSound
<1>2. CASE CopyMetadata(s, t)
  <2>1. /\ db' = db /\ cut' = cut /\ job' = job
        /\ pc[s][t] = "metadata" /\ pc' = [pc EXCEPT ![s][t] = "records"]
        /\ copy' = [copy EXCEPT ![s][t] = [db[s] EXCEPT !.records = Empty.records]]
    BY <1>2 DEF CopyMetadata, Goto, hist
  <2>2. /\ pc'[s][t] = "records" /\ copy'[s][t] = [db[s] EXCEPT !.records = Empty.records]
        /\ \A u \in Threads \ {t} : pc'[s][u] = pc[s][u] /\ copy'[s][u] = copy[s][u]
    BY <1>0, <2>1 DEF Places, Typed
  <2>3. copy'[s][t].total_balance = db[s].total_balance
    BY <1>0, <2>2 DEF Typed, IsDb
  <2> QED
    BY <2>1, <2>2, <2>3, IdleSound
<1>3. CASE Broadcast(s, t)
  <2>1. /\ db' = db /\ cut' = cut /\ pc[s][t] = "records"
        /\ copy' = [copy EXCEPT ![s][t] = Empty]
        /\ \E l \in {"answer", "idle"} : pc' = [pc EXCEPT ![s][t] = l]
        /\ job' = job \/ job' = [job EXCEPT ![s][t] = NoJob]
    BY <1>3 DEF Broadcast, Finish, Goto, hist
  <2>2. /\ pc'[s][t] \in {"answer", "idle"}
        /\ \A u \in Threads \ {t} :
             pc'[s][u] = pc[s][u] /\ copy'[s][u] = copy[s][u] /\ job'[s][u] = job[s][u]
    BY <1>0, <2>1 DEF Places, Typed
  <2> QED
    BY <2>1, <2>2, IdleSound
<1>4. CASE Answer(s, t)
  <2>1. /\ db' = db /\ cut' = cut /\ copy' = copy /\ pc[s][t] = "answer"
        /\ pc' = [pc EXCEPT ![s][t] = "idle"] /\ job' = [job EXCEPT ![s][t] = NoJob]
    BY <1>4 DEF Answer, Finish, Goto, hist
  <2>2. /\ pc'[s][t] = "idle"
        /\ \A u \in Threads \ {t} : pc'[s][u] = pc[s][u] /\ job'[s][u] = job[s][u]
    BY <1>0, <2>1 DEF Places, Typed
  <2> QED
    BY <2>1, <2>2, IdleSound
<1> QED
  BY <1>1, <1>2, <1>3, <1>4, RegisterSound, RemoveSound, DebitSound, RefuseSound, CompleteSound
     DEF ThreadStep, Process

\* Nobody is in a change: nothing is owed.
LEMMA NobodyOwes ==
  ASSUME NEW s \in Servers, ~ Changing(s)
  PROVE  Changers(s) = {} /\ IsFiniteSet(Changers(s)) /\ Owed(s) = 0
<1>1. Changers(s) = {}
  BY DEF Changers, Changing
<1> QED
  BY <1>1, SumEmpty, FS_EmptySet DEF Owed

LEMMA NobodyWillOwe ==
  ASSUME NEW s \in Servers, ~ Changing(s)'
  PROVE  Changers(s)' = {} /\ IsFiniteSet(Changers(s)') /\ Owed(s)' = 0
<1>1. Changers(s)' = {}
  BY DEF Changers, Changing
<1> QED
  BY <1>1, SumEmpty, FS_EmptySet DEF Owed

LEMMA SoundEmpty == SoundCopy(Empty) /\ SoundCopy(Empty)'
<1>1. Empty.records = [c \in {} |-> 0] /\ Empty.total_balance = 0
  BY DEF Empty, Database
<1>2. DOMAIN Empty.records = {}
  BY <1>1
<1>3. Money(Empty) = 0
  BY <1>2, SumEmpty DEF Money
<1>4. Money(Empty)' = 0
  BY <1>2, SumEmpty DEF Money
<1> QED
  BY <1>1, <1>2, <1>3, <1>4, FS_EmptySet DEF SoundCopy, Near

\* A server with a database whose money adds up, at which nobody is at work.
LEMMA SoundLoaded ==
  ASSUME Typed', NEW s \in Servers, NEW d, db'[s] = d, SoundCopy(d)',
         ~ Changing(s)', ~ Copying(s)'
  PROVE  Sound(s)'
<1>1. Changers(s)' = {} /\ IsFiniteSet(Changers(s)') /\ Owed(s)' = 0
  BY NobodyWillOwe
<1>2. db'[s].total_balance \in Int
  BY DEF Typed, IsDb
<1>3. Money(db[s])' = Money(d)'
  BY DEF Money, Balances
<1>4. Near(Money(db[s]), db[s].total_balance + Owed(s))'
  BY <1>1, <1>2, <1>3 DEF SoundCopy, Near
<1>5. IsFiniteSet(Records(s)')
  BY DEF SoundCopy, Records
<1>6. \A t \in Threads : pc'[s][t] # "records"
  BY DEF Copying
<1> QED
  BY <1>1, <1>4, <1>5, <1>6 DEF Sound

\* What is parsed of a text that was cut has no more in its accounts.
LEMMA TruncatedSound ==
  ASSUME NEW d, IsDb(d), SoundCopy(d), cut', NEW K \in SUBSET DOMAIN d.records, NEW c \in K,
         NEW n \in 0 .. d.records[c].last_request
  PROVE  SoundCopy([d EXCEPT !.records = Truncated(d.records, K, c, n)])'
<1> DEFINE g == Truncated(d.records, K, c, n)
<1>0. PICK e : e = [d EXCEPT !.records = g]
  OBVIOUS
<1>1. d.records \in [DOMAIN d.records -> [balance : Nat, last_request : Nat]]
  BY DEF IsDb
<1>2. /\ DOMAIN g = K
      /\ \A x \in K : g[x].balance = d.records[x].balance
  BY <1>1 DEF Truncated, Restrict
<1> HIDE DEF g
<1>3. e.records = g /\ e.total_balance = d.total_balance /\ d.total_balance \in Int
  BY <1>0 DEF IsDb
<1>4. IsFiniteSet(DOMAIN d.records) /\ IsFiniteSet(K)
  BY FS_Subset DEF SoundCopy
<1>5. /\ \A x \in DOMAIN d.records : Balances(d)[x] \in Nat
      /\ \A x \in K : Balances(e)[x] \in Int /\ Balances(e)[x] <= Balances(d)[x]
  BY <1>1, <1>2, <1>3 DEF Balances
<1>6. SumFunctionOnSet(Balances(e), K) <= SumFunctionOnSet(Balances(d), DOMAIN d.records)
  BY <1>4, <1>5, SumMonotone
<1>7. Money(e) <= Money(d)
  BY <1>2, <1>3, <1>6 DEF Money
<1>8. Money(e) \in Int /\ Money(d) \in Int
  BY <1>2, <1>3, <1>4, <1>5, SumType DEF Money
<1>9. Money(e) <= e.total_balance
  BY <1>3, <1>7, <1>8 DEF SoundCopy, Near
<1>10. Money(e)' = Money(e)
  BY DEF Money, Balances
<1>11. SoundCopy(e)'
  BY <1>2, <1>3, <1>4, <1>9, <1>10 DEF SoundCopy, Near
<1> QED
  BY <1>0, <1>11 DEF g

LEMMA AddsUpInit == Init => AddsUp
<1> SUFFICES ASSUME Init PROVE AddsUp
  OBVIOUS
<1>1. net = {}
  BY DEF Init
<1>2. ASSUME NEW s \in Servers PROVE Sound(s)
  <2>1. /\ db[s] = Empty /\ \A t \in Threads : pc[s][t] = "idle"
    BY DEF Init
  <2>2. ~ Changing(s) /\ ~ Copying(s)
    BY <2>1 DEF Changing, Copying
  <2>3. Changers(s) = {} /\ IsFiniteSet(Changers(s)) /\ Owed(s) = 0
    BY <2>2, NobodyOwes
  <2>4. IsFiniteSet(DOMAIN Empty.records) /\ Near(Money(Empty), Empty.total_balance)
    BY SoundEmpty DEF SoundCopy
  <2>5. Empty.total_balance = 0
    BY DEF Empty, Database
  <2>6. Near(Money(db[s]), db[s].total_balance + Owed(s))
    BY <2>1, <2>3, <2>4, <2>5
  <2> QED
    BY <2>1, <2>2, <2>3, <2>4, <2>6 DEF Sound, Records
<1> QED
  BY <1>1, <1>2 DEF AddsUp

\* A copy that met no change is sound.
LEMMA BroadcastSound ==
  ASSUME IInv, NEW s \in Servers, NEW t \in Threads, Broadcast(s, t), Sound(s)
  PROVE  \A m \in net' \ net : SoundCopy(m.snapshot)'
<1>0. PICK e : e = [copy[s][t] EXCEPT !.records = db[s].records]
  OBVIOUS
<1>1. pc[s][t] = "records" /\ cut' = cut /\ net' = net \cup {[to |-> r, snapshot |-> e] : r \in up \ {s}}
  BY <1>0 DEF Broadcast, hist
<1>2. \A m \in net' \ net : m.snapshot = e
  BY <1>1
<1>3. IsDb(copy[s][t]) /\ IsDb(db[s])
  BY DEF IInv, Typed
<1>4. e.records = db[s].records /\ e.total_balance = db[s].total_balance
  <2>1. copy[s][t].total_balance = db[s].total_balance
    BY <1>1 DEF Sound
  <2> QED
    BY <1>0, <1>3, <2>1 DEF IsDb
<1>5. ~ Changing(s)
  BY <1>1 DEF Sound, Copying
<1>6. Owed(s) = 0 /\ db[s].total_balance \in Int
  BY <1>3, <1>5, NobodyOwes DEF IsDb
<1>7. Money(e) = Money(db[s])
  BY <1>4 DEF Money, Balances
<1>8. SoundCopy(e)
  BY <1>4, <1>6, <1>7 DEF Sound, SoundCopy, Near, Records
<1>9. SoundCopy(e)'
  <2>1. Money(e)' = Money(e)
    BY DEF Money, Balances
  <2> QED
    BY <1>1, <1>8, <2>1 DEF SoundCopy, Near
<1> QED
  BY <1>2, <1>9

\* A server ends: what is left of it is sound, and the others are as they were.
LEMMA StopSound ==
  ASSUME IInv, IInv', NEW s \in Servers, Stop(s), cut => cut',
         \A r \in Servers : Sound(r), \A m \in net : SoundCopy(m.snapshot)
  PROVE  (\A r \in Servers : Sound(r)') /\ \A m \in net' : SoundCopy(m.snapshot)'
<1>0. Places /\ Typed /\ Typed'
  BY DEF IInv
<1>1. /\ db'[s] = Empty /\ \A t \in Threads : pc'[s][t] = "idle"
      /\ \A r \in Servers \ {s} :
           db'[r] = db[r] /\ pc'[r] = pc[r] /\ job'[r] = job[r] /\ copy'[r] = copy[r]
  BY <1>0, StopFresh
<1>2. ~ Changing(s)' /\ ~ Copying(s)'
  BY <1>1 DEF Changing, Copying
<1>3. Sound(s)'
  BY <1>0, <1>1, <1>2, SoundEmpty, SoundLoaded
<1>4. \A r \in Servers \ {s} : Sound(r)'
  BY <1>1, SoundElsewhere
<1>5. \A m \in net' : SoundCopy(m.snapshot)'
  <2>1. net' \subseteq net
    BY DEF Stop
  <2> QED
    BY <2>1, SoundUnderway
<1> QED
  BY <1>3, <1>4, <1>5

\* A server that is not at work loads a database whose money adds up.
LEMMA LoadSound ==
  ASSUME IInv, IInv', NEW m \in net, NEW d, Load(m, d), cut => cut', SoundCopy(d)',
         ~ Changing(m.to), ~ Copying(m.to),
         \A r \in Servers : Sound(r), \A n \in net : SoundCopy(n.snapshot)
  PROVE  (\A r \in Servers : Sound(r)') /\ \A n \in net' : SoundCopy(n.snapshot)'
<1>0. Typed /\ Typed' /\ Places
  BY DEF IInv
<1>1. m.to \in Servers
  BY <1>0 DEF Typed, Places
<1>2. /\ pc' = pc /\ job' = job /\ copy' = copy /\ net' \subseteq net
      /\ db'[m.to] = d /\ \A r \in Servers \ {m.to} : db'[r] = db[r]
  BY <1>0, <1>1 DEF Load, threads, Typed
<1>3. ~ Changing(m.to)' /\ ~ Copying(m.to)'
  BY <1>2 DEF Changing, Copying
<1>4. Sound(m.to)'
  <2>1. PICK s \in Servers : s = m.to
    BY <1>1
  <2>2. db'[s] = d /\ ~ Changing(s)' /\ ~ Copying(s)'
    BY <1>2, <1>3, <2>1
  <2>3. Sound(s)'
    BY <1>0, <2>2, SoundLoaded
  <2> QED
    BY <2>1, <2>3
<1>5. \A r \in Servers \ {m.to} : Sound(r)'
  BY <1>2, SoundElsewhere
<1> QED
  BY <1>2, <1>4, <1>5, SoundUnderway

LEMMA AddsUpStep == IInv /\ IInv' /\ AddsUp /\ [Next]_vars => AddsUp'
<1> SUFFICES ASSUME IInv, IInv', AddsUp, [Next]_vars, ~ raced'
             PROVE  (\A s \in Servers : Sound(s)') /\ \A m \in net' : SoundCopy(m.snapshot)'
  BY DEF AddsUp
<1> DEFINE All == (\A s \in Servers : Sound(s)') /\ \A m \in net' : SoundCopy(m.snapshot)'
<1>0. Typed /\ Places /\ up' \subseteq Servers
  BY DEF IInv, Places
<1>1. ~ raced
  BY DEF Next, vars
<1>2. (\A s \in Servers : Sound(s)) /\ \A m \in net : SoundCopy(m.snapshot)
  BY <1>1 DEF AddsUp
<1>3. ASSUME db' = db, pc' = pc, job' = job, copy' = copy, net' \subseteq net, cut' = cut PROVE All
  BY <1>2, <1>3, SoundElsewhere, SoundUnderway
<1>4. ASSUME UNCHANGED vars PROVE All
  BY <1>3, <1>4 DEF vars, threads, hist
<1>5. ASSUME NEW s \in Servers, Boot(s) PROVE All
  BY <1>3, <1>5 DEF Boot, threads
<1>6. ASSUME NEW s \in Servers, Elect(s) PROVE All
  BY <1>3, <1>6 DEF Elect, threads, hist
<1>7. ASSUME NEW s \in Servers, Crash(s) PROVE All
  <2>1. Stop(s) /\ cut' = cut
    BY <1>7 DEF Crash
  <2> QED
    BY <1>2, <2>1, StopSound
<1>8. ASSUME NEW s \in Servers, NEW t \in Threads, ThreadStep(s, t),
             raced' = (raced \/ \E r \in up' : Changing(r)' /\ Copying(r)')
      PROVE  All
  <2>1. s \in up /\ up' = up /\ s \in up'
    BY <1>0, <1>8, OnlyRunningStep, ThreadMoves DEF IInv
  <2>2. ~ (Changing(s)' /\ Copying(s)')
    BY <1>8, <2>1
  <2>3. Sound(s)'
    BY <1>2, <1>8, <2>2, ThreadSound
  <2>4. cut' = cut
    BY <1>8 DEF ThreadStep, Register, Process, Remove, Debit, Refuse, Request, Complete,
                AnswerElection, CopyMetadata, Broadcast, Answer, hist
  <2>5. \A r \in Servers \ {s} : db'[r] = db[r] /\ pc'[r] = pc[r]
    BY <1>0, <1>8, <2>1, ThreadWrites
  <2>6. \A r \in Servers \ {s} : job'[r] = job[r] /\ copy'[r] = copy[r]
    BY <1>0, <1>8 DEF ThreadStep, Register, Process, Remove, Debit, Refuse, Request, Begin, Complete,
                AnswerElection, CopyMetadata, Broadcast, Finish, Answer, Typed
  <2>7. \A r \in Servers \ {s} : Sound(r)'
    BY <1>2, <2>4, <2>5, <2>6, SoundElsewhere
  <2>8. \A m \in net' : SoundCopy(m.snapshot)'
    <3>1. CASE Broadcast(s, t)
      BY <1>2, <2>4, <3>1, BroadcastSound, SoundUnderway
    <3>2. CASE ~ Broadcast(s, t)
      <4>1. net' = net
        BY <1>8, <3>2 DEF ThreadStep, Register, Process, Remove, Debit, Refuse, Request, Complete,
                    AnswerElection, CopyMetadata, Answer
      <4> QED
        BY <1>2, <2>4, <4>1, SoundUnderway
    <3> QED
      BY <3>1, <3>2
  <2> QED
    BY <2>3, <2>7, <2>8
<1>9. ASSUME NEW m \in net, Lose(m) PROVE All
  BY <1>3, <1>9 DEF Lose, threads
<1>10. ASSUME IgnoreElection PROVE All
  BY <1>3, <1>10 DEF IgnoreElection, threads, hist
<1>11. ASSUME NEW m \in net, Receive(m), ~ Changing(m.to), ~ Copying(m.to) PROVE All
  <2>1. m.to \in Servers /\ IsDb(m.snapshot) /\ SoundCopy(m.snapshot)
    BY <1>0, <1>2 DEF Typed, Places
  <2>2. cut => cut'
    BY <1>11 DEF Receive
  <2>3. SoundCopy(m.snapshot)'
    BY <2>1, <2>2, SoundUnderway
  <2>4. CASE Stop(m.to)
    BY <1>2, <2>1, <2>2, <2>4, StopSound
  <2>5. CASE Load(m, m.snapshot)
    BY <1>2, <1>11, <2>2, <2>3, <2>5, LoadSound
  <2>6. ASSUME cut', NEW K \in SUBSET DOMAIN m.snapshot.records, NEW c \in K,
               NEW n \in 0 .. m.snapshot.records[c].last_request,
               Load(m, [m.snapshot EXCEPT !.records = Truncated(m.snapshot.records, K, c, n)])
        PROVE  All
    <3> DEFINE e == [m.snapshot EXCEPT !.records = Truncated(m.snapshot.records, K, c, n)]
    <3>1. SoundCopy(e)'
      BY <2>1, <2>6, TruncatedSound
    <3>2. Load(m, e)
      BY <2>6
    <3> HIDE DEF e
    <3> QED
      BY <1>2, <1>11, <2>2, <3>1, <3>2, LoadSound
  <2> QED
    BY <1>11, <2>4, <2>5, <2>6 DEF Receive
<1> HIDE DEF All
<1>12. ASSUME Step, raced' = (raced \/ \E s \in up' : Changing(s)' /\ Copying(s)') PROVE All
  BY <1>5, <1>6, <1>7, <1>8, <1>9, <1>10, <1>12 DEF Step
<1>13. ASSUME NEW m \in net, Receive(m), raced' = (raced \/ Changing(m.to) \/ Copying(m.to))
       PROVE  All
  BY <1>11, <1>13
<1>14. All
  BY <1>4, <1>12, <1>13 DEF Next
<1> QED
  BY <1>14 DEF All

\* In no server is there more money in the accounts than its total says, and as
\* long as no snapshot was cut there is as much, unless a copy or a load met a
\* half-made change.
THEOREM MoneyIsConserved == Spec => []MoneyAddsUp
<1>1. IInv /\ AddsUp => MoneyAddsUp
  <2> SUFFICES ASSUME IInv, AddsUp, ~ raced, NEW s \in up, ~ Changing(s)
               PROVE  /\ Money(db[s]) <= db[s].total_balance
                      /\ ~ cut => Money(db[s]) = db[s].total_balance
    BY DEF MoneyAddsUp
  <2>1. s \in Servers /\ Sound(s) /\ db[s].total_balance \in Int
    BY DEF IInv, Places, AddsUp, Typed, IsDb
  <2>2. Owed(s) = 0
    BY <2>1, NobodyOwes
  <2> QED
    BY <2>1, <2>2 DEF Sound, Near
<1> QED
  BY <1>1, Always, AddsUpInit, AddsUpStep, PTL DEF Spec

=============================================================================
