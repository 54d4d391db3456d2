----------------------------- MODULE Replication -----------------------------
(***************************************************************************)
(* How the servers of a Brix network share one database                    *)
(* (DB_Synchronizer).  A thread that has changed the database copies it,   *)
(* under no lock, and broadcasts the copy; every other server replaces its *)
(* own database by whatever copy arrives, from any server.  Copies are not *)
(* acknowledged, have no version, and may get lost or overtake each other. *)
(* A coordinator also broadcasts its database when it receives an election *)
(* message, so that a server that has just started gets one.               *)
(*                                                                         *)
(* A request that changes the database does so in two steps, because a     *)
(* copy can be made in the middle of it; the steps and locks it consists   *)
(* of are those of DbManager.  Election tells who is coordinator; here it  *)
(* is one server at a time.  Clients may send their requests to any        *)
(* server: none looks at its role when it processes a REQ or KIL packet.   *)
(***************************************************************************)
EXTENDS Integers, FiniteSets, Functions

CONSTANTS
  Servers,            \* ids of the servers
  NoServer,           \* there is no coordinator
  Clients,            \* client addresses
  NoClient,
  PacketThreads,      \* threads of a server that process REQ and KIL packets
  Amounts,            \* amounts a transfer can carry
  STARTING_BALANCE,
  INT_MAX,            \* greatest int; unsigned ints have twice the range
  BASE,               \* numbers are printed in this base, which is ten
  Capacity,           \* digits of balances that fit in MAXLINE bytes
  MaxUpdates,         \* bound on the requests to the servers
  MaxFaults           \* bound on ends of servers, losses and unheard elections

ASSUME ReplicationAssumption ==
  /\ Servers \subseteq Nat /\ IsFiniteSet(Servers) /\ NoServer \notin Servers
  /\ NoClient \notin Clients
  /\ Amounts \subseteq Nat \ {0}
  /\ STARTING_BALANCE \in Nat /\ INT_MAX \in Nat /\ BASE \in Nat \ {0, 1} /\ Capacity \in Nat
  /\ MaxUpdates \in Nat /\ MaxFaults \in Nat

VARIABLES
  up,                 \* servers that run
  coordinator,
  asked,              \* TRUE when an election message to it is under way
  db,                 \* database of each server
  pc,                 \* where each thread of each server is
  job,                \* what it is doing
  copy,               \* db_snapshot it is making
  net,                \* snapshots under way
  answered,           \* history: transfers answered with SUCCESS
  behind,             \* history: servers that missed a snapshot, and loaded none since
  raced,              \* history: a database was copied or loaded while it was changed
  disturbed,          \* history: two requests overlapped, or one met a server behind
  cut,                \* history: a snapshot did not fit in the receiver's buffer
  updates,            \* requests so far
  faults              \* faults so far

Threads == PacketThreads \cup {"greeter", "election"}

servers == <<up, coordinator, asked>>
threads == <<pc, job, copy>>
hist    == <<answered, behind, cut>>
vars    == <<servers, db, threads, net, hist, raced, disturbed, updates, faults>>

\* db_metadata and the records, a function of the registered clients.
Database(num, transferred, total, records) ==
  [num_transactions |-> num, total_transferred |-> transferred, total_balance |-> total,
   records |-> records]
Empty == Database(0, 0, 0, [c \in {} |-> 0])

Record(b, n) == [balance |-> b, last_request |-> n]
Job(op, c, r, a) == [op |-> op, client |-> c, receiver |-> r, amount |-> a]
NoJob == Job("NONE", NoClient, NoClient, 0)

\* What a server starts with, and is left with when it has ended.
Fresh(s) ==
  /\ db' = [db EXCEPT ![s] = Empty]
  /\ pc' = [pc EXCEPT ![s] = [t \in Threads |-> "idle"]]
  /\ job' = [job EXCEPT ![s] = [t \in Threads |-> NoJob]]
  /\ copy' = [copy EXCEPT ![s] = [t \in Threads |-> Empty]]

Init ==
  /\ up = {} /\ coordinator = NoServer /\ asked = FALSE
  /\ db = [s \in Servers |-> Empty]
  /\ pc = [s \in Servers |-> [t \in Threads |-> "idle"]]
  /\ job = [s \in Servers |-> [t \in Threads |-> NoJob]]
  /\ copy = [s \in Servers |-> [t \in Threads |-> Empty]]
  /\ net = {}
  /\ answered = 0 /\ behind = {} /\ cut = FALSE
  /\ raced = FALSE /\ disturbed = FALSE
  /\ updates = 0 /\ faults = 0

-----------------------------------------------------------------------------
(* Servers start, are elected, fail and lose messages.                     *)

\* A server that starts broadcasts an election message.
Boot(s) ==
  /\ s \notin up
  /\ up' = up \cup {s}
  /\ asked' = (coordinator # NoServer)
  /\ behind' = IF net # {} \/ \E r \in up : r \in behind \/ db[r] # Empty
               THEN behind \cup {s} ELSE behind \ {s}
  /\ answered' = IF up = {} THEN 0 ELSE answered
  /\ UNCHANGED <<coordinator, db, threads, net, cut, disturbed, updates, faults>>

\* The highest server wins, after a time in which every message sent before
\* has been received and the coordinator has answered the election message.
Elect(s) ==
  /\ s \in up /\ \A r \in up : r <= s
  /\ coordinator # s
  /\ net = {} /\ ~ asked
  /\ \A r \in up : pc[r]["election"] = "idle"
  /\ coordinator' = s
  /\ disturbed' = (disturbed \/ s \in behind)
  /\ UNCHANGED <<up, asked, db, threads, net, hist, updates, faults>>

Fault == faults < MaxFaults /\ faults' = faults + 1

\* Nothing is kept on disk.
Stop(s) ==
  /\ Fault
  /\ up' = up \ {s}
  /\ coordinator' = IF coordinator = s THEN NoServer ELSE coordinator
  /\ asked' = (asked /\ coordinator # s)
  /\ Fresh(s)
  /\ net' = {m \in net : m.to # s}
  /\ UNCHANGED <<answered, behind, disturbed, updates>>

Crash(s) == s \in up /\ Stop(s) /\ UNCHANGED cut

Lose(m) ==
  /\ Fault
  /\ net' = net \ {m}
  /\ behind' = behind \cup {m.to}
  /\ UNCHANGED <<servers, db, threads, answered, cut, disturbed, updates>>

\* A coordinator that takes part in an election itself does not broadcast.
IgnoreElection ==
  /\ asked /\ Fault
  /\ asked' = FALSE
  /\ UNCHANGED <<up, coordinator, db, threads, net, hist, disturbed, updates>>

-----------------------------------------------------------------------------
(* Requests: what they change.                                             *)

Goto(s, t, label) == pc' = [pc EXCEPT ![s][t] = label]
Records(s) == DOMAIN db[s].records
SetRecords(s, f) == db' = [db EXCEPT ![s].records = f]

Calm == net = {} /\ \A s \in up, t \in Threads : pc[s][t] = "idle"

Begin(s, t, j) ==
  /\ s \in up /\ pc[s][t] = "idle"
  /\ job' = [job EXCEPT ![s][t] = j]
  /\ disturbed' = (disturbed \/ ~ Calm \/ s \in behind)

Request(s, t, j) ==
  /\ updates < MaxUpdates
  /\ updates' = updates + 1
  /\ Begin(s, t, j)
  /\ UNCHANGED <<servers, copy, net, hist, faults>>

\* A transfer holds the mutexes of its clients.
Locked(s, c) ==
  \E t \in Threads : pc[s][t] = "changing" /\ c \in {job[s][t].client, job[s][t].receiver}

\* For a client that is registered the database is broadcast as well.
Register(s, t, c) ==
  /\ t = "greeter" /\ coordinator = s
  /\ ~ Locked(s, c)
  /\ Request(s, t, Job("DIS", c, NoClient, 0))
  /\ IF c \in Records(s)
       THEN Goto(s, t, "metadata") /\ UNCHANGED db
       ELSE /\ SetRecords(s, [x \in Records(s) \cup {c} |->
                 IF x = c THEN Record(STARTING_BALANCE, 0) ELSE db[s].records[x]])
            /\ Goto(s, t, "changing")

Transferable(s, c, r) ==
  /\ {c, r} \subseteq Records(s) /\ c # r
  /\ ~ Locked(s, c) /\ ~ Locked(s, r)

\* Mutant: the balance is not looked at.
Debit_NoBalanceCheck(s, t, c, r, a) ==
  /\ Transferable(s, c, r)
  /\ Request(s, t, Job("REQ", c, r, a))
  /\ SetRecords(s, [db[s].records EXCEPT ![c].balance = @ - a, ![c].last_request = @ + 1])
  /\ Goto(s, t, "changing")

Debit(s, t, c, r, a) ==
  /\ Transferable(s, c, r) /\ db[s].records[c].balance >= a
  /\ Request(s, t, Job("REQ", c, r, a))
  /\ SetRecords(s, [db[s].records EXCEPT ![c].balance = @ - a, ![c].last_request = @ + 1])
  /\ Goto(s, t, "changing")

\* A transfer that is refused is counted, and nobody else is told.
Refuse(s, t, c, r, a) ==
  /\ Transferable(s, c, r) /\ db[s].records[c].balance < a
  /\ Request(s, t, NoJob)
  /\ SetRecords(s, [db[s].records EXCEPT ![c].last_request = @ + 1])
  /\ UNCHANGED pc

Remove(s, t, c) ==
  /\ c \in Records(s) /\ ~ Locked(s, c)
  /\ Request(s, t, Job("KIL", c, NoClient, db[s].records[c].balance))
  /\ SetRecords(s, [x \in Records(s) \ {c} |-> db[s].records[x]])
  /\ Goto(s, t, "changing")

\* A transfer is credited through a pointer to the record, whatever has been
\* loaded since; then the metadata are changed.
Complete(s, t) ==
  LET j == job[s][t]
      d == db[s]
  IN /\ pc[s][t] = "changing"
     /\ db' = [db EXCEPT ![s] =
          CASE j.op = "DIS" -> [d EXCEPT !.total_balance = @ + STARTING_BALANCE]
            [] j.op = "KIL" -> [d EXCEPT !.total_balance = @ - j.amount]
            [] j.op = "REQ" ->
                 Database(d.num_transactions + 1,
                          (d.total_transferred + j.amount) % (2 * (INT_MAX + 1)),
                          d.total_balance,
                          [c \in DOMAIN d.records |->
                             [d.records[c] EXCEPT !.balance = @ + IF c = j.receiver THEN j.amount ELSE 0]])]
     /\ Goto(s, t, "metadata")
     /\ UNCHANGED <<servers, job, copy, net, hist, disturbed, updates, faults>>

-----------------------------------------------------------------------------
(* Snapshots: get_db_snapshot, which copies the metadata first and then the *)
(* records, broadcast_update and listen_for_updates.                       *)

\* Mutant: the election message is not answered with the database.
AnswerElection_Silent(s, t) ==
  /\ t = "election" /\ asked /\ coordinator = s
  /\ asked' = FALSE
  /\ Begin(s, t, NoJob)
  /\ UNCHANGED <<up, coordinator, db, pc, copy, net, hist, updates, faults>>

\* "Broadcast database, for safety, if coordinator".
AnswerElection(s, t) ==
  /\ t = "election" /\ asked /\ coordinator = s
  /\ asked' = FALSE
  /\ Begin(s, t, Job("ELE", NoClient, NoClient, 0))
  /\ Goto(s, t, "metadata")
  /\ UNCHANGED <<up, coordinator, db, copy, net, hist, updates, faults>>

Finish(s, t) ==
  /\ Goto(s, t, "idle")
  /\ job' = [job EXCEPT ![s][t] = NoJob]

CopyMetadata(s, t) ==
  /\ pc[s][t] = "metadata"
  /\ copy' = [copy EXCEPT ![s][t] = [db[s] EXCEPT !.records = Empty.records]]
  /\ Goto(s, t, "records")
  /\ UNCHANGED <<servers, db, job, net, hist, disturbed, updates, faults>>

\* Mutant: a transfer is not broadcast.
Broadcast_NotTransfers(s, t) ==
  /\ pc[s][t] = "records"
  /\ net' = IF job[s][t].op = "REQ" THEN net ELSE net \cup
       {[to |-> r, snapshot |-> [copy[s][t] EXCEPT !.records = db[s].records]] : r \in up \ {s}}
  /\ copy' = [copy EXCEPT ![s][t] = Empty]
  /\ IF job[s][t].op = "REQ" THEN Goto(s, t, "answer") /\ UNCHANGED job ELSE Finish(s, t)
  /\ UNCHANGED <<servers, db, hist, disturbed, updates, faults>>

\* Sent to every server that runs; a server ignores its own.  Registrations
\* and removals have been answered by now, a transfer is answered after it.
Broadcast(s, t) ==
  /\ pc[s][t] = "records"
  /\ net' = net \cup {[to |-> r, snapshot |-> [copy[s][t] EXCEPT !.records = db[s].records]] :
                        r \in up \ {s}}
  /\ copy' = [copy EXCEPT ![s][t] = Empty]
  /\ IF job[s][t].op = "REQ" THEN Goto(s, t, "answer") /\ UNCHANGED job ELSE Finish(s, t)
  /\ UNCHANGED <<servers, db, hist, disturbed, updates, faults>>

Answer(s, t) ==
  /\ pc[s][t] = "answer"
  /\ answered' = answered + 1
  /\ Finish(s, t)
  /\ UNCHANGED <<servers, db, copy, net, behind, cut, disturbed, updates, faults>>

Digits(n) == CHOOSE k \in 1 .. n + 1 :
  /\ n < BASE ^ k
  /\ \A j \in 1 .. k - 1 : n >= BASE ^ j

\* The size of a snapshot's text, of which what does not vary is left out.
Size(f) == FoldFunction(LAMBDA r, n : Digits(r.balance) + n, 0, f)

\* What from_string makes of a text that was cut: records that fit, whichever
\* they are, the last one perhaps without the end of its last number.
Truncated(f, K, c, n) == [Restrict(f, K) EXCEPT ![c].last_request = n]

\* Mutant: the totals are not loaded.
Load_RecordsOnly(m, d) ==
  /\ db' = [db EXCEPT ![m.to].records = d.records]
  /\ net' = net \ {m}
  /\ behind' = behind \ {m.to}
  /\ UNCHANGED <<servers, threads, answered, disturbed, updates, faults>>

\* Mutant: a snapshot with no more transactions is taken for an old one.
Load_OnlyNewer(m, d) ==
  /\ db' = [db EXCEPT ![m.to] = IF d.num_transactions > @.num_transactions THEN d ELSE @]
  /\ net' = net \ {m}
  /\ behind' = behind \ {m.to}
  /\ UNCHANGED <<servers, threads, answered, disturbed, updates, faults>>

\* load_snapshot.
Load(m, d) ==
  /\ db' = [db EXCEPT ![m.to] = d]
  /\ net' = net \ {m}
  /\ behind' = behind \ {m.to}
  /\ UNCHANGED <<servers, threads, answered, disturbed, updates, faults>>

\* stoi throws for an unsigned int that is no int; a number that was cut off
\* altogether is read from beyond the end of the tokens.
Receive(m) ==
  LET d == m.snapshot
      f == d.records
      Long == Size(f) > Capacity
  IN /\ cut' = (cut \/ Long)
     /\ \/ d.total_transferred > INT_MAX /\ Stop(m.to)
        \/ d.total_transferred <= INT_MAX /\ ~ Long /\ Load(m, d)
        \/ Long /\ Stop(m.to)
        \/ /\ d.total_transferred <= INT_MAX /\ Long
           /\ \E K \in SUBSET DOMAIN f :
                /\ Size(Restrict(f, K)) <= Capacity
                /\ \E c \in K : \E n \in 0 .. f[c].last_request :
                     Load(m, [d EXCEPT !.records = Truncated(f, K, c, n)])

-----------------------------------------------------------------------------
Changing(s) == \E t \in Threads : pc[s][t] = "changing"
Copying(s)  == \E t \in Threads : pc[s][t] = "records"

Process(s, t) ==
  \E c \in Clients :
    \/ Remove(s, t, c)
    \/ \E r \in Clients, a \in Amounts : Debit(s, t, c, r, a) \/ Refuse(s, t, c, r, a)

ThreadStep(s, t) ==
  \/ \E c \in Clients : Register(s, t, c)
  \/ t \in PacketThreads /\ Process(s, t)
  \/ Complete(s, t)
  \/ AnswerElection(s, t) \/ CopyMetadata(s, t) \/ Broadcast(s, t)
  \/ Answer(s, t)

Step ==
  \/ \E s \in Servers : Boot(s) \/ Elect(s) \/ Crash(s) \/ \E t \in Threads : ThreadStep(s, t)
  \/ \E m \in net : Lose(m)
  \/ IgnoreElection

Next ==
  \/ /\ Step
     /\ raced' = (raced \/ \E s \in up' : Changing(s)' /\ Copying(s)')
  \/ \E m \in net :
       /\ Receive(m)
       /\ raced' = (raced \/ Changing(m.to) \/ Copying(m.to))

Spec == Init /\ [][Next]_vars

-----------------------------------------------------------------------------
(* Properties.                                                             *)

\* Every variable has its type.
TypeOK ==
  /\ up \cup behind \subseteq Servers
  /\ coordinator \in up \cup {NoServer}
  /\ {asked, raced, disturbed, cut} \subseteq BOOLEAN
  /\ {answered, updates, faults} \subseteq Nat
  /\ \A s \in Servers :
       /\ db[s].num_transactions \in Nat
       /\ db[s].total_transferred \in 0 .. 2 * INT_MAX + 1
       /\ db[s].total_balance \in Int
       /\ Records(s) \subseteq Clients
       /\ \A c \in Records(s) : db[s].records[c] \in [balance : Nat, last_request : Nat]
       /\ \A t \in Threads :
            /\ pc[s][t] \in {"idle", "changing", "metadata", "records", "answer"}
            /\ job[s][t].op \in {"NONE", "DIS", "REQ", "KIL", "ELE"}
  /\ \A m \in net : m.to \in up

\* What is in the accounts of a database.
Balances(d) == [c \in DOMAIN d.records |-> d.records[c].balance]
Money(d)    == SumFunctionOnSet(Balances(d), DOMAIN d.records)

\* However snapshots are lost, repeated, reordered, cut or sent by servers that
\* do not know of each other's requests, no server has more money in its
\* accounts than its total says, and as long as none was cut it has as much;
\* unless a copy or a load met a half-made change.
MoneyAddsUp ==
  ~ raced =>
    \A s \in up : ~ Changing(s) =>
      /\ Money(db[s]) <= db[s].total_balance
      /\ ~ cut => Money(db[s]) = db[s].total_balance

\* A transfer that was answered is in the database of every server that missed
\* nothing or has loaded a snapshot since: it outlives its coordinator, when
\* requests do not overlap.
AnsweredSurvives ==
  ~ disturbed /\ ~ cut =>
    \A s \in up \ behind :
      (\A m \in net : m.to # s) => answered <= db[s].num_transactions

\* A database without the numbers of its clients' requests.
Public(d) == [d EXCEPT !.records = [c \in DOMAIN @ |-> @[c].balance]]

\* Servers that missed nothing agree once nothing is under way: on every
\* account and total; a request that was refused is known to one of them only.
AgreeWhenCalm ==
  Calm /\ ~ disturbed /\ ~ cut => \A s, r \in up \ behind : Public(db[s]) = Public(db[r])

\* As long as nothing fails, a server that takes over has got the database from
\* the coordinator it replaces, whatever requests are being processed.
TakesOverInformed == faults = 0 => coordinator \notin behind

=============================================================================
