-------------------------- MODULE DispatcherProofs --------------------------
(***************************************************************************)
(* Proofs about Dispatcher: any number of clients that send any requests,  *)
(* over a network that loses anything, to a server with any number of      *)
(* threads.                                                                *)
(***************************************************************************)
EXTENDS Dispatcher, TLAPS

Places == {"discover", "locate", "loop", "drain", "take", "send", "wait", "exited"}

Lines(c) == DOMAIN Program[c]

\* A value for each line of each client.
Table(f) == /\ f = [c \in Clients |-> f[c]]
            /\ \A c \in Clients : f[c] = [i \in Lines(c) |-> f[c][i]]

Entry(f, c, i, v) == [f EXCEPT ![c][i] = v]

LEMMA TableEntry ==
  ASSUME NEW f, Table(f), NEW c \in Clients, NEW i \in Lines(c), NEW v,
         NEW g, g = Entry(f, c, i, v)
  PROVE  /\ Table(g) /\ g[c][i] = v
         /\ \A d \in Clients \ {c} : g[d] = f[d]
         /\ \A j \in Lines(c) \ {i} : g[c][j] = f[c][j]
<1>1. g = [f EXCEPT ![c] = [f[c] EXCEPT ![i] = v]]
  BY DEF Entry
<1>2. f[c] = [j \in Lines(c) |-> f[c][j]] /\ f = [d \in Clients |-> f[d]]
  BY DEF Table
<1>3. g[c] = [j \in Lines(c) |-> IF j = i THEN v ELSE f[c][j]]
  BY <1>1, <1>2
<1>4. \A d \in Clients \ {c} : g[d] = f[d]
  BY <1>1, <1>2
<1>5. g[c] = [j \in Lines(c) |-> g[c][j]]
  BY <1>3
<1>6. g = [d \in Clients |-> g[d]]
  BY <1>1, <1>2
<1> QED
  BY <1>3, <1>4, <1>5, <1>6 DEF Table

Typed ==
  /\ lines \in [Clients -> Nat] /\ request \in [Clients -> Nat]
  /\ request_queue \in [Clients -> Seq(Nat)]
  /\ is_alive \in [Clients -> BOOLEAN]
  /\ at \in [Clients -> Places]
  /\ Table(outcome)

-----------------------------------------------------------------------------
(* The queue of a client, and where its threads are.                       *)

Pending(c, i)   == outcome[c][i] = "pending"
Kind(c, i, type) == i \in Lines(c) /\ Program[c][i].type = type

\* A line that is queued is pending, and later than the one that is dispatched.
Waits(c, i) == /\ request[c] < i /\ i <= lines[c]
               /\ Pending(c, i) /\ Program[c][i].type # "ERROR"

Queued(c) ==
  LET q == request_queue[c] IN
  /\ lines[c] <= Len(Program[c]) /\ request[c] <= lines[c]
  /\ request[c] > 0 => Pending(c, request[c]) /\ Program[c][request[c]].type # "ERROR"
  /\ \A k \in 1 .. Len(q) : Waits(c, q[k])
  /\ \A k, l \in 1 .. Len(q) : k < l => q[k] < q[l]
  /\ \A i \in 1 .. lines[c] : Pending(c, i) => i = request[c] \/ \E k \in 1 .. Len(q) : q[k] = i
  /\ \A i \in Lines(c) : i > lines[c] => Pending(c, i)

\* Requests end in the order in which they were typed in.
InOrder(c) ==
  \A i, j \in Lines(c) :
    i < j /\ ~ Pending(c, j) /\ Program[c][j].type # "ERROR" => ~ Pending(c, i)

Placed(c) ==
  /\ at[c] \in {"send", "wait"} => request[c] > 0
  /\ at[c] \in {"loop", "take", "drain", "exited"} => request[c] = 0
  /\ at[c] \in {"discover", "locate"} => request[c] > 0 \/ lines[c] = 0
  /\ ~ is_alive[c] => lines[c] = Len(Program[c])
  /\ at[c] \in {"drain", "exited"} => ~ is_alive[c]
  /\ at[c] = "exited" => request_queue[c] = <<>>

Clienthood == Typed /\ \A c \in Clients : Queued(c) /\ InOrder(c) /\ Placed(c)

LEMMA ProgramLines ==
  ASSUME NEW c \in Clients
  PROVE  /\ Len(Program[c]) \in Nat /\ Lines(c) = 1 .. Len(Program[c])
         /\ \A i \in Lines(c) : /\ Program[c][i].type \in {"REQ", "KILL", "ERROR"}
                                /\ Program[c][i].transfer_amount \in Nat
                                /\ Program[c][i].type = "KILL" => i = Len(Program[c])
<1> DEFINE Form == [type : {"REQ", "KILL", "ERROR"}, receiver : Clients \cup {NoClient},
                    transfer_amount : Nat]
           p == Program[c]
<1>1. p \in Seq(Form) /\ \A i \in DOMAIN p : p[i].type = "KILL" => i = Len(p)
  BY ProgramAssumption
<1>2. \A x \in Form : x.type \in {"REQ", "KILL", "ERROR"} /\ x.transfer_amount \in Nat
  OBVIOUS
<1> HIDE DEF Form, p
<1>3. Len(p) \in Nat /\ DOMAIN p = 1 .. Len(p) /\ \A i \in 1 .. Len(p) : p[i] \in Form
  BY <1>1
<1> QED
  BY <1>1, <1>2, <1>3 DEF p, Lines

\* A client whose main and dispatcher do nothing stays as it is.
Same(c) == /\ lines'[c] = lines[c] /\ request_queue'[c] = request_queue[c]
           /\ is_alive'[c] = is_alive[c] /\ at'[c] = at[c] /\ request'[c] = request[c]
           /\ outcome'[c] = outcome[c]

LEMMA ClientRests ==
  ASSUME NEW c \in Clients, Queued(c), InOrder(c), Placed(c), Same(c)
  PROVE  Queued(c)' /\ InOrder(c)' /\ Placed(c)'
  BY DEF Same, Queued, InOrder, Placed, Waits, Pending, Lines

\* A step of c's main or dispatcher, or of nobody's.
LEMMA StepOf ==
  ASSUME Clienthood, Typed', NEW c \in Clients, \A d \in Clients \ {c} : Same(d),
         Queued(c)', InOrder(c)', Placed(c)'
  PROVE  Clienthood'
  BY ClientRests DEF Clienthood

LEMMA ClienthoodInit == Init => Clienthood
<1> SUFFICES ASSUME Init PROVE Clienthood
  OBVIOUS
<1>1. Table(outcome)
  BY DEF Init, PerLine, Lines, Table
<1>2. Typed
  BY <1>1 DEF Init, Typed, Places
<1>3. ASSUME NEW c \in Clients PROVE Queued(c) /\ InOrder(c) /\ Placed(c)
  <2>1. /\ lines[c] = 0 /\ request[c] = 0 /\ request_queue[c] = <<>> /\ at[c] = "discover"
        /\ is_alive[c] = TRUE /\ \A i \in Lines(c) : Pending(c, i)
    BY DEF Init, PerLine, Lines, Pending
  <2> QED
    BY <2>1, ProgramLines DEF Queued, InOrder, Placed
<1> QED
  BY <1>2, <1>3 DEF Clienthood

\* The line that is dispatched has its turn.
LEMMA Turn ==
  ASSUME Clienthood, NEW c \in Clients, request[c] > 0
  PROVE  /\ request[c] \in Lines(c) /\ Pending(c, request[c])
         /\ \A j \in 1 .. (request[c] - 1) : ~ Pending(c, j)
<1> DEFINE q == request_queue[c]
<1>1. /\ Queued(c) /\ lines[c] \in Nat /\ request[c] \in Nat /\ q \in Seq(Nat)
  BY DEF Clienthood, Typed
<1>2. request[c] \in Lines(c) /\ Pending(c, request[c])
  BY <1>1, ProgramLines DEF Queued
<1>3. ASSUME NEW j \in 1 .. (request[c] - 1), Pending(c, j) PROVE FALSE
  <2>1. j \in 1 .. lines[c] /\ j # request[c]
    BY <1>1 DEF Queued
  <2>2. PICK k \in 1 .. Len(q) : q[k] = j
    BY <1>1, <1>3, <2>1 DEF Queued
  <2>3. request[c] < j
    BY <1>1, <2>2 DEF Queued, Waits
  <2> QED
    BY <1>1, <2>3
<1> QED
  BY <1>2, <1>3

LEMMA ReadLineKeeps ==
  ASSUME Clienthood, NEW c \in Clients, ReadLine(c) PROVE Clienthood'
<1> DEFINE i == lines[c] + 1
           q == request_queue[c]
<1>1. /\ Typed /\ Queued(c) /\ InOrder(c) /\ Placed(c) /\ lines[c] \in Nat /\ q \in Seq(Nat)
      /\ request[c] \in Nat
  BY DEF Clienthood, Typed
<1>2. /\ Constructed(c) /\ i \in Lines(c) /\ lines' = [lines EXCEPT ![c] = i]
      /\ UNCHANGED <<is_alive, at, request>>
  BY DEF ReadLine, dispatcher, Lines
<1>3. Pending(c, i) /\ lines[c] < Len(Program[c]) /\ i \in Nat /\ Len(Program[c]) \in Nat
  BY <1>1, <1>2, ProgramLines DEF Queued
<1>4. lines' \in [Clients -> Nat] /\ lines'[c] = i /\ \A d \in Clients \ {c} : lines'[d] = lines[d]
  BY <1>1, <1>2 DEF Typed
<1>5. CASE Program[c][i].type = "ERROR"
  <2>1. outcome' = [outcome EXCEPT ![c][i] = "refused"] /\ request_queue' = request_queue
    BY <1>5 DEF ReadLine, queue_request
  <2>2. /\ Table(outcome') /\ \A d \in Clients \ {c} : outcome'[d] = outcome[d]
        /\ \A j \in Lines(c) : outcome'[c][j] = IF j = i THEN "refused" ELSE outcome[c][j]
    <3>1. Table(outcome) /\ i \in Lines(c) /\ outcome' = Entry(outcome, c, i, "refused")
      BY <1>1, <1>2, <2>1 DEF Typed, Entry
    <3> HIDE DEF i
    <3>2. /\ Table(outcome') /\ outcome'[c][i] = "refused"
          /\ \A d \in Clients \ {c} : outcome'[d] = outcome[d]
          /\ \A j \in Lines(c) \ {i} : outcome'[c][j] = outcome[c][j]
      BY <3>1, TableEntry
    <3> QED
      BY <3>2
  <2>3. Typed'
    BY <1>1, <1>2, <1>4, <2>1, <2>2 DEF Typed
  <2>4. Queued(c)'
    BY <1>1, <1>2, <1>3, <1>4, <1>5, <2>1, <2>2, ProgramLines DEF Queued, Waits, Pending
  <2>5. InOrder(c)'
    BY <1>1, <1>2, <1>5, <2>2 DEF InOrder, Pending
  <2>6. Placed(c)'
    BY <1>1, <1>2, <1>3, <1>4, <2>1 DEF Placed, Constructed
  <2> QED
    BY <1>2, <1>4, <2>1, <2>2, <2>3, <2>4, <2>5, <2>6, StepOf DEF Same
<1>6. CASE Program[c][i].type # "ERROR"
  <2>1. request_queue' = [request_queue EXCEPT ![c] = Append(q, i)] /\ outcome' = outcome
    BY <1>6 DEF ReadLine, queue_request
  <2> DEFINE r == request_queue'[c]
  <2>2. r = Append(q, i) /\ \A d \in Clients \ {c} : request_queue'[d] = request_queue[d]
    BY <1>1, <2>1 DEF Typed
  <2>3. /\ r \in Seq(Nat) /\ Len(r) = Len(q) + 1 /\ Len(q) \in Nat
        /\ \A k \in 1 .. Len(q) : r[k] = q[k] /\ q[k] \in Nat
        /\ r[Len(q) + 1] = i
    BY <1>1, <1>3, <2>2
  <2> HIDE DEF r, q
  <2>4. Typed'
    BY <1>1, <1>2, <1>4, <2>1, <2>2, <2>3 DEF Typed, r
  <2>5. \A k \in 1 .. Len(r) : (k \in 1 .. Len(q) /\ r[k] = q[k]) \/ (k = Len(q) + 1 /\ r[k] = i)
    <3> SUFFICES ASSUME NEW k \in 1 .. Len(r), k \notin 1 .. Len(q) PROVE k = Len(q) + 1
      BY <2>3
    <3> QED
      BY <2>3
  <2>6. ASSUME NEW k \in 1 .. Len(r)
        PROVE  /\ request[c] < r[k] /\ r[k] <= i
               /\ Pending(c, r[k]) /\ Program[c][r[k]].type # "ERROR"
    <3>1. request[c] < i
      BY <1>1, <1>3 DEF Queued
    <3>2. CASE k \in 1 .. Len(q)
      <4>1. Waits(c, q[k]) /\ q[k] \in Nat /\ r[k] = q[k]
        BY <1>1, <2>3, <3>2 DEF Queued, q
      <4> QED
        BY <1>1, <4>1 DEF Waits
    <3> QED
      BY <1>3, <1>6, <2>5, <3>1, <3>2
  <2>7. \A k, l \in 1 .. Len(r) : k < l => r[k] < r[l]
    <3> SUFFICES ASSUME NEW k \in 1 .. Len(r), NEW l \in 1 .. Len(r), k < l PROVE r[k] < r[l]
      OBVIOUS
    <3>1. k \in 1 .. Len(q) /\ r[k] = q[k] /\ q[k] \in Nat
      BY <2>3, <2>5
    <3>2. q[k] <= lines[c]
      BY <1>1, <3>1 DEF Queued, Waits, q
    <3>3. CASE l \in 1 .. Len(q)
      BY <1>1, <2>3, <3>1, <3>3 DEF Queued, q
    <3>4. CASE l = Len(q) + 1
      BY <1>1, <2>3, <3>1, <3>2, <3>4
    <3> QED
      BY <2>5, <3>3, <3>4
  <2>8. \A j \in 1 .. i : Pending(c, j) => j = request[c] \/ \E k \in 1 .. Len(r) : r[k] = j
    <3> SUFFICES ASSUME NEW j \in 1 .. i, Pending(c, j), j # request[c]
                 PROVE  \E k \in 1 .. Len(r) : r[k] = j
      OBVIOUS
    <3>1. CASE j = i
      BY <2>3, <3>1
    <3>2. CASE j # i
      <4>1. j \in 1 .. lines[c]
        BY <1>1, <3>2
      <4>2. PICK k \in 1 .. Len(q) : q[k] = j
        BY <1>1, <4>1 DEF Queued, q
      <4> QED
        BY <2>3, <4>2
    <3> QED
      BY <3>1, <3>2
  <2>9. Queued(c)'
    <3>1. /\ i <= Len(Program[c]) /\ request[c] <= i
          /\ request[c] > 0 => Pending(c, request[c]) /\ Program[c][request[c]].type # "ERROR"
          /\ \A j \in Lines(c) : j > i => Pending(c, j)
      BY <1>1, <1>3, ProgramLines DEF Queued
    <3>2. \A k \in 1 .. lines'[c] : Pending(c, k)' =>
            k = request'[c] \/ \E l \in 1 .. Len(r) : r[l] = k
      BY <1>2, <1>4, <2>1, <2>8 DEF Pending
    <3>3. \A j \in Lines(c) : j > lines'[c] => Pending(c, j)'
      BY <1>4, <2>1, <3>1 DEF Pending
    <3>4. request'[c] > 0 => Pending(c, request[c])' /\ Program[c][request'[c]].type # "ERROR"
      BY <1>2, <2>1, <3>1 DEF Pending
    <3> QED
      BY <1>2, <1>4, <2>1, <2>6, <2>7, <3>1, <3>2, <3>3, <3>4 DEF Queued, Waits, Pending, r, Lines
  <2>10. InOrder(c)'
    BY <1>1, <2>1 DEF InOrder, Pending, Lines
  <2>11. Placed(c)'
    BY <1>1, <1>2, <1>3, <1>4 DEF Placed, Constructed
  <2> QED
    BY <1>2, <1>4, <2>1, <2>2, <2>4, <2>9, <2>10, <2>11, StepOf DEF Same
<1> QED
  BY <1>5, <1>6

LEMMA DeleteKeeps ==
  ASSUME Clienthood, NEW c \in Clients, Delete(c) PROVE Clienthood'
<1>1. /\ Typed /\ Queued(c) /\ InOrder(c) /\ Placed(c) /\ lines[c] = Len(Program[c])
      /\ is_alive' = [is_alive EXCEPT ![c] = FALSE]
      /\ UNCHANGED <<lines, request_queue, at, request, outcome>>
      /\ is_alive[c] = TRUE
  BY DEF Clienthood, Delete, dispatcher, Typed
<1>2. Typed'
  BY <1>1 DEF Typed, Table
<1>3. Queued(c)' /\ InOrder(c)'
  BY <1>1 DEF Queued, InOrder, Waits, Pending, Lines
<1>4. Placed(c)'
  BY <1>1 DEF Placed, Typed
<1> QED
  BY <1>1, <1>2, <1>3, <1>4, StepOf DEF Same, Typed

\* The dispatcher goes from one place to another.
LEMMA MoveKeeps ==
  ASSUME Clienthood, NEW c \in Clients, NEW p \in Places, at' = [at EXCEPT ![c] = p],
         UNCHANGED <<main, request, outcome>>,
         p \in {"send", "wait"} => request[c] > 0,
         p \in {"loop", "take", "drain", "exited"} => request[c] = 0,
         p \in {"discover", "locate"} => request[c] > 0 \/ lines[c] = 0,
         p \in {"drain", "exited"} => ~ is_alive[c],
         p = "exited" => request_queue[c] = <<>>
  PROVE  Clienthood'
<1>1. /\ Typed /\ Queued(c) /\ InOrder(c) /\ Placed(c)
      /\ UNCHANGED <<lines, request_queue, is_alive, request, outcome>>
  BY DEF Clienthood, main
<1>2. Typed'
  BY <1>1 DEF Typed, Table
<1>3. Queued(c)' /\ InOrder(c)'
  BY <1>1 DEF Queued, InOrder, Waits, Pending, Lines
<1>4. at'[c] = p
  BY <1>1 DEF Typed
<1>5. Placed(c)'
  BY <1>1, <1>4 DEF Placed
<1> QED
  BY <1>1, <1>2, <1>3, <1>5, StepOf DEF Same, Typed

\* What a step that ends no request and takes none does to its client.
LEMMA MovesKeep ==
  ASSUME Clienthood, NEW c \in Clients,
         \/ TestAlive(c) \/ TestQueue(c) \/ SendRequest(c) \/ AnswerTimeout(c)
         \/ Discover(c) \/ LocationTimeout(c) \/ DiscoveryFails(c)
         \/ \E m \in net : ReceiveLocation(c, m)
  PROVE  Clienthood'
<1> USE DEF Goto, Places
<1>1. Placed(c) /\ at[c] \in Places /\ request[c] \in Nat /\ is_alive[c] \in BOOLEAN
  BY DEF Clienthood, Typed
<1>2. CASE TestAlive(c)
  BY <1>1, <1>2, MoveKeeps DEF TestAlive, Placed
<1>3. CASE TestQueue(c)
  BY <1>1, <1>3, MoveKeeps DEF TestQueue, Placed
<1>4. CASE SendRequest(c)
  BY <1>1, <1>4, MoveKeeps DEF SendRequest, Placed
<1>5. CASE AnswerTimeout(c)
  BY <1>1, <1>5, MoveKeeps DEF AnswerTimeout, Placed
<1>6. CASE Discover(c)
  BY <1>1, <1>6, MoveKeeps DEF Discover, Placed
<1>7. CASE LocationTimeout(c)
  BY <1>1, <1>7, MoveKeeps DEF LocationTimeout, Placed
<1>8. ASSUME NEW where, Located(c, where), at[c] \in {"discover", "locate"},
             UNCHANGED <<main, request, outcome>>
      PROVE  Clienthood'
  <2>1. CASE request[c] = 0
    BY <1>8, <2>1, MoveKeeps DEF Located
  <2>2. CASE request[c] # 0
    <3>1. request[c] > 0 /\ at' = [at EXCEPT ![c] = "send"]
      BY <1>1, <1>8, <2>2 DEF Located
    <3> QED
      BY <1>8, <3>1, MoveKeeps
  <2> QED
    BY <2>1, <2>2
<1>9. CASE DiscoveryFails(c)
  BY <1>8, <1>9 DEF DiscoveryFails
<1>10. ASSUME NEW m \in net, ReceiveLocation(c, m) PROVE Clienthood'
  BY <1>8, <1>10 DEF ReceiveLocation
<1> QED
  BY <1>2, <1>3, <1>4, <1>5, <1>6, <1>7, <1>9, <1>10

LEMMA TakeKeeps ==
  ASSUME Clienthood, NEW c \in Clients, TakeRequest(c) PROVE Clienthood'
<1> DEFINE q == request_queue[c]
<1>1. /\ Typed /\ Queued(c) /\ InOrder(c) /\ Placed(c) /\ at[c] = "take" /\ request[c] = 0
      /\ q \in Seq(Nat) /\ lines[c] \in Nat /\ UNCHANGED <<lines, is_alive, outcome>>
  BY DEF Clienthood, Typed, Placed, TakeRequest
<1>2. CASE q = <<>>
  BY <1>1, <1>2, MoveKeeps DEF TakeRequest, Goto, main, Places
<1>3. CASE q # <<>>
  <2>1. /\ request_queue' = [request_queue EXCEPT ![c] = Tail(q)]
        /\ request' = [request EXCEPT ![c] = Head(q)] /\ at' = [at EXCEPT ![c] = "send"]
    BY <1>3 DEF TakeRequest, Goto
  <2> DEFINE r == request_queue'[c]
  <2>2. r = Tail(q) /\ request'[c] = q[1] /\ at'[c] = "send"
    BY <1>1, <1>3, <2>1 DEF Typed
  <2>3. /\ Len(q) \in Nat \ {0} /\ Len(r) = Len(q) - 1 /\ r \in Seq(Nat)
        /\ \A k \in 1 .. Len(q) : q[k] \in Nat
        /\ \A k \in 1 .. Len(r) : r[k] = q[k + 1]
    BY <1>1, <1>3, <2>2
  <2> HIDE DEF q, r
  <2>4. Typed'
    BY <1>1, <2>1, <2>2, <2>3 DEF Typed, Places, Table, q, r
  <2>5. /\ \A k \in 1 .. Len(q) : Waits(c, q[k])
        /\ \A k, l \in 1 .. Len(q) : k < l => q[k] < q[l]
        /\ \A i \in 1 .. lines[c] : Pending(c, i) => \E k \in 1 .. Len(q) : q[k] = i
    <3>1. \A i \in 1 .. lines[c] : i # 0
      BY <1>1
    <3> QED
      BY <1>1, <3>1 DEF Queued, q
  <2>6. ASSUME NEW k \in 1 .. Len(r)
        PROVE  /\ q[1] < r[k] /\ r[k] <= lines[c]
               /\ Pending(c, r[k]) /\ Program[c][r[k]].type # "ERROR"
    <3>1. r[k] = q[k + 1] /\ 1 \in 1 .. Len(q) /\ k + 1 \in 1 .. Len(q) /\ 1 < k + 1
      BY <2>3
    <3>2. Waits(c, q[k + 1])
      BY <2>5, <3>1
    <3>3. q[1] < q[k + 1]
      BY <2>5, <3>1
    <3> QED
      BY <3>1, <3>2, <3>3 DEF Waits
  <2>7. ASSUME NEW k \in 1 .. Len(r), NEW l \in 1 .. Len(r), k < l PROVE r[k] < r[l]
    <3>1. k + 1 \in 1 .. Len(q) /\ l + 1 \in 1 .. Len(q) /\ k + 1 < l + 1
      BY <2>3, <2>7
    <3>2. q[k + 1] < q[l + 1]
      BY <2>5, <3>1
    <3> QED
      BY <2>3, <3>2
  <2>8. ASSUME NEW i \in 1 .. lines[c], Pending(c, i)
        PROVE  i = q[1] \/ \E k \in 1 .. Len(r) : r[k] = i
    <3>1. PICK k \in 1 .. Len(q) : q[k] = i
      BY <2>5, <2>8
    <3>2. CASE k = 1
      BY <3>1, <3>2
    <3>3. CASE k # 1
      <4>1. k - 1 \in 1 .. Len(r) /\ (k - 1) + 1 = k
        BY <2>3, <3>3
      <4>2. r[k - 1] = i
        BY <2>3, <3>1, <4>1
      <4> QED
        BY <4>1, <4>2
    <3> QED
      BY <3>2, <3>3
  <2>9. /\ q[1] > 0 /\ q[1] <= lines[c] /\ Pending(c, q[1]) /\ Program[c][q[1]].type # "ERROR"
    BY <1>1, <2>3, <2>5 DEF Waits
  <2>10. Queued(c)'
    BY <1>1, <2>2, <2>6, <2>7, <2>8, <2>9 DEF Queued, Waits, Pending, Lines, r
  <2>11. InOrder(c)'
    BY <1>1 DEF InOrder, Pending, Lines
  <2>12. Placed(c)'
    BY <1>1, <2>2, <2>9 DEF Placed
  <2> QED
    BY <1>1, <2>1, <2>4, <2>10, <2>11, <2>12, StepOf DEF Same, Typed
<1> QED
  BY <1>2, <1>3

LEMMA EndKeeps ==
  ASSUME Clienthood, NEW c \in Clients, NEW how, how # "pending", EndRequest(c, how),
         at[c] \in {"send", "wait"}, UNCHANGED main
  PROVE  Clienthood'
<1> DEFINE i == request[c]
           q == request_queue[c]
<1>1. /\ Typed /\ Queued(c) /\ InOrder(c) /\ Placed(c) /\ i \in Nat /\ i > 0
      /\ q \in Seq(Nat) /\ lines[c] \in Nat /\ UNCHANGED <<lines, request_queue, is_alive>>
      /\ request' = [request EXCEPT ![c] = 0] /\ at' = [at EXCEPT ![c] = "loop"]
  BY DEF Clienthood, Typed, Placed, main, EndRequest, Goto
<1>2. /\ i \in Lines(c) /\ \A j \in 1 .. (i - 1) : ~ Pending(c, j)
  BY <1>1, Turn
<1>3. Lines(c) = 1 .. Len(Program[c]) /\ Len(Program[c]) \in Nat
  BY ProgramLines
<1>4. /\ Table(outcome') /\ \A d \in Clients \ {c} : outcome'[d] = outcome[d]
      /\ \A j \in Lines(c) : outcome'[c][j] = IF j = i THEN how ELSE outcome[c][j]
  <2>1. Table(outcome) /\ i \in Lines(c) /\ outcome' = Entry(outcome, c, i, how)
    BY <1>1, <1>2 DEF Typed, Entry, EndRequest
  <2> HIDE DEF i
  <2>2. /\ Table(outcome') /\ outcome'[c][i] = how
        /\ \A d \in Clients \ {c} : outcome'[d] = outcome[d]
        /\ \A j \in Lines(c) \ {i} : outcome'[c][j] = outcome[c][j]
    BY <2>1, TableEntry
  <2> QED
    BY <2>2
<1>5. request'[c] = 0 /\ at'[c] = "loop"
  BY <1>1 DEF Typed
<1>6. Typed'
  BY <1>1, <1>4 DEF Typed, Places
<1>7. Queued(c)'
  <2>1. ASSUME NEW k \in 1 .. Len(q)
        PROVE  /\ 0 < q[k] /\ q[k] <= lines[c] /\ q[k] # i /\ q[k] \in Lines(c)
               /\ outcome'[c][q[k]] = "pending" /\ Program[c][q[k]].type # "ERROR"
    <3>1. Waits(c, q[k]) /\ q[k] \in Nat /\ lines[c] <= Len(Program[c])
      BY <1>1 DEF Queued
    <3> QED
      BY <1>1, <1>3, <1>4, <3>1 DEF Waits, Pending
  <2>2. ASSUME NEW j \in 1 .. lines[c], outcome'[c][j] = "pending"
        PROVE  \E k \in 1 .. Len(q) : q[k] = j
    <3>1. j \in Lines(c)
      BY <1>1, <1>3 DEF Queued
    <3> QED
      BY <1>1, <1>4, <2>2, <3>1 DEF Queued, Pending
  <2>3. ASSUME NEW j \in Lines(c), j > lines[c] PROVE outcome'[c][j] = "pending"
    BY <1>1, <1>3, <1>4, <2>3 DEF Queued, Pending
  <2>4. /\ lines[c] <= Len(Program[c])
        /\ \A k, l \in 1 .. Len(q) : k < l => q[k] < q[l]
    BY <1>1 DEF Queued
  <2> QED
    BY <1>1, <1>5, <2>1, <2>2, <2>3, <2>4 DEF Queued, Waits, Pending, Lines
<1>8. InOrder(c)'
  <2> SUFFICES ASSUME NEW j \in Lines(c), NEW k \in Lines(c), j < k, outcome'[c][k] # "pending",
                      Program[c][k].type # "ERROR"
               PROVE  outcome'[c][j] # "pending"
    BY DEF InOrder, Pending, Lines
  <2>1. CASE k = i
    BY <1>2, <1>3, <1>4, <2>1 DEF Pending
  <2>2. CASE k # i
    BY <1>1, <1>4, <2>2 DEF InOrder, Pending
  <2> QED
    BY <2>1, <2>2
<1>9. Placed(c)'
  BY <1>1, <1>5 DEF Placed
<1> QED
  BY <1>1, <1>4, <1>6, <1>7, <1>8, <1>9, StepOf DEF Same, Typed

LEMMA ClienthoodStep == Clienthood /\ [Next]_vars => Clienthood'
<1> SUFFICES ASSUME Clienthood, [Next]_vars PROVE Clienthood'
  OBVIOUS
<1>1. ASSUME UNCHANGED <<main, at, request, outcome>> PROVE Clienthood'
  BY <1>1, ClientRests DEF Clienthood, Typed, Table, Same, main
<1>2. ASSUME NEW c \in Clients, GiveUp(c) PROVE Clienthood'
  BY <1>2, EndKeeps DEF GiveUp
<1>3. ASSUME NEW c \in Clients, NEW m \in net, ReceiveAnswer(c, m) PROVE Clienthood'
  <2>1. CASE m.result \in {"SUCCESS", "BALANCE_CHECK", "KILL"}
    BY <1>3, <2>1, EndKeeps DEF ReceiveAnswer
  <2>2. CASE m.result \notin {"SUCCESS", "BALANCE_CHECK", "KILL"}
    BY <1>3, <2>2, MoveKeeps DEF ReceiveAnswer, Goto, Places, Clienthood, Placed
  <2> QED
    BY <2>1, <2>2
<1>4. CASE ServerStep
  BY <1>1, <1>4 DEF ServerStep, dispatcher
<1>5. ASSUME NEW m \in net, Lose(m) PROVE Clienthood'
  BY <1>1, <1>5 DEF Lose, dispatcher
<1>6. CASE UNCHANGED vars
  BY <1>1, <1>6 DEF vars, dispatcher
<1> QED
  BY <1>2, <1>3, <1>4, <1>5, <1>6, ReadLineKeeps, DeleteKeeps, MovesKeep, TakeKeeps
     DEF Next, MainStep, DispatcherStep

LEMMA ClienthoodAlways == Spec => []Clienthood
  BY ClienthoodInit, ClienthoodStep, PTL DEF Spec

\* However main and the dispatcher interleave, and whatever is lost: when the
\* dispatcher thread ends, every line has its outcome.  It reads is_alive before
\* it reads the queue, and main queues nothing any more when is_alive is FALSE.
THEOREM NobodyLeavesEarly == Spec => []NothingLeftBehind
<1>1. ASSUME Clienthood PROVE NothingLeftBehind
  <2> SUFFICES ASSUME NEW c \in Clients, at[c] = "exited"
               PROVE  request_queue[c] = <<>> /\ \A i \in Lines(c) : ~ Pending(c, i)
    BY DEF NothingLeftBehind, Lines, Pending
  <2>1. /\ request_queue[c] = <<>> /\ lines[c] = Len(Program[c]) /\ request[c] = 0
    BY <1>1 DEF Clienthood, Placed
  <2>2. ASSUME NEW i \in Lines(c), Pending(c, i) PROVE FALSE
    <3>1. i \in 1 .. lines[c]
      BY <2>1, ProgramLines
    <3>2. \A k \in 1 .. Len(request_queue[c]) : FALSE
      BY <2>1
    <3> QED
      BY <1>1, <2>1, <2>2, <3>1, <3>2 DEF Clienthood, Queued
  <2> QED
    BY <2>1, <2>2
<1> QED
  BY <1>1, ClienthoodAlways, PTL

-----------------------------------------------------------------------------
(* What is under way for a client: datagrams, the threads that work for it, *)
(* and the greeter's answer.                                               *)

Labels    == {"idle", "check", "transaction", "record", "publish", "reply", "params", "remove",
              "kill_reply"}
ReqLabels == {"check", "transaction", "record", "publish", "reply"}

\* The user's KILL is being worked off, or was.
Begun(c) == \E i \in Lines(c) : Kind(c, i, "KILL") /\ (request[c] = i \/ ~ Pending(c, i))

\* A client that is about to lose its account, or has, and does not look for a
\* server in between, which would open one for it.
Leaving(c) == Begun(c) /\ at[c] \notin {"discover", "locate"}

\* A client that waits for the answer to a transfer or a balance check.
Asking(c) == at[c] = "wait" /\ Kind(c, request[c], "REQ")

Fits(p, c) ==
  /\ p.type = "REQ" /\ p.from = c /\ Asking(c)
  /\ p.id = request[c] /\ p.transfer_amount = Program[c][request[c]].transfer_amount

\* What a client that asks, or leaves, can be told.
Verdict(c, r) ==
  /\ r # "KILL"
  /\ r = "BALANCE_CHECK" => Program[c][request[c]].transfer_amount = 0
  /\ r = "SUCCESS" => Program[c][request[c]].transfer_amount > 0
KillVerdict(c, r) == r = "SENDER_NOT_REGISTERED" \/ (r = "KILL" /\ c \notin accounts)

\* A datagram fits what its client is doing.
Belongs(m) ==
  /\ Client(m) \in Clients
  /\ m.type \in {"REQ", "KIL", "ACK", "DIS", "LOC"}
  /\ m.type \in {"DIS", "LOC"} => at[Client(m)] = "locate"
  /\ m.type = "KIL" => Leaving(m.from)
  /\ m.type = "REQ" => Fits(m, m.from)
  /\ m.type = "ACK" => \/ Leaving(m.to) /\ KillVerdict(m.to, m.result)
                       \/ Asking(m.to) /\ m.id = request[m.to] /\ Verdict(m.to, m.result)

\* So does the work of a thread that is at label k, with packet p and result r.
Job(k, p, r) ==
  /\ k # "idle" => p.from \in Clients
  /\ k \in ReqLabels => Fits(p, p.from)
  /\ k = "transaction" => r = "VALID"
  /\ k \in {"record", "publish", "reply"} => Verdict(p.from, r)
  /\ k \in {"params", "remove", "kill_reply"} => Leaving(p.from)
  /\ k = "kill_reply" => KillVerdict(p.from, r)

\* A KIL thread may work for the sender of another KIL packet.
Worker(t) ==
  /\ Job(pc[t], packet[t], result[t])
  /\ pc[t] = "params" => kill_params.from \in Clients /\ Leaving(kill_params.from)

Greeted == greeting # NoClient => greeting \in Clients /\ at[greeting] = "locate"

Works(t, c) == pc[t] # "idle" /\ packet[t].from = c

\* One thing at a time is under way for c.
Single(c) ==
  /\ \A m \in net : Client(m) = c =>
       /\ greeting # c
       /\ \A t \in Threads : ~ Works(t, c)
       /\ \A n \in net : Client(n) = c => n = m
  /\ \A t \in Threads : Works(t, c) => greeting # c /\ \A u \in Threads : Works(u, c) => u = t

\* The account of a client that was told of its end stays closed.
Gone(c) == \A i \in Lines(c) : Kind(c, i, "KILL") /\ outcome[c][i] = "done" => c \notin accounts

Machine ==
  /\ pc \in [Threads -> Labels]
  /\ packet = [t \in Threads |-> packet[t]] /\ result = [t \in Threads |-> result[t]]

Delivery ==
  /\ Machine /\ Greeted
  /\ \A m \in net : Belongs(m)
  /\ \A t \in Threads : Worker(t)
  /\ \A c \in Clients : Gone(c) /\ (~ Leaving(c) => Single(c))

\* A transfer of line i that was made and not yet answered, or lost.
HasWon(t, c, i) == /\ pc[t] \in {"record", "publish", "reply"} /\ result[t] = "SUCCESS"
                   /\ packet[t].from = c /\ packet[t].id = i
Reports(m, c, i) == m.type = "ACK" /\ m.result = "SUCCESS" /\ m.to = c /\ m.id = i
InHand(c, i) == (\E t \in Threads : HasWon(t, c, i)) \/ (\E m \in net : Reports(m, c, i))

Account ==
  /\ Table(made) /\ Table(lost)
  /\ \A c \in Clients : \A i \in Lines(c) :
       /\ made[c][i] \in Nat /\ lost[c][i] \in Nat
       /\ Pending(c, i) => made[c][i] = lost[c][i] + (IF InHand(c, i) THEN 1 ELSE 0)

\* The server's datagrams are the clients'.
LEMMA Datagrams ==
  /\ \A c : Server!KIL(c) = KIL(c) /\ Server!DIS(c) = DIS(c) /\ Server!LOC(c) = LOC(c)
  /\ \A c, n, r, i : Server!ACK(c, n, r, i) = ACK(c, n, r, i)
  BY DEF Server!KIL, KIL, Server!DIS, DIS, Server!LOC, LOC, Server!ACK, ACK

LEMMA DeliveryInit == Init => Delivery
<1> SUFFICES ASSUME Init PROVE Delivery
  OBVIOUS
<1>1. /\ pc = [t \in Threads |-> "idle"] /\ packet = [t \in Threads |-> KIL(NoClient)]
      /\ result = [t \in Threads |-> "NONE"] /\ greeting = NoClient /\ net = {} /\ accounts = {}
  BY Datagrams DEF Init, Server!Init
<1>2. Machine
  BY <1>1 DEF Machine, Labels
<1>3. \A t \in Threads : Worker(t)
  BY <1>1 DEF Worker, Job, ReqLabels
<1>4. ASSUME NEW c \in Clients PROVE Gone(c) /\ Single(c)
  BY <1>1, <1>4, ProgramAssumption DEF Gone, Single, Works
<1> QED
  BY <1>1, <1>2, <1>3, <1>4 DEF Delivery, Greeted

\* A transfer or a balance check is only dispatched before the KILL.
LEMMA Exclusive ==
  ASSUME Clienthood, NEW c \in Clients, request[c] > 0, Program[c][request[c]].type # "KILL"
  PROVE  ~ Begun(c) /\ Kind(c, request[c], "REQ")
<1> DEFINE j == request[c]
<1>1. /\ j \in Lines(c) /\ Pending(c, j) /\ Program[c][j].type # "ERROR"
  BY Turn DEF Clienthood, Queued
<1>2. Program[c][j].type = "REQ"
  BY <1>1, ProgramLines
<1>3. ASSUME NEW i \in Lines(c), Kind(c, i, "KILL"), j = i \/ ~ Pending(c, i) PROVE FALSE
  <2>1. i = Len(Program[c]) /\ i # j /\ Lines(c) = 1 .. Len(Program[c]) /\ Len(Program[c]) \in Nat
    BY <1>2, <1>3, ProgramLines DEF Kind
  <2>2. j < i
    BY <1>1, <2>1
  <2>3. ~ Pending(c, j)
    BY <1>1, <1>3, <2>2 DEF Clienthood, InOrder, Kind
  <2> QED
    BY <1>1, <2>3
<1> QED
  BY <1>1, <1>2, <1>3 DEF Begun, Kind

LEMMA AskingMeans ==
  ASSUME Clienthood, NEW c \in Clients, Asking(c)
  PROVE  /\ ~ Leaving(c) /\ request[c] > 0 /\ request[c] \in Lines(c)
         /\ Pending(c, request[c]) /\ Program[c][request[c]].transfer_amount \in Nat
<1>1. request[c] > 0
  BY DEF Clienthood, Placed, Asking
<1> QED
  BY <1>1, Turn, Exclusive, ProgramLines DEF Asking, Kind, Leaving

\* Once the KILL is done the client does not look for a server any more.
LEMMA DoneMeans ==
  ASSUME Clienthood, NEW c \in Clients, NEW i \in Lines(c), Kind(c, i, "KILL"), ~ Pending(c, i)
  PROVE  request[c] = 0 /\ at[c] \notin {"discover", "locate", "send", "wait"} /\ Leaving(c)
<1>1. request[c] \in Nat /\ i = Len(Program[c]) /\ Lines(c) = 1 .. Len(Program[c])
      /\ Len(Program[c]) \in Nat /\ lines[c] \in Nat
  BY ProgramLines DEF Clienthood, Typed, Kind
<1>2. ASSUME request[c] > 0 PROVE FALSE
  <2>1. request[c] \in Lines(c) /\ Pending(c, request[c])
    BY <1>2, Turn
  <2>2. Program[c][request[c]].type # "KILL"
    BY <1>1, <2>1, ProgramLines
  <2>3. Begun(c)
    BY DEF Begun
  <2> QED
    BY <1>2, <2>2, <2>3, Exclusive
<1>3. lines[c] > 0
  BY <1>1 DEF Clienthood, Queued
<1>4. request[c] = 0 /\ at[c] \notin {"discover", "locate", "send", "wait"}
  BY <1>1, <1>2, <1>3 DEF Clienthood, Placed
<1> QED
  BY <1>4 DEF Leaving, Begun

\* Nobody works for c, or is about to.
Calm(c) == /\ greeting # c
           /\ \A t \in Threads : ~ Works(t, c) /\ ~ (pc[t] = "params" /\ kill_params.from = c)

LEMMA QuietMeans ==
  ASSUME NEW c \in Clients PROVE Quiet(c) <=> Calm(c) /\ \A m \in net : Client(m) # c
  BY DEF Quiet, Calm, Works

\* What is under way for c tells where c is.
LEMMA Elsewhere ==
  ASSUME Clienthood, Delivery, NEW c \in Clients, ~ Leaving(c), at[c] \notin {"wait", "locate"}
  PROVE  Calm(c) /\ \A m \in net : Client(m) # c
<1>1. ASSUME NEW m \in net, Client(m) = c PROVE FALSE
  BY <1>1 DEF Delivery, Belongs, Client, Fits, Asking
<1>2. greeting # c
  BY ProgramAssumption DEF Delivery, Greeted
<1>3. ASSUME NEW t \in Threads, Works(t, c) PROVE FALSE
  BY <1>3 DEF Delivery, Machine, Labels, Worker, Works, Job, ReqLabels, Fits, Asking
<1>4. ASSUME NEW t \in Threads, pc[t] = "params", kill_params.from = c PROVE FALSE
  BY <1>4 DEF Delivery, Worker
<1> QED
  BY <1>1, <1>2, <1>3, <1>4 DEF Calm

LEMMA Alone ==
  ASSUME Delivery, NEW c \in Clients, ~ Leaving(c), NEW m \in net, Client(m) = c
  PROVE  Calm(c) /\ \A n \in net \ {m} : Client(n) # c
  BY DEF Delivery, Single, Calm, Worker

-----------------------------------------------------------------------------
(* What is under way stays right as long as its client stays where it is.  *)

Still(c) ==
  /\ at'[c] = at[c] /\ request'[c] = request[c]
  /\ (Leaving(c)' <=> Leaving(c)) /\ (Asking(c)' <=> Asking(c))
  /\ Leaving(c) /\ c \in accounts' => c \in accounts

LEMMA SameStill ==
  ASSUME NEW c \in Clients, Same(c), Leaving(c) /\ c \in accounts' => c \in accounts
  PROVE  Still(c)
  BY DEF Same, Still, Leaving, Begun, Asking, Kind, Pending, Lines

LEMMA BelongsStill ==
  ASSUME NEW m, Belongs(m), Still(Client(m))
  PROVE  Belongs(m)'
  BY DEF Belongs, Client, Fits, Verdict, KillVerdict, Still

LEMMA JobStill ==
  ASSUME NEW k, NEW p, NEW r, Job(k, p, r), k # "idle" => Still(p.from)
  PROVE  Job(k, p, r)'
  BY DEF Job, Fits, Verdict, KillVerdict, Still, ReqLabels

LEMMA MachineStays ==
  ASSUME Machine, UNCHANGED <<pc, packet, result>> PROVE Machine'
  BY DEF Machine

LEMMA WorkerStill ==
  ASSUME NEW t \in Threads, Worker(t), UNCHANGED <<pc, packet, result, kill_params>>,
         pc[t] # "idle" => Still(packet[t].from),
         pc[t] = "params" => Still(kill_params.from)
  PROVE  Worker(t)'
<1>1. Job(pc[t], packet[t], result[t])
  BY DEF Worker
<1>0. PICK k, p, r : k = pc[t] /\ p = packet[t] /\ r = result[t]
  OBVIOUS
<1>2. Job(k, p, r)'
  BY <1>0, <1>1, JobStill
<1>3. pc'[t] = pc[t] /\ packet'[t] = packet[t] /\ result'[t] = result[t]
  OBVIOUS
<1> QED
  BY <1>0, <1>2, <1>3 DEF Worker, Still

-----------------------------------------------------------------------------
(* Steps of a client's threads.                                            *)

LEMMA OthersStill ==
  ASSUME Delivery, NEW c \in Clients, UNCHANGED server, \A d \in Clients \ {c} : Same(d)
  PROVE  /\ \A d \in Clients \ {c} : Still(d) /\ Gone(d)' /\ (Leaving(d)' <=> Leaving(d))
         /\ \A m \in net : Client(m) # c => Belongs(m)'
         /\ Machine'
<1>1. accounts' = accounts /\ UNCHANGED <<pc, packet, result>>
  BY DEF server
<1>2. ASSUME NEW d \in Clients \ {c} PROVE Still(d) /\ Gone(d)' /\ (Leaving(d)' <=> Leaving(d))
  <2>1. Still(d)
    BY <1>1, SameStill
  <2>2. Gone(d)'
    BY <1>1 DEF Delivery, Gone, Same, Kind, Lines
  <2> QED
    BY <2>1, <2>2 DEF Still
<1>3. ASSUME NEW m \in net, Client(m) # c PROVE Belongs(m)'
  <2>1. Belongs(m) /\ Client(m) \in Clients \ {c}
    BY <1>3 DEF Delivery, Belongs
  <2> QED
    BY <1>2, <2>1, BelongsStill
<1> QED
  BY <1>1, <1>2, <1>3, MachineStays DEF Delivery

\* Nothing but what c now sends, if anything, is under way for c.
LEMMA FreshStart ==
  ASSUME Delivery, NEW c \in Clients, UNCHANGED server, \A d \in Clients \ {c} : Same(d),
         Calm(c), Gone(c)',
         \A m \in net' : Client(m) # c => m \in net,
         \A m \in net' : Client(m) = c => Belongs(m)' /\ \A n \in net' : Client(n) = c => n = m
  PROVE  Delivery'
<1>1. /\ \A d \in Clients \ {c} : Still(d) /\ Gone(d)' /\ (Leaving(d)' <=> Leaving(d))
      /\ \A m \in net : Client(m) # c => Belongs(m)'
      /\ Machine' /\ UNCHANGED <<greeting, pc, packet, result, kill_params>>
  BY OthersStill DEF server
<1>2. Greeted'
  BY <1>1 DEF Delivery, Greeted, Calm, Still
<1>3. \A m \in net' : Belongs(m)'
  BY <1>1
<1>4. ASSUME NEW t \in Threads PROVE Worker(t)'
  <2>1. /\ Worker(t) /\ (pc[t] # "idle" => packet[t].from \in Clients \ {c})
        /\ (pc[t] = "params" => kill_params.from \in Clients \ {c})
    BY DEF Delivery, Worker, Job, Calm, Works
  <2> QED
    BY <1>1, <2>1, WorkerStill
<1>5. Single(c)'
  BY <1>1 DEF Single, Calm, Works
<1>6. ASSUME NEW d \in Clients \ {c}, ~ Leaving(d)' PROVE Single(d)'
  <2>1. Single(d)
    BY <1>1, <1>6 DEF Delivery
  <2>2. \A m \in net' : Client(m) = d => m \in net
    OBVIOUS
  <2> QED
    BY <1>1, <2>1, <2>2 DEF Single, Works
<1> QED
  BY <1>1, <1>2, <1>3, <1>4, <1>5, <1>6 DEF Delivery

\* A client that leaves and does not begin to look for a server.
LEMMA LeavingStep ==
  ASSUME Clienthood, Delivery, NEW c \in Clients, UNCHANGED server,
         \A d \in Clients \ {c} : Same(d), Leaving(c), Leaving(c)', Gone(c)',
         \A m \in net' : m \in net \/ m = KIL(c)
  PROVE  Delivery'
<1>1. /\ \A d \in Clients \ {c} : Still(d) /\ Gone(d)' /\ (Leaving(d)' <=> Leaving(d))
      /\ \A m \in net : Client(m) # c => Belongs(m)'
      /\ Machine' /\ UNCHANGED <<accounts, greeting, pc, packet, result, kill_params>>
  BY OthersStill DEF server
<1>2. ~ Asking(c) /\ at[c] # "locate"
  BY AskingMeans DEF Leaving
<1>3. Greeted'
  BY <1>1, <1>2 DEF Delivery, Greeted, Still
<1>4. ASSUME NEW m \in net' PROVE Belongs(m)'
  <2>1. CASE Client(m) # c
    BY <1>1, <2>1 DEF KIL, Client
  <2>2. CASE m \in net /\ Client(m) = c
    BY <1>1, <1>2, <2>2 DEF Delivery, Belongs, Client, Fits, KillVerdict
  <2>3. CASE m = KIL(c)
    BY <2>3 DEF KIL, Belongs, Client
  <2> QED
    BY <2>1, <2>2, <2>3
<1>5. ASSUME NEW t \in Threads PROVE Worker(t)'
  <2>1. Worker(t) /\ pc'[t] = pc[t] /\ packet'[t] = packet[t] /\ result'[t] = result[t]
    BY <1>1 DEF Delivery
  <2>0. PICK k, p, r : k = pc[t] /\ p = packet[t] /\ r = result[t]
    OBVIOUS
  <2>2. Job(k, p, r)
    BY <2>0, <2>1 DEF Worker
  <2>3. Job(k, p, r)'
    <3>1. CASE k = "idle" \/ p.from # c
      <4>1. k # "idle" => Still(p.from)
        BY <1>1, <2>2, <3>1 DEF Job
      <4> QED
        BY <2>2, <4>1, JobStill
    <3>2. CASE k # "idle" /\ p.from = c
      <4>1. (k \in {"params", "remove", "kill_reply"} /\ Leaving(p.from)') \/ k \notin Labels
        BY <1>1, <1>2, <2>0, <2>2, <3>2 DEF Job, Fits, ReqLabels, Labels
      <4>2. k \in Labels
        BY <2>0 DEF Delivery, Machine
      <4> QED
        BY <1>1, <2>2, <3>2, <4>1, <4>2 DEF Job, KillVerdict, ReqLabels
    <3> QED
      BY <3>1, <3>2
  <2>4. pc[t] = "params" => kill_params.from \in Clients /\ Leaving(kill_params.from)'
    BY <1>1, <2>1 DEF Worker
  <2> QED
    BY <1>1, <2>0, <2>1, <2>3, <2>4 DEF Worker
<1>6. ASSUME NEW d \in Clients, ~ Leaving(d)' PROVE Single(d)'
  <2>1. Single(d) /\ d # c
    BY <1>1, <1>6 DEF Delivery
  <2>2. \A m \in net' : Client(m) = d => m \in net
    BY <2>1 DEF KIL, Client
  <2> QED
    BY <1>1, <2>1, <2>2 DEF Single, Works
<1> QED
  BY <1>1, <1>3, <1>4, <1>5, <1>6 DEF Delivery

LEMMA EveryoneStill ==
  ASSUME Delivery, UNCHANGED <<server, net>>, \A c \in Clients : Still(c) /\ Gone(c)'
  PROVE  Delivery'
<1>1. UNCHANGED <<accounts, greeting, pc, packet, result, kill_params, net>>
  BY DEF server
<1>2. Machine' /\ Greeted'
  BY <1>1, MachineStays DEF Delivery, Greeted, Still
<1>3. \A m \in net' : Belongs(m)'
  BY <1>1, BelongsStill DEF Delivery, Belongs
<1>4. ASSUME NEW t \in Threads PROVE Worker(t)'
  <2>1. /\ Worker(t) /\ (pc[t] # "idle" => packet[t].from \in Clients)
        /\ (pc[t] = "params" => kill_params.from \in Clients)
    BY DEF Delivery, Worker, Job
  <2> QED
    BY <1>1, <2>1, WorkerStill
<1>5. ASSUME NEW c \in Clients, ~ Leaving(c)' PROVE Single(c)'
  BY <1>1, <1>5 DEF Delivery, Still, Single, Works
<1> QED
  BY <1>2, <1>3, <1>4, <1>5 DEF Delivery

\* A step between two places where c waits for nothing.
LEMMA LoopStep ==
  ASSUME Clienthood, Delivery, NEW c \in Clients, UNCHANGED <<server, net>>,
         \A d \in Clients \ {c} : Same(d),
         at[c] \notin {"discover", "locate", "wait"}, at'[c] \notin {"discover", "locate"},
         Begun(c) => Begun(c)', Gone(c)'
  PROVE  Delivery'
<1>1. CASE Leaving(c)
  BY <1>1, LeavingStep DEF Leaving
<1>2. CASE ~ Leaving(c)
  BY <1>2, Elsewhere, FreshStart
<1> QED
  BY <1>1, <1>2

LEMMA StepSame ==
  ASSUME Clienthood, NEW c \in Clients, MainStep(c) \/ DispatcherStep(c)
  PROVE  UNCHANGED server /\ \A d \in Clients \ {c} : Same(d)
<1>1. Typed /\ outcome = [d \in Clients |-> outcome[d]]
  BY DEF Clienthood, Typed, Table
<1>2. CASE ReadLine(c)
  BY <1>1, <1>2 DEF ReadLine, queue_request, dispatcher, Same, Typed
<1>3. CASE Delete(c)
  BY <1>1, <1>3 DEF Delete, dispatcher, Same, Typed
<1>4. CASE TestAlive(c) \/ TestQueue(c) \/ TakeRequest(c) \/ SendRequest(c)
  BY <1>1, <1>4 DEF TestAlive, TestQueue, TakeRequest, SendRequest, Goto, main, Same, Typed
<1>5. CASE GiveUp(c)
  BY <1>1, <1>5 DEF GiveUp, EndRequest, Goto, main, Same, Typed
<1>6. CASE AnswerTimeout(c) \/ Discover(c) \/ LocationTimeout(c) \/ DiscoveryFails(c)
  BY <1>1, <1>6 DEF AnswerTimeout, Discover, LocationTimeout, DiscoveryFails, Located, Goto,
                    main, Same, Typed
<1>7. ASSUME NEW m \in net, ReceiveAnswer(c, m) \/ ReceiveLocation(c, m)
      PROVE  UNCHANGED server /\ \A d \in Clients \ {c} : Same(d)
  BY <1>1, <1>7 DEF ReceiveAnswer, ReceiveLocation, EndRequest, Located, Goto, main, Same, Typed
<1> QED
  BY <1>2, <1>3, <1>4, <1>5, <1>6, <1>7 DEF MainStep, DispatcherStep

\* What the end of a request does to c.
LEMMA EndMeans ==
  ASSUME Clienthood, NEW c \in Clients, NEW how, how # "pending", EndRequest(c, how),
         at[c] \in {"send", "wait"}
  PROVE  /\ at'[c] = "loop" /\ request'[c] = 0
         /\ \A i \in Lines(c) : outcome'[c][i] = IF i = request[c] THEN how ELSE outcome[c][i]
         /\ Begun(c) => Begun(c)'
<1>1. /\ Typed /\ request[c] > 0
      /\ at' = [at EXCEPT ![c] = "loop"] /\ request' = [request EXCEPT ![c] = 0]
  BY DEF Clienthood, EndRequest, Goto, Placed
<1>2. at'[c] = "loop" /\ request'[c] = 0
  BY <1>1 DEF Typed
<1>3. \A i \in Lines(c) : outcome'[c][i] = IF i = request[c] THEN how ELSE outcome[c][i]
  <2>1. Table(outcome) /\ request[c] \in Lines(c) /\ outcome' = Entry(outcome, c, request[c], how)
    BY <1>1, Turn DEF Typed, Entry, EndRequest
  <2> DEFINE i == request[c]
  <2> HIDE DEF i
  <2>2. /\ outcome'[c][i] = how
        /\ \A j \in Lines(c) \ {i} : outcome'[c][j] = outcome[c][j]
    BY <2>1, TableEntry DEF i
  <2> QED
    BY <2>2 DEF i
<1>4. Begun(c) => Begun(c)'
  BY <1>3 DEF Begun, Kind, Pending, Lines
<1> QED
  BY <1>2, <1>3, <1>4

LEMMA SendDelivers ==
  ASSUME Clienthood, Delivery, NEW c \in Clients, SendRequest(c) PROVE Delivery'
<1>1. /\ UNCHANGED server /\ \A d \in Clients \ {c} : Same(d)
      /\ at[c] = "send" /\ at'[c] = "wait" /\ request' = request /\ outcome' = outcome
      /\ \A m \in net' : m \in net \/ m = Datagram(c)
      /\ request[c] > 0
  BY StepSame DEF SendRequest, DispatcherStep, Goto, Clienthood, Typed, Placed
<1>2. Gone(c)' /\ (Begun(c)' <=> Begun(c))
  BY <1>1 DEF Gone, Begun, Kind, Pending, Delivery, Lines, server
<1>3. CASE Program[c][request[c]].type = "KILL"
  <2>1. Begun(c) /\ Datagram(c) = KIL(c)
    BY <1>1, <1>3, Turn DEF Begun, Kind, Datagram
  <2> QED
    BY <1>1, <1>2, <2>1, LeavingStep DEF Leaving
<1>4. CASE Program[c][request[c]].type # "KILL"
  <2>1. ~ Begun(c) /\ Kind(c, request[c], "REQ")
    BY <1>1, <1>4, Exclusive
  <2>2. Calm(c) /\ \A m \in net : Client(m) # c
    BY <1>1, <2>1, Elsewhere DEF Leaving
  <2>3. Asking(c)'
    BY <1>1, <2>1 DEF Asking, Kind, Lines
  <2>4. PICK d : d = Datagram(c)
    OBVIOUS
  <2>5. /\ d.type = "REQ" /\ d.from = c /\ d.id = request[c] /\ Client(d) = c
        /\ d.transfer_amount = Program[c][request[c]].transfer_amount
    BY <2>1, <2>4 DEF Datagram, Kind, REQ, Client
  <2>6. Belongs(d)'
    BY <1>1, <2>3, <2>5 DEF Belongs, Fits
  <2> QED
    BY <1>1, <1>2, <2>2, <2>4, <2>5, <2>6, FreshStart
<1> QED
  BY <1>3, <1>4

LEMMA ReceiveDelivers ==
  ASSUME Clienthood, Delivery, NEW c \in Clients, NEW m \in net, ReceiveAnswer(c, m)
  PROVE  Delivery'
<1> DEFINE done == m.result \in {"SUCCESS", "BALANCE_CHECK", "KILL"}
<1>1. /\ UNCHANGED server /\ \A d \in Clients \ {c} : Same(d)
      /\ at[c] = "wait" /\ m.type = "ACK" /\ m.to = c /\ net' = net \ {m} /\ Client(m) = c
      /\ (Leaving(c) /\ KillVerdict(c, m.result)) \/ Asking(c)
  BY StepSame DEF ReceiveAnswer, DispatcherStep, Client, Delivery, Belongs
<1>2. /\ at'[c] \in {"loop", "send"}
      /\ Begun(c) => Begun(c)'
      /\ \A i \in Lines(c) :
           outcome'[c][i] = IF done /\ i = request[c] THEN "done" ELSE outcome[c][i]
  <2>1. CASE done
    BY <1>1, <2>1, EndMeans DEF ReceiveAnswer
  <2>2. CASE ~ done
    BY <2>2 DEF ReceiveAnswer, Goto, Clienthood, Typed, Begun, Kind, Pending, Lines
  <2> QED
    BY <2>1, <2>2
<1>3. CASE Leaving(c)
  <2>1. ~ Asking(c)
    BY <1>3, AskingMeans
  <2>2. done => c \notin accounts'
    BY <1>1, <2>1 DEF KillVerdict, server
  <2>3. Gone(c)'
    BY <1>1, <1>2, <2>2 DEF Gone, Kind, Lines, Delivery, server
  <2> QED
    BY <1>1, <1>2, <1>3, <2>3, LeavingStep DEF Leaving
<1>4. CASE ~ Leaving(c)
  <2>1. Calm(c) /\ \A n \in net \ {m} : Client(n) # c
    BY <1>1, <1>4, Alone
  <2>2. Kind(c, request[c], "REQ")
    BY <1>1, <1>4 DEF Asking
  <2>3. Gone(c)'
    BY <1>1, <1>2, <2>2 DEF Gone, Kind, Lines, Delivery, server
  <2> QED
    BY <1>1, <2>1, <2>3, FreshStart
<1> QED
  BY <1>3, <1>4

LEMMA ClientDelivers ==
  ASSUME Clienthood, Delivery, NEW c \in Clients, MainStep(c) \/ DispatcherStep(c)
  PROVE  Delivery'
<1>1. /\ UNCHANGED server /\ \A d \in Clients \ {c} : Same(d)
      /\ \A d \in Clients \ {c} : Still(d) /\ Gone(d)'
  BY StepSame, OthersStill
<1>2. ASSUME UNCHANGED <<outcome>> PROVE Gone(c)'
  BY <1>1, <1>2 DEF Gone, Kind, Lines, Delivery, server
<1>3. Typed /\ Placed(c)
  BY DEF Clienthood
<1>4. CASE ReadLine(c)
  <2> DEFINE i == lines[c] + 1
  <2>1. UNCHANGED <<net, at, request>> /\ i \in Lines(c)
    BY <1>4 DEF ReadLine, dispatcher, Lines
  <2>2. \A j \in Lines(c) : Kind(c, j, "KILL") => outcome'[c][j] = outcome[c][j]
    BY <1>3, <1>4, <2>1 DEF ReadLine, queue_request, Kind, Typed, Table
  <2>3. Still(c) /\ Gone(c)'
    BY <1>1, <2>1, <2>2 DEF Still, Leaving, Begun, Asking, Gone, Kind, Pending, Lines, Delivery,
                            server
  <2> QED
    BY <1>1, <2>1, <2>3, EveryoneStill
<1>5. CASE Delete(c)
  <2>1. Still(c) /\ Gone(c)' /\ net' = net
    BY <1>1, <1>2, <1>5 DEF Delete, dispatcher, Still, Leaving, Begun, Asking, Kind, Pending, Lines,
                            server
  <2> QED
    BY <1>1, <2>1, EveryoneStill
<1>6. CASE TestAlive(c) \/ TestQueue(c) \/ TakeRequest(c)
  <2>1. /\ at[c] \in {"loop", "drain", "take"} /\ UNCHANGED <<net, outcome>>
        /\ at'[c] \notin {"discover", "locate"}
        /\ request[c] = 0
    BY <1>3, <1>6 DEF TestAlive, TestQueue, TakeRequest, Goto, Typed, Placed
  <2>2. Begun(c) => Begun(c)'
    BY <2>1, ProgramLines DEF Begun, Kind, Pending, Lines
  <2> QED
    BY <1>1, <1>2, <2>1, <2>2, LoopStep
<1>7. CASE GiveUp(c)
  <2>1. at[c] = "send" /\ net' = net /\ EndRequest(c, "given up")
    BY <1>7 DEF GiveUp
  <2>2. /\ at'[c] = "loop" /\ (Begun(c) => Begun(c)')
        /\ \A i \in Lines(c) : outcome'[c][i] = IF i = request[c] THEN "given up" ELSE outcome[c][i]
    BY <2>1, EndMeans
  <2>3. Gone(c)'
    BY <1>1, <2>2 DEF Gone, Kind, Lines, Delivery, server
  <2> QED
    BY <1>1, <2>1, <2>2, <2>3, LoopStep
<1>8. CASE AnswerTimeout(c) \/ LocationTimeout(c)
  BY <1>1, <1>2, <1>8, QuietMeans, FreshStart DEF AnswerTimeout, LocationTimeout
<1>9. CASE Discover(c)
  <2>1. /\ at[c] = "discover" /\ at'[c] = "locate" /\ net' = net \cup {DIS(c)} /\ Gone(c)'
    BY <1>2, <1>3, <1>9 DEF Discover, Goto, Typed
  <2>2. Calm(c) /\ \A m \in net : Client(m) # c
    BY <2>1, Elsewhere DEF Leaving
  <2>3. PICK d : d = DIS(c)
    OBVIOUS
  <2>4. Client(d) = c /\ Belongs(d)'
    BY <2>1, <2>3 DEF DIS, Client, Belongs
  <2> QED
    BY <1>1, <2>1, <2>2, <2>3, <2>4, FreshStart
<1>10. CASE DiscoveryFails(c)
  <2>1. at[c] = "discover" /\ net' = net /\ Gone(c)'
    BY <1>2, <1>10 DEF DiscoveryFails
  <2>2. Calm(c) /\ \A m \in net : Client(m) # c
    BY <2>1, Elsewhere DEF Leaving
  <2> QED
    BY <1>1, <2>1, <2>2, FreshStart
<1>11. ASSUME NEW m \in net, ReceiveLocation(c, m) PROVE Delivery'
  <2>1. at[c] = "locate" /\ net' = net \ {m} /\ Client(m) = c /\ Gone(c)'
    BY <1>2, <1>11 DEF ReceiveLocation, Client
  <2>2. Calm(c) /\ \A n \in net \ {m} : Client(n) # c
    BY <2>1, Alone DEF Leaving
  <2> QED
    BY <1>1, <2>1, <2>2, FreshStart
<1> QED
  BY <1>4, <1>5, <1>6, <1>7, <1>8, <1>9, <1>10, <1>11, SendDelivers, ReceiveDelivers
     DEF MainStep, DispatcherStep

-----------------------------------------------------------------------------
(* Steps of the server, and of the network.                                *)

clients == <<main, dispatcher, outcome>>

LEMMA ClientsRest ==
  ASSUME UNCHANGED clients, NEW c \in Clients, Leaving(c) /\ c \in accounts' => c \in accounts
  PROVE  Same(c) /\ Still(c) /\ (Leaving(c)' <=> Leaving(c))
<1>1. Same(c)
  BY DEF clients, main, dispatcher, Same
<1> QED
  BY <1>1, SameStill DEF Still

\* Every client rests, and no account opens of one that leaves.
LEMMA ClientsStay ==
  ASSUME Delivery, UNCHANGED clients, accounts' \subseteq accounts
  PROVE  /\ \A c \in Clients : Still(c) /\ Gone(c)' /\ (Leaving(c)' <=> Leaving(c))
         /\ \A m \in net : Belongs(m)'
         /\ UNCHANGED greeting => Greeted'
<1>1. \A c \in Clients : Still(c) /\ Same(c) /\ (Leaving(c)' <=> Leaving(c))
  BY ClientsRest
<1>2. \A c \in Clients : Gone(c)'
  BY <1>1 DEF Delivery, Gone, Same, Kind, Lines
<1>3. \A m \in net : Belongs(m)'
  BY <1>1, BelongsStill DEF Delivery, Belongs
<1>4. UNCHANGED greeting => Greeted'
  BY <1>1 DEF Delivery, Greeted, Still
<1> QED
  BY <1>1, <1>2, <1>3, <1>4

\* The threads that do nothing.
LEMMA WorkersStay ==
  ASSUME Delivery, \A c \in Clients : Still(c), NEW u \in Threads,
         pc'[u] = pc[u], packet'[u] = packet[u], result'[u] = result[u],
         kill_params' = kill_params \/ (kill_params.from \in Clients /\ Leaving(kill_params.from))'
  PROVE  Worker(u)'
<1>0. PICK k, p, r : k = pc[u] /\ p = packet[u] /\ r = result[u]
  OBVIOUS
<1>1. Worker(u) /\ Job(k, p, r) /\ (k # "idle" => p.from \in Clients)
  BY <1>0 DEF Delivery, Worker, Job
<1>2. Job(k, p, r)'
  BY <1>1, JobStill
<1>3. pc[u] = "params" => (kill_params.from \in Clients /\ Leaving(kill_params.from))'
  BY <1>1 DEF Worker, Still
<1> QED
  BY <1>0, <1>2, <1>3 DEF Worker

LEMMA LoseStep ==
  ASSUME Delivery, UNCHANGED <<clients, server>>, net' \subseteq net
  PROVE  Delivery'
<1>1. UNCHANGED <<accounts, greeting, pc, packet, result, kill_params>>
  BY DEF server
<1>2. /\ \A c \in Clients : Still(c) /\ Gone(c)' /\ (Leaving(c)' <=> Leaving(c))
      /\ \A m \in net : Belongs(m)' /\ Greeted'
  BY <1>1, ClientsStay
<1>3. Machine' /\ \A t \in Threads : Worker(t)'
  BY <1>1, <1>2, MachineStays, WorkersStay DEF Delivery
<1>4. ASSUME NEW c \in Clients, ~ Leaving(c)' PROVE Single(c)'
  <2>1. Single(c)
    BY <1>2, <1>4 DEF Delivery
  <2> QED
    BY <1>1, <2>1 DEF Single, Works
<1> QED
  BY <1>2, <1>3, <1>4, ClientsStay, <1>1 DEF Delivery

\* A thread at work goes to label k with packet p and result r.
LEMMA WorkerStep ==
  ASSUME Delivery, UNCHANGED <<clients, net, greeting, kill_params>>, accounts' \subseteq accounts,
         NEW t \in Threads, NEW k \in Labels, NEW p, NEW r, pc[t] # "idle", k \notin {"idle", "params"},
         pc' = [pc EXCEPT ![t] = k], packet' = [packet EXCEPT ![t] = p],
         result' = [result EXCEPT ![t] = r],
         p.from = packet[t].from \/ Leaving(p.from), Job(k, p, r)'
  PROVE  Delivery'
<1>1. /\ Machine' /\ pc'[t] = k /\ packet'[t] = p /\ result'[t] = r
      /\ \A u \in Threads \ {t} : pc'[u] = pc[u] /\ packet'[u] = packet[u] /\ result'[u] = result[u]
  BY DEF Delivery, Machine
<1>2. /\ \A c \in Clients : Still(c) /\ Gone(c)' /\ (Leaving(c)' <=> Leaving(c))
      /\ \A m \in net : Belongs(m)'
      /\ Greeted'
  BY ClientsStay
<1>3. Worker(t)'
  BY <1>1 DEF Worker
<1>4. ASSUME NEW u \in Threads \ {t} PROVE Worker(u)'
  BY <1>1, <1>2, WorkersStay
<1>5. ASSUME NEW c \in Clients, ~ Leaving(c)' PROVE Single(c)'
  <2>1. Single(c) /\ \A u \in Threads : Works(u, c)' => Works(u, c)
    BY <1>1, <1>2, <1>5 DEF Delivery, Works
  <2> QED
    BY <2>1 DEF Single
<1> QED
  BY <1>1, <1>2, <1>3, <1>4, <1>5 DEF Delivery

\* A thread ends with answer a.
LEMMA AnswerStep ==
  ASSUME Delivery, UNCHANGED <<clients, accounts, greeting, kill_params>>,
         NEW t \in Threads, NEW a, NEW p, NEW r, pc[t] # "idle", Client(a) = packet[t].from,
         net' = net \cup {a}, Belongs(a)',
         pc' = [pc EXCEPT ![t] = "idle"], packet' = [packet EXCEPT ![t] = p],
         result' = [result EXCEPT ![t] = r]
  PROVE  Delivery'
<1>1. /\ Machine' /\ pc'[t] = "idle"
      /\ \A u \in Threads \ {t} : pc'[u] = pc[u] /\ packet'[u] = packet[u] /\ result'[u] = result[u]
  BY DEF Delivery, Machine, Labels
<1>2. /\ \A c \in Clients : Still(c) /\ Gone(c)' /\ (Leaving(c)' <=> Leaving(c))
      /\ \A m \in net : Belongs(m)'
      /\ Greeted'
  BY ClientsStay
<1>3. Worker(t)'
  BY <1>1 DEF Worker, Job, ReqLabels
<1>4. ASSUME NEW u \in Threads \ {t} PROVE Worker(u)'
  BY <1>1, <1>2, WorkersStay
<1>5. ASSUME NEW c \in Clients, ~ Leaving(c)' PROVE Single(c)'
  <2>1. Single(c)
    BY <1>2, <1>5 DEF Delivery
  <2>2. \A u \in Threads : Works(u, c)' => Works(u, c) /\ u # t
    BY <1>1 DEF Works
  <2>3. CASE Client(a) = c
    <3>1. Works(t, c)
      BY <2>3 DEF Works
    <3> QED
      BY <2>1, <2>2, <3>1 DEF Single
  <2>4. CASE Client(a) # c
    BY <2>1, <2>2, <2>4 DEF Single
  <2> QED
    BY <2>3, <2>4
<1> QED
  BY <1>1, <1>2, <1>3, <1>4, <1>5 DEF Delivery

\* A thread starts to work on packet m.
LEMMA StartStep ==
  ASSUME Delivery, UNCHANGED <<clients, accounts, greeting, result>>,
         NEW t \in Threads, NEW m \in net, NEW k \in Labels, NEW r, r = result[t],
         pc[t] = "idle", Client(m) = m.from, net' = net \ {m},
         pc' = [pc EXCEPT ![t] = k], packet' = [packet EXCEPT ![t] = m], Job(k, m, r)',
         \/ kill_params' = kill_params /\ k # "params"
         \/ kill_params' = m /\ Leaving(m.from)
  PROVE  Delivery'
<1>1. /\ Machine' /\ pc'[t] = k /\ packet'[t] = m /\ result'[t] = r
      /\ \A u \in Threads \ {t} : pc'[u] = pc[u] /\ packet'[u] = packet[u] /\ result'[u] = result[u]
  BY DEF Delivery, Machine
<1>2. /\ \A c \in Clients : Still(c) /\ Gone(c)' /\ (Leaving(c)' <=> Leaving(c))
      /\ \A n \in net : Belongs(n)'
      /\ Greeted'
  BY ClientsStay
<1>3. m.from \in Clients
  BY DEF Delivery, Belongs
<1>4. Worker(t)'
  BY <1>1, <1>2, <1>3 DEF Worker
<1>5. ASSUME NEW u \in Threads \ {t} PROVE Worker(u)'
  BY <1>1, <1>2, <1>3, WorkersStay
<1>6. ASSUME NEW c \in Clients, ~ Leaving(c)' PROVE Single(c)'
  <2>1. Single(c)
    BY <1>2, <1>6 DEF Delivery
  <2>2. \A u \in Threads : Works(u, c)' => (Works(u, c) \/ (u = t /\ m.from = c))
    BY <1>1 DEF Works
  <2>3. CASE Client(m) = c
    BY <2>1, <2>2, <2>3 DEF Single
  <2>4. CASE Client(m) # c
    BY <2>1, <2>2, <2>4 DEF Single
  <2> QED
    BY <2>3, <2>4
<1> QED
  BY <1>1, <1>2, <1>4, <1>5, <1>6 DEF Delivery

LEMMA GreetStep ==
  ASSUME Clienthood, Delivery, UNCHANGED clients, NEW m \in net, Server!Greet(m)
  PROVE  Delivery'
<1>1. /\ m.type = "DIS" /\ greeting = NoClient /\ net' = net \ {m}
      /\ UNCHANGED <<pc, packet, result, kill_params>>
      /\ \/ UNCHANGED <<accounts, greeting>>
         \/ accounts' \subseteq accounts \cup {m.from} /\ greeting' = m.from
  BY DEF Server!Greet, Server!Register, Server!threads, Server!db
<1>2. m.from \in Clients /\ at[m.from] = "locate" /\ Client(m) = m.from
  BY <1>1 DEF Delivery, Belongs, Client
<1>3. \A c \in Clients : Still(c) /\ Same(c) /\ (Leaving(c)' <=> Leaving(c))
  <2>1. \A c \in Clients : Leaving(c) /\ c \in accounts' => c \in accounts
    BY <1>1, <1>2 DEF Leaving
  <2> QED
    BY <2>1, ClientsRest
<1>4. ASSUME NEW c \in Clients PROVE Gone(c)'
  <2> SUFFICES ASSUME NEW i \in Lines(c), Kind(c, i, "KILL"), outcome[c][i] = "done"
               PROVE  c \notin accounts'
    BY <1>3 DEF Gone, Same, Kind, Lines
  <2>1. Leaving(c) /\ c \notin accounts
    BY DoneMeans DEF Pending, Delivery, Gone
  <2> QED
    BY <1>1, <1>2, <2>1 DEF Leaving
<1>5. \A n \in net' : Belongs(n)'
  BY <1>1, <1>3, BelongsStill DEF Delivery, Belongs
<1>6. Machine' /\ \A t \in Threads : Worker(t)'
  BY <1>1, <1>3, MachineStays, WorkersStay DEF Delivery
<1>7. Greeted'
  BY <1>1, <1>2, <1>3 DEF Greeted, Still
<1>8. ASSUME NEW c \in Clients, ~ Leaving(c)' PROVE Single(c)'
  <2>1. Single(c)
    BY <1>3, <1>8 DEF Delivery
  <2> QED
    BY <1>1, <1>2, <2>1, ProgramAssumption DEF Single, Works
<1> QED
  BY <1>4, <1>5, <1>6, <1>7, <1>8 DEF Delivery

LEMMA GreeterAnswerStep ==
  ASSUME Delivery, UNCHANGED clients, Server!GreeterAnswer
  PROVE  Delivery'
<1>1. /\ greeting # NoClient /\ net' = net \cup {LOC(greeting)} /\ greeting' = NoClient
      /\ UNCHANGED <<accounts, pc, packet, result, kill_params>>
  BY Datagrams DEF Server!GreeterAnswer, Server!threads, Server!db
<1>2. /\ \A c \in Clients : Still(c) /\ Gone(c)' /\ (Leaving(c)' <=> Leaving(c))
      /\ \A n \in net : Belongs(n)'
  BY <1>1, ClientsStay
<1>3. PICK m : m = LOC(greeting)
  OBVIOUS
<1>4. Client(m) = greeting /\ greeting \in Clients /\ Belongs(m)'
  BY <1>1, <1>2, <1>3 DEF Delivery, Greeted, LOC, Client, Belongs, Still
<1>5. Machine' /\ Greeted' /\ \A t \in Threads : Worker(t)'
  BY <1>1, <1>2, MachineStays, WorkersStay DEF Delivery, Greeted
<1>6. ASSUME NEW c \in Clients, ~ Leaving(c)' PROVE Single(c)'
  <2>1. Single(c) /\ c # NoClient
    BY <1>2, <1>6, ProgramAssumption DEF Delivery
  <2> QED
    BY <1>1, <1>3, <1>4, <2>1 DEF Single, Works
<1> QED
  BY <1>1, <1>2, <1>3, <1>4, <1>5, <1>6 DEF Delivery

\* What a thread has to do next, and the answers it can give.
LEMMA ThreadDelivers ==
  ASSUME Clienthood, Delivery, UNCHANGED clients, NEW t \in Threads, Server!ThreadStep(t)
  PROVE  Delivery'
<1> USE DEF Server!Goto, Server!Result
<1>0. PICK p, r : p = packet[t] /\ r = result[t]
  OBVIOUS
<1>1. /\ Job(pc[t], p, r) /\ Machine /\ packet[t] = p /\ result[t] = r
      /\ (pc[t] # "idle" => p.from \in Clients)
      /\ \A c \in Clients : Still(c) \/ ~ (accounts' \subseteq accounts)
  BY <1>0, ClientsStay DEF Delivery, Worker, Job
<1>2. packet = [packet EXCEPT ![t] = p] /\ result = [result EXCEPT ![t] = r]
  BY <1>0 DEF Delivery, Machine
<1>3. CASE Server!CheckPacket(t)
  <2>1. PICK q : q \in {"VALID", "DUPLICATE", "OUT_OF_ORDER"}
                 /\ result' = [result EXCEPT ![t] = q]
                 /\ pc' = [pc EXCEPT ![t] = IF q = "VALID" THEN "transaction" ELSE "reply"]
    BY <1>3 DEF Server!CheckPacket, Server!check_packet_status
  <2>2. /\ pc[t] = "check" /\ accounts' = accounts
        /\ UNCHANGED <<net, greeting, kill_params, packet>>
    BY <1>3 DEF Server!CheckPacket, Server!db
  <2>3. Fits(p, p.from)' /\ (q # "VALID" => Verdict(p.from, q)')
    BY <1>1, <2>1, <2>2 DEF Job, ReqLabels, Fits, Verdict, Still
  <2> DEFINE k == IF q = "VALID" THEN "transaction" ELSE "reply"
  <2>4. Job(k, p, q)' /\ k \in Labels /\ k \notin {"idle", "params"}
    BY <1>1, <2>1, <2>2, <2>3 DEF Job, ReqLabels, Labels
  <2> HIDE DEF k
  <2>5. pc' = [pc EXCEPT ![t] = k]
    BY <2>1 DEF k
  <2> QED
    BY <1>1, <1>2, <2>1, <2>2, <2>4, <2>5, WorkerStep
<1>4. CASE Server!Transaction(t)
  <2>1. PICK q : q = Server!Outcome(p.from, p.receiver, p.transfer_amount)
    OBVIOUS
  <2>2. PICK k : /\ k \in {"record", "reply"} /\ pc' = [pc EXCEPT ![t] = k]
                 /\ result' = [result EXCEPT ![t] = q]
    BY <1>1, <1>4, <2>1 DEF Server!Transaction
  <2>3. /\ pc[t] = "transaction" /\ accounts' = accounts
        /\ UNCHANGED <<net, greeting, kill_params, packet>>
    BY <1>4 DEF Server!Transaction
  <2>4. Fits(p, p.from) /\ Asking(p.from) /\ p.transfer_amount \in Nat
    BY <1>1, <2>3, AskingMeans DEF Job, ReqLabels, Fits
  <2>5. /\ q # "KILL" /\ (q = "BALANCE_CHECK" => p.transfer_amount = 0)
        /\ (q = "SUCCESS" => p.transfer_amount > 0)
    BY <2>1, <2>4 DEF Server!Outcome
  <2>6. Fits(p, p.from)' /\ Verdict(p.from, q)'
    BY <1>1, <2>3, <2>4, <2>5 DEF Fits, Verdict, Still
  <2>7. Job(k, p, q)' /\ k \in Labels /\ k \notin {"idle", "params"}
    BY <1>1, <2>2, <2>3, <2>6 DEF Job, ReqLabels, Labels
  <2> QED
    BY <1>1, <1>2, <2>2, <2>3, <2>7, WorkerStep
<1>5. CASE Server!TakeRecord(t) \/ Server!Publish(t)
  <2>1. /\ pc[t] \in {"record", "publish"} /\ accounts' = accounts
        /\ UNCHANGED <<net, greeting, kill_params, packet, result>>
    BY <1>5 DEF Server!TakeRecord, Server!Publish, Server!db
  <2>2. PICK k : k \in {"record", "publish", "reply"} /\ pc' = [pc EXCEPT ![t] = k]
    BY <1>1, <1>5 DEF Server!TakeRecord, Server!Publish, Machine
  <2>3. Fits(p, p.from)' /\ Verdict(p.from, r)'
    BY <1>1, <2>1 DEF Job, ReqLabels, Fits, Verdict, Still
  <2>4. Job(k, p, r)' /\ k \in Labels /\ k \notin {"idle", "params"}
    BY <1>1, <2>1, <2>2, <2>3 DEF Job, ReqLabels, Labels
  <2> QED
    BY <1>1, <1>2, <2>1, <2>2, <2>4, WorkerStep
<1>6. CASE Server!Reply(t)
  <2>1. PICK a : a = ACK(packet[t].from, number[t], result[t], packet[t].id)
    OBVIOUS
  <2>2. /\ pc[t] = "reply" /\ net' = net \cup {a} /\ UNCHANGED <<accounts, greeting, kill_params>>
        /\ pc' = [pc EXCEPT ![t] = "idle"]
    BY <1>6, <2>1, Datagrams DEF Server!Reply, Server!Finish, Server!db
  <2>3. PICK x, y : packet' = [packet EXCEPT ![t] = x] /\ result' = [result EXCEPT ![t] = y]
    BY <1>6 DEF Server!Reply, Server!Finish
  <2>4. Fits(p, p.from) /\ Verdict(p.from, r)
    BY <1>1, <2>2 DEF Job, ReqLabels
  <2>5. a.type = "ACK" /\ a.to = p.from /\ a.result = r /\ a.id = p.id /\ Client(a) = p.from
    BY <1>1, <2>1 DEF ACK, Client
  <2>6. Belongs(a)'
    BY <1>1, <2>2, <2>4, <2>5 DEF Belongs, Fits, Verdict, Still
  <2>7. Client(a) = packet[t].from /\ pc[t] # "idle"
    BY <1>1, <2>2, <2>5
  <2> QED
    BY <2>2, <2>3, <2>6, <2>7, AnswerStep
<1>7. CASE Server!CopyParams(t)
  <2>1. PICK q : q = kill_params
    OBVIOUS
  <2>2. /\ pc[t] = "params" /\ accounts' = accounts
        /\ UNCHANGED <<net, greeting, kill_params, result>>
        /\ pc' = [pc EXCEPT ![t] = "remove"] /\ packet' = [packet EXCEPT ![t] = q]
    BY <1>7, <2>1 DEF Server!CopyParams, Server!db
  <2>3. q.from \in Clients /\ Leaving(q.from)
    BY <2>1, <2>2 DEF Delivery, Worker
  <2>4. Job("remove", q, r)'
    BY <1>1, <2>2, <2>3 DEF Job, ReqLabels, Still
  <2> QED
    BY <1>2, <2>2, <2>3, <2>4, WorkerStep DEF Labels
<1>8. CASE Server!RemoveClient(t)
  <2>1. PICK q : q = IF p.from \in accounts THEN "KILL" ELSE "SENDER_NOT_REGISTERED"
    OBVIOUS
  <2>2. /\ pc[t] = "remove" /\ accounts' = accounts \ {p.from}
        /\ UNCHANGED <<net, greeting, kill_params, packet>>
        /\ pc' = [pc EXCEPT ![t] = "kill_reply"] /\ result' = [result EXCEPT ![t] = q]
    BY <1>1, <1>8, <2>1 DEF Server!RemoveClient
  <2>3. Job("kill_reply", p, q)'
    BY <1>1, <2>1, <2>2 DEF Job, ReqLabels, Still, KillVerdict
  <2> QED
    BY <1>1, <1>2, <2>2, <2>3, WorkerStep DEF Labels
<1>9. CASE Server!KillReply(t)
  <2>1. PICK a : a = ACK(packet[t].from, packet[t].seq_num, result[t], 0)
    OBVIOUS
  <2>2. /\ pc[t] = "kill_reply" /\ net' = net \cup {a}
        /\ UNCHANGED <<accounts, greeting, kill_params>> /\ pc' = [pc EXCEPT ![t] = "idle"]
    BY <1>9, <2>1, Datagrams DEF Server!KillReply, Server!Finish, Server!db
  <2>3. PICK x, y : packet' = [packet EXCEPT ![t] = x] /\ result' = [result EXCEPT ![t] = y]
    BY <1>9 DEF Server!KillReply, Server!Finish
  <2>4. Leaving(p.from) /\ KillVerdict(p.from, r)
    BY <1>1, <2>2 DEF Job
  <2>5. a.type = "ACK" /\ a.to = p.from /\ a.result = r /\ Client(a) = p.from
    BY <1>1, <2>1 DEF ACK, Client
  <2>6. Belongs(a)'
    BY <1>1, <2>2, <2>4, <2>5 DEF Belongs, KillVerdict, Still
  <2> QED
    BY <1>1, <2>2, <2>3, <2>5, <2>6, AnswerStep
<1> QED
  BY <1>3, <1>4, <1>5, <1>6, <1>7, <1>8, <1>9 DEF Server!ThreadStep

LEMMA StartDelivers ==
  ASSUME Delivery, UNCHANGED clients, NEW t \in Threads, NEW m \in net,
         Server!StartRequest(t, m) \/ Server!StartKill(t, m)
  PROVE  Delivery'
<1>0. PICK r : r = result[t]
  OBVIOUS
<1>1. /\ pc[t] = "idle" /\ net' = net \ {m} /\ UNCHANGED <<accounts, greeting, result>>
      /\ packet' = [packet EXCEPT ![t] = m] /\ m.type \in {"REQ", "KIL"}
  BY DEF Server!StartRequest, Server!StartKill, Server!db
<1>2. Belongs(m)' /\ Belongs(m) /\ Client(m) = m.from
  BY <1>1, ClientsStay DEF Delivery, Client
<1>3. CASE Server!StartRequest(t, m)
  <2>1. m.type = "REQ" /\ pc' = [pc EXCEPT ![t] = "check"] /\ kill_params' = kill_params
    BY <1>3 DEF Server!StartRequest
  <2>2. Job("check", m, r)'
    BY <1>2, <2>1 DEF Belongs, Job, ReqLabels
  <2> QED
    BY <1>0, <1>1, <1>2, <2>1, <2>2, StartStep DEF Labels
<1>4. CASE Server!StartKill(t, m)
  <2>1. m.type = "KIL" /\ pc' = [pc EXCEPT ![t] = "params"] /\ kill_params' = m
    BY <1>4 DEF Server!StartKill
  <2>2. Job("params", m, r)' /\ Leaving(m.from)
    BY <1>2, <2>1 DEF Belongs, Job, ReqLabels
  <2> QED
    BY <1>0, <1>1, <1>2, <2>1, <2>2, StartStep DEF Labels
<1> QED
  BY <1>3, <1>4

LEMMA DeliveryStep == Clienthood /\ Delivery /\ [Next]_vars => Delivery'
<1> SUFFICES ASSUME Clienthood, Delivery, [Next]_vars PROVE Delivery'
  OBVIOUS
<1>1. CASE ServerStep
  <2>1. UNCHANGED clients /\ Server!ServerStep
    BY <1>1 DEF ServerStep, clients
  <2> QED
    BY <2>1, GreetStep, GreeterAnswerStep, ThreadDelivers, StartDelivers
       DEF Server!ServerStep, Server!GreeterStep, Server!Multiplex
<1>2. ASSUME NEW m \in net, Lose(m) PROVE Delivery'
  BY <1>2, LoseStep DEF Lose, clients
<1>3. CASE UNCHANGED vars
  BY <1>3, LoseStep DEF vars, clients
<1> QED
  BY <1>1, <1>2, <1>3, ClientDelivers DEF Next

LEMMA DeliveryAlways == Spec => [](Clienthood /\ Delivery)
  BY ClienthoodInit, ClienthoodStep, DeliveryInit, DeliveryStep, PTL DEF Spec

\* A client that was told of the end of its account has none: only a discovery
\* opens one, and no discovery is under way for a client that leaves.
THEOREM TheKilledAreGone == Spec => []KilledIsGone
<1>1. Delivery => KilledIsGone
  BY DEF Delivery, KilledIsGone, Gone, Kind, Lines
<1> QED
  BY <1>1, DeliveryAlways, PTL

-----------------------------------------------------------------------------
(* The money a client's requests have moved, and the answers it got.       *)

\* A transfer that was made, and neither answered nor lost, is the one that
\* its client waits for.
LEMMA InHandMeans ==
  ASSUME Clienthood, Delivery, NEW c \in Clients, NEW i, InHand(c, i)
  PROVE  /\ Asking(c) /\ i = request[c] /\ i \in Lines(c) /\ Single(c)
         /\ Program[c][i].type = "REQ" /\ Program[c][i].transfer_amount > 0
<1>1. Asking(c) /\ i = request[c] /\ Program[c][i].transfer_amount > 0
  <2>1. ASSUME NEW t \in Threads, HasWon(t, c, i)
        PROVE  Asking(c) /\ i = request[c] /\ Program[c][i].transfer_amount > 0
    BY <2>1 DEF Delivery, HasWon, Worker, Job, ReqLabels, Fits, Verdict
  <2>2. ASSUME NEW m \in net, Reports(m, c, i)
        PROVE  Asking(c) /\ i = request[c] /\ Program[c][i].transfer_amount > 0
    BY <2>2 DEF Delivery, Reports, Belongs, KillVerdict, Verdict
  <2> QED
    BY <2>1, <2>2 DEF InHand
<1>2. ~ Leaving(c) /\ i \in Lines(c)
  BY <1>1, AskingMeans
<1> QED
  BY <1>1, <1>2 DEF Delivery, Asking, Kind

LEMMA AccountInit == Init => Account
<1> SUFFICES ASSUME Init PROVE Account
  OBVIOUS
<1>1. made = [c \in Clients |-> [i \in Lines(c) |-> 0]] /\ lost = made
  BY DEF Init, PerLine, Lines
<1>2. Table(made) /\ Table(lost)
  BY <1>1 DEF Table
<1>3. net = {} /\ pc = [t \in Threads |-> "idle"]
  BY DEF Init, Server!Init
<1>4. \A c \in Clients : \A i \in Lines(c) : ~ InHand(c, i)
  BY <1>3 DEF InHand, HasWon
<1> QED
  BY <1>1, <1>2, <1>4 DEF Account

\* Whatever leaves the amounts, and what is in hand of lines that are pending.
LEMMA AccountStays ==
  ASSUME Account, UNCHANGED <<made, lost>>,
         \A c \in Clients : \A i \in Lines(c) :
           Pending(c, i)' => Pending(c, i) /\ (InHand(c, i)' <=> InHand(c, i))
  PROVE  Account'
  BY DEF Account, Table, Lines

LEMMA ClientAccounts ==
  ASSUME Clienthood, Delivery, Account, NEW c \in Clients, MainStep(c) \/ DispatcherStep(c)
  PROVE  Account'
<1>1. /\ UNCHANGED server /\ UNCHANGED <<made, lost>>
      /\ \A d \in Clients \ {c} : outcome'[d] = outcome[d]
  BY StepSame DEF MainStep, DispatcherStep, Same, ReadLine, Delete, TestAlive, TestQueue, TakeRequest,
       SendRequest, GiveUp, ReceiveAnswer, AnswerTimeout, Discover, ReceiveLocation,
       LocationTimeout, DiscoveryFails, hist
<1>2. \A t \in Threads : \A d, i : HasWon(t, d, i)' <=> HasWon(t, d, i)
  BY <1>1 DEF server, HasWon
<1>3. ASSUME NEW i \in Lines(c), Pending(c, i)' PROVE Pending(c, i)
  <2>1. CASE ReadLine(c)
    BY <1>3, <2>1 DEF ReadLine, queue_request, Clienthood, Typed, Table, Pending, Lines
  <2>2. CASE outcome' = outcome
    BY <1>3, <2>2 DEF Pending
  <2>3. ASSUME NEW how, how # "pending", EndRequest(c, how), at[c] \in {"send", "wait"}
        PROVE  Pending(c, i)
    BY <1>3, <2>3, EndMeans DEF Pending
  <2> QED
    BY <2>1, <2>2, <2>3 DEF MainStep, DispatcherStep, Delete, TestAlive, TestQueue, TakeRequest,
       SendRequest, GiveUp, ReceiveAnswer, AnswerTimeout, Discover, ReceiveLocation,
       LocationTimeout, DiscoveryFails
<1>4. \A m \in net' \ net : m.type # "ACK"
  <2>1. CASE SendRequest(c)
    <3>1. Datagram(c).type # "ACK"
      BY DEF Datagram, REQ, KIL
    <3> QED
      BY <2>1, <3>1 DEF SendRequest
  <2>2. CASE Discover(c)
    BY <2>2 DEF Discover, DIS
  <2>3. CASE net' \subseteq net
    BY <2>3
  <2> QED
    BY <2>1, <2>2, <2>3 DEF MainStep, DispatcherStep, ReadLine, Delete, TestAlive, TestQueue,
       TakeRequest, GiveUp, ReceiveAnswer, AnswerTimeout, ReceiveLocation, LocationTimeout,
       DiscoveryFails
<1>5. ASSUME NEW m \in net \ net', m.type = "ACK" PROVE ReceiveAnswer(c, m)
  BY <1>5 DEF MainStep, DispatcherStep, ReadLine, Delete, TestAlive, TestQueue, TakeRequest,
       SendRequest, GiveUp, ReceiveAnswer, AnswerTimeout, Discover, ReceiveLocation,
       LocationTimeout, DiscoveryFails
<1>6. ASSUME NEW d \in Clients, NEW i \in Lines(d), NEW m \in net \ net', Reports(m, d, i)
      PROVE  ~ Pending(d, i)'
  <2>1. ReceiveAnswer(c, m) /\ d = c /\ m.result = "SUCCESS"
    BY <1>5, <1>6 DEF Reports, ReceiveAnswer
  <2>2. i = request[c]
    BY <1>6, <2>1, InHandMeans DEF InHand
  <2>3. EndRequest(c, "done") /\ at[c] = "wait"
    BY <2>1 DEF ReceiveAnswer
  <2> QED
    BY <2>1, <2>2, <2>3, EndMeans DEF Pending
<1>7. ASSUME NEW d \in Clients, NEW i \in Lines(d), Pending(d, i)'
      PROVE  Pending(d, i) /\ (InHand(d, i)' <=> InHand(d, i))
  <2>1. Pending(d, i)
    BY <1>1, <1>3, <1>7 DEF Pending
  <2>2. (\E m \in net' : Reports(m, d, i)) <=> (\E m \in net : Reports(m, d, i))
    BY <1>4, <1>6, <1>7 DEF Reports
  <2> QED
    BY <1>2, <2>1, <2>2 DEF InHand, Reports
<1> QED
  BY <1>1, <1>7, AccountStays

\* Tables with the same entries.
LEMMA SameTable ==
  ASSUME NEW f, NEW g, Table(f), Table(g), \A c \in Clients : \A i \in Lines(c) : g[c][i] = f[c][i]
  PROVE  g = f
<1>1. \A c \in Clients : g[c] = f[c]
  BY DEF Table
<1> QED
  BY <1>1 DEF Table

LEMMA TableWith ==
  ASSUME NEW f, NEW g, Table(f), Table(g), NEW c \in Clients, NEW i \in Lines(c), NEW v,
         g[c][i] = v,
         \A d \in Clients : \A j \in Lines(d) : d # c \/ j # i => g[d][j] = f[d][j]
  PROVE  g = [f EXCEPT ![c][i] = v]
<1> DEFINE h == [f EXCEPT ![c][i] = v]
<1>1. h = Entry(f, c, i, v)
  BY DEF Entry
<1> HIDE DEF h
<1>2. /\ Table(h) /\ h[c][i] = v
      /\ \A d \in Clients \ {c} : h[d] = f[d]
      /\ \A j \in Lines(c) \ {i} : h[c][j] = f[c][j]
  BY <1>1, TableEntry
<1>3. \A d \in Clients : \A j \in Lines(d) : g[d][j] = h[d][j]
  BY <1>2
<1>4. g = h
  BY <1>2, <1>3, SameTable
<1> QED
  BY <1>4 DEF h

\* A transaction moves the money of the line whose packet it works on, of
\* which none is in hand.
LEMMA TransactionAccounts ==
  ASSUME Clienthood, Delivery, NEW t \in Threads, Server!Transaction(t)
  PROVE  \A c \in Clients : \A i :
           /\ InHand(c, i)' <=> InHand(c, i) \/ MovesMoney(c, i)
           /\ MovesMoney(c, i) =>
                /\ ~ InHand(c, i) /\ Asking(c) /\ i = request[c] /\ i \in Lines(c)
                /\ Program[c][i].transfer_amount > 0
<1> USE DEF Server!Goto, Server!Result
<1>0. PICK p : p = packet[t]
  OBVIOUS
<1>1. /\ pc[t] = "transaction" /\ UNCHANGED <<net, packet>> /\ Machine
      /\ Job(pc[t], p, result[t]) /\ p.from \in Clients
  BY <1>0 DEF Server!Transaction, Delivery, Worker, Job
<1>2. PICK q : q = Server!Outcome(p.from, p.receiver, p.transfer_amount)
  OBVIOUS
<1>3. PICK k : /\ k \in {"record", "reply"} /\ (q = "SUCCESS" => k = "record")
               /\ pc' = [pc EXCEPT ![t] = k] /\ result' = [result EXCEPT ![t] = q]
  BY <1>0, <1>2 DEF Server!Transaction
<1>4. /\ pc'[t] = k /\ result'[t] = q
      /\ \A u \in Threads \ {t} : pc'[u] = pc[u] /\ result'[u] = result[u]
  BY <1>1, <1>3 DEF Machine
<1>5. /\ Asking(p.from) /\ p.id = request[p.from] /\ p.id \in Lines(p.from)
      /\ p.transfer_amount \in Nat
      /\ p.transfer_amount = Program[p.from][request[p.from]].transfer_amount
      /\ Single(p.from)
  BY <1>1, AskingMeans DEF Job, ReqLabels, Fits, Delivery
<1>6. q = "SUCCESS" => p.transfer_amount > 0
  BY <1>2, <1>5 DEF Server!Outcome
<1>7. \A u \in Threads : pc[u] = "transaction" => result[u] = "VALID"
  BY DEF Delivery, Worker, Job
<1>8. ASSUME NEW c \in Clients, NEW i
      PROVE  /\ MovesMoney(c, i) <=> q = "SUCCESS" /\ p.from = c /\ p.id = i
             /\ HasWon(t, c, i)' <=> MovesMoney(c, i)
             /\ ~ HasWon(t, c, i)
             /\ \A u \in Threads \ {t} : HasWon(u, c, i)' <=> HasWon(u, c, i)
  <2>1. MovesMoney(c, i) <=> q = "SUCCESS" /\ p.from = c /\ p.id = i
    BY <1>0, <1>1, <1>4, <1>7 DEF MovesMoney
  <2> QED
    BY <1>0, <1>1, <1>3, <1>4, <2>1 DEF HasWon
<1>9. ASSUME NEW c \in Clients, NEW i, MovesMoney(c, i)
      PROVE  ~ InHand(c, i)
  <2>1. Works(t, c) /\ Single(c)
    BY <1>0, <1>1, <1>5, <1>8, <1>9 DEF Works
  <2>2. \A u \in Threads : ~ HasWon(u, c, i)
    BY <1>8, <2>1 DEF HasWon, Single, Works
  <2>3. \A m \in net : ~ Reports(m, c, i)
    BY <2>1 DEF Reports, Single, Client
  <2> QED
    BY <2>2, <2>3 DEF InHand
<1>10. ASSUME NEW c \in Clients, NEW i PROVE InHand(c, i)' <=> InHand(c, i) \/ MovesMoney(c, i)
  BY <1>1, <1>8 DEF InHand, Reports
<1> QED
  BY <1>5, <1>6, <1>8, <1>9, <1>10

\* The other steps of a thread do not change what is in hand: the winner's
\* answer takes the place of the winner.
LEMMA ThreadAccounts ==
  ASSUME Delivery, NEW t \in Threads, Server!ThreadStep(t), ~ Server!Transaction(t)
  PROVE  \A c \in Clients : \A i : (InHand(c, i)' <=> InHand(c, i)) /\ ~ MovesMoney(c, i)
<1> USE DEF Server!Goto, Server!Result
<1>1. Machine /\ Worker(t) /\ \A u \in Threads : pc[u] = "transaction" => result[u] = "VALID"
  BY DEF Delivery, Worker, Job
<1>2. /\ pc[t] # "transaction"
      /\ \A u \in Threads \ {t} :
           pc'[u] = pc[u] /\ packet'[u] = packet[u] /\ result'[u] = result[u]
  BY <1>1 DEF Server!ThreadStep, Server!CheckPacket, Server!TakeRecord, Server!Publish,
              Server!Reply, Server!CopyParams, Server!RemoveClient, Server!KillReply,
              Server!Finish, Machine
<1>3. \A c \in Clients : \A i : ~ MovesMoney(c, i)
  BY <1>1, <1>2 DEF MovesMoney
<1>4. ASSUME NEW c \in Clients, NEW i, NEW u \in Threads \ {t}
      PROVE  HasWon(u, c, i)' <=> HasWon(u, c, i)
  BY <1>2 DEF HasWon
<1>5. ASSUME NEW c \in Clients, NEW i, net' = net, HasWon(t, c, i)' <=> HasWon(t, c, i)
      PROVE  InHand(c, i)' <=> InHand(c, i)
  BY <1>4, <1>5 DEF InHand, Reports
<1>6. ASSUME NEW c \in Clients, NEW i, NEW a, net' = net \cup {a}, ~ HasWon(t, c, i)',
             HasWon(t, c, i) <=> Reports(a, c, i)
      PROVE  InHand(c, i)' <=> InHand(c, i)
  BY <1>4, <1>6 DEF InHand, Reports
<1>7. ASSUME NEW c \in Clients, NEW i PROVE InHand(c, i)' <=> InHand(c, i)
  <2>1. CASE Server!CheckPacket(t) \/ Server!CopyParams(t) \/ Server!RemoveClient(t)
    <3>1. net' = net /\ ~ HasWon(t, c, i) /\ ~ HasWon(t, c, i)'
      BY <1>1, <2>1 DEF Server!CheckPacket, Server!CopyParams, Server!RemoveClient, HasWon, Machine,
                        Server!check_packet_status
    <3> QED
      BY <1>5, <3>1
  <2>2. CASE Server!TakeRecord(t) \/ Server!Publish(t)
    <3>1. net' = net /\ (HasWon(t, c, i)' <=> HasWon(t, c, i))
      BY <1>1, <2>2 DEF Server!TakeRecord, Server!Publish, HasWon, Machine
    <3> QED
      BY <1>5, <3>1
  <2>3. CASE Server!Reply(t)
    <3>1. PICK a : a = ACK(packet[t].from, number[t], result[t], packet[t].id)
      OBVIOUS
    <3>2. net' = net \cup {a} /\ pc[t] = "reply" /\ pc'[t] = "idle"
      BY <1>1, <2>3, <3>1, Datagrams DEF Server!Reply, Server!Finish, Machine
    <3>3. ~ HasWon(t, c, i)' /\ (HasWon(t, c, i) <=> Reports(a, c, i))
      BY <3>1, <3>2 DEF HasWon, Reports, ACK
    <3> QED
      BY <1>6, <3>2, <3>3
  <2>4. CASE Server!KillReply(t)
    <3>1. PICK a : a = ACK(packet[t].from, packet[t].seq_num, result[t], 0)
      OBVIOUS
    <3>2. net' = net \cup {a} /\ pc[t] = "kill_reply" /\ pc'[t] = "idle"
      BY <1>1, <2>4, <3>1, Datagrams DEF Server!KillReply, Server!Finish, Machine
    <3>3. result[t] # "SUCCESS"
      BY <1>1, <3>2 DEF Worker, Job, KillVerdict
    <3>4. ~ HasWon(t, c, i)' /\ ~ HasWon(t, c, i) /\ ~ Reports(a, c, i)
      BY <3>1, <3>2, <3>3 DEF HasWon, Reports, ACK
    <3> QED
      BY <1>6, <3>2, <3>4
  <2> QED
    BY <2>1, <2>2, <2>3, <2>4 DEF Server!ThreadStep
<1> QED
  BY <1>3, <1>7

LEMMA OtherAccounts ==
  ASSUME Delivery, Server!GreeterStep \/ \E t \in Threads : Server!Multiplex(t)
  PROVE  \A c \in Clients : \A i : (InHand(c, i)' <=> InHand(c, i)) /\ ~ MovesMoney(c, i)
<1>1. Machine /\ \A u \in Threads : pc[u] = "transaction" => result[u] = "VALID"
  BY DEF Delivery, Worker, Job
<1>2. /\ result' = result
      /\ \A m \in net \ net' : m.type # "ACK"
      /\ \A m \in net' \ net : m.type # "ACK"
  BY DEF Server!GreeterStep, Server!Greet, Server!GreeterAnswer, Server!LOC, Server!Multiplex,
         Server!StartRequest, Server!StartKill, Server!threads
<1>3. \A u \in Threads : \A c \in Clients : \A i : HasWon(u, c, i)' <=> HasWon(u, c, i)
  <2>1. CASE UNCHANGED <<pc, packet>>
    BY <1>2, <2>1 DEF HasWon
  <2>2. ASSUME NEW t \in Threads, NEW m \in net,
               Server!StartRequest(t, m) \/ Server!StartKill(t, m)
        PROVE  \A u \in Threads : \A c \in Clients : \A i : HasWon(u, c, i)' <=> HasWon(u, c, i)
    <3>1. /\ pc[t] = "idle" /\ pc'[t] \in {"check", "params"}
          /\ \A u \in Threads \ {t} : pc'[u] = pc[u] /\ packet'[u] = packet[u]
      BY <1>1, <2>2 DEF Server!StartRequest, Server!StartKill, Machine
    <3> QED
      BY <1>2, <3>1 DEF HasWon
  <2> QED
    BY <2>1, <2>2 DEF Server!GreeterStep, Server!Greet, Server!GreeterAnswer, Server!Multiplex,
                      Server!threads
<1> QED
  BY <1>1, <1>2, <1>3 DEF InHand, Reports, MovesMoney

LEMMA ServerAccounts ==
  ASSUME Clienthood, Delivery, Account, ServerStep
  PROVE  /\ Account'
         /\ \/ UNCHANGED made
            \/ \E c \in Clients : \E i \in Lines(c) :
                 /\ Asking(c) /\ i = request[c] /\ Program[c][i].transfer_amount > 0
                 /\ ~ InHand(c, i)
                 /\ made' = [made EXCEPT ![c][i] = made[c][i] + 1]
<1>1. /\ UNCHANGED <<outcome, lost>>
      /\ made' = [c \in Clients |-> [i \in Lines(c) |->
                    made[c][i] + IF MovesMoney(c, i) THEN 1 ELSE 0]]
  BY DEF ServerStep, Lines
<1>2. Table(made) /\ Table(lost)' /\ \A c \in Clients : \A i \in Lines(c) : made[c][i] \in Nat
  BY <1>1 DEF Account, Table, Lines
<1>3. /\ Table(made')
      /\ \A c \in Clients : \A i \in Lines(c) :
           made'[c][i] = made[c][i] + IF MovesMoney(c, i) THEN 1 ELSE 0
  BY <1>1 DEF Table
<1>4. ASSUME \A c \in Clients : \A i :
               /\ InHand(c, i)' <=> InHand(c, i) \/ MovesMoney(c, i)
               /\ MovesMoney(c, i) => ~ InHand(c, i)
      PROVE  Account'
  <2>1. ASSUME NEW c \in Clients, NEW i \in Lines(c)
        PROVE  /\ made'[c][i] \in Nat /\ lost'[c][i] \in Nat
               /\ Pending(c, i)' => made'[c][i] = lost'[c][i] + (IF InHand(c, i)' THEN 1 ELSE 0)
    <3>1. /\ made[c][i] \in Nat /\ lost[c][i] \in Nat
          /\ Pending(c, i) => made[c][i] = lost[c][i] + (IF InHand(c, i) THEN 1 ELSE 0)
      BY DEF Account
    <3>2. Pending(c, i)' <=> Pending(c, i)
      BY <1>1 DEF Pending
    <3>3. CASE MovesMoney(c, i)
      BY <1>1, <1>3, <1>4, <3>1, <3>2, <3>3
    <3>4. CASE ~ MovesMoney(c, i)
      BY <1>1, <1>3, <1>4, <3>1, <3>2, <3>4
    <3> QED
      BY <3>3, <3>4
  <2> QED
    BY <1>2, <1>3, <2>1 DEF Account, Lines
<1>5. ASSUME NEW t \in Threads, Server!Transaction(t)
      PROVE  /\ Account'
             /\ \/ UNCHANGED made
                \/ \E c \in Clients : \E i \in Lines(c) :
                     /\ Asking(c) /\ i = request[c] /\ Program[c][i].transfer_amount > 0
                     /\ ~ InHand(c, i)
                     /\ made' = [made EXCEPT ![c][i] = made[c][i] + 1]
  <2>1. Account'
    BY <1>4, <1>5, TransactionAccounts
  <2>2. CASE \A c \in Clients : \A i \in Lines(c) : ~ MovesMoney(c, i)
    <3>1. \A c \in Clients : \A i \in Lines(c) : made'[c][i] = made[c][i]
      BY <1>2, <1>3, <2>2
    <3> QED
      BY <1>2, <1>3, <2>1, <3>1, SameTable
  <2>3. ASSUME NEW c \in Clients, NEW i \in Lines(c), MovesMoney(c, i)
        PROVE  /\ Asking(c) /\ i = request[c] /\ Program[c][i].transfer_amount > 0
               /\ ~ InHand(c, i)
               /\ made' = [made EXCEPT ![c][i] = made[c][i] + 1]
    <3>1. /\ Asking(c) /\ i = request[c] /\ Program[c][i].transfer_amount > 0
          /\ ~ InHand(c, i)
      BY <1>5, <2>3, TransactionAccounts
    <3>2. ASSUME NEW d \in Clients, NEW j \in Lines(d), d # c \/ j # i PROVE ~ MovesMoney(d, j)
      BY <1>5, <2>3, <3>2 DEF MovesMoney, Server!Transaction, Server!Result, Server!Goto,
                              Delivery, Worker, Job, Machine
    <3>3. made'[c][i] = made[c][i] + 1
      BY <1>3, <2>3
    <3>4. \A d \in Clients : \A j \in Lines(d) : d # c \/ j # i => made'[d][j] = made[d][j]
      BY <1>2, <1>3, <3>2
    <3> DEFINE v == made[c][i] + 1
    <3> HIDE DEF v
    <3>5. made' = [made EXCEPT ![c][i] = v]
      BY <1>2, <1>3, <3>3, <3>4, TableWith DEF v
    <3> QED
      BY <3>1, <3>5 DEF v
  <2> QED
    BY <2>1, <2>2, <2>3
<1>6. ASSUME \A c \in Clients : \A i : (InHand(c, i)' <=> InHand(c, i)) /\ ~ MovesMoney(c, i)
      PROVE  Account' /\ UNCHANGED made
  <2>1. \A c \in Clients : \A i \in Lines(c) : made'[c][i] = made[c][i]
    BY <1>2, <1>3, <1>6
  <2>2. UNCHANGED made
    BY <1>2, <1>3, <2>1, SameTable
  <2> QED
    BY <1>4, <1>6, <2>2
<1>7. ASSUME NEW t \in Threads, Server!ThreadStep(t), ~ Server!Transaction(t)
      PROVE  Account' /\ UNCHANGED made
  BY <1>6, <1>7, ThreadAccounts
<1>8. CASE Server!GreeterStep \/ \E t \in Threads : Server!Multiplex(t)
  BY <1>6, <1>8, OtherAccounts
<1> QED
  BY <1>5, <1>7, <1>8 DEF ServerStep, Server!ServerStep

\* An answer that is lost was in hand.
LEMMA LoseAccounts ==
  ASSUME Clienthood, Delivery, Account, NEW m \in net, Lose(m)
  PROVE  /\ Account'
         /\ \/ UNCHANGED lost
            \/ \E c \in Clients : \E i \in Lines(c) :
                 /\ Asking(c) /\ i = request[c] /\ InHand(c, i)
                 /\ lost' = [lost EXCEPT ![c][i] = lost[c][i] + 1]
<1>1. UNCHANGED <<server, outcome, made>> /\ net' = net \ {m}
  BY DEF Lose
<1>2. \A t \in Threads : \A c, i : HasWon(t, c, i)' <=> HasWon(t, c, i)
  BY <1>1 DEF server, HasWon
<1>3. CASE m.type = "ACK" /\ m.result = "SUCCESS"
  <2>1. PICK c, i : c = m.to /\ i = m.id
    OBVIOUS
  <2>2. Reports(m, c, i) /\ c \in Clients /\ Client(m) = c
    BY <1>3, <2>1 DEF Reports, Delivery, Belongs, Client
  <2>3. InHand(c, i) /\ Asking(c) /\ i = request[c] /\ i \in Lines(c) /\ Single(c)
    BY <2>2, InHandMeans DEF InHand
  <2>4. ~ InHand(c, i)'
    <3>1. \A n \in net' : ~ Reports(n, c, i)
      BY <1>1, <2>2, <2>3 DEF Single, Reports, Client
    <3>2. \A t \in Threads : ~ HasWon(t, c, i)
      BY <2>2, <2>3 DEF Single, HasWon, Works
    <3> QED
      BY <1>2, <3>1, <3>2 DEF InHand, Reports
  <2>5. \A d, j : d # c \/ j # i => (InHand(d, j)' <=> InHand(d, j))
    BY <1>1, <1>2, <2>2 DEF InHand, Reports
  <2>6. Pending(c, i) /\ lost' = [lost EXCEPT ![c][i] = lost[c][i] + 1]
    BY <1>3, <2>1, <2>2, <2>3, AskingMeans DEF Lose
  <2>7. /\ Table(lost') /\ lost'[c][i] = lost[c][i] + 1
        /\ \A d \in Clients : \A j \in Lines(d) : d # c \/ j # i => lost'[d][j] = lost[d][j]
    <3> DEFINE v == lost[c][i] + 1
    <3> HIDE DEF v
    <3>1. Table(lost) /\ lost' = Entry(lost, c, i, v)
      BY <2>6 DEF Account, Entry, v
    <3>2. /\ Table(lost') /\ lost'[c][i] = v
          /\ \A d \in Clients \ {c} : lost'[d] = lost[d]
          /\ \A j \in Lines(c) \ {i} : lost'[c][j] = lost[c][j]
      BY <2>2, <2>3, <3>1, TableEntry
    <3> QED
      BY <3>2 DEF v
  <2>8. ASSUME NEW d \in Clients, NEW j \in Lines(d)
        PROVE  /\ made'[d][j] \in Nat /\ lost'[d][j] \in Nat
               /\ Pending(d, j)' => made'[d][j] = lost'[d][j] + (IF InHand(d, j)' THEN 1 ELSE 0)
    <3>1. /\ made[d][j] \in Nat /\ lost[d][j] \in Nat
          /\ Pending(d, j) => made[d][j] = lost[d][j] + (IF InHand(d, j) THEN 1 ELSE 0)
      BY DEF Account
    <3>2. (Pending(d, j)' <=> Pending(d, j)) /\ made' = made
      BY <1>1 DEF Pending
    <3>3. CASE d = c /\ j = i
      BY <2>3, <2>4, <2>6, <2>7, <3>1, <3>2, <3>3
    <3>4. CASE d # c \/ j # i
      BY <2>5, <2>7, <3>1, <3>2, <3>4
    <3> QED
      BY <3>3, <3>4
  <2>9. Account'
    BY <1>1, <2>7, <2>8 DEF Account, Table, Lines
  <2> QED
    BY <2>2, <2>3, <2>6, <2>9
<1>4. CASE ~ (m.type = "ACK" /\ m.result = "SUCCESS")
  <2>1. UNCHANGED lost
    BY <1>4 DEF Lose
  <2>2. \A c, i : InHand(c, i)' <=> InHand(c, i)
    BY <1>1, <1>2, <1>4 DEF InHand, Reports
  <2>3. \A c \in Clients : \A i \in Lines(c) : Pending(c, i)' => Pending(c, i)
    BY <1>1 DEF Pending
  <2> QED
    BY <1>1, <2>1, <2>2, <2>3, AccountStays
<1> QED
  BY <1>3, <1>4

LEMMA AccountStep == Clienthood /\ Delivery /\ Account /\ [Next]_vars => Account'
<1> SUFFICES ASSUME Clienthood, Delivery, Account, [Next]_vars PROVE Account'
  OBVIOUS
<1>1. CASE UNCHANGED vars
  <2>1. UNCHANGED <<made, lost, outcome, pc, packet, result, net>>
    BY <1>1 DEF vars, hist, server
  <2>2. \A c, i : InHand(c, i)' <=> InHand(c, i)
    BY <2>1 DEF InHand, HasWon, Reports
  <2> QED
    BY <2>1, <2>2, AccountStays DEF Pending
<1> QED
  BY <1>1, ClientAccounts, ServerAccounts, LoseAccounts DEF Next

LEMMA AccountAlways == Spec => [](Clienthood /\ Delivery /\ Account)
  BY ClienthoodInit, ClienthoodStep, DeliveryInit, DeliveryStep, AccountInit, AccountStep, PTL
     DEF Spec

-----------------------------------------------------------------------------
(* The promise.                                                            *)

LEMMA HasTurnMeans ==
  ASSUME Clienthood, NEW c \in Clients, request[c] > 0
  PROVE  request[c] \in Promise!Lines(c) /\ Promise!HasTurn(c, request[c])
  BY Turn DEF Promise!Lines, Promise!HasTurn, Pending, Lines

LEMMA ClientPromises ==
  ASSUME Clienthood, Delivery, Account, NEW c \in Clients, MainStep(c) \/ DispatcherStep(c)
  PROVE  [Promise!Next]_Promise!vars
<1> USE DEF Promise!Lines, Lines
<1>1. UNCHANGED <<made, lost>>
  BY DEF MainStep, DispatcherStep, ReadLine, Delete, TestAlive, TestQueue, TakeRequest,
         SendRequest, GiveUp, ReceiveAnswer, AnswerTimeout, Discover, ReceiveLocation,
         LocationTimeout, DiscoveryFails, hist
<1>2. CASE UNCHANGED outcome
  BY <1>1, <1>2 DEF Promise!vars
<1>3. CASE ReadLine(c) /\ ~ UNCHANGED outcome
  <2>1. PICK i : i = lines[c] + 1
    OBVIOUS
  <2>2. /\ i \in Lines(c) /\ Program[c][i].type = "ERROR"
        /\ outcome' = [outcome EXCEPT ![c][i] = "refused"]
    BY <1>3, <2>1 DEF ReadLine, queue_request
  <2>3. Promise!Refuse(c, i)
    BY <1>1, <2>2 DEF Promise!Refuse, Promise!Ends
  <2> QED
    BY <2>2, <2>3 DEF Promise!Next
<1>4. CASE GiveUp(c)
  <2>1. at[c] = "send" /\ request[c] > 0 /\ EndRequest(c, "given up")
    BY <1>4 DEF GiveUp, Clienthood, Placed
  <2>2. PICK i : i = request[c]
    OBVIOUS
  <2>3. i \in Lines(c) /\ Promise!HasTurn(c, i) /\ Pending(c, i)
    BY <2>1, <2>2, Turn, HasTurnMeans
  <2>4. ~ InHand(c, i)
    BY <2>1, InHandMeans DEF Asking
  <2>5. made[c][i] = lost[c][i]
    BY <2>3, <2>4 DEF Account
  <2>6. Promise!GiveUp(c, i)
    BY <1>1, <2>1, <2>2, <2>3, <2>5 DEF Promise!GiveUp, Promise!Ends, EndRequest
  <2> QED
    BY <2>3, <2>6 DEF Promise!Next
<1>5. ASSUME NEW m \in net, ReceiveAnswer(c, m), ~ UNCHANGED outcome
      PROVE  [Promise!Next]_Promise!vars
  <2>1. /\ at[c] = "wait" /\ request[c] > 0 /\ EndRequest(c, "done") /\ m.type = "ACK" /\ m.to = c
        /\ m.result \in {"SUCCESS", "BALANCE_CHECK", "KILL"}
    BY <1>5 DEF ReceiveAnswer, Clienthood, Placed
  <2>2. PICK i : i = request[c]
    OBVIOUS
  <2>3. i \in Lines(c) /\ Promise!HasTurn(c, i) /\ Pending(c, i)
    BY <2>1, <2>2, Turn, HasTurnMeans
  <2>4. ASSUME Promise!Transfer(c, i) PROVE made[c][i] > lost[c][i]
    <3>1. ~ Begun(c)
      BY <2>1, <2>2, <2>4, Exclusive DEF Promise!Transfer
    <3>2. Verdict(c, m.result) /\ m.id = i
      BY <2>1, <2>2, <3>1 DEF Delivery, Belongs, Client, Leaving
    <3>3. m.result = "SUCCESS"
      BY <2>1, <2>2, <2>4, <3>2 DEF Verdict, Promise!Transfer
    <3>4. InHand(c, i)
      BY <2>1, <3>2, <3>3 DEF InHand, Reports
    <3> QED
      BY <2>3, <3>4 DEF Account
  <2>5. Promise!Finish(c, i)
    BY <1>1, <2>1, <2>2, <2>3, <2>4 DEF Promise!Finish, Promise!Ends, EndRequest
  <2> QED
    BY <2>3, <2>5 DEF Promise!Next
<1> QED
  BY <1>2, <1>3, <1>4, <1>5 DEF MainStep, DispatcherStep, Delete, TestAlive, TestQueue, TakeRequest,
       SendRequest, AnswerTimeout, Discover, ReceiveLocation, LocationTimeout, DiscoveryFails

LEMMA PromiseStep ==
  Clienthood /\ Delivery /\ Account /\ [Next]_vars => [Promise!Next]_Promise!vars
<1> SUFFICES ASSUME Clienthood, Delivery, Account, [Next]_vars PROVE [Promise!Next]_Promise!vars
  OBVIOUS
<1>1. ASSUME NEW c \in Clients, NEW i \in Lines(c), Asking(c), i = request[c]
      PROVE  /\ i \in Promise!Lines(c) /\ Promise!HasTurn(c, i) /\ Pending(c, i)
             /\ Program[c][i].type = "REQ"
             /\ made[c][i] \in Nat /\ lost[c][i] \in Nat
             /\ made[c][i] = lost[c][i] + (IF InHand(c, i) THEN 1 ELSE 0)
  BY <1>1, AskingMeans, HasTurnMeans DEF Asking, Kind, Account
<1>2. CASE ServerStep
  <2>1. UNCHANGED <<outcome, lost>>
    BY <1>2 DEF ServerStep
  <2>2. CASE UNCHANGED made
    BY <2>1, <2>2 DEF Promise!vars
  <2>3. ASSUME NEW c \in Clients, NEW i \in Lines(c), Asking(c), i = request[c],
               Program[c][i].transfer_amount > 0, ~ InHand(c, i),
               made' = [made EXCEPT ![c][i] = made[c][i] + 1]
        PROVE  Promise!Next
    <3>1. /\ i \in Promise!Lines(c) /\ Promise!HasTurn(c, i) /\ Program[c][i].type = "REQ"
          /\ made[c][i] = lost[c][i]
      BY <1>1, <2>3
    <3>2. Promise!Make(c, i)
      BY <2>1, <2>3, <3>1 DEF Promise!Make, Promise!Transfer
    <3> QED
      BY <3>1, <3>2 DEF Promise!Next
  <2> QED
    BY <1>2, <2>2, <2>3, ServerAccounts
<1>3. ASSUME NEW m \in net, Lose(m) PROVE [Promise!Next]_Promise!vars
  <2>1. UNCHANGED <<outcome, made>>
    BY <1>3 DEF Lose
  <2>2. CASE UNCHANGED lost
    BY <2>1, <2>2 DEF Promise!vars
  <2>3. ASSUME NEW c \in Clients, NEW i \in Lines(c), Asking(c), i = request[c], InHand(c, i),
               lost' = [lost EXCEPT ![c][i] = lost[c][i] + 1]
        PROVE  Promise!Next
    <3>1. /\ i \in Promise!Lines(c) /\ Promise!HasTurn(c, i) /\ lost[c][i] < made[c][i]
      BY <1>1, <2>3
    <3>2. Promise!LoseAnswer(c, i)
      BY <2>1, <2>3, <3>1 DEF Promise!LoseAnswer
    <3> QED
      BY <3>1, <3>2 DEF Promise!Next
  <2> QED
    BY <1>3, <2>2, <2>3, LoseAccounts
<1>4. CASE UNCHANGED vars
  BY <1>4 DEF vars, hist, Promise!vars
<1> QED
  BY <1>2, <1>3, <1>4, ClientPromises DEF Next

\* Retries, discoveries and stale sequence numbers keep the promise of
\* Requests: a transfer is made once, in order, and once more only for each
\* answer to it that was lost.
THEOREM PromiseKept == Spec => RequestsSpec
<1>1. Init => Promise!Init
  BY DEF Init, Promise!Init, Promise!Lines, PerLine
<1> QED
  BY <1>1, AccountAlways, PromiseStep, PTL DEF Spec, RequestsSpec, Promise!Spec

=============================================================================
