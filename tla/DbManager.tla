----------------------------- MODULE DbManager ------------------------------
(***************************************************************************)
(* The account database of a Brix server (DbManager) as its threads use    *)
(* it: the greeter thread registers clients, and one thread per packet     *)
(* reads a record, makes a transaction or removes a client.  A program     *)
(* counter per thread stops at every place where another thread can act:   *)
(* before each lock is taken, between two writes of a record, and at each  *)
(* use of a container that no lock protects.                               *)
(*                                                                         *)
(* Two containers are shared: client_locks (a mutex per client) and        *)
(* database_records.  Structural changes of the first happen under         *)
(* database_access_lock, but unlock_client looks the mutex up without it;  *)
(* the second is changed and searched under client mutexes only, or under  *)
(* no lock at all.  A search that overlaps a structural change may miss an *)
(* entry that is there, and an insertion that overlaps an erasure may be   *)
(* lost; raced records that such an overlap happened.                      *)
(***************************************************************************)
EXTENDS Integers, FiniteSets, Functions

CONSTANTS
  Clients,            \* client addresses
  NoClient,           \* argument of a thread that makes no call
  Threads,            \* the threads of the server that call the database
  Greeter,            \* the one thread that calls register_client
  NoThread,           \* holder of a free mutex
  Amounts,            \* transfer amounts a REQ packet can carry
  STARTING_BALANCE,
  Garbage,            \* content of a freed record
  UINT_RANGE,         \* size of the range of unsigned int
  Ops,                \* operations packets ask for in this instance
  MaxCalls            \* bound on the calls each thread makes, for each thread

ASSUME DbAssumption ==
  /\ Greeter \in Threads
  /\ NoThread \notin Threads
  /\ NoClient \notin Clients
  /\ Amounts \subseteq Nat
  /\ STARTING_BALANCE \in Nat
  /\ Garbage \notin Nat
  /\ UINT_RANGE \in Nat \ {0}
  /\ Ops \subseteq {"info", "transaction", "remove"}
  /\ MaxCalls \in [Threads -> Nat]

VARIABLES
  database_access_lock, \* holder of the database lock
  client_locks,         \* clients that have an entry in client_locks
  mutex,                \* holder of each client's mutex
  database_records,     \* clients that have an entry in database_records
  balance,              \* balance field of each record
  last_request,         \* last_request field of each record
  total_balance,
  total_transferred,
  num_transactions,
  alive,                \* FALSE once an exception no handler catches ends the server
  raced,                \* history: an unsynchronised use overlapped a structural change
  dangling,             \* threads whose pointer to a record outlived the record
  pc,                   \* where each thread is
  sender,               \* client each call is about (sender of a transaction)
  receiver,
  amount,
  reply,                \* db_record_response of each call; from tx_check to
                        \* tx_reply, the record as the call itself left it
  calls                 \* calls each thread has made

locks  == <<database_access_lock, client_locks, mutex>>
db     == <<database_records, balance, last_request>>
meta   == <<total_balance, total_transferred, num_transactions>>
status == <<alive, raced, dangling>>
args   == <<sender, receiver, amount, calls>>
vars   == <<locks, db, meta, status, pc, args, reply>>
quiet  == <<db, meta, alive, dangling, args>>  \* what a step on locks leaves alone

Record(c) == [balance |-> balance[c], last_request |-> last_request[c]]
NoRecord  == [balance |-> 0, last_request |-> 0]
Freed     == [balance |-> Garbage, last_request |-> Garbage]

Response(code, r) ==
  [code |-> code, balance |-> r.balance, last_request |-> r.last_request]

Init ==
  /\ database_access_lock = NoThread
  /\ client_locks = {}
  /\ mutex = [c \in Clients |-> NoThread]
  /\ database_records = {}
  /\ balance = [c \in Clients |-> 0]
  /\ last_request = [c \in Clients |-> 0]
  /\ total_balance = 0 /\ total_transferred = 0 /\ num_transactions = 0
  /\ alive = TRUE
  /\ raced = FALSE /\ dangling = {}
  /\ pc = [t \in Threads |-> "idle"]
  /\ sender = [t \in Threads |-> NoClient]
  /\ receiver = [t \in Threads |-> NoClient]
  /\ amount = [t \in Threads |-> 0]
  /\ reply = [t \in Threads |-> Response("NONE", NoRecord)]
  /\ calls = [t \in Threads |-> 0]

-----------------------------------------------------------------------------
(* The unsynchronised uses of the two containers.                          *)

RecordsChange(t) == pc[t] \in {"reg_insert", "rm_erase"}
RecordsSearch(t) ==
  \/ pc[t] \in {"info_lookup", "tx_peek", "tx_find"}
  \/ pc[t] = "tx_lock_receiver" /\ receiver[t] \notin client_locks
LocksChange(t) ==
  /\ database_access_lock = NoThread
  /\ \/ pc[t] = "rm_erase_lock"
     \/ pc[t] = "reg_insert_lock" /\ sender[t] \notin client_locks
LocksSearch(t) ==
  pc[t] \in {"tx_unlock_sender", "tx_unlock_receiver", "reg_unlock", "rm_unlock"}

RecordsRace(t) ==
  \E u \in Threads \ {t} :
    \/ RecordsChange(u) /\ (RecordsChange(t) \/ RecordsSearch(t))
    \/ RecordsSearch(u) /\ RecordsChange(t)
LocksRace(t) ==
  \E u \in Threads \ {t} :
    (LocksChange(u) /\ LocksSearch(t)) \/ (LocksSearch(u) /\ LocksChange(t))

\* The results a search for c can have: a racing one may miss the entry.
FindRecord(t, c) ==
  {c \in database_records} \cup {found \in {FALSE} : RecordsRace(t)}
FindLock(t, c) ==
  {c \in client_locks} \cup {found \in {FALSE} : LocksRace(t)}

-----------------------------------------------------------------------------
(* Steps shared by the operations.                                         *)

Goto(t, label) == pc' = [pc EXCEPT ![t] = label]
Move(t, from, to) == pc[t] = from /\ Goto(t, to)
Answer(t, code, r) == reply' = [reply EXCEPT ![t] = Response(code, r)]

lock_database(t) == database_access_lock = NoThread /\ database_access_lock' = t
unlock_database == database_access_lock' = NoThread

lock_client(t, c) ==
  /\ c \in client_locks /\ mutex[c] = NoThread
  /\ mutex' = [mutex EXCEPT ![c] = t]
\* When the search misses, unlock_client only logs: the mutex stays locked.
unlock_client(t, c) ==
  /\ \E found \in FindLock(t, c) :
       mutex' = IF found THEN [mutex EXCEPT ![c] = NoThread] ELSE mutex
  /\ UNCHANGED <<database_access_lock, client_locks, quiet, reply>>

\* *sender and insertion_result.first->second, read with no lock held: the
\* record, or whatever is in its memory once it has been freed.
Deref(t) == {Record(sender[t])} \cup {r \in {Freed} : t \in dangling}

-----------------------------------------------------------------------------
(* Calls: the greeter thread registers, packet threads do the rest.        *)

Begin(t, label, from, to, a) ==
  /\ calls[t] < MaxCalls[t]
  /\ Move(t, "idle", label)
  /\ sender' = [sender EXCEPT ![t] = from]
  /\ receiver' = [receiver EXCEPT ![t] = to]
  /\ amount' = [amount EXCEPT ![t] = a]
  /\ calls' = [calls EXCEPT ![t] = @ + 1]
  /\ UNCHANGED <<locks, db, meta, alive, dangling, reply>>

CallRegister(t) ==
  t = Greeter /\ \E c \in Clients : Begin(t, "reg_insert_lock", c, NoClient, 0)
CallInfo(t) ==
  /\ t # Greeter /\ "info" \in Ops
  /\ \E c \in Clients : Begin(t, "info_lookup", c, NoClient, 0)
CallTransaction(t) ==
  /\ t # Greeter /\ "transaction" \in Ops
  /\ \E from, to \in Clients, a \in Amounts : Begin(t, "tx_lock_db", from, to, a)
CallRemove(t) ==
  /\ t # Greeter /\ "remove" \in Ops
  /\ \E c \in Clients : Begin(t, "rm_lock_db", c, NoClient, 0)

Return(t) ==
  /\ Move(t, "done", "idle")
  /\ sender' = [sender EXCEPT ![t] = NoClient]
  /\ receiver' = [receiver EXCEPT ![t] = NoClient]
  /\ amount' = [amount EXCEPT ![t] = 0]
  /\ Answer(t, "NONE", NoRecord)
  /\ dangling' = dangling \ {t}
  /\ UNCHANGED <<locks, db, meta, alive, calls>>

get_client_info(t) ==
  /\ Move(t, "info_lookup", "done")
  /\ \E found \in FindRecord(t, sender[t]) :
       IF found THEN Answer(t, "SUCCESS", Record(sender[t]))
                ELSE Answer(t, "NOT_FOUND", NoRecord)
  /\ UNCHANGED <<locks, quiet>>

-----------------------------------------------------------------------------
(* register_client                                                         *)

\* insert leaves an entry that is already there, and tells so.
RegisterInsertLock(t) ==
  /\ Move(t, "reg_insert_lock", "reg_lock_client")
  /\ lock_database(t)
  /\ client_locks' = client_locks \cup {sender[t]}
  /\ Answer(t, IF sender[t] \in client_locks THEN "DUPLICATE_IP" ELSE "SUCCESS", NoRecord)
  /\ UNCHANGED <<mutex, quiet>>

\* Mutant: the mutex is inserted but not locked.
RegisterLockClient_Unlocked(t) ==
  /\ Move(t, "reg_lock_client", IF reply[t].code = "SUCCESS" THEN "reg_insert" ELSE "done")
  /\ unlock_database
  /\ UNCHANGED <<client_locks, mutex, quiet, reply>>
\* Mutant: mutex_insertion_success is not looked at.
RegisterLockClient_NoDuplicateCheck(t) ==
  /\ Move(t, "reg_lock_client", "reg_insert")
  /\ lock_client(t, sender[t])
  /\ unlock_database
  /\ UNCHANGED <<client_locks, quiet, reply>>

RegisterLockClient(t) ==
  /\ Move(t, "reg_lock_client", IF reply[t].code = "SUCCESS" THEN "reg_insert"
                                                             ELSE "reg_unlock")
  /\ lock_client(t, sender[t])
  /\ unlock_database
  /\ UNCHANGED <<client_locks, quiet, reply>>

\* A racing insertion may be lost.  The failure branch, which destroys the
\* mutex that client_locks points to, is the one that "should never happen".
RegisterInsert(t) ==
  /\ Move(t, "reg_insert", "reg_unlock")
  /\ IF sender[t] \in database_records
       THEN Answer(t, "DUPLICATE_IP", NoRecord) /\ UNCHANGED db
       ELSE /\ UNCHANGED reply
            /\ \/ /\ database_records' = database_records \cup {sender[t]}
                  /\ balance' = [balance EXCEPT ![sender[t]] = STARTING_BALANCE]
                  /\ last_request' = [last_request EXCEPT ![sender[t]] = 0]
               \/ RecordsRace(t) /\ UNCHANGED db
  /\ UNCHANGED <<locks, meta, alive, dangling, args>>

\* Mutant: the client stays locked after DUPLICATE_IP.
RegisterUnlock_NotOnDuplicate(t) ==
  /\ Move(t, "reg_unlock", IF reply[t].code = "SUCCESS" THEN "reg_total" ELSE "done")
  /\ IF reply[t].code = "SUCCESS" THEN unlock_client(t, sender[t])
                                  ELSE UNCHANGED <<locks, quiet, reply>>

RegisterUnlock(t) ==
  /\ Move(t, "reg_unlock", IF reply[t].code = "SUCCESS" THEN "reg_total" ELSE "done")
  /\ unlock_client(t, sender[t])

RegisterTotal(t) ==
  /\ Move(t, "reg_total", "reg_reply")
  /\ database_access_lock = NoThread
  /\ total_balance' = total_balance + STARTING_BALANCE
  /\ UNCHANGED <<locks, db, total_transferred, num_transactions, alive, dangling, args, reply>>

RegisterReply(t) ==
  /\ Move(t, "reg_reply", "done")
  /\ \E r \in Deref(t) : Answer(t, "SUCCESS", r)
  /\ UNCHANGED <<locks, quiet>>

-----------------------------------------------------------------------------
(* make_transaction                                                        *)

TransactionLockDb(t) ==
  /\ Move(t, "tx_lock_db", "tx_lock_sender")
  /\ lock_database(t)
  /\ UNCHANGED <<client_locks, mutex, quiet, reply>>

TransactionUnknownSender(t) ==
  /\ Move(t, "tx_lock_sender", "done")
  /\ sender[t] \notin client_locks
  /\ unlock_database
  /\ Answer(t, "UNKNOWN_SENDER", NoRecord)
  /\ UNCHANGED <<client_locks, mutex, quiet>>

\* Mutant: no check that sender and receiver differ.
MovesMoney_SelfAllowed(t) == amount[t] # 0

MovesMoney(t) == amount[t] # 0 /\ sender[t] # receiver[t]

\* The sender's mutex is taken and released while the database stays locked.
TransactionNothingToMove(t) ==
  /\ Move(t, "tx_lock_sender", "tx_peek")
  /\ ~ MovesMoney(t)
  /\ sender[t] \in client_locks /\ mutex[sender[t]] = NoThread
  /\ unlock_database
  /\ Answer(t, IF amount[t] = 0 THEN "BALANCE_CHECK" ELSE "DUPLICATE_IP", NoRecord)
  /\ UNCHANGED <<client_locks, mutex, quiet>>

\* database_records.at outside the locks and outside any try block.
TransactionPeek(t) ==
  /\ pc[t] = "tx_peek"
  /\ \E found \in FindRecord(t, sender[t]) :
       IF found
         THEN /\ Answer(t, reply[t].code, Record(sender[t]))
              /\ Goto(t, "done") /\ UNCHANGED alive
         ELSE alive' = FALSE /\ UNCHANGED <<pc, reply>>
  /\ UNCHANGED <<locks, db, meta, dangling, args>>

\* Mutant: the sender is not locked.
TransactionLockSender_Shared(t) ==
  /\ Move(t, "tx_lock_sender", "tx_lock_receiver")
  /\ MovesMoney(t) /\ sender[t] \in client_locks
  /\ UNCHANGED <<locks, quiet, reply>>

TransactionLockSender(t) ==
  /\ Move(t, "tx_lock_sender", "tx_lock_receiver")
  /\ MovesMoney(t)
  /\ lock_client(t, sender[t])
  /\ UNCHANGED <<database_access_lock, client_locks, quiet, reply>>

TransactionUnknownReceiver(t) ==
  /\ Move(t, "tx_lock_receiver", "done")
  /\ receiver[t] \notin client_locks
  /\ \E found \in FindRecord(t, sender[t]) :
       Answer(t, "UNKNOWN_RECEIVER", IF found THEN Record(sender[t]) ELSE NoRecord)
  /\ mutex' = [mutex EXCEPT ![sender[t]] = NoThread]
  /\ unlock_database
  /\ UNCHANGED <<client_locks, quiet>>

\* Mutant: the receiver is not locked.
TransactionLockReceiver_Shared(t) ==
  /\ Move(t, "tx_lock_receiver", "tx_find")
  /\ receiver[t] \in client_locks
  /\ unlock_database
  /\ UNCHANGED <<client_locks, mutex, quiet, reply>>

TransactionLockReceiver(t) ==
  /\ Move(t, "tx_lock_receiver", "tx_find")
  /\ lock_client(t, receiver[t])
  /\ unlock_database
  /\ UNCHANGED <<client_locks, quiet, reply>>

TransactionFind(t) ==
  /\ pc[t] = "tx_find"
  /\ \E found_sender \in FindRecord(t, sender[t]),
        found_receiver \in FindRecord(t, receiver[t]) :
       IF found_sender /\ found_receiver
         THEN Goto(t, "tx_check") /\ UNCHANGED reply
         ELSE /\ Goto(t, "tx_unlock_sender")
              /\ IF found_sender THEN Answer(t, "UNKNOWN_RECEIVER", Record(sender[t]))
                                 ELSE Answer(t, "UNKNOWN_SENDER", NoRecord)
  /\ UNCHANGED <<locks, quiet>>

\* Mutant: a transfer of one more than the balance passes.
TransactionCheck_OffByOne(t) ==
  /\ pc[t] = "tx_check"
  /\ last_request' = [last_request EXCEPT ![sender[t]] = @ + 1]
  /\ UNCHANGED <<locks, database_records, balance, meta, alive, dangling, args>>
  /\ IF balance[sender[t]] + 1 < amount[t]
       THEN /\ Answer(t, "INSUFFICIENT_BALANCE", Record(sender[t])')
            /\ Goto(t, "tx_unlock_sender")
       ELSE Goto(t, "tx_debit") /\ UNCHANGED reply

TransactionCheck(t) ==
  /\ pc[t] = "tx_check"
  /\ last_request' = [last_request EXCEPT ![sender[t]] = @ + 1]
  /\ UNCHANGED <<locks, database_records, balance, meta, alive, dangling, args>>
  /\ IF balance[sender[t]] < amount[t]
       THEN /\ Answer(t, "INSUFFICIENT_BALANCE", Record(sender[t])')
            /\ Goto(t, "tx_unlock_sender")
       ELSE Goto(t, "tx_debit") /\ UNCHANGED reply

TransactionDebit(t) ==
  /\ Move(t, "tx_debit", "tx_credit")
  /\ balance' = [balance EXCEPT ![sender[t]] = @ - amount[t]]
  /\ UNCHANGED <<locks, database_records, last_request, meta, alive, dangling, args>>
  /\ Answer(t, "SUCCESS", Record(sender[t])')

TransactionCredit(t) ==
  /\ Move(t, "tx_credit", "tx_unlock_sender")
  /\ balance' = [balance EXCEPT ![receiver[t]] = @ + amount[t]]
  /\ UNCHANGED <<locks, database_records, last_request, meta, alive, dangling, args, reply>>

TransactionUnlockSender(t) ==
  Move(t, "tx_unlock_sender", "tx_unlock_receiver") /\ unlock_client(t, sender[t])

\* Mutant: the receiver stays locked after a failure.
TransactionUnlockReceiver_OnSuccess(t) ==
  IF reply[t].code = "SUCCESS"
    THEN Move(t, "tx_unlock_receiver", "tx_metadata") /\ unlock_client(t, receiver[t])
    ELSE Move(t, "tx_unlock_receiver", "tx_reply") /\ UNCHANGED <<locks, quiet, reply>>

TransactionUnlockReceiver(t) ==
  /\ Move(t, "tx_unlock_receiver", CASE reply[t].code = "SUCCESS" -> "tx_metadata"
                                     [] reply[t].code = "UNKNOWN_SENDER" -> "done"
                                     [] OTHER -> "tx_reply")
  /\ unlock_client(t, receiver[t])

\* total_transferred is an unsigned int.
TransactionMetadata(t) ==
  /\ Move(t, "tx_metadata", "tx_reply")
  /\ total_transferred' = (total_transferred + amount[t]) % UINT_RANGE
  /\ num_transactions' = num_transactions + 1
  /\ UNCHANGED <<locks, db, total_balance, alive, dangling, args, reply>>

TransactionReply(t) ==
  /\ Move(t, "tx_reply", "done")
  /\ \E r \in Deref(t) : Answer(t, reply[t].code, r)
  /\ UNCHANGED <<locks, quiet>>

-----------------------------------------------------------------------------
(* remove_client                                                           *)

RemoveLockDb(t) ==
  /\ Move(t, "rm_lock_db", "rm_lock_client")
  /\ lock_database(t)
  /\ UNCHANGED <<client_locks, mutex, quiet, reply>>

RemoveUnknown(t) ==
  /\ Move(t, "rm_lock_client", "done")
  /\ sender[t] \notin client_locks
  /\ unlock_database
  /\ Answer(t, "NOT_FOUND", NoRecord)
  /\ UNCHANGED <<client_locks, mutex, quiet>>

\* Mutant: the client is not locked.
RemoveLockClient_Unlocked(t) ==
  /\ Move(t, "rm_lock_client", "rm_erase")
  /\ sender[t] \in client_locks
  /\ unlock_database
  /\ UNCHANGED <<client_locks, mutex, quiet, reply>>

RemoveLockClient(t) ==
  /\ Move(t, "rm_lock_client", "rm_erase")
  /\ lock_client(t, sender[t])
  /\ unlock_database
  /\ UNCHANGED <<client_locks, quiet, reply>>

\* Threads that will still read the record they updated.
HoldsPointer(u, c) ==
  /\ sender[u] = c
  /\ pc[u] \in {"tx_unlock_receiver", "tx_metadata", "tx_reply", "reg_total", "reg_reply"}

RemoveErase(t) ==
  /\ pc[t] = "rm_erase"
  /\ \E found \in FindRecord(t, sender[t]) :
       IF found
         THEN /\ Answer(t, "SUCCESS", Record(sender[t]))
              /\ database_records' = database_records \ {sender[t]}
              /\ dangling' = dangling \cup {u \in Threads : HoldsPointer(u, sender[t])}
              /\ Goto(t, "rm_erase_lock")
         ELSE /\ Answer(t, "NOT_FOUND", NoRecord)
              /\ Goto(t, "rm_unlock") /\ UNCHANGED <<database_records, dangling>>
  /\ UNCHANGED <<locks, balance, last_request, meta, alive, args>>

RemoveUnlock(t) == Move(t, "rm_unlock", "done") /\ unlock_client(t, sender[t])

\* The thread waits for the database lock with the client still locked.
RemoveEraseLock(t) ==
  /\ Move(t, "rm_erase_lock", "rm_total")
  /\ database_access_lock = NoThread
  /\ mutex' = [mutex EXCEPT ![sender[t]] = NoThread]
  /\ client_locks' = client_locks \ {sender[t]}
  /\ UNCHANGED <<database_access_lock, quiet, reply>>

\* Mutant: what was added at registration is subtracted.
RemoveTotal_StartingBalance(t) ==
  /\ Move(t, "rm_total", "done")
  /\ database_access_lock = NoThread
  /\ total_balance' = total_balance - STARTING_BALANCE
  /\ UNCHANGED <<locks, db, total_transferred, num_transactions, alive, dangling, args, reply>>

RemoveTotal(t) ==
  /\ Move(t, "rm_total", "done")
  /\ database_access_lock = NoThread
  /\ total_balance' = total_balance - reply[t].balance
  /\ UNCHANGED <<locks, db, total_transferred, num_transactions, alive, dangling, args, reply>>

-----------------------------------------------------------------------------
CallStep(t) ==
  \/ CallRegister(t) \/ CallInfo(t) \/ CallTransaction(t) \/ CallRemove(t)
  \/ get_client_info(t) \/ Return(t)

register_client(t) ==
  \/ RegisterInsertLock(t) \/ RegisterLockClient(t) \/ RegisterInsert(t)
  \/ RegisterUnlock(t) \/ RegisterTotal(t) \/ RegisterReply(t)

make_transaction(t) ==
  \/ TransactionLockDb(t) \/ TransactionUnknownSender(t)
  \/ TransactionNothingToMove(t) \/ TransactionPeek(t)
  \/ TransactionLockSender(t) \/ TransactionUnknownReceiver(t)
  \/ TransactionLockReceiver(t) \/ TransactionFind(t) \/ TransactionCheck(t)
  \/ TransactionDebit(t) \/ TransactionCredit(t) \/ TransactionUnlockSender(t)
  \/ TransactionUnlockReceiver(t) \/ TransactionMetadata(t) \/ TransactionReply(t)

remove_client(t) ==
  \/ RemoveLockDb(t) \/ RemoveUnknown(t) \/ RemoveLockClient(t) \/ RemoveErase(t)
  \/ RemoveUnlock(t) \/ RemoveEraseLock(t) \/ RemoveTotal(t)

Step(t) ==
  /\ alive
  /\ CallStep(t) \/ register_client(t) \/ make_transaction(t) \/ remove_client(t)
  /\ raced' = (raced \/ RecordsRace(t) \/ LocksRace(t))

Next == \E t \in Threads : Step(t)

Spec == Init /\ [][Next]_vars

\* The operating system runs every thread that can run.
FairSpec == Spec /\ \A t \in Threads : WF_vars(Step(t))

-----------------------------------------------------------------------------
(* Properties.                                                             *)

Labels ==
  {"idle", "done", "info_lookup",
   "reg_insert_lock", "reg_lock_client", "reg_insert", "reg_unlock", "reg_total", "reg_reply",
   "tx_lock_db", "tx_lock_sender", "tx_peek", "tx_lock_receiver", "tx_find", "tx_check",
   "tx_debit", "tx_credit", "tx_unlock_sender", "tx_unlock_receiver", "tx_metadata", "tx_reply",
   "rm_lock_db", "rm_lock_client", "rm_erase", "rm_unlock", "rm_erase_lock", "rm_total"}
Codes ==
  {"NONE", "SUCCESS", "DUPLICATE_IP", "INSUFFICIENT_BALANCE", "NOT_FOUND", "UNKNOWN_SENDER",
   "UNKNOWN_RECEIVER", "BALANCE_CHECK"}

\* Every variable has its type; balances never go below zero, as the unsigned
\* fields of client_record require.
TypeOK ==
  /\ database_access_lock \in Threads \cup {NoThread}
  /\ client_locks \subseteq Clients
  /\ mutex \in [Clients -> Threads \cup {NoThread}]
  /\ database_records \subseteq Clients
  /\ balance \in [Clients -> Nat]
  /\ last_request \in [Clients -> Nat]
  /\ total_balance \in Int
  /\ total_transferred \in 0 .. (UINT_RANGE - 1)
  /\ num_transactions \in Nat
  /\ alive \in BOOLEAN
  /\ raced \in BOOLEAN
  /\ dangling \subseteq Threads
  /\ pc \in [Threads -> Labels]
  /\ sender \in [Threads -> Clients \cup {NoClient}]
  /\ receiver \in [Threads -> Clients \cup {NoClient}]
  /\ amount \in [Threads -> Nat]
  /\ reply \in [Threads -> [code : Codes, balance : Nat \cup {Garbage},
                            last_request : Nat \cup {Garbage}]]
  /\ calls \in [Threads -> Nat]

\* The code between taking a lock and releasing it.
HoldsDb(t) ==
  pc[t] \in {"reg_lock_client", "tx_lock_sender", "tx_lock_receiver", "rm_lock_client"}
InTransaction(t) ==
  pc[t] \in {"tx_find", "tx_check", "tx_debit", "tx_credit", "tx_unlock_sender"}
HoldsClient(t, c) ==
  \/ c = sender[t]
     /\ \/ InTransaction(t)
        \/ pc[t] \in {"tx_lock_receiver", "reg_insert", "reg_unlock", "rm_erase",
                      "rm_unlock", "rm_erase_lock"}
  \/ c = receiver[t] /\ (InTransaction(t) \/ pc[t] = "tx_unlock_receiver")

\* A thread inside such a section holds the mutex of the client, and the
\* mutex is the one client_locks still points to: no removal and no second
\* registration destroys or replaces a mutex under the feet of its holder.
HoldsWhatItUses ==
  \A t \in Threads :
    /\ HoldsDb(t) <=> database_access_lock = t
    /\ \A c \in Clients : HoldsClient(t, c) => c \in client_locks /\ mutex[c] = t

\* A locked mutex belongs to a thread that will release it: only the
\* unsynchronised lookup in unlock_client can leave one locked for good.
LocksReleased ==
  ~ raced => \A t \in Threads, c \in Clients : mutex[c] = t => HoldsClient(t, c)

\* The balance that was checked is still there when it is debited, although
\* other transactions with the same sender or receiver run in between.
NoOverdraft ==
  \A t \in Threads : pc[t] = "tx_debit" => amount[t] <= balance[sender[t]]

\* Every record has a mutex, so insertion cannot fail after the mutex insertion
\* succeeded ("should never ever happen").
RecordsHaveLocks ==
  /\ database_records \subseteq client_locks
  /\ \A t \in Threads : pc[t] = "reg_insert" => sender[t] \notin database_records

\* A transaction or removal that got the mutexes finds the records ("this
\* should never fail, since we were able to get the lock"), unless the search
\* overlaps a structural change of the map.
LockedClientsHaveRecords ==
  ~ raced =>
    \A t \in Threads :
      /\ InTransaction(t) => {sender[t], receiver[t]} \subseteq database_records
      /\ pc[t] \in {"tx_lock_receiver", "rm_erase"} => sender[t] \in database_records

\* Where a thread that holds a client's mutex can always take its next step.
Runs(t) ==
  InTransaction(t) \/ pc[t] \in {"tx_unlock_receiver", "reg_insert", "reg_unlock",
                                 "rm_erase", "rm_unlock"}

\* The client a thread waits for while it keeps the database locked.
WaitsFor(t, c) ==
  \/ pc[t] \in {"reg_lock_client", "tx_lock_sender", "rm_lock_client"} /\ c = sender[t]
  \/ pc[t] = "tx_lock_receiver" /\ c = receiver[t]

\* Locking both clients under the database lock makes circular waits between
\* transactions impossible: whoever owns a client the database owner waits for
\* can run, but for a remove_client that locks the database again.
WaitChain ==
  ~ raced =>
    \A t, u \in Threads, c \in Clients :
      WaitsFor(t, c) /\ mutex[c] = u => Runs(u) \/ pc[u] = "rm_erase_lock"

\* The fields of a record are only changed by the thread that holds its mutex.
UpdatedByHolder ==
  [][\A c \in Clients :
       balance'[c] # balance[c] \/ last_request'[c] # last_request[c] =>
         \E t \in Threads : mutex[c] = t /\ pc'[t] # pc[t]]_vars

\* Every call returns as long as no client is removed and no unlock missed its
\* mutex: threads cannot block each other for ever.
Returns ==
  \A t \in Threads : pc[t] # "idle" ~> pc[t] = "idle" \/ raced

\* The balance of c once the transfer under way to c has been credited.
Settled(c) ==
  IF mutex[c] \in Threads /\ pc[mutex[c]] = "tx_credit" /\ receiver[mutex[c]] = c
    THEN balance[c] + amount[mutex[c]]
    ELSE balance[c]

\* Threads that have changed the accounts, or failed to, and not yet the total;
\* and what of the total is not in the accounts because of them.
Late == {t \in Threads : pc[t] \in {"reg_unlock", "reg_total", "rm_erase_lock", "rm_total"}}
Due(t) ==
  CASE pc[t] \in {"rm_erase_lock", "rm_total"} -> reply[t].balance
    [] \/ pc[t] = "reg_total"
       \/ pc[t] = "reg_unlock" /\ reply[t].code = "SUCCESS" -> - STARTING_BALANCE
    [] OTHER -> 0

\* total_balance is the sum of all balances, up to the registrations and
\* removals that have changed the accounts and not yet the total.  It is
\* updated under another lock, long after the records, so every interleaving
\* of transfers with both has to keep the two in step.
AccountsAddUp ==
  ~ raced =>
    total_balance = SumFunctionOnSet([c \in Clients |-> Settled(c)], database_records)
                      + SumFunctionOnSet([t \in Threads |-> Due(t)], Late)

\* Whatever the interleaving, and even when searches go wrong, the accounts
\* behave as if each registration, transfer and removal were one indivisible
\* step of the abstract bank.
Abstract == INSTANCE Bank WITH accounts <- database_records,
                               balance  <- [c \in Clients |-> Settled(c)]
BankSpec == Abstract!Spec

\* remove_client never waits for the database lock while the owner of that
\* lock waits for the client it is removing.  The header lists NOT_FOUND as
\* the only way remove_client fails; this cycle blocks the whole server.
NoLockCycle ==
  \A t, u \in Threads, c \in Clients :
    WaitsFor(t, c) /\ pc[u] = "rm_erase_lock" => mutex[c] # u

\* A transaction answers with "a copy of the sender [...] with the updated
\* balance": the record as its own update left it, not a later one.
RepliesOwnUpdate ==
  [][\A t \in Threads : pc[t] = "tx_reply" /\ pc'[t] = "done" => reply'[t] = reply[t]]_vars

\* make_transaction answers every request, a balance check included: no
\* exception escapes from it.
NoUncaughtException == alive

=============================================================================
