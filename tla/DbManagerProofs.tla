-------------------------- MODULE DbManagerProofs ---------------------------
(***************************************************************************)
(* Proofs about DbManager, for any number of clients, threads and calls.   *)
(***************************************************************************)
EXTENDS DbManager, SumTheorems, TLAPS

TxLabels ==
  {"tx_lock_db", "tx_lock_sender", "tx_peek", "tx_lock_receiver", "tx_find", "tx_check",
   "tx_debit", "tx_credit", "tx_unlock_sender", "tx_unlock_receiver", "tx_metadata", "tx_reply"}

Moving(t) == InTransaction(t) \/ pc[t] \in {"tx_lock_receiver", "tx_unlock_receiver"}

\* The types of the locks and of the arguments, and what the arguments are
\* worth at each label.
Shape ==
  /\ database_access_lock \in Threads \cup {NoThread}
  /\ client_locks \subseteq Clients
  /\ mutex \in [Clients -> Threads \cup {NoThread}]
  /\ pc \in [Threads -> Labels]
  /\ sender \in [Threads -> Clients \cup {NoClient}]
  /\ receiver \in [Threads -> Clients \cup {NoClient}]
  /\ amount \in [Threads -> Nat]
  /\ \A t \in Threads :
       /\ pc[t] # "idle" => sender[t] \in Clients
       /\ pc[t] \in TxLabels => receiver[t] \in Clients /\ amount[t] \in Amounts
       /\ Moving(t) => MovesMoney(t)

LEMMA ShapeInit == Init => Shape
  BY DbAssumption DEF Init, Shape, Labels, TxLabels, Moving, InTransaction

LEMMA ShapeStep == Shape /\ [Next]_vars => Shape'
<1> SUFFICES ASSUME Shape, [Next]_vars PROVE Shape'
  OBVIOUS
<1>1. CASE UNCHANGED vars
  BY <1>1 DEF vars, locks, args, Shape, Moving, InTransaction, MovesMoney
<1>2. ASSUME NEW t \in Threads, Step(t) PROVE Shape'
  <2> USE DbAssumption DEF Shape, Labels, TxLabels, Moving, InTransaction, MovesMoney,
          Move, Goto, locks, args, quiet, lock_database, unlock_database, lock_client
  <2>1. CASE CallStep(t)
    BY <2>1 DEF CallStep, CallRegister, CallInfo, CallTransaction, CallRemove, Begin,
         get_client_info, Return
  <2>2. CASE register_client(t)
    BY <2>2 DEF register_client, RegisterInsertLock, RegisterLockClient, RegisterInsert,
         RegisterUnlock, RegisterTotal, RegisterReply, unlock_client
  <2>3. CASE make_transaction(t)
    BY <2>3 DEF make_transaction, TransactionLockDb, TransactionUnknownSender,
         TransactionNothingToMove, TransactionPeek, TransactionLockSender,
         TransactionUnknownReceiver, TransactionLockReceiver, TransactionFind,
         TransactionCheck, TransactionDebit, TransactionCredit, TransactionUnlockSender,
         TransactionUnlockReceiver, TransactionMetadata, TransactionReply, unlock_client
  <2>4. CASE remove_client(t)
    BY <2>4 DEF remove_client, RemoveLockDb, RemoveUnknown, RemoveLockClient, RemoveErase,
         RemoveUnlock, RemoveEraseLock, RemoveTotal, unlock_client
  <2> QED
    BY <1>2, <2>1, <2>2, <2>3, <2>4 DEF Step
<1> QED
  BY <1>1, <1>2 DEF Next

-----------------------------------------------------------------------------
(* The locks.  A mutex changes hands only when it is free or when its       *)
(* holder releases it, and only remove_client, which holds it, drops it     *)
(* from client_locks.                                                      *)

LEMMA HoldsInit == Init => HoldsWhatItUses
  BY DbAssumption DEF Init, HoldsWhatItUses, HoldsDb, HoldsClient, InTransaction

LEMMA HoldsStep == Shape /\ HoldsWhatItUses /\ [Next]_vars => HoldsWhatItUses'
<1> SUFFICES ASSUME Shape, HoldsWhatItUses, [Next]_vars PROVE HoldsWhatItUses'
  OBVIOUS
<1>1. CASE UNCHANGED vars
  BY <1>1 DEF vars, locks, args, HoldsWhatItUses, HoldsDb, HoldsClient, InTransaction
<1>2. ASSUME NEW t \in Threads, Step(t) PROVE HoldsWhatItUses'
  <2> USE DbAssumption DEF Shape, Labels, TxLabels, Moving, InTransaction, MovesMoney,
          Move, Goto, locks, args, quiet, lock_database, unlock_database, lock_client,
          HoldsWhatItUses, HoldsDb, HoldsClient
  <2>1. CASE CallStep(t)
    BY <2>1 DEF CallStep, CallRegister, CallInfo, CallTransaction, CallRemove, Begin,
         get_client_info, Return
  <2>2. CASE register_client(t)
    BY <2>2 DEF register_client, RegisterInsertLock, RegisterLockClient, RegisterInsert,
         RegisterUnlock, RegisterTotal, RegisterReply, unlock_client
  <2>3. CASE make_transaction(t)
    BY <2>3 DEF make_transaction, TransactionLockDb, TransactionUnknownSender,
         TransactionNothingToMove, TransactionPeek, TransactionLockSender,
         TransactionUnknownReceiver, TransactionLockReceiver, TransactionFind,
         TransactionCheck, TransactionDebit, TransactionCredit, TransactionUnlockSender,
         TransactionUnlockReceiver, TransactionMetadata, TransactionReply, unlock_client
  <2>4. CASE remove_client(t)
    BY <2>4 DEF remove_client, RemoveLockDb, RemoveUnknown, RemoveLockClient, RemoveErase,
         RemoveUnlock, RemoveEraseLock, RemoveTotal, unlock_client
  <2> QED
    BY <1>2, <2>1, <2>2, <2>3, <2>4 DEF Step
<1> QED
  BY <1>1, <1>2 DEF Next

-----------------------------------------------------------------------------
(* The values.  A balance that was checked stays high enough because only   *)
(* the holder of the mutex changes it.                                     *)

Values ==
  /\ database_records \subseteq Clients
  /\ balance \in [Clients -> Nat]
  /\ last_request \in [Clients -> Nat]
  /\ total_balance \in Int
  /\ total_transferred \in 0 .. (UINT_RANGE - 1)
  /\ num_transactions \in Nat
  /\ dangling \subseteq Threads
  /\ reply \in [Threads -> [code : Codes, balance : Nat \cup {Garbage},
                            last_request : Nat \cup {Garbage}]]
  /\ calls \in [Threads -> Nat]
  /\ \A t \in Threads : pc[t] \in {"rm_erase_lock", "rm_total"} => reply[t].balance \in Nat

IInv ==
  /\ Shape
  /\ HoldsWhatItUses
  /\ Values
  /\ NoOverdraft
  /\ alive \in BOOLEAN /\ raced \in BOOLEAN

LEMMA ValuesInit == Init => Values /\ NoOverdraft /\ alive \in BOOLEAN /\ raced \in BOOLEAN
<1> SUFFICES ASSUME Init PROVE Values /\ NoOverdraft /\ alive \in BOOLEAN /\ raced \in BOOLEAN
  OBVIOUS
<1> USE DbAssumption DEF Init
<1>1. Values
  BY DEF Values, Response, NoRecord, Codes
<1>2. NoOverdraft
  BY DEF NoOverdraft
<1>3. alive \in BOOLEAN /\ raced \in BOOLEAN
  OBVIOUS
<1> QED
  BY <1>1, <1>2, <1>3

LEMMA ModuloInRange ==
  ASSUME NEW n \in Nat, NEW m \in Nat \ {0} PROVE n % m \in 0 .. (m - 1)
  OBVIOUS

Contents == [balance : Nat \cup {Garbage}, last_request : Nat \cup {Garbage}]

LEMMA Readable ==
  /\ NoRecord \in Contents
  /\ Values => \A t \in Threads, c \in Clients : Record(c) \in Contents
  /\ Values => \A t \in Threads : sender[t] \in Clients => Deref(t) \subseteq Contents
  BY DEF Values, Contents, Record, NoRecord, Deref, Freed

LEMMA AnswerTyped ==
  ASSUME Values, NEW t \in Threads, NEW code \in Codes, NEW r \in Contents,
         Answer(t, code, r)
  PROVE  /\ reply' \in [Threads -> [code : Codes, balance : Nat \cup {Garbage},
                                    last_request : Nat \cup {Garbage}]]
         /\ reply'[t].balance = r.balance
         /\ \A u \in Threads \ {t} : reply'[u] = reply[u]
  BY DEF Values, Contents, Answer, Response

LEMMA ValuesStep == IInv /\ [Next]_vars => Values' /\ NoOverdraft'
<1> SUFFICES ASSUME IInv, [Next]_vars PROVE Values' /\ NoOverdraft'
  OBVIOUS
<1>1. CASE UNCHANGED vars
  BY <1>1 DEF vars, db, meta, status, args, IInv, Values, NoOverdraft
<1>2. ASSUME NEW t \in Threads, Step(t) PROVE Values' /\ NoOverdraft'
  <2> USE DbAssumption DEF IInv, Shape, Labels, TxLabels, Moving, InTransaction, MovesMoney,
          Move, Goto, Codes, db, meta, args, quiet, Values, NoOverdraft
  <2>0. reply[t].code \in Codes
    OBVIOUS
  <2>1. CASE CallStep(t)
    <3>1. CASE CallRegister(t) \/ CallInfo(t) \/ CallTransaction(t) \/ CallRemove(t)
      <4>1. CASE CallRegister(t)
        BY <4>1 DEF CallRegister, Begin
      <4>2. CASE CallInfo(t)
        BY <4>2 DEF CallInfo, Begin
      <4>3. CASE CallTransaction(t)
        BY <4>3 DEF CallTransaction, Begin
      <4>4. CASE CallRemove(t)
        BY <4>4 DEF CallRemove, Begin
      <4> QED
        BY <3>1, <4>1, <4>2, <4>3, <4>4
    <3>2. CASE get_client_info(t)
      BY <3>2, Readable, AnswerTyped DEF get_client_info
    <3>3. CASE Return(t)
      BY <3>3, Readable, AnswerTyped DEF Return
    <3> QED
      BY <2>1, <3>1, <3>2, <3>3 DEF CallStep
  <2>2. CASE register_client(t)
    <3>1. CASE RegisterInsertLock(t)
      BY <3>1, Readable, AnswerTyped DEF RegisterInsertLock
    <3>2. CASE RegisterLockClient(t)
      BY <3>2 DEF RegisterLockClient
    <3>3. CASE RegisterInsert(t)
      <4>1. HoldsClient(t, sender[t]) /\ sender[t] \in Clients
        BY <3>3 DEF RegisterInsert, HoldsClient
      \* Nobody else is about to debit that client.
      <4>2. \A u \in Threads : pc[u] = "tx_debit" => sender[u] # sender[t]
        BY <3>3, <4>1 DEF RegisterInsert, HoldsWhatItUses, HoldsClient
      <4>3. CASE sender[t] \in database_records
        BY <3>3, <4>3, Readable, AnswerTyped DEF RegisterInsert
      <4>4. CASE sender[t] \notin database_records
        BY <3>3, <4>1, <4>2, <4>4 DEF RegisterInsert
      <4> QED
        BY <4>3, <4>4
    <3>4. CASE RegisterUnlock(t)
      BY <3>4 DEF RegisterUnlock, unlock_client
    <3>5. CASE RegisterTotal(t)
      BY <3>5 DEF RegisterTotal
    <3>6. CASE RegisterReply(t)
      BY <3>6 DEF RegisterReply, Deref, Answer, Response, Record, Freed
    <3> QED
      BY <2>2, <3>1, <3>2, <3>3, <3>4, <3>5, <3>6 DEF register_client
  <2>3. CASE make_transaction(t)
    <3>1. CASE TransactionLockDb(t)
      BY <3>1, Readable, AnswerTyped, ModuloInRange DEF TransactionLockDb
    <3>2. CASE TransactionUnknownSender(t)
      BY <3>2, Readable, AnswerTyped, ModuloInRange DEF TransactionUnknownSender
    <3>3. CASE TransactionNothingToMove(t)
      BY <3>3, Readable, AnswerTyped, ModuloInRange DEF TransactionNothingToMove
    <3>4. CASE TransactionPeek(t)
      <4>1. sender[t] \in Clients /\ Record(sender[t]) \in Contents
        BY <3>4, Readable DEF TransactionPeek
      <4>2. CASE UNCHANGED <<pc, reply>>
        BY <3>4, <4>2 DEF TransactionPeek
      <4>3. CASE Answer(t, reply[t].code, Record(sender[t])) /\ Goto(t, "done")
        BY <2>0, <3>4, <4>1, <4>3, AnswerTyped DEF TransactionPeek
      <4> QED
        BY <3>4, <4>2, <4>3 DEF TransactionPeek
    <3>5. CASE TransactionLockSender(t)
      BY <3>5, Readable, AnswerTyped, ModuloInRange DEF TransactionLockSender
    <3>6. CASE TransactionUnknownReceiver(t)
      BY <3>6, Readable, AnswerTyped, ModuloInRange DEF TransactionUnknownReceiver
    <3>7. CASE TransactionLockReceiver(t)
      BY <3>7, Readable, AnswerTyped, ModuloInRange DEF TransactionLockReceiver
    <3>8. CASE TransactionFind(t)
      <4>1. sender[t] \in Clients /\ Record(sender[t]) \in Contents
        BY <3>8, Readable DEF TransactionFind
      <4>2. CASE Goto(t, "tx_check") /\ UNCHANGED reply
        BY <3>8, <4>2 DEF TransactionFind
      <4>3. CASE /\ Goto(t, "tx_unlock_sender")
                 /\ \/ Answer(t, "UNKNOWN_RECEIVER", Record(sender[t]))
                    \/ Answer(t, "UNKNOWN_SENDER", NoRecord)
        BY <3>8, <4>1, <4>3, Readable, AnswerTyped DEF TransactionFind
      <4> QED
        BY <3>8, <4>2, <4>3 DEF TransactionFind
    <3>9. CASE TransactionCheck(t)
      <4>1. sender[t] \in Clients /\ last_request' \in [Clients -> Nat]
        BY <3>9 DEF TransactionCheck
      <4>2. Record(sender[t])' \in Contents
        BY <3>9, <4>1 DEF TransactionCheck, Record, Contents
      <4>3. CASE balance[sender[t]] < amount[t]
        <5>1. Answer(t, "INSUFFICIENT_BALANCE", Record(sender[t])')
          BY <3>9, <4>3 DEF TransactionCheck
        <5>2. reply' \in [Threads -> [code : Codes, balance : Nat \cup {Garbage},
                                      last_request : Nat \cup {Garbage}]]
              /\ \A u \in Threads \ {t} : reply'[u] = reply[u]
          BY <4>2, <5>1, AnswerTyped
        <5>3. pc' = [pc EXCEPT ![t] = "tx_unlock_sender"]
          BY <3>9, <4>3 DEF TransactionCheck
        <5> QED
          BY <3>9, <4>1, <5>2, <5>3 DEF TransactionCheck
      <4>4. CASE ~ (balance[sender[t]] < amount[t])
        BY <3>9, <4>1, <4>4 DEF TransactionCheck
      <4> QED
        BY <4>3, <4>4
    <3>10. CASE TransactionDebit(t)
      <4>1. sender[t] \in Clients /\ balance' \in [Clients -> Nat]
        BY <3>10 DEF TransactionDebit
      <4>2. Record(sender[t])' \in Contents
        BY <3>10, <4>1 DEF TransactionDebit, Record, Contents
      <4>3. Values'
        BY <3>10, <4>1, <4>2, AnswerTyped DEF TransactionDebit
      <4>4. \A u \in Threads \ {t} : pc[u] = "tx_debit" => sender[u] # sender[t]
        BY <3>10 DEF TransactionDebit, HoldsWhatItUses, HoldsClient
      <4> QED
        BY <3>10, <4>3, <4>4 DEF TransactionDebit
    <3>11. CASE TransactionCredit(t)
      BY <3>11, Readable, AnswerTyped, ModuloInRange DEF TransactionCredit
    <3>12. CASE TransactionUnlockSender(t)
      BY <3>12, Readable, AnswerTyped, ModuloInRange DEF TransactionUnlockSender, unlock_client
    <3>13. CASE TransactionUnlockReceiver(t)
      BY <3>13, Readable, AnswerTyped, ModuloInRange DEF TransactionUnlockReceiver, unlock_client
    <3>14. CASE TransactionMetadata(t)
      BY <3>14, Readable, AnswerTyped, ModuloInRange DEF TransactionMetadata
    <3>15. CASE TransactionReply(t)
      <4>1. PICK r \in Deref(t) : Answer(t, reply[t].code, r)
        BY <3>15 DEF TransactionReply
      <4>2. r \in Contents
        BY <3>15, <4>1, Readable DEF TransactionReply
      <4> QED
        BY <2>0, <3>15, <4>1, <4>2, AnswerTyped DEF TransactionReply
    <3> QED
      BY <2>3, <3>1, <3>2, <3>3, <3>4, <3>5, <3>6, <3>7, <3>8, <3>9, <3>10, <3>11, <3>12, <3>13, <3>14, <3>15 DEF make_transaction
  <2>4. CASE remove_client(t)
    <3>1. CASE RemoveLockDb(t)
      BY <3>1, Readable, AnswerTyped, ModuloInRange DEF RemoveLockDb
    <3>2. CASE RemoveUnknown(t)
      BY <3>2, Readable, AnswerTyped, ModuloInRange DEF RemoveUnknown
    <3>3. CASE RemoveLockClient(t)
      BY <3>3, Readable, AnswerTyped, ModuloInRange DEF RemoveLockClient
    <3>4. CASE RemoveErase(t)
      <4>1. sender[t] \in Clients /\ Record(sender[t]) \in Contents
        BY <3>4, Readable DEF RemoveErase
      <4>2. Record(sender[t]).balance \in Nat
        BY <4>1 DEF Record
      <4>3. CASE Answer(t, "SUCCESS", Record(sender[t])) /\ Goto(t, "rm_erase_lock")
        BY <3>4, <4>1, <4>2, <4>3, AnswerTyped DEF RemoveErase
      <4>4. CASE Answer(t, "NOT_FOUND", NoRecord) /\ Goto(t, "rm_unlock")
        BY <3>4, <4>4, Readable, AnswerTyped DEF RemoveErase
      <4> QED
        BY <3>4, <4>3, <4>4 DEF RemoveErase
    <3>5. CASE RemoveUnlock(t)
      BY <3>5, Readable, AnswerTyped, ModuloInRange DEF RemoveUnlock, unlock_client
    <3>6. CASE RemoveEraseLock(t)
      BY <3>6, Readable, AnswerTyped, ModuloInRange DEF RemoveEraseLock
    <3>7. CASE RemoveTotal(t)
      BY <3>7, Readable, AnswerTyped, ModuloInRange DEF RemoveTotal
    <3> QED
      BY <2>4, <3>1, <3>2, <3>3, <3>4, <3>5, <3>6, <3>7 DEF remove_client
  <2> QED
    BY <1>2, <2>1, <2>2, <2>3, <2>4 DEF Step
<1> QED
  BY <1>1, <1>2 DEF Next

-----------------------------------------------------------------------------
(* The inductive invariant and what follows from it.                       *)

LEMMA Inductive == Spec => []IInv
<1>1. Init => IInv
  BY ShapeInit, HoldsInit, ValuesInit DEF IInv
<1>2. IInv /\ [Next]_vars => IInv'
  <2> SUFFICES ASSUME IInv, [Next]_vars PROVE IInv'
    OBVIOUS
  <2>1. Shape' /\ HoldsWhatItUses' /\ Values' /\ NoOverdraft'
    BY ShapeStep, HoldsStep, ValuesStep DEF IInv
  <2>2. raced' \in BOOLEAN
    BY DEF IInv, Next, Step, vars, status, RecordsRace, LocksRace
  <2>3. alive' \in BOOLEAN
    <3>1. CASE UNCHANGED vars
      BY <3>1 DEF IInv, vars, status
    <3>2. ASSUME NEW t \in Threads, Step(t) PROVE alive' \in BOOLEAN
      BY <3>2 DEF IInv, Step, quiet, CallStep, CallRegister, CallInfo, CallTransaction,
           CallRemove, Begin, get_client_info, Return, register_client, RegisterInsertLock,
           RegisterLockClient, RegisterInsert, RegisterUnlock, RegisterTotal, RegisterReply,
           make_transaction, TransactionLockDb, TransactionUnknownSender,
           TransactionNothingToMove, TransactionPeek, TransactionLockSender,
           TransactionUnknownReceiver, TransactionLockReceiver, TransactionFind,
           TransactionCheck, TransactionDebit, TransactionCredit, TransactionUnlockSender,
           TransactionUnlockReceiver, TransactionMetadata, TransactionReply,
           remove_client, RemoveLockDb, RemoveUnknown, RemoveLockClient, RemoveErase,
           RemoveUnlock, RemoveEraseLock, RemoveTotal, unlock_client
    <3> QED
      BY <3>1, <3>2 DEF Next
  <2> QED
    BY <2>1, <2>2, <2>3 DEF IInv
<1> QED
  BY <1>1, <1>2, PTL DEF Spec

\* Every variable keeps its type: in particular no balance is ever negative,
\* which in the unsigned fields of client_record would be a wrap-around.
THEOREM TypeCorrect == Spec => []TypeOK
<1>1. IInv => TypeOK
  BY DEF IInv, Shape, Values, TypeOK
<1> QED
  BY <1>1, Inductive, PTL

\* A thread between lock and unlock holds the mutex client_locks points to.
THEOREM MutexesAreHeld == Spec => []HoldsWhatItUses
<1>1. IInv => HoldsWhatItUses
  BY DEF IInv
<1> QED
  BY <1>1, Inductive, PTL

\* The balance make_transaction checked is still there when it debits it.
THEOREM NoOverdraftEver == Spec => []NoOverdraft
<1>1. IInv => NoOverdraft
  BY DEF IInv
<1> QED
  BY <1>1, Inductive, PTL

-----------------------------------------------------------------------------
(* Mutexes are released.  unlock_client misses its mutex only when the      *)
(* lookup races a change of client_locks.                                  *)

LEMMA UnlockFinds ==
  ASSUME NEW t \in Threads, NEW c \in client_locks, ~ LocksRace(t), unlock_client(t, c)
  PROVE  mutex' = [mutex EXCEPT ![c] = NoThread]
<1>1. \A found \in FindLock(t, c) : found
  BY DEF FindLock
<1> QED
  BY <1>1 DEF unlock_client

LEMMA ReleasedStep == IInv /\ LocksReleased /\ [Next]_vars => LocksReleased'
<1> SUFFICES ASSUME IInv, LocksReleased, [Next]_vars, ~ raced' PROVE LocksReleased'
  BY DEF LocksReleased
<1>1. CASE UNCHANGED vars
  BY <1>1 DEF vars, locks, args, status, LocksReleased, HoldsClient, InTransaction
<1>2. ASSUME NEW t \in Threads, Step(t) PROVE LocksReleased'
  <2>0. ~ raced /\ ~ LocksRace(t)
    BY <1>2 DEF Step
  <2> USE DbAssumption DEF IInv, Shape, Labels, TxLabels, Moving, InTransaction, MovesMoney,
          Move, Goto, locks, db, args, quiet, lock_database, unlock_database, lock_client,
          LocksReleased, HoldsWhatItUses, HoldsClient
  <2>u. \A c : unlock_client(t, c) => UNCHANGED <<client_locks, quiet>>
    BY DEF unlock_client
  <2>1. CASE CallStep(t)
    BY <2>1, <2>0, <2>u, UnlockFinds DEF CallStep, CallRegister, CallInfo, CallTransaction, CallRemove, Begin,
         get_client_info, Return
  <2>2. CASE register_client(t)
    BY <2>2, <2>0, <2>u, UnlockFinds DEF register_client, RegisterInsertLock, RegisterLockClient, RegisterInsert,
         RegisterUnlock, RegisterTotal, RegisterReply
  <2>3. CASE make_transaction(t)
    BY <2>3, <2>0, <2>u, UnlockFinds DEF make_transaction, TransactionLockDb, TransactionUnknownSender,
         TransactionNothingToMove, TransactionPeek, TransactionLockSender,
         TransactionUnknownReceiver, TransactionLockReceiver, TransactionFind,
         TransactionCheck, TransactionDebit, TransactionCredit, TransactionUnlockSender,
         TransactionUnlockReceiver, TransactionMetadata, TransactionReply
  <2>4. CASE remove_client(t)
    BY <2>4, <2>0, <2>u, UnlockFinds DEF remove_client, RemoveLockDb, RemoveUnknown, RemoveLockClient, RemoveErase,
         RemoveUnlock, RemoveEraseLock, RemoveTotal
  <2> QED
    BY <1>2, <2>1, <2>2, <2>3, <2>4 DEF Step
<1> QED
  BY <1>1, <1>2 DEF Next

\* No call returns with a mutex locked, and no mutex is locked by a thread
\* outside its critical section, unless an unlock raced a structural change.
THEOREM MutexesAreReleased == Spec => []LocksReleased
<1>1. Init => LocksReleased
  BY DbAssumption DEF Init, LocksReleased
<1> QED
  BY <1>1, ReleasedStep, Inductive, PTL DEF Spec

\* Transactions and registrations never wait for each other in a circle: the
\* owner of the database lock waits for a thread that can run, or for a removal.
THEOREM NoWaitingInCircles == Spec => []WaitChain
<1>1. IInv /\ LocksReleased => WaitChain
  BY DbAssumption DEF IInv, Shape, LocksReleased, WaitChain, WaitsFor, Runs, HoldsWhatItUses,
     HoldsDb, HoldsClient, InTransaction, Moving, MovesMoney
<1> QED
  BY <1>1, Inductive, MutexesAreReleased, PTL

\* A record changes only by a step of the thread that holds its mutex.
THEOREM RecordsAreGuarded == Spec => UpdatedByHolder
<1> DEFINE Guarded ==
      \A c \in Clients :
        balance'[c] # balance[c] \/ last_request'[c] # last_request[c] =>
          \E t \in Threads : mutex[c] = t /\ pc'[t] # pc[t]
<1>1. IInv /\ UNCHANGED vars => [Guarded]_vars
  OBVIOUS
<1>2. ASSUME IInv, NEW t \in Threads, Step(t) PROVE Guarded
  <2> USE <1>2, DbAssumption DEF IInv, Shape, Labels, TxLabels, Moving, InTransaction, MovesMoney,
          Move, Goto, locks, db, args, quiet, lock_database, unlock_database, lock_client,
          HoldsWhatItUses, HoldsClient, Values
  <2>1. CASE CallStep(t)
    BY <2>1 DEF CallStep, CallRegister, CallInfo, CallTransaction, CallRemove, Begin,
         get_client_info, Return
  <2>2. CASE register_client(t)
    BY <2>2 DEF register_client, RegisterInsertLock, RegisterLockClient, RegisterInsert,
         RegisterUnlock, RegisterTotal, RegisterReply, unlock_client
  <2>3. CASE make_transaction(t)
    BY <2>3 DEF make_transaction, TransactionLockDb, TransactionUnknownSender,
         TransactionNothingToMove, TransactionPeek, TransactionLockSender,
         TransactionUnknownReceiver, TransactionLockReceiver, TransactionFind,
         TransactionCheck, TransactionDebit, TransactionCredit, TransactionUnlockSender,
         TransactionUnlockReceiver, TransactionMetadata, TransactionReply, unlock_client
  <2>4. CASE remove_client(t)
    BY <2>4 DEF remove_client, RemoveLockDb, RemoveUnknown, RemoveLockClient, RemoveErase,
         RemoveUnlock, RemoveEraseLock, RemoveTotal, unlock_client
  <2> QED
    BY <1>2, <2>1, <2>2, <2>3, <2>4 DEF Step
<1>3. IInv /\ [Next]_vars => [Guarded]_vars
  BY <1>1, <1>2 DEF Next
<1> QED
  BY <1>3, Inductive, PTL DEF Spec, UpdatedByHolder

-----------------------------------------------------------------------------
(* Mutexes and records go together.  The mutex is created first and dropped *)
(* last, so a mutex without a record belongs to a registration or removal   *)
(* that is not over.                                                       *)

\* A registration that inserted the mutex and has not inserted the record.
Opening(t) ==
  \/ pc[t] = "reg_lock_client" /\ reply[t].code = "SUCCESS"
  \/ pc[t] = "reg_insert"

RecordsInv ==
  /\ database_records \subseteq client_locks
  /\ \A c \in Clients \ client_locks : mutex[c] = NoThread
  /\ \A t \in Threads :
       /\ Opening(t) => sender[t] \in client_locks \ database_records
       /\ pc[t] = "reg_lock_client" /\ Opening(t) => mutex[sender[t]] = NoThread
       /\ pc[t] = "rm_erase_lock" => sender[t] \notin database_records

LEMMA RecordsStep == IInv /\ RecordsInv /\ [Next]_vars => RecordsInv'
<1> SUFFICES ASSUME IInv, RecordsInv, [Next]_vars PROVE RecordsInv'
  OBVIOUS
<1>1. CASE UNCHANGED vars
  BY <1>1 DEF vars, locks, db, args, RecordsInv, Opening
<1>2. ASSUME NEW t \in Threads, Step(t) PROVE RecordsInv'
  <2> USE DbAssumption DEF IInv, Shape, Labels, TxLabels, Moving, InTransaction, MovesMoney,
          Move, Goto, Answer, Response, locks, db, args, quiet, lock_database,
          unlock_database, lock_client, Values,
          RecordsInv, Opening, HoldsWhatItUses, HoldsDb, HoldsClient
  <2>1. CASE CallStep(t)
    <3>1. CASE CallRegister(t) \/ CallInfo(t) \/ CallTransaction(t) \/ CallRemove(t)
      <4>1. CASE CallRegister(t)
        BY <4>1 DEF CallRegister, Begin
      <4>2. CASE CallInfo(t)
        BY <4>2 DEF CallInfo, Begin
      <4>3. CASE CallTransaction(t)
        BY <4>3 DEF CallTransaction, Begin
      <4>4. CASE CallRemove(t)
        BY <4>4 DEF CallRemove, Begin
      <4> QED
        BY <3>1, <4>1, <4>2, <4>3, <4>4
    <3>2. CASE get_client_info(t)
      <4>1. \A u \in Threads \ {t} : reply'[u] = reply[u]
        BY <3>2 DEF get_client_info
      <4> QED
        BY <3>2, <4>1 DEF get_client_info
    <3>3. CASE Return(t)
      BY <3>3 DEF Return
    <3> QED
      BY <2>1, <3>1, <3>2, <3>3 DEF CallStep
  <2>2. CASE register_client(t)
    BY <2>2 DEF register_client, RegisterInsertLock, RegisterLockClient, RegisterInsert,
         RegisterUnlock, RegisterTotal, RegisterReply, unlock_client
  <2>3. CASE make_transaction(t)
    BY <2>3 DEF make_transaction, TransactionLockDb, TransactionUnknownSender,
         TransactionNothingToMove, TransactionPeek, TransactionLockSender,
         TransactionUnknownReceiver, TransactionLockReceiver, TransactionFind,
         TransactionCheck, TransactionDebit, TransactionCredit, TransactionUnlockSender,
         TransactionUnlockReceiver, TransactionMetadata, TransactionReply, unlock_client
  <2>4. CASE remove_client(t)
    BY <2>4 DEF remove_client, RemoveLockDb, RemoveUnknown, RemoveLockClient, RemoveErase,
         RemoveUnlock, RemoveEraseLock, RemoveTotal, unlock_client
  <2> QED
    BY <1>2, <2>1, <2>2, <2>3, <2>4 DEF Step
<1> QED
  BY <1>1, <1>2 DEF Next

LEMMA RecordsAlways == Spec => []RecordsInv
<1>1. Init => RecordsInv
  BY DbAssumption DEF Init, RecordsInv, Opening
<1> QED
  BY <1>1, RecordsStep, Inductive, PTL DEF Spec

\* Inserting the record cannot fail once inserting the mutex succeeded: the
\* branch of register_client that "should never ever happen" is dead.
THEOREM RecordsAlwaysHaveLocks == Spec => []RecordsHaveLocks
<1>1. RecordsInv => RecordsHaveLocks
  BY DEF RecordsInv, Opening, RecordsHaveLocks
<1> QED
  BY <1>1, RecordsAlways, PTL

\* Without races, a mutex without a record belongs to such a thread.
RecordsFound ==
  ~ raced =>
    \A c \in client_locks \ database_records :
      \E t \in Threads : sender[t] = c /\ (Opening(t) \/ pc[t] = "rm_erase_lock")

LEMMA FoundStep == IInv /\ RecordsFound /\ [Next]_vars => RecordsFound'
<1> SUFFICES ASSUME IInv, RecordsFound, [Next]_vars, ~ raced' PROVE RecordsFound'
  BY DEF RecordsFound
<1>1. CASE UNCHANGED vars
  BY <1>1 DEF vars, locks, db, args, status, RecordsFound, Opening
<1>2. ASSUME NEW t \in Threads, Step(t) PROVE RecordsFound'
  <2>0. ~ raced /\ ~ RecordsRace(t)
    BY <1>2 DEF Step
  <2>b. \A c : FindRecord(t, c) = {c \in database_records}
    BY <2>0 DEF FindRecord
  <2> USE DbAssumption DEF IInv, Shape, Labels, TxLabels, Moving, InTransaction, MovesMoney,
          Move, Goto, Answer, Response, locks, db, args, quiet, lock_database,
          unlock_database, lock_client, Values,
          RecordsFound, Opening
  <2>1. CASE CallStep(t) \/ make_transaction(t)
    <3>1. ~ Opening(t) /\ pc[t] # "rm_erase_lock"
      BY <2>1 DEF CallStep, CallRegister, CallInfo, CallTransaction, CallRemove, Begin,
           get_client_info, Return,
           make_transaction, TransactionLockDb, TransactionUnknownSender,
           TransactionNothingToMove, TransactionPeek, TransactionLockSender,
           TransactionUnknownReceiver, TransactionLockReceiver, TransactionFind,
           TransactionCheck, TransactionDebit, TransactionCredit, TransactionUnlockSender,
           TransactionUnlockReceiver, TransactionMetadata, TransactionReply, unlock_client
    <3>2. UNCHANGED <<client_locks, database_records>>
      BY <2>1 DEF CallStep, CallRegister, CallInfo, CallTransaction, CallRemove, Begin,
           get_client_info, Return,
           make_transaction, TransactionLockDb, TransactionUnknownSender,
           TransactionNothingToMove, TransactionPeek, TransactionLockSender,
           TransactionUnknownReceiver, TransactionLockReceiver, TransactionFind,
           TransactionCheck, TransactionDebit, TransactionCredit, TransactionUnlockSender,
           TransactionUnlockReceiver, TransactionMetadata, TransactionReply, unlock_client
    <3>3. \A u \in Threads \ {t} : /\ pc'[u] = pc[u] /\ sender'[u] = sender[u]
                                   /\ reply'[u] = reply[u]
      BY <2>1 DEF CallStep, CallRegister, CallInfo, CallTransaction, CallRemove, Begin,
           get_client_info, Return,
           make_transaction, TransactionLockDb, TransactionUnknownSender,
           TransactionNothingToMove, TransactionPeek, TransactionLockSender,
           TransactionUnknownReceiver, TransactionLockReceiver, TransactionFind,
           TransactionCheck, TransactionDebit, TransactionCredit, TransactionUnlockSender,
           TransactionUnlockReceiver, TransactionMetadata, TransactionReply, unlock_client
    <3> QED
      BY <2>0, <3>1, <3>2, <3>3
  <2>2. CASE register_client(t)
    <3>1. \A u \in Threads \ {t} : /\ pc'[u] = pc[u] /\ sender'[u] = sender[u]
                                   /\ reply'[u] = reply[u]
      BY <2>2 DEF register_client, RegisterInsertLock, RegisterLockClient, RegisterInsert,
           RegisterUnlock, RegisterTotal, RegisterReply, unlock_client
    <3>2. CASE RegisterInsertLock(t)
      BY <2>0, <3>1, <3>2 DEF RegisterInsertLock
    <3>3. CASE RegisterLockClient(t)
      BY <2>0, <3>1, <3>3 DEF RegisterLockClient
    <3>4. CASE RegisterInsert(t)
      BY <2>0, <3>1, <3>4 DEF RegisterInsert
    <3>5. CASE RegisterUnlock(t) \/ RegisterTotal(t) \/ RegisterReply(t)
      BY <2>0, <3>1, <3>5 DEF RegisterUnlock, RegisterTotal, RegisterReply, unlock_client
    <3> QED
      BY <2>2, <3>2, <3>3, <3>4, <3>5 DEF register_client
  <2>3. CASE remove_client(t)
    BY <2>3, <2>0, <2>b DEF remove_client, RemoveLockDb, RemoveUnknown, RemoveLockClient, RemoveErase,
         RemoveUnlock, RemoveEraseLock, RemoveTotal, unlock_client
  <2> QED
    BY <1>2, <2>1, <2>2, <2>3 DEF Step
<1> QED
  BY <1>1, <1>2 DEF Next

\* A transaction or a removal that got the mutexes finds the records: the
\* lookups that "should never fail" fail only when they race an insertion or
\* an erasure.
THEOREM LookupsSucceed == Spec => []LockedClientsHaveRecords
<1>1. Init => RecordsFound
  BY DEF Init, RecordsFound
<1>2. Spec => []RecordsFound
  BY <1>1, FoundStep, Inductive, PTL DEF Spec
<1>3. IInv /\ RecordsInv /\ RecordsFound => LockedClientsHaveRecords
  <2> SUFFICES ASSUME IInv, RecordsInv, RecordsFound, ~ raced,
                      NEW t \in Threads, NEW c \in Clients, HoldsClient(t, c),
                      pc[t] \notin {"reg_insert", "reg_unlock", "rm_unlock", "rm_erase_lock",
                                    "tx_unlock_receiver"}
               PROVE  c \in database_records
    BY DEF IInv, Shape, TxLabels, InTransaction, HoldsClient, LockedClientsHaveRecords
  <2>1. c \in client_locks /\ mutex[c] = t
    BY DEF IInv, HoldsWhatItUses
  <2>2. SUFFICES ASSUME NEW u \in Threads, sender[u] = c,
                        Opening(u) \/ pc[u] = "rm_erase_lock"
                 PROVE  FALSE
    BY <2>1 DEF RecordsFound
  <2> QED
    BY <2>1, <2>2, DbAssumption DEF IInv, RecordsInv, Opening, HoldsWhatItUses, HoldsClient,
       InTransaction
<1> QED
  BY <1>2, <1>3, Inductive, RecordsAlways, PTL

-----------------------------------------------------------------------------
(* DbManager implements Bank.                                              *)

\* The records make_transaction points to stay in the map while it uses them.
Uses(t, c) ==
  pc[t] \in {"tx_check", "tx_debit", "tx_credit"} /\ c \in {sender[t], receiver[t]}
Pointers == \A t \in Threads, c \in Clients : Uses(t, c) => c \in database_records

LEMMA PointersStep == IInv /\ Pointers /\ [Next]_vars => Pointers'
<1> SUFFICES ASSUME IInv, Pointers, [Next]_vars PROVE Pointers'
  OBVIOUS
<1>1. CASE UNCHANGED vars
  BY <1>1 DEF vars, db, args, Pointers, Uses
<1>2. ASSUME NEW t \in Threads, Step(t) PROVE Pointers'
  <2> USE DbAssumption DEF Move, Goto, locks, db, args, quiet
  <2>1. ASSUME UNCHANGED database_records,
               \A u \in Threads, c \in Clients : Uses(u, c)' => Uses(u, c)
        PROVE  Pointers'
    BY <2>1 DEF Pointers
  <2> USE DEF IInv, Shape, Labels, InTransaction, Uses
  <2>2. CASE CallStep(t)
    BY <2>1, <2>2 DEF CallStep, CallRegister, CallInfo, CallTransaction, CallRemove, Begin,
         get_client_info, Return
  <2>3. CASE register_client(t)
    <3>1. database_records \subseteq database_records'
          /\ \A u \in Threads, c \in Clients : Uses(u, c)' => Uses(u, c)
      BY <2>3 DEF RegisterInsert, register_client, RegisterInsertLock, RegisterLockClient,
         RegisterUnlock, RegisterTotal, RegisterReply, unlock_client
    <3> QED
      BY <3>1 DEF Pointers
  <2>4. CASE TransactionFind(t)
    <3>1. UNCHANGED <<database_records, sender, receiver>>
          /\ \A u \in Threads \ {t} : pc'[u] = pc[u]
      BY <2>4 DEF TransactionFind
    <3>2. pc'[t] = "tx_check" => {sender[t], receiver[t]} \subseteq database_records
      BY <2>4 DEF TransactionFind, FindRecord
    <3>3. pc'[t] \in {"tx_check", "tx_unlock_sender"}
      BY <2>4 DEF TransactionFind
    <3> QED
      BY <3>1, <3>2, <3>3 DEF Pointers
  <2>5. CASE make_transaction(t) /\ ~ TransactionFind(t)
    <3>1. UNCHANGED <<database_records, sender, receiver>>
          /\ \A u \in Threads \ {t} : pc'[u] = pc[u]
      BY <2>5 DEF make_transaction, TransactionLockDb, TransactionUnknownSender,
         TransactionNothingToMove, TransactionPeek, TransactionLockSender,
         TransactionUnknownReceiver, TransactionLockReceiver, TransactionFind,
         TransactionCheck, TransactionDebit, TransactionCredit, TransactionUnlockSender,
         TransactionUnlockReceiver, TransactionMetadata, TransactionReply, unlock_client
    <3>2. pc'[t] \in {"tx_check", "tx_debit", "tx_credit"} =>
            pc[t] \in {"tx_check", "tx_debit", "tx_credit"}
      BY <2>5 DEF make_transaction, TransactionLockDb, TransactionUnknownSender,
         TransactionNothingToMove, TransactionPeek, TransactionLockSender,
         TransactionUnknownReceiver, TransactionLockReceiver, TransactionFind,
         TransactionCheck, TransactionDebit, TransactionCredit, TransactionUnlockSender,
         TransactionUnlockReceiver, TransactionMetadata, TransactionReply, unlock_client
    <3> QED
      BY <2>1, <3>1, <3>2
  <2>6. CASE RemoveErase(t)
    <3>1. \A u \in Threads : ~ Uses(u, sender[t])
      BY <2>6 DEF RemoveErase, HoldsWhatItUses, HoldsClient
    <3>2. \A u \in Threads, c \in Clients : Uses(u, c)' => Uses(u, c)
      BY <2>6 DEF RemoveErase
    <3>3. database_records \ {sender[t]} \subseteq database_records'
      BY <2>6 DEF RemoveErase
    <3> QED
      BY <3>1, <3>2, <3>3 DEF Pointers
  <2>7. CASE remove_client(t) /\ ~ RemoveErase(t)
    BY <2>1, <2>7 DEF remove_client, RemoveLockDb, RemoveUnknown, RemoveLockClient, RemoveErase,
         RemoveUnlock, RemoveEraseLock, RemoveTotal, unlock_client
  <2> QED
    BY <1>2, <2>2, <2>3, <2>4, <2>5, <2>6, <2>7 DEF Step
<1> QED
  BY <1>1, <1>2 DEF Next

LEMMA PointersAlways == Spec => []Pointers
<1>1. Init => Pointers
  BY DEF Init, Pointers, Uses
<1> QED
  BY <1>1, PointersStep, Inductive, PTL DEF Spec

\* Settled adds the amount of the one transfer that has debited its sender and
\* not yet credited c, if there is one.
Crediting(u, c) == pc[u] = "tx_credit" /\ receiver[u] = c
SettledIs ==
  \A c \in Clients :
    /\ \A u \in Threads : Crediting(u, c) => Settled(c) = balance[c] + amount[u]
    /\ (\A u \in Threads : ~ Crediting(u, c)) => Settled(c) = balance[c]

LEMMA SettledMeaning == IInv => SettledIs
  BY DEF IInv, HoldsWhatItUses, HoldsClient, InTransaction, Settled, SettledIs, Crediting

\* Only debits and credits move a settled balance.
LEMMA SettledStutter ==
  ASSUME SettledIs, SettledIs', NEW c \in Clients, balance'[c] = balance[c],
         \A u \in Threads : /\ Crediting(u, c)' <=> Crediting(u, c)
                            /\ Crediting(u, c) => amount'[u] = amount[u]
  PROVE  Settled(c)' = Settled(c)
<1>1. CASE \E u \in Threads : Crediting(u, c)
  <2>1. PICK u \in Threads : Crediting(u, c)
    BY <1>1
  <2>2. Settled(c) = balance[c] + amount[u] /\ Settled(c)' = balance'[c] + amount'[u]
    BY <2>1 DEF SettledIs
  <2> QED
    BY <2>1, <2>2
<1>2. CASE \A u \in Threads : ~ Crediting(u, c)
  BY <1>2 DEF SettledIs
<1> QED
  BY <1>1, <1>2

LEMMA BankStep == IInv /\ SettledIs /\ SettledIs' /\ Pointers /\ [Next]_vars
                    => [Abstract!Next]_(Abstract!vars)
<1> SUFFICES ASSUME IInv, SettledIs, SettledIs', Pointers, [Next]_vars
             PROVE  [Abstract!Next]_(Abstract!vars)
  OBVIOUS
<1> DEFINE same == UNCHANGED <<database_records, [c \in Clients |-> Settled(c)]>>
<1>0. same => UNCHANGED Abstract!vars
  BY DEF Abstract!vars
<1> HIDE DEF same
<1>1. CASE UNCHANGED vars
  BY <1>0, <1>1 DEF same, vars, locks, db, args, Settled
<1>2. ASSUME NEW t \in Threads, Step(t) PROVE [Abstract!Next]_(Abstract!vars)
  <2> USE DbAssumption DEF Move, Goto, db, args, quiet, IInv, Shape, Labels
  <2>1. ASSUME UNCHANGED <<database_records, balance>>,
               pc[t] # "tx_credit", pc'[t] # "tx_credit",
               \A u \in Threads \ {t} : /\ pc'[u] = pc[u] /\ receiver'[u] = receiver[u]
                                        /\ amount'[u] = amount[u]
        PROVE  same
    <3>1. \A c \in Clients : Settled(c)' = Settled(c)
      BY <2>1, SettledStutter DEF Crediting
    <3> QED
      BY <2>1, <3>1 DEF same
  \* Whoever credits a client holds its mutex.
  <2>2. \A u \in Threads, c \in Clients :
          Crediting(u, c) /\ HoldsClient(t, c) => u = t /\ pc[t] = "tx_credit"
    BY DEF Crediting, HoldsWhatItUses, HoldsClient, InTransaction
  <2>3. CASE CallStep(t)
    BY <1>0, <2>1, <2>3 DEF CallStep, CallRegister, CallInfo, CallTransaction, CallRemove, Begin,
         get_client_info, Return
  <2>4. CASE register_client(t) /\ ~ RegisterInsert(t)
    BY <1>0, <2>1, <2>4 DEF register_client, RegisterInsertLock, RegisterLockClient,
         RegisterUnlock, RegisterTotal, RegisterReply, unlock_client
  <2>5. CASE RegisterInsert(t)
    <3>0. PICK c \in Clients : c = sender[t]
      BY <2>5 DEF RegisterInsert
    <3>1. c \in Clients /\ HoldsClient(t, c) /\ pc[t] # "tx_credit" /\ pc'[t] # "tx_credit"
      BY <3>0, <2>5 DEF RegisterInsert, HoldsClient
    <3>2. \A u \in Threads \ {t} : pc'[u] = pc[u] /\ receiver'[u] = receiver[u]
                                    /\ amount'[u] = amount[u]
      BY <3>0, <2>5 DEF RegisterInsert
    <3>3. CASE UNCHANGED db
      BY <3>0, <1>0, <2>1, <3>1, <3>2, <3>3
    <3>4. CASE c \notin database_records /\ ~ UNCHANGED db
      <4>1. /\ database_records' = database_records \cup {c}
            /\ balance' = [balance EXCEPT ![c] = STARTING_BALANCE]
        BY <3>0, <2>5, <3>4 DEF RegisterInsert
      <4>2. Settled(c)' = STARTING_BALANCE
        <5>1. \A u \in Threads : ~ Crediting(u, c)'
          BY <3>0, <2>2, <2>5, <3>1, <3>2 DEF RegisterInsert, Crediting
        <5>2. Settled(c)' = balance'[c]
          BY <3>0, <3>1, <5>1 DEF SettledIs
        <5> QED
          BY <3>0, <3>1, <4>1, <5>2 DEF Values
      <4>3. \A d \in Clients \ {c} : Settled(d)' = Settled(d)
        BY <3>0, <3>1, <3>2, <4>1, SettledStutter DEF Crediting, Values
      <4>4. [d \in Clients |-> Settled(d)]'
              = [[d \in Clients |-> Settled(d)] EXCEPT ![c] = STARTING_BALANCE]
        BY <3>0, <3>1, <4>2, <4>3
      <4>5. Abstract!Open(c)
        BY <3>0, <3>4, <4>1, <4>4 DEF Abstract!Open
      <4> QED
        BY <3>0, <3>1, <4>5 DEF Abstract!Next
    <3> QED
      BY <3>0, <2>5, <3>3, <3>4 DEF RegisterInsert
  <2>6. CASE make_transaction(t) /\ ~ TransactionDebit(t) /\ ~ TransactionCredit(t)
    <3>1. UNCHANGED <<database_records, balance, receiver, amount>>
          /\ pc[t] # "tx_credit" /\ pc'[t] # "tx_credit"
          /\ \A u \in Threads \ {t} : pc'[u] = pc[u]
      BY <2>6 DEF make_transaction, TransactionLockDb, TransactionUnknownSender,
         TransactionNothingToMove, TransactionPeek, TransactionLockSender,
         TransactionUnknownReceiver, TransactionLockReceiver, TransactionFind,
         TransactionCheck, TransactionUnlockSender,
         TransactionUnlockReceiver, TransactionMetadata, TransactionReply, unlock_client
    <3> QED
      BY <1>0, <2>1, <3>1
  <2>7. CASE TransactionDebit(t)
    <3>0. PICK from \in Clients, to \in Clients, a \in Amounts :
            from = sender[t] /\ to = receiver[t] /\ a = amount[t]
      BY <2>7 DEF TransactionDebit, TxLabels
    <3>1. /\ from \in Clients /\ to \in Clients /\ from # to /\ a \in Amounts /\ 0 < a
          /\ HoldsClient(t, from) /\ HoldsClient(t, to)
          /\ a <= balance[from]
          /\ {from, to} \subseteq database_records
      BY <3>0, <2>7 DEF TransactionDebit, TxLabels, Moving, MovesMoney, InTransaction, HoldsClient,
         NoOverdraft, Pointers, Uses
    <3>2. /\ balance' = [balance EXCEPT ![from] = @ - a]
          /\ UNCHANGED <<database_records, receiver, amount>>
          /\ pc[t] = "tx_debit" /\ pc' = [pc EXCEPT ![t] = "tx_credit"]
      BY <3>0, <2>7 DEF TransactionDebit
    <3>3. \A u \in Threads : ~ Crediting(u, from) /\ ~ Crediting(u, to)
      BY <3>0, <2>2, <3>1, <3>2
    <3>4. Settled(from) = balance[from] /\ Settled(to) = balance[to]
      BY <3>0, <3>1, <3>3 DEF SettledIs
    <3>5. \A u \in Threads : ~ Crediting(u, from)'
      BY <3>0, <3>1, <3>2, <3>3 DEF Crediting
    <3>6. Settled(from)' = balance[from] - a
      <4>1. Settled(from)' = balance'[from]
        BY <3>0, <3>1, <3>5 DEF SettledIs
      <4> QED
        BY <3>0, <3>1, <3>2, <4>1 DEF Values
    <3>7. Settled(to)' = balance[to] + a
      <4>1. Crediting(t, to)'
        BY <3>0, <3>2 DEF Crediting
      <4>2. Settled(to)' = balance'[to] + amount'[t]
        BY <3>0, <3>1, <4>1 DEF SettledIs
      <4> QED
        BY <3>0, <3>1, <3>2, <4>2 DEF Values
    <3>8. \A d \in Clients \ {from, to} : Settled(d)' = Settled(d)
      BY <3>0, <3>1, <3>2, SettledStutter DEF Crediting, Values
    <3>9. [d \in Clients |-> Settled(d)]'
            = [[d \in Clients |-> Settled(d)] EXCEPT ![from] = @ - a, ![to] = @ + a]
      BY <3>0, <3>1, <3>4, <3>6, <3>7, <3>8
    <3>10. Abstract!Transfer(from, to, a)
      BY <3>0, <3>1, <3>2, <3>4, <3>9 DEF Abstract!Transfer
    <3> QED
      BY <3>0, <3>1, <3>10 DEF Abstract!Next
  <2>8. CASE TransactionCredit(t)
    <3>0. PICK to \in Clients : to = receiver[t]
      BY <2>8 DEF TransactionCredit, TxLabels
    <3>1. to \in Clients /\ HoldsClient(t, to)
      BY <3>0, <2>8 DEF TransactionCredit, TxLabels, InTransaction, HoldsClient
    <3>2. /\ balance' = [balance EXCEPT ![to] = @ + amount[t]]
          /\ UNCHANGED <<database_records, receiver, amount>>
          /\ pc[t] = "tx_credit" /\ pc' = [pc EXCEPT ![t] = "tx_unlock_sender"]
      BY <3>0, <2>8 DEF TransactionCredit
    <3>3. Settled(to) = balance[to] + amount[t]
      BY <3>0, <3>1, <3>2 DEF SettledIs, Crediting
    <3>4. \A u \in Threads : ~ Crediting(u, to)'
      BY <3>0, <2>2, <3>1, <3>2 DEF Crediting
    <3>5. Settled(to)' = balance'[to]
      BY <3>0, <3>1, <3>4 DEF SettledIs
    <3>6. \A d \in Clients \ {to} : Settled(d)' = Settled(d)
      BY <3>0, <3>1, <3>2, SettledStutter DEF Crediting, Values
    <3>7. \A d \in Clients : Settled(d)' = Settled(d)
      BY <3>0, <3>1, <3>2, <3>3, <3>5, <3>6 DEF Values
    <3> QED
      BY <3>0, <1>0, <3>2, <3>7 DEF same
  <2>9. CASE remove_client(t) /\ ~ RemoveErase(t)
    BY <1>0, <2>1, <2>9 DEF remove_client, RemoveLockDb, RemoveUnknown, RemoveLockClient,
         RemoveUnlock, RemoveEraseLock, RemoveTotal, unlock_client
  <2>10. CASE RemoveErase(t)
    <3>0. PICK c \in Clients : c = sender[t]
      BY <2>10 DEF RemoveErase
    <3>1. c \in Clients /\ UNCHANGED <<balance, receiver, amount>>
          /\ pc[t] # "tx_credit" /\ pc'[t] # "tx_credit"
          /\ \A u \in Threads \ {t} : pc'[u] = pc[u]
      BY <3>0, <2>10 DEF RemoveErase
    <3>2. \A d \in Clients : Settled(d)' = Settled(d)
      BY <3>0, <3>1, SettledStutter DEF Crediting
    <3>3. CASE UNCHANGED database_records
      BY <3>0, <1>0, <3>2, <3>3 DEF same
    <3>4. CASE c \in database_records /\ database_records' = database_records \ {c}
      <4>1. Abstract!Close(c)
        BY <3>0, <3>2, <3>4 DEF Abstract!Close
      <4> QED
        BY <3>0, <3>1, <4>1 DEF Abstract!Next
    <3>5. UNCHANGED database_records \/ database_records' = database_records \ {c}
      BY <3>0, <2>10 DEF RemoveErase
    <3>6. c \notin database_records => database_records \ {c} = database_records
      OBVIOUS
    <3> QED
      BY <3>3, <3>4, <3>5, <3>6
  <2> QED
    BY <1>2, <2>3, <2>4, <2>5, <2>6, <2>7, <2>8, <2>9, <2>10 DEF Step, register_client,
       make_transaction, remove_client
<1> QED
  BY <1>1, <1>2 DEF Next

\* Whatever the threads interleave, the accounts go through the indivisible
\* registrations, transfers and removals of the abstract bank.
THEOREM ImplementsBank == Spec => BankSpec
<1>1. Init => Abstract!Init
  BY DbAssumption DEF Init, Abstract!Init, Settled
<1> QED
  BY <1>1, BankStep, Inductive, SettledMeaning, PointersAlways, PTL
     DEF Spec, BankSpec, Abstract!Spec

-----------------------------------------------------------------------------
(* The total.  A step that leaves the set of accounts alone is a transfer   *)
(* or nothing for the bank, so it leaves their sum alone; registrations and *)
(* removals move it by what their thread owes to the total from then on.    *)

Accounts == [c \in Clients |-> Settled(c)]
Dues     == [t \in Threads |-> Due(t)]

\* A registration that has the mutex of its client goes on after SUCCESS only.
Inserting == \A t \in Threads : pc[t] = "reg_insert" => reply[t].code = "SUCCESS"

AddUp ==
  /\ IsFiniteSet(database_records) /\ IsFiniteSet(Late)
  /\ Inserting
  /\ AccountsAddUp

\* What a step of t leaves alone.
LEMMA OthersStay ==
  ASSUME IInv, NEW t \in Threads, Step(t)
  PROVE  \A u \in Threads \ {t} : pc'[u] = pc[u] /\ reply'[u] = reply[u]
<1> USE DEF IInv, Shape, Values, Move, Goto, Answer, args, quiet
<1>1. CASE CallStep(t)
  BY <1>1 DEF CallStep, CallRegister, CallInfo, CallTransaction, CallRemove, Begin,
     get_client_info, Return
<1>2. CASE register_client(t)
  BY <1>2 DEF register_client, RegisterInsertLock, RegisterLockClient, RegisterInsert,
     RegisterUnlock, RegisterTotal, RegisterReply, unlock_client
<1>3. CASE make_transaction(t)
  BY <1>3 DEF make_transaction, TransactionLockDb, TransactionUnknownSender,
     TransactionNothingToMove, TransactionPeek, TransactionLockSender,
     TransactionUnknownReceiver, TransactionLockReceiver, TransactionFind,
     TransactionCheck, TransactionDebit, TransactionCredit, TransactionUnlockSender,
     TransactionUnlockReceiver, TransactionMetadata, TransactionReply, unlock_client
<1>4. CASE remove_client(t)
  BY <1>4 DEF remove_client, RemoveLockDb, RemoveUnknown, RemoveLockClient, RemoveErase,
     RemoveUnlock, RemoveEraseLock, RemoveTotal, unlock_client
<1> QED
  BY <1>1, <1>2, <1>3, <1>4 DEF Step

LEMMA InsertingStep ==
  ASSUME IInv, Inserting, NEW t \in Threads, Step(t)
  PROVE  Inserting'
<1>1. pc'[t] = "reg_insert" => RegisterLockClient(t)
  <2> USE DEF IInv, Shape, Labels, Move, Goto
  <2>1. CASE CallStep(t)
    BY <2>1 DEF CallStep, CallRegister, CallInfo, CallTransaction, CallRemove, Begin,
       get_client_info, Return
  <2>2. CASE register_client(t)
    BY <2>2 DEF register_client, RegisterInsertLock, RegisterInsert,
       RegisterUnlock, RegisterTotal, RegisterReply
  <2>3. CASE make_transaction(t)
    BY <2>3 DEF make_transaction, TransactionLockDb, TransactionUnknownSender,
       TransactionNothingToMove, TransactionPeek, TransactionLockSender,
       TransactionUnknownReceiver, TransactionLockReceiver, TransactionFind,
       TransactionCheck, TransactionDebit, TransactionCredit, TransactionUnlockSender,
       TransactionUnlockReceiver, TransactionMetadata, TransactionReply
  <2>4. CASE remove_client(t)
    BY <2>4 DEF remove_client, RemoveLockDb, RemoveUnknown, RemoveLockClient, RemoveErase,
       RemoveUnlock, RemoveEraseLock, RemoveTotal
  <2> QED
    BY <2>1, <2>2, <2>3, <2>4 DEF Step
<1>2. RegisterLockClient(t) => reply'[t] = reply[t] /\ (pc'[t] = "reg_insert" => reply[t].code = "SUCCESS")
  BY DEF RegisterLockClient, Move, Goto, IInv, Shape
<1> QED
  BY <1>1, <1>2, OthersStay DEF Inserting

\* Only registrations and removals change what the accounts are worth.
LEMMA AccountsStay ==
  ASSUME IInv, SettledIs, SettledIs', Pointers, [Next]_vars, IsFiniteSet(database_records),
         database_records' = database_records
  PROVE  SumFunctionOnSet(Accounts, database_records)' = SumFunctionOnSet(Accounts, database_records)
<1>1. CASE UNCHANGED Abstract!vars
  BY <1>1 DEF Abstract!vars, Accounts
<1>2. CASE Abstract!Next
  <2>1. ASSUME NEW c \in Clients, Abstract!Open(c) \/ Abstract!Close(c) PROVE FALSE
    BY <2>1 DEF Abstract!Open, Abstract!Close
  <2>2. PICK from \in Clients, to \in Clients, a \in Amounts : Abstract!Transfer(from, to, a)
    BY <1>2, <2>1 DEF Abstract!Next
  <2>3. /\ from \in database_records /\ to \in database_records /\ from # to /\ a \in Int
        /\ Accounts' = [Accounts EXCEPT ![from] = @ - a, ![to] = @ + a]
    BY <2>2, DbAssumption DEF Abstract!Transfer, Accounts
  <2>4. Accounts \in [Clients -> Int] /\ database_records \in SUBSET Clients
    BY DEF Accounts, Settled, IInv, Shape, Values
  <2> HIDE DEF Accounts
  <2>6. Moves(Accounts, database_records, Accounts', from, to, a)
    <3>1. DOMAIN Accounts = Clients
      BY DEF Accounts
    <3> QED
      BY <2>3, <2>4, <3>1 DEF Moves
  <2>5. SumFunctionOnSet(Accounts', database_records) = SumFunctionOnSet(Accounts, database_records)
    BY <2>6, SumTransfer
  <2> QED
    BY <2>5
<1> QED
  BY <1>1, <1>2, BankStep

LEMMA DueIs ==
  ASSUME IInv
  PROVE  \A t \in Threads : Due(t) \in Int /\ (t \notin Late => Due(t) = 0)
  BY DbAssumption DEF IInv, Values, Due, Late

\* What changes when the accounts stay as they are.
LEMMA TotalFollows ==
  ASSUME IInv, IInv', SettledIs, SettledIs', Pointers, [Next]_vars,
         IsFiniteSet(database_records), AccountsAddUp, ~ raced,
         NEW t \in Threads, DifferAt(Dues, Late, Dues', Late', t), Part(Dues, Late, t) = Due(t),
         Part(Dues', Late', t) = Due(t)',
         database_records' = database_records,
         total_balance' - total_balance = Due(t)' - Due(t)
  PROVE  AccountsAddUp'
<1>1. SumFunctionOnSet(Accounts', database_records') = SumFunctionOnSet(Accounts, database_records)
  BY AccountsStay
<1>2. /\ SumFunctionOnSet(Dues, Late) \in Int /\ SumFunctionOnSet(Dues', Late') \in Int
      /\ SumFunctionOnSet(Dues', Late') - Due(t)' = SumFunctionOnSet(Dues, Late) - Due(t)
  BY SumChange
<1>3. total_balance = SumFunctionOnSet(Accounts, database_records) + SumFunctionOnSet(Dues, Late)
  BY DEF AccountsAddUp, Accounts, Dues
<1>4. total_balance \in Int /\ total_balance' \in Int
      /\ SumFunctionOnSet(Accounts, database_records) \in Int
      /\ Due(t) \in Int /\ Due(t)' \in Int
  <2>1. Accounts \in [Clients -> Int] /\ database_records \subseteq Clients
    BY DEF Accounts, Settled, IInv, Shape, Values
  <2>2. SumFunctionOnSet(Accounts, database_records) \in Int
    BY <2>1, SumType
  <2> QED
    BY <2>2, DueIs, DbAssumption DEF IInv, Values, Due
<1> HIDE DEF Accounts, Dues
<1>5. total_balance' = SumFunctionOnSet(Accounts', database_records')
                         + SumFunctionOnSet(Dues', Late')
  <2> DEFINE a == SumFunctionOnSet(Accounts, database_records)
             b == SumFunctionOnSet(Accounts', database_records')
             c == SumFunctionOnSet(Dues, Late)
             e == SumFunctionOnSet(Dues', Late')
             v == Due(t)
             w == Due(t)'
             m == total_balance
             n == total_balance'
  <2>1. /\ b = a /\ c \in Int /\ e \in Int /\ e - w = c - v /\ m = a + c
        /\ a \in Int /\ v \in Int /\ w \in Int /\ m \in Int /\ n \in Int /\ n - m = w - v
    BY <1>1, <1>2, <1>3, <1>4
  <2> HIDE DEF a, b, c, e, v, w, m, n
  <2>2. n = b + e
    BY <2>1
  <2> QED
    BY <2>2 DEF n, b, e
<1> QED
  BY <1>5 DEF AccountsAddUp, Accounts, Dues

LEMMA InsertAddsUp ==
  ASSUME IInv, IInv', SettledIs, SettledIs', Pointers, AddUp, ~ raced,
         NEW t \in Threads, RegisterInsert(t), Step(t), ~ RecordsRace(t),
         DifferAt(Dues, Late, Dues', Late', t), Part(Dues, Late, t) = Due(t),
         Part(Dues', Late', t) = Due(t)'
  PROVE  AccountsAddUp'
<1>1. /\ sender[t] \in Clients /\ pc[t] = "reg_insert" /\ pc'[t] = "reg_unlock"
      /\ total_balance' = total_balance /\ Due(t) = 0 /\ reply[t].code = "SUCCESS"
  BY DEF RegisterInsert, Move, Goto, meta, IInv, Shape, Due, AddUp, Inserting
<1>2. [Next]_vars /\ IsFiniteSet(database_records) /\ AccountsAddUp
  BY DEF Next, AddUp
<1>3. CASE sender[t] \in database_records
  <2>1. database_records' = database_records /\ reply'[t].code = "DUPLICATE_IP"
    BY <1>3 DEF RegisterInsert, Answer, Response, db, IInv, Values
  <2>2. Due(t)' = 0
    BY <1>1, <2>1 DEF Due
  <2>3. total_balance' - total_balance = Due(t)' - Due(t)
    BY <1>1, <2>2 DEF IInv, Values
  <2> QED
    BY <1>2, <2>1, <2>3, TotalFollows
<1>4. CASE sender[t] \notin database_records
  <2> DEFINE c == sender[t]
  <2>1. database_records' = database_records \cup {c} /\ reply'[t] = reply[t]
    BY <1>4 DEF RegisterInsert
  <2>2. Due(t)' = - STARTING_BALANCE
    BY <1>1, <2>1 DEF Due
  <2>3. Accounts' = [Accounts EXCEPT ![c] = STARTING_BALANCE]
    <3>1. ~ UNCHANGED Abstract!vars
      BY <1>4, <2>1 DEF Abstract!vars
    <3>2. ASSUME NEW from, NEW to, NEW a, Abstract!Transfer(from, to, a) PROVE FALSE
      BY <1>4, <2>1, <3>2 DEF Abstract!Transfer
    <3>3. PICK d \in Clients : Abstract!Open(d) \/ Abstract!Close(d)
      BY <1>2, <3>1, <3>2, BankStep DEF Abstract!Next
    <3>4. Abstract!Open(d) /\ d = c
      BY <1>4, <2>1, <3>3 DEF Abstract!Open, Abstract!Close
    <3> QED
      BY <3>4 DEF Abstract!Open, Accounts
  <2>4. Accounts \in [Clients -> Int] /\ database_records \subseteq Clients
    BY DEF Accounts, Settled, IInv, Shape, Values
  <2> HIDE DEF Accounts, c
  <2>5. DifferAt(Accounts, database_records, Accounts', database_records', c)
        /\ Accounts'[c] = STARTING_BALANCE
    BY <1>1, <1>2, <1>4, <2>1, <2>3, <2>4, DbAssumption DEF DifferAt, c
  <2> DEFINE a == SumFunctionOnSet(Accounts, database_records)
             b == SumFunctionOnSet(Accounts', database_records')
             e == SumFunctionOnSet(Dues, Late)
             f == SumFunctionOnSet(Dues', Late')
  <2>6. /\ a \in Int /\ b \in Int /\ b - Part(Accounts', database_records', c)
                                       = a - Part(Accounts, database_records, c)
    BY <2>5, SumChange
  <2>7. Part(Accounts', database_records', c) = STARTING_BALANCE
        /\ Part(Accounts, database_records, c) = 0
    BY <1>4, <2>1, <2>5 DEF Part, c
  <2>8. e \in Int /\ f \in Int /\ f - Due(t)' = e - Due(t)
    BY SumChange
  <2>9. total_balance = a + e
    BY <1>2 DEF AccountsAddUp, Accounts, Dues
  <2> HIDE DEF a, b, e, f
  <2>10. total_balance' = b + f
    BY <1>1, <2>2, <2>6, <2>7, <2>8, <2>9, DbAssumption
  <2> QED
    BY <2>10 DEF AccountsAddUp, Accounts, Dues, b, f
<1> QED
  BY <1>3, <1>4

LEMMA EraseAddsUp ==
  ASSUME IInv, IInv', SettledIs, SettledIs', Pointers, AddUp, ~ raced,
         NEW t \in Threads, RemoveErase(t), Step(t), ~ RecordsRace(t),
         DifferAt(Dues, Late, Dues', Late', t), Part(Dues, Late, t) = Due(t),
         Part(Dues', Late', t) = Due(t)'
  PROVE  AccountsAddUp'
<1>1. /\ sender[t] \in Clients /\ pc[t] = "rm_erase"
      /\ total_balance' = total_balance /\ Due(t) = 0
  BY DEF RemoveErase, meta, IInv, Shape, Due
<1>2. [Next]_vars /\ IsFiniteSet(database_records) /\ AccountsAddUp
  BY DEF Next, AddUp
<1>3. \A c : FindRecord(t, c) = {c \in database_records}
  BY DEF FindRecord
<1>4. CASE sender[t] \notin database_records
  <2>1. database_records' = database_records /\ pc'[t] = "rm_unlock"
    BY <1>3, <1>4 DEF RemoveErase, Goto, IInv, Shape
  <2>2. Due(t)' = 0
    BY <2>1 DEF Due
  <2>3. total_balance' - total_balance = Due(t)' - Due(t)
    BY <1>1, <2>2 DEF IInv, Values
  <2> QED
    BY <1>2, <2>1, <2>3, TotalFollows
<1>5. CASE sender[t] \in database_records
  <2> DEFINE c == sender[t]
  <2>1. /\ database_records' = database_records \ {c} /\ pc'[t] = "rm_erase_lock"
        /\ reply'[t].balance = balance[c]
    BY <1>3, <1>5 DEF RemoveErase, Goto, Answer, Response, Record, IInv, Shape, Values
  <2>2. Due(t)' = balance[c]
    BY <2>1 DEF Due
  <2>3. Accounts[c] = balance[c] /\ balance[c] \in Int
    <3>1. mutex[c] = t
      BY <1>1 DEF IInv, HoldsWhatItUses, HoldsClient
    <3> QED
      BY <1>1, <3>1 DEF Accounts, Settled, IInv, Values
  <2>4. Accounts' = Accounts
    <3>1. ~ UNCHANGED Abstract!vars
      BY <1>5, <2>1 DEF Abstract!vars
    <3>2. ASSUME NEW from, NEW to, NEW a, Abstract!Transfer(from, to, a) PROVE FALSE
      BY <1>5, <2>1, <3>2 DEF Abstract!Transfer
    <3>3. PICK d \in Clients : Abstract!Open(d) \/ Abstract!Close(d)
      BY <1>2, <3>1, <3>2, BankStep DEF Abstract!Next
    <3>4. Abstract!Close(d)
      BY <1>5, <2>1, <3>3 DEF Abstract!Open, Abstract!Close
    <3> QED
      BY <3>4 DEF Abstract!Close, Accounts
  <2>5. Accounts \in [Clients -> Int] /\ database_records \subseteq Clients
    BY DEF Accounts, Settled, IInv, Shape, Values
  <2> HIDE DEF Accounts, c
  <2>6. DifferAt(Accounts, database_records, Accounts', database_records', c)
    BY <1>2, <2>1, <2>4, <2>5 DEF DifferAt
  <2> DEFINE a == SumFunctionOnSet(Accounts, database_records)
             b == SumFunctionOnSet(Accounts', database_records')
             e == SumFunctionOnSet(Dues, Late)
             f == SumFunctionOnSet(Dues', Late')
  <2>7. /\ a \in Int /\ b \in Int /\ b - Part(Accounts', database_records', c)
                                       = a - Part(Accounts, database_records, c)
    BY <2>6, SumChange
  <2>8. Part(Accounts', database_records', c) = 0
        /\ Part(Accounts, database_records, c) = balance[c]
    BY <1>5, <2>1, <2>3 DEF Part, c
  <2>9. e \in Int /\ f \in Int /\ f - Due(t)' = e - Due(t)
    BY SumChange
  <2>10. total_balance = a + e
    BY <1>2 DEF AccountsAddUp, Accounts, Dues
  <2> HIDE DEF a, b, e, f
  <2>11. total_balance' = b + f
    BY <1>1, <2>2, <2>3, <2>7, <2>8, <2>9, <2>10
  <2> QED
    BY <2>11 DEF AccountsAddUp, Accounts, Dues, b, f
<1> QED
  BY <1>4, <1>5

LEMMA AddUpStep ==
  ASSUME IInv, IInv', SettledIs, SettledIs', Pointers, AddUp, [Next]_vars
  PROVE  AddUp'
<1>1. CASE UNCHANGED vars
  <2>1. Accounts' = Accounts /\ Dues' = Dues /\ Late' = Late
    BY <1>1 DEF vars, locks, db, args, Accounts, Settled, Dues, Due, Late
  <2> QED
    BY <1>1, <2>1 DEF vars, db, meta, status, AddUp, AccountsAddUp, Inserting, Accounts, Dues
<1>2. ASSUME NEW t \in Threads, Step(t) PROVE AddUp'
  <2>1. \A u \in Threads \ {t} : pc'[u] = pc[u] /\ reply'[u] = reply[u]
    BY <1>2, OthersStay
  <2>2. Inserting'
    BY <1>2, InsertingStep DEF AddUp
  <2>3. DifferAt(Dues, Late, Dues', Late', t)
    <3>1. \A u \in Threads \ {t} : Due(u)' = Due(u) /\ (u \in Late' <=> u \in Late)
      BY <2>1 DEF Due, Late
    <3>2. /\ Late \subseteq Threads /\ Late' \subseteq Threads
          /\ \A u \in Threads : Dues[u] = Due(u) /\ Dues'[u] = Due(u)'
      BY DEF Late, Dues
    <3>3. \A u \in Threads : Due(u) \in Int /\ Due(u)' \in Int
      <4>1. \A u \in Threads : Due(u) \in Int
        BY DueIs
      <4>2. \A u \in Threads : Due(u)' \in Int
        BY DbAssumption DEF IInv, Values, Due
      <4> QED
        BY <4>1, <4>2
    <3> HIDE DEF Late
    <3> QED
      BY <3>1, <3>2, <3>3 DEF DifferAt, AddUp
  <2>4. Part(Dues, Late, t) = Due(t) /\ Part(Dues', Late', t) = Due(t)'
    BY DEF Part, Dues, Late, Due
  <2>5. IsFiniteSet(Late')
    BY <2>3, SumChange
  <2>6. ASSUME database_records' = database_records,
               total_balance' - total_balance = Due(t)' - Due(t)
        PROVE  AddUp'
    <3>1. raced' \/ AccountsAddUp'
      <4>1. CASE raced
        BY <1>2, <4>1 DEF Step
      <4>2. CASE ~ raced
        BY <2>3, <2>4, <2>6, <4>2, TotalFollows DEF AddUp
      <4> QED
        BY <4>1, <4>2 DEF IInv
    <3> QED
      BY <2>2, <2>5, <2>6, <3>1 DEF AddUp, AccountsAddUp
  <2> DEFINE Quiet == database_records' = database_records
                      /\ total_balance' - total_balance = Due(t)' - Due(t)
  <2>7. CASE RegisterInsert(t)
    <3>1. database_records' \subseteq database_records \cup {sender[t]}
      BY <2>7 DEF RegisterInsert, db
    <3>2. IsFiniteSet(database_records')
      <4>1. IsFiniteSet(database_records \cup {sender[t]})
        BY FS_AddElement DEF AddUp
      <4> QED
        BY <3>1, <4>1, FS_Subset
    <3>3. raced' \/ AccountsAddUp'
      BY <1>2, <2>3, <2>4, <2>7, InsertAddsUp DEF Step
    <3> QED
      BY <2>2, <2>5, <3>2, <3>3 DEF AddUp, AccountsAddUp
  <2>8. CASE RemoveErase(t)
    <3>1. database_records' \subseteq database_records
      BY <2>8 DEF RemoveErase
    <3>2. IsFiniteSet(database_records')
      BY <3>1, FS_Subset DEF AddUp
    <3>3. raced' \/ AccountsAddUp'
      BY <1>2, <2>3, <2>4, <2>8, EraseAddsUp DEF Step
    <3> QED
      BY <2>2, <2>5, <3>2, <3>3 DEF AddUp, AccountsAddUp
  <2>9. ASSUME database_records' = database_records, total_balance' = total_balance,
               Due(t)' = Due(t)
        PROVE  Quiet
    BY <2>9, DueIs DEF IInv, Values
  <2> USE DEF Move, Goto, Answer, Response, db, meta, quiet, args
  <2>10. ASSUME CallStep(t) PROVE Quiet
    BY <2>9, <2>10 DEF CallStep, CallRegister, CallInfo, CallTransaction, CallRemove, Begin,
       get_client_info, Return, IInv, Shape, Due
  <2>11. ASSUME register_client(t), ~ RegisterInsert(t) PROVE Quiet
    <3>1. CASE RegisterInsertLock(t) \/ RegisterLockClient(t) \/ RegisterReply(t)
      BY <2>9, <3>1 DEF RegisterInsertLock, RegisterLockClient, RegisterReply, IInv, Shape, Due
    <3>2. CASE RegisterUnlock(t)
      BY <2>9, <3>2 DEF RegisterUnlock, unlock_client, IInv, Shape, Due
    <3>3. CASE RegisterTotal(t)
      BY <3>3, DbAssumption DEF RegisterTotal, IInv, Shape, Values, Due
    <3> QED
      BY <2>11, <3>1, <3>2, <3>3 DEF register_client
  <2>12. ASSUME make_transaction(t) PROVE Quiet
    BY <2>9, <2>12 DEF make_transaction, TransactionLockDb, TransactionUnknownSender,
       TransactionNothingToMove, TransactionPeek, TransactionLockSender,
       TransactionUnknownReceiver, TransactionLockReceiver, TransactionFind,
       TransactionCheck, TransactionDebit, TransactionCredit, TransactionUnlockSender,
       TransactionUnlockReceiver, TransactionMetadata, TransactionReply, unlock_client,
       IInv, Shape, Due
  <2>13. ASSUME remove_client(t), ~ RemoveErase(t) PROVE Quiet
    <3>1. CASE RemoveLockDb(t) \/ RemoveUnknown(t) \/ RemoveLockClient(t) \/ RemoveUnlock(t)
               \/ RemoveEraseLock(t)
      BY <2>9, <3>1 DEF RemoveLockDb, RemoveUnknown, RemoveLockClient, RemoveUnlock,
         RemoveEraseLock, unlock_client, IInv, Shape, Due
    <3>2. CASE RemoveTotal(t)
      BY <3>2 DEF RemoveTotal, IInv, Shape, Values, Due
    <3> QED
      BY <2>13, <3>1, <3>2 DEF remove_client
  <2> QED
    BY <1>2, <2>6, <2>7, <2>8, <2>10, <2>11, <2>12, <2>13 DEF Step
<1> QED
  BY <1>1, <1>2 DEF Next

\* However transfers, registrations and removals interleave, no money appears
\* or vanishes: total_balance is what the accounts hold, but for the changes
\* that some thread has still to make.
THEOREM NoMoneyIsLost == Spec => []AccountsAddUp
<1>1. Init => AddUp
  <2> SUFFICES ASSUME Init PROVE AddUp
    OBVIOUS
  <2>1. database_records = {} /\ Late = {} /\ total_balance = 0 /\ Inserting
    BY DEF Init, Late, Inserting
  <2> QED
    BY <2>1, FS_EmptySet, SumEmpty DEF AddUp, AccountsAddUp
<1>2. AddUp => AccountsAddUp
  BY DEF AddUp
<1> QED
  BY <1>1, <1>2, AddUpStep, Inductive, SettledMeaning, PointersAlways, PTL DEF Spec
=============================================================================
