--------------------------- MODULE AmiSyncProofs ---------------------------
(* Proofs about the actions on the connection to Asterisk, for every number of *)
(* callers and actions, every width of the counter, writes that are cut short  *)
(* and waits that time out or end for no reason.                               *)
EXTENDS AmiSync, FiniteSetTheorems, TLAPS

----------------------------------------------------------------------------
(* The inductive invariant.                                                    *)

\* The places at which a caller holds mutexAMI.
AmiHeld == {"inc", "incstore", "resplock", "locked", "publish", "write", "wait", "reacq",
            "dec", "decstore", "unlock", "amiunlock", "async", "asyncwrite"}
\* The places at which a thread holds mutexResp.
RespHeld == {"locked", "publish", "write", "dec", "decstore", "unlock"}
\* An action is to be composed.
ToCompose == {"amilock", "inc", "incstore", "resplock", "locked", "asynclock", "async"}
\* An action has been composed and is not written.
Composed == {"publish", "write", "asyncwrite"}
\* A call of ami_sync has a response record.
InCall == {"publish", "write", "wait"} \cup Answered
\* Where ami_event may be, and where it handles a reply it has not delivered.
Delivering == {"pResp", "count", "mode", "inc", "incstore", "resplock", "locked"}
ReaderPcs == {"idle", "clear", "dec", "decstore", "unlock"} \cup Delivering
\* A reply is read.
Reading == \E r \in unanswered : \E n \in ReplyIds(r) : EventRead(r, n)
\* The thread is counted in resp_waitcount.
CountedPcs == {"resplock", "locked", "publish", "write", "wait", "reacq", "dec", "decstore"}

Places ==
  /\ pc[Reader] \in ReaderPcs
  /\ \A p \in Callers : pc[p] \notin {"pResp", "count", "mode", "clear"}

Pending == {p \in Callers : pc[p] \in ToCompose}

Budget == actionid + Cardinality(Pending) <= MaxActions

Locks ==
  /\ \A p \in Callers : pc[p] \in AmiHeld <=> mutexAMI = p
  /\ \A p \in Procs : pc[p] \in RespHeld <=> mutexResp = p

Order ==
  /\ sdata = actionid
  /\ \A p \in Callers : pc[p] \in Composed => actionid = last + 1
  /\ (\A p \in Callers : pc[p] \notin Composed) => actionid = last
  /\ \A r \in unanswered : \A n \in r : n <= last
  /\ \A n \in tail : n <= last
  /\ tail \cap UNION unanswered = {}
  /\ ~short => tail = {} /\ \A r \in unanswered : \E n \in Ids : r = {n}
  /\ msg <= last

Calls ==
  /\ \A p \in Callers :
       /\ id[p] # Null <=> pc[p] \in InCall
       /\ id[p] <= actionid
       /\ pc[p] \in InCall \ {"returned"} => id[p] = actionid
  /\ \A p, q \in Callers : id[p] # Null /\ id[p] = id[q] => p = q

Replies ==
  \A p \in Callers :
    /\ pc[p] \in {"write", "wait"} => pResp \in {Null, id[p]}
    /\ pc[p] \in Answered /\ rc[p] = "signal" => pResp # id[p]
    /\ id[p] # Null => mode[id[p]] \in {"requst", "response"}

CallerCounts == IF \E p \in Callers : pc[p] \in CountedPcs THEN 1 ELSE 0
ReaderCounts == IF pc[Reader] \in CountedPcs THEN 1 ELSE 0

\* What holds as long as no wait has ended without the signal: the record that is
\* announced is the one a caller waits for,
Announced ==
  /\ pc[Reader] # "clear" /\ ~stale
  /\ \A p \in Callers : pc[p] \in {"write", "wait"} => pResp = id[p]
  /\ (\A p \in Callers : pc[p] \notin {"write", "wait"}) => pResp = Null
  /\ pc[Reader] \in {"dec", "decstore", "unlock"}
       => \E p \in Callers : pc[p] \in {"wait", "reacq"}

\* the reply to a call is on its way, with ami_event, or in the record, if it was asked
\* for with a whole write,
Awaited ==
  \A p \in Callers :
    /\ pc[p] \in {"publish", "write", "wait"} => mode[id[p]] = "requst"
    /\ pc[p] \in {"reacq", "dec", "decstore", "unlock"} => mode[id[p]] = "response"
    /\ pc[p] = "wait" /\ ~short =>
         \/ {id[p]} \in unanswered
         \/ msg = id[p] /\ pc[Reader] \in Delivering

\* and the counter is exact.
Counted ==
  /\ resp_waitcount = CallerCounts + ReaderCounts
  /\ \A p \in Procs : pc[p] \in {"incstore", "decstore"} => reg[p] = resp_waitcount

Prompt == Announced /\ Awaited /\ Counted

Inv ==
  /\ TypeOK /\ Places /\ Budget /\ Locks /\ Order /\ Calls /\ OwnReply /\ Replies
  /\ ~early => Prompt

----------------------------------------------------------------------------
(* Lemmas.                                                                     *)

\* Threads, the free mutex, and the numbers of the actions.
LEMMA Names ==
  /\ Reader \notin Callers /\ Free \notin Procs /\ Reader # Free
  /\ Reader \in Procs /\ \A p \in Callers : p \in Procs
  /\ \A p \in Procs : p = Reader \/ p \in Callers
  /\ \A p \in Callers : p # Reader /\ p # Free
  /\ Null \notin Ids /\ \A n \in Ids : n \in Nat /\ n > 0 /\ n <= MaxActions
  /\ \A n \in Nat : n + 1 <= MaxActions => n + 1 \in Ids
BY AmiConstants DEF Procs, Reader, Free, Ids, Null

\* The counter modulo its range: it neither overflows nor falls below zero where one or
\* two threads are counted.
LEMMA Count ==
  /\ \A n \in Nat : (n + 1) % CountMod \in 0..(CountMod - 1)
  /\ \A n \in Nat : (n + CountMod - 1) % CountMod \in 0..(CountMod - 1)
  /\ \A n \in {0, 1} : (n + 1) % CountMod = n + 1
  /\ \A n \in {1, 2} : (n + CountMod - 1) % CountMod = n - 1
<1>0. CountMod \in Nat /\ CountMod > 2 BY AmiConstants
<1>1. \A n \in Int : n % CountMod \in 0..(CountMod - 1) BY <1>0
<1>2. \A n \in {0, 1} : (n + 1) % CountMod = n + 1 BY <1>0
<1>3. (1 + CountMod - 1) % CountMod = 0 BY <1>0
<1>4. (2 + CountMod - 1) % CountMod = 1 BY <1>0
<1>5. QED BY <1>0, <1>1, <1>2, <1>3, <1>4

\* The callers that have an action to compose are finitely many.
LEMMA PendingFinite ==
  /\ IsFiniteSet(Pending) /\ Cardinality(Pending) \in Nat
  /\ \A p \in Pending : /\ Cardinality(Pending) >= 1
                        /\ Cardinality(Pending \ {p}) = Cardinality(Pending) - 1
<1>1. IsFiniteSet(Pending) BY AmiConstants, FS_Subset DEF Pending
<1>2. Cardinality(Pending) \in Nat BY <1>1, FS_CardinalityType
<1>3. ASSUME NEW p \in Pending
      PROVE  /\ Cardinality(Pending) >= 1
             /\ Cardinality(Pending \ {p}) = Cardinality(Pending) - 1
  <2>1. Cardinality(Pending \ {p}) = Cardinality(Pending) - 1 BY <1>1, FS_RemoveElement
  <2>2. Cardinality(Pending \ {p}) \in Nat BY <1>1, FS_RemoveElement, FS_CardinalityType
  <2>3. QED BY <1>2, <2>1, <2>2
<1>4. QED BY <1>1, <1>2, <1>3

\* An action that is to be composed is within the bound.
LEMMA Room ==
  ASSUME TypeOK, Budget, NEW p \in Callers, pc[p] \in ToCompose
  PROVE  actionid + 1 \in Ids /\ actionid + 1 <= MaxActions
<1>1. p \in Pending BY DEF Pending
<1>2. Cardinality(Pending) \in Nat /\ Cardinality(Pending) >= 1 BY <1>1, PendingFinite
<1>3. actionid \in Nat /\ MaxActions \in Nat BY AmiConstants DEF TypeOK
<1>4. QED BY <1>2, <1>3 DEF Budget, Ids

\* The number a reply is read with is one of an action, or none; it is that of the action
\* where the request is one.
LEMMA ReadId ==
  ASSUME TypeOK, Order, NEW r \in unanswered, NEW n \in ReplyIds(r)
  PROVE  /\ n \in {Null} \cup Ids /\ n <= last
         /\ ~short => r = {n}
<1>1. n \in {Null} \cup Ids BY DEF ReplyIds
<1>2. r \subseteq Ids BY DEF TypeOK
<1>3. n <= last
  <2>1. CASE n \in r BY <2>1 DEF Order
  <2>2. CASE n \notin r
    <3>1. PICK m \in r : n < m BY <2>2 DEF ReplyIds
    <3>2. m <= last /\ m \in Ids BY <1>2, <3>1 DEF Order
    <3>3. n \in Nat /\ m \in Nat /\ last \in Nat BY <1>1, <3>2 DEF TypeOK, Ids, Null
    <3>4. QED BY <3>1, <3>2, <3>3
  <2>3. QED BY <2>1, <2>2
<1>4. ASSUME ~short PROVE r = {n}
  <2>1. PICK m \in Ids : r = {m} BY <1>4 DEF Order
  <2>2. Cardinality(r) = 1 BY <2>1, FS_Singleton
  <2>3. n \in r BY <2>2 DEF ReplyIds
  <2>4. QED BY <2>1, <2>3
<1>5. QED BY <1>1, <1>3, <1>4

----------------------------------------------------------------------------
(* Type correctness and places.                                                *)

\* The steps of the lock and the counter keep the types and the places, be it a
\* caller or ami_event that takes them.
LEMMA RespMutexTyped ==
  ASSUME TypeOK, Places, NEW p \in Procs, RespMutex(p)
  PROVE  TypeOK' /\ Places'
<1> USE Names DEF TypeOK, Places, Pcs, ReaderPcs, Delivering, Goto, manage, wire, records, ghosts
<1>1. CASE IncLoad(p) BY <1>1 DEF IncLoad
<1>2. CASE IncStore(p)
  <2>1. resp_waitcount' \in 0..(CountMod - 1) BY <1>2, Count DEF IncStore
  <2>2. QED BY <1>2, <2>1 DEF IncStore
<1>3. CASE RespLock(p) BY <1>3 DEF RespLock
<1>4. CASE DecLoad(p) BY <1>4 DEF DecLoad
<1>5. CASE DecStore(p)
  <2>1. resp_waitcount' \in 0..(CountMod - 1) BY <1>5, Count DEF DecStore
  <2>2. QED BY <1>5, <2>1 DEF DecStore
<1>6. CASE RespUnlock(p) BY <1>6 DEF RespUnlock
<1>7. QED BY <1>1, <1>2, <1>3, <1>4, <1>5, <1>6 DEF RespMutex

\* So do the other steps of ami_sync and ami_async.
LEMMA CallerTyped ==
  ASSUME TypeOK, Places, Budget, Order, Calls, NEW p \in Callers,
         SyncBegin(p) \/ AsyncBegin(p) \/ Sync(p) \/ Async(p)
  PROVE  TypeOK' /\ Places'
<1> USE Names DEF TypeOK, Places, Pcs, ReaderPcs, Delivering, Goto, AmiLock, Write, manage,
                  wire, records, ghosts
<1>1. CASE SyncBegin(p) BY <1>1 DEF SyncBegin, Begin
<1>2. CASE AsyncBegin(p) BY <1>2 DEF AsyncBegin, Begin
<1>3. CASE SyncLock(p) BY <1>3 DEF SyncLock
<1>4. CASE SyncCompose(p)
  <2>1. actionid + 1 \in Ids /\ actionid + 1 \in 0..MaxActions
    BY <1>4, Room, AmiConstants DEF SyncCompose, ToCompose, Ids
  <2>2. QED BY <1>4, <2>1 DEF SyncCompose, Compose
<1>5. CASE SyncPublish(p) BY <1>5 DEF SyncPublish, Calls, InCall
<1>6. CASE SyncWrite(p)
  <2>1. sdata \in Ids BY <1>6 DEF SyncWrite, Order, Composed, Ids, Null
  <2>2. QED BY ZenonT(60), <1>6, <2>1 DEF SyncWrite
<1>7. CASE SyncWake(p) BY <1>7 DEF SyncWake
<1>8. CASE SyncAwake(p) BY <1>8 DEF SyncAwake
<1>9. CASE SyncReturn(p) BY <1>9 DEF SyncReturn
<1>10. CASE CallerDelete(p) BY ZenonT(60), <1>10 DEF CallerDelete
<1>11. CASE AsyncLock(p) BY <1>11 DEF AsyncLock
<1>12. CASE AsyncCompose(p)
  <2>1. actionid + 1 \in Ids /\ actionid + 1 \in 0..MaxActions
    BY <1>12, Room, AmiConstants DEF AsyncCompose, ToCompose, Ids
  <2>2. QED BY <1>12, <2>1 DEF AsyncCompose, Compose
<1>13. CASE AsyncWrite(p)
  <2>1. sdata \in Ids BY <1>13 DEF AsyncWrite, Order, Composed, Ids, Null
  <2>2. QED BY ZenonT(60), <1>13, <2>1 DEF AsyncWrite
<1>14. CASE RespMutex(p) BY <1>14, RespMutexTyped
<1>15. QED
  BY <1>1, <1>2, <1>3, <1>4, <1>5, <1>6, <1>7, <1>8, <1>9, <1>10, <1>11, <1>12, <1>13,
     <1>14
  DEF Sync, Async

\* So do the steps of ami_event.
LEMMA EventTyped ==
  ASSUME TypeOK, Places, Order, Event \/ Reading
  PROVE  TypeOK' /\ Places'
<1> USE Names DEF TypeOK, Places, Pcs, ReaderPcs, Delivering, Goto, manage, wire, records,
                  ghosts
<1>1. CASE Reading
  <2>1. PICK r \in unanswered : \E n \in ReplyIds(r) : EventRead(r, n)
    BY <1>1 DEF Reading
  <2>2. PICK n \in ReplyIds(r) : EventRead(r, n) BY <2>1
  <2>3. n \in {Null} \cup Ids BY ReadId
  <2>4. QED BY <2>2, <2>3 DEF EventRead
<1>2. CASE EventPResp BY <1>2 DEF EventPResp
<1>3. CASE EventCount BY <1>3 DEF EventCount
<1>4. CASE EventMode BY <1>4 DEF EventMode
<1>5. CASE EventClear BY <1>5 DEF EventClear
<1>6. CASE EventOther BY <1>6 DEF EventOther
<1>7. CASE EventFill
  <2>1. /\ pc' \in [Procs -> Pcs] /\ Places' /\ rc' \in [Callers -> {"signal", "spurious", "timeout"}]
        /\ pc'[Reader] = "dec"
    BY <1>7 DEF EventFill, Signal
  <2>2. QED BY <1>7, <2>1 DEF EventFill
<1>8. CASE RespMutex(Reader) BY <1>8, RespMutexTyped
<1>9. QED BY <1>1, <1>2, <1>3, <1>4, <1>5, <1>6, <1>7, <1>8 DEF Event

----------------------------------------------------------------------------
(* The locks.                                                                  *)

\* A step of a caller keeps who holds the two mutexes.
LEMMA CallerLocks ==
  ASSUME TypeOK, Places, Locks, NEW p \in Callers,
         SyncBegin(p) \/ AsyncBegin(p) \/ Sync(p) \/ Async(p)
  PROVE  Locks'
<1> USE Names DEF TypeOK, Places, Locks, AmiHeld, RespHeld, Goto, AmiLock, manage
<1>1. CASE SyncBegin(p) \/ AsyncBegin(p)
  BY <1>1 DEF SyncBegin, AsyncBegin, Begin
<1>2. CASE SyncLock(p) \/ AsyncLock(p) BY <1>2 DEF SyncLock, AsyncLock
<1>3. CASE SyncCompose(p) \/ AsyncCompose(p) BY <1>3 DEF SyncCompose, AsyncCompose
<1>4. CASE SyncPublish(p) BY <1>4 DEF SyncPublish
<1>5. CASE SyncWrite(p) BY <1>5 DEF SyncWrite
<1>6. CASE AsyncWrite(p) BY <1>6 DEF AsyncWrite
<1>7. CASE SyncWake(p) BY <1>7 DEF SyncWake
<1>8. CASE SyncAwake(p) BY <1>8 DEF SyncAwake
<1>9. CASE SyncReturn(p) \/ CallerDelete(p) BY <1>9 DEF SyncReturn, CallerDelete
<1>10. CASE IncLoad(p) \/ IncStore(p) BY <1>10 DEF IncLoad, IncStore
<1>11. CASE RespLock(p) \/ RespUnlock(p) BY <1>11 DEF RespLock, RespUnlock
<1>12. CASE DecLoad(p) \/ DecStore(p) BY <1>12 DEF DecLoad, DecStore
<1>13. QED
  BY <1>1, <1>2, <1>3, <1>4, <1>5, <1>6, <1>7, <1>8, <1>9, <1>10, <1>11, <1>12
  DEF Sync, Async, RespMutex

\* So does a step of ami_event; the signal only makes the waiting threads ask for the
\* mutex.
LEMMA EventLocks ==
  ASSUME TypeOK, Places, Locks, Event \/ Reading
  PROVE  Locks'
<1> USE Names DEF TypeOK, Places, Locks, AmiHeld, RespHeld, Goto, manage
<1>1. CASE Reading BY <1>1 DEF Reading, EventRead
<1>2. CASE EventPResp \/ EventCount \/ EventMode
  BY <1>2 DEF EventPResp, EventCount, EventMode
<1>3. CASE EventClear \/ EventOther BY <1>3 DEF EventClear, EventOther
<1>4. CASE EventFill BY <1>4 DEF EventFill, Signal
<1>5. CASE IncLoad(Reader) \/ IncStore(Reader) BY <1>5 DEF IncLoad, IncStore
<1>6. CASE RespLock(Reader) \/ RespUnlock(Reader) BY <1>6 DEF RespLock, RespUnlock
<1>7. CASE DecLoad(Reader) \/ DecStore(Reader) BY <1>7 DEF DecLoad, DecStore
<1>8. QED BY <1>1, <1>2, <1>3, <1>4, <1>5, <1>6, <1>7 DEF Event, RespMutex

----------------------------------------------------------------------------
(* The bound on the actions.                                                   *)

\* A thread that begins a call keeps the number of actions within the bound.
LEMMA BeginBudget ==
  ASSUME TypeOK, Budget, NEW p \in Callers, SyncBegin(p) \/ AsyncBegin(p)
  PROVE  Budget'
<1> DEFINE Busy == {q \in Callers : pc[q] # "idle"}
<1>1. IsFiniteSet(Busy) /\ Pending \subseteq Busy
  BY AmiConstants, FS_Subset DEF Pending, ToCompose
<1>2. /\ actionid + Cardinality(Busy) < MaxActions /\ pc[p] = "idle"
      /\ \/ pc' = [pc EXCEPT ![p] = "amilock"]
         \/ pc' = [pc EXCEPT ![p] = "asynclock"]
      /\ actionid' = actionid
  BY DEF SyncBegin, AsyncBegin, Begin, Goto, manage
<1>3. Pending' = Pending \cup {p}
  BY <1>2, Names DEF TypeOK, Pending, ToCompose
<1>4. p \notin Pending BY <1>2 DEF Pending, ToCompose
<1>5. Cardinality(Pending \cup {p}) = Cardinality(Pending) + 1
  BY <1>4, PendingFinite, FS_AddElement
<1>6. Cardinality(Pending) <= Cardinality(Busy) /\ Cardinality(Busy) \in Nat
  BY <1>1, FS_Subset, FS_CardinalityType
<1>7. actionid \in Nat /\ MaxActions \in Nat /\ Cardinality(Pending) \in Nat
  BY AmiConstants, PendingFinite DEF TypeOK
<1>8. QED BY <1>2, <1>3, <1>5, <1>6, <1>7 DEF Budget

\* So does a thread that composes an action.
LEMMA ComposeBudget ==
  ASSUME TypeOK, Budget, NEW p \in Callers, SyncCompose(p) \/ AsyncCompose(p)
  PROVE  Budget'
<1>1. /\ p \in Pending /\ actionid' = actionid + 1
      /\ \/ pc' = [pc EXCEPT ![p] = "publish"]
         \/ pc' = [pc EXCEPT ![p] = "asyncwrite"]
  BY DEF SyncCompose, AsyncCompose, Compose, Goto, Pending, ToCompose
<1>2. Pending' = Pending \ {p} BY <1>1, Names DEF TypeOK, Pending, ToCompose
<1>3. Cardinality(Pending \ {p}) = Cardinality(Pending) - 1 BY <1>1, PendingFinite
<1>4. actionid \in Nat /\ MaxActions \in Nat /\ Cardinality(Pending) \in Nat
  BY AmiConstants, PendingFinite DEF TypeOK
<1>5. QED BY <1>1, <1>2, <1>3, <1>4 DEF Budget

\* No other step changes which callers have an action to compose.
LEMMA SameBudget ==
  ASSUME Budget, UNCHANGED actionid,
         \A p \in Callers : pc'[p] \in ToCompose <=> pc[p] \in ToCompose
  PROVE  Budget'
<1>1. Pending' = Pending BY DEF Pending
<1>2. QED BY <1>1 DEF Budget

\* A step of a caller keeps the bound.
LEMMA CallerBudget ==
  ASSUME TypeOK, Budget, NEW p \in Callers,
         SyncBegin(p) \/ AsyncBegin(p) \/ Sync(p) \/ Async(p)
  PROVE  Budget'
<1>1. CASE SyncBegin(p) \/ AsyncBegin(p) BY <1>1, BeginBudget
<1>2. CASE SyncCompose(p) \/ AsyncCompose(p) BY <1>2, ComposeBudget
<1>3. CASE \/ SyncLock(p) \/ SyncPublish(p) \/ SyncWrite(p) \/ SyncWake(p) \/ SyncAwake(p)
           \/ SyncReturn(p) \/ CallerDelete(p) \/ AsyncLock(p) \/ AsyncWrite(p)
  BY <1>3, SameBudget, Names
  DEF SyncLock, SyncPublish, SyncWrite, SyncWake, SyncAwake, SyncReturn, CallerDelete,
      AsyncLock, AsyncWrite, AmiLock, Goto, TypeOK, ToCompose, manage
<1>4. CASE RespMutex(p)
  BY <1>4, SameBudget, Names
  DEF RespMutex, IncLoad, IncStore, RespLock, DecLoad, DecStore, RespUnlock, Goto, TypeOK,
      ToCompose, manage
<1>5. QED BY <1>1, <1>2, <1>3, <1>4 DEF Sync, Async

\* So does a step of ami_event.
LEMMA EventBudget ==
  ASSUME TypeOK, Budget, Event \/ Reading
  PROVE  Budget'
<1> USE SameBudget, Names DEF TypeOK, ToCompose, Goto, manage
<1>1. CASE Reading BY <1>1 DEF Reading, EventRead
<1>2. CASE EventPResp \/ EventCount \/ EventMode \/ EventClear \/ EventOther
  BY <1>2 DEF EventPResp, EventCount, EventMode, EventClear, EventOther
<1>3. CASE EventFill BY <1>3 DEF EventFill, Signal
<1>4. CASE RespMutex(Reader)
  BY <1>4 DEF RespMutex, IncLoad, IncStore, RespLock, DecLoad, DecStore, RespUnlock
<1>5. QED BY <1>1, <1>2, <1>3, <1>4 DEF Event

----------------------------------------------------------------------------
(* The order of the actions on the wire.                                       *)

\* A step of a caller keeps the order: nobody composes while another action waits in
\* the send buffer.
LEMMA CallerOrder ==
  ASSUME TypeOK, Places, Locks, Order, NEW p \in Callers,
         SyncBegin(p) \/ AsyncBegin(p) \/ Sync(p) \/ Async(p)
  PROVE  Order'
<1> USE Names DEF TypeOK, Order, Composed, Goto, AmiLock, manage, wire
<1>1. CASE SyncCompose(p) \/ AsyncCompose(p)
  <2>1. \A q \in Callers : pc[q] \notin Composed
    BY <1>1 DEF SyncCompose, AsyncCompose, Locks, AmiHeld
  <2>2. actionid = last BY <2>1
  <2>3. actionid' = last' + 1 BY <1>1, <2>2 DEF SyncCompose, AsyncCompose, Compose
  <2>4. QED BY <1>1, <2>3 DEF SyncCompose, AsyncCompose, Compose
<1>2. CASE SyncWrite(p) \/ AsyncWrite(p)
  <2>1. \A q \in Callers : q # p => pc[q] \notin Composed
    BY <1>2 DEF SyncWrite, AsyncWrite, Locks, AmiHeld
  <2>2. actionid = last + 1 /\ sdata = last + 1 BY <1>2 DEF SyncWrite, AsyncWrite
  <2>3. /\ last' = last + 1 /\ UNCHANGED <<actionid, sdata, msg>>
        /\ \/ /\ unanswered' = unanswered \cup {tail \cup {sdata}}
              /\ tail' = {} /\ short' = short
           \/ /\ unanswered' = unanswered /\ tail' \in {tail, tail \cup {sdata}}
              /\ short' = TRUE
    BY <1>2, <2>2 DEF SyncWrite, AsyncWrite, Write
  <2>4. \A q \in Callers : pc'[q] \notin Composed
    BY <1>2, <2>1 DEF SyncWrite, AsyncWrite
  <2>5. last \in Nat /\ msg \in Nat /\ sdata \in Ids BY <2>2 DEF Ids, Null
  <2>6. /\ \A r \in unanswered : \A n \in r : n \in Nat /\ n <= last
        /\ \A n \in tail : n \in Nat /\ n <= last
    BY DEF Ids
  <2>7. sdata \notin tail /\ sdata \notin UNION unanswered BY <2>2, <2>5, <2>6
  <2>8. /\ \A r \in unanswered' : \A n \in r : n <= last'
        /\ \A n \in tail' : n <= last'
    <3>1. /\ \A r \in unanswered : \A n \in r : n <= last + 1
          /\ \A n \in tail \cup {sdata} : n <= last + 1
      BY <2>2, <2>5, <2>6
    <3>2. QED BY <2>3, <3>1
  <2>9. tail' \cap UNION unanswered' = {} BY <2>3, <2>7
  <2>10. ~short' => tail' = {} /\ \A r \in unanswered' : \E n \in Ids : r = {n}
    <3>1. SUFFICES ASSUME ~short'
                   PROVE  tail' = {} /\ \A r \in unanswered' : \E n \in Ids : r = {n}
      OBVIOUS
    <3>2. /\ tail = {} /\ \A r \in unanswered : \E n \in Ids : r = {n}
          /\ unanswered' = unanswered \cup {tail \cup {sdata}} /\ tail' = {}
      BY <2>3, <3>1
    <3>3. tail \cup {sdata} = {sdata} BY <3>2
    <3>4. QED BY <2>5, <3>2, <3>3
  <2>11. QED BY <2>2, <2>3, <2>4, <2>5, <2>8, <2>9, <2>10
<1>3. CASE \/ SyncBegin(p) \/ AsyncBegin(p) \/ SyncLock(p) \/ SyncPublish(p)
           \/ SyncWake(p) \/ SyncAwake(p) \/ SyncReturn(p) \/ CallerDelete(p)
           \/ AsyncLock(p)
  BY <1>3
  DEF SyncBegin, AsyncBegin, Begin, SyncLock, SyncPublish, SyncWake, SyncAwake,
      SyncReturn, CallerDelete, AsyncLock
<1>4. CASE RespMutex(p)
  BY <1>4 DEF RespMutex, IncLoad, IncStore, RespLock, DecLoad, DecStore, RespUnlock
<1>5. QED BY <1>1, <1>2, <1>3, <1>4 DEF Sync, Async

\* So does a step of ami_event.
LEMMA EventOrder ==
  ASSUME TypeOK, Places, Order, Event \/ Reading
  PROVE  Order'
<1> USE Names DEF TypeOK, Order, Composed, Goto, manage, wire
<1>1. CASE Reading
  <2>1. PICK r \in unanswered : \E n \in ReplyIds(r) : EventRead(r, n)
    BY <1>1 DEF Reading
  <2>2. PICK n \in ReplyIds(r) : EventRead(r, n) BY <2>1
  <2>3. n <= last BY ReadId
  <2>4. QED BY <2>2, <2>3 DEF EventRead
<1>2. CASE EventPResp \/ EventCount \/ EventMode \/ EventClear \/ EventOther
  BY <1>2 DEF EventPResp, EventCount, EventMode, EventClear, EventOther
<1>3. CASE EventFill BY <1>3 DEF EventFill, Signal
<1>4. CASE RespMutex(Reader)
  BY <1>4 DEF RespMutex, IncLoad, IncStore, RespLock, DecLoad, DecStore, RespUnlock
<1>5. QED BY <1>1, <1>2, <1>3, <1>4 DEF Event

----------------------------------------------------------------------------
(* The calls and their records.                                                *)

\* A step of a caller keeps the calls' numbers: the one that holds mutexAMI has the
\* last action, and no two have the same.
LEMMA CallerCalls ==
  ASSUME TypeOK, Places, Budget, Locks, Calls, NEW p \in Callers,
         SyncBegin(p) \/ AsyncBegin(p) \/ Sync(p) \/ Async(p)
  PROVE  Calls'
<1> USE Names DEF TypeOK, Calls, InCall, Answered, Goto, AmiLock, manage
<1>0. \A q \in Callers : id[q] \in Nat /\ actionid \in Nat BY DEF Ids, Null
<1>1. CASE SyncCompose(p)
  <2>1. \A q \in Callers : q # p => pc[q] \notin InCall \ {"returned"}
    BY <1>1 DEF SyncCompose, Locks, AmiHeld
  <2>2. /\ pc[p] = "locked" /\ pc' = [pc EXCEPT ![p] = "publish"]
        /\ id' = [id EXCEPT ![p] = actionid + 1] /\ actionid' = actionid + 1
    BY <1>1 DEF SyncCompose, Compose
  <2>3. actionid + 1 # Null /\ \A q \in Callers : id[q] < actionid + 1
    BY <1>0 DEF Null
  <2>4. QED BY <1>0, <2>1, <2>2, <2>3
<1>2. CASE AsyncCompose(p)
  <2>1. \A q \in Callers : pc[q] \notin InCall \ {"returned"}
    BY <1>2 DEF AsyncCompose, Locks, AmiHeld
  <2>2. QED BY <1>0, <1>2, <2>1 DEF AsyncCompose, Compose
<1>3. CASE CallerDelete(p)
  <2>1. /\ pc[p] = "returned" /\ pc' = [pc EXCEPT ![p] = "idle"]
        /\ id' = [id EXCEPT ![p] = Null] /\ actionid' = actionid
    BY <1>3 DEF CallerDelete
  <2>2. Null <= actionid BY <1>0 DEF Null
  <2>3. QED BY <2>1, <2>2
<1>4. CASE \/ SyncBegin(p) \/ AsyncBegin(p) \/ SyncLock(p) \/ SyncPublish(p) \/ SyncWrite(p)
           \/ SyncWake(p) \/ SyncAwake(p) \/ SyncReturn(p) \/ AsyncLock(p) \/ AsyncWrite(p)
  BY <1>4
  DEF SyncBegin, AsyncBegin, Begin, SyncLock, SyncPublish, SyncWrite, SyncWake, SyncAwake,
      SyncReturn, AsyncLock, AsyncWrite
<1>5. CASE IncLoad(p) \/ IncStore(p) \/ RespLock(p)
  BY <1>5 DEF IncLoad, IncStore, RespLock
<1>6. CASE DecLoad(p) \/ DecStore(p) \/ RespUnlock(p)
  BY <1>6 DEF DecLoad, DecStore, RespUnlock
<1>7. QED BY <1>1, <1>2, <1>3, <1>4, <1>5, <1>6 DEF Sync, Async, RespMutex

\* So does a step of ami_event.
LEMMA EventCalls ==
  ASSUME TypeOK, Places, Calls, Event \/ Reading
  PROVE  Calls'
<1> USE Names DEF TypeOK, Calls, InCall, Answered, Goto, manage
<1>1. CASE Reading BY <1>1 DEF Reading, EventRead
<1>2. CASE EventPResp \/ EventCount \/ EventMode \/ EventClear \/ EventOther
  BY <1>2 DEF EventPResp, EventCount, EventMode, EventClear, EventOther
<1>3. CASE EventFill BY <1>3 DEF EventFill, Signal
<1>4. CASE RespMutex(Reader)
  BY <1>4 DEF RespMutex, IncLoad, IncStore, RespLock, DecLoad, DecStore, RespUnlock
<1>5. QED BY <1>1, <1>2, <1>3, <1>4 DEF Event

----------------------------------------------------------------------------
(* A reply reaches the call it belongs to.                                     *)

\* A step of a caller leaves the replies with their calls.
LEMMA CallerReplies ==
  ASSUME TypeOK, Places, Budget, Locks, Calls, OwnReply, Replies, NEW p \in Callers,
         SyncBegin(p) \/ AsyncBegin(p) \/ Sync(p) \/ Async(p)
  PROVE  OwnReply' /\ Replies'
<1> USE Names DEF TypeOK, OwnReply, Replies, Answered, Goto, AmiLock, manage, records
<1>0. \A q \in Callers : id[q] \in Nat /\ actionid \in Nat BY DEF Ids, Null
<1>1. CASE SyncCompose(p)
  <2>1. \A q \in Callers : q # p => pc[q] \notin {"write", "wait"}
    BY <1>1 DEF SyncCompose, Locks, AmiHeld
  <2>2. /\ pc[p] = "locked" /\ pc' = [pc EXCEPT ![p] = "publish"]
        /\ id' = [id EXCEPT ![p] = actionid + 1]
        /\ mode' = [mode EXCEPT ![actionid + 1] = "requst"]
        /\ UNCHANGED <<pResp, got, rc>>
    BY <1>1 DEF SyncCompose
  <2>3. \A q \in Callers : id[q] # actionid + 1 BY <1>0 DEF Calls
  <2>4. actionid + 1 \in Ids BY <1>1, Room DEF SyncCompose, ToCompose
  <2>5. OwnReply' BY <2>2, <2>3, <2>4
  <2>6. Replies' BY <2>1, <2>2, <2>3, <2>4
  <2>7. QED BY <2>5, <2>6
<1>2. CASE SyncPublish(p)
  <2>1. \A q \in Callers : q # p => pc[q] \notin {"write", "wait"}
    BY <1>2 DEF SyncPublish, Locks, AmiHeld
  <2>2. \A q \in Callers : q # p /\ pc[q] \in Answered => id[q] # id[p]
    BY DEF Calls, InCall
  <2>3. /\ pc[p] = "publish" /\ pc' = [pc EXCEPT ![p] = "write"]
        /\ pResp' = id[p] /\ UNCHANGED <<id, mode, got, rc>>
    BY <1>2 DEF SyncPublish
  <2>4. QED BY <2>1, <2>2, <2>3
<1>3. CASE SyncWake(p)
  <2>1. \A q \in Callers : q # p => rc'[q] = rc[q] BY <1>3 DEF SyncWake
  <2>2. rc'[p] # "signal" BY <1>3 DEF SyncWake
  <2>3. QED BY <1>3, <2>1, <2>2 DEF SyncWake
<1>4. CASE CallerDelete(p)
  <2>1. id[p] \in Ids BY <1>4 DEF CallerDelete, Calls, InCall
  <2>2. \A q \in Callers : q # p => id[q] # id[p] BY <2>1 DEF Calls
  <2>3. /\ mode' = [mode EXCEPT ![id[p]] = "deleted"] /\ UNCHANGED <<got, pResp>>
        /\ id' = [id EXCEPT ![p] = Null] /\ rc' = [rc EXCEPT ![p] = "signal"]
        /\ pc' = [pc EXCEPT ![p] = "idle"]
    BY <1>4 DEF CallerDelete
  <2>4. OwnReply' BY <2>1, <2>2, <2>3
  <2>5. Replies' BY <2>1, <2>2, <2>3
  <2>6. QED BY <2>4, <2>5
<1>5. CASE SyncWrite(p) \/ SyncAwake(p)
  BY <1>5 DEF SyncWrite, SyncAwake
<1>6. CASE SyncReturn(p) BY <1>6 DEF SyncReturn
<1>7. CASE \/ SyncBegin(p) \/ AsyncBegin(p) \/ SyncLock(p) \/ AsyncLock(p) \/ AsyncCompose(p)
           \/ AsyncWrite(p)
  BY <1>7
  DEF SyncBegin, AsyncBegin, Begin, SyncLock, AsyncLock, AsyncCompose, AsyncWrite
<1>8. CASE IncLoad(p) \/ IncStore(p) \/ RespLock(p)
  BY <1>8 DEF IncLoad, IncStore, RespLock
<1>9. CASE DecLoad(p) \/ DecStore(p) \/ RespUnlock(p)
  BY <1>9 DEF DecLoad, DecStore, RespUnlock
<1>10. QED
  BY <1>1, <1>2, <1>3, <1>4, <1>5, <1>6, <1>7, <1>8, <1>9 DEF Sync, Async, RespMutex

\* The record ami_event fills belongs to the thread that waits, and the reply is the
\* last action's; or nobody waits, and the caller of the record knows of it.
LEMMA FillReplies ==
  ASSUME TypeOK, Places, Locks, Order, Calls, OwnReply, Replies, EventFill
  PROVE  OwnReply' /\ Replies'
<1> USE Names DEF TypeOK, Answered
<1>1. /\ pc[Reader] = "locked" /\ pResp \in Ids /\ msg >= actionid /\ pResp' = Null
      /\ mode' = [mode EXCEPT ![pResp] = IF @ = "deleted" THEN @ ELSE "response"]
      /\ got' = [got EXCEPT ![pResp] = msg] /\ id' = id
  BY DEF EventFill
<1>2. \A p \in Callers :
        /\ pc'[p] = IF pc[p] = "wait" THEN "reacq" ELSE pc[p]
        /\ rc'[p] = IF pc[p] = "wait" THEN "signal" ELSE rc[p]
  BY DEF EventFill, Signal
<1>3. \A p \in Callers : pc[p] # "write" /\ pc[p] # "publish"
  BY <1>1 DEF Locks, RespHeld
<1>4. msg <= actionid
  <2>1. last <= actionid /\ msg <= last BY DEF Order, Ids, Null
  <2>2. QED BY <2>1 DEF Ids, Null
<1>5. \A p \in Callers : pc[p] = "wait" => pResp = id[p] /\ msg = pResp
  <2>1. SUFFICES ASSUME NEW p \in Callers, pc[p] = "wait" PROVE pResp = id[p] /\ msg = pResp
    OBVIOUS
  <2>2. pResp = id[p] BY <1>1, <2>1 DEF Replies
  <2>3. id[p] = actionid BY <2>1 DEF Calls, InCall
  <2>4. QED BY <1>1, <1>4, <2>2, <2>3 DEF Ids, Null
<1>6. OwnReply'
  <2>1. SUFFICES ASSUME NEW p \in Callers, id[p] # Null
                 PROVE  /\ rc'[p] = "signal" /\ pc'[p] \in Answered
                             => mode'[id[p]] = "response"
                        /\ mode'[id[p]] = "response" /\ (rc'[p] = "signal" \/ pc'[p] # "returned")
                             => got'[id[p]] = id[p]
    BY <1>1 DEF OwnReply
  <2>2. /\ pc[p] \in {"wait"} \cup Answered /\ id[p] \in Ids
        /\ mode[id[p]] \in {"requst", "response"}
    BY <1>3, <2>1 DEF Calls, InCall, Replies
  <2>3. CASE pc[p] = "wait" BY <1>1, <1>5, <2>2, <2>3
  <2>4. CASE pc[p] # "wait" /\ pResp = id[p]
    <3>1. rc'[p] # "signal" BY <1>2, <2>2, <2>4 DEF Replies
    <3>2. pc[p] # "returned" => msg = id[p]
      <4>1. pc[p] # "returned" => id[p] = actionid
        BY <2>2, <2>4 DEF Calls, InCall
      <4>2. QED BY <1>1, <1>4, <4>1 DEF Ids, Null
    <3>3. pc'[p] = pc[p] BY <1>2, <2>4
    <3>4. got'[id[p]] = msg BY <1>1, <2>4
    <3>5. QED BY <3>1, <3>2, <3>3, <3>4
  <2>5. CASE pc[p] # "wait" /\ pResp # id[p]
    <3>1. pc'[p] = pc[p] /\ rc'[p] = rc[p] BY <1>2, <2>5
    <3>2. mode'[id[p]] = mode[id[p]] /\ got'[id[p]] = got[id[p]] BY <1>1, <2>2, <2>5
    <3>3. QED BY <2>1, <3>1, <3>2 DEF OwnReply
  <2>6. QED BY <2>3, <2>4, <2>5
<1>7. Replies'
  <2>1. ASSUME NEW p \in Callers, id[p] # Null
        PROVE  mode'[id[p]] \in {"requst", "response"}
    BY <1>1, <2>1 DEF Replies
  <2>2. QED BY <1>1, <1>2, <1>3, <2>1 DEF Replies, Calls, InCall
<1>8. QED BY <1>6, <1>7

\* A step of ami_event leaves the replies with their calls.
LEMMA EventReplies ==
  ASSUME TypeOK, Places, Locks, Order, Calls, OwnReply, Replies,
         Event \/ Reading
  PROVE  OwnReply' /\ Replies'
<1> USE Names DEF TypeOK, OwnReply, Replies, Answered, Goto, manage, records
<1>1. CASE Reading BY <1>1 DEF Reading, EventRead
<1>2. CASE EventPResp \/ EventCount \/ EventMode \/ EventOther
  BY <1>2 DEF EventPResp, EventCount, EventMode, EventOther
<1>3. CASE EventClear BY <1>3 DEF EventClear, Calls, InCall
<1>4. CASE EventFill BY <1>4, FillReplies
<1>5. CASE RespMutex(Reader)
  BY <1>5 DEF RespMutex, IncLoad, IncStore, RespLock, DecLoad, DecStore, RespUnlock
<1>6. QED BY <1>1, <1>2, <1>3, <1>4, <1>5 DEF Event

----------------------------------------------------------------------------
(* What holds until a wait ends early.                                         *)

\* At most one caller is between locking and unlocking mutexAMI, so what is counted of
\* the callers is known from where one of them is.
LEMMA OneCaller ==
  ASSUME Locks, NEW p \in Callers, pc[p] \in AmiHeld
  PROVE  /\ \A q \in Callers : q # p => pc[q] \notin AmiHeld
         /\ CallerCounts = IF pc[p] \in CountedPcs THEN 1 ELSE 0
BY DEF Locks, AmiHeld, CallerCounts, CountedPcs

\* As long as no wait has ended early ami_event is past its unprotected tests only while
\* a caller waits or is about to; in particular it is not while a caller counts itself.
LEMMA Quiet ==
  ASSUME TypeOK, Places, Locks, Prompt, NEW p \in Callers, pc[p] \in AmiHeld
  PROVE  /\ pc[p] \notin {"write", "wait"}
              => /\ pResp = Null
                 /\ pc[Reader] \notin Delivering \ {"pResp"}
         /\ pc[p] \notin {"write", "wait", "reacq"}
              => pc[Reader] \notin {"dec", "decstore", "unlock"}
<1>1. \A q \in Callers : q # p => pc[q] \notin AmiHeld BY OneCaller
<1>2. CASE pc[p] \notin {"write", "wait"}
  <2>1. pResp = Null BY <1>1, <1>2 DEF Prompt, Announced, AmiHeld
  <2>2. pc[Reader] \notin Delivering \ {"pResp"} BY <2>1 DEF TypeOK, Delivering
  <2>3. QED BY <1>1, <1>2, <2>1, <2>2 DEF Prompt, Announced, AmiHeld
<1>3. QED BY <1>2

\* What is counted of the callers after the one with mutexAMI has gone elsewhere.
LEMMA CallerMoved ==
  ASSUME TypeOK, Locks, NEW p \in Callers, NEW to, pc[p] \in AmiHeld,
         pc' = [pc EXCEPT ![p] = to]
  PROVE  /\ CallerCounts' = IF to \in CountedPcs THEN 1 ELSE 0
         /\ ReaderCounts' = ReaderCounts
         /\ pc'[p] = to /\ pc'[Reader] = pc[Reader]
         /\ \A q \in Callers : q # p => pc'[q] = pc[q] /\ pc[q] \notin AmiHeld
BY Names, OneCaller DEF TypeOK, CallerCounts, ReaderCounts, CountedPcs, AmiHeld

\* The steps of the lock and the counter, taken by a caller: ami_event has loaded nothing
\* that it still has to store.
LEMMA CallerMutexPrompt ==
  ASSUME TypeOK, Places, Locks, Calls, Prompt, NEW p \in Callers, RespMutex(p)
  PROVE  Prompt'
<1> DEFINE Before == {"inc", "incstore", "resplock"}
           After == {"dec", "decstore", "unlock"}
<1>1. PICK to : /\ pc' = [pc EXCEPT ![p] = to]
                /\ \/ pc[p] \in Before /\ to \in {"incstore", "resplock", "locked"}
                   \/ pc[p] \in After /\ to \in {"decstore", "unlock", "amiunlock"}
  BY Names
  DEF RespMutex, Goto, IncLoad, IncStore, RespLock, DecLoad, DecStore, RespUnlock
<1>2. UNCHANGED <<pResp, mode, id, unanswered, short, msg, stale>>
  BY DEF RespMutex, IncLoad, IncStore, RespLock, DecLoad, DecStore, RespUnlock, manage,
         wire, records, ghosts
<1>3. /\ pc'[p] = to /\ pc'[Reader] = pc[Reader]
      /\ \A q \in Callers : q # p => pc'[q] = pc[q] /\ pc[q] \notin AmiHeld
      /\ CallerCounts' = IF to \in CountedPcs THEN 1 ELSE 0
      /\ CallerCounts = IF pc[p] \in CountedPcs THEN 1 ELSE 0
      /\ ReaderCounts' = ReaderCounts
  <2>1. pc[p] \in AmiHeld /\ pc' = [pc EXCEPT ![p] = to] BY <1>1 DEF AmiHeld
  <2>2. /\ CallerCounts = IF pc[p] \in CountedPcs THEN 1 ELSE 0
        /\ \A q \in Callers : q # p => pc[q] \notin AmiHeld
    BY <2>1, OneCaller
  <2>3. /\ pc'[p] = to /\ pc'[Reader] = pc[Reader] /\ ReaderCounts' = ReaderCounts
        /\ \A q \in Callers : q # p => pc'[q] = pc[q]
        /\ CallerCounts' = IF to \in CountedPcs THEN 1 ELSE 0
    BY <2>1, CallerMoved
  <2>4. QED BY <2>2, <2>3
<1>4. /\ pResp = Null /\ pc[Reader] \notin Delivering \ {"pResp"}
      /\ pc[Reader] \notin {"dec", "decstore", "unlock"}
  BY <1>1, Quiet DEF AmiHeld
<1>5. ReaderCounts = 0 /\ pc[Reader] \notin {"incstore", "decstore"}
  BY <1>4 DEF ReaderCounts, CountedPcs, Delivering, Places, ReaderPcs
<1>6. Announced'
  BY <1>1, <1>2, <1>3, <1>4 DEF Prompt, Announced, AmiHeld
<1>7. Awaited'
  <2>1. \A q \in Callers : q # p =>
          pc'[q] \notin {"publish", "write", "wait", "reacq", "dec", "decstore", "unlock"}
    BY <1>3 DEF AmiHeld
  <2>2. pc'[p] \in {"dec", "decstore", "unlock"} => mode[id[p]] = "response"
    BY <1>1, <1>3 DEF Prompt, Awaited
  <2>3. QED BY <1>1, <1>2, <1>3, <2>1, <2>2 DEF Awaited
<1>8. Counted'
  <2>0. \A q \in Procs : q # p => pc'[q] \notin {"incstore", "decstore"}
    BY <1>3, <1>5, Names DEF AmiHeld
  <2>1. resp_waitcount = CallerCounts BY <1>3, <1>5 DEF Prompt, Counted
  <2>2. resp_waitcount' = CallerCounts'
    <3>1. CASE IncStore(p)
      <4>1. resp_waitcount = 0 /\ reg[p] = 0
        BY <1>3, <2>1, <3>1, Names DEF IncStore, Goto, Prompt, Counted, CountedPcs
      <4>2. resp_waitcount' = 1 BY <3>1, <4>1, Count DEF IncStore
      <4>3. pc'[p] = "resplock" BY <1>1, <1>3, <3>1, Names DEF IncStore, Goto, TypeOK
      <4>4. QED BY <1>3, <4>2, <4>3 DEF CountedPcs
    <3>2. CASE DecStore(p)
      <4>1. resp_waitcount = 1 /\ reg[p] = 1
        BY <1>3, <2>1, <3>2, Names DEF DecStore, Goto, Prompt, Counted, CountedPcs
      <4>2. resp_waitcount' = 0 BY <3>2, <4>1, Count DEF DecStore
      <4>3. pc'[p] = "unlock" BY <1>1, <1>3, <3>2, Names DEF DecStore, Goto, TypeOK
      <4>4. QED BY <1>3, <4>2, <4>3 DEF CountedPcs
    <3>3. CASE IncLoad(p) \/ RespLock(p) \/ DecLoad(p) \/ RespUnlock(p)
      <4>1. resp_waitcount' = resp_waitcount
        BY <3>3 DEF IncLoad, RespLock, DecLoad, RespUnlock, manage
      <4>2. pc'[p] \in CountedPcs <=> pc[p] \in CountedPcs
        BY <3>3, Names DEF IncLoad, RespLock, DecLoad, RespUnlock, Goto, CountedPcs, TypeOK
      <4>3. QED BY <1>3, <2>1, <4>1, <4>2
    <3>4. QED BY <3>1, <3>2, <3>3 DEF RespMutex
  <2>3. pc'[p] \in {"incstore", "decstore"} => reg'[p] = resp_waitcount'
    BY Names
    DEF RespMutex, Goto, IncLoad, IncStore, RespLock, DecLoad, DecStore, RespUnlock, TypeOK,
        manage
  <2>4. QED BY <1>3, <1>5, <2>0, <2>2, <2>3 DEF Counted
<1>9. QED BY <1>6, <1>7, <1>8 DEF Prompt

\* A step of a caller that leaves it where it counts for the counter, and leaves the
\* counter alone, leaves the counter exact.
LEMMA SameCount ==
  ASSUME TypeOK, Counted, NEW p \in Callers, NEW to,
         pc' = [pc EXCEPT ![p] = to], pc[p] \in CountedPcs <=> to \in CountedPcs,
         to \notin {"incstore", "decstore"},
         UNCHANGED <<reg, resp_waitcount>>
  PROVE  Counted'
<1>1. \A q \in Procs : pc'[q] = IF q = p THEN to ELSE pc[q] BY Names DEF TypeOK
<1>2. CallerCounts' = CallerCounts BY <1>1, Names DEF CallerCounts
<1>3. ReaderCounts' = ReaderCounts BY <1>1, Names DEF ReaderCounts
<1>4. QED BY <1>1, <1>2, <1>3 DEF Counted

\* The other steps of ami_sync and ami_async, except a wait that ends early, leave the
\* counter exact.
LEMMA CallerCounted ==
  ASSUME TypeOK, Counted, NEW p \in Callers,
         SyncBegin(p) \/ AsyncBegin(p) \/ Sync(p) \/ Async(p), ~SyncWake(p), ~RespMutex(p)
  PROVE  Counted'
<1> USE SameCount DEF Goto, AmiLock, manage, CountedPcs
<1>1. CASE SyncBegin(p) \/ AsyncBegin(p) BY <1>1 DEF SyncBegin, AsyncBegin, Begin
<1>2. CASE SyncLock(p) \/ AsyncLock(p) BY <1>2 DEF SyncLock, AsyncLock
<1>3. CASE SyncCompose(p) \/ AsyncCompose(p) BY <1>3 DEF SyncCompose, AsyncCompose
<1>4. CASE SyncPublish(p) BY <1>4 DEF SyncPublish
<1>5. CASE SyncWrite(p) \/ AsyncWrite(p) BY <1>5 DEF SyncWrite, AsyncWrite
<1>6. CASE SyncAwake(p) \/ SyncReturn(p) BY <1>6 DEF SyncAwake, SyncReturn
<1>7. CASE CallerDelete(p) BY <1>7 DEF CallerDelete
<1>8. QED BY <1>1, <1>2, <1>3, <1>4, <1>5, <1>6, <1>7 DEF Sync, Async

\* They leave announced the record a caller waits for.
LEMMA CallerAnnounced ==
  ASSUME TypeOK, Places, Locks, Prompt, NEW p \in Callers,
         SyncBegin(p) \/ AsyncBegin(p) \/ Sync(p) \/ Async(p), ~SyncWake(p), ~RespMutex(p)
  PROVE  Announced'
<1> USE Names DEF TypeOK, Prompt, Announced, Goto, AmiLock, manage, ghosts
<1>1. CASE SyncBegin(p) \/ AsyncBegin(p) BY <1>1 DEF SyncBegin, AsyncBegin, Begin
<1>2. CASE SyncLock(p) \/ AsyncLock(p) BY <1>2 DEF SyncLock, AsyncLock
<1>3. CASE SyncCompose(p)
  <2>1. \A q \in Callers : q # p => pc[q] \notin {"write", "wait"}
    BY <1>3 DEF SyncCompose, Locks, AmiHeld
  <2>2. QED BY <1>3, <2>1 DEF SyncCompose
<1>4. CASE SyncPublish(p)
  <2>1. /\ \A q \in Callers : q # p => pc[q] \notin {"write", "wait", "reacq"}
        /\ pc[Reader] \notin {"dec", "decstore", "unlock"}
    BY <1>4 DEF SyncPublish, Locks, AmiHeld
  <2>2. QED BY <1>4, <2>1 DEF SyncPublish
<1>5. CASE SyncWrite(p) BY <1>5 DEF SyncWrite
<1>6. CASE AsyncCompose(p) \/ AsyncWrite(p) BY <1>6 DEF AsyncCompose, AsyncWrite
<1>7. CASE SyncAwake(p)
  <2>1. pc[Reader] \notin {"dec", "decstore", "unlock"}
    BY <1>7 DEF SyncAwake, Locks, RespHeld
  <2>2. QED BY <1>7, <2>1 DEF SyncAwake
<1>8. CASE SyncReturn(p) \/ CallerDelete(p) BY <1>8 DEF SyncReturn, CallerDelete
<1>9. QED BY <1>1, <1>2, <1>3, <1>4, <1>5, <1>6, <1>7, <1>8 DEF Sync, Async

\* They leave the replies on their way.
LEMMA CallerAwaited ==
  ASSUME TypeOK, Places, Budget, Locks, Order, Calls, Awaited, NEW p \in Callers,
         SyncBegin(p) \/ AsyncBegin(p) \/ Sync(p) \/ Async(p), ~SyncWake(p), ~RespMutex(p)
  PROVE  Awaited'
<1> USE Names DEF TypeOK, Awaited, Goto, AmiLock, manage, wire, records
<1>1. CASE SyncBegin(p) \/ AsyncBegin(p) BY <1>1 DEF SyncBegin, AsyncBegin, Begin
<1>2. CASE SyncLock(p) \/ AsyncLock(p) BY SMTT(30), <1>2 DEF SyncLock, AsyncLock
<1>3. CASE SyncCompose(p)
  <2>1. \A q \in Callers : q # p => pc[q] \notin AmiHeld
    BY <1>3 DEF SyncCompose, Locks, AmiHeld
  <2>2. actionid + 1 \in Ids BY <1>3, Room DEF SyncCompose, ToCompose
  <2>3. id'[p] = actionid + 1 /\ mode'[actionid + 1] = "requst"
    BY <1>3, <2>2 DEF SyncCompose
  <2>4. QED BY <1>3, <2>1, <2>2, <2>3 DEF SyncCompose, AmiHeld
<1>4. CASE SyncPublish(p) BY <1>4 DEF SyncPublish
<1>5. CASE SyncWrite(p)
  <2>1. ~short' => {id[p]} \in unanswered' /\ ~short
    BY <1>5 DEF SyncWrite, Write, Order, Calls, InCall
  <2>2. unanswered \subseteq unanswered' BY <1>5 DEF SyncWrite, Write
  <2>3. QED BY ZenonT(60), <1>5, <2>1, <2>2 DEF SyncWrite
<1>6. CASE AsyncCompose(p) BY <1>6 DEF AsyncCompose
<1>7. CASE AsyncWrite(p)
  <2>1. unanswered \subseteq unanswered' /\ (~short' => ~short)
    BY <1>7 DEF AsyncWrite, Write
  <2>2. QED BY <1>7, <2>1 DEF AsyncWrite
<1>8. CASE SyncAwake(p) \/ SyncReturn(p) BY SMTT(30), <1>8 DEF SyncAwake, SyncReturn
<1>9. CASE CallerDelete(p)
  <2>1. \A q \in Callers : q # p /\ pc[q] \in InCall
          => id[q] # id[p] /\ id'[q] = id[q] /\ mode'[id[q]] = mode[id[q]]
    BY <1>9 DEF CallerDelete, Calls
  <2>2. QED BY SMTT(30), <1>9, <2>1 DEF CallerDelete, InCall, Answered
<1>10. QED BY <1>1, <1>2, <1>3, <1>4, <1>5, <1>6, <1>7, <1>8, <1>9 DEF Sync, Async

\* Every step of a caller keeps what holds until a wait ends early, unless it ends early.
LEMMA CallerPrompt ==
  ASSUME TypeOK, Places, Budget, Locks, Order, Calls, ~early => Prompt,
         NEW p \in Callers, SyncBegin(p) \/ AsyncBegin(p) \/ Sync(p) \/ Async(p), ~early'
  PROVE  Prompt'
<1>1. ~SyncWake(p) BY DEF SyncWake
<1>2. ~early
  BY <1>1
  DEF SyncBegin, AsyncBegin, Begin, Sync, Async, SyncLock, SyncCompose, SyncPublish,
      SyncWrite, SyncAwake, SyncReturn, CallerDelete, AsyncLock, AsyncCompose, AsyncWrite,
      RespMutex, IncLoad, IncStore, RespLock, DecLoad, DecStore, RespUnlock, ghosts
<1>3. CASE RespMutex(p) BY <1>2, <1>3, CallerMutexPrompt
<1>4. CASE ~RespMutex(p)
  BY <1>1, <1>2, <1>4, CallerCounted, CallerAnnounced, CallerAwaited DEF Prompt
<1>5. QED BY <1>3, <1>4

\* Until a wait ends early, ami_event has a record to look at only while its caller waits
\* or is about to, the record is still a request, and the caller is counted.
LEMMA Watched ==
  ASSUME TypeOK, Calls, Prompt, pResp # Null
  PROVE  \E p \in Callers : /\ pc[p] \in {"write", "wait"} /\ pResp = id[p]
                            /\ id[p] = actionid /\ id[p] \in Ids /\ mode[pResp] = "requst"
                            /\ CallerCounts = 1
<1>1. PICK p \in Callers : pc[p] \in {"write", "wait"} BY DEF Prompt, Announced
<1>2. pResp = id[p] /\ mode[id[p]] = "requst" BY <1>1 DEF Prompt, Announced, Awaited
<1>3. id[p] = actionid /\ id[p] \in Ids BY <1>1 DEF Calls, InCall, TypeOK
<1>4. CallerCounts = 1 BY <1>1 DEF CallerCounts, CountedPcs
<1>5. QED BY <1>1, <1>2, <1>3, <1>4

\* A step of ami_event that leaves it where it counts for the counter, and leaves the
\* callers and the counter alone, leaves the counter exact.
LEMMA SameCountReader ==
  ASSUME TypeOK, Counted, NEW to,
         pc' = [pc EXCEPT ![Reader] = to], pc[Reader] \in CountedPcs <=> to \in CountedPcs,
         to \notin {"incstore", "decstore"},
         UNCHANGED <<reg, resp_waitcount>>
  PROVE  Counted'
<1>1. \A q \in Procs : pc'[q] = IF q = Reader THEN to ELSE pc[q] BY Names DEF TypeOK
<1>2. CallerCounts' = CallerCounts BY <1>1, Names DEF CallerCounts
<1>3. ReaderCounts' = ReaderCounts BY <1>1, Names DEF ReaderCounts
<1>4. QED BY <1>1, <1>2, <1>3 DEF Counted

\* The steps of the lock and the counter, taken by ami_event: a caller is counted and
\* stays where it is.
LEMMA ReaderMutexPrompt ==
  ASSUME TypeOK, Places, Locks, Calls, Prompt, RespMutex(Reader)
  PROVE  Prompt'
<1> DEFINE Before == {"inc", "incstore", "resplock"}
           After == {"dec", "decstore", "unlock"}
<1>1. PICK to : /\ pc' = [pc EXCEPT ![Reader] = to]
                /\ \/ pc[Reader] \in Before /\ to \in {"incstore", "resplock", "locked"}
                   \/ pc[Reader] \in After /\ to \in {"decstore", "unlock", "idle"}
  BY Names
  DEF RespMutex, Goto, IncLoad, IncStore, RespLock, DecLoad, DecStore, RespUnlock
<1>2. UNCHANGED <<pResp, mode, id, unanswered, short, msg, stale>>
  BY DEF RespMutex, IncLoad, IncStore, RespLock, DecLoad, DecStore, RespUnlock, manage,
         wire, records, ghosts
<1>3. pc'[Reader] = to /\ \A q \in Callers : pc'[q] = pc[q]
  BY <1>1, Names DEF TypeOK
<1>4. PICK p \in Callers : pc[p] \in {"write", "wait", "reacq"}
  <2>1. CASE pc[Reader] \in Before BY <2>1, Watched DEF TypeOK
  <2>2. CASE pc[Reader] \in After BY <2>2 DEF Prompt, Announced
  <2>3. QED BY <1>1, <2>1, <2>2
<1>5. /\ CallerCounts = 1 /\ CallerCounts' = 1
      /\ \A q \in Callers : pc[q] \notin {"incstore", "decstore"}
  <2>1. pc[p] \in AmiHeld /\ pc[p] \in CountedPcs BY <1>4 DEF AmiHeld, CountedPcs
  <2>2. \A q \in Callers : q # p => pc[q] \notin AmiHeld BY <2>1 DEF Locks
  <2>3. QED BY <1>3, <1>4, <2>1, <2>2 DEF CallerCounts, AmiHeld
<1>6. Announced'
  BY <1>1, <1>2, <1>3 DEF Prompt, Announced
<1>7. Awaited'
  <2>1. pc[Reader] \in Delivering => pc'[Reader] \in Delivering
    BY <1>1, <1>3 DEF Delivering
  <2>2. QED BY <1>2, <1>3, <2>1 DEF Prompt, Awaited
<1>8. Counted'
  <2>1. resp_waitcount = 1 + ReaderCounts BY <1>5 DEF Prompt, Counted
  <2>2. resp_waitcount' = 1 + ReaderCounts'
    <3>1. CASE IncStore(Reader)
      <4>1. resp_waitcount = 1 /\ reg[Reader] = 1
        BY <2>1, <3>1, Names DEF IncStore, Goto, Prompt, Counted, CountedPcs, ReaderCounts
      <4>2. resp_waitcount' = 2 BY <3>1, <4>1, Count DEF IncStore
      <4>3. pc'[Reader] = "resplock" BY <3>1, Names DEF IncStore, Goto, TypeOK
      <4>4. QED BY <4>2, <4>3 DEF CountedPcs, ReaderCounts
    <3>2. CASE DecStore(Reader)
      <4>1. resp_waitcount = 2 /\ reg[Reader] = 2
        BY <2>1, <3>2, Names DEF DecStore, Goto, Prompt, Counted, CountedPcs, ReaderCounts
      <4>2. resp_waitcount' = 1 BY <3>2, <4>1, Count DEF DecStore
      <4>3. pc'[Reader] = "unlock" BY <3>2, Names DEF DecStore, Goto, TypeOK
      <4>4. QED BY <4>2, <4>3 DEF CountedPcs, ReaderCounts
    <3>3. CASE IncLoad(Reader) \/ RespLock(Reader) \/ DecLoad(Reader) \/ RespUnlock(Reader)
      <4>1. resp_waitcount' = resp_waitcount
        BY <3>3 DEF IncLoad, RespLock, DecLoad, RespUnlock, manage
      <4>2. pc'[Reader] \in CountedPcs <=> pc[Reader] \in CountedPcs
        BY <3>3, Names DEF IncLoad, RespLock, DecLoad, RespUnlock, Goto, CountedPcs, TypeOK
      <4>3. QED BY <2>1, <4>1, <4>2 DEF ReaderCounts
    <3>4. QED BY <3>1, <3>2, <3>3 DEF RespMutex
  <2>3. pc'[Reader] \in {"incstore", "decstore"} => reg'[Reader] = resp_waitcount'
    BY Names
    DEF RespMutex, Goto, IncLoad, IncStore, RespLock, DecLoad, DecStore, RespUnlock, TypeOK,
        manage
  <2>4. QED BY <1>3, <1>5, <2>2, <2>3, Names DEF Counted
<1>9. QED BY <1>6, <1>7, <1>8 DEF Prompt

\* The reply is delivered to the thread that waits, which is then the only one in a call.
LEMMA FillPrompt ==
  ASSUME TypeOK, Places, Locks, Order, Calls, Prompt, EventFill
  PROVE  Prompt'
<1>1. /\ pc[Reader] = "locked" /\ pResp \in Ids /\ pResp' = Null
      /\ mode' = [mode EXCEPT ![pResp] = IF @ = "deleted" THEN @ ELSE "response"]
      /\ stale' = (stale \/ mode[pResp] = "deleted")
      /\ UNCHANGED <<id, unanswered, short, msg, reg, resp_waitcount>>
  BY DEF EventFill, TypeOK, wire
<1>2. /\ pc'[Reader] = "dec"
      /\ \A p \in Callers : pc'[p] = IF pc[p] = "wait" THEN "reacq" ELSE pc[p]
  BY Names DEF EventFill, Signal
<1>3. PICK p \in Callers : /\ pc[p] \in {"write", "wait"} /\ pResp = id[p]
                           /\ mode[pResp] = "requst"
  BY <1>1, Watched, Names
<1>4. pc[p] = "wait" BY <1>1, <1>3, Names DEF Locks, RespHeld
<1>5. \A q \in Callers : q # p => pc[q] \notin AmiHeld
  BY <1>4 DEF Locks, AmiHeld
<1>6. Announced' BY <1>1, <1>2, <1>3, <1>4, <1>5 DEF Prompt, Announced, AmiHeld
<1>7. Awaited'
  <2>1. mode'[id[p]] = "response" BY <1>1, <1>3 DEF TypeOK
  <2>2. QED BY <1>1, <1>2, <1>4, <1>5, <2>1 DEF Awaited, AmiHeld
<1>8. Counted'
  <2>1. CallerCounts' = CallerCounts BY <1>2 DEF CallerCounts, CountedPcs
  <2>2. ReaderCounts' = ReaderCounts BY <1>1, <1>2 DEF ReaderCounts, CountedPcs
  <2>3. \A q \in Procs : pc'[q] \in {"incstore", "decstore"} => pc[q] = pc'[q]
    BY <1>2, Names
  <2>4. QED BY <1>1, <2>1, <2>2, <2>3 DEF Prompt, Counted
<1>9. QED BY <1>6, <1>7, <1>8 DEF Prompt

\* The tests of ami_event that do not end it leave the counter exact.
LEMMA EventCounted ==
  ASSUME TypeOK, Counted, \/ Reading
         \/ EventPResp \/ EventCount \/ EventMode
         \/ EventOther
  PROVE  Counted'
<1>1. PICK to : /\ pc' = [pc EXCEPT ![Reader] = to]
                /\ \/ pc[Reader] = "locked" /\ to = "dec"
                   \/ /\ pc[Reader] \in {"idle", "pResp", "count", "mode"}
                      /\ to \in {"idle", "pResp", "count", "mode", "clear", "inc"}
  BY DEF Reading, EventRead, EventPResp, EventCount, EventMode, EventOther, Goto
<1>2. UNCHANGED <<reg, resp_waitcount>>
  BY DEF Reading, EventRead, EventPResp, EventCount, EventMode, EventOther, manage
<1>3. pc[Reader] \in CountedPcs <=> to \in CountedPcs BY <1>1 DEF CountedPcs
<1>4. to \notin {"incstore", "decstore"} BY <1>1
<1>5. QED BY <1>1, <1>2, <1>3, <1>4, SameCountReader

\* Every step of ami_event keeps what holds until a wait ends early.
LEMMA EventPrompt ==
  ASSUME TypeOK, Places, Locks, Order, Calls, ~early => Prompt,
         Event \/ Reading, ~early'
  PROVE  Prompt'
<1>0. ~early
  BY DEF Event, Reading, EventRead, EventPResp, EventCount, EventMode, EventClear,
         EventOther, EventFill, RespMutex, IncLoad, IncStore, RespLock, DecLoad, DecStore,
         RespUnlock, ghosts
<1>1. Prompt BY <1>0
<1> USE Names DEF TypeOK, Prompt, Announced, Awaited, Delivering, Goto, manage, wire,
                  records, ghosts
<1>2. CASE Reading
  <2>0. PICK r \in unanswered : \E n \in ReplyIds(r) : EventRead(r, n)
    BY <1>2 DEF Reading
  <2>1. PICK n \in ReplyIds(r) : EventRead(r, n) BY <2>0
  <2>2. Counted' BY <1>1, <1>2, EventCounted
  <2>3. Announced' BY <1>1, <2>1 DEF EventRead
  <2>4. Awaited'
    <3>1. ~short => r = {n} BY ReadId
    <3>2. /\ pc'[Reader] = "pResp" /\ \A p \in Callers : pc'[p] = pc[p]
          /\ unanswered' = unanswered \ {r} /\ msg' = n /\ pc[Reader] = "idle"
          /\ UNCHANGED <<mode, id, short>>
      BY <2>1 DEF EventRead
    <3>3. QED BY SMTT(30), <1>1, <3>1, <3>2
  <2>5. QED BY <2>2, <2>3, <2>4
<1>3. CASE EventPResp
  <2>1. Counted' BY <1>1, <1>3, EventCounted
  <2>2. Announced' BY <1>1, <1>3 DEF EventPResp
  <2>3. Awaited' BY <1>1, <1>3 DEF EventPResp, Calls, InCall
  <2>4. QED BY <2>1, <2>2, <2>3
<1>4. CASE EventCount
  <2>1. resp_waitcount # 0
    <3>1. CallerCounts = 1 BY <1>1, <1>4, Watched DEF EventCount
    <3>2. QED BY <1>1, <3>1 DEF Counted, ReaderCounts
  <2>2. pc' = [pc EXCEPT ![Reader] = "mode"] BY <1>4, <2>1 DEF EventCount
  <2>3. Counted' BY <1>1, <1>4, EventCounted
  <2>4. Announced' BY <1>1, <1>4, <2>2 DEF EventCount
  <2>5. Awaited' BY <1>1, <1>4, <2>2 DEF EventCount
  <2>6. QED BY <2>3, <2>4, <2>5
<1>5. CASE EventMode
  <2>1. mode[pResp] = "requst" BY <1>1, <1>5, Watched DEF EventMode
  <2>2. pc' = [pc EXCEPT ![Reader] = "inc"] /\ ~stale'
    BY <1>1, <1>5, <2>1 DEF EventMode
  <2>3. Counted' BY <1>1, <1>5, EventCounted
  <2>4. Announced' BY <1>1, <1>5, <2>2 DEF EventMode
  <2>5. Awaited' BY <1>1, <1>5, <2>2 DEF EventMode
  <2>6. QED BY <2>3, <2>4, <2>5
<1>6. CASE EventClear BY <1>1, <1>6 DEF EventClear
<1>7. CASE RespMutex(Reader) BY <1>1, <1>7, ReaderMutexPrompt
<1>8. CASE EventOther
  <2>1. PICK p \in Callers : /\ pc[p] \in {"write", "wait"} /\ pResp = id[p]
                             /\ id[p] = actionid /\ mode[pResp] = "requst"
    BY <1>1, <1>8, Watched DEF EventOther
  <2>2. pc[p] = "wait" BY <1>8, <2>1 DEF EventOther, Locks, RespHeld
  <2>3. /\ pc' = [pc EXCEPT ![Reader] = "dec"] /\ ~stale'
        /\ UNCHANGED <<pResp, mode, id, unanswered, short, msg, reg, resp_waitcount>>
    BY <1>1, <1>8, <2>1 DEF EventOther
  <2>4. Counted' BY <1>1, <1>8, EventCounted
  <2>5. Announced' BY <1>1, <2>2, <2>3
  <2>6. \A q \in Callers : pc[q] = "wait" => id[q] # msg
    <3>1. msg # actionid BY <1>8 DEF EventOther, Ids, Null
    <3>2. QED BY <3>1 DEF Calls, InCall
  <2>7. Awaited' BY ZenonT(60), <1>1, <2>3, <2>6
  <2>8. QED BY <2>4, <2>5, <2>7
<1>9. CASE EventFill BY <1>1, <1>9, FillPrompt
<1>10. QED BY <1>2, <1>3, <1>4, <1>5, <1>6, <1>7, <1>8, <1>9 DEF Event

----------------------------------------------------------------------------
(* Theorems.                                                                   *)

\* The invariant holds initially.
LEMMA InitInv == Init => Inv
<1> SUFFICES ASSUME Init PROVE Inv OBVIOUS
<1> USE Names, AmiConstants DEF Init
<1>1. TypeOK
  <2>1. 0 \in 0..MaxActions /\ 0 \in 0..(CountMod - 1) BY AmiConstants
  <2>2. {FALSE} \subseteq BOOLEAN OBVIOUS
  <2>3. QED BY <2>1, <2>2 DEF TypeOK, Pcs
<1>2. Places BY DEF Places, ReaderPcs
<1>3. Budget
  <2>1. Pending = {} BY DEF Pending, ToCompose
  <2>2. Cardinality({}) = 0 BY FS_EmptySet
  <2>3. QED BY <2>1, <2>2 DEF Budget
<1>4. Locks BY DEF Locks, AmiHeld, RespHeld
<1>5. Order BY DEF Order, Composed, Null
<1>6. Calls BY DEF Calls, InCall, Answered, Null
<1>7. OwnReply /\ Replies BY DEF OwnReply, Replies, Answered
<1>8. Prompt
  <2>1. Announced /\ Awaited BY DEF Announced, Awaited
  <2>2. Counted BY DEF Counted, CallerCounts, ReaderCounts, CountedPcs
  <2>3. QED BY <2>1, <2>2 DEF Prompt
<1>9. QED BY <1>1, <1>2, <1>3, <1>4, <1>5, <1>6, <1>7, <1>8 DEF Inv

\* A step that changes nothing keeps the invariant.
LEMMA StutterInv == Inv /\ UNCHANGED vars => Inv'
<1> SUFFICES ASSUME Inv, UNCHANGED vars PROVE Inv' OBVIOUS
<1> USE DEF vars, manage, wire, records, threads, ghosts
<1>1. TypeOK' /\ Places' BY DEF Inv, TypeOK, Places
<1>2. Budget' BY DEF Inv, Budget, Pending
<1>3. Locks' /\ Order' BY DEF Inv, Locks, Order
<1>4. Calls' /\ OwnReply' /\ Replies' BY DEF Inv, Calls, OwnReply, Replies
<1>5. ~early' => Prompt'
  BY DEF Inv, Prompt, Announced, Awaited, Counted, CallerCounts, ReaderCounts
<1>6. QED BY <1>1, <1>2, <1>3, <1>4, <1>5 DEF Inv

\* Every step keeps the invariant.
LEMMA StepInv == Inv /\ [Next]_vars => Inv'
<1> SUFFICES ASSUME Inv, [Next]_vars PROVE Inv' OBVIOUS
<1> USE DEF Inv
<1>1. CASE \E p \in Callers : SyncBegin(p) \/ AsyncBegin(p) \/ Sync(p) \/ Async(p)
  <2>1. PICK p \in Callers : SyncBegin(p) \/ AsyncBegin(p) \/ Sync(p) \/ Async(p) BY <1>1
  <2>2. TypeOK' /\ Places' BY <2>1, CallerTyped
  <2>3. Budget' /\ Locks' /\ Order' BY <2>1, CallerBudget, CallerLocks, CallerOrder
  <2>4. Calls' /\ OwnReply' /\ Replies' BY <2>1, CallerCalls, CallerReplies
  <2>5. ~early' => Prompt' BY <2>1, CallerPrompt
  <2>6. QED BY <2>2, <2>3, <2>4, <2>5
<1>2. CASE Event \/ Reading
  <2>1. TypeOK' /\ Places' BY <1>2, EventTyped
  <2>2. Budget' /\ Locks' /\ Order' BY <1>2, EventBudget, EventLocks, EventOrder
  <2>3. Calls' /\ OwnReply' /\ Replies' BY <1>2, EventCalls, EventReplies
  <2>4. ~early' => Prompt' BY <1>2, EventPrompt
  <2>5. QED BY <2>1, <2>2, <2>3, <2>4
<1>3. CASE UNCHANGED vars BY <1>3, StutterInv
<1>4. QED BY <1>1, <1>2, <1>3 DEF Next, Reading

\* The invariant holds in every state: the two mutexes exclude each other's holders, the
\* last action is the one in the send buffer, each call of ami_sync has its own number,
\* and until a wait ends early the counter and the announced record are exact
\* (amiproc.cpp 113-197, 250-302, amiproc.h 79-86).
THEOREM Invariance == Spec => []Inv
BY InitInv, StepInv, PTL DEF Spec

\* Every variable has its type, and ami_event dereferences no null record
\* (amiproc.cpp 256-302).
THEOREM TypeCorrect == Spec => []TypeOK
<1>1. Inv => TypeOK BY DEF Inv
<1>2. QED BY <1>1, Invariance, PTL

\* A call of ami_sync that a signal has woken has the reply to its own action, and one
\* whose wait has ended otherwise has that reply or none until it returns, whatever other
\* replies come late and whatever write() takes of an action (amiproc.cpp 143-165,
\* 256-292).
THEOREM RepliesAreOwn == Spec => []OwnReply
<1>1. Inv => OwnReply BY DEF Inv
<1>2. QED BY <1>1, Invariance, PTL

\* As long as every wait is ended by the signal and every write is whole, no reply is lost
\* (amiproc.cpp 139-143, 256-298).
THEOREM RepliesArrive == Spec => []NoReplyLost
<1>1. Inv => NoReplyLost
  <2>1. SUFFICES ASSUME Inv, ~early, ~short, NEW n \in Ids, Open(n), {n} \notin unanswered,
                        msg = n => pc[Reader] = "idle"
                 PROVE  mode[n] = "response"
    BY DEF NoReplyLost
  <2>2. PICK p \in Callers : /\ id[p] = n
                             /\ pc[p] \in {"wait", "reacq", "dec", "decstore", "unlock"}
    BY <2>1 DEF Open
  <2>3. pc[p] # "wait" BY <2>1, <2>2 DEF Inv, Prompt, Awaited, Delivering
  <2>4. QED BY <2>1, <2>2, <2>3 DEF Inv, Prompt, Awaited
<1>2. QED BY <1>1, Invariance, PTL

\* As long as every wait is ended by the signal, ami_event never accesses a record that
\* its caller has deleted (amiproc.cpp 256-293).
THEOREM RecordsAreLive == Spec => []NoStaleAccess
<1>1. Inv => NoStaleAccess BY DEF Inv, NoStaleAccess, Prompt, Announced
<1>2. QED BY <1>1, Invariance, PTL

\* As long as every wait is ended by the signal, the unprotected counter is exact between
\* calls (amiproc.h 79-86).
THEOREM CounterIsExact == Spec => []CountBalanced
<1>1. Inv => CountBalanced
  BY Names
  DEF Inv, CountBalanced, Prompt, Counted, CallerCounts, ReaderCounts, CountedPcs
<1>2. QED BY <1>1, Invariance, PTL

\* Each action is written once and in the order of the action ids, nobody composes an
\* action over one that is not written; and whatever write() takes of them, a request
\* Asterisk receives ends with the action just written and shares none with another
\* request (amiproc.cpp 120-142, 181-197).
THEOREM WrittenInOrder == Spec => WireOrder
<1> DEFINE Ordered ==
      /\ last' # last => last' = last + 1
      /\ \A r \in unanswered' \ unanswered :
           /\ last' \in r /\ r \cap UNION unanswered = {}
           /\ ~short' => r = {last'}
<1>1. Inv /\ Next => Ordered
  <2> SUFFICES ASSUME Inv, Next PROVE Ordered OBVIOUS
  <2>1. CASE \E p \in Callers : SyncWrite(p) \/ AsyncWrite(p)
    <3>1. PICK p \in Callers : SyncWrite(p) \/ AsyncWrite(p) BY <2>1
    <3>2. last' = sdata /\ pc[p] \in Composed /\ Write
      BY <3>1 DEF SyncWrite, AsyncWrite, Write, Goto, Composed
    <3>3. sdata = last + 1 /\ last' = last + 1 BY <3>2 DEF Inv, Order
    <3>4. sdata \notin UNION unanswered
      <4>1. \A r \in unanswered : \A n \in r : n \in Nat /\ n <= last
        BY DEF Inv, TypeOK, Order, Ids
      <4>2. last \in Nat BY DEF Inv, TypeOK, Ids, Null
      <4>3. QED BY <3>3, <4>1, <4>2
    <3>5. \A r \in unanswered' \ unanswered :
            r = tail \cup {sdata} /\ short' = short
      BY <3>2 DEF Write
    <3>6. tail \cap UNION unanswered = {} /\ (~short => tail = {}) BY DEF Inv, Order
    <3>7. QED BY <3>2, <3>3, <3>4, <3>5, <3>6
  <2>2. CASE ~\E p \in Callers : SyncWrite(p) \/ AsyncWrite(p)
    <3>1. last' = last /\ unanswered' \subseteq unanswered
      BY <2>2
      DEF Next, SyncBegin, AsyncBegin, Begin, Sync, Async, SyncLock, SyncCompose,
          SyncPublish, SyncWake, SyncAwake, SyncReturn, CallerDelete, AsyncLock,
          AsyncCompose, Event, EventRead, EventPResp, EventCount, EventMode, EventClear,
          EventOther, EventFill, RespMutex, IncLoad, IncStore, RespLock, DecLoad,
          DecStore, RespUnlock, wire
    <3>2. QED BY <3>1
  <2>3. QED BY <2>1, <2>2
<1>2. Inv /\ [Next]_vars => [Ordered]_vars BY <1>1
<1>3. QED BY <1>2, Invariance, PTL DEF Spec, WireOrder
=============================================================================
