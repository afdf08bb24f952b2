------------------------------ MODULE AmiSync ------------------------------
(* Actions on the connection to Asterisk (amiproc/amiproc.cpp): the threads    *)
(* that call AMI_MANAGE::ami_sync and ami_async, and the one worker at a time  *)
(* that runs ami_event when a reply has arrived.                               *)
(*                                                                             *)
(* A step is the code between two accesses to state that another thread can    *)
(* change; `++' and `--' of the unprotected counter resp_waitcount are a load  *)
(* and a store.  The response record of a call is named by its action id.      *)
EXTENDS Integers, FiniteSets

CONSTANTS
  Callers,     \* the threads that send actions
  MaxActions,  \* bound: the actions sent in one behaviour
  CountMod,    \* the range of resp_waitcount, 2^32 in the code
  ShortWrites, \* may write() take less than the whole action, or nothing?
  Timeouts,    \* may Asterisk need more than the five seconds of ami_sync?
  Spurious     \* may pthread_cond_timedwait return 0 without a signal?

Reader == "reader"             \* the worker in ami_event
Free == "free"                 \* the owner of a mutex that nobody holds
Null == 0                      \* no response record

ASSUME AmiConstants ==
  /\ {Reader, Free} \cap Callers = {} /\ IsFiniteSet(Callers)
  /\ MaxActions \in Nat \ {0} /\ CountMod \in Nat \ 0..2
  /\ {ShortWrites, Timeouts, Spurious} \subseteq BOOLEAN

Ids == 1..MaxActions
Procs == Callers \cup {Reader}

VARIABLES
  \* AMI_MANAGE
  actionid,       \* the number of the last action
  pResp,          \* the response record ami_event is to fill in, or Null
  resp_waitcount,
  mutexAMI, mutexResp,
  \* the connection
  sdata,          \* the action in the send buffer of ami_socket
  last,           \* the action given to write() last
  tail,           \* the actions Asterisk has the beginning of and no end
  unanswered,     \* the requests Asterisk has received and not answered, each the set
                  \*   of the actions it is made of: one, unless a write was short
  \* the response records
  mode,           \* Ids -> "none", "requst", "response", "deleted"
  got,            \* Ids -> the action whose reply the record holds, or Null
  \* the threads
  pc,
  reg,            \* the value of resp_waitcount a thread has loaded
  id,             \* Callers -> the action of its call
  rc,             \* Callers -> how the wait ended: "signal" and "spurious" (0), "timeout"
  msg,            \* the action whose reply ami_event has read
  \* what has happened so far
  short,          \* a write() has not taken the whole action
  early,          \* a wait has ended without the signal
  stale           \* a deleted response record has been accessed

manage  == <<actionid, pResp, resp_waitcount, mutexAMI, mutexResp>>
wire    == <<sdata, last, tail, unanswered, short>>
records == <<mode, got>>
threads == <<pc, reg, id, rc, msg>>
ghosts  == <<early, stale>>
vars    == <<manage, wire, records, threads, ghosts>>

Init ==
  /\ actionid = 0 /\ pResp = Null /\ resp_waitcount = 0
  /\ mutexAMI = Free /\ mutexResp = Free
  /\ sdata = Null /\ last = Null /\ tail = {} /\ unanswered = {} /\ short = FALSE
  /\ mode = [n \in Ids |-> "none"] /\ got = [n \in Ids |-> Null]
  /\ pc = [p \in Procs |-> "idle"] /\ reg = [p \in Procs |-> 0]
  /\ id = [p \in Callers |-> Null] /\ rc = [p \in Callers |-> "signal"]
  /\ msg = Null /\ early = FALSE /\ stale = FALSE

----------------------------------------------------------------------------
(* Locks and the counter.                                                      *)

Goto(p, from, to) == pc[p] = from /\ pc' = [pc EXCEPT ![p] = to]

\* resp_lock(): resp_waitcount++, which is a load and a store, and then the mutex.
IncLoad(p) ==
  /\ Goto(p, "inc", "incstore")
  /\ reg' = [reg EXCEPT ![p] = resp_waitcount]
  /\ UNCHANGED <<manage, wire, records, id, rc, msg, ghosts>>

IncStore(p) ==
  /\ Goto(p, "incstore", "resplock")
  /\ resp_waitcount' = (reg[p] + 1) % CountMod
  /\ UNCHANGED <<actionid, pResp, mutexAMI, mutexResp, wire, records, reg, id, rc, msg,
                 ghosts>>

RespLock(p) ==
  /\ mutexResp = Free /\ mutexResp' = p
  /\ Goto(p, "resplock", "locked")
  /\ UNCHANGED <<actionid, pResp, resp_waitcount, mutexAMI, wire, records, reg, id, rc,
                 msg, ghosts>>

\* resp_unlock(): resp_waitcount--, and then the mutex.
DecLoad(p) ==
  /\ Goto(p, "dec", "decstore")
  /\ reg' = [reg EXCEPT ![p] = resp_waitcount]
  /\ UNCHANGED <<manage, wire, records, id, rc, msg, ghosts>>

\* Variation: the counter is not decremented.
DecStoreNot(p) ==
  /\ Goto(p, "decstore", "unlock")
  /\ UNCHANGED <<manage, wire, records, reg, id, rc, msg, ghosts>>

DecStore(p) ==
  /\ Goto(p, "decstore", "unlock")
  /\ resp_waitcount' = (reg[p] + CountMod - 1) % CountMod
  /\ UNCHANGED <<actionid, pResp, mutexAMI, mutexResp, wire, records, reg, id, rc, msg,
                 ghosts>>

\* Variation: the mutex is not unlocked.
RespUnlockNot(p) ==
  /\ Goto(p, "unlock", IF p = Reader THEN "idle" ELSE "amiunlock")
  /\ UNCHANGED <<manage, wire, records, reg, id, rc, msg, ghosts>>

RespUnlock(p) ==
  /\ Goto(p, "unlock", IF p = Reader THEN "idle" ELSE "amiunlock")
  /\ mutexResp' = Free
  /\ UNCHANGED <<actionid, pResp, resp_waitcount, mutexAMI, wire, records, reg, id, rc,
                 msg, ghosts>>

RespMutex(p) ==
  IncLoad(p) \/ IncStore(p) \/ RespLock(p) \/ DecLoad(p) \/ DecStore(p) \/ RespUnlock(p)

\* Variation: an action is composed without ami_lock().
AmiLockSkipped(p, from, to) ==
  Goto(p, from, to) /\ UNCHANGED mutexAMI

\* ami_lock(), from one pc to another.
AmiLock(p, from, to) ==
  Goto(p, from, to) /\ mutexAMI = Free /\ mutexAMI' = p

\* The next action is composed in the send buffer.
Compose == actionid' = actionid + 1 /\ sdata' = actionid + 1

\* write() on the non-blocking socket takes the action in the buffer, its beginning, or
\* nothing; the result is not looked at.  Asterisk reads up to an empty line: what
\* follows a beginning belongs to the same request.
Write ==
  /\ last' = sdata
  /\ \/ /\ unanswered' = unanswered \cup {tail \cup {sdata}}
        /\ tail' = {} /\ UNCHANGED short
     \/ /\ ShortWrites /\ tail' \in {tail, tail \cup {sdata}}
        /\ short' = TRUE /\ UNCHANGED unanswered

----------------------------------------------------------------------------
(* ami_sync.                                                                   *)

Begin(p, to) ==
  /\ actionid + Cardinality({q \in Callers : pc[q] # "idle"}) < MaxActions
  /\ Goto(p, "idle", to)
  /\ UNCHANGED <<manage, wire, records, reg, id, rc, msg, ghosts>>

SyncBegin(p) == Begin(p, "amilock")

SyncLock(p) ==
  /\ AmiLock(p, "amilock", "inc")
  /\ UNCHANGED <<actionid, pResp, resp_waitcount, mutexResp, wire, records, reg, id, rc,
                 msg, ghosts>>

\* Both mutexes are held: ++actionid, mode = action_requst.
SyncCompose(p) ==
  /\ p \in Callers /\ Goto(p, "locked", "publish")
  /\ Compose
  /\ id' = [id EXCEPT ![p] = actionid + 1]
  /\ mode' = [mode EXCEPT ![actionid + 1] = "requst"]
  /\ UNCHANGED <<pResp, resp_waitcount, mutexAMI, mutexResp, last, tail, unanswered, short,
                 got, reg, rc, msg, ghosts>>

\* Variation: the record is not announced before the action is written.
SyncPublishNot(p) ==
  /\ Goto(p, "publish", "write")
  /\ UNCHANGED <<manage, wire, records, reg, id, rc, msg, ghosts>>

\* pResp = pResponse
SyncPublish(p) ==
  /\ Goto(p, "publish", "write")
  /\ pResp' = id[p]
  /\ UNCHANGED <<actionid, resp_waitcount, mutexAMI, mutexResp, wire, records, reg, id, rc,
                 msg, ghosts>>

\* write(), and pthread_cond_timedwait gives mutexResp back.
SyncWrite(p) ==
  /\ Goto(p, "write", "wait")
  /\ Write
  /\ mutexResp' = Free
  /\ UNCHANGED <<actionid, pResp, resp_waitcount, mutexAMI, sdata, records, reg, id, rc,
                 msg, ghosts>>

\* The wait ends after five seconds, or for no reason.
SyncWake(p) ==
  /\ Goto(p, "wait", "reacq")
  /\ \/ Timeouts /\ rc' = [rc EXCEPT ![p] = "timeout"]
     \/ Spurious /\ rc' = [rc EXCEPT ![p] = "spurious"]
  /\ early' = TRUE
  /\ UNCHANGED <<manage, wire, records, reg, id, msg, stale>>

\* The wait returns with mutexResp; the result is recorded, pResp is not reset.
SyncAwake(p) ==
  /\ mutexResp = Free /\ mutexResp' = p
  /\ Goto(p, "reacq", "dec")
  /\ UNCHANGED <<actionid, pResp, resp_waitcount, mutexAMI, wire, records, reg, id, rc, msg,
                 ghosts>>

\* ami_unlock(), return pResponse.
SyncReturn(p) ==
  /\ Goto(p, "amiunlock", "returned")
  /\ mutexAMI' = Free
  /\ UNCHANGED <<actionid, pResp, resp_waitcount, mutexResp, wire, records, reg, id, rc, msg,
                 ghosts>>

\* The caller deletes the record it was given.
CallerDelete(p) ==
  /\ Goto(p, "returned", "idle")
  /\ mode' = [mode EXCEPT ![id[p]] = "deleted"]
  /\ id' = [id EXCEPT ![p] = Null]
  /\ rc' = [rc EXCEPT ![p] = "signal"]
  /\ UNCHANGED <<manage, wire, got, reg, msg, ghosts>>

----------------------------------------------------------------------------
(* ami_async.                                                                  *)

AsyncBegin(p) == Begin(p, "asynclock")

AsyncLock(p) ==
  /\ AmiLock(p, "asynclock", "async")
  /\ UNCHANGED <<actionid, pResp, resp_waitcount, mutexResp, wire, records, reg, id, rc,
                 msg, ghosts>>

AsyncCompose(p) ==
  /\ Goto(p, "async", "asyncwrite")
  /\ Compose
  /\ UNCHANGED <<pResp, resp_waitcount, mutexAMI, mutexResp, last, tail, unanswered, short,
                 records, reg, id, rc, msg, ghosts>>

AsyncWrite(p) ==
  /\ Goto(p, "asyncwrite", "idle")
  /\ Write
  /\ mutexAMI' = Free
  /\ UNCHANGED <<actionid, pResp, resp_waitcount, mutexResp, sdata, records, reg, id, rc, msg,
                 ghosts>>

----------------------------------------------------------------------------
(* ami_event.                                                                  *)

\* The ActionID in the reply to the request r.  Where actions run into each other it
\* may be cut, which makes it smaller, or be missing.
ReplyIds(r) ==
  {n \in {Null} \cup Ids : n \in r \/ (Cardinality(r) > 1 /\ \E m \in r : n < m)}

\* The reply to the request r, with the ActionID n, has been read to its end.
EventRead(r, n) ==
  /\ n \in ReplyIds(r)
  /\ Goto(Reader, "idle", "pResp")
  /\ unanswered' = unanswered \ {r}
  /\ msg' = n
  /\ UNCHANGED <<manage, sdata, last, tail, short, records, reg, id, rc, ghosts>>

\* Variation: pResp is not compared with NULL.
EventPRespUnchecked ==
  /\ Goto(Reader, "pResp", "count")
  /\ UNCHANGED <<manage, wire, records, reg, id, rc, msg, ghosts>>

\* manage.pResp, without the mutex.  If it is null the reply is for a handler.
EventPResp ==
  /\ Goto(Reader, "pResp", IF pResp = Null THEN "idle" ELSE "count")
  /\ UNCHANGED <<manage, wire, records, reg, id, rc, msg, ghosts>>

\* manage.resp_waitcount, without the mutex.
EventCount ==
  /\ Goto(Reader, "count", IF resp_waitcount = 0 THEN "clear" ELSE "mode")
  /\ UNCHANGED <<manage, wire, records, reg, id, rc, msg, ghosts>>

\* manage.pResp->mode, without the mutex; anything if the record is deleted.
EventMode ==
  /\ pc[Reader] = "mode"
  /\ \/ mode[pResp] # "response" /\ Goto(Reader, "mode", "inc")
     \/ mode[pResp] # "requst" /\ Goto(Reader, "mode", "clear")
  /\ stale' = (stale \/ mode[pResp] = "deleted")
  /\ UNCHANGED <<manage, wire, records, reg, id, rc, msg, early>>

\* Nobody seems to wait: pResp = NULL without the mutex.
EventClear ==
  /\ Goto(Reader, "clear", "idle")
  /\ pResp' = Null
  /\ UNCHANGED <<actionid, resp_waitcount, mutexAMI, mutexResp, wire, records, reg, id, rc,
                 msg, ghosts>>

\* pthread_cond_signal: a thread in the wait leaves it with 0.
Signal ==
  LET W == {p \in Callers : pc[p] = "wait"}
  IN /\ pc' = [p \in Procs |-> IF p = Reader THEN "dec"
                               ELSE IF p \in W THEN "reacq" ELSE pc[p]]
     /\ rc' = [p \in Callers |-> IF p \in W THEN "signal" ELSE rc[p]]

\* With the mutex: the reply to an earlier action is left to the handlers, the
\* text of the record has been overwritten all the same.
EventOther ==
  /\ Goto(Reader, "locked", "dec")
  /\ msg < actionid
  /\ stale' = (stale \/ mode[pResp] = "deleted")
  /\ UNCHANGED <<manage, wire, records, reg, id, rc, msg, early>>

\* Variation: every reply is taken for the one that is waited for.
EventFillAny ==
  /\ pc[Reader] = "locked"
  /\ mode' = [mode EXCEPT ![pResp] = IF @ = "deleted" THEN @ ELSE "response"]
  /\ got' = [got EXCEPT ![pResp] = msg]
  /\ stale' = (stale \/ mode[pResp] = "deleted")
  /\ pResp' = Null
  /\ Signal
  /\ UNCHANGED <<actionid, resp_waitcount, mutexAMI, mutexResp, wire, reg, id, msg, early>>

\* Variation: pResp is not reset.
EventFillKept ==
  /\ pc[Reader] = "locked" /\ msg >= actionid
  /\ mode' = [mode EXCEPT ![pResp] = IF @ = "deleted" THEN @ ELSE "response"]
  /\ got' = [got EXCEPT ![pResp] = msg]
  /\ stale' = (stale \/ mode[pResp] = "deleted")
  /\ Signal
  /\ UNCHANGED <<manage, wire, reg, id, msg, early>>

\* With the mutex: the reply is stored in the record, pResp = NULL, signal.
EventFill ==
  /\ pc[Reader] = "locked" /\ msg >= actionid
  /\ mode' = [mode EXCEPT ![pResp] = IF @ = "deleted" THEN @ ELSE "response"]
  /\ got' = [got EXCEPT ![pResp] = msg]
  /\ stale' = (stale \/ mode[pResp] = "deleted")
  /\ pResp' = Null
  /\ Signal
  /\ UNCHANGED <<actionid, resp_waitcount, mutexAMI, mutexResp, wire, reg, id, msg, early>>

----------------------------------------------------------------------------
Sync(p) ==
  \/ SyncLock(p) \/ RespMutex(p) \/ SyncCompose(p) \/ SyncPublish(p) \/ SyncWrite(p)
  \/ SyncWake(p) \/ SyncAwake(p) \/ SyncReturn(p) \/ CallerDelete(p)

Async(p) == AsyncLock(p) \/ AsyncCompose(p) \/ AsyncWrite(p)

Event ==
  \/ EventPResp \/ EventCount \/ EventMode \/ EventClear \/ RespMutex(Reader)
  \/ EventOther \/ EventFill

Next ==
  \/ \E p \in Callers : SyncBegin(p) \/ AsyncBegin(p) \/ Sync(p) \/ Async(p)
  \/ \E r \in unanswered : \E n \in ReplyIds(r) : EventRead(r, n)
  \/ Event

Spec == Init /\ [][Next]_vars

\* The threads are scheduled, the waits of ami_sync are timed.  Asterisk need not
\* answer.  The mutexes are not fair.
Fairness ==
  /\ \A p \in Callers : WF_vars(Sync(p)) /\ WF_vars(Async(p))
  /\ WF_vars(Event)

FairSpec == Spec /\ Fairness

----------------------------------------------------------------------------
(* Properties.                                                                 *)

Pcs == {"idle", "amilock", "inc", "incstore", "resplock", "locked", "publish", "write",
        "wait", "reacq", "dec", "decstore", "unlock", "amiunlock", "returned",
        "asynclock", "async", "asyncwrite", "pResp", "count", "mode", "clear"}

\* Every variable has its type, and the reader dereferences no null pointer: it is
\* the only thread that resets pResp (amiproc.cpp 256-302).
TypeOK ==
  /\ actionid \in 0..MaxActions /\ pResp \in {Null} \cup Ids
  /\ resp_waitcount \in 0..(CountMod - 1)
  /\ mutexAMI \in Callers \cup {Free} /\ mutexResp \in Procs \cup {Free}
  /\ sdata \in {Null} \cup Ids /\ last \in {Null} \cup Ids /\ tail \subseteq Ids
  /\ unanswered \subseteq SUBSET Ids /\ short \in BOOLEAN
  /\ mode \in [Ids -> {"none", "requst", "response", "deleted"}]
  /\ got \in [Ids -> {Null} \cup Ids]
  /\ pc \in [Procs -> Pcs] /\ reg \in [Procs -> 0..(CountMod - 1)]
  /\ id \in [Callers -> {Null} \cup Ids] /\ rc \in [Callers -> {"signal", "spurious", "timeout"}]
  /\ msg \in {Null} \cup Ids /\ {early, stale} \subseteq BOOLEAN
  /\ pc[Reader] \in {"count", "mode", "clear", "inc", "incstore", "resplock", "locked"}
       => pResp # Null

\* The wait of ami_sync has ended and the record is the caller's.
Answered == {"reacq", "dec", "decstore", "unlock", "amiunlock", "returned"}

\* A call of ami_sync that the signal has woken has a reply, and it is the reply to its
\* own action, be there late replies to earlier calls or replies to an ami_async that
\* nobody waits for.  A call whose wait ended otherwise, by the timeout or for no reason,
\* has its own reply or none until it returns (amiproc.cpp 143-165, 256-292).
OwnReply ==
  \A p \in Callers : id[p] # Null =>
    /\ rc[p] = "signal" /\ pc[p] \in Answered => mode[id[p]] = "response"
    /\ mode[id[p]] = "response" /\ (rc[p] = "signal" \/ pc[p] # "returned")
         => got[id[p]] = id[p]

\* Whatever write() takes of them, the actions are written once each and in the order of
\* the action ids: no thread composes one over another that is not written yet.  A
\* request Asterisk has received ends with the action just written and has none in it of
\* a request before; as long as the writes are whole it is that action alone
\* (amiproc.cpp 120-142, 181-197).
WireOrder ==
  [][/\ last' # last => last' = last + 1
     /\ \A r \in unanswered' \ unanswered :
          /\ last' \in r /\ r \cap UNION unanswered = {}
          /\ ~short' => r = {last'}]_vars

\* The action n was sent by ami_sync and its call has not returned.
Open(n) ==
  \E p \in Callers : id[p] = n /\ pc[p] \in {"wait", "reacq", "dec", "decstore", "unlock"}

\* As long as every wait is ended by the signal and every write is whole, no reply is
\* lost: once ami_event is done with the reply to an action of ami_sync, that call has
\* it (amiproc.cpp 139-143, 256-298).
NoReplyLost ==
  ~early /\ ~short => \A n \in Ids :
    Open(n) /\ {n} \notin unanswered /\ (msg = n => pc[Reader] = "idle")
      => mode[n] = "response"

\* As long as every wait is ended by the signal, ami_event never accesses a record
\* that its caller has deleted, not even in the tests it makes before it locks
\* (amiproc.cpp 256-293).
NoStaleAccess == ~early => ~stale

\* As long as every wait is ended by the signal, the counter of waiting threads is
\* exact between calls (amiproc.h 79-86).
CountBalanced ==
  ~early /\ (\A p \in Procs : pc[p] = "idle") => resp_waitcount = 0

\* A call that has the lock returns, even if Asterisk never answers: the wait ends,
\* and the two mutexes are always taken in the same order (amiproc.cpp 120-167).
CallReturns == \A p \in Callers : pc[p] = "publish" ~> pc[p] = "returned"
=============================================================================
