------------------------------ MODULE TstPool ------------------------------
(* The thread pool of tst/tst.cpp in server mode (m_socktype = sock_listen): *)
(* the main thread tst_main (epoll, accept, dispatch, shutdown), the worker  *)
(* threads tst_work, the connection table m_connect with the TST_SOCKET      *)
(* records it owns, closesocket, need_send and destroy.                      *)
(*                                                                           *)
(* A step is the code between two accesses to state that another thread can  *)
(* change.  A connection and its TST_SOCKET record have the same name, an    *)
(* element of Conns.  Descriptors are reused, connections are not.           *)
EXTENDS Integers, FiniteSets

CONSTANTS
  ThreadCount,    \* m_thread_count
  Conns,          \* bound: the connections accepted in one behaviour
  Fds,            \* the descriptors accept() can return (the process limit)
  Listen,         \* the listening descriptor, m_sockmain
  None,           \* no descriptor, no connection (a null pointer)
  Returns,        \* what the user function tst_func returns
  IdleReturns,    \* what the idle function tst_idle returns
  Admits,         \* what the new-connection callback m_fconnected returns
  EndWaitExpires, \* may a job outlast the time destroy() waits for it?
  WaitErrors,     \* may pthread_cond_timedwait fail (m_waittime out of range)?
  ListenErrs      \* may the listening socket report EPOLLHUP?

UserStats == {"suspend", "run", "send", "reconnected", "disconnect", "exit"}
Stats == UserStats \cup {"exited"}
Events == {"IN", "OUT", "HUP"}

ASSUME PoolConstants ==
  /\ ThreadCount \in Nat \ {0}
  /\ Listen \notin Fds
  /\ None \notin Fds \cup Conns \cup {Listen}
  /\ Returns \subseteq UserStats
  /\ IdleReturns \subseteq UserStats
  /\ Admits \subseteq UserStats
  /\ {EndWaitExpires, WaitErrors, ListenErrs} \subseteq BOOLEAN

Workers == 0..(ThreadCount - 1)
MainT == ThreadCount          \* the main thread as a caller of closesocket
UserT == ThreadCount + 1      \* an application thread outside the pool
Threads == Workers \cup {MainT, UserT}
AllFds == Fds \cup {Listen}

VARIABLES
  \* the kernel
  conn,       \* Fds -> the connection a descriptor refers to, None if closed
  ep,         \* AllFds -> epoll interest: "none" not added, "off" disabled by
              \*   EPOLLONESHOT, "in" base events, "inout" with EPOLLOUT
  rx,         \* Fds -> what waits to be received: "data", the peer's "fin"
  \* shared state of the pool
  m_connect,  \* Fds -> the record registered under a descriptor, or None
  heap,       \* Conns -> the TST_SOCKET record: "none", "live", "freed"
  sd,         \* Conns -> TST_SOCKET::sd
  m_main_run,
  m_work_run,
  dpc,        \* destroy(): "none", "join", "done"
  crash,      \* "none", or the undefined behaviour the process has run into
  \* the main thread
  mpc,        \* program counter
  batch,      \* AllFds -> its events in m_events that are not handled yet
  cur,        \* the descriptor of m_events[nCheckCount-1], once looked up
  msock,      \* the local variable socket
  mi,         \* the local variable i
  seen,       \* the workers marked in szThreadStatus
  \* the workers
  wpc,        \* program counter
  thread_stat,
  tst_socket,
  job,        \* the local variable socket of tst_work
  nxt,        \* the local variable next of tst_work
  \* calls of closesocket, one at a time per thread
  cpc,        \* "idle", or where the thread is inside closesocket
  cfd,        \* its argument sd
  cobj        \* the record it found

kernel == <<conn, ep, rx>>
table  == <<m_connect, heap, sd>>
flags  == <<m_main_run, m_work_run, dpc, crash>>
mainv  == <<mpc, batch, cur, msock, mi, seen>>
workv  == <<wpc, thread_stat, tst_socket, job, nxt>>
closev == <<cpc, cfd, cobj>>
vars   == <<kernel, table, flags, mainv, workv, closev>>

----------------------------------------------------------------------------
(* Vocabulary.                                                              *)

\* The comparisons the code makes in the ordered enumeration TST_STAT.
BelowRun(s)         == s = "suspend"
BelowReconnected(s) == s \in {"suspend", "run", "send"}
BelowExit(s)        == s \notin {"exit", "exited"}

\* Variation: the main thread does not unlock after it has assigned a job.
MutexFreeNoUnlock(w) == ~(mpc \in {"assign", "top"} /\ mi = w) /\ wpc[w] # "done"

\* The mutex of worker w is held by the main thread while it assigns a job, and
\* by the worker while it finishes one.
MutexFree(w) == ~(mpc = "assign" /\ mi = w) /\ wpc[w] # "done"

\* Variations: no lock at all; the lock already taken by the caller.
ConnectUnlocked == TRUE
ConnectLockedByCaller == \A t \in Threads : cpc[t] = "idle"

\* Variation: the main thread holds it from the search until the job is assigned.
ConnectHeldByMain == (\A t \in Threads : cpc[t] # "erase") /\ mpc \notin {"scan", "lock", "assign"}

\* m_mutexConnect is held while closesocket searches and erases.
ConnectFree == \A t \in Threads : cpc[t] # "erase"

\* The main thread searches the std::map without the lock; another thread may
\* be erasing from it.
Torn == \E t \in Threads \ {MainT} : cpc[t] = "erase"

\* What becomes of the process when it accesses the record o.
Access(o) == IF o = None THEN "null pointer"
             ELSE IF heap[o] = "live" THEN crash ELSE "use after free"

\* Variation: nCheckCount is decremented for the listening socket only.
HandledAgain(f) == IF f = Listen THEN [batch EXCEPT ![f] = {}] ELSE batch

\* nCheckCount--: the event of f has been handled.
Handled(f) == [batch EXCEPT ![f] = {}]

\* Variation: tst_socket is not reset when a job ends.
ClearedNot(w) == tst_socket

\* tst_socket = NULL, at the end of a job.
Cleared(w) == [tst_socket EXCEPT ![w] = None]

----------------------------------------------------------------------------
(* create() has just started the workers and the main thread.               *)

Init ==
  /\ conn = [f \in Fds |-> None]
  /\ ep = [f \in AllFds |-> "none"]
  /\ rx = [f \in Fds |-> {}]
  /\ m_connect = [f \in Fds |-> None]
  /\ heap = [o \in Conns |-> "none"]
  /\ sd = [o \in Conns |-> None]
  /\ m_main_run = TRUE /\ m_work_run = TRUE /\ dpc = "none" /\ crash = "none"
  /\ mpc = "start" /\ cur = None /\ msock = None /\ mi = 0 /\ seen = {}
  /\ batch = [f \in AllFds |-> {}]
  /\ wpc = [w \in Workers |-> "top"]
  /\ thread_stat = [w \in Workers |-> "suspend"]
  /\ tst_socket = [w \in Workers |-> None]
  /\ job = [w \in Workers |-> None]
  /\ nxt = [w \in Workers |-> "suspend"]
  /\ cpc = [t \in Threads |-> "idle"]
  /\ cfd = [t \in Threads |-> None]
  /\ cobj = [t \in Threads |-> None]

----------------------------------------------------------------------------
(* The kernel and the peers.                                                *)

\* Bytes arrive, or the peer closes its side.
Peer(f, x) ==
  /\ conn[f] # None /\ "fin" \notin rx[f]
  /\ rx' = [rx EXCEPT ![f] = @ \cup {x}]
  /\ UNCHANGED <<conn, ep, table, flags, mainv, workv, closev>>

\* The event sets epoll_wait may report for f: what is armed and ready.  A
\* peer's fin is EPOLLIN with EPOLLRDHUP.  Whether a socket is writable is up to
\* the kernel, and a peer may connect at any time.
ReadyEvents(f) ==
  {E \in SUBSET Events :
    /\ E # {} /\ ep[f] \in {"in", "inout"}
    /\ IF f = Listen
       THEN \/ E = {"IN"} /\ \E o \in Conns : heap[o] = "none"
            \/ E = {"HUP"} /\ ListenErrs
       ELSE /\ "IN" \in E <=> rx[f] # {}
            /\ "HUP" \in E <=> "fin" \in rx[f]
            /\ "OUT" \in E => ep[f] = "inout"}

\* Variation: EPOLLONESHOT is left out.
ReportedLevel(S) == ep

\* EPOLLONESHOT: a reported descriptor is disabled until it is armed again.
Reported(S) == [f \in AllFds |-> IF f \in S THEN "off" ELSE ep[f]]

----------------------------------------------------------------------------
(* closesocket(sd), called by the thread t.                                 *)

\* Variation: the descriptor of the record is reset before the call.
StartCloseNoFd(t, f) == cpc' = [cpc EXCEPT ![t] = "lock"] /\ UNCHANGED <<cfd, cobj>>

StartClose(t, f) ==
  /\ cpc' = [cpc EXCEPT ![t] = "lock"]
  /\ cfd' = [cfd EXCEPT ![t] = f]
  /\ UNCHANGED cobj

\* Variation: the entry is found and never erased.
CsFindNoErase(t) ==
  /\ cpc[t] = "lock" /\ ConnectFree
  /\ cpc' = [cpc EXCEPT ![t] = "close"]
  /\ cobj' = [cobj EXCEPT ![t] = m_connect[cfd[t]]]
  /\ UNCHANGED <<kernel, table, flags, mainv, workv, cfd>>

\* Lock m_mutexConnect and search.
CsFind(t) ==
  /\ cpc[t] = "lock" /\ ConnectFree
  /\ cpc' = [cpc EXCEPT ![t] = "erase"]
  /\ cobj' = [cobj EXCEPT ![t] = m_connect[cfd[t]]]
  /\ UNCHANGED <<kernel, table, flags, mainv, workv, cfd>>

\* Erase the entry, unlock, call m_fdisconnected.
CsErase(t) ==
  /\ cpc[t] = "erase"
  /\ m_connect' = [m_connect EXCEPT ![cfd[t]] = None]
  /\ cpc' = [cpc EXCEPT ![t] = "close"]
  /\ UNCHANGED <<kernel, heap, sd, flags, mainv, workv, cfd, cobj>>

\* EPOLL_CTL_DEL, drain, close(sd): whatever connection sd refers to by now.
CsClose(t) ==
  /\ cpc[t] = "close"
  /\ conn' = [conn EXCEPT ![cfd[t]] = None]
  /\ ep' = [ep EXCEPT ![cfd[t]] = "none"]
  /\ rx' = [rx EXCEPT ![cfd[t]] = {}]
  /\ cpc' = [cpc EXCEPT ![t] = "delete"]
  /\ UNCHANGED <<table, flags, mainv, workv, cfd, cobj>>

\* delete socket, if one was found.
CsDelete(t) ==
  /\ cpc[t] = "delete"
  /\ cpc' = [cpc EXCEPT ![t] = "idle"]
  /\ cfd' = [cfd EXCEPT ![t] = None]
  /\ cobj' = [cobj EXCEPT ![t] = None]
  /\ IF cobj[t] = None
     THEN UNCHANGED <<heap, crash>>
     ELSE /\ heap' = [heap EXCEPT ![cobj[t]] = "freed"]
          /\ crash' = IF heap[cobj[t]] = "freed" THEN "double free" ELSE crash
  /\ UNCHANGED <<kernel, m_connect, sd, m_main_run, m_work_run, dpc, mainv, workv>>

CloseStep(t) == CsFind(t) \/ CsErase(t) \/ CsClose(t) \/ CsDelete(t)

----------------------------------------------------------------------------
(* tst_main: accepting.                                                     *)

\* The top of the main loop; closesocket, if called, has returned.
AtTop == mpc = "top" /\ cpc[MainT] = "idle" /\ m_main_run

\* Register the listening socket.
MStart ==
  /\ mpc = "start"
  /\ ep' = [ep EXCEPT ![Listen] = "in"]
  /\ mpc' = "top"
  /\ UNCHANGED <<conn, rx, table, flags, workv, closev, batch, cur, msock, mi, seen>>

\* epoll_wait: at most m_thread_count events, when the last ones are handled.
MWait ==
  /\ AtTop /\ \A f \in AllFds : batch[f] = {}
  /\ \E S \in SUBSET {f \in AllFds : ReadyEvents(f) # {}} :
       /\ Cardinality(S) \in 1..ThreadCount
       /\ batch' \in [AllFds -> SUBSET Events]
       /\ \A f \in AllFds :
            batch'[f] \in (IF f \in S THEN ReadyEvents(f) ELSE {{}})
       /\ ep' = Reported(S)
  /\ UNCHANGED <<conn, rx, table, flags, workv, closev, mpc, cur, msock, mi, seen>>

\* accept() returns f: a new TST_SOCKET o, and an unlocked search for an entry
\* left under f.  Such garbage is closed first.
MAccept(f, o) ==
  /\ AtTop /\ cur = None /\ "IN" \in batch[Listen]
  /\ conn[f] = None /\ heap[o] = "none"
  /\ conn' = [conn EXCEPT ![f] = o]
  /\ heap' = [heap EXCEPT ![o] = "live"]
  /\ sd' = [sd EXCEPT ![o] = f]
  /\ msock' = o
  /\ batch' = Handled(Listen)
  /\ mpc' = "add"
  /\ \/ m_connect[f] # None /\ StartClose(MainT, f)
     \/ (m_connect[f] = None \/ Torn) /\ UNCHANGED closev
  /\ UNCHANGED <<ep, rx, m_connect, flags, workv, cur, mi, seen>>

\* accept() fails, for whatever reason: nCheckCount--, continue.
MAcceptFail ==
  /\ AtTop /\ cur = None /\ "IN" \in batch[Listen]
  /\ batch' = Handled(Listen)
  /\ UNCHANGED <<kernel, table, flags, workv, closev, mpc, cur, msock, mi, seen>>

\* addsocket(), under m_mutexConnect.
MAdd ==
  /\ mpc = "add" /\ cpc[MainT] = "idle" /\ ConnectFree
  /\ m_connect' = [m_connect EXCEPT ![sd[msock]] = msock]
  /\ mpc' = "admit"
  /\ UNCHANGED <<kernel, heap, sd, flags, workv, closev, batch, cur, msock, mi, seen>>

\* m_fconnected admits the connection: EPOLL_CTL_ADD, which fails when the
\* descriptor is not open.
MAdmit ==
  /\ mpc = "admit"
  /\ \E r \in Admits :
       /\ BelowReconnected(r)
       /\ ep' = IF conn[sd[msock]] = None THEN ep
                ELSE [ep EXCEPT ![sd[msock]] = IF r = "send" THEN "inout" ELSE "in"]
  /\ mpc' = "relisten"
  /\ UNCHANGED <<conn, rx, table, flags, workv, closev, batch, cur, msock, mi, seen>>

\* m_fconnected refuses it: closesocket.
MRefuse ==
  /\ mpc = "admit"
  /\ \E r \in Admits : ~BelowReconnected(r)
  /\ StartClose(MainT, sd[msock])
  /\ mpc' = "relisten"
  /\ UNCHANGED <<kernel, table, flags, workv, batch, cur, msock, mi, seen>>

\* EPOLL_CTL_MOD: the listening socket is armed again.
MRelisten ==
  /\ mpc = "relisten" /\ cpc[MainT] = "idle"
  /\ ep' = [ep EXCEPT ![Listen] = "in"]
  /\ mpc' = "top"
  /\ msock' = None
  /\ UNCHANGED <<conn, rx, table, flags, workv, closev, batch, cur, mi, seen>>

\* The listening socket is broken: the main thread stops itself.
MListenErr ==
  /\ AtTop /\ cur = None /\ batch[Listen] = {"HUP"}
  /\ m_main_run' = FALSE
  /\ batch' = Handled(Listen)
  /\ UNCHANGED <<kernel, table, m_work_run, dpc, crash, workv, closev, mpc, cur,
                 msock, mi, seen>>

----------------------------------------------------------------------------
(* tst_main: dispatching an event of a connection.                          *)

\* The event handled next; after a scan that found no worker, the same again.
AtHand(f) == AtTop /\ batch[f] # {} /\ cur \in {None, f}

\* The test for a dead connection: a hang-up, EPOLLIN with nothing to read, or
\* an ioctl that fails because the descriptor is closed.
DeadPeer(f) ==
  "HUP" \in batch[f] \/ ("IN" \in batch[f] /\ rx[f] = {}) \/ conn[f] = None

MClose(f) ==
  /\ AtHand(f) /\ DeadPeer(f)
  /\ StartClose(MainT, f)
  /\ batch' = Handled(f)
  /\ cur' = None
  /\ UNCHANGED <<kernel, table, flags, workv, mpc, msock, mi, seen>>

\* m_connect.find(sd) without the lock.  An absent entry is reported and then
\* dereferenced all the same; a search that overlaps an erase may miss.
MFind(f) ==
  /\ AtHand(f) /\ ~DeadPeer(f)
  /\ \/ /\ m_connect[f] # None
        /\ msock' = m_connect[f] /\ cur' = f /\ mi' = 0 /\ mpc' = "scan"
        /\ UNCHANGED crash
     \/ /\ m_connect[f] = None \/ Torn
        /\ crash' = "wild lookup"
        /\ UNCHANGED <<msock, cur, mi, mpc>>
  /\ UNCHANGED <<kernel, table, m_main_run, m_work_run, dpc, workv, closev, batch, seen>>

\* Look for a worker at rest, reading thread_stat without its mutex.  If there
\* is none, the main loop starts again with the same event.
MScan ==
  /\ mpc = "scan"
  /\ \/ /\ mi \in Workers /\ BelowRun(thread_stat[mi])
        /\ mpc' = "lock" /\ UNCHANGED <<mi, msock>>
     \/ /\ mi \in Workers /\ ~BelowRun(thread_stat[mi])
        /\ mi' = mi + 1 /\ UNCHANGED <<mpc, msock>>
     \/ /\ mi = ThreadCount
        /\ mpc' = "top" /\ mi' = 0 /\ msock' = None
  /\ UNCHANGED <<kernel, table, flags, workv, closev, batch, cur, seen>>

\* Lock that worker; its state becomes tst_run without a second look at it.
MLock ==
  /\ mpc = "lock" /\ MutexFree(mi)
  /\ thread_stat' = [thread_stat EXCEPT ![mi] = "run"]
  /\ mpc' = "assign"
  /\ UNCHANGED <<kernel, table, flags, wpc, tst_socket, job, nxt, closev, batch,
                 cur, msock, mi, seen>>

\* The worker w leaves pthread_cond_timedwait if it is in it.
Signal(w) == wpc' = [wpc EXCEPT ![w] = IF @ = "wait" THEN "reacq" ELSE @]

\* Store the events in the record, hand the record over, signal, unlock.
MAssign ==
  /\ mpc = "assign"
  /\ crash' = Access(msock)
  /\ tst_socket' = [tst_socket EXCEPT ![mi] = msock]
  /\ Signal(mi)
  /\ batch' = Handled(cur)
  /\ cur' = None /\ msock' = None /\ mi' = 0 /\ mpc' = "top"
  /\ UNCHANGED <<kernel, table, m_main_run, m_work_run, dpc, thread_stat, job,
                 nxt, closev, seen>>

----------------------------------------------------------------------------
(* tst_main: stopping the workers.                                          *)

MStop ==
  /\ mpc = "top" /\ cpc[MainT] = "idle" /\ ~m_main_run
  /\ m_work_run' = FALSE
  /\ mi' = 0 /\ mpc' = "stop"
  /\ UNCHANGED <<kernel, table, m_main_run, dpc, crash, workv, closev, batch, cur,
                 msock, seen>>

\* Under its mutex, a worker at rest is told to exit and woken.
MStopWorker ==
  /\ mpc = "stop" /\ MutexFree(mi)
  /\ IF BelowRun(thread_stat[mi])
     THEN thread_stat' = [thread_stat EXCEPT ![mi] = "exit"] /\ Signal(mi)
     ELSE UNCHANGED <<thread_stat, wpc>>
  /\ IF mi + 1 = ThreadCount THEN mpc' = "await" /\ mi' = 0
                             ELSE mpc' = "stop" /\ mi' = mi + 1
  /\ UNCHANGED <<kernel, table, flags, tst_socket, job, nxt, closev, batch, cur,
                 msock, seen>>

\* begin_time is set when a job starts.  Unless worker w is in a job it is the
\* time of an earlier one, or zero: the time to wait for w may be over at once, and
\* it is when the pool stops without destroy(), which alone sets m_endwaittime.
Overdue(w) ==
  EndWaitExpires \/ dpc = "none" \/ wpc[w] \notin {"run", "fin", "done"}

\* The polling loop marks worker w as finished.
MSeen(w) ==
  /\ mpc = "await" /\ w \notin seen
  /\ ~BelowExit(thread_stat[w]) \/ Overdue(w)
  /\ seen' = seen \cup {w}
  /\ UNCHANGED <<kernel, table, flags, workv, closev, mpc, batch, cur, msock, mi>>

\* pthread_cancel what has not exited.
MCancel ==
  /\ mpc = "await" /\ seen = Workers
  /\ mpc' = "cancel"
  /\ UNCHANGED <<kernel, table, flags, workv, closev, batch, cur, msock, mi, seen>>

\* free(m_workers), without a look at who still runs on it; end of the thread.
MExit ==
  /\ mpc = "cancel"
  /\ mpc' = "exit"
  /\ UNCHANGED <<kernel, table, flags, workv, closev, batch, cur, msock, mi, seen>>

Main ==
  \/ MStart \/ MWait \/ MAcceptFail \/ MAdd \/ MAdmit \/ MRefuse \/ MRelisten
  \/ MListenErr \/ MScan \/ MLock \/ MAssign \/ MStop \/ MStopWorker \/ MCancel
  \/ MExit \/ \E f \in Fds : MClose(f) \/ MFind(f) \/ \E o \in Conns : MAccept(f, o)
  \/ \E w \in Workers : MSeen(w)
  \/ CloseStep(MainT)

----------------------------------------------------------------------------
(* tst_work: one round of the loop of worker w.                             *)

\* Worker w goes from one pc to another and changes only its own variables.
Go(w, from, to) ==
  /\ wpc[w] = from
  /\ wpc' = [wpc EXCEPT ![w] = to]
  /\ UNCHANGED <<kernel, table, mainv>>

\* Nothing but the pc changes.
Move(w, from, to) ==
  Go(w, from, to) /\ UNCHANGED <<flags, closev, thread_stat, tst_socket, job, nxt>>

\* thread_stat = s
SetStat(w, s, from, to) ==
  /\ Go(w, from, to)
  /\ thread_stat' = [thread_stat EXCEPT ![w] = s]
  /\ UNCHANGED <<flags, closev, tst_socket, job, nxt>>

\* while (m_work_run)
WTop(w) == Move(w, "top", IF m_work_run THEN "stat" ELSE "end")

\* if (thread_stat < tst_exit), read without the mutex; otherwise no wait.
WStat(w) == Move(w, "stat", IF BelowExit(thread_stat[w]) THEN "lock" ELSE "check")

\* Lock the mutex and wait; the state is not looked at again.
WWait(w) == MutexFree(w) /\ Move(w, "lock", "wait")

\* pthread_cond_timedwait fails: thread_stat = tst_suspend without the mutex.
WWaitError(w) == WaitErrors /\ MutexFree(w) /\ SetStat(w, "suspend", "lock", "top")

\* Variation: the loop starts again after a timeout, without looking for a job.
WTimeoutContinue(w) == Move(w, "wait", "top")

\* The wait ends by itself, after m_waittime or spuriously.
WTimeout(w) == Move(w, "wait", "reacq")

\* The wait returns with the mutex, which is unlocked.
WAwake(w) == MutexFree(w) /\ Move(w, "reacq", "check")

\* if (thread_stat == tst_run): take the record that tst_socket points to now,
\* without the mutex, and access it.
WTake(w) ==
  /\ thread_stat[w] = "run"
  /\ Go(w, "check", "run")
  /\ job' = [job EXCEPT ![w] = tst_socket[w]]
  /\ crash' = Access(tst_socket[w])
  /\ UNCHANGED <<m_main_run, m_work_run, dpc, closev, thread_stat, tst_socket, nxt>>

\* The state was not tst_run.  The next comparisons may load it again.
WNotRun(w) == thread_stat[w] # "run" /\ Move(w, "check", "check2")

WBranch(w) ==
  \/ thread_stat[w] = "suspend" /\ Move(w, "check2", "idle")
  \/ thread_stat[w] = "exit" /\ Move(w, "check2", "leave")
  \/ thread_stat[w] \notin {"suspend", "exit"} /\ Move(w, "check2", "odd")

\* The job: the automatic transfer and, unless that is not complete, the user
\* function.  Either may read what has arrived.  The result is next.
WRun(w) ==
  /\ wpc[w] = "run"
  /\ wpc' = [wpc EXCEPT ![w] = "fin"]
  /\ \E r \in Returns \cup {"suspend", "send"} : nxt' = [nxt EXCEPT ![w] = r]
  /\ rx' \in {rx, [rx EXCEPT ![sd[job[w]]] = @ \ {"data"}]}
  /\ crash' = Access(job[w])
  /\ UNCHANGED <<conn, ep, table, m_main_run, m_work_run, dpc, mainv, closev,
                 thread_stat, tst_socket, job>>

\* Lock the own mutex; next == tst_disconnect: closesocket(socket->sd).
WDisconnect(w) ==
  /\ MutexFree(w) /\ nxt[w] = "disconnect"
  /\ Go(w, "fin", "done")
  /\ StartClose(w, sd[job[w]])
  /\ nxt' = [nxt EXCEPT ![w] = "suspend"]
  /\ crash' = Access(job[w])
  /\ UNCHANGED <<m_main_run, m_work_run, dpc, thread_stat, tst_socket, job>>

\* Otherwise EPOLL_CTL_MOD arms the descriptor again, with the mutex held.  It
\* fails when epoll does not know the descriptor.
WRearm(w) ==
  /\ MutexFree(w) /\ nxt[w] # "disconnect"
  /\ wpc[w] = "fin"
  /\ wpc' = [wpc EXCEPT ![w] = "done"]
  /\ ep' = IF ep[sd[job[w]]] = "none" THEN ep
           ELSE [ep EXCEPT ![sd[job[w]]] = IF nxt[w] = "send" THEN "inout" ELSE "in"]
  /\ nxt' = [nxt EXCEPT ![w] = IF @ = "send" THEN "suspend" ELSE @]
  /\ crash' = Access(job[w])
  /\ UNCHANGED <<conn, rx, table, m_main_run, m_work_run, dpc, mainv, closev,
                 thread_stat, tst_socket, job>>

\* thread_stat = next, tst_socket = NULL, unlock.
WDone(w) ==
  /\ cpc[w] = "idle"
  /\ Go(w, "done", "top")
  /\ thread_stat' = [thread_stat EXCEPT ![w] = nxt[w]]
  /\ tst_socket' = Cleared(w)
  /\ job' = [job EXCEPT ![w] = None]
  /\ nxt' = [nxt EXCEPT ![w] = "suspend"]
  /\ UNCHANGED <<flags, closev>>

\* thread_stat == tst_suspend: tst_run without the mutex, then the idle function.
WIdle(w) == SetStat(w, "run", "idle", "idled")

\* thread_stat = what the idle function returned, under the mutex.
WIdled(w) == MutexFree(w) /\ \E r \in IdleReturns : SetStat(w, r, "idled", "top")

\* Any other state: back to tst_suspend, under the mutex.
WOdd(w) == MutexFree(w) /\ SetStat(w, "suspend", "odd", "top")

\* Told to exit: thread_stat = tst_exited, break.
WLeave(w) == SetStat(w, "exited", "leave", "end")

\* Behind the loop: thread_stat = tst_exited, end of the thread.
WEnd(w) == SetStat(w, "exited", "end", "dead")

\* pthread_cancel takes effect at a cancellation point: the wait, which takes the
\* mutex of the worker once more, the system calls of a job, close() in closesocket.
WCancelled(w) ==
  /\ \/ mpc \in {"cancel", "exit"} /\ (wpc[w] = "run" \/ cpc[w] = "close")
     \/ mpc = "cancel" /\ wpc[w] \in {"wait", "reacq"}
  /\ Go(w, wpc[w], "dead")
  /\ cpc' = [cpc EXCEPT ![w] = "idle"]
  /\ cfd' = [cfd EXCEPT ![w] = None]
  /\ cobj' = [cobj EXCEPT ![w] = None]
  /\ UNCHANGED <<flags, thread_stat, tst_socket, job, nxt>>

\* m_workers has been freed: a worker that still runs, outside of closesocket, is
\* about to access its entry (me).
WFreed(w) ==
  /\ mpc = "exit" /\ wpc[w] # "dead" /\ cpc[w] = "idle"
  /\ crash' = "use after free"
  /\ UNCHANGED <<kernel, table, m_main_run, m_work_run, dpc, mainv, workv, closev>>

\* The steps with an entry in m_workers.
Work(w) ==
  \/ WTop(w) \/ WStat(w) \/ WWait(w) \/ WWaitError(w) \/ WTimeout(w)
  \/ WAwake(w) \/ WTake(w) \/ WNotRun(w) \/ WBranch(w) \/ WRun(w)
  \/ WDisconnect(w) \/ WRearm(w) \/ WDone(w) \/ WIdle(w) \/ WIdled(w)
  \/ WOdd(w) \/ WLeave(w) \/ WEnd(w)

Worker(w) ==
  \/ mpc # "exit" /\ Work(w)
  \/ WFreed(w) \/ WCancelled(w) \/ CloseStep(w)

----------------------------------------------------------------------------
(* The calls of an application thread.                                      *)

\* need_send(sd): EPOLL_CTL_MOD with EPOLLOUT, an error if sd is not in epoll.
NeedSend(f) ==
  /\ m_main_run /\ ep[f] # "none"
  /\ ep' = [ep EXCEPT ![f] = "inout"]
  /\ UNCHANGED <<conn, rx, table, flags, mainv, workv, closev>>

\* closesocket(sd) of a connection the application has found in m_connect.
UserClose(f) ==
  /\ cpc[UserT] = "idle" /\ m_connect[f] # None
  /\ StartClose(UserT, f)
  /\ UNCHANGED <<kernel, table, flags, mainv, workv>>

\* destroy() does nothing if the main thread has stopped by itself.
DBegin ==
  /\ dpc = "none" /\ m_main_run
  /\ m_main_run' = FALSE
  /\ dpc' = "join"
  /\ UNCHANGED <<kernel, table, m_work_run, crash, mainv, workv, closev>>

\* After pthread_join: close what is registered, delete the records.
DClean ==
  /\ dpc = "join" /\ mpc = "exit"
  /\ dpc' = "done"
  /\ LET reg == {f \in Fds : m_connect[f] # None}
         own == {m_connect[f] : f \in reg}
     IN /\ conn' = [f \in Fds |-> IF f \in reg THEN None ELSE conn[f]]
        /\ ep' = [f \in AllFds |-> IF f \in reg \cup {Listen} THEN "none" ELSE ep[f]]
        /\ rx' = [f \in Fds |-> IF f \in reg THEN {} ELSE rx[f]]
        /\ heap' = [o \in Conns |-> IF o \in own THEN "freed" ELSE heap[o]]
        /\ crash' = IF \E o \in own : heap[o] = "freed" THEN "double free" ELSE crash
  /\ m_connect' = [f \in Fds |-> None]
  /\ UNCHANGED <<sd, m_main_run, m_work_run, mainv, workv, closev>>

----------------------------------------------------------------------------
(* Specifications.                                                          *)

Peers == \E f \in Fds : Peer(f, "data") \/ Peer(f, "fin")

SendCalls == \E f \in Fds : NeedSend(f)

CloseCalls == CloseStep(UserT) \/ \E f \in Fds : UserClose(f)

DestroyCall == DBegin \/ DClean

\* The process has run into undefined behaviour, or its threads have ended.
Halted ==
  /\ crash # "none" \/ (mpc = "exit" /\ \A w \in Workers : wpc[w] = "dead")
  /\ UNCHANGED vars

CoreNext ==
  \/ crash = "none" /\ (Peers \/ Main \/ \E w \in Workers : Worker(w))
  \/ Halted

\* The pool left to itself: peers come and go, nobody calls its functions.
CoreSpec == Init /\ [][CoreNext]_vars

\* An application calls destroy(), or need_send() and closesocket().
PoolSpec == Init /\ [][CoreNext \/ (crash = "none" /\ DestroyCall)]_vars

ApiSpec == Init /\ [][CoreNext \/ (crash = "none" /\ (SendCalls \/ CloseCalls))]_vars

\* The threads are scheduled, waits expire and user functions return.
FairSpec ==
  /\ PoolSpec
  /\ WF_vars(crash = "none" /\ (Main \/ DClean))
  /\ \A w \in Workers : WF_vars(crash = "none" /\ Worker(w))
=============================================================================
