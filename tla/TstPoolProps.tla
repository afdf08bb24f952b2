---------------------------- MODULE TstPoolProps ----------------------------
(* What the pool of tst/tst.cpp promises, and what its comments and README    *)
(* claim about it.                                                            *)
EXTENDS TstPool

MainPcs == {"start", "top", "add", "admit", "relisten", "scan", "lock", "assign",
            "stop", "await", "cancel", "exit"}
WorkerPcs == {"top", "stat", "lock", "wait", "reacq", "check", "check2", "run",
              "fin", "done", "idle", "idled", "odd", "leave", "end", "dead"}
ClosePcs == {"idle", "lock", "erase", "close", "delete"}
Crashes == {"none", "null pointer", "use after free", "double free", "wild lookup"}

TypeKernel ==
  /\ conn \in [Fds -> Conns \cup {None}]
  /\ ep \in [AllFds -> {"none", "off", "in", "inout"}]
  /\ rx \in [Fds -> SUBSET {"data", "fin"}]

TypeTable ==
  /\ m_connect \in [Fds -> Conns \cup {None}]
  /\ heap \in [Conns -> {"none", "live", "freed"}]
  /\ sd \in [Conns -> Fds \cup {None}]
  /\ \A o \in Conns : heap[o] # "none" => sd[o] \in Fds

TypeFlags ==
  /\ m_main_run \in BOOLEAN /\ m_work_run \in BOOLEAN
  /\ dpc \in {"none", "join", "done"} /\ crash \in Crashes

TypeMain ==
  /\ mpc \in MainPcs
  /\ batch \in [AllFds -> SUBSET Events]
  /\ cur \in Fds \cup {None}
  /\ msock \in Conns \cup {None}
  /\ mpc \in {"add", "admit", "relisten", "scan", "lock", "assign"} => msock \in Conns
  /\ mpc \in {"scan", "lock", "assign"} => cur \in Fds
  /\ mi \in 0..ThreadCount
  /\ mpc \in {"lock", "assign", "stop"} => mi \in Workers
  /\ seen \in SUBSET Workers

TypeWorkers ==
  /\ wpc \in [Workers -> WorkerPcs]
  /\ thread_stat \in [Workers -> Stats]
  /\ tst_socket \in [Workers -> Conns \cup {None}]
  /\ job \in [Workers -> Conns \cup {None}]
  /\ nxt \in [Workers -> UserStats]

TypeClose ==
  /\ cpc \in [Threads -> ClosePcs]
  /\ cfd \in [Threads -> Fds \cup {None}]
  /\ \A t \in Threads : cpc[t] # "idle" => cfd[t] \in Fds
  /\ cobj \in [Threads -> Conns \cup {None}]

\* A record that some pointer names has been allocated, and so has a descriptor.
TypePointers ==
  /\ \A f \in Fds : m_connect[f] # None => heap[m_connect[f]] # "none"
  /\ \A w \in Workers : tst_socket[w] # None => heap[tst_socket[w]] # "none"
  /\ \A w \in Workers : job[w] # None => heap[job[w]] # "none"
  /\ \A t \in Threads : cobj[t] # None => heap[cobj[t]] # "none"
  /\ msock # None => heap[msock] # "none"
  /\ crash = "none" => \A w \in Workers : wpc[w] \in {"run", "fin"} => job[w] # None

\* Every variable has its type.  In particular the indices, descriptors and
\* pointers the code follows (mi, cur, msock, job, cfd) name something where they
\* are followed.
TypeOK ==
  TypeKernel /\ TypeTable /\ TypeFlags /\ TypeMain /\ TypeWorkers /\ TypeClose
    /\ TypePointers

----------------------------------------------------------------------------
(* Who has a connection.                                                     *)

Armed(f) == ep[f] \in {"in", "inout"}

\* Worker w has the record o: it works on it, closes it, or has been assigned it
\* and may still take it.  After the re-arm it only clears its pointers.
InJob(w) == wpc[w] \in {"run", "fin"} \/ (wpc[w] = "done" /\ cpc[w] # "idle")
Holds(w, o) == \/ InJob(w) /\ job[w] = o
               \/ wpc[w] \notin {"done", "dead"} /\ tst_socket[w] = o

\* README 42: the socket a worker works on raises no event, so no second worker
\* gets it and the user function needs no lock.
OneWorker ==
  \A v, w \in Workers, o \in Conns : Holds(v, o) /\ Holds(w, o) => v = w

\* EPOLLONESHOT hand-over (tst.cpp 198-234, 385-403, 634-670): a connection is
\* with epoll, in the main thread's batch, or with one worker, never with two of
\* them.  This is what lets the user function work on a TST_SOCKET unlocked.
SoleOwner ==
  /\ \A f \in Fds : Armed(f) => batch[f] = {}
  /\ \A f \in Fds, w \in Workers :
       conn[f] # None /\ Holds(w, conn[f]) => ~Armed(f) /\ batch[f] = {}
  /\ OneWorker

\* "A registered socket is not deleted while it is in use" (tst.cpp 367): a record
\* a worker has, or the main thread is about to hand over, is live and still the
\* one registered under its descriptor, until that worker itself closes it.
InUseIsRegistered ==
  /\ \A w \in Workers, o \in Conns :
       Holds(w, o) => /\ heap[o] = "live"
                      /\ m_connect[sd[o]] = o \/ cpc[w] \in {"close", "delete"}
  /\ mpc \in {"scan", "lock", "assign"} =>
       heap[msock] = "live" /\ m_connect[cur] = msock

\* The connection table and the kernel agree: an entry is the live record of the
\* connection its descriptor refers to, so accept never meets garbage (tst.cpp
\* 265-268) and, until the workers are cancelled, no open descriptor is forgotten.
TableMatchesKernel ==
  /\ \A f \in Fds : m_connect[f] # None =>
       conn[f] = m_connect[f] /\ heap[m_connect[f]] = "live" /\ sd[m_connect[f]] = f
  /\ \A f \in Fds : conn[f] # None =>
       \/ m_connect[f] = conn[f]
       \/ mpc = "add" /\ msock = conn[f]
       \/ \E t \in Threads : cpc[t] = "close" /\ cfd[t] = f
       \/ mpc \in {"cancel", "exit"}

\* closesocket closes the connection it has unregistered (tst.cpp 896-947), never
\* one that accept has put on the same descriptor in the meantime.
ClosesItsOwn ==
  \A t \in Threads : cpc[t] = "close" => cobj[t] # None /\ conn[cfd[t]] = cobj[t]

\* No record is deleted twice, whoever closes it (tst.cpp 901-909, 944).
NoDoubleFree == crash # "double free"

\* The table never leads to a deleted record, whoever calls closesocket: erase
\* comes before delete and both concern the entry found under the lock.
TableIsLive == \A f \in Fds : m_connect[f] # None => heap[m_connect[f]] = "live"

----------------------------------------------------------------------------
(* Progress, under FairSpec.                                                 *)

\* A worker in its wait has a job: it may have missed the signal, because it was not
\* waiting yet when the main thread gave it.
Assigned(w) == wpc[w] = "wait" /\ thread_stat[w] = "run" /\ tst_socket[w] # None

\* The job of a worker starts, at the latest when the timed wait expires, and comes to
\* its end: the mutexes of its last part, its own and, under that, m_mutexConnect in
\* closesocket, are not part of a deadlock with the main thread, which takes them to
\* assign, to register, and to close another connection (tst.h 236-238, tst.cpp 385,
\* 513-515, 541, 634-670, 901-909).
JobFinishes ==
  \A w \in Workers :
    Assigned(w) \/ InJob(w)
      ~> (wpc[w] = "done" /\ cpc[w] = "idle") \/ wpc[w] = "dead" \/ crash # "none"

\* destroy() returns (tst.cpp 804-871), whatever the workers are doing.
DestroyReturns == dpc = "join" ~> (dpc = "done" \/ crash # "none")

----------------------------------------------------------------------------
(* A claim of the comments and the README that the code does not keep.       *)

\* README 18, tst.cpp 685: a registered connection is with epoll, in the batch,
\* or with a worker that is going to run it.
NoLostJob ==
  \A f \in Fds : m_connect[f] # None =>
    \/ Armed(f) \/ batch[f] # {}
    \/ mpc \in {"add", "admit"} /\ sd[msock] = f
    \/ \E t \in Threads : cpc[t] # "idle" /\ cfd[t] = f
    \/ \E w \in Workers :
         Holds(w, m_connect[f]) /\ (thread_stat[w] = "run" \/ InJob(w))
    \/ ~m_main_run
=============================================================================
