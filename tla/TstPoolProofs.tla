--------------------------- MODULE TstPoolProofs ---------------------------
(* Proofs about the pool, for every number of workers, descriptors and        *)
(* connections and every behaviour of the callbacks: left to itself (CoreSpec), *)
(* and, at the end, with an application that calls need_send and closesocket    *)
(* as it likes (ApiSpec).                                                       *)
EXTENDS TstPoolInv, TLAPS

\* Threads, descriptors and the null pointer are told apart.
LEMMA Names ==
  /\ MainT \notin Workers /\ UserT \notin Workers /\ MainT # UserT
  /\ MainT \in Threads /\ UserT \in Threads /\ Workers \subseteq Threads
  /\ \A t \in Threads : t \in Workers \/ t = MainT \/ t = UserT
  /\ Fds \subseteq AllFds /\ Listen \in AllFds /\ Listen \notin Fds
  /\ None \notin Fds /\ None \notin Conns
  /\ 0 \in Workers /\ 0 \in 0..ThreadCount /\ \A w \in Workers : w + 1 \in 0..ThreadCount
  /\ \A w \in Workers : w + 1 # ThreadCount => w + 1 \in Workers
  /\ \A i \in 0..ThreadCount : i \in Workers \/ i = ThreadCount
BY PoolConstants DEF Workers, MainT, UserT, Threads, AllFds

----------------------------------------------------------------------------
(* Type correctness.                                                          *)

LEMMA InitTypeOK == Init => TypeOK
BY Names, PoolConstants
DEF Init, TypeOK, TypeKernel, TypeTable, TypeFlags, TypeMain, TypeWorkers, TypeClose,
    TypePointers, MainPcs, WorkerPcs, ClosePcs, Crashes, Stats, UserStats, Events

\* A group of variables that a step leaves alone keeps its types.
LEMMA Frame ==
  /\ TypeKernel /\ UNCHANGED kernel => TypeKernel'
  /\ TypeTable /\ UNCHANGED table => TypeTable'
  /\ TypeFlags /\ UNCHANGED flags => TypeFlags'
  /\ TypeMain /\ UNCHANGED mainv => TypeMain'
  /\ TypeWorkers /\ UNCHANGED workv => TypeWorkers'
  /\ TypeClose /\ UNCHANGED closev => TypeClose'
BY DEF TypeKernel, TypeTable, TypeFlags, TypeMain, TypeWorkers, TypeClose,
       kernel, table, flags, mainv, workv, closev

LEMMA StartCloseType ==
  ASSUME TypeClose, NEW t \in Threads, NEW f \in Fds, StartClose(t, f)
  PROVE  TypeClose'
BY Names DEF TypeClose, StartClose, ClosePcs

LEMMA AccessType == ASSUME TypeFlags, NEW o PROVE Access(o) \in Crashes
BY DEF TypeFlags, Access, Crashes

LEMMA CloseTypeOK ==
  ASSUME TypeOK, NEW t \in Threads, CloseStep(t)
  PROVE  TypeOK'
<1> USE Names, Frame DEF TypeOK
<1>1. CASE CsFind(t)
  BY <1>1 DEF CsFind, TypeTable, TypeClose, TypePointers, ClosePcs, table, flags, workv,
              mainv
<1>2. CASE CsErase(t)
  BY <1>2 DEF CsErase, TypeTable, TypeClose, TypePointers, ClosePcs, flags, workv, mainv
<1>3. CASE CsClose(t)
  <2>1. TypeKernel' BY <1>3 DEF CsClose, TypeKernel, TypeClose
  <2>2. TypeClose' BY <1>3 DEF CsClose, TypeClose, ClosePcs
  <2>3. TypePointers' BY <1>3 DEF CsClose, TypePointers, table, flags, mainv, workv
  <2>4. QED BY <1>3, <2>1, <2>2, <2>3 DEF CsClose
<1>4. CASE CsDelete(t)
  <2>0. /\ heap' \in [Conns -> {"none", "live", "freed"}]
        /\ \A o \in Conns : heap'[o] = "none" <=> heap[o] = "none"
    <3>1. CASE cobj[t] = None BY <1>4, <3>1 DEF CsDelete, TypeTable
    <3>2. CASE cobj[t] # None
      <4>1. cobj[t] \in Conns /\ heap[cobj[t]] # "none"
        BY <3>2 DEF TypeClose, TypePointers
      <4>2. heap' = [heap EXCEPT ![cobj[t]] = "freed"] BY <1>4, <3>2 DEF CsDelete
      <4>3. QED BY <4>1, <4>2 DEF TypeTable
    <3>3. QED BY <3>1, <3>2
  <2>1. TypeTable' BY <1>4, <2>0 DEF CsDelete, TypeTable
  <2>2. TypeFlags' BY <1>4 DEF CsDelete, TypeFlags, Crashes
  <2>3. TypeClose' BY <1>4 DEF CsDelete, TypeClose, ClosePcs
  <2>4. TypePointers'
    <3>1. \A t1 \in Threads : cobj'[t1] = None \/ cobj'[t1] = cobj[t1]
      BY <1>4 DEF CsDelete, TypeClose
    <3>2. /\ m_connect' = m_connect /\ tst_socket' = tst_socket /\ job' = job
          /\ msock' = msock /\ wpc' = wpc /\ (crash' = "none" => crash = "none")
      BY <1>4 DEF CsDelete, mainv, workv
    <3>3. QED
      BY <2>0, <3>1, <3>2 DEF TypePointers, TypeTable, TypeClose, TypeMain, TypeWorkers
  <2>5. QED BY <1>4, <2>1, <2>2, <2>3, <2>4 DEF CsDelete
<1>5. QED BY <1>1, <1>2, <1>3, <1>4 DEF CloseStep

\* The step keeps what allocated records the pointers name.
LEMMA SamePointers ==
  /\ TypePointers
  /\ UNCHANGED <<m_connect, heap, tst_socket, job, cobj, msock, wpc, crash>>
  => TypePointers'
BY DEF TypePointers

LEMMA MainTypeOK ==
  ASSUME TypeOK, Main
  PROVE  TypeOK'
<1> USE Names, Frame, SamePointers DEF TypeOK
<1>1. CASE MStart
  <2>1. TypeKernel' BY <1>1 DEF MStart, TypeKernel
  <2>2. TypeMain' BY <1>1 DEF MStart, TypeMain, MainPcs
  <2>3. QED BY <1>1, <2>1, <2>2 DEF MStart, table, workv, closev, flags
<1>2. CASE MWait
  <2>1. TypeKernel' BY <1>2 DEF MWait, TypeKernel, Reported
  <2>2. TypeMain' BY <1>2 DEF MWait, TypeMain
  <2>3. QED BY <1>2, <2>1, <2>2 DEF MWait, table, workv, closev, flags
<1>3. CASE MAcceptFail
  <2>1. TypeMain' BY <1>3 DEF MAcceptFail, TypeMain, Handled
  <2>2. QED BY <1>3, <2>1 DEF MAcceptFail, table, workv, closev, flags
<1>4. CASE MAdd
  <2>1. TypeTable' BY <1>4 DEF MAdd, TypeTable, TypeMain
  <2>2. TypeMain' BY <1>4 DEF MAdd, TypeMain, MainPcs
  <2>3. TypePointers'
    BY <1>4 DEF MAdd, TypePointers, TypeTable, TypeMain, workv, closev, flags
  <2>4. QED BY <1>4, <2>1, <2>2, <2>3 DEF MAdd
<1>5. CASE MAdmit
  <2>1. TypeKernel' BY <1>5 DEF MAdmit, TypeKernel
  <2>2. TypeMain' BY <1>5 DEF MAdmit, TypeMain, MainPcs
  <2>3. QED BY <1>5, <2>1, <2>2 DEF MAdmit, table, workv, closev, flags
<1>6. CASE MRefuse
  <2>1. sd[msock] \in Fds BY <1>6 DEF MRefuse, TypeTable, TypeMain, TypePointers
  <2>2. TypeClose' BY <1>6, <2>1, StartCloseType DEF MRefuse
  <2>3. TypeMain' BY <1>6 DEF MRefuse, TypeMain, MainPcs
  <2>4. QED BY <1>6, <2>2, <2>3 DEF MRefuse, StartClose, table, workv, flags
<1>7. CASE MRelisten
  <2>1. TypeKernel' BY <1>7 DEF MRelisten, TypeKernel
  <2>2. TypeMain' BY <1>7 DEF MRelisten, TypeMain, MainPcs
  <2>3. TypePointers' BY <1>7 DEF MRelisten, TypePointers, table, workv, closev, flags
  <2>4. QED BY <1>7, <2>1, <2>2, <2>3 DEF MRelisten
<1>8. CASE MListenErr
  <2>1. TypeFlags' BY <1>8 DEF MListenErr, TypeFlags
  <2>2. TypeMain' BY <1>8 DEF MListenErr, TypeMain, Handled
  <2>3. QED BY <1>8, <2>1, <2>2 DEF MListenErr, table, workv, closev
<1>9. CASE MScan
  <2>1. TypeMain' BY <1>9 DEF MScan, TypeMain, MainPcs
  <2>2. TypePointers' BY <1>9 DEF MScan, TypePointers, table, workv, closev, flags
  <2>3. QED BY <1>9, <2>1, <2>2 DEF MScan
<1>10. CASE MLock
  <2>1. TypeMain' BY <1>10 DEF MLock, TypeMain, MainPcs
  <2>2. TypeWorkers' BY <1>10 DEF MLock, TypeWorkers, Stats, UserStats
  <2>3. QED BY <1>10, <2>1, <2>2 DEF MLock, table, closev, flags
<1>11. CASE MAssign
  <2>0. mi \in Workers /\ msock \in Conns /\ cur \in Fds BY <1>11 DEF MAssign, TypeMain
  <2>1. TypeFlags' BY <1>11, AccessType DEF MAssign, TypeFlags
  <2>2. TypeMain' BY <1>11 DEF MAssign, TypeMain, Handled, MainPcs
  <2>3. TypeWorkers' BY <1>11, <2>0 DEF MAssign, TypeWorkers, Signal, WorkerPcs
  <2>4. \A w \in Workers : wpc'[w] \in {"run", "fin"} => wpc[w] \in {"run", "fin"}
    BY <1>11 DEF MAssign, Signal, TypeWorkers
  <2>5. crash' = "none" => crash = "none" BY <1>11, <2>0 DEF MAssign, Access
  <2>6. \A w \in Workers : tst_socket'[w] \in {tst_socket[w], msock}
    BY <1>11 DEF MAssign, TypeWorkers
  <2>7. TypePointers'
    BY <1>11, <2>4, <2>5, <2>6 DEF MAssign, TypePointers, table, closev
  <2>8. QED BY <1>11, <2>1, <2>2, <2>3, <2>7 DEF MAssign
<1>12. CASE MStop
  <2>1. TypeFlags' BY <1>12 DEF MStop, TypeFlags
  <2>2. TypeMain' BY <1>12 DEF MStop, TypeMain, MainPcs
  <2>3. QED BY <1>12, <2>1, <2>2 DEF MStop, table, workv, closev
<1>13. CASE MStopWorker
  <2>0. mi \in Workers BY <1>13 DEF MStopWorker, TypeMain
  <2>1. TypeMain' BY <1>13, <2>0 DEF MStopWorker, TypeMain, MainPcs
  <2>2. TypeWorkers'
    BY <1>13, <2>0 DEF MStopWorker, TypeWorkers, Signal, WorkerPcs, Stats, UserStats
  <2>3. \A w \in Workers : wpc'[w] \in {"run", "fin"} => wpc[w] \in {"run", "fin"}
    BY <1>13 DEF MStopWorker, Signal, TypeWorkers
  <2>4. TypePointers'
    BY <1>13, <2>3 DEF MStopWorker, TypePointers, table, closev, flags
  <2>5. QED BY <1>13, <2>1, <2>2, <2>4 DEF MStopWorker
<1>14. CASE MCancel \/ MExit
  <2>1. TypeMain' BY <1>14 DEF MCancel, MExit, TypeMain, MainPcs
  <2>2. QED BY <1>14, <2>1 DEF MCancel, MExit, table, workv, closev, flags
<1>15. ASSUME NEW f \in Fds, MClose(f) PROVE TypeOK'
  <2>1. TypeClose' BY <1>15, StartCloseType DEF MClose
  <2>2. TypeMain' BY <1>15 DEF MClose, TypeMain, Handled, AtHand, AtTop
  <2>3. QED BY <1>15, <2>1, <2>2 DEF MClose, StartClose, table, workv, flags
<1>16. ASSUME NEW f \in Fds, MFind(f) PROVE TypeOK'
  <2>1. m_connect[f] \in Conns \cup {None} BY DEF TypeTable
  <2>2. TypeMain' BY <1>16, <2>1 DEF MFind, TypeMain, MainPcs, AtHand, AtTop
  <2>3. TypeFlags' BY <1>16 DEF MFind, TypeFlags, Crashes
  <2>4. msock' \in {msock, m_connect[f]} /\ (crash' = "none" => crash = "none")
    BY <1>16 DEF MFind
  <2>5. TypePointers'
    BY <1>16, <2>4 DEF MFind, TypePointers, table, workv, closev
  <2>6. QED BY <1>16, <2>2, <2>3, <2>5 DEF MFind
<1>17. ASSUME NEW f \in Fds, NEW o \in Conns, MAccept(f, o) PROVE TypeOK'
  <2>1. TypeKernel' BY <1>17 DEF MAccept, TypeKernel
  <2>2. TypeTable' BY <1>17 DEF MAccept, TypeTable
  <2>3. TypeMain' BY <1>17 DEF MAccept, TypeMain, Handled, MainPcs
  <2>4. TypeClose' BY <1>17, StartCloseType DEF MAccept
  <2>5. /\ \A p \in Conns : heap[p] # "none" => heap'[p] # "none"
        /\ heap'[o] # "none"
    BY <1>17 DEF MAccept, TypeTable
  <2>6. /\ msock' = o /\ cobj' = cobj /\ m_connect' = m_connect /\ job' = job
        /\ tst_socket' = tst_socket /\ crash' = crash /\ wpc' = wpc
    BY <1>17 DEF MAccept, StartClose, closev, workv, flags
  <2>7. TypePointers'
    BY <2>5, <2>6 DEF TypePointers, TypeTable, TypeWorkers, TypeClose
  <2>8. QED BY <1>17, <2>1, <2>2, <2>3, <2>4, <2>7 DEF MAccept
<1>18. ASSUME NEW w \in Workers, MSeen(w) PROVE TypeOK'
  <2>1. TypeMain' BY <1>18 DEF MSeen, TypeMain
  <2>2. QED BY <1>18, <2>1 DEF MSeen, table, workv, closev, flags
<1>19. CASE CloseStep(MainT) BY <1>19, CloseTypeOK
<1>20. QED
  BY <1>1, <1>2, <1>3, <1>4, <1>5, <1>6, <1>7, <1>8, <1>9, <1>10, <1>11, <1>12,
     <1>13, <1>14, <1>15, <1>16, <1>17, <1>18, <1>19 DEF Main

LEMMA PeerTypeOK ==
  ASSUME TypeOK, NEW f \in Fds, NEW x \in {"data", "fin"}, Peer(f, x)
  PROVE  TypeOK'
<1> USE Names, Frame, SamePointers DEF TypeOK
<1>1. TypeKernel' BY DEF Peer, TypeKernel
<1>2. QED BY <1>1 DEF Peer, table, flags, mainv, workv, closev

\* A worker changes its own pc and state and no pointer.
LEMMA MoveTypeOK ==
  ASSUME TypeOK, NEW w \in Workers, NEW p \in WorkerPcs, NEW q \in WorkerPcs,
         q \in {"run", "fin"} => p \in {"run", "fin"},
         Go(w, p, q), UNCHANGED <<flags, closev, tst_socket, job, nxt>>,
         \/ UNCHANGED thread_stat
         \/ \E s \in Stats : thread_stat' = [thread_stat EXCEPT ![w] = s]
  PROVE  TypeOK'
<1> USE Names, Frame DEF TypeOK
<1>1. TypeWorkers' BY DEF Go, TypeWorkers
<1>2. \A v \in Workers : wpc'[v] \in {"run", "fin"} => wpc[v] \in {"run", "fin"}
  BY DEF Go, TypeWorkers
<1>3. /\ m_connect' = m_connect /\ heap' = heap /\ msock' = msock /\ cobj' = cobj
      /\ tst_socket' = tst_socket /\ job' = job /\ crash' = crash
  BY DEF Go, table, mainv, closev, flags
<1>4. TypePointers' BY <1>2, <1>3 DEF TypePointers
<1>5. QED BY <1>1, <1>4 DEF Go

\* The record of a job that runs has a descriptor.
LEMMA JobDescriptor ==
  ASSUME TypeOK, crash = "none", NEW w \in Workers, wpc[w] \in {"run", "fin"}
  PROVE  job[w] \in Conns /\ sd[job[w]] \in Fds
BY DEF TypeOK, TypePointers, TypeWorkers, TypeTable

LEMMA WorkerTypeOK ==
  ASSUME TypeOK, crash = "none", NEW w \in Workers, Worker(w)
  PROVE  TypeOK'
<1> USE Names, Frame DEF TypeOK
<1>1. CASE WTop(w)
  BY <1>1, MoveTypeOK DEF WTop, Move, WorkerPcs
<1>2. CASE WStat(w)
  BY <1>2, MoveTypeOK DEF WStat, Move, WorkerPcs
<1>3. CASE WWait(w)
  BY <1>3, MoveTypeOK DEF WWait, Move, WorkerPcs
<1>4. CASE WWaitError(w)
  BY <1>4, MoveTypeOK DEF WWaitError, SetStat, WorkerPcs, Stats, UserStats
<1>5. CASE WTimeout(w)
  BY <1>5, MoveTypeOK DEF WTimeout, Move, WorkerPcs
<1>6. CASE WAwake(w)
  BY <1>6, MoveTypeOK DEF WAwake, Move, WorkerPcs
<1>7. CASE WTake(w)
  <2>1. TypeWorkers' BY <1>7 DEF WTake, Go, TypeWorkers, WorkerPcs
  <2>2. TypeFlags' BY <1>7, AccessType DEF WTake, TypeFlags
  <2>3. TypePointers'
    <3>1. /\ m_connect' = m_connect /\ heap' = heap /\ msock' = msock /\ cobj' = cobj
          /\ tst_socket' = tst_socket
      BY <1>7 DEF WTake, Go, table, mainv, closev
    <3>2. crash' = "none" => tst_socket[w] # None BY <1>7 DEF WTake, Access
    <3>3. /\ job'[w] = tst_socket[w]
          /\ \A v \in Workers : v # w => job'[v] = job[v] /\ wpc'[v] = wpc[v]
      BY <1>7 DEF WTake, Go, TypeWorkers
    <3>4. QED BY <3>1, <3>2, <3>3 DEF TypePointers
  <2>4. QED BY <1>7, <2>1, <2>2, <2>3 DEF WTake, Go
<1>8. CASE WNotRun(w)
  BY <1>8, MoveTypeOK DEF WNotRun, Move, WorkerPcs
<1>9. CASE WBranch(w)
  BY <1>9, MoveTypeOK DEF WBranch, Move, WorkerPcs
<1>10. CASE WRun(w)
  <2>1. wpc[w] = "run" BY <1>10 DEF WRun
  <2>2. TypeKernel' BY <1>10, <2>1, JobDescriptor DEF WRun, TypeKernel
  <2>3. TypeWorkers'
    BY <1>10, PoolConstants DEF WRun, TypeWorkers, WorkerPcs, UserStats
  <2>4. TypeFlags' BY <1>10, AccessType DEF WRun, TypeFlags
  <2>5. TypePointers'
    <3>1. /\ m_connect' = m_connect /\ heap' = heap /\ msock' = msock /\ cobj' = cobj
          /\ tst_socket' = tst_socket /\ job' = job
      BY <1>10 DEF WRun, table, mainv, closev
    <3>2. \A v \in Workers : wpc'[v] \in {"run", "fin"} => wpc[v] \in {"run", "fin"}
      BY <1>10 DEF WRun, TypeWorkers
    <3>3. QED BY <3>1, <3>2 DEF TypePointers
  <2>6. QED BY <1>10, <2>2, <2>3, <2>4, <2>5 DEF WRun
<1>11. CASE WDisconnect(w)
  <2>1. wpc[w] = "fin" BY <1>11 DEF WDisconnect, Go
  <2>2. TypeClose' BY <1>11, <2>1, JobDescriptor, StartCloseType DEF WDisconnect
  <2>3. TypeWorkers' BY <1>11 DEF WDisconnect, Go, TypeWorkers, WorkerPcs, UserStats
  <2>4. TypeFlags' BY <1>11, AccessType DEF WDisconnect, TypeFlags
  <2>5. TypePointers'
    <3>1. /\ m_connect' = m_connect /\ heap' = heap /\ msock' = msock /\ cobj' = cobj
          /\ tst_socket' = tst_socket /\ job' = job
      BY <1>11 DEF WDisconnect, Go, StartClose, table, mainv
    <3>2. \A v \in Workers : wpc'[v] \in {"run", "fin"} => wpc[v] \in {"run", "fin"}
      BY <1>11 DEF WDisconnect, Go, TypeWorkers
    <3>3. QED BY <3>1, <3>2 DEF TypePointers
  <2>6. QED BY <1>11, <2>2, <2>3, <2>4, <2>5 DEF WDisconnect, Go
<1>12. CASE WRearm(w)
  <2>1. wpc[w] = "fin" BY <1>12 DEF WRearm
  <2>2. TypeKernel' BY <1>12, <2>1, JobDescriptor DEF WRearm, TypeKernel
  <2>3. TypeWorkers' BY <1>12 DEF WRearm, TypeWorkers, WorkerPcs, UserStats
  <2>4. TypeFlags' BY <1>12, AccessType DEF WRearm, TypeFlags
  <2>5. TypePointers'
    <3>1. /\ m_connect' = m_connect /\ heap' = heap /\ msock' = msock /\ cobj' = cobj
          /\ tst_socket' = tst_socket /\ job' = job
      BY <1>12 DEF WRearm, table, mainv, closev
    <3>2. \A v \in Workers : wpc'[v] \in {"run", "fin"} => wpc[v] \in {"run", "fin"}
      BY <1>12 DEF WRearm, TypeWorkers
    <3>3. QED BY <3>1, <3>2 DEF TypePointers
  <2>6. QED BY <1>12, <2>2, <2>3, <2>4, <2>5 DEF WRearm
<1>13. CASE WDone(w)
  <2>1. TypeWorkers'
    BY <1>13 DEF WDone, Go, Cleared, TypeWorkers, WorkerPcs, Stats, UserStats
  <2>2. TypePointers'
    <3>1. /\ m_connect' = m_connect /\ heap' = heap /\ msock' = msock /\ cobj' = cobj
          /\ crash' = crash
      BY <1>13 DEF WDone, Go, table, mainv, closev, flags
    <3>2. \A v \in Workers : /\ tst_socket'[v] \in {None, tst_socket[v]}
                             /\ job'[v] \in {None, job[v]}
      BY <1>13 DEF WDone, Cleared, TypeWorkers
    <3>3. \A v \in Workers : wpc'[v] \in {"run", "fin"} =>
            wpc[v] \in {"run", "fin"} /\ job'[v] = job[v]
      BY <1>13 DEF WDone, Go, TypeWorkers
    <3>4. QED BY <3>1, <3>2, <3>3 DEF TypePointers
  <2>3. QED BY <1>13, <2>1, <2>2 DEF WDone, Go
<1>14. CASE WIdle(w)
  BY <1>14, MoveTypeOK DEF WIdle, SetStat, WorkerPcs, Stats, UserStats
<1>15. CASE WIdled(w)
  BY <1>15, MoveTypeOK, PoolConstants DEF WIdled, SetStat, WorkerPcs, Stats
<1>16. CASE WOdd(w)
  BY <1>16, MoveTypeOK DEF WOdd, SetStat, WorkerPcs, Stats, UserStats
<1>17. CASE WLeave(w) \/ WEnd(w)
  BY <1>17, MoveTypeOK DEF WLeave, WEnd, SetStat, WorkerPcs, Stats
<1>18. CASE WCancelled(w)
  <2>1. TypeWorkers' BY <1>18 DEF WCancelled, Go, TypeWorkers, WorkerPcs
  <2>2. TypeClose' BY <1>18 DEF WCancelled, TypeClose, ClosePcs
  <2>3. TypePointers'
    <3>1. /\ m_connect' = m_connect /\ heap' = heap /\ msock' = msock
          /\ tst_socket' = tst_socket /\ job' = job /\ crash' = crash
      BY <1>18 DEF WCancelled, Go, table, mainv, flags
    <3>2. \A t \in Threads : cobj'[t] \in {None, cobj[t]}
      BY <1>18 DEF WCancelled, TypeClose
    <3>3. \A v \in Workers : wpc'[v] \in {"run", "fin"} => wpc[v] \in {"run", "fin"}
      BY <1>18 DEF WCancelled, Go, TypeWorkers
    <3>4. QED BY <3>1, <3>2, <3>3 DEF TypePointers
  <2>4. QED BY <1>18, <2>1, <2>2, <2>3 DEF WCancelled, Go
<1>19. CASE CloseStep(w) BY <1>19, CloseTypeOK
<1>20. CASE WFreed(w)
  <2>1. TypeFlags' BY <1>20 DEF WFreed, TypeFlags, Crashes
  <2>2. TypePointers' BY <1>20 DEF WFreed, TypePointers, table, mainv, workv, closev
  <2>3. QED BY <1>20, <2>1, <2>2 DEF WFreed
<1>21. QED
  BY <1>1, <1>2, <1>3, <1>4, <1>5, <1>6, <1>7, <1>8, <1>9, <1>10, <1>11, <1>12,
     <1>13, <1>14, <1>15, <1>16, <1>17, <1>18, <1>19, <1>20 DEF Worker, Work

LEMMA NextTypeOK == TypeOK /\ [CoreNext]_vars => TypeOK'
<1> SUFFICES ASSUME TypeOK, [CoreNext]_vars PROVE TypeOK'
  OBVIOUS
<1>1. CASE crash = "none" /\ Peers BY <1>1, PeerTypeOK DEF Peers
<1>2. CASE crash = "none" /\ Main BY <1>2, MainTypeOK
<1>3. CASE crash = "none" /\ \E w \in Workers : Worker(w) BY <1>3, WorkerTypeOK
<1>4. CASE UNCHANGED vars
  BY <1>4, Frame, SamePointers
  DEF TypeOK, vars, kernel, table, flags, mainv, workv, closev
<1>5. QED BY <1>1, <1>2, <1>3, <1>4 DEF CoreNext, Halted

\* tst_main, tst_work and closesocket keep every variable in its type: an index,
\* a descriptor or a pointer they follow names something where it is followed
\* (tst.cpp 189-720, 896-947), for any number of workers and connections.
THEOREM TypeCorrect == CoreSpec => []TypeOK
<1>1. Init => TypeOK BY InitTypeOK
<1>2. TypeOK /\ [CoreNext]_vars => TypeOK' BY NextTypeOK
<1>3. QED BY <1>1, <1>2, PTL DEF CoreSpec

----------------------------------------------------------------------------
(* The records of connections when an application calls need_send and          *)
(* closesocket as it likes (ApiSpec).  A worker may then work on a record that  *)
(* is deleted; but closesocket, which erases the entry under m_mutexConnect     *)
(* before it deletes what it has found there, deletes no record twice.          *)

\* The thread t is going to delete the record it has erased.
Deleting(t) == cpc[t] \in {"close", "delete"} /\ cobj[t] # None

\* An entry of the table is a live record, under its own descriptor.
Entries ==
  \A f \in Fds : m_connect[f] # None => heap[m_connect[f]] = "live" /\ sd[m_connect[f]] = f

\* One thread at a time is between the search and the erasure, and the entry does not
\* change meanwhile.
Erasing ==
  /\ \A t, u \in Threads : cpc[t] = "erase" /\ cpc[u] = "erase" => t = u
  /\ \A t \in Threads : cpc[t] = "erase" => cobj[t] = m_connect[cfd[t]]

\* What is going to be deleted is live, not in the table, and of one thread only.
Deletions ==
  /\ \A t \in Threads : Deleting(t) =>
       heap[cobj[t]] = "live" /\ \A f \in Fds : m_connect[f] # cobj[t]
  /\ \A t, u \in Threads : Deleting(t) /\ Deleting(u) /\ t # u => cobj[t] # cobj[u]

\* The record of a connection just accepted is known to the main thread alone.
Opening ==
  mpc = "add" => /\ heap[msock] = "live"
                 /\ \A f \in Fds : m_connect[f] # msock
                 /\ \A t \in Threads : Deleting(t) => cobj[t] # msock

RecInv == TypeOK /\ Entries /\ Erasing /\ Deletions /\ Opening /\ NoDoubleFree

ApiNext == CoreNext \/ (crash = "none" /\ (SendCalls \/ CloseCalls))

----------------------------------------------------------------------------
\* The calls of the application keep every variable in its type.
LEMMA CallTypeOK ==
  ASSUME TypeOK, SendCalls \/ CloseCalls
  PROVE  TypeOK'
<1> USE Names, Frame, SamePointers DEF TypeOK
<1>1. ASSUME NEW f \in Fds, NeedSend(f) PROVE TypeOK'
  <2>1. TypeKernel' BY <1>1 DEF NeedSend, TypeKernel
  <2>2. QED BY <1>1, <2>1 DEF NeedSend, table, flags, mainv, workv, closev
<1>2. ASSUME NEW f \in Fds, UserClose(f) PROVE TypeOK'
  <2>1. TypeClose' BY <1>2, StartCloseType DEF UserClose
  <2>2. QED BY <1>2, <2>1 DEF UserClose, StartClose, table, flags, mainv, workv
<1>3. CASE CloseStep(UserT) BY <1>3, CloseTypeOK
<1>4. QED BY <1>1, <1>2, <1>3 DEF SendCalls, CloseCalls

\* Every step under ApiSpec keeps every variable in its type.
LEMMA ApiTypeOK == TypeOK /\ [ApiNext]_vars => TypeOK'
BY NextTypeOK, CallTypeOK DEF ApiNext

----------------------------------------------------------------------------
\* A step that leaves the table and the records alone, in which no thread finds, erases
\* or deletes an entry and no connection is accepted.
LEMMA RecAside ==
  ASSUME RecInv, TypeOK', UNCHANGED <<m_connect, heap, sd>>,
         \A t \in Threads : cpc'[t] \in {"erase", "close", "delete"} =>
           /\ cobj'[t] = cobj[t]
           /\ cpc'[t] = "erase" => cpc[t] = "erase" /\ cfd'[t] = cfd[t]
           /\ cpc'[t] # "erase" => cpc[t] \in {"close", "delete"},
         mpc' = "add" => mpc = "add" /\ msock' = msock,
         crash' # "double free"
  PROVE  RecInv'
<1> USE DEF RecInv
<1>1. Entries' BY DEF Entries, TypeOK, TypeTable
<1>2. \A t \in Threads : Deleting(t)' => Deleting(t) /\ cobj'[t] = cobj[t] BY DEF Deleting
<1>3. Erasing'
  <2>1. \A t \in Threads : cpc'[t] = "erase" =>
          cpc[t] = "erase" /\ cfd'[t] = cfd[t] /\ cobj'[t] = cobj[t]
    OBVIOUS
  <2>2. \A t \in Threads : cpc[t] = "erase" => cobj[t] = m_connect[cfd[t]] BY DEF Erasing
  <2>3. \A t, u \in Threads : cpc'[t] = "erase" /\ cpc'[u] = "erase" => t = u
    BY <2>1 DEF Erasing
  <2>4. \A t \in Threads : cpc'[t] = "erase" => cobj'[t] = m_connect'[cfd'[t]]
    BY <2>1, <2>2
  <2>5. QED BY <2>3, <2>4 DEF Erasing
<1>4. Deletions'
  <2>1. ASSUME NEW t \in Threads, Deleting(t)'
        PROVE  heap'[cobj'[t]] = "live" /\ \A f \in Fds : m_connect'[f] # cobj'[t]
    <3>1. Deleting(t) /\ cobj'[t] = cobj[t] BY <1>2, <2>1
    <3>2. heap[cobj[t]] = "live" /\ \A f \in Fds : m_connect[f] # cobj[t]
      BY <3>1 DEF Deletions
    <3>3. QED BY <3>1, <3>2
  <2>2. ASSUME NEW t \in Threads, NEW u \in Threads, Deleting(t)', Deleting(u)', t # u
        PROVE  cobj'[t] # cobj'[u]
    <3>1. /\ Deleting(t) /\ cobj'[t] = cobj[t]
          /\ Deleting(u) /\ cobj'[u] = cobj[u]
      BY <1>2, <2>2
    <3>2. cobj[t] # cobj[u] BY <2>2, <3>1 DEF Deletions
    <3>3. QED BY <3>1, <3>2
  <2>3. QED BY <2>1, <2>2, ZenonT(40) DEF Deletions
<1>5. Opening' BY <1>2 DEF Opening
<1>6. QED BY <1>1, <1>3, <1>4, <1>5 DEF NoDoubleFree

\* An access to a record deletes nothing.
LEMMA AccessFreesNot ==
  ASSUME RecInv, NEW o PROVE Access(o) # "double free"
BY DEF RecInv, NoDoubleFree, Access

\* The start of closesocket touches no record.
LEMMA StartAside ==
  ASSUME TypeOK, NEW t \in Threads, NEW f, StartClose(t, f), NEW u \in Threads,
         cpc'[u] \in {"erase", "close", "delete"}
  PROVE  cpc'[u] = cpc[u] /\ cobj'[u] = cobj[u] /\ cfd'[u] = cfd[u]
BY DEF StartClose, TypeOK, TypeClose

----------------------------------------------------------------------------
\* closesocket.
LEMMA RecClose ==
  ASSUME RecInv, TypeOK', NEW t \in Threads, CloseStep(t)
  PROVE  RecInv'
<1> USE DEF RecInv
<1>0. TypeOK OBVIOUS
<1>1. CASE CsFind(t)
  <2>1. /\ \A u \in Threads : cpc[u] # "erase"
        /\ UNCHANGED <<m_connect, heap, sd, mpc, msock, crash, cfd>>
    BY <1>1 DEF CsFind, ConnectFree, table, mainv, flags
  <2>2. /\ cpc'[t] = "erase" /\ cobj'[t] = m_connect[cfd[t]]
        /\ \A u \in Threads : u # t => cpc'[u] = cpc[u] /\ cobj'[u] = cobj[u]
    BY <1>0, <1>1 DEF CsFind, TypeOK, TypeClose
  <2>3. \A u \in Threads : Deleting(u)' => Deleting(u) /\ cobj'[u] = cobj[u]
    BY <2>2 DEF Deleting
  <2>4. Entries' BY <2>1 DEF Entries, TypeOK, TypeTable
  <2>5. Erasing' BY <2>1, <2>2 DEF Erasing
  <2>6. Deletions' BY <2>1, <2>3 DEF Deletions
  <2>7. Opening' BY <2>1, <2>3 DEF Opening
  <2>8. QED BY <2>1, <2>4, <2>5, <2>6, <2>7 DEF NoDoubleFree
<1>2. CASE CsErase(t)
  <2>1. /\ cpc[t] = "erase" /\ m_connect' = [m_connect EXCEPT ![cfd[t]] = None]
        /\ UNCHANGED <<heap, sd, mpc, msock, crash, cfd, cobj>>
    BY <1>2 DEF CsErase, mainv, flags
  <2>2. cpc'[t] = "close" /\ \A u \in Threads : u # t => cpc'[u] = cpc[u]
    BY <1>0, <1>2 DEF CsErase, TypeOK, TypeClose
  <2>3. /\ cfd[t] \in Fds /\ cobj[t] = m_connect[cfd[t]]
        /\ \A u \in Threads : u # t => cpc[u] # "erase"
    BY <1>0, <2>1 DEF Erasing, TypeOK, TypeClose
  <2>4. \A f \in Fds : m_connect'[f] = IF f = cfd[t] THEN None ELSE m_connect[f]
    BY <1>0, <2>1 DEF TypeOK, TypeTable
  <2>5. Entries'
    <3>1. SUFFICES ASSUME NEW f \in Fds, m_connect'[f] # None
                   PROVE  heap'[m_connect'[f]] = "live" /\ sd'[m_connect'[f]] = f
      BY DEF Entries
    <3>2. m_connect'[f] = m_connect[f] BY <2>4, <3>1
    <3>3. QED BY <2>1, <3>1, <3>2 DEF Entries
  <2>6. Erasing' BY <2>2, <2>3 DEF Erasing
  <2>7. Deleting(t)' => heap[cobj[t]] = "live" /\ \A f \in Fds : m_connect'[f] # cobj[t]
    <3>1. SUFFICES ASSUME cobj[t] # None
                   PROVE  heap[cobj[t]] = "live" /\ \A f \in Fds : m_connect'[f] # cobj[t]
      BY <2>1 DEF Deleting
    <3>2. heap[cobj[t]] = "live" /\ sd[cobj[t]] = cfd[t] BY <2>3, <3>1 DEF Entries
    <3>3. ASSUME NEW f \in Fds, m_connect'[f] = cobj[t] PROVE FALSE
      <4>1. f # cfd[t] /\ m_connect[f] = cobj[t] BY <2>4, <3>1, <3>3
      <4>2. sd[cobj[t]] = f BY <3>1, <4>1 DEF Entries
      <4>3. QED BY <3>2, <4>1, <4>2
    <3>4. QED BY <3>2, <3>3
  <2>8. \A u \in Threads : u # t /\ Deleting(u)' => Deleting(u) /\ cobj[u] # cobj[t]
    <3>1. SUFFICES ASSUME NEW u \in Threads, u # t, Deleting(u)'
                   PROVE  Deleting(u) /\ cobj[u] # cobj[t]
      OBVIOUS
    <3>2. Deleting(u) BY <2>1, <2>2, <3>1 DEF Deleting
    <3>3. cobj[u] # cobj[t] BY <2>3, <3>2 DEF Deletions
    <3>4. QED BY <3>2, <3>3
  <2>9. Deletions'
    <3>1. ASSUME NEW u \in Threads, Deleting(u)'
          PROVE  heap'[cobj'[u]] = "live" /\ \A f \in Fds : m_connect'[f] # cobj'[u]
      <4>1. CASE u = t BY <2>1, <2>7, <3>1, <4>1
      <4>2. CASE u # t
        <5>1. cobj[u] # None BY <2>1, <3>1 DEF Deleting
        <5>2. QED BY <2>1, <2>4, <2>8, <3>1, <4>2, <5>1 DEF Deletions
      <4>3. QED BY <4>1, <4>2
    <3>2. ASSUME NEW u \in Threads, NEW v \in Threads, Deleting(u)', Deleting(v)', u # v
          PROVE  cobj'[u] # cobj'[v]
      BY <2>1, <2>8, <3>2 DEF Deletions
    <3>3. QED BY <3>1, <3>2 DEF Deletions
  <2>10. Opening'
    <3>1. SUFFICES ASSUME mpc = "add"
                   PROVE  /\ heap[msock] = "live" /\ \A f \in Fds : m_connect'[f] # msock
                          /\ \A u \in Threads : Deleting(u)' => cobj[u] # msock
      BY <2>1 DEF Opening
    <3>2. msock # None BY <1>0, <3>1, Names DEF TypeOK, TypeMain
    <3>3. heap[msock] = "live" /\ \A f \in Fds : m_connect'[f] # msock
      BY <2>4, <3>1, <3>2 DEF Opening
    <3>4. \A u \in Threads : Deleting(u)' => cobj[u] # msock
      BY <2>3, <2>8, <3>1 DEF Opening
    <3>5. QED BY <3>3, <3>4
  <2>11. QED BY <2>1, <2>5, <2>6, <2>9, <2>10 DEF NoDoubleFree
<1>3. CASE CsClose(t)
  <2>1. /\ cpc[t] = "close" /\ cpc' = [cpc EXCEPT ![t] = "delete"]
        /\ UNCHANGED <<m_connect, heap, sd, mpc, msock, crash, cfd, cobj>>
    BY <1>3 DEF CsClose, table, mainv, flags
  <2>2. cpc'[t] = "delete" /\ \A u \in Threads : u # t => cpc'[u] = cpc[u]
    BY <1>0, <2>1 DEF TypeOK, TypeClose
  <2>3. crash' # "double free" BY <2>1 DEF NoDoubleFree
  <2>4. QED BY <2>1, <2>2, <2>3, RecAside
<1>4. CASE CsDelete(t)
  <2>1. /\ cpc[t] = "delete" /\ UNCHANGED <<m_connect, sd, mpc, msock>>
        /\ cpc' = [cpc EXCEPT ![t] = "idle"] /\ cfd' = [cfd EXCEPT ![t] = None]
        /\ cobj' = [cobj EXCEPT ![t] = None]
    BY <1>4 DEF CsDelete, mainv
  <2>2. /\ cpc'[t] = "idle"
        /\ \A u \in Threads : u # t => cpc'[u] = cpc[u] /\ cobj'[u] = cobj[u] /\ cfd'[u] = cfd[u]
    BY <1>0, <2>1 DEF TypeOK, TypeClose
  <2>3. CASE cobj[t] = None
    <3>1. heap' = heap /\ crash' # "double free" BY <1>4, <2>3 DEF CsDelete, NoDoubleFree
    <3>2. QED BY <2>1, <2>2, <3>1, RecAside
  <2>4. CASE cobj[t] # None
    <3>1. Deleting(t) BY <2>1, <2>4 DEF Deleting
    <3>2. /\ cobj[t] \in Conns /\ heap[cobj[t]] = "live"
          /\ \A f \in Fds : m_connect[f] # cobj[t]
      BY <1>0, <2>4, <3>1 DEF Deletions, TypeOK, TypeClose
    <3>3. heap' = [heap EXCEPT ![cobj[t]] = "freed"] /\ crash' # "double free"
      BY <1>4, <2>4, <3>2 DEF CsDelete, NoDoubleFree
    <3>4. \A o : o # cobj[t] /\ heap[o] = "live" /\ o \in Conns => heap'[o] = "live"
      BY <1>0, <3>3 DEF TypeOK, TypeTable
    <3>5. \A u \in Threads : Deleting(u)' =>
            Deleting(u) /\ cobj'[u] = cobj[u] /\ cobj[u] # cobj[t] /\ cobj[u] \in Conns
      <4>1. SUFFICES ASSUME NEW u \in Threads, Deleting(u)'
                     PROVE  /\ Deleting(u) /\ cobj'[u] = cobj[u] /\ cobj[u] # cobj[t]
                            /\ cobj[u] \in Conns
        OBVIOUS
      <4>2. u # t BY <2>2, <4>1 DEF Deleting
      <4>3. Deleting(u) /\ cobj'[u] = cobj[u] BY <2>2, <4>1, <4>2 DEF Deleting
      <4>4. QED BY <1>0, <3>1, <4>2, <4>3 DEF Deletions, Deleting, TypeOK, TypeClose
    <3>6. Entries'
      <4>1. SUFFICES ASSUME NEW f \in Fds, m_connect[f] # None
                     PROVE  heap'[m_connect[f]] = "live" /\ sd[m_connect[f]] = f
        BY <2>1 DEF Entries
      <4>2. m_connect[f] \in Conns BY <1>0, <4>1 DEF TypeOK, TypeTable
      <4>3. QED BY <3>2, <3>4, <4>1, <4>2 DEF Entries
    <3>7. Erasing' BY <2>1, <2>2 DEF Erasing
    <3>8. Deletions' BY <2>1, <3>4, <3>5 DEF Deletions
    <3>9. Opening'
      <4>1. SUFFICES ASSUME mpc = "add"
                     PROVE  /\ heap'[msock] = "live" /\ \A f \in Fds : m_connect[f] # msock
                            /\ \A u \in Threads : Deleting(u)' => cobj'[u] # msock
        BY <2>1 DEF Opening
      <4>2. msock \in Conns /\ msock # cobj[t] /\ heap[msock] = "live"
        BY <1>0, <3>1, <4>1 DEF Opening, TypeOK, TypeMain
      <4>3. QED BY <3>4, <3>5, <4>1, <4>2 DEF Opening
    <3>10. QED BY <3>3, <3>6, <3>7, <3>8, <3>9 DEF NoDoubleFree
  <2>5. QED BY <2>3, <2>4
<1>5. QED BY <1>1, <1>2, <1>3, <1>4 DEF CloseStep

----------------------------------------------------------------------------
\* The main thread.
LEMMA RecMain ==
  ASSUME RecInv, TypeOK', Main
  PROVE  RecInv'
<1> USE Names DEF RecInv
<1>0. TypeOK /\ crash # "double free" BY DEF NoDoubleFree
<1>1. CASE \/ MStart \/ MWait \/ MAcceptFail \/ MAdmit \/ MRelisten \/ MListenErr \/ MScan
           \/ MLock \/ MStop \/ MStopWorker \/ MCancel \/ MExit
           \/ \E w \in Workers : MSeen(w)
  <2>1. UNCHANGED <<m_connect, heap, sd, cpc, cfd, cobj, crash>>
    BY <1>1
    DEF MStart, MWait, MAcceptFail, MAdmit, MRelisten, MListenErr, MScan, MLock, MStop,
        MStopWorker, MCancel, MExit, MSeen, table, closev, flags
  <2>2. mpc' = "add" => mpc = "add" /\ msock' = msock
    BY <1>1
    DEF MStart, MWait, MAcceptFail, MAdmit, MRelisten, MListenErr, MScan, MLock, MStop,
        MStopWorker, MCancel, MExit, MSeen
  <2>3. QED BY <1>0, <2>1, <2>2, RecAside
<1>2. CASE MAssign
  <2>1. UNCHANGED <<m_connect, heap, sd, cpc, cfd, cobj>> /\ mpc' = "top"
    BY <1>2 DEF MAssign, table, closev
  <2>2. crash' # "double free" BY <1>2, AccessFreesNot DEF MAssign
  <2>3. QED BY <2>1, <2>2, RecAside
<1>3. CASE MRefuse
  <2>1. UNCHANGED <<m_connect, heap, sd, crash>> /\ mpc' = "relisten" /\ StartClose(MainT, sd[msock])
    BY <1>3 DEF MRefuse, table, flags
  <2>2. QED BY <1>0, <2>1, StartAside, RecAside
<1>4. ASSUME NEW f \in Fds, MClose(f) PROVE RecInv'
  <2>1. UNCHANGED <<m_connect, heap, sd, crash, mpc, msock>> /\ StartClose(MainT, f)
    BY <1>4 DEF MClose, table, flags
  <2>2. QED BY <1>0, <2>1, StartAside, RecAside
<1>5. ASSUME NEW f \in Fds, MFind(f) PROVE RecInv'
  <2>1. UNCHANGED <<m_connect, heap, sd, cpc, cfd, cobj>> BY <1>5 DEF MFind, table, closev
  <2>2. mpc' # "add" /\ crash' # "double free" BY <1>0, <1>5 DEF MFind, AtHand, AtTop
  <2>3. QED BY <2>1, <2>2, RecAside
<1>6. CASE MAdd
  <2>1. /\ mpc = "add" /\ mpc' = "admit" /\ m_connect' = [m_connect EXCEPT ![sd[msock]] = msock]
        /\ UNCHANGED <<heap, sd, crash, cpc, cfd, cobj>>
        /\ \A t \in Threads : cpc[t] # "erase"
    BY <1>6 DEF MAdd, ConnectFree, flags, closev
  <2>2. /\ msock \in Conns /\ heap[msock] = "live"
        /\ \A t \in Threads : Deleting(t) => cobj[t] # msock
    BY <1>0, <2>1 DEF Opening, TypeOK, TypeMain
  <2>3. sd[msock] \in Fds BY <1>0, <2>2 DEF TypeOK, TypeTable
  <2>4. \A f \in Fds : m_connect'[f] = IF f = sd[msock] THEN msock ELSE m_connect[f]
    BY <1>0, <2>1, <2>3 DEF TypeOK, TypeTable
  <2>5. Entries' BY <2>1, <2>2, <2>4 DEF Entries
  <2>6. Erasing' BY <2>1 DEF Erasing
  <2>7. \A t \in Threads : Deleting(t)' => Deleting(t) /\ cobj'[t] = cobj[t] /\ cobj[t] # msock
    BY <2>1, <2>2 DEF Deleting
  <2>8. Deletions' BY <2>1, <2>4, <2>7 DEF Deletions
  <2>9. QED BY <1>0, <2>1, <2>5, <2>6, <2>8 DEF Opening, NoDoubleFree
<1>7. ASSUME NEW f \in Fds, NEW o \in Conns, MAccept(f, o) PROVE RecInv'
  <2>1. /\ heap[o] = "none" /\ heap' = [heap EXCEPT ![o] = "live"]
        /\ sd' = [sd EXCEPT ![o] = f] /\ msock' = o /\ UNCHANGED <<m_connect, crash, cobj>>
    BY <1>7 DEF MAccept, StartClose, closev, flags
  <2>2. \A t \in Threads : cpc'[t] \in {"erase", "close", "delete"} =>
          cpc'[t] = cpc[t] /\ cfd'[t] = cfd[t]
    BY <1>0, <1>7, StartAside DEF MAccept, closev
  <2>3. \A p \in Conns : heap[p] = "live" =>
          p # o /\ heap'[p] = "live" /\ sd'[p] = sd[p]
    BY <1>0, <2>1 DEF TypeOK, TypeTable
  <2>4. heap'[o] = "live" BY <1>0, <2>1 DEF TypeOK, TypeTable
  <2>5. \A g \in Fds : m_connect[g] # None => m_connect[g] \in Conns /\ m_connect[g] # o
    <3>1. ASSUME NEW g \in Fds, m_connect[g] # None
          PROVE  m_connect[g] \in Conns /\ heap[m_connect[g]] = "live"
      <4>1. m_connect[g] \in Conns BY <1>0, <3>1 DEF TypeOK, TypeTable
      <4>2. QED BY <1>0, <3>1, <4>1 DEF Entries
    <3>2. heap[o] # "live" BY <2>1
    <3>3. QED BY <3>1, <3>2
  <2>6. \A t \in Threads : Deleting(t)' =>
          Deleting(t) /\ cobj[t] \in Conns /\ heap[cobj[t]] = "live" /\ cobj[t] # o
    <3>1. SUFFICES ASSUME NEW t \in Threads, Deleting(t)'
                   PROVE  /\ Deleting(t) /\ cobj[t] \in Conns /\ heap[cobj[t]] = "live"
                          /\ cobj[t] # o
      OBVIOUS
    <3>2. Deleting(t) BY <2>1, <2>2, <3>1 DEF Deleting
    <3>3. cobj[t] \in Conns BY <1>0, <3>2 DEF Deleting, TypeOK, TypeClose
    <3>4. QED BY <2>1, <3>2, <3>3 DEF Deletions
  <2>7. Entries' BY <2>1, <2>3, <2>5 DEF Entries
  <2>8. Erasing' BY <2>1, <2>2 DEF Erasing
  <2>9. Deletions' BY <2>1, <2>3, <2>6 DEF Deletions
  <2>10. Opening' BY <2>1, <2>4, <2>5, <2>6 DEF Opening
  <2>11. QED BY <1>0, <2>1, <2>7, <2>8, <2>9, <2>10 DEF NoDoubleFree
<1>8. CASE CloseStep(MainT) BY <1>8, RecClose
<1>9. QED BY <1>1, <1>2, <1>3, <1>4, <1>5, <1>6, <1>7, <1>8 DEF Main

\* A worker.
LEMMA RecWorker ==
  ASSUME RecInv, TypeOK', NEW w \in Workers, Worker(w)
  PROVE  RecInv'
<1> USE Names DEF RecInv
<1>0. TypeOK /\ crash # "double free" BY DEF NoDoubleFree
<1>1. CASE \/ WTop(w) \/ WStat(w) \/ WWait(w) \/ WWaitError(w) \/ WTimeout(w) \/ WAwake(w)
           \/ WNotRun(w) \/ WBranch(w) \/ WDone(w) \/ WIdle(w) \/ WIdled(w) \/ WOdd(w)
           \/ WLeave(w) \/ WEnd(w)
  <2>1. UNCHANGED <<m_connect, heap, sd, cpc, cfd, cobj, crash, mpc, msock>>
    BY <1>1
    DEF WTop, WStat, WWait, WWaitError, WTimeout, WAwake, WNotRun, WBranch, WDone, WIdle, WIdled,
        WOdd, WLeave, WEnd, Move, SetStat, Go, table, closev, flags, mainv
  <2>2. QED BY <1>0, <2>1, RecAside
<1>2. CASE WTake(w) \/ WRun(w) \/ WRearm(w)
  <2>1. UNCHANGED <<m_connect, heap, sd, cpc, cfd, cobj, mpc, msock>>
    BY <1>2 DEF WTake, WRun, WRearm, Go, table, closev, mainv
  <2>2. crash' # "double free" BY <1>2, AccessFreesNot DEF WTake, WRun, WRearm
  <2>3. QED BY <2>1, <2>2, RecAside
<1>3. CASE WDisconnect(w)
  <2>1. UNCHANGED <<m_connect, heap, sd, mpc, msock>> /\ StartClose(w, sd[job[w]])
    BY <1>3 DEF WDisconnect, Go, table, mainv
  <2>2. crash' # "double free" BY <1>3, AccessFreesNot DEF WDisconnect
  <2>3. QED BY <1>0, <2>1, <2>2, StartAside, RecAside
<1>4. CASE WCancelled(w)
  <2>1. UNCHANGED <<m_connect, heap, sd, crash, mpc, msock>>
    BY <1>4 DEF WCancelled, Go, table, mainv, flags
  <2>2. /\ cpc'[w] = "idle"
        /\ \A t \in Threads : t # w => cpc'[t] = cpc[t] /\ cobj'[t] = cobj[t] /\ cfd'[t] = cfd[t]
    BY <1>0, <1>4 DEF WCancelled, TypeOK, TypeClose
  <2>3. QED BY <1>0, <2>1, <2>2, RecAside
<1>5. CASE CloseStep(w) BY <1>5, RecClose
<1>6. CASE WFreed(w)
  <2>1. UNCHANGED <<m_connect, heap, sd, cpc, cfd, cobj, mpc, msock>> /\ crash' # "double free"
    BY <1>6 DEF WFreed, table, closev, mainv
  <2>2. QED BY <2>1, RecAside
<1>7. QED BY <1>1, <1>2, <1>3, <1>4, <1>5, <1>6 DEF Worker, Work

\* The calls of the application, and the peers.
LEMMA RecCalls ==
  ASSUME RecInv, TypeOK', Peers \/ SendCalls \/ CloseCalls
  PROVE  RecInv'
<1> USE Names DEF RecInv
<1>0. TypeOK /\ crash # "double free" BY DEF NoDoubleFree
<1>1. CASE Peers \/ SendCalls
  <2>1. UNCHANGED <<m_connect, heap, sd, cpc, cfd, cobj, crash, mpc, msock>>
    BY <1>1 DEF Peers, Peer, SendCalls, NeedSend, table, closev, flags, mainv
  <2>2. QED BY <1>0, <2>1, RecAside
<1>2. ASSUME NEW f \in Fds, UserClose(f) PROVE RecInv'
  <2>1. UNCHANGED <<m_connect, heap, sd, crash, mpc, msock>> /\ StartClose(UserT, f)
    BY <1>2 DEF UserClose, table, flags, mainv
  <2>2. QED BY <1>0, <2>1, StartAside, RecAside
<1>3. CASE CloseStep(UserT) BY <1>3, RecClose
<1>4. QED BY <1>1, <1>2, <1>3 DEF CloseCalls

----------------------------------------------------------------------------
\* The invariant of the records is inductive under ApiSpec.
THEOREM RecordsInductive == ApiSpec => []RecInv
<1>1. Init => RecInv
  <2>1. Init => TypeOK BY InitTypeOK
  <2>2. QED
    BY <2>1, Names
    DEF Init, RecInv, Entries, Erasing, Deletions, Deleting, Opening, NoDoubleFree
<1>2. RecInv /\ [ApiNext]_vars => RecInv'
  <2> SUFFICES ASSUME RecInv, [ApiNext]_vars PROVE RecInv' OBVIOUS
  <2>0. TypeOK' BY ApiTypeOK DEF RecInv
  <2>1. CASE UNCHANGED vars
    <3>1. UNCHANGED <<m_connect, heap, sd, cpc, cfd, cobj, crash, mpc, msock>>
      BY <2>1 DEF vars, table, closev, flags, mainv
    <3>2. QED BY <2>0, <3>1, RecAside DEF RecInv, NoDoubleFree
  <2>2. CASE Peers \/ SendCalls \/ CloseCalls BY <2>0, <2>2, RecCalls
  <2>3. CASE Main BY <2>0, <2>3, RecMain
  <2>4. CASE \E w \in Workers : Worker(w) BY <2>0, <2>4, RecWorker
  <2>5. QED BY <2>1, <2>2, <2>3, <2>4 DEF ApiNext, CoreNext, Halted
<1>3. QED BY <1>1, <1>2, PTL DEF ApiSpec, ApiNext

\* However the application calls closesocket, from any thread and for any connection, no
\* record is deleted twice (tst.cpp 901-909, 944).
THEOREM FreedOnce == ApiSpec => []NoDoubleFree
<1>1. RecInv => NoDoubleFree BY DEF RecInv
<1>2. QED BY <1>1, RecordsInductive, PTL

\* ... and the table never leads to a deleted record (tst.cpp 896-947).
THEOREM TableStaysLive == ApiSpec => []TableIsLive
<1>1. RecInv => TableIsLive BY DEF RecInv, Entries, TableIsLive
<1>2. QED BY <1>1, RecordsInductive, PTL
=============================================================================
