-------------------------- MODULE TstPoolOwnership --------------------------
(* IInv is inductive: who has a connection of the pool left to itself, for     *)
(* every number of workers, descriptors and connections.                       *)
EXTENDS TstPoolProofs

\* A step that changes, of what IInv is about, only what the workers hold, and
\* that less than before, and the place of the main thread outside of accepting.
Aside ==
  /\ UNCHANGED <<conn, m_connect, heap, sd, closev>>
  /\ \A f \in Fds : ep'[f] = ep[f] /\ batch'[f] = batch[f]
  /\ \A w \in Workers, o \in Conns : Holds(w, o)' => Holds(w, o)
  /\ \A w \in Workers : cpc[w] # "idle" => wpc'[w] = wpc[w] /\ job'[w] = job[w]
  /\ \/ UNCHANGED <<mpc, cur, msock>>
     \/ /\ {mpc, mpc'} \cap {"add", "admit"} = {}
        /\ cpc[MainT] = "idle" \/ mpc' \in {"top", "relisten"}
        /\ mpc \in {"cancel", "exit"} => mpc' \in {"cancel", "exit"}
        /\ MainDispatches'

\* Such a step keeps the invariant.
LEMMA StepAside ==
  ASSUME IInv, TypeOK', Aside
  PROVE  IInv'
<1> USE Names DEF IInv, closev, Aside
<1>1. ConnIsLive' BY DEF ConnIsLive
<1>2. TableIsOpen' BY DEF TableIsOpen
<1>3. OpenIsKnown' BY DEF OpenIsKnown
<1>4. EventIsRegistered' BY DEF EventIsRegistered, Armed, Closes
<1>5. ArmedNotBatched' BY DEF ArmedNotBatched, Armed
<1>6. HeldIsSilent'
  <2> SUFFICES ASSUME NEW w \in Workers, NEW o \in Conns, Holds(w, o)'
               PROVE  /\ heap'[o] = "live"
                      /\ cpc'[w] \in {"idle", "lock", "erase"} =>
                           /\ m_connect'[sd'[o]] = o
                           /\ ~Armed(sd[o])' /\ batch'[sd'[o]] = {}
    BY DEF HeldIsSilent
  <2>1. Holds(w, o) OBVIOUS
  <2>2. heap[o] = "live" /\ sd[o] \in Fds
    BY <2>1 DEF HeldIsSilent, TypeOK, TypeTable
  <2>3. QED BY <2>1, <2>2 DEF HeldIsSilent, Armed
<1>7. OneWorker' BY DEF OneWorker
<1>8. WorkerCloses' BY DEF WorkerCloses
<1>9. CloseStages' BY DEF CloseStages
<1>10. ClosersDiffer' BY DEF ClosersDiffer, Closes
<1>11. MainCloses' BY DEF MainCloses, Closes
<1>12. MainOpens'
  <2>1. CASE mpc' \notin {"add", "admit"} BY <2>1 DEF MainOpens
  <2>2. CASE mpc' \in {"add", "admit"}
    <3>1. mpc' = mpc /\ msock' = msock BY <2>2
    <3>2. msock \in Conns /\ sd[msock] \in Fds
      BY <2>2, <3>1 DEF TypeOK, TypeMain, TypeTable, TypePointers
    <3>3. QED BY <2>2, <3>1, <3>2 DEF MainOpens, Armed, Closes
  <2>3. QED BY <2>1, <2>2
<1>13. MainDispatches'
  <2>1. CASE UNCHANGED <<mpc, cur, msock>>
    BY <2>1 DEF MainDispatches, TypeOK, TypeMain
  <2>2. QED BY <2>1
<1>14. NoUserClose' BY DEF NoUserClose
<1>15. QED
  BY <1>1, <1>2, <1>3, <1>4, <1>5, <1>6, <1>7, <1>8, <1>9, <1>10, <1>11, <1>12,
     <1>13, <1>14

\* Nobody holds a connection whose event is in the batch.
LEMMA BatchedIsFree ==
  ASSUME IInv, NEW f \in Fds, batch[f] # {}
  PROVE  /\ m_connect[f] \in Conns /\ conn[f] = m_connect[f] /\ sd[conn[f]] = f
         /\ heap[conn[f]] = "live" /\ ~Armed(f)
         /\ \A t \in Threads : ~Closes(t, f)
         /\ \A w \in Workers : ~Holds(w, conn[f])
<1> USE Names DEF IInv
<1>1. /\ m_connect[f] \in Conns /\ \A t \in Threads : ~Closes(t, f)
  BY DEF EventIsRegistered, TypeOK, TypeTable
<1>2. conn[f] = m_connect[f] /\ heap[conn[f]] = "live" /\ sd[conn[f]] = f
  BY <1>1 DEF TableIsOpen, ConnIsLive
<1>3. ~Armed(f) BY DEF ArmedNotBatched
<1>4. ASSUME NEW w \in Workers, Holds(w, conn[f]) PROVE FALSE
  <2>1. CASE cpc[w] \in {"idle", "lock", "erase"}
    BY <1>1, <1>2, <1>4, <2>1 DEF HeldIsSilent
  <2>2. CASE cpc[w] \in {"close", "delete"}
    <3>1. job[w] = conn[f] /\ cfd[w] = f /\ cobj[w] = job[w]
      BY <1>2, <1>4, <2>2 DEF WorkerCloses, Holds
    <3>2. CASE cpc[w] = "close" BY <1>1, <3>1, <3>2 DEF Closes
    <3>3. CASE cpc[w] = "delete" BY <3>1, <3>3 DEF CloseStages
    <3>4. QED BY <2>2, <3>2, <3>3
  <2>3. QED BY <2>1, <2>2 DEF TypeOK, TypeClose, ClosePcs
<1>5. QED BY <1>1, <1>2, <1>3, <1>4

\* A connection in a job is the worker's alone.
LEMMA HeldIsOwn ==
  ASSUME IInv, NEW w \in Workers, NEW o \in Conns, Holds(w, o), cpc[w] = "idle"
  PROVE  /\ sd[o] \in Fds /\ m_connect[sd[o]] = o /\ conn[sd[o]] = o
         /\ ~Armed(sd[o]) /\ batch[sd[o]] = {}
         /\ \A t \in Threads : ~Closes(t, sd[o])
         /\ \A v \in Workers, p \in Conns :
              Holds(v, p) /\ cpc[v] \in {"idle", "lock", "erase"} /\ v # w
                => sd[p] # sd[o]
         /\ mpc \in {"add", "admit"} => sd[msock] # sd[o]
<1> USE Names DEF IInv
<1>1. heap[o] = "live" /\ m_connect[sd[o]] = o /\ ~Armed(sd[o]) /\ batch[sd[o]] = {}
  BY DEF HeldIsSilent
<1>2. sd[o] \in Fds BY <1>1 DEF TypeOK, TypeTable
<1>3. conn[sd[o]] = o BY <1>1, <1>2 DEF TableIsOpen
<1>4. ASSUME NEW t \in Threads, Closes(t, sd[o]) PROVE FALSE
  <2>1. CASE t = UserT BY <1>4, <2>1 DEF NoUserClose, Closes
  <2>2. CASE t = MainT BY <1>2, <1>3, <1>4, <2>2 DEF MainCloses
  <2>3. CASE t \in Workers
    <3>1. cpc[t] \in {"lock", "erase", "close"} /\ cfd[t] = sd[o]
      BY <1>4 DEF Closes
    <3>2. job[t] # None /\ cfd[t] = sd[job[t]] /\ wpc[t] = "done"
      BY <2>3, <3>1 DEF WorkerCloses
    <3>3. cpc[t] # "close" BY <1>1, <3>1 DEF CloseStages
    <3>4. job[t] \in Conns /\ Holds(t, job[t])
      BY <2>3, <3>1, <3>2 DEF Holds, InJob, TypeOK, TypeWorkers
    <3>5. m_connect[sd[job[t]]] = job[t]
      BY <2>3, <3>1, <3>3, <3>4 DEF HeldIsSilent
    <3>6. t = w BY <1>1, <2>3, <3>1, <3>2, <3>4, <3>5 DEF OneWorker
    <3>7. QED BY <3>1, <3>6
  <2>4. QED BY <2>1, <2>2, <2>3
<1>5. ASSUME NEW v \in Workers, NEW p \in Conns, Holds(v, p),
             cpc[v] \in {"idle", "lock", "erase"}, v # w, sd[p] = sd[o]
      PROVE  FALSE
  BY <1>1, <1>5 DEF HeldIsSilent, OneWorker
<1>6. ASSUME mpc \in {"add", "admit"}, sd[msock] = sd[o] PROVE FALSE
  BY <1>3, <1>6 DEF MainOpens
<1>7. QED BY <1>1, <1>2, <1>3, <1>4, <1>5, <1>6

----------------------------------------------------------------------------
(* The steps of a worker.                                                      *)

\* The places outside a job.
LEMMA MoveAside ==
  ASSUME IInv, NEW w \in Workers, NEW p \in WorkerPcs, NEW q \in WorkerPcs,
         {p, q} \cap {"run", "fin", "done"} = {}, p # "dead",
         Go(w, p, q), UNCHANGED <<closev, tst_socket, job>>
  PROVE  Aside
<1> USE Names
<1>1. wpc[w] = p /\ wpc' = [wpc EXCEPT ![w] = q] /\ wpc \in [Workers -> WorkerPcs]
  BY DEF Go, IInv, TypeOK, TypeWorkers
<1>2. \A v \in Workers, o \in Conns : Holds(v, o)' => Holds(v, o)
  BY <1>1 DEF Holds, InJob, closev
<1>3. \A v \in Workers : cpc[v] # "idle" => wpc'[v] = wpc[v] /\ job'[v] = job[v]
  BY <1>1 DEF IInv, WorkerCloses
<1>4. /\ UNCHANGED <<conn, m_connect, heap, sd, ep, batch, mpc, cur, msock>>
  BY DEF Go, kernel, table, mainv
<1>5. QED BY <1>2, <1>3, <1>4 DEF Aside

\* The beginning, the running and the end of a job.
LEMMA JobAside ==
  ASSUME IInv, NEW w \in Workers, WTake(w) \/ WRun(w) \/ WDone(w)
  PROVE  Aside
<1> USE Names
<1>1. wpc \in [Workers -> WorkerPcs] /\ job \in [Workers -> Conns \cup {None}]
      /\ tst_socket \in [Workers -> Conns \cup {None}]
  BY DEF IInv, TypeOK, TypeWorkers
<1>2. /\ UNCHANGED <<conn, m_connect, heap, sd, ep, batch, mpc, cur, msock, closev>>
  BY DEF WTake, WRun, WDone, Go, kernel, table, mainv
<1>3. /\ \A v \in Workers, o \in Conns : Holds(v, o)' => Holds(v, o)
      /\ \A v \in Workers : cpc[v] # "idle" => wpc'[v] = wpc[v] /\ job'[v] = job[v]
  <2>1. CASE WTake(w)
    BY <1>1, <1>2, <2>1 DEF WTake, Go, Holds, InJob, closev, IInv, WorkerCloses
  <2>2. CASE WRun(w)
    BY <1>1, <1>2, <2>2 DEF WRun, Holds, InJob, closev, IInv, WorkerCloses
  <2>3. CASE WDone(w)
    BY <1>1, <1>2, <2>3 DEF WDone, Go, Cleared, Holds, InJob, closev
  <2>4. QED BY <2>1, <2>2, <2>3
<1>4. QED BY <1>2, <1>3 DEF Aside

\* The worker begins to close the connection of its job.
LEMMA DisconnectInv ==
  ASSUME IInv, TypeOK', crash = "none", NEW w \in Workers, WDisconnect(w)
  PROVE  IInv'
<1> DEFINE o == job[w]
<1> USE Names
<1>0. wpc[w] = "fin" /\ cpc[w] = "idle" BY DEF WDisconnect, Go, IInv, WorkerCloses
<1>1. o \in Conns /\ sd[o] \in Fds BY <1>0, JobDescriptor DEF IInv
<1>2. Holds(w, o) BY <1>0 DEF Holds, InJob
<1> HIDE DEF o
<1>3. /\ m_connect[sd[o]] = o /\ conn[sd[o]] = o /\ ~Armed(sd[o]) /\ batch[sd[o]] = {}
      /\ \A t \in Threads : ~Closes(t, sd[o])
      /\ mpc \in {"add", "admit"} => sd[msock] # sd[o]
  BY <1>0, <1>1, <1>2, HeldIsOwn
<1>4. /\ UNCHANGED <<conn, m_connect, heap, sd, ep, batch, mpc, cur, msock, cobj, job,
                     tst_socket>>
      /\ wpc' = [wpc EXCEPT ![w] = "done"]
      /\ cpc' = [cpc EXCEPT ![w] = "lock"] /\ cfd' = [cfd EXCEPT ![w] = sd[o]]
  BY DEF WDisconnect, Go, StartClose, kernel, table, mainv, o
<1>5. /\ wpc \in [Workers -> WorkerPcs] /\ cpc \in [Threads -> ClosePcs]
      /\ cfd \in [Threads -> Fds \cup {None}]
  BY DEF IInv, TypeOK, TypeWorkers, TypeClose
<1>6. \A v \in Workers, p \in Conns : Holds(v, p)' => Holds(v, p)
  BY <1>0, <1>4, <1>5 DEF Holds, InJob
<1>7. \A t \in Threads, f \in Fds : Closes(t, f)' => Closes(t, f) \/ (t = w /\ f = sd[o])
  BY <1>4, <1>5 DEF Closes
<1>8. ConnIsLive' /\ TableIsOpen' /\ ArmedNotBatched'
  BY <1>4 DEF IInv, ConnIsLive, TableIsOpen, ArmedNotBatched, Armed
<1>9. OpenIsKnown' BY <1>0, <1>4, <1>5 DEF IInv, OpenIsKnown
<1>10. EventIsRegistered'
  BY <1>3, <1>4, <1>7 DEF IInv, EventIsRegistered, Armed
<1>11. HeldIsSilent'
  BY <1>0, <1>4, <1>5, <1>6 DEF IInv, HeldIsSilent, Armed
<1>12. OneWorker' BY <1>6 DEF IInv, OneWorker
<1>13. WorkerCloses' BY <1>0, <1>1, <1>4, <1>5 DEF IInv, WorkerCloses, o
<1>14. CloseStages' BY <1>0, <1>1, <1>3, <1>4, <1>5 DEF IInv, CloseStages
<1>15. ClosersDiffer' BY <1>0, <1>3, <1>4, <1>5, <1>7 DEF IInv, ClosersDiffer
<1>16. MainCloses' BY <1>4, <1>5, <1>6, <1>7 DEF IInv, MainCloses
<1>17. MainOpens'
  BY <1>3, <1>4, <1>6, <1>7 DEF IInv, MainOpens, Armed, TypeOK, TypeMain, TypeTable,
     TypePointers
<1>18. MainDispatches' BY <1>4 DEF IInv, MainDispatches
<1>19. NoUserClose' BY <1>4, <1>5 DEF IInv, NoUserClose
<1>20. QED
  BY <1>8, <1>9, <1>10, <1>11, <1>12, <1>13, <1>14, <1>15, <1>16, <1>17, <1>18, <1>19
  DEF IInv

\* The worker gives the connection of its job back to epoll.
LEMMA RearmInv ==
  ASSUME IInv, TypeOK', crash = "none", NEW w \in Workers, WRearm(w)
  PROVE  IInv'
<1> DEFINE o == job[w]
<1> USE Names
<1>0. wpc[w] = "fin" /\ cpc[w] = "idle" BY DEF WRearm, IInv, WorkerCloses
<1>1. o \in Conns /\ sd[o] \in Fds BY <1>0, JobDescriptor DEF IInv
<1>2. Holds(w, o) BY <1>0 DEF Holds, InJob
<1> HIDE DEF o
<1>3. /\ m_connect[sd[o]] = o /\ ~Armed(sd[o]) /\ batch[sd[o]] = {}
      /\ \A t \in Threads : ~Closes(t, sd[o])
      /\ \A v \in Workers, p \in Conns :
           Holds(v, p) /\ cpc[v] \in {"idle", "lock", "erase"} /\ v # w => sd[p] # sd[o]
      /\ mpc \in {"add", "admit"} => sd[msock] # sd[o]
  BY <1>0, <1>1, <1>2, HeldIsOwn
<1>4. /\ UNCHANGED <<conn, m_connect, heap, sd, batch, mpc, cur, msock, cpc, cfd, cobj,
                     job, tst_socket>>
      /\ wpc' = [wpc EXCEPT ![w] = "done"]
      /\ \A f \in Fds : f # sd[o] => ep'[f] = ep[f]
  BY DEF WRearm, table, mainv, closev, o, IInv, TypeOK, TypeKernel
<1>5. wpc \in [Workers -> WorkerPcs] BY DEF IInv, TypeOK, TypeWorkers
<1>6. \A v \in Workers, p \in Conns : Holds(v, p)' => Holds(v, p) /\ v # w
  BY <1>0, <1>4, <1>5 DEF Holds, InJob
<1>8. ConnIsLive' /\ TableIsOpen' /\ OpenIsKnown'
  BY <1>4 DEF IInv, ConnIsLive, TableIsOpen, OpenIsKnown
<1>9. ArmedNotBatched' BY <1>3, <1>4 DEF IInv, ArmedNotBatched, Armed
<1>10. EventIsRegistered'
  BY <1>1, <1>3, <1>4 DEF IInv, EventIsRegistered, Armed, Closes
<1>11. HeldIsSilent'
  BY <1>3, <1>4, <1>6 DEF IInv, HeldIsSilent, Armed, TypeOK, TypeTable
<1>12. OneWorker' BY <1>6 DEF IInv, OneWorker
<1>13. WorkerCloses' BY <1>0, <1>4, <1>5 DEF IInv, WorkerCloses
<1>14. CloseStages' BY <1>4 DEF IInv, CloseStages
<1>15. ClosersDiffer' BY <1>4 DEF IInv, ClosersDiffer, Closes
<1>16. MainCloses' BY <1>4, <1>6 DEF IInv, MainCloses, Closes
<1>17. MainOpens'
  BY <1>3, <1>4, <1>6 DEF IInv, MainOpens, Armed, Closes, TypeOK, TypeMain, TypeTable,
     TypePointers
<1>18. MainDispatches' BY <1>4 DEF IInv, MainDispatches
<1>19. NoUserClose' BY <1>4 DEF IInv, NoUserClose
<1>20. QED
  BY <1>8, <1>9, <1>10, <1>11, <1>12, <1>13, <1>14, <1>15, <1>16, <1>17, <1>18, <1>19
  DEF IInv

\* A worker is cancelled in its wait, its job or its close.
LEMMA CancelInv ==
  ASSUME IInv, TypeOK', NEW w \in Workers, WCancelled(w)
  PROVE  IInv'
<1> USE Names
<1>1. /\ UNCHANGED <<conn, m_connect, heap, sd, ep, batch, mpc, cur, msock, job,
                     tst_socket>>
      /\ mpc \in {"cancel", "exit"} /\ wpc' = [wpc EXCEPT ![w] = "dead"]
      /\ cpc' = [cpc EXCEPT ![w] = "idle"] /\ cfd' = [cfd EXCEPT ![w] = None]
      /\ cobj' = [cobj EXCEPT ![w] = None]
  BY DEF WCancelled, Go, kernel, table, mainv
<1>2. /\ wpc \in [Workers -> WorkerPcs] /\ cpc \in [Threads -> ClosePcs]
      /\ cfd \in [Threads -> Fds \cup {None}] /\ cobj \in [Threads -> Conns \cup {None}]
  BY DEF IInv, TypeOK, TypeWorkers, TypeClose
<1>3. \A v \in Workers, p \in Conns : Holds(v, p)' => Holds(v, p) /\ v # w
  BY <1>1, <1>2 DEF Holds, InJob
<1>4. \A t \in Threads, f \in Fds : Closes(t, f)' => Closes(t, f) /\ t # w
  BY <1>1, <1>2 DEF Closes
<1>5. ConnIsLive' /\ TableIsOpen' /\ OpenIsKnown'
  BY <1>1 DEF IInv, ConnIsLive, TableIsOpen, OpenIsKnown
<1>6. ArmedNotBatched' BY <1>1 DEF IInv, ArmedNotBatched, Armed
<1>7. EventIsRegistered' BY <1>1, <1>4 DEF IInv, EventIsRegistered, Armed
<1>8. HeldIsSilent' BY <1>1, <1>2, <1>3 DEF IInv, HeldIsSilent, Armed
<1>9. OneWorker' BY <1>3 DEF IInv, OneWorker
<1>10. WorkerCloses' BY <1>1, <1>2 DEF IInv, WorkerCloses
<1>11. CloseStages' BY <1>1, <1>2 DEF IInv, CloseStages
<1>12. ClosersDiffer' BY <1>1, <1>2, <1>4 DEF IInv, ClosersDiffer
<1>13. MainCloses' BY <1>1, <1>2, <1>3, <1>4 DEF IInv, MainCloses
<1>14. MainOpens' /\ MainDispatches' BY <1>1 DEF MainOpens, MainDispatches
<1>15. NoUserClose' BY <1>1, <1>2 DEF IInv, NoUserClose
<1>16. QED
  BY <1>5, <1>6, <1>7, <1>8, <1>9, <1>10, <1>11, <1>12, <1>13, <1>14, <1>15 DEF IInv

LEMMA OutsideAside ==
  ASSUME IInv, NEW w \in Workers,
         \/ WTop(w) \/ WStat(w) \/ WWait(w) \/ WWaitError(w) \/ WTimeout(w) \/ WAwake(w)
         \/ WNotRun(w) \/ WBranch(w) \/ WIdle(w) \/ WIdled(w) \/ WOdd(w) \/ WLeave(w)
         \/ WEnd(w) \/ WFreed(w)
  PROVE  Aside
<1> USE DEF WorkerPcs
<1>1. CASE WTop(w) BY <1>1, MoveAside DEF WTop, Move
<1>2. CASE WStat(w) BY <1>2, MoveAside DEF WStat, Move
<1>3. CASE WWait(w) BY <1>3, MoveAside DEF WWait, Move
<1>4. CASE WWaitError(w) BY <1>4, MoveAside DEF WWaitError, SetStat
<1>5. CASE WTimeout(w) BY <1>5, MoveAside DEF WTimeout, Move
<1>6. CASE WAwake(w) BY <1>6, MoveAside DEF WAwake, Move
<1>7. CASE WNotRun(w) BY <1>7, MoveAside DEF WNotRun, Move
<1>8. CASE WBranch(w) BY <1>8, MoveAside DEF WBranch, Move
<1>9. CASE WIdle(w) BY <1>9, MoveAside DEF WIdle, SetStat
<1>10. CASE WIdled(w) BY <1>10, MoveAside DEF WIdled, SetStat
<1>11. CASE WOdd(w) BY <1>11, MoveAside DEF WOdd, SetStat
<1>12. CASE WLeave(w) \/ WEnd(w) BY <1>12, MoveAside DEF WLeave, WEnd, SetStat
<1>13. CASE WFreed(w)
  BY <1>13 DEF WFreed, Aside, kernel, table, mainv, workv, closev, Holds, InJob
<1>14. QED
  BY <1>1, <1>2, <1>3, <1>4, <1>5, <1>6, <1>7, <1>8, <1>9, <1>10, <1>11, <1>12, <1>13

----------------------------------------------------------------------------
(* The steps of closesocket.                                                   *)

\* A thread inside closesocket is a worker that holds the record, or the main
\* thread, and then no worker does.
LEMMA CloserHolds ==
  ASSUME IInv, NEW t \in Threads, cpc[t] # "idle"
  PROVE  /\ t \in Workers \/ t = MainT
         /\ cfd[t] \in Fds
         /\ t \in Workers =>
              /\ job[t] \in Conns /\ Holds(t, job[t]) /\ cfd[t] = sd[job[t]]
              /\ wpc[t] = "done" /\ (cpc[t] # "lock" => cobj[t] = job[t])
BY Names
DEF IInv, NoUserClose, WorkerCloses, Holds, InJob, TypeOK, TypeWorkers, TypeClose

LEMMA CsFindInv ==
  ASSUME IInv, TypeOK', NEW t \in Threads, CsFind(t)
  PROVE  IInv'
<1> USE Names
<1>1. /\ UNCHANGED <<conn, m_connect, heap, sd, ep, batch, mpc, cur, msock, job,
                     tst_socket, wpc, cfd>>
      /\ cpc[t] = "lock" /\ cpc' = [cpc EXCEPT ![t] = "erase"]
      /\ cobj' = [cobj EXCEPT ![t] = m_connect[cfd[t]]]
  BY DEF CsFind, kernel, table, mainv, workv
<1>2. /\ cpc \in [Threads -> ClosePcs] /\ cobj \in [Threads -> Conns \cup {None}]
  BY DEF IInv, TypeOK, TypeClose
<1>3. \A v \in Workers, p \in Conns : Holds(v, p)' <=> Holds(v, p)
  BY <1>1, <1>2 DEF Holds, InJob
<1>4. \A u \in Threads, f \in Fds : Closes(u, f)' <=> Closes(u, f)
  BY <1>1, <1>2 DEF Closes
<1>5. ConnIsLive' /\ TableIsOpen' /\ ArmedNotBatched'
  BY <1>1 DEF IInv, ConnIsLive, TableIsOpen, ArmedNotBatched, Armed
<1>6. OpenIsKnown' BY <1>1, <1>2 DEF IInv, OpenIsKnown
<1>7. EventIsRegistered' BY <1>1, <1>4 DEF IInv, EventIsRegistered, Armed
<1>8. HeldIsSilent' BY <1>1, <1>2, <1>3 DEF IInv, HeldIsSilent, Armed
<1>9. OneWorker' BY <1>3 DEF IInv, OneWorker
<1>10. WorkerCloses'
  <2>1. t \in Workers => m_connect[cfd[t]] = job[t]
    BY <1>1, CloserHolds DEF IInv, HeldIsSilent
  <2>2. QED BY <1>1, <1>2, <2>1 DEF IInv, WorkerCloses
<1>11. CloseStages' BY <1>1, <1>2 DEF IInv, CloseStages
<1>12. ClosersDiffer' BY <1>1, <1>2, <1>4 DEF IInv, ClosersDiffer
<1>13. MainCloses' BY <1>1, <1>2, <1>3, <1>4 DEF IInv, MainCloses
<1>14. MainOpens'
  BY <1>1, <1>3, <1>4 DEF IInv, MainOpens, Armed, TypeOK, TypeMain, TypeTable, TypePointers
<1>15. MainDispatches' BY <1>1 DEF IInv, MainDispatches
<1>16. NoUserClose' BY <1>1, <1>2 DEF IInv, NoUserClose
<1>17. QED
  BY <1>5, <1>6, <1>7, <1>8, <1>9, <1>10, <1>11, <1>12, <1>13, <1>14, <1>15, <1>16
  DEF IInv

LEMMA CsEraseInv ==
  ASSUME IInv, TypeOK', NEW t \in Threads, CsErase(t)
  PROVE  IInv'
<1> DEFINE f == cfd[t]
           o == cobj[t]
<1> USE Names
<1>1. /\ UNCHANGED <<conn, heap, sd, ep, batch, mpc, cur, msock, job, tst_socket, wpc,
                     cfd, cobj>>
      /\ cpc[t] = "erase" /\ cpc' = [cpc EXCEPT ![t] = "close"]
      /\ m_connect' = [m_connect EXCEPT ![f] = None]
  BY DEF CsErase, kernel, mainv, workv
<1>2. /\ cpc \in [Threads -> ClosePcs] /\ cobj \in [Threads -> Conns \cup {None}]
      /\ m_connect \in [Fds -> Conns \cup {None}]
  BY DEF IInv, TypeOK, TypeClose, TypeTable
<1>3. /\ f \in Fds /\ m_connect[f] = o /\ o # None /\ conn[f] = o /\ Closes(t, f)
      /\ t \in Workers => o = job[t] /\ Holds(t, o)
      /\ t \in Workers \/ t = MainT
  BY <1>1, CloserHolds DEF IInv, CloseStages, TableIsOpen, Closes
<1>4. o \in Conns /\ sd[o] = f BY <1>2, <1>3 DEF IInv, ConnIsLive
<1> HIDE DEF f, o
<1>5. \A v \in Workers, p \in Conns : Holds(v, p)' <=> Holds(v, p)
  BY <1>1, <1>2 DEF Holds, InJob
<1>6. \A u \in Threads, g \in Fds : Closes(u, g)' <=> Closes(u, g)
  BY <1>1, <1>2 DEF Closes
<1>7. batch[f] = {} /\ ~Armed(f) BY <1>3 DEF IInv, EventIsRegistered
<1>8. ConnIsLive' /\ ArmedNotBatched'
  BY <1>1 DEF IInv, ConnIsLive, ArmedNotBatched, Armed
<1>9. TableIsOpen' BY <1>1, <1>2 DEF IInv, TableIsOpen
<1>10. OpenIsKnown' BY <1>1, <1>2, <1>3 DEF IInv, OpenIsKnown, f
<1>11. EventIsRegistered'
  BY <1>1, <1>2, <1>6, <1>7 DEF IInv, EventIsRegistered, Armed
<1>12. HeldIsSilent'
  <2> SUFFICES ASSUME NEW v \in Workers, NEW p \in Conns, Holds(v, p)
               PROVE  /\ heap[p] = "live"
                      /\ cpc'[v] \in {"idle", "lock", "erase"} =>
                           /\ m_connect'[sd[p]] = p /\ ~Armed(sd[p]) /\ batch[sd[p]] = {}
    BY <1>1, <1>5 DEF HeldIsSilent, Armed
  <2>1. heap[p] = "live" BY DEF IInv, HeldIsSilent
  <2>2. ASSUME cpc'[v] \in {"idle", "lock", "erase"}
        PROVE  m_connect'[sd[p]] = p /\ ~Armed(sd[p]) /\ batch[sd[p]] = {}
    <3>1. v # t /\ cpc'[v] = cpc[v] BY <1>1, <1>2, <2>2
    <3>2. m_connect[sd[p]] = p /\ ~Armed(sd[p]) /\ batch[sd[p]] = {}
      BY <2>2, <3>1 DEF IInv, HeldIsSilent
    <3>3. p # o
      <4>1. CASE t \in Workers BY <1>3, <1>4, <3>1, <4>1 DEF IInv, OneWorker
      <4>2. CASE t = MainT BY <1>3, <4>2 DEF IInv, MainCloses
      <4>3. QED BY <1>3, <4>1, <4>2
    <3>4. QED BY <1>1, <1>2, <1>3, <3>2, <3>3
  <2>3. QED BY <2>1, <2>2
<1>13. OneWorker' BY <1>5 DEF IInv, OneWorker
<1>14. WorkerCloses' BY <1>1, <1>2 DEF IInv, WorkerCloses
<1>15. CloseStages'
  <2> SUFFICES ASSUME NEW u \in Threads
        PROVE  /\ cpc'[u] \in {"lock", "erase"} => m_connect'[cfd[u]] # None
               /\ cpc'[u] = "erase" => cobj[u] = m_connect'[cfd[u]]
               /\ cpc'[u] = "close" => /\ cobj[u] # None
                                       /\ m_connect'[cfd[u]] = None
                                       /\ conn[cfd[u]] = cobj[u]
               /\ cpc'[u] = "delete" => /\ cobj[u] # None /\ heap[cobj[u]] = "live"
                                        /\ \A g \in Fds : conn[g] # cobj[u]
    BY <1>1 DEF CloseStages
  <2>1. CASE u = t BY <1>1, <1>2, <1>3, <2>1 DEF f, o
  <2>2. CASE u # t
    <3>1. cpc'[u] = cpc[u] BY <1>1, <1>2, <2>2
    <3>2. cpc[u] \in {"lock", "erase", "close"} => cfd[u] # f
      BY <1>3, <2>2 DEF IInv, ClosersDiffer, Closes
    <3>3. QED BY <1>1, <1>2, <3>1, <3>2 DEF IInv, CloseStages, TypeOK, TypeClose
  <2>3. QED BY <2>1, <2>2
<1>16. ClosersDiffer' BY <1>1, <1>2, <1>6 DEF IInv, ClosersDiffer
<1>17. MainCloses' BY <1>1, <1>2, <1>5, <1>6 DEF IInv, MainCloses
<1>18. MainOpens'
  <2>1. CASE mpc \notin {"add", "admit"} BY <1>1, <2>1 DEF MainOpens
  <2>2. CASE mpc \in {"add", "admit"}
    <3>1. msock \in Conns /\ sd[msock] \in Fds /\ sd[msock] # f
      BY <1>3, <2>2 DEF IInv, MainOpens, TypeOK, TypeMain, TypeTable, TypePointers
    <3>2. QED BY <1>1, <1>2, <1>5, <1>6, <2>2, <3>1 DEF IInv, MainOpens, Armed
  <2>3. QED BY <2>1, <2>2
<1>19. MainDispatches'
  BY <1>1, <1>2, <1>7 DEF IInv, MainDispatches, TypeOK, TypeMain
<1>20. NoUserClose' BY <1>1, <1>2, <1>3 DEF IInv, NoUserClose
<1>21. QED
  BY <1>8, <1>9, <1>10, <1>11, <1>12, <1>13, <1>14, <1>15, <1>16, <1>17, <1>18, <1>19,
     <1>20
  DEF IInv

LEMMA CsCloseInv ==
  ASSUME IInv, TypeOK', NEW t \in Threads, CsClose(t)
  PROVE  IInv'
<1> DEFINE f == cfd[t]
           o == cobj[t]
<1> USE Names
<1>1. /\ UNCHANGED <<m_connect, heap, sd, batch, mpc, cur, msock, job, tst_socket, wpc,
                     cfd, cobj>>
      /\ cpc[t] = "close" /\ cpc' = [cpc EXCEPT ![t] = "delete"]
      /\ conn' = [conn EXCEPT ![f] = None] /\ ep' = [ep EXCEPT ![f] = "none"]
  BY DEF CsClose, table, mainv, workv
<1>2. /\ cpc \in [Threads -> ClosePcs] /\ cobj \in [Threads -> Conns \cup {None}]
      /\ conn \in [Fds -> Conns \cup {None}]
      /\ ep \in [AllFds -> {"none", "off", "in", "inout"}]
  BY DEF IInv, TypeOK, TypeClose, TypeKernel
<1>3. /\ f \in Fds /\ m_connect[f] = None /\ o # None /\ conn[f] = o /\ Closes(t, f)
  BY <1>1, CloserHolds DEF IInv, CloseStages, Closes
<1>4. o \in Conns /\ sd[o] = f /\ heap[o] = "live"
  BY <1>2, <1>3 DEF IInv, ConnIsLive
<1>5. \A g \in Fds : conn[g] = o => g = f BY <1>3, <1>4 DEF IInv, ConnIsLive
<1> HIDE DEF f, o
<1>6. /\ \A g \in Fds : g # f => conn'[g] = conn[g] /\ ep'[g] = ep[g]
      /\ conn'[f] = None /\ ep'[f] = "none"
  BY <1>1, <1>2, <1>3
<1>7. \A v \in Workers, p \in Conns : Holds(v, p)' <=> Holds(v, p)
  BY <1>1, <1>2 DEF Holds, InJob
<1>8. \A u \in Threads, g \in Fds : Closes(u, g)' => Closes(u, g) /\ u # t
  BY <1>1, <1>2 DEF Closes
<1>9. \A u \in Threads : u # t => cpc'[u] = cpc[u] /\ ~Closes(u, f)
  BY <1>1, <1>2, <1>3 DEF IInv, ClosersDiffer
<1>10. ConnIsLive' BY <1>1, <1>6 DEF IInv, ConnIsLive
<1>11. TableIsOpen' BY <1>1, <1>3, <1>6 DEF IInv, TableIsOpen
<1>12. OpenIsKnown'
  <2> SUFFICES ASSUME NEW g \in Fds, g # f, conn[g] # None
               PROVE  \/ m_connect[g] = conn[g]
                      \/ mpc = "add" /\ msock = conn[g]
                      \/ \E u \in Threads : cpc'[u] = "close" /\ cfd[u] = g
                      \/ mpc \in {"cancel", "exit"}
    BY <1>1, <1>6 DEF OpenIsKnown
  <2>1. \A u \in Threads : cpc[u] = "close" /\ cfd[u] = g => cpc'[u] = "close"
    BY <1>9 DEF f
  <2>2. QED BY <2>1 DEF IInv, OpenIsKnown
<1>13. EventIsRegistered' BY <1>1, <1>6, <1>8 DEF IInv, EventIsRegistered, Armed
<1>14. ArmedNotBatched' BY <1>1, <1>6 DEF IInv, ArmedNotBatched, Armed
<1>15. HeldIsSilent'
  <2> SUFFICES ASSUME NEW v \in Workers, NEW p \in Conns, Holds(v, p)
               PROVE  /\ heap[p] = "live"
                      /\ cpc'[v] \in {"idle", "lock", "erase"} =>
                           /\ m_connect[sd[p]] = p /\ ~Armed(sd[p])' /\ batch[sd[p]] = {}
    BY <1>1, <1>7 DEF HeldIsSilent, Armed
  <2>1. heap[p] = "live" /\ sd[p] \in Fds
    BY DEF IInv, HeldIsSilent, TypeOK, TypeTable
  <2>2. cpc'[v] \in {"idle", "lock", "erase"} => cpc[v] \in {"idle", "lock", "erase"}
    BY <1>1, <1>2
  <2>3. QED BY <1>1, <1>6, <2>1, <2>2 DEF IInv, HeldIsSilent, Armed
<1>16. OneWorker' BY <1>7 DEF IInv, OneWorker
<1>17. WorkerCloses' BY <1>1, <1>2 DEF IInv, WorkerCloses
<1>18. CloseStages'
  <2> SUFFICES ASSUME NEW u \in Threads
        PROVE  /\ cpc'[u] \in {"lock", "erase"} => m_connect[cfd[u]] # None
               /\ cpc'[u] = "erase" => cobj[u] = m_connect[cfd[u]]
               /\ cpc'[u] = "close" => /\ cobj[u] # None
                                       /\ m_connect[cfd[u]] = None
                                       /\ conn'[cfd[u]] = cobj[u]
               /\ cpc'[u] = "delete" => /\ cobj[u] # None /\ heap[cobj[u]] = "live"
                                        /\ \A g \in Fds : conn'[g] # cobj[u]
    BY <1>1 DEF CloseStages
  <2>1. CASE u = t BY <1>1, <1>2, <1>3, <1>4, <1>5, <1>6, <2>1 DEF o
  <2>2. CASE u # t
    <3>1. cpc'[u] = cpc[u] /\ (cpc[u] = "close" => cfd[u] # f /\ cfd[u] \in Fds)
      BY <1>9, <2>2 DEF Closes, IInv, TypeOK, TypeClose
    <3>2. QED BY <1>6, <3>1 DEF IInv, CloseStages
  <2>3. QED BY <2>1, <2>2
<1>19. ClosersDiffer'
  <2>1. \A u \in Threads : u # t /\ cpc'[u] = "delete" => cobj[u] # o
    BY <1>3, <1>9 DEF IInv, CloseStages
  <2>2. \A u \in Threads : cpc'[u] = "delete" => u = t \/ cpc[u] = "delete"
    BY <1>1, <1>2
  <2>3. QED BY <1>1, <1>8, <2>1, <2>2 DEF IInv, ClosersDiffer, o
<1>20. MainCloses'
  <2>1. cpc'[MainT] # "idle" => mpc \in {"top", "relisten"}
    BY <1>1, <1>2 DEF IInv, MainCloses
  <2>2. ASSUME NEW v \in Workers, NEW p \in Conns, Holds(v, p)
        PROVE  /\ \A g \in Fds : Closes(MainT, g)' => conn'[g] # p
               /\ cpc'[MainT] = "delete" => cobj[MainT] # p
    <3>1. \A g \in Fds : Closes(MainT, g)' => conn'[g] # p
      BY <1>6, <1>8, <2>2 DEF IInv, MainCloses
    <3>2. CASE t = MainT BY <1>3, <2>2, <3>1, <3>2 DEF IInv, MainCloses, o
    <3>3. CASE t # MainT BY <1>9, <2>2, <3>1, <3>3 DEF IInv, MainCloses
    <3>4. QED BY <3>2, <3>3
  <2>3. QED BY <1>1, <1>7, <2>1, <2>2 DEF MainCloses
<1>21. MainOpens'
  <2>1. CASE mpc \notin {"add", "admit"} BY <1>1, <2>1 DEF MainOpens
  <2>2. CASE mpc \in {"add", "admit"}
    <3>1. msock \in Conns /\ sd[msock] \in Fds /\ sd[msock] # f
      BY <1>3, <2>2 DEF IInv, MainOpens, TypeOK, TypeMain, TypeTable, TypePointers
    <3>2. QED BY <1>1, <1>6, <1>7, <1>8, <2>2, <3>1 DEF IInv, MainOpens, Armed
  <2>3. QED BY <2>1, <2>2
<1>22. MainDispatches' BY <1>1 DEF IInv, MainDispatches
<1>23. NoUserClose' BY <1>1, <1>2 DEF IInv, NoUserClose
<1>24. QED
  BY <1>10, <1>11, <1>12, <1>13, <1>14, <1>15, <1>16, <1>17, <1>18, <1>19, <1>20,
     <1>21, <1>22, <1>23
  DEF IInv

LEMMA CsDeleteInv ==
  ASSUME IInv, TypeOK', NEW t \in Threads, CsDelete(t)
  PROVE  IInv'
<1> DEFINE o == cobj[t]
<1> USE Names
<1>1. o # None /\ cpc[t] = "delete" BY DEF CsDelete, IInv, CloseStages
<1>2. /\ UNCHANGED <<conn, m_connect, sd, ep, batch, mpc, cur, msock, job, tst_socket,
                     wpc>>
      /\ cpc' = [cpc EXCEPT ![t] = "idle"] /\ cfd' = [cfd EXCEPT ![t] = None]
      /\ cobj' = [cobj EXCEPT ![t] = None] /\ heap' = [heap EXCEPT ![o] = "freed"]
  BY <1>1 DEF CsDelete, kernel, mainv, workv
<1>3. /\ cpc \in [Threads -> ClosePcs] /\ cobj \in [Threads -> Conns \cup {None}]
      /\ cfd \in [Threads -> Fds \cup {None}]
      /\ heap \in [Conns -> {"none", "live", "freed"}]
  BY DEF IInv, TypeOK, TypeClose, TypeTable
<1>4. /\ o \in Conns /\ \A f \in Fds : conn[f] # o
      /\ t \in Workers => o = job[t] /\ Holds(t, o) /\ wpc[t] = "done"
      /\ t \in Workers \/ t = MainT
  BY <1>1, <1>3, CloserHolds DEF IInv, CloseStages
<1> HIDE DEF o
<1>5. \A v \in Workers, p \in Conns : Holds(v, p)' => Holds(v, p) /\ v # t
  BY <1>1, <1>2, <1>3, <1>4 DEF Holds, InJob
<1>6. \A v \in Workers, p \in Conns : Holds(v, p)' => p # o
  <2>1. CASE t \in Workers BY <1>4, <1>5, <2>1 DEF IInv, OneWorker
  <2>2. CASE t = MainT BY <1>1, <1>5, <2>2 DEF IInv, MainCloses, o
  <2>3. QED BY <1>4, <2>1, <2>2
<1>7. \A u \in Threads, f \in Fds : Closes(u, f)' => Closes(u, f) /\ u # t
  BY <1>2, <1>3 DEF Closes
<1>8. \A p \in Conns : p # o => heap'[p] = heap[p] BY <1>2, <1>3
<1>9. ConnIsLive' BY <1>2, <1>4, <1>8 DEF IInv, ConnIsLive, TypeOK, TypeKernel
<1>10. TableIsOpen' /\ ArmedNotBatched'
  BY <1>2 DEF IInv, TableIsOpen, ArmedNotBatched, Armed
<1>11. OpenIsKnown' BY <1>1, <1>2, <1>3 DEF IInv, OpenIsKnown
<1>12. EventIsRegistered' BY <1>2, <1>7 DEF IInv, EventIsRegistered, Armed
<1>13. HeldIsSilent'
  BY <1>2, <1>3, <1>5, <1>6, <1>8 DEF IInv, HeldIsSilent, Armed
<1>14. OneWorker' BY <1>5 DEF IInv, OneWorker
<1>15. WorkerCloses' BY <1>2, <1>3 DEF IInv, WorkerCloses
<1>16. CloseStages'
  <2>1. \A u \in Threads : u # t =>
          /\ cpc'[u] = cpc[u] /\ cfd'[u] = cfd[u] /\ cobj'[u] = cobj[u]
          /\ cpc[u] = "delete" => heap'[cobj[u]] = heap[cobj[u]]
    BY <1>1, <1>2, <1>3 DEF IInv, ClosersDiffer, CloseStages, o
  <2>2. cpc'[t] = "idle" BY <1>2, <1>3
  <2>3. QED BY <1>2, <2>1, <2>2 DEF IInv, CloseStages
<1>17. ClosersDiffer' BY <1>2, <1>3, <1>7 DEF IInv, ClosersDiffer
<1>18. MainCloses' BY <1>2, <1>3, <1>5, <1>7 DEF IInv, MainCloses
<1>19. MainOpens'
  BY <1>2, <1>5, <1>7
  DEF IInv, MainOpens, Armed, TypeOK, TypeMain, TypeTable, TypePointers
<1>20. MainDispatches' BY <1>2 DEF IInv, MainDispatches
<1>21. NoUserClose' BY <1>2, <1>3 DEF IInv, NoUserClose
<1>22. QED
  BY <1>9, <1>10, <1>11, <1>12, <1>13, <1>14, <1>15, <1>16, <1>17, <1>18, <1>19,
     <1>20, <1>21
  DEF IInv

LEMMA CloseInv ==
  ASSUME IInv, TypeOK', NEW t \in Threads, CloseStep(t)
  PROVE  IInv'
BY CsFindInv, CsEraseInv, CsCloseInv, CsDeleteInv DEF CloseStep

LEMMA WorkerInv ==
  ASSUME IInv, TypeOK', crash = "none", NEW w \in Workers, Worker(w)
  PROVE  IInv'
BY OutsideAside, JobAside, StepAside, DisconnectInv, RearmInv, CancelInv, CloseInv, Names
DEF Worker, Work

----------------------------------------------------------------------------
(* The steps of the main thread.                                               *)

\* Those that touch no connection.
LEMMA MainAside ==
  ASSUME IInv,
         \/ MStart \/ MAcceptFail \/ MRelisten \/ MListenErr \/ MScan \/ MLock \/ MStop
         \/ MStopWorker \/ MCancel \/ MExit \/ (\E f \in Fds : MFind(f))
         \/ (\E w \in Workers : MSeen(w))
  PROVE  Aside
<1> USE Names
<1>0. /\ ep \in [AllFds -> {"none", "off", "in", "inout"}]
      /\ batch \in [AllFds -> SUBSET Events] /\ wpc \in [Workers -> WorkerPcs]
  BY DEF IInv, TypeOK, TypeKernel, TypeMain, TypeWorkers
<1>1. CASE MStart \/ MAcceptFail \/ MRelisten \/ MListenErr
  <2>1. /\ UNCHANGED <<conn, m_connect, heap, sd, closev, wpc, job, tst_socket>>
        /\ \A f \in Fds : ep'[f] = ep[f] /\ batch'[f] = batch[f]
    BY <1>0, <1>1
    DEF MStart, MAcceptFail, MRelisten, MListenErr, Handled, kernel, table, workv
  <2>2. \A w \in Workers, o \in Conns : Holds(w, o)' => Holds(w, o)
    BY <2>1 DEF Holds, InJob, closev
  <2>3. mpc \in {"start", "top", "relisten"} /\ mpc' = "top"
    BY <1>1 DEF MStart, MAcceptFail, MRelisten, MListenErr, AtTop
  <2>4. MainDispatches' BY <2>3 DEF MainDispatches
  <2>5. QED BY <2>1, <2>2, <2>3, <2>4 DEF Aside
<1>2. ASSUME NEW f \in Fds, MFind(f) PROVE Aside
  <2>1. /\ UNCHANGED <<conn, m_connect, heap, sd, closev, wpc, job, tst_socket, ep, batch>>
    BY <1>2 DEF MFind, kernel, table, workv
  <2>2. \A w \in Workers, o \in Conns : Holds(w, o)' => Holds(w, o)
    BY <2>1 DEF Holds, InJob, closev
  <2>3. \/ UNCHANGED <<mpc, cur, msock>>
        \/ mpc = "top" /\ mpc' = "scan" /\ cpc[MainT] = "idle" /\ MainDispatches'
    BY <1>2, <2>1 DEF MFind, AtHand, AtTop, MainDispatches
  <2>4. QED BY <2>1, <2>2, <2>3 DEF Aside
<1>3. CASE MScan \/ MLock
  <2>1. /\ UNCHANGED <<conn, m_connect, heap, sd, closev, wpc, job, tst_socket, ep, batch>>
    BY <1>3 DEF MScan, MLock, kernel, table, workv
  <2>2. \A w \in Workers, o \in Conns : Holds(w, o)' => Holds(w, o)
    BY <2>1 DEF Holds, InJob, closev
  <2>3. mpc \in {"scan", "lock"} /\ mpc' \in {"scan", "lock", "assign", "top"} /\ cur' = cur
        /\ (mpc' # "top" => msock' = msock)
    BY <1>3 DEF MScan, MLock
  <2>4. cpc[MainT] = "idle" BY <2>3 DEF IInv, MainCloses
  <2>5. MainDispatches' BY <2>1, <2>3 DEF IInv, MainDispatches
  <2>6. QED BY <2>1, <2>2, <2>3, <2>4, <2>5 DEF Aside
<1>4. ASSUME MStop \/ MStopWorker \/ MCancel \/ MExit \/ \E w \in Workers : MSeen(w)
      PROVE  Aside
  <2>1. UNCHANGED <<conn, m_connect, heap, sd, closev, job, tst_socket, ep, batch>>
    BY <1>4 DEF MStop, MStopWorker, MCancel, MExit, MSeen, kernel, table, workv
  <2>2. \A w \in Workers : wpc'[w] = wpc[w] \/ (wpc[w] = "wait" /\ wpc'[w] = "reacq")
    BY <1>0, <1>4 DEF MStop, MStopWorker, MCancel, MExit, MSeen, Signal, workv
  <2>3. \A w \in Workers, o \in Conns : Holds(w, o)' => Holds(w, o)
    BY <2>1, <2>2 DEF Holds, InJob, closev
  <2>4. \A w \in Workers : cpc[w] # "idle" => wpc'[w] = wpc[w]
    BY <2>2 DEF IInv, WorkerCloses
  <2>5. /\ mpc \in {"top", "stop", "await", "cancel"}
        /\ mpc' \in {"stop", "await", "cancel", "exit"}
        /\ mpc = "cancel" => mpc' = "exit"
    BY <1>4 DEF MStop, MStopWorker, MCancel, MExit, MSeen
  <2>6. cpc[MainT] = "idle"
    BY <1>4, <2>5 DEF MStop, MStopWorker, MCancel, MExit, MSeen, IInv, MainCloses
  <2>7. MainDispatches' BY <2>5 DEF MainDispatches
  <2>8. QED BY <2>1, <2>3, <2>4, <2>5, <2>6, <2>7 DEF Aside
<1>5. QED BY <1>1, <1>2, <1>3, <1>4

\* epoll_wait reports what is armed and disables it.
LEMMA MWaitInv ==
  ASSUME IInv, TypeOK', MWait
  PROVE  IInv'
<1> USE Names
<1>1. /\ UNCHANGED <<conn, m_connect, heap, sd, mpc, cur, msock, wpc, job, tst_socket,
                     closev>>
      /\ mpc = "top"
  BY DEF MWait, AtTop, table, workv
<1>2. \A f \in Fds : /\ Armed(f)' => Armed(f) /\ batch'[f] = {}
                     /\ batch'[f] # {} => Armed(f)
  <2>1. PICK S \in SUBSET {f \in AllFds : ReadyEvents(f) # {}} :
          /\ \A f \in AllFds :
               batch'[f] \in (IF f \in S THEN ReadyEvents(f) ELSE {{}})
          /\ ep' = Reported(S)
    BY DEF MWait
  <2>2. \A f \in S : Armed(f) BY <2>1 DEF ReadyEvents, Armed
  <2>3. QED BY <2>1, <2>2 DEF Reported, Armed
<1>3. \A w \in Workers, o \in Conns : Holds(w, o)' <=> Holds(w, o)
  BY <1>1 DEF Holds, InJob, closev
<1>4. ConnIsLive' /\ TableIsOpen' /\ OpenIsKnown' /\ OneWorker'
  BY <1>1, <1>3 DEF IInv, ConnIsLive, TableIsOpen, OpenIsKnown, OneWorker, closev
<1>5. EventIsRegistered' /\ ArmedNotBatched'
  BY <1>1, <1>2 DEF IInv, EventIsRegistered, ArmedNotBatched, Closes, closev
<1>6. HeldIsSilent'
  BY <1>1, <1>2, <1>3 DEF IInv, HeldIsSilent, closev, TypeOK, TypeTable
<1>7. WorkerCloses' /\ CloseStages' /\ ClosersDiffer' /\ NoUserClose'
  BY <1>1 DEF IInv, WorkerCloses, CloseStages, ClosersDiffer, NoUserClose, Closes, closev
<1>8. MainCloses' BY <1>1, <1>3 DEF IInv, MainCloses, Closes, closev
<1>9. MainOpens' /\ MainDispatches' BY <1>1 DEF MainOpens, MainDispatches
<1>10. QED BY <1>4, <1>5, <1>6, <1>7, <1>8, <1>9 DEF IInv

\* accept: neither the descriptor nor the record is known to anybody yet.
LEMMA MAcceptInv ==
  ASSUME IInv, TypeOK', NEW f \in Fds, NEW o \in Conns, MAccept(f, o)
  PROVE  IInv'
<1> USE Names
<1>1. conn[f] = None /\ heap[o] = "none" /\ mpc = "top" /\ cpc[MainT] = "idle"
  BY DEF MAccept, AtTop
<1>2. m_connect[f] = None BY <1>1 DEF IInv, TableIsOpen
<1>3. /\ UNCHANGED <<m_connect, ep, wpc, job, tst_socket, cpc, cfd, cobj>>
      /\ msock' = o /\ mpc' = "add"
  BY <1>2 DEF MAccept, workv, closev
<1>4. /\ conn \in [Fds -> Conns \cup {None}] /\ batch \in [AllFds -> SUBSET Events]
      /\ heap \in [Conns -> {"none", "live", "freed"}] /\ sd \in [Conns -> Fds \cup {None}]
  BY DEF IInv, TypeOK, TypeKernel, TypeTable, TypeMain
<1>5. /\ \A g \in Fds : g # f => conn'[g] = conn[g]
      /\ \A g \in Fds : conn[g] # o /\ batch'[g] = batch[g]
      /\ conn'[f] = o /\ heap'[o] = "live" /\ sd'[o] = f
      /\ \A p \in Conns : p # o => heap'[p] = heap[p] /\ sd'[p] = sd[p]
  <2>1. /\ conn' = [conn EXCEPT ![f] = o] /\ heap' = [heap EXCEPT ![o] = "live"]
        /\ sd' = [sd EXCEPT ![o] = f] /\ batch' = [batch EXCEPT ![Listen] = {}]
    BY DEF MAccept, Handled
  <2>2. \A g \in Fds : conn[g] # o BY <1>1 DEF IInv, ConnIsLive
  <2>3. QED BY <1>4, <2>1, <2>2
<1>6. /\ \A w \in Workers, p \in Conns : Holds(w, p)' <=> Holds(w, p)
      /\ \A w \in Workers : ~Holds(w, o)
  <2>1. \A w \in Workers, p \in Conns : Holds(w, p)' <=> Holds(w, p)
    BY <1>3 DEF Holds, InJob
  <2>2. \A w \in Workers : ~Holds(w, o) BY <1>1 DEF IInv, HeldIsSilent
  <2>3. QED BY <2>1, <2>2
<1>7. \A t \in Threads, g \in Fds : Closes(t, g)' <=> Closes(t, g)
  BY <1>3 DEF Closes
<1>8. \A t \in Threads : ~Closes(t, f)
  BY <1>1, <1>2 DEF IInv, CloseStages, Closes
<1>9. ~Armed(f) /\ batch[f] = {} BY <1>2 DEF IInv, EventIsRegistered
<1>10. ConnIsLive' BY <1>4, <1>5 DEF IInv, ConnIsLive
<1>11. TableIsOpen' BY <1>2, <1>3, <1>5 DEF IInv, TableIsOpen
<1>12. OpenIsKnown' BY <1>1, <1>3, <1>5 DEF IInv, OpenIsKnown
<1>13. EventIsRegistered' BY <1>3, <1>5, <1>7 DEF IInv, EventIsRegistered, Armed
<1>14. ArmedNotBatched' BY <1>3, <1>5 DEF IInv, ArmedNotBatched, Armed
<1>15. HeldIsSilent'
  <2> SUFFICES ASSUME NEW w \in Workers, NEW p \in Conns, Holds(w, p)
               PROVE  /\ heap'[p] = "live"
                      /\ cpc[w] \in {"idle", "lock", "erase"} =>
                           /\ m_connect[sd'[p]] = p
                           /\ ~Armed(sd'[p]) /\ batch'[sd'[p]] = {}
    BY <1>3, <1>6 DEF HeldIsSilent, Armed
  <2>1. p # o /\ heap[p] = "live" /\ sd[p] \in Fds
    BY <1>6 DEF IInv, HeldIsSilent, TypeOK, TypeTable
  <2>2. QED BY <1>5, <2>1 DEF IInv, HeldIsSilent
<1>16. OneWorker' BY <1>6 DEF IInv, OneWorker
<1>17. WorkerCloses'
  <2>1. \A w \in Workers : cpc[w] # "idle" => job[w] # o /\ job[w] \in Conns
    BY <1>6, CloserHolds
  <2>2. QED BY <1>3, <1>5, <2>1 DEF IInv, WorkerCloses
<1>18. CloseStages'
  <2>1. \A t \in Threads : cpc[t] = "delete" => cobj[t] # o /\ cobj[t] \in Conns
    BY <1>1 DEF IInv, CloseStages, TypeOK, TypeClose
  <2>2. \A t \in Threads : cpc[t] = "close" => cfd[t] # f /\ cfd[t] \in Fds
    BY <1>8 DEF Closes, IInv, TypeOK, TypeClose
  <2>3. QED BY <1>3, <1>5, <2>1, <2>2 DEF IInv, CloseStages
<1>19. ClosersDiffer' BY <1>3, <1>7 DEF IInv, ClosersDiffer
<1>20. MainCloses' BY <1>1, <1>3, <1>7 DEF MainCloses, Closes
<1>21. MainOpens'
  BY <1>2, <1>3, <1>5, <1>6, <1>7, <1>8, <1>9 DEF MainOpens, Armed
<1>22. MainDispatches' BY <1>3 DEF MainDispatches
<1>23. NoUserClose' BY <1>3 DEF IInv, NoUserClose
<1>24. QED
  BY <1>10, <1>11, <1>12, <1>13, <1>14, <1>15, <1>16, <1>17, <1>18, <1>19, <1>20,
     <1>21, <1>22, <1>23
  DEF IInv

\* addsocket: the connection that is being accepted is registered.
LEMMA MAddInv ==
  ASSUME IInv, TypeOK', MAdd
  PROVE  IInv'
<1> DEFINE f == sd[msock]
<1> USE Names
<1>1. mpc = "add" /\ msock \in Conns /\ f \in Fds /\ msock # None
  BY DEF MAdd, IInv, TypeOK, TypeMain, TypeTable, TypePointers
<1>2. /\ UNCHANGED <<conn, heap, sd, ep, batch, wpc, job, tst_socket, cpc, cfd, cobj,
                     msock>>
      /\ mpc' = "admit" /\ cpc[MainT] = "idle"
  BY DEF MAdd, kernel, workv, closev
<1>3. /\ \A g \in Fds : g # f => m_connect'[g] = m_connect[g]
      /\ m_connect'[f] = msock
  BY <1>1 DEF MAdd, IInv, TypeOK, TypeTable
<1>4. /\ conn[f] = msock /\ m_connect[f] = None /\ ~Armed(f) /\ batch[f] = {}
      /\ \A t \in Threads : ~Closes(t, f)
      /\ \A w \in Workers : ~Holds(w, msock)
  BY <1>1 DEF IInv, MainOpens
<1>5. \A w \in Workers, p \in Conns : Holds(w, p)' <=> Holds(w, p)
  BY <1>2 DEF Holds, InJob
<1>6. \A t \in Threads, g \in Fds : Closes(t, g)' <=> Closes(t, g)
  BY <1>2 DEF Closes
<1>7. \A g \in Fds : conn[g] = msock => g = f BY <1>1 DEF IInv, ConnIsLive
<1>8. \A t \in Threads : cpc[t] \in {"lock", "erase", "close"} =>
                           cfd[t] # f /\ cfd[t] \in Fds
  BY <1>4 DEF Closes, IInv, TypeOK, TypeClose
<1> HIDE DEF f
<1>9. ConnIsLive' /\ ArmedNotBatched'
  BY <1>2 DEF IInv, ConnIsLive, ArmedNotBatched, Armed
<1>10. TableIsOpen' BY <1>2, <1>3, <1>4 DEF IInv, TableIsOpen
<1>11. OpenIsKnown'
  <2> SUFFICES ASSUME NEW g \in Fds, conn[g] # None
               PROVE  \/ m_connect'[g] = conn[g]
                      \/ \E t \in Threads : cpc[t] = "close" /\ cfd[t] = g
                      \/ mpc' \in {"cancel", "exit"}
    BY <1>2 DEF OpenIsKnown
  <2>1. CASE g = f BY <2>1, <1>3, <1>4
  <2>2. CASE g # f
    <3>1. conn[g] # msock BY <2>2, <1>7
    <3>2. m_connect'[g] = m_connect[g] BY <2>2, <1>3
    <3>3. mpc \notin {"cancel", "exit"} BY <1>1
    <3>4. \/ m_connect[g] = conn[g]
          \/ \E t \in Threads : cpc[t] = "close" /\ cfd[t] = g
      BY <3>1, <3>3 DEF IInv, OpenIsKnown
    <3>5. QED BY <3>2, <3>4
  <2>3. QED BY <2>1, <2>2
<1>12. EventIsRegistered'
  BY <1>1, <1>2, <1>3, <1>6 DEF IInv, EventIsRegistered, Armed
<1>13. HeldIsSilent'
  <2> SUFFICES ASSUME NEW w \in Workers, NEW p \in Conns, Holds(w, p)
               PROVE  /\ heap[p] = "live"
                      /\ cpc[w] \in {"idle", "lock", "erase"} =>
                           /\ m_connect'[sd[p]] = p /\ ~Armed(sd[p]) /\ batch[sd[p]] = {}
    BY <1>2, <1>5 DEF HeldIsSilent, Armed
  <2>1. heap[p] = "live" /\ sd[p] \in Fds
    BY DEF IInv, HeldIsSilent, TypeOK, TypeTable
  <2>2. QED BY <1>3, <1>4, <2>1 DEF IInv, HeldIsSilent
<1>14. OneWorker' BY <1>5 DEF IInv, OneWorker
<1>15. WorkerCloses' BY <1>2 DEF IInv, WorkerCloses
<1>16. CloseStages' BY <1>2, <1>3, <1>8 DEF IInv, CloseStages
<1>17. ClosersDiffer' BY <1>2, <1>6 DEF IInv, ClosersDiffer
<1>18. MainCloses' BY <1>2, <1>6 DEF MainCloses, Closes
<1>19. MainOpens'
  <2>1. msock' = msock /\ sd' = sd /\ mpc' # "add" BY <1>2
  <2>2. f' = f BY <2>1 DEF f
  <2>3. /\ conn'[f] = msock /\ m_connect'[f] = msock
        /\ ~Armed(f)' /\ batch'[f] = {}
    BY <1>2, <1>3, <1>4, <2>2 DEF Armed
  <2>4. \A t \in Threads : ~Closes(t, f)'
    BY <1>2, <1>4, <2>2 DEF Closes
  <2>5. \A w \in Workers : ~Holds(w, msock)'
    BY <1>2, <1>4 DEF Holds, InJob
  <2>6. QED BY <2>1, <2>2, <2>3, <2>4, <2>5 DEF MainOpens, f
<1>20. MainDispatches' BY <1>2 DEF MainDispatches
<1>21. NoUserClose' BY <1>2 DEF IInv, NoUserClose
<1>22. QED
  BY <1>9, <1>10, <1>11, <1>12, <1>13, <1>14, <1>15, <1>16, <1>17, <1>18, <1>19,
     <1>20, <1>21
  DEF IInv

\* The new connection is admitted: it goes to epoll.
LEMMA MAdmitInv ==
  ASSUME IInv, TypeOK', MAdmit
  PROVE  IInv'
<1> DEFINE f == sd[msock]
<1> USE Names
<1>1. mpc = "admit" /\ msock \in Conns /\ f \in Fds /\ msock # None
  BY DEF MAdmit, IInv, TypeOK, TypeMain, TypeTable, TypePointers
<1>2. /\ UNCHANGED <<conn, m_connect, heap, sd, batch, wpc, job, tst_socket, closev, msock>>
      /\ mpc' = "relisten"
      /\ \A g \in Fds : g # f => ep'[g] = ep[g]
  BY DEF MAdmit, table, workv, IInv, TypeOK, TypeKernel
<1>3. /\ m_connect[f] = msock /\ batch[f] = {}
      /\ \A t \in Threads : ~Closes(t, f)
      /\ \A w \in Workers : ~Holds(w, msock)
  BY <1>1 DEF IInv, MainOpens
<1>4. \A w \in Workers, p \in Conns : Holds(w, p)' <=> Holds(w, p)
  BY <1>2 DEF Holds, InJob, closev
<1> HIDE DEF f
<1>5. ConnIsLive' /\ TableIsOpen' BY <1>2 DEF IInv, ConnIsLive, TableIsOpen
<1>6. OpenIsKnown' BY <1>1, <1>2 DEF IInv, OpenIsKnown, closev
<1>7. EventIsRegistered'
  BY <1>1, <1>2, <1>3 DEF IInv, EventIsRegistered, Armed, Closes, closev
<1>8. ArmedNotBatched' BY <1>2, <1>3 DEF IInv, ArmedNotBatched, Armed
<1>9. HeldIsSilent'
  <2> SUFFICES ASSUME NEW w \in Workers, NEW p \in Conns, Holds(w, p)
               PROVE  /\ heap[p] = "live"
                      /\ cpc[w] \in {"idle", "lock", "erase"} =>
                           /\ m_connect[sd[p]] = p /\ ~Armed(sd[p])' /\ batch[sd[p]] = {}
    BY <1>2, <1>4 DEF HeldIsSilent, Armed, closev
  <2>1. heap[p] = "live" /\ sd[p] \in Fds
    BY DEF IInv, HeldIsSilent, TypeOK, TypeTable
  <2>2. QED BY <1>2, <1>3, <2>1 DEF IInv, HeldIsSilent, Armed
<1>10. OneWorker' BY <1>4 DEF IInv, OneWorker
<1>11. WorkerCloses' /\ CloseStages' /\ ClosersDiffer' /\ NoUserClose'
  BY <1>2 DEF IInv, WorkerCloses, CloseStages, ClosersDiffer, NoUserClose, Closes, closev
<1>12. MainCloses' BY <1>2, <1>4 DEF IInv, MainCloses, Closes, closev
<1>13. MainOpens' /\ MainDispatches' BY <1>2 DEF MainOpens, MainDispatches
<1>14. QED
  BY <1>5, <1>6, <1>7, <1>8, <1>9, <1>10, <1>11, <1>12, <1>13 DEF IInv

\* The main thread begins to close a connection that nobody closes or holds.
LEMMA MainStartsClose ==
  ASSUME IInv, TypeOK', NEW f \in Fds,
         conn[f] # None, m_connect[f] = conn[f], cpc[MainT] = "idle",
         \A t \in Threads : ~Closes(t, f), \A w \in Workers : ~Holds(w, conn[f]),
         ~Armed(f), batch'[f] = {}, \A g \in Fds : g # f => batch'[g] = batch[g],
         UNCHANGED <<kernel, table, workv>>, StartClose(MainT, f),
         mpc \in {"admit", "top"}, mpc' \in {"top", "relisten"}
  PROVE  IInv'
<1> USE Names
<1>1. /\ UNCHANGED <<conn, m_connect, heap, sd, ep, wpc, job, tst_socket, cobj>>
      /\ cpc' = [cpc EXCEPT ![MainT] = "lock"] /\ cfd' = [cfd EXCEPT ![MainT] = f]
  BY DEF StartClose, kernel, table, workv
<1>2. /\ cpc \in [Threads -> ClosePcs] /\ cfd \in [Threads -> Fds \cup {None}]
      /\ conn \in [Fds -> Conns \cup {None}]
  BY DEF IInv, TypeOK, TypeClose, TypeKernel
<1>3. \A w \in Workers, p \in Conns : Holds(w, p)' <=> Holds(w, p)
  BY <1>1, <1>2 DEF Holds, InJob
<1>4. \A t \in Threads, g \in Fds :
        Closes(t, g)' => Closes(t, g) \/ (t = MainT /\ g = f)
  BY <1>1, <1>2 DEF Closes
<1>5. ConnIsLive' /\ TableIsOpen' BY <1>1 DEF IInv, ConnIsLive, TableIsOpen
<1>6. OpenIsKnown' BY <1>1, <1>2 DEF IInv, OpenIsKnown
<1>7. EventIsRegistered' BY <1>1, <1>4 DEF IInv, EventIsRegistered, Armed
<1>8. ArmedNotBatched' BY <1>1 DEF IInv, ArmedNotBatched, Armed
<1>9. HeldIsSilent'
  <2> SUFFICES ASSUME NEW w \in Workers, NEW p \in Conns, Holds(w, p)
               PROVE  /\ heap[p] = "live"
                      /\ cpc[w] \in {"idle", "lock", "erase"} =>
                           /\ m_connect[sd[p]] = p /\ ~Armed(sd[p]) /\ batch'[sd[p]] = {}
    BY <1>1, <1>2, <1>3 DEF HeldIsSilent, Armed
  <2>1. heap[p] = "live" /\ sd[p] \in Fds
    BY DEF IInv, HeldIsSilent, TypeOK, TypeTable
  <2>2. QED BY <2>1 DEF IInv, HeldIsSilent
<1>10. OneWorker' BY <1>3 DEF IInv, OneWorker
<1>11. WorkerCloses' BY <1>1, <1>2 DEF IInv, WorkerCloses
<1>12. CloseStages' BY <1>1, <1>2 DEF IInv, CloseStages
<1>13. ClosersDiffer' BY <1>1, <1>2, <1>4 DEF IInv, ClosersDiffer
<1>14. MainCloses' BY <1>1, <1>2, <1>3, <1>4 DEF MainCloses, Closes
<1>15. MainOpens' /\ MainDispatches' BY DEF MainOpens, MainDispatches
<1>16. NoUserClose' BY <1>1, <1>2 DEF IInv, NoUserClose
<1>17. QED
  BY <1>5, <1>6, <1>7, <1>8, <1>9, <1>10, <1>11, <1>12, <1>13, <1>14, <1>15, <1>16
  DEF IInv

\* A connection is refused, or its peer has gone.
LEMMA MainCloseInv ==
  ASSUME IInv, TypeOK', MRefuse \/ \E f \in Fds : MClose(f)
  PROVE  IInv'
<1> USE Names
<1>1. CASE MRefuse
  <2>1. mpc = "admit" /\ msock \in Conns /\ sd[msock] \in Fds /\ msock # None
    BY <1>1 DEF MRefuse, IInv, TypeOK, TypeMain, TypeTable, TypePointers
  <2>2. /\ conn[sd[msock]] = msock /\ m_connect[sd[msock]] = msock
        /\ ~Armed(sd[msock]) /\ batch[sd[msock]] = {}
        /\ \A t \in Threads : ~Closes(t, sd[msock])
        /\ \A w \in Workers : ~Holds(w, msock)
        /\ cpc[MainT] = "idle"
    BY <2>1 DEF IInv, MainOpens, MainCloses
  <2>3. /\ batch' = batch /\ mpc' = "relisten" /\ StartClose(MainT, sd[msock])
        /\ UNCHANGED <<kernel, table, workv>>
    BY <1>1 DEF MRefuse
  <2>4. QED BY <2>1, <2>2, <2>3, MainStartsClose
<1>2. ASSUME NEW f \in Fds, MClose(f) PROVE IInv'
  <2>1. batch[f] # {} /\ mpc = "top" /\ cpc[MainT] = "idle"
    BY <1>2 DEF MClose, AtHand, AtTop
  <2>2. batch'[f] = {} /\ \A g \in Fds : g # f => batch'[g] = batch[g]
    BY <1>2 DEF MClose, Handled, IInv, TypeOK, TypeMain
  <2>3. mpc' = "top" /\ StartClose(MainT, f) /\ UNCHANGED <<kernel, table, workv>>
    BY <1>2, <2>1 DEF MClose
  <2>4. QED BY <2>1, <2>2, <2>3, BatchedIsFree, MainStartsClose
<1>3. QED BY <1>1, <1>2

\* The connection at hand goes from the batch to one worker.
LEMMA MAssignInv ==
  ASSUME IInv, TypeOK', MAssign
  PROVE  IInv'
<1> USE Names
<1>1. mpc = "assign" /\ mi \in Workers /\ msock \in Conns /\ cur \in Fds
  BY DEF MAssign, IInv, TypeOK, TypeMain
<1>2. batch[cur] # {} /\ msock = m_connect[cur] BY <1>1 DEF IInv, MainDispatches
<1>3. /\ conn[cur] = msock /\ sd[msock] = cur /\ heap[msock] = "live" /\ ~Armed(cur)
      /\ \A t \in Threads : ~Closes(t, cur)
      /\ \A w \in Workers : ~Holds(w, msock)
  BY <1>1, <1>2, BatchedIsFree
<1>4. /\ UNCHANGED <<conn, m_connect, heap, sd, ep, job, closev>>
      /\ mpc' = "top"
  BY DEF MAssign, kernel, table
<1>5. batch'[cur] = {} /\ \A g \in Fds : g # cur => batch'[g] = batch[g]
  BY <1>1 DEF MAssign, Handled, IInv, TypeOK, TypeMain
<1>6. /\ \A w \in Workers : wpc'[w] = wpc[w] \/ (wpc[w] = "wait" /\ wpc'[w] = "reacq")
      /\ \A w \in Workers : w # mi => tst_socket'[w] = tst_socket[w]
      /\ tst_socket'[mi] = msock
  BY <1>1 DEF MAssign, Signal, IInv, TypeOK, TypeWorkers
<1>7. \A w \in Workers, p \in Conns :
        Holds(w, p)' => Holds(w, p) \/ (w = mi /\ p = msock)
  BY <1>4, <1>6 DEF Holds, InJob, closev
<1>8. ConnIsLive' /\ TableIsOpen' BY <1>4 DEF IInv, ConnIsLive, TableIsOpen
<1>9. OpenIsKnown' BY <1>1, <1>4 DEF IInv, OpenIsKnown, closev
<1>10. EventIsRegistered'
  BY <1>4, <1>5 DEF IInv, EventIsRegistered, Armed, Closes, closev
<1>11. ArmedNotBatched' BY <1>4, <1>5 DEF IInv, ArmedNotBatched, Armed
<1>12. HeldIsSilent'
  <2> SUFFICES ASSUME NEW w \in Workers, NEW p \in Conns,
                      Holds(w, p) \/ (w = mi /\ p = msock)
               PROVE  /\ heap[p] = "live"
                      /\ cpc[w] \in {"idle", "lock", "erase"} =>
                           /\ m_connect[sd[p]] = p /\ ~Armed(sd[p]) /\ batch'[sd[p]] = {}
    BY <1>4, <1>7 DEF HeldIsSilent, Armed, closev
  <2>1. CASE p = msock BY <1>1, <1>2, <1>3, <1>5, <2>1
  <2>2. CASE p # msock
    <3>1. Holds(w, p) /\ heap[p] = "live" /\ sd[p] \in Fds
      BY <2>2 DEF IInv, HeldIsSilent, TypeOK, TypeTable
    <3>2. QED BY <1>5, <3>1 DEF IInv, HeldIsSilent
  <2>3. QED BY <2>1, <2>2
<1>13. OneWorker' BY <1>3, <1>7 DEF IInv, OneWorker
<1>14. WorkerCloses' BY <1>4, <1>6 DEF IInv, WorkerCloses, closev
<1>15. CloseStages' /\ ClosersDiffer' /\ NoUserClose'
  BY <1>4 DEF IInv, CloseStages, ClosersDiffer, NoUserClose, Closes, closev
<1>16. cpc[MainT] = "idle" BY <1>1 DEF IInv, MainCloses
<1>17. MainCloses' BY <1>4, <1>16 DEF MainCloses, Closes, closev
<1>18. MainOpens' /\ MainDispatches' BY <1>4 DEF MainOpens, MainDispatches
<1>19. QED
  BY <1>8, <1>9, <1>10, <1>11, <1>12, <1>13, <1>14, <1>15, <1>17, <1>18 DEF IInv

LEMMA MainInv ==
  ASSUME IInv, TypeOK', Main
  PROVE  IInv'
BY MainAside, StepAside, MWaitInv, MAcceptInv, MAddInv, MAdmitInv, MainCloseInv, MAssignInv,
   CloseInv, Names
DEF Main

----------------------------------------------------------------------------
(* The theorems.                                                               *)

LEMMA InitInv == Init => IInv
<1> SUFFICES ASSUME Init PROVE IInv
  OBVIOUS
<1> USE Names, InitTypeOK
<1>1. \A w \in Workers, o \in Conns : ~Holds(w, o) BY DEF Init, Holds, InJob
<1>2. QED
  BY <1>1
  DEF IInv, Init, ConnIsLive, TableIsOpen, OpenIsKnown, EventIsRegistered,
      ArmedNotBatched, HeldIsSilent, OneWorker, WorkerCloses, CloseStages,
      ClosersDiffer, MainCloses, MainOpens, MainDispatches, NoUserClose, Armed, Closes

\* The kernel and the peers take nothing from anybody.
LEMMA PeersAside ==
  ASSUME Peers \/ UNCHANGED vars
  PROVE  Aside
<1>1. UNCHANGED <<conn, ep, table, mainv, workv, closev>>
  BY DEF Peers, Peer, vars, kernel
<1>2. QED BY <1>1 DEF Aside, table, mainv, workv, closev, Holds, InJob

LEMMA NextInv == IInv /\ [CoreNext]_vars => IInv'
<1> SUFFICES ASSUME IInv, [CoreNext]_vars PROVE IInv'
  OBVIOUS
<1>0. TypeOK' BY NextTypeOK DEF IInv
<1>1. CASE crash = "none" /\ Peers BY <1>0, <1>1, PeersAside, StepAside
<1>2. CASE crash = "none" /\ Main BY <1>0, <1>2, MainInv
<1>3. CASE crash = "none" /\ \E w \in Workers : Worker(w) BY <1>0, <1>3, WorkerInv
<1>4. CASE UNCHANGED vars BY <1>0, <1>4, PeersAside, StepAside
<1>5. QED BY <1>1, <1>2, <1>3, <1>4 DEF CoreNext, Halted

\* The hand-over of connections between epoll, the main thread, the workers and
\* closesocket keeps IInv (tst.cpp 189-720, 896-947): no connection has two owners.
THEOREM Inductive == CoreSpec => []IInv
<1>1. Init => IInv BY InitInv
<1>2. IInv /\ [CoreNext]_vars => IInv' BY NextInv
<1>3. QED BY <1>1, <1>2, PTL DEF CoreSpec

----------------------------------------------------------------------------
(* What the hand-over promises, for every size of the pool.                    *)

\* IInv leaves no connection with two of epoll, the batch and the workers.
LEMMA OwnersDiffer == IInv => SoleOwner
<1> SUFFICES ASSUME IInv PROVE SoleOwner
  OBVIOUS
<1>1. \A f \in Fds, w \in Workers :
        conn[f] # None /\ Holds(w, conn[f]) => ~Armed(f) /\ batch[f] = {}
  <2> SUFFICES ASSUME NEW f \in Fds, NEW w \in Workers,
                      conn[f] # None, Holds(w, conn[f])
               PROVE  ~Armed(f) /\ batch[f] = {}
    OBVIOUS
  <2>1. sd[conn[f]] = f /\ conn[f] \in Conns
    BY DEF IInv, ConnIsLive, TypeOK, TypeKernel
  <2>2. CASE cpc[w] \in {"idle", "lock", "erase"}
    BY <2>1, <2>2 DEF IInv, HeldIsSilent
  <2>3. CASE cpc[w] \in {"close", "delete"}
    <3>1. wpc[w] = "done" /\ cfd[w] = f /\ cobj[w] = conn[f]
      BY <2>1, <2>3 DEF IInv, WorkerCloses, Holds
    <3>2. CASE cpc[w] = "close"
      <4>1. w \in Threads /\ Closes(w, f) BY <3>1, <3>2, Names DEF Closes
      <4>2. QED BY <4>1 DEF IInv, EventIsRegistered
    <3>3. CASE cpc[w] = "delete" BY <3>1, <3>3, Names DEF IInv, CloseStages
    <3>4. QED BY <2>3, <3>2, <3>3
  <2>4. QED BY <2>2, <2>3, Names DEF IInv, TypeOK, TypeClose, ClosePcs
<1>2. QED BY <1>1 DEF IInv, ArmedNotBatched, SoleOwner

\* A connection is with epoll, in the batch or with one worker (EPOLLONESHOT and
\* the re-arm, tst.cpp 198-234, 385-403, 634-670): IInv is what makes it so.
THEOREM OneOwner == CoreSpec => []SoleOwner
BY OwnersDiffer, Inductive, PTL

\* No record is deleted under a worker or under the main thread that dispatches it,
\* "in use" in the sense of the comment at tst.cpp 367.
THEOREM UsedStaysRegistered == CoreSpec => []InUseIsRegistered
<1>1. IInv => InUseIsRegistered
  <2> SUFFICES ASSUME IInv PROVE InUseIsRegistered
    OBVIOUS
  <2>1. \A w \in Workers : cpc[w] \in {"idle", "lock", "erase", "close", "delete"}
    BY Names DEF IInv, TypeOK, TypeClose, ClosePcs
  <2>2. \A w \in Workers, o \in Conns :
          Holds(w, o) => /\ heap[o] = "live"
                         /\ m_connect[sd[o]] = o \/ cpc[w] \in {"close", "delete"}
    BY <2>1 DEF IInv, HeldIsSilent
  <2>3. ASSUME mpc \in {"scan", "lock", "assign"}
        PROVE  heap[msock] = "live" /\ m_connect[cur] = msock
    <3>1. batch[cur] # {} /\ msock = m_connect[cur] /\ cur \in Fds
      BY <2>3 DEF IInv, MainDispatches, TypeOK, TypeMain
    <3>2. QED BY <3>1, BatchedIsFree
  <2>4. QED BY <2>2, <2>3 DEF InUseIsRegistered
<1>2. QED BY <1>1, Inductive, PTL

\* The table m_connect and the open descriptors of the kernel agree at every step
\* of accept, addsocket and closesocket (tst.cpp 258-300, 896-947).
THEOREM TableAgrees == CoreSpec => []TableMatchesKernel
<1>1. IInv => TableMatchesKernel
  <2> SUFFICES ASSUME IInv PROVE TableMatchesKernel
    OBVIOUS
  <2>1. ASSUME NEW f \in Fds, m_connect[f] # None
        PROVE  /\ conn[f] = m_connect[f] /\ heap[m_connect[f]] = "live"
               /\ sd[m_connect[f]] = f
    BY <2>1 DEF IInv, TableIsOpen, ConnIsLive
  <2>2. OpenIsKnown BY DEF IInv
  <2>3. QED BY <2>1, <2>2 DEF TableMatchesKernel, OpenIsKnown
<1>2. QED BY <1>1, Inductive, PTL

\* closesocket (tst.cpp 896-947) closes the connection whose record it has taken
\* out of the table, though it calls close after it has let the lock go.
THEOREM CloseIsOwn == CoreSpec => []ClosesItsOwn
<1>1. IInv => ClosesItsOwn BY DEF IInv, CloseStages, ClosesItsOwn
<1>2. QED BY <1>1, Inductive, PTL
----------------------------------------------------------------------------
(* The pool implements Connections.                                            *)

\* The owners are told apart.
LEMMA OwnerNames ==
  /\ MainT \notin Workers /\ Epoll \notin Workers /\ Epoll # MainT
  /\ Abstract!Owners = Workers \cup {MainT, Epoll}
  /\ \A w \in Workers : <<MainT, w>> \in Abstract!Handovers
                        /\ <<w, Epoll>> \in Abstract!Handovers
  /\ <<MainT, Epoll>> \in Abstract!Handovers /\ <<Epoll, MainT>> \in Abstract!Handovers
BY PoolConstants DEF Workers, MainT, Epoll, Abstract!Owners, Abstract!Handovers

\* Who has a connection is its only owner, and its record is live.
Alone ==
  \A o \in Conns, p \in Workers \cup {MainT, Epoll} :
    Has(p, o) => OwnersOf(o) = {p} /\ heap[o] = "live"

LEMMA OnlyOwner == IInv => Alone
<1> SUFFICES ASSUME IInv, NEW o \in Conns, NEW p \in Workers \cup {MainT, Epoll}, Has(p, o)
             PROVE  OwnersOf(o) = {p} /\ heap[o] = "live"
  BY DEF Alone
<1> USE Names, OwnerNames DEF IInv
<1>1. \A f \in Fds : conn[f] = o => heap[o] = "live" /\ sd[o] = f BY DEF ConnIsLive
<1>2. ASSUME EpollHas(o) PROVE ~MainHas(o) /\ heap[o] = "live"
  <2>1. PICK f \in Fds : conn[f] = o /\ Armed(f) BY <1>2 DEF EpollHas
  <2>2. sd[o] = f /\ batch[f] = {} /\ \A t \in Threads : ~Closes(t, f)
    BY <1>1, <2>1 DEF EventIsRegistered, ArmedNotBatched
  <2>3. ~(mpc \in {"add", "admit"} /\ msock = o) BY <2>1, <2>2 DEF MainOpens
  <2>4. ~(cpc[MainT] = "delete" /\ cobj[MainT] = o) BY <2>1 DEF CloseStages
  <2>5. QED BY <1>1, <2>1, <2>2, <2>3, <2>4 DEF MainHas
<1>3. ASSUME NEW w \in Workers, Holds(w, o)
      PROVE  ~EpollHas(o) /\ ~MainHas(o) /\ heap[o] = "live"
  <2>1. \A f \in Fds : conn[f] = o => ~Armed(f) /\ batch[f] = {}
    BY <1>3, OwnersDiffer DEF SoleOwner
  <2>2. ~(mpc \in {"add", "admit"} /\ msock = o) BY <1>3 DEF MainOpens
  <2>3. /\ \A f \in Fds : conn[f] = o => ~Closes(MainT, f)
        /\ ~(cpc[MainT] = "delete" /\ cobj[MainT] = o)
    BY <1>3 DEF MainCloses
  <2>4. QED BY <1>3, <2>1, <2>2, <2>3 DEF EpollHas, MainHas, HeldIsSilent
<1>4. ASSUME MainHas(o) PROVE heap[o] = "live"
  <2>1. CASE \E f \in Fds : conn[f] = o BY <1>1, <2>1
  <2>2. CASE mpc \in {"add", "admit"} /\ msock = o
    <3>1. sd[o] \in Fds BY <2>2 DEF TypeOK, TypeMain, TypeTable, TypePointers
    <3>2. QED BY <1>1, <2>2, <3>1 DEF MainOpens
  <2>3. CASE cpc[MainT] = "delete" /\ cobj[MainT] = o BY <2>3 DEF CloseStages
  <2>4. QED BY <1>4, <2>1, <2>2, <2>3 DEF MainHas
<1>5. heap[o] = "live" BY <1>2, <1>3, <1>4 DEF Has
<1>6. ASSUME NEW q \in Workers \cup {MainT, Epoll}, Has(q, o) PROVE q = p
  BY <1>2, <1>3, <1>6 DEF Has, OneWorker
<1>7. QED BY <1>5, <1>6 DEF OwnersOf

\* The same after a step.
LEMMA OnlyOwnerThen == IInv' => Alone'
BY OnlyOwner, PTL

\* A connection makes a step of its life, or none.
Lives(o) ==
  \/ Abstract!Keep(o) \/ Abstract!Accept(o) \/ Abstract!HandOver(o)
  \/ Abstract!Delete(o) \/ Abstract!Lose(o)

\* A connection that nobody gets, and that epoll does not give away, is kept or lost.
LEMMA KeptOrLost ==
  ASSUME IInv, IInv', NEW o \in Conns, heap'[o] = heap[o],
         \A p \in Workers \cup {MainT} : Has(p, o)' => Has(p, o),
         EpollHas(o)' <=> EpollHas(o)
  PROVE  Lives(o)
<1> USE OwnerNames
<1>1. \A p \in Workers \cup {MainT, Epoll} : Has(p, o)' => Has(p, o) BY DEF Has
<1>2. CASE \E p \in Workers \cup {MainT, Epoll} : Has(p, o)'
  <2>1. PICK p \in Workers \cup {MainT, Epoll} : Has(p, o)' BY <1>2
  <2>2. OwnersOf(o) = {p} BY <1>1, <2>1, OnlyOwner DEF Alone
  <2>3. OwnersOf(o)' = {p} BY <2>1, OnlyOwnerThen DEF Alone
  <2>4. QED BY <2>2, <2>3 DEF Lives, Abstract!Keep
<1>3. CASE \A p \in Workers \cup {MainT, Epoll} : ~Has(p, o)'
  <2>1. OwnersOf(o)' = {} BY <1>3 DEF OwnersOf
  <2>2. CASE \E p \in Workers \cup {MainT} : Has(p, o)
    <3>1. PICK p \in Workers \cup {MainT} : Has(p, o) BY <2>2
    <3>2. OwnersOf(o) = {p} /\ heap[o] = "live" BY <3>1, OnlyOwner DEF Alone
    <3>3. QED BY <2>1, <3>2 DEF Lives, Abstract!Lose
  <2>3. CASE \A p \in Workers \cup {MainT} : ~Has(p, o)
    <3>1. OwnersOf(o) = {} BY <1>3, <2>3 DEF OwnersOf, Has
    <3>2. QED BY <2>1, <3>1 DEF Lives, Abstract!Keep
  <2>4. QED BY <2>2, <2>3
<1>4. QED BY <1>2, <1>3

\* One owner hands a connection over to another.
LEMMA HandedOver ==
  ASSUME IInv, IInv', NEW o \in Conns, heap'[o] = heap[o],
         NEW p \in Workers \cup {MainT, Epoll}, NEW q \in Workers \cup {MainT, Epoll},
         <<p, q>> \in Abstract!Handovers, Has(p, o), Has(q, o)'
  PROVE  Lives(o)
<1>1. OwnersOf(o) = {p} /\ heap[o] = "live" BY OnlyOwner DEF Alone
<1>2. OwnersOf(o)' = {q} BY OnlyOwnerThen DEF Alone
<1>3. Abstract!HandOver(o) BY <1>1, <1>2 DEF Abstract!HandOver
<1>4. QED BY <1>3 DEF Lives

\* A step aside takes no connection from epoll or to it.
LEMMA AsideLives ==
  ASSUME IInv, IInv', Aside, NEW o \in Conns
  PROVE  Lives(o)
<1> USE Names
<1>1. /\ UNCHANGED <<conn, heap, cpc, cfd, cobj>>
      /\ \A f \in Fds : ep'[f] = ep[f] /\ batch'[f] = batch[f]
      /\ \A w \in Workers, c \in Conns : Holds(w, c)' => Holds(w, c)
      /\ UNCHANGED <<mpc, msock>> \/ mpc' \notin {"add", "admit"}
  BY DEF Aside, closev
<1>2. EpollHas(o)' <=> EpollHas(o) BY <1>1 DEF EpollHas, Armed
<1>3. MainHas(o)' => MainHas(o) BY <1>1 DEF MainHas, Closes
<1>4. QED BY <1>1, <1>2, <1>3, KeptOrLost DEF Has

\* Of the steps of closesocket only the last takes a connection from its owner.
LEMMA CloseLives ==
  ASSUME IInv, IInv', NEW t \in Threads, CloseStep(t), NEW o \in Conns
  PROVE  Lives(o)
<1> USE Names
<1>0. /\ cpc \in [Threads -> ClosePcs] /\ cobj \in [Threads -> Conns \cup {None}]
      /\ conn \in [Fds -> Conns \cup {None}]
      /\ heap \in [Conns -> {"none", "live", "freed"}]
      /\ ep \in [AllFds -> {"none", "off", "in", "inout"}]
      /\ cfd \in [Threads -> Fds \cup {None}]
  BY DEF IInv, TypeOK, TypeClose, TypeKernel, TypeTable
<1>1. CASE CsFind(t) \/ CsErase(t)
  <2>1. /\ UNCHANGED <<conn, heap, ep, batch, mpc, msock, wpc, job, tst_socket, cfd>>
        /\ \A u \in Threads :
             \/ cpc'[u] = cpc[u]
             \/ cpc[u] \in {"lock", "erase"} /\ cpc'[u] \in {"erase", "close"}
    BY <1>0, <1>1 DEF CsFind, CsErase, kernel, table, mainv, workv
  <2>2. \A w \in Workers : Holds(w, o)' <=> Holds(w, o) BY <2>1 DEF Holds, InJob
  <2>3. \A u \in Threads : cpc'[u] = "delete" => cpc[u] = "delete" /\ cobj'[u] = cobj[u]
    BY <1>0, <1>1 DEF CsFind, CsErase
  <2>4. MainHas(o)' => MainHas(o) BY <2>1, <2>3 DEF MainHas, Closes
  <2>5. EpollHas(o)' <=> EpollHas(o) BY <2>1 DEF EpollHas, Armed
  <2>6. QED BY <2>1, <2>2, <2>4, <2>5, KeptOrLost DEF Has
<1>2. CASE CsClose(t)
  <2>1. /\ UNCHANGED <<heap, batch, mpc, msock, wpc, job, tst_socket, cfd, cobj>>
        /\ cpc[t] = "close" /\ cpc' = [cpc EXCEPT ![t] = "delete"]
        /\ cfd[t] \in Fds /\ conn' = [conn EXCEPT ![cfd[t]] = None]
        /\ \A f \in Fds : f # cfd[t] => ep'[f] = ep[f]
    BY <1>0, <1>2 DEF CsClose, table, mainv, workv, IInv, TypeOK, TypeClose
  <2>2. conn[cfd[t]] = cobj[t] /\ ~Armed(cfd[t])
    BY <2>1 DEF IInv, CloseStages, EventIsRegistered, Closes
  <2>3. \A w \in Workers : Holds(w, o)' <=> Holds(w, o)
    BY <1>0, <2>1 DEF Holds, InJob
  <2>4. MainHas(o)' => MainHas(o)
    <3>1. CASE \E f \in Fds : conn'[f] = o /\ (batch[f] # {} \/ Closes(MainT, f)')
      BY <1>0, <2>1, <3>1 DEF MainHas, Closes
    <3>2. CASE cpc'[MainT] = "delete" /\ cobj[MainT] = o
      BY <1>0, <2>1, <2>2, <3>2 DEF MainHas, Closes
    <3>3. QED BY <2>1, <3>1, <3>2 DEF MainHas
  <2>5. EpollHas(o)' <=> EpollHas(o)
    BY <1>0, <2>1, <2>2 DEF EpollHas, Armed
  <2>6. QED BY <2>1, <2>3, <2>4, <2>5, KeptOrLost DEF Has
<1>3. CASE CsDelete(t)
  <2>0. cobj[t] # None /\ cobj[t] \in Conns
    <3>1. cpc[t] = "delete" BY <1>3 DEF CsDelete
    <3>2. QED BY <1>0, <3>1 DEF IInv, CloseStages
  <2>1. /\ UNCHANGED <<conn, ep, batch, mpc, msock, wpc, job, tst_socket>>
        /\ cpc[t] = "delete" /\ cpc' = [cpc EXCEPT ![t] = "idle"]
        /\ \A u \in Threads : u # t => cfd'[u] = cfd[u] /\ cobj'[u] = cobj[u]
        /\ heap' = [heap EXCEPT ![cobj[t]] = "freed"]
    BY <1>0, <1>3, <2>0 DEF CsDelete, kernel, mainv, workv
  <2>2. \A w \in Workers : Holds(w, o)' => Holds(w, o) BY <1>0, <2>1 DEF Holds, InJob
  <2>3. MainHas(o)' => MainHas(o) BY <1>0, <2>1 DEF MainHas, Closes
  <2>4. EpollHas(o)' <=> EpollHas(o) BY <2>1 DEF EpollHas, Armed
  <2>5. CASE o # cobj[t]
    <3>1. heap'[o] = heap[o] BY <1>0, <2>1, <2>5
    <3>2. QED BY <2>2, <2>3, <2>4, <3>1, KeptOrLost DEF Has
  <2>6. CASE o = cobj[t]
    <3>1. t \in Workers \cup {MainT} /\ Has(t, o)
      BY <2>1, <2>6, CloserHolds DEF Has, MainHas
    <3>2. OwnersOf(o) = {t} /\ heap[o] = "live" BY <3>1, OnlyOwner DEF Alone
    <3>3. heap'[o] = "freed" BY <1>0, <2>1, <2>6
    <3>4. OwnersOf(o)' = {} BY <3>3, OnlyOwnerThen DEF Alone, OwnersOf
    <3>5. Abstract!Delete(o) BY <3>1, <3>2, <3>3, <3>4 DEF Abstract!Delete
    <3>6. QED BY <3>5 DEF Lives
  <2>7. QED BY <2>5, <2>6
<1>4. QED BY <1>1, <1>2, <1>3 DEF CloseStep

\* A worker gives the connection of its job back to epoll, and forgets another one it
\* has been given meanwhile.
LEMMA WorkerLives ==
  ASSUME IInv, IInv', crash = "none", NEW w \in Workers,
         WDisconnect(w) \/ WRearm(w) \/ WCancelled(w), NEW o \in Conns
  PROVE  Lives(o)
<1> USE Names, OwnerNames
<1>0. /\ cpc \in [Threads -> ClosePcs] /\ cfd \in [Threads -> Fds \cup {None}]
      /\ cobj \in [Threads -> Conns \cup {None}] /\ wpc \in [Workers -> WorkerPcs]
      /\ ep \in [AllFds -> {"none", "off", "in", "inout"}]
  BY DEF IInv, TypeOK, TypeClose, TypeWorkers, TypeKernel
<1>1. /\ UNCHANGED <<conn, heap, batch, mpc, msock, job, tst_socket>>
      /\ \A t \in Threads : t # w => cpc'[t] = cpc[t] /\ cfd'[t] = cfd[t] /\ cobj'[t] = cobj[t]
      /\ \A v \in Workers : v # w => wpc'[v] = wpc[v]
  BY <1>0
  DEF WDisconnect, WRearm, WCancelled, Go, StartClose, kernel, table, mainv, closev
<1>2. MainHas(o)' => MainHas(o) BY <1>1 DEF MainHas, Closes
<1>3. \A v \in Workers \ {w} : Holds(v, o)' => Holds(v, o) BY <1>1 DEF Holds, InJob
<1>4. CASE WDisconnect(w) \/ WCancelled(w)
  <2>1. ep' = ep BY <1>4 DEF WDisconnect, WCancelled, Go, kernel
  <2>2. EpollHas(o)' <=> EpollHas(o) BY <1>1, <2>1 DEF EpollHas, Armed
  <2>3. Holds(w, o)' => Holds(w, o)
    <3>1. CASE WCancelled(w)
      <4>1. wpc'[w] = "dead" BY <1>0, <3>1 DEF WCancelled, Go
      <4>2. QED BY <4>1 DEF Holds, InJob
    <3>2. CASE WDisconnect(w)
      <4>1. wpc[w] = "fin" /\ wpc'[w] = "done" BY <1>0, <3>2 DEF WDisconnect, Go
      <4>2. QED BY <1>1, <4>1 DEF Holds, InJob
    <3>3. QED BY <1>4, <3>1, <3>2
  <2>4. QED BY <1>1, <1>2, <1>3, <2>2, <2>3, KeptOrLost DEF Has
<1>5. CASE WRearm(w)
  <2>1. wpc[w] = "fin" /\ wpc'[w] = "done" /\ cpc' = cpc
    BY <1>0, <1>5 DEF WRearm, closev
  <2>2. ~Holds(w, o)'
    <3>1. cpc[w] = "idle" BY <2>1 DEF IInv, WorkerCloses
    <3>2. QED BY <2>1, <3>1 DEF Holds, InJob
  <2>3. job[w] \in Conns /\ sd[job[w]] \in Fds BY <2>1, JobDescriptor DEF IInv
  <2>4. Has(w, job[w]) BY <2>1 DEF Has, Holds, InJob
  <2>5. \A f \in Fds : f # sd[job[w]] => ep'[f] = ep[f]
    BY <1>0, <1>5 DEF WRearm
  <2>6. conn[sd[job[w]]] = job[w] /\ ~Armed(sd[job[w]])
    BY <2>1, <2>3, <2>4, HeldIsOwn DEF Has, Holds, InJob, IInv, WorkerCloses
  <2>7. CASE EpollHas(o)' <=> EpollHas(o)
    BY <1>1, <1>2, <1>3, <2>2, <2>7, KeptOrLost DEF Has
  <2>8. CASE ~(EpollHas(o)' <=> EpollHas(o))
    <3>1. o = job[w] /\ EpollHas(o)'
      BY <1>1, <2>3, <2>5, <2>6, <2>8 DEF EpollHas, Armed
    <3>2. Has(Epoll, o)' BY <3>1 DEF Has
    <3>3. QED BY <1>1, <2>4, <3>1, <3>2, HandedOver
  <2>9. QED BY <2>7, <2>8
<1>6. QED BY <1>4, <1>5

\* epoll reports connections to the main thread.
LEMMA MWaitLives ==
  ASSUME IInv, IInv', MWait, NEW o \in Conns
  PROVE  Lives(o)
<1> USE Names, OwnerNames
<1>1. UNCHANGED <<conn, heap, sd, mpc, msock, wpc, job, tst_socket, cpc, cfd, cobj>>
  BY DEF MWait, table, workv, closev
<1>2. PICK S \in SUBSET AllFds :
        /\ \A f \in S : Armed(f) /\ batch'[f] # {}
        /\ \A f \in AllFds \ S : batch'[f] = {}
        /\ ep' = Reported(S)
  <2>1. PICK S \in SUBSET {f \in AllFds : ReadyEvents(f) # {}} :
          /\ \A f \in AllFds :
               batch'[f] \in (IF f \in S THEN ReadyEvents(f) ELSE {{}})
          /\ ep' = Reported(S)
    BY DEF MWait
  <2>2. \A f \in S : Armed(f) /\ batch'[f] # {} BY <2>1 DEF ReadyEvents, Armed
  <2>3. QED BY <2>1, <2>2
<1>3. \A f \in Fds : (f \in S => ~Armed(f)') /\ (f \notin S => (Armed(f)' <=> Armed(f)))
  BY <1>2 DEF Reported, Armed
<1>4. \A w \in Workers : Holds(w, o)' <=> Holds(w, o) BY <1>1 DEF Holds, InJob
<1>5. CASE \E f \in Fds \cap S : conn[f] = o
  <2>1. Has(Epoll, o) BY <1>2, <1>5 DEF Has, EpollHas
  <2>2. Has(MainT, o)' BY <1>1, <1>2, <1>5 DEF Has, MainHas
  <2>3. QED BY <1>1, <2>1, <2>2, HandedOver
<1>6. CASE \A f \in Fds \cap S : conn[f] # o
  <2>1. MainHas(o)' => MainHas(o) BY <1>1, <1>2, <1>6 DEF MainHas, Closes
  <2>2. EpollHas(o)' <=> EpollHas(o) BY <1>1, <1>3, <1>6 DEF EpollHas
  <2>3. QED BY <1>1, <1>4, <2>1, <2>2, KeptOrLost DEF Has
<1>7. QED BY <1>5, <1>6

\* The main thread accepts a connection and registers it.
LEMMA MAcceptLives ==
  ASSUME IInv, IInv', NEW o \in Conns,
         MAdd \/ \E f \in Fds, c \in Conns : MAccept(f, c)
  PROVE  Lives(o)
<1> USE Names, OwnerNames
<1>1. CASE MAdd
  <2>1. /\ UNCHANGED <<conn, heap, ep, batch, msock, wpc, job, tst_socket, cpc, cfd, cobj>>
        /\ mpc = "add"
    BY <1>1 DEF MAdd, kernel, workv, closev
  <2>2. \A w \in Workers : Holds(w, o)' <=> Holds(w, o) BY <2>1 DEF Holds, InJob
  <2>3. MainHas(o)' => MainHas(o) BY <2>1 DEF MainHas, Closes
  <2>4. EpollHas(o)' <=> EpollHas(o) BY <2>1 DEF EpollHas, Armed
  <2>5. QED BY <2>1, <2>2, <2>3, <2>4, KeptOrLost DEF Has
<1>2. ASSUME NEW f \in Fds, NEW c \in Conns, MAccept(f, c) PROVE Lives(o)
  <2>1. conn[f] = None /\ heap[c] = "none" /\ mpc = "top" BY <1>2 DEF MAccept, AtTop
  <2>2. m_connect[f] = None /\ ~Armed(f) BY <2>1 DEF IInv, TableIsOpen, EventIsRegistered
  <2>3. /\ UNCHANGED <<ep, wpc, job, tst_socket, cpc, cfd, cobj>>
        /\ msock' = c /\ mpc' = "add"
        /\ conn' = [conn EXCEPT ![f] = c] /\ heap' = [heap EXCEPT ![c] = "live"]
        /\ \A g \in Fds : batch'[g] = batch[g]
    BY <1>2, <2>2 DEF MAccept, Handled, workv, closev, IInv, TypeOK, TypeMain
  <2>4. conn \in [Fds -> Conns \cup {None}] /\ heap \in [Conns -> {"none", "live", "freed"}]
    BY DEF IInv, TypeOK, TypeKernel, TypeTable
  <2>5. CASE o = c
    <3>1. heap[o] = "none" /\ heap'[o] = "live" BY <2>1, <2>3, <2>4, <2>5
    <3>2. OwnersOf(o) = {} BY <3>1, OnlyOwner DEF Alone, OwnersOf
    <3>3. Has(MainT, o)' BY <2>3, <2>5 DEF Has, MainHas
    <3>4. OwnersOf(o)' = {MainT} BY <3>3, OnlyOwnerThen DEF Alone
    <3>5. QED BY <3>1, <3>2, <3>4 DEF Lives, Abstract!Accept
  <2>6. CASE o # c
    <3>1. heap'[o] = heap[o] BY <2>3, <2>4, <2>6
    <3>2. \A g \in Fds : conn'[g] = o => conn[g] = o BY <2>3, <2>4, <2>6
    <3>3. \A g \in Fds : conn[g] = o => conn'[g] = o BY <2>1, <2>3, <2>4
    <3>4. \A w \in Workers : Holds(w, o)' <=> Holds(w, o) BY <2>3 DEF Holds, InJob
    <3>5. MainHas(o)' => MainHas(o) BY <2>3, <2>6, <3>2 DEF MainHas, Closes
    <3>6. EpollHas(o)' <=> EpollHas(o) BY <2>3, <3>2, <3>3 DEF EpollHas, Armed
    <3>7. QED BY <3>1, <3>4, <3>5, <3>6, KeptOrLost DEF Has
  <2>7. QED BY <2>5, <2>6
<1>3. QED BY <1>1, <1>2

\* The main thread admits the connection to epoll, or begins to close one.
LEMMA MAdmitLives ==
  ASSUME IInv, IInv', NEW o \in Conns, MAdmit \/ MRefuse \/ \E f \in Fds : MClose(f)
  PROVE  Lives(o)
<1> USE Names, OwnerNames
<1>0. /\ cpc \in [Threads -> ClosePcs] /\ cfd \in [Threads -> Fds \cup {None}]
      /\ ep \in [AllFds -> {"none", "off", "in", "inout"}]
      /\ batch \in [AllFds -> SUBSET Events]
      /\ mpc = "admit" => msock \in Conns /\ msock # None /\ sd[msock] \in Fds
  BY DEF IInv, TypeOK, TypeClose, TypeKernel, TypeMain, TypeTable, TypePointers
<1>1. /\ UNCHANGED <<conn, heap, sd, msock, wpc, job, tst_socket, cobj>>
      /\ \A t \in Threads : t # MainT => cpc'[t] = cpc[t] /\ cfd'[t] = cfd[t]
      /\ mpc' \in {"relisten", "top"}
  BY <1>0 DEF MAdmit, MRefuse, MClose, StartClose, AtHand, AtTop, kernel, table, workv, closev
<1>2. \A w \in Workers : Holds(w, o)' <=> Holds(w, o) BY <1>1 DEF Holds, InJob
<1>3. CASE MAdmit
  <2>1. mpc = "admit" /\ UNCHANGED <<batch, cpc, cfd>> BY <1>3 DEF MAdmit, closev
  <2>2. conn[sd[msock]] = msock /\ ~Armed(sd[msock]) BY <2>1 DEF IInv, MainOpens
  <2>3. /\ Armed(sd[msock])' /\ \A f \in Fds : f # sd[msock] => ep'[f] = ep[f]
    BY <1>0, <1>1, <1>3, <2>1, <2>2 DEF MAdmit, Armed
  <2>4. CASE o = msock
    <3>1. Has(MainT, o) BY <2>1, <2>4 DEF Has, MainHas
    <3>2. Has(Epoll, o)' BY <1>0, <1>1, <2>1, <2>2, <2>3, <2>4 DEF Has, EpollHas
    <3>3. QED BY <1>1, <3>1, <3>2, HandedOver
  <2>5. CASE o # msock
    <3>1. MainHas(o)' => MainHas(o) BY <1>1, <2>1 DEF MainHas, Closes
    <3>2. EpollHas(o)' <=> EpollHas(o) BY <1>1, <2>2, <2>3, <2>5 DEF EpollHas, Armed
    <3>3. QED BY <1>1, <1>2, <3>1, <3>2, KeptOrLost DEF Has
  <2>6. QED BY <2>4, <2>5
<1>4. ASSUME NEW f \in Fds, StartClose(MainT, f), ep' = ep, MainHas(conn[f]),
             \A g \in Fds : batch'[g] \in {batch[g], {}}
      PROVE  Lives(o)
  <2>1. \A t \in Threads, g \in Fds : Closes(t, g)' =>
          Closes(t, g) \/ (t = MainT /\ g = f)
    BY <1>0, <1>4 DEF StartClose, Closes
  <2>2. cpc'[MainT] # "delete" BY <1>0, <1>4 DEF StartClose
  <2>3. MainHas(o)' => MainHas(o) BY <1>1, <1>4, <2>1, <2>2 DEF MainHas
  <2>4. EpollHas(o)' <=> EpollHas(o) BY <1>1, <1>4 DEF EpollHas, Armed
  <2>5. QED BY <1>1, <1>2, <2>3, <2>4, KeptOrLost DEF Has
<1>5. CASE MRefuse
  <2>1. mpc = "admit" BY <1>5 DEF MRefuse
  <2>2. MainHas(conn[sd[msock]]) BY <2>1 DEF IInv, MainOpens, MainHas
  <2>3. StartClose(MainT, sd[msock]) /\ ep' = ep /\ batch' = batch
    BY <1>5 DEF MRefuse, kernel
  <2>4. QED BY <1>0, <1>4, <2>1, <2>2, <2>3
<1>6. ASSUME NEW f \in Fds, MClose(f) PROVE Lives(o)
  <2>1. MainHas(conn[f]) BY <1>6 DEF MClose, AtHand, MainHas
  <2>2. StartClose(MainT, f) /\ ep' = ep /\ batch' = Handled(f)
    BY <1>6 DEF MClose, kernel
  <2>3. QED BY <1>0, <1>4, <2>1, <2>2 DEF Handled
<1>7. QED BY <1>3, <1>5, <1>6

\* The main thread gives a connection to a worker, which forgets another it was given.
LEMMA MAssignLives ==
  ASSUME IInv, IInv', NEW o \in Conns, MAssign
  PROVE  Lives(o)
<1> USE Names, OwnerNames
<1>1. mpc = "assign" /\ mi \in Workers /\ msock \in Conns /\ cur \in Fds
  BY DEF MAssign, IInv, TypeOK, TypeMain
<1>2. batch[cur] # {} /\ conn[cur] = msock
  <2>1. batch[cur] # {} /\ msock = m_connect[cur] BY <1>1 DEF IInv, MainDispatches
  <2>2. QED BY <1>1, <2>1, BatchedIsFree
<1>3. /\ UNCHANGED <<conn, heap, ep, job, cpc, cfd, cobj>> /\ mpc' = "top"
      /\ \A f \in Fds : batch'[f] \in {batch[f], {}}
      /\ \A w \in Workers : wpc'[w] = wpc[w] \/ (wpc[w] = "wait" /\ wpc'[w] = "reacq")
      /\ \A w \in Workers : w # mi => tst_socket'[w] = tst_socket[w]
      /\ tst_socket'[mi] = msock
  BY <1>1
  DEF MAssign, Signal, Handled, kernel, table, closev, IInv, TypeOK, TypeWorkers, TypeMain
<1>4. MainHas(o)' => MainHas(o) BY <1>3 DEF MainHas, Closes
<1>5. EpollHas(o)' <=> EpollHas(o) BY <1>3 DEF EpollHas, Armed
<1>6. \A w \in Workers : Holds(w, o)' => Holds(w, o) \/ (w = mi /\ o = msock)
  BY <1>1, <1>3 DEF Holds, InJob
<1>7. CASE \A w \in Workers : Holds(w, o)' => Holds(w, o)
  BY <1>3, <1>4, <1>5, <1>7, KeptOrLost DEF Has
<1>8. ASSUME NEW w \in Workers, o = msock, Holds(w, o)' PROVE Lives(o)
  <2>1. Has(MainT, o) BY <1>1, <1>2, <1>8 DEF Has, MainHas
  <2>2. Has(w, o)' BY <1>8 DEF Has
  <2>3. QED BY <1>3, <2>1, <2>2, HandedOver
<1>9. QED BY <1>6, <1>7, <1>8

\* Every step of the pool is a step of each connection's life, or none.
LEMMA NextLives ==
  ASSUME IInv, IInv', [CoreNext]_vars, NEW o \in Conns
  PROVE  Lives(o)
<1>1. CASE Peers \/ UNCHANGED vars BY <1>1, PeersAside, AsideLives
<1>2. CASE crash = "none" /\ Main
  BY <1>2, Names, MainAside, AsideLives, MWaitLives, MAcceptLives, MAdmitLives,
     MAssignLives, CloseLives
  DEF Main
<1>3. ASSUME crash = "none", NEW w \in Workers, Worker(w) PROVE Lives(o)
  BY <1>3, Names, OutsideAside, JobAside, AsideLives, WorkerLives, CloseLives
  DEF Worker, Work
<1>4. QED BY <1>1, <1>2, <1>3 DEF CoreNext, Halted

\* The pool of tst.cpp (198-234, 258-300, 367-403, 634-670, 896-947) implements
\* Connections, for every number of workers, descriptors and connections: however its
\* threads interleave, a connection has one owner at most, goes from epoll to the main
\* thread to a worker and back, and is deleted once, by a thread that owns it.
THEOREM Implements == CoreSpec => ConnectionsLive
<1>1. Init => Abstract!Init
  <2> SUFFICES ASSUME Init PROVE Abstract!Init
    OBVIOUS
  <2>1. IInv BY InitInv
  <2>2. heap = [o \in Conns |-> "none"] BY DEF Init
  <2>3. \A o \in Conns : OwnersOf(o) = {} BY <2>1, <2>2, OnlyOwner DEF Alone, OwnersOf
  <2>4. QED BY <2>2, <2>3 DEF Abstract!Init
<1>2. IInv /\ IInv' /\ [CoreNext]_vars
        => [Abstract!Next]_(Abstract!cvars)
  <2> SUFFICES ASSUME IInv, IInv', [CoreNext]_vars PROVE Abstract!Next
    OBVIOUS
  <2>1. heap' \in [Conns -> {"none", "live", "freed"}] BY DEF IInv, TypeOK, TypeTable
  <2>2. [o \in Conns |-> OwnersOf(o)]' \in [Conns -> SUBSET Abstract!Owners]
    BY OwnerNames DEF OwnersOf
  <2>3. QED BY <2>1, <2>2, NextLives DEF Abstract!Next, Lives
<1>3. QED BY <1>1, <1>2, Inductive, PTL DEF CoreSpec, ConnectionsLive, Abstract!Spec

----------------------------------------------------------------------------
(* With destroy().                                                             *)

\* No step of the pool itself changes how far destroy() has come.
LEMMA DpcStays == [CoreNext]_vars => dpc' = dpc
<1> SUFFICES ASSUME [CoreNext]_vars PROVE dpc' = dpc
  OBVIOUS
<1> USE DEF flags
<1>1. ASSUME NEW t \in Threads, CloseStep(t) PROVE dpc' = dpc
  BY <1>1 DEF CloseStep, CsFind, CsErase, CsClose, CsDelete
<1>2. CASE Main
  <2>1. CASE MStart \/ MWait \/ MAcceptFail \/ MAdd \/ MAdmit \/ MRefuse \/ MRelisten
    BY <2>1 DEF MStart, MWait, MAcceptFail, MAdd, MAdmit, MRefuse, MRelisten
  <2>2. CASE \/ MListenErr \/ MScan \/ MLock \/ MAssign \/ MStop \/ MStopWorker \/ MCancel
             \/ MExit
    BY <2>2 DEF MListenErr, MScan, MLock, MAssign, MStop, MStopWorker, MCancel, MExit
  <2>3. CASE \E f \in Fds : MClose(f) \/ MFind(f) \/ \E o \in Conns : MAccept(f, o)
    BY <2>3 DEF MClose, MFind, MAccept
  <2>4. CASE \E w \in Workers : MSeen(w) BY <2>4 DEF MSeen
  <2>5. CASE CloseStep(MainT) BY <1>1, <2>5, Names
  <2>6. QED BY <1>2, <2>1, <2>2, <2>3, <2>4, <2>5 DEF Main
<1>3. ASSUME NEW w \in Workers, Worker(w) PROVE dpc' = dpc
  <2> USE DEF Move, SetStat
  <2>1. CASE WTop(w) \/ WStat(w) \/ WWait(w) \/ WWaitError(w) \/ WTimeout(w) \/ WAwake(w)
    BY <2>1 DEF WTop, WStat, WWait, WWaitError, WTimeout, WAwake
  <2>2. CASE WTake(w) \/ WNotRun(w) \/ WBranch(w) \/ WRun(w)
    BY <2>2 DEF WTake, WNotRun, WBranch, WRun
  <2>3. CASE WDisconnect(w) \/ WRearm(w) \/ WDone(w)
    BY <2>3 DEF WDisconnect, WRearm, WDone
  <2>4. CASE WIdle(w) \/ WIdled(w) \/ WOdd(w) \/ WLeave(w) \/ WEnd(w) \/ WCancelled(w)
             \/ WFreed(w)
    BY <2>4 DEF WIdle, WIdled, WOdd, WLeave, WEnd, WCancelled, WFreed
  <2>5. CASE CloseStep(w) BY <1>1, <2>5, Names
  <2>6. QED BY <1>3, <2>1, <2>2, <2>3, <2>4, <2>5 DEF Worker, Work
<1>4. CASE Peers \/ UNCHANGED vars BY <1>4 DEF Peers, Peer, vars
<1>5. QED BY <1>2, <1>3, <1>4 DEF CoreNext, Halted

\* A step that accesses a record which is live, or the null pointer, is no use after free.
LEMMA AccessLive ==
  ASSUME crash = "none", NEW o, o # None => heap[o] = "live"
  PROVE  Access(o) \in {"none", "null pointer"}
BY DEF Access

\* The pool itself uses and deletes live records only; what it uses after it was freed
\* is m_workers.
LEMMA FreedStaysUnused ==
  ASSUME IInv, FreedIsUnused, [CoreNext]_vars
  PROVE  FreedIsUnused'
<1> USE Names DEF FreedIsUnused
<1>0. /\ IInv /\ TypeOK
      /\ \A w \in Workers, o \in Conns : Holds(w, o) => heap[o] = "live"
  BY DEF IInv, HeldIsSilent
<1>1. CASE UNCHANGED vars BY <1>1 DEF vars, flags, mainv
<1>2. CASE crash = "none" /\ crash' \in {"none", "null pointer", "wild lookup"} BY <1>2
<1>3. ASSUME crash = "none", NEW t \in Threads, CloseStep(t) PROVE FreedIsUnused'
  <2>1. crash' = "none"
    BY <1>0, <1>3
    DEF CloseStep, CsFind, CsErase, CsClose, CsDelete, flags, IInv, CloseStages
  <2>2. QED BY <2>1
<1>4. ASSUME crash = "none", Main PROVE FreedIsUnused'
  <2>1. CASE MAssign
    <3>1. /\ mpc = "assign" /\ msock \in Conns /\ cur \in Fds /\ crash' = Access(msock)
          /\ batch[cur] # {} /\ msock = m_connect[cur]
      BY <1>0, <2>1 DEF MAssign, IInv, MainDispatches, TypeOK, TypeMain
    <3>2. heap[msock] = "live" BY <1>0, <3>1, BatchedIsFree
    <3>3. QED BY <1>2, <1>4, <3>1, <3>2, AccessLive
  <2>2. ASSUME NEW f \in Fds, MFind(f) PROVE FreedIsUnused'
    BY <1>2, <1>4, <2>2 DEF MFind
  <2>3. CASE CloseStep(MainT) BY <1>3, <1>4, <2>3
  <2>4. CASE ~MAssign /\ ~CloseStep(MainT) /\ \A f \in Fds : ~MFind(f)
    <3>1. crash' = "none"
      BY <1>4, <2>4
      DEF Main, MStart, MWait, MAcceptFail, MAdd, MAdmit, MRefuse, MRelisten, MListenErr,
          MScan, MLock, MStop, MStopWorker, MCancel, MExit, MClose, MAccept, MSeen, flags
    <3>2. QED BY <3>1
  <2>5. QED BY <2>1, <2>2, <2>3, <2>4
<1>5. ASSUME crash = "none", NEW w \in Workers, Worker(w) PROVE FreedIsUnused'
  <2>1. CASE WTake(w)
    <3>1. wpc[w] = "check" /\ crash' = Access(tst_socket[w]) BY <2>1 DEF WTake, Go
    <3>2. tst_socket[w] # None => heap[tst_socket[w]] = "live"
      BY <1>0, <3>1 DEF Holds, TypeOK, TypeWorkers
    <3>3. QED BY <1>2, <1>5, <3>1, <3>2, AccessLive
  <2>2. CASE WRun(w) \/ WDisconnect(w) \/ WRearm(w)
    <3>1. wpc[w] \in {"run", "fin"} /\ crash' = Access(job[w])
      BY <2>2 DEF WRun, WDisconnect, WRearm, Go
    <3>2. job[w] # None => heap[job[w]] = "live"
      BY <1>0, <3>1 DEF Holds, InJob, TypeOK, TypeWorkers
    <3>3. QED BY <1>2, <1>5, <3>1, <3>2, AccessLive
  <2>3. CASE WFreed(w) BY <2>3 DEF WFreed, mainv
  <2>4. CASE CloseStep(w) BY <1>3, <1>5, <2>4
  <2>5. CASE ~(WTake(w) \/ WRun(w) \/ WDisconnect(w) \/ WRearm(w) \/ WFreed(w) \/ CloseStep(w))
    <3>1. crash' = "none"
      BY <1>5, <2>5
      DEF Worker, Work, WTop, WStat, WWait, WWaitError, WTimeout, WAwake, WNotRun, WBranch,
          WDone, WIdle, WIdled, WOdd, WLeave, WEnd, WCancelled, Move, SetStat, flags
    <3>2. QED BY <3>1
  <2>6. QED BY <2>1, <2>2, <2>3, <2>4, <2>5
<1>6. CASE crash = "none" /\ Peers
  <2>1. crash' = "none" BY <1>6 DEF Peers, Peer, flags
  <2>2. QED BY <2>1
<1>7. QED BY <1>1, <1>4, <1>5, <1>6 DEF CoreNext, Halted

\* destroy() waits for the main thread, which waits for its workers for a while, cancels
\* them and frees m_workers (tst.cpp 408-485, 804-815).  Until the final walk over m_connect,
\* which does not look whether a worker still has one of the records, the hand-over goes on
\* as before, whatever has been cancelled, and nobody uses a record that is deleted.  Not so
\* m_workers itself: a worker that still runs when it is freed uses its entry.
THEOREM OwnedUntilDestroyed == PoolSpec => []HandoverLasts
<1> USE DEF HandoverLasts
<1>1. Init => HandoverLasts BY InitInv DEF Init, FreedIsUnused
<1>2. HandoverLasts /\ [CoreNext \/ (crash = "none" /\ DestroyCall)]_vars => HandoverLasts'
  <2> SUFFICES ASSUME dpc # "done" => IInv /\ FreedIsUnused,
                      [CoreNext \/ (crash = "none" /\ DestroyCall)]_vars
               PROVE  dpc' # "done" => IInv' /\ FreedIsUnused'
    OBVIOUS
  <2>1. CASE [CoreNext]_vars BY <2>1, NextInv, DpcStays, FreedStaysUnused
  <2>2. CASE DBegin
    <3>1. IInv /\ TypeOK BY <2>2 DEF DBegin, IInv
    <3>2. UNCHANGED <<kernel, table, mainv, workv, closev>> /\ UNCHANGED crash
          /\ m_main_run' \in BOOLEAN /\ m_work_run' = m_work_run /\ dpc' = "join"
      BY <2>2 DEF DBegin
    <3>3. TypeOK'
      <4>1. TypeFlags' BY <3>1, <3>2 DEF TypeOK, TypeFlags
      <4>2. TypePointers'
        BY <3>1, <3>2 DEF TypeOK, TypePointers, table, mainv, workv, closev
      <4>3. QED BY <3>1, <3>2, <4>1, <4>2, Frame DEF TypeOK
    <3>4. Aside BY <3>2 DEF Aside, kernel, table, mainv, workv, closev, Holds, InJob
    <3>5. FreedIsUnused' BY <2>2, <3>2 DEF DBegin, FreedIsUnused, mainv
    <3>6. QED BY <3>1, <3>3, <3>4, <3>5, StepAside
  <2>3. CASE DClean BY <2>3 DEF DClean
  <2>4. QED BY <2>1, <2>2, <2>3 DEF DestroyCall
<1>3. QED BY <1>1, <1>2, PTL DEF PoolSpec
=============================================================================
