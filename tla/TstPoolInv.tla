----------------------------- MODULE TstPoolInv -----------------------------
(* The inductive invariant of the pool left to itself (CoreSpec), and what it *)
(* implements: the life of a connection in Connections.                       *)
EXTENDS TstPoolProps

\* The thread t is closing the descriptor f and has not closed it yet.
Closes(t, f) == cpc[t] \in {"lock", "erase", "close"} /\ cfd[t] = f

\* An open descriptor refers to a live record that knows its descriptor.
ConnIsLive ==
  \A f \in Fds : conn[f] # None => heap[conn[f]] = "live" /\ sd[conn[f]] = f

\* A registered record is the one of the connection behind the descriptor.
TableIsOpen == \A f \in Fds : m_connect[f] # None => conn[f] = m_connect[f]

\* An open descriptor that is not registered is being opened or closed.
OpenIsKnown ==
  \A f \in Fds : conn[f] # None =>
    \/ m_connect[f] = conn[f]
    \/ mpc = "add" /\ msock = conn[f]
    \/ \E t \in Threads : cpc[t] = "close" /\ cfd[t] = f
    \/ mpc \in {"cancel", "exit"}

\* A descriptor with epoll or in the batch is registered and nobody closes it.
EventIsRegistered ==
  \A f \in Fds : Armed(f) \/ batch[f] # {} =>
    m_connect[f] # None /\ \A t \in Threads : ~Closes(t, f)

ArmedNotBatched == \A f \in Fds : Armed(f) => batch[f] = {}

\* A record a worker has is live; until the worker erases it, it is registered
\* and its descriptor raises no event.
HeldIsSilent ==
  \A w \in Workers, o \in Conns : Holds(w, o) =>
    /\ heap[o] = "live"
    /\ cpc[w] \in {"idle", "lock", "erase"} =>
         m_connect[sd[o]] = o /\ ~Armed(sd[o]) /\ batch[sd[o]] = {}

\* A worker closes the connection of the job it has just done.
WorkerCloses ==
  \A w \in Workers : cpc[w] # "idle" =>
    /\ wpc[w] = "done" /\ job[w] # None /\ cfd[w] = sd[job[w]]
    /\ cpc[w] # "lock" => cobj[w] = job[w]

\* The stages of closesocket.
CloseStages ==
  \A t \in Threads :
    /\ cpc[t] \in {"lock", "erase"} => m_connect[cfd[t]] # None
    /\ cpc[t] = "erase" => cobj[t] = m_connect[cfd[t]]
    /\ cpc[t] = "close" => /\ cobj[t] # None
                           /\ m_connect[cfd[t]] = None /\ conn[cfd[t]] = cobj[t]
    /\ cpc[t] = "delete" => /\ cobj[t] # None /\ heap[cobj[t]] = "live"
                            /\ \A f \in Fds : conn[f] # cobj[t]

\* No two threads close the same descriptor or delete the same record.
ClosersDiffer ==
  \A t, u \in Threads : t # u =>
    /\ \A f \in Fds : ~(Closes(t, f) /\ Closes(u, f))
    /\ cpc[t] = "delete" /\ cpc[u] = "delete" => cobj[t] # cobj[u]

\* The main thread closes no record that a worker has.
MainCloses ==
  /\ cpc[MainT] # "idle" => mpc \in {"top", "relisten"}
  /\ \A w \in Workers, o \in Conns : Holds(w, o) =>
       /\ \A f \in Fds : Closes(MainT, f) => conn[f] # o
       /\ cpc[MainT] = "delete" => cobj[MainT] # o

\* The connection being accepted is with the main thread alone.
MainOpens ==
  mpc \in {"add", "admit"} =>
    /\ conn[sd[msock]] = msock
    /\ m_connect[sd[msock]] = IF mpc = "add" THEN None ELSE msock
    /\ ~Armed(sd[msock]) /\ batch[sd[msock]] = {}
    /\ \A t \in Threads : ~Closes(t, sd[msock])
    /\ \A w \in Workers : ~Holds(w, msock)

\* The record being dispatched is the registered one, its event still unhandled.
MainDispatches ==
  mpc \in {"scan", "lock", "assign"} => batch[cur] # {} /\ msock = m_connect[cur]

NoUserClose == cpc[UserT] = "idle"

\* No record is deleted twice or used after it has been deleted: memory that is used
\* after its release is m_workers, which the main thread has freed at its end.
FreedIsUnused == crash # "double free" /\ (crash = "use after free" => mpc = "exit")

IInv ==
  /\ TypeOK
  /\ ConnIsLive /\ TableIsOpen /\ OpenIsKnown
  /\ EventIsRegistered /\ ArmedNotBatched
  /\ HeldIsSilent /\ OneWorker
  /\ WorkerCloses /\ CloseStages /\ ClosersDiffer
  /\ MainCloses /\ MainOpens /\ MainDispatches
  /\ NoUserClose

\* The hand-over goes on as before while destroy() waits for the main thread and the main
\* thread for its workers, whatever is cancelled, until destroy() deletes the records
\* without a look at who has one (tst.cpp 408-485, 804-860).
HandoverLasts == dpc # "done" => IInv /\ FreedIsUnused

----------------------------------------------------------------------------
(* The refinement mapping.                                                    *)

\* The kernel as an owner, next to the threads.
Epoll == -1

EpollHas(o) == \E f \in Fds : conn[f] = o /\ Armed(f)

\* The main thread accepts it, has an event of it in its batch, or closes it.
MainHas(o) ==
  \/ \E f \in Fds : conn[f] = o /\ (batch[f] # {} \/ Closes(MainT, f))
  \/ mpc \in {"add", "admit"} /\ msock = o
  \/ cpc[MainT] = "delete" /\ cobj[MainT] = o

Has(p, o) ==
  \/ p \in Workers /\ Holds(p, o)
  \/ p = MainT /\ MainHas(o)
  \/ p = Epoll /\ EpollHas(o)

OwnersOf(o) == {p \in Workers \cup {MainT, Epoll} : Has(p, o)}

Abstract == INSTANCE Connections
              WITH record <- heap, owners <- [o \in Conns |-> OwnersOf(o)]

\* Whatever the threads do and in whatever order, a connection of the pool left to
\* itself lives as Connections says: it has one owner at most, goes from epoll to the
\* main thread to a worker and back, and is deleted by a thread that owns it (README 42,
\* tst.cpp 198-234, 385-403, 634-670, 896-947).
ConnectionsLive == Abstract!Spec
=============================================================================
