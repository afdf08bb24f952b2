---------------------------- MODULE Connections ----------------------------
(* What the pool of tst/tst.cpp does with a connection, without its table,    *)
(* its mutexes and its signals: the record of a connection is always with one *)
(* owner at most, a thread or the kernel, and goes from hand to hand.         *)
EXTENDS Integers

CONSTANTS
  Conns,      \* the connections, and their TST_SOCKET records
  Workers,    \* the worker threads
  MainT,      \* the main thread
  Epoll       \* epoll, in which a connection waits for an event

Owners == Workers \cup {MainT, Epoll}

\* epoll reports to the main thread, which gives the connection to a worker, or to
\* epoll when it has admitted it; a worker gives it back to epoll.
Handovers ==
  ({MainT} \X (Workers \cup {Epoll})) \cup (Workers \X {Epoll}) \cup {<<Epoll, MainT>>}

VARIABLES
  record,     \* Conns -> the TST_SOCKET: "none", "live", "freed"
  owners      \* Conns -> who may work on it: nobody, or one of Owners

cvars == <<record, owners>>

Init ==
  /\ record = [o \in Conns |-> "none"]
  /\ owners = [o \in Conns |-> {}]

\* accept().
Accept(o) ==
  /\ record[o] = "none" /\ owners[o] = {}
  /\ record'[o] = "live" /\ owners'[o] = {MainT}

HandOver(o) ==
  /\ record[o] = "live" /\ record'[o] = "live"
  /\ \E h \in Handovers : owners[o] = {h[1]} /\ owners'[o] = {h[2]}

\* closesocket, by the thread that has the connection; never while epoll has it.
Delete(o) ==
  /\ record[o] = "live" /\ record'[o] = "freed"
  /\ \E t \in Workers \cup {MainT} : owners[o] = {t}
  /\ owners'[o] = {}

\* The worker it was given to never takes it, or is cancelled: it stays open, and no
\* thread will ever work on it again.
Lose(o) ==
  /\ record[o] = "live" /\ record'[o] = "live"
  /\ \E t \in Workers \cup {MainT} : owners[o] = {t}
  /\ owners'[o] = {}

Keep(o) == record'[o] = record[o] /\ owners'[o] = owners[o]

\* One step of the pool may concern several connections: epoll_wait reports some, and a
\* worker that ends its job forgets the next one it was given meanwhile.
Next ==
  /\ record' \in [Conns -> {"none", "live", "freed"}]
  /\ owners' \in [Conns -> SUBSET Owners]
  /\ \A o \in Conns : Keep(o) \/ Accept(o) \/ HandOver(o) \/ Delete(o) \/ Lose(o)

Spec == Init /\ [][Next]_cvars
=============================================================================
