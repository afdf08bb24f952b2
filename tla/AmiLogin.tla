------------------------------ MODULE AmiLogin ------------------------------
(* The life of ami_socket, amiproc's connection to Asterisk: main() asks for a *)
(* login whenever there is no connection (amiproc.cpp), amiLogin runs in a     *)
(* thread of the AsyncThreadPool (amiaction.cpp), the pool closes a connection *)
(* that has been lost and calls my_disconnected, and some other thread sends   *)
(* actions with ami_async or ami_sync, of which this module has the accesses   *)
(* to ami_socket (AmiSync has the rest).                                       *)
(*                                                                             *)
(* A step is the code between two accesses to ami_socket or to the record it   *)
(* points to.  Records and descriptors are numbered; none is used again.       *)
EXTENDS Integers, FiniteSets

CONSTANTS
  Atps,       \* the threads of the AsyncThreadPool that run amiLogin
  MaxRecs,    \* bound: the records allocated in one behaviour
  MaxQueue,   \* bound: the login requests in the queue
  MaxFds,     \* the descriptors the process may have open for Asterisk
  MaxFails,   \* bound: the logins Asterisk or the network lets fail
  MaxLosses   \* bound: the connections that are lost

ASSUME LoginConstants ==
  /\ IsFiniteSet(Atps) /\ Atps # {}
  /\ {MaxRecs, MaxQueue, MaxFds} \subseteq Nat \ {0}
  /\ {MaxFails, MaxLosses} \subseteq Nat

Null == 0
Recs == 1..MaxRecs
Pointers == {Null} \cup Recs

VARIABLES
  ami_socket,
  heap,         \* Recs -> "none", "live", "deleted"
  sd,           \* Recs -> TST_SOCKET::sd, or Null
  client,       \* the records whose type is sock_client
  manage,       \* the records that have their AMI_MANAGE, user_data
  registered,   \* descriptor -> the record in m_connect, or Null
  open, armed,  \* the descriptors that are open, that epoll reports
  queue,        \* login requests not taken yet
  \* the threads of the AsyncThreadPool
  pc, lsd,      \* the program counter, the local variable sd
  data,         \* the record rdata and sdata refer to
  \* the main thread of the tstpool in closesocket
  cpc, cfd, cobj,
  \* a thread that sends actions
  upc, this,    \* `this' is the record whose AMI_MANAGE it has
  \* what has happened so far
  fails, lost,  \* failed logins, lost connections
  crash,        \* "none", or who has accessed a null or a deleted record
  twice,        \* two logins have passed the test of ami_socket
  early,        \* a connection was lost before its login had returned
  crossed       \* a login or a close has overlapped the call of ami_async

record == <<heap, sd, client, manage>>
kernel == <<registered, open, armed>>
atp    == <<pc, lsd, data>>
close  == <<cpc, cfd, cobj>>
user   == <<upc, this>>
ghosts == <<fails, lost, crash, twice, early, crossed>>
vars   == <<ami_socket, record, kernel, queue, atp, close, user, ghosts>>

Init ==
  /\ ami_socket = Null
  /\ heap = [o \in Recs |-> "none"] /\ sd = [o \in Recs |-> Null]
  /\ client = {} /\ manage = {}
  /\ registered = [f \in Recs |-> Null] /\ open = {} /\ armed = {}
  /\ queue = 0
  /\ pc = [t \in Atps |-> "idle"] /\ lsd = [t \in Atps |-> Null]
  /\ data = [t \in Atps |-> Null]
  /\ cpc = "idle" /\ cfd = Null /\ cobj = Null
  /\ upc = "idle" /\ this = Null
  /\ fails = 0 /\ lost = {} /\ crash = "none"
  /\ twice = FALSE /\ early = FALSE /\ crossed = FALSE

Live(o) == o # Null /\ heap[o] = "live"

\* The thread `who' accesses the record o.
Access(who, o) == crash' = IF Live(o) THEN crash ELSE who

----------------------------------------------------------------------------
(* main(): a request every three seconds while ami_socket is NULL.             *)

Request ==
  /\ ami_socket = Null /\ queue < MaxQueue
  /\ queue' = queue + 1
  /\ UNCHANGED <<ami_socket, record, kernel, atp, close, user, ghosts>>

----------------------------------------------------------------------------
(* amiLogin, in the thread t.                                                  *)

\* The threads that have passed the test of ami_socket and have not returned.
InLogin == {t \in Atps : pc[t] # "idle"}

Goto(t, from, to) == pc[t] = from /\ pc' = [pc EXCEPT ![t] = to]

\* Nothing but the pc and the local variables of t changes.
Local == UNCHANGED <<ami_socket, record, kernel, queue, close, user>>

\* if (ami_socket) return
LSkip(t) ==
  /\ pc[t] = "idle" /\ queue > 0 /\ ami_socket # Null
  /\ queue' = queue - 1
  /\ UNCHANGED <<ami_socket, record, kernel, atp, close, user, ghosts>>

\* Variation: ami_socket is not tested.
LCheckNot(t) ==
  /\ queue > 0 /\ queue' = queue - 1
  /\ Goto(t, "idle", "new")
  /\ twice' = (twice \/ InLogin # {})
  /\ UNCHANGED <<ami_socket, record, kernel, lsd, data, close, user, fails, lost, crash,
                 early, crossed>>

LCheck(t) ==
  /\ queue > 0 /\ ami_socket = Null /\ queue' = queue - 1
  /\ Goto(t, "idle", "new")
  /\ twice' = (twice \/ InLogin # {})
  /\ UNCHANGED <<ami_socket, record, kernel, lsd, data, close, user, fails, lost, crash,
                 early, crossed>>

\* ami_socket = new TST_SOCKET: the others are to see that a login has begun.
LNew(t) ==
  /\ Goto(t, "new", "connect")
  /\ \E o \in Recs :
       /\ heap[o] = "none" /\ \A p \in Recs : heap[p] = "none" => o <= p
       /\ heap' = [heap EXCEPT ![o] = "live"]
       /\ ami_socket' = o
  /\ crossed' = (crossed \/ upc # "idle")
  /\ UNCHANGED <<sd, client, manage, kernel, queue, lsd, data, close, user, fails, lost,
                 crash, twice, early>>

\* tcp_connect gives a new descriptor.
LConnect(t) ==
  /\ Goto(t, "connect", "greeting")
  /\ Cardinality(open) < MaxFds
  /\ \E f \in Recs \ (open \cup lost) :
       /\ \A g \in Recs \ (open \cup lost) : f <= g
       /\ open' = open \cup {f} /\ lsd' = [lsd EXCEPT ![t] = f]
  /\ UNCHANGED <<ami_socket, record, registered, armed, queue, data, close, user, ghosts>>

\* It fails: Asterisk is down, or there is no descriptor left.
LNoConnect(t) ==
  /\ Goto(t, "connect", "fail")
  /\ IF Cardinality(open) = MaxFds THEN UNCHANGED fails
     ELSE fails < MaxFails /\ fails' = fails + 1
  /\ Local /\ UNCHANGED <<lsd, data, lost, crash, twice, early, crossed>>

\* select: something has arrived within five seconds.  ami_socket gets its sd and
\* its type.
LIdentify(t) ==
  /\ Goto(t, "greeting", "manage")
  /\ Access("login", ami_socket)
  /\ IF ~Live(ami_socket) THEN UNCHANGED <<sd, client>>
     ELSE /\ sd' = [sd EXCEPT ![ami_socket] = lsd[t]]
          /\ client' = client \cup {ami_socket}
  /\ UNCHANGED <<ami_socket, heap, manage, kernel, queue, lsd, data, close, user, fails,
                 lost, twice, early, crossed>>

\* Variation: user_data is not given.
LManageNot(t) ==
  /\ Goto(t, "manage", "banner")
  /\ data' = [data EXCEPT ![t] = ami_socket]
  /\ Local /\ UNCHANGED <<lsd, ghosts>>

\* Its func, its user_data and the references into it.
LManage(t) ==
  /\ Goto(t, "manage", "banner")
  /\ Access("login", ami_socket)
  /\ manage' = IF Live(ami_socket) THEN manage \cup {ami_socket} ELSE manage
  /\ data' = [data EXCEPT ![t] = ami_socket]
  /\ UNCHANGED <<ami_socket, heap, sd, client, kernel, queue, lsd, close, user, fails, lost,
                 twice, early, crossed>>

\* The banner is Asterisk's: the login action is written.
LBanner(t) ==
  /\ Goto(t, "banner", "answer")
  /\ Access("login", data[t])
  /\ Local /\ UNCHANGED <<lsd, data, fails, lost, twice, early, crossed>>

\* Response: Success
LAnswer(t) ==
  /\ Goto(t, "answer", "add")
  /\ Access("login", data[t])
  /\ Local /\ UNCHANGED <<lsd, data, fails, lost, twice, early, crossed>>

\* Nothing in time, another banner, a write that fails, no response or a refusal.
LReject(t) ==
  /\ pc[t] \in {"greeting", "banner", "answer"} /\ Goto(t, pc[t], "fail")
  /\ fails < MaxFails /\ fails' = fails + 1
  /\ Local /\ UNCHANGED <<lsd, data, lost, crash, twice, early, crossed>>

\* 22 bytes or more that do not end in \r\n, and then nothing: the loop has no exit.
LSpin(t) ==
  /\ Goto(t, "answer", "spin")
  /\ fails < MaxFails /\ fails' = fails + 1
  /\ Local /\ UNCHANGED <<lsd, data, lost, crash, twice, early, crossed>>

\* delete ami_socket.  The descriptor stays open.
LDelete(t) ==
  /\ Goto(t, "fail", "null")
  /\ IF ami_socket = Null THEN UNCHANGED <<heap, crash>>
     ELSE Access("login", ami_socket) /\ heap' = [heap EXCEPT ![ami_socket] = "deleted"]
  /\ UNCHANGED <<ami_socket, sd, client, manage, kernel, queue, lsd, data, close, user,
                 fails, lost, twice, early, crossed>>

\* Thread t returns.
Return(t, from) ==
  /\ Goto(t, from, "idle")
  /\ lsd' = [lsd EXCEPT ![t] = Null] /\ data' = [data EXCEPT ![t] = Null]

\* Variation: ami_socket keeps the address.
LNullNot(t) ==
  /\ Return(t, "null")
  /\ UNCHANGED <<ami_socket, record, kernel, queue, close, user, ghosts>>

\* ami_socket = NULL, return.
LNull(t) ==
  /\ Return(t, "null")
  /\ ami_socket' = Null
  /\ UNCHANGED <<record, kernel, queue, close, user, ghosts>>

\* Variation: the socket is not registered.
LAddNot(t) ==
  /\ Goto(t, "add", "epoll")
  /\ Local /\ UNCHANGED <<lsd, data, ghosts>>

\* addsocket(ami_socket)
LAdd(t) ==
  /\ Goto(t, "add", "epoll")
  /\ Access("login", ami_socket)
  /\ registered' = IF ~Live(ami_socket) \/ sd[ami_socket] = Null THEN registered
                   ELSE [registered EXCEPT ![sd[ami_socket]] = ami_socket]
  /\ UNCHANGED <<ami_socket, record, open, armed, queue, lsd, data, close, user, fails, lost,
                 twice, early, crossed>>

\* EPOLL_CTL_ADD
LEpoll(t) ==
  /\ Goto(t, "epoll", "peek")
  /\ armed' = armed \cup {lsd[t]}
  /\ UNCHANGED <<ami_socket, record, registered, open, queue, lsd, data, close, user, ghosts>>

\* ioctl(sd, SIOCINQ, &ami_socket->recv->checked_len), return.
LPeek(t) ==
  /\ Return(t, "peek")
  /\ Access("login", ami_socket)
  /\ Local /\ UNCHANGED <<fails, lost, twice, early, crossed>>

Login(t) ==
  \/ LSkip(t) \/ LCheck(t) \/ LNew(t) \/ LConnect(t) \/ LNoConnect(t) \/ LIdentify(t)
  \/ LManage(t) \/ LBanner(t) \/ LAnswer(t) \/ LReject(t) \/ LSpin(t) \/ LDelete(t)
  \/ LNull(t) \/ LAdd(t) \/ LEpoll(t) \/ LPeek(t)

----------------------------------------------------------------------------
(* The pool.                                                                   *)

\* Asterisk or the network ends a connection in use.  Until then nothing happens.
Lose(f) ==
  /\ f \in armed \ lost /\ Cardinality(lost) < MaxLosses
  /\ lost' = lost \cup {f}
  /\ UNCHANGED <<ami_socket, record, kernel, queue, atp, close, user, fails, crash, twice,
                 early, crossed>>

\* The event of a lost connection: closesocket finds the record and unregisters it.
CloseFind(f) ==
  /\ cpc = "idle" /\ f \in armed \cap lost
  /\ cpc' = "notify" /\ cfd' = f /\ cobj' = registered[f]
  /\ armed' = armed \ {f}
  /\ registered' = [registered EXCEPT ![f] = Null]
  /\ Access("pool", registered[f])
  /\ early' = (early \/ \E t \in Atps : lsd[t] = f)
  /\ crossed' = (crossed \/ upc # "idle")
  /\ UNCHANGED <<ami_socket, record, open, queue, atp, user, fails, lost, twice>>

\* Variation: my_disconnected leaves ami_socket alone.
NotifyNot ==
  /\ cpc = "notify" /\ cpc' = "delete"
  /\ UNCHANGED <<ami_socket, record, kernel, queue, atp, cfd, cobj, user, ghosts>>

\* my_disconnected: if it is ami_socket, ami_socket = NULL.
Notify ==
  /\ cpc = "notify" /\ cpc' = "delete"
  /\ ami_socket' = IF cobj = ami_socket THEN Null ELSE ami_socket
  /\ UNCHANGED <<record, kernel, queue, atp, cfd, cobj, user, ghosts>>

\* close(sd), delete socket: with it goes AMI_MANAGE.
CloseDelete ==
  /\ cpc = "delete" /\ cpc' = "idle"
  /\ Access("pool", cobj)
  /\ open' = open \ {cfd}
  /\ heap' = [heap EXCEPT ![cobj] = "deleted"]
  /\ cfd' = Null /\ cobj' = Null
  /\ UNCHANGED <<ami_socket, sd, client, manage, registered, armed, queue, atp, user, fails,
                 lost, twice, early, crossed>>

Pool == Notify \/ CloseDelete \/ \E f \in Recs : CloseFind(f)

----------------------------------------------------------------------------
(* A call of ami_async.                                                        *)

\* The caller takes AMI_MANAGE from ami_socket.
CallBegin ==
  /\ upc = "idle" /\ ami_socket \in manage
  /\ upc' = "test" /\ this' = ami_socket
  /\ crossed' = (InLogin # {} \/ cpc # "idle")
  /\ UNCHANGED <<ami_socket, record, kernel, queue, atp, close, fails, lost, crash, twice,
                 early>>

\* "Not connected to the AMI server".
CallTest ==
  /\ upc = "test"
  /\ upc' = IF ami_socket \in client THEN "send" ELSE "idle"
  /\ Access("user", IF ami_socket = Null THEN this ELSE ami_socket)
  /\ UNCHANGED <<ami_socket, record, kernel, queue, atp, close, this, fails, lost, twice,
                 early, crossed>>

\* ami_lock(), ami_socket->send
CallCompose ==
  /\ upc = "send" /\ upc' = "write"
  /\ crash' = IF Live(this) /\ Live(ami_socket) THEN crash ELSE "user"
  /\ UNCHANGED <<ami_socket, record, kernel, queue, atp, close, this, fails, lost, twice,
                 early, crossed>>

\* write(ami_socket->sd, ...), ami_unlock()
CallWrite ==
  /\ upc = "write" /\ upc' = "idle"
  /\ crash' = IF Live(this) /\ Live(ami_socket) THEN crash ELSE "user"
  /\ UNCHANGED <<ami_socket, record, kernel, queue, atp, close, this, fails, lost, twice,
                 early, crossed>>

Call == CallBegin \/ CallTest \/ CallCompose \/ CallWrite

----------------------------------------------------------------------------
\* Nothing is followed beyond an access to a record that is not there, nor after two
\* logins have passed the test: they write into one record.
Followed == crash = "none" /\ ~twice

Next ==
  /\ Followed
  /\ \/ Request \/ Pool \/ Call
     \/ \E t \in Atps : Login(t)
     \/ \E f \in Recs : Lose(f)

Spec == Init /\ [][Next]_vars

\* The threads are scheduled; Asterisk lets at most MaxFails logins fail.
Fairness ==
  /\ WF_vars(Followed /\ Request)
  /\ WF_vars(Followed /\ Pool)
  /\ \A t \in Atps : WF_vars(Followed /\ Login(t))

FairSpec == Spec /\ Fairness

----------------------------------------------------------------------------
(* Properties.                                                                 *)

Pcs == {"idle", "new", "connect", "greeting", "manage", "banner", "answer", "add", "epoll",
        "peek", "fail", "null", "spin"}

\* Every variable has its type; a login has its descriptor from tcp_connect on and,
\* unless two logins mix their records, what m_connect names is a record with its
\* type and its AMI_MANAGE.
TypeOK ==
  /\ ami_socket \in Pointers
  /\ heap \in [Recs -> {"none", "live", "deleted"}] /\ sd \in [Recs -> Pointers]
  /\ client \subseteq Recs /\ manage \subseteq Recs
  /\ registered \in [Recs -> Pointers] /\ open \subseteq Recs /\ armed \subseteq Recs
  /\ queue \in 0..MaxQueue
  /\ pc \in [Atps -> Pcs] /\ lsd \in [Atps -> Pointers] /\ data \in [Atps -> Pointers]
  /\ \A t \in Atps : pc[t] \in {"greeting", "manage", "banner", "answer", "add", "epoll"}
                       => lsd[t] \in open
  /\ ~twice => \A f \in Recs : registered[f] # Null => registered[f] \in manage \cap client
  /\ cpc \in {"idle", "notify", "delete"} /\ cfd \in Pointers /\ cobj \in Pointers
  /\ upc \in {"idle", "test", "send", "write"} /\ this \in Pointers
  /\ fails \in 0..MaxFails /\ lost \subseteq Recs
  /\ crash \in {"none", "login", "pool", "user"}
  /\ {twice, early, crossed} \subseteq BOOLEAN

\* The record ami_socket names is connected, logged in and known to the pool.
Connected ==
  /\ Live(ami_socket) /\ ami_socket \in client \cap manage
  /\ sd[ami_socket] \in open /\ registered[sd[ami_socket]] = ami_socket

\* Unless two logins have passed the unlocked test (amiaction.cpp 6), there is at
\* most one record, hence one connection, and the pool never holds another one.
OneConnection ==
  ~twice =>
    /\ Cardinality({o \in Recs : heap[o] = "live" /\ o # cobj}) <= 1
    /\ \A f \in Recs : registered[f] # Null => registered[f] = ami_socket

\* Unless two logins have passed the test, ami_socket is NULL or a connection in
\* use whenever no login runs and no connection is being closed: none of the nine
\* ways out of amiLogin leaves it otherwise (amiaction.cpp 16-133, amiproc.cpp 361-370).
Settled ==
  ~twice /\ crash = "none" /\ InLogin = {} /\ cpc = "idle"
    => ami_socket = Null \/ (Connected /\ sd[ami_socket] \in armed)

\* amiLogin and closesocket access and delete only records that are there, unless
\* two logins have passed the test, or the connection is lost before amiLogin has
\* made its last access to ami_socket (amiaction.cpp 148).
LoginIsSafe ==
  /\ crash = "pool" => twice
  /\ crash = "login" => twice \/ early

\* ami_sync and ami_async, which use ami_socket and AMI_MANAGE without a lock, access
\* no record that is not there, unless a login or the close of the connection
\* overlaps the call (amiproc.cpp 107-142, 174-196).
CallIsSafe == crash = "user" => twice \/ crossed

\* After a loss or a failed login there is a connection again, unless an incomplete
\* answer keeps amiLogin in its loop, the descriptors that failed logins left open
\* have used up the limit, or one of the races above has happened (amiproc.cpp
\* 459-474, amiaction.cpp 60-136).
Reconnects ==
  ami_socket = Null
    ~> \/ Connected
       \/ \E t \in Atps : pc[t] = "spin"
       \/ Cardinality(open) = MaxFds
       \/ twice \/ early \/ crash # "none"
=============================================================================
