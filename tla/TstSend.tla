------------------------------ MODULE TstSend ------------------------------
(* The automatic sending of a worker (tst/tst.cpp, tst_work) on one connection *)
(* of the echo server: first() leaves a greeting to it, echo() answers lines   *)
(* and watches the kernel's send queue, and the main thread of the application *)
(* leaves further messages with need_send().                                   *)
(*                                                                             *)
(* TstPool has the hand-over of a connection between threads in detail; here   *)
(* it is one step.  Messages are numbered as they are composed, and the bytes  *)
(* on the wire are pairs of a message and a place in it.                       *)
EXTENDS Integers, Sequences

CONSTANTS
  Workers,    \* the worker threads
  MsgLen,     \* the length of every message
  SndBuf,     \* what the kernel's send queue holds
  CountMod,   \* the range of com_len, 2^32 in the code
  MaxLines,   \* bound: the lines the peer sends
  MaxCalls    \* bound: the messages left with need_send()

ASSUME SendConstants ==
  /\ MsgLen \in Nat \ {0} /\ SndBuf \in Nat /\ SndBuf >= MsgLen
  /\ CountMod \in Nat /\ CountMod > MsgLen + 1
  /\ MaxLines \in Nat /\ MaxCalls \in Nat

VARIABLES
  nonblocking,    \* O_NONBLOCK: sockets of tcp_connect have it, accepted ones not
  armed,          \* epoll interest: "off", "in", "inout"; "closed" at the end
  events,         \* TST_SOCKET::events
  lines,          \* lines of the peer that wait to be read
  reset,          \* the peer has reset the connection
  wire,           \* the bytes the kernel has accepted
  acked,          \* how many of them the peer has acknowledged
  text, req_len, com_len,   \* TST_SOCKET::send: the message in s, its counters
  pc,             \* Workers -> program counter
  wrote,          \* Workers -> what write() has returned
  apc,            \* the application: "idle", "zero", "need"
  \* what has happened so far
  made, heard, calls,       \* messages composed, lines sent, calls made
  left,           \* the message last left to the worker to send
  failed,         \* a write() has returned -1
  overlap         \* the application and a worker had the connection at once

send   == <<text, req_len, com_len>>
net    == <<lines, reset, wire, acked>>
job    == <<pc, wrote>>
ghosts == <<made, heard, calls, left, failed, overlap>>
vars   == <<nonblocking, armed, events, net, send, job, apc, ghosts>>

\* Main has accepted the connection, first() has composed the greeting, and the
\* socket is armed with EPOLLOUT because first() returned tst_send.
Init ==
  /\ nonblocking \in BOOLEAN
  /\ armed = "inout" /\ events = {}
  /\ lines = 0 /\ reset = FALSE /\ wire = <<>> /\ acked = 0
  /\ text = 1 /\ req_len = MsgLen /\ com_len = 0
  /\ pc = [w \in Workers |-> "rest"] /\ wrote = [w \in Workers |-> 0]
  /\ apc = "idle"
  /\ made = 1 /\ heard = 0 /\ calls = 0 /\ left = 1 /\ failed = FALSE /\ overlap = FALSE

----------------------------------------------------------------------------
(* The peer and the kernel.                                                    *)

PeerLine ==
  /\ heard < MaxLines /\ ~reset
  /\ heard' = heard + 1 /\ lines' = lines + 1
  /\ UNCHANGED <<nonblocking, armed, events, reset, wire, acked, send, job, apc,
                 made, calls, left, failed, overlap>>

PeerAck ==
  /\ acked < Len(wire) /\ ~reset
  /\ acked' = acked + 1
  /\ UNCHANGED <<nonblocking, armed, events, lines, reset, wire, send, job, apc, ghosts>>

PeerReset ==
  /\ ~reset /\ reset' = TRUE
  /\ UNCHANGED <<nonblocking, armed, events, lines, wire, acked, send, job, apc, ghosts>>

Queued == Len(wire) - acked      \* ioctl(SIOCOUTQ)
Room   == SndBuf - Queued

Least(a, b) == IF a < b THEN a ELSE b

\* What write() of k bytes returns.  A blocking socket takes them all, or the
\* worker waits until it can; the other takes what there is room for.
WriteResults(k) ==
  IF reset THEN {-1}
  ELSE IF nonblocking THEN {IF Room = 0 THEN -1 ELSE Least(k, Room)}
  ELSE {k} \cap 0..Room

\* write() returns r, having taken r bytes of s from the place com on.
Written(com, r) ==
  /\ wire' = wire \o [i \in 1..r |-> <<text, com + i>>]
  /\ failed' = (failed \/ r = -1)

----------------------------------------------------------------------------
(* The main thread of the pool.                                                *)

Ready == (IF lines > 0 THEN {"IN"} ELSE {})
         \cup (IF armed = "inout" /\ Room > 0 THEN {"OUT"} ELSE {})

Busy == \E w \in Workers : pc[w] # "rest"

\* EPOLLONESHOT disarms the socket; the events are stored, a worker is woken.
Dispatch(w) ==
  /\ armed \in {"in", "inout"} /\ ~reset /\ Ready # {} /\ pc[w] = "rest"
  /\ armed' = "off" /\ events' = Ready
  /\ pc' = [pc EXCEPT ![w] = "auto"]
  /\ overlap' = (overlap \/ Busy \/ apc # "idle")
  /\ UNCHANGED <<nonblocking, net, send, wrote, apc, made, heard, calls, left, failed>>

\* The hang-up of a reset: closesocket.  The connection's record is deleted.
Close ==
  /\ armed \in {"in", "inout"} /\ reset
  /\ armed' = "closed"
  /\ UNCHANGED <<nonblocking, events, net, send, job, apc, ghosts>>

----------------------------------------------------------------------------
(* tst_work: the automatic transfer.                                           *)

\* Input only, as far as the worker is concerned, or nothing left to send: the
\* user function is called.
AutoSkip(w) ==
  /\ pc[w] = "auto"
  /\ "IN" \in events \/ req_len = 0 \/ com_len >= req_len
  /\ pc' = [pc EXCEPT ![w] = "user"]
  /\ UNCHANGED <<nonblocking, armed, events, net, send, wrote, apc, ghosts>>

AutoWrite(w) ==
  /\ pc[w] = "auto" /\ "IN" \notin events /\ com_len < req_len
  /\ \E r \in WriteResults(req_len - com_len) :
       Written(com_len, r) /\ wrote' = [wrote EXCEPT ![w] = r]
  /\ pc' = [pc EXCEPT ![w] = "count"]
  /\ UNCHANGED <<nonblocking, armed, events, lines, reset, acked, send, apc,
                 made, heard, calls, left, overlap>>

\* After write(): com_len becomes n; not everything is sent, or the user function
\* is told that it is.
Counted(w, n) ==
  /\ pc[w] = "count"
  /\ com_len' = n
  /\ pc' = [pc EXCEPT ![w] = IF n < req_len THEN "armout" ELSE "user"]
  /\ UNCHANGED <<nonblocking, armed, events, net, text, req_len, wrote, apc, ghosts>>

\* Variations: the count is set, not added to; it is signed; a partial write
\* counts as a whole one.
AutoCountSet(w) == Counted(w, wrote[w] % CountMod)
AutoCountSigned(w) == Counted(w, com_len + wrote[w])
AutoCountWhole(w) == Counted(w, req_len)

\* com_len += write(...), in uint32_t: a failed write adds 2^32 - 1.
AutoCount(w) == Counted(w, (com_len + wrote[w]) % CountMod)

----------------------------------------------------------------------------
(* echo(), the user function.                                                  *)

\* sprintf into send->s
Compose ==
  /\ made' = made + 1 /\ text' = made + 1
  /\ req_len' = MsgLen

\* A line has been read; its echo is composed over whatever send->s holds.
EchoRead(w) ==
  /\ pc[w] = "user" /\ "IN" \in events
  /\ lines > 0 /\ lines' = lines - 1
  /\ Compose
  /\ pc' = [pc EXCEPT ![w] = "reply"]
  /\ UNCHANGED <<nonblocking, armed, events, reset, wire, acked, com_len, wrote, apc,
                 heard, calls, left, failed, overlap>>

\* com_len = write(...), return tst_suspend.
EchoReply(w) ==
  /\ pc[w] = "reply"
  /\ \E r \in WriteResults(req_len) : Written(0, r) /\ com_len' = r % CountMod
  /\ pc' = [pc EXCEPT ![w] = "armin"]
  /\ UNCHANGED <<nonblocking, armed, events, lines, reset, acked, text, req_len, wrote, apc,
                 made, heard, calls, left, overlap>>

\* Variation: EPOLLOUT stays on although the queue is empty.
EchoDrainedPolls(w) ==
  /\ pc[w] = "user" /\ "IN" \notin events
  /\ pc' = [pc EXCEPT ![w] = "armout"]
  /\ UNCHANGED <<nonblocking, armed, events, net, send, wrote, apc, ghosts>>

\* Is everything acknowledged?  If not tst_send, if so reset_data, tst_suspend.
EchoDrained(w) ==
  /\ pc[w] = "user" /\ "IN" \notin events
  /\ IF Queued > 0
     THEN pc' = [pc EXCEPT ![w] = "armout"] /\ UNCHANGED <<req_len, com_len>>
     ELSE pc' = [pc EXCEPT ![w] = "armin"] /\ req_len' = 0 /\ com_len' = 0
  /\ UNCHANGED <<nonblocking, armed, events, net, text, wrote, apc, ghosts>>

\* Variation: the socket is armed for input whatever the result was.
RearmInput(w) ==
  /\ pc[w] \in {"armin", "armout"} /\ armed # "closed"
  /\ armed' = "in"
  /\ pc' = [pc EXCEPT ![w] = "rest"]
  /\ UNCHANGED <<nonblocking, events, net, send, wrote, apc, ghosts>>

\* EPOLL_CTL_MOD, with EPOLLOUT only for tst_send.
Rearm(w) ==
  /\ pc[w] \in {"armin", "armout"} /\ armed # "closed"
  /\ armed' = IF pc[w] = "armout" THEN "inout" ELSE "in"
  /\ pc' = [pc EXCEPT ![w] = "rest"]
  /\ UNCHANGED <<nonblocking, events, net, send, wrote, apc, ghosts>>

Worker(w) ==
  \/ AutoSkip(w) \/ AutoWrite(w) \/ AutoCount(w)
  \/ EchoRead(w) \/ EchoReply(w) \/ EchoDrained(w) \/ Rearm(w)

----------------------------------------------------------------------------
(* The application's main thread, under m_mutexConnect, which no worker takes. *)

Shared == overlap' = (overlap \/ Busy)

AppCompose ==
  /\ apc = "idle" /\ calls < MaxCalls
  /\ Compose /\ Shared
  /\ calls' = calls + 1 /\ left' = made + 1 /\ apc' = "zero"
  /\ UNCHANGED <<nonblocking, armed, events, net, com_len, job, heard, failed>>

AppZero ==
  /\ apc = "zero" /\ apc' = "need"
  /\ com_len' = 0 /\ Shared
  /\ UNCHANGED <<nonblocking, armed, events, net, text, req_len, job, made, heard, calls,
                 left, failed>>

\* need_send(): EPOLL_CTL_MOD with EPOLLOUT.
AppNeedSend ==
  /\ apc = "need" /\ apc' = "idle"
  /\ armed' = "inout" /\ Shared
  /\ UNCHANGED <<nonblocking, events, net, send, job, made, heard, calls, left, failed>>

App == AppCompose \/ AppZero \/ AppNeedSend

----------------------------------------------------------------------------
Dispatches == Close \/ \E w \in Workers : Dispatch(w)

\* Nothing is followed once the connection has been closed.
Next ==
  /\ armed # "closed"
  /\ \/ PeerLine \/ PeerAck \/ PeerReset \/ Dispatches \/ App
     \/ \E w \in Workers : Worker(w)

Spec == Init /\ [][Next]_vars

\* The threads are scheduled, and the peer goes on reading.
Fairness ==
  /\ WF_vars(armed # "closed" /\ Dispatches)
  /\ WF_vars(armed # "closed" /\ App)
  /\ \A w \in Workers : WF_vars(armed # "closed" /\ Worker(w))
  /\ WF_vars(armed # "closed" /\ PeerAck)

FairSpec == Spec /\ Fairness

----------------------------------------------------------------------------
(* Properties.                                                                 *)

Messages == 1..(1 + MaxLines + MaxCalls)

\* Every variable has its type; in particular com_len stays in its width, and a
\* write never accepts more than the kernel has room for.
TypeOK ==
  /\ nonblocking \in BOOLEAN /\ armed \in {"off", "in", "inout", "closed"}
  /\ events \subseteq {"IN", "OUT"}
  /\ lines \in 0..MaxLines /\ reset \in BOOLEAN
  /\ (\A k \in 1..Len(wire) : wire[k] \in Messages \X (1..MsgLen)) /\ acked \in 0..Len(wire) /\ Room >= 0
  /\ text \in Messages /\ req_len \in {0, MsgLen} /\ com_len \in 0..(CountMod - 1)
  /\ pc \in [Workers -> {"rest", "auto", "count", "user", "reply", "armin", "armout"}]
  /\ wrote \in [Workers -> {-1} \cup 0..MsgLen]
  /\ apc \in {"idle", "zero", "need"}
  /\ made \in Messages /\ left \in Messages /\ heard \in 0..MaxLines /\ calls \in 0..MaxCalls
  /\ {failed, overlap} \subseteq BOOLEAN

\* As long as no write fails and need_send() is not called while a worker has the
\* connection, no byte goes out twice, too early or after a gap, over any number of
\* partial writes: a byte is followed by the next of its message, or by the first byte
\* of a newer one.  That the message before it went out to its last byte is not said: a
\* message may be composed over one that is not out, or not at all, yet, as the echo of
\* a line is (tst.cpp 589-610, echoserver.cpp 47-87).
InOrder ==
  ~failed /\ ~overlap =>
    \A k \in 1..Len(wire) :
      LET b == wire[k]
      IN IF k = 1 THEN b[2] = 1
         ELSE LET a == wire[k - 1]
              IN (b[1] = a[1] /\ b[2] = a[2] + 1) \/ (b[1] > a[1] /\ b[2] = 1)

\* "Sent: tell the user function that everything is sent" (tst.cpp 600-610): when
\* the user function is called for output, the message in send->s is on the wire to
\* its last byte, unless a write has failed or need_send() has interfered.
ToldWhenSent ==
  ~failed /\ ~overlap =>
    \A w \in Workers :
      pc[w] = "user" /\ "IN" \notin events /\ req_len > 0
        => wire # <<>> /\ wire[Len(wire)] = <<text, req_len>>

\* The message m is on the wire to its last byte.
Sent(m) == \E k \in 1..Len(wire) : wire[k] = <<m, MsgLen>>

\* "Set req_len and return tst_send, and the worker sends it" (README 38, tst.cpp
\* 649): a message left to the worker reaches the wire to its last byte, however
\* little the kernel takes at a time.  It need not if the peer resets the connection
\* or the application replaces the message; nor, which those lines do not say, if
\* the peer speaks first: an event with EPOLLIN and EPOLLOUT is handled as input
\* only and the re-arm drops EPOLLOUT (tst.cpp 551, 589, 603-610, 648-654).
LeftMessageIsSent ==
  \A m \in Messages :
    (left = m /\ armed = "inout" /\ apc = "idle")
      ~> (Sent(m) \/ lines > 0 \/ reset \/ left # m \/ overlap)

\* "EPOLLOUT is set only when needed, else an endless loop" (tst.cpp 646): once the
\* peer has everything, output is no longer waited for.
OutputIsWithdrawn == armed = "inout" ~> (armed = "in" \/ reset \/ overlap)
=============================================================================
