------------------------------ MODULE HttpConn ------------------------------
(***************************************************************************)
(* How one accepted connection of amiproc turns the bytes of its stream    *)
(* into messages: the automatic reception of a worker (tst.cpp, tst_work), *)
(* the HTTP reader and dispatcher (http.cpp, http) and the websocket frame *)
(* reader (websocket.cpp, websocket), which hand over to each other through *)
(* the receive buffer TST_DATA and the fields user_data and func of the    *)
(* socket object.                                                          *)
(*                                                                         *)
(* The peer's bytes are the positions 1, 2, ... of its stream; script says *)
(* which message each belongs to.  The receive buffer holds positions, so  *)
(* a handler that is given the wrong bytes can be told from one that is    *)
(* given the right ones.  A byte 0 is one that reset_data() cleared, or a  *)
(* '\0' that http() stored.                                                *)
(***************************************************************************)
EXTENDS Messages

CONSTANTS
    Scripts,       \* the streams a peer may send
    Buffer,        \* m_recv_buf_size: s_len of a new connection's buffer
    MaxFrame,      \* the longest frame accepted (10485760 in the code)
    SplitHeaders,  \* TRUE: TCP may cut a frame's header into two segments
    Garbage        \* what a frame header read out of step may look like

ASSUME HttpConstants ==
    /\ Buffer \in Nat \ 0..13
    /\ MaxFrame \in Nat
    /\ SplitHeaders \in BOOLEAN
    /\ Garbage \subseteq Frames /\ Garbage # {}
    /\ \A sc \in Scripts : IsStream(sc) /\ Len(sc) > 0 /\ KeepsProtocol(sc)

VARIABLES
    script,      \* what the peer sends
    arrived,     \* how many of its bytes the kernel has
    rpos,        \* how many of those the worker has read
    pc,          \* where the worker or the main thread is with this socket
    s,           \* recv->s; its length is s_len
    req_pos, req_len, com_len, checked,   \* the counters of TST_DATA
    nul,         \* where http() has stored a '\0' last, which may be behind s
    user_data,   \* "none", a REQUEST_INFO or a WS_INFO
    frame,       \* WS_INFO: the frame being read
    step,        \* WS_INFO::step
    handed       \* what the handlers were given, in order

stream == <<script, arrived>>
recv   == <<s, req_pos, req_len, com_len, checked, nul>>
info   == <<user_data, frame, step>>
vars   == <<script, arrived, rpos, pc, recv, info, handed>>

Total    == End(script[Len(script)])
Messages == {script[k] : k \in DOMAIN script}
Owner(p) == CHOOSE m \in Messages : m.before < p /\ p <= End(m)

(* The blank lines that end the requests' headers.                         *)
HeaderEnds == {HeaderEnd(m) : m \in {r \in Messages : IsRequest(r)}}

Least(a, b) == IF a < b THEN a ELSE b
Waiting == arrived - rpos

(* read(sd, s + at, n)                                                     *)
Read(at, n) ==
    /\ s' = [i \in DOMAIN s |-> IF i \in at + 1 .. at + n THEN rpos + i - at ELSE s[i]]
    /\ rpos' = rpos + n

(* Variation: com_len survives.                                            *)
ResetDataKept(n) ==
    /\ s' = [i \in 1..n |-> 0]
    /\ req_pos' = 0 /\ req_len' = 0 /\ UNCHANGED com_len

(* TST_DATA::reset_data() on a buffer of n bytes; checked_len is kept.     *)
ResetData(n) ==
    /\ s' = [i \in 1..n |-> 0]
    /\ req_pos' = 0 /\ req_len' = 0 /\ com_len' = 0

Init ==
    /\ script \in Scripts
    /\ arrived = 0 /\ rpos = 0
    /\ pc = "epoll"
    /\ s = [i \in 1..Buffer |-> 0]
    /\ req_pos = 0 /\ req_len = 0 /\ com_len = 0 /\ checked = 0 /\ nul = 0
    /\ user_data = "none" /\ frame = NoFrame /\ step = 0
    /\ handed = <<>>

-----------------------------------------------------------------------------
(* The peer and the network.                                               *)

InFrameHeader(n) ==
    \E m \in Messages : ~IsRequest(m) /\ m.before < n /\ n < HeaderEnd(m)

Arrive ==
    /\ pc # "closed"
    /\ \E n \in arrived + 1 .. Total :
          (SplitHeaders \/ ~InFrameHeader(n)) /\ arrived' = n
    /\ UNCHANGED <<script, rpos, pc, recv, info, handed>>

-----------------------------------------------------------------------------
(* The thread pool around the handler.                                     *)

(* The main thread finds the socket readable, asks the kernel how much     *)
(* there is and gives the socket to a worker.                              *)
Dispatch ==
    /\ pc = "epoll" /\ Waiting > 0
    /\ checked' = Waiting
    /\ pc' = "job"
    /\ UNCHANGED <<stream, rpos, s, req_pos, req_len, com_len, nul, info, handed>>

(* http() passes a socket that has a func on to it: websocket(), which     *)
(* goes on where step says.                                                *)
Handler == IF user_data # "ws" THEN "http" ELSE IF step = 1 THEN "user" ELSE "lead"

(* No reception is pending: the worker calls the user function.            *)
NoAuto ==
    /\ pc = "job" /\ (req_len = 0 \/ com_len >= req_len)
    /\ pc' = Handler
    /\ UNCHANGED <<stream, rpos, recv, info, handed>>

(* Variations: all there is, whatever it belongs to; all that is missing,  *)
(* whether it is there or not.                                             *)
AutoLimitAll    == Waiting
AutoLimitAsked  == req_len - com_len

(* The worker reads what has arrived of the req_len bytes asked for, and   *)
(* calls the user function once it has them all.                           *)
AutoLimit == Least(Waiting, req_len - com_len)

AutoRecv ==
    /\ pc = "job" /\ 0 < req_len /\ com_len < req_len
    /\ Read(req_pos + com_len, AutoLimit)
    /\ com_len' = com_len + AutoLimit
    /\ checked' = IF com_len' >= req_len THEN 0 ELSE AutoLimit
    /\ pc' = IF com_len' >= req_len THEN Handler ELSE "epoll"
    /\ UNCHANGED <<stream, req_pos, req_len, nul, info, handed>>

-----------------------------------------------------------------------------
(* http()                                                                  *)

(* Variation: the buffer's size is forgotten.                              *)
HttpLimitUnbound ==
    LET ends == {p - rpos : p \in {q \in HeaderEnds : q > rpos /\ q <= rpos + checked}}
    IN  IF ends = {} THEN checked ELSE CHOOSE n \in ends : \A m \in ends : n <= m

(* It reads byte after byte up to the blank line, as far as the bytes the  *)
(* main thread counted and the buffer go.                                  *)
HttpLimit ==
    LET remain == Least(Len(s) - req_pos - com_len, checked)
        ends   == {p - rpos : p \in {q \in HeaderEnds : q > rpos /\ q <= rpos + remain}}
    IN  IF ends = {} THEN remain ELSE CHOOSE n \in ends : \A m \in ends : n <= m

HttpRead ==
    /\ pc = "http" /\ checked > 0
    /\ Read(req_pos + com_len, HttpLimit)
    /\ com_len' = com_len + HttpLimit
    /\ pc' = IF req_pos + com_len' >= Len(s) THEN "closed"
             ELSE IF rpos' \in HeaderEnds THEN "parse" ELSE "epoll"
    /\ UNCHANGED <<stream, req_pos, req_len, checked, nul, info, handed>>

(* rdata.s[rdata.req_pos + rdata.com_len] = '\0'.  Behind a body that just *)
(* fits that is s[s_len].                                                  *)
Terminate ==
    /\ nul' = req_pos + com_len + 1
    /\ s' = [i \in DOMAIN s |-> IF i = nul' THEN 0 ELSE s[i]]

(* checked_len is 0: the automatic reception has completed a body.         *)
HttpBody ==
    /\ pc = "http" /\ checked = 0
    /\ Terminate
    /\ pc' = "route"
    /\ UNCHANGED <<stream, rpos, req_pos, req_len, com_len, checked, info, handed>>

(* The header is parsed; a body, if there is one, is left to the automatic *)
(* reception, to be put behind the header.                                 *)
HttpParse ==
    /\ pc = "parse"
    /\ Terminate
    /\ user_data' = "request"
    /\ LET m == Owner(s[com_len]) IN
       IF m.kind = "version" \/ m.body > Len(s) - com_len
       THEN pc' = "closed" /\ UNCHANGED <<req_pos, req_len, com_len>>
       ELSE IF m.body > 0
       THEN /\ req_pos' = com_len /\ com_len' = 0 /\ req_len' = m.body
            /\ pc' = "epoll"
       ELSE pc' = "route" /\ UNCHANGED <<req_pos, req_len, com_len>>
    /\ UNCHANGED <<stream, rpos, checked, frame, step, handed>>

Routed == Owner(s[1])
Give   == handed' = Append(handed, SubSeq(s, 1, req_pos + com_len))

(* The user function of the address answers; the buffer is made ready for  *)
(* the next request if it keeps the connection.                            *)
HttpKeep ==
    /\ pc = "route" /\ Routed.kind = "keep"
    /\ Give
    /\ user_data' = "none"
    /\ ResetData(Len(s))
    /\ pc' = "epoll"
    /\ UNCHANGED <<stream, rpos, checked, nul, frame, step>>

HttpDone ==
    /\ pc = "route" /\ Routed.kind = "done"
    /\ Give
    /\ pc' = "closed"
    /\ UNCHANGED <<stream, rpos, recv, info>>

(* func becomes websocket, whose first call replaces the REQUEST_INFO by a *)
(* WS_INFO; the buffer keeps the request.                                  *)
HttpUpgrade ==
    /\ pc = "route" /\ Routed.kind \in {"upgrade", "nows"}
    /\ Give
    /\ user_data' = "ws" /\ frame' = NoFrame /\ step' = 0
    /\ pc' = IF Routed.kind = "nows" THEN "closed" ELSE "epoll"
    /\ UNCHANGED <<stream, rpos, recv>>

-----------------------------------------------------------------------------
(* websocket(), from its second call on.  The sockets accept() returns     *)
(* block, so a read takes at least one byte and at most what is there.     *)

InStep == \E m \in Messages : ~IsRequest(m) /\ m.before = rpos

(* The frame the two leading bytes announce; its length is not known yet   *)
(* when it has an extended one.  Out of step, or with the second byte      *)
(* missing, the two bytes of the buffer may announce anything.             *)
Announced(n) == IF n = 2 /\ InStep THEN {Owner(rpos + 1)} ELSE Garbage

WsLead ==
    /\ pc = "lead" /\ Waiting > 0
    /\ LET n == Least(2, Waiting) IN
       /\ Read(0, n)
       /\ com_len' = n
       /\ frame' \in Announced(n)
    /\ pc' = IF frame'.ext > 0 THEN "ext" ELSE IF frame'.mask > 0 THEN "mask" ELSE "sized"
    /\ UNCHANGED <<stream, req_pos, req_len, checked, nul, user_data, step, handed>>

WsExt ==
    /\ pc = "ext" /\ Waiting > 0
    /\ LET n == Least(frame.ext, Waiting) IN
       /\ Read(com_len, n)
       /\ com_len' = com_len + n
       /\ \E g \in Garbage :
             frame' = IF n < frame.ext THEN [frame EXCEPT !.body = g.body] ELSE frame
    /\ pc' = IF frame.mask > 0 THEN "mask" ELSE "sized"
    /\ UNCHANGED <<stream, req_pos, req_len, checked, nul, user_data, step, handed>>

WsMask ==
    /\ pc = "mask" /\ Waiting > 0
    /\ LET n == Least(frame.mask, Waiting) IN
       Read(com_len, n) /\ com_len' = com_len + n
    /\ pc' = "sized"
    /\ UNCHANGED <<stream, req_pos, req_len, checked, nul, info, handed>>

(* Only a 64-bit length is held against the limit.  The buffer grows to    *)
(* the length of the data where it is shorter, and is cleared.             *)
TooLong(f) == f.ext = 8 /\ f.body > MaxFrame
Grown(f) == IF f.body > Len(s) THEN f.body ELSE Len(s)

WsRefuse ==
    /\ pc = "sized" /\ TooLong(frame)
    /\ pc' = "closed"
    /\ UNCHANGED <<stream, rpos, recv, info, handed>>

WsSized ==
    /\ pc = "sized" /\ ~TooLong(frame)
    /\ step' = 1
    /\ ResetData(Grown(frame))
    /\ pc' = "data"
    /\ UNCHANGED <<stream, rpos, checked, nul, user_data, frame, handed>>

(* One read for the data; what it misses is left to the automatic          *)
(* reception, to be put behind it.                                         *)
WsData ==
    /\ pc = "data" /\ (frame.body > 0 => Waiting > 0)
    /\ LET n == Least(frame.body, Waiting) IN
       /\ Read(0, n)
       /\ IF n < frame.body
          THEN /\ req_pos' = n /\ req_len' = frame.body - n /\ com_len' = 0
               /\ pc' = "epoll"
          ELSE com_len' = n /\ pc' = "user" /\ UNCHANGED <<req_pos, req_len>>
    /\ UNCHANGED <<stream, checked, nul, info, handed>>

(* The user function of the address is given data_len bytes of the buffer. *)
(* What it answers decides: the kind "close" is a frame to which it        *)
(* answers tst_disconnect, whatever its opcode.                            *)
WsUser ==
    /\ pc = "user"
    /\ handed' = Append(handed, SubSeq(s, 1, frame.body))
    /\ ResetData(Len(s))
    /\ frame' = NoFrame /\ step' = 0
    /\ pc' = IF frame.kind = "close" THEN "closed" ELSE "epoll"
    /\ UNCHANGED <<stream, rpos, checked, nul, user_data>>

-----------------------------------------------------------------------------
Pool == Dispatch \/ NoAuto \/ AutoRecv
Http == HttpRead \/ HttpBody \/ HttpParse \/ HttpKeep \/ HttpDone \/ HttpUpgrade
Websocket == WsLead \/ WsExt \/ WsMask \/ WsRefuse \/ WsSized \/ WsData \/ WsUser

Next == Arrive \/ Pool \/ Http \/ Websocket

Spec == Init /\ [][Next]_vars

(* The kernel reports an armed readable socket, and a woken worker runs.   *)
FairSpec == Spec /\ WF_vars(Pool \/ Http \/ Websocket)

=============================================================================
