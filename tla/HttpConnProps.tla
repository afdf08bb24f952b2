--------------------------- MODULE HttpConnProps ----------------------------
(***************************************************************************)
(* Properties of HttpConn.                                                 *)
(***************************************************************************)
EXTENDS HttpConn

TypeOK ==
    /\ script \in Scripts
    /\ arrived \in 0..Total /\ rpos \in 0..arrived
    /\ pc \in {"epoll", "job", "http", "parse", "route", "lead", "ext", "mask",
               "sized", "data", "user", "closed"}
    /\ s \in Seq(0..Total)
    /\ {req_pos, req_len, com_len, checked, nul} \subseteq Nat
    /\ user_data \in {"none", "request", "ws"}
    /\ frame \in Frames /\ step \in 0..1
    /\ handed \in Seq(Seq(0..Total))

(* Neither the bytes received nor the bytes still asked for reach beyond   *)
(* the s_len bytes of the receive buffer, whose counters http(),           *)
(* websocket() and the automatic reception of the worker set for one       *)
(* another; and the '\0' http() puts behind what it has is at most one     *)
(* byte behind them, at s[s_len], where initBuffer() and addsocket() have  *)
(* allocated sizeof(TST_DATA), which is more than the offset of s (40 and  *)
(* 36 on a 64-bit machine).  websocket() puts the header of a frame at the *)
(* start of the buffer, whatever req_pos the request before it has left.   *)
Filled == IF user_data = "ws" /\ step = 0 THEN com_len ELSE req_pos + com_len

WithinBuffer ==
    /\ Filled <= Len(s)
    /\ req_pos + req_len <= Len(s)
    /\ nul <= Len(s) + 1

(* No reader takes a byte that belongs to a message after the one it is    *)
(* collecting, however many messages the kernel already has: "reception    *)
(* never goes beyond the size of one message at a time" (README, line 88). *)
NoSteal ==
    pc # "closed" /\ Len(handed) < Len(script) => rpos <= End(script[Len(handed) + 1])

(* The handlers are given the messages of the stream whole and in order.   *)
HandlersGetWholeMessages ==
    \A i \in DOMAIN handed : i <= Len(script) /\ handed[i] = Bytes(script[i])

(* The connection does what MsgServer promises, however TCP cuts the       *)
(* stream and however the arrivals fall between the steps of the worker:   *)
(* same messages, same order, same end; and a message that has arrived in  *)
(* full is handed over or refused.                                         *)
Server == INSTANCE MsgServer WITH open <- (pc # "closed")

ServesTheStream == Server!Spec

=============================================================================
