------------------------------ MODULE Messages ------------------------------
(***************************************************************************)
(* The messages a peer sends amiproc on one connection, and where each of  *)
(* them lies in the stream of bytes.                                       *)
(***************************************************************************)
EXTENDS Naturals, Sequences

(* A request ends in tst_suspend ("keep"), tst_disconnect ("done"), a 505  *)
(* ("version"), or asks for a websocket at a routed ("upgrade") or an      *)
(* unrouted ("nows") address.  Its header is at least the blank line.      *)
(* before is the number of bytes of the stream before the message.         *)
Requests == [kind : {"keep", "done", "version", "upgrade", "nows"},
             before : Nat, head : Nat \ 0..3, body : Nat]

(* A frame: its opcode as far as it decides what happens, and the bytes of *)
(* its extended length, of its mask and of its data.                       *)
Frames == [kind : {"text", "close"}, before : Nat,
           ext : {0, 2, 8}, mask : {0, 4}, body : Nat]

NoFrame == [kind |-> "text", before |-> 0, ext |-> 0, mask |-> 0, body |-> 0]

IsRequest(m)  == "head" \in DOMAIN m
HeaderSize(m) == IF IsRequest(m) THEN m.head ELSE 2 + m.ext + m.mask
HeaderEnd(m)  == m.before + HeaderSize(m)
End(m)        == HeaderEnd(m) + m.body

(* A stream: messages that lie one behind the other.                       *)
IsStream(sc) ==
    /\ sc \in Seq(Requests \union Frames)
    /\ \A k \in DOMAIN sc : sc[k].before = IF k = 1 THEN 0 ELSE End(sc[k - 1])

(* The peer keeps to the protocol: it sends frames once it has asked for a *)
(* websocket, and requests until then.                                     *)
KeepsProtocol(sc) ==
    \A k \in DOMAIN sc :
       IsRequest(sc[k]) <=> k = 1 \/ (IsRequest(sc[k - 1]) /\ sc[k - 1].kind # "upgrade")

(* What a handler is to be given of a message, as the places of the bytes  *)
(* in the stream, the first being 1: a request with its header, a frame    *)
(* without it.                                                             *)
Bytes(m) ==
    LET skipped == IF IsRequest(m) THEN m.before ELSE HeaderEnd(m)
    IN  [i \in 1 .. End(m) - skipped |-> skipped + i]

=============================================================================
