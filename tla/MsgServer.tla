----------------------------- MODULE MsgServer ------------------------------
(***************************************************************************)
(* What a connection promises, whatever TCP does to the stream: the        *)
(* messages are handed over whole, one by one and in order, as soon as     *)
(* they are complete; and the connection is closed by a message that calls *)
(* for it and by nothing else.                                             *)
(***************************************************************************)
EXTENDS Messages

CONSTANTS Scripts, Buffer, MaxFrame

VARIABLES script, arrived, handed, open

avars == <<script, arrived, handed, open>>

(* A message a connection takes: it fits into the buffer, a header with a  *)
(* byte to spare; a frame makes the buffer fit, up to the limit.           *)
Accepted(m) ==
    IF IsRequest(m)
    THEN m.kind # "version" /\ m.head < Buffer /\ m.body <= Buffer - m.head
    ELSE ~(m.ext = 8 /\ m.body > MaxFrame)

Closing(m) == m.kind \in {"done", "nows", "close"}

More    == Len(handed) < Len(script)
Current == script[Len(handed) + 1]
Whole   == More /\ End(Current) <= arrived
Begun   == More /\ Current.before < arrived

Init ==
    /\ script \in Scripts
    /\ arrived = 0 /\ handed = <<>> /\ open = TRUE

Arrive ==
    /\ open
    /\ arrived' \in arrived + 1 .. End(script[Len(script)])
    /\ UNCHANGED <<script, handed, open>>

Hand ==
    /\ open /\ Whole /\ Accepted(Current)
    /\ handed' = Append(handed, Bytes(Current))
    /\ open' = ~Closing(Current)
    /\ UNCHANGED <<script, arrived>>

Refuse ==
    /\ open /\ Begun /\ ~Accepted(Current)
    /\ open' = FALSE
    /\ UNCHANGED <<script, arrived, handed>>

Next == Arrive \/ Hand \/ Refuse

Spec == Init /\ [][Next]_avars
             /\ WF_avars(Hand)
             /\ WF_avars(Whole /\ Refuse)

=============================================================================
