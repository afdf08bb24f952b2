----------------------------- MODULE MCHttpConn -----------------------------
EXTENDS HttpConnProps

Req(k, h, b) == [kind |-> k, before |-> 0, head |-> h, body |-> b]
Fr(k, e, m, b) == [kind |-> k, before |-> 0, ext |-> e, mask |-> m, body |-> b]

(* The messages put one behind the other.                                  *)
Place(sc) ==
    LET before[k \in 1..Len(sc)] ==
            IF k = 1 THEN 0 ELSE before[k - 1] + End([sc[k - 1] EXCEPT !.before = 0])
    IN  [k \in DOMAIN sc |-> [sc[k] EXCEPT !.before = before[k]]]

(* With a buffer of 14 bytes and frames of up to 18: requests with and     *)
(* without a body, the longest header and body that fit and the shortest   *)
(* that do not, frames of every form of length, longer than the buffer and *)
(* too long, empty ones, and requests and frames behind one another.       *)
MCScripts == {Place(sc) : sc \in {
    <<Req("keep", 5, 0), Req("keep", 6, 8), Req("done", 5, 3)>>,
    <<Req("keep", 13, 1), Req("done", 13, 0), Req("keep", 5, 0)>>,
    <<Req("keep", 5, 2), Req("version", 5, 4)>>,
    <<Req("keep", 4, 1), Req("keep", 14, 0)>>,
    <<Req("keep", 6, 9)>>, <<Req("keep", 16, 0)>>,
    <<Req("keep", 5, 2), Req("nows", 6, 0), Req("keep", 5, 0)>>,
    <<Req("keep", 5, 3), Req("upgrade", 6, 0), Fr("text", 0, 4, 5), Fr("close", 0, 4, 0)>>,
    <<Req("upgrade", 6, 2), Fr("text", 0, 0, 0), Fr("text", 2, 4, 16), Fr("text", 0, 4, 3),
      Fr("close", 0, 4, 2)>>,
    <<Req("upgrade", 13, 1), Fr("text", 8, 4, 19)>>,
    <<Req("upgrade", 5, 0), Fr("text", 8, 4, 18), Fr("text", 8, 4, 19), Fr("text", 0, 4, 1)>>}}

(* Two frames whose headers may be cut anywhere, and what a header made of *)
(* other bytes may announce: nothing, data beyond the buffer, a long one.  *)
SplitScripts ==
    {Place(<<Req("upgrade", 4, 0), Fr("text", 0, 4, 1), Fr("text", 2, 0, 2)>>)}

MCGarbage == {Fr("text", 0, 0, 0), Fr("text", 2, 4, 15), Fr("text", 8, 0, 20)}

=============================================================================
