--------------------------- MODULE HttpConnProofs ---------------------------
(* Proofs about a connection of amiproc, for every stream of requests and frames, *)
(* every size of the buffer and every segmentation by TCP that does not cut the   *)
(* header of a frame.                                                             *)
EXTENDS HttpConnProps, SequenceTheorems, WellFoundedInduction, TLAPS

----------------------------------------------------------------------------
(* The inductive invariant.                                                    *)

\* The message at hand: the one behind those the handlers were given.
More == Len(handed) < Len(script)
Cur  == script[Len(handed) + 1]

\* Where it begins.
Base == IF handed = <<>> THEN 0 ELSE End(script[Len(handed)])

\* The peer has asked for a websocket.
Switched == handed # <<>> /\ LET m == script[Len(handed)]
                             IN  ~IsRequest(m) \/ m.kind = "upgrade"

\* The buffer begins with the n bytes of the stream behind the first ones.
Holds(first, n) == \A i \in 1..n : s[i] = first + i

\* No reception is pending.
Quiet == req_len = 0 \/ com_len >= req_len

\* A frame's header is being read.
InFrame == pc \in {"ext", "mask", "sized"}

Given ==
  /\ Len(handed) <= Len(script)
  /\ \A i \in 1..Len(handed) : handed[i] = Bytes(script[i])

\* What connects the socket with the stream.
Steady ==
  /\ user_data = "ws" <=> Switched
  /\ user_data # "ws" => Len(s) = Buffer /\ step = 0
  /\ Buffer <= Len(s)
  /\ ~More => pc = "epoll" /\ rpos = Base
  /\ pc = "job" => checked > 0
  /\ pc \in {"job", "http"} => rpos + checked <= arrived

\* A request's header is being read.
Header ==
  /\ user_data = "none" /\ req_pos = 0 /\ req_len = 0
  /\ \/ pc \in {"epoll", "job"}
     \/ pc = "http" /\ checked > 0
  /\ rpos = Base + com_len /\ com_len < Buffer /\ Holds(Base, com_len)
  /\ More => rpos < HeaderEnd(Cur)

\* It is complete.
Headed ==
  /\ user_data = "none" /\ req_pos = 0 /\ req_len = 0 /\ pc = "parse"
  /\ com_len = Cur.head /\ com_len < Buffer
  /\ rpos = Base + com_len /\ Holds(Base, com_len)

\* The automatic reception is reading the body.
Body ==
  /\ user_data = "request" /\ pc \in {"epoll", "job"} /\ More
  /\ req_pos = Cur.head /\ req_len = Cur.body /\ com_len < req_len
  /\ Server!Accepted(Cur)
  /\ rpos = Base + req_pos + com_len /\ Holds(Base, req_pos + com_len)

\* The request is complete.
Requested ==
  /\ user_data = "request" /\ (pc = "route" \/ (pc = "http" /\ checked = 0))
  /\ Quiet /\ req_pos + com_len = Cur.head + Cur.body
  /\ Server!Accepted(Cur)
  /\ rpos = End(Cur) /\ Holds(Base, req_pos + com_len)

\* No frame has been begun.
Idle ==
  /\ user_data = "ws" /\ pc \in {"epoll", "job", "lead"} /\ step = 0
  /\ Quiet /\ rpos = Base

\* The header of a frame is being read; all of it has arrived.
Leading ==
  /\ user_data = "ws" /\ InFrame /\ step = 0 /\ frame = Cur
  /\ com_len = 2 + (IF pc = "ext" THEN 0 ELSE frame.ext) + (IF pc = "sized" THEN frame.mask ELSE 0)
  /\ pc = "ext" => frame.ext > 0
  /\ pc = "mask" => frame.mask > 0
  /\ rpos = Base + com_len /\ HeaderEnd(Cur) <= arrived

\* The buffer is ready for the frame's data.
Sized ==
  /\ user_data = "ws" /\ pc = "data" /\ step = 1 /\ frame = Cur
  /\ req_pos = 0 /\ req_len = 0 /\ com_len = 0
  /\ Server!Accepted(Cur)
  /\ frame.body <= Len(s) /\ rpos = HeaderEnd(Cur)

\* The automatic reception is reading the rest of it.
Data ==
  /\ user_data = "ws" /\ pc \in {"epoll", "job"} /\ More /\ step = 1 /\ frame = Cur
  /\ req_pos + req_len = frame.body /\ frame.body <= Len(s) /\ com_len < req_len
  /\ Server!Accepted(Cur)
  /\ rpos = HeaderEnd(Cur) + req_pos + com_len
  /\ Holds(HeaderEnd(Cur), req_pos + com_len)

\* The frame is complete.
Framed ==
  /\ user_data = "ws" /\ pc = "user" /\ step = 1 /\ frame = Cur
  /\ frame.body <= Len(s) /\ req_pos + com_len = frame.body
  /\ Server!Accepted(Cur)
  /\ rpos = End(Cur) /\ Holds(HeaderEnd(Cur), frame.body)

Phase ==
  Header \/ Headed \/ Body \/ Requested \/ Idle \/ Leading \/ Sized \/ Data \/ Framed

Inv ==
  /\ TypeOK /\ WithinBuffer /\ Given
  /\ ~InFrameHeader(arrived)
  /\ pc # "closed" => Steady /\ Phase

----------------------------------------------------------------------------
(* The messages of a stream.                                                   *)

\* A set of numbers that is not empty has a least one.
LEMMA LeastOf ==
  ASSUME NEW T, T \subseteq Nat, T # {}
  PROVE  \E x \in T : \A y \in T : x <= y
<1> DEFINE R == OpToRel(<, Nat)
<1>1. IsWellFoundedOn(R, Nat) BY NatLessThanWellFounded
<1> HIDE DEF R
<1>2. PICK x \in T : \A y \in T : ~(<<y, x>> \in R) BY <1>1, WFMin
<1>3. \A y \in T : ~(y < x) BY <1>2 DEF R, OpToRel
<1>4. QED BY <1>3

\* The smallest buffer and the limit of a frame.
LEMMA Numbers == Buffer \in Nat /\ Buffer > 13 /\ MaxFrame \in Nat
BY HttpConstants

\* Which messages are requests, and the sizes of their parts.
LEMMA MessageSizes ==
  ASSUME NEW m \in Requests \union Frames
  PROVE  /\ m.before \in Nat /\ m.body \in Nat /\ HeaderSize(m) \in Nat
         /\ IsRequest(m) => m.head \in Nat /\ m.head >= 4 /\ HeaderSize(m) = m.head
                            /\ m.kind \in {"keep", "done", "version", "upgrade", "nows"}
         /\ ~IsRequest(m) => m \in Frames /\ HeaderSize(m) = 2 + m.ext + m.mask
                             /\ m.ext \in {0, 2, 8} /\ m.mask \in {0, 4}
                             /\ m.kind \in {"text", "close"}
         /\ HeaderSize(m) >= 2
         /\ HeaderEnd(m) = m.before + HeaderSize(m) /\ HeaderEnd(m) \in Nat
         /\ End(m) = HeaderEnd(m) + m.body /\ End(m) \in Nat
<1>1. ASSUME m \in Requests
      PROVE  /\ m.before \in Nat /\ m.head \in Nat /\ m.head >= 4 /\ m.body \in Nat
             /\ m.kind \in {"keep", "done", "version", "upgrade", "nows"}
             /\ IsRequest(m)
  BY <1>1 DEF Requests, IsRequest
<1>2. ASSUME m \in Frames
      PROVE  /\ m.before \in Nat /\ m.body \in Nat /\ m.ext \in {0, 2, 8} /\ m.mask \in {0, 4}
             /\ m.kind \in {"text", "close"}
             /\ ~IsRequest(m)
  BY <1>2 DEF Frames, IsRequest
<1>3. CASE IsRequest(m)
  <2>1. m \in Requests BY <1>2, <1>3
  <2>2. HeaderSize(m) = m.head BY <1>3 DEF HeaderSize
  <2>3. QED BY <1>1, <1>3, <2>1, <2>2 DEF HeaderEnd, End
<1>4. CASE ~IsRequest(m)
  <2>1. m \in Frames BY <1>1, <1>4
  <2>2. HeaderSize(m) = 2 + m.ext + m.mask BY <1>4 DEF HeaderSize
  <2>3. QED BY <1>2, <1>4, <2>1, <2>2 DEF HeaderEnd, End
<1>5. QED BY <1>3, <1>4

\* The messages of a stream lie one behind the other, and frames follow the request for a
\* websocket and nothing else.
LEMMA StreamPlaces ==
  ASSUME NEW sc \in Scripts
  PROVE  /\ Len(sc) \in Nat /\ Len(sc) > 0 /\ DOMAIN sc = 1..Len(sc)
         /\ \A k \in 1..Len(sc) :
              /\ sc[k] \in Requests \union Frames
              /\ sc[k].before = IF k = 1 THEN 0 ELSE End(sc[k - 1])
              /\ IsRequest(sc[k]) <=>
                   k = 1 \/ (IsRequest(sc[k - 1]) /\ sc[k - 1].kind # "upgrade")
<1>1. IsStream(sc) /\ Len(sc) > 0 /\ KeepsProtocol(sc) BY HttpConstants
<1>2. sc \in Seq(Requests \union Frames) BY <1>1 DEF IsStream
<1>3. Len(sc) \in Nat /\ DOMAIN sc = 1..Len(sc) BY <1>2
<1>4. \A k \in 1..Len(sc) : sc[k] \in Requests \union Frames BY <1>2
<1>5. QED BY <1>1, <1>3, <1>4 DEF IsStream, KeepsProtocol

\* A message ends where a later one begins, or before.
LEMMA StreamOrder ==
  ASSUME NEW sc \in Scripts, NEW j \in 1..Len(sc)
  PROVE  \A k \in 1..Len(sc) : j < k => End(sc[j]) <= sc[k].before
<1>1. /\ Len(sc) \in Nat
      /\ \A k \in 1..Len(sc) :
           /\ sc[k].before \in Nat /\ End(sc[k]) \in Nat
           /\ sc[k].before <= End(sc[k])
           /\ k > 1 => sc[k].before = End(sc[k - 1])
  <2>1. ASSUME NEW k \in 1..Len(sc)
        PROVE  /\ sc[k].before \in Nat /\ End(sc[k]) \in Nat
               /\ sc[k].before <= End(sc[k])
               /\ k > 1 => sc[k].before = End(sc[k - 1])
    <3>1. sc[k] \in Requests \union Frames BY StreamPlaces
    <3>2. k > 1 => sc[k].before = End(sc[k - 1]) BY StreamPlaces
    <3>3. QED BY <3>1, <3>2, MessageSizes
  <2>2. QED BY <2>1, StreamPlaces
<1> DEFINE Bad == {k \in 1..Len(sc) : j < k /\ ~(End(sc[j]) <= sc[k].before)}
<1>2. SUFFICES ASSUME Bad # {} PROVE FALSE OBVIOUS
<1>3. Bad \subseteq Nat BY <1>1
<1>4. PICK k \in Bad : \A i \in Bad : k <= i BY <1>2, <1>3, LeastOf, Zenon
<1>5. k \in 1..Len(sc) /\ j < k /\ ~(End(sc[j]) <= sc[k].before) BY <1>4
<1>6. k - 1 \in 1..Len(sc) /\ k > 1 /\ k - 1 \notin Bad BY <1>1, <1>4, <1>5
<1>7. sc[k].before = End(sc[k - 1]) BY <1>1, <1>5, <1>6
<1>8. CASE k - 1 = j BY <1>1, <1>5, <1>7, <1>8
<1>9. CASE k - 1 # j
  <2>1. j < k - 1 BY <1>1, <1>5, <1>9
  <2>2. End(sc[j]) <= sc[k - 1].before BY <1>6, <2>1
  <2>3. QED BY <1>1, <1>5, <1>6, <1>7, <2>2
<1>10. QED BY <1>8, <1>9

\* No message ends behind the stream.
LEMMA StreamTotal ==
  ASSUME script \in Scripts
  PROVE  /\ Total \in Nat
         /\ \A k \in 1..Len(script) : End(script[k]) \in Nat /\ End(script[k]) <= Total
<1>1. Len(script) \in Nat /\ Len(script) > 0 BY StreamPlaces
<1>2. Len(script) \in 1..Len(script) BY <1>1
<1>3. script[Len(script)] \in Requests \union Frames BY <1>2, StreamPlaces
<1>4. script[Len(script)].before \in Nat /\ Total \in Nat /\ script[Len(script)].before <= Total
  <2>1. PICK m \in Requests \union Frames : m = script[Len(script)] BY <1>3
  <2>2. m.before \in Nat /\ End(m) \in Nat /\ m.before <= End(m) BY MessageSizes
  <2>3. QED BY <2>1, <2>2 DEF Total
<1>5. ASSUME NEW k \in 1..Len(script) PROVE End(script[k]) \in Nat /\ End(script[k]) <= Total
  <2>1. End(script[k]) \in Nat BY StreamPlaces, MessageSizes
  <2>2. CASE k = Len(script) BY <1>4, <2>1, <2>2 DEF Total
  <2>3. CASE k # Len(script)
    <3>1. k < Len(script) BY <1>1, <2>3
    <3>2. End(script[k]) <= script[Len(script)].before BY <1>2, <3>1, StreamOrder
    <3>3. QED BY <1>4, <2>1, <3>2
  <2>4. QED BY <2>2, <2>3
<1>6. QED BY <1>4, <1>5

\* Each byte of a message belongs to that message alone.
LEMMA OwnerIs ==
  ASSUME script \in Scripts, NEW k \in 1..Len(script), NEW p \in Nat,
         script[k].before < p, p <= End(script[k])
  PROVE  Owner(p) = script[k]
<1>1. DOMAIN script = 1..Len(script) /\ Len(script) \in Nat BY StreamPlaces
<1>2. script[k] \in Messages BY <1>1 DEF Messages
<1>3. Owner(p) \in Messages /\ Owner(p).before < p /\ p <= End(Owner(p))
  BY <1>2, Zenon DEF Owner
<1>4. PICK j \in 1..Len(script) : Owner(p) = script[j] BY <1>1, <1>3 DEF Messages
<1>5. /\ script[j].before \in Nat /\ End(script[j]) \in Nat
      /\ script[k].before \in Nat /\ End(script[k]) \in Nat
  BY StreamPlaces, MessageSizes
<1>6. CASE j < k
  <2>1. End(script[j]) <= script[k].before BY <1>6, StreamOrder
  <2>2. QED BY <1>3, <1>4, <1>5, <2>1
<1>7. CASE k < j
  <2>1. End(script[k]) <= script[j].before BY <1>7, StreamOrder
  <2>2. QED BY <1>3, <1>4, <1>5, <2>1
<1>8. QED BY <1>1, <1>4, <1>6, <1>7

\* The message at hand begins where the one before it ends; it is a frame if the peer has
\* asked for a websocket, and a request if not.
LEMMA CurIs ==
  ASSUME TypeOK, Given
  PROVE  /\ Base \in Nat /\ Len(handed) \in Nat /\ Len(script) \in Nat
         /\ ~More => Len(handed) = Len(script) /\ Base = Total
         /\ More => /\ Len(handed) + 1 \in 1..Len(script)
                    /\ Cur \in Requests \union Frames
                    /\ Cur.before = Base
                    /\ HeaderEnd(Cur) = Base + HeaderSize(Cur)
                    /\ End(Cur) = HeaderEnd(Cur) + Cur.body
                    /\ HeaderEnd(Cur) \in Nat /\ End(Cur) \in Nat /\ End(Cur) <= Total
                    /\ IsRequest(Cur) <=> ~Switched
<1>1. /\ Len(script) \in Nat /\ Len(script) > 0 /\ script \in Scripts
      /\ Len(handed) \in Nat /\ Len(handed) <= Len(script)
      /\ handed = <<>> <=> Len(handed) = 0
  BY StreamPlaces DEF TypeOK, Given
<1>2. Base \in Nat
  <2>1. CASE handed = <<>> BY <2>1 DEF Base
  <2>2. CASE handed # <<>>
    <3>1. Len(handed) \in 1..Len(script) BY <1>1, <2>2
    <3>2. QED BY <1>1, <2>2, <3>1, StreamTotal DEF Base
  <2>3. QED BY <2>1, <2>2
<1>3. ASSUME ~More PROVE Len(handed) = Len(script) /\ Base = Total
  <2>1. Len(handed) = Len(script) BY <1>1, <1>3 DEF More
  <2>2. handed # <<>> BY <1>1, <2>1
  <2>3. QED BY <2>1, <2>2 DEF Base, Total
<1>4. ASSUME More
      PROVE  /\ Len(handed) + 1 \in 1..Len(script)
             /\ Cur \in Requests \union Frames
             /\ Cur.before = Base
             /\ HeaderEnd(Cur) = Base + HeaderSize(Cur)
             /\ End(Cur) = HeaderEnd(Cur) + Cur.body
             /\ HeaderEnd(Cur) \in Nat /\ End(Cur) \in Nat /\ End(Cur) <= Total
             /\ IsRequest(Cur) <=> ~Switched
  <2>1. PICK k \in 1..Len(script) : k = Len(handed) + 1 BY <1>1, <1>4 DEF More
  <2>2. Cur = script[k] /\ Cur \in Requests \union Frames
    BY <1>1, <2>1, StreamPlaces DEF Cur
  <2>3. k = 1 <=> handed = <<>> BY <1>1, <2>1
  <2>4. k # 1 => k - 1 = Len(handed) BY <1>1, <2>1
  <2>5. Cur.before = IF k = 1 THEN 0 ELSE End(script[k - 1])
    BY <1>1, <2>2, StreamPlaces
  <2>6. Cur.before = Base BY <2>3, <2>4, <2>5 DEF Base
  <2>7. IsRequest(Cur) <=> k = 1 \/ (IsRequest(script[k - 1]) /\ script[k - 1].kind # "upgrade")
    BY <1>1, <2>2, StreamPlaces
  <2>8. IsRequest(Cur) <=> ~Switched BY <2>3, <2>4, <2>7 DEF Switched
  <2>9. End(Cur) <= Total BY <1>1, <2>2, StreamTotal
  <2>10. QED BY <2>1, <2>2, <2>6, <2>8, <2>9, MessageSizes
<1>5. QED BY <1>1, <1>2, <1>3, <1>4

\* The first blank line behind the place reached in a request's header is that header's.
LEMMA FirstBlankLine ==
  ASSUME TypeOK, Given, More, IsRequest(Cur), NEW q \in HeaderEnds, q > Base
  PROVE  q \in Nat /\ q >= HeaderEnd(Cur)
<1>0. /\ Base \in Nat /\ Len(handed) \in Nat /\ Len(handed) + 1 \in 1..Len(script)
      /\ script \in Scripts /\ Len(handed) <= Len(script)
      /\ handed = <<>> <=> Len(handed) = 0
      /\ HeaderEnd(Cur) \in Nat /\ End(Cur) \in Nat /\ HeaderEnd(Cur) <= End(Cur)
      /\ Len(script) \in Nat
  <2>1. Cur.body \in Nat BY CurIs, MessageSizes
  <2>2. QED BY <2>1, CurIs, SMTT(40) DEF TypeOK, Given
<1>1. DOMAIN script = 1..Len(script) BY <1>0, StreamPlaces
<1>2. PICK k \in 1..Len(script) : q = HeaderEnd(script[k])
  BY <1>1 DEF HeaderEnds, Messages
<1>3. /\ script[k].before \in Nat /\ End(script[k]) \in Nat /\ q \in Nat
      /\ script[k].before <= q /\ q <= End(script[k])
  BY <1>0, <1>2, StreamPlaces, MessageSizes, SMTT(40)
<1>4. CASE k = Len(handed) + 1 BY <1>2, <1>3, <1>4 DEF Cur
<1>5. CASE k > Len(handed) + 1
  <2>1. End(script[Len(handed) + 1]) <= script[k].before BY <1>0, <1>5, StreamOrder
  <2>2. QED BY <1>0, <1>3, <2>1 DEF Cur
<1>6. CASE k < Len(handed) + 1
  <2>1. Len(handed) \in 1..Len(script) /\ handed # <<>> BY <1>0, <1>6
  <2>2. Base = End(script[Len(handed)]) BY <2>1 DEF Base
  <2>3. CASE k = Len(handed) BY <1>0, <1>3, <2>2, <2>3
  <2>4. CASE k # Len(handed)
    <3>1. k < Len(handed) BY <1>0, <1>6, <2>4
    <3>2. End(script[k]) <= script[Len(handed)].before BY <1>0, <2>1, <3>1, StreamOrder
    <3>3. script[Len(handed)].before \in Nat /\ script[Len(handed)].before <= End(script[Len(handed)])
      <4>1. PICK m \in Requests \union Frames : m = script[Len(handed)] BY <1>0, <2>1, StreamPlaces
      <4>2. m.before \in Nat /\ End(m) \in Nat /\ m.before <= End(m) BY MessageSizes
      <4>3. QED BY <4>1, <4>2
    <3>4. QED BY <1>0, <1>3, <2>2, <3>2, <3>3
  <2>5. QED BY <2>3, <2>4
<1>7. QED BY <1>0, <1>4, <1>5, <1>6

\* What the server is to accept, in the words of the model.
LEMMA AcceptedIs ==
  ASSUME NEW m
  PROVE  /\ Server!Accepted(m) <=>
              IF IsRequest(m)
              THEN m.kind # "version" /\ m.head < Buffer /\ m.body <= Buffer - m.head
              ELSE ~TooLong(m)
         /\ Server!End(m) = End(m)
BY DEF Server!Accepted, Server!IsRequest, IsRequest, TooLong, Server!End, End,
       Server!HeaderEnd, HeaderEnd, Server!HeaderSize, HeaderSize

----------------------------------------------------------------------------
(* The receive buffer.                                                         *)

\* What read() puts into the buffer.
LEMMA ReadFills ==
  ASSUME NEW at \in Nat, NEW n \in Nat, s \in Seq(0..Total), Total \in Nat, rpos \in Nat,
         rpos + n <= Total, Read(at, n)
  PROVE  /\ s' \in Seq(0..Total) /\ Len(s) \in Nat /\ Len(s') = Len(s) /\ rpos' = rpos + n
         /\ \A i \in 1..Len(s) :
              s'[i] = IF i \in at + 1 .. at + n THEN rpos + i - at ELSE s[i]
<1>1. Len(s) \in Nat /\ DOMAIN s = 1..Len(s) /\ s \in [1..Len(s) -> 0..Total]
  BY LenProperties, Zenon
<1>2. /\ s' = [i \in 1..Len(s) |-> IF i \in at + 1 .. at + n THEN rpos + i - at ELSE s[i]]
      /\ rpos' = rpos + n
  BY <1>1 DEF Read
<1>3. \A i \in 1..Len(s) : (IF i \in at + 1 .. at + n THEN rpos + i - at ELSE s[i]) \in 0..Total
  BY <1>1
<1>4. s' \in [1..Len(s) -> 0..Total] BY <1>2, <1>3
<1>5. s' \in Seq(0..Total) /\ Len(s') = Len(s) BY <1>1, <1>4, SMTT(40)
<1>6. QED BY <1>1, <1>2, <1>5

\* A read that goes on where the bytes in the buffer end leaves more of them.
LEMMA ReadHolds ==
  ASSUME NEW first \in Nat, NEW at \in Nat, NEW n \in Nat, s \in Seq(0..Total), Total \in Nat,
         rpos = first + at, rpos + n <= Total, Read(at, n), Holds(first, at),
         at + n <= Len(s)
  PROVE  \A i \in 1 .. at + n : s'[i] = first + i
<1>1. /\ Len(s) \in Nat /\ rpos \in Nat
      /\ \A i \in 1..Len(s) :
           s'[i] = IF i \in at + 1 .. at + n THEN rpos + i - at ELSE s[i]
  BY ReadFills
<1>2. SUFFICES ASSUME NEW i \in 1 .. at + n PROVE s'[i] = first + i OBVIOUS
<1>3. i \in 1..Len(s) BY <1>1
<1>4. CASE i \in 1..at
  <2>1. s'[i] = s[i] BY <1>1, <1>3, <1>4
  <2>2. QED BY <1>4, <2>1 DEF Holds
<1>5. CASE i \in at + 1 .. at + n
  <2>1. s'[i] = rpos + i - at BY <1>1, <1>3, <1>5
  <2>2. QED BY <2>1
<1>6. QED BY <1>4, <1>5

\* What reset_data() makes of the buffer.
LEMMA ResetClears ==
  ASSUME NEW n \in Nat, Total \in Nat, ResetData(n)
  PROVE  /\ s' \in Seq(0..Total) /\ Len(s') = n
         /\ req_pos' = 0 /\ req_len' = 0 /\ com_len' = 0
<1>1. s' = [i \in 1..n |-> 0] /\ req_pos' = 0 /\ req_len' = 0 /\ com_len' = 0
  BY DEF ResetData
<1>2. s' \in [1..n -> 0..Total] BY <1>1
<1>3. QED BY <1>1, <1>2

\* What a handler is given.
LEMMA GivenBytes ==
  ASSUME s \in Seq(0..Total), NEW first \in Nat, NEW n \in Nat, n <= Len(s), Holds(first, n)
  PROVE  SubSeq(s, 1, n) \in Seq(0..Total) /\ SubSeq(s, 1, n) = [i \in 1..n |-> first + i]
<1>1. Len(s) \in Nat /\ s \in [1..Len(s) -> 0..Total] BY LenProperties, Zenon
<1>2. \A i \in 1..n : s[i] = first + i BY DEF Holds
<1>3. SubSeq(s, 1, n) = [i \in 1..n |-> s[i]] BY <1>1
<1>4. \A i \in 1..n : s[i] \in 0..Total BY <1>1
<1>5. [i \in 1..n |-> s[i]] \in [1..n -> 0..Total] BY <1>4
<1>6. SubSeq(s, 1, n) \in Seq(0..Total) BY <1>3, <1>5
<1>7. [i \in 1..n |-> s[i]] = [i \in 1..n |-> first + i] BY <1>2
<1>8. QED BY <1>3, <1>6, <1>7

----------------------------------------------------------------------------
(* Every step preserves the invariant.                                         *)

\* The type invariant in arithmetic.
LEMMA Places ==
  ASSUME TypeOK
  PROVE  /\ Total \in Nat /\ arrived \in Nat /\ rpos \in Nat
         /\ rpos <= arrived /\ arrived <= Total
         /\ req_pos \in Nat /\ req_len \in Nat /\ com_len \in Nat /\ checked \in Nat
         /\ Len(s) \in Nat
         /\ frame \in Requests \union Frames /\ frame.body \in Nat
         /\ frame.ext \in {0, 2, 8} /\ frame.mask \in {0, 4}
<1>1. Total \in Nat BY StreamTotal DEF TypeOK
<1>2. Len(s) \in Nat BY LenProperties, Zenon DEF TypeOK
<1>3. frame \in Frames BY DEF TypeOK
<1>4. frame.body \in Nat /\ frame.ext \in {0, 2, 8} /\ frame.mask \in {0, 4}
  BY <1>3 DEF Frames
<1>5. QED BY <1>1, <1>2, <1>3, <1>4 DEF TypeOK

\* A step of the worker or the main thread that gives nothing to a handler leaves the
\* message at hand as it is.
LEMMA SameMessage ==
  ASSUME Inv, UNCHANGED <<script, arrived, handed>>
  PROVE  /\ Given' /\ ~InFrameHeader(arrived)'
         /\ Base' = Base /\ (More' <=> More) /\ Cur' = Cur /\ (Switched' <=> Switched)
<1>1. Given' BY DEF Inv, Given
<1>2. ~InFrameHeader(arrived)' BY DEF Inv, InFrameHeader, Messages
<1>3. QED BY <1>1, <1>2 DEF Base, More, Cur, Switched

\* TCP delivers a segment.
LEMMA ArriveInv ==
  ASSUME Inv, Arrive, ~SplitHeaders
  PROVE  Inv' /\ Server!Arrive
<1>0. TypeOK /\ WithinBuffer /\ Given /\ pc # "closed" /\ Steady /\ Phase
  BY DEF Inv, Arrive
<1>1. PICK n \in arrived + 1 .. Total : ~InFrameHeader(n) /\ arrived' = n BY DEF Arrive
<1>2. UNCHANGED <<script, rpos, pc, recv, info, handed>> BY DEF Arrive
<1>3. arrived <= arrived' /\ arrived' \in Nat /\ rpos <= arrived' /\ arrived' <= Total
  BY <1>0, <1>1, Places
<1>4. TypeOK' BY <1>0, <1>2, <1>3, Places DEF TypeOK, recv, info, Total
<1>5. WithinBuffer' BY <1>0, <1>2 DEF WithinBuffer, Filled, recv, info
<1>6. Given' BY <1>0, <1>2 DEF Given
<1>7. ~InFrameHeader(arrived)' BY <1>1, <1>2 DEF InFrameHeader, Messages
<1>8. Base' = Base /\ (More' <=> More) /\ Cur' = Cur /\ (Switched' <=> Switched)
  BY <1>2 DEF Base, More, Cur, Switched
<1>9. Steady' BY <1>0, <1>2, <1>3, <1>8, Places DEF Steady, recv, info
<1>10. Phase'
  <2> USE <1>2, <1>8 DEF recv, info, Holds, Quiet, InFrame
  <2>1. CASE Header BY <2>1 DEF Phase, Header
  <2>2. CASE Headed BY <2>2 DEF Phase, Headed
  <2>3. CASE Body BY <2>3 DEF Phase, Body
  <2>4. CASE Requested BY <2>4 DEF Phase, Requested
  <2>5. CASE Idle BY <2>5 DEF Phase, Idle
  <2>6. CASE Leading
    <3>1. More BY <1>0, <2>6 DEF Steady, Leading
    <3>2. HeaderEnd(Cur) \in Nat /\ HeaderEnd(Cur) <= arrived BY <1>0, <2>6, <3>1, CurIs DEF Leading
    <3>3. HeaderEnd(Cur) <= arrived' BY <1>0, <1>3, <3>2, Places
    <3>4. Leading' BY <2>6, <3>3 DEF Leading
    <3>5. QED BY <3>4 DEF Phase
  <2>7. CASE Sized BY <2>7 DEF Phase, Sized
  <2>8. CASE Data BY <2>8 DEF Phase, Data
  <2>9. CASE Framed BY <2>9 DEF Phase, Framed
  <2>10. QED
    BY <1>0, <2>1, <2>2, <2>3, <2>4, <2>5, <2>6, <2>7, <2>8, <2>9 DEF Phase
<1>11. Server!Arrive BY <1>0, <1>1, <1>2, AcceptedIs DEF Server!Arrive, Total
<1>12. QED BY <1>4, <1>5, <1>6, <1>7, <1>9, <1>10, <1>11 DEF Inv

\* The main thread gives the socket to a worker.
LEMMA DispatchInv == ASSUME Inv, Dispatch PROVE Inv' /\ pc' # "closed"
<1>0. TypeOK /\ WithinBuffer /\ pc = "epoll" /\ Steady /\ Phase /\ Given
  BY DEF Inv, Dispatch
<1>1. /\ UNCHANGED <<script, arrived, rpos, s, req_pos, req_len, com_len, nul, handed>>
      /\ UNCHANGED <<user_data, frame, step>>
      /\ pc' = "job" /\ arrived - rpos > 0 /\ checked' = arrived - rpos
  BY DEF Dispatch, stream, info, Waiting
<1>2. checked' \in Nat /\ checked' > 0 /\ rpos + checked' <= arrived /\ rpos < arrived
  BY <1>0, <1>1, Places
<1>3. TypeOK' BY <1>0, <1>1, <1>2 DEF TypeOK, Total
<1>4. WithinBuffer' BY <1>0, <1>1 DEF WithinBuffer, Filled
<1>5. /\ Given' /\ ~InFrameHeader(arrived)'
      /\ Base' = Base /\ (More' <=> More) /\ Cur' = Cur /\ (Switched' <=> Switched)
  BY <1>1, SameMessage
<1>6. More
  <2>1. CASE ~More
    <3>1. rpos = Total BY <1>0, <2>1, CurIs DEF Steady
    <3>2. QED BY <1>0, <1>2, <3>1, Places
  <2>2. QED BY <2>1
<1>7. Steady' BY <1>0, <1>1, <1>2, <1>5, <1>6 DEF Steady
<1>8. Phase'
  <2> USE <1>0, <1>1, <1>5, <1>6 DEF Holds, Quiet, InFrame
  <2>1. CASE Header BY <2>1 DEF Phase, Header
  <2>2. CASE Body BY <2>2 DEF Phase, Body
  <2>3. CASE Idle BY <2>3 DEF Phase, Idle
  <2>4. CASE Data BY <2>4 DEF Phase, Data
  <2>5. QED BY <2>1, <2>2, <2>3, <2>4 DEF Phase, Headed, Requested, Leading, Sized, Framed
<1>9. QED BY <1>1, <1>3, <1>4, <1>5, <1>7, <1>8 DEF Inv

\* No reception is pending: the header of a request or a frame is to be read.
LEMMA NoAutoInv == ASSUME Inv, NoAuto PROVE Inv' /\ pc' # "closed"
<1>0. TypeOK /\ WithinBuffer /\ pc = "job" /\ Steady /\ Phase /\ Given /\ Quiet
  BY DEF Inv, NoAuto, Quiet
<1>1. /\ UNCHANGED <<script, arrived, rpos, s, req_pos, req_len, com_len, checked, nul>>
      /\ UNCHANGED <<user_data, frame, step, handed>>
      /\ pc' = Handler
  BY DEF NoAuto, stream, info, recv
<1>2. pc' \in {"http", "lead", "user"} BY <1>1 DEF Handler
<1>3. TypeOK' BY <1>0, <1>1, <1>2 DEF TypeOK, Total
<1>4. WithinBuffer' BY <1>0, <1>1, <1>2 DEF WithinBuffer, Filled
<1>5. /\ Given' /\ ~InFrameHeader(arrived)'
      /\ Base' = Base /\ (More' <=> More) /\ Cur' = Cur /\ (Switched' <=> Switched)
  BY <1>1, SameMessage
<1>6. More BY <1>0 DEF Steady
<1>7. Steady' BY <1>0, <1>1, <1>2, <1>5, <1>6 DEF Steady
<1>8. ~(com_len < req_len) \/ req_len = 0 BY <1>0, Places DEF Quiet
<1>9. Phase'
  <2> USE <1>0, <1>1, <1>2, <1>5, <1>6 DEF Holds, InFrame
  <2>1. CASE Header BY <2>1 DEF Phase, Header, Handler, Steady
  <2>2. CASE Idle BY <2>2 DEF Phase, Idle, Handler, Quiet
  <2>3. ~Body /\ ~Data BY <1>8, Places DEF Body, Data
  <2>4. QED BY <2>1, <2>2, <2>3 DEF Phase, Headed, Requested, Leading, Sized, Framed
<1>10. QED BY <1>2, <1>3, <1>4, <1>5, <1>7, <1>9 DEF Inv

\* The parts of the message at hand while there is one.
LEMMA CurParts ==
  ASSUME TypeOK, Given, Steady, More
  PROVE  /\ Base \in Nat /\ Cur \in Requests \union Frames /\ Cur.before = Base
         /\ Cur.body \in Nat /\ HeaderEnd(Cur) \in Nat /\ End(Cur) \in Nat
         /\ End(Cur) = HeaderEnd(Cur) + Cur.body /\ End(Cur) <= Total
         /\ IsRequest(Cur) <=> user_data # "ws"
         /\ IsRequest(Cur) => Cur.head \in Nat /\ Cur.head >= 4
                              /\ HeaderEnd(Cur) = Base + Cur.head
                              /\ Cur.kind \in {"keep", "done", "version", "upgrade", "nows"}
         /\ ~IsRequest(Cur) => /\ Cur.ext \in {0, 2, 8} /\ Cur.mask \in {0, 4}
                               /\ HeaderEnd(Cur) = Base + (2 + Cur.ext + Cur.mask)
                               /\ Cur.kind \in {"text", "close"}
BY CurIs, MessageSizes DEF Steady

\* The automatic reception.
LEMMA AutoRecvInv == ASSUME Inv, AutoRecv PROVE Inv' /\ pc' # "closed"
<1>0. TypeOK /\ WithinBuffer /\ pc = "job" /\ Steady /\ Phase /\ Given
      /\ 0 < req_len /\ com_len < req_len
  BY DEF Inv, AutoRecv
<1>1. /\ UNCHANGED <<script, arrived, req_pos, req_len, nul, handed>>
      /\ UNCHANGED <<user_data, frame, step>>
      /\ Read(req_pos + com_len, AutoLimit)
      /\ com_len' = com_len + AutoLimit
      /\ checked' = IF com_len' >= req_len THEN 0 ELSE AutoLimit
      /\ pc' = IF com_len' >= req_len THEN Handler ELSE "epoll"
  BY DEF AutoRecv, stream, info
<1>2. PICK n \in Nat : n = AutoLimit /\ n <= req_len - com_len /\ rpos + n <= arrived
  <2>1. arrived - rpos \in Nat /\ req_len - com_len \in Nat BY <1>0, Places
  <2>2. AutoLimit \in {arrived - rpos, req_len - com_len}
        /\ AutoLimit <= arrived - rpos /\ AutoLimit <= req_len - com_len
    BY <2>1 DEF AutoLimit, Least, Waiting
  <2>3. QED BY <1>0, <2>1, <2>2, Places
<1>3. PICK at \in Nat : at = req_pos + com_len BY <1>0, Places
<1>4. /\ s' \in Seq(0..Total) /\ Len(s') = Len(s) /\ rpos' = rpos + n /\ com_len' = com_len + n
      /\ req_pos + com_len' = at + n
      /\ checked' \in Nat /\ com_len' \in Nat /\ com_len' <= req_len
      /\ pc' \in {"epoll", Handler}
      /\ com_len' < req_len => pc' = "epoll"
      /\ ~(com_len' < req_len) => pc' = Handler /\ checked' = 0 /\ com_len' = req_len
  <2>1. s' \in Seq(0..Total) /\ Len(s') = Len(s) /\ rpos' = rpos + n
    <3>1. rpos + n <= Total BY <1>0, <1>2, Places
    <3>2. s \in Seq(0..Total) BY <1>0 DEF TypeOK
    <3>3. QED BY <1>0, <1>1, <1>2, <1>3, <3>1, <3>2, Places, ReadFills
  <2>2. PICK c \in Nat : c = com_len' /\ c = com_len + n BY <1>0, <1>1, <1>2, Places
  <2>3. c <= req_len /\ req_pos + c = at + n BY <1>0, <1>2, <1>3, <2>2, Places, SMTT(40)
  <2>4. checked' = (IF c >= req_len THEN 0 ELSE n) /\ pc' = IF c >= req_len THEN Handler ELSE "epoll"
    BY <1>1, <1>2, <2>2
  <2>5. QED BY <1>0, <2>1, <2>2, <2>3, <2>4, Places, SMTT(40)
<1>5. /\ Given' /\ ~InFrameHeader(arrived)'
      /\ Base' = Base /\ (More' <=> More) /\ Cur' = Cur /\ (Switched' <=> Switched)
  BY <1>1, SameMessage
<1>6. /\ at + n <= Len(s)
      /\ \A first \in Nat : rpos = first + at /\ Holds(first, at) =>
           \A i \in 1 .. at + n : s'[i] = first + i
  <2>1. at + n <= Len(s) BY <1>0, <1>2, <1>3, Places, SMTT(40) DEF WithinBuffer
  <2>2. s \in Seq(0..Total) /\ rpos + n <= Total /\ Total \in Nat
    BY <1>0, <1>2, Places DEF TypeOK
  <2>3. Read(at, n) BY <1>1, <1>2, <1>3
  <2>4. ASSUME NEW first \in Nat, rpos = first + at, Holds(first, at)
        PROVE  \A i \in 1 .. at + n : s'[i] = first + i
    BY <2>1, <2>2, <2>3, <2>4, ReadHolds
  <2>5. QED BY <2>1, <2>4
<1>7. Handler \in {"http", "lead", "user"} /\ More
  BY <1>0 DEF Handler, Steady
<1>13. \A b \in Nat : rpos = b + at => rpos' = b + req_pos + com_len'
  <2>1. PICK c \in Nat : c = com_len' /\ c = com_len + n BY <1>4
  <2>2. \A b \in Nat : rpos = b + at => rpos + n = b + req_pos + c
    <3>1. req_pos \in Nat /\ com_len \in Nat /\ at = req_pos + com_len /\ c = com_len + n
      BY <1>0, <1>3, <2>1, Places
    <3>2. SUFFICES ASSUME NEW b \in Nat PROVE (b + at) + n = b + req_pos + c OBVIOUS
    <3>3. QED BY <3>1
  <2>3. QED BY <1>4, <2>1, <2>2
<1>8. TypeOK'
  <2>1. rpos' \in 0..arrived'
    <3>1. rpos + n \in 0..arrived BY <1>0, <1>2, Places
    <3>2. QED BY <1>1, <1>4, <3>1
  <2>2. QED BY <1>0, <1>1, <1>4, <1>7, <2>1 DEF TypeOK, Total
<1>9. WithinBuffer'
  <2>1. req_pos + com_len' <= Len(s) /\ req_pos + req_len <= Len(s)
    BY <1>0, <1>4, <1>6 DEF WithinBuffer
  <2>2. com_len' <= Len(s)
    <3>1. PICK c \in Nat : c = com_len' BY <1>4
    <3>2. QED BY <1>0, <2>1, <3>1, Places
  <2>3. QED BY <1>0, <1>1, <1>4, <2>1, <2>2 DEF WithinBuffer, Filled
<1>10. Steady'
  <2>1. pc' = "http" => rpos' + checked' <= arrived'
    BY <1>0, <1>1, <1>2, <1>4, Places
  <2>2. QED BY <1>0, <1>1, <1>4, <1>5, <1>7, <2>1 DEF Steady
<1>11. Phase'
  <2>1. /\ Base \in Nat /\ Cur.body \in Nat /\ HeaderEnd(Cur) \in Nat
        /\ End(Cur) = HeaderEnd(Cur) + Cur.body
        /\ IsRequest(Cur) <=> user_data # "ws"
        /\ IsRequest(Cur) => Cur.head \in Nat /\ HeaderEnd(Cur) = Base + Cur.head
    BY <1>0, <1>7, CurParts
  <2>2. CASE Body
    <3>1. rpos = Base + at /\ Holds(Base, at) BY <1>0, <1>3, <2>1, <2>2, Places, SMTT(40) DEF Body
    <3>2. \A i \in 1 .. at + n : s'[i] = Base + i BY <1>6, <2>1, <3>1
    <3>3. rpos' = Base + req_pos + com_len' BY <1>13, <2>1, <3>1
    <3>4. Handler = "http" /\ IsRequest(Cur) BY <2>1, <2>2 DEF Body, Handler
    <3>5. CASE com_len' < req_len
      <4>1. Body'
        BY <1>0, <1>1, <1>4, <1>5, <1>7, <2>2, <3>2, <3>3, <3>5 DEF Body, Holds
      <4>2. QED BY <4>1 DEF Phase
    <3>6. CASE ~(com_len' < req_len)
      <4>1. com_len' = Cur.body /\ req_pos = Cur.head /\ pc' = "http" /\ checked' = 0
        BY <1>4, <2>2, <3>4, <3>6 DEF Body
      <4>2. rpos' = End(Cur) BY <1>0, <2>1, <3>3, <3>4, <4>1, Places
      <4>3. com_len' >= req_len' BY <1>0, <1>1, <1>4, <3>6, Places
      <4>4. Requested'
        BY <1>1, <1>4, <1>5, <2>2, <3>2, <4>1, <4>2, <4>3 DEF Body, Requested, Holds, Quiet
      <4>5. QED BY <4>4 DEF Phase
    <3>7. QED BY <3>5, <3>6
  <2>3. CASE Data
    <3>1. rpos = HeaderEnd(Cur) + at /\ Holds(HeaderEnd(Cur), at)
      BY <1>0, <1>3, <2>1, <2>3, Places DEF Data
    <3>2. \A i \in 1 .. at + n : s'[i] = HeaderEnd(Cur) + i BY <1>6, <2>1, <3>1
    <3>3. rpos' = HeaderEnd(Cur) + req_pos + com_len' BY <1>13, <2>1, <3>1
    <3>4. Handler = "user" BY <2>3 DEF Data, Handler
    <3>5. CASE com_len' < req_len
      <4>1. Data'
        BY <1>0, <1>1, <1>4, <1>5, <1>7, <2>3, <3>2, <3>3, <3>5 DEF Data, Holds
      <4>2. QED BY <4>1 DEF Phase
    <3>6. CASE ~(com_len' < req_len)
      <4>1. req_pos + com_len' = frame.body /\ frame = Cur /\ pc' = "user" /\ at + n = frame.body
        BY <1>4, <2>3, <3>4, <3>6 DEF Data
      <4>2. rpos' = End(Cur)
        <5>1. PICK c \in Nat : c = com_len' BY <1>4
        <5>2. HeaderEnd(Cur) + req_pos + c = HeaderEnd(Cur) + frame.body
          BY <1>0, <2>1, <4>1, <5>1, Places, SMTT(40)
        <5>3. QED BY <2>1, <3>3, <4>1, <5>1, <5>2
      <4>3. Framed'
        BY <1>1, <1>4, <1>5, <2>3, <3>2, <4>1, <4>2 DEF Data, Framed, Holds
      <4>4. QED BY <4>3 DEF Phase
    <3>7. QED BY <3>5, <3>6
  <2>4. ~Header /\ ~Idle
    BY <1>0, Places DEF Header, Idle, Quiet
  <2>5. QED BY <1>0, <2>2, <2>3, <2>4 DEF Phase, Headed, Requested, Leading, Sized, Framed, InFrame
<1>12. QED BY <1>4, <1>5, <1>7, <1>8, <1>9, <1>10, <1>11 DEF Inv

\* The connection is closed by a message at hand that has begun and is not accepted.
LEMMA RefuseIs ==
  ASSUME More, Base < arrived, Cur.before = Base, ~Server!Accepted(Cur),
         pc # "closed", pc' = "closed", UNCHANGED <<script, arrived, handed>>
  PROVE  Server!Refuse
BY DEF Server!Refuse, Server!Begun, Server!More, Server!Current, More, Cur

\* The blank lines are places in the stream.
LEMMA BlankLines ==
  ASSUME script \in Scripts
  PROVE  HeaderEnds \subseteq Nat
<1>1. SUFFICES ASSUME NEW q \in HeaderEnds PROVE q \in Nat OBVIOUS
<1>2. PICK m \in Messages : q = HeaderEnd(m) BY DEF HeaderEnds
<1>3. m \in Requests \union Frames BY <1>2, StreamPlaces DEF Messages
<1>4. QED BY <1>2, <1>3, MessageSizes

\* http() reads one byte at least, neither beyond the buffer nor beyond the blank line of
\* the request at hand, and it finds that line where it is.
LEMMA HttpLimitIs ==
  ASSUME TypeOK, Given, Steady, Header, pc = "http", More
  PROVE  \E n \in Nat :
            /\ n = HttpLimit /\ n > 0 /\ n <= checked /\ com_len + n <= Len(s)
            /\ rpos + n <= HeaderEnd(Cur)
            /\ rpos + n \in HeaderEnds <=> rpos + n = HeaderEnd(Cur)
<1> DEFINE remain == Least(Len(s) - req_pos - com_len, checked)
           last   == {q \in HeaderEnds : q > rpos /\ q <= rpos + remain}
           ends   == {p - rpos : p \in last}
<1>1. /\ rpos \in Nat /\ com_len \in Nat /\ checked \in Nat /\ Len(s) \in Nat
      /\ checked > 0 /\ req_pos = 0 /\ com_len < Len(s) /\ rpos = Base + com_len
      /\ Base \in Nat /\ HeaderEnd(Cur) \in Nat /\ rpos < HeaderEnd(Cur) /\ IsRequest(Cur)
  BY Places, CurParts DEF Header, Steady
<1>2. remain \in Nat /\ remain > 0 /\ remain <= checked /\ com_len + remain <= Len(s)
  BY <1>1 DEF Least
<1>3. HttpLimit = IF ends = {} THEN remain ELSE CHOOSE n \in ends : \A m \in ends : n <= m
  BY DEF HttpLimit
<1> HIDE DEF remain
<1>4. HeaderEnds \subseteq Nat BY BlankLines DEF TypeOK
<1>5. HeaderEnd(Cur) \in HeaderEnds
  <2>1. Len(handed) + 1 \in 1..Len(script) /\ DOMAIN script = 1..Len(script)
    BY CurIs, StreamPlaces DEF TypeOK
  <2>2. QED BY <1>1, <2>1 DEF HeaderEnds, Messages, Cur
<1>6. \A q \in HeaderEnds : q > rpos => q >= HeaderEnd(Cur)
  <2>1. ASSUME NEW q \in HeaderEnds, q > rpos PROVE q >= HeaderEnd(Cur)
    <3>1. q > Base BY <1>1, <1>4, <2>1
    <3>2. QED BY <1>1, <3>1, FirstBlankLine
  <2>2. QED BY <2>1
<1>7. CASE ends = {}
  <2>1. last = {} BY <1>7
  <2>2. ~(HeaderEnd(Cur) <= rpos + remain) BY <1>1, <1>5, <2>1
  <2>3. rpos + remain \notin HeaderEnds BY <1>1, <1>2, <1>6, <2>2
  <2>4. HttpLimit = remain BY <1>3, <1>7
  <2>5. rpos + remain <= HeaderEnd(Cur) /\ rpos + remain # HeaderEnd(Cur) BY <1>1, <1>2, <2>2
  <2>6. QED BY <1>2, <2>3, <2>4, <2>5
<1>8. CASE ends # {}
  <2>1. ends \subseteq Nat
    <3>1. SUFFICES ASSUME NEW x \in ends PROVE x \in Nat OBVIOUS
    <3>2. PICK p \in HeaderEnds : p > rpos /\ x = p - rpos BY <3>1
    <3>3. p \in Nat BY <1>4, <3>2
    <3>4. QED BY <1>1, <3>2, <3>3
  <2>2. PICK x \in ends : \A y \in ends : x <= y BY <1>8, <2>1, LeastOf, Zenon
  <2>3. HttpLimit \in ends /\ \A y \in ends : HttpLimit <= y
    <3>1. HttpLimit = CHOOSE n \in ends : \A m \in ends : n <= m BY <1>3, <1>8
    <3>2. QED BY <2>2, <3>1
  <2>4. PICK p \in HeaderEnds : p > rpos /\ p <= rpos + remain /\ HttpLimit = p - rpos
    BY <2>3
  <2>5. p \in Nat /\ p >= HeaderEnd(Cur) BY <1>4, <1>6, <2>4
  <2>6. HeaderEnd(Cur) \in last BY <1>1, <1>2, <1>5, <2>4, <2>5
  <2>7. HttpLimit <= HeaderEnd(Cur) - rpos BY <2>3, <2>6
  <2>8. p = HeaderEnd(Cur) BY <1>1, <2>4, <2>5, <2>7
  <2>9. PICK n \in Nat : n = p - rpos /\ n > 0 /\ n <= remain /\ rpos + n = p
    BY <1>1, <1>2, <2>4, <2>5
  <2>10. n <= checked /\ com_len + n <= Len(s) BY <1>1, <1>2, <2>9
  <2>11. QED BY <1>1, <1>5, <2>4, <2>8, <2>9, <2>10
<1>9. QED BY <1>7, <1>8

\* http() reads the bytes of a header.
LEMMA HttpReadInv ==
  ASSUME Inv, HttpRead
  PROVE  Inv' /\ (pc' # "closed" \/ Server!Refuse)
<1>0. TypeOK /\ WithinBuffer /\ pc = "http" /\ checked > 0 /\ Steady /\ Phase /\ Given
  BY DEF Inv, HttpRead
<1>1. Header /\ More
  BY <1>0, Places DEF Phase, Headed, Body, Requested, Idle, Leading, Sized, Data, Framed,
                      InFrame, Steady
<1>2. PICK n \in Nat :
        /\ n = HttpLimit /\ n > 0 /\ n <= checked /\ com_len + n <= Len(s)
        /\ rpos + n <= HeaderEnd(Cur)
        /\ rpos + n \in HeaderEnds <=> rpos + n = HeaderEnd(Cur)
  BY <1>0, <1>1, HttpLimitIs
<1>3. /\ UNCHANGED <<script, arrived, req_pos, req_len, checked, nul, handed>>
      /\ UNCHANGED <<user_data, frame, step>>
      /\ Read(com_len, n)
      /\ com_len' = com_len + n
      /\ pc' = IF req_pos + com_len' >= Len(s) THEN "closed"
               ELSE IF rpos' \in HeaderEnds THEN "parse" ELSE "epoll"
  <2>1. req_pos + com_len = com_len BY <1>0, <1>1, Places DEF Header
  <2>2. QED BY <1>2, <2>1 DEF HttpRead, stream, info
<1>4. /\ req_pos = 0 /\ req_len = 0 /\ rpos = Base + com_len /\ com_len < Buffer
      /\ Holds(Base, com_len) /\ Len(s) = Buffer /\ user_data = "none"
      /\ rpos + checked <= arrived
  BY <1>0, <1>1 DEF Header, Steady
<1>5. /\ Base \in Nat /\ HeaderEnd(Cur) \in Nat /\ IsRequest(Cur) /\ Cur.before = Base
      /\ HeaderEnd(Cur) = Base + Cur.head /\ Cur.head \in Nat
  BY <1>0, <1>1, <1>4, CurParts
<1>6. PICK c \in Nat : c = com_len + n /\ rpos + n = Base + c /\ c <= Len(s)
  BY <1>0, <1>2, <1>4, <1>5, Places, SMTT(40)
<1>7. /\ s' \in Seq(0..Total) /\ Len(s') = Len(s) /\ rpos' = rpos + n /\ com_len' = c
      /\ rpos + n <= arrived
      /\ \A i \in 1..c : s'[i] = Base + i
  <2>1. rpos + n <= arrived /\ rpos + n <= Total /\ s \in Seq(0..Total) /\ Total \in Nat
        /\ com_len \in Nat /\ rpos \in Nat
    BY <1>0, <1>2, <1>4, Places, SMTT(40) DEF TypeOK
  <2>2. s' \in Seq(0..Total) /\ Len(s') = Len(s) /\ rpos' = rpos + n BY <1>3, <2>1, ReadFills
  <2>3. \A i \in 1 .. com_len + n : s'[i] = Base + i
    BY <1>2, <1>3, <1>4, <1>5, <2>1, ReadHolds
  <2>4. QED BY <1>3, <1>6, <2>1, <2>2, <2>3
<1>8. /\ pc' \in {"closed", "parse", "epoll"}
      /\ pc' = "closed" => c >= Len(s)
      /\ pc' # "closed" => c < Len(s)
      /\ pc' = "parse" => rpos + n = HeaderEnd(Cur)
      /\ pc' = "epoll" => rpos + n < HeaderEnd(Cur)
  <2>1. pc' = IF c >= Len(s) THEN "closed" ELSE IF rpos + n \in HeaderEnds THEN "parse" ELSE "epoll"
    BY <1>3, <1>4, <1>6, <1>7
  <2>2. Len(s) \in Nat /\ rpos + n \in Nat BY <1>0, <1>2, Places
  <2>3. QED BY <1>2, <1>5, <2>1, <2>2
<1>9. /\ Given' /\ ~InFrameHeader(arrived)'
      /\ Base' = Base /\ (More' <=> More) /\ Cur' = Cur /\ (Switched' <=> Switched)
  BY <1>0, <1>3, SameMessage
<1>10. TypeOK'
  <2>1. rpos + n \in 0..arrived BY <1>0, <1>2, <1>7, Places, SMTT(40)
  <2>2. rpos' \in 0..arrived' BY <1>3, <1>7, <2>1
  <2>3. QED BY <1>0, <1>3, <1>7, <1>8, <2>2 DEF TypeOK, Total
<1>11. WithinBuffer'
  BY <1>0, <1>3, <1>4, <1>6, <1>7, <1>8, Places DEF WithinBuffer, Filled
<1>12. CASE pc' = "closed"
  <2>1. Cur.head >= Buffer
    <3>1. c >= Buffer BY <1>4, <1>8, <1>12
    <3>2. QED BY <1>2, <1>5, <1>6, <3>1, Numbers
  <2>2. ~Server!Accepted(Cur) BY <1>5, <2>1, AcceptedIs, Numbers
  <2>3. Base < arrived BY <1>0, <1>2, <1>4, <1>5, <1>7, Places, SMTT(40)
  <2>4. Server!Refuse BY <1>0, <1>1, <1>3, <1>5, <1>12, <2>2, <2>3, RefuseIs
  <2>5. QED BY <1>9, <1>10, <1>11, <1>12, <2>4 DEF Inv
<1>13. CASE pc' # "closed"
  <2>1. Steady' BY <1>0, <1>1, <1>3, <1>4, <1>7, <1>8, <1>9, <1>13 DEF Steady
  <2>2. CASE pc' = "parse"
    <3>1. c = Cur.head BY <1>5, <1>6, <1>8, <2>2
    <3>2. Headed' BY <1>3, <1>4, <1>6, <1>7, <1>8, <1>9, <2>2, <3>1 DEF Headed, Holds
    <3>3. QED BY <1>9, <1>10, <1>11, <2>1, <2>2, <3>2 DEF Inv, Phase
  <2>3. CASE pc' = "epoll"
    <3>1. Header' BY <1>3, <1>4, <1>6, <1>7, <1>8, <1>9, <2>3 DEF Header, Holds
    <3>2. QED BY <1>9, <1>10, <1>11, <2>1, <2>3, <3>1 DEF Inv, Phase
  <2>4. QED BY <1>8, <1>13, <2>2, <2>3
<1>14. QED BY <1>12, <1>13

\* The '\0' behind what has been read leaves that as it is, and is at most one byte
\* behind the buffer.
LEMMA Terminated ==
  ASSUME TypeOK, Terminate, req_pos + com_len <= Len(s)
  PROVE  /\ s' \in Seq(0..Total) /\ Len(s') = Len(s)
         /\ nul' = req_pos + com_len + 1 /\ nul' \in Nat /\ nul' <= Len(s) + 1
         /\ \A i \in 1 .. req_pos + com_len : s'[i] = s[i]
<1>1. PICK c \in Nat : c = req_pos + com_len BY Places
<1>2. Total \in Nat BY Places
<1>3. s \in Seq(0..Total) BY DEF TypeOK
<1>4. Len(s) \in Nat /\ DOMAIN s = 1..Len(s) /\ s \in [1..Len(s) -> 0..Total]
  BY <1>3, LenProperties, Zenon
<1>5. nul' = c + 1 /\ s' = [i \in 1..Len(s) |-> IF i = c + 1 THEN 0 ELSE s[i]]
  BY <1>1, <1>4 DEF Terminate
<1>6. \A i \in 1..Len(s) : (IF i = c + 1 THEN 0 ELSE s[i]) \in 0..Total BY <1>2, <1>4
<1>7. s' \in [1..Len(s) -> 0..Total] BY <1>5, <1>6
<1>8. s' \in Seq(0..Total) /\ Len(s') = Len(s) BY <1>2, <1>3, <1>4, <1>7, SMTT(40)
<1>9. c <= Len(s) BY <1>1
<1>10. \A i \in 1..c : s'[i] = s[i] BY <1>4, <1>5, <1>9
<1>11. QED BY <1>1, <1>4, <1>5, <1>8, <1>9, <1>10

\* A body has been completed.
LEMMA HttpBodyInv == ASSUME Inv, HttpBody PROVE Inv' /\ pc' # "closed"
<1>0. TypeOK /\ WithinBuffer /\ pc = "http" /\ checked = 0 /\ Steady /\ Phase /\ Given
  BY DEF Inv, HttpBody
<1>1. /\ UNCHANGED <<script, arrived, rpos, req_pos, req_len, com_len, checked, handed>>
      /\ UNCHANGED <<user_data, frame, step>>
      /\ pc' = "route" /\ Terminate
  BY DEF HttpBody, stream, info
<1>2. /\ s' \in Seq(0..Total) /\ Len(s') = Len(s) /\ req_pos + com_len <= Len(s)
      /\ nul' = req_pos + com_len + 1 /\ nul' \in Nat /\ nul' <= Len(s) + 1
      /\ \A i \in 1 .. req_pos + com_len : s'[i] = s[i]
  <2>1. step = 1 \/ user_data # "ws"
    BY <1>0 DEF Phase, Header, Headed, Body, Requested, Idle, Leading, Sized, Data, Framed,
                InFrame
  <2>2. req_pos + com_len <= Len(s) BY <1>0, <2>1 DEF WithinBuffer, Filled
  <2>3. QED BY <1>0, <1>1, <2>2, Terminated
<1>3. TypeOK' BY <1>0, <1>1, <1>2 DEF TypeOK, Total
<1>4. WithinBuffer' BY <1>0, <1>1, <1>2 DEF WithinBuffer, Filled
<1>5. /\ Given' /\ ~InFrameHeader(arrived)'
      /\ Base' = Base /\ (More' <=> More) /\ Cur' = Cur /\ (Switched' <=> Switched)
  BY <1>1, SameMessage
<1>6. Steady' BY <1>0, <1>1, <1>2, <1>5 DEF Steady
<1>7. Requested
  BY <1>0 DEF Phase, Header, Headed, Body, Idle, Leading, Sized, Data, Framed, InFrame
<1>8. Requested' BY <1>0, <1>1, <1>2, <1>5, <1>7 DEF Requested, Holds, Quiet
<1>9. QED BY <1>1, <1>3, <1>4, <1>5, <1>6, <1>8 DEF Inv, Phase

\* A header is parsed: the request is refused, or its body is to be received, or it is
\* complete.
LEMMA HttpParseInv ==
  ASSUME Inv, HttpParse
  PROVE  Inv' /\ (pc' # "closed" \/ Server!Refuse)
<1>0. TypeOK /\ WithinBuffer /\ pc = "parse" /\ Steady /\ Phase /\ Given
  BY DEF Inv, HttpParse
<1>1. Headed /\ More
  BY <1>0 DEF Phase, Header, Body, Requested, Idle, Leading, Sized, Data, Framed, InFrame, Steady
<1>2. /\ req_pos = 0 /\ req_len = 0 /\ com_len = Cur.head /\ com_len < Buffer
      /\ rpos = Base + com_len /\ Holds(Base, com_len) /\ Len(s) = Buffer
      /\ user_data = "none"
  BY <1>0, <1>1 DEF Headed, Steady
<1>3. /\ Base \in Nat /\ HeaderEnd(Cur) \in Nat /\ IsRequest(Cur) /\ Cur.before = Base
      /\ HeaderEnd(Cur) = Base + Cur.head /\ Cur.head \in Nat /\ Cur.head >= 4
      /\ Cur.body \in Nat /\ End(Cur) = HeaderEnd(Cur) + Cur.body /\ End(Cur) \in Nat
  BY <1>0, <1>1, <1>2, CurParts
<1>4. Owner(s[com_len]) = Cur
  <2>1. s[com_len] = Base + com_len BY <1>2, <1>3, SMTT(40) DEF Holds
  <2>2. PICK k \in 1..Len(script) : k = Len(handed) + 1 BY <1>0, <1>1, CurIs
  <2>3. Cur = script[k] BY <2>2 DEF Cur
  <2>4. Base + com_len \in Nat /\ Base < Base + com_len /\ Base + com_len <= End(Cur)
    BY <1>2, <1>3, SMTT(40)
  <2>5. QED BY <1>0, <1>3, <2>1, <2>3, <2>4, OwnerIs DEF TypeOK
<1>5. /\ user_data' = "request" /\ Terminate
      /\ UNCHANGED <<script, arrived, rpos, checked, frame, step, handed>>
  BY DEF HttpParse, stream
<1>6. /\ s' \in Seq(0..Total) /\ Len(s') = Len(s)
       /\ nul' \in Nat /\ nul' <= Len(s) + 1
       /\ \A i \in 1..com_len : s'[i] = s[i]
  <2>1. req_pos + com_len = com_len /\ com_len <= Len(s) BY <1>0, <1>2 DEF TypeOK
  <2>2. QED BY <1>0, <1>5, <2>1, Terminated
<1>7. IF Cur.kind = "version" \/ Cur.body > Len(s) - com_len
      THEN pc' = "closed" /\ UNCHANGED <<req_pos, req_len, com_len>>
      ELSE IF Cur.body > 0
      THEN req_pos' = com_len /\ com_len' = 0 /\ req_len' = Cur.body /\ pc' = "epoll"
      ELSE pc' = "route" /\ UNCHANGED <<req_pos, req_len, com_len>>
  BY <1>4 DEF HttpParse
<1>8. /\ Given' /\ ~InFrameHeader(arrived)'
      /\ Base' = Base /\ (More' <=> More) /\ Cur' = Cur /\ (Switched' <=> Switched)
  BY <1>5, SameMessage
<1>9. CASE Cur.kind = "version" \/ Cur.body > Len(s) - com_len
  <2>1. pc' = "closed" /\ UNCHANGED <<req_pos, req_len, com_len>> BY <1>7, <1>9
  <2>2. ~Server!Accepted(Cur) BY <1>2, <1>3, <1>9, AcceptedIs
  <2>3. Base < arrived BY <1>0, <1>2, <1>3, Places
  <2>4. Server!Refuse BY <1>0, <1>1, <1>3, <1>5, <2>1, <2>2, <2>3, RefuseIs
  <2>5. TypeOK' BY <1>0, <1>5, <1>6, <2>1 DEF TypeOK, Total
  <2>6. WithinBuffer' BY <1>0, <1>2, <1>5, <1>6, <2>1 DEF WithinBuffer, Filled
  <2>7. QED BY <1>8, <2>1, <2>4, <2>5, <2>6 DEF Inv
<1>10. CASE ~(Cur.kind = "version" \/ Cur.body > Len(s) - com_len)
  <2>1. Server!Accepted(Cur) BY <1>2, <1>3, <1>10, AcceptedIs, SMTT(40)
  <2>2. Cur.head + Cur.body <= Len(s) /\ com_len + Cur.body <= Len(s)
    BY <1>2, <1>3, <1>10, Numbers
  <2>3. CASE Cur.body > 0
    <3>1. req_pos' = com_len /\ com_len' = 0 /\ req_len' = Cur.body /\ pc' = "epoll"
      BY <1>7, <1>10, <2>3
    <3>2. TypeOK' BY <1>0, <1>3, <1>5, <1>6, <3>1 DEF TypeOK, Total
    <3>3. WithinBuffer'
      BY <1>2, <1>3, <1>5, <1>6, <2>2, <3>1, Numbers DEF WithinBuffer, Filled
    <3>4. Steady' BY <1>0, <1>1, <1>2, <1>5, <1>6, <1>8, <3>1 DEF Steady
    <3>5. com_len + 0 = com_len /\ Base + com_len + 0 = Base + com_len BY <1>2, <1>3
    <3>6. Body'
      BY <1>1, <1>2, <1>3, <1>5, <1>6, <1>8, <2>1, <2>3, <3>1, <3>5 DEF Body, Holds
    <3>7. QED BY <1>8, <3>1, <3>2, <3>3, <3>4, <3>6 DEF Inv, Phase
  <2>4. CASE ~(Cur.body > 0)
    <3>1. pc' = "route" /\ UNCHANGED <<req_pos, req_len, com_len>> BY <1>7, <1>10, <2>4
    <3>2. TypeOK' BY <1>0, <1>5, <1>6, <3>1 DEF TypeOK, Total
    <3>3. WithinBuffer' BY <1>0, <1>2, <1>5, <1>6, <3>1 DEF WithinBuffer, Filled
    <3>4. Steady' BY <1>0, <1>1, <1>2, <1>5, <1>6, <1>8, <3>1 DEF Steady
    <3>5. Cur.body = 0 /\ 0 + com_len = com_len /\ com_len = Cur.head + 0 /\ rpos = End(Cur)
      BY <1>2, <1>3, <2>4
    <3>6. Requested'
      BY <1>1, <1>2, <1>3, <1>5, <1>6, <1>8, <2>1, <3>1, <3>5 DEF Requested, Holds, Quiet
    <3>7. QED BY <1>8, <3>1, <3>2, <3>3, <3>4, <3>6 DEF Inv, Phase
  <2>5. QED BY <2>3, <2>4
<1>11. QED BY <1>9, <1>10

\* A handler is given the message at hand, and the next one is at hand.
LEMMA HandStep ==
  ASSUME TypeOK, Given, More, script' = script,
         handed' = Append(handed, Bytes(Cur)), Bytes(Cur) \in Seq(0..Total)
  PROVE  /\ Given' /\ handed' \in Seq(Seq(0..Total)) /\ Base' = End(Cur)
         /\ Switched' <=> ~IsRequest(Cur) \/ Cur.kind = "upgrade"
         /\ More' => HeaderEnd(Cur') \in Nat /\ HeaderEnd(Cur') > End(Cur)
<1>1. /\ handed \in Seq(Seq(0..Total)) /\ Len(handed) \in Nat /\ Len(script) \in Nat
      /\ Len(handed) + 1 \in 1..Len(script) /\ script \in Scripts
  BY CurIs DEF TypeOK
<1>2. /\ handed' \in Seq(Seq(0..Total)) /\ Len(handed') = Len(handed) + 1
      /\ handed' # <<>> /\ handed'[Len(handed) + 1] = Bytes(Cur)
      /\ \A i \in 1..Len(handed) : handed'[i] = handed[i]
  BY <1>1, AppendProperties
<1>3. Given'
  <2>1. Len(handed') <= Len(script') BY <1>1, <1>2
  <2>2. ASSUME NEW i \in 1..Len(handed') PROVE handed'[i] = Bytes(script'[i])
    <3>1. CASE i = Len(handed) + 1 BY <1>2, <3>1 DEF Cur
    <3>2. CASE i # Len(handed) + 1
      <4>1. i \in 1..Len(handed) BY <1>1, <1>2, <3>2
      <4>2. QED BY <1>2, <4>1 DEF Given
    <3>3. QED BY <3>1, <3>2
  <2>3. QED BY <2>1, <2>2 DEF Given
<1>4. script'[Len(handed')] = Cur BY <1>2 DEF Cur
<1>5. Base' = End(Cur) BY <1>2, <1>4 DEF Base
<1>6. Switched' <=> ~IsRequest(Cur) \/ Cur.kind = "upgrade" BY <1>2, <1>4 DEF Switched
<1>7. ASSUME More' PROVE HeaderEnd(Cur') \in Nat /\ HeaderEnd(Cur') > End(Cur)
  <2>1. PICK k \in 1..Len(script) : k = Len(handed) + 2 BY <1>1, <1>2, <1>7 DEF More
  <2>2. k - 1 = Len(handed) + 1 /\ k # 1 /\ k = Len(handed) + 1 + 1 BY <1>1, <2>1
  <2>3. Cur' = script[k] /\ script[k - 1] = Cur BY <1>2, <2>2 DEF Cur
  <2>4. script[k] \in Requests \union Frames /\ script[k].before = End(script[k - 1])
    BY <1>1, <2>2, StreamPlaces
  <2>5. PICK m \in Requests \union Frames : m = Cur' BY <2>3, <2>4
  <2>6. m.before = End(Cur) BY <2>3, <2>4, <2>5
  <2>7. HeaderEnd(m) = m.before + HeaderSize(m) /\ HeaderSize(m) >= 2 /\ HeaderSize(m) \in Nat
        /\ m.before \in Nat /\ HeaderEnd(m) \in Nat
    BY MessageSizes
  <2>8. QED BY <2>5, <2>6, <2>7
<1>8. QED BY <1>2, <1>3, <1>5, <1>6, <1>7

\* The server hands over the message at hand, and closes the connection if it is a last one.
LEMMA HandIs ==
  ASSUME More, End(Cur) <= arrived, Server!Accepted(Cur), pc # "closed",
         handed' = Append(handed, Bytes(Cur)), UNCHANGED <<script, arrived>>,
         pc' = "closed" <=> Cur.kind \in {"done", "nows", "close"}
  PROVE  Server!Hand
<1>1. Server!Current = Cur BY DEF Server!Current, Cur
<1>2. Server!Bytes(Cur) = Bytes(Cur)
  BY DEF Server!Bytes, Bytes, Server!IsRequest, IsRequest, Server!End, End,
         Server!HeaderEnd, HeaderEnd, Server!HeaderSize, HeaderSize
<1>3. Server!More /\ Server!Whole BY <1>1, AcceptedIs DEF Server!Whole, Server!More, More
<1>4. (pc' # "closed") = ~Server!Closing(Cur) BY DEF Server!Closing
<1>5. QED BY <1>1, <1>2, <1>3, <1>4 DEF Server!Hand

\* A complete request is in the buffer as a whole.
LEMMA RoutedIs ==
  ASSUME TypeOK, WithinBuffer, Given, Steady, Phase, pc = "route"
  PROVE  /\ Requested /\ More /\ Routed = Cur /\ IsRequest(Cur) /\ user_data = "request"
         /\ SubSeq(s, 1, req_pos + com_len) = Bytes(Cur) /\ Bytes(Cur) \in Seq(0..Total)
         /\ End(Cur) \in Nat /\ rpos = End(Cur) /\ End(Cur) <= arrived
         /\ Server!Accepted(Cur) /\ Quiet /\ Len(s) = Buffer /\ step = 0
         /\ Cur.kind \in {"keep", "done", "upgrade", "nows"}
<1>1. Requested /\ More
  BY DEF Phase, Header, Headed, Body, Idle, Leading, Sized, Data, Framed, InFrame, Steady
<1>2. /\ user_data = "request" /\ Quiet /\ req_pos + com_len = Cur.head + Cur.body
      /\ Server!Accepted(Cur) /\ rpos = End(Cur) /\ Holds(Base, req_pos + com_len)
      /\ Len(s) = Buffer /\ step = 0
  BY <1>1 DEF Requested, Steady
<1>3. /\ Base \in Nat /\ HeaderEnd(Cur) \in Nat /\ IsRequest(Cur) /\ Cur.before = Base
      /\ HeaderEnd(Cur) = Base + Cur.head /\ Cur.head \in Nat /\ Cur.head >= 4
      /\ Cur.body \in Nat /\ End(Cur) = HeaderEnd(Cur) + Cur.body /\ End(Cur) \in Nat
      /\ Cur.kind \in {"keep", "done", "version", "upgrade", "nows"}
  BY <1>1, <1>2, CurParts
<1>4. PICK n \in Nat : n = req_pos + com_len /\ n = Cur.head + Cur.body BY <1>2, <1>3
<1>5. n <= Len(s) /\ s \in Seq(0..Total) BY <1>2, <1>4 DEF WithinBuffer, Filled, TypeOK
<1>6. End(Cur) - Base = n /\ n >= 1 BY <1>3, <1>4
<1>7. SubSeq(s, 1, n) \in Seq(0..Total) /\ SubSeq(s, 1, n) = [i \in 1..n |-> Base + i]
  BY <1>2, <1>3, <1>4, <1>5, GivenBytes
<1>8. Bytes(Cur) = [i \in 1..n |-> Base + i] BY <1>3, <1>6 DEF Bytes
<1>9. Routed = Cur
  <2>1. s[1] = Base + 1 BY <1>2, <1>4, <1>6 DEF Holds
  <2>2. PICK k \in 1..Len(script) : k = Len(handed) + 1 BY <1>1, CurIs
  <2>3. Cur = script[k] BY <2>2 DEF Cur
  <2>4. Base + 1 \in Nat /\ Base < Base + 1 /\ Base + 1 <= End(Cur) BY <1>3, <1>6
  <2>5. QED BY <1>3, <2>1, <2>3, <2>4, OwnerIs DEF TypeOK, Routed
<1>10. Cur.kind # "version" BY <1>2, <1>3, AcceptedIs
<1>11. rpos <= arrived BY Places
<1>12. QED BY <1>1, <1>2, <1>3, <1>4, <1>7, <1>8, <1>9, <1>10, <1>11

\* The user function answers and the connection is kept: the next header is to be read.
LEMMA HttpKeepInv ==
  ASSUME Inv, HttpKeep
  PROVE  Inv' /\ Server!Hand
<1>0. TypeOK /\ WithinBuffer /\ pc = "route" /\ Steady /\ Phase /\ Given
  BY DEF Inv, HttpKeep
<1>1. /\ More /\ Routed = Cur /\ IsRequest(Cur)
      /\ SubSeq(s, 1, req_pos + com_len) = Bytes(Cur) /\ Bytes(Cur) \in Seq(0..Total)
      /\ End(Cur) \in Nat /\ rpos = End(Cur) /\ End(Cur) <= arrived
      /\ Server!Accepted(Cur) /\ Len(s) = Buffer /\ step = 0
  BY <1>0, RoutedIs
<1>2. /\ Cur.kind = "keep" /\ handed' = Append(handed, Bytes(Cur))
      /\ user_data' = "none" /\ ResetData(Len(s)) /\ pc' = "epoll"
      /\ UNCHANGED <<script, arrived, rpos, checked, nul, frame, step>>
  BY <1>1 DEF HttpKeep, Give, stream
<1>3. s' \in Seq(0..Total) /\ Len(s') = Len(s) /\ req_pos' = 0 /\ req_len' = 0 /\ com_len' = 0
  BY <1>0, <1>2, Places, ResetClears
<1>4. /\ Given' /\ handed' \in Seq(Seq(0..Total)) /\ Base' = End(Cur) /\ ~Switched'
      /\ More' => HeaderEnd(Cur') \in Nat /\ HeaderEnd(Cur') > End(Cur)
  BY <1>0, <1>1, <1>2, HandStep
<1>5. TypeOK' BY <1>0, <1>2, <1>3, <1>4 DEF TypeOK, Total
<1>6. WithinBuffer' BY <1>0, <1>1, <1>2, <1>3, Numbers DEF WithinBuffer, Filled
<1>7. ~InFrameHeader(arrived)' BY <1>2 DEF Inv, InFrameHeader, Messages
<1>8. Steady' BY <1>1, <1>2, <1>3, <1>4, Numbers DEF Steady
<1>9. Header' BY <1>1, <1>2, <1>3, <1>4, Numbers DEF Header, Holds
<1>10. Server!Hand BY <1>0, <1>1, <1>2, HandIs
<1>11. QED BY <1>4, <1>5, <1>6, <1>7, <1>8, <1>9, <1>10 DEF Inv, Phase

\* The user function answers and the connection ends.
LEMMA HttpDoneInv ==
  ASSUME Inv, HttpDone
  PROVE  Inv' /\ Server!Hand
<1>0. TypeOK /\ WithinBuffer /\ pc = "route" /\ Steady /\ Phase /\ Given
  BY DEF Inv, HttpDone
<1>1. /\ More /\ Routed = Cur
      /\ SubSeq(s, 1, req_pos + com_len) = Bytes(Cur) /\ Bytes(Cur) \in Seq(0..Total)
      /\ End(Cur) <= arrived /\ Server!Accepted(Cur)
  BY <1>0, RoutedIs
<1>2. /\ Cur.kind = "done" /\ handed' = Append(handed, Bytes(Cur)) /\ pc' = "closed"
      /\ UNCHANGED <<script, arrived, rpos, s, req_pos, req_len, com_len, checked, nul>>
      /\ UNCHANGED <<user_data, frame, step>>
  BY <1>1 DEF HttpDone, Give, stream, recv, info
<1>3. Given' /\ handed' \in Seq(Seq(0..Total)) BY <1>0, <1>1, <1>2, HandStep
<1>4. TypeOK' BY <1>0, <1>2, <1>3 DEF TypeOK, Total
<1>5. WithinBuffer' BY <1>0, <1>2 DEF WithinBuffer, Filled
<1>6. ~InFrameHeader(arrived)' BY <1>2 DEF Inv, InFrameHeader, Messages
<1>7. Server!Hand BY <1>0, <1>1, <1>2, HandIs
<1>8. QED BY <1>2, <1>3, <1>4, <1>5, <1>6, <1>7 DEF Inv

\* The connection becomes a websocket, or ends where there is no route for it.
LEMMA HttpUpgradeInv ==
  ASSUME Inv, HttpUpgrade
  PROVE  Inv' /\ Server!Hand
<1>0. TypeOK /\ WithinBuffer /\ pc = "route" /\ Steady /\ Phase /\ Given
  BY DEF Inv, HttpUpgrade
<1>1. /\ More /\ Routed = Cur /\ IsRequest(Cur)
      /\ SubSeq(s, 1, req_pos + com_len) = Bytes(Cur) /\ Bytes(Cur) \in Seq(0..Total)
      /\ rpos = End(Cur) /\ End(Cur) <= arrived /\ Server!Accepted(Cur)
      /\ Quiet /\ Len(s) = Buffer /\ user_data = "request"
  BY <1>0, RoutedIs
<1>2. /\ Cur.kind \in {"upgrade", "nows"} /\ handed' = Append(handed, Bytes(Cur))
      /\ user_data' = "ws" /\ frame' = NoFrame /\ step' = 0
      /\ pc' = IF Cur.kind = "nows" THEN "closed" ELSE "epoll"
      /\ UNCHANGED <<script, arrived, rpos, s, req_pos, req_len, com_len, checked, nul>>
  BY <1>1 DEF HttpUpgrade, Give, stream, recv
<1>3. /\ Given' /\ handed' \in Seq(Seq(0..Total)) /\ Base' = End(Cur)
      /\ Switched' <=> Cur.kind = "upgrade"
  BY <1>0, <1>1, <1>2, HandStep
<1>4. NoFrame \in Frames BY DEF NoFrame, Frames
<1>5. TypeOK' BY <1>0, <1>2, <1>3, <1>4 DEF TypeOK, Total
<1>6. WithinBuffer'
  <2>1. com_len <= Len(s) BY <1>0, <1>1, Places DEF WithinBuffer, Filled
  <2>2. QED BY <1>0, <1>2, <2>1 DEF WithinBuffer, Filled
<1>7. ~InFrameHeader(arrived)' BY <1>2 DEF Inv, InFrameHeader, Messages
<1>8. Server!Hand BY <1>0, <1>1, <1>2, HandIs
<1>9. CASE Cur.kind = "nows" BY <1>2, <1>3, <1>5, <1>6, <1>7, <1>8, <1>9 DEF Inv
<1>10. CASE Cur.kind = "upgrade"
  <2>1. Steady' BY <1>1, <1>2, <1>3, <1>10, Numbers DEF Steady
  <2>2. Idle' BY <1>1, <1>2, <1>3, <1>10 DEF Idle, Quiet
  <2>3. QED BY <1>3, <1>5, <1>6, <1>7, <1>8, <2>1, <2>2 DEF Inv, Phase
<1>11. QED BY <1>2, <1>9, <1>10

\* A frame's header arrives as a whole.
LEMMA HeaderArrived ==
  ASSUME TypeOK, Given, Steady, More, ~IsRequest(Cur), ~InFrameHeader(arrived), Base < arrived
  PROVE  HeaderEnd(Cur) <= arrived
<1>1. Len(handed) + 1 \in 1..Len(script) /\ DOMAIN script = 1..Len(script)
  BY CurIs, StreamPlaces DEF TypeOK
<1>2. Cur \in Messages BY <1>1 DEF Messages, Cur
<1>3. Cur.before = Base /\ HeaderEnd(Cur) \in Nat /\ arrived \in Nat BY CurParts, Places
<1>4. ~(arrived < HeaderEnd(Cur)) BY <1>2, <1>3 DEF InFrameHeader
<1>5. QED BY <1>3, <1>4

\* The two leading bytes of a frame announce it.
LEMMA WsLeadInv == ASSUME Inv, WsLead PROVE Inv' /\ pc' # "closed"
<1>0. /\ TypeOK /\ WithinBuffer /\ pc = "lead" /\ Steady /\ Phase /\ Given /\ arrived - rpos > 0
      /\ ~InFrameHeader(arrived)
  BY DEF Inv, WsLead, Waiting
<1>1. Idle /\ More
  BY <1>0 DEF Phase, Header, Headed, Body, Requested, Leading, Sized, Data, Framed, InFrame, Steady
<1>2. user_data = "ws" /\ rpos = Base /\ step = 0 /\ Buffer <= Len(s)
  BY <1>0, <1>1 DEF Idle, Steady
<1>3. /\ Base \in Nat /\ Cur \in Frames /\ Cur.before = Base /\ ~IsRequest(Cur)
      /\ HeaderEnd(Cur) = Base + (2 + Cur.ext + Cur.mask) /\ HeaderEnd(Cur) \in Nat
      /\ Cur.ext \in {0, 2, 8} /\ Cur.mask \in {0, 4} /\ Cur.body \in Nat
      /\ End(Cur) = HeaderEnd(Cur) + Cur.body
  BY <1>0, <1>1, <1>2, CurParts, MessageSizes
<1>4. arrived \in Nat /\ rpos \in Nat /\ arrived <= Total /\ Total \in Nat /\ Base < arrived
      /\ Len(s) \in Nat
  BY <1>0, <1>2, Places
<1>5. HeaderEnd(Cur) <= arrived BY <1>0, <1>1, <1>3, <1>4, HeaderArrived
<1>6. rpos + 2 <= arrived BY <1>2, <1>3, <1>4, <1>5, SMTT(40)
<1>7. Least(2, Waiting) = 2 BY <1>4, <1>6 DEF Least, Waiting
<1>8. Announced(2) = {Cur}
  <2>1. PICK k \in 1..Len(script) : k = Len(handed) + 1 BY <1>0, <1>1, CurIs
  <2>2. DOMAIN script = 1..Len(script) BY <1>0, StreamPlaces DEF TypeOK
  <2>3. Cur = script[k] /\ Cur \in Messages BY <2>1, <2>2 DEF Cur, Messages
  <2>4. InStep BY <1>2, <1>3, <2>3 DEF InStep
  <2>5. rpos + 1 \in Nat /\ Base < rpos + 1 /\ rpos + 1 <= End(Cur)
    <3>1. Cur.ext \in Nat /\ Cur.mask \in Nat BY <1>3
    <3>2. PICK h \in Nat : h = HeaderEnd(Cur) /\ h >= Base + 2 BY <1>3, <3>1
    <3>3. QED BY <1>2, <1>3, <3>2
  <2>6. Owner(rpos + 1) = Cur BY <1>0, <1>3, <2>3, <2>5, OwnerIs DEF TypeOK
  <2>7. QED BY <2>4, <2>6 DEF Announced
<1>9. /\ Read(0, 2) /\ com_len' = 2 /\ frame' = Cur
      /\ pc' = IF frame'.ext > 0 THEN "ext" ELSE IF frame'.mask > 0 THEN "mask" ELSE "sized"
      /\ UNCHANGED <<script, arrived, req_pos, req_len, checked, nul, user_data, step, handed>>
  BY <1>7, <1>8 DEF WsLead, stream
<1>10. s' \in Seq(0..Total) /\ Len(s') = Len(s) /\ rpos' = rpos + 2
  <2>1. s \in Seq(0..Total) /\ rpos + 2 <= Total BY <1>0, <1>4, <1>6 DEF TypeOK
  <2>2. QED BY <1>4, <1>9, <2>1, ReadFills
<1>11. /\ Given' /\ ~InFrameHeader(arrived)'
       /\ Base' = Base /\ (More' <=> More) /\ Cur' = Cur /\ (Switched' <=> Switched)
  BY <1>0, <1>9, SameMessage
<1>12. /\ pc' \in {"ext", "mask", "sized"}
       /\ pc' = "ext" <=> Cur.ext > 0
       /\ pc' = "mask" => Cur.ext = 0 /\ Cur.mask > 0
       /\ pc' = "sized" => Cur.ext = 0 /\ Cur.mask = 0
  BY <1>3, <1>9
<1>13. TypeOK'
  <2>1. rpos' \in 0..arrived' BY <1>4, <1>6, <1>9, <1>10
  <2>2. QED BY <1>0, <1>3, <1>9, <1>10, <1>12, <2>1 DEF TypeOK, Total
<1>14. WithinBuffer'
  BY <1>0, <1>2, <1>4, <1>9, <1>10, <1>12, Numbers DEF WithinBuffer, Filled
<1>15. Steady' BY <1>0, <1>1, <1>2, <1>9, <1>10, <1>11, <1>12 DEF Steady
<1>16. Leading'
  BY <1>2, <1>3, <1>5, <1>9, <1>10, <1>11, <1>12 DEF Leading, InFrame
<1>17. QED BY <1>11, <1>12, <1>13, <1>14, <1>15, <1>16 DEF Inv, Phase

\* What is known while the header of a frame is read.
LEMMA LeadingIs ==
  ASSUME TypeOK, Given, Steady, Phase, InFrame
  PROVE  /\ Leading /\ More /\ user_data = "ws" /\ step = 0 /\ frame = Cur /\ frame \in Frames
         /\ Base \in Nat /\ Cur.before = Base /\ ~IsRequest(Cur)
         /\ HeaderEnd(Cur) = Base + (2 + frame.ext + frame.mask) /\ HeaderEnd(Cur) \in Nat
         /\ frame.ext \in {0, 2, 8} /\ frame.mask \in {0, 4} /\ frame.body \in Nat
         /\ HeaderEnd(Cur) <= arrived /\ arrived <= Total
         /\ arrived \in Nat /\ Total \in Nat /\ rpos \in Nat /\ com_len \in Nat /\ Len(s) \in Nat
         /\ rpos = Base + com_len /\ Buffer <= Len(s) /\ s \in Seq(0..Total)
         /\ req_pos \in Nat /\ req_len \in Nat
<1>1. Leading /\ More
  BY DEF Phase, Header, Headed, Body, Requested, Idle, Sized, Data, Framed, InFrame, Steady
<1>2. /\ user_data = "ws" /\ step = 0 /\ frame = Cur /\ rpos = Base + com_len
      /\ HeaderEnd(Cur) <= arrived /\ Buffer <= Len(s)
  BY <1>1 DEF Leading, Steady
<1>3. frame \in Frames /\ s \in Seq(0..Total) BY DEF TypeOK
<1>4. /\ Base \in Nat /\ Cur.before = Base /\ ~IsRequest(Cur)
      /\ HeaderEnd(Cur) = Base + (2 + Cur.ext + Cur.mask) /\ HeaderEnd(Cur) \in Nat
  BY <1>1, <1>2, CurParts
<1>5. QED BY <1>1, <1>2, <1>3, <1>4, Places

\* The extended length of a frame is read.
LEMMA WsExtInv == ASSUME Inv, WsExt PROVE Inv' /\ pc' # "closed"
<1>0. TypeOK /\ WithinBuffer /\ pc = "ext" /\ InFrame /\ Steady /\ Phase /\ Given
  BY DEF Inv, WsExt, InFrame
<1>1. /\ Leading /\ More /\ user_data = "ws" /\ step = 0 /\ frame = Cur
      /\ Base \in Nat
      /\ HeaderEnd(Cur) = Base + (2 + frame.ext + frame.mask) /\ HeaderEnd(Cur) \in Nat
      /\ frame.ext \in {0, 2, 8} /\ frame.mask \in {0, 4}
      /\ HeaderEnd(Cur) <= arrived /\ arrived <= Total
      /\ arrived \in Nat /\ Total \in Nat /\ rpos \in Nat /\ com_len \in Nat /\ Len(s) \in Nat
      /\ rpos = Base + com_len /\ Buffer <= Len(s) /\ s \in Seq(0..Total)
  BY <1>0, LeadingIs
<1>2. com_len = 2 /\ frame.ext > 0 BY <1>0, <1>1 DEF Leading
<1>3. rpos + frame.ext <= arrived BY <1>1, <1>2, SMTT(40)
<1>4. Least(frame.ext, Waiting) = frame.ext BY <1>1, <1>3 DEF Least, Waiting
<1>5. /\ Read(com_len, frame.ext) /\ com_len' = com_len + frame.ext /\ frame' = frame
      /\ pc' = IF frame.mask > 0 THEN "mask" ELSE "sized"
      /\ UNCHANGED <<script, arrived, req_pos, req_len, checked, nul, user_data, step, handed>>
  BY <1>1, <1>4 DEF WsExt, stream
<1>14. frame.ext \in Nat /\ frame.mask \in Nat /\ rpos + frame.ext \in Nat
       /\ rpos + frame.ext <= Total /\ com_len + frame.ext = 2 + frame.ext /\ 2 + frame.ext \in Nat
       /\ 2 + frame.ext <= Buffer /\ rpos + frame.ext = Base + (2 + frame.ext)
       /\ 2 + frame.ext + 0 = 2 + frame.ext
  <2>1. PICK x \in Nat : x = frame.ext /\ x <= 8 BY <1>1
  <2>2. frame.mask \in Nat BY <1>1
  <2>3. PICK b \in Nat, c \in Nat, r \in Nat : b = Base /\ c = com_len /\ r = rpos BY <1>1
  <2>4. r + x <= Total /\ Total \in Nat BY <1>1, <1>3, <2>1, <2>3
  <2>5. c = 2 /\ r = b + c BY <1>1, <1>2, <2>3
  <2>6. r + x \in Nat /\ c + x = 2 + x /\ 2 + x \in Nat /\ r + x = b + (2 + x) /\ 2 + x + 0 = 2 + x
    BY <2>1, <2>3, <2>5
  <2>7. 2 + x <= Buffer BY <2>1, Numbers
  <2>8. QED BY <2>1, <2>2, <2>3, <2>4, <2>6, <2>7
<1>6. s' \in Seq(0..Total) /\ Len(s') = Len(s) /\ rpos' = rpos + frame.ext
  BY <1>1, <1>5, <1>14, ReadFills
<1>7. /\ Given' /\ ~InFrameHeader(arrived)'
      /\ Base' = Base /\ (More' <=> More) /\ Cur' = Cur /\ (Switched' <=> Switched)
  BY <1>0, <1>5, SameMessage
<1>8. /\ pc' \in {"mask", "sized"}
      /\ pc' = "mask" => frame.mask > 0
      /\ pc' = "sized" => frame.mask = 0
  BY <1>1, <1>5
<1>9. TypeOK'
  <2>1. rpos + frame.ext \in 0..arrived BY <1>1, <1>3, <1>14
  <2>2. rpos' \in 0..arrived' /\ com_len' \in Nat BY <1>5, <1>6, <1>14, <2>1
  <2>3. QED BY <1>0, <1>5, <1>6, <1>8, <2>2 DEF TypeOK, Total
<1>10. WithinBuffer'
  <2>1. com_len' <= Len(s') BY <1>1, <1>5, <1>6, <1>14, Numbers, SMTT(40)
  <2>2. QED BY <1>0, <1>1, <1>5, <1>6, <2>1 DEF WithinBuffer, Filled
<1>11. Steady' BY <1>0, <1>1, <1>5, <1>6, <1>7, <1>8 DEF Steady
<1>12. Leading'
  <2>1. com_len' = 2 + frame.ext /\ rpos' = Base + com_len' BY <1>5, <1>6, <1>14
  <2>2. com_len' = 2 + (IF pc' = "ext" THEN 0 ELSE frame.ext)
                     + (IF pc' = "sized" THEN frame.mask ELSE 0)
    BY <1>8, <1>14, <2>1
  <2>3. QED BY <1>1, <1>5, <1>7, <1>8, <2>1, <2>2 DEF Leading, InFrame
<1>13. QED BY <1>7, <1>8, <1>9, <1>10, <1>11, <1>12 DEF Inv, Phase

\* The mask of a frame is read.
LEMMA WsMaskInv == ASSUME Inv, WsMask PROVE Inv' /\ pc' # "closed"
<1>0. TypeOK /\ WithinBuffer /\ pc = "mask" /\ InFrame /\ Steady /\ Phase /\ Given
  BY DEF Inv, WsMask, InFrame
<1>1. /\ Leading /\ More /\ user_data = "ws" /\ step = 0 /\ frame = Cur
      /\ Base \in Nat
      /\ HeaderEnd(Cur) = Base + (2 + frame.ext + frame.mask) /\ HeaderEnd(Cur) \in Nat
      /\ frame.ext \in {0, 2, 8} /\ frame.mask \in {0, 4}
      /\ HeaderEnd(Cur) <= arrived /\ arrived <= Total
      /\ arrived \in Nat /\ Total \in Nat /\ rpos \in Nat /\ com_len \in Nat /\ Len(s) \in Nat
      /\ rpos = Base + com_len /\ Buffer <= Len(s) /\ s \in Seq(0..Total)
  BY <1>0, LeadingIs
<1>2. com_len = 2 + frame.ext BY <1>0, <1>1, SMTT(40) DEF Leading
<1>3. rpos + frame.mask <= arrived BY <1>1, <1>2, SMTT(40)
<1>4. Least(frame.mask, Waiting) = frame.mask BY <1>1, <1>3 DEF Least, Waiting
<1>5. /\ Read(com_len, frame.mask) /\ com_len' = com_len + frame.mask /\ pc' = "sized"
      /\ UNCHANGED <<script, arrived, req_pos, req_len, checked, nul, user_data, frame, step>>
      /\ UNCHANGED handed
  BY <1>1, <1>4 DEF WsMask, stream, info
<1>13. 2 + frame.ext + frame.mask <= Buffer /\ rpos + frame.mask = Base + (2 + frame.ext + frame.mask)
       /\ 2 + frame.ext + frame.mask \in Nat
  <2>1. PICK x \in Nat : x = frame.ext /\ x <= 8 BY <1>1
  <2>2. PICK y \in Nat : y = frame.mask /\ y <= 4 BY <1>1
  <2>3. PICK b \in Nat, c \in Nat, r \in Nat : b = Base /\ c = com_len /\ r = rpos BY <1>1
  <2>4. c = 2 + x /\ r = b + c BY <1>1, <1>2, <2>1, <2>3
  <2>5. r + y = b + (2 + x + y) /\ 2 + x + y \in Nat BY <2>2, <2>3, <2>4
  <2>6. 2 + x + y <= Buffer BY <2>1, <2>2, Numbers
  <2>7. QED BY <2>1, <2>2, <2>3, <2>5, <2>6
<1>6. s' \in Seq(0..Total) /\ Len(s') = Len(s) /\ rpos' = rpos + frame.mask
  BY <1>1, <1>3, <1>5, ReadFills
<1>7. /\ Given' /\ ~InFrameHeader(arrived)'
      /\ Base' = Base /\ (More' <=> More) /\ Cur' = Cur /\ (Switched' <=> Switched)
  BY <1>0, <1>5, SameMessage
<1>8. TypeOK'
  <2>1. rpos' \in 0..arrived' /\ com_len' \in Nat BY <1>1, <1>3, <1>5, <1>6, SMTT(40)
  <2>2. QED BY <1>0, <1>5, <1>6, <2>1 DEF TypeOK, Total
<1>9. WithinBuffer'
  <2>1. com_len' <= Len(s') BY <1>1, <1>2, <1>5, <1>6, <1>13, Numbers
  <2>2. QED BY <1>0, <1>1, <1>5, <1>6, <2>1 DEF WithinBuffer, Filled
<1>10. Steady' BY <1>0, <1>1, <1>5, <1>6, <1>7 DEF Steady
<1>11. Leading'
  <2>1. com_len' = 2 + frame.ext + frame.mask /\ rpos' = Base + com_len'
    BY <1>2, <1>5, <1>6, <1>13
  <2>2. QED BY <1>1, <1>5, <1>7, <2>1 DEF Leading, InFrame
<1>12. QED BY <1>5, <1>7, <1>8, <1>9, <1>10, <1>11 DEF Inv, Phase

\* A frame that is too long ends the connection.
LEMMA WsRefuseInv == ASSUME Inv, WsRefuse PROVE Inv' /\ Server!Refuse
<1>0. TypeOK /\ WithinBuffer /\ pc = "sized" /\ InFrame /\ Steady /\ Phase /\ Given /\ TooLong(frame)
  BY DEF Inv, WsRefuse, InFrame
<1>1. /\ More /\ frame = Cur /\ Cur.before = Base /\ ~IsRequest(Cur) /\ Base \in Nat
      /\ HeaderEnd(Cur) = Base + (2 + frame.ext + frame.mask) /\ HeaderEnd(Cur) <= arrived
      /\ arrived \in Nat /\ frame.ext \in {0, 2, 8} /\ frame.mask \in {0, 4}
  BY <1>0, LeadingIs
<1>2. /\ pc' = "closed" /\ UNCHANGED <<script, arrived, rpos, s, req_pos, req_len, com_len>>
      /\ UNCHANGED <<checked, nul, user_data, frame, step, handed>>
  BY DEF WsRefuse, stream, recv, info
<1>3. Given' /\ ~InFrameHeader(arrived)' BY <1>0, <1>2, SameMessage
<1>4. TypeOK' BY <1>0, <1>2 DEF TypeOK, Total
<1>5. WithinBuffer' BY <1>0, <1>2 DEF WithinBuffer, Filled
<1>6. ~Server!Accepted(Cur) /\ Base < arrived BY <1>0, <1>1, AcceptedIs
<1>7. Server!Refuse BY <1>0, <1>1, <1>2, <1>6, RefuseIs
<1>8. QED BY <1>2, <1>3, <1>4, <1>5, <1>7 DEF Inv

\* The buffer is cleared, and made longer if the data needs it.
LEMMA WsSizedInv == ASSUME Inv, WsSized PROVE Inv' /\ pc' # "closed"
<1>0. TypeOK /\ WithinBuffer /\ pc = "sized" /\ InFrame /\ Steady /\ Phase /\ Given /\ ~TooLong(frame)
  BY DEF Inv, WsSized, InFrame
<1>1. /\ Leading /\ More /\ user_data = "ws" /\ frame = Cur /\ ~IsRequest(Cur)
      /\ Base \in Nat
      /\ HeaderEnd(Cur) = Base + (2 + frame.ext + frame.mask)
      /\ frame.body \in Nat /\ Total \in Nat /\ Len(s) \in Nat
      /\ rpos = Base + com_len /\ Buffer <= Len(s)
  BY <1>0, LeadingIs
<1>2. rpos = HeaderEnd(Cur) BY <1>0, <1>1 DEF Leading
<1>3. PICK n \in Nat : n = Grown(frame) /\ n >= frame.body /\ n >= Len(s)
  BY <1>1 DEF Grown
<1>4. /\ step' = 1 /\ ResetData(n) /\ pc' = "data"
      /\ UNCHANGED <<script, arrived, rpos, checked, nul, user_data, frame, handed>>
  BY <1>3 DEF WsSized, stream
<1>5. s' \in Seq(0..Total) /\ Len(s') = n /\ req_pos' = 0 /\ req_len' = 0 /\ com_len' = 0
  BY <1>1, <1>4, ResetClears
<1>6. /\ Given' /\ ~InFrameHeader(arrived)'
      /\ Base' = Base /\ (More' <=> More) /\ Cur' = Cur /\ (Switched' <=> Switched)
  BY <1>0, <1>4, SameMessage
<1>7. TypeOK' BY <1>0, <1>4, <1>5 DEF TypeOK, Total
<1>8. WithinBuffer'
  <2>0. nul \in Nat /\ nul <= Len(s) + 1 /\ Len(s) \in Nat
    BY <1>0, Places DEF WithinBuffer, TypeOK
  <2>1. nul <= n + 1 /\ n + 1 \in Nat BY <1>3, <2>0
  <2>2. QED BY <1>3, <1>4, <1>5, <2>1 DEF WithinBuffer, Filled
<1>9. Buffer <= n BY <1>1, <1>3, Numbers
<1>10. Steady' BY <1>0, <1>1, <1>4, <1>5, <1>6, <1>9 DEF Steady
<1>11. Server!Accepted(Cur) BY <1>0, <1>1, AcceptedIs
<1>12. Sized' BY <1>1, <1>2, <1>3, <1>4, <1>5, <1>6, <1>11 DEF Sized
<1>13. QED BY <1>4, <1>6, <1>7, <1>8, <1>10, <1>12 DEF Inv, Phase

\* The data is read, and what is missing is left to the automatic reception.
LEMMA WsDataInv == ASSUME Inv, WsData PROVE Inv' /\ pc' # "closed"
<1>0. /\ TypeOK /\ WithinBuffer /\ pc = "data" /\ Steady /\ Phase /\ Given
      /\ frame.body > 0 => arrived - rpos > 0
  BY DEF Inv, WsData, Waiting
<1>1. Sized /\ More
  BY <1>0 DEF Phase, Header, Headed, Body, Requested, Idle, Leading, Data, Framed, InFrame, Steady
<1>2. /\ user_data = "ws" /\ step = 1 /\ frame = Cur /\ req_pos = 0 /\ req_len = 0 /\ com_len = 0
      /\ Server!Accepted(Cur) /\ frame.body <= Len(s) /\ rpos = HeaderEnd(Cur)
      /\ Buffer <= Len(s)
  BY <1>0, <1>1 DEF Sized, Steady
<1>3. /\ HeaderEnd(Cur) \in Nat /\ End(Cur) = HeaderEnd(Cur) + frame.body
      /\ frame.body \in Nat /\ s \in Seq(0..Total)
      /\ rpos \in Nat /\ arrived \in Nat /\ rpos <= arrived /\ arrived <= Total /\ Total \in Nat
      /\ Len(s) \in Nat
  BY <1>0, <1>1, <1>2, CurParts, Places DEF TypeOK
<1>4. PICK n \in Nat : n = Least(frame.body, Waiting) /\ n <= frame.body /\ rpos + n <= arrived
  <2>1. PICK d \in Nat : d = arrived - rpos BY <1>3
  <2>2. PICK n \in Nat : n = Least(frame.body, d) /\ n <= frame.body /\ n <= d
    BY <1>3 DEF Least
  <2>3. rpos + n <= arrived BY <1>3, <2>1, <2>2
  <2>4. QED BY <2>1, <2>2, <2>3 DEF Waiting
<1>5. /\ Read(0, n)
      /\ IF n < frame.body
            THEN req_pos' = n /\ req_len' = frame.body - n /\ com_len' = 0 /\ pc' = "epoll"
            ELSE com_len' = n /\ pc' = "user" /\ UNCHANGED <<req_pos, req_len>>
      /\ UNCHANGED <<script, arrived, checked, nul, user_data, frame, step, handed>>
  BY <1>4 DEF WsData, stream, info
<1>6. /\ s' \in Seq(0..Total) /\ Len(s') = Len(s) /\ rpos' = rpos + n
      /\ \A i \in 1..n : s'[i] = HeaderEnd(Cur) + i
  <2>1. 0 + n = n /\ n <= Len(s) /\ rpos + n <= Total /\ rpos = HeaderEnd(Cur) + 0
    BY <1>2, <1>3, <1>4
  <2>2. Holds(HeaderEnd(Cur), 0) BY DEF Holds
  <2>3. s' \in Seq(0..Total) /\ Len(s') = Len(s) /\ rpos' = rpos + n
    BY <1>3, <1>5, <2>1, ReadFills
  <2>4. \A i \in 1 .. 0 + n : s'[i] = HeaderEnd(Cur) + i
    BY <1>3, <1>5, <2>1, <2>2, ReadHolds
  <2>5. QED BY <2>1, <2>3, <2>4
<1>7. /\ Given' /\ ~InFrameHeader(arrived)'
      /\ Base' = Base /\ (More' <=> More) /\ Cur' = Cur /\ (Switched' <=> Switched)
  BY <1>0, <1>5, SameMessage
<1>8. rpos' \in 0..arrived'
  <2>1. rpos + n \in 0..arrived BY <1>3, <1>4
  <2>2. QED BY <1>5, <1>6, <2>1
<1>9. CASE n < frame.body
  <2>1. req_pos' = n /\ req_len' = frame.body - n /\ com_len' = 0 /\ pc' = "epoll" BY <1>5, <1>9
  <2>2. PICK k \in Nat : k = frame.body - n /\ k > 0 /\ n + k = frame.body
    <3>1. PICK d \in Nat : d = frame.body BY <1>3
    <3>2. d - n \in Nat /\ d - n > 0 /\ n + (d - n) = d BY <1>9, <3>1
    <3>3. QED BY <3>1, <3>2
  <2>3. TypeOK' BY <1>0, <1>5, <1>6, <1>8, <2>1, <2>2 DEF TypeOK, Total
  <2>4. WithinBuffer'
    <3>1. n <= Len(s) /\ n + 0 = n BY <1>2, <1>3, <1>4
    <3>2. Filled' = n BY <1>2, <1>5, <2>1, <3>1 DEF Filled
    <3>3. req_pos' + req_len' <= Len(s') BY <1>2, <1>6, <2>1, <2>2
    <3>4. QED BY <1>0, <1>5, <1>6, <3>1, <3>2, <3>3 DEF WithinBuffer
  <2>5. Steady' BY <1>0, <1>1, <1>2, <1>5, <1>6, <1>7, <2>1 DEF Steady
  <2>6. rpos' = HeaderEnd(Cur) + n + 0 /\ n + 0 = n BY <1>2, <1>3, <1>6
  <2>7. Data' BY <1>1, <1>2, <1>5, <1>6, <1>7, <2>1, <2>2, <2>6 DEF Data, Holds
  <2>8. QED BY <1>7, <2>1, <2>3, <2>4, <2>5, <2>7 DEF Inv, Phase
<1>10. CASE ~(n < frame.body)
  <2>1. com_len' = n /\ pc' = "user" /\ UNCHANGED <<req_pos, req_len>> BY <1>5, <1>10
  <2>2. n = frame.body /\ 0 + n = frame.body BY <1>3, <1>4, <1>10
  <2>3. TypeOK' BY <1>0, <1>5, <1>6, <1>8, <2>1 DEF TypeOK, Total
  <2>4. WithinBuffer' BY <1>0, <1>2, <1>3, <1>5, <1>6, <2>1, <2>2 DEF WithinBuffer, Filled
  <2>5. Steady' BY <1>0, <1>1, <1>2, <1>5, <1>6, <1>7, <2>1 DEF Steady
  <2>6. rpos' = End(Cur) BY <1>2, <1>3, <1>6, <2>2
  <2>7. Framed' BY <1>2, <1>5, <1>6, <1>7, <2>1, <2>2, <2>6 DEF Framed, Holds
  <2>8. QED BY <1>7, <2>1, <2>3, <2>4, <2>5, <2>7 DEF Inv, Phase
<1>11. QED BY <1>9, <1>10

\* The user function is given the data of a frame.
LEMMA WsUserInv == ASSUME Inv, WsUser PROVE Inv' /\ Server!Hand
<1>0. TypeOK /\ WithinBuffer /\ pc = "user" /\ Steady /\ Phase /\ Given BY DEF Inv, WsUser
<1>1. Framed /\ More
  BY <1>0 DEF Phase, Header, Headed, Body, Requested, Idle, Leading, Sized, Data, InFrame, Steady
<1>2. /\ user_data = "ws" /\ frame = Cur /\ Server!Accepted(Cur) /\ frame.body <= Len(s)
      /\ rpos = End(Cur) /\ Holds(HeaderEnd(Cur), frame.body) /\ Buffer <= Len(s)
  BY <1>0, <1>1 DEF Framed, Steady
<1>3. /\ HeaderEnd(Cur) \in Nat /\ End(Cur) = HeaderEnd(Cur) + frame.body /\ End(Cur) \in Nat
      /\ frame.body \in Nat /\ s \in Seq(0..Total) /\ ~IsRequest(Cur)
      /\ rpos <= arrived /\ Total \in Nat /\ Len(s) \in Nat /\ Cur.kind \in {"text", "close"}
  BY <1>0, <1>1, <1>2, CurParts, Places DEF TypeOK
<1>4. SubSeq(s, 1, frame.body) = Bytes(Cur) /\ Bytes(Cur) \in Seq(0..Total)
  <2>1. SubSeq(s, 1, frame.body) \in Seq(0..Total)
        /\ SubSeq(s, 1, frame.body) = [i \in 1..frame.body |-> HeaderEnd(Cur) + i]
    BY <1>2, <1>3, GivenBytes
  <2>2. End(Cur) - HeaderEnd(Cur) = frame.body BY <1>3
  <2>3. Bytes(Cur) = [i \in 1..frame.body |-> HeaderEnd(Cur) + i] BY <1>3, <2>2 DEF Bytes
  <2>4. QED BY <2>1, <2>3
<1>5. /\ handed' = Append(handed, Bytes(Cur)) /\ ResetData(Len(s))
      /\ frame' = NoFrame /\ step' = 0
      /\ pc' = IF Cur.kind = "close" THEN "closed" ELSE "epoll"
      /\ UNCHANGED <<script, arrived, rpos, checked, nul, user_data>>
  BY <1>2, <1>4 DEF WsUser, stream
<1>6. s' \in Seq(0..Total) /\ Len(s') = Len(s) /\ req_pos' = 0 /\ req_len' = 0 /\ com_len' = 0
  BY <1>3, <1>5, ResetClears
<1>7. Given' /\ handed' \in Seq(Seq(0..Total)) /\ Base' = End(Cur) /\ Switched'
  BY <1>0, <1>1, <1>3, <1>4, <1>5, HandStep
<1>8. NoFrame \in Frames BY DEF NoFrame, Frames
<1>9. TypeOK' BY <1>0, <1>5, <1>6, <1>7, <1>8 DEF TypeOK, Total
<1>10. WithinBuffer' BY <1>0, <1>3, <1>5, <1>6 DEF WithinBuffer, Filled
<1>11. ~InFrameHeader(arrived)' BY <1>5 DEF Inv, InFrameHeader, Messages
<1>12. pc' # "closed" => Steady' BY <1>2, <1>5, <1>6, <1>7 DEF Steady
<1>13. Idle' \/ pc' = "closed" BY <1>2, <1>5, <1>6, <1>7 DEF Idle, Quiet
<1>14. Server!Hand BY <1>0, <1>1, <1>2, <1>3, <1>5, HandIs
<1>15. QED BY <1>7, <1>9, <1>10, <1>11, <1>12, <1>13, <1>14 DEF Inv, Phase

\* The connection begins with an empty buffer.
LEMMA InitInv == ASSUME Init PROVE Inv /\ Server!Init
<1>1. /\ script \in Scripts /\ arrived = 0 /\ rpos = 0 /\ pc = "epoll"
      /\ s = [i \in 1..Buffer |-> 0] /\ req_pos = 0 /\ req_len = 0 /\ com_len = 0 /\ checked = 0
      /\ nul = 0 /\ user_data = "none" /\ frame = NoFrame /\ step = 0 /\ handed = <<>>
  BY DEF Init
<1>2. Total \in Nat BY <1>1, StreamTotal
<1>3. s \in Seq(0..Total) /\ Len(s) = Buffer
  <2>1. s \in [1..Buffer -> 0..Total] BY <1>1, <1>2
  <2>2. QED BY <1>1, <2>1, Numbers
<1>4. NoFrame \in Frames BY DEF NoFrame, Frames
<1>5. TypeOK BY <1>1, <1>2, <1>3, <1>4 DEF TypeOK
<1>6. WithinBuffer BY <1>1, <1>3, Numbers DEF WithinBuffer, Filled
<1>7. Len(script) \in Nat /\ Len(script) > 0 BY <1>1, StreamPlaces
<1>8. Given /\ Len(handed) = 0 /\ More BY <1>1, <1>7 DEF Given, More
<1>9. ~InFrameHeader(arrived)
  <2>1. SUFFICES ASSUME NEW m \in Messages, m.before < 0 PROVE FALSE
    BY <1>1 DEF InFrameHeader
  <2>2. m \in Requests \union Frames BY <1>1, StreamPlaces DEF Messages
  <2>3. m.before \in Nat BY <2>2, MessageSizes
  <2>4. QED BY <2>1, <2>3
<1>10. Base = 0 /\ ~Switched BY <1>1 DEF Base, Switched
<1>11. Steady BY <1>1, <1>3, <1>8, <1>10, Numbers DEF Steady
<1>12. Header
  <2>1. HeaderEnd(Cur) = Base + HeaderSize(Cur) /\ Cur \in Requests \union Frames
    BY <1>5, <1>8, CurIs
  <2>2. HeaderSize(Cur) \in Nat /\ HeaderSize(Cur) >= 2 BY <2>1, MessageSizes
  <2>3. 0 < HeaderEnd(Cur) BY <1>10, <2>1, <2>2
  <2>4. QED BY <1>1, <1>10, <2>3, Numbers DEF Header, Holds
<1>13. Server!Init BY <1>1 DEF Server!Init
<1>14. QED BY <1>5, <1>6, <1>8, <1>9, <1>11, <1>12, <1>13 DEF Inv, Phase

\* Every step preserves the invariant, and is a step of the server or changes nothing the
\* server is about.
LEMMA StepInv ==
  ASSUME Inv, [Next]_vars, ~SplitHeaders
  PROVE  Inv' /\ [Server!Next]_(Server!avars)
<1>1. CASE Arrive BY <1>1, ArriveInv DEF Server!Next
<1>2. CASE Pool
  <2>1. Inv' /\ pc # "closed" /\ pc' # "closed" /\ UNCHANGED <<script, arrived, handed>>
    BY <1>2, DispatchInv, NoAutoInv, AutoRecvInv DEF Pool, Dispatch, NoAuto, AutoRecv, stream
  <2>2. QED BY <2>1 DEF Server!avars
<1>3. CASE HttpRead \/ HttpParse
  <2>1. Inv' /\ pc # "closed" /\ (pc' # "closed" \/ Server!Refuse)
        /\ UNCHANGED <<script, arrived, handed>>
    BY <1>3, HttpReadInv, HttpParseInv DEF HttpRead, HttpParse, stream
  <2>2. QED BY <2>1 DEF Server!avars, Server!Next
<1>4. CASE HttpBody
  <2>1. Inv' /\ pc # "closed" /\ pc' # "closed" /\ UNCHANGED <<script, arrived, handed>>
    BY <1>4, HttpBodyInv DEF HttpBody, stream
  <2>2. QED BY <2>1 DEF Server!avars
<1>5. CASE HttpKeep \/ HttpDone \/ HttpUpgrade \/ WsUser
  BY <1>5, HttpKeepInv, HttpDoneInv, HttpUpgradeInv, WsUserInv DEF Server!Next
<1>6. CASE WsRefuse BY <1>6, WsRefuseInv DEF Server!Next
<1>7. CASE WsLead \/ WsExt \/ WsMask \/ WsSized \/ WsData
  <2>1. Inv' /\ pc # "closed" /\ pc' # "closed" /\ UNCHANGED <<script, arrived, handed>>
    BY <1>7, WsLeadInv, WsExtInv, WsMaskInv, WsSizedInv, WsDataInv
    DEF WsLead, WsExt, WsMask, WsSized, WsData, stream
  <2>2. QED BY <2>1 DEF Server!avars
<1>8. CASE UNCHANGED vars
  <2>0. /\ UNCHANGED <<script, arrived, rpos, pc, s, req_pos, req_len, com_len, checked>>
        /\ UNCHANGED <<nul, user_data, frame, step, handed>>
    BY <1>8 DEF vars, stream, recv, info
  <2>1. /\ Given' /\ ~InFrameHeader(arrived)'
        /\ Base' = Base /\ (More' <=> More) /\ Cur' = Cur /\ (Switched' <=> Switched)
    BY <2>0, SameMessage
  <2>2. TypeOK' /\ WithinBuffer' BY <2>0 DEF Inv, TypeOK, Total, WithinBuffer, Filled
  <2>3. ASSUME pc' # "closed" PROVE Steady' /\ Phase'
    <3> USE <2>0, <2>1, <2>3 DEF Holds, Quiet, InFrame
    <3>0. Steady /\ Phase BY DEF Inv
    <3>1. Steady' BY <3>0 DEF Steady
    <3>2. CASE Header BY <3>1, <3>2 DEF Phase, Header
    <3>3. CASE Headed BY <3>1, <3>3 DEF Phase, Headed
    <3>4. CASE Body BY <3>1, <3>4 DEF Phase, Body
    <3>5. CASE Requested BY <3>1, <3>5 DEF Phase, Requested
    <3>6. CASE Idle BY <3>1, <3>6 DEF Phase, Idle
    <3>7. CASE Leading BY <3>1, <3>7 DEF Phase, Leading
    <3>8. CASE Sized BY <3>1, <3>8 DEF Phase, Sized
    <3>9. CASE Data BY <3>1, <3>9 DEF Phase, Data
    <3>10. CASE Framed BY <3>1, <3>10 DEF Phase, Framed
    <3>11. QED
      BY <3>0, <3>1, <3>2, <3>3, <3>4, <3>5, <3>6, <3>7, <3>8, <3>9, <3>10 DEF Phase
  <2>4. UNCHANGED Server!avars BY <2>0 DEF Server!avars
  <2>5. QED BY <2>0, <2>1, <2>2, <2>3, <2>4 DEF Inv
<1>9. QED BY <1>1, <1>2, <1>3, <1>4, <1>5, <1>6, <1>7, <1>8 DEF Next, Pool, Http, Websocket

----------------------------------------------------------------------------
(* The theorems, for the segmentations that cut no header of a frame.           *)

\* The invariant holds from the start and every step preserves it.
THEOREM Invariance == ASSUME ~SplitHeaders PROVE Spec => []Inv
<1>1. Init => Inv BY InitInv
<1>2. Inv /\ [Next]_vars => Inv' BY StepInv
<1>3. QED BY <1>1, <1>2, PTL DEF Spec

\* TypeOK (HttpConnProps.tla) holds of every connection of http.cpp and websocket.cpp.
THEOREM TypeCorrect == ASSUME ~SplitHeaders PROVE Spec => []TypeOK
<1>1. Inv => TypeOK BY DEF Inv
<1>2. QED BY <1>1, Invariance, PTL

\* WithinBuffer (HttpConnProps.tla): http(), websocket() and the automatic reception of
\* tst_work receive nothing behind the receive buffer and ask for nothing that would not
\* fit into it; the '\0' of http() is at most one byte behind it.
THEOREM BufferHolds == ASSUME ~SplitHeaders PROVE Spec => []WithinBuffer
<1>1. Inv => WithinBuffer BY DEF Inv
<1>2. QED BY <1>1, Invariance, PTL

\* NoSteal (HttpConnProps.tla): no reader takes a byte of a later message.
THEOREM NothingStolen == ASSUME ~SplitHeaders PROVE Spec => []NoSteal
<1>1. ASSUME Inv PROVE NoSteal
  <2>1. SUFFICES ASSUME pc # "closed", More PROVE rpos <= End(Cur)
    BY DEF NoSteal, More, Cur
  <2>2. TypeOK /\ Given /\ Steady /\ Phase BY <1>1, <2>1 DEF Inv
  <2>3. /\ Base \in Nat /\ Cur.body \in Nat /\ HeaderEnd(Cur) \in Nat /\ End(Cur) \in Nat
        /\ End(Cur) = HeaderEnd(Cur) + Cur.body
        /\ IsRequest(Cur) <=> user_data # "ws"
        /\ IsRequest(Cur) => Cur.head \in Nat /\ HeaderEnd(Cur) = Base + Cur.head
        /\ ~IsRequest(Cur) => /\ Cur.ext \in {0, 2, 8} /\ Cur.mask \in {0, 4}
                              /\ HeaderEnd(Cur) = Base + (2 + Cur.ext + Cur.mask)
    BY <2>1, <2>2, CurParts
  <2>4. /\ rpos \in Nat /\ com_len \in Nat /\ req_pos \in Nat /\ req_len \in Nat
    BY <2>2, Places
  <2>5. CASE Header \/ Headed BY <2>1, <2>3, <2>4, <2>5 DEF Header, Headed
  <2>6. CASE Body BY <2>3, <2>4, <2>6 DEF Body
  <2>7. CASE Requested \/ Framed \/ Sized BY <2>3, <2>4, <2>7 DEF Requested, Framed, Sized
  <2>8. CASE Idle BY <2>3, <2>4, <2>8 DEF Idle
  <2>9. CASE Leading BY <2>3, <2>4, <2>9 DEF Leading, InFrame
  <2>10. CASE Data BY <2>3, <2>4, <2>10 DEF Data
  <2>11. QED BY <2>2, <2>5, <2>6, <2>7, <2>8, <2>9, <2>10 DEF Phase
<1>2. QED BY <1>1, Invariance, PTL

\* HandlersGetWholeMessages (HttpConnProps.tla), which fails when a segment may end inside
\* the header of a frame, holds when none does: the handlers are given the messages of the
\* stream whole, one by one and in order.
THEOREM WholeMessages == ASSUME ~SplitHeaders PROVE Spec => []HandlersGetWholeMessages
<1>1. ASSUME Inv PROVE HandlersGetWholeMessages
  <2>1. TypeOK /\ Given BY <1>1 DEF Inv
  <2>2. Len(handed) \in Nat /\ Len(script) \in Nat /\ DOMAIN handed = 1..Len(handed)
    BY <2>1, CurIs DEF TypeOK
  <2>3. QED BY <2>1, <2>2 DEF Given, HandlersGetWholeMessages
<1>2. QED BY <1>1, Invariance, PTL

\* The connection is a MsgServer: what http(), websocket() and the thread pool do with the
\* stream is, step by step, to hand over the next message whole, to refuse it for good
\* reason, or nothing.  (The safety part of ServesTheStream.)
THEOREM ServesSafely ==
  ASSUME ~SplitHeaders PROVE Spec => Server!Init /\ [][Server!Next]_(Server!avars)
<1>1. Init => Server!Init BY InitInv
<1>2. Inv /\ [Next]_vars => [Server!Next]_(Server!avars) BY StepInv
<1>3. QED BY <1>1, <1>2, Invariance, PTL DEF Spec

=============================================================================
