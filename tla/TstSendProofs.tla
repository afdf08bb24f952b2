---------------------------- MODULE TstSendProofs ---------------------------
(* Proofs about the automatic sending of a worker, for every number of workers, *)
(* every length of a message, size of the kernel's queue and width of com_len,  *)
(* and every sequence of partial writes.                                        *)
EXTENDS TstSend, SequenceTheorems, TLAPS

----------------------------------------------------------------------------
(* The inductive invariant.                                                    *)

Bytes == Messages \X (1..MsgLen)

\* The wire and the kernel's queue.
WireOK ==
  /\ wire \in Seq(Bytes) /\ acked \in 0..Len(wire) /\ Room >= 0
  /\ \A k \in 1..Len(wire) : wire[k] \in Bytes
  /\ \A k \in 1..Len(wire) : wire[k][1] <= made

\* Everything else has its type; messages are composed for a line read or a call made,
\* and the last one composed is in send->s.
RestOK ==
  /\ nonblocking \in BOOLEAN /\ armed \in {"off", "in", "inout", "closed"}
  /\ events \subseteq {"IN", "OUT"} /\ lines \in 0..MaxLines /\ reset \in BOOLEAN
  /\ text \in Messages /\ req_len \in {0, MsgLen} /\ com_len \in 0..(CountMod - 1)
  /\ pc \in [Workers -> {"rest", "auto", "count", "user", "reply", "armin", "armout"}]
  /\ wrote \in [Workers -> {-1} \cup 0..MsgLen]
  /\ apc \in {"idle", "zero", "need"}
  /\ made \in Messages /\ left \in Messages /\ heard \in 0..MaxLines /\ calls \in 0..MaxCalls
  /\ failed \in BOOLEAN /\ overlap \in BOOLEAN
  /\ made + lines = 1 + heard + calls /\ lines <= heard
  /\ text = made

\* One thread has the connection.
Owned ==
  /\ \A v, w \in Workers : pc[v] # "rest" /\ pc[w] # "rest" => v = w
  /\ Busy => apc = "idle"

\* The wire ends before the message in send->s; or with its byte n.
Fresh == wire = <<>> \/ wire[Len(wire)][1] < text
UpTo(n) == wire # <<>> /\ wire[Len(wire)] = <<text, n>>

\* The next byte to write is the one at the place n of send->s.
Continues(n) == IF n = 0 THEN Fresh ELSE UpTo(n)

\* A message has been composed and com_len is still that of the one before.
Composing == apc = "zero" \/ \E w \in Workers : pc[w] = "reply"
Counting == \E w \in Workers : pc[w] = "count"

\* What com_len says of the wire, at each place of the worker.
Counts ==
  /\ Composing => Fresh /\ req_len = MsgLen
  /\ ~Composing /\ ~Counting
       => com_len <= req_len /\ (req_len > 0 => Continues(com_len))
  /\ \A w \in Workers :
       /\ pc[w] = "count" => wrote[w] \in 1..(req_len - com_len) /\ UpTo(com_len + wrote[w])
       /\ pc[w] = "user" /\ "IN" \notin events => com_len = req_len

Inv ==
  /\ WireOK /\ RestOK
  /\ ~overlap => Owned
  /\ ~failed /\ ~overlap => Counts /\ InOrder

----------------------------------------------------------------------------
(* Lemmas.                                                                     *)

\* Messages are numbers, and so are the places in them.
LEMMA Numbers ==
  /\ MsgLen \in Nat /\ MsgLen > 0 /\ SndBuf \in Nat /\ CountMod \in Nat
  /\ CountMod > MsgLen + 1 /\ MaxLines \in Nat /\ MaxCalls \in Nat
  /\ Messages \subseteq Nat /\ 1 \in Messages
  /\ \A n \in Int : n % CountMod \in 0..(CountMod - 1)
  /\ \A n \in 0..MsgLen : n % CountMod = n
<1>1. /\ MsgLen \in Nat /\ MsgLen > 0 /\ SndBuf \in Nat /\ CountMod \in Nat
      /\ CountMod > MsgLen + 1 /\ MaxLines \in Nat /\ MaxCalls \in Nat
  BY SendConstants
<1>2. \A n \in Int : n % CountMod \in 0..(CountMod - 1) BY <1>1
<1>3. \A n \in 0..MsgLen : n % CountMod = n BY <1>1
<1>4. QED BY <1>1, <1>2, <1>3 DEF Messages

\* A write appends the bytes of send->s from the place com on, or nothing if it fails.
LEMMA Appended ==
  ASSUME wire \in Seq(Bytes), text \in Messages, NEW com \in Nat,
         NEW r \in Int, r >= -1, com + r <= MsgLen, Written(com, r),
         NEW n \in Nat, n = IF r = -1 THEN 0 ELSE r
  PROVE  /\ wire' \in Seq(Bytes) /\ Len(wire') = Len(wire) + n
         /\ \A k \in 1..Len(wire) : wire'[k] = wire[k]
         /\ \A k \in 1..n : wire'[Len(wire) + k] = <<text, com + k>>
         /\ failed' = (failed \/ r = -1)
<1> DEFINE s == [i \in 1..n |-> <<text, com + i>>]
<1>1. 1..r = 1..n OBVIOUS
<1>2. wire' = wire \o s /\ failed' = (failed \/ r = -1) BY <1>1 DEF Written
<1>3. \A i \in 1..n : <<text, com + i>> \in Bytes
  <2>1. \A i \in 1..n : com + i \in 1..MsgLen BY Numbers
  <2>2. QED BY <2>1 DEF Bytes
<1>4. s \in Seq(Bytes) /\ Len(s) = n BY <1>3, SMTT(40)
<1>9. Len(wire) \in Nat /\ \A k \in 1..n : s[k] = <<text, com + k>> OBVIOUS
<1> HIDE DEF s
<1>5. /\ wire' \in Seq(Bytes) /\ Len(wire') = Len(wire) + n
      /\ \A k \in 1..(Len(wire) + n) :
           wire'[k] = IF k <= Len(wire) THEN wire[k] ELSE s[k - Len(wire)]
  <2>1. /\ wire \o s \in Seq(Bytes) /\ Len(wire \o s) = Len(wire) + Len(s)
        /\ \A k \in 1..Len(wire) + Len(s) :
             (wire \o s)[k] = IF k <= Len(wire) THEN wire[k] ELSE s[k - Len(wire)]
    BY <1>4, ConcatProperties, Zenon
  <2>2. QED BY <1>2, <1>4, <2>1, Zenon
<1>6. \A k \in 1..Len(wire) : wire'[k] = wire[k] BY <1>9, <1>5
<1>7. ASSUME NEW k \in 1..n PROVE wire'[Len(wire) + k] = <<text, com + k>>
  <2>1. Len(wire) \in Nat BY <1>9
  <2>2. /\ Len(wire) + k \in 1..(Len(wire) + n) /\ ~(Len(wire) + k <= Len(wire))
        /\ Len(wire) + k - Len(wire) = k
    BY <2>1
  <2>3. wire'[Len(wire) + k] = s[k] BY <1>5, <2>2
  <2>4. QED BY <1>9, <2>3
<1>8. QED BY <1>2, <1>5, <1>6, <1>7

\* What write() returns fits into what is asked for and into the kernel's queue.
LEMMA Results ==
  ASSUME NEW k \in Nat, Room \in Nat, NEW r \in WriteResults(k)
  PROVE  /\ r \in Int /\ r >= -1 /\ r <= k /\ r <= Room
         /\ k > 0 => r # 0
BY DEF WriteResults, Least

\* The kernel's queue is within its size.
LEMMA RoomNat == ASSUME WireOK PROVE Room \in Nat /\ Len(wire) \in Nat
<1>1. Len(wire) \in Nat BY DEF WireOK
<1>2. Room \in Int BY <1>1, Numbers DEF WireOK, Room, Queued
<1>3. QED BY <1>1, <1>2 DEF WireOK

----------------------------------------------------------------------------
(* Types, and the messages composed.                                           *)

\* A write keeps the wire in order, and what it returns has its type.
LEMMA WriteTyped ==
  ASSUME WireOK, RestOK, NEW com \in Nat, NEW k \in Nat, com + k <= MsgLen,
         NEW r \in WriteResults(k), Written(com, r), UNCHANGED <<acked, made>>
  PROVE  WireOK' /\ failed' \in BOOLEAN /\ r \in {-1} \cup 0..MsgLen
<1> DEFINE n == IF r = -1 THEN 0 ELSE r
<1>1. Room \in Nat /\ Len(wire) \in Nat BY RoomNat
<1>2. r \in Int /\ r >= -1 /\ r <= k /\ r <= Room BY <1>1, Results
<1>3. n \in Nat /\ n <= Room /\ com + r <= MsgLen BY <1>1, <1>2, Numbers
<1>4. /\ wire' \in Seq(Bytes) /\ Len(wire') = Len(wire) + n
      /\ \A i \in 1..Len(wire) : wire'[i] = wire[i]
      /\ \A i \in 1..n : wire'[Len(wire) + i] = <<text, com + i>>
      /\ failed' = (failed \/ r = -1)
  <2>1. wire \in Seq(Bytes) /\ text \in Messages BY DEF WireOK, RestOK
  <2>2. n = IF r = -1 THEN 0 ELSE r OBVIOUS
  <2> HIDE DEF n
  <2>3. QED BY <1>2, <1>3, <2>1, <2>2, Appended
<1> HIDE DEF n
<1>5. \A i \in 1..Len(wire') : wire'[i] \in Bytes BY <1>4, ElementOfSeq
<1>6. ASSUME NEW i \in 1..Len(wire') PROVE wire'[i][1] <= made'
  <2>1. CASE i <= Len(wire) BY <1>1, <1>4, <2>1 DEF WireOK
  <2>2. CASE i > Len(wire)
    <3>1. i - Len(wire) \in 1..n /\ i = Len(wire) + (i - Len(wire))
      BY <1>1, <1>3, <1>4, <2>2
    <3>2. wire'[i] = <<text, com + (i - Len(wire))>> BY <1>4, <3>1
    <3>3. wire'[i][1] = text BY <3>2
    <3>4. text = made /\ made' = made /\ made \in Nat BY Numbers DEF RestOK
    <3>5. QED BY <3>3, <3>4
  <2>3. QED BY <1>1, <1>4, <2>1, <2>2
<1>7. acked' \in 0..Len(wire') BY <1>1, <1>3, <1>4 DEF WireOK
<1>8. Room' >= 0
  <2>1. Room = SndBuf - (Len(wire) - acked) /\ Room' = SndBuf - (Len(wire') - acked')
    BY DEF Room, Queued
  <2>2. acked' = acked /\ acked \in Nat BY <1>1 DEF WireOK
  <2>3. PICK a \in Nat, b \in Nat : a = acked /\ b = Len(wire) BY <1>1, <2>2
  <2>4. Room = SndBuf - (b - a) /\ Room' = SndBuf - ((b + n) - a) BY <1>4, <2>1, <2>2, <2>3
  <2>5. Room' = Room - n BY <1>3, <2>3, <2>4, Numbers
  <2>6. QED BY <1>1, <1>3, <2>5
<1>9. r \in {-1} \cup 0..MsgLen BY <1>2, <1>3, Numbers
<1>10. QED BY <1>4, <1>5, <1>6, <1>7, <1>8, <1>9 DEF WireOK, RestOK

\* A step that writes nothing keeps the wire in order.
LEMMA SameWire ==
  ASSUME WireOK, RestOK, UNCHANGED <<wire, acked>>, made' \in {made, made + 1}
  PROVE  WireOK'
<1>1. made \in Nat /\ made' \in Nat /\ made <= made' BY Numbers DEF RestOK
<1>2. \A k \in 1..Len(wire) : wire[k][1] \in Nat BY Numbers DEF WireOK, Bytes
<1>3. QED BY <1>1, <1>2 DEF WireOK, Room, Queued

\* A message can be composed: there is a line or a call it is for.
LEMMA ComposeTyped ==
  ASSUME RestOK, lines > 0 \/ calls < MaxCalls
  PROVE  made + 1 \in Messages
<1>1. /\ made \in Nat /\ lines \in 0..MaxLines /\ heard \in 0..MaxLines
      /\ calls \in 0..MaxCalls /\ made + lines = 1 + heard + calls
  BY Numbers DEF RestOK
<1>2. MaxLines \in Nat /\ MaxCalls \in Nat BY Numbers
<1>3. QED BY <1>1, <1>2 DEF Messages

\* The peer, the main thread of the pool and the application.
LEMMA OtherTyped ==
  ASSUME WireOK, RestOK, PeerLine \/ PeerAck \/ PeerReset \/ Dispatches \/ App
  PROVE  WireOK' /\ RestOK'
<1>0. /\ made \in Nat /\ lines \in Nat /\ heard \in Nat /\ calls \in Nat
      /\ MaxLines \in Nat /\ MaxCalls \in Nat
  BY Numbers DEF RestOK
<1> USE DEF send, net, job, ghosts
<1>1. CASE PeerLine
  <2>1. WireOK' BY <1>1, SameWire DEF PeerLine
  <2>2. heard' \in 0..MaxLines /\ lines' \in Nat /\ made' + lines' = 1 + heard' + calls'
    BY <1>0, <1>1 DEF PeerLine, RestOK
  <2>3. lines' <= heard' /\ lines' \in 0..MaxLines
    BY <1>0, <1>1, <2>2, Numbers DEF PeerLine, RestOK
  <2>4. QED BY <1>1, <2>1, <2>2, <2>3 DEF PeerLine, RestOK
<1>2. CASE PeerAck
  <2>0. Len(wire) \in Nat /\ Room \in Nat BY RoomNat
  <2>1. acked' \in 0..Len(wire') BY <1>2, <2>0 DEF PeerAck, WireOK
  <2>2. Room' >= 0 BY <1>2, <2>0, Numbers DEF PeerAck, WireOK, Room, Queued
  <2>3. WireOK' BY <1>2, <2>1, <2>2 DEF PeerAck, WireOK
  <2>4. RestOK' BY <1>2 DEF PeerAck, RestOK
  <2>5. QED BY <2>3, <2>4
<1>3. CASE PeerReset \/ Close
  <2>1. WireOK' BY <1>3, SameWire DEF PeerReset, Close
  <2>2. CASE PeerReset BY <2>1, <2>2 DEF PeerReset, RestOK
  <2>3. CASE Close BY <2>1, <2>3 DEF Close, RestOK
  <2>4. QED BY <1>3, <2>2, <2>3
<1>4. CASE \E w \in Workers : Dispatch(w)
  <2>1. WireOK' BY <1>4, SameWire DEF Dispatch
  <2>2. events' \subseteq {"IN", "OUT"} /\ overlap' \in BOOLEAN
    BY <1>4 DEF Dispatch, Ready, Busy, RestOK
  <2>3. QED BY <1>4, <2>1, <2>2 DEF Dispatch, RestOK
<1>5. CASE AppCompose
  <2>1. WireOK' BY <1>5, SameWire DEF AppCompose, Compose
  <2>2. made + 1 \in Messages BY <1>5, ComposeTyped DEF AppCompose
  <2>3. calls' \in 0..MaxCalls BY <1>0, <1>5 DEF AppCompose, RestOK
  <2>4. made' + lines' = 1 + heard' + calls'
    BY <1>0, <1>5 DEF AppCompose, Compose, RestOK
  <2>5. overlap' \in BOOLEAN BY <1>5 DEF AppCompose, Shared, RestOK, Busy
  <2>6. QED BY <1>5, <2>1, <2>2, <2>3, <2>4, <2>5 DEF AppCompose, Compose, RestOK
<1>6. CASE AppZero \/ AppNeedSend
  <2>1. WireOK' BY <1>6, SameWire DEF AppZero, AppNeedSend
  <2>2. overlap' \in BOOLEAN BY <1>6 DEF AppZero, AppNeedSend, Shared, Busy, RestOK
  <2>3. com_len' \in 0..(CountMod - 1)
    BY <1>6, Numbers DEF AppZero, AppNeedSend, RestOK
  <2>4. QED BY <1>6, <2>1, <2>2, <2>3 DEF AppZero, AppNeedSend, RestOK
<1>7. QED BY <1>1, <1>2, <1>3, <1>4, <1>5, <1>6 DEF Dispatches, App

\* A worker.
LEMMA WorkerTyped ==
  ASSUME WireOK, RestOK, NEW w \in Workers, Worker(w)
  PROVE  WireOK' /\ RestOK'
<1>0. /\ made \in Nat /\ lines \in Nat /\ heard \in Nat /\ calls \in Nat
      /\ com_len \in Nat /\ req_len \in Nat /\ req_len <= MsgLen
  BY Numbers DEF RestOK
<1> USE DEF send, net, job, ghosts
<1>1. CASE AutoSkip(w) \/ Rearm(w)
  <2>1. WireOK' BY <1>1, SameWire DEF AutoSkip, Rearm
  <2>2. CASE AutoSkip(w) BY <2>1, <2>2 DEF AutoSkip, RestOK
  <2>3. CASE Rearm(w) BY <2>1, <2>3 DEF Rearm, RestOK
  <2>4. QED BY <1>1, <2>2, <2>3
<1>2. CASE AutoWrite(w)
  <2>1. PICK r \in WriteResults(req_len - com_len) :
          Written(com_len, r) /\ wrote' = [wrote EXCEPT ![w] = r]
    BY <1>2 DEF AutoWrite
  <2>2. req_len - com_len \in Nat /\ com_len + (req_len - com_len) <= MsgLen
    BY <1>0, <1>2 DEF AutoWrite
  <2>3. UNCHANGED <<acked, made>> BY <1>2 DEF AutoWrite
  <2>4. WireOK' /\ failed' \in BOOLEAN /\ r \in {-1} \cup 0..MsgLen
    BY <1>0, <2>1, <2>2, <2>3, WriteTyped
  <2>5. wrote' \in [Workers -> {-1} \cup 0..MsgLen] BY <2>1, <2>4 DEF RestOK
  <2>6. QED BY <1>2, <2>4, <2>5 DEF AutoWrite, RestOK
<1>3. CASE AutoCount(w)
  <2>1. WireOK' BY <1>3, SameWire DEF AutoCount, Counted
  <2>2. com_len + wrote[w] \in Int BY <1>0, Numbers DEF RestOK
  <2>3. com_len' \in 0..(CountMod - 1) BY <1>3, <2>2, Numbers DEF AutoCount, Counted
  <2>4. pc' \in [Workers -> {"rest", "auto", "count", "user", "reply", "armin", "armout"}]
    BY <1>3 DEF AutoCount, Counted, RestOK
  <2>5. QED BY <1>3, <2>1, <2>3, <2>4 DEF AutoCount, Counted, RestOK
<1>4. CASE EchoRead(w)
  <2>1. WireOK' BY <1>4, SameWire DEF EchoRead, Compose
  <2>2. made + 1 \in Messages BY <1>4, ComposeTyped DEF EchoRead
  <2>3. /\ lines' \in 0..MaxLines /\ made' + lines' = 1 + heard' + calls'
        /\ lines' <= heard'
    BY <1>0, <1>4, Numbers DEF EchoRead, Compose, RestOK
  <2>4. QED BY <1>4, <2>1, <2>2, <2>3 DEF EchoRead, Compose, RestOK
<1>5. CASE EchoReply(w)
  <2>1. PICK r \in WriteResults(req_len) : Written(0, r) /\ com_len' = r % CountMod
    BY <1>5 DEF EchoReply
  <2>2. 0 + req_len <= MsgLen /\ 0 \in Nat BY <1>0
  <2>3. UNCHANGED <<acked, made>> BY <1>5 DEF EchoReply
  <2>4. WireOK' /\ failed' \in BOOLEAN /\ r \in {-1} \cup 0..MsgLen
    BY <1>0, <2>1, <2>2, <2>3, WriteTyped
  <2>5. r \in Int BY <2>4, Numbers
  <2>6. com_len' \in 0..(CountMod - 1) BY <2>1, <2>5, Numbers
  <2>7. QED BY <1>5, <2>4, <2>6 DEF EchoReply, RestOK
<1>6. CASE EchoDrained(w)
  <2>1. WireOK' BY <1>6, SameWire DEF EchoDrained
  <2>2. PICK to \in {"armin", "armout"} :
          /\ pc' = [pc EXCEPT ![w] = to]
          /\ req_len' \in {0, req_len} /\ com_len' \in {0, com_len}
    BY <1>6 DEF EchoDrained
  <2>3. /\ req_len' \in {0, MsgLen} /\ com_len' \in 0..(CountMod - 1)
        /\ pc' \in [Workers -> {"rest", "auto", "count", "user", "reply", "armin", "armout"}]
    BY <2>2, Numbers DEF RestOK
  <2>4. QED BY <1>6, <2>1, <2>3 DEF EchoDrained, RestOK
<1>7. QED BY <1>1, <1>2, <1>3, <1>4, <1>5, <1>6 DEF Worker

----------------------------------------------------------------------------
(* One thread has the connection.                                              *)

\* Every step keeps it so, or is noted as an overlap.
LEMMA StepOwned ==
  ASSUME RestOK, Owned, ~overlap', Next
  PROVE  Owned'
<1> USE DEF RestOK, Owned, Busy, job, ghosts
<1>1. CASE PeerLine \/ PeerAck \/ PeerReset \/ Close
  BY <1>1 DEF PeerLine, PeerAck, PeerReset, Close
<1>2. CASE \E w \in Workers : Dispatch(w)
  <2>1. PICK w \in Workers : Dispatch(w) BY <1>2
  <2>2. /\ \A v \in Workers : pc[v] = "rest"
        /\ pc' = [pc EXCEPT ![w] = "auto"] /\ apc = "idle" /\ apc' = apc
    BY <2>1 DEF Dispatch
  <2>3. \A v \in Workers : pc'[v] # "rest" => v = w BY <2>2
  <2>4. QED BY <2>2, <2>3
<1>3. CASE App BY <1>3 DEF App, AppCompose, AppZero, AppNeedSend, Shared
<1>4. CASE \E w \in Workers : Worker(w)
  <2>1. PICK w \in Workers : Worker(w) BY <1>4
  <2>2. PICK to : pc' = [pc EXCEPT ![w] = to] /\ pc[w] # "rest"
    BY <2>1
    DEF Worker, AutoSkip, AutoWrite, AutoCount, Counted, EchoRead, EchoReply, EchoDrained,
        Rearm
  <2>3. apc' = apc
    BY <2>1
    DEF Worker, AutoSkip, AutoWrite, AutoCount, Counted, EchoRead, EchoReply, EchoDrained,
        Rearm
  <2>4. QED BY <2>2, <2>3
<1>5. QED BY <1>1, <1>2, <1>3, <1>4 DEF Next, Dispatches

----------------------------------------------------------------------------
(* What com_len says of the wire.                                              *)

\* A write that does not fail, of bytes that continue the wire, keeps it in order, and the
\* wire then ends with the last byte written.
LEMMA WriteInOrder ==
  ASSUME WireOK, RestOK, InOrder, ~failed, ~overlap,
         NEW com \in Nat, NEW k \in Nat, k > 0, com + k <= MsgLen,
         NEW r \in WriteResults(k), Written(com, r), ~failed', Continues(com)
  PROVE  /\ r \in 1..k /\ InOrder'
         /\ wire' # <<>> /\ wire'[Len(wire')] = <<text, com + r>>
<1>1. Room \in Nat /\ Len(wire) \in Nat BY RoomNat
<1>2. r \in Int /\ r >= -1 /\ r <= k /\ r # 0 BY <1>1, Results
<1>3. r # -1 BY DEF Written
<1>4. r \in 1..k BY <1>2, <1>3
<1>5. r \in Nat /\ com + r <= MsgLen /\ r >= 1 BY <1>4, Numbers
<1>6. /\ wire' \in Seq(Bytes) /\ Len(wire') = Len(wire) + r
      /\ \A i \in 1..Len(wire) : wire'[i] = wire[i]
      /\ \A i \in 1..r : wire'[Len(wire) + i] = <<text, com + i>>
  BY <1>2, <1>3, <1>5, Appended DEF WireOK, RestOK
<1>7. wire' # <<>> /\ wire'[Len(wire')] = <<text, com + r>>
  <2>1. Len(wire') >= 1 BY <1>1, <1>5, <1>6
  <2>2. wire' # <<>> BY <2>1, EmptySeq
  <2>3. QED BY <1>5, <1>6, <2>2
<1>8. InOrder'
  <2>1. SUFFICES ASSUME NEW i \in 1..Len(wire')
                 PROVE  IF i = 1 THEN wire'[i][2] = 1
                        ELSE \/ /\ wire'[i][1] = wire'[i - 1][1]
                                /\ wire'[i][2] = wire'[i - 1][2] + 1
                             \/ wire'[i][1] > wire'[i - 1][1] /\ wire'[i][2] = 1
    BY DEF InOrder
  <2>2. CASE i <= Len(wire)
    <3>1. i \in 1..Len(wire) /\ (i # 1 => i - 1 \in 1..Len(wire)) BY <1>1, <2>2
    <3>2. wire'[i] = wire[i] /\ (i # 1 => wire'[i - 1] = wire[i - 1]) BY <1>6, <3>1
    <3>3. IF i = 1 THEN wire[i][2] = 1
          ELSE \/ wire[i][1] = wire[i - 1][1] /\ wire[i][2] = wire[i - 1][2] + 1
               \/ wire[i][1] > wire[i - 1][1] /\ wire[i][2] = 1
      BY <3>1 DEF InOrder
    <3>4. QED BY <3>2, <3>3
  <2>3. CASE i = Len(wire) + 1
    <3>1. wire'[i] = <<text, com + 1>> BY <1>5, <1>6, <2>3
    <3>2. CASE Len(wire) = 0
      <4>1. wire = <<>> BY <3>2 DEF WireOK
      <4>2. com = 0 BY <4>1 DEF Continues, UpTo
      <4>3. QED BY <2>3, <3>1, <3>2, <4>2
    <3>3. CASE Len(wire) # 0
      <4>1. wire # <<>> /\ i # 1 /\ i - 1 = Len(wire) /\ Len(wire) \in 1..Len(wire)
        BY <1>1, <2>3, <3>3, EmptySeq
      <4>2. wire'[i - 1] = wire[Len(wire)] BY <1>6, <4>1
      <4>3. CASE com = 0 BY <3>1, <4>1, <4>2, <4>3 DEF Continues, Fresh
      <4>4. CASE com # 0 BY <3>1, <4>1, <4>2, <4>4 DEF Continues, UpTo
      <4>5. QED BY <4>3, <4>4
    <3>4. QED BY <3>2, <3>3
  <2>4. CASE i > Len(wire) + 1
    <3>1. /\ i - Len(wire) \in 1..r /\ i - 1 - Len(wire) \in 1..r /\ i # 1
          /\ i = Len(wire) + (i - Len(wire)) /\ i - 1 = Len(wire) + (i - 1 - Len(wire))
      BY <1>1, <1>5, <1>6, <2>4, SMTT(40)
    <3>2. /\ wire'[i] = <<text, com + (i - Len(wire))>>
          /\ wire'[i - 1] = <<text, com + (i - 1 - Len(wire))>>
      BY <1>6, <3>1
    <3>3. com + (i - Len(wire)) = com + (i - 1 - Len(wire)) + 1 BY <1>1, <3>1
    <3>4. QED BY <3>1, <3>2, <3>3
  <2>5. QED BY <1>1, <1>6, <2>2, <2>3, <2>4
<1>9. QED BY <1>4, <1>7, <1>8

\* A message just composed has no byte on the wire.
LEMMA ComposedFresh ==
  ASSUME WireOK, RestOK, Compose, UNCHANGED wire
  PROVE  Fresh' /\ req_len' = MsgLen
<1>1. made \in Nat /\ Len(wire) \in Nat BY RoomNat, Numbers DEF RestOK
<1>2. CASE wire = <<>> BY <1>2 DEF Fresh, Compose
<1>3. CASE wire # <<>>
  <2>1. Len(wire) # 0 BY <1>3 DEF WireOK
  <2>2. Len(wire) \in 1..Len(wire) BY <1>1, <2>1
  <2>3. wire[Len(wire)][1] <= made /\ wire[Len(wire)][1] \in Nat
    BY <2>2, Numbers DEF WireOK, Bytes
  <2>4. wire[Len(wire)][1] < made + 1 BY <1>1, <2>3
  <2>5. QED BY <2>4 DEF Fresh, Compose
<1>4. QED BY <1>2, <1>3 DEF Compose

\* The peer, the main thread of the pool and the application leave it as it is.
LEMMA OtherCounts ==
  ASSUME WireOK, RestOK, Owned, Counts, InOrder, ~failed, ~overlap, ~failed', ~overlap',
         PeerLine \/ PeerAck \/ PeerReset \/ Dispatches \/ App
  PROVE  Counts' /\ InOrder'
<1> USE DEF send, net, job, ghosts
<1>1. UNCHANGED wire
  BY DEF PeerLine, PeerAck, PeerReset, Dispatches, Close, Dispatch, App, AppCompose, AppZero,
         AppNeedSend
<1>2. InOrder' BY <1>1 DEF InOrder
<1>3. CASE PeerLine \/ PeerAck \/ PeerReset \/ Close
  <2>1. UNCHANGED <<events, send, job, apc>>
    BY <1>3 DEF PeerLine, PeerAck, PeerReset, Close
  <2>2. Counts' BY <1>1, <2>1 DEF Counts, Composing, Counting, Continues, Fresh, UpTo
  <2>3. QED BY <1>2, <2>2
<1>4. CASE \E w \in Workers : Dispatch(w)
  <2>1. PICK w \in Workers : Dispatch(w) BY <1>4
  <2>2. /\ \A v \in Workers : pc[v] = "rest"
        /\ pc' = [pc EXCEPT ![w] = "auto"] /\ apc = "idle" /\ UNCHANGED <<send, apc, wrote>>
    BY <2>1 DEF Dispatch, Busy
  <2>3. /\ ~Composing /\ ~Counting /\ ~Composing' /\ ~Counting'
        /\ \A v \in Workers : pc'[v] \in {"rest", "auto"}
    BY <2>2 DEF Composing, Counting, RestOK
  <2>4. Counts' BY <1>1, <2>2, <2>3 DEF Counts, Continues, Fresh, UpTo
  <2>5. QED BY <1>2, <2>4
<1>5. CASE AppCompose
  <2>1. Fresh' /\ req_len' = MsgLen BY <1>1, <1>5, ComposedFresh DEF AppCompose
  <2>2. \A v \in Workers : pc'[v] = "rest" BY <1>5 DEF AppCompose, Shared, Busy
  <2>3. Composing' BY <1>5 DEF AppCompose, Composing
  <2>4. Counts' BY <2>1, <2>2, <2>3 DEF Counts
  <2>5. QED BY <1>2, <2>4
<1>6. CASE AppZero
  <2>1. Fresh /\ req_len = MsgLen BY <1>6 DEF AppZero, Counts, Composing
  <2>2. \A v \in Workers : pc'[v] = "rest" BY <1>6 DEF AppZero, Shared, Busy
  <2>3. com_len' = 0 /\ UNCHANGED <<text, req_len>> BY <1>6 DEF AppZero
  <2>4. com_len' <= req_len' BY <2>1, <2>3, Numbers
  <2>5. Continues(com_len)' BY <1>1, <2>1, <2>3 DEF Continues, Fresh
  <2>6. Counts' BY <2>2, <2>4, <2>5, <1>6 DEF Counts, Composing, AppZero
  <2>7. QED BY <1>2, <2>6
<1>7. CASE AppNeedSend
  <2>1. \A v \in Workers : pc[v] = "rest" /\ pc'[v] = "rest"
    BY <1>7 DEF AppNeedSend, Shared, Busy
  <2>2. ~Composing /\ ~Counting /\ ~Composing' /\ UNCHANGED send
    BY <1>7, <2>1 DEF AppNeedSend, Composing, Counting
  <2>3. Counts' BY <1>1, <2>1, <2>2 DEF Counts, Continues, Fresh, UpTo
  <2>4. QED BY <1>2, <2>3
<1>8. QED BY <1>3, <1>4, <1>5, <1>6, <1>7 DEF Dispatches, App

\* The write of the automatic transfer goes on where the last one stopped.
LEMMA AutoWriteCounts ==
  ASSUME WireOK, RestOK, Owned, Counts, InOrder, ~failed, ~overlap, ~failed',
         NEW w \in Workers, AutoWrite(w)
  PROVE  Counts' /\ InOrder'
<1>0. com_len \in Nat /\ req_len \in Nat /\ req_len <= MsgLen BY Numbers DEF RestOK
<1>1. /\ pc[w] = "auto" /\ com_len < req_len /\ pc' = [pc EXCEPT ![w] = "count"]
      /\ UNCHANGED <<apc, text, req_len, com_len, events>>
  BY DEF AutoWrite, send
<1>2. PICK r \in WriteResults(req_len - com_len) :
        Written(com_len, r) /\ wrote' = [wrote EXCEPT ![w] = r]
  BY DEF AutoWrite
<1>3. apc = "idle" /\ \A v \in Workers : v # w => pc[v] = "rest" BY <1>1 DEF Owned, Busy
<1>4. ~Composing /\ ~Counting BY <1>1, <1>3 DEF Composing, Counting
<1>5. Continues(com_len) BY <1>0, <1>1, <1>4 DEF Counts
<1>6. /\ req_len - com_len \in Nat /\ req_len - com_len > 0
      /\ com_len + (req_len - com_len) <= MsgLen
  BY <1>0, <1>1
<1>7. /\ r \in 1..(req_len - com_len) /\ InOrder'
      /\ wire' # <<>> /\ wire'[Len(wire')] = <<text, com_len + r>>
  BY <1>0, <1>2, <1>5, <1>6, WriteInOrder
<1>8. pc'[w] = "count" /\ wrote'[w] = r /\ \A v \in Workers : v # w => pc'[v] = "rest"
  BY <1>1, <1>2, <1>3 DEF RestOK
<1>9. ~Composing' /\ Counting' BY <1>1, <1>3, <1>8 DEF Composing, Counting
<1>10. UpTo(com_len + wrote[w])' BY <1>1, <1>7, <1>8 DEF UpTo
<1>11. wrote'[w] \in 1..(req_len' - com_len') BY <1>1, <1>7, <1>8
<1>12. Counts' BY <1>8, <1>9, <1>10, <1>11 DEF Counts
<1>13. QED BY <1>7, <1>12

\* com_len counts what was written, without wrapping.
LEMMA AutoCountCounts ==
  ASSUME WireOK, RestOK, Owned, Counts, InOrder, ~failed, ~overlap, ~failed', ~overlap',
         NEW w \in Workers, AutoCount(w)
  PROVE  Counts' /\ InOrder'
<1>0. com_len \in Nat /\ req_len \in Nat /\ req_len <= MsgLen BY Numbers DEF RestOK
<1>1. /\ pc[w] = "count" /\ com_len' = (com_len + wrote[w]) % CountMod
      /\ UNCHANGED <<apc, text, req_len, wire, events>>
  BY DEF AutoCount, Counted, net, ghosts
<1>2. wrote[w] \in 1..(req_len - com_len) /\ UpTo(com_len + wrote[w]) BY <1>1 DEF Counts
<1>3. com_len + wrote[w] \in 0..MsgLen /\ com_len + wrote[w] <= req_len
      /\ com_len + wrote[w] # 0
  <2>1. PICK n \in 1..(req_len - com_len) : n = wrote[w] BY <1>2
  <2>2. com_len + n \in 0..MsgLen /\ com_len + n <= req_len /\ com_len + n # 0
    BY <1>0, Numbers
  <2>3. QED BY <2>1, <2>2
<1>4. com_len' = com_len + wrote[w] BY <1>1, <1>3, Numbers
<1>5. com_len' \in Nat /\ com_len' <= req_len' /\ com_len' # 0 BY <1>0, <1>1, <1>2, <1>3, <1>4
<1>6. Continues(com_len)' BY <1>1, <1>2, <1>4, <1>5 DEF Continues, UpTo
<1>7. apc = "idle" /\ \A v \in Workers : v # w => pc[v] = "rest" BY <1>1 DEF Owned, Busy
<1>8. PICK to \in {"armout", "user"} :
        pc' = [pc EXCEPT ![w] = to] /\ (to = "user" => ~(com_len' < req_len))
  BY DEF AutoCount, Counted
<1>9. /\ pc'[w] = to /\ \A v \in Workers : v # w => pc'[v] = "rest" BY <1>7, <1>8 DEF RestOK
<1>10. ~Composing' /\ ~Counting' BY <1>1, <1>7, <1>9 DEF Composing, Counting
<1>11. to = "user" => com_len' = req_len' BY <1>0, <1>1, <1>5, <1>8
<1>12. Counts' BY <1>5, <1>6, <1>9, <1>10, <1>11 DEF Counts
<1>13. InOrder' BY <1>1 DEF InOrder
<1>14. QED BY <1>12, <1>13

\* The reply is written from its first byte.
LEMMA EchoReplyCounts ==
  ASSUME WireOK, RestOK, Owned, Counts, InOrder, ~failed, ~overlap, ~failed',
         NEW w \in Workers, EchoReply(w)
  PROVE  Counts' /\ InOrder'
<1>1. pc[w] = "reply" /\ pc' = [pc EXCEPT ![w] = "armin"] /\ UNCHANGED <<apc, text, req_len>>
  BY DEF EchoReply
<1>2. PICK r \in WriteResults(req_len) : Written(0, r) /\ com_len' = r % CountMod
  BY DEF EchoReply
<1>3. Composing BY <1>1 DEF Composing
<1>4. Fresh /\ req_len = MsgLen BY <1>3 DEF Counts
<1>5. Continues(0) BY <1>4 DEF Continues
<1>6. req_len \in Nat /\ req_len > 0 /\ 0 \in Nat /\ 0 + req_len <= MsgLen BY <1>4, Numbers
<1>7. /\ r \in 1..req_len /\ InOrder'
      /\ wire' # <<>> /\ wire'[Len(wire')] = <<text, 0 + r>>
  BY <1>2, <1>5, <1>6, WriteInOrder
<1>8. r \in 0..MsgLen /\ r \in Nat /\ r # 0 /\ 0 + r = r BY <1>4, <1>6, <1>7
<1>9. com_len' = r BY <1>2, <1>8, Numbers
<1>10. apc = "idle" /\ \A v \in Workers : v # w => pc[v] = "rest" BY <1>1 DEF Owned, Busy
<1>11. /\ pc'[w] = "armin" /\ \A v \in Workers : v # w => pc'[v] = "rest"
  BY <1>1, <1>10 DEF RestOK
<1>12. ~Composing' /\ ~Counting' BY <1>1, <1>10, <1>11 DEF Composing, Counting
<1>13. com_len' <= req_len' BY <1>1, <1>6, <1>7, <1>8, <1>9
<1>14. Continues(com_len)' BY <1>1, <1>7, <1>8, <1>9 DEF Continues, UpTo
<1>15. Counts' BY <1>11, <1>12, <1>13, <1>14 DEF Counts
<1>16. QED BY <1>7, <1>15

\* A worker.
LEMMA WorkerCounts ==
  ASSUME WireOK, RestOK, Owned, Counts, InOrder, ~failed, ~overlap, ~failed', ~overlap',
         NEW w \in Workers, Worker(w)
  PROVE  Counts' /\ InOrder'
<1>0. com_len \in Nat /\ req_len \in Nat /\ req_len <= MsgLen BY Numbers DEF RestOK
<1> USE DEF send, net, job, ghosts
<1>1. CASE AutoSkip(w)
  <2>1. pc[w] = "auto" /\ pc' = [pc EXCEPT ![w] = "user"]
        /\ UNCHANGED <<wire, send, apc, events, wrote>>
    BY <1>1 DEF AutoSkip
  <2>2. apc = "idle" /\ \A v \in Workers : v # w => pc[v] = "rest" BY <2>1 DEF Owned, Busy
  <2>3. pc'[w] = "user" /\ \A v \in Workers : v # w => pc'[v] = "rest"
    BY <2>1, <2>2 DEF RestOK
  <2>4. ~Composing /\ ~Counting /\ ~Composing' /\ ~Counting'
    BY <2>1, <2>2, <2>3 DEF Composing, Counting
  <2>5. com_len <= req_len /\ (req_len > 0 => Continues(com_len)) BY <2>4 DEF Counts
  <2>6. "IN" \notin events => com_len = req_len BY <1>0, <1>1, <2>5 DEF AutoSkip
  <2>7. Counts' BY <2>1, <2>3, <2>4, <2>5, <2>6 DEF Counts, Continues, Fresh, UpTo
  <2>8. InOrder' BY <2>1 DEF InOrder
  <2>9. QED BY <2>7, <2>8
<1>2. CASE AutoWrite(w) BY <1>2, AutoWriteCounts
<1>3. CASE AutoCount(w) BY <1>3, AutoCountCounts
<1>4. CASE EchoRead(w)
  <2>1. pc[w] = "user" /\ pc' = [pc EXCEPT ![w] = "reply"] /\ UNCHANGED <<wire, apc>> /\ Compose
    BY <1>4 DEF EchoRead
  <2>2. apc = "idle" /\ \A v \in Workers : v # w => pc[v] = "rest" BY <2>1 DEF Owned, Busy
  <2>3. pc'[w] = "reply" /\ \A v \in Workers : v # w => pc'[v] = "rest"
    BY <2>1, <2>2 DEF RestOK
  <2>4. Composing' BY <2>3 DEF Composing
  <2>5. Fresh' /\ req_len' = MsgLen BY <2>1, ComposedFresh
  <2>6. Counts' BY <2>3, <2>4, <2>5 DEF Counts
  <2>7. InOrder' BY <2>1 DEF InOrder
  <2>8. QED BY <2>6, <2>7
<1>5. CASE EchoReply(w) BY <1>5, EchoReplyCounts
<1>6. CASE EchoDrained(w)
  <2>1. PICK to \in {"armin", "armout"} :
          /\ pc[w] = "user" /\ pc' = [pc EXCEPT ![w] = to]
          /\ UNCHANGED <<req_len, com_len>> \/ (req_len' = 0 /\ com_len' = 0)
          /\ UNCHANGED <<wire, text, apc>>
    BY <1>6 DEF EchoDrained
  <2>2. apc = "idle" /\ \A v \in Workers : v # w => pc[v] = "rest" BY <2>1 DEF Owned, Busy
  <2>3. pc'[w] = to /\ \A v \in Workers : v # w => pc'[v] = "rest"
    BY <2>1, <2>2 DEF RestOK
  <2>4. ~Composing /\ ~Counting /\ ~Composing' /\ ~Counting'
    BY <2>1, <2>2, <2>3 DEF Composing, Counting
  <2>5. Counts' BY <2>1, <2>3, <2>4 DEF Counts, Continues, Fresh, UpTo
  <2>6. InOrder' BY <2>1 DEF InOrder
  <2>7. QED BY <2>5, <2>6
<1>7. CASE Rearm(w)
  <2>1. /\ pc[w] \in {"armin", "armout"} /\ pc' = [pc EXCEPT ![w] = "rest"]
        /\ UNCHANGED <<wire, send, apc>>
    BY <1>7 DEF Rearm
  <2>2. apc = "idle" /\ \A v \in Workers : v # w => pc[v] = "rest" BY <2>1 DEF Owned, Busy
  <2>3. \A v \in Workers : pc'[v] = "rest" BY <2>1, <2>2 DEF RestOK
  <2>4. ~Composing /\ ~Counting /\ ~Composing' /\ ~Counting'
    BY <2>1, <2>2, <2>3 DEF Composing, Counting
  <2>5. Counts' BY <2>1, <2>3, <2>4 DEF Counts, Continues, Fresh, UpTo
  <2>6. InOrder' BY <2>1 DEF InOrder
  <2>7. QED BY <2>5, <2>6
<1>8. QED BY <1>1, <1>2, <1>3, <1>4, <1>5, <1>6, <1>7 DEF Worker

----------------------------------------------------------------------------
(* The invariant.                                                              *)

\* It holds initially.
LEMMA InitInv == Init => Inv
<1> SUFFICES ASSUME Init PROVE Inv OBVIOUS
<1>1. wire = <<>> /\ Len(wire) = 0 /\ acked = 0 /\ made = 1 BY DEF Init
<1>2. WireOK
  <2>1. wire \in Seq(Bytes) BY <1>1
  <2>2. Room = SndBuf BY <1>1, Numbers DEF Room, Queued
  <2>3. Room >= 0 BY <2>2, Numbers
  <2>4. QED BY <1>1, <2>1, <2>3 DEF WireOK
<1>3. RestOK
  <2>1. 0 \in 0..(CountMod - 1) /\ 0 \in 0..MaxLines /\ 0 \in 0..MaxCalls /\ 0 \in 0..MsgLen
    BY Numbers
  <2>2. made + lines = 1 + heard + calls /\ lines <= heard BY DEF Init
  <2>3. wrote \in [Workers -> {-1} \cup 0..MsgLen] BY <2>1 DEF Init
  <2>4. pc \in [Workers -> {"rest", "auto", "count", "user", "reply", "armin", "armout"}]
    BY DEF Init
  <2>5. QED BY <2>1, <2>2, <2>3, <2>4, Numbers DEF Init, RestOK
<1>4. \A w \in Workers : pc[w] = "rest" BY DEF Init
<1>5. Owned BY <1>4 DEF Init, Owned, Busy
<1>6. Counts
  <2>1. com_len <= req_len /\ Continues(com_len) /\ apc = "idle"
    BY <1>1, Numbers DEF Init, Continues, Fresh
  <2>2. QED BY <1>4, <2>1 DEF Counts, Composing
<1>7. InOrder BY <1>1 DEF InOrder
<1>8. QED BY <1>2, <1>3, <1>5, <1>6, <1>7 DEF Inv

\* Every step preserves it: a write that failed and an overlap are never forgotten.
LEMMA StepInv == Inv /\ [Next]_vars => Inv'
<1> SUFFICES ASSUME Inv, [Next]_vars PROVE Inv' OBVIOUS
<1>0. WireOK /\ RestOK BY DEF Inv
<1>1. CASE Next
  <2>1. WireOK' /\ RestOK' BY <1>0, <1>1, OtherTyped, WorkerTyped DEF Next
  <2>2. (~failed' => ~failed) /\ (~overlap' => ~overlap)
    <3> USE DEF ghosts
    <3>0. failed \in BOOLEAN /\ overlap \in BOOLEAN BY <1>0 DEF RestOK
    <3>1. CASE PeerLine \/ PeerAck \/ PeerReset \/ Dispatches
      BY <3>0, <3>1 DEF PeerLine, PeerAck, PeerReset, Dispatches, Close, Dispatch
    <3>2. CASE App BY <3>0, <3>2 DEF App, AppCompose, AppZero, AppNeedSend, Shared
    <3>3. CASE \E w \in Workers : Worker(w)
      BY <3>0, <3>3
      DEF Worker, AutoSkip, AutoWrite, AutoCount, Counted, EchoRead, EchoReply, EchoDrained,
          Rearm, Written
    <3>4. QED BY <1>1, <3>1, <3>2, <3>3 DEF Next
  <2>3. ~overlap' => Owned' BY <1>0, <1>1, <2>2, StepOwned DEF Inv
  <2>4. ASSUME ~failed', ~overlap' PROVE Counts' /\ InOrder'
    <3>1. Owned /\ Counts /\ InOrder /\ ~failed /\ ~overlap BY <2>2, <2>4 DEF Inv
    <3>2. QED BY <1>0, <1>1, <2>4, <3>1, OtherCounts, WorkerCounts DEF Next
  <2>5. QED BY <2>1, <2>3, <2>4 DEF Inv
<1>2. CASE UNCHANGED vars
  <2>1. WireOK' BY <1>2, <1>0 DEF vars, net, send, job, ghosts, WireOK, Room, Queued
  <2>2. RestOK' BY <1>2, <1>0 DEF vars, net, send, job, ghosts, RestOK
  <2>3. ~overlap' => Owned' BY <1>2 DEF Inv, vars, job, ghosts, Owned, Busy
  <2>4. ~failed' /\ ~overlap' => Counts'
    BY <1>2
    DEF Inv, vars, net, send, job, ghosts, Counts, Composing, Counting, Continues, Fresh, UpTo
  <2>5. ~failed' /\ ~overlap' => InOrder' BY <1>2 DEF Inv, vars, net, ghosts, InOrder
  <2>6. QED BY <2>1, <2>2, <2>3, <2>4, <2>5 DEF Inv
<1>3. QED BY <1>1, <1>2

----------------------------------------------------------------------------
(* The theorems.                                                               *)

\* The inductive invariant holds of every behaviour.
THEOREM Invariance == Spec => []Inv
<1>1. Init => Inv BY InitInv
<1>2. Inv /\ [Next]_vars => Inv' BY StepInv
<1>3. QED BY <1>1, <1>2, PTL DEF Spec

\* Every variable has its type: com_len stays in its width whatever write() returns,
\* and the kernel never accepts more than its queue holds (tst.cpp 589-610).
THEOREM TypeCorrect == Spec => []TypeOK
<1>1. Inv => TypeOK
  <2> SUFFICES ASSUME Inv PROVE TypeOK OBVIOUS
  <2>1. \A k \in 1..Len(wire) : wire[k] \in Messages \X (1..MsgLen)
    BY DEF Inv, WireOK, Bytes
  <2>2. QED BY <2>1 DEF Inv, WireOK, RestOK, TypeOK
<1>2. QED BY <1>1, Invariance, PTL

\* As long as no write fails and need_send() does not interfere, no byte goes out twice
\* and none of a message before those in front of it, over any number of partial writes,
\* messages and threads; a message goes out to its end unless a newer one is composed
\* over it (tst.cpp 589-610, echoserver.cpp 47-87).
THEOREM WireInOrder == Spec => []InOrder
<1>1. Inv => InOrder BY DEF Inv, InOrder
<1>2. QED BY <1>1, Invariance, PTL

\* The user function is called for output only when the message in send->s is on the wire
\* to its last byte (tst.cpp 600-610).
THEOREM ToldWhenAllSent == Spec => []ToldWhenSent
<1>1. Inv => ToldWhenSent
  <2> SUFFICES ASSUME Inv, ~failed, ~overlap, NEW w \in Workers, pc[w] = "user",
                      "IN" \notin events, req_len > 0
               PROVE  wire # <<>> /\ wire[Len(wire)] = <<text, req_len>>
    BY DEF ToldWhenSent
  <2>1. Owned /\ Counts BY DEF Inv
  <2>2. apc = "idle" /\ \A v \in Workers : v # w => pc[v] = "rest" BY <2>1 DEF Owned, Busy
  <2>3. ~Composing /\ ~Counting BY <2>2 DEF Composing, Counting
  <2>4. Continues(com_len) /\ com_len = req_len BY <2>1, <2>3 DEF Counts
  <2>5. QED BY <2>4 DEF Continues, UpTo
<1>2. QED BY <1>1, Invariance, PTL
=============================================================================
