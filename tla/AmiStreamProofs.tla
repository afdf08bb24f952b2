--------------------------- MODULE AmiStreamProofs --------------------------
(* Proofs about the separation of the AMI stream into messages, for every stream *)
(* Asterisk may send, every size of the buffer and every segmentation by TCP.     *)
EXTENDS AmiStream, WellFoundedInduction, TLAPS

\* The texts that have been separated follow one another without a gap.
NoGap == \A i \in 2..Len(handed) : handed[i].first = handed[i - 1].last + 1

\* Every text but the first is one whole message.
WholeMessages ==
  \A i \in 2..Len(handed) :
    \E k \in DOMAIN script :
      k > 1 /\ handed[i] = [first |-> script[k].before + 1, last |-> script[k].end]

----------------------------------------------------------------------------
(* The inductive invariant.                                                    *)

Pcs == {"banner", "answer", "armed", "job", "overflow", "failed"}
LoggedIn == pc \in {"armed", "job"}

Places ==
  /\ script \in Scripts /\ pc \in Pcs
  /\ arrived \in Nat /\ rpos \in Nat /\ base \in Nat /\ checked_len \in Nat
  /\ base <= rpos /\ rpos <= arrived
  /\ LoggedIn => base > 0 /\ com_len < Buffer
  /\ pc = "job" => rpos + checked_len <= arrived
  /\ pc = "overflow" => arrived > Buffer

\* What has been read since the last message contains no complete one.
NoneYet == LoggedIn => \A q \in base..rpos : ~Terminated(script, base, q)

\* Where the texts separated so far end.
Texts ==
  /\ handed \in Seq([first : Nat, last : Nat])
  /\ handed # <<>> => LoggedIn /\ handed[Len(handed)].last = base
                      /\ \E k \in DOMAIN script : k > 1 /\ script[k].end = base

Inv == Places /\ NoneYet /\ Texts /\ NoGap /\ WholeMessages

----------------------------------------------------------------------------
(* Lemmas.                                                                     *)

\* A set of numbers that is not empty has a least one.
LEMMA LeastOf ==
  ASSUME NEW T, T \subseteq Nat, T # {}
  PROVE  Min(T) \in T /\ \A y \in T : Min(T) <= y
<1> DEFINE R == OpToRel(<, Nat)
<1>1. IsWellFoundedOn(R, Nat) BY NatLessThanWellFounded
<1> HIDE DEF R
<1>2. PICK x \in T : \A y \in T : ~(<<y, x>> \in R) BY <1>1, WFMin
<1>3. \A y \in T : ~(y < x) BY <1>2 DEF R, OpToRel
<1>4. \E n \in T : \A y \in T : n <= y BY <1>3
<1>5. QED BY <1>4 DEF Min

\* The buffer and the number of bytes amiLogin waits for.
LEMMA Numbers == Buffer \in Nat /\ Buffer > 4 /\ MinLogin \in Nat /\ MinLogin > 0
BY StreamConstants

\* The places in a stream are numbers; a message behind the banner is a line and a blank
\* one at least.
LEMMA StreamPlaces ==
  ASSUME NEW sc \in Scripts
  PROVE  /\ Len(sc) \in Nat /\ Len(sc) >= 2 /\ DOMAIN sc = 1..Len(sc)
         /\ \A k \in 1..Len(sc) :
              /\ sc[k].before \in Nat /\ sc[k].end \in Nat
              /\ sc[k].before + 2 <= sc[k].end
              /\ k > 1 => sc[k].before + 4 <= sc[k].end /\ sc[k].before = sc[k - 1].end
<1>1. IsAmiStream(sc) BY StreamConstants
<1>2. sc \in Seq(AmiMessage) /\ Len(sc) >= 2 BY <1>1 DEF IsAmiStream
<1>3. Len(sc) \in Nat /\ DOMAIN sc = 1..Len(sc) BY <1>2
<1>4. ASSUME NEW k \in 1..Len(sc)
      PROVE  /\ sc[k].before \in Nat /\ sc[k].end \in Nat
             /\ sc[k].before + 2 <= sc[k].end
             /\ k > 1 => sc[k].before + 4 <= sc[k].end /\ sc[k].before = sc[k - 1].end
  <2>1. sc[k] \in AmiMessage BY <1>2
  <2>2. /\ sc[k].before = (IF k = 1 THEN 0 ELSE sc[k - 1].end)
        /\ sc[k].end \in sc[k].ends /\ sc[k].ends \subseteq sc[k].before + 2 .. sc[k].end
        /\ k > 1 => sc[k].end - 2 \in sc[k].ends
    BY <1>1, <1>3 DEF IsAmiStream
  <2>3. sc[k].before \in Nat /\ sc[k].end \in Nat BY <2>1 DEF AmiMessage
  <2>4. sc[k].end \in sc[k].before + 2 .. sc[k].end BY <2>2
  <2>5. k > 1 => sc[k].end - 2 \in sc[k].before + 2 .. sc[k].end BY <2>2
  <2>6. QED BY <2>2, <2>3, <2>4, <2>5
<1>5. QED BY <1>2, <1>3, <1>4

\* The messages of a stream lie one behind the other.
LEMMA StreamOrder ==
  ASSUME NEW sc \in Scripts, NEW j \in 1..Len(sc)
  PROVE  \A k \in 1..Len(sc) : j < k => sc[j].end <= sc[k].before
<1>1. /\ Len(sc) \in Nat
      /\ \A k \in 1..Len(sc) :
           /\ sc[k].before \in Nat /\ sc[k].end \in Nat
           /\ sc[k].before + 2 <= sc[k].end
           /\ k > 1 => sc[k].before = sc[k - 1].end
  BY StreamPlaces
<1> DEFINE Bad == {k \in 1..Len(sc) : j < k /\ ~(sc[j].end <= sc[k].before)}
<1>2. SUFFICES ASSUME Bad # {} PROVE FALSE OBVIOUS
<1>3. Bad \subseteq Nat BY <1>1
<1>4. PICK k \in Bad : \A i \in Bad : k <= i BY <1>2, <1>3, LeastOf, Zenon
<1>5. k \in 1..Len(sc) /\ j < k /\ ~(sc[j].end <= sc[k].before) BY <1>4
<1>6. k - 1 \in 1..Len(sc) /\ k > 1 /\ k - 1 \notin Bad BY <1>1, <1>4, <1>5
<1>7. sc[k].before = sc[k - 1].end BY <1>1, <1>5, <1>6
<1>8. CASE k - 1 = j BY <1>1, <1>5, <1>7, <1>8
<1>9. CASE k - 1 # j
  <2>1. j < k - 1 BY <1>1, <1>5, <1>9
  <2>2. sc[j].end <= sc[k - 1].before BY <1>6, <2>1
  <2>3. QED BY <1>1, <1>5, <1>6, <1>7, <2>2, SMTT(40)
<1>10. QED BY <1>8, <1>9

\* What has been sent once there is an answer is within the stream.
LEMMA StreamLimit ==
  ASSUME NEW sc \in Scripts
  PROVE  sc[1].end <= sc[Len(sc)].end /\ sc[2].end <= sc[Len(sc)].end
<1>1. /\ Len(sc) \in Nat /\ Len(sc) >= 2
      /\ \A k \in 1..Len(sc) :
           sc[k].before \in Nat /\ sc[k].end \in Nat /\ sc[k].before + 2 <= sc[k].end
  BY StreamPlaces
<1>2. 1 \in 1..Len(sc) /\ 2 \in 1..Len(sc) /\ Len(sc) \in 1..Len(sc) BY <1>1
<1>3. sc[1].end <= sc[Len(sc)].before BY <1>1, <1>2, StreamOrder
<1>4. 2 < Len(sc) => sc[2].end <= sc[Len(sc)].before BY <1>1, <1>2, StreamOrder
<1>5. 2 < Len(sc) \/ 2 = Len(sc)
  <2>1. PICK n \in Nat : n = Len(sc) /\ n >= 2 BY <1>1
  <2>2. 2 < n \/ 2 = n BY <2>1
  <2>3. QED BY <2>1, <2>2
<1>6. QED BY <1>1, <1>2, <1>3, <1>4, <1>5

\* From the end of a message on, the first place where a text may end is the end of the
\* next message.
LEMMA NextMessage ==
  ASSUME NEW sc \in Scripts, NEW j \in 1..Len(sc), NEW q \in Nat,
         Terminated(sc, sc[j].end, q),
         \A r \in sc[j].end .. q - 1 : ~Terminated(sc, sc[j].end, r)
  PROVE  \E k \in 1..Len(sc) : k > 1 /\ sc[k].before = sc[j].end /\ sc[k].end = q
<1>1. /\ Len(sc) \in Nat /\ DOMAIN sc = 1..Len(sc)
      /\ \A k \in 1..Len(sc) :
           /\ sc[k].before \in Nat /\ sc[k].end \in Nat
           /\ sc[k].before + 2 <= sc[k].end
           /\ k > 1 => sc[k].before + 4 <= sc[k].end /\ sc[k].before = sc[k - 1].end
  BY StreamPlaces
<1>2. PICK m \in 1..Len(sc) : m > 1 /\ sc[m].end = q /\ q >= sc[j].end + 4
  BY <1>1 DEF Terminated
<1>3. j < m
  <2>1. CASE m = j BY <1>1, <1>2, <2>1
  <2>2. CASE m < j
    <3>1. sc[m].end <= sc[j].before BY <2>2, StreamOrder
    <3>2. QED BY <1>1, <1>2, <3>1
  <2>3. QED BY <2>1, <2>2
<1>4. PICK i \in 1..Len(sc) : i = j + 1 /\ i > 1 /\ i - 1 = j BY <1>1, <1>3
<1>5. sc[i].before = sc[j].end /\ sc[i].end >= sc[j].end + 4
  <2>1. sc[i].before = sc[i - 1].end /\ sc[i].before + 4 <= sc[i].end BY <1>1, <1>4
  <2>2. QED BY <1>4, <2>1
<1>6. Terminated(sc, sc[j].end, sc[i].end) BY <1>1, <1>4, <1>5 DEF Terminated
<1>7. sc[i].end <= q
  <2>1. CASE i = m BY <1>1, <1>2, <2>1
  <2>2. CASE i < m
    <3>1. sc[i].end <= sc[m].before BY <2>2, StreamOrder
    <3>2. QED BY <1>1, <1>2, <3>1
  <2>3. QED BY <1>3, <1>4, <2>1, <2>2
<1>8. sc[i].end = q
  <2>1. CASE sc[i].end < q
    <3>1. sc[i].end \in sc[j].end .. q - 1 BY <1>1, <1>5, <2>1
    <3>2. QED BY <1>6, <3>1
  <2>2. QED BY <1>1, <1>7, <2>1
<1>9. QED BY <1>4, <1>5, <1>8

----------------------------------------------------------------------------
(* Every step preserves the invariant.                                         *)

\* What has been separated is as before, and as long as the connection is logged in
\* nothing has been read.
LEMMA SameTexts ==
  ASSUME Inv, UNCHANGED <<script, handed>>, handed # <<>> => LoggedIn' /\ base' = base
  PROVE  Texts' /\ NoGap' /\ WholeMessages'
BY DEF Inv, Texts, NoGap, WholeMessages

\* The bytes that have come.
LEMMA ArriveInv ==
  ASSUME Inv, Arrive
  PROVE  Inv' /\ arrived' \in arrived + 1 .. script[Len(script)].end
<1>0. Places /\ arrived \in Nat BY DEF Inv, Places
<1>1. /\ script[1].end \in Nat /\ script[2].end \in Nat /\ script[Len(script)].end \in Nat
      /\ script[1].end <= script[Len(script)].end /\ script[2].end <= script[Len(script)].end
  <2>1. Len(script) \in Nat /\ Len(script) >= 2 BY <1>0, StreamPlaces DEF Places
  <2>2. 1 \in 1..Len(script) /\ 2 \in 1..Len(script) /\ Len(script) \in 1..Len(script)
    BY <2>1
  <2>3. QED BY <1>0, <2>2, StreamPlaces, StreamLimit DEF Places
<1>2. PICK limit \in {script[1].end, script[2].end, script[Len(script)].end} :
        arrived' \in arrived + 1 .. limit
  BY DEF Arrive, Banner, Answer, Limit
<1>3. arrived' \in arrived + 1 .. script[Len(script)].end BY <1>0, <1>1, <1>2
<1>4. arrived' \in Nat /\ arrived <= arrived' BY <1>0, <1>1, <1>3
<1>5. UNCHANGED <<script, rpos, base, checked_len, pc, handed>> /\ pc # "overflow" BY DEF Arrive
<1>6. Places' BY <1>0, <1>4, <1>5 DEF Places, LoggedIn, com_len
<1>7. NoneYet' BY <1>5 DEF Inv, NoneYet, LoggedIn
<1>8. Texts' /\ NoGap' /\ WholeMessages' BY <1>5, SameTexts DEF Inv, Texts, LoggedIn
<1>9. QED BY <1>3, <1>6, <1>7, <1>8 DEF Inv

\* amiLogin; when it has succeeded, rdata.s is empty and no text has been separated.
LEMMA LoginInv ==
  ASSUME Inv, Login
  PROVE  /\ Inv' /\ ~LoggedIn /\ UNCHANGED <<script, arrived, handed>>
         /\ LoggedIn' => base' \in LineEnds(script) \cap script[2].before + 1 .. arrived
<1>0. /\ Places /\ pc \in {"banner", "answer"} /\ ~LoggedIn
      /\ arrived \in Nat /\ rpos \in Nat /\ base \in Nat /\ base <= rpos /\ rpos <= arrived
  BY DEF Inv, Places, Login, LoginOverflow, LoginShort, LoginBanner, LoginPartial, LoginAnswer,
         LoginRead, LoggedIn
<1>1. UNCHANGED <<script, arrived, handed>>
  BY DEF Login, LoginOverflow, LoginShort, LoginBanner, LoginPartial, LoginAnswer, input
<1>2. handed = <<>> /\ Texts' /\ NoGap' /\ WholeMessages' BY <1>0, <1>1, SameTexts DEF Inv, Texts
<1>3. CASE LoginOverflow
  <2>1. /\ UNCHANGED <<rpos, base, checked_len>> /\ pc' = "overflow" /\ arrived > Buffer
    BY <1>0, <1>3, Numbers DEF LoginOverflow, Got
  <2>2. Places' /\ ~LoggedIn' BY <1>0, <1>1, <2>1 DEF Places, LoggedIn, Pcs
  <2>3. QED BY <1>0, <1>1, <1>2, <2>2 DEF Inv, NoneYet
<1>4. CASE LoginShort \/ LoginBanner \/ LoginPartial \/ LoginAnswer
  <2>1. /\ rpos' = arrived /\ base' \in {base, arrived} /\ checked_len' = arrived - rpos
        /\ pc' \in {"banner", "answer", "failed", "armed"}
    BY <1>4 DEF LoginShort, LoginBanner, LoginPartial, LoginAnswer, LoginRead, Outcomes
  <2>2. LoggedIn' =>
          /\ base' = arrived /\ arrived > base /\ base = script[2].before
          /\ arrived \in LineEnds(script)
    <3>1. SUFFICES ASSUME LoggedIn'
                   PROVE  /\ base' = arrived /\ arrived > base /\ base = script[2].before
                          /\ arrived \in LineEnds(script)
      OBVIOUS
    <3>2. pc' = "armed" BY <2>1, <3>1 DEF LoggedIn
    <3>3. LoginAnswer BY <1>4, <3>2 DEF LoginShort, LoginBanner, LoginPartial, LoginRead
    <3>4. /\ base' = arrived /\ arrived \in LineEnds(script) /\ arrived - base >= MinLogin
          /\ base = script[2].before
      BY <3>2, <3>3 DEF LoginAnswer, Outcomes, Got, Answer
    <3>5. QED BY <1>0, <3>4, Numbers
  <2>3. LoggedIn' => base' > 0 /\ rpos' - base' < Buffer
    BY <1>0, <2>1, <2>2, Numbers
  <2>4. checked_len' \in Nat /\ base' \in Nat /\ base' <= rpos' /\ rpos' <= arrived'
    BY <1>0, <1>1, <2>1
  <2>5. Places' BY <1>0, <1>1, <2>1, <2>3, <2>4 DEF Places, LoggedIn, Pcs, com_len
  <2>6. NoneYet'
    <3>1. SUFFICES ASSUME LoggedIn', NEW q \in base'..rpos', Terminated(script', base', q)
                   PROVE  FALSE
      BY DEF NoneYet
    <3>2. q >= base' + 4 BY <3>1 DEF Terminated
    <3>3. q = arrived /\ base' = arrived BY <1>0, <2>1, <2>2, <3>1
    <3>4. QED BY <1>0, <3>2, <3>3
  <2>7. LoggedIn' => base' \in LineEnds(script) \cap script[2].before + 1 .. arrived
    BY <1>0, <2>2
  <2>8. QED BY <1>0, <1>1, <1>2, <2>5, <2>6, <2>7 DEF Inv
<1>5. QED BY <1>3, <1>4 DEF Login

\* The bytes that ami_event may read are within the buffer and have arrived.
LEMMA ReachBound ==
  ASSUME Places, pc = "job"
  PROVE  /\ Reach \in Nat /\ rpos <= Reach /\ Reach <= arrived
         /\ Reach - base < Buffer
<1>1. /\ rpos \in Nat /\ base \in Nat /\ checked_len \in Nat /\ arrived \in Nat
      /\ base <= rpos /\ rpos - base < Buffer /\ rpos + checked_len <= arrived
  BY DEF Places, com_len, LoggedIn
<1>2. Room \in Nat /\ Room = Buffer - (rpos - base) - 1 BY <1>1, Numbers DEF Room, com_len
<1> DEFINE n == Min({Room, checked_len})
<1>3. {Room, checked_len} \subseteq Nat /\ {Room, checked_len} # {} BY <1>1, <1>2
<1>4. n \in {Room, checked_len} /\ \A y \in {Room, checked_len} : n <= y
  BY <1>3, LeastOf, Zenon
<1> HIDE DEF n
<1>5. n \in Nat /\ n <= Room /\ n <= checked_len BY <1>1, <1>2, <1>4
<1>6. Reach = rpos + n BY DEF Reach, n
<1>7. QED BY <1>1, <1>2, <1>5, <1>6, Numbers

\* ami_event finds no complete message.
LEMMA AmiPartInv ==
  ASSUME Inv, AmiPart
  PROVE  Inv' /\ UNCHANGED <<script, arrived, handed, base>> /\ LoggedIn /\ LoggedIn'
<1>0. Places /\ NoneYet /\ pc = "job" /\ LoggedIn BY DEF Inv, AmiPart, LoggedIn
<1>1. /\ Reach \in Nat /\ rpos <= Reach /\ Reach <= arrived /\ Reach - base < Buffer
  BY <1>0, ReachBound
<1>2. /\ rpos' = Reach /\ pc' = "armed" /\ Stops = {}
      /\ UNCHANGED <<script, arrived, handed, base, checked_len>>
  BY DEF AmiPart, input
<1>3. /\ rpos \in Nat /\ base \in Nat /\ base <= rpos BY <1>0 DEF Places
<1>4. Places' BY <1>0, <1>1, <1>2, <1>3 DEF Places, LoggedIn, Pcs, com_len
<1>5. NoneYet'
  <2>1. SUFFICES ASSUME NEW q \in base..Reach, Terminated(script, base, q) PROVE FALSE
    BY <1>2 DEF NoneYet
  <2>2. CASE q <= rpos
    <3>1. q \in base..rpos BY <1>1, <1>3, <2>2
    <3>2. QED BY <1>0, <2>1, <3>1 DEF NoneYet
  <2>3. CASE q > rpos
    <3>1. q \in rpos..Reach BY <1>1, <1>3, <2>3
    <3>2. QED BY <1>2, <2>1, <3>1 DEF Stops
  <2>4. QED BY <1>1, <1>3, <2>2, <2>3
<1>6. LoggedIn' BY <1>2 DEF LoggedIn
<1>7. Texts' /\ NoGap' /\ WholeMessages' BY <1>2, <1>6, SameTexts
<1>8. QED BY <1>0, <1>2, <1>4, <1>5, <1>6, <1>7 DEF Inv

\* ami_event separates a text: up to the end of the first message that is complete.
LEMMA AmiWholeStep ==
  ASSUME Inv, AmiWhole
  PROVE  /\ LoggedIn /\ base' \in Nat /\ base < base' /\ base' <= arrived
         /\ base' - base < Buffer /\ rpos' = base' /\ pc' = "armed"
         /\ Terminated(script, base, base')
         /\ \A r \in base .. base' - 1 : ~Terminated(script, base, r)
         /\ handed' = Append(handed, [first |-> base + 1, last |-> base'])
         /\ UNCHANGED <<script, arrived, checked_len>>
<1>0. Places /\ NoneYet /\ pc = "job" /\ LoggedIn BY DEF Inv, AmiWhole, LoggedIn
<1>1. /\ Reach \in Nat /\ rpos <= Reach /\ Reach <= arrived /\ Reach - base < Buffer
  BY <1>0, ReachBound
<1>2. /\ rpos \in Nat /\ base \in Nat /\ base <= rpos /\ arrived \in Nat BY <1>0 DEF Places
<1> DEFINE m == Min(Stops)
<1>3. Stops \subseteq Nat /\ Stops # {} BY <1>1, <1>2 DEF AmiWhole, Stops
<1>4. m \in Stops /\ \A q \in Stops : m <= q BY <1>3, LeastOf, Zenon
<1>5. /\ rpos' = m /\ base' = m /\ pc' = "armed"
      /\ handed' = Append(handed, [first |-> base + 1, last |-> m])
      /\ UNCHANGED <<script, arrived, checked_len>>
  BY DEF AmiWhole, input
<1> HIDE DEF m
<1>6. m \in rpos..Reach /\ Terminated(script, base, m) BY <1>4 DEF Stops
<1>7. m >= base + 4 BY <1>6 DEF Terminated
<1>8. m \in Nat /\ base < m /\ m <= arrived /\ m - base < Buffer BY <1>1, <1>2, <1>6, <1>7, Numbers
<1>9. ASSUME NEW r \in base .. m - 1, Terminated(script, base, r) PROVE FALSE
  <2>1. CASE r <= rpos
    <3>1. r \in base..rpos BY <1>2, <1>8, <2>1
    <3>2. QED BY <1>0, <1>9, <3>1 DEF NoneYet
  <2>2. CASE r > rpos
    <3>1. r \in rpos..Reach /\ r < m BY <1>1, <1>2, <1>6, <1>8, <2>2
    <3>2. r \in Stops BY <1>9, <3>1 DEF Stops
    <3>3. QED BY <1>2, <1>4, <1>8, <3>1, <3>2
  <2>3. QED BY <1>2, <1>8, <2>1, <2>2
<1>10. QED BY <1>0, <1>5, <1>6, <1>8, <1>9

\* The text separated follows the one before, and if that ended a message it is the next
\* message.
LEMMA AmiWholeInv == ASSUME Inv, AmiWhole PROVE Inv'
<1> DEFINE text == [first |-> base + 1, last |-> base']
<1>1. /\ LoggedIn /\ base' \in Nat /\ base < base' /\ base' <= arrived
      /\ base' - base < Buffer /\ rpos' = base' /\ pc' = "armed"
      /\ Terminated(script, base, base')
      /\ \A r \in base .. base' - 1 : ~Terminated(script, base, r)
      /\ handed' = Append(handed, text)
      /\ UNCHANGED <<script, arrived, checked_len>>
  BY AmiWholeStep
<1> HIDE DEF text
<1>2. Places /\ Texts /\ NoGap /\ WholeMessages BY DEF Inv
<1>3. base \in Nat /\ script \in Scripts /\ handed \in Seq([first : Nat, last : Nat])
  BY <1>2 DEF Places, Texts
<1>4. Places'
  <2>0. PICK b \in Nat : b = base' /\ base < b /\ b <= arrived /\ rpos' = b BY <1>1
  <2>1. arrived \in Nat /\ checked_len \in Nat /\ arrived' = arrived BY <1>1, <1>2 DEF Places
  <2>4. \A i, j \in Nat : i < j => j > 0 /\ j <= j /\ j - j = 0 OBVIOUS
  <2>5. b > 0 /\ b <= b /\ b - b = 0 BY <1>3, <2>0, <2>4
  <2>2. base' > 0 /\ base' <= rpos' /\ rpos' <= arrived' /\ rpos' - base' = 0 /\ rpos' \in Nat
    BY <2>0, <2>1, <2>5
  <2>3. rpos' - base' < Buffer BY <2>2, Numbers
  <2>6. QED BY <1>1, <1>3, <2>1, <2>2, <2>3 DEF Places, LoggedIn, Pcs, com_len
<1>5. NoneYet'
  <2>1. SUFFICES ASSUME NEW q \in base'..rpos', Terminated(script', base', q) PROVE FALSE
    BY DEF NoneYet
  <2>2. q >= base' + 4 BY <2>1 DEF Terminated
  <2>3. PICK b \in Nat : b = base' /\ rpos' = b BY <1>1
  <2>4. q \in b..b /\ q >= b + 4 BY <2>1, <2>2, <2>3
  <2>5. \A i \in b..b : ~(i >= b + 4) OBVIOUS
  <2>6. QED BY <2>4, <2>5
<1>6. text \in [first : Nat, last : Nat] /\ text.first = base + 1 /\ text.last = base'
  BY <1>1, <1>3 DEF text
<1>7. /\ handed' \in Seq([first : Nat, last : Nat]) /\ Len(handed) \in Nat
      /\ Len(handed') = Len(handed) + 1 /\ handed'[Len(handed) + 1] = text
      /\ \A i \in 1..Len(handed) : handed'[i] = handed[i]
  <2>1. Append(handed, text) \in Seq([first : Nat, last : Nat]) BY <1>3, <1>6
  <2>2. Len(Append(handed, text)) = Len(handed) + 1 BY <1>3
  <2>3. Append(handed, text)[Len(handed) + 1] = text BY <1>3
  <2>4. \A i \in 1..Len(handed) : Append(handed, text)[i] = handed[i] BY <1>3
  <2>5. QED BY <1>1, <1>3, <2>1, <2>2, <2>3, <2>4
<1>8. PICK k \in DOMAIN script : k > 1 /\ script[k].end = base' BY <1>1 DEF Terminated
<1>9. Texts'
  <2>1. LoggedIn' BY <1>1 DEF LoggedIn
  <2>2. handed'[Len(handed')].last = base' BY <1>6, <1>7
  <2>3. QED BY <1>1, <1>7, <1>8, <2>1, <2>2 DEF Texts
<1>10. ASSUME NEW i \in 2..Len(handed'), i # Len(handed) + 1
       PROVE  /\ i \in 2..Len(handed) /\ i \in 1..Len(handed) /\ i - 1 \in 1..Len(handed)
              /\ handed'[i] = handed[i] /\ handed'[i - 1] = handed[i - 1]
  <2>1. i \in 2..Len(handed) /\ i \in 1..Len(handed) /\ i - 1 \in 1..Len(handed)
    BY <1>7, <1>10
  <2>2. QED BY <1>7, <2>1
<1>11. ASSUME Len(handed) + 1 \in 2..Len(handed')
       PROVE  /\ handed'[Len(handed) + 1 - 1].last = base
              /\ \E j \in DOMAIN script : j > 1 /\ script[j].end = base
  <2>1. Len(handed) \in 1..Len(handed) /\ Len(handed) + 1 - 1 = Len(handed)
    BY <1>7, <1>11
  <2>2. handed # <<>> BY <2>1
  <2>3. QED BY <1>2, <1>7, <2>1, <2>2 DEF Texts
<1>12. NoGap'
  <2>1. SUFFICES ASSUME NEW i \in 2..Len(handed')
                 PROVE  handed'[i].first = handed'[i - 1].last + 1
    BY DEF NoGap
  <2>2. CASE i = Len(handed) + 1 BY <1>6, <1>7, <1>11, <2>1, <2>2
  <2>3. CASE i # Len(handed) + 1 BY <1>2, <1>10, <2>1, <2>3 DEF NoGap
  <2>4. QED BY <2>2, <2>3
<1>13. WholeMessages'
  <2>1. SUFFICES ASSUME NEW i \in 2..Len(handed')
                 PROVE  \E m \in DOMAIN script : m > 1 /\
                          handed'[i] = [first |-> script[m].before + 1, last |-> script[m].end]
    BY <1>1 DEF WholeMessages
  <2>2. CASE i = Len(handed) + 1
    <3>1. PICK j \in DOMAIN script : j > 1 /\ script[j].end = base BY <1>11, <2>1, <2>2
    <3>2. DOMAIN script = 1..Len(script) BY <1>3, StreamPlaces
    <3>3. PICK m \in 1..Len(script) : m > 1 /\ script[m].before = base /\ script[m].end = base'
      <4>1. PICK q \in Nat : q = base' BY <1>1
      <4>2. /\ Terminated(script, script[j].end, q)
            /\ \A r \in script[j].end .. q - 1 : ~Terminated(script, script[j].end, r)
        BY <1>1, <3>1, <4>1
      <4>3. \E m \in 1..Len(script) : m > 1 /\ script[m].before = script[j].end /\ script[m].end = q
        <5>1. script \in Scripts /\ j \in 1..Len(script) BY <1>3, <3>1, <3>2
        <5>2. QED BY <4>2, <5>1, NextMessage
      <4>4. QED BY <3>1, <4>1, <4>3
    <3>4. handed'[i] = [first |-> script[m].before + 1, last |-> script[m].end]
      BY <1>7, <2>2, <3>3 DEF text
    <3>5. QED BY <3>2, <3>3, <3>4
  <2>3. CASE i # Len(handed) + 1
    <3>1. i \in 2..Len(handed) /\ handed'[i] = handed[i] BY <1>10, <2>1, <2>3
    <3>2. QED BY <1>2, <3>1 DEF WholeMessages
  <2>4. QED BY <2>2, <2>3
<1>14. QED BY <1>4, <1>5, <1>9, <1>12, <1>13 DEF Inv

\* The steps that leave the connection as it is: those of the AsyncThreadPool.
LEMMA AsideInv ==
  ASSUME Inv, UNCHANGED <<script, arrived, rpos, base, checked_len, pc, handed>>
  PROVE  Inv'
<1>1. Places' BY DEF Inv, Places, LoggedIn, com_len
<1>2. NoneYet' BY DEF Inv, NoneYet, LoggedIn
<1>3. Texts' /\ NoGap' /\ WholeMessages' BY SameTexts DEF Inv, Texts, LoggedIn
<1>4. QED BY <1>1, <1>2, <1>3 DEF Inv

\* The main thread counts what has come.
LEMMA EventInv == ASSUME Inv, Event PROVE Inv'
<1>1. /\ pc = "armed" /\ pc' = "job" /\ checked_len' = arrived - rpos /\ arrived > rpos
      /\ UNCHANGED <<script, arrived, rpos, base, handed>>
  BY DEF Event, input
<1>2. Places' BY <1>1 DEF Inv, Places, LoggedIn, Pcs, com_len
<1>3. NoneYet' BY <1>1 DEF Inv, NoneYet, LoggedIn
<1>4. Texts' /\ NoGap' /\ WholeMessages' BY <1>1, SameTexts DEF LoggedIn
<1>5. QED BY <1>2, <1>3, <1>4 DEF Inv

\* It holds initially.
LEMMA InitInv == Init => Inv
<1> SUFFICES ASSUME Init PROVE Inv OBVIOUS
<1>1. Places BY DEF Init, Places, Pcs, LoggedIn
<1>2. NoneYet BY DEF Init, NoneYet, LoggedIn
<1>3. handed = <<>> BY DEF Init
<1>4. Texts /\ NoGap /\ WholeMessages BY <1>3 DEF Texts, NoGap, WholeMessages
<1>5. QED BY <1>1, <1>2, <1>4 DEF Inv

\* Every step preserves it.
LEMMA StepInv == Inv /\ [Next]_vars => Inv'
<1> SUFFICES ASSUME Inv, [Next]_vars PROVE Inv' OBVIOUS
<1>1. CASE Arrive BY <1>1, ArriveInv
<1>2. CASE Login BY <1>2, LoginInv
<1>3. CASE Event BY <1>3, EventInv
<1>4. CASE AmiPart BY <1>4, AmiPartInv
<1>5. CASE AmiWhole BY <1>5, AmiWholeInv
<1>6. CASE \E t \in Atps : AtpTake(t) \/ process_events(t)
  <2>1. UNCHANGED <<script, arrived, rpos, base, checked_len, pc, handed>>
    BY <1>6 DEF AtpTake, process_events, input
  <2>2. QED BY <2>1, AsideInv
<1>7. CASE UNCHANGED vars
  <2>1. UNCHANGED <<script, arrived, rpos, base, checked_len, pc, handed>>
    BY <1>7 DEF vars, input
  <2>2. QED BY <2>1, AsideInv
<1>8. QED BY <1>1, <1>2, <1>3, <1>4, <1>5, <1>6, <1>7 DEF Next

----------------------------------------------------------------------------
(* The refinement of AmiFeed: every step hands a text over, logs in, receives    *)
(* bytes, or leaves what AmiFeed speaks of as it is.                             *)

\* Initially nothing has been handed over.
LEMMA FeedInit == Init => Feed!Init
BY DEF Init, Feed!Init

\* AmiFeed means the same by the places of the messages.
LEMMA FeedPlaces ==
  /\ \A sc : Feed!LineEnds(sc) = LineEnds(sc)
  /\ \A sc, p : Feed!NextEnd(sc, p) = NextEnd(sc, p)
<1>1. \A sc : Feed!LineEnds(sc) = LineEnds(sc) BY DEF Feed!LineEnds, LineEnds
<1>2. \A sc, p, q : Feed!Terminated(sc, p, q) <=> Terminated(sc, p, q)
  BY DEF Feed!Terminated, Terminated
<1>3. \A sc, p : Feed!NextEnd(sc, p) = NextEnd(sc, p) BY <1>2 DEF Feed!NextEnd, NextEnd
<1>4. QED BY <1>1, <1>3

\* One step of the connection.
LEMMA FeedStep == Inv /\ [Next]_vars => [Feed!Next]_(Feed!fvars)
<1> SUFFICES ASSUME Inv, [Next]_vars PROVE Feed!Next \/ UNCHANGED Feed!fvars OBVIOUS
<1>1. CASE Arrive
  <2>1. arrived' \in arrived + 1 .. script[Len(script)].end BY <1>1, ArriveInv
  <2>2. UNCHANGED <<script, base, pc, handed>> BY <1>1 DEF Arrive
  <2>3. QED BY <2>1, <2>2 DEF Feed!Next, Feed!Arrive
<1>2. CASE Login
  <2>1. /\ ~LoggedIn /\ UNCHANGED <<script, arrived, handed>>
        /\ LoggedIn' => base' \in LineEnds(script) \cap script[2].before + 1 .. arrived
    BY <1>2, LoginInv
  <2>2. CASE LoggedIn' BY <2>1, <2>2, FeedPlaces DEF LoggedIn, Feed!Next, Feed!Login
  <2>3. CASE ~LoggedIn' BY <2>1, <2>3 DEF LoggedIn, Feed!fvars
  <2>4. QED BY <2>2, <2>3
<1>3. CASE Event BY <1>3 DEF Event, input, Feed!fvars
<1>4. CASE AmiPart BY <1>4, AmiPartInv DEF LoggedIn, Feed!fvars
<1>5. CASE AmiWhole
  <2>1. /\ LoggedIn /\ base' \in Nat /\ base < base' /\ base' <= arrived
        /\ base' - base < Buffer /\ pc' = "armed"
        /\ Terminated(script, base, base')
        /\ \A r \in base .. base' - 1 : ~Terminated(script, base, r)
        /\ handed' = Append(handed, [first |-> base + 1, last |-> base'])
        /\ UNCHANGED <<script, arrived>>
    BY <1>5, AmiWholeStep
  <2>2. base # 0 BY <2>1 DEF Inv, Places
  <2>3. base' \in NextEnd(script, base)
    <3>1. base' \in {script[k].end : k \in DOMAIN script} BY <2>1 DEF Terminated
    <3>2. QED BY <2>1, <3>1 DEF NextEnd
  <2>4. QED BY <2>1, <2>2, <2>3, FeedPlaces DEF LoggedIn, Feed!Next, Feed!Hand
<1>6. CASE \E t \in Atps : AtpTake(t) \/ process_events(t)
  BY <1>6 DEF AtpTake, process_events, input, Feed!fvars
<1>7. CASE UNCHANGED vars BY <1>7 DEF vars, input, Feed!fvars
<1>8. QED BY <1>1, <1>2, <1>3, <1>4, <1>5, <1>6, <1>7 DEF Next

----------------------------------------------------------------------------
(* The theorems.                                                               *)

\* The inductive invariant holds of every behaviour.
THEOREM Invariance == FairSpec => []Inv
<1>1. Init => Inv BY InitInv
<1>2. Inv /\ [Next]_vars => Inv' BY StepInv
<1>3. QED BY <1>1, <1>2, PTL DEF FairSpec

\* rdata.s always has a place for the \0 that ends a text once the login is complete,
\* whatever the login left there, and amiLogin can write behind the buffer only if more
\* has been sent than it takes (amiaction.cpp 60-64, amiproc.cpp 225-259).
THEOREM TextsFit == FairSpec => []TextFits
<1>1. Inv => TextFits BY DEF Inv, Places, LoggedIn, TextFits
<1>2. QED BY <1>1, Invariance, PTL

\* The connection implements AmiFeed, as far as safety goes: from the place on where the
\* login ended, which is the end of a line of the answer or behind it, the stream is
\* separated without a gap, each text up to the end of a message, and no text is longer
\* than the buffer takes (amiaction.cpp 60-132, amiproc.cpp 201-343).
THEOREM FeedsSafely == FairSpec => Feed!Init /\ [][Feed!Next]_(Feed!fvars)
<1>1. Init => Feed!Init BY FeedInit
<1>2. Inv /\ [Next]_vars => [Feed!Next]_(Feed!fvars) BY FeedStep
<1>3. QED BY <1>1, <1>2, Invariance, PTL DEF FairSpec

\* Every text that ami_event separates but the first is one whole message, and the texts
\* follow one another without a gap, so that no event is lost, doubled or joined to
\* another one (amiproc.cpp 12, 225-343).
THEOREM OneMessageEach == FairSpec => [](NoGap /\ WholeMessages)
<1>1. Inv => NoGap /\ WholeMessages BY DEF Inv
<1>2. QED BY <1>1, Invariance, PTL
=============================================================================
