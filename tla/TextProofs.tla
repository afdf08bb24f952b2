----------------------------- MODULE TextProofs -----------------------------
(* Proofs about the algorithms on texts.                                       *)
EXTENDS TextAlgorithms, SequenceTheorems, WellFoundedInduction, TLAPS

\* A set of numbers that is not empty has a least one.
LEMMA LeastOf ==
  ASSUME NEW T, T \subseteq Nat, T # {}
  PROVE  \E n \in T : \A y \in T : n <= y
<1> DEFINE R == OpToRel(<, Nat)
<1>1. IsWellFoundedOn(R, Nat) BY NatLessThanWellFounded
<1> HIDE DEF R
<1>2. PICK x \in T : \A y \in T : ~(<<y, x>> \in R) BY <1>1, WFMin
<1>3. \A y \in T : ~(y < x) BY <1>2 DEF R, OpToRel
<1>4. QED BY <1>3

\* Induction, upwards and downwards, over the numbers up to n.
LEMMA Upwards ==
  ASSUME NEW n \in Nat, NEW T, 0 \in T, \A k \in 0 .. n - 1 : k \in T => k + 1 \in T
  PROVE  0..n \subseteq T
<1> SUFFICES ASSUME NEW x \in 0..n, x \notin T PROVE FALSE OBVIOUS
<1> DEFINE B == {k \in Nat : k <= n /\ k \notin T}
<1>1. B \subseteq Nat /\ B # {}
  <2>1. x \in B OBVIOUS
  <2>2. QED BY <2>1
<1>2. PICK k \in B : \A y \in B : k <= y BY <1>1, LeastOf
<1>3. k \in Nat /\ k <= n /\ k \notin T /\ k # 0 BY <1>2
<1>4. k - 1 \in Nat /\ k - 1 <= n /\ k - 1 \notin B BY <1>2, <1>3
<1>5. k - 1 \in 0 .. n - 1 /\ k - 1 \in T /\ (k - 1) + 1 = k BY <1>3, <1>4
<1>6. QED BY <1>3, <1>5

LEMMA Downwards ==
  ASSUME NEW n \in Nat, NEW T, n \in T, \A k \in 0 .. n - 1 : k + 1 \in T => k \in T
  PROVE  0..n \subseteq T
<1> DEFINE U == {k \in 0..n : n - k \in T}
<1>1. 0 \in U BY n - 0 = n
<1>2. ASSUME NEW k \in 0 .. n - 1, k \in U PROVE k + 1 \in U
  <2>1. n - k \in T /\ k + 1 \in 0..n BY <1>2
  <2>2. n - (k + 1) \in 0 .. n - 1 /\ (n - (k + 1)) + 1 = n - k OBVIOUS
  <2>3. n - (k + 1) \in T BY <2>1, <2>2
  <2>4. QED BY <2>1, <2>3
<1>3. 0..n \subseteq U BY <1>1, <1>2, Upwards
<1>4. ASSUME NEW k \in 0..n PROVE k \in T
  <2>1. n - k \in 0..n /\ n - (n - k) = k OBVIOUS
  <2>2. QED BY <2>1, <1>3
<1>5. QED BY <1>4

\* What Find finds.
LEMMA FindIs ==
  ASSUME NEW S, NEW t \in Seq(S), NEW c, NEW p \in Nat, NEW f, f = Find(t, c, p)
  PROVE  /\ f \in Nat /\ f <= Len(t) + 1
         /\ f <= Len(t) => p <= f /\ t[f] = c
         /\ \A i \in p..Len(t) : i < f => t[i] # c
<1> DEFINE T == {i \in p..Len(t) : t[i] = c} \cup {Len(t) + 1}
<1>1. Len(t) \in Nat OBVIOUS
<1>2. T \subseteq Nat /\ T # {} BY <1>1
<1>3. PICK n \in T : \A y \in T : n <= y BY <1>2, LeastOf
<1>4. Min(T) \in T /\ \A y \in T : Min(T) <= y BY <1>3 DEF Min
<1>5. f = Min(T) BY DEF Find
<1>6. f \in T /\ \A y \in T : f <= y BY <1>4, <1>5
<1>7. f \in Nat /\ f <= Len(t) + 1 /\ (f <= Len(t) => p <= f /\ t[f] = c) BY <1>1, <1>6
<1>8. ASSUME NEW i \in p..Len(t), i < f PROVE t[i] # c BY <1>1, <1>6, <1>7, <1>8
<1>9. QED BY <1>7, <1>8

\* The first place is the one Find finds, and there is no other.
LEMMA FindAt ==
  ASSUME NEW S, NEW t \in Seq(S), NEW c, NEW p \in Nat, NEW e \in Nat, e <= Len(t) + 1,
         p <= e, e <= Len(t) => t[e] = c, \A i \in p .. e - 1 : t[i] # c
  PROVE  Find(t, c, p) = e
<1> DEFINE f == Find(t, c, p)
<1>1. Len(t) \in Nat OBVIOUS
<1>2. /\ f \in Nat /\ f <= Len(t) + 1
      /\ f <= Len(t) => p <= f /\ t[f] = c
      /\ \A i \in p..Len(t) : i < f => t[i] # c
  BY FindIs
<1> HIDE DEF f
<1>3. ~(f < e)
  <2> SUFFICES ASSUME f < e PROVE FALSE OBVIOUS
  <2>1. f <= Len(t) /\ f \in p .. e - 1 BY <1>1, <1>2
  <2>2. QED BY <2>1, <1>2
<1>4. ~(e < f)
  <2> SUFFICES ASSUME e < f PROVE FALSE OBVIOUS
  <2>1. e \in p..Len(t) BY <1>1, <1>2
  <2>2. QED BY <2>1, <1>2
<1>5. QED BY <1>2, <1>3, <1>4 DEF f

\* The places a loop goes to are behind the one it is at.
Forward(item, next, n) ==
  \A p \in DOMAIN item : p \in 1..n /\ next[p] \in p + 1 .. n

\* What a loop puts together, step by step.
LEMMA CollectStep ==
  ASSUME NEW n \in Nat, NEW item, NEW next, Forward(item, next, n), NEW p \in 1..n
  PROVE  Collect(item, next, n)[p] =
           IF p \in DOMAIN item THEN <<item[p]>> \o Collect(item, next, n)[next[p]] ELSE <<>>
<1> DEFINE E(f, q) == IF q \in DOMAIN item THEN <<item[q]>> \o f[next[q]] ELSE <<>>
           Solves(f) == f = [q \in 1..n |-> E(f, q)]
<1>1. Collect(item, next, n) = CHOOSE f : Solves(f) BY DEF Collect
<1>2. \E f : Solves(f)
  <2> DEFINE T == {m \in 0..n : \E f : f = [q \in m + 1 .. n |-> E(f, q)]}
  <2>1. n \in T
    <3> DEFINE f == [q \in n + 1 .. n |-> <<>>]
    <3>1. f = [q \in n + 1 .. n |-> E(f, q)] OBVIOUS
    <3>2. QED BY <3>1
  <2>2. ASSUME NEW m \in 0 .. n - 1, m + 1 \in T PROVE m \in T
    <3>1. PICK f : f = [q \in m + 2 .. n |-> E(f, q)] BY <2>2
    <3> DEFINE g == [q \in m + 1 .. n |-> IF q = m + 1 THEN E(f, q) ELSE f[q]]
    <3>2. ASSUME NEW q \in m + 1 .. n PROVE g[q] = E(g, q)
      <4>1. E(g, q) = E(f, q)
        <5>1. CASE q \in DOMAIN item
          <6>1. next[q] \in m + 2 .. n BY <5>1 DEF Forward
          <6>2. next[q] \in m + 1 .. n /\ next[q] # m + 1 BY <6>1
          <6>3. g[next[q]] = f[next[q]] BY <6>2
          <6> HIDE DEF g
          <6>4. QED BY <6>3, <5>1
        <5>2. CASE q \notin DOMAIN item BY <5>2
        <5>3. QED BY <5>1, <5>2
      <4>2. g[q] = E(f, q)
        <5>1. CASE q = m + 1 BY <5>1
        <5>2. CASE q # m + 1
          <6>1. q \in m + 2 .. n BY <5>2
          <6>2. f[q] = E(f, q) BY <6>1, <3>1
          <6> HIDE DEF E
          <6>3. QED BY <6>2, <5>2
        <5>3. QED BY <5>1, <5>2
      <4> HIDE DEF g, E
      <4>3. QED BY <4>1, <4>2
    <3>3. g = [q \in m + 1 .. n |-> g[q]] OBVIOUS
    <3> HIDE DEF g, E
    <3>4. g = [q \in m + 1 .. n |-> E(g, q)] BY <3>2, <3>3
    <3>5. QED BY <3>4
  <2> HIDE DEF T
  <2>3. 0 \in T BY <2>1, <2>2, Downwards
  <2>4. QED BY <2>3 DEF T
<1>3. Solves(Collect(item, next, n)) BY <1>1, <1>2
<1> DEFINE c == Collect(item, next, n)
<1>4. c = [q \in 1..n |-> E(c, q)] BY <1>3
<1> HIDE DEF c
<1>5. QED BY <1>4 DEF c

\* What a loop puts together is a sequence of items.
LEMMA CollectSeq ==
  ASSUME NEW n \in Nat, NEW item, NEW next, Forward(item, next, n),
         NEW V, \A p \in DOMAIN item : item[p] \in V, NEW p \in 1..n
  PROVE  Collect(item, next, n)[p] \in Seq(V)
<1> DEFINE c == Collect(item, next, n)
           T == {m \in 0..n : \A q \in 1..n : q > m => c[q] \in Seq(V)}
<1>1. n \in T OBVIOUS
<1>2. ASSUME NEW m \in 0 .. n - 1, m + 1 \in T PROVE m \in T
  <2>1. c[m + 1] \in Seq(V)
    <3>1. m + 1 \in 1..n OBVIOUS
    <3>2. c[m + 1] = IF m + 1 \in DOMAIN item THEN <<item[m + 1]>> \o c[next[m + 1]] ELSE <<>>
      BY <3>1, CollectStep
    <3> HIDE DEF c
    <3>3. CASE m + 1 \in DOMAIN item
      <4>1. next[m + 1] \in 1..n /\ next[m + 1] > m + 1 BY <3>3 DEF Forward
      <4>2. c[next[m + 1]] \in Seq(V) BY <4>1, <1>2
      <4>3. <<item[m + 1]>> \in Seq(V) BY <3>3
      <4>4. QED BY <3>2, <3>3, <4>2, <4>3, ConcatProperties
    <3>4. CASE m + 1 \notin DOMAIN item BY <3>2, <3>4, EmptySeq
    <3>5. QED BY <3>3, <3>4
  <2> HIDE DEF c
  <2>2. ASSUME NEW q \in 1..n, q > m PROVE c[q] \in Seq(V)
    <3>1. CASE q = m + 1 BY <2>1, <3>1
    <3>2. CASE q # m + 1
      <4>1. q > m + 1 BY <2>2, <3>2
      <4>2. QED BY <4>1, <1>2
    <3>3. QED BY <3>1, <3>2
  <2>3. QED BY <2>2
<1> HIDE DEF T
<1>3. 0 \in T BY <1>1, <1>2, Downwards
<1>4. QED BY <1>3 DEF T

\* A loop is at the places c[1] to c[m], and then it ends.
GoesAlong(c, m, item, next, n) ==
  /\ \A k \in 1 .. m + 1 : c[k] \in 1..n
  /\ \A k \in 1..m : c[k] \in DOMAIN item /\ c[k + 1] = next[c[k]]
  /\ c[m + 1] \notin DOMAIN item

\* What it puts together then.
LEMMA CollectAlong ==
  ASSUME NEW n \in Nat, NEW item, NEW next, Forward(item, next, n), NEW m \in Nat, NEW c,
         GoesAlong(c, m, item, next, n)
  PROVE  Collect(item, next, n)[c[1]] = [k \in 1..m |-> item[c[k]]]
<1> DEFINE f == Collect(item, next, n)
           rest(j) == [k \in 1 .. m - j |-> item[c[j + k]]]
           T == {j \in 0..m : f[c[j + 1]] = rest(j)}
           V == {item[p] : p \in DOMAIN item}
<1>1. m \in T
  <2>1. f[c[m + 1]] = <<>>
    <3>1. c[m + 1] \in 1..n /\ c[m + 1] \notin DOMAIN item BY DEF GoesAlong
    <3>2. f[c[m + 1]] = IF c[m + 1] \in DOMAIN item THEN <<item[c[m + 1]]>> \o f[next[c[m + 1]]]
                        ELSE <<>>
      BY <3>1, CollectStep
    <3>3. QED BY <3>1, <3>2
  <2>2. rest(m) = <<>> BY m - m = 0
  <2>3. QED BY <2>1, <2>2
<1>2. ASSUME NEW j \in 0 .. m - 1, j + 1 \in T PROVE j \in T
  <2>1. f[c[j + 2]] = rest(j + 1)
    <3>1. (j + 1) + 1 = j + 2 OBVIOUS
    <3>2. QED BY <3>1, <1>2
  <2> DEFINE p == c[j + 1]
  <2>2. j + 1 \in 1..m /\ (j + 1) + 1 = j + 2 OBVIOUS
  <2>3. p \in 1..n /\ p \in DOMAIN item /\ next[p] = c[j + 2] BY <2>2 DEF GoesAlong
  <2> DEFINE s == <<item[p]>>  r == rest(j + 1)  a == s \o r
  <2>4. f[p] = a
    <3>1. f[p] = IF p \in DOMAIN item THEN <<item[p]>> \o f[next[p]] ELSE <<>>
      BY <2>3, CollectStep
    <3> HIDE DEF f, rest
    <3>2. QED BY <3>1, <2>1, <2>3
  <2>5. \A k \in 1..m : item[c[k]] \in V BY DEF GoesAlong
  <2> HIDE DEF V
  <2>6. rest(j) \in Seq(V) /\ Len(rest(j)) = m - j BY <2>5
  <2>7. r \in Seq(V) /\ Len(r) = m - j - 1 BY <2>5
  <2>8. \A k \in 1 .. m - j - 1 : r[k] = item[c[(j + 1) + k]] OBVIOUS
  <2>9. s \in Seq(V) /\ Len(s) = 1 /\ s[1] = item[c[j + 1]] BY <2>2, <2>5
  <2> HIDE DEF s, r
  <2>10. /\ a \in Seq(V) /\ Len(a) = Len(s) + Len(r)
         /\ \A i \in 1 .. Len(s) + Len(r) : a[i] = IF i <= Len(s) THEN s[i] ELSE r[i - Len(s)]
    BY <2>7, <2>9, ConcatProperties, Zenon
  <2> HIDE DEF a
  <2>11. ASSUME NEW i \in 1 .. m - j PROVE a[i] = item[c[j + i]]
    <3>1. CASE i = 1 BY <3>1, <2>7, <2>9, <2>10
    <3>2. CASE i # 1
      <4>1. i - 1 \in 1 .. m - j - 1 /\ (j + 1) + (i - 1) = j + i /\ ~(i <= 1) BY <3>2
      <4>2. a[i] = r[i - 1]
        <5>1. i \in 1 .. Len(s) + Len(r) /\ ~(i <= Len(s)) /\ i - Len(s) = i - 1
          BY <4>1, <2>7, <2>9
        <5>2. a[i] = IF i <= Len(s) THEN s[i] ELSE r[i - Len(s)] BY <5>1, <2>10
        <5>3. QED BY <5>1, <5>2
      <4>3. QED BY <4>1, <4>2, <2>8
    <3>3. QED BY <3>1, <3>2
  <2>12. a = rest(j)
    <3>1. Len(a) = m - j BY <2>7, <2>9, <2>10
    <3>2. \A i \in 1..Len(a) : a[i] = rest(j)[i] BY <3>1, <2>11
    <3> HIDE DEF rest
    <3>3. QED BY <3>1, <3>2, <2>6, <2>10, SeqEqual, Zenon
  <2>13. QED BY <2>4, <2>12
<1> HIDE DEF T
<1>3. 0 \in T BY <1>1, <1>2, Downwards
<1>4. f[c[0 + 1]] = rest(0) BY <1>3 DEF T
<1>5. rest(0) = [k \in 1..m |-> item[c[k]]] OBVIOUS
<1>6. QED BY <1>4, <1>5

\* The places themselves: each is the next one of the one before.
IsChain(c, D, next, p) ==
  /\ c \in Seq(D) /\ Len(c) >= 1 /\ c[1] = p
  /\ \A k \in 1 .. Len(c) - 1 : c[k + 1] = next[c[k]]
  /\ next[c[Len(c)]] \notin D

LEMMA CollectChain ==
  ASSUME NEW n \in Nat, NEW D, NEW next, Forward([p \in D |-> p], next, n), NEW p \in D
  PROVE  IsChain(Collect([q \in D |-> q], next, n)[p], D, next, p)
<1> DEFINE item == [q \in D |-> q]
           f == Collect(item, next, n)
           T == {m \in 0..n : \A q \in D : q > m => IsChain(f[q], D, next, q)}
<1>1. \A q \in D : q \in 1..n /\ next[q] \in q + 1 .. n BY DEF Forward
<1>2. n \in T BY <1>1
<1>3. ASSUME NEW m \in 0 .. n - 1, m + 1 \in T PROVE m \in T
  <2> SUFFICES ASSUME NEW q \in D, q > m PROVE IsChain(f[q], D, next, q) OBVIOUS
  <2>1. CASE q # m + 1
    <3>1. q > m + 1 BY <2>1, <1>1
    <3>2. QED BY <3>1, <1>3
  <2>2. CASE q = m + 1
    <3>1. f[q] = <<q>> \o f[next[q]]
      <4>1. q \in 1..n /\ q \in DOMAIN item /\ item[q] = q BY <1>1
      <4>2. f[q] = <<item[q]>> \o f[next[q]] BY <4>1, CollectStep
      <4>3. QED BY <4>1, <4>2
    <3>2. next[q] \in 1..n /\ next[q] > m + 1 BY <1>1, <2>2
    <3>3. CASE next[q] \in D
      <4> DEFINE c == f[next[q]]  s == <<q>>  a == s \o c
      <4>1. IsChain(c, D, next, next[q]) BY <3>2, <3>3, <1>3
      <4> HIDE DEF f, c
      <4>2. c \in Seq(D) /\ Len(c) \in Nat /\ Len(c) >= 1 /\ c[1] = next[q]
        BY <4>1 DEF IsChain
      <4>3. s \in Seq(D) /\ Len(s) = 1 /\ s[1] = q OBVIOUS
      <4> HIDE DEF s
      <4>4. /\ a \in Seq(D) /\ Len(a) = Len(s) + Len(c)
            /\ \A i \in 1 .. Len(s) + Len(c) : a[i] = IF i <= Len(s) THEN s[i] ELSE c[i - Len(s)]
        BY <4>2, <4>3, ConcatProperties, Zenon
      <4> HIDE DEF a
      <4>5. Len(a) = 1 + Len(c) /\ a[1] = q BY <4>2, <4>3, <4>4
      <4>6. ASSUME NEW k \in 1..Len(c) PROVE a[k + 1] = c[k]
        <5>1. k + 1 \in 1 .. 1 + Len(c) /\ ~(k + 1 <= 1) /\ (k + 1) - 1 = k BY <4>2
        <5>2. QED BY <5>1, <4>3, <4>4
      <4>7. ASSUME NEW k \in 1 .. Len(a) - 1 PROVE a[k + 1] = next[a[k]]
        <5>1. CASE k = 1
          <6>1. a[2] = c[1] BY <4>2, <4>6
          <6>2. QED BY <6>1, <5>1, <4>2, <4>5
        <5>2. CASE k # 1
          <6>1. /\ k - 1 \in 1 .. Len(c) - 1 /\ k - 1 \in 1..Len(c) /\ (k - 1) + 1 = k
                /\ k \in 1..Len(c)
            BY <4>2, <4>5, <5>2
          <6>2. a[k] = c[k - 1] /\ a[k + 1] = c[k]
            <7>1. a[(k - 1) + 1] = c[k - 1] BY <6>1, <4>6
            <7>2. a[k + 1] = c[k] BY <6>1, <4>6
            <7>3. QED BY <7>1, <7>2, <6>1
          <6>3. c[k] = next[c[k - 1]] BY <6>1, <4>1 DEF IsChain
          <6>4. QED BY <6>2, <6>3
        <5>3. QED BY <5>1, <5>2
      <4>8. a[Len(a)] = c[Len(c)]
        <5>1. Len(c) \in 1..Len(c) /\ Len(a) = Len(c) + 1 BY <4>2, <4>5
        <5>2. QED BY <5>1, <4>6
      <4>9. IsChain(a, D, next, q) BY <4>1, <4>2, <4>4, <4>5, <4>7, <4>8 DEF IsChain
      <4>10. QED BY <3>1, <4>9 DEF a, s, c
    <3>4. CASE next[q] \notin D
      <4>1. f[next[q]] = <<>> BY <3>2, <3>4, CollectStep
      <4>2. <<q>> \in Seq(D) /\ Len(<<q>>) = 1 /\ <<q>>[1] = q OBVIOUS
      <4>3. <<q>> \o <<>> = <<q>> BY <4>2, ConcatEmptySeq
      <4> HIDE DEF f
      <4>4. f[q] = <<q>> BY <3>1, <4>1, <4>3
      <4>5. QED BY <4>2, <4>4, <3>4 DEF IsChain
    <3>5. QED BY <3>3, <3>4
  <2>3. QED BY <2>1, <2>2
<1> HIDE DEF T
<1>4. 0 \in T BY <1>2, <1>3, Downwards
<1>5. p > 0 BY <1>1
<1>6. QED BY <1>4, <1>5 DEF T

\* The letters of three bytes are below PAD, and give the bytes back.
LEMMA GroupIsReadBack ==
  ASSUME NEW a \in Byte, NEW b \in Byte, NEW c \in Byte
  PROVE  LET g == Group(a, b, c)
         IN /\ \A j \in 1..4 : g[j] \in 0..63
            /\ ((g[1] * 4) + (g[2] \div 16)) % 256 = a
            /\ ((g[2] * 16) + (g[3] \div 4)) % 256 = b
            /\ ((g[3] * 64) + g[4]) % 256 = c
<1> DEFINE a1 == a \div 4  a0 == a % 4  b1 == b \div 16  b0 == b % 16  c1 == c \div 64  c0 == c % 64
<1>1. a = (4 * a1) + a0 /\ a1 \in 0..63 /\ a0 \in 0..3 BY DEF Byte
<1>2. b = (16 * b1) + b0 /\ b1 \in 0..15 /\ b0 \in 0..15 BY DEF Byte
<1>3. c = (64 * c1) + c0 /\ c1 \in 0..3 /\ c0 \in 0..63 BY DEF Byte
<1> DEFINE g1 == a1  g2 == (a0 * 16) + b1  g3 == (b0 * 4) + c1  g4 == c0
<1> HIDE DEF a1, a0, b1, b0, c1, c0
<1>4. g1 \in 0..63 /\ g2 \in 0..63 /\ g3 \in 0..63 /\ g4 \in 0..63 BY <1>1, <1>2, <1>3
<1>5. ((g1 * 4) + (g2 \div 16)) % 256 = a
  <2>1. g2 \div 16 = a0 BY <1>1, <1>2
  <2>2. QED BY <2>1, <1>1 DEF Byte
<1>6. ((g2 * 16) + (g3 \div 4)) % 256 = b
  <2>1. g3 \div 4 = b0 BY <1>2, <1>3
  <2>2. (g2 * 16) + b0 = (256 * a0) + b BY <1>1, <1>2
  <2>3. QED BY <2>1, <2>2, <1>1 DEF Byte
<1>7. ((g3 * 64) + g4) % 256 = c
  <2>1. (g3 * 64) + g4 = (256 * b0) + c BY <1>2, <1>3
  <2>2. QED BY <2>1, <1>2 DEF Byte
<1>8. Group(a, b, c) = <<g1, g2, g3, g4>> BY DEF Group, a1, a0, b1, b0, c1, c0
<1> HIDE DEF g1, g2, g3, g4
<1>9. QED BY <1>4, <1>5, <1>6, <1>7, <1>8

\* Three bytes as letters, by their numbers in the text: what is behind its end is 0.
TextGroup(s, k) == Group(s[(3 * k) + 1], ByteAt(s, (3 * k) + 2), ByteAt(s, (3 * k) + 3))

\* The groups of a text of n bytes: of three bytes, what is left behind them, and of four
\* letters.
Whole(n) == n \div 3
Rest(n) == n % 3
Groups(n) == IF Rest(n) = 0 THEN Whole(n) ELSE Whole(n) + 1

\* Every byte is in a group.
LEMMA GroupNumbers ==
  ASSUME NEW n \in Nat
  PROVE  /\ Whole(n) \in Nat /\ Rest(n) \in 0..2 /\ n = (3 * Whole(n)) + Rest(n)
         /\ Groups(n) \in Nat /\ Groups(n) = IF Rest(n) = 0 THEN Whole(n) ELSE Whole(n) + 1
BY DEF Whole, Rest, Groups

\* The letters of a text: whole groups of four, the last one with PAD in the place of the
\* bytes that it does not have.
LEMMA EncodedLetters ==
  ASSUME NEW s \in Seq(Byte)
  PROVE  LET out == base64_encode(s)
         IN /\ Len(out) = 4 * Groups(Len(s))
            /\ \A k \in 0 .. Groups(Len(s)) - 1 : \A j \in 1..4 :
                 out[(4 * k) + j] = IF k = Whole(Len(s)) /\ j > Rest(Len(s)) + 1 THEN PAD
                                    ELSE TextGroup(s, k)[j]
<1> DEFINE whole == Whole(Len(s))  rest == Rest(Len(s))  groups == Groups(Len(s))
<1>1. /\ Len(s) \in Nat /\ whole \in Nat /\ rest \in 0..2 /\ Len(s) = (3 * whole) + rest
      /\ groups \in Nat /\ groups = IF rest = 0 THEN whole ELSE whole + 1
  <2>1. Len(s) \in Nat OBVIOUS
  <2>2. QED BY <2>1, GroupNumbers
<1> DEFINE size == (4 * whole) + Letters(rest)
           letter(j) == LET i == (3 * ((j - 1) \div 4)) + 1
                        IN Group(s[i], ByteAt(s, i + 1), ByteAt(s, i + 2))[((j - 1) % 4) + 1]
           out == [j \in 1 .. 4 * ((size + 3) \div 4) |-> IF j <= size THEN letter(j) ELSE PAD]
<1>2. base64_encode(s) = out BY DEF base64_encode, Whole, Rest
<1> HIDE DEF whole, rest, groups
<1>3. Letters(rest) = IF rest = 0 THEN 0 ELSE rest + 1 BY <1>1 DEF Letters
<1>4. groups \in Nat /\ (size + 3) \div 4 = groups BY <1>1, <1>3
<1>5. Len(out) = 4 * groups BY <1>4
<1>6. ASSUME NEW k \in 0 .. groups - 1, NEW j \in 1..4
      PROVE  out[(4 * k) + j] = IF k = whole /\ j > rest + 1 THEN PAD ELSE TextGroup(s, k)[j]
  <2> DEFINE p == (4 * k) + j
  <2>1. p \in 1 .. 4 * groups BY <1>4
  <2>2. (p - 1) \div 4 = k /\ ((p - 1) % 4) + 1 = j BY <1>4
  <2>3. letter(p) = TextGroup(s, k)[j]
    <3> DEFINE i == (3 * ((p - 1) \div 4)) + 1
    <3>1. i = (3 * k) + 1 /\ i + 1 = (3 * k) + 2 /\ i + 2 = (3 * k) + 3 BY <2>2, <1>4
    <3>2. letter(p) = Group(s[i], ByteAt(s, i + 1), ByteAt(s, i + 2))[((p - 1) % 4) + 1] OBVIOUS
    <3> HIDE DEF i, p, letter
    <3>3. QED BY <3>1, <3>2, <2>2 DEF TextGroup
  <2>4. p <= size <=> ~(k = whole /\ j > rest + 1) BY <1>1, <1>3, <1>4
  <2> HIDE DEF p, letter, size
  <2>5. out[p] = IF p <= size THEN letter(p) ELSE PAD BY <2>1, <1>4
  <2>6. QED BY <2>3, <2>4, <2>5 DEF p
<1>7. QED BY <1>2, <1>4, <1>5, <1>6 DEF whole, rest, groups

\* A letter is not PAD.
LEMMA LetterIsNoPad == \A x \in 0..63 : x # PAD
BY DEF PAD

\* A whole group gives three bytes back, the last one those that there are.
LEMMA BytesOfGroup ==
  ASSUME NEW s \in Seq(Byte), NEW k \in Nat, 3 * k < Len(s),
         NEW left, left = Len(s) - 3 * k, NEW g, g = TextGroup(s, k)
  PROVE  /\ \A j \in 1..4 : g[j] \in 0..63
         /\ left >= 3 => Bytes(g[1], g[2], g[3], g[4]) = <<s[(3 * k) + 1], s[(3 * k) + 2], s[(3 * k) + 3]>>
         /\ left = 2 => Bytes(g[1], g[2], g[3], PAD) = <<s[(3 * k) + 1], s[(3 * k) + 2]>>
         /\ left = 1 => Bytes(g[1], g[2], PAD, PAD) = <<s[(3 * k) + 1]>>
<1> DEFINE a == s[(3 * k) + 1]  b == ByteAt(s, (3 * k) + 2)  c == ByteAt(s, (3 * k) + 3)
<1>1. Len(s) \in Nat /\ \A i \in 1..Len(s) : s[i] \in Byte OBVIOUS
<1>2. a \in Byte /\ b \in Byte /\ c \in Byte
  <2>1. ASSUME NEW i \in Nat, i > 0 PROVE ByteAt(s, i) \in Byte BY <1>1, <2>1 DEF ByteAt, Byte
  <2>2. a \in Byte BY <1>1
  <2>3. QED BY <2>1, <2>2
<1>3. left \in Nat /\ (left >= 2 => b = s[(3 * k) + 2]) /\ (left >= 3 => c = s[(3 * k) + 3])
  BY <1>1 DEF ByteAt
<1>4. g = Group(a, b, c) BY DEF TextGroup
<1> HIDE DEF a, b, c
<1> DEFINE b1 == ((g[1] * 4) + (g[2] \div 16)) % 256
           b2 == ((g[2] * 16) + (g[3] \div 4)) % 256
           b3 == ((g[3] * 64) + g[4]) % 256
<1>5. (\A j \in 1..4 : g[j] \in 0..63) /\ b1 = a /\ b2 = b /\ b3 = c
  <2>1. LET h == Group(a, b, c)
        IN /\ \A j \in 1..4 : h[j] \in 0..63
           /\ ((h[1] * 4) + (h[2] \div 16)) % 256 = a
           /\ ((h[2] * 16) + (h[3] \div 4)) % 256 = b
           /\ ((h[3] * 64) + h[4]) % 256 = c
    BY <1>2, GroupIsReadBack
  <2>2. QED BY <2>1, <1>4
<1> HIDE DEF b1, b2, b3
<1>6. g[3] # PAD /\ g[4] # PAD
  <2>1. g[3] \in 0..63 /\ g[4] \in 0..63 BY <1>5
  <2>2. QED BY <2>1, LetterIsNoPad
<1>7. Bytes(g[1], g[2], g[3], g[4]) = <<b1, b2, b3>> BY <1>6 DEF Bytes, b1, b2, b3
<1>8. Bytes(g[1], g[2], g[3], PAD) = <<b1, b2>> BY <1>6 DEF Bytes, b1, b2
<1>9. Bytes(g[1], g[2], PAD, PAD) = <<b1>> BY DEF Bytes, b1
<1>10. QED BY <1>3, <1>5, <1>7, <1>8, <1>9 DEF a

\* Putting back what a rest of a text lacks of a longer one.
LEMMA Restored ==
  ASSUME NEW S, NEW s \in Seq(S), NEW p \in Seq(S), NEW i \in Nat, i + Len(p) <= Len(s),
         \A j \in 1..Len(p) : p[j] = s[i + j]
  PROVE  p \o SubSeq(s, i + Len(p) + 1, Len(s)) = SubSeq(s, i + 1, Len(s))
<1> DEFINE m == Len(p)  n == Len(s)  q == SubSeq(s, i + m + 1, n)  u == SubSeq(s, i + 1, n)
<1>1. m \in Nat /\ n \in Nat OBVIOUS
<1>2. q \in Seq(S) /\ Len(q) = n - (i + m) /\ \A j \in 1 .. n - (i + m) : q[j] = s[i + m + j]
  BY <1>1
<1>3. u \in Seq(S) /\ Len(u) = n - i /\ \A j \in 1 .. n - i : u[j] = s[i + j] BY <1>1
<1> HIDE DEF q, u, n
<1>4. p \o q \in Seq(S) /\ Len(p \o q) = n - i BY <1>1, <1>2
<1>5. ASSUME NEW j \in 1 .. n - i PROVE (p \o q)[j] = u[j]
  <2>1. CASE j <= m
    <3>1. (p \o q)[j] = p[j] BY <1>1, <1>2, <2>1
    <3>2. QED BY <3>1, <2>1, <1>3, <1>1
  <2>2. CASE j > m
    <3>1. (p \o q)[j] = q[j - m] BY <1>1, <1>2, <2>2
    <3>2. j - m \in 1 .. n - (i + m) /\ i + m + (j - m) = i + j BY <1>1, <2>2
    <3>3. QED BY <3>1, <3>2, <1>2, <1>3
  <2>3. j <= m \/ j > m BY <1>1
  <2>4. QED BY <2>1, <2>2, <2>3
<1>6. QED BY <1>3, <1>4, <1>5 DEF q, u, n

\* base64_encode writes whole groups, and nothing of the text is behind the last one.
LEMMA EncodedGroups ==
  ASSUME NEW s \in Seq(Byte)
  PROVE  LET out == base64_encode(s)  groups == Groups(Len(s))
         IN /\ Len(s) \in Nat /\ groups \in Nat /\ Len(out) \div 4 = groups /\ Len(out) % 4 = 0
            /\ SubSeq(s, (3 * groups) + 1, Len(s)) = <<>> /\ SubSeq(s, (3 * 0) + 1, Len(s)) = s
<1> DEFINE out == base64_encode(s)  groups == Groups(Len(s))
<1>1. Len(s) \in Nat OBVIOUS
<1>2. groups \in Nat /\ 3 * groups >= Len(s)
  <2> DEFINE whole == Whole(Len(s))  rest == Rest(Len(s))
  <2>1. /\ whole \in Nat /\ rest \in 0..2 /\ Len(s) = (3 * whole) + rest
        /\ groups \in Nat /\ groups = IF rest = 0 THEN whole ELSE whole + 1
    BY <1>1, GroupNumbers
  <2> HIDE DEF whole, rest, groups
  <2>2. QED BY <2>1
<1>3. Len(out) = 4 * groups BY EncodedLetters
<1> HIDE DEF groups, out
<1>4. (4 * groups) \div 4 = groups /\ (4 * groups) % 4 = 0 BY <1>2
<1>5. SubSeq(s, (3 * groups) + 1, Len(s)) = <<>> BY <1>1, <1>2
<1>6. SubSeq(s, (3 * 0) + 1, Len(s)) = s BY <1>1
<1>7. QED BY <1>1, <1>2, <1>3, <1>4, <1>5, <1>6 DEF groups, out

\* A group of letters is decoded to the bytes it was made of.
LEMMA GroupDecoded ==
  ASSUME NEW s \in Seq(Byte), NEW k \in 0 .. Groups(Len(s)) - 1
  PROVE  LET out == base64_encode(s)
         IN DecodeGroup(out, k, [dst |-> SubSeq(s, (3 * (k + 1)) + 1, Len(s)), ok |-> TRUE])
              = [dst |-> SubSeq(s, (3 * k) + 1, Len(s)), ok |-> TRUE]
<1> DEFINE out == base64_encode(s)
           whole == Whole(Len(s))
           rest == Rest(Len(s))
           groups == Groups(Len(s))
           left(j) == SubSeq(s, (3 * j) + 1, Len(s))
           i == (4 * k) + 1
           bytes == Bytes(out[i], out[i + 1], out[i + 2], out[i + 3])
           g == TextGroup(s, k)
<1>1. /\ Len(s) \in Nat /\ whole \in Nat /\ rest \in 0..2 /\ Len(s) = (3 * whole) + rest
      /\ groups \in Nat /\ groups = IF rest = 0 THEN whole ELSE whole + 1
  <2>1. Len(s) \in Nat OBVIOUS
  <2>2. QED BY <2>1, GroupNumbers
<1>2. Len(out) \div 4 = groups BY EncodedGroups
<1>3. \A j \in 1..4 : out[(4 * k) + j] = IF k = whole /\ j > rest + 1 THEN PAD ELSE g[j]
  BY EncodedLetters
<1>4. k \in Nat /\ k < groups
  <2>1. k \in 0 .. groups - 1 OBVIOUS
  <2> HIDE DEF groups
  <2>2. QED BY <2>1, <1>1
<1> HIDE DEF out, g, groups, whole, rest
<1>5. 3 * k < Len(s) /\ k <= whole /\ (k = whole => rest > 0) BY <1>1, <1>4
<1>6. /\ \A j \in 1..4 : g[j] \in 0..63
      /\ Len(s) - 3 * k >= 3 =>
           Bytes(g[1], g[2], g[3], g[4]) = <<s[(3 * k) + 1], s[(3 * k) + 2], s[(3 * k) + 3]>>
      /\ Len(s) - 3 * k = 2 => Bytes(g[1], g[2], g[3], PAD) = <<s[(3 * k) + 1], s[(3 * k) + 2]>>
      /\ Len(s) - 3 * k = 1 => Bytes(g[1], g[2], PAD, PAD) = <<s[(3 * k) + 1]>>
  BY <1>4, <1>5, BytesOfGroup DEF g
<1>7. /\ out[i] = g[1] /\ out[i + 1] = g[2]
      /\ out[i + 2] = IF k = whole /\ 3 > rest + 1 THEN PAD ELSE g[3]
      /\ out[i + 3] = IF k = whole /\ 4 > rest + 1 THEN PAD ELSE g[4]
  <2>1. i = (4 * k) + 1 /\ i + 1 = (4 * k) + 2 /\ i + 2 = (4 * k) + 3 /\ i + 3 = (4 * k) + 4
    BY <1>4
  <2> HIDE DEF i
  <2>2. QED BY <2>1, <1>1, <1>3, <1>5
<1>8. out[i] # PAD /\ out[i + 1] # PAD
  <2>1. g[1] \in 0..63 /\ g[2] \in 0..63 BY <1>6
  <2>2. QED BY <2>1, <1>7, LetterIsNoPad
<1> HIDE DEF i
<1>9. bytes \o left(k + 1) = left(k)
  <2>1. ASSUME NEW m \in 1..3, (3 * k) + m <= Len(s), m = 3 \/ (3 * k) + m = Len(s),
               bytes \in Seq(Byte), Len(bytes) = m, \A j \in 1..m : bytes[j] = s[(3 * k) + j]
        PROVE  bytes \o left(k + 1) = left(k)
    <3> HIDE DEF bytes
    <3>1. bytes \o SubSeq(s, (3 * k) + m + 1, Len(s)) = left(k)
      <4>1. 3 * k \in Nat /\ (3 * k) + Len(bytes) <= Len(s) BY <2>1, <1>4
      <4>2. \A j \in 1..Len(bytes) : bytes[j] = s[(3 * k) + j] BY <2>1
      <4>3. bytes \o SubSeq(s, (3 * k) + Len(bytes) + 1, Len(s)) = SubSeq(s, (3 * k) + 1, Len(s))
        BY <4>1, <4>2, <2>1, Restored
      <4>4. QED BY <4>3, <2>1
    <3>2. SubSeq(s, (3 * k) + m + 1, Len(s)) = left(k + 1)
      <4>1. CASE m = 3
        <5>1. (3 * k) + m + 1 = (3 * (k + 1)) + 1 BY <4>1, <1>4
        <5>2. QED BY <5>1
      <4>2. CASE (3 * k) + m = Len(s)
        <5>1. left(k + 1) = <<>> BY <4>2, <1>1, <1>4
        <5>2. SubSeq(s, (3 * k) + m + 1, Len(s)) = <<>> BY <4>2, <1>1, <1>4
        <5>3. QED BY <5>1, <5>2
      <4>3. QED BY <4>1, <4>2, <2>1
    <3>3. QED BY <3>1, <3>2
  <2>2. \A j \in 1 .. Len(s) : s[j] \in Byte OBVIOUS
  <2>3. CASE k < whole
    <3>1. Len(s) - 3 * k >= 3 BY <1>1, <1>4, <2>3
    <3>2. bytes = <<s[(3 * k) + 1], s[(3 * k) + 2], s[(3 * k) + 3]>> BY <1>6, <1>7, <2>3, <3>1
    <3> HIDE DEF bytes, left
    <3>3. s[(3 * k) + 1] \in Byte /\ s[(3 * k) + 2] \in Byte /\ s[(3 * k) + 3] \in Byte
      BY <1>1, <1>4, <2>2, <3>1
    <3>4. bytes \in Seq(Byte) /\ Len(bytes) = 3 BY <3>2, <3>3
    <3>5. \A j \in 1..3 : bytes[j] = s[(3 * k) + j]
      <4>1. \A j \in 1..3 : j = 1 \/ j = 2 \/ j = 3 OBVIOUS
      <4>2. bytes[1] = s[(3 * k) + 1] /\ bytes[2] = s[(3 * k) + 2] /\ bytes[3] = s[(3 * k) + 3]
        BY <3>2
      <4>3. QED BY <4>1, <4>2
    <3>6. (3 * k) + 3 <= Len(s) BY <1>1, <1>4, <3>1
    <3>7. QED BY <2>1, <3>4, <3>5, <3>6
  <2>4. CASE k = whole /\ rest = 2
    <3>1. Len(s) - 3 * k = 2 BY <1>1, <1>4, <2>4
    <3>2. bytes = <<s[(3 * k) + 1], s[(3 * k) + 2]>> BY <1>6, <1>7, <2>4, <3>1
    <3> HIDE DEF bytes, left
    <3>3. s[(3 * k) + 1] \in Byte /\ s[(3 * k) + 2] \in Byte
      BY <1>1, <1>4, <2>2, <3>1
    <3>4. bytes \in Seq(Byte) /\ Len(bytes) = 2 BY <3>2, <3>3
    <3>5. \A j \in 1..2 : bytes[j] = s[(3 * k) + j] BY <3>2
    <3>6. (3 * k) + 2 = Len(s) BY <1>1, <1>4, <3>1
    <3>7. QED BY <2>1, <3>4, <3>5, <3>6
  <2>5. CASE k = whole /\ rest = 1
    <3>1. Len(s) - 3 * k = 1 BY <1>1, <1>4, <2>5
    <3>2. bytes = <<s[(3 * k) + 1]>> BY <1>6, <1>7, <2>5, <3>1
    <3> HIDE DEF bytes, left
    <3>3. s[(3 * k) + 1] \in Byte BY <1>1, <1>4, <2>2, <3>1
    <3>4. bytes \in Seq(Byte) /\ Len(bytes) = 1 BY <3>2, <3>3
    <3>5. \A j \in 1..1 : bytes[j] = s[(3 * k) + j] BY <3>2
    <3>6. (3 * k) + 1 = Len(s) BY <1>1, <1>4, <3>1
    <3>7. QED BY <2>1, <3>4, <3>5, <3>6
  <2>6. QED BY <1>1, <1>5, <2>3, <2>4, <2>5
<1>10. DecodeGroup(out, k, [dst |-> left(k + 1), ok |-> TRUE])
         = [dst |-> bytes \o left(k + 1), ok |-> TRUE]
  <2> DEFINE r == [dst |-> left(k + 1), ok |-> TRUE]
  <2>1. DecodeGroup(out, k, r) = [r EXCEPT !.dst = bytes \o @]
    <3>1. k # Len(out) \div 4 /\ ~(PAD \in {out[i], out[i + 1]}) BY <1>2, <1>4, <1>8, <1>1
    <3> HIDE DEF r
    <3>2. QED BY <3>1 DEF DecodeGroup, i
  <2> HIDE DEF bytes, left
  <2>2. QED BY <2>1
<1>11. QED BY <1>9, <1>10 DEF out

\* base64_decode gives back what base64_encode was given.
LEMMA Base64IsReadBack ==
  ASSUME NEW s \in Seq(Byte)
  PROVE  LET out == base64_encode(s)
         IN Len(out) % 4 = 0 /\ base64_decode(out) = [dst |-> s, ok |-> TRUE]
<1> DEFINE out == base64_encode(s)
           groups == Groups(Len(s))
           left(k) == SubSeq(s, (3 * k) + 1, Len(s))
           read(k) == [dst |-> left(k), ok |-> TRUE]
           N == Len(out) \div 4
           Solves(f) == f = [k \in 0..N |-> DecodeGroup(out, k, f[k + 1])]
<1>1. /\ Len(s) \in Nat /\ groups \in Nat /\ N = groups /\ Len(out) % 4 = 0
      /\ left(groups) = <<>> /\ left(0) = s
  BY EncodedGroups
<1>2. ASSUME NEW k \in 0 .. N - 1 PROVE DecodeGroup(out, k, read(k + 1)) = read(k)
  BY <1>1, GroupDecoded
<1>3. DecodedFrom(out) = CHOOSE f : Solves(f) BY DEF DecodedFrom
<1> HIDE DEF out, groups, left
<1>4. ASSUME NEW rest PROVE DecodeGroup(out, N, rest) = read(N)
  <2>1. DecodeGroup(out, N, rest) = [dst |-> <<>>, ok |-> Len(out) % 4 = 0] BY DEF DecodeGroup
  <2>2. QED BY <2>1, <1>1
<1> HIDE DEF read, N
<1>5. \E f : Solves(f)
  <2> DEFINE f == [k \in 0..N |-> read(k)]
  <2>1. ASSUME NEW k \in 0..N PROVE read(k) = DecodeGroup(out, k, f[k + 1])
    <3>1. CASE k = N BY <3>1, <1>4
    <3>2. CASE k # N
      <4>1. k \in 0 .. N - 1 /\ k + 1 \in 0..N BY <3>2, <1>1
      <4>2. QED BY <4>1, <1>2
    <3>3. QED BY <3>1, <3>2
  <2>2. f = [k \in 0..N |-> DecodeGroup(out, k, f[k + 1])] BY <2>1
  <2>3. QED BY <2>2
<1>6. PICK f : f = DecodedFrom(out) /\ Solves(f) BY <1>3, <1>5
<1>7. \A k \in 0..N : f[k] = read(k)
  <2> DEFINE T == {k \in 0..N : f[k] = read(k)}
  <2>1. \A k \in 0..N : f[k] = DecodeGroup(out, k, f[k + 1]) BY <1>6
  <2>2. N \in T BY <2>1, <1>4, <1>1
  <2>3. ASSUME NEW k \in 0 .. N - 1, k + 1 \in T PROVE k \in T
    <3>1. k \in 0..N /\ f[k + 1] = read(k + 1) BY <2>3, <1>1
    <3>2. QED BY <3>1, <2>1, <1>2
  <2> HIDE DEF T
  <2>4. 0..N \subseteq T BY <2>2, <2>3, <1>1, Downwards
  <2>5. QED BY <2>4 DEF T
<1>8. base64_decode(out) = read(0) BY <1>6, <1>7, <1>1 DEF base64_decode
<1>9. QED BY <1>1, <1>8 DEF out, read

\* An int, and an int behind those of a text.
LEMMA IntIsBound == ASSUME NEW n \in Int, n <= MaxInt PROVE n <= 2147483647
BY SMT DEF MaxInt

LEMMA IntBefore ==
  ASSUME NEW n \in Int, NEW s \in Seq(Int)
  PROVE  /\ Len(<<n>> \o s) = 1 + Len(s) /\ (<<n>> \o s)[1] = n
         /\ \A i \in 1..Len(s) : (<<n>> \o s)[i + 1] = s[i]
<1>1. <<n>> \in Seq(Int) /\ Len(<<n>>) = 1 /\ <<n>>[1] = n OBVIOUS
<1> DEFINE p == <<n>>
<1> HIDE DEF p
<1>2. p \in Seq(Int) /\ Len(p) = 1 /\ p[1] = n BY <1>1 DEF p
<1>3. Len(s) \in Nat OBVIOUS
<1>4. /\ Len(p \o s) = 1 + Len(s)
      /\ \A i \in 1 .. 1 + Len(s) : (p \o s)[i] = IF i <= 1 THEN p[i] ELSE s[i - 1]
  <2>1. /\ Len(p \o s) = Len(p) + Len(s)
        /\ \A i \in 1 .. Len(p) + Len(s) : (p \o s)[i] = IF i <= Len(p) THEN p[i] ELSE s[i - Len(p)]
    BY <1>2, ConcatProperties, Zenon
  <2>2. QED BY <2>1, <1>2
<1>5. (p \o s)[1] = n BY <1>2, <1>3, <1>4
<1>6. ASSUME NEW i \in 1..Len(s) PROVE (p \o s)[i + 1] = s[i]
  <2>1. i + 1 \in 1 .. 1 + Len(s) /\ ~(i + 1 <= 1) /\ (i + 1) - 1 = i BY <1>3
  <2>2. QED BY <2>1, <1>4
<1>7. QED BY <1>4, <1>5, <1>6 DEF p

\* The eight bytes of an int in the order of the host are not its bytes in the order of
\* the network, but for 0.
LEMMA ReversedBytes ==
  ASSUME NEW n \in 1..MaxInt
  PROVE  Reverse(BigEndian(n, 8)) # BigEndian(n, 8)
<1> DEFINE b1 == n % 256  b2 == (n \div 256) % 256  b3 == (n \div 65536) % 256
           b4 == (n \div 16777216) % 256  big == BigEndian(n, 8)  rev == Reverse(big)
<1>1. b1 # 0 \/ b2 # 0 \/ b3 # 0 \/ b4 # 0
  <2> DEFINE q == n \div 256  r == n \div 65536  v == n \div 16777216
  <2>1. n = (256 * q) + b1 /\ q \in Nat OBVIOUS
  <2>2. q = (256 * r) + b2 /\ r \in Nat
    <3>1. r = q \div 256 OBVIOUS
    <3> HIDE DEF r, q
    <3>2. QED BY <3>1, <2>1 DEF q
  <2>3. r = (256 * v) + b3 /\ v \in Nat
    <3>1. v = r \div 256 OBVIOUS
    <3> HIDE DEF v, r
    <3>2. QED BY <3>1, <2>2 DEF r
  <2>4. v = b4
    <3>1. 16777216 * v <= n /\ n <= MaxInt OBVIOUS
    <3> HIDE DEF v
    <3>2. v <= 127
      <4>1. n <= 2147483647 BY <3>1, IntIsBound
      <4>2. QED BY SMT, <4>1, <3>1, <2>3
    <3>3. QED BY <3>2, <2>3 DEF v
  <2> HIDE DEF q, r, v, b1, b2, b3, b4
  <2>5. QED BY <2>1, <2>2, <2>3, <2>4
<1>2. /\ Len(big) = 8 /\ big[1] = 0 /\ big[2] = 0 /\ big[3] = 0 /\ big[4] = 0
      /\ big[5] = b4 /\ big[6] = b3 /\ big[7] = b2 /\ big[8] = b1
  BY DEF BigEndian
<1> HIDE DEF b1, b2, b3, b4, big
<1>3. rev[1] = big[8] /\ rev[2] = big[7] /\ rev[3] = big[6] /\ rev[4] = big[5]
  BY <1>2 DEF Reverse
<1> HIDE DEF rev
<1>4. QED BY <1>1, <1>2, <1>3 DEF rev, big

\* The length ws_writetext writes is read back as it was, but not from 127 on.
LEMMA LengthIsReadBack ==
  ASSUME NEW n \in 0..MaxInt
  PROVE  LET r == ws_read(ws_length(n))
         IN /\ r.size = Len(ws_length(n))
            /\ n <= 126 <=> r.length = BigEndian(n, Len(r.length))
<1> DEFINE r == ws_read(ws_length(n))
           Reads == /\ r.size = Len(ws_length(n))
                    /\ n <= 126 <=> r.length = BigEndian(n, Len(r.length))
<1> SUFFICES Reads OBVIOUS
<1>1. CASE n < 126
  <2>1. ws_length(n) = <<n>> BY <1>1 DEF ws_length
  <2>2. r = [size |-> 1, length |-> <<n>>] BY <1>1, <2>1 DEF ws_read
  <2>3. BigEndian(n, 1) = <<n>>
    <3>1. n % 256 = n BY <1>1
    <3>2. QED BY <3>1 DEF BigEndian
  <2>4. Len(ws_length(n)) = 1 /\ r.size = 1 /\ r.length = <<n>> /\ Len(<<n>>) = 1
    BY <2>1, <2>2
  <2>5. QED BY <1>1, <2>3, <2>4
<1>2. CASE n = 126
  <2> DEFINE big == BigEndian(n, 2)
  <2>1. big = <<0, 126>> BY <1>2 DEF BigEndian
  <2>2. ws_length(n) = <<126>> \o big BY <1>2 DEF ws_length
  <2> HIDE DEF big
  <2>3. big \in Seq(Int) /\ Len(big) = 2 BY <2>1
  <2>4. Len(ws_length(n)) = 3 /\ ws_length(n)[1] = 126
    <3>1. Len(<<126>> \o big) = 1 + Len(big) /\ (<<126>> \o big)[1] = 126
      <4>1. 126 \in Int /\ big \in Seq(Int) BY <2>3
      <4>2. QED BY <4>1, IntBefore
    <3>2. QED BY <2>2, <2>3, <3>1
  <2>5. SubSeq(ws_length(n), 2, 3) = big
    <3>1. \A i \in 1..2 : ws_length(n)[i + 1] = big[i] BY <2>2, <2>3, IntBefore
    <3>2. QED BY <3>1, <2>3, <2>4
  <2>6. r = [size |-> 3, length |-> big] BY <2>4, <2>5 DEF ws_read
  <2>7. r.size = 3 /\ r.length = big BY <2>6
  <2> HIDE DEF r
  <2>8. BigEndian(n, Len(r.length)) = big BY <2>3, <2>7 DEF big
  <2>9. QED BY <1>2, <2>4, <2>7, <2>8
<1>3. CASE n > 126
  <2> DEFINE rev == Reverse(BigEndian(n, 8))
  <2>1. rev \in Seq(0..255) /\ Len(rev) = 8 BY DEF Reverse, BigEndian
  <2>2. rev # BigEndian(n, 8) BY <1>3, ReversedBytes
  <2>3. ws_length(n) = <<127>> \o rev BY <1>3 DEF ws_length
  <2> HIDE DEF rev
  <2>4. Len(ws_length(n)) = 9 /\ ws_length(n)[1] = 127
    <3>1. 0..255 \subseteq Int OBVIOUS
    <3>2. rev \in Seq(Int) BY <2>1, <3>1, SeqMonotonic, Zenon
    <3>3. Len(<<127>> \o rev) = 1 + Len(rev) /\ (<<127>> \o rev)[1] = 127 BY <3>2, IntBefore
    <3>4. QED BY <2>1, <2>3, <3>3
  <2>5. SubSeq(ws_length(n), 2, 9) = rev BY <2>1, <2>3
  <2>6. r = [size |-> 9, length |-> rev] BY <2>4, <2>5 DEF ws_read
  <2>7. r.size = 9 /\ r.length = rev BY <2>6
  <2> HIDE DEF r
  <2>8. BigEndian(n, Len(r.length)) = BigEndian(n, 8) BY <2>1, <2>7
  <2>9. r.length # BigEndian(n, 8) BY <2>2, <2>7
  <2>10. QED BY <1>3, <2>1, <2>4, <2>7, <2>8, <2>9
<1>4. n < 126 \/ n = 126 \/ n > 126 OBVIOUS
<1>5. QED BY <1>1, <1>2, <1>3, <1>4

----------------------------------------------------------------------------
(* The fields of an AMI message and of an HTTP header.                         *)

\* What LineEnd finds.
LEMMA LineEndIs ==
  ASSUME NEW S, NEW t \in Seq(S), NEW p \in Nat, NEW e, e = LineEnd(t, p)
  PROVE  /\ e \in Nat /\ (e = Len(t) + 1 \/ (p <= e /\ e < Len(t) /\ t[e] = CR /\ t[e + 1] = LF))
         /\ \A i \in p .. Len(t) - 1 : i < e => ~(t[i] = CR /\ t[i + 1] = LF)
<1> DEFINE T == {i \in p .. Len(t) - 1 : t[i] = CR /\ t[i + 1] = LF} \cup {Len(t) + 1}
<1>1. Len(t) \in Nat OBVIOUS
<1>2. T \subseteq Nat /\ T # {} BY <1>1
<1>3. PICK n \in T : \A y \in T : n <= y BY <1>2, LeastOf
<1>4. Min(T) \in T /\ \A y \in T : Min(T) <= y BY <1>3 DEF Min
<1>5. e = Min(T) BY DEF LineEnd
<1>6. e \in T /\ \A y \in T : e <= y BY <1>4, <1>5
<1>7. e \in Nat /\ (e = Len(t) + 1 \/ (p <= e /\ e < Len(t) /\ t[e] = CR /\ t[e + 1] = LF))
  BY <1>1, <1>6
<1>8. ASSUME NEW i \in p .. Len(t) - 1, i < e PROVE ~(t[i] = CR /\ t[i + 1] = LF)
  BY <1>1, <1>6, <1>7, <1>8
<1>9. QED BY <1>7, <1>8

\* The places where the lines begin.
LEMMA Lines ==
  ASSUME NEW S, NEW t \in Seq(S), t # <<>>
  PROVE  LET c == LineStarts(t)
         IN /\ c \in Seq(1..Len(t)) /\ Len(c) >= 1 /\ c[1] = 1
            /\ \A k \in 1 .. Len(c) - 1 : c[k + 1] = LineEnd(t, c[k]) + 2
<1> DEFINE D == 1..Len(t)  next == [p \in D |-> LineEnd(t, p) + 2]  n == Len(t) + 3
           c == LineStarts(t)
<1>1. n \in Nat /\ 1 \in D BY EmptySeq
<1>2. Forward([p \in D |-> p], next, n)
  <2>1. ASSUME NEW p \in D PROVE p \in 1..n /\ next[p] \in p + 1 .. n
    <3>1. LineEnd(t, p) \in Nat /\ LineEnd(t, p) <= Len(t) + 1 /\ p <= LineEnd(t, p)
      <4> DEFINE e == LineEnd(t, p)
      <4>1. e \in Nat /\ (e = Len(t) + 1 \/ (p <= e /\ e < Len(t)))
        <5>1. p \in Nat OBVIOUS
        <5>2. QED BY <5>1, LineEndIs
      <4>2. Len(t) \in Nat /\ p \in 1..Len(t) OBVIOUS
      <4> HIDE DEF e
      <4>3. QED BY <4>1, <4>2 DEF e
    <3>2. QED BY <3>1, <1>1
  <2>2. QED BY <2>1 DEF Forward
<1>3. c = Collect([p \in D |-> p], next, n)[1] BY DEF LineStarts
<1> HIDE DEF n, next, D, c
<1>4. IsChain(c, D, next, 1) BY <1>1, <1>2, <1>3, CollectChain
<1>5. ASSUME NEW k \in 1 .. Len(c) - 1 PROVE c[k + 1] = LineEnd(t, c[k]) + 2
  <2>1. c[k + 1] = next[c[k]] BY <1>4 DEF IsChain
  <2>2. c[k] \in D BY <1>4, ElementOfSeq DEF IsChain
  <2>3. QED BY <2>1, <2>2 DEF next
<1>6. QED BY <1>4, <1>5 DEF IsChain, c, D

\* The places of the field k of a text: it begins, its colon, where the value begins and
\* where the line ends.
First(t, k) == LineStarts(t)[k]
ColonAt(t, k) == Find(t, Colon, First(t, k))
ValueAt(t, k) == ColonAt(t, k) + IF t[ColonAt(t, k) + 1] = Space THEN 2 ELSE 1
LastAt(t, k) == LineEnd(t, First(t, k))

\* How the places of a field are ordered, and what is there.
FieldIsPlaced(t, k) ==
  LET first == First(t, k)  colon == ColonAt(t, k)  value == ValueAt(t, k)  last == LastAt(t, k)
  IN /\ first \in Nat /\ colon \in Nat /\ value \in Nat /\ last \in Nat
     /\ 1 <= first /\ first < colon /\ colon < value /\ value <= last /\ last < Len(t)
     /\ First(t, k + 1) = last + 2
     /\ t[colon] = Colon /\ t[last] = CR /\ t[last + 1] = LF /\ t[value] # Space
     /\ \A i \in colon + 1 .. value - 1 : t[i] = Space
     /\ \A i \in first .. colon - 1 : t[i] # Colon
     /\ \A i \in first .. last - 1 : ~(t[i] = CR /\ t[i + 1] = LF)

\* The places of all fields of a text, and of the blank line behind them.
LEMMA FieldPlaces ==
  ASSUME NEW S, NEW t \in Seq(S), NEW gaps \in SUBSET {0, 1}, IsFields(t, gaps)
  PROVE  LET n == Len(LineStarts(t)) - 1
         IN /\ n \in Nat /\ n >= 1 /\ Len(t) \in Nat
            /\ First(t, 1) = 1 /\ First(t, n + 1) = Len(t) - 1 /\ First(t, n + 1) \in Nat
            /\ t[Len(t) - 1] = CR /\ t[Len(t)] = LF
            /\ \A k \in 1..n : FieldIsPlaced(t, k)
            /\ gaps = {1} => \A k \in 1..n : ValueAt(t, k) = ColonAt(t, k) + 2
<1> DEFINE c == LineStarts(t)  n == Len(c) - 1
<1>1. /\ Len(c) > 1 /\ c[Len(c)] = Len(t) - 1 /\ t[Len(t) - 1] = CR /\ t[Len(t)] = LF
      /\ \A k \in 1..n :
           LET col == Find(t, Colon, c[k])  end == LineEnd(t, c[k])
           IN col > c[k] /\ \E g \in gaps :
                col + g < end /\ (g = 1 => t[col + 1] = Space) /\ t[col + g + 1] # Space
  BY DEF IsFields
<1>2. Len(t) \in Nat OBVIOUS
<1>3. t # <<>>
  <2> SUFFICES ASSUME t = <<>> PROVE FALSE OBVIOUS
  <2>1. Len(t) = 0 OBVIOUS
  <2>2. c = <<>>
    <3> DEFINE item == [p \in 1..Len(t) |-> p]  next == [p \in 1..Len(t) |-> LineEnd(t, p) + 2]
               m == Len(t) + 3  f == Collect(item, next, m)
    <3>1. c = f[1] BY DEF LineStarts
    <3>2. Forward(item, next, m) /\ 1 \notin DOMAIN item BY <2>1 DEF Forward
    <3>3. m \in Nat /\ 1 \in 1..m BY <2>1
    <3> HIDE DEF item, next, m, c
    <3>4. f[1] = IF 1 \in DOMAIN item THEN <<item[1]>> \o f[next[1]] ELSE <<>>
      BY <3>2, <3>3, CollectStep
    <3> HIDE DEF f
    <3>5. QED BY <3>1, <3>2, <3>4
  <2>3. QED BY <2>2, <1>1
<1>4. /\ c \in Seq(1..Len(t)) /\ Len(c) >= 1 /\ c[1] = 1
      /\ \A k \in 1 .. Len(c) - 1 : c[k + 1] = LineEnd(t, c[k]) + 2
  BY <1>3, Lines
<1> HIDE DEF c
<1>5. Len(c) \in Nat /\ n \in Nat /\ n >= 1 /\ n + 1 = Len(c) BY <1>1, <1>4
<1>6. ASSUME NEW k \in 1..n
      PROVE  FieldIsPlaced(t, k) /\ (gaps = {1} => ValueAt(t, k) = ColonAt(t, k) + 2)
  <2> DEFINE first == c[k]  col == Find(t, Colon, first)  end == LineEnd(t, first)
             value == col + IF t[col + 1] = Space THEN 2 ELSE 1
  <2>1. first \in 1..Len(t) /\ first \in Nat /\ c[k + 1] = end + 2
    <3>1. k \in 1..Len(c) BY <1>5
    <3>2. first \in 1..Len(t) BY <3>1, <1>4, ElementOfSeq
    <3>3. QED BY <3>2, <1>4
  <2>2. /\ col \in Nat /\ col <= Len(t) + 1
        /\ col <= Len(t) => first <= col /\ t[col] = Colon
        /\ \A i \in first..Len(t) : i < col => t[i] # Colon
    BY <2>1, FindIs
  <2>3. /\ end \in Nat /\ (end = Len(t) + 1 \/ (first <= end /\ end < Len(t) /\ t[end] = CR /\ t[end + 1] = LF))
        /\ \A i \in first .. Len(t) - 1 : i < end => ~(t[i] = CR /\ t[i + 1] = LF)
    BY <2>1, LineEndIs
  <2>4. PICK g \in gaps : col > first /\ col + g < end /\ (g = 1 => t[col + 1] = Space) /\ t[col + g + 1] # Space
    BY <1>1
  <2>5. c[k + 1] <= Len(t)
    <3>1. k + 1 \in 1..Len(c) BY <1>5
    <3>2. c[k + 1] \in 1..Len(t) BY <3>1, <1>4, ElementOfSeq
    <3>3. QED BY <3>2, <1>2
  <2> HIDE DEF first, col, end
  <2>6. end < Len(t) /\ t[end] = CR /\ t[end + 1] = LF BY <1>2, <2>1, <2>3, <2>5
  <2>7. g = 0 \/ g = 1 OBVIOUS
  <2>8. value = col + g + 1 BY <2>2, <2>4, <2>7
  <2>9. value \in Nat /\ col < value /\ value <= end /\ t[value] # Space
        /\ \A i \in col + 1 .. value - 1 : t[i] = Space
    <3>1. value \in Nat /\ col < value /\ value <= end BY <2>2, <2>3, <2>4, <2>7, <2>8
    <3>2. t[value] # Space BY <2>4, <2>8
    <3>3. ASSUME NEW i \in col + 1 .. value - 1 PROVE t[i] = Space
      <4>1. g = 1 /\ i = col + 1 BY <2>2, <2>7, <2>8
      <4>2. QED BY <4>1, <2>4
    <3> HIDE DEF value
    <3>4. QED BY <3>1, <3>2, <3>3
  <2>10. gaps = {1} => value = col + 2 BY <2>2, <2>8
  <2> HIDE DEF value
  <2>11. /\ \A i \in first .. col - 1 : t[i] # Colon
         /\ \A i \in first .. end - 1 : ~(t[i] = CR /\ t[i + 1] = LF)
    <3>1. ASSUME NEW i \in first .. col - 1 PROVE t[i] # Colon
      <4>1. i \in first..Len(t) /\ i < col BY <1>2, <2>1, <2>2
      <4>2. QED BY <4>1, <2>2
    <3>2. ASSUME NEW i \in first .. end - 1 PROVE ~(t[i] = CR /\ t[i + 1] = LF)
      <4>1. i \in first .. Len(t) - 1 /\ i < end BY <1>2, <2>1, <2>3, <2>6
      <4>2. QED BY <4>1, <2>3
    <3>3. QED BY <3>1, <3>2
  <2>12. t[col] = Colon /\ first < col /\ 1 <= first
    BY <1>2, <2>1, <2>2, <2>3, <2>4, <2>6, <2>7
  <2>13. First(t, k) = first /\ First(t, k + 1) = c[k + 1] BY DEF First, first, c
  <2>14. ColonAt(t, k) = col /\ LastAt(t, k) = end BY <2>13 DEF ColonAt, LastAt, col, end
  <2>15. ValueAt(t, k) = value BY <2>14 DEF ValueAt, value
  <2>16. QED BY <2>1, <2>2, <2>3, <2>6, <2>9, <2>10, <2>11, <2>12, <2>13, <2>14, <2>15
            DEF FieldIsPlaced
<1>7. First(t, 1) = 1 /\ First(t, n + 1) = Len(t) - 1 BY <1>1, <1>4, <1>5 DEF First, c
<1>8. First(t, n + 1) \in Nat
  <2>1. c[n + 1] \in 1..Len(t) BY <1>4, <1>5, ElementOfSeq
  <2>2. QED BY <2>1 DEF First, c
<1>9. QED BY <1>1, <1>2, <1>5, <1>6, <1>7, <1>8 DEF c

\* The loop of parse_amievent, character by character.
LEMMA AmiSteps ==
  ASSUME NEW S, NEW t \in Seq(S)
  PROVE  /\ AmiState(t)[0] = [events |-> <<>>, key |-> <<>>, isHeader |-> TRUE, start |-> 1,
                              next |-> 1]
         /\ \A p \in 1..Len(t) : AmiState(t)[p] = AmiChar(t, AmiState(t)[p - 1], p)
<1> DEFINE init == [events |-> <<>>, key |-> <<>>, isHeader |-> TRUE, start |-> 1, next |-> 1]
           E(f, p) == IF p = 0 THEN init ELSE AmiChar(t, f[p - 1], p)
           Solves(f, m) == f = [p \in 0..m |-> E(f, p)]
<1>1. Len(t) \in Nat OBVIOUS
<1>2. AmiState(t) = CHOOSE f : Solves(f, Len(t)) BY DEF AmiState
<1> HIDE DEF init
<1>3. \E f : Solves(f, Len(t))
  <2> DEFINE T == {m \in 0..Len(t) : \E f : Solves(f, m)}
  <2>1. 0 \in T
    <3> DEFINE f == [p \in 0..0 |-> init]
    <3>1. f = [p \in 0..0 |-> E(f, p)] OBVIOUS
    <3>2. 0 \in 0..Len(t) BY <1>1
    <3> HIDE DEF E, f
    <3>3. QED BY <3>1, <3>2
  <2>2. ASSUME NEW m \in 0 .. Len(t) - 1, m \in T PROVE m + 1 \in T
    <3>1. PICK f : f = [p \in 0..m |-> E(f, p)] BY <2>2
    <3> DEFINE g == [p \in 0 .. m + 1 |-> IF p = m + 1 THEN E(f, p) ELSE f[p]]
    <3>2. ASSUME NEW p \in 0 .. m + 1 PROVE g[p] = E(g, p)
      <4>1. CASE p = 0
        <5>1. g[0] = f[0] BY <1>1
        <5>2. f[0] = init BY <3>1
        <5>3. QED BY <4>1, <5>1, <5>2
      <4>2. CASE p # 0
        <5>1. p - 1 \in 0..m /\ p - 1 \in 0 .. m + 1 /\ p - 1 # m + 1 BY <4>2
        <5>2. g[p - 1] = f[p - 1] BY <5>1
        <5>3. g[p] = E(f, p)
          <6>1. CASE p = m + 1 BY <6>1
          <6>2. CASE p # m + 1
            <7>1. p \in 0..m BY <6>2
            <7>2. f[p] = E(f, p) BY <7>1, <3>1
            <7> HIDE DEF E
            <7>3. QED BY <7>2, <6>2
          <6>3. QED BY <6>1, <6>2
        <5> HIDE DEF g
        <5>4. QED BY <5>2, <5>3, <4>2
      <4>3. QED BY <4>1, <4>2
    <3>3. g = [p \in 0 .. m + 1 |-> g[p]] OBVIOUS
    <3> HIDE DEF g, E
    <3>4. g = [p \in 0 .. m + 1 |-> E(g, p)] BY <3>2, <3>3
    <3>5. m + 1 \in 0..Len(t) BY <1>1
    <3>6. QED BY <3>4, <3>5
  <2> HIDE DEF T
  <2>3. 0..Len(t) \subseteq T BY <2>1, <2>2, <1>1, Upwards
  <2>4. Len(t) \in T BY <2>3, <1>1
  <2>5. QED BY <2>4 DEF T
<1>4. Solves(AmiState(t), Len(t)) BY <1>2, <1>3
<1> DEFINE st == AmiState(t)
<1> HIDE DEF st
<1>5. st = [p \in 0..Len(t) |-> E(st, p)] BY <1>4 DEF st
<1>6. st[0] = init BY <1>5, <1>1
<1>7. ASSUME NEW p \in 1..Len(t) PROVE st[p] = AmiChar(t, st[p - 1], p) BY <1>5, <1>1
<1>8. QED BY <1>6, <1>7 DEF st, init

\* A state of the loop of parse_amievent.
IsAmi(s) ==
  s = [events |-> s.events, key |-> s.key, isHeader |-> s.isHeader, start |-> s.start,
       next |-> s.next]

\* What a character does while the loop reads a name.
NameCharDoes(t, p, s, r) ==
  /\ p < s.next \/ t[p] # Colon => r = s
  /\ ~(p < s.next) /\ t[p] = Colon =>
       r = [events |-> s.events, key |-> SubSeq(t, s.start, p - 1), isHeader |-> FALSE,
            start |-> 0, next |-> s.next]

LEMMA NameChar ==
  ASSUME NEW t, NEW p \in Nat, NEW s, IsAmi(s), s.next \in Nat, s.isHeader
  PROVE  NameCharDoes(t, p, s, AmiChar(t, s, p))
<1> DEFINE name == SubSeq(t, s.start, p - 1)  D == {"events", "key", "isHeader", "start", "next"}
<1>1. p < s.next => AmiChar(t, s, p) = s BY DEF AmiChar
<1>2. ~(p < s.next) /\ t[p] # Colon => AmiChar(t, s, p) = s BY DEF AmiChar
<1>3. ASSUME ~(p < s.next), t[p] = Colon
      PROVE  AmiChar(t, s, p) = [events |-> s.events, key |-> name, isHeader |-> FALSE,
                                 start |-> 0, next |-> s.next]
  <2>1. AmiChar(t, s, p) = [s EXCEPT !.key = name, !.isHeader = FALSE, !.start = 0]
    BY <1>3 DEF AmiChar
  <2> HIDE DEF name
  <2>2. PICK q : q = [s EXCEPT !.key = name, !.isHeader = FALSE, !.start = 0] OBVIOUS
  <2>3. DOMAIN s = D BY DEF IsAmi
  <2>4. DOMAIN q = D BY <2>2, <2>3
  <2>5. q.events = s.events /\ q.key = name /\ q.isHeader = FALSE /\ q.start = 0 /\ q.next = s.next
    BY <2>2, <2>3
  <2>6. q = [x \in D |-> q[x]] BY <2>2, <2>4
  <2>7. q = [events |-> s.events, key |-> name, isHeader |-> FALSE, start |-> 0, next |-> s.next]
    BY <2>5, <2>6
  <2>8. QED BY <2>1, <2>2, <2>7
<1>4. QED BY <1>1, <1>2, <1>3 DEF NameCharDoes

\* What a character does while the loop reads a value.
ValueCharDoes(t, p, s, start, r) ==
  r = IF t[p] = CR /\ p < Len(t) /\ t[p + 1] = LF
      THEN [events |-> Append(s.events, [key |-> s.key, value |-> SubSeq(t, start, p - 1)]),
            key |-> s.key, isHeader |-> TRUE, start |-> p + 2, next |-> p + 3]
      ELSE [events |-> s.events, key |-> s.key, isHeader |-> FALSE, start |-> start,
            next |-> s.next]

LEMMA ValueChar ==
  ASSUME NEW t, NEW p \in Nat, NEW s, IsAmi(s), s.next \in Nat, ~s.isHeader, p >= s.next,
         NEW start, start = IF s.start = 0 /\ t[p] # Space THEN p ELSE s.start
  PROVE  ValueCharDoes(t, p, s, start, AmiChar(t, s, p))
<1> DEFINE event == [key |-> s.key, value |-> SubSeq(t, start, p - 1)]
           D == {"events", "key", "isHeader", "start", "next"}
<1>1. AmiChar(t, s, p)
        = IF t[p] = CR /\ p < Len(t) /\ t[p + 1] = LF
          THEN [s EXCEPT !.events = Append(@, event), !.isHeader = TRUE, !.start = p + 2,
                         !.next = p + 3]
          ELSE [s EXCEPT !.start = start]
  <2>1. ~(p < s.next) OBVIOUS
  <2>2. QED BY <2>1 DEF AmiChar, AfterLine
<1> HIDE DEF event
<1>2. DOMAIN s = D BY DEF IsAmi
<1>3. [s EXCEPT !.events = Append(@, event), !.isHeader = TRUE, !.start = p + 2, !.next = p + 3]
        = [events |-> Append(s.events, event), key |-> s.key, isHeader |-> TRUE, start |-> p + 2,
           next |-> p + 3]
  <2>1. PICK q : q = [s EXCEPT !.events = Append(@, event), !.isHeader = TRUE, !.start = p + 2,
                               !.next = p + 3]
    OBVIOUS
  <2>2. DOMAIN q = D BY <1>2, <2>1
  <2>3. /\ q.events = Append(s.events, event) /\ q.key = s.key /\ q.isHeader = TRUE
        /\ q.start = p + 2 /\ q.next = p + 3
    BY <1>2, <2>1
  <2>4. q = [x \in D |-> q[x]] BY <2>1, <2>2
  <2>5. q = [events |-> Append(s.events, event), key |-> s.key, isHeader |-> TRUE, start |-> p + 2,
             next |-> p + 3]
    BY <2>3, <2>4
  <2>6. QED BY <2>1, <2>5
<1>4. [s EXCEPT !.start = start]
        = [events |-> s.events, key |-> s.key, isHeader |-> FALSE, start |-> start, next |-> s.next]
  <2>1. PICK q : q = [s EXCEPT !.start = start] OBVIOUS
  <2>2. DOMAIN q = D BY <1>2, <2>1
  <2>3. /\ q.events = s.events /\ q.key = s.key /\ q.isHeader = FALSE /\ q.start = start
        /\ q.next = s.next
    BY <1>2, <2>1
  <2>4. q = [x \in D |-> q[x]] BY <2>1, <2>2
  <2>5. q = [events |-> s.events, key |-> s.key, isHeader |-> FALSE, start |-> start,
             next |-> s.next]
    BY <2>3, <2>4
  <2>6. QED BY <2>1, <2>5
<1>5. QED BY <1>1, <1>3, <1>4 DEF event, ValueCharDoes

\* What the fields are read as, the first j of them, and where the loop goes on reading then.
Event(t, k) ==
  [key   |-> SubSeq(t, First(t, k), ColonAt(t, k) - 1),
   value |-> SubSeq(t, ValueAt(t, k), LastAt(t, k) - 1)]
Events(t, j) == [k \in 1..j |-> Event(t, k)]
NextOf(t, k) == IF k = 1 THEN 1 ELSE First(t, k) + 1

\* One field more.
LEMMA NextEvent ==
  ASSUME NEW t, NEW k \in Nat, k >= 1
  PROVE  Append(Events(t, k - 1), Event(t, k)) = Events(t, k)
<1> DEFINE V == {Event(t, j) : j \in 1..k}  a == Append(Events(t, k - 1), Event(t, k))
<1>1. Events(t, k - 1) \in Seq(V) /\ Len(Events(t, k - 1)) = k - 1 BY DEF Events
<1>2. Events(t, k) \in Seq(V) /\ Len(Events(t, k)) = k BY DEF Events
<1>3. Event(t, k) \in V OBVIOUS
<1>4. \A j \in 1 .. k - 1 : Events(t, k - 1)[j] = Event(t, j) BY DEF Events
<1>5. \A j \in 1..k : Events(t, k)[j] = Event(t, j) BY DEF Events
<1> HIDE DEF V
<1>6. a \in Seq(V) /\ Len(a) = k BY <1>1, <1>3
<1>7. ASSUME NEW j \in 1..k PROVE a[j] = Event(t, j)
  <2>1. CASE j = k BY <1>1, <1>3, <2>1
  <2>2. CASE j # k
    <3>1. j \in 1 .. k - 1 BY <2>2
    <3>2. a[j] = Events(t, k - 1)[j] BY <3>1, <1>1, <1>3
    <3>3. QED BY <3>1, <3>2, <1>4
  <2>3. QED BY <2>1, <2>2
<1> HIDE DEF a
<1>8. \A j \in 1..Len(a) : a[j] = Events(t, k)[j] BY <1>5, <1>6, <1>7
<1>9. a = Events(t, k) BY <1>2, <1>6, <1>8, SeqEqual, Zenon
<1>10. QED BY <1>9 DEF a

\* The state of the loop behind p characters: it reads the name of a field, or the blank
\* line, or it reads the value of one.
AtName(t, n, p, s) ==
  \E k \in 1 .. n + 1, key \in {s.key} :
    /\ s = [events |-> Events(t, k - 1), key |-> key, isHeader |-> TRUE, start |-> First(t, k),
            next |-> NextOf(t, k)]
    /\ k <= n => p < ColonAt(t, k)
AtValue(t, n, p, s) ==
  \E k \in 1..n :
    /\ s = [events |-> Events(t, k - 1), key |-> SubSeq(t, First(t, k), ColonAt(t, k) - 1),
            isHeader |-> FALSE, start |-> IF p < ValueAt(t, k) THEN 0 ELSE ValueAt(t, k),
            next |-> NextOf(t, k)]
    /\ ColonAt(t, k) <= p /\ p < LastAt(t, k)

\* A character of a name.
LEMMA NameStep ==
  ASSUME NEW S, NEW t \in Seq(S), NEW gaps \in SUBSET {0, 1}, IsFields(t, gaps),
         NEW n, n = Len(LineStarts(t)) - 1, NEW p \in 1..Len(t), NEW s, AtName(t, n, p - 1, s)
  PROVE  AtName(t, n, p, AmiChar(t, s, p)) \/ AtValue(t, n, p, AmiChar(t, s, p))
<1> DEFINE r == AmiChar(t, s, p)
<1>1. /\ n \in Nat /\ n >= 1 /\ Len(t) \in Nat
      /\ First(t, 1) = 1 /\ First(t, n + 1) = Len(t) - 1 /\ First(t, n + 1) \in Nat
      /\ t[Len(t) - 1] = CR /\ t[Len(t)] = LF
      /\ \A k \in 1..n : FieldIsPlaced(t, k)
  BY FieldPlaces
<1>2. PICK k \in 1 .. n + 1, key \in {s.key} :
        /\ s = [events |-> Events(t, k - 1), key |-> key, isHeader |-> TRUE,
                start |-> First(t, k), next |-> NextOf(t, k)]
        /\ k <= n => p - 1 < ColonAt(t, k)
  BY DEF AtName
<1> DEFINE first == First(t, k)  colon == ColonAt(t, k)  value == ValueAt(t, k)
           last == LastAt(t, k)  next == NextOf(t, k)
<1>3. p \in Nat /\ k \in Nat /\ k >= 1 BY <1>1
<1>4. k <= n => FieldIsPlaced(t, k) BY <1>1, <1>3
<1>5. k <= n => /\ first \in Nat /\ colon \in Nat /\ value \in Nat /\ last \in Nat
                /\ 1 <= first /\ first < colon /\ colon < value /\ value <= last /\ last < Len(t)
                /\ t[colon] = Colon /\ \A i \in first .. colon - 1 : t[i] # Colon
  BY <1>4 DEF FieldIsPlaced
<1>6. k > n => k = n + 1 /\ first = Len(t) - 1 /\ first \in Nat BY <1>1, <1>3
<1>7. next \in Nat /\ (k = 1 => next = 1 /\ first = 1) /\ (k # 1 => next = first + 1)
  BY <1>1, <1>3, <1>5, <1>6 DEF NextOf
<1>8. /\ p < next \/ t[p] # Colon => r = s
      /\ ~(p < next) /\ t[p] = Colon =>
           r = [events |-> Events(t, k - 1), key |-> SubSeq(t, first, p - 1), isHeader |-> FALSE,
                start |-> 0, next |-> next]
  <2> DEFINE events == Events(t, k - 1)
  <2> HIDE DEF first, colon, value, last, next, events
  <2>1. s = [events |-> events, key |-> key, isHeader |-> TRUE, start |-> first, next |-> next]
    BY <1>2 DEF first, next, events
  <2>2. /\ s.events = events /\ s.key = key /\ s.isHeader = TRUE /\ s.start = first
        /\ s.next = next
    BY <2>1
  <2>3. IsAmi(s) BY <2>1, <2>2 DEF IsAmi
  <2>4. p \in Nat /\ s.next \in Nat BY <1>3, <1>7, <2>2
  <2>5. NameCharDoes(t, p, s, AmiChar(t, s, p)) BY <2>2, <2>3, <2>4, NameChar
  <2>6. QED BY <2>2, <2>5 DEF events, NameCharDoes
<1> HIDE DEF r, first, colon, value, last, next
<1>9. CASE p < next \/ t[p] # Colon
  <2>1. k <= n => p < colon
    <3> SUFFICES ASSUME k <= n PROVE p < colon OBVIOUS
    <3>1. p - 1 < colon BY <1>2 DEF colon
    <3>2. p # colon BY <1>3, <1>5, <1>7, <1>9
    <3>3. QED BY <3>1, <3>2, <1>3, <1>5
  <2>2. r = s BY <1>8, <1>9
  <2>3. AtName(t, n, p, s) BY <1>2, <2>1 DEF AtName, colon
  <2>4. QED BY <2>2, <2>3 DEF r
<1>10. CASE ~(p < next \/ t[p] # Colon)
  <2>1. k <= n
    <3> SUFFICES ASSUME k > n PROVE FALSE BY <1>1, <1>3
    <3>1. k = n + 1 /\ k # 1 BY <1>1, <1>6
    <3>2. p = Len(t) BY <3>1, <1>1, <1>6, <1>7, <1>10
    <3>3. QED BY <3>2, <1>1, <1>10 DEF LF, Colon
  <2>2. p = colon
    <3>1. p - 1 < colon BY <1>2, <2>1 DEF colon
    <3>2. p >= first BY <1>3, <1>5, <1>7, <1>10, <2>1
    <3>3. ~(p \in first .. colon - 1) BY <1>5, <1>10, <2>1
    <3>4. QED BY <3>1, <3>2, <3>3, <1>3, <1>5, <2>1
  <2>3. k \in 1..n /\ p < value /\ p < last /\ colon <= p BY <1>1, <1>3, <1>5, <2>1, <2>2
  <2>4. r = [events |-> Events(t, k - 1), key |-> SubSeq(t, first, colon - 1), isHeader |-> FALSE,
             start |-> IF p < value THEN 0 ELSE value, next |-> next]
    BY <1>8, <1>10, <2>2, <2>3
  <2>5. AtValue(t, n, p, r) BY <2>3, <2>4 DEF AtValue, first, colon, value, last, next
  <2>6. QED BY <2>5 DEF r
<1>11. QED BY <1>9, <1>10

\* A character of a value.
LEMMA ValueStep ==
  ASSUME NEW S, NEW t \in Seq(S), NEW gaps \in SUBSET {0, 1}, IsFields(t, gaps),
         NEW n, n = Len(LineStarts(t)) - 1, NEW p \in 1..Len(t), NEW s, AtValue(t, n, p - 1, s)
  PROVE  AtName(t, n, p, AmiChar(t, s, p)) \/ AtValue(t, n, p, AmiChar(t, s, p))
<1> DEFINE r == AmiChar(t, s, p)
<1>1. /\ n \in Nat /\ n >= 1 /\ Len(t) \in Nat
      /\ First(t, n + 1) = Len(t) - 1
      /\ \A k \in 1..n : FieldIsPlaced(t, k)
  BY FieldPlaces
<1>2. PICK k \in 1..n :
        /\ s = [events |-> Events(t, k - 1), key |-> SubSeq(t, First(t, k), ColonAt(t, k) - 1),
                isHeader |-> FALSE, start |-> IF p - 1 < ValueAt(t, k) THEN 0 ELSE ValueAt(t, k),
                next |-> NextOf(t, k)]
        /\ ColonAt(t, k) <= p - 1 /\ p - 1 < LastAt(t, k)
  BY DEF AtValue
<1> DEFINE first == First(t, k)  colon == ColonAt(t, k)  value == ValueAt(t, k)
           last == LastAt(t, k)  next == NextOf(t, k)  key == SubSeq(t, first, colon - 1)
           start == IF p - 1 < value THEN 0 ELSE value
           start1 == IF start = 0 /\ t[p] # Space THEN p ELSE start
<1>3. p \in Nat /\ k \in Nat /\ k >= 1 BY <1>1
<1>4. FieldIsPlaced(t, k) BY <1>1
<1>5. /\ first \in Nat /\ colon \in Nat /\ value \in Nat /\ last \in Nat
      /\ 1 <= first /\ first < colon /\ colon < value /\ value <= last /\ last < Len(t)
      /\ First(t, k + 1) = last + 2
      /\ t[last] = CR /\ t[last + 1] = LF /\ t[value] # Space
      /\ \A i \in colon + 1 .. value - 1 : t[i] = Space
      /\ \A i \in first .. last - 1 : ~(t[i] = CR /\ t[i + 1] = LF)
  BY <1>4 DEF FieldIsPlaced
<1>6. next \in Nat /\ next <= p
  <2>1. next \in Nat /\ (k = 1 => next = 1) /\ (k # 1 => next = first + 1)
    BY <1>3, <1>5 DEF NextOf
  <2>2. colon <= p - 1 BY <1>2
  <2> HIDE DEF first, colon, next
  <2>3. first + 1 <= p /\ 1 <= p BY <2>2, <1>3, <1>5
  <2>4. QED BY <2>1, <2>3, <1>3
<1>7. /\ ~(p < next) /\ t[p] = CR /\ p < Len(t) /\ t[p + 1] = LF =>
           r = [events |-> Append(Events(t, k - 1),
                                  [key |-> key, value |-> SubSeq(t, start1, p - 1)]),
                key |-> key, isHeader |-> TRUE, start |-> p + 2, next |-> p + 3]
      /\ ~(p < next) /\ ~(t[p] = CR /\ p < Len(t) /\ t[p + 1] = LF) =>
           r = [events |-> Events(t, k - 1), key |-> key, isHeader |-> FALSE, start |-> start1,
                next |-> next]
  <2> DEFINE events == Events(t, k - 1)
  <2> HIDE DEF first, colon, value, last, next, events, key, start, start1
  <2>1. s = [events |-> events, key |-> key, isHeader |-> FALSE, start |-> start, next |-> next]
    BY <1>2 DEF first, colon, value, next, events, key, start
  <2>2. /\ s.events = events /\ s.key = key /\ s.isHeader = FALSE /\ s.start = start
        /\ s.next = next
    BY <2>1
  <2>3. IsAmi(s) BY <2>1, <2>2 DEF IsAmi
  <2>4. start1 = IF s.start = 0 /\ t[p] # Space THEN p ELSE s.start BY <2>2 DEF start1
  <2>5. ValueCharDoes(t, p, s, start1, AmiChar(t, s, p))
    <3>1. p \in Nat /\ s.next \in Nat /\ p >= s.next BY <1>3, <1>6, <2>2
    <3>2. QED BY <2>2, <2>3, <2>4, <3>1, ValueChar
  <2>6. QED BY <2>2, <2>5 DEF events, ValueCharDoes
<1>8. colon + 1 <= p /\ p <= last
  <2>1. colon <= p - 1 /\ p - 1 < last BY <1>2
  <2>2. colon \in Nat /\ last \in Nat BY <1>5
  <2> HIDE DEF colon, last
  <2>3. QED BY <2>1, <2>2, <1>3
<1> HIDE DEF r, first, colon, last, next, key
<1>9. start1 = IF p < value THEN 0 ELSE value
  <2>1. CASE p < value
    <3>1. p \in colon + 1 .. value - 1 BY <1>3, <1>5, <1>8, <2>1
    <3>2. t[p] = Space BY <3>1, <1>5
    <3>3. p - 1 < value BY <1>3, <1>5, <2>1
    <3> HIDE DEF value
    <3>4. QED BY <3>2, <3>3, <2>1
  <2>2. CASE p = value
    <3> HIDE DEF value
    <3>1. t[p] # Space /\ p - 1 < value /\ ~(p < value) BY <1>3, <1>5, <2>2
    <3>2. QED BY <3>1, <2>2
  <2>3. CASE p > value
    <3> HIDE DEF value
    <3>1. ~(p - 1 < value) /\ ~(p < value) /\ value # 0 BY <1>3, <1>5, <2>3
    <3>2. QED BY <3>1
  <2> HIDE DEF value, start1
  <2>4. QED BY <2>1, <2>2, <2>3, <1>3, <1>5
<1> HIDE DEF value, start1
<1>10. CASE p = last
  <2>1. start1 = value BY <1>5, <1>9, <1>10
  <2>2. r = [events |-> Append(Events(t, k - 1), [key |-> key, value |-> SubSeq(t, value, last - 1)]),
             key |-> key, isHeader |-> TRUE, start |-> p + 2, next |-> p + 3]
    BY <1>3, <1>5, <1>6, <1>7, <1>10, <2>1
  <2>3. [key |-> key, value |-> SubSeq(t, value, last - 1)] = Event(t, k)
    BY DEF Event, key, first, colon, value, last
  <2>4. Append(Events(t, k - 1), Event(t, k)) = Events(t, (k + 1) - 1)
    <3>1. (k + 1) - 1 = k BY <1>3
    <3>2. QED BY <3>1, <1>3, NextEvent
  <2>5. p + 2 = First(t, k + 1) /\ p + 3 = NextOf(t, k + 1)
    <3>1. k + 1 # 1 /\ (last + 2) + 1 = last + 3 BY <1>3, <1>5
    <3>2. QED BY <3>1, <1>5, <1>10 DEF NextOf
  <2>6. k + 1 <= n => p < ColonAt(t, k + 1)
    <3> SUFFICES ASSUME k + 1 <= n PROVE p < ColonAt(t, k + 1) OBVIOUS
    <3>1. FieldIsPlaced(t, k + 1) BY <1>1, <1>3
    <3>2. First(t, k + 1) < ColonAt(t, k + 1) /\ ColonAt(t, k + 1) \in Nat BY <3>1 DEF FieldIsPlaced
    <3>3. QED BY <3>2, <1>3, <2>5
  <2>7. r = [events |-> Events(t, (k + 1) - 1), key |-> key, isHeader |-> TRUE,
             start |-> First(t, k + 1), next |-> NextOf(t, k + 1)]
    BY <2>2, <2>3, <2>4, <2>5
  <2>8. r.key = key BY <2>7
  <2>9. k + 1 \in 1 .. n + 1 BY <1>1, <1>3
  <2>10. AtName(t, n, p, r) BY <2>6, <2>7, <2>8, <2>9 DEF AtName
  <2>11. QED BY <2>10 DEF r
<1>11. CASE p # last
  <2>1. p < last BY <1>3, <1>5, <1>8, <1>11
  <2>2. ~(t[p] = CR /\ t[p + 1] = LF)
    <3>1. p \in first .. last - 1 BY <1>3, <1>5, <1>8, <2>1
    <3>2. QED BY <3>1, <1>5
  <2>3. r = [events |-> Events(t, k - 1), key |-> key, isHeader |-> FALSE,
             start |-> IF p < value THEN 0 ELSE value, next |-> next]
    BY <2>2, <1>3, <1>6, <1>7, <1>9
  <2>4. colon <= p BY <1>3, <1>5, <1>8
  <2>5. AtValue(t, n, p, r) BY <2>1, <2>3, <2>4 DEF AtValue, first, colon, value, last, next, key
  <2>6. QED BY <2>5 DEF r
<1>12. QED BY <1>10, <1>11

\* Behind no character are more places in use than there are fields.
LEMMA PlacesUsed ==
  ASSUME NEW t, NEW n \in Nat, NEW p, NEW s, AtName(t, n, p, s) \/ AtValue(t, n, p, s)
  PROVE  Used(s) \in Nat /\ Used(s) <= n
<1>1. ASSUME NEW j \in Nat PROVE Len(Events(t, j)) = j BY DEF Events
<1>2. CASE AtName(t, n, p, s)
  <2>1. PICK k \in 1 .. n + 1 : s.events = Events(t, k - 1) /\ s.isHeader = TRUE
    BY <1>2 DEF AtName
  <2>2. k - 1 \in Nat /\ k - 1 <= n BY <2>1
  <2>3. QED BY <1>1, <2>1, <2>2 DEF Used
<1>3. CASE AtValue(t, n, p, s)
  <2>1. PICK k \in 1..n : s.events = Events(t, k - 1) /\ s.isHeader = FALSE
    BY <1>3 DEF AtValue
  <2>2. k - 1 \in Nat /\ k <= n BY <2>1
  <2>3. QED BY <1>1, <2>1, <2>2 DEF Used
<1>4. QED BY <1>2, <1>3

\* parse_amievent reads the fields a message consists of, and stays within the text; and
\* it stays within its arrays if and only if there are no more fields than places.
LEMMA AmiReads ==
  ASSUME NEW S, NEW t \in Seq(S), NEW gaps \in SUBSET {0, 1}, IsFields(t, gaps)
  PROVE  /\ AmiParsed(t).events = Events(t, Len(LineStarts(t)) - 1)
         /\ ~AmiParsed(t).beyond
         /\ AmiParsed(t).overrun <=> Len(LineStarts(t)) - 1 > MAX_EVENTS
<1> DEFINE n == Len(LineStarts(t)) - 1  st == AmiState(t)
           T == {p \in 0..Len(t) : AtName(t, n, p, st[p]) \/ AtValue(t, n, p, st[p])}
<1>1. /\ n \in Nat /\ n >= 1 /\ Len(t) \in Nat
      /\ First(t, 1) = 1 /\ First(t, n + 1) = Len(t) - 1 /\ First(t, n + 1) \in Nat
      /\ \A k \in 1..n : FieldIsPlaced(t, k)
  BY FieldPlaces
<1>2. /\ st[0] = [events |-> <<>>, key |-> <<>>, isHeader |-> TRUE, start |-> 1, next |-> 1]
      /\ \A p \in 1..Len(t) : st[p] = AmiChar(t, st[p - 1], p)
  BY AmiSteps
<1> HIDE DEF st
<1>3. 0 \in T
  <2>1. Events(t, 1 - 1) = <<>> /\ NextOf(t, 1) = 1 BY DEF Events, NextOf
  <2>2. st[0].key = <<>> BY <1>2
  <2>3. FieldIsPlaced(t, 1) BY <1>1
  <2>4. 0 < ColonAt(t, 1) BY <2>3 DEF FieldIsPlaced
  <2>5. 1 \in 1 .. n + 1 /\ 0 \in 0..Len(t) BY <1>1
  <2>6. AtName(t, n, 0, st[0]) BY <1>1, <1>2, <2>1, <2>2, <2>4, <2>5 DEF AtName
  <2>7. QED BY <2>5, <2>6
<1>4. ASSUME NEW p \in 0 .. Len(t) - 1, p \in T PROVE p + 1 \in T
  <2>1. p + 1 \in 1..Len(t) /\ (p + 1) - 1 = p /\ p + 1 \in 0..Len(t) BY <1>1
  <2>2. st[p + 1] = AmiChar(t, st[p], p + 1) BY <1>2, <2>1
  <2>3. CASE AtName(t, n, p, st[p])
    <3>1. AtName(t, n, p + 1, AmiChar(t, st[p], p + 1)) \/ AtValue(t, n, p + 1, AmiChar(t, st[p], p + 1))
      BY <2>1, <2>3, NameStep
    <3>2. QED BY <2>1, <2>2, <3>1
  <2>4. CASE AtValue(t, n, p, st[p])
    <3>1. AtName(t, n, p + 1, AmiChar(t, st[p], p + 1)) \/ AtValue(t, n, p + 1, AmiChar(t, st[p], p + 1))
      BY <2>1, <2>4, ValueStep
    <3>2. QED BY <2>1, <2>2, <3>1
  <2>5. QED BY <1>4, <2>3, <2>4
<1>0. 0..Len(t) \subseteq T
  <2> HIDE DEF T
  <2>1. QED BY <1>1, <1>3, <1>4, Upwards
<1>5. AtName(t, n, Len(t), st[Len(t)])
  <2> HIDE DEF T
  <2>2. Len(t) \in T BY <1>0, <1>1
  <2>3. ~AtValue(t, n, Len(t), st[Len(t)])
    <3> SUFFICES ASSUME AtValue(t, n, Len(t), st[Len(t)]) PROVE FALSE OBVIOUS
    <3>1. PICK k \in 1..n : Len(t) < LastAt(t, k) BY DEF AtValue
    <3>2. LastAt(t, k) < Len(t) /\ LastAt(t, k) \in Nat BY <1>1 DEF FieldIsPlaced
    <3>3. QED BY <3>1, <3>2, <1>1
  <2>4. QED BY <2>2, <2>3 DEF T
<1>6. PICK k \in 1 .. n + 1, key \in {st[Len(t)].key} :
        /\ st[Len(t)] = [events |-> Events(t, k - 1), key |-> key, isHeader |-> TRUE,
                         start |-> First(t, k), next |-> NextOf(t, k)]
        /\ k <= n => Len(t) < ColonAt(t, k)
  BY <1>5 DEF AtName
<1>7. k = n + 1
  <2> SUFFICES ASSUME k <= n PROVE FALSE BY <1>1
  <2>1. k \in 1..n BY <1>1
  <2>2. /\ ColonAt(t, k) < ValueAt(t, k) /\ ValueAt(t, k) <= LastAt(t, k) /\ LastAt(t, k) < Len(t)
        /\ ColonAt(t, k) \in Nat /\ ValueAt(t, k) \in Nat /\ LastAt(t, k) \in Nat
    BY <2>1, <1>1 DEF FieldIsPlaced
  <2>3. QED BY <2>2, <1>1, <1>6
<1>8. NextOf(t, n + 1) = Len(t)
  <2> HIDE DEF n
  <2>1. n + 1 # 1 BY <1>1
  <2>2. NextOf(t, n + 1) = First(t, n + 1) + 1 BY <2>1 DEF NextOf
  <2>3. QED BY <2>2, <1>1
<1>9. st[Len(t)].events = Events(t, n) /\ st[Len(t)].next = Len(t)
  <2>1. (n + 1) - 1 = n BY <1>1
  <2>2. QED BY <2>1, <1>6, <1>7, <1>8
<1>10. (st[Len(t)].next > Len(t) + 1) = FALSE BY <1>1, <1>9
<1>11. (\E p \in 0..Len(t) : Used(st[p]) > MAX_EVENTS) <=> n > MAX_EVENTS
  <2> HIDE DEF n
  <2>1. MAX_EVENTS \in Nat BY TextConstants
  <2>2. ASSUME NEW p \in 0..Len(t) PROVE Used(st[p]) \in Nat /\ Used(st[p]) <= n
    <3>1. AtName(t, n, p, st[p]) \/ AtValue(t, n, p, st[p]) BY <1>0
    <3>2. QED BY <1>1, <3>1, PlacesUsed
  <2>3. Len(t) \in 0..Len(t) /\ Used(st[Len(t)]) = n
    <3>1. st[Len(t)].isHeader = TRUE BY <1>6
    <3>2. Len(Events(t, n)) = n BY <1>1 DEF Events
    <3>3. QED BY <1>1, <1>9, <3>1, <3>2 DEF Used
  <2> DEFINE u(p) == Used(st[p])
  <2>4. \A p \in 0..Len(t) : u(p) \in Nat /\ u(p) <= n BY <2>2
  <2>5. u(Len(t)) = n BY <2>3
  <2> HIDE DEF u
  <2>6. (\E p \in 0..Len(t) : u(p) > MAX_EVENTS) <=> n > MAX_EVENTS
    BY <1>1, <2>1, <2>3, <2>4, <2>5
  <2>7. QED BY <2>6 DEF u
<1> DEFINE behind == st[Len(t)].next > Len(t) + 1
           over   == \E p \in 0..Len(t) : Used(st[p]) > MAX_EVENTS
<1>12. AmiParsed(t) = [events |-> st[Len(t)].events, beyond |-> behind, overrun |-> over]
  BY DEF AmiParsed, st
<1>13. (behind <=> FALSE) /\ (over <=> n > MAX_EVENTS) BY <1>10, <1>11
<1> HIDE DEF behind, over, n
<1>14. AmiParsed(t).events = st[Len(t)].events BY <1>12
<1>15. (AmiParsed(t).beyond <=> behind) /\ (AmiParsed(t).overrun <=> over)
  <2>1. AmiParsed(t).beyond = behind BY <1>12
  <2>2. AmiParsed(t).overrun = over BY <1>12
  <2>3. QED BY <2>1, <2>2
<1>16. QED BY <1>9, <1>13, <1>14, <1>15 DEF n

\* The fields of a text, by their places.
LEMMA FieldsAre ==
  ASSUME NEW t
  PROVE  Fields(t) = [k \in 1 .. Len(LineStarts(t)) - 1 |->
                        <<SubSeq(t, First(t, k), ColonAt(t, k) - 1),
                          SubSeq(t, ValueAt(t, k), LastAt(t, k) - 1)>>]
BY DEF Fields, First, ColonAt, ValueAt, LastAt

\* parse_amievent and get_amivalue give the fields of a message, and of two with the same
\* name the first.
LEMMA AmiFields ==
  ASSUME NEW S, NEW t \in Seq(S), NEW gaps \in SUBSET {0, 1}, IsFields(t, gaps)
  PROVE  LET ami == AmiParsed(t)
         IN /\ [k \in DOMAIN ami.events |-> <<ami.events[k].key, ami.events[k].value>>] = Fields(t)
            /\ ~ami.beyond
            /\ ami.overrun <=> Len(Fields(t)) > MAX_EVENTS
            /\ \A k \in DOMAIN ami.events :
                 \E j \in 1..k : /\ Fields(t)[j][1] = Fields(t)[k][1]
                                 /\ get_amivalue(ami.events, Fields(t)[k][1]) = Fields(t)[j][2]
<1> DEFINE n == Len(LineStarts(t)) - 1  ev == AmiParsed(t).events
           name(k) == SubSeq(t, First(t, k), ColonAt(t, k) - 1)
           value(k) == SubSeq(t, ValueAt(t, k), LastAt(t, k) - 1)
<1>1. n \in Nat BY FieldPlaces
<1>2. ev = Events(t, n) /\ ~AmiParsed(t).beyond /\ (AmiParsed(t).overrun <=> n > MAX_EVENTS)
  BY AmiReads
<1>3. Fields(t) = [k \in 1..n |-> <<name(k), value(k)>>] BY FieldsAre
<1> HIDE DEF ev, n, name, value
<1>4. DOMAIN ev = 1..n /\ Len(ev) = n BY <1>1, <1>2 DEF Events
<1>5. \A k \in 1..n : ev[k].key = name(k) /\ ev[k].value = value(k)
  BY <1>2 DEF Events, Event, name, value
<1>6. [k \in DOMAIN ev |-> <<ev[k].key, ev[k].value>>] = Fields(t) BY <1>3, <1>4, <1>5
<1>7. ASSUME NEW k \in DOMAIN ev
      PROVE  \E j \in 1..k : /\ Fields(t)[j][1] = Fields(t)[k][1]
                             /\ get_amivalue(ev, Fields(t)[k][1]) = Fields(t)[j][2]
  <2> DEFINE I == {i \in 1..Len(ev) : ev[i].key = name(k)}
  <2>1. k \in 1..n /\ k \in I BY <1>4, <1>5, <1>7
  <2>2. I \subseteq Nat /\ I # {} BY <2>1
  <2>3. PICK x \in I : \A y \in I : x <= y BY <2>2, LeastOf
  <2> DEFINE j == SelectInSeq(ev, LAMBDA e : e.key = name(k))
  <2>4. j = IF I # {} THEN Min(I) ELSE 0 BY DEF SelectInSeq
  <2>5. j \in I /\ \A y \in I : j <= y
    <3>1. Min(I) \in I /\ \A y \in I : Min(I) <= y BY <2>3 DEF Min
    <3> HIDE DEF I, j
    <3>2. QED BY <2>2, <2>4, <3>1
  <2>6. get_amivalue(ev, name(k)) = IF j = 0 THEN <<>> ELSE ev[j].value BY DEF get_amivalue
  <2> HIDE DEF j
  <2>7. j \in 1..n /\ name(j) = name(k) /\ j <= k BY <2>1, <2>5, <1>1, <1>4, <1>5
  <2>8. j \in 1..k /\ j # 0 BY <2>1, <2>7, <1>1
  <2>9. get_amivalue(ev, name(k)) = value(j) BY <2>6, <2>7, <2>8, <1>5
  <2>10. Fields(t)[j][1] = name(j) /\ Fields(t)[j][2] = value(j) /\ Fields(t)[k][1] = name(k)
    BY <2>1, <2>7, <1>3
  <2>11. QED BY <2>7, <2>8, <2>9, <2>10
<1>8. Len(Fields(t)) = n BY <1>1, <1>3
<1>9. QED BY <1>2, <1>6, <1>7, <1>8 DEF ev

\* http_headers gives the fields of a header, if there is a \r at the end of a line only.
LEMMA HttpFields ==
  ASSUME NEW S, NEW t \in Seq(S), IsFields(t, {1}), \A i \in DOMAIN t : t[i] = CR => LineEnd(t, i) = i
  PROVE  LET http == http_headers(t)
         IN [k \in DOMAIN http |-> <<http[k].name, http[k].value>>] = Fields(t)
<1> DEFINE c == LineStarts(t)  n == Len(c) - 1
           end(src) == Find(t, CR, src + 1)
           lines == {src \in 1..Len(t) : end(src) <= Len(t)}
           item == [src \in lines |-> HttpField(t, src, end(src))]
           next == [src \in lines |-> end(src) + 2]
           m == Len(t) + 2
           name(k) == SubSeq(t, First(t, k), ColonAt(t, k) - 1)
           value(k) == SubSeq(t, ValueAt(t, k), LastAt(t, k) - 1)
<1>1. /\ n \in Nat /\ n >= 1 /\ Len(t) \in Nat
      /\ First(t, 1) = 1 /\ First(t, n + 1) = Len(t) - 1
      /\ First(t, n + 1) \in Nat /\ t[Len(t)] = LF
      /\ \A k \in 1..n : FieldIsPlaced(t, k) /\ ValueAt(t, k) = ColonAt(t, k) + 2
  <2>1. {1} \in SUBSET {0, 1} OBVIOUS
  <2>2. QED BY <2>1, FieldPlaces
<1>2. m \in Nat /\ 1 \in 1..m /\ DOMAIN item = lines BY <1>1
<1>3. \A p \in 1..Len(t) : /\ end(p) \in Nat /\ end(p) <= Len(t) + 1
                           /\ end(p) <= Len(t) => p + 1 <= end(p)
  <2> SUFFICES ASSUME NEW p \in 1..Len(t)
               PROVE  /\ end(p) \in Nat /\ end(p) <= Len(t) + 1
                      /\ end(p) <= Len(t) => p + 1 <= end(p)
    OBVIOUS
  <2>1. p + 1 \in Nat BY <1>1
  <2>2. QED BY <2>1, FindIs
<1>4. Forward(item, next, m)
  <2>1. ASSUME NEW p \in DOMAIN item PROVE p \in 1..m /\ next[p] \in p + 1 .. m
    <3>1. p \in lines /\ p \in 1..Len(t) /\ next[p] = end(p) + 2 BY <1>2
    <3>2. end(p) <= Len(t) BY <3>1
    <3> HIDE DEF end, item, next
    <3>3. QED BY <3>1, <3>2, <1>1, <1>3
  <2>2. QED BY <2>1 DEF Forward
<1> DEFINE field(k) == [name |-> name(k), value |-> value(k)]
<1>5. ASSUME NEW k \in 1..n
      PROVE  First(t, k) \in lines /\ item[First(t, k)] = field(k)
             /\ next[First(t, k)] = First(t, k + 1)
  <2> DEFINE first == First(t, k)  colon == ColonAt(t, k)  last == LastAt(t, k)
  <2>1. /\ first \in Nat /\ colon \in Nat /\ ValueAt(t, k) \in Nat /\ last \in Nat
        /\ 1 <= first /\ first < colon /\ colon < ValueAt(t, k) /\ ValueAt(t, k) <= last
        /\ last < Len(t) /\ First(t, k + 1) = last + 2
        /\ t[colon] = Colon /\ t[last] = CR
        /\ \A i \in first .. colon - 1 : t[i] # Colon
        /\ \A i \in first .. last - 1 : ~(t[i] = CR /\ t[i + 1] = LF)
    BY <1>1 DEF FieldIsPlaced
  <2>2. ValueAt(t, k) = colon + 2 BY <1>1
  <2> HIDE DEF first, colon, last
  <2>3. end(first) = last
    <3>1. ASSUME NEW i \in first + 1 .. last - 1 PROVE t[i] # CR
      <4> SUFFICES ASSUME t[i] = CR PROVE FALSE OBVIOUS
      <4>1. i \in Nat /\ i \in 1..Len(t) /\ i \in DOMAIN t /\ i \in first .. last - 1
        BY <2>1, <1>1
      <4>2. LineEnd(t, i) = i BY <4>1
      <4>3. i = Len(t) + 1 \/ (i <= i /\ i < Len(t) /\ t[i] = CR /\ t[i + 1] = LF)
        BY <4>1, <4>2, LineEndIs
      <4>4. QED BY <4>1, <4>3, <2>1, <1>1
    <3>2. first + 1 \in Nat /\ first + 1 <= last /\ last <= Len(t) + 1 BY <2>1, <1>1
    <3>3. QED BY <3>1, <3>2, <2>1, FindAt
  <2>4. Find(t, Colon, first + 1) = colon
    <3>1. first + 1 \in Nat /\ first + 1 <= colon /\ colon <= Len(t) + 1 BY <2>1, <1>1
    <3>2. ASSUME NEW i \in first + 1 .. colon - 1 PROVE t[i] # Colon
      <4>1. i \in first .. colon - 1 BY <2>1
      <4>2. QED BY <4>1, <2>1
    <3>3. QED BY <3>1, <3>2, <2>1, FindAt
  <2>5. first \in lines
    <3>1. first \in 1..Len(t) /\ last <= Len(t) BY <2>1, <1>1
    <3> HIDE DEF end
    <3>2. QED BY <3>1, <2>3
  <2>6. HttpField(t, first, last)
          = [name |-> SubSeq(t, first, colon - 1), value |-> SubSeq(t, colon + 2, last - 1)]
    <3>1. ~(colon >= last) BY <2>1, <2>2
    <3>2. QED BY <3>1, <2>4 DEF HttpField
  <2>7. item[first] = HttpField(t, first, end(first)) /\ next[first] = end(first) + 2 BY <2>5
  <2> HIDE DEF item, next, end, lines
  <2>8. item[first] = field(k) BY <2>2, <2>3, <2>6, <2>7 DEF first, colon, last, name, value
  <2>9. next[first] = First(t, k + 1) BY <2>1, <2>3, <2>7
  <2>10. QED BY <2>5, <2>8, <2>9 DEF first
<1>6. First(t, n + 1) \notin lines
  <2>1. Find(t, CR, Len(t)) = Len(t) + 1
    <3>1. \A i \in Len(t) .. Len(t) : t[i] # CR BY <1>1 DEF CR, LF
    <3>2. Len(t) + 1 - 1 = Len(t) /\ Len(t) + 1 \in Nat BY <1>1
    <3>3. QED BY <3>1, <3>2, <1>1, FindAt
  <2>2. First(t, n + 1) + 1 = Len(t) BY <1>1
  <2>3. end(First(t, n + 1)) = Len(t) + 1 BY <2>1, <2>2
  <2> HIDE DEF end
  <2>4. QED BY <2>3, <1>1
<1>7. GoesAlong(c, n, item, next, m)
  <2>1. ASSUME NEW k \in 1 .. n + 1 PROVE c[k] \in 1..m
    <3>1. CASE k = n + 1
      <4>1. c[k] = Len(t) - 1 /\ c[k] \in Nat BY <3>1, <1>1 DEF First
      <4>2. n \in 1..n BY <1>1
      <4>3. First(t, n + 1) = LastAt(t, n) + 2 /\ LastAt(t, n) \in Nat
        BY <4>2, <1>1 DEF FieldIsPlaced
      <4>4. c[k] >= 2 BY <4>1, <4>3, <1>1
      <4> HIDE DEF c
      <4>5. QED BY <4>1, <4>4, <1>1
    <3>2. CASE k # n + 1
      <4>1. k \in 1..n BY <3>2, <1>1
      <4>2. First(t, k) \in lines BY <4>1, <1>5
      <4>3. First(t, k) \in 1..Len(t) BY <4>2
      <4>4. QED BY <4>3, <1>1 DEF First
    <3>3. QED BY <3>1, <3>2
  <2>2. ASSUME NEW k \in 1..n PROVE c[k] \in DOMAIN item /\ c[k + 1] = next[c[k]]
    BY <1>2, <1>5 DEF First
  <2>3. c[n + 1] \notin DOMAIN item BY <1>2, <1>6 DEF First
  <2> HIDE DEF c, n, item, next, m
  <2>4. QED BY <2>1, <2>2, <2>3 DEF GoesAlong
<1>8. http_headers(t) = Collect(item, next, m)[c[1]]
  <2>1. http_headers(t) = Collect(item, next, m)[1] BY DEF http_headers
  <2>2. c[1] = 1 BY <1>1 DEF First
  <2>3. QED BY <2>1, <2>2
<1> DEFINE http == http_headers(t)
<1>9. http = [k \in 1..n |-> item[c[k]]]
  <2> HIDE DEF c, n, item, next, m
  <2>1. Collect(item, next, m)[c[1]] = [k \in 1..n |-> item[c[k]]]
    BY <1>1, <1>2, <1>4, <1>7, CollectAlong
  <2>2. QED BY <2>1, <1>8
<1>10. \A k \in 1..n : item[c[k]] = field(k) BY <1>5 DEF First
<1>11. Fields(t) = [k \in 1..n |-> <<name(k), value(k)>>] BY FieldsAre
<1> HIDE DEF c, n, item, next, m, http, name, value
<1>12. DOMAIN http = 1..n BY <1>9
<1>13. ASSUME NEW k \in 1..n PROVE http[k].name = name(k) /\ http[k].value = value(k)
  <2>1. http[k] = item[c[k]] BY <1>9
  <2>2. item[c[k]] = field(k) BY <1>10
  <2>3. QED BY <2>1, <2>2
<1>14. [k \in DOMAIN http |-> <<http[k].name, http[k].value>>] = Fields(t)
  BY <1>11, <1>12, <1>13
<1>15. QED BY <1>14 DEF http

----------------------------------------------------------------------------
(* The parts of a query string.                                                *)

\* What the character at i of a text stands for, and where the next one is.
Code(t, i) == IF t[i] = Percent THEN Hex(t[i + 1], t[i + 2]) ELSE t[i]
Behind(t, i) == IF t[i] = Percent THEN i + 3 ELSE i + 1

\* Each escape of a text is one, is whole and does not stand for a separator.
EscapesAreWhole(t) ==
  \A i \in DOMAIN t : t[i] = Percent =>
    /\ i + 2 <= Len(t) /\ IsHex(t[i + 1]) /\ IsHex(t[i + 2])
    /\ Hex(t[i + 1], t[i + 2]) \notin {Equals, Ampersand}

\* A separator and the character that begins an escape are no digits.
LEMMA HexIsNoSeparator == ~IsHex(Equals) /\ ~IsHex(Ampersand) /\ ~IsHex(Percent)
BY DEF IsHex, Digits, Equals, Ampersand, Percent

\* The loop of urlDecodeRewite, character by character.
LEMMA UrlSteps ==
  ASSUME NEW S, NEW t \in Seq(S)
  PROVE  /\ UrlState(t)[0] = [str |-> t, d |-> 1, next |-> 1, done |-> FALSE]
         /\ \A i \in 1..Len(t) : UrlState(t)[i] = UrlChar(t, UrlState(t)[i - 1], i)
<1> DEFINE init == [str |-> t, d |-> 1, next |-> 1, done |-> FALSE]
           E(f, i) == IF i = 0 THEN init ELSE UrlChar(t, f[i - 1], i)
           Solves(f, m) == f = [i \in 0..m |-> E(f, i)]
<1>1. Len(t) \in Nat OBVIOUS
<1>2. UrlState(t) = CHOOSE f : Solves(f, Len(t)) BY DEF UrlState
<1> HIDE DEF init
<1>3. \E f : Solves(f, Len(t))
  <2> DEFINE T == {m \in 0..Len(t) : \E f : Solves(f, m)}
  <2>1. 0 \in T
    <3> DEFINE f == [i \in 0..0 |-> init]
    <3>1. f = [i \in 0..0 |-> E(f, i)] OBVIOUS
    <3>2. 0 \in 0..Len(t) BY <1>1
    <3> HIDE DEF E, f
    <3>3. QED BY <3>1, <3>2
  <2>2. ASSUME NEW m \in 0 .. Len(t) - 1, m \in T PROVE m + 1 \in T
    <3>1. PICK f : f = [i \in 0..m |-> E(f, i)] BY <2>2
    <3> DEFINE g == [i \in 0 .. m + 1 |-> IF i = m + 1 THEN E(f, i) ELSE f[i]]
    <3>2. ASSUME NEW i \in 0 .. m + 1 PROVE g[i] = E(g, i)
      <4>1. CASE i = 0
        <5>1. g[0] = f[0] BY <1>1
        <5>2. f[0] = init BY <3>1
        <5>3. QED BY <4>1, <5>1, <5>2
      <4>2. CASE i # 0
        <5>1. i - 1 \in 0..m /\ i - 1 \in 0 .. m + 1 /\ i - 1 # m + 1 BY <4>2
        <5>2. g[i - 1] = f[i - 1] BY <5>1
        <5>3. g[i] = E(f, i)
          <6>1. CASE i = m + 1 BY <6>1
          <6>2. CASE i # m + 1
            <7>1. i \in 0..m BY <6>2
            <7>2. f[i] = E(f, i) BY <7>1, <3>1
            <7> HIDE DEF E
            <7>3. QED BY <7>2, <6>2
          <6>3. QED BY <6>1, <6>2
        <5> HIDE DEF g
        <5>4. QED BY <5>2, <5>3, <4>2
      <4>3. QED BY <4>1, <4>2
    <3>3. g = [i \in 0 .. m + 1 |-> g[i]] OBVIOUS
    <3> HIDE DEF g, E
    <3>4. g = [i \in 0 .. m + 1 |-> E(g, i)] BY <3>2, <3>3
    <3>5. m + 1 \in 0..Len(t) BY <1>1
    <3>6. QED BY <3>4, <3>5
  <2> HIDE DEF T
  <2>3. 0..Len(t) \subseteq T BY <2>1, <2>2, <1>1, Upwards
  <2>4. Len(t) \in T BY <2>3, <1>1
  <2>5. QED BY <2>4 DEF T
<1>4. Solves(UrlState(t), Len(t)) BY <1>2, <1>3
<1> DEFINE st == UrlState(t)
<1> HIDE DEF st
<1>5. st = [i \in 0..Len(t) |-> E(st, i)] BY <1>4 DEF st
<1>6. st[0] = init BY <1>5, <1>1
<1>7. ASSUME NEW i \in 1..Len(t) PROVE st[i] = UrlChar(t, st[i - 1], i) BY <1>5, <1>1
<1>8. QED BY <1>6, <1>7 DEF st, init

\* A state of the loop of urlDecodeRewite.
IsUrl(s) == s = [str |-> s.str, d |-> s.d, next |-> s.next, done |-> s.done]

\* What a character does.
UrlCharDoes(t, i, s, r) ==
  /\ i < s.next => r = s
  /\ ~(i < s.next) =>
       r = [str |-> [s.str EXCEPT ![s.d] = Code(t, i)], d |-> s.d + 1,
            next |-> IF t[i] = Percent THEN i + 3 ELSE s.next, done |-> FALSE]

LEMMA UrlCharIs ==
  ASSUME NEW S, NEW t \in Seq(S), EscapesAreWhole(t), NEW i \in 1..Len(t), NEW s, IsUrl(s),
         s.next \in Nat, s.done = FALSE
  PROVE  UrlCharDoes(t, i, s, UrlChar(t, s, i))
<1> DEFINE D == {"str", "d", "next", "done"}  code == Code(t, i)
           next == IF t[i] = Percent THEN i + 3 ELSE s.next
           r == [str |-> [s.str EXCEPT ![s.d] = code], d |-> s.d + 1, next |-> next, done |-> FALSE]
<1>1. i < s.next => UrlChar(t, s, i) = s BY DEF UrlChar
<1>2. DOMAIN s = D BY DEF IsUrl
<1>3. ASSUME ~(i < s.next), t[i] # Percent PROVE UrlChar(t, s, i) = r
  <2>1. UrlChar(t, s, i) = [s EXCEPT !.str[s.d] = t[i], !.d = @ + 1] BY <1>3 DEF UrlChar
  <2>2. PICK q : q = [s EXCEPT !.str[s.d] = t[i], !.d = @ + 1] OBVIOUS
  <2>3. DOMAIN q = D BY <1>2, <2>2
  <2>4. /\ q.str = [s.str EXCEPT ![s.d] = t[i]] /\ q.d = s.d + 1 /\ q.next = s.next
        /\ q.done = FALSE
    BY <1>2, <2>2
  <2>5. code = t[i] /\ next = s.next BY <1>3 DEF Code
  <2>6. q = [x \in D |-> q[x]] BY <2>2, <2>3
  <2> HIDE DEF code, next
  <2>7. q = r BY <2>4, <2>5, <2>6
  <2>8. QED BY <2>1, <2>2, <2>7
<1>4. ASSUME ~(i < s.next), t[i] = Percent PROVE UrlChar(t, s, i) = r
  <2>1. i + 2 <= Len(t) /\ IsHex(t[i + 1]) /\ IsHex(t[i + 2])
    <3>1. i \in DOMAIN t OBVIOUS
    <3>2. QED BY <3>1, <1>4 DEF EscapesAreWhole
  <2> DEFINE hex == Hex(t[i + 1], t[i + 2])
  <2>2. UrlChar(t, s, i) = [s EXCEPT !.str[s.d] = hex, !.d = @ + 1, !.next = i + 3]
    <3>1. Len(t) \in Nat /\ i \in Nat OBVIOUS
    <3>2. ~(i + 2 > Len(t)) BY <2>1, <3>1
    <3>3. QED BY <1>4, <2>1, <3>2 DEF UrlChar, EscapeSize
  <2> HIDE DEF hex
  <2>3. PICK q : q = [s EXCEPT !.str[s.d] = hex, !.d = @ + 1, !.next = i + 3] OBVIOUS
  <2>4. DOMAIN q = D BY <1>2, <2>3
  <2>5. /\ q.str = [s.str EXCEPT ![s.d] = hex] /\ q.d = s.d + 1 /\ q.next = i + 3
        /\ q.done = FALSE
    BY <1>2, <2>3
  <2>6. code = hex /\ next = i + 3 BY <1>4 DEF Code, hex
  <2>7. q = [x \in D |-> q[x]] BY <2>3, <2>4
  <2> HIDE DEF code, next
  <2>8. q = r BY <2>5, <2>6, <2>7
  <2>9. QED BY <2>2, <2>3, <2>8
<1> HIDE DEF D
<1>5. QED BY <1>1, <1>3, <1>4 DEF UrlCharDoes

\* Behind the first i characters: a - 1 are behind a, and a begins where an escape or another
\* character begins, which is written at Written(t, a).
Begins(t, a) == UrlState(t)[a - 1].next <= a
Written(t, a) == UrlState(t)[a - 1].d

\* The state of the loop behind i characters: the rest of an escape is digits, every
\* character that has begun is written at its place, and nothing else is written.
Codes(t) == {t[i] : i \in DOMAIN t} \cup {Code(t, i) : i \in DOMAIN t}
UrlInv(t, i, s) ==
  /\ IsUrl(s) /\ s.done = FALSE
  /\ s.str \in [DOMAIN t -> Codes(t)] /\ s.d \in 1 .. i + 1 /\ s.next \in 1 .. Len(t) + 1
  /\ \A j \in i + 1 .. s.next - 1 : IsHex(t[j])
  /\ \A a \in 1..i : Begins(t, a) =>
       Written(t, a) \in 1 .. s.d - 1 /\ s.str[Written(t, a)] = Code(t, a)
  /\ \A q \in 1 .. s.d - 1 : \E a \in 1..i : Begins(t, a) /\ Written(t, a) = q

LEMMA UrlInvStep ==
  ASSUME NEW S, NEW t \in Seq(S), EscapesAreWhole(t), NEW i \in 1..Len(t),
         UrlInv(t, i - 1, UrlState(t)[i - 1])
  PROVE  UrlInv(t, i, UrlState(t)[i])
<1> DEFINE s == UrlState(t)[i - 1]  r == UrlState(t)[i]
<1>1. Len(t) \in Nat /\ i \in Nat /\ DOMAIN t = 1..Len(t) OBVIOUS
<1>2. (Begins(t, i) <=> s.next <= i) /\ Written(t, i) = s.d BY DEF Begins, Written
<1>3. r = UrlChar(t, s, i) BY UrlSteps
<1> HIDE DEF s, r
<1>4. /\ IsUrl(s) /\ s.done = FALSE
      /\ s.str \in [DOMAIN t -> Codes(t)] /\ s.d \in 1..i /\ s.next \in 1 .. Len(t) + 1
      /\ \A j \in i .. s.next - 1 : IsHex(t[j])
      /\ \A a \in 1 .. i - 1 : Begins(t, a) =>
           Written(t, a) \in 1 .. s.d - 1 /\ s.str[Written(t, a)] = Code(t, a)
      /\ \A q \in 1 .. s.d - 1 : \E a \in 1 .. i - 1 : Begins(t, a) /\ Written(t, a) = q
  <2>1. UrlInv(t, i - 1, s) BY DEF s
  <2>2. (i - 1) + 1 = i BY <1>1
  <2>3. QED BY <2>1, <2>2 DEF UrlInv
<1>5. s.d \in Nat /\ s.next \in Nat BY <1>1, <1>4
<1>6. UrlCharDoes(t, i, s, r) BY <1>3, <1>4, <1>5, UrlCharIs
<1>7. CASE i < s.next
  <2>1. r = s BY <1>6, <1>7 DEF UrlCharDoes
  <2>2. ~Begins(t, i) BY <1>1, <1>2, <1>5, <1>7
  <2>3. \A j \in i + 1 .. s.next - 1 : IsHex(t[j])
    <3> SUFFICES ASSUME NEW j \in i + 1 .. s.next - 1 PROVE IsHex(t[j]) OBVIOUS
    <3>1. j \in i .. s.next - 1 BY <1>1, <1>5
    <3>2. QED BY <3>1, <1>4
  <2>4. \A a \in 1..i : Begins(t, a) =>
          Written(t, a) \in 1 .. s.d - 1 /\ s.str[Written(t, a)] = Code(t, a)
    <3> SUFFICES ASSUME NEW a \in 1..i, Begins(t, a)
                 PROVE  Written(t, a) \in 1 .. s.d - 1 /\ s.str[Written(t, a)] = Code(t, a)
      OBVIOUS
    <3>1. a \in 1 .. i - 1 BY <1>1, <2>2
    <3>2. QED BY <3>1, <1>4
  <2>5. \A q \in 1 .. s.d - 1 : \E a \in 1..i : Begins(t, a) /\ Written(t, a) = q
    <3> SUFFICES ASSUME NEW q \in 1 .. s.d - 1
                 PROVE  \E a \in 1..i : Begins(t, a) /\ Written(t, a) = q
      OBVIOUS
    <3>1. PICK a \in 1 .. i - 1 : Begins(t, a) /\ Written(t, a) = q BY <1>4
    <3>2. a \in 1..i BY <1>1
    <3>3. QED BY <3>1, <3>2
  <2>6. s.d \in 1 .. i + 1 BY <1>1, <1>4
  <2>7. UrlInv(t, i, s) BY <1>4, <2>3, <2>4, <2>5, <2>6 DEF UrlInv
  <2>8. QED BY <2>1, <2>7 DEF r
<1>8. CASE ~(i < s.next)
  <2> DEFINE str == [s.str EXCEPT ![s.d] = Code(t, i)]
             next == IF t[i] = Percent THEN i + 3 ELSE s.next
  <2>1. r = [str |-> str, d |-> s.d + 1, next |-> next, done |-> FALSE]
    BY <1>6, <1>8 DEF UrlCharDoes
  <2>2. i \in DOMAIN t /\ s.d \in DOMAIN t BY <1>1, <1>4
  <2>3. str \in [DOMAIN t -> Codes(t)] /\ str[s.d] = Code(t, i)
        /\ \A q \in 1 .. s.d - 1 : str[q] = s.str[q]
    <3>1. Code(t, i) \in Codes(t) BY <2>2 DEF Codes
    <3>2. \A q \in 1 .. s.d - 1 : q \in DOMAIN t /\ q # s.d BY <1>1, <1>4
    <3>3. QED BY <3>1, <3>2, <2>2, <1>4
  <2>4. next \in 1 .. Len(t) + 1 /\ \A j \in i + 1 .. next - 1 : IsHex(t[j])
    <3>1. CASE t[i] = Percent
      <4>1. i + 2 <= Len(t) /\ IsHex(t[i + 1]) /\ IsHex(t[i + 2])
        BY <2>2, <3>1 DEF EscapesAreWhole
      <4>2. next = i + 3 BY <3>1
      <4> HIDE DEF next
      <4>3. \A j \in i + 1 .. next - 1 : j = i + 1 \/ j = i + 2 BY <4>2, <1>1
      <4>4. QED BY <4>1, <4>2, <4>3, <1>1
    <3>2. CASE t[i] # Percent
      <4>1. next = s.next BY <3>2
      <4> HIDE DEF next
      <4>2. \A j \in i + 1 .. next - 1 : FALSE BY <4>1, <1>1, <1>5, <1>8
      <4>3. QED BY <4>1, <4>2, <1>4
    <3>3. QED BY <3>1, <3>2
  <2>5. Begins(t, i) BY <1>1, <1>2, <1>5, <1>8
  <2> HIDE DEF str, next
  <2>6. r.str = str /\ r.d = s.d + 1 /\ r.next = next /\ r.done = FALSE BY <2>1
  <2>7. IsUrl(r) BY <2>1, <2>6 DEF IsUrl
  <2>8. r.d - 1 = s.d /\ r.d \in 1 .. i + 1 BY <2>6, <1>1, <1>4, <1>5
  <2>9. ASSUME NEW a \in 1..i, Begins(t, a)
        PROVE  Written(t, a) \in 1 .. r.d - 1 /\ r.str[Written(t, a)] = Code(t, a)
    <3>1. CASE a = i
      <4>1. Written(t, a) = s.d BY <1>2, <3>1
      <4>2. s.d \in 1 .. r.d - 1 BY <2>8, <1>4
      <4>3. QED BY <4>1, <4>2, <3>1, <2>3, <2>6
    <3>2. CASE a # i
      <4>1. a \in 1 .. i - 1 BY <1>1, <3>2
      <4>2. Written(t, a) \in 1 .. s.d - 1 /\ s.str[Written(t, a)] = Code(t, a)
        BY <4>1, <2>9, <1>4
      <4>3. Written(t, a) \in 1 .. r.d - 1 BY <4>2, <2>8, <1>5
      <4>4. QED BY <4>2, <4>3, <2>3, <2>6
    <3>3. QED BY <3>1, <3>2
  <2>10. ASSUME NEW q \in 1 .. r.d - 1 PROVE \E a \in 1..i : Begins(t, a) /\ Written(t, a) = q
    <3>1. CASE q = s.d
      <4>1. i \in 1..i /\ Written(t, i) = q BY <1>1, <1>2, <3>1
      <4>2. QED BY <4>1, <2>5
    <3>2. CASE q # s.d
      <4>1. q \in 1 .. s.d - 1 BY <2>8, <1>5, <3>2
      <4>2. PICK a \in 1 .. i - 1 : Begins(t, a) /\ Written(t, a) = q BY <4>1, <1>4
      <4>3. a \in 1..i BY <1>1
      <4>4. QED BY <4>2, <4>3
    <3>3. QED BY <3>1, <3>2
  <2>11. UrlInv(t, i, r) BY <2>3, <2>4, <2>6, <2>7, <2>8, <2>9, <2>10 DEF UrlInv
  <2>12. QED BY <2>11 DEF r
<1>9. QED BY <1>7, <1>8

\* It is so all along.
LEMMA UrlInvHolds ==
  ASSUME NEW S, NEW t \in Seq(S), EscapesAreWhole(t), NEW i \in 0..Len(t)
  PROVE  UrlInv(t, i, UrlState(t)[i])
<1> DEFINE T == {k \in 0..Len(t) : UrlInv(t, k, UrlState(t)[k])}
<1>1. Len(t) \in Nat /\ DOMAIN t = 1..Len(t) OBVIOUS
<1>2. 0 \in T
  <2> DEFINE s == UrlState(t)[0]
  <2>1. s = [str |-> t, d |-> 1, next |-> 1, done |-> FALSE] BY UrlSteps
  <2> HIDE DEF s
  <2>2. s.str = t /\ s.d = 1 /\ s.next = 1 /\ s.done = FALSE BY <2>1
  <2>3. IsUrl(s) BY <2>1, <2>2 DEF IsUrl
  <2>4. t \in [DOMAIN t -> Codes(t)] BY DEF Codes
  <2>5. 1 \in 1 .. 0 + 1 /\ 1 \in 1 .. Len(t) + 1 BY <1>1
  <2>6. UrlInv(t, 0, s) BY <2>2, <2>3, <2>4, <2>5 DEF UrlInv
  <2>7. 0 \in 0..Len(t) BY <1>1
  <2>8. QED BY <2>6, <2>7 DEF s
<1>3. ASSUME NEW k \in 0 .. Len(t) - 1, k \in T PROVE k + 1 \in T
  <2>1. k + 1 \in 1..Len(t) /\ (k + 1) - 1 = k /\ k + 1 \in 0..Len(t) BY <1>1
  <2>2. UrlInv(t, k, UrlState(t)[k]) BY <1>3
  <2>3. UrlInv(t, k + 1, UrlState(t)[k + 1]) BY <2>1, <2>2, UrlInvStep
  <2>4. QED BY <2>1, <2>3
<1> HIDE DEF T
<1>4. 0..Len(t) \subseteq T BY <1>1, <1>2, <1>3, Upwards
<1>5. QED BY <1>4 DEF T

\* How the places in a text and those in the decoded text belong together.
UrlPlaces(t, D) ==
  LET n == Len(t)
  IN /\ Begins(t, 1) /\ Written(t, 1) = 1 /\ Begins(t, n + 1) /\ Written(t, n + 1) = Len(D) + 1
     /\ \A a \in 1..n : ~IsHex(t[a]) => Begins(t, a)
     /\ \A a \in 1 .. n + 1 : Begins(t, a) => Written(t, a) \in Nat /\ Written(t, a) >= 1
     /\ \A a, b \in 1 .. n + 1 :
          Begins(t, a) /\ Begins(t, b) /\ a < b => Written(t, a) < Written(t, b)
     /\ \A a \in 1..n : Begins(t, a) =>
          /\ Behind(t, a) \in a + 1 .. n + 1 /\ Begins(t, Behind(t, a))
          /\ Written(t, Behind(t, a)) = Written(t, a) + 1
          /\ Written(t, a) \in 1..Len(D) /\ D[Written(t, a)] = Code(t, a)
     /\ \A q \in 1..Len(D) : \E a \in 1..n : Begins(t, a) /\ Written(t, a) = q

\* A character that is written is the only one until the next begins.
LEMMA UrlBehind ==
  ASSUME NEW S, NEW t \in Seq(S), EscapesAreWhole(t), NEW a \in 1..Len(t), Begins(t, a)
  PROVE  /\ Behind(t, a) \in a + 1 .. Len(t) + 1 /\ Begins(t, Behind(t, a))
         /\ Written(t, Behind(t, a)) = Written(t, a) + 1
<1> DEFINE st == UrlState(t)
<1>1. Len(t) \in Nat /\ a \in Nat /\ a \in DOMAIN t OBVIOUS
<1>2. \A i \in 0..Len(t) : UrlInv(t, i, st[i]) BY UrlInvHolds
<1>3. \A i \in 1..Len(t) : st[i] = UrlChar(t, st[i - 1], i) BY UrlSteps
<1>4. st[a - 1].next <= a /\ Written(t, a) = st[a - 1].d BY DEF Begins, Written
<1>5. \A b : (Begins(t, b) <=> st[b - 1].next <= b) /\ Written(t, b) = st[b - 1].d
  BY DEF Begins, Written
<1> HIDE DEF st
<1>6. \A i \in 1..Len(t) : UrlCharDoes(t, i, st[i - 1], st[i])
  <2> SUFFICES ASSUME NEW i \in 1..Len(t) PROVE UrlCharDoes(t, i, st[i - 1], st[i]) OBVIOUS
  <2>1. i - 1 \in 0..Len(t) BY <1>1
  <2>2. IsUrl(st[i - 1]) /\ st[i - 1].done = FALSE /\ st[i - 1].next \in Nat
    BY <2>1, <1>2 DEF UrlInv
  <2>3. UrlCharDoes(t, i, st[i - 1], UrlChar(t, st[i - 1], i)) BY <2>2, UrlCharIs
  <2>4. QED BY <2>3, <1>3
<1> DEFINE s == st[a - 1]  r == st[a]
<1>7. s.d \in Nat /\ s.next \in Nat
  <2>1. a - 1 \in 0..Len(t) BY <1>1
  <2>2. s.d \in 1 .. (a - 1) + 1 /\ s.next \in 1 .. Len(t) + 1 BY <2>1, <1>2 DEF UrlInv
  <2>3. QED BY <2>2, <1>1
<1>8. r = [str |-> [s.str EXCEPT ![s.d] = Code(t, a)], d |-> s.d + 1,
           next |-> IF t[a] = Percent THEN a + 3 ELSE s.next, done |-> FALSE]
  <2>1. UrlCharDoes(t, a, s, r) BY <1>6
  <2>2. ~(a < s.next) BY <1>1, <1>4, <1>7
  <2>3. QED BY <2>1, <2>2 DEF UrlCharDoes
<1> HIDE DEF s
<1>9. r.d = s.d + 1 /\ r.next = IF t[a] = Percent THEN a + 3 ELSE s.next BY <1>8
<1>10. CASE t[a] = Percent
  <2>1. a + 2 <= Len(t) BY <1>1, <1>10 DEF EscapesAreWhole
  <2>2. Behind(t, a) = a + 3 BY <1>10 DEF Behind
  <2>3. a + 1 \in 1..Len(t) /\ (a + 1) - 1 = a /\ a + 2 \in 1..Len(t) /\ (a + 2) - 1 = a + 1
    BY <1>1, <2>1
  <2>4. st[a + 1] = r
    <3>1. UrlCharDoes(t, a + 1, r, st[a + 1]) BY <1>6, <2>3
    <3>2. a + 1 < r.next BY <1>1, <1>9, <1>10
    <3>3. QED BY <3>1, <3>2 DEF UrlCharDoes
  <2>5. st[a + 2] = r
    <3>1. UrlCharDoes(t, a + 2, r, st[a + 2]) BY <1>6, <2>3, <2>4
    <3>2. a + 2 < r.next BY <1>1, <1>9, <1>10
    <3>3. QED BY <3>1, <3>2 DEF UrlCharDoes
  <2> HIDE DEF r
  <2>6. (a + 3) - 1 = a + 2 BY <1>1
  <2>7. Written(t, a + 3) = r.d BY <1>5, <2>5, <2>6
  <2>8. Begins(t, a + 3)
    <3>1. st[(a + 3) - 1].next = a + 3 BY <2>5, <2>6, <1>9, <1>10
    <3>2. a + 3 <= a + 3 BY <1>1
    <3>3. QED BY <3>1, <3>2, <1>5
  <2>9. a + 3 \in a + 1 .. Len(t) + 1 BY <1>1, <2>1
  <2>10. QED BY <2>2, <2>7, <2>8, <2>9, <1>4, <1>9 DEF s
<1>11. CASE t[a] # Percent
  <2>1. Behind(t, a) = a + 1 BY <1>11 DEF Behind
  <2>2. (a + 1) - 1 = a BY <1>1
  <2>3. r.next = s.next BY <1>9, <1>11
  <2>4. Begins(t, a + 1)
    <3>1. s.next <= a + 1 BY <1>1, <1>4, <1>7 DEF s
    <3>2. st[(a + 1) - 1].next = s.next BY <2>2, <2>3
    <3>3. QED BY <3>1, <3>2, <1>5
  <2>5. Written(t, a + 1) = r.d BY <1>5, <2>2
  <2>6. a + 1 \in a + 1 .. Len(t) + 1 BY <1>1
  <2>7. QED BY <2>1, <2>4, <2>5, <2>6, <1>4, <1>9 DEF s
<1>12. QED BY <1>10, <1>11

\* What urlDecodeRewite gives, place by place.
LEMMA UrlDecoded ==
  ASSUME NEW S, NEW t \in Seq(S), EscapesAreWhole(t)
  PROVE  urlDecodeRewite(t) \in Seq(Codes(t)) /\ UrlPlaces(t, urlDecodeRewite(t))
<1> DEFINE st == UrlState(t)  n == Len(t)  s == st[n]  D == urlDecodeRewite(t)
<1>1. n \in Nat /\ DOMAIN t = 1..n OBVIOUS
<1>2. \A i \in 0..n : UrlInv(t, i, st[i]) BY UrlInvHolds
<1>3. \A b : (Begins(t, b) <=> st[b - 1].next <= b) /\ Written(t, b) = st[b - 1].d
  BY DEF Begins, Written
<1>4. D = SubSeq(s.str, 1, s.d - 1) BY DEF urlDecodeRewite
<1>5. st[0] = [str |-> t, d |-> 1, next |-> 1, done |-> FALSE] BY UrlSteps
<1> HIDE DEF st, D, n
<1>6. UrlInv(t, n, s)
  <2>1. n \in 0..n BY <1>1
  <2>2. QED BY <2>1, <1>2
<1>7. /\ s.str \in [DOMAIN t -> Codes(t)] /\ s.d \in 1 .. n + 1 /\ s.next \in 1 .. n + 1
      /\ \A a \in 1..n : Begins(t, a) =>
           Written(t, a) \in 1 .. s.d - 1 /\ s.str[Written(t, a)] = Code(t, a)
      /\ \A q \in 1 .. s.d - 1 : \E a \in 1..n : Begins(t, a) /\ Written(t, a) = q
  BY <1>6 DEF UrlInv, n
<1> HIDE DEF s
<1>8. s.str \in Seq(Codes(t)) /\ Len(s.str) = n BY <1>1, <1>7
<1>9. D \in Seq(Codes(t)) /\ Len(D) = s.d - 1 /\ \A q \in 1 .. s.d - 1 : D[q] = s.str[q]
  <2>1. 1 \in 1 .. n + 1 /\ s.d - 1 \in 0..n BY <1>1, <1>7
  <2> DEFINE str == s.str  m == s.d - 1
  <2>2. str \in Seq(Codes(t)) /\ Len(str) = n /\ m \in 0..n BY <1>8, <2>1
  <2>3. D = SubSeq(str, 1, m) BY <1>4
  <2> HIDE DEF str, m
  <2>4. SubSeq(str, 1, m) \in Seq(Codes(t)) /\ Len(SubSeq(str, 1, m)) = m
        /\ \A q \in 1..m : SubSeq(str, 1, m)[q] = str[q]
    BY <2>2, <1>1
  <2>5. QED BY <2>3, <2>4 DEF str, m
<1>10. Begins(t, 1) /\ Written(t, 1) = 1
  <2>1. 1 - 1 = 0 /\ 1 <= 1 OBVIOUS
  <2>2. st[0].next = 1 /\ st[0].d = 1 BY <1>5
  <2>3. QED BY <2>1, <2>2, <1>3
<1>11. Begins(t, n + 1) /\ Written(t, n + 1) = Len(D) + 1
  <2>1. (n + 1) - 1 = n BY <1>1
  <2>2. s.next <= n + 1 /\ (s.d - 1) + 1 = s.d BY <1>1, <1>7
  <2>3. QED BY <2>1, <2>2, <1>3, <1>9 DEF s
<1>12. ASSUME NEW a \in 1..n, ~IsHex(t[a]) PROVE Begins(t, a)
  <2>1. a - 1 \in 0..n /\ (a - 1) + 1 = a /\ a \in Nat BY <1>1
  <2>2. UrlInv(t, a - 1, st[a - 1]) BY <1>2, <2>1
  <2>3. st[a - 1].next \in 1 .. n + 1 /\ \A j \in a .. st[a - 1].next - 1 : IsHex(t[j])
    BY <2>1, <2>2 DEF UrlInv, n
  <2>4. ~(a \in a .. st[a - 1].next - 1) BY <2>3, <1>12
  <2>5. st[a - 1].next <= a BY <2>1, <2>3, <2>4, <1>1
  <2>6. QED BY <2>5, <1>3
<1>13. ASSUME NEW b \in 1 .. n + 1
       PROVE  /\ Written(t, b) \in Nat /\ Written(t, b) >= 1
              /\ \A a \in 1 .. b - 1 : Begins(t, a) => Written(t, a) \in 1 .. Written(t, b) - 1
  <2>1. b - 1 \in 0..n /\ (b - 1) + 1 = b /\ b \in Nat BY <1>1
  <2>2. UrlInv(t, b - 1, st[b - 1]) BY <1>2, <2>1
  <2>3. /\ st[b - 1].d \in 1..b
        /\ \A a \in 1 .. b - 1 : Begins(t, a) => Written(t, a) \in 1 .. st[b - 1].d - 1
    BY <2>1, <2>2 DEF UrlInv
  <2>4. Written(t, b) = st[b - 1].d BY <1>3
  <2>5. QED BY <2>1, <2>3, <2>4
<1>14. ASSUME NEW a \in 1 .. n + 1, NEW b \in 1 .. n + 1, Begins(t, a), a < b
       PROVE  Written(t, a) < Written(t, b)
  <2>1. a \in 1 .. b - 1 BY <1>1, <1>14
  <2>2. Written(t, a) \in 1 .. Written(t, b) - 1 BY <2>1, <1>13, <1>14
  <2>3. Written(t, b) \in Nat BY <1>13
  <2>4. QED BY <2>2, <2>3
<1>15. ASSUME NEW a \in 1..n, Begins(t, a)
       PROVE  /\ Behind(t, a) \in a + 1 .. n + 1 /\ Begins(t, Behind(t, a))
              /\ Written(t, Behind(t, a)) = Written(t, a) + 1
              /\ Written(t, a) \in 1..Len(D) /\ D[Written(t, a)] = Code(t, a)
  <2>1. /\ Behind(t, a) \in a + 1 .. n + 1 /\ Begins(t, Behind(t, a))
        /\ Written(t, Behind(t, a)) = Written(t, a) + 1
    BY <1>15, UrlBehind DEF n
  <2>2. QED BY <2>1, <1>7, <1>9, <1>15
<1>16. UrlPlaces(t, D)
  <2>1. \A a \in 1 .. n + 1 : Begins(t, a) => Written(t, a) \in Nat /\ Written(t, a) >= 1
    BY <1>13
  <2>2. \A q \in 1..Len(D) : \E a \in 1..n : Begins(t, a) /\ Written(t, a) = q BY <1>7, <1>9
  <2>3. QED BY <1>10, <1>11, <1>12, <1>14, <1>15, <2>1, <2>2 DEF UrlPlaces, n
<1>17. QED BY <1>9, <1>16 DEF D

\* A separator is found in the decoded text where it is in the text itself.
LEMMA SeparatorDecoded ==
  ASSUME NEW S, NEW t \in Seq(S), EscapesAreWhole(t), NEW V, NEW D \in Seq(V), UrlPlaces(t, D),
         NEW c \in {Equals, Ampersand}, NEW a \in 1 .. Len(t) + 1, Begins(t, a),
         NEW f, f = Find(t, c, a)
  PROVE  f \in a .. Len(t) + 1 /\ Begins(t, f) /\ Find(D, c, Written(t, a)) = Written(t, f)
<1> DEFINE n == Len(t)  m == Len(D)
<1>1. n \in Nat /\ m \in Nat /\ DOMAIN t = 1..n /\ a \in Nat OBVIOUS
<1>2. /\ f \in Nat /\ f <= n + 1
      /\ f <= n => a <= f /\ t[f] = c
      /\ \A i \in a..n : i < f => t[i] # c
  BY <1>1, FindIs
<1>3. /\ Begins(t, n + 1) /\ Written(t, n + 1) = m + 1
      /\ \A x \in 1..n : ~IsHex(t[x]) => Begins(t, x)
      /\ \A x \in 1 .. n + 1 : Begins(t, x) => Written(t, x) \in Nat /\ Written(t, x) >= 1
      /\ \A x, y \in 1 .. n + 1 :
           Begins(t, x) /\ Begins(t, y) /\ x < y => Written(t, x) < Written(t, y)
      /\ \A x \in 1..n : Begins(t, x) =>
           Written(t, x) \in 1..m /\ D[Written(t, x)] = Code(t, x)
      /\ \A q \in 1..m : \E x \in 1..n : Begins(t, x) /\ Written(t, x) = q
  BY DEF UrlPlaces
<1>4. ~IsHex(c) /\ c # Percent
  <2>1. ~IsHex(c) BY HexIsNoSeparator
  <2>2. c # Percent BY DEF Equals, Ampersand, Percent
  <2>3. QED BY <2>1, <2>2
<1> HIDE DEF n, m
<1>5. f \in a .. n + 1 /\ f \in 1 .. n + 1
  <2>1. a \in 1 .. n + 1 BY DEF n
  <2>2. QED BY <2>1, <1>1, <1>2
<1>6. Begins(t, f)
  <2>1. CASE f = n + 1 BY <2>1, <1>3
  <2>2. CASE f # n + 1
    <3>1. f \in 1..n /\ t[f] = c BY <1>1, <1>2, <1>5, <2>2
    <3>2. QED BY <3>1, <1>3, <1>4
  <2>3. QED BY <2>1, <2>2
<1>7. Find(D, c, Written(t, a)) = Written(t, f)
  <2>1. a \in 1 .. n + 1 BY DEF n
  <2>2. Written(t, a) \in Nat /\ Written(t, f) \in Nat BY <2>1, <1>3, <1>5, <1>6
  <2>3. Written(t, a) <= Written(t, f)
    <3>1. CASE a = f BY <3>1, <2>2
    <3>2. CASE a # f
      <4>1. a < f BY <3>2, <1>1, <1>5
      <4>2. Written(t, a) < Written(t, f) BY <4>1, <2>1, <1>3, <1>5, <1>6
      <4>3. QED BY <4>2, <2>2
    <3>3. QED BY <3>1, <3>2
  <2>4. Written(t, f) <= m + 1
    <3>1. CASE f = n + 1 BY <3>1, <1>1, <1>3
    <3>2. CASE f # n + 1
      <4>1. f \in 1..n BY <3>2, <1>1, <1>5
      <4>2. Written(t, f) \in 1..m BY <4>1, <1>3, <1>6
      <4>3. QED BY <4>2, <1>1
    <3>3. QED BY <3>1, <3>2
  <2>5. Written(t, f) <= m => D[Written(t, f)] = c
    <3> SUFFICES ASSUME Written(t, f) <= m PROVE D[Written(t, f)] = c OBVIOUS
    <3>1. f # n + 1 BY <1>1, <1>3
    <3>2. f \in 1..n /\ t[f] = c BY <3>1, <1>1, <1>2, <1>5
    <3>3. Code(t, f) = c BY <3>2, <1>4 DEF Code
    <3>4. QED BY <3>2, <3>3, <1>3, <1>6
  <2>6. ASSUME NEW q \in Written(t, a) .. Written(t, f) - 1 PROVE D[q] # c
    <3>1. q \in 1..m /\ q \in Nat
      <4>1. Written(t, a) >= 1 BY <2>1, <1>3
      <4>2. QED BY <4>1, <2>2, <2>4, <1>1
    <3>2. PICK x \in 1..n : Begins(t, x) /\ Written(t, x) = q BY <3>1, <1>3
    <3>3. x \in 1 .. n + 1 /\ x \in Nat BY <1>1
    <3>4. ~(x < a)
      <4> SUFFICES ASSUME x < a PROVE FALSE OBVIOUS
      <4>1. Written(t, x) < Written(t, a) BY <3>2, <3>3, <2>1, <1>3
      <4>2. QED BY <4>1, <3>1, <3>2, <2>2
    <3>5. ~(f < x) /\ f # x
      <4>1. f # x BY <3>1, <3>2, <2>2
      <4>2. ASSUME f < x PROVE FALSE
        <5>1. Written(t, f) < Written(t, x) BY <4>2, <3>2, <3>3, <1>3, <1>5, <1>6
        <5>2. QED BY <5>1, <3>1, <3>2, <2>2
      <4>3. QED BY <4>1, <4>2
    <3>6. x \in a..n /\ x < f BY <3>3, <3>4, <3>5, <1>1, <1>5
    <3>7. t[x] # c BY <3>6, <1>2 DEF n
    <3>8. D[q] = Code(t, x) BY <3>2, <1>3
    <3>9. Code(t, x) # c
      <4>1. CASE t[x] = Percent
        <5>1. Hex(t[x + 1], t[x + 2]) \notin {Equals, Ampersand}
          BY <4>1, <1>1 DEF EscapesAreWhole, n
        <5>2. QED BY <4>1, <5>1 DEF Code
      <4>2. CASE t[x] # Percent BY <4>2, <3>7 DEF Code
      <4>3. QED BY <4>1, <4>2
    <3>10. QED BY <3>8, <3>9
  <2>7. QED BY <2>2, <2>3, <2>4, <2>5, <2>6, FindAt DEF m
<1>8. QED BY <1>5, <1>6, <1>7 DEF n

\* A stretch of the decoded text is what the characters stand for.
LEMMA StretchDecoded ==
  ASSUME NEW S, NEW t \in Seq(S), NEW V, NEW D \in Seq(V), UrlPlaces(t, D),
         NEW a \in 1 .. Len(t) + 1, NEW b \in 1 .. Len(t) + 1, Begins(t, a), Begins(t, b), a <= b
  PROVE  SubSeq(D, Written(t, a), Written(t, b) - 1) = Decoded(t, a, b)
<1> DEFINE n == Len(t)  from == Written(t, a)  m == Written(t, b) - from
           item == [i \in a .. b - 1 |-> IF t[i] = Percent THEN Hex(t[i + 1], t[i + 2]) ELSE t[i]]
           next == [i \in a .. b - 1 |-> IF t[i] = Percent THEN i + 3 ELSE i + 1]
           At(x, k) == Begins(t, x) /\ Written(t, x) = from + (k - 1)
           c == [k \in 1 .. m + 1 |-> CHOOSE x \in 1 .. n + 1 : At(x, k)]
<1>1. n \in Nat /\ Len(D) \in Nat /\ a \in Nat /\ b \in Nat OBVIOUS
<1>2. /\ Written(t, n + 1) = Len(D) + 1 /\ Begins(t, n + 1)
      /\ \A x \in 1 .. n + 1 : Begins(t, x) => Written(t, x) \in Nat /\ Written(t, x) >= 1
      /\ \A x, y \in 1 .. n + 1 :
           Begins(t, x) /\ Begins(t, y) /\ x < y => Written(t, x) < Written(t, y)
      /\ \A x \in 1..n : Begins(t, x) =>
           /\ Behind(t, x) \in x + 1 .. n + 1 /\ Begins(t, Behind(t, x))
           /\ Written(t, Behind(t, x)) = Written(t, x) + 1
           /\ Written(t, x) \in 1..Len(D) /\ D[Written(t, x)] = Code(t, x)
      /\ \A q \in 1..Len(D) : \E x \in 1..n : Begins(t, x) /\ Written(t, x) = q
  BY DEF UrlPlaces
<1>3. Decoded(t, a, b) = Collect(item, next, b + 2)[a] BY DEF Decoded
<1>4. a \in 1 .. n + 1 /\ b \in 1 .. n + 1 /\ Begins(t, a) /\ Begins(t, b) OBVIOUS
<1>5. \A i \in a .. b - 1 : item[i] = Code(t, i) /\ next[i] = Behind(t, i) BY DEF Code, Behind
<1>6. DOMAIN item = a .. b - 1 /\ DOMAIN next = a .. b - 1 OBVIOUS
<1> HIDE DEF n, item, next
<1>7. \A x, y \in 1 .. n + 1 : Begins(t, x) /\ Begins(t, y) /\ Written(t, x) = Written(t, y) => x = y
  <2> SUFFICES ASSUME NEW x \in 1 .. n + 1, NEW y \in 1 .. n + 1, Begins(t, x), Begins(t, y),
                      Written(t, x) = Written(t, y), x # y
               PROVE  FALSE
    OBVIOUS
  <2>1. Written(t, x) \in Nat /\ Written(t, y) \in Nat BY <1>2
  <2>2. x < y \/ y < x BY <1>1
  <2>3. Written(t, x) < Written(t, y) \/ Written(t, y) < Written(t, x) BY <1>2, <2>2
  <2>4. QED BY <2>1, <2>3
<1>8. from \in Nat /\ from >= 1 /\ m \in Nat /\ from + m = Written(t, b) /\ Written(t, b) <= Len(D) + 1
  <2>1. from \in Nat /\ from >= 1 /\ Written(t, b) \in Nat BY <1>2, <1>4
  <2>2. from <= Written(t, b)
    <3>1. CASE a = b BY <3>1, <2>1
    <3>2. CASE a # b
      <4>1. a < b BY <3>2, <1>1
      <4>2. from < Written(t, b) BY <4>1, <1>2, <1>4
      <4>3. QED BY <4>2, <2>1
    <3>3. QED BY <3>1, <3>2
  <2>3. Written(t, b) <= Len(D) + 1
    <3>1. CASE b = n + 1 BY <3>1, <1>1, <1>2
    <3>2. CASE b # n + 1
      <4>1. b \in 1..n BY <3>2, <1>1, <1>4
      <4>2. Written(t, b) \in 1..Len(D) BY <4>1, <1>2, <1>4
      <4>3. QED BY <4>2, <1>1
    <3>3. QED BY <3>1, <3>2
  <2> HIDE DEF from
  <2>4. QED BY <2>1, <2>2, <2>3
<1> HIDE DEF from, m
<1>9. ASSUME NEW k \in 1 .. m + 1 PROVE c[k] \in 1 .. n + 1 /\ At(c[k], k)
  <2>1. \E x \in 1 .. n + 1 : At(x, k)
    <3>1. CASE k = m + 1
      <4>1. from + (k - 1) = Written(t, b) BY <3>1, <1>8
      <4>2. QED BY <4>1, <1>4
    <3>2. CASE k # m + 1
      <4>1. from + (k - 1) \in 1..Len(D) BY <3>2, <1>1, <1>8
      <4>2. PICK x \in 1..n : Begins(t, x) /\ Written(t, x) = from + (k - 1) BY <4>1, <1>2
      <4>3. x \in 1 .. n + 1 BY <1>1
      <4>4. QED BY <4>2, <4>3
    <3>3. QED BY <3>1, <3>2
  <2>2. c[k] = CHOOSE x \in 1 .. n + 1 : At(x, k) OBVIOUS
  <2> HIDE DEF c, At
  <2>3. QED BY <2>1, <2>2
<1>10. c[1] = a
  <2>1. 1 \in 1 .. m + 1 /\ from + (1 - 1) = from BY <1>8
  <2>2. c[1] \in 1 .. n + 1 /\ Begins(t, c[1]) /\ Written(t, c[1]) = from BY <2>1, <1>9
  <2> HIDE DEF c
  <2>3. QED BY <2>2, <1>4, <1>7 DEF from
<1>11. c[m + 1] = b
  <2>1. m + 1 \in 1 .. m + 1 /\ from + ((m + 1) - 1) = Written(t, b) BY <1>8
  <2>2. c[m + 1] \in 1 .. n + 1 /\ Begins(t, c[m + 1]) /\ Written(t, c[m + 1]) = Written(t, b)
    BY <2>1, <1>9
  <2> HIDE DEF c
  <2>3. QED BY <2>2, <1>4, <1>7
<1>12. ASSUME NEW k \in 1..m
       PROVE  c[k] \in a .. b - 1 /\ c[k + 1] = Behind(t, c[k]) /\ D[from + (k - 1)] = Code(t, c[k])
  <2>1. k \in 1 .. m + 1 /\ k + 1 \in 1 .. m + 1 /\ (k + 1) - 1 = (k - 1) + 1 /\ k \in Nat BY <1>8
  <2> DEFINE x == c[k]  y == c[k + 1]
  <2>2. x \in 1 .. n + 1 /\ Begins(t, x) /\ Written(t, x) = from + (k - 1) BY <2>1, <1>9
  <2>3. y \in 1 .. n + 1 /\ Begins(t, y) /\ Written(t, y) = from + ((k + 1) - 1) BY <2>1, <1>9
  <2> HIDE DEF x, y
  <2>4. from <= Written(t, x) /\ Written(t, x) < Written(t, b) BY <2>1, <2>2, <1>8
  <2>5. ~(x < a) /\ ~(b <= x)
    <3>1. ASSUME x < a PROVE FALSE
      <4>1. Written(t, x) < from BY <3>1, <2>2, <1>2, <1>4 DEF from
      <4>2. QED BY <4>1, <2>1, <2>2, <2>4, <1>8
    <3>2. ASSUME b <= x PROVE FALSE
      <4>1. b = x \/ b < x BY <3>2, <2>2, <1>1
      <4>2. b = x \/ Written(t, b) < Written(t, x) BY <4>1, <2>2, <1>2, <1>4
      <4>3. QED BY <4>2, <2>1, <2>2, <2>4, <1>8
    <3>3. QED BY <3>1, <3>2
  <2>6. x \in a .. b - 1 /\ x \in 1..n BY <2>2, <2>5, <1>1, <1>4
  <2>7. /\ Behind(t, x) \in 1 .. n + 1 /\ Begins(t, Behind(t, x))
        /\ Written(t, Behind(t, x)) = Written(t, x) + 1 /\ D[Written(t, x)] = Code(t, x)
    <3>1. /\ Behind(t, x) \in x + 1 .. n + 1 /\ Begins(t, Behind(t, x))
          /\ Written(t, Behind(t, x)) = Written(t, x) + 1 /\ D[Written(t, x)] = Code(t, x)
      BY <2>2, <2>6, <1>2
    <3>2. QED BY <3>1, <2>2, <1>1
  <2>8. Written(t, y) = Written(t, x) + 1 BY <2>1, <2>2, <2>3, <1>8
  <2>9. y = Behind(t, x) BY <2>3, <2>7, <2>8, <1>7
  <2>10. QED BY <2>2, <2>6, <2>7, <2>9 DEF x, y
<1> HIDE DEF c
<1>13. Forward(item, next, b + 2)
  <2> SUFFICES ASSUME NEW p \in a .. b - 1 PROVE p \in 1 .. b + 2 /\ next[p] \in p + 1 .. b + 2
    BY <1>6 DEF Forward
  <2>1. p \in Nat /\ p >= 1 /\ p <= b - 1 BY <1>1, <1>4
  <2>2. next[p] = p + 3 \/ next[p] = p + 1 BY <1>5 DEF Behind
  <2>3. QED BY <2>1, <2>2, <1>1
<1>14. GoesAlong(c, m, item, next, b + 2)
  <2>1. ASSUME NEW k \in 1 .. m + 1 PROVE c[k] \in 1 .. b + 2
    <3>1. CASE k = m + 1 BY <3>1, <1>1, <1>4, <1>11
    <3>2. CASE k # m + 1
      <4>1. k \in 1..m BY <3>2, <1>8
      <4>2. c[k] \in a .. b - 1 BY <4>1, <1>12
      <4>3. QED BY <4>2, <1>1, <1>4
    <3>3. QED BY <3>1, <3>2
  <2>2. \A k \in 1..m : c[k] \in DOMAIN item /\ c[k + 1] = next[c[k]] BY <1>5, <1>6, <1>12
  <2>3. c[m + 1] \notin DOMAIN item BY <1>1, <1>6, <1>11
  <2>4. QED BY <2>1, <2>2, <2>3 DEF GoesAlong
<1>15. Decoded(t, a, b) = [k \in 1..m |-> item[c[k]]]
  <2>1. b + 2 \in Nat BY <1>1
  <2>2. Collect(item, next, b + 2)[c[1]] = [k \in 1..m |-> item[c[k]]]
    BY <2>1, <1>8, <1>13, <1>14, CollectAlong
  <2>3. QED BY <2>2, <1>3, <1>10
<1>16. [k \in 1..m |-> item[c[k]]] = [k \in 1..m |-> D[from + (k - 1)]]
  <2>1. ASSUME NEW k \in 1..m PROVE item[c[k]] = D[from + (k - 1)] BY <1>5, <1>12
  <2>2. QED BY <2>1
<1>17. SubSeq(D, from, Written(t, b) - 1) = [k \in 1..m |-> D[from + (k - 1)]]
  <2> DEFINE s == SubSeq(D, from, Written(t, b) - 1)
             r == [k \in 1..m |-> D[from + (k - 1)]]  to == Written(t, b) - 1
  <2>1. to \in Int /\ from <= to + 1 /\ to <= Len(D) /\ m = (to + 1) - from BY <1>1, <1>8
  <2> HIDE DEF to
  <2>2. s \in Seq(V) /\ Len(s) = m /\ \A k \in 1..m : s[k] = D[from + (k - 1)]
    <3>1. /\ SubSeq(D, from, to) \in Seq(V)
          /\ Len(SubSeq(D, from, to)) = IF from <= to THEN to - from + 1 ELSE 0
          /\ \A k \in 1 .. to - from + 1 : SubSeq(D, from, to)[k] = D[from + k - 1]
      BY <2>1, <1>1, <1>8, SubSeqProperties
    <3>2. Len(SubSeq(D, from, to)) = m /\ to - from + 1 = m BY <3>1, <2>1, <1>8
    <3>3. \A k \in 1..m : from + k - 1 = from + (k - 1) BY <1>8
    <3>4. QED BY <3>1, <3>2, <3>3 DEF to
  <2>3. r \in Seq(V) /\ Len(r) = m /\ \A k \in 1..m : r[k] = D[from + (k - 1)]
    <3>1. ASSUME NEW k \in 1..m PROVE D[from + (k - 1)] \in V
      <4>1. from + (k - 1) \in 1..Len(D) BY <1>1, <1>8
      <4>2. QED BY <4>1, ElementOfSeq
    <3>2. QED BY <3>1, <1>8
  <2> HIDE DEF s, r
  <2>4. \A k \in 1..Len(s) : s[k] = r[k] BY <2>2, <2>3
  <2>5. s = r BY <2>2, <2>3, <2>4, SeqEqual, Zenon
  <2>6. QED BY <2>5 DEF s, r
<1>18. QED BY <1>15, <1>16, <1>17 DEF from

\* The parts of a query string: each begins where a character does, has a name and a value
\* and ends at a separator, the last one at the end.
PartIsPlaced(t, k) ==
  LET c == Parts(t)  p == c[k]  e == NameEnd(t, p)  v == ValueEnd(t, p)
  IN /\ p \in 1..Len(t) /\ Begins(t, p)
     /\ e \in p + 1 .. v - 2 /\ Begins(t, e) /\ Begins(t, e + 1)
     /\ Written(t, e + 1) = Written(t, e) + 1
     /\ v \in 1 .. Len(t) + 1 /\ Begins(t, v) /\ Find(t, Ampersand, e + 1) = v
     /\ k < Len(c) => c[k + 1] = v + 1 /\ v <= Len(t) /\ Written(t, v + 1) = Written(t, v) + 1
     /\ k = Len(c) => v = Len(t) + 1

LEMMA PartPlaces ==
  ASSUME NEW S, NEW t \in Seq(S), IsQuery(t), EscapesAreWhole(t), NEW D, UrlPlaces(t, D)
  PROVE  /\ Len(Parts(t)) \in Nat /\ Len(Parts(t)) >= 1 /\ Parts(t)[1] = 1
         /\ \A k \in 1..Len(Parts(t)) : PartIsPlaced(t, k)
<1> DEFINE n == Len(t)  P == 1 .. n + 1  next == [p \in P |-> Find(t, Ampersand, p) + 1]
           c == Parts(t)  m == Len(c)
<1>1. n \in Nat /\ n + 2 \in Nat /\ 1 \in P OBVIOUS
<1>2. /\ Begins(t, 1) /\ Begins(t, n + 1)
      /\ \A x \in 1..n : ~IsHex(t[x]) => Begins(t, x)
      /\ \A x \in 1..n : Begins(t, x) =>
           Begins(t, Behind(t, x)) /\ Written(t, Behind(t, x)) = Written(t, x) + 1
  BY DEF UrlPlaces
<1>3. \A p \in P : /\ next[p] = ValueEnd(t, p) + 1
                   /\ ValueEnd(t, p) \in p .. n + 1
                   /\ ValueEnd(t, p) <= n => t[ValueEnd(t, p)] = Ampersand
                   /\ \A i \in p..n : i < ValueEnd(t, p) => t[i] # Ampersand
  <2> SUFFICES ASSUME NEW p \in P, NEW v, v = ValueEnd(t, p)
               PROVE  /\ next[p] = v + 1 /\ v \in p .. n + 1
                      /\ v <= n => t[v] = Ampersand
                      /\ \A i \in p..n : i < v => t[i] # Ampersand
    OBVIOUS
  <2>1. v = Find(t, Ampersand, p) /\ p \in Nat BY DEF ValueEnd
  <2>2. /\ v \in Nat /\ v <= n + 1
        /\ v <= n => p <= v /\ t[v] = Ampersand
        /\ \A i \in p..n : i < v => t[i] # Ampersand
    BY <2>1, FindIs
  <2>3. next[p] = v + 1 BY <2>1
  <2>4. v \in p .. n + 1 BY <2>2, <1>1
  <2>5. QED BY <2>2, <2>3, <2>4
<1>4. \A p \in P : /\ NameEnd(t, p) \in Nat /\ NameEnd(t, p) <= n + 1
                   /\ NameEnd(t, p) <= n => t[NameEnd(t, p)] = Equals
  <2> SUFFICES ASSUME NEW p \in P, NEW e, e = NameEnd(t, p)
               PROVE  e \in Nat /\ e <= n + 1 /\ (e <= n => t[e] = Equals)
    OBVIOUS
  <2>1. e = Find(t, Equals, p) /\ p \in Nat BY DEF NameEnd
  <2>2. QED BY <2>1, FindIs
<1>5. c = Collect([p \in P |-> p], next, n + 2)[1] BY DEF Parts
<1> HIDE DEF next, P, c, n
<1>6. Forward([p \in P |-> p], next, n + 2)
  <2>1. ASSUME NEW p \in P PROVE p \in 1 .. n + 2 /\ next[p] \in p + 1 .. n + 2
    <3>1. next[p] = ValueEnd(t, p) + 1 /\ ValueEnd(t, p) \in p .. n + 1 BY <1>3
    <3>2. p \in 1 .. n + 1 BY DEF P
    <3>3. QED BY <3>1, <3>2, <1>1
  <2>2. QED BY <2>1 DEF Forward
<1>7. IsChain(c, P, next, 1) BY <1>1, <1>5, <1>6, CollectChain
<1>8. /\ c \in Seq(P) /\ m \in Nat /\ m >= 1 /\ c[1] = 1
      /\ \A k \in 1 .. m - 1 : c[k + 1] = next[c[k]]
      /\ next[c[m]] \notin P
  BY <1>7 DEF IsChain
<1>9. \A k \in 1..m : c[k] \in P BY <1>8, ElementOfSeq
<1>10. \A k \in 1..m : NameEnd(t, c[k]) \in c[k] + 1 .. ValueEnd(t, c[k]) - 2
  <2>1. DOMAIN c = 1..m BY <1>8
  <2> HIDE DEF m
  <2>2. QED BY <2>1 DEF IsQuery, c
<1> HIDE DEF m
<1>11. ~IsHex(Equals) /\ ~IsHex(Ampersand) BY HexIsNoSeparator
<1>12. ASSUME NEW k \in 1..m, Begins(t, c[k]) PROVE PartIsPlaced(t, k)
  <2> DEFINE p == c[k]  e == NameEnd(t, p)  v == ValueEnd(t, p)
  <2>1. p \in P /\ p \in 1 .. n + 1 BY <1>9 DEF P
  <2>2. /\ next[p] = v + 1 /\ v \in p .. n + 1
        /\ v <= n => t[v] = Ampersand
        /\ \A i \in p..n : i < v => t[i] # Ampersand
    BY <1>3, <2>1
  <2>3. e \in Nat /\ e <= n + 1 /\ (e <= n => t[e] = Equals) BY <1>4, <2>1
  <2>4. e \in p + 1 .. v - 2 BY <1>10
  <2>5. Begins(t, p) BY <1>12
  <2>6. k < m => c[k + 1] = next[p] /\ c[k + 1] \in P
    <3> SUFFICES ASSUME k < m PROVE c[k + 1] = next[p] /\ c[k + 1] \in P OBVIOUS
    <3>1. k \in 1 .. m - 1 /\ k + 1 \in 1..m BY <1>8
    <3>2. QED BY <3>1, <1>8, <1>9
  <2>7. k = m => next[p] \notin P BY <1>8
  <2> HIDE DEF p, e, v
  <2>8. p \in Nat /\ v \in Nat /\ p \in 1..n /\ e \in 1..n /\ e + 1 \in 1..n /\ v \in 1 .. n + 1
    BY <1>1, <2>1, <2>2, <2>3, <2>4
  <2>9. t[e] = Equals /\ Begins(t, e) BY <1>2, <1>11, <2>3, <2>8
  <2>10. Begins(t, e + 1) /\ Written(t, e + 1) = Written(t, e) + 1
    <3>1. Behind(t, e) = e + 1 BY <2>9 DEF Behind, Equals, Percent
    <3>2. QED BY <3>1, <2>8, <2>9, <1>2
  <2>11. Begins(t, v)
    <3>1. CASE v = n + 1 BY <3>1, <1>2
    <3>2. CASE v # n + 1
      <4>1. v \in 1..n /\ t[v] = Ampersand BY <3>2, <2>2, <2>8, <1>1
      <4>2. QED BY <4>1, <1>2, <1>11
    <3>3. QED BY <3>1, <3>2
  <2>12. v <= n => Written(t, v + 1) = Written(t, v) + 1
    <3> SUFFICES ASSUME v <= n PROVE Written(t, v + 1) = Written(t, v) + 1 OBVIOUS
    <3>1. v \in 1..n /\ t[v] = Ampersand BY <2>2, <2>8, <1>1
    <3>2. Behind(t, v) = v + 1 BY <3>1 DEF Behind, Ampersand, Percent
    <3>3. QED BY <3>1, <3>2, <2>11, <1>2
  <2>13. Find(t, Ampersand, e + 1) = v
    <3>1. e + 1 \in Nat /\ e + 1 <= v /\ v <= n + 1 BY <1>1, <2>2, <2>4, <2>8
    <3>2. ASSUME NEW i \in e + 1 .. v - 1 PROVE t[i] # Ampersand
      <4>1. i \in p..n /\ i < v BY <1>1, <2>2, <2>4, <2>8
      <4>2. QED BY <4>1, <2>2
    <3>3. QED BY <3>1, <3>2, <2>2, <2>8, FindAt DEF n
  <2>14. k < m => c[k + 1] = v + 1 /\ v <= n
    <3> SUFFICES ASSUME k < m PROVE c[k + 1] = v + 1 /\ v <= n OBVIOUS
    <3>1. c[k + 1] = v + 1 /\ c[k + 1] \in 1 .. n + 1 BY <2>2, <2>6 DEF P
    <3>2. QED BY <3>1, <2>8, <1>1
  <2>15. k = m => v = n + 1
    <3> SUFFICES ASSUME k = m PROVE v = n + 1 OBVIOUS
    <3>1. ~(v + 1 \in 1 .. n + 1) BY <2>2, <2>7 DEF P
    <3>2. QED BY <3>1, <2>8, <1>1
  <2>16. QED BY <2>4, <2>5, <2>8, <2>9, <2>10, <2>11, <2>12, <2>13, <2>14, <2>15
         DEF PartIsPlaced, c, m, n, p, e, v
<1>13. \A k \in 1..m : Begins(t, c[k])
  <2> DEFINE T == {j \in 0..m : \A k \in 1..j : Begins(t, c[k])}
  <2>1. 0 \in T BY <1>8
  <2>2. ASSUME NEW j \in 0 .. m - 1, j \in T PROVE j + 1 \in T
    <3>1. j + 1 \in 0..m /\ j \in Nat BY <1>8
    <3>2. Begins(t, c[j + 1])
      <4>1. CASE j = 0 BY <4>1, <1>2, <1>8
      <4>2. CASE j # 0
        <5>1. j \in 1..m /\ j < m /\ j \in 1..j BY <4>2, <1>8
        <5>2. Begins(t, c[j]) BY <5>1, <2>2
        <5> DEFINE v == ValueEnd(t, c[j])
        <5>3. PartIsPlaced(t, j) BY <5>1, <5>2, <1>12
        <5>4. c[j + 1] = v + 1 /\ v <= n /\ v \in 1 .. n + 1 /\ Begins(t, v)
          BY <5>1, <5>3 DEF PartIsPlaced, c, m, n
        <5>5. v \in 1..n BY <5>4, <1>1
        <5>6. t[v] = Ampersand BY <5>1, <5>4, <1>3, <1>9
        <5> HIDE DEF v
        <5>7. Behind(t, v) = v + 1 BY <5>6 DEF Behind, Ampersand, Percent
        <5>8. QED BY <5>4, <5>5, <5>7, <1>2
      <4>3. QED BY <4>1, <4>2
    <3>3. \A k \in 1 .. j + 1 : k \in 1..j \/ k = j + 1 BY <3>1
    <3>4. QED BY <3>1, <3>2, <3>3, <2>2
  <2> HIDE DEF T
  <2>3. 0..m \subseteq T BY <2>1, <2>2, <1>8, Upwards
  <2>4. m \in T BY <2>3, <1>8
  <2>5. QED BY <2>4 DEF T
<1>14. QED BY <1>8, <1>12, <1>13 DEF c, m

\* The last pair of a name.
LEMMA GreatestOf ==
  ASSUME NEW m \in Nat, NEW I, I \subseteq 1..m, I # {}
  PROVE  Max(I) \in I
<1> DEFINE J == {m - i : i \in I}
<1>1. J \subseteq Nat /\ J # {}
  <2>1. \A i \in I : i \in 1..m /\ m - i \in Nat OBVIOUS
  <2>2. PICK i \in I : TRUE OBVIOUS
  <2>3. m - i \in J OBVIOUS
  <2>4. QED BY <2>1, <2>3
<1>2. PICK x \in J : \A y \in J : x <= y BY <1>1, LeastOf
<1>3. PICK i \in I : x = m - i BY <1>2
<1>4. \A k \in I : k <= i BY <1>2, <1>3
<1>5. QED BY <1>3, <1>4 DEF Max

\* The pairs of the decoded query string, part by part.
PartName(t, k) == Kept(Decoded(t, Parts(t)[k], NameEnd(t, Parts(t)[k])))
PartValue(t, k) ==
  Kept(Decoded(t, NameEnd(t, Parts(t)[k]) + 1, ValueEnd(t, Parts(t)[k])))

LEMMA PairsDecoded ==
  ASSUME NEW S, NEW t \in Seq(S), IsQuery(t)
  PROVE  QueryPairs(urlDecodeRewite(t))
           = [k \in 1..Len(Parts(t)) |-> [name |-> PartName(t, k), value |-> PartValue(t, k)]]
<1> DEFINE D == urlDecodeRewite(t)  V == Codes(t)  n == Len(t)  len == Len(D)
           c == Parts(t)  m == Len(c)
           sep(p) == Find(D, Equals, p)
           end(p) == Find(D, Ampersand, sep(p) + 1)
           starts == {p \in 1..len : sep(p) \notin {p, len, len + 1}}
           pair(p) == [name  |-> Kept(SubSeq(D, p, sep(p) - 1)),
                       value |-> Kept(SubSeq(D, sep(p) + 1, end(p) - 1))]
           item == [p \in starts |-> pair(p)]
           next == [p \in starts |-> end(p) + 1]
           at == [k \in 1 .. m + 1 |-> IF k <= m THEN Written(t, c[k]) ELSE len + 2]
<1>1. EscapesAreWhole(t) BY DEF IsQuery, EscapesAreWhole
<1>2. D \in Seq(V) /\ UrlPlaces(t, D) BY <1>1, UrlDecoded
<1>3. /\ m \in Nat /\ m >= 1 /\ c[1] = 1 /\ \A k \in 1..m : PartIsPlaced(t, k)
  BY <1>1, <1>2, PartPlaces
<1>4. QueryPairs(D) = Collect(item, next, len + 2)[1] BY DEF QueryPairs
<1> HIDE DEF D, V, c, m
<1>5. n \in Nat /\ len \in Nat /\ len + 2 \in Nat BY <1>2
<1>6. /\ Written(t, 1) = 1 /\ Written(t, n + 1) = len + 1 /\ Begins(t, n + 1)
      /\ \A a \in 1 .. n + 1 : Begins(t, a) => Written(t, a) \in Nat /\ Written(t, a) >= 1
      /\ \A a, b \in 1 .. n + 1 :
           Begins(t, a) /\ Begins(t, b) /\ a < b => Written(t, a) < Written(t, b)
  BY <1>2 DEF UrlPlaces
<1>7. \A p \in Nat, s \in {Equals, Ampersand} :
        /\ Find(D, s, p) \in Nat /\ Find(D, s, p) <= len + 1
        /\ Find(D, s, p) <= len => p <= Find(D, s, p)
  <2> SUFFICES ASSUME NEW p \in Nat, NEW s, s \in {Equals, Ampersand}, NEW f, f = Find(D, s, p)
               PROVE  f \in Nat /\ f <= len + 1 /\ (f <= len => p <= f)
    OBVIOUS
  <2>1. QED BY <1>2, FindIs
<1> HIDE DEF n, len
<1>8. Forward(item, next, len + 2)
  <2> SUFFICES ASSUME NEW p \in starts PROVE p \in 1 .. len + 2 /\ next[p] \in p + 1 .. len + 2
    BY DEF Forward
  <2>1. p \in 1..len /\ p \in Nat /\ sep(p) # len + 1 /\ next[p] = end(p) + 1 BY <1>5
  <2>2. sep(p) \in Nat /\ sep(p) <= len + 1 /\ (sep(p) <= len => p <= sep(p)) BY <2>1, <1>7
  <2>3. sep(p) + 1 \in Nat BY <2>2
  <2>4. end(p) \in Nat /\ end(p) <= len + 1 /\ (end(p) <= len => sep(p) + 1 <= end(p))
    BY <2>3, <1>7
  <2> HIDE DEF sep, end, starts, next
  <2>5. QED BY <2>1, <2>2, <2>4, <1>5
<1>9. ASSUME NEW k \in 1..m
      PROVE  LET w == Written(t, c[k])
             IN /\ w \in starts /\ next[w] = at[k + 1]
                /\ pair(w) = [name |-> PartName(t, k), value |-> PartValue(t, k)]
  <2> DEFINE p == c[k]  e == NameEnd(t, p)  v == ValueEnd(t, p)  w == Written(t, p)
  <2>1. /\ p \in 1..n /\ Begins(t, p)
        /\ e \in p + 1 .. v - 2 /\ Begins(t, e) /\ Begins(t, e + 1)
        /\ Written(t, e + 1) = Written(t, e) + 1
        /\ v \in 1 .. n + 1 /\ Begins(t, v) /\ Find(t, Ampersand, e + 1) = v
        /\ k < m => c[k + 1] = v + 1 /\ v <= n /\ Written(t, v + 1) = Written(t, v) + 1
        /\ k = m => v = n + 1
    BY <1>3 DEF PartIsPlaced, c, m, n
  <2>2. e = Find(t, Equals, p) BY DEF NameEnd
  <2>3. PartName(t, k) = Kept(Decoded(t, p, e)) /\ PartValue(t, k) = Kept(Decoded(t, e + 1, v))
    BY DEF PartName, PartValue, c
  <2> HIDE DEF p, e, v
  <2>4. /\ p \in 1 .. n + 1 /\ e \in 1 .. n + 1 /\ e + 1 \in 1 .. n + 1 /\ e + 1 < n + 1
        /\ p \in Nat /\ e \in Nat /\ v \in Nat /\ p < e /\ e + 1 < v
    BY <2>1, <1>5
  <2>5. w \in Nat /\ w >= 1 /\ Written(t, e) \in Nat /\ Written(t, v) \in Nat
    BY <2>1, <2>4, <1>6
  <2>6. sep(w) = Written(t, e)
    BY <2>1, <2>2, <2>4, <1>1, <1>2, SeparatorDecoded DEF n
  <2>7. end(w) = Written(t, v)
    <3>1. Find(D, Ampersand, Written(t, e + 1)) = Written(t, v)
      BY <2>1, <2>4, <1>1, <1>2, SeparatorDecoded DEF n
    <3>2. Written(t, e + 1) = sep(w) + 1 BY <2>1, <2>6
    <3> HIDE DEF sep, w
    <3>3. QED BY <3>1, <3>2
  <2>8. w < Written(t, e) /\ Written(t, e) + 1 < len + 1 /\ w < len
    <3>1. w < Written(t, e) BY <2>1, <2>4, <1>6
    <3>2. n + 1 \in 1 .. n + 1 BY <1>5
    <3>3. Written(t, e + 1) < Written(t, n + 1) BY <3>2, <2>1, <2>4, <1>6
    <3>4. QED BY <3>1, <3>3, <2>1, <2>5, <1>5, <1>6
  <2>9. w \in starts
    <3>1. w \in 1..len /\ Written(t, e) \notin {w, len, len + 1} BY <2>5, <2>8, <1>5
    <3> HIDE DEF sep, w
    <3>2. QED BY <3>1, <2>6
  <2>10. next[w] = at[k + 1]
    <3>1. next[w] = Written(t, v) + 1 BY <2>7, <2>9
    <3> HIDE DEF next, w
    <3>2. CASE k < m
      <4>1. k + 1 \in 1 .. m + 1 /\ k + 1 <= m BY <3>2, <1>3
      <4>2. at[k + 1] = Written(t, c[k + 1]) BY <4>1
      <4> HIDE DEF at
      <4>3. QED BY <4>2, <3>1, <3>2, <2>1
    <3>3. CASE ~(k < m)
      <4>1. k = m /\ k + 1 \in 1 .. m + 1 /\ ~(k + 1 <= m) BY <3>3, <1>3
      <4>2. at[k + 1] = len + 2 BY <4>1
      <4> HIDE DEF at
      <4>3. Written(t, v) = len + 1 BY <4>1, <2>1, <1>6
      <4>4. QED BY <4>2, <4>3, <3>1, <1>5
    <3>4. QED BY <3>2, <3>3
  <2>11. SubSeq(D, w, Written(t, e) - 1) = Decoded(t, p, e)
    BY <2>1, <2>4, <1>2, StretchDecoded DEF n
  <2>12. SubSeq(D, Written(t, e) + 1, Written(t, v) - 1) = Decoded(t, e + 1, v)
    <3>1. SubSeq(D, Written(t, e + 1), Written(t, v) - 1) = Decoded(t, e + 1, v)
      BY <2>1, <2>4, <1>2, StretchDecoded DEF n
    <3>2. QED BY <3>1, <2>1
  <2>13. pair(w) = [name |-> PartName(t, k), value |-> PartValue(t, k)]
    <3> HIDE DEF sep, end, w
    <3>1. QED BY <2>3, <2>6, <2>7, <2>11, <2>12
  <2> HIDE DEF starts, next, at, pair
  <2>14. QED BY <2>9, <2>10, <2>13 DEF w, p
<1> HIDE DEF pair
<1>10. DOMAIN item = starts /\ \A p \in starts : item[p] = pair(p) OBVIOUS
<1>11. ASSUME NEW k \in 1..m PROVE at[k] = Written(t, c[k])
  <2>1. k \in 1 .. m + 1 /\ k <= m BY <1>3
  <2>2. QED BY <2>1
<1>12. at[m + 1] = len + 2
  <2>1. m + 1 \in 1 .. m + 1 /\ ~(m + 1 <= m) BY <1>3
  <2>2. QED BY <2>1
<1>13. len + 2 \notin starts BY <1>5
<1>14. \A p \in starts : p \in 1..len OBVIOUS
<1> HIDE DEF item, next, at, starts
<1>15. GoesAlong(at, m, item, next, len + 2)
  <2>1. ASSUME NEW k \in 1 .. m + 1 PROVE at[k] \in 1 .. len + 2
    <3>1. CASE k = m + 1 BY <3>1, <1>5, <1>12
    <3>2. CASE k # m + 1
      <4>1. k \in 1..m BY <3>2, <1>3
      <4>2. at[k] \in starts BY <4>1, <1>9, <1>11
      <4>3. QED BY <4>2, <1>5, <1>14
    <3>3. QED BY <3>1, <3>2
  <2>2. \A k \in 1..m : at[k] \in DOMAIN item /\ at[k + 1] = next[at[k]] BY <1>9, <1>10, <1>11
  <2>3. at[m + 1] \notin DOMAIN item BY <1>10, <1>12, <1>13
  <2>4. QED BY <2>1, <2>2, <2>3 DEF GoesAlong
<1>16. at[1] = 1 BY <1>3, <1>6, <1>11
<1>17. Collect(item, next, len + 2)[at[1]] = [k \in 1..m |-> item[at[k]]]
  BY <1>3, <1>5, <1>8, <1>15, CollectAlong
<1>18. \A k \in 1..m : item[at[k]] = [name |-> PartName(t, k), value |-> PartValue(t, k)]
  BY <1>9, <1>10, <1>11
<1>19. QueryPairs(D) = [k \in 1..m |-> [name |-> PartName(t, k), value |-> PartValue(t, k)]]
  BY <1>4, <1>16, <1>17, <1>18
<1>20. QED BY <1>19 DEF D, m, c

\* CQueryString finds the last value of each name.
LEMMA QueryDecoded ==
  ASSUME NEW S, NEW t \in Seq(S), IsQuery(t)
  PROVE  LET ks == DOMAIN Parts(t)
         IN QueryParse(urlDecodeRewite(t)) =
              [x \in {PartName(t, k) : k \in ks} |->
                 PartValue(t, Max({k \in ks : PartName(t, k) = x}))]
<1> DEFINE m == Len(Parts(t))  pairs == QueryPairs(urlDecodeRewite(t))  ks == DOMAIN Parts(t)
<1>1. pairs = [k \in 1..m |-> [name |-> PartName(t, k), value |-> PartValue(t, k)]]
  BY PairsDecoded
<1>2. m \in Nat /\ ks = 1..m
  <2>1. EscapesAreWhole(t) BY DEF IsQuery, EscapesAreWhole
  <2>2. UrlPlaces(t, urlDecodeRewite(t)) BY <2>1, UrlDecoded
  <2>3. m \in Nat BY <2>1, <2>2, PartPlaces
  <2>4. Parts(t) \in Seq(1 .. Len(t) + 1)
    <3> DEFINE P == 1 .. Len(t) + 1  next == [p \in P |-> Find(t, Ampersand, p) + 1]
               n == Len(t) + 2  item == [p \in P |-> p]
    <3>1. Parts(t) = Collect(item, next, n)[1] BY DEF Parts
    <3>2. n \in Nat /\ 1 \in 1..n /\ 1 \in P OBVIOUS
    <3>3. Forward(item, next, n)
      <4>1. ASSUME NEW p \in P PROVE p \in 1..n /\ next[p] \in p + 1 .. n
        <5> DEFINE f == Find(t, Ampersand, p)
        <5>1. Len(t) \in Nat /\ p \in Nat /\ next[p] = f + 1 OBVIOUS
        <5>2. f \in Nat /\ f <= Len(t) + 1 /\ (f <= Len(t) => p <= f) BY <5>1, FindIs
        <5> HIDE DEF f, next
        <5>3. QED BY <5>1, <5>2
      <4>2. QED BY <4>1 DEF Forward
    <3>4. \A p \in DOMAIN item : item[p] \in P OBVIOUS
    <3> HIDE DEF P, next, n, item
    <3>5. Collect(item, next, n)[1] \in Seq(P) BY <3>2, <3>3, <3>4, CollectSeq
    <3>6. QED BY <3>1, <3>5 DEF P
  <2>5. QED BY <2>3, <2>4
<1> HIDE DEF pairs, m, ks
<1>3. DOMAIN pairs = ks BY <1>1, <1>2
<1>4. ASSUME NEW k \in ks PROVE pairs[k].name = PartName(t, k) /\ pairs[k].value = PartValue(t, k)
  <2>1. pairs[k] = [name |-> PartName(t, k), value |-> PartValue(t, k)] BY <1>1, <1>2
  <2>2. QED BY <2>1
<1> DEFINE Names == {PartName(t, k) : k \in ks}
           Of(x) == {k \in ks : PartName(t, k) = x}
<1>5. QueryMap(pairs) = [x \in {pairs[i].name : i \in DOMAIN pairs} |->
                           pairs[Max({i \in DOMAIN pairs : pairs[i].name = x})].value]
  BY DEF QueryMap
<1>6. {pairs[i].name : i \in DOMAIN pairs} = Names BY <1>3, <1>4
<1>7. ASSUME NEW x \in Names
      PROVE  pairs[Max({i \in DOMAIN pairs : pairs[i].name = x})].value = PartValue(t, Max(Of(x)))
  <2>1. {i \in DOMAIN pairs : pairs[i].name = x} = Of(x) BY <1>3, <1>4
  <2>2. Of(x) \subseteq 1..m /\ Of(x) # {} BY <1>2
  <2>3. Max(Of(x)) \in Of(x) BY <2>2, <1>2, GreatestOf
  <2>4. Max(Of(x)) \in ks BY <2>3
  <2> HIDE DEF Of
  <2>5. QED BY <2>1, <2>4, <1>4
<1>8. QueryMap(pairs) = [x \in Names |-> PartValue(t, Max(Of(x)))] BY <1>5, <1>6, <1>7
<1>9. QED BY <1>8 DEF QueryParse, pairs, ks

----------------------------------------------------------------------------
(* The texts.                                                                  *)

\* A text consists of what texts of its kind consist of.
TextIsOfKind == kind \in Kinds /\ text \in Seq(Alphabet(kind))

\* Pieces put together are texts of the same kind.
LEMMA TextOfKind == Spec => []TextIsOfKind
<1>1. Init => TextIsOfKind BY DEF Init, TextIsOfKind
<1>2. TextIsOfKind /\ [Next]_vars => TextIsOfKind'
  <2> SUFFICES ASSUME TextIsOfKind, [Next]_vars PROVE TextIsOfKind' OBVIOUS
  <2>1. CASE Next
    <3>1. PICK p \in Pieces[kind] : text' = text \o p BY <2>1 DEF Next
    <3>2. kind' = kind BY <2>1 DEF Next
    <3>3. p \in Seq(Alphabet(kind)) BY <3>1, TextConstants DEF TextIsOfKind
    <3>4. text \o p \in Seq(Alphabet(kind)) BY <3>3, ConcatProperties DEF TextIsOfKind
    <3>5. QED BY <3>1, <3>2, <3>4 DEF TextIsOfKind
  <2>2. CASE UNCHANGED vars BY <2>2 DEF vars, TextIsOfKind
  <2>3. QED BY <2>1, <2>2
<1>3. QED BY <1>1, <1>2, PTL DEF Spec

\* base64_decode gives every text back that base64_encode has written, and websocket()
\* reads every length ws_writetext writes up to 126, and no longer one.
THEOREM ReadBack == Spec => []EncodedIsReadBack
<1>1. TextIsOfKind => EncodedIsReadBack
  <2> SUFFICES ASSUME TextIsOfKind PROVE EncodedIsReadBack OBVIOUS
  <2>1. CASE kind = "bytes"
    <3>1. text \in Seq(Byte) BY <2>1 DEF TextIsOfKind, Alphabet
    <3>2. QED BY <2>1, <3>1, Base64IsReadBack DEF EncodedIsReadBack
  <2>2. CASE kind = "length" /\ text # <<>>
    <3>1. text \in Seq(0..MaxInt) BY <2>2 DEF TextIsOfKind, Alphabet
    <3>2. Len(text) \in Nat /\ Len(text) # 0 BY <2>2, <3>1
    <3>3. text[1] \in 0..MaxInt
      <4>1. 1 \in 1..Len(text) BY <3>2
      <4>2. QED BY <4>1, <3>1, ElementOfSeq
    <3>4. QED BY <2>2, <3>3, LengthIsReadBack DEF EncodedIsReadBack
  <2>3. QED BY <2>1, <2>2 DEF EncodedIsReadBack
<1>2. QED BY <1>1, TextOfKind, PTL

\* parse_amievent and the loop over the header lines read every text that consists of
\* fields, no more than there are places for, as these fields, and get_amivalue finds the
\* first of a name; parse_amievent leaves its arrays exactly where there are more.
THEOREM FieldsRead == Spec => []FieldsAreRead
<1>1. TextIsOfKind => FieldsAreRead
  <2> SUFFICES ASSUME TextIsOfKind, kind \in {"fields", "records"} PROVE FieldsAreRead
    BY DEF FieldsAreRead
  <2>1. text \in Seq(Char) BY DEF TextIsOfKind, Alphabet
  <2> DEFINE ami == AmiParsed(text)  http == http_headers(text)
  <2>2. ASSUME IsFields(text, {0, 1})
        PROVE  /\ [k \in DOMAIN ami.events |-> <<ami.events[k].key, ami.events[k].value>>]
                    = Fields(text)
               /\ ~ami.beyond
               /\ ami.overrun <=> Len(Fields(text)) > MAX_EVENTS
               /\ \A k \in DOMAIN ami.events :
                    \E j \in 1..k : /\ Fields(text)[j][1] = Fields(text)[k][1]
                                    /\ get_amivalue(ami.events, Fields(text)[k][1])
                                         = Fields(text)[j][2]
    <3>1. {0, 1} \in SUBSET {0, 1} OBVIOUS
    <3>2. QED BY <2>1, <2>2, <3>1, AmiFields
  <2>3. ASSUME IsFields(text, {1}), \A i \in DOMAIN text : text[i] = CR => LineEnd(text, i) = i
        PROVE  [k \in DOMAIN http |-> <<http[k].name, http[k].value>>] = Fields(text)
    BY <2>1, <2>3, HttpFields
  <2> HIDE DEF ami, http
  <2>4. QED BY <2>2, <2>3 DEF FieldsAreRead, ami, http
<1>2. QED BY <1>1, TextOfKind, PTL

\* urlDecodeRewite and CQueryString read every address as the names and values that its
\* parts stand for, the last value of each name.
THEOREM QueryRead == Spec => []QueryIsRead
<1>1. TextIsOfKind => QueryIsRead
  <2> SUFFICES ASSUME TextIsOfKind, kind = "query", IsQuery(text) PROVE QueryIsRead
    BY DEF QueryIsRead
  <2>1. text \in Seq(Char) BY DEF TextIsOfKind, Alphabet
  <2> DEFINE ks == DOMAIN Parts(text)
  <2>2. QueryParse(urlDecodeRewite(text)) =
          [x \in {PartName(text, k) : k \in ks} |->
             PartValue(text, Max({k \in ks : PartName(text, k) = x}))]
    BY <2>1, QueryDecoded
  <2>3. QED BY <2>2 DEF QueryIsRead, PartName, PartValue
<1>2. QED BY <1>1, TextOfKind, PTL
=============================================================================
