--------------------------- MODULE PeerRingProofs ---------------------------
(***************************************************************************)
(* Proofs about PeerRing: what a cursor may point to, what an answer holds *)
(* and that the ring hands out everyone in turn.                           *)
(*                                                                         *)
(* The library's induction theorems take an operator as parameter.  Here   *)
(* induction is over a set of numbers, from the theorem that < is well     *)
(* founded, and recursive functions are shown to exist by it.              *)
(***************************************************************************)
EXTENDS PeerRing, SequenceTheorems, FiniteSetTheorems, WellFoundedInduction, TLAPS

-----------------------------------------------------------------------------
(* Induction and recursion *)

\* A set of numbers that holds 0 and, with each number, the next, holds all.
LEMMA SetInduction ==
  ASSUME NEW S \in SUBSET Nat, 0 \in S, \A n \in S : n + 1 \in S
  PROVE  S = Nat
<1> DEFINE R == OpToRel(<, Nat)
           T == Nat \ S
<1>1. IsWellFoundedOn(R, Nat)
  BY NatLessThanWellFounded
<1>2. \A x, y \in Nat : <<y, x>> \in R <=> y < x
  BY DEF OpToRel
<1> HIDE DEF R
<1>3. SUFFICES ASSUME T # {} PROVE FALSE
  OBVIOUS
<1>4. \E x \in T : \A y \in T : ~(<<y, x>> \in R)
  BY <1>1, <1>3, WFMin
<1>5. PICK m \in T : \A y \in T : ~(<<y, m>> \in R)
  BY <1>4
<1>6. \A y \in T : ~(y < m)
  BY <1>2, <1>5
<1>7. m - 1 \in Nat /\ m - 1 \in S
  BY <1>6
<1> QED BY <1>7

\* g begins with a and goes on by the steps step[1], step[2], ...
Goes(g, n, a, step) ==
  /\ g[0] = a
  /\ \A k \in 1 .. n : g[k] = step[k][g[k - 1]]

\* A function defined by recursion exists.
LEMMA Recursion ==
  ASSUME NEW n \in Nat, NEW A, NEW a \in A, NEW step \in [1 .. n -> [A -> A]]
  PROVE  \E g \in [0 .. n -> A] : Goes(g, n, a, step)
<1> DEFINE P(m, g) == \A k \in 0 .. m : g[k] = IF k = 0 THEN a ELSE step[k][g[k - 1]]
           S == {m \in Nat : m <= n => \E g \in [0 .. m -> A] : P(m, g)}
<1>1. 0 \in S
  <2>1. [k \in 0 .. 0 |-> a] \in [0 .. 0 -> A] /\ P(0, [k \in 0 .. 0 |-> a])
    OBVIOUS
  <2> QED BY <2>1
<1>2. ASSUME NEW m \in S
      PROVE  m + 1 \in S
  <2>1. SUFFICES ASSUME m + 1 <= n
                 PROVE  \E g \in [0 .. m + 1 -> A] : P(m + 1, g)
    OBVIOUS
  <2>2. PICK g \in [0 .. m -> A] : P(m, g)
    BY <2>1
  <2>3. g[m] \in A /\ m + 1 \in 1 .. n
    BY <2>1, <2>2
  <2>4. step[m + 1][g[m]] \in A
    BY <2>3
  <2> DEFINE h == [k \in 0 .. m + 1 |-> IF k = m + 1 THEN step[m + 1][g[m]] ELSE g[k]]
  <2>5. h \in [0 .. m + 1 -> A]
    BY <2>4
  <2>6. P(m + 1, h)
    <3> SUFFICES ASSUME NEW k \in 0 .. m + 1
                 PROVE  h[k] = IF k = 0 THEN a ELSE step[k][h[k - 1]]
      OBVIOUS
    <3>1. CASE k = m + 1
      <4>1. h[k] = step[k][g[k - 1]] /\ h[k - 1] = g[k - 1]
        BY <3>1
      <4> HIDE DEF h
      <4> QED BY <3>1, <4>1
    <3>2. CASE k \in 0 .. m
      <4>1. h[k] = g[k] /\ (k # 0 => h[k - 1] = g[k - 1])
        BY <3>2
      <4> HIDE DEF h
      <4> QED BY <2>2, <3>2, <4>1
    <3> QED BY <3>1, <3>2
  <2> QED BY <2>5, <2>6
<1>3. S = Nat
  <2> HIDE DEF S
  <2>1. S \in SUBSET Nat
    BY DEF S
  <2> QED BY <1>1, <1>2, <2>1, SetInduction
<1>4. n \in S
  <2> HIDE DEF S
  <2> QED BY <1>3
<1>5. PICK g \in [0 .. n -> A] : P(n, g)
  BY <1>4
<1>6. 0 \in 0 .. n /\ \A k \in 1 .. n : k \in 0 .. n /\ k # 0
  OBVIOUS
<1>7. Goes(g, n, a, step)
  BY <1>5, <1>6 DEF Goes
<1> QED BY <1>7

-----------------------------------------------------------------------------
(* The order of the nodes, seen from the cursor *)

\* A list of nodes holds each of them once.
Once(s) == \A k, l \in DOMAIN s : s[k] = s[l] => k = l

\* The node k of s is at the cursor c or behind it, in this round.
Ahead(s, c, k) == \E m \in DOMAIN s : s[m] = c /\ m <= k

\* The cursor c reaches q before it reaches p.
Sooner(s, c, q, p) ==
  \E k, l \in DOMAIN s :
     /\ s[k] = q /\ s[l] = p
     /\ \/ Ahead(s, c, k) /\ ~Ahead(s, c, l)
        \/ (Ahead(s, c, k) <=> Ahead(s, c, l)) /\ k < l

\* nextPeer on a map of its own family: the node handed out is the first the
\* cursor reaches, becomes the last, and the others keep their order.
LEMMA NextInRound ==
  ASSUME NEW S, NEW s \in Seq(S), Once(s), "end" \notin S, s # <<>>,
         NEW c, c = "end" \/ c \in Elements(s),
         NEW m \in DOMAIN s, IF c = "end" THEN m = 1 ELSE s[m] = c
  PROVE  LET p    == s[m]
             next == IF m = Len(s) THEN "end" ELSE s[m + 1]
         IN /\ \A x \in Elements(s) : ~Sooner(s, c, x, p)
            /\ \A x \in Elements(s) \ {p} : Sooner(s, next, x, p)
            /\ \A x, y \in Elements(s) \ {p} : Sooner(s, c, x, y) => Sooner(s, next, x, y)
            /\ next = "end" \/ next \in Elements(s)
<1> DEFINE p    == s[m]
           next == IF m = Len(s) THEN "end" ELSE s[m + 1]
<1>1. /\ DOMAIN s = 1 .. Len(s) /\ Len(s) \in Nat /\ \A k \in DOMAIN s : s[k] # "end"
  OBVIOUS
<1>2. \A k \in DOMAIN s : Ahead(s, c, k) <=> (c # "end" /\ m <= k)
  BY <1>1 DEF Ahead, Once
<1>3. \A k \in DOMAIN s : Ahead(s, next, k) <=> m < k
  <2>1. CASE m = Len(s)
    BY <1>1, <2>1 DEF Ahead
  <2>2. CASE m # Len(s)
    <3>1. m + 1 \in DOMAIN s /\ next = s[m + 1]
      BY <1>1, <2>2
    <3> HIDE DEF next
    <3> QED BY <1>1, <3>1 DEF Ahead, Once
  <2> QED BY <2>1, <2>2
<1>4. next = "end" \/ next \in Elements(s)
  BY <1>1 DEF Elements
<1> HIDE DEF next
<1>5. ASSUME NEW x \in Elements(s)
      PROVE  ~Sooner(s, c, x, p)
  <2> SUFFICES ASSUME NEW k \in DOMAIN s, NEW l \in DOMAIN s, s[k] = x, s[l] = p,
                      \/ Ahead(s, c, k) /\ ~Ahead(s, c, l)
                      \/ (Ahead(s, c, k) <=> Ahead(s, c, l)) /\ k < l
               PROVE  FALSE
    BY DEF Sooner
  <2>1. l = m
    BY DEF Once
  <2> QED BY <1>1, <1>2, <2>1
<1>6. ASSUME NEW x \in Elements(s) \ {p}
      PROVE  Sooner(s, next, x, p)
  <2>1. PICK k \in DOMAIN s : s[k] = x
    BY DEF Elements
  <2>2. k # m
    BY <2>1
  <2> QED BY <1>1, <1>3, <2>1, <2>2 DEF Sooner
<1>7. ASSUME NEW x \in Elements(s) \ {p}, NEW y \in Elements(s) \ {p}, Sooner(s, c, x, y)
      PROVE  Sooner(s, next, x, y)
  <2>1. PICK k, l \in DOMAIN s : /\ s[k] = x /\ s[l] = y
                                 /\ \/ Ahead(s, c, k) /\ ~Ahead(s, c, l)
                                    \/ (Ahead(s, c, k) <=> Ahead(s, c, l)) /\ k < l
    BY <1>7 DEF Sooner
  <2>2. k # m /\ l # m
    BY <2>1
  <2>3. \/ Ahead(s, next, k) /\ ~Ahead(s, next, l)
        \/ (Ahead(s, next, k) <=> Ahead(s, next, l)) /\ k < l
    BY <1>1, <1>2, <1>3, <2>1, <2>2
  <2> QED BY <2>1, <2>3 DEF Sooner
<1> QED BY <1>4, <1>5, <1>6, <1>7 DEF next

\* A list t that keeps the order of the nodes K of s keeps their turns, if the
\* cursor is end() or one of them.
LEMMA TurnsKept ==
  ASSUME NEW S, NEW s \in Seq(S), NEW t \in Seq(S), Once(s), Once(t), NEW K,
         \A a, b \in DOMAIN s : a < b /\ s[a] \in K /\ s[b] \in K =>
           \E k, l \in DOMAIN t : k < l /\ t[k] = s[a] /\ t[l] = s[b],
         \A a \in DOMAIN s : s[a] \in K => \E k \in DOMAIN t : t[k] = s[a],
         NEW c, (c \in K /\ c \in Elements(s)) \/ c \notin S,
         NEW x \in K, NEW y \in K, Sooner(s, c, x, y)
  PROVE  Sooner(t, c, x, y)
<1>1. /\ DOMAIN s = 1 .. Len(s) /\ Len(s) \in Nat /\ \A k \in DOMAIN s : s[k] \in S
      /\ DOMAIN t = 1 .. Len(t) /\ Len(t) \in Nat /\ \A k \in DOMAIN t : t[k] \in S
  OBVIOUS
<1>2. PICK a, b \in DOMAIN s : /\ s[a] = x /\ s[b] = y
                               /\ \/ Ahead(s, c, a) /\ ~Ahead(s, c, b)
                                  \/ (Ahead(s, c, a) <=> Ahead(s, c, b)) /\ a < b
  BY DEF Sooner
<1>3. ASSUME NEW k \in DOMAIN t, NEW d \in DOMAIN s, t[k] = s[d], s[d] \in K
      PROVE  Ahead(t, c, k) <=> Ahead(s, c, d)
  <2>1. CASE c \notin S
    BY <1>1, <2>1 DEF Ahead
  <2>2. CASE c \in K /\ c \in Elements(s)
    <3>1. PICK e \in DOMAIN s : s[e] = c
      BY <2>2 DEF Elements
    <3>2. PICK f \in DOMAIN t : t[f] = c
      BY <2>2, <3>1
    <3>3. Ahead(s, c, d) <=> e <= d
      BY <1>1, <3>1 DEF Ahead, Once
    <3>4. Ahead(t, c, k) <=> f <= k
      BY <1>1, <3>2 DEF Ahead, Once
    <3>5. e < d => f < k
      BY <1>3, <2>2, <3>1, <3>2 DEF Once
    <3>6. d < e => k < f
      BY <1>3, <2>2, <3>1, <3>2 DEF Once
    <3>7. d = e => k = f
      BY <1>3, <3>1, <3>2 DEF Once
    <3> QED BY <1>1, <3>3, <3>4, <3>5, <3>6, <3>7
  <2> QED BY <2>1, <2>2
<1>4. PICK k \in DOMAIN t : t[k] = x
  BY <1>2
<1>5. PICK l \in DOMAIN t : t[l] = y
  BY <1>2
<1>6. a < b => k < l
  BY <1>2, <1>4, <1>5 DEF Once
<1>7. /\ Ahead(t, c, k) <=> Ahead(s, c, a)
      /\ Ahead(t, c, l) <=> Ahead(s, c, b)
  BY <1>2, <1>3, <1>4, <1>5
<1> QED BY <1>2, <1>4, <1>5, <1>6, <1>7 DEF Sooner

\* The list t holds the nodes of s that are in K, in their order.
Keeps(t, s, K) ==
  /\ \A a, b \in DOMAIN s : a < b /\ s[a] \in K /\ s[b] \in K =>
       \E k, l \in DOMAIN t : k < l /\ t[k] = s[a] /\ t[l] = s[b]
  /\ \A a \in DOMAIN s : s[a] \in K => \E k \in DOMAIN t : t[k] = s[a]

\* A new node between two others.
LEMMA InsertedKeeps ==
  ASSUME NEW S, NEW s \in Seq(S), Once(s), NEW p \in S \ Elements(s), NEW k \in 0 .. Len(s)
  PROVE  LET t == Inserted(s, k, p) IN
         /\ t \in Seq(S) /\ Once(t) /\ Elements(t) = Elements(s) \cup {p}
         /\ Keeps(t, s, Elements(s))
<1> DEFINE t == Inserted(s, k, p)
           n == Len(s)
<1>1. n \in Nat /\ DOMAIN s = 1 .. n /\ \A i \in 1 .. n : s[i] \in S /\ s[i] # p
  BY DEF Elements
<1>2. /\ t \in Seq(S) /\ Len(t) = n + 1
      /\ \A i \in 1 .. k : t[i] = s[i]
      /\ t[k + 1] = p
      /\ \A i \in k + 1 .. n : t[i + 1] = s[i]
  <2> DEFINE u == SubSeq(s, 1, k)
             v == SubSeq(s, k + 1, n)
  <2>1. u \in Seq(S) /\ Len(u) = k /\ \A i \in 1 .. k : u[i] = s[i]
    BY <1>1
  <2>2. v \in Seq(S) /\ Len(v) = n - k /\ \A i \in 1 .. n - k : v[i] = s[k + i]
    <3> DEFINE k1 == k + 1
    <3>1. k1 \in Int /\ \A i \in k1 .. n : s[i] \in S
      BY <1>1
    <3>2. v = SubSeq(s, k1, n)
      OBVIOUS
    <3> HIDE DEF k1, n, v
    <3>3. /\ v \in Seq(S) /\ Len(v) = IF k1 <= n THEN n - k1 + 1 ELSE 0
          /\ \A i \in 1 .. n - k1 + 1 : v[i] = s[k1 + i - 1]
      BY <1>1, <3>1, <3>2, SubSeqProperties
    <3>4. k1 = k + 1 /\ n \in Nat /\ k \in Nat /\ k <= n
      BY <1>1 DEF k1, n
    <3>5. Len(v) = n - k /\ n - k1 + 1 = n - k
      BY <3>3, <3>4
    <3>6. \A i \in 1 .. n - k : v[i] = s[k + i]
      <4> SUFFICES ASSUME NEW i \in 1 .. n - k PROVE v[i] = s[k + i]
        OBVIOUS
      <4>1. v[i] = s[k1 + i - 1]
        BY <3>3, <3>5
      <4>2. k1 + i - 1 = k + i
        BY <3>4
      <4> QED BY <4>1, <4>2
    <3> QED BY <3>3, <3>5, <3>6
  <2>3. t = u \o <<p>> \o v
    BY DEF Inserted
  <2> HIDE DEF t, u, v
  <2>4. u \o <<p>> \in Seq(S) /\ Len(u \o <<p>>) = k + 1
    BY <2>1
  <2>5. t \in Seq(S) /\ Len(t) = n + 1
    BY <1>1, <2>2, <2>3, <2>4
  <2>6. \A i \in 1 .. k : t[i] = s[i]
    BY <1>1, <2>1, <2>2, <2>3
  <2>7. t[k + 1] = p
    BY <1>1, <2>1, <2>2, <2>3
  <2>8. \A i \in k + 1 .. n : t[i + 1] = s[i]
    <3> SUFFICES ASSUME NEW i \in k + 1 .. n PROVE t[i + 1] = s[i]
      OBVIOUS
    <3>1. t[i + 1] = v[i + 1 - (k + 1)]
      BY <1>1, <2>1, <2>2, <2>3, <2>4
    <3>2. v[i - k] = s[k + (i - k)]
      BY <2>2
    <3> QED BY <3>1, <3>2
  <2> QED BY <2>5, <2>6, <2>7, <2>8
<1> HIDE DEF t, n
<1> DEFINE To(i) == IF i <= k THEN i ELSE i + 1
<1>3. /\ \A i \in 1 .. n : To(i) \in DOMAIN t /\ t[To(i)] = s[i]
      /\ \A i, j \in 1 .. n : i < j => To(i) < To(j)
  BY <1>1, <1>2
<1>4. \A j \in DOMAIN t : j = k + 1 \/ \E i \in 1 .. n : j = To(i)
  <2> SUFFICES ASSUME NEW j \in DOMAIN t, j # k + 1
               PROVE  \E i \in 1 .. n : j = To(i)
    OBVIOUS
  <2>1. CASE j <= k
    BY <1>1, <1>2, <2>1
  <2>2. CASE j > k
    <3>1. j - 1 \in 1 .. n /\ To(j - 1) = j
      BY <1>1, <1>2, <2>2
    <3> QED BY <3>1
  <2> QED BY <1>2, <2>1, <2>2
<1> HIDE DEF To
<1>5. Once(t)
  <2> SUFFICES ASSUME NEW j \in DOMAIN t, NEW l \in DOMAIN t, t[j] = t[l]
               PROVE  j = l
    BY DEF Once
  <2>1. CASE j = k + 1 \/ l = k + 1
    BY <1>1, <1>2, <1>3, <1>4, <2>1
  <2>2. CASE j # k + 1 /\ l # k + 1
    <3>1. PICK i1 \in 1 .. n : j = To(i1)
      BY <1>4, <2>2
    <3>2. PICK i2 \in 1 .. n : l = To(i2)
      BY <1>4, <2>2
    <3>3. s[i1] = s[i2]
      BY <1>3, <3>1, <3>2
    <3> QED BY <1>1, <3>1, <3>2, <3>3 DEF Once
  <2> QED BY <2>1, <2>2
<1>6. Elements(t) = Elements(s) \cup {p}
  <2>1. k + 1 \in DOMAIN t
    BY <1>1, <1>2
  <2>2. \A i \in 1 .. n : s[i] \in Elements(t)
    BY <1>3 DEF Elements
  <2>3. p \in Elements(t)
    BY <1>2, <2>1 DEF Elements
  <2>4. \A j \in DOMAIN t : t[j] = p \/ \E i \in 1 .. n : t[j] = s[i]
    BY <1>2, <1>3, <1>4
  <2> QED BY <1>1, <2>2, <2>3, <2>4 DEF Elements
<1>7. Keeps(t, s, Elements(s))
  BY <1>1, <1>3 DEF Keeps
<1> QED BY <1>2, <1>5, <1>6, <1>7 DEF t

\* The nodes left by an erasure.
LEMMA RemainingKeeps ==
  ASSUME NEW S, NEW s \in Seq(S), Once(s), NEW ps
  PROVE  LET t == Remaining(s, ps) IN
         /\ t \in Seq(S) /\ Once(t) /\ Elements(t) = Elements(s) \ ps
         /\ Keeps(t, s, Elements(s) \ ps)
<1> DEFINE n    == Len(s)
           IsLeft(F) == F = [k \in 0 .. n |->
                               IF k = 0 THEN <<>>
                               ELSE IF s[k] \in ps THEN F[k - 1] ELSE Append(F[k - 1], s[k])]
           Left == CHOOSE F : IsLeft(F)
<1>1. n \in Nat /\ DOMAIN s = 1 .. n /\ \A i \in 1 .. n : s[i] \in S
  OBVIOUS
<1>2. Remaining(s, ps) = Left[n]
  BY DEF Remaining
<1>3. IsLeft(Left)
  <2> DEFINE step == [k \in 1 .. n |-> [u \in Seq(S) |->
                        IF s[k] \in ps THEN u ELSE Append(u, s[k])]]
             empty == <<>>
  <2>1. step \in [1 .. n -> [Seq(S) -> Seq(S)]] /\ empty \in Seq(S)
    BY <1>1
  <2>2. \A k \in 1 .. n, u \in Seq(S) :
          step[k][u] = IF s[k] \in ps THEN u ELSE Append(u, s[k])
    OBVIOUS
  <2> DEFINE A == Seq(S)
  <2>3. step \in [1 .. n -> [A -> A]] /\ empty \in A
    BY <2>1
  <2> HIDE DEF step, n, A, empty
  <2>4. n \in Nat
    BY <1>1
  <2>5. \E g \in [0 .. n -> A] : Goes(g, n, empty, step)
    BY <2>3, <2>4, Recursion
  <2>6. PICK g \in [0 .. n -> Seq(S)] :
                /\ g[0] = empty
                /\ \A k \in 1 .. n : g[k] = step[k][g[k - 1]]
    BY <2>5 DEF A, Goes
  <2>7. \A k \in 0 .. n : k # 0 => k \in 1 .. n /\ g[k - 1] \in Seq(S)
    BY <2>4
  <2>8. IsLeft(g)
    BY <2>2, <2>4, <2>6, <2>7 DEF empty
  <2> QED BY <2>8
<1> DEFINE F == Left
<1>4. /\ F[0] = <<>>
      /\ \A k \in 1 .. n : F[k] = IF s[k] \in ps THEN F[k - 1] ELSE Append(F[k - 1], s[k])
  <2> HIDE DEF Left, n
  <2>1. F = [k \in 0 .. n |->
               IF k = 0 THEN <<>>
               ELSE IF s[k] \in ps THEN F[k - 1] ELSE Append(F[k - 1], s[k])]
    BY <1>3
  <2> HIDE DEF F
  <2>2. \A k \in 0 .. n : F[k] = IF k = 0 THEN <<>>
                                 ELSE IF s[k] \in ps THEN F[k - 1] ELSE Append(F[k - 1], s[k])
    BY <2>1
  <2> QED BY <1>1, <2>2
<1> DEFINE Good(k) ==
             /\ F[k] \in Seq(S) /\ Once(F[k])
             /\ \A i \in 1 .. k : s[i] \notin ps => \E j \in DOMAIN F[k] : F[k][j] = s[i]
             /\ \A j \in DOMAIN F[k] : \E i \in 1 .. k : s[i] \notin ps /\ F[k][j] = s[i]
             /\ \A a, b \in 1 .. k : a < b /\ s[a] \notin ps /\ s[b] \notin ps =>
                  \E i, j \in DOMAIN F[k] : i < j /\ F[k][i] = s[a] /\ F[k][j] = s[b]
           N == {k \in Nat : k <= n => Good(k)}
<1> HIDE DEF F, Left, n
<1>5. Good(0)
  BY <1>4 DEF Once
<1>6. ASSUME NEW k \in Nat, k + 1 <= n, Good(k)
      PROVE  Good(k + 1)
  <2> DEFINE u == F[k]
             v == F[k + 1]
             m == Len(u)
  <2>1. k + 1 \in 1 .. n /\ v = IF s[k + 1] \in ps THEN u ELSE Append(u, s[k + 1])
    BY <1>1, <1>4, <1>6
  <2>2. CASE s[k + 1] \in ps
    BY <1>6, <2>1, <2>2
  <2>3. CASE s[k + 1] \notin ps
    <3>1. m \in Nat /\ DOMAIN u = 1 .. m
      BY <1>6
    <3>2. /\ v \in Seq(S) /\ DOMAIN v = 1 .. m + 1 /\ v[m + 1] = s[k + 1]
          /\ \A j \in 1 .. m : v[j] = u[j]
      BY <1>1, <1>6, <2>1, <2>3
    <3> HIDE DEF u, v, m
    <3>3. /\ u \in Seq(S) /\ Once(u)
          /\ \A i \in 1 .. k : s[i] \notin ps => \E j \in 1 .. m : u[j] = s[i]
          /\ \A j \in 1 .. m : \E i \in 1 .. k : s[i] \notin ps /\ u[j] = s[i]
          /\ \A a, b \in 1 .. k : a < b /\ s[a] \notin ps /\ s[b] \notin ps =>
               \E i, j \in 1 .. m : i < j /\ u[i] = s[a] /\ u[j] = s[b]
      <4>1. DOMAIN u = 1 .. m
        BY <3>1
      <4>2. /\ u \in Seq(S) /\ Once(u)
            /\ \A i \in 1 .. k : s[i] \notin ps => \E j \in DOMAIN u : u[j] = s[i]
            /\ \A j \in DOMAIN u : \E i \in 1 .. k : s[i] \notin ps /\ u[j] = s[i]
            /\ \A a, b \in 1 .. k : a < b /\ s[a] \notin ps /\ s[b] \notin ps =>
                 \E i, j \in DOMAIN u : i < j /\ u[i] = s[a] /\ u[j] = s[b]
        BY <1>6 DEF u, Good
      <4> QED BY <4>1, <4>2
    <3>4. Once(v)
      <4>1. ASSUME NEW j \in 1 .. m, u[j] = s[k + 1]
            PROVE  FALSE
        <5>1. PICK i \in 1 .. k : u[j] = s[i]
          BY <3>3
        <5>2. i \in 1 .. n /\ i # k + 1
          BY <1>1, <1>6
        <5> QED BY <1>1, <2>1, <4>1, <5>1, <5>2 DEF Once
      <4>2. \A j \in 1 .. m + 1 : j \in 1 .. m \/ j = m + 1
        BY <3>1
      <4>3. \A j, l \in 1 .. m : u[j] = u[l] => j = l
        BY <3>1, <3>3 DEF Once
      <4> QED BY <3>2, <4>1, <4>2, <4>3 DEF Once
    <3>5. \A i \in 1 .. k + 1 : s[i] \notin ps => \E j \in DOMAIN v : v[j] = s[i]
      <4> SUFFICES ASSUME NEW i \in 1 .. k + 1, s[i] \notin ps
                   PROVE  \E j \in DOMAIN v : v[j] = s[i]
        OBVIOUS
      <4>1. CASE i = k + 1
        BY <3>1, <3>2, <4>1
      <4>2. CASE i \in 1 .. k
        <5>1. PICK j \in 1 .. m : u[j] = s[i]
          BY <3>3, <4>2
        <5> QED BY <3>1, <3>2, <5>1
      <4> QED BY <4>1, <4>2
    <3>6. \A j \in DOMAIN v : \E i \in 1 .. k + 1 : s[i] \notin ps /\ v[j] = s[i]
      <4> SUFFICES ASSUME NEW j \in 1 .. m + 1
                   PROVE  \E i \in 1 .. k + 1 : s[i] \notin ps /\ v[j] = s[i]
        BY <3>2
      <4>1. CASE j = m + 1
        BY <2>3, <3>2, <4>1
      <4>2. CASE j \in 1 .. m
        <5>1. PICK i \in 1 .. k : s[i] \notin ps /\ u[j] = s[i]
          BY <3>3, <4>2
        <5> QED BY <3>2, <4>2, <5>1
      <4> QED BY <3>1, <4>1, <4>2
    <3>7. ASSUME NEW a \in 1 .. k + 1, NEW b \in 1 .. k + 1, a < b, s[a] \notin ps, s[b] \notin ps
          PROVE  \E i, j \in DOMAIN v : i < j /\ v[i] = s[a] /\ v[j] = s[b]
      <4>1. CASE b = k + 1
        <5>1. PICK i \in 1 .. m : u[i] = s[a]
          BY <3>3, <3>7, <4>1
        <5>2. i \in DOMAIN v /\ m + 1 \in DOMAIN v /\ i < m + 1
          BY <3>1, <3>2
        <5> QED BY <3>2, <4>1, <5>1, <5>2
      <4>2. CASE b \in 1 .. k
        <5>1. a \in 1 .. k
          BY <1>6, <3>7, <4>2
        <5>2. PICK i, j \in 1 .. m : i < j /\ u[i] = s[a] /\ u[j] = s[b]
          BY <3>3, <3>7, <4>2, <5>1
        <5>3. i \in DOMAIN v /\ j \in DOMAIN v /\ v[i] = s[a] /\ v[j] = s[b]
          BY <3>1, <3>2, <5>2
        <5> QED BY <5>2, <5>3
      <4> QED BY <4>1, <4>2
    <3> QED BY <3>2, <3>4, <3>5, <3>6, <3>7 DEF v
  <2> QED BY <2>2, <2>3
<1> HIDE DEF Good
<1>7. 0 \in N /\ \A k \in N : k + 1 \in N
  BY <1>1, <1>5, <1>6
<1>8. Good(n)
  <2> HIDE DEF N
  <2>1. N \in SUBSET Nat
    BY DEF N
  <2>2. N = Nat
    BY <1>7, <2>1, SetInduction
  <2> QED BY <1>1, <2>2 DEF N
<1> DEFINE t == Remaining(s, ps)
<1>9. t = F[n]
  BY <1>2 DEF F
<1> HIDE DEF t
<1>10. /\ t \in Seq(S) /\ Once(t)
       /\ \A i \in 1 .. n : s[i] \notin ps => \E j \in DOMAIN t : t[j] = s[i]
       /\ \A j \in DOMAIN t : \E i \in 1 .. n : s[i] \notin ps /\ t[j] = s[i]
       /\ \A a, b \in 1 .. n : a < b /\ s[a] \notin ps /\ s[b] \notin ps =>
            \E i, j \in DOMAIN t : i < j /\ t[i] = s[a] /\ t[j] = s[b]
  BY <1>8, <1>9 DEF Good
<1>11. Elements(t) = Elements(s) \ ps
  <2>1. \A x \in Elements(t) : x \in Elements(s) /\ x \notin ps
    BY <1>1, <1>10 DEF Elements
  <2>2. \A x \in Elements(s) : x \notin ps => x \in Elements(t)
    BY <1>1, <1>10 DEF Elements
  <2> QED BY <2>1, <2>2
<1>12. Keeps(t, s, Elements(s) \ ps)
  BY <1>1, <1>10 DEF Keeps
<1> QED BY <1>10, <1>11, <1>12 DEF t

-----------------------------------------------------------------------------
(* Lists and their sets *)

\* A list that holds each of its elements once is as long as there are elements.
LEMMA OnceLength ==
  ASSUME NEW S, NEW s \in Seq(S)
  PROVE  /\ IsFiniteSet(Elements(s)) /\ Cardinality(Elements(s)) <= Len(s)
         /\ Once(s) <=> Cardinality(Elements(s)) = Len(s)
<1> DEFINE E == Elements(s)
           n == Len(s)
<1>1. n \in Nat /\ DOMAIN s = 1 .. n /\ s = [k \in 1 .. n |-> s[k]]
  OBVIOUS
<1>2. s \in Surjection(1 .. n, E)
  BY <1>1 DEF Surjection, Elements
<1>3. IsFiniteSet(1 .. n) /\ Cardinality(1 .. n) = n
  <2> HIDE DEF n
  <2>1. n \in Int /\ 1 \in Int
    BY <1>1
  <2>2. /\ IsFiniteSet(1 .. n)
        /\ Cardinality(1 .. n) = IF 1 > n THEN 0 ELSE n - 1 + 1
    BY <2>1, FS_Interval
  <2> QED BY <1>1, <2>2
<1>4. s \in Injection(1 .. n, E) <=> Once(s)
  BY <1>1, <1>2 DEF Injection, IsInjective, Surjection, Once
<1> HIDE DEF n, E
<1>5. /\ IsFiniteSet(E) /\ Cardinality(E) <= Cardinality(1 .. n)
      /\ Cardinality(E) = Cardinality(1 .. n) <=> s \in Injection(1 .. n, E)
  BY <1>2, <1>3, FS_Surjection
<1> QED BY <1>3, <1>4, <1>5 DEF n, E

\* A rehash arranges the nodes anew and holds each of them once.
LEMMA OrdersOnce ==
  ASSUME NEW ps, IsFiniteSet(ps), NEW s \in Orders(ps)
  PROVE  s \in Seq(ps) /\ Once(s) /\ Elements(s) = ps
<1>1. Cardinality(ps) \in Nat
  BY FS_CardinalityType
<1>2. s \in [1 .. Cardinality(ps) -> ps] /\ Elements(s) = ps
  BY DEF Orders
<1>3. s \in Seq(ps) /\ Len(s) = Cardinality(ps)
  BY <1>1, <1>2
<1> QED BY <1>2, <1>3, OnceLength

-----------------------------------------------------------------------------
(* One turn of getPeers' loop, and all of them *)

\* The lists of the two maps.
Listed == \A f \in Family : order[f] \in Seq(PeersOf(f)) /\ Once(order[f])

\* A peer belongs to one map, and no mark of a lost cursor is a peer.
LEMMA Families ==
  /\ \A f \in Family : \A p \in PeersOf(f) : p \in Peer /\ FamilyOf(p) = f
  /\ \A p \in Peer : FamilyOf(p) \in Family /\ p \in PeersOf(FamilyOf(p))
  /\ \A p \in Peer : p \notin {"end", "freed", "wild", "crash", "departed"}
BY PeerRingAssumption DEF Family, PeersOf, Peer, FamilyOf

\* A member of a map is one of its peers, at one place.
LEMMA MembersListed ==
  ASSUME Listed, NEW f \in Family
  PROVE  /\ Members(f) \subseteq PeersOf(f) /\ Members(f) \subseteq Peer
         /\ \A p \in Members(f) : FamilyOf(p) = f
         /\ \A p \in Peer : p \in Members(f) => p \in PeersOf(f)
         /\ \A p \in Members("ipv4") \cup Members("ipv6") : p \in Members(FamilyOf(p))
<1>1. \A g \in Family : \A p \in Members(g) : p \in PeersOf(g)
  BY DEF Listed, Members, Elements
<1>2. "ipv4" \in Family /\ "ipv6" \in Family
  BY DEF Family
<1> QED BY <1>1, <1>2, Families

\* The node after another.
LEMMA AfterListed ==
  ASSUME Listed, NEW f \in Family, NEW m \in DOMAIN order[f]
  PROVE  /\ order[f][m] \in Members(f)
         /\ After(order[f][m]) = IF m = Len(order[f]) THEN "end" ELSE order[f][m + 1]
<1> DEFINE p == order[f][m]
<1>1. p \in Members(f) /\ FamilyOf(p) = f
  <2>1. p \in Members(f)
    BY DEF Members, Elements
  <2> QED BY <2>1, MembersListed
<1> DEFINE at == CHOOSE i \in DOMAIN order[f] : order[f][i] = p
<1>2. at = m
  BY DEF Listed, Once
<1> HIDE DEF p
<1>3. After(p) = IF at = Len(order[f]) THEN "end" ELSE order[f][at + 1]
  BY <1>1 DEF After
<1> HIDE DEF at
<1> QED BY <1>1, <1>2, <1>3 DEF p

\* A state of getPeers' loop: the cursor, those handed out, the history.
WalkStates ==
  {w \in [it : {"end", "freed", "wild", "crash"} \cup Members("ipv4") \cup Members("ipv6"),
          peers : Seq(Peer \cup {"departed"}),
          waiting : [Peer -> SUBSET Peer],
          skipped : SUBSET (Peer \X Peer)] :
     \A p \in Peer : w.waiting[p] \subseteq Members(FamilyOf(p)) \ {p}}

\* One turn of the loop leads to such a state.
LEMMA CallTyped ==
  ASSUME Listed, NEW f \in Family, order[f] # <<>>, NEW w \in WalkStates
  PROVE  Call(f, w) \in WalkStates
<1> DEFINE Its == {"end", "freed", "wild", "crash"} \cup Members("ipv4") \cup Members("ipv6")
           next == NextPeer(f, w.it)
           v == [w EXCEPT !.it = next.it, !.peers = Append(@, next.peer)]
<1>1. \A g \in Family : \A p \in Members(g) : After(p) \in Its
  <2> SUFFICES ASSUME NEW g \in Family, NEW p \in Members(g)
               PROVE  After(p) \in Its
    OBVIOUS
  <2>1. PICK m \in DOMAIN order[g] : order[g][m] = p
    BY DEF Members, Elements
  <2>2. DOMAIN order[g] = 1 .. Len(order[g]) /\ Len(order[g]) \in Nat
    BY DEF Listed
  <2>3. m # Len(order[g]) => order[g][m + 1] \in Members(g)
    BY <2>2 DEF Members, Elements
  <2> QED BY <2>1, <2>3, AfterListed DEF Family
<1>2. order[f][1] \in Members(f) /\ Members(f) \subseteq Peer
  <2>1. 1 \in DOMAIN order[f]
    BY DEF Listed
  <2> QED BY <2>1, MembersListed DEF Members, Elements
<1>3. w.it \in Peer => w.it \in Members(FamilyOf(w.it)) /\ FamilyOf(w.it) \in Family
  BY MembersListed, Families DEF WalkStates
<1>4. next.it \in Its /\ next.peer \in Peer \cup {"departed"}
  BY <1>1, <1>2, <1>3 DEF NextPeer
<1>5. v \in WalkStates
  <2> HIDE DEF next
  <2>1. w.peers \in Seq(Peer \cup {"departed"})
    BY DEF WalkStates
  <2>2. Append(w.peers, next.peer) \in Seq(Peer \cup {"departed"})
    BY <1>4, <2>1
  <2> QED BY <1>4, <2>2 DEF WalkStates
<1> HIDE DEF v, next
<1>6. HandOut(v, f, next.peer) \in WalkStates
  <2>1. CASE next.peer \notin Members(f)
    BY <1>5, <2>1 DEF HandOut
  <2>2. CASE next.peer \in Members(f)
    <3> DEFINE p == next.peer
               waits == [q \in Peer |-> IF q = p THEN Members(f) \ {p} ELSE v.waiting[q] \ {p}]
               skips == v.skipped \cup ({p} \X v.waiting[p])
    <3>1. p \in Peer /\ FamilyOf(p) = f /\ Members(f) \subseteq Peer
      BY <2>2, MembersListed
    <3>2. /\ waits \in [Peer -> SUBSET Peer]
          /\ \A q \in Peer : waits[q] \subseteq Members(FamilyOf(q)) \ {q}
      BY <1>5, <3>1 DEF WalkStates
    <3>3. skips \in SUBSET (Peer \X Peer)
      BY <1>5, <3>1 DEF WalkStates
    <3>4. HandOut(v, f, p) = [v EXCEPT !.skipped = skips, !.waiting = waits]
      BY <1>5, <2>2 DEF HandOut, WalkStates
    <3> HIDE DEF waits, skips, p
    <3>5. [v EXCEPT !.skipped = skips, !.waiting = waits] \in WalkStates
      BY <1>5, <3>2, <3>3 DEF WalkStates
    <3> QED BY <3>4, <3>5 DEF p
  <2> QED BY <2>1, <2>2
<1> QED BY <1>6 DEF Call, v, next

\* The loop before its first turn.
Begin(f, w) == [it |-> it[f], peers |-> <<>>, waiting |-> w.waiting, skipped |-> w.skipped]

\* g is the run of the loop for m turns.
Walks(g, f, m, w) ==
  /\ g[0] = Begin(f, w)
  /\ \A k \in 1 .. m : g[k] = Call(f, g[k - 1])

\* The turns getPeers takes.
Turns(f, n) == IF n <= 0 \/ order[f] = <<>> THEN 0 ELSE n

\* getPeers is such a run, through states of the loop.
LEMMA GetPeersWalks ==
  ASSUME Listed, NEW f \in Family, NEW n \in Int, NEW w, Begin(f, w) \in WalkStates
  PROVE  \E g \in [0 .. Turns(f, n) -> WalkStates] :
            Walks(g, f, Turns(f, n), w) /\ GetPeers(f, n, w) = g[Turns(f, n)]
<1> DEFINE A == WalkStates
           start == Begin(f, w)
<1>1. CASE n <= 0 \/ order[f] = <<>>
  <2> DEFINE g == [k \in 0 .. 0 |-> start]
  <2>1. g \in [0 .. 0 -> WalkStates] /\ Walks(g, f, 0, w)
    BY DEF Walks
  <2>2. GetPeers(f, n, w) = start
    BY <1>1 DEF GetPeers, Begin
  <2>3. GetPeers(f, n, w) = g[0]
    BY <2>2
  <2>4. Turns(f, n) = 0
    BY <1>1 DEF Turns
  <2> HIDE DEF g
  <2> QED BY <2>1, <2>3, <2>4
<1>2. CASE ~(n <= 0 \/ order[f] = <<>>)
  <2> DEFINE IsWalk(F) == F = [k \in 0 .. n |-> IF k = 0 THEN start ELSE Call(f, F[k - 1])]
             Walk == CHOOSE F : IsWalk(F)
             step == [k \in 1 .. n |-> [u \in A |-> Call(f, u)]]
  <2>1. n \in Nat /\ Turns(f, n) = n
    BY <1>2 DEF Turns
  <2>2. GetPeers(f, n, w) = Walk[n]
    BY <1>2 DEF GetPeers, Begin
  <2>3. step \in [1 .. n -> [A -> A]] /\ start \in A
    BY <1>2, CallTyped
  <2>4. \A k \in 1 .. n, u \in A : step[k][u] = Call(f, u)
    OBVIOUS
  <2> HIDE DEF step, start, A
  <2>5. \E g \in [0 .. n -> A] : Goes(g, n, start, step)
    BY <2>1, <2>3, Recursion
  <2>6. PICK g \in [0 .. n -> A] : Goes(g, n, start, step)
    BY <2>5
  <2>7. \A k \in 1 .. n : g[k - 1] \in A /\ g[k] = Call(f, g[k - 1])
    <3> SUFFICES ASSUME NEW k \in 1 .. n PROVE g[k - 1] \in A /\ g[k] = Call(f, g[k - 1])
      OBVIOUS
    <3>1. k - 1 \in 0 .. n
      BY <2>1
    <3> QED BY <2>4, <2>6, <3>1 DEF Goes
  <2>8. g[0] = start
    BY <2>6 DEF Goes
  <2>9. IsWalk(g)
    <3>1. \A k \in 0 .. n : k # 0 => k \in 1 .. n
      BY <2>1
    <3> QED BY <2>7, <2>8, <3>1
  <2>10. IsWalk(Walk)
    BY <2>9
  <2>11. /\ Walk[0] = start
         /\ \A k \in 1 .. n : Walk[k] = Call(f, Walk[k - 1])
    <3> HIDE DEF Walk
    <3>1. \A k \in 0 .. n : Walk[k] = IF k = 0 THEN start ELSE Call(f, Walk[k - 1])
      BY <2>10
    <3>2. 0 \in 0 .. n /\ \A k \in 1 .. n : k \in 0 .. n /\ k # 0
      BY <2>1
    <3> QED BY <3>1, <3>2
  <2> HIDE DEF Walk
  <2>12. \A k \in 0 .. n : Walk[k] = g[k]
    <3> DEFINE S == {k \in Nat : k <= n => Walk[k] = g[k]}
    <3>1. 0 \in S
      BY <2>8, <2>11
    <3>2. ASSUME NEW k \in S
          PROVE  k + 1 \in S
      <4> SUFFICES ASSUME k + 1 <= n PROVE Walk[k + 1] = g[k + 1]
        OBVIOUS
      <4>1. k + 1 \in 1 .. n /\ k + 1 - 1 = k /\ Walk[k] = g[k]
        BY <2>1
      <4>2. Walk[k + 1] = Call(f, Walk[k + 1 - 1]) /\ g[k + 1] = Call(f, g[k + 1 - 1])
        BY <2>7, <2>11, <4>1
      <4> QED BY <4>1, <4>2
    <3> HIDE DEF S
    <3>3. S \in SUBSET Nat
      BY DEF S
    <3>4. S = Nat
      BY <3>1, <3>2, <3>3, SetInduction
    <3> QED BY <2>1, <3>4 DEF S
  <2>13. GetPeers(f, n, w) = g[n]
    BY <2>1, <2>2, <2>12
  <2>14. g \in [0 .. n -> WalkStates] /\ Walks(g, f, n, w)
    BY <2>6, <2>7, <2>8 DEF A, start, Walks
  <2> QED BY <2>1, <2>13, <2>14
<1> QED BY <1>1, <1>2

-----------------------------------------------------------------------------
(* Type correctness *)

\* The inductive invariant: TypeOK, and what the functions are defined on.
RingTyped ==
  /\ TypeOK
  /\ order = [f \in Family |-> order[f]]
  /\ it = [f \in Family |-> it[f]]
  /\ waiting \in [Peer -> SUBSET Peer]

\* TypeOK lists each map's nodes.
LEMMA TypedListed ==
  ASSUME RingTyped PROVE Listed
BY DEF RingTyped, TypeOK, Listed, Once

\* The state in which getPeers begins is a state of its loop, whatever walk of
\* the other map came before it.
LEMMA BeginTyped ==
  ASSUME RingTyped, NEW f \in Family, NEW w,
         \/ w = [waiting |-> waiting, skipped |-> skipped]
         \/ w \in WalkStates
  PROVE  Begin(f, w) \in WalkStates
<1>1. /\ w.waiting \in [Peer -> SUBSET Peer] /\ w.skipped \in SUBSET (Peer \X Peer)
      /\ \A p \in Peer : w.waiting[p] \subseteq Members(FamilyOf(p)) \ {p}
  BY DEF RingTyped, TypeOK, WalkStates
<1>2. it[f] \in {"end", "freed", "wild", "crash"} \cup Members("ipv4") \cup Members("ipv6")
  BY DEF RingTyped, TypeOK
<1>3. <<>> \in Seq(Peer \cup {"departed"})
  OBVIOUS
<1> QED BY <1>1, <1>2, <1>3 DEF Begin, WalkStates

\* A walk leads from a state of the loop to another.
LEMMA WalkTyped ==
  ASSUME RingTyped, NEW f \in Family, NEW n \in Int, NEW w,
         \/ w = [waiting |-> waiting, skipped |-> skipped]
         \/ w \in WalkStates
  PROVE  GetPeers(f, n, w) \in WalkStates
<1>1. Turns(f, n) \in Nat
  BY DEF Turns
<1>2. Listed /\ Begin(f, w) \in WalkStates
  BY BeginTyped, TypedListed
<1>3. PICK g \in [0 .. Turns(f, n) -> WalkStates] : GetPeers(f, n, w) = g[Turns(f, n)]
  BY <1>2, GetPeersWalks
<1>4. Turns(f, n) \in 0 .. Turns(f, n)
  BY <1>1
<1> QED BY <1>3, <1>4

\* What announce() asks of each map.
LEMMA WantedTyped ==
  ASSUME Listed, NEW n \in Int, NEW f \in Family
  PROVE  /\ Wanted(n, f) \in Int /\ Wanted(n, f) <= n /\ Wanted(n, f) <= Len(order[f])
         /\ n >= 0 /\ MaxNumwant >= 0 => Wanted(n, f) >= 0
<1>1. Len(order[f]) \in Nat /\ MaxNumwant \in Int
  BY PeerRingAssumption DEF Listed
<1> QED BY <1>1 DEF Wanted, Least

\* An answer leaves the types as they are.
LEMMA AskTyped ==
  ASSUME RingTyped, NEW ipv6 \in BOOLEAN, NEW numwant \in Int, Ask(ipv6, numwant)
  PROVE  RingTyped'
<1> DEFINE i  == Wanted(numwant, "ipv4")
           j  == IF ipv6 THEN Wanted(i, "ipv6") ELSE 0
           w0 == [waiting |-> waiting, skipped |-> skipped]
           w6 == GetPeers("ipv6", j, w0)
           w4 == GetPeers("ipv4", i - j, w6)
<1>1. Listed /\ "ipv4" \in Family /\ "ipv6" \in Family
  BY TypedListed DEF Family
<1>2. i \in Int
  BY <1>1, WantedTyped
<1> HIDE DEF i
<1>3. j \in Int
  BY <1>1, <1>2, WantedTyped
<1>4. i - j \in Int
  BY <1>2, <1>3
<1>5. /\ up' = ("crash" \notin {w4.it, w6.it})
      /\ it' = IF up' THEN [f \in Family |-> IF f = "ipv4" THEN w4.it ELSE w6.it] ELSE it
      /\ answer' = IF up' THEN [f \in Family |->
                     IF f = "ipv4" THEN [declared |-> i - j, peers |-> w4.peers]
                     ELSE [declared |-> IF j > 0 THEN j ELSE 0, peers |-> w6.peers]]
                   ELSE answer
      /\ waiting' = w4.waiting /\ skipped' = w4.skipped
      /\ order' = order
  BY DEF Ask, i
<1> HIDE DEF j
<1>6. w6 \in WalkStates
  BY <1>1, <1>3, WalkTyped
<1> HIDE DEF w6
<1>7. w4 \in WalkStates
  BY <1>1, <1>4, <1>6, WalkTyped
<1> HIDE DEF w4
<1>8. \A f \in Family : Members(f)' = Members(f)
  BY <1>5 DEF Members
<1>9. /\ order' = [f \in Family |-> order'[f]]
      /\ it' = [f \in Family |-> it'[f]]
      /\ waiting' \in [Peer -> SUBSET Peer]
  BY <1>5, <1>7 DEF WalkStates, RingTyped
<1>10. \A f \in Family : it'[f] \in {"end", "freed", "wild"} \cup Members("ipv4") \cup Members("ipv6")
  <2>1. CASE up'
    BY <1>5, <1>6, <1>7, <2>1 DEF WalkStates, Family
  <2>2. CASE ~up'
    BY <1>5, <2>2 DEF RingTyped, TypeOK
  <2> QED BY <2>1, <2>2
<1>11. \A f \in Family : /\ answer'[f].declared \in Int
                         /\ answer'[f].peers \in Seq(Peer \cup {"departed"})
  <2>1. CASE up'
    BY <1>3, <1>4, <1>5, <1>6, <1>7, <2>1 DEF WalkStates, Family
  <2>2. CASE ~up'
    BY <1>5, <2>2 DEF RingTyped, TypeOK
  <2> QED BY <2>1, <2>2
<1>12. /\ up' \in BOOLEAN
       /\ \A p \in Peer : waiting'[p] \subseteq Members(FamilyOf(p)) \ {p}
       /\ skipped' \subseteq Peer \X Peer
  BY <1>5, <1>7 DEF WalkStates
<1>13. TypeOK'
  <2>1. \A f \in Family : /\ order'[f] \in Seq(PeersOf(f))
                          /\ \A k, l \in DOMAIN order'[f] : order'[f][k] = order'[f][l] => k = l
    BY <1>1, <1>5 DEF Listed, Once
  <2>2. Members("ipv4")' = Members("ipv4") /\ Members("ipv6")' = Members("ipv6")
    BY <1>1, <1>8
  <2>3. \A p \in Peer : Members(FamilyOf(p))' = Members(FamilyOf(p))
    BY <1>8, Families
  <2> QED BY <1>10, <1>11, <1>12, <2>1, <2>2, <2>3 DEF TypeOK
<1> QED BY <1>9, <1>13 DEF RingTyped

\* What addPeer makes of the lists: the peer joins the others, which keep their
\* order or begin a new round.
LEMMA AddedOrder ==
  ASSUME RingTyped, NEW p \in Peer, AddPeer(p)
  PROVE  LET f == FamilyOf(p) IN
         /\ f \in Family /\ p \in PeersOf(f) /\ p \notin Members(f)
         /\ order' = [g \in Family |-> order'[g]]
         /\ Listed'
         /\ Members(f)' = Members(f) \cup {p}
         /\ \A g \in Family \ {f} : order'[g] = order[g] /\ Members(g)' = Members(g)
         /\ \/ Keeps(order'[f], order[f], Members(f)) /\ waiting' = waiting
            \/ waiting' = [q \in Peer |-> IF q \in PeersOf(f) THEN {} ELSE waiting[q]]
<1> DEFINE f == FamilyOf(p)
           s == order[f]
<1>1. /\ f \in Family /\ p \in PeersOf(f) /\ p \notin Members(f) /\ Listed
      /\ s \in Seq(PeersOf(f)) /\ Once(s) /\ Members(f) = Elements(s)
  BY Families, TypedListed DEF AddPeer, Listed, Members
<1>2. order = [g \in Family |-> order[g]]
  BY DEF RingTyped
<1>3. \/ (\E k \in 0 .. Len(s) : order' = [order EXCEPT ![f] = Inserted(s, k, p)]) /\ waiting' = waiting
      \/ /\ \E t \in Orders(Members(f) \cup {p}) : order' = [order EXCEPT ![f] = t]
         /\ waiting' = [q \in Peer |-> IF q \in PeersOf(f) THEN {} ELSE waiting[q]]
  BY DEF AddPeer
<1> HIDE DEF f, s
<1>4. \E t : /\ t \in Seq(PeersOf(f)) /\ Once(t) /\ Elements(t) = Members(f) \cup {p}
             /\ order' = [order EXCEPT ![f] = t]
             /\ \/ Keeps(t, s, Members(f)) /\ waiting' = waiting
                \/ waiting' = [q \in Peer |-> IF q \in PeersOf(f) THEN {} ELSE waiting[q]]
  <2>1. CASE (\E k \in 0 .. Len(s) : order' = [order EXCEPT ![f] = Inserted(s, k, p)]) /\ waiting' = waiting
    <3>1. PICK k \in 0 .. Len(s) : order' = [order EXCEPT ![f] = Inserted(s, k, p)]
      BY <2>1
    <3>2. p \in PeersOf(f) \ Elements(s)
      BY <1>1
    <3> DEFINE t == Inserted(s, k, p)
    <3>3. /\ t \in Seq(PeersOf(f)) /\ Once(t) /\ Elements(t) = Elements(s) \cup {p}
          /\ Keeps(t, s, Elements(s))
      BY <1>1, <3>2, InsertedKeeps
    <3> QED BY <1>1, <2>1, <3>1, <3>3
  <2>2. CASE /\ \E t \in Orders(Members(f) \cup {p}) : order' = [order EXCEPT ![f] = t]
             /\ waiting' = [q \in Peer |-> IF q \in PeersOf(f) THEN {} ELSE waiting[q]]
    <3> DEFINE ps == Members(f) \cup {p}
    <3>1. PICK t \in Orders(ps) : order' = [order EXCEPT ![f] = t]
      BY <2>2
    <3>2. IsFiniteSet(Members(f))
      BY <1>1, OnceLength
    <3>3. IsFiniteSet(ps)
      BY <3>2, FS_AddElement
    <3>4. t \in Seq(ps) /\ Once(t) /\ Elements(t) = ps
      <4> HIDE DEF ps
      <4> QED BY <3>3, OrdersOnce
    <3>5. ps \subseteq PeersOf(f)
      BY <1>1, MembersListed
    <3>6. t \in Seq(PeersOf(f))
      BY <3>4, <3>5
    <3> QED BY <2>2, <3>1, <3>4, <3>6
  <2> QED BY <1>3, <2>1, <2>2
<1>5. PICK t : /\ t \in Seq(PeersOf(f)) /\ Once(t) /\ Elements(t) = Members(f) \cup {p}
               /\ order' = [order EXCEPT ![f] = t]
               /\ \/ Keeps(t, s, Members(f)) /\ waiting' = waiting
                  \/ waiting' = [q \in Peer |-> IF q \in PeersOf(f) THEN {} ELSE waiting[q]]
  BY <1>4
<1>6. order'[f] = t /\ \A g \in Family \ {f} : order'[g] = order[g]
  BY <1>1, <1>2, <1>5
<1>7. order' = [g \in Family |-> order'[g]]
  BY <1>2, <1>5
<1>8. Listed'
  BY <1>1, <1>5, <1>6 DEF Listed
<1>9. /\ Members(f)' = Members(f) \cup {p}
      /\ \A g \in Family \ {f} : Members(g)' = Members(g)
  BY <1>5, <1>6 DEF Members
<1> QED BY <1>1, <1>5, <1>6, <1>7, <1>8, <1>9 DEF f, s

\* addPeer leaves the types as they are.
LEMMA AddTyped ==
  ASSUME RingTyped, NEW p \in Peer, AddPeer(p)
  PROVE  RingTyped'
<1> DEFINE f == FamilyOf(p)
<1>1. /\ f \in Family /\ p \in PeersOf(f) /\ p \notin Members(f)
      /\ order' = [g \in Family |-> order'[g]]
      /\ Listed'
      /\ Members(f)' = Members(f) \cup {p}
      /\ \A g \in Family \ {f} : Members(g)' = Members(g)
      /\ \/ waiting' = waiting
         \/ waiting' = [q \in Peer |-> IF q \in PeersOf(f) THEN {} ELSE waiting[q]]
  BY AddedOrder
<1>2. /\ \/ it' = it
         \/ \E reused \in SUBSET Family : it' = [g \in Family |-> IF g \in reused THEN p ELSE it[g]]
      /\ UNCHANGED <<up, answer, skipped>>
  BY DEF AddPeer, Kept
<1> HIDE DEF f
<1>3. \A g \in Family : Members(g) \subseteq Members(g)'
  BY <1>1
<1>4. "ipv4" \in Family /\ "ipv6" \in Family /\ Family = {"ipv4", "ipv6"}
  BY DEF Family
<1>5. p \in Members("ipv4")' \cup Members("ipv6")'
  BY <1>1, <1>4
<1>6. \A g \in Family : it'[g] \in {"end", "freed", "wild"} \cup Members("ipv4")' \cup Members("ipv6")'
  <2>1. \A g \in Family : it'[g] = p \/ it'[g] = it[g]
    BY <1>2
  <2> QED BY <1>3, <1>4, <1>5, <2>1 DEF RingTyped, TypeOK
<1>7. it' = [g \in Family |-> it'[g]]
  BY <1>2 DEF RingTyped
<1>8. /\ waiting' \in [Peer -> SUBSET Peer]
      /\ \A q \in Peer : waiting'[q] \subseteq Members(FamilyOf(q))' \ {q}
  <2>1. \A q \in Peer : FamilyOf(q) \in Family
    BY Families
  <2>2. \A q \in Peer : waiting[q] \subseteq Members(FamilyOf(q)) \ {q} /\ waiting[q] \subseteq Peer
    BY DEF RingTyped, TypeOK
  <2>3. waiting' \in [Peer -> SUBSET Peer] /\ \A q \in Peer : waiting'[q] \subseteq waiting[q]
    BY <1>1 DEF RingTyped
  <2> QED BY <1>3, <2>1, <2>2, <2>3
<1>9. TypeOK'
  <2>1. \A g \in Family : /\ order'[g] \in Seq(PeersOf(g))
                          /\ \A k, l \in DOMAIN order'[g] : order'[g][k] = order'[g][l] => k = l
    BY <1>1 DEF Listed, Once
  <2>2. /\ up' \in BOOLEAN /\ skipped' \subseteq Peer \X Peer
        /\ \A g \in Family : answer'[g].declared \in Int
        /\ \A g \in Family : answer'[g].peers \in Seq(Peer \cup {"departed"})
    BY <1>2 DEF RingTyped, TypeOK
  <2> QED BY <1>6, <1>8, <2>1, <2>2 DEF TypeOK
<1> QED BY <1>1, <1>7, <1>8, <1>9 DEF RingTyped

\* What an erasure makes of the lists: the others keep their order.
LEMMA ErasedOrder ==
  ASSUME RingTyped, NEW f \in Family, NEW ps \in SUBSET Members(f), Erase(f, ps)
  PROVE  /\ order' = [g \in Family |-> order'[g]]
         /\ Listed'
         /\ Members(f)' = Members(f) \ ps
         /\ \A g \in Family \ {f} : order'[g] = order[g] /\ Members(g)' = Members(g)
         /\ Keeps(order'[f], order[f], Members(f) \ ps)
<1> DEFINE s == order[f]
           t == Remaining(s, ps)
<1>1. Listed /\ s \in Seq(PeersOf(f)) /\ Once(s) /\ Members(f) = Elements(s)
  BY TypedListed DEF Listed, Members
<1>2. order = [g \in Family |-> order[g]]
  BY DEF RingTyped
<1>3. order' = [order EXCEPT ![f] = t]
  BY DEF Erase
<1>4. /\ t \in Seq(PeersOf(f)) /\ Once(t) /\ Elements(t) = Members(f) \ ps
      /\ Keeps(t, s, Members(f) \ ps)
  <2> HIDE DEF s
  <2>1. /\ t \in Seq(PeersOf(f)) /\ Once(t) /\ Elements(t) = Elements(s) \ ps
        /\ Keeps(t, s, Elements(s) \ ps)
    BY <1>1, RemainingKeeps
  <2> QED BY <1>1, <2>1
<1> HIDE DEF t
<1>5. order'[f] = t /\ \A g \in Family \ {f} : order'[g] = order[g]
  BY <1>2, <1>3
<1>6. order' = [g \in Family |-> order'[g]]
  BY <1>2, <1>3
<1>7. Listed'
  BY <1>1, <1>4, <1>5 DEF Listed
<1>8. /\ Members(f)' = Members(f) \ ps
      /\ \A g \in Family \ {f} : Members(g)' = Members(g)
  BY <1>4, <1>5 DEF Members
<1> QED BY <1>4, <1>5, <1>6, <1>7, <1>8

\* An erasure leaves the types as they are.
LEMMA EraseTyped ==
  ASSUME RingTyped, NEW f \in Family, NEW ps \in SUBSET Members(f), Erase(f, ps)
  PROVE  RingTyped'
<1>1. /\ order' = [g \in Family |-> order'[g]]
      /\ Listed'
      /\ Members(f)' = Members(f) \ ps
      /\ \A g \in Family \ {f} : Members(g)' = Members(g)
  BY ErasedOrder
<1>2. /\ it' = [g \in Family |-> IF it[g] \in ps THEN "freed" ELSE it[g]]
      /\ waiting' = [q \in Peer |-> IF q \in ps \/ it'[FamilyOf(q)] = "freed" THEN {}
                                    ELSE waiting[q] \ ps]
      /\ UNCHANGED <<up, answer, skipped>>
  BY DEF Erase, Cursors
<1>3. \A g \in Family : Members(g) \ ps \subseteq Members(g)'
  BY <1>1
<1>4. Family = {"ipv4", "ipv6"}
  BY DEF Family
<1>5. \A g \in Family : it'[g] \in {"end", "freed", "wild"} \cup Members("ipv4")' \cup Members("ipv6")'
  BY <1>2, <1>3, <1>4 DEF RingTyped, TypeOK
<1>6. it' = [g \in Family |-> it'[g]]
  BY <1>2
<1>7. /\ waiting' \in [Peer -> SUBSET Peer]
      /\ \A q \in Peer : waiting'[q] \subseteq Members(FamilyOf(q))' \ {q}
  <2>1. \A q \in Peer : FamilyOf(q) \in Family
    BY Families
  <2>2. \A q \in Peer : waiting[q] \subseteq Members(FamilyOf(q)) \ {q} /\ waiting[q] \subseteq Peer
    BY DEF RingTyped, TypeOK
  <2>3. waiting' \in [Peer -> SUBSET Peer] /\ \A q \in Peer : waiting'[q] \subseteq waiting[q] \ ps
    BY <1>2, <2>2
  <2> QED BY <1>3, <2>1, <2>2, <2>3
<1>8. TypeOK'
  <2>1. \A g \in Family : /\ order'[g] \in Seq(PeersOf(g))
                          /\ \A k, l \in DOMAIN order'[g] : order'[g][k] = order'[g][l] => k = l
    BY <1>1 DEF Listed, Once
  <2>2. /\ up' \in BOOLEAN /\ skipped' \subseteq Peer \X Peer
        /\ \A g \in Family : answer'[g].declared \in Int
        /\ \A g \in Family : answer'[g].peers \in Seq(Peer \cup {"departed"})
    BY <1>2 DEF RingTyped, TypeOK
  <2> QED BY <1>5, <1>7, <2>1, <2>2 DEF TypeOK
<1> QED BY <1>1, <1>6, <1>7, <1>8 DEF RingTyped

\* The types hold at the start.
LEMMA InitTyped == Init => RingTyped
<1> SUFFICES ASSUME Init PROVE RingTyped
  OBVIOUS
<1>1. \A f \in Family : order[f] = <<>> /\ Members(f) = {} /\ it[f] = "end"
  BY DEF Init, Members, Elements
<1>2. TypeOK
  <2>1. \A f \in Family : /\ order[f] \in Seq(PeersOf(f))
                          /\ \A k, l \in DOMAIN order[f] : order[f][k] = order[f][l] => k = l
                          /\ it[f] \in {"end", "freed", "wild"} \cup Members("ipv4") \cup Members("ipv6")
    <3>1. ASSUME NEW f \in Family, NEW s, s = <<>>
          PROVE  s \in Seq(PeersOf(f)) /\ DOMAIN s = {}
      BY <3>1
    <3>2. \A f \in Family : order[f] \in Seq(PeersOf(f)) /\ DOMAIN order[f] = {}
      BY <1>1, <3>1
    <3> QED BY <1>1, <3>2
  <2>2. \A f \in Family : /\ answer[f].declared \in Int
                          /\ answer[f].peers \in Seq(Peer \cup {"departed"})
    <3> DEFINE none == <<>>
    <3>1. none \in Seq(Peer \cup {"departed"})
      OBVIOUS
    <3>2. answer = [f \in Family |-> [declared |-> 0, peers |-> none]]
      BY DEF Init, NoAnswer
    <3> HIDE DEF none
    <3> QED BY <3>1, <3>2
  <2>3. /\ up \in BOOLEAN /\ skipped \subseteq Peer \X Peer
        /\ \A p \in Peer : waiting[p] \subseteq Members(FamilyOf(p)) \ {p}
    BY DEF Init
  <2> QED BY <2>1, <2>2, <2>3 DEF TypeOK
<1> QED BY <1>2 DEF Init, RingTyped

\* Every step keeps them.
LEMMA StepTyped == RingTyped /\ [Next]_vars => RingTyped'
<1> SUFFICES ASSUME RingTyped, [Next]_vars PROVE RingTyped'
  OBVIOUS
<1>1. ASSUME NEW ipv6 \in BOOLEAN, NEW numwant \in Numwants \cup {DefaultNumwant}, Ask(ipv6, numwant)
      PROVE  RingTyped'
  BY <1>1, AskTyped, PeerRingAssumption
<1>2. ASSUME NEW p \in Peer, AddPeer(p)
      PROVE  RingTyped'
  BY <1>2, AddTyped
<1>3. ASSUME NEW p \in Peer, RemovePeer(p)
      PROVE  RingTyped'
  BY <1>3, EraseTyped, Families DEF RemovePeer
<1>4. ASSUME NEW f \in Family, TimedOut(f)
      PROVE  RingTyped'
  BY <1>4, EraseTyped DEF TimedOut
<1>5. CASE UNCHANGED vars
  BY <1>5 DEF vars, RingTyped, TypeOK, Members
<1> QED BY <1>1, <1>2, <1>3, <1>4, <1>5 DEF Next

\* RingTyped holds throughout.
LEMMA AlwaysTyped == Spec => []RingTyped
BY InitTyped, StepTyped, PTL DEF Spec

\* No step of any actor puts a peer into a map twice, leaves a cursor on a node
\* that is neither in a map nor known to be lost, or keeps a departed peer
\* waiting for its turn (peers.cpp, requestHandler.cpp:182-258).
THEOREM TypeCorrect == Spec => []TypeOK
<1>1. RingTyped => TypeOK
  BY DEF RingTyped
<1> QED BY <1>1, AlwaysTyped, PTL

-----------------------------------------------------------------------------
(* The ring is fair *)

\* The cursor c is on a node of map f, or before the first.
Own(f, c) == c = "end" \/ c \in Members(f)

\* The cursor c of map f reaches those who wait for p before it reaches p.
InTurn(f, c, wait) ==
  \A p \in PeersOf(f) : \A q \in wait[p] : Own(f, c) /\ Sooner(order[f], c, q, p)

\* A turn of the loop whose cursor is its own: the peer under the cursor is
\* handed out and the cursor moves to the next.
LEMMA OwnCall ==
  ASSUME Listed, NEW f \in Family, order[f] # <<>>, NEW w \in WalkStates, Own(f, w.it)
  PROVE  \E m \in DOMAIN order[f] :
           LET p == order[f][m]
               v == Call(f, w)
           IN /\ p \in Members(f)
              /\ IF w.it = "end" THEN m = 1 ELSE p = w.it
              /\ v.it = IF m = Len(order[f]) THEN "end" ELSE order[f][m + 1]
              /\ v.peers = Append(w.peers, p)
              /\ v.skipped = w.skipped \cup ({p} \X w.waiting[p])
              /\ v.waiting = [q \in Peer |-> IF q = p THEN Members(f) \ {p} ELSE w.waiting[q] \ {p}]
<1> DEFINE s == order[f]
<1>1. \E m \in DOMAIN s : IF w.it = "end" THEN m = 1 ELSE s[m] = w.it
  <2>1. CASE w.it = "end"
    <3>1. 1 \in DOMAIN s
      BY DEF Listed
    <3> QED BY <2>1, <3>1
  <2>2. CASE w.it # "end"
    <3>1. w.it \in Members(f)
      BY <2>2 DEF Own
    <3> QED BY <2>2, <3>1 DEF Members, Elements
  <2> QED BY <2>1, <2>2
<1>2. PICK m \in DOMAIN s : IF w.it = "end" THEN m = 1 ELSE s[m] = w.it
  BY <1>1
<1> DEFINE p == s[m]
           next == IF m = Len(s) THEN "end" ELSE s[m + 1]
<1>3. p \in Members(f) /\ After(p) = next
  BY AfterListed
<1>4. w \in [it : {w.it}, peers : {w.peers}, waiting : {w.waiting}, skipped : {w.skipped}]
  BY DEF WalkStates
<1>5. NextPeer(f, w.it) = [peer |-> p, it |-> next]
  <2> HIDE DEF next
  <2>1. CASE w.it = "end"
    <3>1. p = order[f][1]
      BY <1>2, <2>1
    <3>2. "end" \notin Peer
      BY Families
    <3> HIDE DEF p
    <3> QED BY <1>3, <2>1, <3>1, <3>2 DEF NextPeer
  <2>2. CASE w.it # "end"
    <3>1. w.it = p /\ p \in Peer
      BY <1>2, <1>3, <2>2, MembersListed
    <3>2. p # "end" /\ p # "freed"
      BY <3>1, Families
    <3> HIDE DEF p
    <3> QED BY <1>3, <3>1, <3>2 DEF NextPeer
  <2> QED BY <2>1, <2>2
<1> HIDE DEF p, next
<1> DEFINE u == [w EXCEPT !.it = next, !.peers = Append(@, p)]
<1>6. Call(f, w) = HandOut(u, f, p)
  BY <1>5 DEF Call
<1>7. /\ u.it = next /\ u.peers = Append(w.peers, p)
      /\ u.waiting = w.waiting /\ u.skipped = w.skipped
      /\ u \in [it : {next}, peers : {Append(w.peers, p)},
                waiting : {w.waiting}, skipped : {w.skipped}]
  BY <1>4
<1> HIDE DEF u
<1>8. HandOut(u, f, p) = [u EXCEPT !.skipped = @ \cup ({p} \X u.waiting[p]),
                                   !.waiting = [q \in Peer |-> IF q = p THEN Members(f) \ {p} ELSE @[q] \ {p}]]
  BY <1>3 DEF HandOut
<1>9. LET v == Call(f, w) IN
      /\ v.it = next /\ v.peers = Append(w.peers, p)
      /\ v.skipped = w.skipped \cup ({p} \X w.waiting[p])
      /\ v.waiting = [q \in Peer |-> IF q = p THEN Members(f) \ {p} ELSE w.waiting[q] \ {p}]
  BY <1>6, <1>7, <1>8
<1> QED BY <1>2, <1>3, <1>9 DEF p, next

\* A turn whose cursor is lost, or on a node of the other map, hands out nobody
\* of this one.
LEMMA ForeignCall ==
  ASSUME Listed, NEW f \in Family, order[f] # <<>>, NEW w \in WalkStates, ~Own(f, w.it)
  PROVE  Call(f, w).waiting = w.waiting /\ Call(f, w).skipped = w.skipped
<1> DEFINE next == NextPeer(f, w.it)
           u == [w EXCEPT !.it = next.it, !.peers = Append(@, next.peer)]
<1>1. next.peer = w.it \/ next.peer = "departed"
  BY DEF NextPeer, Own
<1>2. next.peer \notin Members(f)
  <2>1. "departed" \notin Members(f)
    BY MembersListed, Families
  <2> QED BY <1>1, <2>1 DEF Own
<1>3. u.waiting = w.waiting /\ u.skipped = w.skipped
  BY DEF WalkStates
<1> HIDE DEF next, u
<1>4. HandOut(u, f, next.peer) = u
  BY <1>2 DEF HandOut
<1>5. Call(f, w) = HandOut(u, f, next.peer)
  BY DEF Call, u, next
<1> QED BY <1>3, <1>4, <1>5

\* One turn of the loop skips nobody and keeps everyone's turn.
LEMMA CallInTurn ==
  ASSUME Listed, NEW f \in Family, order[f] # <<>>, NEW w \in WalkStates,
         InTurn(f, w.it, w.waiting), w.skipped = {}
  PROVE  LET v == Call(f, w) IN
         /\ InTurn(f, v.it, v.waiting)
         /\ v.skipped = {}
         /\ \A q \in Peer \ PeersOf(f) : v.waiting[q] \subseteq w.waiting[q]
<1> DEFINE v == Call(f, w)
<1>1. CASE Own(f, w.it)
  <2> DEFINE s == order[f]
             c == w.it
  <2>1. PICK m \in DOMAIN s :
           LET p == s[m] IN
           /\ p \in Members(f)
           /\ IF w.it = "end" THEN m = 1 ELSE p = w.it
           /\ v.it = IF m = Len(s) THEN "end" ELSE s[m + 1]
           /\ v.skipped = w.skipped \cup ({p} \X w.waiting[p])
           /\ v.waiting = [q \in Peer |-> IF q = p THEN Members(f) \ {p} ELSE w.waiting[q] \ {p}]
    BY <1>1, OwnCall
  <2> DEFINE p == s[m]
  <2>2. /\ s \in Seq(PeersOf(f)) /\ Once(s) /\ "end" \notin PeersOf(f) /\ s # <<>>
        /\ c = "end" \/ c \in Elements(s)
        /\ IF c = "end" THEN m = 1 ELSE s[m] = c
        /\ Members(f) = Elements(s)
    BY <1>1, <2>1, Families DEF Listed, Own, Members
  <2>3. /\ v.it = IF m = Len(s) THEN "end" ELSE s[m + 1]
        /\ v.skipped = w.skipped \cup ({p} \X w.waiting[p])
        /\ v.waiting = [q \in Peer |-> IF q = p THEN Members(f) \ {p} ELSE w.waiting[q] \ {p}]
        /\ p \in Members(f) /\ p \in PeersOf(f)
    BY <2>1, MembersListed
  <2> HIDE DEF s, c, v
  <2>4. /\ \A x \in Elements(s) : ~Sooner(s, c, x, p)
        /\ \A x \in Elements(s) \ {p} : Sooner(s, v.it, x, p)
        /\ \A x, y \in Elements(s) \ {p} : Sooner(s, c, x, y) => Sooner(s, v.it, x, y)
        /\ v.it = "end" \/ v.it \in Elements(s)
    <3>1. LET x1   == s[m]
              next == IF m = Len(s) THEN "end" ELSE s[m + 1]
          IN /\ \A x \in Elements(s) : ~Sooner(s, c, x, x1)
             /\ \A x \in Elements(s) \ {x1} : Sooner(s, next, x, x1)
             /\ \A x, y \in Elements(s) \ {x1} : Sooner(s, c, x, y) => Sooner(s, next, x, y)
             /\ next = "end" \/ next \in Elements(s)
      BY <2>2, NextInRound
    <3> QED BY <2>3, <3>1
  <2> HIDE DEF p
  <2>5. \A q \in PeersOf(f) : \A x \in w.waiting[q] : Sooner(s, c, x, q)
    BY DEF InTurn, s, c
  <2>6. \A x, q : Sooner(s, c, x, q) => x \in Elements(s) /\ q \in Elements(s)
    BY DEF Sooner, Elements
  <2>7. w.waiting[p] = {}
    BY <2>3, <2>4, <2>5, <2>6
  <2>8. v.skipped = {}
    BY <2>3, <2>7
  <2>9. ASSUME NEW q \in PeersOf(f), NEW x \in v.waiting[q]
        PROVE  Own(f, v.it) /\ Sooner(s, v.it, x, q)
    <3>1. Own(f, v.it)
      BY <2>2, <2>4 DEF Own
    <3>2. q \in Peer
      BY Families
    <3>3. CASE q = p
      BY <2>2, <2>3, <2>4, <3>1, <3>2, <3>3
    <3>4. CASE q # p
      <4>1. x \in w.waiting[q] /\ x # p
        BY <2>3, <2>9, <3>2, <3>4
      <4> QED BY <2>4, <2>5, <2>6, <3>1, <3>4, <4>1
    <3> QED BY <3>3, <3>4
  <2>10. InTurn(f, v.it, v.waiting)
    BY <2>9 DEF InTurn, s
  <2>11. \A q \in Peer \ PeersOf(f) : v.waiting[q] \subseteq w.waiting[q]
    BY <2>3
  <2> QED BY <2>8, <2>10, <2>11 DEF v
<1>2. CASE ~Own(f, w.it)
  <2>1. v.waiting = w.waiting /\ v.skipped = w.skipped
    BY <1>2, ForeignCall
  <2>2. \A p \in PeersOf(f) : w.waiting[p] = {}
    BY <1>2 DEF InTurn
  <2> HIDE DEF v
  <2>3. InTurn(f, v.it, v.waiting)
    BY <2>1, <2>2 DEF InTurn
  <2> QED BY <2>1, <2>3 DEF v
<1> QED BY <1>1, <1>2

\* So do all the turns of a call of getPeers; the peers of the other map are at
\* most waited for less.
LEMMA WalkInTurn ==
  ASSUME RingTyped, NEW f \in Family, NEW n \in Int, NEW w,
         \/ w = [waiting |-> waiting, skipped |-> skipped]
         \/ w \in WalkStates,
         InTurn(f, it[f], w.waiting), w.skipped = {}
  PROVE  LET v == GetPeers(f, n, w) IN
         /\ InTurn(f, v.it, v.waiting)
         /\ v.skipped = {}
         /\ \A q \in Peer \ PeersOf(f) : v.waiting[q] \subseteq w.waiting[q]
<1> DEFINE m == Turns(f, n)
           Good(v) == /\ InTurn(f, v.it, v.waiting)
                      /\ v.skipped = {}
                      /\ \A q \in Peer \ PeersOf(f) : v.waiting[q] \subseteq w.waiting[q]
<1>1. m \in Nat /\ (m # 0 => order[f] # <<>>)
  BY DEF Turns
<1>2. Listed /\ Begin(f, w) \in WalkStates
  BY BeginTyped, TypedListed
<1>3. PICK g \in [0 .. m -> WalkStates] : Walks(g, f, m, w) /\ GetPeers(f, n, w) = g[m]
  BY <1>2, GetPeersWalks
<1> HIDE DEF m
<1>4. Good(g[0])
  BY <1>3 DEF Walks, Begin
<1>5. ASSUME NEW k \in Nat, k + 1 <= m, Good(g[k])
      PROVE  Good(g[k + 1])
  <2>1. k + 1 \in 1 .. m /\ k + 1 - 1 = k /\ k \in 0 .. m /\ m # 0
    BY <1>1, <1>5
  <2>2. g[k + 1] = Call(f, g[k]) /\ g[k] \in WalkStates
    BY <1>3, <2>1 DEF Walks
  <2> DEFINE u == g[k]
  <2>3. u \in WalkStates /\ InTurn(f, u.it, u.waiting) /\ u.skipped = {}
    BY <1>5, <2>2
  <2> HIDE DEF u
  <2>4. LET v == Call(f, u) IN
        /\ InTurn(f, v.it, v.waiting)
        /\ v.skipped = {}
        /\ \A q \in Peer \ PeersOf(f) : v.waiting[q] \subseteq u.waiting[q]
    BY <1>1, <1>2, <2>1, <2>3, CallInTurn
  <2>5. g[k + 1] = Call(f, u)
    BY <2>2 DEF u
  <2>6. \A q \in Peer \ PeersOf(f) : u.waiting[q] \subseteq w.waiting[q]
    BY <1>5 DEF u
  <2> QED BY <2>4, <2>5, <2>6
<1> DEFINE N == {k \in Nat : k <= m => Good(g[k])}
<1> HIDE DEF Good
<1>6. 0 \in N /\ \A k \in N : k + 1 \in N
  BY <1>1, <1>4, <1>5
<1>7. Good(g[m])
  <2> HIDE DEF N
  <2>1. N \in SUBSET Nat
    BY DEF N
  <2>2. N = Nat
    BY <1>6, <2>1, SetInduction
  <2> QED BY <1>1, <2>2 DEF N
<1> QED BY <1>3, <1>7 DEF Good

\* The inductive invariant: while the process is up, each cursor reaches those
\* who wait for a peer before it reaches that peer.
RoundKept ==
  /\ skipped = {}
  /\ up => \A f \in Family : InTurn(f, it[f], waiting)

\* With fewer who wait, everyone is still in turn.
LEMMA InTurnLess ==
  ASSUME NEW f, NEW c, NEW wait, NEW less, InTurn(f, c, wait),
         \A p \in PeersOf(f) : less[p] \subseteq wait[p]
  PROVE  InTurn(f, c, less)
BY DEF InTurn

\* An answer skips nobody.
LEMMA AskInTurn ==
  ASSUME RingTyped, RoundKept, NEW ipv6 \in BOOLEAN, NEW numwant \in Int, Ask(ipv6, numwant)
  PROVE  RoundKept'
<1> DEFINE i  == Wanted(numwant, "ipv4")
           j  == IF ipv6 THEN Wanted(i, "ipv6") ELSE 0
           w0 == [waiting |-> waiting, skipped |-> skipped]
           w6 == GetPeers("ipv6", j, w0)
           w4 == GetPeers("ipv4", i - j, w6)
<1>1. Listed /\ "ipv4" \in Family /\ "ipv6" \in Family
  BY TypedListed DEF Family
<1>2. i \in Int
  BY <1>1, WantedTyped
<1> HIDE DEF i
<1>3. j \in Int
  BY <1>1, <1>2, WantedTyped
<1>4. i - j \in Int
  BY <1>2, <1>3
<1>5. /\ up
      /\ up' => it' = [f \in Family |-> IF f = "ipv4" THEN w4.it ELSE w6.it]
      /\ waiting' = w4.waiting /\ skipped' = w4.skipped
      /\ order' = order
  BY DEF Ask, i
<1>6. \A f \in Family : InTurn(f, it[f], waiting)
  BY <1>5 DEF RoundKept
<1>7. \A p \in PeersOf("ipv4") : p \in Peer \ PeersOf("ipv6")
  BY PeerRingAssumption DEF PeersOf, Peer
<1>8. \A p \in PeersOf("ipv6") : p \in Peer \ PeersOf("ipv4")
  BY PeerRingAssumption DEF PeersOf, Peer
<1> HIDE DEF j
<1>9. w0.waiting = waiting /\ w0.skipped = {}
  BY DEF RoundKept
<1>10. /\ InTurn("ipv6", w6.it, w6.waiting)
       /\ w6.skipped = {}
       /\ \A q \in Peer \ PeersOf("ipv6") : w6.waiting[q] \subseteq waiting[q]
  <2> DEFINE w == w0
  <2>1. InTurn("ipv6", it["ipv6"], w.waiting) /\ w.skipped = {}
    BY <1>1, <1>6, <1>9
  <2>2. w = [waiting |-> waiting, skipped |-> skipped]
    OBVIOUS
  <2> HIDE DEF w
  <2>3. LET v == GetPeers("ipv6", j, w) IN
        /\ InTurn("ipv6", v.it, v.waiting)
        /\ v.skipped = {}
        /\ \A q \in Peer \ PeersOf("ipv6") : v.waiting[q] \subseteq w.waiting[q]
    BY <1>1, <1>3, <2>1, <2>2, WalkInTurn
  <2> QED BY <1>9, <2>3 DEF w
<1>11. w6 \in WalkStates
  BY <1>1, <1>3, WalkTyped
<1> HIDE DEF w6
<1>12. InTurn("ipv4", it["ipv4"], w6.waiting)
  BY <1>1, <1>6, <1>7, <1>10, InTurnLess
<1>13. /\ InTurn("ipv4", w4.it, w4.waiting)
       /\ w4.skipped = {}
       /\ \A q \in Peer \ PeersOf("ipv4") : w4.waiting[q] \subseteq w6.waiting[q]
  BY <1>1, <1>4, <1>10, <1>11, <1>12, WalkInTurn
<1>14. InTurn("ipv6", w6.it, w4.waiting)
  BY <1>8, <1>10, <1>13, InTurnLess
<1> HIDE DEF w4
<1>15. ASSUME up', NEW f \in Family
       PROVE  InTurn(f, it[f], waiting)'
  <2>1. f = "ipv4" \/ f = "ipv6"
    BY DEF Family
  <2>2. InTurn(f, it'[f], waiting')
    BY <1>1, <1>5, <1>13, <1>14, <1>15, <2>1
  <2> QED BY <1>5, <2>2 DEF InTurn, Own, Members
<1> QED BY <1>5, <1>13, <1>15 DEF RoundKept

\* A list of map f that keeps the order of the nodes K, the cursor's among them,
\* keeps their turns.
LEMMA SoonerKept ==
  ASSUME RingTyped, Listed', NEW f \in Family, NEW K, Keeps(order'[f], order[f], K),
         NEW c, c = "end" \/ (c \in K /\ c \in Members(f)),
         NEW x \in K, NEW y \in K, Sooner(order[f], c, x, y)
  PROVE  Sooner(order'[f], c, x, y)
<1> DEFINE S == PeersOf(f)
           s == order[f]
           t == order'[f]
<1>1. s \in Seq(S) /\ Once(s) /\ t \in Seq(S) /\ Once(t)
  BY TypedListed DEF Listed
<1>2. (c \in K /\ c \in Elements(s)) \/ c \notin S
  BY Families DEF Members
<1>3. /\ \A a, b \in DOMAIN s : a < b /\ s[a] \in K /\ s[b] \in K =>
           \E k, l \in DOMAIN t : k < l /\ t[k] = s[a] /\ t[l] = s[b]
      /\ \A a \in DOMAIN s : s[a] \in K => \E k \in DOMAIN t : t[k] = s[a]
  BY DEF Keeps
<1>4. Sooner(s, c, x, y)
  OBVIOUS
<1> HIDE DEF S, s, t
<1>5. Sooner(t, c, x, y)
  BY <1>1, <1>2, <1>3, <1>4, TurnsKept
<1> QED BY <1>5 DEF t

\* A peer that joins takes nobody's turn.
LEMMA AddInTurn ==
  ASSUME RingTyped, RoundKept, NEW p \in Peer, AddPeer(p)
  PROVE  RoundKept'
<1> DEFINE f == FamilyOf(p)
<1>1. /\ f \in Family
      /\ Listed'
      /\ Members(f)' = Members(f) \cup {p}
      /\ \A g \in Family \ {f} : order'[g] = order[g] /\ Members(g)' = Members(g)
      /\ \/ Keeps(order'[f], order[f], Members(f)) /\ waiting' = waiting
         \/ waiting' = [q \in Peer |-> IF q \in PeersOf(f) THEN {} ELSE waiting[q]]
  BY AddedOrder
<1>2. /\ up /\ skipped' = skipped
      /\ \A g \in Family : it[g] # "freed" => it'[g] = it[g]
  BY DEF AddPeer, Kept
<1> HIDE DEF f
<1>3. ASSUME NEW g \in Family, NEW q \in PeersOf(g), NEW x \in waiting'[q]
      PROVE  Own(g, it[g])' /\ Sooner(order'[g], it'[g], x, q)
  <2>1. q \in Peer /\ x \in waiting[q] /\ (g = f => waiting' = waiting)
    BY <1>1, <1>3, Families
  <2>2. Own(g, it[g]) /\ Sooner(order[g], it[g], x, q)
    BY <1>2, <2>1 DEF RoundKept, InTurn
  <2>3. it[g] # "freed"
    BY <2>2, TypedListed, MembersListed, Families DEF Own
  <2>4. it'[g] = it[g]
    BY <1>2, <2>3
  <2>5. Own(g, it[g])'
    BY <1>1, <2>2, <2>4 DEF Own
  <2>6. CASE g # f
    BY <1>1, <2>2, <2>4, <2>5, <2>6
  <2>7. CASE g = f
    <3>1. CASE Keeps(order'[f], order[f], Members(f)) /\ waiting' = waiting
      <4>1. x \in Members(f) /\ q \in Members(f)
        BY <2>2, <2>7 DEF Sooner, Members, Elements
      <4>2. it[f] = "end" \/ (it[f] \in Members(f) /\ it[f] \in Members(f))
        BY <2>2, <2>7 DEF Own
      <4>3. Sooner(order[f], it[f], x, q) /\ Keeps(order'[f], order[f], Members(f))
        BY <2>2, <2>7, <3>1
      <4> DEFINE c == it[f]
                 K == Members(f)
      <4> HIDE DEF c, K
      <4>4. Sooner(order'[f], c, x, q)
        BY <1>1, <4>1, <4>2, <4>3, SoonerKept DEF c, K
      <4> QED BY <2>4, <2>5, <2>7, <4>4 DEF c
    <3>2. CASE waiting' = [r \in Peer |-> IF r \in PeersOf(f) THEN {} ELSE waiting[r]]
      BY <1>3, <2>1, <2>7, <3>2
    <3> QED BY <1>1, <3>1, <3>2
  <2> QED BY <2>6, <2>7
<1> QED BY <1>2, <1>3 DEF RoundKept, InTurn

\* Those who leave take nobody's turn.
LEMMA EraseInTurn ==
  ASSUME RingTyped, RoundKept, NEW f \in Family, NEW ps \in SUBSET Members(f), Erase(f, ps)
  PROVE  RoundKept'
<1>1. /\ Listed'
      /\ Members(f)' = Members(f) \ ps
      /\ \A g \in Family \ {f} : order'[g] = order[g] /\ Members(g)' = Members(g)
      /\ Keeps(order'[f], order[f], Members(f) \ ps)
  BY ErasedOrder
<1>2. /\ up /\ skipped' = skipped
      /\ it' = [g \in Family |-> IF it[g] \in ps THEN "freed" ELSE it[g]]
      /\ waiting' = [q \in Peer |-> IF q \in ps \/ it'[FamilyOf(q)] = "freed" THEN {}
                                    ELSE waiting[q] \ ps]
  BY DEF Erase, Cursors
<1>3. ASSUME NEW g \in Family, NEW q \in PeersOf(g), NEW x \in waiting'[q]
      PROVE  Own(g, it[g])' /\ Sooner(order'[g], it'[g], x, q)
  <2>1. q \in Peer /\ FamilyOf(q) = g
    BY Families
  <2>2. q \notin ps /\ it'[g] # "freed" /\ x \in waiting[q] /\ x \notin ps
    BY <1>2, <1>3, <2>1
  <2>3. it'[g] = it[g] /\ it[g] \notin ps
    BY <1>2, <2>2
  <2>4. Own(g, it[g]) /\ Sooner(order[g], it[g], x, q)
    BY <1>2, <2>2 DEF RoundKept, InTurn
  <2>5. Own(g, it[g])'
    BY <1>1, <2>3, <2>4 DEF Own
  <2>6. CASE g # f
    BY <1>1, <2>3, <2>4, <2>5, <2>6
  <2>7. CASE g = f
    <3> DEFINE c == it[f]
               K == Members(f) \ ps
    <3>1. x \in K /\ q \in K
      <4>1. x \in Members(f) /\ q \in Members(f)
        BY <2>4, <2>7 DEF Sooner, Members, Elements
      <4> QED BY <2>2, <4>1
    <3>2. c = "end" \/ (c \in K /\ c \in Members(f))
      BY <2>3, <2>4, <2>7 DEF Own
    <3>3. Sooner(order[f], c, x, q) /\ Keeps(order'[f], order[f], K)
      BY <1>1, <2>4, <2>7
    <3> HIDE DEF c, K
    <3>4. Sooner(order'[f], c, x, q)
      BY <1>1, <3>1, <3>2, <3>3, SoonerKept
    <3> QED BY <2>3, <2>5, <2>7, <3>4 DEF c
  <2> QED BY <2>6, <2>7
<1> QED BY <1>2, <1>3 DEF RoundKept, InTurn

\* Every step keeps the round.
LEMMA StepInTurn == RingTyped /\ RoundKept /\ [Next]_vars => RoundKept'
<1> SUFFICES ASSUME RingTyped, RoundKept, [Next]_vars PROVE RoundKept'
  OBVIOUS
<1>1. ASSUME NEW ipv6 \in BOOLEAN, NEW numwant \in Numwants \cup {DefaultNumwant}, Ask(ipv6, numwant)
      PROVE  RoundKept'
  BY <1>1, AskInTurn, PeerRingAssumption
<1>2. ASSUME NEW p \in Peer, AddPeer(p)
      PROVE  RoundKept'
  BY <1>2, AddInTurn
<1>3. ASSUME NEW p \in Peer, RemovePeer(p)
      PROVE  RoundKept'
  BY <1>3, EraseInTurn, Families DEF RemovePeer
<1>4. ASSUME NEW f \in Family, TimedOut(f)
      PROVE  RoundKept'
  BY <1>4, EraseInTurn DEF TimedOut
<1>5. CASE UNCHANGED vars
  BY <1>5 DEF vars, RoundKept, InTurn, Own, Members
<1> QED BY <1>1, <1>2, <1>3, <1>4, <1>5 DEF Next

\* For any number of peers that come and go, any numwant and any bound: nobody is
\* handed out a second time before every other peer of the map that was there
\* all along (nextPeer, peers.cpp:36-47), rehashes and lost cursors aside.
THEOREM TurnsCorrect == Spec => []EveryoneInTurn
<1>1. Init => RoundKept
  BY DEF Init, RoundKept, InTurn, PeersOf, Peer
<1>2. Spec => []RoundKept
  BY <1>1, AlwaysTyped, StepInTurn, PTL DEF Spec
<1>3. RoundKept => EveryoneInTurn
  BY DEF RoundKept, EveryoneInTurn
<1> QED BY <1>2, <1>3, PTL

-----------------------------------------------------------------------------
(* What an answer holds *)

\* Appending to a list adds to its elements.
LEMMA AppendElements ==
  ASSUME NEW S, NEW s \in Seq(S), NEW x \in S
  PROVE  Append(s, x) \in Seq(S) /\ Len(Append(s, x)) = Len(s) + 1
         /\ Elements(Append(s, x)) = Elements(s) \cup {x}
<1> DEFINE n == Len(s)
           t == Append(s, x)
<1>1. /\ n \in Nat /\ DOMAIN s = 1 .. n /\ t \in Seq(S) /\ Len(t) = n + 1
      /\ DOMAIN t = 1 .. n + 1 /\ t[n + 1] = x /\ \A k \in 1 .. n : t[k] = s[k]
  OBVIOUS
<1> HIDE DEF n, t
<1>2. \A k \in 1 .. n + 1 : k \in 1 .. n \/ k = n + 1
  BY <1>1
<1>3. n + 1 \in 1 .. n + 1 /\ \A k \in 1 .. n : k \in 1 .. n + 1
  BY <1>1
<1>4. Elements(t) = Elements(s) \cup {x}
  BY <1>1, <1>2, <1>3 DEF Elements
<1> QED BY <1>1, <1>4 DEF n, t

\* Those handed out are k members of the map, and the cursor reaches every other
\* member before it reaches them again.
Given(f, k, v) ==
  /\ Own(f, v.it)
  /\ Len(v.peers) = k
  /\ Elements(v.peers) \subseteq Members(f)
  /\ Cardinality(Elements(v.peers)) = k
  /\ \A x \in Elements(v.peers), y \in Members(f) \ Elements(v.peers) : Sooner(order[f], v.it, y, x)

\* Another turn hands out another member, if there is one.
LEMMA CallGiven ==
  ASSUME Listed, NEW f \in Family, NEW k \in Nat, k < Len(order[f]),
         NEW w \in WalkStates, Given(f, k, w)
  PROVE  Given(f, k + 1, Call(f, w))
<1> DEFINE s == order[f]
           c == w.it
           v == Call(f, w)
           E == Elements(w.peers)
<1>1. /\ s \in Seq(PeersOf(f)) /\ Once(s) /\ "end" \notin PeersOf(f) /\ s # <<>>
      /\ c = "end" \/ c \in Elements(s)
      /\ Members(f) = Elements(s) /\ Members(f) \subseteq Peer
  BY Families, MembersListed DEF Listed, Given, Own, Members
<1>2. PICK m \in DOMAIN s :
         LET p == s[m] IN
         /\ p \in Members(f)
         /\ IF w.it = "end" THEN m = 1 ELSE p = w.it
         /\ v.it = IF m = Len(s) THEN "end" ELSE s[m + 1]
         /\ v.peers = Append(w.peers, p)
  BY <1>1, OwnCall DEF Given
<1> DEFINE p == s[m]
<1>3. /\ p \in Elements(s) /\ v.peers = Append(w.peers, p)
      /\ v.it = IF m = Len(s) THEN "end" ELSE s[m + 1]
      /\ IF c = "end" THEN m = 1 ELSE s[m] = c
  BY <1>1, <1>2
<1>4. /\ Len(w.peers) = k /\ E \subseteq Elements(s) /\ Cardinality(E) = k
      /\ \A x \in E, y \in Elements(s) \ E : Sooner(s, c, y, x)
      /\ w.peers \in Seq(Peer \cup {"departed"})
  BY <1>1 DEF Given, WalkStates
<1>5. Cardinality(Elements(s)) = Len(s) /\ IsFiniteSet(Elements(s)) /\ k < Len(s)
  <2> HIDE DEF s
  <2>1. Cardinality(Elements(s)) = Len(s) /\ IsFiniteSet(Elements(s))
    BY <1>1, OnceLength
  <2> QED BY <2>1 DEF s
<1> HIDE DEF s, c, v
<1>6. /\ \A x \in Elements(s) : ~Sooner(s, c, x, p)
      /\ \A x \in Elements(s) \ {p} : Sooner(s, v.it, x, p)
      /\ \A x, y \in Elements(s) \ {p} : Sooner(s, c, x, y) => Sooner(s, v.it, x, y)
      /\ v.it = "end" \/ v.it \in Elements(s)
  <2>1. LET x1   == s[m]
            next == IF m = Len(s) THEN "end" ELSE s[m + 1]
        IN /\ \A x \in Elements(s) : ~Sooner(s, c, x, x1)
           /\ \A x \in Elements(s) \ {x1} : Sooner(s, next, x, x1)
           /\ \A x, y \in Elements(s) \ {x1} : Sooner(s, c, x, y) => Sooner(s, next, x, y)
           /\ next = "end" \/ next \in Elements(s)
    BY <1>1, <1>3, NextInRound
  <2> QED BY <1>3, <2>1
<1> HIDE DEF p, E
<1>7. PICK y \in Elements(s) : y \notin E
  <2>1. SUFFICES ASSUME Elements(s) \subseteq E PROVE FALSE
    OBVIOUS
  <2>2. Elements(s) = E
    BY <1>4, <2>1
  <2>3. Len(s) = k
    BY <1>4, <1>5, <2>2
  <2> QED BY <1>5, <2>3
<1>8. p \notin E
  BY <1>4, <1>6, <1>7
<1>9. IsFiniteSet(E)
  BY <1>4, <1>5, FS_Subset
<1>10. Cardinality(E \cup {p}) = k + 1
  BY <1>4, <1>8, <1>9, FS_AddElement
<1>11. Len(v.peers) = k + 1 /\ Elements(v.peers) = E \cup {p}
  <2> DEFINE l == w.peers
             D == Peer \cup {"departed"}
  <2>1. l \in Seq(D) /\ p \in D /\ Len(l) = k /\ Elements(l) = E
    BY <1>1, <1>3, <1>4 DEF E
  <2> HIDE DEF l, D
  <2>2. Len(Append(l, p)) = Len(l) + 1 /\ Elements(Append(l, p)) = Elements(l) \cup {p}
    BY <2>1, AppendElements
  <2> QED BY <1>3, <2>1, <2>2 DEF l
<1>12. \A x \in E \cup {p}, z \in Elements(s) \ (E \cup {p}) : Sooner(s, v.it, z, x)
  BY <1>4, <1>6, <1>8
<1>13. E \cup {p} \subseteq Elements(s)
  BY <1>3, <1>4
<1>14. Own(f, v.it)
  BY <1>1, <1>6 DEF Own
<1>15. Given(f, k + 1, v)
  BY <1>1, <1>10, <1>11, <1>12, <1>13, <1>14 DEF Given, s
<1> QED BY <1>15 DEF v

\* getPeers with an own cursor hands out n different members, if there are n.
LEMMA WalkGiven ==
  ASSUME RingTyped, NEW f \in Family, NEW n \in Nat, n <= Len(order[f]), NEW w,
         \/ w = [waiting |-> waiting, skipped |-> skipped]
         \/ w \in WalkStates,
         Own(f, it[f])
  PROVE  Given(f, n, GetPeers(f, n, w))
<1>1. Turns(f, n) = n
  <2>1. order[f] = <<>> => n = 0
    <3>1. order[f] = <<>> => Len(order[f]) = 0
      OBVIOUS
    <3> QED BY <3>1
  <2> QED BY <2>1 DEF Turns
<1>2. Listed /\ Begin(f, w) \in WalkStates
  BY BeginTyped, TypedListed
<1>3. PICK g \in [0 .. n -> WalkStates] : Walks(g, f, n, w) /\ GetPeers(f, n, w) = g[n]
  <2>1. n \in Int
    OBVIOUS
  <2>2. \E g \in [0 .. Turns(f, n) -> WalkStates] :
           Walks(g, f, Turns(f, n), w) /\ GetPeers(f, n, w) = g[Turns(f, n)]
    BY <1>2, <2>1, GetPeersWalks
  <2> QED BY <1>1, <2>2
<1>4. Given(f, 0, g[0])
  <2> DEFINE none == <<>>
  <2>1. g[0].it = it[f] /\ g[0].peers = none
    BY <1>3 DEF Walks, Begin
  <2>2. Len(none) = 0 /\ Elements(none) = {} /\ Cardinality({}) = 0
    BY FS_EmptySet DEF Elements
  <2> HIDE DEF none
  <2> QED BY <2>1, <2>2 DEF Given
<1>5. ASSUME NEW k \in Nat, k + 1 <= n, Given(f, k, g[k])
      PROVE  Given(f, k + 1, g[k + 1])
  <2>1. k + 1 \in 1 .. n /\ k + 1 - 1 = k /\ k \in 0 .. n
    BY <1>5
  <2>2. g[k + 1] = Call(f, g[k]) /\ g[k] \in WalkStates
    BY <1>3, <2>1 DEF Walks
  <2>3. k < Len(order[f])
    BY <1>2, <1>5 DEF Listed
  <2> DEFINE u == g[k]
  <2>4. u \in WalkStates /\ Given(f, k, u)
    BY <1>5, <2>2
  <2> HIDE DEF u
  <2>5. Given(f, k + 1, Call(f, u))
    BY <1>2, <2>3, <2>4, CallGiven
  <2> QED BY <2>2, <2>5 DEF u
<1> DEFINE N == {k \in Nat : k <= n => Given(f, k, g[k])}
<1>6. 0 \in N /\ \A k \in N : k + 1 \in N
  BY <1>4, <1>5
<1>7. N = Nat
  <2> HIDE DEF N
  <2>1. N \in SUBSET Nat
    BY DEF N
  <2> QED BY <1>6, <2>1, SetInduction
<1>8. Given(f, n, g[n])
  BY <1>7
<1> QED BY <1>3, <1>8

\* An answer to a client while no cursor is lost.
LEMMA AskFromSwarm ==
  ASSUME RingTyped, NEW ipv6 \in BOOLEAN, NEW numwant \in Int,
         numwant >= 0, MaxNumwant >= 0, Cursor("ipv4"), Cursor("ipv6"), Ask(ipv6, numwant)
  PROVE  \A f \in Family :
           LET given == answer'[f].peers IN
           /\ Len(given) = answer'[f].declared
           /\ Elements(given) \subseteq Members(f)
           /\ Cardinality(Elements(given)) = Len(given)
<1> DEFINE i  == Wanted(numwant, "ipv4")
           j  == IF ipv6 THEN Wanted(i, "ipv6") ELSE 0
           w0 == [waiting |-> waiting, skipped |-> skipped]
           w6 == GetPeers("ipv6", j, w0)
           w4 == GetPeers("ipv4", i - j, w6)
<1>1. Listed /\ "ipv4" \in Family /\ "ipv6" \in Family
  BY TypedListed DEF Family
<1>2. Own("ipv4", it["ipv4"]) /\ Own("ipv6", it["ipv6"])
  BY DEF Cursor, Own
<1>3. Len(order["ipv4"]) \in Nat /\ Len(order["ipv6"]) \in Nat
  BY <1>1 DEF Listed
<1>4. i \in Nat /\ i <= Len(order["ipv4"])
  BY <1>1, WantedTyped
<1> HIDE DEF i
<1>5. j \in Nat /\ j <= i /\ j <= Len(order["ipv6"])
  BY <1>1, <1>3, <1>4, WantedTyped
<1>6. /\ up' = ("crash" \notin {w4.it, w6.it})
      /\ up' => answer' = [f \in Family |->
                   IF f = "ipv4" THEN [declared |-> i - j, peers |-> w4.peers]
                   ELSE [declared |-> IF j > 0 THEN j ELSE 0, peers |-> w6.peers]]
  BY DEF Ask, i
<1> HIDE DEF j
<1>7. i - j \in Nat /\ i - j <= Len(order["ipv4"]) /\ j \in Int /\ (IF j > 0 THEN j ELSE 0) = j
  BY <1>3, <1>4, <1>5
<1>8. w6 \in WalkStates
  BY <1>1, <1>7, WalkTyped
<1>9. Given("ipv6", j, w6)
  BY <1>1, <1>2, <1>5, WalkGiven
<1> HIDE DEF w6
<1> DEFINE d == i - j
<1>10. Given("ipv4", d, w4)
  <2>1. d \in Nat /\ d <= Len(order["ipv4"])
    BY <1>7
  <2> HIDE DEF d
  <2>2. Given("ipv4", d, GetPeers("ipv4", d, w6))
    BY <1>1, <1>2, <1>8, <2>1, WalkGiven
  <2> QED BY <2>2 DEF d
<1> HIDE DEF w4
<1>11. up'
  <2>1. \A f \in Family : "crash" \notin Members(f)
    BY <1>1, MembersListed, Families
  <2>2. w4.it # "crash" /\ w6.it # "crash"
    BY <1>1, <1>9, <1>10, <2>1 DEF Given, Own
  <2> QED BY <1>6, <2>2
<1>12. /\ answer'["ipv4"].declared = d /\ answer'["ipv4"].peers = w4.peers
       /\ answer'["ipv6"].declared = j /\ answer'["ipv6"].peers = w6.peers
  BY <1>1, <1>6, <1>7, <1>11
<1> QED BY <1>9, <1>10, <1>12 DEF Given, Family

\* For any swarm, numwant and configuration: while no cursor is lost, an answer
\* holds exactly the number of peers its bencoded length declares, all of them in
\* the map and none twice (requestHandler.cpp:200-207, 240-258).
THEOREM AnswerCorrect == Spec => AnswerFromSwarm
<1>1. ASSUME RingTyped, NEW ipv6 \in BOOLEAN, NEW numwant \in Numwants \cup {DefaultNumwant},
             numwant >= 0, MaxNumwant >= 0, Cursor("ipv4"), Cursor("ipv6"), Ask(ipv6, numwant)
      PROVE  \A f \in Family :
               LET given == answer'[f].peers IN
               /\ Len(given) = answer'[f].declared
               /\ Elements(given) \subseteq Members(f)
               /\ Cardinality(Elements(given)) = Len(given)
  <2>1. numwant \in Int
    BY PeerRingAssumption
  <2> QED BY <1>1, <2>1, AskFromSwarm
<1>2. RingTyped => [\A ipv6 \in BOOLEAN, numwant \in Numwants \cup {DefaultNumwant} :
        numwant >= 0 /\ MaxNumwant >= 0 /\ Cursor("ipv4") /\ Cursor("ipv6") /\ Ask(ipv6, numwant)
          => \A f \in Family :
               LET given == answer'[f].peers IN
               /\ Len(given) = answer'[f].declared
               /\ Elements(given) \subseteq Members(f)
               /\ Cardinality(Elements(given)) = Len(given)]_vars
  BY <1>1
<1> QED BY <1>2, AlwaysTyped, PTL DEF AnswerFromSwarm
=============================================================================
