--------------------------- MODULE WriteChars_proofs ---------------------------
(***************************************************************************)
(* Proofs about the characters of writes.  TotalCharsQueued counts every   *)
(* request once, from its dispatch until it is completed or sent, on every *)
(* way out, so that what GET_COMMSTATUS reports covers what remains to be  *)
(* sent; and the writes are sent as TxStream promises, each step of the    *)
(* driver being one of the line or none.  Both rest on the invariant of    *)
(* the request protocol, WInv.                                             *)
(***************************************************************************)
EXTENDS WritePath_proofs, WellFoundedInduction

(***************************************************************************)
(* Sums of sequences of numbers, by induction on their length.             *)
(***************************************************************************)

\* A set of numbers has a least one: the order of Nat is well-founded.
LEMMA LeastNat ==
  ASSUME NEW T, T \subseteq Nat, T # {}
  PROVE  \E x \in T : \A y \in T : x <= y
<1> DEFINE R == OpToRel(<, Nat)
<1>1. IsWellFoundedOn(R, Nat)
  BY NatLessThanWellFounded, Zenon
<1>2. \A x, y \in Nat : <<x, y>> \in R <=> x < y
  BY DEF OpToRel
<1> HIDE DEF R
<1>3. PICK x \in T : \A y \in T : ~(<<y, x>> \in R)
  BY <1>1, WFMin
<1>4. \A y \in T : x <= y
  <2>1. TAKE y \in T
  <2>2. x \in Nat /\ y \in Nat
    OBVIOUS
  <2>3. ~(y < x)
    BY <1>2, <1>3, <2>2
  <2>4. QED
    BY <2>2, <2>3
<1>5. QED
  BY <1>4

\* Induction over the numbers, for a set in place of a predicate.
LEMMA NatInd ==
  ASSUME NEW S, 0 \in S, \A n \in Nat : n \in S => n + 1 \in S
  PROVE  Nat \subseteq S
<1>1. SUFFICES ASSUME Nat \ S # {} PROVE FALSE
  OBVIOUS
<1>2. PICK x \in Nat \ S : \A y \in Nat \ S : x <= y
  BY <1>1, LeastNat
<1>3. x # 0 /\ x - 1 \in Nat /\ (x - 1) + 1 = x
  BY <1>2
<1>4. x - 1 \in S
  BY <1>2, <1>3
<1>5. QED
  BY <1>2, <1>3, <1>4

\* The partial sums of the first m numbers of a sequence.
Sums(w, g, m) ==
  /\ g \in [0 .. m -> Int] /\ g[0] = 0
  /\ \A i \in 1 .. m : g[i] = g[i - 1] + w[i]

LEMMA SumsExist ==
  ASSUME NEW w \in Seq(Nat)
  PROVE  \A m \in 0 .. Len(w) : \E g : Sums(w, g, m)
<1> DEFINE S == {m \in Nat : m <= Len(w) => \E g : Sums(w, g, m)}
<1>1. 0 \in S
  <2>1. Sums(w, [i \in 0 .. 0 |-> 0], 0)
    BY DEF Sums
  <2>2. QED
    BY <2>1
<1>2. ASSUME NEW m \in Nat, m \in S
      PROVE  m + 1 \in S
  <2>1. SUFFICES ASSUME m + 1 <= Len(w) PROVE \E g : Sums(w, g, m + 1)
    OBVIOUS
  <2>2. PICK g : Sums(w, g, m)
    BY <1>2, <2>1
  <2> DEFINE h == [i \in 0 .. m + 1 |-> IF i = m + 1 THEN g[m] + w[m + 1] ELSE g[i]]
  <2>3. w[m + 1] \in Nat
    BY <2>1
  <2>4. h \in [0 .. m + 1 -> Int] /\ h[0] = 0
    BY <2>2, <2>3 DEF Sums
  <2>5. \A i \in 1 .. m + 1 : h[i] = h[i - 1] + w[i]
    BY <2>2 DEF Sums
  <2>6. Sums(w, h, m + 1)
    BY <2>4, <2>5 DEF Sums
  <2>7. QED
    BY <2>6
<1>3. Nat \subseteq S
  BY <1>1, <1>2, NatInd
<1>4. QED
  BY <1>3

\* What Total is: the last of the partial sums.
LEMMA TotalIs ==
  ASSUME NEW w \in Seq(Nat), NEW g, Sums(w, g, Len(w))
  PROVE  Total(w) = g[Len(w)]
<1> DEFINE rec(f) == [n \in 0 .. Len(w) |-> IF n = 0 THEN 0 ELSE f[n - 1] + w[n]]
           sum == CHOOSE f : f = rec(f)
<1>1. g = rec(g)
  BY DEF Sums
<1>2. sum = rec(sum)
  BY <1>1
<1>3. Total(w) = sum[Len(w)]
  BY DEF Total
<1> DEFINE S == {i \in Nat : i <= Len(w) => sum[i] = g[i]}
<1> HIDE DEF sum
<1>4. sum[0] = 0 /\ \A i \in 1 .. Len(w) : sum[i] = sum[i - 1] + w[i]
  BY <1>2
<1>5. 0 \in S
  BY <1>4 DEF Sums
<1>6. ASSUME NEW i \in Nat, i \in S
      PROVE  i + 1 \in S
  BY <1>4, <1>6 DEF Sums
<1>7. Nat \subseteq S
  BY <1>5, <1>6, NatInd
<1>8. QED
  BY <1>3, <1>7

\* A sum of numbers is a number, and it changes with the sequence as it should.
LEMMA TotalNat ==
  ASSUME NEW w \in Seq(Nat)
  PROVE  Total(w) \in Nat
<1>1. PICK g : Sums(w, g, Len(w))
  BY SumsExist
<1> DEFINE S == {i \in Nat : i <= Len(w) => g[i] \in Nat}
<1>2. 0 \in S
  BY <1>1 DEF Sums
<1>3. ASSUME NEW i \in Nat, i \in S
      PROVE  i + 1 \in S
  <2>1. i + 1 <= Len(w) => w[i + 1] \in Nat
    OBVIOUS
  <2>2. QED
    BY <1>1, <1>3, <2>1 DEF Sums
<1>4. Nat \subseteq S
  BY <1>2, <1>3, NatInd
<1>5. QED
  BY <1>1, <1>4, TotalIs

LEMMA TotalOfNone == Total(<< >>) = 0
<1>1. Sums(<< >>, [i \in 0 .. 0 |-> 0], 0)
  BY DEF Sums
<1>2. << >> \in Seq(Nat) /\ Len(<< >>) = 0
  OBVIOUS
<1>3. QED
  BY <1>1, <1>2, TotalIs

LEMMA TotalOfAppend ==
  ASSUME NEW w \in Seq(Nat), NEW x \in Nat
  PROVE  Total(Append(w, x)) = Total(w) + x
<1>1. PICK g : Sums(w, g, Len(w))
  BY SumsExist
<1> DEFINE v == Append(w, x)
           m == Len(w)
           h == [i \in 0 .. m + 1 |-> IF i = m + 1 THEN g[m] + x ELSE g[i]]
<1>2. v \in Seq(Nat) /\ Len(v) = m + 1 /\ v[m + 1] = x /\ \A i \in 1 .. m : v[i] = w[i]
  OBVIOUS
<1> HIDE DEF v, h
<1>3. m \in Nat /\ g[0] = 0 /\ (\A i \in 0 .. m : g[i] \in Int)
        /\ \A i \in 1 .. m : g[i] = g[i - 1] + w[i]
  <2>1. m \in Nat
    OBVIOUS
  <2> HIDE DEF m
  <2>2. Sums(w, g, m)
    BY <1>1 DEF m
  <2>3. g \in [0 .. m -> Int] /\ g[0] = 0 /\ \A i \in 1 .. m : g[i] = g[i - 1] + w[i]
    BY <2>2, Zenon DEF Sums
  <2>4. \A i \in 0 .. m : g[i] \in Int
    BY <2>3, Zenon
  <2>5. QED
    BY <2>1, <2>3, <2>4, Zenon
<1> USE DEF h
<1> HIDE DEF m
<1>4. \A i \in 0 .. m : i \in 0 .. m + 1 /\ i # m + 1
  BY <1>3
<1>5. g[m] + x \in Int
  BY <1>3
<1>6. \A i \in 0 .. m + 1 : i # m + 1 => i \in 0 .. m
  BY <1>3
<1>7. h \in [0 .. m + 1 -> Int] /\ h[0] = 0
  <2>1. \A i \in 0 .. m + 1 : (IF i = m + 1 THEN g[m] + x ELSE g[i]) \in Int
    BY <1>3, <1>5, <1>6, Zenon
  <2>2. h \in [0 .. m + 1 -> Int]
    BY <2>1
  <2>3. 0 \in 0 .. m
    BY <1>3
  <2>4. h[0] = g[0]
    BY <1>4, <2>3
  <2>5. QED
    BY <1>3, <2>2, <2>4
<1>8. \A i \in 1 .. m + 1 : h[i] = h[i - 1] + v[i]
  <2>1. \A i \in 0 .. m : h[i] = g[i]
    BY <1>4
  <2>2. m + 1 \in 0 .. m + 1
    BY <1>3
  <2>3. h[m + 1] = g[m] + x
    BY <2>2
  <2> HIDE DEF h
  <2>4. QED
    BY <1>2, <1>3, <2>1, <2>3
<1> HIDE DEF h
<1>9. Sums(v, h, Len(v))
  BY <1>2, <1>7, <1>8 DEF Sums
<1>10. Total(v) = h[m + 1] /\ Total(w) = g[m]
  BY <1>1, <1>2, <1>9, TotalIs DEF m
<1>11. h[m + 1] = g[m] + x
  BY <1>3 DEF h
<1>12. QED
  BY <1>10, <1>11 DEF v

\* v is w without its element k.
Without(w, k, v) ==
  /\ v \in Seq(Nat) /\ Len(v) = Len(w) - 1
  /\ \A i \in 1 .. Len(v) : v[i] = IF i < k THEN w[i] ELSE w[i + 1]

LEMMA TotalWithout ==
  ASSUME NEW w \in Seq(Nat), NEW k \in 1 .. Len(w), NEW v, Without(w, k, v)
  PROVE  Total(v) = Total(w) - w[k]
<1>1. PICK g : Sums(w, g, Len(w))
  BY SumsExist
<1> DEFINE h == [i \in 0 .. Len(v) |-> IF i < k THEN g[i] ELSE g[i + 1] - w[k]]
           m == Len(w)
<1>2. m \in Nat /\ Len(v) = m - 1 /\ k \in 1 .. m
  BY DEF Without
<1>3. g[0] = 0 /\ \A i \in 0 .. m : g[i] \in Int
  BY <1>1 DEF Sums
<1>4. \A i \in 1 .. m : g[i] = g[i - 1] + w[i]
  BY <1>1 DEF Sums
<1>5. \A i \in 1 .. m : w[i] \in Nat
  OBVIOUS
<1>6. /\ \A i \in 0 .. m : g[i] \in Int
      /\ \A i \in 1 .. m : g[i] = g[i - 1] + w[i] /\ w[i] \in Nat
      /\ g[0] = 0
  BY <1>3, <1>4, <1>5
<1>7. h \in [0 .. m - 1 -> Int] /\ h[0] = 0
  <2>1. w[k] \in Int
    BY <1>2, <1>5
  <2>2. \A i \in 0 .. m - 1 : i \in 0 .. m /\ i + 1 \in 0 .. m
    BY <1>2
  <2>3. \A i \in 0 .. m - 1 : g[i] \in Int /\ g[i + 1] \in Int
    BY <1>3, <2>2
  <2>4. \A a, b \in Int : a - b \in Int
    OBVIOUS
  <2>5. \A i \in 0 .. m - 1 : g[i + 1] - w[k] \in Int
    BY <2>1, <2>3, <2>4, Zenon
  <2>6. h \in [0 .. m - 1 -> Int]
    BY <1>2, <2>3, <2>5
  <2>7. h[0] = g[0]
    BY <1>2
  <2>8. QED
    BY <1>3, <2>6, <2>7
<1>8. \A i \in 0 .. m - 1 : h[i] = IF i < k THEN g[i] ELSE g[i + 1] - w[k]
  BY <1>2
<1>9. \A i \in 1 .. m - 1 : v[i] = IF i < k THEN w[i] ELSE w[i + 1]
  BY <1>2 DEF Without
<1> HIDE DEF h, m
<1>10. ASSUME NEW i \in 1 .. m - 1
      PROVE  h[i] = h[i - 1] + v[i]
  <2>1. i \in Nat /\ i - 1 \in 0 .. m - 1 /\ i \in 0 .. m - 1 /\ i \in 1 .. m
          /\ i + 1 \in 1 .. m /\ i - 1 \in 0 .. m /\ i \in 0 .. m
    BY <1>2
  <2>2. g[i - 1] \in Int /\ g[i] \in Int /\ w[i] \in Int /\ w[i + 1] \in Int /\ w[k] \in Int
    <3>1. g[i - 1] \in Int /\ g[i] \in Int
      BY <1>3, <2>1, Zenon
    <3>2. w[i] \in Nat /\ w[i + 1] \in Nat /\ w[k] \in Nat
      BY <1>2, <1>5, <2>1, Zenon
    <3>3. Nat \subseteq Int
      OBVIOUS
    <3>4. QED
      BY <3>1, <3>2, <3>3, Zenon
  <2>3. g[i] = g[i - 1] + w[i]
    BY <1>6, <2>1
  <2>4. g[i + 1] = g[i] + w[i + 1]
    BY <1>6, <2>1
  <2>5. CASE i < k
    <3>1. i - 1 < k
      BY <1>2, <2>1, <2>5
    <3>2. h[i] = g[i] /\ h[i - 1] = g[i - 1] /\ v[i] = w[i]
      BY <1>8, <1>9, <2>1, <2>5, <3>1
    <3>3. QED
      BY <2>3, <3>2
  <2>6. CASE i = k
    <3>1. i - 1 < k /\ ~(i < k)
      BY <1>2, <2>1, <2>6
    <3>2. h[i] = g[i + 1] - w[i] /\ h[i - 1] = g[i - 1] /\ v[i] = w[i + 1]
      BY <1>8, <1>9, <2>1, <2>6, <3>1
    <3>3. \A a, c, d \in Int : ((a + c) + d) - c = a + d
      OBVIOUS
    <3>4. g[i + 1] = (g[i - 1] + w[i]) + w[i + 1]
      BY <2>3, <2>4, Zenon
    <3>7. ((g[i - 1] + w[i]) + w[i + 1]) - w[i] = g[i - 1] + w[i + 1]
      BY <2>2, <3>3
    <3>5. g[i + 1] - w[i] = g[i - 1] + w[i + 1]
      BY <3>4, <3>7, Zenon
    <3>6. QED
      BY <3>2, <3>5, Zenon
  <2>7. CASE i > k
    <3>1. ~(i - 1 < k) /\ ~(i < k) /\ (i - 1) + 1 = i
      BY <1>2, <2>1, <2>7
    <3>2. h[i] = g[i + 1] - w[k] /\ h[i - 1] = g[i] - w[k] /\ v[i] = w[i + 1]
      BY <1>8, <1>9, <2>1, <3>1
    <3>3. QED
      BY <2>2, <2>4, <3>2
  <2>8. QED
    BY <1>2, <2>1, <2>5, <2>6, <2>7
<1>11. Sums(v, h, Len(v))
  BY <1>2, <1>7, <1>10 DEF Sums
<1>12. Total(v) = h[m - 1] /\ Total(w) = g[m]
  BY <1>1, <1>2, <1>11, TotalIs DEF m, Without
<1>13. CASE k = m
  <2>1. m - 1 < k /\ m - 1 \in 0 .. m - 1 /\ m \in 1 .. m /\ m - 1 \in 0 .. m
    BY <1>2, <1>13
  <2>2. h[m - 1] = g[m - 1] /\ g[m - 1] \in Int /\ w[m] \in Int
    BY <1>6, <1>8, <2>1
  <2>3. g[m] = g[m - 1] + w[m]
    BY <1>6, <2>1
  <2>4. QED
    BY <1>12, <1>13, <2>2, <2>3
<1>14. CASE k < m
  <2>1. ~(m - 1 < k) /\ m - 1 \in 0 .. m - 1 /\ (m - 1) + 1 = m
    BY <1>2, <1>14
  <2>2. h[m - 1] = g[m] - w[k]
    BY <1>8, <2>1
  <2>3. QED
    BY <1>12, <2>2
<1>15. QED
  BY <1>2, <1>13, <1>14
-----------------------------------------------------------------------------
(* The characters of requests and queues, for any lengths.                 *)

Cost(len, r) == IF r \in Writes THEN len[r] ELSE 1
QueueCost(len, q) == Total([i \in DOMAIN q |-> Cost(len, q[i])])
Held(len, r) == IF r = NoReq THEN 0 ELSE Cost(len, r)

LEMMA CostNat ==
  ASSUME NEW len \in [Req -> Nat], NEW r \in Req
  PROVE  Cost(len, r) \in Nat
BY DEF Cost, Req

LEMMA Costs ==
  ASSUME NEW len \in [Req -> Nat], NEW q \in Seq(Req)
  PROVE  LET w == [i \in DOMAIN q |-> Cost(len, q[i])] IN
         /\ w \in Seq(Nat) /\ Len(w) = Len(q) /\ DOMAIN q = 1 .. Len(q)
         /\ \A i \in 1 .. Len(q) : w[i] = Cost(len, q[i])
         /\ QueueCost(len, q) = Total(w)
<1>1. Len(q) \in Nat /\ DOMAIN q = 1 .. Len(q) /\ \A i \in 1 .. Len(q) : q[i] \in Req
  OBVIOUS
<1>2. \A i \in 1 .. Len(q) : Cost(len, q[i]) \in Nat
  BY <1>1, CostNat
<1> DEFINE w == [i \in 1 .. Len(q) |-> Cost(len, q[i])]
<1>3. w \in [1 .. Len(q) -> Nat]
  BY <1>2
<1>4. w \in Seq(Nat) /\ Len(w) = Len(q)
  BY <1>1, <1>3
<1>5. QED
  BY <1>1, <1>4 DEF QueueCost

LEMMA QueueCostNat ==
  ASSUME NEW len \in [Req -> Nat], NEW q \in Seq(Req)
  PROVE  QueueCost(len, q) \in Nat
BY Costs, TotalNat

LEMMA QueueCostNone == \A len : QueueCost(len, << >>) = 0
<1>1. \A len : [i \in DOMAIN << >> |-> Cost(len, << >>[i])] = << >>
  OBVIOUS
<1>2. QED
  BY <1>1, TotalOfNone DEF QueueCost

LEMMA QueueCostAppend ==
  ASSUME NEW len \in [Req -> Nat], NEW q \in Seq(Req), NEW r \in Req
  PROVE  QueueCost(len, Append(q, r)) = QueueCost(len, q) + Cost(len, r)
<1> DEFINE p == Append(q, r)
           w == [i \in DOMAIN q |-> Cost(len, q[i])]
           v == [i \in DOMAIN p |-> Cost(len, p[i])]
<1>1. /\ p \in Seq(Req) /\ Len(p) = Len(q) + 1 /\ p[Len(q) + 1] = r
      /\ \A i \in 1 .. Len(q) : p[i] = q[i]
  OBVIOUS
<1> HIDE DEF p
<1>2. /\ w \in Seq(Nat) /\ Len(w) = Len(q) /\ QueueCost(len, q) = Total(w)
      /\ \A i \in 1 .. Len(q) : w[i] = Cost(len, q[i])
  BY Costs
<1>3. /\ v \in Seq(Nat) /\ Len(v) = Len(p) /\ QueueCost(len, p) = Total(v)
      /\ \A i \in 1 .. Len(p) : v[i] = Cost(len, p[i])
  BY <1>1, Costs
<1> HIDE DEF v, w
<1>4. v = Append(w, Cost(len, r))
  <2>1. Cost(len, r) \in Nat
    BY CostNat
  <2> DEFINE u == Append(w, Cost(len, r))
  <2>2. /\ u \in Seq(Nat) /\ Len(u) = Len(q) + 1 /\ u[Len(q) + 1] = Cost(len, r)
        /\ \A i \in 1 .. Len(q) : u[i] = w[i]
    BY <1>2, <2>1
  <2> HIDE DEF u
  <2>3. Len(q) \in Nat
    OBVIOUS
  <2>4. \A i \in 1 .. Len(q) + 1 : i \in 1 .. Len(q) \/ i = Len(q) + 1
    BY <2>3
  <2>5. Len(u) = Len(v) /\ \A i \in 1 .. Len(u) : u[i] = v[i]
    BY <1>1, <1>2, <1>3, <2>2, <2>3, <2>4
  <2>6. QED
    BY <1>3, <2>2, <2>5 DEF u
<1>5. QED
  BY <1>2, <1>3, <1>4, CostNat, TotalOfAppend DEF p

LEMMA QueueCostWithout ==
  ASSUME NEW len \in [Req -> Nat], NEW q \in Seq(Req), NEW k \in DOMAIN q,
         NEW p \in Seq(Req), Len(p) = Len(q) - 1,
         \A i \in 1 .. Len(p) : p[i] = IF i < k THEN q[i] ELSE q[i + 1]
  PROVE  QueueCost(len, p) = QueueCost(len, q) - Cost(len, q[k])
<1> DEFINE w == [i \in DOMAIN q |-> Cost(len, q[i])]
           v == [i \in DOMAIN p |-> Cost(len, p[i])]
<1>1. /\ w \in Seq(Nat) /\ Len(w) = Len(q) /\ QueueCost(len, q) = Total(w)
      /\ \A i \in 1 .. Len(q) : w[i] = Cost(len, q[i])
      /\ DOMAIN q = 1 .. Len(q)
  BY Costs
<1>2. /\ v \in Seq(Nat) /\ Len(v) = Len(p) /\ QueueCost(len, p) = Total(v)
      /\ \A i \in 1 .. Len(p) : v[i] = Cost(len, p[i])
  BY Costs
<1> HIDE DEF v, w
<1>3. Len(q) \in Nat /\ \A i \in 1 .. Len(p) : i \in 1 .. Len(q) /\ i + 1 \in 1 .. Len(q)
  OBVIOUS
<1>4. \A i \in 1 .. Len(v) : v[i] = IF i < k THEN w[i] ELSE w[i + 1]
  BY <1>1, <1>2, <1>3
<1>5. Without(w, k, v)
  BY <1>1, <1>2, <1>4 DEF Without
<1>6. QED
  BY <1>1, <1>2, <1>5, TotalWithout

LEMMA QueueCostTail ==
  ASSUME NEW len \in [Req -> Nat], NEW q \in Seq(Req), q # << >>
  PROVE  QueueCost(len, q) = Cost(len, Head(q)) + QueueCost(len, Tail(q))
<1>1. /\ 1 \in DOMAIN q /\ Head(q) = q[1] /\ q[1] \in Req
      /\ Tail(q) \in Seq(Req) /\ Len(Tail(q)) = Len(q) - 1
  OBVIOUS
<1>2. \A i \in 1 .. Len(Tail(q)) : Tail(q)[i] = IF i < 1 THEN q[i] ELSE q[i + 1]
  OBVIOUS
<1>3. QueueCost(len, Tail(q)) = QueueCost(len, q) - Cost(len, q[1])
  BY <1>1, <1>2, QueueCostWithout
<1>4. QueueCost(len, q) \in Nat /\ Cost(len, q[1]) \in Nat
  BY <1>1, QueueCostNat, CostNat
<1>5. QED
  BY <1>1, <1>3, <1>4

LEMMA QueueCostRemove ==
  ASSUME NEW len \in [Req -> Nat], NEW q \in Seq(Req), NEW k \in DOMAIN q
  PROVE  QueueCost(len, RemoveAt(q, k)) = QueueCost(len, q) - Cost(len, q[k])
BY RemovedAt, QueueCostWithout

\* The lengths of other requests do not matter.
LEMMA QueueCostKept ==
  ASSUME NEW len, NEW new, NEW q \in Seq(Req), \A r \in ToSet(q) : new[r] = len[r]
  PROVE  QueueCost(new, q) = QueueCost(len, q)
<1>1. \A i \in DOMAIN q : q[i] \in ToSet(q)
  BY DEF ToSet
<1>2. \A i \in DOMAIN q : Cost(new, q[i]) = Cost(len, q[i])
  BY <1>1 DEF Cost
<1>3. [i \in DOMAIN q |-> Cost(new, q[i])] = [i \in DOMAIN q |-> Cost(len, q[i])]
  BY <1>2
<1>4. QED
  BY <1>3 DEF QueueCost
-----------------------------------------------------------------------------
(* The invariant.                                                          *)

\* The types WInv leaves out.
MoreTypes ==
  /\ status \in [Req -> {"unused", "pending"} \cup Done] /\ information \in [Req -> Nat]
  /\ contextCancelled \in [Req -> BOOLEAN] /\ forwarded \subseteq Req
  /\ queueStopped \in BOOLEAN /\ flushing \in BOOLEAN

\* What the ISR still has of the current write is a part of it.
Remainder == current["Write"] # NoReq => writeLength <= Chars(current["Write"])

\* The inductive invariant, next to WInv.
CInv == MoreTypes /\ CharsAccounted /\ Remainder

\* CharsAccounted, of any values of the variables.
Accounts(len, cur, q, total) ==
  total = Held(len, cur["Write"]) + Held(len, cur["Immediate"]) + QueueCost(len, q)

LEMMA AccountsIs ==
  /\ CharsAccounted <=> Accounts(length, current, writeQueue, totalCharsQueued)
  /\ CharsAccounted' <=> Accounts(length', current', writeQueue', totalCharsQueued')
  /\ CharsIn(writeQueue) = QueueCost(length, writeQueue)
  /\ \A r : Chars(r) = Cost(length, r) /\ Chars(r)' = Cost(length', r)
<1>1. \A r : Chars(r) = Cost(length, r) /\ Chars(r)' = Cost(length', r)
  BY DEF Chars, Cost
<1>2. /\ CharsIn(writeQueue) = QueueCost(length, writeQueue)
      /\ CharsIn(writeQueue)' = QueueCost(length', writeQueue')
  BY DEF CharsIn, QueueCost, Chars, Cost
<1>3. CharsAccounted <=> Accounts(length, current, writeQueue, totalCharsQueued)
  BY <1>2 DEF CharsAccounted, Accounts, Held, Chars, Cost
<1>4. CharsAccounted' <=> Accounts(length', current', writeQueue', totalCharsQueued')
  BY <1>2 DEF CharsAccounted, Accounts, Held, Chars, Cost
<1>5. QED
  BY <1>1, <1>2, <1>3, <1>4

LEMMA CountsAreNat ==
  ASSUME WInv
  PROVE  /\ \A s \in Slots : Held(length, current[s]) \in Nat
         /\ \A q \in Seq(Req) : QueueCost(length, q) \in Nat
<1>1. length \in [Req -> Nat] /\ \A s \in Slots : current[s] \in Req \cup {NoReq}
  BY DEF WInv, SlotTypes
<1>2. 0 \in Nat
  OBVIOUS
<1>3. QED
  BY <1>1, <1>2, CostNat, QueueCostNat DEF Held

\* The next write starts with all of it to be sent, and the ISR has nothing yet.
LEMMA RemainderKept ==
  ASSUME WInv, Remainder, WInv',
         \/ current'["Write"] = NoReq \/ pc' \in {"start", "give"}
         \/ /\ current'["Write"] = current["Write"] /\ writeLength' <= writeLength
            /\ current["Write"] \in Req =>
                 length'[current["Write"]] = length[current["Write"]]
  PROVE  Remainder'
<1> DEFINE r == current'["Write"]
<1>1. "Write" \in Slots
  BY DEF Slots
<1>2. /\ writeLength \in Nat /\ writeLength' \in Nat
      /\ r \in Req \cup {NoReq} /\ length' \in [Req -> Nat]
  BY <1>1 DEF WInv, SlotTypes
<1>3. SUFFICES ASSUME r # NoReq PROVE writeLength' <= Cost(length', r)
  BY AccountsIs DEF Remainder
<1>7. Cost(length', r) \in Nat
  BY <1>2, <1>3, CostNat
<1>4. CASE pc' \in {"start", "give"}
  <2>1. ~Started("Write")'
    BY <1>4 DEF Started
  <2>2. ~IsrHas("Write")'
    BY <2>1 DEF WInv, Slotwise, OwnersAgree
  <2>3. writeLength' = 0
    BY <1>2, <2>2 DEF IsrHas
  <2>4. QED
    BY <1>7, <2>3
<1>5. CASE current'["Write"] = current["Write"] /\ writeLength' <= writeLength
             /\ (current["Write"] \in Req => length'[current["Write"]] = length[current["Write"]])
  <2>1. Cost(length', r) = Cost(length, current["Write"])
    BY <1>2, <1>3, <1>5 DEF Cost
  <2>2. writeLength <= Cost(length, current["Write"])
    BY <1>3, <1>5, AccountsIs DEF Remainder
  <2>3. QED
    BY <1>2, <1>5, <1>7, <2>1, <2>2
<1>6. QED
  BY <1>3, <1>4, <1>5

\* A purge takes off what was in the queue.
LEMMA QueuedAfterIs ==
  ASSUME WInv, CInv, NEW purged \in BOOLEAN
  PROVE  /\ Accounts(length, current, QueueAfter(purged), QueuedAfter(purged))
         /\ StatusAfter(purged) \in [Req -> {"unused", "pending"} \cup Done]
<1>1. status \in [Req -> {"unused", "pending"} \cup Done]
  BY DEF CInv, MoreTypes
<1>2. StatusAfter(purged) \in [Req -> {"unused", "pending"} \cup Done]
  BY <1>1 DEF StatusAfter, Done
<1>3. Accounts(length, current, writeQueue, totalCharsQueued)
  BY AccountsIs DEF CInv
<1>4. /\ Held(length, current["Write"]) \in Nat /\ Held(length, current["Immediate"]) \in Nat
      /\ QueueCost(length, writeQueue) \in Nat
  BY CountsAreNat DEF Slots, WInv, SlotTypes
<1>5. CASE ~purged
  BY <1>2, <1>3, <1>5 DEF QueueAfter, QueuedAfter
<1>6. CASE purged
  <2>1. QueuedAfter(purged) = totalCharsQueued - QueueCost(length, writeQueue)
    BY <1>6, AccountsIs DEF QueuedAfter
  <2>2. QueueCost(length, QueueAfter(purged)) = 0
    BY <1>6, QueueCostNone DEF QueueAfter
  <2>3. QED
    BY <1>2, <1>3, <1>4, <2>1, <2>2 DEF Accounts
<1>7. QED
  BY <1>5, <1>6

\* The head of the queue becomes current, nothing else changes.
LEMMA NextCost ==
  ASSUME WInv, NEW q \in Seq(Req), NEW xoff, NEW back, GetNextWrite(q, xoff, back)
  PROVE  /\ Held(length, current'["Write"]) + QueueCost(length, writeQueue') = QueueCost(length, q)
         /\ Held(length, current'["Write"]) \in Nat /\ QueueCost(length, writeQueue') \in Nat
         /\ current'["Immediate"] = current["Immediate"]
         /\ current'["Write"] = NoReq \/ pc' = "start"
<1>1. /\ length \in [Req -> Nat] /\ current \in [Slots -> Req \cup {NoReq}]
      /\ 0 \in Nat /\ QueueCost(length, q) \in Nat
  BY QueueCostNat DEF WInv, SlotTypes
<1>2. CASE q = << >> \/ queueStopped
  <2>1. current' = [current EXCEPT !["Write"] = NoReq, !["Xoff"] = xoff] /\ writeQueue' = q
    BY <1>2 DEF GetNextWrite
  <2>2. current'["Write"] = NoReq /\ current'["Immediate"] = current["Immediate"]
    BY <1>1, <2>1 DEF Slots
  <2>3. QED
    BY <1>1, <2>1, <2>2 DEF Held
<1>3. CASE ~(q = << >> \/ queueStopped)
  <2>1. /\ current' = [current EXCEPT !["Write"] = Head(q), !["Xoff"] = xoff]
        /\ writeQueue' = Tail(q) /\ pc' = "start"
    BY <1>3 DEF GetNextWrite
  <2>2. current'["Write"] = Head(q) /\ current'["Immediate"] = current["Immediate"]
    BY <1>1, <2>1 DEF Slots
  <2>3. Head(q) \in Req /\ Head(q) # NoReq /\ Tail(q) \in Seq(Req)
    BY <1>3, ReqAssumption
  <2>4. Cost(length, Head(q)) \in Nat /\ QueueCost(length, Tail(q)) \in Nat
    BY <1>1, <2>3, CostNat, QueueCostNat
  <2>5. QueueCost(length, q) = Cost(length, Head(q)) + QueueCost(length, Tail(q))
    BY <1>1, <1>3, QueueCostTail
  <2>6. QED
    BY <2>1, <2>2, <2>3, <2>4, <2>5 DEF Held
<1>4. QED
  BY <1>2, <1>3
-----------------------------------------------------------------------------
(* The steps.                                                              *)

\* A step that starts, queues and ends nothing.
LEMMA QuietKeepsCounts ==
  ASSUME WInv, CInv, WInv', MoreTypes',
         UNCHANGED <<length, writeQueue, totalCharsQueued>>,
         current'["Write"] = current["Write"], current'["Immediate"] = current["Immediate"],
         writeLength' <= writeLength \/ pc' \in {"start", "give"}
  PROVE  CInv'
<1>1. Accounts(length', current', writeQueue', totalCharsQueued')
  BY AccountsIs DEF CInv, Accounts
<1>2. Remainder'
  BY RemainderKept DEF CInv
<1>3. QED
  BY <1>1, <1>2, AccountsIs DEF CInv

\* SerialTryToCompleteCurrent: a request that is completed is taken off, and so are
\* those of a purged queue.
LEMMA TryToCompleteCounts ==
  ASSUME WInv, CInv, WInv', NEW slot \in Slots, NEW grab \in BOOLEAN, NEW final \in Done,
         NEW caller, NEW total, NEW purged \in BOOLEAN, NEW back,
         TryToComplete(slot, grab, final, caller, total, purged, back),
         queueStopped' \in BOOLEAN
  PROVE  CInv'
<1> DEFINE r == current[slot]
           grabbed == grab /\ IsrHas(slot)
           held == IF grabbed /\ slot = "Write" /\ r \in Writes
                     THEN CharsSent(r) ELSE information[r]
           left == RefsLeft(refs[r], caller, IF grabbed THEN {"ISR"} ELSE {},
                            cancelMark[r], NullTimer, total)
           q == QueueAfter(purged)
           n == QueuedAfter(purged)
<1>1. /\ r # NoReq /\ length' = length /\ Grab(slot, grabbed)
      /\ contextCancelled' = [contextCancelled EXCEPT ![r] = @ \/ final = "CANCELLED"]
      /\ forwarded' = forwarded /\ flushing' = flushing
  BY DEF TryToComplete, requestVars
<1>2. \/ /\ left = {}
         /\ information' = [information EXCEPT ![r] = IF final = "CANCELLED" THEN 0 ELSE held]
         /\ CompleteCurrent(slot, final, purged, back)
      \/ /\ information' = [information EXCEPT ![r] = held]
         /\ status' = StatusAfter(purged) /\ totalCharsQueued' = n
         /\ writeQueue' = q /\ current' = current
  BY DEF TryToComplete
<1>3. /\ length \in [Req -> Nat] /\ current \in [Slots -> Req \cup {NoReq}] /\ r \in Req
      /\ writeLength \in Nat /\ "Write" \in Slots /\ "Immediate" \in Slots
  BY <1>1 DEF WInv, SlotTypes, Slots
<1>4. /\ information \in [Req -> Nat] /\ contextCancelled \in [Req -> BOOLEAN]
      /\ forwarded \subseteq Req /\ flushing \in BOOLEAN
  BY DEF CInv, MoreTypes
<1>5. Accounts(length, current, q, n) /\ StatusAfter(purged) \in [Req -> {"unused", "pending"} \cup Done]
  BY QueuedAfterIs
<1>6. q \in Seq(Req)
  BY Purged
<1>7. writeLength' <= writeLength
  BY <1>1, <1>3 DEF Grab
<1> HIDE DEF q, n, left, grabbed
<1>8. held \in Nat
  <2>1. CASE slot = "Write" /\ r \in Writes
    <3>1. writeLength <= length[r] /\ length[r] \in Nat
      BY <1>1, <1>3, <2>1, AccountsIs DEF CInv, Remainder, Cost
    <3>2. length[r] - writeLength \in Nat
      BY <1>3, <3>1
    <3>3. QED
      BY <1>3, <1>4, <3>2 DEF CharsSent
  <2>2. QED
    BY <1>3, <1>4, <2>1
<1> HIDE DEF held
<1>9. information' \in [Req -> Nat]
  <2>1. (IF final = "CANCELLED" THEN 0 ELSE held) \in Nat
    BY <1>8
  <2>2. QED
    BY <1>2, <1>3, <1>4, <1>8, <2>1
<1>10. contextCancelled' \in [Req -> BOOLEAN]
  <2>1. (contextCancelled[r] \/ final = "CANCELLED") \in BOOLEAN
    OBVIOUS
  <2>2. QED
    BY <1>1, <1>3, <1>4, <2>1
<1> HIDE DEF r
<1>11. /\ Held(length, current["Write"]) \in Nat /\ Held(length, current["Immediate"]) \in Nat
       /\ QueueCost(length, q) \in Nat
  BY <1>3, <1>6, CountsAreNat
<1>12. CASE /\ status' = StatusAfter(purged) /\ totalCharsQueued' = n
            /\ writeQueue' = q /\ current' = current
  <2>1. CharsAccounted'
    BY <1>1, <1>5, <1>12, AccountsIs
  <2>2. MoreTypes'
    BY <1>1, <1>4, <1>5, <1>9, <1>10, <1>12 DEF MoreTypes
  <2>3. Remainder'
    BY <1>1, <1>7, <1>12, RemainderKept DEF CInv
  <2>4. QED
    BY <2>1, <2>2, <2>3 DEF CInv
<1>13. CASE CompleteCurrent(slot, final, purged, back)
  <2>1. /\ status' = [StatusAfter(purged) EXCEPT ![r] = final]
        /\ totalCharsQueued' = n - (IF slot = "Xoff" THEN 0 ELSE Cost(length, r))
        /\ IF slot = "Write"
             THEN GetNextWrite(q, current["Xoff"], back)
             ELSE current' = [current EXCEPT ![slot] = NoReq] /\ writeQueue' = q
    BY <1>13, AccountsIs DEF CompleteCurrent, q, n, r
  <2>2. MoreTypes'
    <3>1. status' \in [Req -> {"unused", "pending"} \cup Done]
      BY <1>3, <1>5, <2>1
    <3>2. QED
      BY <1>1, <1>4, <1>9, <1>10, <3>1 DEF MoreTypes
  <2>3. Cost(length, r) \in Nat /\ Held(length, r) = Cost(length, r)
    BY <1>1, <1>3, CostNat DEF Held, r
  <2>4. CharsAccounted' /\ Remainder'
    <3>1. CASE slot = "Write"
      <4>1. GetNextWrite(q, current["Xoff"], back) /\ r = current["Write"]
        BY <2>1, <3>1 DEF r
      <4>2. /\ Held(length, current'["Write"]) + QueueCost(length, writeQueue') = QueueCost(length, q)
            /\ Held(length, current'["Write"]) \in Nat /\ QueueCost(length, writeQueue') \in Nat
            /\ current'["Immediate"] = current["Immediate"]
            /\ current'["Write"] = NoReq \/ pc' = "start"
        BY <1>6, <4>1, NextCost
      <4>3. totalCharsQueued' = n - Cost(length, r)
        BY <2>1, <3>1
      <4>4. n = Cost(length, r) + Held(length, current["Immediate"]) + QueueCost(length, q)
        BY <1>5, <2>3, <4>1 DEF Accounts
      <4>5. totalCharsQueued' = Held(length, current["Immediate"]) + QueueCost(length, q)
        BY <1>11, <2>3, <4>3, <4>4
      <4>6. Accounts(length', current', writeQueue', totalCharsQueued')
        BY <1>1, <1>11, <4>2, <4>5 DEF Accounts
      <4>7. Remainder'
        BY <4>2, RemainderKept DEF CInv
      <4>8. QED
        BY <4>6, <4>7, AccountsIs
    <3>2. CASE slot # "Write"
      <4>1. current' = [current EXCEPT ![slot] = NoReq] /\ writeQueue' = q
        BY <2>1, <3>2
      <4>2. current'["Write"] = current["Write"]
        BY <1>3, <3>2, <4>1
      <4>3. Remainder'
        BY <1>1, <1>7, <4>2, RemainderKept DEF CInv
      <4>4. n = Held(length, current["Write"]) + Held(length, current["Immediate"]) + QueueCost(length, q)
        BY <1>5 DEF Accounts
      <4>5. Accounts(length', current', writeQueue', totalCharsQueued')
        <5>1. CASE slot = "Xoff"
          <6>1. current'["Immediate"] = current["Immediate"] /\ totalCharsQueued' = n - 0
            BY <1>3, <2>1, <4>1, <5>1
          <6>2. QED
            BY <1>1, <1>11, <4>1, <4>2, <4>4, <6>1 DEF Accounts
        <5>2. CASE slot = "Immediate"
          <6>1. /\ current'["Immediate"] = NoReq /\ r = current["Immediate"]
                /\ totalCharsQueued' = n - Cost(length, r)
            BY <1>3, <2>1, <4>1, <5>2 DEF r
          <6>2. Held(length, current'["Immediate"]) = 0
            BY <6>1 DEF Held
          <6>3. totalCharsQueued' = Held(length, current["Write"]) + QueueCost(length, q)
            BY <1>11, <2>3, <4>4, <6>1
          <6>4. QED
            BY <1>1, <1>11, <4>1, <4>2, <6>2, <6>3 DEF Accounts
        <5>3. QED
          BY <3>2, <5>1, <5>2 DEF Slots
      <4>6. QED
        BY <4>3, <4>5, AccountsIs
    <3>3. QED
      BY <3>1, <3>2
  <2>5. QED
    BY <2>2, <2>4 DEF CInv
<1>14. QED
  BY <1>2, <1>12, <1>13

\* SERIAL_IIR_THR takes characters from the current write only.
LEMMA SendWriteCounts ==
  ASSUME WInv, CInv, WInv', NEW n \in 1 .. MaxLen, SendWrite(n)
  PROVE  CInv'
<1> DEFINE r == current["Write"]
<1>1. /\ writeLength' = writeLength - n
      /\ \/ information' = information
         \/ information' = [information EXCEPT ![r] = Chars(r)]
      /\ UNCHANGED <<length, status, contextCancelled, current, writeQueue, forwarded,
                     queueStopped, totalCharsQueued, pc, flushing>>
  BY DEF SendWrite, requestVars
<1>2. writeLength' <= writeLength
  <2>1. writeLength \in Nat /\ n \in Nat
    BY LengthAssumption DEF WInv, SlotTypes
  <2>2. QED
    BY <1>1, <2>1
<1>3. information' \in [Req -> Nat]
  <2>1. information \in [Req -> Nat] /\ (r \in Req => Chars(r) \in Nat)
    BY AccountsIs, CostNat DEF CInv, MoreTypes, WInv, SlotTypes
  <2>2. QED
    BY <1>1, <2>1
<1>4. MoreTypes'
  BY <1>1, <1>3 DEF CInv, MoreTypes
<1>5. QED
  BY <1>1, <1>2, <1>4, QuietKeepsCounts

\* The steps that only move references, timers, marks and DPCs.
LEMMA SmallStepsCount ==
  ASSUME WInv, CInv, WInv',
         \/ SendImmediate \/ CountDown \/ FlushStop \/ FlushRestart \/ UNCHANGED vars
         \/ \E slot \in Slots : TimerFires(slot)
         \/ \E r \in Req : Cancel(r)
         \/ \E timed \in TotalTimeouts : GiveWriteToIsr(timed)
  PROVE  CInv'
<1>1. writeLength \in Nat
  BY DEF WInv, SlotTypes
<1>2. CASE \E timed \in TotalTimeouts : GiveWriteToIsr(timed)
  <2>1. /\ UNCHANGED <<length, writeQueue, totalCharsQueued, current, status, information,
                       contextCancelled, forwarded, queueStopped, flushing>>
        /\ writeLength' = Chars(current["Write"])
    BY <1>2 DEF GiveWriteToIsr, requestVars
  <2>2. MoreTypes'
    BY <2>1 DEF CInv, MoreTypes
  <2>3. Accounts(length', current', writeQueue', totalCharsQueued')
    BY <2>1, AccountsIs DEF CInv
  <2>4. Remainder'
    <3>1. SUFFICES ASSUME current["Write"] # NoReq
                   PROVE  writeLength' <= Cost(length', current'["Write"])
      BY <2>1, AccountsIs DEF Remainder
    <3>2. writeLength' = Cost(length, current["Write"]) /\ writeLength' \in Nat
      BY <2>1, AccountsIs DEF WInv, SlotTypes
    <3>3. QED
      BY <2>1, <3>2
  <2>5. QED
    BY <2>2, <2>3, <2>4, AccountsIs DEF CInv
<1>3. CASE ~(\E timed \in TotalTimeouts : GiveWriteToIsr(timed))
  <2>1. /\ UNCHANGED <<length, writeQueue, totalCharsQueued, current, status, information,
                       contextCancelled, forwarded, writeLength>>
        /\ \/ UNCHANGED <<queueStopped, flushing>>
           \/ queueStopped' \in BOOLEAN /\ flushing' \in BOOLEAN
    BY <1>3 DEF SendImmediate, CountDown, FlushStop, FlushRestart, vars, TimerFires, Cancel,
                requestVars, isrVars
  <2>2. MoreTypes'
    BY <2>1 DEF CInv, MoreTypes
  <2>3. writeLength' <= writeLength
    BY <1>1, <2>1
  <2>4. QED
    BY <2>1, <2>2, <2>3, QuietKeepsCounts
<1>4. QED
  BY <1>2, <1>3

\* The parameters of a request that arrives are counted nowhere yet.
LEMMA ArrivalCounts ==
  ASSUME WInv, CInv, NEW r \in Req, NEW n \in Nat, NEW x, Arrives(r, n, x)
  PROVE  /\ length' \in [Req -> Nat] /\ length'[r] = n /\ r # NoReq
         /\ \A s \in Slots : Held(length', current[s]) = Held(length, current[s])
         /\ QueueCost(length', writeQueue) = QueueCost(length, writeQueue)
         /\ current["Write"] \in Req => length'[current["Write"]] = length[current["Write"]]
         /\ UNCHANGED <<information, contextCancelled, queueStopped, flushing>>
<1>1. /\ status[r] = "unused" /\ length' = [length EXCEPT ![r] = n]
      /\ UNCHANGED <<information, contextCancelled, queueStopped, flushing>>
  BY DEF Arrives
<1>2. /\ r # NoReq /\ r \notin ToSet(writeQueue)
      /\ \A s \in Slots : current[s] # r
  BY <1>1, Fresh
<1>3. /\ length \in [Req -> Nat] /\ writeQueue \in Seq(Req)
      /\ \A s \in Slots : current[s] \in Req \cup {NoReq}
  BY DEF WInv, SlotTypes
<1>4. /\ length' \in [Req -> Nat] /\ length'[r] = n
      /\ \A s \in Req : s # r => length'[s] = length[s]
  BY <1>1, <1>3
<1>5. ToSet(writeQueue) \subseteq Req
  BY <1>3 DEF ToSet
<1>6. QueueCost(length', writeQueue) = QueueCost(length, writeQueue)
  BY <1>2, <1>3, <1>4, <1>5, QueueCostKept
<1>7. \A s \in Slots : Held(length', current[s]) = Held(length, current[s])
  BY <1>2, <1>3, <1>4 DEF Held, Cost
<1>8. "Write" \in Slots
  BY DEF Slots
<1>9. QED
  BY <1>1, <1>2, <1>3, <1>4, <1>6, <1>7, <1>8

LEMMA CompleteAtOnceCounts ==
  ASSUME WInv, CInv, WInv', NEW r \in Req, NEW n \in Nat, NEW x, Arrives(r, n, x),
         NEW final \in Done, CompleteAtOnce(r, final)
  PROVE  CInv'
<1>1. /\ status' = [status EXCEPT ![r] = final]
      /\ UNCHANGED <<current, writeQueue, forwarded, totalCharsQueued, writeLength>>
  BY DEF CompleteAtOnce, isrVars
<1>2. /\ \A s \in Slots : Held(length', current[s]) = Held(length, current[s])
      /\ QueueCost(length', writeQueue) = QueueCost(length, writeQueue)
      /\ current["Write"] \in Req => length'[current["Write"]] = length[current["Write"]]
      /\ UNCHANGED <<information, contextCancelled, queueStopped, flushing>>
  BY ArrivalCounts
<1>3. MoreTypes'
  BY <1>1, <1>2 DEF CInv, MoreTypes
<1>4. Accounts(length', current', writeQueue', totalCharsQueued')
  BY <1>1, <1>2, AccountsIs DEF CInv, Accounts, Slots
<1>5. writeLength' <= writeLength
  BY <1>1 DEF WInv, SlotTypes
<1>6. Remainder'
  BY <1>1, <1>2, <1>5, RemainderKept DEF CInv
<1>7. QED
  BY <1>3, <1>4, <1>6, AccountsIs DEF CInv

\* SerialStartOrQueue counts the request's characters.
LEMMA StartOrQueueCounts ==
  ASSUME WInv, CInv, WInv', NEW r \in Req, NEW n \in Nat, NEW x, Arrives(r, n, x),
         NEW m \in Nat, m = Cost(length', r), StartOrQueue(r, m)
  PROVE  CInv'
<1>1. /\ status' = [status EXCEPT ![r] = "pending"] /\ totalCharsQueued' = totalCharsQueued + m
      /\ UNCHANGED writeLength
      /\ \/ /\ current["Write"] = NoReq /\ current' = [current EXCEPT !["Write"] = r]
            /\ pc' = "start" /\ UNCHANGED <<writeQueue, forwarded>>
         \/ /\ writeQueue' = Append(writeQueue, r) /\ forwarded' = forwarded \cup {r}
            /\ UNCHANGED <<current, pc>>
  BY DEF StartOrQueue, isrVars
<1>2. /\ length' \in [Req -> Nat] /\ r # NoReq
      /\ \A s \in Slots : Held(length', current[s]) = Held(length, current[s])
      /\ QueueCost(length', writeQueue) = QueueCost(length, writeQueue)
      /\ current["Write"] \in Req => length'[current["Write"]] = length[current["Write"]]
      /\ UNCHANGED <<information, contextCancelled, queueStopped, flushing>>
  BY ArrivalCounts
<1>3. MoreTypes'
  BY <1>1, <1>2 DEF CInv, MoreTypes
<1>4. /\ Held(length, current["Write"]) \in Nat /\ Held(length, current["Immediate"]) \in Nat
      /\ QueueCost(length, writeQueue) \in Nat
      /\ writeQueue \in Seq(Req) /\ "Write" \in Slots /\ "Immediate" \in Slots
      /\ current \in [Slots -> Req \cup {NoReq}] /\ writeLength \in Nat
  BY CountsAreNat DEF WInv, SlotTypes, Slots
<1>5. totalCharsQueued = Held(length, current["Write"]) + Held(length, current["Immediate"])
                           + QueueCost(length, writeQueue)
  BY AccountsIs DEF CInv, Accounts
<1>6. CASE /\ current["Write"] = NoReq /\ current' = [current EXCEPT !["Write"] = r]
           /\ pc' = "start" /\ UNCHANGED <<writeQueue, forwarded>>
  <2>1. current'["Write"] = r /\ current'["Immediate"] = current["Immediate"]
    BY <1>4, <1>6
  <2>2. Held(length', r) = m /\ Held(length, current["Write"]) = 0
    BY <1>2, <1>6 DEF Held
  <2>3. totalCharsQueued' = m + Held(length', current["Immediate"]) + QueueCost(length', writeQueue)
    BY <1>1, <1>2, <1>4, <1>5, <2>2
  <2>4. Accounts(length', current', writeQueue', totalCharsQueued')
    BY <1>6, <2>1, <2>2, <2>3 DEF Accounts
  <2>5. Remainder'
    BY <1>6, RemainderKept DEF CInv
  <2>6. QED
    BY <1>3, <2>4, <2>5, AccountsIs DEF CInv
<1>7. CASE /\ writeQueue' = Append(writeQueue, r) /\ forwarded' = forwarded \cup {r}
           /\ UNCHANGED <<current, pc>>
  <2>1. QueueCost(length', writeQueue') = QueueCost(length, writeQueue) + m
    BY <1>2, <1>4, <1>7, QueueCostAppend
  <2>2. totalCharsQueued' = Held(length, current["Write"]) + Held(length, current["Immediate"])
                              + (QueueCost(length, writeQueue) + m)
    BY <1>1, <1>4, <1>5
  <2>3. Accounts(length', current', writeQueue', totalCharsQueued')
    BY <1>2, <1>4, <1>7, <2>1, <2>2 DEF Accounts
  <2>4. writeLength' <= writeLength
    BY <1>1, <1>4
  <2>5. Remainder'
    BY <1>2, <1>7, <2>4, RemainderKept DEF CInv
  <2>6. QED
    BY <1>3, <2>3, <2>5, AccountsIs DEF CInv
<1>8. QED
  BY <1>1, <1>6, <1>7

\* So does SerialStartImmediate.
LEMMA StartImmediateCounts ==
  ASSUME WInv, CInv, WInv', NEW r \in Req, r \notin Writes, NEW n \in Nat, NEW x,
         Arrives(r, n, x), NEW timed, StartImmediate(r, timed)
  PROVE  CInv'
<1>1. /\ status' = [status EXCEPT ![r] = "pending"] /\ totalCharsQueued' = totalCharsQueued + 1
      /\ current["Immediate"] = NoReq /\ current' = [current EXCEPT !["Immediate"] = r]
      /\ UNCHANGED <<writeQueue, forwarded, writeLength>>
  BY DEF StartImmediate
<1>2. /\ length' \in [Req -> Nat] /\ r # NoReq
      /\ \A s \in Slots : Held(length', current[s]) = Held(length, current[s])
      /\ QueueCost(length', writeQueue) = QueueCost(length, writeQueue)
      /\ current["Write"] \in Req => length'[current["Write"]] = length[current["Write"]]
      /\ UNCHANGED <<information, contextCancelled, queueStopped, flushing>>
  BY ArrivalCounts
<1>3. MoreTypes'
  BY <1>1, <1>2 DEF CInv, MoreTypes
<1>4. /\ Held(length, current["Write"]) \in Nat /\ QueueCost(length, writeQueue) \in Nat
      /\ "Write" \in Slots /\ "Immediate" \in Slots
      /\ current \in [Slots -> Req \cup {NoReq}] /\ writeLength \in Nat
  BY CountsAreNat DEF WInv, SlotTypes, Slots
<1>5. totalCharsQueued = Held(length, current["Write"]) + Held(length, current["Immediate"])
                           + QueueCost(length, writeQueue)
  BY AccountsIs DEF CInv, Accounts
<1>6. current'["Write"] = current["Write"] /\ current'["Immediate"] = r
  BY <1>1, <1>4
<1>7. Held(length', r) = 1 /\ Held(length, current["Immediate"]) = 0
  BY <1>1, <1>2 DEF Held, Cost
<1>8. totalCharsQueued' = Held(length, current["Write"]) + 1 + QueueCost(length, writeQueue)
  BY <1>1, <1>4, <1>5, <1>7
<1>9. Accounts(length', current', writeQueue', totalCharsQueued')
  BY <1>1, <1>2, <1>4, <1>6, <1>7, <1>8 DEF Accounts
<1>10. writeLength' <= writeLength
  BY <1>1, <1>4
<1>11. Remainder'
  BY <1>2, <1>6, <1>10, RemainderKept DEF CInv
<1>12. QED
  BY <1>3, <1>9, <1>11, AccountsIs DEF CInv

LEMMA ArrivalsCount ==
  ASSUME WInv, CInv, WInv',
         \/ \E r \in Writes, n \in Lens : EvtIoWrite(r, n)
         \/ \E r \in XoffReqs, c \in Counters, t \in XoffTimeouts : XoffCounter(r, c, t)
         \/ \E r \in Immediates : ImmediateChar(r)
  PROVE  CInv'
<1>1. (\A n \in Lens : n \in Nat) /\ 0 \in Nat /\ 1 \in Nat /\ "CANCELLED" \in Done /\ "INVALID" \in Done
  BY LengthAssumption DEF Done
<1>2. /\ \A r \in Writes : r \in Req
      /\ \A r \in XoffReqs \cup Immediates : r \in Req /\ r \notin Writes
  BY ReqAssumption DEF Req
<1>3. ASSUME NEW r \in Writes, NEW n \in Lens, EvtIoWrite(r, n)
      PROVE  CInv'
  <2>1. Arrives(r, n, NoXc) /\ (StartOrQueue(r, n) \/ CompleteAtOnce(r, "CANCELLED"))
    BY <1>3 DEF EvtIoWrite
  <2>2. n = Cost(length', r)
    BY <1>1, <1>2, <2>1, ArrivalCounts DEF Cost
  <2>3. QED
    BY <1>1, <1>2, <2>1, <2>2, StartOrQueueCounts, CompleteAtOnceCounts
<1>4. ASSUME NEW r \in XoffReqs, NEW c \in Counters, NEW t \in XoffTimeouts,
             XoffCounter(r, c, t)
      PROVE  CInv'
  <2>1. PICK x : Arrives(r, 0, x)
    BY <1>4 DEF XoffCounter
  <2>2. StartOrQueue(r, 1) \/ CompleteAtOnce(r, "CANCELLED")
    BY <1>4 DEF XoffCounter
  <2>3. 1 = Cost(length', r)
    BY <1>2 DEF Cost
  <2>4. QED
    BY <1>1, <1>2, <2>1, <2>2, <2>3, StartOrQueueCounts, CompleteAtOnceCounts
<1>5. ASSUME NEW r \in Immediates, ImmediateChar(r)
      PROVE  CInv'
  <2>1. /\ Arrives(r, 0, NoXc)
        /\ \/ \E timed \in TotalTimeouts : StartImmediate(r, timed)
           \/ CompleteAtOnce(r, "INVALID") \/ CompleteAtOnce(r, "CANCELLED")
    BY <1>5 DEF ImmediateChar
  <2>2. QED
    BY <1>1, <1>2, <2>1, StartImmediateCounts, CompleteAtOnceCounts
<1>6. QED
  BY <1>3, <1>4, <1>5

\* SerialEvtCanceledOnQueue takes a request off, wherever it is in the queue.
LEMMA EvtCanceledOnQueueCounts ==
  ASSUME WInv, CInv, WInv', NEW r \in Req, EvtCanceledOnQueue(r)
  PROVE  CInv'
<1>1. PICK i \in DOMAIN writeQueue : writeQueue[i] = r /\ writeQueue' = RemoveAt(writeQueue, i)
  BY DEF EvtCanceledOnQueue
<1>2. /\ status' = [status EXCEPT ![r] = "CANCELLED"]
      /\ totalCharsQueued' = totalCharsQueued - Chars(r)
      /\ UNCHANGED <<length, information, contextCancelled, current, forwarded, queueStopped,
                     writeLength, flushing>>
  BY DEF EvtCanceledOnQueue, isrVars
<1>3. MoreTypes'
  BY <1>2 DEF CInv, MoreTypes, Done
<1>4. /\ Held(length, current["Write"]) \in Nat /\ Held(length, current["Immediate"]) \in Nat
      /\ QueueCost(length, writeQueue) \in Nat /\ writeQueue \in Seq(Req)
      /\ length \in [Req -> Nat] /\ writeLength \in Nat
  BY CountsAreNat DEF WInv, SlotTypes, Slots
<1>5. QueueCost(length, writeQueue') = QueueCost(length, writeQueue) - Cost(length, r)
  BY <1>1, <1>4, QueueCostRemove
<1>6. totalCharsQueued = Held(length, current["Write"]) + Held(length, current["Immediate"])
                           + QueueCost(length, writeQueue)
  BY AccountsIs DEF CInv, Accounts
<1>7. Cost(length, r) \in Nat /\ Chars(r) = Cost(length, r)
  BY <1>4, AccountsIs, CostNat
<1>8. totalCharsQueued' = Held(length, current["Write"]) + Held(length, current["Immediate"])
                            + (QueueCost(length, writeQueue) - Cost(length, r))
  BY <1>2, <1>4, <1>6, <1>7
<1>9. Accounts(length', current', writeQueue', totalCharsQueued')
  BY <1>2, <1>5, <1>8 DEF Accounts
<1>10. writeLength' <= writeLength
  BY <1>2, <1>4
<1>11. Remainder'
  BY <1>2, <1>10, RemainderKept DEF CInv
<1>12. QED
  BY <1>3, <1>9, <1>11, AccountsIs DEF CInv

\* SerialFlushRequests, with or without a current request to cancel.
LEMMA FlushCounts ==
  ASSUME WInv, CInv, WInv', NEW slot \in Slots, NEW back, FlushRequests(slot, back)
  PROVE  CInv'
<1> DEFINE r == current[slot]
<1>1. queueStopped' = FALSE /\ TRUE \in BOOLEAN /\ "CANCELLED" \in Done
  BY DEF FlushRequests, Done
<1>2. CASE r # NoReq /\ cancelMark[r] = "cancelable"
  <2>1. TryToComplete(slot, TRUE, "CANCELLED", "CANCEL", timer[slot], TRUE, back)
    BY <1>2 DEF FlushRequests, CancelCurrent
  <2>2. QED
    BY <1>1, <2>1, TryToCompleteCounts
<1>3. CASE ~(r # NoReq /\ cancelMark[r] = "cancelable")
  <2>1. /\ status' = StatusAfter(TRUE) /\ totalCharsQueued' = QueuedAfter(TRUE)
        /\ writeQueue' = QueueAfter(TRUE)
        /\ UNCHANGED <<length, information, contextCancelled, current, forwarded,
                       writeLength, flushing>>
    BY <1>3 DEF FlushRequests, requestVars, QueueAfter
  <2>2. /\ Accounts(length, current, QueueAfter(TRUE), QueuedAfter(TRUE))
        /\ StatusAfter(TRUE) \in [Req -> {"unused", "pending"} \cup Done]
    BY QueuedAfterIs
  <2>3. MoreTypes'
    BY <1>1, <2>1, <2>2 DEF CInv, MoreTypes
  <2>4. Accounts(length', current', writeQueue', totalCharsQueued')
    BY <2>1, <2>2
  <2>5. writeLength' <= writeLength
    BY <2>1 DEF WInv, SlotTypes
  <2>6. Remainder'
    BY <2>1, <2>5, RemainderKept DEF CInv
  <2>7. QED
    BY <2>3, <2>4, <2>6, AccountsIs DEF CInv
<1>4. QED
  BY <1>2, <1>3

\* The character of an xoff counter leaves TotalCharsQueued when it is sent.
LEMMA CompleteXoffWriteCounts ==
  ASSUME WInv, CInv, WInv', CompleteXoffWrite
  PROVE  CInv'
<1> DEFINE r == current["Write"]
<1>1. /\ totalCharsQueued' = totalCharsQueued - 1 /\ GetNextWrite(writeQueue, r, "idle")
      /\ r \in XoffReqs
      /\ UNCHANGED <<length, status, information, contextCancelled, forwarded, queueStopped,
                     writeLength, flushing>>
  BY DEF CompleteXoffWrite, BecomesXoff, requestVars
<1>2. MoreTypes'
  BY <1>1 DEF CInv, MoreTypes
<1>3. /\ Held(length, current["Immediate"]) \in Nat /\ QueueCost(length, writeQueue) \in Nat
      /\ writeQueue \in Seq(Req)
  BY CountsAreNat DEF WInv, SlotTypes, Slots
<1>4. Held(length, r) = 1
  BY <1>1, ReqAssumption DEF Held, Cost, Req
<1>5. totalCharsQueued = 1 + Held(length, current["Immediate"]) + QueueCost(length, writeQueue)
  BY <1>4, AccountsIs DEF CInv, Accounts
<1>6. /\ Held(length, current'["Write"]) + QueueCost(length, writeQueue')
           = QueueCost(length, writeQueue)
      /\ Held(length, current'["Write"]) \in Nat /\ QueueCost(length, writeQueue') \in Nat
      /\ current'["Immediate"] = current["Immediate"]
      /\ current'["Write"] = NoReq \/ pc' = "start"
  BY <1>1, <1>3, NextCost
<1>7. totalCharsQueued' = Held(length, current["Immediate"]) + QueueCost(length, writeQueue)
  BY <1>1, <1>3, <1>5
<1>8. Accounts(length', current', writeQueue', totalCharsQueued')
  BY <1>1, <1>3, <1>6, <1>7 DEF Accounts
<1>9. Remainder'
  BY <1>6, RemainderKept DEF CInv
<1>10. QED
  BY <1>2, <1>8, <1>9, AccountsIs DEF CInv

LEMMA NextCounts ==
  ASSUME WInv, CInv, WInv', [Next]_vars
  PROVE  CInv'
<1>1. /\ "Write" \in Slots /\ "Xoff" \in Slots /\ "Immediate" \in Slots
      /\ "SUCCESS" \in Done /\ "TIMEOUT" \in Done /\ "CANCELLED" \in Done /\ "MORE_WRITES" \in Done
      /\ queueStopped \in BOOLEAN
  BY DEF Slots, Done, CInv, MoreTypes
<1>2. CASE UNCHANGED vars \/ FlushRestart \/ \E slot \in Slots : TimerFires(slot)
  BY <1>2, SmallStepsCount
<1>3. CASE ISR
  BY <1>3, SmallStepsCount, SendWriteCounts DEF ISR
<1>4. CASE Client
  <2>1. CASE \E r \in Req : Cancel(r) \/ EvtCanceledOnQueue(r)
    BY <2>1, SmallStepsCount, EvtCanceledOnQueueCounts
  <2>2. CASE PurgeWrites
    BY <1>1, <2>2, FlushCounts DEF PurgeWrites
  <2>3. CASE FlushStop
    BY <2>3, SmallStepsCount
  <2>4. QED
    BY <1>4, <2>1, <2>2, <2>3, ArrivalsCount DEF Client
<1>5. CASE Continue
  <2>1. CASE PurgeXoff
    BY <1>1, <2>1, FlushCounts DEF PurgeXoff
  <2>2. CASE AbortXoff
    <3>1. /\ TryToComplete("Xoff", TRUE, "MORE_WRITES", "XOFF_REF", timer["Xoff"], FALSE, "give")
          /\ queueStopped' = queueStopped
      BY <2>2 DEF AbortXoff
    <3>2. QED
      BY <1>1, <3>1, TryToCompleteCounts
  <2>3. QED
    BY <1>5, <2>1, <2>2, SmallStepsCount DEF Continue
<1>6. CASE Callback
  <2>1. CASE CommError
    BY <1>1, <2>1, FlushCounts DEF CommError
  <2>2. CASE CompleteWrite
    BY <1>1, <2>2, TryToCompleteCounts DEF CompleteWrite
  <2>3. CASE \E slot \in Slots : CompleteFromIsr(slot)
    BY <1>1, <2>3, TryToCompleteCounts DEF CompleteFromIsr
  <2>4. CASE \E slot \in Slots : Timeout(slot)
    BY <1>1, <2>4, TryToCompleteCounts DEF Timeout
  <2>5. CASE TimeoutXoff
    BY <1>1, <2>5, TryToCompleteCounts DEF TimeoutXoff
  <2>6. CASE \E r \in Req : CancelCallback(r)
    <3>1. PICK r \in Req : CancelCallback(r)
      BY <2>6
    <3>2. /\ TryToComplete(cancelRoutine[r], TRUE, "CANCELLED", "CANCEL",
                           timer[cancelRoutine[r]], FALSE, "idle")
          /\ queueStopped' = queueStopped
      BY <3>1 DEF CancelCallback, CancelCurrent
    <3>3. cancelRoutine[r] \in Slots
      BY DEF WInv, SlotTypes
    <3>4. QED
      BY <1>1, <3>2, <3>3, TryToCompleteCounts
  <2>7. QED
    BY <1>1, <1>6, <2>1, <2>2, <2>3, <2>4, <2>5, <2>6, CompleteXoffWriteCounts DEF Callback
<1>7. QED
  BY <1>2, <1>3, <1>4, <1>5, <1>6 DEF Next

LEMMA CInvInit ==
  ASSUME Init
  PROVE  CInv
<1>1. /\ status = [r \in Req |-> "unused"] /\ information = [r \in Req |-> 0]
      /\ contextCancelled = [r \in Req |-> FALSE] /\ forwarded = {} /\ queueStopped = FALSE
      /\ flushing = FALSE /\ totalCharsQueued = 0 /\ writeQueue = << >>
      /\ current = [s \in Slots |-> NoReq]
  BY DEF Init
<1>2. MoreTypes
  BY <1>1 DEF MoreTypes
<1>3. current["Write"] = NoReq /\ current["Immediate"] = NoReq
  BY <1>1 DEF Slots
<1>4. CharsAccounted
  BY <1>1, <1>3, AccountsIs, QueueCostNone DEF Accounts, Held
<1>5. QED
  BY <1>2, <1>3, <1>4 DEF CInv, Remainder

-----------------------------------------------------------------------------
(* The theorems.                                                           *)

\* What TotalCharsQueued counts, and what the ISR still has of a write.
THEOREM SpecCInv == Spec => [](WInv /\ CInv)
<1>1. Init => WInv /\ CInv
  BY WInvInit, CInvInit
<1>2. WInv /\ CInv /\ [Next]_vars => WInv' /\ CInv'
  BY StepPreserves, NextCounts
<1>3. QED
  BY <1>1, <1>2, PTL DEF Spec

\* The type invariant of run WritePath_safety, for any number of requests, of any
\* length: TotalCharsQueued never becomes negative, and neither does what the ISR
\* has left to send or a write has to report.
THEOREM SpecWritePathTypeOK == Spec => []TypeOK
<1>1. WInv /\ CInv => TypeOK
  <2>1. SUFFICES ASSUME WInv, CInv PROVE TypeOK
    OBVIOUS
  <2>2. /\ Held(length, current["Write"]) \in Nat /\ Held(length, current["Immediate"]) \in Nat
        /\ QueueCost(length, writeQueue) \in Nat
    BY <2>1, CountsAreNat DEF WInv, SlotTypes, Slots
  <2>3. totalCharsQueued \in Nat
    BY <2>1, <2>2, AccountsIs DEF CInv, Accounts
  <2>4. QED
    BY <2>1, <2>3 DEF TypeOK, WInv, SlotTypes, CInv, MoreTypes
<1>2. QED
  BY <1>1, SpecCInv, PTL

\* The property of run WritePath_safety: whatever happens to requests, of any number
\* and length, TotalCharsQueued is the sum of those the driver has yet to send.
THEOREM SpecCharsAccounted == Spec => []CharsAccounted
<1>1. CInv => CharsAccounted
  BY DEF CInv
<1>2. QED
  BY <1>1, SpecCInv, PTL

\* The property of run WritePath_safety: GET_COMMSTATUS never reports less than what
\* is still to be sent, and never more than was accepted.
THEOREM SpecReportCoversRest == Spec => []ReportCoversRest
<1>1. WInv /\ CInv => ReportCoversRest
  <2> DEFINE r == current["Write"]
             i == current["Immediate"]
             rest == IF pc \in {"start", "give"} THEN Chars(r) ELSE writeLength
             one == IF transmitImmediate THEN 1 ELSE 0
  <2>1. SUFFICES ASSUME WInv, CInv, r \in Writes
                 PROVE  AmountInOutQueue \in rest + CharsIn(writeQueue) + one .. totalCharsQueued
    BY DEF ReportCoversRest
  <2>2. /\ "Write" \in Slots /\ "Immediate" \in Slots /\ length \in [Req -> Nat]
        /\ writeLength \in Nat /\ r \in Req /\ r # NoReq /\ i \in Req \cup {NoReq}
        /\ QueueCost(length, writeQueue) \in Nat /\ Held(length, i) \in Nat
    BY <2>1, ReqAssumption, CountsAreNat DEF WInv, SlotTypes, Slots, Req
  <2>3. /\ Chars(r) = length[r] /\ Held(length, r) = length[r] /\ length[r] \in Nat
        /\ writeLength <= length[r]
    BY <2>1, <2>2 DEF Chars, Held, Cost, CInv, Remainder
  <2>4. totalCharsQueued = length[r] + Held(length, i) + QueueCost(length, writeQueue)
    BY <2>1, <2>3, AccountsIs DEF CInv, Accounts
  <2>5. one \in {0, 1} /\ one <= Held(length, i)
    <3>1. CASE ~transmitImmediate
      BY <2>2, <3>1
    <3>2. CASE transmitImmediate
      <4>1. i # NoReq
        BY <2>1, <3>2 DEF WInv, Slotwise, OwnersAgree, IsrHas, Started
      <4>2. i \in Writes => length[i] > 0
        BY <2>1, <2>2, <4>1 DEF WInv, Owned, Parameters
      <4>3. Held(length, i) >= 1
        BY <2>2, <4>1, <4>2 DEF Held, Cost
      <4>4. QED
        BY <3>2, <4>3
    <3>3. QED
      BY <3>1, <3>2
  <2>6. CharsIn(writeQueue) = QueueCost(length, writeQueue)
    BY AccountsIs
  <2>7. CASE writeLength > 0
    <3>1. pc \notin {"start", "give"}
      BY <2>1, <2>7 DEF WInv, Slotwise, OwnersAgree, IsrHas, Started
    <3>2. rest = writeLength /\ AmountInOutQueue = totalCharsQueued - (length[r] - writeLength)
      BY <2>7, <3>1 DEF AmountInOutQueue
    <3> HIDE DEF rest, one
    <3>3. QED
      BY <2>2, <2>3, <2>4, <2>5, <2>6, <3>2
  <2>8. CASE ~(writeLength > 0)
    <3>1. rest \in Nat /\ rest <= length[r] /\ AmountInOutQueue = totalCharsQueued
      BY <2>2, <2>3, <2>8 DEF AmountInOutQueue
    <3> HIDE DEF rest, one
    <3>2. QED
      BY <2>2, <2>3, <2>4, <2>5, <2>6, <3>1
  <2>9. QED
    BY <2>7, <2>8
<1>2. QED
  BY <1>1, SpecCInv, PTL

(***************************************************************************)
(* Subsequences, by induction on the length of a sequence.                 *)
(***************************************************************************)

\* Induction over sequences, for a set in place of a predicate.
LEMMA SeqInd ==
  ASSUME NEW X, NEW T, << >> \in T,
         \A s \in Seq(X) : s \in T => \A x \in X : Append(s, x) \in T
  PROVE  Seq(X) \subseteq T
<1> DEFINE S == {n \in Nat : \A s \in Seq(X) : Len(s) = n => s \in T}
<1>1. 0 \in S
  OBVIOUS
<1>2. ASSUME NEW n \in Nat, n \in S
      PROVE  n + 1 \in S
  <2>1. SUFFICES ASSUME NEW s \in Seq(X), Len(s) = n + 1 PROVE s \in T
    OBVIOUS
  <2> DEFINE t == SubSeq(s, 1, n)
             x == s[n + 1]
  <2>2. /\ t \in Seq(X) /\ Len(t) = n /\ x \in X
        /\ \A i \in 1 .. n : t[i] = s[i]
    BY <2>1
  <2> HIDE DEF t
  <2>3. s = Append(t, x)
    BY <2>1, <2>2
  <2>4. t \in T
    BY <1>2, <2>2
  <2>5. QED
    BY <2>2, <2>3, <2>4
<1>3. Nat \subseteq S
  BY <1>1, <1>2, NatInd
<1>4. QED
  BY <1>3

\* The subsequences of the first m elements.
Firsts(q, kept, g, m) ==
  /\ DOMAIN g = 0 .. m /\ g = [i \in 0 .. m |-> g[i]] /\ g[0] = << >>
  /\ \A i \in 1 .. m : g[i] = IF q[i] \in kept THEN Append(g[i - 1], q[i]) ELSE g[i - 1]

\* There is such a function, and Only is its last value.
LEMMA FirstsExist ==
  ASSUME NEW X, NEW q \in Seq(X), NEW kept
  PROVE  \A m \in 0 .. Len(q) : \E g : Firsts(q, kept, g, m)
<1> DEFINE S == {m \in Nat : m <= Len(q) => \E g : Firsts(q, kept, g, m)}
<1>1. 0 \in S
  <2>1. Firsts(q, kept, [i \in 0 .. 0 |-> << >>], 0)
    BY DEF Firsts
  <2>2. QED
    BY <2>1
<1>2. ASSUME NEW m \in Nat, m \in S
      PROVE  m + 1 \in S
  <2>1. SUFFICES ASSUME m + 1 <= Len(q) PROVE \E g : Firsts(q, kept, g, m + 1)
    OBVIOUS
  <2>2. PICK g : Firsts(q, kept, g, m)
    BY <1>2, <2>1
  <2> DEFINE last == IF q[m + 1] \in kept THEN Append(g[m], q[m + 1]) ELSE g[m]
  <2> HIDE DEF last
  <2> DEFINE h == [i \in 0 .. m + 1 |-> IF i = m + 1 THEN last ELSE g[i]]
  <2>4. DOMAIN h = 0 .. m + 1 /\ h[0] = << >> /\ h = [i \in 0 .. m + 1 |-> h[i]]
    BY <2>2 DEF Firsts
  <2>5. \A i \in 1 .. m + 1 : h[i] = IF q[i] \in kept THEN Append(h[i - 1], q[i]) ELSE h[i - 1]
    <3>1. TAKE i \in 1 .. m + 1
    <3>2. CASE i = m + 1
      <4>1. h[i] = last /\ h[i - 1] = g[m]
        BY <3>2
      <4>2. QED
        BY <3>2, <4>1 DEF last
    <3>3. CASE i # m + 1
      <4>1. i \in 1 .. m /\ i - 1 \in 0 .. m /\ h[i] = g[i] /\ h[i - 1] = g[i - 1]
        BY <3>3
      <4>2. QED
        BY <2>2, <4>1 DEF Firsts
    <3>4. QED
      BY <3>2, <3>3
  <2>6. Firsts(q, kept, h, m + 1)
    BY <2>4, <2>5 DEF Firsts
  <2>7. QED
    BY <2>6
<1>3. Nat \subseteq S
  BY <1>1, <1>2, NatInd
<1>4. QED
  BY <1>3

\* What Only is: the last of these subsequences.
LEMMA OnlyIs ==
  ASSUME NEW X, NEW q \in Seq(X), NEW kept, NEW g, Firsts(q, kept, g, Len(q))
  PROVE  Only(q, kept) = g[Len(q)]
<1> DEFINE rec(f) == [n \in 0 .. Len(q) |->
                        IF n = 0 THEN << >>
                        ELSE IF q[n] \in kept THEN Append(f[n - 1], q[n]) ELSE f[n - 1]]
           only == CHOOSE f : f = rec(f)
<1>1. g = rec(g)
  BY DEF Firsts
<1>2. only = rec(only)
  BY <1>1
<1>3. Only(q, kept) = only[Len(q)]
  BY DEF Only
<1> DEFINE S == {i \in Nat : i <= Len(q) => only[i] = g[i]}
<1> HIDE DEF only
<1>4. /\ only[0] = << >>
      /\ \A i \in 1 .. Len(q) :
           only[i] = IF q[i] \in kept THEN Append(only[i - 1], q[i]) ELSE only[i - 1]
  <2>1. \A i \in 0 .. Len(q) :
          only[i] = IF i = 0 THEN << >>
                    ELSE IF q[i] \in kept THEN Append(only[i - 1], q[i]) ELSE only[i - 1]
    BY <1>2
  <2>2. Len(q) \in Nat
    OBVIOUS
  <2>3. 0 \in 0 .. Len(q) /\ \A i \in 1 .. Len(q) : i \in 0 .. Len(q) /\ i # 0
    BY <2>2
  <2>4. QED
    BY <2>1, <2>3
<1>5. 0 \in S
  BY <1>4 DEF Firsts
<1>6. ASSUME NEW i \in Nat, i \in S
      PROVE  i + 1 \in S
  <2>1. SUFFICES ASSUME i + 1 <= Len(q) PROVE only[i + 1] = g[i + 1]
    OBVIOUS
  <2>2. only[i] = g[i] /\ i + 1 \in 1 .. Len(q) /\ (i + 1) - 1 = i
    BY <1>6, <2>1
  <2>3. only[i + 1] = IF q[i + 1] \in kept THEN Append(only[i], q[i + 1]) ELSE only[i]
    BY <1>4, <2>2
  <2>4. g[i + 1] = IF q[i + 1] \in kept THEN Append(g[i], q[i + 1]) ELSE g[i]
    BY <2>2 DEF Firsts
  <2>5. QED
    BY <2>2, <2>3, <2>4
<1>7. Nat \subseteq S
  BY <1>5, <1>6, NatInd
<1>8. QED
  BY <1>3, <1>7

\* The empty sequence, one more element, and the type.
LEMMA OnlyOfNone == \A kept : Only(<< >>, kept) = << >>
<1>1. TAKE kept
<1>2. Firsts(<< >>, kept, [i \in 0 .. 0 |-> << >>], 0)
  BY DEF Firsts
<1>3. << >> \in Seq({}) /\ Len(<< >>) = 0
  OBVIOUS
<1>4. QED
  BY <1>2, <1>3, OnlyIs

LEMMA OnlyOfAppend ==
  ASSUME NEW X, NEW q \in Seq(X), NEW x \in X, NEW kept
  PROVE  Only(Append(q, x), kept)
           = IF x \in kept THEN Append(Only(q, kept), x) ELSE Only(q, kept)
<1>1. PICK g : Firsts(q, kept, g, Len(q))
  <2>1. Len(q) \in 0 .. Len(q)
    OBVIOUS
  <2>2. QED
    BY <2>1, FirstsExist, Zenon
<1> DEFINE v == Append(q, x)
           m == Len(q)
           last == IF x \in kept THEN Append(g[m], x) ELSE g[m]
<1>2. v \in Seq(X) /\ Len(v) = m + 1 /\ v[m + 1] = x /\ m \in Nat
      /\ \A i \in 1 .. m : v[i] = q[i]
  OBVIOUS
<1> HIDE DEF v, last
<1> DEFINE h == [i \in 0 .. m + 1 |-> IF i = m + 1 THEN last ELSE g[i]]
<1>3. DOMAIN h = 0 .. m + 1 /\ h[0] = << >> /\ h = [i \in 0 .. m + 1 |-> h[i]]
  BY <1>1, <1>2 DEF Firsts
<1>4. \A i \in 1 .. m + 1 : h[i] = IF v[i] \in kept THEN Append(h[i - 1], v[i]) ELSE h[i - 1]
  <2>1. TAKE i \in 1 .. m + 1
  <2>2. CASE i = m + 1
    <3>1. h[i] = last /\ h[i - 1] = g[m] /\ v[i] = x
      BY <1>2, <2>2
    <3>2. QED
      BY <3>1 DEF last
  <2>3. CASE i # m + 1
    <3>1. /\ i \in 1 .. m /\ i - 1 \in 0 .. m /\ h[i] = g[i] /\ h[i - 1] = g[i - 1]
          /\ v[i] = q[i]
      BY <1>2, <2>3
    <3>2. QED
      BY <1>1, <3>1 DEF Firsts
  <2>4. QED
    BY <2>2, <2>3
<1>5. Firsts(v, kept, h, Len(v))
  BY <1>2, <1>3, <1>4 DEF Firsts
<1>6. Only(v, kept) = h[m + 1] /\ Only(q, kept) = g[m]
  BY <1>1, <1>2, <1>5, OnlyIs
<1>7. h[m + 1] = last
  BY <1>2
<1>8. QED
  BY <1>6, <1>7 DEF v, last

LEMMA OnlyType ==
  ASSUME NEW X, NEW q \in Seq(X), NEW kept
  PROVE  Only(q, kept) \in Seq(X)
<1> DEFINE T == {s \in Seq(X) : Only(s, kept) \in Seq(X)}
<1>1. << >> \in T
  <2>1. Only(<< >>, kept) = << >>
    BY OnlyOfNone
  <2>2. << >> \in Seq(X)
    OBVIOUS
  <2>3. QED
    BY <2>1, <2>2, Zenon
<1>2. ASSUME NEW s \in Seq(X), s \in T, NEW x \in X
      PROVE  Append(s, x) \in T
  <2>1. Only(s, kept) \in Seq(X)
    BY <1>2
  <2>2. Only(Append(s, x), kept)
          = IF x \in kept THEN Append(Only(s, kept), x) ELSE Only(s, kept)
    BY OnlyOfAppend, Zenon
  <2>3. Only(Append(s, x), kept) \in Seq(X)
    BY <2>1, <2>2
  <2>4. QED
    BY <2>3
<1>3. Seq(X) \subseteq T
  BY <1>1, <1>2, SeqInd
<1>4. QED
  BY <1>3

\* Concatenation, and two subsequences one after the other.
LEMMA OnlyOfConcat ==
  ASSUME NEW X, NEW q \in Seq(X), NEW p \in Seq(X), NEW kept
  PROVE  Only(q \o p, kept) = Only(q, kept) \o Only(p, kept)
<1> DEFINE T == {s \in Seq(X) : Only(q \o s, kept) = Only(q, kept) \o Only(s, kept)}
<1>1. << >> \in T
  <2>1. q \o << >> = q
    OBVIOUS
  <2>2. Only(q, kept) \in Seq(X)
    BY OnlyType, Zenon
  <2>3. Only(q, kept) \o << >> = Only(q, kept)
    BY <2>2
  <2>4. Only(<< >>, kept) = << >>
    BY OnlyOfNone
  <2>5. Only(q \o << >>, kept) = Only(q, kept) \o Only(<< >>, kept)
    BY <2>1, <2>3, <2>4
  <2>6. QED
    BY <2>5
<1>2. ASSUME NEW s \in Seq(X), s \in T, NEW x \in X
      PROVE  Append(s, x) \in T
  <2> DEFINE a == Only(q, kept)
             b == Only(s, kept)
  <2>1. a \in Seq(X) /\ b \in Seq(X)
    BY OnlyType, Zenon
  <2>2. q \o Append(s, x) = Append(q \o s, x) /\ q \o s \in Seq(X)
    OBVIOUS
  <2>3. Only(q \o s, kept) = a \o b
    BY <1>2
  <2>4. Only(Append(q \o s, x), kept) = IF x \in kept THEN Append(a \o b, x) ELSE a \o b
    <3>1. Only(Append(q \o s, x), kept)
            = IF x \in kept THEN Append(Only(q \o s, kept), x) ELSE Only(q \o s, kept)
      BY <2>2, OnlyOfAppend, Zenon
    <3>2. QED
      BY <2>3, <3>1
  <2>5. Only(Append(s, x), kept) = IF x \in kept THEN Append(b, x) ELSE b
    BY OnlyOfAppend, Zenon
  <2> HIDE DEF a, b
  <2>6. a \o Append(b, x) = Append(a \o b, x)
    BY <2>1
  <2>7. Only(q \o Append(s, x), kept) = a \o Only(Append(s, x), kept)
    BY <2>2, <2>4, <2>5, <2>6
  <2>8. QED
    BY <2>7 DEF a
<1>3. Seq(X) \subseteq T
  BY <1>1, <1>2, SeqInd
<1>4. QED
  BY <1>3

LEMMA OnlyOfOnly ==
  ASSUME NEW X, NEW q \in Seq(X), NEW kept, NEW left
  PROVE  Only(Only(q, kept), left) = Only(q, kept \cap left)
<1> DEFINE T == {s \in Seq(X) : Only(Only(s, kept), left) = Only(s, kept \cap left)}
<1>1. << >> \in T
  BY OnlyOfNone
<1>2. ASSUME NEW s \in Seq(X), s \in T, NEW x \in X
      PROVE  Append(s, x) \in T
  <2> DEFINE o == Only(s, kept)
  <2>1. o \in Seq(X)
    BY OnlyType, Zenon
  <2>1a. Only(o, left) = Only(s, kept \cap left)
    BY <1>2
  <2>2. Only(Append(s, x), kept) = IF x \in kept THEN Append(o, x) ELSE o
    BY OnlyOfAppend
  <2>3. Only(Append(s, x), kept \cap left)
          = IF x \in kept \cap left THEN Append(Only(s, kept \cap left), x)
                                    ELSE Only(s, kept \cap left)
    BY OnlyOfAppend
  <2> HIDE DEF o
  <2>4. Only(Append(o, x), left) = IF x \in left THEN Append(Only(o, left), x) ELSE Only(o, left)
    BY <2>1, OnlyOfAppend
  <2>5. Only(Only(Append(s, x), kept), left) = Only(Append(s, x), kept \cap left)
    <3>1. CASE x \in kept
      <4>1. Only(Append(s, x), kept) = Append(o, x)
        BY <2>2, <3>1
      <4>2. x \in kept \cap left <=> x \in left
        BY <3>1
      <4>3. QED
        BY <2>1a, <2>3, <2>4, <4>1, <4>2
    <3>2. CASE x \notin kept
      BY <2>1a, <2>2, <2>3, <3>2
    <3>3. QED
      BY <3>1, <3>2
  <2>6. QED
    BY <2>5
<1>3. Seq(X) \subseteq T
  BY <1>1, <1>2, SeqInd
<1>4. QED
  BY <1>3

\* Only the elements that are there matter.
LEMMA OnlySame ==
  ASSUME NEW X, NEW q \in Seq(X), NEW kept, NEW left,
         \A i \in DOMAIN q : q[i] \in kept <=> q[i] \in left
  PROVE  Only(q, kept) = Only(q, left)
<1> DEFINE T == {s \in Seq(X) : (\A i \in DOMAIN s : s[i] \in kept <=> s[i] \in left)
                                   => Only(s, kept) = Only(s, left)}
<1>1. << >> \in T
  BY OnlyOfNone
<1>2. ASSUME NEW s \in Seq(X), s \in T, NEW x \in X
      PROVE  Append(s, x) \in T
  <2> DEFINE t == Append(s, x)
  <2>1. /\ t \in Seq(X) /\ DOMAIN s = 1 .. Len(s) /\ DOMAIN t = 1 .. Len(s) + 1
        /\ Len(s) \in Nat /\ t[Len(s) + 1] = x /\ \A i \in 1 .. Len(s) : t[i] = s[i]
    OBVIOUS
  <2>2. /\ Only(t, kept) = IF x \in kept THEN Append(Only(s, kept), x) ELSE Only(s, kept)
        /\ Only(t, left) = IF x \in left THEN Append(Only(s, left), x) ELSE Only(s, left)
    BY OnlyOfAppend, Zenon
  <2> HIDE DEF t
  <2>3. ASSUME \A i \in DOMAIN t : t[i] \in kept <=> t[i] \in left
        PROVE  Only(t, kept) = Only(t, left)
    <3>1. x \in kept <=> x \in left
      BY <2>1, <2>3
    <3>2. \A i \in DOMAIN s : s[i] \in kept <=> s[i] \in left
      BY <2>1, <2>3
    <3>3. Only(s, kept) = Only(s, left)
      BY <1>2, <3>2
    <3>4. QED
      BY <2>2, <3>1, <3>3
  <2>4. t \in T
    BY <2>1, <2>3
  <2>5. QED
    BY <2>4 DEF t
<1>3. Seq(X) \subseteq T
  BY <1>1, <1>2, SeqInd
<1>4. QED
  BY <1>3

\* Where nothing is kept nothing is left.
LEMMA OnlyNothing ==
  ASSUME NEW X, NEW q \in Seq(X), NEW kept, \A i \in DOMAIN q : q[i] \notin kept
  PROVE  Only(q, kept) = << >>
<1> DEFINE T == {s \in Seq(X) : Only(s, {}) = << >>}
<1>1. << >> \in T
  BY OnlyOfNone
<1>2. ASSUME NEW s \in Seq(X), s \in T, NEW x \in X
      PROVE  Append(s, x) \in T
  <2>1. Only(Append(s, x), {}) = Only(s, {})
    BY OnlyOfAppend
  <2>2. QED
    BY <1>2, <2>1
<1>3. Seq(X) \subseteq T
  BY <1>1, <1>2, SeqInd
<1>4. Only(q, kept) = Only(q, {})
  BY OnlySame
<1>5. QED
  BY <1>3, <1>4

-----------------------------------------------------------------------------
(* The steps of the line of writes.                                        *)

\* A step of the write path is one of TxStream, or none.
LineStep == Stream!Next \/ UNCHANGED Stream!vars

LEMMA Stutters ==
  ASSUME UNCHANGED <<Line, Sizes, Transmitted, Outcome, Reported>>
  PROVE  LineStep
  BY DEF LineStep, Stream!vars

LEMMA Accepts ==
  ASSUME NEW w \in Writes, NEW n \in Lens, Sizes[w] = 0,
         Sizes' = [Sizes EXCEPT ![w] = n], Line' = Append(Line, w),
         UNCHANGED <<Transmitted, Outcome, Reported>>
  PROVE  LineStep
  BY DEF LineStep, Stream!Next, Stream!Accept

LEMMA Refuses ==
  ASSUME NEW w \in Writes, NEW n \in Lens, Sizes[w] = 0,
         Sizes' = [Sizes EXCEPT ![w] = n],
         UNCHANGED <<Line, Transmitted, Outcome, Reported>>
  PROVE  LineStep
  BY DEF LineStep, Stream!Next, Stream!Refuse

LEMMA SendsSome ==
  ASSUME Line # << >>, Transmitted' \in Transmitted + 1 .. Sizes[Head(Line)],
         UNCHANGED <<Line, Sizes, Outcome, Reported>>
  PROVE  LineStep
  BY DEF LineStep, Stream!Next, Stream!Send

LEMMA Ends ==
  ASSUME NEW how \in {"SUCCESS", "TIMEOUT"}, Line # << >>, Line' = Tail(Line),
         how = "SUCCESS" => Transmitted = Sizes[Head(Line)], Transmitted' = 0,
         Outcome' = [Outcome EXCEPT ![Head(Line)] = how],
         Reported' = [Reported EXCEPT ![Head(Line)] = Transmitted], UNCHANGED Sizes
  PROVE  LineStep
  BY DEF LineStep, Stream!Next, Stream!End

LEMMA Drops ==
  ASSUME NEW gone \in SUBSET Writes, Line' = Only(Line, Writes \ gone),
         Transmitted' = IF Line # << >> /\ Head(Line) \in gone THEN 0 ELSE Transmitted,
         UNCHANGED <<Sizes, Outcome, Reported>>
  PROVE  LineStep
<1>1. \A q, kept : Stream!Only(q, kept) = Only(q, kept)
  BY DEF Stream!Only, Only
<1>2. Stream!Drop(gone)
  BY <1>1 DEF Stream!Drop
<1>3. QED
  BY <1>2 DEF LineStep, Stream!Next

\* What is left of a line, by its front and the queue behind it.
LEMMA LineFront ==
  ASSUME NEW c \in Req \cup {NoReq}, NEW q \in Seq(Req), NEW kept
  PROVE  /\ Only(q, kept) \in Seq(Req)
         /\ c \in kept => Only(<<c>> \o q, kept) = <<c>> \o Only(q, kept)
         /\ c \notin kept => Only(<<c>> \o q, kept) = Only(q, kept)
<1> DEFINE X == Req \cup {NoReq}
           f == <<c>>
           o == Only(q, kept)
<1>1. q \in Seq(X) /\ f \in Seq(X) /\ << >> \in Seq(X) /\ f = Append(<< >>, c) /\ c \in X
  OBVIOUS
<1>2. Only(f \o q, kept) = Only(f, kept) \o o
  <2> HIDE DEF X, f
  <2>1. q \in Seq(X) /\ f \in Seq(X)
    BY <1>1
  <2>2. QED
    BY <2>1, OnlyOfConcat
<1>3. Only(f, kept) = IF c \in kept THEN <<c>> ELSE << >>
  <2> HIDE DEF X
  <2>1. Only(Append(<< >>, c), kept)
          = IF c \in kept THEN Append(Only(<< >>, kept), c) ELSE Only(<< >>, kept)
    BY <1>1, OnlyOfAppend, Zenon
  <2>2. Only(<< >>, kept) = << >>
    BY OnlyOfNone
  <2>3. QED
    BY <1>1, <2>1, <2>2
<1>4. o \in Seq(Req)
  BY OnlyType, Zenon
<1> HIDE DEF o
<1>5. << >> \o o = o
  BY <1>4
<1>6. QED
  BY <1>2, <1>3, <1>4, <1>5 DEF o

\* The null request is no write.
LEMMA WritesAreReq == Writes \subseteq Req /\ NoReq \notin Writes /\ NoReq \notin Req
  BY ReqAssumption DEF Req

\* The line, when a write is current and when none is.
LEMMA LineIs ==
  ASSUME WInv
  PROVE  LET c == current["Write"]
             o == Only(writeQueue, Writes) IN
         /\ c \in Req \cup {NoReq} /\ writeQueue \in Seq(Req) /\ o \in Seq(Req)
         /\ c \in Writes => /\ Line = <<c>> \o o /\ Line # << >>
                            /\ Head(Line) = c /\ Tail(Line) = o
         /\ c \notin Writes => Line = o
<1> DEFINE c == current["Write"]
           o == Only(writeQueue, Writes)
<1>1. c \in Req \cup {NoReq} /\ writeQueue \in Seq(Req)
  BY DEF WInv, SlotTypes, Slots
<1>2. /\ o \in Seq(Req)
      /\ c \in Writes => Line = <<c>> \o o
      /\ c \notin Writes => Line = o
  BY <1>1, LineFront, Zenon DEF Line
<1> HIDE DEF c, o
<1>3. /\ <<c>> \o o # << >> /\ Head(<<c>> \o o) = c /\ Tail(<<c>> \o o) = o
  BY <1>1, <1>2
<1>4. QED
  BY <1>1, <1>2, <1>3 DEF c, o

\* What is left of the line without some writes.
LEMMA LineWithout ==
  ASSUME WInv, NEW gone \in SUBSET Writes
  PROVE  LET c == current["Write"]
             o == Only(writeQueue, Writes \ gone) IN
         /\ o \in Seq(Req)
         /\ c \in Writes \ gone => Only(Line, Writes \ gone) = <<c>> \o o
         /\ c \notin Writes \ gone => Only(Line, Writes \ gone) = o
<1> DEFINE c == current["Write"]
           q == writeQueue
           X == Req \cup {NoReq}
           l == <<c>> \o q
           k == Writes \ gone
<1>1. c \in X /\ q \in Seq(Req) /\ l \in Seq(X)
  BY LineIs
<1>2. Only(Only(l, Writes), k) = Only(l, k)
  <2>1. Writes \cap k = k
    OBVIOUS
  <2> HIDE DEF l, X, k
  <2>2. Only(Only(l, Writes), k) = Only(l, Writes \cap k)
    BY <1>1, OnlyOfOnly
  <2>3. QED
    BY <2>1, <2>2
<1>3. /\ Only(q, k) \in Seq(Req)
      /\ c \in k => Only(l, k) = <<c>> \o Only(q, k)
      /\ c \notin k => Only(l, k) = Only(q, k)
  <2> HIDE DEF k
  <2>1. QED
    BY <1>1, LineFront, Zenon
<1>4. QED
  BY <1>2, <1>3 DEF Line

\* SerialGetNextWrite takes the head of the queue, if it may: the line is the writes
\* of that queue, and none of them has been sent.
LEMMA NextLine ==
  ASSUME WInv, NEW q \in Seq(Req), NEW xoff, NEW back, GetNextWrite(q, xoff, back)
  PROVE  Line' = Only(q, Writes) /\ Transmitted' = 0
<1>1. current \in [Slots -> Req \cup {NoReq}] /\ "Write" \in Slots /\ "Xoff" \in Slots
  BY DEF WInv, SlotTypes, Slots
<1>2. CASE q = << >> \/ queueStopped
  <2>1. current'["Write"] = NoReq /\ writeQueue' = q
    BY <1>1, <1>2 DEF GetNextWrite
  <2>2. Only(<<NoReq>> \o q, Writes) = Only(q, Writes)
    <3>1. NoReq \in Req \cup {NoReq}
      OBVIOUS
    <3>2. QED
      BY <3>1, LineFront, WritesAreReq, Zenon
  <2>3. QED
    BY <2>1, <2>2, WritesAreReq DEF Line, Transmitted
<1>3. CASE ~(q = << >> \/ queueStopped)
  <2>1. current'["Write"] = Head(q) /\ writeQueue' = Tail(q) /\ pc' = "start"
    BY <1>1, <1>3 DEF GetNextWrite
  <2>2. <<Head(q)>> \o Tail(q) = q
    BY <1>3
  <2>3. QED
    BY <2>1, <2>2 DEF Line, Transmitted
<1>4. QED
  BY <1>2, <1>3

\* What has been sent of a request, whatever the line holder does.
LEMMA TransmittedIs ==
  /\ current["Write"] \notin Writes \/ pc \in {"start", "give"} => Transmitted = 0
  /\ current["Write"] \in Writes /\ pc \notin {"start", "give"} =>
       Transmitted = IF writeLength > 0 THEN length[current["Write"]] - writeLength
                                        ELSE information[current["Write"]]
  BY DEF Transmitted

-----------------------------------------------------------------------------
(* The invariant of the line, and what a purge leaves.                      *)

\* The invariant of the line, next to WInv and CInv: a request that has not arrived has
\* no length, writes are only ever the current write, and a write whose last character
\* is sent reports all of them.
Unsent == \A r \in Writes : status[r] = "unused" => length[r] = 0
Kinds == current["Xoff"] \notin Writes /\ current["Immediate"] \notin Writes
Whole ==
  LET r == current["Write"] IN
  completeDpc["Write"] /\ r \in Writes => information[r] = length[r]
LInv == Unsent /\ Kinds /\ Whole

\* A new current write has nothing sent yet: its DPC is not queued.
LEMMA WholeKept ==
  ASSUME Whole, WInv',
         \/ current'["Write"] = NoReq \/ pc' \in {"start", "give"} \/ ~completeDpc'["Write"]
         \/ LET r == current["Write"] IN
            /\ completeDpc'["Write"] => completeDpc["Write"]
            /\ current'["Write"] = r
            /\ r \in Writes => information'[r] = information[r] /\ length'[r] = length[r]
  PROVE  Whole'
<1>1. CASE current'["Write"] = NoReq \/ pc' \in {"start", "give"}
  <2>1. ~Started("Write")'
    BY <1>1 DEF Started
  <2>2. ~completeDpc'["Write"]
    BY <2>1 DEF WInv, Slotwise, OwnersAgree
  <2>3. QED
    BY <2>2 DEF Whole
<1>2. QED
  BY <1>1 DEF Whole

\* How writes ended, and what they reported.
LEMMA SameResults ==
  ASSUME \A r \in Writes : /\ Ended(r)' <=> Ended(r)
                           /\ Ended(r) => status'[r] = status[r] /\ information'[r] = information[r]
  PROVE  UNCHANGED <<Outcome, Reported>>
<1>1. Outcome' = Outcome
  BY DEF Outcome
<1>2. Reported' = Reported
  BY DEF Reported
<1>3. QED
  BY <1>1, <1>2

\* The one that ends now.
LEMMA EndedResults ==
  ASSUME NEW w \in Writes, status'[w] \in {"SUCCESS", "TIMEOUT"},
         \A r \in Writes \ {w} :
           /\ Ended(r)' <=> Ended(r)
           /\ Ended(r) => status'[r] = status[r] /\ information'[r] = information[r]
  PROVE  /\ Outcome' = [Outcome EXCEPT ![w] = status'[w]]
         /\ Reported' = [Reported EXCEPT ![w] = information'[w]]
<1>1. Ended(w)'
  BY DEF Ended
<1>2. Outcome' = [Outcome EXCEPT ![w] = status'[w]]
  BY <1>1 DEF Outcome
<1>3. Reported' = [Reported EXCEPT ![w] = information'[w]]
  BY <1>1 DEF Reported
<1>4. QED
  BY <1>2, <1>3

\* The writes that a purge takes out of the queue, and what it leaves.
Gone(purged) == IF purged THEN Writes \cap ToSet(writeQueue) ELSE {}

LEMMA LeftInQueue ==
  ASSUME WInv, NEW purged \in BOOLEAN, NEW also, also \cap ToSet(writeQueue) = {}
  PROVE  Only(writeQueue, Writes \ (Gone(purged) \cup also)) = Only(QueueAfter(purged), Writes)
<1> DEFINE k == Writes \ (Gone(purged) \cup also)
           q == writeQueue
<1>1. q \in Seq(Req) /\ \A i \in DOMAIN q : q[i] \in ToSet(q)
  BY DEF WInv, SlotTypes, ToSet
<1>2. CASE purged
  <2>1. \A i \in DOMAIN q : q[i] \notin k
    BY <1>1, <1>2 DEF Gone
  <2> HIDE DEF k
  <2>2. Only(q, k) = << >>
    BY <1>1, <2>1, OnlyNothing, Zenon
  <2>3. Only(QueueAfter(purged), Writes) = << >>
    BY <1>2, OnlyOfNone DEF QueueAfter
  <2>4. QED
    BY <2>2, <2>3 DEF k
<1>3. CASE ~purged
  <2>1. \A i \in DOMAIN q : q[i] \in k <=> q[i] \in Writes
    BY <1>1, <1>3 DEF Gone
  <2> HIDE DEF k
  <2>2. Only(q, k) = Only(q, Writes)
    BY <1>1, <2>1, OnlySame, Zenon
  <2>3. QED
    BY <1>3, <2>2 DEF QueueAfter, k
<1>4. QED
  BY <1>2, <1>3

\* The statuses of writes after a purge: none of them ends, none of them is unused.
LEMMA PurgedWrites ==
  ASSUME WInv, NEW purged \in BOOLEAN, NEW r \in Req
  PROVE  /\ r \notin ToSet(writeQueue) => StatusAfter(purged)[r] = status[r]
         /\ StatusAfter(purged)[r] \in {"SUCCESS", "TIMEOUT"} <=> Ended(r)
         /\ Ended(r) => StatusAfter(purged)[r] = status[r]
         /\ StatusAfter(purged)[r] = "unused" => status[r] = "unused"
<1>1. r \in ToSet(writeQueue) => status[r] = "pending"
  BY DEF WInv, Owned
<1>2. CASE purged
  BY <1>1, <1>2 DEF StatusAfter, Ended
<1>3. CASE ~purged
  BY <1>3 DEF StatusAfter, Ended
<1>4. QED
  BY <1>2, <1>3

\* A step that only purges the queue, for the line: the current write goes on.
LEMMA PurgeDrops ==
  ASSUME WInv, NEW purged \in BOOLEAN, UNCHANGED <<Sizes, Transmitted, Outcome, Reported>>,
         current'["Write"] = current["Write"], writeQueue' = QueueAfter(purged)
  PROVE  LineStep
<1> DEFINE c == current["Write"]
           gone == Gone(purged)
           o == Only(QueueAfter(purged), Writes)
<1>1. gone \in SUBSET Writes /\ {} \cap ToSet(writeQueue) = {} /\ gone \cup {} = gone
  BY DEF Gone
<1>2. Only(writeQueue, Writes \ gone) = o
  BY <1>1, LeftInQueue
<1>3. c \in Req \cup {NoReq} /\ QueueAfter(purged) \in Seq(Req)
  BY LineIs, Purged
<1>4. c \in Writes => c \notin ToSet(writeQueue)
  BY WritesAreReq DEF WInv, Owned, Slots
<1>5. c \notin gone
  BY <1>1, <1>4 DEF Gone
<1>6. /\ c \in Writes => Only(Line, Writes \ gone) = <<c>> \o o
      /\ c \notin Writes => Only(Line, Writes \ gone) = o
  <2>1. c \in Writes <=> c \in Writes \ gone
    BY <1>5
  <2> HIDE DEF gone, c, o
  <2>2. LET p == Only(writeQueue, Writes \ gone) IN
         /\ current["Write"] \in Writes \ gone => Only(Line, Writes \ gone) = <<current["Write"]>> \o p
         /\ current["Write"] \notin Writes \ gone => Only(Line, Writes \ gone) = p
    BY <1>1, LineWithout, Zenon
  <2>3. QED
    BY <1>2, <2>1, <2>2 DEF c
<1>7. /\ c \in Writes => Line' = <<c>> \o o
      /\ c \notin Writes => Line' = o
  <2>1. Line' = Only(<<c>> \o QueueAfter(purged), Writes)
    BY DEF Line
  <2>2. QED
    BY <1>3, <2>1, LineFront, Zenon
<1>8. Line' = Only(Line, Writes \ gone)
  BY <1>6, <1>7
<1>9. Transmitted' = IF Line # << >> /\ Head(Line) \in gone THEN 0 ELSE Transmitted
  <2>1. CASE c \in Writes
    BY <1>5, <2>1, LineIs
  <2>2. CASE c \notin Writes
    BY <2>2, TransmittedIs
  <2>3. QED
    BY <2>1, <2>2
<1> HIDE DEF gone
<1>10. QED
  BY <1>1, <1>8, <1>9, Drops

-----------------------------------------------------------------------------
(* The steps of the driver, as steps of the line.                           *)

\* SerialTryToCompleteCurrent: the write ends, is dropped, or goes on as it is; those
\* that were purged with it are dropped.
LEMMA TryToCompleteLine ==
  ASSUME WInv, CInv, LInv, WInv', NEW slot \in Slots, NEW grab \in BOOLEAN, NEW final \in Done,
         NEW caller, NEW total, NEW purged \in BOOLEAN, NEW back,
         Calls(slot, grab, caller, total, back),
         TryToComplete(slot, grab, final, caller, total, purged, back),
         purged => final = "CANCELLED",
         slot = "Write" => final \in {"SUCCESS", "TIMEOUT", "CANCELLED"},
         final = "SUCCESS" => caller = "ISR"
  PROVE  LineStep /\ LInv'
<1> DEFINE r == current[slot]
           c == current["Write"]
           grabbed == grab /\ IsrHas(slot)
           held == IF grabbed /\ slot = "Write" /\ r \in Writes
                     THEN CharsSent(r) ELSE information[r]
           left == RefsLeft(refs[r], caller, IF grabbed THEN {"ISR"} ELSE {},
                            cancelMark[r], NullTimer, total)
           q == QueueAfter(purged)
           after == StatusAfter(purged)
           info == IF left = {} /\ final = "CANCELLED" THEN 0 ELSE held
<1>1. /\ r \in Req /\ r # NoReq /\ status[r] = "pending" /\ r \notin ToSet(writeQueue)
      /\ slot = "Write" => pc \notin {"start", "give"}
      /\ \A s \in Slots : s # slot => current[s] # r
      /\ current \in [Slots -> Req \cup {NoReq}]
      /\ "Write" \in Slots /\ "Xoff" \in Slots /\ "Immediate" \in Slots
      /\ back \in {"idle", "purge", "give"} /\ (back = "give" <=> pc \in {"start", "give"})
      /\ grab <=> caller # "ISR"
      /\ caller = "ISR" => completeDpc[slot]
      /\ completeDpc' = [completeDpc EXCEPT ![slot] = @ /\ caller # "ISR"]
  BY DEF Calls, Started, WInv, SlotTypes, Owned, Slots
<1>2. /\ length' = length
      /\ writeLength' = IF grabbed /\ slot = "Write" THEN 0 ELSE writeLength
      /\ \/ /\ left = {} /\ CompleteCurrent(slot, final, purged, back)
         \/ /\ left # {} /\ status' = after /\ writeQueue' = q /\ pc' = back
            /\ current' = current
  BY DEF TryToComplete, Grab, requestVars
<1>3. information' = [information EXCEPT ![r] = info]
  BY DEF TryToComplete
<1>4. /\ length \in [Req -> Nat] /\ writeLength \in Nat /\ completeDpc \in [Slots -> BOOLEAN]
      /\ information \in [Req -> Nat] /\ DOMAIN status = Req
  BY DEF WInv, SlotTypes, CInv, MoreTypes
<1>5. /\ q \in Seq(Req) /\ ToSet(q) \subseteq ToSet(writeQueue)
      /\ DOMAIN after = Req /\ after[r] = "pending"
  BY <1>1, Purged
<1> HIDE DEF left, q, after
\* What the request has sent, when it is the current write.
<1>6. ASSUME slot = "Write", r \in Writes
      PROVE  /\ held = Transmitted /\ writeLength' = 0
             /\ final = "SUCCESS" => Transmitted = length[r]
  <2>1. IsrHas(slot) <=> writeLength > 0
    BY <1>6 DEF IsrHas
  <2>2. completeDpc[slot] => ~IsrHas(slot)
    BY <1>6 DEF WInv, Slotwise, OwnersAgree
  <2>3. Transmitted = IF writeLength > 0 THEN length[r] - writeLength ELSE information[r]
    BY <1>1, <1>6 DEF Transmitted
  <2>4. CASE writeLength > 0
    <3>1. grabbed /\ caller # "ISR"
      BY <1>1, <2>1, <2>2, <2>4
    <3>2. QED
      BY <1>2, <1>6, <2>3, <2>4, <3>1 DEF CharsSent
  <2>5. CASE ~(writeLength > 0)
    <3>1. ~grabbed /\ writeLength = 0
      BY <1>4, <2>1, <2>5
    <3>2. held = information[r] /\ Transmitted = information[r] /\ writeLength' = 0
      BY <1>2, <2>3, <2>5, <3>1
    <3>3. final = "SUCCESS" => information[r] = length[r]
      BY <1>1, <1>6 DEF LInv, Whole
    <3>4. QED
      BY <3>2, <3>3
  <2>6. QED
    BY <2>4, <2>5
<1>7. slot # "Write" => r \notin Writes /\ c # r
  BY <1>1 DEF LInv, Kinds, Slots
<1>8. UNCHANGED Sizes
  BY <1>2 DEF Sizes
<1>9. slot # "Write" => writeLength' = writeLength
  BY <1>2
<1> HIDE DEF grabbed, held, info
\* The other writes.
<1>10. \A w \in Req \ {r} : information'[w] = information[w]
  BY <1>3, <1>4
<1>11. \A w \in Writes \ {r} :
         status'[w] = after[w] =>
           /\ Ended(w)' <=> Ended(w)
           /\ Ended(w) => status'[w] = status[w] /\ information'[w] = information[w]
  BY <1>10, PurgedWrites, WritesAreReq DEF Ended, after
\* The current write is not completed.
<1>12. CASE /\ current'["Write"] = c /\ writeQueue' = q /\ pc' = back
            /\ current'["Xoff"] \in {current["Xoff"], NoReq}
            /\ current'["Immediate"] \in {current["Immediate"], NoReq}
            /\ \A w \in Writes : status'[w] = after[w]
            /\ slot = "Write" => left # {}
  <2>1. pc' \in {"start", "give"} <=> pc \in {"start", "give"}
    BY <1>1, <1>12
  <2>2. slot = "Write" /\ r \in Writes => information'[r] = held
    BY <1>1, <1>3, <1>4, <1>12 DEF info
  <2>3. Transmitted' = Transmitted
    <3>1. CASE slot = "Write" /\ r \in Writes
      <4>1. current'["Write"] = r /\ pc' \notin {"start", "give"} /\ writeLength' = 0
        BY <1>1, <1>6, <1>12, <2>1, <3>1
      <4>2. ~(0 > 0)
        OBVIOUS
      <4>3. Transmitted' = information'[r]
        BY <3>1, <4>1, <4>2 DEF Transmitted
      <4>4. QED
        BY <1>6, <2>2, <3>1, <4>3
    <3>2. CASE slot = "Write" /\ r \notin Writes
      BY <1>12, <3>2 DEF Transmitted
    <3>3. CASE slot # "Write"
      <4>1. c \in Writes => information'[c] = information[c]
        BY <1>7, <1>10, <3>3, WritesAreReq
      <4>2. QED
        BY <1>2, <1>9, <1>12, <2>1, <3>3, <4>1 DEF Transmitted
    <3>4. QED
      BY <3>1, <3>2, <3>3
  <2>4. UNCHANGED <<Outcome, Reported>>
    <3>1. \A w \in Writes : /\ Ended(w)' <=> Ended(w)
                            /\ Ended(w) => status'[w] = status[w] /\ information'[w] = information[w]
      <4>1. TAKE w \in Writes
      <4>2. CASE w = r
        BY <1>1, <1>5, <1>12, <4>2 DEF Ended
      <4>3. CASE w # r
        BY <1>11, <1>12, <4>3
      <4>4. QED
        BY <4>2, <4>3
    <3>2. QED
      BY <3>1, SameResults, Zenon
  <2>5. LineStep
    BY <1>8, <1>12, <2>3, <2>4, PurgeDrops DEF q
  <2>6. Unsent'
    <3>1. ASSUME NEW w \in Writes, status'[w] = "unused" PROVE length'[w] = 0
      BY <1>2, <1>12, <3>1, PurgedWrites, WritesAreReq DEF after, LInv, Unsent
    <3>2. QED
      BY <3>1 DEF Unsent
  <2>7. Kinds'
    BY <1>12, WritesAreReq DEF LInv, Kinds
  <2>8. Whole'
    <3>1. completeDpc'["Write"] => completeDpc["Write"]
      BY <1>1, <1>4
    <3>2. c \in Writes => length'[c] = length[c]
      BY <1>2
    <3>3. slot = "Write" => c = r
      OBVIOUS
    <3>4. CASE slot = "Write" /\ c \in Writes
      <4>1. completeDpc'["Write"] => completeDpc["Write"] /\ ~IsrHas("Write")
        BY <3>1 DEF WInv, Slotwise, OwnersAgree
      <4>2. ~IsrHas("Write") => information'[c] = information[c]
        BY <1>6, <2>2, <3>4 DEF held, grabbed
      <4>3. QED
        BY <1>12, <3>2, <4>1, <4>2 DEF LInv, Whole
    <3>5. CASE ~(slot = "Write" /\ c \in Writes)
      <4>1. c \in Writes => information'[c] = information[c]
        BY <1>7, <1>10, <3>5, WritesAreReq
      <4>2. QED
        BY <1>12, <3>1, <3>2, <4>1, WholeKept DEF LInv
    <3>6. QED
      BY <3>4, <3>5
  <2>9. QED
    BY <2>5, <2>6, <2>7, <2>8 DEF LInv
\* It is.
<1>13. CASE slot = "Write" /\ left = {} /\ CompleteCurrent(slot, final, purged, back)
  <2>1. /\ status' = [after EXCEPT ![r] = final] /\ GetNextWrite(q, current["Xoff"], back)
        /\ c = r
    BY <1>13 DEF CompleteCurrent, after, q
  <2>2. Line' = Only(q, Writes) /\ Transmitted' = 0
    BY <1>5, <2>1, NextLine
  <2>3. /\ \A w \in Writes \ {r} : status'[w] = after[w]
        /\ status'[r] = final
    BY <1>1, <1>5, <2>1
  <2>4. \A w \in Writes \ {r} :
           /\ Ended(w)' <=> Ended(w)
           /\ Ended(w) => status'[w] = status[w] /\ information'[w] = information[w]
    BY <1>11, <2>3
  <2>6. ASSUME r \in Writes, final \in {"SUCCESS", "TIMEOUT"}
        PROVE  LineStep
    <3>1. ~purged /\ q = writeQueue
      BY <2>6 DEF q, QueueAfter
    <3>2. /\ Line # << >> /\ Head(Line) = r /\ Tail(Line) = Only(writeQueue, Writes)
      BY <2>1, <2>6, LineIs
    <3>3. information'[r] = Transmitted
      BY <1>1, <1>3, <1>4, <1>6, <1>13, <2>6 DEF info
    <3>4. /\ Outcome' = [Outcome EXCEPT ![r] = final]
          /\ Reported' = [Reported EXCEPT ![r] = Transmitted]
      BY <2>3, <2>4, <2>6, <3>3, EndedResults
    <3>5. final = "SUCCESS" => Transmitted = Sizes[r]
      BY <1>6, <1>13, <2>6 DEF Sizes
    <3>6. QED
      BY <1>8, <2>2, <2>6, <3>1, <3>2, <3>4, <3>5, Ends
  <2>7. ASSUME r \notin Writes \/ final = "CANCELLED"
        PROVE  LineStep
    <3> DEFINE mine == {r} \cap Writes
               gone == Gone(purged) \cup mine
    <3>1. gone \in SUBSET Writes /\ mine \cap ToSet(writeQueue) = {}
      BY <1>1 DEF Gone
    <3>2. UNCHANGED <<Outcome, Reported>>
      <4>1. \A w \in Writes : w = r => ~Ended(w) /\ ~Ended(w)'
        BY <1>1, <2>3, <2>7 DEF Ended
      <4>2. \A w \in Writes : /\ Ended(w)' <=> Ended(w)
                              /\ Ended(w) => status'[w] = status[w] /\ information'[w] = information[w]
        BY <2>4, <4>1
      <4>3. QED
        BY <4>2, SameResults, Zenon
    <3>3. Only(writeQueue, Writes \ gone) = Only(q, Writes)
      <4> HIDE DEF mine
      <4>1. QED
        BY <3>1, LeftInQueue DEF q
    <3>4. c \notin Writes \ gone
      BY <2>1
    <3> HIDE DEF gone
    <3>5. Only(Line, Writes \ gone) = Only(writeQueue, Writes \ gone)
      BY <3>1, <3>4, LineWithout
    <3>6. Line' = Only(Line, Writes \ gone)
      BY <2>2, <3>3, <3>5
    <3>7. Transmitted' = IF Line # << >> /\ Head(Line) \in gone THEN 0 ELSE Transmitted
      <4>1. CASE r \in Writes
        <5>1. r \in gone
          BY <4>1 DEF gone
        <5>2. Line # << >> /\ Head(Line) = r
          BY <2>1, <4>1, LineIs
        <5>3. QED
          BY <2>2, <5>1, <5>2
      <4>2. CASE r \notin Writes
        BY <2>1, <2>2, <4>2, TransmittedIs
      <4>3. QED
        BY <4>1, <4>2
    <3>8. QED
      BY <1>8, <3>1, <3>2, <3>6, <3>7, Drops
  <2>8. LineStep
    BY <1>13, <2>6, <2>7
  <2>9. Unsent'
    <3>1. final # "unused"
      BY DEF Done
    <3>2. ASSUME NEW w \in Writes, status'[w] = "unused" PROVE length'[w] = 0
      BY <1>2, <2>3, <3>1, <3>2, PurgedWrites, WritesAreReq DEF after, LInv, Unsent
    <3>3. QED
      BY <3>2 DEF Unsent
  <2>10. current'["Xoff"] = current["Xoff"] /\ current'["Immediate"] = current["Immediate"]
         /\ (current'["Write"] = NoReq \/ pc' \in {"start", "give"})
    BY <1>1, <2>1 DEF GetNextWrite
  <2>11. Kinds' /\ Whole'
    BY <2>10, WholeKept DEF LInv, Kinds
  <2>12. QED
    BY <2>8, <2>9, <2>11 DEF LInv
<1>14. CASE slot # "Write" /\ left = {} /\ CompleteCurrent(slot, final, purged, back)
  <2>1. /\ status' = [after EXCEPT ![r] = final] /\ current' = [current EXCEPT ![slot] = NoReq]
        /\ writeQueue' = q /\ pc' = back
    BY <1>14 DEF CompleteCurrent, after, q
  <2>2. \A w \in Writes : status'[w] = after[w]
    BY <1>7, <1>14, <2>1
  <2>3. /\ current'["Write"] = c
        /\ current'["Xoff"] \in {current["Xoff"], NoReq}
        /\ current'["Immediate"] \in {current["Immediate"], NoReq}
    BY <1>1, <1>14, <2>1
  <2>4. QED
    BY <1>12, <1>14, <2>1, <2>2, <2>3
<1>15. CASE left # {} /\ status' = after /\ writeQueue' = q /\ pc' = back /\ current' = current
  BY <1>12, <1>15
<1>16. QED
  BY <1>2, <1>13, <1>14, <1>15

\* What the steps that touch neither the requests nor the ISR's write leave alone.
LEMMA QuietLine ==
  ASSUME LInv, WInv', UNCHANGED <<length, current, writeQueue, status, information, writeLength>>,
         pc' \in {"start", "give"} <=> pc \in {"start", "give"},
         completeDpc'["Write"] => completeDpc["Write"]
  PROVE  LineStep /\ LInv'
<1>1. Line' = Line /\ Sizes' = Sizes
  BY DEF Line, Sizes
<1>2. Transmitted' = Transmitted
  BY DEF Transmitted
<1>3. UNCHANGED <<Outcome, Reported>>
  BY SameResults DEF Ended
<1>4. LineStep
  BY <1>1, <1>2, <1>3, Stutters
<1>5. Whole'
  BY WholeKept DEF LInv
<1>6. Unsent' /\ Kinds'
  BY DEF LInv, Unsent, Kinds
<1>7. QED
  BY <1>4, <1>5, <1>6 DEF LInv

\* The steps that send nothing of a write, and start, queue and end none.
LEMMA SmallStepsLine ==
  ASSUME WInv, LInv, WInv',
         \/ SendImmediate \/ CountDown \/ FlushStop \/ FlushRestart \/ UNCHANGED vars
         \/ \E slot \in Slots : TimerFires(slot)
         \/ \E r \in Req : Cancel(r)
  PROVE  LineStep /\ LInv'
<1>1. "Write" \in Slots /\ "Xoff" \in Slots /\ "Immediate" \in Slots
      /\ completeDpc \in [Slots -> BOOLEAN]
  BY DEF WInv, SlotTypes, Slots
<1>2. /\ UNCHANGED <<length, current, writeQueue, status, information, writeLength, pc>>
      /\ \/ completeDpc' = completeDpc
         \/ completeDpc' = [completeDpc EXCEPT !["Immediate"] = TRUE]
         \/ completeDpc' = [completeDpc EXCEPT !["Xoff"] = @ \/ countSinceXoff = 1]
  BY DEF SendImmediate, CountDown, FlushStop, FlushRestart, TimerFires, Cancel, vars,
         requestVars, isrVars
<1>3. completeDpc'["Write"] => completeDpc["Write"]
  BY <1>1, <1>2
<1>4. QED
  BY <1>2, <1>3, QuietLine

\* The FIFO takes characters of the current write.
LEMMA SendWriteLine ==
  ASSUME WInv, CInv, LInv, WInv', NEW n \in 1 .. MaxLen, SendWrite(n)
  PROVE  LineStep /\ LInv'
<1> DEFINE r == current["Write"]
<1>1. /\ n <= writeLength /\ writeLength' = writeLength - n
      /\ IF writeLength = n
           THEN /\ information' = [information EXCEPT ![r] = Chars(r)]
                /\ completeDpc' = [completeDpc EXCEPT !["Write"] = TRUE]
           ELSE UNCHANGED <<information, completeDpc>>
      /\ UNCHANGED <<length, status, current, writeQueue, pc>>
  BY DEF SendWrite, requestVars
<1>2. /\ n \in Nat /\ n > 0 /\ writeLength \in Nat /\ length \in [Req -> Nat]
      /\ information \in [Req -> Nat] /\ "Write" \in Slots
  <2>1. n \in Nat /\ n > 0
    BY LengthAssumption
  <2>2. QED
    BY <2>1 DEF WInv, SlotTypes, CInv, MoreTypes, Slots
<1>3. /\ Started("Write") /\ r # NoReq /\ pc \notin {"start", "give"} /\ r \in Req
      /\ ~completeDpc["Write"] /\ status[r] = "pending"
  BY <1>1, <1>2 DEF WInv, Slotwise, OwnersAgree, IsrHas, Started, SlotTypes, Owned
<1>4. Line' = Line /\ Sizes' = Sizes
  BY <1>1 DEF Line, Sizes
<1>5. UNCHANGED <<Outcome, Reported>>
  <2>1. \A w \in Req \ {r} : information'[w] = information[w]
    BY <1>1, <1>2
  <2>2. \A w \in Writes : /\ Ended(w)' <=> Ended(w)
                          /\ Ended(w) => status'[w] = status[w] /\ information'[w] = information[w]
    BY <1>1, <1>3, <2>1, WritesAreReq DEF Ended
  <2>3. QED
    BY <2>2, SameResults, Zenon
<1>6. r \in Writes => Chars(r) = length[r] /\ writeLength <= length[r] /\ length[r] \in Nat
  BY <1>2, <1>3 DEF Chars, CInv, Remainder
<1>7. LineStep
  <2>1. CASE r \in Writes
    <3>1. Transmitted = length[r] - writeLength
      BY <1>1, <1>2, <1>3, <2>1 DEF Transmitted
    <3>2. Transmitted' = length[r] - (writeLength - n)
      <4>1. CASE writeLength = n
        <5>1. information'[r] = length[r] /\ writeLength' = 0
          BY <1>1, <1>2, <1>3, <1>6, <2>1, <4>1
        <5>2. Transmitted' = information'[r]
          BY <1>1, <1>3, <2>1, <5>1 DEF Transmitted
        <5>3. QED
          BY <1>1, <1>6, <2>1, <5>1, <5>2
      <4>2. CASE writeLength # n
        <5>1. writeLength' > 0
          BY <1>1, <1>2, <4>2
        <5>2. QED
          BY <1>1, <1>3, <2>1, <5>1 DEF Transmitted
      <4>3. QED
        BY <4>1, <4>2
    <3>3. Line # << >> /\ Sizes[Head(Line)] = length[r]
      BY <2>1, LineIs DEF Sizes
    <3>4. Transmitted' \in Transmitted + 1 .. length[r]
      BY <1>1, <1>2, <1>6, <2>1, <3>1, <3>2
    <3>5. QED
      BY <1>4, <1>5, <3>3, <3>4, SendsSome
  <2>2. CASE r \notin Writes
    <3>1. Transmitted' = Transmitted
      BY <1>1, <2>2 DEF Transmitted
    <3>2. QED
      BY <1>4, <1>5, <3>1, Stutters
  <2>3. QED
    BY <2>1, <2>2
<1>8. Whole'
  <2>1. CASE writeLength = n
    <3>1. information'[r] = Chars(r) /\ current'["Write"] = r /\ length' = length
      BY <1>1, <1>2, <1>3, <2>1
    <3>2. QED
      BY <1>6, <3>1 DEF Whole
  <2>2. CASE writeLength # n
    <3>1. completeDpc'["Write"] = completeDpc["Write"]
      BY <1>1, <2>2
    <3>2. QED
      BY <1>3, <3>1 DEF Whole
  <2>3. QED
    BY <2>1, <2>2
<1>9. Unsent' /\ Kinds'
  BY <1>1 DEF LInv, Unsent, Kinds
<1>10. QED
  BY <1>7, <1>8, <1>9 DEF LInv

\* A write that is given to the ISR has none of it sent yet.
LEMMA GiveWriteToIsrLine ==
  ASSUME WInv, CInv, LInv, WInv', NEW timed, GiveWriteToIsr(timed)
  PROVE  LineStep /\ LInv'
<1> DEFINE r == current["Write"]
<1>1. /\ pc \in {"start", "give"} /\ writeLength' = Chars(r) /\ pc' = "idle"
      /\ UNCHANGED <<length, status, information, current, writeQueue, completeDpc>>
  BY DEF GiveWriteToIsr, requestVars
<1>2. ~completeDpc["Write"]
  BY <1>1 DEF WInv, Slotwise, OwnersAgree, Started
<1>3. Transmitted = 0
  BY <1>1 DEF Transmitted
<1>4. Transmitted' = 0
  <2>1. CASE r \in Writes
    <3>1. length[r] > 0 /\ length[r] \in Nat
      BY <1>1, <2>1, WritesAreReq DEF WInv, Owned, Parameters, SlotTypes, Slots
    <3>2. writeLength' = length[r]
      BY <1>1, <2>1 DEF Chars
    <3>3. Transmitted' = length[r] - length[r]
      BY <1>1, <2>1, <3>1, <3>2 DEF Transmitted
    <3>4. QED
      BY <3>1, <3>3
  <2>2. CASE r \notin Writes
    BY <1>1, <2>2 DEF Transmitted
  <2>3. QED
    BY <2>1, <2>2
<1>5. UNCHANGED <<Line, Sizes>> /\ UNCHANGED <<Outcome, Reported>>
  BY <1>1, SameResults DEF Line, Sizes, Ended
<1>6. LineStep
  BY <1>3, <1>4, <1>5, Stutters
<1>7. Unsent' /\ Kinds' /\ Whole'
  BY <1>1, <1>2 DEF LInv, Unsent, Kinds, Whole
<1>8. QED
  BY <1>6, <1>7 DEF LInv

\* The write of an xoff counter makes way for the next write.
LEMMA CompleteXoffWriteLine ==
  ASSUME WInv, CInv, LInv, WInv', CompleteXoffWrite
  PROVE  LineStep /\ LInv'
<1> DEFINE r == current["Write"]
<1>1. /\ r \in XoffReqs /\ GetNextWrite(writeQueue, r, "idle")
      /\ UNCHANGED <<length, status, information>>
  BY DEF CompleteXoffWrite, BecomesXoff, requestVars
<1>2. r \notin Writes /\ current \in [Slots -> Req \cup {NoReq}] /\ writeQueue \in Seq(Req)
      /\ "Write" \in Slots /\ "Xoff" \in Slots /\ "Immediate" \in Slots
  BY <1>1, ReqAssumption DEF WInv, SlotTypes, Slots
<1>3. Line = Only(writeQueue, Writes) /\ Transmitted = 0
  BY <1>2, LineIs, TransmittedIs
<1>4. Line' = Only(writeQueue, Writes) /\ Transmitted' = 0
  BY <1>1, <1>2, NextLine
<1>5. UNCHANGED Sizes /\ UNCHANGED <<Outcome, Reported>>
  BY <1>1, SameResults DEF Sizes, Ended
<1>6. LineStep
  BY <1>3, <1>4, <1>5, Stutters
<1>7. /\ current'["Xoff"] = r /\ current'["Immediate"] = current["Immediate"]
      /\ current'["Write"] = NoReq \/ pc' = "start"
  BY <1>1, <1>2 DEF GetNextWrite
<1>8. Unsent' /\ Kinds' /\ Whole'
  BY <1>1, <1>2, <1>7, WholeKept DEF LInv, Unsent, Kinds
<1>9. QED
  BY <1>6, <1>8 DEF LInv

\* SerialFlushRequests, with or without a current request to cancel.
LEMMA FlushLine ==
  ASSUME WInv, CInv, LInv, WInv', pc \in {"idle", "purge"}, NEW slot \in Slots,
         NEW back \in {"idle", "purge"}, FlushRequests(slot, back)
  PROVE  LineStep /\ LInv'
<1> DEFINE r == current[slot]
<1>1. completeDpc' = completeDpc
  BY DEF FlushRequests
<1>2. CASE r # NoReq /\ cancelMark[r] = "cancelable"
  <2>1. TryToComplete(slot, TRUE, "CANCELLED", "CANCEL", timer[slot], TRUE, back)
    BY <1>2 DEF FlushRequests, CancelCurrent
  <2>2. Calls(slot, TRUE, "CANCEL", timer[slot], back)
    BY <1>1, <1>2 DEF Calls, Started, WInv, SlotTypes
  <2>3. "CANCELLED" \in Done /\ TRUE \in BOOLEAN
    BY DEF Done
  <2>4. QED
    BY <2>1, <2>2, <2>3, TryToCompleteLine
<1>3. CASE ~(r # NoReq /\ cancelMark[r] = "cancelable")
  <2>1. /\ status' = StatusAfter(TRUE) /\ writeQueue' = QueueAfter(TRUE) /\ pc' = back
        /\ UNCHANGED <<length, information, current, writeLength>>
    BY <1>3 DEF FlushRequests, requestVars, QueueAfter
  <2>2. UNCHANGED Sizes
    BY <2>1 DEF Sizes
  <2>3. Transmitted' = Transmitted
    BY <2>1 DEF Transmitted
  <2>4. TRUE \in BOOLEAN
    OBVIOUS
  <2>5. UNCHANGED <<Outcome, Reported>>
    <3>1. \A w \in Writes : /\ Ended(w)' <=> Ended(w)
                            /\ Ended(w) => status'[w] = status[w] /\ information'[w] = information[w]
      BY <2>1, <2>4, PurgedWrites, WritesAreReq DEF Ended
    <3>2. QED
      BY <3>1, SameResults, Zenon
  <2>6. LineStep
    BY <2>1, <2>2, <2>3, <2>4, <2>5, PurgeDrops
  <2>7. Unsent'
    BY <2>1, <2>4, PurgedWrites, WritesAreReq DEF LInv, Unsent
  <2>8. Kinds' /\ Whole'
    BY <1>1, <2>1, WholeKept DEF LInv, Kinds
  <2>9. QED
    BY <2>6, <2>7, <2>8 DEF LInv
<1>4. QED
  BY <1>2, <1>3

\* A request of the client that has not been seen before, for the line.
LEMMA ArrivalIs ==
  ASSUME WInv, LInv, NEW r \in Req, NEW n, NEW x, Arrives(r, n, x)
  PROVE  /\ r # NoReq /\ r \notin ToSet(writeQueue) /\ \A s \in Slots : current[s] # r
         /\ status[r] = "unused" /\ pc = "idle" /\ UNCHANGED information
         /\ length' = [length EXCEPT ![r] = n]
         /\ \A w \in Req \ {r} : length'[w] = length[w]
         /\ r \in Writes => Sizes[r] = 0 /\ Sizes' = [Sizes EXCEPT ![r] = n]
         /\ r \notin Writes => Sizes' = Sizes
<1>1. /\ status[r] = "unused" /\ pc = "idle" /\ UNCHANGED information
      /\ length' = [length EXCEPT ![r] = n]
  BY DEF Arrives
<1>2. r # NoReq /\ r \notin ToSet(writeQueue) /\ \A s \in Slots : current[s] # r
  BY <1>1, Fresh
<1>3. length \in [Req -> Nat]
  BY DEF WInv, SlotTypes
<1>4. \A w \in Req \ {r} : length'[w] = length[w]
  BY <1>1, <1>3
<1>5. r \in Writes => Sizes[r] = 0 /\ Sizes' = [Sizes EXCEPT ![r] = n]
  BY <1>1, <1>3, WritesAreReq DEF LInv, Unsent, Sizes
<1>6. r \notin Writes => Sizes' = Sizes
  BY <1>4, WritesAreReq DEF Sizes
<1>7. QED
  BY <1>1, <1>2, <1>4, <1>5, <1>6

\* What an arrival leaves as it is.
LEMMA ArrivalKeeps ==
  ASSUME WInv, LInv, WInv', NEW r \in Req, NEW n, NEW x, Arrives(r, n, x), NEW final,
         final \notin {"unused", "SUCCESS", "TIMEOUT"}, status' = [status EXCEPT ![r] = final],
         UNCHANGED <<writeLength, completeDpc>>,
         \/ (current'["Write"] = current["Write"] /\ pc' = pc)
         \/ (current["Write"] = NoReq /\ pc' = "start"),
         current'["Xoff"] = current["Xoff"],
         current'["Immediate"] = current["Immediate"] \/ current'["Immediate"] \notin Writes
  PROVE  Transmitted' = Transmitted /\ UNCHANGED <<Outcome, Reported>> /\ LInv'
<1>1. /\ r # NoReq /\ current["Write"] # r /\ status[r] = "unused" /\ pc = "idle"
      /\ UNCHANGED information
      /\ \A w \in Req \ {r} : length'[w] = length[w]
  BY ArrivalIs DEF Slots
<1>2. DOMAIN status = Req
  BY DEF WInv, SlotTypes
<1>3. status'[r] = final /\ \A w \in Req \ {r} : status'[w] = status[w]
  BY <1>2
<1>4. UNCHANGED <<Outcome, Reported>>
  <2>1. \A w \in Writes : /\ Ended(w)' <=> Ended(w)
                          /\ Ended(w) => status'[w] = status[w] /\ information'[w] = information[w]
    BY <1>1, <1>3, WritesAreReq DEF Ended
  <2>2. QED
    BY <2>1, SameResults, Zenon
<1>5. current["Write"] \in Writes => length'[current["Write"]] = length[current["Write"]]
  BY <1>1, WritesAreReq
<1>6. Transmitted' = Transmitted
  <2>1. CASE current'["Write"] = current["Write"] /\ pc' = pc
    BY <1>1, <1>5, <2>1 DEF Transmitted
  <2>2. CASE current["Write"] = NoReq /\ pc' = "start"
    BY <2>2, WritesAreReq DEF Transmitted
  <2>3. QED
    BY <2>1, <2>2
<1>7. Unsent' /\ Kinds'
  BY <1>1, <1>3, WritesAreReq DEF LInv, Unsent, Kinds
<1>8. Whole'
  BY <1>1, <1>5, WholeKept DEF LInv
<1>9. QED
  BY <1>4, <1>6, <1>7, <1>8 DEF LInv

\* Its dispatch routine completes it: the line never sees it.
LEMMA CompleteAtOnceLine ==
  ASSUME WInv, LInv, WInv', NEW r \in Req, NEW n, NEW x, Arrives(r, n, x),
         r \in Writes => n \in Lens,
         NEW final \in {"CANCELLED", "INVALID"}, CompleteAtOnce(r, final)
  PROVE  LineStep /\ LInv'
<1>1. /\ status' = [status EXCEPT ![r] = final]
      /\ UNCHANGED <<current, writeQueue, pc, writeLength, completeDpc>>
  BY DEF CompleteAtOnce, isrVars
<1>2. Transmitted' = Transmitted /\ UNCHANGED <<Outcome, Reported>> /\ LInv'
  BY <1>1, ArrivalKeeps
<1>3. Line' = Line
  BY <1>1 DEF Line
<1>4. /\ r \in Writes => Sizes[r] = 0 /\ Sizes' = [Sizes EXCEPT ![r] = n]
      /\ r \notin Writes => Sizes' = Sizes
  BY ArrivalIs
<1>5. CASE r \in Writes
  BY <1>2, <1>3, <1>4, <1>5, Refuses
<1>6. CASE r \notin Writes
  BY <1>2, <1>3, <1>4, <1>6, Stutters
<1>7. QED
  BY <1>2, <1>5, <1>6

\* SerialStartOrQueue: a write joins the end of the line, an xoff counter does not.
LEMMA StartOrQueueLine ==
  ASSUME WInv, LInv, WInv', NEW r \in Req, NEW n, NEW x, Arrives(r, n, x),
         r \in Writes => n \in Lens, NEW m, StartOrQueue(r, m)
  PROVE  LineStep /\ LInv'
<1> DEFINE c == current["Write"]
           o == Only(writeQueue, Writes)
<1>1. /\ status' = [status EXCEPT ![r] = "pending"]
      /\ UNCHANGED <<writeLength, completeDpc>>
      /\ \/ /\ writeQueue = << >> /\ c = NoReq
            /\ current' = [current EXCEPT !["Write"] = r] /\ pc' = "start"
            /\ writeQueue' = writeQueue
         \/ writeQueue' = Append(writeQueue, r) /\ UNCHANGED <<current, pc>>
  BY DEF StartOrQueue, isrVars, IsQueueEmpty
<1>2. /\ current \in [Slots -> Req \cup {NoReq}] /\ writeQueue \in Seq(Req)
      /\ "Write" \in Slots /\ "Xoff" \in Slots /\ "Immediate" \in Slots
  BY DEF WInv, SlotTypes, Slots
<1>3. /\ (current'["Write"] = c /\ pc' = pc) \/ (c = NoReq /\ pc' = "start")
      /\ current'["Xoff"] = current["Xoff"] /\ current'["Immediate"] = current["Immediate"]
  BY <1>1, <1>2
<1>4. Transmitted' = Transmitted /\ UNCHANGED <<Outcome, Reported>> /\ LInv'
  BY <1>1, <1>3, ArrivalKeeps
<1>5. /\ r \in Writes => Sizes[r] = 0 /\ Sizes' = [Sizes EXCEPT ![r] = n]
      /\ r \notin Writes => Sizes' = Sizes
  BY ArrivalIs
<1>6. /\ c \in Req \cup {NoReq} /\ o \in Seq(Req)
      /\ c \in Writes => Line = <<c>> \o o
      /\ c \notin Writes => Line = o
  BY LineIs
<1>7. Line' = IF r \in Writes THEN Append(Line, r) ELSE Line
  <2>1. CASE /\ writeQueue = << >> /\ c = NoReq /\ writeQueue' = writeQueue
             /\ current' = [current EXCEPT !["Write"] = r]
    <3>1. Line = << >> /\ Only(<< >>, Writes) = << >>
      BY <1>6, <2>1, OnlyOfNone, WritesAreReq
    <3>2. Line' = Only(<<r>> \o << >>, Writes)
      BY <1>2, <2>1 DEF Line
    <3>3. << >> \in Seq(Req) /\ r \in Req \cup {NoReq}
      OBVIOUS
    <3>4. /\ r \in Writes => Line' = <<r>> \o << >>
          /\ r \notin Writes => Line' = << >>
      BY <3>1, <3>2, <3>3, LineFront, Zenon
    <3>5. <<r>> \o << >> = Append(<< >>, r)
      OBVIOUS
    <3>6. QED
      BY <3>1, <3>4, <3>5
  <2>2. CASE writeQueue' = Append(writeQueue, r) /\ current' = current
    <3> DEFINE q == Append(writeQueue, r)
               p == Only(q, Writes)
    <3>1. /\ r \in Writes => p = Append(o, r)
          /\ r \notin Writes => p = o
      <4>1. Only(Append(writeQueue, r), Writes)
              = IF r \in Writes THEN Append(Only(writeQueue, Writes), r) ELSE Only(writeQueue, Writes)
        BY <1>2, OnlyOfAppend, Zenon
      <4>2. QED
        BY <4>1
    <3>2. q \in Seq(Req)
      BY <1>2
    <3>3. Line' = Only(<<c>> \o q, Writes)
      BY <2>2 DEF Line
    <3> HIDE DEF q
    <3>4. /\ c \in Writes => Line' = <<c>> \o p
          /\ c \notin Writes => Line' = p
      BY <1>6, <3>2, <3>3, LineFront, Zenon
    <3> HIDE DEF p, o, c
    <3>5. <<c>> \o Append(o, r) = Append(<<c>> \o o, r)
      BY <1>6
    <3>6. QED
      BY <1>6, <3>1, <3>4, <3>5
  <2>3. QED
    BY <1>1, <2>1, <2>2
<1>8. CASE r \in Writes
  BY <1>4, <1>5, <1>7, <1>8, Accepts
<1>9. CASE r \notin Writes
  BY <1>4, <1>5, <1>7, <1>9, Stutters
<1>10. QED
  BY <1>4, <1>8, <1>9

\* SerialEvtIoWrite, IOCTL_SERIAL_XOFF_COUNTER and IOCTL_SERIAL_IMMEDIATE_CHAR.
LEMMA ArrivalsLine ==
  ASSUME WInv, LInv, WInv',
         \/ \E r \in Writes, n \in Lens : EvtIoWrite(r, n)
         \/ \E r \in XoffReqs, c \in Counters, t \in XoffTimeouts : XoffCounter(r, c, t)
         \/ \E r \in Immediates : ImmediateChar(r)
  PROVE  LineStep /\ LInv'
<1>1. /\ \A r \in Writes : r \in Req
      /\ \A r \in XoffReqs \cup Immediates : r \in Req /\ r \notin Writes
  BY ReqAssumption DEF Req
<1>2. ASSUME NEW r \in Writes, NEW n \in Lens, EvtIoWrite(r, n)
      PROVE  LineStep /\ LInv'
  <2>1. Arrives(r, n, NoXc) /\ (StartOrQueue(r, n) \/ CompleteAtOnce(r, "CANCELLED"))
    BY <1>2 DEF EvtIoWrite
  <2>2. QED
    BY <1>1, <2>1, StartOrQueueLine, CompleteAtOnceLine
<1>3. ASSUME NEW r \in XoffReqs, NEW c \in Counters, NEW t \in XoffTimeouts,
             XoffCounter(r, c, t)
      PROVE  LineStep /\ LInv'
  <2>1. PICK x : Arrives(r, 0, x)
    BY <1>3 DEF XoffCounter
  <2>2. StartOrQueue(r, 1) \/ CompleteAtOnce(r, "CANCELLED")
    BY <1>3 DEF XoffCounter
  <2>3. QED
    BY <1>1, <2>1, <2>2, StartOrQueueLine, CompleteAtOnceLine
<1>4. ASSUME NEW r \in Immediates, ImmediateChar(r)
      PROVE  LineStep /\ LInv'
  <2>1. /\ Arrives(r, 0, NoXc) /\ r \in Req /\ r \notin Writes
        /\ \/ \E timed \in TotalTimeouts : StartImmediate(r, timed)
           \/ CompleteAtOnce(r, "INVALID") \/ CompleteAtOnce(r, "CANCELLED")
    BY <1>1, <1>4 DEF ImmediateChar
  <2>2. CASE \E timed \in TotalTimeouts : StartImmediate(r, timed)
    <3>1. /\ status' = [status EXCEPT ![r] = "pending"]
          /\ current' = [current EXCEPT !["Immediate"] = r]
          /\ UNCHANGED <<writeQueue, writeLength, completeDpc, pc>>
      BY <2>2 DEF StartImmediate
    <3>2. /\ current'["Write"] = current["Write"] /\ current'["Xoff"] = current["Xoff"]
          /\ current'["Immediate"] = r
      BY <3>1 DEF WInv, SlotTypes, Slots
    <3>3. Transmitted' = Transmitted /\ UNCHANGED <<Outcome, Reported>> /\ LInv'
      BY <2>1, <3>1, <3>2, ArrivalKeeps
    <3>4. Line' = Line /\ Sizes' = Sizes
      BY <2>1, <3>1, <3>2, ArrivalIs DEF Line
    <3>5. QED
      BY <3>3, <3>4, Stutters
  <2>3. QED
    BY <2>1, <2>2, CompleteAtOnceLine
<1>5. QED
  BY <1>2, <1>3, <1>4

\* What is left of a queue when one element is taken out, wherever it is.
LEMMA OnlyOfRemoved ==
  ASSUME NEW q \in Seq(Req), Distinct(q), NEW i \in DOMAIN q
  PROVE  Only(RemoveAt(q, i), Writes) = Only(q, Writes \ {q[i]})
<1> DEFINE a == SubSeq(q, 1, i - 1)
           b == SubSeq(q, i + 1, Len(q))
           x == q[i]
           f == Append(a, x)
           k == Writes \ {x}
<1>1. /\ i \in 1 .. Len(q) /\ Len(q) \in Nat /\ DOMAIN q = 1 .. Len(q) /\ x \in Req
      /\ a \in Seq(Req) /\ Len(a) = i - 1 /\ b \in Seq(Req) /\ Len(b) = Len(q) - i
  OBVIOUS
<1>2. /\ \A j \in 1 .. i - 1 : a[j] = q[j]
      /\ \A j \in 1 .. Len(q) - i : b[j] = q[i + j]
      /\ DOMAIN a = 1 .. i - 1 /\ DOMAIN b = 1 .. Len(q) - i
  <2>1. \A j \in 1 .. i - 1 : a[j] = q[j]
    BY <1>1
  <2>2. \A j \in 1 .. Len(q) - i : b[j] = q[i + j]
    BY <1>1
  <2> HIDE DEF a, b
  <2>3. DOMAIN a = 1 .. i - 1 /\ DOMAIN b = 1 .. Len(q) - i
    BY <1>1
  <2>4. QED
    BY <2>1, <2>2, <2>3
<1>3. RemoveAt(q, i) = a \o b
  BY DEF RemoveAt
<1>4. q = f \o b
  <2> HIDE DEF a, b, x
  <2>1. /\ f \in Seq(Req) /\ Len(f) = i /\ f[i] = x
        /\ \A j \in 1 .. i - 1 : f[j] = a[j]
    BY <1>1
  <2> HIDE DEF f
  <2>2. /\ f \o b \in Seq(Req) /\ Len(f \o b) = Len(f) + Len(b)
        /\ \A j \in 1 .. Len(f) + Len(b) :
             (f \o b)[j] = IF j <= Len(f) THEN f[j] ELSE b[j - Len(f)]
    BY <1>1, <2>1, ConcatProperties
  <2> DEFINE p == f \o b
  <2> HIDE DEF p
  <2>3. Len(p) = Len(q)
    BY <1>1, <2>1, <2>2 DEF p
  <2>4. ASSUME NEW j \in 1 .. Len(q)
        PROVE  p[j] = q[j]
    <3>1. p[j] = IF j <= i THEN f[j] ELSE b[j - i]
      BY <1>1, <2>1, <2>2 DEF p
    <3>2. CASE j < i
      <4>1. j \in 1 .. i - 1
        BY <1>1, <3>2
      <4>2. f[j] = a[j] /\ a[j] = q[j] /\ j <= i
        BY <1>1, <1>2, <2>1, <4>1
      <4>3. QED
        BY <3>1, <4>2
    <3>3. CASE j = i
      BY <1>1, <2>1, <3>1, <3>3 DEF x
    <3>4. CASE j > i
      <4>1. j - i \in 1 .. Len(q) - i /\ i + (j - i) = j /\ ~(j <= i)
        BY <1>1, <3>4
      <4>2. b[j - i] = q[j]
        BY <1>2, <4>1
      <4>3. QED
        BY <3>1, <4>1, <4>2
    <3>5. QED
      BY <1>1, <3>2, <3>3, <3>4
  <2>5. p \in Seq(Req)
    BY <2>2 DEF p
  <2>6. p = q
    BY <1>1, <2>3, <2>4, <2>5
  <2>7. QED
    BY <2>6 DEF p
<1>5. (\A j \in DOMAIN a : a[j] # x) /\ (\A j \in DOMAIN b : b[j] # x)
  <2>1. \A j \in 1 .. Len(q) : q[j] = x => j = i
    BY <1>1 DEF Distinct
  <2>2. ASSUME NEW j \in DOMAIN a PROVE a[j] # x
    BY <1>1, <1>2, <2>1
  <2>3. ASSUME NEW j \in DOMAIN b PROVE b[j] # x
    <3>1. i + j \in 1 .. Len(q) /\ i + j # i /\ b[j] = q[i + j]
      BY <1>1, <1>2
    <3>2. QED
      BY <2>1, <3>1
  <2>4. QED
    BY <2>2, <2>3
<1> HIDE DEF a, b, x
<1>6. (\A j \in DOMAIN a : a[j] \in k <=> a[j] \in Writes)
      /\ (\A j \in DOMAIN b : b[j] \in k <=> b[j] \in Writes)
  BY <1>5
<1>7. x \notin k
  OBVIOUS
<1> HIDE DEF k
<1>8. Only(a, k) = Only(a, Writes) /\ Only(b, k) = Only(b, Writes)
  BY <1>1, <1>6, OnlySame, Zenon
<1>9. Only(f, k) = Only(a, k)
  <2>1. Only(Append(a, x), k) = IF x \in k THEN Append(Only(a, k), x) ELSE Only(a, k)
    BY <1>1, OnlyOfAppend, Zenon
  <2>2. QED
    BY <1>7, <2>1
<1>10. f \in Seq(Req)
  BY <1>1
<1> HIDE DEF f
<1>11. Only(f \o b, k) = Only(f, k) \o Only(b, k)
  <2>1. f \in Seq(Req) /\ b \in Seq(Req)
    BY <1>1, <1>10
  <2>2. QED
    BY <2>1, OnlyOfConcat
<1>12. Only(a \o b, Writes) = Only(a, Writes) \o Only(b, Writes)
  BY <1>1, OnlyOfConcat
<1>13. Only(q, k) = Only(a, Writes) \o Only(b, Writes)
  BY <1>4, <1>8, <1>9, <1>11
<1>14. QED
  BY <1>3, <1>12, <1>13 DEF k, x

\* SerialEvtCanceledOnQueue: one write leaves the line, from anywhere behind the first.
LEMMA EvtCanceledOnQueueLine ==
  ASSUME WInv, LInv, WInv', NEW r \in Req, EvtCanceledOnQueue(r)
  PROVE  LineStep /\ LInv'
<1> DEFINE c == current["Write"]
           gone == Writes \cap {r}
           k == Writes \ gone
           o == Only(writeQueue, k)
<1>1. PICK i \in DOMAIN writeQueue : writeQueue[i] = r /\ writeQueue' = RemoveAt(writeQueue, i)
  BY DEF EvtCanceledOnQueue
<1>2. /\ status' = [status EXCEPT ![r] = "CANCELLED"]
      /\ UNCHANGED <<length, information, current, pc, writeLength, completeDpc>>
  BY DEF EvtCanceledOnQueue, isrVars
<1>3. /\ writeQueue \in Seq(Req) /\ Distinct(writeQueue) /\ r \in ToSet(writeQueue)
      /\ status[r] = "pending" /\ DOMAIN status = Req /\ c \in Req \cup {NoReq}
      /\ c # NoReq => c \notin ToSet(writeQueue)
  BY <1>1 DEF WInv, SlotTypes, Owned, ToSet, Slots
<1>4. /\ status'[r] = "CANCELLED" /\ \A w \in Req \ {r} : status'[w] = status[w]
  BY <1>2, <1>3
<1>5. UNCHANGED <<Outcome, Reported>>
  <2>1. \A w \in Writes : /\ Ended(w)' <=> Ended(w)
                          /\ Ended(w) => status'[w] = status[w] /\ information'[w] = information[w]
    BY <1>2, <1>3, <1>4, WritesAreReq DEF Ended
  <2>2. QED
    BY <2>1, SameResults, Zenon
<1>6. Sizes' = Sizes /\ Transmitted' = Transmitted
  BY <1>2 DEF Sizes, Transmitted
<1>7. Only(writeQueue', Writes) = o
  <2>1. Only(writeQueue', Writes) = Only(writeQueue, Writes \ {r})
    BY <1>1, <1>3, OnlyOfRemoved
  <2>2. Writes \ {r} = k
    OBVIOUS
  <2>3. QED
    BY <2>1, <2>2
<1>8. writeQueue' \in Seq(Req)
  BY DEF WInv, SlotTypes
<1>9. c \in Writes <=> c \in k
  BY <1>3, WritesAreReq
<1>10. gone \in SUBSET Writes
  OBVIOUS
<1>11. Line' = Only(Line, k)
  <2> HIDE DEF c, gone, o
  <2>1. /\ c \in Writes => Only(Line, k) = <<c>> \o o
        /\ c \notin Writes => Only(Line, k) = o
    BY <1>9, <1>10, LineWithout DEF c, o
  <2>2. Line' = Only(<<c>> \o writeQueue', Writes)
    BY <1>2 DEF Line, c
  <2>3. /\ c \in Writes => Line' = <<c>> \o o
        /\ c \notin Writes => Line' = o
    BY <1>3, <1>7, <1>8, <2>2, LineFront, Zenon
  <2>4. QED
    BY <2>1, <2>3
<1>12. Transmitted' = IF Line # << >> /\ Head(Line) \in gone THEN 0 ELSE Transmitted
  <2>1. CASE c \in Writes
    BY <1>6, <1>9, <2>1, LineIs
  <2>2. CASE c \notin Writes
    BY <1>6, <2>2, TransmittedIs
  <2>3. QED
    BY <2>1, <2>2
<1> HIDE DEF gone
<1>13. LineStep
  BY <1>5, <1>6, <1>10, <1>11, <1>12, Drops
<1>14. Unsent' /\ Kinds'
  BY <1>2, <1>4, WritesAreReq DEF LInv, Unsent, Kinds
<1>15. Whole'
  BY <1>2, WholeKept DEF LInv
<1>16. QED
  BY <1>13, <1>14, <1>15 DEF LInv

\* Every step of the driver is a step of the line, or none.
LEMMA NextLineStep ==
  ASSUME WInv, CInv, LInv, WInv', [Next]_vars
  PROVE  LineStep /\ LInv'
<1>1. /\ "Write" \in Slots /\ "Xoff" \in Slots /\ "Immediate" \in Slots
      /\ "SUCCESS" \in Done /\ "TIMEOUT" \in Done /\ "CANCELLED" \in Done /\ "MORE_WRITES" \in Done
      /\ FALSE \in BOOLEAN /\ TRUE \in BOOLEAN
  BY DEF Slots, Done
<1>2. CASE UNCHANGED vars \/ FlushRestart \/ \E slot \in Slots : TimerFires(slot)
  BY <1>2, SmallStepsLine
<1>3. CASE ISR
  BY <1>3, SmallStepsLine, SendWriteLine DEF ISR
<1>4. CASE Client
  <2>1. CASE \E r \in Req : Cancel(r) \/ EvtCanceledOnQueue(r)
    BY <2>1, SmallStepsLine, EvtCanceledOnQueueLine
  <2>2. CASE PurgeWrites
    BY <1>1, <2>2, FlushLine DEF PurgeWrites
  <2>3. CASE FlushStop
    BY <2>3, SmallStepsLine
  <2>4. QED
    BY <1>4, <2>1, <2>2, <2>3, ArrivalsLine DEF Client
<1>5. CASE Continue
  <2>1. CASE PurgeXoff
    BY <1>1, <2>1, FlushLine DEF PurgeXoff
  <2>2. CASE AbortXoff
    <3>1. /\ pc = "start" /\ current["Xoff"] # NoReq /\ completeDpc' = completeDpc
          /\ TryToComplete("Xoff", TRUE, "MORE_WRITES", "XOFF_REF", timer["Xoff"], FALSE, "give")
      BY <2>2 DEF AbortXoff, XoffCounts
    <3>2. Calls("Xoff", TRUE, "XOFF_REF", timer["Xoff"], "give")
      BY <1>1, <3>1 DEF Calls, Started, WInv, SlotTypes
    <3>3. QED
      BY <1>1, <3>1, <3>2, TryToCompleteLine
  <2>3. QED
    BY <1>5, <2>1, <2>2, GiveWriteToIsrLine DEF Continue
<1>6. ASSUME NEW slot \in Slots, pc = "idle", completeDpc[slot],
             completeDpc' = [completeDpc EXCEPT ![slot] = FALSE],
             TryToComplete(slot, FALSE, "SUCCESS", "ISR", timer[slot], FALSE, "idle")
      PROVE  LineStep /\ LInv'
  <2>1. current[slot] # NoReq
    BY <1>6 DEF TryToComplete
  <2>2. Calls(slot, FALSE, "ISR", timer[slot], "idle")
    BY <1>6, <2>1 DEF Calls, Started, WInv, SlotTypes
  <2>3. QED
    BY <1>1, <1>6, <2>2, TryToCompleteLine
<1>7. ASSUME NEW slot \in Slots, pc = "idle", timer[slot] = "fired",
             NEW total, total = timer[slot] \/ (slot = "Xoff" /\ total = NullTimer),
             TryToComplete(slot, TRUE, "TIMEOUT", "TOTAL_TIMER", total, FALSE, "idle"),
             completeDpc' = completeDpc
      PROVE  LineStep /\ LInv'
  <2>1. current[slot] # NoReq
    BY <1>7 DEF TryToComplete
  <2>2. Calls(slot, TRUE, "TOTAL_TIMER", total, "idle")
    BY <1>7, <2>1 DEF Calls, Started, WInv, SlotTypes
  <2>3. QED
    BY <1>1, <1>7, <2>2, TryToCompleteLine
<1>8. CASE Callback
  <2>1. CASE CommError
    BY <1>1, <2>1, FlushLine DEF CommError
  <2>2. CASE CompleteWrite
    BY <1>1, <1>6, <2>2 DEF CompleteWrite
  <2>3. CASE \E slot \in Slots : CompleteFromIsr(slot)
    BY <1>6, <2>3 DEF CompleteFromIsr
  <2>4. CASE \E slot \in Slots : Timeout(slot)
    BY <1>7, <2>4 DEF Timeout
  <2>5. CASE TimeoutXoff
    BY <1>1, <1>7, <2>5 DEF TimeoutXoff
  <2>6. CASE \E r \in Req : CancelCallback(r)
    <3>1. PICK r \in Req : CancelCallback(r)
      BY <2>6
    <3> DEFINE slot == cancelRoutine[r]
    <3>2. /\ pc = "idle" /\ current[slot] # NoReq /\ completeDpc' = completeDpc
          /\ TryToComplete(slot, TRUE, "CANCELLED", "CANCEL", timer[slot], FALSE, "idle")
      BY <3>1, ReqAssumption DEF CancelCallback, CancelCurrent
    <3>3. slot \in Slots
      BY DEF WInv, SlotTypes
    <3>4. Calls(slot, TRUE, "CANCEL", timer[slot], "idle")
      BY <3>2, <3>3 DEF Calls, Started, WInv, SlotTypes
    <3> HIDE DEF slot
    <3>5. QED
      BY <1>1, <3>2, <3>3, <3>4, TryToCompleteLine
  <2>7. QED
    BY <1>1, <1>8, <2>1, <2>2, <2>3, <2>4, <2>5, <2>6, CompleteXoffWriteLine DEF Callback
<1>9. QED
  BY <1>2, <1>3, <1>4, <1>5, <1>8 DEF Next

\* Nothing has arrived: the line is empty.
LEMMA LineInit ==
  ASSUME Init
  PROVE  Stream!Init /\ LInv
<1>1. /\ length = [r \in Req |-> 0] /\ status = [r \in Req |-> "unused"]
      /\ current = [s \in Slots |-> NoReq] /\ writeQueue = << >>
      /\ completeDpc = [s \in Slots |-> FALSE]
  BY DEF Init
<1>2. /\ current["Write"] = NoReq /\ current["Xoff"] = NoReq /\ current["Immediate"] = NoReq
      /\ ~completeDpc["Write"]
  BY <1>1 DEF Slots
<1>3. Line = << >>
  <2>1. << >> \in Seq(Req) /\ NoReq \in Req \cup {NoReq} /\ Line = Only(<<NoReq>> \o << >>, Writes)
    BY <1>1, <1>2 DEF Line
  <2>2. QED
    BY <2>1, LineFront, OnlyOfNone, WritesAreReq
<1>4. Sizes = [w \in Writes |-> 0]
  BY <1>1, WritesAreReq DEF Sizes
<1>5. Transmitted = 0
  BY <1>2, WritesAreReq DEF Transmitted
<1>6. \A w \in Writes : ~Ended(w)
  BY <1>1, WritesAreReq DEF Ended
<1>7. Outcome = [w \in Writes |-> "none"] /\ Reported = [w \in Writes |-> 0]
  BY <1>6 DEF Outcome, Reported
<1>8. LInv
  BY <1>1, <1>2, WritesAreReq DEF LInv, Unsent, Kinds, Whole
<1>9. QED
  BY <1>3, <1>4, <1>5, <1>7, <1>8 DEF Stream!Init

\* The property of run WritePath_safety, for any number of writes of any length: the
\* write path implements the line of TxStream.
THEOREM SpecImplementsStream == Spec => ImplementsStream
<1>1. Init => Stream!Init /\ LInv
  BY LineInit
<1>2. WInv /\ CInv /\ WInv' /\ LInv /\ [Next]_vars => LInv' /\ [Stream!Next]_(Stream!vars)
  <2>1. SUFFICES ASSUME WInv, CInv, WInv', LInv, [Next]_vars
                 PROVE  LInv' /\ [Stream!Next]_(Stream!vars)
    OBVIOUS
  <2>2. LineStep /\ LInv'
    BY <2>1, NextLineStep
  <2>3. QED
    BY <2>2 DEF LineStep
<1>3. Spec => [](WInv /\ CInv)
  BY SpecCInv
<1>4. QED
  BY <1>1, <1>2, <1>3, PTL DEF Spec, ImplementsStream, Stream!Spec
=============================================================================
