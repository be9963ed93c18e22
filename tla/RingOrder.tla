----------------------------- MODULE RingOrder ------------------------------
(***************************************************************************)
(* An array read from a position on and around its end, as the scan of     *)
(* round_robin_pick_next reads it: what taking further slots into account  *)
(* and moving the position do to the order of the slots.                   *)
(***************************************************************************)
EXTENDS Integers, Sequences, SequenceTheorems, TLAPS

\* A remainder of less than two rounds.
LEMMA ModOnce ==
  ASSUME NEW a \in Nat, NEW n \in Nat, n > 0, a < 2 * n
  PROVE  a % n = IF a < n THEN a ELSE a - n
<1>1. /\ a % n \in 0 .. n - 1 /\ a \div n \in Int
      /\ a = (n * (a \div n)) + (a % n)
  OBVIOUS
<1>2. PICK d \in Int, m \in 0 .. n - 1 : m = a % n /\ a = (n * d) + m
  BY <1>1
<1>3. ~(d < 0)
  <2> SUFFICES ASSUME d < 0 PROVE FALSE
    OBVIOUS
  <2>1. PICK e \in Nat : d = -1 - e
    <3>1. -1 - d \in Nat /\ d = -1 - (-1 - d)
      OBVIOUS
    <3> QED
      BY <3>1
  <2>2. n * d = -n - (n * e) /\ n * e >= 0 /\ n * e \in Int
    BY <2>1
  <2> QED
    BY <1>2, <2>2
<1>4. ~(d > 1)
  <2> SUFFICES ASSUME d > 1 PROVE FALSE
    OBVIOUS
  <2>1. PICK e \in Nat : d = 2 + e
    <3>1. d - 2 \in Nat /\ d = 2 + (d - 2)
      OBVIOUS
    <3> QED
      BY <3>1
  <2>2. n * d = (2 * n) + (n * e) /\ n * e >= 0 /\ n * e \in Int
    BY <2>1
  <2> QED
    BY <1>2, <2>2
<1>5. CASE d = 0
  BY <1>2, <1>5
<1>6. CASE d = 1
  BY <1>2, <1>6
<1> QED
  BY <1>3, <1>4, <1>5, <1>6

\* The first n slots, read from position next on and around their end.
Ring(slot, next, n) == [k \in 1 .. n |-> slot[(next + (k - 1)) % n]]

\* The slot in place k of the ring.
RingSlot(slot, next, n, k) ==
    IF next + k <= n THEN slot[next + k - 1] ELSE slot[next + k - 1 - n]

LEMMA RingAt ==
  ASSUME NEW slot, NEW n \in Nat, NEW next \in Nat, next <= n,
         NEW k \in 1 .. n
  PROVE  Ring(slot, next, n)[k] = RingSlot(slot, next, n, k)
<1>1. /\ next + (k - 1) \in Nat /\ n > 0 /\ next + (k - 1) < 2 * n
      /\ next + (k - 1) < n <=> next + k <= n
      /\ next + (k - 1) = next + k - 1
  OBVIOUS
<1>2. (next + (k - 1)) % n =
        IF next + (k - 1) < n THEN next + (k - 1) ELSE next + (k - 1) - n
  <2> DEFINE a == next + (k - 1)
  <2>1. a \in Nat /\ n > 0 /\ a < 2 * n
    BY <1>1
  <2> HIDE DEF a
  <2>2. a % n = IF a < n THEN a ELSE a - n
    BY <2>1, ModOnce
  <2> QED
    BY <2>2 DEF a
<1>3. Ring(slot, next, n)[k] = slot[(next + (k - 1)) % n]
  BY DEF Ring
<1> QED
  BY <1>1, <1>2, <1>3 DEF RingSlot

LEMMA RingSeq ==
  ASSUME NEW S, NEW slot, NEW n \in Nat, NEW next \in Nat,
         \A i \in 0 .. n - 1 : slot[i] \in S
  PROVE  Ring(slot, next, n) \in Seq(S) /\ Len(Ring(slot, next, n)) = n
<1>1. \A k \in 1 .. n : slot[(next + (k - 1)) % n] \in S
  <2> TAKE k \in 1 .. n
  <2>1. next + (k - 1) \in Nat /\ n > 0
    OBVIOUS
  <2>2. \A a, b \in Nat : b > 0 => a % b \in 0 .. b - 1
    OBVIOUS
  <2>3. (next + (k - 1)) % n \in 0 .. n - 1
    BY <2>1, <2>2
  <2> QED
    BY <2>3
<1> QED
  BY <1>1 DEF Ring

\* Read from its end on, the array is read from its beginning.
LEMMA RingAround ==
  ASSUME NEW slot, NEW n \in Nat
  PROVE  Ring(slot, n, n) = Ring(slot, 0, n)
<1>1. ASSUME NEW k \in 1 .. n PROVE (n + (k - 1)) % n = (0 + (k - 1)) % n
  <2>1. PICK a \in Nat : a = k - 1 /\ a < n /\ n > 0
    OBVIOUS
  <2>2. PICK b \in Nat : b = n + a /\ b < 2 * n /\ b - n = a /\ ~(b < n)
    BY <2>1
  <2>3. a % n = a /\ b % n = a
    <3>1. a % n = IF a < n THEN a ELSE a - n
      BY <2>1, ModOnce
    <3>2. b % n = IF b < n THEN b ELSE b - n
      BY <2>1, <2>2, ModOnce
    <3> QED
      BY <2>1, <2>2, <3>1, <3>2
  <2>4. n + (k - 1) = b /\ 0 + (k - 1) = a
    BY <2>1, <2>2
  <2> QED
    BY <2>3, <2>4
<1> QED
  BY <1>1 DEF Ring

LEMMA Spliced ==
  ASSUME NEW S, NEW a \in Seq(S), NEW m \in Seq(S), NEW b \in Seq(S), NEW t,
         t = (a \o m) \o b
  PROVE  /\ t \in Seq(S)
         /\ Len(t) = Len(a) + Len(m) + Len(b)
         /\ \A k \in 1 .. Len(a) : t[k] = a[k]
         /\ \A k \in 1 .. Len(m) : t[Len(a) + k] = m[k]
         /\ \A k \in 1 .. Len(b) : t[Len(a) + Len(m) + k] = b[k]
<1> DEFINE am == a \o m
<1>1. /\ am \in Seq(S) /\ Len(am) = Len(a) + Len(m)
      /\ Len(a) \in Nat /\ Len(m) \in Nat /\ Len(b) \in Nat
      /\ \A k \in 1 .. Len(a) + Len(m) : am[k] =
           IF k <= Len(a) THEN a[k] ELSE m[k - Len(a)]
  BY ConcatProperties
<1> HIDE DEF am
<1>2. /\ am \o b \in Seq(S) /\ Len(am \o b) = Len(am) + Len(b)
      /\ \A k \in 1 .. Len(am) + Len(b) : (am \o b)[k] =
           IF k <= Len(am) THEN am[k] ELSE b[k - Len(am)]
  <2>1. am \in Seq(S)
    BY <1>1
  <2> QED
    BY <2>1, ConcatProperties
<1>3. \A k \in 1 .. Len(a) : (am \o b)[k] = a[k]
  BY <1>1, <1>2
<1>4. ASSUME NEW k \in 1 .. Len(m) PROVE (am \o b)[Len(a) + k] = m[k]
  <2>1. PICK j \in 1 .. Len(a) + Len(m) : j = Len(a) + k
    BY <1>1
  <2>2. j - Len(a) = k /\ ~(j <= Len(a)) /\ j <= Len(am)
        /\ j \in 1 .. Len(am) + Len(b)
    BY <1>1, <2>1
  <2>3. am[j] = m[k] /\ (am \o b)[j] = am[j]
    BY <1>1, <1>2, <2>1, <2>2
  <2> QED
    BY <2>1, <2>3
<1>5. ASSUME NEW k \in 1 .. Len(b) PROVE (am \o b)[Len(a) + Len(m) + k] = b[k]
  <2>1. PICK j \in 1 .. Len(am) + Len(b) : j = Len(a) + Len(m) + k
    BY <1>1
  <2>2. j - Len(am) = k /\ ~(j <= Len(am))
    BY <1>1, <2>1
  <2> QED
    BY <1>2, <2>1, <2>2
<1> QED
  BY <1>1, <1>2, <1>3, <1>4, <1>5 DEF am

\* s with the sequence m put behind its first i elements.
Inserted(s, i, m) == (SubSeq(s, 1, i) \o m) \o SubSeq(s, i + 1, Len(s))

\* The first n slots.
Front(slot, n) == [k \in 1 .. n |-> slot[k - 1]]

\* The ring of the first n slots, joined by the others up to slot l of r.
Joined(slot, next, n, l, r) ==
    Inserted(Ring(slot, next, n), n - next, SubSeq(Front(slot, r), n + 1, l))

\* Slots taken into account besides the first n join the order together, behind
\* the last of these.
LEMMA RingJoin ==
  ASSUME NEW slot, NEW n \in Nat, NEW l \in Nat, NEW r \in Nat, n <= l, l <= r,
         NEW next \in Nat, next <= n, next < l \/ l = 0
  PROVE  Ring(slot, next, l) = Joined(slot, next, n, l, r)
<1> DEFINE S == {slot[i] : i \in 0 .. r - 1}
<1>0. \A i \in 0 .. r - 1 : slot[i] \in S
  OBVIOUS
<1> HIDE DEF S
<1>a. PICK h \in 0 .. n : h = n - next
  OBVIOUS
<1>b. PICK w \in Nat : w = l - n
  OBVIOUS
<1> DEFINE old == Ring(slot, next, n)
           new == Ring(slot, next, l)
           all == Front(slot, r)
           head == SubSeq(old, 1, h)
           mid == SubSeq(all, n + 1, l)
           tail == SubSeq(old, h + 1, Len(old))
<1>1. /\ old \in Seq(S) /\ Len(old) = n /\ new \in Seq(S) /\ Len(new) = l
      /\ all \in Seq(S) /\ Len(all) = r
  <2>1. (\A i \in 0 .. n - 1 : slot[i] \in S) /\ (\A i \in 0 .. l - 1 : slot[i] \in S)
    BY <1>0
  <2>2. all \in Seq(S) /\ Len(all) = r
    BY <1>0 DEF Front
  <2> QED
    BY <2>1, <2>2, RingSeq
<1>2. \A k \in 1 .. l : new[k] = IF next + k <= l THEN slot[next + k - 1]
                                                  ELSE slot[next + k - 1 - l]
  <2>1. next <= l
    OBVIOUS
  <2>2. \A k \in 1 .. l : new[k] = RingSlot(slot, next, l, k)
    BY <2>1, RingAt
  <2> QED
    BY <2>2 DEF RingSlot
<1>3. \A k \in 1 .. n : old[k] = IF next + k <= n THEN slot[next + k - 1]
                                                  ELSE slot[next + k - 1 - n]
  <2>1. \A k \in 1 .. n : old[k] = RingSlot(slot, next, n, k)
    BY RingAt
  <2> QED
    BY <2>1 DEF RingSlot
<1>4. \A k \in 1 .. r : all[k] = slot[k - 1]
  BY DEF Front
<1> HIDE DEF old, new, all
<1>5. head \in Seq(S) /\ Len(head) = h /\ \A k \in 1 .. h : head[k] = old[k]
  BY <1>1, SubSeqProperties
<1>6. /\ tail \in Seq(S) /\ Len(tail) = n - h
      /\ \A k \in 1 .. n - h : tail[k] = old[h + k]
  <2>1. /\ tail \in Seq(S)
        /\ Len(tail) = IF h + 1 <= n THEN n - (h + 1) + 1 ELSE 0
        /\ \A k \in 1 .. n - (h + 1) + 1 : tail[k] = old[(h + 1) + k - 1]
    BY <1>1, SubSeqProperties
  <2>2. \A k \in 1 .. n - h : k \in 1 .. n - (h + 1) + 1 /\ (h + 1) + k - 1 = h + k
    OBVIOUS
  <2> HIDE DEF tail
  <2> QED
    BY <2>1, <2>2
<1>7. /\ mid \in Seq(S) /\ Len(mid) = w
      /\ \A k \in 1 .. w : mid[k] = slot[n + k - 1]
  <2>0. \A k \in n + 1 .. l : all[k] \in S
    BY <1>0, <1>4
  <2>1. /\ mid \in Seq(S)
        /\ Len(mid) = IF n + 1 <= l THEN l - (n + 1) + 1 ELSE 0
        /\ \A k \in 1 .. l - (n + 1) + 1 : mid[k] = all[(n + 1) + k - 1]
    BY <2>0, SubSeqProperties
  <2>2. \A k \in 1 .. w : /\ k \in 1 .. l - (n + 1) + 1 /\ n + k \in 1 .. r
                          /\ (n + 1) + k - 1 = n + k
    BY <1>b
  <2> HIDE DEF mid
  <2> QED
    BY <1>4, <1>b, <2>1, <2>2
<1> HIDE DEF head, mid, tail
<1> DEFINE ins == (head \o mid) \o tail
<1>8. /\ ins \in Seq(S) /\ Len(ins) = l
      /\ \A k \in 1 .. h : ins[k] = old[k]
      /\ \A k \in 1 .. w : ins[h + k] = slot[n + k - 1]
      /\ \A k \in 1 .. n - h : ins[h + w + k] = old[h + k]
  <2>1. /\ ins \in Seq(S) /\ Len(ins) = Len(head) + Len(mid) + Len(tail)
        /\ \A k \in 1 .. Len(head) : ins[k] = head[k]
        /\ \A k \in 1 .. Len(mid) : ins[Len(head) + k] = mid[k]
        /\ \A k \in 1 .. Len(tail) : ins[Len(head) + Len(mid) + k] = tail[k]
    <3>1. head \in Seq(S) /\ mid \in Seq(S) /\ tail \in Seq(S)
      BY <1>5, <1>6, <1>7
    <3> QED
      BY <3>1, Spliced
  <2>2. h + w + (n - h) = l
    BY <1>b
  <2> HIDE DEF ins
  <2>3. Len(head) = h /\ Len(mid) = w /\ Len(tail) = n - h
    BY <1>5, <1>6, <1>7
  <2>4. ins \in Seq(S) /\ Len(ins) = l
    BY <2>1, <2>2, <2>3
  <2>5. \A k \in 1 .. h : ins[k] = old[k]
    BY <1>5, <2>1, <2>3, Zenon
  <2>6. \A k \in 1 .. w : ins[h + k] = slot[n + k - 1]
    BY <1>7, <2>1, <2>3, Zenon
  <2>7. \A k \in 1 .. n - h : ins[h + w + k] = old[h + k]
    BY <1>6, <2>1, <2>3, Zenon
  <2> QED
    BY <2>4, <2>5, <2>6, <2>7
<1> HIDE DEF ins
<1>9. ASSUME NEW k \in 1 .. l PROVE ins[k] = new[k]
  <2>1. CASE k <= h
    <3>1. k \in 1 .. h /\ k \in 1 .. n /\ next + k <= n /\ next + k <= l
      BY <1>a, <2>1
    <3> QED
      BY <1>2, <1>3, <1>8, <3>1
  <2>2. CASE k > h /\ k <= h + w
    <3>1. PICK q \in 1 .. w : k = h + q
      <4>1. k - h \in 1 .. w /\ k = h + (k - h)
        BY <2>2
      <4> QED
        BY <4>1
    <3>2. next + k <= l /\ n + q - 1 = next + k - 1
      BY <1>a, <1>b, <3>1
    <3> QED
      BY <1>2, <1>8, <3>1, <3>2
  <2>3. CASE k > h + w
    <3>1. PICK q \in 1 .. n - h : k = h + w + q
      <4>1. k - (h + w) \in 1 .. n - h /\ k = h + w + (k - (h + w))
        BY <1>b, <2>3
      <4> QED
        BY <4>1
    <3>2. PICK x \in 1 .. n : x = h + q
      BY <3>1
    <3>3. /\ ~(next + k <= l) /\ ~(next + x <= n)
          /\ next + x - 1 - n = next + k - 1 - l
      BY <1>a, <1>b, <3>1, <3>2
    <3>4. ins[k] = old[x]
      BY <1>8, <3>1, <3>2
    <3> QED
      BY <1>2, <1>3, <3>2, <3>3, <3>4
  <2> QED
    BY <2>1, <2>2, <2>3
<1>10. ins = new
  BY <1>1, <1>8, <1>9, SeqEqual
<1>11. Inserted(old, h, mid) = ins
  BY DEF Inserted, ins, head, tail
<1> QED
  BY <1>10, <1>11, <1>a DEF old, new, mid, all, Joined

\* The position behind the k-th visited slot, and the order read from there.
Behind(next, k, n) == IF next + k < n THEN next + k ELSE next + k - n
Rotated(s, k, n) == SubSeq(s, k + 1, n) \o SubSeq(s, 1, k)

\* Moving next there rotates the order by k.
LEMMA RingRotate ==
  ASSUME NEW slot, NEW n \in Nat, NEW next \in Nat, next < n,
         NEW k \in 1 .. n
  PROVE  Ring(slot, Behind(next, k, n), n) = Rotated(Ring(slot, next, n), k, n)
<1>a. PICK m \in Nat : /\ m = Behind(next, k, n)
                       /\ m = IF next + k < n THEN next + k ELSE next + k - n
  BY DEF Behind
<1> DEFINE S == {slot[i] : i \in 0 .. n - 1}
           old == Ring(slot, next, n)
           new == Ring(slot, m, n)
<1>0. \A i \in 0 .. n - 1 : slot[i] \in S
  OBVIOUS
<1> HIDE DEF S
<1>1. old \in Seq(S) /\ Len(old) = n
  BY <1>0, RingSeq
<1>2. /\ m < n
      /\ m = IF next + k < n THEN next + k ELSE next + k - n
  BY <1>a
<1>3. new \in Seq(S) /\ Len(new) = n
  BY <1>0, RingSeq
<1>4. \A j \in 1 .. n :
        /\ old[j] = IF next + j <= n THEN slot[next + j - 1]
                                     ELSE slot[next + j - 1 - n]
        /\ new[j] = IF m + j <= n THEN slot[m + j - 1] ELSE slot[m + j - 1 - n]
  <2> TAKE j \in 1 .. n
  <2>1. old[j] = IF next + j <= n THEN slot[next + j - 1]
                                  ELSE slot[next + j - 1 - n]
    <3>1. next <= n
      OBVIOUS
    <3>2. old[j] = RingSlot(slot, next, n, j)
      BY <3>1, RingAt
    <3> QED
      BY <3>2 DEF RingSlot
  <2>2. new[j] = IF m + j <= n THEN slot[m + j - 1] ELSE slot[m + j - 1 - n]
    <3>1. m <= n
      BY <1>2
    <3>2. new[j] = RingSlot(slot, m, n, j)
      BY <3>1, RingAt
    <3> QED
      BY <3>2 DEF RingSlot
  <2> QED
    BY <2>1, <2>2
<1> HIDE DEF old, new
<1> DEFINE back == SubSeq(old, k + 1, n)
           front == SubSeq(old, 1, k)
           rot == back \o front
<1>5. /\ back \in Seq(S) /\ Len(back) = n - k
      /\ \A j \in 1 .. n - k : back[j] = old[k + j]
  <2>1. \A j \in k + 1 .. n : old[j] \in S
    BY <1>1
  <2>2. /\ back \in Seq(S)
        /\ Len(back) = IF k + 1 <= n THEN n - (k + 1) + 1 ELSE 0
        /\ \A j \in 1 .. n - (k + 1) + 1 : back[j] = old[(k + 1) + j - 1]
    BY <2>1, SubSeqProperties
  <2>3. \A j \in 1 .. n - k : j \in 1 .. n - (k + 1) + 1 /\ (k + 1) + j - 1 = k + j
    OBVIOUS
  <2> HIDE DEF back
  <2> QED
    BY <2>2, <2>3
<1>6. /\ front \in Seq(S) /\ Len(front) = k
      /\ \A j \in 1 .. k : front[j] = old[j]
  <2>1. \A j \in 1 .. k : old[j] \in S
    BY <1>1
  <2>2. /\ front \in Seq(S) /\ Len(front) = IF 1 <= k THEN k - 1 + 1 ELSE 0
        /\ \A j \in 1 .. k - 1 + 1 : front[j] = old[1 + j - 1]
    BY <2>1, SubSeqProperties
  <2>3. \A j \in 1 .. k : j \in 1 .. k - 1 + 1 /\ 1 + j - 1 = j
    OBVIOUS
  <2> HIDE DEF front
  <2> QED
    BY <2>2, <2>3
<1> HIDE DEF back, front
<1>8. /\ rot \in Seq(S) /\ Len(rot) = n
      /\ \A j \in 1 .. n : rot[j] = IF j <= n - k THEN back[j] ELSE front[j - (n - k)]
  <2>1. /\ rot \in Seq(S) /\ Len(rot) = Len(back) + Len(front)
        /\ \A j \in 1 .. Len(back) + Len(front) : rot[j] =
             IF j <= Len(back) THEN back[j] ELSE front[j - Len(back)]
    BY <1>5, <1>6, ConcatProperties
  <2>2. Len(back) + Len(front) = n
    BY <1>5, <1>6
  <2> HIDE DEF rot
  <2> QED
    BY <1>5, <2>1, <2>2
<1> HIDE DEF rot
<1>9. \A j \in 1 .. n : rot[j] = new[j]
  <2> TAKE j \in 1 .. n
  <2>1. CASE j <= n - k
    <3>1. j \in 1 .. n - k /\ k + j \in 1 .. n
      BY <2>1
    <3>2. rot[j] = old[k + j]
      BY <1>5, <1>8, <2>1, <3>1
    <3> QED
      BY <1>2, <1>4, <3>1, <3>2
  <2>2. CASE j > n - k
    <3> DEFINE q == j - (n - k)
    <3>1. q \in 1 .. k /\ q \in 1 .. n /\ q = j - (n - k)
      BY <2>2
    <3>2. rot[j] = front[q]
      BY <1>8, <2>2
    <3> HIDE DEF q
    <3>3. rot[j] = old[q]
      BY <1>6, <3>1, <3>2
    <3>4. CASE next + k < n
      <4>1. /\ next + q <= n /\ ~(m + j <= n) /\ m + j - 1 - n = next + q - 1
        BY <1>2, <3>1, <3>4
      <4> QED
        BY <1>4, <3>1, <3>3, <4>1
    <3>5. CASE ~(next + k < n)
      <4>1. /\ m + j = next + q /\ m + j - 1 = next + q - 1
            /\ m + j - 1 - n = next + q - 1 - n
        BY <1>2, <3>1, <3>5
      <4> QED
        BY <1>4, <3>1, <3>3, <4>1
    <3> QED
      BY <3>4, <3>5
  <2> QED
    BY <2>1, <2>2
<1>10. rot = new
  BY <1>3, <1>8, <1>9, SeqEqual
<1> QED
  BY <1>a, <1>10 DEF rot, new, back, front, old, Rotated
=============================================================================
