-------------------------- MODULE DmabufHoldsProofs --------------------------
(* Theorems about DmabufHolds, for every number of buffers, frames, holds,   *)
(* connections and window changes.                                           *)
EXTENDS DmabufHolds, WellFoundedInduction, TLAPS

(* No element comes twice.                                                   *)
Distinct(q) == \A i, j \in 1 .. Len(q) : q[i] = q[j] => i = j

(* There is room for the frames on their way.                                *)
FrameRoom == nextId + Len(commits) <= MaxFrames + 1

(* The client thread has a frame in its hand only while it sends.            *)
HandSends == th.hold # NoHold => th.pc \in {"stamp", "send"}

(* Holds are of frames that were answered kHeld, one per frame, and of real  *)
(* buffers; the one HoldDmabufBuffer is about to record is not there yet.    *)
HoldsOfFrames ==
    /\ given \subseteq 1 .. nextId - 1
    /\ \A h \in ToSet(held) : h.id \in given /\ h.buf \in Buffers
    /\ \A g, h \in ToSet(held) : g.id = h.id => g = h
    /\ hold # IdleHold => /\ hold.id \in given \ HeldIds
                          /\ hold.buf \in Buffers

(* Who will release a frame is one of the latest frame, the client thread    *)
(* and the client, which has it once; nobody will release a lost one.        *)
HoldersApart ==
    /\ ToSet(LatestHold) \cap ToSet(InHand) = {}
    /\ ToSet(LatestHold) \cap ToSet(heldDmabufs) = {}
    /\ ToSet(InHand) \cap ToSet(heldDmabufs) = {}
    /\ lost \cap Holders = {}
    /\ Distinct(heldDmabufs)

(* A release that comes before the hold it ends waits in released_frames_.   *)
EarlyReleaseWaits ==
    hold # IdleHold /\ hold.id \in released => hold.id \in ToSet(relQ)

(* The inductive invariant.                                                  *)
HoldInv == /\ TypeOK /\ FrameRoom /\ HandSends /\ HoldsOfFrames
           /\ HoldersApart /\ HoldsAccounted /\ EarlyReleaseWaits
           /\ NoHoldOutlivesRelease /\ BuffersComeBack
-----------------------------------------------------------------------------
(* Sequences and their elements.                                             *)

(* Membership, by position.                                                  *)
LEMMA InToSet ==
    ASSUME NEW S, NEW q \in Seq(S)
    PROVE  /\ ToSet(q) \subseteq S
           /\ \A i \in 1 .. Len(q) : q[i] \in ToSet(q)
           /\ \A e \in ToSet(q) : \E i \in 1 .. Len(q) : q[i] = e
<1>1. DOMAIN q = 1 .. Len(q)
  OBVIOUS
<1>2. QED
  BY <1>1 DEF ToSet

(* The shortest sequences.                                                   *)
LEMMA ToSetShort ==
    /\ ToSet(<< >>) = {}
    /\ \A e : ToSet(<<e>>) = {e}
<1>1. \A e : /\ DOMAIN <<e>> = {1}
             /\ <<e>>[1] = e
  OBVIOUS
<1>2. \A e : ToSet(<<e>>) = {e}
  BY <1>1 DEF ToSet
<1>3. DOMAIN << >> = {}
  OBVIOUS
<1>4. QED
  BY <1>2, <1>3 DEF ToSet

(* An element is added at the end.                                           *)
LEMMA ToSetAppend ==
    ASSUME NEW S, NEW q \in Seq(S), NEW e \in S
    PROVE  /\ Append(q, e) \in Seq(S)
           /\ Len(Append(q, e)) = Len(q) + 1
           /\ ToSet(Append(q, e)) = ToSet(q) \cup {e}
<1> DEFINE r == Append(q, e)
<1>1. /\ r \in Seq(S) /\ Len(q) \in Nat /\ Len(r) = Len(q) + 1
      /\ r[Len(q) + 1] = e
      /\ \A i \in 1 .. Len(q) : r[i] = q[i]
  OBVIOUS
<1> HIDE DEF r
<1>2. ToSet(r) \subseteq ToSet(q) \cup {e}
  <2> SUFFICES ASSUME NEW x \in ToSet(r) PROVE x \in ToSet(q) \cup {e}
    OBVIOUS
  <2>1. PICK i \in 1 .. Len(r) : r[i] = x
    BY <1>1, InToSet
  <2>2. QED
    BY <1>1, <2>1, InToSet
<1>3. ToSet(q) \cup {e} \subseteq ToSet(r)
  <2> SUFFICES ASSUME NEW x \in ToSet(q) \cup {e} PROVE x \in ToSet(r)
    OBVIOUS
  <2>1. CASE x = e
    BY <1>1, <2>1, InToSet
  <2>2. CASE x \in ToSet(q)
    <3>1. PICK i \in 1 .. Len(q) : q[i] = x
      BY <2>2, InToSet
    <3>2. i \in 1 .. Len(r) /\ r[i] = x
      BY <1>1, <3>1
    <3>3. QED
      BY <1>1, <3>2, InToSet
  <2>3. QED
    BY <2>1, <2>2
<1>4. QED
  BY <1>1, <1>2, <1>3 DEF r

(* The first element is taken.                                               *)
LEMMA ToSetTail ==
    ASSUME NEW S, NEW q \in Seq(S), q # << >>
    PROVE  /\ Head(q) \in S
           /\ Tail(q) \in Seq(S)
           /\ Len(q) \in Nat /\ Len(Tail(q)) = Len(q) - 1
           /\ ToSet(q) = ToSet(Tail(q)) \cup {Head(q)}
<1> DEFINE r == Tail(q)
<1>1. /\ Head(q) = q[1] /\ Head(q) \in S /\ r \in Seq(S)
      /\ Len(q) \in Nat \ {0} /\ Len(r) = Len(q) - 1
      /\ \A i \in 1 .. Len(r) : r[i] = q[i + 1]
  OBVIOUS
<1> HIDE DEF r
<1>2. ToSet(q) \subseteq ToSet(r) \cup {Head(q)}
  <2> SUFFICES ASSUME NEW x \in ToSet(q) PROVE x \in ToSet(r) \cup {Head(q)}
    OBVIOUS
  <2>1. PICK i \in 1 .. Len(q) : q[i] = x
    BY InToSet
  <2>2. CASE i = 1
    BY <1>1, <2>1, <2>2
  <2>3. CASE i # 1
    <3>1. i - 1 \in 1 .. Len(r) /\ r[i - 1] = x
      BY <1>1, <2>1, <2>3
    <3>2. QED
      BY <1>1, <3>1, InToSet
  <2>4. QED
    BY <2>2, <2>3
<1>3. ToSet(r) \cup {Head(q)} \subseteq ToSet(q)
  <2> SUFFICES ASSUME NEW x \in ToSet(r) \cup {Head(q)} PROVE x \in ToSet(q)
    OBVIOUS
  <2>1. CASE x = Head(q)
    BY <1>1, <2>1, InToSet
  <2>2. CASE x \in ToSet(r)
    <3>1. PICK i \in 1 .. Len(r) : r[i] = x
      BY <1>1, <2>2, InToSet
    <3>2. i + 1 \in 1 .. Len(q) /\ q[i + 1] = x
      BY <1>1, <3>1
    <3>3. QED
      BY <3>2, InToSet
  <2>3. QED
    BY <2>1, <2>2
<1>4. QED
  BY <1>1, <1>2, <1>3 DEF r

(* Two sequences in a row, by position and as a set.                         *)
LEMMA ConcatAt ==
    ASSUME NEW S, NEW q \in Seq(S), NEW r \in Seq(S)
    PROVE  /\ q \o r \in Seq(S) /\ Len(q) \in Nat /\ Len(r) \in Nat
           /\ Len(q \o r) = Len(q) + Len(r)
           /\ \A i \in 1 .. Len(q \o r) :
                 (q \o r)[i] = IF i <= Len(q) THEN q[i] ELSE r[i - Len(q)]
  OBVIOUS

LEMMA ToSetConcat ==
    ASSUME NEW S, NEW q \in Seq(S), NEW r \in Seq(S)
    PROVE  /\ q \o r \in Seq(S)
           /\ ToSet(q \o r) = ToSet(q) \cup ToSet(r)
<1> DEFINE c == q \o r
<1>1. /\ c \in Seq(S) /\ Len(q) \in Nat /\ Len(r) \in Nat
      /\ Len(c) = Len(q) + Len(r)
      /\ \A i \in 1 .. Len(c) :
            c[i] = IF i <= Len(q) THEN q[i] ELSE r[i - Len(q)]
  BY ConcatAt
<1> HIDE DEF c
<1>2. ToSet(c) \subseteq ToSet(q) \cup ToSet(r)
  <2> SUFFICES ASSUME NEW x \in ToSet(c) PROVE x \in ToSet(q) \cup ToSet(r)
    OBVIOUS
  <2>1. PICK i \in 1 .. Len(c) : c[i] = x
    BY <1>1, InToSet
  <2>2. CASE i <= Len(q)
    BY <1>1, <2>1, <2>2, InToSet
  <2>3. CASE ~(i <= Len(q))
    <3>1. i - Len(q) \in 1 .. Len(r) /\ r[i - Len(q)] = x
      BY <1>1, <2>1, <2>3
    <3>2. QED
      BY <3>1, InToSet
  <2>4. QED
    BY <2>2, <2>3
<1>3. ToSet(q) \subseteq ToSet(c)
  <2> SUFFICES ASSUME NEW x \in ToSet(q) PROVE x \in ToSet(c)
    OBVIOUS
  <2>1. PICK i \in 1 .. Len(q) : q[i] = x
    BY InToSet
  <2>2. i \in 1 .. Len(c) /\ c[i] = x
    BY <1>1, <2>1
  <2>3. QED
    BY <1>1, <2>2, InToSet
<1>4. ToSet(r) \subseteq ToSet(c)
  <2> SUFFICES ASSUME NEW x \in ToSet(r) PROVE x \in ToSet(c)
    OBVIOUS
  <2>1. PICK i \in 1 .. Len(r) : r[i] = x
    BY InToSet
  <2>2. Len(q) + i \in 1 .. Len(c) /\ c[Len(q) + i] = x
    BY <1>1, <2>1
  <2>3. QED
    BY <1>1, <2>2, InToSet
<1>5. QED
  BY <1>1, <1>2, <1>3, <1>4 DEF c

(* Two sequences without repetition that share no element.                   *)
LEMMA DistinctConcat ==
    ASSUME NEW S, NEW q \in Seq(S), NEW r \in Seq(S), Distinct(q), Distinct(r),
           ToSet(q) \cap ToSet(r) = {}
    PROVE  Distinct(q \o r)
<1> DEFINE c == q \o r
<1>1. /\ Len(q) \in Nat /\ Len(r) \in Nat /\ Len(c) = Len(q) + Len(r)
      /\ \A i \in 1 .. Len(c) :
            c[i] = IF i <= Len(q) THEN q[i] ELSE r[i - Len(q)]
  BY ConcatAt
<1> HIDE DEF c
<1>2. \A i \in 1 .. Len(c) :
         /\ i <= Len(q) => i \in 1 .. Len(q) /\ c[i] = q[i] /\ q[i] \in ToSet(q)
         /\ ~(i <= Len(q)) => /\ i - Len(q) \in 1 .. Len(r)
                              /\ c[i] = r[i - Len(q)]
                              /\ r[i - Len(q)] \in ToSet(r)
  BY <1>1, InToSet
<1>3. ASSUME NEW i \in 1 .. Len(c), NEW j \in 1 .. Len(c), c[i] = c[j]
      PROVE  i = j
  <2>1. CASE i <= Len(q) /\ j <= Len(q)
    BY <1>2, <1>3, <2>1 DEF Distinct
  <2>2. CASE ~(i <= Len(q)) /\ ~(j <= Len(q))
    <3>1. i - Len(q) = j - Len(q)
      BY <1>2, <1>3, <2>2 DEF Distinct
    <3>2. QED
      BY <1>1, <3>1
  <2>3. QED
    BY <1>2, <1>3, <2>1, <2>2
<1>4. QED
  BY <1>3 DEF Distinct, c

(* Erasing one of the elements of a vector in which none comes twice.        *)
LEMMA ToSetRemoveAt ==
    ASSUME NEW S, NEW q \in Seq(S), NEW i \in 1 .. Len(q), Distinct(q)
    PROVE  /\ RemoveAt(q, i) \in Seq(S)
           /\ Distinct(RemoveAt(q, i))
           /\ ToSet(RemoveAt(q, i)) = ToSet(q) \ {q[i]}
<1> DEFINE a == SubSeq(q, 1, i - 1)
           b == SubSeq(q, i + 1, Len(q))
           r == a \o b
           up(j) == IF j < i THEN j ELSE j + 1
<1>1. Len(q) \in Nat /\ i \in Nat
  OBVIOUS
<1>2. /\ a \in Seq(S) /\ Len(a) = i - 1
      /\ \A j \in 1 .. i - 1 : a[j] = q[j]
  BY <1>1
<1>3. /\ b \in Seq(S) /\ Len(b) = Len(q) - i
      /\ \A j \in 1 .. Len(q) - i : b[j] = q[i + j]
  BY <1>1
<1> HIDE DEF a, b
<1>4. /\ r \in Seq(S) /\ Len(r) = Len(q) - 1
      /\ \A j \in 1 .. Len(r) :
            r[j] = IF j <= Len(a) THEN a[j] ELSE b[j - Len(a)]
  <2>1. /\ r \in Seq(S) /\ Len(r) = Len(a) + Len(b)
        /\ \A j \in 1 .. Len(r) :
              r[j] = IF j <= Len(a) THEN a[j] ELSE b[j - Len(a)]
    BY <1>2, <1>3, ConcatAt
  <2>2. Len(a) + Len(b) = Len(q) - 1
    BY <1>1, <1>2, <1>3
  <2>3. QED
    BY <2>1, <2>2
<1>5. \A j \in 1 .. Len(r) : up(j) \in 1 .. Len(q) /\ up(j) # i /\ r[j] = q[up(j)]
  BY <1>1, <1>2, <1>3, <1>4
<1>6. RemoveAt(q, i) = r
  BY DEF RemoveAt, a, b
<1> HIDE DEF r
<1>7. Distinct(r)
  <2> SUFFICES ASSUME NEW j \in 1 .. Len(r), NEW k \in 1 .. Len(r), r[j] = r[k]
               PROVE  j = k
    BY DEF Distinct
  <2>1. up(j) = up(k)
    BY <1>5 DEF Distinct
  <2>2. QED
    BY <1>1, <1>4, <2>1
<1>8. ToSet(r) \subseteq ToSet(q) \ {q[i]}
  <2> SUFFICES ASSUME NEW x \in ToSet(r) PROVE x \in ToSet(q) \ {q[i]}
    OBVIOUS
  <2>1. PICK j \in 1 .. Len(r) : r[j] = x
    BY <1>4, InToSet
  <2>2. up(j) \in 1 .. Len(q) /\ up(j) # i /\ q[up(j)] = x
    BY <1>5, <2>1
  <2> HIDE DEF up
  <2>3. QED
    BY <2>2, InToSet DEF Distinct
<1>9. ToSet(q) \ {q[i]} \subseteq ToSet(r)
  <2> SUFFICES ASSUME NEW x \in ToSet(q) \ {q[i]} PROVE x \in ToSet(r)
    OBVIOUS
  <2>1. PICK k \in 1 .. Len(q) : q[k] = x
    BY InToSet
  <2>2. k # i
    BY <2>1
  <2>3. \E j \in 1 .. Len(r) : up(j) = k
    <3>1. CASE k < i
      <4>1. k \in 1 .. Len(r) /\ up(k) = k
        BY <1>1, <1>4, <3>1
      <4>2. QED
        BY <4>1
    <3>2. CASE k > i
      <4>1. k - 1 \in 1 .. Len(r) /\ up(k - 1) = k
        BY <1>1, <1>4, <3>2
      <4>2. QED
        BY <4>1
    <3>3. QED
      BY <1>1, <2>2, <3>1, <3>2
  <2>4. QED
    BY <1>4, <1>5, <2>1, <2>3, InToSet
<1>10. QED
  BY <1>4, <1>6, <1>7, <1>8, <1>9

(* A set of naturals has a least element: induction over positions.          *)
LEMMA LeastNatural ==
    ASSUME NEW S \in SUBSET Nat, S # {}
    PROVE  \E x \in S : \A y \in S : x <= y
<1> DEFINE R == {p \in Nat \X Nat : p[1] < p[2]}
<1>1. R = OpToRel(<, Nat)
  BY Zenon DEF OpToRel
<1>2. IsWellFoundedOn(R, Nat)
  BY <1>1, NatLessThanWellFounded, Zenon
<1>3. \A x, y \in Nat : y < x => <<y, x>> \in R
  <2> SUFFICES ASSUME NEW x \in Nat, NEW y \in Nat, y < x
               PROVE  <<y, x>> \in R
    OBVIOUS
  <2>1. <<y, x>> \in Nat \X Nat /\ <<y, x>>[1] < <<y, x>>[2]
    OBVIOUS
  <2>2. QED
    BY <2>1, Zenon
<1> HIDE DEF R
<1>4. PICK x \in S : \A y \in S : ~(<<y, x>> \in R)
  BY <1>2, WFMin
<1>5. \A y \in S : ~(y < x)
  BY <1>3, <1>4
<1>6. QED
  BY <1>4, <1>5

(* The recursion of Only, and the positions it has gone through.             *)
OnlyStep(q, T, f, i) ==
    IF i = 0 THEN << >>
    ELSE IF q[i] \in T THEN Append(f[i - 1], q[i]) ELSE f[i - 1]
OnlyUpTo(q, T, f, n) ==
    /\ f = [i \in 0 .. n |-> f[i]]
    /\ \A i \in 0 .. n : f[i] = OnlyStep(q, T, f, i)

(* There is such a function, for as many positions as the sequence has.      *)
LEMMA OnlyExists ==
    ASSUME NEW q, NEW T, NEW n \in Nat
    PROVE  \E f : OnlyUpTo(q, T, f, n)
<1> DEFINE Bad == {k \in Nat : ~ \E f : OnlyUpTo(q, T, f, k)}
<1> SUFFICES ASSUME Bad # {} PROVE FALSE
  OBVIOUS
<1>1. PICK k \in Bad : \A j \in Bad : k <= j
  BY LeastNatural
<1>2. CASE k = 0
  <2> DEFINE f == [i \in 0 .. 0 |-> << >>]
  <2>1. OnlyUpTo(q, T, f, 0)
    BY DEF OnlyUpTo, OnlyStep
  <2>2. QED
    BY <1>1, <1>2, <2>1
<1>3. CASE k # 0
  <2>1. k \in Nat /\ k - 1 \in Nat /\ k - 1 \notin Bad
    BY <1>1, <1>3
  <2>2. PICK f : OnlyUpTo(q, T, f, k - 1)
    BY <2>1
  <2> DEFINE last == IF q[k] \in T THEN Append(f[k - 1], q[k]) ELSE f[k - 1]
             g == [i \in 0 .. k |-> IF i = k THEN last ELSE f[i]]
  <2>3. g = [i \in 0 .. k |-> g[i]] /\ g[k] = last
    BY <2>1
  <2>4. \A i \in 0 .. k - 1 : g[i] = f[i]
    BY <2>1
  <2> HIDE DEF g
  <2>5. ASSUME NEW i \in 0 .. k PROVE g[i] = OnlyStep(q, T, g, i)
    <3>1. CASE i = k
      <4>1. g[k - 1] = f[k - 1]
        BY <2>1, <2>4
      <4>2. QED
        BY <1>3, <2>3, <3>1, <4>1 DEF OnlyStep
    <3>2. CASE i # k /\ i = 0
      <4>1. 0 \in 0 .. k - 1
        BY <2>1
      <4>2. g[0] = f[0] /\ f[0] = << >>
        BY <2>2, <2>4, <4>1 DEF OnlyStep, OnlyUpTo
      <4>3. QED
        BY <3>2, <4>2 DEF OnlyStep
    <3>3. CASE i # k /\ i # 0
      <4>1. i \in 0 .. k - 1 /\ i - 1 \in 0 .. k - 1
        BY <2>1, <3>3
      <4>2. f[i] = OnlyStep(q, T, f, i) /\ g[i] = f[i] /\ g[i - 1] = f[i - 1]
        BY <2>2, <2>4, <4>1 DEF OnlyUpTo
      <4>3. QED
        BY <3>3, <4>2 DEF OnlyStep
    <3>4. QED
      BY <3>1, <3>2, <3>3
  <2>6. OnlyUpTo(q, T, g, k)
    BY <2>3, <2>5 DEF OnlyUpTo
  <2>7. QED
    BY <1>1, <2>6
<1>4. QED
  BY <1>2, <1>3

(* Only is one of them at the last position.                                 *)
LEMMA OnlyIsRecursive ==
    ASSUME NEW S, NEW q \in Seq(S), NEW T
    PROVE  \E f : OnlyUpTo(q, T, f, Len(q)) /\ Only(q, T) = f[Len(q)]
<1> DEFINE only == CHOOSE f : f = [i \in 0 .. Len(q) |->
                       IF i = 0 THEN << >>
                       ELSE IF q[i] \in T THEN Append(f[i - 1], q[i])
                       ELSE f[i - 1]]
<1>1. Only(q, T) = only[Len(q)]
  BY DEF Only
<1>2. PICK f : OnlyUpTo(q, T, f, Len(q))
  <2>1. Len(q) \in Nat
    OBVIOUS
  <2>2. QED
    BY <2>1, OnlyExists
<1>3. f = [i \in 0 .. Len(q) |->
              IF i = 0 THEN << >>
              ELSE IF q[i] \in T THEN Append(f[i - 1], q[i]) ELSE f[i - 1]]
  BY <1>2 DEF OnlyUpTo, OnlyStep
<1>4. only = [i \in 0 .. Len(q) |->
                 IF i = 0 THEN << >>
                 ELSE IF q[i] \in T THEN Append(only[i - 1], q[i])
                 ELSE only[i - 1]]
  BY <1>3
<1> HIDE DEF only
<1>5. OnlyUpTo(q, T, only, Len(q))
  BY <1>4 DEF OnlyUpTo, OnlyStep
<1>6. QED
  BY <1>1, <1>5

(* What Only computes: a sequence of the elements of q that are in T.        *)
LEMMA OnlyElements ==
    ASSUME NEW S, NEW q \in Seq(S), NEW T
    PROVE  /\ Only(q, T) \in Seq(S)
           /\ ToSet(Only(q, T)) = ToSet(q) \cap T
<1> DEFINE N == Len(q)
           Seen(i) == {q[j] : j \in 1 .. i} \cap T
<1>1. N \in Nat /\ \A j \in 1 .. N : q[j] \in S
  OBVIOUS
<1>2. PICK f : OnlyUpTo(q, T, f, N) /\ Only(q, T) = f[N]
  BY OnlyIsRecursive
<1> DEFINE Good(i) == f[i] \in Seq(S) /\ ToSet(f[i]) = Seen(i)
           Bad == {i \in 0 .. N : ~Good(i)}
<1>3. Bad = {}
  <2> SUFFICES ASSUME Bad # {} PROVE FALSE
    OBVIOUS
  <2>0. Bad \in SUBSET Nat
    <3> HIDE DEF Good
    <3>1. QED
      BY <1>1
  <2>1. PICK k \in Bad : \A j \in Bad : k <= j
    <3> HIDE DEF Bad
    <3>1. QED
      BY <2>0, LeastNatural
  <2>2. CASE k = 0
    <3>1. f[0] = << >>
      BY <1>1, <1>2 DEF OnlyUpTo, OnlyStep
    <3>2. Good(0)
      BY <3>1, ToSetShort
    <3>3. QED
      BY <2>1, <2>2, <3>2
  <2>3. CASE k # 0
    <3>1. k \in 1 .. N /\ k - 1 \in 0 .. N /\ k - 1 \notin Bad
      <4> HIDE DEF Good
      <4>1. k \in 0 .. N
        BY <2>1
      <4>2. k \in 1 .. N /\ k - 1 \in 0 .. N /\ ~(k <= k - 1)
        BY <1>1, <2>3, <4>1
      <4>3. QED
        BY <2>1, <4>2
    <3>2. Good(k - 1)
      BY <3>1
    <3>3. f[k] = IF q[k] \in T THEN Append(f[k - 1], q[k]) ELSE f[k - 1]
      BY <1>2, <2>3, <3>1 DEF OnlyUpTo, OnlyStep
    <3>4. 1 .. k = (1 .. k - 1) \cup {k}
      BY <3>1
    <3>5. {q[j] : j \in 1 .. k} = {q[j] : j \in 1 .. k - 1} \cup {q[k]}
      BY <3>4
    <3>6. CASE q[k] \in T
      <4>1. Seen(k) = Seen(k - 1) \cup {q[k]}
        BY <3>5, <3>6
      <4>2. Good(k)
        BY <1>1, <3>1, <3>2, <3>3, <3>6, <4>1, ToSetAppend
      <4>3. QED
        BY <2>1, <4>2
    <3>7. CASE q[k] \notin T
      <4>1. Seen(k) = Seen(k - 1)
        BY <3>5, <3>7
      <4>2. Good(k)
        BY <3>2, <3>3, <3>7, <4>1
      <4>3. QED
        BY <2>1, <4>2
    <3>8. QED
      BY <3>6, <3>7
  <2>4. QED
    BY <2>2, <2>3
<1>4. f[N] \in Seq(S) /\ ToSet(f[N]) = {q[j] : j \in 1 .. N} \cap T
  <2>1. Good(N)
    <3> HIDE DEF Good
    <3>1. N \in 0 .. N
      BY <1>1
    <3>2. QED
      BY <1>3, <3>1
  <2>2. QED
    BY <2>1
<1>5. ToSet(q) = {q[j] : j \in 1 .. N}
  <2>1. DOMAIN q = 1 .. N
    OBVIOUS
  <2>2. QED
    BY <2>1 DEF ToSet
<1>6. QED
  <2> HIDE DEF N, Good, Bad, Seen
  <2>1. QED
    BY <1>2, <1>4, <1>5
-----------------------------------------------------------------------------
(* The operators of the model.                                               *)

HoldIds == Ids \ {NoHold}

(* The holds of the latest frame and of the client thread, as sets.          *)
LatestHeld == IF latest.hold # NoHold /\ ~latest.taken THEN {latest.hold} ELSE {}
HandHeld == IF th.hold # NoHold THEN {th.hold} ELSE {}

LEMMA HolderSets ==
    /\ ToSet(LatestHold) = LatestHeld /\ ToSet(LatestHold)' = LatestHeld'
    /\ ToSet(InHand) = HandHeld /\ ToSet(InHand)' = HandHeld'
    /\ Holders = LatestHeld \cup HandHeld \cup ToSet(heldDmabufs)
    /\ Holders' = LatestHeld' \cup HandHeld' \cup ToSet(heldDmabufs')
<1>1. ToSet(LatestHold) = LatestHeld /\ ToSet(LatestHold)' = LatestHeld'
  BY ToSetShort DEF LatestHold, LatestHeld
<1>2. ToSet(InHand) = HandHeld /\ ToSet(InHand)' = HandHeld'
  BY ToSetShort DEF InHand, HandHeld
<1>3. QED
  BY <1>1, <1>2 DEF Holders

(* They are sequences of frame ids.                                          *)
LEMMA HolderSeqs ==
    ASSUME TypeOK
    PROVE  /\ LatestHold \in Seq(HoldIds)
           /\ InHand \in Seq(HoldIds)
           /\ heldDmabufs \in Seq(HoldIds)
<1>1. /\ latest.hold # NoHold => latest.hold \in HoldIds
      /\ th.hold # NoHold => th.hold \in HoldIds
  BY DEF TypeOK, HoldIds
<1>2. << >> \in Seq(HoldIds) /\ \A e \in HoldIds : <<e>> \in Seq(HoldIds)
  OBVIOUS
<1>3. heldDmabufs \in Seq(HoldIds)
  BY DEF TypeOK, HoldIds
<1>4. QED
  BY <1>1, <1>2, <1>3 DEF LatestHold, InHand

(* Release queues the ids, and remembers them.                               *)
LEMMA ReleaseQueues ==
    ASSUME TypeOK, NEW q \in Seq(HoldIds), Release(q)
    PROVE  /\ relQ' \in Seq(HoldIds)
           /\ ToSet(relQ') = ToSet(relQ) \cup ToSet(q)
           /\ released' = released \cup ToSet(q)
<1>1. relQ \in Seq(HoldIds)
  BY DEF TypeOK, HoldIds
<1>2. QED
  BY <1>1, ToSetConcat DEF Release

(* What the end of a session releases.                                       *)
LEMMA EndClientReleases ==
    ASSUME TypeOK, NEW q \in Seq(HoldIds), EndClient(q)
    PROVE  /\ relQ' \in Seq(HoldIds)
           /\ ToSet(relQ') = ToSet(relQ) \cup ToSet(q) \cup ToSet(heldDmabufs)
                             \cup LatestHeld
           /\ released' = released \cup ToSet(q) \cup ToSet(heldDmabufs)
                          \cup LatestHeld
           /\ heldDmabufs' = << >> /\ LatestHeld' = {} /\ HandHeld' = {}
<1>1. /\ LatestHold \in Seq(HoldIds) /\ heldDmabufs \in Seq(HoldIds)
  BY HolderSeqs
<1> DEFINE p == q \o heldDmabufs
           r == p \o LatestHold
<1>2. p \in Seq(HoldIds) /\ ToSet(p) = ToSet(q) \cup ToSet(heldDmabufs)
  BY <1>1, ToSetConcat
<1> HIDE DEF p
<1>3. /\ r \in Seq(HoldIds)
      /\ ToSet(r) = ToSet(q) \cup ToSet(heldDmabufs) \cup ToSet(LatestHold)
  BY <1>1, <1>2, ToSetConcat
<1>4. Release(r)
  BY Zenon DEF EndClient, p
<1> HIDE DEF r
<1>5. /\ relQ' \in Seq(HoldIds)
      /\ ToSet(relQ') = ToSet(relQ) \cup ToSet(r)
      /\ released' = released \cup ToSet(r)
  BY <1>3, <1>4, ReleaseQueues
<1>6. heldDmabufs' = << >> /\ LatestHeld' = {} /\ HandHeld' = {}
  BY DEF EndClient, LatestHeld, HandHeld, IdleThread, TypeOK, NoHold
<1>7. QED
  BY <1>3, <1>5, <1>6, HolderSets

(* The buffer recorded for a frame that is held.                             *)
LEMMA BufferOfHeld ==
    ASSUME TypeOK, HoldsOfFrames, NEW h \in ToSet(held)
    PROVE  BufferOf(h.id) = h.buf
<1>1. held \in Seq(Holding)
  BY DEF TypeOK
<1>2. PICK i \in 1 .. Len(held) : held[i] = h
  BY <1>1, InToSet
<1> DEFINE k == CHOOSE j \in 1 .. Len(held) : held[j].id = h.id
<1>3. k \in 1 .. Len(held) /\ held[k].id = h.id
  BY <1>2
<1>4. held[k] \in ToSet(held)
  BY <1>1, <1>3, InToSet
<1> HIDE DEF k
<1>5. held[k] = h
  BY <1>3, <1>4 DEF HoldsOfFrames
<1>6. BufferOf(h.id) = held[k].buf
  BY Zenon DEF BufferOf, k
<1>7. QED
  BY <1>5, <1>6

(* The holds that stay when a buffer is attached again or destroyed.         *)
LEMMA KeptHolds ==
    ASSUME TypeOK, NEW b
    PROVE  /\ KeptByAttach(b) \in Seq(Holding)
           /\ ToSet(KeptByAttach(b)) = {h \in ToSet(held) : h.buf # b}
<1>1. held \in Seq(Holding)
  BY DEF TypeOK
<1>2. QED
  BY <1>1, OnlyElements DEF KeptByAttach

(* The holds after HoldDmabufBuffer: the new one, and what is left of the    *)
(* others; the buffer of one that overflows is released.                     *)
LEMMA HoldsAfterAttach ==
    ASSUME HoldInv, HoldDmabufBuffer
    PROVE  /\ held' \in Seq(Holding) /\ rels' \in Seq(Buffers)
           /\ ToSet(held') \subseteq ToSet(held) \cup {hold}
           /\ hold \in ToSet(held')
           /\ ToSet(rels) \subseteq ToSet(rels')
           /\ \A h \in ToSet(held) \ ToSet(held') :
                 h.buf = hold.buf \/ h.buf \in ToSet(rels')
<1> USE DEF HoldInv
<1> DEFINE kept == KeptByAttach(hold.buf)
<1>1. /\ kept \in Seq(Holding)
      /\ ToSet(kept) = {h \in ToSet(held) : h.buf # hold.buf}
  BY KeptHolds
<1>2. hold \in Holding /\ rels \in Seq(Buffers)
  BY DEF TypeOK
<1>3. \/ held' = Append(kept, hold) /\ rels' = rels
      \/ /\ Len(kept) >= MaxHeld
         /\ held' = Append(Tail(kept), hold)
         /\ rels' = rels \o <<Head(kept).buf>>
  BY DEF HoldDmabufBuffer, OverflowRelease
<1> HIDE DEF kept
<1>4. CASE held' = Append(kept, hold) /\ rels' = rels
  <2>1. held' \in Seq(Holding) /\ ToSet(held') = ToSet(kept) \cup {hold}
    BY <1>1, <1>2, <1>4, ToSetAppend
  <2>2. QED
    BY <1>1, <1>2, <1>4, <2>1
<1>5. CASE /\ Len(kept) >= MaxHeld
           /\ held' = Append(Tail(kept), hold)
           /\ rels' = rels \o <<Head(kept).buf>>
  <2>1. kept # << >>
    BY <1>5, HoldBoundsAssumption
  <2>2. /\ Tail(kept) \in Seq(Holding)
        /\ ToSet(kept) = ToSet(Tail(kept)) \cup {Head(kept)}
    BY <1>1, <2>1, ToSetTail
  <2>3. Head(kept) \in ToSet(held) /\ Head(kept).buf \in Buffers
    BY <1>1, <2>2 DEF HoldsOfFrames
  <2> DEFINE oldest == <<Head(kept).buf>>
             rest == Tail(kept)
  <2>4. oldest \in Seq(Buffers) /\ ToSet(oldest) = {Head(kept).buf}
    BY <2>3, ToSetShort
  <2>5. /\ rels' = rels \o oldest /\ held' = Append(rest, hold)
        /\ rest \in Seq(Holding)
    BY <1>5, <2>2
  <2> HIDE DEF oldest, rest
  <2>6. /\ rels' \in Seq(Buffers) /\ ToSet(rels') = ToSet(rels) \cup ToSet(oldest)
        /\ held' \in Seq(Holding) /\ ToSet(held') = ToSet(rest) \cup {hold}
    BY <1>2, <2>4, <2>5, ToSetConcat, ToSetAppend
  <2>7. QED
    BY <1>1, <2>2, <2>3, <2>4, <2>6 DEF rest
<1>6. QED
  BY <1>3, <1>4, <1>5

(* The releases ReleasePendingFrames sends, and the holds it leaves.         *)
LEMMA PendingReleases ==
    ASSUME HoldInv, ReleasePendingFrames
    PROVE  /\ rels' \in Seq(Buffers)
           /\ held' \in Seq(Holding)
           /\ ToSet(held') = {h \in ToSet(held) : h.id \notin ToSet(relQ)}
           /\ ToSet(rels) \subseteq ToSet(rels')
           /\ \A h \in ToSet(held) \ ToSet(held') : h.buf \in ToSet(rels')
<1> USE DEF HoldInv
<1>1. held \in Seq(Holding) /\ relQ \in Seq(HoldIds) /\ rels \in Seq(Buffers)
  BY DEF TypeOK, HoldIds
<1> DEFINE now == Only(relQ, HeldIds)
           bufs == [i \in 1 .. Len(now) |-> BufferOf(now[i])]
<1>2. now \in Seq(HoldIds) /\ ToSet(now) = ToSet(relQ) \cap HeldIds
  BY <1>1, OnlyElements
<1>3. rels' = rels \o bufs
  BY DEF ReleasePendingFrames
<1> HIDE DEF now
<1>4. \A i \in 1 .. Len(now) : BufferOf(now[i]) \in Buffers
  <2> SUFFICES ASSUME NEW i \in 1 .. Len(now) PROVE BufferOf(now[i]) \in Buffers
    OBVIOUS
  <2>1. now[i] \in HeldIds
    BY <1>2, InToSet
  <2>2. PICK h \in ToSet(held) : h.id = now[i]
    BY <2>1 DEF HeldIds
  <2>3. QED
    BY <2>2, BufferOfHeld DEF HoldsOfFrames
<1>5. bufs \in Seq(Buffers) /\ Len(bufs) = Len(now)
  BY <1>2, <1>4
<1>6. rels' \in Seq(Buffers) /\ ToSet(rels') = ToSet(rels) \cup ToSet(bufs)
  BY <1>1, <1>3, <1>5, ToSetConcat
<1>7. /\ held' \in Seq(Holding)
      /\ ToSet(held') = {h \in ToSet(held) : h.id \notin ToSet(relQ)}
  BY <1>1, OnlyElements DEF ReleasePendingFrames
<1>8. ASSUME NEW h \in ToSet(held) \ ToSet(held')
      PROVE  h.buf \in ToSet(bufs)
  <2>1. h.id \in ToSet(now)
    BY <1>2, <1>7 DEF HeldIds
  <2>2. PICK i \in 1 .. Len(now) : now[i] = h.id
    BY <1>2, <2>1, InToSet
  <2>3. bufs[i] = h.buf
    BY <2>2, BufferOfHeld
  <2>4. QED
    BY <1>5, <2>2, <2>3, InToSet
<1>9. QED
  BY <1>6, <1>7, <1>8
-----------------------------------------------------------------------------
(* Every step keeps the types, and the room for frames.                      *)

ToServerMessages == [magic : {"IKAH"}, stamps : BOOLEAN]
                    \cup [magic : {"IKAP"}, hidden : BOOLEAN]
                    \cup [magic : {"IKAB"}, id : HoldIds]

(* What giving a frame back sends.                                           *)
LEMMA GivesMessages ==
    ASSUME TypeOK, NEW f \in Frames
    PROVE  toServer \o Gives(f) \in Seq(ToServerMessages)
<1>1. toServer \in Seq(ToServerMessages)
  BY DEF TypeOK, ToServerMessages, HoldIds
<1>2. f.hold # NoHold => [magic |-> "IKAB", id |-> f.hold] \in ToServerMessages
  BY DEF Frames, ToServerMessages, HoldIds
<1>3. /\ << >> \in Seq(ToServerMessages)
      /\ \A m \in ToServerMessages : <<m>> \in Seq(ToServerMessages)
  OBVIOUS
<1>4. Gives(f) \in Seq(ToServerMessages)
  BY <1>2, <1>3 DEF Gives
<1>5. QED
  BY <1>1, <1>4, ConcatAt

(* The steps of crosvm and of the Wayland server thread.                     *)
LEMMA WaylandTypes ==
    ASSUME HoldInv, Crosvm \/ WaylandThread
    PROVE  TypeOK' /\ FrameRoom'
<1> USE DEF HoldInv
<1>0. /\ commits \in Seq(Buffers) /\ rels \in Seq(Buffers)
      /\ held \in Seq(Holding) /\ relQ \in Seq(HoldIds)
      /\ Len(commits) \in Nat /\ nextId \in Nat /\ MaxFrames \in Nat
  BY HoldBoundsAssumption DEF TypeOK, HoldIds
<1>1. ASSUME NEW b \in Buffers, Flush(b)
      PROVE  TypeOK' /\ FrameRoom'
  <2>1. commits' \in Seq(Buffers) /\ Len(commits') = Len(commits) + 1
    BY <1>0, <1>1, ToSetAppend DEF Flush
  <2>2. FrameRoom'
    BY <1>0, <1>1, <2>1 DEF Flush, FrameRoom
  <2>3. QED
    BY <1>1, <2>1, <2>2 DEF Flush, TypeOK, display, session, link, console
<1>2. CASE DispatchRelease
  <2>1. rels' \in Seq(Buffers)
    BY <1>0, <1>2, ToSetTail DEF DispatchRelease
  <2>2. QED
    BY <1>2, <2>1
    DEF DispatchRelease, TypeOK, FrameRoom, display, session, link, console
<1>3. CASE CommitDmabuf
  <2> DEFINE b == Head(commits)
  <2>1. /\ b \in Buffers /\ commits' \in Seq(Buffers)
        /\ Len(commits') = Len(commits) - 1
    BY <1>0, <1>3, ToSetTail DEF CommitDmabuf
  <2>2. nextId \in 1 .. MaxFrames /\ Len(commits) # 0
    BY <1>0, <1>3 DEF CommitDmabuf, TypeOK, FrameRoom
  <2>3. nextId' \in 1 .. MaxFrames + 1 /\ FrameRoom'
    BY <1>0, <1>3, <2>1, <2>2 DEF CommitDmabuf, FrameRoom
  <2>4. nextId \in HoldIds /\ NoHold \in Ids /\ HoldIds \subseteq Ids
    BY <1>0, <2>2 DEF HoldIds, Ids, NoHold
  <2>5. /\ relQ' \in Seq(HoldIds) /\ released' = released \cup ToSet(LatestHold)
    BY <1>3, HolderSeqs, ReleaseQueues DEF CommitDmabuf
  <2>6. released' \subseteq given
    BY <2>5 DEF HoldsAccounted, Holders, TypeOK
  <2>7. rels' \in Seq(Buffers)
    <3>1. rels' = rels \/ rels' = Append(rels, b)
      BY <1>3 DEF CommitDmabuf
    <3>2. Append(rels, b) \in Seq(Buffers)
      <4> HIDE DEF b
      <4>1. QED
        BY <1>0, <2>1, ToSetAppend
    <3>3. QED
      BY <1>0, <3>1, <3>2
  <2>8. given \subseteq given' /\ given' \subseteq Ids
    BY <1>3, <2>4 DEF CommitDmabuf, TypeOK
  <2>9. hold' \in Holding
    BY <1>3, <2>1, <2>4 DEF CommitDmabuf, TypeOK, Holding
  <2>10. latest' \in [type : {"none", "raw", "dmabuf"}, hold : Ids,
                      taken : BOOLEAN, buf : Buffers \cup {NoBuffer}]
    BY <1>3, <2>1, <2>4 DEF CommitDmabuf
  <2>11. QED
    BY <1>3, <2>1, <2>3, <2>5, <2>6, <2>7, <2>8, <2>9, <2>10
    DEF CommitDmabuf, TypeOK, HoldIds, guest, session, link, console
<1>4. CASE HoldDmabufBuffer
  <2>1. held' \in Seq(Holding) /\ rels' \in Seq(Buffers)
    BY <1>4, HoldsAfterAttach
  <2>2. IdleHold \in Holding
    BY <1>0 DEF IdleHold, Holding, NoHold, Ids
  <2>3. QED
    BY <1>4, <2>1, <2>2
    DEF HoldDmabufBuffer, TypeOK, FrameRoom, guest, display, session, link,
        console
<1>5. CASE ReleasePendingFrames
  <2>1. relQ' \in Seq(HoldIds)
    BY <1>5 DEF ReleasePendingFrames
  <2>2. QED
    BY <1>5, <2>1, PendingReleases
    DEF ReleasePendingFrames, TypeOK, HoldIds, FrameRoom, guest, display,
        session, link, console
<1>6. CASE CommitRaw
  <2>1. raws' \in 0 .. MaxRaw
    <3>1. /\ raws \in 0 .. MaxRaw /\ MaxRaw \in Nat
          /\ raws < MaxRaw /\ raws' = raws + 1
      BY <1>6, HoldBoundsAssumption, Zenon DEF CommitRaw, TypeOK
    <3>2. QED
      BY <3>1
  <2>2. NoLatest \in [type : {"none", "raw", "dmabuf"}, hold : Ids,
                      taken : BOOLEAN, buf : Buffers \cup {NoBuffer}]
    BY <1>0 DEF NoLatest, NoHold, Ids
  <2>3. latest' \in [type : {"none", "raw", "dmabuf"}, hold : Ids,
                     taken : BOOLEAN, buf : Buffers \cup {NoBuffer}]
    BY <1>6, <2>2 DEF CommitRaw, TypeOK
  <2>4. relQ' \in Seq(HoldIds) /\ released' \subseteq given
    <3>1. CASE suppress
      BY <1>0, <1>6, <3>1 DEF CommitRaw, TypeOK
    <3>2. CASE ~suppress
      <4>1. /\ relQ' \in Seq(HoldIds)
            /\ released' = released \cup ToSet(LatestHold)
        BY <1>6, <3>2, HolderSeqs, ReleaseQueues DEF CommitRaw
      <4>2. QED
        BY <4>1 DEF HoldsAccounted, Holders, TypeOK
    <3>3. QED
      BY <3>1, <3>2
  <2>5. fresh' \in BOOLEAN /\ suppress' \in BOOLEAN
    BY <1>6 DEF CommitRaw, TypeOK
  <2>6. QED
    BY <1>6, <2>1, <2>3, <2>4, <2>5
    DEF CommitRaw, TypeOK, HoldIds, FrameRoom, guest, wayland, session, link,
        console
<1>7. CASE DestroySurface
  <2> DEFINE bufs == [i \in 1 .. Len(held) |-> held[i].buf]
  <2>1. \A i \in 1 .. Len(held) : held[i].buf \in Buffers
    BY <1>0, InToSet DEF HoldsOfFrames
  <2>2. bufs \in Seq(Buffers)
    BY <1>0, <2>1
  <2>3. rels' \in Seq(Buffers)
    BY <1>0, <1>7, <2>2, ConcatAt DEF DestroySurface
  <2>4. held' \in Seq(Holding)
    BY <1>7 DEF DestroySurface
  <2>5. QED
    BY <1>7, <2>3, <2>4
    DEF DestroySurface, TypeOK, FrameRoom, display, session, link, console
<1>8. ASSUME NEW b \in Buffers, DestroyBuffer(b)
      PROVE  TypeOK' /\ FrameRoom'
  <2>1. held' \in Seq(Holding)
    BY <1>8, KeptHolds DEF DestroyBuffer
  <2>2. rels' \in Seq(Buffers)
    BY <1>0, <1>8, OnlyElements DEF DestroyBuffer
  <2>3. QED
    BY <1>8, <2>1, <2>2
    DEF DestroyBuffer, TypeOK, FrameRoom, display, session, link, console
<1>9. QED
  BY <1>1, <1>2, <1>3, <1>4, <1>5, <1>6, <1>7, <1>8 DEF Crosvm, WaylandThread

(* The steps of the client thread.                                           *)
LEMMA ClientThreadTypes ==
    ASSUME HoldInv, ClientThread
    PROVE  TypeOK' /\ FrameRoom'
<1> USE DEF HoldInv
<1>0. /\ toServer \in Seq(ToServerMessages) /\ relQ \in Seq(HoldIds)
      /\ heldDmabufs \in Seq(HoldIds) /\ toClient \in Seq(Frames)
      /\ NoHold \in Ids
  BY HoldBoundsAssumption DEF TypeOK, ToServerMessages, HoldIds, NoHold, Ids
<1>1. CASE ReadClientMessage
  <2> DEFINE m == Head(toServer)
  <2>1. m \in ToServerMessages /\ toServer' \in Seq(ToServerMessages)
    BY <1>0, <1>1, ToSetTail DEF ReadClientMessage
  <2>0. UNCHANGED <<guest, wayland, display, th, link, toClient, console, given,
                    lost>>
    BY <1>1 DEF ReadClientMessage
  <2>2. CASE m.magic = "IKAH"
    <3>1. m.stamps \in BOOLEAN
      BY <2>1, <2>2 DEF ToServerMessages
    <3>2. /\ shm' = [shm EXCEPT !.releases = TRUE, !.stamps = m.stamps]
          /\ UNCHANGED <<heldDmabufs, relQ, released>>
      BY <1>1, <2>2 DEF ReadClientMessage
    <3>3. shm' \in [releases : BOOLEAN, paused : BOOLEAN, stamps : BOOLEAN]
      <4> HIDE DEF m
      <4>1. QED
        BY <3>1, <3>2 DEF TypeOK
    <3>4. QED
      BY <2>0, <2>1, <3>2, <3>3
      DEF TypeOK, FrameRoom, ToServerMessages, HoldIds, guest, wayland, display,
          link, console
  <2>3. CASE m.magic = "IKAP"
    <3>1. m.hidden \in BOOLEAN
      BY <2>1, <2>3 DEF ToServerMessages
    <3>2. /\ shm' = [shm EXCEPT !.paused = m.hidden]
          /\ UNCHANGED <<heldDmabufs, relQ, released>>
      BY <1>1, <2>3 DEF ReadClientMessage
    <3>3. shm' \in [releases : BOOLEAN, paused : BOOLEAN, stamps : BOOLEAN]
      <4> HIDE DEF m
      <4>1. QED
        BY <3>1, <3>2 DEF TypeOK
    <3>4. QED
      BY <2>0, <2>1, <3>2, <3>3
      DEF TypeOK, FrameRoom, ToServerMessages, HoldIds, guest, wayland, display,
          link, console
  <2>4. CASE m.magic = "IKAB" /\ m.id \in ToSet(heldDmabufs)
    <3>1. PICK i \in 1 .. Len(heldDmabufs) :
             heldDmabufs[i] = m.id /\ heldDmabufs' = RemoveAt(heldDmabufs, i)
      BY <1>0, <1>1, <2>4, InToSet DEF ReadClientMessage
    <3>2. Release(<<m.id>>) /\ UNCHANGED shm
      BY <1>1, <2>4 DEF ReadClientMessage
    <3>3. heldDmabufs' \in Seq(HoldIds)
      BY <1>0, <3>1, ToSetRemoveAt DEF HoldersApart
    <3>4. <<m.id>> \in Seq(HoldIds) /\ ToSet(<<m.id>>) = {m.id}
      BY <1>0, <2>4, InToSet, ToSetShort
    <3>5. relQ' \in Seq(HoldIds) /\ released' = released \cup {m.id}
      BY <3>2, <3>4, ReleaseQueues
    <3>6. released' \subseteq given
      BY <2>4, <3>5 DEF HoldsAccounted, Holders, TypeOK
    <3>7. QED
      BY <2>0, <2>1, <3>2, <3>3, <3>5, <3>6
      DEF TypeOK, FrameRoom, ToServerMessages, HoldIds,
          guest, wayland, display, link, console
  <2>5. CASE m.magic = "IKAB" /\ m.id \notin ToSet(heldDmabufs)
    <3>1. UNCHANGED <<shm, heldDmabufs, relQ, released>>
      BY <1>0, <1>1, <2>5, InToSet DEF ReadClientMessage
    <3>2. QED
      BY <2>0, <2>1, <3>1
      DEF TypeOK, FrameRoom, ToServerMessages, HoldIds,
          guest, wayland, display, link, console
  <2>6. m.magic \in {"IKAH", "IKAP", "IKAB"}
    BY <2>1 DEF ToServerMessages
  <2>7. QED
    BY <2>2, <2>3, <2>4, <2>5, <2>6
<1>2. ASSUME NEW q \in Seq(HoldIds), EndClient(q), ToSet(q) \subseteq HandHeld,
             lost' \subseteq lost \cup HandHeld
      PROVE  TypeOK' /\ FrameRoom'
  <2>1. /\ relQ' \in Seq(HoldIds)
        /\ released' = released \cup ToSet(q) \cup ToSet(heldDmabufs)
                       \cup LatestHeld
        /\ heldDmabufs' = << >>
    BY <1>2, EndClientReleases
  <2>2. released' \subseteq given /\ lost' \subseteq given
    BY <1>2, <2>1, HolderSets DEF HoldsAccounted, TypeOK
  <2>3. /\ th' \in [pc : {"none", "hello", "loop", "stamp", "send"}, hold : Ids,
                     type : {"none", "raw", "dmabuf"},
                     buf : Buffers \cup {NoBuffer}]
        /\ conn' \in {"none", "open", "left", "ended"}
        /\ toServer' \in Seq(ToServerMessages)
        /\ heldDmabufs' \in Seq(HoldIds)
    BY <1>0, <1>2, <2>1 DEF EndClient, IdleThread
  <2>4. latest' \in [type : {"none", "raw", "dmabuf"}, hold : Ids,
                     taken : BOOLEAN, buf : Buffers \cup {NoBuffer}]
    BY <1>0, <1>2 DEF EndClient, TypeOK
  <2>5. QED
    BY <1>2, <2>1, <2>2, <2>3, <2>4
    DEF EndClient, TypeOK, FrameRoom, ToServerMessages, HoldIds, guest, wayland,
        console
<1>3. CASE ReadEof
  <2>1. << >> \in Seq(HoldIds) /\ ToSet(<< >>) \subseteq HandHeld
    BY ToSetShort
  <2>2. QED
    BY <1>2, <1>3, <2>1 DEF ReadEof
<1>4. CASE SendTimestampsFails
  <2>1. << >> \in Seq(HoldIds) /\ ToSet(<< >>) \subseteq HandHeld
    BY ToSetShort
  <2>2. QED
    BY <1>2, <1>4, <2>1, HolderSets DEF SendTimestampsFails
<1>5. CASE SendFrameFails
  <2>1. InHand \in Seq(HoldIds) /\ ToSet(InHand) = HandHeld
    BY HolderSeqs, HolderSets
  <2>2. QED
    BY <1>2, <1>5, <2>1 DEF SendFrameFails, HandOnFailure
<1>6. CASE HelloEof
  BY <1>0, <1>6
  DEF HelloEof, IdleThread, TypeOK, FrameRoom, guest, wayland, display, console
<1>7. CASE BindClient
  <2>1. th' \in [pc : {"none", "hello", "loop", "stamp", "send"}, hold : Ids,
                 type : {"none", "raw", "dmabuf"}, buf : Buffers \cup {NoBuffer}]
    BY <1>7 DEF BindClient, TypeOK
  <2>2. fresh' \in BOOLEAN
    BY <1>7 DEF BindClient
  <2>3. QED
    BY <1>7, <2>1, <2>2
    DEF BindClient, TypeOK, FrameRoom, guest, wayland, link, console
<1>8. CASE TakeLatestFrame
  <2>1. th' \in [pc : {"none", "hello", "loop", "stamp", "send"}, hold : Ids,
                 type : {"none", "raw", "dmabuf"}, buf : Buffers \cup {NoBuffer}]
    BY <1>0, <1>8 DEF TakeLatestFrame, TypeOK
  <2>2. latest' \in [type : {"none", "raw", "dmabuf"}, hold : Ids,
                     taken : BOOLEAN, buf : Buffers \cup {NoBuffer}]
    BY <1>8 DEF TakeLatestFrame, TakenByCopy, TypeOK
  <2>3. QED
    BY <1>8, <2>1, <2>2
    DEF TakeLatestFrame, TypeOK, FrameRoom, guest, wayland, link, console
<1>9. CASE SendTimestamps
  <2>1. th' \in [pc : {"none", "hello", "loop", "stamp", "send"}, hold : Ids,
                 type : {"none", "raw", "dmabuf"}, buf : Buffers \cup {NoBuffer}]
    BY <1>9 DEF SendTimestamps, TypeOK
  <2>2. QED
    BY <1>9, <2>1
    DEF SendTimestamps, TypeOK, FrameRoom, guest, wayland, display, link, console
<1>10. CASE SendFrame
  <2>1. [type |-> th.type, buf |-> th.buf, hold |-> th.hold, ses |-> ses]
            \in Frames
    BY DEF TypeOK, Frames
  <2>2. toClient' \in Seq(Frames)
    BY <1>0, <1>10, <2>1, ToSetAppend DEF SendFrame
  <2>3. heldDmabufs' \in Seq(HoldIds)
    BY <1>10, HolderSeqs, ConcatAt DEF SendFrame, HeldAfterSend
  <2>4. th' \in [pc : {"none", "hello", "loop", "stamp", "send"}, hold : Ids,
                 type : {"none", "raw", "dmabuf"}, buf : Buffers \cup {NoBuffer}]
    BY <1>0, <1>10 DEF SendFrame, IdleThread
  <2>5. QED
    BY <1>10, <2>2, <2>3, <2>4
    DEF SendFrame, TypeOK, FrameRoom, HoldIds, guest, wayland, display, link,
        console
<1>11. QED
  BY <1>1, <1>3, <1>4, <1>5, <1>6, <1>7, <1>8, <1>9, <1>10 DEF ClientThread

(* The steps of the console.                                                 *)
LEMMA ConsoleTypes ==
    ASSUME HoldInv, Console
    PROVE  TypeOK' /\ FrameRoom'
<1> USE DEF HoldInv
<1>0. /\ toServer \in Seq(ToServerMessages) /\ toClient \in Seq(Frames)
      /\ cl \in [pending : Frames, screen : Frames, hidden : BOOLEAN]
      /\ NoFrame \in Frames /\ ses \in 0 .. MaxSessions
  BY HoldBoundsAssumption
  DEF TypeOK, ToServerMessages, HoldIds, NoFrame, Frames, NoHold, Ids
<1>1. ASSUME NEW stamps \in BOOLEAN, Connect(stamps)
      PROVE  TypeOK' /\ FrameRoom'
  <2> DEFINE hello == [magic |-> "IKAH", stamps |-> stamps]
             pause == [magic |-> "IKAP", hidden |-> TRUE]
  <2>1. hello \in ToServerMessages /\ pause \in ToServerMessages
    BY DEF ToServerMessages
  <2>2. \/ toServer' = <<hello>> \o <<pause>>
        \/ toServer' = <<hello>> \o << >>
    BY <1>1 DEF Connect
  <2> HIDE DEF hello, pause
  <2>3. toServer' \in Seq(ToServerMessages)
    <3>1. /\ <<hello>> \in Seq(ToServerMessages)
          /\ <<pause>> \in Seq(ToServerMessages)
          /\ << >> \in Seq(ToServerMessages)
      BY <2>1
    <3>2. QED
      BY <2>2, <3>1, ConcatAt
  <2>4. ses' \in 0 .. MaxSessions
    <3>1. ses < MaxSessions /\ ses' = ses + 1 /\ MaxSessions \in Nat
      BY <1>1, HoldBoundsAssumption, Zenon DEF Connect
    <3>2. QED
      BY <1>0, <3>1
  <2>5. NoHold \in Ids
    BY HoldBoundsAssumption DEF NoHold, Ids
  <2>6. th' \in [pc : {"none", "hello", "loop", "stamp", "send"}, hold : Ids,
                 type : {"none", "raw", "dmabuf"}, buf : Buffers \cup {NoBuffer}]
    BY <1>1, <2>5 DEF Connect, IdleThread
  <2>7. /\ shm' \in [releases : BOOLEAN, paused : BOOLEAN, stamps : BOOLEAN]
        /\ conn' \in {"none", "open", "left", "ended"}
        /\ toClient' \in Seq(Frames)
    BY <1>1 DEF Connect, EmptyShm
  <2>8. QED
    BY <1>1, <2>3, <2>4, <2>6, <2>7
    DEF Connect, TypeOK, FrameRoom, ToServerMessages, HoldIds, guest, wayland,
        display, console
<1>2. CASE ProcessFrame
  <2>1. Head(toClient) \in Frames /\ toClient' \in Seq(Frames)
    BY <1>0, <1>2, ToSetTail DEF ProcessFrame
  <2>2. toServer' \in Seq(ToServerMessages)
    BY <1>0, <1>2, GivesMessages DEF ProcessFrame
  <2>3. cl' \in [pending : Frames, screen : Frames, hidden : BOOLEAN]
    BY <1>0, <1>2, <2>1 DEF ProcessFrame
  <2>4. QED
    BY <1>2, <2>1, <2>2, <2>3
    DEF ProcessFrame, TypeOK, FrameRoom, ToServerMessages, HoldIds, guest,
        wayland, display, session, link
<1>3. CASE SkipFrame
  <2>1. Head(toClient) \in Frames /\ toClient' \in Seq(Frames)
    BY <1>0, <1>3, ToSetTail DEF SkipFrame
  <2>2. toServer' \in Seq(ToServerMessages)
    BY <1>3, <2>1, GivesMessages DEF SkipFrame
  <2>3. QED
    BY <1>3, <2>1, <2>2
    DEF SkipFrame, TypeOK, FrameRoom, ToServerMessages, HoldIds, guest, wayland,
        display, session, link, console
<1>4. CASE ClientEof
  BY <1>4 DEF ClientEof, TypeOK, FrameRoom, guest, wayland, display, session,
              console
<1>5. CASE ClientLeaves
  <2>1. cl' \in [pending : Frames, screen : Frames, hidden : BOOLEAN]
    BY <1>0, <1>5 DEF ClientLeaves
  <2>2. toClient' \in Seq(Frames) /\ conn' \in {"none", "open", "left", "ended"}
    BY <1>5 DEF ClientLeaves
  <2>3. QED
    BY <1>5, <2>1, <2>2 DEF ClientLeaves, TypeOK, FrameRoom, guest, wayland,
                            display, session
<1>6. CASE UpdateFrame
  <2>1. toServer' \in Seq(ToServerMessages)
    BY <1>0, <1>6, GivesMessages DEF UpdateFrame
  <2>2. cl' \in [pending : Frames, screen : Frames, hidden : BOOLEAN]
    BY <1>0, <1>6 DEF UpdateFrame
  <2>3. QED
    BY <1>6, <2>1, <2>2
    DEF UpdateFrame, TypeOK, FrameRoom, ToServerMessages, HoldIds, guest,
        wayland, display, session, link
<1>7. CASE SetWindowHidden
  <2>1. [magic |-> "IKAP", hidden |-> ~cl.hidden] \in ToServerMessages
    BY <1>0 DEF ToServerMessages
  <2>2. toServer' \in Seq(ToServerMessages)
    BY <1>0, <1>7, <2>1, ToSetAppend DEF SetWindowHidden
  <2>3. cl' \in [pending : Frames, screen : Frames, hidden : BOOLEAN]
    BY <1>0, <1>7 DEF SetWindowHidden
  <2>4. toggles' \in 0 .. MaxToggles
    <3>1. /\ toggles \in 0 .. MaxToggles /\ MaxToggles \in Nat
          /\ toggles < MaxToggles /\ toggles' = toggles + 1
      BY <1>7, HoldBoundsAssumption, Zenon DEF SetWindowHidden, TypeOK
    <3>2. QED
      BY <3>1
  <2>5. QED
    BY <1>7, <2>2, <2>3, <2>4
    DEF SetWindowHidden, TypeOK, FrameRoom, ToServerMessages, HoldIds, guest,
        wayland, display, session, link
<1>8. QED
  BY <1>1, <1>2, <1>3, <1>4, <1>5, <1>6, <1>7 DEF Console
-----------------------------------------------------------------------------
(* What the steps of each thread leave alone.                                *)

(* The console has no say in what is held or released: it only asks.         *)
LEMMA ConsoleLeaves ==
    ASSUME Console
    PROVE  /\ UNCHANGED <<inUse, commits, rels, nextId, held, hold, relQ, latest,
                          heldDmabufs, given, released, lost>>
           /\ th' # th => th' = [IdleThread EXCEPT !.pc = "hello"]
<1> USE DEF guest, wayland, display, session, link
<1>1. ASSUME NEW stamps \in BOOLEAN, Connect(stamps)
      PROVE  /\ UNCHANGED <<inUse, commits, rels, nextId, held, hold, relQ,
                            latest, heldDmabufs, given, released, lost>>
             /\ th' = [IdleThread EXCEPT !.pc = "hello"]
  BY <1>1, Zenon DEF Connect
<1>2. CASE ProcessFrame
  BY <1>2, Zenon DEF ProcessFrame
<1>3. CASE SkipFrame
  BY <1>3, Zenon DEF SkipFrame
<1>4. CASE ClientEof
  BY <1>4, Zenon DEF ClientEof
<1>5. CASE ClientLeaves
  BY <1>5, Zenon DEF ClientLeaves
<1>6. CASE UpdateFrame
  BY <1>6, Zenon DEF UpdateFrame
<1>7. CASE SetWindowHidden
  BY <1>7, Zenon DEF SetWindowHidden
<1>8. QED
  BY <1>1, <1>2, <1>3, <1>4, <1>5, <1>6, <1>7, Zenon DEF Console

(* What the client thread releases it also queues; the rest of the Wayland   *)
(* server's state is not its own.                                            *)
LEMMA ClientThreadLeaves ==
    ASSUME HoldInv, ClientThread
    PROVE  /\ UNCHANGED <<inUse, commits, rels, nextId, held, hold, given>>
           /\ \E X : /\ released' = released \cup X
                     /\ ToSet(relQ') = ToSet(relQ) \cup X
<1> USE DEF HoldInv, guest, wayland
<1> DEFINE Leaves == UNCHANGED <<inUse, commits, rels, nextId, held, hold, given>>
           Queues(X) == /\ released' = released \cup X
                        /\ ToSet(relQ') = ToSet(relQ) \cup X
<1>1. ASSUME NEW q \in Seq(HoldIds), EndClient(q)
      PROVE  Leaves /\ \E X : Queues(X)
  <2>1. Queues(ToSet(q) \cup ToSet(heldDmabufs) \cup LatestHeld)
    BY <1>1, EndClientReleases
  <2>2. QED
    BY <1>1, <2>1 DEF EndClient
<1>2. UNCHANGED <<relQ, released>> => Queues({})
  OBVIOUS
<1>3. << >> \in Seq(HoldIds) /\ InHand \in Seq(HoldIds)
  BY HolderSeqs
<1>4. CASE ReadClientMessage
  <2>1. Leaves
    BY <1>4 DEF ReadClientMessage
  <2> DEFINE m == Head(toServer)
  <2>2. CASE UNCHANGED <<relQ, released>>
    BY <1>2, <2>1, <2>2
  <2>3. CASE /\ Release(<<m.id>>)
             /\ \E i \in 1 .. Len(heldDmabufs) : heldDmabufs[i] = m.id
    <3>1. heldDmabufs \in Seq(HoldIds)
      BY HolderSeqs
    <3>2. m.id \in HoldIds
      BY <2>3, <3>1
    <3>3. <<m.id>> \in Seq(HoldIds)
      BY <3>2
    <3>4. Queues(ToSet(<<m.id>>))
      BY <2>3, <3>3, ReleaseQueues
    <3>5. QED
      BY <2>1, <3>4
  <2>4. \/ UNCHANGED <<relQ, released>>
        \/ /\ Release(<<m.id>>)
           /\ \E i \in 1 .. Len(heldDmabufs) : heldDmabufs[i] = m.id
    BY <1>4 DEF ReadClientMessage
  <2>5. QED
    BY <2>2, <2>3, <2>4
<1>5. CASE ReadEof
  BY <1>1, <1>3, <1>5 DEF ReadEof
<1>6. CASE SendTimestampsFails
  BY <1>1, <1>3, <1>6 DEF SendTimestampsFails
<1>7. CASE SendFrameFails
  BY <1>1, <1>3, <1>7 DEF SendFrameFails, HandOnFailure
<1>8. CASE HelloEof \/ BindClient \/ TakeLatestFrame \/ SendTimestamps \/ SendFrame
  <2>1. Leaves /\ UNCHANGED <<relQ, released>>
    BY <1>8 DEF HelloEof, BindClient, TakeLatestFrame, SendTimestamps, SendFrame
  <2>2. QED
    BY <1>2, <2>1
<1>9. QED
  BY <1>4, <1>5, <1>6, <1>7, <1>8 DEF ClientThread

(* crosvm has no say either, and the Wayland server thread does not touch    *)
(* what the client thread and the client hold.                               *)
LEMMA WaylandLeaves ==
    ASSUME Crosvm \/ WaylandThread
    PROVE  /\ UNCHANGED <<th, heldDmabufs, lost>>
           /\ ~(CommitDmabuf \/ CommitRaw) =>
                  UNCHANGED <<latest, given, released>>
<1> USE DEF display, session
<1>1. CASE CommitDmabuf \/ CommitRaw
  BY <1>1, Zenon DEF CommitDmabuf, CommitRaw
<1>2. ASSUME NEW b \in Buffers, Flush(b) \/ DestroyBuffer(b)
      PROVE  UNCHANGED <<th, heldDmabufs, lost, latest, given, released>>
  BY <1>2, Zenon DEF Flush, DestroyBuffer
<1>3. CASE DispatchRelease
  BY <1>3, Zenon DEF DispatchRelease
<1>4. CASE HoldDmabufBuffer
  BY <1>4, Zenon DEF HoldDmabufBuffer
<1>5. CASE ReleasePendingFrames
  BY <1>5, Zenon DEF ReleasePendingFrames
<1>6. CASE DestroySurface
  BY <1>6, Zenon DEF DestroySurface
<1>7. QED
  BY <1>1, <1>2, <1>3, <1>4, <1>5, <1>6, Zenon DEF Crosvm, WaylandThread
-----------------------------------------------------------------------------
(* The client thread has no frame in its hand when it starts to wait.        *)
LEMMA HandSendsStep ==
    ASSUME HoldInv, Next
    PROVE  HandSends'
<1> USE DEF HoldInv
<1>1. th \in [pc : {"none", "hello", "loop", "stamp", "send"}, hold : Ids,
              type : {"none", "raw", "dmabuf"}, buf : Buffers \cup {NoBuffer}]
  BY DEF TypeOK
<1>2. CASE th' = th
  BY <1>2 DEF HandSends
<1>3. CASE \/ th' = IdleThread
           \/ \E p : th' = [IdleThread EXCEPT !.pc = p]
  BY <1>3 DEF HandSends, IdleThread
<1>4. CASE BindClient
  BY <1>1, <1>4 DEF HandSends, BindClient
<1>5. CASE TakeLatestFrame
  BY <1>5 DEF HandSends, TakeLatestFrame
<1>6. CASE SendTimestamps
  BY <1>1, <1>6 DEF HandSends, SendTimestamps
<1>7. CASE ReadClientMessage
  BY <1>2, <1>7 DEF ReadClientMessage
<1>8. CASE ReadEof \/ HelloEof \/ SendTimestampsFails \/ SendFrameFails
  BY <1>3, <1>8
  DEF ReadEof, HelloEof, SendTimestampsFails, SendFrameFails, EndClient
<1>9. CASE SendFrame
  BY <1>3, <1>9 DEF SendFrame
<1>10. CASE Console
  BY <1>2, <1>3, <1>10, ConsoleLeaves
<1>11. CASE Crosvm \/ WaylandThread
  BY <1>2, <1>11, WaylandLeaves
<1>12. QED
  BY <1>4, <1>5, <1>6, <1>7, <1>8, <1>9, <1>10, <1>11 DEF Next, ClientThread

(* A new hold is of a new frame; the others are of holds there were.         *)
LEMMA HoldsOfFramesStep ==
    ASSUME HoldInv, Next
    PROVE  HoldsOfFrames'
<1> USE DEF HoldInv
<1>0. /\ held \in Seq(Holding) /\ hold \in Holding /\ nextId \in Nat \ {0}
      /\ commits \in Seq(Buffers)
  BY HoldBoundsAssumption DEF TypeOK
<1>1. CASE CommitDmabuf
  <2> DEFINE b == Head(commits)
  <2>1. b \in Buffers
    BY <1>0, <1>1, ToSetTail DEF CommitDmabuf
  <2>2. nextId \notin given /\ nextId \notin HeldIds
    BY <1>0 DEF HoldsOfFrames, HeldIds
  <2>3. /\ nextId' = nextId + 1 /\ held' = held
        /\ given \subseteq given'
        /\ \/ /\ hold' = [id |-> nextId, buf |-> b]
              /\ given' = given \cup {nextId}
           \/ hold' = IdleHold /\ given' = given
    BY <1>1 DEF CommitDmabuf
  <2> HIDE DEF b
  <2>4. given' \subseteq 1 .. nextId' - 1
    <3>1. 1 .. nextId' - 1 = (1 .. nextId - 1) \cup {nextId}
      BY <1>0, <2>3
    <3>2. QED
      BY <2>3, <3>1 DEF HoldsOfFrames
  <2>5. HeldIds' = HeldIds
    BY <2>3 DEF HeldIds
  <2>6. hold' # IdleHold => hold'.id \in given' \ HeldIds' /\ hold'.buf \in Buffers
    BY <2>1, <2>2, <2>3, <2>5
  <2>7. QED
    BY <2>3, <2>4, <2>5, <2>6 DEF HoldsOfFrames
<1>2. CASE HoldDmabufBuffer
  <2>1. /\ ToSet(held') \subseteq ToSet(held) \cup {hold}
        /\ hold # IdleHold /\ hold' = IdleHold
        /\ UNCHANGED <<given, nextId>>
    BY <1>2, HoldsAfterAttach DEF HoldDmabufBuffer
  <2>2. \A h \in ToSet(held) : h.id # hold.id
    BY <2>1 DEF HoldsOfFrames, HeldIds
  <2>3. QED
    BY <2>1, <2>2 DEF HoldsOfFrames
<1>3. ASSUME /\ ToSet(held') \subseteq ToSet(held)
             /\ hold' = IdleHold
             /\ UNCHANGED <<given, nextId>>
      PROVE  HoldsOfFrames'
  BY <1>3 DEF HoldsOfFrames
<1>4. CASE ReleasePendingFrames
  BY <1>3, <1>4, PendingReleases DEF ReleasePendingFrames, InEventLoop
<1>5. CASE DestroySurface
  BY <1>3, <1>5, ToSetShort DEF DestroySurface
<1>6. ASSUME NEW b \in Buffers, DestroyBuffer(b) PROVE HoldsOfFrames'
  BY <1>3, <1>6, KeptHolds DEF DestroyBuffer
<1>7. ASSUME UNCHANGED <<held, hold, given, nextId>> PROVE HoldsOfFrames'
  BY <1>7 DEF HoldsOfFrames, HeldIds
<1>8. ASSUME NEW b \in Buffers, Flush(b) PROVE HoldsOfFrames'
  BY <1>7, <1>8 DEF Flush
<1>9. CASE DispatchRelease
  BY <1>7, <1>9 DEF DispatchRelease
<1>10. CASE CommitRaw
  BY <1>7, <1>10 DEF CommitRaw, wayland
<1>11. CASE ClientThread
  BY <1>7, <1>11, ClientThreadLeaves
<1>12. CASE Console
  BY <1>7, <1>12, ConsoleLeaves
<1>13. QED
  BY <1>1, <1>2, <1>4, <1>5, <1>6, <1>8, <1>9, <1>10, <1>11, <1>12
  DEF Next, Crosvm, WaylandThread

-----------------------------------------------------------------------------
(* The accounts of the holds, as sets: frames answered kHeld (g), released   *)
(* (r) and lost (l), and the holders (n the latest frame, h the client       *)
(* thread's hand, c the client).                                             *)
AccountsOf(g, r, l, n, h, c) ==
    /\ g \ r = n \cup h \cup c \cup l
    /\ n \cap h = {} /\ n \cap c = {} /\ h \cap c = {}
    /\ l \cap (n \cup h \cup c) = {}

LEMMA AccountsAsSets ==
    /\ HoldersApart /\ HoldsAccounted <=>
          /\ AccountsOf(given, released, lost, LatestHeld, HandHeld,
                        ToSet(heldDmabufs))
          /\ Distinct(heldDmabufs)
    /\ HoldersApart' /\ HoldsAccounted' <=>
          /\ AccountsOf(given', released', lost', LatestHeld', HandHeld',
                        ToSet(heldDmabufs'))
          /\ Distinct(heldDmabufs')
  BY HolderSets DEF HoldersApart, HoldsAccounted, AccountsOf

(* Whatever a step does to a hold, it has one holder before and after, or    *)
(* is released, or lost by a failed IKAT.                                    *)
LEMMA HoldersStep ==
    ASSUME HoldInv, Next
    PROVE  HoldersApart' /\ HoldsAccounted'
<1> DEFINE D == ToSet(heldDmabufs)
           After == AccountsOf(given', released', lost', LatestHeld', HandHeld',
                               ToSet(heldDmabufs'))
<1> SUFFICES After /\ Distinct(heldDmabufs')
  BY AccountsAsSets
<1>1. /\ AccountsOf(given, released, lost, LatestHeld, HandHeld, D)
      /\ Distinct(heldDmabufs)
  BY AccountsAsSets DEF HoldInv
<1>2. /\ TypeOK /\ HandSends /\ heldDmabufs \in Seq(HoldIds)
      /\ InHand \in Seq(HoldIds) /\ ToSet(InHand) = HandHeld
      /\ LatestHold \in Seq(HoldIds) /\ ToSet(LatestHold) = LatestHeld
      /\ Distinct(<< >>) /\ ToSet(<< >>) = {}
  BY HolderSeqs, HolderSets, ToSetShort DEF HoldInv, Distinct
<1>3. th.pc \notin {"stamp", "send"} => HandHeld = {}
  BY <1>2 DEF HandSends, HandHeld
<1>4. /\ th' = th => HandHeld' = HandHeld
      /\ latest' = latest => LatestHeld' = LatestHeld
  BY DEF HandHeld, LatestHeld
<1>5. ASSUME /\ UNCHANGED <<given, released, lost, heldDmabufs>>
             /\ HandHeld' = HandHeld /\ LatestHeld' = LatestHeld
      PROVE  After /\ Distinct(heldDmabufs')
  BY <1>1, <1>5
<1>6. CASE CommitDmabuf
  <2>1. /\ released' = released \cup LatestHeld
        /\ UNCHANGED <<heldDmabufs, lost, th>>
    BY <1>2, <1>6, ReleaseQueues DEF CommitDmabuf, session
  <2>2. nextId \notin given
    BY DEF HoldInv, HoldsOfFrames, TypeOK
  <2>3. /\ LatestHeld' \subseteq {nextId}
        /\ given' = given \cup LatestHeld'
    <3>1. \/ given' = given \cup {nextId} /\ latest'.hold = nextId /\ ~latest'.taken
          \/ given' = given /\ latest'.hold = NoHold
      BY <1>6 DEF CommitDmabuf
    <3>2. nextId # NoHold
      BY <1>2 DEF TypeOK, NoHold
    <3>3. QED
      BY <3>1, <3>2 DEF LatestHeld
  <2>4. released \subseteq given
    BY <1>2 DEF TypeOK
  <2>5. After
    BY <1>1, <1>4, <2>1, <2>2, <2>3, <2>4 DEF AccountsOf
  <2>6. QED
    BY <1>1, <2>1, <2>5
<1>7. CASE CommitRaw
  <2>1. UNCHANGED <<given, lost, heldDmabufs, th>>
    BY <1>7 DEF CommitRaw, session
  <2>2. CASE suppress
    BY <1>4, <1>5, <1>7, <2>1, <2>2 DEF CommitRaw
  <2>3. CASE ~suppress
    <3>1. Release(LatestHold) /\ latest' = [NoLatest EXCEPT !.type = "raw"]
      BY <1>7, <2>3 DEF CommitRaw
    <3>2. released' = released \cup LatestHeld
      BY <1>2, <3>1, ReleaseQueues
    <3>3. LatestHeld' = {}
      BY <3>1 DEF LatestHeld, NoLatest
    <3>4. After
      BY <1>1, <1>4, <2>1, <3>2, <3>3 DEF AccountsOf
    <3>5. QED
      BY <1>1, <2>1, <3>4
  <2>4. QED
    BY <2>2, <2>3
<1>8. ASSUME NEW q \in Seq(HoldIds), EndClient(q), NEW X,
             lost' = lost \cup X, ToSet(q) \cup X = HandHeld,
             ToSet(q) \cap X = {}
      PROVE  After /\ Distinct(heldDmabufs')
  <2>1. /\ released' = released \cup ToSet(q) \cup D \cup LatestHeld
        /\ heldDmabufs' = << >> /\ LatestHeld' = {} /\ HandHeld' = {}
    BY <1>2, <1>8, EndClientReleases
  <2>2. given' = given
    BY <1>8 DEF EndClient
  <2>3. After
    BY <1>1, <1>2, <1>8, <2>1, <2>2 DEF AccountsOf
  <2>4. QED
    BY <1>2, <2>1, <2>3
<1>9. CASE ReadEof
  <2>1. EndClient(<< >>) /\ lost' = lost /\ HandHeld = {}
    BY <1>3, <1>9 DEF ReadEof
  <2>2. /\ lost' = lost \cup {} /\ ToSet(<< >>) \cup {} = HandHeld
        /\ << >> \in Seq(HoldIds) /\ ToSet(<< >>) \cap {} = {}
    BY <1>2, <2>1
  <2>3. QED
    BY <1>8, <2>1, <2>2
<1>10. CASE SendTimestampsFails
  <2>1. EndClient(<< >>) /\ lost' = lost \cup HandHeld
    BY <1>2, <1>10 DEF SendTimestampsFails
  <2>2. /\ ToSet(<< >>) \cup HandHeld = HandHeld
        /\ << >> \in Seq(HoldIds) /\ ToSet(<< >>) \cap HandHeld = {}
    BY <1>2
  <2>3. QED
    BY <1>8, <2>1, <2>2
<1>11. CASE SendFrameFails
  <2>1. EndClient(InHand) /\ lost' = lost \cup {}
    BY <1>11 DEF SendFrameFails, HandOnFailure
  <2>2. ToSet(InHand) \cup {} = HandHeld /\ ToSet(InHand) \cap {} = {}
    BY <1>2
  <2>3. QED
    BY <1>2, <1>8, <2>1, <2>2
<1>12. CASE ReadClientMessage
  <2> DEFINE m == Head(toServer)
  <2>1. UNCHANGED <<given, lost, latest, th>>
    BY <1>12 DEF ReadClientMessage, display
  <2>2. CASE UNCHANGED <<heldDmabufs, released>>
    BY <1>4, <1>5, <2>1, <2>2
  <2>3. CASE \E i \in 1 .. Len(heldDmabufs) :
                /\ heldDmabufs[i] = m.id
                /\ heldDmabufs' = RemoveAt(heldDmabufs, i)
                /\ Release(<<m.id>>)
    <3>1. PICK i \in 1 .. Len(heldDmabufs) :
                /\ heldDmabufs[i] = m.id
                /\ heldDmabufs' = RemoveAt(heldDmabufs, i)
                /\ Release(<<m.id>>)
      BY <2>3
    <3>2. m.id \in HoldIds /\ m.id \in D
      BY <1>2, <3>1, InToSet
    <3>3. <<m.id>> \in Seq(HoldIds) /\ ToSet(<<m.id>>) = {m.id}
      BY <3>2, ToSetShort
    <3>4. released' = released \cup {m.id}
      BY <1>2, <3>1, <3>3, ReleaseQueues
    <3>5. Distinct(heldDmabufs') /\ ToSet(heldDmabufs') = D \ {m.id}
      BY <1>1, <1>2, <3>1, ToSetRemoveAt
    <3>6. After
      BY <1>1, <1>4, <2>1, <3>2, <3>4, <3>5 DEF AccountsOf
    <3>7. QED
      BY <3>5, <3>6
  <2>4. QED
    BY <1>12, <2>2, <2>3 DEF ReadClientMessage
<1>13. CASE TakeLatestFrame
  <2>1. /\ UNCHANGED <<given, released, lost, heldDmabufs>> /\ HandHeld = {}
    BY <1>3, <1>13 DEF TakeLatestFrame
  <2>2. HandHeld' = LatestHeld /\ LatestHeld' = {}
    <3>1. /\ th'.hold = (IF latest.taken THEN NoHold ELSE latest.hold)
          /\ latest'.hold = latest.hold
          /\ latest'.taken = (latest.taken \/ latest.hold # NoHold)
      BY <1>2, <1>13 DEF TakeLatestFrame, TakenByCopy, TypeOK
    <3>2. QED
      BY <3>1 DEF HandHeld, LatestHeld
  <2>3. After
    BY <1>1, <2>1, <2>2 DEF AccountsOf
  <2>4. QED
    BY <1>1, <2>1, <2>3
<1>14. CASE SendFrame
  <2>1. /\ UNCHANGED <<given, released, lost, latest>>
        /\ heldDmabufs' = heldDmabufs \o InHand
        /\ HandHeld' = {}
    BY <1>14 DEF SendFrame, HeldAfterSend, display, HandHeld, IdleThread
  <2>2. ToSet(heldDmabufs') = D \cup HandHeld
    BY <1>2, <2>1, ToSetConcat
  <2>3. Distinct(InHand)
    BY DEF Distinct, InHand
  <2>4. Distinct(heldDmabufs')
    BY <1>1, <1>2, <2>1, <2>3, DistinctConcat DEF AccountsOf
  <2>5. After
    BY <1>1, <1>4, <2>1, <2>2 DEF AccountsOf
  <2>6. QED
    BY <2>4, <2>5
<1>15. CASE HelloEof
  BY <1>3, <1>4, <1>5, <1>15 DEF HelloEof, display, HandHeld, IdleThread
<1>16. CASE BindClient
  BY <1>2, <1>4, <1>5, <1>16 DEF BindClient, TypeOK, HandHeld
<1>17. CASE SendTimestamps
  BY <1>2, <1>4, <1>5, <1>17 DEF SendTimestamps, TypeOK, HandHeld, display
<1>18. CASE Console
  <2>1. /\ UNCHANGED <<latest, heldDmabufs, given, released, lost>>
        /\ th' # th => th' = [IdleThread EXCEPT !.pc = "hello"]
    BY <1>18, ConsoleLeaves
  <2>2. th' # th => th.pc = "none"
    BY <1>18 DEF Console, Connect, ProcessFrame, SkipFrame, ClientEof,
                 ClientLeaves, UpdateFrame, SetWindowHidden, session
  <2>3. HandHeld' = HandHeld
    BY <1>3, <1>4, <2>1, <2>2 DEF HandHeld, IdleThread
  <2>4. QED
    BY <1>4, <1>5, <2>1, <2>3
<1>19. CASE (Crosvm \/ WaylandThread) /\ ~(CommitDmabuf \/ CommitRaw)
  BY <1>4, <1>5, <1>19, WaylandLeaves
<1>20. QED
  BY <1>6, <1>7, <1>9, <1>10, <1>11, <1>12, <1>13, <1>14, <1>15, <1>16, <1>17,
     <1>18, <1>19
  DEF Next, ClientThread

(* A release is in the queue until its hold is there and ends with it.       *)
LEMMA ReleasesStep ==
    ASSUME HoldInv, Next
    PROVE  EarlyReleaseWaits' /\ NoHoldOutlivesRelease'
<1> DEFINE Waits == EarlyReleaseWaits' /\ NoHoldOutlivesRelease'
<1>1. /\ TypeOK /\ HoldsOfFrames /\ EarlyReleaseWaits
      /\ HeldIds \cap released \subseteq ToSet(relQ)
  BY DEF HoldInv, NoHoldOutlivesRelease
<1>2. ASSUME NEW X, released' = released \cup X,
             ToSet(relQ') = ToSet(relQ) \cup X, UNCHANGED <<held, hold>>
      PROVE  Waits
  BY <1>1, <1>2 DEF EarlyReleaseWaits, NoHoldOutlivesRelease, HeldIds
<1>3. ASSUME UNCHANGED <<released, relQ, held, hold>> PROVE Waits
  BY <1>1, <1>3 DEF EarlyReleaseWaits, NoHoldOutlivesRelease, HeldIds
<1>4. CASE CommitDmabuf
  <2>1. /\ released' = released \cup LatestHeld
        /\ ToSet(relQ') = ToSet(relQ) \cup LatestHeld
    BY <1>1, <1>4, HolderSeqs, HolderSets, ReleaseQueues DEF CommitDmabuf
  <2>2. held' = held /\ (hold' = IdleHold \/ hold'.id = nextId)
    BY <1>4 DEF CommitDmabuf
  <2>3. nextId \notin released'
    <3>1. LatestHeld \subseteq given
      BY HolderSets DEF HoldInv, HoldsAccounted
    <3>2. released' \subseteq given
      BY <1>1, <2>1, <3>1 DEF TypeOK
    <3>3. QED
      BY <1>1, <3>2 DEF HoldsOfFrames, TypeOK
  <2>4. QED
    BY <1>1, <2>1, <2>2, <2>3
    DEF EarlyReleaseWaits, NoHoldOutlivesRelease, HeldIds
<1>5. CASE HoldDmabufBuffer
  <2>1. /\ hold # IdleHold /\ hold' = IdleHold /\ UNCHANGED <<relQ, released>>
        /\ ToSet(held') \subseteq ToSet(held) \cup {hold}
    BY <1>5, HoldsAfterAttach DEF HoldDmabufBuffer
  <2>2. HeldIds' \subseteq HeldIds \cup {hold.id}
    BY <2>1 DEF HeldIds
  <2>3. QED
    BY <1>1, <2>1, <2>2 DEF EarlyReleaseWaits, NoHoldOutlivesRelease
<1>6. CASE ReleasePendingFrames
  <2>1. /\ hold' = IdleHold /\ released' = released /\ relQ' = << >>
        /\ ToSet(held') = {h \in ToSet(held) : h.id \notin ToSet(relQ)}
    BY <1>6, PendingReleases DEF ReleasePendingFrames, InEventLoop
  <2>2. HeldIds' \cap released' = {}
    BY <1>1, <2>1 DEF HeldIds
  <2>3. QED
    BY <2>1, <2>2 DEF EarlyReleaseWaits, NoHoldOutlivesRelease
<1>7. ASSUME /\ ToSet(held') \subseteq ToSet(held)
             /\ UNCHANGED <<hold, relQ, released>>
      PROVE  Waits
  <2>1. HeldIds' \subseteq HeldIds
    BY <1>7 DEF HeldIds
  <2>2. QED
    BY <1>1, <1>7, <2>1 DEF EarlyReleaseWaits, NoHoldOutlivesRelease
<1>8. CASE DestroySurface
  BY <1>7, <1>8, ToSetShort DEF DestroySurface
<1>9. ASSUME NEW b \in Buffers, DestroyBuffer(b) PROVE Waits
  BY <1>1, <1>7, <1>9, KeptHolds DEF DestroyBuffer
<1>10. CASE CommitRaw
  <2>1. UNCHANGED <<held, hold>>
    BY <1>10 DEF CommitRaw, wayland
  <2>2. CASE UNCHANGED <<relQ, released>>
    BY <1>3, <2>1, <2>2
  <2>3. CASE Release(LatestHold)
    <3>1. /\ released' = released \cup LatestHeld
          /\ ToSet(relQ') = ToSet(relQ) \cup LatestHeld
      BY <1>1, <2>3, HolderSeqs, HolderSets, ReleaseQueues
    <3>2. QED
      BY <1>2, <2>1, <3>1
  <2>4. QED
    BY <1>10, <2>2, <2>3 DEF CommitRaw
<1>11. ASSUME NEW b \in Buffers, Flush(b) PROVE Waits
  BY <1>3, <1>11 DEF Flush
<1>12. CASE DispatchRelease
  BY <1>3, <1>12 DEF DispatchRelease
<1>13. CASE ClientThread
  BY <1>2, <1>13, ClientThreadLeaves
<1>14. CASE Console
  BY <1>3, <1>14, ConsoleLeaves
<1>15. QED
  BY <1>4, <1>5, <1>6, <1>8, <1>9, <1>10, <1>11, <1>12, <1>13, <1>14
  DEF Next, Crosvm, WaylandThread

(* A buffer crosvm takes as in use is nowhere dropped.                       *)
LEMMA BuffersStep ==
    ASSUME HoldInv, Next
    PROVE  BuffersComeBack'
<1> DEFINE heldBufs == {h.buf : h \in ToSet(held)}
<1>1. /\ inUse \subseteq ToSet(commits) \cup {hold.buf} \cup ToSet(rels)
                         \cup heldBufs
      /\ inUse \subseteq Buffers
      /\ commits \in Seq(Buffers) /\ rels \in Seq(Buffers)
      /\ held \in Seq(Holding)
      /\ hold = IdleHold => hold.buf \notin inUse
  BY BuffersAssumption DEF HoldInv, BuffersComeBack, TypeOK, IdleHold
<1>2. ASSUME UNCHANGED <<inUse, commits, rels, held, hold>>
      PROVE  BuffersComeBack'
  BY <1>1, <1>2 DEF BuffersComeBack
<1>3. ASSUME NEW b \in Buffers, Flush(b) PROVE BuffersComeBack'
  <2>1. /\ ToSet(commits') = ToSet(commits) \cup {b}
        /\ inUse' = inUse \cup {b} /\ UNCHANGED <<rels, held, hold>>
    BY <1>1, <1>3, ToSetAppend DEF Flush
  <2>2. QED
    BY <1>1, <2>1 DEF BuffersComeBack
<1>4. CASE DispatchRelease
  <2>1. /\ ToSet(rels) = ToSet(rels') \cup {Head(rels)}
        /\ inUse' = inUse \ {Head(rels)} /\ UNCHANGED <<commits, held, hold>>
    BY <1>1, <1>4, ToSetTail DEF DispatchRelease
  <2>2. QED
    BY <1>1, <2>1 DEF BuffersComeBack
<1>5. CASE CommitDmabuf
  <2> DEFINE b == Head(commits)
  <2>1. /\ ToSet(commits) = ToSet(commits') \cup {b} /\ b \in Buffers
    BY <1>1, <1>5, ToSetTail DEF CommitDmabuf
  <2>2. /\ hold = IdleHold /\ UNCHANGED <<inUse, held>>
        /\ \/ hold' = [id |-> nextId, buf |-> b] /\ rels' = rels
           \/ hold' = hold /\ rels' = Append(rels, b)
    BY <1>5 DEF CommitDmabuf, guest
  <2> HIDE DEF b
  <2>3. b \in {hold'.buf} \cup ToSet(rels') /\ ToSet(rels) \subseteq ToSet(rels')
    <3>1. CASE hold' = [id |-> nextId, buf |-> b] /\ rels' = rels
      BY <3>1
    <3>2. CASE rels' = Append(rels, b)
      BY <1>1, <2>1, <3>2, ToSetAppend
    <3>3. QED
      BY <2>2, <3>1, <3>2
  <2>4. QED
    BY <1>1, <2>1, <2>2, <2>3 DEF BuffersComeBack
<1>6. CASE HoldDmabufBuffer
  <2>1. UNCHANGED <<inUse, commits>>
    BY <1>6 DEF HoldDmabufBuffer, guest
  <2>2. /\ hold \in ToSet(held') /\ ToSet(rels) \subseteq ToSet(rels')
        /\ \A h \in ToSet(held) \ ToSet(held') :
              h.buf = hold.buf \/ h.buf \in ToSet(rels')
    BY <1>6, HoldsAfterAttach
  <2>3. QED
    BY <1>1, <2>1, <2>2 DEF BuffersComeBack
<1>7. CASE ReleasePendingFrames
  <2>1. UNCHANGED <<inUse, commits, hold>>
    BY <1>7 DEF ReleasePendingFrames, guest
  <2>2. QED
    BY <1>1, <1>7, <2>1, PendingReleases DEF BuffersComeBack
<1>8. CASE DestroySurface
  <2> DEFINE bufs == [i \in 1 .. Len(held) |-> held[i].buf]
  <2>1. \A i \in 1 .. Len(held) : held[i].buf \in Buffers
    BY <1>1, InToSet DEF HoldInv, HoldsOfFrames
  <2>2. bufs \in Seq(Buffers) /\ Len(bufs) = Len(held)
    BY <1>1, <2>1
  <2>3. heldBufs \subseteq ToSet(bufs)
    <3> SUFFICES ASSUME NEW h \in ToSet(held) PROVE h.buf \in ToSet(bufs)
      OBVIOUS
    <3>1. PICK i \in 1 .. Len(held) : held[i] = h
      BY <1>1, InToSet
    <3>2. bufs[i] = h.buf
      BY <3>1
    <3> HIDE DEF bufs
    <3>3. QED
      BY <2>2, <3>2, InToSet
  <2>4. /\ ToSet(rels') = ToSet(rels) \cup ToSet(bufs)
        /\ UNCHANGED <<inUse, commits, hold>>
    <3>1. rels' = rels \o bufs /\ UNCHANGED <<inUse, commits, hold>>
      BY <1>8 DEF DestroySurface
    <3> HIDE DEF bufs
    <3>2. QED
      BY <1>1, <2>2, <3>1, ToSetConcat
  <2>5. QED
    BY <1>1, <2>3, <2>4 DEF BuffersComeBack
<1>9. ASSUME NEW b \in Buffers, DestroyBuffer(b) PROVE BuffersComeBack'
  <2>1. /\ ToSet(held') = {h \in ToSet(held) : h.buf # b}
        /\ inUse' = inUse \ {b} /\ UNCHANGED <<commits, hold>>
    BY <1>9, KeptHolds DEF DestroyBuffer, HoldInv
  <2>2. ToSet(rels') = ToSet(rels) \cap (Buffers \ {b})
    BY <1>1, <1>9, OnlyElements DEF DestroyBuffer
  <2>3. ToSet(rels) \subseteq Buffers
    BY <1>1, InToSet
  <2>4. QED
    BY <1>1, <2>1, <2>2, <2>3 DEF BuffersComeBack
<1>10. CASE CommitRaw
  BY <1>2, <1>10 DEF CommitRaw, guest, wayland
<1>11. CASE ClientThread
  BY <1>2, <1>11, ClientThreadLeaves
<1>12. CASE Console
  BY <1>2, <1>12, ConsoleLeaves
<1>13. QED
  BY <1>3, <1>4, <1>5, <1>6, <1>7, <1>8, <1>9, <1>10, <1>11, <1>12
  DEF Next, Crosvm, WaylandThread
-----------------------------------------------------------------------------
LEMMA HoldInvInit == Init => HoldInv
<1> SUFFICES ASSUME Init PROVE HoldInv
  OBVIOUS
<1> USE DEF Init, NoLatest, IdleThread, IdleHold, EmptyShm, NoHold, Ids
<1>1. TypeOK
  <2>1. NoFrame \in Frames /\ IdleHold \in Holding /\ nextId \in 1 .. MaxFrames + 1
    BY HoldBoundsAssumption DEF NoFrame, Frames, Holding
  <2>2. cl \in [pending : Frames, screen : Frames, hidden : BOOLEAN]
    BY <2>1
  <2>3. /\ latest \in [type : {"none", "raw", "dmabuf"}, hold : Ids,
                       taken : BOOLEAN, buf : Buffers \cup {NoBuffer}]
        /\ th \in [pc : {"none", "hello", "loop", "stamp", "send"}, hold : Ids,
                   type : {"none", "raw", "dmabuf"},
                   buf : Buffers \cup {NoBuffer}]
        /\ shm \in [releases : BOOLEAN, paused : BOOLEAN, stamps : BOOLEAN]
    BY HoldBoundsAssumption
  <2>4. /\ ses \in 0 .. MaxSessions /\ raws \in 0 .. MaxRaw
        /\ toggles \in 0 .. MaxToggles
    BY HoldBoundsAssumption
  <2>5. /\ commits \in Seq(Buffers) /\ rels \in Seq(Buffers)
        /\ held \in Seq(Holding) /\ relQ \in Seq(HoldIds)
        /\ heldDmabufs \in Seq(HoldIds) /\ toClient \in Seq(Frames)
        /\ toServer \in Seq(ToServerMessages)
    OBVIOUS
  <2>6. /\ inUse \subseteq Buffers /\ current \in Buffers \cup {NoBuffer}
        /\ hold \in Holding /\ suppress \in BOOLEAN /\ fresh \in BOOLEAN
        /\ conn \in {"none", "open", "left", "ended"}
        /\ given \subseteq Ids /\ released \subseteq given /\ lost \subseteq given
    BY <2>1
  <2>7. QED
    <3> USE DEF TypeOK, HoldIds, ToServerMessages
    <3> HIDE DEF Init
    <3>1. QED
      BY <2>1, <2>2, <2>3, <2>4, <2>5, <2>6
<1>2. FrameRoom /\ HandSends
  BY HoldBoundsAssumption DEF FrameRoom, HandSends
<1>3. /\ ToSet(held) = {} /\ ToSet(heldDmabufs) = {} /\ Distinct(heldDmabufs)
      /\ LatestHeld = {} /\ HandHeld = {}
  BY ToSetShort DEF LatestHeld, HandHeld, Distinct
<1>4. HoldsOfFrames /\ EarlyReleaseWaits /\ NoHoldOutlivesRelease
      /\ BuffersComeBack
  BY <1>3 DEF HoldsOfFrames, EarlyReleaseWaits, NoHoldOutlivesRelease, HeldIds,
              BuffersComeBack
<1>5. HoldersApart /\ HoldsAccounted
  BY <1>3, AccountsAsSets DEF AccountsOf
<1>6. QED
  BY <1>1, <1>2, <1>4, <1>5 DEF HoldInv

LEMMA HoldInvStep == HoldInv /\ [Next]_vars => HoldInv'
<1>1. ASSUME HoldInv, Next PROVE HoldInv'
  <2>1. TypeOK' /\ FrameRoom'
    BY <1>1, WaylandTypes, ClientThreadTypes, ConsoleTypes DEF Next
  <2>2. QED
    BY <1>1, <2>1, HandSendsStep, HoldsOfFramesStep, HoldersStep, ReleasesStep,
       BuffersStep
    DEF HoldInv
<1>2. ASSUME HoldInv, UNCHANGED vars PROVE HoldInv'
  <2> USE <1>2 DEF vars, HoldInv
  <2>1. TypeOK'
    BY DEF TypeOK
  <2>2. FrameRoom' /\ HandSends' /\ HoldsOfFrames'
    BY Zenon DEF FrameRoom, HandSends, HoldsOfFrames, HeldIds
  <2>3. HoldersApart' /\ HoldsAccounted'
    BY Zenon DEF HoldersApart, HoldsAccounted, Holders, LatestHold, InHand
  <2>4. EarlyReleaseWaits' /\ NoHoldOutlivesRelease' /\ BuffersComeBack'
    BY Zenon DEF EarlyReleaseWaits, NoHoldOutlivesRelease, HeldIds,
                 BuffersComeBack
  <2>5. QED
    BY <2>1, <2>2, <2>3, <2>4, Zenon
<1>3. QED
  BY <1>1, <1>2

(* The invariant of the holds, in every reachable state.                     *)
THEOREM HoldInvariant == Spec => []HoldInv
  BY HoldInvInit, HoldInvStep, PTL DEF Spec

(* Every variable has its type; released and lost frames were held.          *)
THEOREM HoldTypes == Spec => []TypeOK
<1>1. HoldInv => TypeOK
  BY DEF HoldInv
<1>2. QED
  BY <1>1, HoldInvariant, PTL

(* Each frame OnDmabufFrame answered kHeld for is released, or the latest    *)
(* frame, the client thread or the client will release it, or a failed IKAT  *)
(* dropped it; wherever the session ends.                                    *)
THEOREM HoldsAreAccounted == Spec => []HoldsAccounted
<1>1. HoldInv => HoldsAccounted
  BY DEF HoldInv
<1>2. QED
  BY <1>1, HoldInvariant, PTL

(* The release callback may run before HoldDmabufBuffer records the hold,    *)
(* and the hold still ends: a released frame is held only while its id is in *)
(* released_frames_.                                                         *)
THEOREM ReleasesEndHolds == Spec => []NoHoldOutlivesRelease
<1>1. HoldInv => NoHoldOutlivesRelease
  BY DEF HoldInv
<1>2. QED
  BY <1>1, HoldInvariant, PTL

(* No buffer crosvm takes as in use is lost: it is on its way to the         *)
(* compositor, held there, or its release is on its way.                     *)
THEOREM InUseBuffersComeBack == Spec => []BuffersComeBack
<1>1. HoldInv => BuffersComeBack
  BY DEF HoldInv
<1>2. QED
  BY <1>1, HoldInvariant, PTL
-----------------------------------------------------------------------------
(* What is appended to released_frames_ at once, if no id comes twice in it  *)
(* and none was released.                                                    *)
LEMMA QueuedOnce ==
    ASSUME TypeOK, NEW q \in Seq(HoldIds), relQ' = relQ \o q, Distinct(q),
           ToSet(q) \cap released = {}
    PROVE  \A i \in Len(relQ) + 1 .. Len(relQ') :
               /\ relQ'[i] \notin released
               /\ \A j \in Len(relQ) + 1 .. i - 1 : relQ'[j] # relQ'[i]
<1> DEFINE n == Len(relQ)
           r == relQ'
<1>1. /\ n \in Nat /\ Len(q) \in Nat /\ Len(r) = n + Len(q)
      /\ \A i \in 1 .. Len(r) : r[i] = IF i <= n THEN relQ[i] ELSE q[i - n]
  <2>1. relQ \in Seq(HoldIds)
    BY DEF TypeOK, HoldIds
  <2>2. QED
    BY <2>1, ConcatAt
<1> HIDE DEF n, r
<1>2. \A i \in n + 1 .. Len(r) : i - n \in 1 .. Len(q) /\ r[i] = q[i - n]
  BY <1>1
<1>3. ASSUME NEW i \in n + 1 .. Len(r) PROVE r[i] \notin released
  BY <1>2, InToSet
<1>4. ASSUME NEW i \in n + 1 .. Len(r), NEW j \in n + 1 .. i - 1, r[j] = r[i]
      PROVE  FALSE
  <2>1. j \in n + 1 .. Len(r) /\ i - n # j - n
    BY <1>1
  <2>2. QED
    BY <1>2, <1>4, <2>1 DEF Distinct
<1>5. QED
  BY <1>3, <1>4 DEF n, r

(* No frame is released twice: not by two steps, and not by one.             *)
THEOREM ReleasesAreSingle == Spec => ReleasedOnce
<1> DEFINE Once == \A i \in Len(relQ) + 1 .. Len(relQ') :
                       /\ relQ'[i] \notin released
                       /\ \A j \in Len(relQ) + 1 .. i - 1 : relQ'[j] # relQ'[i]
<1>1. ASSUME HoldInv, [Next]_vars PROVE Once
  <2>1. /\ TypeOK /\ HandSends /\ heldDmabufs \in Seq(HoldIds)
        /\ InHand \in Seq(HoldIds) /\ ToSet(InHand) = HandHeld
        /\ LatestHold \in Seq(HoldIds) /\ ToSet(LatestHold) = LatestHeld
        /\ Distinct(InHand) /\ Distinct(LatestHold) /\ Distinct(<< >>)
        /\ ToSet(<< >>) = {} /\ << >> \in Seq(HoldIds)
    BY <1>1, HolderSeqs, HolderSets, ToSetShort
    DEF HoldInv, Distinct, InHand, LatestHold
  <2>2. /\ AccountsOf(given, released, lost, LatestHeld, HandHeld,
                      ToSet(heldDmabufs))
        /\ Distinct(heldDmabufs)
    BY <1>1, AccountsAsSets DEF HoldInv
  <2>3. /\ LatestHeld \cap released = {} /\ HandHeld \cap released = {}
        /\ ToSet(heldDmabufs) \cap released = {}
    BY <2>2 DEF AccountsOf
  <2>4. ASSUME relQ' = relQ \/ relQ' = << >> PROVE Once
    <3>1. Len(relQ) \in Nat
      BY <2>1 DEF TypeOK
    <3>2. Len(relQ') <= Len(relQ)
      BY <2>4, <3>1
    <3>3. Len(relQ) + 1 .. Len(relQ') = {}
      BY <2>4, <3>1, <3>2
    <3>4. QED
      BY <3>3
  <2>5. ASSUME Release(LatestHold) PROVE Once
    BY <2>1, <2>3, <2>5, QueuedOnce DEF Release
  <2>6. ASSUME NEW q \in Seq(HoldIds), EndClient(q), ToSet(q) \subseteq HandHeld,
               Distinct(q)
        PROVE  Once
    <3> DEFINE p == q \o heldDmabufs
               r == p \o LatestHold
    <3>1. /\ p \in Seq(HoldIds) /\ ToSet(p) = ToSet(q) \cup ToSet(heldDmabufs)
          /\ Distinct(p)
      BY <2>1, <2>2, <2>6, ToSetConcat, DistinctConcat DEF AccountsOf
    <3>2. relQ' = relQ \o r
      BY <2>6, Zenon DEF EndClient, Release
    <3> HIDE DEF p
    <3>3. /\ r \in Seq(HoldIds) /\ ToSet(r) = ToSet(p) \cup LatestHeld
          /\ Distinct(r)
      <4>1. ToSet(p) \cap LatestHeld = {}
        BY <2>2, <2>6, <3>1 DEF AccountsOf
      <4>2. QED
        BY <2>1, <3>1, <4>1, ToSetConcat, DistinctConcat
    <3> HIDE DEF r
    <3>4. ToSet(r) \cap released = {}
      BY <2>3, <2>6, <3>1, <3>3
    <3>5. QED
      BY <2>1, <3>2, <3>3, <3>4, QueuedOnce
  <2>7. CASE ReadClientMessage
    <3> DEFINE m == Head(toServer)
    <3>1. CASE relQ' = relQ
      BY <2>4, <3>1
    <3>2. CASE /\ relQ' = relQ \o <<m.id>>
               /\ \E i \in 1 .. Len(heldDmabufs) : heldDmabufs[i] = m.id
      <4>1. m.id \in HoldIds /\ m.id \in ToSet(heldDmabufs)
        BY <2>1, <3>2, InToSet
      <4>2. /\ <<m.id>> \in Seq(HoldIds) /\ ToSet(<<m.id>>) = {m.id}
            /\ Distinct(<<m.id>>)
        BY <4>1, ToSetShort DEF Distinct
      <4>3. ToSet(<<m.id>>) \cap released = {}
        BY <2>3, <4>1, <4>2
      <4>4. QED
        BY <2>1, <3>2, <4>2, <4>3, QueuedOnce
    <3>3. QED
      BY <2>7, <3>1, <3>2 DEF ReadClientMessage, Release
  <2>8. CASE ReadEof \/ SendTimestampsFails
    BY <2>1, <2>6, <2>8 DEF ReadEof, SendTimestampsFails
  <2>9. CASE SendFrameFails
    BY <2>1, <2>6, <2>9 DEF SendFrameFails, HandOnFailure
  <2>10. CASE HelloEof \/ BindClient \/ TakeLatestFrame \/ SendTimestamps
              \/ SendFrame
    BY <2>4, <2>10
    DEF HelloEof, BindClient, TakeLatestFrame, SendTimestamps, SendFrame
  <2>11. CASE CommitDmabuf
    BY <2>5, <2>11 DEF CommitDmabuf
  <2>12. CASE CommitRaw
    BY <2>4, <2>5, <2>12 DEF CommitRaw
  <2>13. CASE DispatchRelease \/ HoldDmabufBuffer \/ DestroySurface
              \/ ReleasePendingFrames
    BY <2>4, <2>13
    DEF DispatchRelease, HoldDmabufBuffer, DestroySurface, ReleasePendingFrames
  <2>14. ASSUME NEW b \in Buffers, Flush(b) \/ DestroyBuffer(b) PROVE Once
    BY <2>4, <2>14 DEF Flush, DestroyBuffer
  <2>15. CASE Console
    BY <2>4, <2>15, ConsoleLeaves
  <2>16. CASE UNCHANGED vars
    BY <2>4, <2>16 DEF vars
  <2>17. QED
    <3> HIDE DEF Once
    <3>1. QED
      BY <1>1, <2>7, <2>8, <2>9, <2>10, <2>11, <2>12, <2>13, <2>14, <2>15, <2>16
      DEF Next, Crosvm, WaylandThread, ClientThread
<1>2. QED
  BY <1>1, HoldInvariant, PTL DEF Spec, ReleasedOnce

=============================================================================
