----------------------- MODULE KeyboardGamepadProofs -----------------------
(* What the operators of KeyboardGamepad do to a gamepad, and to the report  *)
(* its events make, for every set of keys and controls, every cap and ramp.  *)
(* GamepadsProofs builds on it.                                              *)
EXTENDS Gamepads, WellFoundedInduction, TLAPS

(* Induction over numbers and sequences.                                     *)

(* A nonempty set of naturals has a least element.                           *)
LEMMA LeastNatural ==
    ASSUME NEW S \in SUBSET Nat, S # {}
    PROVE  \E x \in S : \A y \in S : x <= y
<1> DEFINE R == {p \in Nat \X Nat : p[1] < p[2]}
<1>1. R = OpToRel(<, Nat)
  BY Zenon DEF OpToRel
<1>2. IsWellFoundedOn(R, Nat)
  BY <1>1, NatLessThanWellFounded, Zenon
<1>3. \A x, y \in Nat : y < x => <<y, x>> \in R
  <2> SUFFICES ASSUME NEW x \in Nat, NEW y \in Nat, y < x
               PROVE  <<y, x>> \in R
    OBVIOUS
  <2>1. <<y, x>> \in Nat \X Nat /\ <<y, x>>[1] < <<y, x>>[2]
    OBVIOUS
  <2>2. QED
    BY <2>1, Zenon
<1> HIDE DEF R
<1>4. PICK x \in S : \A y \in S : ~(<<y, x>> \in R)
  BY <1>2, WFMin
<1>5. \A y \in S : ~(y < x)
  BY <1>3, <1>4
<1>6. QED
  BY <1>4, <1>5

(* What holds of 0, and of a number if of the one before, holds up to n.     *)
LEMMA PrefixInduction ==
    ASSUME NEW n \in Nat, NEW S, 0 \in S,
           \A i \in 1 .. n : i - 1 \in S => i \in S
    PROVE  0 .. n \subseteq S
<1> DEFINE Bad == {i \in 0 .. n : i \notin S}
<1> SUFFICES ASSUME Bad # {} PROVE FALSE
  OBVIOUS
<1>0. Bad \in SUBSET Nat
  OBVIOUS
<1>1. PICK k \in Bad : \A j \in Bad : k <= j
  <2> HIDE DEF Bad
  <2>1. QED
    BY <1>0, LeastNatural
<1>2. k \in 1 .. n /\ k - 1 \in 0 .. n /\ ~(k <= k - 1)
  BY <1>1
<1>3. k - 1 \in S
  BY <1>1, <1>2
<1>4. QED
  BY <1>1, <1>2, <1>3

(* A nonempty set of numbers up to n has a greatest element.                 *)
LEMMA GreatestNatural ==
    ASSUME NEW n \in Nat, NEW S \in SUBSET (1 .. n), S # {}
    PROVE  \E k \in S : \A j \in S : k >= j
<1> DEFINE T == {n - j : j \in S}
<1>1. T \in SUBSET Nat /\ T # {}
  <2>1. \A j \in S : n - j \in Nat
    OBVIOUS
  <2>2. QED
    BY <2>1
<1>2. PICK m \in T : \A j \in T : m <= j
  <2> HIDE DEF T
  <2>1. QED
    BY <1>1, LeastNatural
<1>3. PICK k \in S : m = n - k
  BY <1>2
<1>4. ASSUME NEW j \in S PROVE k >= j
  <2>1. n - k <= n - j
    BY <1>2, <1>3
  <2>2. k \in Nat /\ j \in Nat
    OBVIOUS
  <2>3. QED
    BY <2>1, <2>2
<1>5. QED
  BY <1>3, <1>4

(* What F makes of x in n steps, all of them in X.                           *)
IsRun(f, X, x, n, F) ==
    /\ f \in [0 .. n -> X] /\ f[0] = x
    /\ \A i \in 1 .. n : f[i] = F[<<f[i - 1], i>>]

(* A function can be applied n times in a row, from x on.                    *)
LEMMA Iterates ==
    ASSUME NEW X, NEW x \in X, NEW n \in Nat, NEW F \in [X \X (1 .. n) -> X]
    PROVE  \E f : IsRun(f, X, x, n, F)
<1> DEFINE Run(k, f) == /\ f[0] = x
                        /\ \A i \in 1 .. k : f[i] = F[<<f[i - 1], i>>]
           S == {k \in 0 .. n : \E f \in [0 .. k -> X] : Run(k, f)}
<1>1. 0 \in S
  <2> DEFINE f == [i \in 0 .. 0 |-> x]
  <2>1. f \in [0 .. 0 -> X] /\ Run(0, f)
    OBVIOUS
  <2> HIDE DEF f, Run
  <2>2. QED
    BY <2>1
<1>2. ASSUME NEW k \in 1 .. n, k - 1 \in S
      PROVE  k \in S
  <2>1. PICK f \in [0 .. k - 1 -> X] : Run(k - 1, f)
    <3> HIDE DEF Run
    <3>1. QED
      BY <1>2
  <2> DEFINE y == F[<<f[k - 1], k>>]
             g == [i \in 0 .. k |-> IF i = k THEN y ELSE f[i]]
  <2>2. k \in Nat /\ k - 1 \in 0 .. k - 1 /\ f[k - 1] \in X
    OBVIOUS
  <2>3. y \in X
    BY <2>2
  <2>4. g \in [0 .. k -> X]
    BY <2>2, <2>3
  <2>5. g[k] = y /\ \A i \in 0 .. k - 1 : g[i] = f[i]
    BY <2>2
  <2> HIDE DEF g
  <2>6. ASSUME NEW i \in 1 .. k PROVE g[i] = F[<<g[i - 1], i>>]
    <3>1. i - 1 \in 0 .. k - 1 /\ g[i - 1] = f[i - 1]
      BY <2>2, <2>5
    <3>2. CASE i = k
      BY <2>5, <3>1, <3>2
    <3>3. CASE i # k
      <4>1. i \in 1 .. k - 1
        BY <2>2, <3>3
      <4>2. g[i] = f[i] /\ f[i] = F[<<f[i - 1], i>>]
        BY <2>1, <2>5, <4>1
      <4>3. QED
        BY <3>1, <4>2
    <3>4. QED
      BY <3>2, <3>3
  <2>7. Run(k, g)
    BY <2>1, <2>2, <2>5, <2>6
  <2> HIDE DEF Run
  <2>8. QED
    BY <2>4, <2>7
<1>3. n \in S
  <2> HIDE DEF S
  <2>1. 0 .. n \subseteq S
    BY <1>1, <1>2, PrefixInduction
  <2>2. QED
    BY <2>1
<1>4. QED
  BY <1>3 DEF IsRun
-----------------------------------------------------------------------------
(* Sequences, by position and as sets.                                       *)

(* No element comes twice.                                                   *)
Distinct(q) == \A i, j \in 1 .. Len(q) : q[i] = q[j] => i = j

(* Membership, by position.                                                  *)
LEMMA InToSet ==
    ASSUME NEW S, NEW q \in Seq(S)
    PROVE  /\ ToSet(q) \subseteq S
           /\ \A i \in 1 .. Len(q) : q[i] \in ToSet(q)
           /\ \A e \in ToSet(q) : \E i \in 1 .. Len(q) : q[i] = e
<1>1. DOMAIN q = 1 .. Len(q)
  OBVIOUS
<1>2. QED
  BY <1>1 DEF ToSet

(* An element is added at the end.                                           *)
LEMMA ToSetAppend ==
    ASSUME NEW S, NEW q \in Seq(S), NEW e \in S
    PROVE  /\ Append(q, e) \in Seq(S)
           /\ Len(Append(q, e)) = Len(q) + 1
           /\ ToSet(Append(q, e)) = ToSet(q) \cup {e}
<1> DEFINE r == Append(q, e)
<1>1. /\ r \in Seq(S) /\ Len(q) \in Nat /\ Len(r) = Len(q) + 1
      /\ r[Len(q) + 1] = e
      /\ \A i \in 1 .. Len(q) : r[i] = q[i]
  OBVIOUS
<1> HIDE DEF r
<1>2. ToSet(r) \subseteq ToSet(q) \cup {e}
  <2> SUFFICES ASSUME NEW x \in ToSet(r) PROVE x \in ToSet(q) \cup {e}
    OBVIOUS
  <2>1. PICK i \in 1 .. Len(r) : r[i] = x
    BY <1>1, InToSet
  <2>2. QED
    BY <1>1, <2>1, InToSet
<1>3. ToSet(q) \cup {e} \subseteq ToSet(r)
  <2> SUFFICES ASSUME NEW x \in ToSet(q) \cup {e} PROVE x \in ToSet(r)
    OBVIOUS
  <2>1. CASE x = e
    BY <1>1, <2>1, InToSet
  <2>2. CASE x \in ToSet(q)
    <3>1. PICK i \in 1 .. Len(q) : q[i] = x
      BY <2>2, InToSet
    <3>2. i \in 1 .. Len(r) /\ r[i] = x
      BY <1>1, <3>1
    <3>3. QED
      BY <1>1, <3>2, InToSet
  <2>3. QED
    BY <2>1, <2>2
<1>4. QED
  BY <1>1, <1>2, <1>3 DEF r

(* An element is appended that was not there.                                *)
LEMMA DistinctAppend ==
    ASSUME NEW S, NEW q \in Seq(S), NEW e \in S, Distinct(q), e \notin ToSet(q)
    PROVE  Distinct(Append(q, e))
<1> DEFINE r == Append(q, e)
<1>1. /\ Len(q) \in Nat /\ Len(r) = Len(q) + 1 /\ r[Len(q) + 1] = e
      /\ \A i \in 1 .. Len(q) : r[i] = q[i] /\ q[i] # e
  BY InToSet
<1> HIDE DEF r
<1>2. QED
  BY <1>1 DEF Distinct, r

(* Two sequences in a row.                                                   *)
LEMMA ConcatAt ==
    ASSUME NEW S, NEW q \in Seq(S), NEW r \in Seq(S)
    PROVE  /\ q \o r \in Seq(S) /\ Len(q) \in Nat /\ Len(r) \in Nat
           /\ Len(q \o r) = Len(q) + Len(r)
           /\ \A i \in 1 .. Len(q \o r) :
                 (q \o r)[i] = IF i <= Len(q) THEN q[i] ELSE r[i - Len(q)]
  OBVIOUS

(* RemoveFirst of an element closes the gap it leaves.                       *)
LEMMA RemoveFirstAt ==
    ASSUME NEW S, NEW q \in Seq(S), NEW e \in ToSet(q)
    PROVE  LET r == RemoveFirst(q, e) IN
           \E i \in 1 .. Len(q) :
              /\ q[i] = e /\ r \in Seq(S) /\ Len(r) = Len(q) - 1
              /\ \A j \in 1 .. Len(r) : r[j] = IF j < i THEN q[j] ELSE q[j + 1]
<1> DEFINE I == {i \in 1 .. Len(q) : q[i] = e}
<1>1. Len(q) \in Nat /\ I \in SUBSET Nat /\ I # {}
  BY InToSet
<1>2. PICK i \in I : i = Min(I)
  <2> HIDE DEF I
  <2>1. \E k \in I : \A j \in I : k <= j
    BY <1>1, LeastNatural
  <2>2. QED
    BY <2>1 DEF Min
<1>3. RemoveFirst(q, e) = RemoveAt(q, i)
  <2>1. SelectInSeq(q, LAMBDA v : v = e) = i
    BY <1>1, <1>2 DEF SelectInSeq
  <2>2. QED
    BY <1>2, <2>1 DEF RemoveFirst
<1> DEFINE a == SubSeq(q, 1, i - 1)
           b == SubSeq(q, i + 1, Len(q))
           r == a \o b
<1>4. i \in 1 .. Len(q) /\ q[i] = e
  OBVIOUS
<1>5. /\ a \in Seq(S) /\ Len(a) = i - 1
      /\ \A j \in 1 .. i - 1 : a[j] = q[j]
  BY <1>1, <1>4
<1>6. /\ b \in Seq(S) /\ Len(b) = Len(q) - i
      /\ \A j \in 1 .. Len(q) - i : b[j] = q[i + j]
  BY <1>1, <1>4
<1> HIDE DEF a, b
<1>7. /\ r \in Seq(S) /\ Len(r) = Len(a) + Len(b)
      /\ \A j \in 1 .. Len(r) :
            r[j] = IF j <= Len(a) THEN a[j] ELSE b[j - Len(a)]
  BY <1>5, <1>6, ConcatAt
<1> HIDE DEF r
<1>8. Len(r) = Len(q) - 1
  BY <1>1, <1>4, <1>5, <1>6, <1>7
<1>9. ASSUME NEW j \in 1 .. Len(r)
      PROVE  r[j] = IF j < i THEN q[j] ELSE q[j + 1]
  <2>1. CASE j < i
    BY <1>1, <1>4, <1>5, <1>7, <1>8, <2>1
  <2>2. CASE ~(j < i)
    <3>1. j - Len(a) \in 1 .. Len(q) - i /\ ~(j <= Len(a))
          /\ i + (j - Len(a)) = j + 1
      BY <1>1, <1>4, <1>5, <1>8, <2>2
    <3>2. QED
      BY <1>6, <1>7, <2>2, <3>1
  <2>3. QED
    BY <2>1, <2>2
<1>10. RemoveFirst(q, e) = r
  BY <1>3 DEF RemoveAt, r, a, b
<1>11. QED
  BY <1>4, <1>7, <1>8, <1>9, <1>10

(* It is gone then, if it was there once.                                    *)
LEMMA RemoveFirstRemoves ==
    ASSUME NEW S, NEW q \in Seq(S), NEW e \in ToSet(q), Distinct(q)
    PROVE  /\ RemoveFirst(q, e) \in Seq(S)
           /\ Len(RemoveFirst(q, e)) = Len(q) - 1
           /\ Distinct(RemoveFirst(q, e))
           /\ ToSet(RemoveFirst(q, e)) = ToSet(q) \ {e}
<1> DEFINE r == RemoveFirst(q, e)
           up(i, j) == IF j < i THEN j ELSE j + 1
<1>1. PICK i \in 1 .. Len(q) :
              /\ q[i] = e /\ r \in Seq(S) /\ Len(r) = Len(q) - 1
              /\ \A j \in 1 .. Len(r) : r[j] = IF j < i THEN q[j] ELSE q[j + 1]
  BY RemoveFirstAt
<1> HIDE DEF r
<1>2. Len(q) \in Nat /\ i \in Nat
  OBVIOUS
<1>3. \A j \in 1 .. Len(r) :
          up(i, j) \in 1 .. Len(q) /\ up(i, j) # i /\ r[j] = q[up(i, j)]
  BY <1>1, <1>2
<1>4. Distinct(r)
  <2> SUFFICES ASSUME NEW j \in 1 .. Len(r), NEW k \in 1 .. Len(r), r[j] = r[k]
               PROVE  j = k
    BY DEF Distinct
  <2>1. up(i, j) = up(i, k)
    BY <1>3 DEF Distinct
  <2>2. QED
    BY <1>1, <1>2, <2>1
<1>5. ToSet(r) \subseteq ToSet(q) \ {e}
  <2> SUFFICES ASSUME NEW x \in ToSet(r) PROVE x \in ToSet(q) \ {e}
    OBVIOUS
  <2>1. PICK j \in 1 .. Len(r) : r[j] = x
    BY <1>1, InToSet
  <2>2. up(i, j) \in 1 .. Len(q) /\ up(i, j) # i /\ q[up(i, j)] = x
    BY <1>3, <2>1
  <2> HIDE DEF up
  <2>3. QED
    BY <1>1, <2>2, InToSet DEF Distinct
<1>6. ToSet(q) \ {e} \subseteq ToSet(r)
  <2> SUFFICES ASSUME NEW x \in ToSet(q) \ {e} PROVE x \in ToSet(r)
    OBVIOUS
  <2>1. PICK k \in 1 .. Len(q) : q[k] = x
    BY InToSet
  <2>2. k # i
    BY <1>1, <2>1
  <2>3. \E j \in 1 .. Len(r) : up(i, j) = k
    <3>1. CASE k < i
      <4>1. k \in 1 .. Len(r) /\ up(i, k) = k
        BY <1>1, <1>2, <3>1
      <4>2. QED
        BY <4>1
    <3>2. CASE k > i
      <4>1. k - 1 \in 1 .. Len(r) /\ up(i, k - 1) = k
        BY <1>1, <1>2, <3>2
      <4>2. QED
        BY <4>1
    <3>3. QED
      BY <1>2, <2>2, <3>1, <3>2
  <2>4. QED
    BY <1>1, <1>3, <2>1, <2>3, InToSet
<1>7. QED
  BY <1>1, <1>4, <1>5, <1>6 DEF r
-----------------------------------------------------------------------------
(* Where the keys point a pad.                                               *)

(* The keys that push a pad along an axis.                                   *)
OnAxis(k, pad, axis) == /\ Control[k].kind = "direction"
                        /\ Control[k].pad = pad /\ Control[k].axis = axis
HeldOn(g, pad, axis) == {k \in Held(g) : OnAxis(k, pad, axis)}
Signs(g, pad, axis) == {Control[k].sign : k \in HeldOn(g, pad, axis)}

(* The last of the keys of an axis that are held, by its place.              *)
IsLastOn(g, pad, axis, i) ==
    /\ i \in 1 .. Len(g.held) /\ OnAxis(g.held[i], pad, axis)
    /\ \A j \in 1 .. Len(g.held) : OnAxis(g.held[j], pad, axis) => j <= i

(* If any is held, one is the last.                                          *)
LEMMA SomeLastOn ==
    ASSUME NEW g, NEW pad, NEW axis, g.held \in Seq(KeySet),
           HeldOn(g, pad, axis) # {}
    PROVE  \E i : IsLastOn(g, pad, axis, i)
<1> DEFINE I == {i \in 1 .. Len(g.held) : OnAxis(g.held[i], pad, axis)}
<1>1. Len(g.held) \in Nat /\ I \in SUBSET (1 .. Len(g.held)) /\ I # {}
  BY InToSet DEF HeldOn, Held
<1>2. \E k \in I : \A j \in I : k >= j
  <2> HIDE DEF I
  <2>1. QED
    BY <1>1, GreatestNatural
<1>3. QED
  BY <1>1, <1>2 DEF IsLastOn

(* kg_pad_direction: none, or the sign of the last one, unless they cancel.  *)
LEMMA DirectionOf ==
    ASSUME NEW g, NEW pad, NEW axis, g.held \in Seq(KeySet)
    PROVE  /\ HeldOn(g, pad, axis) = {} => PadDirection(g, pad, axis) = 0
           /\ \A i : IsLastOn(g, pad, axis, i) =>
                 PadDirection(g, pad, axis) =
                    IF pad \in Neutral /\ Signs(g, pad, axis) = {-1, 1}
                    THEN 0 ELSE Control[g.held[i]].sign
<1> DEFINE I == {i \in 1 .. Len(g.held) : OnAxis(g.held[i], pad, axis)}
           last == IF I # {} THEN Max(I) ELSE 0
<1>1. PadDirection(g, pad, axis) =
         IF Signs(g, pad, axis) = {}
            \/ (pad \in Neutral /\ Signs(g, pad, axis) = {-1, 1})
         THEN 0 ELSE Control[g.held[last]].sign
  BY DEF PadDirection, SelectLastInSeq, Signs, HeldOn, OnAxis
<1>2. HeldOn(g, pad, axis) = {} => Signs(g, pad, axis) = {}
  BY DEF Signs
<1>3. ASSUME NEW i, IsLastOn(g, pad, axis, i)
      PROVE  last = i /\ Signs(g, pad, axis) # {}
  <2>1. i \in I /\ \A j \in I : j <= i
    BY <1>3 DEF IsLastOn
  <2>2. Len(g.held) \in Nat /\ \A j \in I : j \in Nat
    OBVIOUS
  <2>3. g.held[i] \in HeldOn(g, pad, axis)
    BY <2>1, InToSet DEF HeldOn, Held
  <2>4. Signs(g, pad, axis) # {}
    BY <2>3 DEF Signs
  <2> HIDE DEF I
  <2>5. Max(I) = i
    <3>1. \E x \in I : \A y \in I : x >= y
      BY <2>1, <2>2
    <3>2. Max(I) \in I /\ \A y \in I : Max(I) >= y
      BY <3>1 DEF Max
    <3>3. QED
      BY <2>1, <2>2, <3>2
  <2>6. QED
    BY <2>1, <2>4, <2>5
<1> HIDE DEF last
<1>4. QED
  BY <1>1, <1>2, <1>3

(* A pad points -1, 0 or 1 on each axis.                                     *)
LEMMA DirectionType ==
    ASSUME NEW g, NEW pad, NEW axis, g.held \in Seq(KeySet)
    PROVE  PadDirection(g, pad, axis) \in -1 .. 1
<1>1. CASE HeldOn(g, pad, axis) = {}
  BY <1>1, DirectionOf
<1>2. CASE HeldOn(g, pad, axis) # {}
  <2>1. PICK i : IsLastOn(g, pad, axis, i)
    BY <1>2, SomeLastOn
  <2>2. g.held[i] \in KeySet /\ Control[g.held[i]].kind = "direction"
    BY <2>1 DEF IsLastOn, OnAxis
  <2>3. Control[g.held[i]].sign \in {-1, 1}
    BY <2>2, KeysAssumption
  <2>4. QED
    BY <2>1, <2>3, DirectionOf
<1>3. QED
  BY <1>1, <1>2

(* Without keys it points nowhere.                                           *)
LEMMA PointsNowhere ==
    ASSUME NEW g, NEW pad, g.held \in Seq(KeySet), Held(g) = {}
    PROVE  Centered(PadPoints(g, pad))
  BY DirectionOf DEF Centered, PadPoints, HeldOn

(* A pad points -1, 0 or 1 on each axis.                                     *)
LEMMA PointsType ==
    ASSUME NEW g, NEW pad, g.held \in Seq(KeySet)
    PROVE  PadPoints(g, pad) \in [Axes -> -1 .. 1]
  BY DirectionType DEF PadPoints

(* A key of another pad does not turn this one: h holds the same keys of the *)
(* axis in the same order, at other places.                                  *)
LEMMA DirectionKept ==
    ASSUME NEW g, NEW h, NEW pad, NEW axis, NEW k \in KeySet,
           g.held \in Seq(KeySet), ~OnAxis(k, pad, axis),
           \/ h.held = Append(g.held, k)
           \/ h.held = RemoveFirst(g.held, k) /\ k \in Held(g) /\ Distinct(g.held)
    PROVE  PadDirection(h, pad, axis) = PadDirection(g, pad, axis)
<1>1. /\ h.held \in Seq(KeySet)
      /\ Held(h) \cup {k} = Held(g) \cup {k}
  <2>1. CASE h.held = Append(g.held, k)
    BY <2>1, ToSetAppend DEF Held
  <2>2. CASE h.held = RemoveFirst(g.held, k) /\ k \in Held(g)
             /\ Distinct(g.held)
    <3>1. k \in ToSet(g.held)
      BY <2>2 DEF Held
    <3>2. /\ h.held \in Seq(KeySet)
          /\ ToSet(h.held) = ToSet(g.held) \ {k}
      BY <2>2, <3>1, RemoveFirstRemoves
    <3>3. QED
      BY <3>2 DEF Held
  <2>3. QED
    BY <2>1, <2>2
<1>2. HeldOn(h, pad, axis) = HeldOn(g, pad, axis)
  BY <1>1 DEF HeldOn
<1>3. Signs(h, pad, axis) = Signs(g, pad, axis)
  BY <1>2 DEF Signs
<1>4. CASE HeldOn(g, pad, axis) = {}
  BY <1>1, <1>2, <1>4, DirectionOf
<1>5. CASE HeldOn(g, pad, axis) # {}
  <2>1. PICK i : IsLastOn(g, pad, axis, i)
    BY <1>5, SomeLastOn
  <2>2. \E j : IsLastOn(h, pad, axis, j) /\ h.held[j] = g.held[i]
    <3>1. CASE h.held = Append(g.held, k)
      <4>1. /\ Len(g.held) \in Nat /\ Len(h.held) = Len(g.held) + 1
            /\ h.held[Len(g.held) + 1] = k
            /\ \A j \in 1 .. Len(g.held) : h.held[j] = g.held[j]
        BY <3>1
      <4>2. IsLastOn(h, pad, axis, i) /\ h.held[i] = g.held[i]
        BY <2>1, <4>1 DEF IsLastOn
      <4>3. QED
        BY <4>2
    <3>2. CASE h.held = RemoveFirst(g.held, k) /\ k \in Held(g)
      <4>1. PICK n \in 1 .. Len(g.held) :
               /\ g.held[n] = k /\ Len(h.held) = Len(g.held) - 1
               /\ \A j \in 1 .. Len(h.held) :
                     h.held[j] = IF j < n THEN g.held[j] ELSE g.held[j + 1]
        <5>1. k \in ToSet(g.held)
          BY <3>2 DEF Held
        <5>2. QED
          BY <3>2, <5>1, RemoveFirstAt
      <4>2. Len(g.held) \in Nat /\ i \in 1 .. Len(g.held) /\ i # n
        BY <2>1, <4>1 DEF IsLastOn
      <4> DEFINE m == IF i < n THEN i ELSE i - 1
      <4>3. m \in 1 .. Len(h.held) /\ h.held[m] = g.held[i]
        BY <4>1, <4>2
      <4>4. ASSUME NEW j \in 1 .. Len(h.held), OnAxis(h.held[j], pad, axis)
            PROVE  j <= m
        <5>1. CASE j < n
          <6>1. j \in 1 .. Len(g.held) /\ OnAxis(g.held[j], pad, axis)
            BY <4>1, <4>2, <4>4, <5>1
          <6>2. j <= i
            BY <2>1, <6>1 DEF IsLastOn
          <6>3. QED
            BY <4>2, <5>1, <6>2
        <5>2. CASE ~(j < n)
          <6>1. j + 1 \in 1 .. Len(g.held) /\ OnAxis(g.held[j + 1], pad, axis)
            BY <4>1, <4>2, <4>4, <5>2
          <6>2. j + 1 <= i
            BY <2>1, <6>1 DEF IsLastOn
          <6>3. QED
            BY <4>1, <4>2, <5>2, <6>2
        <5>3. QED
          BY <5>1, <5>2
      <4> HIDE DEF m
      <4>5. IsLastOn(h, pad, axis, m)
        BY <2>1, <4>3, <4>4 DEF IsLastOn
      <4>6. QED
        BY <4>3, <4>5
    <3>3. QED
      BY <3>1, <3>2
  <2>3. QED
    BY <1>1, <1>3, <2>1, <2>2, DirectionOf
<1>6. QED
  BY <1>4, <1>5

(* ApplyKey with a key of another pad, or of none, leaves the pad.           *)
LEMMA PointsKept ==
    ASSUME NEW g, NEW h, NEW pad, NEW k \in KeySet, g.held \in Seq(KeySet),
           Control[k].kind = "direction" => Control[k].pad # pad,
           \/ h.held = Append(g.held, k)
           \/ h.held = RemoveFirst(g.held, k) /\ k \in Held(g) /\ Distinct(g.held)
    PROVE  PadPoints(h, pad) = PadPoints(g, pad)
<1>1. \A a \in Axes : PadDirection(h, pad, a) = PadDirection(g, pad, a)
  <2> SUFFICES ASSUME NEW a \in Axes
               PROVE  PadDirection(h, pad, a) = PadDirection(g, pad, a)
    OBVIOUS
  <2>1. ~OnAxis(k, pad, a)
    BY DEF OnAxis
  <2>2. QED
    BY <2>1, DirectionKept
<1>2. QED
  BY <1>1 DEF PadPoints
-----------------------------------------------------------------------------
(* The gamepad, its events and the report they make.                         *)

(* The buttons a set of keys holds, and the ones the D-pad holds.            *)
ButtonsOf(K) == {Control[k].button : k \in {h \in K : Control[h].kind = "button"}}
DpadShown(dir) == {b \in DpadButtons : dir[b[1]] = b[2]}

Events == [kind : {"button"}, button : AllButtons, down : BOOLEAN]
          \cup [kind : {"stick"}, stick : Sticks, position : Positions]

KgStates ==
    [held : Seq(KeySet), dir : [Pads -> [Axes -> -1 .. 1]],
     magnitude : [Sticks -> 0 .. FullCap], sent : [Sticks -> Positions],
     ramping : [Sticks -> BOOLEAN], ticking : BOOLEAN, armed : BOOLEAN,
     moved : BOOLEAN, mouse : 0 .. Speeds, out : Seq(Events)]

(* What has been sent of the gamepad: its buttons, its D-pad, its sticks.    *)
ReportOf(g) == [buttons |-> ButtonsOf(Held(g)) \cup DpadShown(g.dir["dpad"]),
                stick |-> g.sent]

(* The D-pad points one way at most on each axis.                            *)
OneWay(r) ==
    \A a \in Axes : ~({DpadButton(a, -1), DpadButton(a, 1)} \subseteq r.buttons)

(* The events of q turn the report r into t, each by way of a report that    *)
(* points one way.                                                           *)
Shows(r, q, t) ==
    \E h \in [0 .. Len(q) -> Reports] :
        /\ h[0] = r /\ h[Len(q)] = t
        /\ \A n \in 1 .. Len(q) : h[n] = Report(h[n - 1], q[n]) /\ OneWay(h[n])

(* No stick is the D-pad.                                                    *)
LEMMA PadFacts ==
    /\ "dpad" \notin Sticks /\ "dpad" \in Pads /\ Sticks \subseteq Pads
    /\ \A k \in KeySet : Control[k].kind = "direction" /\ Control[k].pad # "dpad"
                            => Control[k].pad \in Sticks
  BY SticksAssumption, KeysAssumption DEF Pads

(* The caps are deflections.                                                 *)
LEMMA CapType ==
    ASSUME NEW g
    PROVE  StickCap(g) \in 1 .. FullCap /\ FullCap \in Nat
  BY CapsAssumption DEF StickCap

(* A plain button is none of the D-pad's, and belongs to one control.        *)
LEMMA ButtonFacts ==
    ASSUME NEW k \in KeySet, Control[k].kind = "button"
    PROVE  /\ Control[k].button \in AllButtons \ DpadButtons
           /\ \A j \in KeySet : Control[j].kind = "button"
                                   /\ Control[j].button = Control[k].button
                                => Control[j] = Control[k]
<1>1. Control[k] = Button(Control[k].button[1])
  BY KeysAssumption
<1>2. Control[k].button = <<Control[k].button[1], 0>>
  BY <1>1 DEF Button, PlainButton
<1>3. Control[k].button \notin DpadButtons
  BY <1>2 DEF DpadButtons
<1>4. Control[k].button \in AllButtons
  BY DEF AllButtons
<1>5. ASSUME NEW j \in KeySet, Control[j].kind = "button",
             Control[j].button = Control[k].button
      PROVE  Control[j] = Control[k]
  BY <1>1, <1>5, KeysAssumption
<1>6. QED
  BY <1>3, <1>4, <1>5

(* The D-pad's buttons are those of an axis and a sign.                      *)
LEMMA DpadFacts ==
    /\ DpadButtons \subseteq AllButtons
    /\ \A a \in Axes : \A s \in {-1, 1} :
          /\ DpadButton(a, s) \in DpadButtons
          /\ DpadButton(a, s)[1] = a /\ DpadButton(a, s)[2] = s
    /\ \A b \in DpadButtons : /\ b[1] \in Axes /\ b[2] \in {-1, 1}
                              /\ b = DpadButton(b[1], b[2])
  BY DEF DpadButtons, AllButtons, DpadButton

(* The buttons some keys hold are buttons of the gamepad.                    *)
LEMMA ButtonsOfType ==
    ASSUME NEW K \in SUBSET KeySet
    PROVE  /\ ButtonsOf(K) \subseteq AllButtons
           /\ ButtonsOf(K) \cap DpadButtons = {}
  BY ButtonFacts DEF ButtonsOf

(* An event leaves a report.                                                 *)
LEMMA ReportType ==
    ASSUME NEW r \in Reports, NEW e \in Events
    PROVE  Report(r, e) \in Reports
<1>1. CASE e \in [kind : {"stick"}, stick : Sticks, position : Positions]
  <2>1. e.kind = "stick" /\ e.stick \in Sticks /\ e.position \in Positions
    BY <1>1
  <2>2. Report(r, e) = [r EXCEPT !.stick = [r.stick EXCEPT ![e.stick] = e.position]]
    BY <2>1 DEF Report
  <2>3. [r.stick EXCEPT ![e.stick] = e.position] \in [Sticks -> Positions]
    BY <2>1 DEF Reports
  <2>4. QED
    BY <2>2, <2>3 DEF Reports
<1>2. CASE e \in [kind : {"button"}, button : AllButtons, down : BOOLEAN]
  <2>1. e.kind = "button" /\ e.button \in AllButtons
    BY <1>2
  <2>2. \E B \in SUBSET AllButtons : Report(r, e) = [r EXCEPT !.buttons = B]
    BY <2>1 DEF Report, Reports
  <2>3. QED
    BY <2>2 DEF Reports
<1>3. QED
  BY <1>1, <1>2 DEF Events

(* Without events the report stays.                                          *)
LEMMA ShowsNothing ==
    ASSUME NEW r \in Reports
    PROVE  Shows(r, << >>, r)
<1> DEFINE h == [n \in 0 .. 0 |-> r]
<1>1. h \in [0 .. Len(<< >>) -> Reports] /\ h[0] = r /\ h[Len(<< >>)] = r
  OBVIOUS
<1>2. \A n \in 1 .. Len(<< >>) : FALSE
  OBVIOUS
<1> HIDE DEF h
<1>3. QED
  BY <1>1, <1>2 DEF Shows

(* One more event.                                                           *)
LEMMA ShowsMore ==
    ASSUME NEW r, NEW q \in Seq(Events), NEW t \in Reports, Shows(r, q, t),
           NEW e \in Events, OneWay(Report(t, e))
    PROVE  Shows(r, Append(q, e), Report(t, e))
<1> DEFINE N == Len(q)
           p == Append(q, e)
<1>1. PICK h \in [0 .. N -> Reports] :
        /\ h[0] = r /\ h[N] = t
        /\ \A n \in 1 .. N : h[n] = Report(h[n - 1], q[n]) /\ OneWay(h[n])
  BY DEF Shows
<1>2. /\ N \in Nat /\ Len(p) = N + 1 /\ p[N + 1] = e
      /\ \A n \in 1 .. N : p[n] = q[n]
  OBVIOUS
<1> HIDE DEF N, p
<1> DEFINE g == [n \in 0 .. N + 1 |-> IF n = N + 1 THEN Report(t, e) ELSE h[n]]
<1>3. g \in [0 .. N + 1 -> Reports]
  BY <1>2, ReportType
<1>4. g[N + 1] = Report(t, e) /\ \A n \in 0 .. N : g[n] = h[n]
  BY <1>2
<1> HIDE DEF g
<1>5. ASSUME NEW n \in 1 .. N + 1
      PROVE  g[n] = Report(g[n - 1], p[n]) /\ OneWay(g[n])
  <2>1. CASE n = N + 1
    <3>1. g[n - 1] = t
      BY <1>1, <1>2, <1>4, <2>1
    <3>2. QED
      BY <1>2, <1>4, <2>1, <3>1
  <2>2. CASE n # N + 1
    <3>1. n \in 1 .. N /\ n - 1 \in 0 .. N /\ n \in 0 .. N
      BY <1>2, <2>2
    <3>2. QED
      BY <1>1, <1>2, <1>4, <3>1
  <2>3. QED
    BY <2>1, <2>2
<1>6. g[0] = r /\ g[Len(p)] = Report(t, e)
  BY <1>1, <1>2, <1>4
<1>7. g \in [0 .. Len(p) -> Reports]
  BY <1>2, <1>3
<1>8. QED
  BY <1>2, <1>5, <1>6, <1>7 DEF Shows, p

(* What is sent is a report, and points one way.                             *)
LEMMA ReportOfType ==
    ASSUME NEW g \in KgStates
    PROVE  ReportOf(g) \in Reports /\ OneWay(ReportOf(g))
<1>1. /\ Held(g) \subseteq KeySet /\ g.sent \in [Sticks -> Positions]
      /\ g.dir["dpad"] \in [Axes -> -1 .. 1]
  BY InToSet, PadFacts DEF KgStates, Held
<1>2. /\ ButtonsOf(Held(g)) \subseteq AllButtons
      /\ ButtonsOf(Held(g)) \cap DpadButtons = {}
  BY <1>1, ButtonsOfType
<1>3. DpadShown(g.dir["dpad"]) \subseteq AllButtons
  BY DpadFacts DEF DpadShown
<1>4. ReportOf(g) \in Reports
  BY <1>1, <1>2, <1>3 DEF ReportOf, Reports
<1>5. ASSUME NEW a \in Axes,
             {DpadButton(a, -1), DpadButton(a, 1)} \subseteq ReportOf(g).buttons
      PROVE  FALSE
  <2>1. {DpadButton(a, -1), DpadButton(a, 1)} \subseteq DpadShown(g.dir["dpad"])
    BY <1>2, <1>5, DpadFacts DEF ReportOf
  <2>2. g.dir["dpad"][a] = -1 /\ g.dir["dpad"][a] = 1
    BY <2>1, DpadFacts DEF DpadShown
  <2>3. QED
    BY <2>2
<1>6. QED
  BY <1>4, <1>5 DEF OneWay

(* Nothing but the events changed.                                           *)
SentOnly(g, h) == h \in KgStates /\ h = [g EXCEPT !.out = h.out]

(* Sending twice changes nothing but the events either.                      *)
LEMMA SentOnlyTrans ==
    ASSUME NEW g \in KgStates, NEW h, NEW i, SentOnly(g, h), SentOnly(h, i)
    PROVE  SentOnly(g, i)
  BY DEF SentOnly, KgStates

(* The fields sending leaves.                                                *)
LEMMA SentOnlyFields ==
    ASSUME NEW g \in KgStates, NEW h, SentOnly(g, h)
    PROVE  /\ h \in KgStates /\ h.held = g.held /\ h.dir = g.dir
           /\ h.magnitude = g.magnitude /\ h.sent = g.sent
           /\ h.ramping = g.ramping /\ h.ticking = g.ticking
           /\ h.armed = g.armed /\ h.moved = g.moved /\ h.mouse = g.mouse
<1>1. h \in KgStates /\ h = [g EXCEPT !.out = h.out]
  BY DEF SentOnly
<1>2. QED
  BY <1>1 DEF KgStates

(* A button's event presses or releases it in the report.                    *)
LEMMA SendButtonShows ==
    ASSUME NEW g \in KgStates, NEW b \in AllButtons, NEW d \in BOOLEAN,
           NEW r, NEW t \in Reports, Shows(r, g.out, t),
           NEW u, u = [t EXCEPT !.buttons = IF d THEN @ \cup {b} ELSE @ \ {b}],
           OneWay(u)
    PROVE  /\ SentOnly(g, SendButton(g, b, d))
           /\ Shows(r, SendButton(g, b, d).out, u)
<1> DEFINE e == [kind |-> "button", button |-> b, down |-> d]
           h == SendButton(g, b, d)
<1>1. e \in Events /\ e.kind = "button" /\ e.button = b /\ e.down = d
  BY DEF Events
<1>2. Report(t, e) = u
  BY <1>1 DEF Report
<1> HIDE DEF e
<1>3. g.out \in Seq(Events) /\ Append(g.out, e) \in Seq(Events)
  BY <1>1 DEF KgStates
<1>4. h = [g EXCEPT !.out = Append(g.out, e)]
  BY DEF SendButton, e
<1>5. h \in KgStates /\ h.out = Append(g.out, e)
  BY <1>3, <1>4 DEF KgStates
<1>6. Shows(r, h.out, u)
  <2>1. OneWay(Report(t, e))
    BY <1>2
  <2>2. Shows(r, Append(g.out, e), Report(t, e))
    BY <1>1, <1>3, <2>1, ShowsMore
  <2>3. QED
    BY <1>2, <1>5, <2>2
<1>7. SentOnly(g, h)
  BY <1>4, <1>5 DEF SentOnly
<1>8. QED
  BY <1>6, <1>7

(* Fewer buttons point no more ways.                                         *)
LEMMA OneWayFewer ==
    ASSUME NEW r, NEW t, OneWay(r), t.buttons \subseteq r.buttons
    PROVE  OneWay(t)
  BY DEF OneWay

(* The D-pad's buttons for some of the axes.                                 *)
DpadPart(dir, axes) ==
    {DpadButton(a, dir[a]) : a \in {c \in Axes \cap axes : dir[c] # 0}}

(* Buttons of the D-pad are sent: the report gains or loses them.            *)
LEMMA SendDpadShows ==
    ASSUME NEW g \in KgStates, NEW dir \in [Axes -> -1 .. 1], NEW axes,
           NEW d \in BOOLEAN, NEW r, NEW t \in Reports, Shows(r, g.out, t),
           NEW u, u = [t EXCEPT !.buttons = IF d THEN @ \cup DpadPart(dir, axes)
                                            ELSE @ \ DpadPart(dir, axes)],
           OneWay(t), OneWay(u)
    PROVE  /\ SentOnly(g, SendDpad(g, dir, axes, d))
           /\ Shows(r, SendDpad(g, dir, axes, d).out, u) /\ u \in Reports
<1> DEFINE send(h, a) == IF a \in axes /\ dir[a] # 0
                         THEN SendButton(h, DpadButton(a, dir[a]), d) ELSE h
           part(a) == IF a \in axes /\ dir[a] # 0 THEN {DpadButton(a, dir[a])}
                      ELSE {}
           after(v, a) == [v EXCEPT !.buttons = IF d THEN @ \cup part(a)
                                                ELSE @ \ part(a)]
<1>1. ASSUME NEW a \in Axes
      PROVE  part(a) \subseteq AllButtons
             /\ (dir[a] # 0 => DpadButton(a, dir[a]) \in AllButtons)
  <2>1. dir[a] \in {-1, 0, 1}
    OBVIOUS
  <2>2. QED
    BY <2>1, DpadFacts
<1>2. \A v \in Reports : \A a \in Axes : after(v, a) \in Reports
  BY <1>1 DEF Reports
<1>3. ASSUME NEW h \in KgStates, NEW a \in Axes, NEW v \in Reports,
             Shows(r, h.out, v), OneWay(after(v, a))
      PROVE  SentOnly(h, send(h, a)) /\ Shows(r, send(h, a).out, after(v, a))
  <2>1. CASE a \in axes /\ dir[a] # 0
    <3>1. after(v, a) = [v EXCEPT !.buttons =
                            IF d THEN @ \cup {DpadButton(a, dir[a])}
                            ELSE @ \ {DpadButton(a, dir[a])}]
      BY <2>1
    <3>2. DpadButton(a, dir[a]) \in AllButtons
      BY <1>1, <2>1
    <3> HIDE DEF after
    <3>3. QED
      BY <1>3, <2>1, <3>1, <3>2, SendButtonShows
  <2>2. CASE ~(a \in axes /\ dir[a] # 0)
    <3>1. after(v, a) = v
      BY <2>2 DEF Reports
    <3>2. SentOnly(h, h)
      BY DEF SentOnly, KgStates
    <3>3. QED
      BY <1>3, <2>2, <3>1, <3>2
  <2>3. QED
    BY <2>1, <2>2
<1>4. "x" \in Axes /\ "y" \in Axes /\ Axes = {"x", "y"}
  BY DEF Axes
<1>5. DpadPart(dir, axes) = part("x") \cup part("y")
  BY <1>4 DEF DpadPart
<1> DEFINE tx == after(t, "x")
<1>6. u = after(tx, "y") /\ tx.buttons = IF d THEN t.buttons \cup part("x")
                                          ELSE t.buttons \ part("x")
  BY <1>5 DEF Reports
<1>7. OneWay(tx)
  <2>1. CASE d
    <3>1. tx.buttons \subseteq u.buttons
      BY <1>5, <1>6, <2>1 DEF Reports
    <3> HIDE DEF tx, part, after
    <3>2. QED
      BY <3>1, OneWayFewer
  <2>2. CASE ~d
    <3>1. tx.buttons \subseteq t.buttons
      BY <1>6, <2>2
    <3> HIDE DEF tx, part, after
    <3>2. QED
      BY <3>1, OneWayFewer
  <2>3. QED
    BY <2>1, <2>2
<1>8. tx \in Reports
  BY <1>2, <1>4
<1>9. u \in Reports
  BY <1>2, <1>4, <1>6, <1>8
<1> DEFINE gx == send(g, "x")
<1> HIDE DEF part, after, send, tx
<1>10. SentOnly(g, gx) /\ Shows(r, gx.out, tx)
  BY <1>3, <1>4, <1>7 DEF tx
<1>11. gx \in KgStates
  BY <1>10, SentOnlyFields
<1>12. SentOnly(gx, send(gx, "y")) /\ Shows(r, send(gx, "y").out, u)
  BY <1>3, <1>4, <1>6, <1>8, <1>10, <1>11
<1>13. SendDpad(g, dir, axes, d) = send(gx, "y")
  BY DEF SendDpad, send, gx
<1>14. SentOnly(g, send(gx, "y"))
  BY <1>10, <1>12, SentOnlyTrans
<1>15. QED
  BY <1>9, <1>12, <1>13, <1>14

(* The D-pad's buttons, one by one.                                          *)
LEMMA DpadPartIs ==
    ASSUME NEW dir \in [Axes -> -1 .. 1], NEW axes, NEW b
    PROVE  /\ b \in DpadPart(dir, axes) <=>
                 b \in DpadButtons /\ b[1] \in axes /\ dir[b[1]] = b[2]
           /\ b \in DpadShown(dir) <=> b \in DpadButtons /\ dir[b[1]] = b[2]
<1>1. ASSUME b \in DpadPart(dir, axes)
      PROVE  b \in DpadButtons /\ b[1] \in axes /\ dir[b[1]] = b[2]
  <2>1. PICK a \in Axes : a \in axes /\ dir[a] # 0 /\ b = DpadButton(a, dir[a])
    BY <1>1 DEF DpadPart
  <2>2. dir[a] \in {-1, 1}
    BY <2>1
  <2>3. QED
    BY <2>1, <2>2, DpadFacts
<1>2. ASSUME b \in DpadButtons, b[1] \in axes, dir[b[1]] = b[2]
      PROVE  b \in DpadPart(dir, axes)
  <2>1. b[1] \in Axes /\ b[2] \in {-1, 1} /\ b = DpadButton(b[1], dir[b[1]])
    BY <1>2, DpadFacts
  <2>2. QED
    BY <1>2, <2>1 DEF DpadPart
<1>3. QED
  BY <1>1, <1>2 DEF DpadShown

(* kg_move_dpad: the events turn the report, one way at every moment.        *)
LEMMA MoveDpadShows ==
    ASSUME NEW g \in KgStates, NEW dir \in [Axes -> -1 .. 1], NEW r,
           Shows(r, g.out, ReportOf(g))
    PROVE  LET h == MoveDpad(g, dir) IN
           /\ h \in KgStates /\ h.dir = [g.dir EXCEPT !["dpad"] = dir]
           /\ h.held = g.held /\ h.magnitude = g.magnitude /\ h.sent = g.sent
           /\ h.ramping = g.ramping /\ h.ticking = g.ticking
           /\ h.armed = g.armed /\ h.moved = g.moved /\ h.mouse = g.mouse
           /\ Shows(r, h.out, ReportOf(h))
<1> DEFINE old == g.dir["dpad"]
           turned == {a \in Axes : dir[a] # old[a]}
           g1 == [g EXCEPT !.dir["dpad"] = dir]
           B == ButtonsOf(Held(g))
           t == ReportOf(g)
           u == [t EXCEPT !.buttons = @ \ DpadPart(old, turned)]
           v == [u EXCEPT !.buttons = @ \cup DpadPart(dir, turned)]
           g2 == SendDpad(g1, old, turned, FALSE)
           h == SendDpad(g2, dir, turned, TRUE)
<1>1. old \in [Axes -> -1 .. 1] /\ Held(g) \subseteq KeySet
  BY PadFacts, InToSet DEF KgStates, Held
<1>2. /\ g1 \in KgStates /\ g1.dir = [g.dir EXCEPT !["dpad"] = dir]
      /\ g1.dir["dpad"] = dir /\ g1.out = g.out /\ g1.held = g.held
      /\ g1.magnitude = g.magnitude /\ g1.sent = g.sent
      /\ g1.ramping = g.ramping /\ g1.ticking = g.ticking
      /\ g1.armed = g.armed /\ g1.moved = g.moved /\ g1.mouse = g.mouse
  BY PadFacts DEF KgStates
<1>3. t \in Reports /\ OneWay(t) /\ t.buttons = B \cup DpadShown(old)
      /\ t.stick = g.sent
  BY ReportOfType DEF ReportOf
<1>4. ReportOf(g1) \in Reports /\ OneWay(ReportOf(g1))
      /\ ReportOf(g1) = [buttons |-> B \cup DpadShown(dir), stick |-> g.sent]
  BY <1>2, ReportOfType DEF ReportOf, Held
<1>5. B \cap DpadButtons = {}
  BY <1>1, ButtonsOfType
<1> HIDE DEF g1, t, B, old, turned
<1>6. u.buttons = t.buttons \ DpadPart(old, turned) /\ OneWay(u)
  <2>1. u.buttons = t.buttons \ DpadPart(old, turned)
    BY <1>3 DEF Reports
  <2>2. u.buttons \subseteq t.buttons
    BY <2>1
  <2> HIDE DEF u
  <2>3. QED
    BY <1>3, <2>1, <2>2, OneWayFewer
<1>7. SentOnly(g1, g2) /\ Shows(r, g2.out, u) /\ u \in Reports
  <2>1. u = [t EXCEPT !.buttons = IF FALSE THEN @ \cup DpadPart(old, turned)
                                  ELSE @ \ DpadPart(old, turned)]
    OBVIOUS
  <2>2. Shows(r, g1.out, t)
    BY <1>2 DEF t
  <2> HIDE DEF u
  <2>3. QED
    BY <1>1, <1>2, <1>3, <1>6, <2>1, <2>2, SendDpadShows
<1>8. v.buttons = B \cup DpadShown(dir)
  <2>1. v.buttons = ((B \cup DpadShown(old)) \ DpadPart(old, turned))
                       \cup DpadPart(dir, turned)
    BY <1>3, <1>6, <1>7 DEF Reports
  <2>2. ASSUME NEW b
        PROVE  b \in v.buttons <=> b \in B \cup DpadShown(dir)
    <3>1. /\ b \in DpadPart(dir, turned) <=>
                 b \in DpadButtons /\ b[1] \in turned /\ dir[b[1]] = b[2]
          /\ b \in DpadShown(dir) <=> b \in DpadButtons /\ dir[b[1]] = b[2]
      BY DpadPartIs
    <3>2. /\ b \in DpadPart(old, turned) <=>
                 b \in DpadButtons /\ b[1] \in turned /\ old[b[1]] = b[2]
          /\ b \in DpadShown(old) <=> b \in DpadButtons /\ old[b[1]] = b[2]
      BY <1>1, DpadPartIs
    <3>3. b \in DpadButtons => (b[1] \in turned <=> dir[b[1]] # old[b[1]])
      BY DpadFacts DEF turned
    <3>4. QED
      BY <1>5, <2>1, <3>1, <3>2, <3>3
  <2>3. QED
    BY <2>2
<1>9. v = ReportOf(g1)
  <2>1. v.stick = g.sent /\ v \in [buttons : {v.buttons}, stick : {v.stick}]
    BY <1>3, <1>7 DEF Reports
  <2> HIDE DEF v
  <2>2. QED
    BY <1>4, <1>8, <2>1
<1>10. SentOnly(g2, h) /\ Shows(r, h.out, v)
  <2>1. v = [u EXCEPT !.buttons = IF TRUE THEN @ \cup DpadPart(dir, turned)
                                  ELSE @ \ DpadPart(dir, turned)]
    OBVIOUS
  <2>2. g2 \in KgStates
    BY <1>2, <1>7, SentOnlyFields
  <2> HIDE DEF v, u, g2
  <2>3. QED
    BY <1>4, <1>6, <1>7, <1>9, <2>1, <2>2, SendDpadShows
<1> HIDE DEF g2, v, u
<1>11. SentOnly(g1, h)
  <2> HIDE DEF h
  <2>1. QED
    BY <1>2, <1>7, <1>10, SentOnlyTrans
<1>12. MoveDpad(g, dir) = h
  BY DEF MoveDpad, h, g2, g1, turned, old
<1> HIDE DEF h
<1>13. /\ h \in KgStates /\ h.held = g1.held /\ h.dir = g1.dir
       /\ h.magnitude = g1.magnitude /\ h.sent = g1.sent
       /\ h.ramping = g1.ramping /\ h.ticking = g1.ticking
       /\ h.armed = g1.armed /\ h.moved = g1.moved /\ h.mouse = g1.mouse
  BY <1>2, <1>11, SentOnlyFields
<1>14. ReportOf(h) = ReportOf(g1)
  BY <1>13 DEF ReportOf, Held
<1>15. QED
  BY <1>2, <1>9, <1>10, <1>12, <1>13, <1>14
-----------------------------------------------------------------------------
(* The sticks.                                                               *)

(* A stick was sent where it is; it does not ramp when centered, and when it *)
(* does not ramp it is at the cap.                                           *)
StickOk(g, p) ==
    /\ g.sent[p] = StickPosition(g, p)
    /\ Centered(g.dir[p]) => g.magnitude[p] = 0 /\ ~g.ramping[p]
    /\ ~Centered(g.dir[p]) /\ ~g.ramping[p] => g.magnitude[p] = StickCap(g)

(* The ticks come as long as a stick ramps.                                  *)
Timed(g) == /\ g.ticking => g.armed
            /\ (\E p \in Sticks : g.ramping[p]) => g.ticking

(* A stick is left alone.                                                    *)
LEMMA StickKept ==
    ASSUME NEW g, NEW h, NEW p, StickOk(g, p), StickCap(h) = StickCap(g),
           h.sent[p] = g.sent[p], h.dir[p] = g.dir[p], h.mouse = g.mouse,
           h.magnitude[p] = g.magnitude[p], h.ramping[p] = g.ramping[p]
    PROVE  StickOk(h, p)
  BY DEF StickOk, StickPosition

(* The position of a stick.                                                  *)
LEMMA PositionType ==
    ASSUME NEW g \in KgStates, NEW pad \in Sticks
    PROVE  StickPosition(g, pad) \in Positions
<1>1. /\ g.dir[pad] \in [Axes -> -1 .. 1] /\ g.magnitude[pad] \in 0 .. FullCap
      /\ g.mouse \in 0 .. Speeds /\ FullCap \in Nat /\ Speeds \in Nat
  BY PadFacts, CapsAssumption DEF KgStates
<1>2. /\ g.dir[pad]["x"] \in -1 .. 1 /\ g.dir[pad]["y"] \in -1 .. 1
      /\ g.magnitude[pad] \in 0 .. FullCap + Speeds
      /\ g.mouse \in 0 .. FullCap + Speeds /\ 0 \in 0 .. FullCap + Speeds
      /\ 0 \in -1 .. 1
  BY <1>1 DEF Axes
<1>3. QED
  BY <1>2 DEF StickPosition, Positions

(* kg_send_stick: the position is sent if it is a new one.                   *)
LEMMA SendStickShows ==
    ASSUME NEW g \in KgStates, NEW pad \in Sticks, NEW r,
           Shows(r, g.out, ReportOf(g))
    PROVE  LET h == SendStick(g, pad) IN
           /\ h \in KgStates
           /\ h.sent = [g.sent EXCEPT ![pad] = StickPosition(g, pad)]
           /\ h.held = g.held /\ h.dir = g.dir /\ h.magnitude = g.magnitude
           /\ h.ramping = g.ramping /\ h.ticking = g.ticking
           /\ h.armed = g.armed /\ h.moved = g.moved /\ h.mouse = g.mouse
           /\ Shows(r, h.out, ReportOf(h))
<1> DEFINE p == StickPosition(g, pad)
           e == [kind |-> "stick", stick |-> pad, position |-> p]
           t == ReportOf(g)
<1>1. p \in Positions /\ g.sent \in [Sticks -> Positions]
  BY PositionType DEF KgStates
<1> HIDE DEF p
<1>2. CASE p = g.sent[pad]
  <2>1. SendStick(g, pad) = g
    BY <1>2 DEF SendStick, p
  <2>2. [g.sent EXCEPT ![pad] = p] = g.sent
    BY <1>1, <1>2
  <2>3. QED
    BY <2>1, <2>2 DEF p
<1>3. CASE p # g.sent[pad]
  <2> DEFINE h == SendStick(g, pad)
  <2>1. h = [g EXCEPT !.sent = [g.sent EXCEPT ![pad] = p], !.out = Append(g.out, e)]
    BY <1>3 DEF SendStick, p
  <2>2. /\ e \in Events /\ e.kind = "stick" /\ e.stick = pad /\ e.position = p
        /\ Append(g.out, e) \in Seq(Events) /\ g.out \in Seq(Events)
    BY <1>1 DEF Events, KgStates
  <2>3. [g.sent EXCEPT ![pad] = p] \in [Sticks -> Positions]
    BY <1>1
  <2> HIDE DEF e
  <2>4. /\ h \in KgStates /\ h.out = Append(g.out, e)
        /\ h.sent = [g.sent EXCEPT ![pad] = p]
        /\ h.held = g.held /\ h.dir = g.dir /\ h.magnitude = g.magnitude
        /\ h.ramping = g.ramping /\ h.ticking = g.ticking
        /\ h.armed = g.armed /\ h.moved = g.moved /\ h.mouse = g.mouse
    <3> HIDE DEF h
    <3>1. QED
      BY <2>1, <2>2, <2>3 DEF KgStates
  <2> HIDE DEF h
  <2>5. ReportOf(h) = Report(t, e)
    BY <2>2, <2>4 DEF ReportOf, Report, Held
  <2>6. t \in Reports /\ OneWay(ReportOf(h))
    BY <2>4, ReportOfType
  <2> HIDE DEF t
  <2>7. Shows(r, Append(g.out, e), Report(t, e))
    BY <2>2, <2>5, <2>6, ShowsMore DEF t
  <2>8. QED
    BY <2>4, <2>5, <2>7 DEF h, p
<1>4. QED
  BY <1>2, <1>3

(* kg_move_stick: the stick is moved, the others are left; it starts to ramp *)
(* only if it is pushed below the cap.                                       *)
LEMMA MoveStickDoes ==
    ASSUME NEW g \in KgStates, NEW pad \in Sticks,
           NEW dir \in [Axes -> -1 .. 1], NEW r, Shows(r, g.out, ReportOf(g))
    PROVE  LET h == MoveStick(g, pad, dir) IN
           /\ h \in KgStates /\ h.dir = [g.dir EXCEPT ![pad] = dir]
           /\ h.held = g.held /\ h.moved = g.moved /\ h.mouse = g.mouse
           /\ \A p \in Sticks \ {pad} : /\ h.magnitude[p] = g.magnitude[p]
                                        /\ h.sent[p] = g.sent[p]
                                        /\ h.ramping[p] = g.ramping[p]
           /\ StickOk(h, pad)
           /\ g.ticking => h.ticking
           /\ Timed(g) => Timed(h)
           /\ h.ramping[pad] => \/ g.ramping[pad]
                                \/ ~Centered(dir) /\ g.magnitude[pad] < StickCap(g)
           /\ Shows(r, h.out, ReportOf(h))
<1> DEFINE cap == StickCap(g)
           m == g.magnitude[pad]
           g1 == [g EXCEPT !.dir[pad] = dir]
           to(n) == [g1 EXCEPT !.magnitude[pad] = n, !.ramping[pad] = FALSE]
           ramped == [to(m + FirstStep) EXCEPT !.ramping[pad] = TRUE]
           g2 == IF Centered(dir) THEN to(0)
                 ELSE IF m >= cap THEN to(cap)
                 ELSE IF g.ramping[pad] THEN g1
                 ELSE IF m + FirstStep >= cap THEN to(cap)
                 ELSE StartTicking(ramped)
           h == SendStick(g2, pad)
<1>0. MoveStick(g, pad, dir) = h
  BY DEF MoveStick
<1>1. /\ cap \in 1 .. FullCap /\ FullCap \in Nat /\ m \in 0 .. FullCap
      /\ FirstStep \in 1 .. FullCap /\ pad \in Pads /\ pad # "dpad"
  BY CapType, CapsAssumption, PadFacts DEF KgStates
<1> HIDE DEF cap
<1> DEFINE Frame(x) ==
             /\ x \in KgStates /\ x.dir = [g.dir EXCEPT ![pad] = dir]
             /\ x.held = g.held /\ x.moved = g.moved /\ x.mouse = g.mouse
             /\ x.sent = g.sent /\ x.out = g.out
             /\ \A p \in Sticks \ {pad} : /\ x.magnitude[p] = g.magnitude[p]
                                          /\ x.ramping[p] = g.ramping[p]
           Same(x) == x.ticking = g.ticking /\ x.armed = g.armed
<1>2. Frame(g1) /\ Same(g1) /\ g1.magnitude = g.magnitude /\ g1.ramping = g.ramping
  BY <1>1 DEF KgStates
<1>3. ASSUME NEW n \in 0 .. FullCap
      PROVE  /\ Frame(to(n)) /\ Same(to(n))
             /\ to(n).magnitude[pad] = n /\ to(n).ramping[pad] = FALSE
  <2> DEFINE M == [g1.magnitude EXCEPT ![pad] = n]
             R == [g1.ramping EXCEPT ![pad] = FALSE]
             x == to(n)
  <2>1. x = [g1 EXCEPT !.magnitude = M, !.ramping = R]
    <3> HIDE DEF g1
    <3>1. QED
      BY <1>2 DEF KgStates
  <2>2. /\ M \in [Sticks -> 0 .. FullCap] /\ R \in [Sticks -> BOOLEAN]
        /\ M[pad] = n /\ R[pad] = FALSE
        /\ \A p \in Sticks \ {pad} : M[p] = g.magnitude[p] /\ R[p] = g.ramping[p]
    <3> HIDE DEF g1
    <3>1. QED
      BY <1>2 DEF KgStates
  <2> HIDE DEF g1, x, M, R
  <2>3. /\ x \in KgStates /\ x.dir = g1.dir /\ x.held = g1.held
        /\ x.moved = g1.moved /\ x.mouse = g1.mouse /\ x.sent = g1.sent
        /\ x.out = g1.out /\ x.ticking = g1.ticking /\ x.armed = g1.armed
        /\ x.magnitude = M /\ x.ramping = R
    BY <1>2, <2>1, <2>2 DEF KgStates
  <2>4. Frame(x) /\ Same(x) /\ x.magnitude[pad] = n /\ x.ramping[pad] = FALSE
    BY <1>2, <2>2, <2>3
  <2>5. QED
    BY <2>4 DEF x
<1>4. ASSUME m + FirstStep < cap
      PROVE  /\ Frame(ramped) /\ Same(ramped)
             /\ ramped.magnitude[pad] = m + FirstStep /\ ramped.ramping[pad] = TRUE
  <2> DEFINE n == m + FirstStep
  <2>1. n \in 0 .. FullCap
    BY <1>1, <1>4
  <2> HIDE DEF n
  <2>2. Frame(to(n)) /\ Same(to(n)) /\ to(n).magnitude[pad] = n
    BY <1>3, <2>1
  <2>3. ramped = [to(n) EXCEPT !.ramping = [to(n).ramping EXCEPT ![pad] = TRUE]]
    BY <2>2 DEF KgStates, n
  <2> HIDE DEF to, ramped
  <2>4. [to(n).ramping EXCEPT ![pad] = TRUE] \in [Sticks -> BOOLEAN]
        /\ [to(n).ramping EXCEPT ![pad] = TRUE][pad] = TRUE
        /\ \A p \in Sticks \ {pad} : [to(n).ramping EXCEPT ![pad] = TRUE][p] = g.ramping[p]
    BY <2>2 DEF KgStates
  <2>5. QED
    BY <2>2, <2>3, <2>4 DEF KgStates, n
<1> HIDE DEF g1, to, ramped
<1>5. /\ Frame(g2)
      /\ Centered(dir) => g2.magnitude[pad] = 0 /\ ~g2.ramping[pad]
      /\ ~Centered(dir) /\ ~g2.ramping[pad] => g2.magnitude[pad] = cap
      /\ g.ticking => g2.ticking
      /\ g2.ticking => g2.armed \/ (g.ticking /\ ~g.armed)
      /\ g2.ramping[pad] =>
            g.ramping[pad] \/ (~Centered(dir) /\ m < cap /\ g2.ticking)
  <2>0. 0 \in 0 .. FullCap /\ cap \in 0 .. FullCap
    BY <1>1
  <2>1. CASE Centered(dir)
    <3>1. g2 = to(0)
      BY <2>1
    <3>2. /\ Frame(to(0)) /\ Same(to(0))
          /\ to(0).magnitude[pad] = 0 /\ to(0).ramping[pad] = FALSE
      BY <1>3, <2>0
    <3> HIDE DEF g2, Frame
    <3>3. QED
      BY <2>1, <3>1, <3>2
  <2>2. CASE ~Centered(dir) /\ (m >= cap \/ (~g.ramping[pad] /\ m + FirstStep >= cap))
    <3>1. g2 = to(cap)
      BY <2>2
    <3>2. /\ Frame(to(cap)) /\ Same(to(cap))
          /\ to(cap).magnitude[pad] = cap /\ to(cap).ramping[pad] = FALSE
      BY <1>3, <2>0
    <3> HIDE DEF g2, Frame
    <3>3. QED
      BY <2>2, <3>1, <3>2
  <2>3. CASE ~Centered(dir) /\ ~(m >= cap) /\ g.ramping[pad]
    <3>1. g2 = g1
      BY <2>3
    <3> HIDE DEF g2
    <3>2. QED
      BY <1>2, <2>3, <3>1 DEF KgStates
  <2>5. CASE ~Centered(dir) /\ m < cap /\ ~g.ramping[pad] /\ m + FirstStep < cap
    <3>1. g2 = StartTicking(ramped)
      BY <1>1, <2>5
    <3>2. Frame(ramped) /\ Same(ramped) /\ ramped.ramping[pad] = TRUE
      BY <1>4, <2>5
    <3>3. StartTicking(ramped).ticking = TRUE
          /\ StartTicking(ramped).armed = (g.ticking => g.armed)
          /\ Frame(StartTicking(ramped))
          /\ StartTicking(ramped).ramping[pad] = TRUE
      BY <3>2 DEF StartTicking, KgStates
    <3> HIDE DEF g2
    <3>4. QED
      BY <2>5, <3>1, <3>3
  <2>6. QED
    BY <1>1, <2>1, <2>2, <2>3, <2>5
<1> HIDE DEF g2
<1>6. g2.dir["dpad"] = g.dir["dpad"] /\ g2.dir[pad] = dir /\ Held(g2) = Held(g)
  BY <1>1, <1>5 DEF KgStates, Held
<1>7. ReportOf(g2) = ReportOf(g) /\ StickCap(g2) = cap
  BY <1>5, <1>6 DEF ReportOf, StickCap, WalkHeld, ControlHeld, cap
<1>8. /\ h \in KgStates
      /\ h.sent = [g2.sent EXCEPT ![pad] = StickPosition(g2, pad)]
      /\ h.held = g2.held /\ h.dir = g2.dir /\ h.magnitude = g2.magnitude
      /\ h.ramping = g2.ramping /\ h.ticking = g2.ticking
      /\ h.armed = g2.armed /\ h.moved = g2.moved /\ h.mouse = g2.mouse
      /\ Shows(r, h.out, ReportOf(h))
  BY <1>5, <1>7, SendStickShows
<1> HIDE DEF h
<1>9. /\ h.sent[pad] = StickPosition(g2, pad)
      /\ \A p \in Sticks \ {pad} : h.sent[p] = g.sent[p]
  BY <1>5, <1>8 DEF KgStates
<1>10. StickOk(h, pad)
  <2>1. StickPosition(h, pad) = StickPosition(g2, pad)
    BY <1>8 DEF StickPosition
  <2>2. StickCap(h) = cap
    BY <1>7, <1>8 DEF StickCap, WalkHeld, ControlHeld, Held
  <2>3. QED
    BY <1>5, <1>6, <1>8, <1>9, <2>1, <2>2 DEF StickOk
<1>11. Timed(g) => Timed(h)
  BY <1>5, <1>8 DEF Timed
<1>12. /\ g.ticking => h.ticking
       /\ h.ramping[pad] => \/ g.ramping[pad]
                            \/ ~Centered(dir) /\ g.magnitude[pad] < StickCap(g)
  BY <1>5, <1>8 DEF cap
<1>13. QED
  BY <1>0, <1>5, <1>8, <1>9, <1>10, <1>11, <1>12

(* One of MoveSticks's steps: a pushed stick follows the cap.                *)
LEMMA MoveOneDoes ==
    ASSUME NEW g \in KgStates, NEW p, NEW r, Shows(r, g.out, ReportOf(g)),
           p \in Sticks /\ Centered(g.dir[p]) => StickOk(g, p),
           NEW h, h = IF p \notin Sticks \/ Centered(g.dir[p]) THEN g
                      ELSE MoveStick(g, p, g.dir[p])
    PROVE  /\ h \in KgStates /\ h.dir = g.dir
           /\ h.held = g.held /\ h.moved = g.moved /\ h.mouse = g.mouse
           /\ \A q \in Sticks \ {p} : /\ h.magnitude[q] = g.magnitude[q]
                                      /\ h.sent[q] = g.sent[q]
                                      /\ h.ramping[q] = g.ramping[q]
           /\ p \in Sticks => StickOk(h, p)
           /\ g.ticking => h.ticking
           /\ Timed(g) => Timed(h)
           /\ Shows(r, h.out, ReportOf(h))
<1>1. CASE p \notin Sticks \/ Centered(g.dir[p])
  BY <1>1
<1>2. CASE p \in Sticks /\ ~Centered(g.dir[p])
  <2>1. /\ g.dir[p] \in [Axes -> -1 .. 1] /\ h = MoveStick(g, p, g.dir[p])
        /\ [g.dir EXCEPT ![p] = g.dir[p]] = g.dir
    BY <1>2, PadFacts DEF KgStates
  <2>2. QED
    BY <1>2, <2>1, MoveStickDoes
<1>3. QED
  BY <1>1, <1>2

(* The sticks that are pushed follow the cap.                                *)
LEMMA MoveSticksDoes ==
    ASSUME NEW g \in KgStates, NEW r, Shows(r, g.out, ReportOf(g)),
           \A p \in Sticks : Centered(g.dir[p]) => StickOk(g, p)
    PROVE  LET h == MoveSticks(g) IN
           /\ h \in KgStates /\ h.dir = g.dir
           /\ h.held = g.held /\ h.moved = g.moved /\ h.mouse = g.mouse
           /\ \A p \in Sticks : StickOk(h, p)
           /\ g.ticking => h.ticking
           /\ Timed(g) => Timed(h)
           /\ Shows(r, h.out, ReportOf(h))
<1> DEFINE move(x, p) == IF p \notin Sticks \/ Centered(x.dir[p]) THEN x
                         ELSE MoveStick(x, p, x.dir[p])
           g1 == move(g, "left")
           h == move(g1, "right")
<1>0. MoveSticks(g) = h
  BY DEF MoveSticks
<1>1. /\ g1 \in KgStates /\ g1.dir = g.dir
      /\ g1.held = g.held /\ g1.moved = g.moved /\ g1.mouse = g.mouse
      /\ \A q \in Sticks \ {"left"} : /\ g1.magnitude[q] = g.magnitude[q]
                                      /\ g1.sent[q] = g.sent[q]
                                      /\ g1.ramping[q] = g.ramping[q]
      /\ "left" \in Sticks => StickOk(g1, "left")
      /\ g.ticking => g1.ticking
      /\ Timed(g) => Timed(g1)
      /\ Shows(r, g1.out, ReportOf(g1))
  BY MoveOneDoes
<1> HIDE DEF g1
<1>2. StickCap(g1) = StickCap(g)
  BY <1>1 DEF StickCap, WalkHeld, ControlHeld, Held
<1>3. "right" \in Sticks /\ Centered(g1.dir["right"]) => StickOk(g1, "right")
  <2> SUFFICES ASSUME "right" \in Sticks, Centered(g.dir["right"])
               PROVE  StickOk(g1, "right")
    BY <1>1
  <2>1. StickOk(g, "right") /\ "right" \in Sticks \ {"left"}
    OBVIOUS
  <2>2. QED
    BY <1>1, <1>2, <2>1, StickKept
<1>4. /\ h \in KgStates /\ h.dir = g1.dir
      /\ h.held = g1.held /\ h.moved = g1.moved /\ h.mouse = g1.mouse
      /\ \A q \in Sticks \ {"right"} : /\ h.magnitude[q] = g1.magnitude[q]
                                       /\ h.sent[q] = g1.sent[q]
                                       /\ h.ramping[q] = g1.ramping[q]
      /\ "right" \in Sticks => StickOk(h, "right")
      /\ g1.ticking => h.ticking
      /\ Timed(g1) => Timed(h)
      /\ Shows(r, h.out, ReportOf(h))
  BY <1>1, <1>3, MoveOneDoes
<1> HIDE DEF h
<1>5. "left" \in Sticks => StickOk(h, "left")
  <2> SUFFICES ASSUME "left" \in Sticks PROVE StickOk(h, "left")
    OBVIOUS
  <2>1. StickOk(g1, "left") /\ "left" \in Sticks \ {"right"}
    BY <1>1
  <2>2. StickCap(h) = StickCap(g1)
    BY <1>4 DEF StickCap, WalkHeld, ControlHeld, Held
  <2>3. QED
    BY <1>4, <2>1, <2>2, StickKept
<1>6. \A p \in Sticks : StickOk(h, p)
  BY <1>4, <1>5, SticksAssumption
<1>7. QED
  BY <1>0, <1>1, <1>4, <1>6
-----------------------------------------------------------------------------
(* Keys.                                                                     *)

(* What holds of the gamepad between two operations: no key is held twice,   *)
(* the pads point where the held keys point them, the sticks are in place.   *)
KInv(g) ==
    /\ g \in KgStates /\ Distinct(g.held)
    /\ \A p \in Pads : g.dir[p] = PadPoints(g, p)
    /\ \A p \in Sticks : StickOk(g, p)

(* A key more or less: the buttons that are held.                            *)
LEMMA ButtonsAfter ==
    ASSUME NEW k \in KeySet, NEW K \in SUBSET KeySet, NEW L \in SUBSET KeySet,
           L \ {k} = K \ {k}
    PROVE  /\ Control[k].kind # "button" => ButtonsOf(L) = ButtonsOf(K)
           /\ Control[k].kind = "button" =>
                 LET b == Control[k].button
                     on(M) == \E j \in M : Control[j] = Control[k] IN
                 /\ on(L) => ButtonsOf(L) = ButtonsOf(K) \cup {b}
                 /\ ~on(L) => ButtonsOf(L) = ButtonsOf(K) \ {b}
                 /\ on(L) = on(K) => ButtonsOf(L) = ButtonsOf(K)
<1>1. Control[k].kind # "button" => ButtonsOf(L) = ButtonsOf(K)
  BY DEF ButtonsOf
<1>2. ASSUME Control[k].kind = "button"
      PROVE  LET b == Control[k].button
                 on(M) == \E j \in M : Control[j] = Control[k] IN
             /\ on(L) => ButtonsOf(L) = ButtonsOf(K) \cup {b}
             /\ ~on(L) => ButtonsOf(L) = ButtonsOf(K) \ {b}
             /\ on(L) = on(K) => ButtonsOf(L) = ButtonsOf(K)
  <2> DEFINE b == Control[k].button
             on(M) == \E j \in M : Control[j] = Control[k]
  <2>1. ASSUME NEW M \in SUBSET KeySet PROVE b \in ButtonsOf(M) <=> on(M)
    BY <1>2, ButtonFacts DEF ButtonsOf
  <2>2. ASSUME NEW c, c # b PROVE c \in ButtonsOf(L) <=> c \in ButtonsOf(K)
    BY <1>2, <2>2 DEF ButtonsOf
  <2> HIDE DEF b, on
  <2>3. on(L) => ButtonsOf(L) = ButtonsOf(K) \cup {b}
    BY <2>1, <2>2
  <2>4. ~on(L) => ButtonsOf(L) = ButtonsOf(K) \ {b}
    BY <2>1, <2>2
  <2>5. on(L) = on(K) => ButtonsOf(L) = ButtonsOf(K)
    BY <2>1, <2>2 DEF on
  <2>6. QED
    BY <2>3, <2>4, <2>5 DEF b, on
<1>3. QED
  BY <1>1, <1>2

(* The key is taken, before the gamepad follows.                             *)
KeyTaken(g, k, press) ==
    [g EXCEPT !.held = IF press THEN Append(@, k) ELSE RemoveFirst(@, k)]

(* Taking a key leaves all but the held keys and their pad.                  *)
LEMMA KeyTakenDoes ==
    ASSUME NEW g, KInv(g), NEW k \in KeySet, NEW press \in BOOLEAN,
           press <=> k \notin Held(g)
    PROVE  LET h == KeyTaken(g, k, press) IN
           /\ h \in KgStates /\ Distinct(h.held)
           /\ h.dir = g.dir /\ h.magnitude = g.magnitude /\ h.sent = g.sent
           /\ h.ramping = g.ramping /\ h.ticking = g.ticking
           /\ h.armed = g.armed /\ h.moved = g.moved /\ h.mouse = g.mouse
           /\ h.out = g.out
           /\ Held(h) = IF press THEN Held(g) \cup {k} ELSE Held(g) \ {k}
           /\ \A p \in Pads : (Control[k].kind = "direction" => Control[k].pad # p)
                 => h.dir[p] = PadPoints(h, p)
<1> DEFINE q == IF press THEN Append(g.held, k) ELSE RemoveFirst(g.held, k)
           h == KeyTaken(g, k, press)
<1>1. g \in KgStates /\ g.held \in Seq(KeySet) /\ Distinct(g.held)
  BY DEF KInv, KgStates
<1>2. q \in Seq(KeySet) /\ Distinct(q)
      /\ ToSet(q) = IF press THEN Held(g) \cup {k} ELSE Held(g) \ {k}
  <2>1. CASE press
    BY <1>1, <2>1, ToSetAppend, DistinctAppend DEF Held
  <2>2. CASE ~press
    BY <1>1, <2>2, RemoveFirstRemoves DEF Held
  <2>3. QED
    BY <2>1, <2>2
<1>3. h = [g EXCEPT !.held = q]
  BY DEF KeyTaken
<1>4. q = Append(g.held, k) \/ (q = RemoveFirst(g.held, k) /\ k \in Held(g))
  OBVIOUS
<1> HIDE DEF q, h
<1>5. /\ h \in KgStates /\ h.held = q
      /\ h.dir = g.dir /\ h.magnitude = g.magnitude /\ h.sent = g.sent
      /\ h.ramping = g.ramping /\ h.ticking = g.ticking
      /\ h.armed = g.armed /\ h.moved = g.moved /\ h.mouse = g.mouse
      /\ h.out = g.out
  BY <1>1, <1>2, <1>3 DEF KgStates
<1>6. ASSUME NEW p \in Pads, Control[k].kind = "direction" => Control[k].pad # p
      PROVE  h.dir[p] = PadPoints(h, p)
  <2>1. PadPoints(h, p) = PadPoints(g, p)
    BY <1>1, <1>4, <1>5, <1>6, PointsKept
  <2>2. QED
    BY <1>5, <2>1 DEF KInv
<1>7. QED
  BY <1>2, <1>5, <1>6 DEF Held, h

(* An operation from g leaves h in order, with all it changed sent, and the  *)
(* mouse as it was.                                                          *)
Follows(r, g, h) ==
    /\ KInv(h) /\ Shows(r, h.out, ReportOf(h))
    /\ h.moved = g.moved /\ h.mouse = g.mouse
    /\ g.ticking => h.ticking
    /\ Timed(g) => Timed(h)

(* No stick starts to ramp.                                                  *)
NoNewRamp(g, h) == \A p \in Sticks : h.ramping[p] => g.ramping[p]

(* Without its opposite, the release of a key cannot push a stick: not of    *)
(* the walk key, nor where two opposite directions cancel out.               *)
Quiet(k) == /\ Control[k] # Walk
            /\ Control[k].kind = "direction" => Control[k].pad \notin Sticks \cap Neutral

(* The pads and the sticks are in order if they were, for all but one.       *)
LEMMA KInvAfter ==
    ASSUME NEW g, NEW h, KInv(g), NEW pad, h \in KgStates, Distinct(h.held),
           StickCap(h) = StickCap(g), h.mouse = g.mouse,
           \A p \in Pads : h.dir[p] = PadPoints(h, p),
           \A p \in Sticks \ {pad} :
              /\ h.dir[p] = g.dir[p] /\ h.sent[p] = g.sent[p]
              /\ h.magnitude[p] = g.magnitude[p] /\ h.ramping[p] = g.ramping[p],
           pad \in Sticks => StickOk(h, pad)
    PROVE  KInv(h)
<1>1. ASSUME NEW p \in Sticks \ {pad} PROVE StickOk(h, p)
  <2>1. StickOk(g, p)
    BY DEF KInv
  <2>2. QED
    BY <2>1, StickKept
<1>2. QED
  BY <1>1 DEF KInv

(* A key that points a stick nowhere, with nothing to cancel it: there are   *)
(* no others.                                                                *)
LEMMA HeldPushes ==
    ASSUME NEW g, g.held \in Seq(KeySet), NEW k \in Held(g), k \in KeySet,
           Control[k].kind = "direction", Control[k].pad \notin Neutral
    PROVE  ~Centered(PadPoints(g, Control[k].pad))
<1> DEFINE pad == Control[k].pad
           axis == Control[k].axis
<1>1. axis \in Axes /\ k \in HeldOn(g, pad, axis)
  BY KeysAssumption DEF HeldOn, OnAxis
<1>2. PICK i : IsLastOn(g, pad, axis, i)
  BY <1>1, SomeLastOn
<1>3. g.held[i] \in KeySet /\ Control[g.held[i]].kind = "direction"
  BY <1>2 DEF IsLastOn, OnAxis
<1>4. Control[g.held[i]].sign \in {-1, 1}
  BY <1>3, KeysAssumption
<1>5. PadDirection(g, pad, axis) # 0
  BY <1>2, <1>4, DirectionOf
<1>6. QED
  BY <1>1, <1>5 DEF Centered, PadPoints

(* kg_apply_key, pressed or released: what it changed is sent.               *)
LEMMA ApplyKeyDoes ==
    ASSUME NEW g, KInv(g), NEW r, Shows(r, g.out, ReportOf(g)),
           NEW k \in KeySet, NEW press \in BOOLEAN, press <=> k \notin Held(g)
    PROVE  LET h == ApplyKey(g, k, press) IN
           /\ Follows(r, g, h)
           /\ Held(h) = IF press THEN Held(g) \cup {k} ELSE Held(g) \ {k}
           /\ ~press /\ Quiet(k) =>
                 NoNewRamp(g, h)
<1> DEFINE c == Control[k]
           g1 == KeyTaken(g, k, press)
           held == ControlHeld(g1, c)
           h == ApplyKey(g, k, press)
<1>1. /\ g1 \in KgStates /\ Distinct(g1.held)
      /\ g1.dir = g.dir /\ g1.magnitude = g.magnitude /\ g1.sent = g.sent
      /\ g1.ramping = g.ramping /\ g1.ticking = g.ticking
      /\ g1.armed = g.armed /\ g1.moved = g.moved /\ g1.mouse = g.mouse
      /\ g1.out = g.out
      /\ Held(g1) = IF press THEN Held(g) \cup {k} ELSE Held(g) \ {k}
      /\ \A p \in Pads : (Control[k].kind = "direction" => Control[k].pad # p)
            => g1.dir[p] = PadPoints(g1, p)
  <2> HIDE DEF h, held, c
  <2>1. QED
    BY KeyTakenDoes
<1>2. /\ g \in KgStates /\ g.held \in Seq(KeySet) /\ g1.held \in Seq(KeySet)
      /\ Held(g) \subseteq KeySet /\ Held(g1) \subseteq KeySet
      /\ Held(g1) \ {k} = Held(g) \ {k}
      /\ c.kind \in {"button", "direction", "walk"} /\ held \in BOOLEAN
      /\ c.kind = "walk" <=> c = Walk
  <2>1. g \in KgStates /\ g.held \in Seq(KeySet) /\ g1.held \in Seq(KeySet)
    BY <1>1 DEF KInv, KgStates
  <2> HIDE DEF g1
  <2>2. Held(g) \subseteq KeySet /\ Held(g1) \subseteq KeySet
    BY <2>1, InToSet DEF Held
  <2>3. Held(g1) \ {k} = Held(g) \ {k}
    BY <1>1
  <2>4. QED
    BY <2>1, <2>2, <2>3, KeysAssumption DEF ControlHeld, Walk
<1>3. h = CASE c.kind = "direction" ->
                IF c.pad = "dpad" THEN MoveDpad(g1, PadPoints(g1, "dpad"))
                ELSE MoveStick(g1, c.pad, PadPoints(g1, c.pad))
         [] c.kind # "direction" /\ held = ControlHeld(g, c) -> g1
         [] c.kind = "button" /\ held # ControlHeld(g, c) ->
                SendButton(g1, c.button, held)
         [] c.kind = "walk" /\ held # ControlHeld(g, c) -> MoveSticks(g1)
  BY DEF ApplyKey, KeyTaken
<1> HIDE DEF g1, h
<1>4. /\ c.kind # "button" => ReportOf(g1) = ReportOf(g)
      /\ c.kind = "button" /\ held = ControlHeld(g, c) => ReportOf(g1) = ReportOf(g)
  <2>1. c.kind # "button" \/ held = ControlHeld(g, c)
           => ButtonsOf(Held(g1)) = ButtonsOf(Held(g))
    BY <1>2, ButtonsAfter DEF ControlHeld
  <2>2. QED
    BY <1>1, <2>1 DEF ReportOf
<1>5. c # Walk \/ held = ControlHeld(g, c) => StickCap(g1) = StickCap(g)
  BY <1>2 DEF StickCap, WalkHeld, ControlHeld
<1>6. CASE c.kind = "direction" /\ c.pad = "dpad"
  <2> DEFINE dir == PadPoints(g1, "dpad")
  <2>1. h = MoveDpad(g1, dir)
    BY <1>3, <1>6
  <2>2. dir \in [Axes -> -1 .. 1] /\ Shows(r, g1.out, ReportOf(g1))
    BY <1>1, <1>2, <1>4, <1>6, PointsType
  <2> HIDE DEF dir
  <2>3. /\ h \in KgStates /\ h.dir = [g1.dir EXCEPT !["dpad"] = dir]
        /\ h.held = g1.held /\ h.magnitude = g1.magnitude /\ h.sent = g1.sent
        /\ h.ramping = g1.ramping /\ h.ticking = g1.ticking
        /\ h.armed = g1.armed /\ h.moved = g1.moved /\ h.mouse = g1.mouse
        /\ Shows(r, h.out, ReportOf(h))
    BY <1>1, <2>1, <2>2, MoveDpadShows
  <2>4. /\ Held(h) = Held(g1) /\ StickCap(h) = StickCap(g)
        /\ \A p \in Pads : PadPoints(h, p) = PadPoints(g1, p)
    <3>1. c # Walk
      BY <1>2, <1>6
    <3>2. QED
      BY <1>5, <2>3, <3>1
         DEF Held, StickCap, WalkHeld, ControlHeld, PadPoints, PadDirection
  <2>5. \A p \in Pads : h.dir[p] = PadPoints(h, p)
    <3>1. h.dir["dpad"] = dir /\ \A p \in Pads \ {"dpad"} : h.dir[p] = g1.dir[p]
      BY <1>1, <2>3, PadFacts DEF KgStates
    <3>2. QED
      BY <1>1, <1>6, <2>4, <3>1 DEF dir
  <2>6. \A p \in Sticks \ {"dpad"} :
              /\ h.dir[p] = g.dir[p] /\ h.sent[p] = g.sent[p]
              /\ h.magnitude[p] = g.magnitude[p] /\ h.ramping[p] = g.ramping[p]
    BY <1>1, <2>3, PadFacts DEF KgStates
  <2>7. KInv(h)
    BY <1>1, <2>3, <2>4, <2>5, <2>6, PadFacts, KInvAfter
  <2>8. Timed(g) => Timed(h)
    BY <1>1, <2>3 DEF Timed
  <2>9. QED
    BY <1>1, <2>3, <2>4, <2>7, <2>8 DEF Follows, NoNewRamp, h
<1>7. CASE c.kind = "direction" /\ c.pad # "dpad"
  <2> DEFINE pad == c.pad
             dir == PadPoints(g1, pad)
  <2>1. h = MoveStick(g1, pad, dir)
    BY <1>3, <1>7
  <2>2. dir \in [Axes -> -1 .. 1] /\ Shows(r, g1.out, ReportOf(g1)) /\ pad \in Sticks
    BY <1>1, <1>2, <1>4, <1>7, PointsType, PadFacts
  <2> HIDE DEF dir
  <2>3. /\ h \in KgStates /\ h.dir = [g1.dir EXCEPT ![pad] = dir]
        /\ h.held = g1.held /\ h.moved = g1.moved /\ h.mouse = g1.mouse
        /\ \A p \in Sticks \ {pad} : /\ h.magnitude[p] = g1.magnitude[p]
                                     /\ h.sent[p] = g1.sent[p]
                                     /\ h.ramping[p] = g1.ramping[p]
        /\ StickOk(h, pad)
        /\ g1.ticking => h.ticking
        /\ Timed(g1) => Timed(h)
        /\ h.ramping[pad] => \/ g1.ramping[pad]
                             \/ ~Centered(dir) /\ g1.magnitude[pad] < StickCap(g1)
        /\ Shows(r, h.out, ReportOf(h))
    <3> HIDE DEF pad
    <3>1. QED
      BY <1>1, <2>1, <2>2, MoveStickDoes
  <2>4. /\ Held(h) = Held(g1) /\ StickCap(h) = StickCap(g)
        /\ \A p \in Pads : PadPoints(h, p) = PadPoints(g1, p)
        /\ StickCap(g1) = StickCap(g)
    <3>1. c # Walk
      BY <1>2, <1>7
    <3>2. QED
      BY <1>5, <2>3, <3>1
         DEF Held, StickCap, WalkHeld, ControlHeld, PadPoints, PadDirection
  <2>5. /\ \A p \in Pads : h.dir[p] = PadPoints(h, p)
        /\ \A p \in Sticks \ {pad} : h.dir[p] = g.dir[p]
    <3>1. h.dir[pad] = dir /\ \A p \in Pads \ {pad} : h.dir[p] = g1.dir[p]
      BY <1>1, <2>2, <2>3, PadFacts DEF KgStates
    <3>2. QED
      BY <1>1, <1>7, <2>4, <3>1, PadFacts DEF dir
  <2>6. KInv(h)
    <3> HIDE DEF pad
    <3>1. \A p \in Sticks \ {pad} :
              /\ h.dir[p] = g.dir[p] /\ h.sent[p] = g.sent[p]
              /\ h.magnitude[p] = g.magnitude[p] /\ h.ramping[p] = g.ramping[p]
      BY <1>1, <2>3, <2>5
    <3>2. Distinct(h.held) /\ h.mouse = g.mouse
      BY <1>1, <2>3
    <3>3. QED
      BY <2>3, <2>4, <2>5, <3>1, <3>2, KInvAfter
  <2>7. Timed(g) => Timed(h)
    BY <1>1, <2>3 DEF Timed
  <2>8. ASSUME ~press, Quiet(k), NEW p \in Sticks, h.ramping[p]
        PROVE  g.ramping[p]
    <3>1. CASE p # pad
      BY <1>1, <2>3, <2>8, <3>1
    <3>2. CASE p = pad
      <4>1. k \in Held(g) /\ pad \notin Neutral
        BY <1>7, <2>2, <2>8 DEF Quiet
      <4>2. ~Centered(PadPoints(g, pad))
        BY <1>2, <1>7, <4>1, HeldPushes
      <4>3. ~Centered(g.dir[pad]) /\ StickOk(g, pad)
        BY <2>2, <4>2, PadFacts DEF KInv
      <4>4. ~g.ramping[pad] => g.magnitude[pad] = StickCap(g)
        BY <4>3 DEF StickOk
      <4>5. StickCap(g) \in Int
        BY CapType
      <4>6. QED
        BY <1>1, <2>3, <2>4, <2>8, <3>2, <4>4, <4>5
    <3>3. QED
      BY <3>1, <3>2
  <2>9. Follows(r, g, h)
    BY <1>1, <2>3, <2>6, <2>7 DEF Follows
  <2>10. QED
    BY <1>1, <2>4, <2>8, <2>9 DEF NoNewRamp, h
<1>8. CASE c.kind # "direction" /\ held = ControlHeld(g, c)
  <2>1. h = g1 /\ StickCap(g1) = StickCap(g)
    BY <1>3, <1>5, <1>8
  <2>2. KInv(g1)
    BY <1>1, <1>8, <2>1, PadFacts, KInvAfter
  <2>3. Shows(r, g1.out, ReportOf(g1)) /\ (Timed(g) => Timed(g1))
    BY <1>1, <1>2, <1>4, <1>8 DEF Timed
  <2>4. QED
    BY <1>1, <2>1, <2>2, <2>3 DEF Follows, NoNewRamp, h
<1>9. CASE c.kind = "button" /\ held # ControlHeld(g, c)
  <2> DEFINE b == c.button
             t == ReportOf(g)
             u == ReportOf(g1)
  <2>1. h = SendButton(g1, b, held) /\ StickCap(g1) = StickCap(g)
    BY <1>2, <1>3, <1>5, <1>9
  <2>2. ButtonsOf(Held(g1)) = IF held THEN ButtonsOf(Held(g)) \cup {b}
                              ELSE ButtonsOf(Held(g)) \ {b}
    BY <1>2, <1>9, ButtonsAfter DEF ControlHeld
  <2>3. b \in AllButtons /\ b \notin DpadButtons
    BY <1>9, ButtonFacts
  <2>4. u = [t EXCEPT !.buttons = IF held THEN @ \cup {b} ELSE @ \ {b}]
    <3>1. DpadShown(g.dir["dpad"]) \subseteq DpadButtons
      BY DEF DpadShown
    <3> DEFINE D == DpadShown(g.dir["dpad"])
               X == ButtonsOf(Held(g))
    <3>2. u = [buttons |-> ButtonsOf(Held(g1)) \cup D, stick |-> g.sent]
          /\ t = [buttons |-> X \cup D, stick |-> g.sent]
      BY <1>1 DEF ReportOf
    <3>3. ButtonsOf(Held(g1)) \cup D = IF held THEN (X \cup D) \cup {b}
                                       ELSE (X \cup D) \ {b}
      BY <2>2, <2>3, <3>1
    <3> HIDE DEF u, t, D, X
    <3>4. QED
      BY <3>2, <3>3
  <2>5. t \in Reports /\ OneWay(u) /\ Shows(r, g1.out, t)
    BY <1>1, <1>2, ReportOfType
  <2> HIDE DEF t, u, b, held
  <2>6. SentOnly(g1, h) /\ Shows(r, h.out, u)
    <3>1. held \in BOOLEAN
      BY <1>2
    <3>2. QED
      BY <1>1, <2>1, <2>3, <2>4, <2>5, <3>1, SendButtonShows
  <2>7. /\ h \in KgStates /\ h.held = g1.held /\ h.dir = g1.dir
        /\ h.magnitude = g1.magnitude /\ h.sent = g1.sent
        /\ h.ramping = g1.ramping /\ h.ticking = g1.ticking
        /\ h.armed = g1.armed /\ h.moved = g1.moved /\ h.mouse = g1.mouse
    BY <1>1, <2>6, SentOnlyFields
  <2>8. /\ Held(h) = Held(g1) /\ StickCap(h) = StickCap(g) /\ ReportOf(h) = u
        /\ \A p \in Pads : PadPoints(h, p) = PadPoints(g1, p)
    BY <2>1, <2>7 DEF Held, StickCap, WalkHeld, ControlHeld, PadPoints,
                      PadDirection, ReportOf, u
  <2>9. KInv(h)
    BY <1>1, <1>9, <2>7, <2>8, PadFacts, KInvAfter
  <2>10. Timed(g) => Timed(h)
    BY <1>1, <2>7 DEF Timed
  <2>11. QED
    BY <1>1, <2>6, <2>7, <2>8, <2>9, <2>10 DEF Follows, NoNewRamp, h
<1>10. CASE c.kind = "walk" /\ held # ControlHeld(g, c)
  <2>1. h = MoveSticks(g1) /\ c = Walk
    BY <1>2, <1>3, <1>10
  <2>2. Shows(r, g1.out, ReportOf(g1))
    BY <1>1, <1>4, <1>10
  <2>3. ASSUME NEW p \in Sticks, Centered(g1.dir[p]) PROVE StickOk(g1, p)
    <3>1. StickOk(g, p)
      BY DEF KInv
    <3>2. QED
      BY <1>1, <2>3, <3>1 DEF StickOk, StickPosition
  <2>4. /\ h \in KgStates /\ h.dir = g1.dir
        /\ h.held = g1.held /\ h.moved = g1.moved /\ h.mouse = g1.mouse
        /\ \A p \in Sticks : StickOk(h, p)
        /\ g1.ticking => h.ticking
        /\ Timed(g1) => Timed(h)
        /\ Shows(r, h.out, ReportOf(h))
    BY <1>1, <2>1, <2>2, <2>3, MoveSticksDoes
  <2>5. /\ Held(h) = Held(g1)
        /\ \A p \in Pads : PadPoints(h, p) = PadPoints(g1, p)
    BY <2>4 DEF Held, PadPoints, PadDirection
  <2>6. KInv(h)
    BY <1>1, <1>10, <2>4, <2>5 DEF KInv
  <2>7. Timed(g) => Timed(h)
    BY <1>1, <2>4 DEF Timed
  <2>8. Follows(r, g, h)
    BY <1>1, <2>4, <2>6, <2>7 DEF Follows
  <2>9. ~Quiet(k)
    BY <2>1 DEF Quiet
  <2>10. QED
    BY <1>1, <2>5, <2>8, <2>9 DEF h
<1>11. QED
  BY <1>2, <1>6, <1>7, <1>8, <1>9, <1>10

(* One operation after another.                                              *)
LEMMA FollowsTrans ==
    ASSUME NEW r, NEW g, NEW h, NEW i, Follows(r, g, h), Follows(r, h, i)
    PROVE  Follows(r, g, i)
  BY DEF Follows

(* A gamepad follows itself.                                                 *)
LEMMA FollowsSelf ==
    ASSUME NEW r, NEW g, KInv(g), Shows(r, g.out, ReportOf(g))
    PROVE  Follows(r, g, g)
  BY DEF Follows

(* A step of ReleaseKeys.                                                    *)
ReleaseStep(h, k, keys) == IF k \in Held(h) /\ k \in keys THEN ApplyKey(h, k, FALSE)
                           ELSE h

(* A key that is not among the ones to release stays held.                   *)
LEMMA ReleaseStepDoes ==
    ASSUME NEW r, NEW g, NEW k \in KeySet, NEW keys,
           KInv(g), Shows(r, g.out, ReportOf(g)),
           NEW h, h = ReleaseStep(g, k, keys)
    PROVE  /\ Follows(r, g, h)
           /\ Held(h) = IF k \in keys THEN Held(g) \ {k} ELSE Held(g)
           /\ Quiet(k) \/ k \notin Held(g) \cap keys =>
                 NoNewRamp(g, h)
<1>1. CASE k \in Held(g) /\ k \in keys
  <2> DEFINE press == FALSE
  <2>1. h = ApplyKey(g, k, press)
    BY <1>1 DEF ReleaseStep
  <2>2. press \in BOOLEAN /\ ~press /\ (press <=> k \notin Held(g))
    BY <1>1
  <2> HIDE DEF press
  <2>3. /\ Follows(r, g, h)
        /\ Held(h) = Held(g) \ {k}
        /\ Quiet(k) => NoNewRamp(g, h)
    BY <2>1, <2>2, ApplyKeyDoes
  <2>4. QED
    BY <1>1, <2>3
<1>2. CASE ~(k \in Held(g) /\ k \in keys)
  <2>1. h = g
    BY <1>2 DEF ReleaseStep
  <2>2. QED
    BY <1>2, <2>1, FollowsSelf DEF NoNewRamp
<1>3. QED
  BY <1>1, <1>2

(* The keys of the spec are released one after the other.                    *)
LEMMA ReleaseKeysDoes ==
    ASSUME NEW r, NEW g, NEW keys, KInv(g), Shows(r, g.out, ReportOf(g))
    PROVE  LET h == ReleaseKeys(g, keys) IN
           /\ Follows(r, g, h)
           /\ Held(h) = Held(g) \ keys
           /\ (\A k \in Held(g) \cap keys : Quiet(k)) =>
                 NoNewRamp(g, h)
<1> DEFINE N == Len(Keys)
           after == CHOOSE f : f = [n \in 0 .. N |->
                       IF n = 0 THEN g ELSE ReleaseStep(f[n - 1], Keys[n], keys)]
<1>1. ReleaseKeys(g, keys) = after[N]
  BY DEF ReleaseKeys, ReleaseStep
<1>2. N \in Nat /\ \A n \in 1 .. N : Keys[n] \in KeySet
  BY KeysAssumption
<1>3. KeySet = {Keys[n] : n \in 1 .. N}
  BY KeysAssumption, InToSet DEF KeySet
<1> HIDE DEF N
<1> DEFINE X == {x \in KgStates : Follows(r, g, x)}
           F == [p \in X \X (1 .. N) |-> ReleaseStep(p[1], Keys[p[2]], keys)]
<1>4. ASSUME NEW x, Follows(r, g, x), NEW k \in KeySet
      PROVE  LET y == ReleaseStep(x, k, keys) IN
             /\ Follows(r, g, y) /\ y \in KgStates
             /\ Held(y) = IF k \in keys THEN Held(x) \ {k} ELSE Held(x)
             /\ Quiet(k) \/ k \notin Held(x) \cap keys =>
                   NoNewRamp(x, y)
  <2> DEFINE y == ReleaseStep(x, k, keys)
  <2>1. KInv(x) /\ Shows(r, x.out, ReportOf(x))
    BY <1>4 DEF Follows
  <2>2. /\ Follows(r, x, y) /\ Held(y) = IF k \in keys THEN Held(x) \ {k} ELSE Held(x)
        /\ Quiet(k) \/ k \notin Held(x) \cap keys =>
                   NoNewRamp(x, y)
    <3>1. y = ReleaseStep(x, k, keys)
      OBVIOUS
    <3> HIDE DEF y, X, F, after
    <3>2. Follows(r, x, y)
      BY <2>1, <3>1, ReleaseStepDoes
    <3>3. Held(y) = IF k \in keys THEN Held(x) \ {k} ELSE Held(x)
      BY <2>1, <3>1, ReleaseStepDoes
    <3>4. Quiet(k) \/ k \notin Held(x) \cap keys => NoNewRamp(x, y)
      BY <2>1, <3>1, ReleaseStepDoes
    <3>5. QED
      BY <3>2, <3>3, <3>4
  <2> HIDE DEF y
  <2>3. Follows(r, g, y) /\ y \in KgStates
    BY <1>4, <2>2, FollowsTrans DEF Follows, KInv
  <2>4. QED
    BY <2>2, <2>3 DEF y
<1>5. PICK f : IsRun(f, X, g, N, F)
  <2>1. g \in X
    BY FollowsSelf DEF KInv
  <2>2. F \in [X \X (1 .. N) -> X]
    <3> SUFFICES ASSUME NEW p \in X \X (1 .. N)
                 PROVE  ReleaseStep(p[1], Keys[p[2]], keys) \in X
      OBVIOUS
    <3>1. p[1] \in X /\ p[2] \in 1 .. N
      OBVIOUS
    <3>2. QED
      BY <1>2, <1>4, <3>1
  <2> HIDE DEF F, X, after
  <2>3. QED
    BY <1>2, <2>1, <2>2, Iterates
<1>6. f = [n \in 0 .. N |-> IF n = 0 THEN g
                            ELSE ReleaseStep(f[n - 1], Keys[n], keys)]
  <2>0. /\ f \in [0 .. N -> X] /\ f[0] = g
        /\ \A n \in 1 .. N : f[n] = F[<<f[n - 1], n>>]
    <3> HIDE DEF X, F
    <3>1. QED
      BY <1>5 DEF IsRun
  <2>1. ASSUME NEW n \in 1 .. N
        PROVE  f[n] = ReleaseStep(f[n - 1], Keys[n], keys)
    <3>1. <<f[n - 1], n>> \in X \X (1 .. N)
      <4> HIDE DEF X, F
      <4>1. n - 1 \in 0 .. N
        BY <1>2
      <4>2. QED
        BY <2>0, <4>1
    <3>2. <<f[n - 1], n>>[1] = f[n - 1] /\ <<f[n - 1], n>>[2] = n
      OBVIOUS
    <3> HIDE DEF X
    <3>3. F[<<f[n - 1], n>>] = ReleaseStep(f[n - 1], Keys[n], keys)
      BY <3>1, <3>2
    <3> HIDE DEF F
    <3>4. QED
      BY <2>0, <3>3
  <2> HIDE DEF X, F
  <2>2. \A n \in 0 .. N : n = 0 \/ n \in 1 .. N
    BY <1>2
  <2>3. \A n \in 0 .. N : f[n] = IF n = 0 THEN g
                                ELSE ReleaseStep(f[n - 1], Keys[n], keys)
    BY <2>0, <2>1, <2>2
  <2>4. f = [n \in 0 .. N |-> f[n]]
    BY <2>0
  <2>5. QED
    BY <2>3, <2>4
<1>7. after = [n \in 0 .. N |-> IF n = 0 THEN g
                                ELSE ReleaseStep(after[n - 1], Keys[n], keys)]
  <2> HIDE DEF X, F
  <2>1. QED
    BY <1>6
<1> HIDE DEF after, X, F
<1> DEFINE Done(n) == {Keys[j] : j \in 1 .. n} \cap keys
           Good(n) == /\ Follows(r, g, after[n])
                      /\ Held(after[n]) = Held(g) \ Done(n)
                      /\ (\A k \in Held(g) \cap keys : Quiet(k)) =>
                           NoNewRamp(g, after[n])
           S == {n \in 0 .. N : Good(n)}
<1>8. 0 \in S
  <2>1. after[0] = g /\ 0 \in 0 .. N
    BY <1>2, <1>7
  <2>2. Done(0) = {}
    OBVIOUS
  <2> HIDE DEF Done
  <2>3. QED
    BY <2>1, <2>2, FollowsSelf DEF NoNewRamp
<1>9. ASSUME NEW n \in 1 .. N, n - 1 \in S PROVE n \in S
  <2> DEFINE x == after[n - 1]
             y == after[n]
  <2>1. y = ReleaseStep(x, Keys[n], keys) /\ Keys[n] \in KeySet
    BY <1>2, <1>7
  <2>2. Good(n - 1)
    BY <1>9
  <2>3. /\ Follows(r, g, y)
        /\ Held(y) = IF Keys[n] \in keys THEN Held(x) \ {Keys[n]} ELSE Held(x)
        /\ Quiet(Keys[n]) \/ Keys[n] \notin Held(x) \cap keys =>
                   NoNewRamp(x, y)
    <3> HIDE DEF x, y
    <3>1. Follows(r, g, x)
      BY <2>2 DEF x
    <3>2. QED
      BY <1>4, <2>1, <3>1
  <2>4. Done(n) = Done(n - 1) \cup ({Keys[n]} \cap keys)
    <3>1. 1 .. n = (1 .. n - 1) \cup {n}
      BY <1>2
    <3>2. QED
      BY <3>1
  <2> HIDE DEF Done
  <2>5. Held(y) = Held(g) \ Done(n)
    BY <2>2, <2>3, <2>4
  <2>6. ASSUME \A k \in Held(g) \cap keys : Quiet(k)
        PROVE  NoNewRamp(g, y)
    <3>1. Held(x) \subseteq Held(g)
      BY <2>2
    <3>2. QED
      BY <2>2, <2>3, <2>6, <3>1 DEF NoNewRamp
  <2>7. QED
    BY <2>3, <2>5, <2>6
<1>10. Good(N)
  <2> HIDE DEF S
  <2>1. 0 .. N \subseteq S
    BY <1>2, <1>8, <1>9, PrefixInduction
  <2>2. N \in S
    BY <1>2, <2>1
  <2>3. QED
    BY <2>2 DEF S
<1>11. Held(g) \ Done(N) = Held(g) \ keys
  <2>1. Held(g) \subseteq KeySet
    BY InToSet DEF KInv, KgStates, Held
  <2>2. QED
    BY <1>3, <2>1
<1>12. QED
  BY <1>1, <1>10, <1>11

(* Every key is released.                                                    *)
LEMMA ReleaseAllDoes ==
    ASSUME NEW r, NEW g, KInv(g), Shows(r, g.out, ReportOf(g)),
           NEW h, h = ReleaseAll(g)
    PROVE  Follows(r, g, h) /\ Held(h) = {}
<1>1. h = ReleaseKeys(g, KeySet) /\ Held(g) \subseteq KeySet
  BY InToSet DEF ReleaseAll, KInv, KgStates, Held
<1>2. Follows(r, g, h) /\ Held(h) = Held(g) \ KeySet
  BY <1>1, ReleaseKeysDoes
<1>3. QED
  BY <1>1, <1>2

(* What depends on the held keys alone.                                      *)
LEMMA OfHeld ==
    ASSUME NEW g, NEW h, h.held = g.held
    PROVE  /\ Held(h) = Held(g) /\ StickCap(h) = StickCap(g)
           /\ WheelHeld(h) = WheelHeld(g)
           /\ \A p : PadPoints(h, p) = PadPoints(g, p)
  BY DEF Held, StickCap, WalkHeld, WheelHeld, ControlHeld, PadPoints, PadDirection

(* The mouse's position and motion are set, and the stick it moves is sent.  *)
MouseSet(g, b, m) ==
    LET g2 == [g EXCEPT !.moved = b, !.mouse = m]
    IN IF MousePad \in Sticks THEN SendStick(g2, MousePad) ELSE g2

(* Nothing but the mouse is another, and the report shows it.                *)
MouseIs(r, g, h, b, m) ==
    /\ KInv(h) /\ Shows(r, h.out, ReportOf(h))
    /\ h.held = g.held /\ h.moved = b /\ h.mouse = m
    /\ h.ramping = g.ramping /\ h.ticking = g.ticking /\ h.armed = g.armed

(* The mouse's stick is sent if the mouse moves one.                         *)
LEMMA MouseSetDoes ==
    ASSUME NEW r, NEW g, KInv(g), Shows(r, g.out, ReportOf(g)),
           NEW b \in BOOLEAN, NEW m \in 0 .. Speeds, NEW h, h = MouseSet(g, b, m)
    PROVE  MouseIs(r, g, h, b, m)
<1> DEFINE g2 == [g EXCEPT !.moved = b, !.mouse = m]
<1>1. /\ g2 \in KgStates /\ g2.moved = b /\ g2.mouse = m
      /\ g2.held = g.held /\ g2.dir = g.dir /\ g2.magnitude = g.magnitude
      /\ g2.sent = g.sent /\ g2.ramping = g.ramping
      /\ g2.ticking = g.ticking /\ g2.armed = g.armed /\ g2.out = g.out
  BY DEF KInv, KgStates
<1>2. h = IF MousePad \in Sticks THEN SendStick(g2, MousePad) ELSE g2
  BY DEF MouseSet
<1> HIDE DEF g2
<1>3. ReportOf(g2) = ReportOf(g)
  BY <1>1 DEF ReportOf, Held
<1>4. /\ h \in KgStates /\ h.moved = b /\ h.mouse = m
      /\ h.held = g.held /\ h.dir = g.dir /\ h.magnitude = g.magnitude
      /\ h.ramping = g.ramping /\ h.ticking = g.ticking /\ h.armed = g.armed
      /\ Shows(r, h.out, ReportOf(h))
      /\ MousePad \in Sticks => h.sent[MousePad] = StickPosition(g2, MousePad)
      /\ \A p \in Sticks \ {MousePad} : h.sent[p] = g.sent[p]
  <2>1. CASE MousePad \in Sticks
    <3>1. h = SendStick(g2, MousePad) /\ Shows(r, g2.out, ReportOf(g2))
      BY <1>1, <1>2, <1>3, <2>1
    <3>2. /\ h \in KgStates
          /\ h.sent = [g2.sent EXCEPT ![MousePad] = StickPosition(g2, MousePad)]
          /\ h.held = g2.held /\ h.dir = g2.dir /\ h.magnitude = g2.magnitude
          /\ h.ramping = g2.ramping /\ h.ticking = g2.ticking
          /\ h.armed = g2.armed /\ h.moved = g2.moved /\ h.mouse = g2.mouse
          /\ Shows(r, h.out, ReportOf(h))
      BY <1>1, <2>1, <3>1, SendStickShows
    <3>3. h.sent[MousePad] = StickPosition(g2, MousePad)
          /\ \A p \in Sticks \ {MousePad} : h.sent[p] = g.sent[p]
      BY <1>1, <2>1, <3>2 DEF KgStates
    <3>4. QED
      BY <1>1, <3>2, <3>3
  <2>2. CASE MousePad \notin Sticks
    BY <1>1, <1>2, <1>3, <2>2
  <2>3. QED
    BY <2>1, <2>2
<1>5. StickCap(h) = StickCap(g) /\ \A p : PadPoints(h, p) = PadPoints(g, p)
  BY <1>4, OfHeld
<1>6. ASSUME NEW p \in Sticks PROVE StickOk(h, p)
  <2>1. StickOk(g, p)
    BY DEF KInv
  <2>2. h.sent[p] = StickPosition(h, p)
    <3>1. CASE p = MousePad
      BY <1>1, <1>4, <3>1 DEF StickPosition
    <3>2. CASE p # MousePad
      BY <1>4, <2>1, <3>2 DEF StickPosition, StickOk
    <3>3. QED
      BY <3>1, <3>2
  <2>3. QED
    BY <1>4, <1>5, <2>1, <2>2 DEF StickOk
<1>7. KInv(h)
  BY <1>4, <1>5, <1>6 DEF KInv
<1>8. QED
  BY <1>4, <1>7 DEF MouseIs

(* sc_keyboard_gamepad_release_mouse                                         *)
LEMMA ReleaseMouseDoes ==
    ASSUME NEW r, NEW g, KInv(g), Shows(r, g.out, ReportOf(g)),
           NEW h, h = ReleaseMouse(g)
    PROVE  /\ KInv(h) /\ Shows(r, h.out, ReportOf(h))
           /\ Held(h) = {k \in Held(g) : Input[k] = "key"}
           /\ h.moved = FALSE /\ h.mouse = 0
           /\ g.ticking => h.ticking
           /\ Timed(g) => Timed(h)
<1> DEFINE keys == {k \in KeySet : Input[k] # "key"}
           g1 == ReleaseKeys(g, keys)
<1>1. h = MouseSet(g1, FALSE, 0)
  BY DEF ReleaseMouse, MouseSet
<1>2. Follows(r, g, g1) /\ Held(g1) = Held(g) \ keys
  <2> HIDE DEF keys
  <2>1. QED
    BY ReleaseKeysDoes
<1> HIDE DEF g1
<1>3. 0 \in 0 .. Speeds
  BY CapsAssumption
<1>4. /\ KInv(h) /\ Shows(r, h.out, ReportOf(h))
      /\ h.held = g1.held /\ h.moved = FALSE /\ h.mouse = 0
      /\ h.ramping = g1.ramping /\ h.ticking = g1.ticking /\ h.armed = g1.armed
  <2> DEFINE still == FALSE
  <2>1. h = MouseSet(g1, still, 0) /\ still \in BOOLEAN
    BY <1>1
  <2>2. still = FALSE
    OBVIOUS
  <2> HIDE DEF still
  <2>3. KInv(g1) /\ Shows(r, g1.out, ReportOf(g1))
    BY <1>2 DEF Follows
  <2>4. MouseIs(r, g1, h, still, 0)
    BY <1>3, <2>1, <2>3, MouseSetDoes
  <2>5. QED
    BY <2>2, <2>4 DEF MouseIs
<1>5. Held(g) \subseteq KeySet
  BY InToSet DEF KInv, KgStates, Held
<1>6. Held(h) = {k \in Held(g) : Input[k] = "key"}
  BY <1>2, <1>4, <1>5 DEF Held
<1>7. QED
  BY <1>2, <1>4, <1>6 DEF Follows, Timed

(* The ticks are asked for.                                                  *)
LEMMA StartTickingDoes ==
    ASSUME NEW g, KInv(g), NEW h, h = StartTicking(g)
    PROVE  /\ KInv(h) /\ h.ticking = TRUE /\ (Timed(g) => Timed(h))
           /\ h.held = g.held /\ h.dir = g.dir /\ h.sent = g.sent
           /\ h.ramping = g.ramping
           /\ h.moved = g.moved /\ h.mouse = g.mouse /\ h.out = g.out
<1>1. /\ h \in KgStates /\ h.ticking = TRUE /\ h.held = g.held /\ h.dir = g.dir
      /\ h.magnitude = g.magnitude /\ h.sent = g.sent /\ h.ramping = g.ramping
      /\ h.moved = g.moved /\ h.mouse = g.mouse /\ h.out = g.out
      /\ h.armed = (g.ticking => g.armed)
  BY DEF StartTicking, KInv, KgStates
<1>2. StickCap(h) = StickCap(g) /\ \A p : PadPoints(h, p) = PadPoints(g, p)
  BY <1>1, OfHeld
<1>3. ASSUME NEW p \in Sticks PROVE StickOk(h, p)
  <2>1. StickOk(g, p)
    BY DEF KInv
  <2>2. QED
    BY <1>1, <1>2, <2>1, StickKept
<1>4. KInv(h)
  BY <1>1, <1>2, <1>3 DEF KInv
<1>5. Timed(g) => Timed(h)
  BY <1>1 DEF Timed
<1>6. QED
  BY <1>1, <1>4, <1>5

(* sc_keyboard_gamepad_handle_mouse_motion                                   *)
LEMMA MouseMotionDoes ==
    ASSUME NEW r, NEW g, KInv(g), Shows(r, g.out, ReportOf(g)),
           NEW h, h = MouseMotion(g)
    PROVE  /\ KInv(h) /\ Shows(r, h.out, ReportOf(h))
           /\ h.held = g.held /\ h.moved = TRUE /\ h.mouse = g.mouse
           /\ h.ticking = TRUE /\ (Timed(g) => Timed(h))
<1> DEFINE g1 == [g EXCEPT !.moved = TRUE]
<1>1. /\ g1 \in KgStates /\ g1.moved = TRUE /\ g1.mouse = g.mouse
      /\ g1.held = g.held /\ g1.dir = g.dir /\ g1.magnitude = g.magnitude
      /\ g1.sent = g.sent /\ g1.ramping = g.ramping
      /\ g1.ticking = g.ticking /\ g1.armed = g.armed /\ g1.out = g.out
  BY DEF KInv, KgStates
<1>2. h = StartTicking(g1)
  BY DEF MouseMotion
<1> HIDE DEF g1
<1>3. StickCap(g1) = StickCap(g) /\ \A p : PadPoints(g1, p) = PadPoints(g, p)
  BY <1>1, OfHeld
<1>4. ASSUME NEW p \in Sticks PROVE StickOk(g1, p)
  <2>1. StickOk(g, p)
    BY DEF KInv
  <2>2. QED
    BY <1>1, <1>3, <2>1, StickKept
<1>5. KInv(g1)
  BY <1>1, <1>3, <1>4 DEF KInv
<1>6. /\ KInv(h) /\ h.ticking = TRUE /\ (Timed(g1) => Timed(h))
      /\ h.held = g1.held /\ h.dir = g1.dir /\ h.sent = g1.sent
      /\ h.moved = g1.moved /\ h.mouse = g1.mouse /\ h.out = g1.out
  BY <1>2, <1>5, StartTickingDoes
<1>7. Timed(g) => Timed(g1)
  BY <1>1 DEF Timed
<1>8. ReportOf(h) = ReportOf(g)
  BY <1>1, <1>6 DEF ReportOf, Held
<1>9. QED
  BY <1>1, <1>6, <1>7, <1>8

(* A notch is held, and timed.                                               *)
NotchTaken(r, g, h, k) ==
    /\ KInv(h) /\ Shows(r, h.out, ReportOf(h))
    /\ Held(h) = Held(g) \cup {k}
    /\ h.moved = g.moved /\ h.mouse = g.mouse
    /\ h.ticking = TRUE /\ (Timed(g) => Timed(h))

(* sc_keyboard_gamepad_handle_mouse_wheel                                    *)
LEMMA WheelNotchDoes ==
    ASSUME NEW r, NEW g, KInv(g), Shows(r, g.out, ReportOf(g)),
           NEW k \in KeySet, NEW h, h = WheelNotch(g, k)
    PROVE  NotchTaken(r, g, h, k)
<1> DEFINE press == TRUE
           g1 == IF k \in Held(g) THEN g ELSE ApplyKey(g, k, press)
<1>1. h = StartTicking(g1)
  BY DEF WheelNotch
<1>2. press \in BOOLEAN /\ press
  OBVIOUS
<1> HIDE DEF press
<1>3. Follows(r, g, g1) /\ Held(g1) = Held(g) \cup {k}
  <2>1. CASE k \in Held(g)
    <3>1. Follows(r, g, g)
      BY FollowsSelf
    <3>2. QED
      BY <2>1, <3>1
  <2>2. CASE k \notin Held(g)
    <3>1. g1 = ApplyKey(g, k, press) /\ (press <=> k \notin Held(g))
      BY <1>2, <2>2
    <3> HIDE DEF g1
    <3>2. QED
      BY <1>2, <3>1, ApplyKeyDoes
  <2>3. QED
    BY <2>1, <2>2
<1> HIDE DEF g1
<1>4. /\ KInv(h) /\ h.ticking = TRUE /\ (Timed(g1) => Timed(h))
      /\ h.held = g1.held /\ h.dir = g1.dir /\ h.sent = g1.sent
      /\ h.moved = g1.moved /\ h.mouse = g1.mouse /\ h.out = g1.out
  BY <1>1, <1>3, StartTickingDoes DEF Follows
<1>5. ReportOf(h) = ReportOf(g1) /\ Held(h) = Held(g1)
  BY <1>4 DEF ReportOf, Held
<1>6. QED
  BY <1>3, <1>4, <1>5 DEF Follows, NotchTaken

(* A stick that ramps, at a tick.                                            *)
RampStep(g, p, step) ==
    IF p \notin Sticks \/ ~g.ramping[p] THEN g
    ELSE LET m == g.magnitude[p] + step IN
         SendStick(IF m >= StickCap(g)
                   THEN [g EXCEPT !.magnitude[p] = StickCap(g), !.ramping[p] = FALSE]
                   ELSE [g EXCEPT !.magnitude[p] = m], p)

(* A tick never starts a ramp, and leaves the keys.                          *)
LEMMA RampStepDoes ==
    ASSUME NEW r, NEW g, KInv(g), Shows(r, g.out, ReportOf(g)), NEW p,
           NEW step \in 0 .. FullCap, NEW h, h = RampStep(g, p, step)
    PROVE  /\ KInv(h) /\ Shows(r, h.out, ReportOf(h)) /\ NoNewRamp(g, h)
           /\ h.held = g.held /\ h.moved = g.moved /\ h.mouse = g.mouse
           /\ h.ticking = g.ticking /\ h.armed = g.armed
<1>1. CASE p \notin Sticks \/ ~g.ramping[p]
  BY <1>1 DEF RampStep, NoNewRamp
<1>2. CASE p \in Sticks /\ g.ramping[p]
  <2> DEFINE cap == StickCap(g)
             m == g.magnitude[p] + step
             M == IF m >= cap THEN cap ELSE m
             R == IF m >= cap THEN FALSE ELSE g.ramping[p]
             x == [g EXCEPT !.magnitude = [g.magnitude EXCEPT ![p] = M],
                            !.ramping = [g.ramping EXCEPT ![p] = R]]
  <2>1. /\ g \in KgStates /\ cap \in 1 .. FullCap /\ FullCap \in Nat
        /\ g.magnitude \in [Sticks -> 0 .. FullCap]
        /\ g.ramping \in [Sticks -> BOOLEAN]
    BY CapType DEF KInv, KgStates
  <2> HIDE DEF cap
  <2>2. M \in 0 .. FullCap /\ R \in BOOLEAN
    BY <1>2, <2>1
  <2>3. h = SendStick(x, p)
    <3>1. CASE m >= cap
      BY <1>2, <2>1, <3>1 DEF RampStep, cap
    <3>2. CASE ~(m >= cap)
      <4>1. [g.ramping EXCEPT ![p] = R] = g.ramping
        BY <2>1, <3>2
      <4>2. x = [g EXCEPT !.magnitude = [g.magnitude EXCEPT ![p] = m]]
        BY <2>1, <3>2, <4>1 DEF KgStates
      <4> HIDE DEF x
      <4>3. QED
        BY <1>2, <3>2, <4>2 DEF RampStep, cap
    <3>3. QED
      BY <3>1, <3>2
  <2>4. M = cap \/ R = g.ramping[p]
    OBVIOUS
  <2>5. R => g.ramping[p]
    BY <2>1
  <2>6. ~R => M = cap
    BY <1>2
  <2> HIDE DEF M, R
  <2>7. /\ x \in KgStates /\ x.held = g.held /\ x.dir = g.dir /\ x.sent = g.sent
        /\ x.moved = g.moved /\ x.mouse = g.mouse /\ x.out = g.out
        /\ x.ticking = g.ticking /\ x.armed = g.armed
        /\ x.magnitude[p] = M /\ x.ramping[p] = R
        /\ \A q \in Sticks \ {p} : /\ x.magnitude[q] = g.magnitude[q]
                                   /\ x.ramping[q] = g.ramping[q]
    BY <1>2, <2>1, <2>2 DEF KgStates
  <2> HIDE DEF x
  <2>8. ReportOf(x) = ReportOf(g)
    BY <2>7 DEF ReportOf, Held
  <2>9. /\ h \in KgStates
        /\ h.sent = [x.sent EXCEPT ![p] = StickPosition(x, p)]
        /\ h.held = x.held /\ h.dir = x.dir /\ h.magnitude = x.magnitude
        /\ h.ramping = x.ramping /\ h.ticking = x.ticking
        /\ h.armed = x.armed /\ h.moved = x.moved /\ h.mouse = x.mouse
        /\ Shows(r, h.out, ReportOf(h))
    BY <1>2, <2>3, <2>7, <2>8, SendStickShows
  <2>10. h.sent[p] = StickPosition(x, p)
         /\ \A q \in Sticks \ {p} : h.sent[q] = g.sent[q]
    BY <1>2, <2>7, <2>9 DEF KgStates
  <2>11. StickCap(h) = cap /\ \A q : PadPoints(h, q) = PadPoints(g, q)
    BY <2>7, <2>9, OfHeld DEF cap
  <2>12. StickOk(h, p)
    <3>1. StickPosition(h, p) = StickPosition(x, p)
      BY <2>9 DEF StickPosition
    <3>2. ~Centered(g.dir[p])
      BY <1>2 DEF KInv, StickOk
    <3>3. QED
      BY <2>6, <2>7, <2>9, <2>10, <2>11, <3>1, <3>2 DEF StickOk
  <2>13. Distinct(h.held) /\ \A q \in Pads : h.dir[q] = PadPoints(h, q)
    BY <2>7, <2>9, <2>11 DEF KInv
  <2>14. \A q \in Sticks \ {p} :
              /\ h.dir[q] = g.dir[q] /\ h.sent[q] = g.sent[q]
              /\ h.magnitude[q] = g.magnitude[q] /\ h.ramping[q] = g.ramping[q]
    BY <2>7, <2>9, <2>10
  <2>15. KInv(h)
    <3>1. StickCap(h) = StickCap(g) /\ h.mouse = g.mouse /\ h \in KgStates
      BY <2>7, <2>9, <2>11 DEF cap
    <3>2. QED
      BY <2>12, <2>13, <2>14, <3>1, KInvAfter
  <2>16. NoNewRamp(g, h)
    BY <1>2, <2>5, <2>7, <2>9 DEF NoNewRamp
  <2>17. QED
    BY <2>7, <2>9, <2>15, <2>16
<1>3. QED
  BY <1>1, <1>2

(* What is left for the ticks to do is timed.                                *)
WorkTimed(g) == /\ Timed(g)
                /\ WheelHeld(g) # {} \/ g.moved \/ g.mouse # 0 => g.ticking

(* The tick's share of the mouse: its motion gives the position.             *)
MouseStep(g, m) ==
    IF MousePad \notin Sticks THEN g
    ELSE SendStick([g EXCEPT !.moved = FALSE, !.mouse = m], MousePad)

MouseStepped(r, g, h, m) ==
    /\ KInv(h) /\ Shows(r, h.out, ReportOf(h))
    /\ h.held = g.held /\ h.ramping = g.ramping /\ h.armed = g.armed
    /\ MousePad \in Sticks => h.moved = FALSE /\ h.mouse = m
    /\ MousePad \notin Sticks => h.moved = g.moved /\ h.mouse = g.mouse

(* Without a stick for the mouse, its share is nothing.                      *)
LEMMA MouseStepDoes ==
    ASSUME NEW r, NEW g, KInv(g), Shows(r, g.out, ReportOf(g)),
           NEW m \in 0 .. Speeds, NEW h, h = MouseStep(g, m)
    PROVE  MouseStepped(r, g, h, m)
<1>1. CASE MousePad \in Sticks
  <2> DEFINE still == FALSE
  <2>1. h = MouseSet(g, still, m) /\ still \in BOOLEAN
    BY <1>1 DEF MouseSet, MouseStep
  <2>2. still = FALSE
    OBVIOUS
  <2> HIDE DEF still
  <2>3. MouseIs(r, g, h, still, m)
    BY <2>1, MouseSetDoes
  <2>4. QED
    BY <1>1, <2>2, <2>3 DEF MouseIs, MouseStepped
<1>2. CASE MousePad \notin Sticks
  BY <1>2 DEF MouseStep, MouseStepped
<1>3. QED
  BY <1>1, <1>2

(* The timer is stopped if there is no more to do.                           *)
Ticked(t) == [t EXCEPT !.armed = t.ticking /\ @]

(* A tick releases what is due, moves the mouse's stick, and the next one    *)
(* comes if there is anything left to do.                                    *)
TickDone(r, g, h, due) ==
    /\ KInv(h) /\ Shows(r, h.out, ReportOf(h))
    /\ Held(h) = Held(g) \ due
    /\ MousePad \in Sticks =>
          /\ h.moved = FALSE
          /\ ~g.moved /\ g.mouse = 0 => h.mouse = 0
    /\ MousePad \notin Sticks => h.moved = g.moved /\ h.mouse = g.mouse
    /\ /\ \A k \in Held(g) \cap due : Quiet(k)
       /\ MousePad \notin Sticks => ~g.moved
       /\ WorkTimed(g)
       => WorkTimed(h)

(* sc_keyboard_gamepad_tick, and the timer with it.  A ramp that the release *)
(* of a notch starts would not be timed.                                     *)
LEMMA TickDoes ==
    ASSUME NEW r, NEW g, KInv(g), Shows(r, g.out, ReportOf(g)),
           NEW step \in 0 .. FullCap, NEW due, NEW speed \in 0 .. Speeds,
           NEW stopped \in BOOLEAN,
           NEW t, t = Tick(g, step, due, speed, stopped),
           NEW h, h = Ticked(t)
    PROVE  TickDone(r, g, h, due)
<1> DEFINE gl == RampStep(g, "left", step)
           g1 == RampStep(gl, "right", step)
           g2 == ReleaseKeys(g1, due)
           m == IF g2.moved THEN speed ELSE IF stopped THEN 0 ELSE g2.mouse
           g3 == MouseStep(g2, m)
           more == \/ \E p \in Sticks : g1.ramping[p]
                   \/ WheelHeld(g1) \ due # {}
                   \/ g3.mouse # 0
<1>1. t = [g3 EXCEPT !.ticking = more]
  BY DEF Tick, RampStep, MouseStep
<1>2. /\ KInv(gl) /\ Shows(r, gl.out, ReportOf(gl)) /\ NoNewRamp(g, gl)
      /\ gl.held = g.held /\ gl.moved = g.moved /\ gl.mouse = g.mouse
      /\ gl.ticking = g.ticking /\ gl.armed = g.armed
  BY RampStepDoes
<1> HIDE DEF gl
<1>3. g1 = RampStep(gl, "right", step)
  OBVIOUS
<1> HIDE DEF g1
<1>4. /\ KInv(g1) /\ Shows(r, g1.out, ReportOf(g1)) /\ NoNewRamp(gl, g1)
      /\ g1.held = gl.held /\ g1.moved = gl.moved /\ g1.mouse = gl.mouse
      /\ g1.ticking = gl.ticking /\ g1.armed = gl.armed
  BY <1>2, <1>3, RampStepDoes
<1>5. /\ Follows(r, g1, g2) /\ Held(g2) = Held(g1) \ due
      /\ (\A k \in Held(g1) \cap due : Quiet(k)) => NoNewRamp(g1, g2)
  BY <1>4, ReleaseKeysDoes
<1> HIDE DEF g2
<1>6. Held(g1) = Held(g) /\ WheelHeld(g1) = WheelHeld(g)
  BY <1>2, <1>4, OfHeld
<1>7. /\ KInv(g3) /\ Shows(r, g3.out, ReportOf(g3))
      /\ g3.held = g2.held /\ g3.ramping = g2.ramping /\ g3.armed = g2.armed
      /\ MousePad \in Sticks => g3.moved = FALSE /\ g3.mouse = m
      /\ MousePad \notin Sticks => g3.moved = g2.moved /\ g3.mouse = g2.mouse
  <2>0. KInv(g2) /\ Shows(r, g2.out, ReportOf(g2))
    BY <1>5 DEF Follows
  <2>1. m \in 0 .. Speeds
    BY <2>0, CapsAssumption DEF KInv, KgStates
  <2>2. g3 = MouseStep(g2, m)
    OBVIOUS
  <2> HIDE DEF g3, m
  <2>3. MouseStepped(r, g2, g3, m)
    BY <2>0, <2>1, <2>2, MouseStepDoes
  <2>4. QED
    BY <2>3 DEF MouseStepped
<1> HIDE DEF g3, more
<1>8. more \in BOOLEAN
  BY DEF more
<1>9. /\ h \in KgStates /\ h.held = g3.held /\ h.dir = g3.dir
      /\ h.magnitude = g3.magnitude /\ h.sent = g3.sent /\ h.ramping = g3.ramping
      /\ h.moved = g3.moved /\ h.mouse = g3.mouse /\ h.out = g3.out
      /\ h.ticking = more /\ h.armed = (more /\ g3.armed)
  <2>1. g3 \in KgStates
    BY <1>7 DEF KInv
  <2>2. /\ t \in KgStates /\ t.held = g3.held /\ t.dir = g3.dir
        /\ t.magnitude = g3.magnitude /\ t.sent = g3.sent /\ t.ramping = g3.ramping
        /\ t.moved = g3.moved /\ t.mouse = g3.mouse /\ t.out = g3.out
        /\ t.ticking = more /\ t.armed = g3.armed
    BY <1>1, <1>8, <2>1 DEF KgStates
  <2>3. QED
    BY <1>8, <2>2 DEF KgStates, Ticked
<1>10. /\ StickCap(h) = StickCap(g3) /\ Held(h) = Held(g3)
      /\ \A p : PadPoints(h, p) = PadPoints(g3, p)
  <2>1. h.held = g3.held
    BY <1>9
  <2>2. QED
    BY <2>1, OfHeld
<1>11. KInv(h)
  <2>1. ASSUME NEW p \in Sticks PROVE StickOk(h, p)
    <3>1. StickOk(g3, p)
      BY <1>7 DEF KInv
    <3>2. QED
      BY <1>9, <1>10, <3>1, StickKept
  <2>2. QED
    BY <1>7, <1>9, <1>10, <2>1 DEF KInv
<1>12. Shows(r, h.out, ReportOf(h))
  BY <1>7, <1>9, <1>10 DEF ReportOf
<1>13. Held(h) = Held(g) \ due
  <2>1. Held(g3) = Held(g2)
    BY <1>7, OfHeld
  <2>2. QED
    BY <1>5, <1>6, <1>10, <2>1
<1>14. g2.moved = g.moved /\ g2.mouse = g.mouse
  BY <1>2, <1>4, <1>5 DEF Follows
<1>15. /\ MousePad \in Sticks =>
                 /\ h.moved = FALSE
                 /\ ~g.moved /\ g.mouse = 0 => h.mouse = 0
       /\ MousePad \notin Sticks => h.moved = g.moved /\ h.mouse = g.mouse
  BY <1>7, <1>9, <1>14
<1>16. ASSUME \A k \in Held(g) \cap due : Quiet(k),
              MousePad \notin Sticks => ~g.moved, WorkTimed(g)
       PROVE  WorkTimed(h)
  <2>1. NoNewRamp(g1, g2) /\ NoNewRamp(g, g1)
    BY <1>2, <1>4, <1>5, <1>6, <1>16 DEF NoNewRamp
  <2>2. Timed(g1) /\ Timed(g2)
    BY <1>2, <1>4, <1>5, <1>16, <2>1 DEF WorkTimed, Timed, NoNewRamp, Follows
  <2>3. (\E p \in Sticks : h.ramping[p]) => more
    BY <1>7, <1>9, <2>1 DEF NoNewRamp, more
  <2>4. more => g.ticking
    <3>1. CASE \E p \in Sticks : g1.ramping[p]
      BY <1>16, <2>1, <3>1 DEF NoNewRamp, WorkTimed, Timed
    <3>2. CASE WheelHeld(g1) \ due # {}
      BY <1>6, <1>16, <3>2 DEF WorkTimed
    <3>3. CASE g3.mouse # 0
      <4>1. g.moved \/ g.mouse # 0
        BY <1>7, <1>14, <3>3
      <4>2. QED
        BY <1>16, <4>1 DEF WorkTimed
    <3>4. QED
      BY <3>1, <3>2, <3>3 DEF more
  <2>5. g.ticking => g3.armed
    BY <1>2, <1>4, <1>5, <1>7, <2>2 DEF Follows, Timed
  <2>6. Timed(h)
    BY <1>9, <2>3, <2>4, <2>5 DEF Timed
  <2>7. WheelHeld(h) = WheelHeld(g1) \ due
    BY <1>6, <1>13 DEF WheelHeld
  <2>8. ~h.moved
    BY <1>15, <1>16
  <2>9. QED
    BY <1>9, <2>6, <2>7, <2>8 DEF WorkTimed, more
<1>17. QED
  BY <1>11, <1>12, <1>13, <1>15, <1>16 DEF TickDone

=============================================================================
