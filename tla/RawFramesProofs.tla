--------------------------- MODULE RawFramesProofs ---------------------------
(* Theorems about RawFrames, for every number of slots, frames, connections, *)
(* window changes and every set of frame sizes.                              *)
EXTENDS RawFrames, WellFoundedInduction, TLAPS
-----------------------------------------------------------------------------
(* The order of IKAS (announcement of a shared memory) and IKAN (notice of a *)
(* frame in a slot of it) on the socket from ika_stream to a console.  q is  *)
(* the sequence of messages on their way, c the memory the console has       *)
(* mapped (0 for none), n the number of memories made so far.  Messages are  *)
(* records with a magic; IKAS and IKAN also have a map.                      *)

IsInit(m) == m.magic = "IKAS"
IsNotice(m) == m.magic = "IKAN"

(* Memories are announced in the order they are made, ...                    *)
InitsToCome(q, c, n) ==
    \A i \in 1 .. Len(q) : IsInit(q[i]) => q[i].map \in (c + 1) .. n

InitsAscend(q) ==
    \A i, j \in 1 .. Len(q) :
        i < j /\ IsInit(q[i]) /\ IsInit(q[j]) => q[i].map < q[j].map

(* ... a notice comes after the announcement of its memory ...               *)
NoticesAnnounced(q, c) ==
    \A i \in 1 .. Len(q) : IsNotice(q[i]) =>
        /\ q[i].map \in Nat \ {0}
        /\ \/ q[i].map = c
           \/ \E j \in 1 .. Len(q) :
                 j < i /\ IsInit(q[j]) /\ q[j].map = q[i].map

(* ... and before the next announcement.                                     *)
NoticesInOrder(q) ==
    \A i, j \in 1 .. Len(q) :
        i < j /\ IsInit(q[i]) /\ IsNotice(q[j]) => q[i].map <= q[j].map

Ordered(q, c, n) ==
    /\ InitsToCome(q, c, n) /\ InitsAscend(q)
    /\ NoticesAnnounced(q, c) /\ NoticesInOrder(q)

(* m is the memory announced last: the client has it or will have it next.   *)
Announced(q, c, m) ==
    /\ m = c \/ \E i \in 1 .. Len(q) : IsInit(q[i]) /\ q[i].map = m
    /\ \A i \in 1 .. Len(q) : IsInit(q[i]) => q[i].map <= m
-----------------------------------------------------------------------------
(* Sequences.                                                                *)

(* One element of a sequence changes.                                        *)
LEMMA SeqExcept ==
    ASSUME NEW S, NEW q \in Seq(S), NEW i \in 1 .. Len(q), NEW e \in S
    PROVE  /\ [q EXCEPT ![i] = e] \in Seq(S)
           /\ Len([q EXCEPT ![i] = e]) = Len(q)
           /\ \A j \in 1 .. Len(q) :
                 [q EXCEPT ![i] = e][j] = IF j = i THEN e ELSE q[j]
  OBVIOUS

(* The first element is taken.                                               *)
LEMMA SeqTail ==
    ASSUME NEW S, NEW q \in Seq(S), q # << >>
    PROVE  /\ Head(q) = q[1] /\ Head(q) \in S
           /\ Len(q) \in Nat /\ Len(q) >= 1
           /\ Tail(q) \in Seq(S)
           /\ Len(Tail(q)) = Len(q) - 1
           /\ \A j \in 1 .. Len(Tail(q)) : Tail(q)[j] = q[j + 1]
  OBVIOUS

(* An element is added.                                                      *)
LEMMA SeqAppend ==
    ASSUME NEW S, NEW q \in Seq(S), NEW e \in S
    PROVE  /\ Append(q, e) \in Seq(S)
           /\ Len(Append(q, e)) = Len(q) + 1
           /\ Append(q, e)[Len(q) + 1] = e
           /\ \A j \in 1 .. Len(q) : Append(q, e)[j] = q[j]
  OBVIOUS

(* Two sequences in a row.                                                   *)
LEMMA SeqConcat ==
    ASSUME NEW S, NEW q \in Seq(S), NEW r \in Seq(S)
    PROVE  /\ q \o r \in Seq(S)
           /\ Len(q \o r) = Len(q) + Len(r)
           /\ \A j \in 1 .. Len(q) : (q \o r)[j] = q[j]
           /\ \A j \in 1 .. Len(r) : (q \o r)[Len(q) + j] = r[j]
  OBVIOUS
-----------------------------------------------------------------------------
(* The order is kept.                                                        *)

(* Nothing on its way.                                                       *)
LEMMA OrderEmpty ==
    ASSUME NEW c, NEW n
    PROVE  Ordered(<< >>, c, n)
  BY DEF Ordered, InitsToCome, InitsAscend, NoticesAnnounced, NoticesInOrder

(* More memories do not disturb the order.                                   *)
LEMMA OrderMore ==
    ASSUME NEW q, NEW c \in Nat, NEW n \in Nat, NEW k \in Nat, n <= k,
           Ordered(q, c, n)
    PROVE  Ordered(q, c, k)
<1>1. InitsToCome(q, c, k)
  BY DEF Ordered, InitsToCome
<1>2. QED
  BY <1>1 DEF Ordered

(* Another message does not disturb the order.                               *)
LEMMA OrderAppendOther ==
    ASSUME NEW S, NEW q \in Seq(S), NEW m \in S, NEW c \in Nat, NEW n \in Nat,
           Ordered(q, c, n), ~IsInit(m), ~IsNotice(m)
    PROVE  Ordered(Append(q, m), c, n)
<1> DEFINE r == Append(q, m)
<1>1. /\ Len(q) \in Nat /\ Len(r) = Len(q) + 1 /\ r[Len(r)] = m
      /\ \A i \in 1 .. Len(q) : r[i] = q[i]
  OBVIOUS
<1> HIDE DEF r
<1>2. InitsToCome(r, c, n)
  BY <1>1 DEF Ordered, InitsToCome
<1>3. InitsAscend(r)
  BY <1>1 DEF Ordered, InitsAscend
<1>4. NoticesAnnounced(r, c)
  BY <1>1 DEF Ordered, NoticesAnnounced
<1>5. NoticesInOrder(r)
  BY <1>1 DEF Ordered, NoticesInOrder
<1>6. QED
  BY <1>2, <1>3, <1>4, <1>5 DEF Ordered, r

(* The announcement of the next memory.                                      *)
LEMMA OrderAppendInit ==
    ASSUME NEW S, NEW q \in Seq(S), NEW m \in S, NEW c \in Nat, NEW n \in Nat,
           Ordered(q, c, n), c <= n, IsInit(m), m.map = n + 1, ~IsNotice(m)
    PROVE  Ordered(Append(q, m), c, n + 1)
<1> DEFINE r == Append(q, m)
<1>1. /\ Len(q) \in Nat /\ Len(r) = Len(q) + 1 /\ r[Len(r)] = m
      /\ \A i \in 1 .. Len(q) : r[i] = q[i]
  OBVIOUS
<1> HIDE DEF r
<1>2. InitsToCome(r, c, n + 1)
  BY <1>1 DEF Ordered, InitsToCome
<1>3. InitsAscend(r)
  BY <1>1 DEF Ordered, InitsAscend, InitsToCome
<1>4. NoticesAnnounced(r, c)
  BY <1>1 DEF Ordered, NoticesAnnounced
<1>5. NoticesInOrder(r)
  BY <1>1 DEF Ordered, NoticesInOrder
<1>6. QED
  BY <1>2, <1>3, <1>4, <1>5 DEF Ordered, r

(* A notice about the memory announced last.                                 *)
LEMMA OrderAppendNotice ==
    ASSUME NEW S, NEW q \in Seq(S), NEW m \in S, NEW c \in Nat, NEW n \in Nat,
           Ordered(q, c, n), IsNotice(m), m.map \in Nat \ {0}, ~IsInit(m),
           Announced(q, c, m.map)
    PROVE  Ordered(Append(q, m), c, n)
<1> DEFINE r == Append(q, m)
<1>1. /\ Len(q) \in Nat /\ Len(r) = Len(q) + 1 /\ r[Len(r)] = m
      /\ \A i \in 1 .. Len(q) : r[i] = q[i]
  OBVIOUS
<1> HIDE DEF r
<1>2. InitsToCome(r, c, n)
  BY <1>1 DEF Ordered, InitsToCome
<1>3. InitsAscend(r)
  BY <1>1 DEF Ordered, InitsAscend
<1>4. NoticesAnnounced(r, c)
  BY <1>1 DEF Ordered, NoticesAnnounced, Announced
<1>5. NoticesInOrder(r)
  BY <1>1 DEF Ordered, NoticesInOrder, Announced
<1>6. QED
  BY <1>2, <1>3, <1>4, <1>5 DEF Ordered, r

(* The client takes the announcement: its memory is the current one.         *)
LEMMA OrderTailInit ==
    ASSUME NEW S, NEW q \in Seq(S), q # << >>, NEW c \in Nat, NEW n \in Nat,
           Ordered(q, c, n), IsInit(Head(q))
    PROVE  Ordered(Tail(q), Head(q).map, n)
<1> DEFINE r == Tail(q)
<1>1. /\ Len(q) \in Nat /\ Len(r) = Len(q) - 1 /\ Len(q) >= 1 /\ Head(q) = q[1]
      /\ \A i \in 1 .. Len(r) : r[i] = q[i + 1]
  OBVIOUS
<1> HIDE DEF r
<1>7. \A i, j \in 1 .. Len(r) :
         i < j => /\ i + 1 \in 1 .. Len(q) /\ j + 1 \in 1 .. Len(q)
                  /\ i + 1 < j + 1 /\ r[i] = q[i + 1] /\ r[j] = q[j + 1]
  BY <1>1
<1>2. InitsToCome(r, Head(q).map, n)
  BY <1>1 DEF Ordered, InitsToCome, InitsAscend
<1>3. InitsAscend(r)
  BY <1>7 DEF Ordered, InitsAscend
<1>4. NoticesAnnounced(r, Head(q).map)
  <2> SUFFICES ASSUME NEW i \in 1 .. Len(r), IsNotice(r[i])
               PROVE  /\ r[i].map \in Nat \ {0}
                      /\ \/ r[i].map = q[1].map
                         \/ \E j \in 1 .. Len(r) :
                              j < i /\ IsInit(r[j]) /\ r[j].map = r[i].map
    BY <1>1 DEF NoticesAnnounced
  <2>1. r[i] = q[i + 1] /\ i + 1 \in 1 .. Len(q) /\ 1 \in 1 .. Len(q) /\ 1 < i + 1
    BY <1>1
  <2>2. q[1].map <= q[i + 1].map /\ q[1].map \in (c + 1) .. n
    BY <1>1, <2>1 DEF Ordered, NoticesInOrder, InitsToCome
  <2>3. /\ q[i + 1].map \in Nat \ {0}
        /\ \/ q[i + 1].map = c
           \/ \E j \in 1 .. Len(q) :
                 j < i + 1 /\ IsInit(q[j]) /\ q[j].map = q[i + 1].map
    BY <2>1 DEF Ordered, NoticesAnnounced
  <2>4. PICK j \in 1 .. Len(q) :
                 j < i + 1 /\ IsInit(q[j]) /\ q[j].map = q[i + 1].map
    <3>1. q[i + 1].map # c
      BY <2>2, <2>3
    <3>2. QED
      BY <2>3, <3>1
  <2>5. CASE j # 1
    <3>1. j - 1 \in 1 .. Len(r) /\ r[j - 1] = q[j] /\ j - 1 < i
      BY <1>1, <2>4, <2>5
    <3>2. QED
      BY <2>1, <2>3, <2>4, <3>1
  <2>6. QED
    BY <2>1, <2>3, <2>4, <2>5
<1>5. NoticesInOrder(r)
  BY <1>7 DEF Ordered, NoticesInOrder
<1>6. QED
  BY <1>2, <1>3, <1>4, <1>5 DEF Ordered, r

(* The client takes another message.                                         *)
LEMMA OrderTailOther ==
    ASSUME NEW S, NEW q \in Seq(S), q # << >>, NEW c \in Nat, NEW n \in Nat,
           Ordered(q, c, n), ~IsInit(Head(q))
    PROVE  Ordered(Tail(q), c, n)
<1> DEFINE r == Tail(q)
<1>1. /\ Len(q) \in Nat /\ Len(r) = Len(q) - 1 /\ Len(q) >= 1 /\ Head(q) = q[1]
      /\ \A i \in 1 .. Len(r) : r[i] = q[i + 1]
  OBVIOUS
<1> HIDE DEF r
<1>7. \A i, j \in 1 .. Len(r) :
         i < j => /\ i + 1 \in 1 .. Len(q) /\ j + 1 \in 1 .. Len(q)
                  /\ i + 1 < j + 1 /\ r[i] = q[i + 1] /\ r[j] = q[j + 1]
  BY <1>1
<1>2. InitsToCome(r, c, n)
  BY <1>1 DEF Ordered, InitsToCome
<1>3. InitsAscend(r)
  BY <1>7 DEF Ordered, InitsAscend
<1>4. NoticesAnnounced(r, c)
  <2> SUFFICES ASSUME NEW i \in 1 .. Len(r), IsNotice(r[i])
               PROVE  /\ r[i].map \in Nat \ {0}
                      /\ \/ r[i].map = c
                         \/ \E j \in 1 .. Len(r) :
                              j < i /\ IsInit(r[j]) /\ r[j].map = r[i].map
    BY <1>1 DEF NoticesAnnounced
  <2>1. r[i] = q[i + 1] /\ i + 1 \in 1 .. Len(q)
    BY <1>1
  <2>3. /\ q[i + 1].map \in Nat \ {0}
        /\ \/ q[i + 1].map = c
           \/ \E j \in 1 .. Len(q) :
                 j < i + 1 /\ IsInit(q[j]) /\ q[j].map = q[i + 1].map
    BY <2>1 DEF Ordered, NoticesAnnounced
  <2>4. ASSUME NEW j \in 1 .. Len(q), j < i + 1, IsInit(q[j])
        PROVE  j - 1 \in 1 .. Len(r) /\ r[j - 1] = q[j] /\ j - 1 < i
    <3>1. j # 1
      BY <1>1, <2>4
    <3>2. QED
      BY <1>1, <2>4, <3>1
  <2>5. QED
    BY <2>1, <2>3, <2>4
<1>5. NoticesInOrder(r)
  BY <1>7 DEF Ordered, NoticesInOrder
<1>6. QED
  BY <1>2, <1>3, <1>4, <1>5 DEF Ordered, r
-----------------------------------------------------------------------------
(* The memory announced last.                                                *)

LEMMA AnnouncedAppendOther ==
    ASSUME NEW S, NEW q \in Seq(S), NEW m \in S, NEW c, NEW x,
           Announced(q, c, x), ~IsInit(m)
    PROVE  Announced(Append(q, m), c, x)
<1> DEFINE r == Append(q, m)
<1>1. /\ Len(q) \in Nat /\ Len(r) = Len(q) + 1 /\ r[Len(r)] = m
      /\ \A i \in 1 .. Len(q) : r[i] = q[i]
  OBVIOUS
<1> HIDE DEF r
<1>2. Announced(r, c, x)
  BY <1>1 DEF Announced
<1>3. QED
  BY <1>2 DEF r

(* The next memory is announced: it is the one announced last.               *)
LEMMA AnnouncedAppendInit ==
    ASSUME NEW S, NEW q \in Seq(S), NEW m \in S, NEW c \in Nat, NEW n \in Nat,
           Ordered(q, c, n), IsInit(m), m.map = n + 1
    PROVE  Announced(Append(q, m), c, n + 1)
<1> DEFINE r == Append(q, m)
<1>1. /\ Len(q) \in Nat /\ Len(r) = Len(q) + 1 /\ r[Len(r)] = m
      /\ \A i \in 1 .. Len(q) : r[i] = q[i]
  OBVIOUS
<1> HIDE DEF r
<1>2. \A i \in 1 .. Len(q) : IsInit(q[i]) => q[i].map <= n + 1
  BY DEF Ordered, InitsToCome
<1>3. Announced(r, c, n + 1)
  BY <1>1, <1>2 DEF Announced
<1>4. QED
  BY <1>3 DEF r

(* The console maps a memory: it has the one announced last, or will.        *)
LEMMA AnnouncedTailInit ==
    ASSUME NEW S, NEW q \in Seq(S), q # << >>, NEW c \in Nat, NEW n \in Nat,
           NEW x \in Nat, Ordered(q, c, n), Announced(q, c, x), IsInit(Head(q))
    PROVE  Announced(Tail(q), Head(q).map, x)
<1> DEFINE r == Tail(q)
<1>1. /\ Len(q) \in Nat /\ Len(r) = Len(q) - 1 /\ Len(q) >= 1 /\ Head(q) = q[1]
      /\ \A i \in 1 .. Len(r) : r[i] = q[i + 1] /\ i + 1 \in 1 .. Len(q)
  OBVIOUS
<1> HIDE DEF r
<1>2. q[1].map \in (c + 1) .. n /\ q[1].map <= x
  BY <1>1 DEF Ordered, InitsToCome, Announced
<1>3. x # c
  BY <1>2
<1>4. PICK i \in 1 .. Len(q) : IsInit(q[i]) /\ q[i].map = x
  BY <1>3 DEF Announced
<1>5. x = q[1].map \/ \E j \in 1 .. Len(r) : IsInit(r[j]) /\ r[j].map = x
  <2>1. CASE i # 1
    <3>1. i - 1 \in 1 .. Len(r) /\ r[i - 1] = q[i]
      BY <1>1, <2>1
    <3>2. QED
      BY <1>4, <3>1
  <2>2. QED
    BY <1>4, <2>1
<1>6. \A j \in 1 .. Len(r) : IsInit(r[j]) => r[j].map <= x
  BY <1>1 DEF Announced
<1>7. QED
  BY <1>1, <1>5, <1>6 DEF Announced, r

(* A message other than an announcement is read.                             *)
LEMMA AnnouncedTailOther ==
    ASSUME NEW S, NEW q \in Seq(S), q # << >>, NEW c, NEW x,
           Announced(q, c, x), ~IsInit(Head(q))
    PROVE  Announced(Tail(q), c, x)
<1> DEFINE r == Tail(q)
<1>1. /\ Len(q) \in Nat /\ Len(r) = Len(q) - 1 /\ Len(q) >= 1 /\ Head(q) = q[1]
      /\ \A i \in 1 .. Len(r) : r[i] = q[i + 1] /\ i + 1 \in 1 .. Len(q)
  OBVIOUS
<1> HIDE DEF r
<1>2. \A i \in 1 .. Len(q) :
         IsInit(q[i]) => i - 1 \in 1 .. Len(r) /\ r[i - 1] = q[i]
  <2> SUFFICES ASSUME NEW i \in 1 .. Len(q), IsInit(q[i])
               PROVE  i - 1 \in 1 .. Len(r) /\ r[i - 1] = q[i]
    OBVIOUS
  <2>1. i # 1
    BY <1>1
  <2>2. QED
    BY <1>1, <2>1
<1>3. Announced(r, c, x)
  BY <1>1, <1>2 DEF Announced
<1>4. QED
  BY <1>3 DEF r
-----------------------------------------------------------------------------
(* The invariants of RawFrames.                                              *)

(* How the parts of the server and the console point at shared memories:     *)
(* what is mapped exists, is of this connection and has the generation the   *)
(* server goes by; who has a slot has one of a memory that exists.           *)
ServerMapped ==
    /\ shm.map <= Len(mem)
    /\ shm.map = 0 => shm.gen = 0
    /\ shm.map # 0 => /\ shm.gen = mem[shm.map].gen
                      /\ mem[shm.map].ses = ses
    /\ latest.slot # NoSlot => shm.gen # 0
    /\ prod.pc = "slot" => /\ prod.slot \in Slots
                           /\ prod.map \in 1 .. Len(mem)
                           /\ mem[prod.map].gen # 0

ThreadMapped ==
    /\ th.pc = "notify" => /\ th.slot \in Slots
                           /\ th.map = shm.map
    /\ th.pc \in {"acquire", "notify"} => shm.map # 0
    /\ th.pc = "remap" => /\ shm.map < Len(mem)
                          /\ mem[Len(mem)].gen = NextGen
                          /\ mem[Len(mem)].ses = ses
    /\ th.pc \in {"none", "hello"} => shm.map = 0

LinkState ==
    /\ th.pc = "none" <=> conn \in {"none", "ended"}
    /\ th.pc # "none" => ses # 0
    /\ conn \in {"none", "left"} => cl.map = 0 /\ toClient = << >>

RefMapped(r) ==
    r.map # 0 => /\ r.map <= Len(mem)
                 /\ mem[r.map].gen # 0
                 /\ r.slot \in Slots

ConsoleMapped ==
    /\ cl.map <= Len(mem)
    /\ RefMapped(cl.pending)
    /\ RefMapped(cl.screen)
    /\ RefMapped(cl.resume)

(* IKAS and IKAN come in order (Ordered), and the memory the server          *)
(* uses is the one it announced last.                                        *)
WireOrder == Ordered(toClient, cl.map, Len(mem))

ServerAnnounced ==
    conn = "open" =>
        /\ th.pc = "remap" => Announced(toClient, cl.map, Len(mem))
        /\ th.pc # "remap" /\ shm.map # 0 =>
              Announced(toClient, cl.map, shm.map)

(* The inductive invariant.                                                  *)
IInv == /\ TypeOK /\ ServerMapped /\ ThreadMapped /\ LinkState
        /\ ConsoleMapped /\ WireOrder /\ ServerAnnounced
-----------------------------------------------------------------------------
(* Facts about sequences and slots.                                          *)

(* A set of naturals has a least element.                                    *)
LEMMA MinExists ==
    ASSUME NEW S \in SUBSET Nat, S # {}
    PROVE  \E x \in S : \A y \in S : x <= y
<1> DEFINE R == {p \in Nat \X Nat : p[1] < p[2]}
<1>1. R = OpToRel(<, Nat)
  BY Zenon DEF OpToRel
<1>2. IsWellFoundedOn(R, Nat)
  BY <1>1, NatLessThanWellFounded, Zenon
<1>3. \A x, y \in Nat : y < x => <<y, x>> \in R
  <2> TAKE x, y \in Nat
  <2> HAVE y < x
  <2>1. <<y, x>> \in Nat \X Nat
    OBVIOUS
  <2>2. <<y, x>>[1] < <<y, x>>[2]
    OBVIOUS
  <2>3. QED
    BY <2>1, <2>2, Zenon
<1> HIDE DEF R
<1>4. PICK x \in S : \A y \in S : ~(<<y, x>> \in R)
  BY <1>2, WFMin
<1>5. \A y \in S : ~(y < x)
  BY <1>3, <1>4
<1>6. QED
  BY <1>4, <1>5

(* The slot FirstFree finds is free.                                         *)
LEMMA FirstFreeIsFree ==
    ASSUME TypeOK, Slots \ shm.busy # {}
    PROVE  FirstFree \in Slots \ shm.busy
<1> DEFINE dist(s) == (s - shm.next + SlotCount) % SlotCount
           D == {dist(s) : s \in Slots \ shm.busy}
<1>1. shm.next \in Slots
  BY DEF TypeOK, ShmStates
<1>2. \A s \in Slots : dist(s) \in Nat
  BY <1>1, SlotCountAssumption DEF Slots
<1>3. D \in SUBSET Nat /\ D # {}
  BY <1>2
<1>4. PICK x \in D : \A y \in D : x <= y
  BY <1>3, MinExists
<1>5. PICK s \in Slots \ shm.busy : x = dist(s)
  BY <1>4
<1>6. \A t \in Slots \ shm.busy : dist(s) <= dist(t)
  BY <1>4, <1>5
<1> HIDE DEF dist
<1>7. \E r \in Slots \ shm.busy : \A t \in Slots \ shm.busy : dist(r) <= dist(t)
  BY <1>6
<1>8. FirstFree = CHOOSE r \in Slots \ shm.busy :
                      \A t \in Slots \ shm.busy : dist(r) <= dist(t)
  BY Zenon DEF FirstFree, dist
<1>9. QED
  BY <1>7, <1>8, Zenon

(* The slot after another one is a slot.                                     *)
LEMMA NextSlotIsSlot ==
    ASSUME NEW s \in Slots
    PROVE  (s + 1) % SlotCount \in Slots
  BY SlotCountAssumption DEF Slots

(* The pixels of one slot of one memory change.                              *)
LEMMA MemWrite ==
    ASSUME TypeOK, NEW m \in 1 .. Len(mem), NEW s \in Slots, NEW v \in Pixels,
           NEW new, new = [mem EXCEPT ![m].pix[s] = v]
    PROVE  /\ new \in Seq(Memories)
           /\ Len(new) = Len(mem)
           /\ \A j \in 1 .. Len(mem) :
                 /\ new[j].gen = mem[j].gen
                 /\ new[j].ses = mem[j].ses
                 /\ \A t \in Slots :
                       new[j].pix[t] = IF j = m /\ t = s THEN v
                                       ELSE mem[j].pix[t]
<1> DEFINE p == [mem[m].pix EXCEPT ![s] = v]
           e == [mem[m] EXCEPT !.pix = p]
<1>1. mem \in Seq(Memories)
  BY DEF TypeOK
<1>2. mem[m] \in Memories
  BY <1>1
<1>3. p \in [Slots -> Pixels] /\ \A t \in Slots : p[t] = IF t = s THEN v
                                                         ELSE mem[m].pix[t]
  BY <1>2 DEF Memories
<1>4. new = [mem EXCEPT ![m] = e]
  OBVIOUS
<1> HIDE DEF p
<1>9. /\ e \in Memories /\ e.gen = mem[m].gen /\ e.ses = mem[m].ses
      /\ e.pix = p
  BY <1>2, <1>3 DEF Memories
<1> HIDE DEF e
<1>5. /\ new \in Seq(Memories) /\ Len(new) = Len(mem)
      /\ \A j \in 1 .. Len(mem) : new[j] = IF j = m THEN e ELSE mem[j]
  BY <1>1, <1>9, <1>4, SeqExcept
<1>6. ASSUME NEW j \in 1 .. Len(mem)
      PROVE  /\ new[j].gen = mem[j].gen
             /\ new[j].ses = mem[j].ses
             /\ \A t \in Slots : new[j].pix[t] = IF j = m /\ t = s THEN v
                                                ELSE mem[j].pix[t]
  <2>1. CASE j = m
    <3>1. new[j] = e
      BY <1>5, <2>1
    <3>2. QED
      BY <3>1, <2>1, <1>3, <1>9
  <2>2. CASE j # m
    <3>1. new[j] = mem[j]
      BY <1>5, <2>2
    <3>2. QED
      BY <3>1, <2>2
  <2>3. QED
    BY <2>1, <2>2
<1>7. QED
  BY <1>5, <1>6
-----------------------------------------------------------------------------
(* Types of the helpers.                                                     *)

LEMMA ConstantsInTypes ==
    /\ 0 \in Slots /\ NoSlot \notin Slots
    /\ NoFrame \in FrameIds /\ NoFrame \in Pixels /\ Torn \in Pixels
    /\ FrameIds \subseteq Pixels
    /\ EmptyFrame \in Frames
    /\ EmptyShm \in ShmStates
    /\ IdleProd \in ProdStates
    /\ IdleThread \in ThreadStates
    /\ NoRef \in Refs
<1>1. /\ 0 \in Slots /\ NoSlot \notin Slots
      /\ NoFrame \in FrameIds /\ NoFrame \in Pixels /\ Torn \in Pixels
      /\ FrameIds \subseteq Pixels
  BY SlotCountAssumption, BoundsAssumption
  DEF Slots, NoSlot, NoFrame, FrameIds, Pixels, Torn
<1>2. EmptyFrame \in Frames
  BY <1>1 DEF EmptyFrame, Frames
<1>3. QED
  BY <1>1, <1>2 DEF EmptyShm, ShmStates, IdleProd, ProdStates, IdleThread,
                    ThreadStates, NoRef, Refs

(* A shared memory that exists has a generation and pixels in each slot.     *)
LEMMA MemPix ==
    ASSUME TypeOK, NEW m \in 1 .. Len(mem)
    PROVE  /\ mem[m] \in Memories
           /\ mem[m].gen \in Nat
           /\ \A s \in Slots : mem[m].pix[s] \in Pixels
<1>1. mem[m] \in Memories
  BY DEF TypeOK
<1>2. QED
  BY <1>1 DEF Memories

(* DetachLatestFrameFromShmLocked leaves a frame that is in no slot.         *)
LEMMA DetachType ==
    ASSUME IInv
    PROVE  /\ DetachLatestFrame(latest) \in Frames
           /\ DetachLatestFrame(latest).slot = NoSlot
<1>1. latest \in Frames /\ shm.map \in Nat
  BY DEF IInv, TypeOK, ShmStates
<1>2. CASE latest.slot = NoSlot
  BY <1>1, <1>2 DEF DetachLatestFrame
<1>3. CASE latest.slot # NoSlot
  <2>1. latest.slot \in Slots
    BY <1>1, <1>3 DEF Frames
  <2>2. shm.map # 0 /\ shm.map \in 1 .. Len(mem)
    BY <1>1, <1>3 DEF IInv, ServerMapped, TypeOK
  <2>3. mem[shm.map].pix[latest.slot] \in Pixels
    BY <2>1, <2>2, MemPix DEF IInv
  <2>4. QED
    BY <1>1, <1>3, <2>2, <2>3 DEF DetachLatestFrame, Frames
<1>4. QED
  BY <1>2, <1>3

(* What the unref of a frame sends are messages to the server.               *)
LEMMA ReleasesType ==
    ASSUME TypeOK, NEW r \in Refs, RefMapped(r)
    PROVE  /\ Releases(r) \in Seq(ToServerMessages)
           /\ toServer \o Releases(r) \in Seq(ToServerMessages)
<1>1. CASE r.map = 0
  BY <1>1 DEF Releases, TypeOK
<1>2. CASE r.map # 0
  <2>1. r.map \in 1 .. Len(mem) /\ r.slot \in Slots
    BY <1>2 DEF Refs, RefMapped
  <2>2. IKAR(mem[r.map].gen, r.slot) \in ToServerMessages
    BY <2>1, MemPix DEF IKAR, ToServerMessages
  <2>3. Releases(r) \in Seq(ToServerMessages)
    BY <2>2 DEF Releases
  <2>4. QED
    BY <2>3, SeqConcat DEF TypeOK
<1>3. QED
  BY <1>1, <1>2

(* A ClientShm with a slot taken is a ClientShm.                             *)
LEMMA TakeSlotType ==
    ASSUME TypeOK, NEW s \in Slots
    PROVE  /\ TakeSlot(s) \in ShmStates
           /\ [shm EXCEPT !.next = (s + 1) % SlotCount] \in ShmStates
<1> DEFINE n == (s + 1) % SlotCount
<1>1. n \in Slots
  BY NextSlotIsSlot
<1> HIDE DEF n
<1>2. [shm EXCEPT !.busy = @ \cup {s}, !.next = n] \in ShmStates
  BY <1>1 DEF TypeOK, ShmStates
<1>3. [shm EXCEPT !.next = n] \in ShmStates
  BY <1>1 DEF TypeOK, ShmStates
<1>4. QED
  BY <1>2, <1>3 DEF TakeSlot, n

(* Taking a slot leaves the shared memory and its generation alone.          *)
LEMMA TakeSlotFields ==
    ASSUME TypeOK, NEW s
    PROVE  /\ TakeSlot(s).map = shm.map
           /\ TakeSlot(s).gen = shm.gen
           /\ TakeSlot(s).lastGen = shm.lastGen
           /\ TakeSlot(s).releases = shm.releases
           /\ TakeSlot(s).busy = shm.busy \cup {s}
<1> DEFINE n == (s + 1) % SlotCount
<1>1. shm \in ShmStates
  BY DEF TypeOK
<1> HIDE DEF n
<1>2. TakeSlot(s) = [shm EXCEPT !.busy = @ \cup {s}, !.next = n]
  BY DEF TakeSlot, n
<1>3. QED
  BY <1>1, <1>2 DEF ShmStates

(* A message of the client does not unmap the slots.                         *)
LEMMA ReadKeepsMap ==
    ASSUME IInv, ReadClientMessage
    PROVE  /\ shm'.map = shm.map
           /\ shm'.gen = shm.gen
           /\ shm'.lastGen = shm.lastGen
<1>1. shm \in ShmStates /\ Head(toServer) \in ToServerMessages
  BY SeqTail DEF IInv, TypeOK, ReadClientMessage
<1>2. Head(toServer).magic \in {"IKAH", "IKAP", "IKAR"}
  BY <1>1 DEF ToServerMessages
<1>3. \/ shm' = [shm EXCEPT !.releases = TRUE]
      \/ shm' = [shm EXCEPT !.paused = Head(toServer).hidden]
      \/ shm' = [shm EXCEPT !.busy = @ \ ReleasedSlots(Head(toServer))]
  BY <1>2 DEF ReadClientMessage
<1>4. QED
  BY <1>1, <1>3 DEF ShmStates

(* The slot AcquireShmSlot finds is free, if there is anything to release.   *)
LEMMA AcquiredSlot ==
    ASSUME IInv, AcquireShmSlot
    PROVE  \E s \in Slots :
             /\ \/ shm.gen = 0 /\ shm' = [shm EXCEPT !.next = (s + 1) % SlotCount]
                \/ shm.gen # 0 /\ s \notin shm.busy /\ shm' = TakeSlot(s)
             /\ mem' = [mem EXCEPT ![shm.map].pix[s] = Torn]
             /\ th' = [th EXCEPT !.pc = "notify", !.map = shm.map, !.slot = s]
<1>1. CASE shm.gen = 0
  <2>1. shm.next \in Slots
    BY DEF IInv, TypeOK, ShmStates
  <2>2. QED
    BY <1>1, <2>1 DEF AcquireShmSlot
<1>2. CASE shm.gen # 0
  <2>1. FirstFree \in Slots \ shm.busy
    BY <1>2, FirstFreeIsFree DEF AcquireShmSlot, IInv
  <2>2. QED
    BY <1>2, <2>1 DEF AcquireShmSlot
<1>3. QED
  BY <1>1, <1>2

(* The notice at the head of the wire is about the memory the console has.   *)
LEMMA HeadNotice ==
    ASSUME IInv, toClient # << >>, Head(toClient).magic = "IKAN"
    PROVE  /\ Head(toClient).map = cl.map
           /\ cl.map # 0 /\ cl.map \in 1 .. Len(mem)
<1>1. Len(toClient) >= 1 /\ Head(toClient) = toClient[1]
  BY SeqTail DEF IInv, TypeOK
<1>2. 1 \in 1 .. Len(toClient) /\ IsNotice(toClient[1])
  BY <1>1 DEF IsNotice, IInv, TypeOK
<1>3. toClient[1].map # 0 /\ toClient[1].map = cl.map
  BY <1>2 DEF IInv, WireOrder, Ordered, NoticesAnnounced
<1>4. QED
  BY <1>1, <1>3 DEF IInv, ConsoleMapped, TypeOK, ConsoleStates
-----------------------------------------------------------------------------
(* Every step keeps the types.                                               *)
LEMMA TypeStep ==
    ASSUME IInv, Next
    PROVE  TypeOK'
<1> USE DEF IInv
<1>1. ASSUME NEW size \in Sizes, OnFrameReserve(size)
      PROVE  TypeOK'
  <2>1. drawn' \in FrameIds
    BY <1>1, BoundsAssumption DEF OnFrameReserve, TypeOK, FrameIds
  <2>2. CASE suppress
    BY <1>1, <2>1, <2>2 DEF OnFrameReserve, TypeOK, link, console
  <2>4. CASE ~suppress /\ ~CanReserve(size)
    <3>1. prod' \in ProdStates
      BY <1>1, <2>4, ConstantsInTypes DEF OnFrameReserve, ProdStates, IdleProd
    <3>2. QED
      BY <1>1, <2>1, <2>4, <3>1 DEF OnFrameReserve, TypeOK, link, console
  <2>3. CASE ~suppress /\ CanReserve(size)
    <3>1. FirstFree \in Slots /\ shm.map \in 1 .. Len(mem)
      BY <2>3, FirstFreeIsFree DEF CanReserve, TypeOK, ShmStates, ServerMapped
    <3>2. shm' \in ShmStates
      BY <1>1, <2>3, <3>1, TakeSlotType DEF OnFrameReserve
    <3>3. mem' \in Seq(Memories)
      BY <1>1, <2>3, <3>1, MemWrite, ConstantsInTypes DEF OnFrameReserve
    <3>4. prod' \in ProdStates
      BY <1>1, <2>3, <3>1 DEF OnFrameReserve, ProdStates, TypeOK, ShmStates
    <3>5. QED
      BY <1>1, <2>1, <2>3, <3>2, <3>3, <3>4
      DEF OnFrameReserve, TypeOK, link, console
  <2>5. QED
    BY <2>2, <2>3, <2>4
<1>2. CASE OnFramePublish
  <2>1. RawFrame(NoSlot, drawn) \in Frames /\ drawn \in Pixels
    BY ConstantsInTypes DEF TypeOK, RawFrame, Frames, ProdStates
  <2>2. prod.pc = "slot" => RawFrame(prod.slot, NoFrame) \in Frames
    BY ConstantsInTypes
    DEF TypeOK, RawFrame, Frames, ProdStates, ServerMapped
  <2>3. ASSUME NEW f \in Frames, ReplaceLatestFrame(f)
        PROVE  shm' \in ShmStates /\ latest' \in Frames
    BY <2>3 DEF ReplaceLatestFrame, BusyAfterReplace, TypeOK, ShmStates
  <2>4. FrameChanged => frameGen' \in Nat /\ wake' \in BOOLEAN
    BY DEF FrameChanged, SignalWakeFd, TypeOK, Bound
  <2>5. shm' \in ShmStates /\ latest' \in Frames /\ frameGen' \in Nat
        /\ wake' \in BOOLEAN
    BY <1>2, <2>1, <2>2, <2>3, <2>4 DEF OnFramePublish, TypeOK
  <2>6. mem' \in Seq(Memories)
    <3>1. CASE prod.pc = "slot"
      <4>1. prod.map \in 1 .. Len(mem) /\ prod.slot \in Slots
        BY <3>1 DEF ServerMapped
      <4>2. mem' = [mem EXCEPT ![prod.map].pix[prod.slot] = drawn]
        BY <1>2, <3>1 DEF OnFramePublish
      <4>3. QED
        BY <2>1, <4>1, <4>2, MemWrite
    <3>2. CASE prod.pc = "buffer"
      BY <1>2, <3>2 DEF OnFramePublish, TypeOK
    <3>3. QED
      BY <1>2, <3>1, <3>2 DEF OnFramePublish
  <2>7. QED
    BY <1>2, <2>5, <2>6, ConstantsInTypes
    DEF OnFramePublish, TypeOK, link, console
<1>3. ASSUME NEW size \in Sizes, OnDmabufFrame(size)
      PROVE  TypeOK'
  <2>1. drawn + 1 \in FrameIds
    BY <1>3, BoundsAssumption DEF OnDmabufFrame, TypeOK, FrameIds
  <2>2. latest' \in Frames
    BY <1>3, <2>1, ConstantsInTypes
    DEF OnDmabufFrame, ReplaceLatestFrame, EmptyFrame, Frames
  <2>3. shm' \in ShmStates
    BY <1>3
    DEF OnDmabufFrame, ReplaceLatestFrame, BusyAfterReplace, TypeOK, ShmStates
  <2>4. frameGen' \in Nat /\ wake' \in BOOLEAN
    BY <1>3 DEF OnDmabufFrame, FrameChanged, SignalWakeFd, TypeOK, Bound
  <2>5. QED
    BY <1>3, <2>1, <2>2, <2>3, <2>4 DEF OnDmabufFrame, TypeOK, link, console
<1>4. CASE ReadClientMessage
  <2>1. /\ Head(toServer) \in ToServerMessages
        /\ toServer' \in Seq(ToServerMessages)
    BY <1>4, SeqTail DEF ReadClientMessage, TypeOK
  <2>2. shm' \in ShmStates
    BY <1>4, <2>1
    DEF ReadClientMessage, TypeOK, ShmStates, ToServerMessages, ReleasedSlots
  <2>3. QED
    BY <1>4, <2>1, <2>2
    DEF ReadClientMessage, TypeOK, display, link, console
<1>5. CASE EndClient
  <2>1. shm' \in ShmStates
    BY <1>5, ConstantsInTypes
    DEF EndClient, CloseClientShm, TypeOK, ShmStates
  <2>2. toServer' \in Seq(ToServerMessages)
    BY <1>5 DEF EndClient
  <2>3. QED
    BY <1>5, <2>1, <2>2, DetachType, ConstantsInTypes
    DEF EndClient, TypeOK, console
<1>6. CASE HelloEof
  <2>1. toServer' \in Seq(ToServerMessages)
    BY <1>6 DEF HelloEof
  <2>2. QED
    BY <1>6, <2>1, ConstantsInTypes DEF HelloEof, TypeOK, display, console
<1>7. CASE BindClient \/ NothingToSend \/ WaitForClientOrFrame
  <2>1. th' \in ThreadStates
    BY <1>7 DEF BindClient, NothingToSend, WaitForClientOrFrame, TypeOK,
                ThreadStates
  <2>2. QED
    BY <1>7, <2>1
    DEF BindClient, NothingToSend, WaitForClientOrFrame, TypeOK, display,
        link, console
<1>8. CASE TakeLatestFrame
  <2>1. th' \in ThreadStates
    <3>1. latest \in Frames /\ latest.slot \in Slots \cup {NoSlot}
      BY DEF TypeOK, Frames
    <3>2. QED
      BY <1>8, <3>1 DEF TakeLatestFrame, TypeOK, ThreadStates, ShmStates
  <2>2. latest' \in Frames
    BY <1>8 DEF TakeLatestFrame, TypeOK, Frames
  <2>3. QED
    BY <1>8, <2>1, <2>2 DEF TakeLatestFrame, TypeOK, link, console
<1>9. CASE SendInline
  <2>1. th' \in ThreadStates
    BY <1>9, ConstantsInTypes DEF SendInline, TypeOK, ThreadStates
  <2>2. [magic |-> "IKAF", id |-> th.frame.id, pix |-> th.frame.pix]
            \in ToClientMessages
    BY DEF TypeOK, ThreadStates, Frames, ToClientMessages
  <2>3. toClient' \in Seq(ToClientMessages)
    BY <1>9, <2>2, SeqAppend DEF SendInline, Send, TypeOK
  <2>4. QED
    BY <1>9, <2>1, <2>3 DEF SendInline, Send, TypeOK, display, link, console
<1>10. CASE SendShmInit
  <2>1. th' \in ThreadStates
    BY <1>10 DEF SendShmInit, TypeOK, ThreadStates
  <2>2. [magic |-> "IKAS", map |-> Len(mem) + 1] \in ToClientMessages
    BY DEF TypeOK, ToClientMessages
  <2>3. toClient' \in Seq(ToClientMessages)
    BY <1>10, <2>2, SeqAppend DEF SendShmInit, Send, TypeOK
  <2>4. ses \in 1 .. MaxSessions
    BY <1>10 DEF SendShmInit, LinkState, TypeOK
  <2>5. [gen |-> NextGen, ses |-> ses, foreign |-> foreign, pix |-> [s \in Slots |-> NoFrame]]
            \in Memories
    BY <2>4, ConstantsInTypes DEF NextGen, TypeOK, ShmStates, Memories
  <2>6. mem' \in Seq(Memories)
    BY <1>10, <2>5, SeqAppend DEF SendShmInit, TypeOK
  <2>7. QED
    BY <1>10, <2>1, <2>3, <2>6
    DEF SendShmInit, Send, TypeOK, display, link, console
<1>11. CASE RemapSlots
  <2>1. th' \in ThreadStates
    BY <1>11 DEF RemapSlots, TypeOK, ThreadStates
  <2>2. shm' \in ShmStates
    <3>1. th.frame.size \in Sizes \cup {0} /\ Len(mem) \in Nat
      BY DEF TypeOK, ThreadStates, Frames
    <3>2. NextGen \in Nat
      BY DEF NextGen, TypeOK, ShmStates
    <3>3. QED
      BY <1>11, <3>1, <3>2, ConstantsInTypes DEF RemapSlots, TypeOK, ShmStates
  <2>3. QED
    BY <1>11, <2>1, <2>2, DetachType DEF RemapSlots, TypeOK, link, console
<1>12. CASE AcquireShmSlot
  <2>1. shm.map \in 1 .. Len(mem)
    BY <1>12 DEF AcquireShmSlot, ThreadMapped, ServerMapped, TypeOK, ShmStates
  <2>2. PICK s \in Slots :
          /\ shm' = [shm EXCEPT !.next = (s + 1) % SlotCount]
             \/ shm' = TakeSlot(s)
          /\ mem' = [mem EXCEPT ![shm.map].pix[s] = Torn]
          /\ th' = [th EXCEPT !.pc = "notify", !.map = shm.map, !.slot = s]
    BY <1>12, AcquiredSlot
  <2>3. mem' \in Seq(Memories)
    BY <2>1, <2>2, MemWrite, ConstantsInTypes
  <2>4. shm' \in ShmStates
    BY <2>2, TakeSlotType
  <2>5. th' \in ThreadStates
    BY <2>1, <2>2 DEF TypeOK, ThreadStates, ShmStates
  <2>6. QED
    BY <1>12, <2>3, <2>4, <2>5
    DEF AcquireShmSlot, TypeOK, display, link, console
<1>13. CASE SendShmNotify
  <2>1. th.map \in 1 .. Len(mem) /\ th.slot \in Slots
    BY <1>13 DEF SendShmNotify, ThreadMapped, ServerMapped, TypeOK, ShmStates
  <2>2. NotifiedPixels \in Pixels
    BY <2>1, MemPix DEF NotifiedPixels, TypeOK, ThreadStates, Frames
  <2>3. [magic |-> "IKAN", id |-> th.frame.id, slot |-> th.slot,
         map |-> th.map, pix |-> NotifiedPixels] \in ToClientMessages
    BY <2>1, <2>2 DEF TypeOK, ThreadStates, Frames, ToClientMessages
  <2>4. toClient' \in Seq(ToClientMessages)
    BY <1>13, <2>3, SeqAppend DEF SendShmNotify, Send, TypeOK
  <2>5. mem' \in Seq(Memories)
    BY <1>13, <2>1, <2>2, MemWrite DEF SendShmNotify
  <2>6. th' \in ThreadStates
    BY <1>13, ConstantsInTypes DEF SendShmNotify, TypeOK, ThreadStates, IdleThread
  <2>7. QED
    BY <1>13, <2>4, <2>5, <2>6
    DEF SendShmNotify, Send, TypeOK, display, link, console
<1>14. ASSUME NEW f \in BOOLEAN, Connect(f)
       PROVE  TypeOK'
  <2>1. ses' \in 0 .. MaxSessions
    BY <1>14, BoundsAssumption DEF Connect, TypeOK
  <2>2. toClient' \in Seq(ToClientMessages)
    BY <1>14 DEF Connect
  <2>3. /\ [magic |-> "IKAH"] \in ToServerMessages
        /\ [magic |-> "IKAP", hidden |-> TRUE] \in ToServerMessages
    BY DEF ToServerMessages
  <2>4. toServer' \in Seq(ToServerMessages)
    BY <1>14, <2>3, SeqConcat DEF Connect
  <2>5. th' \in ThreadStates
    BY <1>14, ConstantsInTypes DEF Connect, IdleThread, ThreadStates
  <2>6. QED
    BY <1>14, <2>1, <2>2, <2>4, <2>5, ConstantsInTypes
    DEF Connect, TypeOK, display, console
<1>15. CASE ProcessShmInit
  <2>1. /\ Head(toClient) \in ToClientMessages
        /\ toClient' \in Seq(ToClientMessages)
    BY <1>15, SeqTail DEF ProcessShmInit, Receive, TypeOK
  <2>2. cl' \in ConsoleStates
    BY <1>15, <2>1
    DEF ProcessShmInit, NewSlots, ToClientMessages, TypeOK, ConsoleStates
  <2>3. QED
    BY <1>15, <2>1, <2>2
    DEF ProcessShmInit, Receive, TypeOK, server, display, link
<1>16. ASSUME NEW r \in Refs, Push(r)
       PROVE  cl' \in ConsoleStates /\ toServer' \in Seq(ToServerMessages)
  <2>1. cl.pending \in Refs
    BY DEF TypeOK, ConsoleStates
  <2>2. QED
    BY <1>16, <2>1, ReleasesType
    DEF Push, TypeOK, ConsoleStates, ConsoleMapped
<1>17. CASE ProcessShmFrame
  <2> DEFINE m == Head(toClient)
             r == [id |-> m.id, map |-> cl.map, slot |-> m.slot, pix |-> m.pix]
  <2>1. /\ m \in ToClientMessages /\ m.magic = "IKAN"
        /\ toClient' \in Seq(ToClientMessages)
    BY <1>17, SeqTail DEF ProcessShmFrame, Receive, TypeOK
  <2>2. m.id \in FrameIds /\ m.slot \in Slots /\ m.pix \in Pixels
    BY <2>1 DEF ToClientMessages
  <2>3. cl.map # 0 /\ cl.map \in 1 .. Len(mem)
    BY <1>17, HeadNotice DEF ProcessShmFrame, Receive
  <2>4. r \in Refs
    BY <2>2, <2>3 DEF Refs
  <2>5. [NoRef EXCEPT !.id = m.id, !.pix = mem[cl.map].pix[m.slot]] \in Refs
    BY <2>2, <2>3, MemPix, ConstantsInTypes DEF Refs, NoRef
  <2>6. CASE foreign
    <3>1. toServer' \in Seq(ToServerMessages)
      <4>1. toServer' = toServer \o Releases(r)
        BY <1>17, <2>6 DEF ProcessShmFrame
      <4>2. CASE mem[cl.map].gen # 0
        <5>1. RefMapped(r)
          BY <2>2, <2>3, <4>2 DEF RefMapped
        <5>2. QED
          BY <2>4, <4>1, <5>1, ReleasesType
      <4>3. CASE mem[cl.map].gen = 0
        <5>1. Releases(r) = << >>
          BY <4>3 DEF Releases
        <5>2. QED
          BY <4>1, <5>1, SeqConcat DEF TypeOK
      <4>4. QED
        BY <4>2, <4>3
    <3>2. QED
      BY <1>17, <2>1, <2>6, <3>1
      DEF ProcessShmFrame, Receive, TypeOK, server, display, link
  <2>7. CASE ~foreign
    <3>1. cl' \in ConsoleStates /\ toServer' \in Seq(ToServerMessages)
      BY <1>17, <2>4, <2>5, <2>7, <1>16 DEF ProcessShmFrame
    <3>2. QED
      BY <1>17, <2>1, <3>1
      DEF ProcessShmFrame, Receive, TypeOK, server, display, link
  <2>8. QED
    BY <2>6, <2>7
<1>18. CASE ProcessInline
  <2>1. /\ Head(toClient) \in ToClientMessages
        /\ Head(toClient).magic = "IKAF"
        /\ toClient' \in Seq(ToClientMessages)
    BY <1>18, SeqTail DEF ProcessInline, Receive, TypeOK
  <2>2. [NoRef EXCEPT !.id = Head(toClient).id, !.pix = Head(toClient).pix]
            \in Refs
    BY <2>1, ConstantsInTypes DEF ToClientMessages, NoRef, Refs
  <2>3. cl' \in ConsoleStates /\ toServer' \in Seq(ToServerMessages)
    BY <1>18, <2>2, <1>16 DEF ProcessInline, TypeOK
  <2>4. QED
    BY <1>18, <2>1, <2>3
    DEF ProcessInline, Receive, TypeOK, server, display, link
<1>19. CASE ClientEof
  <2>1. cl' \in ConsoleStates
    BY <1>19 DEF ClientEof, TypeOK, ConsoleStates
  <2>2. QED
    BY <1>19, <2>1 DEF ClientEof, TypeOK, server, display
<1>25. CASE ClientLeaves
  <2>1. cl' \in ConsoleStates
    BY <1>25, ConstantsInTypes DEF ClientLeaves, TypeOK, ConsoleStates
  <2>2. toClient' = << >> /\ << >> \in Seq(ToClientMessages)
    BY <1>25 DEF ClientLeaves
  <2>3. QED
    BY <1>25, <2>1, <2>2 DEF ClientLeaves, TypeOK, server, display
<1>20. cl.screen \in Refs /\ cl.resume \in Refs /\ cl.pending \in Refs
  BY DEF TypeOK, ConsoleStates
<1>21. CASE UpdateFrame
  <2>1. cl' \in ConsoleStates
    BY <1>20, <1>21, ConstantsInTypes DEF UpdateFrame, TypeOK, ConsoleStates
  <2>2. toServer' \in Seq(ToServerMessages)
    BY <1>20, <1>21, ReleasesType DEF UpdateFrame, ConsoleMapped
  <2>3. QED
    BY <1>21, <2>1, <2>2 DEF UpdateFrame, TypeOK, server, display, link
<1>22. ASSUME NEW paused \in BOOLEAN, SetPaused(paused)
       PROVE  TypeOK'
  <2>1. cl' \in ConsoleStates
    BY <1>20, <1>22, ConstantsInTypes
    DEF SetPaused, ShowResumeFrame, TypeOK, ConsoleStates
  <2>2. toServer' \in Seq(ToServerMessages)
    BY <1>20, <1>22, ReleasesType DEF SetPaused, ConsoleMapped, TypeOK
  <2>3. pauses' \in 0 .. MaxPauses
    BY <1>22, BoundsAssumption DEF SetPaused, TypeOK
  <2>4. QED
    BY <1>22, <2>1, <2>2, <2>3 DEF SetPaused, TypeOK, server, display, link
<1>23. CASE SetWindowHidden
  <2>1. cl' \in ConsoleStates
    BY <1>23 DEF SetWindowHidden, TypeOK, ConsoleStates
  <2>2. [magic |-> "IKAP", hidden |-> ~cl.hidden] \in ToServerMessages
    BY DEF TypeOK, ConsoleStates, ToServerMessages
  <2>3. toServer' \in Seq(ToServerMessages)
    BY <1>23, <2>2, SeqAppend DEF SetWindowHidden, TypeOK
  <2>4. toggles' \in 0 .. MaxToggles
    BY <1>23, BoundsAssumption DEF SetWindowHidden, TypeOK
  <2>5. QED
    BY <1>23, <2>1, <2>3, <2>4
    DEF SetWindowHidden, TypeOK, server, display, link
<1>24. QED
  BY <1>1, <1>2, <1>3, <1>4, <1>5, <1>6, <1>7, <1>8, <1>9, <1>10, <1>11,
     <1>12, <1>13, <1>14, <1>15, <1>17, <1>18, <1>19, <1>21, <1>22, <1>23, <1>25
  DEF Next, WaylandThread, ClientThread, SourceThread, UiThread, ReadEof,
      SendFails
-----------------------------------------------------------------------------
(* Memories are only added: what exists keeps its generation and connection. *)
MemKept ==
    /\ Len(mem) \in Nat /\ Len(mem') \in Nat /\ Len(mem) <= Len(mem')
    /\ \A j \in 1 .. Len(mem) : /\ mem'[j].gen = mem[j].gen
                                 /\ mem'[j].ses = mem[j].ses

(* Shared memories are made and written, and never change their generation   *)
(* or connection.                                                            *)
LEMMA MemStep ==
    ASSUME IInv, Next
    PROVE  /\ MemKept
           /\ ~SendShmInit => Len(mem') = Len(mem)
<1>1. CASE mem' = mem
  BY <1>1 DEF MemKept, IInv, TypeOK
<1>2. ASSUME NEW m \in 1 .. Len(mem), NEW s \in Slots, NEW v \in Pixels,
             mem' = [mem EXCEPT ![m].pix[s] = v]
      PROVE  MemKept /\ Len(mem') = Len(mem)
  <2>1. Len(mem) \in Nat
    BY DEF IInv, TypeOK
  <2>2. QED
    BY <1>2, <2>1, MemWrite DEF MemKept, IInv
<1>3. CASE OnFramePublish
  <2>1. CASE prod.pc = "slot"
    <3>1. prod.map \in 1 .. Len(mem) /\ prod.slot \in Slots /\ drawn \in Pixels
      BY <2>1, ConstantsInTypes DEF IInv, ServerMapped, TypeOK
    <3>2. QED
      BY <1>2, <1>3, <2>1, <3>1 DEF OnFramePublish
  <2>2. QED
    BY <1>1, <1>3, <2>1 DEF OnFramePublish
<1>4. ASSUME NEW size \in Sizes, OnFrameReserve(size)
      PROVE  MemKept /\ Len(mem') = Len(mem)
  <2>1. CASE ~suppress /\ CanReserve(size)
    <3>1. FirstFree \in Slots /\ shm.map \in 1 .. Len(mem)
      BY <2>1, FirstFreeIsFree
      DEF CanReserve, IInv, TypeOK, ShmStates, ServerMapped
    <3>2. QED
      BY <1>2, <1>4, <2>1, <3>1, ConstantsInTypes DEF OnFrameReserve
  <2>2. QED
    BY <1>1, <1>4, <2>1 DEF OnFrameReserve
<1>5. CASE AcquireShmSlot
  <2>1. shm.map \in 1 .. Len(mem)
    BY <1>5
    DEF AcquireShmSlot, IInv, ThreadMapped, ServerMapped, TypeOK, ShmStates
  <2>2. PICK s \in Slots : mem' = [mem EXCEPT ![shm.map].pix[s] = Torn]
    BY <1>5, AcquiredSlot
  <2>3. QED
    BY <1>2, <2>1, <2>2, ConstantsInTypes
<1>6. CASE SendShmNotify
  <2>1. th.map \in 1 .. Len(mem) /\ th.slot \in Slots
    BY <1>6
    DEF SendShmNotify, IInv, ThreadMapped, ServerMapped, TypeOK, ShmStates
  <2>2. NotifiedPixels \in Pixels
    BY <2>1, MemPix DEF NotifiedPixels, IInv, TypeOK, ThreadStates, Frames
  <2>3. QED
    BY <1>2, <1>6, <2>1, <2>2 DEF SendShmNotify
<1>7. CASE SendShmInit
  <2>1. mem' = Append(mem, [gen |-> NextGen, ses |-> ses, foreign |-> foreign,
                            pix |-> [s \in Slots |-> NoFrame]])
    BY <1>7 DEF SendShmInit
  <2>2. mem' \in Seq(Memories) /\ mem \in Seq(Memories)
    BY TypeStep DEF TypeOK, IInv
  <2>3. QED
    BY <1>7, <2>1, <2>2 DEF MemKept
<1>8. QED
  BY <1>1, <1>3, <1>4, <1>5, <1>6, <1>7
  DEF Next, WaylandThread, ClientThread, SourceThread, UiThread, OnDmabufFrame,
      ReadClientMessage, ReadEof, EndClient, HelloEof, BindClient,
      TakeLatestFrame, NothingToSend, WaitForClientOrFrame, SendInline,
      RemapSlots, SendFails, Connect, ProcessShmInit, ProcessShmFrame,
      ProcessInline, ClientEof, ClientLeaves, UpdateFrame, SetWindowHidden,
      SetPaused, server
-----------------------------------------------------------------------------
(* Every step keeps what is mapped.                                          *)
LEMMA ServerMappedStep ==
    ASSUME IInv, Next
    PROVE  ServerMapped'
<1> USE DEF IInv
<1>1. /\ TypeOK /\ TypeOK' /\ MemKept
      /\ shm.map \in Nat /\ shm.gen \in Nat /\ shm'.map \in Nat
  BY TypeStep, MemStep DEF TypeOK, ShmStates
<1>2. ASSUME shm'.map = shm.map, shm'.gen = shm.gen,
             latest'.slot \in {latest.slot, NoSlot},
             prod' = prod \/ prod'.pc # "slot", ses' = ses
      PROVE  ServerMapped'
  <2>1. prod'.pc = "slot" => /\ prod' = prod
                             /\ prod.map \in 1 .. Len(mem)
                             /\ prod'.map \in 1 .. Len(mem')
    BY <1>1, <1>2 DEF ServerMapped, MemKept
  <2>2. shm.map # 0 => shm.map \in 1 .. Len(mem)
    BY <1>1 DEF ServerMapped, MemKept
  <2>3. QED
    BY <1>1, <1>2, <2>1, <2>2 DEF ServerMapped, MemKept
<1>3. ASSUME NEW size \in Sizes, OnFrameReserve(size)
      PROVE  ServerMapped'
  <2>1. CASE ~suppress /\ CanReserve(size)
    <3>1. /\ shm'.map = shm.map /\ shm'.gen = shm.gen /\ shm.gen # 0
          /\ latest' = latest /\ ses' = ses
          /\ prod'.map = shm.map /\ prod'.slot = FirstFree /\ shm.map # 0
      BY <1>3, <2>1, TakeSlotFields DEF OnFrameReserve, CanReserve, link
    <3>2. FirstFree \in Slots
      BY <2>1, FirstFreeIsFree DEF CanReserve
    <3>3. shm.map \in 1 .. Len(mem)
      BY <1>1, <3>1 DEF ServerMapped, MemKept
    <3>4. QED
      BY <1>1, <3>1, <3>2, <3>3 DEF ServerMapped, MemKept
  <2>2. CASE ~(~suppress /\ CanReserve(size))
    BY <1>2, <1>3, <2>2 DEF OnFrameReserve, IdleProd, link
  <2>3. QED
    BY <2>1, <2>2
<1>4. ASSUME NEW f, ReplaceLatestFrame(f)
      PROVE  shm'.map = shm.map /\ shm'.gen = shm.gen /\ latest' = f
  BY <1>1, <1>4 DEF ReplaceLatestFrame, TypeOK, ShmStates
<1>5. CASE OnFramePublish
  <2>1. CASE prod.pc = "slot" /\ shm.map = prod.map
    <3>1. /\ shm'.map = shm.map /\ shm'.gen = shm.gen /\ ses' = ses
          /\ prod'.pc = "idle"
      BY <1>4, <1>5, <2>1 DEF OnFramePublish, IdleProd, link
    <3>2. shm.map \in 1 .. Len(mem) /\ mem[shm.map].gen # 0
      BY <2>1 DEF ServerMapped
    <3>3. shm.gen # 0
      BY <3>2, <1>1 DEF ServerMapped
    <3>4. mem'[shm.map].gen = shm.gen /\ mem'[shm.map].ses = ses
      BY <1>1, <3>2 DEF ServerMapped, MemKept
    <3>5. QED
      BY <1>1, <3>1, <3>2, <3>3, <3>4 DEF ServerMapped, MemKept
  <2>2. CASE ~(prod.pc = "slot" /\ shm.map = prod.map)
    <3>1. latest'.slot \in {latest.slot, NoSlot}
      BY <1>4, <1>5, <2>2 DEF OnFramePublish, RawFrame
    <3>2. QED
      BY <1>2, <1>4, <1>5, <2>2, <3>1 DEF OnFramePublish, IdleProd, link
  <2>3. QED
    BY <2>1, <2>2
<1>6. ASSUME NEW size \in Sizes, OnDmabufFrame(size)
      PROVE  ServerMapped'
  <2>1. latest'.slot = NoSlot
    BY <1>6 DEF OnDmabufFrame, ReplaceLatestFrame, EmptyFrame
  <2>2. QED
    BY <1>2, <1>4, <1>6, <2>1 DEF OnDmabufFrame, link
<1>7. CASE ReadClientMessage
  <2>1. shm'.map = shm.map /\ shm'.gen = shm.gen
    BY <1>7, ReadKeepsMap
  <2>2. QED
    BY <1>2, <1>7, <2>1 DEF ReadClientMessage, display, link
<1>8. CASE EndClient
  <2>1. shm'.map = 0 /\ shm'.gen = 0 /\ latest'.slot = NoSlot /\ prod' = prod
    BY <1>1, <1>8, DetachType
    DEF EndClient, CloseClientShm, TypeOK, ShmStates
  <2>2. QED
    BY <1>1, <2>1 DEF ServerMapped, MemKept
<1>9. CASE TakeLatestFrame
  BY <1>1, <1>2, <1>9 DEF TakeLatestFrame, TypeOK, Frames, link
<1>10. CASE RemapSlots
  <2>1. /\ latest'.slot = NoSlot /\ prod' = prod /\ ses' = ses /\ mem' = mem
        /\ shm'.map = Len(mem) /\ shm'.gen = NextGen
    BY <1>1, <1>10, DetachType DEF RemapSlots, link, TypeOK, ShmStates
  <2>2. shm'.map # 0 /\ mem[Len(mem)].gen = NextGen /\ mem[Len(mem)].ses = ses
    BY <1>1, <1>10, <2>1 DEF RemapSlots, ThreadMapped
  <2>3. QED
    BY <1>1, <2>1, <2>2 DEF ServerMapped
<1>11. CASE AcquireShmSlot
  <2>1. shm'.map = shm.map /\ shm'.gen = shm.gen
    BY <1>1, <1>11 DEF AcquireShmSlot, TakeSlot, TypeOK, ShmStates
  <2>2. QED
    BY <1>2, <1>11, <2>1 DEF AcquireShmSlot, display, link
<1>12. ASSUME NEW f \in BOOLEAN, Connect(f)
       PROVE  ServerMapped'
  <2>1. shm.map = 0 /\ shm'.map = 0 /\ shm'.gen = 0
    BY <1>12 DEF Connect, EmptyShm, ThreadMapped
  <2>2. latest'.slot = NoSlot /\ prod' = prod
    BY <1>12, <2>1 DEF Connect, display, ServerMapped
  <2>3. QED
    BY <1>1, <2>1, <2>2 DEF ServerMapped, MemKept
<1>13. QED
  BY <1>2, <1>3, <1>5, <1>6, <1>7, <1>8, <1>9, <1>10, <1>11, <1>12
  DEF Next, WaylandThread, ClientThread, SourceThread, UiThread, ReadEof,
      HelloEof, BindClient, NothingToSend, WaitForClientOrFrame, SendInline,
      SendShmInit, SendShmNotify, SendFails, ProcessShmInit, ProcessShmFrame,
      ProcessInline, ClientEof, ClientLeaves, UpdateFrame, SetWindowHidden,
      SetPaused, server, display, link

(* Every step keeps what the client thread refers to.                        *)
LEMMA ThreadMappedStep ==
    ASSUME IInv, Next
    PROVE  ThreadMapped'
<1> USE DEF IInv
<1>1. /\ TypeOK /\ TypeOK' /\ MemKept /\ (~SendShmInit => Len(mem') = Len(mem))
      /\ shm.map \in Nat /\ shm \in ShmStates /\ th \in ThreadStates
  BY TypeStep, MemStep DEF TypeOK, ShmStates
<1>2. ASSUME th' = th, shm'.map = shm.map, shm'.releases = shm.releases,
             shm'.lastGen = shm.lastGen, ses' = ses, ~SendShmInit
      PROVE  ThreadMapped'
  <2>1. NextGen' = NextGen
    BY <1>2 DEF NextGen
  <2>2. th.pc = "remap" => Len(mem) \in 1 .. Len(mem)
    BY <1>1 DEF ThreadMapped, MemKept
  <2>3. QED
    BY <1>1, <1>2, <2>1, <2>2 DEF ThreadMapped, MemKept
<1>3. ASSUME th'.pc \in {"loop", "poll", "inline", "init"}
      PROVE  ThreadMapped'
  BY <1>3 DEF ThreadMapped
<1>4. ASSUME NEW size \in Sizes, OnFrameReserve(size)
      PROVE  ThreadMapped'
  <2>1. \/ shm' = shm
        \/ shm' = TakeSlot(FirstFree)
    BY <1>4 DEF OnFrameReserve
  <2>2. /\ shm'.map = shm.map /\ shm'.releases = shm.releases
        /\ shm'.lastGen = shm.lastGen
    BY <1>1, <2>1, TakeSlotFields
  <2>3. th' = th /\ ses' = ses /\ toClient' = toClient
    BY <1>4 DEF OnFrameReserve, link
  <2>4. ~SendShmInit
    BY <2>3, <1>1 DEF SendShmInit, ThreadStates
  <2>5. QED
    BY <1>2, <2>2, <2>3, <2>4
<1>5. ASSUME NEW f, ReplaceLatestFrame(f)
      PROVE  /\ shm'.map = shm.map /\ shm'.releases = shm.releases
             /\ shm'.lastGen = shm.lastGen
  BY <1>1, <1>5 DEF ReplaceLatestFrame, ShmStates
<1>6. CASE OnFramePublish
  BY <1>1, <1>2, <1>5, <1>6
  DEF OnFramePublish, link, SendShmInit, ThreadStates
<1>7. ASSUME NEW size \in Sizes, OnDmabufFrame(size)
      PROVE  ThreadMapped'
  BY <1>1, <1>2, <1>5, <1>7 DEF OnDmabufFrame, link, SendShmInit, ThreadStates
<1>8. CASE ReadClientMessage
  <2>1. shm'.map = shm.map
    BY <1>8, ReadKeepsMap
  <2>2. th' = th /\ th.pc \in {"hello", "loop", "acquire"}
    BY <1>8 DEF ReadClientMessage
  <2>3. QED
    BY <2>1, <2>2 DEF ThreadMapped
<1>9. CASE EndClient
  <2>1. shm'.map = 0 /\ th'.pc = "none"
    BY <1>1, <1>9 DEF EndClient, CloseClientShm, ShmStates, IdleThread
  <2>2. QED
    BY <2>1 DEF ThreadMapped
<1>10. CASE HelloEof
  BY <1>10 DEF HelloEof, IdleThread, ThreadMapped
<1>11. CASE BindClient \/ NothingToSend \/ WaitForClientOrFrame
  BY <1>1, <1>3, <1>11
  DEF BindClient, NothingToSend, WaitForClientOrFrame, ThreadStates
<1>12. CASE TakeLatestFrame
  <2>1. /\ th'.map = shm.map /\ th'.slot = latest.slot /\ shm' = shm
        /\ th'.pc \in {"poll", "inline", "notify", "init", "acquire"}
        /\ th'.pc = "notify" => latest.slot # NoSlot
        /\ th'.pc = "acquire" => shm.map # 0
    BY <1>1, <1>12 DEF TakeLatestFrame, ThreadStates, NeedsShmInit
  <2>2. latest.slot # NoSlot => latest.slot \in Slots /\ shm.map # 0
    BY <1>1 DEF ServerMapped, TypeOK, Frames
  <2>3. QED
    BY <2>1, <2>2 DEF ThreadMapped
<1>13. CASE SendInline \/ SendShmNotify
  BY <1>1, <1>3, <1>13
  DEF SendInline, SendShmNotify, ThreadStates, IdleThread
<1>14. CASE SendShmInit
  <2>1. th'.pc = "remap" /\ shm' = shm /\ ses' = ses
    BY <1>1, <1>14 DEF SendShmInit, ThreadStates, link
  <2>2. mem \in Seq(Memories)
    BY DEF TypeOK
  <2>3. /\ Len(mem') = Len(mem) + 1
        /\ mem'[Len(mem')] = [gen |-> NextGen, ses |-> ses, foreign |-> foreign,
                              pix |-> [s \in Slots |-> NoFrame]]
    BY <1>14, <2>2 DEF SendShmInit
  <2>4. NextGen' = NextGen
    BY <2>1 DEF NextGen
  <2>5. shm.map < Len(mem')
    BY <1>1, <2>3 DEF ServerMapped, MemKept
  <2>6. mem'[Len(mem')].gen = NextGen /\ mem'[Len(mem')].ses = ses
    BY <2>3
  <2>7. QED
    BY <2>1, <2>4, <2>5, <2>6 DEF ThreadMapped
<1>15. CASE RemapSlots
  <2>1. shm'.map = Len(mem) /\ Len(mem) # 0 /\ th'.pc = "acquire"
    BY <1>1, <1>15
    DEF RemapSlots, ShmStates, ThreadStates, ThreadMapped, MemKept
  <2>2. QED
    BY <2>1 DEF ThreadMapped
<1>16. CASE AcquireShmSlot
  <2>1. PICK s \in Slots :
          /\ shm' = [shm EXCEPT !.next = (s + 1) % SlotCount]
             \/ shm' = TakeSlot(s)
          /\ th' = [th EXCEPT !.pc = "notify", !.map = shm.map, !.slot = s]
    BY <1>16, AcquiredSlot
  <2>2. shm'.map = shm.map
    BY <1>1, <2>1, TakeSlotFields DEF ShmStates
  <2>3. th'.pc = "notify" /\ th'.map = shm.map /\ th'.slot \in Slots
    BY <1>1, <2>1 DEF ThreadStates
  <2>4. shm.map # 0
    BY <1>16 DEF AcquireShmSlot, ThreadMapped
  <2>5. QED
    BY <2>2, <2>3, <2>4 DEF ThreadMapped
<1>17. ASSUME NEW f \in BOOLEAN, Connect(f)
       PROVE  ThreadMapped'
  BY <1>17 DEF Connect, EmptyShm, IdleThread, ThreadMapped
<1>18. ASSUME UNCHANGED <<server, ses>>
       PROVE  ThreadMapped'
  BY <1>1, <1>2, <1>18 DEF server, SendShmInit, ThreadStates
<1>19. QED
  BY <1>4, <1>6, <1>7, <1>8, <1>9, <1>10, <1>11, <1>12, <1>13, <1>14, <1>15,
     <1>16, <1>17, <1>18
  DEF Next, WaylandThread, ClientThread, SourceThread, UiThread, ReadEof,
      SendFails, ProcessShmInit, ProcessShmFrame, ProcessInline, ClientEof,
      ClientLeaves, UpdateFrame, SetWindowHidden, SetPaused, link

(* Every step keeps the client thread and the connection in agreement.       *)
LEMMA LinkStateStep ==
    ASSUME IInv, Next
    PROVE  LinkState'
<1> USE DEF IInv
<1>1. TypeOK /\ th \in ThreadStates /\ cl \in ConsoleStates
  BY DEF TypeOK
<1>2. ASSUME th'.pc = th.pc, UNCHANGED link,
             conn \in {"none", "left"} => cl'.map = 0 /\ toClient' = << >>
      PROVE  LinkState'
  BY <1>2 DEF LinkState, link
<1>3. ASSUME UNCHANGED <<link, toClient, cl>>,
             th.pc # "none" /\ th'.pc # "none"
      PROVE  LinkState'
  BY <1>3 DEF LinkState, link
<1>4. CASE WaylandThread
  BY <1>2, <1>4
  DEF WaylandThread, OnFrameReserve, OnFramePublish, OnDmabufFrame, LinkState,
      link, console
<1>5. CASE EndClient /\ th.pc # "none"
  BY <1>1, <1>5 DEF EndClient, LinkState, IdleThread, TypeOK, console
<1>6. CASE HelloEof
  BY <1>6 DEF HelloEof, LinkState, IdleThread, console
<1>7. CASE ReadClientMessage \/ BindClient \/ TakeLatestFrame \/ NothingToSend
           \/ WaitForClientOrFrame \/ RemapSlots \/ AcquireShmSlot
  BY <1>1, <1>3, <1>7
  DEF ReadClientMessage, BindClient, TakeLatestFrame, NothingToSend,
      WaitForClientOrFrame, RemapSlots, AcquireShmSlot, ThreadStates, console
<1>8. CASE SendInline \/ SendShmInit \/ SendShmNotify
  BY <1>1, <1>8
  DEF SendInline, SendShmInit, SendShmNotify, Send, ThreadStates, IdleThread,
      LinkState, link, console
<1>9. ASSUME NEW f \in BOOLEAN, Connect(f)
      PROVE  LinkState'
  BY <1>1, <1>9 DEF Connect, IdleThread, LinkState, TypeOK
<1>10. CASE ProcessShmInit \/ ProcessShmFrame \/ ProcessInline
  <2>1. conn \in {"open", "ended"} /\ UNCHANGED <<th, link>>
    BY <1>10
    DEF ProcessShmInit, ProcessShmFrame, ProcessInline, Receive, server
  <2>2. QED
    BY <1>2, <2>1
<1>11. CASE ClientEof \/ ClientLeaves
  BY <1>1, <1>11
  DEF ClientEof, ClientLeaves, LinkState, ConsoleStates, server
<1>12. CASE UiThread
  BY <1>1, <1>2, <1>12
  DEF UiThread, UpdateFrame, SetWindowHidden, SetPaused, ShowResumeFrame,
      ConsoleStates, LinkState, server
<1>13. QED
  BY <1>4, <1>5, <1>6, <1>7, <1>8, <1>9, <1>10, <1>11, <1>12
  DEF Next, ClientThread, SourceThread, ReadEof, SendFails
-----------------------------------------------------------------------------
(* Every step keeps the references of the console and the order on the wire. *)
LEMMA ConsoleMappedStep ==
    ASSUME IInv, Next
    PROVE  ConsoleMapped'
<1> USE DEF IInv
<1>1. /\ MemKept /\ cl \in ConsoleStates /\ cl.map \in Nat
      /\ cl.pending \in Refs /\ cl.screen \in Refs /\ cl.resume \in Refs
      /\ cl' \in ConsoleStates
  BY TypeStep, MemStep DEF TypeOK, ConsoleStates
<1>2. ASSUME NEW r \in Refs, RefMapped(r)
      PROVE  RefMapped(r)'
  <2>1. r.map # 0 => r.map \in 1 .. Len(mem)
    BY <1>2 DEF RefMapped, Refs
  <2>2. QED
    BY <1>1, <1>2, <2>1 DEF RefMapped, MemKept
<1>3. RefMapped(NoRef)'
  BY DEF RefMapped, NoRef
<1>4. /\ RefMapped(cl.pending) /\ RefMapped(cl.screen) /\ RefMapped(cl.resume)
      /\ cl.map <= Len(mem')
  BY <1>1 DEF ConsoleMapped, MemKept
<1>5. ASSUME NEW a \in Refs, NEW b \in Refs, NEW c \in Refs,
             a = NoRef \/ RefMapped(a), b = NoRef \/ RefMapped(b),
             c = NoRef \/ RefMapped(c),
             cl'.pending = a, cl'.screen = b, cl'.resume = c,
             cl'.map <= Len(mem')
      PROVE  ConsoleMapped'
  <2>1. RefMapped(a)' /\ RefMapped(b)' /\ RefMapped(c)'
    BY <1>2, <1>3, <1>5
  <2>2. QED
    BY <1>5, <2>1 DEF ConsoleMapped, RefMapped
<1>6. CASE cl' = cl
  BY <1>1, <1>4, <1>5, <1>6
<1>7. CASE ProcessShmInit
  <2>1. 1 \in 1 .. Len(toClient) /\ toClient[1] = Head(toClient)
    BY <1>7, SeqTail DEF ProcessShmInit, Receive, TypeOK
  <2>2. Head(toClient).map <= Len(mem')
    BY <1>7, <2>1
    DEF WireOrder, Ordered, InitsToCome, IsInit, ProcessShmInit, server
  <2>3. /\ cl'.pending = cl.pending /\ cl'.screen = cl.screen
        /\ cl'.resume = cl.resume /\ cl'.map = Head(toClient).map
    BY <1>1, <1>7 DEF ProcessShmInit, NewSlots, ConsoleStates
  <2>4. QED
    BY <1>1, <1>4, <1>5, <2>2, <2>3
<1>8. ASSUME NEW r \in Refs, RefMapped(r), Push(r)
      PROVE  ConsoleMapped'
  <2>1. /\ cl'.pending = r /\ cl'.screen = cl.screen
        /\ cl'.resume = cl.resume /\ cl'.map = cl.map
    BY <1>1, <1>8 DEF Push, ConsoleStates
  <2>2. QED
    BY <1>1, <1>4, <1>5, <1>8, <2>1
<1>9. CASE ProcessShmFrame
  <2> DEFINE m == Head(toClient)
             r == [id |-> m.id, map |-> cl.map, slot |-> m.slot, pix |-> m.pix]
             copy == [NoRef EXCEPT !.id = m.id, !.pix = mem[cl.map].pix[m.slot]]
  <2>1. /\ m \in ToClientMessages /\ m.magic = "IKAN"
    BY <1>9, SeqTail DEF ProcessShmFrame, Receive, TypeOK
  <2>2. m.id \in FrameIds /\ m.slot \in Slots /\ m.pix \in Pixels
    BY <2>1 DEF ToClientMessages
  <2>3. cl.map \in 1 .. Len(mem)
    BY <1>9, HeadNotice DEF ProcessShmFrame, Receive
  <2>4. r \in Refs
    BY <1>1, <2>2 DEF Refs
  <2>5. copy \in Refs /\ RefMapped(copy)
    BY <2>2, <2>3, MemPix, ConstantsInTypes DEF Refs, NoRef, RefMapped
  <2>6. mem[cl.map].gen # 0 => RefMapped(r)
    BY <2>2, <2>3 DEF RefMapped
  <2>7. QED
    BY <1>6, <1>8, <1>9, <2>4, <2>5, <2>6 DEF ProcessShmFrame
<1>10. CASE ProcessInline
  <2> DEFINE r == [NoRef EXCEPT !.id = Head(toClient).id,
                                !.pix = Head(toClient).pix]
  <2>1. Head(toClient) \in ToClientMessages /\ Head(toClient).magic = "IKAF"
    BY <1>10, SeqTail DEF ProcessInline, Receive, TypeOK
  <2>2. r \in Refs /\ RefMapped(r)
    BY <2>1, ConstantsInTypes DEF ToClientMessages, NoRef, Refs, RefMapped
  <2>3. QED
    BY <1>6, <1>8, <1>10, <2>2 DEF ProcessInline
<1>11. CASE ClientEof
  <2>1. /\ cl'.pending = cl.pending /\ cl'.screen = cl.screen
        /\ cl'.resume = cl.resume /\ cl'.map = 0
    BY <1>1, <1>11 DEF ClientEof, ConsoleStates
  <2>2. QED
    BY <1>1, <1>4, <1>5, <2>1 DEF MemKept
<1>12. CASE ClientLeaves
  <2>1. /\ cl'.pending = NoRef /\ cl'.screen = NoRef
        /\ cl'.resume = NoRef /\ cl'.map = 0
    BY <1>1, <1>12 DEF ClientLeaves, ConsoleStates
  <2>2. QED
    BY <1>1, <1>5, <2>1, ConstantsInTypes DEF MemKept
<1>13. CASE UpdateFrame
  <2>1. /\ cl'.pending = NoRef /\ cl'.map = cl.map
        /\ cl'.screen \in {cl.pending, cl.screen}
        /\ cl'.resume \in {cl.pending, cl.resume}
    BY <1>1, <1>13 DEF UpdateFrame, ConsoleStates
  <2>2. QED
    BY <1>1, <1>4, <1>5, <2>1, ConstantsInTypes
<1>14. ASSUME NEW paused \in BOOLEAN, SetPaused(paused)
       PROVE  ConsoleMapped'
  <2>1. /\ cl'.pending = cl.pending /\ cl'.map = cl.map
        /\ cl'.screen \in {cl.resume, cl.screen}
        /\ cl'.resume \in {NoRef, cl.resume}
    BY <1>1, <1>14 DEF SetPaused, ShowResumeFrame, ConsoleStates
  <2>2. QED
    BY <1>1, <1>4, <1>5, <2>1, ConstantsInTypes
<1>15. CASE SetWindowHidden
  <2>1. /\ cl'.pending = cl.pending /\ cl'.map = cl.map
        /\ cl'.screen = cl.screen /\ cl'.resume = cl.resume
    BY <1>1, <1>15 DEF SetWindowHidden, ConsoleStates
  <2>2. QED
    BY <1>1, <1>4, <1>5, <2>1
<1>16. QED
  BY <1>6, <1>7, <1>9, <1>10, <1>11, <1>12, <1>13, <1>14, <1>15
  DEF Next, WaylandThread, ClientThread, SourceThread, UiThread,
      OnFrameReserve, OnFramePublish, OnDmabufFrame, ReadClientMessage,
      ReadEof, EndClient, HelloEof, BindClient, TakeLatestFrame,
      NothingToSend, WaitForClientOrFrame, SendInline, SendShmInit,
      SendShmNotify, RemapSlots, AcquireShmSlot, SendFails, Connect, console
(* What is appended to the wire, and what is taken from it.                  *)
InlineMessage == [magic |-> "IKAF", id |-> th.frame.id, pix |-> th.frame.pix]
InitMessage == [magic |-> "IKAS", map |-> Len(mem) + 1]
NoticeMessage == [magic |-> "IKAN", id |-> th.frame.id, slot |-> th.slot,
                  map |-> th.map, pix |-> NotifiedPixels]

(* The messages on the wire have the fields their order goes by.             *)
LEMMA MessageTypes ==
    ASSUME IInv
    PROVE  /\ InlineMessage \in ToClientMessages
           /\ ~IsInit(InlineMessage) /\ ~IsNotice(InlineMessage)
           /\ InitMessage \in ToClientMessages
           /\ IsInit(InitMessage) /\ ~IsNotice(InitMessage)
           /\ InitMessage.map = Len(mem) + 1
           /\ th.pc = "notify" =>
                /\ NoticeMessage \in ToClientMessages
                /\ ~IsInit(NoticeMessage) /\ IsNotice(NoticeMessage)
                /\ NoticeMessage.map = shm.map /\ shm.map \in Nat \ {0}
<1>1. th \in ThreadStates /\ Len(mem) \in Nat
  BY DEF IInv, TypeOK
<1>2. InlineMessage \in ToClientMessages
  BY <1>1 DEF InlineMessage, ThreadStates, Frames, ToClientMessages
<1>3. InitMessage \in ToClientMessages
  BY <1>1 DEF InitMessage, ToClientMessages
<1>4. ASSUME th.pc = "notify"
      PROVE  /\ NoticeMessage \in ToClientMessages
             /\ NoticeMessage.map = shm.map /\ shm.map \in Nat \ {0}
  <2>1. /\ th.map \in 1 .. Len(mem) /\ th.slot \in Slots
        /\ th.map = shm.map /\ shm.map \in Nat \ {0}
    BY <1>4 DEF IInv, ThreadMapped, ServerMapped, TypeOK, ShmStates
  <2>2. NotifiedPixels \in Pixels
    BY <1>1, <2>1, MemPix DEF NotifiedPixels, ThreadStates, Frames, IInv
  <2>3. QED
    BY <1>1, <2>1, <2>2
    DEF NoticeMessage, ThreadStates, Frames, ToClientMessages
<1>5. QED
  BY <1>2, <1>3, <1>4 DEF InlineMessage, InitMessage, NoticeMessage, IsInit,
                          IsNotice

(* The messages of a step on the wire, and the memory the console has.       *)
WireStep ==
    \/ toClient' = toClient /\ cl'.map = cl.map
    \/ toClient' = << >> /\ conn' # "open"
    \/ toClient' = << >> /\ th'.pc = "hello"
    \/ SendInline /\ toClient' = Append(toClient, InlineMessage)
       /\ cl'.map = cl.map
    \/ SendShmInit /\ toClient' = Append(toClient, InitMessage)
       /\ cl'.map = cl.map /\ Len(mem') = Len(mem) + 1 /\ th'.pc = "remap"
    \/ SendShmNotify /\ toClient' = Append(toClient, NoticeMessage)
       /\ cl'.map = cl.map
    \/ /\ UNCHANGED <<server, conn>>
       /\ toClient # << >> /\ toClient' = Tail(toClient)
       /\ \/ IsInit(Head(toClient)) /\ cl'.map = Head(toClient).map
          \/ ~IsInit(Head(toClient)) /\ cl'.map = cl.map

(* A step adds one message to the wire, takes the first one, empties it, or  *)
(* leaves it alone.                                                          *)
LEMMA NextIsWireStep ==
    ASSUME IInv, Next
    PROVE  WireStep
<1>1. cl \in ConsoleStates /\ th \in ThreadStates /\ mem \in Seq(Memories)
  BY DEF IInv, TypeOK
<1>2. CASE ProcessShmInit
  <2>1. cl'.map = Head(toClient).map
    BY <1>1, <1>2 DEF ProcessShmInit, NewSlots, ConsoleStates
  <2>2. QED
    BY <1>2, <2>1 DEF ProcessShmInit, Receive, WireStep, IsInit, link
<1>3. CASE ProcessShmFrame \/ ProcessInline
  <2>1. cl'.map = cl.map
    BY <1>1, <1>3 DEF ProcessShmFrame, ProcessInline, Push, ConsoleStates
  <2>2. QED
    BY <1>3, <2>1
    DEF ProcessShmFrame, ProcessInline, Receive, WireStep, IsInit, link
<1>4. CASE SendInline \/ SendShmNotify
  BY <1>4 DEF SendInline, SendShmNotify, Send, WireStep, InlineMessage,
              NoticeMessage, console
<1>5. CASE SendShmInit
  <2>1. Len(mem') = Len(mem) + 1 /\ th'.pc = "remap"
    BY <1>1, <1>5 DEF SendShmInit, ThreadStates
  <2>2. QED
    BY <1>5, <2>1 DEF SendShmInit, Send, WireStep, InitMessage, console
<1>6. CASE ClientEof \/ ClientLeaves
  BY <1>6 DEF ClientEof, ClientLeaves, WireStep
<1>7. ASSUME NEW f \in BOOLEAN, Connect(f)
      PROVE  WireStep
  BY <1>7 DEF Connect, WireStep, IdleThread
<1>8. CASE UiThread
  <2>1. toClient' = toClient /\ cl'.map = cl.map
    BY <1>1, <1>8
    DEF UiThread, UpdateFrame, SetWindowHidden, SetPaused, ShowResumeFrame,
        ConsoleStates
  <2>2. QED
    BY <2>1 DEF WireStep
<1>9. CASE toClient' = toClient /\ cl' = cl
  BY <1>9 DEF WireStep
<1>10. QED
  BY <1>2, <1>3, <1>4, <1>5, <1>6, <1>7, <1>8, <1>9
  DEF Next, WaylandThread, ClientThread, SourceThread, OnFrameReserve,
      OnFramePublish, OnDmabufFrame, ReadClientMessage, ReadEof, EndClient,
      HelloEof, BindClient, TakeLatestFrame, NothingToSend,
      WaitForClientOrFrame, RemapSlots, AcquireShmSlot, SendFails, console

(* Every step keeps the order of IKAS and IKAN on the wire.                  *)
LEMMA WireOrderStep ==
    ASSUME IInv, Next
    PROVE  WireOrder'
<1>1. /\ MemKept /\ cl.map \in Nat /\ toClient \in Seq(ToClientMessages)
      /\ Len(mem) \in Nat /\ Len(mem') \in Nat /\ Len(mem) <= Len(mem')
      /\ Ordered(toClient, cl.map, Len(mem)) /\ cl.map <= Len(mem)
  BY MemStep DEF IInv, TypeOK, ConsoleStates, MemKept, WireOrder, ConsoleMapped
<1>2. Ordered(toClient, cl.map, Len(mem'))
  BY <1>1, OrderMore
<1>3. CASE toClient' = toClient /\ cl'.map = cl.map
  BY <1>2, <1>3 DEF WireOrder
<1>4. CASE toClient' = << >>
  BY <1>4, OrderEmpty DEF WireOrder
<1>5. CASE SendInline /\ toClient' = Append(toClient, InlineMessage)
           /\ cl'.map = cl.map
  <2>1. Ordered(Append(toClient, InlineMessage), cl.map, Len(mem'))
    BY <1>1, <1>2, MessageTypes, OrderAppendOther
  <2>2. QED
    BY <1>5, <2>1 DEF WireOrder
<1>6. CASE SendShmInit /\ toClient' = Append(toClient, InitMessage)
           /\ cl'.map = cl.map /\ Len(mem') = Len(mem) + 1
  <2>1. Ordered(Append(toClient, InitMessage), cl.map, Len(mem) + 1)
    BY <1>1, MessageTypes, OrderAppendInit
  <2>2. QED
    BY <1>6, <2>1 DEF WireOrder
<1>7. CASE SendShmNotify /\ toClient' = Append(toClient, NoticeMessage)
           /\ cl'.map = cl.map
  <2>1. th.pc = "notify" /\ conn = "open"
    BY <1>7 DEF SendShmNotify, Send
  <2>2. Announced(toClient, cl.map, NoticeMessage.map)
    BY <2>1, MessageTypes DEF IInv, ServerAnnounced
  <2>3. Ordered(Append(toClient, NoticeMessage), cl.map, Len(mem'))
    BY <1>1, <1>2, <2>1, <2>2, MessageTypes, OrderAppendNotice
  <2>4. QED
    BY <1>7, <2>3 DEF WireOrder
<1>8. ASSUME toClient # << >>, toClient' = Tail(toClient),
             \/ IsInit(Head(toClient)) /\ cl'.map = Head(toClient).map
             \/ ~IsInit(Head(toClient)) /\ cl'.map = cl.map
      PROVE  WireOrder'
  <2>1. CASE IsInit(Head(toClient))
    <3>1. Ordered(Tail(toClient), Head(toClient).map, Len(mem'))
      BY <1>1, <1>2, <1>8, <2>1, OrderTailInit
    <3>2. QED
      BY <1>8, <2>1, <3>1 DEF WireOrder
  <2>2. CASE ~IsInit(Head(toClient))
    <3>1. Ordered(Tail(toClient), cl.map, Len(mem'))
      BY <1>1, <1>2, <1>8, <2>2, OrderTailOther
    <3>2. QED
      BY <1>8, <2>2, <3>1 DEF WireOrder
  <2>3. QED
    BY <2>1, <2>2
<1>9. QED
  BY <1>3, <1>4, <1>5, <1>6, <1>7, <1>8, NextIsWireStep DEF WireStep

(* The memory the server uses, or is about to use, changes only by           *)
(* SendShmInit and when a connection begins or ends.                         *)
InUseMap == IF th.pc = "remap" THEN Len(mem) ELSE shm.map

(* While the console is connected and bound, the memory announced last       *)
(* changes by SendShmInit only.                                              *)
LEMMA InUseMapStep ==
    ASSUME IInv, Next, conn' = "open", th'.pc # "hello"
    PROVE  /\ conn = "open"
           /\ SendShmInit \/ InUseMap' = InUseMap
<1> USE DEF IInv
<1>1. /\ th \in ThreadStates /\ shm \in ShmStates /\ TypeOK
      /\ (~SendShmInit => Len(mem') = Len(mem))
  BY MemStep DEF TypeOK
<1>2. ASSUME conn' = conn, shm'.map = shm.map, ~SendShmInit,
             th'.pc = "remap" <=> th.pc = "remap"
      PROVE  InUseMap' = InUseMap /\ conn = "open"
  BY <1>1, <1>2 DEF InUseMap
<1>3. CASE WaylandThread
  <2>1. conn' = conn /\ th' = th
    BY <1>3
    DEF WaylandThread, OnFrameReserve, OnFramePublish, OnDmabufFrame, link
  <2>2. \/ shm' = shm
        \/ shm' = TakeSlot(FirstFree)
        \/ \E f : shm' = [shm EXCEPT !.busy = BusyAfterReplace(f)]
    BY <1>3
    DEF WaylandThread, OnFrameReserve, OnFramePublish, OnDmabufFrame,
        ReplaceLatestFrame
  <2>3. shm'.map = shm.map
    BY <1>1, <2>2, TakeSlotFields DEF ShmStates
  <2>4. ~SendShmInit
    BY <1>1, <2>1 DEF SendShmInit, ThreadStates
  <2>5. QED
    BY <1>2, <2>1, <2>3, <2>4
<1>4. CASE ReadClientMessage
  <2>1. shm'.map = shm.map
    BY <1>4, ReadKeepsMap
  <2>2. th' = th /\ conn' = conn /\ ~SendShmInit
    BY <1>4 DEF ReadClientMessage, SendShmInit, link
  <2>3. QED
    BY <1>2, <2>1, <2>2
<1>5. CASE EndClient \/ HelloEof \/ ClientEof \/ ClientLeaves
  BY <1>5 DEF EndClient, HelloEof, ClientEof, ClientLeaves
<1>6. CASE BindClient \/ TakeLatestFrame \/ NothingToSend
           \/ WaitForClientOrFrame \/ SendInline \/ SendShmNotify
  <2>1. th.pc # "remap" /\ th'.pc # "remap"
    BY <1>1, <1>6
    DEF BindClient, TakeLatestFrame, NothingToSend, WaitForClientOrFrame,
        SendInline, SendShmNotify, ThreadStates, IdleThread
  <2>2. conn' = conn /\ shm' = shm
    BY <1>6
    DEF BindClient, TakeLatestFrame, NothingToSend, WaitForClientOrFrame,
        SendInline, SendShmNotify, link
  <2>3. QED
    BY <1>2, <2>1, <2>2
<1>7. CASE AcquireShmSlot
  <2>1. th.pc = "acquire" /\ th'.pc = "notify" /\ conn' = conn
    BY <1>1, <1>7 DEF AcquireShmSlot, ThreadStates, link
  <2>2. shm'.map = shm.map
    BY <1>1, <1>7, TakeSlotFields DEF AcquireShmSlot, ShmStates
  <2>3. QED
    BY <1>2, <2>1, <2>2
<1>8. CASE RemapSlots
  <2>1. /\ shm'.map = Len(mem) /\ th.pc = "remap" /\ th'.pc = "acquire"
        /\ conn' = conn
    BY <1>1, <1>8 DEF RemapSlots, ShmStates, ThreadStates, link
  <2>2. QED
    BY <2>1 DEF InUseMap
<1>9. CASE SendShmInit
  BY <1>9 DEF SendShmInit, link
<1>10. ASSUME NEW f \in BOOLEAN, Connect(f)
       PROVE  FALSE
  BY <1>10 DEF Connect, IdleThread
<1>11. CASE UNCHANGED <<server, conn>>
  BY <1>1, <1>2, <1>11 DEF server
<1>12. QED
  BY <1>3, <1>4, <1>5, <1>6, <1>7, <1>8, <1>9, <1>10, <1>11
  DEF Next, ClientThread, SourceThread, UiThread, ReadEof, SendFails,
      ProcessShmInit, ProcessShmFrame, ProcessInline, UpdateFrame,
      SetWindowHidden, SetPaused, link

(* Every step keeps: the memory the server uses is the one announced last.   *)
LEMMA ServerAnnouncedStep ==
    ASSUME IInv, Next
    PROVE  ServerAnnounced'
<1>1. /\ cl.map \in Nat /\ toClient \in Seq(ToClientMessages)
      /\ Len(mem) \in Nat /\ shm.map \in Nat
      /\ Ordered(toClient, cl.map, Len(mem)) /\ shm'.map \in Nat
      /\ ThreadMapped'
  <2>1. shm'.map \in Nat
    BY TypeStep DEF TypeOK, ShmStates
  <2>2. cl.map \in Nat /\ shm.map \in Nat
    BY DEF IInv, TypeOK, ConsoleStates, ShmStates
  <2>3. toClient \in Seq(ToClientMessages) /\ Len(mem) \in Nat
    BY DEF IInv, TypeOK
  <2>4. QED
    BY <2>1, <2>2, <2>3, ThreadMappedStep DEF IInv, WireOrder
<1>2. ServerAnnounced' <=>
        (conn' = "open" /\ InUseMap' # 0
            => Announced(toClient', cl'.map, InUseMap'))
  <2>1. th'.pc = "remap" => Len(mem') # 0
    BY <1>1, MemStep DEF ThreadMapped, MemKept
  <2>2. QED
    BY <2>1 DEF ServerAnnounced, InUseMap
<1>3. CASE conn' # "open" \/ th'.pc = "hello"
  BY <1>1, <1>3 DEF ServerAnnounced, ThreadMapped
<1>4. CASE conn' = "open" /\ th'.pc # "hello" /\ SendShmInit
  <2>1. /\ toClient' = Append(toClient, InitMessage) /\ cl'.map = cl.map
        /\ Len(mem') = Len(mem) + 1 /\ th'.pc = "remap"
    <3>1. toClient' = Append(toClient, InitMessage) /\ cl' = cl
      BY <1>4 DEF SendShmInit, Send, InitMessage, console
    <3>2. Len(mem') = Len(mem) + 1 /\ th'.pc = "remap"
      BY <1>4 DEF SendShmInit, IInv, TypeOK, ThreadStates
    <3>3. QED
      BY <3>1, <3>2
  <2>2. Announced(Append(toClient, InitMessage), cl.map, Len(mem) + 1)
    BY <1>1, MessageTypes, AnnouncedAppendInit
  <2>3. QED
    BY <2>1, <2>2 DEF ServerAnnounced
<1>5. CASE conn' = "open" /\ th'.pc # "hello" /\ ~SendShmInit
  <2>1. conn = "open" /\ InUseMap' = InUseMap
    BY <1>5, InUseMapStep
  <2> SUFFICES ASSUME InUseMap # 0
               PROVE  Announced(toClient', cl'.map, InUseMap)
    BY <1>2, <2>1
  <2>2. Announced(toClient, cl.map, InUseMap) /\ InUseMap \in Nat
    BY <1>1, <2>1 DEF IInv, ServerAnnounced, InUseMap
  <2>3. CASE toClient' = toClient /\ cl'.map = cl.map
    BY <2>2, <2>3
  <2>4. CASE SendInline /\ toClient' = Append(toClient, InlineMessage)
             /\ cl'.map = cl.map
    BY <1>1, <2>2, <2>4, MessageTypes, AnnouncedAppendOther
  <2>5. CASE SendShmNotify /\ toClient' = Append(toClient, NoticeMessage)
             /\ cl'.map = cl.map
    <3>1. th.pc = "notify"
      BY <2>5 DEF SendShmNotify
    <3>2. QED
      BY <1>1, <2>2, <2>5, <3>1, MessageTypes, AnnouncedAppendOther
  <2>6. CASE toClient # << >> /\ toClient' = Tail(toClient)
             /\ IsInit(Head(toClient)) /\ cl'.map = Head(toClient).map
    BY <1>1, <2>2, <2>6, AnnouncedTailInit
  <2>7. CASE toClient # << >> /\ toClient' = Tail(toClient)
             /\ ~IsInit(Head(toClient)) /\ cl'.map = cl.map
    BY <1>1, <2>2, <2>7, AnnouncedTailOther
  <2>8. QED
    BY <1>5, <2>3, <2>4, <2>5, <2>6, <2>7, NextIsWireStep DEF WireStep
<1>6. QED
  BY <1>3, <1>4, <1>5
-----------------------------------------------------------------------------
(* The inductive invariant holds initially.                                  *)
LEMMA InitIInv ==
    ASSUME Init
    PROVE  IInv
<1>1. TypeOK
  <2>1. cl \in ConsoleStates
    BY ConstantsInTypes DEF Init, ConsoleStates
  <2>2. QED
    <3>1. 0 \in FrameIds
      BY BoundsAssumption DEF FrameIds
    <3>2. /\ << >> \in Seq(Memories) /\ << >> \in Seq(ToClientMessages)
          /\ << >> \in Seq(ToServerMessages)
      OBVIOUS
    <3>3. 0 \in 0 .. MaxSessions /\ 0 \in 0 .. MaxToggles /\ 0 \in 0 .. MaxPauses
      BY BoundsAssumption
    <3>4. QED
      BY <2>1, <3>1, <3>2, <3>3, ConstantsInTypes DEF Init, TypeOK
<1>2. ServerMapped /\ ThreadMapped /\ LinkState
  BY DEF Init, ServerMapped, ThreadMapped, LinkState, EmptyShm, EmptyFrame,
         IdleProd, IdleThread
<1>3. ConsoleMapped
  BY DEF Init, ConsoleMapped, RefMapped, NoRef
<1>4. WireOrder /\ ServerAnnounced
  BY OrderEmpty DEF Init, WireOrder, ServerAnnounced
<1>5. QED
  BY <1>1, <1>2, <1>3, <1>4 DEF IInv

(* It is kept by steps that change nothing.                                  *)
LEMMA StutterIInv ==
    ASSUME IInv, UNCHANGED vars
    PROVE  IInv'
  BY DEF IInv, vars, TypeOK, ServerMapped, ThreadMapped, LinkState,
         ConsoleMapped, WireOrder, ServerAnnounced, RefMapped, NextGen

(* IInv is an invariant of the stream.                                       *)
THEOREM IInvInvariant == Spec => []IInv
<1>1. Init => IInv
  BY InitIInv
<1>2. IInv /\ [Next]_vars => IInv'
  <2>1. ASSUME IInv, Next
        PROVE  IInv'
    BY <2>1, TypeStep, ServerMappedStep, ThreadMappedStep, LinkStateStep,
       ConsoleMappedStep, WireOrderStep, ServerAnnouncedStep DEF IInv
  <2>2. QED
    BY <2>1, StutterIInv
<1>3. QED
  BY <1>1, <1>2, PTL DEF Spec

(* The type invariant, for every number of slots, frames and connections.    *)
THEOREM TypeCorrect == Spec => []TypeOK
<1>1. IInv => TypeOK
  BY DEF IInv
<1>2. QED
  BY <1>1, IInvInvariant, PTL

(* A notice (IKAN) is read with the shared memory it was written for.        *)
THEOREM NoticesMeanTheirSlots == Spec => []NoticeMeansItsSlots
<1>1. IInv => NoticeMeansItsSlots
  <2> SUFFICES ASSUME IInv, toClient # << >>, Head(toClient).magic = "IKAN"
               PROVE  cl.map = Head(toClient).map
    BY DEF NoticeMeansItsSlots
  <2>1. QED
    BY HeadNotice
<1>2. QED
  BY <1>1, IInvInvariant, PTL
=============================================================================
