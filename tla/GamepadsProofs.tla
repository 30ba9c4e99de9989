--------------------------- MODULE GamepadsProofs ---------------------------
(* The invariants of Gamepads, proved for every number of keys, gamepads and *)
(* slots, every queue limit and every backlog: the inductive invariant Inv,  *)
(* from what KeyboardGamepadProofs shows of the keyboard gamepad's operators *)
(* and from what the operators of the path to the device do to it.           *)
EXTENDS KeyboardGamepadProofs, FiniteSetTheorems

(* The path to the device.                                                   *)
Ids == Gamepads \cup {Kb}
Slots == [SlotIds -> [id : Ids \cup {NoPad}, report : Reports]]
Messages == [type : {"create", "input", "destroy"}, slot : SlotIds, report : Reports]
PathStates == [slots : Slots, queue : Seq(Messages), lost : SUBSET SlotIds]
Devices == [SlotIds -> Reports \cup {NoPad}]

(* What a message makes of the device's gamepads.                            *)
DeviceAfter(d, m) == [d EXCEPT ![m.slot] = UhidTakes(@, m)]

(* Once the device has handled the messages of q, it goes from d to e.       *)
Reaches(d, q, e) ==
    \E h \in [0 .. Len(q) -> Devices] :
        /\ h[0] = d /\ h[Len(q)] = e
        /\ \A n \in 1 .. Len(q) : h[n] = DeviceAfter(h[n - 1], q[n])

(* The device's gamepads e are those of the slots, and show what the slots   *)
(* report, except where a report was lost.                                   *)
Agrees(e, s) ==
    \A i \in SlotIds :
        /\ e[i] = NoPad <=> s.slots[i].id = NoPad
        /\ s.slots[i].id # NoPad /\ i \notin s.lost => e[i] = s.slots[i].report

(* The reports of the slots, and the ones under way, point one way.          *)
AllOneWay(s) == /\ \A i \in SlotIds : OneWay(s.slots[i].report)
                /\ \A m \in ToSet(s.queue) : OneWay(m.report)

(* The path from the slots to the device d is in order.                      *)
PathOk(d, s) == /\ s \in PathStates /\ d \in Devices /\ AllOneWay(s)
                /\ \E e \in Devices : Reaches(d, s.queue, e) /\ Agrees(e, s)

(* At rest nothing is pressed.                                               *)
LEMMA RestFacts ==
    /\ RestReport \in Reports /\ OneWay(RestReport)
    /\ FreeSlot \in [id : Ids \cup {NoPad}, report : Reports]
    /\ NoPad \notin Ids /\ Kb \in Ids /\ Kb \notin Gamepads
<1>1. <<0, 0, 0>> \in Positions
  BY CapsAssumption DEF Positions
<1>2. RestReport \in Reports /\ RestReport.buttons = {}
  BY <1>1 DEF RestReport, Reports
<1>3. QED
  BY <1>2, PadsAssumption DEF FreeSlot, Ids, OneWay

(* A device takes a message.                                                 *)
LEMMA DeviceAfterType ==
    ASSUME NEW d \in Devices, NEW m \in Messages
    PROVE  DeviceAfter(d, m) \in Devices
<1>1. m.slot \in SlotIds /\ m.type \in {"create", "input", "destroy"}
      /\ m.report \in Reports
  BY DEF Messages
<1>2. UhidTakes(d[m.slot], m) \in Reports \cup {NoPad}
  BY <1>1, RestFacts DEF UhidTakes
<1>3. QED
  BY <1>1, <1>2 DEF DeviceAfter, Devices

(* Nothing under way.                                                        *)
LEMMA ReachesNothing ==
    ASSUME NEW d \in Devices
    PROVE  Reaches(d, << >>, d) /\ \A e : Reaches(d, << >>, e) => e = d
<1> DEFINE h == [n \in 0 .. 0 |-> d]
<1>1. h \in [0 .. Len(<< >>) -> Devices] /\ h[0] = d /\ h[Len(<< >>)] = d
  OBVIOUS
<1>2. \A n \in 1 .. Len(<< >>) : FALSE
  OBVIOUS
<1> HIDE DEF h
<1>3. Reaches(d, << >>, d)
  BY <1>1, <1>2 DEF Reaches
<1>4. Len(<< >>) = 0
  OBVIOUS
<1>5. QED
  BY <1>3, <1>4 DEF Reaches

(* One more message.                                                         *)
LEMMA ReachesMore ==
    ASSUME NEW d, NEW q \in Seq(Messages), NEW e, Reaches(d, q, e), NEW m \in Messages
    PROVE  Reaches(d, Append(q, m), DeviceAfter(e, m))
<1> DEFINE N == Len(q)
           p == Append(q, m)
           x == DeviceAfter(e, m)
<1>1. PICK h \in [0 .. N -> Devices] :
        /\ h[0] = d /\ h[N] = e
        /\ \A n \in 1 .. N : h[n] = DeviceAfter(h[n - 1], q[n])
  BY DEF Reaches
<1>2. /\ N \in Nat /\ Len(p) = N + 1 /\ p[N + 1] = m
      /\ \A n \in 1 .. N : p[n] = q[n]
  OBVIOUS
<1> HIDE DEF N, p
<1>3. x \in Devices
  BY <1>1, <1>2, DeviceAfterType
<1> DEFINE g == [n \in 0 .. N + 1 |-> IF n = N + 1 THEN x ELSE h[n]]
<1> HIDE DEF x
<1>4. g \in [0 .. N + 1 -> Devices]
  BY <1>2, <1>3
<1>5. g[N + 1] = x /\ \A n \in 0 .. N : g[n] = h[n]
  BY <1>2
<1> HIDE DEF g
<1>6. ASSUME NEW n \in 1 .. N + 1
      PROVE  g[n] = DeviceAfter(g[n - 1], p[n])
  <2>1. CASE n = N + 1
    <3>1. g[n - 1] = e
      BY <1>1, <1>2, <1>5, <2>1
    <3>2. QED
      BY <1>2, <1>5, <2>1, <3>1 DEF x
  <2>2. CASE n # N + 1
    <3>1. n \in 1 .. N /\ n - 1 \in 0 .. N /\ n \in 0 .. N
      BY <1>2, <2>2
    <3>2. QED
      BY <1>1, <1>2, <1>5, <3>1
  <2>3. QED
    BY <2>1, <2>2
<1>7. g[0] = d /\ g[Len(p)] = x
  BY <1>1, <1>2, <1>5
<1>8. g \in [0 .. Len(p) -> Devices]
  BY <1>2, <1>4
<1>9. QED
  BY <1>2, <1>6, <1>7, <1>8 DEF Reaches, p, x

(* The device takes the first message.                                       *)
LEMMA ReachesTail ==
    ASSUME NEW d, NEW q \in Seq(Messages), NEW e, Reaches(d, q, e), q # << >>
    PROVE  Reaches(DeviceAfter(d, Head(q)), Tail(q), e)
<1> DEFINE N == Len(q)
           p == Tail(q)
<1>1. PICK h \in [0 .. N -> Devices] :
        /\ h[0] = d /\ h[N] = e
        /\ \A n \in 1 .. N : h[n] = DeviceAfter(h[n - 1], q[n])
  BY DEF Reaches
<1>2. /\ N \in Nat \ {0} /\ Len(p) = N - 1 /\ Head(q) = q[1]
      /\ \A n \in 1 .. N - 1 : p[n] = q[n + 1]
  OBVIOUS
<1> HIDE DEF N, p
<1> DEFINE g == [n \in 0 .. N - 1 |-> h[n + 1]]
<1>3. g \in [0 .. N - 1 -> Devices]
  BY <1>2
<1>4. \A n \in 0 .. N - 1 : g[n] = h[n + 1]
  OBVIOUS
<1> HIDE DEF g
<1>5. ASSUME NEW n \in 1 .. N - 1
      PROVE  g[n] = DeviceAfter(g[n - 1], p[n])
  <2>1. n + 1 \in 1 .. N /\ n - 1 \in 0 .. N - 1 /\ n \in 0 .. N - 1
        /\ (n + 1) - 1 = n /\ (n - 1) + 1 = n
    BY <1>2
  <2>2. h[n + 1] = DeviceAfter(h[n], q[n + 1])
    BY <1>1, <2>1
  <2>3. QED
    BY <1>2, <1>4, <2>1, <2>2
<1>6. g[0] = DeviceAfter(d, Head(q)) /\ g[Len(p)] = e
  <2>1. 0 \in 0 .. N - 1 /\ N - 1 \in 0 .. N - 1 /\ (N - 1) + 1 = N /\ 0 + 1 = 1
        /\ 1 \in 1 .. N /\ 1 - 1 = 0
    BY <1>2
  <2>2. h[1] = DeviceAfter(h[0], q[1])
    BY <1>1, <2>1
  <2>3. QED
    BY <1>1, <1>2, <1>4, <2>1, <2>2
<1>7. g \in [0 .. Len(p) -> Devices]
  BY <1>2, <1>3
<1>8. QED
  BY <1>2, <1>5, <1>6, <1>7 DEF Reaches, p

(* sc_controller_push_msg, of a slot that has become x: an input that does   *)
(* not fit is lost, and only that.                                           *)
LEMMA PushDoes ==
    ASSUME NEW d, NEW s, PathOk(d, s), NEW i \in SlotIds,
           NEW x \in [id : Ids \cup {NoPad}, report : Reports], OneWay(x.report),
           NEW type \in {"create", "input", "destroy"},
           NEW report \in Reports, OneWay(report),
           type = "create" => x.id # NoPad /\ x.report = RestReport,
           type = "destroy" => x.id = NoPad,
           type = "input" => /\ x.id = s.slots[i].id /\ x.id # NoPad
                             /\ x.report = report,
           NEW s1, s1 = [s EXCEPT !.slots[i] = x],
           NEW h, h = Push(s1, type, i, report)
    PROVE  PathOk(d, h) /\ h.slots = [s.slots EXCEPT ![i] = x]
<1> DEFINE m == [type |-> type, slot |-> i, report |-> report]
           S == [s.slots EXCEPT ![i] = x]
<1>1. /\ s \in PathStates /\ d \in Devices /\ AllOneWay(s)
      /\ s.slots \in Slots /\ s.queue \in Seq(Messages) /\ s.lost \in SUBSET SlotIds
  BY DEF PathOk, PathStates
<1>2. PICK e \in Devices : Reaches(d, s.queue, e) /\ Agrees(e, s)
  BY DEF PathOk
<1>3. S \in Slots /\ S[i] = x /\ \A j \in SlotIds \ {i} : S[j] = s.slots[j]
  BY <1>1 DEF Slots
<1>4. m \in Messages /\ m.type = type /\ m.slot = i /\ m.report = report
  BY DEF Messages
<1>5. /\ s1 \in PathStates /\ s1.slots = S /\ s1.queue = s.queue
      /\ s1.lost = s.lost
  BY <1>1, <1>3 DEF PathStates
<1> HIDE DEF m, S
<1>6. \A j \in SlotIds : OneWay(S[j].report)
  BY <1>1, <1>3 DEF AllOneWay
<1>7. CASE Len(s.queue) < QueueLimit \/ ~IsDroppable(type)
  <2> DEFINE Q == Append(s.queue, m)
             f == DeviceAfter(e, m)
  <2>1. h = [s1 EXCEPT !.queue = Q, !.lost = s1.lost \ {i}]
    BY <1>5, <1>7 DEF Push, m
  <2>2. Q \in Seq(Messages) /\ ToSet(Q) = ToSet(s.queue) \cup {m}
    BY <1>1, <1>4, ToSetAppend
  <2> HIDE DEF Q
  <2>3. /\ h \in PathStates /\ h.slots = S /\ h.queue = Q
        /\ h.lost = s.lost \ {i}
    BY <1>1, <1>5, <2>1, <2>2 DEF PathStates
  <2>4. f \in Devices /\ Reaches(d, Q, f)
    BY <1>1, <1>2, <1>4, DeviceAfterType, ReachesMore DEF Q
  <2>5. f[i] = UhidTakes(e[i], m) /\ \A j \in SlotIds \ {i} : f[j] = e[j]
    BY <1>4 DEF DeviceAfter, Devices
  <2> HIDE DEF f
  <2>6. ASSUME NEW j \in SlotIds
        PROVE  /\ f[j] = NoPad <=> S[j].id = NoPad
               /\ S[j].id # NoPad /\ j \notin h.lost => f[j] = S[j].report
    <3>1. CASE j # i
      BY <1>2, <1>3, <2>3, <2>5, <3>1 DEF Agrees
    <3>2. CASE j = i
      <4>0. RestReport # NoPad /\ report # NoPad
        BY RestFacts, NoPadAssumption
      <4>1. CASE type = "create"
        BY <1>3, <1>4, <2>5, <3>2, <4>0, <4>1 DEF UhidTakes
      <4>2. CASE type = "destroy"
        BY <1>3, <1>4, <2>5, <3>2, <4>2 DEF UhidTakes
      <4>3. CASE type = "input"
        <5>1. e[i] # NoPad
          BY <1>2, <4>3 DEF Agrees
        <5>2. f[i] = report
          BY <1>4, <2>5, <4>3, <5>1 DEF UhidTakes
        <5>3. QED
          BY <1>3, <3>2, <4>0, <4>3, <5>2
      <4>4. QED
        BY <4>1, <4>2, <4>3
    <3>3. QED
      BY <3>1, <3>2
  <2>7. Agrees(f, h)
    BY <2>3, <2>6 DEF Agrees
  <2>8. AllOneWay(h)
    BY <1>1, <1>4, <1>6, <2>2, <2>3 DEF AllOneWay
  <2>9. QED
    BY <1>1, <2>3, <2>4, <2>7, <2>8 DEF PathOk, S
<1>8. CASE ~(Len(s.queue) < QueueLimit \/ ~IsDroppable(type))
  <2>1. type = "input" /\ h = [s1 EXCEPT !.lost = s1.lost \cup {i}]
    <3>1. ~(Len(s1.queue) < QueueLimit \/ ~IsDroppable(type))
      BY <1>5, <1>8
    <3>2. QED
      BY <3>1 DEF Push, IsDroppable
  <2>2. /\ h \in PathStates /\ h.slots = S /\ h.queue = s.queue
        /\ h.lost = s.lost \cup {i}
    <3>1. s1.lost \cup {i} \in SUBSET SlotIds
      BY <1>1, <1>5
    <3>2. QED
      BY <1>5, <2>1, <3>1 DEF PathStates
  <2>3. Agrees(e, h)
    BY <1>2, <1>3, <2>1, <2>2 DEF Agrees
  <2>4. AllOneWay(h)
    BY <1>1, <1>6, <2>2 DEF AllOneWay
  <2>5. QED
    BY <1>1, <1>2, <2>2, <2>3, <2>4 DEF PathOk, S
<1>9. QED
  BY <1>7, <1>8

(* The first slot of some is one of them.                                    *)
LEMMA FirstOfIn ==
    ASSUME NEW T \in SUBSET SlotIds, T # {}
    PROVE  FirstOf(T) \in T
<1>1. T \in SUBSET Nat
  BY GamepadBoundsAssumption DEF SlotIds
<1>2. \E i \in T : \A j \in T : i <= j
  BY <1>1, LeastNatural
<1>3. QED
  BY <1>2 DEF FirstOf

(* A gamepad gets a free slot, if there is one.                              *)
LEMMA OpenDoes ==
    ASSUME NEW d, NEW s, PathOk(d, s), NEW id \in Ids, SlotsOf(s, NoPad) # {},
           NEW h, h = Open(s, id)
    PROVE  /\ PathOk(d, h)
           /\ \E i \in SlotIds : /\ s.slots[i].id = NoPad
                                 /\ h.slots = [s.slots EXCEPT ![i] =
                                                 [id |-> id, report |-> RestReport]]
<1> DEFINE i == FirstOf(SlotsOf(s, NoPad))
           x == [id |-> id, report |-> RestReport]
           s1 == [s EXCEPT !.slots[i] = x]
<1>1. i \in SlotIds /\ s.slots[i].id = NoPad
  BY FirstOfIn DEF SlotsOf
<1>2. h = Push(s1, "create", i, RestReport)
  BY DEF Open
<1>3. /\ x \in [id : Ids \cup {NoPad}, report : Reports]
      /\ x.id = id /\ x.report = RestReport /\ id # NoPad
  BY RestFacts
<1> HIDE DEF i, x
<1>4. s1 = [s EXCEPT !.slots[i] = x]
  OBVIOUS
<1> HIDE DEF s1
<1>5. PathOk(d, h) /\ h.slots = [s.slots EXCEPT ![i] = x]
  BY <1>1, <1>2, <1>3, <1>4, RestFacts, PushDoes
<1>6. QED
  BY <1>1, <1>5 DEF x

(* A gamepad's slot is freed, if it has one.                                 *)
LEMMA CloseDoes ==
    ASSUME NEW d, NEW s, PathOk(d, s), NEW id \in Ids, SlotsOf(s, id) # {},
           NEW h, h = Close(s, id)
    PROVE  /\ PathOk(d, h)
           /\ \E i \in SlotIds : /\ s.slots[i].id = id
                                 /\ h.slots = [s.slots EXCEPT ![i] = FreeSlot]
<1> DEFINE i == FirstOf(SlotsOf(s, id))
           s1 == [s EXCEPT !.slots[i] = FreeSlot]
<1>1. i \in SlotIds /\ s.slots[i].id = id
  BY FirstOfIn DEF SlotsOf
<1>2. h = Push(s1, "destroy", i, RestReport)
  BY DEF Close
<1>3. /\ FreeSlot \in [id : Ids \cup {NoPad}, report : Reports]
      /\ FreeSlot.id = NoPad /\ FreeSlot.report = RestReport
  BY RestFacts DEF FreeSlot
<1> HIDE DEF i
<1>4. s1 = [s EXCEPT !.slots[i] = FreeSlot]
  OBVIOUS
<1> HIDE DEF s1
<1>5. PathOk(d, h) /\ h.slots = [s.slots EXCEPT ![i] = FreeSlot]
  BY <1>1, <1>2, <1>3, <1>4, RestFacts, PushDoes
<1>6. QED
  BY <1>1, <1>5

(* A gamepad's slot takes an event, if it has one.                           *)
LEMMA TakeEventDoes ==
    ASSUME NEW d, NEW s, PathOk(d, s), NEW id \in Ids, NEW i \in SlotIds,
           SlotsOf(s, id) = {i}, NEW r \in Reports, OneWay(r),
           NEW e, r = Report(s.slots[i].report, e),
           NEW h, h = TakeEvent(s, id, e)
    PROVE  /\ PathOk(d, h)
           /\ h.slots = [s.slots EXCEPT ![i] = [id |-> id, report |-> r]]
<1> DEFINE x == [id |-> id, report |-> r]
           s1 == [s EXCEPT !.slots[i] = x]
<1>1. FirstOf(SlotsOf(s, id)) = i /\ s.slots[i].id = id
  BY FirstOfIn DEF SlotsOf
<1>2. /\ s \in PathStates /\ s.slots \in Slots
      /\ s.slots[i] \in [id : Ids \cup {NoPad}, report : Reports]
  BY DEF PathOk, PathStates, Slots
<1>3. [s.slots[i] EXCEPT !.report = r] = x
  BY <1>1, <1>2
<1>4. h = Push([s EXCEPT !.slots[i].report = r], "input", i, r)
  BY <1>1 DEF TakeEvent
<1>5. [s EXCEPT !.slots[i].report = r] = s1
  BY <1>2, <1>3 DEF PathStates
<1>6. /\ x \in [id : Ids \cup {NoPad}, report : Reports]
      /\ x.id = id /\ x.report = r /\ id # NoPad
  BY RestFacts
<1> HIDE DEF x
<1>7. s1 = [s EXCEPT !.slots[i] = x] /\ h = Push(s1, "input", i, r)
  BY <1>4, <1>5
<1> HIDE DEF s1
<1>8. PathOk(d, h) /\ h.slots = [s.slots EXCEPT ![i] = x]
  BY <1>1, <1>6, <1>7, PushDoes
<1>9. QED
  BY <1>8 DEF x

(* The types of the path's operators.                                        *)
LEMMA PushType ==
    ASSUME NEW s \in PathStates, NEW type \in {"create", "input", "destroy"},
           NEW i \in SlotIds, NEW report \in Reports,
           NEW x \in [id : Ids \cup {NoPad}, report : Reports],
           NEW s1, s1 = [s EXCEPT !.slots[i] = x]
    PROVE  Push(s1, type, i, report) \in PathStates
<1> DEFINE m == [type |-> type, slot |-> i, report |-> report]
<1>1. m \in Messages
  BY DEF Messages
<1>2. [s.slots EXCEPT ![i] = x] \in Slots
  BY DEF PathStates, Slots
<1>3. s1 \in PathStates
  BY <1>2 DEF PathStates
<1> HIDE DEF m
<1>4. Append(s1.queue, m) \in Seq(Messages)
      /\ s1.lost \ {i} \in SUBSET SlotIds /\ s1.lost \cup {i} \in SUBSET SlotIds
  BY <1>1, <1>3 DEF PathStates
<1>5. [s1 EXCEPT !.queue = Append(s1.queue, m), !.lost = s1.lost \ {i}] \in PathStates
      /\ [s1 EXCEPT !.lost = s1.lost \cup {i}] \in PathStates
  BY <1>3, <1>4 DEF PathStates
<1>6. QED
  BY <1>5 DEF Push, m

(* A gamepad added, removed or heard leaves slots, queue and lost reports.   *)
LEMMA PathTypes ==
    ASSUME NEW s \in PathStates, NEW id \in Ids
    PROVE  /\ Open(s, id) \in PathStates /\ Close(s, id) \in PathStates
           /\ \A e \in Events : TakeEvent(s, id, e) \in PathStates
<1>1. Open(s, id) \in PathStates
  <2>1. CASE SlotsOf(s, NoPad) = {}
    BY <2>1 DEF Open
  <2>2. CASE SlotsOf(s, NoPad) # {}
    <3> DEFINE i == FirstOf(SlotsOf(s, NoPad))
               x == [id |-> id, report |-> RestReport]
               s1 == [s EXCEPT !.slots[i] = x]
    <3>1. i \in SlotIds /\ x \in [id : Ids \cup {NoPad}, report : Reports]
      BY <2>2, FirstOfIn, RestFacts DEF SlotsOf
    <3>2. Open(s, id) = Push(s1, "create", i, RestReport)
      BY <2>2 DEF Open
    <3> HIDE DEF i, x
    <3>3. QED
      BY <3>1, <3>2, PushType, RestFacts
  <2>3. QED
    BY <2>1, <2>2
<1>2. Close(s, id) \in PathStates
  <2>1. CASE SlotsOf(s, id) = {}
    BY <2>1 DEF Close
  <2>2. CASE SlotsOf(s, id) # {}
    <3> DEFINE i == FirstOf(SlotsOf(s, id))
               s1 == [s EXCEPT !.slots[i] = FreeSlot]
    <3>1. i \in SlotIds
      BY <2>2, FirstOfIn DEF SlotsOf
    <3>2. Close(s, id) = Push(s1, "destroy", i, RestReport)
      BY <2>2 DEF Close
    <3> HIDE DEF i
    <3>3. QED
      BY <3>1, <3>2, PushType, RestFacts
  <2>3. QED
    BY <2>1, <2>2
<1>3. ASSUME NEW e \in Events PROVE TakeEvent(s, id, e) \in PathStates
  <2>1. CASE SlotsOf(s, id) = {}
    BY <2>1 DEF TakeEvent
  <2>2. CASE SlotsOf(s, id) # {}
    <3> DEFINE i == FirstOf(SlotsOf(s, id))
               r == Report(s.slots[i].report, e)
               x == [s.slots[i] EXCEPT !.report = r]
               s1 == [s EXCEPT !.slots[i] = x]
    <3>1. i \in SlotIds
      BY <2>2, FirstOfIn DEF SlotsOf
    <3>2. TakeEvent(s, id, e) = Push(s1, "input", i, r)
      BY <2>2 DEF TakeEvent
    <3> HIDE DEF i
    <3>3. s.slots[i] \in [id : Ids \cup {NoPad}, report : Reports]
      BY <3>1 DEF PathStates, Slots
    <3>4. r \in Reports
      BY <3>3, ReportType
    <3> HIDE DEF r
    <3>5. x \in [id : Ids \cup {NoPad}, report : Reports]
      BY <3>3, <3>4
    <3> HIDE DEF x
    <3>6. QED
      BY <3>1, <3>2, <3>4, <3>5, PushType
  <2>3. QED
    BY <2>1, <2>2
<1>4. QED
  BY <1>1, <1>2, <1>3

(* The events of a gamepad that is passed on, one after the other.           *)
PassOnRun(f, s, id, events) ==
    f[0] = s /\ \A n \in 1 .. Len(events) : f[n] = TakeEvent(f[n - 1], id, events[n])

(* PassOn is the end of such a run.                                          *)
LEMMA PassOnIs ==
    ASSUME NEW s \in PathStates, NEW id \in Ids, NEW events \in Seq(Events),
           focused, id \in ToSet(pads)
    PROVE  \E f : PassOnRun(f, s, id, events) /\ PassOn(s, id, events) = f[Len(events)]
<1> DEFINE N == Len(events)
           after == CHOOSE f : f = [n \in 0 .. N |->
                       IF n = 0 THEN s ELSE TakeEvent(f[n - 1], id, events[n])]
           F == [p \in PathStates \X (1 .. N) |-> TakeEvent(p[1], id, events[p[2]])]
<1>1. PassOn(s, id, events) = after[N]
  BY DEF PassOn
<1>2. N \in Nat /\ \A n \in 1 .. N : events[n] \in Events
  OBVIOUS
<1> HIDE DEF N
<1>3. PICK f : IsRun(f, PathStates, s, N, F)
  <2>1. F \in [PathStates \X (1 .. N) -> PathStates]
    <3> SUFFICES ASSUME NEW p \in PathStates \X (1 .. N)
                 PROVE  TakeEvent(p[1], id, events[p[2]]) \in PathStates
      OBVIOUS
    <3>1. p[1] \in PathStates /\ p[2] \in 1 .. N
      OBVIOUS
    <3>2. QED
      BY <1>2, <3>1, PathTypes
  <2> HIDE DEF F
  <2>2. QED
    BY <1>2, <2>1, Iterates
<1>4. /\ f \in [0 .. N -> PathStates] /\ f[0] = s
      /\ \A n \in 1 .. N : f[n] = F[<<f[n - 1], n>>]
  <2> HIDE DEF F
  <2>1. QED
    BY <1>3 DEF IsRun
<1>5. ASSUME NEW n \in 1 .. N
      PROVE  f[n] = TakeEvent(f[n - 1], id, events[n])
  <2>1. n - 1 \in 0 .. N
    BY <1>2
  <2>2. <<f[n - 1], n>> \in PathStates \X (1 .. N)
        /\ <<f[n - 1], n>>[1] = f[n - 1] /\ <<f[n - 1], n>>[2] = n
    BY <1>4, <2>1
  <2>3. F[<<f[n - 1], n>>] = TakeEvent(f[n - 1], id, events[n])
    BY <2>2
  <2> HIDE DEF F
  <2>4. QED
    BY <1>4, <2>3
<1> HIDE DEF F
<1>6. f = [n \in 0 .. N |-> IF n = 0 THEN s ELSE TakeEvent(f[n - 1], id, events[n])]
  <2>1. \A n \in 0 .. N : n = 0 \/ n \in 1 .. N
    BY <1>2
  <2>2. \A n \in 0 .. N : f[n] = IF n = 0 THEN s ELSE TakeEvent(f[n - 1], id, events[n])
    BY <1>4, <1>5, <2>1
  <2>3. f = [n \in 0 .. N |-> f[n]]
    BY <1>4
  <2>4. QED
    BY <2>2, <2>3
<1>7. after = [n \in 0 .. N |-> IF n = 0 THEN s ELSE TakeEvent(after[n - 1], id, events[n])]
  BY <1>6
<1> HIDE DEF after
<1>8. after[0] = s /\ \A n \in 1 .. N : after[n] = TakeEvent(after[n - 1], id, events[n])
  BY <1>2, <1>7
<1>9. QED
  BY <1>1, <1>8 DEF N, PassOnRun

(* The gamepads are added one after the other.                               *)
OpenAllRun(f, s) ==
    f[0] = s /\ \A n \in 1 .. Len(pads) : f[n] = Open(f[n - 1], pads[n])

(* OpenAll is the end of such a run.                                         *)
LEMMA OpenAllIs ==
    ASSUME NEW s \in PathStates, pads \in Seq(Ids)
    PROVE  \E f : OpenAllRun(f, s) /\ OpenAll(s) = f[Len(pads)]
<1> DEFINE N == Len(pads)
           after == CHOOSE f : f = [n \in 0 .. N |->
                       IF n = 0 THEN s ELSE Open(f[n - 1], pads[n])]
           F == [p \in PathStates \X (1 .. N) |-> Open(p[1], pads[p[2]])]
<1>1. OpenAll(s) = after[N]
  BY DEF OpenAll
<1>2. N \in Nat /\ \A n \in 1 .. N : pads[n] \in Ids
  OBVIOUS
<1> HIDE DEF N
<1>3. PICK f : IsRun(f, PathStates, s, N, F)
  <2>1. F \in [PathStates \X (1 .. N) -> PathStates]
    <3> SUFFICES ASSUME NEW p \in PathStates \X (1 .. N)
                 PROVE  Open(p[1], pads[p[2]]) \in PathStates
      OBVIOUS
    <3>1. p[1] \in PathStates /\ p[2] \in 1 .. N
      OBVIOUS
    <3>2. QED
      BY <1>2, <3>1, PathTypes
  <2> HIDE DEF F
  <2>2. QED
    BY <1>2, <2>1, Iterates
<1>4. /\ f \in [0 .. N -> PathStates] /\ f[0] = s
      /\ \A n \in 1 .. N : f[n] = F[<<f[n - 1], n>>]
  <2> HIDE DEF F
  <2>1. QED
    BY <1>3 DEF IsRun
<1>5. ASSUME NEW n \in 1 .. N
      PROVE  f[n] = Open(f[n - 1], pads[n])
  <2>1. n - 1 \in 0 .. N
    BY <1>2
  <2>2. <<f[n - 1], n>> \in PathStates \X (1 .. N)
        /\ <<f[n - 1], n>>[1] = f[n - 1] /\ <<f[n - 1], n>>[2] = n
    BY <1>4, <2>1
  <2>3. F[<<f[n - 1], n>>] = Open(f[n - 1], pads[n])
    BY <2>2
  <2> HIDE DEF F
  <2>4. QED
    BY <1>4, <2>3
<1> HIDE DEF F
<1>6. f = [n \in 0 .. N |-> IF n = 0 THEN s ELSE Open(f[n - 1], pads[n])]
  <2>1. \A n \in 0 .. N : n = 0 \/ n \in 1 .. N
    BY <1>2
  <2>2. \A n \in 0 .. N : f[n] = IF n = 0 THEN s ELSE Open(f[n - 1], pads[n])
    BY <1>4, <1>5, <2>1
  <2>3. f = [n \in 0 .. N |-> f[n]]
    BY <1>4
  <2>4. QED
    BY <2>2, <2>3
<1>7. after = [n \in 0 .. N |-> IF n = 0 THEN s ELSE Open(after[n - 1], pads[n])]
  BY <1>6
<1> HIDE DEF after
<1>8. after[0] = s /\ \A n \in 1 .. N : after[n] = Open(after[n - 1], pads[n])
  BY <1>2, <1>7
<1>9. QED
  BY <1>1, <1>8 DEF N, OpenAllRun

(* The gamepads are removed one after the other.                             *)
CloseAllRun(f, s) ==
    f[0] = s /\ \A n \in 1 .. Len(pads) : f[n] = Close(f[n - 1], pads[n])

(* CloseAll is the end of such a run.                                        *)
LEMMA CloseAllIs ==
    ASSUME NEW s \in PathStates, pads \in Seq(Ids)
    PROVE  \E f : CloseAllRun(f, s) /\ CloseAll(s) = f[Len(pads)]
<1> DEFINE N == Len(pads)
           after == CHOOSE f : f = [n \in 0 .. N |->
                       IF n = 0 THEN s ELSE Close(f[n - 1], pads[n])]
           F == [p \in PathStates \X (1 .. N) |-> Close(p[1], pads[p[2]])]
<1>1. CloseAll(s) = after[N]
  BY DEF CloseAll
<1>2. N \in Nat /\ \A n \in 1 .. N : pads[n] \in Ids
  OBVIOUS
<1> HIDE DEF N
<1>3. PICK f : IsRun(f, PathStates, s, N, F)
  <2>1. F \in [PathStates \X (1 .. N) -> PathStates]
    <3> SUFFICES ASSUME NEW p \in PathStates \X (1 .. N)
                 PROVE  Close(p[1], pads[p[2]]) \in PathStates
      OBVIOUS
    <3>1. p[1] \in PathStates /\ p[2] \in 1 .. N
      OBVIOUS
    <3>2. QED
      BY <1>2, <3>1, PathTypes
  <2> HIDE DEF F
  <2>2. QED
    BY <1>2, <2>1, Iterates
<1>4. /\ f \in [0 .. N -> PathStates] /\ f[0] = s
      /\ \A n \in 1 .. N : f[n] = F[<<f[n - 1], n>>]
  <2> HIDE DEF F
  <2>1. QED
    BY <1>3 DEF IsRun
<1>5. ASSUME NEW n \in 1 .. N
      PROVE  f[n] = Close(f[n - 1], pads[n])
  <2>1. n - 1 \in 0 .. N
    BY <1>2
  <2>2. <<f[n - 1], n>> \in PathStates \X (1 .. N)
        /\ <<f[n - 1], n>>[1] = f[n - 1] /\ <<f[n - 1], n>>[2] = n
    BY <1>4, <2>1
  <2>3. F[<<f[n - 1], n>>] = Close(f[n - 1], pads[n])
    BY <2>2
  <2> HIDE DEF F
  <2>4. QED
    BY <1>4, <2>3
<1> HIDE DEF F
<1>6. f = [n \in 0 .. N |-> IF n = 0 THEN s ELSE Close(f[n - 1], pads[n])]
  <2>1. \A n \in 0 .. N : n = 0 \/ n \in 1 .. N
    BY <1>2
  <2>2. \A n \in 0 .. N : f[n] = IF n = 0 THEN s ELSE Close(f[n - 1], pads[n])
    BY <1>4, <1>5, <2>1
  <2>3. f = [n \in 0 .. N |-> f[n]]
    BY <1>4
  <2>4. QED
    BY <2>2, <2>3
<1>7. after = [n \in 0 .. N |-> IF n = 0 THEN s ELSE Close(after[n - 1], pads[n])]
  BY <1>6
<1> HIDE DEF after
<1>8. after[0] = s /\ \A n \in 1 .. N : after[n] = Close(after[n - 1], pads[n])
  BY <1>2, <1>7
<1>9. QED
  BY <1>1, <1>8 DEF N, CloseAllRun
-----------------------------------------------------------------------------
(* Whose the slots are.                                                      *)

(* The gamepads in K have a slot each, and no others have any.               *)
Own(s, K) ==
    /\ \A i \in SlotIds : s.slots[i].id \in K \cup {NoPad}
    /\ \A id \in K : \E i \in SlotIds : s.slots[i].id = id
    /\ \A i, j \in SlotIds : s.slots[i].id = s.slots[j].id /\ s.slots[i].id # NoPad
                                => i = j

(* The slots of a gamepad.                                                   *)
LEMMA OwnOf ==
    ASSUME NEW s, NEW K \in SUBSET Ids, Own(s, K), NEW id \in Ids
    PROVE  /\ id \in K => \E i \in SlotIds : /\ SlotsOf(s, id) = {i}
                                             /\ s.slots[i].id = id
           /\ id \notin K => SlotsOf(s, id) = {}
<1>1. id # NoPad
  BY RestFacts
<1>2. ASSUME id \in K
      PROVE  \E i \in SlotIds : SlotsOf(s, id) = {i} /\ s.slots[i].id = id
  <2>1. PICK i \in SlotIds : s.slots[i].id = id
    BY <1>2 DEF Own
  <2>2. \A j \in SlotIds : s.slots[j].id = id => j = i
    BY <1>1, <2>1 DEF Own
  <2>3. SlotsOf(s, id) = {i}
    BY <2>1, <2>2 DEF SlotsOf
  <2>4. QED
    BY <2>1, <2>3
<1>3. id \notin K => SlotsOf(s, id) = {}
  BY <1>1 DEF Own, SlotsOf
<1>4. QED
  BY <1>2, <1>3

(* A free slot becomes that of one more gamepad.                             *)
LEMMA OwnOpen ==
    ASSUME NEW s \in PathStates, NEW K \in SUBSET Ids, Own(s, K), NEW id \in Ids \ K,
           NEW i \in SlotIds, s.slots[i].id = NoPad, NEW x, x.id = id,
           NEW h, h.slots = [s.slots EXCEPT ![i] = x]
    PROVE  Own(h, K \cup {id})
<1>1. h.slots[i].id = id /\ \A j \in SlotIds \ {i} : h.slots[j] = s.slots[j]
  BY DEF PathStates, Slots
<1>2. id # NoPad
  BY RestFacts
<1>3. \A j \in SlotIds : h.slots[j].id \in (K \cup {id}) \cup {NoPad}
  BY <1>1 DEF Own
<1>4. ASSUME NEW c \in K \cup {id} PROVE \E j \in SlotIds : h.slots[j].id = c
  <2>1. CASE c = id
    BY <1>1, <2>1
  <2>2. CASE c # id
    <3>1. PICK j \in SlotIds : s.slots[j].id = c
      BY <2>2 DEF Own
    <3>2. c # NoPad
      BY <2>2, RestFacts
    <3>3. QED
      BY <1>1, <3>1, <3>2
  <2>3. QED
    BY <2>1, <2>2
<1>5. ASSUME NEW j \in SlotIds, NEW k \in SlotIds, h.slots[j].id = h.slots[k].id,
             h.slots[j].id # NoPad
      PROVE  j = k
  <2>1. \A n \in SlotIds \ {i} : h.slots[n].id # id
    BY <1>1, <1>2 DEF Own
  <2>2. CASE j = i \/ k = i
    BY <1>1, <1>5, <2>1, <2>2
  <2>3. CASE j # i /\ k # i
    BY <1>1, <1>5, <2>3 DEF Own
  <2>4. QED
    BY <2>2, <2>3
<1>6. QED
  BY <1>3, <1>4, <1>5 DEF Own

(* A gamepad's slot is freed.                                                *)
LEMMA OwnClose ==
    ASSUME NEW s \in PathStates, NEW K \in SUBSET Ids, Own(s, K), NEW id \in K,
           NEW i \in SlotIds, s.slots[i].id = id,
           NEW h, h.slots = [s.slots EXCEPT ![i] = FreeSlot]
    PROVE  Own(h, K \ {id})
<1>1. h.slots[i].id = NoPad /\ \A j \in SlotIds \ {i} : h.slots[j] = s.slots[j]
  BY DEF PathStates, Slots, FreeSlot
<1>2. \A c \in K : c # NoPad
  BY RestFacts
<1>3. \A j \in SlotIds \ {i} : s.slots[j].id # id
  BY <1>2 DEF Own
<1>4. \A j \in SlotIds : h.slots[j].id \in (K \ {id}) \cup {NoPad}
  BY <1>1, <1>3 DEF Own
<1>5. ASSUME NEW c \in K \ {id} PROVE \E j \in SlotIds : h.slots[j].id = c
  <2>1. PICK j \in SlotIds : s.slots[j].id = c
    BY DEF Own
  <2>2. QED
    BY <1>1, <2>1
<1>6. \A j, k \in SlotIds : h.slots[j].id = h.slots[k].id /\ h.slots[j].id # NoPad
                               => j = k
  BY <1>1 DEF Own
<1>7. QED
  BY <1>4, <1>5, <1>6 DEF Own

(* What the slots report is of no account here.                              *)
LEMMA OwnReport ==
    ASSUME NEW s \in PathStates, NEW K, Own(s, K), NEW i \in SlotIds,
           NEW x, x.id = s.slots[i].id,
           NEW h, h.slots = [s.slots EXCEPT ![i] = x]
    PROVE  Own(h, K)
<1>1. \A j \in SlotIds : h.slots[j].id = s.slots[j].id
  BY DEF PathStates, Slots
<1>2. QED
  BY <1>1 DEF Own

(* There is a free slot for one more than n gamepads, if n < MaxGamepads.    *)
LEMMA SomeFree ==
    ASSUME NEW s, NEW q, NEW n \in Nat, n < MaxGamepads,
           Own(s, {q[j] : j \in 1 .. n}), \A j \in 1 .. n : q[j] \in Ids
    PROVE  SlotsOf(s, NoPad) # {}
<1> SUFFICES ASSUME SlotsOf(s, NoPad) = {} PROVE FALSE
  OBVIOUS
<1> DEFINE f == [i \in SlotIds |-> CHOOSE j \in 1 .. n : q[j] = s.slots[i].id]
<1>1. ASSUME NEW i \in SlotIds
      PROVE  f[i] \in 1 .. n /\ q[f[i]] = s.slots[i].id /\ s.slots[i].id # NoPad
  <2>1. s.slots[i].id # NoPad
    BY DEF SlotsOf
  <2>2. \E j \in 1 .. n : q[j] = s.slots[i].id
    BY <2>1 DEF Own
  <2>3. QED
    BY <2>1, <2>2
<1>2. f \in [SlotIds -> 1 .. n]
  BY <1>1
<1> HIDE DEF f
<1>3. MaxGamepads \in Nat /\ SlotIds = 1 .. MaxGamepads
  BY GamepadBoundsAssumption DEF SlotIds
<1>4. /\ IsFiniteSet(SlotIds) /\ Cardinality(SlotIds) = MaxGamepads
      /\ IsFiniteSet(1 .. n) /\ Cardinality(1 .. n) = n
  <2>1. \A m \in Nat : IsFiniteSet(1 .. m) /\ Cardinality(1 .. m) = m
    <3> SUFFICES ASSUME NEW m \in Nat
                 PROVE  IsFiniteSet(1 .. m) /\ Cardinality(1 .. m) = m
      OBVIOUS
    <3>1. 1 \in Int /\ m \in Int
      OBVIOUS
    <3>2. IsFiniteSet(1 .. m) /\ Cardinality(1 .. m) = IF 1 > m THEN 0 ELSE m - 1 + 1
      BY <3>1, FS_Interval
    <3>3. QED
      BY <3>2
  <2>2. QED
    BY <1>3, <2>1
<1>5. Cardinality(1 .. n) < Cardinality(SlotIds)
  BY <1>4
<1>6. \E x, y \in SlotIds : x # y /\ f[x] = f[y]
  BY <1>2, <1>4, <1>5, FS_PigeonHole
<1>7. QED
  BY <1>1, <1>6 DEF Own

(* The gamepads that have a slot report nothing pressed.                     *)
AtRest(s) == \A i \in SlotIds : s.slots[i].id # NoPad => s.slots[i].report = RestReport

(* Every gamepad is added, none of them having a slot.                       *)
LEMMA OpenAllDoes ==
    ASSUME NEW d, NEW s, PathOk(d, s), Own(s, {}), pads \in Seq(Ids), Distinct(pads),
           Len(pads) <= MaxGamepads, NEW h, h = OpenAll(s)
    PROVE  PathOk(d, h) /\ Own(h, ToSet(pads)) /\ AtRest(h)
<1> DEFINE N == Len(pads)
           K(n) == {pads[j] : j \in 1 .. n}
<1>1. s \in PathStates
  BY DEF PathOk
<1>2. PICK f : /\ f[0] = s
               /\ \A n \in 1 .. N : f[n] = Open(f[n - 1], pads[n])
               /\ h = f[N]
  <2>1. \E f : OpenAllRun(f, s) /\ h = f[Len(pads)]
    BY <1>1, OpenAllIs
  <2>2. QED
    BY <2>1 DEF OpenAllRun
<1>3. N \in Nat /\ \A n \in 1 .. N : pads[n] \in Ids
  OBVIOUS
<1>4. ToSet(pads) = K(N)
  BY InToSet
<1> HIDE DEF N
<1> DEFINE Good(n) == PathOk(d, f[n]) /\ Own(f[n], K(n)) /\ AtRest(f[n])
           S == {n \in 0 .. N : Good(n)}
<1>5. 0 \in S
  <2>1. K(0) = {} /\ 0 \in 0 .. N
    BY <1>3
  <2> HIDE DEF K
  <2>2. AtRest(s)
    BY DEF Own, AtRest
  <2>3. QED
    BY <1>2, <2>1, <2>2
<1>6. ASSUME NEW n \in 1 .. N, n - 1 \in S PROVE n \in S
  <2> DEFINE x == f[n - 1]
             y == f[n]
             id == pads[n]
  <2>1. y = Open(x, id) /\ id \in Ids
    BY <1>2, <1>3
  <2>2. PathOk(d, x) /\ Own(x, K(n - 1)) /\ AtRest(x)
    BY <1>6
  <2>3. /\ n - 1 \in Nat /\ n - 1 < MaxGamepads
        /\ \A j \in 1 .. n - 1 : pads[j] \in Ids
    BY <1>3, GamepadBoundsAssumption DEF N
  <2>4. K(n - 1) \in SUBSET Ids /\ id \notin K(n - 1)
    <3>1. \A j \in 1 .. n - 1 : pads[j] # pads[n]
      BY <1>3 DEF Distinct, N
    <3>2. QED
      BY <2>3, <3>1
  <2>5. K(n) = K(n - 1) \cup {id}
    <3>1. 1 .. n = (1 .. n - 1) \cup {n}
      BY <1>3
    <3>2. QED
      BY <3>1
  <2>6. SlotsOf(x, NoPad) # {}
    <3> HIDE DEF x
    <3>1. QED
      BY <2>2, <2>3, SomeFree
  <2> HIDE DEF x, y, id, K
  <2>7. PathOk(d, y) /\ \E i \in SlotIds :
             /\ x.slots[i].id = NoPad
             /\ y.slots = [x.slots EXCEPT ![i] = [id |-> id, report |-> RestReport]]
    BY <2>1, <2>2, <2>6, OpenDoes
  <2>8. PICK i \in SlotIds :
             /\ x.slots[i].id = NoPad
             /\ y.slots = [x.slots EXCEPT ![i] = [id |-> id, report |-> RestReport]]
    BY <2>7
  <2>9. x \in PathStates /\ x.slots \in Slots
    BY <2>2 DEF PathOk, PathStates
  <2>10. Own(y, K(n - 1) \cup {id})
    <3>1. [id |-> id, report |-> RestReport].id = id
      OBVIOUS
    <3>2. QED
      BY <2>1, <2>2, <2>4, <2>8, <2>9, <3>1, OwnOpen
  <2>11. AtRest(y)
    BY <2>2, <2>8, <2>9 DEF AtRest, Slots
  <2>12. Own(y, K(n)) /\ n \in 0 .. N
    BY <1>3, <2>5, <2>10
  <2>13. QED
    BY <2>7, <2>11, <2>12 DEF y
<1>7. Good(N)
  <2> HIDE DEF S
  <2>1. 0 .. N \subseteq S
    BY <1>3, <1>5, <1>6, PrefixInduction
  <2>2. N \in S
    BY <1>3, <2>1
  <2>3. QED
    BY <2>2 DEF S
<1>8. QED
  BY <1>2, <1>4, <1>7

(* Every gamepad is removed.                                                 *)
LEMMA CloseAllDoes ==
    ASSUME NEW d, NEW s, PathOk(d, s), Own(s, ToSet(pads)), pads \in Seq(Ids),
           Distinct(pads), NEW h, h = CloseAll(s)
    PROVE  PathOk(d, h) /\ Own(h, {})
<1> DEFINE N == Len(pads)
           K(n) == {pads[j] : j \in n + 1 .. N}
<1>1. s \in PathStates
  BY DEF PathOk
<1>2. PICK f : /\ f[0] = s
               /\ \A n \in 1 .. N : f[n] = Close(f[n - 1], pads[n])
               /\ h = f[N]
  <2>1. \E f : CloseAllRun(f, s) /\ h = f[Len(pads)]
    BY <1>1, CloseAllIs
  <2>2. QED
    BY <2>1 DEF CloseAllRun
<1>3. N \in Nat /\ \A n \in 1 .. N : pads[n] \in Ids
  OBVIOUS
<1>4. ToSet(pads) = {pads[j] : j \in 1 .. N}
  BY InToSet
<1> HIDE DEF N
<1> DEFINE Good(n) == PathOk(d, f[n]) /\ Own(f[n], K(n))
           S == {n \in 0 .. N : Good(n)}
<1>5. 0 \in S
  <2>1. K(0) = ToSet(pads) /\ 0 \in 0 .. N
    BY <1>3, <1>4
  <2> HIDE DEF K
  <2>2. QED
    BY <1>2, <2>1
<1>6. ASSUME NEW n \in 1 .. N, n - 1 \in S PROVE n \in S
  <2> DEFINE x == f[n - 1]
             y == f[n]
             id == pads[n]
  <2>1. y = Close(x, id) /\ id \in Ids
    BY <1>2, <1>3
  <2>2. PathOk(d, x) /\ Own(x, K(n - 1))
    BY <1>6
  <2>3. /\ K(n - 1) \in SUBSET Ids /\ id \in K(n - 1)
        /\ K(n) = K(n - 1) \ {id}
    <3>1. n \in Nat /\ (n - 1) + 1 = n /\ n .. N = {n} \cup (n + 1 .. N)
          /\ n .. N \subseteq 1 .. N
      BY <1>3
    <3>2. \A j \in n + 1 .. N : pads[j] # pads[n]
      BY <1>3, <3>1 DEF Distinct, N
    <3>3. QED
      BY <1>3, <3>1, <3>2
  <2> HIDE DEF x, y, id, K
  <2>4. SlotsOf(x, id) # {}
    <3>1. \E i \in SlotIds : x.slots[i].id = id
      BY <2>2, <2>3 DEF Own
    <3>2. QED
      BY <3>1 DEF SlotsOf
  <2>5. PathOk(d, y) /\ \E i \in SlotIds :
             x.slots[i].id = id /\ y.slots = [x.slots EXCEPT ![i] = FreeSlot]
    BY <2>1, <2>2, <2>4, CloseDoes
  <2>6. x \in PathStates
    BY <2>2 DEF PathOk
  <2>7. Own(y, K(n - 1) \ {id})
    BY <2>2, <2>3, <2>5, <2>6, OwnClose
  <2>8. Own(y, K(n)) /\ n \in 0 .. N
    BY <1>3, <2>3, <2>7
  <2>9. QED
    BY <2>5, <2>8 DEF y
<1>7. Good(N)
  <2> HIDE DEF S
  <2>1. 0 .. N \subseteq S
    BY <1>3, <1>5, <1>6, PrefixInduction
  <2>2. N \in S
    BY <1>3, <2>1
  <2>3. QED
    BY <2>2 DEF S
<1>8. K(N) = {}
  BY <1>3
<1>9. QED
  BY <1>2, <1>7, <1>8

(* A gamepad's slot takes its events, and reports what they show.            *)
LEMMA PassOnDoes ==
    ASSUME NEW d, NEW s, PathOk(d, s), NEW id \in Ids, focused, id \in ToSet(pads),
           NEW i \in SlotIds, SlotsOf(s, id) = {i},
           NEW events \in Seq(Events), NEW t, Shows(s.slots[i].report, events, t),
           NEW h, h = PassOn(s, id, events)
    PROVE  /\ PathOk(d, h)
           /\ h.slots = [s.slots EXCEPT ![i] = [id |-> id, report |-> t]]
<1> DEFINE N == Len(events)
<1>1. s \in PathStates /\ s.slots \in Slots
  BY DEF PathOk, PathStates
<1>2. PICK f : /\ f[0] = s
               /\ \A n \in 1 .. N : f[n] = TakeEvent(f[n - 1], id, events[n])
               /\ h = f[N]
  <2>1. \E f : PassOnRun(f, s, id, events) /\ h = f[Len(events)]
    BY <1>1, PassOnIs
  <2>2. QED
    BY <2>1 DEF PassOnRun
<1>3. PICK r \in [0 .. N -> Reports] :
        /\ r[0] = s.slots[i].report /\ r[N] = t
        /\ \A n \in 1 .. N : r[n] = Report(r[n - 1], events[n]) /\ OneWay(r[n])
  BY DEF Shows
<1>4. N \in Nat
  OBVIOUS
<1> HIDE DEF N
<1> DEFINE At(n) == [s.slots EXCEPT ![i] = [id |-> id, report |-> r[n]]]
           Good(n) == PathOk(d, f[n]) /\ f[n].slots = At(n)
           S == {n \in 0 .. N : Good(n)}
<1>5. s.slots[i].id = id /\ \A j \in SlotIds \ {i} : s.slots[j].id # id
  BY DEF SlotsOf
<1>6. 0 \in S
  <2>1. s.slots[i] = [id |-> id, report |-> r[0]]
    BY <1>1, <1>3, <1>5 DEF Slots
  <2>2. At(0) = s.slots
    BY <1>1, <2>1 DEF Slots
  <2>3. QED
    BY <1>2, <1>4, <2>2
<1>7. ASSUME NEW n \in 1 .. N, n - 1 \in S PROVE n \in S
  <2> DEFINE x == f[n - 1]
             y == f[n]
             e == events[n]
  <2>1. y = TakeEvent(x, id, e) /\ n - 1 \in 0 .. N /\ n \in 0 .. N
    BY <1>2, <1>4
  <2>2. PathOk(d, x) /\ x.slots = At(n - 1)
    BY <1>7
  <2>3. /\ x.slots[i] = [id |-> id, report |-> r[n - 1]]
        /\ \A j \in SlotIds \ {i} : x.slots[j] = s.slots[j]
    <3> HIDE DEF x
    <3>1. QED
      BY <1>1, <2>2 DEF Slots
  <2>4. SlotsOf(x, id) = {i}
    <3> HIDE DEF x
    <3>1. QED
      BY <1>5, <2>3 DEF SlotsOf
  <2>5. r[n] \in Reports /\ OneWay(r[n]) /\ r[n] = Report(x.slots[i].report, e)
    <3>1. x.slots[i].report = r[n - 1]
      BY <2>3
    <3>2. QED
      BY <1>3, <2>1, <3>1
  <2> HIDE DEF x, y, e
  <2>6. /\ PathOk(d, y)
        /\ y.slots = [x.slots EXCEPT ![i] = [id |-> id, report |-> r[n]]]
    <3> DEFINE R == r[n]
    <3>1. R \in Reports /\ OneWay(R) /\ R = Report(x.slots[i].report, e)
      BY <2>5
    <3> HIDE DEF R
    <3>2. PathOk(d, x) /\ y = TakeEvent(x, id, e)
      BY <2>1, <2>2
    <3>3. PathOk(d, y) /\ y.slots = [x.slots EXCEPT ![i] = [id |-> id, report |-> R]]
      BY <2>4, <3>1, <3>2, TakeEventDoes
    <3>4. QED
      BY <3>3 DEF R
  <2>7. y.slots = At(n)
    BY <1>1, <2>2, <2>6 DEF Slots
  <2>8. QED
    BY <2>1, <2>6, <2>7 DEF y
<1>8. Good(N)
  <2> HIDE DEF S
  <2>1. 0 .. N \subseteq S
    BY <1>4, <1>6, <1>7, PrefixInduction
  <2>2. N \in S
    BY <1>4, <2>1
  <2>3. QED
    BY <2>2 DEF S
<1>9. QED
  BY <1>2, <1>3, <1>8
-----------------------------------------------------------------------------
(* The inductive invariant.                                                  *)

(* The gamepads that have a slot.                                            *)
Given == IF focused THEN ToSet(pads) ELSE {}

(* The slot of the keyboard gamepad reports r.                               *)
KbShows(s, r) == \E i \in SlotIds : s.slots[i] = [id |-> Kb, report |-> r]

WindowInv == /\ setup \in Setups /\ down \subseteq KeySet
             /\ plugged \in [Gamepads -> {"no", "in", "out"}]
             /\ paused \in BOOLEAN /\ focused \in BOOLEAN
             /\ captured \in BOOLEAN /\ tick \in BOOLEAN

(* Every known gamepad is known once, the keyboard's if there is one.        *)
PadsInv == /\ pads \in Seq(Ids) /\ Distinct(pads) /\ Len(pads) <= MaxGamepads
           /\ Kb \in ToSet(pads) <=> HasKeyboardGamepad

(* The known gamepads have the slots, the keyboard's reports what was sent   *)
(* of it, and the device will have what the slots say.                       *)
PathInv == /\ PathOk(device, Path) /\ Own(Path, Given)
           /\ focused /\ HasKeyboardGamepad => KbShows(Path, ReportOf(kg))

(* What the gamepad g holds is down; without the focus nothing is held, and  *)
(* without the mouse nothing of it.                                          *)
HoldsWith(g, keys, focus, mouse) ==
    /\ Held(g) \ WheelHeld(g) \subseteq keys
    /\ ~focus => Held(g) = {}
    /\ ~mouse => \A k \in Held(g) : Input[k] = "key"
    /\ ~focus \/ ~mouse => g.mouse = 0 /\ ~g.moved

KeysInv == KInv(kg) /\ kg.out = << >> /\ HoldsWith(kg, down, focused, HasMouse)

Inv == WindowInv /\ PadsInv /\ PathInv /\ KeysInv
-----------------------------------------------------------------------------
(* A handler leaves the gamepad with its events sent.                        *)
LEMMA SentDoes ==
    ASSUME NEW g, KInv(g), NEW h, h = Sent(g)
    PROVE  /\ KInv(h) /\ h.out = << >> /\ ReportOf(h) = ReportOf(g)
           /\ Held(h) = Held(g) /\ WheelHeld(h) = WheelHeld(g)
           /\ h.moved = g.moved /\ h.mouse = g.mouse /\ h.ticking = g.ticking
           /\ Timed(g) => Timed(h)
<1> DEFINE none == << >>
<1>0. none \in Seq(Events) /\ h = [g EXCEPT !.out = none]
  BY DEF Sent
<1> HIDE DEF none
<1>1. /\ h \in KgStates /\ h.moved = g.moved /\ h.mouse = g.mouse
      /\ h.held = g.held /\ h.dir = g.dir /\ h.magnitude = g.magnitude
      /\ h.sent = g.sent /\ h.ramping = g.ramping
      /\ h.ticking = g.ticking /\ h.armed = g.armed /\ h.out = none
  BY <1>0 DEF KInv, KgStates
<1>2. StickCap(h) = StickCap(g) /\ \A p : PadPoints(h, p) = PadPoints(g, p)
  BY <1>1, OfHeld
<1>3. ASSUME NEW p \in Sticks PROVE StickOk(h, p)
  <2>1. StickOk(g, p)
    BY DEF KInv
  <2>2. QED
    BY <1>1, <1>2, <2>1, StickKept
<1>4. KInv(h)
  BY <1>1, <1>2, <1>3 DEF KInv
<1>5. Timed(g) => Timed(h)
  BY <1>1 DEF Timed
<1>6. Held(h) = Held(g) /\ ReportOf(h) = ReportOf(g)
  BY <1>1 DEF Held, ReportOf
<1>7. WheelHeld(h) = WheelHeld(g)
  BY <1>6 DEF WheelHeld
<1>8. QED
  BY <1>1, <1>4, <1>5, <1>6, <1>7 DEF none

(* Nothing held and the mouse still: the report is the one of a new slot.    *)
LEMMA RestIs ==
    ASSUME NEW g, KInv(g), Held(g) = {}, g.mouse = 0
    PROVE  ReportOf(g) = RestReport
<1>1. g \in KgStates /\ g.held \in Seq(KeySet) /\ g.sent \in [Sticks -> Positions]
  BY DEF KInv, KgStates
<1>2. ASSUME NEW p \in Pads PROVE Centered(g.dir[p])
  BY <1>1, PointsNowhere DEF KInv
<1>3. ASSUME NEW p \in Sticks PROVE g.sent[p] = <<0, 0, 0>>
  <2>1. p \in Pads /\ StickOk(g, p)
    BY PadFacts DEF KInv
  <2>2. g.sent[p] = <<0, 0, IF p = MousePad THEN g.mouse ELSE 0>>
    BY <1>2, <2>1 DEF StickOk, StickPosition
  <2>3. QED
    BY <2>2
<1>4. g.sent = [p \in Sticks |-> <<0, 0, 0>>]
  BY <1>1, <1>3
<1>5. DpadShown(g.dir["dpad"]) = {}
  BY <1>2, PadFacts, DpadFacts DEF Centered, DpadShown
<1>6. ButtonsOf(Held(g)) = {}
  BY DEF ButtonsOf
<1>7. QED
  BY <1>4, <1>5, <1>6 DEF ReportOf, RestReport

(* Removing what is not there changes nothing.                               *)
LEMMA RemoveFirstAbsent ==
    ASSUME NEW S, NEW q \in Seq(S), NEW e, e \notin ToSet(q)
    PROVE  RemoveFirst(q, e) = q
  BY InToSet DEF RemoveFirst

(* What an action leaves is the path.                                        *)
LEMMA LeaveIs ==
    ASSUME NEW s, s \in PathStates, Leave(s)
    PROVE  Path' = s
  BY DEF Leave, Path, PathStates
(* The keyboard gamepad's events are passed on to its slot.                  *)
LEMMA PassOnKb ==
    ASSUME PadsInv, PathInv, NEW g, KInv(g), Shows(ReportOf(kg), g.out, ReportOf(g)),
           NEW h, h = PassOn(Path, Kb, g.out)
    PROVE  /\ PathOk(device, h) /\ Own(h, Given)
           /\ focused /\ HasKeyboardGamepad => KbShows(h, ReportOf(g))
<1>1. CASE ~(focused /\ Kb \in ToSet(pads))
  BY <1>1 DEF PassOn, PadsInv, PathInv
<1>2. CASE focused /\ Kb \in ToSet(pads)
  <2> DEFINE s == Path
             t == ReportOf(g)
             q == g.out
             K == ToSet(pads)
  <2>1. /\ PathOk(device, s) /\ Own(s, K) /\ K = Given
        /\ KbShows(s, ReportOf(kg))
    BY <1>2 DEF PadsInv, PathInv, Given
  <2>2. K \in SUBSET Ids /\ Kb \in Ids /\ q \in Seq(Events) /\ s \in PathStates
    BY <2>1, InToSet, RestFacts DEF PadsInv, KInv, KgStates, PathOk
  <2>3. h = PassOn(s, Kb, q)
    OBVIOUS
  <2> HIDE DEF s, t, q, K
  <2>4. PICK i \in SlotIds : SlotsOf(s, Kb) = {i} /\ s.slots[i].id = Kb
    BY <1>2, <2>1, <2>2, OwnOf DEF K
  <2>5. s.slots[i].report = ReportOf(kg)
    <3>1. PICK j \in SlotIds : s.slots[j] = [id |-> Kb, report |-> ReportOf(kg)]
      BY <2>1 DEF KbShows
    <3>2. j \in SlotsOf(s, Kb)
      BY <3>1 DEF SlotsOf
    <3>3. QED
      BY <2>4, <3>1, <3>2
  <2>6. Shows(s.slots[i].report, q, t)
    BY <2>5 DEF q, t
  <2>7. PathOk(device, h) /\ h.slots = [s.slots EXCEPT ![i] = [id |-> Kb, report |-> t]]
    BY <1>2, <2>1, <2>2, <2>3, <2>4, <2>6, PassOnDoes
  <2>8. Own(h, K)
    <3>1. [id |-> Kb, report |-> t].id = s.slots[i].id
      BY <2>4
    <3>2. QED
      BY <2>1, <2>2, <2>7, <3>1, OwnReport
  <2>9. KbShows(h, t)
    BY <2>2, <2>7 DEF KbShows, PathStates, Slots
  <2>10. QED
    BY <2>1, <2>7, <2>8, <2>9 DEF t
<1>3. QED
  BY <1>1, <1>2

(* A handler of the keyboard gamepad keeps the path in order.                *)
LEMMA HandleKeeps ==
    ASSUME PadsInv, PathInv, NEW g, KInv(g), Shows(ReportOf(kg), g.out, ReportOf(g)),
           Handle(g), UNCHANGED <<setup, focused, pads, device>>
    PROVE  PathInv' /\ PadsInv'
<1> DEFINE h == PassOn(Path, Kb, g.out)
<1>1. /\ PathOk(device, h) /\ Own(h, Given)
      /\ focused /\ HasKeyboardGamepad => KbShows(h, ReportOf(g))
  BY PassOnKb
<1>2. Leave(h) /\ kg' = Sent(g)
  BY DEF Handle
<1> HIDE DEF h
<1>3. Path' = h
  BY <1>1, <1>2, LeaveIs DEF PathOk
<1>4. ReportOf(kg') = ReportOf(g)
  BY <1>2, SentDoes
<1>5. Given' = Given /\ HasKeyboardGamepad' = HasKeyboardGamepad
  BY DEF Given, HasKeyboardGamepad
<1>6. PathInv'
  BY <1>1, <1>3, <1>4, <1>5 DEF PathInv
<1>7. PadsInv'
  BY <1>5 DEF PadsInv
<1>8. QED
  BY <1>6, <1>7
(* Before a handler, nothing is to be sent.                                  *)
LEMMA NothingSent ==
    ASSUME KeysInv
    PROVE  KInv(kg) /\ Shows(ReportOf(kg), kg.out, ReportOf(kg))
<1>1. KInv(kg) /\ kg.out = << >> /\ kg \in KgStates
  BY DEF KeysInv, KInv
<1>2. ReportOf(kg) \in Reports
  BY <1>1, ReportOfType
<1>3. QED
  BY <1>1, <1>2, ShowsNothing

(* A handler that leaves g in order keeps the invariant.                     *)
LEMMA HandlerKeeps ==
    ASSUME Inv, WindowInv', NEW g, KInv(g), Shows(ReportOf(kg), g.out, ReportOf(g)),
           Handle(g), HoldsWith(g, down', focused', HasMouse'),
           UNCHANGED <<setup, focused, pads, device>>
    PROVE  Inv' /\ (WorkTimed(g) => WorkTimed(kg'))
<1>1. PathInv' /\ PadsInv'
  BY HandleKeeps DEF Inv
<1> DEFINE h == kg'
<1>2. h = Sent(g)
  BY DEF Handle
<1> HIDE DEF h
<1>3. /\ KInv(h) /\ h.out = << >>
      /\ Held(h) = Held(g) /\ WheelHeld(h) = WheelHeld(g)
      /\ h.moved = g.moved /\ h.mouse = g.mouse /\ h.ticking = g.ticking
      /\ Timed(g) => Timed(h)
  BY <1>2, SentDoes
<1>4. HoldsWith(h, down', focused', HasMouse')
  BY <1>3 DEF HoldsWith
<1>5. WorkTimed(g) => WorkTimed(h)
  BY <1>3 DEF WorkTimed
<1>6. KeysInv'
  BY <1>3, <1>4 DEF KeysInv, h
<1>7. QED
  BY <1>1, <1>5, <1>6 DEF Inv, h

(* The keys and the gamepads there are.                                      *)
LEMMA SetupFacts ==
    ASSUME WindowInv
    PROVE  setup.keys \subseteq KeySet /\ setup.gamepads \subseteq Gamepads
  BY SetupsAssumption DEF WindowInv

(* A key goes down.                                                          *)
LEMMA PressKeeps ==
    ASSUME Inv, NEW k \in setup.keys, Press(k)
    PROVE  Inv' /\ (WorkTimed(kg) => WorkTimed(kg'))
<1>1. k \in KeySet /\ Input[k] # "wheel" /\ WindowInv'
  BY SetupFacts DEF Inv, WindowInv, Press
<1>2. /\ UNCHANGED <<setup, focused, pads, device>> /\ HasMouse' = HasMouse
      /\ focused' = focused /\ down' = down \cup {k}
  BY DEF Press, HasMouse, TakesMouse, HasKeyboardGamepad
<1>3. KInv(kg) /\ Shows(ReportOf(kg), kg.out, ReportOf(kg))
  BY NothingSent DEF Inv
<1>4. HoldsWith(kg, down, focused, HasMouse)
  BY DEF Inv, KeysInv
<1>5. CASE ~(Gets(k) /\ ~paused /\ k \notin Held(kg))
  <2>1. Handle(kg)
    BY <1>5 DEF Press
  <2>2. HoldsWith(kg, down', focused', HasMouse')
    BY <1>2, <1>4 DEF HoldsWith
  <2>3. QED
    BY <1>1, <1>2, <1>3, <2>1, <2>2, HandlerKeeps
<1>6. CASE Gets(k) /\ ~paused /\ k \notin Held(kg)
  <2> DEFINE press == TRUE
             g == ApplyKey(kg, k, press)
  <2>1. Handle(g)
    BY <1>6 DEF Press
  <2>2. press \in BOOLEAN /\ (press <=> k \notin Held(kg)) /\ press
    BY <1>6
  <2> HIDE DEF press
  <2>3. /\ Follows(ReportOf(kg), kg, g)
        /\ Held(g) = IF press THEN Held(kg) \cup {k} ELSE Held(kg) \ {k}
    BY <1>1, <1>3, <2>2, ApplyKeyDoes
  <2> HIDE DEF g
  <2>4. Held(g) = Held(kg) \cup {k} /\ WheelHeld(g) = WheelHeld(kg)
    <3>1. Held(g) = Held(kg) \cup {k}
      BY <2>2, <2>3
    <3>2. QED
      BY <1>1, <3>1 DEF WheelHeld
  <2>5. /\ KInv(g) /\ Shows(ReportOf(kg), g.out, ReportOf(g))
        /\ g.moved = kg.moved /\ g.mouse = kg.mouse
        /\ kg.ticking => g.ticking
        /\ Timed(kg) => Timed(g)
    BY <2>3 DEF Follows
  <2>6. focused /\ (~HasMouse => Input[k] = "key")
    BY <1>1, <1>6, KeysAssumption DEF Gets
  <2>7. HoldsWith(g, down', focused', HasMouse')
    BY <1>2, <1>4, <2>4, <2>5, <2>6 DEF HoldsWith
  <2>8. WorkTimed(kg) => WorkTimed(g)
    BY <2>4, <2>5 DEF WorkTimed
  <2>9. QED
    BY <1>1, <1>2, <2>1, <2>5, <2>7, <2>8, HandlerKeeps
<1>7. QED
  BY <1>5, <1>6

(* A key goes up: whatever is held then is one of the others.                *)
LEMMA ReleaseKeeps ==
    ASSUME Inv, NEW k \in setup.keys, Release(k)
    PROVE  Inv' /\ (WorkTimed(kg) => WorkTimed(kg'))
<1>1. k \in KeySet /\ WindowInv'
  BY SetupFacts DEF Inv, WindowInv, Release
<1>2. /\ UNCHANGED <<setup, focused, pads, device>> /\ HasMouse' = HasMouse
      /\ focused' = focused /\ down' = down \ {k}
  BY DEF Release, HasMouse, TakesMouse, HasKeyboardGamepad
<1>3. KInv(kg) /\ Shows(ReportOf(kg), kg.out, ReportOf(kg))
  BY NothingSent DEF Inv
<1>4. HoldsWith(kg, down, focused, HasMouse)
  BY DEF Inv, KeysInv
<1>5. k \in Held(kg) => Gets(k)
  BY <1>4 DEF HoldsWith, Gets
<1>6. CASE k \notin Held(kg)
  <2>1. Handle(kg)
    BY <1>6 DEF Release
  <2>2. HoldsWith(kg, down', focused', HasMouse')
    BY <1>2, <1>4, <1>6 DEF HoldsWith
  <2>3. QED
    BY <1>1, <1>2, <1>3, <2>1, <2>2, HandlerKeeps
<1>7. CASE k \in Held(kg)
  <2> DEFINE press == FALSE
             g == ApplyKey(kg, k, press)
  <2>1. Handle(g)
    BY <1>5, <1>7 DEF Release
  <2>2. press \in BOOLEAN /\ (press <=> k \notin Held(kg)) /\ ~press
    BY <1>7
  <2> HIDE DEF press
  <2>3. /\ Follows(ReportOf(kg), kg, g)
        /\ Held(g) = IF press THEN Held(kg) \cup {k} ELSE Held(kg) \ {k}
    BY <1>1, <1>3, <2>2, ApplyKeyDoes
  <2> HIDE DEF g
  <2>4. Held(g) = Held(kg) \ {k} /\ WheelHeld(g) = WheelHeld(kg) \ {k}
    <3>1. Held(g) = Held(kg) \ {k}
      BY <2>2, <2>3
    <3>2. QED
      BY <3>1 DEF WheelHeld
  <2>5. /\ KInv(g) /\ Shows(ReportOf(kg), g.out, ReportOf(g))
        /\ g.moved = kg.moved /\ g.mouse = kg.mouse
        /\ kg.ticking => g.ticking
        /\ Timed(kg) => Timed(g)
    BY <2>3 DEF Follows
  <2>6. HoldsWith(g, down', focused', HasMouse')
    BY <1>2, <1>4, <2>4, <2>5 DEF HoldsWith
  <2>7. WorkTimed(kg) => WorkTimed(g)
    BY <2>4, <2>5 DEF WorkTimed
  <2>8. QED
    BY <1>1, <1>2, <2>1, <2>5, <2>6, <2>7, HandlerKeeps
<1>8. QED
  BY <1>6, <1>7
(* A notch of the wheel.                                                     *)
LEMMA WheelKeeps ==
    ASSUME Inv, NEW k \in setup.keys, Wheel(k)
    PROVE  Inv' /\ (WorkTimed(kg) => WorkTimed(kg'))
<1> DEFINE g == WheelNotch(kg, k)
<1>1. k \in KeySet /\ WindowInv' /\ Input[k] = "wheel" /\ focused /\ HasMouse
  BY SetupFacts DEF Inv, WindowInv, Wheel
<1>2. /\ UNCHANGED <<setup, focused, pads, device>> /\ HasMouse' = HasMouse
      /\ focused' = focused /\ down' = down /\ Handle(g)
  BY DEF Wheel, HasMouse, TakesMouse, HasKeyboardGamepad
<1>3. KInv(kg) /\ Shows(ReportOf(kg), kg.out, ReportOf(kg))
  BY NothingSent DEF Inv
<1>4. HoldsWith(kg, down, focused, HasMouse)
  BY DEF Inv, KeysInv
<1>5. g = WheelNotch(kg, k)
  OBVIOUS
<1> HIDE DEF g
<1>6. /\ KInv(g) /\ Shows(ReportOf(kg), g.out, ReportOf(g))
      /\ Held(g) = Held(kg) \cup {k}
      /\ g.ticking = TRUE /\ (Timed(kg) => Timed(g))
  <2>1. NotchTaken(ReportOf(kg), kg, g, k)
    BY <1>1, <1>3, <1>5, WheelNotchDoes
  <2>2. QED
    BY <2>1 DEF NotchTaken
<1>7. Held(g) \ WheelHeld(g) = Held(kg) \ WheelHeld(kg)
  BY <1>1, <1>6 DEF WheelHeld
<1>8. HoldsWith(g, down', focused', HasMouse')
  BY <1>1, <1>2, <1>4, <1>7 DEF HoldsWith
<1>9. WorkTimed(kg) => WorkTimed(g)
  BY <1>6 DEF WorkTimed
<1>10. QED
  BY <1>1, <1>2, <1>6, <1>8, <1>9, HandlerKeeps

(* The mouse moves.                                                          *)
LEMMA MotionKeeps ==
    ASSUME Inv, Motion
    PROVE  Inv' /\ (WorkTimed(kg) => WorkTimed(kg'))
<1> DEFINE g == MouseMotion(kg)
<1>1. WindowInv' /\ focused /\ HasMouse
  BY DEF Inv, WindowInv, Motion
<1>2. /\ UNCHANGED <<setup, focused, pads, device>> /\ HasMouse' = HasMouse
      /\ focused' = focused /\ down' = down /\ Handle(g)
  BY DEF Motion, HasMouse, TakesMouse, HasKeyboardGamepad
<1>3. KInv(kg) /\ Shows(ReportOf(kg), kg.out, ReportOf(kg))
  BY NothingSent DEF Inv
<1>4. HoldsWith(kg, down, focused, HasMouse)
  BY DEF Inv, KeysInv
<1>5. /\ KInv(g) /\ Shows(ReportOf(kg), g.out, ReportOf(g)) /\ g.held = kg.held
      /\ g.ticking = TRUE /\ (Timed(kg) => Timed(g))
  BY <1>3, MouseMotionDoes
<1> HIDE DEF g
<1>6. Held(g) = Held(kg) /\ WheelHeld(g) = WheelHeld(kg)
  BY <1>5 DEF Held, WheelHeld
<1>7. HoldsWith(g, down', focused', HasMouse')
  BY <1>1, <1>2, <1>4, <1>6 DEF HoldsWith
<1>8. WorkTimed(kg) => WorkTimed(g)
  BY <1>5 DEF WorkTimed
<1>9. QED
  BY <1>1, <1>2, <1>5, <1>7, <1>8, HandlerKeeps

(* No release of a wheel's notch makes a stick ramp.                         *)
QuietWheel == \A k \in KeySet : Input[k] = "wheel" => Quiet(k)

(* A tick, in time or late.                                                  *)
LEMMA TickKeeps ==
    ASSUME Inv, NEW step \in TickSteps, NEW due \in SUBSET WheelHeld(kg),
           NEW speed \in TickSpeeds, NEW stopped \in TickStops,
           OnTick(step, due, speed, stopped)
    PROVE  Inv' /\ (QuietWheel /\ WorkTimed(kg) => WorkTimed(kg'))
<1> DEFINE t == Tick(kg, step, due, speed, stopped)
           g == [t EXCEPT !.armed = t.ticking /\ @]
<1>1. /\ WindowInv' /\ step \in 0 .. FullCap /\ speed \in 0 .. Speeds
      /\ stopped \in BOOLEAN
  <2>1. WindowInv'
    BY DEF Inv, WindowInv, OnTick
  <2>2. step \in 0 .. FullCap /\ speed \in 0 .. Speeds
    BY CapsAssumption DEF TickSteps, TickSpeeds
  <2>3. stopped \in BOOLEAN
    BY DEF TickStops
  <2>4. QED
    BY <2>1, <2>2, <2>3
<1>2. /\ UNCHANGED <<setup, focused, pads, device>> /\ HasMouse' = HasMouse
      /\ focused' = focused /\ down' = down /\ Handle(g)
  BY DEF OnTick, HasMouse, TakesMouse, HasKeyboardGamepad
<1>3. KInv(kg) /\ Shows(ReportOf(kg), kg.out, ReportOf(kg))
  BY NothingSent DEF Inv
<1>4. HoldsWith(kg, down, focused, HasMouse)
  BY DEF Inv, KeysInv
<1>5. g = Ticked(t) /\ t = Tick(kg, step, due, speed, stopped)
  BY DEF Ticked
<1> HIDE DEF g, t
<1>6. /\ KInv(g) /\ Shows(ReportOf(kg), g.out, ReportOf(g))
      /\ Held(g) = Held(kg) \ due
      /\ MousePad \in Sticks =>
            /\ g.moved = FALSE
            /\ ~kg.moved /\ kg.mouse = 0 => g.mouse = 0
      /\ MousePad \notin Sticks => g.moved = kg.moved /\ g.mouse = kg.mouse
      /\ /\ \A k \in Held(kg) \cap due : Quiet(k)
         /\ MousePad \notin Sticks => ~kg.moved
         /\ WorkTimed(kg)
         => WorkTimed(g)
  <2>1. TickDone(ReportOf(kg), kg, g, due)
    BY <1>1, <1>3, <1>5, TickDoes
  <2>2. QED
    BY <2>1 DEF TickDone
<1>7. Held(g) \ WheelHeld(g) \subseteq Held(kg) \ WheelHeld(kg)
  BY <1>6 DEF WheelHeld
<1>8. ~focused \/ ~HasMouse => g.mouse = 0 /\ ~g.moved
  BY <1>4, <1>6 DEF HoldsWith
<1>9. HoldsWith(g, down', focused', HasMouse')
  <2>1. /\ ~focused => Held(g) = {}
        /\ ~HasMouse => \A k \in Held(g) : Input[k] = "key"
    BY <1>4, <1>6 DEF HoldsWith
  <2>2. Held(g) \ WheelHeld(g) \subseteq down
    BY <1>4, <1>7 DEF HoldsWith
  <2>3. QED
    BY <1>2, <1>8, <2>1, <2>2 DEF HoldsWith
<1>10. MousePad \notin Sticks => ~kg.moved
  BY <1>4 DEF HoldsWith, HasMouse, TakesMouse
<1>11. QuietWheel => \A k \in Held(kg) \cap due : Quiet(k)
  <2>1. Held(kg) \subseteq KeySet
    BY <1>3, InToSet DEF KInv, KgStates, Held
  <2>2. QED
    BY <2>1 DEF QuietWheel, WheelHeld
<1>12. QuietWheel /\ WorkTimed(kg) => WorkTimed(g)
  BY <1>6, <1>10, <1>11
<1>13. QED
  BY <1>1, <1>2, <1>6, <1>9, <1>12, HandlerKeeps

(* The pointer is let go.                                                    *)
LEMMA LetPointerGoKeeps ==
    ASSUME Inv, LetPointerGo
    PROVE  Inv' /\ (WorkTimed(kg) => WorkTimed(kg'))
<1> DEFINE g == ReleaseMouse(kg)
<1>1. WindowInv' /\ focused
  BY DEF Inv, WindowInv, LetPointerGo
<1>2. /\ UNCHANGED <<setup, focused, pads, device>> /\ focused' = focused
      /\ down' = down /\ Handle(g)
  BY DEF LetPointerGo
<1>3. KInv(kg) /\ Shows(ReportOf(kg), kg.out, ReportOf(kg))
  BY NothingSent DEF Inv
<1>4. HoldsWith(kg, down, focused, HasMouse)
  BY DEF Inv, KeysInv
<1>5. /\ KInv(g) /\ Shows(ReportOf(kg), g.out, ReportOf(g))
      /\ Held(g) = {k \in Held(kg) : Input[k] = "key"}
      /\ g.moved = FALSE /\ g.mouse = 0
      /\ kg.ticking => g.ticking
      /\ Timed(kg) => Timed(g)
  BY <1>3, ReleaseMouseDoes
<1> HIDE DEF g
<1>6. WheelHeld(g) = {} /\ Held(g) \subseteq Held(kg) \ WheelHeld(kg)
  BY <1>5 DEF WheelHeld
<1>7. HoldsWith(g, down', focused', HasMouse')
  BY <1>1, <1>2, <1>4, <1>5, <1>6 DEF HoldsWith
<1>8. WorkTimed(kg) => WorkTimed(g)
  BY <1>5, <1>6 DEF WorkTimed
<1>9. QED
  BY <1>1, <1>2, <1>5, <1>7, <1>8, HandlerKeeps
(* The focus is lost: the keys are released while the slots are still there. *)
LEMMA FocusLostKeeps ==
    ASSUME Inv, FocusLost
    PROVE  Inv' /\ (WorkTimed(kg) => WorkTimed(kg'))
<1> DEFINE g == ReleaseAll(kg)
           f == IF HasMouse THEN ReleaseMouse(g) ELSE g
           s == PassOn(Path, Kb, g.out)
           e == CloseAll(s)
<1>1. /\ WindowInv' /\ focused /\ ~focused' /\ ~HasMouse' /\ Given' = {}
      /\ UNCHANGED <<setup, pads, device>>
      /\ Given = ToSet(pads) /\ Leave(e) /\ kg' = Sent(f)
  <2>1. focused /\ focused' = FALSE /\ captured' = (captured /\ ~TakesMouse)
        /\ UNCHANGED <<setup, down, plugged, paused, tick, pads, device>>
    BY DEF FocusLost
  <2>2. WindowInv' /\ ~HasMouse'
    BY <2>1 DEF Inv, WindowInv, HasMouse, TakesMouse, HasKeyboardGamepad
  <2>3. Leave(e) /\ kg' = Sent(f)
    BY DEF FocusLost
  <2>4. QED
    BY <2>1, <2>2, <2>3 DEF Given
<1>2. KInv(kg) /\ Shows(ReportOf(kg), kg.out, ReportOf(kg))
  BY NothingSent DEF Inv
<1>3. HoldsWith(kg, down, focused, HasMouse)
  BY DEF Inv, KeysInv
<1>4. Follows(ReportOf(kg), kg, g) /\ Held(g) = {}
  BY <1>2, ReleaseAllDoes
<1> HIDE DEF g
<1>5. KInv(g) /\ Shows(ReportOf(kg), g.out, ReportOf(g))
  BY <1>4 DEF Follows
<1>6. PathOk(device, s) /\ Own(s, Given)
  BY <1>5, PassOnKb DEF Inv
<1> HIDE DEF s
<1>7. PathOk(device, e) /\ Own(e, {})
  BY <1>1, <1>6, CloseAllDoes DEF Inv, PadsInv
<1> HIDE DEF e
<1>8. Path' = e
  BY <1>1, <1>7, LeaveIs DEF PathOk
<1>9. PathInv'
  BY <1>1, <1>7, <1>8 DEF PathInv
<1>10. PadsInv'
  BY <1>1 DEF Inv, PadsInv, HasKeyboardGamepad
<1>11. /\ KInv(f) /\ Held(f) = {} /\ f.moved = FALSE /\ f.mouse = 0
       /\ kg.ticking => f.ticking
       /\ Timed(kg) => Timed(f)
  <2>1. CASE HasMouse
    <3>1. f = ReleaseMouse(g)
      BY <2>1
    <3> HIDE DEF f
    <3>2. /\ KInv(f) /\ Held(f) = {k \in Held(g) : Input[k] = "key"}
          /\ f.moved = FALSE /\ f.mouse = 0
          /\ g.ticking => f.ticking
          /\ Timed(g) => Timed(f)
      BY <1>5, <3>1, ReleaseMouseDoes
    <3>3. QED
      BY <1>4, <3>2 DEF Follows
  <2>2. CASE ~HasMouse
    <3>1. f = g
      BY <2>2
    <3>2. kg.mouse = 0 /\ ~kg.moved /\ g.moved \in BOOLEAN
      BY <1>3, <1>5, <2>2 DEF HoldsWith, KInv, KgStates
    <3> HIDE DEF f
    <3>3. QED
      BY <1>4, <1>5, <3>1, <3>2 DEF Follows
  <2>3. QED
    BY <2>1, <2>2
<1> DEFINE h == kg'
<1>12. h = Sent(f)
  BY <1>1
<1> HIDE DEF f, h
<1>13. /\ KInv(h) /\ h.out = << >>
       /\ Held(h) = Held(f) /\ WheelHeld(h) = WheelHeld(f)
       /\ h.moved = f.moved /\ h.mouse = f.mouse /\ h.ticking = f.ticking
       /\ Timed(f) => Timed(h)
  BY <1>11, <1>12, SentDoes
<1>14. WheelHeld(h) = {}
  BY <1>11, <1>13 DEF WheelHeld
<1>15. HoldsWith(h, down', focused', HasMouse')
  BY <1>11, <1>13 DEF HoldsWith
<1>16. KeysInv'
  BY <1>13, <1>15 DEF KeysInv, h
<1>17. WorkTimed(kg) => WorkTimed(h)
  BY <1>11, <1>13, <1>14 DEF WorkTimed
<1>18. QED
  BY <1>1, <1>9, <1>10, <1>16, <1>17 DEF Inv, h

(* The focus is gained: the new slots report nothing pressed, and nothing is *)
(* held.                                                                     *)
LEMMA FocusGainedKeeps ==
    ASSUME Inv, FocusGained
    PROVE  Inv' /\ kg' = kg
<1> DEFINE e == OpenAll(Path)
<1>1. /\ WindowInv' /\ ~focused /\ focused' /\ Given = {} /\ Given' = ToSet(pads)
      /\ UNCHANGED <<setup, down, captured, pads, device, kg>> /\ Leave(e)
  BY DEF FocusGained, Inv, WindowInv, Given
<1>2. PathOk(device, Path) /\ Own(Path, {})
  BY <1>1 DEF Inv, PathInv
<1>3. PathOk(device, e) /\ Own(e, ToSet(pads)) /\ AtRest(e)
  BY <1>2, OpenAllDoes DEF Inv, PadsInv
<1> HIDE DEF e
<1>4. Path' = e /\ e \in PathStates /\ e.slots \in Slots
  BY <1>1, <1>3, LeaveIs DEF PathOk, PathStates
<1>5. KInv(kg) /\ HoldsWith(kg, down, focused, HasMouse) /\ kg.out = << >>
  BY DEF Inv, KeysInv
<1>6. ReportOf(kg) = RestReport
  BY <1>1, <1>5, RestIs DEF HoldsWith
<1>7. HasKeyboardGamepad => KbShows(e, RestReport)
  <2> SUFFICES ASSUME HasKeyboardGamepad PROVE KbShows(e, RestReport)
    OBVIOUS
  <2>1. Kb \in ToSet(pads) /\ Kb # NoPad
    BY RestFacts DEF Inv, PadsInv
  <2>2. PICK i \in SlotIds : e.slots[i].id = Kb
    BY <1>3, <2>1 DEF Own
  <2>3. e.slots[i].report = RestReport
    BY <1>3, <2>1, <2>2 DEF AtRest
  <2>4. e.slots[i] = [id |-> Kb, report |-> RestReport]
    BY <1>4, <2>2, <2>3 DEF Slots
  <2>5. QED
    BY <2>4 DEF KbShows
<1>8. HasKeyboardGamepad' = HasKeyboardGamepad /\ HasMouse' = HasMouse
  BY <1>1 DEF HasKeyboardGamepad, HasMouse, TakesMouse
<1>9. PathInv'
  BY <1>1, <1>3, <1>4, <1>6, <1>7, <1>8 DEF PathInv
<1>10. PadsInv'
  BY <1>1, <1>8 DEF Inv, PadsInv
<1>11. KeysInv'
  <2>1. HoldsWith(kg, down', focused', HasMouse')
    BY <1>1, <1>5, <1>8 DEF HoldsWith
  <2>2. QED
    BY <1>1, <1>5, <2>1 DEF KeysInv
<1>12. QED
  BY <1>1, <1>9, <1>10, <1>11 DEF Inv
(* The pointer, the pause and the timer leave keys, slots and device.        *)
LEMMA OthersKeep ==
    ASSUME Inv, CapturePointer \/ TogglePause \/ TimerFires
    PROVE  Inv' /\ kg' = kg
<1>1. /\ UNCHANGED <<setup, down, plugged, focused, kg, pads, slots, queue, device, lost>>
      /\ HasMouse => HasMouse'
  BY DEF CapturePointer, TogglePause, TimerFires, HasMouse, TakesMouse,
         HasKeyboardGamepad
<1>2. WindowInv'
  BY DEF Inv, WindowInv, CapturePointer, TogglePause, TimerFires
<1>3. Path' = Path /\ Given' = Given /\ HasKeyboardGamepad' = HasKeyboardGamepad
  BY <1>1 DEF Path, Given, HasKeyboardGamepad
<1>4. PathInv'
  BY <1>1, <1>3 DEF Inv, PathInv
<1>5. PadsInv'
  BY <1>1, <1>3 DEF Inv, PadsInv
<1>6. KInv(kg) /\ HoldsWith(kg, down, focused, HasMouse) /\ kg.out = << >>
  BY DEF Inv, KeysInv
<1>7. HoldsWith(kg, down', focused', HasMouse')
  BY <1>1, <1>6 DEF HoldsWith
<1>8. KeysInv'
  BY <1>1, <1>6, <1>7 DEF KeysInv
<1>9. QED
  BY <1>1, <1>2, <1>4, <1>5, <1>8 DEF Inv

(* An action that is only about real gamepads keeps the rest.                *)
LEMMA PadActionKeeps ==
    ASSUME Inv, WindowInv', PadsInv', NEW e, Leave(e), PathOk(device, e), Own(e, Given'),
           focused /\ HasKeyboardGamepad => KbShows(e, ReportOf(kg)),
           UNCHANGED <<setup, down, focused, captured, kg, device>>
    PROVE  Inv' /\ kg' = kg
<1>1. Path' = e
  BY LeaveIs DEF PathOk
<1>2. HasKeyboardGamepad' = HasKeyboardGamepad /\ HasMouse' = HasMouse
  BY DEF HasKeyboardGamepad, HasMouse, TakesMouse
<1>3. PathInv'
  BY <1>1, <1>2 DEF PathInv
<1>4. KeysInv'
  BY <1>2 DEF Inv, KeysInv
<1>5. QED
  BY <1>3, <1>4 DEF Inv

(* Another slot becomes x: the keyboard gamepad's is the same.               *)
LEMMA KbShowsStill ==
    ASSUME NEW s \in PathStates, NEW r, KbShows(s, r), NEW i \in SlotIds,
           s.slots[i].id # Kb, NEW x, NEW e, e.slots = [s.slots EXCEPT ![i] = x]
    PROVE  KbShows(e, r)
<1>1. PICK j \in SlotIds : s.slots[j] = [id |-> Kb, report |-> r]
  BY DEF KbShows
<1>2. j # i
  BY <1>1
<1>3. e.slots[j] = s.slots[j]
  BY <1>2 DEF PathStates, Slots
<1>4. QED
  BY <1>1, <1>3 DEF KbShows

(* A gamepad is announced, for the first time or again.                      *)
LEMMA GamepadAddedKeeps ==
    ASSUME Inv, NEW id \in setup.gamepads, GamepadAdded(id)
    PROVE  Inv' /\ kg' = kg
<1>1. id \in Gamepads /\ id \in Ids /\ id # Kb /\ Kb # NoPad
  BY SetupFacts, RestFacts DEF Inv, Ids
<1>2. /\ WindowInv' /\ UNCHANGED <<setup, down, focused, captured, kg, device>>
      /\ pads' = IF NotTaken(id) THEN pads ELSE Append(pads, id)
      /\ Leave(IF NotTaken(id) \/ ~focused THEN Path ELSE Open(Path, id))
  BY <1>1 DEF GamepadAdded, Inv, WindowInv
<1>3. /\ PathOk(device, Path) /\ Own(Path, Given)
      /\ focused /\ HasKeyboardGamepad => KbShows(Path, ReportOf(kg))
  BY DEF Inv, PathInv
<1>4. CASE NotTaken(id)
  <2>1. Given' = Given /\ Leave(Path) /\ PadsInv'
    BY <1>2, <1>4 DEF Given, Inv, PadsInv, HasKeyboardGamepad
  <2>2. QED
    BY <1>2, <1>3, <2>1, PadActionKeeps
<1>5. CASE ~NotTaken(id)
  <2>1. pads' = Append(pads, id) /\ id \notin ToSet(pads) /\ Len(pads) < MaxGamepads
    BY <1>2, <1>5, GamepadBoundsAssumption DEF NotTaken, Inv, PadsInv
  <2>2. /\ pads' \in Seq(Ids) /\ Len(pads') = Len(pads) + 1 /\ Distinct(pads')
        /\ ToSet(pads') = ToSet(pads) \cup {id}
    BY <1>1, <2>1, ToSetAppend, DistinctAppend DEF Inv, PadsInv
  <2>3. PadsInv'
    BY <1>1, <1>2, <2>1, <2>2, GamepadBoundsAssumption
       DEF Inv, PadsInv, HasKeyboardGamepad
  <2>4. CASE ~focused
    <3>1. Given' = Given /\ Leave(Path)
      BY <1>2, <2>4 DEF Given
    <3>2. QED
      BY <1>2, <1>3, <2>3, <3>1, PadActionKeeps
  <2>5. CASE focused
    <3> DEFINE s == Path
               e == Open(s, id)
               K == ToSet(pads)
    <3>1. /\ Leave(e) /\ Given = K /\ Given' = K \cup {id}
          /\ PathOk(device, s) /\ Own(s, K) /\ e = Open(s, id)
      BY <1>2, <1>3, <1>5, <2>2, <2>5 DEF Given
    <3>2. /\ K \in SUBSET Ids /\ s \in PathStates /\ K = {pads[j] : j \in 1 .. Len(pads)}
          /\ Len(pads) \in Nat /\ \A j \in 1 .. Len(pads) : pads[j] \in Ids
      BY <3>1, InToSet DEF Inv, PadsInv, PathOk
    <3> HIDE DEF s, e
    <3>3. SlotsOf(s, NoPad) # {}
      BY <2>1, <3>1, <3>2, SomeFree
    <3> HIDE DEF K
    <3>4. PathOk(device, e) /\ \E i \in SlotIds :
             /\ s.slots[i].id = NoPad
             /\ e.slots = [s.slots EXCEPT ![i] = [id |-> id, report |-> RestReport]]
      BY <1>1, <3>1, <3>3, OpenDoes
    <3>5. PICK i \in SlotIds :
             /\ s.slots[i].id = NoPad
             /\ e.slots = [s.slots EXCEPT ![i] = [id |-> id, report |-> RestReport]]
      BY <3>4
    <3>6. Own(e, K \cup {id})
      <4> DEFINE x == [id |-> id, report |-> RestReport]
      <4>1. x.id = id /\ id \in Ids \ K
        BY <1>1, <2>1 DEF K
      <4>2. e.slots = [s.slots EXCEPT ![i] = x] /\ s.slots[i].id = NoPad
        BY <3>5
      <4>3. Own(s, K) /\ K \in SUBSET Ids /\ s \in PathStates
        BY <3>1, <3>2
      <4> HIDE DEF x
      <4>4. QED
        BY <4>1, <4>2, <4>3, OwnOpen
    <3>7. HasKeyboardGamepad => KbShows(e, ReportOf(kg))
      <4>1. s.slots[i].id # Kb
        BY <1>1, <3>5
      <4>2. HasKeyboardGamepad => KbShows(s, ReportOf(kg))
        BY <1>3, <2>5 DEF s
      <4>3. QED
        BY <3>2, <3>5, <4>1, <4>2, KbShowsStill
    <3>8. QED
      BY <1>2, <2>3, <3>1, <3>4, <3>6, <3>7, PadActionKeeps
  <2>6. QED
    BY <2>4, <2>5
<1>6. QED
  BY <1>4, <1>5

(* A gamepad is unplugged, known or not.                                     *)
LEMMA GamepadRemovedKeeps ==
    ASSUME Inv, NEW id \in setup.gamepads, GamepadRemoved(id)
    PROVE  Inv' /\ kg' = kg
<1>1. id \in Gamepads /\ id \in Ids /\ id # Kb /\ Kb # NoPad
  BY SetupFacts, RestFacts DEF Inv, Ids
<1>2. /\ WindowInv' /\ UNCHANGED <<setup, down, focused, captured, kg, device>>
      /\ pads' = RemoveFirst(pads, id)
      /\ Leave(IF focused /\ id \in ToSet(pads) THEN Close(Path, id) ELSE Path)
  BY <1>1 DEF GamepadRemoved, Inv, WindowInv
<1>3. /\ PathOk(device, Path) /\ Own(Path, Given)
      /\ focused /\ HasKeyboardGamepad => KbShows(Path, ReportOf(kg))
  BY DEF Inv, PathInv
<1>4. CASE id \notin ToSet(pads)
  <2>1. pads' = pads
    BY <1>2, <1>4, RemoveFirstAbsent DEF Inv, PadsInv
  <2>2. Given' = Given /\ Leave(Path) /\ PadsInv'
    BY <1>2, <1>4, <2>1 DEF Given, Inv, PadsInv, HasKeyboardGamepad
  <2>3. QED
    BY <1>2, <1>3, <2>2, PadActionKeeps
<1>5. CASE id \in ToSet(pads)
  <2>1. /\ pads' \in Seq(Ids) /\ Len(pads') = Len(pads) - 1 /\ Distinct(pads')
        /\ ToSet(pads') = ToSet(pads) \ {id}
    BY <1>2, <1>5, RemoveFirstRemoves DEF Inv, PadsInv
  <2>2. Len(pads) \in Nat
    BY DEF Inv, PadsInv
  <2>3. PadsInv'
    BY <1>1, <1>2, <2>1, <2>2, GamepadBoundsAssumption
       DEF Inv, PadsInv, HasKeyboardGamepad
  <2>4. CASE ~focused
    <3>1. Given' = Given /\ Leave(Path)
      BY <1>2, <2>4 DEF Given
    <3>2. QED
      BY <1>2, <1>3, <2>3, <3>1, PadActionKeeps
  <2>5. CASE focused
    <3> DEFINE s == Path
               e == Close(s, id)
               K == ToSet(pads)
    <3>1. /\ Leave(e) /\ Given = K /\ Given' = K \ {id}
          /\ PathOk(device, s) /\ Own(s, K) /\ e = Close(s, id)
      BY <1>2, <1>3, <1>5, <2>1, <2>5 DEF Given
    <3>2. K \in SUBSET Ids /\ s \in PathStates /\ id \in K
      BY <1>5, <3>1, InToSet DEF Inv, PadsInv, PathOk
    <3> HIDE DEF s, e, K
    <3>3. SlotsOf(s, id) # {}
      <4>1. \E i \in SlotIds : s.slots[i].id = id
        BY <3>1, <3>2 DEF Own
      <4>2. QED
        BY <4>1 DEF SlotsOf
    <3>4. PathOk(device, e) /\ \E i \in SlotIds :
             s.slots[i].id = id /\ e.slots = [s.slots EXCEPT ![i] = FreeSlot]
      BY <1>1, <3>1, <3>3, CloseDoes
    <3>5. PICK i \in SlotIds :
             s.slots[i].id = id /\ e.slots = [s.slots EXCEPT ![i] = FreeSlot]
      BY <3>4
    <3>6. Own(e, K \ {id})
      BY <3>1, <3>2, <3>5, OwnClose
    <3>7. HasKeyboardGamepad => KbShows(e, ReportOf(kg))
      <4>1. s.slots[i].id # Kb
        BY <1>1, <3>5
      <4>2. HasKeyboardGamepad => KbShows(s, ReportOf(kg))
        BY <1>3, <2>5 DEF s
      <4>3. QED
        BY <3>2, <3>5, <4>1, <4>2, KbShowsStill
    <3>8. QED
      BY <1>2, <2>3, <3>1, <3>4, <3>6, <3>7, PadActionKeeps
  <2>6. QED
    BY <2>4, <2>5
<1>6. QED
  BY <1>4, <1>5
(* A button that is none of the D-pad leaves the D-pad as it points.         *)
LEMMA PlainOneWay ==
    ASSUME NEW r \in Reports, OneWay(r), NEW b \in BOOLEAN, NEW e,
           e = [kind |-> "button", button |-> PlainButton("a"), down |-> b]
    PROVE  e \in Events /\ OneWay(Report(r, e))
<1> DEFINE c == PlainButton("a")
           R == Report(r, e)
<1>1. \A a \in Axes : DpadButton(a, -1) # c /\ DpadButton(a, 1) # c
  BY DEF DpadButton, PlainButton
<1>2. c \in AllButtons
  BY DEF AllButtons
<1> HIDE DEF c
<1>3. e = [kind |-> "button", button |-> c, down |-> b]
  BY DEF c
<1>4. e \in Events
  BY <1>2, <1>3 DEF Events
<1>5. R.buttons = IF b THEN r.buttons \cup {c} ELSE r.buttons \ {c}
  BY <1>3 DEF Report, Reports
<1> HIDE DEF R
<1>6. R.buttons \subseteq r.buttons \cup {c}
  BY <1>5
<1>7. OneWay(R)
  BY <1>1, <1>6 DEF OneWay
<1>8. QED
  BY <1>4, <1>7 DEF R

(* A button of a real gamepad.                                               *)
LEMMA GamepadButtonKeeps ==
    ASSUME Inv, NEW id \in setup.gamepads, NEW b \in BOOLEAN,
           GamepadButton(id, PlainButton("a"), b)
    PROVE  Inv' /\ kg' = kg
<1> DEFINE v == [kind |-> "button", button |-> PlainButton("a"), down |-> b]
           q == <<v>>
           s == Path
           h == PassOn(s, id, q)
           K == ToSet(pads)
<1>1. id \in Gamepads /\ id \in Ids /\ id # Kb
  BY SetupFacts, RestFacts DEF Inv, Ids
<1>2. /\ WindowInv' /\ UNCHANGED <<setup, down, focused, captured, kg, device, pads>>
      /\ Leave(h)
  BY DEF GamepadButton, Inv, WindowInv
<1>3. /\ PathOk(device, s) /\ Own(s, Given) /\ s \in PathStates
      /\ focused /\ HasKeyboardGamepad => KbShows(s, ReportOf(kg))
  BY DEF Inv, PathInv, PathOk
<1>4. PadsInv' /\ Given' = Given
  BY <1>2 DEF Inv, PadsInv, HasKeyboardGamepad, Given
<1>5. v = [kind |-> "button", button |-> PlainButton("a"), down |-> b]
      /\ q = Append(<< >>, v)
  OBVIOUS
<1> HIDE DEF v, q, s
<1>6. CASE ~(focused /\ id \in ToSet(pads))
  <2>1. h = s
    BY <1>6 DEF PassOn
  <2> HIDE DEF h
  <2>2. QED
    BY <1>2, <1>3, <1>4, <2>1, PadActionKeeps
<1>7. CASE focused /\ id \in ToSet(pads)
  <2>1. K \in SUBSET Ids /\ Own(s, K) /\ Given = K /\ id \in K
    BY <1>3, <1>7, InToSet DEF Inv, PadsInv, Given
  <2> HIDE DEF K
  <2>2. PICK i \in SlotIds : SlotsOf(s, id) = {i} /\ s.slots[i].id = id
    BY <1>1, <2>1, OwnOf
  <2> DEFINE r == s.slots[i].report
             t == Report(r, v)
  <2>3. r \in Reports /\ OneWay(r)
    BY <1>3 DEF PathOk, PathStates, Slots, AllOneWay
  <2> HIDE DEF r
  <2>4. v \in Events /\ OneWay(t)
    BY <1>5, <2>3, PlainOneWay
  <2>5. Shows(r, q, t) /\ q \in Seq(Events)
    <3> DEFINE none == << >>
    <3>1. none \in Seq(Events) /\ Shows(r, none, r) /\ q = Append(none, v)
      BY <1>5, <2>3, ShowsNothing
    <3> HIDE DEF none
    <3>2. Shows(r, q, t)
      BY <2>3, <2>4, <3>1, ShowsMore
    <3>3. QED
      BY <2>4, <3>1, <3>2, ToSetAppend
  <2> HIDE DEF t
  <2>6. h = PassOn(s, id, q) /\ Shows(s.slots[i].report, q, t)
    BY <2>5 DEF r
  <2> HIDE DEF h
  <2>7. PathOk(device, h) /\ h.slots = [s.slots EXCEPT ![i] = [id |-> id, report |-> t]]
    BY <1>1, <1>3, <1>7, <2>2, <2>5, <2>6, PassOnDoes
  <2> DEFINE x == [id |-> id, report |-> t]
  <2>8. h.slots = [s.slots EXCEPT ![i] = x] /\ x.id = s.slots[i].id
    BY <2>2, <2>7
  <2> HIDE DEF x
  <2>9. Own(h, Given')
    <3>1. Own(h, K)
      BY <1>3, <2>1, <2>8, OwnReport
    <3>2. QED
      BY <1>4, <2>1, <3>1
  <2>10. HasKeyboardGamepad => KbShows(h, ReportOf(kg))
    <3>1. s.slots[i].id # Kb /\ (HasKeyboardGamepad => KbShows(s, ReportOf(kg)))
      BY <1>1, <1>3, <1>7, <2>2
    <3>2. QED
      BY <1>3, <2>8, <3>1, KbShowsStill
  <2>11. QED
    BY <1>2, <1>4, <2>7, <2>9, <2>10, PadActionKeeps
<1>8. QED
  BY <1>6, <1>7

(* The device takes the next message.                                        *)
LEMMA DeviceTakesKeeps ==
    ASSUME Inv, DeviceTakes
    PROVE  Inv' /\ kg' = kg
<1> DEFINE s == Path
           q == queue
           m == Head(q)
           p == Tail(q)
           d == DeviceAfter(device, m)
           h == [s EXCEPT !.queue = p]
<1>1. /\ UNCHANGED <<setup, down, plugged, paused, focused, captured, kg, tick, pads,
                     slots, lost>>
      /\ q # << >> /\ queue' = p /\ device' = d
  BY DEF DeviceTakes, DeviceAfter
<1>2. /\ s \in PathStates /\ device \in Devices /\ AllOneWay(s) /\ Own(s, Given)
      /\ \E e \in Devices : Reaches(device, s.queue, e) /\ Agrees(e, s)
  BY DEF Inv, PathInv, PathOk
<1>3. s.queue = q /\ q \in Seq(Messages)
  <2>1. s.queue = q
    BY DEF Path
  <2> HIDE DEF s, q
  <2>2. QED
    BY <1>2, <2>1 DEF PathStates
<1>4. Path' = h
  BY <1>1 DEF Path
<1>5. focused /\ HasKeyboardGamepad => KbShows(s, ReportOf(kg))
  BY DEF Inv, PathInv
<1> HIDE DEF s, q
<1>6. m \in Messages /\ p \in Seq(Messages) /\ ToSet(p) \subseteq ToSet(q)
  <2>1. /\ Len(q) \in Nat \ {0} /\ m = q[1] /\ p \in Seq(Messages)
        /\ Len(p) = Len(q) - 1 /\ \A n \in 1 .. Len(p) : p[n] = q[n + 1]
    BY <1>1, <1>3
  <2>2. \A n \in 1 .. Len(p) : n + 1 \in 1 .. Len(q)
    BY <2>1
  <2>3. 1 \in 1 .. Len(q)
    BY <2>1
  <2> HIDE DEF p, m
  <2>4. ToSet(p) \subseteq ToSet(q)
    BY <1>3, <2>1, <2>2, InToSet
  <2>5. QED
    BY <1>3, <2>1, <2>3, <2>4
<1> DEFINE D == device
<1>7. PICK e \in Devices : Reaches(D, q, e) /\ Agrees(e, s)
  BY <1>2, <1>3
<1>8. d = DeviceAfter(D, Head(q)) /\ p = Tail(q) /\ D \in Devices
  BY <1>2
<1> HIDE DEF d, D, m, p
<1>9. Reaches(d, p, e)
  BY <1>1, <1>3, <1>7, <1>8, ReachesTail
<1>10. d \in Devices
  <2>1. d = DeviceAfter(D, m)
    BY <1>8 DEF m
  <2>2. QED
    BY <1>6, <1>8, <2>1, DeviceAfterType
<1>11. h \in PathStates /\ h.slots = s.slots /\ h.queue = p /\ h.lost = s.lost
  BY <1>2, <1>6 DEF PathStates
<1> HIDE DEF h
<1>12. PathOk(d, h)
  <2>1. AllOneWay(h)
    BY <1>2, <1>3, <1>6, <1>11 DEF AllOneWay
  <2>2. Agrees(e, h)
    BY <1>7, <1>11 DEF Agrees
  <2>3. QED
    BY <1>9, <1>10, <1>11, <2>1, <2>2 DEF PathOk
<1>13. Own(h, Given) /\ (focused /\ HasKeyboardGamepad => KbShows(h, ReportOf(kg)))
  BY <1>2, <1>5, <1>11 DEF Own, KbShows
<1>14. /\ Given' = Given /\ HasKeyboardGamepad' = HasKeyboardGamepad
       /\ HasMouse' = HasMouse
  BY <1>1 DEF Given, HasKeyboardGamepad, HasMouse, TakesMouse
<1>15. PathInv'
  BY <1>1, <1>4, <1>12, <1>13, <1>14 DEF PathInv
<1>16. WindowInv' /\ PadsInv' /\ KeysInv'
  BY <1>1, <1>14 DEF Inv, WindowInv, PadsInv, KeysInv
<1>17. QED
  BY <1>1, <1>15, <1>16 DEF Inv
-----------------------------------------------------------------------------
(* The invariant is inductive.                                               *)

(* The keyboard gamepad as it is made.                                       *)
LEMMA InitialDoes ==
    ASSUME NEW g, g = InitialGamepad
    PROVE  /\ KInv(g) /\ g.out = << >> /\ Held(g) = {}
           /\ g.moved = FALSE /\ g.mouse = 0 /\ WorkTimed(g)
<1> DEFINE none == << >>
           center == [a \in Axes |-> 0]
           nowhere == [p \in Pads |-> center]
           rest == [p \in Sticks |-> <<0, 0, 0>>]
           zero == [p \in Sticks |-> 0]
           no == [p \in Sticks |-> FALSE]
<1>1. none \in Seq(KeySet) /\ none \in Seq(Events) /\ ToSet(none) = {} /\ Distinct(none)
  BY InToSet DEF Distinct, ToSet
<1>2. nowhere \in [Pads -> [Axes -> -1 .. 1]] /\ \A p \in Pads : nowhere[p] = center
  OBVIOUS
<1>3. /\ rest \in [Sticks -> Positions] /\ zero \in [Sticks -> 0 .. FullCap]
      /\ no \in [Sticks -> BOOLEAN] /\ 0 \in 0 .. Speeds
      /\ \A p \in Sticks : rest[p] = <<0, 0, 0>> /\ zero[p] = 0 /\ no[p] = FALSE
  BY CapsAssumption DEF Positions
<1>4. Centered(center)
  BY DEF Centered
<1>5. g = [held |-> none, dir |-> nowhere, magnitude |-> zero, sent |-> rest,
           ramping |-> no, ticking |-> FALSE, armed |-> FALSE, moved |-> FALSE,
           mouse |-> 0, out |-> none]
  BY DEF InitialGamepad
<1> HIDE DEF none, nowhere, rest, zero, no
<1>6. /\ g \in KgStates /\ g.held = none /\ g.dir = nowhere /\ g.magnitude = zero
      /\ g.sent = rest /\ g.ramping = no /\ g.ticking = FALSE /\ g.armed = FALSE
      /\ g.moved = FALSE /\ g.mouse = 0 /\ g.out = none
  BY <1>1, <1>2, <1>3, <1>5 DEF KgStates
<1>7. Held(g) = {} /\ WheelHeld(g) = {}
  BY <1>1, <1>6 DEF Held, WheelHeld
<1>8. ASSUME NEW p \in Pads PROVE g.dir[p] = PadPoints(g, p)
  <2>1. g.held \in Seq(KeySet)
    BY <1>1, <1>6
  <2>2. Centered(PadPoints(g, p)) /\ PadPoints(g, p) \in [Axes -> -1 .. 1]
    BY <1>7, <2>1, PointsNowhere, PointsType
  <2>3. PadPoints(g, p) = center
    BY <2>2 DEF Centered
  <2>4. QED
    BY <1>2, <1>6, <2>3
<1> HIDE DEF center
<1>9. ASSUME NEW p \in Sticks PROVE StickOk(g, p)
  <2>1. g.dir[p] = center
    BY <1>2, <1>6, PadFacts
  <2>2. Centered(g.dir[p])
    BY <1>4, <2>1
  <2>3. g.sent[p] = StickPosition(g, p)
    BY <1>3, <1>6, <2>2 DEF StickPosition
  <2>4. g.magnitude[p] = 0 /\ ~g.ramping[p]
    BY <1>3, <1>6
  <2>5. QED
    BY <2>2, <2>3, <2>4 DEF StickOk
<1>10. KInv(g)
  BY <1>1, <1>6, <1>8, <1>9 DEF KInv
<1>11. WorkTimed(g)
  BY <1>3, <1>6, <1>7 DEF WorkTimed, Timed
<1>12. QED
  BY <1>6, <1>7, <1>10, <1>11 DEF none

(* The invariant holds to begin with.                                        *)
LEMMA InitInv ==
    ASSUME Init
    PROVE  Inv /\ WorkTimed(kg)
<1>1. WindowInv
  <2>1. captured \in BOOLEAN
    BY DEF Init
  <2>2. QED
    BY <2>1 DEF Init, WindowInv
<1>2. KInv(kg) /\ kg.out = << >> /\ Held(kg) = {} /\ kg.moved = FALSE /\ kg.mouse = 0
      /\ WorkTimed(kg)
  BY InitialDoes DEF Init
<1>3. HoldsWith(kg, down, focused, HasMouse)
  BY <1>2 DEF HoldsWith
<1>4. PadsInv
  <2>1. CASE HasKeyboardGamepad
    <3>1. pads = <<Kb>>
      BY <2>1 DEF Init
    <3>2. pads \in Seq(Ids) /\ Len(pads) = 1 /\ pads[1] = Kb
      BY <3>1, RestFacts
    <3>3. Kb \in ToSet(pads) /\ Distinct(pads)
      BY <3>2, InToSet DEF Distinct
    <3>4. QED
      BY <2>1, <3>2, <3>3, GamepadBoundsAssumption DEF PadsInv
  <2>2. CASE ~HasKeyboardGamepad
    <3>1. pads = << >>
      BY <2>2 DEF Init
    <3>2. pads \in Seq(Ids) /\ Len(pads) = 0
      BY <3>1
    <3>3. \A i \in 1 .. Len(pads) : FALSE
      BY <3>2
    <3>4. Kb \notin ToSet(pads) /\ Distinct(pads)
      <4>1. ToSet(pads) = {}
        BY <3>2, <3>3, InToSet
      <4>2. QED
        BY <3>3, <4>1 DEF Distinct
    <3>5. QED
      BY <2>2, <3>2, <3>4, GamepadBoundsAssumption DEF PadsInv
  <2>3. QED
    BY <2>1, <2>2
<1>5. PathOk(device, Path)
  <2> DEFINE s == Path
             d == device
             none == << >>
             free == [i \in SlotIds |-> FreeSlot]
  <2>1. /\ s = [slots |-> free, queue |-> none, lost |-> {}]
        /\ d = [i \in SlotIds |-> NoPad]
    BY DEF Init, Path
  <2>2. /\ free \in Slots /\ none \in Seq(Messages) /\ ToSet(none) = {}
        /\ \A i \in SlotIds : free[i] = FreeSlot
    BY RestFacts, InToSet DEF Slots, ToSet
  <2>3. d \in Devices /\ \A i \in SlotIds : d[i] = NoPad
    BY <2>1 DEF Devices
  <2>4. Reaches(d, none, d)
    BY <2>3, ReachesNothing
  <2>5. FreeSlot.id = NoPad /\ FreeSlot.report = RestReport
    BY DEF FreeSlot
  <2> HIDE DEF s, d, none, free
  <2>6. s \in PathStates /\ s.slots = free /\ s.queue = none /\ s.lost = {}
    BY <2>1, <2>2 DEF PathStates
  <2>7. AllOneWay(s)
    BY <2>2, <2>5, <2>6, RestFacts DEF AllOneWay
  <2>8. Agrees(d, s)
    BY <2>2, <2>3, <2>5, <2>6 DEF Agrees
  <2>9. PathOk(d, s)
    BY <2>3, <2>4, <2>6, <2>7, <2>8 DEF PathOk
  <2>10. QED
    BY <2>9 DEF d, s
<1>6. Own(Path, Given)
  <2>1. Given = {} /\ \A i \in SlotIds : Path.slots[i].id = NoPad
    BY DEF Init, Given, Path, FreeSlot
  <2>2. QED
    BY <2>1 DEF Own
<1>7. PathInv
  BY <1>5, <1>6 DEF PathInv, Init
<1>8. QED
  BY <1>1, <1>2, <1>3, <1>4, <1>7 DEF Inv, KeysInv

(* Every step keeps it, and the ticks with it.                               *)
LEMMA NextInv ==
    ASSUME Inv, [Next]_vars
    PROVE  Inv' /\ (QuietWheel /\ WorkTimed(kg) => WorkTimed(kg'))
<1>1. CASE DeviceTakes
  BY <1>1, DeviceTakesKeeps
<1>2. ASSUME NEW id \in setup.gamepads, GamepadAdded(id)
      PROVE  Inv' /\ kg' = kg
  BY <1>2, GamepadAddedKeeps
<1>3. ASSUME NEW id \in setup.gamepads, GamepadRemoved(id)
      PROVE  Inv' /\ kg' = kg
  BY <1>3, GamepadRemovedKeeps
<1>4. ASSUME NEW id \in setup.gamepads, NEW b \in BOOLEAN,
             GamepadButton(id, PlainButton("a"), b)
      PROVE  Inv' /\ kg' = kg
  BY <1>4, GamepadButtonKeeps
<1>5. CASE FocusGained
  BY <1>5, FocusGainedKeeps
<1>6. CASE FocusLost
  BY <1>6, FocusLostKeeps
<1>7. CASE LetPointerGo
  BY <1>7, LetPointerGoKeeps
<1>8. CASE CapturePointer \/ TogglePause \/ TimerFires
  BY <1>8, OthersKeep
<1>9. ASSUME NEW k \in setup.keys, Press(k) \/ Release(k) \/ Wheel(k)
      PROVE  Inv' /\ (WorkTimed(kg) => WorkTimed(kg'))
  BY <1>9, PressKeeps, ReleaseKeeps, WheelKeeps
<1>10. CASE Motion
  BY <1>10, MotionKeeps
<1>11. ASSUME NEW step \in TickSteps, NEW due \in SUBSET WheelHeld(kg),
              NEW speed \in TickSpeeds, NEW stopped \in TickStops,
              OnTick(step, due, speed, stopped)
       PROVE  Inv' /\ (QuietWheel /\ WorkTimed(kg) => WorkTimed(kg'))
  BY <1>11, TickKeeps
<1>12. CASE UNCHANGED vars
  <2>1. UNCHANGED <<setup, down, plugged, paused, focused, captured, kg, tick, pads,
                    slots, queue, device, lost>>
    BY <1>12 DEF vars
  <2>2. /\ Path' = Path /\ Given' = Given /\ HasKeyboardGamepad' = HasKeyboardGamepad
        /\ HasMouse' = HasMouse
    BY <2>1 DEF Path, Given, HasKeyboardGamepad, HasMouse, TakesMouse
  <2>3. QED
    BY <2>1, <2>2 DEF Inv, WindowInv, PadsInv, PathInv, KeysInv
<1>13. QED
  BY <1>1, <1>2, <1>3, <1>4, <1>5, <1>6, <1>7, <1>8, <1>9, <1>10, <1>11, <1>12 DEF Next

(* The invariant holds in every behaviour.                                   *)
THEOREM Invariance == Spec => []Inv
<1>1. Init => Inv
  BY InitInv
<1>2. Inv /\ [Next]_vars => Inv'
  BY NextInv
<1>3. QED
  BY <1>1, <1>2, PTL DEF Spec

(* A sequence without repetition has as many elements as places.             *)
LEMMA DistinctCardinality ==
    ASSUME NEW S, NEW q \in Seq(S), Distinct(q)
    PROVE  Cardinality(ToSet(q)) = Len(q)
<1> DEFINE N == Len(q)
           T == ToSet(q)
           f == [i \in 1 .. N |-> q[i]]
<1>1. N \in Nat /\ \A i, j \in 1 .. N : q[i] = q[j] => i = j
  BY DEF Distinct
<1>2. /\ \A i \in 1 .. N : q[i] \in T
      /\ \A e \in T : \E i \in 1 .. N : q[i] = e
  BY InToSet
<1> HIDE DEF N, T
<1>3. f \in [1 .. N -> T] /\ \A i \in 1 .. N : f[i] = q[i]
  BY <1>2
<1> HIDE DEF f
<1>4. f \in Surjection(1 .. N, T)
  BY <1>2, <1>3 DEF Surjection
<1>5. f \in Injection(1 .. N, T)
  BY <1>1, <1>3 DEF Injection, IsInjective
<1>6. IsFiniteSet(1 .. N) /\ Cardinality(1 .. N) = N
  <2>1. 1 \in Int /\ N \in Int
    BY <1>1
  <2>2. IsFiniteSet(1 .. N) /\ Cardinality(1 .. N) = IF 1 > N THEN 0 ELSE N - 1 + 1
    BY <2>1, FS_Interval
  <2>3. QED
    BY <1>1, <2>2
<1>7. Cardinality(T) = Cardinality(1 .. N)
  BY <1>4, <1>5, <1>6, FS_Surjection
<1>8. QED
  BY <1>6, <1>7 DEF N, T

(* The types of all variables: no handler, and no sequence of them, makes    *)
(* anything but a gamepad's state, a slot, a message or a report.            *)
THEOREM TypeCorrect == Spec => []TypeOK
<1>1. ASSUME Inv PROVE TypeOK
  <2>1. /\ setup \in Setups /\ down \subseteq KeySet
        /\ plugged \in [Gamepads -> {"no", "in", "out"}]
        /\ <<paused, focused, captured, tick>>
              \in BOOLEAN \X BOOLEAN \X BOOLEAN \X BOOLEAN
    BY <1>1 DEF Inv, WindowInv
  <2>2. KInv(kg) /\ kg.out = << >> /\ kg \in KgStates /\ Distinct(kg.held)
    BY <1>1 DEF Inv, KeysInv, KInv
  <2>3. /\ kg.held \in Seq(KeySet) /\ kg.dir \in [Pads -> [Axes -> -1 .. 1]]
        /\ kg.magnitude \in [Sticks -> 0 .. FullCap] /\ kg.sent \in [Sticks -> Positions]
        /\ kg.ramping \in [Sticks -> BOOLEAN] /\ kg.mouse \in 0 .. Speeds
        /\ <<kg.ticking, kg.armed, kg.moved>> \in BOOLEAN \X BOOLEAN \X BOOLEAN
    BY <2>2 DEF KgStates
  <2>4. Held(kg) \subseteq KeySet /\ Cardinality(Held(kg)) = Len(kg.held)
    BY <2>2, <2>3, InToSet, DistinctCardinality DEF Held
  <2>5. ToSet(pads) \subseteq Gamepads \cup {Kb} /\ Len(pads) <= MaxGamepads
    BY <1>1, InToSet DEF Inv, PadsInv, Ids
  <2>6. Path \in PathStates /\ device \in Devices
    BY <1>1 DEF Inv, PathInv, PathOk
  <2>7. slots \in Slots /\ queue \in Seq(Messages) /\ lost \in SUBSET SlotIds
    BY <2>6 DEF PathStates, Path
  <2>8. slots \in [SlotIds -> [id : Gamepads \cup {Kb, NoPad}, report : Reports]]
    <3>1. Gamepads \cup {Kb, NoPad} = Ids \cup {NoPad}
      BY DEF Ids
    <3>2. QED
      BY <2>7, <3>1 DEF Slots
  <2>9. \A m \in ToSet(queue) : m \in Messages
    BY <2>7, InToSet
  <2>10. \A i \in SlotIds : device[i] = NoPad \/ device[i] \in Reports
    BY <2>6 DEF Devices
  <2>11. QED
    BY <2>1, <2>2, <2>3, <2>4, <2>5, <2>7, <2>8, <2>9, <2>10 DEF TypeOK, Messages
<1>2. QED
  BY <1>1, Invariance, PTL

(* sc_gamepad_focus: with the focus the device is given every known gamepad  *)
(* once, and without it none, whatever is plugged in or out meanwhile.       *)
THEOREM FocusDecides == Spec => []SlotsFollowFocus
<1>1. ASSUME Inv PROVE SlotsFollowFocus
  <2>1. Own(Path, Given) /\ Given \in SUBSET Ids /\ Given \subseteq ToSet(pads)
    BY <1>1, InToSet DEF Inv, PathInv, PadsInv, Given
  <2>2. ASSUME NEW id \in Gamepads \cup {Kb}
        PROVE  Cardinality(SlotsOf(Path, id)) =
                   IF focused /\ id \in ToSet(pads) THEN 1 ELSE 0
    <3>1. id \in Ids
      BY DEF Ids
    <3>2. /\ id \in Given => \E i \in SlotIds : SlotsOf(Path, id) = {i}
          /\ id \notin Given => SlotsOf(Path, id) = {}
      BY <2>1, <3>1, OwnOf
    <3>3. id \in Given <=> focused /\ id \in ToSet(pads)
      BY DEF Given
    <3>4. QED
      BY <3>2, <3>3, FS_Singleton, FS_EmptySet
  <2>3. \A i \in SlotIds : slots[i].id # NoPad => slots[i].id \in ToSet(pads)
    BY <2>1 DEF Own, Path
  <2>4. QED
    BY <2>2, <2>3 DEF SlotsFollowFocus
<1>2. QED
  BY <1>1, Invariance, PTL

(* Once the queue is empty the device has the gamepads of the slots, and     *)
(* shows their reports unless the last one was dropped by the full queue.    *)
THEOREM DeviceCatchesUp == Spec => []DeviceFollows
<1>1. ASSUME Inv PROVE DeviceFollows
  <2> SUFFICES ASSUME queue = << >>, NEW i \in SlotIds
               PROVE  /\ (device[i] = NoPad) = (slots[i].id = NoPad)
                      /\ slots[i].id # NoPad /\ i \notin lost
                             => device[i] = slots[i].report
    BY DEF DeviceFollows
  <2>1. Path.slots = slots /\ Path.queue = << >> /\ Path.lost = lost
    BY DEF Path
  <2>2. PICK e \in Devices : Reaches(device, << >>, e) /\ Agrees(e, Path)
    BY <1>1, <2>1 DEF Inv, PathInv, PathOk
  <2>3. e = device
    BY <1>1, <2>2, ReachesNothing DEF Inv, PathInv, PathOk
  <2>4. QED
    BY <2>1, <2>2, <2>3 DEF Agrees
<1>2. QED
  BY <1>1, Invariance, PTL

(* No control stays pressed whose key the user has let go of, wherever its   *)
(* release went.                                                             *)
THEOREM ReleasesAreNotLost == Spec => []NothingStuck
<1>1. ASSUME Inv PROVE NothingStuck
  BY <1>1 DEF Inv, KeysInv, HoldsWith, NothingStuck
<1>2. QED
  BY <1>1, Invariance, PTL

(* The events of all the handlers, each of which sends only what it changed, *)
(* add up to what the held keys say.                                         *)
THEOREM ReportsAddUp == Spec => []SlotShowsKeys
<1>1. ASSUME Inv PROVE SlotShowsKeys
  <2>1. KInv(kg) /\ kg \in KgStates
    BY <1>1 DEF Inv, KeysInv, KInv
  <2>2. /\ kg.sent \in [Sticks -> Positions]
        /\ \A p \in Pads : kg.dir[p] = PadPoints(kg, p)
        /\ \A p \in Sticks : kg.sent[p] = StickPosition(kg, p)
    BY <2>1 DEF KInv, KgStates, StickOk
  <2> DEFINE B == ButtonsOf(Held(kg))
             D == DpadShown(kg.dir["dpad"])
             T == [p \in Sticks |->
                     LET d == PadPoints(kg, p) IN
                     IF Centered(d)
                     THEN <<0, 0, IF p = MousePad THEN kg.mouse ELSE 0>>
                     ELSE <<d["x"], d["y"], kg.magnitude[p]>>]
  <2>3. D = {b \in DpadButtons : PadDirection(kg, "dpad", b[1]) = b[2]}
    <3>1. \A a \in Axes : kg.dir["dpad"][a] = PadDirection(kg, "dpad", a)
      BY <2>2, PadFacts DEF PadPoints
    <3>2. QED
      BY <3>1, DpadFacts DEF DpadShown
  <2>4. T = kg.sent
    <3>1. \A p \in Sticks : T[p] = StickPosition(kg, p)
      BY <2>2, PadFacts DEF StickPosition
    <3> HIDE DEF T
    <3>2. T = [p \in Sticks |-> T[p]] /\ kg.sent = [p \in Sticks |-> kg.sent[p]]
      BY <2>2 DEF T
    <3>3. QED
      BY <2>2, <3>1, <3>2
  <2>5. Expected = [buttons |-> B \cup D, stick |-> T]
    BY <2>3 DEF Expected, ButtonsOf
  <2> HIDE DEF B, D, T
  <2>6. Expected = ReportOf(kg)
    BY <2>4, <2>5 DEF ReportOf, B, D
  <2>7. focused /\ HasKeyboardGamepad
           => \E i \in SlotIds : slots[i] = [id |-> Kb, report |-> ReportOf(kg)]
    BY <1>1 DEF Inv, PathInv, KbShows, Path
  <2>8. QED
    BY <2>6, <2>7 DEF SlotShowsKeys
<1>2. QED
  BY <1>1, Invariance, PTL

(* No report that was ever sent points the D-pad both ways: a direction is   *)
(* released before the opposite one is pressed.                              *)
THEOREM OneWayOnly == Spec => []NeverTwoWays
<1>1. ASSUME Inv PROVE NeverTwoWays
  <2>1. \A m \in ToSet(Path.queue) : OneWay(m.report)
    BY <1>1 DEF Inv, PathInv, PathOk, AllOneWay
  <2>2. Path.queue = queue
    BY DEF Path
  <2>3. QED
    BY <2>1, <2>2 DEF OneWay, NeverTwoWays
<1>2. QED
  BY <1>1, Invariance, PTL

(* If no notch of the wheel pushes a stick when it ends, the ticks come as   *)
(* long as they have anything to do.                                         *)
THEOREM TicksCome == ASSUME QuietWheel PROVE Spec => []WorkIsTimed
<1>1. Init => Inv /\ WorkTimed(kg)
  BY InitInv
<1>2. Inv /\ WorkTimed(kg) /\ [Next]_vars => (Inv /\ WorkTimed(kg))'
  BY QuietWheel, NextInv
<1>3. WorkTimed(kg) => WorkIsTimed
  BY DEF WorkTimed, Timed, WorkIsTimed, TickWork
<1>4. QED
  BY <1>1, <1>2, <1>3, PTL DEF Spec

(* Then also what keyboard_gamepad.h promises of a ramp: without ticks to    *)
(* come, every pushed stick is as far out as its keys push it.               *)
THEOREM SticksArrive == ASSUME QuietWheel PROVE Spec => []StickReachesTarget
<1>1. Init => Inv /\ WorkTimed(kg)
  BY InitInv
<1>2. Inv /\ WorkTimed(kg) /\ [Next]_vars => (Inv /\ WorkTimed(kg))'
  BY QuietWheel, NextInv
<1>3. Inv /\ WorkTimed(kg) => StickReachesTarget
  <2> SUFFICES ASSUME Inv, WorkTimed(kg), ~kg.armed, NEW p \in Sticks,
                      ~Centered(kg.dir[p])
               PROVE  kg.magnitude[p] = StickCap(kg)
    BY DEF StickReachesTarget
  <2>1. StickOk(kg, p)
    BY DEF Inv, KeysInv, KInv
  <2>2. ~kg.ramping[p]
    BY DEF WorkTimed, Timed
  <2>3. QED
    BY <2>1, <2>2 DEF StickOk
<1>4. QED
  BY <1>1, <1>2, <1>3, PTL DEF Spec
=============================================================================
