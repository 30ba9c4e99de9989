---------------------------- MODULE RawSlotsProofs ----------------------------
(* The slots of RawFrames: each one in use has one holder, and nobody writes *)
(* into a slot the console may read; for every number of slots, frames,      *)
(* connections, window changes and every set of frame sizes.                 *)
EXTENDS RawFramesProofs

(* Who has slot s of memory m: the copy of OnFrame, the latest frame before  *)
(* it is sent, the client thread before its notice is, a notice on the wire, *)
(* a frame of the console, an IKAR on its way to the server.                 *)
CopyHas(m, s) == prod.pc = "slot" /\ prod.map = m /\ prod.slot = s
LatestHas(m, s) == /\ latest.slot = s /\ s # NoSlot /\ ~latest.sent
                   /\ shm.map = m
ThreadHas(m, s) == /\ th.pc = "notify" /\ shm.gen # 0
                   /\ th.map = m /\ th.slot = s
NoticeHas(i, m, s) ==
    /\ i \in 1 .. Len(toClient) /\ toClient[i].magic = "IKAN"
    /\ toClient[i].map = m /\ toClient[i].slot = s /\ mem[m].gen # 0
RefHas(r, m, s) == r.map = m /\ m # 0 /\ r.slot = s
ReleaseHas(i, m, s) ==
    /\ i \in 1 .. Len(toServer) /\ toServer[i].magic = "IKAR"
    /\ toServer[i].slot = s /\ m \in 1 .. Len(mem) /\ mem[m].ses = ses
    /\ mem[m].gen = toServer[i].gen /\ mem[m].gen # 0

(* A holder is its kind and, for the messages, its place.                    *)
Has(k, i, m, s) ==
    \/ k = "copy" /\ i = 0 /\ CopyHas(m, s)
    \/ k = "latest" /\ i = 0 /\ LatestHas(m, s)
    \/ k = "thread" /\ i = 0 /\ ThreadHas(m, s)
    \/ k = "notice" /\ NoticeHas(i, m, s)
    \/ k = "pending" /\ i = 0 /\ RefHas(cl.pending, m, s)
    \/ k = "screen" /\ i = 0 /\ RefHas(cl.screen, m, s)
    \/ k = "resume" /\ i = 0 /\ RefHas(cl.resume, m, s)
    \/ k = "release" /\ ReleaseHas(i, m, s)

(* A slot has one holder.                                                    *)
Exclusive ==
    \A m, s, k, i, l, j : Has(k, i, m, s) /\ Has(l, j, m, s) => k = l /\ i = j

(* The slots that have one are busy; with a live console, no others are.     *)
Covered == shm.gen # 0 => \A s, k, i : Has(k, i, shm.map, s) => s \in shm.busy
Accounted ==
    shm.gen # 0 /\ conn = "open" =>
        \A s \in shm.busy : \E k, i : Has(k, i, shm.map, s)

(* Nobody has a slot of a memory the client does not use yet.                *)
Unused == th.pc = "remap" => \A s, k, i : ~Has(k, i, Len(mem), s)

(* The generations of one connection go up, and an IKAR is about one of them.*)
Generations ==
    /\ \A a \in 1 .. Len(mem) : mem[a].ses <= ses
    /\ \A a, b \in 1 .. Len(mem) :
          mem[a].ses = mem[b].ses /\ mem[a].gen = mem[b].gen /\ mem[a].gen # 0
             => a = b
    /\ \A a \in 1 .. Len(mem) :
          mem[a].ses = ses => \/ mem[a].gen <= shm.lastGen
                              \/ th.pc = "remap" /\ a = Len(mem)
    /\ \A i \in 1 .. Len(toServer) :
          toServer[i].magic = "IKAR" => toServer[i].gen \in 1 .. shm.lastGen

(* A frame in a slot is a raw one, and once sent it is not sent again.       *)
LatestInSlot ==
    latest.slot # NoSlot => /\ latest.type = "raw"
                            /\ latest.sent => th.sentGen = frameGen

(* The inductive invariant of the slots.                                     *)
SlotInv == /\ IInv /\ Exclusive /\ Covered /\ Accounted /\ Unused
           /\ Generations /\ LatestInSlot
-----------------------------------------------------------------------------
(* A notice is about a slot of a memory that exists.                         *)
LEMMA NoticeMemory ==
    ASSUME IInv, NEW i \in 1 .. Len(toClient), toClient[i].magic = "IKAN"
    PROVE  toClient[i].map \in 1 .. Len(mem) /\ toClient[i].slot \in Slots
<1>1. /\ toClient \in Seq(ToClientMessages) /\ cl.map \in Nat
      /\ cl.map <= Len(mem) /\ Len(mem) \in Nat
  BY DEF IInv, TypeOK, ConsoleMapped, ConsoleStates
<1>2. toClient[i].slot \in Slots
  <2>1. toClient[i] \in ToClientMessages
    BY <1>1
  <2>2. QED
    BY <2>1 DEF ToClientMessages
<1>3. /\ toClient[i].map \in Nat \ {0}
      /\ \/ toClient[i].map = cl.map
         \/ \E j \in 1 .. Len(toClient) :
               IsInit(toClient[j]) /\ toClient[j].map = toClient[i].map
  BY DEF IInv, WireOrder, Ordered, NoticesAnnounced, IsNotice
<1>4. \A j \in 1 .. Len(toClient) :
         IsInit(toClient[j]) => toClient[j].map \in (cl.map + 1) .. Len(mem)
  BY DEF IInv, WireOrder, Ordered, InitsToCome
<1>5. QED
  BY <1>1, <1>2, <1>3, <1>4

(* What a holder has is a slot of a memory that exists, and whose slots are  *)
(* released.                                                                 *)
LEMMA HolderMemory ==
    ASSUME IInv, NEW k, NEW i, NEW m, NEW s, Has(k, i, m, s)
    PROVE  m \in 1 .. Len(mem) /\ s \in Slots /\ mem[m].gen # 0 /\ i \in Nat
<1> USE DEF IInv
<1>0. /\ shm \in ShmStates /\ latest \in Frames /\ cl \in ConsoleStates
      /\ Len(mem) \in Nat /\ toServer \in Seq(ToServerMessages)
      /\ toClient \in Seq(ToClientMessages)
  BY DEF TypeOK
<1>1. CASE CopyHas(m, s) /\ i = 0
  BY <1>1 DEF CopyHas, ServerMapped
<1>2. shm.gen # 0 => shm.map \in 1 .. Len(mem) /\ mem[shm.map].gen # 0
  BY <1>0 DEF ServerMapped, ShmStates
<1>3. CASE LatestHas(m, s) /\ i = 0
  BY <1>0, <1>2, <1>3 DEF LatestHas, ServerMapped, Frames
<1>4. CASE ThreadHas(m, s) /\ i = 0
  BY <1>2, <1>4 DEF ThreadHas, ThreadMapped
<1>5. CASE NoticeHas(i, m, s)
  <2>1. i \in 1 .. Len(toClient) /\ Len(toClient) \in Nat
    BY <1>0, <1>5 DEF NoticeHas
  <2>2. QED
    BY <1>5, <2>1, NoticeMemory DEF NoticeHas
<1>6. ASSUME NEW r \in Refs, RefMapped(r), RefHas(r, m, s)
      PROVE  m \in 1 .. Len(mem) /\ s \in Slots /\ mem[m].gen # 0
  BY <1>0, <1>6 DEF RefHas, RefMapped, Refs
<1>7. cl.pending \in Refs /\ cl.screen \in Refs /\ cl.resume \in Refs
  BY <1>0 DEF ConsoleStates
<1>8. CASE ReleaseHas(i, m, s)
  <2>1. /\ i \in 1 .. Len(toServer) /\ Len(toServer) \in Nat
        /\ toServer[i] \in ToServerMessages /\ toServer[i].magic = "IKAR"
    BY <1>0, <1>8 DEF ReleaseHas
  <2>2. QED
    BY <1>8, <2>1 DEF ReleaseHas, ToServerMessages
<1>9. QED
  BY <1>1, <1>3, <1>4, <1>5, <1>6, <1>7, <1>8 DEF Has, ConsoleMapped
-----------------------------------------------------------------------------
(* What the parts of a step do to the holders.                               *)

SameCopy == \A m, s : CopyHas(m, s)' <=> CopyHas(m, s)
SameLatest == \A m, s : LatestHas(m, s)' <=> LatestHas(m, s)
SameThread == \A m, s : ThreadHas(m, s)' <=> ThreadHas(m, s)
SameNotices == \A i, m, s : NoticeHas(i, m, s)' <=> NoticeHas(i, m, s)
SameReleases == \A i, m, s : ReleaseHas(i, m, s)' <=> ReleaseHas(i, m, s)
SameRefs == /\ \A m, s : RefHas(cl.pending, m, s)' <=> RefHas(cl.pending, m, s)
            /\ \A m, s : RefHas(cl.screen, m, s)' <=> RefHas(cl.screen, m, s)
            /\ \A m, s : RefHas(cl.resume, m, s)' <=> RefHas(cl.resume, m, s)

LEMMA SameParts ==
    /\ prod' = prod => SameCopy
    /\ latest' = latest /\ shm'.map = shm.map => SameLatest
    /\ th' = th /\ shm'.gen = shm.gen => SameThread
    /\ cl' = cl => SameRefs
<1>1. prod' = prod => SameCopy
  BY DEF SameCopy, CopyHas
<1>2. latest' = latest /\ shm'.map = shm.map => SameLatest
  BY DEF SameLatest, LatestHas
<1>3. th' = th /\ shm'.gen = shm.gen => SameThread
  BY DEF SameThread, ThreadHas
<1>4. cl' = cl => SameRefs
  BY DEF SameRefs, RefHas
<1>5. QED
  BY <1>1, <1>2, <1>3, <1>4

(* Notices stay as they are while memories are written and added.            *)
LEMMA KeptNotices ==
    ASSUME IInv, MemKept, toClient' = toClient
    PROVE  SameNotices
<1> SUFFICES ASSUME NEW i, NEW m, NEW s
             PROVE  NoticeHas(i, m, s)' <=> NoticeHas(i, m, s)
  BY DEF SameNotices
<1>1. ASSUME i \in 1 .. Len(toClient), toClient[i].magic = "IKAN",
             toClient[i].map = m
      PROVE  mem'[m].gen = mem[m].gen
  BY <1>1, NoticeMemory DEF MemKept
<1>2. QED
  BY <1>1 DEF NoticeHas

(* The console takes the first message.                                      *)
LEMMA TakenNotice ==
    ASSUME IInv, mem' = mem, toClient # << >>, toClient' = Tail(toClient)
    PROVE  \A i, m, s : NoticeHas(i, m, s)' <=>
                        i \in Nat \ {0} /\ NoticeHas(i + 1, m, s)
<1>1. /\ Len(toClient) \in Nat \ {0} /\ Len(toClient') = Len(toClient) - 1
      /\ \A j \in 1 .. Len(toClient') : toClient'[j] = toClient[j + 1]
  BY SeqTail DEF IInv, TypeOK
<1> SUFFICES ASSUME NEW i, NEW m, NEW s
             PROVE  NoticeHas(i, m, s)' <=>
                    i \in Nat \ {0} /\ NoticeHas(i + 1, m, s)
  OBVIOUS
<1>2. i \in 1 .. Len(toClient') <=>
          i \in Nat \ {0} /\ i + 1 \in 1 .. Len(toClient)
  BY <1>1
<1>3. i \in 1 .. Len(toClient') => toClient'[i] = toClient[i + 1]
  BY <1>1
<1>4. QED
  BY <1>2, <1>3 DEF NoticeHas

(* The server sends a message.                                               *)
LEMMA SentNotice ==
    ASSUME IInv, MemKept, NEW e \in ToClientMessages,
           toClient' = Append(toClient, e)
    PROVE  \A i, m, s : NoticeHas(i, m, s)' <=>
               \/ NoticeHas(i, m, s)
               \/ /\ i = Len(toClient) + 1 /\ e.magic = "IKAN"
                  /\ e.map = m /\ e.slot = s /\ mem'[m].gen # 0
<1>1. /\ Len(toClient) \in Nat /\ Len(toClient') = Len(toClient) + 1
      /\ toClient'[Len(toClient) + 1] = e
      /\ \A j \in 1 .. Len(toClient) : toClient'[j] = toClient[j]
  BY SeqAppend DEF IInv, TypeOK
<1> SUFFICES ASSUME NEW i, NEW m, NEW s
             PROVE  NoticeHas(i, m, s)' <=>
                       \/ NoticeHas(i, m, s)
                       \/ /\ i = Len(toClient) + 1 /\ e.magic = "IKAN"
                          /\ e.map = m /\ e.slot = s /\ mem'[m].gen # 0
  OBVIOUS
<1>2. ASSUME i \in 1 .. Len(toClient), toClient[i].magic = "IKAN",
             toClient[i].map = m
      PROVE  mem'[m].gen = mem[m].gen
  BY <1>2, NoticeMemory DEF MemKept
<1>3. i \in 1 .. Len(toClient') <=>
          i \in 1 .. Len(toClient) \/ i = Len(toClient) + 1
  BY <1>1
<1>4. ~(Len(toClient) + 1 \in 1 .. Len(toClient))
  BY <1>1
<1>5. QED
  BY <1>1, <1>2, <1>3, <1>4 DEF NoticeHas

(* Releases stay as they are while memories are written.                     *)
LEMMA KeptReleases ==
    ASSUME IInv, MemKept, Len(mem') = Len(mem), ses' = ses, toServer' = toServer
    PROVE  SameReleases
  BY DEF SameReleases, ReleaseHas, MemKept

(* The client thread reads the first message.                                *)
LEMMA TakenRelease ==
    ASSUME IInv, mem' = mem, ses' = ses, toServer # << >>,
           toServer' = Tail(toServer)
    PROVE  \A i, m, s : ReleaseHas(i, m, s)' <=>
                        i \in Nat \ {0} /\ ReleaseHas(i + 1, m, s)
<1>1. /\ Len(toServer) \in Nat \ {0} /\ Len(toServer') = Len(toServer) - 1
      /\ \A j \in 1 .. Len(toServer') : toServer'[j] = toServer[j + 1]
  BY SeqTail DEF IInv, TypeOK
<1> SUFFICES ASSUME NEW i, NEW m, NEW s
             PROVE  ReleaseHas(i, m, s)' <=>
                    i \in Nat \ {0} /\ ReleaseHas(i + 1, m, s)
  OBVIOUS
<1>2. i \in 1 .. Len(toServer') <=>
          i \in Nat \ {0} /\ i + 1 \in 1 .. Len(toServer)
  BY <1>1
<1>3. i \in 1 .. Len(toServer') => toServer'[i] = toServer[i + 1]
  BY <1>1
<1>4. QED
  BY <1>2, <1>3 DEF ReleaseHas

(* The console drops a frame: its slot is on its way back, if the connection *)
(* the slot came by is open.                                                 *)
LEMMA SentRelease ==
    ASSUME SlotInv, NEW r \in Refs, RefMapped(r), mem' = mem, ses' = ses,
           toServer' = toServer \o Releases(r)
    PROVE  \A i, m, s : ReleaseHas(i, m, s)' <=>
               \/ ReleaseHas(i, m, s)
               \/ /\ i = Len(toServer) + 1 /\ RefHas(r, m, s)
                  /\ mem[m].ses = ses /\ conn = "open"
<1> DEFINE n == Len(toServer)
<1>0. /\ toServer \in Seq(ToServerMessages) /\ n \in Nat /\ TypeOK
      /\ r.map \in Nat
  BY DEF SlotInv, IInv, TypeOK, Refs
<1>1. CASE ~(r.map # 0 /\ mem[r.map].ses = ses /\ conn = "open")
  <2>1. toServer' = toServer
    BY <1>0, <1>1 DEF Releases, CanSend
  <2>2. SameReleases
    BY <2>1 DEF SameReleases, ReleaseHas
  <2>3. QED
    BY <1>1, <2>2 DEF SameReleases, RefHas
<1>2. CASE r.map # 0 /\ mem[r.map].ses = ses /\ conn = "open"
  <2>1. r.map \in 1 .. Len(mem) /\ mem[r.map].gen # 0 /\ r.slot \in Slots
    BY <1>0, <1>2 DEF RefMapped, SlotInv, IInv, TypeOK
  <2> DEFINE e == IKAR(mem[r.map].gen, r.slot)
  <2>2. Releases(r) = <<e>>
    BY <1>2, <2>1 DEF Releases, CanSend
  <2>3. /\ e.magic = "IKAR" /\ e.gen = mem[r.map].gen /\ e.slot = r.slot
    BY DEF IKAR
  <2> HIDE DEF e
  <2>4. /\ Len(toServer') = n + 1 /\ toServer'[n + 1] = e
        /\ \A j \in 1 .. n : toServer'[j] = toServer[j]
    BY <1>0, <2>2
  <2> SUFFICES ASSUME NEW i, NEW m, NEW s
               PROVE  ReleaseHas(i, m, s)' <=>
                        \/ ReleaseHas(i, m, s)
                        \/ i = n + 1 /\ RefHas(r, m, s)
                           /\ mem[m].ses = ses /\ conn = "open"
    OBVIOUS
  <2>5. /\ i \in 1 .. Len(toServer') <=> i \in 1 .. n \/ i = n + 1
        /\ ~(n + 1 \in 1 .. n)
    BY <1>0, <2>4
  <2>6. m \in 1 .. Len(mem) /\ mem[m].ses = ses /\ mem[m].gen = mem[r.map].gen
            /\ mem[m].gen # 0 <=> m = r.map
    BY <1>2, <2>1 DEF SlotInv, Generations
  <2>7. CASE i = n + 1
    BY <1>2, <2>1, <2>3, <2>4, <2>5, <2>6, <2>7 DEF ReleaseHas, RefHas
  <2>8. CASE i # n + 1
    BY <2>4, <2>5, <2>8 DEF ReleaseHas
  <2>9. QED
    BY <2>7, <2>8
<1>3. QED
  BY <1>1, <1>2
(* A message that is no IKAR.                                                *)
LEMMA SentOther ==
    ASSUME IInv, mem' = mem, ses' = ses, NEW e, e.magic # "IKAR",
           toServer' = Append(toServer, e)
    PROVE  SameReleases
<1>1. /\ Len(toServer) \in Nat /\ Len(toServer') = Len(toServer) + 1
      /\ toServer'[Len(toServer) + 1] = e
      /\ \A j \in 1 .. Len(toServer) : toServer'[j] = toServer[j]
  BY DEF IInv, TypeOK
<1> SUFFICES ASSUME NEW i, NEW m, NEW s
             PROVE  ReleaseHas(i, m, s)' <=> ReleaseHas(i, m, s)
  BY DEF SameReleases
<1>2. i \in 1 .. Len(toServer') <=>
          i \in 1 .. Len(toServer) \/ i = Len(toServer) + 1
  BY <1>1
<1>3. QED
  BY <1>1, <1>2 DEF ReleaseHas
-----------------------------------------------------------------------------
(* What is kept of the slots.                                                *)
SlotsKept == Exclusive /\ Covered /\ Accounted /\ Unused

SameShm == shm'.map = shm.map /\ shm'.gen = shm.gen /\ shm'.busy = shm.busy
SameRemap == th'.pc = "remap" => th.pc = "remap" /\ Len(mem') = Len(mem)

(* A step that moves no slot.                                                *)
LEMMA SameHolders ==
    ASSUME SlotInv, SameCopy, SameLatest, SameThread, SameNotices, SameReleases,
           SameRefs, SameShm, SameRemap, conn' = "open" => conn = "open"
    PROVE  SlotsKept'
<1>1. \A k, i, m, s : Has(k, i, m, s)' <=> Has(k, i, m, s)
  BY DEF Has, SameCopy, SameLatest, SameThread, SameNotices, SameReleases,
         SameRefs
<1>2. Exclusive'
  BY <1>1 DEF Exclusive, SlotInv
<1>3. Covered'
  BY <1>1 DEF Covered, SlotInv, SameShm
<1>4. Accounted'
  BY <1>1 DEF Accounted, SlotInv, SameShm
<1>5. Unused'
  BY <1>1 DEF Unused, SlotInv, SameRemap
<1>6. QED
  BY <1>2, <1>3, <1>4, <1>5 DEF SlotsKept

(* The latest frame is replaced by one in no slot.                           *)
LEMMA ReplacedLatest ==
    ASSUME SlotInv, SameCopy, SameThread, SameNotices, SameReleases, SameRefs,
           NEW f, ReplaceLatestFrame(f), f.slot = NoSlot, th' = th, mem' = mem,
           conn' = conn
    PROVE  SlotsKept'
<1>1. /\ shm'.map = shm.map /\ shm'.gen = shm.gen
      /\ shm'.busy = shm.busy \ {s \in {latest.slot} : s # NoSlot /\ ~latest.sent}
  <2>1. shm \in ShmStates
    BY DEF SlotInv, IInv, TypeOK
  <2>2. /\ shm'.map = shm.map /\ shm'.gen = shm.gen
        /\ shm'.busy = BusyAfterReplace(f)
    BY <2>1 DEF ReplaceLatestFrame, ShmStates
  <2>3. CASE latest.slot # NoSlot /\ ~latest.sent
    BY <2>2, <2>3 DEF BusyAfterReplace
  <2>4. CASE ~(latest.slot # NoSlot /\ ~latest.sent)
    BY <2>2, <2>4 DEF BusyAfterReplace
  <2>5. QED
    BY <2>3, <2>4
<1>2. \A m, s : ~LatestHas(m, s)'
  BY DEF LatestHas, ReplaceLatestFrame
<1>3. \A k, i, m, s : Has(k, i, m, s)' <=> Has(k, i, m, s) /\ k # "latest"
  BY <1>2 DEF Has, SameCopy, SameThread, SameNotices, SameReleases, SameRefs
<1>4. \A s : s \in shm.busy \ shm'.busy <=>
                s \in shm.busy /\ Has("latest", 0, shm.map, s)
  BY <1>1 DEF Has, LatestHas
<1>5. Exclusive'
  BY <1>3 DEF Exclusive, SlotInv
<1>6. Covered'
  BY <1>1, <1>3, <1>4 DEF Covered, Exclusive, SlotInv
<1>7. Accounted'
  <2> SUFFICES ASSUME shm.gen # 0, conn = "open", NEW s \in shm'.busy
               PROVE  \E k, i : Has(k, i, shm.map, s)'
    BY <1>1 DEF Accounted
  <2>1. PICK k, i : Has(k, i, shm.map, s)
    BY <1>1 DEF Accounted, SlotInv
  <2>2. k = "latest" => i = 0
    BY <2>1 DEF Has
  <2>3. k # "latest"
    BY <1>1, <1>4, <2>1, <2>2
  <2>4. QED
    BY <1>1, <1>3, <2>1, <2>3
<1>8. Unused'
  BY <1>3 DEF Unused, SlotInv
<1>9. QED
  BY <1>5, <1>6, <1>7, <1>8 DEF SlotsKept

(* A free slot is taken, by the copy of OnFrame or by the client thread.     *)
LEMMA TakenSlot ==
    ASSUME SlotInv, NEW f \in Slots \ shm.busy, shm' = TakeSlot(f),
           shm.gen # 0, NEW taker \in {"copy", "thread"},
           \A k, i, m, s : Has(k, i, m, s)' <=>
               \/ Has(k, i, m, s)
               \/ k = taker /\ i = 0 /\ m = shm.map /\ s = f,
           th'.pc = "remap" => th.pc = "remap", Len(mem') = Len(mem),
           conn' = conn
    PROVE  SlotsKept'
<1>1. /\ shm'.map = shm.map /\ shm'.gen = shm.gen
      /\ shm'.busy = shm.busy \cup {f}
  BY TakeSlotFields DEF SlotInv, IInv
<1>2. \A k, i : ~Has(k, i, shm.map, f)
  BY DEF SlotInv, Covered
<1>3. Exclusive'
  BY <1>2 DEF SlotInv, Exclusive
<1>4. Covered'
  BY <1>1 DEF SlotInv, Covered
<1>5. Accounted'
  BY <1>1 DEF SlotInv, Accounted
<1>6. Unused'
  BY DEF SlotInv, IInv, Unused, ThreadMapped, TypeOK, ShmStates
<1>7. QED
  BY <1>3, <1>4, <1>5, <1>6 DEF SlotsKept

(* The steps of the Wayland server thread.                                   *)
LEMMA WaylandSlots ==
    ASSUME SlotInv, WaylandThread
    PROVE  SlotsKept'
<1>0. /\ IInv /\ TypeOK /\ MemKept /\ Len(mem') = Len(mem) /\ SameRemap
      /\ UNCHANGED <<th, cl, toClient, toServer, ses, conn>>
  <2>1. UNCHANGED <<th, cl, toClient, toServer, ses, conn>> /\ ~SendShmInit
    BY DEF WaylandThread, OnFrameReserve, OnFramePublish, OnDmabufFrame, link,
           console, SendShmInit, SlotInv, IInv, TypeOK, ThreadStates
  <2>2. MemKept /\ Len(mem') = Len(mem)
    BY <2>1, MemStep DEF SlotInv, Next
  <2>3. QED
    BY <2>1, <2>2 DEF SlotInv, IInv, SameRemap
<1>1. /\ SameNotices /\ SameReleases /\ SameRefs
      /\ prod' = prod => SameCopy
      /\ latest' = latest /\ shm'.map = shm.map => SameLatest
      /\ shm'.gen = shm.gen => SameThread
  BY <1>0, KeptNotices, KeptReleases, SameParts
<1>2. shm \in ShmStates /\ latest \in Frames
  BY <1>0 DEF TypeOK
<1>3. ASSUME NEW size \in Sizes, OnFrameReserve(size)
      PROVE  SlotsKept'
  <2>1. prod.pc = "idle" /\ latest' = latest /\ \A m, s : ~CopyHas(m, s)
    BY <1>3 DEF OnFrameReserve, CopyHas
  <2>2. CASE ~suppress /\ CanReserve(size)
    <3> DEFINE f == FirstFree
    <3>1. f \in Slots \ shm.busy /\ shm.gen # 0
      BY <1>0, <2>2, FirstFreeIsFree DEF CanReserve
    <3>2. /\ shm' = TakeSlot(f)
          /\ prod' = [pc |-> "slot", map |-> shm.map, slot |-> f, size |-> size]
      BY <1>3, <2>2 DEF OnFrameReserve
    <3> HIDE DEF f
    <3>3. shm'.map = shm.map /\ shm'.gen = shm.gen
      BY <1>0, <3>2, TakeSlotFields
    <3>4. \A m, s : CopyHas(m, s)' <=> m = shm.map /\ s = f
      BY <3>2 DEF CopyHas
    <3>5. \A k, i, m, s : Has(k, i, m, s)' <=>
              \/ Has(k, i, m, s)
              \/ k = "copy" /\ i = 0 /\ m = shm.map /\ s = f
      BY <1>1, <2>1, <3>3, <3>4
      DEF Has, SameLatest, SameThread, SameNotices, SameReleases, SameRefs
    <3>6. QED
      BY <1>0, <3>1, <3>2, <3>5, TakenSlot
  <2>3. CASE ~(~suppress /\ CanReserve(size))
    <3>1. shm' = shm /\ (prod' = prod \/ prod'.pc = "buffer")
      BY <1>3, <2>3 DEF OnFrameReserve, IdleProd
    <3>2. SameCopy
      BY <1>1, <2>1, <3>1 DEF SameCopy, CopyHas
    <3>3. QED
      BY <1>0, <1>1, <2>1, <3>1, <3>2, SameHolders DEF SameShm
  <2>4. QED
    BY <2>2, <2>3
<1>4. ASSUME NEW size \in Sizes, OnDmabufFrame(size)
      PROVE  SlotsKept'
  <2> DEFINE f == [EmptyFrame EXCEPT !.type = "dmabuf", !.id = drawn + 1,
                                     !.size = size, !.pix = drawn + 1]
  <2>1. ReplaceLatestFrame(f) /\ prod' = prod /\ mem' = mem
    BY <1>4 DEF OnDmabufFrame
  <2>2. f.slot = NoSlot
    BY DEF EmptyFrame
  <2> HIDE DEF f
  <2>3. shm'.gen = shm.gen
    BY <1>2, <2>1 DEF ReplaceLatestFrame, ShmStates
  <2>4. QED
    BY <1>0, <1>1, <2>1, <2>2, <2>3, ReplacedLatest
<1>5. CASE OnFramePublish
  <2>1. prod.pc \in {"slot", "buffer"} /\ \A m, s : ~CopyHas(m, s)'
    BY <1>0, <1>5 DEF OnFramePublish, IdleProd, CopyHas, TypeOK, ProdStates
  <2>2. CASE prod.pc = "buffer"
    <3> DEFINE f == RawFrame(NoSlot, drawn)
    <3>1. ReplaceLatestFrame(f) /\ mem' = mem
      BY <1>5, <2>2 DEF OnFramePublish
    <3>2. f.slot = NoSlot
      BY DEF RawFrame
    <3> HIDE DEF f
    <3>3. shm'.gen = shm.gen
      BY <1>2, <3>1 DEF ReplaceLatestFrame, ShmStates
    <3>4. SameCopy
      BY <2>1, <2>2 DEF SameCopy, CopyHas
    <3>5. QED
      BY <1>0, <1>1, <3>1, <3>2, <3>3, <3>4, ReplacedLatest
  <2>3. CASE prod.pc = "slot" /\ shm.map # prod.map
    <3>1. shm' = shm /\ latest' = latest
      BY <1>5, <2>3 DEF OnFramePublish
    <3>2. \A k, i, m, s : Has(k, i, m, s)' <=> Has(k, i, m, s) /\ k # "copy"
      BY <1>1, <2>1, <3>1
      DEF Has, SameLatest, SameThread, SameNotices, SameReleases, SameRefs
    <3>3. \A k, i, s : Has(k, i, shm.map, s) => k # "copy"
      BY <2>3 DEF Has, CopyHas
    <3>4. Exclusive'
      BY <3>2 DEF SlotInv, Exclusive
    <3>5. Covered' /\ Accounted'
      BY <1>0, <3>1, <3>2, <3>3 DEF SlotInv, Covered, Accounted
    <3>6. Unused'
      BY <1>0, <3>2 DEF SlotInv, Unused
    <3>7. QED
      BY <3>4, <3>5, <3>6 DEF SlotsKept
  <2>4. CASE prod.pc = "slot" /\ shm.map = prod.map
    <3> DEFINE f == RawFrame(prod.slot, NoFrame)
    <3>1. ReplaceLatestFrame(f)
      BY <1>5, <2>4 DEF OnFramePublish
    <3>2. /\ f.slot = prod.slot /\ f.sent = FALSE /\ prod.slot # NoSlot
      BY <1>0, <2>4, ConstantsInTypes DEF RawFrame, IInv, ServerMapped
    <3> HIDE DEF f
    <3>3. /\ shm'.map = shm.map /\ shm'.gen = shm.gen
          /\ shm'.busy = shm.busy \ {s \in {latest.slot} :
                             s # NoSlot /\ ~latest.sent /\ s # prod.slot}
      BY <1>2, <3>1, <3>2 DEF ReplaceLatestFrame, BusyAfterReplace, ShmStates
    <3>4. \A m, s : LatestHas(m, s)' <=> CopyHas(m, s)
      BY <2>4, <3>1, <3>2, <3>3 DEF LatestHas, CopyHas, ReplaceLatestFrame
    <3>5. \A k, i, m, s : Has(k, i, m, s)' <=>
              \/ k \notin {"copy", "latest"} /\ Has(k, i, m, s)
              \/ k = "latest" /\ i = 0 /\ Has("copy", 0, m, s)
      BY <1>1, <2>1, <3>3, <3>4
      DEF Has, SameThread, SameNotices, SameReleases, SameRefs
    <3>6. \A s : s \in shm'.busy <=>
                   s \in shm.busy /\ ~(Has("latest", 0, shm.map, s)
                                       /\ s # prod.slot)
      BY <3>3 DEF Has, LatestHas
    <3>7. Exclusive'
      BY <3>5 DEF SlotInv, Exclusive
    <3>8. Covered'
      BY <3>3, <3>5, <3>6 DEF SlotInv, Exclusive, Covered
    <3>9. Accounted'
      <4> SUFFICES ASSUME shm.gen # 0, conn = "open", NEW s \in shm'.busy
                   PROVE  \E k, i : Has(k, i, shm.map, s)'
        BY <1>0, <3>3 DEF Accounted
      <4>0. s \in shm.busy
        BY <3>6
      <4>1. PICK k, i : Has(k, i, shm.map, s)
        BY <4>0 DEF Accounted, SlotInv
      <4>2. k \in {"latest", "copy"} => i = 0
        BY <4>1 DEF Has
      <4>3. k = "latest" => Has("copy", 0, shm.map, s)
        BY <2>4, <3>6, <4>1, <4>2 DEF Has, CopyHas
      <4>4. QED
        BY <3>3, <3>5, <4>1, <4>2, <4>3
    <3>10. Unused'
      BY <1>0, <3>5 DEF SlotInv, Unused
    <3>11. QED
      BY <3>7, <3>8, <3>9, <3>10 DEF SlotsKept
  <2>5. QED
    BY <2>1, <2>2, <2>3, <2>4
<1>6. QED
  BY <1>3, <1>4, <1>5 DEF WaylandThread

(* A step after which nobody has a slot nobody had before.                   *)
LEMMA FewerHolders ==
    ASSUME SlotInv, \A k, i, m, s : Has(k, i, m, s)' => Has(k, i, m, s),
           SameRemap, shm'.gen # 0 => SameShm
    PROVE  Exclusive' /\ Covered' /\ Unused'
<1>1. Exclusive'
  BY DEF Exclusive, SlotInv
<1>2. Covered'
  BY DEF Covered, SlotInv, SameShm
<1>3. Unused'
  BY DEF Unused, SlotInv, SameRemap
<1>4. QED
  BY <1>1, <1>2, <1>3

(* The client thread reads a message: the slot of an IKAR is free.           *)
LEMMA ReadSlots ==
    ASSUME SlotInv, ReadClientMessage
    PROVE  SlotsKept'
<1> DEFINE h == Head(toServer)
<1>0. /\ IInv /\ TypeOK /\ shm \in ShmStates /\ mem' = mem /\ th' = th
      /\ ses' = ses /\ conn' = conn /\ toServer # << >>
      /\ toServer' = Tail(toServer) /\ toClient' = toClient /\ cl' = cl
      /\ prod' = prod /\ latest' = latest
      /\ shm'.map = shm.map /\ shm'.gen = shm.gen
  BY ReadKeepsMap
  DEF SlotInv, IInv, TypeOK, ReadClientMessage, display, link, console
<1>1. /\ toServer \in Seq(ToServerMessages) /\ Len(toServer) \in Nat
      /\ h = toServer[1] /\ 1 \in 1 .. Len(toServer) /\ h \in ToServerMessages
  BY <1>0, SeqTail DEF TypeOK
<1>2. MemKept
  BY <1>0 DEF MemKept, TypeOK
<1>3. /\ SameCopy /\ SameLatest /\ SameThread /\ SameNotices /\ SameRefs
  BY <1>0, <1>2, KeptNotices, SameParts
<1>4. \A i, m, s : ReleaseHas(i, m, s)' <=>
                   i \in Nat \ {0} /\ ReleaseHas(i + 1, m, s)
  BY <1>0, TakenRelease
<1>5. ASSUME NEW k, NEW i, NEW m, NEW s
      PROVE  Has(k, i, m, s)' <=>
               \/ k # "release" /\ Has(k, i, m, s)
               \/ k = "release" /\ i \in Nat \ {0} /\ Has(k, i + 1, m, s)
  BY <1>3, <1>4
  DEF Has, SameCopy, SameLatest, SameThread, SameNotices, SameRefs
<1>6. ASSUME shm.gen # 0, NEW s
      PROVE  s \in shm'.busy <=> s \in shm.busy
                                 /\ ~Has("release", 1, shm.map, s)
  <2>1. /\ shm.map \in 1 .. Len(mem) /\ mem[shm.map].ses = ses
        /\ mem[shm.map].gen = shm.gen
    BY <1>0, <1>6 DEF IInv, ServerMapped, ShmStates, TypeOK
  <2>2. Has("release", 1, shm.map, s) <=>
            h.magic = "IKAR" /\ h.slot = s /\ h.gen = shm.gen
    BY <1>1, <1>6, <2>1 DEF Has, ReleaseHas
  <2>3. CASE h.magic = "IKAR"
    <3>1. shm' = [shm EXCEPT !.busy = @ \ ReleasedSlots(h)]
      BY <2>3 DEF ReadClientMessage
    <3>2. shm'.busy = shm.busy \ ReleasedSlots(h)
      BY <1>0, <3>1 DEF ShmStates
    <3>3. QED
      BY <1>6, <2>2, <2>3, <3>2 DEF ReleasedSlots
  <2>4. CASE h.magic # "IKAR"
    <3>1. h.magic \in {"IKAH", "IKAP"}
      BY <1>1, <2>4 DEF ToServerMessages
    <3>2. \/ shm' = [shm EXCEPT !.releases = TRUE]
          \/ shm' = [shm EXCEPT !.paused = h.hidden]
      BY <3>1 DEF ReadClientMessage
    <3>3. shm'.busy = shm.busy
      BY <1>0, <3>2 DEF ShmStates
    <3>4. QED
      BY <2>2, <2>4, <3>3
  <2>5. QED
    BY <2>3, <2>4
<1> HIDE DEF h
<1>7. Exclusive'
  <2> SUFFICES ASSUME NEW m, NEW s, NEW k, NEW i, NEW l, NEW j,
                      Has(k, i, m, s)', Has(l, j, m, s)'
               PROVE  k = l /\ i = j
    BY DEF Exclusive
  <2>1. CASE k = "release" /\ l = "release"
    <3>1. i \in Nat /\ j \in Nat /\ Has(k, i + 1, m, s) /\ Has(l, j + 1, m, s)
      BY <1>5, <2>1
    <3>2. i + 1 = j + 1
      BY <3>1 DEF SlotInv, Exclusive
    <3>3. QED
      BY <2>1, <3>1, <3>2
  <2>2. QED
    BY <1>5, <2>1 DEF SlotInv, Exclusive
<1>8. Covered'
  <2> SUFFICES ASSUME shm.gen # 0, NEW s, NEW k, NEW i, Has(k, i, shm.map, s)'
               PROVE  s \in shm'.busy
    BY <1>0 DEF Covered
  <2>1. Has(k, i, shm.map, s)' <=>
               \/ k # "release" /\ Has(k, i, shm.map, s)
               \/ /\ k = "release" /\ i \in Nat \ {0}
                  /\ Has(k, i + 1, shm.map, s)
    BY <1>0, <1>5
  <2>2. i \in Nat \ {0} => i + 1 # 1
    OBVIOUS
  <2>3. s \in shm.busy
    BY <2>1 DEF SlotInv, Covered
  <2>4. ~Has("release", 1, shm.map, s)
    BY <2>1, <2>2 DEF SlotInv, Exclusive
  <2>5. QED
    BY <1>6, <2>3, <2>4
<1>9. Accounted'
  <2> SUFFICES ASSUME shm.gen # 0, conn = "open", NEW s \in shm'.busy
               PROVE  \E k, i : Has(k, i, shm.map, s)'
    BY <1>0 DEF Accounted
  <2>1. s \in shm.busy /\ ~Has("release", 1, shm.map, s)
    BY <1>6
  <2>2. PICK k, i : Has(k, i, shm.map, s)
    BY <2>1 DEF Accounted, SlotInv
  <2>3. CASE k # "release"
    <3>1. Has(k, i, shm.map, s)'
      BY <1>0, <1>5, <2>2, <2>3
    <3>2. QED
      BY <3>1
  <2>4. CASE k = "release"
    <3>1. i \in 1 .. Len(toServer) /\ i # 1
      BY <2>1, <2>2, <2>4 DEF Has, ReleaseHas
    <3>2. i - 1 \in Nat \ {0} /\ (i - 1) + 1 = i
      BY <1>1, <3>1
    <3>3. Has(k, i - 1, shm.map, s)'
      BY <1>0, <1>5, <2>2, <2>4, <3>2
    <3>4. QED
      BY <3>3
  <2>5. QED
    BY <2>3, <2>4
<1>10. Unused'
  <2>1. ASSUME th.pc = "remap", NEW s, NEW k, NEW i, Has(k, i, Len(mem), s)'
        PROVE  FALSE
    <3>1. \E j : Has(k, j, Len(mem), s)
      BY <1>0, <1>5, <2>1
    <3>2. QED
      BY <2>1, <3>1 DEF SlotInv, Unused
  <2>2. QED
    BY <1>0, <2>1 DEF Unused
<1>11. QED
  BY <1>7, <1>8, <1>9, <1>10 DEF SlotsKept

(* A step in which slots change hands.                                       *)
LEMMA MovedHolders ==
    ASSUME SlotInv, Exclusive', SameShm, SameRemap, conn' = conn,
           \A k, i, m, s : Has(k, i, m, s)' => \E l, j : Has(l, j, m, s),
           conn = "open" /\ shm.gen # 0 =>
               \A k, i, s : Has(k, i, shm.map, s) =>
                               \E l, j : Has(l, j, shm.map, s)'
    PROVE  SlotsKept'
<1>1. Covered'
  BY DEF Covered, SlotInv, SameShm
<1>2. Accounted'
  BY DEF Accounted, SlotInv, SameShm
<1>3. Unused'
  BY DEF Unused, SlotInv, SameRemap
<1>4. QED
  BY <1>1, <1>2, <1>3 DEF SlotsKept

(* EndClientLocked: the slots are unmapped, what the console has stays.      *)
LEMMA EndSlots ==
    ASSUME SlotInv, EndClient
    PROVE  SlotsKept'
<1>1. /\ IInv /\ TypeOK /\ shm \in ShmStates /\ mem' = mem /\ ses' = ses
      /\ toServer' = << >> /\ toClient' = toClient /\ cl' = cl /\ prod' = prod
      /\ th'.pc = "none" /\ latest'.slot = NoSlot
  BY DetachType DEF SlotInv, IInv, TypeOK, EndClient, console, IdleThread
<1>2. shm'.gen = 0
  BY <1>1 DEF EndClient, CloseClientShm, ShmStates
<1>3. MemKept
  BY <1>1 DEF MemKept, TypeOK
<1>4. SameCopy /\ SameNotices /\ SameRefs
  BY <1>1, <1>3, KeptNotices, SameParts
<1>5. /\ \A m, s : ~LatestHas(m, s)' /\ ~ThreadHas(m, s)'
      /\ \A i, m, s : ~ReleaseHas(i, m, s)'
  BY <1>1, <1>2 DEF LatestHas, ThreadHas, ReleaseHas
<1>6. \A k, i, m, s : Has(k, i, m, s)' => Has(k, i, m, s)
  BY <1>4, <1>5 DEF Has, SameCopy, SameNotices, SameRefs
<1>7. SameRemap
  BY <1>1 DEF SameRemap
<1>8. Exclusive' /\ Covered' /\ Unused'
  BY <1>2, <1>6, <1>7, FewerHolders
<1>9. Accounted'
  BY <1>2 DEF Accounted
<1>10. QED
  BY <1>8, <1>9 DEF SlotsKept

(* Steps of the client thread that touch no slot.                            *)
LEMMA QuietSlots ==
    ASSUME SlotInv,
           BindClient \/ NothingToSend \/ WaitForClientOrFrame \/ SendInline
    PROVE  SlotsKept'
<1>1. /\ IInv /\ TypeOK /\ shm' = shm /\ mem' = mem /\ ses' = ses
      /\ conn' = conn /\ toServer' = toServer /\ cl' = cl /\ prod' = prod
      /\ latest' = latest /\ th \in ThreadStates
  BY DEF SlotInv, IInv, TypeOK, BindClient, NothingToSend, SendInline,
         WaitForClientOrFrame, display, link, console
<1>2. th.pc # "notify" /\ th'.pc \in {"loop", "poll"}
  BY <1>1 DEF BindClient, NothingToSend, WaitForClientOrFrame, SendInline,
              ThreadStates
<1>3. MemKept
  BY <1>1 DEF MemKept, TypeOK
<1>4. SameNotices
  <2>1. CASE SendInline
    <3>1. toClient' = Append(toClient, InlineMessage)
      BY <2>1 DEF SendInline, Send, InlineMessage
    <3>2. InlineMessage \in ToClientMessages /\ InlineMessage.magic # "IKAN"
      BY <1>1, MessageTypes DEF InlineMessage
    <3>3. QED
      BY <1>1, <1>3, <3>1, <3>2, SentNotice DEF SameNotices
  <2>2. CASE ~SendInline
    <3>1. toClient' = toClient
      BY <2>2 DEF BindClient, NothingToSend, WaitForClientOrFrame
    <3>2. QED
      BY <1>1, <1>3, <3>1, KeptNotices
  <2>3. QED
    BY <2>1, <2>2
<1>5. SameCopy /\ SameLatest /\ SameRefs /\ SameReleases
  BY <1>1, <1>3, KeptReleases, SameParts
<1>6. SameThread
  BY <1>2 DEF SameThread, ThreadHas
<1>7. SameShm /\ SameRemap
  BY <1>1, <1>2 DEF SameShm, SameRemap
<1>8. QED
  BY <1>1, <1>4, <1>5, <1>6, <1>7, SameHolders

(* The connection closes before the client is bound.                         *)
LEMMA HelloSlots ==
    ASSUME SlotInv, HelloEof
    PROVE  SlotsKept'
<1>1. /\ IInv /\ TypeOK /\ shm' = shm /\ mem' = mem /\ ses' = ses
      /\ toServer' = << >> /\ toClient' = toClient /\ cl' = cl /\ prod' = prod
      /\ latest' = latest /\ th'.pc = "none" /\ shm.gen = 0
  BY DEF SlotInv, IInv, TypeOK, HelloEof, display, console, IdleThread,
         ThreadMapped, ServerMapped
<1>2. MemKept
  BY <1>1 DEF MemKept, TypeOK
<1>3. SameCopy /\ SameLatest /\ SameNotices /\ SameRefs
  BY <1>1, <1>2, KeptNotices, SameParts
<1>4. /\ \A m, s : ~ThreadHas(m, s)'
      /\ \A i, m, s : ~ReleaseHas(i, m, s)'
  BY <1>1 DEF ThreadHas, ReleaseHas
<1>5. \A k, i, m, s : Has(k, i, m, s)' => Has(k, i, m, s)
  BY <1>3, <1>4 DEF Has, SameCopy, SameLatest, SameNotices, SameRefs
<1>6. SameRemap
  BY <1>1 DEF SameRemap
<1>7. Exclusive' /\ Covered' /\ Unused'
  BY <1>1, <1>5, <1>6, FewerHolders
<1>8. Accounted'
  BY <1>1 DEF Accounted
<1>9. QED
  BY <1>7, <1>8 DEF SlotsKept

(* The slot of the latest frame becomes the client thread's.                 *)
LEMMA TakeLatestSlots ==
    ASSUME SlotInv, TakeLatestFrame
    PROVE  SlotsKept'
<1>1. /\ IInv /\ TypeOK /\ shm' = shm /\ mem' = mem /\ ses' = ses
      /\ conn' = conn /\ toServer' = toServer /\ toClient' = toClient
      /\ cl' = cl /\ prod' = prod /\ th \in ThreadStates /\ latest \in Frames
      /\ th.pc = "loop" /\ frameGen # th.sentGen
  BY DEF SlotInv, IInv, TypeOK, TakeLatestFrame, link, console
<1>2. MemKept
  BY <1>1 DEF MemKept, TypeOK
<1>3. SameCopy /\ SameNotices /\ SameRefs /\ SameReleases
  BY <1>1, <1>2, KeptNotices, KeptReleases, SameParts
<1>4. \A m, s : ~LatestHas(m, s)' /\ ~ThreadHas(m, s)
  BY <1>1 DEF LatestHas, ThreadHas, TakeLatestFrame, Frames
<1>5. \A m, s : ThreadHas(m, s)' <=> LatestHas(m, s)
  <2>1. CASE latest.slot # NoSlot
    <3>1. latest.type = "raw" /\ ~latest.sent /\ shm.gen # 0
      BY <1>1, <2>1 DEF SlotInv, LatestInSlot, IInv, ServerMapped
    <3>2. th'.pc = "notify" /\ th'.map = shm.map /\ th'.slot = latest.slot
      BY <1>1, <2>1, <3>1 DEF TakeLatestFrame, ThreadStates
    <3>3. QED
      BY <1>1, <2>1, <3>1, <3>2 DEF ThreadHas, LatestHas
  <2>2. CASE latest.slot = NoSlot
    <3>1. th'.pc \in {"poll", "inline", "init", "acquire"}
      BY <1>1, <2>2 DEF TakeLatestFrame, ThreadStates
    <3>2. QED
      BY <2>2, <3>1 DEF ThreadHas, LatestHas
  <2>3. QED
    BY <2>1, <2>2
<1>6. \A k, i, m, s : Has(k, i, m, s)' <=>
          \/ k \notin {"latest", "thread"} /\ Has(k, i, m, s)
          \/ k = "thread" /\ i = 0 /\ Has("latest", 0, m, s)
  BY <1>3, <1>4, <1>5
  DEF Has, SameCopy, SameNotices, SameReleases, SameRefs
<1>7. \A k, i, m, s : Has(k, i, m, s) =>
          k # "thread" /\ (k = "latest" => i = 0)
  BY <1>4 DEF Has
<1>8. Exclusive'
  BY <1>6 DEF SlotInv, Exclusive
<1>9. th'.pc # "remap"
  BY <1>1 DEF TakeLatestFrame, ThreadStates
<1>10. SameShm /\ SameRemap
  BY <1>1, <1>9 DEF SameShm, SameRemap
<1>11. \A k, i, m, s : Has(k, i, m, s)' => \E l, j : Has(l, j, m, s)
  BY <1>6
<1>12. \A k, i, m, s : Has(k, i, m, s) => \E l, j : Has(l, j, m, s)'
  BY <1>6, <1>7
<1>13. \A k, i, s : Has(k, i, shm.map, s) => \E l, j : Has(l, j, shm.map, s)'
  BY <1>1, <1>12
<1>14. QED
  BY <1>1, <1>8, <1>10, <1>11, <1>13, MovedHolders

(* The slots are announced: nobody has one of them yet.                      *)
LEMMA InitSlots ==
    ASSUME SlotInv, SendShmInit
    PROVE  SlotsKept'
<1> DEFINE e == [gen |-> NextGen, ses |-> ses, foreign |-> foreign,
                 pix |-> [s \in Slots |-> NoFrame]]
<1>1. /\ IInv /\ TypeOK /\ shm' = shm /\ ses' = ses /\ conn' = conn
      /\ toServer' = toServer /\ cl' = cl /\ prod' = prod
      /\ latest' = latest /\ th \in ThreadStates /\ shm \in ShmStates
      /\ mem' = Append(mem, e) /\ mem \in Seq(Memories)
      /\ toClient' = Append(toClient, InitMessage)
      /\ th.pc = "init" /\ th'.pc = "remap"
  BY DEF SlotInv, IInv, TypeOK, SendShmInit, Send, InitMessage, display, link,
         console, ThreadStates
<1>2. e.gen = NextGen
  OBVIOUS
<1> HIDE DEF e
<1>3. /\ Len(mem) \in Nat /\ Len(mem') = Len(mem) + 1
      /\ mem'[Len(mem) + 1].gen = NextGen
      /\ \A j \in 1 .. Len(mem) : mem'[j] = mem[j]
  BY <1>1, <1>2, SeqAppend
<1>4. MemKept
  BY <1>3 DEF MemKept
<1>5. SameNotices
  <2>1. InitMessage \in ToClientMessages /\ InitMessage.magic # "IKAN"
    BY <1>1, MessageTypes DEF InitMessage
  <2>2. QED
    BY <1>1, <1>4, <2>1, SentNotice DEF SameNotices
<1>6. SameReleases
  <2> SUFFICES ASSUME NEW i, NEW m, NEW s
               PROVE  ReleaseHas(i, m, s)' <=> ReleaseHas(i, m, s)
    BY DEF SameReleases
  <2>1. i \in 1 .. Len(toServer) /\ toServer[i].magic = "IKAR"
           => toServer[i].gen \in 1 .. shm.lastGen
    BY DEF SlotInv, Generations
  <2>2. NextGen = 0 \/ (shm.lastGen \in Nat /\ NextGen = shm.lastGen + 1)
    BY <1>1 DEF NextGen, ShmStates
  <2>3. i \in 1 .. Len(toServer) /\ toServer[i].magic = "IKAR"
           => toServer[i].gen # NextGen
    BY <2>1, <2>2
  <2>4. m \in 1 .. Len(mem') <=> m \in 1 .. Len(mem) \/ m = Len(mem) + 1
    BY <1>3
  <2>5. QED
    BY <1>1, <1>3, <2>3, <2>4 DEF ReleaseHas
<1>7. SameCopy /\ SameLatest /\ SameRefs
  BY <1>1, SameParts
<1>8. SameThread
  BY <1>1 DEF SameThread, ThreadHas
<1>9. \A k, i, m, s : Has(k, i, m, s)' <=> Has(k, i, m, s)
  BY <1>5, <1>6, <1>7, <1>8 DEF Has, SameCopy, SameLatest, SameThread,
      SameNotices, SameReleases, SameRefs
<1>10. Exclusive'
  BY <1>9 DEF Exclusive, SlotInv
<1>11. Covered'
  BY <1>1, <1>9 DEF Covered, SlotInv
<1>12. Accounted'
  BY <1>1, <1>9 DEF Accounted, SlotInv
<1>13. Unused'
  <2>1. ASSUME NEW k, NEW i, NEW s, Has(k, i, Len(mem) + 1, s)
        PROVE  FALSE
    <3>1. Len(mem) + 1 \in 1 .. Len(mem)
      BY <1>1, <2>1, HolderMemory
    <3>2. QED
      BY <1>3, <3>1
  <2>2. \A s, k, i : ~Has(k, i, Len(mem), s)'
    BY <1>3, <1>9, <2>1
  <2>3. QED
    BY <2>2 DEF Unused
<1>14. QED
  BY <1>10, <1>11, <1>12, <1>13 DEF SlotsKept

(* The slots announced replace the earlier ones: all of them are free.       *)
LEMMA RemappedSlots ==
    ASSUME SlotInv, RemapSlots
    PROVE  SlotsKept'
<1>1. /\ IInv /\ TypeOK /\ mem' = mem /\ ses' = ses /\ conn' = conn
      /\ toServer' = toServer /\ toClient' = toClient /\ cl' = cl
      /\ prod' = prod /\ th.pc = "remap" /\ th'.pc = "acquire"
      /\ latest'.slot = NoSlot /\ shm \in ShmStates
  BY DetachType DEF SlotInv, IInv, TypeOK, RemapSlots, link, console,
                    ThreadStates
<1>2. shm'.map = Len(mem) /\ shm'.busy = {}
  BY <1>1 DEF RemapSlots, ShmStates
<1>3. MemKept
  BY <1>1 DEF MemKept, TypeOK
<1>4. SameCopy /\ SameNotices /\ SameRefs /\ SameReleases
  BY <1>1, <1>3, KeptNotices, KeptReleases, SameParts
<1>5. \A m, s : ~LatestHas(m, s)' /\ ~ThreadHas(m, s)'
  BY <1>1 DEF LatestHas, ThreadHas
<1>6. \A k, i, m, s : Has(k, i, m, s)' => Has(k, i, m, s)
  BY <1>4, <1>5 DEF Has, SameCopy, SameNotices, SameReleases, SameRefs
<1>7. Exclusive'
  BY <1>6 DEF Exclusive, SlotInv
<1>8. Covered'
  BY <1>1, <1>2, <1>6 DEF Covered, Unused, SlotInv
<1>9. Accounted' /\ Unused'
  BY <1>1, <1>2 DEF Accounted, Unused
<1>10. QED
  BY <1>7, <1>8, <1>9 DEF SlotsKept

(* AcquireShmSlot: the client thread takes a free slot, or one in turn that  *)
(* is not released.                                                          *)
LEMMA AcquireSlots ==
    ASSUME SlotInv, AcquireShmSlot
    PROVE  SlotsKept'
<1>1. /\ IInv /\ TypeOK /\ ses' = ses /\ conn' = conn
      /\ toServer' = toServer /\ toClient' = toClient /\ cl' = cl
      /\ prod' = prod /\ latest' = latest /\ th.pc = "acquire"
      /\ shm \in ShmStates /\ th \in ThreadStates
  BY DEF SlotInv, IInv, TypeOK, AcquireShmSlot, display, link, console
<1>2. PICK f \in Slots :
         /\ \/ shm.gen = 0 /\ shm' = [shm EXCEPT !.next = (f + 1) % SlotCount]
            \/ shm.gen # 0 /\ f \notin shm.busy /\ shm' = TakeSlot(f)
         /\ th' = [th EXCEPT !.pc = "notify", !.map = shm.map, !.slot = f]
  BY <1>1, AcquiredSlot
<1>3. MemKept /\ Len(mem') = Len(mem)
  <2>1. ~SendShmInit
    BY <1>1 DEF SendShmInit
  <2>2. QED
    BY <1>1, <2>1, MemStep DEF Next, ClientThread
<1>4. SameCopy /\ SameNotices /\ SameRefs /\ SameReleases
  BY <1>1, <1>3, KeptNotices, KeptReleases, SameParts
<1>5. th'.pc = "notify" /\ th'.map = shm.map /\ th'.slot = f
  BY <1>1, <1>2 DEF ThreadStates
<1>6. CASE shm.gen = 0
  <2> DEFINE n == (f + 1) % SlotCount
  <2>1. shm' = [shm EXCEPT !.next = n]
    BY <1>2, <1>6
  <2> HIDE DEF n
  <2>2. SameShm
    BY <1>1, <2>1 DEF SameShm, ShmStates
  <2>3. SameLatest
    BY <1>1, <2>2, SameParts DEF SameShm
  <2>4. SameThread
    BY <1>6, <2>2 DEF SameThread, ThreadHas, SameShm
  <2>5. SameRemap
    BY <1>5 DEF SameRemap
  <2>6. QED
    BY <1>1, <1>4, <2>2, <2>3, <2>4, <2>5, SameHolders
<1>7. CASE shm.gen # 0
  <2>1. shm' = TakeSlot(f) /\ f \in Slots \ shm.busy
    BY <1>2, <1>7
  <2>2. shm'.map = shm.map /\ shm'.gen = shm.gen
    BY <1>1, <2>1, TakeSlotFields
  <2>3. SameLatest
    BY <1>1, <2>2, SameParts
  <2>4. \A m, s : /\ ThreadHas(m, s)' <=> m = shm.map /\ s = f
                  /\ ~ThreadHas(m, s)
    BY <1>1, <1>5, <1>7, <2>2 DEF ThreadHas
  <2>5. \A k, i, m, s : Has(k, i, m, s)' <=>
            \/ Has(k, i, m, s)
            \/ k = "thread" /\ i = 0 /\ m = shm.map /\ s = f
    BY <1>4, <2>3, <2>4
    DEF Has, SameCopy, SameLatest, SameNotices, SameReleases, SameRefs
  <2>6. QED
    BY <1>1, <1>3, <1>5, <1>7, <2>1, <2>5, TakenSlot
<1>8. QED
  BY <1>6, <1>7

(* The slot of the client thread goes with its notice.                       *)
LEMMA NotifySlots ==
    ASSUME SlotInv, SendShmNotify
    PROVE  SlotsKept'
<1> DEFINE n == Len(toClient) + 1
<1>1. /\ IInv /\ TypeOK /\ ses' = ses /\ conn' = conn /\ shm' = shm
      /\ toServer' = toServer /\ cl' = cl /\ prod' = prod
      /\ latest' = latest /\ th.pc = "notify" /\ th'.pc = "loop"
      /\ shm \in ShmStates /\ toClient' = Append(toClient, NoticeMessage)
      /\ Len(toClient) \in Nat
  BY DEF SlotInv, IInv, TypeOK, SendShmNotify, Send, NoticeMessage, display,
         link, console, IdleThread
<1>2. MemKept /\ Len(mem') = Len(mem)
  <2>1. ~SendShmInit
    BY <1>1 DEF SendShmInit
  <2>2. QED
    BY <1>1, <2>1, MemStep DEF Next, ClientThread
<1>3. SameCopy /\ SameLatest /\ SameRefs /\ SameReleases
  BY <1>1, <1>2, KeptReleases, SameParts
<1>4. /\ NoticeMessage \in ToClientMessages /\ NoticeMessage.magic = "IKAN"
      /\ NoticeMessage.map = th.map /\ NoticeMessage.slot = th.slot
  BY <1>1, MessageTypes DEF NoticeMessage
<1>5. \A i, m, s : NoticeHas(i, m, s)' <=>
               \/ NoticeHas(i, m, s)
               \/ /\ i = n /\ th.map = m /\ th.slot = s /\ mem'[m].gen # 0
  BY <1>1, <1>2, <1>4, SentNotice
<1>6. th.map = shm.map /\ mem'[shm.map].gen = shm.gen
  <2>1. th.map = shm.map /\ shm.map \in 1 .. Len(mem) /\ mem[shm.map].gen = shm.gen
    BY <1>1 DEF IInv, ThreadMapped, ServerMapped, ShmStates, TypeOK
  <2>2. QED
    BY <1>2, <2>1 DEF MemKept
<1>7. \A m, s : /\ ~ThreadHas(m, s)' /\ ~NoticeHas(n, m, s)
                /\ ThreadHas(m, s) <=> th.map = m /\ th.slot = s
                                       /\ mem'[m].gen # 0
  BY <1>1, <1>6 DEF ThreadHas, NoticeHas
<1> HIDE DEF n
<1>8. \A k, i, m, s : Has(k, i, m, s)' <=>
          \/ k # "thread" /\ Has(k, i, m, s)
          \/ k = "notice" /\ i = n /\ Has("thread", 0, m, s)
  BY <1>3, <1>5, <1>7
  DEF Has, SameCopy, SameLatest, SameReleases, SameRefs
<1>9. \A k, i, m, s : Has(k, i, m, s) => (k = "thread" => i = 0)
  BY DEF Has
<1>10. Exclusive'
  BY <1>8 DEF SlotInv, Exclusive
<1>11. SameShm /\ SameRemap
  BY <1>1 DEF SameShm, SameRemap
<1>12. \A k, i, m, s : Has(k, i, m, s)' => \E l, j : Has(l, j, m, s)
  BY <1>8
<1>13. \A k, i, m, s : Has(k, i, m, s) => \E l, j : Has(l, j, m, s)'
  BY <1>8, <1>9
<1>14. \A k, i, s : Has(k, i, shm.map, s) => \E l, j : Has(l, j, shm.map, s)'
  BY <1>1, <1>13
<1>15. QED
  BY <1>1, <1>10, <1>11, <1>12, <1>14, MovedHolders

(* The steps of the client thread.                                           *)
LEMMA ClientSlots ==
    ASSUME SlotInv, ClientThread
    PROVE  SlotsKept'
  BY ReadSlots, EndSlots, QuietSlots, HelloSlots, TakeLatestSlots, InitSlots,
     RemappedSlots, AcquireSlots, NotifySlots
  DEF ClientThread, ReadEof, SendFails
-----------------------------------------------------------------------------
(* The console.  What it takes off the wire, or out of its frame buffer.     *)
Gone(k, m, s) == \/ k = "pending" /\ Has("pending", 0, m, s)
                 \/ k = "notice" /\ Has("notice", 1, m, s)

(* A message is received: the slot of one of the two is pending now, and     *)
(* that of the other one on its way back.                                    *)
LEMMA ReceivedSlots ==
    ASSUME SlotInv, UNCHANGED <<shm, mem, prod, th, latest, ses, conn>>,
           toClient # << >>, toClient' = Tail(toClient), NEW pk, NEW rk,
           pk # rk,
           \A k \in {"pending", "notice"} \ {pk, rk} : \A m, s : ~Gone(k, m, s),
           cl'.screen = cl.screen, cl'.resume = cl.resume,
           \A m, s : RefHas(cl.pending, m, s)' <=> Gone(pk, m, s),
           \A i, m, s : ReleaseHas(i, m, s)' <=>
               \/ ReleaseHas(i, m, s)
               \/ /\ i = Len(toServer) + 1 /\ Gone(rk, m, s)
                  /\ mem[m].ses = ses /\ conn = "open"
    PROVE  SlotsKept'
<1> DEFINE n == Len(toServer) + 1
<1>1. IInv /\ TypeOK /\ shm \in ShmStates /\ MemKept
  BY DEF SlotInv, IInv, TypeOK, MemKept
<1>2. SameCopy /\ SameLatest /\ SameThread
  BY SameParts
<1>3. \A i, m, s : NoticeHas(i, m, s)' <=>
                   i \in Nat \ {0} /\ NoticeHas(i + 1, m, s)
  BY <1>1, TakenNotice
<1>4. /\ \A m, s : RefHas(cl.screen, m, s)' <=> RefHas(cl.screen, m, s)
      /\ \A m, s : RefHas(cl.resume, m, s)' <=> RefHas(cl.resume, m, s)
  BY DEF RefHas
<1> HIDE DEF n
<1>5. \A k, i, m, s : Has(k, i, m, s)' <=>
         \/ k \notin {"notice", "pending", "release"} /\ Has(k, i, m, s)
         \/ k = "notice" /\ i \in Nat \ {0} /\ Has(k, i + 1, m, s)
         \/ k = "pending" /\ i = 0 /\ Gone(pk, m, s)
         \/ k = "release" /\ Has(k, i, m, s)
         \/ /\ k = "release" /\ i = n /\ Gone(rk, m, s)
            /\ mem[m].ses = ses /\ conn = "open"
  BY <1>2, <1>3, <1>4 DEF Has, SameCopy, SameLatest, SameThread, n
<1>6. \A i : i \in Nat \ {0} => i + 1 # 1
  OBVIOUS
<1>7. Exclusive'
  <2> SUFFICES ASSUME NEW m, NEW s, NEW k, NEW i, NEW l, NEW j,
                      Has(k, i, m, s)', Has(l, j, m, s)'
               PROVE  k = l /\ i = j
    BY DEF Exclusive
  <2>1. CASE k = "notice" /\ l = "notice"
    <3>1. i \in Nat /\ j \in Nat /\ Has(k, i + 1, m, s) /\ Has(l, j + 1, m, s)
      BY <1>5, <2>1
    <3>2. i + 1 = j + 1
      BY <3>1 DEF SlotInv, Exclusive
    <3>3. QED
      BY <2>1, <3>1, <3>2
  <2>2. CASE ~(k = "notice" /\ l = "notice")
    <3>1. \A a, b, c, d : Has(a, b, m, s) /\ Has(c, d, m, s) => a = c /\ b = d
      BY DEF SlotInv, Exclusive
    <3>2. QED
      BY <1>5, <1>6, <2>2, <3>1 DEF Gone
  <2>3. QED
    BY <2>1, <2>2
<1>8. \A k, i, m, s : Has(k, i, m, s)' => \E l, j : Has(l, j, m, s)
  BY <1>5 DEF Gone
<1>9. ASSUME conn = "open", shm.gen # 0, NEW k, NEW i, NEW s,
             Has(k, i, shm.map, s)
      PROVE  \E l, j : Has(l, j, shm.map, s)'
  <2>1. mem[shm.map].ses = ses /\ shm'.map = shm.map
    BY <1>1, <1>9 DEF IInv, ServerMapped
  <2>2. CASE k = "notice" /\ i # 1
    <3>1. i \in 1 .. Len(toClient) /\ Len(toClient) \in Nat
      BY <1>1, <1>9, <2>2 DEF Has, NoticeHas, TypeOK
    <3>2. i - 1 \in Nat \ {0} /\ (i - 1) + 1 = i
      BY <2>2, <3>1
    <3>3. Has(k, i - 1, shm.map, s)'
      BY <1>5, <1>9, <2>1, <2>2, <3>2
    <3>4. QED
      BY <3>3
  <2>3. CASE k \notin {"notice", "pending"}
    <3>1. Has(k, i, shm.map, s)'
      BY <1>5, <1>9, <2>1, <2>3
    <3>2. QED
      BY <3>1
  <2>4. CASE (k = "notice" /\ i = 1) \/ k = "pending"
    <3>1. k = "pending" => i = 0
      BY <1>9 DEF Has
    <3>2. Gone(k, shm.map, s) /\ k \in {"notice", "pending"}
      BY <1>9, <2>4, <3>1 DEF Gone
    <3>3. k = pk \/ k = rk
      BY <3>2
    <3>4. \/ Has("pending", 0, shm.map, s)'
          \/ \E j : Has("release", j, shm.map, s)'
      BY <1>5, <1>9, <2>1, <3>2, <3>3
    <3>5. QED
      BY <3>4
  <2>5. QED
    BY <2>2, <2>3, <2>4
<1>10. SameShm /\ SameRemap
  BY DEF SameShm, SameRemap
<1>11. QED
  BY <1>7, <1>8, <1>9, <1>10, MovedHolders

(* A frame of the console moves from a to b: the slot of b is on its way     *)
(* back.                                                                     *)
LEMMA ShownSlots ==
    ASSUME SlotInv, UNCHANGED <<shm, mem, th, ses, conn>>, NEW a, NEW b,
           a \in {"pending", "resume"}, b \in {"screen", "resume"}, a # b,
           \A k, i, m, s : Has(k, i, m, s)' <=>
               \/ k \notin {a, b} /\ Has(k, i, m, s)
               \/ k = b /\ i = 0 /\ Has(a, 0, m, s)
               \/ /\ k = "release" /\ i = Len(toServer) + 1 /\ Has(b, 0, m, s)
                  /\ mem[m].ses = ses /\ conn = "open"
    PROVE  SlotsKept'
<1> DEFINE n == Len(toServer) + 1
<1>0. \A k, i, m, s : Has(k, i, m, s)' <=>
               \/ k \notin {a, b} /\ Has(k, i, m, s)
               \/ k = b /\ i = 0 /\ Has(a, 0, m, s)
               \/ /\ k = "release" /\ i = n /\ Has(b, 0, m, s)
                  /\ mem[m].ses = ses /\ conn = "open"
  OBVIOUS
<1> HIDE DEF n
<1>1. Exclusive'
  <2> SUFFICES ASSUME NEW m, NEW s, NEW k, NEW i, NEW l, NEW j,
                      Has(k, i, m, s)', Has(l, j, m, s)'
               PROVE  k = l /\ i = j
    BY DEF Exclusive
  <2>1. \A c, d, e, f : Has(c, d, m, s) /\ Has(e, f, m, s) => c = e /\ d = f
    BY DEF SlotInv, Exclusive
  <2>2. QED
    BY <1>0, <2>1
<1>2. \A k, i, m, s : Has(k, i, m, s)' => \E l, j : Has(l, j, m, s)
  BY <1>0
<1>3. ASSUME conn = "open", shm.gen # 0, NEW k, NEW i, NEW s,
             Has(k, i, shm.map, s)
      PROVE  \E l, j : Has(l, j, shm.map, s)'
  <2>1. mem[shm.map].ses = ses /\ shm'.map = shm.map
    BY <1>3 DEF SlotInv, IInv, ServerMapped
  <2>2. k \in {"pending", "screen", "resume"} => i = 0
    BY <1>3 DEF Has
  <2>3. \/ Has(k, i, shm.map, s)' \/ Has(b, 0, shm.map, s)'
        \/ \E j : Has("release", j, shm.map, s)'
    BY <1>0, <1>3, <2>1, <2>2
  <2>4. QED
    BY <2>3
<1>4. SameShm /\ SameRemap
  BY DEF SameShm, SameRemap
<1>5. QED
  BY <1>1, <1>2, <1>3, <1>4, MovedHolders

(* sc_cf_process_msg                                                         *)
LEMMA ProcessSlots ==
    ASSUME SlotInv, ProcessShmInit \/ ProcessShmFrame \/ ProcessInline
    PROVE  SlotsKept'
<1> DEFINE h == Head(toClient)
<1>1. /\ UNCHANGED <<shm, mem, prod, th, latest, ses, conn>>
      /\ toClient # << >> /\ toClient' = Tail(toClient)
      /\ IInv /\ TypeOK /\ cl \in ConsoleStates
  BY DEF SlotInv, IInv, TypeOK, ProcessShmInit, ProcessShmFrame, ProcessInline,
         Receive, server, display, link
<1>2. /\ 1 \in 1 .. Len(toClient) /\ h = toClient[1] /\ h \in ToClientMessages
  BY <1>1, SeqTail DEF TypeOK
<1>3. cl.pending \in Refs /\ RefMapped(cl.pending)
  BY <1>1 DEF IInv, ConsoleMapped, ConsoleStates
<1>4. h.magic # "IKAN" => \A m, s : ~Gone("notice", m, s)
  BY <1>2 DEF Gone, Has, NoticeHas
<1>5. \A m, s : Gone("pending", m, s) <=> RefHas(cl.pending, m, s)
  BY DEF Gone, Has
<1>6. ASSUME cl'.pending = cl.pending, cl'.screen = cl.screen,
             cl'.resume = cl.resume, toServer' = toServer, h.magic # "IKAN"
      PROVE  SlotsKept'
  <2>1. SameReleases
    BY <1>1, <1>6, KeptReleases DEF MemKept, TypeOK
  <2>2. \A m, s : RefHas(cl.pending, m, s)' <=> Gone("pending", m, s)
    BY <1>5, <1>6 DEF RefHas
  <2>3. \A m, s : ~Gone("none", m, s)
    BY DEF Gone
  <2>4. QED
    BY <1>1, <1>4, <1>6, <2>1, <2>2, <2>3, ReceivedSlots DEF SameReleases
<1>7. ASSUME NEW r \in Refs, r.map = 0, \A m, s : ~Gone("notice", m, s), Push(r)
      PROVE  SlotsKept'
  <2>1. /\ cl'.pending = r /\ cl'.screen = cl.screen /\ cl'.resume = cl.resume
        /\ toServer' = toServer \o Releases(cl.pending)
    BY <1>1, <1>7 DEF Push, ConsoleStates
  <2>2. \A i, m, s : ReleaseHas(i, m, s)' <=>
               \/ ReleaseHas(i, m, s)
               \/ /\ i = Len(toServer) + 1 /\ Gone("pending", m, s)
                  /\ mem[m].ses = ses /\ conn = "open"
    BY <1>1, <1>3, <1>5, <2>1, SentRelease
  <2>3. \A m, s : RefHas(cl.pending, m, s)' <=> Gone("none", m, s)
    BY <1>7, <2>1 DEF RefHas, Gone
  <2>4. \A k \in {"pending", "notice"} \ {"none", "pending"} :
           \A m, s : ~Gone(k, m, s)
    BY <1>7
  <2>5. QED
    BY <1>1, <2>1, <2>2, <2>3, <2>4, ReceivedSlots
<1>8. CASE ProcessShmInit
  <2>1. /\ cl'.pending = cl.pending /\ cl'.screen = cl.screen
        /\ cl'.resume = cl.resume /\ toServer' = toServer /\ h.magic # "IKAN"
    BY <1>1, <1>8 DEF ProcessShmInit, ConsoleStates
  <2>2. QED
    BY <1>6, <2>1
<1>9. CASE ProcessInline
  <2>1. h.magic = "IKAF" /\ h \in [magic : {"IKAF"}, id : FrameIds, pix : Pixels]
    BY <1>2, <1>9 DEF ProcessInline, ToClientMessages
  <2>2. CASE foreign
    BY <1>6, <1>9, <2>1, <2>2 DEF ProcessInline
  <2>3. CASE ~foreign
    <3> DEFINE r == [NoRef EXCEPT !.id = h.id, !.pix = h.pix]
    <3>1. r \in Refs /\ r.map = 0
      BY <2>1, ConstantsInTypes DEF NoRef, Refs
    <3>2. Push(r)
      BY <1>9, <2>3 DEF ProcessInline
    <3> HIDE DEF r
    <3>3. QED
      BY <1>4, <1>7, <2>1, <3>1, <3>2
  <2>4. QED
    BY <2>2, <2>3
<1>10. CASE ProcessShmFrame
  <2> DEFINE r == [id |-> h.id, map |-> cl.map, slot |-> h.slot, pix |-> h.pix]
             c == [NoRef EXCEPT !.id = h.id, !.pix = mem[cl.map].pix[h.slot]]
  <2>1. /\ h.magic = "IKAN" /\ h.map = cl.map
        /\ cl.map # 0 /\ cl.map \in 1 .. Len(mem)
    BY <1>1, <1>10, HeadNotice DEF ProcessShmFrame
  <2>2. h \in [magic : {"IKAN"}, id : FrameIds, slot : Slots, map : Nat,
               pix : Pixels]
    BY <1>2, <2>1 DEF ToClientMessages
  <2>3. \/ foreign /\ toServer' = toServer \o Releases(r) /\ cl' = cl
        \/ ~foreign /\ Push(IF mem[cl.map].gen # 0 THEN r ELSE c)
    BY <1>10 DEF ProcessShmFrame
  <2>4. r \in Refs /\ r.map = cl.map /\ r.slot = h.slot /\ h.slot \in Slots
    BY <2>1, <2>2 DEF Refs
  <2>5. c \in Refs /\ c.map = 0
    <3>1. mem[cl.map].pix[h.slot] \in Pixels
      BY <1>1, <2>1, <2>2, MemPix
    <3>2. QED
      BY <2>2, <3>1, ConstantsInTypes DEF NoRef, Refs
  <2>6. \A m, s : Gone("notice", m, s) <=>
                  m = cl.map /\ s = h.slot /\ mem[cl.map].gen # 0
    BY <1>2, <2>1 DEF Gone, Has, NoticeHas
  <2> HIDE DEF r, c, h
  <2>7. CASE mem[cl.map].gen = 0 /\ ~foreign
    <3>1. Push(c) /\ \A m, s : ~Gone("notice", m, s)
      BY <2>3, <2>6, <2>7
    <3>2. QED
      BY <1>7, <2>5, <3>1
  <2>8. CASE mem[cl.map].gen = 0 /\ foreign
    <3>1. toServer' = toServer /\ cl' = cl
      <4>1. Releases(r) = << >>
        BY <2>4, <2>8 DEF Releases
      <4>2. QED
        BY <1>1, <2>3, <2>8, <4>1 DEF TypeOK
    <3>2. SameReleases
      BY <1>1, <3>1, KeptReleases DEF MemKept, TypeOK
    <3>3. \A m, s : /\ RefHas(cl.pending, m, s)' <=> Gone("pending", m, s)
                    /\ ~Gone("notice", m, s)
      BY <1>5, <2>6, <2>8, <3>1 DEF RefHas
    <3>4. QED
      BY <1>1, <3>1, <3>2, <3>3, ReceivedSlots DEF SameReleases
  <2>9. CASE mem[cl.map].gen # 0
    <3>1. RefMapped(r) /\ \A m, s : Gone("notice", m, s) <=> RefHas(r, m, s)
      BY <2>1, <2>4, <2>6, <2>9 DEF RefMapped, RefHas
    <3>2. CASE foreign
      <4>1. \A i, m, s : ReleaseHas(i, m, s)' <=>
               \/ ReleaseHas(i, m, s)
               \/ /\ i = Len(toServer) + 1 /\ Gone("notice", m, s)
                  /\ mem[m].ses = ses /\ conn = "open"
        BY <1>1, <2>3, <2>4, <3>1, <3>2, SentRelease
      <4>2. \A m, s : RefHas(cl.pending, m, s)' <=> Gone("pending", m, s)
        BY <1>5, <2>3, <3>2 DEF RefHas
      <4>3. cl'.screen = cl.screen /\ cl'.resume = cl.resume
        BY <2>3, <3>2
      <4>4. QED
        BY <1>1, <4>1, <4>2, <4>3, ReceivedSlots
    <3>3. CASE ~foreign
      <4>1. /\ cl'.pending = r /\ cl'.screen = cl.screen
            /\ cl'.resume = cl.resume
            /\ toServer' = toServer \o Releases(cl.pending)
        BY <1>1, <2>3, <2>9, <3>3 DEF Push, ConsoleStates
      <4>2. \A i, m, s : ReleaseHas(i, m, s)' <=>
               \/ ReleaseHas(i, m, s)
               \/ /\ i = Len(toServer) + 1 /\ Gone("pending", m, s)
                  /\ mem[m].ses = ses /\ conn = "open"
        BY <1>1, <1>3, <1>5, <4>1, SentRelease
      <4>3. \A m, s : RefHas(cl.pending, m, s)' <=> Gone("notice", m, s)
        BY <3>1, <4>1 DEF RefHas
      <4>4. QED
        BY <1>1, <4>1, <4>2, <4>3, ReceivedSlots
    <3>4. QED
      BY <3>2, <3>3
  <2>10. QED
    BY <2>7, <2>8, <2>9
<1>11. QED
  BY <1>8, <1>9, <1>10

(* run_cf_source says hello: nothing is released yet.                        *)
LEMMA ConnectSends ==
    ASSUME NEW f \in BOOLEAN, Connect(f)
    PROVE  \A i \in 1 .. Len(toServer') : toServer'[i].magic # "IKAR"
<1>1. CASE cl.hidden
  <2> DEFINE a == [magic |-> "IKAH"]
             b == [magic |-> "IKAP", hidden |-> TRUE]
  <2>1. toServer' = <<a>> \o <<b>>
    BY <1>1 DEF Connect
  <2>2. a.magic # "IKAR" /\ b.magic # "IKAR"
    OBVIOUS
  <2> HIDE DEF a, b
  <2>3. <<a>> \in Seq({a, b}) /\ <<b>> \in Seq({a, b})
    OBVIOUS
  <2>4. toServer' \in Seq({a, b})
    BY <2>1, <2>3
  <2>5. QED
    BY <2>2, <2>4
<1>2. CASE ~cl.hidden
  <2>1. toServer' = <<[magic |-> "IKAH"]>>
    BY <1>2 DEF Connect
  <2>2. QED
    BY <2>1
<1>3. QED
  BY <1>1, <1>2

(* The connections of the console begin and end.                             *)
LEMMA ConnectionSlots ==
    ASSUME SlotInv, ClientEof \/ ClientLeaves \/ \E f \in BOOLEAN : Connect(f)
    PROVE  SlotsKept'
<1>1. /\ IInv /\ TypeOK /\ mem' = mem /\ prod' = prod /\ latest' = latest
      /\ cl \in ConsoleStates /\ MemKept
  BY DEF SlotInv, IInv, TypeOK, MemKept, ClientEof, ClientLeaves, Connect,
         server, display
<1>2. CASE ClientEof
  <2>1. /\ shm' = shm /\ th' = th /\ ses' = ses /\ toServer' = toServer
        /\ toClient' = toClient /\ conn' = "none"
        /\ cl'.pending = cl.pending /\ cl'.screen = cl.screen
        /\ cl'.resume = cl.resume
    BY <1>1, <1>2 DEF ClientEof, server, ConsoleStates
  <2>2. SameCopy /\ SameLatest /\ SameThread /\ SameNotices /\ SameReleases
    BY <1>1, <2>1, KeptNotices, KeptReleases, SameParts
  <2>3. SameRefs /\ SameShm /\ SameRemap
    BY <1>1, <2>1 DEF SameRefs, RefHas, SameShm, SameRemap
  <2>4. QED
    BY <2>1, <2>2, <2>3, SameHolders
<1>3. CASE ClientLeaves
  <2>1. /\ shm' = shm /\ th' = th /\ ses' = ses /\ toServer' = toServer
        /\ toClient' = << >> /\ conn' # "open"
        /\ cl'.pending = NoRef /\ cl'.screen = NoRef /\ cl'.resume = NoRef
    BY <1>1, <1>3 DEF ClientLeaves, server, ConsoleStates
  <2>2. SameCopy /\ SameLatest /\ SameThread /\ SameReleases
    BY <1>1, <2>1, KeptReleases, SameParts
  <2>3. /\ \A m, s : /\ ~RefHas(cl.pending, m, s)'
                     /\ ~RefHas(cl.screen, m, s)'
                     /\ ~RefHas(cl.resume, m, s)'
        /\ \A i, m, s : ~NoticeHas(i, m, s)'
    BY <2>1 DEF RefHas, NoRef, NoticeHas
  <2>4. \A k, i, m, s : Has(k, i, m, s)' => Has(k, i, m, s)
    BY <2>2, <2>3 DEF Has, SameCopy, SameLatest, SameThread, SameReleases
  <2>5. SameShm /\ SameRemap
    BY <1>1, <2>1 DEF SameShm, SameRemap
  <2>6. Exclusive' /\ Covered' /\ Unused'
    BY <2>4, <2>5, FewerHolders
  <2>7. Accounted'
    BY <2>1 DEF Accounted
  <2>8. QED
    BY <2>6, <2>7 DEF SlotsKept
<1>4. ASSUME NEW f \in BOOLEAN, Connect(f)
      PROVE  SlotsKept'
  <2>1. /\ cl' = cl /\ toClient' = << >> /\ th'.pc = "hello" /\ shm'.gen = 0
        /\ shm' = EmptyShm
    BY <1>4 DEF Connect, console, IdleThread, EmptyShm
  <2>2. \A i \in 1 .. Len(toServer') : toServer'[i].magic # "IKAR"
    BY <1>4, ConnectSends
  <2>3. latest.slot = NoSlot
    BY <1>1, <1>4 DEF Connect, IInv, ThreadMapped, ServerMapped
  <2>4. SameCopy /\ SameRefs
    BY <1>1, <2>1, SameParts
  <2>5. /\ \A m, s : ~LatestHas(m, s)' /\ ~ThreadHas(m, s)'
        /\ \A i, m, s : ~NoticeHas(i, m, s)' /\ ~ReleaseHas(i, m, s)'
    BY <1>1, <2>1, <2>2, <2>3
    DEF LatestHas, ThreadHas, NoticeHas, ReleaseHas
  <2>6. \A k, i, m, s : Has(k, i, m, s)' => Has(k, i, m, s)
    BY <2>4, <2>5 DEF Has, SameCopy, SameRefs
  <2>7. SameRemap
    BY <2>1 DEF SameRemap
  <2>8. Exclusive' /\ Covered' /\ Unused'
    BY <2>1, <2>6, <2>7, FewerHolders
  <2>9. Accounted'
    BY <2>1 DEF Accounted
  <2>10. QED
    BY <2>8, <2>9 DEF SlotsKept
<1>5. QED
  BY <1>2, <1>3, <1>4

(* The steps of the console's UI thread.                                     *)
LEMMA UiSlots ==
    ASSUME SlotInv, UiThread
    PROVE  SlotsKept'
<1>1. /\ UNCHANGED <<shm, mem, prod, th, latest, ses, conn, toClient>>
      /\ IInv /\ TypeOK /\ cl \in ConsoleStates /\ MemKept
  BY DEF SlotInv, IInv, TypeOK, MemKept, UiThread, UpdateFrame, SetPaused,
         SetWindowHidden, server, display, link
<1>2. SameCopy /\ SameLatest /\ SameThread /\ SameNotices
  BY <1>1, KeptNotices, SameParts
<1>3. SameShm /\ SameRemap
  BY <1>1 DEF SameShm, SameRemap
<1>4. /\ cl.screen \in Refs /\ RefMapped(cl.screen)
      /\ cl.resume \in Refs /\ RefMapped(cl.resume)
  BY <1>1 DEF IInv, ConsoleMapped, ConsoleStates
<1>5. CASE UpdateFrame
  <2>1. CASE ~cl.paused
    <3>1. /\ cl'.screen = cl.pending /\ cl'.pending = NoRef
          /\ cl'.resume = cl.resume
          /\ toServer' = toServer \o Releases(cl.screen)
      BY <1>1, <1>5, <2>1 DEF UpdateFrame, ConsoleStates
    <3>2. \A i, m, s : ReleaseHas(i, m, s)' <=>
               \/ ReleaseHas(i, m, s)
               \/ /\ i = Len(toServer) + 1 /\ RefHas(cl.screen, m, s)
                  /\ mem[m].ses = ses /\ conn = "open"
      BY <1>1, <1>4, <3>1, SentRelease
    <3>3. \A m, s : /\ ~RefHas(cl.pending, m, s)'
                    /\ RefHas(cl.screen, m, s)' <=> RefHas(cl.pending, m, s)
                    /\ RefHas(cl.resume, m, s)' <=> RefHas(cl.resume, m, s)
      BY <3>1 DEF RefHas, NoRef
    <3>4. \A k, i, m, s : Has(k, i, m, s)' <=>
               \/ k \notin {"pending", "screen"} /\ Has(k, i, m, s)
               \/ k = "screen" /\ i = 0 /\ Has("pending", 0, m, s)
               \/ /\ k = "release" /\ i = Len(toServer) + 1
                  /\ Has("screen", 0, m, s) /\ mem[m].ses = ses /\ conn = "open"
      BY <1>2, <3>2, <3>3
      DEF Has, SameCopy, SameLatest, SameThread, SameNotices
    <3>5. QED
      BY <1>1, <3>4, ShownSlots
  <2>2. CASE cl.paused
    <3>1. /\ cl'.resume = cl.pending /\ cl'.pending = NoRef
          /\ cl'.screen = cl.screen
          /\ toServer' = toServer \o Releases(cl.resume)
      BY <1>1, <1>5, <2>2 DEF UpdateFrame, ConsoleStates
    <3>2. \A i, m, s : ReleaseHas(i, m, s)' <=>
               \/ ReleaseHas(i, m, s)
               \/ /\ i = Len(toServer) + 1 /\ RefHas(cl.resume, m, s)
                  /\ mem[m].ses = ses /\ conn = "open"
      BY <1>1, <1>4, <3>1, SentRelease
    <3>3. \A m, s : /\ ~RefHas(cl.pending, m, s)'
                    /\ RefHas(cl.resume, m, s)' <=> RefHas(cl.pending, m, s)
                    /\ RefHas(cl.screen, m, s)' <=> RefHas(cl.screen, m, s)
      BY <3>1 DEF RefHas, NoRef
    <3>4. \A k, i, m, s : Has(k, i, m, s)' <=>
               \/ k \notin {"pending", "resume"} /\ Has(k, i, m, s)
               \/ k = "resume" /\ i = 0 /\ Has("pending", 0, m, s)
               \/ /\ k = "release" /\ i = Len(toServer) + 1
                  /\ Has("resume", 0, m, s) /\ mem[m].ses = ses /\ conn = "open"
      BY <1>2, <3>2, <3>3
      DEF Has, SameCopy, SameLatest, SameThread, SameNotices
    <3>5. QED
      BY <1>1, <3>4, ShownSlots
  <2>3. QED
    BY <2>1, <2>2
<1>6. ASSUME NEW paused \in BOOLEAN, SetPaused(paused)
      PROVE  SlotsKept'
  <2>1. CASE cl.paused /\ cl.resume # NoRef
    <3>1. /\ cl'.screen = cl.resume /\ cl'.resume = NoRef
          /\ cl'.pending = cl.pending
          /\ toServer' = toServer \o Releases(cl.screen)
      BY <1>1, <1>6, <2>1 DEF SetPaused, ShowResumeFrame, ConsoleStates
    <3>2. \A i, m, s : ReleaseHas(i, m, s)' <=>
               \/ ReleaseHas(i, m, s)
               \/ /\ i = Len(toServer) + 1 /\ RefHas(cl.screen, m, s)
                  /\ mem[m].ses = ses /\ conn = "open"
      BY <1>1, <1>4, <3>1, SentRelease
    <3>3. \A m, s : /\ ~RefHas(cl.resume, m, s)'
                    /\ RefHas(cl.screen, m, s)' <=> RefHas(cl.resume, m, s)
                    /\ RefHas(cl.pending, m, s)' <=> RefHas(cl.pending, m, s)
      BY <3>1 DEF RefHas, NoRef
    <3>4. \A k, i, m, s : Has(k, i, m, s)' <=>
               \/ k \notin {"resume", "screen"} /\ Has(k, i, m, s)
               \/ k = "screen" /\ i = 0 /\ Has("resume", 0, m, s)
               \/ /\ k = "release" /\ i = Len(toServer) + 1
                  /\ Has("screen", 0, m, s) /\ mem[m].ses = ses /\ conn = "open"
      BY <1>2, <3>2, <3>3
      DEF Has, SameCopy, SameLatest, SameThread, SameNotices
    <3>5. QED
      BY <1>1, <3>4, ShownSlots
  <2>2. CASE ~(cl.paused /\ cl.resume # NoRef)
    <3>1. /\ cl'.screen = cl.screen /\ cl'.resume = cl.resume
          /\ cl'.pending = cl.pending /\ toServer' = toServer
      BY <1>1, <1>6, <2>2 DEF SetPaused, ConsoleStates
    <3>2. SameRefs /\ SameReleases
      BY <1>1, <3>1, KeptReleases DEF SameRefs, RefHas
    <3>3. QED
      BY <1>1, <1>2, <1>3, <3>2, SameHolders
  <2>3. QED
    BY <2>1, <2>2
<1>7. CASE SetWindowHidden
  <2>1. /\ cl'.screen = cl.screen /\ cl'.resume = cl.resume
        /\ cl'.pending = cl.pending
    BY <1>1, <1>7 DEF SetWindowHidden, ConsoleStates
  <2>2. SameReleases
    <3>1. CASE conn = "open"
      <4> DEFINE e == [magic |-> "IKAP", hidden |-> ~cl.hidden]
      <4>1. toServer' = Append(toServer, e) /\ e.magic # "IKAR"
        BY <1>7, <3>1 DEF SetWindowHidden, CanSend
      <4> HIDE DEF e
      <4>2. QED
        BY <1>1, <4>1, SentOther
    <3>2. CASE conn # "open"
      <4>1. toServer' = toServer
        BY <1>7, <3>2 DEF SetWindowHidden, CanSend
      <4>2. QED
        BY <1>1, <4>1, KeptReleases
    <3>3. QED
      BY <3>1, <3>2
  <2>3. SameRefs
    BY <2>1 DEF SameRefs, RefHas
  <2>4. QED
    BY <1>1, <1>2, <1>3, <2>2, <2>3, SameHolders
<1>8. QED
  BY <1>5, <1>6, <1>7 DEF UiThread
-----------------------------------------------------------------------------
(* Each step keeps the slots in order.                                       *)
LEMMA SlotsStep ==
    ASSUME SlotInv, Next
    PROVE  SlotsKept'
  BY WaylandSlots, ClientSlots, ProcessSlots, ConnectionSlots, UiSlots
  DEF Next, SourceThread

(* A frame in a slot is a raw one, and once sent it is not sent again.       *)
LEMMA LatestInSlotStep ==
    ASSUME SlotInv, Next
    PROVE  LatestInSlot'
<1>1. /\ IInv /\ latest \in Frames /\ th \in ThreadStates /\ LatestInSlot
      /\ frameGen \in Nat
  BY DEF SlotInv, IInv, TypeOK
<1>2. ASSUME latest' = latest, frameGen' = frameGen, th'.sentGen = th.sentGen
      PROVE  LatestInSlot'
  BY <1>1, <1>2 DEF LatestInSlot
<1>3. ASSUME latest'.slot = NoSlot
      PROVE  LatestInSlot'
  BY <1>3 DEF LatestInSlot
<1>4. CASE OnFramePublish
  <2>1. \/ latest' = latest /\ frameGen' = frameGen /\ th' = th
        \/ latest'.type = "raw" /\ latest'.sent = FALSE
    BY <1>1, <1>4 DEF OnFramePublish, ReplaceLatestFrame, RawFrame
  <2>2. QED
    BY <1>2, <2>1 DEF LatestInSlot
<1>5. ASSUME NEW size \in Sizes, OnDmabufFrame(size)
      PROVE  LatestInSlot'
  <2>1. latest'.slot = NoSlot
    BY <1>5 DEF OnDmabufFrame, ReplaceLatestFrame, EmptyFrame
  <2>2. QED
    BY <1>3, <2>1
<1>6. CASE RemapSlots \/ EndClient
  BY <1>1, <1>3, <1>6, DetachType DEF RemapSlots, EndClient
<1>7. CASE HelloEof \/ \E f \in BOOLEAN : Connect(f)
  <2>1. th.pc \in {"none", "hello"} /\ latest' = latest
    BY <1>7 DEF HelloEof, Connect, display
  <2>2. latest.slot = NoSlot
    BY <1>1, <2>1 DEF IInv, ThreadMapped, ServerMapped
  <2>3. QED
    BY <1>3, <2>1, <2>2
<1>8. CASE TakeLatestFrame
  <2>1. /\ latest'.type = latest.type /\ latest'.slot = latest.slot
        /\ th'.sentGen = frameGen /\ frameGen' = frameGen
    BY <1>1, <1>8 DEF TakeLatestFrame, Frames, ThreadStates
  <2>2. QED
    BY <1>1, <2>1 DEF LatestInSlot
<1>9. CASE \/ ReadClientMessage \/ BindClient \/ NothingToSend
           \/ WaitForClientOrFrame \/ SendInline \/ SendShmInit
           \/ AcquireShmSlot
  <2>1. /\ latest' = latest /\ frameGen' = frameGen
        /\ th'.sentGen = th.sentGen
    BY <1>1, <1>9
    DEF ReadClientMessage, BindClient, NothingToSend, WaitForClientOrFrame,
        SendInline, SendShmInit, AcquireShmSlot, display, ThreadStates
  <2>2. QED
    BY <1>2, <2>1
<1>10. CASE SendShmNotify
  <2>1. /\ latest' = latest /\ frameGen' = frameGen
        /\ th'.sentGen = th.sentGen
    BY <1>1, <1>10 DEF SendShmNotify, display, IdleThread
  <2>2. QED
    BY <1>2, <2>1
<1>11. CASE (\E size \in Sizes : OnFrameReserve(size)) \/ UiThread
            \/ ProcessShmInit \/ ProcessShmFrame \/ ProcessInline
            \/ ClientEof \/ ClientLeaves
  <2>1. latest' = latest /\ frameGen' = frameGen /\ th' = th
    BY <1>11 DEF OnFrameReserve, UiThread, ProcessShmInit, ProcessShmFrame,
        ProcessInline, ClientEof, ClientLeaves, UpdateFrame, SetPaused,
        SetWindowHidden, server, display
  <2>2. QED
    BY <1>2, <2>1
<1>12. QED
  BY <1>4, <1>5, <1>6, <1>7, <1>8, <1>9, <1>10, <1>11
  DEF Next, WaylandThread, ClientThread, SourceThread, ReadEof, SendFails

(* What the generations are counted by changes when slots are remapped, and  *)
(* with the connection.                                                      *)
LEMMA CountersStep ==
    ASSUME SlotInv, Next, ~RemapSlots, ~\E f \in BOOLEAN : Connect(f)
    PROVE  /\ shm'.lastGen = shm.lastGen /\ ses' = ses
           /\ th.pc = "remap" => th'.pc = "remap"
<1>1. IInv /\ TypeOK /\ shm \in ShmStates /\ th \in ThreadStates
  BY DEF SlotInv, IInv, TypeOK
<1>2. CASE WaylandThread
  <2>1. ses' = ses /\ th' = th
    BY <1>2 DEF WaylandThread, OnFrameReserve, OnFramePublish, OnDmabufFrame,
                link
  <2>2. shm'.lastGen = shm.lastGen
    <3>1. ASSUME NEW f, ReplaceLatestFrame(f)
          PROVE  shm'.lastGen = shm.lastGen
      BY <1>1, <3>1 DEF ReplaceLatestFrame, ShmStates
    <3>2. ASSUME NEW f, shm' = TakeSlot(f)
          PROVE  shm'.lastGen = shm.lastGen
      BY <1>1, <3>2, TakeSlotFields
    <3>3. \/ shm' = shm \/ (\E f : ReplaceLatestFrame(f))
          \/ (\E f : shm' = TakeSlot(f))
      BY <1>2, Zenon
      DEF WaylandThread, OnFrameReserve, OnFramePublish, OnDmabufFrame
    <3>4. QED
      BY <3>1, <3>2, <3>3
  <2>3. QED
    BY <2>1, <2>2
<1>3. CASE SourceThread \/ UiThread
  BY <1>3 DEF SourceThread, UiThread, ProcessShmInit, ProcessShmFrame,
      ProcessInline, ClientEof, ClientLeaves, UpdateFrame, SetPaused,
      SetWindowHidden, server, link
<1>4. CASE ClientThread
  <2>1. ses' = ses
    BY <1>4 DEF ClientThread, ReadClientMessage, ReadEof, EndClient, HelloEof,
        BindClient, TakeLatestFrame, NothingToSend, WaitForClientOrFrame,
        SendInline, SendShmInit, AcquireShmSlot, SendShmNotify, SendFails, link
  <2>2. th.pc # "remap"
    BY <1>1, <1>4
    DEF ClientThread, ReadClientMessage, ReadEof, HelloEof, BindClient,
        TakeLatestFrame, NothingToSend, WaitForClientOrFrame, SendInline,
        SendShmInit, AcquireShmSlot, SendShmNotify, SendFails
  <2>3. CASE ReadClientMessage
    BY <1>1, <2>1, <2>2, <2>3, ReadKeepsMap
  <2>4. CASE EndClient
    BY <1>1, <2>1, <2>2, <2>4 DEF EndClient, CloseClientShm, ShmStates
  <2>5. CASE AcquireShmSlot
    <3>1. PICK f \in Slots :
             \/ shm.gen = 0 /\ shm' = [shm EXCEPT !.next = (f + 1) % SlotCount]
             \/ shm.gen # 0 /\ f \notin shm.busy /\ shm' = TakeSlot(f)
      BY <1>1, <2>5, AcquiredSlot
    <3> DEFINE n == (f + 1) % SlotCount
    <3>2. shm' = [shm EXCEPT !.next = n] \/ shm' = TakeSlot(f)
      BY <3>1
    <3> HIDE DEF n
    <3>3. shm' = [shm EXCEPT !.next = n] => shm'.lastGen = shm.lastGen
      BY <1>1 DEF ShmStates
    <3>4. QED
      BY <1>1, <2>1, <2>2, <3>2, <3>3, TakeSlotFields
  <2>6. CASE ~ReadClientMessage /\ ~EndClient /\ ~AcquireShmSlot
    <3>1. shm' = shm
      BY <1>4, <2>6
      DEF ClientThread, ReadEof, HelloEof, BindClient, TakeLatestFrame,
          NothingToSend, WaitForClientOrFrame, SendInline, SendShmInit,
          SendShmNotify, SendFails
    <3>2. QED
      BY <2>1, <2>2, <3>1
  <2>7. QED
    BY <2>3, <2>4, <2>5, <2>6
<1>5. QED
  BY <1>2, <1>3, <1>4 DEF Next

(* A released frame names a generation of this connection.                   *)
LEMMA SentGenerations ==
    ASSUME SlotInv, NEW r \in Refs, RefMapped(r),
           toServer' = toServer \o Releases(r),
           th.pc = "remap" => r.map # Len(mem)
    PROVE  \A i \in 1 .. Len(toServer') :
              toServer'[i].magic = "IKAR" => toServer'[i].gen \in 1 .. shm.lastGen
<1> DEFINE n == Len(toServer)
<1>0. /\ toServer \in Seq(ToServerMessages) /\ n \in Nat /\ r.map \in Nat
      /\ TypeOK /\ shm.lastGen \in Nat
      /\ \A i \in 1 .. n : toServer[i].magic = "IKAR" =>
                              toServer[i].gen \in 1 .. shm.lastGen
  BY DEF SlotInv, IInv, TypeOK, Refs, ShmStates, Generations
<1>1. CASE ~(r.map # 0 /\ mem[r.map].ses = ses /\ conn = "open")
  <2>1. toServer' = toServer
    BY <1>0, <1>1 DEF Releases, CanSend
  <2>2. QED
    BY <1>0, <2>1
<1>2. CASE r.map # 0 /\ mem[r.map].ses = ses /\ conn = "open"
  <2>1. r.map \in 1 .. Len(mem) /\ mem[r.map].gen # 0 /\ mem[r.map].gen \in Nat
    BY <1>0, <1>2, MemPix DEF RefMapped, TypeOK
  <2>2. mem[r.map].gen <= shm.lastGen
    BY <1>2, <2>1 DEF SlotInv, Generations
  <2> DEFINE e == IKAR(mem[r.map].gen, r.slot)
  <2>3. Releases(r) = <<e>>
    BY <1>2, <2>1 DEF Releases, CanSend
  <2>4. e.gen = mem[r.map].gen
    BY DEF IKAR
  <2> HIDE DEF e
  <2>5. /\ Len(toServer') = n + 1 /\ toServer'[n + 1] = e
        /\ \A j \in 1 .. n : toServer'[j] = toServer[j]
    BY <1>0, <2>3
  <2>6. e.gen \in 1 .. shm.lastGen
    BY <1>0, <2>1, <2>2, <2>4
  <2> SUFFICES ASSUME NEW i \in 1 .. Len(toServer'),
                      toServer'[i].magic = "IKAR"
               PROVE  toServer'[i].gen \in 1 .. shm.lastGen
    OBVIOUS
  <2>7. i \in 1 .. n \/ i = n + 1
    BY <1>0, <2>5
  <2>8. QED
    BY <1>0, <2>5, <2>6, <2>7
<1>3. QED
  BY <1>1, <1>2

(* Every IKAR names a generation of this connection.                         *)
LEMMA ReleasedGenerations ==
    ASSUME SlotInv, Next, ~\E f \in BOOLEAN : Connect(f)
    PROVE  \A i \in 1 .. Len(toServer') :
              toServer'[i].magic = "IKAR" => toServer'[i].gen \in 1 .. shm.lastGen
<1> DEFINE Good == \A i \in 1 .. Len(toServer') :
             toServer'[i].magic = "IKAR" => toServer'[i].gen \in 1 .. shm.lastGen
<1>1. /\ IInv /\ TypeOK /\ toServer \in Seq(ToServerMessages)
      /\ Len(toServer) \in Nat /\ Len(mem) \in Nat /\ cl \in ConsoleStates
      /\ \A i \in 1 .. Len(toServer) : toServer[i].magic = "IKAR" =>
                                          toServer[i].gen \in 1 .. shm.lastGen
  BY DEF SlotInv, IInv, TypeOK, Generations
<1>2. ASSUME toServer' = toServer \/ toServer' = << >>
      PROVE  Good
  BY <1>1, <1>2
<1>3. ASSUME toServer # << >>, toServer' = Tail(toServer)
      PROVE  Good
  <2>1. /\ Len(toServer) \in Nat \ {0} /\ Len(toServer') = Len(toServer) - 1
        /\ \A j \in 1 .. Len(toServer') : toServer'[j] = toServer[j + 1]
    BY <1>1, <1>3, SeqTail
  <2>2. \A j \in 1 .. Len(toServer') : j + 1 \in 1 .. Len(toServer)
    BY <2>1
  <2>3. QED
    BY <1>1, <2>1, <2>2
<1>4. ASSUME NEW r, r = cl.pending \/ r = cl.screen \/ r = cl.resume,
             toServer' = toServer \o Releases(r)
      PROVE  Good
  <2>1. r \in Refs /\ RefMapped(r)
    BY <1>1, <1>4 DEF IInv, ConsoleMapped, ConsoleStates
  <2>2. th.pc = "remap" => r.map # Len(mem)
    <3> SUFFICES ASSUME th.pc = "remap", r.map = Len(mem)
                 PROVE  FALSE
      OBVIOUS
    <3>1. Len(mem) # 0
      BY <1>1 DEF IInv, ThreadMapped, TypeOK, ShmStates
    <3>2. RefHas(r, Len(mem), r.slot)
      BY <3>1 DEF RefHas
    <3>3. \E k : Has(k, 0, Len(mem), r.slot)
      BY <1>4, <3>2 DEF Has
    <3>4. QED
      BY <3>3 DEF SlotInv, Unused
  <2>3. QED
    BY <1>4, <2>1, <2>2, SentGenerations
<1>5. ASSUME NEW e, e.magic # "IKAR", toServer' = Append(toServer, e)
      PROVE  Good
  <2>1. /\ Len(toServer') = Len(toServer) + 1
        /\ toServer'[Len(toServer) + 1] = e
        /\ \A j \in 1 .. Len(toServer) : toServer'[j] = toServer[j]
    BY <1>1, <1>5
  <2>2. \A j \in 1 .. Len(toServer') :
           j \in 1 .. Len(toServer) \/ j = Len(toServer) + 1
    BY <1>1, <2>1
  <2>3. QED
    BY <1>1, <1>5, <2>1, <2>2
<1>6. CASE ProcessShmFrame
  <2> DEFINE h == Head(toClient)
             r == [id |-> h.id, map |-> cl.map, slot |-> h.slot, pix |-> h.pix]
  <2>1. CASE ~foreign
    BY <1>4, <1>6, <2>1 DEF ProcessShmFrame, Push
  <2>2. CASE foreign
    <3>1. toServer' = toServer \o Releases(r) /\ toClient # << >>
      BY <1>6, <2>2 DEF ProcessShmFrame, Receive
    <3>2. /\ h.magic = "IKAN" /\ h.map = cl.map
          /\ cl.map # 0 /\ cl.map \in 1 .. Len(mem)
      BY <1>1, <1>6, HeadNotice DEF ProcessShmFrame, Receive
    <3>3. h \in ToClientMessages /\ h = toClient[1] /\ 1 \in 1 .. Len(toClient)
      BY <1>1, <3>1, SeqTail DEF TypeOK
    <3>4. h \in [magic : {"IKAN"}, id : FrameIds, slot : Slots, map : Nat,
                 pix : Pixels]
      BY <3>2, <3>3 DEF ToClientMessages
    <3>5. CASE mem[cl.map].gen = 0
      <4>1. Releases(r) = << >>
        BY <3>5 DEF Releases
      <4>2. toServer' = toServer
        BY <1>1, <3>1, <4>1
      <4>3. QED
        BY <1>2, <4>2
    <3>6. CASE mem[cl.map].gen # 0
      <4>1. r \in Refs /\ RefMapped(r)
        BY <3>2, <3>4, <3>6 DEF Refs, RefMapped
      <4>2. Has("notice", 1, cl.map, h.slot)
        BY <3>2, <3>3, <3>6 DEF Has, NoticeHas
      <4>3. th.pc = "remap" => cl.map # Len(mem)
        BY <4>2 DEF SlotInv, Unused
      <4>4. r.map = cl.map
        OBVIOUS
      <4> HIDE DEF r
      <4>5. QED
        BY <3>1, <4>1, <4>3, <4>4, SentGenerations
    <3>7. QED
      BY <3>5, <3>6
  <2>3. QED
    BY <2>1, <2>2
<1>7. CASE ProcessInline \/ UiThread
  <2>1. \/ toServer' = toServer
        \/ \E r : /\ r = cl.pending \/ r = cl.screen \/ r = cl.resume
                  /\ toServer' = toServer \o Releases(r)
        \/ \E e : e.magic # "IKAR" /\ toServer' = Append(toServer, e)
    BY <1>7 DEF ProcessInline, Push, UiThread, UpdateFrame, SetPaused,
                SetWindowHidden
  <2>2. QED
    BY <1>2, <1>4, <1>5, <2>1
<1>8. CASE ReadClientMessage
  BY <1>3, <1>8 DEF ReadClientMessage
<1>9. CASE \/ WaylandThread \/ ProcessShmInit \/ ClientEof \/ ClientLeaves
           \/ ClientThread /\ ~ReadClientMessage
  <2>1. toServer' = toServer \/ toServer' = << >>
    BY <1>9
    DEF WaylandThread, OnFrameReserve, OnFramePublish, OnDmabufFrame,
        ClientThread, ReadEof, EndClient, HelloEof, BindClient,
        TakeLatestFrame, NothingToSend, WaitForClientOrFrame, SendInline,
        SendShmInit, RemapSlots, AcquireShmSlot, SendShmNotify, SendFails,
        ProcessShmInit, ClientEof, ClientLeaves
  <2>2. QED
    BY <1>2, <2>1
<1>10. QED
  BY <1>6, <1>7, <1>8, <1>9 DEF Next, SourceThread

(* The generations of one connection stay apart.                             *)
LEMMA GenerationsStep ==
    ASSUME SlotInv, Next
    PROVE  Generations'
<1> DEFINE n == Len(mem)
<1>1. /\ IInv /\ TypeOK /\ TypeOK' /\ shm \in ShmStates /\ th \in ThreadStates
      /\ MemKept /\ (~SendShmInit => Len(mem') = n) /\ n \in Nat
      /\ ses \in Nat /\ shm.lastGen \in Nat
  <2>1. TypeOK' /\ MemKept /\ (~SendShmInit => Len(mem') = n)
    BY TypeStep, MemStep DEF SlotInv
  <2>2. QED
    BY <2>1, BoundsAssumption DEF SlotInv, IInv, TypeOK, ShmStates
<1>2. /\ \A a \in 1 .. n : mem[a].ses <= ses /\ mem[a].ses \in Nat
                           /\ mem[a].gen \in Nat
      /\ \A a, b \in 1 .. n :
            mem[a].ses = mem[b].ses /\ mem[a].gen = mem[b].gen
               /\ mem[a].gen # 0 => a = b
      /\ \A a \in 1 .. n :
            mem[a].ses = ses => \/ mem[a].gen <= shm.lastGen
                                \/ th.pc = "remap" /\ a = n
  <2>1. \A a \in 1 .. n : mem[a].ses \in Nat /\ mem[a].gen \in Nat
    BY <1>1, MemPix, BoundsAssumption DEF Memories
  <2>2. QED
    BY <2>1 DEF SlotInv, Generations
<1>3. \A a \in 1 .. n : mem'[a].gen = mem[a].gen /\ mem'[a].ses = mem[a].ses
  BY <1>1 DEF MemKept
<1>4. CASE \E f \in BOOLEAN : Connect(f)
  <2>1. ses' = ses + 1 /\ mem' = mem
    BY <1>4 DEF Connect
  <2>2. \A i \in 1 .. Len(toServer') : toServer'[i].magic # "IKAR"
    BY <1>4, ConnectSends
  <2>3. \A a \in 1 .. n : mem[a].ses <= ses + 1 /\ mem[a].ses # ses + 1
    BY <1>1, <1>2
  <2>4. QED
    BY <1>2, <2>1, <2>2, <2>3 DEF Generations
<1>5. CASE RemapSlots
  <2>1. /\ mem' = mem /\ ses' = ses /\ toServer' = toServer
        /\ th.pc = "remap" /\ th'.pc = "acquire"
        /\ shm'.lastGen = IF NextGen # 0 THEN NextGen ELSE shm.lastGen
    BY <1>1, <1>5 DEF RemapSlots, link, ThreadStates, ShmStates
  <2>2. mem[n].gen = NextGen
    BY <1>1, <2>1 DEF IInv, ThreadMapped
  <2>3. /\ NextGen = 0 \/ NextGen = shm.lastGen + 1
        /\ shm'.lastGen \in Nat /\ shm.lastGen <= shm'.lastGen
        /\ NextGen <= shm'.lastGen
    BY <1>1, <2>1 DEF NextGen
  <2>4. \A a \in 1 .. n : mem[a].ses = ses => mem[a].gen <= shm'.lastGen
    <3> SUFFICES ASSUME NEW a \in 1 .. n, mem[a].ses = ses
                 PROVE  mem[a].gen <= shm'.lastGen
      OBVIOUS
    <3>1. mem[a].gen \in Nat /\ (mem[a].gen <= shm.lastGen \/ a = n)
      BY <1>2
    <3>2. QED
      BY <1>1, <2>2, <2>3, <3>1
  <2>5. \A i \in 1 .. Len(toServer) : toServer[i].magic = "IKAR" =>
                                         toServer[i].gen \in 1 .. shm'.lastGen
    <3>1. \A i \in 1 .. Len(toServer) : toServer[i].magic = "IKAR" =>
                                         toServer[i].gen \in 1 .. shm.lastGen
      BY DEF SlotInv, Generations
    <3>2. \A g : g \in 1 .. shm.lastGen => g \in 1 .. shm'.lastGen
      BY <1>1, <2>3
    <3>3. QED
      BY <3>1, <3>2
  <2>6. QED
    BY <1>2, <2>1, <2>4, <2>5 DEF Generations
<1>6. CASE SendShmInit
  <2> DEFINE e == [gen |-> NextGen, ses |-> ses, foreign |-> foreign,
                   pix |-> [s \in Slots |-> NoFrame]]
  <2>1. /\ mem' = Append(mem, e) /\ th.pc = "init" /\ th'.pc = "remap"
        /\ shm' = shm /\ ses' = ses /\ toServer' = toServer
    BY <1>1, <1>6 DEF SendShmInit, link, ThreadStates
  <2>2. e.gen = NextGen /\ e.ses = ses
    OBVIOUS
  <2> HIDE DEF e
  <2>3. /\ Len(mem') = n + 1 /\ mem'[n + 1].gen = NextGen
        /\ mem'[n + 1].ses = ses
    BY <1>1, <2>1, <2>2, SeqAppend DEF TypeOK
  <2>4. \A a \in 1 .. Len(mem') : a \in 1 .. n \/ a = n + 1
    BY <1>1, <2>3
  <2>5. NextGen = 0 \/ NextGen = shm.lastGen + 1
    BY DEF NextGen
  <2>6. \A a \in 1 .. n : mem[a].ses = ses => mem[a].gen <= shm.lastGen
    BY <1>2, <2>1
  <2>7. \A a \in 1 .. n : mem[a].ses = ses /\ mem[a].gen # 0
                             => mem[a].gen # NextGen
    BY <1>1, <1>2, <2>5, <2>6
  <2>8. \A a \in 1 .. Len(mem') : mem'[a].ses <= ses
    BY <1>1, <1>2, <1>3, <2>3, <2>4
  <2>9. \A a, b \in 1 .. Len(mem') :
            mem'[a].ses = mem'[b].ses /\ mem'[a].gen = mem'[b].gen
               /\ mem'[a].gen # 0 => a = b
    BY <1>2, <1>3, <2>3, <2>4, <2>7
  <2>10. \A a \in 1 .. Len(mem') :
            mem'[a].ses = ses => \/ mem'[a].gen <= shm.lastGen
                                 \/ a = Len(mem')
    BY <1>3, <2>3, <2>4, <2>6
  <2>11. QED
    BY <2>1, <2>8, <2>9, <2>10 DEF Generations, SlotInv
<1>7. CASE ~SendShmInit /\ ~RemapSlots /\ ~\E f \in BOOLEAN : Connect(f)
  <2>1. /\ shm'.lastGen = shm.lastGen /\ ses' = ses /\ Len(mem') = n
        /\ th.pc = "remap" => th'.pc = "remap"
    BY <1>1, <1>7, CountersStep
  <2>2. \A i \in 1 .. Len(toServer') :
           toServer'[i].magic = "IKAR" => toServer'[i].gen \in 1 .. shm.lastGen
    BY <1>7, ReleasedGenerations
  <2> HIDE DEF n
  <2>3. \A a \in 1 .. n : mem'[a].ses <= ses
    BY <1>2, <1>3
  <2>4. \A a, b \in 1 .. n :
            mem'[a].ses = mem'[b].ses /\ mem'[a].gen = mem'[b].gen
               /\ mem'[a].gen # 0 => a = b
    BY <1>2, <1>3
  <2>5. \A a \in 1 .. n :
            mem'[a].ses = ses => \/ mem'[a].gen <= shm.lastGen
                                 \/ th'.pc = "remap" /\ a = n
    BY <1>2, <1>3, <2>1
  <2>6. QED
    BY <2>1, <2>2, <2>3, <2>4, <2>5 DEF Generations
<1>8. QED
  BY <1>4, <1>5, <1>6, <1>7
-----------------------------------------------------------------------------
LEMMA InitSlotInv ==
    ASSUME Init
    PROVE  SlotInv
<1>1. IInv
  BY InitIInv
<1>2. \A k, i, m, s : ~Has(k, i, m, s)
  BY DEF Init, Has, CopyHas, LatestHas, ThreadHas, NoticeHas, RefHas,
         ReleaseHas, IdleProd, EmptyFrame, IdleThread, NoRef
<1>3. Exclusive /\ Covered /\ Unused
  BY <1>2 DEF Exclusive, Covered, Unused
<1>4. Accounted /\ Generations /\ LatestInSlot
  BY DEF Init, Accounted, Generations, LatestInSlot, EmptyFrame, EmptyShm
<1>5. QED
  BY <1>1, <1>3, <1>4 DEF SlotInv

LEMMA StutterSlotInv ==
    ASSUME SlotInv, UNCHANGED vars
    PROVE  SlotInv'
<1>1. IInv'
  BY StutterIInv DEF SlotInv
<1>2. \A k, i, m, s : Has(k, i, m, s)' <=> Has(k, i, m, s)
  BY DEF vars, Has, CopyHas, LatestHas, ThreadHas, NoticeHas, RefHas,
         ReleaseHas
<1>3. Exclusive' /\ Covered' /\ Unused' /\ Accounted'
  BY <1>2 DEF SlotInv, Exclusive, Covered, Unused, Accounted, vars
<1>4. Generations' /\ LatestInSlot'
  BY DEF SlotInv, Generations, LatestInSlot, vars
<1>5. QED
  BY <1>1, <1>3, <1>4 DEF SlotInv

(* SlotInv is an invariant of the stream: each slot in use has one holder,   *)
(* and the busy slots are those that have one.                               *)
THEOREM SlotInvariant == Spec => []SlotInv
<1>1. Init => SlotInv
  BY InitSlotInv
<1>2. SlotInv /\ [Next]_vars => SlotInv'
  <2>1. ASSUME SlotInv, Next
        PROVE  SlotInv'
    <3>1. IInv'
      BY <2>1, TypeStep, ServerMappedStep, ThreadMappedStep, LinkStateStep,
         ConsoleMappedStep, WireOrderStep, ServerAnnouncedStep
      DEF SlotInv, IInv
    <3>2. SlotsKept' /\ Generations' /\ LatestInSlot'
      BY <2>1, SlotsStep, GenerationsStep, LatestInSlotStep
    <3>3. QED
      BY <3>1, <3>2 DEF SlotInv, SlotsKept
  <2>2. QED
    BY <2>1, StutterSlotInv
<1>3. QED
  BY <1>1, <1>2, PTL DEF Spec

(* No slot of shared memory is lost and none has two owners: with a live     *)
(* console, ClientShm::slot_busy is set exactly while OnFrame, the latest    *)
(* frame, the client thread, a notice, the console or an IKAR has the slot.  *)
THEOREM NoSlotIsLost == Spec => []SlotsAccounted
<1>1. SlotInv => SlotsAccounted
  <2> SUFFICES ASSUME SlotInv, shm.map # 0, shm.gen # 0, conn = "open"
               PROVE  shm.busy = InUse
    BY DEF SlotsAccounted
  <2>1. /\ IInv /\ TypeOK /\ shm \in ShmStates /\ shm.busy \subseteq Slots
        /\ shm.map \in 1 .. Len(mem) /\ mem[shm.map].gen = shm.gen
        /\ mem[shm.map].ses = ses /\ NoSlot \notin Slots
        /\ th.pc = "notify" => th.map = shm.map
    BY ConstantsInTypes
    DEF SlotInv, IInv, TypeOK, ShmStates, ServerMapped, ThreadMapped
  <2>2. ASSUME NEW s \in Slots
        PROVE  s \in InUse <=> \E k, i : Has(k, i, shm.map, s)
    <3>1. \A i \in 1 .. Len(toServer) :
             toServer[i] = IKAR(shm.gen, s) <=> ReleaseHas(i, shm.map, s)
      <4> SUFFICES ASSUME NEW i \in 1 .. Len(toServer)
                   PROVE  toServer[i] = IKAR(shm.gen, s)
                             <=> ReleaseHas(i, shm.map, s)
        OBVIOUS
      <4>1. toServer[i] \in ToServerMessages
        BY <2>1 DEF TypeOK
      <4>2. toServer[i] = IKAR(shm.gen, s) <=>
               /\ toServer[i].magic = "IKAR" /\ toServer[i].gen = shm.gen
               /\ toServer[i].slot = s
        BY <4>1 DEF ToServerMessages, IKAR
      <4>3. QED
        BY <2>1, <4>2 DEF ReleaseHas
    <3>2. \A i \in 1 .. Len(toClient) :
             /\ toClient[i].magic = "IKAN" /\ toClient[i].map = shm.map
             /\ toClient[i].slot = s
             <=> NoticeHas(i, shm.map, s)
      BY <2>1 DEF NoticeHas
    <3>3. \A r : r.map = shm.map /\ r.slot = s <=> RefHas(r, shm.map, s)
      BY DEF RefHas
    <3>4. latest.slot = s /\ ~latest.sent <=> LatestHas(shm.map, s)
      BY <2>1 DEF LatestHas
    <3>5. th.pc = "notify" /\ th.slot = s <=> ThreadHas(shm.map, s)
      BY <2>1 DEF ThreadHas
    <3>6. s \in InUse <=>
             \/ CopyHas(shm.map, s) \/ LatestHas(shm.map, s)
             \/ ThreadHas(shm.map, s)
             \/ \E i \in 1 .. Len(toClient) : NoticeHas(i, shm.map, s)
             \/ RefHas(cl.pending, shm.map, s) \/ RefHas(cl.screen, shm.map, s)
             \/ RefHas(cl.resume, shm.map, s)
             \/ \E i \in 1 .. Len(toServer) : ReleaseHas(i, shm.map, s)
      BY <3>1, <3>2, <3>3, <3>4, <3>5 DEF InUse, CopyHas
    <3>7. \A i : /\ NoticeHas(i, shm.map, s) => i \in 1 .. Len(toClient)
                 /\ ReleaseHas(i, shm.map, s) => i \in 1 .. Len(toServer)
      BY DEF NoticeHas, ReleaseHas
    <3>8. QED
      BY <3>6, <3>7 DEF Has
  <2>3. \A s \in Slots : s \in shm.busy <=> \E k, i : Has(k, i, shm.map, s)
    BY DEF SlotInv, Covered, Accounted
  <2>4. InUse \subseteq Slots
    BY DEF InUse
  <2>5. QED
    BY <2>1, <2>2, <2>3, <2>4
<1>2. QED
  BY <1>1, SlotInvariant, PTL
-----------------------------------------------------------------------------
(* What the console may read of a slot, and the server has ready for it:     *)
(* pixels nobody changes.                                                    *)
Kinds == {"latest", "notice", "pending", "screen", "resume"}

RefPix(r) == r.map # 0 => mem[r.map].pix[r.slot] = r.pix

PixKept ==
    /\ \A i \in 1 .. Len(toClient) :
          toClient[i].magic = "IKAN" /\ mem[toClient[i].map].gen # 0
             => mem[toClient[i].map].pix[toClient[i].slot] = toClient[i].pix
    /\ RefPix(cl.pending) /\ RefPix(cl.screen) /\ RefPix(cl.resume)

(* A write into one slot leaves the others alone.                            *)
LEMMA OthersKept ==
    ASSUME TypeOK, NEW m \in 1 .. Len(mem), NEW s \in Slots, NEW v \in Pixels,
           mem' = [mem EXCEPT ![m].pix[s] = v],
           NEW j \in 1 .. Len(mem), NEW t \in Slots, j # m \/ t # s
    PROVE  mem'[j].pix[t] = mem[j].pix[t]
  BY MemWrite

(* Who writes into a slot has it, or finds it free: not the console's.       *)
LEMMA WritesApart ==
    ASSUME SlotInv, Next, NEW k \in Kinds, NEW i, NEW m, NEW s,
           Has(k, i, m, s)
    PROVE  mem'[m].pix[s] = mem[m].pix[s]
<1>1. IInv /\ TypeOK /\ shm \in ShmStates /\ mem \in Seq(Memories)
  BY DEF SlotInv, IInv, TypeOK
<1>2. m \in 1 .. Len(mem) /\ s \in Slots /\ mem[m].gen # 0
  BY <1>1, HolderMemory
<1>3. ASSUME NEW a \in 1 .. Len(mem), NEW b \in Slots, NEW v \in Pixels,
             mem' = [mem EXCEPT ![a].pix[b] = v], a # m \/ b # s
      PROVE  mem'[m].pix[s] = mem[m].pix[s]
  BY <1>1, <1>2, <1>3, OthersKept
<1>4. ASSUME shm.gen # 0, NEW b \in Slots \ shm.busy
      PROVE  shm.map \in 1 .. Len(mem) /\ (shm.map # m \/ b # s)
  BY <1>1, <1>4 DEF SlotInv, Covered, IInv, ServerMapped, ShmStates, TypeOK
<1>5. ASSUME NEW size \in Sizes, OnFrameReserve(size)
      PROVE  mem'[m].pix[s] = mem[m].pix[s]
  <2>1. CASE mem' = mem
    BY <2>1
  <2>2. CASE mem' # mem
    <3>1. /\ CanReserve(size)
          /\ mem' = [mem EXCEPT ![shm.map].pix[FirstFree] = Torn]
      BY <1>5, <2>2 DEF OnFrameReserve
    <3>2. FirstFree \in Slots \ shm.busy /\ shm.gen # 0
      BY <1>1, <3>1, FirstFreeIsFree DEF CanReserve
    <3>3. QED
      BY <1>3, <1>4, <3>1, <3>2, ConstantsInTypes
  <2>3. QED
    BY <2>1, <2>2
<1>6. CASE OnFramePublish
  <2>1. CASE mem' = mem
    BY <2>1
  <2>2. CASE mem' # mem
    <3>1. /\ prod.pc = "slot"
          /\ mem' = [mem EXCEPT ![prod.map].pix[prod.slot] = drawn]
      BY <1>6, <2>2 DEF OnFramePublish
    <3>2. /\ prod.map \in 1 .. Len(mem) /\ prod.slot \in Slots
          /\ drawn \in Pixels
      BY <1>1, <3>1, ConstantsInTypes DEF IInv, ServerMapped, TypeOK
    <3>3. Has("copy", 0, prod.map, prod.slot)
      BY <3>1 DEF Has, CopyHas
    <3>4. prod.map # m \/ prod.slot # s
      BY <3>3 DEF SlotInv, Exclusive, Kinds
    <3>5. QED
      BY <1>3, <3>1, <3>2, <3>4
  <2>3. QED
    BY <2>1, <2>2
<1>7. shm.map # 0 => shm.map \in 1 .. Len(mem) /\ mem[shm.map].gen = shm.gen
  BY <1>1 DEF IInv, ServerMapped, ShmStates, TypeOK
<1>8. CASE AcquireShmSlot
  <2>1. PICK b \in Slots :
           /\ shm.gen = 0 \/ b \notin shm.busy
           /\ mem' = [mem EXCEPT ![shm.map].pix[b] = Torn]
    BY <1>1, <1>8, AcquiredSlot
  <2>2. shm.map # 0
    BY <1>1, <1>8 DEF AcquireShmSlot, IInv, ThreadMapped
  <2>3. shm.map # m \/ b # s
    BY <1>2, <1>4, <1>7, <2>1, <2>2
  <2>4. QED
    BY <1>3, <1>7, <2>1, <2>2, <2>3, ConstantsInTypes
<1>9. CASE SendShmNotify
  <2>1. /\ th.pc = "notify"
        /\ mem' = [mem EXCEPT ![th.map].pix[th.slot] = NotifiedPixels]
    BY <1>9 DEF SendShmNotify
  <2>2. th.map = shm.map /\ shm.map # 0 /\ th.slot \in Slots
    BY <1>1, <2>1 DEF IInv, ThreadMapped
  <2>3. NotifiedPixels \in Pixels
    <3>1. th \in ThreadStates
      BY <1>1 DEF TypeOK
    <3>2. QED
      BY <1>1, <1>7, <2>2, <3>1, MemPix
      DEF NotifiedPixels, ThreadStates, Frames
  <2>4. th.map # m \/ th.slot # s
    <3>1. CASE shm.gen = 0
      BY <1>2, <1>7, <2>2, <3>1
    <3>2. CASE shm.gen # 0
      <4>1. Has("thread", 0, th.map, th.slot)
        BY <2>1, <3>2 DEF Has, ThreadHas
      <4>2. QED
        BY <4>1 DEF SlotInv, Exclusive, Kinds
    <3>3. QED
      BY <3>1, <3>2
  <2>5. QED
    BY <1>3, <1>7, <2>1, <2>2, <2>3, <2>4
<1>10. CASE SendShmInit
  <2>1. mem'[m] = mem[m]
    BY <1>1, <1>2, <1>10, SeqAppend DEF SendShmInit
  <2>2. QED
    BY <2>1
<1>11. ASSUME ~(\E size \in Sizes : OnFrameReserve(size)), ~OnFramePublish,
              ~AcquireShmSlot, ~SendShmNotify, ~SendShmInit
       PROVE  mem' = mem
  BY <1>11
  DEF Next, WaylandThread, ClientThread, SourceThread, UiThread,
      OnDmabufFrame, ReadClientMessage, ReadEof, EndClient, HelloEof,
      BindClient, TakeLatestFrame, NothingToSend, WaitForClientOrFrame,
      SendInline, RemapSlots, SendFails, Connect, ProcessShmInit,
      ProcessShmFrame, ProcessInline, ClientEof, ClientLeaves, UpdateFrame,
      SetPaused, SetWindowHidden, server
<1>12. QED
  BY <1>5, <1>6, <1>8, <1>9, <1>10, <1>11

(* The console is told about the pixels that are in the slot.                *)
LEMMA PixStep ==
    ASSUME SlotInv, PixKept, Next
    PROVE  PixKept'
<1>1. /\ IInv /\ TypeOK /\ cl \in ConsoleStates /\ MemKept
      /\ toClient \in Seq(ToClientMessages) /\ Len(toClient) \in Nat
  BY MemStep DEF SlotInv, IInv, TypeOK
<1>2. ASSUME NEW i \in 1 .. Len(toClient), toClient[i].magic = "IKAN",
             mem'[toClient[i].map].gen # 0
      PROVE  mem'[toClient[i].map].pix[toClient[i].slot] = toClient[i].pix
  <2>1. mem[toClient[i].map].gen # 0
    BY <1>1, <1>2, NoticeMemory DEF MemKept
  <2>2. Has("notice", i, toClient[i].map, toClient[i].slot)
    BY <1>2, <2>1 DEF Has, NoticeHas
  <2>3. QED
    BY <1>2, <2>1, <2>2, WritesApart DEF PixKept, Kinds
<1>3. ASSUME NEW r, r \in {cl.pending, cl.screen, cl.resume}, r.map # 0
      PROVE  mem'[r.map].pix[r.slot] = r.pix
  <2>1. RefHas(r, r.map, r.slot)
    BY <1>3 DEF RefHas
  <2>2. \E k \in Kinds : Has(k, 0, r.map, r.slot)
    BY <1>3, <2>1 DEF Has, Kinds
  <2>3. mem[r.map].pix[r.slot] = r.pix
    BY <1>3 DEF PixKept, RefPix
  <2>4. QED
    BY <2>2, <2>3, WritesApart
<1>4. ASSUME NEW r, \/ r \in {cl.pending, cl.screen, cl.resume, NoRef}
                    \/ r.map = 0
      PROVE  r.map # 0 => mem'[r.map].pix[r.slot] = r.pix
  <2>1. NoRef.map = 0
    BY DEF NoRef
  <2>2. QED
    BY <1>3, <1>4, <2>1
<1>5. \A i \in 1 .. Len(toClient') :
         toClient'[i].magic = "IKAN" /\ mem'[toClient'[i].map].gen # 0 =>
            mem'[toClient'[i].map].pix[toClient'[i].slot] = toClient'[i].pix
  <2>1. WireStep
    BY <1>1, NextIsWireStep
  <2>2. CASE toClient' = toClient
    BY <1>2, <2>2
  <2>3. CASE toClient' = << >>
    BY <2>3
  <2>4. CASE toClient # << >> /\ toClient' = Tail(toClient)
    <3>1. /\ Len(toClient) \in Nat \ {0} /\ Len(toClient') = Len(toClient) - 1
          /\ \A j \in 1 .. Len(toClient') : toClient'[j] = toClient[j + 1]
      BY <1>1, <2>4, SeqTail
    <3>2. \A j \in 1 .. Len(toClient') : j + 1 \in 1 .. Len(toClient)
      BY <3>1
    <3>3. QED
      BY <1>2, <3>1, <3>2
  <2>5. ASSUME NEW e, toClient' = Append(toClient, e),
               e.magic = "IKAN" => mem'[e.map].pix[e.slot] = e.pix
        PROVE  \A i \in 1 .. Len(toClient') :
                 toClient'[i].magic = "IKAN" /\ mem'[toClient'[i].map].gen # 0
                 => mem'[toClient'[i].map].pix[toClient'[i].slot]
                       = toClient'[i].pix
    <3>1. /\ Len(toClient') = Len(toClient) + 1
          /\ toClient'[Len(toClient) + 1] = e
          /\ \A j \in 1 .. Len(toClient) : toClient'[j] = toClient[j]
      BY <1>1, <2>5
    <3>2. \A j \in 1 .. Len(toClient') :
             j \in 1 .. Len(toClient) \/ j = Len(toClient) + 1
      BY <1>1, <3>1
    <3>3. QED
      BY <1>2, <2>5, <3>1, <3>2
  <2>6. InlineMessage.magic # "IKAN" /\ InitMessage.magic # "IKAN"
    BY DEF InlineMessage, InitMessage
  <2>7. CASE SendShmNotify
    <3>1. /\ th.pc = "notify"
          /\ mem' = [mem EXCEPT ![th.map].pix[th.slot] = NotifiedPixels]
          /\ toClient' = Append(toClient, NoticeMessage)
      BY <2>7 DEF SendShmNotify, Send, NoticeMessage
    <3>2. /\ th.map \in 1 .. Len(mem) /\ th.slot \in Slots
      BY <1>1, <3>1 DEF IInv, ThreadMapped, ServerMapped, TypeOK, ShmStates
    <3>3. NotifiedPixels \in Pixels
      <4>1. th \in ThreadStates
        BY <1>1 DEF TypeOK
      <4>2. QED
        BY <1>1, <3>2, <4>1, MemPix DEF NotifiedPixels, ThreadStates, Frames
    <3>4. mem'[th.map].pix[th.slot] = NotifiedPixels
      <4> DEFINE a == th.map
                 b == th.slot
                 v == NotifiedPixels
      <4>1. mem' = [mem EXCEPT ![a].pix[b] = v]
        BY <3>1
      <4>2. a \in 1 .. Len(mem) /\ b \in Slots
        BY <3>2
      <4> HIDE DEF a, b, v
      <4>3. mem \in Seq(Memories) /\ mem[a] \in Memories
        BY <1>1, <4>2, MemPix DEF TypeOK
      <4>4. mem'[a] = [mem[a] EXCEPT !.pix[b] = v]
        BY <4>1, <4>2, <4>3
      <4>5. mem'[a].pix = [mem[a].pix EXCEPT ![b] = v]
        BY <4>3, <4>4 DEF Memories
      <4>6. mem'[a].pix[b] = v
        BY <4>2, <4>3, <4>5 DEF Memories
      <4>7. QED
        BY <4>6 DEF a, b, v
    <3>5. /\ NoticeMessage.map = th.map /\ NoticeMessage.slot = th.slot
          /\ NoticeMessage.pix = NotifiedPixels
      BY DEF NoticeMessage
    <3>6. QED
      BY <2>5, <3>1, <3>4, <3>5
  <2>8. QED
    BY <2>1, <2>2, <2>3, <2>4, <2>5, <2>6, <2>7 DEF WireStep
<1>6. ASSUME ~ProcessShmFrame
      PROVE  /\ \/ cl'.pending \in {cl.pending, cl.screen, cl.resume, NoRef}
                \/ cl'.pending.map = 0
             /\ cl'.screen \in {cl.pending, cl.screen, cl.resume, NoRef}
             /\ cl'.resume \in {cl.pending, cl.screen, cl.resume, NoRef}
  <2>1. CASE cl' = cl
    BY <2>1
  <2>2. CASE UiThread
    BY <1>1, <2>2 DEF UiThread, UpdateFrame, SetPaused, ShowResumeFrame,
        SetWindowHidden, ConsoleStates
  <2>3. CASE ProcessShmInit \/ ClientEof \/ ClientLeaves
    BY <1>1, <2>3 DEF ProcessShmInit, ClientEof, ClientLeaves, ConsoleStates
  <2>4. CASE ProcessInline
    <3> DEFINE r == [NoRef EXCEPT !.id = Head(toClient).id,
                                  !.pix = Head(toClient).pix]
    <3>1. cl' = cl \/ cl' = [cl EXCEPT !.pending = r]
      BY <2>4 DEF ProcessInline, Push
    <3>2. r.map = 0
      BY DEF NoRef
    <3> HIDE DEF r
    <3>3. QED
      BY <1>1, <3>1, <3>2 DEF ConsoleStates
  <2>5. CASE WaylandThread \/ ClientThread \/ \E f \in BOOLEAN : Connect(f)
    <3>1. cl' = cl
      BY <2>5
      DEF WaylandThread, ClientThread, OnFrameReserve, OnFramePublish,
          OnDmabufFrame, ReadClientMessage, ReadEof, EndClient, HelloEof,
          BindClient, TakeLatestFrame, NothingToSend, WaitForClientOrFrame,
          SendInline, SendShmInit, RemapSlots, AcquireShmSlot, SendShmNotify,
          SendFails, Connect, console
    <3>2. QED
      BY <2>1, <3>1
  <2>6. QED
    BY <1>6, <2>2, <2>3, <2>4, <2>5 DEF Next, SourceThread
<1>7. CASE ~ProcessShmFrame
  BY <1>4, <1>5, <1>6, <1>7 DEF PixKept, RefPix
<1>8. CASE ProcessShmFrame
  <2> DEFINE h == Head(toClient)
             r == [id |-> h.id, map |-> cl.map, slot |-> h.slot, pix |-> h.pix]
             c == [NoRef EXCEPT !.id = h.id, !.pix = mem[cl.map].pix[h.slot]]
  <2>1. /\ toClient # << >> /\ h.magic = "IKAN" /\ h.map = cl.map
        /\ cl.map # 0 /\ cl.map \in 1 .. Len(mem) /\ mem' = mem
    BY <1>1, <1>8, HeadNotice DEF ProcessShmFrame, Receive, server
  <2>2. h = toClient[1] /\ 1 \in 1 .. Len(toClient)
    BY <1>1, <2>1, SeqTail
  <2>3. mem[cl.map].gen # 0 => mem[cl.map].pix[h.slot] = h.pix
    BY <2>1, <2>2 DEF PixKept
  <2>4. /\ r.map = cl.map /\ r.slot = h.slot /\ r.pix = h.pix /\ c.map = 0
    BY DEF NoRef
  <2>5. cl' = cl \/ cl' = [cl EXCEPT !.pending = IF mem[cl.map].gen # 0
                                                 THEN r ELSE c]
    BY <1>8 DEF ProcessShmFrame, Push
  <2> HIDE DEF r, c, h
  <2>6. /\ cl'.screen = cl.screen /\ cl'.resume = cl.resume
        /\ \/ cl'.pending \in {cl.pending, c}
           \/ mem[cl.map].gen # 0 /\ cl'.pending = r
    BY <1>1, <2>5 DEF ConsoleStates
  <2>7. cl'.pending.map # 0 => mem'[cl'.pending.map].pix[cl'.pending.slot]
                                  = cl'.pending.pix
    BY <1>4, <2>1, <2>3, <2>4, <2>6
  <2>8. QED
    BY <1>4, <1>5, <2>6, <2>7 DEF PixKept, RefPix
<1>9. QED
  BY <1>7, <1>8

(* The pixels of a slot do not change while the console may read it: nobody  *)
(* writes into it, whatever OnFrame, the client thread, a remap, a late IKAR *)
(* or the end of a session do.                                               *)
THEOREM SlotsAreStable == Spec => []SlotsStable
<1>1. Init => PixKept
  BY DEF Init, PixKept, RefPix, NoRef
<1>2. SlotInv /\ PixKept /\ [Next]_vars => PixKept'
  <2>1. ASSUME SlotInv, PixKept, UNCHANGED vars
        PROVE  PixKept'
    BY <2>1 DEF vars, PixKept, RefPix
  <2>2. QED
    BY <2>1, PixStep
<1>3. PixKept => SlotsStable
  BY DEF PixKept, RefPix, SlotsStable, ConsoleRefs, Wire
<1>4. QED
  BY <1>1, <1>2, <1>3, SlotInvariant, PTL DEF Spec
=============================================================================
