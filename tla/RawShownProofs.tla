---------------------------- MODULE RawShownProofs ----------------------------
(* What the window of RawFrames shows: whole frames of the display, in their *)
(* order; for every number of slots, frames, connections, window changes and *)
(* every set of frame sizes.                                                 *)
EXTENDS RawSlotsProofs

(* What the display is paused for is shown when it resumes.                  *)
ResumeKept == ~cl.paused => cl.resume = NoRef

(* The shared memory of a connection knows what its client shows.            *)
ForeignKnown ==
    /\ shm.map # 0 => mem[shm.map].foreign = foreign
    /\ th.pc = "remap" => mem[Len(mem)].foreign = foreign

(* What the client thread carries.                                           *)
Carries == th.pc \in {"inline", "init", "remap", "acquire", "notify"}
ThreadFrame ==
    th.frame.slot # NoSlot =>
        th.pc = "notify" /\ th.frame.slot = th.slot /\ shm.gen # 0

(* The latest frame, once sent in a slot, is the last one on its way: nobody *)
(* drops it before there is another one.                                     *)
Sent == latest.slot # NoSlot /\ latest.sent
IsLatest(r) == r.map = shm.map /\ r.slot = latest.slot
LastOnWay ==
    \/ th.pc = "notify"
    \/ /\ toClient # << >>
       /\ toClient[Len(toClient)].magic = "IKAN"
       /\ IsLatest(toClient[Len(toClient)])
    \/ toClient = << >> /\ IsLatest(cl.pending)
    \/ toClient = << >> /\ cl.pending = NoRef /\ IsLatest(cl.resume)
    \/ /\ toClient = << >> /\ cl.pending = NoRef /\ cl.resume = NoRef
       /\ IsLatest(cl.screen)
LatestKept ==
    Sent /\ ~foreign =>
        /\ th.pc \in {"loop", "poll", "notify"}
        /\ th.pc = "notify" => th.frame.slot = latest.slot
        /\ latest.slot \in shm.busy
        /\ ~CopyHas(shm.map, latest.slot)
        /\ \A i \in 1 .. Len(toServer) : ~ReleaseHas(i, shm.map, latest.slot)
        /\ conn = "open" => LastOnWay

(* The pixels that go with a frame's number are those of that frame.         *)
Whole ==
    /\ latest.slot = NoSlot => latest.pix = latest.id
    /\ latest.slot # NoSlot => mem[shm.map].pix[latest.slot] = latest.id
    /\ th.frame.slot = NoSlot => th.frame.pix = th.frame.id
    /\ th.frame.slot # NoSlot => mem[th.map].pix[th.slot] = th.frame.id
    /\ \A i \in 1 .. Len(toClient) :
          toClient[i].magic # "IKAS" => toClient[i].pix = toClient[i].id
    /\ cl.pending.pix = cl.pending.id
    /\ cl.screen.pix = cl.screen.id
    /\ cl.resume.pix = cl.resume.id
WholeInTime == HellosInTime => Whole

(* Frames are numbered from 1.                                               *)
Numbered ==
    /\ latest.type # "none" => latest.id # NoFrame
    /\ Carries => th.frame.id # NoFrame
    /\ \A i \in 1 .. Len(toClient) :
          toClient[i].magic # "IKAS" => toClient[i].id # NoFrame
    /\ cl.pending # NoRef => cl.pending.id # NoFrame
    /\ cl.resume # NoRef => cl.resume.id # NoFrame

(* Frames keep their order on the way.                                       *)
Behind(f) ==
    /\ \A i \in 1 .. Len(toClient) :
          toClient[i].magic # "IKAS" => f <= toClient[i].id
    /\ Carries => f <= th.frame.id
    /\ f <= latest.id
InOrder ==
    /\ latest.id <= drawn
    /\ prod.pc # "idle" => latest.id < drawn
    /\ Carries => th.frame.id <= latest.id
    /\ \A i \in 1 .. Len(toClient) : toClient[i].magic # "IKAS" =>
          /\ Carries => toClient[i].id <= th.frame.id
          /\ toClient[i].id <= latest.id
    /\ \A i, j \in 1 .. Len(toClient) :
          i < j /\ toClient[i].magic # "IKAS" /\ toClient[j].magic # "IKAS"
             => toClient[i].id <= toClient[j].id
    /\ Behind(cl.pending.id) /\ Behind(cl.resume.id) /\ Behind(cl.screen.id)
    /\ cl.pending # NoRef => /\ cl.resume.id <= cl.pending.id
                             /\ cl.screen.id <= cl.pending.id
    /\ cl.resume # NoRef => cl.screen.id <= cl.resume.id

(* A client whose hello is waited for releases its slots.                    *)
HelloRead ==
    ~LateHello =>
        /\ ~foreign
        /\ th.pc = "hello" =>
              \/ shm.releases
              \/ \E i \in 1 .. Len(toServer) : toServer[i].magic = "IKAH"
        /\ th.pc \notin {"none", "hello"} => shm.releases
        /\ HellosInTime

(* The inductive invariant of the way of a frame.                            *)
WayInv == /\ SlotInv /\ ResumeKept /\ ForeignKnown /\ ThreadFrame /\ LatestKept
          /\ WholeInTime /\ Numbered /\ InOrder /\ HelloRead
-----------------------------------------------------------------------------
(* A shared memory stays one for the client it was made for.                 *)
LEMMA ForeignStep ==
    ASSUME IInv, Next
    PROVE  \A j \in 1 .. Len(mem) : mem'[j].foreign = mem[j].foreign
<1> DEFINE Kept == \A j \in 1 .. Len(mem) : mem'[j].foreign = mem[j].foreign
<1>1. mem \in Seq(Memories) /\ TypeOK
  BY DEF IInv, TypeOK
<1>2. CASE mem' = mem
  BY <1>2
<1>3. ASSUME NEW m, NEW s, NEW v, mem' = [mem EXCEPT ![m].pix[s] = v]
      PROVE  Kept
  <2> SUFFICES ASSUME NEW j \in 1 .. Len(mem)
               PROVE  mem'[j].foreign = mem[j].foreign
    OBVIOUS
  <2>1. mem[j] \in Memories
    BY <1>1
  <2>2. mem'[j] = mem[j] \/ mem'[j] = [mem[j] EXCEPT !.pix[s] = v]
    BY <1>1, <1>3
  <2>3. QED
    BY <2>1, <2>2 DEF Memories
<1>4. CASE SendShmInit
  BY <1>1, <1>4, SeqAppend DEF SendShmInit
<1>5. ASSUME NEW size, OnFrameReserve(size)
      PROVE  Kept
  BY <1>2, <1>3, <1>5 DEF OnFrameReserve
<1>6. CASE OnFramePublish
  <2>1. mem' = mem \/ mem' = [mem EXCEPT ![prod.map].pix[prod.slot] = drawn]
    BY <1>6 DEF OnFramePublish
  <2>2. QED
    BY <1>2, <1>3, <2>1
<1>7. CASE AcquireShmSlot
  BY <1>3, <1>7 DEF AcquireShmSlot
<1>8. CASE SendShmNotify
  BY <1>3, <1>8 DEF SendShmNotify
<1>9. ASSUME ~(\E size \in Sizes : OnFrameReserve(size)), ~OnFramePublish,
             ~AcquireShmSlot, ~SendShmNotify, ~SendShmInit
      PROVE  mem' = mem
  BY <1>9
  DEF Next, WaylandThread, ClientThread, SourceThread, UiThread,
      OnDmabufFrame, ReadClientMessage, ReadEof, EndClient, HelloEof,
      BindClient, TakeLatestFrame, NothingToSend, WaitForClientOrFrame,
      SendInline, RemapSlots, SendFails, Connect, ProcessShmInit,
      ProcessShmFrame, ProcessInline, ClientEof, ClientLeaves, UpdateFrame,
      SetPaused, SetWindowHidden, server
<1>10. QED
  BY <1>2, <1>4, <1>5, <1>6, <1>7, <1>8, <1>9

(* What a step does to the frame the client thread carries.                  *)
ThreadMoves ==
    \/ th' = th
    \/ TakeLatestFrame
    \/ /\ th'.frame = EmptyFrame /\ th'.pc \in {"none", "hello"}
       /\ EndClient \/ HelloEof \/ \E f \in BOOLEAN : Connect(f)
    \/ /\ th'.frame = EmptyFrame /\ th'.pc = "loop"
       /\ SendInline \/ SendShmNotify
    \/ /\ th'.frame = th.frame
       /\ th.pc \in {"hello", "loop", "poll"} /\ th'.pc \in {"loop", "poll"}
    \/ /\ th'.frame = th.frame
       /\ \/ SendShmInit /\ th.pc = "init" /\ th'.pc = "remap"
          \/ RemapSlots /\ th.pc = "remap" /\ th'.pc = "acquire"
          \/ AcquireShmSlot /\ th.pc = "acquire" /\ th'.pc = "notify"

LEMMA ThreadStep ==
    ASSUME IInv, Next
    PROVE  ThreadMoves
<1>1. th \in ThreadStates
  BY DEF IInv, TypeOK
<1>2. CASE WaylandThread \/ UiThread \/ ReadClientMessage \/ ProcessShmInit
           \/ ProcessShmFrame \/ ProcessInline \/ ClientEof \/ ClientLeaves
  <2>1. th' = th
    BY <1>2 DEF WaylandThread, UiThread, OnFrameReserve, OnFramePublish,
        OnDmabufFrame, ReadClientMessage, ProcessShmInit, ProcessShmFrame,
        ProcessInline, ClientEof, ClientLeaves, UpdateFrame, SetPaused,
        SetWindowHidden, server
  <2>2. QED
    BY <2>1 DEF ThreadMoves
<1>3. CASE EndClient \/ HelloEof
  BY <1>3 DEF ThreadMoves, EndClient, HelloEof, IdleThread
<1>4. CASE SendInline
  BY <1>1, <1>4 DEF ThreadMoves, SendInline, ThreadStates
<1>5. CASE SendShmNotify \/ \E f \in BOOLEAN : Connect(f)
  <2>1. \/ /\ th' = [IdleThread EXCEPT !.pc = "hello"]
           /\ \E f \in BOOLEAN : Connect(f)
        \/ /\ th' = [IdleThread EXCEPT !.pc = "loop", !.sentGen = th.sentGen]
           /\ SendShmNotify
    BY <1>5 DEF SendShmNotify, Connect
  <2>2. QED
    BY <2>1 DEF ThreadMoves, IdleThread
<1>6. CASE BindClient \/ NothingToSend \/ WaitForClientOrFrame
  BY <1>1, <1>6 DEF ThreadMoves, BindClient, NothingToSend,
      WaitForClientOrFrame, ThreadStates
<1>7. CASE SendShmInit \/ RemapSlots \/ AcquireShmSlot
  BY <1>1, <1>7 DEF ThreadMoves, SendShmInit, RemapSlots, AcquireShmSlot,
      ThreadStates
<1>8. QED
  BY <1>2, <1>3, <1>4, <1>5, <1>6, <1>7
  DEF ThreadMoves, Next, ClientThread, SourceThread, ReadEof, SendFails

(* The slots are remade, or unmapped, by three steps.                        *)
ShmMoves ==
    \/ RemapSlots \/ EndClient \/ \E f \in BOOLEAN : Connect(f)
    \/ /\ shm'.map = shm.map /\ shm'.gen = shm.gen
       /\ shm.releases => shm'.releases

LEMMA ShmStep ==
    ASSUME IInv, Next
    PROVE  ShmMoves
<1> DEFINE Kept == /\ shm'.map = shm.map /\ shm'.gen = shm.gen
                   /\ shm.releases => shm'.releases
<1>1. shm \in ShmStates /\ TypeOK
  BY DEF IInv, TypeOK
<1>2. ASSUME NEW f, ReplaceLatestFrame(f)
      PROVE  Kept
  BY <1>1, <1>2 DEF ReplaceLatestFrame, ShmStates
<1>3. ASSUME NEW s, shm' = TakeSlot(s)
      PROVE  Kept
  BY <1>1, <1>3, TakeSlotFields
<1>4. ASSUME NEW n, shm' = [shm EXCEPT !.next = n]
      PROVE  Kept
  BY <1>1, <1>4 DEF ShmStates
<1>5. CASE ReadClientMessage
  <2>1. Head(toServer) \in ToServerMessages
    BY <1>5, SeqTail DEF IInv, TypeOK, ReadClientMessage
  <2>2. Head(toServer).magic \in {"IKAH", "IKAP", "IKAR"}
    BY <2>1 DEF ToServerMessages
  <2>3. \/ shm' = [shm EXCEPT !.releases = TRUE]
        \/ shm' = [shm EXCEPT !.paused = Head(toServer).hidden]
        \/ shm' = [shm EXCEPT !.busy = @ \ ReleasedSlots(Head(toServer))]
    BY <1>5, <2>2 DEF ReadClientMessage
  <2>4. QED
    BY <1>1, <2>3 DEF ShmStates, ShmMoves
<1>6. CASE WaylandThread
  <2>1. \/ shm' = shm \/ (\E f : ReplaceLatestFrame(f))
        \/ \E s : shm' = TakeSlot(s)
    <3>1. CASE OnFramePublish
      BY <3>1 DEF OnFramePublish
    <3>2. ASSUME NEW size, OnFrameReserve(size)
          PROVE  shm' = shm \/ \E s : shm' = TakeSlot(s)
      BY <3>2 DEF OnFrameReserve
    <3>3. ASSUME NEW size, OnDmabufFrame(size)
          PROVE  \E f : ReplaceLatestFrame(f)
      BY <3>3, Zenon DEF OnDmabufFrame
    <3>4. QED
      BY <1>6, <3>1, <3>2, <3>3 DEF WaylandThread
  <2>2. QED
    BY <1>2, <1>3, <2>1 DEF ShmMoves
<1>7. CASE AcquireShmSlot
  BY <1>3, <1>4, <1>7 DEF AcquireShmSlot, ShmMoves
<1>8. ASSUME ~WaylandThread, ~ReadClientMessage, ~AcquireShmSlot, ~RemapSlots,
             ~EndClient, ~\E f \in BOOLEAN : Connect(f)
      PROVE  shm' = shm
  BY <1>8
  DEF Next, ClientThread, SourceThread, UiThread, ReadEof, HelloEof,
      BindClient, TakeLatestFrame, NothingToSend, WaitForClientOrFrame,
      SendInline, SendShmInit, SendShmNotify, SendFails, ProcessShmInit,
      ProcessShmFrame, ProcessInline, ClientEof, ClientLeaves, UpdateFrame,
      SetPaused, SetWindowHidden, server
<1>9. QED
  BY <1>5, <1>6, <1>7, <1>8 DEF ShmMoves

(* What a step does to the latest frame.                                     *)
LatestMoves ==
    \/ latest' = latest
    \/ TakeLatestFrame
    \/ (EndClient \/ RemapSlots) /\ latest' = DetachLatestFrame(latest)
    \/ /\ OnFramePublish /\ ~latest'.sent
       /\ latest'.type = "raw" /\ latest'.id = drawn
       /\ \/ latest'.slot = NoSlot /\ latest'.pix = drawn
          \/ /\ prod.pc = "slot" /\ prod.map = shm.map
             /\ latest'.slot = prod.slot
    \/ /\ \E size \in Sizes : OnDmabufFrame(size)
       /\ latest'.type = "dmabuf" /\ latest'.id = drawn + 1 /\ ~latest'.sent
       /\ latest'.slot = NoSlot /\ latest'.pix = drawn + 1

LEMMA LatestStep ==
    ASSUME IInv, Next
    PROVE  LatestMoves
<1>1. CASE EndClient \/ RemapSlots
  BY <1>1 DEF LatestMoves, EndClient, RemapSlots
<1>2. CASE OnFramePublish
  BY <1>2 DEF LatestMoves, OnFramePublish, ReplaceLatestFrame, RawFrame
<1>3. ASSUME NEW size \in Sizes, OnDmabufFrame(size)
      PROVE  LatestMoves
  <2>1. latest' = [EmptyFrame EXCEPT !.type = "dmabuf", !.id = drawn + 1,
                                     !.size = size, !.pix = drawn + 1]
    BY <1>3 DEF OnDmabufFrame, ReplaceLatestFrame
  <2>2. QED
    BY <1>3, <2>1 DEF LatestMoves, EmptyFrame
<1>4. ASSUME ~EndClient, ~RemapSlots, ~OnFramePublish, ~TakeLatestFrame,
             ~\E size \in Sizes : OnDmabufFrame(size)
      PROVE  latest' = latest
  BY <1>4
  DEF Next, WaylandThread, ClientThread, SourceThread, UiThread,
      OnFrameReserve, ReadClientMessage, ReadEof, HelloEof, BindClient,
      NothingToSend, WaitForClientOrFrame, SendInline, SendShmInit,
      AcquireShmSlot, SendShmNotify, SendFails, Connect, ProcessShmInit,
      ProcessShmFrame, ProcessInline, ClientEof, ClientLeaves, UpdateFrame,
      SetPaused, SetWindowHidden, server, display
<1>5. QED
  BY <1>1, <1>2, <1>3, <1>4 DEF LatestMoves

(* A detached frame has pixels of its own.                                   *)
LEMMA DetachedFrame ==
    ASSUME IInv, NEW f, f = DetachLatestFrame(latest)
    PROVE  /\ f.slot = NoSlot /\ f.id = latest.id /\ f.type = latest.type
           /\ f.pix = IF latest.slot = NoSlot THEN latest.pix
                      ELSE mem[shm.map].pix[latest.slot]
<1>1. latest \in Frames /\ (latest.slot # NoSlot => shm.map # 0)
  BY DEF IInv, TypeOK, ServerMapped
<1>2. QED
  BY <1>1 DEF DetachLatestFrame, Frames

(* What TakeLatestFrame takes.                                               *)
LEMMA TakenFrame ==
    ASSUME SlotInv, TakeLatestFrame
    PROVE  /\ th'.frame = latest /\ th'.map = shm.map /\ th'.slot = latest.slot
           /\ latest'.id = latest.id /\ latest'.pix = latest.pix
           /\ latest'.slot = latest.slot /\ latest'.type = latest.type
           /\ latest'.sent <=> latest.slot # NoSlot
           /\ latest.slot # NoSlot => /\ th'.pc = "notify" /\ ~latest.sent
                                      /\ shm.gen # 0 /\ shm.map # 0
           /\ latest.slot = NoSlot => th'.pc \in {"poll", "inline", "init",
                                                  "acquire"}
           /\ latest.type = "none" <=> th'.pc = "poll"
           /\ shm' = shm /\ mem' = mem /\ toClient' = toClient
           /\ toServer' = toServer /\ cl' = cl /\ prod' = prod /\ drawn' = drawn
           /\ conn' = conn /\ foreign' = foreign /\ ses' = ses
<1>1. th \in ThreadStates /\ latest \in Frames
  BY DEF SlotInv, IInv, TypeOK
<1>2. /\ th'.frame = latest /\ th'.map = shm.map /\ th'.slot = latest.slot
      /\ latest'.id = latest.id /\ latest'.pix = latest.pix
      /\ latest'.slot = latest.slot /\ latest'.type = latest.type
      /\ latest'.sent <=> latest.slot # NoSlot
  BY <1>1 DEF TakeLatestFrame, ThreadStates, Frames
<1>3. latest.slot # NoSlot => /\ latest.type = "raw" /\ ~latest.sent
                              /\ shm.gen # 0 /\ shm.map # 0
  BY DEF SlotInv, LatestInSlot, TakeLatestFrame, IInv, ServerMapped
<1>4. /\ latest.slot # NoSlot => th'.pc = "notify"
      /\ latest.slot = NoSlot => th'.pc \in {"poll", "inline", "init",
                                             "acquire"}
      /\ latest.type = "none" <=> th'.pc = "poll"
  <2> DEFINE p == CASE latest.type = "none" -> "poll"
                    [] latest.type = "dmabuf" -> "inline"
                    [] latest.type = "raw" /\ latest.slot # NoSlot -> "notify"
                    [] OTHER -> IF NeedsShmInit THEN "init" ELSE "acquire"
  <2>1. th'.pc = p
    BY <1>1 DEF TakeLatestFrame, ThreadStates
  <2>2. latest.type = "none" \/ latest.type = "dmabuf" => latest.slot = NoSlot
    BY <1>3
  <2>3. latest.type \in {"none", "raw", "dmabuf"}
    BY <1>1 DEF Frames
  <2>4. CASE latest.type = "none"
    BY <2>1, <2>2, <2>4
  <2>5. CASE latest.type = "dmabuf"
    BY <2>1, <2>2, <2>5
  <2>6. CASE latest.type = "raw" /\ latest.slot # NoSlot
    BY <2>1, <2>6
  <2>7. CASE latest.type = "raw" /\ latest.slot = NoSlot
    BY <2>1, <2>7
  <2>8. QED
    BY <2>3, <2>4, <2>5, <2>6, <2>7
<1>5. QED
  BY <1>2, <1>3, <1>4 DEF TakeLatestFrame, link, console

(* What a step does to the frames of the console.                            *)
Stays == /\ cl'.pending = cl.pending /\ cl'.screen = cl.screen
         /\ cl'.resume = cl.resume
Pushed ==
    /\ ~foreign /\ toClient # << >> /\ toClient' = Tail(toClient)
    /\ Head(toClient).magic # "IKAS" /\ cl'.pending.id = Head(toClient).id
    /\ \/ cl'.pending.pix = Head(toClient).pix
       \/ Head(toClient).magic = "IKAN" /\ mem[cl.map].gen = 0
    /\ Head(toClient).magic = "IKAN" /\ mem[cl.map].gen # 0 =>
          cl'.pending.map = cl.map /\ cl'.pending.slot = Head(toClient).slot
    /\ cl'.screen = cl.screen /\ cl'.resume = cl.resume
    /\ toServer' = toServer \o Releases(cl.pending)
    /\ UNCHANGED <<drawn, server, link>>
Shown ==
    /\ cl.pending # NoRef /\ ~cl.paused
    /\ cl'.screen = cl.pending /\ cl'.pending = NoRef /\ cl'.resume = cl.resume
    /\ toServer' = toServer \o Releases(cl.screen)
    /\ UNCHANGED <<drawn, server, link, toClient>>
PutBy ==
    /\ cl.pending # NoRef /\ cl.paused
    /\ cl'.resume = cl.pending /\ cl'.pending = NoRef /\ cl'.screen = cl.screen
    /\ toServer' = toServer \o Releases(cl.resume)
    /\ UNCHANGED <<drawn, server, link, toClient>>
Resumed ==
    /\ cl.resume # NoRef
    /\ cl'.screen = cl.resume /\ cl'.resume = NoRef /\ cl'.pending = cl.pending
    /\ toServer' = toServer \o Releases(cl.screen)
    /\ UNCHANGED <<drawn, server, link, toClient>>
Closed ==
    /\ cl'.pending = NoRef /\ cl'.screen = NoRef /\ cl'.resume = NoRef
    /\ toClient' = << >> /\ conn' # "open"
    /\ UNCHANGED <<drawn, server, ses, foreign, toServer>>

RefMoves == Stays \/ Pushed \/ Shown \/ PutBy \/ Resumed \/ Closed

LEMMA PushedRef ==
    ASSUME IInv, ProcessShmFrame \/ ProcessInline, ~foreign
    PROVE  Pushed
<1>1. cl \in ConsoleStates
  BY DEF IInv, TypeOK
<1>2. CASE ProcessInline
  <2> DEFINE r == [NoRef EXCEPT !.id = Head(toClient).id,
                                !.pix = Head(toClient).pix]
  <2>1. /\ toClient # << >> /\ toClient' = Tail(toClient)
        /\ Head(toClient).magic = "IKAF" /\ cl' = [cl EXCEPT !.pending = r]
        /\ toServer' = toServer \o Releases(cl.pending)
        /\ UNCHANGED <<drawn, server, link>>
    BY <1>2 DEF ProcessInline, Receive, Push
  <2>2. r.id = Head(toClient).id /\ r.pix = Head(toClient).pix
    BY DEF NoRef
  <2> HIDE DEF r
  <2>3. /\ cl'.pending = r /\ cl'.screen = cl.screen
        /\ cl'.resume = cl.resume
    BY <1>1, <2>1 DEF ConsoleStates
  <2>4. QED
    BY <2>1, <2>2, <2>3 DEF Pushed
<1>3. CASE ProcessShmFrame
  <2> DEFINE m == Head(toClient)
             q == [id |-> m.id, map |-> cl.map, slot |-> m.slot, pix |-> m.pix]
             c == [NoRef EXCEPT !.id = m.id, !.pix = mem[cl.map].pix[m.slot]]
             r == IF mem[cl.map].gen # 0 THEN q ELSE c
  <2>1. /\ toClient # << >> /\ toClient' = Tail(toClient)
        /\ m.magic = "IKAN" /\ cl' = [cl EXCEPT !.pending = r]
        /\ toServer' = toServer \o Releases(cl.pending)
        /\ UNCHANGED <<drawn, server, link>>
    BY <1>3 DEF ProcessShmFrame, Receive, Push
  <2>2. /\ r.id = m.id /\ (r.pix = m.pix \/ mem[cl.map].gen = 0)
        /\ mem[cl.map].gen # 0 => r.map = cl.map /\ r.slot = m.slot
    BY DEF NoRef
  <2> HIDE DEF r
  <2>3. /\ cl'.pending = r /\ cl'.screen = cl.screen
        /\ cl'.resume = cl.resume
    BY <1>1, <2>1 DEF ConsoleStates
  <2>4. QED
    BY <2>1, <2>2, <2>3 DEF Pushed
<1>4. QED
  BY <1>2, <1>3

LEMMA RefStep ==
    ASSUME IInv, Next
    PROVE  RefMoves
<1>1. cl \in ConsoleStates
  BY DEF IInv, TypeOK
<1>2. CASE UpdateFrame
  BY <1>1, <1>2 DEF UpdateFrame, ConsoleStates, RefMoves, Shown, PutBy
<1>3. ASSUME NEW p \in BOOLEAN, SetPaused(p)
      PROVE  RefMoves
  <2>1. CASE cl.paused /\ cl.resume # NoRef
    BY <1>1, <1>3, <2>1
    DEF SetPaused, ShowResumeFrame, ConsoleStates, RefMoves, Resumed
  <2>2. CASE ~(cl.paused /\ cl.resume # NoRef)
    BY <1>1, <1>3, <2>2 DEF SetPaused, ConsoleStates, RefMoves, Stays
  <2>3. QED
    BY <2>1, <2>2
<1>4. CASE ClientLeaves
  BY <1>1, <1>4 DEF ClientLeaves, ConsoleStates, RefMoves, Closed
<1>5. CASE SetWindowHidden
  <2>1. PICK h : cl' = [cl EXCEPT !.hidden = h]
    BY <1>5 DEF SetWindowHidden
  <2>2. QED
    BY <1>1, <2>1 DEF ConsoleStates, RefMoves, Stays
<1>6. CASE ProcessShmInit \/ ClientEof
  BY <1>1, <1>6
  DEF ProcessShmInit, ClientEof, ConsoleStates, RefMoves, Stays
<1>7. CASE (ProcessShmFrame \/ ProcessInline) /\ ~foreign
  BY <1>7, PushedRef DEF RefMoves
<1>8. CASE (ProcessShmFrame \/ ProcessInline) /\ foreign
  BY <1>8 DEF ProcessShmFrame, ProcessInline, RefMoves, Stays
<1>9. ASSUME ~UpdateFrame, ~(\E p \in BOOLEAN : SetPaused(p)), ~ClientLeaves,
             ~SetWindowHidden, ~ProcessShmInit, ~ClientEof, ~ProcessShmFrame,
             ~ProcessInline
      PROVE  cl' = cl
  BY <1>9
  DEF Next, WaylandThread, ClientThread, SourceThread, UiThread,
      OnFrameReserve, OnFramePublish, OnDmabufFrame, ReadClientMessage,
      ReadEof, EndClient, HelloEof, BindClient, TakeLatestFrame,
      NothingToSend, WaitForClientOrFrame, SendInline, SendShmInit,
      RemapSlots, AcquireShmSlot, SendShmNotify, SendFails, Connect, console
<1>10. QED
  BY <1>2, <1>3, <1>4, <1>5, <1>6, <1>7, <1>8, <1>9 DEF RefMoves, Stays

(* What a step does to the messages on the wire: they stay in their order,   *)
(* and a new one, behind them, is about the frame the client thread carries. *)
SentNow(e) ==
    \/ e.magic = "IKAS"
    \/ /\ e.id = th.frame.id /\ Carries /\ ~Carries'
       /\ \/ th.frame.slot = NoSlot /\ e.pix = th.frame.pix
          \/ SendInline /\ e.pix = th.frame.pix
          \/ /\ th.frame.slot # NoSlot /\ th.pc = "notify"
             /\ e.pix = mem[th.map].pix[th.slot]
WireMoves ==
    /\ \A i \in 1 .. Len(toClient') :
          \/ \E j \in 1 .. Len(toClient) : toClient'[i] = toClient[j]
          \/ SentNow(toClient'[i])
    /\ \A i, k \in 1 .. Len(toClient') : i < k =>
          \E j \in 1 .. Len(toClient) :
             /\ toClient'[i] = toClient[j]
             /\ \/ SentNow(toClient'[k])
                \/ \E l \in 1 .. Len(toClient) :
                      j < l /\ toClient'[k] = toClient[l]

LEMMA WireMovesStep ==
    ASSUME IInv, Next
    PROVE  WireMoves
<1>1. /\ toClient \in Seq(ToClientMessages) /\ Len(toClient) \in Nat
      /\ th \in ThreadStates
  BY DEF IInv, TypeOK
<1>2. ASSUME NEW e \in ToClientMessages, toClient' = Append(toClient, e),
             SentNow(e)
      PROVE  WireMoves
  <2>1. /\ Len(toClient') = Len(toClient) + 1
        /\ toClient'[Len(toClient) + 1] = e
        /\ \A j \in 1 .. Len(toClient) : toClient'[j] = toClient[j]
    BY <1>1, <1>2, SeqAppend
  <2>2. QED
    BY <1>1, <1>2, <2>1 DEF WireMoves
<1>3. CASE SendShmInit
  <2>1. toClient' = Append(toClient, InitMessage) /\ SentNow(InitMessage)
    BY <1>3 DEF SendShmInit, Send, InitMessage, SentNow
  <2>2. QED
    BY <1>2, <2>1, MessageTypes
<1>4. CASE SendInline
  <2>1. toClient' = Append(toClient, InlineMessage)
    BY <1>4 DEF SendInline, Send, InlineMessage
  <2>2. Carries /\ ~Carries'
    BY <1>1, <1>4 DEF SendInline, Carries, ThreadStates
  <2>3. SentNow(InlineMessage)
    BY <1>4, <2>2 DEF SentNow, InlineMessage
  <2>4. QED
    BY <1>2, <2>1, <2>3, MessageTypes
<1>5. CASE SendShmNotify
  <2>1. toClient' = Append(toClient, NoticeMessage) /\ th.pc = "notify"
    BY <1>5 DEF SendShmNotify, Send, NoticeMessage
  <2>2. Carries /\ ~Carries'
    BY <1>5, <2>1 DEF SendShmNotify, Carries, IdleThread
  <2>3. SentNow(NoticeMessage)
    BY <2>1, <2>2 DEF SentNow, NoticeMessage, NotifiedPixels
  <2>4. QED
    BY <1>2, <2>1, <2>3, MessageTypes
<1>6. CASE toClient' = toClient
  BY <1>1, <1>6 DEF WireMoves
<1>7. CASE toClient' = << >>
  BY <1>7 DEF WireMoves
<1>8. CASE toClient # << >> /\ toClient' = Tail(toClient)
  <2>1. /\ Len(toClient') = Len(toClient) - 1
        /\ \A j \in 1 .. Len(toClient') : toClient'[j] = toClient[j + 1]
    BY <1>1, <1>8, SeqTail
  <2>2. \A i \in 1 .. Len(toClient') : i + 1 \in 1 .. Len(toClient)
    BY <1>1, <2>1
  <2>3. \A i, k \in 1 .. Len(toClient') : i < k => i + 1 < k + 1
    BY <1>1, <2>1
  <2>4. QED
    BY <2>1, <2>2, <2>3 DEF WireMoves
<1>9. QED
  BY <1>3, <1>4, <1>5, <1>6, <1>7, <1>8, NextIsWireStep DEF WireStep

(* The types, and the parts of the invariant that are proved elsewhere.      *)
LEMMA WayTypes ==
    ASSUME WayInv
    PROVE  /\ SlotInv /\ IInv /\ TypeOK
           /\ drawn \in FrameIds /\ latest \in Frames /\ shm \in ShmStates
           /\ mem \in Seq(Memories) /\ prod \in ProdStates
           /\ th \in ThreadStates /\ cl \in ConsoleStates
           /\ toClient \in Seq(ToClientMessages) /\ Len(toClient) \in Nat
           /\ toServer \in Seq(ToServerMessages) /\ Len(toServer) \in Nat
           /\ Len(mem) \in Nat
  BY DEF WayInv, SlotInv, IInv, TypeOK
-----------------------------------------------------------------------------
(* Each part of the invariant is kept.                                       *)

LEMMA ResumeKeptStep ==
    ASSUME WayInv, Next
    PROVE  ResumeKept'
<1>1. cl \in ConsoleStates /\ ResumeKept
  BY DEF WayInv, SlotInv, IInv, TypeOK
<1>2. CASE UiThread
  <2>1. CASE UpdateFrame
    BY <1>1, <2>1 DEF UpdateFrame, ConsoleStates, ResumeKept
  <2>2. CASE SetWindowHidden
    BY <1>1, <2>2 DEF SetWindowHidden, ConsoleStates, ResumeKept
  <2>3. ASSUME NEW p \in BOOLEAN, SetPaused(p)
        PROVE  ResumeKept'
    <3>1. CASE cl.paused /\ cl.resume # NoRef
      BY <1>1, <2>3, <3>1
      DEF SetPaused, ShowResumeFrame, ConsoleStates, ResumeKept
    <3>2. CASE ~(cl.paused /\ cl.resume # NoRef)
      BY <1>1, <2>3, <3>2 DEF SetPaused, ConsoleStates, ResumeKept
    <3>3. QED
      BY <3>1, <3>2
  <2>4. QED
    BY <1>2, <2>1, <2>2, <2>3 DEF UiThread
<1>3. CASE ~UiThread
  <2>1. cl' = cl \/ (\E m : cl' = [cl EXCEPT !.map = m])
        \/ (\E r : cl' = [cl EXCEPT !.pending = r]) \/ ClientLeaves
    BY <1>3, Zenon
    DEF Next, WaylandThread, ClientThread, SourceThread,
        OnFrameReserve, OnFramePublish, OnDmabufFrame, ReadClientMessage,
        ReadEof, EndClient, HelloEof, BindClient, TakeLatestFrame,
        NothingToSend, WaitForClientOrFrame, SendInline, SendShmInit,
        RemapSlots, AcquireShmSlot, SendShmNotify, SendFails, Connect,
        ProcessShmInit, ProcessShmFrame, ProcessInline, Push, ClientEof, console
  <2>2. CASE ClientLeaves
    BY <1>1, <2>2 DEF ClientLeaves, ConsoleStates, ResumeKept
  <2>3. QED
    BY <1>1, <2>1, <2>2 DEF ConsoleStates, ResumeKept
<1>4. QED
  BY <1>2, <1>3

LEMMA ForeignKnownStep ==
    ASSUME WayInv, Next
    PROVE  ForeignKnown'
<1>1. /\ SlotInv /\ IInv /\ TypeOK /\ IInv' /\ ForeignKnown /\ Len(mem) \in Nat
      /\ th \in ThreadStates /\ shm \in ShmStates
      /\ \A j \in 1 .. Len(mem) : mem'[j].foreign = mem[j].foreign
  <2>1. SlotInv /\ IInv /\ TypeOK
    BY DEF WayInv, SlotInv, IInv
  <2>2. IInv'
    BY <2>1, TypeStep, ServerMappedStep, ThreadMappedStep, LinkStateStep,
       ConsoleMappedStep, WireOrderStep, ServerAnnouncedStep DEF IInv
  <2>3. QED
    BY <2>1, <2>2, ForeignStep DEF WayInv, TypeOK
<1>2. /\ shm.map # 0 => shm.map \in 1 .. Len(mem)
      /\ th.pc = "remap" => Len(mem) \in 1 .. Len(mem)
  BY <1>1 DEF IInv, ServerMapped, ThreadMapped, ShmStates, TypeOK
<1>3. CASE \E f \in BOOLEAN : Connect(f)
  BY <1>3 DEF Connect, ForeignKnown, EmptyShm, IdleThread
<1>4. CASE SendShmInit
  <2> DEFINE e == [gen |-> NextGen, ses |-> ses, foreign |-> foreign,
                   pix |-> [s \in Slots |-> NoFrame]]
  <2>1. /\ mem' = Append(mem, e) /\ mem \in Seq(Memories) /\ e.foreign = foreign
        /\ shm' = shm /\ foreign' = foreign
    BY <1>1, <1>4 DEF SendShmInit, link, TypeOK
  <2> HIDE DEF e
  <2>2. Len(mem') = Len(mem) + 1 /\ mem'[Len(mem')].foreign = foreign
    BY <2>1, SeqAppend
  <2>3. QED
    BY <1>1, <1>2, <2>1, <2>2 DEF ForeignKnown
<1>5. CASE RemapSlots
  <2>1. /\ shm'.map = Len(mem) /\ th.pc = "remap" /\ th'.pc = "acquire"
        /\ foreign' = foreign
    BY <1>1, <1>5 DEF RemapSlots, ShmStates, ThreadStates, link
  <2>2. QED
    BY <1>1, <1>2, <2>1 DEF ForeignKnown
<1>6. CASE EndClient
  <2>1. shm'.map = 0 /\ th'.pc = "none"
    BY <1>1, <1>6 DEF EndClient, CloseClientShm, ShmStates, IdleThread
  <2>2. QED
    BY <2>1 DEF ForeignKnown
<1>7. ASSUME ~SendShmInit, ~RemapSlots, ~EndClient,
             ~\E f \in BOOLEAN : Connect(f)
      PROVE  ForeignKnown'
  <2>1. foreign' = foreign
    BY <1>7
    DEF Next, WaylandThread, ClientThread, SourceThread, UiThread,
        OnFrameReserve, OnFramePublish, OnDmabufFrame, ReadClientMessage,
        ReadEof, HelloEof, BindClient, TakeLatestFrame, NothingToSend,
        WaitForClientOrFrame, SendInline, AcquireShmSlot, SendShmNotify,
        SendFails, ProcessShmInit, ProcessShmFrame, ProcessInline, ClientEof,
        ClientLeaves, UpdateFrame, SetPaused, SetWindowHidden, link
  <2>2. shm'.map = shm.map
    BY <1>1, <1>7, ShmStep DEF ShmMoves
  <2>3. th'.pc = "remap" => th.pc = "remap" /\ Len(mem') = Len(mem)
    <3>1. Len(mem') = Len(mem)
      BY <1>1, <1>7, MemStep
    <3>2. TakeLatestFrame => th'.pc # "remap"
      BY <1>1, TakenFrame
    <3>3. QED
      BY <1>1, <1>7, <3>1, <3>2, ThreadStep DEF ThreadMoves
  <2>4. QED
    BY <1>1, <1>2, <2>1, <2>2, <2>3 DEF ForeignKnown
<1>8. QED
  BY <1>3, <1>4, <1>5, <1>6, <1>7

LEMMA ThreadFrameStep ==
    ASSUME WayInv, Next
    PROVE  ThreadFrame'
<1>1. IInv /\ SlotInv /\ ThreadMoves /\ ShmMoves /\ ThreadFrame
  BY WayTypes, ThreadStep, ShmStep DEF WayInv
<1>2. CASE TakeLatestFrame
  BY <1>1, <1>2, TakenFrame DEF ThreadFrame
<1>3. CASE th' = th
  <2> SUFFICES ASSUME th.frame.slot # NoSlot
               PROVE  shm'.gen # 0
    BY <1>1, <1>3 DEF ThreadFrame
  <2>1. th.pc = "notify" /\ shm.gen # 0
    BY <1>1 DEF ThreadFrame
  <2>2. ~RemapSlots /\ ~(\E f \in BOOLEAN : Connect(f)) /\ ~EndClient
    BY <1>3, <2>1 DEF RemapSlots, Connect, EndClient, IdleThread
  <2>3. QED
    BY <1>1, <2>1, <2>2 DEF ShmMoves
<1>4. CASE th'.frame = EmptyFrame
  BY <1>4 DEF ThreadFrame, EmptyFrame
<1>5. QED
  BY <1>1, <1>2, <1>3, <1>4 DEF ThreadMoves, ThreadFrame
-----------------------------------------------------------------------------
(* The numbers of the frames.                                                *)

(* The frame the client thread carries is the latest one it took.            *)
LEMMA CarriedFrame ==
    ASSUME SlotInv, Next, Carries'
    PROVE  \/ Carries /\ th'.frame = th.frame
           \/ /\ TakeLatestFrame /\ th'.frame = latest /\ latest.type # "none"
              /\ latest'.id = latest.id /\ toClient' = toClient /\ cl' = cl
<1>1. ThreadMoves /\ IInv
  BY ThreadStep DEF SlotInv
<1>2. CASE TakeLatestFrame
  BY <1>2, TakenFrame DEF Carries
<1>3. QED
  BY <1>1, <1>2 DEF ThreadMoves, Carries

(* The latest frame is a later one, or the same.                             *)
LEMMA LatestNumber ==
    ASSUME WayInv, Next
    PROVE  /\ latest.id \in Nat /\ latest'.id \in Nat /\ drawn' \in Nat
           /\ latest.id <= latest'.id /\ latest'.id <= drawn'
           /\ prod'.pc # "idle" => latest'.id < drawn'
           /\ latest'.type # "none" => latest'.id # NoFrame
<1>1. /\ IInv /\ SlotInv /\ latest \in Frames /\ LatestMoves /\ InOrder
      /\ Numbered /\ drawn \in Nat /\ latest.id \in Nat /\ th \in ThreadStates
  <2>1. latest \in Frames => latest.id \in Nat
    BY DEF Frames, FrameIds
  <2>2. drawn \in FrameIds => drawn \in Nat
    BY DEF FrameIds
  <2>3. QED
    BY <2>1, <2>2, WayTypes, LatestStep DEF WayInv
<1>2. /\ latest.id <= drawn /\ (prod.pc # "idle" => latest.id < drawn)
      /\ latest.type # "none" => latest.id # NoFrame
  BY <1>1 DEF InOrder, Numbered
<1>3. CASE OnFramePublish
  <2>1. prod'.pc = "idle" /\ drawn' = drawn /\ prod.pc # "idle"
    BY <1>3 DEF OnFramePublish, IdleProd
  <2>2. latest' = latest \/ latest'.id = drawn
    <3>1. ~TakeLatestFrame /\ ~EndClient /\ ~RemapSlots
          /\ ~\E size \in Sizes : OnDmabufFrame(size)
      BY <2>1 DEF TakeLatestFrame, EndClient, RemapSlots, OnDmabufFrame
    <3>2. QED
      BY <1>1, <3>1 DEF LatestMoves
  <2>3. QED
    BY <1>1, <1>2, <2>1, <2>2 DEF NoFrame
<1>4. CASE \E size \in Sizes : OnDmabufFrame(size)
  <2>1. prod'.pc = "idle" /\ drawn' = drawn + 1 /\ prod.pc = "idle"
    BY <1>4 DEF OnDmabufFrame
  <2>2. latest' = latest \/ latest'.id = drawn + 1
    <3>1. ~TakeLatestFrame /\ ~EndClient /\ ~RemapSlots /\ ~OnFramePublish
      BY <1>1, <2>1 DEF TakeLatestFrame, EndClient, RemapSlots, OnFramePublish
    <3>2. QED
      BY <1>1, <3>1 DEF LatestMoves
  <2>3. QED
    BY <1>1, <1>2, <2>1, <2>2 DEF NoFrame
<1>5. ASSUME NEW size, OnFrameReserve(size)
      PROVE  drawn' = drawn + 1 /\ latest' = latest
  BY <1>5 DEF OnFrameReserve
<1>6. ASSUME ~OnFramePublish, ~(\E size \in Sizes : OnDmabufFrame(size)),
             ~(\E size \in Sizes : OnFrameReserve(size))
      PROVE  /\ drawn' = drawn /\ prod' = prod /\ latest'.id = latest.id
             /\ latest'.type = latest.type
  <2>1. drawn' = drawn /\ prod' = prod
    BY <1>6
    DEF Next, WaylandThread, ClientThread, SourceThread, UiThread,
        ReadClientMessage, ReadEof, EndClient, HelloEof, BindClient,
        TakeLatestFrame, NothingToSend, WaitForClientOrFrame, SendInline,
        SendShmInit, RemapSlots, AcquireShmSlot, SendShmNotify, SendFails,
        Connect, ProcessShmInit, ProcessShmFrame, ProcessInline, ClientEof,
        ClientLeaves, UpdateFrame, SetPaused, SetWindowHidden, server
  <2>2. latest'.id = latest.id /\ latest'.type = latest.type
    BY <1>1, <1>6, TakenFrame, DetachedFrame DEF LatestMoves
  <2>3. QED
    BY <2>1, <2>2
<1>7. CASE \E size \in Sizes : OnFrameReserve(size)
  BY <1>1, <1>2, <1>5, <1>7
<1>8. QED
  BY <1>1, <1>2, <1>3, <1>4, <1>6, <1>7

LEMMA NumberedStep ==
    ASSUME WayInv, Next
    PROVE  Numbered'
<1>1. /\ IInv /\ SlotInv /\ Numbered /\ RefMoves /\ WireMoves
      /\ toClient \in Seq(ToClientMessages) /\ ThreadFrame
  BY WayTypes, RefStep, WireMovesStep DEF WayInv
<1>2. latest'.type # "none" => latest'.id # NoFrame
  BY LatestNumber
<1>3. Carries' => th'.frame.id # NoFrame
  BY <1>1, CarriedFrame DEF Numbered
<1>4. \A i \in 1 .. Len(toClient') :
         toClient'[i].magic # "IKAS" => toClient'[i].id # NoFrame
  <2>1. \A e : SentNow(e) => e.magic = "IKAS" \/ e.id # NoFrame
    BY <1>1 DEF SentNow, Numbered
  <2>2. QED
    BY <1>1, <2>1 DEF WireMoves, Numbered
<1>5. /\ cl'.pending # NoRef => cl'.pending.id # NoFrame
      /\ cl'.resume # NoRef => cl'.resume.id # NoFrame
  <2>1. CASE Pushed
    <3>1. 1 \in 1 .. Len(toClient) /\ Head(toClient) = toClient[1]
      BY <1>1, <2>1, SeqTail DEF Pushed
    <3>2. QED
      BY <1>1, <2>1, <3>1 DEF Pushed, Numbered
  <2>2. QED
    BY <1>1, <2>1
    DEF RefMoves, Numbered, Stays, Shown, PutBy, Resumed, Closed
<1>6. QED
  BY <1>2, <1>3, <1>4, <1>5 DEF Numbered

(* A number behind all frames on the way stays there.                        *)
LEMMA BehindStep ==
    ASSUME WayInv, Next, NEW f \in Nat, Behind(f)
    PROVE  Behind(f)'
<1>1. /\ IInv /\ SlotInv /\ WireMoves
  BY WayTypes, WireMovesStep DEF WayInv
<1>2. f <= latest.id /\ f <= latest'.id
  BY LatestNumber DEF Behind
<1>3. Carries' => f <= th'.frame.id
  BY <1>1, <1>2, CarriedFrame DEF Behind
<1>4. \A i \in 1 .. Len(toClient') :
         toClient'[i].magic # "IKAS" => f <= toClient'[i].id
  BY <1>1 DEF WireMoves, Behind, SentNow
<1>5. QED
  BY <1>2, <1>3, <1>4 DEF Behind

LEMMA InOrderStep ==
    ASSUME WayInv, Next
    PROVE  InOrder'
<1> DEFINE h == Head(toClient)
           Last(f) == /\ \A i \in 1 .. Len(toClient') :
                            toClient'[i].magic # "IKAS" => f <= toClient'[i].id
                      /\ Carries' => f <= th'.frame.id
                      /\ f <= latest'.id
<1>1. /\ IInv /\ SlotInv /\ InOrder /\ Numbered /\ RefMoves /\ WireMoves
      /\ toClient \in Seq(ToClientMessages) /\ Len(toClient) \in Nat
      /\ cl \in ConsoleStates /\ th \in ThreadStates
  BY WayTypes, RefStep, WireMovesStep DEF WayInv
<1>2. /\ latest.id \in Nat /\ latest'.id \in Nat /\ latest.id <= latest'.id
      /\ latest'.id <= drawn' /\ (prod'.pc # "idle" => latest'.id < drawn')
  BY LatestNumber
<1>3. /\ cl.pending.id \in Nat /\ cl.resume.id \in Nat /\ cl.screen.id \in Nat
      /\ NoRef.id = 0 /\ th.frame.id \in Nat
      /\ \A j \in 1 .. Len(toClient) : toClient[j].magic # "IKAS" =>
                                           toClient[j].id \in Nat
  <2>1. \A j \in 1 .. Len(toClient) : toClient[j] \in ToClientMessages
    BY <1>1
  <2>2. \A e \in ToClientMessages : e.magic # "IKAS" => e.id \in Nat
    BY DEF ToClientMessages, FrameIds
  <2>3. QED
    BY <1>1, <2>1, <2>2
    DEF ConsoleStates, Refs, NoRef, NoFrame, ThreadStates, Frames, FrameIds
<1>4. Carries' => th'.frame.id <= latest'.id
  BY <1>1, <1>2, <1>3, CarriedFrame DEF InOrder
<1>5. \A i \in 1 .. Len(toClient') : toClient'[i].magic # "IKAS" =>
         /\ Carries' => toClient'[i].id <= th'.frame.id
         /\ toClient'[i].id <= latest'.id
  <2> SUFFICES ASSUME NEW i \in 1 .. Len(toClient'),
                      toClient'[i].magic # "IKAS"
               PROVE  /\ Carries' => toClient'[i].id <= th'.frame.id
                      /\ toClient'[i].id <= latest'.id
    OBVIOUS
  <2>1. CASE \E j \in 1 .. Len(toClient) : toClient'[i] = toClient[j]
    BY <1>1, <1>2, <1>3, <2>1, CarriedFrame DEF InOrder
  <2>2. CASE SentNow(toClient'[i])
    BY <1>1, <1>2, <1>3, <2>2 DEF SentNow, InOrder
  <2>3. QED
    BY <1>1, <2>1, <2>2 DEF WireMoves
<1>6. \A i, k \in 1 .. Len(toClient') :
         i < k /\ toClient'[i].magic # "IKAS" /\ toClient'[k].magic # "IKAS"
            => toClient'[i].id <= toClient'[k].id
  <2> SUFFICES ASSUME NEW i \in 1 .. Len(toClient'),
                      NEW k \in 1 .. Len(toClient'), i < k,
                      toClient'[i].magic # "IKAS", toClient'[k].magic # "IKAS"
               PROVE  toClient'[i].id <= toClient'[k].id
    OBVIOUS
  <2>1. PICK j \in 1 .. Len(toClient) :
           /\ toClient'[i] = toClient[j]
           /\ \/ SentNow(toClient'[k])
              \/ \E l \in 1 .. Len(toClient) :
                    j < l /\ toClient'[k] = toClient[l]
    BY <1>1 DEF WireMoves
  <2>2. CASE SentNow(toClient'[k])
    BY <1>1, <2>1, <2>2 DEF SentNow, InOrder
  <2>3. CASE \E l \in 1 .. Len(toClient) : j < l /\ toClient'[k] = toClient[l]
    BY <1>1, <2>1, <2>3 DEF InOrder
  <2>4. QED
    BY <2>1, <2>2, <2>3
<1>7. Behind(0)
  BY <1>1, <1>2, <1>3 DEF Behind
<1>8. \A f \in Nat : Behind(f) => Last(f)
  BY BehindStep DEF Behind
<1>9. Behind(cl.pending.id) /\ Behind(cl.resume.id) /\ Behind(cl.screen.id)
  BY <1>1 DEF InOrder
<1>10. ASSUME Pushed
       PROVE  /\ h.id \in Nat /\ Last(h.id) /\ cl.resume.id <= h.id
              /\ cl.screen.id <= h.id
  <2>1. /\ 1 \in 1 .. Len(toClient) /\ h = toClient[1]
        /\ toClient' = Tail(toClient) /\ th' = th /\ latest' = latest
        /\ h.magic # "IKAS"
    BY <1>1, <1>10, SeqTail DEF Pushed, server, display
  <2>2. /\ Len(toClient') = Len(toClient) - 1
        /\ \A j \in 1 .. Len(toClient') : toClient'[j] = toClient[j + 1]
    BY <1>1, <1>10, SeqTail DEF Pushed
  <2>3. \A j \in 1 .. Len(toClient') : j + 1 \in 1 .. Len(toClient) /\ 1 < j + 1
    BY <1>1, <2>2
  <2>4. \A j \in 1 .. Len(toClient') :
           toClient'[j].magic # "IKAS" => h.id <= toClient'[j].id
    BY <1>1, <2>1, <2>2, <2>3 DEF InOrder
  <2>5. (Carries => h.id <= th.frame.id) /\ h.id <= latest.id
    BY <1>1, <2>1 DEF InOrder
  <2>6. (Carries' => h.id <= th'.frame.id) /\ h.id <= latest'.id
    BY <2>1, <2>5 DEF Carries
  <2>7. QED
    BY <1>3, <1>9, <2>1, <2>4, <2>6 DEF Behind
<1> HIDE DEF Last
<1>11. /\ Behind(cl.pending.id)' /\ Behind(cl.resume.id)'
       /\ Behind(cl.screen.id)'
  <2>1. /\ cl'.pending.id \in {cl.pending.id, 0} \/ Pushed
        /\ cl'.resume.id \in {cl.resume.id, cl.pending.id, 0}
        /\ cl'.screen.id \in {cl.screen.id, cl.pending.id, cl.resume.id, 0}
    BY <1>1, <1>3
    DEF RefMoves, Stays, Pushed, Shown, PutBy, Resumed, Closed
  <2>2. \A f \in {cl.pending.id, cl.screen.id, cl.resume.id, 0} : Last(f)
    BY <1>3, <1>7, <1>8, <1>9
  <2>3. Pushed => cl'.pending.id = h.id
    BY DEF Pushed
  <2>4. Last(cl'.pending.id) /\ Last(cl'.resume.id) /\ Last(cl'.screen.id)
    BY <1>10, <2>1, <2>2, <2>3
  <2>5. QED
    BY <2>4 DEF Behind, Last
<1>12. /\ cl'.pending # NoRef => /\ cl'.resume.id <= cl'.pending.id
                                 /\ cl'.screen.id <= cl'.pending.id
       /\ cl'.resume # NoRef => cl'.screen.id <= cl'.resume.id
  <2>1. /\ cl.pending # NoRef => /\ cl.resume.id <= cl.pending.id
                                 /\ cl.screen.id <= cl.pending.id
        /\ cl.resume # NoRef => cl.screen.id <= cl.resume.id
    BY <1>1 DEF InOrder
  <2>2. ~cl.paused => cl.resume = NoRef
    BY DEF WayInv, ResumeKept
  <2>3. CASE Pushed
    BY <1>10, <2>1, <2>3 DEF Pushed
  <2>4. CASE Shown
    BY <1>3, <2>1, <2>2, <2>4 DEF Shown
  <2>5. CASE PutBy \/ Resumed \/ Closed \/ Stays
    BY <1>3, <2>1, <2>5 DEF PutBy, Resumed, Closed, Stays
  <2>6. QED
    BY <1>1, <2>3, <2>4, <2>5 DEF RefMoves
<1>13. QED
  BY <1>2, <1>4, <1>5, <1>6, <1>11, <1>12 DEF InOrder

(* The messages of the client stay on their way until they are read, or the  *)
(* server closes the connection.                                             *)
LEMMA ToServerStep ==
    ASSUME IInv, Next, ~ReadClientMessage, ~EndClient, ~HelloEof,
           ~\E f \in BOOLEAN : Connect(f)
    PROVE  /\ Len(toServer') \in Nat /\ Len(toServer) <= Len(toServer')
           /\ \A i \in 1 .. Len(toServer) : toServer'[i] = toServer[i]
<1> DEFINE Kept ==
               /\ Len(toServer') \in Nat /\ Len(toServer) <= Len(toServer')
               /\ \A i \in 1 .. Len(toServer) : toServer'[i] = toServer[i]
<1>1. /\ toServer \in Seq(ToServerMessages) /\ Len(toServer) \in Nat /\ TypeOK
      /\ cl \in ConsoleStates
  BY DEF IInv, TypeOK
<1>2. CASE toServer' = toServer
  BY <1>1, <1>2
<1>3. ASSUME NEW e, toServer' = Append(toServer, e)
      PROVE  Kept
  BY <1>1, <1>3
<1>4. ASSUME NEW r, toServer' = toServer \o Releases(r)
      PROVE  Kept
  <2>1. \/ toServer' = toServer \o << >>
        \/ \E e : toServer' = toServer \o <<e>>
    BY <1>4 DEF Releases
  <2>2. CASE toServer' = toServer \o << >>
    BY <1>1, <2>2
  <2>3. ASSUME NEW e, toServer' = toServer \o <<e>>
        PROVE  Kept
    BY <1>1, <2>3
  <2>4. QED
    BY <2>1, <2>2, <2>3
<1>5. CASE UpdateFrame
  BY <1>4, <1>5 DEF UpdateFrame
<1>6. ASSUME NEW p, SetPaused(p)
      PROVE  Kept
  BY <1>2, <1>4, <1>6 DEF SetPaused
<1>7. CASE SetWindowHidden
  <2>1. toServer' = toServer \/ \E e : toServer' = Append(toServer, e)
    BY <1>7 DEF SetWindowHidden
  <2>2. QED
    BY <1>2, <1>3, <2>1
<1>8. CASE ProcessShmFrame
  <2>1. \E r : toServer' = toServer \o Releases(r)
    BY <1>8 DEF ProcessShmFrame, Push
  <2>2. QED
    BY <1>4, <2>1
<1>9. CASE ProcessInline
  <2>1. toServer' = toServer \/ \E r : toServer' = toServer \o Releases(r)
    BY <1>9 DEF ProcessInline, Push
  <2>2. QED
    BY <1>2, <1>4, <2>1
<1>10. ASSUME ~UpdateFrame, ~(\E p \in BOOLEAN : SetPaused(p)),
              ~SetWindowHidden, ~ProcessShmFrame, ~ProcessInline
       PROVE  toServer' = toServer
  BY <1>10
  DEF Next, WaylandThread, ClientThread, SourceThread, UiThread,
      OnFrameReserve, OnFramePublish, OnDmabufFrame, ReadEof, BindClient,
      TakeLatestFrame, NothingToSend, WaitForClientOrFrame, SendInline,
      SendShmInit, RemapSlots, AcquireShmSlot, SendShmNotify, SendFails,
      ProcessShmInit, ClientEof, ClientLeaves
<1>11. QED
  BY <1>2, <1>5, <1>6, <1>7, <1>8, <1>9, <1>10

(* Who may have read no hello waits for it.                                  *)
LEMMA HelloReadStep ==
    ASSUME WayInv, Next
    PROVE  HelloRead'
<1> DEFINE Coming == \E i \in 1 .. Len(toServer) : toServer[i].magic = "IKAH"
<1>0. SUFFICES ASSUME ~LateHello
               PROVE  /\ ~foreign'
                      /\ th'.pc = "hello" => shm'.releases \/ Coming'
                      /\ th'.pc \notin {"none", "hello"} => shm'.releases
                      /\ HellosInTime'
  BY DEF HelloRead
<1>1. /\ IInv /\ SlotInv /\ th \in ThreadStates /\ shm \in ShmStates
      /\ ThreadMoves /\ ShmMoves /\ mem \in Seq(Memories) /\ Len(mem) \in Nat
      /\ toServer \in Seq(ToServerMessages) /\ Len(toServer) \in Nat
  BY WayTypes, ThreadStep, ShmStep
<1>2. /\ ~foreign /\ HellosInTime
      /\ th.pc = "hello" => shm.releases \/ Coming
      /\ th.pc \notin {"none", "hello"} => shm.releases
  BY <1>0 DEF WayInv, HelloRead
<1>3. ASSUME NEW f \in BOOLEAN, Connect(f)
      PROVE  /\ ~foreign' /\ Coming' /\ HellosInTime' /\ th'.pc = "hello"
  <2>1. ~f /\ foreign' = f /\ mem' = mem
    BY <1>0, <1>3 DEF Connect
  <2>2. th'.pc = "hello"
    BY <1>3 DEF Connect, IdleThread
  <2>3. Coming'
    <3> DEFINE a == [magic |-> "IKAH"]
               b == [magic |-> "IKAP", hidden |-> TRUE]
    <3>1. \E q \in {<<b>>, << >>} : toServer' = <<a>> \o q
      BY <1>3 DEF Connect
    <3>2. a.magic = "IKAH"
      OBVIOUS
    <3> HIDE DEF a, b
    <3>3. toServer'[1] = a /\ Len(toServer') \in Nat /\ Len(toServer') >= 1
      <4>1. CASE toServer' = <<a>> \o <<b>>
        BY <4>1
      <4>2. CASE toServer' = <<a>> \o << >>
        BY <4>2
      <4>3. QED
        BY <3>1, <4>1, <4>2
    <3>4. QED
      BY <3>2, <3>3
  <2>4. QED
    BY <1>2, <2>1, <2>2, <2>3 DEF HellosInTime
<1>4. CASE EndClient \/ HelloEof
  BY <1>2, <1>4 DEF EndClient, HelloEof, IdleThread, HellosInTime, link
<1>5. ASSUME ~EndClient, ~HelloEof, ~\E f \in BOOLEAN : Connect(f)
      PROVE  foreign' = foreign
  BY <1>5
  DEF Next, WaylandThread, ClientThread, SourceThread, UiThread,
      OnFrameReserve, OnFramePublish, OnDmabufFrame, ReadClientMessage,
      ReadEof, BindClient, TakeLatestFrame, NothingToSend,
      WaitForClientOrFrame, SendInline, SendShmInit, RemapSlots,
      AcquireShmSlot, SendShmNotify, SendFails, ProcessShmInit,
      ProcessShmFrame, ProcessInline, ClientEof, ClientLeaves, UpdateFrame,
      SetPaused, SetWindowHidden, link
<1>6. ASSUME ~EndClient, ~\E f \in BOOLEAN : Connect(f), shm.releases
      PROVE  shm'.releases
  <2>1. CASE RemapSlots
    BY <1>1, <1>6, <2>1 DEF RemapSlots, ShmStates
  <2>2. QED
    BY <1>1, <1>6, <2>1 DEF ShmMoves
<1>7. HellosInTime'
  <2>1. MemKept /\ (~SendShmInit => Len(mem') = Len(mem))
    BY <1>1, MemStep
  <2>2. \A j \in 1 .. Len(mem) : mem'[j].foreign = mem[j].foreign
    BY <1>1, ForeignStep
  <2>3. CASE ~SendShmInit
    BY <1>2, <2>1, <2>2, <2>3 DEF HellosInTime, MemKept
  <2>4. CASE SendShmInit
    <3> DEFINE e == [gen |-> NextGen, ses |-> ses, foreign |-> foreign,
                     pix |-> [s \in Slots |-> NoFrame]]
    <3>1. mem' = Append(mem, e) /\ th.pc = "init"
      BY <2>4 DEF SendShmInit
    <3>2. e.gen # 0 /\ ~e.foreign
      BY <1>1, <1>2, <3>1 DEF NextGen, ShmStates
    <3> HIDE DEF e
    <3>3. Len(mem') = Len(mem) + 1 /\ mem'[Len(mem) + 1] = e
      BY <1>1, <3>1
    <3>4. QED
      BY <1>1, <1>2, <2>1, <2>2, <3>2, <3>3 DEF HellosInTime, MemKept
  <2>5. QED
    BY <2>3, <2>4
<1>8. ASSUME ~EndClient, ~HelloEof, ~\E f \in BOOLEAN : Connect(f),
             th'.pc \notin {"none", "hello"}
      PROVE  shm'.releases
  <2>1. th.pc \notin {"none", "hello"} \/ BindClient
    <3>1. CASE th' = th
      BY <1>8, <3>1
    <3>2. CASE th.pc = "hello"
      <4>1. ASSUME ~BindClient
            PROVE  th' = th
        BY <1>8, <3>2, <4>1
        DEF Next, WaylandThread, ClientThread, SourceThread, UiThread,
            OnFrameReserve, OnFramePublish, OnDmabufFrame, ReadClientMessage,
            ReadEof, TakeLatestFrame, NothingToSend, WaitForClientOrFrame,
            SendInline, SendShmInit, RemapSlots, AcquireShmSlot,
            SendShmNotify, SendFails, ProcessShmInit, ProcessShmFrame,
            ProcessInline, ClientEof, ClientLeaves, UpdateFrame, SetPaused,
            SetWindowHidden, server
      <4>2. QED
        BY <1>8, <3>2, <4>1
    <3>3. QED
      BY <1>1, <1>8, <3>1, <3>2 DEF ThreadMoves, TakeLatestFrame, SendInline,
         SendShmNotify
  <2>2. CASE BindClient
    <3>1. th.pc = "hello" /\ toServer = << >>
      BY <1>0, <2>2 DEF BindClient
    <3>2. ~Coming
      BY <3>1
    <3>3. QED
      BY <1>2, <1>6, <1>8, <3>1, <3>2
  <2>3. QED
    BY <1>2, <1>6, <1>8, <2>1, <2>2
<1>9. ASSUME ~EndClient, ~HelloEof, ~\E f \in BOOLEAN : Connect(f),
             th'.pc = "hello"
      PROVE  shm'.releases \/ Coming'
  <2>1. th' = th
    BY <1>1, <1>9, TakenFrame DEF ThreadMoves
  <2>2. shm.releases \/ Coming
    BY <1>2, <1>9, <2>1
  <2>3. CASE shm.releases
    BY <1>6, <1>9, <2>3
  <2>4. CASE Coming /\ ~ReadClientMessage
    BY <1>1, <1>9, <2>4, ToServerStep
  <2>5. CASE Coming /\ ReadClientMessage
    <3>1. /\ toServer # << >> /\ toServer' = Tail(toServer)
          /\ Head(toServer).magic = "IKAH" =>
                shm' = [shm EXCEPT !.releases = TRUE]
      BY <2>5 DEF ReadClientMessage
    <3>2. /\ Head(toServer) = toServer[1] /\ Len(toServer') = Len(toServer) - 1
          /\ \A j \in 1 .. Len(toServer') : toServer'[j] = toServer[j + 1]
      BY <1>1, <3>1, SeqTail
    <3>3. PICK i \in 1 .. Len(toServer) : toServer[i].magic = "IKAH"
      BY <2>5
    <3>4. CASE i = 1
      BY <1>1, <3>1, <3>2, <3>3, <3>4 DEF ShmStates
    <3>5. CASE i # 1
      <4>1. i - 1 \in 1 .. Len(toServer') /\ toServer'[i - 1] = toServer[i]
        BY <1>1, <3>2, <3>5
      <4>2. QED
        BY <3>3, <4>1
    <3>6. QED
      BY <3>4, <3>5
  <2>6. QED
    BY <2>2, <2>3, <2>4, <2>5
<1>10. QED
  BY <1>2, <1>3, <1>4, <1>5, <1>7, <1>8, <1>9
-----------------------------------------------------------------------------
(* The latest frame, once it is sent in a slot.                              *)

(* Who has its slot.                                                         *)
LEMMA LatestHolder ==
    ASSUME WayInv, Sent, ~foreign
    PROVE  /\ shm.gen # 0 /\ shm.map # 0 /\ shm.map \in 1 .. Len(mem)
           /\ mem[shm.map].gen # 0 /\ latest.slot \in Slots
           /\ th.pc = "notify" => Has("thread", 0, shm.map, latest.slot)
           /\ conn = "open" /\ th.pc # "notify" =>
                 /\ toClient # << >> =>
                       Has("notice", Len(toClient), shm.map, latest.slot)
                 /\ toClient = << >> /\ cl.pending # NoRef =>
                       Has("pending", 0, shm.map, latest.slot)
                 /\ toClient = << >> /\ cl.pending = NoRef /\ cl.resume # NoRef
                       => Has("resume", 0, shm.map, latest.slot)
<1>1. /\ IInv /\ latest \in Frames /\ shm \in ShmStates /\ Len(mem) \in Nat
      /\ Len(toClient) \in Nat /\ LatestKept /\ ThreadFrame
      /\ toClient \in Seq(ToClientMessages)
  BY WayTypes DEF WayInv
<1>2. /\ shm.gen # 0 /\ shm.map # 0 /\ shm.map \in 1 .. Len(mem)
      /\ mem[shm.map].gen # 0
  BY <1>1 DEF Sent, IInv, ServerMapped, ShmStates
<1>3. latest.slot \in Slots
  BY <1>1 DEF Sent, Frames
<1>4. th.pc = "notify" => Has("thread", 0, shm.map, latest.slot)
  BY <1>1, <1>2, <1>3
  DEF Has, ThreadHas, LatestKept, ThreadFrame, IInv, ThreadMapped, Sent
<1>5. ASSUME conn = "open", th.pc # "notify"
      PROVE  /\ toClient # << >> =>
                    Has("notice", Len(toClient), shm.map, latest.slot)
             /\ toClient = << >> /\ cl.pending # NoRef =>
                    Has("pending", 0, shm.map, latest.slot)
             /\ toClient = << >> /\ cl.pending = NoRef /\ cl.resume # NoRef
                    => Has("resume", 0, shm.map, latest.slot)
  <2>1. LastOnWay
    BY <1>1, <1>5 DEF LatestKept
  <2>2. toClient # << >> => Len(toClient) \in 1 .. Len(toClient)
    BY <1>1
  <2>3. toClient # << >> => Has("notice", Len(toClient), shm.map, latest.slot)
    BY <1>2, <1>5, <2>1, <2>2 DEF LastOnWay, IsLatest, Has, NoticeHas
  <2>4. ~IsLatest(NoRef)
    BY <1>2 DEF IsLatest, NoRef
  <2>5. \A r : IsLatest(r) => RefHas(r, shm.map, latest.slot)
    BY <1>2 DEF IsLatest, RefHas
  <2>6. QED
    BY <1>5, <2>1, <2>3, <2>4, <2>5 DEF LastOnWay, Has
<1>6. QED
  BY <1>2, <1>3, <1>4, <1>5

(* It is sent when it is taken.                                              *)
LEMMA TakenLatest ==
    ASSUME WayInv, TakeLatestFrame
    PROVE  LatestKept'
<1> SUFFICES ASSUME latest.slot # NoSlot
             PROVE  /\ th'.pc = "notify" /\ th'.frame.slot = latest'.slot
                    /\ latest'.slot \in shm'.busy
                    /\ ~CopyHas(shm.map, latest.slot)'
                    /\ toServer' = << >>
  <2>1. latest'.slot = latest.slot
    BY WayTypes, TakenFrame
  <2>2. QED
    BY <2>1 DEF LatestKept, LastOnWay, Sent
<1>1. /\ SlotInv /\ latest'.slot = latest.slot /\ th'.pc = "notify"
      /\ th'.frame = latest /\ ~latest.sent /\ shm.gen # 0
      /\ shm' = shm /\ prod' = prod
  BY WayTypes, TakenFrame
<1>2. Has("latest", 0, shm.map, latest.slot)
  BY <1>1 DEF Has, LatestHas
<1>3. latest.slot \in shm.busy
  BY <1>1, <1>2 DEF SlotInv, Covered
<1>4. ~Has("copy", 0, shm.map, latest.slot)
  BY <1>1, <1>2 DEF SlotInv, Exclusive
<1>5. ~CopyHas(shm.map, latest.slot)
  BY <1>4 DEF Has
<1>6. QED
  BY <1>1, <1>3, <1>5 DEF CopyHas, TakeLatestFrame

(* A step that leaves it sent was no remap and no end of the connection.     *)
LEMMA SentBefore ==
    ASSUME WayInv, Next, ~TakeLatestFrame, Sent', ~foreign'
    PROVE  /\ latest' = latest /\ Sent /\ ~foreign /\ shm'.map = shm.map
           /\ ~EndClient /\ ~RemapSlots /\ ~HelloEof
           /\ ~(\E f \in BOOLEAN : Connect(f))
           /\ th.pc \in {"loop", "poll", "notify"}
<1>1. IInv /\ LatestMoves /\ ShmMoves
  BY WayTypes, LatestStep, ShmStep
<1>2. /\ latest' = latest /\ Sent /\ ~EndClient /\ ~RemapSlots
  <2>1. ASSUME EndClient \/ RemapSlots
        PROVE  FALSE
    BY <1>1, <2>1, DetachedFrame DEF EndClient, RemapSlots, Sent
  <2>2. latest' = latest
    BY <1>1, <2>1 DEF LatestMoves, Sent
  <2>3. QED
    BY <2>1, <2>2 DEF Sent
<1>3. th.pc \notin {"none", "hello"}
  BY <1>1, <1>2 DEF Sent, IInv, ServerMapped, ThreadMapped
<1>4. ~HelloEof /\ ~\E f \in BOOLEAN : Connect(f)
  BY <1>3 DEF HelloEof, Connect
<1>5. foreign' = foreign
  BY <1>2, <1>4
  DEF Next, WaylandThread, ClientThread, SourceThread, UiThread,
      OnFrameReserve, OnFramePublish, OnDmabufFrame, ReadClientMessage,
      ReadEof, BindClient, NothingToSend, WaitForClientOrFrame, SendInline,
      SendShmInit, AcquireShmSlot, SendShmNotify, SendFails, ProcessShmInit,
      ProcessShmFrame, ProcessInline, ClientEof, ClientLeaves, UpdateFrame,
      SetPaused, SetWindowHidden, link
<1>6. QED
  BY <1>1, <1>2, <1>4, <1>5 DEF ShmMoves, WayInv, LatestKept

(* Its slot stays busy, and no copy goes into it.                            *)
LEMMA SentStaysBusy ==
    ASSUME WayInv, Next, ~TakeLatestFrame, Sent', ~foreign'
    PROVE  latest.slot \in shm'.busy /\ ~CopyHas(shm.map, latest.slot)'
<1>1. /\ IInv /\ TypeOK /\ shm \in ShmStates /\ LatestKept
      /\ toServer \in Seq(ToServerMessages)
  BY WayTypes DEF WayInv
<1>2. /\ latest' = latest /\ Sent /\ ~foreign /\ shm'.map = shm.map
      /\ ~EndClient /\ ~RemapSlots /\ ~(\E f \in BOOLEAN : Connect(f))
  BY SentBefore
<1>3. /\ latest.slot \in shm.busy /\ ~CopyHas(shm.map, latest.slot)
      /\ \A i \in 1 .. Len(toServer) : ~ReleaseHas(i, shm.map, latest.slot)
  BY <1>1, <1>2 DEF LatestKept
<1>4. ASSUME NEW f, ReplaceLatestFrame(f)
      PROVE  latest.slot \in shm'.busy
  BY <1>1, <1>2, <1>3, <1>4
  DEF ReplaceLatestFrame, BusyAfterReplace, Sent, ShmStates
<1>5. ASSUME NEW s, shm' = TakeSlot(s)
      PROVE  latest.slot \in shm'.busy
  BY <1>1, <1>3, <1>5, TakeSlotFields
<1>6. ASSUME ReadClientMessage
      PROVE  latest.slot \in shm'.busy
  <2> DEFINE m == Head(toServer)
  <2>1. m = toServer[1] /\ 1 \in 1 .. Len(toServer) /\ m \in ToServerMessages
    BY <1>1, <1>6, SeqTail DEF ReadClientMessage
  <2>2. m.magic \in {"IKAH", "IKAP", "IKAR"}
    BY <2>1 DEF ToServerMessages
  <2>3. \/ shm' = [shm EXCEPT !.releases = TRUE]
        \/ shm' = [shm EXCEPT !.paused = m.hidden]
        \/ /\ m.magic = "IKAR"
           /\ shm' = [shm EXCEPT !.busy = @ \ ReleasedSlots(m)]
    BY <1>6, <2>2 DEF ReadClientMessage
  <2>4. m.magic = "IKAR" => latest.slot \notin ReleasedSlots(m)
    <3> SUFFICES ASSUME m.magic = "IKAR", shm.gen # 0, m.gen = shm.gen,
                        latest.slot = m.slot
                 PROVE  FALSE
      BY DEF ReleasedSlots
    <3>1. /\ shm.map \in 1 .. Len(mem) /\ mem[shm.map].gen = shm.gen
          /\ mem[shm.map].ses = ses
      BY <1>1 DEF IInv, ServerMapped, ShmStates, TypeOK
    <3>2. ReleaseHas(1, shm.map, latest.slot)
      BY <2>1, <3>1 DEF ReleaseHas
    <3>3. QED
      BY <1>3, <2>1, <3>2
  <2> HIDE DEF m
  <2>5. QED
    BY <1>1, <1>3, <2>3, <2>4 DEF ShmStates
<1>7. ASSUME NEW size, OnFrameReserve(size)
      PROVE  latest.slot \in shm'.busy /\ ~CopyHas(shm.map, latest.slot)'
  <2>1. CASE shm' = shm
    <3>1. prod' = prod \/ prod'.pc = "buffer"
      <4>1. CASE shm' = TakeSlot(FirstFree) /\ CanReserve(size)
        <5>1. FirstFree \notin shm.busy /\ FirstFree \in TakeSlot(FirstFree).busy
          BY <1>1, <4>1, FirstFreeIsFree, TakeSlotFields DEF CanReserve
        <5>2. QED
          BY <2>1, <4>1, <5>1
      <4>2. CASE ~(shm' = TakeSlot(FirstFree) /\ CanReserve(size))
        BY <1>7, <4>2 DEF OnFrameReserve, IdleProd
      <4>3. QED
        BY <4>1, <4>2
    <3>2. QED
      BY <1>2, <1>3, <2>1, <3>1 DEF CopyHas
  <2>2. CASE shm' # shm
    <3>1. CanReserve(size) /\ shm' = TakeSlot(FirstFree)
          /\ prod'.slot = FirstFree
      BY <1>7, <2>2 DEF OnFrameReserve
    <3>2. FirstFree # latest.slot
      BY <1>1, <1>3, <3>1, FirstFreeIsFree DEF CanReserve
    <3>3. latest.slot \in shm'.busy
      BY <1>5, <3>1
    <3>4. QED
      BY <1>2, <3>1, <3>2, <3>3 DEF CopyHas
  <2>3. QED
    BY <2>1, <2>2
<1>8. CASE OnFramePublish
  <2>1. prod'.pc = "idle"
    BY <1>8 DEF OnFramePublish, IdleProd
  <2>2. (\E f : ReplaceLatestFrame(f)) \/ shm' = shm
    BY <1>8 DEF OnFramePublish
  <2>3. QED
    BY <1>3, <1>4, <2>1, <2>2 DEF CopyHas
<1>9. ASSUME NEW size, OnDmabufFrame(size)
      PROVE  latest.slot \in shm'.busy /\ prod' = prod
  <2>1. \E f : ReplaceLatestFrame(f)
    BY <1>9, Zenon DEF OnDmabufFrame
  <2>2. QED
    BY <1>4, <1>9, <2>1 DEF OnDmabufFrame
<1>10. CASE AcquireShmSlot
  <2>1. th.pc = "acquire"
    BY <1>10 DEF AcquireShmSlot
  <2>2. QED
    BY <2>1, SentBefore
<1>11. ASSUME ~WaylandThread
       PROVE  prod' = prod
  BY <1>11
  DEF Next, ClientThread, SourceThread, UiThread, ReadClientMessage, ReadEof,
      EndClient, HelloEof, BindClient, TakeLatestFrame, NothingToSend,
      WaitForClientOrFrame, SendInline, SendShmInit, RemapSlots,
      AcquireShmSlot, SendShmNotify, SendFails, Connect, ProcessShmInit,
      ProcessShmFrame, ProcessInline, ClientEof, ClientLeaves, UpdateFrame,
      SetPaused, SetWindowHidden, server
<1>12. ASSUME ~WaylandThread, ~ReadClientMessage, ~AcquireShmSlot
       PROVE  shm' = shm
  BY <1>2, <1>12
  DEF Next, ClientThread, SourceThread, UiThread, ReadEof, HelloEof,
      BindClient, TakeLatestFrame, NothingToSend, WaitForClientOrFrame,
      SendInline, SendShmInit, SendShmNotify, SendFails, ProcessShmInit,
      ProcessShmFrame, ProcessInline, ClientEof, ClientLeaves, UpdateFrame,
      SetPaused, SetWindowHidden, server
<1>13. prod' = prod => ~CopyHas(shm.map, latest.slot)'
  BY <1>2, <1>3 DEF CopyHas
<1>14. CASE WaylandThread
  BY <1>7, <1>8, <1>9, <1>13, <1>14 DEF WaylandThread
<1>15. CASE ~WaylandThread
  BY <1>3, <1>6, <1>10, <1>11, <1>12, <1>13, <1>15
<1>16. QED
  BY <1>14, <1>15

(* No frame is dropped that has its slot.                                    *)
LEMMA DropsOther ==
    ASSUME WayInv, Sent, ~foreign, conn = "open"
    PROVE  /\ Pushed => ~RefHas(cl.pending, shm.map, latest.slot)
           /\ Shown \/ Resumed => ~RefHas(cl.screen, shm.map, latest.slot)
           /\ PutBy => ~RefHas(cl.resume, shm.map, latest.slot)
<1>1. \A k, l, i, j : Has(k, i, shm.map, latest.slot)
                      /\ Has(l, j, shm.map, latest.slot) => k = l
  BY DEF WayInv, SlotInv, Exclusive
<1>2. /\ RefHas(cl.pending, shm.map, latest.slot) =>
            Has("pending", 0, shm.map, latest.slot)
      /\ RefHas(cl.screen, shm.map, latest.slot) =>
            Has("screen", 0, shm.map, latest.slot)
      /\ RefHas(cl.resume, shm.map, latest.slot) =>
            Has("resume", 0, shm.map, latest.slot)
  BY DEF Has
<1>3. /\ Pushed => toClient # << >>
      /\ Shown \/ PutBy => cl.pending # NoRef
      /\ Resumed => cl.resume # NoRef
  BY DEF Pushed, Shown, PutBy, Resumed
<1>4. \/ Has("thread", 0, shm.map, latest.slot)
      \/ toClient # << >> /\ \E i : Has("notice", i, shm.map, latest.slot)
      \/ /\ toClient = << >> /\ cl.pending # NoRef
         /\ Has("pending", 0, shm.map, latest.slot)
      \/ /\ toClient = << >> /\ cl.pending = NoRef /\ cl.resume # NoRef
         /\ Has("resume", 0, shm.map, latest.slot)
      \/ toClient = << >> /\ cl.pending = NoRef /\ cl.resume = NoRef
  BY LatestHolder
<1>5. QED
  BY <1>1, <1>2, <1>3, <1>4

LEMMA SentNotReleased ==
    ASSUME WayInv, Next, ~TakeLatestFrame, Sent', ~foreign'
    PROVE  \A i : ~ReleaseHas(i, shm.map, latest.slot)'
<1>1. /\ IInv /\ TypeOK /\ SlotInv /\ LatestKept /\ cl \in ConsoleStates
      /\ Len(mem) \in Nat
  BY WayTypes DEF WayInv
<1>2. /\ latest' = latest /\ Sent /\ ~foreign /\ shm'.map = shm.map
      /\ ~EndClient /\ ~RemapSlots /\ ~HelloEof
      /\ ~(\E f \in BOOLEAN : Connect(f))
      /\ th.pc \in {"loop", "poll", "notify"}
  BY SentBefore
<1> DEFINE M == shm.map
           S == latest.slot
<1>3. \A i : ~ReleaseHas(i, M, S)
  BY <1>1, <1>2 DEF LatestKept, ReleaseHas
<1> SUFFICES \A i, m, s : m = M /\ s = S => ~ReleaseHas(i, m, s)'
  BY <1>2
<1>4. MemKept /\ Len(mem') = Len(mem)
  <2>1. ~SendShmInit
    BY <1>2 DEF SendShmInit
  <2>2. QED
    BY <1>1, <2>1, MemStep
<1>5. ses' = ses
  BY <1>2
  DEF Next, WaylandThread, ClientThread, SourceThread, UiThread,
      OnFrameReserve, OnFramePublish, OnDmabufFrame, ReadClientMessage,
      ReadEof, BindClient, TakeLatestFrame, NothingToSend,
      WaitForClientOrFrame, SendInline, SendShmInit, AcquireShmSlot,
      SendShmNotify, SendFails, ProcessShmInit, ProcessShmFrame,
      ProcessInline, ClientEof, ClientLeaves, UpdateFrame, SetPaused,
      SetWindowHidden, link
<1>6. CASE toServer' = toServer
  <2>1. SameReleases
    BY <1>1, <1>4, <1>5, <1>6, KeptReleases
  <2>2. QED
    BY <1>3, <2>1 DEF SameReleases
<1>7. CASE ReadClientMessage
  <2>1. \A i, m, s : ReleaseHas(i, m, s)' <=>
                     i \in Nat \ {0} /\ ReleaseHas(i + 1, m, s)
    BY <1>1, <1>5, <1>7, TakenRelease DEF ReadClientMessage
  <2>2. QED
    BY <1>3, <2>1
<1>8. ASSUME NEW r, r \in {cl.pending, cl.screen, cl.resume}, mem' = mem,
             toServer' = toServer \o Releases(r),
             conn = "open" => ~RefHas(r, M, S)
      PROVE  \A i, m, s : m = M /\ s = S => ~ReleaseHas(i, m, s)'
  <2>1. r \in Refs /\ RefMapped(r)
    BY <1>1, <1>8 DEF IInv, ConsoleMapped, ConsoleStates
  <2>2. \A i, m, s : ReleaseHas(i, m, s)' =>
               \/ ReleaseHas(i, m, s)
               \/ RefHas(r, m, s) /\ conn = "open"
    BY <1>1, <1>5, <1>8, <2>1, SentRelease
  <2>3. QED
    BY <1>3, <1>8, <2>2
<1>9. CASE Pushed \/ Shown \/ PutBy \/ Resumed
  <2>1. mem' = mem
    BY <1>9 DEF Pushed, Shown, PutBy, Resumed, server
  <2>2. /\ Pushed => toServer' = toServer \o Releases(cl.pending)
        /\ Shown \/ Resumed => toServer' = toServer \o Releases(cl.screen)
        /\ PutBy => toServer' = toServer \o Releases(cl.resume)
    BY DEF Pushed, Shown, PutBy, Resumed
  <2>3. conn = "open" =>
           /\ Pushed => ~RefHas(cl.pending, M, S)
           /\ Shown \/ Resumed => ~RefHas(cl.screen, M, S)
           /\ PutBy => ~RefHas(cl.resume, M, S)
    BY <1>2, DropsOther
  <2> HIDE DEF M, S
  <2>4. QED
    BY <1>8, <1>9, <2>1, <2>2, <2>3
<1>10. CASE SetWindowHidden
  <2>1. \/ toServer' = toServer
        \/ /\ toServer' = Append(toServer,
                                [magic |-> "IKAP", hidden |-> ~cl.hidden])
           /\ mem' = mem
    BY <1>10 DEF SetWindowHidden, server
  <2>2. CASE mem' = mem /\ \E e : e.magic # "IKAR"
                               /\ toServer' = Append(toServer, e)
    <3>1. SameReleases
      BY <1>1, <1>5, <2>2, SentOther
    <3>2. QED
      BY <1>3, <3>1 DEF SameReleases
  <2>3. QED
    BY <1>6, <2>1, <2>2
<1>11. CASE ~Pushed /\ ~Shown /\ ~PutBy /\ ~Resumed /\ ~SetWindowHidden
            /\ ~ReadClientMessage
  <2>1. ~((ProcessShmFrame \/ ProcessInline) /\ ~foreign)
    BY <1>1, <1>11, PushedRef
  <2>2. CASE UiThread
    <3>1. CASE UpdateFrame
      BY <1>1, <1>11, <3>1 DEF UpdateFrame, ConsoleStates, Shown, PutBy
    <3>2. ASSUME NEW p \in BOOLEAN, SetPaused(p), toServer' # toServer
          PROVE  Resumed
      BY <1>1, <3>2
      DEF SetPaused, ShowResumeFrame, ConsoleStates, Resumed
    <3>3. QED
      BY <1>6, <1>11, <2>2, <3>1, <3>2 DEF UiThread
  <2>3. CASE ~UiThread
    BY <1>2, <1>6, <1>11, <2>1, <2>3
    DEF Next, WaylandThread, ClientThread, SourceThread,
        OnFrameReserve, OnFramePublish, OnDmabufFrame, ReadEof, BindClient,
        TakeLatestFrame, NothingToSend, WaitForClientOrFrame, SendInline,
        SendShmInit, AcquireShmSlot, SendShmNotify, SendFails,
        ProcessShmInit, ClientEof, ClientLeaves
  <2>4. QED
    BY <2>2, <2>3
<1>12. QED
  BY <1>7, <1>9, <1>10, <1>11

(* It is the last one on its way.                                            *)
LEMMA SentStaysLast ==
    ASSUME WayInv, Next, ~TakeLatestFrame, Sent', ~foreign', conn' = "open"
    PROVE  LastOnWay'
<1>1. /\ IInv /\ SlotInv /\ LatestKept /\ ThreadFrame /\ RefMoves /\ WireStep
      /\ ThreadMoves /\ toClient \in Seq(ToClientMessages)
      /\ Len(toClient) \in Nat /\ ResumeKept
  BY WayTypes, RefStep, NextIsWireStep, ThreadStep DEF WayInv
<1>2. /\ latest' = latest /\ Sent /\ ~foreign /\ shm'.map = shm.map
      /\ ~EndClient /\ ~RemapSlots /\ ~HelloEof
      /\ ~(\E f \in BOOLEAN : Connect(f))
      /\ th.pc \in {"loop", "poll", "notify"}
  BY SentBefore
<1>3. /\ shm.map # 0 /\ shm.map \in 1 .. Len(mem) /\ mem[shm.map].gen # 0
      /\ th.pc = "notify" => Has("thread", 0, shm.map, latest.slot)
  BY <1>2, LatestHolder
<1>4. conn = "open"
  BY <1>2
  DEF Next, WaylandThread, ClientThread, SourceThread, UiThread,
      OnFrameReserve, OnFramePublish, OnDmabufFrame, ReadClientMessage,
      ReadEof, BindClient, TakeLatestFrame, NothingToSend,
      WaitForClientOrFrame, SendInline, SendShmInit, AcquireShmSlot,
      SendShmNotify, SendFails, ProcessShmInit, ProcessShmFrame,
      ProcessInline, Receive, ClientEof, ClientLeaves, UpdateFrame,
      SetPaused, SetWindowHidden, link
<1>5. LastOnWay /\ \A r : IsLatest(r) <=> r.map = shm'.map /\ r.slot = latest'.slot
  BY <1>1, <1>2, <1>4 DEF LatestKept, IsLatest
<1>6. CASE SendShmNotify
  <2>1. toClient' = Append(toClient, NoticeMessage) /\ th.pc = "notify"
    BY <1>6 DEF SendShmNotify, Send, NoticeMessage
  <2>2. /\ NoticeMessage \in ToClientMessages /\ NoticeMessage.magic = "IKAN"
        /\ NoticeMessage.map = th.map /\ NoticeMessage.slot = th.slot
    BY <1>1, <2>1, MessageTypes DEF NoticeMessage
  <2>3. th.map = shm.map /\ th.slot = latest.slot
    BY <1>3, <2>1 DEF Has, ThreadHas
  <2>4. /\ Len(toClient') = Len(toClient) + 1
        /\ toClient'[Len(toClient')] = NoticeMessage
    BY <1>1, <2>1, <2>2, SeqAppend
  <2>5. toClient' # << >>
    BY <1>1, <2>4
  <2>6. QED
    BY <1>2, <2>2, <2>3, <2>4, <2>5 DEF LastOnWay, IsLatest
<1>7. CASE th' = th /\ th.pc = "notify"
  BY <1>7 DEF LastOnWay
<1>8. th.pc = "notify" => th' = th \/ SendShmNotify
  BY <1>1, <1>2 DEF ThreadMoves, SendInline
<1>9. CASE th.pc # "notify"
  <2>1. ~SendInline /\ ~SendShmInit /\ ~SendShmNotify
    BY <1>2, <1>9 DEF SendInline, SendShmInit, SendShmNotify
  <2>2. CASE toClient # << >> /\ toClient' = toClient
    BY <1>2, <1>5, <1>9, <2>2 DEF LastOnWay, IsLatest
  <2>3. CASE toClient # << >> /\ toClient' = Tail(toClient)
    <3>1. /\ Head(toClient) = toClient[1] /\ Len(toClient) >= 1
          /\ Len(toClient') = Len(toClient) - 1
          /\ \A j \in 1 .. Len(toClient') : toClient'[j] = toClient[j + 1]
          /\ toClient' \in Seq(ToClientMessages)
      BY <1>1, <2>3, SeqTail
    <3>2. /\ toClient[Len(toClient)].magic = "IKAN"
          /\ IsLatest(toClient[Len(toClient)])
      BY <1>5, <1>9, <2>3 DEF LastOnWay
    <3>3. CASE Len(toClient) # 1
      <4>1. /\ toClient' # << >>
            /\ toClient'[Len(toClient')] = toClient[Len(toClient)]
        BY <1>1, <3>1, <3>3
      <4>2. QED
        BY <1>2, <3>2, <4>1 DEF LastOnWay, IsLatest
    <3>4. CASE Len(toClient) = 1
      <4>1. toClient' = << >>
        BY <1>1, <3>1, <3>4
      <4>2. Head(toClient).magic = "IKAN" /\ IsLatest(Head(toClient))
        BY <3>1, <3>2, <3>4
      <4>3. Head(toClient).map = cl.map
        BY <1>1, <2>3, <4>2, HeadNotice
      <4>4. mem[cl.map].gen # 0
        BY <1>3, <4>2, <4>3 DEF IsLatest
      <4>5. Pushed
        <5>0. toClient' # toClient /\ ~ClientLeaves
          BY <1>1, <3>1 DEF ClientLeaves
        <5>1. ProcessShmFrame \/ ProcessInline \/ ProcessShmInit
          BY <1>2, <2>1, <5>0
          DEF Next, WaylandThread, ClientThread, SourceThread, UiThread,
              OnFrameReserve, OnFramePublish, OnDmabufFrame,
              ReadClientMessage, ReadEof, BindClient, TakeLatestFrame,
              NothingToSend, WaitForClientOrFrame, AcquireShmSlot, SendFails,
              ClientEof, UpdateFrame, SetPaused, SetWindowHidden
        <5>2. ~ProcessShmInit
          BY <4>2 DEF ProcessShmInit
        <5>3. QED
          BY <1>1, <1>2, <5>1, <5>2, PushedRef
      <4>6. cl'.pending.map = cl.map /\ cl'.pending.slot = Head(toClient).slot
        BY <4>2, <4>4, <4>5 DEF Pushed
      <4>7. QED
        BY <1>2, <4>1, <4>2, <4>3, <4>6 DEF LastOnWay, IsLatest
    <3>5. QED
      BY <3>3, <3>4
  <2>4. CASE toClient = << >>
    <3>1. toClient' = << >>
      BY <1>1, <2>1, <2>4 DEF WireStep
    <3>2. ~Pushed /\ ~Closed
      BY <2>4 DEF Pushed, Closed
    <3>3. ~IsLatest(NoRef)
      BY <1>3 DEF IsLatest, NoRef
    <3>4. \/ IsLatest(cl.pending) /\ cl.pending # NoRef
          \/ cl.pending = NoRef /\ IsLatest(cl.resume) /\ cl.resume # NoRef
          \/ cl.pending = NoRef /\ cl.resume = NoRef /\ IsLatest(cl.screen)
      BY <1>5, <1>9, <2>4, <3>3 DEF LastOnWay
    <3>5. \/ IsLatest(cl'.pending)
          \/ cl'.pending = NoRef /\ IsLatest(cl'.resume)
          \/ cl'.pending = NoRef /\ cl'.resume = NoRef /\ IsLatest(cl'.screen)
      BY <1>1, <3>2, <3>4
      DEF RefMoves, Stays, Shown, PutBy, Resumed, ResumeKept
    <3>6. QED
      BY <1>2, <3>1, <3>5 DEF LastOnWay, IsLatest
  <2>5. th'.pc # "hello"
    BY <1>1, <1>2 DEF ThreadMoves
  <2>6. QED
    BY <1>1, <2>1, <2>2, <2>3, <2>4, <2>5 DEF WireStep
<1>10. QED
  BY <1>6, <1>7, <1>8, <1>9

LEMMA LatestKeptStep ==
    ASSUME WayInv, Next
    PROVE  LatestKept'
<1>1. CASE TakeLatestFrame
  BY <1>1, TakenLatest
<1>2. CASE ~TakeLatestFrame
  <2> SUFFICES ASSUME Sent', ~foreign'
               PROVE  /\ th'.pc \in {"loop", "poll", "notify"}
                      /\ th'.pc = "notify" => th'.frame.slot = latest'.slot
                      /\ latest'.slot \in shm'.busy
                      /\ ~CopyHas(shm.map, latest.slot)'
                      /\ \A i \in 1 .. Len(toServer') :
                            ~ReleaseHas(i, shm.map, latest.slot)'
                      /\ conn' = "open" => LastOnWay'
    BY DEF LatestKept
  <2>1. /\ latest' = latest /\ Sent /\ ~foreign /\ ThreadMoves /\ LatestKept
        /\ ~EndClient /\ ~RemapSlots /\ ~HelloEof
        /\ ~(\E f \in BOOLEAN : Connect(f))
        /\ th.pc \in {"loop", "poll", "notify"}
    BY <1>2, SentBefore, WayTypes, ThreadStep DEF WayInv
  <2>2. /\ th'.pc \in {"loop", "poll", "notify"}
        /\ th'.pc = "notify" => th'.frame.slot = latest'.slot
    BY <1>2, <2>1 DEF ThreadMoves, LatestKept
  <2>3. QED
    BY <1>2, <2>1, <2>2, SentStaysBusy, SentNotReleased, SentStaysLast
<1>3. QED
  BY <1>1, <1>2
-----------------------------------------------------------------------------
(* The pixels of the frames.                                                 *)

(* A slot holds what is written into it.                                     *)
LEMMA WrittenPixels ==
    ASSUME TypeOK, NEW a \in 1 .. Len(mem), NEW b \in Slots, NEW v,
           mem' = [mem EXCEPT ![a].pix[b] = v]
    PROVE  mem'[a].pix[b] = v
<1>1. mem \in Seq(Memories) /\ mem[a] \in Memories
  BY DEF TypeOK
<1>2. mem'[a] = [mem[a] EXCEPT !.pix[b] = v]
  BY <1>1
<1>3. mem'[a].pix = [mem[a].pix EXCEPT ![b] = v]
  BY <1>1, <1>2 DEF Memories
<1>4. QED
  BY <1>1, <1>3 DEF Memories

(* Who writes into a slot.                                                   *)
LEMMA WrittenSlot ==
    ASSUME IInv, Next, NEW m \in 1 .. Len(mem), NEW s \in Slots
    PROVE  \/ mem'[m].pix[s] = mem[m].pix[s]
           \/ m = shm.map /\ shm.gen # 0 /\ s \notin shm.busy
           \/ m = shm.map /\ th.pc = "acquire"
           \/ CopyHas(m, s)
           \/ /\ SendShmNotify /\ th.map = m /\ th.slot = s
              /\ mem'[m].pix[s] = NotifiedPixels
<1> DEFINE Kept == mem'[m].pix[s] = mem[m].pix[s]
<1>1. TypeOK /\ shm \in ShmStates /\ mem \in Seq(Memories)
  BY DEF IInv, TypeOK
<1>2. ASSUME NEW a \in 1 .. Len(mem), NEW b \in Slots, NEW v \in Pixels,
             mem' = [mem EXCEPT ![a].pix[b] = v]
      PROVE  mem'[m].pix[s] = IF m = a /\ s = b THEN v ELSE mem[m].pix[s]
  <2>1. m # a \/ s # b => mem'[m].pix[s] = mem[m].pix[s]
    BY <1>1, <1>2, OthersKept
  <2>2. m = a /\ s = b => mem'[m].pix[s] = v
    BY <1>1, <1>2, WrittenPixels
  <2>3. QED
    BY <2>1, <2>2
<1>3. ASSUME NEW size \in Sizes, OnFrameReserve(size)
      PROVE  Kept \/ (m = shm.map /\ shm.gen # 0 /\ s \notin shm.busy)
  <2>1. CASE mem' # mem
    <3>1. /\ CanReserve(size)
          /\ mem' = [mem EXCEPT ![shm.map].pix[FirstFree] = Torn]
      BY <1>3, <2>1 DEF OnFrameReserve
    <3>2. FirstFree \in Slots \ shm.busy /\ shm.gen # 0
      BY <1>1, <3>1, FirstFreeIsFree DEF CanReserve
    <3>3. shm.map \in 1 .. Len(mem)
      BY <1>1, <3>1 DEF CanReserve, IInv, ServerMapped, ShmStates, TypeOK
    <3>4. QED
      BY <1>2, <3>1, <3>2, <3>3, ConstantsInTypes
  <2>2. QED
    BY <2>1
<1>4. CASE OnFramePublish
  <2>1. CASE mem' # mem
    <3>1. /\ prod.pc = "slot"
          /\ mem' = [mem EXCEPT ![prod.map].pix[prod.slot] = drawn]
      BY <1>4, <2>1 DEF OnFramePublish
    <3>2. /\ prod.map \in 1 .. Len(mem) /\ prod.slot \in Slots
          /\ drawn \in Pixels
      BY <1>1, <3>1, ConstantsInTypes DEF IInv, ServerMapped, TypeOK
    <3>3. QED
      BY <1>2, <3>1, <3>2 DEF CopyHas
  <2>2. QED
    BY <2>1
<1>5. CASE AcquireShmSlot
  <2>1. PICK b \in Slots : mem' = [mem EXCEPT ![shm.map].pix[b] = Torn]
    BY <1>5, AcquiredSlot
  <2>2. shm.map \in 1 .. Len(mem) /\ th.pc = "acquire"
    BY <1>1, <1>5
    DEF AcquireShmSlot, IInv, ThreadMapped, ServerMapped, ShmStates, TypeOK
  <2>3. QED
    BY <1>2, <2>1, <2>2, ConstantsInTypes
<1>6. CASE SendShmNotify
  <2>1. /\ th.pc = "notify"
        /\ mem' = [mem EXCEPT ![th.map].pix[th.slot] = NotifiedPixels]
    BY <1>6 DEF SendShmNotify
  <2>2. th.map \in 1 .. Len(mem) /\ th.slot \in Slots
    BY <1>1, <2>1 DEF IInv, ThreadMapped, ServerMapped, ShmStates, TypeOK
  <2>3. NotifiedPixels \in Pixels
    <3>1. th \in ThreadStates
      BY <1>1 DEF TypeOK
    <3>2. QED
      BY <1>1, <2>2, <3>1, MemPix DEF NotifiedPixels, ThreadStates, Frames
  <2>4. QED
    BY <1>2, <1>6, <2>1, <2>2, <2>3
<1>7. CASE SendShmInit
  <2>1. mem'[m] = mem[m]
    BY <1>1, <1>7, SeqAppend DEF SendShmInit
  <2>2. QED
    BY <2>1
<1>8. ASSUME ~(\E size \in Sizes : OnFrameReserve(size)), ~OnFramePublish,
             ~AcquireShmSlot, ~SendShmNotify, ~SendShmInit
      PROVE  mem' = mem
  BY <1>8
  DEF Next, WaylandThread, ClientThread, SourceThread, UiThread,
      OnDmabufFrame, ReadClientMessage, ReadEof, EndClient, HelloEof,
      BindClient, TakeLatestFrame, NothingToSend, WaitForClientOrFrame,
      SendInline, RemapSlots, SendFails, Connect, ProcessShmInit,
      ProcessShmFrame, ProcessInline, ClientEof, ClientLeaves, UpdateFrame,
      SetPaused, SetWindowHidden, server
<1>9. QED
  BY <1>3, <1>4, <1>5, <1>6, <1>7, <1>8

(* Nobody writes into the slot of the latest frame.                          *)
LEMMA LatestPixels ==
    ASSUME WayInv, Next, HellosInTime, latest.slot # NoSlot
    PROVE  mem'[shm.map].pix[latest.slot] = mem[shm.map].pix[latest.slot]
<1>1. /\ IInv /\ TypeOK /\ SlotInv /\ LatestKept /\ ForeignKnown /\ ThreadFrame
      /\ shm \in ShmStates /\ latest \in Frames /\ Len(mem) \in Nat
  BY WayTypes DEF WayInv
<1>2. /\ shm.gen # 0 /\ shm.map # 0 /\ shm.map \in 1 .. Len(mem)
      /\ latest.slot \in Slots
  BY <1>1 DEF IInv, ServerMapped, ShmStates, Frames
<1>3. CASE ~latest.sent
  <2>1. Has("latest", 0, shm.map, latest.slot)
    BY <1>3 DEF Has, LatestHas
  <2>2. QED
    BY <1>1, <2>1, WritesApart DEF Kinds
<1>4. CASE latest.sent
  <2>1. ~foreign
    BY <1>1, <1>2 DEF HellosInTime, ForeignKnown
  <2>2. /\ th.pc \in {"loop", "poll", "notify"}
        /\ th.pc = "notify" => th.frame.slot = latest.slot
        /\ latest.slot \in shm.busy /\ ~CopyHas(shm.map, latest.slot)
    BY <1>1, <1>4, <2>1 DEF LatestKept, Sent
  <2>3. SendShmNotify => NotifiedPixels = mem[th.map].pix[th.slot]
    BY <2>2 DEF SendShmNotify, NotifiedPixels
  <2>4. QED
    BY <1>1, <1>2, <2>2, <2>3, WrittenSlot
<1>5. QED
  BY <1>3, <1>4

(* Nor into the one the client thread is about to tell of.                   *)
LEMMA ThreadPixels ==
    ASSUME WayInv, Next, th.frame.slot # NoSlot, th' = th
    PROVE  mem'[th.map].pix[th.slot] = mem[th.map].pix[th.slot]
<1>1. /\ IInv /\ TypeOK /\ SlotInv /\ ThreadFrame
      /\ shm \in ShmStates /\ th \in ThreadStates /\ Len(mem) \in Nat
  BY WayTypes DEF WayInv
<1>2. /\ th.pc = "notify" /\ shm.gen # 0 /\ th.map = shm.map
      /\ th.map \in 1 .. Len(mem) /\ th.slot \in Slots
  BY <1>1 DEF ThreadFrame, IInv, ThreadMapped, ServerMapped, ShmStates
<1>3. Has("thread", 0, th.map, th.slot)
  BY <1>2 DEF Has, ThreadHas
<1>4. th.slot \in shm.busy
  BY <1>1, <1>2, <1>3 DEF SlotInv, Covered
<1>5. ~CopyHas(th.map, th.slot)
  <2>1. CopyHas(th.map, th.slot) => Has("copy", 0, th.map, th.slot)
    BY DEF Has
  <2>2. QED
    BY <1>1, <1>3, <2>1 DEF SlotInv, Exclusive
<1>6. ~SendShmNotify
  BY <1>2 DEF SendShmNotify, IdleThread
<1>7. QED
  BY <1>1, <1>2, <1>4, <1>5, <1>6, WrittenSlot

(* What was in time stays so.                                                *)
LEMMA HellosBefore ==
    ASSUME IInv, Next, HellosInTime'
    PROVE  HellosInTime
<1>1. MemKept
  BY MemStep
<1>2. \A j \in 1 .. Len(mem) : mem'[j].foreign = mem[j].foreign
  BY ForeignStep
<1>3. QED
  BY <1>1, <1>2 DEF HellosInTime, MemKept

LEMMA WholeStep ==
    ASSUME WayInv, Next
    PROVE  WholeInTime'
<1> SUFFICES ASSUME HellosInTime'
             PROVE  Whole'
  BY DEF WholeInTime
<1>1. /\ IInv /\ SlotInv /\ TypeOK /\ LatestMoves /\ ShmMoves /\ ThreadMoves
      /\ RefMoves /\ WireMoves /\ ThreadFrame
      /\ shm \in ShmStates /\ Len(mem) \in Nat
      /\ toClient \in Seq(ToClientMessages)
  BY WayTypes, LatestStep, ShmStep, ThreadStep, RefStep, WireMovesStep
  DEF WayInv
<1>2. HellosInTime /\ Whole
  BY <1>1, HellosBefore DEF WayInv, WholeInTime
<1>3. latest'.slot = NoSlot => latest'.pix = latest'.id
  <2>1. CASE latest' = latest
    BY <1>2, <2>1 DEF Whole
  <2>2. CASE TakeLatestFrame
    BY <1>1, <1>2, <2>2, TakenFrame DEF Whole
  <2>3. CASE latest' = DetachLatestFrame(latest)
    BY <1>1, <1>2, <2>3, DetachedFrame DEF Whole
  <2>4. prod.pc = "slot" => prod.slot # NoSlot
    BY <1>1 DEF IInv, ServerMapped, Slots, NoSlot
  <2>5. QED
    BY <1>1, <2>1, <2>2, <2>3, <2>4 DEF LatestMoves
<1>4. latest'.slot # NoSlot => mem'[shm'.map].pix[latest'.slot] = latest'.id
  <2> SUFFICES ASSUME latest'.slot # NoSlot
               PROVE  mem'[shm'.map].pix[latest'.slot] = latest'.id
    OBVIOUS
  <2>1. ASSUME latest'.slot = latest.slot, latest'.id = latest.id
        PROVE  mem'[shm'.map].pix[latest'.slot] = latest'.id
    <3>1. ~RemapSlots /\ ~EndClient
      BY <1>1, DetachedFrame DEF RemapSlots, EndClient
    <3>2. ~\E f \in BOOLEAN : Connect(f)
      BY <1>1, <2>1 DEF Connect, IInv, ServerMapped, ThreadMapped
    <3>3. shm'.map = shm.map
      BY <1>1, <3>1, <3>2 DEF ShmMoves
    <3>4. QED
      BY <1>2, <2>1, <3>3, LatestPixels DEF Whole
  <2>2. CASE OnFramePublish /\ prod.pc = "slot" /\ prod.map = shm.map
             /\ latest'.slot = prod.slot /\ latest'.id = drawn
    <3>1. mem' = [mem EXCEPT ![prod.map].pix[prod.slot] = drawn]
      BY <2>2 DEF OnFramePublish
    <3>2. prod.map \in 1 .. Len(mem) /\ prod.slot \in Slots
      BY <1>1, <2>2 DEF IInv, ServerMapped
    <3>3. mem'[prod.map].pix[prod.slot] = drawn
      BY <1>1, <3>1, <3>2, WrittenPixels
    <3>4. shm'.map = shm.map
      <4>1. ~RemapSlots /\ ~EndClient /\ ~\E f \in BOOLEAN : Connect(f)
        BY <2>2
        DEF OnFramePublish, RemapSlots, EndClient, Connect, IdleProd, display
      <4>2. QED
        BY <1>1, <4>1 DEF ShmMoves
    <3>5. QED
      BY <2>2, <3>3, <3>4
  <2>3. QED
    BY <1>1, <2>1, <2>2, TakenFrame, DetachedFrame DEF LatestMoves
<1>5. th'.frame.slot = NoSlot => th'.frame.pix = th'.frame.id
  <2>1. CASE TakeLatestFrame
    BY <1>1, <1>2, <2>1, TakenFrame DEF Whole
  <2>2. QED
    BY <1>1, <1>2, <2>1 DEF ThreadMoves, Whole, EmptyFrame
<1>6. th'.frame.slot # NoSlot => mem'[th'.map].pix[th'.slot] = th'.frame.id
  <2>1. CASE TakeLatestFrame
    BY <1>1, <1>2, <2>1, TakenFrame DEF Whole
  <2>2. CASE th' = th
    BY <1>2, <2>2, ThreadPixels DEF Whole
  <2>3. QED
    BY <1>1, <2>1, <2>2 DEF ThreadMoves, ThreadFrame, EmptyFrame
<1>7. \A i \in 1 .. Len(toClient') :
         toClient'[i].magic # "IKAS" => toClient'[i].pix = toClient'[i].id
  <2>1. \A e : SentNow(e) => e.magic = "IKAS" \/ e.pix = e.id
    <3>1. SendInline => th.frame.slot = NoSlot
      BY <1>1 DEF SendInline, ThreadFrame
    <3>2. QED
      BY <1>2, <3>1 DEF SentNow, Whole
  <2>2. QED
    BY <1>1, <1>2, <2>1 DEF WireMoves, Whole
<1>8. /\ cl'.pending.pix = cl'.pending.id /\ cl'.screen.pix = cl'.screen.id
      /\ cl'.resume.pix = cl'.resume.id
  <2>1. /\ cl.pending.pix = cl.pending.id /\ cl.screen.pix = cl.screen.id
        /\ cl.resume.pix = cl.resume.id /\ NoRef.pix = NoRef.id
    BY <1>2 DEF Whole, NoRef
  <2>2. CASE Pushed
    <3>1. 1 \in 1 .. Len(toClient) /\ Head(toClient) = toClient[1]
      BY <1>1, <2>2, SeqTail DEF Pushed
    <3>2. Head(toClient).pix = Head(toClient).id
      BY <1>2, <2>2, <3>1 DEF Pushed, Whole
    <3>3. Head(toClient).magic = "IKAN" => mem[cl.map].gen # 0
      BY <1>1, <1>2, <2>2, HeadNotice DEF Pushed, HellosInTime
    <3>4. QED
      BY <2>1, <2>2, <3>2, <3>3 DEF Pushed
  <2>3. QED
    BY <1>1, <2>1, <2>2 DEF RefMoves, Stays, Shown, PutBy, Resumed, Closed
<1>9. QED
  BY <1>3, <1>4, <1>5, <1>6, <1>7, <1>8 DEF Whole
-----------------------------------------------------------------------------
(* The theorems.                                                             *)

LEMMA InitWayInv ==
    ASSUME Init
    PROVE  WayInv
<1>1. SlotInv
  BY InitSlotInv
<1>2. ResumeKept /\ ForeignKnown /\ ThreadFrame /\ LatestKept
  BY DEF Init, ResumeKept, ForeignKnown, ThreadFrame, LatestKept, Sent,
         EmptyFrame, EmptyShm, IdleThread
<1>3. WholeInTime /\ Numbered
  BY DEF Init, WholeInTime, Whole, Numbered, Carries, EmptyFrame, IdleThread,
         NoRef
<1>4. InOrder
  BY DEF Init, InOrder, Behind, Carries, EmptyFrame, IdleThread, IdleProd,
         NoRef, NoFrame
<1>5. HelloRead
  BY DEF Init, HelloRead, HellosInTime, IdleThread
<1>6. QED
  BY <1>1, <1>2, <1>3, <1>4, <1>5 DEF WayInv

LEMMA StutterWayInv ==
    ASSUME WayInv, UNCHANGED vars
    PROVE  WayInv'
<1>1. SlotInv'
  BY StutterSlotInv DEF WayInv
<1>2. ResumeKept' /\ ForeignKnown' /\ ThreadFrame'
  BY DEF WayInv, vars, ResumeKept, ForeignKnown, ThreadFrame
<1>3. LatestKept'
  BY DEF WayInv, vars, LatestKept, Sent, CopyHas, ReleaseHas, LastOnWay,
         IsLatest
<1>4. WholeInTime' /\ Numbered' /\ HelloRead'
  BY DEF WayInv, vars, WholeInTime, Whole, Numbered, Carries, HelloRead,
         HellosInTime
<1>5. InOrder'
  BY DEF WayInv, vars, InOrder, Behind, Carries
<1>6. QED
  BY <1>1, <1>2, <1>3, <1>4, <1>5 DEF WayInv

(* WayInv is an invariant of the stream: on its way from the guest to the    *)
(* window a frame keeps its place in the order and its pixels.               *)
THEOREM WayInvariant == Spec => []WayInv
<1>1. Init => WayInv
  BY InitWayInv
<1>2. WayInv /\ SlotInv' /\ [Next]_vars => WayInv'
  <2>1. ASSUME WayInv, SlotInv', Next
        PROVE  WayInv'
    BY <2>1, ResumeKeptStep, ForeignKnownStep, ThreadFrameStep,
       LatestKeptStep, WholeStep, NumberedStep, InOrderStep, HelloReadStep
    DEF WayInv
  <2>2. QED
    BY <2>1, StutterWayInv
<1>3. QED
  BY <1>1, <1>2, SlotInvariant, PTL DEF Spec

(* What the window shows, by the number of the frame.                        *)
LEMMA ShownFrame ==
    ASSUME WayInv, SlotsStable, HellosInTime
    PROVE  ShownPixels = cl.screen.id
<1>1. cl.screen.pix = cl.screen.id
  BY DEF WayInv, WholeInTime, Whole
<1>2. cl.screen.map # 0 =>
         mem[cl.screen.map].pix[cl.screen.slot] = cl.screen.pix
  <2> SUFFICES ASSUME cl.screen.map # 0
               PROVE  mem[cl.screen.map].pix[cl.screen.slot] = cl.screen.pix
    OBVIOUS
  <2>1. <<cl.screen.map, cl.screen.slot, cl.screen.pix>> \in ConsoleRefs
    BY DEF ConsoleRefs
  <2>2. QED
    BY <2>1 DEF SlotsStable
<1>3. QED
  BY <1>1, <1>2 DEF ShownPixels

(* What the window shows is the frame it was told about, whole, through      *)
(* slots, buffers, remaps and reconnections, as long as the hellos of the    *)
(* clients that shared memory was made for were read in time.                *)
THEOREM WindowShowsWholeFrames == Spec => []ShownIntact
<1>1. WayInv /\ SlotsStable => ShownIntact
  BY ShownFrame DEF ShownIntact
<1>2. QED
  BY <1>1, WayInvariant, SlotsAreStable, PTL

(* The window never goes back to an earlier frame: not by a frame that comes *)
(* late, not by one that was kept while the display was paused, and not by   *)
(* a new connection.                                                         *)
THEOREM WindowNeverGoesBack == Spec => NeverBackwards
<1>1. WayInv /\ [Next]_vars =>
         [cl'.screen.id # NoFrame => cl'.screen.id >= cl.screen.id]_vars
  <2> SUFFICES ASSUME WayInv, Next, cl'.screen.id # NoFrame
               PROVE  cl'.screen.id >= cl.screen.id
    OBVIOUS
  <2>1. RefMoves /\ cl \in ConsoleStates /\ InOrder
    BY WayTypes, RefStep DEF WayInv
  <2>2. cl.screen.id \in Nat /\ cl.pending.id \in Nat /\ cl.resume.id \in Nat
    BY <2>1 DEF ConsoleStates, Refs, FrameIds
  <2>3. /\ cl.pending # NoRef => cl.screen.id <= cl.pending.id
        /\ cl.resume # NoRef => cl.screen.id <= cl.resume.id
    BY <2>1 DEF InOrder
  <2>4. QED
    BY <2>1, <2>2, <2>3
    DEF RefMoves, Stays, Pushed, Shown, PutBy, Resumed, Closed, NoRef
<1>2. QED
  BY <1>1, WayInvariant, PTL DEF Spec, NeverBackwards
-----------------------------------------------------------------------------
(* The stream as a channel of frames, when hellos are in time.               *)

(* What a step does to what the channel shows of the stream.                 *)
LEMMA ChannelMoves ==
    ASSUME WayInv, Next
    PROVE  \/ latest'.id = latest.id /\ cl'.screen.id = cl.screen.id
           \/ /\ latest'.id \in 1 .. MaxFrames /\ latest'.id > latest.id
              /\ cl' = cl /\ conn' = conn /\ foreign' = foreign
           \/ /\ latest'.id = latest.id /\ cl'.screen.id \in 1 .. MaxFrames
              /\ cl'.screen.id > cl.screen.id /\ cl'.screen.id <= latest.id
           \/ /\ latest'.id = latest.id /\ cl'.screen.id = NoFrame
              /\ conn' # "open"
<1>1. /\ IInv /\ SlotInv /\ LatestMoves /\ RefMoves /\ InOrder /\ Numbered
      /\ cl \in ConsoleStates /\ latest \in Frames
  BY WayTypes, LatestStep, RefStep DEF WayInv
<1>2. /\ latest.id \in Nat /\ latest'.id \in Nat /\ latest.id <= latest'.id
      /\ latest'.id <= drawn'
  BY LatestNumber
<1>3. CASE latest'.id # latest.id
  <2>1. OnFramePublish \/ \E size \in Sizes : OnDmabufFrame(size)
    BY <1>1, <1>3, TakenFrame, DetachedFrame DEF LatestMoves
  <2>2. cl' = cl /\ conn' = conn /\ foreign' = foreign
    BY <2>1 DEF OnFramePublish, OnDmabufFrame, console, link
  <2>3. drawn' <= MaxFrames
    <3>1. TypeOK'
      BY <1>1, TypeStep
    <3>2. QED
      BY <3>1, BoundsAssumption DEF TypeOK, FrameIds
  <2>4. drawn' \in Nat /\ MaxFrames \in Nat
    BY LatestNumber, BoundsAssumption
  <2>5. QED
    BY <1>2, <1>3, <2>2, <2>3, <2>4
<1>4. CASE latest'.id = latest.id /\ cl'.screen.id # cl.screen.id
  <2>1. /\ cl.screen.id \in Nat /\ cl.pending.id \in 0 .. MaxFrames
        /\ cl.resume.id \in 0 .. MaxFrames /\ MaxFrames \in Nat
    BY <1>1, BoundsAssumption DEF ConsoleStates, Refs, FrameIds
  <2>2. CASE Closed
    BY <1>4, <2>2 DEF Closed, NoRef
  <2>3. CASE Shown
    <3>1. /\ cl'.screen.id = cl.pending.id /\ cl.pending.id # NoFrame
          /\ cl.screen.id <= cl.pending.id /\ cl.pending.id <= latest.id
      BY <1>1, <2>3 DEF Shown, InOrder, Behind, Numbered
    <3>2. QED
      BY <1>2, <1>4, <2>1, <3>1 DEF NoFrame
  <2>4. CASE Resumed
    <3>1. /\ cl'.screen.id = cl.resume.id /\ cl.resume.id # NoFrame
          /\ cl.screen.id <= cl.resume.id /\ cl.resume.id <= latest.id
      BY <1>1, <2>4 DEF Resumed, InOrder, Behind, Numbered
    <3>2. QED
      BY <1>2, <1>4, <2>1, <3>1 DEF NoFrame
  <2>5. QED
    BY <1>1, <1>4, <2>2, <2>3, <2>4 DEF RefMoves, Stays, Pushed, PutBy
<1>5. QED
  BY <1>3, <1>4

(* A step of the stream is a step of the channel, or leaves it alone.        *)
LEMMA ChannelStep ==
    ASSUME WayInv, Next, ShownPixels = cl.screen.id,
           ShownPixels' = cl'.screen.id
    PROVE  Channel!Next \/ UNCHANGED Channel!channelVars
<1>1. Watching \in BOOLEAN /\ Watching' \in BOOLEAN
  BY DEF Watching
<1>2. CASE latest'.id = latest.id /\ cl'.screen.id = cl.screen.id
  <2>1. CASE Watching' <=> Watching
    <3>1. Watching' = Watching
      BY <1>1, <2>1
    <3>2. QED
      BY <1>2, <3>1 DEF Channel!channelVars
  <2>2. CASE ~(Watching' <=> Watching)
    <3>1. Watching' = ~Watching
      BY <1>1, <2>2
    <3>2. Channel!Watch
      BY <1>2, <3>1 DEF Channel!Watch
    <3>3. QED
      BY <3>2 DEF Channel!Next
  <2>3. QED
    BY <2>1, <2>2
<1>3. CASE /\ latest'.id \in 1 .. MaxFrames /\ latest'.id > latest.id
           /\ cl' = cl /\ conn' = conn /\ foreign' = foreign
  <2>1. Watching' = Watching
    BY <1>3 DEF Watching
  <2>2. Channel!Draw
    BY <1>3, <2>1 DEF Channel!Draw
  <2>3. QED
    BY <2>2 DEF Channel!Next
<1>4. CASE /\ latest'.id = latest.id /\ cl'.screen.id \in 1 .. MaxFrames
           /\ cl'.screen.id > cl.screen.id /\ cl'.screen.id <= latest.id
  <2>1. PICK f \in 1 .. MaxFrames : f = cl'.screen.id
    BY <1>4
  <2>2. cl.screen.id \in Nat
    BY WayTypes DEF ConsoleStates, Refs, FrameIds
  <2>3. Channel!Show(f)
    BY <1>1, <1>4, <2>1, <2>2 DEF Channel!Show
  <2>4. QED
    BY <2>3 DEF Channel!Next
<1>5. CASE /\ latest'.id = latest.id /\ cl'.screen.id = NoFrame
           /\ conn' # "open"
  <2>1. Watching' = FALSE
    BY <1>5 DEF Watching
  <2>2. Channel!Leave
    BY <1>5, <2>1 DEF Channel!Leave
  <2>3. QED
    BY <2>2 DEF Channel!Next
<1>6. QED
  BY <1>2, <1>3, <1>4, <1>5, ChannelMoves

(* With hellos in time, the slots, copies, messages and connections between  *)
(* OnFrame and the texture of the window are a channel of frames: the pixels *)
(* on screen are those of one frame of the display, a later one than before, *)
(* or none once the console is gone.  (That a window which can be seen       *)
(* catches up is the fairness of the channel, and left to TLC.)              *)
THEOREM StreamIsFrameChannel ==
    ASSUME ~LateHello
    PROVE  Spec => Channel!Spec
<1>1. Init => Channel!Init
  <2> SUFFICES ASSUME Init
               PROVE  Channel!Init
    OBVIOUS
  <2>1. latest.id = NoFrame /\ ShownPixels = NoFrame
    BY DEF Init, EmptyFrame, ShownPixels, NoRef
  <2>2. Watching = FALSE
    BY DEF Init, Watching
  <2>3. QED
    BY <2>1, <2>2 DEF Channel!Init
<1>2. WayInv /\ SlotsStable => ShownPixels = cl.screen.id
  BY ShownFrame DEF WayInv, HelloRead
<1>3. WayInv /\ WayInv' /\ SlotsStable /\ SlotsStable' /\ [Next]_vars =>
         [Channel!Next]_(Channel!channelVars)
  <2>1. ASSUME WayInv, WayInv', SlotsStable, SlotsStable', Next
        PROVE  Channel!Next \/ UNCHANGED Channel!channelVars
    <3>1. ShownPixels = cl.screen.id
      BY <1>2, <2>1
    <3>2. (WayInv /\ SlotsStable => ShownPixels = cl.screen.id)'
      BY <1>2, PTL
    <3>3. QED
      BY <2>1, <3>1, <3>2, ChannelStep
  <2>2. ASSUME UNCHANGED vars
        PROVE  UNCHANGED Channel!channelVars
    BY <2>2 DEF vars, Channel!channelVars, ShownPixels, Watching
  <2>3. QED
    BY <2>1, <2>2
<1>4. QED
  BY <1>1, <1>3, WayInvariant, SlotsAreStable, PTL DEF Spec, Channel!Spec
=============================================================================
