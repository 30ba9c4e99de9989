------------------------------ MODULE RawFrames ------------------------------
(* The frames of one display on their way from the Wayland server thread of  *)
(* ika_stream to the window of a console (scrcpy), as pixels: the slots of   *)
(* shared memory and the messages about them (IKAS, IKAN, IKAR, IKAP).       *)
(*                                                                           *)
(* Four threads take steps here: the Wayland server thread (OnFrame), the    *)
(* client thread of the display (StreamToClient), and in the console the     *)
(* frame source thread (sc_cf_process_msg) and the UI thread.  OnFrame       *)
(* reserves a slot under mutex_, copies the pixels into it WITHOUT mutex_,   *)
(* and publishes the frame under mutex_ again; the client thread remaps the  *)
(* slots, waits for a free one and copies into it in the meantime.           *)
(*                                                                           *)
(* Data: a frame is its number (1, 2, ... in the order of arrival) and its   *)
(* size; the pixels of a slot or buffer are the number of the frame they     *)
(* come from, or Torn while a copy is under way.  Shared memories are        *)
(* numbered, so that the pointer comparison of OnFrame and the generations   *)
(* on the wire are two different things.                                     *)
EXTENDS Integers, Sequences

CONSTANTS
    SlotCount,    \* kSlotCount, 6 in the code
    Sizes,        \* payload sizes of the frames
    MaxFrames,    \* bound: frames the guest draws
    MaxSessions,  \* bound: connections
    MaxToggles,   \* bound: changes of the window between hidden and shown
    MaxPauses,    \* bound: changes of the display's pause in the console
    LateHello     \* may the hello come after kClientHelloTimeoutMs

ASSUME SlotCountAssumption == SlotCount \in Nat \ {0}
ASSUME SizesAssumption == Sizes \subseteq Nat \ {0}
ASSUME BoundsAssumption == /\ MaxFrames \in Nat
                           /\ MaxSessions \in Nat
                           /\ MaxToggles \in Nat
                           /\ MaxPauses \in Nat
ASSUME LateHelloAssumption == LateHello \in BOOLEAN

VARIABLES
    drawn,      \* frames that arrived so far: the number of the last one
    suppress,   \* DisplayStream::suppress_next_raw
    latest,     \* DisplayStream::latest_frame
    frameGen,   \* DisplayStream::generation
    shm,        \* DisplayStream::shm (until the thread is bound, its hello)
    mem,        \* every shared memory made so far: its slots, its generation,
                \* the connection it was made for, and whether it was foreign
    prod,       \* OnFrame() between its two critical sections
    th,         \* the client thread
    wake,       \* the client thread's eventfd is readable
    ses,        \* the number of the connection
    conn,       \* its state
    foreign,    \* the client shows another display, its hello came too late
    toClient,   \* the socket, server to client
    toServer,   \* the socket, client to server
    cl,         \* the console: its slots, its frame buffer, its screen
    toggles,    \* window changes so far
    pauses      \* pauses and resumes of the display so far

display == <<suppress, latest, frameGen>>
server == <<display, shm, mem, prod, th, wake>>
link == <<ses, conn, foreign>>
console == <<cl, toggles, pauses>>
vars == <<drawn, suppress, latest, frameGen, shm, mem, prod, th, wake, ses,
          conn, foreign, toClient, toServer, cl, toggles, pauses>>

Slots == 0 .. (SlotCount - 1)
NoSlot == -1
NoFrame == 0
Torn == -1
Pixels == {Torn} \cup (0 .. MaxFrames)
FrameIds == 0 .. MaxFrames

(* Nothing to send yet, or a frame taken back from unmapped slots.           *)
EmptyFrame == [type |-> "none", id |-> NoFrame, size |-> 0, slot |-> NoSlot,
               sent |-> FALSE, pix |-> NoFrame]

(* A ClientShm without slots, of a client that said nothing yet.             *)
EmptyShm == [map |-> 0, size |-> 0, next |-> 0, gen |-> 0, busy |-> {},
             lastGen |-> 0, releases |-> FALSE, paused |-> FALSE]

(* A frame in the console: a slot it must release (map # 0), or a copy.      *)
NoRef == [id |-> NoFrame, map |-> 0, slot |-> NoSlot, pix |-> NoFrame]

IdleProd == [pc |-> "idle", map |-> 0, slot |-> NoSlot, size |-> 0]

IdleThread == [pc |-> "none", frame |-> EmptyFrame, sentGen |-> 0,
               map |-> 0, slot |-> NoSlot]

Init ==
    /\ drawn = 0
    /\ suppress = FALSE
    /\ latest = EmptyFrame
    /\ frameGen = 0
    /\ shm = EmptyShm
    /\ mem = << >>
    /\ prod = IdleProd
    /\ th = IdleThread
    /\ wake = FALSE
    /\ ses = 0
    /\ conn = "none"
    /\ foreign = FALSE
    /\ toClient = << >>
    /\ toServer = << >>
    /\ cl = [map |-> 0, pending |-> NoRef, screen |-> NoRef,
             resume |-> NoRef, paused |-> FALSE, hidden |-> FALSE]
    /\ toggles = 0
    /\ pauses = 0
-----------------------------------------------------------------------------
(* Helpers that run under mutex_.                                            *)

(* The client thread owns the display between binding and EndClientLocked.   *)
Bound == th.pc \notin {"none", "hello"}

(* SignalWakeFd: only the bound client thread's eventfd is registered.       *)
SignalNobody == UNCHANGED wake
SignalWakeFd == wake' = (wake \/ Bound)

(* CloseClientShm: the slots go, what belongs to the connection stays.       *)
CloseClientShm(s) ==
    [s EXCEPT !.map = 0, !.size = 0, !.next = 0, !.gen = 0, !.busy = {}]

(* DetachLatestFrameFromShmLocked: a latest frame that is in a slot is       *)
(* copied to a buffer, with whatever the slot holds at this moment.          *)
DetachNoCopy(f) == [f EXCEPT !.slot = NoSlot, !.sent = FALSE]
DetachLatestFrame(f) ==
    IF f.slot = NoSlot THEN f
    ELSE IF shm.map # 0
         THEN [f EXCEPT !.pix = mem[shm.map].pix[f.slot], !.slot = NoSlot,
                        !.sent = FALSE]
         ELSE [f EXCEPT !.type = "none", !.slot = NoSlot, !.sent = FALSE]

(* ReplaceLatestFrameLocked: the slot of a frame never sent is free again.   *)
BusyAfterReplaceLeaks(f) == shm.busy
BusyAfterReplace(f) ==
    IF latest.slot # NoSlot /\ ~latest.sent /\ latest.slot # f.slot
    THEN shm.busy \ {latest.slot}
    ELSE shm.busy

ReplaceLatestFrame(f) ==
    /\ shm' = [shm EXCEPT !.busy = BusyAfterReplace(f)]
    /\ latest' = f

(* FrameChangedLocked                                                        *)
FrameChanged ==
    /\ frameGen' = frameGen + 1
    /\ SignalWakeFd

(* The free slot a search from next_slot finds first.                        *)
NextSlot == shm.next
FirstFree ==
    LET dist(s) == (s - shm.next + SlotCount) % SlotCount
    IN  CHOOSE s \in Slots \ shm.busy :
            \A t \in Slots \ shm.busy : dist(s) <= dist(t)

TakeSlot(s) == [shm EXCEPT !.busy = @ \cup {s}, !.next = (s + 1) % SlotCount]

(* ReserveSlotLocked: only slots that the client releases, big enough.       *)
CanReserve(size) ==
    /\ shm.map # 0 /\ shm.gen # 0 /\ size <= shm.size
    /\ Slots \ shm.busy # {}
-----------------------------------------------------------------------------
(* The Wayland server thread.                                                *)

(* OnFrame, first critical section: the readback right after a dma-buf frame *)
(* is dropped; otherwise the frame gets a free slot or a buffer of its own.  *)
OnFrameReserve(size) ==
    /\ prod.pc = "idle"
    /\ drawn < MaxFrames
    /\ drawn' = drawn + 1
    /\ suppress' = FALSE
    /\ \/ /\ suppress
          /\ UNCHANGED <<shm, prod, mem>>
       \/ /\ ~suppress
          /\ CanReserve(size)
          /\ shm' = TakeSlot(FirstFree)
          /\ mem' = [mem EXCEPT ![shm.map].pix[FirstFree] = Torn]
          /\ prod' = [pc |-> "slot", map |-> shm.map, slot |-> FirstFree,
                      size |-> size]
       \/ /\ ~suppress
          /\ ~CanReserve(size)
          /\ prod' = [IdleProd EXCEPT !.pc = "buffer", !.size = size]
          /\ UNCHANGED <<shm, mem>>
    /\ UNCHANGED <<latest, frameGen, th, wake, link, toClient, toServer,
                   console>>

RawFrameOfNext(slot, pix) ==
    [type |-> "raw", id |-> drawn + 1, size |-> prod.size, slot |-> slot,
     sent |-> FALSE, pix |-> pix]
RawFrame(slot, pix) == [type |-> "raw", id |-> drawn, size |-> prod.size,
                        slot |-> slot, sent |-> FALSE, pix |-> pix]

(* OnFrame, end of the copy and second critical section.  Slots remade or    *)
(* unmapped meanwhile take the frame with them.                              *)
OnFramePublish ==
    /\ prod.pc # "idle"
    /\ prod' = IdleProd
    /\ \/ /\ prod.pc = "slot"
          /\ mem' = [mem EXCEPT ![prod.map].pix[prod.slot] = drawn]
          /\ IF shm.map = prod.map
             THEN /\ ReplaceLatestFrame(RawFrame(prod.slot, NoFrame))
                  /\ FrameChanged
             ELSE UNCHANGED <<shm, latest, frameGen, wake>>
       \/ /\ prod.pc = "buffer"
          /\ ReplaceLatestFrame(RawFrame(NoSlot, drawn))
          /\ FrameChanged
          /\ UNCHANGED mem
    /\ UNCHANGED <<drawn, suppress, th, link, toClient, toServer, console>>

(* OnDmabufFrame, as far as the slots are concerned (DmabufHolds has the     *)
(* buffers): it replaces the latest frame, and the next readback is dropped. *)
OnDmabufFrame(size) ==
    /\ prod.pc = "idle"
    /\ drawn < MaxFrames
    /\ drawn' = drawn + 1
    /\ ReplaceLatestFrame([EmptyFrame EXCEPT
                             !.type = "dmabuf", !.id = drawn + 1,
                             !.size = size, !.pix = drawn + 1])
    /\ suppress' = TRUE
    /\ FrameChanged
    /\ UNCHANGED <<mem, prod, th, link, toClient, toServer, console>>
-----------------------------------------------------------------------------
(* The client thread of ika_stream.                                          *)

(* The slot an IKAR frees: none if it is about slots remade since.           *)
ReleasedSlots(m) == IF shm.gen # 0 /\ m.gen = shm.gen THEN {m.slot} ELSE {}

(* ReadClientMessages, one message: the thread reads what has arrived when   *)
(* it starts, at the top of its loop, and while it waits for a free slot.    *)
ReadClientMessage ==
    /\ th.pc \in {"hello", "loop"} \/ (th.pc = "acquire" /\ shm.gen # 0)
    /\ toServer # << >>
    /\ ~(th.pc = "hello" /\ foreign)
    /\ toServer' = Tail(toServer)
    /\ LET m == Head(toServer) IN
       shm' = CASE m.magic = "IKAH" -> [shm EXCEPT !.releases = TRUE]
                [] m.magic = "IKAP" -> [shm EXCEPT !.paused = m.hidden]
                [] m.magic = "IKAR" ->
                      [shm EXCEPT !.busy = @ \ ReleasedSlots(m)]
    /\ UNCHANGED <<drawn, display, mem, prod, th, wake, link, toClient,
                   console>>

(* EndClientLocked, and the close of the thread's socket.                    *)
EndClient ==
    /\ latest' = DetachLatestFrame(latest)
    /\ shm' = CloseClientShm(shm)
    /\ th' = IdleThread
    /\ wake' = FALSE
    /\ toServer' = << >>
    /\ conn' = IF conn = "left" THEN "none" ELSE "ended"
    /\ UNCHANGED <<drawn, suppress, frameGen, mem, prod, ses, foreign,
                   toClient, console>>

(* ReadClientMessages finds the connection closed.                           *)
ReadEof ==
    /\ th.pc = "loop" \/ (th.pc = "acquire" /\ shm.gen # 0)
    /\ conn = "left" /\ toServer = << >>
    /\ EndClient

(* The connection closes before the client is bound, or its hello sends the  *)
(* thread to another display: this display is as it was.                     *)
HelloEof ==
    /\ th.pc = "hello"
    /\ conn = "left" /\ (toServer = << >> \/ foreign)
    /\ th' = IdleThread
    /\ toServer' = << >>
    /\ conn' = "none"
    /\ UNCHANGED <<drawn, display, shm, mem, prod, wake, ses, foreign,
                   toClient, console>>

(* ClientLoop: the hello was read, or did not come in time.                  *)
BindClient ==
    /\ th.pc = "hello"
    /\ toServer = << >> \/ LateHello
    /\ th' = [th EXCEPT !.pc = "loop"]
    /\ UNCHANGED <<drawn, display, shm, mem, prod, wake, link, toClient,
                   toServer, console>>

(* SendShmFrame: no slots yet, or too small for the frame.                   *)
NeedsShmInit == shm.map = 0 \/ latest.size > shm.size

(* StreamToClient: no message is left, and there is a frame to send.  From   *)
(* now on the slot is the client's (CopyLatestFrameLocked).                  *)
TakeLatestFrame ==
    /\ th.pc = "loop" /\ toServer = << >>
    /\ ~shm.paused /\ frameGen # th.sentGen
    /\ th' = [th EXCEPT !.sentGen = frameGen,
                        !.frame = latest,
                        !.map = shm.map,
                        !.slot = latest.slot,
                        !.pc =
                   CASE latest.type = "none" -> "poll"
                     [] latest.type = "dmabuf" -> "inline"
                     [] latest.type = "raw" /\ latest.slot # NoSlot -> "notify"
                     [] OTHER -> IF NeedsShmInit THEN "init" ELSE "acquire"]
    /\ latest' = [latest EXCEPT !.sent = (latest.slot # NoSlot)]
    /\ UNCHANGED <<drawn, suppress, frameGen, shm, mem, prod, wake, link,
                   toClient, toServer, console>>

(* StreamToClient has nothing to send, and waits.                            *)
NothingToSend ==
    /\ th.pc = "loop" /\ toServer = << >>
    /\ shm.paused \/ frameGen = th.sentGen
    /\ th' = [th EXCEPT !.pc = "poll"]
    /\ UNCHANGED <<drawn, display, shm, mem, prod, wake, link, toClient,
                   toServer, console>>

(* WaitForClientOrFrame returns: the eventfd or the socket is readable.      *)
WaitForClientOrFrame ==
    /\ th.pc = "poll"
    /\ wake \/ toServer # << >> \/ conn = "left"
    /\ wake' = FALSE
    /\ th' = [th EXCEPT !.pc = "loop"]
    /\ UNCHANGED <<drawn, display, shm, mem, prod, link, toClient, toServer,
                   console>>

Send(m) ==
    /\ conn = "open"
    /\ toClient' = Append(toClient, m)

(* SendDmabufFrame, or SendRawFrame when there is no shared memory to be had *)
(* (the pixels follow the header on the socket): the client gets a copy.     *)
SendInline ==
    /\ th.pc \in {"inline", "init"}
    /\ Send([magic |-> "IKAF", id |-> th.frame.id, pix |-> th.frame.pix])
    /\ th' = [th EXCEPT !.pc = "loop", !.frame = EmptyFrame]
    /\ UNCHANGED <<drawn, display, shm, mem, prod, wake, link, toServer,
                   console>>

(* SendShmInit: the slots are announced before they replace the earlier ones *)
NextGen == IF shm.releases THEN shm.lastGen + 1 ELSE 0

SendShmInit ==
    /\ th.pc = "init"
    /\ Send([magic |-> "IKAS", map |-> Len(mem) + 1])
    /\ mem' = Append(mem, [gen |-> NextGen, ses |-> ses, foreign |-> foreign,
                           pix |-> [s \in Slots |-> NoFrame]])
    /\ th' = [th EXCEPT !.pc = "remap"]
    /\ UNCHANGED <<drawn, display, shm, prod, wake, link, toServer, console>>

(* SendShmInit, its critical section.                                        *)
RemapSlots ==
    /\ th.pc = "remap"
    /\ latest' = DetachLatestFrame(latest)
    /\ shm' = [shm EXCEPT !.map = Len(mem), !.size = th.frame.size, !.next = 0,
                          !.gen = NextGen, !.busy = {},
                          !.lastGen = IF NextGen # 0 THEN NextGen ELSE @]
    /\ th' = [th EXCEPT !.pc = "acquire"]
    /\ UNCHANGED <<drawn, suppress, frameGen, mem, prod, wake, link,
                   toClient, toServer, console>>

(* AcquireShmSlot, and the start of the copy: a client that releases nothing *)
(* gets the slots in turn, another one is waited for.                        *)
AcquireShmSlot ==
    /\ th.pc = "acquire"
    /\ LET s == IF shm.gen = 0 THEN shm.next ELSE FirstFree IN
       /\ \/ shm.gen = 0 /\ shm' = [shm EXCEPT !.next = (s + 1) % SlotCount]
          \/ /\ shm.gen # 0 /\ toServer = << >>
             /\ Slots \ shm.busy # {}
             /\ shm' = TakeSlot(s)
       /\ mem' = [mem EXCEPT ![shm.map].pix[s] = Torn]
       /\ th' = [th EXCEPT !.pc = "notify", !.map = shm.map, !.slot = s]
    /\ UNCHANGED <<drawn, display, prod, wake, link, toClient, toServer,
                   console>>

(* The end of the copy (of a frame that has pixels of its own), and          *)
(* SendShmNotify.  The message says which slot and frame.  The shared memory *)
(* meant and the pixels in the slot are not on the wire: the properties      *)
(* compare them with what the console finds.                                 *)
NotifiedPixels == IF th.frame.slot = NoSlot THEN th.frame.pix
                                            ELSE mem[th.map].pix[th.slot]

SendShmNotify ==
    /\ th.pc = "notify"
    /\ Send([magic |-> "IKAN", id |-> th.frame.id, slot |-> th.slot,
             map |-> th.map, pix |-> NotifiedPixels])
    /\ mem' = [mem EXCEPT ![th.map].pix[th.slot] = NotifiedPixels]
    /\ th' = [IdleThread EXCEPT !.pc = "loop", !.sentGen = th.sentGen]
    /\ UNCHANGED <<drawn, display, shm, prod, wake, link, toServer, console>>

(* A send fails: the client left, or its socket stayed full for              *)
(* kFrameSendTimeoutMs.  The session ends.                                   *)
SendFails ==
    /\ th.pc \in {"inline", "init", "notify"}
    /\ EndClient
-----------------------------------------------------------------------------
(* The console: its frame source thread, and its UI thread.                  *)

CanSend == conn = "open"

IKAR(gen, slot) == [magic |-> "IKAR", gen |-> gen, slot |-> slot]

(* sc_cf_free_slot: the releases the unref of a frame sends.  They fail once *)
(* disconnected.                                                             *)
Releases(r) ==
    IF r.map # 0 /\ mem[r.map].gen # 0 /\ mem[r.map].ses = ses /\ CanSend
    THEN <<IKAR(mem[r.map].gen, r.slot)>> ELSE << >>

(* run_cf_source: connect, say hello, and IKAP if the window is hidden.      *)
Connect(f) ==
    /\ conn = "none" /\ th.pc = "none"
    /\ ses < MaxSessions
    /\ f => LateHello
    /\ ses' = ses + 1
    /\ conn' = "open"
    /\ foreign' = f
    /\ toClient' = << >>
    /\ toServer' = <<[magic |-> "IKAH"]>> \o
                   (IF cl.hidden THEN <<[magic |-> "IKAP", hidden |-> TRUE]>>
                                 ELSE << >>)
    /\ shm' = EmptyShm
    /\ th' = [IdleThread EXCEPT !.pc = "hello"]
    /\ UNCHANGED <<drawn, display, mem, prod, wake, console>>

(* sc_screen_frame_sink_push: a frame not consumed yet is replaced.          *)
Push(r) ==
    /\ cl' = [cl EXCEPT !.pending = r]
    /\ toServer' = toServer \o Releases(cl.pending)

Receive ==
    /\ conn \in {"open", "ended"}
    /\ toClient # << >>
    /\ toClient' = Tail(toClient)

(* sc_cf_process_msg, SC_CF_MAGIC_SHM_INIT                                   *)
FirstSlotsKept(m) == IF cl.map # 0 THEN cl.map ELSE m.map
NewSlots(m) == m.map

ProcessShmInit ==
    /\ Receive
    /\ Head(toClient).magic = "IKAS"
    /\ cl' = [cl EXCEPT !.map = NewSlots(Head(toClient))]
    /\ UNCHANGED <<drawn, server, link, toServer, toggles, pauses>>

(* sc_cf_process_msg, SC_CF_MAGIC_SHM_FRAME: a frame of another display is   *)
(* released at once, a slot the client releases is shown without a copy,     *)
(* another one is copied.                                                    *)
ProcessShmFrame ==
    /\ Receive
    /\ Head(toClient).magic = "IKAN"
    /\ LET m == Head(toClient)
           r == [id |-> m.id, map |-> cl.map, slot |-> m.slot,
                 pix |-> m.pix] IN
       \/ /\ foreign
          /\ toServer' = toServer \o Releases(r)
          /\ UNCHANGED cl
       \/ /\ ~foreign
          /\ Push(IF mem[cl.map].gen # 0 THEN r
                  ELSE [NoRef EXCEPT !.id = m.id,
                                     !.pix = mem[cl.map].pix[m.slot]])
    /\ UNCHANGED <<drawn, server, link, toggles, pauses>>

(* sc_cf_process_msg, SC_CF_MAGIC_RAW and SC_CF_MAGIC_DMA_BUF (not held)     *)
ProcessInline ==
    /\ Receive
    /\ Head(toClient).magic = "IKAF"
    /\ IF foreign THEN UNCHANGED <<cl, toServer>>
       ELSE Push([NoRef EXCEPT !.id = Head(toClient).id,
                               !.pix = Head(toClient).pix])
    /\ UNCHANGED <<drawn, server, link, toggles, pauses>>

(* run_cf_source: the server closed the connection and its messages are      *)
(* read; the frames shown keep their slots mapped.                           *)
ClientEof ==
    /\ conn = "ended" /\ toClient = << >>
    /\ conn' = "none"
    /\ cl' = [cl EXCEPT !.map = 0]
    /\ UNCHANGED <<drawn, server, ses, foreign, toClient, toServer, toggles,
                   pauses>>

(* The console stops (sc_cf_source_stop shuts the socket down) or dies.      *)
ClientLeaves ==
    /\ conn \in {"open", "ended"}
    /\ conn' = IF conn = "open" THEN "left" ELSE "none"
    /\ toClient' = << >>
    /\ cl' = [cl EXCEPT !.map = 0, !.pending = NoRef,
                        !.screen = NoRef, !.resume = NoRef]
    /\ UNCHANGED <<drawn, server, ses, foreign, toServer, toggles, pauses>>

(* SC_EVENT_NEW_FRAME, sc_screen_update_frame: the frame on screen is        *)
(* dropped and the pending one shown; while the display is paused, the       *)
(* pending one is kept for later instead of the one kept before.             *)
UpdateFrame ==
    /\ cl.pending # NoRef
    /\ \/ /\ ~cl.paused
          /\ cl' = [cl EXCEPT !.screen = cl.pending, !.pending = NoRef]
          /\ toServer' = toServer \o Releases(cl.screen)
       \/ /\ cl.paused
          /\ cl' = [cl EXCEPT !.resume = cl.pending, !.pending = NoRef]
          /\ toServer' = toServer \o Releases(cl.resume)
    /\ UNCHANGED <<drawn, server, link, toClient, toggles, pauses>>

(* sc_screen_set_paused: resuming, and pausing again, show the frame kept.   *)
ShowResumeFrameKept(paused) ==
    [cl EXCEPT !.screen = cl.resume, !.paused = paused]
ShowResumeFrame(paused) ==
    [cl EXCEPT !.screen = cl.resume, !.resume = NoRef, !.paused = paused]

SetPaused(paused) ==
    /\ pauses < MaxPauses
    /\ paused \/ cl.paused
    /\ pauses' = pauses + 1
    /\ \/ /\ cl.paused /\ cl.resume # NoRef
          /\ cl' = ShowResumeFrame(paused)
          /\ toServer' = toServer \o Releases(cl.screen)
       \/ /\ ~(cl.paused /\ cl.resume # NoRef)
          /\ cl' = [cl EXCEPT !.paused = paused]
          /\ UNCHANGED toServer
    /\ UNCHANGED <<drawn, server, link, toClient, toggles>>

(* sc_cf_source_set_window_hidden                                            *)
SetWindowHidden ==
    /\ toggles < MaxToggles
    /\ toggles' = toggles + 1
    /\ cl' = [cl EXCEPT !.hidden = ~@]
    /\ toServer' = IF CanSend
                   THEN Append(toServer,
                               [magic |-> "IKAP", hidden |-> ~cl.hidden])
                   ELSE toServer
    /\ UNCHANGED <<drawn, server, link, toClient, pauses>>
-----------------------------------------------------------------------------
WaylandThread == \/ \E size \in Sizes : \/ OnFrameReserve(size)
                                         \/ OnDmabufFrame(size)
                 \/ OnFramePublish

ClientThread == \/ ReadClientMessage \/ ReadEof \/ HelloEof \/ BindClient
                \/ TakeLatestFrame \/ NothingToSend \/ WaitForClientOrFrame
                \/ SendInline \/ SendShmInit \/ RemapSlots \/ AcquireShmSlot
                \/ SendShmNotify \/ SendFails

SourceThread == \/ \E f \in BOOLEAN : Connect(f)
                \/ ProcessShmInit \/ ProcessShmFrame \/ ProcessInline
                \/ ClientEof \/ ClientLeaves

UiThread == \/ UpdateFrame \/ SetWindowHidden
            \/ \E paused \in BOOLEAN : SetPaused(paused)

Next == WaylandThread \/ ClientThread \/ SourceThread \/ UiThread

(* Threads that can run do; frames, connections, departures, send timeouts   *)
(* and window changes come from outside.                                     *)
Fairness ==
    /\ WF_vars(OnFramePublish)
    /\ WF_vars(ReadClientMessage \/ ReadEof \/ HelloEof \/ BindClient
               \/ TakeLatestFrame \/ NothingToSend \/ WaitForClientOrFrame
               \/ SendInline \/ SendShmInit \/ RemapSlots \/ AcquireShmSlot
               \/ SendShmNotify \/ (conn = "left" /\ SendFails))
    /\ WF_vars(ProcessShmInit \/ ProcessShmFrame \/ ProcessInline \/ ClientEof)
    /\ WF_vars(UpdateFrame)

Spec == Init /\ [][Next]_vars
FairSpec == Spec /\ Fairness
-----------------------------------------------------------------------------
Frames == [type : {"none", "raw", "dmabuf"}, id : FrameIds,
           size : Sizes \cup {0}, slot : Slots \cup {NoSlot},
           sent : BOOLEAN, pix : Pixels]

ShmStates == [map : Nat, size : Sizes \cup {0}, next : Slots, gen : Nat,
              busy : SUBSET Slots, lastGen : Nat, releases : BOOLEAN,
              paused : BOOLEAN]

Memories == [gen : Nat, ses : 1 .. MaxSessions, foreign : BOOLEAN,
             pix : [Slots -> Pixels]]

ProdStates == [pc : {"idle", "slot", "buffer"}, map : Nat,
               slot : Slots \cup {NoSlot}, size : Sizes \cup {0}]

ThreadStates ==
    [pc : {"none", "hello", "loop", "poll", "inline", "init", "remap",
           "acquire", "notify"},
     frame : Frames, sentGen : Nat, map : Nat, slot : Slots \cup {NoSlot}]

ToClientMessages ==
    [magic : {"IKAS"}, map : Nat]
    \cup [magic : {"IKAN"}, id : FrameIds, slot : Slots, map : Nat,
          pix : Pixels]
    \cup [magic : {"IKAF"}, id : FrameIds, pix : Pixels]

ToServerMessages ==
    [magic : {"IKAH"}] \cup [magic : {"IKAP"}, hidden : BOOLEAN]
    \cup [magic : {"IKAR"}, gen : Nat, slot : Slots]

Refs == [id : FrameIds, map : Nat, slot : Slots \cup {NoSlot}, pix : Pixels]

ConsoleStates == [map : Nat, pending : Refs, screen : Refs, resume : Refs,
                  paused : BOOLEAN, hidden : BOOLEAN]

(* The type invariant.                                                       *)
TypeOK ==
    /\ drawn \in FrameIds
    /\ suppress \in BOOLEAN
    /\ latest \in Frames
    /\ frameGen \in Nat
    /\ shm \in ShmStates
    /\ mem \in Seq(Memories)
    /\ prod \in ProdStates
    /\ th \in ThreadStates
    /\ wake \in BOOLEAN
    /\ ses \in 0 .. MaxSessions
    /\ conn \in {"none", "open", "left", "ended"}
    /\ foreign \in BOOLEAN
    /\ toClient \in Seq(ToClientMessages)
    /\ toServer \in Seq(ToServerMessages)
    /\ cl \in ConsoleStates
    /\ toggles \in 0 .. MaxToggles
    /\ pauses \in 0 .. MaxPauses

(* The slots the console reads without a copy, now or once it gets the       *)
(* notice: <<shared memory, slot, pixels when the notice was sent>>.         *)
Wire == {toClient[i] : i \in {j \in 1 .. Len(toClient) :
                                   toClient[j].magic = "IKAN"}}
ConsoleRefs ==
    {<<m.map, m.slot, m.pix>> : m \in {w \in Wire : mem[w.map].gen # 0}} \cup
    {<<r.map, r.slot, r.pix>> :
        r \in {q \in {cl.pending, cl.screen, cl.resume} : q.map # 0}}

(* A slot holds the pixels the console was told about for as long as the     *)
(* console may read it: whatever OnFrame, the client thread, a remap, a late *)
(* IKAR or the end of the session do, nobody writes into it.                 *)
SlotsStable == \A r \in ConsoleRefs : mem[r[1]].pix[r[2]] = r[3]

(* The notice of a frame is read with the shared memory it was meant for:    *)
(* IKAS and IKAN agree whatever was remapped in between.                     *)
NoticeMeansItsSlots ==
    toClient # << >> /\ Head(toClient).magic = "IKAN"
        => cl.map = Head(toClient).map

(* Who will give a busy slot back: the copy under way, the latest frame      *)
(* before it is sent, the client thread, a notice on the wire, the console,  *)
(* or an IKAR on its way.                                                    *)
InUse ==
    {s \in Slots :
        \/ prod.pc = "slot" /\ prod.map = shm.map /\ prod.slot = s
        \/ latest.slot = s /\ ~latest.sent
        \/ th.pc = "notify" /\ th.slot = s
        \/ \E i \in 1 .. Len(toClient) :
              toClient[i].magic = "IKAN" /\ toClient[i].map = shm.map
              /\ toClient[i].slot = s
        \/ \E r \in {cl.pending, cl.screen, cl.resume} :
              r.map = shm.map /\ r.slot = s
        \/ \E i \in 1 .. Len(toServer) :
              toServer[i] = IKAR(shm.gen, s)}

(* No slot is lost: in a session with a live console, a slot is busy exactly *)
(* while somebody has it.                                                    *)
SlotsAccounted ==
    shm.map # 0 /\ shm.gen # 0 /\ conn = "open" => shm.busy = InUse

(* The pixels the window shows.                                              *)
ShownPixels == IF cl.screen.map # 0 THEN mem[cl.screen.map].pix[cl.screen.slot]
                                    ELSE cl.screen.pix

(* Every shared memory so far was made for a client whose hello was read:    *)
(* one that releases its slots, and shows this display.                      *)
HellosInTime == \A i \in 1 .. Len(mem) : mem[i].gen # 0 /\ ~mem[i].foreign

(* What the window shows is the frame it was told about, whole: no pixels of *)
(* a copy under way, no frame under another frame's header, through slots,   *)
(* buffers, remaps and reconnections.  A client whose hello comes too late   *)
(* releases nothing, or the frames of a display it does not show: the slots  *)
(* are then used again while the latest frame is in them, and nothing is     *)
(* claimed.                                                                  *)
ShownIntact ==
    HellosInTime /\ cl.screen.id # NoFrame => cl.screen.id = ShownPixels

(* The window never goes back to an earlier frame, not even by reconnecting. *)
NeverBackwards ==
    [][cl'.screen.id # NoFrame => cl'.screen.id >= cl.screen.id]_vars

Watching == conn = "open" /\ ~cl.hidden /\ ~cl.paused /\ ~foreign

(* A console whose window can be seen catches up with the latest frame of    *)
(* the stream: no wakeup is lost, no slot is waited for in vain, whether the *)
(* guest draws on or not.                                                    *)
LatestShown ==
    \A f \in 1 .. MaxFrames :
        latest.id = f /\ Watching ~> cl.screen.id >= f \/ ~Watching

Channel == INSTANCE FrameChannel WITH
               Frames <- 1 .. MaxFrames, last <- latest.id,
               shown <- ShownPixels, watched <- Watching

(* With hellos in time, all of this is a channel from the guest to the       *)
(* window: the pixels on screen are always those of one frame, in order.     *)
ImplementsFrameChannel == Channel!FairSpec
=============================================================================
