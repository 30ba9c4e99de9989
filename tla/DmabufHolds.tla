----------------------------- MODULE DmabufHolds -----------------------------
(* The dma-buf frames of one display: who may draw into a buffer of the      *)
(* guest, and who holds it.                                                  *)
(*                                                                           *)
(* crosvm flips the scanout to one of the guest's buffers and takes it as in *)
(* use until the compositor's wl_buffer release.  The compositor (Surfaces,  *)
(* on the Wayland server thread) holds the buffer of a frame while a console *)
(* shows it: OnDmabufFrame answers kHeld, HoldDmabufBuffer records the hold, *)
(* and the release callback, called by the client thread of the display or   *)
(* by the Wayland thread, queues the frame id for the Wayland thread, which  *)
(* alone sends releases.  The console gives a frame back with IKAB once it   *)
(* drops its last reference.                                                 *)
EXTENDS Integers, Sequences, SequencesExt

CONSTANTS
    Buffers,      \* the buffers of the guest's swapchain, three in the code
    NoBuffer,     \* not a buffer
    MaxHeld,      \* kMaxHeldDmabufBuffers, 3 in the code
    MaxFrames,    \* bound: frames committed
    MaxSessions,  \* bound: connections
    MaxToggles,   \* bound: changes of the window between hidden and shown
    MaxRaw,       \* bound: frames that come as pixels in between
    Timestamps    \* may a console ask for timestamps (IKA_LATENCY=1)

ASSUME BuffersAssumption == NoBuffer \notin Buffers
ASSUME HoldBoundsAssumption ==
    /\ MaxHeld \in Nat \ {0} /\ MaxFrames \in Nat /\ MaxSessions \in Nat
    /\ MaxToggles \in Nat /\ MaxRaw \in Nat
ASSUME TimestampsAssumption == Timestamps \in BOOLEAN

VARIABLES
    inUse,      \* crosvm: dwl_dmabuf::in_use of each import
    current,    \* crosvm: dwl_surface::current_import_id
    commits,    \* the Wayland socket, crosvm to compositor
    rels,       \* the Wayland socket, wl_buffer releases to crosvm
    nextId,     \* Surfaces::next_frame_id_
    held,       \* Surfaces::held_, in the order of the frame ids
    hold,       \* Surfaces: kHeld was answered, HoldDmabufBuffer is to come
    relQ,       \* Surfaces::released_frames_
    suppress,   \* DisplayStream::suppress_next_raw
    latest,     \* DisplayStream::latest_frame
    fresh,      \* its generation is not the one last sent
    raws,       \* frames that came as pixels so far
    th,         \* the client thread: where it is, the frame in its hand
    shm,        \* ClientShm: client_releases_dmabufs, paused, wants_timestamps
    heldDmabufs,\* ClientShm::held_dmabufs
    ses,        \* connections so far
    conn,       \* the connection
    toClient,   \* the socket, server to client
    toServer,   \* the socket, client to server
    cl,         \* the console
    toggles,    \* window changes so far
    given,      \* history: the frames OnDmabufFrame returned kHeld for
    released,   \* history: the frames the release callback was called for
    lost        \* history: the frames a failed IKAT dropped with their hold

guest == <<inUse, current>>
wayland == <<commits, rels, nextId, held, hold>>
display == <<suppress, latest, fresh, raws>>
session == <<th, shm, heldDmabufs>>
console == <<cl, toggles>>
link == <<ses, conn>>
vars == <<inUse, current, commits, rels, nextId, held, hold, relQ, suppress,
          latest, fresh, raws, th, shm, heldDmabufs, ses, conn, toClient,
          toServer, cl, toggles, given, released, lost>>

Ids == 0 .. MaxFrames
NoHold == 0

(* What a loop that erases the other elements leaves of q: those in T.       *)
Only(q, T) ==
    LET only[i \in 0 .. Len(q)] ==
            IF i = 0 THEN << >>
            ELSE IF q[i] \in T THEN Append(only[i - 1], q[i])
            ELSE only[i - 1]
    IN  only[Len(q)]

NoLatest == [type |-> "none", buf |-> NoBuffer, hold |-> NoHold, taken |-> FALSE]
IdleHold == [id |-> NoHold, buf |-> NoBuffer]
IdleThread == [pc |-> "none", type |-> "none", buf |-> NoBuffer, hold |-> NoHold]
EmptyShm == [releases |-> FALSE, paused |-> FALSE, stamps |-> FALSE]
(* A frame in the console, with the hold it gives back and the connection it *)
(* came by.                                                                  *)
NoFrame == [type |-> "none", buf |-> NoBuffer, hold |-> NoHold, ses |-> 0]

Init ==
    /\ inUse = {} /\ current = NoBuffer
    /\ commits = << >> /\ rels = << >> /\ nextId = 1
    /\ held = << >> /\ hold = IdleHold /\ relQ = << >>
    /\ suppress = FALSE /\ latest = NoLatest /\ fresh = FALSE /\ raws = 0
    /\ th = IdleThread /\ shm = EmptyShm /\ heldDmabufs = << >>
    /\ ses = 0 /\ conn = "none" /\ toClient = << >> /\ toServer = << >>
    /\ cl = [pending |-> NoFrame, screen |-> NoFrame, hidden |-> FALSE]
    /\ toggles = 0 /\ given = {} /\ released = {} /\ lost = {}
-----------------------------------------------------------------------------
(* crosvm.                                                                   *)

(* dwl_surface_dmabuf_in_use: the buffer on screen is exempt.                *)
ImportInUse(b) == b \in inUse /\ b # current

(* A scanout flush: dropped if the compositor still has the buffer, else the *)
(* surface flips to it (dwl_surface_flip_to).                                *)
Flush(b) ==
    /\ nextId + Len(commits) <= MaxFrames
    /\ ~ImportInUse(b)
    /\ commits' = Append(commits, b)
    /\ inUse' = inUse \cup {b}
    /\ current' = b
    /\ UNCHANGED <<rels, nextId, held, hold, relQ, display, session, link,
                   toClient, toServer, console, given, released, lost>>

(* The release event of a wl_buffer is dispatched.                           *)
DispatchRelease ==
    /\ rels # << >>
    /\ inUse' = inUse \ {Head(rels)}
    /\ rels' = Tail(rels)
    /\ UNCHANGED <<current, commits, nextId, held, hold, relQ, display, session,
                   link, toClient, toServer, console, given, released, lost>>
-----------------------------------------------------------------------------
(* The release of holds: the callback queues the frame ids.                  *)

(* Release(q): ReleaseDmabufHold for each hold of q, Surfaces::              *)
(* ReleaseDmabufFrame queues them for the Wayland thread.                    *)
Release(q) ==
    /\ relQ' = relQ \o q
    /\ released' = released \cup ToSet(q)

(* ReleaseLatestHoldLocked: a hold no client thread has taken ends.          *)
LatestHoldUnchecked == IF ~latest.taken THEN <<latest.hold>> ELSE << >>
LatestHold == IF latest.hold # NoHold /\ ~latest.taken THEN <<latest.hold>>
                                                       ELSE << >>
-----------------------------------------------------------------------------
(* The Wayland server thread.                                                *)

Bound == th.pc \notin {"none", "hello"}

(* OnDmabufFrame holds a buffer only for a client that will release it.      *)
Holds == Bound /\ shm.releases /\ ~shm.paused

(* Surface::Commit of a dma-buf, up to the answer of OnDmabufFrame: a buffer *)
(* that is not held is released at once.                                     *)
CommitDmabuf ==
    /\ hold = IdleHold
    /\ commits # << >>
    /\ LET b == Head(commits) IN
       /\ commits' = Tail(commits)
       /\ nextId' = nextId + 1
       /\ latest' = [type |-> "dmabuf", buf |-> b, taken |-> FALSE,
                     hold |-> IF Holds THEN nextId ELSE NoHold]
       /\ \/ /\ Holds
             /\ hold' = [id |-> nextId, buf |-> b]
             /\ given' = given \cup {nextId}
             /\ UNCHANGED rels
          \/ /\ ~Holds
             /\ rels' = Append(rels, b)
             /\ UNCHANGED <<hold, given>>
    /\ Release(LatestHold)
    /\ suppress' = TRUE
    /\ fresh' = TRUE
    /\ UNCHANGED <<guest, held, raws, session, link, toClient, toServer, console,
                   lost>>

(* The holds a new hold of buffer b leaves: one of the same buffer is void.  *)
KeptByAttach(b) == Only(held, {h \in ToSet(held) : h.buf # b})

(* The release an overflow of the holds sends, for the oldest one.           *)
OverflowForgets(kept) == << >>
OverflowRelease(kept) == <<Head(kept).buf>>

(* HoldDmabufBuffer: too many holds of one display, and the oldest ends.     *)
HoldDmabufBuffer ==
    /\ hold # IdleHold
    /\ LET kept == KeptByAttach(hold.buf) IN
       \/ /\ Len(kept) < MaxHeld
          /\ held' = Append(kept, hold)
          /\ UNCHANGED rels
       \/ /\ Len(kept) >= MaxHeld
          /\ held' = Append(Tail(kept), hold)
          /\ rels' = rels \o OverflowRelease(kept)
    /\ hold' = IdleHold
    /\ UNCHANGED <<guest, commits, nextId, relQ, display, session, link, toClient,
                   toServer, console, given, released, lost>>

HeldIds == {h.id : h \in ToSet(held)}
BufferOf(id) == held[CHOOSE i \in 1 .. Len(held) : held[i].id = id].buf

(* OnReleaseEvent is called by the event loop of the Wayland thread, which   *)
(* is not in a commit then.                                                  *)
InAnyThread == TRUE
InEventLoop == hold = IdleHold

(* ReleasePendingFrames: the queue is emptied; ids that are not held (any    *)
(* more) are ignored.                                                        *)
ReleasePendingFrames ==
    /\ InEventLoop
    /\ relQ # << >>
    /\ LET now == Only(relQ, HeldIds) IN
       rels' = rels \o [i \in 1 .. Len(now) |-> BufferOf(now[i])]
    /\ held' = Only(held, {h \in ToSet(held) : h.id \notin ToSet(relQ)})
    /\ relQ' = << >>
    /\ UNCHANGED <<guest, commits, nextId, hold, display, session, link, toClient,
                   toServer, console, given, released, lost>>

(* ~Surface: every buffer held for the display goes back to crosvm.  The     *)
(* display's next commits come by another surface.                           *)
DestroySurface ==
    /\ hold = IdleHold /\ commits = << >>
    /\ held # << >>
    /\ rels' = rels \o [i \in 1 .. Len(held) |-> held[i].buf]
    /\ held' = << >>
    /\ current' = NoBuffer
    /\ UNCHANGED <<inUse, commits, nextId, hold, relQ, display, session, link,
                   toClient, toServer, console, given, released, lost>>

(* crosvm drops an import: OnHeldBufferDestroyed forgets the hold, there is  *)
(* nothing to release any more.                                              *)
DestroyBuffer(b) ==
    /\ hold = IdleHold /\ commits = << >>
    /\ b \in inUse
    /\ held' = KeptByAttach(b)
    /\ inUse' = inUse \ {b}
    /\ rels' = Only(rels, Buffers \ {b})
    /\ current' = IF current = b THEN NoBuffer ELSE current
    /\ UNCHANGED <<commits, nextId, hold, relQ, display, session, link, toClient,
                   toServer, console, given, released, lost>>

(* Surface::Commit of pixels (OnFrame): the readback after a dma-buf frame   *)
(* is dropped, another one replaces the latest frame and ends its hold.      *)
CommitRaw ==
    /\ hold = IdleHold
    /\ raws < MaxRaw
    /\ raws' = raws + 1
    /\ suppress' = FALSE
    /\ \/ /\ suppress
          /\ UNCHANGED <<latest, fresh, relQ, released>>
       \/ /\ ~suppress
          /\ Release(LatestHold)
          /\ latest' = [NoLatest EXCEPT !.type = "raw"]
          /\ fresh' = TRUE
    /\ UNCHANGED <<guest, wayland, session, link, toClient, toServer, console,
                   given, lost>>
-----------------------------------------------------------------------------
(* The client thread of ika_stream.                                          *)

(* EndClientLocked: what the client held, and the latest frame's hold.       *)
EndClient(alsoReleased) ==
    /\ Release(alsoReleased \o heldDmabufs \o LatestHold)
    /\ heldDmabufs' = << >>
    /\ latest' = [latest EXCEPT !.hold = NoHold, !.taken = FALSE]
    /\ th' = IdleThread
    /\ toServer' = << >>
    /\ conn' = IF conn = "left" THEN "none" ELSE "ended"
    /\ UNCHANGED <<guest, wayland, suppress, fresh, raws, shm, ses, toClient,
                   console, given>>

(* ReadClientMessages, one message.                                          *)
ReadClientMessage ==
    /\ th.pc \in {"hello", "loop"}
    /\ toServer # << >>
    /\ toServer' = Tail(toServer)
    /\ LET m == Head(toServer) IN
       \/ /\ m.magic = "IKAH"
          /\ shm' = [shm EXCEPT !.releases = TRUE, !.stamps = m.stamps]
          /\ UNCHANGED <<heldDmabufs, relQ, released>>
       \/ /\ m.magic = "IKAP"
          /\ shm' = [shm EXCEPT !.paused = m.hidden]
          /\ UNCHANGED <<heldDmabufs, relQ, released>>
       \/ /\ m.magic = "IKAB"
          /\ \E i \in 1 .. Len(heldDmabufs) :
                /\ heldDmabufs[i] = m.id
                /\ \A j \in 1 .. i - 1 : heldDmabufs[j] # m.id
                /\ heldDmabufs' = RemoveAt(heldDmabufs, i)
          /\ Release(<<m.id>>)
          /\ UNCHANGED shm
       \/ /\ m.magic = "IKAB"
          /\ m.id \notin ToSet(heldDmabufs)
          /\ UNCHANGED <<shm, heldDmabufs, relQ, released>>
    /\ UNCHANGED <<guest, wayland, display, th, link, toClient, console, given, lost>>

ReadEof ==
    /\ th.pc = "loop"
    /\ conn = "left" /\ toServer = << >>
    /\ EndClient(<< >>)
    /\ UNCHANGED lost

HelloEof ==
    /\ th.pc = "hello"
    /\ conn = "left" /\ toServer = << >>
    /\ th' = IdleThread
    /\ conn' = "none"
    /\ UNCHANGED <<guest, wayland, relQ, display, shm, heldDmabufs, ses, toClient,
                   toServer, console, given, released, lost>>

(* ClientLoop: the hello was read, or did not come within                    *)
(* kClientHelloTimeoutMs and is read by the loop.  The display has its       *)
(* latest frame for the new client, its generation is not 0.                 *)
BindClient ==
    /\ th.pc = "hello"
    /\ th' = [th EXCEPT !.pc = "loop"]
    /\ fresh' = (latest.type # "none")
    /\ UNCHANGED <<guest, wayland, relQ, suppress, latest, raws, shm, heldDmabufs,
                   link, toClient, toServer, console, given, released, lost>>

(* CopyLatestFrameLocked: once copied, the hold is the client's.             *)
TakenNever == FALSE
TakenByCopy == latest.taken \/ latest.hold # NoHold

(* StreamToClient takes the latest frame: its hold is the client's now.      *)
TakeLatestFrame ==
    /\ th.pc = "loop" /\ toServer = << >>
    /\ ~shm.paused /\ fresh
    /\ fresh' = FALSE
    /\ th' = [pc |-> IF shm.stamps THEN "stamp" ELSE "send",
              type |-> latest.type, buf |-> latest.buf,
              hold |-> IF latest.taken THEN NoHold ELSE latest.hold]
    /\ latest' = [latest EXCEPT !.taken = TakenByCopy]
    /\ UNCHANGED <<guest, wayland, relQ, suppress, raws, shm, heldDmabufs, link,
                   toClient, toServer, console, given, released, lost>>

(* SendTimestamps (IKAT) goes first, if the client wants it.                 *)
SendTimestamps ==
    /\ th.pc = "stamp"
    /\ conn = "open"
    /\ th' = [th EXCEPT !.pc = "send"]
    /\ UNCHANGED <<guest, wayland, relQ, display, shm, heldDmabufs, link, toClient,
                   toServer, console, given, released, lost>>

(* The hold of the frame the thread has taken and not sent yet.              *)
InHand == IF th.hold # NoHold THEN <<th.hold>> ELSE << >>

(* It fails: the thread leaves StreamToClient with the frame in its hand.    *)
SendTimestampsFails ==
    /\ th.pc = "stamp"
    /\ EndClient(<< >>)
    /\ lost' = lost \cup ToSet(InHand)

(* SendDmabufFrame or SendRawFrame: the client holds the buffer until its    *)
(* IKAB, or until it leaves.                                                 *)
HeldAfterSend == heldDmabufs \o InHand

SendFrame ==
    /\ th.pc = "send"
    /\ conn = "open"
    /\ toClient' = Append(toClient, [type |-> th.type, buf |-> th.buf,
                                     hold |-> th.hold, ses |-> ses])
    /\ heldDmabufs' = HeldAfterSend
    /\ th' = [IdleThread EXCEPT !.pc = "loop"]
    /\ UNCHANGED <<guest, wayland, relQ, display, shm, link, toServer, console,
                   given, released, lost>>

(* The send fails: the client left, or kFrameSendTimeoutMs passed.           *)
HandKept == << >>
HandOnFailure == InHand

SendFrameFails ==
    /\ th.pc = "send"
    /\ EndClient(HandOnFailure)
    /\ UNCHANGED lost
-----------------------------------------------------------------------------
(* The console.                                                              *)

(* sc_cf_free_dma_buf: the IKAB the unref of a frame sends.                  *)
GivesNothing(f) == << >>
Gives(f) == IF f.hold # NoHold /\ f.ses = ses /\ conn = "open"
            THEN <<[magic |-> "IKAB", id |-> f.hold]>> ELSE << >>

(* run_cf_source: connect, say hello, and IKAP if the window is hidden.      *)
Connect(stamps) ==
    /\ conn = "none" /\ th.pc = "none"
    /\ ses < MaxSessions
    /\ stamps => Timestamps
    /\ ses' = ses + 1
    /\ conn' = "open"
    /\ toClient' = << >>
    /\ toServer' = <<[magic |-> "IKAH", stamps |-> stamps]>> \o
                   (IF cl.hidden THEN <<[magic |-> "IKAP", hidden |-> TRUE]>>
                                 ELSE << >>)
    /\ shm' = EmptyShm
    /\ th' = [IdleThread EXCEPT !.pc = "hello"]
    /\ UNCHANGED <<guest, wayland, relQ, display, heldDmabufs, console, given,
                   released, lost>>

(* sc_cf_process_msg, SC_CF_MAGIC_DMA_BUF, and the push to the screen: a     *)
(* frame not consumed yet is replaced, and given back.                       *)
ProcessFrame ==
    /\ conn \in {"open", "ended"}
    /\ toClient # << >>
    /\ toClient' = Tail(toClient)
    /\ cl' = [cl EXCEPT !.pending = Head(toClient)]
    /\ toServer' = toServer \o Gives(cl.pending)
    /\ UNCHANGED <<guest, wayland, relQ, display, session, link, toggles, given,
                   released, lost>>

(* A frame of a format the console cannot show is given back at once.        *)
SkipFrame ==
    /\ conn \in {"open", "ended"}
    /\ toClient # << >> /\ Head(toClient).type = "dmabuf"
    /\ toClient' = Tail(toClient)
    /\ toServer' = toServer \o Gives(Head(toClient))
    /\ UNCHANGED <<guest, wayland, relQ, display, session, link, console, given,
                   released, lost>>

(* run_cf_source: the server closed the connection.                          *)
ClientEof ==
    /\ conn = "ended" /\ toClient = << >>
    /\ conn' = "none"
    /\ UNCHANGED <<guest, wayland, relQ, display, session, ses, toClient, toServer,
                   console, given, released, lost>>

(* The console stops or dies: sc_cf_source_stop shuts the socket down.       *)
ClientLeaves ==
    /\ conn \in {"open", "ended"}
    /\ conn' = IF conn = "open" THEN "left" ELSE "none"
    /\ toClient' = << >>
    /\ cl' = [cl EXCEPT !.pending = NoFrame, !.screen = NoFrame]
    /\ UNCHANGED <<guest, wayland, relQ, display, session, ses, toServer, toggles,
                   given, released, lost>>

(* SC_EVENT_NEW_FRAME: the frame on screen is given back for the next one.   *)
UpdateFrame ==
    /\ cl.pending # NoFrame
    /\ cl' = [cl EXCEPT !.screen = cl.pending, !.pending = NoFrame]
    /\ toServer' = toServer \o Gives(cl.screen)
    /\ UNCHANGED <<guest, wayland, relQ, display, session, link, toClient, toggles,
                   given, released, lost>>

(* sc_cf_source_set_window_hidden                                            *)
SetWindowHidden ==
    /\ toggles < MaxToggles
    /\ toggles' = toggles + 1
    /\ cl' = [cl EXCEPT !.hidden = ~@]
    /\ toServer' = IF conn = "open"
                   THEN Append(toServer,
                               [magic |-> "IKAP", hidden |-> ~cl.hidden])
                   ELSE toServer
    /\ UNCHANGED <<guest, wayland, relQ, display, session, link, toClient, given,
                   released, lost>>
-----------------------------------------------------------------------------
Crosvm == DispatchRelease \/ \E b \in Buffers : Flush(b)

WaylandThread == \/ CommitDmabuf \/ HoldDmabufBuffer \/ ReleasePendingFrames
                 \/ CommitRaw \/ DestroySurface
                 \/ \E b \in Buffers : DestroyBuffer(b)

ClientThread == \/ ReadClientMessage \/ ReadEof \/ HelloEof \/ BindClient
                \/ TakeLatestFrame \/ SendTimestamps \/ SendTimestampsFails
                \/ SendFrame \/ SendFrameFails

Console == \/ \E stamps \in BOOLEAN : Connect(stamps)
           \/ ProcessFrame \/ SkipFrame \/ ClientEof \/ ClientLeaves
           \/ UpdateFrame \/ SetWindowHidden

Next == Crosvm \/ WaylandThread \/ ClientThread \/ Console

(* Threads that can run do.  Frames, connections, departures, send timeouts  *)
(* and window changes come from outside.                                     *)
Fairness ==
    /\ WF_vars(DispatchRelease)
    /\ WF_vars(CommitDmabuf \/ HoldDmabufBuffer)
    /\ WF_vars(ReleasePendingFrames)
    /\ WF_vars(ReadClientMessage \/ ReadEof \/ HelloEof \/ BindClient
               \/ TakeLatestFrame \/ SendTimestamps \/ SendFrame
               \/ (conn = "left" /\ (SendTimestampsFails \/ SendFrameFails)))
    /\ WF_vars(ProcessFrame \/ ClientEof)
    /\ WF_vars(UpdateFrame)

Spec == Init /\ [][Next]_vars
FairSpec == Spec /\ Fairness
-----------------------------------------------------------------------------
Holding == [id : Ids, buf : Buffers \cup {NoBuffer}]
Frames == [type : {"none", "raw", "dmabuf"}, buf : Buffers \cup {NoBuffer},
           hold : Ids, ses : 0 .. MaxSessions]

(* The type invariant.                                                       *)
TypeOK ==
    /\ inUse \subseteq Buffers
    /\ current \in Buffers \cup {NoBuffer}
    /\ commits \in Seq(Buffers)
    /\ rels \in Seq(Buffers)
    /\ nextId \in 1 .. MaxFrames + 1
    /\ held \in Seq(Holding)
    /\ hold \in Holding
    /\ relQ \in Seq(Ids \ {NoHold})
    /\ suppress \in BOOLEAN
    /\ latest \in [type : {"none", "raw", "dmabuf"}, hold : Ids, taken : BOOLEAN,
                   buf : Buffers \cup {NoBuffer}]
    /\ fresh \in BOOLEAN
    /\ raws \in 0 .. MaxRaw
    /\ th \in [pc : {"none", "hello", "loop", "stamp", "send"}, hold : Ids,
               type : {"none", "raw", "dmabuf"}, buf : Buffers \cup {NoBuffer}]
    /\ shm \in [releases : BOOLEAN, paused : BOOLEAN, stamps : BOOLEAN]
    /\ heldDmabufs \in Seq(Ids \ {NoHold})
    /\ ses \in 0 .. MaxSessions
    /\ conn \in {"none", "open", "left", "ended"}
    /\ toClient \in Seq(Frames)
    /\ toServer \in Seq([magic : {"IKAH"}, stamps : BOOLEAN]
                        \cup [magic : {"IKAP"}, hidden : BOOLEAN]
                        \cup [magic : {"IKAB"}, id : Ids \ {NoHold}])
    /\ cl \in [pending : Frames, screen : Frames, hidden : BOOLEAN]
    /\ toggles \in 0 .. MaxToggles
    /\ given \subseteq Ids
    /\ released \subseteq given
    /\ lost \subseteq given

(* Who will still call the release callback for a frame: the latest frame's  *)
(* hold, the client thread's hand, the client.                               *)
Holders == ToSet(LatestHold) \cup ToSet(InHand) \cup ToSet(heldDmabufs)

(* Each frame OnDmabufFrame returned kHeld for has a holder or is released,  *)
(* and none is released too early, whatever ends the session and wherever    *)
(* the client thread is.  The one exception is a failed IKAT: StreamToClient *)
(* returns with the frame in its hand, and its hold stays until the holds    *)
(* overflow or the surface goes.                                             *)
HoldsAccounted == given \ released = Holders \cup lost

(* The release callback is called once for a frame, whoever drops it first:  *)
(* what is new in released_frames_ was not released before, and no id comes  *)
(* twice in it.                                                              *)
ReleasedOnce ==
    [][\A i \in Len(relQ) + 1 .. Len(relQ') :
            /\ relQ'[i] \notin released
            /\ \A j \in Len(relQ) + 1 .. i - 1 : relQ'[j] # relQ'[i]]_vars

(* A buffer is not held for a frame that was released: a release that        *)
(* overtakes the hold it ends (the callback runs before HoldDmabufBuffer)    *)
(* still ends it.                                                            *)
NoHoldOutlivesRelease == HeldIds \cap released \subseteq ToSet(relQ)

(* Every buffer crosvm takes as in use comes back: its frame is on its way   *)
(* to the compositor, or held, or its release is on its way.                 *)
BuffersComeBack ==
    inUse \subseteq ToSet(commits) \cup {hold.buf} \cup ToSet(rels)
                    \cup {h.buf : h \in ToSet(held)}

(* What the console shows, is about to show, or is being sent.               *)
ConsoleFrames == ToSet(toClient) \cup {cl.pending, cl.screen}

(* crosvm drops a flush into a buffer the compositor still holds: it never   *)
(* flips to the buffer of the frame on the console's screen, other than the  *)
(* one it flipped to last.                                                   *)
FlipsSpareTheScreen ==
    [][current' # current /\ cl.screen.hold \in HeldIds
            => current' # cl.screen.buf]_vars

(* A hold the console has moved on from ends: once the console has dropped a *)
(* frame (or left), its buffer is no longer held.                            *)
HoldsEnd ==
    \A id \in 1 .. MaxFrames :
        (id \in HeldIds \ lost /\ id \notin {f.hold : f \in ConsoleFrames}
            /\ id \notin ToSet(InHand) \cup ToSet(LatestHold))
        ~> id \notin HeldIds
=============================================================================
