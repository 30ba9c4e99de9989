--------------------------- MODULE ClientSessions ---------------------------
(* The connections of the consoles to ika_stream: the server thread that     *)
(* accepts them and joins their threads, the client thread of each           *)
(* connection, which waits for its display and streams, the destructor, and  *)
(* the console's frame source, which connects again whenever it is           *)
(* disconnected.                                                             *)
(*                                                                           *)
(* A connection is its number.  frame_cv_ is modelled with its sleepers, so  *)
(* that a wakeup can be lost.  A console has a connection open for as long   *)
(* as one of its file descriptors is: the source's own, and the duplicates   *)
(* kept by the frames the window still shows.                                *)
EXTENDS Integers, Sequences, FiniteSets

CONSTANTS
    Consoles,       \* the console processes
    Displays,       \* the displays, numbered from 0
    DisplayOf,      \* the display each console shows
    MaxConnections, \* bound: connections
    LateHello,      \* may the hello come after kClientHelloTimeoutMs
    SourceErrors    \* may sc_cf_process_msg fail on the console's side

ASSUME DisplaysAssumption == Displays \subseteq Nat /\ 0 \in Displays
ASSUME DisplayOfAssumption == DisplayOf \in [Consoles -> Displays]
ASSUME SessionBoundsAssumption == MaxConnections \in Nat
ASSUME SwitchesAssumption == LateHello \in BOOLEAN /\ SourceErrors \in BOOLEAN

VARIABLES
    stopped,    \* stopped_
    srv,        \* where the server thread is
    backlog,    \* connections the kernel has for accept4
    clientFds,  \* client_fds_
    threads,    \* client_threads_
    fdOpen,     \* the server's file descriptors that are open
    thr,        \* the client threads: where they are, their display
    clientOf,   \* DisplayStream::client_fd (and wake_fd) of each display
    owner,      \* the console of each connection so far
    hello,      \* its hello: unsent, sent, read
    down,       \* connections one of the ends called shutdown() for
    src,        \* the frame source of each console: where it is, its connection
    kept        \* connections whose frames a console still refers to

serverVars == <<stopped, srv, backlog, threads>>
consoleVars == <<owner, src, kept>>
vars == <<stopped, srv, backlog, clientFds, threads, fdOpen, thr, clientOf,
          owner, hello, down, src, kept>>

Connections == 1 .. MaxConnections
NoConn == 0
NoThread == [pc |-> "none", display |-> 0]
NoSource == [pc |-> "idle", conn |-> NoConn]

Init ==
    /\ stopped = FALSE /\ srv = [pc |-> "setup", conn |-> NoConn]
    /\ backlog = << >> /\ clientFds = {} /\ threads = {} /\ fdOpen = {}
    /\ thr = [c \in Connections |-> NoThread]
    /\ clientOf = [d \in Displays |-> NoConn]
    /\ owner = << >>
    /\ hello = [c \in Connections |-> "unsent"] /\ down = {}
    /\ src = [k \in Consoles |-> NoSource]
    /\ kept = [k \in Consoles |-> {}]
-----------------------------------------------------------------------------
(* The console's end of connection c is closed, or shut down.                *)
PeerGone(c) ==
    \/ c \in down
    \/ \A k \in Consoles : src[k].conn # c /\ c \notin kept[k]

(* frame_cv_.notify_all(): every sleeper evaluates its predicate again.      *)
NotifyAll(t) ==
    [c \in Connections |-> IF t[c].pc = "asleep"
                           THEN [t[c] EXCEPT !.pc = "check"] ELSE t[c]]
-----------------------------------------------------------------------------
(* The server thread.                                                        *)

(* ServerLoop, up to listen(): it may fail at any call.                      *)
SetupServer(ok) ==
    /\ srv.pc = "setup"
    /\ srv' = [srv EXCEPT !.pc = IF ok /\ ~stopped THEN "loop" ELSE "ended"]
    /\ UNCHANGED <<stopped, backlog, threads, clientFds, fdOpen, thr, clientOf,
                   consoleVars, hello, down>>

(* The destructor ran, or poll() failed.                                     *)
LeaveLoop ==
    /\ srv.pc = "loop"
    /\ srv' = [srv EXCEPT !.pc = "closing"]
    /\ UNCHANGED <<stopped, backlog, threads, clientFds, fdOpen, thr, clientOf,
                   consoleVars, hello, down>>

Accept ==
    /\ srv.pc = "loop" /\ ~stopped
    /\ backlog # << >>
    /\ srv' = [pc |-> "accepted", conn |-> Head(backlog)]
    /\ backlog' = Tail(backlog)
    /\ fdOpen' = fdOpen \cup {Head(backlog)}
    /\ UNCHANGED <<stopped, threads, clientFds, thr, clientOf, consoleVars,
                   hello, down>>

(* The critical section after accept4; a client that comes after the         *)
(* destructor is refused.                                                    *)
LeakRefused == fdOpen
CloseRefused == fdOpen \ {srv.conn}

RegisterClient ==
    /\ srv.pc = "accepted"
    /\ \/ /\ stopped
          /\ fdOpen' = CloseRefused
          /\ srv' = [pc |-> "closing", conn |-> NoConn]
          /\ UNCHANGED clientFds
       \/ /\ ~stopped
          /\ clientFds' = clientFds \cup {srv.conn}
          /\ srv' = [srv EXCEPT !.pc = "start"]
          /\ UNCHANGED fdOpen
    /\ UNCHANGED <<stopped, backlog, threads, thr, clientOf, consoleVars,
                   hello, down>>

(* The threads of the clients gone are joined, the new one's starts.         *)
Done(c) == thr[c].pc = "done"

StartClientThread ==
    /\ srv.pc = "start"
    /\ threads' = {c \in threads : ~Done(c)} \cup {srv.conn}
    /\ thr' = [thr EXCEPT ![srv.conn].pc = "hello"]
    /\ srv' = [pc |-> "loop", conn |-> NoConn]
    /\ UNCHANGED <<stopped, backlog, clientFds, fdOpen, clientOf, consoleVars,
                   hello, down>>

(* close(fd): connections nobody accepted are reset.                         *)
CloseServer ==
    /\ srv.pc = "closing"
    /\ srv' = [srv EXCEPT !.pc = "join"]
    /\ backlog' = << >>
    /\ down' = down \cup {backlog[i] : i \in 1 .. Len(backlog)}
    /\ UNCHANGED <<stopped, threads, clientFds, fdOpen, thr, clientOf,
                   consoleVars, hello>>

JoinClientThreads ==
    /\ srv.pc = "join"
    /\ \A c \in threads : Done(c)
    /\ threads' = {}
    /\ srv' = [srv EXCEPT !.pc = "ended"]
    /\ UNCHANGED <<stopped, backlog, clientFds, fdOpen, thr, clientOf,
                   consoleVars, hello, down>>
-----------------------------------------------------------------------------
(* The client threads.                                                       *)

(* ReadClientMessages: the display is the second argument of the hello, the  *)
(* first one says what the client releases.                                  *)
FlagsOfHello(c) == 3
MainDisplay(c) == 0
DisplayOfHello(c) == DisplayOf[owner[c]]

(* ClientLoop, the hello that came within kClientHelloTimeoutMs.             *)
ReadHello(c) ==
    /\ thr[c].pc = "hello"
    /\ ~PeerGone(c) /\ hello[c] = "sent"
    /\ hello' = [hello EXCEPT ![c] = "read"]
    /\ thr' = [thr EXCEPT ![c] = [pc |-> "check",
                                  display |-> DisplayOfHello(c)]]
    /\ UNCHANGED <<serverVars, clientFds, fdOpen, clientOf, consoleVars, down>>

(* It did not come in time: the client is taken for one of display 0.        *)
HelloTimeout(c) ==
    /\ thr[c].pc = "hello"
    /\ LateHello /\ hello[c] # "read"
    /\ thr' = [thr EXCEPT ![c].pc = "check"]
    /\ UNCHANGED <<serverVars, clientFds, fdOpen, clientOf, consoleVars, hello,
                   down>>

HelloEof(c) ==
    /\ thr[c].pc = "hello"
    /\ PeerGone(c)
    /\ thr' = [thr EXCEPT ![c].pc = "erase"]
    /\ UNCHANGED <<serverVars, clientFds, fdOpen, clientOf, consoleVars, hello,
                   down>>

(* frame_cv_.wait and its predicate, and the binding to the display.         *)
TakesDisplay(d) == TRUE
DisplayIsFree(d) == clientOf[d] = NoConn

WaitForDisplay(c) ==
    /\ thr[c].pc = "check"
    /\ LET d == thr[c].display IN
       \/ /\ stopped
          /\ thr' = [thr EXCEPT ![c].pc = "erase"]
          /\ UNCHANGED clientOf
       \/ /\ ~stopped /\ DisplayIsFree(d)
          /\ thr' = [thr EXCEPT ![c].pc = "stream"]
          /\ clientOf' = [clientOf EXCEPT ![d] = c]
       \/ /\ ~stopped /\ ~DisplayIsFree(d)
          /\ thr' = [thr EXCEPT ![c].pc = "asleep"]
          /\ UNCHANGED clientOf
    /\ UNCHANGED <<serverVars, clientFds, fdOpen, consoleVars, hello, down>>

(* ReadClientMessages in StreamToClient: a hello read now changes nothing    *)
(* about the display.                                                        *)
ReadLateHello(c) ==
    /\ thr[c].pc = "stream"
    /\ ~PeerGone(c) /\ hello[c] = "sent"
    /\ hello' = [hello EXCEPT ![c] = "read"]
    /\ UNCHANGED <<serverVars, clientFds, fdOpen, thr, clientOf, consoleVars,
                   down>>

(* StreamToClient returns, and EndClientLocked: the display has no client.   *)
EndStream(c) ==
    /\ thr[c].pc = "stream"
    /\ thr' = [thr EXCEPT ![c].pc = "notify"]
    /\ clientOf' = [clientOf EXCEPT ![thr[c].display] = NoConn]
    /\ UNCHANGED <<serverVars, clientFds, fdOpen, consoleVars, hello, down>>

StreamEof(c) == (PeerGone(c) \/ stopped) /\ EndStream(c)

(* The client's socket stays full for kFrameSendTimeoutMs.                   *)
SendTimeout(c) == EndStream(c)

(* frame_cv_.notify_all() at the end of ClientLoop.                          *)
NotifyNobody(c) ==
    /\ thr[c].pc = "notify"
    /\ thr' = [thr EXCEPT ![c].pc = "erase"]
    /\ UNCHANGED <<serverVars, clientFds, fdOpen, clientOf, consoleVars, hello,
                   down>>
NotifyWaiters(c) ==
    /\ thr[c].pc = "notify"
    /\ thr' = NotifyAll([thr EXCEPT ![c].pc = "erase"])
    /\ UNCHANGED <<serverVars, clientFds, fdOpen, clientOf, consoleVars, hello,
                   down>>

(* What is left of client_fds_ once the thread has erased its own.           *)
EraseNone(c) == clientFds
EraseOwn(c) == clientFds \ {c}

EraseClientFd(c) ==
    /\ thr[c].pc = "erase"
    /\ clientFds' = EraseOwn(c)
    /\ thr' = [thr EXCEPT ![c].pc = "close"]
    /\ UNCHANGED <<serverVars, fdOpen, clientOf, consoleVars, hello, down>>

CloseClientFd(c) ==
    /\ thr[c].pc = "close"
    /\ fdOpen' = fdOpen \ {c}
    /\ thr' = [thr EXCEPT ![c] = [pc |-> "done", display |-> 0]]
    /\ UNCHANGED <<serverVars, clientFds, clientOf, consoleVars, hello, down>>
-----------------------------------------------------------------------------
(* The destructor, its critical section; it then joins the server thread.    *)
Destroy ==
    /\ ~stopped
    /\ stopped' = TRUE
    /\ thr' = NotifyAll(thr)
    /\ down' = down \cup clientFds
    /\ UNCHANGED <<srv, backlog, threads, clientFds, fdOpen, clientOf,
                   consoleVars, hello>>
-----------------------------------------------------------------------------
(* The consoles.                                                             *)

Listening == srv.pc \in {"loop", "accepted", "start"} /\ ~stopped

(* run_cf_source: connect.                                                   *)
Connect(k) ==
    LET c == Len(owner) + 1 IN
    /\ src[k].pc = "idle"
    /\ Listening
    /\ c <= MaxConnections
    /\ owner' = Append(owner, k)
    /\ src' = [src EXCEPT ![k] = [pc |-> "greet", conn |-> c]]
    /\ backlog' = Append(backlog, c)
    /\ UNCHANGED <<stopped, srv, threads, clientFds, fdOpen, thr, clientOf,
                   hello, down, kept>>

(* run_cf_source: the hello.                                                 *)
SayHello(k) ==
    /\ src[k].pc = "greet"
    /\ src' = [src EXCEPT ![k].pc = "connected"]
    /\ hello' = [hello EXCEPT ![src[k].conn] = "sent"]
    /\ UNCHANGED <<serverVars, clientFds, fdOpen, thr, clientOf, owner,
                   down, kept>>

(* sc_cf_process_msg: a frame of the console's display; it refers to the     *)
(* connection, by a duplicate of the socket, until its last unref.           *)
ProcessFrame(k) ==
    LET c == src[k].conn IN
    /\ src[k].pc = "connected"
    /\ thr[c].pc = "stream" /\ thr[c].display = DisplayOf[k]
    /\ c \notin down
    /\ kept' = [kept EXCEPT ![k] = @ \cup {c}]
    /\ UNCHANGED <<serverVars, clientFds, fdOpen, thr, clientOf, owner,
                   hello, down, src>>

(* The window shows the newest frame and drops the ones before.              *)
UpdateFrame(k) ==
    /\ \E c, e \in kept[k] : c # e
    /\ kept' = [kept EXCEPT ![k] = {c \in @ : \A e \in @ : e <= c}]
    /\ UNCHANGED <<serverVars, clientFds, fdOpen, thr, clientOf, owner,
                   hello, down, src>>

(* run_cf_source, once sc_cf_process_msg fails: the source's own descriptor  *)
(* is closed, the source connects again.                                     *)
Disconnect(k) ==
    /\ src' = [src EXCEPT ![k] = NoSource]
    /\ UNCHANGED <<serverVars, clientFds, fdOpen, thr, clientOf, owner,
                   hello, down, kept>>

ServerClosed(c) == c \in down \/ thr[c].pc = "done"

SourceEof(k) ==
    /\ src[k].pc = "connected"
    /\ ServerClosed(src[k].conn)
    /\ Disconnect(k)

(* mmap, fcntl, an allocation or a sink fails: the server has done nothing.  *)
SourceFails(k) ==
    /\ SourceErrors
    /\ src[k].pc = "connected"
    /\ Disconnect(k)

(* sc_cf_source_stop: the socket is shut down, the source's thread ends.     *)
StopClosesOnly(k) == {}
StopShutsDown(k) == {src[k].conn} \ {NoConn}

StopSource(k) ==
    /\ src[k].pc # "stopped"
    /\ down' = down \cup StopShutsDown(k)
    /\ src' = [src EXCEPT ![k] = [pc |-> "stopped", conn |-> NoConn]]
    /\ UNCHANGED <<serverVars, clientFds, fdOpen, thr, clientOf, owner,
                   hello, kept>>

(* The console exits, or is killed: every descriptor of it is closed.        *)
Exit(k) ==
    /\ src[k].pc # "stopped" \/ kept[k] # {}
    /\ src' = [src EXCEPT ![k] = [pc |-> "stopped", conn |-> NoConn]]
    /\ kept' = [kept EXCEPT ![k] = {}]
    /\ UNCHANGED <<serverVars, clientFds, fdOpen, thr, clientOf, owner,
                   hello, down>>
-----------------------------------------------------------------------------
ServerThread == \/ \E ok \in BOOLEAN : SetupServer(ok)
                \/ LeaveLoop \/ Accept \/ RegisterClient \/ StartClientThread
                \/ CloseServer \/ JoinClientThreads

ClientThread(c) == \/ ReadHello(c) \/ HelloTimeout(c) \/ HelloEof(c)
                   \/ WaitForDisplay(c) \/ ReadLateHello(c) \/ StreamEof(c)
                   \/ NotifyWaiters(c) \/ EraseClientFd(c) \/ CloseClientFd(c)

Console(k) == \/ Connect(k) \/ SayHello(k) \/ ProcessFrame(k) \/ UpdateFrame(k)
              \/ SourceEof(k) \/ SourceFails(k) \/ StopSource(k) \/ Exit(k)

Next == \/ ServerThread \/ Destroy
        \/ \E c \in Connections : ClientThread(c) \/ SendTimeout(c)
        \/ \E k \in Consoles : Console(k)

(* Threads that can run do, and the poll of the hello times out.  A setup    *)
(* or poll failure, a send timeout, a departure and the destructor need not  *)
(* happen; a console that shows frames goes on showing them.                 *)
Fairness ==
    /\ WF_vars(SetupServer(TRUE) \/ Accept \/ RegisterClient
               \/ StartClientThread \/ CloseServer \/ JoinClientThreads
               \/ (stopped /\ LeaveLoop))
    /\ \A c \in Connections : WF_vars(ClientThread(c))
    /\ \A k \in Consoles : WF_vars(Connect(k) \/ SayHello(k) \/ SourceEof(k))
    /\ \A k \in Consoles : WF_vars(UpdateFrame(k))

Spec == Init /\ [][Next]_vars
FairSpec == Spec /\ Fairness
-----------------------------------------------------------------------------
ThreadPcs == {"none", "hello", "check", "asleep", "stream", "notify", "erase",
              "close", "done"}
ThreadStates == [pc : ThreadPcs, display : Displays]
ServerStates == [pc : {"setup", "loop", "accepted", "start", "closing", "join",
                       "ended"}, conn : Connections \cup {NoConn}]
SourceStates == [pc : {"idle", "greet", "connected", "stopped"},
                 conn : Connections \cup {NoConn}]

(* The type invariant.                                                       *)
TypeOK ==
    /\ stopped \in BOOLEAN
    /\ srv \in ServerStates
    /\ backlog \in Seq(Connections)
    /\ clientFds \subseteq Connections
    /\ threads \subseteq Connections
    /\ fdOpen \subseteq Connections
    /\ thr \in [Connections -> ThreadStates]
    /\ clientOf \in [Displays -> Connections \cup {NoConn}]
    /\ owner \in Seq(Consoles)
    /\ hello \in [Connections -> {"unsent", "sent", "read"}]
    /\ down \subseteq Connections
    /\ src \in [Consoles -> SourceStates]
    /\ kept \in [Consoles -> SUBSET Connections]

(* Each display has at most one client, and it is the one registered: two    *)
(* threads let in by the same wakeup do not both stream.                     *)
OneClientPerDisplay ==
    \A c \in Connections, d \in Displays :
        clientOf[d] = c <=> thr[c].pc = "stream" /\ thr[c].display = d

(* The descriptors the destructor shuts down are the clients' own: a number  *)
(* in client_fds_ is not closed yet, so it does not stand for a later file.  *)
RegisteredFdsOpen == clientFds \subseteq fdOpen

(* A frame kept from a connection the source has dropped cannot release its  *)
(* slot or buffer any more: the connection is closed or shut down.           *)
ReleaseFailsOnceDisconnected ==
    \A k \in Consoles : \A c \in kept[k] :
        src[k].conn # c => ServerClosed(c)

(* A client whose hello was read is bound to the display it shows, whoever   *)
(* it waited for; one whose hello comes too late may get the main display.   *)
ServedItsDisplay ==
    [][\A c \in Connections :
            thr[c].pc # "stream" /\ thr'[c].pc = "stream" /\ hello[c] = "read"
                => clientOf'[DisplayOf[owner[c]]] = c]_vars

LiveOwner(d) == clientOf[d] # NoConn /\ ~PeerGone(clientOf[d])

(* A console that is connected and not served yet.                           *)
Unserved(c) ==
    /\ ~PeerGone(c)
    /\ thr[c].pc \in {"none", "hello", "check", "asleep"}
    /\ ~stopped /\ srv.pc \notin {"closing", "join", "ended"}

(* The refinement mapping: a client waits from its hello (or the timeout)    *)
(* until it is bound, asleep on frame_cv_ or about to look again.            *)
WaitingFor == {<<c, thr[c].display>> :
                   c \in {e \in Connections : thr[e].pc \in {"check", "asleep"}}}

Lock == INSTANCE DisplayLock WITH Clients <- Connections, NoClient <- NoConn,
                                  holder <- clientOf, waiting <- WaitingFor

(* The threads, the condition variable and the destructor together are a     *)
(* lock per display that is granted whenever it is free and waited for.      *)
ImplementsDisplayLock == Lock!FairSpec

(* A console does not wait for a display nobody shows: however the clients   *)
(* before it left, and whoever else waits, it is let in.                     *)
WaitersGetIn ==
    \A c \in Connections :
        Unserved(c) /\ ~LiveOwner(DisplayOf[owner[c]])
            ~> ~Unserved(c) \/ LiveOwner(DisplayOf[owner[c]])

(* The destructor returns: wherever the threads were when it ran, they end   *)
(* and are joined, and no descriptor is left open.                           *)
StopEnds ==
    stopped ~> srv.pc = "ended" /\ threads = {} /\ fdOpen = {}
=============================================================================
