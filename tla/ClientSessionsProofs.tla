------------------------ MODULE ClientSessionsProofs ------------------------
(* Theorems about ClientSessions, for every set of consoles and displays and *)
(* every number of connections.                                              *)
EXTENDS ClientSessions, TLAPS

(* The client of a display is the thread that streams it.                    *)
DisplayOwned ==
    /\ \A c \in Connections :
          thr[c].pc = "stream" => clientOf[thr[c].display] = c
    /\ \A d \in Displays :
          clientOf[d] # NoConn => /\ thr[clientOf[d]].pc = "stream"
                                  /\ thr[clientOf[d]].display = d

(* Connections are numbered as they come, and what waits for accept4 or was  *)
(* just accepted has no thread and is not registered yet.                    *)
Waiting(c) ==
    /\ c <= Len(owner)
    /\ thr[c].pc = "none"
    /\ c \notin clientFds

BacklogFresh ==
    /\ \A i \in 1 .. Len(backlog) : Waiting(backlog[i])
    /\ \A i, j \in 1 .. Len(backlog) : backlog[i] = backlog[j] => i = j

Accepted ==
    /\ srv.pc \in {"accepted", "start"} =>
          /\ srv.conn \in fdOpen
          /\ srv.conn <= Len(owner)
          /\ thr[srv.conn].pc = "none"
          /\ \A i \in 1 .. Len(backlog) : backlog[i] # srv.conn
    /\ srv.pc = "accepted" => srv.conn \notin clientFds

(* Threads and descriptors belong to connections, and a thread erases its    *)
(* descriptor before it closes it.                                           *)
ThreadsRegistered ==
    \A c \in Connections :
        /\ thr[c].pc # "none" => c <= Len(owner)
        /\ c \in fdOpen => c <= Len(owner)
        /\ c \in clientFds => thr[c].pc \notin {"close", "done"}

(* A source that is connected has a connection.                              *)
SourceConnected ==
    \A k \in Consoles : src[k].pc \in {"greet", "connected"}
                           => src[k].conn # NoConn

(* The inductive invariant.                                                  *)
SInv == /\ TypeOK /\ DisplayOwned /\ BacklogFresh /\ Accepted
        /\ ThreadsRegistered /\ SourceConnected /\ RegisteredFdsOpen
-----------------------------------------------------------------------------
(* Facts about the parts of the state.                                       *)

(* A connection is a number from 1 on, and never NoConn.                     *)
LEMMA ConnectionFacts ==
    /\ \A c \in Connections : c \in Nat
    /\ NoConn \notin Connections
  BY SessionBoundsAssumption DEF Connections, NoConn

(* The fields of the records have their types.                               *)
LEMMA FieldTypes ==
    ASSUME TypeOK
    PROVE  /\ srv.conn \in Connections \cup {NoConn}
           /\ \A c \in Connections : /\ thr[c] \in ThreadStates
                                     /\ thr[c].pc \in ThreadPcs
                                     /\ thr[c].display \in Displays
           /\ \A k \in Consoles : /\ src[k] \in SourceStates
                                  /\ src[k].conn \in Connections \cup {NoConn}
<1>1. srv \in ServerStates /\ thr \in [Connections -> ThreadStates]
      /\ src \in [Consoles -> SourceStates]
  BY DEF TypeOK
<1>2. srv.conn \in Connections \cup {NoConn}
  BY <1>1 DEF ServerStates
<1>3. ASSUME NEW c \in Connections
      PROVE  thr[c] \in ThreadStates /\ thr[c].pc \in ThreadPcs
             /\ thr[c].display \in Displays
  <2>1. thr[c] \in ThreadStates
    BY <1>1
  <2>2. QED
    BY <2>1 DEF ThreadStates
<1>4. ASSUME NEW k \in Consoles
      PROVE  src[k] \in SourceStates
             /\ src[k].conn \in Connections \cup {NoConn}
  <2>1. src[k] \in SourceStates
    BY <1>1
  <2>2. QED
    BY <2>1 DEF SourceStates
<1>5. QED
  BY <1>2, <1>3, <1>4

(* One thread moves on.                                                      *)
LEMMA ThreadMoves ==
    ASSUME TypeOK, NEW c \in Connections, NEW p \in ThreadPcs
    PROVE  /\ [thr EXCEPT ![c].pc = p] \in [Connections -> ThreadStates]
           /\ \A e \in Connections :
                 /\ [thr EXCEPT ![c].pc = p][e].pc
                        = IF e = c THEN p ELSE thr[e].pc
                 /\ [thr EXCEPT ![c].pc = p][e].display = thr[e].display
<1> DEFINE r == [thr[c] EXCEPT !.pc = p]
<1>1. thr \in [Connections -> ThreadStates] /\ thr[c] \in ThreadStates
  BY FieldTypes DEF TypeOK
<1>2. r \in ThreadStates /\ r.pc = p /\ r.display = thr[c].display
  BY <1>1 DEF ThreadStates
<1>3. [thr EXCEPT ![c].pc = p] = [thr EXCEPT ![c] = r]
  OBVIOUS
<1> HIDE DEF r
<1>4. QED
  BY <1>1, <1>2, <1>3

(* frame_cv_.notify_all() makes sleepers look again, and nothing else.       *)
LEMMA NotifyAllWakes ==
    ASSUME NEW t \in [Connections -> ThreadStates]
    PROVE  /\ NotifyAll(t) \in [Connections -> ThreadStates]
           /\ \A e \in Connections :
                 /\ NotifyAll(t)[e].pc
                        = IF t[e].pc = "asleep" THEN "check" ELSE t[e].pc
                 /\ NotifyAll(t)[e].display = t[e].display
<1>1. ASSUME NEW e \in Connections
      PROVE  /\ NotifyAll(t)[e] \in ThreadStates
             /\ NotifyAll(t)[e].pc
                    = IF t[e].pc = "asleep" THEN "check" ELSE t[e].pc
             /\ NotifyAll(t)[e].display = t[e].display
  <2> DEFINE r == t[e]
             w == [r EXCEPT !.pc = "check"]
  <2>1. r \in ThreadStates
    OBVIOUS
  <2>2. w \in ThreadStates /\ w.pc = "check" /\ w.display = r.display
    BY <2>1 DEF ThreadStates, ThreadPcs
  <2>3. NotifyAll(t)[e] = IF r.pc = "asleep" THEN w ELSE r
    BY DEF NotifyAll
  <2> HIDE DEF r, w
  <2>4. r = t[e]
    BY DEF r
  <2>5. QED
    BY <2>1, <2>2, <2>3, <2>4
<1>2. NotifyAll(t) = [e \in Connections |-> NotifyAll(t)[e]]
  BY DEF NotifyAll
<1>3. QED
  BY <1>1, <1>2
-----------------------------------------------------------------------------
(* Every step keeps the types.                                               *)
LEMMA TypeStep ==
    ASSUME SInv, Next
    PROVE  TypeOK'
<1> USE DEF SInv, serverVars, consoleVars
<1>0. TypeOK
  OBVIOUS
<1>1. ASSUME NEW ok \in BOOLEAN, SetupServer(ok)
      PROVE  TypeOK'
  <2>1. srv' \in ServerStates
    BY <1>1 DEF SetupServer, TypeOK, ServerStates
  <2>2. QED
    BY <1>1, <2>1 DEF SetupServer, TypeOK
<1>2. CASE LeaveLoop
  <2>1. srv' \in ServerStates
    BY <1>2 DEF LeaveLoop, TypeOK, ServerStates
  <2>2. QED
    BY <1>2, <2>1 DEF LeaveLoop, TypeOK
<1>3. CASE Accept
  <2>1. Head(backlog) \in Connections /\ Tail(backlog) \in Seq(Connections)
    BY <1>3 DEF Accept, TypeOK
  <2>2. srv' \in ServerStates
    BY <1>3, <2>1 DEF Accept, ServerStates
  <2>3. QED
    BY <1>3, <2>1, <2>2 DEF Accept, TypeOK
<1>4. CASE RegisterClient
  <2>1. srv' \in ServerStates
    BY <1>4 DEF RegisterClient, TypeOK, ServerStates
  <2>2. srv.conn \in Connections
    BY <1>4, FieldTypes DEF RegisterClient, Accepted, TypeOK
  <2>3. fdOpen' \subseteq Connections /\ clientFds' \subseteq Connections
    BY <1>4, <2>2 DEF RegisterClient, CloseRefused, TypeOK
  <2>4. QED
    BY <1>4, <2>1, <2>3 DEF RegisterClient, TypeOK
<1>5. CASE StartClientThread
  <2>1. srv' \in ServerStates
    BY <1>5 DEF StartClientThread, ServerStates
  <2>2. srv.conn \in Connections
    BY <1>5, FieldTypes DEF StartClientThread, Accepted, TypeOK
  <2>3. thr' \in [Connections -> ThreadStates]
    BY <1>5, <2>2, ThreadMoves DEF StartClientThread, ThreadPcs
  <2>4. threads' \subseteq Connections
    BY <1>5, <2>2 DEF StartClientThread, TypeOK
  <2>5. QED
    BY <1>5, <2>1, <2>3, <2>4 DEF StartClientThread, TypeOK
<1>6. CASE CloseServer
  <2>1. srv' \in ServerStates
    BY <1>6 DEF CloseServer, TypeOK, ServerStates
  <2>2. down' \subseteq Connections /\ backlog' \in Seq(Connections)
    BY <1>6 DEF CloseServer, TypeOK
  <2>3. QED
    BY <1>6, <2>1, <2>2 DEF CloseServer, TypeOK
<1>7. CASE JoinClientThreads
  <2>1. srv' \in ServerStates
    BY <1>7 DEF JoinClientThreads, TypeOK, ServerStates
  <2>2. QED
    BY <1>7, <2>1 DEF JoinClientThreads, TypeOK
<1>8. CASE Destroy
  <2>1. thr' \in [Connections -> ThreadStates]
    BY <1>8, NotifyAllWakes DEF Destroy, TypeOK
  <2>2. QED
    BY <1>8, <2>1 DEF Destroy, TypeOK
<1>9. ASSUME NEW c \in Connections, ReadHello(c)
      PROVE  TypeOK'
  <2>1. c \in 1 .. Len(owner)
    BY <1>9, ConnectionFacts DEF ReadHello, ThreadsRegistered, TypeOK, Connections
  <2>2. DisplayOfHello(c) \in Displays
    BY <2>1, DisplayOfAssumption DEF DisplayOfHello, TypeOK
  <2>3. [pc |-> "check", display |-> DisplayOfHello(c)] \in ThreadStates
    BY <2>2 DEF ThreadStates, ThreadPcs
  <2>4. QED
    BY <1>9, <2>3 DEF ReadHello, TypeOK
<1>10. ASSUME NEW c \in Connections, HelloTimeout(c) \/ HelloEof(c)
       PROVE  TypeOK'
  <2>0. PICK p \in ThreadPcs : thr' = [thr EXCEPT ![c].pc = p]
    BY <1>10 DEF HelloTimeout, HelloEof, ThreadPcs
  <2>1. thr' \in [Connections -> ThreadStates]
    BY <2>0, ThreadMoves
  <2>2. QED
    BY <1>10, <2>1 DEF HelloTimeout, HelloEof, TypeOK
<1>11. ASSUME NEW c \in Connections, WaitForDisplay(c)
       PROVE  TypeOK'
  <2>0. PICK p \in ThreadPcs : thr' = [thr EXCEPT ![c].pc = p]
    BY <1>11 DEF WaitForDisplay, ThreadPcs
  <2>1. thr' \in [Connections -> ThreadStates]
    BY <2>0, ThreadMoves
  <2>2. clientOf' \in [Displays -> Connections \cup {NoConn}]
    BY <1>11 DEF WaitForDisplay, TypeOK
  <2>3. QED
    BY <1>11, <2>1, <2>2 DEF WaitForDisplay, TypeOK
<1>12. ASSUME NEW c \in Connections, ReadLateHello(c)
       PROVE  TypeOK'
  BY <1>12 DEF ReadLateHello, TypeOK
<1>13. ASSUME NEW c \in Connections, EndStream(c)
       PROVE  TypeOK'
  <2>1. thr' \in [Connections -> ThreadStates]
    BY <1>13, ThreadMoves DEF EndStream, ThreadPcs
  <2>2. clientOf' \in [Displays -> Connections \cup {NoConn}]
    BY <1>13 DEF EndStream, TypeOK
  <2>3. QED
    BY <1>13, <2>1, <2>2 DEF EndStream, TypeOK
<1>14. ASSUME NEW c \in Connections, NotifyWaiters(c)
       PROVE  TypeOK'
  <2>1. thr' \in [Connections -> ThreadStates]
    BY <1>14, ThreadMoves, NotifyAllWakes DEF NotifyWaiters, ThreadPcs
  <2>2. QED
    BY <1>14, <2>1 DEF NotifyWaiters, TypeOK
<1>15. ASSUME NEW c \in Connections, EraseClientFd(c)
       PROVE  TypeOK'
  <2>1. thr' \in [Connections -> ThreadStates]
    BY <1>15, ThreadMoves DEF EraseClientFd, ThreadPcs
  <2>2. QED
    BY <1>15, <2>1 DEF EraseClientFd, EraseOwn, TypeOK
<1>16. ASSUME NEW c \in Connections, CloseClientFd(c)
       PROVE  TypeOK'
  <2>1. [pc |-> "done", display |-> 0] \in ThreadStates
    BY DisplaysAssumption DEF ThreadStates, ThreadPcs
  <2>2. QED
    BY <1>16, <2>1 DEF CloseClientFd, TypeOK
<1>17. ASSUME NEW k \in Consoles, Connect(k)
       PROVE  TypeOK'
  <2>1. Len(owner) + 1 \in Connections
    BY <1>17, SessionBoundsAssumption DEF Connect, TypeOK, Connections
  <2>2. [pc |-> "greet", conn |-> Len(owner) + 1] \in SourceStates
    BY <2>1 DEF SourceStates
  <2>3. owner' \in Seq(Consoles) /\ backlog' \in Seq(Connections)
    BY <1>17, <2>1 DEF Connect, TypeOK
  <2>4. src' \in [Consoles -> SourceStates]
    BY <1>17, <2>2 DEF Connect, TypeOK
  <2>5. QED
    BY <1>17, <2>3, <2>4 DEF Connect, TypeOK
<1>18. ASSUME NEW k \in Consoles, SayHello(k)
       PROVE  TypeOK'
  <2>1. [src[k] EXCEPT !.pc = "connected"] \in SourceStates
    BY FieldTypes DEF SourceStates
  <2>2. src' = [src EXCEPT ![k] = [src[k] EXCEPT !.pc = "connected"]]
    BY <1>18 DEF SayHello
  <2>3. src' \in [Consoles -> SourceStates]
    BY <2>1, <2>2 DEF TypeOK
  <2>4. QED
    BY <1>18, <2>3 DEF SayHello, TypeOK
<1>19. ASSUME NEW k \in Consoles, ProcessFrame(k)
       PROVE  TypeOK'
  <2>1. src[k].conn \in Connections \cup {NoConn} /\ src[k].conn # NoConn
    BY <1>19, FieldTypes DEF ProcessFrame, SourceConnected
  <2>2. QED
    BY <1>19, <2>1 DEF ProcessFrame, TypeOK
<1>20. ASSUME NEW k \in Consoles, UpdateFrame(k)
       PROVE  TypeOK'
  BY <1>20 DEF UpdateFrame, TypeOK
<1>21. ASSUME NEW k \in Consoles, SourceEof(k) \/ SourceFails(k)
       PROVE  TypeOK'
  <2>1. NoSource \in SourceStates
    BY DEF NoSource, SourceStates
  <2>2. QED
    BY <1>21, <2>1 DEF SourceEof, SourceFails, Disconnect, TypeOK
<1>22. ASSUME NEW k \in Consoles, StopSource(k) \/ Exit(k)
       PROVE  TypeOK'
  <2>1. [pc |-> "stopped", conn |-> NoConn] \in SourceStates
    BY DEF SourceStates
  <2>2. StopShutsDown(k) \subseteq Connections
    BY FieldTypes DEF StopShutsDown
  <2>3. QED
    BY <1>22, <2>1, <2>2 DEF StopSource, Exit, TypeOK
<1>23. QED
  BY <1>1, <1>2, <1>3, <1>4, <1>5, <1>6, <1>7, <1>8, <1>9, <1>10, <1>11,
     <1>12, <1>13, <1>14, <1>15, <1>16, <1>17, <1>18, <1>19, <1>20, <1>21,
     <1>22
  DEF Next, ServerThread, ClientThread, Console, StreamEof, SendTimeout
-----------------------------------------------------------------------------
(* How a step moves the threads.  Quiet: no thread begins or ends to stream, *)
(* starts, or closes its descriptor, and the displays keep their clients.    *)
Quiet ==
    /\ clientOf' = clientOf
    /\ \A e \in Connections :
          /\ thr'[e].pc = "stream" <=> thr[e].pc = "stream"
          /\ thr[e].pc = "stream" => thr'[e].display = thr[e].display

(* Steps that bind no thread to a display and free none.                     *)
LEMMA QuietSteps ==
    ASSUME SInv, Next,
           \A c \in Connections : ~WaitForDisplay(c) /\ ~EndStream(c)
    PROVE  Quiet
<1> USE DEF SInv, serverVars, consoleVars
<1>1. CASE thr' = thr /\ clientOf' = clientOf
  BY <1>1 DEF Quiet
<1>2. CASE StartClientThread
  <2>1. srv.conn \in Connections /\ thr[srv.conn].pc = "none"
    BY <1>2, FieldTypes DEF StartClientThread, Accepted, TypeOK
  <2>2. "hello" \in ThreadPcs /\ thr' = [thr EXCEPT ![srv.conn].pc = "hello"]
    BY <1>2 DEF StartClientThread, ThreadPcs
  <2>3. QED
    BY <1>2, <2>1, <2>2, ThreadMoves DEF StartClientThread, Quiet
<1>3. CASE Destroy
  BY <1>3, NotifyAllWakes DEF Destroy, Quiet, TypeOK
<1>4. ASSUME NEW c \in Connections, ReadHello(c)
      PROVE  Quiet
  BY <1>4, FieldTypes DEF ReadHello, Quiet, TypeOK
<1>5. ASSUME NEW c \in Connections,
             HelloTimeout(c) \/ HelloEof(c) \/ EraseClientFd(c)
      PROVE  Quiet
  <2>1. PICK p \in ThreadPcs \ {"stream"} : thr' = [thr EXCEPT ![c].pc = p]
    BY <1>5 DEF HelloTimeout, HelloEof, EraseClientFd, ThreadPcs
  <2>2. thr[c].pc # "stream" /\ clientOf' = clientOf
    BY <1>5 DEF HelloTimeout, HelloEof, EraseClientFd
  <2>3. QED
    BY <2>1, <2>2, ThreadMoves DEF Quiet
<1>6. ASSUME NEW c \in Connections, NotifyWaiters(c)
      PROVE  Quiet
  <2> DEFINE t == [thr EXCEPT ![c].pc = "erase"]
  <2>1. "erase" \in ThreadPcs
    BY DEF ThreadPcs
  <2>2. /\ t \in [Connections -> ThreadStates]
        /\ \A e \in Connections :
              /\ t[e].pc = IF e = c THEN "erase" ELSE thr[e].pc
              /\ t[e].display = thr[e].display
    BY <2>1, ThreadMoves
  <2>3. thr' = NotifyAll(t) /\ thr[c].pc = "notify" /\ clientOf' = clientOf
    BY <1>6 DEF NotifyWaiters
  <2> HIDE DEF t
  <2>4. QED
    BY <2>2, <2>3, NotifyAllWakes DEF Quiet
<1>7. ASSUME NEW c \in Connections, CloseClientFd(c)
      PROVE  Quiet
  BY <1>7, FieldTypes DEF CloseClientFd, Quiet, TypeOK
<1>8. ASSUME NEW c \in Connections, ReadLateHello(c)
      PROVE  Quiet
  BY <1>8, <1>1 DEF ReadLateHello
<1>9. ASSUME NEW k \in Consoles, Console(k)
      PROVE  Quiet
  BY <1>9, <1>1 DEF Console, Connect, SayHello, ProcessFrame, UpdateFrame,
     SourceEof, SourceFails, Disconnect, StopSource, Exit
<1>10. CASE ServerThread
  BY <1>10, <1>1, <1>2 DEF ServerThread, SetupServer, LeaveLoop, Accept,
     RegisterClient, CloseServer, JoinClientThreads
<1>11. QED
  BY <1>3, <1>4, <1>5, <1>6, <1>7, <1>8, <1>9, <1>10
  DEF Next, ClientThread, StreamEof, SendTimeout

(* Every step keeps the displays' clients and the threads in agreement.      *)
LEMMA DisplayOwnedStep ==
    ASSUME SInv, Next
    PROVE  DisplayOwned'
<1> USE DEF SInv
<1>1. CASE Quiet
  BY <1>1, FieldTypes DEF Quiet, DisplayOwned, TypeOK
<1>2. ASSUME NEW c \in Connections, WaitForDisplay(c)
      PROVE  DisplayOwned'
  <2>1. CASE clientOf' = clientOf
    <3>0. ~(/\ DisplayIsFree(thr[c].display)
            /\ clientOf' = [clientOf EXCEPT ![thr[c].display] = c])
      BY <2>1, FieldTypes, ConnectionFacts DEF DisplayIsFree, TypeOK
    <3>1. PICK p \in ThreadPcs \ {"stream"} : thr' = [thr EXCEPT ![c].pc = p]
      BY <1>2, <3>0 DEF WaitForDisplay, ThreadPcs
    <3>2. Quiet
      BY <3>1, <2>1, <1>2, ThreadMoves DEF Quiet, WaitForDisplay
    <3>3. QED
      BY <3>2, <1>1
  <2>2. CASE clientOf' # clientOf
    <3> DEFINE d == thr[c].display
    <3>1. /\ clientOf[d] = NoConn /\ d \in Displays
          /\ thr' = [thr EXCEPT ![c].pc = "stream"]
          /\ clientOf' = [clientOf EXCEPT ![d] = c]
      BY <1>2, <2>2, FieldTypes DEF WaitForDisplay, DisplayIsFree
    <3>2. \A e \in Connections :
              /\ thr'[e].pc = IF e = c THEN "stream" ELSE thr[e].pc
              /\ thr'[e].display = thr[e].display
      BY <3>1, ThreadMoves DEF ThreadPcs
    <3>3. \A e \in Displays : clientOf'[e] = IF e = d THEN c ELSE clientOf[e]
      BY <3>1 DEF TypeOK
    <3>4. \A e \in Connections : thr[e].display \in Displays
      BY FieldTypes
    <3>5. \A e \in Displays : clientOf[e] \in Connections \cup {NoConn}
      BY DEF TypeOK
    <3>6. thr[c].pc # "stream"
      BY <1>2 DEF WaitForDisplay
    <3> HIDE DEF d
    <3>7. d = thr[c].display
      BY DEF d
    <3>8. QED
      BY <3>1, <3>2, <3>3, <3>4, <3>5, <3>6, <3>7, ConnectionFacts
      DEF DisplayOwned
  <2>3. QED
    BY <2>1, <2>2
<1>3. ASSUME NEW c \in Connections, EndStream(c)
      PROVE  DisplayOwned'
  <2> DEFINE d == thr[c].display
  <2>1. /\ clientOf[d] = c /\ d \in Displays
        /\ thr' = [thr EXCEPT ![c].pc = "notify"]
        /\ clientOf' = [clientOf EXCEPT ![d] = NoConn]
    BY <1>3, FieldTypes DEF EndStream, DisplayOwned
  <2>2. \A e \in Connections :
            /\ thr'[e].pc = IF e = c THEN "notify" ELSE thr[e].pc
            /\ thr'[e].display = thr[e].display
    BY <2>1, ThreadMoves DEF ThreadPcs
  <2>3. \A e \in Displays : clientOf'[e] = IF e = d THEN NoConn ELSE clientOf[e]
    BY <2>1 DEF TypeOK
  <2>4. \A e \in Connections : thr[e].display \in Displays
    BY FieldTypes
  <2>5. \A e \in Displays : clientOf[e] \in Connections \cup {NoConn}
    BY DEF TypeOK
  <2> HIDE DEF d
  <2>6. d = thr[c].display
    BY DEF d
  <2>7. QED
    BY <2>1, <2>2, <2>3, <2>4, <2>5, <2>6, ConnectionFacts DEF DisplayOwned
<1>4. QED
  BY <1>1, <1>2, <1>3, QuietSteps
-----------------------------------------------------------------------------
(* The registration of the connections.                                      *)
FdInv == BacklogFresh /\ Accepted /\ ThreadsRegistered /\ RegisteredFdsOpen

(* Steps of a client thread: c moves on, having started and not ended; it    *)
(* closes its descriptor last, when it is not registered any more.           *)
LEMMA FdThreadStep ==
    ASSUME SInv, NEW c \in Connections,
           UNCHANGED <<srv, backlog, owner>>,
           thr[c].pc # "none", thr'[c].pc # "none",
           \A e \in Connections \ {c} :
              /\ thr'[e].pc = "none" <=> thr[e].pc = "none"
              /\ thr'[e].pc \in {"close", "done"}
                    => thr[e].pc \in {"close", "done"},
           \/ /\ UNCHANGED <<clientFds, fdOpen>>
              /\ thr'[c].pc \in {"close", "done"}
                    => thr[c].pc \in {"close", "done"}
           \/ UNCHANGED fdOpen /\ clientFds' = clientFds \ {c}
           \/ /\ UNCHANGED clientFds /\ fdOpen' = fdOpen \ {c}
              /\ thr[c].pc = "close"
    PROVE  FdInv'
<1> USE DEF SInv
<1>1. clientFds \subseteq Connections /\ srv.conn \in Connections \cup {NoConn}
      /\ backlog \in Seq(Connections) /\ fdOpen \subseteq Connections
  BY FieldTypes DEF TypeOK
<1>2. BacklogFresh'
  BY <1>1 DEF BacklogFresh, Waiting
<1>3. Accepted'
  BY <1>1 DEF Accepted
<1>4. ThreadsRegistered'
  BY <1>1 DEF ThreadsRegistered
<1>5. RegisteredFdsOpen'
  BY <1>1 DEF RegisteredFdsOpen, ThreadsRegistered
<1>6. QED
  BY <1>2, <1>3, <1>4, <1>5 DEF FdInv

(* Steps that leave the connections of the server alone.                     *)
LEMMA FdOtherStep ==
    ASSUME SInv, UNCHANGED <<srv, backlog, owner, clientFds, fdOpen>>,
           \A e \in Connections :
              /\ thr'[e].pc = "none" <=> thr[e].pc = "none"
              /\ thr'[e].pc \in {"close", "done"}
                    => thr[e].pc \in {"close", "done"}
    PROVE  FdInv'
<1> USE DEF SInv
<1>1. clientFds \subseteq Connections /\ srv.conn \in Connections \cup {NoConn}
      /\ backlog \in Seq(Connections) /\ fdOpen \subseteq Connections
  BY FieldTypes DEF TypeOK
<1>2. BacklogFresh'
  BY <1>1 DEF BacklogFresh, Waiting
<1>3. Accepted'
  BY <1>1 DEF Accepted
<1>4. ThreadsRegistered' /\ RegisteredFdsOpen'
  BY <1>1 DEF ThreadsRegistered, RegisteredFdsOpen
<1>5. QED
  BY <1>2, <1>3, <1>4 DEF FdInv

(* The server thread accepts, registers, starts and closes in this order.    *)
LEMMA FdServerStep ==
    ASSUME SInv, ServerThread
    PROVE  FdInv'
<1> USE DEF SInv
<1>0. clientFds \subseteq Connections /\ srv.conn \in Connections \cup {NoConn}
      /\ backlog \in Seq(Connections) /\ fdOpen \subseteq Connections
      /\ srv \in ServerStates
  BY FieldTypes DEF TypeOK
<1>1. ASSUME UNCHANGED <<backlog, clientFds, fdOpen, thr, owner>>,
             srv'.pc \notin {"accepted", "start"}
      PROVE  FdInv'
  BY <1>1 DEF FdInv, BacklogFresh, Waiting, Accepted, ThreadsRegistered,
              RegisteredFdsOpen
<1>2. ASSUME NEW ok \in BOOLEAN, SetupServer(ok)
      PROVE  FdInv'
  <2>1. srv'.pc \notin {"accepted", "start"}
    BY <1>0, <1>2 DEF SetupServer, ServerStates
  <2>2. QED
    BY <1>1, <1>2, <2>1 DEF SetupServer, consoleVars
<1>3. CASE LeaveLoop \/ JoinClientThreads
  <2>1. srv'.pc \notin {"accepted", "start"}
    BY <1>0, <1>3 DEF LeaveLoop, JoinClientThreads, ServerStates
  <2>2. QED
    BY <1>1, <1>3, <2>1 DEF LeaveLoop, JoinClientThreads, consoleVars
<1>4. CASE Accept
  <2> DEFINE c == Head(backlog)
  <2>1. /\ c = backlog[1] /\ 1 \in 1 .. Len(backlog) /\ c \in Connections
        /\ Len(Tail(backlog)) = Len(backlog) - 1
        /\ \A i \in 1 .. Len(Tail(backlog)) :
              Tail(backlog)[i] = backlog[i + 1] /\ i + 1 \in 1 .. Len(backlog)
    BY <1>0, <1>4 DEF Accept
  <2>2. /\ srv'.pc = "accepted" /\ srv'.conn = c
        /\ backlog' = Tail(backlog) /\ fdOpen' = fdOpen \cup {c}
        /\ UNCHANGED <<clientFds, thr, owner>>
    BY <1>4 DEF Accept, consoleVars
  <2> HIDE DEF c
  <2>3. Waiting(c)
    BY <2>1 DEF BacklogFresh
  <2>4. BacklogFresh'
    <3>1. ASSUME NEW i \in 1 .. Len(backlog')
          PROVE  /\ backlog'[i] <= Len(owner') /\ thr'[backlog'[i]].pc = "none"
                 /\ backlog'[i] \notin clientFds'
      <4>1. i + 1 \in 1 .. Len(backlog) /\ backlog'[i] = backlog[i + 1]
        BY <2>1, <2>2
      <4>2. Waiting(backlog[i + 1])
        BY <4>1 DEF BacklogFresh
      <4>3. QED
        BY <4>1, <4>2, <2>2 DEF Waiting
    <3>2. ASSUME NEW i \in 1 .. Len(backlog'), NEW j \in 1 .. Len(backlog'),
                 backlog'[i] = backlog'[j]
          PROVE  i = j
      <4>1. backlog[i + 1] = backlog[j + 1] /\ i + 1 \in 1 .. Len(backlog)
            /\ j + 1 \in 1 .. Len(backlog)
        BY <2>1, <2>2, <3>2
      <4>2. i + 1 = j + 1
        BY <4>1 DEF BacklogFresh
      <4>3. QED
        BY <4>2
    <3>3. QED
      BY <3>1, <3>2 DEF BacklogFresh, Waiting
  <2>5. \A i \in 1 .. Len(backlog') : backlog'[i] # c
    BY <2>1, <2>2 DEF BacklogFresh
  <2>6. Accepted'
    BY <2>2, <2>3, <2>5 DEF Accepted, Waiting
  <2>7. ThreadsRegistered' /\ RegisteredFdsOpen'
    BY <2>2, <2>3 DEF ThreadsRegistered, RegisteredFdsOpen, Waiting
  <2>8. QED
    BY <2>4, <2>6, <2>7 DEF FdInv
<1>5. CASE RegisterClient
  <2>1. UNCHANGED <<backlog, thr, owner>> /\ srv.pc = "accepted"
    BY <1>5 DEF RegisterClient, consoleVars
  <2>2. CASE stopped
    <3>1. /\ clientFds' = clientFds /\ fdOpen' = fdOpen \ {srv.conn}
          /\ srv'.pc = "closing"
      BY <1>5, <2>2 DEF RegisterClient, CloseRefused
    <3>2. QED
      BY <2>1, <3>1 DEF FdInv, BacklogFresh, Waiting, Accepted,
                        ThreadsRegistered, RegisteredFdsOpen
  <2>3. CASE ~stopped
    <3>1. /\ clientFds' = clientFds \cup {srv.conn} /\ fdOpen' = fdOpen
          /\ srv'.pc = "start" /\ srv'.conn = srv.conn
      BY <1>0, <1>5, <2>3 DEF RegisterClient, ServerStates
    <3>2. BacklogFresh'
      BY <2>1, <3>1 DEF BacklogFresh, Waiting, Accepted
    <3>3. Accepted'
      BY <2>1, <3>1 DEF Accepted
    <3>4. ThreadsRegistered' /\ RegisteredFdsOpen'
      BY <2>1, <3>1 DEF ThreadsRegistered, RegisteredFdsOpen, Accepted
    <3>5. QED
      BY <3>2, <3>3, <3>4 DEF FdInv
  <2>4. QED
    BY <2>2, <2>3
<1>6. CASE StartClientThread
  <2>1. srv.conn \in Connections /\ srv.conn <= Len(owner)
        /\ \A i \in 1 .. Len(backlog) : backlog[i] # srv.conn
    BY <1>0, <1>6 DEF StartClientThread, Accepted
  <2>2. /\ UNCHANGED <<backlog, clientFds, fdOpen, owner>> /\ srv'.pc = "loop"
        /\ thr' = [thr EXCEPT ![srv.conn].pc = "hello"]
    BY <1>6 DEF StartClientThread, consoleVars
  <2>3. \A e \in Connections :
            thr'[e].pc = IF e = srv.conn THEN "hello" ELSE thr[e].pc
    BY <2>1, <2>2, ThreadMoves DEF ThreadPcs
  <2>4. BacklogFresh'
    BY <1>0, <2>1, <2>2, <2>3 DEF BacklogFresh, Waiting
  <2>5. Accepted' /\ ThreadsRegistered' /\ RegisteredFdsOpen'
    BY <2>1, <2>2, <2>3 DEF Accepted, ThreadsRegistered, RegisteredFdsOpen
  <2>6. QED
    BY <2>4, <2>5 DEF FdInv
<1>7. CASE CloseServer
  <2>1. srv'.pc = "join" /\ backlog' = << >>
        /\ UNCHANGED <<clientFds, fdOpen, thr, owner>>
    BY <1>0, <1>7 DEF CloseServer, ServerStates, consoleVars
  <2>2. QED
    BY <2>1 DEF FdInv, BacklogFresh, Accepted, ThreadsRegistered,
                RegisteredFdsOpen
<1>8. QED
  BY <1>2, <1>3, <1>4, <1>5, <1>6, <1>7 DEF ServerThread

(* Every step keeps the registration of the connections.                     *)
LEMMA FdStep ==
    ASSUME SInv, Next
    PROVE  FdInv'
<1> USE DEF SInv, serverVars, consoleVars
<1>1. CASE Destroy
  <2>1. UNCHANGED <<srv, backlog, owner, clientFds, fdOpen>>
        /\ thr' = NotifyAll(thr) /\ thr \in [Connections -> ThreadStates]
    BY <1>1 DEF Destroy, TypeOK
  <2>2. QED
    BY <2>1, NotifyAllWakes, FdOtherStep
<1>2. ASSUME NEW c \in Connections, ReadHello(c)
      PROVE  FdInv'
  <2>1. /\ UNCHANGED <<srv, backlog, owner, clientFds, fdOpen>>
        /\ \A e \in Connections : thr'[e].pc = IF e = c THEN "check"
                                               ELSE thr[e].pc
        /\ thr[c].pc = "hello"
    BY <1>2 DEF ReadHello, TypeOK
  <2>2. QED
    BY <2>1, FdThreadStep
<1>3. ASSUME NEW c \in Connections,
             \/ HelloTimeout(c) \/ HelloEof(c) \/ WaitForDisplay(c)
             \/ EndStream(c)
      PROVE  FdInv'
  <2>1. PICK p \in ThreadPcs \ {"none", "close", "done"} :
            thr' = [thr EXCEPT ![c].pc = p]
    BY <1>3 DEF HelloTimeout, HelloEof, WaitForDisplay, EndStream, ThreadPcs
  <2>2. UNCHANGED <<srv, backlog, owner, clientFds, fdOpen>>
        /\ thr[c].pc # "none"
    BY <1>3 DEF HelloTimeout, HelloEof, WaitForDisplay, EndStream
  <2>3. \A e \in Connections : thr'[e].pc = IF e = c THEN p ELSE thr[e].pc
    BY <2>1, ThreadMoves
  <2>4. QED
    BY <2>1, <2>2, <2>3, FdThreadStep
<1>4. ASSUME NEW c \in Connections, NotifyWaiters(c)
      PROVE  FdInv'
  <2> DEFINE t == [thr EXCEPT ![c].pc = "erase"]
  <2>1. "erase" \in ThreadPcs
    BY DEF ThreadPcs
  <2>2. /\ t \in [Connections -> ThreadStates]
        /\ \A e \in Connections :
              t[e].pc = IF e = c THEN "erase" ELSE thr[e].pc
    BY <2>1, ThreadMoves
  <2>3. thr' = NotifyAll(t) /\ thr[c].pc = "notify"
        /\ UNCHANGED <<srv, backlog, owner, clientFds, fdOpen>>
    BY <1>4 DEF NotifyWaiters
  <2> HIDE DEF t
  <2>4. \A e \in Connections :
            thr'[e].pc = IF t[e].pc = "asleep" THEN "check" ELSE t[e].pc
    BY <2>2, <2>3, NotifyAllWakes
  <2>5. QED
    BY <2>2, <2>3, <2>4, FdThreadStep
<1>5. ASSUME NEW c \in Connections, EraseClientFd(c)
      PROVE  FdInv'
  <2>1. /\ thr' = [thr EXCEPT ![c].pc = "close"] /\ thr[c].pc = "erase"
        /\ UNCHANGED <<srv, backlog, owner, fdOpen>>
        /\ clientFds' = clientFds \ {c} /\ "close" \in ThreadPcs
    BY <1>5 DEF EraseClientFd, EraseOwn, ThreadPcs
  <2>2. \A e \in Connections : thr'[e].pc = IF e = c THEN "close"
                                            ELSE thr[e].pc
    BY <2>1, ThreadMoves
  <2>3. QED
    BY <2>1, <2>2, FdThreadStep
<1>6. ASSUME NEW c \in Connections, CloseClientFd(c)
      PROVE  FdInv'
  <2>1. /\ UNCHANGED <<srv, backlog, owner, clientFds>>
        /\ fdOpen' = fdOpen \ {c} /\ thr[c].pc = "close"
        /\ \A e \in Connections : thr'[e].pc = IF e = c THEN "done"
                                               ELSE thr[e].pc
    BY <1>6 DEF CloseClientFd, TypeOK
  <2>2. QED
    BY <2>1, FdThreadStep
<1>7. ASSUME NEW c \in Connections, ReadLateHello(c)
      PROVE  FdInv'
  BY <1>7, FdOtherStep DEF ReadLateHello
<1>8. ASSUME NEW k \in Consoles, Connect(k)
      PROVE  FdInv'
  <2> DEFINE c == Len(owner) + 1
  <2>1. /\ c \in Connections /\ Len(owner) \in Nat /\ c = Len(owner) + 1
        /\ Len(owner') = c
        /\ backlog \in Seq(Connections) /\ backlog' = Append(backlog, c)
        /\ UNCHANGED <<srv, clientFds, fdOpen, thr>>
    BY <1>8, SessionBoundsAssumption DEF Connect, TypeOK, Connections
  <2>2. /\ Len(backlog) \in Nat /\ Len(backlog') = Len(backlog) + 1
        /\ backlog'[Len(backlog) + 1] = c
        /\ \A i \in 1 .. Len(backlog) :
              backlog'[i] = backlog[i] /\ backlog[i] \in Connections
    BY <2>1
  <2> HIDE DEF c
  <2>3. thr[c].pc = "none" /\ c \notin clientFds /\ c \notin fdOpen
    BY <2>1 DEF ThreadsRegistered, RegisteredFdsOpen, TypeOK
  <2>4. \A i \in 1 .. Len(backlog) : backlog[i] <= Len(owner) /\ backlog[i] # c
    BY <2>1, <2>2, ConnectionFacts DEF BacklogFresh, Waiting
  <2>5. BacklogFresh'
    <3>1. ASSUME NEW i \in 1 .. Len(backlog')
          PROVE  /\ backlog'[i] <= Len(owner') /\ thr'[backlog'[i]].pc = "none"
                 /\ backlog'[i] \notin clientFds'
      <4>1. CASE i = Len(backlog) + 1
        BY <4>1, <2>1, <2>2, <2>3, ConnectionFacts
      <4>2. CASE i # Len(backlog) + 1
        <5>0. i \in 1 .. Len(backlog)
          BY <4>2, <2>2
        <5>1. backlog'[i] = backlog[i] /\ backlog[i] \in Nat
          BY <5>0, <2>2, ConnectionFacts
        <5>2. Waiting(backlog[i])
          BY <5>0 DEF BacklogFresh
        <5>3. QED
          BY <5>1, <5>2, <2>1 DEF Waiting
      <4>3. QED
        BY <4>1, <4>2
    <3>2. ASSUME NEW i \in 1 .. Len(backlog'), NEW j \in 1 .. Len(backlog'),
                 backlog'[i] = backlog'[j]
          PROVE  i = j
      BY <3>2, <2>2, <2>4 DEF BacklogFresh
    <3>3. QED
      BY <3>1, <3>2 DEF BacklogFresh, Waiting
  <2>6. Accepted'
    <3>1. ASSUME srv.pc \in {"accepted", "start"}
          PROVE  /\ srv.conn <= Len(owner')
                 /\ \A i \in 1 .. Len(backlog') : backlog'[i] # srv.conn
      <4>1. srv.conn \in fdOpen /\ srv.conn <= Len(owner)
            /\ \A i \in 1 .. Len(backlog) : backlog[i] # srv.conn
        BY <3>1 DEF Accepted
      <4>2. srv.conn \in Nat
        BY <4>1, ConnectionFacts DEF TypeOK
      <4>3. QED
        BY <4>1, <4>2, <2>1, <2>2, <2>3
    <3>2. QED
      BY <3>1, <2>1 DEF Accepted
  <2>7. ThreadsRegistered' /\ RegisteredFdsOpen'
    BY <2>1, ConnectionFacts DEF ThreadsRegistered, RegisteredFdsOpen
  <2>8. QED
    BY <2>5, <2>6, <2>7 DEF FdInv
<1>9. ASSUME NEW k \in Consoles, Console(k), ~Connect(k)
      PROVE  FdInv'
  <2>1. UNCHANGED <<srv, backlog, owner, clientFds, fdOpen, thr>>
    BY <1>9 DEF Console, SayHello, ProcessFrame, UpdateFrame, SourceEof,
       SourceFails, Disconnect, StopSource, Exit
  <2>2. QED
    BY <2>1, FdOtherStep
<1>10. QED
  BY <1>1, <1>2, <1>3, <1>4, <1>5, <1>6, <1>7, <1>8, <1>9, FdServerStep
  DEF Next, ClientThread, StreamEof, SendTimeout

(* Every step keeps: a connected source has a connection.                    *)
LEMMA SourceConnectedStep ==
    ASSUME SInv, Next
    PROVE  SourceConnected'
<1> USE DEF SInv, serverVars, consoleVars
<1>1. CASE src' = src
  BY <1>1 DEF SourceConnected
<1>2. ASSUME NEW k \in Consoles, NEW r \in SourceStates,
             src' = [src EXCEPT ![k] = r],
             r.pc \in {"greet", "connected"} => r.conn # NoConn
      PROVE  SourceConnected'
  BY <1>2 DEF SourceConnected, TypeOK
<1>3. ASSUME NEW k \in Consoles, Connect(k)
      PROVE  SourceConnected'
  <2> DEFINE r == [pc |-> "greet", conn |-> Len(owner) + 1]
  <2>1. Len(owner) + 1 \in Connections
    BY <1>3, SessionBoundsAssumption DEF Connect, TypeOK, Connections
  <2>2. r \in SourceStates /\ r.conn # NoConn
    BY <2>1, ConnectionFacts DEF SourceStates
  <2>3. QED
    BY <1>2, <1>3, <2>2 DEF Connect
<1>4. ASSUME NEW k \in Consoles, SayHello(k)
      PROVE  SourceConnected'
  <2> DEFINE r == [src[k] EXCEPT !.pc = "connected"]
  <2>1. src[k] \in SourceStates
    BY FieldTypes
  <2>2. r \in SourceStates /\ r.conn = src[k].conn
    BY <2>1 DEF SourceStates
  <2>3. src[k].conn # NoConn /\ src' = [src EXCEPT ![k] = r]
    BY <1>4 DEF SayHello, SourceConnected
  <2> HIDE DEF r
  <2>4. QED
    BY <1>2, <2>2, <2>3
<1>5. ASSUME NEW k \in Consoles,
             SourceEof(k) \/ SourceFails(k) \/ StopSource(k) \/ Exit(k)
      PROVE  SourceConnected'
  <2>1. PICK r \in {NoSource, [pc |-> "stopped", conn |-> NoConn]} :
            src' = [src EXCEPT ![k] = r]
    BY <1>5 DEF SourceEof, SourceFails, Disconnect, StopSource, Exit
  <2>2. r \in SourceStates /\ r.pc \notin {"greet", "connected"}
    BY DEF NoSource, SourceStates
  <2>3. QED
    BY <1>2, <2>1, <2>2
<1>6. ASSUME NEW k \in Consoles, ProcessFrame(k) \/ UpdateFrame(k)
      PROVE  SourceConnected'
  BY <1>1, <1>6 DEF ProcessFrame, UpdateFrame
<1>7. CASE ServerThread \/ Destroy
  BY <1>1, <1>7 DEF ServerThread, SetupServer, LeaveLoop, Accept,
     RegisterClient, StartClientThread, CloseServer, JoinClientThreads, Destroy
<1>8. ASSUME NEW c \in Connections, ClientThread(c) \/ SendTimeout(c)
      PROVE  SourceConnected'
  BY <1>1, <1>8 DEF ClientThread, SendTimeout, ReadHello, HelloTimeout,
     HelloEof, WaitForDisplay, ReadLateHello, StreamEof, EndStream,
     NotifyWaiters, EraseClientFd, CloseClientFd
<1>9. QED
  BY <1>3, <1>4, <1>5, <1>6, <1>7, <1>8 DEF Next, Console
-----------------------------------------------------------------------------
(* The inductive invariant holds initially.                                  *)
LEMMA InitSInv ==
    ASSUME Init
    PROVE  SInv
<1>1. NoThread \in ThreadStates /\ NoSource \in SourceStates
      /\ NoThread.pc = "none" /\ NoSource.pc = "idle"
  BY DisplaysAssumption
  DEF NoThread, NoSource, ThreadStates, ThreadPcs, SourceStates
<1>2. TypeOK
  <2>1. srv \in ServerStates
    BY DEF Init, ServerStates
  <2>2. backlog \in Seq(Connections) /\ owner \in Seq(Consoles)
    BY DEF Init
  <2>3. /\ thr \in [Connections -> ThreadStates]
        /\ clientOf \in [Displays -> Connections \cup {NoConn}]
        /\ hello \in [Connections -> {"unsent", "sent", "read"}]
    BY <1>1 DEF Init
  <2>4. src \in [Consoles -> SourceStates]
    BY <1>1 DEF Init
  <2>5. kept \in [Consoles -> SUBSET Connections]
    BY DEF Init
  <2>6. stopped \in BOOLEAN /\ clientFds = {} /\ threads = {} /\ fdOpen = {}
        /\ down = {}
    BY DEF Init
  <2>7. QED
    BY <2>1, <2>2, <2>3, <2>4, <2>5, <2>6 DEF TypeOK
<1>3. DisplayOwned /\ ThreadsRegistered /\ SourceConnected
  BY <1>1 DEF Init, DisplayOwned, ThreadsRegistered, SourceConnected
<1>4. BacklogFresh /\ Accepted /\ RegisteredFdsOpen
  BY DEF Init, BacklogFresh, Accepted, RegisteredFdsOpen
<1>5. QED
  BY <1>2, <1>3, <1>4 DEF SInv

(* SInv is an invariant of the connections, for every number of them.        *)
THEOREM SInvInvariant == Spec => []SInv
<1>1. Init => SInv
  BY InitSInv
<1>2. SInv /\ [Next]_vars => SInv'
  <2>1. ASSUME SInv, Next
        PROVE  SInv'
    BY <2>1, TypeStep, DisplayOwnedStep, FdStep, SourceConnectedStep
    DEF SInv, FdInv
  <2>2. ASSUME SInv, UNCHANGED vars
        PROVE  SInv'
    BY <2>2 DEF SInv, vars, TypeOK, DisplayOwned, BacklogFresh, Waiting,
       Accepted, ThreadsRegistered, SourceConnected, RegisteredFdsOpen
  <2>3. QED
    BY <2>1, <2>2
<1>3. QED
  BY <1>1, <1>2, PTL DEF Spec

(* The type invariant of ClientSessions.                                     *)
THEOREM SessionsTypeCorrect == Spec => []TypeOK
<1>1. SInv => TypeOK
  BY DEF SInv
<1>2. QED
  BY <1>1, SInvInvariant, PTL

(* Two client threads never stream the same display, whatever wakes them:    *)
(* the threads that stream are the displays' registered clients.             *)
THEOREM DisplaysHaveOneClient == Spec => []OneClientPerDisplay
<1>1. SInv => OneClientPerDisplay
  BY ConnectionFacts DEF SInv, DisplayOwned, OneClientPerDisplay
<1>2. QED
  BY <1>1, SInvInvariant, PTL

(* The destructor shuts down descriptors that are open: a client thread      *)
(* closes its descriptor after it has left client_fds_, and none is          *)
(* registered after that.                                                    *)
THEOREM DestructorShutsDownOpenFds == Spec => []RegisteredFdsOpen
<1>1. SInv => RegisteredFdsOpen
  BY DEF SInv
<1>2. QED
  BY <1>1, SInvInvariant, PTL
-----------------------------------------------------------------------------
(* A source that looks for the server has no connection.                     *)
SourceIdle == \A k \in Consoles : src[k].pc = "idle" => src[k].conn = NoConn

(* What ReleaseFailsOnceDisconnected needs to be inductive.                  *)
KeptInv == SInv /\ SourceIdle /\ ReleaseFailsOnceDisconnected

(* A thread that is done stays so, and nothing undoes a shutdown().          *)
LEMMA ClosedStays ==
    ASSUME SInv, Next, NEW c \in Connections, ServerClosed(c)
    PROVE  ServerClosed(c)'
<1>0. TypeOK /\ Accepted
  BY DEF SInv
<1>1. down \subseteq down'
  BY DEF Next, ServerThread, ClientThread, Console, SetupServer, LeaveLoop,
     Accept, RegisterClient, StartClientThread, CloseServer,
     JoinClientThreads, Destroy, ReadHello, HelloTimeout, HelloEof,
     WaitForDisplay, ReadLateHello, StreamEof, SendTimeout, EndStream,
     NotifyWaiters, EraseClientFd, CloseClientFd, Connect, SayHello,
     ProcessFrame, UpdateFrame, SourceEof, SourceFails, Disconnect,
     StopSource, Exit
<1>2. SUFFICES ASSUME thr[c].pc = "done"
               PROVE  thr'[c].pc = "done"
  BY <1>1 DEF ServerClosed
<1>3. CASE thr' = thr
  BY <1>2, <1>3
<1>4. CASE StartClientThread
  <2>1. srv.conn # c /\ srv.conn \in Connections
    <3>1. thr[srv.conn].pc = "none" /\ srv.conn \in fdOpen
      BY <1>0, <1>4 DEF StartClientThread, Accepted
    <3>2. QED
      BY <1>0, <1>2, <3>1 DEF TypeOK
  <2>2. thr' = [thr EXCEPT ![srv.conn].pc = "hello"]
    BY <1>4 DEF StartClientThread
  <2>3. QED
    BY <1>0, <1>2, <2>1, <2>2, ThreadMoves DEF ThreadPcs
<1>5. CASE Destroy
  <2>1. thr' = NotifyAll(thr) /\ thr \in [Connections -> ThreadStates]
    BY <1>0, <1>5 DEF Destroy, TypeOK
  <2>2. QED
    BY <1>2, <2>1, NotifyAllWakes
<1>6. ASSUME NEW e \in Connections, NEW p \in ThreadPcs,
             thr[e].pc # "done", thr' = [thr EXCEPT ![e].pc = p]
      PROVE  thr'[c].pc = "done"
  BY <1>0, <1>2, <1>6, ThreadMoves
<1>7. ASSUME NEW e \in Connections, ReadHello(e) \/ CloseClientFd(e)
      PROVE  thr'[c].pc = "done"
  BY <1>0, <1>2, <1>7 DEF ReadHello, CloseClientFd, TypeOK
<1>8. ASSUME NEW e \in Connections, NotifyWaiters(e)
      PROVE  thr'[c].pc = "done"
  <2> DEFINE t == [thr EXCEPT ![e].pc = "erase"]
  <2>1. t \in [Connections -> ThreadStates] /\ t[c].pc = "done"
    <3>1. e # c
      BY <1>2, <1>8 DEF NotifyWaiters
    <3>2. QED
      BY <1>0, <1>2, <3>1, ThreadMoves DEF ThreadPcs
  <2>2. thr' = NotifyAll(t)
    BY <1>8 DEF NotifyWaiters
  <2> HIDE DEF t
  <2>3. QED
    BY <2>1, <2>2, NotifyAllWakes
<1>9. ASSUME NEW e \in Connections,
             \/ HelloTimeout(e) \/ HelloEof(e) \/ WaitForDisplay(e)
             \/ EndStream(e) \/ EraseClientFd(e)
      PROVE  thr'[c].pc = "done"
  <2>1. /\ thr[e].pc # "done"
        /\ \E p \in ThreadPcs : thr' = [thr EXCEPT ![e].pc = p]
    BY <1>9 DEF HelloTimeout, HelloEof, WaitForDisplay, EndStream,
       EraseClientFd, ThreadPcs
  <2>2. QED
    BY <1>6, <2>1
<1>10. ASSUME NEW e \in Connections, ReadLateHello(e)
       PROVE  thr' = thr
  BY <1>10 DEF ReadLateHello
<1>11. ASSUME NEW k \in Consoles, Console(k)
       PROVE  thr' = thr
  BY <1>11 DEF Console, Connect, SayHello, ProcessFrame, UpdateFrame,
     SourceEof, SourceFails, Disconnect, StopSource, Exit
<1>12. CASE ServerThread /\ ~StartClientThread
  <2>1. thr' = thr
    BY <1>12 DEF ServerThread, SetupServer, LeaveLoop, Accept,
       RegisterClient, CloseServer, JoinClientThreads
  <2>2. QED
    BY <1>3, <2>1
<1>13. QED
  BY <1>3, <1>4, <1>5, <1>7, <1>8, <1>9, <1>10, <1>11, <1>12
  DEF Next, ClientThread, StreamEof, SendTimeout

(* Only Disconnect, a stop and an exit take a source off its connection, and *)
(* they leave it closed or nothing kept; a frame is kept only from the       *)
(* connection the source has.                                                *)
LEMMA KeptStep ==
    ASSUME KeptInv, Next, ~SourceErrors
    PROVE  SourceIdle' /\ ReleaseFailsOnceDisconnected'
<1>0. SInv /\ TypeOK /\ SourceIdle /\ ReleaseFailsOnceDisconnected
  BY DEF KeptInv, SInv
<1>1. \A c \in Connections : ServerClosed(c) => ServerClosed(c)'
  BY <1>0, ClosedStays
<1>2. src \in [Consoles -> SourceStates]
      /\ kept \in [Consoles -> SUBSET Connections]
      /\ NoConn \notin Connections
  BY <1>0, ConnectionFacts DEF TypeOK
<1>3. CASE src' = src /\ kept' = kept
  BY <1>0, <1>1, <1>2, <1>3 DEF SourceIdle, ReleaseFailsOnceDisconnected
<1>4. ASSUME NEW k \in Consoles, Console(k)
      PROVE  SourceIdle' /\ ReleaseFailsOnceDisconnected'
  <2>1. SUFFICES
          /\ \A j \in Consoles \ {k} : src'[j] = src[j] /\ kept'[j] = kept[j]
          /\ src'[k].pc = "idle" => src'[k].conn = NoConn
          /\ \A c \in kept'[k] :
                src'[k].conn # c =>
                    ServerClosed(c)' \/ (src[k].conn # c /\ c \in kept[k])
    BY <1>0, <1>1, <1>2 DEF SourceIdle, ReleaseFailsOnceDisconnected
  <2>2. CASE Connect(k)
    <3>1. src'[k].pc = "greet" /\ kept' = kept
          /\ \A j \in Consoles \ {k} : src'[j] = src[j]
      BY <1>2, <2>2 DEF Connect
    <3>2. src[k].conn = NoConn
      BY <1>0, <2>2 DEF Connect, SourceIdle
    <3>3. QED
      BY <1>2, <3>1, <3>2
  <2>3. CASE SayHello(k)
    <3>1. /\ src'[k].pc = "connected" /\ src'[k].conn = src[k].conn
          /\ kept' = kept /\ \A j \in Consoles \ {k} : src'[j] = src[j]
      BY <1>2, <2>3 DEF SayHello, SourceStates
    <3>2. QED
      BY <3>1
  <2>4. CASE ProcessFrame(k)
    <3>1. /\ src' = src /\ kept'[k] = kept[k] \cup {src[k].conn}
          /\ \A j \in Consoles \ {k} : kept'[j] = kept[j]
          /\ src[k].pc = "connected"
      BY <1>2, <2>4 DEF ProcessFrame
    <3>2. QED
      BY <3>1
  <2>5. CASE UpdateFrame(k)
    <3>1. /\ src' = src /\ kept'[k] \subseteq kept[k]
          /\ \A j \in Consoles \ {k} : kept'[j] = kept[j]
      BY <1>2, <2>5 DEF UpdateFrame
    <3>2. QED
      BY <1>0, <3>1 DEF SourceIdle
  <2>6. CASE SourceEof(k)
    <3>1. /\ src'[k] = NoSource /\ kept' = kept
          /\ \A j \in Consoles \ {k} : src'[j] = src[j]
          /\ ServerClosed(src[k].conn)
      BY <1>2, <2>6 DEF SourceEof, Disconnect
    <3>2. QED
      BY <1>1, <1>2, <3>1 DEF NoSource
  <2>7. CASE StopSource(k)
    <3>1. /\ src'[k] = [pc |-> "stopped", conn |-> NoConn] /\ kept' = kept
          /\ \A j \in Consoles \ {k} : src'[j] = src[j]
          /\ {src[k].conn} \ {NoConn} \subseteq down'
      BY <1>2, <2>7 DEF StopSource, StopShutsDown
    <3>2. QED
      BY <1>2, <3>1 DEF ServerClosed
  <2>8. CASE Exit(k)
    <3>1. /\ src'[k] = [pc |-> "stopped", conn |-> NoConn]
          /\ \A j \in Consoles \ {k} : src'[j] = src[j] /\ kept'[j] = kept[j]
          /\ kept'[k] = {}
      BY <1>2, <2>8 DEF Exit
    <3>2. QED
      BY <3>1
  <2>9. QED
    BY <1>4, <2>2, <2>3, <2>4, <2>5, <2>6, <2>7, <2>8 DEF Console, SourceFails
<1>5. CASE ServerThread \/ Destroy
  <2>1. src' = src /\ kept' = kept
    BY <1>5 DEF ServerThread, SetupServer, LeaveLoop, Accept, RegisterClient,
       StartClientThread, CloseServer, JoinClientThreads, Destroy,
       consoleVars
  <2>2. QED
    BY <1>3, <2>1
<1>6. ASSUME NEW c \in Connections, ClientThread(c) \/ SendTimeout(c)
      PROVE  src' = src /\ kept' = kept
  BY <1>6 DEF ClientThread, ReadHello, HelloTimeout, HelloEof,
     WaitForDisplay, ReadLateHello, StreamEof, SendTimeout, EndStream,
     NotifyWaiters, EraseClientFd, CloseClientFd, consoleVars
<1>7. QED
  BY <1>3, <1>4, <1>5, <1>6 DEF Next

(* Unless the console has an error of its own, a frame kept from a           *)
(* connection the source has dropped refers to one that is closed or shut    *)
(* down: sc_cf_free_slot and sc_cf_free_dma_buf fail there, for any number   *)
(* of consoles and connections.  With such errors it is not so, see          *)
(* sessions_abandoned.                                                       *)
THEOREM DroppedConnectionsAreClosed ==
    ASSUME ~SourceErrors
    PROVE  Spec => []ReleaseFailsOnceDisconnected
<1>1. Init => KeptInv
  <2> SUFFICES ASSUME Init
               PROVE  KeptInv
    OBVIOUS
  <2>1. SInv
    BY InitSInv
  <2>2. \A k \in Consoles : src[k] = NoSource /\ kept[k] = {}
    BY DEF Init
  <2>3. QED
    BY <2>1, <2>2 DEF KeptInv, SourceIdle, ReleaseFailsOnceDisconnected,
       NoSource
<1>2. KeptInv /\ SInv' /\ [Next]_vars => KeptInv'
  <2>1. ASSUME KeptInv, UNCHANGED vars
        PROVE  SourceIdle' /\ ReleaseFailsOnceDisconnected'
    BY <2>1 DEF vars, KeptInv, SourceIdle, ReleaseFailsOnceDisconnected,
       ServerClosed
  <2>2. QED
    BY <2>1, KeptStep DEF KeptInv
<1>3. KeptInv => ReleaseFailsOnceDisconnected
  BY DEF KeptInv
<1>4. QED
  BY <1>1, <1>2, <1>3, SInvInvariant, PTL DEF Spec

-----------------------------------------------------------------------------
(* The client threads implement the safety part of DisplayLock, and bind     *)
(* each client to the display of its hello.                                  *)

(* The connections that wait for a display in the threads t, and for which.  *)
Asks(t, c) == t[c].pc \in {"check", "asleep"}
WaitingIn(t) == {<<c, t[c].display>> : c \in {e \in Connections : Asks(t, e)}}

(* What is in WaitingIn(t).                                                  *)
LEMMA InWaiting ==
    ASSUME NEW t, NEW c \in Connections, NEW d
    PROVE  <<c, d>> \in WaitingIn(t) <=> Asks(t, c) /\ t[c].display = d
  BY DEF WaitingIn

(* Only pairs of a connection and a display are in WaitingIn(t).             *)
LEMMA WaitingPairs ==
    ASSUME NEW t, NEW p \in WaitingIn(t)
    PROVE  \E c \in Connections : Asks(t, c) /\ p = <<c, t[c].display>>
  BY DEF WaitingIn

(* Who waits for what does not change when those who wait stay the same.     *)
LEMMA SameWaiting ==
    ASSUME NEW t, NEW u,
           \A e \in Connections :
               /\ Asks(u, e) <=> Asks(t, e)
               /\ Asks(t, e) => u[e].display = t[e].display
    PROVE  WaitingIn(u) = WaitingIn(t)
<1>1. ASSUME NEW p \in WaitingIn(t)
      PROVE  p \in WaitingIn(u)
  <2>1. PICK c \in Connections : Asks(t, c) /\ p = <<c, t[c].display>>
    BY <1>1, WaitingPairs
  <2>2. QED
    BY <2>1, InWaiting
<1>2. ASSUME NEW p \in WaitingIn(u)
      PROVE  p \in WaitingIn(t)
  <2>1. PICK c \in Connections : Asks(u, c) /\ p = <<c, u[c].display>>
    BY <1>2, WaitingPairs
  <2>2. QED
    BY <2>1, InWaiting
<1>3. QED
  BY <1>1, <1>2

(* A client that begins to wait is the only difference to those who did.     *)
LEMMA OneMoreWaits ==
    ASSUME NEW t, NEW u, NEW c \in Connections, Asks(u, c), ~Asks(t, c),
           \A e \in Connections \ {c} : u[e] = t[e]
    PROVE  WaitingIn(u) = WaitingIn(t) \cup {<<c, u[c].display>>}
<1>1. ASSUME NEW p \in WaitingIn(t)
      PROVE  p \in WaitingIn(u)
  <2>1. PICK e \in Connections : Asks(t, e) /\ p = <<e, t[e].display>>
    BY <1>1, WaitingPairs
  <2>2. e # c /\ u[e] = t[e]
    BY <2>1
  <2>3. Asks(u, e) /\ u[e].display = t[e].display
    BY <2>1, <2>2 DEF Asks
  <2>4. QED
    BY <2>1, <2>3, InWaiting
<1>2. ASSUME NEW p \in WaitingIn(u), p # <<c, u[c].display>>
      PROVE  p \in WaitingIn(t)
  <2>1. PICK e \in Connections : Asks(u, e) /\ p = <<e, u[e].display>>
    BY <1>2, WaitingPairs
  <2>2. e # c /\ u[e] = t[e]
    BY <2>1, <1>2
  <2>3. Asks(t, e) /\ u[e].display = t[e].display
    BY <2>1, <2>2 DEF Asks
  <2>4. QED
    BY <2>1, <2>3, InWaiting
<1>3. <<c, u[c].display>> \in WaitingIn(u)
  BY InWaiting
<1>4. QED
  BY <1>1, <1>2, <1>3

(* The mapping of WaitingFor, before and after a step.                       *)
LEMMA WaitingOfThreads ==
    /\ WaitingFor = WaitingIn(thr)
    /\ WaitingFor' = WaitingIn(thr')
  BY DEF WaitingFor, WaitingIn, Asks
-----------------------------------------------------------------------------
(* A step after which the same clients wait and hold is a stutter of the     *)
(* lock.                                                                     *)
LEMMA StutterWhenSame ==
    ASSUME clientOf' = clientOf, WaitingIn(thr') = WaitingIn(thr)
    PROVE  UNCHANGED Lock!lockVars
  BY WaitingOfThreads DEF Lock!lockVars

(* The hello, or its timeout, is a client that asks for its display: it      *)
(* waits for none and holds none before.                                     *)
LEMMA HelloAsks ==
    ASSUME SInv, NEW c \in Connections, ReadHello(c) \/ HelloTimeout(c),
           TypeOK'
    PROVE  Lock!Next
<1> DEFINE d == thr'[c].display
<1>0. TypeOK /\ DisplayOwned
  BY DEF SInv
<1>1. thr[c].pc = "hello" /\ clientOf' = clientOf
  BY DEF ReadHello, HelloTimeout
<1>2. /\ thr'[c].pc = "check"
      /\ \A e \in Connections \ {c} : thr'[e] = thr[e]
  <2>1. thr \in [Connections -> ThreadStates] /\ thr[c] \in ThreadStates
    BY <1>0, FieldTypes DEF TypeOK
  <2>2. CASE ReadHello(c)
    BY <2>1, <2>2 DEF ReadHello
  <2>3. CASE HelloTimeout(c)
    BY <2>1, <2>3 DEF HelloTimeout, ThreadStates
  <2>4. QED
    BY <2>2, <2>3
<1>3. d \in Displays
  <2>1. thr' \in [Connections -> ThreadStates]
    BY DEF TypeOK
  <2>2. thr'[c] \in ThreadStates
    BY <2>1
  <2>3. QED
    BY <2>2 DEF ThreadStates
<1> HIDE DEF d
<1>4. Asks(thr', c) /\ ~Asks(thr, c)
  BY <1>1, <1>2 DEF Asks
<1>5. WaitingIn(thr') = WaitingIn(thr) \cup {<<c, d>>}
  BY <1>2, <1>4, OneMoreWaits DEF d
<1>6. Lock!Idle(c)
  <2>1. ASSUME NEW e \in Displays
        PROVE  <<c, e>> \notin WaitingFor /\ clientOf[e] # c
    <3>1. <<c, e>> \notin WaitingFor
      BY <1>4, InWaiting, WaitingOfThreads
    <3>2. clientOf[e] # c
      BY <1>0, <1>1, ConnectionFacts DEF DisplayOwned
    <3>3. QED
      BY <3>1, <3>2
  <2>2. QED
    BY <2>1 DEF Lock!Idle
<1>7. Lock!Ask(c, d)
  BY <1>1, <1>5, <1>6, WaitingOfThreads DEF Lock!Ask
<1>8. QED
  BY <1>3, <1>7 DEF Lock!Next

(* A client that looks at its display is let in, gives up or goes to sleep.  *)
LEMMA LookGrants ==
    ASSUME SInv, NEW c \in Connections, WaitForDisplay(c)
    PROVE  Lock!Next \/ UNCHANGED Lock!lockVars
<1> DEFINE d == thr[c].display
<1>0. TypeOK /\ d \in Displays /\ thr[c].pc = "check"
  BY FieldTypes DEF SInv, WaitForDisplay
<1>1. Asks(thr, c) /\ <<c, d>> \in WaitingFor
  BY <1>0, InWaiting, WaitingOfThreads DEF Asks
<1>2. ASSUME NEW p \in ThreadPcs, thr' = [thr EXCEPT ![c].pc = p]
      PROVE  \A e \in Connections :
                 /\ thr'[e].pc = IF e = c THEN p ELSE thr[e].pc
                 /\ thr'[e].display = thr[e].display
  BY <1>0, <1>2, ThreadMoves
<1>3. ASSUME NEW p \in {"erase", "stream"}, thr' = [thr EXCEPT ![c].pc = p]
      PROVE  WaitingFor' = WaitingFor \ {<<c, d>>}
  <2>1. p \in ThreadPcs
    BY DEF ThreadPcs
  <2>2. \A e \in Connections :
            /\ thr'[e].pc = IF e = c THEN p ELSE thr[e].pc
            /\ thr'[e].display = thr[e].display
    BY <1>2, <1>3, <2>1
  <2>3. ~Asks(thr', c)
    BY <2>2 DEF Asks
  <2>4. \A e \in Connections \ {c} : thr[e] = thr'[e]
    BY <1>0, <1>3 DEF TypeOK
  <2>5. WaitingIn(thr) = WaitingIn(thr') \cup {<<c, d>>}
    BY <1>1, <2>3, <2>4, OneMoreWaits
  <2>6. <<c, d>> \notin WaitingIn(thr')
    BY <2>3, InWaiting
  <2>7. QED
    BY <2>5, <2>6, WaitingOfThreads
<1>4. CASE thr' = [thr EXCEPT ![c].pc = "erase"] /\ clientOf' = clientOf
  <2>1. Lock!GiveUp(c, d)
    BY <1>1, <1>3, <1>4 DEF Lock!GiveUp
  <2>2. QED
    BY <1>0, <2>1 DEF Lock!Next
<1>5. CASE /\ DisplayIsFree(d)
           /\ thr' = [thr EXCEPT ![c].pc = "stream"]
           /\ clientOf' = [clientOf EXCEPT ![d] = c]
  <2>1. Lock!Grant(c, d)
    BY <1>1, <1>3, <1>5 DEF Lock!Grant, DisplayIsFree
  <2>2. QED
    BY <1>0, <2>1 DEF Lock!Next
<1>6. CASE thr' = [thr EXCEPT ![c].pc = "asleep"] /\ clientOf' = clientOf
  <2>1. \A e \in Connections :
            /\ thr'[e].pc = IF e = c THEN "asleep" ELSE thr[e].pc
            /\ thr'[e].display = thr[e].display
    BY <1>2, <1>6 DEF ThreadPcs
  <2>2. \A e \in Connections :
            /\ Asks(thr', e) <=> Asks(thr, e)
            /\ Asks(thr, e) => thr'[e].display = thr[e].display
    BY <1>0, <2>1 DEF Asks
  <2>3. WaitingIn(thr') = WaitingIn(thr)
    BY <2>2, SameWaiting
  <2>4. QED
    BY <1>6, <2>3, StutterWhenSame
<1>7. QED
  BY <1>4, <1>5, <1>6 DEF WaitForDisplay

(* The end of a stream is the release of its display.                        *)
LEMMA EndReleases ==
    ASSUME SInv, NEW c \in Connections, EndStream(c)
    PROVE  Lock!Next
<1> DEFINE d == thr[c].display
<1>0. TypeOK /\ d \in Displays /\ thr[c].pc = "stream"
  BY FieldTypes DEF SInv, EndStream
<1>1. clientOf[d] # NoConn
  BY <1>0, ConnectionFacts DEF SInv, DisplayOwned
<1>2. \A e \in Connections :
          /\ thr'[e].pc = IF e = c THEN "notify" ELSE thr[e].pc
          /\ thr'[e].display = thr[e].display
  BY <1>0, ThreadMoves DEF EndStream, ThreadPcs
<1>3. \A e \in Connections :
          /\ Asks(thr', e) <=> Asks(thr, e)
          /\ Asks(thr, e) => thr'[e].display = thr[e].display
  BY <1>0, <1>2 DEF Asks
<1>4. WaitingIn(thr') = WaitingIn(thr)
  BY <1>3, SameWaiting
<1>5. clientOf' = [clientOf EXCEPT ![d] = NoConn]
  BY DEF EndStream
<1> HIDE DEF d
<1>6. Lock!Release(d)
  BY <1>1, <1>4, <1>5, WaitingOfThreads DEF Lock!Release
<1>7. QED
  BY <1>0, <1>6 DEF Lock!Next

(* The other steps of a client thread are not seen by the lock: neither      *)
(* those of a client that left before its hello or is gone, nor the wakeup   *)
(* of the sleepers.                                                          *)
LEMMA OtherThreadSteps ==
    ASSUME SInv, NEW c \in Connections,
           \/ HelloEof(c) \/ ReadLateHello(c) \/ NotifyWaiters(c)
           \/ EraseClientFd(c) \/ CloseClientFd(c)
    PROVE  UNCHANGED Lock!lockVars
<1>0. TypeOK /\ clientOf' = clientOf
  BY DEF SInv, HelloEof, ReadLateHello, NotifyWaiters, EraseClientFd,
     CloseClientFd
<1>1. SUFFICES \A e \in Connections :
                   /\ Asks(thr', e) <=> Asks(thr, e)
                   /\ Asks(thr, e) => thr'[e].display = thr[e].display
  BY <1>0, SameWaiting, StutterWhenSame
<1>2. ASSUME HelloEof(c) \/ EraseClientFd(c)
      PROVE  \A e \in Connections :
                 /\ Asks(thr', e) <=> Asks(thr, e)
                 /\ Asks(thr, e) => thr'[e].display = thr[e].display
  <2>1. PICK p \in {"erase", "close"} : thr' = [thr EXCEPT ![c].pc = p]
    BY <1>2 DEF HelloEof, EraseClientFd
  <2>2. p \in ThreadPcs
    BY DEF ThreadPcs
  <2>3. thr[c].pc \in {"hello", "erase"}
    BY <1>2 DEF HelloEof, EraseClientFd
  <2>4. QED
    BY <1>0, <2>1, <2>2, <2>3, ThreadMoves DEF Asks
<1>3. ASSUME CloseClientFd(c)
      PROVE  \A e \in Connections :
                 /\ Asks(thr', e) <=> Asks(thr, e)
                 /\ Asks(thr, e) => thr'[e].display = thr[e].display
  BY <1>0, <1>3 DEF CloseClientFd, TypeOK, Asks
<1>4. ASSUME NotifyWaiters(c)
      PROVE  \A e \in Connections :
                 /\ Asks(thr', e) <=> Asks(thr, e)
                 /\ Asks(thr, e) => thr'[e].display = thr[e].display
  <2> DEFINE t == [thr EXCEPT ![c].pc = "erase"]
  <2>1. /\ t \in [Connections -> ThreadStates]
        /\ \A e \in Connections :
              /\ t[e].pc = IF e = c THEN "erase" ELSE thr[e].pc
              /\ t[e].display = thr[e].display
    BY <1>0, ThreadMoves DEF ThreadPcs
  <2>2. thr' = NotifyAll(t) /\ thr[c].pc = "notify"
    BY <1>4 DEF NotifyWaiters
  <2> HIDE DEF t
  <2>3. QED
    BY <2>1, <2>2, NotifyAllWakes DEF Asks
<1>5. ASSUME ReadLateHello(c)
      PROVE  \A e \in Connections :
                 /\ Asks(thr', e) <=> Asks(thr, e)
                 /\ Asks(thr, e) => thr'[e].display = thr[e].display
  BY <1>5 DEF ReadLateHello
<1>6. QED
  BY <1>2, <1>3, <1>4, <1>5

(* Nor does the lock see the server thread, the consoles and the destructor. *)
LEMMA OtherSteps ==
    ASSUME SInv,
           ServerThread \/ Destroy \/ (\E k \in Consoles : Console(k))
    PROVE  UNCHANGED Lock!lockVars
<1> USE DEF serverVars, consoleVars
<1>0. TypeOK
  BY DEF SInv
<1>1. CASE thr' = thr /\ clientOf' = clientOf
  BY <1>1, StutterWhenSame
<1>2. CASE StartClientThread
  <2>1. srv.conn \in Connections /\ thr[srv.conn].pc = "none"
    BY <1>2, FieldTypes DEF SInv, StartClientThread, Accepted, TypeOK
  <2>2. thr' = [thr EXCEPT ![srv.conn].pc = "hello"] /\ clientOf' = clientOf
    BY <1>2 DEF StartClientThread
  <2>3. \A e \in Connections :
            /\ thr'[e].pc = IF e = srv.conn THEN "hello" ELSE thr[e].pc
            /\ thr'[e].display = thr[e].display
    BY <1>0, <2>1, <2>2, ThreadMoves DEF ThreadPcs
  <2>4. WaitingIn(thr') = WaitingIn(thr)
    BY <2>1, <2>3, SameWaiting DEF Asks
  <2>5. QED
    BY <2>2, <2>4, StutterWhenSame
<1>3. CASE Destroy
  <2>1. thr' = NotifyAll(thr) /\ clientOf' = clientOf
        /\ thr \in [Connections -> ThreadStates]
    BY <1>0, <1>3 DEF Destroy, TypeOK
  <2>2. \A e \in Connections :
            /\ thr'[e].pc = IF thr[e].pc = "asleep" THEN "check"
                            ELSE thr[e].pc
            /\ thr'[e].display = thr[e].display
    BY <2>1, NotifyAllWakes
  <2>3. \A e \in Connections :
            /\ Asks(thr', e) <=> Asks(thr, e)
            /\ Asks(thr, e) => thr'[e].display = thr[e].display
    BY <2>2 DEF Asks
  <2>4. WaitingIn(thr') = WaitingIn(thr)
    BY <2>3, SameWaiting
  <2>5. QED
    BY <2>1, <2>4, StutterWhenSame
<1>4. CASE ServerThread
  BY <1>1, <1>2, <1>4 DEF ServerThread, SetupServer, LeaveLoop, Accept,
     RegisterClient, CloseServer, JoinClientThreads
<1>5. ASSUME NEW k \in Consoles, Console(k)
      PROVE  UNCHANGED Lock!lockVars
  BY <1>1, <1>5 DEF Console, Connect, SayHello, ProcessFrame, UpdateFrame,
     SourceEof, SourceFails, Disconnect, StopSource, Exit
<1>6. QED
  BY <1>3, <1>4, <1>5

(* The client threads, the condition variable and the destructor implement   *)
(* the lock of each display, its fairness aside: every step of theirs is a   *)
(* request, a grant, a withdrawal, a release, or nothing to the lock.        *)
THEOREM LockRefined == Spec => Lock!Spec
<1>1. Init => Lock!Init
  <2> SUFFICES ASSUME Init
               PROVE  Lock!Init
    OBVIOUS
  <2>2. \A c \in Connections : thr[c].pc = "none"
    BY DEF Init, NoThread
  <2>3. WaitingFor = {}
    BY <2>2 DEF WaitingFor
  <2>4. QED
    BY <2>3 DEF Init, Lock!Init
<1>2. SInv /\ TypeOK' /\ [Next]_vars => [Lock!Next]_(Lock!lockVars)
  <2>1. ASSUME SInv, UNCHANGED vars
        PROVE  UNCHANGED Lock!lockVars
    BY <2>1, StutterWhenSame DEF vars
  <2>2. ASSUME SInv, TypeOK', Next
        PROVE  Lock!Next \/ UNCHANGED Lock!lockVars
    BY <2>2, HelloAsks, LookGrants, EndReleases, OtherThreadSteps, OtherSteps
    DEF Next, ClientThread, StreamEof, SendTimeout
  <2>3. QED
    BY <2>1, <2>2
<1>3. SInv => TypeOK
  BY DEF SInv
<1>4. QED
  BY <1>1, <1>2, <1>3, SInvInvariant, PTL DEF Spec, Lock!Spec
-----------------------------------------------------------------------------
(* A client that waits after its hello was read waits for the display the    *)
(* hello named; one taken for a client of display 0 has not been read yet.   *)
HelloBinds ==
    \A c \in Connections :
        Asks(thr, c) /\ hello[c] = "read"
            => thr[c].display = DisplayOf[owner[c]]

BindsInv == SInv /\ HelloBinds

(* A step that lets nobody begin to wait, and changes no hello, keeps it.    *)
LEMMA BindsKept ==
    ASSUME BindsInv, hello' = hello,
           owner' = owner \/ (\E k : owner' = Append(owner, k)),
           \A c \in Connections :
               Asks(thr', c) => Asks(thr, c)
                                /\ thr'[c].display = thr[c].display
    PROVE  HelloBinds'
<1>1. TypeOK /\ ThreadsRegistered /\ HelloBinds
  BY DEF BindsInv, SInv
<1>2. ASSUME NEW c \in Connections, Asks(thr, c)
      PROVE  owner'[c] = owner[c]
  <2>1. c <= Len(owner) /\ c \in Nat /\ c >= 1 /\ owner \in Seq(Consoles)
    BY <1>1, <1>2, SessionBoundsAssumption
    DEF Asks, ThreadsRegistered, TypeOK, Connections
  <2>2. QED
    BY <2>1
<1>3. QED
  BY <1>1, <1>2 DEF HelloBinds, Asks

(* Every step keeps the displays of those who wait as their hellos said.     *)
LEMMA BindsStep ==
    ASSUME BindsInv, Next
    PROVE  HelloBinds'
<1> USE DEF serverVars, consoleVars
<1>0. SInv /\ TypeOK /\ HelloBinds
  BY DEF BindsInv, SInv
<1>1. ASSUME thr' = thr, hello' = hello,
             owner' = owner \/ (\E k : owner' = Append(owner, k))
      PROVE  HelloBinds'
  BY <1>1, BindsKept
<1>2. ASSUME NEW c \in Connections, NEW p \in ThreadPcs,
             thr' = [thr EXCEPT ![c].pc = p], hello' = hello, owner' = owner,
             p \in {"check", "asleep"} => Asks(thr, c) \/ hello[c] # "read"
      PROVE  HelloBinds'
  <2>1. \A e \in Connections :
            /\ thr'[e].pc = IF e = c THEN p ELSE thr[e].pc
            /\ thr'[e].display = thr[e].display
    BY <1>0, <1>2, ThreadMoves
  <2>2. QED
    BY <1>0, <1>2, <2>1 DEF HelloBinds, Asks
<1>3. CASE StartClientThread
  <2>1. srv.conn \in Connections /\ "hello" \in ThreadPcs
    BY <1>0, <1>3, FieldTypes
    DEF SInv, StartClientThread, Accepted, TypeOK, ThreadPcs
  <2>2. QED
    BY <1>2, <1>3, <2>1 DEF StartClientThread
<1>4. CASE ServerThread
  BY <1>1, <1>3, <1>4 DEF ServerThread, SetupServer, LeaveLoop, Accept,
     RegisterClient, CloseServer, JoinClientThreads
<1>5. CASE Destroy
  <2>1. thr' = NotifyAll(thr) /\ hello' = hello /\ owner' = owner
        /\ thr \in [Connections -> ThreadStates]
    BY <1>0, <1>5 DEF Destroy, TypeOK
  <2>2. QED
    BY <2>1, NotifyAllWakes, BindsKept DEF Asks
<1>6. ASSUME NEW c \in Connections, ReadHello(c)
      PROVE  HelloBinds'
  <2>1. /\ thr'[c].display = DisplayOf[owner[c]]
        /\ \A e \in Connections \ {c} :
              thr'[e] = thr[e] /\ hello'[e] = hello[e]
        /\ owner' = owner
    BY <1>0, <1>6 DEF ReadHello, DisplayOfHello, TypeOK
  <2>2. QED
    BY <1>0, <2>1 DEF HelloBinds, Asks
<1>7. ASSUME NEW c \in Connections,
             \/ HelloTimeout(c) \/ HelloEof(c) \/ WaitForDisplay(c)
             \/ EndStream(c) \/ EraseClientFd(c)
      PROVE  HelloBinds'
  <2>1. PICK p \in ThreadPcs :
            /\ thr' = [thr EXCEPT ![c].pc = p]
            /\ p \in {"check", "asleep"} => thr[c].pc = "check"
                                            \/ hello[c] # "read"
    BY <1>7 DEF HelloTimeout, HelloEof, WaitForDisplay, EndStream,
       EraseClientFd, ThreadPcs
  <2>2. hello' = hello /\ owner' = owner
    BY <1>7 DEF HelloTimeout, HelloEof, WaitForDisplay, EndStream,
       EraseClientFd
  <2>3. p \in {"check", "asleep"} => Asks(thr, c) \/ hello[c] # "read"
    BY <2>1 DEF Asks
  <2>4. QED
    BY <1>2, <2>1, <2>2, <2>3
<1>8. ASSUME NEW c \in Connections, ReadLateHello(c)
      PROVE  HelloBinds'
  <2>1. /\ thr' = thr /\ owner' = owner /\ ~Asks(thr, c)
        /\ \A e \in Connections \ {c} : hello'[e] = hello[e]
    BY <1>0, <1>8 DEF ReadLateHello, Asks, TypeOK
  <2>2. QED
    BY <1>0, <2>1 DEF HelloBinds
<1>9. ASSUME NEW c \in Connections, NotifyWaiters(c)
      PROVE  HelloBinds'
  <2> DEFINE t == [thr EXCEPT ![c].pc = "erase"]
  <2>1. /\ t \in [Connections -> ThreadStates]
        /\ \A e \in Connections :
              /\ t[e].pc = IF e = c THEN "erase" ELSE thr[e].pc
              /\ t[e].display = thr[e].display
    BY <1>0, ThreadMoves DEF ThreadPcs
  <2>2. thr' = NotifyAll(t) /\ thr[c].pc = "notify" /\ hello' = hello
        /\ owner' = owner
    BY <1>9 DEF NotifyWaiters
  <2> HIDE DEF t
  <2>3. \A e \in Connections :
            Asks(thr', e) => Asks(thr, e)
                             /\ thr'[e].display = thr[e].display
    BY <2>1, <2>2, NotifyAllWakes DEF Asks
  <2>4. QED
    BY <2>2, <2>3, BindsKept
<1>10. ASSUME NEW c \in Connections, CloseClientFd(c)
       PROVE  HelloBinds'
  <2>1. hello' = hello /\ owner' = owner
    BY <1>10 DEF CloseClientFd
  <2>2. \A e \in Connections :
            Asks(thr', e) => Asks(thr, e)
                             /\ thr'[e].display = thr[e].display
    BY <1>0, <1>10 DEF CloseClientFd, TypeOK, Asks
  <2>3. QED
    BY <2>1, <2>2, BindsKept
<1>11. ASSUME NEW k \in Consoles, SayHello(k)
       PROVE  HelloBinds'
  <2>1. /\ thr' = thr /\ owner' = owner
        /\ \A e \in Connections : hello'[e] = "read" => hello[e] = "read"
    BY <1>0, <1>11 DEF SayHello, TypeOK
  <2>2. QED
    BY <1>0, <2>1 DEF HelloBinds
<1>12. ASSUME NEW k \in Consoles, Console(k)
       PROVE  HelloBinds'
  BY <1>1, <1>11, <1>12 DEF Console, Connect, ProcessFrame, UpdateFrame,
     SourceEof, SourceFails, Disconnect, StopSource, Exit
<1>13. QED
  BY <1>4, <1>5, <1>6, <1>7, <1>8, <1>9, <1>10, <1>12
  DEF Next, ClientThread, StreamEof, SendTimeout

(* A client whose hello was read when it is let in gets the display it asked *)
(* for, for every number of consoles, displays and waiters.                  *)
THEOREM ClientsGetTheirDisplay == Spec => ServedItsDisplay
<1>1. Init => BindsInv
  <2> SUFFICES ASSUME Init
               PROVE  BindsInv
    OBVIOUS
  <2>1. SInv
    BY InitSInv
  <2>2. \A c \in Connections : hello[c] = "unsent"
    BY DEF Init
  <2>3. QED
    BY <2>1, <2>2 DEF BindsInv, HelloBinds
<1>2. BindsInv /\ SInv' /\ [Next]_vars => BindsInv'
  <2>1. ASSUME BindsInv, UNCHANGED vars
        PROVE  HelloBinds'
    BY <2>1 DEF vars, BindsInv, HelloBinds, Asks
  <2>2. QED
    BY <2>1, BindsStep DEF BindsInv
<1>3. BindsInv /\ [Next]_vars =>
        [\A c \in Connections :
            thr[c].pc # "stream" /\ thr'[c].pc = "stream" /\ hello[c] = "read"
                => clientOf'[DisplayOf[owner[c]]] = c]_vars
  <2>1. SUFFICES ASSUME BindsInv, Next, NEW c \in Connections,
                        thr[c].pc # "stream", thr'[c].pc = "stream",
                        hello[c] = "read"
                 PROVE  clientOf'[DisplayOf[owner[c]]] = c
    OBVIOUS
  <2>2. SInv /\ TypeOK /\ HelloBinds
    BY <2>1 DEF BindsInv, SInv
  <2>3. PICK e \in Connections : WaitForDisplay(e) \/ EndStream(e)
    BY <2>1, <2>2, QuietSteps DEF Quiet
  <2>4. PICK p \in ThreadPcs : thr' = [thr EXCEPT ![e].pc = p]
    BY <2>3 DEF WaitForDisplay, EndStream, ThreadPcs
  <2>5. e = c /\ p = "stream"
    BY <2>1, <2>2, <2>4, ThreadMoves
  <2>6. thr'[c].pc = "stream" /\ thr[c].display \in Displays
    BY <2>1, <2>2, FieldTypes
  <2>7. ~EndStream(c)
    BY <2>1 DEF EndStream
  <2>8. thr[c].pc = "check" /\ Asks(thr, c)
    BY <2>3, <2>5, <2>7 DEF WaitForDisplay, Asks
  <2>9. clientOf' = [clientOf EXCEPT ![thr[c].display] = c]
    <3>1. ASSUME NEW q \in {"erase", "asleep"}
          PROVE  thr' # [thr EXCEPT ![c].pc = q]
      <4>1. q \in ThreadPcs /\ q # "stream"
        BY DEF ThreadPcs
      <4>2. CASE thr' = [thr EXCEPT ![c].pc = q]
        <5>1. thr'[c].pc = IF c = c THEN q ELSE thr[c].pc
          BY <2>2, <4>1, <4>2, ThreadMoves
        <5>2. QED
          BY <2>6, <4>1, <5>1
      <4>3. QED
        BY <4>2
    <3>2. QED
      BY <2>3, <2>5, <2>7, <3>1 DEF WaitForDisplay
  <2>10. thr[c].display = DisplayOf[owner[c]]
    BY <2>1, <2>2, <2>8 DEF HelloBinds
  <2>11. QED
    BY <2>2, <2>6, <2>9, <2>10 DEF TypeOK
<1>4. QED
  BY <1>1, <1>2, <1>3, SInvInvariant, PTL DEF Spec, ServedItsDisplay
=============================================================================
