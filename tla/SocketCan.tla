----------------------------- MODULE SocketCan ------------------------------
(***************************************************************************)
(* SocketCanIntf on top of EventLoop: the life of the socket's descriptor, *)
(* the frames read from it and written to it.                              *)
(*                                                                         *)
(* socket_id_ is a number in a table all threads share: once the socket    *)
(* is closed, the next file any thread opens gets that number.  Frames are *)
(* written by the callbacks of the EpollEvents and, before and after the   *)
(* loop runs, by main; this module adds the socket to each of the loop's   *)
(* steps.  An error of the interface (down, gone) stays pending until a    *)
(* read returns it.                                                        *)
(*                                                                         *)
(* An operator whose name starts with "Bad" is the next definition with a  *)
(* bug in it; it stands in for that definition when a property is tested.  *)
(***************************************************************************)
EXTENDS EventLoop

CONSTANTS
  CAN,      \* the handler of the socket
  RxMax,    \* frames the socket's receive queue holds, a bound of the model
  Foreign   \* whether other threads open files

ASSUME SocketAssumption ==
  /\ Sockets = {CAN}
  /\ MayDrop = {}           \* the node's callbacks deregister nothing else
  /\ RxMax \in Nat \ {0}
  /\ Foreign \in BOOLEAN

VARIABLES
  file,     \* what the number in socket_id_ denotes
  broken,   \* broken_
  rx,       \* frames in the socket's receive queue
  err,      \* whether an error of the interface is pending
  mask,     \* the socket's entry in triggered_events_: its events
  phase,    \* where on_socket_event is
  sent      \* what the last send_can_frame returned and where it wrote

sockVars == <<file, broken, rx, err, mask, phase, sent>>
allVars  == <<vars, sockVars>>

-----------------------------------------------------------------------------
(* init and deinit.                                                        *)

\* socket, ioctl, bind, recvmsg, register_event.
Open ==
  /\ file = "none"
  /\ Register(CAN)
  /\ file' = "socket"
  /\ UNCHANGED <<broken, rx, err, mask, phase, sent>>

\* One of them fails; what was opened is closed, and main returns.
OpenFails ==
  /\ file = "none"
  /\ SetupFails
  /\ file' = "closed"
  /\ UNCHANGED <<broken, rx, err, mask, phase, sent>>

\* The EpollEvents and stop_fd_.
RegisterEvent(h) ==
  /\ h # CAN /\ (h = Stop \/ file = "socket")
  /\ Register(h)
  /\ UNCHANGED sockVars

StartLoop == Start /\ UNCHANGED sockVars

\* close(socket_id_): whatever the number denotes by now is closed.
CloseFd == file' = "closed"

\* The descriptor is closed but not deregistered.
BadDeinit ==
  /\ UNCHANGED <<registered, n_events, readable, triggered>>
  /\ CloseFd
  /\ broken' = TRUE
  /\ UNCHANGED <<rx, err, mask, sent>>

\* broken_ is not set: the second deinit, and whatever asks, see no failure.
BadBroken ==
  /\ IF CAN \in registered THEN Deregister(CAN)
     ELSE UNCHANGED <<registered, n_events, readable, triggered>>
  /\ CloseFd
  /\ UNCHANGED <<broken, rx, err, mask, sent>>

Deinit ==
  /\ IF broken THEN UNCHANGED <<registered, n_events, readable, triggered>>
               ELSE Deregister(CAN)
  /\ CloseFd
  /\ broken' = TRUE
  /\ UNCHANGED <<rx, err, mask, sent>>

\* The node's deinit, after join: first the EpollEvents ...
TearDownEvent(e) == TearDown(e) /\ UNCHANGED sockVars

\* ... and then the socket.
TearDownSocket ==
  /\ pc = "returned" /\ file # "none" /\ registered \cap EventFds = {}
  /\ phase = "none"
  /\ Deinit
  /\ phase' = "down"
  /\ UNCHANGED <<current, stopping, pc>>

-----------------------------------------------------------------------------
(* send_can_frame.                                                         *)

\* Where a write may land, and what it returns.
Written ==
  CASE file = "socket"  -> [ok : BOOLEAN, to : {"socket"}]
    [] file = "foreign" -> [ok : BOOLEAN, to : {"foreign"}]
    [] OTHER            -> [ok : {FALSE}, to : {"nowhere"}]

\* From the callback of an EpollEvent; or from main, for the startup and the
\* shutdown frames.
Send ==
  /\ \/ pc = "callback" /\ current \in EventFds
     \/ pc = "setup" /\ registered = Handlers
     \/ pc = "returned" /\ EventFds \subseteq registered /\ file # "none"
  /\ sent' \in Written
  /\ UNCHANGED <<vars, file, broken, rx, err, mask, phase>>

-----------------------------------------------------------------------------
(* The CAN interface and other threads.                                    *)

FrameReceived ==
  /\ file = "socket" /\ rx < RxMax
  /\ rx' = rx + 1
  /\ Arrive(CAN)
  /\ UNCHANGED <<file, broken, err, mask, phase, sent>>

\* The interface goes down or away.
InterfaceFails ==
  /\ file = "socket"
  /\ err' = TRUE
  /\ Arrive(CAN)
  /\ UNCHANGED <<file, broken, rx, mask, phase, sent>>

\* Another thread of the process opens a file, or closes it.
ForeignOpens ==
  /\ Foreign /\ file = "closed"
  /\ file' = "foreign"
  /\ UNCHANGED <<vars, broken, rx, err, mask, phase, sent>>

ForeignCloses ==
  /\ file = "foreign"
  /\ file' = "closed"
  /\ UNCHANGED <<vars, broken, rx, err, mask, phase, sent>>

\* EpollEvent::set and request_stop.
OtherThreads ==
  /\ \/ \E e \in EventFds : Set(e)
     \/ RequestStop
     \/ WakeForStop
  /\ UNCHANGED sockVars

-----------------------------------------------------------------------------
(* The loop, and on_socket_event.                                          *)

\* The events of the socket are those of the moment epoll_wait returns.
Wait ==
  /\ \E batch \in SUBSET (registered \cap readable) : EpollWait(batch)
  /\ mask' = (IF rx > 0 THEN {"in"} ELSE {}) \cup (IF err THEN {"err"} ELSE {})
  /\ UNCHANGED <<file, broken, rx, err, phase, sent>>

\* The loop calls a handler; on_socket_event reads only on EPOLLIN.
Call(h) ==
  /\ Dispatch(h)
  /\ phase' = IF h # CAN THEN "none" ELSE IF "in" \in mask THEN "read" ELSE "check"
  /\ UNCHANGED <<file, broken, rx, err, mask, sent>>

\* EPOLLET: only an arrival is reported.
BadSocketReadable(ready) == readable' = readable \ {CAN}

\* What epoll reports of the socket from now on.
SocketReadable(ready) ==
  readable' = IF ready THEN readable \cup {CAN} ELSE readable \ {CAN}

\* read_nonblocking takes a frame, or a short read, and goes on.
ReadFrame ==
  /\ pc = "callback" /\ phase = "read" /\ ~err /\ rx > 0
  /\ rx' = rx - 1
  /\ SocketReadable(rx' > 0)
  /\ UNCHANGED <<registered, n_events, triggered, current, stopping, pc>>
  /\ UNCHANGED <<file, broken, err, mask, phase, sent>>

\* recvmsg fails: with EAGAIN, or with the pending error, which it clears.
ReadFails ==
  /\ pc = "callback" /\ phase = "read" /\ (err \/ rx = 0)
  /\ err' = FALSE
  /\ SocketReadable(rx > 0)
  /\ phase' = "check"
  /\ UNCHANGED <<registered, n_events, triggered, current, stopping, pc>>
  /\ UNCHANGED <<file, broken, rx, mask, sent>>

\* The callback does not return: it waits for the interface to come back.
BadInterfaceGone ==
  /\ pc = "callback" /\ phase = "check" /\ "err" \in mask /\ ~broken
  /\ Deinit
  /\ UNCHANGED <<phase, current, stopping, pc>>

\* The mask had EPOLLERR, or something unexpected: the socket is given up.
InterfaceGone ==
  /\ pc = "callback" /\ phase = "check" /\ "err" \in mask
  /\ Deinit
  /\ phase' = "none"
  /\ UNCHANGED <<current, stopping, pc>>

NoError ==
  /\ pc = "callback" /\ phase = "check" /\ "err" \notin mask
  /\ phase' = "none"
  /\ UNCHANGED <<vars, file, broken, rx, err, mask, sent>>

Return ==
  /\ phase = "none"
  /\ CallbackEnds
  /\ UNCHANGED sockVars

\* A loop without a socket is taken to be empty and never tests the stop.
BadLoopOnly ==
  /\ BatchDone \/ (LoopTest /\ CAN \in registered)
  /\ UNCHANGED sockVars

LoopOnly == (LoopTest \/ BatchDone) /\ UNCHANGED sockVars

WaitInterrupted == EpollInterrupted /\ UNCHANGED sockVars

CanThread ==
  \/ LoopOnly
  \/ Wait
  \/ \E h \in triggered : Call(h)
  \/ ReadFrame
  \/ ReadFails
  \/ InterfaceGone
  \/ NoError
  \/ Return

SetupSteps ==
  \/ Open
  \/ OpenFails
  \/ \E h \in Handlers : RegisterEvent(h)
  \/ StartLoop

SocketInit ==
  /\ Init
  /\ file = "none" /\ broken = FALSE /\ rx = 0 /\ err = FALSE
  /\ mask = {} /\ phase = "none"
  /\ sent = [ok |-> FALSE, to |-> "nowhere"]

SocketNext ==
  \/ SetupSteps
  \/ CanThread
  \/ WaitInterrupted
  \/ Send
  \/ \E e \in EventFds : TearDownEvent(e)
  \/ TearDownSocket
  \/ FrameReceived
  \/ InterfaceFails
  \/ ForeignOpens
  \/ ForeignCloses
  \/ OtherThreads

SocketSpec == SocketInit /\ [][SocketNext]_allVars

\* As in EventLoop; and the read loop ends, for the bus is slower than it.
SocketFairness ==
  /\ WF_allVars(SetupSteps)
  /\ WF_allVars(CanThread)
  /\ []<>(phase # "read")
  /\ WF_allVars(WakeForStop /\ UNCHANGED sockVars)

SocketFairSpec == SocketSpec /\ SocketFairness

-----------------------------------------------------------------------------
(* Properties.                                                             *)

\* Every variable has its type.
SocketTypeOK ==
  /\ TypeOK
  /\ file \in {"none", "socket", "closed", "foreign"}
  /\ broken \in BOOLEAN /\ err \in BOOLEAN
  /\ rx \in 0..RxMax
  /\ mask \subseteq {"in", "err"}
  /\ phase \in {"none", "read", "check", "down"}
  /\ phase = "read" => current = CAN
  /\ sent \in [ok : BOOLEAN, to : {"socket", "foreign", "nowhere"}]

\* epoll watches socket_id_ exactly as long as it is the socket: it is never
\* asked about a number that was closed or denotes another file by now.  And
\* broken_ tells that the context is deleted, so that the deinit of shutdown
\* does not deregister it after that of on_socket_event.
WatchesOnlySocket ==
  /\ CAN \in registered <=> file = "socket"
  /\ pc \notin {"setup", "returned"} => (broken <=> CAN \notin registered)

\* Until the interface fails, what is written goes to the bus.
HealthySendsReachSocket ==
  [][sent' # sent /\ ~broken => sent'.to = "socket"]_allVars

\* A frame in the receive queue is not forgotten, although a pending error
\* may end the read loop early: it is read at the next epoll_wait, unless
\* the interface was given up or the loop ends.
FramesAreRead ==
  rx > 0 ~> phase = "read" \/ broken \/ pc = "returned"

\* The loop outlives the socket: EpollEvents are served as promised and
\* request_stop ends it.
LoopOutlivesSocket == Promise!FairSpec

\* socket_can.hpp:28 of send_can_frame: "Returns false on write failure".
SendReportsFailure == sent.ok => sent.to = "socket"
=============================================================================
