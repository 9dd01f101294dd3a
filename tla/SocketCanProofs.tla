-------------------------- MODULE SocketCanProofs ---------------------------
(***************************************************************************)
(* The life of the socket's descriptor, for any events, any length of the  *)
(* receive queue and whatever files other threads open and close.          *)
(*                                                                         *)
(* Most steps of SocketCan are steps of EventLoop with the socket added,   *)
(* so EventLoop's invariant carries over; on_socket_event's are not, and   *)
(* are treated one by one.  The invariant ties broken_, the number in      *)
(* socket_id_ and the interest list together.                              *)
(***************************************************************************)
EXTENDS SocketCan, EventLoopProofs

\* The descriptor was closed, by a deinit that said so, or never opened.
Descriptor ==
  /\ broken => file \in {"closed", "foreign"}
  /\ file = "none" => pc \in {"setup", "returned"} /\ registered \subseteq {Stop}
  /\ file \in {"closed", "foreign"} /\ ~broken => pc = "returned" /\ registered \subseteq {Stop}

SocketIInv ==
  /\ IInv
  /\ SocketTypeOK
  /\ WatchesOnlySocket
  /\ Descriptor

LEMMA CanKind == CAN \in Handlers /\ CAN # Stop /\ CAN \notin Counters /\ CAN \notin EventFds
<1>1. CAN \in Sockets
  BY SocketAssumption
<1> QED
  BY <1>1, Kinds DEF Handlers, Counters

\* A loop that goes on, and a batch that is dispatched, are EventLoop's.
LoopActs ==
  \/ \E h \in Handlers : Register(h)
  \/ SetupFails \/ Start \/ LoopTest \/ BatchDone \/ EpollInterrupted
  \/ \E batch \in SUBSET (registered \cap readable) : EpollWait(batch)
  \/ \E h \in triggered : Dispatch(h)
  \/ CallbackEnds
  \/ \E e \in EventFds : TearDown(e) \/ Set(e)
  \/ Arrive(CAN) \/ RequestStop \/ WakeForStop
  \/ UNCHANGED vars

LEMMA LoopActsKeep == IInv /\ LoopActs => IInv'
<1> SUFFICES ASSUME IInv, LoopActs PROVE IInv'
  OBVIOUS
<1>1. EventFds \subseteq Handlers /\ CAN \in Sockets
  BY SocketAssumption DEF Handlers, Counters
<1>2. [Next]_vars
  BY <1>1 DEF LoopActs, Next, SetupStep, LoopStep
<1> QED
  BY <1>2, IInvStep

\* Deregistering the socket leaves the loop in order.
LEMMA DropSocket ==
  ASSUME IInv, Deregister(CAN), UNCHANGED <<current, stopping, pc>>
  PROVE  IInv'
<1> USE Kinds, CanKind DEF IInv, TypeOK, EventCount, BatchIsLive
<1>1. n_events' \in Nat /\ n_events' = Cardinality(registered')
  BY DeregisterCounts
<1>2. /\ registered' = registered \ {CAN} /\ readable' = readable \ {CAN}
      /\ triggered' = triggered \ {CAN}
  BY DEF Deregister
<1> QED
  BY <1>1, <1>2

\* Reading a frame changes at most whether the socket is readable.
LEMMA ReadKeeps ==
  ASSUME IInv, NEW ready, SocketReadable(ready),
         UNCHANGED <<registered, n_events, triggered, current, stopping, pc>>
  PROVE  IInv'
  BY CanKind DEF IInv, TypeOK, EventCount, BatchIsLive, SocketReadable

LEMMA SocketIInvInit == SocketInit => SocketIInv
<1> SUFFICES ASSUME SocketInit PROVE SocketIInv
  OBVIOUS
<1>1. IInv
  BY IInvInit DEF SocketInit
<1>2. rx \in 0..RxMax
  BY SocketAssumption DEF SocketInit
<1> QED
  BY <1>1, <1>2 DEF SocketInit, Init, SocketIInv, IInv, SocketTypeOK, WatchesOnlySocket, Descriptor

LEMMA SocketIInvStep == SocketIInv /\ [SocketNext]_allVars => SocketIInv'
<1> SUFFICES ASSUME SocketIInv, [SocketNext]_allVars PROVE SocketIInv'
  OBVIOUS
<1> USE CanKind DEF SocketIInv, SocketTypeOK, WatchesOnlySocket, Descriptor, sockVars
<1>1. CASE Open
  <2>1. Register(CAN)
    BY <1>1 DEF Open
  <2>2. IInv'
    BY <2>1, LoopActsKeep DEF LoopActs
  <2> QED
    BY <1>1, <2>1, <2>2 DEF Open, Register, IInv
<1>2. CASE OpenFails
  <2>1. IInv'
    BY <1>2, LoopActsKeep DEF LoopActs, OpenFails
  <2> QED
    BY <1>2, <2>1 DEF OpenFails, SetupFails, IInv
<1>3. ASSUME NEW h \in Handlers, RegisterEvent(h) PROVE SocketIInv'
  <2>1. IInv'
    BY <1>3, LoopActsKeep DEF LoopActs, RegisterEvent
  <2> QED
    BY <1>3, <2>1 DEF RegisterEvent, Register, IInv
<1>4. CASE StartLoop
  <2>1. IInv'
    BY <1>4, LoopActsKeep DEF LoopActs, StartLoop
  <2> QED
    BY <1>4, <2>1 DEF StartLoop, Start, IInv
<1>5. CASE LoopOnly \/ WaitInterrupted
  <2>1. IInv'
    BY <1>5, LoopActsKeep DEF LoopActs, LoopOnly, WaitInterrupted
  <2>2. CASE LoopTest /\ UNCHANGED sockVars
    BY <2>1, <2>2 DEF LoopTest, IInv
  <2>3. CASE (BatchDone \/ EpollInterrupted) /\ UNCHANGED sockVars
    BY <2>1, <2>3 DEF BatchDone, EpollInterrupted, IInv
  <2> QED
    BY <1>5, <2>2, <2>3 DEF LoopOnly, WaitInterrupted
<1>6. CASE Wait
  <2>1. IInv'
    BY <1>6, LoopActsKeep DEF LoopActs, Wait
  <2>2. mask' \subseteq {"in", "err"}
    BY <1>6 DEF Wait
  <2> QED
    BY <1>6, <2>1, <2>2 DEF Wait, EpollWait, IInv
<1>7. ASSUME NEW h \in triggered, Call(h) PROVE SocketIInv'
  <2>1. IInv'
    BY <1>7, LoopActsKeep DEF LoopActs, Call
  <2> QED
    BY <1>7, <2>1 DEF Call, Dispatch, IInv
<1>8. CASE ReadFrame
  <2>1. IInv'
    BY <1>8, ReadKeeps DEF ReadFrame
  <2>2. rx' \in 0..RxMax
    BY <1>8, SocketAssumption DEF ReadFrame
  <2> QED
    BY <1>8, <2>1, <2>2 DEF ReadFrame, IInv
<1>9. CASE ReadFails
  <2>1. IInv'
    BY <1>9, ReadKeeps DEF ReadFails
  <2> QED
    BY <1>9, <2>1 DEF ReadFails, IInv
<1>10. CASE InterfaceGone \/ TearDownSocket
  <2>1. Deinit /\ UNCHANGED <<current, stopping, pc>> /\ phase' \in {"none", "down"}
    BY <1>10 DEF InterfaceGone, TearDownSocket
  <2>2. CASE broken
    <3>1. UNCHANGED vars
      BY <2>1, <2>2 DEF Deinit, vars
    <3>2. IInv'
      BY <3>1, LoopActsKeep DEF LoopActs
    <3> QED
      BY <2>1, <2>2, <3>1, <3>2 DEF Deinit, CloseFd, vars, IInv
  <2>3. CASE ~broken
    <3>1. Deregister(CAN)
      BY <2>1, <2>3 DEF Deinit
    <3>2. IInv'
      BY <2>1, <3>1, DropSocket
    <3> QED
      BY <2>1, <2>3, <3>1, <3>2 DEF Deinit, CloseFd, Deregister, IInv
  <2> QED
    BY <2>2, <2>3
<1>11. CASE NoError \/ Send \/ ForeignOpens \/ ForeignCloses
  <2>1. UNCHANGED vars
    BY <1>11 DEF NoError, Send, ForeignOpens, ForeignCloses
  <2>2. IInv'
    BY <2>1, LoopActsKeep DEF LoopActs
  <2>3. sent' \in [ok : BOOLEAN, to : {"socket", "foreign", "nowhere"}]
    BY <1>11 DEF NoError, Send, ForeignOpens, ForeignCloses, Written
  <2>4. /\ broken' = broken /\ err' = err /\ rx' = rx /\ mask' = mask
        /\ registered' = registered /\ pc' = pc /\ current' = current
    BY <1>11, <2>1 DEF NoError, Send, ForeignOpens, ForeignCloses, vars
  <2>5. /\ file' = file \/ (file \in {"closed", "foreign"} /\ file' \in {"closed", "foreign"})
        /\ phase' \in {phase, "none"}
    BY <1>11 DEF NoError, Send, ForeignOpens, ForeignCloses
  <2>6. SocketTypeOK'
    <3>1. broken' \in BOOLEAN /\ err' \in BOOLEAN
      BY <2>4, Zenon
    <3> QED
      BY <2>2, <2>3, <2>4, <2>5, <3>1 DEF IInv
  <2>7. WatchesOnlySocket' /\ Descriptor'
    BY <2>4, <2>5
  <2> QED
    BY <2>2, <2>6, <2>7
<1>12. CASE Return
  <2>1. IInv'
    BY <1>12, LoopActsKeep DEF LoopActs, Return
  <2> QED
    BY <1>12, <2>1 DEF Return, CallbackEnds, IInv
<1>13. ASSUME NEW e \in EventFds, TearDownEvent(e) PROVE SocketIInv'
  <2>1. IInv'
    BY <1>13, LoopActsKeep DEF LoopActs, TearDownEvent
  <2> QED
    BY <1>13, <2>1 DEF TearDownEvent, TearDown, Deregister, IInv
<1>14. CASE FrameReceived \/ InterfaceFails
  <2>1. Arrive(CAN)
    BY <1>14 DEF FrameReceived, InterfaceFails
  <2>2. IInv'
    BY <2>1, LoopActsKeep DEF LoopActs
  <2>3. rx' \in 0..RxMax
    BY <1>14, SocketAssumption DEF FrameReceived, InterfaceFails
  <2>4. /\ broken' = broken /\ file' = file /\ mask' = mask /\ phase' = phase
        /\ sent' = sent /\ (err' = err \/ err' = TRUE)
    BY <1>14 DEF FrameReceived, InterfaceFails
  <2>5. registered' = registered /\ pc' = pc /\ current' = current
    BY <2>1 DEF Arrive
  <2>6. SocketTypeOK'
    <3>1. broken' \in BOOLEAN /\ err' \in BOOLEAN
      BY <2>4, Zenon
    <3> QED
      BY <2>2, <2>3, <2>4, <2>5, <3>1 DEF IInv
  <2>7. WatchesOnlySocket' /\ Descriptor'
    BY <2>4, <2>5
  <2> QED
    BY <2>2, <2>6, <2>7
<1>15. CASE OtherThreads
  <2>1. IInv'
    BY <1>15, LoopActsKeep DEF LoopActs, OtherThreads
  <2>2. UNCHANGED <<registered, current, pc>> /\ UNCHANGED sockVars
    BY <1>15 DEF OtherThreads, Set, RequestStop, WakeForStop
  <2>3. /\ broken' = broken /\ err' = err /\ rx' = rx /\ mask' = mask /\ sent' = sent
        /\ file' = file /\ phase' = phase
    BY <2>2
  <2>4. SocketTypeOK'
    <3>1. broken' \in BOOLEAN /\ err' \in BOOLEAN
      BY <2>3, Zenon
    <3> QED
      BY <2>1, <2>2, <2>3, <3>1 DEF IInv
  <2>5. WatchesOnlySocket' /\ Descriptor'
    BY <2>2, <2>3
  <2> QED
    BY <2>1, <2>4, <2>5
<1>16. CASE UNCHANGED allVars
  <2>1. UNCHANGED vars
    BY <1>16 DEF allVars
  <2>2. IInv'
    BY <2>1, LoopActsKeep DEF LoopActs
  <2> QED
    BY <1>16, <2>2 DEF allVars, vars, IInv
<1> QED
  BY <1>1, <1>2, <1>3, <1>4, <1>5, <1>6, <1>7, <1>8, <1>9, <1>10, <1>11, <1>12, <1>13, <1>14,
     <1>15, <1>16 DEF SocketNext, SetupSteps, CanThread

LEMMA SocketInvariance == SocketSpec => []SocketIInv
  BY SocketIInvInit, SocketIInvStep, PTL DEF SocketSpec

-----------------------------------------------------------------------------
(* Every variable of the loop and of the socket keeps its type.            *)
THEOREM SocketTypeCorrect == SocketSpec => []SocketTypeOK
<1>1. SocketIInv => SocketTypeOK
  BY DEF SocketIInv
<1> QED
  BY <1>1, SocketInvariance, PTL

(* epoll is never left watching a descriptor that was closed, or that      *)
(* another thread's file got, however often deinit runs.                   *)
THEOREM WatchesTheorem == SocketSpec => []WatchesOnlySocket
<1>1. SocketIInv => WatchesOnlySocket
  BY DEF SocketIInv
<1> QED
  BY <1>1, SocketInvariance, PTL

(* While broken_ is not set, a frame is written to the bus and to nothing  *)
(* else.  The node has EpollEvents, so that frames are sent only once they *)
(* and the socket were set up.                                             *)
THEOREM HealthySendsTheorem ==
  ASSUME EventFds # {} PROVE SocketSpec => HealthySendsReachSocket
<1>1. SocketIInv /\ [SocketNext]_allVars => [sent' # sent /\ ~broken => sent'.to = "socket"]_allVars
  <2> SUFFICES ASSUME SocketIInv, [SocketNext]_allVars, sent' # sent, ~broken
               PROVE  sent'.to = "socket"
    OBVIOUS
  <2>1. Send
    BY DEF allVars, sockVars, SocketNext, SetupSteps, CanThread, Open, OpenFails, RegisterEvent,
       StartLoop, LoopOnly, Wait, Call, ReadFrame, ReadFails, InterfaceGone, NoError, Return,
       WaitInterrupted, TearDownEvent, TearDownSocket, Deinit, FrameReceived, InterfaceFails,
       ForeignOpens, ForeignCloses, OtherThreads
  <2>2. file = "socket"
    <3> USE CanKind, Kinds DEF SocketIInv, Descriptor, SocketTypeOK
    <3>1. CASE pc = "callback"
      BY <3>1
    <3>2. CASE pc = "setup" /\ registered = Handlers
      BY <3>2
    <3>3. CASE pc = "returned" /\ EventFds \subseteq registered /\ file # "none"
      BY <3>3
    <3> QED
      BY <2>1, <3>1, <3>2, <3>3 DEF Send
  <2> QED
    BY <2>1, <2>2 DEF Send, Written
<1> QED
  BY <1>1, SocketInvariance, PTL DEF SocketSpec, HealthySendsReachSocket
-----------------------------------------------------------------------------
(* The loop with its socket implements Signal.                             *)

\* What the socket's handler and the node's deinit do to the loop: nothing
\* that an EpollEvent notices.
OwnSteps ==
  /\ UNCHANGED <<current, pc>>
  /\ registered' \in {registered, registered \ {CAN}}
  /\ readable' \in {readable, readable \cup {CAN}, readable \ {CAN}}

LEMMA StepsOfTheLoop ==
  ASSUME SocketIInv, [SocketNext]_allVars
  PROVE  LoopActs \/ OwnSteps
<1>1. CASE SetupSteps
  BY <1>1, CanKind DEF SetupSteps, Open, OpenFails, RegisterEvent, StartLoop, LoopActs
<1>2. CASE LoopOnly \/ WaitInterrupted \/ Wait \/ Return
  BY <1>2 DEF LoopOnly, WaitInterrupted, Wait, Return, LoopActs
<1>3. ASSUME NEW h \in triggered, Call(h) PROVE LoopActs
  BY <1>3 DEF Call, LoopActs
<1>4. CASE ReadFrame \/ ReadFails
  BY <1>4 DEF ReadFrame, ReadFails, SocketReadable, OwnSteps
<1>5. CASE InterfaceGone \/ TearDownSocket
  BY <1>5 DEF InterfaceGone, TearDownSocket, Deinit, Deregister, OwnSteps
<1>6. CASE NoError \/ Send \/ ForeignOpens \/ ForeignCloses
  BY <1>6 DEF NoError, Send, ForeignOpens, ForeignCloses, LoopActs
<1>7. ASSUME NEW e \in EventFds, TearDownEvent(e) PROVE LoopActs
  BY <1>7 DEF TearDownEvent, LoopActs
<1>8. CASE FrameReceived \/ InterfaceFails \/ OtherThreads
  BY <1>8 DEF FrameReceived, InterfaceFails, OtherThreads, LoopActs
<1>9. CASE UNCHANGED allVars
  BY <1>9 DEF allVars, LoopActs
<1> QED BY <1>1, <1>2, <1>3, <1>4, <1>5, <1>6, <1>7, <1>8, <1>9 DEF SocketNext, CanThread

LEMMA SocketPromiseStep ==
  ASSUME SocketIInv, [SocketNext]_allVars
  PROVE  [Promise!Next]_Promise!vars
<1>1. CASE LoopActs
  <2>1. EventFds \subseteq Handlers /\ CAN \in Sockets
    BY SocketAssumption DEF Handlers, Counters
  <2>2. [Next]_vars
    BY <1>1, <2>1 DEF LoopActs, Next, SetupStep, LoopStep
  <2> QED BY <2>2, PromiseStep DEF SocketIInv
<1>2. CASE OwnSteps
  BY <1>2, CanKind DEF OwnSteps, Promise!vars
<1> QED BY <1>1, <1>2, StepsOfTheLoop

(* The EpollEvents are served as promised, one at a time, after their set  *)
(* and not after the loop returned, whatever becomes of the socket whose   *)
(* handler runs on the same loop and closes it: LoopOutlivesSocket without *)
(* its fairness.                                                           *)
THEOREM SocketImplementsSignal == SocketSpec => Promise!Spec
<1>1. SocketInit => Promise!Init
  BY PromiseInit DEF SocketInit
<1>2. SocketIInv /\ [SocketNext]_allVars => [Promise!Next]_Promise!vars
  BY SocketPromiseStep
<1> QED BY <1>1, <1>2, SocketInvariance, PTL DEF SocketSpec, Promise!Spec

=============================================================================
