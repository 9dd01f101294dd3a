-------------------------- MODULE EventLoopProofs ---------------------------
(***************************************************************************)
(* Proofs about EventLoop, for any set of descriptors and any callbacks.   *)
(***************************************************************************)
EXTENDS EventLoop, FiniteSetTheorems, TLAPS

\* The handlers of the three kinds of descriptors are distinct.
LEMMA Kinds ==
  /\ Stop \notin EventFds /\ Stop \notin Sockets
  /\ Nobody \notin EventFds /\ Nobody \notin Handlers
  /\ EventFds \cap Sockets = {} /\ MayDrop \subseteq EventFds \cup Sockets
<1>1. Stop # Nobody
  BY DEF Stop, Nobody
<1> QED
  BY <1>1, LoopAssumption DEF Handlers, Counters

\* Deregistration takes one from the set and one from the count.
LEMMA DeregisterCounts ==
  ASSUME NEW h, registered \subseteq Handlers, n_events = Cardinality(registered), Deregister(h)
  PROVE  n_events' \in Nat /\ n_events' = Cardinality(registered')
<1>1. IsFiniteSet(registered)
  BY FS_Subset, LoopAssumption
<1>2. h \in registered /\ registered' = registered \ {h} /\ n_events' = n_events - 1
  BY DEF Deregister
<1>3. Cardinality(registered') = Cardinality(registered) - 1 /\ IsFiniteSet(registered')
  BY <1>1, <1>2, FS_RemoveElement
<1> QED
  BY <1>2, <1>3, FS_CardinalityType

IInv == TypeOK /\ EventCount /\ BatchIsLive

LEMMA IInvInit == Init => IInv
  BY Kinds, FS_EmptySet DEF Init, IInv, TypeOK, EventCount, BatchIsLive, Handlers

LEMMA IInvStep == IInv /\ [Next]_vars => IInv'
<1> SUFFICES ASSUME IInv, [Next]_vars PROVE IInv'
  OBVIOUS
<1>0. Stop \in Handlers
  BY DEF Handlers, Counters
<1> USE Kinds DEF IInv, TypeOK, EventCount, BatchIsLive
<1>1. ASSUME NEW h \in Handlers, Register(h) PROVE IInv'
  <2>1. IsFiniteSet(registered)
    BY FS_Subset, LoopAssumption
  <2>2. Cardinality(registered') = Cardinality(registered) + 1
    BY <1>1, <2>1, FS_AddElement DEF Register
  <2> QED
    BY <1>1, <2>2 DEF Register
<1>2. CASE SetupFails
  BY <1>2 DEF SetupFails
<1>3. CASE Start
  BY <1>0, <1>3 DEF Start
<1>4. ASSUME NEW h \in Handlers, DropInCallback(h) \/ TearDown(h) PROVE IInv'
  <2>1. Deregister(h)
    BY <1>4 DEF DropInCallback, TearDown
  <2>2. n_events' \in Nat /\ n_events' = Cardinality(registered')
    BY <2>1, DeregisterCounts
  <2>3. pc' \notin {"setup", "returned"} => Stop \in registered'
    BY <1>4, <2>1 DEF DropInCallback, TearDown, Deregister
  <2>4. /\ registered' \subseteq Handlers /\ readable' \subseteq Handlers
        /\ triggered' \subseteq Handlers
        /\ triggered' \subseteq registered' /\ triggered' \cap Counters \subseteq readable'
    BY <2>1 DEF Deregister
  <2> QED
    BY <1>4, <2>2, <2>3, <2>4 DEF DropInCallback, TearDown
<1>5. ASSUME NEW e \in EventFds, Set(e) PROVE IInv'
  BY <1>5 DEF Set, Handlers, Counters
<1>6. ASSUME NEW s \in Sockets, Arrive(s) PROVE IInv'
  BY <1>6 DEF Arrive, Handlers
<1>7. CASE RequestStop
  BY <1>7 DEF RequestStop
<1>8. CASE WakeForStop
  BY <1>0, <1>8 DEF WakeForStop
<1>9. CASE LoopTest
  BY <1>9 DEF LoopTest
<1>10. ASSUME NEW batch, EpollWait(batch) PROVE IInv'
  BY <1>10 DEF EpollWait
<1>11. CASE EpollInterrupted
  BY <1>11 DEF EpollInterrupted
<1>12. ASSUME NEW h \in triggered, Dispatch(h) PROVE IInv'
  BY <1>12 DEF Dispatch
<1>13. CASE Drain
  BY <1>13 DEF Drain, Counters
<1>14. CASE CallbackEnds
  BY <1>14 DEF CallbackEnds
<1>15. CASE BatchDone
  BY <1>15 DEF BatchDone
<1>16. CASE UNCHANGED vars
  BY <1>16 DEF vars
<1> QED
  BY <1>1, <1>2, <1>3, <1>4, <1>5, <1>6, <1>7, <1>8, <1>9, <1>10, <1>11, <1>12, <1>13, <1>14,
     <1>15, <1>16 DEF Next, SetupStep, LoopStep

THEOREM Invariance == Spec => []IInv
  BY IInvInit, IInvStep, PTL DEF Spec

-----------------------------------------------------------------------------
(* Every variable keeps its type; n_events_, a size_t, never underflows.   *)
THEOREM TypeCorrect == Spec => []TypeOK
<1>1. IInv => TypeOK
  BY DEF IInv
<1> QED
  BY <1>1, Invariance, PTL

(* n_events_ counts the registrations and stop_fd_ stays registered.       *)
THEOREM EventCountTheorem == Spec => []EventCount
<1>1. IInv => EventCount
  BY DEF IInv
<1> QED
  BY <1>1, Invariance, PTL

(* No callback deletes a context the batch still holds, and no eventfd is  *)
(* read while its counter is zero.                                         *)
THEOREM BatchIsLiveTheorem == Spec => []BatchIsLive
<1>1. IInv => BatchIsLive
  BY DEF IInv
<1> QED
  BY <1>1, Invariance, PTL

-----------------------------------------------------------------------------
(* The loop implements Signal: initial states map to initial states and    *)
(* every step to a step or a stutter.                                      *)

LEMMA PromiseInit == Init => Promise!Init
  BY Kinds DEF Init, Promise!Init

LEMMA PromiseStep == IInv /\ [Next]_vars => [Promise!Next]_Promise!vars
<1> SUFFICES ASSUME IInv, [Next]_vars PROVE [Promise!Next]_Promise!vars
  OBVIOUS
<1>0. pc # "callback" => current = Nobody
  BY DEF IInv, TypeOK
<1>1. ASSUME NEW h \in Handlers, Register(h) PROVE [Promise!Next]_Promise!vars
  <2>1. CASE h \in EventFds
    <3>1. Promise!Open({h})
      BY <1>1, <2>1 DEF Register, Promise!Open
    <3> QED
      BY <2>1, <3>1 DEF Promise!Next
  <2>2. CASE h \notin EventFds
    BY <1>1, <2>2 DEF Register, Promise!vars
  <2> QED
    BY <2>1, <2>2
<1>2. CASE SetupFails \/ EpollInterrupted
  <2>1. Promise!Return
    BY <1>0, <1>2, Kinds DEF SetupFails, EpollInterrupted, Promise!Return
  <2> QED
    BY <2>1 DEF Promise!Next
<1>3. CASE Start \/ RequestStop \/ BatchDone
  BY <1>3 DEF Start, RequestStop, BatchDone, Promise!vars
<1>4. ASSUME NEW h \in Handlers, DropInCallback(h) \/ TearDown(h)
      PROVE [Promise!Next]_Promise!vars
  <2>1. /\ Deregister(h) /\ UNCHANGED <<current, pc>>
    BY <1>4 DEF DropInCallback, TearDown
  <2>2. CASE h \in EventFds
    <3>1. Promise!Close({h})
      BY <2>1, <2>2 DEF Deregister, Promise!Close
    <3> QED
      BY <2>2, <3>1 DEF Promise!Next
  <2>3. CASE h \notin EventFds
    BY <2>1, <2>3 DEF Deregister, Promise!vars
  <2> QED
    BY <2>2, <2>3
<1>5. ASSUME NEW e \in EventFds, Set(e) PROVE [Promise!Next]_Promise!vars
  <2>1. Promise!Set(e)
    BY <1>5 DEF Set, Promise!Set
  <2> QED
    BY <2>1 DEF Promise!Next
<1>6. ASSUME NEW s \in Sockets, Arrive(s) PROVE [Promise!Next]_Promise!vars
  BY <1>6, Kinds DEF Arrive, Promise!vars
<1>7. CASE WakeForStop
  BY <1>7, Kinds DEF WakeForStop, Promise!vars
<1>8. CASE LoopTest
  <2>1. CASE pc' = "returned"
    <3>1. Promise!Return
      BY <1>0, <1>8, <2>1, Kinds DEF LoopTest, Promise!Return
    <3> QED
      BY <3>1 DEF Promise!Next
  <2>2. CASE pc' # "returned"
    BY <1>8, <2>2 DEF LoopTest, Promise!vars
  <2> QED
    BY <2>1, <2>2
<1>9. ASSUME NEW batch, EpollWait(batch) PROVE [Promise!Next]_Promise!vars
  BY <1>9 DEF EpollWait, Promise!vars
<1>10. ASSUME NEW h \in triggered, Dispatch(h) PROVE [Promise!Next]_Promise!vars
  <2>1. CASE h \in EventFds
    <3>1. Promise!Serve(h)
      BY <1>0, <1>10, <2>1, Kinds DEF Dispatch, Counters, Promise!Serve
    <3> QED
      BY <2>1, <3>1 DEF Promise!Next
  <2>2. CASE h \notin EventFds
    BY <1>0, <1>10, <2>2, Kinds DEF Dispatch, Promise!vars
  <2> QED
    BY <2>1, <2>2
<1>11. CASE Drain
  BY <1>11, Kinds DEF Drain, Promise!vars
<1>12. CASE CallbackEnds
  <2>1. CASE current \in EventFds
    <3>1. Promise!Done
      BY <1>12, <2>1, Kinds DEF CallbackEnds, Promise!Done
    <3> QED
      BY <3>1 DEF Promise!Next
  <2>2. CASE current \notin EventFds
    BY <1>12, <2>2, Kinds DEF CallbackEnds, Promise!vars
  <2> QED
    BY <2>1, <2>2
<1>13. CASE UNCHANGED vars
  BY <1>13 DEF vars, Promise!vars
<1> QED
  BY <1>1, <1>2, <1>3, <1>4, <1>5, <1>6, <1>7, <1>8, <1>9, <1>10, <1>11, <1>12, <1>13
     DEF Next, SetupStep, LoopStep

(* Whatever callbacks deregister and whenever the loop is stopped or       *)
(* interrupted: callbacks run only for events that were set, one at a      *)
(* time, and none after the loop returned.                                 *)
THEOREM ImplementsSignal == Spec => Promise!Spec
<1>1. Spec => Promise!Init
  BY PromiseInit DEF Spec
<1> QED
  BY <1>1, PromiseStep, Invariance, PTL DEF Spec, Promise!Spec
=============================================================================
