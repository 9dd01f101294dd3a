----------------------------- MODULE EventLoop ------------------------------
(***************************************************************************)
(* EpollEventLoop and EpollEvent: registration of descriptors, batches of  *)
(* triggered events, deregistration from within a callback, request_stop.  *)
(*                                                                         *)
(* Threads: main sets the loop up, asks it to stop and takes it down; the  *)
(* CAN thread runs run_until_empty; any thread calls EpollEvent::set.      *)
(* A handler stands for its descriptor and its EventContext.  An eventfd   *)
(* is readable while its counter is not zero, and a read resets it.        *)
(*                                                                         *)
(* An operator whose name starts with "Bad" is the next definition with a  *)
(* bug in it; it stands in for that definition when a property is tested.  *)
(***************************************************************************)
EXTENDS Integers, FiniteSets

CONSTANTS
  EventFds,  \* the EpollEvents
  Sockets,   \* handlers of other descriptors
  BatchMax,  \* kMaxEventsPerIteration
  MayDrop    \* handlers that callbacks may deregister

Stop     == "stop"     \* the handler of stop_fd_
Nobody   == "nobody"
Counters == EventFds \cup {Stop}
Handlers == Counters \cup Sockets

ASSUME LoopAssumption ==
  /\ {Stop, Nobody} \cap (EventFds \cup Sockets) = {}
  /\ EventFds \cap Sockets = {}
  /\ IsFiniteSet(Handlers)
  /\ BatchMax \in Nat \ {0}
  /\ MayDrop \subseteq EventFds \cup Sockets

VARIABLES
  registered,      \* descriptors in the interest list, with their contexts
  n_events,        \* n_events_
  readable,        \* descriptors that are readable
  triggered,       \* entries of triggered_events_ still to be dispatched, but
                   \* for those that were set to nullptr
  current,         \* the handler whose callback runs
  stopping,        \* request_stop: not called, flag set, stop_fd_ written
  pc               \* where the loop is

vars == <<registered, n_events, readable, triggered, current, stopping, pc>>

stop_requested == stopping # "no"   \* stop_requested_

-----------------------------------------------------------------------------
(* Set-up and tear-down.                                                   *)

Register(h) ==
  /\ pc = "setup" /\ h \notin registered
  /\ registered' = registered \cup {h}
  /\ n_events' = n_events + 1
  /\ UNCHANGED <<readable, triggered, current, stopping, pc>>

\* An eventfd or its registration fails: main returns, the loop never runs.
SetupFails ==
  /\ pc = "setup"
  /\ pc' = "returned"
  /\ UNCHANGED <<registered, n_events, readable, triggered, current, stopping>>

Start ==
  /\ pc = "setup" /\ registered = Handlers
  /\ pc' = "test"
  /\ UNCHANGED <<registered, n_events, readable, triggered, current, stopping>>

\* drop_event is not called: the batch keeps the deleted context.
BadDropEvent(h) ==
  /\ h \in registered
  /\ registered' = registered \ {h}
  /\ n_events' = n_events - 1
  /\ readable' = readable \ {h}
  /\ UNCHANGED triggered

\* The count is not decremented.
BadCount(h) ==
  /\ h \in registered
  /\ registered' = registered \ {h}
  /\ readable' = readable \ {h}
  /\ triggered' = triggered \ {h}
  /\ UNCHANGED n_events

\* The descriptor leaves the interest list, the batch forgets the context
\* (drop_event), and the caller closes the descriptor.
Deregister(h) ==
  /\ h \in registered
  /\ registered' = registered \ {h}
  /\ n_events' = n_events - 1
  /\ readable' = readable \ {h}
  /\ triggered' = triggered \ {h}

\* A callback deregisters a handler, perhaps its own.
DropInCallback(h) ==
  /\ pc = "callback" /\ h \in MayDrop
  /\ Deregister(h)
  /\ UNCHANGED <<current, stopping, pc>>

\* deinit() of the node, after the loop's thread was joined.
TearDown(h) ==
  /\ pc = "returned" /\ h # Stop
  /\ Deregister(h)
  /\ UNCHANGED <<current, stopping, pc>>

-----------------------------------------------------------------------------
(* The other threads, and the outside.                                     *)

\* EpollEvent::set: the counter is incremented.
Set(e) ==
  /\ e \in registered
  /\ readable' = readable \cup {e}
  /\ UNCHANGED <<registered, n_events, triggered, current, stopping, pc>>

\* Something arrives on a socket.
Arrive(s) ==
  /\ s \in registered
  /\ readable' = readable \cup {s}
  /\ UNCHANGED <<registered, n_events, triggered, current, stopping, pc>>

\* request_stop stores the flag, then writes stop_fd_.
RequestStop ==
  /\ pc # "setup" /\ stopping = "no"
  /\ stopping' = "flag"
  /\ UNCHANGED <<registered, n_events, readable, triggered, current, pc>>

WakeForStop ==
  /\ stopping = "flag"
  /\ stopping' = "written"
  /\ readable' = readable \cup {Stop}
  /\ UNCHANGED <<registered, n_events, triggered, current, pc>>

-----------------------------------------------------------------------------
(* run_until_empty.                                                        *)

LoopTest ==
  /\ pc = "test"
  /\ pc' = IF n_events = 0 \/ stop_requested THEN "returned" ELSE "wait"
  /\ UNCHANGED <<registered, n_events, readable, triggered, current, stopping>>

\* epoll_wait returns up to BatchMax of the readable descriptors.
EpollWait(batch) ==
  /\ pc = "wait"
  /\ batch # {} /\ batch \subseteq registered \cap readable
  /\ Cardinality(batch) <= BatchMax
  /\ batch = registered \cap readable \/ Cardinality(batch) = BatchMax
  /\ triggered' = batch
  /\ pc' = "dispatch"
  /\ UNCHANGED <<registered, n_events, readable, current, stopping>>

\* epoll_wait returns -1: a signal handler ran on this thread, or the process
\* was stopped and continued.
EpollInterrupted ==
  /\ pc = "wait"
  /\ pc' = "returned"
  /\ UNCHANGED <<registered, n_events, readable, triggered, current, stopping>>

\* The counter is not read: the eventfd stays readable.
BadDispatch(h) ==
  /\ pc = "dispatch" /\ h \in triggered
  /\ triggered' = triggered \ {h}
  /\ current' = h
  /\ pc' = "callback"
  /\ UNCHANGED <<registered, n_events, readable, stopping>>

\* The next context of the batch is called; an eventfd's handler reads the
\* counter first, which would block if it were zero.
Dispatch(h) ==
  /\ pc = "dispatch" /\ h \in triggered
  /\ h \in Counters => h \in readable
  /\ readable' = readable \ ({h} \cap Counters)
  /\ triggered' = triggered \ {h}
  /\ current' = h
  /\ pc' = "callback"
  /\ UNCHANGED <<registered, n_events, stopping>>

\* A socket's callback reads what is there; more may come before it ends.
Drain ==
  /\ pc = "callback" /\ current \in Sockets
  /\ readable' = readable \ {current}
  /\ UNCHANGED <<registered, n_events, triggered, current, stopping, pc>>

CallbackEnds ==
  /\ pc = "callback"
  /\ current' = Nobody
  /\ pc' = "dispatch"
  /\ UNCHANGED <<registered, n_events, readable, triggered, stopping>>

BatchDone ==
  /\ pc = "dispatch" /\ triggered = {}
  /\ pc' = "test"
  /\ UNCHANGED <<registered, n_events, readable, triggered, current, stopping>>

-----------------------------------------------------------------------------
Init ==
  /\ registered = {}
  /\ n_events = 0
  /\ readable = {}
  /\ triggered = {}
  /\ current = Nobody
  /\ stopping = "no"
  /\ pc = "setup"

SetupStep ==
  \/ \E h \in Handlers : Register(h)
  \/ SetupFails
  \/ Start

LoopStep ==
  \/ LoopTest
  \/ \E batch \in SUBSET (registered \cap readable) : EpollWait(batch)
  \/ \E h \in triggered : Dispatch(h)
  \/ CallbackEnds
  \/ BatchDone

Next ==
  \/ SetupStep
  \/ LoopStep
  \/ EpollInterrupted
  \/ \E h \in Handlers : DropInCallback(h) \/ TearDown(h)
  \/ \E e \in EventFds : Set(e)
  \/ \E s \in Sockets : Arrive(s)
  \/ Drain
  \/ RequestStop
  \/ WakeForStop

Spec == Init /\ [][Next]_vars

EpollWaitReturns(h) ==
  \E batch \in SUBSET (registered \cap readable) : h \in batch /\ EpollWait(batch)

\* Set-up, the loop, its callbacks and request_stop run on.  The kernel
\* rotates its list of ready descriptors, so that a batch that has no room
\* for all of them leaves none out for ever.
Fairness ==
  /\ WF_vars(SetupStep)
  /\ WF_vars(LoopStep)
  /\ \A h \in Handlers : SF_vars(EpollWaitReturns(h))
  /\ WF_vars(WakeForStop)

FairSpec == Spec /\ Fairness

-----------------------------------------------------------------------------
(* Properties.                                                             *)

\* Every variable has its type.
TypeOK ==
  /\ registered \subseteq Handlers
  /\ n_events \in Nat
  /\ readable \subseteq Handlers
  /\ triggered \subseteq Handlers
  /\ current \in Handlers \cup {Nobody}
  /\ (current = Nobody) <=> (pc # "callback")
  /\ stopping \in {"no", "flag", "written"}
  /\ pc \in {"setup", "test", "wait", "dispatch", "callback", "returned"}

\* Whatever callbacks deregister, the rest of the batch holds no context that
\* was deleted, and no eventfd whose counter is zero: reading one would block
\* the loop for ever.
BatchIsLive ==
  /\ triggered \subseteq registered
  /\ triggered \cap Counters \subseteq readable

\* n_events_, which the loop's exit depends on, counts the registrations,
\* also when a handler was deregistered by a callback or is deregistered
\* again; stop_fd_ stays among them, so that request_stop can wake the loop.
EventCount ==
  /\ n_events = Cardinality(registered)
  /\ pc \notin {"setup", "returned"} => Stop \in registered

\* request_stop ends the loop, and with it the join in main.
StopReturns == stop_requested ~> pc = "returned"

\* EpollEvent keeps its promise.
Promise == INSTANCE Signal WITH
  Events  <- EventFds,
  live    <- registered \cap EventFds,
  pending <- readable \cap EventFds,
  serving <- IF current \in EventFds THEN current ELSE Nobody,
  running <- pc # "returned"

SignalKept == Promise!FairSpec
=============================================================================
