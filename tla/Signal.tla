------------------------------- MODULE Signal -------------------------------
(***************************************************************************)
(* What EpollEvent promises (epoll_event_loop.hpp): set(), called on any   *)
(* thread, makes the one thread that runs the loop call the callback, and  *)
(* the call begins after the set().  Several set() may share a call; calls *)
(* never overlap; nothing is called after the loop has returned or the     *)
(* event was closed.                                                       *)
(***************************************************************************)

CONSTANTS
  Events,   \* the events
  Nobody    \* serving no event

VARIABLES
  live,     \* events that are registered
  pending,  \* events that were set and not yet served
  serving,  \* the event whose callback runs, or Nobody
  running   \* whether the loop runs or will run

vars == <<live, pending, serving, running>>

\* Events are set up and closed one by one or together.
Open(es) ==
  /\ live' = live \cup es
  /\ UNCHANGED <<pending, serving, running>>

Close(es) ==
  /\ live' = live \ es
  /\ pending' = pending \ es
  /\ UNCHANGED <<serving, running>>

Set(e) ==
  /\ e \in live
  /\ pending' = pending \cup {e}
  /\ UNCHANGED <<live, serving, running>>

Serve(e) ==
  /\ running /\ serving = Nobody /\ e \in pending
  /\ pending' = pending \ {e}
  /\ serving' = e
  /\ UNCHANGED <<live, running>>

Done ==
  /\ serving # Nobody
  /\ serving' = Nobody
  /\ UNCHANGED <<live, pending, running>>

Return ==
  /\ serving = Nobody
  /\ running' = FALSE
  /\ UNCHANGED <<live, pending, serving>>

Init ==
  /\ live = {} /\ pending = {} /\ serving = Nobody /\ running = TRUE

Next ==
  \/ \E es \in SUBSET Events : Open(es) \/ Close(es)
  \/ \E e \in Events : Set(e) \/ Serve(e)
  \/ Done
  \/ Return

Spec == Init /\ [][Next]_vars

\* Every event that was set is served, unless the loop returns or the event
\* is closed.
FairSpec ==
  /\ Spec
  /\ WF_vars(Done)
  /\ \A e \in Events : SF_vars(Serve(e))
=============================================================================
