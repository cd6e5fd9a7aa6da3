-------------------------- MODULE MainThreadQueue --------------------------
(***************************************************************************)
(* The queue that carries transfer events from the worker thread to the    *)
(* game's main thread: class MainThreadQueue (src/main_thread_queue.h,     *)
(* src/main_thread_queue.cpp).  Post reads m_enabled before it takes the   *)
(* lock, so it is two steps here; Drain and SetEnabled are one each.       *)
(*                                                                         *)
(* The worker calls Post in the middle of larger operations.  What is left *)
(* to post of the operation it is in is in outbox, in the order of the     *)
(* calls; the worker does nothing else until outbox is empty.  m_hasEvents *)
(* is written under the same lock as m_events and is true exactly when     *)
(* that is not empty.                                                      *)
(***************************************************************************)
EXTENDS Sequences

VARIABLES
  events,    \* m_events
  enabled,   \* m_enabled
  outbox,    \* the events the worker's current operation still has to post
  checked    \* the worker is in Post for Head(outbox) and found m_enabled set

queueVars == <<events, enabled, outbox, checked>>

QueueInit ==
  /\ events = <<>>
  /\ enabled = TRUE
  /\ outbox = <<>>
  /\ checked = FALSE

\* The worker has finished posting and can go on.
Posted == outbox = <<>>

\* Seeded fault: Post waits for a disabled queue to be enabled again.
PostCheckWaits ==
  /\ ~Posted
  /\ ~checked
  /\ enabled
  /\ checked' = TRUE
  /\ UNCHANGED <<outbox, events, enabled>>

\* Post, first step: an event for a disabled queue is thrown away.
PostCheck ==
  /\ ~Posted
  /\ ~checked
  /\ checked' = enabled
  /\ outbox' = IF enabled THEN outbox ELSE Tail(outbox)
  /\ UNCHANGED <<events, enabled>>

\* Post, second step, under the lock.
PostPush ==
  /\ checked
  /\ events' = Append(events, Head(outbox))
  /\ outbox' = Tail(outbox)
  /\ checked' = FALSE
  /\ UNCHANGED enabled

HasEvents == events # <<>>

\* Drain hands the whole queue to the caller; what the caller does with it is
\* the caller's action.
Drain == events' = <<>>

SetEnabled(value) == enabled' = value
============================================================================
