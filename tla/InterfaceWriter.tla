-------------------------- MODULE InterfaceWriter --------------------------
(***************************************************************************)
(* The outbound path of one interface: the writer actors of                *)
(* interface_writer.rs (a thread draining a bounded channel), the global   *)
(* WRITERS registry, and Transport's register_outbound_handler,            *)
(* unregister_outbound_handler and dispatch_outbound, which touch WRITERS  *)
(* and OUTBOUND_HANDLERS under two separate locks.                         *)
(*                                                                         *)
(* Every frame is dispatched by a thread of its own, so that the lookup of *)
(* the handle and the enqueue interleave with everything else.  `handled'  *)
(* and `accepted' are histories: what the handler has been called with,    *)
(* and what try_send has taken, in order.                                  *)
(*                                                                         *)
(* RegisterKeepingOldEntry, SelfHeldSender, RecvHandingShutdownOn and      *)
(* HandlerReturnsOrRequeues are defective variants of the definitions they *)
(* precede, used only to show that the properties below can tell the       *)
(* difference.                                                             *)
(***************************************************************************)
EXTENDS Naturals, Sequences, FiniteSets

CONSTANTS Frames,      \* byte strings given to dispatch_outbound
          Writers,     \* WriterHandle incarnations that may ever be spawned
          Registrars,  \* threads that register or unregister the interface
          Depth,       \* queue_depth of the bounded channel
          None,        \* no writer, no frame
          Shutdown     \* WriterMsg::Shutdown

ASSUME DepthAssumption == Depth \in Nat \ {0}
ASSUME NamesAssumption == /\ None \notin Frames \cup Writers
                          /\ Shutdown \notin Frames

VARIABLES registry,  \* WRITERS[name]: a writer or None
          marker,    \* OUTBOUND_HANDLERS holds the no-op marker of this name
          thread,    \* writer -> "unborn" | "running" | "exited"
          queue,     \* writer -> contents of its channel
          busy,      \* writer -> the frame its handler is working on, or None
          dispatch,  \* frame -> progress and result of its dispatch_outbound
          pc,        \* registrar -> what it still has to do
          accepted,  \* writer -> frames taken by try_send
          handled    \* writer -> frames the handler has returned from

vars == <<registry, marker, thread, queue, busy, dispatch, pc, accepted, handled>>

Idle == [at |-> "idle", handle |-> None]
Concluded(result) == [at |-> result, handle |-> None]

Init == /\ registry = None
        /\ marker = FALSE
        /\ thread = [w \in Writers |-> "unborn"]
        /\ queue = [w \in Writers |-> << >>]
        /\ busy = [w \in Writers |-> None]
        /\ dispatch = [f \in Frames |-> Idle]
        /\ pc = [r \in Registrars |-> "idle"]
        /\ accepted = [w \in Writers |-> << >>]
        /\ handled = [w \in Writers |-> << >>]

(***************************************************************************)
(* try_send succeeds: the receiver exists and sync_channel(Depth) has a    *)
(* free slot.                                                              *)
(***************************************************************************)
TrySendOk(w) == thread[w] = "running" /\ Len(queue[w]) < Depth

(***************************************************************************)
(* WriterHandle::shutdown: a try_send, so it is lost on a full queue and   *)
(* on a writer whose thread (and receiver) is gone.                        *)
(***************************************************************************)
ShutdownTo(w) ==
  IF w # None /\ TrySendOk(w)
    THEN [queue EXCEPT ![w] = Append(@, Shutdown)]
    ELSE queue

(***************************************************************************)
(* register_outbound_handler: spawn the writer and swap it into WRITERS    *)
(* (one critical section that also shuts the previous one down), then put  *)
(* the marker into OUTBOUND_HANDLERS under the other lock.                 *)
(***************************************************************************)
RegisterKeepingOldEntry(r, w) ==
  /\ pc[r] = "idle"
  /\ thread[w] = "unborn"
  /\ thread' = [thread EXCEPT ![w] = "running"]
  /\ queue' = ShutdownTo(registry)
  /\ registry' = IF registry = None THEN w ELSE registry
  /\ pc' = [pc EXCEPT ![r] = "insert marker"]
  /\ UNCHANGED <<marker, busy, dispatch, accepted, handled>>

RegisterWriter(r, w) ==
  /\ pc[r] = "idle"
  /\ thread[w] = "unborn"
  /\ thread' = [thread EXCEPT ![w] = "running"]
  /\ queue' = ShutdownTo(registry)
  /\ registry' = w
  /\ pc' = [pc EXCEPT ![r] = "insert marker"]
  /\ UNCHANGED <<marker, busy, dispatch, accepted, handled>>

RegisterMarker(r) ==
  /\ pc[r] = "insert marker"
  /\ marker' = TRUE
  /\ pc' = [pc EXCEPT ![r] = "idle"]
  /\ UNCHANGED <<registry, thread, queue, busy, dispatch, accepted, handled>>

(***************************************************************************)
(* unregister_outbound_handler: the same two locks in the same order.      *)
(***************************************************************************)
UnregisterWriter(r) ==
  /\ pc[r] = "idle"
  /\ queue' = ShutdownTo(registry)
  /\ registry' = None
  /\ pc' = [pc EXCEPT ![r] = "remove marker"]
  /\ UNCHANGED <<marker, thread, busy, dispatch, accepted, handled>>

UnregisterMarker(r) ==
  /\ pc[r] = "remove marker"
  /\ marker' = FALSE
  /\ pc' = [pc EXCEPT ![r] = "idle"]
  /\ UNCHANGED <<registry, thread, queue, busy, dispatch, accepted, handled>>

(***************************************************************************)
(* dispatch_outbound.  interface_writer::get clones the handle under the   *)
(* registry lock; the enqueue happens after it is released.  With no       *)
(* writer, the entry of OUTBOUND_HANDLERS is called: it is the marker,     *)
(* which does nothing and answers true.                                    *)
(***************************************************************************)
DispatchLookup(f) ==
  /\ dispatch[f] = Idle
  /\ dispatch' = [dispatch EXCEPT ![f] =
       [at |-> IF registry = None THEN "fallback" ELSE "enqueue", handle |-> registry]]
  /\ UNCHANGED <<registry, marker, thread, queue, busy, pc, accepted, handled>>

DispatchFallback(f) ==
  /\ dispatch[f].at = "fallback"
  /\ dispatch' = [dispatch EXCEPT ![f] =
       Concluded(IF marker THEN "true" ELSE "false")]
  /\ UNCHANGED <<registry, marker, thread, queue, busy, pc, accepted, handled>>

(***************************************************************************)
(* WriterHandle::enqueue: taken, or refused because the queue is full or   *)
(* the writer has exited.                                                  *)
(***************************************************************************)
Enqueue(f) ==
  LET w == dispatch[f].handle
      taken == TrySendOk(w)
  IN /\ dispatch[f].at = "enqueue"
     /\ dispatch' = [dispatch EXCEPT ![f] = Concluded(IF taken THEN "true" ELSE "false")]
     /\ queue' = IF taken THEN [queue EXCEPT ![w] = Append(@, f)] ELSE queue
     /\ accepted' = IF taken THEN [accepted EXCEPT ![w] = Append(@, f)] ELSE accepted
     /\ UNCHANGED <<registry, marker, thread, busy, pc, handled>>

(***************************************************************************)
(* The writer thread.  recv answers Err, and the loop ends, once the queue *)
(* is empty and no sender (registry entry or handle a dispatcher cloned)   *)
(* is left.  Leaving the loop drops the receiver with what it still holds. *)
(***************************************************************************)
SelfHeldSender(w) == FALSE

Disconnected(w) == registry # w /\ \A f \in Frames : dispatch[f].handle # w

Waiting(w) == thread[w] = "running" /\ busy[w] = None

RecvHandingShutdownOn(w) ==
  /\ Waiting(w)
  /\ queue[w] # << >>
  /\ busy' = [busy EXCEPT ![w] = Head(queue[w])]
  /\ queue' = [queue EXCEPT ![w] = Tail(@)]
  /\ UNCHANGED <<registry, marker, thread, dispatch, pc, accepted, handled>>

Recv(w) ==
  /\ Waiting(w)
  /\ queue[w] # << >>
  /\ IF Head(queue[w]) = Shutdown
       THEN /\ thread' = [thread EXCEPT ![w] = "exited"]
            /\ queue' = [queue EXCEPT ![w] = << >>]
            /\ UNCHANGED busy
       ELSE /\ busy' = [busy EXCEPT ![w] = Head(queue[w])]
            /\ queue' = [queue EXCEPT ![w] = Tail(@)]
            /\ UNCHANGED thread
  /\ UNCHANGED <<registry, marker, dispatch, pc, accepted, handled>>

HandlerReturnsOrRequeues(w) ==
  /\ busy[w] # None
  /\ \/ handled' = [handled EXCEPT ![w] = Append(@, busy[w])] /\ UNCHANGED queue
     \/ queue' = [queue EXCEPT ![w] = Append(@, busy[w])] /\ UNCHANGED handled
  /\ busy' = [busy EXCEPT ![w] = None]
  /\ UNCHANGED <<registry, marker, thread, dispatch, pc, accepted>>

HandlerReturns(w) ==
  /\ busy[w] # None
  /\ handled' = [handled EXCEPT ![w] = Append(@, busy[w])]
  /\ busy' = [busy EXCEPT ![w] = None]
  /\ UNCHANGED <<registry, marker, thread, queue, dispatch, pc, accepted>>

RecvDisconnected(w) ==
  /\ Waiting(w)
  /\ queue[w] = << >>
  /\ Disconnected(w)
  /\ thread' = [thread EXCEPT ![w] = "exited"]
  /\ UNCHANGED <<registry, marker, queue, busy, dispatch, pc, accepted, handled>>

WriterStep(w) == Recv(w) \/ HandlerReturns(w) \/ RecvDisconnected(w)
DispatchStep(f) == DispatchLookup(f) \/ DispatchFallback(f) \/ Enqueue(f)
RegistrarStep(r) == \/ \E w \in Writers : RegisterWriter(r, w)
                    \/ RegisterMarker(r)
                    \/ UnregisterWriter(r)
                    \/ UnregisterMarker(r)

Next == \/ \E w \in Writers : WriterStep(w)
        \/ \E f \in Frames : DispatchStep(f)
        \/ \E r \in Registrars : RegistrarStep(r)

Spec == Init /\ [][Next]_vars

(***************************************************************************)
(* The writer threads run and their handlers return (a wedged socket ends  *)
(* with the OS timeout); a dispatch that began finishes.  Nobody is        *)
(* obliged to register, unregister or send.                                *)
(***************************************************************************)
Fairness == /\ \A w \in Writers : WF_vars(WriterStep(w))
            /\ \A f \in Frames : WF_vars(DispatchFallback(f) \/ Enqueue(f))

FairSpec == Spec /\ Fairness

----------------------------------------------------------------------------
(***************************************************************************)
(* Type invariant.                                                         *)
(***************************************************************************)
TypeOK ==
  /\ registry \in Writers \cup {None}
  /\ marker \in BOOLEAN
  /\ thread \in [Writers -> {"unborn", "running", "exited"}]
  /\ queue \in [Writers -> Seq(Frames \cup {Shutdown})]
  /\ busy \in [Writers -> Frames \cup {None}]
  /\ dispatch \in [Frames -> [at : {"idle", "enqueue", "fallback", "true", "false"},
                              handle : Writers \cup {None}]]
  /\ pc \in [Registrars -> {"idle", "insert marker", "remove marker"}]
  /\ accepted \in [Writers -> Seq(Frames)]
  /\ handled \in [Writers -> Seq(Frames)]

(***************************************************************************)
(* A running writer neither loses, repeats nor reorders: what try_send     *)
(* took is, in order, what the handler has done, what it is doing and what *)
(* is queued.  One that has exited has done a prefix of it.                *)
(***************************************************************************)
Pending(w) == (IF busy[w] = None THEN << >> ELSE <<busy[w]>>)
              \o SelectSeq(queue[w], LAMBDA m : m # Shutdown)

InOrderNoLoss ==
  \A w \in Writers :
    /\ thread[w] # "exited" => accepted[w] = handled[w] \o Pending(w)
    /\ thread[w] = "exited" => /\ Len(handled[w]) <= Len(accepted[w])
                               /\ handled[w] = SubSeq(accepted[w], 1, Len(handled[w]))

(***************************************************************************)
(* The registry never names a writer that has been told to stop: register  *)
(* and unregister take the entry out before (in the same critical section  *)
(* as) they shut it down, so a fresh lookup never finds a dying writer.    *)
(***************************************************************************)
RegisteredWriterServes ==
  registry # None => /\ thread[registry] = "running"
                     /\ \A i \in 1..Len(queue[registry]) : queue[registry][i] # Shutdown

(***************************************************************************)
(* A replaced or unregistered writer's thread ends, although its Shutdown  *)
(* message is lost when the queue is full: register's doc, "The previous   *)
(* writer (if any) is shut down so its thread exits cleanly".              *)
(***************************************************************************)
RetiredWriterExits ==
  \A w \in Writers : (thread[w] = "running" /\ registry # w) ~> (thread[w] = "exited")
============================================================================
