----------------------------- MODULE LinkActor -----------------------------
(***************************************************************************)
(* One end of a link: the actor thread of link.rs that owns the Link,      *)
(* drains its mailbox and keeps its watchdog, with the threads around it:  *)
(* the interface threads that dispatch packets to it and wait for its      *)
(* answer, the application, and the threads its callbacks run on.          *)
(*                                                                         *)
(* A handler runs on the actor thread and is one step, cut where another   *)
(* thread can look in: status_atomic is stored after the handler is done,  *)
(* and the established callback runs while the actor services its own      *)
(* mailbox.  Time is abstract: a timer is a name that enters `overdue'     *)
(* once its deadline has passed.  Packets are named by what the link's     *)
(* handlers do with them; whatever touches neither the life cycle nor a    *)
(* timer is "data".  Requests, resources and the recovered and identified  *)
(* callbacks are outside this module.                                      *)
(*                                                                         *)
(* StatusOfState, EstablishedUnwaited, EstablishedEarly, PublishedLate,    *)
(* UndecryptableRejected, ServiceHoldingAll, ResendForgetting,             *)
(* TeardownRegistered, TeardownResending and                               *)
(* ReopenedProof are defective variants of the definitions they precede,   *)
(* used only to show that the properties below can tell the difference.    *)
(***************************************************************************)
EXTENDS Naturals, Sequences, FiniteSets

CONSTANTS Readers,      \* threads in Transport::inbound, one per interface
          Rejectable,   \* whether packets arrive that a handler answers Err
          MaxTeardowns, \* bound on LinkHandle::teardown calls
          DebugBuild,   \* whether debug_assertions are compiled in
          None          \* no packet in hand

ASSUME RejectableAssumption == Rejectable \in BOOLEAN
ASSUME MaxTeardownsAssumption == MaxTeardowns \in Nat
ASSUME DebugBuildAssumption == DebugBuild \in BOOLEAN
ASSUME NoneAssumption == None \notin Readers

VARIABLES initiator,   \* link.initiator
          state,       \* link.state
          initiate,    \* the application's LinkHandle::initiate call
          lock,        \* link.watchdog_lock
          reason,      \* link.teardown_reason
          overdue,     \* the deadlines that have passed
          registered,  \* RUNTIME_LINKS holds this link's handle
          published,   \* LinkHandle.status_atomic
          mailbox,     \* the actor's channel
          deferred,    \* packets set aside while the established callback runs
          pc,          \* where the actor thread is
          cur,         \* the packet the actor is answering
          established, \* the link_established callback
          closedCalls, \* link_closed callbacks spawned
          closeSent,   \* LINKCLOSE packets sent
          teardowns,   \* LinkHandle::teardown calls so far
          line         \* the readers waiting for an answer, by arrival

link == <<initiator, state, initiate, lock, reason, overdue, registered, closedCalls, closeSent>>
vars == <<link, published, mailbox, deferred, pc, cur, established, teardowns, line>>

States == {"PENDING", "HANDSHAKE", "ACTIVE", "STALE", "CLOSED"}
Timers == {"establish", "stale", "grace"}

(***************************************************************************)
(* link.status: handshake() moves only `state'.                            *)
(***************************************************************************)
StatusOfState(s) == s

Status(s) == IF s = "HANDSHAKE" THEN "PENDING" ELSE s

Packets == {"close", "data", "bad advertisement"}
           \cup (IF initiator THEN {"proof"} ELSE {"lrrtt"})
           \cup (IF ~Rejectable THEN {}
                 ELSE {"bad identify"} \cup (IF initiator THEN {"bad proof"} ELSE {"bad lrrtt"}))

Receive(x, p) == [kind |-> "Receive", reader |-> x, packet |-> p]
Message(k) == [kind |-> k]
NoPacket == [reader |-> None, packet |-> "none", fresh |-> FALSE]

Alive == pc \notin {"exited", "panicked"}
Post(m) == mailbox' = IF Alive THEN Append(mailbox, m) ELSE mailbox

(***************************************************************************)
(* A link that is to be initiated (new_outbound, spawn), or one that       *)
(* validate_request made, keyed and answered with a proof.  request_time   *)
(* is set in both, so the establishment deadline runs from the start.      *)
(***************************************************************************)
Init == /\ initiator \in BOOLEAN
        /\ state = IF initiator THEN "PENDING" ELSE "HANDSHAKE"
        /\ initiate = "none"
        /\ lock = FALSE
        /\ reason = "none"
        /\ overdue = {}
        /\ registered = ~initiator
        /\ published = "PENDING"
        /\ mailbox = << >>
        /\ deferred = << >>
        /\ pc = "recv"
        /\ cur = NoPacket
        /\ established = "set"
        /\ closedCalls = 0
        /\ closeSent = 0
        /\ teardowns = 0
        /\ line = << >>

-----------------------------------------------------------------------------
(***************************************************************************)
(* The surroundings.                                                       *)
(***************************************************************************)

(***************************************************************************)
(* dispatch_runtime_packet: an interface thread finds the handle, sends    *)
(* the packet and waits for the answer.                                    *)
(***************************************************************************)
Dispatch(x) ==
  /\ registered
  /\ \A i \in DOMAIN line : line[i] # x
  /\ \E p \in Packets : Post(Receive(x, p))
  /\ line' = IF Alive THEN Append(line, x) ELSE line
  /\ UNCHANGED <<link, published, deferred, pc, cur, established, teardowns>>

(***************************************************************************)
(* LinkHandle::initiate, which the application calls once, at any time.    *)
(***************************************************************************)
Initiate ==
  /\ initiator /\ initiate = "none"
  /\ initiate' = "called"
  /\ Post(Message("Initiate"))
  /\ UNCHANGED <<initiator, state, lock, reason, overdue, registered, closedCalls, closeSent>>
  /\ UNCHANGED <<published, deferred, pc, cur, established, teardowns, line>>

(***************************************************************************)
(* LinkHandle::teardown, and teardown_pending_links_to_destination, which  *)
(* picks its links by the published status.                                *)
(***************************************************************************)
Teardown ==
  /\ teardowns < MaxTeardowns
  /\ teardowns' = teardowns + 1
  /\ Post(Message("Teardown"))
  /\ UNCHANGED <<link, published, deferred, pc, cur, established, line>>

CancelPending ==
  /\ initiator /\ registered
  /\ published \notin {"ACTIVE", "CLOSED"}
  /\ teardowns < MaxTeardowns
  /\ teardowns' = teardowns + 1
  /\ Post(Message("Cancel"))
  /\ UNCHANGED <<link, published, deferred, pc, cur, established, line>>

(***************************************************************************)
(* A deadline passes: request_time + establishment_timeout, last_inbound + *)
(* stale_time, stale_since + grace.                                        *)
(***************************************************************************)
Elapse(t) ==
  /\ t \notin overdue
  /\ \/ t = "establish" /\ state \in {"PENDING", "HANDSHAKE"}
     \/ t = "stale" /\ state = "ACTIVE"
     \/ t = "grace" /\ state = "STALE"
  /\ overdue' = overdue \cup {t}
  /\ UNCHANGED <<initiator, state, initiate, lock, reason, registered, closedCalls, closeSent>>
  /\ UNCHANGED <<published, mailbox, deferred, pc, cur, established, teardowns, line>>

(***************************************************************************)
(* The established callback, on its own thread: it may call back into the  *)
(* handle and wait for the actor's reply, then it returns.                 *)
(***************************************************************************)
CallbackAsks ==
  /\ established = "running"
  /\ Post(Message("Ask"))
  /\ established' = IF Alive THEN "asking" ELSE "running"
  /\ UNCHANGED <<link, published, deferred, pc, cur, teardowns, line>>

CallbackReturns ==
  /\ established \in {"running", "answered"}
  /\ established' = "returned"
  /\ UNCHANGED <<link, published, mailbox, deferred, pc, cur, teardowns, line>>

-----------------------------------------------------------------------------
(***************************************************************************)
(* The Link's own methods, on the actor thread.                            *)
(***************************************************************************)

(***************************************************************************)
(* Link::teardown: tell the peer unless there is no key yet or no link any *)
(* more, close, name the reason, leave the registry and run link_closed,   *)
(* which spawns the closed callback.                                       *)
(***************************************************************************)
Own == IF initiator THEN "initiator closed" ELSE "destination closed"
Peer == IF initiator THEN "destination closed" ELSE "initiator closed"

TeardownRegistered(why) ==
  /\ closeSent' = IF state \in {"PENDING", "CLOSED"} THEN closeSent ELSE closeSent + 1
  /\ state' = "CLOSED"
  /\ reason' = IF reason = "timeout" THEN reason ELSE why
  /\ closedCalls' = closedCalls + 1
  /\ UNCHANGED <<initiator, initiate, registered>>

TeardownResending(why) ==
  /\ closeSent' = IF state = "PENDING" THEN closeSent ELSE closeSent + 1
  /\ state' = "CLOSED"
  /\ reason' = IF reason = "timeout" THEN reason ELSE why
  /\ registered' = FALSE
  /\ closedCalls' = closedCalls + 1
  /\ UNCHANGED <<initiator, initiate>>

TeardownLink(why) ==
  /\ closeSent' = IF state \in {"PENDING", "CLOSED"} THEN closeSent ELSE closeSent + 1
  /\ state' = "CLOSED"
  /\ reason' = IF reason = "timeout" THEN reason ELSE why
  /\ registered' = FALSE
  /\ closedCalls' = closedCalls + 1
  /\ UNCHANGED <<initiator, initiate>>

(***************************************************************************)
(* Link::teardown_packet, for a LINKCLOSE that carries our link id: the    *)
(* same without an answer to the peer.                                     *)
(***************************************************************************)
TeardownPacket ==
  /\ state' = "CLOSED"
  /\ reason' = Peer
  /\ registered' = FALSE
  /\ closedCalls' = closedCalls + 1
  /\ UNCHANGED <<initiator, initiate, closeSent>>

(***************************************************************************)
(* Whether a packet of the peer decrypts: there is no token before the     *)
(* handshake; a proof that failed its signature has left one behind that   *)
(* may be the peer's or not.                                               *)
(***************************************************************************)
Decrypts == IF state = "PENDING" THEN {FALSE}
            ELSE IF initiator /\ state = "HANDSHAKE" THEN BOOLEAN
            ELSE {TRUE}

(***************************************************************************)
(* The state after a packet that is not a close: a stale link is active    *)
(* again, a proof or an LRRTT establishes the link, and a proof whose      *)
(* signature fails has passed handshake() before.                          *)
(***************************************************************************)
Revived == IF state = "STALE" THEN "ACTIVE" ELSE state

ReopenedProof(p) ==
  CASE p = "proof" -> {IF state \in {"PENDING", "CLOSED"} THEN "ACTIVE" ELSE Revived}
    [] p = "lrrtt" -> {"ACTIVE"}
    [] p = "bad proof" /\ state = "PENDING" -> {"PENDING", "HANDSHAKE"}
    [] OTHER -> {Revived}

StateAfter(p) ==
  CASE p = "proof" /\ state = "PENDING" -> {"ACTIVE"}
    [] p = "lrrtt" /\ state # "CLOSED" -> {"ACTIVE"}
    [] p = "bad proof" /\ state = "PENDING" -> {"PENDING", "HANDSHAKE"}
    [] OTHER -> {Revived}

(***************************************************************************)
(* Whether the handler of the packet answers Err, which leaves receive()   *)
(* before it clears watchdog_lock.                                         *)
(***************************************************************************)
UndecryptableRejected(p, decrypted) ==
  \/ p = "bad proof" /\ state = "PENDING"
  \/ p # "proof" /\ ~decrypted

Rejected(p, decrypted) ==
  \/ p = "bad proof" /\ state = "PENDING"
  \/ p \in {"bad lrrtt", "bad identify"} /\ decrypted /\ state # "CLOSED"

(***************************************************************************)
(* Link::receive.                                                          *)
(***************************************************************************)
ReceivePacket(p) ==
  \E decrypted \in Decrypts :
    /\ IF p = "close" /\ decrypted /\ state # "CLOSED"
         THEN TeardownPacket
       ELSE IF p = "bad advertisement" /\ decrypted /\ state # "CLOSED"
         THEN TeardownLink(Own)
       ELSE /\ state' \in StateAfter(p)
            /\ UNCHANGED <<initiator, initiate, reason, registered, closedCalls, closeSent>>
    /\ lock' = Rejected(p, decrypted)
    /\ overdue' = IF state = "CLOSED" THEN overdue ELSE overdue \ {"stale", "grace"}

-----------------------------------------------------------------------------
(***************************************************************************)
(* The actor loop.                                                         *)
(***************************************************************************)

(***************************************************************************)
(* actor_handle_message for anything but a packet: the teardown calls      *)
(* close the link and publish afterwards; Ask stands for the calls that    *)
(* are only answered.  Initiate does not look at the link's state: unless  *)
(* initiate_prepare fails, it starts the establishment deadline again,     *)
(* registers the handle and sends the request (which may fail too).        *)
(***************************************************************************)
HandleMessage(m, publish, next) ==
  \/ /\ m.kind \in {"Teardown", "Cancel"}
     /\ TeardownLink(Own)
     /\ pc' = publish
     /\ UNCHANGED <<lock, overdue, established>>
  \/ /\ m.kind = "Initiate"
     /\ \/ /\ initiate' = IF state = "CLOSED" THEN "sent when closed" ELSE "sent"
           /\ overdue' = overdue \ {"establish"}
           /\ registered' = TRUE
        \/ initiate' = "failed" /\ UNCHANGED <<overdue, registered>>
     /\ pc' = next
     /\ UNCHANGED <<initiator, state, lock, reason, closedCalls, closeSent, established>>
  \/ /\ m.kind = "Ask"
     /\ established' = "answered"
     /\ pc' = next
     /\ UNCHANGED link

RecvMessage ==
  /\ pc = "recv"
  /\ mailbox # << >>
  /\ mailbox' = Tail(mailbox)
  /\ HandleMessage(Head(mailbox), "publish and exit", "tick")
  /\ UNCHANGED <<published, deferred, cur, teardowns, line>>

RecvPacket ==
  /\ pc = "recv"
  /\ mailbox # << >>
  /\ mailbox' = Tail(mailbox)
  /\ LET m == Head(mailbox)
     IN /\ m.kind = "Receive"
        /\ ReceivePacket(m.packet)
        /\ cur' = [reader |-> m.reader, packet |-> m.packet,
                   fresh |-> state \in {"PENDING", "HANDSHAKE"} /\ state' = "ACTIVE"]
  /\ pc' = "publish"
  /\ UNCHANGED <<published, deferred, established, teardowns, line>>

(***************************************************************************)
(* After Link::receive: store the status, then run the established         *)
(* callback if this packet established the link, and wait for it.  Before  *)
(* the callback is the assertion that the link was established within 5 s  *)
(* of request_time; the establishment deadline is never shorter than 6 s.  *)
(* A release build only logs a late establishment; in a debug build the    *)
(* actor thread panics, and all that is dropped is its channel, with what  *)
(* is in it, and the reply it owes.                                        *)
(***************************************************************************)
InTime == "establish" \notin overdue

Panic ==
  /\ pc' = "panicked"
  /\ mailbox' = << >>
  /\ line' = << >>
  /\ cur' = NoPacket
  /\ UNCHANGED established

EstablishedUnwaited ==
  /\ pc = "publish"
  /\ published' = Status(state)
  /\ IF cur.fresh /\ established = "set"
       THEN established' = "running"
       ELSE UNCHANGED established
  /\ pc' = "answer"
  /\ UNCHANGED <<link, mailbox, deferred, cur, teardowns, line>>

EstablishedEarly ==
  /\ pc = "publish"
  /\ IF cur.fresh /\ established = "set"
       THEN established' = "running" /\ pc' = "service" /\ UNCHANGED published
       ELSE pc' = "answer" /\ published' = Status(state) /\ UNCHANGED established
  /\ UNCHANGED <<link, mailbox, deferred, cur, teardowns, line>>

PublishAfterPacket ==
  /\ pc = "publish"
  /\ published' = Status(state)
  /\ \/ /\ cur.fresh /\ DebugBuild
        /\ Panic
     \/ /\ cur.fresh /\ DebugBuild => InTime
        /\ IF cur.fresh /\ established = "set"
             THEN established' = "running" /\ pc' = "service"
             ELSE pc' = "answer" /\ UNCHANGED established
        /\ UNCHANGED <<mailbox, cur, line>>
  /\ UNCHANGED <<link, deferred, teardowns>>

(***************************************************************************)
(* service_mailbox_until_finished: look whether the callback is done, else *)
(* wait 5 ms for a message.  Packets are set aside, everything else is     *)
(* handled; at the end the packets go back into the mailbox.               *)
(***************************************************************************)
Service ==
  /\ pc = "service"
  /\ pc' = IF established = "returned" THEN "resend" ELSE "service recv"
  /\ UNCHANGED <<link, published, mailbox, deferred, cur, established, teardowns, line>>

ServiceHoldingAll ==
  /\ pc = "service recv"
  /\ \/ /\ mailbox # << >>
        /\ mailbox' = Tail(mailbox)
        /\ pc' = "service"
        /\ deferred' = Append(deferred, Head(mailbox))
        /\ UNCHANGED <<link, established>>
     \/ /\ mailbox = << >>
        /\ pc' = "service"
        /\ UNCHANGED <<link, mailbox, deferred, established>>
  /\ UNCHANGED <<published, cur, teardowns, line>>

ServiceRecv ==
  /\ pc = "service recv"
  /\ \/ /\ mailbox # << >>
        /\ mailbox' = Tail(mailbox)
        /\ \/ /\ Head(mailbox).kind = "Receive"
              /\ deferred' = Append(deferred, Head(mailbox))
              /\ pc' = "service"
              /\ UNCHANGED <<link, established>>
           \/ HandleMessage(Head(mailbox), "publish and service", "service") /\ UNCHANGED deferred
     \/ /\ mailbox = << >>
        /\ pc' = "service"
        /\ UNCHANGED <<link, mailbox, deferred, established>>
  /\ UNCHANGED <<published, cur, teardowns, line>>

ResendForgetting ==
  /\ pc = "resend"
  /\ pc' = "answer"
  /\ deferred' = << >>
  /\ UNCHANGED <<link, published, mailbox, cur, established, teardowns, line>>

Resend ==
  /\ pc = "resend"
  /\ IF deferred = << >>
       THEN pc' = "answer" /\ UNCHANGED <<mailbox, deferred>>
       ELSE /\ mailbox' = Append(mailbox, Head(deferred))
            /\ deferred' = Tail(deferred)
            /\ UNCHANGED pc
  /\ UNCHANGED <<link, published, cur, established, teardowns, line>>

(***************************************************************************)
(* The reply to the thread that dispatched the packet.                     *)
(***************************************************************************)
Answer ==
  /\ pc = "answer"
  /\ line' = SelectSeq(line, LAMBDA x : x # cur.reader)
  /\ cur' = NoPacket
  /\ pc' = "tick"
  /\ UNCHANGED <<link, published, mailbox, deferred, established, teardowns>>

(***************************************************************************)
(* The actor thread ends: the channel is dropped with what is in it, and   *)
(* whoever waits for a reply is told so.                                   *)
(***************************************************************************)
Exit ==
  /\ pc' = "exited"
  /\ mailbox' = << >>
  /\ line' = << >>
  /\ established' = IF established = "asking" THEN "answered" ELSE established
  /\ UNCHANGED <<link, deferred, cur, teardowns>>

(***************************************************************************)
(* status_atomic is stored after a Teardown message; the loop breaks after *)
(* one it took itself, the callback is waited for after one it serviced.   *)
(***************************************************************************)
PublishAfterTeardown ==
  /\ published' = Status(state)
  /\ \/ pc = "publish and exit" /\ Exit
     \/ /\ pc = "publish and service"
        /\ pc' = "service"
        /\ UNCHANGED <<link, mailbox, deferred, cur, established, teardowns, line>>

(***************************************************************************)
(* recv_timeout runs out.                                                  *)
(***************************************************************************)
RecvTimeout ==
  /\ pc = "recv"
  /\ mailbox = << >>
  /\ IF state = "CLOSED"
       THEN Exit
       ELSE pc' = "tick" /\ UNCHANGED <<link, mailbox, deferred, cur, established, teardowns, line>>
  /\ UNCHANGED published

(***************************************************************************)
(* actor_watchdog_tick, unless watchdog_lock is set, and the loop's exit   *)
(* check before it.                                                        *)
(***************************************************************************)
TimedOut == \/ state \in {"PENDING", "HANDSHAKE"} /\ "establish" \in overdue
            \/ state = "STALE" /\ "grace" \in overdue

WatchdogTick ==
  IF TimedOut
    THEN TeardownLink("timeout") /\ UNCHANGED <<lock, overdue>>
  ELSE IF state = "ACTIVE" /\ "stale" \in overdue
    THEN state' = "STALE" /\ UNCHANGED <<initiator, initiate, lock, reason, overdue, registered, closedCalls, closeSent>>
  ELSE UNCHANGED link

Tick ==
  /\ pc = "tick"
  /\ IF state = "CLOSED"
       THEN Exit
       ELSE /\ IF lock THEN UNCHANGED link ELSE WatchdogTick
            /\ pc' = "publish tick"
            /\ UNCHANGED <<mailbox, deferred, cur, established, teardowns, line>>
  /\ UNCHANGED published

PublishedLate ==
  /\ pc = "publish tick"
  /\ pc' = "recv"
  /\ UNCHANGED <<link, published, mailbox, deferred, cur, established, teardowns, line>>

PublishAfterTick ==
  /\ pc = "publish tick"
  /\ published' = Status(state)
  /\ pc' = "recv"
  /\ UNCHANGED <<link, mailbox, deferred, cur, established, teardowns, line>>

Actor == \/ RecvMessage \/ RecvPacket \/ RecvTimeout
         \/ PublishAfterPacket \/ PublishAfterTeardown \/ PublishAfterTick
         \/ Service \/ ServiceRecv \/ Resend \/ Answer \/ Tick

(***************************************************************************)
(* Nothing is left to do once the thread has ended; any other state        *)
(* without a next step is a deadlock.                                      *)
(***************************************************************************)
Ended == ~Alive /\ UNCHANGED vars

Next == \/ \E x \in Readers : Dispatch(x)
        \/ Initiate \/ Teardown \/ CancelPending
        \/ \E t \in Timers : Elapse(t)
        \/ CallbackAsks \/ CallbackReturns
        \/ Actor
        \/ Ended

Spec == Init /\ [][Next]_vars

(***************************************************************************)
(* The actor thread runs, time passes, and a callback that is not waiting  *)
(* for the actor eventually returns.                                       *)
(***************************************************************************)
FairSpec == /\ Spec
            /\ WF_vars(Actor)
            /\ WF_vars(CallbackReturns)
            /\ \A t \in Timers : WF_vars(Elapse(t))

-----------------------------------------------------------------------------
MessageSet == {Receive(x, p) : x \in Readers, p \in Packets}
              \cup {Message(k) : k \in {"Teardown", "Cancel", "Initiate", "Ask"}}

(***************************************************************************)
(* Every variable has its type; the mailbox holds one packet per waiting   *)
(* reader at most.                                                         *)
(***************************************************************************)
TypeOK == /\ initiator \in BOOLEAN
          /\ state \in States
          /\ initiate \in {"none", "called", "sent", "sent when closed", "failed"}
          /\ lock \in BOOLEAN
          /\ reason \in {"none", "timeout", Own, Peer}
          /\ overdue \subseteq Timers
          /\ registered \in BOOLEAN
          /\ published \in States \ {"HANDSHAKE"}
          /\ mailbox \in Seq(MessageSet)
          /\ deferred \in Seq(MessageSet)
          /\ pc \in {"recv", "publish", "publish and exit", "publish and service", "publish tick",
                    "service", "service recv", "resend", "answer", "tick", "exited", "panicked"}
          /\ cur \in [reader : Readers \cup {None}, packet : Packets \cup {"none"}, fresh : BOOLEAN]
          /\ established \in {"set", "running", "asking", "answered", "returned"}
          /\ closedCalls \in Nat /\ closeSent \in Nat
          /\ teardowns \in 0..MaxTeardowns
          /\ line \in Seq(Readers)

(***************************************************************************)
(* link.rs 1254-1276: while link_established runs, the packet in hand is   *)
(* the one that established the link; no later packet of the link is       *)
(* looked at before the application has configured it.                     *)
(***************************************************************************)
NothingOvertakesEstablished ==
  established \in {"running", "asking", "answered"} => cur.fresh

(***************************************************************************)
(* link.rs 1238-1241: the established callback, which may call status(),   *)
(* never reads the status from before the establishment.                   *)
(***************************************************************************)
EstablishedReadsActive ==
  established \in {"running", "asking", "answered"} => published \in {"ACTIVE", "CLOSED"}

(***************************************************************************)
(* A thread that waits for the actor waits for one that will answer: its   *)
(* packet is in the mailbox, set aside, or in hand, exactly once.          *)
(***************************************************************************)
PlacesOf(x) ==
  Cardinality({i \in DOMAIN mailbox : mailbox[i].kind = "Receive" /\ mailbox[i].reader = x})
  + Cardinality({i \in DOMAIN deferred : deferred[i].kind = "Receive" /\ deferred[i].reader = x})
  + (IF cur.reader = x THEN 1 ELSE 0)

WaitersAreServed ==
  Alive => \A x \in Readers : PlacesOf(x) = Cardinality({i \in DOMAIN line : line[i] = x})

(***************************************************************************)
(* A handle in the registry has an actor behind it, and one whose link is  *)
(* open: every way to close a link unregisters it (teardown,               *)
(* teardown_packet, the watchdog), whatever is still in the mailbox or     *)
(* being serviced.  Two ways leave a dead handle behind: an Initiate that  *)
(* the actor takes after the watchdog has closed the link, which registers *)
(* a CLOSED one (745-774, 1105-1135), and the panic of a debug build on a  *)
(* late establishment (1249-1253).                                         *)
(***************************************************************************)
RegisteredIsOpen ==
  registered => \/ Alive /\ state # "CLOSED"
                \/ initiate = "sent when closed"
                \/ pc = "panicked"

(***************************************************************************)
(* A link says goodbye once at most: teardown on a closed link sends no    *)
(* LINKCLOSE, and a LINKCLOSE is not answered with another.                *)
(***************************************************************************)
OneGoodbye == closeSent <= 1 /\ (reason = Peer => closeSent = 0)

(***************************************************************************)
(* A closed link stays closed, whatever is still in its mailbox.           *)
(***************************************************************************)
ClosedIsFinal == [][state = "CLOSED" => state' = "CLOSED"]_vars

(***************************************************************************)
(* An interface thread that handed a packet to the link gets its answer,   *)
(* even while the established callback runs or the actor exits.            *)
(***************************************************************************)
EveryReaderReleased ==
  \A x \in Readers : (\E i \in DOMAIN line : line[i] = x) ~> (\A i \in DOMAIN line : line[i] # x)

(***************************************************************************)
(* A link that is being established, or waits to be initiated, becomes     *)
(* ACTIVE or is closed by its establishment timeout (link.rs 743-744,      *)
(* 773).                                                                   *)
(***************************************************************************)
EstablishmentConcludes ==
  (state \in {"PENDING", "HANDSHAKE"}) ~> (state \in {"ACTIVE", "STALE", "CLOSED"})

(***************************************************************************)
(* A link whose peer has fallen silent, or never spoke, is closed by the   *)
(* watchdog.                                                               *)
(***************************************************************************)
SilentLinkCloses == <>[](line = << >>) => <>(state = "CLOSED")

(***************************************************************************)
(* The actor thread of a closed link ends, with the closed callback        *)
(* spawned and CLOSED as the status it published last.                     *)
(***************************************************************************)
ClosedActorEnds ==
  (state = "CLOSED") ~> (pc = "exited" /\ published = "CLOSED" /\ closedCalls > 0)
=============================================================================
