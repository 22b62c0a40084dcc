---------------------------- MODULE LinkRequests ----------------------------
(***************************************************************************)
(* Requests over one link (src/src/link.rs), at the requesting end.        *)
(*                                                                         *)
(* A request is made on the link's actor.  One that fits a packet is sent  *)
(* and registered with its response clock running; a larger one is         *)
(* registered first and uploaded as a Resource by a thread of its own,     *)
(* whose conclusion comes back as an actor message and starts the clock or *)
(* fails the request.  The response is a packet, handled by the actor, or  *)
(* a Resource, whose conclusion runs on another thread and takes the entry *)
(* from the shared list itself.  The actor's timeout check, the closing    *)
(* link and these compete for the entry; whoever removes it calls back.    *)
(*                                                                         *)
(* Time is abstract: a request's response timeout may pass once its clock  *)
(* has started.  What else the link does is abstracted to the ways it      *)
(* closes: the peer's LINKCLOSE, a Teardown message, the watchdog.         *)
(*                                                                         *)
(* RequestNotTimed, StartClockUnchecked, OverLimitDropped,                 *)
(* ClosedKeepingPending and ConcludeUnclaimed are defective variants of    *)
(* the definitions after them; the specification does not use them.        *)
(***************************************************************************)
EXTENDS Naturals, Sequences, FiniteSets

CONSTANTS
  Requests,   \* the requests made on the link
  MaxAnswers  \* bound on the responses and advertisements the peer sends

ASSUME MaxAnswersAssumption == MaxAnswers \in Nat

VARIABLES
  large,     \* the requests over the link's MDU
  open,      \* link.state # CLOSED
  pc,        \* the actor: receiving, after a message or a timeout, exited
  mailbox,   \* the actor's channel
  teardown,  \* a Teardown or LINKCLOSE has been sent to the actor
  result,    \* what LinkHandle::request answered
  openThen,  \* requests the actor took while the link was open
  pending,   \* link.pending_requests
  clock,     \* pending with response_clock_started set
  receiving, \* pending with receiving_response set
  stalled,   \* history: receiving, its last transfer never started or ended unsaid
  overdue,   \* requests whose response timeout has passed
  upload,    \* the thread sending a request as a Resource
  transfers, \* response Resources being received, for each request
  answers,   \* responses and advertisements the peer has sent
  ready,     \* response callbacks run
  failed     \* failed callbacks run

list == <<pending, clock, receiving, stalled>>
calls == <<ready, failed>>
peer == <<answers, teardown>>
vars == <<large, open, pc, mailbox, peer, result, openThen, list, overdue, upload,
          transfers, calls>>

Message == [kind : {"Request", "Response", "Advertisement", "UploadProven",
                    "UploadFailed"}, req : Requests]
           \cup [kind : {"Teardown", "LinkClose"}]

Running == pc # "exited"

\* tx.send: a message to an actor that is gone is lost.
Post(m) == mailbox' = IF Running THEN Append(mailbox, m) ELSE mailbox

\* Take r out of the list, if it is there.
RemoveIfPending(r) ==
  /\ pending' = pending \ {r}
  /\ clock' = clock \ {r}
  /\ receiving' = receiving \ {r}
  /\ stalled' = stalled \ {r}

AddAt(f, S) == [r \in Requests |-> IF r \in S THEN f[r] + 1 ELSE f[r]]

Init ==
  /\ large \in SUBSET Requests
  /\ open = TRUE
  /\ pc = "recv"
  /\ mailbox = <<>>
  /\ teardown = FALSE
  /\ result = [r \in Requests |-> "none"]
  /\ openThen = {}
  /\ pending = {} /\ clock = {} /\ receiving = {} /\ stalled = {}
  /\ overdue = {}
  /\ upload = [r \in Requests |-> "none"]
  /\ transfers = [r \in Requests |-> 0]
  /\ answers = 0
  /\ ready = [r \in Requests |-> 0]
  /\ failed = [r \in Requests |-> 0]

----------------------------------------------------------------------------
(***************************************************************************)
(* The application, the peer and time.                                     *)
(***************************************************************************)

\* LinkHandle::request: send the message and wait for the reply.
CallRequest(r) ==
  /\ result[r] = "none"
  /\ result' = [result EXCEPT ![r] = IF Running THEN "asked" ELSE "error"]
  /\ Post([kind |-> "Request", req |-> r])
  /\ UNCHANGED <<large, open, pc, peer, openThen, list, overdue, upload, transfers,
                 calls>>

\* The peer answers a request it holds: it was sent in a packet, or its upload
\* is under way.  A Resource may be advertised again.  Packets for a link whose
\* actor is gone have no effect and are left out.
PeerAnswers(r, k) ==
  /\ IF r \in large THEN upload[r] \in {"sending", "done"} ELSE result[r] = "ok"
  /\ Running /\ answers < MaxAnswers
  /\ answers' = answers + 1
  /\ Post([kind |-> k, req |-> r])
  /\ UNCHANGED <<large, open, pc, teardown, result, openThen, list, overdue, upload,
                 transfers, calls>>

\* The application tears the link down, or the peer closes it.
AskToClose(k) ==
  /\ Running /\ ~teardown
  /\ teardown' = TRUE
  /\ Post([kind |-> k])
  /\ UNCHANGED <<large, open, pc, answers, result, openThen, list, overdue, upload,
                 transfers, calls>>

Elapse(r) ==
  /\ r \in clock \ overdue
  /\ overdue' = overdue \cup {r}
  /\ UNCHANGED <<large, open, pc, mailbox, peer, result, openThen, list, upload,
                 transfers, calls>>

----------------------------------------------------------------------------
(***************************************************************************)
(* The actor's handlers.                                                   *)
(***************************************************************************)

RequestNotTimed(r) ==
  /\ pending' = IF open THEN pending \cup {r} ELSE pending
  /\ result' = [result EXCEPT ![r] = IF open THEN "ok" ELSE "error"]
  /\ UNCHANGED <<clock, receiving, stalled, failed>>

\* request: a packet is encrypted with the link's key, which a closed link no
\* longer has, and sent; it is registered once it is out.
RequestAsPacket(r) ==
  \/ /\ open
     /\ pending' = pending \cup {r}
     /\ clock' = clock \cup {r}
     /\ result' = [result EXCEPT ![r] = "ok"]
     /\ UNCHANGED <<receiving, stalled, failed>>
  \/ /\ open
     /\ failed' = AddAt(failed, {r})
     /\ result' = [result EXCEPT ![r] = "error"]
     /\ UNCHANGED list
  \/ /\ ~open
     /\ result' = [result EXCEPT ![r] = "error"]
     /\ UNCHANGED <<list, failed>>

\* request_as_resource: registered before the upload starts, whatever the state
\* of the link.
RequestAsResource(r) ==
  /\ pending' = pending \cup {r}
  /\ upload' = [upload EXCEPT ![r] = "building"]
  /\ result' = [result EXCEPT ![r] = "ok"]
  /\ UNCHANGED <<clock, receiving, stalled>>

HandleRequest(r) ==
  /\ openThen' = IF open THEN openThen \cup {r} ELSE openThen
  /\ IF r \in large THEN RequestAsResource(r) /\ UNCHANGED failed
     ELSE RequestAsPacket(r) /\ UNCHANGED upload
  /\ UNCHANGED <<open, transfers, ready>>

StartClockUnchecked(r, proven) ==
  /\ IF proven
     THEN clock' = clock \cup {r} /\ UNCHANGED <<pending, receiving, stalled, failed>>
     ELSE RemoveIfPending(r) /\ failed' = AddAt(failed, {r} \cap pending)
  /\ UNCHANGED <<open, result, openThen, upload, transfers, ready>>

\* request_resource_concluded: an absent entry was claimed by the response.
UploadConcluded(r, proven) ==
  /\ IF r \notin pending THEN UNCHANGED <<list, failed>>
     ELSE IF proven
     THEN clock' = clock \cup {r} /\ UNCHANGED <<pending, receiving, stalled, failed>>
     ELSE failed' = AddAt(failed, {r}) /\ RemoveIfPending(r)
  /\ UNCHANGED <<open, result, openThen, upload, transfers, ready>>

OverLimitDropped(r) ==
  /\ IF open /\ r \in pending
     THEN /\ RemoveIfPending(r)
          /\ ready' = AddAt(ready, {r}) \/ UNCHANGED ready
     ELSE UNCHANGED <<list, ready>>
  /\ UNCHANGED <<open, result, openThen, upload, transfers, failed>>

\* handle_response_packet: the entry is removed; a response over the caller's
\* size limit fails it.
HandleResponse(r) ==
  /\ IF open /\ r \in pending
     THEN /\ RemoveIfPending(r)
          /\ \/ ready' = AddAt(ready, {r}) /\ UNCHANGED failed
             \/ failed' = AddAt(failed, {r}) /\ UNCHANGED ready
     ELSE UNCHANGED <<list, calls>>
  /\ UNCHANGED <<open, result, openThen, upload, transfers>>

\* A response Resource is advertised: rejected for its size, or its entry is
\* taken off the timer and then the transfer accepted.  It may not be: it is being
\* received already (the test for that passes over a Resource that is locked), or
\* Resource::accept returns None.  The entry stays off the timer all the same.
HandleAdvertisement(r) ==
  /\ \/ /\ ~open \/ r \notin pending
        /\ UNCHANGED <<list, transfers, failed>>
     \/ /\ open /\ r \in pending
        /\ RemoveIfPending(r)
        /\ failed' = AddAt(failed, {r})
        /\ UNCHANGED transfers
     \/ /\ open /\ r \in pending
        /\ receiving' = receiving \cup {r}
        /\ \/ transfers' = AddAt(transfers, {r}) /\ stalled' = stalled \ {r}
           \/ /\ stalled' = IF transfers[r] = 0 THEN stalled \cup {r} ELSE stalled
              /\ UNCHANGED transfers
        /\ UNCHANGED <<pending, clock, failed>>
  /\ UNCHANGED <<open, result, openThen, upload, ready>>

ClosedKeepingPending ==
  /\ open' = FALSE
  /\ UNCHANGED <<list, failed>>

\* link_closed: what is pending fails now, drained under the list's lock.
LinkClosed ==
  /\ open' = FALSE
  /\ failed' = AddAt(failed, pending)
  /\ pending' = {} /\ clock' = {} /\ receiving' = {} /\ stalled' = {}

\* A link that is closed already has nothing pending to fail again.
HandleClose ==
  /\ LinkClosed
  /\ UNCHANGED <<result, openThen, upload, transfers, ready>>

Handle(m) ==
  CASE m.kind = "Request"       -> HandleRequest(m.req)
    [] m.kind = "Response"      -> HandleResponse(m.req)
    [] m.kind = "Advertisement" -> HandleAdvertisement(m.req)
    [] m.kind = "UploadProven"  -> UploadConcluded(m.req, TRUE)
    [] m.kind = "UploadFailed"  -> UploadConcluded(m.req, FALSE)
    [] OTHER                    -> HandleClose

\* recv_timeout delivers a message.
RecvMessage ==
  /\ pc = "recv" /\ mailbox # <<>>
  /\ Handle(Head(mailbox))
  /\ mailbox' = Tail(mailbox)
  /\ pc' = IF Head(mailbox).kind = "Teardown" \/ ~open' THEN "exiting" ELSE "tick"
  /\ UNCHANGED <<large, peer, overdue>>

\* It times out: a closed link's actor ends, an open one's runs its checks.
RecvTimeout ==
  /\ pc = "recv" /\ mailbox = <<>>
  /\ pc' = IF open THEN "tick" ELSE "exiting"
  /\ UNCHANGED <<large, open, mailbox, peer, result, openThen, list, overdue, upload,
                 transfers, calls>>

\* The actor ends: the channel goes, and the calls waiting in it are told.
Exit ==
  /\ pc = "exiting"
  /\ pc' = "exited"
  /\ result' = [r \in Requests |-> IF result[r] = "asked" THEN "error" ELSE result[r]]
  /\ mailbox' = <<>>
  /\ UNCHANGED <<large, open, peer, openThen, list, overdue, upload, transfers, calls>>

\* actor_watchdog_tick closes a link that has been silent too long.
WatchdogCloses ==
  /\ pc = "tick"
  /\ pc' = "recv"
  /\ LinkClosed
  /\ UNCHANGED <<large, mailbox, peer, result, openThen, overdue, upload, transfers,
                 ready>>

\* An entry is timed once its clock runs and no response is arriving.
TimesOut(r) == r \in clock \ receiving /\ r \in overdue

\* actor_check_request_timeouts.
CheckTimeouts ==
  LET expired == {r \in pending : TimesOut(r)}
  IN  /\ pc = "tick"
      /\ pc' = "recv"
      /\ failed' = AddAt(failed, expired)
      /\ pending' = pending \ expired
      /\ clock' = clock \ expired
      /\ UNCHANGED <<large, open, mailbox, peer, result, openThen, receiving, stalled,
                     overdue, upload, transfers, ready>>

----------------------------------------------------------------------------
(***************************************************************************)
(* The threads of the Resources.                                           *)
(***************************************************************************)

\* send_request_resource: building encrypts through the actor, and fails on a
\* link that is closed or whose actor is gone.
BuildUpload(r) ==
  /\ upload[r] = "building"
  /\ IF open /\ Running
     THEN /\ upload' = [upload EXCEPT ![r] = "sending"]
          /\ UNCHANGED mailbox
     ELSE /\ upload' = [upload EXCEPT ![r] = "done"]
          /\ Post([kind |-> "UploadFailed", req |-> r])
  /\ UNCHANGED <<large, open, pc, peer, result, openThen, list, overdue, transfers,
                 calls>>

\* The upload concludes, once: the peer proved it, or it failed, was rejected or
\* was cancelled.
ConcludeUpload(r, k) ==
  /\ upload[r] = "sending"
  /\ upload' = [upload EXCEPT ![r] = "done"]
  /\ Post([kind |-> k, req |-> r])
  /\ UNCHANGED <<large, open, pc, peer, result, openThen, list, overdue, transfers,
                 calls>>

ConcludeUnclaimed(r) ==
  /\ transfers[r] > 0
  /\ transfers' = [transfers EXCEPT ![r] = @ - 1]
  /\ RemoveIfPending(r)
  /\ \/ ready' = AddAt(ready, {r}) /\ UNCHANGED failed
     \/ failed' = AddAt(failed, {r}) /\ UNCHANGED ready
  /\ UNCHANGED <<large, open, pc, mailbox, peer, result, openThen, overdue, upload>>

\* A received response Resource's end, on its own thread.
\* The concluded callback of one that is complete takes the request named in the
\* data, which need not be r, if that is still pending.
ResponseAssembled(r) ==
  /\ \E q \in Requests :
       /\ pending' = pending \ {q} /\ clock' = clock \ {q} /\ receiving' = receiving \ {q}
       /\ stalled' = (stalled \cup {r}) \cap pending'
       /\ ready' = AddAt(ready, {q} \cap pending)
  /\ UNCHANGED <<mailbox, peer, failed>>

\* That of one that failed, or does not match its hash, fails r.
ResponseFailed(r) ==
  /\ RemoveIfPending(r)
  /\ failed' = AddAt(failed, {r} \cap pending)
  /\ UNCHANGED <<mailbox, peer, ready>>

\* Nobody is told: a segment that is not the last runs no callback, and the
\* callback returns when there is no data, or no request in it that can be read.
ResponseUnsaid(r) ==
  /\ stalled' = stalled \cup ({r} \cap pending)
  /\ UNCHANGED <<mailbox, peer, pending, clock, receiving, calls>>

\* One that will not decompress is cancelled as Corrupt: no callback, but the
\* link is torn down.
ResponseCorrupt(r) ==
  /\ teardown' = TRUE
  /\ Post([kind |-> "Teardown"])
  /\ UNCHANGED <<answers, list, calls>>

ConcludeTransfer(r) ==
  /\ transfers[r] > 0
  /\ transfers' = [transfers EXCEPT ![r] = @ - 1]
  /\ ResponseAssembled(r) \/ ResponseFailed(r) \/ ResponseUnsaid(r) \/ ResponseCorrupt(r)
  /\ UNCHANGED <<large, open, pc, result, openThen, overdue, upload>>

Actor == RecvMessage \/ RecvTimeout \/ Exit \/ WatchdogCloses \/ CheckTimeouts

Uploads(r) == BuildUpload(r) \/ \E k \in {"UploadProven", "UploadFailed"} : ConcludeUpload(r, k)

\* A link whose actor is gone may rest; any other state without a next step is
\* a deadlock.
Ended == ~Running /\ UNCHANGED vars

Next ==
  \/ \E r \in Requests : CallRequest(r)
  \/ \E r \in Requests, k \in {"Response", "Advertisement"} : PeerAnswers(r, k)
  \/ \E k \in {"Teardown", "LinkClose"} : AskToClose(k)
  \/ \E r \in Requests : Elapse(r)
  \/ Actor
  \/ \E r \in Requests : Uploads(r)
  \/ \E r \in Requests : ConcludeTransfer(r)
  \/ Ended

Spec == Init /\ [][Next]_vars

(***************************************************************************)
(* The actor loop runs whenever it can, each thread of a Resource ends (it *)
(* has a watchdog of its own), and time passes.                            *)
(***************************************************************************)
FairSpec ==
  /\ Spec
  /\ WF_vars(Actor)
  /\ \A r \in Requests : /\ WF_vars(Uploads(r))
                         /\ WF_vars(ConcludeTransfer(r))
                         /\ WF_vars(Elapse(r))

----------------------------------------------------------------------------
(***************************************************************************)
(* Properties.                                                             *)
(***************************************************************************)

\* The list and its two marks agree, and every message names a request.
TypeOK ==
  /\ large \subseteq Requests
  /\ open \in BOOLEAN
  /\ pc \in {"recv", "tick", "exiting", "exited"}
  /\ mailbox \in Seq(Message)
  /\ teardown \in BOOLEAN
  /\ result \in [Requests -> {"none", "asked", "ok", "error"}]
  /\ openThen \subseteq Requests
  /\ pending \subseteq {r \in Requests : result[r] = "ok"}
  /\ clock \subseteq pending
  /\ receiving \subseteq pending
  /\ stalled \subseteq receiving
  /\ overdue \subseteq Requests
  /\ upload \in [Requests -> {"none", "building", "sending", "done"}]
  /\ transfers \in [Requests -> 0 .. MaxAnswers]
  /\ answers \in 0 .. MaxAnswers
  /\ ready \in [Requests -> Nat]
  /\ failed \in [Requests -> Nat]

\* A request concludes at most once: the response packet, the response
\* Resource's thread, the upload's conclusion, the timeout check and the closing
\* link race for its entry, and only one of them calls back.
ConcludesOnce == \A r \in Requests : ready[r] + failed[r] <= 1

\* A request that is neither pending nor refused has concluded: no handler
\* drops an entry without calling back.
NothingDropped ==
  \A r \in Requests :
    result[r] = "ok" => r \in pending \/ ready[r] + failed[r] = 1

UploadMessage(r) ==
  \E i \in DOMAIN mailbox : mailbox[i] \in [kind : {"UploadProven", "UploadFailed"}, req : {r}]

TeardownMessage == \E i \in DOMAIN mailbox : mailbox[i].kind = "Teardown"

\* While the actor runs, every pending request has something left that will
\* conclude it: its timeout, its upload or the message the upload left, a response
\* being received, or the teardown a corrupt one asked for.  The exception the code
\* makes is a request taken off its timer for a transfer that was not started, or
\* that ended without a word to it: only a further response or the close of the
\* link concludes that one.
PendingIsDriven ==
  pc \in {"recv", "tick"} => \A r \in pending :
    \/ r \in clock \ receiving
    \/ upload[r] \in {"building", "sending"} \/ UploadMessage(r)
    \/ transfers[r] > 0 \/ TeardownMessage
    \/ r \in stalled

\* A request the link accepted while it was open concludes: its response or its
\* failed callback runs, whether the response comes, the upload fails, the time
\* runs out or the link closes first.  Only one that stays stalled on a link that
\* stays open waits for ever.
AcceptedConcludes ==
  \A r \in Requests :
    (result[r] = "ok" /\ r \in openThen)
      ~> ((ready[r] + failed[r] = 1) \/ [](r \in stalled /\ open))

\* "The close is the failure event": every request that was answered Ok
\* concludes, also one that reached the actor of a link already closed.
EveryOkConcludes ==
  \A r \in Requests : (result[r] = "ok") ~> (ready[r] + failed[r] = 1)

=============================================================================
