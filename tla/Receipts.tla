------------------------------ MODULE Receipts ------------------------------
(***************************************************************************)
(* Packet receipts: PacketReceipt (packet.rs) and the part of Transport    *)
(* that tracks, times out, culls and proves them (transport.rs).           *)
(*                                                                         *)
(* Threads: the jobs loop, the inbound threads handling PROOF packets      *)
(* (Provers), the application, and the threads spawned to run callbacks.   *)
(* A receipt's `inner' mutex makes each single status test-and-set one     *)
(* step.  The TRANSPORT mutex guards `tracked'; the jobs loop holds it for *)
(* its whole receipts pass, everybody else for one step, so it is free     *)
(* exactly when jobs.at = "idle".                                          *)
(*                                                                         *)
(* Time is a flag: due[r] says sent_at + timeout < now.  `calls' and `ran' *)
(* are histories: how many times a callback of each kind was set going,    *)
(* and the order in which they ran.                                        *)
(*                                                                         *)
(* NotifyForgotten, CallbackThreadUnspawned, NotDelivered,                 *)
(* FireUnlessTimedOut, WithoutLookAlike, CulledOnly, ExcessOneShort and    *)
(* JobsDrainSilently are defective variants of the definitions they        *)
(* precede, used only to show that the properties can tell the difference. *)
(***************************************************************************)
EXTENDS Naturals, Sequences, FiniteSets

CONSTANTS Receipts,        \* receipts of the packets that may be sent
          Provers,         \* inbound threads that may carry a proof at once
          MaxReceipts,     \* MAX_RECEIPTS
          AppSetsTimeout,  \* whether the application calls set_timeout
          DebugBuild,      \* whether debug_assertions are compiled in
          None             \* no receipt

Kinds == {"delivery", "timeout"}

ASSUME MaxReceiptsAssumption == MaxReceipts \in Nat
ASSUME NoneAssumption == None \notin Receipts
ASSUME AppSetsTimeoutAssumption == AppSetsTimeout \in BOOLEAN
ASSUME DebugBuildAssumption == DebugBuild \in BOOLEAN

VARIABLES tracked,     \* Transport's state.receipts
          status,      \* PacketReceiptInner.status; "unsent" before outbound
          timeout,     \* "estimate", or "cull" for the -1.0 of the cull
          due,         \* the (estimated) timeout has elapsed
          registered,  \* which of the two callbacks are set
          notified,    \* delivery_notified, timeout_notified
          calls,       \* callback invocations set going, per kind
          spawned,     \* callback threads that have not run yet, per kind
          ran,         \* kinds of the callbacks that ran, in order
          prover,      \* the inbound threads
          jobs         \* the receipts pass of the jobs loop

rvars == <<status, timeout, due, registered, notified, calls, spawned, ran>>
vars == <<tracked, status, timeout, due, registered, notified, calls, spawned,
          ran, prover, jobs>>

ProverIdle == [at |-> "idle", receipt |-> None, fire |-> FALSE]
JobsIdle == [at |-> "idle", todo |-> << >>]
TransportFree == jobs.at = "idle"

Init == /\ tracked = << >>
        /\ status = [r \in Receipts |-> "unsent"]
        /\ timeout = [r \in Receipts |-> "estimate"]
        /\ due = [r \in Receipts |-> FALSE]
        /\ registered = [r \in Receipts |-> {}]
        /\ notified = [r \in Receipts |-> {}]
        /\ calls = [c \in Receipts \X Kinds |-> 0]
        /\ spawned = [c \in Receipts \X Kinds |-> 0]
        /\ ran = [r \in Receipts |-> << >>]
        /\ prover = [p \in Provers |-> ProverIdle]
        /\ jobs = JobsIdle

(***************************************************************************)
(* Transport::outbound creates the receipt and pushes it while it holds    *)
(* the TRANSPORT lock, before the packet is dispatched.                    *)
(***************************************************************************)
Outbound(r) ==
  /\ TransportFree
  /\ status[r] = "unsent"
  /\ status' = [status EXCEPT ![r] = "SENT"]
  /\ tracked' = Append(tracked, r)
  /\ UNCHANGED <<timeout, due, registered, notified, calls, spawned, ran, prover, jobs>>

(* The clock passes sent_at + timeout.                                     *)
Elapse(r) ==
  /\ status[r] = "SENT"
  /\ ~due[r]
  /\ due' = [due EXCEPT ![r] = TRUE]
  /\ UNCHANGED <<tracked, status, timeout, registered, notified, calls, spawned, ran, prover, jobs>>

(* PacketReceipt::set_timeout by the application: a longer estimate.       *)
SetTimeout(r) ==
  /\ AppSetsTimeout
  /\ status[r] # "unsent"
  /\ timeout' = [timeout EXCEPT ![r] = "estimate"]
  /\ due' = [due EXCEPT ![r] = FALSE]
  /\ UNCHANGED <<tracked, status, registered, notified, calls, spawned, ran, prover, jobs>>

----------------------------------------------------------------------------
(***************************************************************************)
(* Callbacks.  A conclusion sets the callback of its kind going, if one is *)
(* registered, and records whether it did; a callback registered after the *)
(* conclusion runs on a thread of its own if none was notified.            *)
(***************************************************************************)
LateFor(k) == IF k = "delivery" THEN {"DELIVERED"} ELSE {"FAILED", "CULLED"}

NotifyForgotten(r, k) == UNCHANGED notified

Notify(r, k) ==
  notified' = [notified EXCEPT ![r] = IF k \in registered[r] THEN @ \cup {k} ELSE @ \ {k}]

Call(r, k) == calls' = [calls EXCEPT ![<<r, k>>] = @ + 1]
Spawn(r, k) == spawned' = [spawned EXCEPT ![<<r, k>>] = @ + 1]

SetCallback(r, k) ==
  LET late == status[r] \in LateFor(k) /\ k \notin notified[r]
  IN /\ status[r] # "unsent"
     /\ registered' = [registered EXCEPT ![r] = @ \cup {k}]
     /\ IF late
          THEN /\ notified' = [notified EXCEPT ![r] = @ \cup {k}]
               /\ Call(r, k)
               /\ Spawn(r, k)
          ELSE UNCHANGED <<notified, calls, spawned>>
     /\ UNCHANGED <<tracked, status, timeout, due, ran, prover, jobs>>

CallbackThreadUnspawned(r, k) ==
  /\ status[r] \in LateFor(k)
  /\ Len(ran[r]) < 3
  /\ spawned' = [spawned EXCEPT ![<<r, k>>] = @ - 1]
  /\ ran' = [ran EXCEPT ![r] = Append(@, k)]
  /\ UNCHANGED <<tracked, status, timeout, due, registered, notified, calls, prover, jobs>>

CallbackThread(r, k) ==
  /\ spawned[<<r, k>>] > 0
  /\ spawned' = [spawned EXCEPT ![<<r, k>>] = @ - 1]
  /\ ran' = [ran EXCEPT ![r] = Append(@, k)]
  /\ UNCHANGED <<tracked, status, timeout, due, registered, notified, calls, prover, jobs>>

----------------------------------------------------------------------------
(***************************************************************************)
(* A PROOF packet for r on inbound thread p.  proof_candidates looks at    *)
(* the tracked receipts under the TRANSPORT lock; conclude_proved_receipts *)
(* tests the candidate again, validates the signature (for a link, a round *)
(* trip to its actor), and mark_delivered settles it under the receipt's   *)
(* own lock.  The delivery callback then runs on this thread, and the      *)
(* receipt leaves the list in a last step under the TRANSPORT lock.        *)
(***************************************************************************)
NotDelivered(r) == status[r] \in {"SENT", "FAILED", "CULLED"}

Provable(r) == status[r] \in {"SENT", "FAILED"}

Tracked(r) == \E i \in 1..Len(tracked) : tracked[i] = r

ProofCandidates(p, r) ==
  /\ TransportFree
  /\ prover[p].at = "idle"
  /\ Tracked(r) /\ Provable(r)
  /\ prover' = [prover EXCEPT ![p] = [at |-> "candidate", receipt |-> r, fire |-> FALSE]]
  /\ UNCHANGED <<tracked, rvars, jobs>>

CheckCandidate(p) ==
  /\ prover[p].at = "candidate"
  /\ prover' = [prover EXCEPT ![p] = IF Provable(@.receipt) THEN [@ EXCEPT !.at = "validate"]
                                                            ELSE ProverIdle]
  /\ UNCHANGED <<tracked, rvars, jobs>>

InvalidProof(p) ==
  /\ prover[p].at = "validate"
  /\ prover' = [prover EXCEPT ![p] = ProverIdle]
  /\ UNCHANGED <<tracked, rvars, jobs>>

MarkDelivered(p) ==
  LET r == prover[p].receipt
      fire == "delivery" \in registered[r]
  IN /\ prover[p].at = "validate"
     /\ IF Provable(r)
          THEN /\ status' = [status EXCEPT ![r] = "DELIVERED"]
               /\ Notify(r, "delivery")
               /\ IF fire THEN Call(r, "delivery") ELSE UNCHANGED calls
               /\ prover' = [prover EXCEPT ![p] = [@ EXCEPT !.at = "callback", !.fire = fire]]
          ELSE /\ prover' = [prover EXCEPT ![p] = ProverIdle]
               /\ UNCHANGED <<status, notified, calls>>
     /\ UNCHANGED <<tracked, timeout, due, registered, spawned, ran, jobs>>

(***************************************************************************)
(* fire_delivery_callback, called whether a callback is set or not.  It    *)
(* first asserts that the success came within 5 s of the sending.  That    *)
(* may be before or after the receipt's timeout, which is some             *)
(* milliseconds for a packet over a link.  Past it a release build logs    *)
(* and goes on; a debug build panics: the handling of the proof unwinds,   *)
(* so neither is the callback run nor the receipt taken off the list.      *)
(***************************************************************************)
FireUnlessTimedOut(p) ==
  LET r == prover[p].receipt
  IN /\ prover[p].at = "callback"
     /\ ran' = IF prover[p].fire /\ ran[r] = << >> THEN [ran EXCEPT ![r] = Append(@, "delivery")] ELSE ran
     /\ prover' = [prover EXCEPT ![p] = [@ EXCEPT !.at = "untrack", !.fire = FALSE]]
     /\ UNCHANGED <<tracked, status, timeout, due, registered, notified, calls, spawned, jobs>>

RunDeliveryCallback(p) ==
  LET r == prover[p].receipt
  IN /\ ran' = IF prover[p].fire THEN [ran EXCEPT ![r] = Append(@, "delivery")] ELSE ran
     /\ prover' = [prover EXCEPT ![p] = [@ EXCEPT !.at = "untrack", !.fire = FALSE]]

LateSuccessPanics(p) ==
  /\ DebugBuild
  /\ prover' = [prover EXCEPT ![p] = ProverIdle]
  /\ UNCHANGED ran

FireDeliveryCallback(p) ==
  /\ prover[p].at = "callback"
  /\ RunDeliveryCallback(p) \/ LateSuccessPanics(p)
  /\ UNCHANGED <<tracked, status, timeout, due, registered, notified, calls, spawned, jobs>>

WithoutLookAlike(seq, r) == seq

Without(seq, r) ==
  LET j == CHOOSE i \in 1..Len(seq) : seq[i] = r
  IN IF \E i \in 1..Len(seq) : seq[i] = r
       THEN SubSeq(seq, 1, j - 1) \o SubSeq(seq, j + 1, Len(seq))
       ELSE seq

Untrack(p) ==
  /\ TransportFree
  /\ prover[p].at = "untrack"
  /\ tracked' = Without(tracked, prover[p].receipt)
  /\ prover' = [prover EXCEPT ![p] = ProverIdle]
  /\ UNCHANGED <<rvars, jobs>>

ProverStep(p) == \/ CheckCandidate(p)
                 \/ InvalidProof(p)
                 \/ MarkDelivered(p)
                 \/ FireDeliveryCallback(p)
                 \/ Untrack(p)

----------------------------------------------------------------------------
(***************************************************************************)
(* PacketReceipt::check_timeout, one step under the receipt's lock.        *)
(***************************************************************************)
CulledOnly(r) == status[r] = "SENT" /\ timeout[r] = "cull"

TimedOut(r) == status[r] = "SENT" /\ (timeout[r] = "cull" \/ due[r])

CheckTimeout(r) ==
  IF TimedOut(r)
    THEN /\ status' = [status EXCEPT ![r] = IF timeout[r] = "cull" THEN "CULLED" ELSE "FAILED"]
         /\ Notify(r, "timeout")
         /\ IF "timeout" \in registered[r] THEN Call(r, "timeout") /\ Spawn(r, "timeout")
                                           ELSE UNCHANGED <<calls, spawned>>
    ELSE UNCHANGED <<status, notified, calls, spawned>>

(***************************************************************************)
(* The receipts pass of Transport::jobs: drain the oldest receipts beyond  *)
(* MAX_RECEIPTS, culling each; check every other one for its timeout; and  *)
(* retain what a proof can still deliver.                                  *)
(***************************************************************************)
ExcessOneShort == IF Len(tracked) > MaxReceipts + 1 THEN Len(tracked) - MaxReceipts - 1 ELSE 0

Excess == IF Len(tracked) > MaxReceipts THEN Len(tracked) - MaxReceipts ELSE 0

JobsBegin ==
  /\ jobs.at = "idle"
  /\ jobs' = [at |-> "cull", todo |-> SubSeq(tracked, 1, Excess)]
  /\ tracked' = SubSeq(tracked, Excess + 1, Len(tracked))
  /\ UNCHANGED <<rvars, prover>>

JobsCull ==
  /\ jobs.at = "cull" /\ jobs.todo # << >>
  /\ timeout' = [timeout EXCEPT ![Head(jobs.todo)] = "cull"]
  /\ jobs' = [jobs EXCEPT !.at = "check culled"]
  /\ UNCHANGED <<tracked, status, due, registered, notified, calls, spawned, ran, prover>>

JobsDrainSilently ==
  /\ jobs.at = "check culled"
  /\ jobs' = [at |-> "cull", todo |-> Tail(jobs.todo)]
  /\ UNCHANGED <<tracked, rvars, prover>>

JobsCheckCulled ==
  /\ jobs.at = "check culled"
  /\ CheckTimeout(Head(jobs.todo))
  /\ jobs' = [at |-> "cull", todo |-> Tail(jobs.todo)]
  /\ UNCHANGED <<tracked, timeout, due, registered, ran, prover>>

JobsCulled ==
  /\ jobs.at = "cull" /\ jobs.todo = << >>
  /\ jobs' = [at |-> "check", todo |-> tracked]
  /\ UNCHANGED <<tracked, rvars, prover>>

JobsCheck ==
  /\ jobs.at = "check" /\ jobs.todo # << >>
  /\ CheckTimeout(Head(jobs.todo))
  /\ jobs' = [jobs EXCEPT !.todo = Tail(@)]
  /\ UNCHANGED <<tracked, timeout, due, registered, ran, prover>>

JobsChecked ==
  /\ jobs.at = "check" /\ jobs.todo = << >>
  /\ jobs' = [at |-> "retain", todo |-> tracked]
  /\ UNCHANGED <<tracked, rvars, prover>>

JobsRetain ==
  /\ jobs.at = "retain" /\ jobs.todo # << >>
  /\ tracked' = IF Provable(Head(jobs.todo)) THEN tracked ELSE Without(tracked, Head(jobs.todo))
  /\ jobs' = [jobs EXCEPT !.todo = Tail(@)]
  /\ UNCHANGED <<rvars, prover>>

JobsEnd ==
  /\ jobs.at = "retain" /\ jobs.todo = << >>
  /\ jobs' = JobsIdle
  /\ UNCHANGED <<tracked, rvars, prover>>

JobsStep == \/ JobsBegin \/ JobsCull \/ JobsCheckCulled \/ JobsCulled
            \/ JobsCheck \/ JobsChecked \/ JobsRetain \/ JobsEnd

----------------------------------------------------------------------------
ReceiptStep(r) == \/ Outbound(r)
                  \/ Elapse(r)
                  \/ SetTimeout(r)
                  \/ \E k \in Kinds : SetCallback(r, k) \/ CallbackThread(r, k)
                  \/ \E p \in Provers : ProofCandidates(p, r)

Next == \/ \E r \in Receipts : ReceiptStep(r)
        \/ \E p \in Provers : ProverStep(p)
        \/ JobsStep

Spec == Init /\ [][Next]_vars

(***************************************************************************)
(* The jobs loop runs every JOB_INTERVAL, inbound threads finish what they *)
(* began, spawned threads run, and time passes.                            *)
(***************************************************************************)
Fairness == /\ WF_vars(JobsStep)
            /\ \A p \in Provers : SF_vars(ProverStep(p))
            /\ \A r \in Receipts : WF_vars(Elapse(r))
            /\ \A r \in Receipts, k \in Kinds : WF_vars(CallbackThread(r, k))

FairSpec == Spec /\ Fairness

----------------------------------------------------------------------------
ProverState == [at : {"idle", "candidate", "validate", "callback", "untrack"},
                receipt : Receipts \cup {None}, fire : BOOLEAN]
JobsState == [at : {"idle", "cull", "check culled", "check", "retain"}, todo : Seq(Receipts)]
Status == {"unsent", "SENT", "FAILED", "DELIVERED", "CULLED"}

(* Type invariant: a thread that holds a candidate holds a receipt.        *)
TypeOK ==
  /\ tracked \in Seq(Receipts)
  /\ status \in [Receipts -> Status]
  /\ timeout \in [Receipts -> {"estimate", "cull"}]
  /\ due \in [Receipts -> BOOLEAN]
  /\ registered \in [Receipts -> SUBSET Kinds]
  /\ notified \in [Receipts -> SUBSET Kinds]
  /\ calls \in [Receipts \X Kinds -> Nat]
  /\ spawned \in [Receipts \X Kinds -> Nat]
  /\ ran \in [Receipts -> Seq(Kinds)]
  /\ prover \in [Provers -> ProverState]
  /\ \A p \in Provers : prover[p].at # "idle" => prover[p].receipt \in Receipts
  /\ jobs \in JobsState
  /\ jobs.at = "check culled" => jobs.todo # << >>

(***************************************************************************)
(* Exactly once: however proofs, timeouts and registrations race, the      *)
(* callback registered for the receipt's conclusion is set going once: no  *)
(* kind is ever called twice, and a concluded receipt with a callback of   *)
(* that kind has called it (mark_delivered, check_timeout,                 *)
(* set_delivery_callback, set_timeout_callback).                           *)
(***************************************************************************)
CalledExactlyOnce ==
  \A r \in Receipts, k \in Kinds :
    /\ calls[<<r, k>>] <= 1
    /\ status[r] \in LateFor(k) /\ k \in registered[r] => calls[<<r, k>>] = 1

(***************************************************************************)
(* Why: the notified flags are an exact ledger of the calls, they are only *)
(* set by a conclusion of their kind, and only for a registered callback.  *)
(* This is the inductive form of CalledExactlyOnce.                        *)
(***************************************************************************)
CallLedger ==
  \A r \in Receipts, k \in Kinds :
    /\ calls[<<r, k>>] = IF k \in notified[r] THEN 1 ELSE 0
    /\ k \in notified[r] => /\ k \in registered[r]
                            /\ status[r] \in LateFor(k) \cup {"DELIVERED"}
    /\ status[r] \in LateFor(k) /\ k \in registered[r] => k \in notified[r]

(***************************************************************************)
(* "A delivered receipt never times out, and a second proof delivers       *)
(* nothing" (mark_delivered): DELIVERED and CULLED are final, a timed-out  *)
(* receipt can only be delivered late, and once DELIVERED no timeout       *)
(* callback is set going any more.                                         *)
(***************************************************************************)
OneWay ==
  [][\A r \in Receipts :
       /\ status[r] \in {"DELIVERED", "CULLED"} => status'[r] = status[r]
       /\ status[r] = "FAILED" => status'[r] \in {"FAILED", "DELIVERED"}
       /\ status[r] = "DELIVERED" => calls'[<<r, "timeout">>] = calls[<<r, "timeout">>]]_vars

(***************************************************************************)
(* Nothing outstanding is forgotten: a receipt still SENT is on Transport's*)
(* list, or is one of those the jobs pass has drained and is about to      *)
(* cull.  (jobs: "They used to be drained silently - the sender of a       *)
(* culled packet waited on a receipt nothing would ever conclude.")        *)
(***************************************************************************)
BeingCulled(r) == /\ jobs.at \in {"cull", "check culled"}
                  /\ \E i \in 1..Len(jobs.todo) : jobs.todo[i] = r

SentIsWatched ==
  \A r \in Receipts : status[r] = "SENT" => Tracked(r) \/ BeingCulled(r)

(***************************************************************************)
(* Once the pass has drained the excess the list is within MAX_RECEIPTS    *)
(* for the rest of the pass, and no receipt is listed twice.               *)
(***************************************************************************)
PassBoundsList ==
  /\ jobs.at # "idle" => Len(tracked) <= MaxReceipts
  /\ \A i, j \in 1..Len(tracked) : tracked[i] = tracked[j] => i = j

(***************************************************************************)
(* Every receipt concludes: it is proved, times out or is culled.          *)
(***************************************************************************)
EveryReceiptConcludes ==
  \A r \in Receipts : status[r] = "SENT" ~> status[r] \in {"FAILED", "DELIVERED", "CULLED"}

(***************************************************************************)
(* The list does not keep what no proof can deliver.                       *)
(***************************************************************************)
ConcludedIsForgotten ==
  \A r \in Receipts : status[r] \in {"DELIVERED", "CULLED"} ~> ~Tracked(r)

(***************************************************************************)
(* In a release build a callback that was set going runs: no proof, late   *)
(* or not, and no timeout loses the one it claimed by its notified flag    *)
(* (mark_delivered, fire_delivery_callback, check_timeout and the late     *)
(* registrations).  In a debug build the assertion of                      *)
(* fire_delivery_callback loses the delivery callback of a proof later     *)
(* than 5 s, for good, since delivery_notified is set.  The order of the   *)
(* two callbacks of a receipt that was delivered late is not claimed: the  *)
(* timeout callback has a thread of its own and may run last.              *)
(***************************************************************************)
EveryCallRuns ==
  \A r \in Receipts, k \in Kinds :
    ~DebugBuild /\ calls[<<r, k>>] > 0 ~> \E i \in DOMAIN ran[r] : ran[r][i] = k

(***************************************************************************)
(* The machinery of locks, lists, flags and threads implements the         *)
(* one-step-at-a-time receipt of ReceiptContract.                          *)
(***************************************************************************)
Contract == INSTANCE ReceiptContract
ImplementsContract == Contract!Spec
=============================================================================
