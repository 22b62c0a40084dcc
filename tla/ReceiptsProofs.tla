--------------------------- MODULE ReceiptsProofs ---------------------------
(***************************************************************************)
(* Proofs about Receipts, for any set of receipts, any number of inbound   *)
(* threads and any MAX_RECEIPTS.                                           *)
(***************************************************************************)
EXTENDS Receipts, TLAPS, SequenceTheorems

(***************************************************************************)
(* Taking a receipt out of a list leaves the others, each as often as      *)
(* before.                                                                 *)
(***************************************************************************)
LEMMA WithoutProperties ==
  ASSUME NEW S, NEW seq \in Seq(S), NEW r,
         \E i \in 1..Len(seq) : seq[i] = r
  PROVE  \E j \in 1..Len(seq) :
           /\ seq[j] = r
           /\ Without(seq, r) \in Seq(S)
           /\ Len(Without(seq, r)) = Len(seq) - 1
           /\ \A i \in 1..Len(seq) - 1 :
                Without(seq, r)[i] = IF i < j THEN seq[i] ELSE seq[i + 1]
<1>. DEFINE j == CHOOSE i \in 1..Len(seq) : seq[i] = r
            front == SubSeq(seq, 1, j - 1)
            back == SubSeq(seq, j + 1, Len(seq))
<1>1. j \in 1..Len(seq) /\ seq[j] = r
  OBVIOUS
<1>2. Len(seq) \in Nat /\ \A i \in 1..Len(seq) : seq[i] \in S
  BY LenProperties, ElementOfSeq
<1>. HIDE DEF j
<1>3. /\ front \in Seq(S)
      /\ Len(front) = j - 1
      /\ \A i \in 1..j - 1 : front[i] = seq[i]
  <2>1. 1 \in Int /\ j - 1 \in Int /\ \A i \in 1..j - 1 : seq[i] \in S
    BY <1>1, <1>2
  <2>. QED
    BY <1>1, <1>2, <2>1, SubSeqProperties
<1>4. /\ back \in Seq(S)
      /\ Len(back) = Len(seq) - j
      /\ \A i \in 1..Len(seq) - j : back[i] = seq[j + i]
  <2>1. j + 1 \in Int /\ Len(seq) \in Int /\ \A i \in j + 1..Len(seq) : seq[i] \in S
    BY <1>1, <1>2
  <2>2. /\ SubSeq(seq, j + 1, Len(seq)) \in Seq(S)
        /\ Len(back) = IF j + 1 <= Len(seq) THEN Len(seq) - (j + 1) + 1 ELSE 0
        /\ \A i \in 1..Len(seq) - (j + 1) + 1 : back[i] = seq[(j + 1) + i - 1]
    BY <2>1, SubSeqProperties
  <2>. QED
    BY <1>1, <1>2, <2>2
<1>5. Without(seq, r) = front \o back
  BY DEF Without, j
<1>. HIDE DEF front, back
<1>6. /\ front \o back \in Seq(S)
      /\ Len(front \o back) = Len(seq) - 1
      /\ \A i \in 1..Len(seq) - 1 :
           (front \o back)[i] = IF i <= j - 1 THEN front[i] ELSE back[i - (j - 1)]
  <2>1. Len(front) + Len(back) = Len(seq) - 1
    BY <1>1, <1>2, <1>3, <1>4
  <2>2. front \in Seq(S) /\ back \in Seq(S)
    BY <1>3, <1>4
  <2>3. /\ front \o back \in Seq(S)
        /\ Len(front \o back) = Len(front) + Len(back)
        /\ \A i \in 1 .. Len(front) + Len(back) :
             (front \o back)[i] = IF i <= Len(front) THEN front[i]
                                                    ELSE back[i - Len(front)]
    BY ONLY <2>2, ConcatProperties, Zenon
  <2>4. Len(front) = j - 1
    BY <1>3
  <2>. QED
    BY ONLY <2>1, <2>3, <2>4, Zenon
<1>7. ASSUME NEW i \in 1..Len(seq) - 1
      PROVE  Without(seq, r)[i] = IF i < j THEN seq[i] ELSE seq[i + 1]
  <2>1. CASE i < j
    BY <1>1, <1>2, <1>3, <1>5, <1>6, <2>1
  <2>2. CASE ~(i < j)
    <3>1. i - (j - 1) \in 1..Len(seq) - j /\ j + (i - (j - 1)) = i + 1
      BY <1>1, <1>2, <2>2
    <3>. QED
      BY <1>1, <1>2, <1>4, <1>5, <1>6, <2>2, <3>1
  <2>. QED
    BY <2>1, <2>2
<1>. QED
  BY <1>1, <1>5, <1>6, <1>7

(***************************************************************************)
(* A list the receipt is not in is left as it is.                          *)
(***************************************************************************)
LEMMA WithoutAbsent ==
  ASSUME NEW seq, NEW r, ~ \E i \in 1..Len(seq) : seq[i] = r
  PROVE  Without(seq, r) = seq
BY DEF Without

(***************************************************************************)
(* Taking a receipt out of a list of receipts leaves such a list.          *)
(***************************************************************************)
LEMMA WithoutType ==
  ASSUME NEW S, NEW seq \in Seq(S), NEW r
  PROVE  Without(seq, r) \in Seq(S)
BY WithoutProperties, WithoutAbsent

(***************************************************************************)
(* Before anything is sent every variable has its type.                    *)
(***************************************************************************)
LEMMA InitTypeOK == Init => TypeOK
BY NoneAssumption DEF Init, TypeOK, ProverIdle, JobsIdle, Kinds, Status, ProverState, JobsState

(***************************************************************************)
(* check_timeout keeps the types of the receipt's fields.                  *)
(***************************************************************************)
LEMMA CheckTimeoutType ==
  ASSUME TypeOK, NEW r \in Receipts, CheckTimeout(r)
  PROVE  /\ status' \in [Receipts -> Status]
         /\ notified' \in [Receipts -> SUBSET Kinds]
         /\ calls' \in [Receipts \X Kinds -> Nat]
         /\ spawned' \in [Receipts \X Kinds -> Nat]
<1>1. "timeout" \in Kinds
  BY DEF Kinds
<1>2. CASE TimedOut(r)
  <2>. /\ notified \in [Receipts -> SUBSET Kinds]
       /\ calls \in [Receipts \X Kinds -> Nat]
       /\ spawned \in [Receipts \X Kinds -> Nat]
    BY DEF TypeOK
  <2>1. status' \in [Receipts -> Status]
    BY <1>2 DEF TypeOK, CheckTimeout, Status
  <2>2. notified' \in [Receipts -> SUBSET Kinds]
    <3>1. \/ notified' = [notified EXCEPT ![r] = @ \cup {"timeout"}]
          \/ notified' = [notified EXCEPT ![r] = @ \ {"timeout"}]
      BY <1>2 DEF CheckTimeout, Notify
    <3>. QED
      BY <1>1, <3>1
  <2>3. calls' \in [Receipts \X Kinds -> Nat]
    <3>1. calls' = calls \/ calls' = [calls EXCEPT ![<<r, "timeout">>] = @ + 1]
      BY <1>2 DEF CheckTimeout, Call
    <3>. QED
      BY <1>1, <3>1
  <2>4. spawned' \in [Receipts \X Kinds -> Nat]
    <3>1. spawned' = spawned \/ spawned' = [spawned EXCEPT ![<<r, "timeout">>] = @ + 1]
      BY <1>2 DEF CheckTimeout, Spawn
    <3>. QED
      BY <1>1, <3>1
  <2>. QED
    BY <2>1, <2>2, <2>3, <2>4
<1>3. CASE ~TimedOut(r)
  BY <1>3 DEF TypeOK, CheckTimeout
<1>. QED
  BY <1>2, <1>3

(***************************************************************************)
(* Every step of the application, an inbound thread or the jobs pass keeps *)
(* the types.                                                              *)
(***************************************************************************)
LEMMA NextTypeOK == TypeOK /\ [Next]_vars => TypeOK'
<1>. SUFFICES ASSUME TypeOK, [Next]_vars PROVE TypeOK'
  OBVIOUS
<1>a. /\ registered \in [Receipts -> SUBSET Kinds]
      /\ notified \in [Receipts -> SUBSET Kinds]
      /\ status \in [Receipts -> Status]
  BY DEF TypeOK
<1>b. /\ calls \in [Receipts \X Kinds -> Nat]
      /\ spawned \in [Receipts \X Kinds -> Nat]
  BY DEF TypeOK
<1>c. ran \in [Receipts -> Seq(Kinds)]
  BY DEF TypeOK
<1>d. /\ prover \in [Provers -> ProverState]
      /\ \A p \in Provers : prover[p].at # "idle" => prover[p].receipt \in Receipts
      /\ ProverIdle \in ProverState /\ ProverIdle.at = "idle"
  BY DEF TypeOK, ProverIdle, ProverState
<1>e. /\ tracked \in Seq(Receipts)
      /\ jobs.todo \in Seq(Receipts)
  BY DEF TypeOK, JobsState
<1>f. "delivery" \in Kinds /\ "timeout" \in Kinds /\ "DELIVERED" \in Status /\ "SENT" \in Status
  BY DEF Kinds, Status
<1>g. ASSUME NEW p \in Provers, NEW s \in ProverState,
             s.at # "idle" => s.receipt \in Receipts,
             prover' = [prover EXCEPT ![p] = s]
      PROVE  /\ prover' \in [Provers -> ProverState]
             /\ \A q \in Provers : prover'[q].at # "idle" => prover'[q].receipt \in Receipts
  BY <1>d, <1>g
<1>1. ASSUME NEW r \in Receipts, Outbound(r) PROVE TypeOK'
  BY <1>1, <1>e, <1>f, AppendProperties DEF TypeOK, Outbound
<1>2. ASSUME NEW r \in Receipts, Elapse(r) PROVE TypeOK'
  BY <1>2 DEF TypeOK, Elapse
<1>3. ASSUME NEW r \in Receipts, SetTimeout(r) PROVE TypeOK'
  BY <1>3 DEF TypeOK, SetTimeout
<1>4. ASSUME NEW r \in Receipts, NEW k \in Kinds, SetCallback(r, k) PROVE TypeOK'
  <2>1. registered' \in [Receipts -> SUBSET Kinds]
    <3>1. registered' = [registered EXCEPT ![r] = @ \cup {k}]
      BY <1>4 DEF SetCallback
    <3>. QED
      BY <1>a, <3>1
  <2>2. notified' \in [Receipts -> SUBSET Kinds]
    <3>1. notified' = notified \/ notified' = [notified EXCEPT ![r] = @ \cup {k}]
      BY <1>4 DEF SetCallback
    <3>. QED
      BY <1>a, <3>1
  <2>3. calls' \in [Receipts \X Kinds -> Nat]
    <3>1. calls' = calls \/ calls' = [calls EXCEPT ![<<r, k>>] = @ + 1]
      BY <1>4 DEF SetCallback, Call
    <3>. QED
      BY <1>b, <3>1
  <2>4. spawned' \in [Receipts \X Kinds -> Nat]
    <3>1. spawned' = spawned \/ spawned' = [spawned EXCEPT ![<<r, k>>] = @ + 1]
      BY <1>4 DEF SetCallback, Spawn
    <3>. QED
      BY <1>b, <3>1
  <2>. QED
    BY <1>4, <2>1, <2>2, <2>3, <2>4 DEF TypeOK, SetCallback
<1>5. ASSUME NEW r \in Receipts, NEW k \in Kinds, CallbackThread(r, k) PROVE TypeOK'
  <2>1. ran' \in [Receipts -> Seq(Kinds)]
    <3>1. Append(ran[r], k) \in Seq(Kinds)
      BY <1>c, AppendProperties
    <3>. QED
      BY <1>5, <1>c, <3>1 DEF CallbackThread
  <2>2. spawned' \in [Receipts \X Kinds -> Nat]
    <3>1. spawned[<<r, k>>] > 0 /\ spawned' = [spawned EXCEPT ![<<r, k>>] = @ - 1]
      BY <1>5 DEF CallbackThread
    <3>2. spawned[<<r, k>>] - 1 \in Nat
      BY <1>b, <3>1
    <3>. QED
      BY <1>b, <3>1, <3>2
  <2>. QED
    BY <1>5, <2>1, <2>2 DEF TypeOK, CallbackThread
<1>6. ASSUME NEW r \in Receipts, NEW p \in Provers, ProofCandidates(p, r) PROVE TypeOK'
  <2>. DEFINE s == [at |-> "candidate", receipt |-> r, fire |-> FALSE]
  <2>1. s \in ProverState /\ s.receipt \in Receipts
    BY DEF ProverState
  <2>. QED
    BY <1>6, <1>g, <2>1 DEF TypeOK, ProofCandidates, rvars
<1>7. ASSUME NEW p \in Provers, CheckCandidate(p) PROVE TypeOK'
  <2>. DEFINE s == [prover[p] EXCEPT !.at = "validate"]
  <2>1. s \in ProverState /\ s.receipt \in Receipts
    BY <1>7, <1>d DEF ProverState, CheckCandidate
  <2>2. prover' = [prover EXCEPT ![p] = s] \/ prover' = [prover EXCEPT ![p] = ProverIdle]
    BY <1>7 DEF CheckCandidate
  <2>. QED
    BY <1>7, <1>d, <1>g, <2>1, <2>2 DEF TypeOK, CheckCandidate, rvars
<1>8. ASSUME NEW p \in Provers, InvalidProof(p) PROVE TypeOK'
  BY <1>8, <1>d, <1>g DEF TypeOK, InvalidProof, rvars
<1>9. ASSUME NEW p \in Provers, MarkDelivered(p) PROVE TypeOK'
  <2>. DEFINE r == prover[p].receipt
              fire == "delivery" \in registered[r]
              s == [prover[p] EXCEPT !.at = "callback", !.fire = fire]
  <2>1. r \in Receipts
    BY <1>9, <1>d DEF MarkDelivered
  <2>2. status' \in [Receipts -> Status]
    BY <1>9, <1>a, <1>f, <2>1 DEF MarkDelivered
  <2>3. notified' \in [Receipts -> SUBSET Kinds]
    <3>1. \/ notified' = notified
          \/ notified' = [notified EXCEPT ![r] = @ \cup {"delivery"}]
          \/ notified' = [notified EXCEPT ![r] = @ \ {"delivery"}]
      BY <1>9 DEF MarkDelivered, Notify
    <3>. QED
      BY <1>a, <1>f, <2>1, <3>1
  <2>4. calls' \in [Receipts \X Kinds -> Nat]
    <3>1. calls' = calls \/ calls' = [calls EXCEPT ![<<r, "delivery">>] = @ + 1]
      BY <1>9 DEF MarkDelivered, Call
    <3>. QED
      BY <1>b, <1>f, <2>1, <3>1
  <2>5. prover' = [prover EXCEPT ![p] = ProverIdle] \/ prover' = [prover EXCEPT ![p] = s]
    BY <1>9 DEF MarkDelivered
  <2>6. s \in ProverState /\ s.receipt \in Receipts
    <3>1. fire \in BOOLEAN
      OBVIOUS
    <3>. HIDE DEF fire
    <3>. QED
      BY <1>d, <2>1, <3>1 DEF ProverState
  <2>7. /\ prover' \in [Provers -> ProverState]
        /\ \A q \in Provers : prover'[q].at # "idle" => prover'[q].receipt \in Receipts
    <3>. HIDE DEF s
    <3>. QED
      BY <1>d, <1>g, <2>5, <2>6
  <2>. QED
    BY <1>9, <2>2, <2>3, <2>4, <2>7 DEF TypeOK, MarkDelivered
<1>10. ASSUME NEW p \in Provers, FireDeliveryCallback(p) PROVE TypeOK'
  <2>. DEFINE r == prover[p].receipt
              s == [prover[p] EXCEPT !.at = "untrack", !.fire = FALSE]
  <2>1. r \in Receipts
    BY <1>10, <1>d DEF FireDeliveryCallback
  <2>2. CASE RunDeliveryCallback(p)
    <3>1. ran' \in [Receipts -> Seq(Kinds)]
      <4>1. Append(ran[r], "delivery") \in Seq(Kinds)
        BY <1>c, <1>f, <2>1, AppendProperties
      <4>2. ran' = ran \/ ran' = [ran EXCEPT ![r] = Append(ran[r], "delivery")]
        BY <2>2, <1>c, <2>1 DEF RunDeliveryCallback
      <4>. QED
        BY <1>c, <2>1, <4>1, <4>2
    <3>2. s \in ProverState /\ s.receipt \in Receipts
      BY <1>d, <2>1 DEF ProverState
    <3>3. /\ prover' \in [Provers -> ProverState]
          /\ \A q \in Provers : prover'[q].at # "idle" => prover'[q].receipt \in Receipts
      BY <2>2, <1>g, <3>2 DEF RunDeliveryCallback
    <3>. QED
      BY <1>10, <3>1, <3>3 DEF TypeOK, FireDeliveryCallback
  <2>3. CASE LateSuccessPanics(p)
    <3>1. /\ prover' \in [Provers -> ProverState]
          /\ \A q \in Provers : prover'[q].at # "idle" => prover'[q].receipt \in Receipts
      BY <2>3, <1>d, <1>g DEF LateSuccessPanics
    <3>. QED
      BY <1>10, <2>3, <3>1 DEF TypeOK, FireDeliveryCallback, LateSuccessPanics
  <2>. QED
    BY <1>10, <2>2, <2>3 DEF FireDeliveryCallback
<1>11. ASSUME NEW p \in Provers, Untrack(p) PROVE TypeOK'
  BY <1>11, <1>d, <1>e, <1>g, WithoutType DEF TypeOK, Untrack, rvars
<1>12. CASE JobsBegin
  <2>1. Len(tracked) \in Nat /\ \A i \in 1..Len(tracked) : tracked[i] \in Receipts
    BY <1>e, LenProperties, ElementOfSeq
  <2>2. Excess \in 0..Len(tracked)
    BY <2>1, MaxReceiptsAssumption DEF Excess
  <2>3. SubSeq(tracked, 1, Excess) \in Seq(Receipts)
    BY <2>1, <2>2, SubSeqProperties
  <2>4. SubSeq(tracked, Excess + 1, Len(tracked)) \in Seq(Receipts)
    BY <2>1, <2>2, SubSeqProperties
  <2>. QED
    BY <1>12, <2>3, <2>4 DEF TypeOK, JobsBegin, JobsState, rvars
<1>13. CASE JobsCull
  BY <1>13, <1>e, HeadTailProperties DEF TypeOK, JobsCull, JobsState
<1>14. CASE JobsCheckCulled
  BY <1>14, <1>e, HeadTailProperties, CheckTimeoutType DEF TypeOK, JobsCheckCulled, JobsState
<1>15. CASE JobsCulled
  BY <1>15 DEF TypeOK, JobsCulled, JobsState, rvars
<1>16. CASE JobsCheck
  BY <1>16, <1>e, HeadTailProperties, CheckTimeoutType DEF TypeOK, JobsCheck, JobsState
<1>17. CASE JobsChecked
  BY <1>17 DEF TypeOK, JobsChecked, JobsState, rvars
<1>18. CASE JobsRetain
  BY <1>18, <1>e, HeadTailProperties, WithoutType DEF TypeOK, JobsRetain, JobsState, rvars
<1>19. CASE JobsEnd
  BY <1>19 DEF TypeOK, JobsEnd, JobsIdle, JobsState, rvars
<1>20. CASE UNCHANGED vars
  BY <1>20 DEF TypeOK, vars
<1>. QED
  BY <1>1, <1>2, <1>3, <1>4, <1>5, <1>6, <1>7, <1>8, <1>9, <1>10, <1>11, <1>12,
     <1>13, <1>14, <1>15, <1>16, <1>17, <1>18, <1>19, <1>20
     DEF Next, ReceiptStep, ProverStep, JobsStep

(***************************************************************************)
(* Receipts, lists, threads and counters keep their types.                 *)
(***************************************************************************)
THEOREM TypeCorrect == Spec => []TypeOK
BY InitTypeOK, NextTypeOK, PTL DEF Spec

----------------------------------------------------------------------------
(***************************************************************************)
(* The ledger: CallLedger is preserved by every step.  Only four kinds of  *)
(* step touch what it speaks of; at each, the receipt's own row changes    *)
(* and every other row is left alone.                                      *)
(***************************************************************************)
Row(r, k) == /\ calls[<<r, k>>] = IF k \in notified[r] THEN 1 ELSE 0
             /\ k \in notified[r] => /\ k \in registered[r]
                                     /\ status[r] \in LateFor(k) \cup {"DELIVERED"}
             /\ status[r] \in LateFor(k) /\ k \in registered[r] => k \in notified[r]

(***************************************************************************)
(* A receipt that becomes SENT has called nothing.                         *)
(***************************************************************************)
LEMMA OutboundLedger ==
  ASSUME TypeOK, CallLedger, NEW r \in Receipts, Outbound(r)
  PROVE  CallLedger'
<1>. SUFFICES ASSUME NEW s \in Receipts, NEW l \in Kinds
              PROVE  Row(s, l)'
  BY DEF CallLedger, Row
<1>1. Row(s, l) /\ status \in [Receipts -> Status]
  BY DEF CallLedger, Row, TypeOK
<1>2. /\ status[r] = "unsent" /\ status' = [status EXCEPT ![r] = "SENT"]
      /\ calls' = calls /\ notified' = notified /\ registered' = registered
  BY DEF Outbound
<1>3. "unsent" \notin LateFor(l) \cup {"DELIVERED"} /\ "SENT" \notin LateFor(l)
  BY DEF LateFor
<1>. QED
  BY <1>1, <1>2, <1>3 DEF Row

(***************************************************************************)
(* Registering a callback, late or not, keeps the ledger of its kind and   *)
(* touches no other.                                                       *)
(***************************************************************************)
LEMMA SetCallbackLedger ==
  ASSUME TypeOK, CallLedger, NEW r \in Receipts, NEW k \in Kinds, SetCallback(r, k)
  PROVE  CallLedger'
<1>. SUFFICES ASSUME NEW s \in Receipts, NEW l \in Kinds
              PROVE  Row(s, l)'
  BY DEF CallLedger, Row
<1>1. /\ calls \in [Receipts \X Kinds -> Nat]
      /\ notified \in [Receipts -> SUBSET Kinds]
      /\ registered \in [Receipts -> SUBSET Kinds]
  BY DEF TypeOK
<1>2. Row(s, l) /\ Row(r, k)
  BY DEF CallLedger, Row
<1>3. /\ registered' = [registered EXCEPT ![r] = @ \cup {k}]
      /\ status' = status
  BY DEF SetCallback
<1>4. CASE status[r] \in LateFor(k) /\ k \notin notified[r]
  <2>1. /\ notified' = [notified EXCEPT ![r] = @ \cup {k}]
        /\ calls' = [calls EXCEPT ![<<r, k>>] = @ + 1]
    BY <1>4 DEF SetCallback, Call
  <2>. QED
    BY <1>1, <1>2, <1>3, <1>4, <2>1 DEF Row
<1>5. CASE ~(status[r] \in LateFor(k) /\ k \notin notified[r])
  <2>1. notified' = notified /\ calls' = calls
    BY <1>5 DEF SetCallback
  <2>. QED
    BY <1>1, <1>2, <1>3, <1>5, <2>1 DEF Row
<1>. QED
  BY <1>4, <1>5

(***************************************************************************)
(* A conclusion that sets the notified flag exactly when it calls keeps    *)
(* the ledger: the common part of check_timeout and mark_delivered.        *)
(***************************************************************************)
LEMMA ConclusionLedger ==
  ASSUME TypeOK, CallLedger, NEW r \in Receipts, NEW k \in Kinds, NEW new \in LateFor(k),
         status[r] \in {"SENT", "FAILED"}, status[r] \notin LateFor(k),
         status' = [status EXCEPT ![r] = new], registered' = registered, Notify(r, k),
         calls' = IF k \in registered[r] THEN [calls EXCEPT ![<<r, k>>] = @ + 1] ELSE calls
  PROVE  CallLedger'
<1>. SUFFICES ASSUME NEW s \in Receipts, NEW l \in Kinds
              PROVE  Row(s, l)'
  BY DEF CallLedger, Row
<1>1. /\ calls \in [Receipts \X Kinds -> Nat]
      /\ notified \in [Receipts -> SUBSET Kinds]
      /\ status \in [Receipts -> Status]
  BY DEF TypeOK
<1>2. Row(s, l) /\ Row(r, k)
  BY DEF CallLedger, Row
<1>3. k \notin notified[r]
  BY <1>2 DEF Row
<1>4. notified' = IF k \in registered[r] THEN [notified EXCEPT ![r] = @ \cup {k}] ELSE notified
  BY <1>1, <1>3 DEF Notify
<1>5. CASE s # r
  BY <1>1, <1>2, <1>4, <1>5 DEF Row
<1>6. CASE s = r /\ l = k
  BY <1>1, <1>2, <1>3, <1>4, <1>6 DEF Row
<1>7. CASE s = r /\ l # k
  <2>1. /\ calls'[<<r, l>>] = calls[<<r, l>>]
        /\ l \in notified'[r] <=> l \in notified[r]
    BY <1>1, <1>4, <1>7
  <2>2. status'[r] = new
    BY <1>1
  <2>3. status[r] \in LateFor(l) \cup {"DELIVERED"} => new \in LateFor(l) \cup {"DELIVERED"}
    BY <1>7 DEF LateFor, Kinds
  <2>4. new \notin LateFor(l)
    BY <1>7 DEF LateFor, Kinds
  <2>. QED
    BY <1>2, <1>7, <2>1, <2>2, <2>3, <2>4 DEF Row
<1>. QED
  BY <1>5, <1>6, <1>7

(***************************************************************************)
(* check_timeout keeps the ledger.                                         *)
(***************************************************************************)
LEMMA CheckTimeoutLedger ==
  ASSUME TypeOK, CallLedger, NEW r \in Receipts, CheckTimeout(r), registered' = registered
  PROVE  CallLedger'
<1>1. CASE TimedOut(r)
  <2>1. PICK new \in {"FAILED", "CULLED"} : status' = [status EXCEPT ![r] = new]
    BY <1>1 DEF CheckTimeout
  <2>2. /\ "timeout" \in Kinds
        /\ new \in LateFor("timeout")
        /\ status[r] \in {"SENT", "FAILED"} /\ status[r] \notin LateFor("timeout")
    BY <1>1, <2>1 DEF TimedOut, LateFor, Kinds
  <2>3. /\ Notify(r, "timeout")
        /\ calls' = IF "timeout" \in registered[r]
                      THEN [calls EXCEPT ![<<r, "timeout">>] = @ + 1] ELSE calls
    BY <1>1 DEF CheckTimeout, Call
  <2>. QED
    BY <2>1, <2>2, <2>3, ConclusionLedger
<1>2. CASE ~TimedOut(r)
  BY <1>2 DEF CheckTimeout, CallLedger
<1>. QED
  BY <1>1, <1>2

(***************************************************************************)
(* mark_delivered keeps the ledger, also for a receipt that had timed out. *)
(***************************************************************************)
LEMMA MarkDeliveredLedger ==
  ASSUME TypeOK, CallLedger, NEW p \in Provers, MarkDelivered(p)
  PROVE  CallLedger'
<1>. DEFINE r == prover[p].receipt
<1>1. r \in Receipts /\ registered' = registered
  BY DEF TypeOK, MarkDelivered
<1>2. CASE Provable(r)
  <2>1. /\ "delivery" \in Kinds
        /\ "DELIVERED" \in LateFor("delivery")
        /\ status[r] \in {"SENT", "FAILED"} /\ status[r] \notin LateFor("delivery")
    BY <1>2 DEF Provable, LateFor, Kinds
  <2>2. /\ status' = [status EXCEPT ![r] = "DELIVERED"]
        /\ Notify(r, "delivery")
        /\ calls' = IF "delivery" \in registered[r]
                      THEN [calls EXCEPT ![<<r, "delivery">>] = @ + 1] ELSE calls
    BY <1>2 DEF MarkDelivered, Call
  <2>. QED
    BY <1>1, <2>1, <2>2, ConclusionLedger
<1>3. CASE ~Provable(r)
  <2>1. status' = status /\ notified' = notified /\ calls' = calls
    BY <1>3 DEF MarkDelivered
  <2>. QED
    BY <1>1, <2>1 DEF CallLedger
<1>. QED
  BY <1>2, <1>3

(***************************************************************************)
(* Nothing is called before anything is sent.                              *)
(***************************************************************************)
LEMMA InitLedger == Init => CallLedger
BY DEF Init, CallLedger, LateFor, Kinds

(***************************************************************************)
(* Every step keeps the ledger.                                            *)
(***************************************************************************)
LEMMA NextLedger == TypeOK /\ CallLedger /\ [Next]_vars => CallLedger'
<1>. SUFFICES ASSUME TypeOK, CallLedger, [Next]_vars PROVE CallLedger'
  OBVIOUS
<1>1. ASSUME NEW r \in Receipts, ReceiptStep(r) PROVE CallLedger'
  <2>1. CASE Outbound(r)
    BY <2>1, OutboundLedger
  <2>2. ASSUME NEW k \in Kinds, SetCallback(r, k) PROVE CallLedger'
    BY <2>2, SetCallbackLedger
  <2>3. CASE Elapse(r) \/ SetTimeout(r)
    BY <2>3 DEF Elapse, SetTimeout, CallLedger
  <2>4. ASSUME NEW k \in Kinds, CallbackThread(r, k) PROVE CallLedger'
    BY <2>4 DEF CallbackThread, CallLedger
  <2>5. ASSUME NEW p \in Provers, ProofCandidates(p, r) PROVE CallLedger'
    BY <2>5 DEF ProofCandidates, CallLedger, rvars
  <2>. QED
    BY <1>1, <2>1, <2>2, <2>3, <2>4, <2>5 DEF ReceiptStep
<1>2. ASSUME NEW p \in Provers, ProverStep(p) PROVE CallLedger'
  <2>1. CASE MarkDelivered(p)
    BY <2>1, MarkDeliveredLedger
  <2>2. CASE CheckCandidate(p) \/ InvalidProof(p) \/ FireDeliveryCallback(p) \/ Untrack(p)
    BY <2>2 DEF CheckCandidate, InvalidProof, FireDeliveryCallback, Untrack, CallLedger, rvars
  <2>. QED
    BY <1>2, <2>1, <2>2 DEF ProverStep
<1>3. CASE JobsStep
  <2>. jobs.todo # << >> => Head(jobs.todo) \in Receipts
    BY HeadTailProperties DEF TypeOK, JobsState
  <2>1. CASE JobsCheckCulled
    BY <2>1, CheckTimeoutLedger DEF JobsCheckCulled, TypeOK
  <2>2. CASE JobsCheck
    BY <2>2, CheckTimeoutLedger DEF JobsCheck
  <2>3. CASE JobsBegin \/ JobsCull \/ JobsCulled \/ JobsChecked \/ JobsRetain \/ JobsEnd
    <3>1. UNCHANGED <<status, registered, notified, calls>>
      BY <2>3 DEF JobsBegin, JobsCull, JobsCulled, JobsChecked, JobsRetain, JobsEnd, rvars
    <3>. QED
      BY <3>1 DEF CallLedger
  <2>. QED
    BY <1>3, <2>1, <2>2, <2>3 DEF JobsStep
<1>4. CASE UNCHANGED vars
  BY <1>4 DEF CallLedger, vars
<1>. QED
  BY <1>1, <1>2, <1>3, <1>4 DEF Next

(***************************************************************************)
(* The notified flags of packet.rs are an exact ledger of the callbacks    *)
(* that were set going.                                                    *)
(***************************************************************************)
THEOREM LedgerCorrect == Spec => []CallLedger
BY InitTypeOK, NextTypeOK, InitLedger, NextLedger, PTL DEF Spec

(***************************************************************************)
(* The callback of a conclusion is set going exactly once, for any number  *)
(* of proofs, inbound threads, registrations and jobs passes.              *)
(***************************************************************************)
THEOREM ExactlyOnce == Spec => []CalledExactlyOnce
<1>1. CallLedger => CalledExactlyOnce
  <2>. SUFFICES ASSUME CallLedger, NEW r \in Receipts, NEW k \in Kinds
                PROVE  /\ calls[<<r, k>>] <= 1
                       /\ status[r] \in LateFor(k) /\ k \in registered[r] => calls[<<r, k>>] = 1
    BY DEF CalledExactlyOnce
  <2>. QED
    BY DEF CallLedger
<1>. QED
  BY <1>1, LedgerCorrect, PTL

----------------------------------------------------------------------------
(***************************************************************************)
(* Receipts implements ReceiptContract: each step is a step of the         *)
(* contract or leaves what the application sees unchanged.  The ledger is  *)
(* what lets the notified flags stand for "not called yet".                *)
(***************************************************************************)
cvars == <<status, registered, calls>>

(***************************************************************************)
(* check_timeout is the contract's timeout, or changes nothing the         *)
(* contract sees.                                                          *)
(***************************************************************************)
LEMMA CheckTimeoutImplements ==
  ASSUME NEW r \in Receipts, CheckTimeout(r), registered' = registered
  PROVE  Contract!Next \/ UNCHANGED cvars
<1>1. CASE TimedOut(r)
  <2>1. /\ calls' = IF "timeout" \in registered[r]
                      THEN [calls EXCEPT ![<<r, "timeout">>] = @ + 1] ELSE calls
        /\ status[r] \in {"SENT"} /\ "timeout" \in Kinds
    BY <1>1 DEF CheckTimeout, Call, TimedOut, Kinds
  <2>2. CASE timeout[r] = "cull"
    <3>1. status' = [status EXCEPT ![r] = "CULLED"]
      BY <1>1, <2>2 DEF CheckTimeout
    <3>2. Contract!Cull(r)
      BY <2>1, <3>1 DEF Contract!Cull, Contract!Conclude, Contract!CallIf
    <3>. QED
      BY <3>2 DEF Contract!Next
  <2>3. CASE timeout[r] # "cull"
    <3>1. status' = [status EXCEPT ![r] = "FAILED"]
      BY <1>1, <2>3 DEF CheckTimeout
    <3>2. Contract!TimeOut(r)
      BY <2>1, <3>1 DEF Contract!TimeOut, Contract!Conclude, Contract!CallIf
    <3>. QED
      BY <3>2 DEF Contract!Next
  <2>. QED
    BY <2>2, <2>3
<1>2. CASE ~TimedOut(r)
  BY <1>2 DEF CheckTimeout, cvars
<1>. QED
  BY <1>1, <1>2

(***************************************************************************)
(* Every step is a step of the contract or leaves its variables alone.     *)
(***************************************************************************)
LEMMA NextImplements ==
  ASSUME TypeOK, CallLedger, [Next]_vars
  PROVE  Contract!Next \/ UNCHANGED cvars
<1>1. ASSUME NEW r \in Receipts, ReceiptStep(r) PROVE Contract!Next \/ UNCHANGED cvars
  <2>1. CASE Outbound(r)
    BY <2>1 DEF Outbound, Contract!Send, Contract!Next
  <2>2. ASSUME NEW k \in Kinds, SetCallback(r, k) PROVE Contract!Next
    <3>1. k \in notified[r] <=> calls[<<r, k>>] # 0
      BY DEF CallLedger
    <3>2. Contract!ConcludedFor(k) = LateFor(k) /\ Contract!Kinds = Kinds
      BY DEF Contract!ConcludedFor, LateFor, Contract!Kinds, Kinds
    <3>3. calls' = IF status[r] \in LateFor(k) /\ calls[<<r, k>>] = 0
                     THEN [calls EXCEPT ![<<r, k>>] = @ + 1] ELSE calls
      BY <2>2, <3>1 DEF SetCallback, Call
    <3>4. Contract!Register(r, k)
      BY <2>2, <3>2, <3>3 DEF SetCallback, Contract!Register, Contract!CallIf
    <3>. QED
      BY <3>2, <3>4 DEF Contract!Next
  <2>3. CASE Elapse(r) \/ SetTimeout(r)
    BY <2>3 DEF Elapse, SetTimeout, cvars
  <2>4. ASSUME NEW k \in Kinds, CallbackThread(r, k) PROVE UNCHANGED cvars
    BY <2>4 DEF CallbackThread, cvars
  <2>5. ASSUME NEW p \in Provers, ProofCandidates(p, r) PROVE UNCHANGED cvars
    BY <2>5 DEF ProofCandidates, cvars, rvars
  <2>. QED
    BY <1>1, <2>1, <2>2, <2>3, <2>4, <2>5 DEF ReceiptStep
<1>2. ASSUME NEW p \in Provers, ProverStep(p) PROVE Contract!Next \/ UNCHANGED cvars
  <2>1. CASE MarkDelivered(p)
    <3>. DEFINE r == prover[p].receipt
    <3>1. r \in Receipts /\ registered' = registered /\ "delivery" \in Kinds
      BY <2>1 DEF TypeOK, MarkDelivered, Kinds
    <3>2. CASE Provable(r)
      <4>1. /\ status[r] \in {"SENT", "FAILED"}
            /\ status' = [status EXCEPT ![r] = "DELIVERED"]
            /\ calls' = IF "delivery" \in registered[r]
                          THEN [calls EXCEPT ![<<r, "delivery">>] = @ + 1] ELSE calls
        BY <2>1, <3>2 DEF MarkDelivered, Provable, Call
      <4>2. Contract!Deliver(r)
        BY <3>1, <4>1 DEF Contract!Deliver, Contract!Conclude, Contract!CallIf
      <4>. QED
        BY <3>1, <4>2 DEF Contract!Next
    <3>3. CASE ~Provable(r)
      BY <2>1, <3>1, <3>3 DEF MarkDelivered, cvars
    <3>. QED
      BY <3>2, <3>3
  <2>2. CASE CheckCandidate(p) \/ InvalidProof(p) \/ FireDeliveryCallback(p) \/ Untrack(p)
    BY <2>2 DEF CheckCandidate, InvalidProof, FireDeliveryCallback, Untrack, cvars, rvars
  <2>. QED
    BY <1>2, <2>1, <2>2 DEF ProverStep
<1>3. CASE JobsStep
  <2>. jobs.todo # << >> => Head(jobs.todo) \in Receipts
    BY HeadTailProperties DEF TypeOK, JobsState
  <2>1. CASE JobsCheckCulled
    BY <2>1, CheckTimeoutImplements DEF JobsCheckCulled, TypeOK
  <2>2. CASE JobsCheck
    BY <2>2, CheckTimeoutImplements DEF JobsCheck
  <2>3. CASE JobsBegin \/ JobsCull \/ JobsCulled \/ JobsChecked \/ JobsRetain \/ JobsEnd
    BY <2>3 DEF JobsBegin, JobsCull, JobsCulled, JobsChecked, JobsRetain, JobsEnd,
                cvars, rvars
  <2>. QED
    BY <1>3, <2>1, <2>2, <2>3 DEF JobsStep
<1>4. CASE UNCHANGED vars
  BY <1>4 DEF cvars, vars
<1>. QED
  BY <1>1, <1>2, <1>3, <1>4 DEF Next

(***************************************************************************)
(* PacketReceipt with all its locks, lists and threads implements the      *)
(* sequential receipt the application is promised.                         *)
(***************************************************************************)
THEOREM Refinement == Spec => ImplementsContract
<1>1. Init => Contract!Init
  BY DEF Init, Contract!Init, Contract!Kinds, Kinds
<1>2. TypeOK /\ CallLedger /\ [Next]_vars => [Contract!Next]_cvars
  BY NextImplements
<1>. QED
  BY <1>1, <1>2, TypeCorrect, LedgerCorrect, PTL
     DEF Spec, ImplementsContract, Contract!Spec, cvars

(***************************************************************************)
(* DELIVERED and CULLED are final, FAILED gives way to DELIVERED only, and *)
(* a delivered receipt sets no timeout callback going.                     *)
(***************************************************************************)
THEOREM NeverBack == Spec => OneWay
<1>1. ASSUME NEW r \in Receipts, TypeOK, Contract!Next \/ UNCHANGED cvars
      PROVE  /\ status[r] \in {"DELIVERED", "CULLED"} => status'[r] = status[r]
             /\ status[r] = "FAILED" => status'[r] \in {"FAILED", "DELIVERED"}
             /\ status[r] = "DELIVERED" => calls'[<<r, "timeout">>] = calls[<<r, "timeout">>]
  <2>. /\ status \in [Receipts -> Status]
       /\ calls \in [Receipts \X Kinds -> Nat]
    BY <1>1 DEF TypeOK
  <2>1. ASSUME NEW s \in Receipts, NEW k \in Kinds, NEW from, NEW to,
               Contract!Conclude(s, from, to, k)
        PROVE  /\ status[s] \in from
               /\ status' = [status EXCEPT ![s] = to]
               /\ \A c \in Receipts \X Kinds : c # <<s, k>> => calls'[c] = calls[c]
    BY <2>1 DEF Contract!Conclude, Contract!CallIf
  <2>2. "delivery" \in Kinds /\ "timeout" \in Kinds
    BY DEF Kinds
  <2>3. ASSUME NEW s \in Receipts, Contract!Deliver(s)
        PROVE  /\ status[s] \in {"SENT", "FAILED"}
               /\ status' = [status EXCEPT ![s] = "DELIVERED"]
               /\ calls'[<<r, "timeout">>] = calls[<<r, "timeout">>]
    BY <2>1, <2>2, <2>3 DEF Contract!Deliver
  <2>4. ASSUME NEW s \in Receipts, Contract!TimeOut(s) \/ Contract!Cull(s)
        PROVE  /\ status[s] = "SENT"
               /\ \E to : status' = [status EXCEPT ![s] = to]
               /\ r # s => calls'[<<r, "timeout">>] = calls[<<r, "timeout">>]
    BY <2>1, <2>2, <2>4 DEF Contract!TimeOut, Contract!Cull
  <2>5. ASSUME NEW s \in Receipts, NEW k \in Kinds, Contract!Register(s, k)
        PROVE  /\ status' = status
               /\ status[r] = "DELIVERED" => calls'[<<r, "timeout">>] = calls[<<r, "timeout">>]
    <3>1. "DELIVERED" \notin Contract!ConcludedFor("timeout")
      BY DEF Contract!ConcludedFor
    <3>. QED
      BY <2>2, <2>5, <3>1 DEF Contract!Register, Contract!CallIf
  <2>6. ASSUME NEW s \in Receipts, Contract!Send(s)
        PROVE  status[s] = "unsent" /\ status' = [status EXCEPT ![s] = "SENT"] /\ calls' = calls
    BY <2>6 DEF Contract!Send
  <2>7. Contract!Kinds = Kinds
    BY DEF Contract!Kinds, Kinds
  <2>8. CASE UNCHANGED cvars
    BY <2>8 DEF cvars
  <2>9. CASE Contract!Next
    <3>1. PICK s \in Receipts : \/ Contract!Send(s) \/ Contract!Deliver(s)
                                \/ Contract!TimeOut(s) \/ Contract!Cull(s)
                                \/ \E k \in Kinds : Contract!Register(s, k)
      BY <2>7, <2>9 DEF Contract!Next
    <3>. QED
      BY <2>3, <2>4, <2>5, <2>6, <3>1
  <2>. QED
    BY <1>1, <2>8, <2>9
<1>2. TypeOK /\ CallLedger /\ [Next]_vars =>
        [\A r \in Receipts :
           /\ status[r] \in {"DELIVERED", "CULLED"} => status'[r] = status[r]
           /\ status[r] = "FAILED" => status'[r] \in {"FAILED", "DELIVERED"}
           /\ status[r] = "DELIVERED" => calls'[<<r, "timeout">>] = calls[<<r, "timeout">>]]_vars
  BY <1>1, NextImplements
<1>. QED
  BY <1>2, TypeCorrect, LedgerCorrect, PTL DEF Spec, OneWay

----------------------------------------------------------------------------
(***************************************************************************)
(* Nothing outstanding is forgotten.  Besides SentIsWatched itself the     *)
(* induction needs that a thread only untracks a delivered receipt, and    *)
(* that what the cull checks carries the cull's timeout.  The latter is    *)
(* what a set_timeout of the application could undo.                       *)
(***************************************************************************)
WatchInv ==
  /\ SentIsWatched
  /\ \A p \in Provers : prover[p].at \in {"callback", "untrack"} =>
                          status[prover[p].receipt] = "DELIVERED"
  /\ jobs.at = "check culled" => timeout[Head(jobs.todo)] = "cull"

In(x, seq) == \E i \in 1..Len(seq) : seq[i] = x

(***************************************************************************)
(* What else was in the list still is.                                     *)
(***************************************************************************)
LEMMA InWithout ==
  ASSUME NEW S, NEW seq \in Seq(S), NEW r, NEW x, x # r, In(x, seq)
  PROVE  In(x, Without(seq, r))
<1>1. CASE ~ \E i \in 1..Len(seq) : seq[i] = r
  BY <1>1, WithoutAbsent
<1>2. CASE \E i \in 1..Len(seq) : seq[i] = r
  <2>1. PICK j \in 1..Len(seq) :
          /\ seq[j] = r
          /\ Len(Without(seq, r)) = Len(seq) - 1
          /\ \A i \in 1..Len(seq) - 1 :
               Without(seq, r)[i] = IF i < j THEN seq[i] ELSE seq[i + 1]
    BY <1>2, WithoutProperties
  <2>2. PICK i \in 1..Len(seq) : seq[i] = x
    BY DEF In
  <2>3. Len(seq) \in Nat /\ i # j
    BY <2>1, <2>2, LenProperties
  <2>4. CASE i < j
    <3>1. i \in 1..Len(seq) - 1
      BY <2>3, <2>4
    <3>. QED
      BY <2>1, <2>2, <2>4, <3>1 DEF In
  <2>5. CASE i > j
    <3>1. i - 1 \in 1..Len(seq) - 1 /\ ~(i - 1 < j) /\ (i - 1) + 1 = i
      BY <2>3, <2>5
    <3>2. Without(seq, r)[i - 1] = seq[i]
      BY <2>1, <3>1
    <3>. QED
      BY <2>1, <2>2, <3>1, <3>2 DEF In
  <2>. QED
    BY <2>3, <2>4, <2>5
<1>. QED
  BY <1>1, <1>2

(***************************************************************************)
(* A receipt pushed onto the list is in it, with all that was.             *)
(***************************************************************************)
LEMMA InAppend ==
  ASSUME NEW S, NEW seq \in Seq(S), NEW e \in S, NEW x, In(x, seq) \/ x = e
  PROVE  In(x, Append(seq, e))
<1>1. Len(seq) \in Nat
  BY LenProperties
<1>. QED
  BY <1>1, AppendProperties DEF In

(***************************************************************************)
(* What is in a list is its head or in its tail.                           *)
(***************************************************************************)
LEMMA InTail ==
  ASSUME NEW S, NEW seq \in Seq(S), NEW x, In(x, seq), x # Head(seq)
  PROVE  In(x, Tail(seq))
<1>1. PICK i \in 1..Len(seq) : seq[i] = x
  BY DEF In
<1>2. Len(seq) \in Nat /\ seq # << >> /\ Head(seq) = seq[1]
  BY <1>1, LenProperties, EmptySeq
<1>3. Len(Tail(seq)) = Len(seq) - 1 /\ \A j \in 1..Len(Tail(seq)) : Tail(seq)[j] = seq[j + 1]
  BY <1>2, HeadTailProperties
<1>4. i - 1 \in 1..Len(Tail(seq)) /\ (i - 1) + 1 = i
  BY <1>1, <1>2, <1>3
<1>. QED
  BY <1>1, <1>3, <1>4 DEF In

(***************************************************************************)
(* Draining the oldest receipts splits the list: each is in one of the two *)
(* parts.                                                                  *)
(***************************************************************************)
LEMMA InSplit ==
  ASSUME NEW S, NEW seq \in Seq(S), NEW n \in 0..Len(seq), NEW x, In(x, seq)
  PROVE  In(x, SubSeq(seq, 1, n)) \/ In(x, SubSeq(seq, n + 1, Len(seq)))
<1>1. PICK i \in 1..Len(seq) : seq[i] = x
  BY DEF In
<1>2. Len(seq) \in Nat /\ \A j \in 1..Len(seq) : seq[j] \in S
  BY LenProperties, ElementOfSeq
<1>3. CASE i <= n
  <2>1. Len(SubSeq(seq, 1, n)) = n /\ \A j \in 1..n : SubSeq(seq, 1, n)[j] = seq[j]
    BY <1>2, SubSeqProperties
  <2>. QED
    BY <1>1, <1>3, <2>1 DEF In
<1>4. CASE i > n
  <2>. DEFINE back == SubSeq(seq, n + 1, Len(seq))
  <2>1. /\ Len(back) = IF n + 1 <= Len(seq) THEN Len(seq) - (n + 1) + 1 ELSE 0
        /\ \A j \in 1..Len(seq) - (n + 1) + 1 : back[j] = seq[(n + 1) + j - 1]
    BY <1>2, SubSeqProperties
  <2>2. i - n \in 1..Len(back) /\ i - n \in 1..Len(seq) - (n + 1) + 1 /\ (n + 1) + (i - n) - 1 = i
    BY <1>1, <1>2, <1>4, <2>1
  <2>3. back[i - n] = x
    BY <1>1, <2>1, <2>2
  <2>. QED
    BY <2>2, <2>3 DEF In
<1>. QED
  BY <1>1, <1>2, <1>3, <1>4

UntracksDelivered ==
  \A p \in Provers : prover[p].at \in {"callback", "untrack"} =>
                       status[prover[p].receipt] = "DELIVERED"
CullsMarked == jobs.at = "check culled" => timeout[Head(jobs.todo)] = "cull"
Watched(r) == status[r] = "SENT" => \/ In(r, tracked)
                                    \/ jobs.at \in {"cull", "check culled"} /\ In(r, jobs.todo)

(***************************************************************************)
(* The inductive invariant, split into the parts the steps are checked     *)
(* for.                                                                    *)
(***************************************************************************)
LEMMA WatchParts ==
  /\ WatchInv <=> (\A r \in Receipts : Watched(r)) /\ UntracksDelivered /\ CullsMarked
  /\ WatchInv' <=> (\A r \in Receipts : Watched(r)') /\ UntracksDelivered' /\ CullsMarked'
BY DEF WatchInv, SentIsWatched, Watched, UntracksDelivered, CullsMarked, Tracked, BeingCulled, In

(***************************************************************************)
(* check_timeout concludes a receipt it culls, and makes none SENT.        *)
(***************************************************************************)
LEMMA CheckTimeoutStatus ==
  ASSUME TypeOK, NEW r \in Receipts, CheckTimeout(r), NEW s \in Receipts
  PROVE  /\ status'[s] = "SENT" => status[s] = "SENT"
         /\ status[s] = "DELIVERED" => status'[s] = "DELIVERED"
         /\ s = r /\ timeout[r] = "cull" => status'[s] # "SENT"
<1>1. status \in [Receipts -> Status]
  BY DEF TypeOK
<1>2. CASE TimedOut(r)
  BY <1>1, <1>2 DEF CheckTimeout, TimedOut
<1>3. CASE ~TimedOut(r)
  BY <1>1, <1>3 DEF CheckTimeout, TimedOut
<1>. QED
  BY <1>2, <1>3

(***************************************************************************)
(* check_timeout leaves a delivered receipt delivered, so the inbound      *)
(* threads still only untrack such receipts.                               *)
(***************************************************************************)
LEMMA CheckTimeoutUntracks ==
  ASSUME TypeOK, UntracksDelivered, NEW r \in Receipts, CheckTimeout(r), prover' = prover
  PROVE  UntracksDelivered'
<1>. SUFFICES ASSUME NEW p \in Provers, prover[p].at \in {"callback", "untrack"}
              PROVE  status'[prover[p].receipt] = "DELIVERED"
  BY DEF UntracksDelivered
<1>1. prover[p].receipt \in Receipts /\ status[prover[p].receipt] = "DELIVERED"
  BY DEF TypeOK, UntracksDelivered
<1>. QED
  BY <1>1, CheckTimeoutStatus

(***************************************************************************)
(* Every step but the application's set_timeout keeps watch over the SENT  *)
(* receipts.                                                               *)
(***************************************************************************)
LEMMA NextWatch ==
  ASSUME ~AppSetsTimeout, TypeOK, WatchInv, [Next]_vars
  PROVE  WatchInv'
<1>0. (\A r \in Receipts : Watched(r)) /\ UntracksDelivered /\ CullsMarked
  BY WatchParts
<1>a. /\ status \in [Receipts -> Status]
      /\ tracked \in Seq(Receipts)
      /\ jobs.todo \in Seq(Receipts)
      /\ \A p \in Provers : prover[p].at # "idle" => prover[p].receipt \in Receipts
      /\ prover \in [Provers -> ProverState]
  BY DEF TypeOK, JobsState
<1>b. jobs.todo # << >> => Head(jobs.todo) \in Receipts /\ Tail(jobs.todo) \in Seq(Receipts)
  BY <1>a, HeadTailProperties
<1>c. ASSUME NEW x PROVE ~In(x, << >>)
  BY DEF In
<1>1. ASSUME NEW r \in Receipts, Outbound(r) PROVE WatchInv'
  <2>1. /\ status[r] = "unsent" /\ status' = [status EXCEPT ![r] = "SENT"]
        /\ tracked' = Append(tracked, r)
        /\ UNCHANGED <<timeout, prover, jobs>>
    BY <1>1 DEF Outbound
  <2>2. ASSUME NEW s \in Receipts PROVE Watched(s)'
    BY <1>0, <1>a, <2>1, InAppend DEF Watched
  <2>3. UntracksDelivered' /\ CullsMarked'
    BY <1>0, <1>a, <2>1 DEF UntracksDelivered, CullsMarked
  <2>. QED
    BY <2>2, <2>3, WatchParts
<1>2. ASSUME UNCHANGED <<status, timeout, tracked, jobs, prover>> PROVE WatchInv'
  BY <1>2 DEF WatchInv, SentIsWatched, Tracked, BeingCulled
<1>3. ASSUME NEW p \in Provers, NEW st \in ProverState,
             UNCHANGED <<status, timeout, tracked, jobs>>,
             prover' = [prover EXCEPT ![p] = st],
             st.at \in {"callback", "untrack"} => status[st.receipt] = "DELIVERED"
      PROVE  WatchInv'
  <2>1. UntracksDelivered'
    BY <1>0, <1>3, <1>a DEF UntracksDelivered
  <2>2. (\A r \in Receipts : Watched(r)') /\ CullsMarked'
    BY <1>0, <1>3 DEF Watched, CullsMarked
  <2>. QED
    BY <2>1, <2>2, WatchParts
<1>4. ASSUME NEW r \in Receipts, ReceiptStep(r) PROVE WatchInv'
  <2>1. CASE Elapse(r)
    BY <2>1, <1>2 DEF Elapse
  <2>2. CASE SetTimeout(r)
    BY <2>2 DEF SetTimeout
  <2>3. ASSUME NEW k \in Kinds, SetCallback(r, k) \/ CallbackThread(r, k) PROVE WatchInv'
    BY <2>3, <1>2 DEF SetCallback, CallbackThread
  <2>4. ASSUME NEW p \in Provers, ProofCandidates(p, r) PROVE WatchInv'
    <3>. DEFINE st == [at |-> "candidate", receipt |-> r, fire |-> FALSE]
    <3>1. st \in ProverState /\ st.at \notin {"callback", "untrack"}
      BY DEF ProverState
    <3>2. UNCHANGED <<status, timeout, tracked, jobs>> /\ prover' = [prover EXCEPT ![p] = st]
      BY <2>4 DEF ProofCandidates, rvars
    <3>. QED
      BY <1>3, <3>1, <3>2
  <2>. QED
    BY <1>1, <1>4, <2>1, <2>2, <2>3, <2>4 DEF ReceiptStep
<1>5. ASSUME NEW p \in Provers, ProverStep(p) PROVE WatchInv'
  <2>. DEFINE r == prover[p].receipt
  <2>a. ProverIdle \in ProverState /\ ProverIdle.at \notin {"callback", "untrack"}
    BY DEF ProverIdle, ProverState
  <2>1. CASE CheckCandidate(p)
    <3>. DEFINE st == [prover[p] EXCEPT !.at = "validate"]
    <3>1. st \in ProverState /\ st.at \notin {"callback", "untrack"}
      BY <1>a DEF ProverState
    <3>2. /\ UNCHANGED <<status, timeout, tracked, jobs>>
          /\ prover' = [prover EXCEPT ![p] = st] \/ prover' = [prover EXCEPT ![p] = ProverIdle]
      BY <2>1 DEF CheckCandidate, rvars
    <3>. HIDE DEF st
    <3>. QED
      BY <1>3, <2>a, <3>1, <3>2
  <2>2. CASE InvalidProof(p)
    BY <2>2, <1>3, <2>a DEF InvalidProof, rvars
  <2>3. CASE MarkDelivered(p) /\ ~Provable(r)
    BY <2>3, <1>3, <2>a DEF MarkDelivered
  <2>4. CASE MarkDelivered(p) /\ Provable(r)
    <3>1. /\ r \in Receipts
          /\ status' = [status EXCEPT ![r] = "DELIVERED"]
          /\ UNCHANGED <<timeout, tracked, jobs>>
      BY <2>4, <1>a DEF MarkDelivered
    <3>2. /\ \A q \in Provers : q # p => prover'[q] = prover[q]
          /\ prover'[p].receipt = r
      <4>. DEFINE fire == "delivery" \in registered[r]
                  st == [prover[p] EXCEPT !.at = "callback", !.fire = fire]
      <4>1. prover' = [prover EXCEPT ![p] = st]
        BY <2>4 DEF MarkDelivered
      <4>2. st.receipt = r
        BY <1>a DEF ProverState
      <4>. HIDE DEF st
      <4>. QED
        BY <1>a, <4>1, <4>2
    <3>3. ASSUME NEW s \in Receipts PROVE Watched(s)'
      BY <1>0, <1>a, <3>1 DEF Watched
    <3>4. ASSUME NEW q \in Provers, prover'[q].at \in {"callback", "untrack"}
          PROVE  status'[prover'[q].receipt] = "DELIVERED"
      <4>1. CASE q = p
        BY <1>a, <3>1, <3>2, <4>1
      <4>2. CASE q # p
        <5>1. prover'[q] = prover[q] /\ prover[q].receipt \in Receipts
          BY <1>a, <3>2, <3>4, <4>2
        <5>2. status[prover[q].receipt] = "DELIVERED"
          BY <1>0, <3>4, <5>1 DEF UntracksDelivered
        <5>. QED
          BY <1>a, <3>1, <5>1, <5>2
      <4>. QED
        BY <4>1, <4>2
    <3>5. UntracksDelivered' /\ CullsMarked'
      BY <1>0, <3>1, <3>4 DEF UntracksDelivered, CullsMarked
    <3>. QED
      BY <3>3, <3>5, WatchParts
  <2>5. CASE FireDeliveryCallback(p)
    <3>. DEFINE st == [prover[p] EXCEPT !.at = "untrack", !.fire = FALSE]
    <3>1. st \in ProverState /\ st.receipt = r
      BY <1>a DEF ProverState
    <3>2. /\ UNCHANGED <<status, timeout, tracked, jobs>>
          /\ prover' = [prover EXCEPT ![p] = st] \/ prover' = [prover EXCEPT ![p] = ProverIdle]
          /\ status[r] = "DELIVERED"
      BY <2>5, <1>0
         DEF FireDeliveryCallback, RunDeliveryCallback, LateSuccessPanics, UntracksDelivered
    <3>. HIDE DEF st
    <3>. QED
      BY <1>3, <2>a, <3>1, <3>2
  <2>6. CASE Untrack(p)
    <3>1. /\ status[r] = "DELIVERED" /\ r \in Receipts
          /\ tracked' = Without(tracked, r)
          /\ prover' = [prover EXCEPT ![p] = ProverIdle]
          /\ UNCHANGED <<status, timeout, jobs>>
      BY <2>6, <1>0, <1>a DEF Untrack, UntracksDelivered, rvars
    <3>2. ASSUME NEW s \in Receipts PROVE Watched(s)'
      BY <1>0, <1>a, <3>1, InWithout DEF Watched
    <3>3. UntracksDelivered' /\ CullsMarked'
      BY <1>0, <1>a, <2>a, <3>1 DEF UntracksDelivered, CullsMarked
    <3>. QED
      BY <3>2, <3>3, WatchParts
  <2>. QED
    BY <1>5, <2>1, <2>2, <2>3, <2>4, <2>5, <2>6 DEF ProverStep
<1>6. CASE JobsBegin
  <2>1. /\ jobs.at = "idle" /\ jobs'.at = "cull"
        /\ jobs'.todo = SubSeq(tracked, 1, Excess)
        /\ tracked' = SubSeq(tracked, Excess + 1, Len(tracked))
        /\ UNCHANGED <<status, timeout, prover>>
    BY <1>6 DEF JobsBegin, rvars
  <2>2. Excess \in 0..Len(tracked)
    BY <1>a, LenProperties, MaxReceiptsAssumption DEF Excess
  <2>3. ASSUME NEW s \in Receipts PROVE Watched(s)'
    BY <1>0, <1>a, <2>1, <2>2, InSplit DEF Watched
  <2>4. UntracksDelivered' /\ CullsMarked'
    BY <1>0, <2>1 DEF UntracksDelivered, CullsMarked
  <2>. QED
    BY <2>3, <2>4, WatchParts
<1>7. CASE JobsCull
  <2>1. /\ jobs.at = "cull" /\ jobs'.at = "check culled" /\ jobs'.todo = jobs.todo
        /\ jobs.todo # << >>
        /\ timeout' = [timeout EXCEPT ![Head(jobs.todo)] = "cull"]
        /\ UNCHANGED <<status, tracked, prover>>
    BY <1>7 DEF JobsCull, TypeOK, JobsState
  <2>2. timeout'[Head(jobs.todo)] = "cull"
    BY <1>b, <2>1 DEF TypeOK
  <2>3. ASSUME NEW s \in Receipts PROVE Watched(s)'
    BY <1>0, <2>1 DEF Watched
  <2>4. UntracksDelivered' /\ CullsMarked'
    BY <1>0, <2>1, <2>2 DEF UntracksDelivered, CullsMarked
  <2>. QED
    BY <2>3, <2>4, WatchParts
<1>8. CASE JobsCheckCulled
  <2>. DEFINE r == Head(jobs.todo)
  <2>1. /\ jobs.at = "check culled" /\ jobs'.at = "cull" /\ jobs'.todo = Tail(jobs.todo)
        /\ jobs.todo # << >> /\ r \in Receipts
        /\ timeout[r] = "cull"
        /\ CheckTimeout(r)
        /\ UNCHANGED <<timeout, tracked, prover>>
    BY <1>8, <1>0, <1>b DEF JobsCheckCulled, TypeOK, CullsMarked
  <2>2. ASSUME NEW s \in Receipts PROVE Watched(s)'
    BY <1>0, <1>a, <2>1, CheckTimeoutStatus, InTail DEF Watched
  <2>3. UntracksDelivered' /\ CullsMarked'
    BY <1>0, <2>1, CheckTimeoutUntracks DEF CullsMarked
  <2>. QED
    BY <2>2, <2>3, WatchParts
<1>9. CASE JobsCheck
  <2>. DEFINE r == Head(jobs.todo)
  <2>1. /\ jobs.at = "check" /\ jobs'.at = "check"
        /\ r \in Receipts
        /\ CheckTimeout(r)
        /\ UNCHANGED <<timeout, tracked, prover>>
    BY <1>9, <1>b DEF JobsCheck, TypeOK, JobsState
  <2>2. ASSUME NEW s \in Receipts PROVE Watched(s)'
    BY <1>0, <2>1, CheckTimeoutStatus DEF Watched
  <2>3. UntracksDelivered' /\ CullsMarked'
    BY <1>0, <2>1, CheckTimeoutUntracks DEF CullsMarked
  <2>. QED
    BY <2>2, <2>3, WatchParts
<1>10. CASE JobsCulled \/ JobsChecked \/ JobsEnd
  <2>1. /\ jobs.at \in {"cull", "check culled"} => jobs.todo = << >>
        /\ jobs'.at \notin {"cull", "check culled"}
        /\ UNCHANGED <<status, timeout, tracked, prover>>
    <3>1. CASE JobsCulled
      BY <3>1 DEF JobsCulled, rvars
    <3>2. CASE JobsChecked
      BY <3>2 DEF JobsChecked, rvars
    <3>3. CASE JobsEnd
      BY <3>3 DEF JobsEnd, JobsIdle, rvars
    <3>. QED
      BY <1>10, <3>1, <3>2, <3>3
  <2>2. ASSUME NEW s \in Receipts PROVE Watched(s)'
    BY <1>0, <1>c, <2>1 DEF Watched
  <2>3. UntracksDelivered' /\ CullsMarked'
    BY <1>0, <2>1 DEF UntracksDelivered, CullsMarked
  <2>. QED
    BY <2>2, <2>3, WatchParts
<1>11. CASE JobsRetain
  <2>. DEFINE r == Head(jobs.todo)
  <2>1. /\ jobs.at = "retain" /\ jobs'.at = "retain"
        /\ r \in Receipts
        /\ tracked' = IF Provable(r) THEN tracked ELSE Without(tracked, r)
        /\ UNCHANGED <<status, timeout, prover>>
    BY <1>11, <1>b DEF JobsRetain, TypeOK, JobsState, rvars
  <2>2. ASSUME NEW s \in Receipts PROVE Watched(s)'
    <3>1. CASE Provable(r)
      BY <1>0, <2>1, <3>1 DEF Watched
    <3>2. CASE ~Provable(r)
      <4>1. status[s] = "SENT" => s # r
        BY <3>2 DEF Provable
      <4>. QED
        BY <1>0, <1>a, <2>1, <3>2, <4>1, InWithout DEF Watched
    <3>. QED
      BY <3>1, <3>2
  <2>3. UntracksDelivered' /\ CullsMarked'
    BY <1>0, <2>1 DEF UntracksDelivered, CullsMarked
  <2>. QED
    BY <2>2, <2>3, WatchParts
<1>12. CASE UNCHANGED vars
  BY <1>12, <1>2 DEF vars
<1>. QED
  BY <1>4, <1>5, <1>6, <1>7, <1>8, <1>9, <1>10, <1>11, <1>12 DEF Next, JobsStep

(***************************************************************************)
(* As long as no application changes a receipt's timeout, a receipt still  *)
(* SENT is on Transport's list or in the jobs pass's hands.                *)
(***************************************************************************)
THEOREM NothingForgotten ==
  ASSUME ~AppSetsTimeout
  PROVE  Spec => []SentIsWatched
<1>1. Init => WatchInv
  BY DEF Init, WatchInv, SentIsWatched, ProverIdle, JobsIdle
<1>2. TypeOK /\ WatchInv /\ [Next]_vars => WatchInv'
  BY NextWatch
<1>3. WatchInv => SentIsWatched
  BY DEF WatchInv
<1>. QED
  BY <1>1, <1>2, <1>3, TypeCorrect, PTL DEF Spec
=============================================================================
