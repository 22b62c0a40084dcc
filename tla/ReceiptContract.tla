--------------------------- MODULE ReceiptContract ---------------------------
(***************************************************************************)
(* What PacketReceipt promises an application that sees neither locks, nor *)
(* threads, nor Transport's list: a receipt is sent, then concluded, in    *)
(* one step each; a conclusion sets going the callback registered for it;  *)
(* a callback registered after the conclusion is set going at once if no   *)
(* callback of its kind has been; there is no other call.                  *)
(***************************************************************************)
EXTENDS Naturals

CONSTANT Receipts

VARIABLES status,      \* the receipt's status as get_status() shows it
          registered,  \* kinds of callback the application has set
          calls        \* callbacks set going, per kind

Kinds == {"delivery", "timeout"}
ConcludedFor(k) == IF k = "delivery" THEN {"DELIVERED"} ELSE {"FAILED", "CULLED"}

Init == /\ status = [r \in Receipts |-> "unsent"]
        /\ registered = [r \in Receipts |-> {}]
        /\ calls = [c \in Receipts \X Kinds |-> 0]

Send(r) == /\ status[r] = "unsent"
           /\ status' = [status EXCEPT ![r] = "SENT"]
           /\ UNCHANGED <<registered, calls>>

CallIf(r, k, due) == calls' = IF due THEN [calls EXCEPT ![<<r, k>>] = @ + 1] ELSE calls

Conclude(r, from, to, k) ==
  /\ status[r] \in from
  /\ status' = [status EXCEPT ![r] = to]
  /\ CallIf(r, k, k \in registered[r])
  /\ UNCHANGED registered

Deliver(r) == Conclude(r, {"SENT", "FAILED"}, "DELIVERED", "delivery")
TimeOut(r) == Conclude(r, {"SENT"}, "FAILED", "timeout")
Cull(r) == Conclude(r, {"SENT"}, "CULLED", "timeout")

Register(r, k) ==
  /\ status[r] # "unsent"
  /\ registered' = [registered EXCEPT ![r] = @ \cup {k}]
  /\ CallIf(r, k, status[r] \in ConcludedFor(k) /\ calls[<<r, k>>] = 0)
  /\ UNCHANGED status

Next == \E r \in Receipts : \/ Send(r) \/ Deliver(r) \/ TimeOut(r) \/ Cull(r)
                            \/ \E k \in Kinds : Register(r, k)

Spec == Init /\ [][Next]_<<status, registered, calls>>
=============================================================================
