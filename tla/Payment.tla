------------------------------ MODULE Payment -------------------------------
(***************************************************************************)
(* The arithmetic of booking.payment.ts and cession.payment.ts. An amount  *)
(* is a natural number of cents, as both files compare them.               *)
(***************************************************************************)
EXTENDS Integers

PaymentStatus == {"unpaid", "partial", "paid"}

(* resolvePayment succeeds when it returns ok.                             *)
ResolveOk(amount, total, hasMethod) ==
  /\ amount <= total
  /\ amount > 0 => hasMethod

ResolvedStatus(amount, total) ==
  CASE amount = 0 /\ total = 0 -> "paid"
    [] amount = 0 /\ total # 0 -> "unpaid"
    [] amount # 0 /\ amount = total -> "paid"
    [] OTHER -> "partial"

NewCollected(collected, refundToPrevious, collectedFromNew) ==
  collected - refundToPrevious + collectedFromNew

(* reconcileCessionPayment succeeds when it returns ok.                    *)
CessionOk(collected, total, refundToPrevious, collectedFromNew) ==
  /\ refundToPrevious >= 0 /\ refundToPrevious <= collected
  /\ collectedFromNew >= 0
  /\ NewCollected(collected, refundToPrevious, collectedFromNew) <= total

(* A variant that is not the code: any collection settles the total.       *)
CessionStatusAnyIsPaid(newCollected, total) ==
  IF newCollected = 0 THEN "unpaid" ELSE "paid"

CessionStatus(newCollected, total) ==
  CASE newCollected = 0 -> "unpaid"
    [] newCollected # 0 /\ newCollected = total -> "paid"
    [] OTHER -> "partial"
=============================================================================
