-------------------------- MODULE MCBillingOrders --------------------------
(***************************************************************************)
(* A member's top-up orders for TLC.                                       *)
(***************************************************************************)
EXTENDS BillingOrders, TLC

-----------------------------------------------------------------------------
\* A claim of payment-reversal.ts: fulfilment and a reversal commute, so that a
\* refunded order nets to zero.
RefundedOrderNetsToZero ==
    \A o \in Orders :
        grantRecorded(o) /\ order[o].reversal = "refunded" => order[o].reversed = Granted
=============================================================================
