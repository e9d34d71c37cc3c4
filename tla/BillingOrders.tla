--------------------------- MODULE BillingOrders ---------------------------
(***************************************************************************)
(* Credit top-up orders of one member (enterprise/billing/src/server): the *)
(* checkout request, the payment provider's webhooks, fulfilment and its   *)
(* retry job, refunds and chargebacks, and the member's balance, which     *)
(* usage, cost settlement and cycle renewal move at the same time.         *)
(*                                                                         *)
(* A transaction under the order's row lock (order-locking.ts) or the      *)
(* member row's lock is one action; what happens between two transactions  *)
(* of a call interleaves.  Money is counted in coarse units: an order costs*)
(* Paid and grants Granted credits.                                        *)
(***************************************************************************)
EXTENDS Integers, FiniteSetsExt

CONSTANTS
    Orders,     \* client reference keys, each of one purchase
    Requests,   \* concurrent createTopupCheckout calls
    Handlers,   \* concurrent webhook deliveries
    Job,        \* the scheduled reconcileRetryableOrders
    Uses,       \* usage charges, by idempotency key
    Paid,       \* amount paid for an order
    Granted,    \* credits an order grants
    Monthly,    \* credits of a cycle
    Costs,      \* credits a usage may cost
    Cumulative, \* refund events carry the running total, else their own amount
    MaxCycles,  \* bound on cycle renewals
    MaxFaults   \* bound on failed transactions, calls and crashes

ASSUME BillingAssumption ==
    /\ Paid \in Nat \ {0} /\ Granted \in Nat \ {0} /\ Monthly \in Nat
    /\ Costs \subseteq Nat \ {0} /\ IsFiniteSet(Costs)
    /\ Cumulative \in BOOLEAN /\ MaxCycles \in Nat /\ MaxFaults \in Nat
    /\ Job \notin Handlers
    /\ Orders # {} /\ Orders \cap {"new", "done"} = {}

VARIABLES
    order,     \* billing_orders
    account,   \* the member's billing_accounts row
    ledger,    \* usage_ledgers
    usage,     \* what a charge's ledger row recorded of its allocation
    sent,      \* amount of every event the provider has emitted
    event,     \* billing_webhook_events
    request,   \* checkout requests
    proc,      \* webhook deliveries and the retry job
    todo,      \* what the retry job has listed
    due,       \* the cycle is over
    faults

vars == <<order, account, ledger, usage, sent, event, request, proc, todo, due, faults>>

Procs == Handlers \cup {Job}

\* The payment is event 0, the refund that brings the total to n is event n.
Payment == 0
Chargeback == Paid + 1
Events == Payment .. Chargeback

\* Reversal ids are the events; fulfilment reverses under an id of its own.
FULFILLMENT_REVERSAL_ID == 0

OrderStatuses == {"none", "pending", "checkout_created", "payment_failed",
                  "fulfillment_failed", "fulfilled"}
ReversalStatuses == {"none", "partially_refunded", "refunded", "charged_back"}

NoOrder == [status |-> "none", paid |-> FALSE, url |-> FALSE,
            refunded |-> 0, reversed |-> 0, reversal |-> "none"]
Idle(p) == proc[p].pc = "idle"
At(p, pc) == proc[p].pc = pc
NoWork == [pc |-> "idle", order |-> CHOOSE o \in Orders : TRUE, event |-> Payment]

Row(key, delta, short) == [key |-> key, delta |-> delta, short |-> short]
HasRow(key) == \E r \in ledger : r.key = key
Fault == faults < MaxFaults /\ faults' = faults + 1

Init ==
    /\ order = [o \in Orders |-> NoOrder]
    /\ account = [monthly |-> Monthly, addOn |-> 0, cycle |-> 0]
    /\ ledger = {Row(<<"cycle", 0>>, Monthly, 0)}
    /\ usage = [u \in Uses |-> [pc |-> "new", monthly |-> 0, addOn |-> 0]]
    /\ sent = [o \in Orders |-> [n \in Events |-> 0]]
    /\ event = [o \in Orders |-> [n \in Events |-> "none"]]
    /\ request = [c \in Requests |-> "new"]
    /\ proc = [p \in Procs |-> NoWork]
    /\ todo = {} /\ due = FALSE /\ faults = 0

-----------------------------------------------------------------------------
\* The balance

Least(m, n) == IF m <= n THEN m ELSE n
Most(m, n) == IF m >= n THEN m ELSE n

\* A renewal that found the cycle over: what is left of it expires, and the new
\* cycle's quota is set, never added.  Every transaction on the member's row
\* starts with it (syncCycleLocked).
syncCycle(a) == IF due THEN [a EXCEPT !.monthly = Monthly, !.cycle = @ + 1] ELSE a

syncRows(a) ==
    IF ~due THEN {}
    ELSE {row \in {Row(<<"expire", a.cycle>>, -a.monthly, 0),
                   Row(<<"cycle", a.cycle + 1>>, Monthly, 0)} : row.delta # 0}

\* Monthly credits first, then add-on.
spendCredits(a, n) ==
    LET fromMonthly == Least(a.monthly, n)
    IN  [a EXCEPT !.monthly = @ - fromMonthly, !.addOn = @ - (n - fromMonthly)]

\* Mutation: the recovery is not clamped to what the bucket holds.
M_reclaimAll(a, n) ==
    LET fromAddOn == Least(a.addOn, n)
    IN  [a EXCEPT !.addOn = @ - fromAddOn, !.monthly = @ - (n - fromAddOn)]

\* Add-on credits first, then monthly, each down to zero.
reclaimCredits(a, n) ==
    LET fromAddOn == Least(a.addOn, n)
        fromMonthly == Least(a.monthly, n - fromAddOn)
    IN  [a EXCEPT !.addOn = @ - fromAddOn, !.monthly = @ - fromMonthly]

Total(a) == a.monthly + a.addOn

\* Mutation: the whole correction goes to the add-on bucket and to its origin.
M_refundTwice(a, n, from) == [a EXCEPT !.addOn = @ + n, !.monthly = @ + from.monthly]

\* refundConsumedCredits: a settled cost goes back to the buckets it came from,
\* add-on first.
refundConsumedCredits(a, n, from) ==
    LET addOn == Least(from.addOn, n)
    IN  [a EXCEPT !.addOn = @ + addOn, !.monthly = @ + (n - addOn)]

-----------------------------------------------------------------------------
\* Usage and time

CycleEnds ==
    /\ ~due /\ account.cycle < MaxCycles
    /\ due' = TRUE
    /\ UNCHANGED <<order, account, ledger, usage, sent, event, request, proc, todo, faults>>

\* The transaction on the member's row: its cycle is renewed, then it is moved.
MoveAccount(a, rows) ==
    /\ account' = a
    /\ ledger' = ledger \cup syncRows(account) \cup rows
    /\ due' = FALSE

\* meterConsume under enforced billing.  A key that has its row is a replay; a
\* refusal rolls the renewal back.
meterConsume(u, n) ==
    LET a == syncCycle(account) IN
    /\ usage[u].pc = "new" /\ Total(a) >= n
    /\ LET b == spendCredits(a, n) IN
       /\ MoveAccount(b, {Row(<<"use", u>>, -n, 0)})
       /\ usage' = [usage EXCEPT ![u] = [pc |-> "used",
                      monthly |-> a.monthly - b.monthly, addOn |-> a.addOn - b.addOn]]
    /\ UNCHANGED <<order, sent, event, request, proc, todo, faults>>

\* reconcileModelProviderCost: the provider settles at another cost, later.
reconcileModelProviderCost(u, n) ==
    LET a == syncCycle(account)
        charged == usage[u].monthly + usage[u].addOn
    IN  /\ usage[u].pc = "used"
        /\ n > charged => Total(a) >= n - charged
        /\ usage' = [usage EXCEPT ![u].pc = "settled"]
        /\ MoveAccount(IF n > charged THEN spendCredits(a, n - charged)
                       ELSE refundConsumedCredits(a, charged - n, usage[u]),
                       {row \in {Row(<<"settle", u>>, charged - n, 0)} : row.delta # 0})
        /\ UNCHANGED <<order, sent, event, request, proc, todo, faults>>

-----------------------------------------------------------------------------
\* Checkout

\* updateOrderLocked: a row is read again under its lock before it is written.
updateOrderLocked(o, row) == order' = [order EXCEPT ![o] = row]

hasCheckoutUrl(row) == row.status # "payment_failed" /\ row.url

RecoverableCheckout == {"pending", "checkout_created", "payment_failed"}

\* createTopupCheckout: the reference finds its order, whose checkout is used
\* again or, as long as none is known, created again.
createTopupCheckout(c, o) ==
    /\ request[c] = "new"
    /\ LET calls == \/ order[o].status = "none"
                    \/ /\ order[o].status \in RecoverableCheckout
                       /\ ~hasCheckoutUrl(order[o]) /\ ~order[o].paid
       IN  request' = [request EXCEPT ![c] = IF calls THEN o ELSE "done"]
    /\ IF order[o].status = "none"
       THEN updateOrderLocked(o, [NoOrder EXCEPT !.status = "pending"])
       ELSE UNCHANGED order
    /\ UNCHANGED <<account, ledger, usage, sent, event, proc, todo, due, faults>>

\* The provider answers createProviderTopupCheckout, or fails to.
checkoutCreated(c) ==
    LET o == request[c] IN
    /\ o \in Orders
    /\ updateOrderLocked(o, [order[o] EXCEPT !.status = "checkout_created",
                               !.paid = FALSE, !.url = TRUE])
    /\ request' = [request EXCEPT ![c] = "done"]
    /\ UNCHANGED <<account, ledger, usage, sent, event, proc, todo, due, faults>>

checkoutFailed(c) ==
    LET o == request[c] IN
    /\ o \in Orders /\ Fault
    /\ updateOrderLocked(o, [order[o] EXCEPT !.status = "payment_failed", !.paid = FALSE])
    /\ request' = [request EXCEPT ![c] = "done"]
    /\ UNCHANGED <<account, ledger, usage, sent, event, proc, todo, due>>

-----------------------------------------------------------------------------
\* The payment provider

Emit(o, n, amount) ==
    /\ sent[o][n] = 0
    /\ sent' = [sent EXCEPT ![o][n] = amount]
    /\ UNCHANGED <<order, account, ledger, usage, event, request, proc, todo, due, faults>>

\* Who was given the checkout's address pays it.
ProviderTakesPayment(o) == order[o].url /\ Emit(o, Payment, Paid)

RefundedSoFar(o) == Max({n \in 0 .. Paid : n = 0 \/ sent[o][n] # 0})

ProviderRefunds(o, n) ==
    /\ sent[o][Payment] # 0 /\ RefundedSoFar(o) \in 0 .. n - 1
    /\ Emit(o, n, n - RefundedSoFar(o))

ProviderChargesBack(o) == sent[o][Payment] # 0 /\ Emit(o, Chargeback, Paid)

-----------------------------------------------------------------------------
\* Reversals (payment-reversal.ts)

computeReversalTarget(total) ==
    IF total >= Paid THEN Granted ELSE (Granted * total) \div Paid

\* A running total never moves the recorded one backwards; an own amount adds.
nextRefundedTotal(row, o, n) ==
    CASE n = Chargeback -> Paid
      [] n # Chargeback /\ Cumulative -> Most(row.refunded, n)
      [] n # Chargeback /\ ~Cumulative -> Least(row.refunded + sent[o][n], Paid)

nextReversalStatus(total, n, current) ==
    IF current = "charged_back" \/ n = Chargeback THEN "charged_back"
    ELSE IF total >= Paid THEN "refunded" ELSE "partially_refunded"

\* What an order's reversal took back and did not: of the target only what was
\* not reversed before.
reverseGrant(a, o, row, total, id) ==
    LET deltaUnits == Most(computeReversalTarget(total) - row.reversed, 0)
        b == reclaimCredits(a, deltaUnits)
        recovered == Total(a) - Total(b)
    IN  [account |-> b,
         reversed |-> row.reversed + deltaUnits,
         row |-> Row(<<"reversal", o, id>>, -recovered, deltaUnits - recovered)]

\* Mutation: a reversal recorded before the grant is left for later.
M_leaveRecorded(a, o, row) == [account |-> a, reversed |-> row.reversed, rows |-> {}]

\* applyRecordedReversalLocked, on the balance just granted.
applyRecordedReversal(a, o, row) ==
    IF row.reversal = "none" \/ HasRow(<<"reversal", o, FULFILLMENT_REVERSAL_ID>>)
    THEN [account |-> a, reversed |-> row.reversed, rows |-> {}]
    ELSE LET total == IF row.reversal = "partially_refunded"
                      THEN Least(row.refunded, Paid) ELSE Paid
             applied == reverseGrant(a, o, row, total, FULFILLMENT_REVERSAL_ID)
         IN  [account |-> applied.account, reversed |-> applied.reversed,
              rows |-> {applied.row}]

\* applyPaymentReversal's transaction: recorded on an order that is not fulfilled,
\* else taken from the balance.  A reversal id that has its row is a duplicate.
applyPaymentReversal(o, n) ==
    IF HasRow(<<"reversal", o, n>>)
    THEN UNCHANGED <<order, account, ledger, due>>
    ELSE LET row == order[o]
             a == syncCycle(account)
             total == nextRefundedTotal(row, o, n)
             changed == [row EXCEPT !.refunded = Most(@, total),
                           !.reversal = nextReversalStatus(total, n, @)]
             applied == reverseGrant(a, o, row, total, n)
         IN  IF row.status # "fulfilled"
             THEN /\ MoveAccount(a, {Row(<<"reversal", o, n>>, 0, 0)})
                  /\ updateOrderLocked(o, changed)
             ELSE /\ MoveAccount(applied.account, {applied.row})
                  /\ updateOrderLocked(o, [changed EXCEPT !.reversed = applied.reversed])

-----------------------------------------------------------------------------
\* Fulfilment, by a payment webhook or by the retry job

Goto(p, pc) == proc' = [proc EXCEPT ![p].pc = pc]

\* A delivery goes on with its event row, the job with the next order.
Leave(p, pc) == IF p = Job THEN proc' = [proc EXCEPT ![p] = NoWork] ELSE Goto(p, pc)

grantRecorded(o) == HasRow(<<"grant", o>>)

\* fulfillTopupOrderLocked: the grant, once, less what was reversed before it.
fulfillTopupOrder(o) ==
    LET a == syncCycle(account)
        granted == IF grantRecorded(o) THEN a ELSE [a EXCEPT !.addOn = @ + Granted]
        applied == applyRecordedReversal(granted, o, order[o])
    IN  /\ MoveAccount(applied.account,
              applied.rows \cup IF grantRecorded(o) THEN {}
                                ELSE {Row(<<"grant", o>>, Granted, 0)})
        /\ updateOrderLocked(o, [order[o] EXCEPT !.status = "fulfilled", !.paid = TRUE,
                                   !.reversed = applied.reversed])

\* fulfillOrder's transaction.
fulfillOrder(p) ==
    /\ At(p, "fulfil")
    /\ IF order[proc[p].order].status = "fulfilled"
       THEN UNCHANGED <<order, account, ledger, due>>
       ELSE fulfillTopupOrder(proc[p].order)
    /\ Leave(p, "finish")
    /\ UNCHANGED <<usage, sent, event, request, todo, faults>>

\* It is rolled back.
fulfillOrderFails(p) ==
    /\ At(p, "fulfil") /\ Fault
    /\ Goto(p, "mark")
    /\ UNCHANGED <<order, account, ledger, usage, sent, event, request, todo, due>>

\* Mutation: a fulfilment that failed is noted on an order fulfilled meanwhile.
M_markAlways(row) == [row EXCEPT !.status = "fulfillment_failed", !.paid = TRUE]

failedFulfillment(row) ==
    IF row.status = "fulfilled" THEN row
    ELSE [row EXCEPT !.status = "fulfillment_failed", !.paid = TRUE]

\* markFulfillmentFailed, in a transaction of its own that may fail too; the
\* fulfilment's error is thrown either way.
markFulfillmentFailed(p) ==
    /\ At(p, "mark")
    /\ \/ /\ updateOrderLocked(proc[p].order, failedFulfillment(order[proc[p].order]))
          /\ UNCHANGED faults
       \/ Fault /\ UNCHANGED order
    /\ Leave(p, "fail")
    /\ UNCHANGED <<account, ledger, usage, sent, event, request, todo, due>>

\* listRetryableOrders
Retryable == {o \in Orders : order[o].status = "fulfillment_failed"}

\* reconcileRetryableOrders works off what it has listed.
reconcileLists ==
    /\ Idle(Job) /\ todo = {} /\ Retryable # {}
    /\ todo' = Retryable
    /\ UNCHANGED <<order, account, ledger, usage, sent, event, request, proc, due, faults>>

reconcileNext(o) ==
    /\ Idle(Job) /\ o \in todo
    /\ todo' = todo \ {o}
    /\ proc' = [proc EXCEPT ![Job] = [pc |-> "fulfil", order |-> o, event |-> Payment]]
    /\ UNCHANGED <<order, account, ledger, usage, sent, event, request, due, faults>>

-----------------------------------------------------------------------------
\* Webhooks (processSubscriptionWebhookEvent)

MarkEvent(h, status) ==
    event' = [event EXCEPT ![proc[h].order][proc[h].event] = status]

\* An event is delivered again until it is processed, also while an earlier
\* delivery is being handled.
receiveWebhook(h, o, n) ==
    /\ Idle(h) /\ sent[o][n] # 0 /\ event[o][n] # "processed"
    /\ event' = [event EXCEPT ![o][n] = "received"]
    /\ proc' = [proc EXCEPT ![h] = [pc |-> IF n = Payment THEN "fulfil" ELSE "reverse",
                                    order |-> o, event |-> n]]
    /\ UNCHANGED <<order, account, ledger, usage, sent, request, todo, due, faults>>

reversePayment(h) ==
    /\ At(h, "reverse")
    /\ \/ applyPaymentReversal(proc[h].order, proc[h].event) /\ Goto(h, "finish")
          /\ UNCHANGED faults
       \/ Fault /\ Goto(h, "fail") /\ UNCHANGED <<order, account, ledger, due>>
    /\ UNCHANGED <<usage, sent, event, request, todo>>

finishWebhook(h) ==
    /\ At(h, "finish")
    /\ \/ /\ MarkEvent(h, "processed")
          /\ proc' = [proc EXCEPT ![h] = NoWork]
          /\ UNCHANGED faults
       \/ Fault /\ Goto(h, "fail") /\ UNCHANGED event
    /\ UNCHANGED <<order, account, ledger, usage, sent, request, todo, due>>

\* Mutation: an event whose handling failed counts as processed.
M_failedIsDone == "processed"

failedStatus == "failed"

\* Also over the mark of a delivery that processed the event meanwhile.
failWebhook(h) ==
    /\ At(h, "fail")
    /\ MarkEvent(h, failedStatus)
    /\ proc' = [proc EXCEPT ![h] = NoWork]
    /\ UNCHANGED <<order, account, ledger, usage, sent, request, todo, due, faults>>

\* The process dies between two transactions.
Crash(p) ==
    /\ ~Idle(p) /\ Fault
    /\ proc' = [proc EXCEPT ![p] = NoWork]
    /\ todo' = IF p = Job THEN {} ELSE todo
    /\ UNCHANGED <<order, account, ledger, usage, sent, event, request, due>>

-----------------------------------------------------------------------------

ProcStep(p) ==
    \/ fulfillOrder(p)
    \/ markFulfillmentFailed(p)
    \/ p \in Handlers /\ (reversePayment(p) \/ finishWebhook(p) \/ failWebhook(p))

DeliveryStep ==
    \/ \E h \in Handlers, o \in Orders, n \in Events : receiveWebhook(h, o, n)
    \/ reconcileLists
    \/ \E o \in Orders : reconcileNext(o)

EnvironmentStep ==
    \/ CycleEnds
    \/ \E u \in Uses, n \in Costs : meterConsume(u, n) \/ reconcileModelProviderCost(u, n)
    \/ \E c \in Requests : \/ \E o \in Orders : createTopupCheckout(c, o)
                           \/ checkoutCreated(c) \/ checkoutFailed(c)
    \/ \E o \in Orders : \/ ProviderTakesPayment(o) \/ ProviderChargesBack(o)
                         \/ \E n \in 1 .. Paid : ProviderRefunds(o, n)
    \/ \E p \in Procs : fulfillOrderFails(p) \/ Crash(p)

Next == DeliveryStep \/ EnvironmentStep \/ \E p \in Procs : ProcStep(p)

Spec == Init /\ [][Next]_vars

\* Processes go on, the provider delivers until it is answered and the retry job
\* is scheduled: these steps are finitely many between two faults, so that no
\* fairness between them is needed.
FairSpec == Spec /\ WF_vars(DeliveryStep \/ \E p \in Procs : ProcStep(p))

-----------------------------------------------------------------------------
\* Properties

TypeOK ==
    /\ order \in [Orders -> [status : OrderStatuses, paid : BOOLEAN, url : BOOLEAN,
                             refunded : 0 .. Paid, reversed : 0 .. Granted,
                             reversal : ReversalStatuses]]
    /\ account \in [monthly : Nat, addOn : Nat, cycle : 0 .. MaxCycles]
    /\ \A r \in ledger : DOMAIN r = {"key", "delta", "short"}
                         /\ r.delta \in Int /\ r.short \in Nat
    /\ usage \in [Uses -> [pc : {"new", "used", "settled"}, monthly : Nat, addOn : Nat]]
    /\ sent \in [Orders -> [Events -> 0 .. Paid]]
    /\ event \in [Orders -> [Events -> {"none", "received", "failed", "processed"}]]
    /\ request \in [Requests -> {"new", "done"} \cup Orders]
    /\ proc \in [Procs -> [pc : {"idle", "fulfil", "mark", "reverse", "finish", "fail"},
                           order : Orders, event : Events]]
    /\ todo \subseteq Orders /\ due \in BOOLEAN /\ faults \in 0 .. MaxFaults

Rows(kind) == {r \in ledger : r.key[1] = kind}
RowsOf(kind, o) == {r \in Rows(kind) : r.key[2] = o}
Delta(r) == r.delta
Reversed(r) == r.short - r.delta

\* The ledger explains the tables whatever usage, renewals, settlements, grants
\* and reversals interleaved: the buckets hold the sum of its rows, an order has
\* reversed what its rows took back or could not, and no key has two rows.
LedgerExplainsBalances ==
    /\ Total(account) = MapThenSumSet(Delta, ledger)
    /\ \A o \in Orders : order[o].reversed = MapThenSumSet(Reversed, RowsOf("reversal", o))
    /\ Cardinality({r.key : r \in ledger}) = Cardinality(ledger)

\* Once an order's units are granted, all that was reported refunded of it is
\* reversed: in full for a refunded or charged back one, in proportion for
\* another, whether the report came before the grant or after.
RefundTakesGrantBack ==
    \A o \in Orders : grantRecorded(o) =>
        order[o].reversed =
            IF order[o].reversal \in {"refunded", "charged_back"} THEN Granted
            ELSE computeReversalTarget(order[o].refunded)

\* What is settled stays settled, whichever call, retry or redelivery comes late:
\* a fulfilled order, the units reversed, the amount refunded, a lost chargeback.
SettledStaysSettled ==
    [][\A o \in Orders :
          /\ order[o].status = "fulfilled" => order'[o].status = "fulfilled"
          /\ order'[o].reversed >= order[o].reversed
          /\ order'[o].refunded >= order[o].refunded
          /\ order[o].reversal = "charged_back" => order'[o].reversal = "charged_back"]_vars

\* What the provider has taken back of an order.
TakenBack(o) == IF sent[o][Chargeback] # 0 THEN Paid ELSE RefundedSoFar(o)

\* An order that was paid is fulfilled and stays so, and every refund the
\* provider made reaches the balance: failed transactions, crashes and
\* redeliveries notwithstanding.
PaidOrderSettles ==
    \A o \in Orders :
        <>[](sent[o][Payment] # 0 =>
                /\ order[o].status = "fulfilled"
                /\ order[o].reversed = computeReversalTarget(TakenBack(o)))
=============================================================================
