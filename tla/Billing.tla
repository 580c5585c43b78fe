--------------------------------- MODULE Billing ---------------------------------
(***************************************************************************)
(* One organisation's subscription: what Stripe holds and says of it in    *)
(* events, and what the application's own rows make of that. Events are    *)
(* delivered until they are acknowledged, more than once, in any order and  *)
(* while others are handled; handlers fail and die; requests to subscribe,  *)
(* change plan and cancel write the same rows, and the platform's operator  *)
(* sets the plan by hand.                                                   *)
(* Source: app/api/webhooks/stripe/route.ts,                                *)
(* app/api/orgs/[orgId]/billing/subscription/route.ts, lib/billing/stripe.ts, *)
(* app/api/platform/orgs/[orgId]/route.ts.                                  *)
(*                                                                         *)
(* An event is its number: Stripe's state after it is version n. Dates,     *)
(* audit entries and notices to administrators are left out, as are events  *)
(* that only leave an audit entry; billing.failed says that paymentFailedAt *)
(* is set. Customer and card exist, and the card stays. A plan has a price  *)
(* per interval it is sold on; every price is one of the application's.     *)
(***************************************************************************)
EXTENDS Integers, FiniteSets, Sequences

CONSTANTS
    Prices,        \* what can be subscribed to: a plan, monthly or annually
    Plans,         \* SubscribablePlan
    PlanOf,        \* the plan of each price, by its lookup key
    Deliveries,    \* webhook invocations at a time
    Callers,       \* requests to the subscription route at a time
    MaxEvents,     \* bound: events Stripe sends
    MaxCalls,      \* bound: requests to the subscription route, and plans set by hand
    MaxFaults      \* bound: handlers and requests that fail or die

Trial == "trial"
Enterprise == "enterprise"
NoPrice == "none"
NoAnswer == [sub |-> 0, status |-> "none", version |-> 0]
ASSUME PlanAssumption ==
    /\ {Trial, Enterprise} \cap Plans = {} /\ NoPrice \notin Prices
    /\ PlanOf \in [Prices -> Plans]
    /\ {MaxEvents, MaxCalls, MaxFaults} \subseteq Nat

VARIABLES
    subs, owed,              \* Stripe: subscriptions made, and whether the last invoice failed
    events, acked,           \* Stripe: events sent, and those answered with 2xx
    keys,                    \* Stripe: the answer kept under each idempotency key
    known,                   \* StripeWebhookEvent
    billing, plan,           \* BillingSubscription, and Organization.plan
    hpc, on, read,           \* of a webhook invocation: statement, event, row as read
    cpc, want, found, answer,\* of a request: statement, price, subscription read, Stripe's answer
    at,                      \* history: the version each field was last written from
    disturbed,               \* history: a write was older than what it replaced
    entitled,                \* history: the plan Stripe's reports amount to
    applied, botched,        \* history: events handled, and those whose handling went wrong
    wanted,                  \* history: prices asked for
    overridden,              \* history: the plan is the one an operator set
    calls, faults            \* bound: requests, and failures and deaths, so far

stripeVars == <<subs, owed, events, keys, entitled>>
rowVars == <<billing, plan, overridden, at, disturbed>>
hookVars == <<acked, known, hpc, on, read, applied, botched, faults>>
callVars == <<cpc, want, found, answer, wanted, calls>>
vars == <<subs, owed, events, acked, keys, known, billing, plan, hpc, on, read, cpc, want,
          found, answer, at, disturbed, entitled, applied, botched, wanted, overridden,
          calls, faults>>

Statuses == {"incomplete", "incomplete_expired", "active", "past_due", "unpaid", "canceled"}
Over == {"incomplete_expired", "canceled"}
Grants(status) == status = "active"
Now == Len(events)
NotRead == [failed |-> FALSE, version |-> 0]
NoEvent == 0

\* A trial: its status is the column's default, its subscription is not made yet.
Init ==
    /\ subs = <<>> /\ owed = FALSE /\ events = <<>> /\ acked = {}
    /\ keys = [p \in Prices |-> NoAnswer] /\ known = {}
    /\ billing = [sub |-> 0, status |-> "active", failed |-> FALSE] /\ plan = Trial
    /\ hpc = [h \in Deliveries |-> "idle"] /\ on = [h \in Deliveries |-> NoEvent]
    /\ read = [h \in Deliveries |-> NotRead]
    /\ cpc = [c \in Callers |-> "idle"] /\ want = [c \in Callers |-> NoPrice]
    /\ found = [c \in Callers |-> 0] /\ answer = [c \in Callers |-> NoAnswer]
    /\ at = [status |-> 0, plan |-> 0, failed |-> 0] /\ disturbed = FALSE
    /\ entitled = Trial /\ applied = {} /\ botched = {} /\ wanted = {}
    /\ overridden = FALSE /\ calls = 0 /\ faults = 0

---------------------------------------------------------------------------
(* Stripe *)

Lives == [incomplete |-> {"active", "incomplete_expired"}, active |-> {"past_due", "canceled"},
          past_due |-> {"active", "unpaid", "canceled"}, unpaid |-> {"active", "canceled"},
          canceled |-> {}, incomplete_expired |-> {}]

\* Every change of a subscription is an event that carries it, and so its price, in which
\* planForSubscription sees the plan.
Report(s, sub) ==
    /\ Now < MaxEvents
    /\ events' = Append(events, [kind |-> IF sub.status = "canceled" THEN "deleted" ELSE "updated",
                                 sub |-> s, plan |-> PlanOf[sub.price], status |-> sub.status])
    /\ entitled' = IF Grants(sub.status) THEN PlanOf[sub.price]
                   ELSE IF sub.status = "canceled" THEN Trial ELSE entitled

StatusChanges(s) ==
    /\ \E status \in Lives[subs[s].status] :
         LET sub == [subs[s] EXCEPT !.status = status]
         IN  subs' = [subs EXCEPT ![s] = sub] /\ Report(s, sub)
    /\ UNCHANGED <<owed, keys, rowVars, hookVars, callVars>>

InvoiceSettles(s) ==
    /\ subs[s].status \notin Over /\ Now < MaxEvents
    /\ \E kind \in {"paid", "failed"} :
         /\ owed' = (kind = "failed")
         /\ events' = Append(events, [kind |-> kind, sub |-> s, plan |-> Trial, status |-> "none"])
    /\ UNCHANGED <<subs, keys, entitled, rowVars, hookVars, callVars>>

---------------------------------------------------------------------------
(* Statements both routes are made of. A write made from version v is old   *)
(* if the field already shows a later one.                                  *)

HookAt(h, step) == hpc' = [hpc EXCEPT ![h] = step]
CallAt(c, step) == cpc' = [cpc EXCEPT ![c] = step]
Handling(h) == hpc[h] \in {"find", "write", "plan", "done"}
Fault == faults < MaxFaults /\ faults' = faults + 1
Later(m, n) == IF m >= n THEN m ELSE n
Wrote(field, version) ==
    /\ at' = [at EXCEPT ![field] = Later(@, version)]
    /\ disturbed' = (disturbed \/ version < at[field])

HookEnds(h) ==
    /\ HookAt(h, "idle")
    /\ on' = [on EXCEPT ![h] = NoEvent] /\ read' = [read EXCEPT ![h] = NotRead]
CallEnds(c) ==
    /\ CallAt(c, "idle")
    /\ want' = [want EXCEPT ![c] = NoPrice] /\ found' = [found EXCEPT ![c] = 0]
    /\ answer' = [answer EXCEPT ![c] = NoAnswer]

---------------------------------------------------------------------------
(* Faulty variants: each is one definition below with a plausible slip, and   *)
(* breaks the property the project lists it for.                             *)

FailRemembering(h) ==
    /\ Handling(h) /\ HookEnds(h) /\ Fault
    /\ botched' = IF on[h] \in acked THEN botched \cup {on[h]} ELSE botched
    /\ UNCHANGED <<acked, known, applied, stripeVars, rowVars, callVars>>

FindFirstOnly(h) ==
    /\ hpc[h] = "find"
    /\ HookAt(h, IF billing.sub \in {0, events[on[h]].sub} /\ billing.status # "canceled"
                   THEN "write" ELSE "done")
    /\ read' = IF events[on[h]].kind # "failed" THEN read
               ELSE [read EXCEPT ![h] = [failed |-> billing.failed, version |-> at.failed]]
    /\ UNCHANGED <<acked, known, on, applied, botched, faults, stripeVars, rowVars, callVars>>

CreateUnkeyed(c) ==
    /\ found[c] = 0
    /\ \E status \in {"incomplete", "active"} :
         LET s == Len(subs) + 1
             sub == [price |-> want[c], status |-> status]
         IN  /\ subs' = Append(subs, sub) /\ Report(s, sub)
             /\ answer' = [answer EXCEPT ![c] = [sub |-> s, status |-> status, version |-> Now + 1]]
    /\ UNCHANGED keys

---------------------------------------------------------------------------
(* The webhook *)

Deliver(h) ==
    /\ hpc[h] = "idle"
    /\ \E e \in DOMAIN events \ acked : on' = [on EXCEPT ![h] = e]
    /\ HookAt(h, "record")
    /\ UNCHANGED <<acked, known, read, applied, botched, faults, stripeVars, rowVars, callVars>>

\* The id is recorded first: a second delivery is acknowledged and not handled.
RecordEvent(h) ==
    /\ hpc[h] = "record" /\ on[h] \notin known
    /\ known' = known \cup {on[h]} /\ HookAt(h, "find")
    /\ UNCHANGED <<acked, on, read, applied, botched, faults, stripeVars, rowVars, callVars>>

AnswerDuplicate(h) ==
    /\ hpc[h] = "record" /\ on[h] \in known
    /\ acked' = acked \cup {on[h]} /\ HookEnds(h)
    /\ UNCHANGED <<known, applied, botched, faults, stripeVars, rowVars, callVars>>

FindBilling(h) ==
    /\ hpc[h] = "find" /\ HookAt(h, "write")
    /\ read' = IF events[on[h]].kind # "failed" THEN read
               ELSE [read EXCEPT ![h] = [failed |-> billing.failed, version |-> at.failed]]
    /\ UNCHANGED <<acked, known, on, applied, botched, faults, stripeVars, rowVars, callVars>>

\* handleSubscriptionUpdated, handleSubscriptionDeleted
WriteSubscription(h) ==
    LET e == events[on[h]]
        ended == e.kind = "deleted"
    IN  /\ hpc[h] = "write" /\ e.kind \in {"updated", "deleted"}
        /\ HookAt(h, IF ended \/ Grants(e.status) THEN "plan" ELSE "done")
        /\ billing' = [billing EXCEPT !.status = e.status, !.sub = IF ended THEN @ ELSE e.sub]
        /\ Wrote("status", on[h])
        /\ UNCHANGED <<plan, overridden, acked, known, on, read, applied, botched, faults,
                       stripeVars, callVars>>

\* handleInvoicePaymentSucceeded, handleInvoicePaymentFailed: the date of the first failure
\* stays, as it was read.
WritePayment(h) ==
    LET kind == events[on[h]].kind
        keeps == kind = "failed" /\ read[h].failed
    IN  /\ hpc[h] = "write" /\ kind \in {"paid", "failed"}
        /\ HookAt(h, "done")
        /\ billing' = IF keeps THEN billing ELSE [billing EXCEPT !.failed = (kind = "failed")]
        /\ at' = [at EXCEPT !.failed = Later(@, on[h])]
        /\ disturbed' = (disturbed \/ on[h] < at.failed \/ (keeps /\ read[h].version # at.failed))
        /\ UNCHANGED <<plan, overridden, acked, known, on, read, applied, botched, faults,
                       stripeVars, callVars>>

\* The end of a subscription ends a plan of the kind it pays for: Enterprise is left alone.
WritePlan(h) ==
    LET e == events[on[h]]
        kept == e.kind = "deleted" /\ plan \notin Plans
    IN  /\ hpc[h] = "plan" /\ HookAt(h, "done")
        /\ plan' = IF kept THEN plan ELSE IF e.kind = "deleted" THEN Trial ELSE e.plan
        /\ overridden' = (kept /\ overridden)
        /\ Wrote("plan", on[h])
        /\ UNCHANGED <<billing, acked, known, on, read, applied, botched, faults,
                       stripeVars, callVars>>

Acknowledge(h) ==
    /\ hpc[h] = "done" /\ HookEnds(h)
    /\ acked' = acked \cup {on[h]} /\ applied' = applied \cup {on[h]}
    /\ UNCHANGED <<known, botched, faults, stripeVars, rowVars, callVars>>

\* The handler throws and the event is forgotten, unless that fails too; Stripe delivers it
\* again unless another delivery of it has been acknowledged.
FailEvent(h) ==
    /\ Handling(h) /\ HookEnds(h) /\ Fault
    /\ \E forgotten \in BOOLEAN :
         /\ known' = IF forgotten THEN known \ {on[h]} ELSE known
         /\ botched' = IF forgotten /\ on[h] \notin acked THEN botched ELSE botched \cup {on[h]}
    /\ UNCHANGED <<acked, applied, stripeVars, rowVars, callVars>>

\* A kill, or an exception before the id is recorded.
DieHandling(h) ==
    /\ hpc[h] # "idle" /\ HookEnds(h) /\ Fault
    /\ botched' = IF Handling(h) THEN botched \cup {on[h]} ELSE botched
    /\ UNCHANGED <<acked, known, applied, stripeVars, rowVars, callVars>>

Hook(h) ==
    \/ Deliver(h) \/ RecordEvent(h) \/ AnswerDuplicate(h) \/ FindBilling(h)
    \/ WriteSubscription(h) \/ WritePayment(h) \/ WritePlan(h)
    \/ Acknowledge(h) \/ FailEvent(h) \/ DieHandling(h)

---------------------------------------------------------------------------
(* The subscription route *)

Begin(c) == cpc[c] = "idle" /\ calls < MaxCalls /\ calls' = calls + 1

Subscribe(c) ==
    /\ Begin(c) /\ CallAt(c, "ask")
    /\ \E p \in Prices : want' = [want EXCEPT ![c] = p] /\ wanted' = wanted \cup {p}
    /\ found' = [found EXCEPT ![c] = billing.sub]
    /\ UNCHANGED <<answer, stripeVars, rowVars, hookVars>>

\* Stripe refuses to change a subscription that is over.
ChangePrice(c) ==
    LET s == found[c]
        sub == [subs[s] EXCEPT !.price = want[c]]
    IN  /\ s # 0 /\ subs[s].status \notin Over
        /\ IF sub = subs[s] THEN UNCHANGED <<subs, events, entitled>>
           ELSE subs' = [subs EXCEPT ![s] = sub] /\ Report(s, sub)
        /\ answer' = [answer EXCEPT ![c] = [sub |-> s, status |-> sub.status, version |-> Len(events')]]
        /\ UNCHANGED keys

\* The key names the price: a retry within a day gets the first answer again.
Create(c) ==
    /\ found[c] = 0
    /\ IF keys[want[c]] # NoAnswer
         THEN answer' = [answer EXCEPT ![c] = keys[want[c]]]
              /\ UNCHANGED <<subs, events, entitled, keys>>
         ELSE \E status \in {"incomplete", "active"} :
              LET s == Len(subs) + 1
                  sub == [price |-> want[c], status |-> status]
              IN  /\ subs' = Append(subs, sub) /\ Report(s, sub)
                  /\ answer' = [answer EXCEPT ![c] = [sub |-> s, status |-> status, version |-> Now + 1]]
                  /\ keys' = [keys EXCEPT ![want[c]] = answer'[c]]

AskStripe(c) ==
    /\ cpc[c] = "ask" /\ CallAt(c, "save")
    /\ ChangePrice(c) \/ Create(c)
    /\ UNCHANGED <<owed, want, found, wanted, calls, rowVars, hookVars>>

SaveAnswer(c) ==
    /\ cpc[c] = "save"
    /\ billing' = [billing EXCEPT !.sub = answer[c].sub, !.status = answer[c].status]
    /\ Wrote("status", answer[c].version)
    /\ IF Grants(answer[c].status)
         THEN CallAt(c, "plan") /\ UNCHANGED <<want, found, answer>>
         ELSE CallEnds(c)
    /\ UNCHANGED <<plan, overridden, wanted, calls, stripeVars, hookVars>>

SavePlan(c) ==
    /\ cpc[c] = "plan" /\ CallEnds(c)
    /\ plan' = PlanOf[want[c]] /\ overridden' = FALSE /\ Wrote("plan", answer[c].version)
    /\ UNCHANGED <<billing, wanted, calls, stripeVars, hookVars>>

\* DELETE: the subscription is to end with its period, which is a change like others.
BeginCancel(c) ==
    /\ Begin(c) /\ billing.sub # 0 /\ CallAt(c, "cancel")
    /\ found' = [found EXCEPT ![c] = billing.sub]
    /\ UNCHANGED <<want, answer, wanted, stripeVars, rowVars, hookVars>>

CancelAtPeriodEnd(c) ==
    LET sub == subs[found[c]] IN
    /\ cpc[c] = "cancel" /\ sub.status \notin Over
    /\ CallAt(c, "saveStatus") /\ Report(found[c], sub)
    /\ answer' = [answer EXCEPT ![c] = [sub |-> found[c], status |-> sub.status, version |-> Now + 1]]
    /\ UNCHANGED <<subs, owed, keys, want, found, wanted, calls, rowVars, hookVars>>

SaveStatus(c) ==
    /\ cpc[c] = "saveStatus" /\ CallEnds(c)
    /\ billing' = [billing EXCEPT !.status = answer[c].status]
    /\ Wrote("status", answer[c].version)
    /\ UNCHANGED <<plan, overridden, wanted, calls, stripeVars, hookVars>>

Refused(c) ==
    /\ cpc[c] \in {"ask", "cancel"} /\ found[c] # 0 /\ subs[found[c]].status \in Over
    /\ CallEnds(c)
    /\ UNCHANGED <<wanted, calls, stripeVars, rowVars, hookVars>>

\* A statement throws or the invocation is killed: nothing is undone.
CallFails(c) ==
    /\ cpc[c] # "idle" /\ CallEnds(c) /\ Fault
    /\ UNCHANGED <<wanted, calls, acked, known, hpc, on, read, applied, botched, stripeVars, rowVars>>

Call(c) ==
    \/ Subscribe(c) \/ AskStripe(c) \/ SaveAnswer(c) \/ SavePlan(c)
    \/ BeginCancel(c) \/ CancelAtPeriodEnd(c) \/ SaveStatus(c) \/ Refused(c) \/ CallFails(c)

---------------------------------------------------------------------------
(* The platform's operator sets any plan, whatever Stripe says. *)

SetPlan ==
    /\ calls < MaxCalls /\ calls' = calls + 1
    /\ plan' \in Plans \cup {Trial, Enterprise} /\ overridden' = TRUE
    /\ UNCHANGED <<billing, at, disturbed, cpc, want, found, answer, wanted, stripeVars, hookVars>>

Next ==
    \/ \E s \in DOMAIN subs : StatusChanges(s) \/ InvoiceSettles(s)
    \/ \E h \in Deliveries : Hook(h)
    \/ \E c \in Callers : Call(c)
    \/ SetPlan

Spec == Init /\ [][Next]_vars

---------------------------------------------------------------------------
(* Properties *)

\* Whenever every event sent so far has been handled, however often deliveries were repeated,
\* failed half way and requests died between Stripe's answer and their own writes, the rows
\* say of the organisation's one subscription what Stripe does, if nothing older was written
\* over something newer: its status, the plan it pays for, and whether an invoice is owed.
\* The plan may still be the one the platform's operator set since (orgs/[orgId]/route.ts:72).
QuietRowsMirrorStripe ==
    applied = DOMAIN events /\ Len(subs) = 1 /\ ~disturbed =>
        /\ billing = [sub |-> 1, status |-> subs[1].status, failed |-> owed]
        /\ plan = entitled \/ overridden

\* No event is acknowledged and dropped (route.ts:84), and none is handled twice at once,
\* unless a handler died, could not forget the event, or failed while Stripe delivered it again.
DeliveriesAreSound ==
    /\ acked \subseteq applied \cup botched \cup {on[h] : h \in {g \in Deliveries : Handling(g)}}
    /\ \A g, h \in Deliveries : Handling(g) /\ Handling(h) /\ on[g] = on[h] => g = h

\* Nobody is on a plan that Stripe did not report as paid for, however old the write, except
\* by the operator's hand; and requests for one price, retried, overlapping and killed, make
\* one subscription (subscription/route.ts:77). Two prices of one plan may make two.
ChargesAreSound ==
    /\ plan = Trial \/ overridden \/ \E e \in DOMAIN events :
           events[e].kind = "updated" /\ events[e].plan = plan /\ Grants(events[e].status)
    /\ Cardinality(wanted) <= 1 => Len(subs) <= 1
=============================================================================
