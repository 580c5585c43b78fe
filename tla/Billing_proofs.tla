---------------------------- MODULE Billing_proofs ----------------------------
(***************************************************************************)
(* Proofs about Billing, for any prices, plans, deliveries and requests,   *)
(* and for any bounds.                                                     *)
(*                                                                         *)
(* The argument: Stripe's state after version v is told by the newest event *)
(* of its kind up to v, and so is the value of a field last written from    *)
(* version v, unless something older was ever written over it. Once every   *)
(* event has been handled, no field is older than the newest of its events. *)
(***************************************************************************)
EXTENDS Billing, FiniteSetTheorems, SequenceTheorems, TLAPS

Subscription == [price : Prices, status : Statuses]
Answer == [sub : Nat, status : Statuses \cup {"none"}, version : Nat]
Event == [kind : {"updated", "deleted", "paid", "failed"}, sub : Nat \ {0},
          plan : Plans \cup {Trial}, status : Statuses \cup {"none"}]
HookSteps == {"idle", "record", "find", "write", "plan", "done"}
CallSteps == {"idle", "ask", "save", "plan", "cancel", "saveStatus"}

StripeTypeOK ==
    /\ subs \in Seq(Subscription) /\ owed \in BOOLEAN /\ events \in Seq(Event)
    /\ keys \in [Prices -> Answer] /\ entitled \in Plans \cup {Trial}
RowTypeOK ==
    /\ billing \in [sub : Nat, status : Statuses, failed : BOOLEAN]
    /\ plan \in Plans \cup {Trial, Enterprise} /\ overridden \in BOOLEAN
    /\ ~overridden => plan # Enterprise
    /\ at \in [status : Nat, plan : Nat, failed : Nat] /\ disturbed \in BOOLEAN
HookTypeOK ==
    /\ hpc \in [Deliveries -> HookSteps] /\ on \in [Deliveries -> Nat]
    /\ read \in [Deliveries -> [failed : BOOLEAN, version : Nat]]
    /\ faults \in Nat
CallTypeOK ==
    /\ cpc \in [Callers -> CallSteps] /\ want \in [Callers -> Prices \cup {NoPrice}]
    /\ found \in [Callers -> Nat] /\ answer \in [Callers -> Answer]
    /\ wanted \subseteq Prices /\ calls \in Nat
TypeOK == StripeTypeOK /\ RowTypeOK /\ HookTypeOK /\ CallTypeOK

\* An event is about a subscription there is; the first one says that the first was made.
EventsInv ==
    /\ \A e \in DOMAIN events :
          /\ events[e].sub \in 1 .. Len(subs)
          /\ events[e].kind \in {"updated", "deleted"} => events[e].status \in Statuses
          /\ events[e].kind = "updated" => events[e].plan \in Plans
    /\ Len(subs) # 0 => Len(events) # 0
    /\ Len(events) # 0 => events[1].kind = "updated"

\* Whoever names a subscription or an event names one there is, and a plan that was
\* asked for.
NamesInv ==
    /\ billing.sub <= Len(subs)
    /\ \A p \in Prices : keys[p] # NoAnswer =>
          keys[p].sub \in 1 .. Len(subs) /\ keys[p].status \in Statuses /\ p \in wanted
    /\ \A c \in Callers : found[c] <= Len(subs)
    /\ \A c \in Callers : cpc[c] \in {"save", "plan"} => answer[c].sub \in 1 .. Len(subs)
    /\ \A c \in Callers : cpc[c] \in {"save", "plan", "saveStatus"} => answer[c].status \in Statuses
    /\ \A c \in Callers : cpc[c] \in {"ask", "save", "plan"} => want[c] \in wanted
    /\ \A c \in Callers : cpc[c] \in {"cancel", "saveStatus"} => found[c] # 0
    /\ \A h \in Deliveries : hpc[h] # "idle" => on[h] \in DOMAIN events
    /\ EventsInv

\* An event that is known, or acknowledged, is handled, is being handled, or went wrong.
Accounted(e) == e \in applied \/ e \in botched \/ \E h \in Deliveries : Handling(h) /\ on[h] = e
DeliveryInv ==
    /\ \A e \in acked : Accounted(e)
    /\ \A e \in known : Accounted(e)
    /\ \A h \in Deliveries : Handling(h) => on[h] \in known
    /\ \A g, h \in Deliveries : Handling(g) /\ Handling(h) /\ on[g] = on[h] => g = h
    /\ \A h \in Deliveries : hpc[h] = "plan" =>
          \/ events[on[h]].kind = "deleted"
          \/ events[on[h]].kind = "updated" /\ Grants(events[on[h]].status)

\* Whatever may become the organisation's plan has been reported as paid for.
PaidFor(evs, p) == \E e \in DOMAIN evs :
    evs[e].kind = "updated" /\ evs[e].plan = p /\ Grants(evs[e].status)
PlanInv ==
    /\ plan = Trial \/ overridden \/ PaidFor(events, plan)
    /\ \A s \in 1 .. Len(subs) : Grants(subs[s].status) => PaidFor(events, PlanOf[subs[s].price])
    /\ \A p \in Prices : keys[p] # NoAnswer /\ Grants(keys[p].status) => PaidFor(events, PlanOf[p])
    /\ \A c \in Callers : cpc[c] \in {"save", "plan"} /\ Grants(answer[c].status) =>
          PaidFor(events, PlanOf[want[c]])
    /\ \A c \in Callers : cpc[c] = "plan" => Grants(answer[c].status)

\* Every subscription was made under the key of its plan.
Keyed == {p \in Prices : keys[p] # NoAnswer}
KeyInv == IsFiniteSet(wanted) /\ Len(subs) = Cardinality(Keyed)

---------------------------------------------------------------------------
(* The event a value comes from: the newest of S up to version v, which has *)
(* value val[e]; none if there is no such event.                            *)

Shown(S, val, none, x, v) ==
    \/ \E e \in S : e <= v /\ x = val[e] /\ \A d \in S : d <= v => d <= e
    \/ x = none /\ \A e \in S : e > v

Reports(evs) == {e \in DOMAIN evs : evs[e].kind \in {"updated", "deleted"}}
Grantings(evs) == {e \in DOMAIN evs : \/ evs[e].kind = "deleted"
                                      \/ evs[e].kind = "updated" /\ Grants(evs[e].status)}
Invoices(evs) == {e \in DOMAIN evs : evs[e].kind \in {"paid", "failed"}}
StatusOf(evs) == [e \in DOMAIN evs |-> evs[e].status]
PlanTold(evs) == [e \in DOMAIN evs |-> IF evs[e].kind = "deleted" THEN Trial ELSE evs[e].plan]
OwedOf(evs) == [e \in DOMAIN evs |-> evs[e].kind = "failed"]

StatusAt(evs, x, v) == Shown(Reports(evs), StatusOf(evs), "active", x, v)
PlanAt(evs, x, v) == Shown(Grantings(evs), PlanTold(evs), Trial, x, v)
OwedAt(evs, x, v) == Shown(Invoices(evs), OwedOf(evs), FALSE, x, v)

\* Stripe: what it says now is what its last events said. While there is one subscription,
\* what is paid for is its plan.
StripeInv ==
    /\ PlanAt(events, entitled, Len(events)) /\ OwedAt(events, owed, Len(events))
    /\ Len(subs) = 0 => Len(events) = 0
    /\ Len(subs) = 1 => StatusAt(events, subs[1].status, Len(events))
    /\ Len(subs) = 1 /\ Grants(subs[1].status) => entitled = PlanOf[subs[1].price]

\* An answer of Stripe to a request for plan p.
TrueAnswer(evs, a, p) ==
    /\ StatusAt(evs, a.status, a.version)
    /\ Grants(a.status) => PlanAt(evs, PlanOf[p], a.version)
AnswersTrue(evs, made) ==
    /\ \A p \in Prices : keys[p] # NoAnswer =>
          keys[p].version <= Len(evs) /\ (made <= 1 => TrueAnswer(evs, keys[p], p))
    /\ \A c \in Callers : cpc[c] \in {"save", "plan", "saveStatus"} => answer[c].version <= Len(evs)
    /\ made <= 1 => \A c \in Callers :
          /\ cpc[c] \in {"save", "plan"} => TrueAnswer(evs, answer[c], want[c])
          /\ cpc[c] = "saveStatus" => StatusAt(evs, answer[c].status, answer[c].version)
AnswersInv == AnswersTrue(events, Len(subs))

\* Rows: a field shows what was so at the version it was last written from, unless something
\* older was written over something newer.
FieldsTrue(evs, made) ==
    /\ at.status <= Len(evs) /\ at.plan <= Len(evs) /\ at.failed <= Len(evs)
    /\ ~disturbed => OwedAt(evs, billing.failed, at.failed)
    /\ ~disturbed /\ made <= 1 =>
          /\ StatusAt(evs, billing.status, at.status)
          /\ overridden \/ PlanAt(evs, plan, at.plan)
    /\ \A h \in Deliveries : hpc[h] = "write" /\ evs[on[h]].kind = "failed" =>
          /\ read[h].version <= Len(evs)
          /\ ~disturbed => OwedAt(evs, read[h].failed, read[h].version)
FieldsInv == FieldsTrue(events, Len(subs))

\* What the handler of an event has written when it is past the writing of the status, and
\* when it is done.
StatusWritten(evs, row, v, e) ==
    /\ e \in DOMAIN evs
    /\ e \in Reports(evs) => v.status >= e
    /\ evs[e].kind = "updated" => row.sub # 0
AllWritten(evs, row, v, e) ==
    /\ StatusWritten(evs, row, v, e)
    /\ e \in Grantings(evs) => v.plan >= e
    /\ e \in Invoices(evs) => v.failed >= e
WrittenInv ==
    /\ \A h \in Deliveries : hpc[h] = "plan" => StatusWritten(events, billing, at, on[h])
    /\ \A h \in Deliveries : hpc[h] = "done" => AllWritten(events, billing, at, on[h])
    /\ \A e \in applied : AllWritten(events, billing, at, e)

BillingInv ==
    /\ TypeOK /\ NamesInv /\ DeliveryInv /\ PlanInv /\ KeyInv
    /\ StripeInv /\ AnswersInv /\ FieldsInv /\ WrittenInv

---------------------------------------------------------------------------
(* What Stripe does. *)

LEMMA PlanOfPrice == \A p \in Prices : PlanOf[p] \in Plans
BY PlanAssumption

LEMMA LivesType == \A status \in Statuses : Lives[status] \subseteq Statuses \ {"incomplete"}
BY DEF Lives, Statuses

\* What a report adds to the events, and what it makes of the plan that is paid for.
LEMMA ReportGrows ==
    ASSUME TypeOK, NEW s \in Nat \ {0}, NEW sub \in Subscription, Report(s, sub)
    PROVE  /\ events' \in Seq(Event) /\ Len(events') = Now + 1
           /\ \A e \in 1 .. Now : events'[e] = events[e]
           /\ events'[Now + 1].sub = s /\ events'[Now + 1].plan = PlanOf[sub.price]
           /\ events'[Now + 1].status = sub.status
           /\ events'[Now + 1].kind = IF sub.status = "canceled" THEN "deleted" ELSE "updated"
           /\ entitled' \in Plans \cup {Trial}
<1> DEFINE new == [kind |-> IF sub.status = "canceled" THEN "deleted" ELSE "updated",
                   sub |-> s, plan |-> PlanOf[sub.price], status |-> sub.status]
<1>1. new \in Event
  BY PlanOfPrice DEF Subscription, Event
<1>2. events \in Seq(Event) /\ events' = Append(events, new)
  BY DEF TypeOK, StripeTypeOK, Report
<1>3. /\ events' \in Seq(Event) /\ Len(events') = Now + 1
      /\ \A e \in 1 .. Now : events'[e] = events[e]
      /\ events'[Now + 1] = new
  BY <1>1, <1>2, AppendProperties DEF Now
<1>4. entitled' \in Plans \cup {Trial}
  BY PlanOfPrice DEF TypeOK, StripeTypeOK, Report, Subscription
<1> QED
  BY <1>3, <1>4

LEMMA SettleGrows ==
    ASSUME TypeOK, NamesInv, NEW s \in DOMAIN subs, InvoiceSettles(s)
    PROVE  /\ events' \in Seq(Event) /\ Len(events') = Now + 1
           /\ \A e \in 1 .. Now : events'[e] = events[e]
           /\ events'[Now + 1].sub = s /\ events'[Now + 1].kind \in {"paid", "failed"}
           /\ owed' = (events'[Now + 1].kind = "failed")
<1>1. PICK kind \in {"paid", "failed"} :
         /\ owed' = (kind = "failed")
         /\ events' = Append(events, [kind |-> kind, sub |-> s, plan |-> Trial, status |-> "none"])
  BY DEF InvoiceSettles
<1> DEFINE new == [kind |-> kind, sub |-> s, plan |-> Trial, status |-> "none"]
<1>2. new \in Event /\ events \in Seq(Event)
  BY DEF TypeOK, StripeTypeOK, Event
<1>3. /\ events' \in Seq(Event) /\ Len(events') = Now + 1
      /\ \A e \in 1 .. Now : events'[e] = events[e]
      /\ events'[Now + 1] = new
  BY <1>1, <1>2, AppendProperties DEF Now
<1>4. events'[Now + 1].sub = s /\ events'[Now + 1].kind = kind
  BY <1>3
<1>5. owed' = (events'[Now + 1].kind = "failed")
  BY <1>1, <1>4, Zenon
<1> QED
  BY <1>3, <1>4, <1>5

\* A status of a subscription changes.
LEMMA StatusGrows ==
    ASSUME TypeOK, NEW s \in DOMAIN subs, StatusChanges(s)
    PROVE  \E status \in Statuses \ {"incomplete"} :
             LET sub == [price |-> subs[s].price, status |-> status]
             IN  /\ sub \in Subscription /\ subs' = [subs EXCEPT ![s] = sub]
                 /\ subs' \in Seq(Subscription) /\ Len(subs') = Len(subs)
                 /\ Report(s, sub)
<1>1. PICK status \in Lives[subs[s].status] :
         LET sub == [subs[s] EXCEPT !.status = status]
         IN  subs' = [subs EXCEPT ![s] = sub] /\ Report(s, sub)
  BY DEF StatusChanges
<1>2. subs \in Seq(Subscription) /\ subs[s] \in Subscription
  BY ElementOfSeq DEF TypeOK, StripeTypeOK
<1>3. status \in Statuses \ {"incomplete"}
  BY <1>2, LivesType DEF Subscription
<1>4. [subs[s] EXCEPT !.status = status] = [price |-> subs[s].price, status |-> status]
  BY <1>2 DEF Subscription
<1>5. [price |-> subs[s].price, status |-> status] \in Subscription
  BY <1>2, <1>3 DEF Subscription
<1>6. subs' \in Seq(Subscription) /\ Len(subs') = Len(subs)
  BY <1>1, <1>2, <1>4, <1>5, ExceptSeq
<1> QED
  BY <1>1, <1>3, <1>4, <1>5, <1>6

\* The four things Stripe may do when it is asked for a plan.
Keeps(c) ==    \* the subscription is on the plan
    /\ found[c] \in DOMAIN subs /\ subs[found[c]].price = want[c]
    /\ subs[found[c]].status \notin Over
    /\ UNCHANGED <<subs, events, entitled, keys>>
    /\ answer' = [answer EXCEPT
                    ![c] = [sub |-> found[c], status |-> subs[found[c]].status, version |-> Now]]
Moves(c) ==    \* it is moved to the plan
    LET s == found[c]
        sub == [price |-> want[c], status |-> subs[s].status]
    IN  /\ s \in DOMAIN subs /\ sub.status \notin Over /\ sub \in Subscription
        /\ subs' = [subs EXCEPT ![s] = sub] /\ Report(s, sub)
        /\ subs' \in Seq(Subscription) /\ Len(subs') = Len(subs)
        /\ answer' = [answer EXCEPT ![c] = [sub |-> s, status |-> sub.status, version |-> Now + 1]]
        /\ UNCHANGED keys
Repeats(c) ==  \* the first answer is given again
    /\ keys[want[c]] # NoAnswer /\ answer' = [answer EXCEPT ![c] = keys[want[c]]]
    /\ UNCHANGED <<subs, events, entitled, keys>>
Makes(c) ==    \* a subscription is made
    \E status \in {"incomplete", "active"} :
        LET s == Len(subs) + 1
            sub == [price |-> want[c], status |-> status]
            made == [sub |-> s, status |-> status, version |-> Now + 1]
        IN  /\ keys[want[c]] = NoAnswer /\ made # NoAnswer
            /\ sub \in Subscription /\ made \in Answer
            /\ subs' = Append(subs, sub) /\ Report(s, sub)
            /\ subs' \in Seq(Subscription) /\ Len(subs') = s /\ subs'[s] = sub
            /\ \A i \in DOMAIN subs : subs'[i] = subs[i]
            /\ answer' = [answer EXCEPT ![c] = made]
            /\ keys' = [keys EXCEPT ![want[c]] = made]

LEMMA StripeAnswers ==
    ASSUME TypeOK, NamesInv, NEW c \in Callers, AskStripe(c)
    PROVE  /\ want[c] \in Prices /\ want[c] \in wanted
           /\ Keeps(c) \/ Moves(c) \/ Repeats(c) \/ Makes(c)
<1>1. cpc[c] = "ask" /\ want[c] \in wanted /\ want[c] \in Prices
  BY DEF AskStripe, NamesInv, TypeOK, CallTypeOK
<1>2. /\ found[c] \in Nat /\ found[c] <= Len(subs) /\ Len(subs) \in Nat /\ Now \in Nat
      /\ subs \in Seq(Subscription) /\ keys \in [Prices -> Answer] /\ answer \in [Callers -> Answer]
  BY LenProperties DEF NamesInv, TypeOK, StripeTypeOK, CallTypeOK, Now
<1>3. CASE ChangePrice(c)
  <2> DEFINE s == found[c]
             sub == [subs[s] EXCEPT !.price = want[c]]
  <2>1. s \in DOMAIN subs /\ subs[s] \in Subscription /\ subs[s].status \notin Over
    BY <1>2, <1>3, LenProperties, ElementOfSeq DEF ChangePrice
  <2>2. sub = [price |-> want[c], status |-> subs[s].status] /\ sub \in Subscription
    BY <1>1, <2>1 DEF Subscription
  <2>3. answer' = [answer EXCEPT ![c] = [sub |-> s, status |-> subs[s].status,
                                         version |-> Len(events')]]
    BY <1>3, <2>2 DEF ChangePrice
  <2>4. CASE sub = subs[s]
    <3>1. UNCHANGED <<subs, events, entitled, keys>>
      BY <1>3, <2>4 DEF ChangePrice
    <3>2. subs[s].price = want[c]
      BY <2>2, <2>4
    <3>3. Len(events') = Now
      BY <3>1 DEF Now
    <3>4. Keeps(c)
      BY <2>1, <2>3, <3>1, <3>2, <3>3 DEF Keeps
    <3> QED
      BY <1>1, <3>4
  <2>5. CASE sub # subs[s]
    <3>1. subs' = [subs EXCEPT ![s] = sub] /\ Report(s, sub) /\ UNCHANGED keys
      BY <1>3, <2>5 DEF ChangePrice
    <3>2. Len(events') = Now + 1
      <4>1. s \in Nat \ {0}
        BY <2>1, LenProperties
      <4> QED
        BY <2>2, <3>1, <4>1, ReportGrows
    <3>3. subs' \in Seq(Subscription) /\ Len(subs') = Len(subs)
      BY <1>2, <2>1, <2>2, <3>1, ExceptSeq, LenProperties
    <3>4. answer' = [answer EXCEPT ![c] = [sub |-> s, status |-> subs[s].status,
                                           version |-> Now + 1]]
      BY <2>3, <3>2
    <3>5. Moves(c)
      <4> HIDE DEF sub
      <4>1. LET new == [price |-> want[c], status |-> subs[s].status]
            IN  /\ subs[s].status \notin Over /\ new \in Subscription
                /\ subs' = [subs EXCEPT ![s] = new] /\ Report(s, new)
        BY <2>1, <2>2, <3>1
      <4> QED
        BY <2>1, <3>1, <3>3, <3>4, <4>1 DEF Moves
    <3> QED
      BY <1>1, <3>5
  <2> QED
    BY <1>1, <2>4, <2>5
<1>4. CASE Create(c)
  <2>1. CASE keys[want[c]] # NoAnswer
    BY <1>1, <1>4, <2>1 DEF Create, Repeats
  <2>2. CASE keys[want[c]] = NoAnswer
    <3> DEFINE s == Len(subs) + 1
    <3>1. PICK status \in {"incomplete", "active"} :
             LET sub == [price |-> want[c], status |-> status]
                 made == [sub |-> s, status |-> status, version |-> Now + 1]
             IN  /\ subs' = Append(subs, sub) /\ Report(s, sub)
                 /\ answer' = [answer EXCEPT ![c] = made]
                 /\ keys' = [keys EXCEPT ![want[c]] = answer'[c]]
      BY <1>4, <2>2 DEF Create
    <3> DEFINE sub == [price |-> want[c], status |-> status]
               made == [sub |-> s, status |-> status, version |-> Now + 1]
    <3>2. sub \in Subscription /\ made \in Answer /\ made # NoAnswer
      BY <1>1, <1>2 DEF Subscription, Answer, NoAnswer, Statuses
    <3>3. /\ subs' \in Seq(Subscription) /\ Len(subs') = s /\ subs'[s] = sub
          /\ \A i \in DOMAIN subs : subs'[i] = subs[i]
      BY <1>2, <3>1, <3>2, AppendProperties, LenProperties
    <3>4. keys' = [keys EXCEPT ![want[c]] = made]
      BY <1>2, <3>1
    <3>5. Makes(c)
      BY <2>2, <3>1, <3>2, <3>3, <3>4 DEF Makes
    <3> QED
      BY <1>1, <3>5
  <2> QED
    BY <1>1, <2>1, <2>2
<1> QED
  BY <1>1, <1>3, <1>4 DEF AskStripe

\* Subscription s is made, or changed, into sub, and reported.
Reported(s, sub) ==
    /\ sub \in Subscription /\ subs' \in Seq(Subscription)
    /\ s \in 1 .. Len(subs') /\ subs'[s] = sub
    /\ \A i \in 1 .. Len(subs) : i # s => subs'[i] = subs[i]
    /\ \/ Len(subs') = Len(subs)
       \/ Len(subs') = Len(subs) + 1 /\ s = Len(subs) + 1 /\ sub.status \in {"incomplete", "active"}
    /\ events' \in Seq(Event) /\ Len(events') = Now + 1
    /\ \A e \in 1 .. Now : events'[e] = events[e]
    /\ events'[Now + 1].sub = s /\ events'[Now + 1].plan = PlanOf[sub.price]
    /\ events'[Now + 1].status = sub.status
    /\ events'[Now + 1].kind = IF sub.status = "canceled" THEN "deleted" ELSE "updated"
    /\ entitled' = IF Grants(sub.status) THEN PlanOf[sub.price]
                   ELSE IF sub.status = "canceled" THEN Trial ELSE entitled
    /\ UNCHANGED owed
Settled(s) ==
    /\ s \in 1 .. Len(subs) /\ UNCHANGED <<subs, entitled>>
    /\ events' \in Seq(Event) /\ Len(events') = Now + 1
    /\ \A e \in 1 .. Now : events'[e] = events[e]
    /\ events'[Now + 1].sub = s /\ events'[Now + 1].kind \in {"paid", "failed"}
    /\ owed' = (events'[Now + 1].kind = "failed")
Silent == UNCHANGED <<subs, owed, events, entitled>>

LEMMA MakesReports ==
    ASSUME TypeOK, NEW c \in Callers, Makes(c), UNCHANGED owed
    PROVE  \E sub \in Subscription : Reported(Len(subs) + 1, sub)
<1>1. PICK status \in {"incomplete", "active"} :
         LET sub == [price |-> want[c], status |-> status]
         IN  /\ sub \in Subscription /\ Report(Len(subs) + 1, sub)
             /\ subs' \in Seq(Subscription) /\ Len(subs') = Len(subs) + 1
             /\ subs'[Len(subs) + 1] = sub
             /\ \A i \in DOMAIN subs : subs'[i] = subs[i]
  BY DEF Makes
<1> DEFINE sub == [price |-> want[c], status |-> status]
<1>2. sub \in Subscription /\ sub.status \in {"incomplete", "active"}
  BY <1>1
<1>3. DOMAIN subs = 1 .. Len(subs) /\ Len(subs) \in Nat
  BY LenProperties DEF TypeOK, StripeTypeOK
<1>4. Report(Len(subs) + 1, sub)
  BY <1>1
<1>5. /\ subs' \in Seq(Subscription) /\ Len(subs') = Len(subs) + 1 /\ subs'[Len(subs) + 1] = sub
      /\ \A i \in 1 .. Len(subs) : subs'[i] = subs[i]
  BY <1>1, <1>3
<1> HIDE DEF sub
<1>6. Len(subs) + 1 \in Nat \ {0}
  BY <1>3
<1>7. /\ events' \in Seq(Event) /\ Len(events') = Now + 1
      /\ \A e \in 1 .. Now : events'[e] = events[e]
      /\ events'[Now + 1].sub = Len(subs) + 1 /\ events'[Now + 1].plan = PlanOf[sub.price]
      /\ events'[Now + 1].status = sub.status
      /\ events'[Now + 1].kind = IF sub.status = "canceled" THEN "deleted" ELSE "updated"
  BY <1>2, <1>4, <1>6, ReportGrows
<1>8. entitled' = IF Grants(sub.status) THEN PlanOf[sub.price]
                  ELSE IF sub.status = "canceled" THEN Trial ELSE entitled
  BY <1>4 DEF Report
<1>9. Len(subs) + 1 \in 1 .. Len(subs')
  BY <1>3, <1>5
<1>10. Reported(Len(subs) + 1, sub)
  BY <1>2, <1>5, <1>7, <1>8, <1>9 DEF Reported
<1> QED
  BY <1>2, <1>10

\* A subscription that is there is changed, or reported as it is.
LEMMA ChangeReports ==
    ASSUME TypeOK, NEW s \in 1 .. Len(subs), NEW sub \in Subscription, Report(s, sub),
           subs' = [subs EXCEPT ![s] = sub], UNCHANGED owed
    PROVE  Reported(s, sub)
<1>1. subs \in Seq(Subscription) /\ Len(subs) \in Nat
  BY LenProperties DEF TypeOK, StripeTypeOK
<1>2. /\ subs' \in Seq(Subscription) /\ Len(subs') = Len(subs) /\ subs'[s] = sub
      /\ \A i \in 1 .. Len(subs) : i # s => subs'[i] = subs[i]
  BY <1>1, ExceptSeq
<1>3. s \in Nat \ {0}
  BY <1>1
<1>4. /\ events' \in Seq(Event) /\ Len(events') = Now + 1
      /\ \A e \in 1 .. Now : events'[e] = events[e]
      /\ events'[Now + 1].sub = s /\ events'[Now + 1].plan = PlanOf[sub.price]
      /\ events'[Now + 1].status = sub.status
      /\ events'[Now + 1].kind = IF sub.status = "canceled" THEN "deleted" ELSE "updated"
  BY <1>3, ReportGrows
<1>5. entitled' = IF Grants(sub.status) THEN PlanOf[sub.price]
                  ELSE IF sub.status = "canceled" THEN Trial ELSE entitled
  BY DEF Report
<1> QED
  BY <1>1, <1>2, <1>4, <1>5 DEF Reported

LEMMA StripeSteps ==
    ASSUME TypeOK, NamesInv, [Next]_vars
    PROVE  \/ Silent
           \/ \E s \in 1 .. Len(subs) : Settled(s)
           \/ \E s \in Nat \ {0}, sub \in Subscription : Reported(s, sub)
<1> DEFINE Goal == \/ Silent \/ \E s \in 1 .. Len(subs) : Settled(s)
                   \/ \E s \in Nat \ {0}, sub \in Subscription : Reported(s, sub)
<1>1. Len(subs) \in Nat /\ DOMAIN subs = 1 .. Len(subs) /\ subs \in Seq(Subscription)
  BY LenProperties DEF TypeOK, StripeTypeOK
<1>2. ASSUME NEW s \in DOMAIN subs, StatusChanges(s) PROVE Goal
  <2>1. UNCHANGED owed /\ s \in 1 .. Len(subs) /\ s \in Nat \ {0}
    BY <1>1, <1>2 DEF StatusChanges
  <2>2. PICK sub \in Subscription : Report(s, sub) /\ subs' = [subs EXCEPT ![s] = sub]
    BY <1>2, StatusGrows
  <2> QED
    BY <2>1, <2>2, ChangeReports
<1>3. ASSUME NEW s \in DOMAIN subs, InvoiceSettles(s) PROVE Goal
  <2>1. UNCHANGED <<subs, entitled>>
    BY <1>3 DEF InvoiceSettles
  <2>2. Settled(s)
    BY <1>1, <1>3, <2>1, SettleGrows DEF Settled
  <2> QED
    BY <1>1, <2>2
<1>4. ASSUME NEW h \in Deliveries, Hook(h) PROVE Silent
  BY <1>4 DEF Hook, Deliver, RecordEvent, AnswerDuplicate, FindBilling, WriteSubscription,
         WritePayment, WritePlan, Acknowledge, FailEvent, DieHandling, stripeVars, Silent
<1>5. ASSUME NEW c \in Callers, AskStripe(c) PROVE Goal
  <2>1. UNCHANGED owed
    BY <1>5 DEF AskStripe
  <2>2. CASE Keeps(c) \/ Repeats(c)
    BY <2>1, <2>2 DEF Keeps, Repeats, Silent
  <2>3. CASE Moves(c)
    <3>1. PICK sub \in Subscription : /\ found[c] \in DOMAIN subs /\ Report(found[c], sub)
                                      /\ subs' = [subs EXCEPT ![found[c]] = sub]
      BY <2>3 DEF Moves
    <3>2. found[c] \in 1 .. Len(subs) /\ found[c] \in Nat \ {0}
      BY <1>1, <3>1
    <3> QED
      BY <2>1, <3>1, <3>2, ChangeReports
  <2>4. CASE Makes(c)
    <3>1. Len(subs) + 1 \in Nat \ {0}
      BY <1>1
    <3> QED
      BY <2>1, <2>4, <3>1, MakesReports
  <2> QED
    BY <1>5, <2>2, <2>3, <2>4, StripeAnswers
<1>6. ASSUME NEW c \in Callers, CancelAtPeriodEnd(c) PROVE Goal
  <2>1. cpc[c] = "cancel" /\ Report(found[c], subs[found[c]]) /\ UNCHANGED <<subs, owed>>
    BY <1>6 DEF CancelAtPeriodEnd
  <2>2. found[c] \in 1 .. Len(subs) /\ found[c] \in Nat \ {0}
    BY <1>1, <2>1 DEF NamesInv, TypeOK, CallTypeOK
  <2>3. subs[found[c]] \in Subscription /\ subs' = [subs EXCEPT ![found[c]] = subs[found[c]]]
    BY <1>1, <2>1, <2>2, ElementOfSeq
  <2> QED
    BY <2>1, <2>2, <2>3, ChangeReports
<1>7. ASSUME NEW c \in Callers, Call(c), ~AskStripe(c), ~CancelAtPeriodEnd(c) PROVE Silent
  BY <1>7 DEF Call, Subscribe, SaveAnswer, SavePlan, BeginCancel, SaveStatus, Refused, CallFails,
         stripeVars, Silent
<1>8. UNCHANGED vars \/ SetPlan => Silent
  BY DEF vars, SetPlan, stripeVars, Silent
<1> QED
  BY <1>2, <1>3, <1>4, <1>5, <1>6, <1>7, <1>8 DEF Next

\* Events and subscriptions are only added to.
Grown ==
    /\ events \in Seq(Event) /\ Len(events) \in Nat /\ DOMAIN events = 1 .. Len(events)
    /\ events' \in Seq(Event) /\ Len(events') \in Nat /\ DOMAIN events' = 1 .. Len(events')
    /\ Len(events) <= Len(events') /\ Len(subs) \in Nat /\ Len(subs') \in Nat
    /\ Len(subs) <= Len(subs')
    /\ \A e \in 1 .. Len(events) : events'[e] = events[e]

LEMMA Growing ==
    ASSUME TypeOK, NamesInv, [Next]_vars
    PROVE  Grown
<1>1. /\ Len(events) \in Nat /\ Len(subs) \in Nat /\ events \in Seq(Event)
      /\ subs \in Seq(Subscription) /\ DOMAIN events = 1 .. Len(events)
  BY LenProperties DEF TypeOK, StripeTypeOK
<1>2. Silent => Grown
  BY <1>1 DEF Silent, Grown
<1>3. ASSUME NEW s, Settled(s) PROVE Grown
  BY <1>1, <1>3, LenProperties DEF Settled, Grown, Now
<1>4. ASSUME NEW s, NEW sub, Reported(s, sub) PROVE Grown
  BY <1>1, <1>4, LenProperties DEF Reported, Grown, Now
<1> QED
  BY <1>2, <1>3, <1>4, StripeSteps

\* What ends an invocation or a request, and what writes a field, keeps the types.
LEMMA HookEndsType ==
    ASSUME HookTypeOK, NEW h \in Deliveries, HookEnds(h)
    PROVE  /\ hpc' \in [Deliveries -> HookSteps] /\ on' \in [Deliveries -> Nat]
           /\ read' \in [Deliveries -> [failed : BOOLEAN, version : Nat]]
<1>1. NotRead \in [failed : BOOLEAN, version : Nat] /\ NoEvent \in Nat /\ "idle" \in HookSteps
  BY DEF NotRead, NoEvent, HookSteps
<1> QED
  BY <1>1 DEF HookTypeOK, HookEnds, HookAt

LEMMA CallEndsType ==
    ASSUME CallTypeOK, NEW c \in Callers, CallEnds(c)
    PROVE  /\ cpc' \in [Callers -> CallSteps] /\ want' \in [Callers -> Prices \cup {NoPrice}]
           /\ found' \in [Callers -> Nat] /\ answer' \in [Callers -> Answer]
<1>1. NoAnswer \in Answer /\ "idle" \in CallSteps
  BY DEF NoAnswer, Answer, CallSteps
<1> QED
  BY <1>1 DEF CallTypeOK, CallEnds, CallAt

LEMMA WroteType ==
    ASSUME RowTypeOK, NEW field \in {"status", "plan", "failed"}, NEW version \in Nat,
           Wrote(field, version)
    PROVE  at' \in [status : Nat, plan : Nat, failed : Nat] /\ disturbed' \in BOOLEAN
BY DEF RowTypeOK, Wrote, Later

LEMMA TypeStep ==
    ASSUME TypeOK, NamesInv, [Next]_vars
    PROVE  TypeOK'
<1> USE DEF TypeOK, StripeTypeOK, RowTypeOK, HookTypeOK, CallTypeOK, HookSteps, CallSteps,
           stripeVars, rowVars, hookVars, callVars
<1>1. ASSUME NEW s \in DOMAIN subs, StatusChanges(s) PROVE TypeOK'
  <2>1. s \in Nat \ {0}
    BY LenProperties
  <2>2. subs' \in Seq(Subscription) /\ events' \in Seq(Event) /\ entitled' \in Plans \cup {Trial}
    BY <1>1, <2>1, StatusGrows, ReportGrows
  <2> QED
    BY <1>1, <2>2 DEF StatusChanges
<1>2. ASSUME NEW s \in DOMAIN subs, InvoiceSettles(s) PROVE TypeOK'
  <2>1. events' \in Seq(Event) /\ owed' \in BOOLEAN
    BY <1>2, SettleGrows
  <2> QED
    BY <1>2, <2>1 DEF InvoiceSettles
<1>3. ASSUME NEW h \in Deliveries, Deliver(h) PROVE TypeOK'
  BY <1>3 DEF Deliver, HookAt
<1>4. ASSUME NEW h \in Deliveries, RecordEvent(h) PROVE TypeOK'
  BY <1>4 DEF RecordEvent, HookAt
<1>5. ASSUME NEW h \in Deliveries, AnswerDuplicate(h) PROVE TypeOK'
  BY <1>5, HookEndsType DEF AnswerDuplicate
<1>6. ASSUME NEW h \in Deliveries, FindBilling(h) PROVE TypeOK'
  BY <1>6 DEF FindBilling, HookAt
<1>7. ASSUME NEW h \in Deliveries, WriteSubscription(h) PROVE TypeOK'
  <2>1. hpc[h] = "write" /\ events[on[h]].kind \in {"updated", "deleted"}
    BY <1>7 DEF WriteSubscription
  <2>2. events[on[h]].status \in Statuses /\ events[on[h]].sub \in Nat
    BY <2>1, LenProperties DEF NamesInv, EventsInv
  <2>3. billing' \in [sub : Nat, status : Statuses, failed : BOOLEAN]
    BY <1>7, <2>2 DEF WriteSubscription
  <2>4. at' \in [status : Nat, plan : Nat, failed : Nat] /\ disturbed' \in BOOLEAN
    BY <1>7 DEF WriteSubscription, Wrote, Later
  <2> QED
    BY <1>7, <2>3, <2>4 DEF WriteSubscription, HookAt
<1>8. ASSUME NEW h \in Deliveries, WritePayment(h) PROVE TypeOK'
  BY <1>8 DEF WritePayment, HookAt, Later
<1>9. ASSUME NEW h \in Deliveries, WritePlan(h) PROVE TypeOK'
  <2>1. at' \in [status : Nat, plan : Nat, failed : Nat] /\ disturbed' \in BOOLEAN
    BY <1>9 DEF WritePlan, Wrote, Later
  <2>2. hpc[h] = "plan" /\ events[on[h]] \in Event
    BY <1>9, LenProperties, ElementOfSeq DEF WritePlan, NamesInv
  <2>3. /\ plan' \in Plans \cup {Trial, Enterprise} /\ overridden' \in BOOLEAN
        /\ ~overridden' => plan' # Enterprise
    BY <1>9, <2>2, PlanAssumption DEF WritePlan, Event, Trial, Enterprise
  <2> QED
    BY <1>9, <2>1, <2>3 DEF WritePlan, HookAt
<1>10. ASSUME NEW h \in Deliveries, Acknowledge(h) PROVE TypeOK'
  BY <1>10, HookEndsType DEF Acknowledge
<1>11. ASSUME NEW h \in Deliveries, FailEvent(h) PROVE TypeOK'
  BY <1>11, HookEndsType DEF FailEvent, Fault
<1>12. ASSUME NEW h \in Deliveries, DieHandling(h) PROVE TypeOK'
  BY <1>12, HookEndsType DEF DieHandling, Fault
<1>13. ASSUME NEW c \in Callers, Subscribe(c) PROVE TypeOK'
  BY <1>13 DEF Subscribe, CallAt, Begin
<1>14. ASSUME NEW c \in Callers, AskStripe(c) PROVE TypeOK'
  <2>1. CASE Keeps(c) \/ Repeats(c)
    <3>1. found[c] \in DOMAIN subs => subs[found[c]] \in Subscription
      BY LenProperties, ElementOfSeq
    <3>2. answer' \in [Callers -> Answer]
      <4>1. CASE Keeps(c)
        <5>1. [sub |-> found[c], status |-> subs[found[c]].status, version |-> Now] \in Answer
          BY <3>1, <4>1, LenProperties DEF Keeps, Answer, Subscription, Now
        <5> QED
          BY <4>1, <5>1 DEF Keeps
      <4>2. CASE Repeats(c)
        BY <1>14, <4>2, StripeAnswers DEF Repeats
      <4> QED
        BY <2>1, <4>1, <4>2
    <3>3. UNCHANGED <<subs, events, entitled, keys>>
      BY <2>1 DEF Keeps, Repeats
    <3> QED
      BY <1>14, <3>2, <3>3 DEF AskStripe, CallAt
  <2>2. CASE Moves(c)
    <3>1. found[c] \in Nat \ {0} /\ subs[found[c]].status \in Statuses /\ Now + 1 \in Nat
      BY <2>2, LenProperties, ElementOfSeq DEF Moves, Subscription, Now
    <3>2. answer' \in [Callers -> Answer]
      <4>1. [sub |-> found[c], status |-> subs[found[c]].status, version |-> Now + 1] \in Answer
        BY <3>1 DEF Answer
      <4> QED
        BY <2>2, <4>1 DEF Moves
    <3>3. events' \in Seq(Event) /\ entitled' \in Plans \cup {Trial}
      BY <2>2, <3>1, ReportGrows DEF Moves
    <3> QED
      BY <1>14, <2>2, <3>2, <3>3 DEF Moves, AskStripe, CallAt
  <2>3. CASE Makes(c)
    <3>1. PICK made \in Answer : /\ answer' = [answer EXCEPT ![c] = made]
                                /\ keys' = [keys EXCEPT ![want[c]] = made]
      BY <2>3 DEF Makes
    <3>2. events' \in Seq(Event) /\ entitled' \in Plans \cup {Trial}
      BY <2>3, LenProperties, ReportGrows DEF Makes
    <3> QED
      BY <1>14, <2>3, <3>1, <3>2 DEF Makes, AskStripe, CallAt
  <2> QED
    BY <1>14, <2>1, <2>2, <2>3, StripeAnswers
<1>15. ASSUME NEW c \in Callers, SaveAnswer(c) PROVE TypeOK'
  <2>1. cpc[c] = "save" /\ answer[c].status \in Statuses /\ answer[c].sub \in Nat
    BY <1>15 DEF SaveAnswer, NamesInv
  <2>2. billing' \in [sub : Nat, status : Statuses, failed : BOOLEAN]
    BY <1>15, <2>1 DEF SaveAnswer
  <2>3. at' \in [status : Nat, plan : Nat, failed : Nat] /\ disturbed' \in BOOLEAN
    <3>1. answer[c].version \in Nat /\ Wrote("status", answer[c].version)
      BY <1>15 DEF SaveAnswer, Answer
    <3> QED
      BY <3>1, WroteType
  <2>4. CallTypeOK'
    BY <1>15, CallEndsType DEF SaveAnswer, CallAt
  <2> QED
    BY <1>15, <2>2, <2>3, <2>4 DEF SaveAnswer
<1>16. ASSUME NEW c \in Callers, SavePlan(c) PROVE TypeOK'
  <2>1. at' \in [status : Nat, plan : Nat, failed : Nat] /\ disturbed' \in BOOLEAN
    <3>1. answer[c].version \in Nat /\ Wrote("plan", answer[c].version)
      BY <1>16 DEF SavePlan, Answer
    <3> QED
      BY <3>1, WroteType
  <2>2. CallTypeOK'
    BY <1>16, CallEndsType DEF SavePlan
  <2>3. /\ plan' \in Plans \cup {Trial, Enterprise} /\ overridden' \in BOOLEAN
        /\ ~overridden' => plan' # Enterprise
    <3>1. PlanOf[want[c]] \in Plans
      BY <1>16, PlanOfPrice, PlanAssumption DEF SavePlan, NamesInv
    <3> QED
      BY <1>16, <3>1, PlanAssumption DEF SavePlan
  <2> QED
    BY <1>16, <2>1, <2>2, <2>3 DEF SavePlan
<1>17. ASSUME NEW c \in Callers, BeginCancel(c) PROVE TypeOK'
  BY <1>17 DEF BeginCancel, CallAt, Begin
<1>18. ASSUME NEW c \in Callers, CancelAtPeriodEnd(c) PROVE TypeOK'
  <2>1. cpc[c] = "cancel" /\ Report(found[c], subs[found[c]])
    BY <1>18 DEF CancelAtPeriodEnd
  <2>2. found[c] \in Nat \ {0} /\ found[c] \in 1 .. Len(subs) /\ Now + 1 \in Nat
    BY <2>1, LenProperties DEF NamesInv, Now
  <2>3. subs[found[c]] \in Subscription
    BY <2>2, ElementOfSeq
  <2>4. events' \in Seq(Event) /\ entitled' \in Plans \cup {Trial}
    BY <2>1, <2>2, <2>3, ReportGrows
  <2>5. answer' \in [Callers -> Answer]
    BY <1>18, <2>2, <2>3 DEF CancelAtPeriodEnd, Subscription, Answer
  <2> QED
    BY <1>18, <2>4, <2>5 DEF CancelAtPeriodEnd, CallAt
<1>19. ASSUME NEW c \in Callers, SaveStatus(c) PROVE TypeOK'
  <2>1. cpc[c] = "saveStatus" /\ answer[c].status \in Statuses
    BY <1>19 DEF SaveStatus, NamesInv
  <2>2. billing' \in [sub : Nat, status : Statuses, failed : BOOLEAN]
    BY <1>19, <2>1 DEF SaveStatus
  <2>3. at' \in [status : Nat, plan : Nat, failed : Nat] /\ disturbed' \in BOOLEAN
    <3>1. answer[c].version \in Nat /\ Wrote("status", answer[c].version)
      BY <1>19 DEF SaveStatus, Answer
    <3> QED
      BY <3>1, WroteType
  <2>4. CallTypeOK'
    BY <1>19, CallEndsType DEF SaveStatus
  <2> QED
    BY <1>19, <2>2, <2>3, <2>4 DEF SaveStatus
<1>20. ASSUME NEW c \in Callers, Refused(c) PROVE TypeOK'
  BY <1>20, CallEndsType DEF Refused
<1>21. ASSUME NEW c \in Callers, CallFails(c) PROVE TypeOK'
  BY <1>21, CallEndsType DEF CallFails, Fault
<1>22. ASSUME UNCHANGED vars PROVE TypeOK'
  BY <1>22 DEF vars
<1>23. ASSUME SetPlan PROVE TypeOK'
  BY <1>23 DEF SetPlan
<1> QED
  BY <1>1, <1>2, <1>3, <1>4, <1>5, <1>6, <1>7, <1>8, <1>9, <1>10, <1>11, <1>12, <1>13,
     <1>14, <1>15, <1>16, <1>17, <1>18, <1>19, <1>20, <1>21, <1>22, <1>23
     DEF Next, Hook, Call

---------------------------------------------------------------------------
(* Names. *)

LEMMA EventsStep ==
    ASSUME TypeOK, NamesInv, [Next]_vars
    PROVE  EventsInv'
<1>1. Grown
  BY Growing
<1>2. CASE Silent
  BY <1>2 DEF Silent, NamesInv, EventsInv
<1>3. ASSUME NEW s, Settled(s) PROVE EventsInv'
  BY <1>1, <1>3 DEF Grown, Settled, NamesInv, EventsInv, Now
<1>4. ASSUME NEW s, NEW sub, Reported(s, sub) PROVE EventsInv'
  <2>1. sub.status \in Statuses /\ PlanOf[sub.price] \in Plans
    BY <1>4, PlanOfPrice DEF Reported, Subscription
  <2>2. Len(events) = 0 => Len(subs) = 0
    BY <1>1 DEF NamesInv, EventsInv, Grown
  <2>3. \A e \in 1 .. Now + 1 : e \in 1 .. Now \/ e = Now + 1
    BY <1>1 DEF Grown, Now
  <2>4. \A e \in 1 .. Len(events') :
          /\ events'[e].sub \in 1 .. Len(subs')
          /\ events'[e].kind \in {"updated", "deleted"} => events'[e].status \in Statuses
          /\ events'[e].kind = "updated" => events'[e].plan \in Plans
    BY <1>1, <1>4, <2>1, <2>3 DEF Grown, Reported, NamesInv, EventsInv, Now
  <2>5. events'[1].kind = "updated"
    <3>1. CASE Len(events) = 0
      BY <1>1, <1>4, <2>2, <3>1 DEF Grown, Reported, Now
    <3>2. CASE Len(events) # 0
      BY <1>1, <3>2 DEF Grown, NamesInv, EventsInv
    <3> QED
      BY <3>1, <3>2
  <2> QED
    BY <1>1, <1>4, <2>4, <2>5 DEF Grown, Reported, EventsInv, Now
<1> QED
  BY <1>2, <1>3, <1>4, StripeSteps

LEMMA StatusTyped ==
    ASSUME TypeOK, NEW s \in 1 .. Len(subs)
    PROVE  subs[s].status \in Statuses /\ PlanOf[subs[s].price] \in Plans
<1>1. subs[s] \in Subscription
  BY ElementOfSeq DEF TypeOK, StripeTypeOK
<1> QED
  BY <1>1, PlanOfPrice DEF Subscription

LEMMA NamesStep ==
    ASSUME TypeOK, NamesInv, [Next]_vars
    PROVE  NamesInv'
<1> USE Growing, EventsStep, LenProperties
       DEF TypeOK, StripeTypeOK, RowTypeOK, HookTypeOK, CallTypeOK, NamesInv, Grown, HookSteps,
           CallSteps, stripeVars, rowVars, hookVars, callVars
<1>1. ASSUME NEW s \in DOMAIN subs, StatusChanges(s) PROVE NamesInv'
  <2>1. UNCHANGED <<owed, keys, rowVars, hookVars, callVars>>
    BY <1>1 DEF StatusChanges
  <2> QED
    BY <2>1
<1>2. ASSUME NEW s \in DOMAIN subs, InvoiceSettles(s) PROVE NamesInv'
  BY <1>2 DEF InvoiceSettles
<1>3. ASSUME NEW h \in Deliveries, Deliver(h) PROVE NamesInv'
  BY <1>3 DEF Deliver, HookAt
<1>4. ASSUME NEW h \in Deliveries, RecordEvent(h) PROVE NamesInv'
  BY <1>4 DEF RecordEvent, HookAt
<1>5. ASSUME NEW h \in Deliveries, AnswerDuplicate(h) PROVE NamesInv'
  BY <1>5 DEF AnswerDuplicate, HookAt, HookEnds
<1>6. ASSUME NEW h \in Deliveries, FindBilling(h) PROVE NamesInv'
  BY <1>6 DEF FindBilling, HookAt
<1>7. ASSUME NEW h \in Deliveries, WriteSubscription(h) PROVE NamesInv'
  <2>1. /\ hpc[h] = "write" /\ UNCHANGED <<on, stripeVars, callVars>>
        /\ events[on[h]].kind \in {"updated", "deleted"}
    BY <1>7 DEF WriteSubscription
  <2>2. billing'.sub <= Len(subs)
    BY <1>7, <2>1 DEF WriteSubscription, EventsInv
  <2>3. \A g \in Deliveries : hpc'[g] # "idle" => hpc[g] # "idle"
    BY <1>7, <2>1 DEF WriteSubscription, HookAt
  <2> QED
    BY <2>1, <2>2, <2>3
<1>8. ASSUME NEW h \in Deliveries, WritePayment(h) PROVE NamesInv'
  BY <1>8 DEF WritePayment, HookAt, Later
<1>9. ASSUME NEW h \in Deliveries, WritePlan(h) PROVE NamesInv'
  BY <1>9 DEF WritePlan, HookAt, Wrote, Later
<1>10. ASSUME NEW h \in Deliveries, Acknowledge(h) PROVE NamesInv'
  BY <1>10 DEF Acknowledge, HookAt, HookEnds
<1>11. ASSUME NEW h \in Deliveries, FailEvent(h) PROVE NamesInv'
  BY <1>11 DEF FailEvent, HookAt, HookEnds, Fault, Handling
<1>12. ASSUME NEW h \in Deliveries, DieHandling(h) PROVE NamesInv'
  BY <1>12 DEF DieHandling, HookAt, HookEnds, Fault, Handling
<1>13. ASSUME NEW c \in Callers, Subscribe(c) PROVE NamesInv'
  BY <1>13 DEF Subscribe, CallAt, Begin
<1>14. ASSUME NEW c \in Callers, AskStripe(c) PROVE NamesInv'
  <2>1. /\ cpc[c] = "ask" /\ cpc' = [cpc EXCEPT ![c] = "save"]
        /\ UNCHANGED <<want, found, wanted, rowVars, hookVars>>
        /\ want[c] \in Prices /\ want[c] \in wanted
    BY <1>14, StripeAnswers DEF AskStripe, CallAt
  <2>0. \A h \in Deliveries : hpc'[h] # "idle" => on'[h] \in DOMAIN events'
    BY <2>1, Growing
  <2>2. CASE Keeps(c)
    <3>1. /\ found[c] \in 1 .. Len(subs) /\ subs[found[c]].status \in Statuses
          /\ UNCHANGED <<subs, events, keys>>
      BY <2>2, StatusTyped DEF Keeps
    <3>2. answer'[c].sub = found[c] /\ answer'[c].status \in Statuses
      BY <2>2, <3>1 DEF Keeps
    <3>3. \A d \in Callers \ {c} : answer'[d] = answer[d]
      BY <2>2 DEF Keeps
    <3>4. \A d \in Callers : cpc'[d] \in {"save", "plan"} => answer'[d].sub \in 1 .. Len(subs')
      BY <2>1, <3>1, <3>2, <3>3
    <3>5. \A d \in Callers : cpc'[d] \in {"save", "plan", "saveStatus"} =>
             answer'[d].status \in Statuses
      BY <2>1, <3>2, <3>3
    <3>6. \A p \in Prices : keys'[p] # NoAnswer =>
             keys'[p].sub \in 1 .. Len(subs') /\ keys'[p].status \in Statuses /\ p \in wanted'
      BY <2>1, <3>1
    <3>7. billing'.sub <= Len(subs') /\ \A d \in Callers : found'[d] <= Len(subs')
      BY <2>1, <3>1
    <3>8. \A d \in Callers : cpc'[d] \in {"ask", "save", "plan"} => want'[d] \in wanted'
      BY <2>1
    <3>9. \A d \in Callers : cpc'[d] \in {"cancel", "saveStatus"} => found'[d] # 0
      BY <2>1
    <3> QED
      BY <2>0, <3>4, <3>5, <3>6, <3>7, <3>8, <3>9, EventsStep DEF NamesInv
  <2>3. CASE Repeats(c)
    <3>1. UNCHANGED <<subs, events, keys>> /\ keys[want[c]] # NoAnswer
      BY <2>3 DEF Repeats
    <3>2. answer'[c] = keys[want[c]] /\ \A d \in Callers \ {c} : answer'[d] = answer[d]
      BY <2>3 DEF Repeats
    <3> QED
      BY <2>1, <3>1, <3>2
  <2>4. CASE Moves(c)
    <3>1. /\ found[c] \in 1 .. Len(subs) /\ subs[found[c]].status \in Statuses
          /\ Len(subs') = Len(subs) /\ UNCHANGED keys
      BY <2>4, StatusTyped DEF Moves
    <3>2. answer'[c].sub = found[c] /\ answer'[c].status \in Statuses
      BY <2>4, <3>1 DEF Moves
    <3>3. \A d \in Callers \ {c} : answer'[d] = answer[d]
      BY <2>4 DEF Moves
    <3>4. \A d \in Callers : cpc'[d] \in {"save", "plan"} => answer'[d].sub \in 1 .. Len(subs')
      BY <2>1, <3>1, <3>2, <3>3
    <3>5. \A d \in Callers : cpc'[d] \in {"save", "plan", "saveStatus"} =>
             answer'[d].status \in Statuses
      BY <2>1, <3>2, <3>3
    <3>6. \A p \in Prices : keys'[p] # NoAnswer =>
             keys'[p].sub \in 1 .. Len(subs') /\ keys'[p].status \in Statuses /\ p \in wanted'
      BY <2>1, <3>1
    <3>7. billing'.sub <= Len(subs') /\ \A d \in Callers : found'[d] <= Len(subs')
      BY <2>1, <3>1
    <3>8. \A d \in Callers : cpc'[d] \in {"ask", "save", "plan"} => want'[d] \in wanted'
      BY <2>1
    <3>9. \A d \in Callers : cpc'[d] \in {"cancel", "saveStatus"} => found'[d] # 0
      BY <2>1
    <3> QED
      BY <2>0, <3>4, <3>5, <3>6, <3>7, <3>8, <3>9, EventsStep DEF NamesInv
  <2>5. CASE Makes(c)
    <3>1. PICK made \in Answer :
             /\ made.sub = Len(subs) + 1 /\ made.status \in {"incomplete", "active"}
             /\ answer' = [answer EXCEPT ![c] = made]
             /\ keys' = [keys EXCEPT ![want[c]] = made]
      BY <2>5 DEF Makes
    <3>2. Len(subs') = Len(subs) + 1 /\ made.status \in Statuses
      BY <2>5, <3>1 DEF Makes, Statuses
    <3>3. answer'[c] = made /\ \A d \in Callers \ {c} : answer'[d] = answer[d]
      BY <3>1
    <3>4. keys'[want[c]] = made /\ \A p \in Prices \ {want[c]} : keys'[p] = keys[p]
      BY <2>1, <3>1
    <3>5. /\ \A p \in Prices : keys'[p] # NoAnswer =>
                keys'[p].sub \in 1 .. Len(subs') /\ keys'[p].status \in Statuses /\ p \in wanted
          /\ \A d \in Callers : cpc'[d] \in {"save", "plan"} => answer'[d].sub \in 1 .. Len(subs')
      BY <2>1, <3>1, <3>2, <3>3, <3>4
    <3>6. \A d \in Callers : cpc'[d] \in {"save", "plan", "saveStatus"} =>
             answer'[d].status \in Statuses
      BY <2>1, <3>2, <3>3
    <3>7. billing'.sub <= Len(subs') /\ \A d \in Callers : found'[d] <= Len(subs')
      BY <2>1, <3>2
    <3>8. \A d \in Callers : cpc'[d] \in {"ask", "save", "plan"} => want'[d] \in wanted'
      BY <2>1
    <3>9. /\ \A d \in Callers : cpc'[d] \in {"cancel", "saveStatus"} => found'[d] # 0
          /\ \A h \in Deliveries : hpc'[h] # "idle" => on'[h] \in DOMAIN events'
      BY <2>1
    <3> QED
      BY <2>1, <3>5, <3>6, <3>7, <3>8, <3>9
  <2> QED
    BY <1>14, <2>2, <2>3, <2>4, <2>5, StripeAnswers
<1>15. ASSUME NEW c \in Callers, SaveAnswer(c) PROVE NamesInv'
  <2>1. cpc[c] = "save" /\ UNCHANGED <<wanted, stripeVars, hookVars>>
    BY <1>15 DEF SaveAnswer
  <2>2. billing'.sub <= Len(subs)
    BY <1>15, <2>1 DEF SaveAnswer
  <2>3. CASE CallAt(c, "plan") /\ UNCHANGED <<want, found, answer>>
    BY <2>1, <2>2, <2>3 DEF CallAt
  <2>4. CASE CallEnds(c)
    BY <2>1, <2>2, <2>4 DEF CallEnds, CallAt
  <2> QED
    BY <1>15, <2>3, <2>4 DEF SaveAnswer
<1>16. ASSUME NEW c \in Callers, SavePlan(c) PROVE NamesInv'
  BY <1>16 DEF SavePlan, CallEnds, CallAt, Wrote, Later
<1>17. ASSUME NEW c \in Callers, BeginCancel(c) PROVE NamesInv'
  BY <1>17 DEF BeginCancel, CallAt, Begin
<1>18. ASSUME NEW c \in Callers, CancelAtPeriodEnd(c) PROVE NamesInv'
  <2>1. /\ cpc[c] = "cancel" /\ cpc' = [cpc EXCEPT ![c] = "saveStatus"]
        /\ UNCHANGED <<subs, keys, want, found, wanted, rowVars, hookVars>>
        /\ \A d \in Callers \ {c} : answer'[d] = answer[d]
    BY <1>18 DEF CancelAtPeriodEnd, CallAt
  <2>2. found[c] \in 1 .. Len(subs)
    BY <2>1
  <2>3. subs[found[c]].status \in Statuses
    BY <2>2, StatusTyped
  <2>4. answer'[c].status \in Statuses
    BY <1>18, <2>3 DEF CancelAtPeriodEnd
  <2>5. \A h \in Deliveries : hpc'[h] # "idle" => on'[h] \in DOMAIN events'
    BY <2>1, Growing
  <2>6. \A d \in Callers : cpc'[d] \in {"save", "plan"} => answer'[d].sub \in 1 .. Len(subs')
    BY <2>1
  <2>7. \A d \in Callers : cpc'[d] \in {"save", "plan", "saveStatus"} =>
           answer'[d].status \in Statuses
    BY <2>1, <2>4
  <2>8. \A d \in Callers : cpc'[d] \in {"ask", "save", "plan"} => want'[d] \in wanted'
    BY <2>1
  <2>9. \A d \in Callers : cpc'[d] \in {"cancel", "saveStatus"} => found'[d] # 0
    BY <2>1
  <2>10. /\ billing'.sub <= Len(subs') /\ \A d \in Callers : found'[d] <= Len(subs')
         /\ \A p \in Prices : keys'[p] # NoAnswer =>
               keys'[p].sub \in 1 .. Len(subs') /\ keys'[p].status \in Statuses /\ p \in wanted'
    BY <2>1
  <2> QED
    BY <2>5, <2>6, <2>7, <2>8, <2>9, <2>10, EventsStep DEF NamesInv
<1>19. ASSUME NEW c \in Callers, SaveStatus(c) PROVE NamesInv'
  BY <1>19 DEF SaveStatus, CallEnds, CallAt, Wrote, Later
<1>20. ASSUME NEW c \in Callers, Refused(c) PROVE NamesInv'
  BY <1>20 DEF Refused, CallEnds, CallAt
<1>21. ASSUME NEW c \in Callers, CallFails(c) PROVE NamesInv'
  BY <1>21 DEF CallFails, CallEnds, CallAt, Fault
<1>22. ASSUME UNCHANGED vars PROVE NamesInv'
  BY <1>22 DEF vars
<1>23. ASSUME SetPlan PROVE NamesInv'
  BY <1>23 DEF SetPlan
<1> QED
  BY <1>1, <1>2, <1>3, <1>4, <1>5, <1>6, <1>7, <1>8, <1>9, <1>10, <1>11, <1>12, <1>13,
     <1>14, <1>15, <1>16, <1>17, <1>18, <1>19, <1>20, <1>21, <1>22, <1>23
     DEF Next, Hook, Call

---------------------------------------------------------------------------
(* Deliveries, plans and keys. *)

LEMMA PlansHandled == \A h \in Deliveries : hpc[h] = "plan" => Handling(h)
BY DEF Handling

LEMMA DeliveryStep ==
    ASSUME TypeOK, NamesInv, DeliveryInv, [Next]_vars
    PROVE  DeliveryInv'
<1> USE Growing
       DEF HookTypeOK, TypeOK, NamesInv, DeliveryInv, Accounted, Handling, Grown, HookSteps,
           stripeVars, rowVars, hookVars, callVars
<1>1. ASSUME NEW s \in DOMAIN subs, StatusChanges(s) PROVE DeliveryInv'
  <2>1. UNCHANGED hookVars
    BY <1>1 DEF StatusChanges
  <2>2. \A h \in Deliveries : hpc[h] = "plan" => events'[on[h]] = events[on[h]]
    BY Growing
  <2> QED
    BY <2>1, <2>2
<1>2. ASSUME NEW s \in DOMAIN subs, InvoiceSettles(s) PROVE DeliveryInv'
  BY <1>2 DEF InvoiceSettles
<1>3. ASSUME NEW h \in Deliveries, Deliver(h) PROVE DeliveryInv'
  <2>1. /\ hpc[h] = "idle" /\ hpc' = [hpc EXCEPT ![h] = "record"]
        /\ \A g \in Deliveries \ {h} : on'[g] = on[g]
        /\ UNCHANGED <<acked, known, applied, botched, events>>
    BY <1>3 DEF Deliver, HookAt
  <2>2. \A g \in Deliveries : Handling(g)' <=> Handling(g)
    BY <2>1
  <2>3. \A g \in Deliveries : Handling(g) => on'[g] = on[g] /\ hpc'[g] = hpc[g]
    BY <2>1
  <2>4. \A e : Accounted(e) => Accounted(e)'
    <3>1. applied' = applied /\ botched' = botched
      BY <2>1
    <3> QED
      BY <2>2, <2>3, <3>1 DEF Accounted
  <2>5. \A g \in Deliveries : Handling(g)' => on'[g] = on[g] /\ hpc'[g] = hpc[g] /\ Handling(g)
    BY <2>1, <2>2, <2>3
  <2>6. \A e \in acked' : Accounted(e)'
    <3>1. acked' = acked /\ \A e \in acked : Accounted(e)
      BY <2>1
    <3> HIDE DEF Accounted
    <3> QED
      BY <2>4, <3>1
  <2> HIDE DEF Accounted, Handling
  <2> QED
    BY <2>1, <2>4, <2>5, <2>6, PlansHandled
<1>4. ASSUME NEW h \in Deliveries, RecordEvent(h) PROVE DeliveryInv'
  BY <1>4 DEF RecordEvent, HookAt
<1>5. ASSUME NEW h \in Deliveries, AnswerDuplicate(h) PROVE DeliveryInv'
  <2>1. /\ hpc[h] = "record" /\ hpc' = [hpc EXCEPT ![h] = "idle"]
        /\ \A g \in Deliveries \ {h} : on'[g] = on[g]
        /\ UNCHANGED <<known, applied, botched, events>>
        /\ on[h] \in known /\ acked' = acked \cup {on[h]}
    BY <1>5 DEF AnswerDuplicate, HookAt, HookEnds
  <2>2. \A g \in Deliveries : Handling(g)' <=> Handling(g)
    BY <2>1
  <2>3. \A g \in Deliveries : Handling(g) => on'[g] = on[g] /\ hpc'[g] = hpc[g]
    BY <2>1
  <2>4. \A e : Accounted(e) => Accounted(e)'
    <3>1. applied' = applied /\ botched' = botched
      BY <2>1
    <3> QED
      BY <2>2, <2>3, <3>1 DEF Accounted
  <2>5. \A g \in Deliveries : Handling(g)' => on'[g] = on[g] /\ hpc'[g] = hpc[g] /\ Handling(g)
    BY <2>1, <2>2, <2>3
  <2>6. \A e \in acked' : Accounted(e)'
    <3>1. acked' = acked \cup {on[h]} /\ \A e \in acked : Accounted(e)
      BY <2>1
    <3>2. Accounted(on[h])
      BY <2>1
    <3> HIDE DEF Accounted
    <3> QED
      BY <2>4, <3>1, <3>2
  <2> HIDE DEF Accounted, Handling
  <2> QED
    BY <2>1, <2>4, <2>5, <2>6, PlansHandled
<1>6. ASSUME NEW h \in Deliveries, FindBilling(h) PROVE DeliveryInv'
  BY <1>6 DEF FindBilling, HookAt
<1>7. ASSUME NEW h \in Deliveries, WriteSubscription(h) PROVE DeliveryInv'
  BY <1>7 DEF WriteSubscription, HookAt, Wrote, Later
<1>8. ASSUME NEW h \in Deliveries, WritePayment(h) PROVE DeliveryInv'
  BY <1>8 DEF WritePayment, HookAt, Later
<1>9. ASSUME NEW h \in Deliveries, WritePlan(h) PROVE DeliveryInv'
  BY <1>9 DEF WritePlan, HookAt, Wrote, Later
<1>10. ASSUME NEW h \in Deliveries, Acknowledge(h) PROVE DeliveryInv'
  BY <1>10 DEF Acknowledge, HookAt, HookEnds
<1>11. ASSUME NEW h \in Deliveries, FailEvent(h) PROVE DeliveryInv'
  BY <1>11 DEF FailEvent, HookAt, HookEnds, Fault, Handling
<1>12. ASSUME NEW h \in Deliveries, DieHandling(h) PROVE DeliveryInv'
  BY <1>12 DEF DieHandling, HookAt, HookEnds, Fault, Handling
<1>13. ASSUME NEW c \in Callers, Subscribe(c) PROVE DeliveryInv'
  BY <1>13 DEF Subscribe, CallAt, Begin
<1>14. ASSUME NEW c \in Callers, AskStripe(c) PROVE DeliveryInv'
  <2>1. UNCHANGED hookVars
    BY <1>14 DEF AskStripe
  <2>2. \A h \in Deliveries : hpc[h] = "plan" => events'[on[h]] = events[on[h]]
    BY Growing
  <2> QED
    BY <2>1, <2>2
<1>15. ASSUME NEW c \in Callers, SaveAnswer(c) PROVE DeliveryInv'
  BY <1>15 DEF SaveAnswer, CallEnds, CallAt, Wrote, Later
<1>16. ASSUME NEW c \in Callers, SavePlan(c) PROVE DeliveryInv'
  BY <1>16 DEF SavePlan, CallEnds, CallAt, Wrote, Later
<1>17. ASSUME NEW c \in Callers, BeginCancel(c) PROVE DeliveryInv'
  BY <1>17 DEF BeginCancel, CallAt, Begin
<1>18. ASSUME NEW c \in Callers, CancelAtPeriodEnd(c) PROVE DeliveryInv'
  <2>1. UNCHANGED hookVars
    BY <1>18 DEF CancelAtPeriodEnd
  <2>2. \A h \in Deliveries : hpc[h] = "plan" => events'[on[h]] = events[on[h]]
    BY Growing
  <2> QED
    BY <2>1, <2>2
<1>19. ASSUME NEW c \in Callers, SaveStatus(c) PROVE DeliveryInv'
  BY <1>19 DEF SaveStatus, CallEnds, CallAt, Wrote, Later
<1>20. ASSUME NEW c \in Callers, Refused(c) PROVE DeliveryInv'
  BY <1>20 DEF Refused, CallEnds, CallAt
<1>21. ASSUME NEW c \in Callers, CallFails(c) PROVE DeliveryInv'
  BY <1>21 DEF CallFails, CallEnds, CallAt, Fault
<1>22. ASSUME UNCHANGED vars PROVE DeliveryInv'
  BY <1>22 DEF vars
<1>23. ASSUME SetPlan PROVE DeliveryInv'
  BY <1>23 DEF SetPlan
<1> QED
  BY <1>1, <1>2, <1>3, <1>4, <1>5, <1>6, <1>7, <1>8, <1>9, <1>10, <1>11, <1>12, <1>13,
     <1>14, <1>15, <1>16, <1>17, <1>18, <1>19, <1>20, <1>21, <1>22, <1>23
     DEF Next, Hook, Call

LEMMA PaidForKept ==
    ASSUME Grown, NEW p, PaidFor(events, p)
    PROVE  PaidFor(events', p)
BY DEF Grown, PaidFor

LEMMA SubsPaid ==
    ASSUME TypeOK, NamesInv, PlanInv, [Next]_vars
    PROVE  \A s \in 1 .. Len(subs') : Grants(subs'[s].status) => PaidFor(events', PlanOf[subs'[s].price])
<1>1. Grown /\ Len(subs) \in Nat
  BY Growing DEF Grown
<1>2. \A s \in 1 .. Len(subs) : Grants(subs[s].status) => PaidFor(events', PlanOf[subs[s].price])
  BY <1>1, PaidForKept DEF PlanInv
<1>3. CASE Silent
  BY <1>2, <1>3 DEF Silent
<1>4. ASSUME NEW s, Settled(s) PROVE UNCHANGED subs
  BY <1>4 DEF Settled
<1>5. ASSUME NEW s, NEW sub, Reported(s, sub), NEW i \in 1 .. Len(subs'), Grants(subs'[i].status)
      PROVE  PaidFor(events', PlanOf[subs'[i].price])
  <2>1. CASE i = s
    <3>1. Now + 1 \in DOMAIN events' /\ events'[Now + 1].plan = PlanOf[sub.price]
          /\ events'[Now + 1].kind = "updated" /\ Grants(events'[Now + 1].status) /\ subs'[i] = sub
      BY <1>1, <1>5, <2>1 DEF Reported, Grown, Grants, Now
    <3> QED
      BY <3>1 DEF PaidFor
  <2>2. CASE i # s
    BY <1>1, <1>2, <1>5, <2>2 DEF Reported
  <2> QED
    BY <2>1, <2>2
<1> QED
  BY <1>2, <1>3, <1>4, <1>5, StripeSteps

\* A handler makes the plan what its event says, unless an operator's plan is left alone.
LEMMA PlanTaken ==
    ASSUME TypeOK, NEW h \in Deliveries, WritePlan(h)
    PROVE  overridden' \/ plan' = IF events[on[h]].kind = "deleted" THEN Trial
                                  ELSE events[on[h]].plan
<1>1. plan \in Plans \/ plan = Trial \/ overridden
  BY DEF TypeOK, RowTypeOK
<1> QED
  BY <1>1 DEF WritePlan, TypeOK, RowTypeOK

LEMMA PlanStep ==
    ASSUME TypeOK, NamesInv, DeliveryInv, PlanInv, [Next]_vars
    PROVE  PlanInv'
<1> USE Growing, PaidForKept, SubsPaid
       DEF TypeOK, RowTypeOK, CallTypeOK, PlanInv, CallSteps, stripeVars, rowVars, hookVars, callVars
<1>1. ASSUME NEW s \in DOMAIN subs, StatusChanges(s) PROVE PlanInv'
  <2>1. UNCHANGED <<plan, overridden, keys, cpc, want, answer>>
    BY <1>1 DEF StatusChanges
  <2> QED
    BY <2>1
<1>2. ASSUME NEW s \in DOMAIN subs, InvoiceSettles(s) PROVE PlanInv'
  <2>1. UNCHANGED <<plan, overridden, keys, cpc, want, answer>>
    BY <1>2 DEF InvoiceSettles
  <2> QED
    BY <2>1
<1>3. ASSUME NEW h \in Deliveries, Deliver(h) PROVE PlanInv'
  BY <1>3 DEF Deliver, HookAt
<1>4. ASSUME NEW h \in Deliveries, RecordEvent(h) PROVE PlanInv'
  BY <1>4 DEF RecordEvent, HookAt
<1>5. ASSUME NEW h \in Deliveries, AnswerDuplicate(h) PROVE PlanInv'
  BY <1>5 DEF AnswerDuplicate, HookAt, HookEnds
<1>6. ASSUME NEW h \in Deliveries, FindBilling(h) PROVE PlanInv'
  BY <1>6 DEF FindBilling, HookAt
<1>7. ASSUME NEW h \in Deliveries, WriteSubscription(h) PROVE PlanInv'
  BY <1>7 DEF WriteSubscription, HookAt, Wrote, Later
<1>8. ASSUME NEW h \in Deliveries, WritePayment(h) PROVE PlanInv'
  BY <1>8 DEF WritePayment, HookAt, Later
<1>9. ASSUME NEW h \in Deliveries, WritePlan(h) PROVE PlanInv'
  <2>1. /\ hpc[h] = "plan" /\ on[h] \in DOMAIN events /\ UNCHANGED <<stripeVars, callVars>>
        /\ overridden' \/ plan' = IF events[on[h]].kind = "deleted" THEN Trial ELSE events[on[h]].plan
    BY <1>9, PlanTaken DEF NamesInv, WritePlan
  <2>2. plan' = Trial \/ overridden' \/ PaidFor(events, plan')
    BY <2>1 DEF DeliveryInv, PaidFor
  <2> QED
    BY <2>1, <2>2
<1>10. ASSUME NEW h \in Deliveries, Acknowledge(h) PROVE PlanInv'
  BY <1>10 DEF Acknowledge, HookAt, HookEnds
<1>11. ASSUME NEW h \in Deliveries, FailEvent(h) PROVE PlanInv'
  BY <1>11 DEF FailEvent, HookAt, HookEnds, Fault, Handling
<1>12. ASSUME NEW h \in Deliveries, DieHandling(h) PROVE PlanInv'
  BY <1>12 DEF DieHandling, HookAt, HookEnds, Fault, Handling
<1>13. ASSUME NEW c \in Callers, Subscribe(c) PROVE PlanInv'
  BY <1>13 DEF Subscribe, CallAt, Begin
<1>14. ASSUME NEW c \in Callers, AskStripe(c) PROVE PlanInv'
  <2>1. /\ cpc[c] = "ask" /\ cpc' = [cpc EXCEPT ![c] = "save"]
        /\ UNCHANGED <<plan, overridden, want>> /\ want[c] \in Prices /\ Grown
    BY <1>14, StripeAnswers, Growing DEF AskStripe, CallAt
  <2>2. CASE Keeps(c)
    <3>1. found[c] \in 1 .. Len(subs) /\ subs[found[c]].price = want[c] /\ UNCHANGED <<subs, keys>>
      BY <2>2, LenProperties DEF Keeps, StripeTypeOK
    <3>2. answer'[c].status = subs[found[c]].status
          /\ \A d \in Callers \ {c} : answer'[d] = answer[d]
      BY <2>2 DEF Keeps
    <3>3. Grants(answer'[c].status) => PaidFor(events', PlanOf[want[c]])
      BY <3>1, <3>2
    <3> QED
      BY <2>1, <3>1, <3>2, <3>3
  <2>3. CASE Repeats(c)
    <3>1. /\ keys[want[c]] # NoAnswer /\ answer'[c] = keys[want[c]] /\ UNCHANGED keys
          /\ \A d \in Callers \ {c} : answer'[d] = answer[d]
      BY <2>3 DEF Repeats
    <3>2. Grants(answer'[c].status) => PaidFor(events', PlanOf[want[c]])
      BY <2>1, <3>1
    <3> QED
      BY <2>1, <3>1, <3>2
  <2>4. CASE Moves(c)
    <3>1. /\ found[c] \in 1 .. Len(subs') /\ subs'[found[c]].price = want[c]
          /\ subs'[found[c]].status = subs[found[c]].status
          /\ subs[found[c]].status = answer'[c].status /\ UNCHANGED keys
          /\ \A d \in Callers \ {c} : answer'[d] = answer[d]
      BY <2>4, LenProperties DEF Moves, StripeTypeOK
    <3>2. Grants(answer'[c].status) => PaidFor(events', PlanOf[want[c]])
      BY <3>1
    <3> QED
      BY <2>1, <3>1, <3>2
  <2>5. CASE Makes(c)
    <3>1. /\ Len(subs') \in 1 .. Len(subs') /\ subs'[Len(subs')].price = want[c]
          /\ subs'[Len(subs')].status = answer'[c].status
          /\ keys'[want[c]] = answer'[c] /\ \A p \in Prices \ {want[c]} : keys'[p] = keys[p]
          /\ \A d \in Callers \ {c} : answer'[d] = answer[d]
      BY <2>1, <2>5, LenProperties DEF Makes, StripeTypeOK
    <3>2. Grants(answer'[c].status) => PaidFor(events', PlanOf[want[c]])
      BY <3>1
    <3> QED
      BY <2>1, <3>1, <3>2
  <2> QED
    BY <1>14, <2>2, <2>3, <2>4, <2>5, StripeAnswers
<1>15. ASSUME NEW c \in Callers, SaveAnswer(c) PROVE PlanInv'
  BY <1>15 DEF SaveAnswer, CallEnds, CallAt, Wrote, Later
<1>16. ASSUME NEW c \in Callers, SavePlan(c) PROVE PlanInv'
  BY <1>16 DEF SavePlan, CallEnds, CallAt, Wrote, Later
<1>17. ASSUME NEW c \in Callers, BeginCancel(c) PROVE PlanInv'
  BY <1>17 DEF BeginCancel, CallAt, Begin
<1>18. ASSUME NEW c \in Callers, CancelAtPeriodEnd(c) PROVE PlanInv'
  <2>1. /\ cpc' = [cpc EXCEPT ![c] = "saveStatus"] /\ UNCHANGED <<plan, overridden, keys, want>>
        /\ \A d \in Callers \ {c} : answer'[d] = answer[d]
    BY <1>18 DEF CancelAtPeriodEnd, CallAt
  <2> QED
    BY <2>1
<1>19. ASSUME NEW c \in Callers, SaveStatus(c) PROVE PlanInv'
  BY <1>19 DEF SaveStatus, CallEnds, CallAt, Wrote, Later
<1>20. ASSUME NEW c \in Callers, Refused(c) PROVE PlanInv'
  BY <1>20 DEF Refused, CallEnds, CallAt
<1>21. ASSUME NEW c \in Callers, CallFails(c) PROVE PlanInv'
  BY <1>21 DEF CallFails, CallEnds, CallAt, Fault
<1>22. ASSUME UNCHANGED vars PROVE PlanInv'
  BY <1>22 DEF vars
<1>23. ASSUME SetPlan PROVE PlanInv'
  BY <1>23 DEF SetPlan
<1> QED
  BY <1>1, <1>2, <1>3, <1>4, <1>5, <1>6, <1>7, <1>8, <1>9, <1>10, <1>11, <1>12, <1>13,
     <1>14, <1>15, <1>16, <1>17, <1>18, <1>19, <1>20, <1>21, <1>22, <1>23
     DEF Next, Hook, Call

LEMMA KeyStep ==
    ASSUME TypeOK, NamesInv, KeyInv, [Next]_vars
    PROVE  KeyInv'
<1> USE DEF TypeOK, CallTypeOK, StripeTypeOK, KeyInv, Keyed, stripeVars, rowVars, hookVars, callVars
<1>1. ASSUME NEW s \in DOMAIN subs, StatusChanges(s) PROVE KeyInv'
  BY <1>1 DEF StatusChanges
<1>2. ASSUME NEW s \in DOMAIN subs, InvoiceSettles(s) PROVE KeyInv'
  BY <1>2 DEF InvoiceSettles
<1>3. ASSUME NEW h \in Deliveries, Deliver(h) PROVE KeyInv'
  BY <1>3 DEF Deliver, HookAt
<1>4. ASSUME NEW h \in Deliveries, RecordEvent(h) PROVE KeyInv'
  BY <1>4 DEF RecordEvent, HookAt
<1>5. ASSUME NEW h \in Deliveries, AnswerDuplicate(h) PROVE KeyInv'
  BY <1>5 DEF AnswerDuplicate, HookAt, HookEnds
<1>6. ASSUME NEW h \in Deliveries, FindBilling(h) PROVE KeyInv'
  BY <1>6 DEF FindBilling, HookAt
<1>7. ASSUME NEW h \in Deliveries, WriteSubscription(h) PROVE KeyInv'
  BY <1>7 DEF WriteSubscription, HookAt, Wrote, Later
<1>8. ASSUME NEW h \in Deliveries, WritePayment(h) PROVE KeyInv'
  BY <1>8 DEF WritePayment, HookAt, Later
<1>9. ASSUME NEW h \in Deliveries, WritePlan(h) PROVE KeyInv'
  BY <1>9 DEF WritePlan, HookAt, Wrote, Later
<1>10. ASSUME NEW h \in Deliveries, Acknowledge(h) PROVE KeyInv'
  BY <1>10 DEF Acknowledge, HookAt, HookEnds
<1>11. ASSUME NEW h \in Deliveries, FailEvent(h) PROVE KeyInv'
  BY <1>11 DEF FailEvent, HookAt, HookEnds, Fault, Handling
<1>12. ASSUME NEW h \in Deliveries, DieHandling(h) PROVE KeyInv'
  BY <1>12 DEF DieHandling, HookAt, HookEnds, Fault, Handling
<1>13. ASSUME NEW c \in Callers, Subscribe(c) PROVE KeyInv'
  <2>1. PICK p \in Prices : wanted' = wanted \cup {p}
    BY <1>13 DEF Subscribe
  <2>2. UNCHANGED <<subs, keys>>
    BY <1>13 DEF Subscribe
  <2>3. IsFiniteSet(wanted')
    BY <2>1, FS_AddElement
  <2> QED
    BY <2>2, <2>3
<1>14. ASSUME NEW c \in Callers, AskStripe(c) PROVE KeyInv'
  <2>1. want[c] \in Prices /\ UNCHANGED wanted
    BY <1>14, StripeAnswers DEF AskStripe
  <2>2. CASE Keeps(c) \/ Repeats(c) \/ Moves(c)
    BY <2>1, <2>2 DEF Keeps, Repeats, Moves
  <2>3. CASE Makes(c)
    <3>1. /\ keys[want[c]] = NoAnswer /\ Len(subs') = Len(subs) + 1
          /\ \E made : made # NoAnswer /\ keys' = [keys EXCEPT ![want[c]] = made]
      BY <2>3 DEF Makes
    <3>2. Keyed' = Keyed \cup {want[c]} /\ want[c] \notin Keyed
      BY <2>1, <3>1
    <3>3. IsFiniteSet(Keyed)
      <4>1. Keyed \subseteq wanted
        BY DEF NamesInv
      <4> QED
        BY <4>1, FS_Subset
    <3>4. Cardinality(Keyed') = Cardinality(Keyed) + 1
      <4> HIDE DEF Keyed
      <4> QED
        BY <3>2, <3>3, FS_AddElement
    <3> QED
      BY <2>1, <3>1, <3>4
  <2> QED
    BY <1>14, <2>2, <2>3, StripeAnswers
<1>15. ASSUME NEW c \in Callers, SaveAnswer(c) PROVE KeyInv'
  BY <1>15 DEF SaveAnswer, CallEnds, CallAt, Wrote, Later
<1>16. ASSUME NEW c \in Callers, SavePlan(c) PROVE KeyInv'
  BY <1>16 DEF SavePlan, CallEnds, CallAt, Wrote, Later
<1>17. ASSUME NEW c \in Callers, BeginCancel(c) PROVE KeyInv'
  BY <1>17 DEF BeginCancel, CallAt, Begin
<1>18. ASSUME NEW c \in Callers, CancelAtPeriodEnd(c) PROVE KeyInv'
  BY <1>18 DEF CancelAtPeriodEnd, CallAt
<1>19. ASSUME NEW c \in Callers, SaveStatus(c) PROVE KeyInv'
  BY <1>19 DEF SaveStatus, CallEnds, CallAt, Wrote, Later
<1>20. ASSUME NEW c \in Callers, Refused(c) PROVE KeyInv'
  BY <1>20 DEF Refused, CallEnds, CallAt
<1>21. ASSUME NEW c \in Callers, CallFails(c) PROVE KeyInv'
  BY <1>21 DEF CallFails, CallEnds, CallAt, Fault
<1>22. ASSUME UNCHANGED vars PROVE KeyInv'
  BY <1>22 DEF vars
<1>23. ASSUME SetPlan PROVE KeyInv'
  BY <1>23 DEF SetPlan
<1> QED
  BY <1>1, <1>2, <1>3, <1>4, <1>5, <1>6, <1>7, <1>8, <1>9, <1>10, <1>11, <1>12, <1>13,
     <1>14, <1>15, <1>16, <1>17, <1>18, <1>19, <1>20, <1>21, <1>22, <1>23
     DEF Next, Hook, Call

---------------------------------------------------------------------------
(* What was so at a version. *)

LEMMA ShownAt ==
    ASSUME NEW S, NEW val, NEW none, NEW x, NEW e \in S, e \in Nat, x = val[e]
    PROVE  Shown(S, val, none, x, e)
BY DEF Shown

\* Two values shown at versions between which there is no event are one.
LEMMA ShownUnique ==
    ASSUME NEW S, S \subseteq Nat, NEW val, NEW none, NEW x, NEW y, NEW v \in Nat, NEW w \in Nat,
           Shown(S, val, none, x, v), Shown(S, val, none, y, w), \A e \in S : e <= v <=> e <= w
    PROVE  x = y
<1>1. CASE \E e \in S : e <= v
  <2>1. PICK e \in S : e <= v /\ x = val[e] /\ \A d \in S : d <= v => d <= e
    BY <1>1 DEF Shown
  <2>2. PICK f \in S : f <= w /\ y = val[f] /\ \A d \in S : d <= w => d <= f
    BY <2>1 DEF Shown
  <2>3. e = f
    BY <2>1, <2>2
  <2> QED
    BY <2>1, <2>2, <2>3
<1>2. CASE \A e \in S : ~(e <= v)
  BY <1>2 DEF Shown
<1> QED
  BY <1>1, <1>2

\* An event that is not in the set leaves what is shown.
LEMMA ShownPast ==
    ASSUME NEW S, NEW val, NEW T, NEW wal, NEW none, NEW x, NEW n \in Nat,
           S \subseteq 1 .. n, T \subseteq 1 .. (n + 1), \A e \in 1 .. n : e \in T <=> e \in S,
           \A e \in S : wal[e] = val[e], Shown(S, val, none, x, n), n + 1 \notin T
    PROVE  Shown(T, wal, none, x, n + 1)
<1>1. ASSUME NEW e \in T PROVE e \in S /\ e \in Nat /\ e <= n
  <2>1. e \in 1 .. (n + 1) /\ e # n + 1
    BY <1>1
  <2>2. e \in 1 .. n
    BY <2>1
  <2> QED
    BY <1>1, <2>2
<1>2. ASSUME NEW e \in S PROVE e \in T
  BY <1>2
<1>3. CASE \E e \in S : e <= n /\ x = val[e] /\ \A d \in S : d <= n => d <= e
  <2>1. PICK e \in S : x = val[e] /\ \A d \in S : d <= n => d <= e
    BY <1>3
  <2>2. e \in T /\ x = wal[e]
    <3>1. e \in T
      BY <1>2
    <3>2. wal[e] = val[e]
      OBVIOUS
    <3> QED
      BY <2>1, <3>1, <3>2, Zenon
  <2>3. \A d \in T : d <= e
    BY <1>1, <2>1
  <2>4. e <= n + 1
    BY <1>1, <2>2
  <2> QED
    BY <2>2, <2>3, <2>4 DEF Shown
<1>4. CASE x = none /\ \A e \in S : e > n
  <2>1. \A e \in T : FALSE
    BY <1>1, <1>4
  <2> QED
    BY <1>4, <2>1 DEF Shown
<1> QED
  BY <1>3, <1>4 DEF Shown

LEMMA AtKept ==
    ASSUME Grown, NEW x, NEW v \in Nat, v <= Len(events)
    PROVE  /\ StatusAt(events, x, v) => StatusAt(events', x, v)
           /\ PlanAt(events, x, v) => PlanAt(events', x, v)
           /\ OwedAt(events, x, v) => OwedAt(events', x, v)
<1>1. \A e \in 1 .. Len(events') : e <= v => e \in 1 .. Len(events) /\ events'[e] = events[e]
  BY DEF Grown
<1>2. StatusAt(events, x, v) => StatusAt(events', x, v)
  BY <1>1 DEF Grown, StatusAt, Shown, Reports, StatusOf
<1>3. PlanAt(events, x, v) => PlanAt(events', x, v)
  BY <1>1 DEF Grown, PlanAt, Shown, Grantings, PlanTold
<1>4. OwedAt(events, x, v) => OwedAt(events', x, v)
  BY <1>1 DEF Grown, OwedAt, Shown, Invoices, OwedOf
<1> QED
  BY <1>2, <1>3, <1>4

LEMMA StripeStep ==
    ASSUME TypeOK, NamesInv, StripeInv, [Next]_vars
    PROVE  StripeInv'
<1> DEFINE n == Len(events)
<1>1. Grown /\ n \in Nat /\ n + 1 \in Nat
  BY Growing DEF Grown
<1>2. CASE Silent
  BY <1>2 DEF Silent, StripeInv
<1>3. ASSUME Len(events') = n + 1
      PROVE  /\ n + 1 \notin Reports(events') =>
                   \A x : StatusAt(events, x, n) => StatusAt(events', x, n + 1)
             /\ n + 1 \notin Grantings(events') =>
                   \A x : PlanAt(events, x, n) => PlanAt(events', x, n + 1)
             /\ n + 1 \notin Invoices(events') =>
                   \A x : OwedAt(events, x, n) => OwedAt(events', x, n + 1)
  <2>1. /\ Reports(events) \subseteq 1 .. n /\ Reports(events') \subseteq 1 .. (n + 1)
        /\ \A e \in 1 .. n : e \in Reports(events') <=> e \in Reports(events)
        /\ \A e \in Reports(events) : StatusOf(events')[e] = StatusOf(events)[e]
    BY <1>1, <1>3 DEF Reports, StatusOf, Grown
  <2>2. /\ Grantings(events) \subseteq 1 .. n /\ Grantings(events') \subseteq 1 .. (n + 1)
        /\ \A e \in 1 .. n : e \in Grantings(events') <=> e \in Grantings(events)
        /\ \A e \in Grantings(events) : PlanTold(events')[e] = PlanTold(events)[e]
    BY <1>1, <1>3 DEF Grantings, PlanTold, Grown
  <2>3. /\ Invoices(events) \subseteq 1 .. n /\ Invoices(events') \subseteq 1 .. (n + 1)
        /\ \A e \in 1 .. n : e \in Invoices(events') <=> e \in Invoices(events)
        /\ \A e \in Invoices(events) : OwedOf(events')[e] = OwedOf(events)[e]
    BY <1>1, <1>3 DEF Invoices, OwedOf, Grown
  <2> HIDE DEF n
  <2> QED
    BY <1>1, <2>1, <2>2, <2>3, ShownPast DEF StatusAt, PlanAt, OwedAt
<1>4. ASSUME NEW s \in 1 .. Len(subs), Settled(s) PROVE StripeInv'
  <2>1. /\ Len(events') = n + 1 /\ n + 1 \in Invoices(events') /\ UNCHANGED <<subs, entitled>>
        /\ n + 1 \notin Reports(events') /\ n + 1 \notin Grantings(events')
    BY <1>1, <1>4 DEF Settled, Grown, Invoices, Reports, Grantings, Now
  <2>2. OwedOf(events')[n + 1] = owed'
    BY <1>1, <1>4, <2>1 DEF Settled, Grown, OwedOf, Invoices, Now
  <2>3. OwedAt(events', owed', n + 1)
    <3> HIDE DEF n
    <3> QED
      BY <1>1, <2>1, <2>2, ShownAt DEF OwedAt
  <2>4. Len(subs) # 0 /\ PlanAt(events', entitled, n + 1)
    BY <1>1, <1>3, <2>1 DEF StripeInv, Grown
  <2>5. Len(subs) = 1 => StatusAt(events', subs[1].status, n + 1)
    BY <1>3, <2>1 DEF StripeInv
  <2> QED
    BY <2>1, <2>3, <2>4, <2>5 DEF StripeInv
<1>5. ASSUME NEW s \in Nat \ {0}, NEW sub \in Subscription, Reported(s, sub) PROVE StripeInv'
  <2>1. /\ Len(events') = n + 1 /\ n + 1 \in Reports(events') /\ n + 1 \notin Invoices(events')
        /\ n + 1 \in DOMAIN events' /\ UNCHANGED owed /\ subs'[s] = sub
        /\ n + 1 \in Grantings(events') <=> sub.status = "canceled" \/ Grants(sub.status)
        /\ events'[n + 1].status = sub.status /\ events'[n + 1].plan = PlanOf[sub.price]
    BY <1>1, <1>5 DEF Reported, Grown, Invoices, Reports, Grantings, Grants, Now
  <2>2. OwedAt(events', owed', n + 1)
    BY <1>3, <2>1 DEF StripeInv
  <2>3. StatusAt(events', sub.status, n + 1)
    <3>1. StatusOf(events')[n + 1] = sub.status
      BY <2>1 DEF StatusOf
    <3> HIDE DEF n
    <3> QED
      BY <1>1, <2>1, <3>1, ShownAt DEF StatusAt
  <2>4. PlanAt(events', entitled', n + 1)
    <3>1. CASE n + 1 \in Grantings(events')
      <4>1. PlanTold(events')[n + 1] = entitled'
        BY <1>5, <2>1, <3>1 DEF Reported, PlanTold, Grants, Now
      <4> HIDE DEF n
      <4> QED
        BY <1>1, <3>1, <4>1, ShownAt DEF PlanAt
    <3>2. CASE n + 1 \notin Grantings(events')
      BY <1>3, <1>5, <2>1, <3>2 DEF StripeInv, Reported
    <3> QED
      BY <3>1, <3>2
  <2>5. Len(subs') # 0 /\ (Len(subs') = 1 => s = 1)
    BY <1>1, <1>5 DEF Reported, Grown
  <2>6. Grants(sub.status) => entitled' = PlanOf[sub.price]
    BY <1>5 DEF Reported
  <2> QED
    BY <2>1, <2>2, <2>3, <2>4, <2>5, <2>6 DEF StripeInv
<1> QED
  BY <1>2, <1>4, <1>5, StripeSteps

---------------------------------------------------------------------------
(* Answers. *)

LEMMA AnswersKept ==
    ASSUME TypeOK, Grown, AnswersInv
    PROVE  AnswersTrue(events', Len(subs'))
<1>1. Len(events) <= Len(events') /\ (Len(subs') <= 1 => Len(subs) <= 1)
      /\ Len(events) \in Nat /\ Len(events') \in Nat
  BY DEF Grown
<1>2. ASSUME NEW a \in Answer, NEW p, a.version <= Len(events)
      PROVE  /\ a.version <= Len(events')
             /\ TrueAnswer(events, a, p) => TrueAnswer(events', a, p)
             /\ StatusAt(events, a.status, a.version) => StatusAt(events', a.status, a.version)
  <2>1. a.version \in Nat
    BY DEF Answer
  <2>2. a.version <= Len(events')
    BY <1>1, <1>2, <2>1
  <2> QED
    BY <1>2, <2>1, <2>2, AtKept DEF TrueAnswer
<1>3. /\ \A p \in Prices : keys[p] \in Answer
      /\ \A c \in Callers : answer[c] \in Answer
  BY DEF TypeOK, StripeTypeOK, CallTypeOK
<1>4. ASSUME NEW p \in Prices, keys[p] # NoAnswer
      PROVE  keys[p].version <= Len(events') /\ (Len(subs') <= 1 => TrueAnswer(events', keys[p], p))
  BY <1>1, <1>2, <1>3, <1>4 DEF AnswersInv, AnswersTrue
<1>5. ASSUME NEW c \in Callers, cpc[c] \in {"save", "plan", "saveStatus"}
      PROVE  /\ answer[c].version <= Len(events')
             /\ Len(subs') <= 1 =>
                  /\ cpc[c] \in {"save", "plan"} => TrueAnswer(events', answer[c], want[c])
                  /\ cpc[c] = "saveStatus" => StatusAt(events', answer[c].status, answer[c].version)
  BY <1>1, <1>2, <1>3, <1>5 DEF AnswersInv, AnswersTrue
<1> QED
  BY <1>4, <1>5 DEF AnswersTrue

\* What Stripe says of the only subscription now is a true answer.
LEMMA NowTrue ==
    ASSUME StripeInv', NEW s, s \in 1 .. Len(subs'), Len(subs') \in Nat, Len(subs') <= 1
    PROVE  /\ StatusAt(events', subs'[s].status, Len(events'))
           /\ Grants(subs'[s].status) => PlanAt(events', PlanOf[subs'[s].price], Len(events'))
<1>1. \A n \in Nat : s \in 1 .. n /\ n <= 1 => s = 1 /\ n = 1
  OBVIOUS
<1>2. s = 1 /\ Len(subs') = 1
  BY <1>1
<1> QED
  BY <1>2 DEF StripeInv

LEMMA AnswersStep ==
    ASSUME TypeOK, NamesInv, StripeInv, StripeInv', AnswersInv, [Next]_vars
    PROVE  AnswersInv'
<1> USE Growing, AnswersKept
       DEF TypeOK, CallTypeOK, AnswersInv, AnswersTrue, CallSteps, stripeVars, rowVars, hookVars,
           callVars
<1>1. ASSUME NEW s \in DOMAIN subs, StatusChanges(s) PROVE AnswersInv'
  <2>1. UNCHANGED <<keys, cpc, want, answer>>
    BY <1>1 DEF StatusChanges
  <2> QED
    BY <2>1
<1>2. ASSUME NEW s \in DOMAIN subs, InvoiceSettles(s) PROVE AnswersInv'
  <2>1. UNCHANGED <<keys, cpc, want, answer>>
    BY <1>2 DEF InvoiceSettles
  <2> QED
    BY <2>1
<1>3. ASSUME NEW h \in Deliveries, Deliver(h) PROVE AnswersInv'
  BY <1>3 DEF Deliver, HookAt
<1>4. ASSUME NEW h \in Deliveries, RecordEvent(h) PROVE AnswersInv'
  BY <1>4 DEF RecordEvent, HookAt
<1>5. ASSUME NEW h \in Deliveries, AnswerDuplicate(h) PROVE AnswersInv'
  BY <1>5 DEF AnswerDuplicate, HookAt, HookEnds
<1>6. ASSUME NEW h \in Deliveries, FindBilling(h) PROVE AnswersInv'
  BY <1>6 DEF FindBilling, HookAt
<1>7. ASSUME NEW h \in Deliveries, WriteSubscription(h) PROVE AnswersInv'
  BY <1>7 DEF WriteSubscription, HookAt, Wrote, Later
<1>8. ASSUME NEW h \in Deliveries, WritePayment(h) PROVE AnswersInv'
  BY <1>8 DEF WritePayment, HookAt, Later
<1>9. ASSUME NEW h \in Deliveries, WritePlan(h) PROVE AnswersInv'
  BY <1>9 DEF WritePlan, HookAt, Wrote, Later
<1>10. ASSUME NEW h \in Deliveries, Acknowledge(h) PROVE AnswersInv'
  BY <1>10 DEF Acknowledge, HookAt, HookEnds
<1>11. ASSUME NEW h \in Deliveries, FailEvent(h) PROVE AnswersInv'
  BY <1>11 DEF FailEvent, HookAt, HookEnds, Fault, Handling
<1>12. ASSUME NEW h \in Deliveries, DieHandling(h) PROVE AnswersInv'
  BY <1>12 DEF DieHandling, HookAt, HookEnds, Fault, Handling
<1>13. ASSUME NEW c \in Callers, Subscribe(c) PROVE AnswersInv'
  BY <1>13 DEF Subscribe, CallAt, Begin
<1>14. ASSUME NEW c \in Callers, AskStripe(c) PROVE AnswersInv'
  <2>1. /\ cpc[c] = "ask" /\ cpc' = [cpc EXCEPT ![c] = "save"]
        /\ UNCHANGED want /\ want[c] \in Prices
        /\ Len(subs) \in Nat /\ Len(subs') \in Nat /\ Len(events) \in Nat /\ Len(events') \in Nat
    BY <1>14, StripeAnswers, Growing DEF AskStripe, CallAt, Grown
  <2>2. CASE Repeats(c)
    <3>1. /\ keys[want[c]] # NoAnswer /\ UNCHANGED keys
          /\ answer'[c] = keys[want[c]] /\ \A d \in Callers \ {c} : answer'[d] = answer[d]
      BY <2>2 DEF Repeats
    <3>2. /\ answer'[c].version <= Len(events')
          /\ Len(subs') <= 1 => TrueAnswer(events', answer'[c], want[c])
      BY <2>1, <3>1
    <3> QED
      BY <2>1, <3>1, <3>2
  <2>3. ASSUME answer'[c].version = Len(events'), \A d \in Callers \ {c} : answer'[d] = answer[d],
               NEW s \in 1 .. Len(subs'), subs'[s].price = want[c],
               answer'[c].status = subs'[s].status
        PROVE  /\ answer'[c].version <= Len(events')
               /\ Len(subs') <= 1 => TrueAnswer(events', answer'[c], want[c])
    <3>1. CASE Len(subs') <= 1
      <4>1. /\ StatusAt(events', subs'[s].status, Len(events'))
            /\ Grants(subs'[s].status) => PlanAt(events', PlanOf[subs'[s].price], Len(events'))
        BY <2>1, <3>1, NowTrue
      <4> QED
        BY <2>1, <2>3, <4>1 DEF TrueAnswer
    <3> QED
      BY <2>1, <2>3, <3>1
  <2>4. CASE Keeps(c)
    <3>1. /\ found[c] \in 1 .. Len(subs') /\ subs'[found[c]].price = want[c]
          /\ UNCHANGED <<keys, events>> /\ answer'[c].version = Len(events')
          /\ answer'[c].status = subs'[found[c]].status
          /\ \A d \in Callers \ {c} : answer'[d] = answer[d]
      BY <2>4, LenProperties DEF Keeps, StripeTypeOK, Now
    <3> QED
      BY <2>1, <2>3, <3>1
  <2>5. CASE Moves(c)
    <3>1. /\ found[c] \in 1 .. Len(subs') /\ subs'[found[c]].price = want[c]
          /\ UNCHANGED keys /\ answer'[c].version = Now + 1
          /\ answer'[c].status = subs'[found[c]].status
          /\ \A d \in Callers \ {c} : answer'[d] = answer[d]
      BY <2>5, LenProperties DEF Moves, StripeTypeOK
    <3>2. Len(events') = Now + 1
      <4>1. found[c] \in Nat \ {0}
        BY <2>1, <3>1
      <4> QED
        BY <2>5, <4>1, ReportGrows DEF Moves
    <3> QED
      BY <2>1, <2>3, <3>1, <3>2
  <2>6. CASE Makes(c)
    <3>1. /\ Len(subs') \in 1 .. Len(subs') /\ subs'[Len(subs')].price = want[c]
          /\ answer'[c].status = subs'[Len(subs')].status /\ answer'[c].version = Now + 1
          /\ keys'[want[c]] = answer'[c] /\ \A p \in Prices \ {want[c]} : keys'[p] = keys[p]
          /\ \A d \in Callers \ {c} : answer'[d] = answer[d]
      BY <2>1, <2>6, LenProperties DEF Makes, StripeTypeOK
    <3>2. Len(events') = Now + 1
      <4>1. Len(subs) + 1 \in Nat \ {0}
        BY <2>1
      <4> QED
        BY <2>6, <4>1, ReportGrows DEF Makes
    <3>3. /\ answer'[c].version <= Len(events')
          /\ Len(subs') <= 1 => TrueAnswer(events', answer'[c], want[c])
      BY <2>3, <3>1, <3>2
    <3> QED
      BY <2>1, <3>1, <3>3
  <2> QED
    BY <1>14, <2>2, <2>4, <2>5, <2>6, StripeAnswers
<1>15. ASSUME NEW c \in Callers, SaveAnswer(c) PROVE AnswersInv'
  BY <1>15 DEF SaveAnswer, CallEnds, CallAt, Wrote, Later
<1>16. ASSUME NEW c \in Callers, SavePlan(c) PROVE AnswersInv'
  BY <1>16 DEF SavePlan, CallEnds, CallAt, Wrote, Later
<1>17. ASSUME NEW c \in Callers, BeginCancel(c) PROVE AnswersInv'
  BY <1>17 DEF BeginCancel, CallAt, Begin
<1>18. ASSUME NEW c \in Callers, CancelAtPeriodEnd(c) PROVE AnswersInv'
  <2>1. /\ cpc[c] = "cancel" /\ cpc' = [cpc EXCEPT ![c] = "saveStatus"]
        /\ UNCHANGED <<keys, want, subs>>
        /\ \A d \in Callers \ {c} : answer'[d] = answer[d]
        /\ answer'[c].status = subs'[found[c]].status /\ answer'[c].version = Now + 1
        /\ Report(found[c], subs[found[c]])
    BY <1>18 DEF CancelAtPeriodEnd, CallAt
  <2>2. found[c] \in Nat \ {0} /\ found[c] \in 1 .. Len(subs) /\ subs[found[c]] \in Subscription
    BY <2>1, LenProperties, ElementOfSeq DEF NamesInv, StripeTypeOK
  <2>3. Len(events') = Now + 1 /\ Len(events') \in Nat /\ Len(subs') \in Nat
    BY <2>1, <2>2, ReportGrows, Growing DEF Grown
  <2>4. Len(subs') <= 1 => StatusAt(events', answer'[c].status, answer'[c].version)
    BY <2>1, <2>2, <2>3, NowTrue
  <2> QED
    BY <2>1, <2>3, <2>4
<1>19. ASSUME NEW c \in Callers, SaveStatus(c) PROVE AnswersInv'
  BY <1>19 DEF SaveStatus, CallEnds, CallAt, Wrote, Later
<1>20. ASSUME NEW c \in Callers, Refused(c) PROVE AnswersInv'
  BY <1>20 DEF Refused, CallEnds, CallAt
<1>21. ASSUME NEW c \in Callers, CallFails(c) PROVE AnswersInv'
  BY <1>21 DEF CallFails, CallEnds, CallAt, Fault
<1>22. ASSUME UNCHANGED vars PROVE AnswersInv'
  BY <1>22 DEF vars
<1>23. ASSUME SetPlan PROVE AnswersInv'
  BY <1>23 DEF SetPlan
<1> QED
  BY <1>1, <1>2, <1>3, <1>4, <1>5, <1>6, <1>7, <1>8, <1>9, <1>10, <1>11, <1>12, <1>13,
     <1>14, <1>15, <1>16, <1>17, <1>18, <1>19, <1>20, <1>21, <1>22, <1>23
     DEF Next, Hook, Call

---------------------------------------------------------------------------
(* Fields. *)

LEMMA FieldsKept ==
    ASSUME TypeOK, NamesInv, Grown, FieldsInv
    PROVE  FieldsTrue(events', Len(subs'))
<1>1. Len(events) <= Len(events') /\ (Len(subs') <= 1 => Len(subs) <= 1)
      /\ Len(events) \in Nat /\ Len(events') \in Nat
  BY DEF Grown
<1>2. /\ at.status \in Nat /\ at.plan \in Nat /\ at.failed \in Nat
      /\ at.status <= Len(events) /\ at.plan <= Len(events) /\ at.failed <= Len(events)
  BY DEF TypeOK, RowTypeOK, FieldsInv, FieldsTrue
<1>3. at.status <= Len(events') /\ at.plan <= Len(events') /\ at.failed <= Len(events')
  BY <1>1, <1>2
<1>4. ~disturbed => OwedAt(events', billing.failed, at.failed)
  BY <1>2, AtKept DEF FieldsInv, FieldsTrue
<1>5. ~disturbed /\ Len(subs') <= 1 =>
         /\ StatusAt(events', billing.status, at.status)
         /\ overridden \/ PlanAt(events', plan, at.plan)
  BY <1>1, <1>2, AtKept DEF FieldsInv, FieldsTrue
<1>6. ASSUME NEW h \in Deliveries, hpc[h] = "write", events'[on[h]].kind = "failed"
      PROVE  /\ read[h].version <= Len(events')
             /\ ~disturbed => OwedAt(events', read[h].failed, read[h].version)
  <2>1. events'[on[h]] = events[on[h]]
    BY <1>6 DEF NamesInv, Grown
  <2>2. /\ read[h].version <= Len(events)
        /\ ~disturbed => OwedAt(events, read[h].failed, read[h].version)
    BY <1>6, <2>1 DEF FieldsInv, FieldsTrue
  <2>3. read[h].version \in Nat
    BY DEF TypeOK, HookTypeOK
  <2> QED
    BY <1>1, <2>2, <2>3, AtKept
<1> QED
  BY <1>3, <1>4, <1>5, <1>6 DEF FieldsTrue

LEMMA WroteField ==
    ASSUME RowTypeOK, NEW field \in {"status", "plan", "failed"}, NEW version \in Nat,
           Wrote(field, version)
    PROVE  /\ at'[field] \in {at[field], version}
           /\ at'[field] >= at[field] /\ at'[field] >= version
           /\ \A other \in {"status", "plan", "failed"} \ {field} : at'[other] = at[other]
           /\ ~disturbed' => ~disturbed /\ at'[field] = version
<1>1. /\ at \in [status : Nat, plan : Nat, failed : Nat]
      /\ at' = [at EXCEPT ![field] = Later(@, version)]
      /\ disturbed' = (disturbed \/ version < at[field])
  BY DEF RowTypeOK, Wrote
<1>2. at[field] \in Nat
  BY <1>1
<1>3. at'[field] = Later(at[field], version)
  BY <1>1
<1>4. \A other \in {"status", "plan", "failed"} \ {field} : at'[other] = at[other]
  BY <1>1
<1>5. ~disturbed' => ~disturbed /\ ~(version < at[field])
  BY <1>1, Zenon
<1> QED
  BY <1>2, <1>3, <1>4, <1>5 DEF Later

LEMMA FieldsStep ==
    ASSUME TypeOK, NamesInv, DeliveryInv, PlanInv, AnswersInv, FieldsInv, [Next]_vars
    PROVE  FieldsInv'
<1> USE Growing, FieldsKept
       DEF TypeOK, RowTypeOK, HookTypeOK, CallTypeOK, FieldsInv, FieldsTrue, HookSteps,
           stripeVars, rowVars, hookVars, callVars
<1>1. ASSUME NEW s \in DOMAIN subs, StatusChanges(s) PROVE FieldsInv'
  BY <1>1 DEF StatusChanges
<1>2. ASSUME NEW s \in DOMAIN subs, InvoiceSettles(s) PROVE FieldsInv'
  BY <1>2 DEF InvoiceSettles
<1>3. ASSUME NEW h \in Deliveries, Deliver(h) PROVE FieldsInv'
  BY <1>3 DEF Deliver, HookAt
<1>4. ASSUME NEW h \in Deliveries, RecordEvent(h) PROVE FieldsInv'
  BY <1>4 DEF RecordEvent, HookAt
<1>5. ASSUME NEW h \in Deliveries, AnswerDuplicate(h) PROVE FieldsInv'
  BY <1>5 DEF AnswerDuplicate, HookAt, HookEnds
<1>6. ASSUME NEW h \in Deliveries, FindBilling(h) PROVE FieldsInv'
  BY <1>6 DEF FindBilling, HookAt
<1>7. ASSUME NEW h \in Deliveries, WriteSubscription(h) PROVE FieldsInv'
  <2>1. /\ hpc[h] = "write" /\ hpc'[h] # "write" /\ UNCHANGED <<plan, overridden, on, read, events, subs>>
        /\ \A g \in Deliveries \ {h} : hpc'[g] = hpc[g]
        /\ events[on[h]].kind \in {"updated", "deleted"} /\ Wrote("status", on[h])
        /\ billing'.status = events[on[h]].status /\ billing'.failed = billing.failed
    BY <1>7 DEF WriteSubscription, HookAt
  <2>2. on[h] \in DOMAIN events /\ on[h] \in Nat /\ on[h] <= Len(events)
    BY <2>1, Growing DEF NamesInv, Grown
  <2>3. /\ at'.status \in {at.status, on[h]} /\ at'.plan = at.plan /\ at'.failed = at.failed
        /\ ~disturbed' => ~disturbed /\ at'.status = on[h]
    BY <2>1, <2>2, WroteField
  <2>4. StatusAt(events, events[on[h]].status, on[h])
    <3>1. on[h] \in Reports(events) /\ StatusOf(events)[on[h]] = events[on[h]].status
      BY <2>1, <2>2 DEF Reports, StatusOf
    <3> QED
      BY <2>2, <3>1, ShownAt DEF StatusAt
  <2> QED
    BY <2>1, <2>2, <2>3, <2>4
<1>8. ASSUME NEW h \in Deliveries, WritePayment(h) PROVE FieldsInv'
  <2> DEFINE e == on[h]
             owes == events[e].kind = "failed"
             keeps == owes /\ read[h].failed
  <2>1. /\ hpc[h] = "write" /\ hpc'[h] # "write" /\ UNCHANGED <<plan, overridden, on, read, events, subs>>
        /\ \A g \in Deliveries \ {h} : hpc'[g] = hpc[g]
        /\ events[e].kind \in {"paid", "failed"} /\ billing'.status = billing.status
        /\ at'.failed \in {at.failed, e} /\ at'.plan = at.plan /\ at'.status = at.status
    BY <1>8 DEF WritePayment, HookAt, Later
  <2>2. e \in DOMAIN events /\ e \in Nat /\ e <= Len(events)
    BY <2>1, Growing DEF NamesInv, Grown
  <2>3. ASSUME ~disturbed'
        PROVE  ~disturbed /\ at'.failed = e /\ (keeps => read[h].version = at.failed)
    <3>1. /\ at'.failed = Later(at.failed, e)
          /\ disturbed' = (disturbed \/ e < at.failed \/ (keeps /\ read[h].version # at.failed))
      BY <1>8 DEF WritePayment
    <3> HIDE DEF keeps
    <3>2. /\ ~disturbed /\ ~(e < at.failed) /\ (keeps => read[h].version = at.failed)
      BY <2>3, <3>1, Zenon
    <3> QED
      BY <2>2, <3>1, <3>2 DEF Later
  <2>4. /\ keeps => billing' = billing
        /\ ~keeps => billing'.failed = owes
    BY <1>8 DEF WritePayment
  <2>5. OwedAt(events, owes, e)
    <3>1. e \in Invoices(events) /\ OwedOf(events)[e] = owes
      BY <2>1, <2>2 DEF Invoices, OwedOf
    <3> HIDE DEF e, owes
    <3> QED
      BY <2>2, <3>1, ShownAt DEF OwedAt
  <2>6. ASSUME ~disturbed' PROVE billing'.failed = owes
    <3>1. CASE keeps
      <4>1. read[h].version = at.failed /\ owes = TRUE /\ read[h].failed = TRUE
        BY <2>3, <2>6, <3>1
      <4>2. OwedAt(events, billing.failed, at.failed) /\ OwedAt(events, read[h].failed, at.failed)
        BY <2>1, <2>3, <2>6, <3>1, <4>1
      <4>3. Invoices(events) \subseteq Nat /\ at.failed \in Nat
        BY Growing DEF Invoices, Grown
      <4>4. billing.failed = read[h].failed
        BY <4>2, <4>3, ShownUnique DEF OwedAt
      <4> QED
        BY <2>4, <3>1, <4>1, <4>4, Zenon
    <3>2. CASE ~keeps
      BY <2>4, <3>2
    <3> QED
      BY <3>1, <3>2
  <2> HIDE DEF owes, keeps
  <2>7. ~disturbed' => OwedAt(events, billing'.failed, at'.failed)
    BY <2>3, <2>5, <2>6
  <2> QED
    BY <2>1, <2>2, <2>3, <2>7
<1>9. ASSUME NEW h \in Deliveries, WritePlan(h) PROVE FieldsInv'
  <2>1. /\ hpc[h] = "plan" /\ hpc'[h] # "write" /\ UNCHANGED <<billing, on, read, events, subs>>
        /\ \A g \in Deliveries \ {h} : hpc'[g] = hpc[g]
        /\ Wrote("plan", on[h])
        /\ overridden' \/ plan' = IF events[on[h]].kind = "deleted" THEN Trial ELSE events[on[h]].plan
    BY <1>9, PlanTaken DEF WritePlan, HookAt
  <2>2. on[h] \in DOMAIN events /\ on[h] \in Nat /\ on[h] <= Len(events)
    BY <2>1, Growing DEF NamesInv, Grown
  <2>3. /\ at'.plan \in {at.plan, on[h]} /\ at'.status = at.status /\ at'.failed = at.failed
        /\ ~disturbed' => ~disturbed /\ at'.plan = on[h]
    BY <2>1, <2>2, WroteField
  <2>4. ASSUME ~overridden' PROVE PlanAt(events, plan', on[h])
    <3>1. on[h] \in Grantings(events) /\ PlanTold(events)[on[h]] = plan'
      BY <2>1, <2>2, <2>4 DEF Grantings, PlanTold, DeliveryInv
    <3> QED
      BY <2>2, <3>1, ShownAt DEF PlanAt
  <2> QED
    BY <2>1, <2>2, <2>3, <2>4
<1>10. ASSUME NEW h \in Deliveries, Acknowledge(h) PROVE FieldsInv'
  BY <1>10 DEF Acknowledge, HookAt, HookEnds
<1>11. ASSUME NEW h \in Deliveries, FailEvent(h) PROVE FieldsInv'
  BY <1>11 DEF FailEvent, HookAt, HookEnds, Fault, Handling
<1>12. ASSUME NEW h \in Deliveries, DieHandling(h) PROVE FieldsInv'
  BY <1>12 DEF DieHandling, HookAt, HookEnds, Fault, Handling
<1>13. ASSUME NEW c \in Callers, Subscribe(c) PROVE FieldsInv'
  BY <1>13 DEF Subscribe, CallAt, Begin
<1>14. ASSUME NEW c \in Callers, AskStripe(c) PROVE FieldsInv'
  BY <1>14 DEF AskStripe, CallAt
<1>15. ASSUME NEW c \in Callers, SaveAnswer(c) PROVE FieldsInv'
  <2>1. /\ cpc[c] = "save" /\ UNCHANGED <<plan, overridden, events, subs, hookVars>>
        /\ Wrote("status", answer[c].version)
        /\ billing'.status = answer[c].status /\ billing'.failed = billing.failed
    BY <1>15 DEF SaveAnswer
  <2>2. /\ answer[c].version \in Nat /\ answer[c].version <= Len(events)
        /\ Len(subs) <= 1 => StatusAt(events, answer[c].status, answer[c].version)
    BY <2>1 DEF Answer, AnswersInv, AnswersTrue, TrueAnswer
  <2>3. /\ at'.status \in {at.status, answer[c].version}
        /\ at'.plan = at.plan /\ at'.failed = at.failed
        /\ ~disturbed' => ~disturbed /\ at'.status = answer[c].version
    BY <2>1, <2>2, WroteField
  <2> QED
    BY <2>1, <2>2, <2>3
<1>16. ASSUME NEW c \in Callers, SavePlan(c) PROVE FieldsInv'
  <2>1. /\ cpc[c] = "plan" /\ UNCHANGED <<billing, events, subs, hookVars>>
        /\ Wrote("plan", answer[c].version) /\ plan' = PlanOf[want[c]]
    BY <1>16 DEF SavePlan
  <2>2. /\ answer[c].version \in Nat /\ answer[c].version <= Len(events)
        /\ Len(subs) <= 1 => PlanAt(events, PlanOf[want[c]], answer[c].version)
    BY <2>1 DEF Answer, AnswersInv, AnswersTrue, TrueAnswer, PlanInv
  <2>3. /\ at'.plan \in {at.plan, answer[c].version}
        /\ at'.status = at.status /\ at'.failed = at.failed
        /\ ~disturbed' => ~disturbed /\ at'.plan = answer[c].version
    BY <2>1, <2>2, WroteField
  <2> QED
    BY <2>1, <2>2, <2>3
<1>17. ASSUME NEW c \in Callers, BeginCancel(c) PROVE FieldsInv'
  BY <1>17 DEF BeginCancel, CallAt, Begin
<1>18. ASSUME NEW c \in Callers, CancelAtPeriodEnd(c) PROVE FieldsInv'
  BY <1>18 DEF CancelAtPeriodEnd, CallAt
<1>19. ASSUME NEW c \in Callers, SaveStatus(c) PROVE FieldsInv'
  <2>1. /\ cpc[c] = "saveStatus" /\ UNCHANGED <<plan, overridden, events, subs, hookVars>>
        /\ Wrote("status", answer[c].version)
        /\ billing'.status = answer[c].status /\ billing'.failed = billing.failed
    BY <1>19 DEF SaveStatus
  <2>2. /\ answer[c].version \in Nat /\ answer[c].version <= Len(events)
        /\ Len(subs) <= 1 => StatusAt(events, answer[c].status, answer[c].version)
    BY <2>1 DEF Answer, AnswersInv, AnswersTrue
  <2>3. /\ at'.status \in {at.status, answer[c].version}
        /\ at'.plan = at.plan /\ at'.failed = at.failed
        /\ ~disturbed' => ~disturbed /\ at'.status = answer[c].version
    BY <2>1, <2>2, WroteField
  <2> QED
    BY <2>1, <2>2, <2>3
<1>20. ASSUME NEW c \in Callers, Refused(c) PROVE FieldsInv'
  BY <1>20 DEF Refused, CallEnds, CallAt
<1>21. ASSUME NEW c \in Callers, CallFails(c) PROVE FieldsInv'
  BY <1>21 DEF CallFails, CallEnds, CallAt, Fault
<1>22. ASSUME UNCHANGED vars PROVE FieldsInv'
  BY <1>22 DEF vars
<1>23. ASSUME SetPlan PROVE FieldsInv'
  BY <1>23 DEF SetPlan
<1> QED
  BY <1>1, <1>2, <1>3, <1>4, <1>5, <1>6, <1>7, <1>8, <1>9, <1>10, <1>11, <1>12, <1>13,
     <1>14, <1>15, <1>16, <1>17, <1>18, <1>19, <1>20, <1>21, <1>22, <1>23
     DEF Next, Hook, Call

---------------------------------------------------------------------------
(* What the handling of an event has written. *)

\* No field goes back to an older version, and a row keeps having a subscription.
FieldsGrown ==
    /\ at'.status >= at.status /\ at'.plan >= at.plan /\ at'.failed >= at.failed
    /\ billing.sub # 0 => billing'.sub # 0

LEMMA FieldsGrow ==
    ASSUME TypeOK, NamesInv, [Next]_vars
    PROVE  FieldsGrown
<1> USE DEF TypeOK, RowTypeOK, HookTypeOK, CallTypeOK, FieldsGrown, stripeVars, rowVars, hookVars,
            callVars
<1>1. ASSUME NEW s \in DOMAIN subs, StatusChanges(s) PROVE FieldsGrown
  BY <1>1 DEF StatusChanges
<1>2. ASSUME NEW s \in DOMAIN subs, InvoiceSettles(s) PROVE FieldsGrown
  BY <1>2 DEF InvoiceSettles
<1>3. ASSUME NEW h \in Deliveries, Deliver(h) PROVE FieldsGrown
  BY <1>3 DEF Deliver, HookAt
<1>4. ASSUME NEW h \in Deliveries, RecordEvent(h) PROVE FieldsGrown
  BY <1>4 DEF RecordEvent, HookAt
<1>5. ASSUME NEW h \in Deliveries, AnswerDuplicate(h) PROVE FieldsGrown
  BY <1>5 DEF AnswerDuplicate, HookAt, HookEnds
<1>6. ASSUME NEW h \in Deliveries, FindBilling(h) PROVE FieldsGrown
  BY <1>6 DEF FindBilling, HookAt
<1>7. ASSUME NEW h \in Deliveries, WriteSubscription(h) PROVE FieldsGrown
  <2>1. Wrote("status", on[h]) /\ on[h] \in Nat
    BY <1>7, Growing DEF WriteSubscription, NamesInv, Grown, Answer
  <2>2. at'.status >= at.status /\ at'.plan >= at.plan /\ at'.failed >= at.failed
    BY <2>1, WroteField
  <2>3. billing.sub # 0 => billing'.sub # 0
    BY <1>7 DEF WriteSubscription, NamesInv, EventsInv
  <2> QED
    BY <2>2, <2>3
<1>8. ASSUME NEW h \in Deliveries, WritePayment(h) PROVE FieldsGrown
  BY <1>8 DEF WritePayment, HookAt, Later
<1>9. ASSUME NEW h \in Deliveries, WritePlan(h) PROVE FieldsGrown
  <2>1. Wrote("plan", on[h]) /\ on[h] \in Nat
    BY <1>9, Growing DEF WritePlan, NamesInv, Grown, Answer
  <2>2. at'.status >= at.status /\ at'.plan >= at.plan /\ at'.failed >= at.failed
    BY <2>1, WroteField
  <2>3. billing.sub # 0 => billing'.sub # 0
    BY <1>9 DEF WritePlan, NamesInv
  <2> QED
    BY <2>2, <2>3
<1>10. ASSUME NEW h \in Deliveries, Acknowledge(h) PROVE FieldsGrown
  BY <1>10 DEF Acknowledge, HookAt, HookEnds
<1>11. ASSUME NEW h \in Deliveries, FailEvent(h) PROVE FieldsGrown
  BY <1>11 DEF FailEvent, HookAt, HookEnds, Fault, Handling
<1>12. ASSUME NEW h \in Deliveries, DieHandling(h) PROVE FieldsGrown
  BY <1>12 DEF DieHandling, HookAt, HookEnds, Fault, Handling
<1>13. ASSUME NEW c \in Callers, Subscribe(c) PROVE FieldsGrown
  BY <1>13 DEF Subscribe, CallAt, Begin
<1>14. ASSUME NEW c \in Callers, AskStripe(c) PROVE FieldsGrown
  BY <1>14 DEF AskStripe, CallAt
<1>15. ASSUME NEW c \in Callers, SaveAnswer(c) PROVE FieldsGrown
  <2>1. Wrote("status", answer[c].version) /\ answer[c].version \in Nat
    BY <1>15 DEF SaveAnswer, NamesInv, Grown, Answer
  <2>2. at'.status >= at.status /\ at'.plan >= at.plan /\ at'.failed >= at.failed
    BY <2>1, WroteField
  <2>3. billing.sub # 0 => billing'.sub # 0
    BY <1>15 DEF SaveAnswer, NamesInv
  <2> QED
    BY <2>2, <2>3
<1>16. ASSUME NEW c \in Callers, SavePlan(c) PROVE FieldsGrown
  <2>1. Wrote("plan", answer[c].version) /\ answer[c].version \in Nat
    BY <1>16 DEF SavePlan, NamesInv, Grown, Answer
  <2>2. at'.status >= at.status /\ at'.plan >= at.plan /\ at'.failed >= at.failed
    BY <2>1, WroteField
  <2>3. billing.sub # 0 => billing'.sub # 0
    BY <1>16 DEF SavePlan, NamesInv
  <2> QED
    BY <2>2, <2>3
<1>17. ASSUME NEW c \in Callers, BeginCancel(c) PROVE FieldsGrown
  BY <1>17 DEF BeginCancel, CallAt, Begin
<1>18. ASSUME NEW c \in Callers, CancelAtPeriodEnd(c) PROVE FieldsGrown
  BY <1>18 DEF CancelAtPeriodEnd, CallAt
<1>19. ASSUME NEW c \in Callers, SaveStatus(c) PROVE FieldsGrown
  <2>1. Wrote("status", answer[c].version) /\ answer[c].version \in Nat
    BY <1>19 DEF SaveStatus, NamesInv, Grown, Answer
  <2>2. at'.status >= at.status /\ at'.plan >= at.plan /\ at'.failed >= at.failed
    BY <2>1, WroteField
  <2>3. billing.sub # 0 => billing'.sub # 0
    BY <1>19 DEF SaveStatus, NamesInv
  <2> QED
    BY <2>2, <2>3
<1>20. ASSUME NEW c \in Callers, Refused(c) PROVE FieldsGrown
  BY <1>20 DEF Refused, CallEnds, CallAt
<1>21. ASSUME NEW c \in Callers, CallFails(c) PROVE FieldsGrown
  BY <1>21 DEF CallFails, CallEnds, CallAt, Fault
<1>22. ASSUME UNCHANGED vars PROVE FieldsGrown
  BY <1>22 DEF vars
<1>23. ASSUME SetPlan PROVE FieldsGrown
  BY <1>23 DEF SetPlan
<1> QED
  BY <1>1, <1>2, <1>3, <1>4, <1>5, <1>6, <1>7, <1>8, <1>9, <1>10, <1>11, <1>12, <1>13,
     <1>14, <1>15, <1>16, <1>17, <1>18, <1>19, <1>20, <1>21, <1>22, <1>23
     DEF Next, Hook, Call

LEMMA WrittenKept ==
    ASSUME TypeOK, Grown, FieldsGrown, RowTypeOK', NEW e
    PROVE  /\ StatusWritten(events, billing, at, e) => StatusWritten(events', billing', at', e)
           /\ AllWritten(events, billing, at, e) => AllWritten(events', billing', at', e)
<1>1. ASSUME e \in DOMAIN events
      PROVE  /\ e \in DOMAIN events' /\ events'[e] = events[e] /\ e \in Nat
             /\ e \in Reports(events') <=> e \in Reports(events)
             /\ e \in Grantings(events') <=> e \in Grantings(events)
             /\ e \in Invoices(events') <=> e \in Invoices(events)
  BY <1>1 DEF Grown, Reports, Grantings, Invoices
<1>2. /\ at \in [status : Nat, plan : Nat, failed : Nat]
      /\ at' \in [status : Nat, plan : Nat, failed : Nat]
  BY DEF TypeOK, RowTypeOK
<1>3. StatusWritten(events, billing, at, e) => StatusWritten(events', billing', at', e)
  BY <1>1, <1>2 DEF StatusWritten, FieldsGrown
<1>4. AllWritten(events, billing, at, e) => AllWritten(events', billing', at', e)
  BY <1>1, <1>2, <1>3 DEF AllWritten, StatusWritten, FieldsGrown
<1> QED
  BY <1>3, <1>4

LEMMA WrittenStep ==
    ASSUME TypeOK, TypeOK', NamesInv, DeliveryInv, WrittenInv, [Next]_vars
    PROVE  WrittenInv'
<1> USE DEF TypeOK, HookTypeOK, WrittenInv, HookSteps, stripeVars, rowVars, hookVars, callVars
<1>0. /\ \A h \in Deliveries : hpc[h] = "plan" => StatusWritten(events', billing', at', on[h])
      /\ \A h \in Deliveries : hpc[h] = "done" => AllWritten(events', billing', at', on[h])
      /\ \A e \in applied : AllWritten(events', billing', at', e)
  BY Growing, FieldsGrow, WrittenKept
<1>1. ASSUME NEW s \in DOMAIN subs, StatusChanges(s) PROVE WrittenInv'
  <2>1. UNCHANGED <<hpc, on, applied>>
    BY <1>1 DEF StatusChanges
  <2> QED
    BY <2>1, <1>0
<1>2. ASSUME NEW s \in DOMAIN subs, InvoiceSettles(s) PROVE WrittenInv'
  <2>1. UNCHANGED <<hpc, on, applied>>
    BY <1>2 DEF InvoiceSettles
  <2> QED
    BY <2>1, <1>0
<1>3. ASSUME NEW h \in Deliveries, Deliver(h) PROVE WrittenInv'
  BY <1>3, <1>0 DEF Deliver, HookAt
<1>4. ASSUME NEW h \in Deliveries, RecordEvent(h) PROVE WrittenInv'
  BY <1>4, <1>0 DEF RecordEvent, HookAt
<1>5. ASSUME NEW h \in Deliveries, AnswerDuplicate(h) PROVE WrittenInv'
  BY <1>5, <1>0 DEF AnswerDuplicate, HookAt, HookEnds
<1>6. ASSUME NEW h \in Deliveries, FindBilling(h) PROVE WrittenInv'
  BY <1>6, <1>0 DEF FindBilling, HookAt
<1>7. ASSUME NEW h \in Deliveries, WriteSubscription(h) PROVE WrittenInv'
  <2>1. /\ hpc[h] = "write" /\ UNCHANGED <<on, applied, events>>
        /\ \A g \in Deliveries \ {h} : hpc'[g] = hpc[g]
        /\ events[on[h]].kind \in {"updated", "deleted"} /\ Wrote("status", on[h])
        /\ hpc'[h] = IF events[on[h]].kind = "deleted" \/ Grants(events[on[h]].status)
                     THEN "plan" ELSE "done"
        /\ events[on[h]].kind = "updated" => billing'.sub = events[on[h]].sub
    BY <1>7 DEF WriteSubscription, HookAt, RowTypeOK
  <2>2. /\ on[h] \in DOMAIN events /\ on[h] \in Nat
        /\ events[on[h]].kind = "updated" => billing'.sub # 0
    BY <2>1, Growing DEF NamesInv, EventsInv, Grown
  <2>3. StatusWritten(events', billing', at', on[h])
    BY <2>1, <2>2, WroteField DEF StatusWritten
  <2>4. hpc'[h] = "done" => AllWritten(events', billing', at', on[h])
    BY <2>1, <2>3 DEF AllWritten, Grantings, Invoices
  <2> QED
    BY <2>1, <2>3, <2>4, <1>0
<1>8. ASSUME NEW h \in Deliveries, WritePayment(h) PROVE WrittenInv'
  <2>1. /\ hpc[h] = "write" /\ hpc'[h] = "done" /\ UNCHANGED <<on, applied, events>>
        /\ \A g \in Deliveries \ {h} : hpc'[g] = hpc[g]
        /\ events[on[h]].kind \in {"paid", "failed"} /\ at'.failed = Later(at.failed, on[h])
    BY <1>8 DEF WritePayment, HookAt, RowTypeOK
  <2>2. on[h] \in DOMAIN events /\ at'.failed >= on[h]
    BY <2>1, Growing DEF NamesInv, Grown, Later, RowTypeOK
  <2>3. AllWritten(events', billing', at', on[h])
    BY <2>1, <2>2 DEF AllWritten, StatusWritten, Reports, Grantings
  <2> QED
    BY <2>1, <2>3, <1>0
<1>9. ASSUME NEW h \in Deliveries, WritePlan(h) PROVE WrittenInv'
  <2>1. /\ hpc[h] = "plan" /\ hpc'[h] = "done" /\ UNCHANGED <<on, applied, events>>
        /\ \A g \in Deliveries \ {h} : hpc'[g] = hpc[g]
        /\ Wrote("plan", on[h])
    BY <1>9 DEF WritePlan, HookAt
  <2>2. on[h] \in Nat /\ events[on[h]].kind \in {"updated", "deleted"}
    BY <2>1, Growing DEF NamesInv, DeliveryInv, Grown
  <2>3. at'.plan >= on[h]
    BY <2>1, <2>2, WroteField
  <2>4. StatusWritten(events', billing', at', on[h])
    BY <2>1, <1>0
  <2>5. AllWritten(events', billing', at', on[h])
    BY <2>1, <2>2, <2>3, <2>4 DEF AllWritten, Invoices
  <2> QED
    BY <2>1, <2>5, <1>0
<1>10. ASSUME NEW h \in Deliveries, Acknowledge(h) PROVE WrittenInv'
  BY <1>10, <1>0 DEF Acknowledge, HookAt, HookEnds
<1>11. ASSUME NEW h \in Deliveries, FailEvent(h) PROVE WrittenInv'
  BY <1>11, <1>0 DEF FailEvent, HookAt, HookEnds, Fault, Handling
<1>12. ASSUME NEW h \in Deliveries, DieHandling(h) PROVE WrittenInv'
  BY <1>12, <1>0 DEF DieHandling, HookAt, HookEnds, Fault, Handling
<1>13. ASSUME NEW c \in Callers, Subscribe(c) PROVE WrittenInv'
  BY <1>13, <1>0 DEF Subscribe, CallAt, Begin
<1>14. ASSUME NEW c \in Callers, AskStripe(c) PROVE WrittenInv'
  <2>1. UNCHANGED <<hpc, on, applied>>
    BY <1>14 DEF AskStripe
  <2> QED
    BY <2>1, <1>0
<1>15. ASSUME NEW c \in Callers, SaveAnswer(c) PROVE WrittenInv'
  <2>1. UNCHANGED <<hpc, on, applied>>
    BY <1>15 DEF SaveAnswer
  <2> QED
    BY <2>1, <1>0
<1>16. ASSUME NEW c \in Callers, SavePlan(c) PROVE WrittenInv'
  <2>1. UNCHANGED <<hpc, on, applied>>
    BY <1>16 DEF SavePlan
  <2> QED
    BY <2>1, <1>0
<1>17. ASSUME NEW c \in Callers, BeginCancel(c) PROVE WrittenInv'
  BY <1>17, <1>0 DEF BeginCancel, CallAt, Begin
<1>18. ASSUME NEW c \in Callers, CancelAtPeriodEnd(c) PROVE WrittenInv'
  <2>1. UNCHANGED <<hpc, on, applied>>
    BY <1>18 DEF CancelAtPeriodEnd
  <2> QED
    BY <2>1, <1>0
<1>19. ASSUME NEW c \in Callers, SaveStatus(c) PROVE WrittenInv'
  <2>1. UNCHANGED <<hpc, on, applied>>
    BY <1>19 DEF SaveStatus
  <2> QED
    BY <2>1, <1>0
<1>20. ASSUME NEW c \in Callers, Refused(c) PROVE WrittenInv'
  BY <1>20, <1>0 DEF Refused, CallEnds, CallAt
<1>21. ASSUME NEW c \in Callers, CallFails(c) PROVE WrittenInv'
  BY <1>21, <1>0 DEF CallFails, CallEnds, CallAt, Fault
<1>22. ASSUME UNCHANGED vars PROVE WrittenInv'
  BY <1>22, <1>0 DEF vars
<1>23. ASSUME SetPlan PROVE WrittenInv'
  BY <1>23, <1>0 DEF SetPlan
<1> QED
  BY <1>1, <1>2, <1>3, <1>4, <1>5, <1>6, <1>7, <1>8, <1>9, <1>10, <1>11, <1>12, <1>13,
     <1>14, <1>15, <1>16, <1>17, <1>18, <1>19, <1>20, <1>21, <1>22, <1>23
     DEF Next, Hook, Call

---------------------------------------------------------------------------
(* The inductive invariant. *)

LEMMA BillingInit == Init => BillingInv
<1> SUFFICES ASSUME Init PROVE BillingInv
  OBVIOUS
<1> USE DEF Init
<1>1. TypeOK
  <2>1. NoAnswer \in Answer /\ NotRead \in [failed : BOOLEAN, version : Nat] /\ NoEvent \in Nat
    BY DEF NoAnswer, Answer, NotRead, NoEvent
  <2>2. subs \in Seq(Subscription) /\ events \in Seq(Event)
    OBVIOUS
  <2>3. StripeTypeOK
    BY <2>1, <2>2 DEF StripeTypeOK
  <2>4. RowTypeOK
    BY DEF RowTypeOK, Statuses, Trial, Enterprise
  <2>5. HookTypeOK
    BY <2>1 DEF HookTypeOK, HookSteps
  <2>6. CallTypeOK
    BY <2>1 DEF CallTypeOK, CallSteps
  <2> QED
    BY <2>3, <2>4, <2>5, <2>6 DEF TypeOK
<1>2. NamesInv
  BY DEF NamesInv, EventsInv
<1>3. DeliveryInv
  BY DEF DeliveryInv, Handling
<1>4. PlanInv
  BY DEF PlanInv
<1>5. KeyInv
  <2>1. Keyed = {}
    BY DEF Keyed
  <2> QED
    BY <2>1, FS_EmptySet DEF KeyInv
<1>6. StripeInv
  BY DEF StripeInv, PlanAt, OwedAt, Shown, Grantings, Invoices
<1>7. AnswersInv
  BY DEF AnswersInv, AnswersTrue
<1>8. FieldsInv
  BY DEF FieldsInv, FieldsTrue, StatusAt, PlanAt, OwedAt, Shown, Reports, Grantings, Invoices
<1>9. WrittenInv
  BY DEF WrittenInv
<1> QED
  BY <1>1, <1>2, <1>3, <1>4, <1>5, <1>6, <1>7, <1>8, <1>9 DEF BillingInv

LEMMA BillingStep == BillingInv /\ [Next]_vars => BillingInv'
<1> SUFFICES ASSUME BillingInv, [Next]_vars PROVE BillingInv'
  OBVIOUS
<1>1. /\ TypeOK /\ NamesInv /\ DeliveryInv /\ PlanInv /\ KeyInv
      /\ StripeInv /\ AnswersInv /\ FieldsInv /\ WrittenInv
  BY DEF BillingInv
<1>2. TypeOK'
  BY <1>1, TypeStep
<1>3. StripeInv'
  BY <1>1, StripeStep
<1>4. NamesInv' /\ DeliveryInv' /\ PlanInv' /\ KeyInv'
  BY <1>1, NamesStep, DeliveryStep, PlanStep, KeyStep
<1>5. AnswersInv'
  BY <1>1, <1>3, AnswersStep
<1>6. FieldsInv'
  BY <1>1, FieldsStep
<1>7. WrittenInv'
  BY <1>1, <1>2, WrittenStep
<1> QED
  BY <1>2, <1>3, <1>4, <1>5, <1>6, <1>7 DEF BillingInv

LEMMA BillingAlways == Spec => []BillingInv
BY BillingInit, BillingStep, PTL DEF Spec

---------------------------------------------------------------------------
(* The properties the runs check. *)

\* No event is acknowledged and dropped, and none is handled twice at once, unless a
\* handler died or could not forget it (route.ts:84).
THEOREM DeliveriesHold == Spec => []DeliveriesAreSound
<1>1. BillingInv => DeliveriesAreSound
  BY DEF BillingInv, DeliveryInv, Accounted, DeliveriesAreSound
<1> QED
  BY <1>1, BillingAlways, PTL

\* Nobody is on a plan that was not reported as paid for or set by the operator, and requests for one price make one
\* subscription, because Stripe keeps its answer under the key the route sends.
THEOREM ChargesHold == Spec => []ChargesAreSound
<1>1. ASSUME BillingInv PROVE ChargesAreSound
  <2>1. NamesInv /\ PlanInv /\ KeyInv
    BY <1>1 DEF BillingInv
  <2>2. Keyed \subseteq wanted /\ IsFiniteSet(wanted)
    BY <2>1 DEF NamesInv, KeyInv, Keyed
  <2>3. Cardinality(Keyed) <= Cardinality(wanted) /\ Cardinality(wanted) \in Nat
        /\ Cardinality(Keyed) \in Nat
    BY <2>2, FS_Subset, FS_CardinalityType
  <2>4. Cardinality(wanted) <= 1 => Len(subs) <= 1
    BY <2>1, <2>3 DEF KeyInv
  <2>5. plan = Trial \/ overridden \/ PaidFor(events, plan)
    BY <2>1 DEF PlanInv
  <2> QED
    BY <2>4, <2>5 DEF ChargesAreSound, PaidFor
<1> QED
  BY <1>1, BillingAlways, PTL

\* Whenever every event so far has been handled, in whatever order and however often, the
\* rows say of the only subscription what Stripe does, unless something older was written
\* over something newer, or the plan is the one the operator set.
THEOREM RowsMirrorStripe == Spec => []QuietRowsMirrorStripe
<1>1. ASSUME BillingInv, applied = DOMAIN events, Len(subs) = 1, ~disturbed
      PROVE  /\ billing = [sub |-> 1, status |-> subs[1].status, failed |-> owed]
             /\ plan = entitled \/ overridden
  <2> DEFINE n == Len(events)
  <2>1. TypeOK /\ NamesInv /\ StripeInv /\ FieldsInv /\ WrittenInv
    BY <1>1 DEF BillingInv
  <2>2. n \in Nat /\ DOMAIN events = 1 .. n
    BY <2>1, LenProperties DEF TypeOK, StripeTypeOK
  <2>3. /\ at.status \in Nat /\ at.plan \in Nat /\ at.failed \in Nat
        /\ at.status <= n /\ at.plan <= n /\ at.failed <= n
    BY <2>1 DEF TypeOK, RowTypeOK, FieldsInv, FieldsTrue
  <2>4. \A e \in 1 .. n : AllWritten(events, billing, at, e)
    BY <1>1, <2>1, <2>2 DEF WrittenInv
  <2>5. /\ \A e \in Reports(events) : e \in Nat /\ e <= n /\ e <= at.status
        /\ \A e \in Grantings(events) : e \in Nat /\ e <= n /\ e <= at.plan
        /\ \A e \in Invoices(events) : e \in Nat /\ e <= n /\ e <= at.failed
    BY <2>2, <2>3, <2>4 DEF AllWritten, StatusWritten, Reports, Grantings, Invoices
  <2>6. billing.sub = 1
    <3>1. n # 0 /\ events[1].kind = "updated"
      BY <1>1, <2>1 DEF NamesInv, EventsInv
    <3>2. 1 \in 1 .. n
      BY <2>2, <3>1
    <3>3. billing.sub # 0
      BY <2>4, <3>1, <3>2 DEF AllWritten, StatusWritten
    <3>4. billing.sub \in Nat /\ billing.sub <= 1
      BY <1>1, <2>1 DEF TypeOK, RowTypeOK, NamesInv
    <3> QED
      BY <3>3, <3>4
  <2>7. billing.status = subs[1].status
    <3>1. StatusAt(events, billing.status, at.status) /\ StatusAt(events, subs[1].status, n)
      BY <1>1, <2>1 DEF FieldsInv, FieldsTrue, StripeInv
    <3> HIDE DEF n
    <3> QED
      BY <2>2, <2>3, <2>5, <3>1, ShownUnique DEF StatusAt
  <2>8. ASSUME ~overridden PROVE plan = entitled
    <3>1. PlanAt(events, plan, at.plan) /\ PlanAt(events, entitled, n)
      BY <1>1, <2>1, <2>8 DEF FieldsInv, FieldsTrue, StripeInv
    <3> HIDE DEF n
    <3> QED
      BY <2>2, <2>3, <2>5, <3>1, ShownUnique DEF PlanAt
  <2>9. billing.failed = owed
    <3>1. OwedAt(events, billing.failed, at.failed) /\ OwedAt(events, owed, n)
      BY <1>1, <2>1 DEF FieldsInv, FieldsTrue, StripeInv
    <3> HIDE DEF n
    <3> QED
      BY <2>2, <2>3, <2>5, <3>1, ShownUnique DEF OwedAt
  <2>10. billing = [sub |-> billing.sub, status |-> billing.status, failed |-> billing.failed]
    BY <2>1 DEF TypeOK, RowTypeOK
  <2> QED
    BY <2>6, <2>7, <2>8, <2>9, <2>10
<1> QED
  BY <1>1, BillingAlways, PTL DEF QuietRowsMirrorStripe
=============================================================================
