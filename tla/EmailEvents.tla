----------------------------- MODULE EmailEvents -----------------------------
(***************************************************************************)
(* What the relay reports about the mail we handed it, and what becomes of *)
(* it: the webhook that delivers a report, the EmailEvent row it leaves    *)
(* for each recipient, and the suppression of addresses that do not take   *)
(* our mail (backend/app/services/email/zeptomailEvent.ts, suppression.ts, *)
(* controllers/webhooks/zeptomailController.ts).                           *)
(*                                                                         *)
(* The relay delivers a report until it is answered with a 200, and may    *)
(* deliver it more than once at a time.  A report carries the relay's      *)
(* request id, which is what a webhook is here.                            *)
(***************************************************************************)
EXTENDS Naturals, FiniteSets

CONSTANTS
    Addresses,  \* the addresses we write to
    Webhooks,   \* the reports the relay may send, by request id
    Handlers,   \* deliveries in progress at the same time
    Names,      \* the events they may report
    SoftLimit,  \* SOFT_BOUNCE_THRESHOLD
    MaxFaults,  \* bound: calls and processes that fail
    MaxLifts,   \* bound: addresses an operator forgives
    NoHook, NoAddress

Events == {"hard_bounce", "complaint", "soft_bounce", "open"}
SUPPRESSION_CAUSES == {"hard_bounce", "complaint", "repeated_soft_bounce"}

ASSUME EventsAssumption ==
    /\ IsFiniteSet(Webhooks) /\ Names \subseteq Events
    /\ SoftLimit \in Nat \ {0} /\ MaxFaults \in Nat /\ MaxLifts \in Nat
    /\ NoHook \notin Webhooks /\ NoAddress \notin Addresses

VARIABLES
    report,    \* what each webhook says, "none" as its event before it is sent
    answered,  \* the webhooks a delivery of which was answered with a 200
    rows,      \* the EmailEvent table: one row for a request id and address
    aged,      \* the rows that are older than the window of soft bounces
    supp,      \* the EmailSuppression table: the cause, or "none"
    verified,  \* User.is_verified of the account with the address
    counted,   \* how often the metric counted the event of a row
    pc,        \* the next step of each delivery
    hook,      \* the webhook it delivers
    todo,      \* the recipients it has not dealt with
    at,        \* the recipient it is dealing with
    lifts, faults

tables   == <<rows, aged, supp, verified>>
delivery == <<pc, hook, todo, at>>
evars    == <<report, answered, tables, counted, delivery, lifts, faults>>

Keys == Webhooks \X Addresses
Steps == {"idle", "next", "save", "count", "find", "insert", "again", "badge"}

EventsTypeOK ==
    /\ report \in [Webhooks -> [event : Events \cup {"none"},
                                to : SUBSET Addresses]]
    /\ answered \subseteq Webhooks
    /\ rows \subseteq Keys /\ aged \subseteq rows
    /\ supp \in [Addresses -> SUPPRESSION_CAUSES \cup {"none"}]
    /\ verified \in [Addresses -> BOOLEAN]
    /\ counted \in [Keys -> Nat]
    /\ pc \in [Handlers -> Steps]
    /\ hook \in [Handlers -> Webhooks \cup {NoHook}]
    /\ todo \in [Handlers -> SUBSET Addresses]
    /\ at \in [Handlers -> Addresses \cup {NoAddress}]
    /\ lifts \in 0 .. MaxLifts /\ faults \in 0 .. MaxFaults

EventsInit ==
    /\ report = [w \in Webhooks |-> [event |-> "none", to |-> {}]]
    /\ answered = {} /\ rows = {} /\ aged = {}
    /\ supp = [a \in Addresses |-> "none"]
    /\ verified = [a \in Addresses |-> TRUE]
    /\ counted = [x \in Keys |-> 0]
    /\ pc = [h \in Handlers |-> "idle"]
    /\ hook = [h \in Handlers |-> NoHook]
    /\ todo = [h \in Handlers |-> {}]
    /\ at = [h \in Handlers |-> NoAddress]
    /\ lifts = 0 /\ faults = 0

-----------------------------------------------------------------------------
\* Helpers.

Event(w) == report[w].event
Key(h) == <<hook[h], at[h]>>
Does(h, step) == pc[h] = step
Go(h, step) == pc' = [pc EXCEPT ![h] = step]

Fault == faults < MaxFaults /\ faults' = faults + 1

\* The recipient is dealt with; the loop goes on to the next one.
NextRecipient(h, a) ==
    /\ Go(h, "next")
    /\ todo' = [todo EXCEPT ![h] = @ \ {a}]
    /\ at' = [at EXCEPT ![h] = NoAddress]
    /\ UNCHANGED hook

\* The delivery is over, whatever it still had to do.
Leave(h) ==
    /\ Go(h, "idle")
    /\ hook' = [hook EXCEPT ![h] = NoHook]
    /\ todo' = [todo EXCEPT ![h] = {}]
    /\ at' = [at EXCEPT ![h] = NoAddress]

isSuppressed(a) == supp[a] # "none"

SoftRows(a) == {w \in Webhooks : <<w, a>> \in rows /\ Event(w) = "soft_bounce"}

\* The threshold taken for a maximum (a mutant).
softBouncedAlready(a) ==
    Cardinality({w \in SoftRows(a) : <<w, a>> \notin aged}) + 1

\* The threshold has to be exceeded (a mutant).
softBouncedBefore(a) ==
    Cardinality({w \in SoftRows(a) : <<w, a>> \notin aged}) - 1

\* softBouncedTooOften: the soft bounces of the address within the window.
softBouncedTooOften(a) == Cardinality({w \in SoftRows(a) : <<w, a>> \notin aged})

\* What an event means for the address.
Cause(e) == IF e = "soft_bounce" THEN "repeated_soft_bounce" ELSE e

\* A complaint is only written down (a mutant).
applyBounces(e) ==
    CASE e = "hard_bounce" -> "find"
      [] e = "soft_bounce" -> "count"
      [] OTHER -> "next"

\* applyEvent: where it goes on for an event; most mean nothing.
applyEvent(e) ==
    CASE e \in {"hard_bounce", "complaint"} -> "find"
      [] e = "soft_bounce" -> "count"
      [] OTHER -> "next"

-----------------------------------------------------------------------------
\* The relay and the passing of time.

\* The relay has something to say about mail it took for some of our addresses.
Report(w) ==
    /\ Event(w) = "none"
    /\ \E e \in Names, to \in SUBSET Addresses \ {{}} :
         report' = [report EXCEPT ![w] = [event |-> e, to |-> to]]
    /\ UNCHANGED <<answered, tables, counted, delivery, lifts, faults>>

\* It delivers the report: for the first time, because no delivery was
\* answered yet, or once more although one was.
Deliver(h, w) ==
    /\ Does(h, "idle") /\ Event(w) # "none"
    /\ Go(h, "next")
    /\ hook' = [hook EXCEPT ![h] = w]
    /\ todo' = [todo EXCEPT ![h] = report[w].to]
    /\ UNCHANGED <<report, answered, tables, counted, at, lifts, faults>>

\* A soft bounce leaves the window.
Age ==
    /\ \E x \in rows \ aged :
         Event(x[1]) = "soft_bounce" /\ aged' = aged \cup {x}
    /\ UNCHANGED <<report, answered, rows, supp, verified, counted, delivery,
                   lifts, faults>>

-----------------------------------------------------------------------------
\* recordZeptomailPayload, for each recipient in turn.

\* recordOne looks for the row an earlier delivery left.
LookForRow(h) ==
    /\ Does(h, "next")
    /\ \E a \in todo[h] :
         IF <<hook[h], a>> \in rows
           THEN NextRecipient(h, a)
           ELSE /\ Go(h, "save")
                /\ at' = [at EXCEPT ![h] = a]
                /\ UNCHANGED <<hook, todo>>
    /\ UNCHANGED <<report, answered, tables, counted, lifts, faults>>

\* The unique index on request id and address lets the row in.
RowIsNew(x) == x \notin rows

\* The row is saved, the event counted, and what it means is up next.
SaveRow(h) ==
    /\ Does(h, "save") /\ RowIsNew(Key(h))
    /\ rows' = rows \cup {Key(h)}
    /\ counted' = [counted EXCEPT ![Key(h)] = @ + 1]
    /\ IF applyEvent(Event(hook[h])) = "next"
         THEN NextRecipient(h, at[h])
         ELSE Go(h, applyEvent(Event(hook[h]))) /\ UNCHANGED <<hook, todo, at>>
    /\ UNCHANGED <<report, answered, aged, supp, verified, lifts, faults>>

\* The index refuses it and the row is found: somebody else's delivery.
SaveIsRefused(h) ==
    /\ Does(h, "save") /\ ~RowIsNew(Key(h))
    /\ NextRecipient(h, at[h])
    /\ UNCHANGED <<report, answered, tables, counted, lifts, faults>>

\* The row is in but the save reports an error: the row that is found is this
\* delivery's own, and it is taken for somebody else's.
SaveIsUnanswered(h) ==
    /\ Does(h, "save") /\ RowIsNew(Key(h)) /\ Fault
    /\ rows' = rows \cup {Key(h)}
    /\ NextRecipient(h, at[h])
    /\ UNCHANGED <<report, answered, aged, supp, verified, counted, lifts>>

\* applyEvent of a soft bounce.
CountSoftBounces(h) ==
    /\ Does(h, "count")
    /\ IF softBouncedTooOften(at[h]) < SoftLimit
         THEN NextRecipient(h, at[h])
         ELSE Go(h, "find") /\ UNCHANGED <<hook, todo, at>>
    /\ UNCHANGED <<report, answered, tables, counted, lifts, faults>>

\* suppress is done: a hard bounce also clears the badge.
AfterSuppress(h) ==
    IF Event(hook[h]) = "hard_bounce"
      THEN Go(h, "badge") /\ UNCHANGED <<hook, todo, at>>
      ELSE NextRecipient(h, at[h])

\* suppress looks for the row of the address.
FindSuppression(h) ==
    /\ Does(h, "find")
    /\ IF isSuppressed(at[h])
         THEN AfterSuppress(h)
         ELSE Go(h, "insert") /\ UNCHANGED <<hook, todo, at>>
    /\ UNCHANGED <<report, answered, tables, counted, lifts, faults>>

\* Its insert, which the unique index on the address refuses if one is there.
InsertSuppression(h) ==
    /\ Does(h, "insert")
    /\ IF isSuppressed(at[h])
         THEN Go(h, "again") /\ UNCHANGED <<supp, hook, todo, at>>
         ELSE /\ supp' = [supp EXCEPT ![at[h]] = Cause(Event(hook[h]))]
              /\ AfterSuppress(h)
    /\ UNCHANGED <<report, answered, rows, aged, verified, counted, lifts, faults>>

\* The row that was in the way is looked up; if it was lifted since, the insert's
\* error is the delivery's.
FindAgain(h) ==
    /\ Does(h, "again")
    /\ IF isSuppressed(at[h]) THEN AfterSuppress(h) ELSE Leave(h)
    /\ UNCHANGED <<report, answered, tables, counted, lifts, faults>>

\* clearEmailVerified.
ClearBadge(h) ==
    /\ Does(h, "badge")
    /\ verified' = [verified EXCEPT ![at[h]] = FALSE]
    /\ NextRecipient(h, at[h])
    /\ UNCHANGED <<report, answered, rows, aged, supp, counted, lifts, faults>>

\* Its failure is logged and forgotten.
ClearBadgeFails(h) ==
    /\ Does(h, "badge") /\ Fault
    /\ NextRecipient(h, at[h])
    /\ UNCHANGED <<report, answered, tables, counted, lifts>>

\* Every recipient is dealt with: 200.
Answer(h) ==
    /\ Does(h, "next") /\ todo[h] = {}
    /\ answered' = answered \cup {hook[h]}
    /\ Leave(h)
    /\ UNCHANGED <<report, tables, counted, lifts, faults>>

\* Any other call fails and the delivery is answered with a 500, or the process
\* ends and it is not answered.
DeliveryFails(h) ==
    /\ ~Does(h, "idle") /\ Fault
    /\ Leave(h)
    /\ UNCHANGED <<report, answered, tables, counted, lifts>>

-----------------------------------------------------------------------------
\* removeSuppression, from the script that forgives an address.
removeSuppression(a) ==
    /\ isSuppressed(a) /\ lifts < MaxLifts
    /\ supp' = [supp EXCEPT ![a] = "none"]
    /\ lifts' = lifts + 1
    /\ UNCHANGED <<report, answered, rows, aged, verified, counted, delivery, faults>>

HandlerStep(h) ==
    \/ LookForRow(h) \/ SaveRow(h) \/ SaveIsRefused(h) \/ CountSoftBounces(h)
    \/ FindSuppression(h) \/ InsertSuppression(h) \/ FindAgain(h)
    \/ ClearBadge(h) \/ Answer(h)

HandlerFault(h) == SaveIsUnanswered(h) \/ ClearBadgeFails(h) \/ DeliveryFails(h)

EventsNext ==
    \/ \E w \in Webhooks : Report(w) \/ \E h \in Handlers : Deliver(h, w)
    \/ \E h \in Handlers : HandlerStep(h) \/ HandlerFault(h)
    \/ Age
    \/ \E a \in Addresses : removeSuppression(a)

\* A delivery in progress goes on.  The relay repeats a report until it is
\* answered, and is taken: strongly, since how many deliveries there may be at a
\* time is a bound of the model and not of the server.
EventsFairness ==
    /\ \A h \in Handlers : WF_evars(HandlerStep(h))
    /\ \A w \in Webhooks :
         SF_evars(w \notin answered /\ \E h \in Handlers : Deliver(h, w))

EventsSpec == EventsInit /\ [][EventsNext]_evars /\ EventsFairness

-----------------------------------------------------------------------------
\* Properties.

\* A report that is delivered twice, one after the other or both at a time, is
\* counted once: the bounce rate is of bounces, not of webhook retries.
CountedOnce == \A x \in Keys : counted[x] <= 1

\* An address is suppressed for what was reported of it: a bounce or a complaint
\* that is on record, or as many soft bounces as it takes, each of them another
\* report.
CauseIsEarned ==
    \A a \in Addresses :
      CASE supp[a] = "none" -> TRUE
        [] supp[a] = "repeated_soft_bounce" -> Cardinality(SoftRows(a)) >= SoftLimit
        [] OTHER -> \E w \in Webhooks : <<w, a>> \in rows /\ Event(w) = supp[a]

\* The first cause stands, however many deliveries suppress the address at once:
\* only an operator takes it away, and nothing rewrites it.
FirstCauseStays ==
    [][\A a \in Addresses : isSuppressed(a) /\ supp'[a] # supp[a] =>
         supp'[a] = "none" /\ lifts' = lifts + 1]_evars

\* Bounces that several deliveries store and count at the same time: when they
\* are done and none failed, a run as long as the limit has not slipped through.
SoftRunIsNoticed ==
    \A a \in Addresses :
      /\ faults = 0 /\ lifts = 0
      /\ \A h \in Handlers : at[h] # a
      /\ Cardinality({w \in SoftRows(a) : <<w, a>> \notin aged}) >= SoftLimit
      => isSuppressed(a)

Verdict(w, a) == Event(w) \in {"hard_bounce", "complaint"} /\ a \in report[w].to

\* A bounce or complaint, delivered however often, ends with the address
\* suppressed, as long as no call fails and nobody lifts it.
VerdictsSuppress ==
    \A w \in Webhooks, a \in Addresses :
      Verdict(w, a) ~> (isSuppressed(a) \/ faults > 0 \/ lifts > 0)

\* What a delivery that finds the row concludes: somebody else stored it and
\* applied what it means, or is about to.
StoredIsApplied ==
    \A w \in Webhooks, a \in Addresses :
      Verdict(w, a) /\ <<w, a>> \in rows /\ lifts = 0
        /\ (\A h \in Handlers : Key(h) # <<w, a>>)
      => isSuppressed(a)
=============================================================================
