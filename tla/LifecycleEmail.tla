--------------------------- MODULE LifecycleEmail ---------------------------
(***************************************************************************)
(* The mail that is sent once in an account's life (backend/app/workers/   *)
(* emailLifecycleWorker.ts, emailQueue.ts, emailWorker.ts, mailers/        *)
(* email.ts): a nightly sweep finds the readers whose night it is, claims  *)
(* the mail with a row of EmailLifecycleSend, queues it, and a worker      *)
(* hands it to the relay.  What the relay has to say about it comes back   *)
(* through EmailEvents, whose suppression both the sweep and the worker    *)
(* look at.                                                                *)
(*                                                                         *)
(* A reader is an address with one account; a night stands for a day.      *)
(***************************************************************************)
EXTENDS EmailEvents, Sequences

CONSTANTS
    Sweepers,    \* runs of the sweep at the same time
    Kinds,       \* the mails, in the order a sweep goes through them
    NightOf,     \* the night of each kind, counted from the one of joining
    RetryLimit,  \* of the queue of mail
    MaxNight     \* bound: the last night

KindSet == {Kinds[i] : i \in 1 .. Len(Kinds)}
Mails == Addresses \X KindSet

ASSUME LifecycleAssumption ==
    /\ Kinds \in Seq(STRING) /\ NightOf \in [KindSet -> Nat]
    /\ RetryLimit \in Nat /\ MaxNight \in Nat

VARIABLES
    wants,       \* acceptsProductEmails, by what is stored now
    active,      \* User.is_active
    live,        \* the addresses lifecycle mail is really sent to
    opened,      \* those it has ever been sent to
    night,       \* nights passed since the accounts were made
    swept,       \* whether tonight's sweep has been started
    claims,      \* the EmailLifecycleSend table
    kind,        \* the kind each sweep is at, by its place in Kinds; 0: none
    batch,       \* the readers of its query it has not dealt with
    queueing,    \* the reader it has claimed for and not yet queued
    job,         \* the job of each mail: none, queued, checked, or how it ended
    tries,       \* its retries
    handed,      \* how often the relay took the mail
    unanswered   \* how often it did so without our knowing

people  == <<wants, active, live, opened>>
sweep   == <<swept, kind, batch, queueing>>
mail    == <<job, tries, handed, unanswered>>
lvars   == <<people, night, claims, sweep, mail>>
vars    == <<evars, lvars>>

Ends == {"sent", "skipped", "failed"}

LifecycleTypeOK ==
    /\ wants \in [Addresses -> BOOLEAN] /\ active \in [Addresses -> BOOLEAN]
    /\ live \subseteq opened /\ opened \subseteq Addresses
    /\ night \in 0 .. MaxNight /\ swept \in BOOLEAN
    /\ claims \subseteq Mails
    /\ kind \in [Sweepers -> 0 .. Len(Kinds)]
    /\ batch \in [Sweepers -> SUBSET Addresses]
    /\ queueing \in [Sweepers -> Addresses \cup {NoAddress}]
    /\ job \in [Mails -> {"none", "queued", "checked"} \cup Ends]
    /\ tries \in [Mails -> 0 .. RetryLimit]
    /\ handed \in [Mails -> Nat] /\ unanswered \in [Mails -> Nat]

TypeOK == EventsTypeOK /\ LifecycleTypeOK

LifecycleInit ==
    /\ wants = [a \in Addresses |-> TRUE]
    /\ active = [a \in Addresses |-> TRUE]
    /\ live \in SUBSET Addresses /\ opened = live
    /\ night = 0 /\ swept \in BOOLEAN
    /\ claims = {}
    /\ kind = [s \in Sweepers |-> 0]
    /\ batch = [s \in Sweepers |-> {}]
    /\ queueing = [s \in Sweepers |-> NoAddress]
    /\ job = [m \in Mails |-> "none"]
    /\ tries = [m \in Mails |-> 0]
    /\ handed = [m \in Mails |-> 0]
    /\ unanswered = [m \in Mails |-> 0]

Init == EventsInit /\ LifecycleInit

-----------------------------------------------------------------------------
\* Helpers.

Quiet == UNCHANGED <<report, answered, tables, counted, delivery, lifts>>
Calm  == Quiet /\ UNCHANGED faults

mayReallySend(a) == a \in live

\* A window without an end: everybody who is old enough (a mutant).
everyoneSince(k) ==
    {a \in Addresses : /\ night >= NightOf[k] /\ active[a]
                       /\ <<a, k>> \notin claims /\ wants[a]}

\* The mail's kind is not part of the question whether it was sent (a mutant).
neverMailed(k) ==
    {a \in Addresses : /\ night = NightOf[k] /\ active[a]
                       /\ a \notin {m[1] : m \in claims} /\ ~isSuppressed(a)
                       /\ wants[a]}

\* candidates: the readers whose night it is for the kind, as the query finds
\* them, less those whose preferences, which come with it, say no.
candidates(k) ==
    {a \in Addresses : /\ night = NightOf[k] /\ active[a]
                       /\ <<a, k>> \notin claims /\ ~isSuppressed(a)
                       /\ wants[a]}

Idle(s) == kind[s] = 0
Current(s) == Kinds[kind[s]]

\* The sweep goes on to the kind at place i of Kinds, or is over.
Begin(s, i) ==
    /\ kind' = [kind EXCEPT ![s] = IF i <= Len(Kinds) THEN i ELSE 0]
    /\ batch' = [batch EXCEPT ![s] =
                   IF i <= Len(Kinds) THEN candidates(Kinds[i]) ELSE {}]

-----------------------------------------------------------------------------
\* Readers, operators and time.

\* A reader unsubscribes, by the link in a mail or on the settings page, or
\* subscribes again; the preferences are rewritten under a lock on the row.
SetPreference(a) ==
    /\ wants' = [wants EXCEPT ![a] = ~@]
    /\ Calm /\ UNCHANGED <<active, live, opened, night, claims, sweep, mail>>

Deactivate(a) ==
    /\ active[a]
    /\ active' = [active EXCEPT ![a] = FALSE]
    /\ Calm /\ UNCHANGED <<wants, live, opened, night, claims, sweep, mail>>

\* The gate is opened for everybody, with a deployment between two sweeps; it is
\* closed once at most.
OpenGate ==
    /\ \A s \in Sweepers : Idle(s)
    /\ live = opened /\ live # Addresses
    /\ live' = Addresses /\ opened' = Addresses
    /\ Calm /\ UNCHANGED <<wants, active, night, claims, sweep, mail>>

CloseGate ==
    /\ \A s \in Sweepers : Idle(s)
    /\ live # {} /\ live' = {}
    /\ Calm /\ UNCHANGED <<wants, active, opened, night, claims, sweep, mail>>

\* A night is over: its sweep was started and has ended, or cron did not run.
NextNight ==
    /\ night < MaxNight /\ \A s \in Sweepers : Idle(s)
    /\ IF swept THEN UNCHANGED faults ELSE Fault
    /\ night' = night + 1 /\ swept' = FALSE
    /\ Quiet /\ UNCHANGED <<people, claims, kind, batch, queueing, mail>>

-----------------------------------------------------------------------------
\* runLifecycleSweep.

\* The job of the night, a retry of it, or a run by hand: whichever worker takes
\* it asks for the readers of the first kind.
StartSweep(s) ==
    /\ Idle(s)
    /\ swept' = TRUE
    /\ Begin(s, 1)
    /\ Calm /\ UNCHANGED <<people, night, claims, queueing, mail>>

\* A reader the gate is closed for is reported and left alone.
DryRun(s) ==
    /\ ~Idle(s) /\ queueing[s] = NoAddress
    /\ \E a \in batch[s] :
         /\ ~mayReallySend(a)
         /\ batch' = [batch EXCEPT ![s] = @ \ {a}]
    /\ Calm /\ UNCHANGED <<people, night, claims, swept, kind, queueing, mail>>

\* There is no such index: whoever was in the batch may be claimed (a mutant).
AnyClaimIsFree(m) == TRUE

\* The unique index on reader, kind and campaign lets the claim in.
ClaimIsFree(m) == m \notin claims

claim(s) ==
    /\ ~Idle(s) /\ queueing[s] = NoAddress
    /\ \E a \in batch[s] :
         /\ mayReallySend(a)
         /\ batch' = [batch EXCEPT ![s] = @ \ {a}]
         /\ IF ClaimIsFree(<<a, Current(s)>>)
              THEN /\ claims' = claims \cup {<<a, Current(s)>>}
                   /\ queueing' = [queueing EXCEPT ![s] = a]
              ELSE UNCHANGED <<claims, queueing>>
    /\ Calm /\ UNCHANGED <<people, night, swept, kind, mail>>

\* sendEmailJob: the mail is built and queued.
sendEmailJob(s) ==
    /\ queueing[s] # NoAddress
    /\ LET m == <<queueing[s], Current(s)>> IN
         /\ job' = [job EXCEPT ![m] = "queued"]
         /\ tries' = [tries EXCEPT ![m] = 0]
    /\ queueing' = [queueing EXCEPT ![s] = NoAddress]
    /\ Calm /\ UNCHANGED <<people, night, claims, swept, kind, batch, handed, unanswered>>

\* It cannot be queued, which is logged and forgotten.
EnqueueFails(s) ==
    /\ queueing[s] # NoAddress /\ Fault
    /\ queueing' = [queueing EXCEPT ![s] = NoAddress]
    /\ Quiet /\ UNCHANGED <<people, night, claims, swept, kind, batch, mail>>

\* The sweep does not wait for the mail to be queued (a mutant).
NextKindAtOnce(s) ==
    /\ ~Idle(s) /\ batch[s] = {}
    /\ Begin(s, kind[s] + 1)
    /\ queueing' = [queueing EXCEPT ![s] = NoAddress]
    /\ Calm /\ UNCHANGED <<people, night, claims, swept, mail>>

\* The kind is done; the sweep asks for the readers of the next one.
NextKind(s) ==
    /\ ~Idle(s) /\ queueing[s] = NoAddress /\ batch[s] = {}
    /\ Begin(s, kind[s] + 1)
    /\ Calm /\ UNCHANGED <<people, night, claims, swept, queueing, mail>>

\* Something throws, a query or the building of a mail: the rest of the kind is
\* given up, the next one is not.
KindFails(s) ==
    /\ ~Idle(s) /\ Fault
    /\ Begin(s, kind[s] + 1)
    /\ queueing' = [queueing EXCEPT ![s] = NoAddress]
    /\ Quiet /\ UNCHANGED <<people, night, claims, swept, mail>>

\* The process ends, with whatever it had claimed.
SweeperDies(s) ==
    /\ ~Idle(s) /\ Fault
    /\ kind' = [kind EXCEPT ![s] = 0]
    /\ batch' = [batch EXCEPT ![s] = {}]
    /\ queueing' = [queueing EXCEPT ![s] = NoAddress]
    /\ Quiet /\ UNCHANGED <<people, night, claims, swept, mail>>

-----------------------------------------------------------------------------
\* handleEmailJob and sendEmail.

\* Only the sweep looks at the suppressed addresses (a mutant).
CheckGateOnly(m) ==
    /\ job[m] = "queued"
    /\ job' = [job EXCEPT ![m] = IF mayReallySend(m[1]) THEN "checked" ELSE "skipped"]
    /\ Calm /\ UNCHANGED <<people, night, claims, sweep, tries, handed, unanswered>>

\* The job is taken up; mail the gate is closed for, or to a suppressed address,
\* is not sent, and the job is done.
CheckRecipient(m) ==
    /\ job[m] = "queued"
    /\ job' = [job EXCEPT ![m] =
                 IF mayReallySend(m[1]) /\ ~isSuppressed(m[1])
                   THEN "checked" ELSE "skipped"]
    /\ Calm /\ UNCHANGED <<people, night, claims, sweep, tries, handed, unanswered>>

\* The relay takes it.
HandOver(m) ==
    /\ job[m] = "checked"
    /\ job' = [job EXCEPT ![m] = "sent"]
    /\ handed' = [handed EXCEPT ![m] = @ + 1]
    /\ Calm /\ UNCHANGED <<people, night, claims, sweep, tries, unanswered>>

\* The job goes back to its queue, or has failed for good.
Retry(m) ==
    /\ job' = [job EXCEPT ![m] = IF tries[m] < RetryLimit THEN "queued" ELSE "failed"]
    /\ tries' = [tries EXCEPT ![m] = IF tries[m] < RetryLimit THEN @ + 1 ELSE @]

\* The relay refuses it or cannot be reached, or the worker's process ends first
\* and the job expires.
DeliverFails(m) ==
    /\ job[m] \in {"queued", "checked"} /\ Fault
    /\ Retry(m)
    /\ Quiet /\ UNCHANGED <<people, night, claims, sweep, handed, unanswered>>

\* The relay takes it, and the answer is late or lost, or the worker is gone: the
\* job is tried again.
DeliverIsUnanswered(m) ==
    /\ job[m] = "checked" /\ Fault
    /\ handed' = [handed EXCEPT ![m] = @ + 1]
    /\ unanswered' = [unanswered EXCEPT ![m] = @ + 1]
    /\ Retry(m)
    /\ Quiet /\ UNCHANGED <<people, night, claims, sweep>>

\* No worker takes it up for a day, and the queue drops it.
JobIsDropped(m) ==
    /\ job[m] = "queued" /\ Fault
    /\ job' = [job EXCEPT ![m] = "failed"]
    /\ Quiet /\ UNCHANGED <<people, night, claims, sweep, tries, handed, unanswered>>

SweepStep(s) == DryRun(s) \/ claim(s) \/ sendEmailJob(s) \/ NextKind(s)
WorkerStep(m) == CheckRecipient(m) \/ HandOver(m)

LifecycleNext ==
    \/ \E a \in Addresses : SetPreference(a) \/ Deactivate(a)
    \/ OpenGate \/ CloseGate \/ NextNight
    \/ \E s \in Sweepers : \/ StartSweep(s) \/ SweepStep(s) \/ EnqueueFails(s)
                           \/ KindFails(s) \/ SweeperDies(s)
    \/ \E m \in Mails : \/ WorkerStep(m) \/ DeliverFails(m)
                        \/ DeliverIsUnanswered(m) \/ JobIsDropped(m)

Next == LifecycleNext \/ (EventsNext /\ UNCHANGED lvars)

\* A sweep that was started and a job that was queued go on, and cron starts a
\* sweep every night.
LifecycleFairness ==
    /\ \A s \in Sweepers : WF_vars(SweepStep(s))
    /\ WF_vars(\E m \in Mails : WorkerStep(m))
    /\ WF_vars(~swept /\ \E s \in Sweepers : StartSweep(s))

Spec == Init /\ [][Next]_vars
FairSpec == Spec /\ EventsFairness /\ LifecycleFairness

-----------------------------------------------------------------------------
\* Properties.

\* However many sweeps run, in whatever order they and the worker go on, and
\* whatever is retried: a mail is handed over again only if the relay took it
\* without our being told.
MailedOnce == \A m \in Mails : handed[m] <= 1 + unanswered[m]

OnItsWay(m) ==
    \/ job[m] # "none"
    \/ \E s \in Sweepers : queueing[s] = m[1] /\ Current(s) = m[2]

\* A claim spends the reader's one chance at a mail: what was claimed is on its
\* way to the relay, and a failure loses one claim at most.
ClaimsAreKept == Cardinality({m \in claims : ~OnItsWay(m)}) <= faults

\* The sweep has a reader in hand for a mail, or the queue does.
InHand(m) ==
    \/ job[m] \in {"queued", "checked"}
    \/ \E s \in Sweepers : /\ ~Idle(s) /\ Current(s) = m[2]
                           /\ m[1] \in batch[s] \cup {queueing[s]}

\* The sweep asks the question on the night it matters: nobody who has opted
\* out, is gone, is suppressed or has had the mail is taken in hand from then on.
OnlyWillingReaders ==
    [][\A m \in Mails :
         /\ ~InHand(m)
         /\ ~wants[m[1]] \/ ~active[m[1]] \/ isSuppressed(m[1]) \/ m \in claims
         => ~InHand(m)']_vars

\* A reader for whom the gate has never been open has spent nothing: those a dry
\* run went over are not passed over later.
DryRunsSpendNothing == \A m \in claims : m[1] \in opened

Willing(m) == wants[m[1]] /\ active[m[1]] /\ ~isSuppressed(m[1]) /\ mayReallySend(m[1])
Tonight(m) == night = NightOf[m[2]] /\ ~swept

\* A reader whose night it is gets the mail, unless the reader or the relay objects
\* before it is out or something fails.
DueReadersAreMailed ==
    \A m \in Mails :
      Tonight(m) /\ Willing(m) ~> (handed[m] > 0 \/ ~Willing(m) \/ faults > 0)

HeardOf(a) == \E w \in answered : Event(w) = "hard_bounce" /\ a \in report[w].to

\* Once a hard bounce has been reported, the report was answered and no delivery is at
\* the address any more, no further mail to it is let through to the relay: the webhook's
\* side and the worker's agree, as long as nobody lifts the address and no call failed.
\* (A second delivery answers for the first, which may still have to suppress.)
NothingAfterABounce ==
    [][\A m \in Mails :
         HeardOf(m[1]) /\ (\A h \in Handlers : at[h] # m[1])
           /\ lifts = 0 /\ faults = 0 /\ job[m] # "checked"
         => job'[m] # "checked"]_vars
=============================================================================
