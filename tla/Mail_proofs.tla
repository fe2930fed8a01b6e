----------------------------- MODULE Mail_proofs -----------------------------
(***************************************************************************)
(* Proofs about EmailEvents and LifecycleEmail, for any number of          *)
(* addresses, reports, deliveries, sweeps and nights.                      *)
(*                                                                         *)
(* EInv is the inductive invariant of the reports: what a delivery is      *)
(* about to do is earned by rows that are stored.  MInv is that of the     *)
(* mail: a mail that is queued was claimed, and is queued by one sweep.    *)
(***************************************************************************)
EXTENDS LifecycleEmail, FiniteSetTheorems, TLAPS

-----------------------------------------------------------------------------
\* Reports.

\* The event of report w is enough to suppress a, as the rows are.
Earned(w, a) ==
    \/ Event(w) \in {"hard_bounce", "complaint"}
    \/ Event(w) = "soft_bounce" /\ Cardinality(SoftRows(a)) >= SoftLimit

\* What delivery h is about to do, it has the rows for.
Sound(h) ==
    /\ pc[h] # "idle" => hook[h] \in Webhooks /\ Event(hook[h]) # "none"
    /\ pc[h] \notin {"idle", "next"} => at[h] \in Addresses
    /\ pc[h] \notin {"idle", "next", "save"} => Key(h) \in rows
    /\ pc[h] = "count" => Event(hook[h]) = "soft_bounce"
    /\ pc[h] \in {"find", "insert", "again"} => Earned(hook[h], at[h])

InProgress == \A h \in Handlers : Sound(h)

RowsAreReported == \A x \in rows : Event(x[1]) # "none"

CountedAreStored == \A x \in Keys : counted[x] <= 1 /\ (x \notin rows => counted[x] = 0)

EInv == EventsTypeOK /\ InProgress /\ RowsAreReported /\ CountedAreStored /\ CauseIsEarned

\* What a step of the reports may do to the rows and the reports at all.
OnlyMore ==
    /\ rows \subseteq rows'
    /\ \A w \in Webhooks : Event(w) # "none" => report'[w] = report[w]

LEMMA SoftRowsAreFinite ==
    ASSUME NEW a
    PROVE  IsFiniteSet(SoftRows(a)) /\ Cardinality(SoftRows(a)) \in Nat
<1>1. SoftRows(a) \subseteq Webhooks
  BY DEF SoftRows
<1>2. IsFiniteSet(SoftRows(a))
  BY <1>1, EventsAssumption, FS_Subset
<1> QED
  BY <1>2, FS_CardinalityType

\* The threshold looks at a part of the soft bounces only.
LEMMA TooOftenIsEarned ==
    ASSUME NEW a, softBouncedTooOften(a) >= SoftLimit
    PROVE  Cardinality(SoftRows(a)) >= SoftLimit
<1> DEFINE Recent == {w \in SoftRows(a) : <<w, a>> \notin aged}
<1>1. Recent \subseteq SoftRows(a)
  OBVIOUS
<1>2. IsFiniteSet(Recent) /\ Cardinality(Recent) <= Cardinality(SoftRows(a))
  BY <1>1, SoftRowsAreFinite, FS_Subset
<1>3. Cardinality(Recent) \in Nat
  BY <1>2, FS_CardinalityType
<1>4. Cardinality(Recent) >= SoftLimit
  BY DEF softBouncedTooOften
<1> QED
  BY <1>2, <1>3, <1>4, SoftRowsAreFinite, EventsAssumption

\* A step that stores rows and reports only leaves what was earned.
LEMMA EarnedStays ==
    ASSUME EventsTypeOK, RowsAreReported, OnlyMore,
           NEW a \in Addresses
    PROVE  /\ SoftRows(a) \subseteq SoftRows(a)'
           /\ Cardinality(SoftRows(a)) >= SoftLimit
                => Cardinality(SoftRows(a)') >= SoftLimit
           /\ \A w \in Webhooks : Event(w) # "none" /\ Earned(w, a) => Earned(w, a)'
<1>1. SoftRows(a) \subseteq SoftRows(a)'
  BY DEF EventsTypeOK, RowsAreReported, OnlyMore, SoftRows, Event, Keys
<1>2. SoftRows(a)' \subseteq Webhooks
  BY DEF SoftRows
<1>3. IsFiniteSet(SoftRows(a)') /\ Cardinality(SoftRows(a)') \in Nat
  BY <1>2, EventsAssumption, FS_Subset, FS_CardinalityType
<1>4. Cardinality(SoftRows(a)) <= Cardinality(SoftRows(a)')
  BY <1>1, <1>3, FS_Subset
<1>5. Cardinality(SoftRows(a)) >= SoftLimit => Cardinality(SoftRows(a)') >= SoftLimit
  BY <1>3, <1>4, SoftRowsAreFinite, EventsAssumption
<1>6. ASSUME NEW w \in Webhooks, Event(w) # "none", Earned(w, a)
      PROVE  Earned(w, a)'
  BY <1>5, <1>6 DEF Earned, OnlyMore, Event
<1> QED
  BY <1>1, <1>5, <1>6

LEMMA StepsOnlyAdd ==
    ASSUME EventsTypeOK, EventsNext
    PROVE  OnlyMore
<1>1. ASSUME NEW w \in Webhooks, Report(w)
      PROVE  OnlyMore
  BY <1>1 DEF Report, OnlyMore, tables, EventsTypeOK, Event
<1>2. ASSUME NEW h \in Handlers, HandlerStep(h) \/ HandlerFault(h)
      PROVE  OnlyMore
  BY <1>2 DEF HandlerStep, HandlerFault, OnlyMore, tables, LookForRow, SaveRow, SaveIsRefused,
       SaveIsUnanswered, CountSoftBounces, FindSuppression, InsertSuppression, FindAgain,
       ClearBadge, ClearBadgeFails, Answer, DeliveryFails
<1>3. ASSUME NEW w \in Webhooks, NEW h \in Handlers, Deliver(h, w)
      PROVE  OnlyMore
  BY <1>3 DEF Deliver, OnlyMore, tables
<1> QED
  BY <1>1, <1>2, <1>3 DEF EventsNext, Age, removeSuppression, OnlyMore

-----------------------------------------------------------------------------
\* A step of delivery h that leaves the others alone.

Untouched(h) == pc'[h] = pc[h] /\ hook'[h] = hook[h] /\ at'[h] = at[h]

LEMMA UntouchedIsSound ==
    ASSUME EventsTypeOK, RowsAreReported, OnlyMore, NEW h \in Handlers, Sound(h), Untouched(h)
    PROVE  Sound(h)'
<1>1. pc[h] # "idle" => /\ hook[h] \in Webhooks /\ Event(hook[h]) # "none"
                        /\ report'[hook[h]] = report[hook[h]]
  BY DEF Sound, OnlyMore
<1>2. ASSUME NEW w, NEW a, w = hook[h], a = at[h], pc[h] \in {"find", "insert", "again"}
      PROVE  Earned(w, a)'
  <2>1. w \in Webhooks /\ a \in Addresses /\ Event(w) # "none" /\ Earned(w, a)
    BY <1>2 DEF Sound
  <2> QED
    BY <2>1, EarnedStays
<1>3. (pc[h] # "idle" => hook[h] \in Webhooks /\ Event(hook[h]) # "none")'
  BY <1>1 DEF Untouched, Event
<1>4. (pc[h] = "count" => Event(hook[h]) = "soft_bounce")'
  BY <1>1 DEF Sound, Untouched, Event
<1>5. (pc[h] \in {"find", "insert", "again"} => Earned(hook[h], at[h]))'
  BY <1>2 DEF Untouched, Earned, Event, SoftRows
<1>6. (pc[h] \notin {"idle", "next", "save"} => Key(h) \in rows)'
  BY DEF Sound, Untouched, Key, OnlyMore
<1> QED
  BY <1>3, <1>4, <1>5, <1>6 DEF Sound, Untouched

\* A suppression that stays as it is stays earned.
CauseOf(a) ==
    CASE supp[a] = "none" -> TRUE
      [] supp[a] = "repeated_soft_bounce" -> Cardinality(SoftRows(a)) >= SoftLimit
      [] OTHER -> \E w \in Webhooks : <<w, a>> \in rows /\ Event(w) = supp[a]

LEMMA OldCauseStays ==
    ASSUME EventsTypeOK, RowsAreReported, OnlyMore,
           NEW a \in Addresses, CauseOf(a), supp'[a] = supp[a]
    PROVE  CauseOf(a)'
<1>1. CASE supp[a] = "none"
  BY <1>1 DEF CauseOf
<1>2. CASE supp[a] = "repeated_soft_bounce"
  BY <1>2, EarnedStays DEF CauseOf
<1>3. CASE supp[a] \notin {"none", "repeated_soft_bounce"}
  <2>1. PICK w \in Webhooks : <<w, a>> \in rows /\ Event(w) = supp[a]
    BY <1>3 DEF CauseOf
  <2>2. <<w, a>> \in rows' /\ Event(w)' = supp'[a]
    BY <1>3, <2>1 DEF OnlyMore, Event
  <2> QED
    BY <1>3, <2>2 DEF CauseOf
<1> QED
  BY <1>1, <1>2, <1>3

\* Rows that are as they were.
LEMMA NoRowIsAdded ==
    ASSUME EInv, OnlyMore, rows' = rows, counted' = counted
    PROVE  RowsAreReported' /\ CountedAreStored'
BY DEF EInv, EventsTypeOK, Keys, OnlyMore, RowsAreReported, CountedAreStored, Event

\* The row of delivery h is added, and counted or not.
LEMMA OneRowIsAdded ==
    ASSUME EInv, OnlyMore, NEW h \in Handlers, pc[h] = "save", RowIsNew(Key(h)),
           rows' = rows \cup {Key(h)},
           \/ counted' = counted
           \/ counted' = [counted EXCEPT ![Key(h)] = @ + 1]
    PROVE  /\ RowsAreReported' /\ CountedAreStored'
           /\ rows' \subseteq Keys /\ counted' \in [Keys -> Nat]
<1>1. Key(h) \in Keys /\ Event(hook[h]) # "none" /\ counted[Key(h)] = 0
  BY DEF EInv, InProgress, Sound, Key, Keys, RowIsNew, CountedAreStored
<1>2. RowsAreReported'
  BY <1>1 DEF EInv, EventsTypeOK, Keys, OnlyMore, RowsAreReported, Event, Key
<1>3. counted' \in [Keys -> Nat] /\ rows' \subseteq Keys
  BY <1>1 DEF EInv, EventsTypeOK
<1>4. CountedAreStored'
  BY <1>1 DEF EInv, EventsTypeOK, CountedAreStored
<1> QED
  BY <1>2, <1>3, <1>4

\* The ways a step of h ends, as types.
LEMMA DeliveryTyped ==
    ASSUME EInv, NEW h \in Handlers,
           \/ \E a : NextRecipient(h, a)
           \/ Leave(h)
           \/ \E step \in Steps : Go(h, step) /\ UNCHANGED <<hook, todo, at>>
    PROVE  /\ pc' \in [Handlers -> Steps]
           /\ hook' \in [Handlers -> Webhooks \cup {NoHook}]
           /\ todo' \in [Handlers -> SUBSET Addresses]
           /\ at' \in [Handlers -> Addresses \cup {NoAddress}]
           /\ \A g \in Handlers \ {h} : Untouched(g)
<1> USE DEF EInv, EventsTypeOK
<1>1. CASE \E a : NextRecipient(h, a)
  BY <1>1 DEF NextRecipient, Go, Untouched, Steps
<1>2. CASE Leave(h)
  BY <1>2 DEF Leave, Go, Untouched, Steps
<1>3. ASSUME NEW step \in Steps, Go(h, step), UNCHANGED <<hook, todo, at>>
      PROVE  /\ pc' \in [Handlers -> Steps]
             /\ \A g \in Handlers \ {h} : Untouched(g)
  BY <1>3 DEF Go, Untouched
<1> QED
  BY <1>1, <1>2, <1>3

-----------------------------------------------------------------------------
\* The steps of a delivery, one by one.

LEMMA NextIsSound ==
    ASSUME EInv, OnlyMore, NEW h \in Handlers, pc[h] # "idle", \E a : NextRecipient(h, a)
    PROVE  Sound(h)'
BY DEF EInv, EventsTypeOK, InProgress, Sound, OnlyMore, NextRecipient, Go, Event

LEMMA LeavingIsSound ==
    ASSUME EInv, NEW h \in Handlers, Leave(h)
    PROVE  Sound(h)'
BY DEF EInv, EventsTypeOK, Sound, Leave, Go

LEMMA SuppressedIsSound ==
    ASSUME EInv, OnlyMore, NEW h \in Handlers, pc[h] \in {"find", "insert", "again"},
           AfterSuppress(h)
    PROVE  Sound(h)'
<1>1. CASE Event(hook[h]) = "hard_bounce"
  BY <1>1 DEF EInv, EventsTypeOK, InProgress, Sound, OnlyMore, AfterSuppress, Go, Event, Key
<1>2. CASE Event(hook[h]) # "hard_bounce"
  BY <1>2, NextIsSound DEF AfterSuppress
<1> QED
  BY <1>1, <1>2

\* What is left to show when the delivery itself is sound.
LEMMA Assembled ==
    ASSUME EInv, OnlyMore, NEW h \in Handlers, Sound(h)', EventsTypeOK',
           \A g \in Handlers \ {h} : Untouched(g),
           RowsAreReported', CountedAreStored',
           \A a \in Addresses : supp'[a] = supp[a] \/ CauseOf(a)'
    PROVE  EInv'
<1>1. InProgress'
  <2>1. \A g \in Handlers \ {h} : Sound(g)'
    BY UntouchedIsSound DEF EInv, InProgress
  <2> QED
    BY <2>1 DEF InProgress
<1>2. CauseIsEarned'
  <2>1. \A a \in Addresses : CauseOf(a)
    BY DEF EInv, CauseIsEarned, CauseOf
  <2>2. \A a \in Addresses : CauseOf(a)'
    BY <2>1, OldCauseStays DEF EInv
  <2> QED
    BY <2>2 DEF CauseIsEarned, CauseOf
<1> QED
  BY <1>1, <1>2 DEF EInv

\* A step that changes no table.
LEMMA TablesStay ==
    ASSUME EInv, OnlyMore, NEW h \in Handlers, Sound(h)',
           UNCHANGED <<report, rows, aged, supp, counted, lifts>>,
           answered' \subseteq Webhooks, verified' \in [Addresses -> BOOLEAN],
           faults' \in 0 .. MaxFaults,
           \/ \E a : NextRecipient(h, a)
           \/ Leave(h)
           \/ \E step \in Steps : Go(h, step) /\ UNCHANGED <<hook, todo, at>>
    PROVE  EInv'
<1>1. EventsTypeOK'
  BY DeliveryTyped DEF EInv, EventsTypeOK
<1>2. RowsAreReported' /\ CountedAreStored'
  BY NoRowIsAdded
<1> QED
  BY <1>1, <1>2, DeliveryTyped, Assembled DEF EInv

LEMMA LookKeeps ==
    ASSUME EInv, OnlyMore, NEW h \in Handlers, LookForRow(h)
    PROVE  EInv'
<1>1. PICK a \in todo[h] :
        IF <<hook[h], a>> \in rows
          THEN NextRecipient(h, a)
          ELSE /\ Go(h, "save") /\ at' = [at EXCEPT ![h] = a] /\ UNCHANGED <<hook, todo>>
  BY DEF LookForRow
<1>2. /\ UNCHANGED <<report, answered, tables, counted, lifts, faults>> /\ pc[h] = "next"
      /\ a \in Addresses
  BY <1>1 DEF LookForRow, Does, EInv, EventsTypeOK
<1>3. CASE <<hook[h], a>> \in rows
  BY <1>1, <1>2, <1>3, NextIsSound, TablesStay DEF tables, EInv, EventsTypeOK
<1>4. CASE <<hook[h], a>> \notin rows
  <2>1. EventsTypeOK' /\ \A g \in Handlers \ {h} : Untouched(g)
    BY <1>1, <1>2, <1>4 DEF EInv, EventsTypeOK, Go, Steps, tables, Untouched
  <2>2. Sound(h)'
    BY <1>1, <1>2, <1>4 DEF EInv, EventsTypeOK, InProgress, Sound, Go, Event
  <2>3. RowsAreReported' /\ CountedAreStored'
    BY <1>2, NoRowIsAdded DEF tables
  <2> QED
    BY <1>2, <2>1, <2>2, <2>3, Assembled DEF tables
<1> QED
  BY <1>3, <1>4

LEMMA SaveKeeps ==
    ASSUME EInv, OnlyMore, NEW h \in Handlers, SaveRow(h)
    PROVE  EInv'
<1>1. /\ pc[h] = "save" /\ hook[h] \in Webhooks /\ at[h] \in Addresses
      /\ Event(hook[h]) # "none" /\ RowIsNew(Key(h))
      /\ rows' = rows \cup {Key(h)} /\ counted' = [counted EXCEPT ![Key(h)] = @ + 1]
      /\ UNCHANGED <<report, answered, aged, supp, verified, lifts, faults>>
  BY DEF EInv, InProgress, Sound, SaveRow, Does
<1>2. \/ NextRecipient(h, at[h])
      \/ /\ Go(h, applyEvent(Event(hook[h]))) /\ UNCHANGED <<hook, todo, at>>
         /\ applyEvent(Event(hook[h])) \in {"find", "count"}
  BY DEF SaveRow, applyEvent
<1>3. /\ RowsAreReported' /\ CountedAreStored'
      /\ rows' \subseteq Keys /\ counted' \in [Keys -> Nat]
  BY <1>1, OneRowIsAdded
<1>4. EventsTypeOK' /\ \A g \in Handlers \ {h} : Untouched(g)
  BY <1>1, <1>2, <1>3, DeliveryTyped DEF EInv, EventsTypeOK, Steps
<1>5. Sound(h)'
  <2>1. CASE NextRecipient(h, at[h])
    BY <1>1, <2>1, NextIsSound
  <2>2. CASE /\ Go(h, applyEvent(Event(hook[h]))) /\ UNCHANGED <<hook, todo, at>>
             /\ applyEvent(Event(hook[h])) \in {"find", "count"}
    <3>1. /\ pc'[h] = applyEvent(Event(hook[h])) /\ hook'[h] = hook[h] /\ at'[h] = at[h]
          /\ report' = report /\ Key(h)' \in rows'
      BY <1>1, <2>2 DEF EInv, EventsTypeOK, Go, Key
    <3>2. \/ pc'[h] = "count" /\ Event(hook[h]) = "soft_bounce"
          \/ pc'[h] = "find" /\ Event(hook[h]) \in {"hard_bounce", "complaint"}
      BY <2>2, <3>1 DEF applyEvent
    <3> QED
      BY <1>1, <3>1, <3>2 DEF Sound, Earned, Event
  <2> QED
    BY <1>2, <2>1, <2>2
<1> QED
  BY <1>1, <1>3, <1>4, <1>5, Assembled

LEMMA UnansweredSaveKeeps ==
    ASSUME EInv, OnlyMore, NEW h \in Handlers, SaveIsUnanswered(h)
    PROVE  EInv'
<1>1. /\ pc[h] = "save" /\ RowIsNew(Key(h)) /\ rows' = rows \cup {Key(h)}
      /\ NextRecipient(h, at[h]) /\ faults' \in 0 .. MaxFaults
      /\ UNCHANGED <<report, answered, aged, supp, verified, counted, lifts>>
  BY EventsAssumption DEF SaveIsUnanswered, Does, Fault, EInv, EventsTypeOK
<1>2. /\ RowsAreReported' /\ CountedAreStored'
      /\ rows' \subseteq Keys /\ counted' \in [Keys -> Nat]
  BY <1>1, OneRowIsAdded
<1>3. EventsTypeOK' /\ \A g \in Handlers \ {h} : Untouched(g)
  BY <1>1, <1>2, DeliveryTyped DEF EInv, EventsTypeOK
<1> QED
  BY <1>1, <1>2, <1>3, NextIsSound, Assembled

LEMMA InsertKeeps ==
    ASSUME EInv, OnlyMore, NEW h \in Handlers, InsertSuppression(h)
    PROVE  EInv'
<1>1. /\ pc[h] = "insert" /\ Sound(h) /\ hook[h] \in Webhooks /\ at[h] \in Addresses
      /\ Earned(hook[h], at[h]) /\ Key(h) \in rows
      /\ UNCHANGED <<report, answered, rows, aged, verified, counted, lifts, faults>>
  BY DEF EInv, InProgress, Sound, InsertSuppression, Does
<1>2. CASE isSuppressed(at[h])
  <2>1. Go(h, "again") /\ UNCHANGED <<supp, hook, todo, at>>
    BY <1>2 DEF InsertSuppression
  <2>2. Sound(h)'
    BY <1>1, <2>1 DEF EInv, EventsTypeOK, Sound, Go, Event, Key, Earned, SoftRows
  <2> QED
    BY <1>1, <2>1, <2>2, TablesStay DEF Steps, EInv, EventsTypeOK
<1>3. CASE ~isSuppressed(at[h])
  <2>1. supp' = [supp EXCEPT ![at[h]] = Cause(Event(hook[h]))] /\ AfterSuppress(h)
    BY <1>3 DEF InsertSuppression
  <2>2. Cause(Event(hook[h])) \in SUPPRESSION_CAUSES
    BY <1>1 DEF Earned, Cause, SUPPRESSION_CAUSES
  <2>3. \/ \E a : NextRecipient(h, a)
        \/ \E step \in Steps : Go(h, step) /\ UNCHANGED <<hook, todo, at>>
    BY <2>1 DEF AfterSuppress, Steps
  <2>4. EventsTypeOK' /\ \A g \in Handlers \ {h} : Untouched(g)
    BY <1>1, <2>1, <2>2, <2>3, DeliveryTyped DEF EInv, EventsTypeOK
  <2>5. RowsAreReported' /\ CountedAreStored'
    BY <1>1, NoRowIsAdded
  <2>6. ASSUME NEW a \in Addresses
        PROVE  supp'[a] = supp[a] \/ CauseOf(a)'
    <3>1. CASE a # at[h]
      BY <1>1, <2>1, <3>1 DEF EInv, EventsTypeOK
    <3>2. CASE a = at[h] /\ Event(hook[h]) = "soft_bounce"
      <4>1. supp'[a] = "repeated_soft_bounce"
        BY <1>1, <2>1, <3>2 DEF EInv, EventsTypeOK, Cause
      <4>2. Cardinality(SoftRows(a)) >= SoftLimit
        BY <1>1, <3>2 DEF Earned
      <4>3. SoftRows(a)' = SoftRows(a)
        BY <1>1 DEF SoftRows, Event
      <4> QED
        BY <4>1, <4>2, <4>3 DEF CauseOf
    <3>3. CASE a = at[h] /\ Event(hook[h]) \in {"hard_bounce", "complaint"}
      <4>1. supp'[a] = Event(hook[h]) /\ supp'[a] \notin {"none", "repeated_soft_bounce"}
        BY <1>1, <2>1, <3>3 DEF EInv, EventsTypeOK, Cause
      <4>2. <<hook[h], a>> \in rows'
        BY <1>1, <3>3 DEF Key
      <4>3. PICK w \in Webhooks : w = hook[h]
        BY <1>1
      <4>4. <<w, a>> \in rows' /\ Event(w)' = supp'[a]
        BY <1>1, <4>1, <4>2, <4>3 DEF Event
      <4> QED
        BY <4>1, <4>4 DEF CauseOf
    <3> QED
      BY <1>1, <3>1, <3>2, <3>3 DEF Earned
  <2> QED
    BY <1>1, <2>1, <2>4, <2>5, <2>6, SuppressedIsSound, Assembled
<1> QED
  BY <1>2, <1>3

\* The steps that change no row and no suppression.
LEMMA OtherStepsKeep ==
    ASSUME EInv, OnlyMore, NEW h \in Handlers,
           \/ SaveIsRefused(h) \/ CountSoftBounces(h) \/ FindSuppression(h) \/ FindAgain(h)
           \/ ClearBadge(h) \/ ClearBadgeFails(h) \/ Answer(h) \/ DeliveryFails(h)
    PROVE  EInv'
<1> USE DEF Does
<1>1. Sound(h) /\ answered \subseteq Webhooks /\ verified \in [Addresses -> BOOLEAN]
      /\ faults \in 0 .. MaxFaults
  BY DEF EInv, EventsTypeOK, InProgress
<1>2. Fault => faults' \in 0 .. MaxFaults
  BY <1>1, EventsAssumption DEF Fault
<1>3. CASE SaveIsRefused(h)
  BY <1>1, <1>3, NextIsSound, TablesStay DEF SaveIsRefused, tables
<1>4. CASE CountSoftBounces(h)
  <2>1. CASE NextRecipient(h, at[h])
    BY <1>1, <1>4, <2>1, NextIsSound, TablesStay DEF CountSoftBounces, tables
  <2>2. CASE /\ Go(h, "find") /\ UNCHANGED <<hook, todo, at>>
             /\ ~(softBouncedTooOften(at[h]) < SoftLimit)
    <3>1. softBouncedTooOften(at[h]) >= SoftLimit
      <4>1. {w \in SoftRows(at[h]) : <<w, at[h]>> \notin aged} \subseteq Webhooks
        BY DEF SoftRows
      <4>2. softBouncedTooOften(at[h]) \in Nat
        BY <4>1, EventsAssumption, FS_Subset, FS_CardinalityType DEF softBouncedTooOften
      <4> QED
        BY <2>2, <4>2, EventsAssumption
    <3>2. Cardinality(SoftRows(at[h])) >= SoftLimit
      BY <3>1, TooOftenIsEarned
    <3>3. Earned(hook[h], at[h]) /\ pc[h] = "count"
      BY <1>1, <1>4, <3>2 DEF CountSoftBounces, Sound, Earned
    <3>4. Sound(h)'
      BY <1>1, <1>4, <2>2, <3>3
      DEF CountSoftBounces, tables, EInv, EventsTypeOK, Sound, Go, Event, Key, Earned, SoftRows
    <3> QED
      BY <1>1, <1>4, <2>2, <3>4, TablesStay DEF CountSoftBounces, tables, Steps
  <2> QED
    BY <1>4, <2>1, <2>2 DEF CountSoftBounces
<1>5. CASE FindSuppression(h)
  <2>1. CASE AfterSuppress(h)
    <3>1. Sound(h)'
      BY <1>5, <2>1, SuppressedIsSound DEF FindSuppression
    <3> QED
      BY <1>1, <1>5, <2>1, <3>1, TablesStay DEF FindSuppression, tables, AfterSuppress, Steps
  <2>2. CASE Go(h, "insert") /\ UNCHANGED <<hook, todo, at>>
    <3>1. Sound(h)'
      BY <1>1, <1>5, <2>2
      DEF FindSuppression, tables, EInv, EventsTypeOK, Sound, Go, Event, Key, Earned, SoftRows
    <3> QED
      BY <1>1, <1>5, <2>2, <3>1, TablesStay DEF FindSuppression, tables, Steps
  <2> QED
    BY <1>5, <2>1, <2>2 DEF FindSuppression
<1>6. CASE FindAgain(h)
  <2>1. CASE AfterSuppress(h)
    <3>1. Sound(h)'
      BY <1>6, <2>1, SuppressedIsSound DEF FindAgain
    <3> QED
      BY <1>1, <1>6, <2>1, <3>1, TablesStay DEF FindAgain, tables, AfterSuppress, Steps
  <2>2. CASE Leave(h)
    BY <1>1, <1>6, <2>2, LeavingIsSound, TablesStay DEF FindAgain, tables
  <2> QED
    BY <1>6, <2>1, <2>2 DEF FindAgain
<1>7. CASE ClearBadge(h)
  BY <1>1, <1>7, NextIsSound, TablesStay DEF ClearBadge
<1>8. CASE ClearBadgeFails(h)
  BY <1>1, <1>2, <1>8, NextIsSound, TablesStay DEF ClearBadgeFails, tables
<1>9. CASE Answer(h)
  BY <1>1, <1>9, LeavingIsSound, TablesStay DEF Answer, tables, Sound
<1>10. CASE DeliveryFails(h)
  BY <1>1, <1>2, <1>10, LeavingIsSound, TablesStay DEF DeliveryFails, tables
<1> QED
  BY <1>3, <1>4, <1>5, <1>6, <1>7, <1>8, <1>9, <1>10

\* A step that is of no delivery, of a new one, or of the calls that fail only.
LEMMA RestKeeps ==
    ASSUME EInv, OnlyMore, EventsTypeOK', rows' = rows, counted' = counted,
           \A h \in Handlers : Untouched(h) \/ Sound(h)',
           \A a \in Addresses : supp'[a] = supp[a] \/ supp'[a] = "none"
    PROVE  EInv'
<1>1. InProgress'
  BY UntouchedIsSound DEF EInv, InProgress
<1>2. \A a \in Addresses : CauseOf(a)'
  BY OldCauseStays DEF EInv, CauseIsEarned, CauseOf
<1> QED
  BY <1>1, <1>2, NoRowIsAdded DEF EInv, CauseIsEarned, CauseOf

LEMMA EventsKeep ==
    ASSUME EInv, EventsNext
    PROVE  EInv'
<1>1. OnlyMore
  BY StepsOnlyAdd DEF EInv
<1>2. ASSUME NEW h \in Handlers, HandlerStep(h) \/ HandlerFault(h)
      PROVE  EInv'
  BY <1>1, <1>2, LookKeeps, SaveKeeps, UnansweredSaveKeeps, InsertKeeps, OtherStepsKeep
  DEF HandlerStep, HandlerFault
<1>3. ASSUME NEW w \in Webhooks, Report(w)
      PROVE  EInv'
  <2>1. EventsTypeOK'
    BY <1>3, EventsAssumption DEF Report, tables, delivery, EInv, EventsTypeOK
  <2> QED
    BY <1>1, <1>3, <2>1, RestKeeps DEF Report, tables, delivery, Untouched
<1>4. ASSUME NEW w \in Webhooks, NEW h \in Handlers, Deliver(h, w)
      PROVE  EInv'
  <2>1. EventsTypeOK'
    BY <1>4 DEF Deliver, Go, Steps, tables, EInv, EventsTypeOK
  <2>2. Sound(h)' /\ \A g \in Handlers \ {h} : Untouched(g)
    BY <1>4 DEF Deliver, Go, EInv, EventsTypeOK, Sound, Untouched, Event
  <2> QED
    BY <1>1, <1>4, <2>1, <2>2, RestKeeps DEF Deliver, tables
<1>5. CASE Age
  <2>1. EventsTypeOK'
    BY <1>5 DEF Age, delivery, EInv, EventsTypeOK
  <2> QED
    BY <1>1, <1>5, <2>1, RestKeeps DEF Age, delivery, Untouched
<1>6. ASSUME NEW a \in Addresses, removeSuppression(a)
      PROVE  EInv'
  <2>1. EventsTypeOK'
    BY <1>6, EventsAssumption DEF removeSuppression, delivery, EInv, EventsTypeOK
  <2>2. \A b \in Addresses : supp'[b] = supp[b] \/ supp'[b] = "none"
    BY <1>6 DEF removeSuppression, EInv, EventsTypeOK
  <2> QED
    BY <1>1, <1>6, <2>1, <2>2, RestKeeps DEF removeSuppression, delivery, Untouched
<1> QED
  BY <1>2, <1>3, <1>4, <1>5, <1>6 DEF EventsNext

\* The mail's side changes nothing of the reports but the calls that failed.
LEMMA QuietKeeps ==
    ASSUME EInv, Quiet, faults' \in 0 .. MaxFaults
    PROVE  EInv'
<1>1. OnlyMore /\ EventsTypeOK' /\ \A h \in Handlers : Untouched(h)
  BY DEF Quiet, tables, delivery, OnlyMore, EInv, EventsTypeOK, Untouched
<1> QED
  BY <1>1, RestKeeps DEF Quiet, tables

-----------------------------------------------------------------------------
\* Mail.

\* The mail sweep s has claimed and not yet queued.
Queues(s) == <<queueing[s], Current(s)>>

\* Each mail was handed over as often as its answer was lost, and once if it is sent.
HandedIsAccounted ==
    \A m \in Mails :
      /\ handed[m] = unanswered[m] + (IF job[m] = "sent" THEN 1 ELSE 0)
      /\ job[m] # "none" => m \in claims

ClaimedBySweep ==
    \A s \in Sweepers :
      /\ Idle(s) => queueing[s] = NoAddress
      /\ queueing[s] # NoAddress => Queues(s) \in claims /\ job[Queues(s)] = "none"

OneSweepEach ==
    \A s, t \in Sweepers :
      s # t /\ queueing[s] # NoAddress /\ queueing[t] # NoAddress => Queues(s) # Queues(t)

MInv == LifecycleTypeOK /\ HandedIsAccounted /\ ClaimedBySweep /\ OneSweepEach
             /\ DryRunsSpendNothing

LEMMA KindsTyped ==
    /\ Len(Kinds) \in Nat
    /\ \A i \in 1 .. Len(Kinds) : Kinds[i] \in KindSet
BY LifecycleAssumption DEF KindSet

\* A sweep's mail is a mail.
LEMMA QueuesTyped ==
    ASSUME MInv, NEW s \in Sweepers
    PROVE  /\ ~Idle(s) => kind[s] \in 1 .. Len(Kinds) /\ Current(s) \in KindSet
           /\ queueing[s] # NoAddress => ~Idle(s) /\ Queues(s) \in Mails
BY KindsTyped DEF MInv, LifecycleTypeOK, ClaimedBySweep, Idle, Current, Queues, Mails

LEMMA BeginTyped ==
    ASSUME MInv, NEW s \in Sweepers, NEW i \in 1 .. Len(Kinds) + 1, Begin(s, i)
    PROVE  /\ kind' \in [Sweepers -> 0 .. Len(Kinds)]
           /\ batch' \in [Sweepers -> SUBSET Addresses]
           /\ \A t \in Sweepers \ {s} : kind'[t] = kind[t] /\ batch'[t] = batch[t]
BY KindsTyped DEF MInv, LifecycleTypeOK, Begin, candidates

\* Steps that queue nothing and hand nothing over.
LEMMA MailStays ==
    ASSUME MInv, LifecycleTypeOK', UNCHANGED <<claims, mail>>, opened \subseteq opened',
           \A s \in Sweepers :
             \/ queueing'[s] = NoAddress
             \/ queueing'[s] = queueing[s] /\ kind'[s] = kind[s]
    PROVE  MInv'
<1>1. HandedIsAccounted'
  BY DEF MInv, HandedIsAccounted, mail
<1>2. ClaimedBySweep'
  BY DEF MInv, ClaimedBySweep, mail, Queues, Current, Idle
<1>3. OneSweepEach'
  BY DEF MInv, OneSweepEach, Queues, Current
<1>4. DryRunsSpendNothing'
  BY DEF MInv, DryRunsSpendNothing
<1> QED
  BY <1>1, <1>2, <1>3, <1>4 DEF MInv

\* Steps of one mail that was queued.
LEMMA SweepsStay ==
    ASSUME MInv, LifecycleTypeOK', UNCHANGED <<people, claims, sweep>>,
           NEW m \in Mails, job[m] # "none",
           \A n \in Mails \ {m} :
              job'[n] = job[n] /\ handed'[n] = handed[n] /\ unanswered'[n] = unanswered[n],
           handed'[m] = unanswered'[m] + (IF job'[m] = "sent" THEN 1 ELSE 0)
    PROVE  MInv'
<1>1. HandedIsAccounted'
  BY DEF MInv, HandedIsAccounted
<1>2. ClaimedBySweep'
  BY QueuesTyped DEF MInv, ClaimedBySweep, sweep, Queues, Current, Idle
<1>3. OneSweepEach' /\ DryRunsSpendNothing'
  BY DEF MInv, OneSweepEach, DryRunsSpendNothing, sweep, people, Queues, Current
<1> QED
  BY <1>1, <1>2, <1>3 DEF MInv

LEMMA PeopleKeep ==
    ASSUME MInv,
           \/ \E a \in Addresses : SetPreference(a) \/ Deactivate(a)
           \/ OpenGate \/ CloseGate \/ NextNight
    PROVE  MInv'
<1>1. CASE NextNight
  <2>1. night' \in 0 .. MaxNight
    BY <1>1, LifecycleAssumption DEF MInv, LifecycleTypeOK, NextNight
  <2>2. LifecycleTypeOK'
    BY <1>1, <2>1 DEF MInv, LifecycleTypeOK, NextNight, people, mail
  <2> QED
    BY <1>1, <2>2, MailStays DEF NextNight, people
<1>2. CASE OpenGate \/ CloseGate
  <2>1. LifecycleTypeOK' /\ opened \subseteq opened'
    BY <1>2 DEF MInv, LifecycleTypeOK, OpenGate, CloseGate, sweep, mail
  <2> QED
    BY <1>2, <2>1, MailStays DEF OpenGate, CloseGate, sweep
<1>3. CASE \E a \in Addresses : SetPreference(a) \/ Deactivate(a)
  <2>1. LifecycleTypeOK' /\ opened \subseteq opened'
    BY <1>3 DEF MInv, LifecycleTypeOK, SetPreference, Deactivate, sweep, mail
  <2> QED
    BY <1>3, <2>1, MailStays DEF SetPreference, Deactivate, sweep
<1> QED
  BY <1>1, <1>2, <1>3

LEMMA ClaimKeeps ==
    ASSUME MInv, NEW s \in Sweepers, claim(s)
    PROVE  MInv'
<1>1. PICK a \in batch[s] :
        /\ mayReallySend(a)
        /\ batch' = [batch EXCEPT ![s] = @ \ {a}]
        /\ IF ClaimIsFree(<<a, Current(s)>>)
              THEN /\ claims' = claims \cup {<<a, Current(s)>>}
                   /\ queueing' = [queueing EXCEPT ![s] = a]
              ELSE UNCHANGED <<claims, queueing>>
  BY DEF claim
<1>2. /\ ~Idle(s) /\ queueing[s] = NoAddress /\ a \in Addresses /\ Current(s) \in KindSet
      /\ UNCHANGED <<people, night, swept, kind, mail>>
  BY <1>1, QueuesTyped DEF claim, MInv, LifecycleTypeOK
<1>3. CASE ~ClaimIsFree(<<a, Current(s)>>)
  <2>1. LifecycleTypeOK'
    BY <1>1, <1>2, <1>3 DEF MInv, LifecycleTypeOK, people, mail
  <2> QED
    BY <1>1, <1>2, <1>3, <2>1, MailStays DEF people
<1>4. CASE ClaimIsFree(<<a, Current(s)>>)
  <2> DEFINE m == <<a, Current(s)>>
  <2>1. m \in Mails /\ m \notin claims /\ job[m] = "none"
    BY <1>2, <1>4 DEF Mails, ClaimIsFree, MInv, HandedIsAccounted
  <2>2. claims' = claims \cup {m} /\ queueing' = [queueing EXCEPT ![s] = a]
    BY <1>1, <1>4
  <2>3. LifecycleTypeOK'
    BY <1>1, <1>2, <2>1, <2>2 DEF MInv, LifecycleTypeOK, people, mail
  <2>4. HandedIsAccounted'
    BY <1>2, <2>2 DEF MInv, HandedIsAccounted, mail
  <2>5. Queues(s)' = m /\ \A t \in Sweepers \ {s} : /\ queueing'[t] = queueing[t]
                                                   /\ Queues(t)' = Queues(t)
    BY <1>2, <2>2 DEF MInv, LifecycleTypeOK, Queues, Current
  <2>6. ClaimedBySweep'
    BY <1>2, <2>1, <2>2, <2>5 DEF MInv, ClaimedBySweep, Idle, mail
  <2>7. OneSweepEach'
    BY <2>1, <2>2, <2>5 DEF MInv, OneSweepEach, ClaimedBySweep
  <2>8. DryRunsSpendNothing'
    BY <1>1, <1>2, <2>2 DEF MInv, LifecycleTypeOK, DryRunsSpendNothing, mayReallySend, people
  <2> QED
    BY <2>3, <2>4, <2>6, <2>7, <2>8 DEF MInv
<1> QED
  BY <1>3, <1>4

LEMMA EnqueueKeeps ==
    ASSUME MInv, NEW s \in Sweepers, sendEmailJob(s)
    PROVE  MInv'
<1> DEFINE m == Queues(s)
<1>1. /\ queueing[s] # NoAddress /\ m \in Mails /\ m \in claims /\ job[m] = "none"
      /\ job' = [job EXCEPT ![m] = "queued"] /\ tries' = [tries EXCEPT ![m] = 0]
      /\ queueing' = [queueing EXCEPT ![s] = NoAddress]
      /\ UNCHANGED <<people, night, claims, swept, kind, batch, handed, unanswered>>
  BY QueuesTyped DEF sendEmailJob, Queues, MInv, ClaimedBySweep
<1>2. LifecycleTypeOK'
  BY <1>1, LifecycleAssumption DEF MInv, LifecycleTypeOK, people
<1>3. HandedIsAccounted'
  BY <1>1 DEF MInv, LifecycleTypeOK, HandedIsAccounted
<1>4. \A t \in Sweepers \ {s} : queueing'[t] = queueing[t] /\ Queues(t)' = Queues(t)
  BY <1>1 DEF MInv, LifecycleTypeOK, Queues, Current
<1>5. queueing'[s] = NoAddress
  BY <1>1 DEF MInv, LifecycleTypeOK
<1>6. ClaimedBySweep'
  <2>1. \A t \in Sweepers \ {s} : queueing[t] # NoAddress => Queues(t) # m
    BY <1>1 DEF MInv, OneSweepEach
  <2>2. \A t \in Sweepers \ {s} : queueing[t] # NoAddress => job'[Queues(t)] = job[Queues(t)]
    BY <1>1, <2>1, QueuesTyped DEF MInv, LifecycleTypeOK
  <2> QED
    BY <1>1, <1>4, <1>5, <2>2 DEF MInv, ClaimedBySweep, Idle
<1>7. OneSweepEach'
  BY <1>4, <1>5 DEF MInv, OneSweepEach
<1>8. DryRunsSpendNothing'
  BY <1>1 DEF MInv, DryRunsSpendNothing, people
<1> QED
  BY <1>2, <1>3, <1>6, <1>7, <1>8 DEF MInv

LEMMA SweepKeeps ==
    ASSUME MInv, NEW s \in Sweepers,
           \/ StartSweep(s) \/ DryRun(s) \/ NextKind(s) \/ EnqueueFails(s)
           \/ KindFails(s) \/ SweeperDies(s)
    PROVE  MInv'
<1>0. kind \in [Sweepers -> 0 .. Len(Kinds)] /\ Len(Kinds) \in Nat
  BY KindsTyped DEF MInv, LifecycleTypeOK
<1>1. CASE StartSweep(s)
  <2>1. LifecycleTypeOK' /\ \A t \in Sweepers \ {s} : kind'[t] = kind[t]
    BY <1>0, <1>1, BeginTyped DEF MInv, LifecycleTypeOK, StartSweep, people, mail
  <2>2. queueing' = queueing /\ queueing[s] = NoAddress
    BY <1>1 DEF StartSweep, MInv, ClaimedBySweep
  <2> QED
    BY <1>1, <2>1, <2>2, MailStays DEF StartSweep, people
<1>2. CASE DryRun(s)
  <2>1. LifecycleTypeOK'
    BY <1>2 DEF MInv, LifecycleTypeOK, DryRun, people, mail
  <2> QED
    BY <1>2, <2>1, MailStays DEF DryRun, people
<1>3. CASE NextKind(s)
  <2>1. kind[s] + 1 \in 1 .. Len(Kinds) + 1
    BY <1>0
  <2>2. LifecycleTypeOK' /\ \A t \in Sweepers \ {s} : kind'[t] = kind[t]
    BY <1>3, <2>1, BeginTyped DEF MInv, LifecycleTypeOK, NextKind, people, mail
  <2> QED
    BY <1>3, <2>2, MailStays DEF NextKind, people
<1>4. CASE EnqueueFails(s)
  <2>1. LifecycleTypeOK' /\ \A t \in Sweepers : queueing'[t] \in {NoAddress, queueing[t]}
    BY <1>4 DEF MInv, LifecycleTypeOK, EnqueueFails, people, mail
  <2> QED
    BY <1>4, <2>1, MailStays DEF EnqueueFails, people
<1>5. CASE KindFails(s)
  <2>1. kind[s] + 1 \in 1 .. Len(Kinds) + 1
    BY <1>0
  <2>2. /\ LifecycleTypeOK' /\ queueing'[s] = NoAddress
        /\ \A t \in Sweepers \ {s} : kind'[t] = kind[t] /\ queueing'[t] = queueing[t]
    BY <1>5, <2>1, BeginTyped DEF MInv, LifecycleTypeOK, KindFails, people, mail
  <2> QED
    BY <1>5, <2>2, MailStays DEF KindFails, people
<1>6. CASE SweeperDies(s)
  <2>1. /\ LifecycleTypeOK' /\ queueing'[s] = NoAddress
        /\ \A t \in Sweepers \ {s} : kind'[t] = kind[t] /\ queueing'[t] = queueing[t]
    BY <1>0, <1>6 DEF MInv, LifecycleTypeOK, SweeperDies, people, mail
  <2> QED
    BY <1>6, <2>1, MailStays DEF SweeperDies, people
<1> QED
  BY <1>1, <1>2, <1>3, <1>4, <1>5, <1>6

LEMMA WorkerKeeps ==
    ASSUME MInv, NEW m \in Mails,
           WorkerStep(m) \/ DeliverFails(m) \/ DeliverIsUnanswered(m) \/ JobIsDropped(m)
    PROVE  MInv'
<1>1. /\ job \in [Mails -> {"none", "queued", "checked"} \cup Ends]
      /\ tries \in [Mails -> 0 .. RetryLimit]
      /\ handed \in [Mails -> Nat] /\ unanswered \in [Mails -> Nat]
      /\ handed[m] = unanswered[m] + (IF job[m] = "sent" THEN 1 ELSE 0)
  BY DEF MInv, LifecycleTypeOK, HandedIsAccounted
<1>2. UNCHANGED <<people, night, claims, sweep>> /\ job[m] \in {"queued", "checked"}
  BY DEF WorkerStep, CheckRecipient, HandOver, DeliverFails, DeliverIsUnanswered, JobIsDropped
<1>3. CASE CheckRecipient(m) \/ JobIsDropped(m)
  <2>1. LifecycleTypeOK'
    BY <1>1, <1>2, <1>3 DEF MInv, LifecycleTypeOK, CheckRecipient, JobIsDropped, Ends, people, sweep
  <2> QED
    BY <1>1, <1>2, <1>3, <2>1, SweepsStay DEF CheckRecipient, JobIsDropped
<1>4. CASE HandOver(m)
  <2>1. LifecycleTypeOK'
    BY <1>1, <1>2, <1>4 DEF MInv, LifecycleTypeOK, HandOver, Ends, people, sweep
  <2> QED
    BY <1>1, <1>2, <1>4, <2>1, SweepsStay DEF HandOver
<1>5. CASE DeliverFails(m) \/ DeliverIsUnanswered(m)
  <2>0. Retry(m)
    BY <1>5 DEF DeliverFails, DeliverIsUnanswered
  <2>1. /\ job' \in [Mails -> {"none", "queued", "checked"} \cup Ends]
        /\ job'[m] \in {"queued", "failed"} /\ \A n \in Mails \ {m} : job'[n] = job[n]
    BY <1>1, <2>0 DEF Retry, Ends
  <2>1a. tries' \in [Mails -> 0 .. RetryLimit]
    <3>1. tries[m] \in 0 .. RetryLimit /\ RetryLimit \in Nat
      BY <1>1, LifecycleAssumption
    <3>2. (IF tries[m] < RetryLimit THEN tries[m] + 1 ELSE tries[m]) \in 0 .. RetryLimit
      BY <3>1
    <3> QED
      BY <1>1, <2>0, <3>2 DEF Retry
  <2>1b. handed' \in [Mails -> Nat] /\ unanswered' \in [Mails -> Nat]
    BY <1>1, <1>5 DEF DeliverFails, DeliverIsUnanswered
  <2>2. LifecycleTypeOK'
    BY <1>2, <2>1, <2>1a, <2>1b DEF MInv, LifecycleTypeOK, people, sweep
  <2> QED
    BY <1>1, <1>2, <1>5, <2>1, <2>2, SweepsStay DEF DeliverFails, DeliverIsUnanswered
<1> QED
  BY <1>3, <1>4, <1>5 DEF WorkerStep

-----------------------------------------------------------------------------
\* The two sides together.

IInv == EInv /\ MInv

\* A step of the mail's side leaves the reports alone.
LEMMA LifecycleIsQuiet ==
    ASSUME EInv, LifecycleNext
    PROVE  Quiet /\ faults' \in 0 .. MaxFaults
<1>0. faults \in 0 .. MaxFaults /\ MaxFaults \in Nat
  BY EventsAssumption DEF EInv, EventsTypeOK
<1>1. Calm \/ (Quiet /\ Fault) \/ (Quiet /\ UNCHANGED faults)
  <2>1. CASE \E a \in Addresses : SetPreference(a) \/ Deactivate(a)
    BY <2>1 DEF SetPreference, Deactivate
  <2>2. CASE OpenGate \/ CloseGate \/ NextNight
    BY <2>2 DEF OpenGate, CloseGate, NextNight
  <2>3. CASE \E s \in Sweepers : \/ StartSweep(s) \/ SweepStep(s) \/ EnqueueFails(s)
                                 \/ KindFails(s) \/ SweeperDies(s)
    BY <2>3 DEF StartSweep, SweepStep, DryRun, claim, sendEmailJob, NextKind, EnqueueFails,
                KindFails, SweeperDies
  <2>4. CASE \E m \in Mails : \/ WorkerStep(m) \/ DeliverFails(m)
                              \/ DeliverIsUnanswered(m) \/ JobIsDropped(m)
    BY <2>4 DEF WorkerStep, CheckRecipient, HandOver, DeliverFails, DeliverIsUnanswered,
                JobIsDropped
  <2> QED
    BY <2>1, <2>2, <2>3, <2>4 DEF LifecycleNext
<1> QED
  BY <1>0, <1>1 DEF Calm, Fault

LEMMA LifecycleKeeps ==
    ASSUME MInv, LifecycleNext
    PROVE  MInv'
<1>1. CASE \E s \in Sweepers : \/ StartSweep(s) \/ SweepStep(s) \/ EnqueueFails(s)
                               \/ KindFails(s) \/ SweeperDies(s)
  BY <1>1, SweepKeeps, ClaimKeeps, EnqueueKeeps DEF SweepStep
<1> QED
  BY <1>1, PeopleKeep, WorkerKeeps DEF LifecycleNext

\* A step of the reports' side leaves the mail alone.
LEMMA MailIsLeft ==
    ASSUME MInv, UNCHANGED lvars
    PROVE  MInv'
<1>1. LifecycleTypeOK' /\ opened' = opened
  BY DEF MInv, LifecycleTypeOK, lvars, people, sweep, mail
<1> QED
  BY <1>1, MailStays DEF lvars, sweep, mail

LEMMA StepKeeps ==
    ASSUME IInv, [Next]_vars
    PROVE  IInv'
<1>1. CASE LifecycleNext
  BY <1>1, LifecycleIsQuiet, LifecycleKeeps, QuietKeeps DEF IInv
<1>2. CASE EventsNext /\ UNCHANGED lvars
  BY <1>2, EventsKeep, MailIsLeft DEF IInv
<1>3. CASE UNCHANGED vars
  <2>1. Quiet /\ faults' \in 0 .. MaxFaults /\ UNCHANGED lvars
    BY <1>3 DEF vars, evars, Quiet, IInv, EInv, EventsTypeOK
  <2> QED
    BY <2>1, QuietKeeps, MailIsLeft DEF IInv
<1> QED
  BY <1>1, <1>2, <1>3 DEF Next

LEMMA InitEstablishes ==
    ASSUME Init
    PROVE  IInv
<1>1. EventsTypeOK
  BY EventsAssumption DEF Init, EventsInit, EventsTypeOK, Keys, Steps, SUPPRESSION_CAUSES
<1>2. InProgress
  BY DEF Init, EventsInit, InProgress, Sound
<1>2a. RowsAreReported /\ CountedAreStored /\ CauseIsEarned
  BY DEF Init, EventsInit, RowsAreReported, CountedAreStored, CauseIsEarned
<1>3. LifecycleTypeOK
  BY LifecycleAssumption, KindsTyped DEF Init, LifecycleInit, LifecycleTypeOK, Ends
<1>4. HandedIsAccounted /\ ClaimedBySweep /\ OneSweepEach /\ DryRunsSpendNothing
  BY DEF Init, LifecycleInit, HandedIsAccounted, ClaimedBySweep, OneSweepEach,
         DryRunsSpendNothing
<1> QED
  BY <1>1, <1>2, <1>2a, <1>3, <1>4 DEF IInv, EInv, MInv

LEMMA Invariance == Spec => []IInv
BY InitEstablishes, StepKeeps, PTL DEF Spec

-----------------------------------------------------------------------------
\* The theorems.

\* The state of the reports, the suppressions and the mail keeps its shape,
\* whatever is delivered, fails or dies.
THEOREM Types == Spec => []TypeOK
<1>1. IInv => TypeOK
  BY DEF IInv, EInv, MInv, TypeOK
<1> QED
  BY <1>1, Invariance, PTL

\* However often the relay delivers a report, and however many of the deliveries run
\* at once or fail half way: its event is counted once for each recipient.
THEOREM ReportsCountOnce == Spec => []CountedOnce
<1>1. IInv => CountedOnce
  BY DEF IInv, EInv, CountedAreStored, CountedOnce
<1> QED
  BY <1>1, Invariance, PTL

\* An address is suppressed only for what is on record about it, for every
\* threshold of soft bounces.
THEOREM CausesAreEarned == Spec => []CauseIsEarned
<1>1. IInv => CauseIsEarned
  BY DEF IInv, EInv
<1> QED
  BY <1>1, Invariance, PTL

\* Only an operator takes a suppression back, and no delivery rewrites its cause.
THEOREM FirstCausesStay == Spec => FirstCauseStays
<1>1. IInv /\ [Next]_vars =>
        [\A a \in Addresses : isSuppressed(a) /\ supp'[a] # supp[a] =>
           supp'[a] = "none" /\ lifts' = lifts + 1]_evars
  <2> SUFFICES ASSUME IInv, [Next]_vars, NEW a \in Addresses, isSuppressed(a),
                      supp'[a] # supp[a]
               PROVE  supp'[a] = "none" /\ lifts' = lifts + 1
    OBVIOUS
  <2>1. supp \in [Addresses -> SUPPRESSION_CAUSES \cup {"none"}]
    BY DEF IInv, EInv, EventsTypeOK
  <2>2. EventsNext
    BY LifecycleIsQuiet DEF IInv, Next, vars, evars, Quiet, tables
  <2>3. CASE \E b \in Addresses : removeSuppression(b)
    BY <2>1, <2>3 DEF removeSuppression
  <2>4. CASE \E h \in Handlers : InsertSuppression(h)
    BY <2>1, <2>4 DEF InsertSuppression, isSuppressed
  <2>5. CASE UNCHANGED supp
    BY <2>5
  <2> QED
    BY <2>2, <2>3, <2>4, <2>5
    DEF EventsNext, Report, Deliver, Age, HandlerStep, HandlerFault, LookForRow, SaveRow,
        SaveIsRefused, CountSoftBounces, FindSuppression, FindAgain, ClearBadge, Answer,
        SaveIsUnanswered, ClearBadgeFails, DeliveryFails, tables
<1> QED
  BY <1>1, Invariance, PTL DEF Spec, FirstCauseStays

\* A mail of the lifecycle goes out once, and once more only for each time the relay
\* took it without our being told, however many sweeps and retries there are.
THEOREM OnceInALife == Spec => []MailedOnce
<1>1. IInv => MailedOnce
  <2>1. ASSUME IInv, NEW m \in Mails
        PROVE  handed[m] <= 1 + unanswered[m]
    <3>1. /\ handed[m] = unanswered[m] + (IF job[m] = "sent" THEN 1 ELSE 0)
          /\ unanswered[m] \in Nat
      BY <2>1 DEF IInv, MInv, LifecycleTypeOK, HandedIsAccounted
    <3> QED
      BY <3>1
  <2> QED
    BY <2>1 DEF MailedOnce
<1> QED
  BY <1>1, Invariance, PTL

\* A claim is only ever made for a reader the gate has been open for.
THEOREM DryRunsAreFree == Spec => []DryRunsSpendNothing
<1>1. IInv => DryRunsSpendNothing
  BY DEF IInv, MInv
<1> QED
  BY <1>1, Invariance, PTL

-----------------------------------------------------------------------------
\* Who is taken in hand.

\* Sweep s has the mail in hand, as InHand says of any.
Sweeping(s, m) ==
    ~Idle(s) /\ Current(s) = m[2] /\ m[1] \in batch[s] \cup {queueing[s]}

\* The sweep s asks for readers of the next kind and keeps nothing of what it had.
LEMMA AskingIsWilling ==
    ASSUME MInv, NEW s \in Sweepers, NEW i \in 1 .. Len(Kinds) + 1, Begin(s, i),
           queueing'[s] = NoAddress, NEW m \in Mails, Sweeping(s, m)'
    PROVE  wants[m[1]] /\ active[m[1]] /\ ~isSuppressed(m[1]) /\ m \notin claims
<1>1. m[1] \in Addresses /\ m = <<m[1], m[2]>> /\ NoAddress \notin Addresses
  BY EventsAssumption DEF Mails
<1>2. kind'[s] = i /\ i <= Len(Kinds) /\ batch'[s] = candidates(Kinds[i])
  BY DEF Sweeping, Idle, Begin, MInv, LifecycleTypeOK
<1>3. m[2] = Kinds[i] /\ m[1] \in candidates(Kinds[i])
  BY <1>1, <1>2 DEF Sweeping, Current
<1> QED
  BY <1>1, <1>3 DEF candidates

\* Only a sweep that asks takes anybody in hand.
LEMMA HandsAreFilledByAsking ==
    ASSUME MInv, LifecycleNext, NEW m \in Mails, ~InHand(m), InHand(m)'
    PROVE  wants[m[1]] /\ active[m[1]] /\ ~isSuppressed(m[1]) /\ m \notin claims
<1>0. /\ ~(job[m] \in {"queued", "checked"})
      /\ \A s \in Sweepers : ~Sweeping(s, m)
      /\ \/ job'[m] \in {"queued", "checked"}
         \/ \E s \in Sweepers : Sweeping(s, m)'
  BY DEF InHand, Sweeping
<1>t. /\ kind \in [Sweepers -> 0 .. Len(Kinds)] /\ Len(Kinds) \in Nat
      /\ batch \in [Sweepers -> SUBSET Addresses]
      /\ queueing \in [Sweepers -> Addresses \cup {NoAddress}]
      /\ job \in [Mails -> {"none", "queued", "checked"} \cup Ends]
      /\ NoAddress \notin Addresses /\ m[1] \in Addresses /\ m = <<m[1], m[2]>>
  BY KindsTyped, EventsAssumption DEF MInv, LifecycleTypeOK, Mails
<1>1. ASSUME UNCHANGED sweep, \A n \in Mails : job'[n] \in {"queued", "checked"} =>
                                                 job[n] \in {"queued", "checked"}
      PROVE  FALSE
  BY <1>0, <1>1 DEF Sweeping, Idle, Current, sweep
<1>2. CASE \E a \in Addresses : SetPreference(a) \/ Deactivate(a)
  BY <1>1, <1>2 DEF SetPreference, Deactivate, mail
<1>3. CASE OpenGate \/ CloseGate
  BY <1>1, <1>3 DEF OpenGate, CloseGate, mail
<1>4. CASE NextNight
  BY <1>0, <1>4 DEF NextNight, Sweeping, Idle, Current, mail
<1>5. CASE \E n \in Mails : \/ WorkerStep(n) \/ DeliverFails(n)
                            \/ DeliverIsUnanswered(n) \/ JobIsDropped(n)
  <2>1. PICK n \in Mails : \/ WorkerStep(n) \/ DeliverFails(n)
                           \/ DeliverIsUnanswered(n) \/ JobIsDropped(n)
    BY <1>5
  <2>2. /\ UNCHANGED sweep /\ job[n] \in {"queued", "checked"}
        /\ \A x \in Mails \ {n} : job'[x] = job[x]
    BY <1>t, <2>1 DEF WorkerStep, CheckRecipient, HandOver, DeliverFails,
                      DeliverIsUnanswered, Retry, JobIsDropped
  <2> QED
    BY <1>1, <2>2
<1>6. CASE \E s \in Sweepers : \/ StartSweep(s) \/ SweepStep(s) \/ EnqueueFails(s)
                               \/ KindFails(s) \/ SweeperDies(s)
  <2>1. PICK s \in Sweepers : \/ StartSweep(s) \/ SweepStep(s) \/ EnqueueFails(s)
                              \/ KindFails(s) \/ SweeperDies(s)
    BY <1>6
  <2>2. \A t \in Sweepers \ {s} : kind'[t] = kind[t] /\ batch'[t] = batch[t]
                                  /\ queueing'[t] = queueing[t]
    BY <1>t, <2>1 DEF StartSweep, SweepStep, DryRun, claim, sendEmailJob, NextKind,
                      EnqueueFails, KindFails, SweeperDies, Begin
  <2>3. \A t \in Sweepers \ {s} : ~Sweeping(t, m)'
    BY <1>0, <2>2 DEF Sweeping, Idle, Current
  <2>4. CASE DryRun(s) \/ claim(s) \/ EnqueueFails(s)
    <3>1. /\ kind' = kind /\ ~Idle(s) /\ batch'[s] \subseteq batch[s] /\ job' = job
          /\ queueing'[s] \in batch[s] \cup {queueing[s], NoAddress}
      BY <1>t, <2>1, <2>4, QueuesTyped DEF DryRun, claim, EnqueueFails, mail
    <3> QED
      BY <1>0, <1>t, <2>3, <3>1 DEF Sweeping, Idle, Current
  <2>5. CASE sendEmailJob(s)
    <3>1. /\ kind' = kind /\ batch' = batch /\ queueing'[s] = NoAddress
          /\ ~Idle(s) /\ \A n \in Mails \ {Queues(s)} : job'[n] = job[n]
      BY <1>t, <2>5, QueuesTyped DEF sendEmailJob, Queues
    <3>2. Sweeping(s, Queues(s))
      BY <3>1 DEF Sweeping, Queues
    <3> QED
      BY <1>0, <1>t, <2>3, <3>1, <3>2 DEF Sweeping, Idle, Current
  <2>6. CASE SweeperDies(s)
    BY <1>0, <1>t, <2>3, <2>6 DEF SweeperDies, Sweeping, Idle, mail
  <2>7. CASE StartSweep(s)
    <3>1. queueing'[s] = NoAddress /\ 1 \in 1 .. Len(Kinds) + 1 /\ Begin(s, 1) /\ job' = job
      BY <1>t, <2>7 DEF StartSweep, MInv, ClaimedBySweep, mail
    <3> QED
      BY <1>0, <2>3, <3>1, AskingIsWilling
  <2>8. CASE NextKind(s) \/ KindFails(s)
    <3>1. /\ queueing'[s] = NoAddress /\ kind[s] + 1 \in 1 .. Len(Kinds) + 1
          /\ Begin(s, kind[s] + 1) /\ job' = job
      BY <1>t, <2>8 DEF NextKind, KindFails, mail
    <3> QED
      BY <1>0, <2>3, <3>1, AskingIsWilling
  <2> QED
    BY <2>1, <2>4, <2>5, <2>6, <2>7, <2>8 DEF SweepStep
<1> QED
  BY <1>2, <1>3, <1>4, <1>5, <1>6 DEF LifecycleNext

\* Nobody who has opted out, is gone, is suppressed or has had the mail is taken in
\* hand for it, by however many sweeps.
THEOREM OnlyWillingReadersAreTaken == Spec => OnlyWillingReaders
<1>1. ASSUME IInv, [Next]_vars, NEW m \in Mails, ~InHand(m),
             ~wants[m[1]] \/ ~active[m[1]] \/ isSuppressed(m[1]) \/ m \in claims
      PROVE  ~InHand(m)'
  <2>1. CASE LifecycleNext
    BY <1>1, <2>1, HandsAreFilledByAsking DEF IInv
  <2>2. CASE UNCHANGED lvars
    BY <1>1, <2>2 DEF InHand, Idle, Current, lvars, sweep, mail
  <2> QED
    BY <1>1, <2>1, <2>2 DEF Next, vars
<1>2. IInv /\ [Next]_vars =>
        [\A m \in Mails :
           /\ ~InHand(m)
           /\ ~wants[m[1]] \/ ~active[m[1]] \/ isSuppressed(m[1]) \/ m \in claims
           => ~InHand(m)']_vars
  BY <1>1
<1> QED
  BY <1>2, Invariance, PTL DEF Spec, OnlyWillingReaders

-----------------------------------------------------------------------------
\* The claims that came to nothing: what a failure leaves behind is the one mail a sweep
\* had claimed and not yet queued, since a sweep has one reader in hand at a time.

Lost == {m \in claims : ~OnItsWay(m)}

ClaimsInv == IsFiniteSet(Lost) /\ Cardinality(Lost) <= faults

LEMMA NoneIsLost ==
    ASSUME ClaimsInv, faults \in Nat, faults' \in Nat, faults <= faults', Lost' \subseteq Lost
    PROVE  ClaimsInv'
<1>1. IsFiniteSet(Lost') /\ Cardinality(Lost') <= Cardinality(Lost)
  BY FS_Subset DEF ClaimsInv
<1>2. Cardinality(Lost) \in Nat /\ Cardinality(Lost') \in Nat
  BY <1>1, FS_CardinalityType DEF ClaimsInv
<1>3. Cardinality(Lost') <= faults'
  BY <1>1, <1>2 DEF ClaimsInv
<1> QED
  BY <1>1, <1>3 DEF ClaimsInv

LEMMA OneIsLost ==
    ASSUME ClaimsInv, faults \in Nat, faults' = faults + 1, NEW m, Lost' \subseteq Lost \cup {m}
    PROVE  ClaimsInv'
<1> DEFINE More == Lost \cup {m}
<1>1. /\ IsFiniteSet(Lost) /\ Cardinality(Lost) <= faults /\ Cardinality(Lost) \in Nat
  BY FS_CardinalityType DEF ClaimsInv
<1>2. IsFiniteSet(More) /\ (Cardinality(More) = Cardinality(Lost) \/
                            Cardinality(More) = Cardinality(Lost) + 1)
  BY <1>1, FS_AddElement
<1>3. Lost' \subseteq More
  OBVIOUS
<1> HIDE DEF More
<1>4. IsFiniteSet(Lost') /\ Cardinality(Lost') <= Cardinality(More)
  BY <1>2, <1>3, FS_Subset
<1>5. Cardinality(More) \in Nat /\ Cardinality(Lost') \in Nat
  BY <1>2, <1>4, FS_CardinalityType
<1>6. Cardinality(Lost') <= faults'
  BY <1>1, <1>2, <1>4, <1>5
<1> QED
  BY <1>4, <1>6 DEF ClaimsInv

\* A claim stays on its way as long as its job and the sweep that has it in hand do.
LEMMA StaysOnItsWay ==
    ASSUME NEW m \in Mails, OnItsWay(m),
           job[m] # "none" => job'[m] # "none",
           \A s \in Sweepers : queueing[s] = m[1] /\ Current(s) = m[2] =>
             job'[m] # "none" \/ (queueing'[s] = queueing[s] /\ kind'[s] = kind[s])
    PROVE  OnItsWay(m)'
<1>1. CASE job[m] # "none"
  BY <1>1 DEF OnItsWay
<1>2. CASE \E s \in Sweepers : queueing[s] = m[1] /\ Current(s) = m[2]
  <2>1. PICK s \in Sweepers : queueing[s] = m[1] /\ Current(s) = m[2]
    BY <1>2
  <2>2. CASE job'[m] # "none"
    BY <2>2 DEF OnItsWay
  <2>3. CASE queueing'[s] = queueing[s] /\ kind'[s] = kind[s]
    <3>1. queueing'[s] = m[1] /\ Kinds[kind'[s]] = m[2]
      BY <2>1, <2>3 DEF Current
    <3>2. \E t \in Sweepers : queueing'[t] = m[1] /\ Kinds[kind'[t]] = m[2]
      BY <3>1
    <3> QED
      BY <3>2 DEF OnItsWay, Current
  <2> QED
    BY <2>1, <2>2, <2>3
<1> QED
  BY <1>1, <1>2 DEF OnItsWay

LEMMA JobsGoOn ==
    ASSUME MInv, NEW m \in Mails, job[m] # "none", WorkerStep(m) \/ DeliverFails(m)
             \/ DeliverIsUnanswered(m) \/ JobIsDropped(m)
    PROVE  \A n \in Mails : job[n] # "none" => job'[n] # "none"
<1>0. job \in [Mails -> {"none", "queued", "checked"} \cup Ends]
  BY DEF MInv, LifecycleTypeOK
<1>1. PICK end \in {"queued", "checked"} \cup Ends : job' = [job EXCEPT ![m] = end]
  <2>1. CASE CheckRecipient(m)
    BY <2>1 DEF CheckRecipient, Ends
  <2>2. CASE HandOver(m)
    BY <2>2 DEF HandOver, Ends
  <2>3. CASE Retry(m)
    BY <2>3 DEF Retry, Ends
  <2>4. CASE JobIsDropped(m)
    BY <2>4 DEF JobIsDropped, Ends
  <2> QED
    BY <2>1, <2>2, <2>3, <2>4 DEF WorkerStep, DeliverFails, DeliverIsUnanswered
<1>2. end # "none"
  BY <1>1 DEF Ends
<1> QED
  BY <1>0, <1>1, <1>2

LEMMA ClaimsAfterSweep ==
    ASSUME IInv, ClaimsInv, faults \in Nat, NEW s \in Sweepers,
           \/ StartSweep(s) \/ SweepStep(s) \/ EnqueueFails(s) \/ KindFails(s) \/ SweeperDies(s)
    PROVE  ClaimsInv'
<1>0. /\ kind \in [Sweepers -> 0 .. Len(Kinds)] /\ claims \subseteq Mails
      /\ queueing \in [Sweepers -> Addresses \cup {NoAddress}]
      /\ job \in [Mails -> {"none", "queued", "checked"} \cup Ends]
      /\ NoAddress \notin Addresses
      /\ Idle(s) => queueing[s] = NoAddress
  BY EventsAssumption DEF IInv, MInv, LifecycleTypeOK, ClaimedBySweep
<1>1. \A m \in Mails : m[1] \in Addresses /\ m[1] # NoAddress /\ m = <<m[1], m[2]>>
  BY <1>0 DEF Mails
<1>2. ASSUME queueing[s] = NoAddress, UNCHANGED <<claims, queueing, job, faults>>,
             \A t \in Sweepers \ {s} : kind'[t] = kind[t]
      PROVE  ClaimsInv'
  <2>1. ASSUME NEW m \in claims, OnItsWay(m)
        PROVE  OnItsWay(m)'
    BY <1>0, <1>1, <1>2, <2>1, StaysOnItsWay
  <2>2. Lost' \subseteq Lost
    BY <1>2, <2>1 DEF Lost
  <2> QED
    BY <1>2, <2>2, NoneIsLost
<1>3. ASSUME queueing' = [queueing EXCEPT ![s] = NoAddress], Fault, UNCHANGED <<claims, job>>,
             \A t \in Sweepers \ {s} : kind'[t] = kind[t]
      PROVE  ClaimsInv'
  <2>1. ASSUME NEW m \in claims, OnItsWay(m), m # Queues(s)
        PROVE  OnItsWay(m)'
    <3>1. ~(queueing[s] = m[1] /\ Current(s) = m[2])
      BY <1>0, <1>1, <2>1 DEF Queues
    <3>2. \A t \in Sweepers \ {s} : queueing'[t] = queueing[t] /\ kind'[t] = kind[t]
      BY <1>0, <1>3
    <3> QED
      BY <1>0, <1>3, <2>1, <3>1, <3>2, StaysOnItsWay
  <2>2. Lost' \subseteq Lost \cup {Queues(s)}
    BY <1>3, <2>1 DEF Lost
  <2>3. faults' = faults + 1
    BY <1>3 DEF Fault
  <2> QED
    BY <2>2, <2>3, OneIsLost
<1>4. CASE StartSweep(s)
  <2>1. \A t \in Sweepers \ {s} : kind'[t] = kind[t]
    BY <1>0, <1>4 DEF StartSweep, Begin
  <2> QED
    BY <1>0, <1>2, <1>4, <2>1 DEF StartSweep, Calm, mail
<1>5. CASE DryRun(s)
  BY <1>0, <1>2, <1>5 DEF DryRun, Calm, mail
<1>6. CASE NextKind(s)
  <2>1. \A t \in Sweepers \ {s} : kind'[t] = kind[t]
    BY <1>0, <1>6 DEF NextKind, Begin
  <2> QED
    BY <1>0, <1>2, <1>6, <2>1 DEF NextKind, Calm, mail
<1>7. CASE claim(s)
  <2>1. /\ queueing[s] = NoAddress /\ UNCHANGED <<kind, job, faults>>
    BY <1>7 DEF claim, Calm, mail
  <2>2. CASE UNCHANGED <<claims, queueing>>
    BY <1>2, <2>1, <2>2
  <2>3. ASSUME NEW a \in batch[s], claims' = claims \cup {<<a, Current(s)>>},
               queueing' = [queueing EXCEPT ![s] = a]
        PROVE  ClaimsInv'
    <3>1. queueing'[s] = a /\ \A t \in Sweepers \ {s} : queueing'[t] = queueing[t]
      BY <1>0, <2>3
    <3>2. ASSUME NEW m \in claims, OnItsWay(m)
          PROVE  OnItsWay(m)'
      BY <1>0, <1>1, <2>1, <3>1, <3>2, StaysOnItsWay
    <3>3. ASSUME NEW m, m = <<a, Current(s)>>
          PROVE  OnItsWay(m)'
      <4>1. Kinds[kind'[s]] = m[2] /\ queueing'[s] = m[1]
        BY <2>1, <3>1, <3>3 DEF Current
      <4>2. \E t \in Sweepers : queueing'[t] = m[1] /\ Kinds[kind'[t]] = m[2]
        BY <4>1
      <4> QED
        BY <4>2 DEF OnItsWay, Current
    <3>4. Lost' \subseteq Lost
      BY <2>3, <3>2, <3>3 DEF Lost
    <3> QED
      BY <2>1, <3>4, NoneIsLost
  <2> QED
    BY <1>7, <2>2, <2>3 DEF claim
<1>8. CASE sendEmailJob(s)
  <2>1. /\ queueing[s] # NoAddress /\ UNCHANGED <<claims, kind, faults>>
        /\ job' = [job EXCEPT ![Queues(s)] = "queued"]
        /\ queueing' = [queueing EXCEPT ![s] = NoAddress]
    BY <1>8 DEF sendEmailJob, Calm, Queues
  <2>2. \A m \in Mails : job'[m] = IF m = Queues(s) THEN "queued" ELSE job[m]
    BY <1>0, <2>1
  <2>3. ASSUME NEW m \in claims, OnItsWay(m)
        PROVE  OnItsWay(m)'
    <3>1. queueing[s] = m[1] /\ Current(s) = m[2] => m = Queues(s)
      BY <1>0, <1>1 DEF Queues
    <3>2. \A t \in Sweepers \ {s} : queueing'[t] = queueing[t] /\ kind'[t] = kind[t]
      BY <1>0, <2>1
    <3> QED
      BY <1>0, <2>2, <2>3, <3>1, <3>2, StaysOnItsWay
  <2>4. Lost' \subseteq Lost
    BY <2>1, <2>3 DEF Lost
  <2> QED
    BY <2>1, <2>4, NoneIsLost
<1>9. CASE EnqueueFails(s)
  BY <1>0, <1>3, <1>9 DEF EnqueueFails, mail
<1>10. CASE KindFails(s)
  <2>1. \A t \in Sweepers \ {s} : kind'[t] = kind[t]
    BY <1>0, <1>10 DEF KindFails, Begin
  <2> QED
    BY <1>3, <1>10, <2>1 DEF KindFails, mail
<1>11. CASE SweeperDies(s)
  <2>1. \A t \in Sweepers \ {s} : kind'[t] = kind[t]
    BY <1>0, <1>11 DEF SweeperDies
  <2> QED
    BY <1>3, <1>11, <2>1 DEF SweeperDies, mail
<1> QED
  BY <1>4, <1>5, <1>6, <1>7, <1>8, <1>9, <1>10, <1>11 DEF SweepStep

\* A claim spends the reader's one chance, and a failure loses one claim at most, for any
\* number of sweeps, readers, kinds and nights.
THEOREM ClaimsAreNotLost == Spec => []ClaimsAreKept
<1>1. Init => ClaimsInv
  <2> SUFFICES ASSUME Init PROVE ClaimsInv
    OBVIOUS
  <2>1. Lost = {} /\ faults = 0
    BY DEF Init, EventsInit, LifecycleInit, Lost
  <2>2. IsFiniteSet(Lost) /\ Cardinality(Lost) = 0
    BY <2>1, FS_EmptySet
  <2> QED
    BY <2>1, <2>2 DEF ClaimsInv
<1>2. IInv /\ IInv' /\ ClaimsInv /\ [Next]_vars => ClaimsInv'
  <2> SUFFICES ASSUME IInv, IInv', ClaimsInv, [Next]_vars
               PROVE  ClaimsInv'
    OBVIOUS
  <2>0. faults \in Nat /\ faults' \in Nat /\ claims \subseteq Mails
    BY EventsAssumption DEF IInv, EInv, EventsTypeOK, MInv, LifecycleTypeOK
  <2>1. ASSUME UNCHANGED <<claims, kind, queueing>>, faults <= faults',
               \A m \in Mails : job[m] # "none" => job'[m] # "none"
        PROVE  ClaimsInv'
    <3>1. ASSUME NEW m \in claims, OnItsWay(m)
          PROVE  OnItsWay(m)'
      BY <2>0, <2>1, <3>1, StaysOnItsWay
    <3>2. Lost' \subseteq Lost
      BY <2>1, <3>1 DEF Lost
    <3> QED
      BY <2>0, <2>1, <3>2, NoneIsLost
  <2>2. CASE \E s \in Sweepers : \/ StartSweep(s) \/ SweepStep(s) \/ EnqueueFails(s)
                                 \/ KindFails(s) \/ SweeperDies(s)
    BY <2>0, <2>2, ClaimsAfterSweep
  <2>3. CASE \/ \E a \in Addresses : SetPreference(a) \/ Deactivate(a)
             \/ OpenGate \/ CloseGate \/ NextNight
    <3>1. UNCHANGED <<claims, kind, queueing, job>>
      BY <2>3 DEF SetPreference, Deactivate, OpenGate, CloseGate, NextNight, sweep, mail
    <3>2. faults' = faults \/ faults' = faults + 1
      BY <2>3 DEF SetPreference, Deactivate, OpenGate, CloseGate, NextNight, Calm, Fault
    <3> QED
      BY <2>0, <2>1, <3>1, <3>2
  <2>4. CASE \E m \in Mails : \/ WorkerStep(m) \/ DeliverFails(m)
                              \/ DeliverIsUnanswered(m) \/ JobIsDropped(m)
    <3>1. PICK m \in Mails : \/ WorkerStep(m) \/ DeliverFails(m)
                             \/ DeliverIsUnanswered(m) \/ JobIsDropped(m)
      BY <2>4
    <3>2. /\ UNCHANGED <<claims, kind, queueing>> /\ job[m] # "none"
          /\ faults' = faults \/ faults' = faults + 1
      BY <3>1 DEF WorkerStep, CheckRecipient, HandOver, DeliverFails, DeliverIsUnanswered,
                  JobIsDropped, Calm, Fault, sweep
    <3>3. \A n \in Mails : job[n] # "none" => job'[n] # "none"
      BY <3>1, <3>2, JobsGoOn DEF IInv
    <3> QED
      BY <2>0, <2>1, <3>2, <3>3
  <2>5. CASE EventsNext /\ UNCHANGED lvars
    <3>1. faults' = faults \/ faults' = faults + 1
      BY <2>5 DEF EventsNext, Report, Deliver, Age, removeSuppression, HandlerStep, HandlerFault,
           LookForRow, SaveRow, SaveIsRefused, CountSoftBounces, FindSuppression,
           InsertSuppression, FindAgain, ClearBadge, Answer, SaveIsUnanswered,
           ClearBadgeFails, DeliveryFails, Fault
    <3> QED
      BY <2>0, <2>1, <2>5, <3>1 DEF lvars, sweep, mail
  <2>6. CASE UNCHANGED vars
    BY <2>0, <2>1, <2>6 DEF vars, evars, lvars, sweep, mail
  <2> QED
    BY <2>2, <2>3, <2>4, <2>5, <2>6 DEF Next, LifecycleNext
<1>3. ClaimsInv => ClaimsAreKept
  BY DEF ClaimsInv, Lost, ClaimsAreKept
<1> QED
  BY <1>1, <1>2, <1>3, Invariance, PTL DEF Spec
-----------------------------------------------------------------------------
\* What is on record is acted upon.  A delivery goes past a recipient only when the row is
\* stored, so that a report that is answered has all of its rows; and whoever stored a row
\* suppresses its address, unless the delivery fails or an operator lifts it.

RecordOf(h) ==
    pc[h] # "idle" => \A a \in report[hook[h]].to \ todo[h] : <<hook[h], a>> \in rows

AnsweredOnRecord ==
    \A w \in answered : Event(w) # "none" /\ \A a \in report[w].to : <<w, a>> \in rows

OnRecord == AnsweredOnRecord /\ \A h \in Handlers : RecordOf(h)

Attended(a) == isSuppressed(a) \/ \E h \in Handlers : at[h] = a /\ pc[h] \in {"find", "insert"}
Counting(a) == \E h \in Handlers : at[h] = a /\ pc[h] = "count"

Telling == {"hard_bounce", "complaint"}

NoticedAt(a) ==
    /\ softBouncedTooOften(a) >= SoftLimit => Attended(a) \/ Counting(a)
    /\ \A w \in Webhooks : <<w, a>> \in rows /\ Event(w) \in Telling => Attended(a)

NoticedInv == faults = 0 /\ lifts = 0 => \A a \in Addresses : NoticedAt(a)

\* The record of a delivery the step leaves alone.
LEMMA RecordStays ==
    ASSUME EInv, OnlyMore, NEW g \in Handlers, RecordOf(g),
           pc'[g] = pc[g], hook'[g] = hook[g], todo'[g] = todo[g]
    PROVE  RecordOf(g)'
<1>1. pc[g] # "idle" => report'[hook[g]] = report[hook[g]]
  BY DEF EInv, InProgress, Sound, OnlyMore
<1> QED
  BY <1>1 DEF RecordOf, OnlyMore

LEMMA AnsweredStay ==
    ASSUME EInv, OnlyMore, AnsweredOnRecord, answered' = answered
    PROVE  AnsweredOnRecord'
<1>1. \A w \in answered : w \in Webhooks /\ report'[w] = report[w]
  BY DEF EInv, EventsTypeOK, AnsweredOnRecord, OnlyMore
<1> QED
  BY <1>1 DEF AnsweredOnRecord, OnlyMore, Event

\* The delivery h goes on in one of the ways there are.
LEMMA RecordAfter ==
    ASSUME EInv, OnlyMore, OnRecord, NEW h \in Handlers, pc[h] # "idle", answered' = answered,
           UNCHANGED report,
           \/ \E a : NextRecipient(h, a) /\ <<hook[h], a>> \in rows'
           \/ Leave(h)
           \/ UNCHANGED <<hook, todo>> /\ \E step \in Steps : Go(h, step)
    PROVE  OnRecord'
<1>0. /\ pc \in [Handlers -> Steps] /\ todo \in [Handlers -> SUBSET Addresses]
      /\ hook \in [Handlers -> Webhooks \cup {NoHook}]
  BY DEF EInv, EventsTypeOK
<1>1. AnsweredOnRecord'
  BY AnsweredStay DEF OnRecord
<1>2. ASSUME NEW g \in Handlers \ {h}
      PROVE  RecordOf(g)'
  <2>1. pc'[g] = pc[g] /\ hook'[g] = hook[g] /\ todo'[g] = todo[g]
    BY <1>0 DEF NextRecipient, Leave, Go
  <2> QED
    BY <2>1, RecordStays DEF OnRecord
<1>3. RecordOf(h)'
  <2>1. CASE \E a : NextRecipient(h, a) /\ <<hook[h], a>> \in rows'
    <3>1. PICK a : NextRecipient(h, a) /\ <<hook[h], a>> \in rows'
      BY <2>1
    <3>2. todo'[h] = todo[h] \ {a} /\ hook'[h] = hook[h]
      BY <1>0, <3>1 DEF NextRecipient
    <3>3. \A b \in report[hook[h]].to \ todo[h] : <<hook[h], b>> \in rows'
      BY DEF OnRecord, RecordOf, OnlyMore
    <3> QED
      BY <3>1, <3>2, <3>3 DEF RecordOf
  <2>2. CASE Leave(h)
    <3>1. pc'[h] = "idle"
      BY <1>0, <2>2 DEF Leave, Go
    <3> QED
      BY <3>1 DEF RecordOf
  <2>3. CASE UNCHANGED <<hook, todo>>
    BY <2>3 DEF OnRecord, RecordOf, OnlyMore
  <2> QED
    BY <2>1, <2>2, <2>3
<1> QED
  BY <1>1, <1>2, <1>3 DEF OnRecord

LEMMA EventsStayOnRecord ==
    ASSUME EInv, OnRecord, EventsNext
    PROVE  OnRecord'
<1>0. /\ OnlyMore /\ pc \in [Handlers -> Steps] /\ todo \in [Handlers -> SUBSET Addresses]
      /\ hook \in [Handlers -> Webhooks \cup {NoHook}]
  BY StepsOnlyAdd DEF EInv, EventsTypeOK
<1>1. ASSUME UNCHANGED <<answered, delivery>>
      PROVE  OnRecord'
  BY <1>0, <1>1, AnsweredStay, RecordStays DEF OnRecord, delivery
<1>2. ASSUME NEW h \in Handlers, NEW w \in Webhooks, Deliver(h, w)
      PROVE  OnRecord'
  <2>1. /\ \A g \in Handlers \ {h} :
             pc'[g] = pc[g] /\ hook'[g] = hook[g] /\ todo'[g] = todo[g]
        /\ hook'[h] = w /\ todo'[h] = report[w].to /\ report' = report /\ answered' = answered
    BY <1>0, <1>2 DEF Deliver, Go
  <2>2. RecordOf(h)'
    BY <2>1 DEF RecordOf
  <2> QED
    BY <1>0, <2>1, <2>2, AnsweredStay, RecordStays DEF OnRecord
<1>3. ASSUME NEW h \in Handlers, Answer(h)
      PROVE  OnRecord'
  <2>1. /\ pc[h] = "next" /\ todo[h] = {} /\ Leave(h) /\ report' = report /\ rows' = rows
        /\ answered' = answered \cup {hook[h]}
    BY <1>3 DEF Answer, Does, tables
  <2>2. /\ hook[h] \in Webhooks /\ Event(hook[h]) # "none"
        /\ \A a \in report[hook[h]].to : <<hook[h], a>> \in rows
    BY <2>1 DEF EInv, InProgress, Sound, OnRecord, RecordOf
  <2>3. AnsweredOnRecord'
    BY <2>1, <2>2 DEF OnRecord, AnsweredOnRecord, Event
  <2>4. /\ \A g \in Handlers \ {h} :
             pc'[g] = pc[g] /\ hook'[g] = hook[g] /\ todo'[g] = todo[g]
        /\ pc'[h] = "idle"
    BY <1>0, <2>1 DEF Leave, Go
  <2>5. RecordOf(h)'
    BY <2>4 DEF RecordOf
  <2> QED
    BY <1>0, <2>3, <2>4, <2>5, RecordStays DEF OnRecord
<1>4. ASSUME NEW h \in Handlers,
             \/ LookForRow(h) \/ SaveRow(h) \/ SaveIsRefused(h) \/ SaveIsUnanswered(h)
      PROVE  OnRecord'
  <2>1. pc[h] # "idle" /\ UNCHANGED <<report, answered>>
    BY <1>4 DEF LookForRow, SaveRow, SaveIsRefused, SaveIsUnanswered, Does
  <2>2. CASE LookForRow(h)
    <3>1. PICK a \in todo[h] :
            IF <<hook[h], a>> \in rows
              THEN NextRecipient(h, a)
              ELSE Go(h, "save") /\ UNCHANGED <<hook, todo>>
      BY <2>2 DEF LookForRow
    <3>2. rows' = rows
      BY <2>2 DEF LookForRow, tables
    <3> QED
      BY <1>0, <2>1, <3>1, <3>2, RecordAfter DEF Steps
  <2>3. CASE SaveRow(h)
    <3>1. <<hook[h], at[h]>> \in rows'
      BY <2>3 DEF SaveRow, Key
    <3>2. \/ NextRecipient(h, at[h])
          \/ Go(h, applyEvent(Event(hook[h]))) /\ UNCHANGED <<hook, todo>>
      BY <2>3 DEF SaveRow
    <3>3. applyEvent(Event(hook[h])) \in Steps
      BY DEF applyEvent, Steps
    <3> QED
      BY <1>0, <2>1, <3>1, <3>2, <3>3, RecordAfter
  <2>4. CASE SaveIsRefused(h) \/ SaveIsUnanswered(h)
    <3>1. <<hook[h], at[h]>> \in rows' /\ NextRecipient(h, at[h])
      BY <2>4 DEF SaveIsRefused, SaveIsUnanswered, RowIsNew, Key, tables
    <3> QED
      BY <1>0, <2>1, <3>1, RecordAfter
  <2> QED
    BY <1>4, <2>2, <2>3, <2>4
<1>5. ASSUME NEW h \in Handlers,
             \/ CountSoftBounces(h) \/ FindSuppression(h) \/ InsertSuppression(h)
             \/ FindAgain(h) \/ ClearBadge(h) \/ ClearBadgeFails(h) \/ DeliveryFails(h)
      PROVE  OnRecord'
  <2>1. pc[h] # "idle" /\ UNCHANGED <<report, answered>> /\ rows' = rows
    BY <1>5 DEF CountSoftBounces, FindSuppression, InsertSuppression, FindAgain, ClearBadge,
                ClearBadgeFails, DeliveryFails, Does, tables
  <2>2. \/ NextRecipient(h, at[h]) /\ pc[h] \notin {"idle", "next", "save"}
        \/ Leave(h)
        \/ UNCHANGED <<hook, todo>> /\ \E step \in Steps : Go(h, step)
    BY <1>5 DEF CountSoftBounces, FindSuppression, InsertSuppression, FindAgain, ClearBadge,
                ClearBadgeFails, DeliveryFails, AfterSuppress, Does, Steps
  <2>3. pc[h] \notin {"idle", "next", "save"} => <<hook[h], at[h]>> \in rows'
    BY <2>1 DEF EInv, InProgress, Sound, Key
  <2> QED
    BY <1>0, <2>1, <2>2, <2>3, RecordAfter
<1>6. ASSUME NEW w \in Webhooks, Report(w)
      PROVE  OnRecord'
  BY <1>1, <1>6 DEF Report
<1>7. CASE Age \/ \E a \in Addresses : removeSuppression(a)
  BY <1>1, <1>7 DEF Age, removeSuppression
<1> QED
  BY <1>2, <1>3, <1>4, <1>5, <1>6, <1>7 DEF EventsNext, HandlerStep, HandlerFault
\* Rows that tell something of the address are those there were.
NoNews(a) ==
    \A w \in Webhooks :
      <<w, a>> \in rows' /\ Event(w)' \in Telling \cup {"soft_bounce"} => <<w, a>> \in rows

LEMMA NothingNew ==
    ASSUME EInv, OnlyMore, NEW a \in Addresses, NoNews(a), aged \subseteq aged'
    PROVE  /\ softBouncedTooOften(a)' >= SoftLimit => softBouncedTooOften(a) >= SoftLimit
           /\ \A w \in Webhooks : <<w, a>> \in rows' /\ Event(w)' \in Telling
                => <<w, a>> \in rows /\ Event(w) \in Telling
<1> DEFINE Recent == {w \in SoftRows(a) : <<w, a>> \notin aged}
<1> DEFINE After == {w \in SoftRows(a)' : <<w, a>> \notin aged'}
<1>1. \A w \in Webhooks : <<w, a>> \in rows => Event(w)' = Event(w)
  BY DEF EInv, RowsAreReported, OnlyMore, Event
<1>2. After \subseteq Recent
  BY <1>1 DEF SoftRows, NoNews
<1>3. IsFiniteSet(Recent) /\ Cardinality(Recent) \in Nat
  <2>1. Recent \subseteq Webhooks
    BY DEF SoftRows
  <2> QED
    BY <2>1, EventsAssumption, FS_Subset, FS_CardinalityType
<1>4. IsFiniteSet(After) /\ Cardinality(After) <= Cardinality(Recent)
  BY <1>2, <1>3, FS_Subset
<1>5. Cardinality(After) \in Nat
  BY <1>4, FS_CardinalityType
<1>6. softBouncedTooOften(a) = Cardinality(Recent) /\ softBouncedTooOften(a)' = Cardinality(After)
  BY DEF softBouncedTooOften
<1> HIDE DEF Recent, After
<1>7. softBouncedTooOften(a)' >= SoftLimit => softBouncedTooOften(a) >= SoftLimit
  BY <1>3, <1>4, <1>5, <1>6, EventsAssumption
<1> QED
  BY <1>1, <1>7 DEF NoNews

\* Nothing new is on record, and whoever was at the address still is or is done.
LEMMA NoticedStays ==
    ASSUME EInv, OnlyMore, NEW a \in Addresses, NoNews(a), aged \subseteq aged', NoticedAt(a),
           Attended(a) => Attended(a)',
           softBouncedTooOften(a) >= SoftLimit /\ Counting(a) => Attended(a)' \/ Counting(a)'
    PROVE  NoticedAt(a)'
BY NothingNew DEF NoticedAt

\* A delivery goes on, and the others are left alone.
LEMMA AttendedStays ==
    ASSUME NEW a \in Addresses, NEW h \in Handlers,
           \A g \in Handlers \ {h} : Untouched(g),
           isSuppressed(a) => isSuppressed(a)',
           at[h] = a /\ pc[h] \in {"find", "insert"} =>
             isSuppressed(a)' \/ (at'[h] = a /\ pc'[h] \in {"find", "insert"})
    PROVE  Attended(a) => Attended(a)'
<1> SUFFICES ASSUME Attended(a), ~isSuppressed(a)'
             PROVE  Attended(a)'
  BY DEF Attended
<1>1. PICK g \in Handlers : at[g] = a /\ pc[g] \in {"find", "insert"}
  BY DEF Attended
<1>2. at'[g] = a /\ pc'[g] \in {"find", "insert"}
  BY <1>1 DEF Untouched
<1> QED
  BY <1>2 DEF Attended

LEMMA CountingStays ==
    ASSUME NEW a \in Addresses, NEW h \in Handlers, \A g \in Handlers \ {h} : Untouched(g),
           Counting(a), ~(at[h] = a /\ pc[h] = "count")
    PROVE  Counting(a)'
<1>1. PICK g \in Handlers : at[g] = a /\ pc[g] = "count"
  BY DEF Counting
<1>2. at'[g] = a /\ pc'[g] = "count"
  BY <1>1 DEF Untouched
<1> QED
  BY <1>2 DEF Counting

\* The row of an event is stored, and what it means is up next.
LEMMA SavedIsNoticed ==
    ASSUME EInv, OnlyMore, NEW h \in Handlers, SaveRow(h), NEW a \in Addresses, NoticedAt(a),
           \A g \in Handlers \ {h} : Untouched(g)
    PROVE  NoticedAt(a)'
<1>0. /\ pc[h] = "save" /\ rows' = rows \cup {Key(h)} /\ aged' = aged /\ supp' = supp
      /\ report' = report
      /\ pc \in [Handlers -> Steps] /\ at \in [Handlers -> Addresses \cup {NoAddress}]
      /\ hook[h] \in Webhooks /\ Event(hook[h]) \in Events
  <2>1. pc[h] = "save" /\ rows' = rows \cup {Key(h)} /\ aged' = aged /\ supp' = supp
        /\ report' = report
    BY DEF SaveRow, Does
  <2>2. hook[h] \in Webhooks /\ Event(hook[h]) # "none"
    BY <2>1 DEF EInv, InProgress, Sound
  <2> QED
    BY <2>1, <2>2 DEF EInv, EventsTypeOK, Event
<1>1. /\ Attended(a) => Attended(a)'
      /\ Counting(a) => Counting(a)'
  BY <1>0, AttendedStays, CountingStays DEF isSuppressed
<1>2. CASE at[h] # a \/ Event(hook[h]) \notin Telling \cup {"soft_bounce"}
  <2>1. NoNews(a)
    BY <1>0, <1>2 DEF NoNews, Key, Event
  <2> QED
    BY <1>0, <1>1, <2>1, NoticedStays
<1>3. CASE at[h] = a /\ Event(hook[h]) \in Telling
  <2>1. applyEvent(Event(hook[h])) = "find"
    BY <1>3 DEF applyEvent, Telling
  <2>2. at'[h] = a /\ pc'[h] = "find"
    BY <1>0, <1>3, <2>1 DEF SaveRow, Go
  <2>3. Attended(a)'
    BY <2>2 DEF Attended
  <2> QED
    BY <2>3 DEF NoticedAt
<1>4. CASE at[h] = a /\ Event(hook[h]) = "soft_bounce"
  <2>1. applyEvent(Event(hook[h])) = "count"
    BY <1>4 DEF applyEvent
  <2>2. at'[h] = a /\ pc'[h] = "count"
    BY <1>0, <1>4, <2>1 DEF SaveRow, Go
  <2>3. Counting(a)'
    BY <2>2 DEF Counting
  <2>4. \A w \in Webhooks : <<w, a>> \in rows' /\ Event(w)' \in Telling
          => <<w, a>> \in rows /\ Event(w) \in Telling
    BY <1>0, <1>4 DEF Key, Event, Telling
  <2> QED
    BY <1>1, <2>3, <2>4 DEF NoticedAt
<1> QED
  BY <1>2, <1>3, <1>4

\* The last of the soft bounces is noticed by whoever counts them, or they are too few.
LEMMA CountedIsNoticed ==
    ASSUME EInv, OnlyMore, NEW h \in Handlers, CountSoftBounces(h), NEW a \in Addresses,
           NoticedAt(a), \A g \in Handlers \ {h} : Untouched(g)
    PROVE  NoticedAt(a)'
<1>0. /\ pc[h] = "count" /\ rows' = rows /\ aged' = aged /\ supp' = supp
      /\ pc \in [Handlers -> Steps] /\ at \in [Handlers -> Addresses \cup {NoAddress}]
  BY DEF CountSoftBounces, Does, tables, EInv, EventsTypeOK
<1>1. NoNews(a) /\ (Attended(a) => Attended(a)')
  BY <1>0, AttendedStays DEF NoNews, isSuppressed
<1>2. ASSUME softBouncedTooOften(a) >= SoftLimit, Counting(a)
      PROVE  Attended(a)' \/ Counting(a)'
  <2>1. CASE at[h] = a
    <3>1. softBouncedTooOften(a) \in Nat
      <4>1. {w \in SoftRows(a) : <<w, a>> \notin aged} \subseteq Webhooks
        BY DEF SoftRows
      <4> QED
        BY <4>1, EventsAssumption, FS_Subset, FS_CardinalityType DEF softBouncedTooOften
    <3>2. ~(softBouncedTooOften(a) < SoftLimit)
      BY <1>2, <3>1, EventsAssumption
    <3>3. at'[h] = a /\ pc'[h] = "find"
      BY <1>0, <2>1, <3>2 DEF CountSoftBounces, Go
    <3> QED
      BY <3>3 DEF Attended
  <2>2. CASE at[h] # a
    BY <1>2, <2>2, CountingStays
  <2> QED
    BY <2>1, <2>2
<1> QED
  BY <1>0, <1>1, <1>2, NoticedStays

\* The other steps of a delivery store nothing and count nothing.
LEMMA OthersNotice ==
    ASSUME EInv, OnlyMore, NEW h \in Handlers, NEW a \in Addresses, NoticedAt(a),
           \A g \in Handlers \ {h} : Untouched(g),
           \/ LookForRow(h) \/ SaveIsRefused(h) \/ FindSuppression(h) \/ InsertSuppression(h)
           \/ FindAgain(h) \/ ClearBadge(h) \/ Answer(h)
    PROVE  NoticedAt(a)'
<1>0. /\ rows' = rows /\ aged' = aged /\ pc[h] # "count"
      /\ pc \in [Handlers -> Steps] /\ at \in [Handlers -> Addresses \cup {NoAddress}]
      /\ supp \in [Addresses -> SUPPRESSION_CAUSES \cup {"none"}]
  BY DEF LookForRow, SaveIsRefused, FindSuppression, InsertSuppression, FindAgain, ClearBadge,
         Answer, Does, tables, EInv, EventsTypeOK
<1>1. NoNews(a)
  BY <1>0 DEF NoNews
<1>2. Counting(a) => Counting(a)'
  BY <1>0, CountingStays
<1>3. Attended(a) => Attended(a)'
  <2>1. CASE FindSuppression(h)
    <3>1. supp' = supp /\ pc[h] = "find"
      BY <2>1 DEF FindSuppression, Does, tables
    <3>2. at[h] = a => isSuppressed(a) \/ (at'[h] = a /\ pc'[h] = "insert")
      BY <1>0, <2>1 DEF FindSuppression, Go
    <3> QED
      BY <3>1, <3>2, AttendedStays DEF isSuppressed
  <2>2. CASE InsertSuppression(h)
    <3>1. at[h] \in Addresses /\ Event(hook[h]) # "none"
      BY <2>2 DEF InsertSuppression, Does, EInv, InProgress, Sound
    <3>2. CASE isSuppressed(at[h])
      <4>1. supp' = supp
        BY <2>2, <3>2 DEF InsertSuppression
      <4> QED
        BY <3>2, <4>1, AttendedStays DEF isSuppressed
    <3>3. CASE ~isSuppressed(at[h])
      <4>1. supp' = [supp EXCEPT ![at[h]] = Cause(Event(hook[h]))]
        BY <2>2, <3>3 DEF InsertSuppression
      <4>2. Cause(Event(hook[h])) # "none"
        BY <3>1 DEF Cause
      <4>3. supp'[at[h]] # "none" /\ (a # at[h] => supp'[a] = supp[a])
        BY <1>0, <3>1, <4>1, <4>2
      <4>4. (at[h] = a => isSuppressed(a)') /\ (isSuppressed(a) => isSuppressed(a)')
        BY <4>3 DEF isSuppressed
      <4> QED
        BY <4>4, AttendedStays
    <3> QED
      BY <3>2, <3>3
  <2>3. CASE pc[h] \notin {"find", "insert"} /\ supp' = supp
    BY <2>3, AttendedStays DEF isSuppressed
  <2> QED
    BY <2>1, <2>2, <2>3 DEF LookForRow, SaveIsRefused, FindAgain, ClearBadge, Answer, Does,
         tables
<1> QED
  BY <1>0, <1>1, <1>2, <1>3, NoticedStays
LEMMA EventsNotice ==
    ASSUME EInv, NoticedInv, EventsNext, faults' \in Nat, lifts' \in Nat
    PROVE  NoticedInv'
<1> SUFFICES ASSUME faults' = 0, lifts' = 0, NEW a \in Addresses
             PROVE  NoticedAt(a)'
  BY DEF NoticedInv
<1>0. OnlyMore /\ faults \in Nat /\ lifts \in Nat
  BY StepsOnlyAdd, EventsAssumption DEF EInv, EventsTypeOK
<1>1. faults = 0 /\ lifts = 0 /\ ~Fault /\ \A b \in Addresses : ~removeSuppression(b)
  <2>1. ~Fault /\ \A b \in Addresses : ~removeSuppression(b)
    BY <1>0 DEF Fault, removeSuppression
  <2>2. UNCHANGED <<faults, lifts>>
    BY <2>1 DEF EventsNext, Report, Deliver, Age, HandlerStep, HandlerFault, LookForRow, SaveRow,
       SaveIsRefused, CountSoftBounces, FindSuppression, InsertSuppression, FindAgain,
       ClearBadge, Answer, SaveIsUnanswered, ClearBadgeFails, DeliveryFails
  <2> QED
    BY <2>1, <2>2
<1>2. NoticedAt(a)
  BY <1>1 DEF NoticedInv
<1>3. ASSUME rows' = rows, aged \subseteq aged', supp' = supp,
             \A h \in Handlers : pc[h] \in {"find", "insert", "count"} =>
               pc'[h] = pc[h] /\ at'[h] = at[h]
      PROVE  NoticedAt(a)'
  <2>1. NoNews(a)
    BY <1>3 DEF NoNews
  <2>2. (Attended(a) => Attended(a)') /\ (Counting(a) => Counting(a)')
    BY <1>3 DEF Attended, Counting, isSuppressed
  <2> QED
    BY <1>0, <1>2, <1>3, <2>1, <2>2, NoticedStays
<1>4. ASSUME NEW w \in Webhooks, Report(w)
      PROVE  NoticedAt(a)'
  BY <1>3, <1>4 DEF Report, tables, delivery
<1>5. CASE Age
  BY <1>3, <1>5 DEF Age, delivery
<1>6. ASSUME NEW w \in Webhooks, NEW h \in Handlers, Deliver(h, w)
      PROVE  NoticedAt(a)'
  <2>1. pc \in [Handlers -> Steps]
    BY DEF EInv, EventsTypeOK
  <2>2. pc[h] = "idle" /\ at' = at /\ \A g \in Handlers \ {h} : pc'[g] = pc[g]
    BY <1>6, <2>1 DEF Deliver, Does, Go
  <2>3. rows' = rows /\ aged' = aged /\ supp' = supp
    BY <1>6 DEF Deliver, tables
  <2> QED
    BY <1>3, <2>2, <2>3
<1>7. ASSUME NEW h \in Handlers, HandlerStep(h)
      PROVE  NoticedAt(a)'
  <2>1. \A g \in Handlers \ {h} : Untouched(g)
    <3>1. \/ \E b : NextRecipient(h, b)
          \/ Leave(h)
          \/ \E step \in Steps : Go(h, step) /\ UNCHANGED <<hook, todo, at>>
          \/ LookForRow(h)
      <4>1. applyEvent(Event(hook[h])) \in Steps
        BY DEF applyEvent, Steps
      <4> QED
        BY <1>7, <4>1 DEF HandlerStep, SaveRow, SaveIsRefused, CountSoftBounces, FindSuppression,
           InsertSuppression, FindAgain, ClearBadge, Answer, AfterSuppress, Steps
    <3>2. CASE LookForRow(h)
      <4>1. PICK b \in todo[h] :
              IF <<hook[h], b>> \in rows
                THEN NextRecipient(h, b)
                ELSE Go(h, "save") /\ at' = [at EXCEPT ![h] = b] /\ UNCHANGED hook
        BY <3>2 DEF LookForRow
      <4>2. CASE <<hook[h], b>> \in rows
        BY <4>1, <4>2, DeliveryTyped
      <4>3. CASE <<hook[h], b>> \notin rows
        BY <4>1, <4>3 DEF Go, Untouched, EInv, EventsTypeOK
      <4> QED
        BY <4>2, <4>3
    <3> QED
      BY <3>1, <3>2, DeliveryTyped
  <2> QED
    BY <1>0, <1>2, <1>7, <2>1, SavedIsNoticed, CountedIsNoticed, OthersNotice DEF HandlerStep
<1>8. ASSUME NEW h \in Handlers, HandlerFault(h)
      PROVE  NoticedAt(a)'
  BY <1>1, <1>8 DEF HandlerFault, SaveIsUnanswered, ClearBadgeFails, DeliveryFails
<1> QED
  BY <1>1, <1>4, <1>5, <1>6, <1>7, <1>8 DEF EventsNext

ReportsInv == OnRecord /\ NoticedInv

LEMMA ReportsInvHolds == Spec => []ReportsInv
<1>1. Init => ReportsInv
  <2> SUFFICES ASSUME Init PROVE ReportsInv
    OBVIOUS
  <2>1. /\ rows = {} /\ answered = {} /\ SoftLimit \in Nat \ {0}
        /\ \A h \in Handlers : pc[h] = "idle"
    BY EventsAssumption DEF Init, EventsInit
  <2>2. OnRecord
    BY <2>1 DEF OnRecord, RecordOf, AnsweredOnRecord
  <2>3. ASSUME NEW a \in Addresses
        PROVE  NoticedAt(a)
    <3>1. {w \in SoftRows(a) : <<w, a>> \notin aged} = {}
      BY <2>1 DEF SoftRows
    <3>2. softBouncedTooOften(a) = 0
      BY <3>1, FS_EmptySet DEF softBouncedTooOften
    <3> QED
      BY <2>1, <3>2 DEF NoticedAt
  <2> QED
    BY <2>2, <2>3 DEF ReportsInv, NoticedInv
<1>2. IInv /\ IInv' /\ ReportsInv /\ [Next]_vars => ReportsInv'
  <2> SUFFICES ASSUME IInv, IInv', ReportsInv, [Next]_vars
               PROVE  ReportsInv'
    OBVIOUS
  <2>0. faults' \in Nat /\ lifts' \in Nat /\ faults \in Nat
    BY EventsAssumption DEF IInv, EInv, EventsTypeOK
  <2>1. CASE EventsNext
    BY <2>0, <2>1, EventsStayOnRecord, EventsNotice DEF IInv, ReportsInv
  <2>2. ASSUME Quiet, faults' = 0 => faults = 0
        PROVE  ReportsInv'
    <3>1. UNCHANGED <<report, answered, rows, aged, supp, pc, hook, todo, at, lifts>>
      BY <2>2 DEF Quiet, tables, delivery
    <3>2. OnRecord'
      BY <3>1 DEF ReportsInv, OnRecord, RecordOf, AnsweredOnRecord, Event
    <3>3. \A a : NoticedAt(a)' <=> NoticedAt(a)
      BY <3>1 DEF NoticedAt, Attended, Counting, isSuppressed, softBouncedTooOften, SoftRows,
                  Event
    <3>4. NoticedInv'
      BY <2>2, <3>1, <3>3 DEF ReportsInv, NoticedInv
    <3> QED
      BY <3>2, <3>4 DEF ReportsInv
  <2>3. CASE LifecycleNext
    <3>1. Quiet
      BY <2>3, LifecycleIsQuiet DEF IInv
    <3>2. faults' = faults \/ faults' = faults + 1
      <4>1. CASE \E a \in Addresses : SetPreference(a) \/ Deactivate(a)
        BY <4>1 DEF SetPreference, Deactivate, Calm
      <4>2. CASE OpenGate \/ CloseGate \/ NextNight
        BY <4>2 DEF OpenGate, CloseGate, NextNight, Calm, Fault
      <4>3. CASE \E s \in Sweepers : \/ StartSweep(s) \/ SweepStep(s) \/ EnqueueFails(s)
                                     \/ KindFails(s) \/ SweeperDies(s)
        BY <4>3 DEF StartSweep, SweepStep, DryRun, claim, sendEmailJob, NextKind, EnqueueFails,
                    KindFails, SweeperDies, Calm, Fault
      <4>4. CASE \E m \in Mails : \/ WorkerStep(m) \/ DeliverFails(m)
                                  \/ DeliverIsUnanswered(m) \/ JobIsDropped(m)
        BY <4>4 DEF WorkerStep, CheckRecipient, HandOver, DeliverFails, DeliverIsUnanswered,
                    JobIsDropped, Calm, Fault
      <4> QED
        BY <2>3, <4>1, <4>2, <4>3, <4>4 DEF LifecycleNext
    <3> QED
      BY <2>0, <2>2, <3>1, <3>2
  <2>4. CASE UNCHANGED vars
    BY <2>2, <2>4 DEF vars, evars, Quiet
  <2> QED
    BY <2>1, <2>3, <2>4 DEF Next
<1> QED
  BY <1>1, <1>2, Invariance, PTL DEF Spec

\* As many soft bounces as the limit, within the window, leave the address suppressed when
\* the deliveries that stored them are past it, however many stored and counted at once.
THEOREM SoftRunsAreNoticed == Spec => []SoftRunIsNoticed
<1>1. ReportsInv => SoftRunIsNoticed
  <2> SUFFICES ASSUME ReportsInv, NEW a \in Addresses, faults = 0, lifts = 0,
                      \A h \in Handlers : at[h] # a, softBouncedTooOften(a) >= SoftLimit
               PROVE  isSuppressed(a)
    BY DEF SoftRunIsNoticed, softBouncedTooOften
  <2> QED
    BY DEF ReportsInv, NoticedInv, NoticedAt, Attended, Counting
<1> QED
  BY <1>1, ReportsInvHolds, PTL

\* Once a hard bounce was reported and answered, and no delivery is at the address any
\* more, no mail to it is let through to the relay.
THEOREM BouncesAreHeeded == Spec => NothingAfterABounce
<1>1. IInv /\ ReportsInv /\ [Next]_vars =>
        [\A m \in Mails :
           HeardOf(m[1]) /\ (\A h \in Handlers : at[h] # m[1])
             /\ lifts = 0 /\ faults = 0 /\ job[m] # "checked"
           => job'[m] # "checked"]_vars
  <2> SUFFICES ASSUME IInv, ReportsInv, Next, NEW m \in Mails, HeardOf(m[1]),
                      \A h \in Handlers : at[h] # m[1],
                      lifts = 0, faults = 0, job[m] # "checked", job'[m] = "checked"
               PROVE  FALSE
    OBVIOUS
  <2>0. /\ m[1] \in Addresses /\ answered \subseteq Webhooks
        /\ job \in [Mails -> {"none", "queued", "checked"} \cup Ends]
    BY DEF Mails, IInv, EInv, EventsTypeOK, MInv, LifecycleTypeOK
  <2>1. isSuppressed(m[1])
    <3>1. PICK w \in answered : Event(w) = "hard_bounce" /\ m[1] \in report[w].to
      BY DEF HeardOf
    <3>2. <<w, m[1]>> \in rows /\ w \in Webhooks
      BY <2>0, <3>1 DEF ReportsInv, OnRecord, AnsweredOnRecord
    <3>3. NoticedAt(m[1])
      BY <2>0 DEF ReportsInv, NoticedInv
    <3> QED
      BY <3>1, <3>2, <3>3 DEF NoticedAt, Attended, Telling
  <2>2. ASSUME NEW n \in Mails, CheckRecipient(n)
        PROVE  FALSE
    <3>1. n = m
      BY <2>0, <2>2 DEF CheckRecipient
    <3> QED
      BY <2>0, <2>1, <2>2, <3>1 DEF CheckRecipient
  <2>3. ASSUME NEW n \in Mails, NEW end, job' = [job EXCEPT ![n] = end], end # "checked"
        PROVE  FALSE
    BY <2>0, <2>3
  <2>4. CASE job' = job
    BY <2>4
  <2>5. CASE \E n \in Mails : \/ WorkerStep(n) \/ DeliverFails(n)
                              \/ DeliverIsUnanswered(n) \/ JobIsDropped(n)
    <3>1. PICK n \in Mails : \/ WorkerStep(n) \/ DeliverFails(n)
                             \/ DeliverIsUnanswered(n) \/ JobIsDropped(n)
      BY <2>5
    <3>2. CASE HandOver(n)
      BY <2>3, <3>2 DEF HandOver
    <3>3. CASE Retry(n)
      BY <2>3, <3>3 DEF Retry
    <3>4. CASE JobIsDropped(n)
      BY <2>3, <3>4 DEF JobIsDropped
    <3> QED
      BY <2>2, <3>1, <3>2, <3>3, <3>4 DEF WorkerStep, DeliverFails, DeliverIsUnanswered
  <2>6. CASE \E s \in Sweepers : \/ StartSweep(s) \/ SweepStep(s) \/ EnqueueFails(s)
                                 \/ KindFails(s) \/ SweeperDies(s)
    <3>1. PICK s \in Sweepers : \/ StartSweep(s) \/ SweepStep(s) \/ EnqueueFails(s)
                                \/ KindFails(s) \/ SweeperDies(s)
      BY <2>6
    <3>2. CASE sendEmailJob(s)
      <4>1. Queues(s) \in Mails /\ job' = [job EXCEPT ![Queues(s)] = "queued"]
        BY <3>2, QueuesTyped DEF sendEmailJob, Queues, IInv
      <4> QED
        BY <2>3, <4>1
    <3> QED
      BY <2>4, <3>1, <3>2 DEF SweepStep, StartSweep, DryRun, claim, NextKind, EnqueueFails,
                              KindFails, SweeperDies, mail
  <2>7. CASE \/ \E a \in Addresses : SetPreference(a) \/ Deactivate(a)
             \/ OpenGate \/ CloseGate \/ NextNight
    BY <2>4, <2>7 DEF SetPreference, Deactivate, OpenGate, CloseGate, NextNight, mail
  <2>8. CASE UNCHANGED lvars
    BY <2>4, <2>8 DEF lvars, mail
  <2> QED
    BY <2>5, <2>6, <2>7, <2>8 DEF Next, LifecycleNext
<1> QED
  BY <1>1, Invariance, ReportsInvHolds, PTL DEF Spec, NothingAfterABounce
=============================================================================
