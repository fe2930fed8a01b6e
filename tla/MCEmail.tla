------------------------------- MODULE MCEmail -------------------------------
(***************************************************************************)
(* LifecycleEmail on two small instances, one of which is chosen at the    *)
(* start: reports that are delivered, stored and applied by two handlers   *)
(* at a time, with no mail on its way; and one report about the mail that  *)
(* two sweeps and the worker send.                                         *)
(***************************************************************************)
EXTENDS LifecycleEmail, TLC

CONSTANTS h1, k1
VARIABLE part

MCKinds == <<"onboarding-day7", "feedback-ask">>
MCNightOf == [k \in KindSet |-> IF k = "onboarding-day7" THEN 1 ELSE 2]

MCInit ==
    /\ Init
    /\ \/ part = "reports" /\ live = {} /\ swept
       \/ part = "mail" /\ ~swept

\* The second instance has one report, of a hard bounce.  It is delivered twice at a time
\* only while the first mail is queued, with no sweep and no failure, and not after it
\* was answered.  Accounts are closed before the first night, and nobody changes their
\* mind once it is over.
OneReport ==
    /\ \A h \in Handlers \ {h1} :
         \/ Does(h, "idle")
         \/ /\ faults = 0 /\ night = 1 /\ \A s \in Sweepers : Idle(s)
            /\ \E m \in Mails : job[m] \in {"queued", "checked"}
    /\ \A w \in Webhooks \ {k1} : Event(w) = "none"
    /\ Event(k1) \in {"none", "hard_bounce"}
    /\ lifts = 0

MCNext ==
    /\ \/ part = "reports" /\ EventsNext /\ UNCHANGED lvars
       \/ /\ part = "mail" /\ Next /\ OneReport'
          /\ k1 \in answered => \A h \in Handlers : Does(h, "idle") => Does(h, "idle")'
          /\ (active' # active => night = 0) /\ (wants' # wants => night <= 1)
    /\ UNCHANGED part

MCSpec == MCInit /\ [][MCNext]_<<vars, part>> /\ EventsFairness /\ LifecycleFairness
=============================================================================
