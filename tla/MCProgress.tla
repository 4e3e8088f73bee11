---- MODULE MCProgress ----
(***************************************************************************)
(* Instances for TLC of the parts in which time brings about what is       *)
(* promised: the policy cache, the watchdog and the background tasks.      *)
(* They have no variable in common, so what they do together is what each  *)
(* does alone: a behaviour chooses one of them (focus) and leaves the      *)
(* others in their initial states, and the state spaces add up, not        *)
(* multiply.                                                               *)
(***************************************************************************)
EXTENDS PolicyEngine, Watchdog, BackgroundTasks

One == {"one"}
Two == {"one", "two"}
SomeRetry == [k \in Fallible |-> IF k = "one" THEN 1 ELSE 0]
OwnKind == [t \in Tasks |-> t]

CONSTANT Parts      \* the parts that a behaviour can choose
AllParts == {"policy", "watchdog", "tasks"}
JustWatchdog == {"watchdog"}

VARIABLE focus
progressVars == <<policyVars, watchdogVars, tasksVars, focus>>

\* A part that is not chosen begins in one of its initial states, no matter which.
ProgressInit ==
    /\ focus \in Parts
    /\ PolicyInit /\ (focus # "policy" => bundle = CHOOSE b \in Bundles : TRUE)
    /\ WatchdogInit /\ TasksInit

Part(name, next, others) == focus = name /\ next /\ UNCHANGED <<others, focus>>
ProgressNext ==
    \/ Part("policy", PolicyNext, <<watchdogVars, tasksVars>>)
    \/ Part("watchdog", WatchdogNext, <<policyVars, tasksVars>>)
    \/ Part("tasks", TasksNext, <<policyVars, watchdogVars>>)

\* The fairness of each part, for the behaviours that chose it.
ProgressSpec ==
    /\ ProgressInit /\ [][ProgressNext]_progressVars
    /\ \A k \in Keys : WF_policyVars(focus = "policy" /\ Expire(k))
    /\ WF_watchdogVars(focus = "watchdog" /\ Tick)
    /\ WF_watchdogVars(focus = "watchdog" /\ Measure)
    /\ SF_watchdogVars(focus = "watchdog" /\ Probe)
    /\ WF_watchdogVars(focus = "watchdog" /\ (Beat \/ BeatIsLost))
    /\ WF_watchdogVars(focus = "watchdog" /\ DeadMan)
    /\ \A w \in Workers :
          /\ WF_tasksVars(focus = "tasks" /\ \E m \in Messages : Take(w, m))
          /\ WF_tasksVars(focus = "tasks" /\ (Succeeds(w) \/ FailsAndRetries(w) \/ FailsForGood(w)))
          /\ WF_tasksVars(focus = "tasks" /\ Acknowledges(w))

\* The types of all the parts.
ProgressTypeOK == PolicyTypeOK /\ WatchdogTypeOK /\ TasksTypeOK
====
