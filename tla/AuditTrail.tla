----------------------------- MODULE AuditTrail -----------------------------
(***************************************************************************)
(* The audit log and the alerts that are computed from it (AuditService,   *)
(* AlertService, the clean-up tasks).  Events are appended by all services *)
(* in transactions of their own; evaluate_thresholds reads the rules once  *)
(* and then counts, rule by rule, the events of a window of time; alerts   *)
(* are raised and acknowledged by requests of two steps.                   *)
(***************************************************************************)
EXTENDS Naturals, FiniteSets

CONSTANTS
    Events,         \* bound: as many events matter at a time
    Metrics,        \* metrics a rule can name; an event is counted by one of them
    WindowOf,       \* the length of each metric's window
    AlertRules, Alerts, Admins,
    MaxThreshold,   \* bound
    Retention,      \* audit_retention_days
    AlertRequests,
    None

ASSUME AuditAssumption ==
    /\ MaxThreshold \in Nat /\ Retention \in Nat /\ None \notin Admins /\ IsFiniteSet(Events)
    /\ \A m \in Metrics : WindowOf[m] \in 1..Retention

VARIABLES
    event,          \* metric, age, and whether the row is (still) there
    rule,           \* the alert rules
    alert,          \* alert_events: the rule that fired and who acknowledged it
    doing           \* what each request has read

auditVars == <<event, rule, alert, doing>>

EventAges == 0..(Retention + 1)
Event == [metric: Metrics, age: EventAges, there: BOOLEAN]
Rule == [metric: Metrics, threshold: 1..MaxThreshold, enabled: BOOLEAN]
Logged == {e \in Events : event[e] # None}
ASSUME NoRowAssumption == None \notin Event /\ None \notin Rule

AuditInit ==
    /\ event = [e \in Events |-> None]
    /\ rule = [u \in AlertRules |-> None]
    /\ alert = [a \in Alerts |-> None]
    /\ doing = [r \in AlertRequests |-> None]
------------------------------------------------------------------------------
\* log_event: an append.  An event that is older than the retention counts nowhere any
\* more, and its place is used again.
LogEvent(e, m) ==
    /\ e \in Logged => event[e].age > Retention
    /\ event' = [event EXCEPT ![e] = [metric |-> m, age |-> 0, there |-> TRUE]]
    /\ UNCHANGED <<rule, alert, doing>>

TimePasses ==
    /\ event' = [e \in Events |-> IF e \in Logged /\ event[e].age <= Retention
                                  THEN [event[e] EXCEPT !.age = @ + 1] ELSE event[e]]
    /\ UNCHANGED <<rule, alert, doing>>

Deleting(S) == event' = [e \in Events |-> IF e \in S THEN [event[e] EXCEPT !.there = FALSE] ELSE event[e]]
\* AuditService.cleanup: what is older than the retention.
CleanUp == Deleting({e \in Logged : event[e].age > Retention}) /\ UNCHANGED <<rule, alert, doing>>
\* cleanup_audit_logs, the scheduled task: everything that was logged before it runs.
CleanUpTask == Deleting(Logged) /\ UNCHANGED <<rule, alert, doing>>

\* create_rule, update_rule, toggle_rule
CreateAlertRule(u, m, n) ==
    /\ rule[u] = None
    /\ rule' = [rule EXCEPT ![u] = [metric |-> m, threshold |-> n, enabled |-> TRUE]]
    /\ UNCHANGED <<event, alert, doing>>
UpdateAlertRule(u, m, n) ==
    /\ rule[u] # None
    /\ rule' = [rule EXCEPT ![u].metric = m, ![u].threshold = n]
    /\ UNCHANGED <<event, alert, doing>>
ToggleRule(u) ==
    /\ rule[u] # None
    /\ rule' = [rule EXCEPT ![u].enabled = ~@]
    /\ UNCHANGED <<event, alert, doing>>
\* delete_rule: the foreign key of alert_events does not let a rule go that has fired.
DeleteAlertRule(u) ==
    /\ rule[u] # None /\ ~\E a \in Alerts : alert[a] # None /\ alert[a].rule = u
    /\ rule' = [rule EXCEPT ![u] = None]
    /\ UNCHANGED <<event, alert, doing>>
------------------------------------------------------------------------------
Busy(op) == {r \in AlertRequests : doing[r] # None /\ doing[r].op = op}
Do(r, t) == doing' = [doing EXCEPT ![r] = t]

\* fire_alert: the rule is there, and still is at the commit.
FireLoad(r, u) ==
    /\ doing[r] = None /\ rule[u] # None
    /\ Do(r, [op |-> "fire", rule |-> u])
    /\ UNCHANGED <<event, rule, alert>>
FireCommit(r, a) ==
    /\ r \in Busy("fire") /\ alert[a] = None
    /\ Do(r, None)
    /\ alert' = IF rule[doing[r].rule] = None THEN alert
                ELSE [alert EXCEPT ![a] = [rule |-> doing[r].rule, by |-> None]]
    /\ UNCHANGED <<event, rule>>

\* acknowledge_alert: the last one to acknowledge is on record.
Acknowledge(a, admin) ==
    /\ alert[a] # None
    /\ alert' = [alert EXCEPT ![a].by = admin]
    /\ UNCHANGED <<event, rule, doing>>

\* evaluate_thresholds: the enabled rules are read at once.
EvaluateRules(r) ==
    /\ doing[r] = None
    /\ Do(r, [op |-> "evaluate", verdict |-> None,
              left |-> {u \in AlertRules : rule[u] # None /\ rule[u].enabled}, rules |-> rule])
    /\ UNCHANGED <<event, rule, alert>>

InWindow(e, m) == event[e].metric = m /\ event[e].age < WindowOf[m]
CountedAtAnyAge(m) == {e \in Logged : event[e].there /\ event[e].metric = m}   \* mutant: no window
Counted(m) == {e \in Logged : event[e].there /\ InWindow(e, m)}
\* One count per rule, of the condition that was read.
EvaluateRule(r) ==
    /\ r \in Busy("evaluate")
    /\ \E u \in doing[r].left :
          LET c == doing[r].rules[u] IN
          Do(r, [doing[r] EXCEPT !.left = @ \ {u},
                                 !.verdict = [metric |-> c.metric, threshold |-> c.threshold,
                                              triggered |-> Cardinality(Counted(c.metric)) >= c.threshold]])
    /\ UNCHANGED <<event, rule, alert>>
\* The answer; or the request dies.
AlertRequestEnds(r) == doing[r] # None /\ Do(r, None) /\ UNCHANGED <<event, rule, alert>>

AuditNext ==
    \/ \E e \in Events, m \in Metrics : LogEvent(e, m)
    \/ TimePasses \/ CleanUp \/ CleanUpTask
    \/ \E u \in AlertRules :
          \/ \E m \in Metrics, n \in 1..MaxThreshold : CreateAlertRule(u, m, n) \/ UpdateAlertRule(u, m, n)
          \/ ToggleRule(u) \/ DeleteAlertRule(u)
    \/ \E a \in Alerts, admin \in Admins : Acknowledge(a, admin)
    \/ \E r \in AlertRequests :
          \/ \E u \in AlertRules : FireLoad(r, u)
          \/ \E a \in Alerts : FireCommit(r, a)
          \/ EvaluateRules(r) \/ EvaluateRule(r) \/ AlertRequestEnds(r)
AuditSpec == AuditInit /\ [][AuditNext]_auditVars
------------------------------------------------------------------------------
\* The type of the three tables; an alert belongs to a rule that exists.
AuditTypeOK ==
    /\ event \in [Events -> Event \cup {None}]
    /\ rule \in [AlertRules -> Rule \cup {None}]
    /\ \A a \in Alerts : alert[a] # None => rule[alert[a].rule] # None /\ alert[a].by \in Admins \cup {None}

\* The events of a metric that were logged less than a window ago, kept or not.
Recent(m) == {e \in Logged : event[e].metric = m /\ event[e].age < WindowOf[m]}
Verdict(r) == doing'[r] # None /\ doing'[r].op = "evaluate" /\ doing'[r].verdict # None /\ doing'[r] # doing[r]

\* Each verdict is about what was logged: a rule is triggered only by as many events within
\* the window as its threshold asks for, and it is missed only when a clean-up has deleted
\* some of them.  (The scheduled clean-up deletes recent events too: its documentation
\* calls that safe.)
AlertsSeeEvents ==
    [][\A r \in AlertRequests : Verdict(r) =>
          LET v == doing'[r].verdict
              recent == Recent(v.metric) IN
          /\ v.triggered => Cardinality(recent) >= v.threshold
          /\ ~v.triggered /\ Cardinality(recent) >= v.threshold => \E e \in recent : ~event[e].there]_auditVars
==============================================================================
