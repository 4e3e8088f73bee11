--------------------------- MODULE BackgroundTasks ---------------------------
(***************************************************************************)
(* The background tasks (api/tasks.py) on Celery's queue.  A worker takes  *)
(* a message, runs the task and acknowledges the message when the task is  *)
(* through (task_acks_late); a task that fails puts a message of its own   *)
(* on the queue for the next attempt, and then the old one is              *)
(* acknowledged.  The message of a worker that dies is delivered again     *)
(* (task_reject_on_worker_lost), so a death between the two steps of a     *)
(* retry leaves two messages of the same task.                             *)
(***************************************************************************)
EXTENDS Naturals, FiniteSets

CONSTANTS
    Tasks,          \* the calls of tasks that are made
    KindOf,         \* the task that each of them calls
    MaxRetriesOf,   \* max_retries of each kind, 0 for a task that does not retry
    Fallible,       \* the kinds that can raise
    Workers,
    MaxDeaths,      \* bound: workers that die
    NoMessage

ASSUME TasksAssumption ==
    /\ \A t \in Tasks : MaxRetriesOf[KindOf[t]] \in Nat
    /\ MaxDeaths \in Nat /\ IsFiniteSet(Workers)

VARIABLES
    sent,           \* the calls that have been made
    queue,          \* how many messages of each call and each attempt wait
    worker,         \* what each worker is at, or NoMessage
    deaths,         \* how many workers have died
    outcome         \* the result each call has last reported, or NoMessage

tasksVars == <<sent, queue, worker, deaths, outcome>>

Retries(t) == 0..MaxRetriesOf[KindOf[t]]
Messages == UNION {{t} \X Retries(t) : t \in Tasks}

TasksInit ==
    /\ sent = {}
    /\ queue = [m \in Messages |-> 0]
    /\ worker = [w \in Workers |-> NoMessage]
    /\ deaths = 0
    /\ outcome = [t \in Tasks |-> NoMessage]
------------------------------------------------------------------------------
Plus(q, m) == [q EXCEPT ![m] = @ + 1]
Stands(w, step) == worker[w] # NoMessage /\ worker[w].step = step

\* delay(), or the beat schedule.
Call(t) ==
    /\ t \notin sent
    /\ sent' = sent \cup {t}
    /\ queue' = Plus(queue, <<t, 0>>)
    /\ UNCHANGED <<worker, deaths, outcome>>

Take(w, m) ==
    /\ worker[w] = NoMessage /\ queue[m] > 0
    /\ queue' = [queue EXCEPT ![m] = @ - 1]
    /\ worker' = [worker EXCEPT ![w] = [step |-> "run", message |-> m]]
    /\ UNCHANGED <<sent, deaths, outcome>>

\* The task returns.
Succeeds(w) ==
    /\ Stands(w, "run")
    /\ outcome' = [outcome EXCEPT ![worker[w].message[1]] = "success"]
    /\ worker' = [worker EXCEPT ![w].step = "ack"]
    /\ UNCHANGED <<sent, queue, deaths>>

\* self.retry, and autoretry_for of NotifyTask: a message for the next attempt, ...
NextSame(m) == m                            \* mutant: the attempts are not counted
NextAttempt(m) == <<m[1], m[2] + 1>>
MayRetry(m) == m[2] < MaxRetriesOf[KindOf[m[1]]]
FailsAndRetries(w) ==
    /\ Stands(w, "run")
    /\ LET m == worker[w].message IN
          /\ KindOf[m[1]] \in Fallible /\ MayRetry(m)
          /\ queue' = Plus(queue, NextAttempt(m))
          /\ worker' = [worker EXCEPT ![w].step = "ack"]
    /\ UNCHANGED <<sent, deaths, outcome>>
\* ... or, after the last one, the error.
FailsForGood(w) ==
    /\ Stands(w, "run")
    /\ LET m == worker[w].message IN
          /\ KindOf[m[1]] \in Fallible /\ ~MayRetry(m)
          /\ outcome' = [outcome EXCEPT ![m[1]] = "failure"]
    /\ worker' = [worker EXCEPT ![w].step = "ack"]
    /\ UNCHANGED <<sent, queue, deaths>>
\* The message is acknowledged when the task is through, whatever came of it.
Acknowledges(w) ==
    /\ Stands(w, "ack")
    /\ worker' = [worker EXCEPT ![w] = NoMessage]
    /\ UNCHANGED <<sent, queue, deaths, outcome>>

\* A worker is lost, and another one takes its place: its message goes back.
WorkerDies(w) ==
    /\ worker[w] # NoMessage /\ deaths < MaxDeaths
    /\ deaths' = deaths + 1
    /\ queue' = Plus(queue, worker[w].message)
    /\ worker' = [worker EXCEPT ![w] = NoMessage]
    /\ UNCHANGED <<sent, outcome>>

TasksNext ==
    \/ \E t \in Tasks : Call(t)
    \/ \E w \in Workers :
          \/ \E m \in Messages : Take(w, m)
          \/ Succeeds(w) \/ FailsAndRetries(w) \/ FailsForGood(w) \/ Acknowledges(w) \/ WorkerDies(w)

\* A worker that is free takes a message, and a task that runs comes to its end.
TasksFairness ==
    \A w \in Workers :
       /\ WF_tasksVars(\E m \in Messages : Take(w, m))
       /\ WF_tasksVars(Succeeds(w) \/ FailsAndRetries(w) \/ FailsForGood(w))
       /\ WF_tasksVars(Acknowledges(w))
TasksSpec == TasksInit /\ [][TasksNext]_tasksVars /\ TasksFairness
------------------------------------------------------------------------------
\* The messages of a call that wait or are being run.
Open(t) == (\E m \in Messages : m[1] = t /\ queue[m] > 0) \/ (\E w \in Workers : worker[w] # NoMessage /\ worker[w].message[1] = t)

\* The type of the queue and the workers; a message waits or is run once, and once more for
\* every death.
TasksTypeOK ==
    /\ \A m \in Messages : queue[m] + Cardinality({w \in Workers : worker[w] # NoMessage /\ worker[w].message = m})
                             \in 0..(deaths + 1)
    /\ \A w \in Workers : worker[w] # NoMessage => worker[w].message \in Messages /\ worker[w].step \in {"run", "ack"}
    /\ outcome \in [Tasks -> {"success", "failure", NoMessage}]

\* A call that was made is settled: after finitely many attempts, whether they fail or their
\* workers die, it has an outcome and nothing of it is left on the queue.
TaskSettles == \A t \in Tasks : t \in sent ~> outcome[t] # NoMessage /\ ~Open(t)
==============================================================================
