--------------------------- MODULE RequestPipeline ---------------------------
(***************************************************************************)
(* The way of a request through the middleware of the API (api/main.py)    *)
(* and the two sliding-window limiters on it.  Starlette wraps the         *)
(* application in the middleware that is added last, so a request meets    *)
(* them in the reverse of the order they are added in.  Middleware that    *)
(* lets everything through (CORS, versions, ids, tracing, audit) is left   *)
(* out.  Each one is one step: the requests of a process interleave at its *)
(* awaits, and the limiters await nothing while they count.                *)
(***************************************************************************)
EXTENDS Integers, Sequences, FiniteSets

CONSTANTS
    Clients,        \* addresses
    Agents,         \* agents with a valid token
    NoAgent,        \* no token, or one that is not valid
    Paths, HealthPaths, OpenPaths,      \* HEALTH_PATHS and AUTH_PATHS are among the paths
    NamespaceOf,    \* the namespace in the class of each agent
    MaxRequests,    \* bound: the requests of a behaviour, numbered as they come, ...
    MaxInFlight,    \* bound: ... and how many of them are in the middleware at a time
    Limit,          \* max_requests of each limiter
    RateWindow,     \* the window of both, 60 seconds
    CleanEvery,     \* the clean-up of both, 300 seconds
    Ticks           \* bound: how long a behaviour is

ASSUME PipelineAssumption ==
    /\ HealthPaths \cup OpenPaths \subseteq Paths /\ NoAgent \notin Agents
    /\ RateWindow \in Nat \ {0} /\ {CleanEvery, Ticks, MaxRequests, MaxInFlight} \subseteq Nat
    /\ \A m \in {"IPRateLimit", "RateLimit"} : Limit[m] \in Nat \ {0}

VARIABLES
    now,            \* time.time()
    request,        \* what each request asks, what the middleware has set on it, and how far it is
    rates,          \* _rates of each limiter: by key, the times of the requests it let through
    lastCleanup     \* _last_cleanup of each limiter

pipelineVars == <<now, request, rates, lastCleanup>>

HttpRequests == 1..MaxRequests
Limiters == {"IPRateLimit", "RateLimit"}
\* The order of the add_middleware calls, and the order in which a request meets them.
Added == <<"IPRateLimit", "Auth", "Tenant", "RateLimit">>
Order == [i \in 1..Len(Added) |-> Added[Len(Added) + 1 - i]]

\* The agents of a key and the clients of a key are in different words.
RateKeys == (Clients \cup Agents) \X Paths
Times == 0..(CleanEvery + 1 + Ticks)
\* A list of times is a set here: two requests of one second are told apart by their numbers.
Entry == [by: HttpRequests, time: Times]
Asked == [client: Clients, token: Agents \cup {NoAgent}, path: Paths]

PipelineInit ==
    /\ now = CleanEvery + 1
    /\ request = [r \in HttpRequests |-> NoAgent]
    /\ rates = [m \in Limiters |-> [k \in RateKeys |-> {}]]
    /\ lastCleanup = [m \in Limiters |-> 0]
------------------------------------------------------------------------------
Sent == {r \in HttpRequests : request[r] # NoAgent}
InFlight == {r \in Sent : request[r].answer = "none"}
Arrive(r, asked) ==
    /\ r = Cardinality(Sent) + 1 /\ Cardinality(InFlight) < MaxInFlight
    /\ request' = [request EXCEPT ![r] = [asked |-> asked, agent |-> NoAgent, namespace |-> NoAgent,
                                          at |-> 1, answer |-> "none",
                                          counted |-> [m \in Limiters |-> NoAgent]]]
    /\ UNCHANGED <<now, rates, lastCleanup>>

TimeGoesOn == now < CleanEvery + 1 + Ticks /\ now' = now + 1 /\ UNCHANGED <<request, rates, lastCleanup>>

\* The request r is in front of this middleware.
Meets(r, m) == r \in InFlight /\ Order[request[r].at] = m
\* It goes on to the next one, or to the router.
Passes(r, q) == request' = [request EXCEPT ![r] = IF q.at < Len(Order) THEN [q EXCEPT !.at = @ + 1]
                                                  ELSE [q EXCEPT !.answer = "served"]]
TurnedAway(r, answer) == request' = [request EXCEPT ![r].answer = answer]

\* AuthMiddleware
Auth(r) ==
    /\ Meets(r, "Auth")
    /\ LET q == request[r] IN
       CASE q.asked.path \in HealthPaths \cup OpenPaths -> Passes(r, q)
         [] q.asked.path \notin HealthPaths \cup OpenPaths /\ q.asked.token = NoAgent -> TurnedAway(r, "unauthorized")
         [] OTHER -> Passes(r, [q EXCEPT !.agent = q.asked.token])
    /\ UNCHANGED <<now, rates, lastCleanup>>

\* TenantMiddleware: the namespace of the class that AuthMiddleware has put on the request.
Tenant(r) ==
    /\ Meets(r, "Tenant")
    /\ LET q == request[r] IN
       Passes(r, IF q.asked.path \in HealthPaths \/ q.agent = NoAgent THEN q
                 ELSE [q EXCEPT !.namespace = NamespaceOf[q.agent]])
    /\ UNCHANGED <<now, rates, lastCleanup>>

\* The key of a limiter: the client, or the agent if the request has one by now.
KeyOf(m, q) == <<IF m = "RateLimit" /\ q.agent # NoAgent THEN q.agent ELSE q.asked.client, q.asked.path>>

OldestIsStale(times) == \E e \in times : now - e.time > RateWindow      \* mutant: min for max
Stale(times) == \A e \in times : now - e.time > RateWindow
\* The keys whose newest time is past the window are dropped, at most every CleanEvery.
Cleaned(m) == IF now - lastCleanup[m] > CleanEvery
              THEN [k \in RateKeys |-> IF Stale(rates[m][k]) THEN {} ELSE rates[m][k]]
              ELSE rates[m]

\* IPRateLimitMiddleware, RateLimitMiddleware
InWindowOf(times) == {e \in times : now - e.time < RateWindow}
Limits(r, m) ==
    /\ Meets(r, m)
    /\ LET q == request[r]
           k == KeyOf(m, q)
           times == InWindowOf(Cleaned(m)[k]) IN
       IF q.asked.path \in HealthPaths
       THEN Passes(r, q) /\ UNCHANGED <<rates, lastCleanup>>
       ELSE /\ lastCleanup' = [lastCleanup EXCEPT ![m] = IF now - @ > CleanEvery THEN now ELSE @]
            /\ IF Cardinality(times) >= Limit[m]
               THEN TurnedAway(r, m) /\ rates' = [rates EXCEPT ![m] = Cleaned(m)]
               ELSE /\ Passes(r, [q EXCEPT !.counted[m] = [key |-> k, time |-> now]])
                    /\ rates' = [rates EXCEPT ![m] = [Cleaned(m) EXCEPT ![k] = times \cup {[by |-> r, time |-> now]}]]
    /\ UNCHANGED now

PipelineNext ==
    \/ TimeGoesOn
    \/ \E r \in HttpRequests :
          \/ \E asked \in Asked : Arrive(r, asked)
          \/ Auth(r) \/ Tenant(r)
          \/ \E m \in Limiters : Limits(r, m)
PipelineSpec == PipelineInit /\ [][PipelineNext]_pipelineVars
------------------------------------------------------------------------------
\* The type of the limiters and of what middleware puts on a request.
PipelineTypeOK ==
    /\ now \in Times
    /\ \A m \in Limiters :
          /\ lastCleanup[m] \in Times
          /\ \A k \in RateKeys : rates[m][k] \subseteq Entry /\ Cardinality(rates[m][k]) <= Limit[m]
    /\ \A r \in Sent : request[r].agent \in {request[r].asked.token, NoAgent}

\* The requests that a limiter let through with this key in the window that ended at t.
LetThrough(m, k, t) ==
    {r \in Sent : LET c == request[r].counted[m] IN
                  c # NoAgent /\ c.key = k /\ c.time <= t /\ t - c.time < RateWindow}

\* However the requests and the clean-ups fall, no limiter ever lets more than its limit
\* through with one key within a window.
WindowBounded ==
    \A m \in Limiters : \A k \in RateKeys, t \in Times : Cardinality(LetThrough(m, k, t)) <= Limit[m]

\* rate_limit.py says of the agent limiter that only the agent that has used up its quota is
\* blocked: who is refused by it had its own limit of requests let through on that path.
OnlyTheBusyAgentIsBlocked ==
    \A r \in Sent : LET q == request[r].asked IN
        request[r].answer = "RateLimit" /\ q.token \in Agents =>
            Cardinality({s \in Sent : /\ request[s].asked.token = q.token /\ request[s].asked.path = q.path
                                      /\ request[s].counted["RateLimit"] # NoAgent}) >= Limit["RateLimit"]
==============================================================================
