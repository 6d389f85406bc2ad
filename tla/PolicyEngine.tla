----------------------------- MODULE PolicyEngine -----------------------------
(***************************************************************************)
(* The policy engine as its clients see it: the desired policy behind the  *)
(* rate limiter and the bearer check of GET /v1/policy-bundle (main.go,    *)
(* bundle.go).  Requests are answered as soon as the process is up, before *)
(* the watcher has read the ConfigMap.                                     *)
(***************************************************************************)
EXTENDS DesiredPolicy, AggregateLimiter

CONSTANTS
  Client,   \* callers of GET /v1/policy-bundle
  Agents    \* those that hold an accepted token

ASSUME ClientAssumption == Agents \subseteq Client

VARIABLE seen  \* the revision each agent got last

vars == <<watcherVars, bucket, seen>>

Init == WatcherInit /\ NewLimiter /\ seen = [a \in Agents |-> 0]

\* A request that the limiter lets pass gets the bundle plane, signed; behind the
\* limiter it is refused without a token, fails to be signed, or is lost.
Serve(c) ==
  /\ pc # "down" /\ Grant
  /\ \/ c \in Agents /\ seen' = [seen EXCEPT ![c] = bundle]
     \/ UNCHANGED seen
  /\ UNCHANGED watcherVars

\* HTTP 429
Throttled(c) == pc # "down" /\ Deny429 /\ UNCHANGED <<watcherVars, seen>>

Time == Elapse /\ UNCHANGED <<watcherVars, seen>>

\* A new process has a new, full bucket.
Reboot == Restart /\ tokens' = Burst /\ idle' = 0 /\ level' = 0 /\ UNCHANGED seen

Engine == Watcher /\ UNCHANGED <<bucket, seen>>

Next == \/ Engine \/ Reboot \/ Time
        \/ (Edit \/ Crash) /\ UNCHANGED <<bucket, seen>>
        \/ \E c \in Client : Serve(c) \/ Throttled(c)

Spec == Init /\ [][Next]_vars

\* The watcher is scheduled, the deployment restarts the process, the API server
\* ends every stream some time and answers a GET and a watch again and again.
Fairness ==
  /\ WF_vars(Engine) /\ WF_vars(Reboot)
  /\ WF_vars(StreamEnds /\ UNCHANGED <<bucket, seen>>)
  /\ SF_vars(Get /\ UNCHANGED <<bucket, seen>>)

FairSpec == Spec /\ Fairness
-----------------------------------------------------------------------------
\* The types of the composed state.
TypeOK == WatcherTypeOK /\ LimiterTypeOK /\ seen \in [Agents -> 0..Latest]

\* watch.go, store.go: an agent never gets an older revision than it had, through
\* reconnections and rejected documents; only a restart takes it back, and then to
\* the bootstrap list.
AgentsNeverGoBack ==
  [][\A a \in Agents : seen'[a] < seen[a] => seen'[a] = 0 /\ crashes > 0]_vars
=============================================================================
