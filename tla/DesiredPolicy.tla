---------------------------- MODULE DesiredPolicy ----------------------------
(***************************************************************************)
(* The policy engine's desired policy (internal/desiredpolicy): a watcher  *)
(* reads one ConfigMap, validates the document in it and moves two planes  *)
(* to it, the Rego store behind /v1/evaluate and the override behind       *)
(* /v1/policy-bundle.  The snapshot, both planes and the watch position    *)
(* are in memory only.                                                     *)
(*                                                                         *)
(* A revision is a resourceVersion: a position in the history of the       *)
(* ConfigMap.  A plane holds the revision it was moved to, or 0 for the    *)
(* compile-time bootstrap.  A document keeps its set of deny prefixes, the *)
(* flag that lets it drop floor prefixes, and whether it parses and its    *)
(* identity section, scope and syntax are accepted.                        *)
(***************************************************************************)
EXTENDS Integers, Sequences, FiniteSets

CONSTANTS
  Prefix,       \* deny path prefixes
  Floor,        \* FloorDenyPathPrefixes, also the bootstrap list
  MaxPrefixes,  \* MaxDenyPathPrefixes
  Document,     \* documents an operator may write
  Absent,       \* no ConfigMap
  MaxEdits,     \* bound: revisions of the ConfigMap
  MaxCrashes,   \* bound: deaths of the engine
  MaxFailures   \* bound: failing compilations of the Rego module

Documents == [deny : SUBSET Prefix, removal : BOOLEAN, wellFormed : BOOLEAN]

ASSUME DesiredPolicyAssumption ==
  /\ Floor \subseteq Prefix
  /\ MaxPrefixes \in Nat /\ MaxEdits \in Nat \ {0}
  /\ MaxCrashes \in Nat /\ MaxFailures \in Nat
  /\ Document \subseteq Documents
  /\ Absent \notin Documents

VARIABLES
  revisions,    \* API server: what the ConfigMap was at each resourceVersion
  pc,           \* the watcher: get, reload, store, publish, audit, open, watch,
                \* sleep; down without a process
  from,         \* where ApplyConfigMapJSON returns to: open or watch
  cursor,       \* resourceVersion up to which the stream was read
  object, old,  \* ApplyConfigMapJSON: the revision applied and the one before
  rego, lkg, bundle,  \* the Rego plane, the snapshot, the bundle plane
  alarmed,      \* history: floors whose removal was reported
  crashes, failures

planes == <<rego, lkg, bundle>>
local == <<from, cursor, object, old>>
watcherVars == <<revisions, pc, local, planes, alarmed, crashes, failures>>

Latest == Len(revisions)

\* The deny prefixes a plane has at revision r.
Deny(r) == IF r = 0 THEN Floor ELSE revisions[r].deny

\* ParseDocument and Validate.
Valid(d) ==
  /\ d # Absent /\ d.wellFormed
  /\ d.deny # {} /\ Cardinality(d.deny) <= MaxPrefixes
  /\ Floor \subseteq d.deny \/ d.removal

WatcherInit ==
  /\ \E d \in Document \cup {Absent} : revisions = <<d>>
  /\ pc = "get" /\ from = "open" /\ cursor = 0 /\ object = 0 /\ old = 0
  /\ rego = 0 /\ lkg = 0 /\ bundle = 0
  /\ alarmed = {} /\ crashes = 0 /\ failures = 0

\* An operator creates, changes or deletes the ConfigMap.
Edit ==
  /\ Latest < MaxEdits
  /\ \E d \in (Document \cup {Absent}) \ {revisions[Latest]} :
       revisions' = Append(revisions, d)
  /\ UNCHANGED <<pc, local, planes, alarmed, crashes, failures>>

-----------------------------------------------------------------------------
(***************************************************************************)
(* Run: GET and apply, then watch; every end of the stream starts again    *)
(* with the GET.                                                           *)
(***************************************************************************)
\* ApplyConfigMapJSON of revision r up to its validation: content that is
\* rejected leaves everything as it is and is done.
Apply(r, back) ==
  IF Valid(revisions[r])
  THEN pc' = "reload" /\ from' = back /\ object' = r /\ old' = lkg
  ELSE pc' = back /\ UNCHANGED <<from, object, old>>

\* Wrong variant: a watch that reconnects goes on where the last one ended.
Get_KeepsCursor ==
  /\ pc = "get" /\ revisions[Latest] # Absent
  /\ cursor' = IF cursor = 0 THEN Latest ELSE cursor
  /\ Apply(Latest, "open")
  /\ UNCHANGED <<revisions, planes, alarmed, crashes, failures>>

\* Wrong variant: the GET only looks up where to watch from.
Get_WaitsForChange ==
  /\ pc = "get" /\ revisions[Latest] # Absent
  /\ cursor' = Latest
  /\ pc' = "open" /\ UNCHANGED <<from, object, old>>
  /\ UNCHANGED <<revisions, planes, alarmed, crashes, failures>>

\* fetchAndApply
Get ==
  /\ pc = "get" /\ revisions[Latest] # Absent
  /\ cursor' = Latest
  /\ Apply(Latest, "open")
  /\ UNCHANGED <<revisions, planes, alarmed, crashes, failures>>

\* No answer, an error status, or 404 without a ConfigMap.
GetFails ==
  /\ pc = "get" /\ pc' = "sleep"
  /\ UNCHANGED <<revisions, local, planes, alarmed, crashes, failures>>

Wake ==
  /\ pc = "sleep" /\ pc' = "get"
  /\ UNCHANGED <<revisions, local, planes, alarmed, crashes, failures>>

\* watchLoop from the resourceVersion of the GET.
OpenWatch ==
  /\ pc = "open" /\ pc' = "watch"
  /\ UNCHANGED <<revisions, local, planes, alarmed, crashes, failures>>

\* ADDED, MODIFIED or DELETED of the next revision.
Event ==
  /\ pc = "watch" /\ cursor < Latest
  /\ cursor' = cursor + 1
  /\ IF revisions[cursor + 1] = Absent THEN UNCHANGED <<pc, from, object, old>>
     ELSE Apply(cursor + 1, "watch")
  /\ UNCHANGED <<revisions, planes, alarmed, crashes, failures>>

\* The request fails, an ERROR event, a broken connection (with a pause), or the
\* end of the body (without).
StreamEnds ==
  /\ pc \in {"open", "watch"}
  /\ \/ pc' = "sleep"
     \/ pc = "watch" /\ pc' = "get"
  /\ UNCHANGED <<revisions, local, planes, alarmed, crashes, failures>>

-----------------------------------------------------------------------------
(***************************************************************************)
(* ApplyValidated, and the audit after it, while requests read the planes. *)
(***************************************************************************)
Reload ==
  /\ pc = "reload"
  /\ rego' = object /\ pc' = "store"
  /\ UNCHANGED <<revisions, local, lkg, bundle, alarmed, crashes, failures>>

\* Wrong variant: the error of the reload is dropped.
ReloadFails_Ignored ==
  /\ pc = "reload" /\ failures < MaxFailures
  /\ failures' = failures + 1
  /\ pc' = "store"
  /\ UNCHANGED <<revisions, local, planes, alarmed, crashes>>

\* The prepared query stays; the caller logs the error and goes on.
ReloadFails ==
  /\ pc = "reload" /\ failures < MaxFailures
  /\ failures' = failures + 1
  /\ pc' = from
  /\ UNCHANGED <<revisions, local, planes, alarmed, crashes>>

Store ==
  /\ pc = "store" /\ lkg' = object /\ pc' = "publish"
  /\ UNCHANGED <<revisions, local, rego, bundle, alarmed, crashes, failures>>

\* SetDesiredOverride
Publish ==
  /\ pc = "publish" /\ bundle' = object /\ pc' = "audit"
  /\ UNCHANGED <<revisions, local, rego, lkg, alarmed, crashes, failures>>

\* Wrong variant: without a policy before it there is nothing to compare with.
RemovedInDiff_NoBaseline ==
  IF old = 0 THEN {} ELSE (Floor \cap Deny(old)) \ Deny(object)

\* FloorPrefixesRemovedInDiff: against the policy before, or the floor itself.
RemovedInDiff == (Floor \cap Deny(old)) \ Deny(object)

\* AuditSafetyRailOverride
Audit ==
  /\ pc = "audit" /\ pc' = from
  /\ alarmed' = IF revisions[object].removal
                THEN (alarmed \cup RemovedInDiff) \ Deny(object)
                ELSE alarmed \ Deny(object)
  /\ UNCHANGED <<revisions, local, planes, crashes, failures>>

-----------------------------------------------------------------------------
\* The process ends, and with it all it knew.
Crash ==
  /\ pc # "down" /\ crashes < MaxCrashes
  /\ crashes' = crashes + 1
  /\ pc' = "down" /\ from' = "open" /\ cursor' = 0 /\ object' = 0 /\ old' = 0
  /\ rego' = 0 /\ lkg' = 0 /\ bundle' = 0 /\ alarmed' = {}
  /\ UNCHANGED <<revisions, failures>>

\* main: both planes start from the bootstrap, and requests are answered before
\* the first GET.
Restart ==
  /\ pc = "down" /\ pc' = "get"
  /\ UNCHANGED <<revisions, local, planes, alarmed, crashes, failures>>

Watcher == \/ Get \/ GetFails \/ Wake \/ OpenWatch \/ Event \/ StreamEnds
           \/ Reload \/ ReloadFails \/ Store \/ Publish \/ Audit

-----------------------------------------------------------------------------
(***************************************************************************)
(* Properties of the watcher and the planes.                               *)
(***************************************************************************)
\* The types of the watcher's state.
WatcherTypeOK ==
  /\ revisions \in Seq(Document \cup {Absent}) /\ Latest \in 1..MaxEdits
  /\ pc \in {"get", "reload", "store", "publish", "audit", "open", "watch",
             "sleep", "down"}
  /\ from \in {"open", "watch"}
  /\ cursor \in 0..Latest /\ object \in 0..Latest /\ old \in 0..Latest
  /\ rego \in 0..Latest /\ lkg \in 0..Latest /\ bundle \in 0..Latest
  /\ alarmed \subseteq Floor
  /\ crashes \in Nat /\ failures \in Nat

\* store.go "on failure LKG is unchanged on both planes": except in the middle of
\* an apply, the verdicts of /v1/evaluate and the bundle that agents enforce come
\* from one revision, whatever reload failures and crashes came before.
PlanesAgree ==
  pc \notin {"store", "publish"} => rego = bundle /\ lkg = bundle

\* audit.go: whenever a floor prefix is missing from the bundle, its removal was
\* reported in the life of this process, also when the policy was already in the
\* ConfigMap at the start, or the floor came back and went again.
FloorRemovalReported ==
  pc \notin {"audit", "down"} => Floor \ Deny(bundle) \subseteq alarmed

\* watch.go, Run: a valid document that stays in the ConfigMap reaches both planes,
\* through lost streams, a reload that failed and restarts.
PlanesConverge ==
  \A d \in Document : Valid(d) =>
    (<>[](revisions[Latest] = d) =>
       <>[](Deny(bundle) = d.deny /\ Deny(rego) = d.deny))
=============================================================================
