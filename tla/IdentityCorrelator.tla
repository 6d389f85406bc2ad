-------------------------- MODULE IdentityCorrelator --------------------------
(***************************************************************************)
(* The identity correlator (identity_correlator/): which cgroup ids hold a *)
(* key in ID_ALLOW_CGROUP, the map that exempts a cgroup from the /tmp/    *)
(* deny rule.  Four actors run concurrently:                               *)
(*   - the correlator task (run_correlator, reconcile_pod, forced_resync); *)
(*   - the policy-sync task, which replaces the allowlist and revokes;     *)
(*   - the inotify worker thread, which watches the parents of the leaves; *)
(*   - the environment: the API server, the container runtime, the kernel. *)
(* A section under the side-table lock, and one under the identity-map     *)
(* lock, is one step; the policy sync keeps the map lock over its HTTP     *)
(* request.  ID_EXCEPT_VALID is left to PolicySync.                        *)
(***************************************************************************)
EXTENDS SideTable, Sequences

CONSTANTS
  PodOf,       \* the pod of a leaf; leaves of one pod have one parent directory
  SpiffeOf,    \* the SPIFFE id of a pod
  Seeded,      \* leaves in NEUROMESH_IDENTITY_ALLOW_CGROUP_IDS
  Policies,    \* identity sections the policy engine may serve
  InvalidSection,
  MaxEvents,   \* bound: MODIFIED events of the pod watch
  MaxChanges,  \* bound: changes of the served section
  MaxOverflows \* bound: removals lost to a full inotify queue

ASSUME CorrelatorAssumption ==
  /\ PodOf \in [Path -> Pod] /\ SpiffeOf \in [Pod -> Spiffe]
  /\ Seeded \subseteq Path
  /\ \A s \in Policies : s = InvalidSection \/ s \subseteq Spiffe
  /\ MaxEvents \in Nat /\ MaxChanges \in Nat /\ MaxOverflows \in Nat

VARIABLES
  fate, ino,            \* the leaves: unborn, live or gone, and their inodes
  api, feed, podQ,      \* pods of the API server, the pod watch, rx_pod
  client,               \* K8sClient::connect succeeded
  table, allow,         \* side table; keys of ID_ALLOW_CGROUP
  allowlist, served,    \* PeAllowlistCache; what the policy engine serves
  toRegister, toArm,    \* manual seeds main has yet to register, and to watch
  cPc, cTodo, cCur, cIds, cList,  \* the correlator task
  sPc, sIds, sPaths,    \* the policy-sync task
  cmdQ, wPc, watched,   \* TeardownCmd channel and the inotify worker
  kq, kOverflow, batchQ,\* kernel event queue; TeardownBatch channel
  events, changes, overflows,
  handled,              \* history: pods whose DELETED event was handled
  holes                 \* history: why the watch of a leaf cannot fire

leaves == <<fate, ino>>
pods == <<api, feed, podQ, client, events>>
policy == <<allowlist, served, changes>>
seeds == <<toRegister, toArm>>
correlator == <<cPc, cTodo, cCur, cIds, cList>>
sync == <<sPc, sIds, sPaths>>
worker == <<wPc, watched>>
kernel == <<kq, kOverflow, overflows>>
vars == <<leaves, pods, table, allow, policy, seeds, correlator, sync,
          cmdQ, worker, kernel, batchQ, handled, holes>>

Causes == {"lateWatch", "rearm", "resync", "lateSeed", "dead"}
Live(p) == fate[p] = "live"
MapsFree == sPc # "fetch"     \* the sync task holds identity_maps while it fetches

Watch(p) == [op |-> "watch", paths |-> {p}]
Unwatch(ps) == [op |-> "unwatch", paths |-> ps]
Rearm(ps) == [op |-> "rearm", paths |-> ps]

Init ==
  /\ ino \in [Path -> Inode \cup {NoInode}]
  /\ fate = [p \in Path |-> IF p \in Seeded THEN "live" ELSE "unborn"]
  /\ \A p \in Path : ino[p] # NoInode <=> p \in Seeded
  /\ \A p, q \in Seeded : ino[p] = ino[q] => p = q
  /\ api = [d \in Pod |-> "listed"] /\ feed = "none" /\ podQ = <<>> /\ events = 0
  /\ client \in BOOLEAN
  /\ table = EmptyTable /\ allow = {ino[p] : p \in Seeded} 
  /\ toRegister = Seeded /\ toArm = {}
  /\ allowlist = {} /\ served \in Policies /\ changes = 0
  /\ cPc = "start" /\ cTodo = {} /\ cCur = {} /\ cIds = {} /\ cList = {}
  /\ sPc = "idle" /\ sIds = {} /\ sPaths = {}
  /\ cmdQ = <<>> /\ wPc = "cmds" /\ watched = {}
  /\ kq = {} /\ kOverflow = FALSE /\ overflows = 0 /\ batchQ = <<>>
  /\ handled = {} /\ holes = [p \in Path |-> {}]

-----------------------------------------------------------------------------
(***************************************************************************)
(* Environment.  A leaf is named by its container id and is created once;  *)
(* its inode may be one that a removed leaf had.                           *)
(***************************************************************************)
CreateLeaf(p, i) ==
  /\ fate[p] = "unborn" /\ api[PodOf[p]] = "listed"
  /\ \A q \in Path : Live(q) => ino[q] # i
  /\ fate' = [fate EXCEPT ![p] = "live"]
  /\ ino' = [ino EXCEPT ![p] = i]
  /\ UNCHANGED <<pods, table, allow, policy, seeds, correlator, sync, cmdQ,
                 worker, kernel, batchQ, handled, holes>>

\* rmdir of a leaf.  A watched parent queues DELETE, or the queue is full.  A
\* seed that goes before main registers it makes the start fail.
RemoveLeaf(p) ==
  /\ Live(p) /\ p \notin toRegister
  /\ fate' = [fate EXCEPT ![p] = "gone"]
  /\ LET seen == \E q \in watched : PodOf[q] = PodOf[p]
     IN \/ kq' = (IF seen THEN kq \cup {p} ELSE kq) /\ UNCHANGED <<kOverflow, overflows>>
        \/ /\ seen /\ overflows < MaxOverflows
           /\ kOverflow' = TRUE /\ overflows' = overflows + 1 /\ UNCHANGED kq
  /\ UNCHANGED <<ino, pods, table, allow, policy, seeds, correlator, sync,
                 cmdQ, worker, batchQ, handled, holes>>

\* ADDED / MODIFIED with the containers that have an id by now.
PodModified(d) ==
  /\ feed = "up" /\ api[d] = "listed" /\ events < MaxEvents
  /\ events' = events + 1
  /\ podQ' = Append(podQ, [type |-> "upsert", pod |-> d,
                           paths |-> {p \in Path : PodOf[p] = d /\ fate[p] # "unborn"}])
  /\ UNCHANGED <<leaves, api, feed, client, table, allow, policy, seeds,
                 correlator, sync, cmdQ, worker, kernel, batchQ, handled, holes>>

\* DELETED; it is lost with the stream down, and in the gap a 410 Gone leaves.
PodDeleted(d) ==
  /\ api[d] = "listed"
  /\ api' = [api EXCEPT ![d] = "deleted"]
  /\ \/ feed = "up" /\ podQ' = Append(podQ, [type |-> "deleted", pod |-> d, paths |-> {}])
     \/ UNCHANGED podQ
  /\ UNCHANGED <<leaves, feed, client, events, table, allow, policy, seeds,
                 correlator, sync, cmdQ, worker, kernel, batchQ, handled, holes>>

\* watch_loop returns on any error and nothing starts it again.
FeedFails ==
  /\ feed = "up" /\ feed' = "down"
  /\ UNCHANGED <<leaves, api, podQ, client, events, table, allow, policy,
                 seeds, correlator, sync, cmdQ, worker, kernel, batchQ,
                 handled, holes>>

PolicyChange ==
  /\ changes < MaxChanges
  /\ changes' = changes + 1
  /\ served' \in Policies \ {served}
  /\ UNCHANGED <<leaves, pods, table, allow, allowlist, seeds, correlator,
                 sync, cmdQ, worker, kernel, batchQ, handled, holes>>

-----------------------------------------------------------------------------
\* register_seeded_cgroup, by main, while the other tasks already run: the row
\* under the table lock, then the Watch command.
RegisterSeed(p) ==
  /\ p \in toRegister /\ toArm = {} /\ ~RejectedFull(table, ino[p])
  /\ toRegister' = toRegister \ {p} /\ toArm' = {p}
  /\ table' = Insert(table, ino[p],
                     [pod |-> PodOf[p], spiffe |-> NoSpiffe, path |-> p])
  /\ UNCHANGED <<leaves, pods, allow, policy, correlator, sync, cmdQ, worker,
                 kernel, batchQ, handled, holes>>

ArmSeed(p) ==
  /\ p \in toArm /\ toArm' = {}
  /\ cmdQ' = Append(cmdQ, Watch(p))
  /\ UNCHANGED <<leaves, pods, table, allow, policy, toRegister, correlator, sync,
                 worker, kernel, batchQ, handled, holes>>

(***************************************************************************)
(* The correlator task.                                                    *)
(***************************************************************************)
OtherActors == <<leaves, api, client, events, policy, seeds, sync, worker, kernel>>

\* apply_invalidations returns at once when the list is empty.
AfterPlan(ids, todo) == IF ids # {} THEN "invalidate"
                        ELSE IF todo # {} THEN "teardown" ELSE "idle"

Invalidate ==
  /\ cPc = "invalidate" /\ MapsFree
  /\ allow' = allow \ cIds /\ cIds' = {}
  /\ cPc' = AfterPlan({}, cTodo)
  /\ UNCHANGED <<OtherActors, cList, feed, podQ, table, cTodo, cCur, cmdQ, batchQ,
                 handled, holes>>

\* forced_resync lists the pods before it takes the side-table lock.
ListPods ==
  /\ cPc \in {"start", "resync"} /\ client
  /\ cList' = {d \in Pod : api[d] = "listed"}
  /\ cPc' = "sweep"
  /\ UNCHANGED <<OtherActors, feed, podQ, table, allow, cTodo, cCur, cIds, cmdQ,
                 batchQ, handled, holes>>

\* The list fails: an error ends the task at start-up and is logged later.
ResyncFails ==
  /\ cPc \in {"start", "resync"} /\ client
  /\ cPc' = IF cPc = "start" THEN "dead" ELSE "idle"
  /\ holes' = [p \in Path |->
       IF cPc = "start" THEN holes[p] \cup {"dead"}
       ELSE IF fate[p] = "gone" THEN holes[p] \cup {"resync"} ELSE holes[p]]
  /\ UNCHANGED <<OtherActors, feed, podQ, table, allow, cTodo, cCur, cIds, cList,
                 cmdQ, batchQ, handled>>

\* Wrong variant: without an API client the list that was never read counts.
Unlisted_NoClient == {i \in Ids(table) : table.rows[i].pod \notin cList}

\* The rows it removes: the path is missing, or the pod was not on the list.
Unlisted == {i \in Ids(table) : client /\ table.rows[i].pod \notin cList}
Missing == {i \in Ids(table) : ~Live(table.rows[i].path)}

Swept == Missing \cup Unlisted

\* The rest of forced_resync; without an API client the sweep is all there is.
Sweep ==
  /\ cPc = "sweep" \/ (cPc \in {"start", "resync"} /\ ~client)
  /\ table' = RemoveRows(table, Swept)
  /\ cIds' = Swept /\ cList' = {}
  /\ cmdQ' = IF Ids(table) = Swept THEN cmdQ   \* an empty Rearm does nothing
             ELSE Append(cmdQ, Rearm(PathsOf(table, Ids(table) \ Swept)))
  /\ cPc' = AfterPlan(Swept, {})
  /\ UNCHANGED <<OtherActors, feed, podQ, allow, cTodo, cCur, batchQ, handled, holes>>

\* After the first resync the pod watch is spawned and the loop entered.
SpawnPodWatch ==
  /\ cPc = "idle" /\ client /\ feed = "none"
  /\ feed' = "up"
  /\ UNCHANGED <<OtherActors, podQ, table, allow, correlator, cmdQ, batchQ,
                 handled, holes>>

InLoop == cPc = "idle" /\ (client => feed # "none")

\* An overflow batch drops the paths it carries.
TakeBatch ==
  /\ InLoop /\ batchQ # <<>>
  /\ batchQ' = Tail(batchQ)
  /\ IF Head(batchQ).overflow THEN cPc' = "resync" /\ UNCHANGED cTodo
     ELSE cPc' = "teardown" /\ cTodo' = Head(batchQ).paths
  /\ UNCHANGED <<OtherActors, cList, feed, podQ, table, allow, cCur, cIds, cmdQ,
                 handled, holes>>

\* Wrong variant: the row goes and the key is forgotten.
TornDownIds_None(p) == {}

TornDownIds(p) == IF table.byPath[p] = NoInode THEN {} ELSE {table.byPath[p]}

Teardown ==
  /\ cPc = "teardown"
  /\ \E p \in cTodo :
       LET i == table.byPath[p]
       IN /\ cTodo' = cTodo \ {p}
          /\ cIds' = TornDownIds(p)
          /\ table' = IF i = NoInode THEN table ELSE RemoveRows(table, {i})
          /\ cmdQ' = Append(cmdQ, Unwatch({p}))
          /\ cPc' = AfterPlan(TornDownIds(p), cTodo \ {p})
  /\ UNCHANGED <<OtherActors, cList, feed, podQ, allow, cCur, batchQ, handled, holes>>

TakePod(type) == InLoop /\ podQ # <<>> /\ Head(podQ).type = type

RemovePod(d) ==
  /\ table' = RemoveByPod(table, d)
  /\ cIds' = IdsOfPod(table, d)
  /\ cmdQ' = IF IdsOfPod(table, d) = {} THEN cmdQ
             ELSE Append(cmdQ, Unwatch(PathsOf(table, IdsOfPod(table, d))))
  /\ cPc' = AfterPlan(IdsOfPod(table, d), {})

TakeDeleted ==
  /\ TakePod("deleted")
  /\ podQ' = Tail(podQ)
  /\ RemovePod(Head(podQ).pod)
  /\ handled' = handled \cup {Head(podQ).pod}
  /\ UNCHANGED <<OtherActors, cList, feed, allow, cTodo, cCur, batchQ, holes>>

NextContainer(todo) == IF todo = {} THEN "idle" ELSE "containers"

\* reconcile_pod: the allowlist is read once, before the containers.
TakeUpsert ==
  /\ TakePod("upsert")
  /\ podQ' = Tail(podQ)
  /\ IF SpiffeOf[Head(podQ).pod] \in allowlist
     THEN /\ cPc' = NextContainer(Head(podQ).paths) /\ cTodo' = Head(podQ).paths
          /\ UNCHANGED <<table, cIds, cmdQ>>
     ELSE RemovePod(Head(podQ).pod) /\ UNCHANGED cTodo
  /\ UNCHANGED <<OtherActors, cList, feed, allow, cCur, batchQ, handled, holes>>

\* The leaf and its inode are resolved, without a lock; a missing leaf is skipped.
Resolve ==
  /\ cPc = "containers"
  /\ \E p \in cTodo :
       /\ cTodo' = cTodo \ {p}
       /\ \/ Live(p) /\ cCur' = {p} /\ cPc' = "insert"
          \/ ~Live(p) /\ cPc' = NextContainer(cTodo \ {p}) /\ UNCHANGED cCur
  /\ UNCHANGED <<OtherActors, cList, feed, podQ, table, allow, cIds, cmdQ, batchQ,
                 handled, holes>>

\* Wrong variant: a full table is not noticed.
CanInsert_Unbounded(p) == TRUE

CanInsert(p) == ~RejectedFull(table, ino[p])

\* The row goes in before the key; a full table skips the container.
InsertRow ==
  /\ cPc = "insert"
  /\ \E p \in cCur :
       \/ /\ CanInsert(p) /\ cPc' = "seed"
          /\ table' = Insert(table, ino[p],
               [pod |-> PodOf[p], spiffe |-> SpiffeOf[PodOf[p]], path |-> p])
          /\ UNCHANGED cCur
       \/ /\ ~CanInsert(p) /\ cPc' = NextContainer(cTodo) /\ cCur' = {}
          /\ UNCHANGED table
  /\ UNCHANGED <<OtherActors, cList, feed, podQ, allow, cTodo, cIds, cmdQ, batchQ,
                 handled, holes>>

\* seed_allow_cgroup under the map lock; a full map takes the row back.
Seed ==
  /\ cPc = "seed" /\ MapsFree
  /\ \E p \in cCur :
       LET i == ino[p]
       IN IF i \in allow \/ Cardinality(allow) < MaxRows
          THEN /\ allow' = allow \cup {i} /\ cPc' = "watch"
               /\ holes' = IF table.rows[i] = NoRow
                           THEN [holes EXCEPT ![p] = @ \cup {"lateSeed"}] ELSE holes
               /\ UNCHANGED <<table, cCur>>
          ELSE /\ cPc' = NextContainer(cTodo) /\ cCur' = {}
               /\ table' = IF table.rows[i] = NoRow THEN table ELSE RemoveRows(table, {i})
               /\ UNCHANGED <<allow, holes>>
  /\ UNCHANGED <<OtherActors, cList, feed, podQ, cTodo, cIds, cmdQ, batchQ, handled>>

SendWatch ==
  /\ cPc = "watch"
  /\ \E p \in cCur : cmdQ' = Append(cmdQ, Watch(p))
  /\ cPc' = NextContainer(cTodo) /\ cCur' = {}
  /\ UNCHANGED <<OtherActors, cList, feed, podQ, table, allow, cTodo, cIds, batchQ,
                 handled, holes>>

Correlator == \/ ListPods \/ ResyncFails \/ Sweep \/ SpawnPodWatch \/ Invalidate
              \/ TakeBatch \/ Teardown \/ TakeDeleted \/ TakeUpsert \/ Resolve
              \/ InsertRow \/ Seed \/ SendWatch

-----------------------------------------------------------------------------
(***************************************************************************)
(* The policy-sync task, as far as it touches identities.                  *)
(***************************************************************************)
BesideSync == <<leaves, pods, seeds, correlator, worker, kernel, batchQ,
                handled, holes>>

\* A tick: the task is spawned when main has registered the seeds.
Fetch ==
  /\ sPc = "idle" /\ toRegister \cup toArm = {} /\ sPc' = "fetch"
  /\ UNCHANGED <<BesideSync, table, allow, policy, sIds, sPaths, cmdQ>>

\* sync_once returns Ok: the follow-up is revoke_not_in_allowlist or
\* clear_side_table_hygiene.
FetchOk ==
  /\ sPc = "fetch"
  /\ allowlist' = IF served = InvalidSection THEN {} ELSE served
  /\ sPc' = IF served = InvalidSection THEN "clear" ELSE "revoke"
  /\ UNCHANGED <<BesideSync, table, allow, served, changes, sIds, sPaths, cmdQ>>

\* sync_once returns Err, before or after it replaced the allowlist.
FetchErr ==
  /\ sPc = "fetch" /\ sPc' = "idle"
  /\ allowlist' \in {allowlist, IF served = InvalidSection THEN {} ELSE served}
  /\ UNCHANGED <<BesideSync, table, allow, served, changes, sIds, sPaths, cmdQ>>

\* Wrong variant: only an Invalid section removes rows.
RevokePlan_ClearOnly == IF sPc = "clear" THEN Ids(table) ELSE {}

RevokePlan == IF sPc = "clear" THEN Ids(table) ELSE Revoked(table, allowlist)

Revoke ==
  /\ sPc \in {"revoke", "clear"}
  /\ sIds' = RevokePlan
  /\ sPaths' = PathsOf(table, RevokePlan)
  /\ table' = RemoveRows(table, RevokePlan)
  /\ sPc' = IF RevokePlan = {} THEN "idle" ELSE "unwatch"
  /\ UNCHANGED <<BesideSync, allow, policy, cmdQ>>

SendUnwatch ==
  /\ sPc = "unwatch"
  /\ \E p \in sPaths : sPaths' = sPaths \ {p} /\ cmdQ' = Append(cmdQ, Unwatch({p}))
  /\ UNCHANGED <<BesideSync, table, allow, policy, sPc, sIds>>

RevokeKeys ==
  /\ sPc = "unwatch" /\ sPaths = {}
  /\ allow' = allow \ sIds /\ sIds' = {} /\ sPc' = "idle"
  /\ UNCHANGED <<BesideSync, table, policy, sPaths, cmdQ>>

SyncTask == Fetch \/ FetchOk \/ FetchErr \/ Revoke \/ SendUnwatch \/ RevokeKeys

-----------------------------------------------------------------------------
(***************************************************************************)
(* The inotify worker: all queued commands, then one poll.  A watch is on  *)
(* the parent; events of a removed watch descriptor are ignored, so the    *)
(* queue keeps only those whose parent is still watched.                   *)
(***************************************************************************)
BesideWorker == <<leaves, pods, table, allow, policy, seeds, correlator,
                  sync, handled>>

Queued(ws) == {p \in kq : \E q \in ws : PodOf[q] = PodOf[p]}

\* watch_path refuses a path that does not exist; the worker logs it.
WatchCmd(p) ==
  /\ watched' = IF Live(p) THEN watched \cup {p} ELSE watched
  /\ kq' = kq
  /\ holes' = IF Live(p) \/ p \in watched THEN holes
              ELSE [holes EXCEPT ![p] = @ \cup {"lateWatch"}]

\* Wrong variant: the parent's watch goes although it has other leaves.
UnwatchCmd_WholeParent(ps) ==
  /\ watched' = {q \in watched : \A p \in ps : PodOf[q] # PodOf[p]}
  /\ kq' = Queued(watched')
  /\ UNCHANGED holes

\* unwatch_path: the parent stays watched as long as one of its leaves is.
UnwatchCmd(ps) ==
  /\ watched' = watched \ ps
  /\ kq' = Queued(watched \ ps)
  /\ UNCHANGED holes

\* rearm_paths: every watch is removed, then the paths are watched again up to
\* the first that does not exist.
RearmCmd(ps) ==
  IF ps = {} THEN UNCHANGED <<watched, kq, holes>>
  ELSE /\ kq' = {}
       /\ \E ws \in SUBSET {p \in ps : Live(p)} :
            /\ (\A p \in ps : Live(p)) => ws = ps
            /\ watched' = ws
            /\ holes' = [p \in Path |-> IF p \in ps \ ws THEN holes[p] \cup {"rearm"}
                                        ELSE holes[p]]

Command ==
  /\ wPc = "cmds" /\ cmdQ # <<>>
  /\ cmdQ' = Tail(cmdQ)
  /\ LET cmd == Head(cmdQ)
     IN \/ cmd.op = "watch" /\ \E p \in cmd.paths : WatchCmd(p)
        \/ cmd.op = "unwatch" /\ UnwatchCmd(cmd.paths)
        \/ cmd.op = "rearm" /\ RearmCmd(cmd.paths)
  /\ UNCHANGED <<BesideWorker, wPc, kOverflow, overflows, batchQ>>

Poll ==
  /\ wPc = "cmds" /\ cmdQ = <<>> /\ wPc' = "poll"
  /\ UNCHANGED <<BesideWorker, watched, cmdQ, kernel, batchQ, holes>>

\* Wrong variant: an overflow without paths is not reported.
Reported_PathsOnly(drained) == drained \cap watched # {}

\* A batch is sent if it has an overflow or paths; nobody receives the batches
\* of a correlator that ended.
Reported(drained) == cPc # "dead" /\ (kOverflow \/ drained \cap watched # {})

\* drain_events; after an overflow event the rest of the queue is left.
Drain ==
  /\ wPc = "poll" /\ wPc' = "cmds"
  /\ \E drained \in SUBSET kq :
       /\ ~kOverflow => drained = kq
       /\ kq' = Queued(watched \ drained) \ drained
       /\ watched' = watched \ drained
       /\ batchQ' = IF Reported(drained)
                    THEN Append(batchQ, [overflow |-> kOverflow,
                                         paths |-> drained \cap watched])
                    ELSE batchQ
  /\ kOverflow' = FALSE
  /\ UNCHANGED <<BesideWorker, cmdQ, overflows, holes>>

Worker == Command \/ Poll \/ Drain

-----------------------------------------------------------------------------
Environment == \/ \E p \in Path : (\E i \in Inode : CreateLeaf(p, i)) \/ RemoveLeaf(p)
               \/ \E d \in Pod : PodModified(d) \/ PodDeleted(d)
               \/ FeedFails \/ PolicyChange

Next == \/ Environment \/ (\E p \in Path : RegisterSeed(p) \/ ArmSeed(p))
        \/ Correlator \/ SyncTask \/ Worker

Spec == Init /\ [][Next]_vars
\* Every task goes on as long as it can; the policy engine answers again and again.
Fairness == /\ WF_vars(Correlator) /\ WF_vars(Worker) /\ WF_vars(SyncTask)
            /\ SF_vars(FetchOk)

FairSpec == Spec /\ Fairness
-----------------------------------------------------------------------------
(***************************************************************************)
(* Properties.                                                             *)
(***************************************************************************)
Commands == [op : {"watch", "unwatch", "rearm"}, paths : SUBSET Path]
PodEvents == [type : {"upsert", "deleted"}, pod : Pod, paths : SUBSET Path]
Batches == [overflow : BOOLEAN, paths : SUBSET Path]

\* The types of the state; the rows stay within the map's capacity.
TypeOK ==
  /\ fate \in [Path -> {"unborn", "live", "gone"}]
  /\ ino \in [Path -> Inode \cup {NoInode}]
  /\ api \in [Pod -> {"listed", "deleted"}] /\ feed \in {"none", "up", "down"} /\ client \in BOOLEAN
  /\ podQ \in Seq(PodEvents) /\ cmdQ \in Seq(Commands) /\ batchQ \in Seq(Batches)
  /\ table \in Tables /\ Cardinality(Ids(table)) <= MaxRows
  /\ allow \subseteq Inode
  /\ allowlist \subseteq Spiffe /\ served \in Policies
  /\ toRegister \subseteq Seeded /\ toArm \subseteq Seeded
  /\ cPc \in {"start", "resync", "sweep", "invalidate", "teardown", "containers",
              "insert", "seed", "watch", "idle", "dead"}
  /\ cTodo \subseteq Path /\ cCur \subseteq Path /\ cIds \subseteq Inode
  /\ cList \subseteq Pod
  /\ sPc \in {"idle", "fetch", "revoke", "clear", "unwatch"}
  /\ sIds \subseteq Inode /\ sPaths \subseteq Path
  /\ wPc \in {"cmds", "poll"} /\ watched \subseteq Path
  /\ kq \subseteq Path /\ kOverflow \in BOOLEAN
  /\ events \in Nat /\ changes \in Nat /\ overflows \in Nat
  /\ handled \subseteq Pod /\ holes \in [Path -> SUBSET Causes]

\* side_table.rs: whatever the order of inserts, revocations, teardowns and
\* sweeps by the three tasks, and however cgroup ids are recycled, the pod and
\* the path index describe the rows of the table.
IndexCoherent == Coherent(table)

\* Nothing is in flight between the tasks.
Quiescent ==
  /\ cPc \in {"idle", "dead"} /\ sPc = "idle" /\ toRegister \cup toArm = {}
  /\ podQ = <<>> /\ cmdQ = <<>> /\ batchQ = <<>> /\ kq = {} /\ ~kOverflow

\* A key belongs to a live cgroup that the side table knows.
Backed(i) == table.rows[i] # NoRow /\ Live(table.rows[i].path)

\* Leaves of inode i whose invalidation was lost for one of the causes.
Lost(i, causes) == \E p \in Path : ino[p] = i /\ holes[p] \cap causes # {}

\* threat-model.md section 4: entries are invalidated on pod deletion and on
\* cgroup teardown.  When nothing is in flight every key belongs to a live,
\* tracked cgroup, unless its leaf met one of the recorded causes: a watch that
\* came after the removal, a rearm that stopped, a resync whose pod list
\* failed, a seed that came after a revocation, a correlator that ended.
KeysBacked == Quiescent => \A i \in allow : Backed(i) \/ Lost(i, Causes)

\* reconcile.rs, teardown_watch.rs: a live leaf with a row and a key has an armed
\* watch once the worker has caught up, although revocations send Unwatch after
\* the row is gone and a new Watch may overtake them.
TrackedLeavesWatched ==
  Quiescent /\ cPc = "idle" =>
    \A i \in allow : Backed(i) =>
      table.rows[i].path \in watched \/ "rearm" \in holes[table.rows[i].path]

\* mod.rs: once a DELETED event was handled, no queued or half-done upsert brings
\* a row of that pod back (main may still register a manual seed of it).
DeletedPodsStayOut ==
  \A d \in handled, i \in Ids(table) :
    table.rows[i].pod = d => table.rows[i].spiffe = NoSpiffe

\* The correlator handles an upsert of a pod whose identity is not allowed.
Purges(d) ==
  /\ podQ # <<>> /\ podQ' = Tail(podQ) /\ Head(podQ).pod = d
  /\ SpiffeOf[d] \notin allowlist

\* side_table.rs, reconcile.rs, mod.rs: a manual seed has no identity and no pod
\* event is needed for it.  While its leaf lives, its row is taken only for a
\* reason of its own: an Invalid section clears the table, its pod was deleted,
\* an upsert found its pod not allowed, or an upsert gave the row the identity
\* of its pod.  Revocations, sweeps without a list, teardowns of other leaves,
\* recycled inodes and a full map leave it alone.
LiveSeedsStay ==
  [][\A i \in Ids(table) :
       LET r == table.rows[i]
       IN  r.spiffe = NoSpiffe /\ Live(r.path) /\ table'.rows[i] # r =>
             \/ sPc = "clear" /\ sPc' # "clear"
             \/ api[r.pod] = "deleted"
             \/ Purges(r.pod)
             \/ table'.rows[i] = [r EXCEPT !.spiffe = SpiffeOf[r.pod]]]_vars

\* policy_sync.rs: an identity that leaves the allowlist for good loses its rows,
\* those included that a reconciliation inserts after the revocation passed.
RevokedRowsGo ==
  \A d \in Pod :
    <>[](SpiffeOf[d] \notin allowlist) =>
      <>[](\A i \in Ids(table) : table.rows[i].spiffe # SpiffeOf[d])

\* mod.rs:4 "Invalidates IDENTITY_ALLOW_CGROUPS on Pod DELETE, cgroup teardown,
\* and PE allowlist revoke", for a revocation between a row and its key.
RevocationInvalidates ==
  Quiescent => \A i \in allow : Backed(i) \/ Lost(i, Causes \ {"lateSeed"})
=============================================================================
