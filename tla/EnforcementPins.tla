--------------------------- MODULE EnforcementPins ---------------------------
(***************************************************************************)
(* The agent's start-up over the bpffs pin directory: ABI assessment and   *)
(* migration of the pinned deny maps (pin_abi.rs), aya's load with         *)
(* map_pin_path, the deny seed (path_deny.rs, startup.rs), the LSM link    *)
(* hand-off (lsm_pin.rs) and the removal of the staging directories.  The  *)
(* process may be killed between any two system calls and is restarted.    *)
(*                                                                         *)
(* A map object outlives its pin while a program or a process refers to    *)
(* it; a pin is a name for it.  PATH_DENY_LIST and PATH_DENY_COUNT are two *)
(* objects, so every pair of pins can be torn apart by a crash.            *)
(***************************************************************************)
EXTENDS Integers, Sequences, FiniteSets

CONSTANTS
  MapId,       \* identities of kernel map objects
  Prefix,      \* path prefixes a deny entry can hold
  MaxEntries,  \* PATH_DENY_MAX_ENTRIES
  Bootstrap,   \* BOOTSTRAP_PATH_DENY_PREFIXES
  Policies,    \* deny lists the policy engine may serve
  Dirs,        \* n of the directories legacy_abi_<n>
  Shapes,      \* pin directories a run may start from
  MaxCrashes,  \* bound: kills of the agent process
  NoMap, NoProg, NoDir, Empty

ASSUME PinAssumption ==
  /\ MaxEntries \in Nat \ {0}
  /\ MaxCrashes \in Nat
  /\ Dirs \subseteq Nat
  /\ Bootstrap \in Seq(Prefix) /\ Len(Bootstrap) \in 1..MaxEntries
  /\ \A p \in Policies : p \in Seq(Prefix) /\ Len(p) \in 1..MaxEntries
  /\ NoMap \notin MapId
  /\ NoProg \notin [abi : {"legacy", "current"}, list : MapId, count : MapId]
  /\ Empty \notin Prefix

MapNames == {"LIST", "COUNT"}
Slots == 1..MaxEntries

VARIABLES
  lists,     \* contents of PATH_DENY_LIST objects: ABI and slots
  counts,    \* contents of PATH_DENY_COUNT objects
  pin,       \* canonical pins: name -> object or NoMap
  staged,    \* pins under legacy_abi_<n>/
  dirs,      \* the legacy_abi_<n> directories that exist
  proc,      \* PROCESS_EVENTS / RLIMIT_BUCKET pins: absent, match, mismatch
  procStaged,\* proc_abi_* holds a mismatched map
  link,      \* program behind the pinned link, or NoProg
  linkTmp,   \* program behind the *_link_tmp pin, or NoProg
  pc, plan, entries, dir, fd, fdLink, idx,  \* the agent process
  crashes,
  origin,    \* history: the kind of pin directory the run started from
  promised,  \* history: prefixes denied by the pins the run started from
  synced     \* history: a policy-engine list has been applied

bpffs == <<pin, staged, dirs, proc, procStaged>>
links == <<link, linkTmp>>
locals == <<plan, entries, dir, fd, fdLink, idx>>
history == <<origin, promised, synced>>
vars == <<lists, counts, bpffs, links, pc, locals, crashes, history>>

(***************************************************************************)
(* What a program attached to bprm_check_security denies.                  *)
(***************************************************************************)
Programs == [abi : {"legacy", "current"}, list : MapId, count : MapId]

\* A link FD or a link pin keeps its program attached.
Attached == {p \in {link, linkTmp, fdLink} : p # NoProg}

\* The slots the LSM loop reads: i < PATH_DENY_COUNT[0].
Active(list, count) == {lists[list].slots[i] : i \in 1..counts[count]}

-----------------------------------------------------------------------------
(***************************************************************************)
(* Assessment of the pin directory (pin_abi.rs).                           *)
(***************************************************************************)
Pinned(name) == pin[name] # NoMap
MapsOk == Pinned("LIST") /\ Pinned("COUNT")
Staged(d, name) == staged[d][name] # NoMap

\* Scores (has_list, has_count, n) compare lexicographically.
Score(d) == <<IF Staged(d, "LIST") THEN 1 ELSE 0,
              IF Staged(d, "COUNT") THEN 1 ELSE 0, d>>

Below(s, t) == \/ s[1] < t[1]
               \/ s[1] = t[1] /\ s[2] < t[2]
               \/ s[1] = t[1] /\ s[2] = t[2] /\ s[3] < t[3]

\* list_legacy_abi_dirs, restricted to the directories that hold a deny pin.
DenyDirs == {d \in dirs : \E name \in MapNames : Staged(d, name)}

\* The staging directory select_deny_legacy_dir returns.
Selected(d) == d \in DenyDirs /\ \A e \in DenyDirs \ {d} : Below(Score(e), Score(d))

MigrationInProgress ==
  /\ DenyDirs # {}
  /\ MapsOk => lists[pin["LIST"]].abi = "current" /\ counts[pin["COUNT"]] = 0

Cold == DenyDirs = {} /\ ~Pinned("LIST") /\ ~Pinned("COUNT")

\* Wrong variant: every layout that is not the current one is coerced.
LegacyMigratable_Coerces ==
  /\ MapsOk
  /\ lists[pin["LIST"]].abi # "current"

LegacyMigratable ==
  /\ MapsOk
  /\ lists[pin["LIST"]].abi = "legacy"

\* Wrong variant: empty fresh maps beside a staging directory are resumed.
Compatible_Poisoned ==
  /\ MapsOk
  /\ lists[pin["LIST"]].abi = "current"

Compatible ==
  /\ MapsOk
  /\ lists[pin["LIST"]].abi = "current"
  /\ DenyDirs # {} => counts[pin["COUNT"]] > 0

Incompatible ==
  \/ DenyDirs = {} /\ Pinned("LIST") # Pinned("COUNT")
  \/ MapsOk /\ lists[pin["LIST"]].abi = "unknown"

\* read_legacy_deny_entries_at succeeds: legacy layout, a count that is not
\* zero, and every active slot of a length that can be widened.
Readable(list, count) ==
  /\ lists[list].abi = "legacy"
  /\ counts[count] > 0
  /\ Empty \notin Active(list, count)

ReadEntries(list, count) == [i \in 1..counts[count] |-> lists[list].slots[i]]

\* The widened legacy entries, or bootstrap_entries_fallback.
SeedFrom(list, count) ==
  IF Readable(list, count) THEN ReadEntries(list, count) ELSE Bootstrap

-----------------------------------------------------------------------------
(***************************************************************************)
(* Init.  A run starts on one of the pin directories the code meets: none, *)
(* one left by a pre-#134 agent, one left by this version, one of a layout *)
(* nobody knows, or one whose deny maps an operator removed.               *)
(***************************************************************************)
NoPins == [name \in MapNames |-> NoMap]
NoFds == NoPins
BlankSlots == [i \in Slots |-> Empty]

AbiOf(shape) == CASE shape = "legacy" -> "legacy"
                  [] shape = "unknown" -> "unknown"
                  [] OTHER -> "current"

\* The deny list a pin directory can hold: an agent never leaves its own list
\* empty, but a legacy one may be unreadable.
Populated(shape, s, n) ==
  CASE shape = "cold" -> n = 0 /\ s = BlankSlots
    [] shape = "legacy" -> TRUE
    [] OTHER -> n > 0 /\ \A i \in 1..n : s[i] # Empty

\* The directory of a shape, its deny maps the object g with n entries of s.
InitFrom(shape, g, n, s) ==
  /\ Populated(shape, s, n)
  /\ lists = [m \in MapId |-> [abi |-> AbiOf(shape),
                               slots |-> IF m = g THEN s ELSE BlankSlots]]
  /\ counts = [m \in MapId |-> IF m = g THEN n ELSE 0]
  /\ pin = IF shape \in {"cold", "linkonly"} THEN NoPins
           ELSE [name \in MapNames |-> g]
  /\ staged = [d \in Dirs |-> NoPins]
  /\ dirs = {}
  /\ proc \in {"absent", "match", "mismatch"} /\ procStaged = FALSE
  /\ link = IF shape \in {"cold", "unknown"} THEN NoProg
            ELSE [abi |-> AbiOf(shape), list |-> g, count |-> g]
  /\ linkTmp = NoProg
  /\ origin = shape
  /\ promised = IF \/ shape = "compatible"
                   \/ shape = "legacy" /\ Readable(g, g)
                THEN Active(g, g) ELSE {}
  /\ synced = FALSE
  /\ pc = "down" /\ plan = "none" /\ entries = <<>> /\ dir = NoDir
  /\ fd = NoFds /\ fdLink = NoProg /\ idx = 0
  /\ crashes = 0

Init ==
  \E shape \in Shapes, g \in MapId, n \in 0..MaxEntries,
     s \in [Slots -> Prefix \cup {Empty}] : InitFrom(shape, g, n, s)

-----------------------------------------------------------------------------
\* The process ends: its FDs close, the pins and what they keep alive stay.
Die(where) ==
  /\ pc' = where
  /\ plan' = "none" /\ entries' = <<>> /\ dir' = NoDir
  /\ fd' = NoFds /\ fdLink' = NoProg /\ idx' = 0
  /\ UNCHANGED <<lists, counts, bpffs, links, history>>

\* bail!/? on a path that needs no fault: non-zero exit, the kubelet restarts.
Refuse == Die("refused") /\ UNCHANGED crashes

\* kill -9, OOM kill, node reboot of the container, or an I/O error at a step.
Crash ==
  /\ pc \notin {"down", "refused"}
  /\ crashes < MaxCrashes
  /\ crashes' = crashes + 1
  /\ Die("down")

Start ==
  /\ pc \in {"down", "refused"}
  /\ pc' = "assess"
  /\ UNCHANGED <<lists, counts, bpffs, links, locals, crashes, history>>

(***************************************************************************)
(* prepare_pin_root_for_load, one action per system call that changes the  *)
(* directory.                                                              *)
(***************************************************************************)
AssessIncompatible == pc = "assess" /\ Incompatible /\ Refuse

AssessKeep ==
  /\ pc = "assess"
  /\ \/ Cold /\ plan' = "bootstrap"
     \/ Compatible /\ plan' = "resume"
  /\ pc' = "proc"
  /\ UNCHANGED <<lists, counts, bpffs, links, entries, dir, fd, fdLink, idx,
                 crashes, history>>

\* next_legacy_dir_name: the least n whose directory does not exist.
FreeDirs == Dirs \ dirs

AssessLegacy ==
  /\ pc = "assess" /\ LegacyMigratable
  /\ \/ /\ FreeDirs = {} /\ Refuse
     \/ \E d \in FreeDirs :
          /\ \A e \in FreeDirs : d <= e
          /\ plan' = "migrated"
          /\ entries' = SeedFrom(pin["LIST"], pin["COUNT"])
          /\ dir' = d
          /\ dirs' = dirs \cup {d}
          /\ pc' = "stageCount"
          /\ UNCHANGED <<lists, counts, pin, staged, proc, procStaged, links,
                         fd, fdLink, idx, crashes, history>>

\* rename of a canonical deny pin into legacy_abi_<dir>/
Rename(name) ==
  /\ staged' = [staged EXCEPT ![dir][name] = pin[name]]
  /\ pin' = [pin EXCEPT ![name] = NoMap]

Goto(label) ==
  /\ pc' = label
  /\ UNCHANGED <<lists, counts, links, locals, crashes, history>>

StageCount ==
  /\ pc = "stageCount" /\ Rename("COUNT") /\ Goto("stageList")
  /\ UNCHANGED <<dirs, proc, procStaged>>

StageList ==
  /\ pc = "stageList" /\ Rename("LIST") /\ Goto("proc")
  /\ UNCHANGED <<dirs, proc, procStaged>>

AssessResume ==
  /\ pc = "assess" /\ MigrationInProgress
  /\ plan' = "migrated"
  /\ \E d \in Dirs : Selected(d) /\ dir' = d
  /\ pc' = "completeList"
  /\ UNCHANGED <<lists, counts, bpffs, links, entries, fd, fdLink, idx,
                 crashes, history>>

\* complete_interrupted_deny_stage: rename what is not staged yet.
CompleteStage(name) ==
  /\ IF Pinned(name) /\ ~Staged(dir, name) THEN Rename(name)
                                           ELSE UNCHANGED <<pin, staged>>
  /\ UNCHANGED <<dirs, proc, procStaged>>

CompleteList == pc = "completeList" /\ CompleteStage("LIST") /\ Goto("completeCount")
CompleteCount == pc = "completeCount" /\ CompleteStage("COUNT") /\ Goto("readStaged")

\* Wrong variant: the canonical copy first.
Located_Canonical(name) == IF Pinned(name) THEN pin[name] ELSE staged[dir][name]

\* resolve_deny_pin_locations: the staged copy first, then the canonical one.
Located(name) == IF Staged(dir, name) THEN staged[dir][name] ELSE pin[name]

CanonicalEmpty ==
  Pinned("COUNT") /\ Staged(dir, "COUNT") => counts[pin["COUNT"]] = 0

ReadStaged ==
  /\ pc = "readStaged"
  /\ \/ /\ \/ \E name \in MapNames : Located(name) = NoMap
           \/ Readable(Located("LIST"), Located("COUNT")) /\ ~CanonicalEmpty
        /\ Refuse
     \/ /\ \A name \in MapNames : Located(name) # NoMap
        /\ Readable(Located("LIST"), Located("COUNT")) => CanonicalEmpty
        /\ entries' = SeedFrom(Located("LIST"), Located("COUNT"))
        /\ pc' = IF CanonicalEmpty THEN "freeList" ELSE "proc"
        /\ UNCHANGED <<lists, counts, bpffs, links, plan, dir, fd, fdLink, idx,
                       crashes, history>>

\* remove_file of an empty canonical map whose staged counterpart exists.
FreeCanonical(name) ==
  /\ pin' = IF Pinned(name) /\ Staged(dir, name)
            THEN [pin EXCEPT ![name] = NoMap] ELSE pin
  /\ UNCHANGED <<staged, dirs, proc, procStaged>>

FreeList == pc = "freeList" /\ FreeCanonical("LIST") /\ Goto("freeCount")
FreeCount == pc = "freeCount" /\ FreeCanonical("COUNT") /\ Goto("proc")

\* recreate_mismatched_process_maps
RecreateProc ==
  /\ pc = "proc"
  /\ proc' = IF proc = "mismatch" THEN "absent" ELSE proc
  /\ procStaged' = (procStaged \/ proc = "mismatch")
  /\ Goto("classify")
  /\ UNCHANGED <<pin, staged, dirs>>

(***************************************************************************)
(* classify_enforcement_pins, then EbpfLoader::load.                       *)
(***************************************************************************)
\* Wrong variant: an interrupted migration is taken for a split brain.
InconsistentLinkWithoutMaps_Interrupted == link # NoProg /\ ~MapsOk

InconsistentLinkWithoutMaps == link # NoProg /\ ~MapsOk /\ DenyDirs = {}

Classify ==
  /\ pc = "classify"
  /\ \/ InconsistentLinkWithoutMaps /\ Refuse
     \/ /\ ~InconsistentLinkWithoutMaps
        /\ Goto("load") /\ UNCHANGED bpffs

\* Objects something still refers to; another identity stands for a new object.
InUse(name) ==
  {pin[name], fd[name]} \cup {staged[d][name] : d \in Dirs}
  \cup {IF name = "LIST" THEN p.list ELSE p.count : p \in Attached}

\* aya's create_pinned_by_name: reuse the pin without a look at its layout, or
\* create the map and pin it.  The order of the two maps is not specified.
LoadMap(name) ==
  /\ pc = "load" /\ fd[name] = NoMap
  /\ \/ /\ Pinned(name)
        /\ fd' = [fd EXCEPT ![name] = pin[name]]
        /\ UNCHANGED <<lists, counts, pin>>
     \/ /\ ~Pinned(name)
        /\ \E m \in MapId \ InUse(name) :
             /\ fd' = [fd EXCEPT ![name] = m]
             /\ pin' = [pin EXCEPT ![name] = m]
             /\ lists' = IF name = "COUNT" THEN lists
                         ELSE [lists EXCEPT ![m] = [abi |-> "current", slots |-> BlankSlots]]
             /\ counts' = IF name = "LIST" THEN counts ELSE [counts EXCEPT ![m] = 0]
  /\ pc' = IF \A n \in MapNames : fd'[n] # NoMap THEN "seed" ELSE "load"
  /\ UNCHANGED <<staged, dirs, proc, procStaged, links, plan, entries, dir,
                 fdLink, idx, crashes, history>>

(***************************************************************************)
(* The deny seed of arm_correlator_deny_and_lsm and, in the running agent, *)
(* a policy-engine list; both go through apply_deny_entries.               *)
(***************************************************************************)
\* Wrong variant: pinned maps are resumed without a look at their count.
Seed_NoCountCheck ==
  /\ pc = "seed"
  /\ entries' = IF plan = "bootstrap" THEN Bootstrap ELSE entries
  /\ idx' = 1
  /\ pc' = IF plan = "resume" THEN "lsm" ELSE "write"
  /\ UNCHANGED <<lists, counts, bpffs, links, plan, dir, fd, fdLink,
                 crashes, history>>

Seed ==
  /\ pc = "seed"
  /\ \/ plan = "resume" /\ counts[fd["COUNT"]] = 0 /\ Refuse
     \/ /\ plan = "resume" /\ counts[fd["COUNT"]] > 0
        /\ pc' = "lsm" /\ UNCHANGED <<entries, idx>>
        /\ UNCHANGED <<lists, counts, bpffs, links, plan, dir, fd, fdLink,
                       crashes, history>>
     \/ /\ plan # "resume"
        /\ entries' = IF plan = "bootstrap" THEN Bootstrap ELSE entries
        /\ idx' = 1 /\ pc' = "write"
        /\ UNCHANGED <<lists, counts, bpffs, links, plan, dir, fd, fdLink,
                       crashes, history>>

SyncPolicy ==
  /\ pc = "running"
  /\ \E p \in Policies : entries' = p
  /\ idx' = 1 /\ pc' = "write" /\ synced' = TRUE
  /\ UNCHANGED <<lists, counts, bpffs, links, plan, dir, fd, fdLink, crashes,
                 origin, promised>>

\* apply_deny_entries: the slots one by one, then the count, then the rest.
WriteSlot ==
  /\ pc = "write" /\ idx <= Len(entries)
  /\ lists' = [lists EXCEPT ![fd["LIST"]].slots[idx] = entries[idx]]
  /\ idx' = idx + 1
  /\ UNCHANGED <<counts, bpffs, links, pc, plan, entries, dir, fd, fdLink,
                 crashes, history>>

\* Wrong variant: the count is one more than the entries written.
WriteCount_OffByOne ==
  /\ pc = "write" /\ idx > Len(entries)
  /\ counts' = [counts EXCEPT ![fd["COUNT"]] = Len(entries) + 1]
  /\ pc' = "clear"
  /\ UNCHANGED <<lists, bpffs, links, locals, crashes, history>>

WriteCount ==
  /\ pc = "write" /\ idx > Len(entries)
  /\ counts' = [counts EXCEPT ![fd["COUNT"]] = Len(entries)]
  /\ pc' = "clear"
  /\ UNCHANGED <<lists, bpffs, links, locals, crashes, history>>

ClearRest ==
  /\ pc = "clear"
  /\ lists' = [lists EXCEPT ![fd["LIST"]].slots =
                 [i \in Slots |-> IF i > Len(entries) THEN Empty ELSE @[i]]]
  /\ pc' = IF fdLink = NoProg THEN "lsm" ELSE "running"
  /\ UNCHANGED <<counts, bpffs, links, locals, crashes, history>>

(***************************************************************************)
(* Program load and attach_and_pin_lsm_fail_closed.                        *)
(***************************************************************************)
\* The verifier rejects a program whose list map has another value size.
LsmLoad ==
  /\ pc = "lsm"
  /\ \/ lists[fd["LIST"]].abi # "current" /\ Refuse
     \/ /\ lists[fd["LIST"]].abi = "current"
        /\ Goto("rmTmp") /\ UNCHANGED bpffs

HandOff(label) ==
  /\ pc' = label
  /\ UNCHANGED <<lists, counts, bpffs, plan, entries, dir, fd, idx, crashes, history>>

RemoveStaleTmp ==
  /\ pc = "rmTmp" /\ linkTmp' = NoProg
  /\ HandOff("attach") /\ UNCHANGED <<link, fdLink>>

Attach ==
  /\ pc = "attach"
  /\ fdLink' = [abi |-> "current", list |-> fd["LIST"], count |-> fd["COUNT"]]
  /\ HandOff("pinTmp") /\ UNCHANGED links

\* Wrong variant: the link is dropped without a pin.
PinTmp_Unpinned ==
  /\ pc = "pinTmp" /\ fdLink' = NoProg
  /\ HandOff("rmOld") /\ UNCHANGED links

\* Pin to *_link_tmp and drop the FD: the pin keeps the program attached.
PinTmp ==
  /\ pc = "pinTmp" /\ linkTmp' = fdLink /\ fdLink' = NoProg
  /\ HandOff("rmOld") /\ UNCHANGED link

RemoveOldLink ==
  /\ pc = "rmOld" /\ link' = NoProg
  /\ HandOff("rename") /\ UNCHANGED <<linkTmp, fdLink>>

RenameLink ==
  /\ pc = "rename" /\ link' = linkTmp /\ linkTmp' = NoProg
  /\ HandOff("reopen") /\ UNCHANGED fdLink

Reopen ==
  /\ pc = "reopen" /\ fdLink' = link
  /\ HandOff("cleanup") /\ UNCHANGED links

\* cleanup_legacy_abi_dirs in ascending n; remove_dir_all is file by file.
CleanupDir ==
  /\ pc = "cleanup"
  /\ \E d \in dirs :
       /\ \A e \in dirs : d <= e
       /\ \/ \E name \in MapNames :
               /\ Staged(d, name)
               /\ staged' = [staged EXCEPT ![d][name] = NoMap]
               /\ UNCHANGED dirs
          \/ /\ \A name \in MapNames : ~Staged(d, name)
             /\ dirs' = dirs \ {d}
             /\ UNCHANGED staged
  /\ Goto("cleanup") /\ UNCHANGED <<pin, proc, procStaged>>

\* cleanup_proc_abi_dirs; the visibility load then creates what is missing.
FinishStart ==
  /\ pc = "cleanup" /\ dirs = {}
  /\ procStaged' = FALSE
  /\ proc' = IF proc = "absent" THEN "match" ELSE proc
  /\ Goto("running") /\ UNCHANGED <<pin, staged, dirs>>

-----------------------------------------------------------------------------
Prepare == \/ AssessIncompatible \/ AssessKeep \/ AssessLegacy \/ AssessResume
           \/ StageCount \/ StageList \/ CompleteList \/ CompleteCount
           \/ ReadStaged \/ FreeList \/ FreeCount \/ RecreateProc

LoadAndSeed == \/ Classify \/ (\E name \in MapNames : LoadMap(name))
               \/ Seed \/ WriteSlot \/ WriteCount \/ ClearRest

ArmLsm == \/ LsmLoad \/ RemoveStaleTmp \/ Attach \/ PinTmp \/ RemoveOldLink
          \/ RenameLink \/ Reopen \/ CleanupDir \/ FinishStart

Next == Start \/ Prepare \/ LoadAndSeed \/ ArmLsm \/ SyncPolicy \/ Crash

Spec == Init /\ [][Next]_vars

\* A live process goes on with its start-up; the kubelet restarts a dead one.
FairSpec == Spec /\ WF_vars(Start) /\ WF_vars(Prepare \/ LoadAndSeed \/ ArmLsm)
-----------------------------------------------------------------------------
(***************************************************************************)
(* Properties.                                                             *)
(***************************************************************************)
Labels == {"down", "refused", "assess", "stageCount", "stageList",
           "completeList", "completeCount", "readStaged", "freeList",
           "freeCount", "proc", "classify", "load", "seed", "write", "clear",
           "lsm", "rmTmp", "attach", "pinTmp", "rmOld", "rename", "reopen",
           "cleanup", "running"}

\* The types of the state.
TypeOK ==
  /\ lists \in [MapId -> [abi : {"legacy", "current", "unknown"},
                         slots : [Slots -> Prefix \cup {Empty}]]]
  /\ counts \in [MapId -> 0..MaxEntries]
  /\ pin \in [MapNames -> MapId \cup {NoMap}]
  /\ staged \in [Dirs -> [MapNames -> MapId \cup {NoMap}]]
  /\ dirs \subseteq Dirs
  /\ proc \in {"absent", "match", "mismatch"} /\ procStaged \in BOOLEAN
  /\ link \in Programs \cup {NoProg} /\ linkTmp \in Programs \cup {NoProg}
  /\ pc \in Labels /\ plan \in {"none", "bootstrap", "resume", "migrated"}
  /\ entries \in Seq(Prefix) /\ Len(entries) <= MaxEntries
  /\ dir \in Dirs \cup {NoDir}
  /\ fd \in [MapNames -> MapId \cup {NoMap}]
  /\ fdLink \in Programs \cup {NoProg}
  /\ idx \in 0..MaxEntries + 1
  /\ crashes \in Nat
  /\ promised \subseteq Prefix /\ synced \in BOOLEAN

\* F3 (ADR-002): a program this agent attached never runs over an empty or
\* half-written deny list, nor over a map of another layout, whatever the
\* crash points before, and while apply_deny_entries rewrites the list.
AttachedProgramsDeny ==
  \A p \in Attached :
    p.abi = "current" =>
      /\ lists[p.list].abi = "current"
      /\ counts[p.count] > 0
      /\ Empty \notin Active(p.list, p.count)

\* F3: until a policy-engine list replaces it, every program that enforces denies
\* every prefix the pins denied when the agent was upgraded or restarted.
PolicySurvivesRestart ==
  ~synced => \A p \in Attached : promised \subseteq Active(p.list, p.count)

\* "kill -9 at any step recovers on the next start": once a link pin enforces,
\* no crash point leaves pins that the assessment, the classification, the
\* seed plan or the verifier rejects.
EnforcingNodeNeverRefuses ==
  /\ origin \in {"cold", "legacy", "compatible"}
  /\ link # NoProg \/ linkTmp # NoProg
  => pc # "refused"

\* The code removes the previous link pin only while the new link is pinned
\* under the temporary name.
HandOffOverlaps ==
  [][link # NoProg => link' # NoProg \/ linkTmp' # NoProg]_vars

\* F4: a layout nobody knows is refused with every pin and map untouched.
UnknownLayoutUntouched ==
  [][origin = "unknown" => UNCHANGED <<pin, staged, dirs, lists, counts, links>>]_vars

\* A node that was enforcing is always brought back to a running agent.
EnforcingNodeRecovers ==
  origin \in {"legacy", "compatible"} => []<>(pc = "running")

\* F2 (ADR-002): "No enforcement gap: old bprm_check_security stays attached
\* until the new link is pinned."
NoEnforcementGap ==
  [][link # NoProg \/ linkTmp # NoProg => Attached' # {}]_vars
=============================================================================
