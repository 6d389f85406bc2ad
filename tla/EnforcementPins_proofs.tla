------------------------ MODULE EnforcementPins_proofs ------------------------
(***************************************************************************)
(* Proofs about EnforcementPins for every number of maps, prefixes,        *)
(* staging directories and crashes.  The inductive invariant follows the   *)
(* canonical pair of pins: what is pinned, what the process has open and   *)
(* what an attached program reads is always the same pair, and a COUNT     *)
(* that is not zero is only ever seen with the slots it counts.            *)
(***************************************************************************)
EXTENDS EnforcementPins, TLAPS

\* The labels before the loader opens the maps.
PreLoad == {"down", "refused", "assess", "stageCount", "stageList",
            "completeList", "completeCount", "readStaged", "freeList",
            "freeCount", "proc", "classify"}

\* The labels at which a resumed migration works on its staging directory.
Resuming == {"completeList", "completeCount", "readStaged", "freeList", "freeCount"}

Filled(list, count) == \A i \in 1..counts[count] : lists[list].slots[i] # Empty

\* What a program of this version needs below it.
Good(list, count) ==
  lists[list].abi = "current" /\ counts[count] > 0 /\ Filled(list, count)

CurrentPrograms == {p \in Attached : p.abi = "current"}

\* An attached program of this version reads a complete list.
ProgramsGood == \A p \in CurrentPrograms : Good(p.list, p.count)

\* It reads both of the canonical maps or neither.
ProgramsPaired ==
  \A p \in CurrentPrograms : p.list = pin["LIST"] <=> p.count = pin["COUNT"]

\* The canonical maps can be resumed as they are.
CanonicalFilled ==
  /\ MapsOk /\ lists[pin["LIST"]].abi = "current" => Filled(pin["LIST"], pin["COUNT"])
  /\ Pinned("COUNT") /\ ~Pinned("LIST") => counts[pin["COUNT"]] = 0

\* What the labels of the migration say about the canonical pins.
Migrating ==
  /\ pc \in Resuming \cup {"stageCount", "stageList"} => dir \in Dirs
  /\ pc \in {"stageCount", "stageList"} =>
       Pinned("LIST") /\ lists[pin["LIST"]].abi = "legacy"
  /\ pc = "stageCount" => Pinned("COUNT")
  /\ pc = "stageList" => ~Pinned("COUNT")
  /\ pc \in Resuming /\ Pinned("COUNT") => counts[pin["COUNT"]] = 0

\* A plan is made and entries are in memory before they are needed.
EntriesReady ==
  /\ pc \in {"proc", "classify", "load", "seed"} => plan # "none"
  /\ \/ pc \in {"stageCount", "stageList", "freeList", "freeCount", "write", "clear"}
     \/ pc \in {"proc", "classify", "load", "seed"} /\ plan = "migrated"
     => Len(entries) >= 1
  /\ pc \in Resuming \cup {"stageCount", "stageList"} => plan = "migrated"

\* The process works on the canonical maps.
OpenMaps ==
  /\ pc \in PreLoad => fd = NoFds
  /\ \A name \in MapNames : fd[name] # NoMap => fd[name] = pin[name]
  /\ pc \notin PreLoad \cup {"load"} => \A name \in MapNames : fd[name] # NoMap

\* How far apply_deny_entries and the hand-off have come.
WriterProgress ==
  /\ pc = "write" => /\ idx \in 1..Len(entries) + 1
                     /\ \A i \in 1..idx - 1 : lists[fd["LIST"]].slots[i] # Empty
  /\ pc = "clear" => /\ counts[fd["COUNT"]] = Len(entries)
                     /\ Filled(fd["LIST"], fd["COUNT"])
  /\ pc = "lsm" /\ lists[fd["LIST"]].abi = "current" => Good(fd["LIST"], fd["COUNT"])
  /\ pc \in {"rmTmp", "attach"} => Good(fd["LIST"], fd["COUNT"])

Inv == /\ TypeOK /\ ProgramsGood /\ ProgramsPaired /\ CanonicalFilled /\ Migrating
       /\ EntriesReady /\ OpenMaps /\ WriterProgress

-----------------------------------------------------------------------------
\* The entries a migration seeds are a deny list apply_deny_entries accepts.
LEMMA SeedFromType ==
  ASSUME TypeOK, NEW list \in MapId, NEW count \in MapId
  PROVE  SeedFrom(list, count) \in Seq(Prefix) /\ Len(SeedFrom(list, count)) \in 1..MaxEntries
<1>1. CASE Readable(list, count)
  <2>1. counts[count] \in 1..MaxEntries
    BY <1>1, PinAssumption DEF Readable, TypeOK
  <2>2. \A i \in 1..counts[count] : lists[list].slots[i] \in Prefix
    BY <1>1, <2>1, PinAssumption DEF Readable, Active, TypeOK, Slots
  <2>3. ReadEntries(list, count) \in Seq(Prefix) /\ Len(ReadEntries(list, count)) = counts[count]
    BY <2>1, <2>2 DEF ReadEntries
  <2>. QED  BY <1>1, <2>1, <2>3 DEF SeedFrom
<1>2. CASE ~Readable(list, count)
  BY <1>2, PinAssumption DEF SeedFrom
<1>. QED  BY <1>1, <1>2

\* What the invariant says of one attached program of this version.
LEMMA CurrentProgram ==
  ASSUME Inv, NEW p \in CurrentPrograms
  PROVE  /\ p.list \in MapId /\ p.count \in MapId
         /\ Good(p.list, p.count)
         /\ p.list = pin["LIST"] <=> p.count = pin["COUNT"]
  BY DEF Inv, TypeOK, CurrentPrograms, Attached, ProgramsGood, ProgramsPaired, Programs

\* A step that leaves the maps and the canonical pins alone and attaches nothing.
LEMMA MapsUntouched ==
  ASSUME Inv, UNCHANGED <<lists, counts, pin>>, CurrentPrograms' \subseteq CurrentPrograms
  PROVE  ProgramsGood' /\ ProgramsPaired' /\ CanonicalFilled'
  BY DEF Inv, ProgramsGood, ProgramsPaired, CanonicalFilled, Good, Filled, MapsOk, Pinned

\* A process that ends, by a crash or a refusal, leaves the pins as they are.
LEMMA DieStep ==
  ASSUME Inv, NEW where \in {"down", "refused"}, Die(where), crashes' \in Nat
  PROVE  Inv'
<1>1. TypeOK'
  BY PinAssumption DEF Inv, TypeOK, Labels, Die, bpffs, links, history, NoFds,
     NoPins
<1>2. ProgramsGood' /\ ProgramsPaired' /\ CanonicalFilled'
  BY MapsUntouched DEF CurrentPrograms, Attached, Die, bpffs, links, history,
     NoFds, NoPins
<1>3. Migrating' /\ EntriesReady' /\ OpenMaps' /\ WriterProgress'
  BY PinAssumption DEF Inv, TypeOK, Migrating, Resuming, Pinned, EntriesReady,
     OpenMaps, PreLoad, WriterProgress, Good, Filled, Die, bpffs, links,
     history, NoFds, NoPins, MapNames
<1>. QED  BY <1>1, <1>2, <1>3 DEF Inv

\* A refusal is such an end.
LEMMA RefuseStep == ASSUME Inv, Refuse PROVE Inv'
  BY DieStep DEF Refuse, Inv, TypeOK

\* A kill at any point is an end of the process.
LEMMA CrashStep == ASSUME Inv, Crash PROVE Inv'
<1>1. crashes' \in Nat
  BY DEF Crash, Inv, TypeOK
<1>. QED  BY <1>1, DieStep DEF Crash

\* A restart reads nothing yet.
LEMMA StartStep == ASSUME Inv, Start PROVE Inv'
<1>1. TypeOK'
  BY PinAssumption DEF Inv, TypeOK, Labels, Start, bpffs, links, locals,
     history
<1>2. ProgramsGood' /\ ProgramsPaired' /\ CanonicalFilled'
  BY MapsUntouched DEF CurrentPrograms, Attached, Start, bpffs, links, locals,
     history
<1>3. Migrating' /\ EntriesReady' /\ OpenMaps' /\ WriterProgress'
  BY PinAssumption DEF Inv, TypeOK, Migrating, Resuming, Pinned, EntriesReady,
     OpenMaps, PreLoad, WriterProgress, Good, Filled, Start, bpffs, links,
     locals, history
<1>. QED  BY <1>1, <1>2, <1>3 DEF Inv

\* A cold or a compatible directory is left as it is.
LEMMA AssessKeepStep == ASSUME Inv, AssessKeep PROVE Inv'
<1>1. TypeOK'
  BY PinAssumption DEF Inv, TypeOK, Labels, AssessKeep, bpffs, links, history
<1>2. ProgramsGood' /\ ProgramsPaired' /\ CanonicalFilled'
  BY MapsUntouched DEF CurrentPrograms, Attached, AssessKeep, bpffs, links,
     history
<1>3. Migrating' /\ EntriesReady' /\ OpenMaps' /\ WriterProgress'
  BY PinAssumption DEF Inv, TypeOK, Migrating, Resuming, Pinned, EntriesReady,
     OpenMaps, PreLoad, WriterProgress, Good, Filled, AssessKeep, bpffs,
     links, history
<1>. QED  BY <1>1, <1>2, <1>3 DEF Inv

\* A legacy list is read before its pins move, so the entries are in memory.
LEMMA AssessLegacyStep == ASSUME Inv, AssessLegacy PROVE Inv'
<1>a. CASE Refuse
  BY <1>a, RefuseStep
<1>b. CASE ~Refuse
  <2>a. PICK d \in FreeDirs :
           /\ pc = "assess" /\ LegacyMigratable
           /\ plan' = "migrated"
           /\ entries' = SeedFrom(pin["LIST"], pin["COUNT"])
           /\ dir' = d
           /\ dirs' = dirs \cup {d}
           /\ pc' = "stageCount"
           /\ UNCHANGED <<lists, counts, pin, staged, proc, procStaged, links,
                          fd, fdLink, idx, crashes, history>>
    BY <1>b DEF AssessLegacy
  <2>b. pin["LIST"] \in MapId /\ pin["COUNT"] \in MapId /\ d \in Dirs
    BY <2>a DEF LegacyMigratable, MapsOk, Pinned, Inv, TypeOK, MapNames, FreeDirs
  <2>c. entries' \in Seq(Prefix) /\ Len(entries') \in 1..MaxEntries
    BY <2>a, <2>b, SeedFromType DEF Inv
  <2>1. TypeOK'
    BY <2>a, <2>b, <2>c, PinAssumption DEF Inv, TypeOK, Labels, links, history
  <2>2. ProgramsGood' /\ ProgramsPaired' /\ CanonicalFilled'
    BY <2>a, <2>b, <2>c, MapsUntouched DEF CurrentPrograms, Attached, links,
       history
  <2>3. Migrating' /\ EntriesReady' /\ OpenMaps' /\ WriterProgress'
    BY <2>a, <2>b, <2>c, PinAssumption DEF Inv, TypeOK, Migrating, Resuming,
       Pinned, EntriesReady, OpenMaps, PreLoad, WriterProgress, Good, Filled,
       links, history, LegacyMigratable, MapsOk
  <2>. QED  BY <2>1, <2>2, <2>3 DEF Inv
<1>. QED  BY <1>a, <1>b

\* A migration is only resumed over canonical maps that count nothing.
LEMMA AssessResumeStep == ASSUME Inv, AssessResume PROVE Inv'
<1>1. TypeOK'
  BY PinAssumption DEF Inv, TypeOK, Labels, AssessResume, Selected, bpffs,
     links, history
<1>2. ProgramsGood' /\ ProgramsPaired' /\ CanonicalFilled'
  BY MapsUntouched DEF CurrentPrograms, Attached, AssessResume, Selected,
     bpffs, links, history
<1>3. Migrating' /\ EntriesReady' /\ OpenMaps' /\ WriterProgress'
  BY PinAssumption DEF Inv, TypeOK, Migrating, Resuming, Pinned, EntriesReady,
     OpenMaps, PreLoad, WriterProgress, Good, Filled, AssessResume, Selected,
     bpffs, links, history, MigrationInProgress, MapsOk, CanonicalFilled
<1>. QED  BY <1>1, <1>2, <1>3 DEF Inv

\* The list under the staged count is a legacy one: no program of this version reads it.
LEMMA StageCountStep == ASSUME Inv, StageCount PROVE Inv'
<1>1. TypeOK'
  BY PinAssumption DEF Inv, TypeOK, Labels, Slots, MapNames, Programs,
     StageCount, Rename, Goto, links, locals, history, Migrating, Pinned
<1>2. ProgramsGood'
  BY PinAssumption DEF Inv, TypeOK, ProgramsGood, CurrentPrograms, Attached,
     Good, Filled, StageCount, Rename, Goto, links, locals, history
<1>3. ProgramsPaired'
  <2>1. SUFFICES ASSUME NEW p \in CurrentPrograms
                PROVE  p.list = pin'["LIST"] <=> p.count = pin'["COUNT"]
    BY DEF ProgramsPaired, CurrentPrograms, Attached, StageCount, Goto, links,
       locals
  <2>2. /\ p.list \in MapId /\ p.count \in MapId
        /\ lists[p.list].abi = "current" /\ counts[p.count] > 0
        /\ p.list = pin["LIST"] <=> p.count = pin["COUNT"]
    BY CurrentProgram DEF Good
  <2>. QED  BY <2>2, PinAssumption DEF Inv, TypeOK, Pinned, MapNames,
     StageCount, Rename, Migrating
<1>4. CanonicalFilled'
  BY PinAssumption DEF Inv, TypeOK, CanonicalFilled, MapsOk, Pinned, Filled,
     StageCount, Rename, Goto, links, locals, history, Migrating, MapNames
<1>5. Migrating'
  BY PinAssumption DEF Inv, TypeOK, Migrating, Resuming, Pinned, StageCount,
     Rename, Goto, links, locals, history, MapNames
<1>6. EntriesReady'
  BY PinAssumption DEF Inv, TypeOK, EntriesReady, Resuming, StageCount,
     Rename, Goto, links, locals, history
<1>7. OpenMaps'
  BY PinAssumption DEF Inv, TypeOK, OpenMaps, PreLoad, StageCount, Rename,
     Goto, links, locals, history, NoFds, NoPins
<1>8. WriterProgress'
  BY PinAssumption DEF Inv, TypeOK, WriterProgress, Good, Filled, StageCount,
     Rename, Goto, links, locals, history
<1>. QED  BY <1>1, <1>2, <1>3, <1>4, <1>5, <1>6, <1>7, <1>8 DEF Inv

\* With COUNT staged first no canonical count is left behind.
LEMMA StageListStep == ASSUME Inv, StageList PROVE Inv'
<1>1. TypeOK'
  BY PinAssumption DEF Inv, TypeOK, Labels, Slots, MapNames, Programs,
     StageList, Rename, Goto, links, locals, history, Migrating, Pinned
<1>2. ProgramsGood'
  BY PinAssumption DEF Inv, TypeOK, ProgramsGood, CurrentPrograms, Attached,
     Good, Filled, StageList, Rename, Goto, links, locals, history
<1>3. ProgramsPaired'
  <2>1. SUFFICES ASSUME NEW p \in CurrentPrograms
                PROVE  p.list = pin'["LIST"] <=> p.count = pin'["COUNT"]
    BY DEF ProgramsPaired, CurrentPrograms, Attached, StageList, Goto, links,
       locals
  <2>2. /\ p.list \in MapId /\ p.count \in MapId
        /\ lists[p.list].abi = "current" /\ counts[p.count] > 0
        /\ p.list = pin["LIST"] <=> p.count = pin["COUNT"]
    BY CurrentProgram DEF Good
  <2>. QED  BY <2>2, PinAssumption DEF Inv, TypeOK, Pinned, MapNames,
     StageList, Rename, Migrating
<1>4. CanonicalFilled'
  BY PinAssumption DEF Inv, TypeOK, CanonicalFilled, MapsOk, Pinned, Filled,
     StageList, Rename, Goto, links, locals, history, Migrating, MapNames
<1>5. Migrating'
  BY PinAssumption DEF Inv, TypeOK, Migrating, Resuming, Pinned, StageList,
     Rename, Goto, links, locals, history
<1>6. EntriesReady'
  BY PinAssumption DEF Inv, TypeOK, EntriesReady, Resuming, StageList, Rename,
     Goto, links, locals, history
<1>7. OpenMaps'
  BY PinAssumption DEF Inv, TypeOK, OpenMaps, PreLoad, StageList, Rename,
     Goto, links, locals, history, NoFds, NoPins
<1>8. WriterProgress'
  BY PinAssumption DEF Inv, TypeOK, WriterProgress, Good, Filled, StageList,
     Rename, Goto, links, locals, history
<1>. QED  BY <1>1, <1>2, <1>3, <1>4, <1>5, <1>6, <1>7, <1>8 DEF Inv

\* A staging that is completed only moves pins no program of this version reads.
LEMMA CompleteListStep == ASSUME Inv, CompleteList PROVE Inv'
<1>1. TypeOK'
  <2>1. dir \in Dirs /\ staged \in [Dirs -> [MapNames -> MapId \cup {NoMap}]]
    BY DEF CompleteList, Inv, TypeOK, Migrating, Resuming
  <2>2. [staged[dir] EXCEPT !["LIST"] = pin["LIST"]] \in [MapNames -> MapId \cup {NoMap}]
    BY <2>1 DEF Inv, TypeOK, MapNames
  <2>3. pin' \in [MapNames -> MapId \cup {NoMap}] /\ staged' \in [Dirs -> [MapNames -> MapId \cup {NoMap}]]
    BY <2>1, <2>2 DEF CompleteList, CompleteStage, Rename, Inv, TypeOK, MapNames
  <2>. QED  BY <2>3, PinAssumption DEF Inv, TypeOK, Labels, CompleteList,
     CompleteStage, Staged, Rename, Goto, links, locals, history
<1>2. ProgramsGood'
  BY PinAssumption DEF Inv, TypeOK, ProgramsGood, CurrentPrograms, Attached,
     Good, Filled, CompleteList, CompleteStage, Staged, Rename, Goto, links,
     locals, history
<1>3. ProgramsPaired'
  <2>1. SUFFICES ASSUME NEW p \in CurrentPrograms
                PROVE  p.list = pin'["LIST"] <=> p.count = pin'["COUNT"]
    BY DEF ProgramsPaired, CurrentPrograms, Attached, CompleteList, Goto,
       links, locals
  <2>2. /\ p.list \in MapId /\ p.count \in MapId
        /\ lists[p.list].abi = "current" /\ counts[p.count] > 0
        /\ p.list = pin["LIST"] <=> p.count = pin["COUNT"]
    BY CurrentProgram DEF Good
  <2>. QED  BY <2>2, PinAssumption DEF Inv, TypeOK, Pinned, MapNames,
     CompleteList, CompleteStage, Staged, Rename, Migrating, Resuming
<1>4. CanonicalFilled'
  BY PinAssumption DEF Inv, TypeOK, CanonicalFilled, MapsOk, Pinned, Filled,
     CompleteList, CompleteStage, Staged, Rename, Goto, links, locals,
     history, Migrating, Resuming, MapNames
<1>5. Migrating'
  BY PinAssumption DEF Inv, TypeOK, Migrating, Resuming, Pinned, CompleteList,
     CompleteStage, Staged, Rename, Goto, links, locals, history, MapNames
<1>6. EntriesReady'
  BY PinAssumption DEF Inv, TypeOK, EntriesReady, Resuming, CompleteList,
     CompleteStage, Staged, Rename, Goto, links, locals, history
<1>7. OpenMaps'
  BY PinAssumption DEF Inv, TypeOK, OpenMaps, PreLoad, CompleteList,
     CompleteStage, Staged, Rename, Goto, links, locals, history, NoFds,
     NoPins
<1>8. WriterProgress'
  BY PinAssumption DEF Inv, TypeOK, WriterProgress, Good, Filled,
     CompleteList, CompleteStage, Staged, Rename, Goto, links, locals, history
<1>. QED  BY <1>1, <1>2, <1>3, <1>4, <1>5, <1>6, <1>7, <1>8 DEF Inv

\* The same for the other map.
LEMMA CompleteCountStep == ASSUME Inv, CompleteCount PROVE Inv'
<1>1. TypeOK'
  <2>1. dir \in Dirs /\ staged \in [Dirs -> [MapNames -> MapId \cup {NoMap}]]
    BY DEF CompleteCount, Inv, TypeOK, Migrating, Resuming
  <2>2. [staged[dir] EXCEPT !["COUNT"] = pin["COUNT"]] \in [MapNames -> MapId \cup {NoMap}]
    BY <2>1 DEF Inv, TypeOK, MapNames
  <2>3. pin' \in [MapNames -> MapId \cup {NoMap}] /\ staged' \in [Dirs -> [MapNames -> MapId \cup {NoMap}]]
    BY <2>1, <2>2 DEF CompleteCount, CompleteStage, Rename, Inv, TypeOK, MapNames
  <2>. QED  BY <2>3, PinAssumption DEF Inv, TypeOK, Labels, CompleteCount,
     CompleteStage, Staged, Rename, Goto, links, locals, history
<1>2. ProgramsGood'
  BY PinAssumption DEF Inv, TypeOK, ProgramsGood, CurrentPrograms, Attached,
     Good, Filled, CompleteCount, CompleteStage, Staged, Rename, Goto, links,
     locals, history
<1>3. ProgramsPaired'
  <2>1. SUFFICES ASSUME NEW p \in CurrentPrograms
                PROVE  p.list = pin'["LIST"] <=> p.count = pin'["COUNT"]
    BY DEF ProgramsPaired, CurrentPrograms, Attached, CompleteCount, Goto,
       links, locals
  <2>2. /\ p.list \in MapId /\ p.count \in MapId
        /\ lists[p.list].abi = "current" /\ counts[p.count] > 0
        /\ p.list = pin["LIST"] <=> p.count = pin["COUNT"]
    BY CurrentProgram DEF Good
  <2>. QED  BY <2>2, PinAssumption DEF Inv, TypeOK, Pinned, MapNames,
     CompleteCount, CompleteStage, Staged, Rename, Migrating, Resuming
<1>4. CanonicalFilled'
  BY PinAssumption DEF Inv, TypeOK, CanonicalFilled, MapsOk, Pinned, Filled,
     CompleteCount, CompleteStage, Staged, Rename, Goto, links, locals,
     history, Migrating, Resuming, MapNames
<1>5. Migrating'
  BY PinAssumption DEF Inv, TypeOK, Migrating, Resuming, Pinned,
     CompleteCount, CompleteStage, Staged, Rename, Goto, links, locals,
     history, MapNames
<1>6. EntriesReady'
  BY PinAssumption DEF Inv, TypeOK, EntriesReady, Resuming, CompleteCount,
     CompleteStage, Staged, Rename, Goto, links, locals, history
<1>7. OpenMaps'
  BY PinAssumption DEF Inv, TypeOK, OpenMaps, PreLoad, CompleteCount,
     CompleteStage, Staged, Rename, Goto, links, locals, history, NoFds,
     NoPins
<1>8. WriterProgress'
  BY PinAssumption DEF Inv, TypeOK, WriterProgress, Good, Filled,
     CompleteCount, CompleteStage, Staged, Rename, Goto, links, locals,
     history
<1>. QED  BY <1>1, <1>2, <1>3, <1>4, <1>5, <1>6, <1>7, <1>8 DEF Inv

\* What is read from staging, or the bootstrap list, can be seeded.
LEMMA ReadStagedStep == ASSUME Inv, ReadStaged PROVE Inv'
<1>a. CASE Refuse
  BY <1>a, RefuseStep
<1>b. CASE ~Refuse
  <2>a. /\ pc = "readStaged"
        /\ \A name \in MapNames : Located(name) # NoMap
        /\ entries' = SeedFrom(Located("LIST"), Located("COUNT"))
        /\ pc' \in {"freeList", "proc"}
        /\ UNCHANGED <<lists, counts, bpffs, links, plan, dir, fd, fdLink, idx,
                       crashes, history>>
    BY <1>b DEF ReadStaged
  <2>b. dir \in Dirs
    BY <2>a DEF Inv, Migrating, Resuming
  <2>c. Located("LIST") \in MapId /\ Located("COUNT") \in MapId
    BY <2>a, <2>b DEF Located, Staged, Inv, TypeOK, MapNames
  <2>d. entries' \in Seq(Prefix) /\ Len(entries') \in 1..MaxEntries
    BY <2>a, <2>c, SeedFromType DEF Inv
  <2>1. TypeOK'
    BY <2>a, <2>d, PinAssumption DEF Inv, TypeOK, Labels, bpffs, links,
       history
  <2>2. ProgramsGood' /\ ProgramsPaired' /\ CanonicalFilled'
    BY <2>a, <2>d, MapsUntouched DEF CurrentPrograms, Attached, bpffs, links,
       history
  <2>3. Migrating' /\ EntriesReady' /\ OpenMaps' /\ WriterProgress'
    BY <2>a, <2>d, PinAssumption DEF Inv, TypeOK, Migrating, Resuming, Pinned,
       EntriesReady, OpenMaps, PreLoad, WriterProgress, Good, Filled, bpffs,
       links, history
  <2>. QED  BY <2>1, <2>2, <2>3 DEF Inv
<1>. QED  BY <1>a, <1>b

\* Only a canonical pair that counts nothing is freed.
LEMMA FreeListStep == ASSUME Inv, FreeList PROVE Inv'
<1>1. TypeOK'
  BY PinAssumption DEF Inv, TypeOK, Labels, Slots, MapNames, Programs,
     FreeList, FreeCanonical, Goto, links, locals, history
<1>2. ProgramsGood'
  BY PinAssumption DEF Inv, TypeOK, ProgramsGood, CurrentPrograms, Attached,
     Good, Filled, FreeList, FreeCanonical, Goto, links, locals, history
<1>3. ProgramsPaired'
  <2>1. SUFFICES ASSUME NEW p \in CurrentPrograms
                PROVE  p.list = pin'["LIST"] <=> p.count = pin'["COUNT"]
    BY DEF ProgramsPaired, CurrentPrograms, Attached, FreeList, Goto, links,
       locals
  <2>2. /\ p.list \in MapId /\ p.count \in MapId
        /\ lists[p.list].abi = "current" /\ counts[p.count] > 0
        /\ p.list = pin["LIST"] <=> p.count = pin["COUNT"]
    BY CurrentProgram DEF Good
  <2>. QED  BY <2>2, PinAssumption DEF Inv, TypeOK, Pinned, MapNames,
     FreeList, FreeCanonical, Migrating, Resuming
<1>4. CanonicalFilled'
  BY PinAssumption DEF Inv, TypeOK, CanonicalFilled, MapsOk, Pinned, Filled,
     FreeList, FreeCanonical, Goto, links, locals, history, Migrating,
     Resuming, MapNames
<1>5. Migrating'
  BY PinAssumption DEF Inv, TypeOK, Migrating, Resuming, Pinned, FreeList,
     FreeCanonical, Goto, links, locals, history, MapNames
<1>6. EntriesReady'
  BY PinAssumption DEF Inv, TypeOK, EntriesReady, Resuming, FreeList,
     FreeCanonical, Goto, links, locals, history
<1>7. OpenMaps'
  BY PinAssumption DEF Inv, TypeOK, OpenMaps, PreLoad, FreeList,
     FreeCanonical, Goto, links, locals, history, NoFds, NoPins
<1>8. WriterProgress'
  BY PinAssumption DEF Inv, TypeOK, WriterProgress, Good, Filled, FreeList,
     FreeCanonical, Goto, links, locals, history
<1>. QED  BY <1>1, <1>2, <1>3, <1>4, <1>5, <1>6, <1>7, <1>8 DEF Inv

\* The same for the other map.
LEMMA FreeCountStep == ASSUME Inv, FreeCount PROVE Inv'
<1>1. TypeOK'
  BY PinAssumption DEF Inv, TypeOK, Labels, Slots, MapNames, Programs,
     FreeCount, FreeCanonical, Goto, links, locals, history
<1>2. ProgramsGood'
  BY PinAssumption DEF Inv, TypeOK, ProgramsGood, CurrentPrograms, Attached,
     Good, Filled, FreeCount, FreeCanonical, Goto, links, locals, history
<1>3. ProgramsPaired'
  <2>1. SUFFICES ASSUME NEW p \in CurrentPrograms
                PROVE  p.list = pin'["LIST"] <=> p.count = pin'["COUNT"]
    BY DEF ProgramsPaired, CurrentPrograms, Attached, FreeCount, Goto, links,
       locals
  <2>2. /\ p.list \in MapId /\ p.count \in MapId
        /\ lists[p.list].abi = "current" /\ counts[p.count] > 0
        /\ p.list = pin["LIST"] <=> p.count = pin["COUNT"]
    BY CurrentProgram DEF Good
  <2>. QED  BY <2>2, PinAssumption DEF Inv, TypeOK, Pinned, MapNames,
     FreeCount, FreeCanonical, Migrating, Resuming
<1>4. CanonicalFilled'
  BY PinAssumption DEF Inv, TypeOK, CanonicalFilled, MapsOk, Pinned, Filled,
     FreeCount, FreeCanonical, Goto, links, locals, history, Migrating,
     Resuming, MapNames
<1>5. Migrating'
  BY PinAssumption DEF Inv, TypeOK, Migrating, Resuming, Pinned, FreeCount,
     FreeCanonical, Goto, links, locals, history, MapNames
<1>6. EntriesReady'
  BY PinAssumption DEF Inv, TypeOK, EntriesReady, Resuming, FreeCount,
     FreeCanonical, Goto, links, locals, history
<1>7. OpenMaps'
  BY PinAssumption DEF Inv, TypeOK, OpenMaps, PreLoad, FreeCount,
     FreeCanonical, Goto, links, locals, history, NoFds, NoPins
<1>8. WriterProgress'
  BY PinAssumption DEF Inv, TypeOK, WriterProgress, Good, Filled, FreeCount,
     FreeCanonical, Goto, links, locals, history
<1>. QED  BY <1>1, <1>2, <1>3, <1>4, <1>5, <1>6, <1>7, <1>8 DEF Inv

\* Process maps hold no enforcement state.
LEMMA RecreateProcStep == ASSUME Inv, RecreateProc PROVE Inv'
<1>1. TypeOK'
  BY PinAssumption DEF Inv, TypeOK, Labels, RecreateProc, Goto, links, locals,
     history
<1>2. ProgramsGood' /\ ProgramsPaired' /\ CanonicalFilled'
  BY MapsUntouched DEF CurrentPrograms, Attached, RecreateProc, Goto, links,
     locals, history
<1>3. Migrating' /\ EntriesReady' /\ OpenMaps' /\ WriterProgress'
  BY PinAssumption DEF Inv, TypeOK, Migrating, Resuming, Pinned, EntriesReady,
     OpenMaps, PreLoad, WriterProgress, Good, Filled, RecreateProc, Goto,
     links, locals, history
<1>. QED  BY <1>1, <1>2, <1>3 DEF Inv

\* The classification only reads.
LEMMA ClassifyStep == ASSUME Inv, Classify PROVE Inv'
<1>a. CASE Refuse
  BY <1>a, RefuseStep
<1>b. CASE ~Refuse
  <2>a. pc = "classify" /\ Goto("load") /\ UNCHANGED bpffs
    BY <1>b DEF Classify
  <2>1. TypeOK'
    BY <2>a, PinAssumption DEF Inv, TypeOK, Labels, bpffs, Goto, links,
       locals, history
  <2>2. ProgramsGood' /\ ProgramsPaired' /\ CanonicalFilled'
    BY <2>a, MapsUntouched DEF CurrentPrograms, Attached, bpffs, Goto, links,
       locals, history
  <2>3. Migrating' /\ EntriesReady' /\ OpenMaps' /\ WriterProgress'
    BY <2>a, PinAssumption DEF Inv, TypeOK, Migrating, Resuming, Pinned,
       EntriesReady, OpenMaps, PreLoad, WriterProgress, Good, Filled, bpffs,
       Goto, links, locals, history
  <2>. QED  BY <2>1, <2>2, <2>3 DEF Inv
<1>. QED  BY <1>a, <1>b

\* The loader reuses a pin or pins a new map that nothing else refers to.
LEMMA LoadMapStep ==
  ASSUME Inv, NEW name \in MapNames, LoadMap(name) PROVE Inv'
<1>a. CASE Pinned(name)
  <2>a. /\ pc = "load" /\ fd[name] = NoMap
        /\ fd' = [fd EXCEPT ![name] = pin[name]]
        /\ pc' = IF \A n \in MapNames : fd'[n] # NoMap THEN "seed" ELSE "load"
        /\ UNCHANGED <<lists, counts, bpffs, links, plan, entries, dir,
                       fdLink, idx, crashes, history>>
    BY <1>a DEF LoadMap, bpffs
  <2>1. TypeOK'
    BY <1>a, <2>a, PinAssumption DEF Inv, TypeOK, Labels, bpffs, links,
       history, Pinned
  <2>2. ProgramsGood' /\ ProgramsPaired' /\ CanonicalFilled'
    BY <1>a, <2>a, MapsUntouched DEF CurrentPrograms, Attached, bpffs, links,
       history, Pinned
  <2>3. Migrating' /\ EntriesReady' /\ OpenMaps' /\ WriterProgress'
    BY <1>a, <2>a, PinAssumption DEF Inv, TypeOK, Migrating, Resuming, Pinned,
       EntriesReady, OpenMaps, PreLoad, WriterProgress, Good, Filled, bpffs,
       links, history, MapNames
  <2>. QED  BY <2>1, <2>2, <2>3 DEF Inv
<1>b. CASE ~Pinned(name)
  <2>a. PICK m \in MapId \ InUse(name) :
          /\ pc = "load" /\ fd[name] = NoMap
          /\ fd' = [fd EXCEPT ![name] = m]
          /\ pin' = [pin EXCEPT ![name] = m]
          /\ lists' = IF name = "COUNT" THEN lists
                      ELSE [lists EXCEPT ![m] = [abi |-> "current", slots |-> BlankSlots]]
          /\ counts' = IF name = "LIST" THEN counts ELSE [counts EXCEPT ![m] = 0]
          /\ pc' = IF \A n \in MapNames : fd'[n] # NoMap THEN "seed" ELSE "load"
          /\ UNCHANGED <<staged, dirs, proc, procStaged, links, plan, entries,
                         dir, fdLink, idx, crashes, history>>
    BY <1>b DEF LoadMap
  <2>b. \A p \in Attached : (name = "LIST" => p.list # m) /\ (name = "COUNT" => p.count # m)
    BY <2>a DEF InUse
  <2>1. TypeOK'
    BY PinAssumption, <1>b, <2>a, <2>b DEF Inv, TypeOK, Labels, Slots,
       MapNames, Programs, links, history, Pinned, BlankSlots
  <2>2. ProgramsGood'
    BY PinAssumption, <1>b, <2>a, <2>b DEF Inv, TypeOK, ProgramsGood,
       CurrentPrograms, Attached, Good, Filled, links, history, Pinned,
       MapNames
  <2>3. ProgramsPaired'
    <3>1. SUFFICES ASSUME NEW p \in CurrentPrograms
                  PROVE  p.list = pin'["LIST"] <=> p.count = pin'["COUNT"]
      BY <1>b, <2>a, <2>b DEF ProgramsPaired, CurrentPrograms, Attached, links
    <3>2. /\ p.list \in MapId /\ p.count \in MapId
          /\ lists[p.list].abi = "current" /\ counts[p.count] > 0
          /\ p.list = pin["LIST"] <=> p.count = pin["COUNT"]
      BY CurrentProgram DEF Good
    <3>. QED  BY <3>2, <1>b, <2>a, <2>b, PinAssumption DEF Inv, TypeOK,
       Pinned, MapNames, CanonicalFilled, CurrentPrograms
  <2>4. CanonicalFilled'
    BY PinAssumption, <1>b, <2>a, <2>b DEF Inv, TypeOK, CanonicalFilled,
       MapsOk, Pinned, Filled, links, history, MapNames
  <2>5. Migrating'
    BY PinAssumption, <1>b, <2>a, <2>b DEF Inv, TypeOK, Migrating, Resuming,
       Pinned, links, history
  <2>6. EntriesReady'
    BY PinAssumption, <1>b, <2>a, <2>b DEF Inv, TypeOK, EntriesReady,
       Resuming, links, history, Pinned
  <2>7. OpenMaps'
    BY PinAssumption, <1>b, <2>a, <2>b DEF Inv, TypeOK, OpenMaps, PreLoad,
       links, history, Pinned, MapNames
  <2>8. WriterProgress'
    BY PinAssumption, <1>b, <2>a, <2>b DEF Inv, TypeOK, WriterProgress, Good,
       Filled, links, history, Pinned
  <2>. QED  BY <2>1, <2>2, <2>3, <2>4, <2>5, <2>6, <2>7, <2>8 DEF Inv
<1>. QED  BY <1>a, <1>b

\* A resumed pair is complete; any other plan has entries to write.
LEMMA SeedStep == ASSUME Inv, Seed PROVE Inv'
<1>a. CASE Refuse
  BY <1>a, RefuseStep
<1>b. CASE ~Refuse /\ plan = "resume"
  <2>a. /\ pc = "seed" /\ counts[fd["COUNT"]] > 0
        /\ pc' = "lsm" /\ UNCHANGED <<entries, idx>>
        /\ UNCHANGED <<lists, counts, bpffs, links, plan, dir, fd, fdLink,
                       crashes, history>>
    BY <1>b DEF Seed
  <2>1. TypeOK'
    BY <1>b, <2>a, PinAssumption DEF Inv, TypeOK, Labels, bpffs, links,
       history
  <2>2. ProgramsGood' /\ ProgramsPaired' /\ CanonicalFilled'
    BY <1>b, <2>a, MapsUntouched DEF CurrentPrograms, Attached, bpffs, links,
       history
  <2>3. Migrating' /\ EntriesReady' /\ OpenMaps' /\ WriterProgress'
    BY <1>b, <2>a, PinAssumption DEF Inv, TypeOK, Migrating, Resuming, Pinned,
       EntriesReady, OpenMaps, PreLoad, WriterProgress, Good, Filled, bpffs,
       links, history, MapNames, CanonicalFilled, MapsOk
  <2>. QED  BY <2>1, <2>2, <2>3 DEF Inv
<1>c. CASE ~Refuse /\ plan # "resume"
  <2>a. /\ pc = "seed"
        /\ entries' = IF plan = "bootstrap" THEN Bootstrap ELSE entries
        /\ idx' = 1 /\ pc' = "write"
        /\ UNCHANGED <<lists, counts, bpffs, links, plan, dir, fd, fdLink,
                       crashes, history>>
    BY <1>c DEF Seed
  <2>b. entries' \in Seq(Prefix) /\ Len(entries') \in 1..MaxEntries
    BY <1>c, <2>a, PinAssumption DEF Inv, TypeOK, EntriesReady
  <2>1. TypeOK'
    BY <1>c, <2>a, <2>b, PinAssumption DEF Inv, TypeOK, Labels, bpffs, links,
       history
  <2>2. ProgramsGood' /\ ProgramsPaired' /\ CanonicalFilled'
    BY <1>c, <2>a, <2>b, MapsUntouched DEF CurrentPrograms, Attached, bpffs,
       links, history
  <2>3. Migrating' /\ EntriesReady' /\ OpenMaps' /\ WriterProgress'
    BY <1>c, <2>a, <2>b, PinAssumption DEF Inv, TypeOK, Migrating, Resuming,
       Pinned, EntriesReady, OpenMaps, PreLoad, WriterProgress, Good, Filled,
       bpffs, links, history
  <2>. QED  BY <2>1, <2>2, <2>3 DEF Inv
<1>. QED  BY <1>a, <1>b, <1>c

\* A policy-engine list is written into the canonical maps.
LEMMA SyncPolicyStep == ASSUME Inv, SyncPolicy PROVE Inv'
<1>1. TypeOK'
  <2>1. entries' \in Seq(Prefix) /\ Len(entries') <= MaxEntries /\ idx' \in 0..MaxEntries + 1
    BY PinAssumption DEF SyncPolicy
  <2>. QED  BY <2>1, PinAssumption DEF Inv, TypeOK, Labels, SyncPolicy, bpffs,
     links
<1>2. ProgramsGood' /\ ProgramsPaired' /\ CanonicalFilled'
  BY MapsUntouched DEF CurrentPrograms, Attached, SyncPolicy, bpffs, links
<1>3. Migrating' /\ EntriesReady' /\ OpenMaps' /\ WriterProgress'
  BY PinAssumption DEF Inv, TypeOK, Migrating, Resuming, Pinned, EntriesReady,
     OpenMaps, PreLoad, WriterProgress, Good, Filled, SyncPolicy, bpffs, links
<1>. QED  BY <1>1, <1>2, <1>3 DEF Inv

\* A slot is only ever overwritten by a prefix.
LEMMA WriteSlotStep == ASSUME Inv, WriteSlot PROVE Inv'
<1>1. TypeOK'
  <2>1. /\ fd["LIST"] \in MapId
        /\ idx \in Slots /\ idx + 1 \in 0..MaxEntries + 1
        /\ entries[idx] \in Prefix
    BY PinAssumption DEF WriteSlot, Inv, TypeOK, OpenMaps, PreLoad, MapNames, WriterProgress, Slots
  <2>2. [lists[fd["LIST"]].slots EXCEPT ![idx] = entries[idx]] \in [Slots -> Prefix \cup {Empty}]
    BY <2>1 DEF Inv, TypeOK
  <2>3. lists' \in [MapId -> [abi : {"legacy", "current", "unknown"},
                             slots : [Slots -> Prefix \cup {Empty}]]]
    BY <2>1, <2>2 DEF WriteSlot, Inv, TypeOK
  <2>. QED  BY <2>1, <2>3, PinAssumption DEF Inv, TypeOK, Labels, WriteSlot,
     bpffs, links, history
<1>2. ProgramsGood'
  <2>1. SUFFICES ASSUME NEW p \in CurrentPrograms PROVE Good(p.list, p.count)'
    BY DEF ProgramsGood, CurrentPrograms, Attached, WriteSlot, links
  <2>2. /\ p.list \in MapId /\ p.count \in MapId /\ Good(p.list, p.count)
        /\ p.list = pin["LIST"] <=> p.count = pin["COUNT"]
    BY CurrentProgram
  <2>3. fd["LIST"] = pin["LIST"] /\ fd["COUNT"] = pin["COUNT"]
        /\ fd["LIST"] \in MapId /\ fd["COUNT"] \in MapId
    BY DEF WriteSlot, Inv, TypeOK, OpenMaps, PreLoad, MapNames
  <2>4. idx \in Slots /\ entries[idx] \in Prefix
    BY PinAssumption DEF WriteSlot, Inv, TypeOK, WriterProgress, Slots
  <2>5. /\ lists'[p.list].abi = lists[p.list].abi
        /\ \A i \in Slots : lists'[p.list].slots[i] \in {lists[p.list].slots[i], entries[idx]}
    BY <2>2, <2>3, <2>4 DEF WriteSlot, Inv, TypeOK
  <2>. QED  BY <2>2, <2>4, <2>5, PinAssumption DEF WriteSlot, Good, Filled, Inv, TypeOK, Slots
<1>3. ProgramsPaired'
  BY PinAssumption DEF Inv, TypeOK, ProgramsPaired, CurrentPrograms, Attached,
     WriteSlot, bpffs, links, history
<1>4. CanonicalFilled'
  BY PinAssumption DEF Inv, TypeOK, CanonicalFilled, MapsOk, Pinned, Filled,
     WriteSlot, bpffs, links, history, OpenMaps, PreLoad, MapNames,
     EntriesReady, WriterProgress, Slots
<1>5. Migrating'
  BY PinAssumption DEF Inv, TypeOK, Migrating, Resuming, Pinned, WriteSlot,
     bpffs, links, history
<1>6. EntriesReady'
  BY PinAssumption DEF Inv, TypeOK, EntriesReady, Resuming, WriteSlot, bpffs,
     links, history
<1>7. OpenMaps'
  BY PinAssumption DEF Inv, TypeOK, OpenMaps, PreLoad, WriteSlot, bpffs,
     links, history
<1>8. WriterProgress'
  BY PinAssumption DEF Inv, TypeOK, WriterProgress, Good, Filled, WriteSlot,
     bpffs, links, history, OpenMaps, PreLoad, MapNames, EntriesReady, Slots
<1>. QED  BY <1>1, <1>2, <1>3, <1>4, <1>5, <1>6, <1>7, <1>8 DEF Inv

\* The count is written after the slots it counts.
LEMMA WriteCountStep == ASSUME Inv, WriteCount PROVE Inv'
<1>1. TypeOK'
  BY PinAssumption DEF Inv, TypeOK, Labels, Slots, MapNames, Programs,
     WriteCount, bpffs, links, locals, history, OpenMaps, PreLoad,
     EntriesReady, WriterProgress, ProgramsPaired, Filled
<1>2. ProgramsGood'
  <2>1. SUFFICES ASSUME NEW p \in CurrentPrograms PROVE Good(p.list, p.count)'
    BY DEF ProgramsGood, CurrentPrograms, Attached, WriteCount, links, locals
  <2>2. /\ p.list \in MapId /\ p.count \in MapId /\ Good(p.list, p.count)
        /\ p.list = pin["LIST"] <=> p.count = pin["COUNT"]
    BY CurrentProgram
  <2>3. fd["LIST"] = pin["LIST"] /\ fd["COUNT"] = pin["COUNT"]
        /\ fd["LIST"] \in MapId /\ fd["COUNT"] \in MapId
    BY DEF WriteCount, Inv, TypeOK, OpenMaps, PreLoad, MapNames
  <2>. QED  BY <2>2, <2>3 DEF WriteCount, Good, Filled, Inv, TypeOK, WriterProgress, EntriesReady
<1>3. ProgramsPaired'
  BY PinAssumption DEF Inv, TypeOK, ProgramsPaired, CurrentPrograms, Attached,
     WriteCount, bpffs, links, locals, history
<1>4. CanonicalFilled'
  BY PinAssumption DEF Inv, TypeOK, CanonicalFilled, MapsOk, Pinned, Filled,
     WriteCount, bpffs, links, locals, history, OpenMaps, PreLoad, MapNames,
     EntriesReady, WriterProgress, ProgramsPaired
<1>5. Migrating'
  BY PinAssumption DEF Inv, TypeOK, Migrating, Resuming, Pinned, WriteCount,
     bpffs, links, locals, history
<1>6. EntriesReady'
  BY PinAssumption DEF Inv, TypeOK, EntriesReady, Resuming, WriteCount, bpffs,
     links, locals, history
<1>7. OpenMaps'
  BY PinAssumption DEF Inv, TypeOK, OpenMaps, PreLoad, WriteCount, bpffs,
     links, locals, history
<1>8. WriterProgress'
  BY PinAssumption DEF Inv, TypeOK, WriterProgress, Good, Filled, WriteCount,
     bpffs, links, locals, history, OpenMaps, PreLoad, MapNames, EntriesReady,
     ProgramsPaired
<1>. QED  BY <1>1, <1>2, <1>3, <1>4, <1>5, <1>6, <1>7, <1>8 DEF Inv

\* Only slots beyond the count are cleared.
LEMMA ClearRestStep == ASSUME Inv, ClearRest PROVE Inv'
<1>1. TypeOK'
  <2>1. fd["LIST"] \in MapId
    BY DEF ClearRest, Inv, TypeOK, OpenMaps, PreLoad, MapNames
  <2>2. [i \in Slots |-> IF i > Len(entries) THEN Empty ELSE lists[fd["LIST"]].slots[i]]
          \in [Slots -> Prefix \cup {Empty}]
    BY <2>1 DEF Inv, TypeOK
  <2>3. lists' \in [MapId -> [abi : {"legacy", "current", "unknown"},
                             slots : [Slots -> Prefix \cup {Empty}]]]
    BY <2>1, <2>2 DEF ClearRest, Inv, TypeOK
  <2>. QED  BY <2>3, PinAssumption DEF Inv, TypeOK, Labels, ClearRest, bpffs,
     links, locals, history
<1>2. ProgramsGood'
  BY PinAssumption DEF Inv, TypeOK, ProgramsGood, CurrentPrograms, Attached,
     Good, Filled, ClearRest, bpffs, links, locals, history, OpenMaps,
     PreLoad, MapNames, EntriesReady, WriterProgress, ProgramsPaired, Slots
<1>3. ProgramsPaired'
  BY PinAssumption DEF Inv, TypeOK, ProgramsPaired, CurrentPrograms, Attached,
     ClearRest, bpffs, links, locals, history
<1>4. CanonicalFilled'
  BY PinAssumption DEF Inv, TypeOK, CanonicalFilled, MapsOk, Pinned, Filled,
     ClearRest, bpffs, links, locals, history, OpenMaps, PreLoad, MapNames,
     EntriesReady, WriterProgress, ProgramsPaired, Slots
<1>5. Migrating'
  BY PinAssumption DEF Inv, TypeOK, Migrating, Resuming, Pinned, ClearRest,
     bpffs, links, locals, history
<1>6. EntriesReady'
  BY PinAssumption DEF Inv, TypeOK, EntriesReady, Resuming, ClearRest, bpffs,
     links, locals, history
<1>7. OpenMaps'
  BY PinAssumption DEF Inv, TypeOK, OpenMaps, PreLoad, ClearRest, bpffs,
     links, locals, history
<1>8. WriterProgress'
  BY PinAssumption DEF Inv, TypeOK, WriterProgress, Good, Filled, ClearRest,
     bpffs, links, locals, history, OpenMaps, PreLoad, MapNames, EntriesReady,
     ProgramsPaired, Slots
<1>. QED  BY <1>1, <1>2, <1>3, <1>4, <1>5, <1>6, <1>7, <1>8 DEF Inv

\* The verifier admits the program over a map of its own layout only.
LEMMA LsmLoadStep == ASSUME Inv, LsmLoad PROVE Inv'
<1>a. CASE Refuse
  BY <1>a, RefuseStep
<1>b. CASE ~Refuse
  <2>a. /\ pc = "lsm" /\ lists[fd["LIST"]].abi = "current"
        /\ Goto("rmTmp") /\ UNCHANGED bpffs
    BY <1>b DEF LsmLoad
  <2>1. TypeOK'
    BY <2>a, PinAssumption DEF Inv, TypeOK, Labels, bpffs, Goto, links,
       locals, history
  <2>2. ProgramsGood' /\ ProgramsPaired' /\ CanonicalFilled'
    BY <2>a, MapsUntouched DEF CurrentPrograms, Attached, bpffs, Goto, links,
       locals, history
  <2>3. Migrating' /\ EntriesReady' /\ OpenMaps' /\ WriterProgress'
    BY <2>a, PinAssumption DEF Inv, TypeOK, Migrating, Resuming, Pinned,
       EntriesReady, OpenMaps, PreLoad, WriterProgress, Good, Filled, bpffs,
       Goto, links, locals, history
  <2>. QED  BY <2>1, <2>2, <2>3 DEF Inv
<1>. QED  BY <1>a, <1>b

\* Removing a pin attaches nothing.
LEMMA RemoveStaleTmpStep == ASSUME Inv, RemoveStaleTmp PROVE Inv'
<1>1. TypeOK'
  BY PinAssumption DEF Inv, TypeOK, Labels, RemoveStaleTmp, HandOff, bpffs,
     links, history
<1>2. ProgramsGood' /\ ProgramsPaired' /\ CanonicalFilled'
  BY MapsUntouched DEF CurrentPrograms, Attached, RemoveStaleTmp, HandOff,
     bpffs, links, history
<1>3. Migrating' /\ EntriesReady' /\ OpenMaps' /\ WriterProgress'
  BY PinAssumption DEF Inv, TypeOK, Migrating, Resuming, Pinned, EntriesReady,
     OpenMaps, PreLoad, WriterProgress, Good, Filled, RemoveStaleTmp, HandOff,
     bpffs, links, history
<1>. QED  BY <1>1, <1>2, <1>3 DEF Inv

\* The program is attached over the pair that was seeded or resumed.
LEMMA AttachStep == ASSUME Inv, Attach PROVE Inv'
<1>1. TypeOK'
  BY PinAssumption DEF Inv, TypeOK, Labels, Slots, MapNames, Programs, Attach,
     HandOff, bpffs, links, history, OpenMaps, PreLoad
<1>2. ProgramsGood'
  BY PinAssumption DEF Inv, TypeOK, ProgramsGood, CurrentPrograms, Attached,
     Good, Filled, Attach, HandOff, bpffs, links, history, WriterProgress
<1>3. ProgramsPaired'
  BY PinAssumption DEF Inv, TypeOK, ProgramsPaired, CurrentPrograms, Attached,
     Attach, HandOff, bpffs, links, history, OpenMaps, PreLoad, MapNames
<1>4. CanonicalFilled'
  BY PinAssumption DEF Inv, TypeOK, CanonicalFilled, MapsOk, Pinned, Filled,
     Attach, HandOff, bpffs, links, history
<1>5. Migrating'
  BY PinAssumption DEF Inv, TypeOK, Migrating, Resuming, Pinned, Attach,
     HandOff, bpffs, links, history
<1>6. EntriesReady'
  BY PinAssumption DEF Inv, TypeOK, EntriesReady, Resuming, Attach, HandOff,
     bpffs, links, history
<1>7. OpenMaps'
  BY PinAssumption DEF Inv, TypeOK, OpenMaps, PreLoad, Attach, HandOff, bpffs,
     links, history
<1>8. WriterProgress'
  BY PinAssumption DEF Inv, TypeOK, WriterProgress, Good, Filled, Attach,
     HandOff, bpffs, links, history
<1>. QED  BY <1>1, <1>2, <1>3, <1>4, <1>5, <1>6, <1>7, <1>8 DEF Inv

\* Pins and FDs of the hand-off hold the program that was attached.
LEMMA PinTmpStep == ASSUME Inv, PinTmp PROVE Inv'
<1>1. TypeOK'
  BY PinAssumption DEF Inv, TypeOK, Labels, PinTmp, HandOff, bpffs, links,
     history
<1>2. ProgramsGood' /\ ProgramsPaired' /\ CanonicalFilled'
  BY MapsUntouched DEF CurrentPrograms, Attached, PinTmp, HandOff, bpffs,
     links, history
<1>3. Migrating' /\ EntriesReady' /\ OpenMaps' /\ WriterProgress'
  BY PinAssumption DEF Inv, TypeOK, Migrating, Resuming, Pinned, EntriesReady,
     OpenMaps, PreLoad, WriterProgress, Good, Filled, PinTmp, HandOff, bpffs,
     links, history
<1>. QED  BY <1>1, <1>2, <1>3 DEF Inv

\* The old link goes.
LEMMA RemoveOldLinkStep == ASSUME Inv, RemoveOldLink PROVE Inv'
<1>1. TypeOK'
  BY PinAssumption DEF Inv, TypeOK, Labels, RemoveOldLink, HandOff, bpffs,
     links, history
<1>2. ProgramsGood' /\ ProgramsPaired' /\ CanonicalFilled'
  BY MapsUntouched DEF CurrentPrograms, Attached, RemoveOldLink, HandOff,
     bpffs, links, history
<1>3. Migrating' /\ EntriesReady' /\ OpenMaps' /\ WriterProgress'
  BY PinAssumption DEF Inv, TypeOK, Migrating, Resuming, Pinned, EntriesReady,
     OpenMaps, PreLoad, WriterProgress, Good, Filled, RemoveOldLink, HandOff,
     bpffs, links, history
<1>. QED  BY <1>1, <1>2, <1>3 DEF Inv

\* The new link gets its final name.
LEMMA RenameLinkStep == ASSUME Inv, RenameLink PROVE Inv'
<1>1. TypeOK'
  BY PinAssumption DEF Inv, TypeOK, Labels, RenameLink, HandOff, bpffs, links,
     history
<1>2. ProgramsGood' /\ ProgramsPaired' /\ CanonicalFilled'
  BY MapsUntouched DEF CurrentPrograms, Attached, RenameLink, HandOff, bpffs,
     links, history
<1>3. Migrating' /\ EntriesReady' /\ OpenMaps' /\ WriterProgress'
  BY PinAssumption DEF Inv, TypeOK, Migrating, Resuming, Pinned, EntriesReady,
     OpenMaps, PreLoad, WriterProgress, Good, Filled, RenameLink, HandOff,
     bpffs, links, history
<1>. QED  BY <1>1, <1>2, <1>3 DEF Inv

\* The process opens the link it pinned.
LEMMA ReopenStep == ASSUME Inv, Reopen PROVE Inv'
<1>1. TypeOK'
  BY PinAssumption DEF Inv, TypeOK, Labels, Reopen, HandOff, bpffs, links,
     history
<1>2. ProgramsGood' /\ ProgramsPaired' /\ CanonicalFilled'
  BY MapsUntouched DEF CurrentPrograms, Attached, Reopen, HandOff, bpffs,
     links, history
<1>3. Migrating' /\ EntriesReady' /\ OpenMaps' /\ WriterProgress'
  BY PinAssumption DEF Inv, TypeOK, Migrating, Resuming, Pinned, EntriesReady,
     OpenMaps, PreLoad, WriterProgress, Good, Filled, Reopen, HandOff, bpffs,
     links, history
<1>. QED  BY <1>1, <1>2, <1>3 DEF Inv

\* Staging directories are removed; canonical pins stay.
LEMMA CleanupDirStep == ASSUME Inv, CleanupDir PROVE Inv'
<1>1. TypeOK'
  <2>1. dirs' \subseteq Dirs /\ staged' \in [Dirs -> [MapNames -> MapId \cup {NoMap}]]
    <3>1. PICK d \in dirs :
            \/ \E name \in MapNames :
                 staged' = [staged EXCEPT ![d][name] = NoMap] /\ UNCHANGED dirs
            \/ dirs' = dirs \ {d} /\ UNCHANGED staged
      BY DEF CleanupDir
    <3>2. CASE dirs' = dirs \ {d} /\ UNCHANGED staged
      BY <3>2 DEF Inv, TypeOK
    <3>3. ASSUME NEW name \in MapNames,
                 staged' = [staged EXCEPT ![d][name] = NoMap], UNCHANGED dirs
          PROVE  dirs' \subseteq Dirs /\ staged' \in [Dirs -> [MapNames -> MapId \cup {NoMap}]]
      <4>1. d \in Dirs /\ staged[d] \in [MapNames -> MapId \cup {NoMap}]
        BY DEF Inv, TypeOK
      <4>2. [staged[d] EXCEPT ![name] = NoMap] \in [MapNames -> MapId \cup {NoMap}]
        BY <4>1
      <4>. QED  BY <3>3, <4>1, <4>2 DEF Inv, TypeOK
    <3>. QED  BY <3>1, <3>2, <3>3
  <2>. QED  BY <2>1, PinAssumption DEF Inv, TypeOK, Labels, CleanupDir, Goto,
     links, locals, history
<1>2. ProgramsGood' /\ ProgramsPaired' /\ CanonicalFilled'
  BY MapsUntouched DEF CurrentPrograms, Attached, CleanupDir, Goto, links,
     locals, history
<1>3. Migrating' /\ EntriesReady' /\ OpenMaps' /\ WriterProgress'
  BY PinAssumption DEF Inv, TypeOK, Migrating, Resuming, Pinned, EntriesReady,
     OpenMaps, PreLoad, WriterProgress, Good, Filled, CleanupDir, Goto, links,
     locals, history
<1>. QED  BY <1>1, <1>2, <1>3 DEF Inv

\* The start-up ends.
LEMMA FinishStartStep == ASSUME Inv, FinishStart PROVE Inv'
<1>1. TypeOK'
  BY PinAssumption DEF Inv, TypeOK, Labels, FinishStart, Goto, links, locals,
     history
<1>2. ProgramsGood' /\ ProgramsPaired' /\ CanonicalFilled'
  BY MapsUntouched DEF CurrentPrograms, Attached, FinishStart, Goto, links,
     locals, history
<1>3. Migrating' /\ EntriesReady' /\ OpenMaps' /\ WriterProgress'
  BY PinAssumption DEF Inv, TypeOK, Migrating, Resuming, Pinned, EntriesReady,
     OpenMaps, PreLoad, WriterProgress, Good, Filled, FinishStart, Goto,
     links, locals, history
<1>. QED  BY <1>1, <1>2, <1>3 DEF Inv

\* The initial pin directories satisfy the invariant.
LEMMA InitInv == Init => Inv
<1>. SUFFICES ASSUME Init PROVE Inv
  OBVIOUS
<1>0. PICK shape \in Shapes, g \in MapId, n \in 0..MaxEntries,
           s \in [Slots -> Prefix \cup {Empty}] : InitFrom(shape, g, n, s)
  BY DEF Init
<1>1. /\ Populated(shape, s, n)
      /\ lists = [m \in MapId |-> [abi |-> AbiOf(shape),
                                   slots |-> IF m = g THEN s ELSE BlankSlots]]
      /\ counts = [m \in MapId |-> IF m = g THEN n ELSE 0]
      /\ pin = IF shape \in {"cold", "linkonly"} THEN NoPins
               ELSE [name \in MapNames |-> g]
      /\ link = IF shape \in {"cold", "unknown"} THEN NoProg
                ELSE [abi |-> AbiOf(shape), list |-> g, count |-> g]
      /\ promised = IF \/ shape = "compatible"
                       \/ shape = "legacy" /\ Readable(g, g)
                    THEN Active(g, g) ELSE {}
  BY <1>0 DEF InitFrom
<1>2. /\ staged = [d \in Dirs |-> NoPins] /\ dirs = {}
      /\ proc \in {"absent", "match", "mismatch"} /\ procStaged = FALSE
      /\ linkTmp = NoProg /\ synced = FALSE
      /\ pc = "down" /\ plan = "none" /\ entries = <<>> /\ dir = NoDir
      /\ fd = NoFds /\ fdLink = NoProg /\ idx = 0 /\ crashes = 0
  BY <1>0 DEF InitFrom
<1>3. AbiOf(shape) \in {"legacy", "current", "unknown"}
      /\ (AbiOf(shape) = "unknown" <=> shape = "unknown")
      /\ (AbiOf(shape) = "legacy" <=> shape = "legacy")
  BY DEF AbiOf
<1>4. shape # "legacy" => \A i \in 1..n : s[i] # Empty
  BY <1>1, PinAssumption DEF Populated
<1>5. shape \notin {"legacy", "cold"} => n > 0
  BY <1>1 DEF Populated
<1>6. BlankSlots \in [Slots -> Prefix \cup {Empty}]
  BY DEF BlankSlots
<1>7. lists[g].slots = s /\ counts[g] = n /\ lists[g].abi = AbiOf(shape)
  BY <1>1
<1>8. TypeOK
  <2>1. promised \subseteq Prefix
    <3>1. Readable(g, g) => \A i \in 1..n : s[i] # Empty
      BY <1>7 DEF Readable, Active
    <3>. QED  BY <1>1, <1>4, <1>7, <3>1, PinAssumption DEF Active, Slots
  <2>2. /\ lists \in [MapId -> [abi : {"legacy", "current", "unknown"},
                                slots : [Slots -> Prefix \cup {Empty}]]]
        /\ counts \in [MapId -> 0..MaxEntries]
    BY <1>1, <1>3, <1>6, PinAssumption
  <2>3. link \in Programs \cup {NoProg}
    BY <1>1, <1>3 DEF Programs
  <2>4. /\ pin \in [MapNames -> MapId \cup {NoMap}]
        /\ staged \in [Dirs -> [MapNames -> MapId \cup {NoMap}]]
        /\ fd \in [MapNames -> MapId \cup {NoMap}]
    BY <1>1, <1>2 DEF NoPins, NoFds
  <2>5. procStaged \in BOOLEAN /\ synced \in BOOLEAN
    BY <1>2, Zenon
  <2>6. /\ pc \in Labels
        /\ entries \in Seq(Prefix) /\ Len(entries) <= MaxEntries
        /\ idx \in 0..MaxEntries + 1 /\ crashes \in Nat
    BY <1>2, PinAssumption DEF Labels
  <2>. QED  BY <1>2, <2>1, <2>2, <2>3, <2>4, <2>5, <2>6 DEF TypeOK
<1>9. ProgramsGood
  BY <1>1, <1>2, <1>3, <1>4, <1>5, <1>7
     DEF ProgramsGood, CurrentPrograms, Attached, Good, Filled
<1>10. ProgramsPaired
  BY <1>1, <1>2, PinAssumption DEF ProgramsPaired, CurrentPrograms, Attached, NoPins, MapNames
<1>11. CanonicalFilled
  BY <1>1, <1>3, <1>4, <1>7 DEF CanonicalFilled, MapsOk, Pinned, Filled, NoPins, MapNames
<1>12. Migrating /\ EntriesReady /\ OpenMaps /\ WriterProgress
  BY <1>2 DEF Migrating, EntriesReady, OpenMaps, WriterProgress, Resuming, PreLoad, NoFds, NoPins, MapNames
<1>. QED  BY <1>8, <1>9, <1>10, <1>11, <1>12 DEF Inv

\* Every step, and every stuttering step, preserves the invariant.
LEMMA NextInv == Inv /\ [Next]_vars => Inv'
<1>. SUFFICES ASSUME Inv, [Next]_vars PROVE Inv'
  OBVIOUS
<1>1. CASE Start \/ Crash \/ SyncPolicy
  BY <1>1, StartStep, CrashStep, SyncPolicyStep
<1>2. CASE Prepare
  <2>1. ASSUME AssessIncompatible PROVE Inv'
    BY <2>1, RefuseStep DEF AssessIncompatible
  <2>. QED  BY <1>2, <2>1, AssessKeepStep, AssessLegacyStep, AssessResumeStep,
     StageCountStep, StageListStep, CompleteListStep, CompleteCountStep,
     ReadStagedStep, FreeListStep, FreeCountStep, RecreateProcStep DEF Prepare
<1>3. CASE LoadAndSeed
  BY <1>3, ClassifyStep, LoadMapStep, SeedStep, WriteSlotStep, WriteCountStep,
     ClearRestStep DEF LoadAndSeed
<1>4. CASE ArmLsm
  BY <1>4, LsmLoadStep, RemoveStaleTmpStep, AttachStep, PinTmpStep,
     RemoveOldLinkStep, RenameLinkStep, ReopenStep, CleanupDirStep,
     FinishStartStep DEF ArmLsm
<1>5. CASE UNCHANGED vars
  <2>1. TypeOK'
    BY <1>5, PinAssumption DEF Inv, TypeOK, Labels, vars, bpffs, links, locals,
       history
  <2>2. ProgramsGood' /\ ProgramsPaired' /\ CanonicalFilled'
    BY <1>5, MapsUntouched DEF CurrentPrograms, Attached, vars, bpffs, links,
       locals, history
  <2>3. Migrating' /\ EntriesReady' /\ OpenMaps' /\ WriterProgress'
    BY <1>5, PinAssumption DEF Inv, TypeOK, Migrating, Resuming, Pinned,
       EntriesReady, OpenMaps, PreLoad, WriterProgress, Good, Filled, vars,
       bpffs, links, locals, history
  <2>. QED  BY <2>1, <2>2, <2>3 DEF Inv
<1>. QED  BY <1>1, <1>2, <1>3, <1>4, <1>5 DEF Next

-----------------------------------------------------------------------------
\* The invariant holds in every reachable state.
THEOREM Invariance == Spec => []Inv
  BY InitInv, NextInv, PTL DEF Spec

\* Type correctness.
THEOREM TypeCorrect == Spec => []TypeOK
<1>1. Inv => TypeOK
  BY DEF Inv
<1>. QED  BY <1>1, Invariance, PTL

\* F3: no program this agent attaches ever runs over an empty, half-written or
\* differently laid out deny list (attach_and_pin_lsm_fail_closed after the
\* seed, apply_deny_entries under a live program, every crash point).
THEOREM DenyListNeverEmpty == Spec => []AttachedProgramsDeny
<1>1. Inv => AttachedProgramsDeny
  BY DEF Inv, ProgramsGood, CurrentPrograms, Good, Filled, AttachedProgramsDeny, Active
<1>. QED  BY <1>1, Invariance, PTL

\* Between the pin of the new link and its rename the temporary pin is there.
HandOffInv ==
  /\ pc \in {"rmOld", "rename"} => linkTmp # NoProg
  /\ pc = "pinTmp" => fdLink # NoProg

\* The hand-off keeps a pinned link at every step (attach_and_pin_lsm_fail_closed):
\* the last pin of an enforcing link is never removed by a step of the hand-off.
THEOREM HandOffNeverDropsTheLink == Spec => HandOffOverlaps
<1>1. Init => HandOffInv
  <2>1. Init => pc = "down"
    BY DEF Init, InitFrom
  <2>. QED  BY <2>1 DEF HandOffInv
<1>2. Inv /\ HandOffInv /\ [Next]_vars => HandOffInv'
  <2>. SUFFICES ASSUME Inv, HandOffInv, [Next]_vars PROVE HandOffInv'
    OBVIOUS
  <2>. USE DEF HandOffInv
  <2>1. CASE Start \/ Crash \/ SyncPolicy
    BY <2>1 DEF Start, Crash, SyncPolicy, Die, links, locals
  <2>2. CASE Prepare
    BY <2>2 DEF Prepare, AssessIncompatible, AssessKeep, AssessLegacy, AssessResume,
       StageCount, StageList, CompleteList, CompleteCount, ReadStaged, FreeList,
       FreeCount, RecreateProc, Refuse, Die, Goto, links, locals
  <2>3. CASE LoadAndSeed
    BY <2>3 DEF LoadAndSeed, Classify, LoadMap, Seed, WriteSlot, WriteCount,
       ClearRest, Refuse, Die, Goto, links, locals
  <2>4. CASE ArmLsm
    <3>1. ASSUME Attach PROVE fdLink' # NoProg
      <4>1. fd["LIST"] \in MapId /\ fd["COUNT"] \in MapId
        BY <3>1 DEF Attach, Inv, TypeOK, OpenMaps, PreLoad, MapNames
      <4>. QED  BY <3>1, <4>1, PinAssumption DEF Attach
    <3>. QED  BY <2>4, <3>1 DEF ArmLsm, LsmLoad, RemoveStaleTmp, Attach, PinTmp,
       RemoveOldLink, RenameLink, Reopen, CleanupDir, FinishStart, Refuse, Die,
       Goto, HandOff, links, locals
  <2>5. CASE UNCHANGED vars
    BY <2>5 DEF vars, links, locals
  <2>. QED  BY <2>1, <2>2, <2>3, <2>4, <2>5 DEF Next
<1>3. HandOffInv /\ [Next]_vars => [link # NoProg => link' # NoProg \/ linkTmp' # NoProg]_vars
  <2>. SUFFICES ASSUME HandOffInv, Next
                PROVE  link # NoProg => link' # NoProg \/ linkTmp' # NoProg
    OBVIOUS
  <2>. USE DEF HandOffInv
  <2>1. CASE Start \/ Crash \/ SyncPolicy
    BY <2>1 DEF Start, Crash, SyncPolicy, Die, links
  <2>2. CASE Prepare
    BY <2>2 DEF Prepare, AssessIncompatible, AssessKeep, AssessLegacy, AssessResume,
       StageCount, StageList, CompleteList, CompleteCount, ReadStaged, FreeList,
       FreeCount, RecreateProc, Refuse, Die, Goto, links
  <2>3. CASE LoadAndSeed
    BY <2>3 DEF LoadAndSeed, Classify, LoadMap, Seed, WriteSlot, WriteCount,
       ClearRest, Refuse, Die, Goto, links
  <2>4. CASE ArmLsm
    BY <2>4 DEF ArmLsm, LsmLoad, RemoveStaleTmp, Attach, PinTmp,
       RemoveOldLink, RenameLink, Reopen, CleanupDir, FinishStart, Refuse, Die,
       Goto, HandOff, links
  <2>. QED  BY <2>1, <2>2, <2>3, <2>4 DEF Next
<1>. QED  BY <1>1, <1>2, <1>3, Invariance, PTL DEF Spec, HandOffOverlaps
=============================================================================
