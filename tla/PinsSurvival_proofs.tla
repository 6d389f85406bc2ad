------------------------- MODULE PinsSurvival_proofs -------------------------
(***************************************************************************)
(* Proofs about what survives in EnforcementPins: the prefixes the pins    *)
(* denied before an upgrade or a restart, a directory of unknown layout,   *)
(* and the acceptance of an enforcing node by every start.                 *)
(***************************************************************************)
EXTENDS EnforcementPins_proofs, FiniteSetTheorems

-----------------------------------------------------------------------------
(***************************************************************************)
(* The invariant of the migration.  As long as the policy engine has not   *)
(* replaced the list, what was promised is in the canonical maps, or the   *)
(* legacy program still enforces it and its two maps are on their way from *)
(* the canonical pins into one staging directory.                          *)
(***************************************************************************)
Kept == ~synced /\ promised # {}

\* The canonical maps deny what was promised.
Canon ==
  /\ MapsOk /\ lists[pin["LIST"]].abi = "current" /\ counts[pin["COUNT"]] > 0
  /\ promised \subseteq Active(pin["LIST"], pin["COUNT"])

\* The link is the legacy one, and its maps are what was promised.
LegacyLink ==
  /\ link # NoProg /\ link.abi = "legacy" /\ link.list = link.count
  /\ Readable(link.list, link.list) /\ Active(link.list, link.list) = promised

\* Nothing is staged but in d.
OnlyIn(d) == d \in dirs /\ \A e \in Dirs \ {d} : staged[e] = NoPins

Unstaged ==
  /\ pin["LIST"] = link.list /\ pin["COUNT"] = link.list
  /\ \A e \in Dirs : staged[e] = NoPins

HalfStaged(d) ==
  /\ OnlyIn(d) /\ staged[d]["COUNT"] = link.list /\ staged[d]["LIST"] = NoMap
  /\ pin["LIST"] = link.list /\ pin["COUNT"] = NoMap

\* What is canonical beside a staged pair is new and empty.
FullyStaged(d) ==
  /\ OnlyIn(d) /\ staged[d]["COUNT"] = link.list /\ staged[d]["LIST"] = link.list
  /\ pin["LIST"] # link.list /\ pin["COUNT"] # link.list
  /\ Pinned("LIST") => lists[pin["LIST"]].abi = "current"
  /\ Pinned("COUNT") => counts[pin["COUNT"]] = 0

Migratable ==
  LegacyLink /\ (Unstaged \/ \E d \in Dirs : HalfStaged(d) \/ FullyStaged(d))

\* The entries in memory are what was promised.
Carried == {entries[i] : i \in 1..Len(entries)} = promised

\* Programs of this version read the canonical maps, and only the pinned link can be
\* a legacy one.
ProgramsKeep ==
  /\ \A p \in CurrentPrograms :
       Canon /\ p.list = pin["LIST"] /\ p.count = pin["COUNT"]
  /\ \A p \in {linkTmp, fdLink} : p # NoProg => p.abi = "current"
  /\ link # NoProg /\ link.abi = "legacy" => LegacyLink

\* Where the migration is at each label.
Progress ==
  /\ pc \in {"down", "refused", "assess"} => Canon \/ Migratable
  /\ pc = "stageCount" => LegacyLink /\ Unstaged /\ dir \in dirs /\ Carried
  /\ pc = "stageList" => LegacyLink /\ HalfStaged(dir) /\ Carried
  /\ pc = "completeList" => LegacyLink /\ (HalfStaged(dir) \/ FullyStaged(dir))
  /\ pc \in {"completeCount", "readStaged", "freeList", "freeCount"} =>
       LegacyLink /\ FullyStaged(dir)
  /\ pc \in {"freeList", "freeCount"} => Carried
  /\ pc \in {"proc", "classify", "load", "seed"} =>
       \/ plan = "resume" /\ Canon
       \/ plan = "migrated" /\ LegacyLink /\ Carried /\ \E d \in Dirs : FullyStaged(d)
  /\ pc = "write" =>
       /\ LegacyLink /\ Carried /\ \E d \in Dirs : FullyStaged(d)
       /\ \A i \in 1..idx - 1 : lists[fd["LIST"]].slots[i] = entries[i]
  /\ pc = "clear" =>
       /\ Canon /\ Carried
       /\ \A i \in 1..Len(entries) : lists[fd["LIST"]].slots[i] = entries[i]
  /\ pc \in {"lsm", "rmTmp", "attach", "pinTmp", "rmOld", "rename", "reopen",
             "cleanup", "running"} => Canon
  /\ pc = "reopen" /\ link # NoProg => link.abi = "current"

Survival == Kept => ProgramsKeep /\ Progress

-----------------------------------------------------------------------------
(***************************************************************************)
(* Steps that leave the maps, the deny pins and the pinned link alone.     *)
(***************************************************************************)
Static == UNCHANGED <<lists, counts, pin, staged, dirs, link, promised>>

\* What the invariant says of them then stays.
LEMMA StaticKeeps ==
  ASSUME Static
  PROVE  /\ Canon => Canon'
         /\ LegacyLink => LegacyLink'
         /\ Unstaged => Unstaged'
         /\ \A d \in Dirs : HalfStaged(d) => HalfStaged(d)'
         /\ \A d \in Dirs : FullyStaged(d) => FullyStaged(d)'
         /\ Migratable => Migratable'
<1>1. Canon => Canon'
  BY DEF Static, Canon, MapsOk, Pinned, Active
<1>2. LegacyLink => LegacyLink'
  BY DEF Static, LegacyLink, Readable, Active
<1>3. Unstaged => Unstaged'
  BY DEF Static, Unstaged
<1>4. \A d \in Dirs : HalfStaged(d) => HalfStaged(d)'
  BY DEF Static, HalfStaged, OnlyIn
<1>5. \A d \in Dirs : FullyStaged(d) => FullyStaged(d)'
  BY DEF Static, FullyStaged, OnlyIn, Pinned
<1>. QED  BY <1>1, <1>2, <1>3, <1>4, <1>5 DEF Migratable

\* Programs that end are no loss.
LEMMA StaticPrograms ==
  ASSUME ProgramsKeep, Static, linkTmp' \in {NoProg, linkTmp, fdLink},
         fdLink' \in {NoProg, fdLink}
  PROVE  ProgramsKeep'
<1>1. CurrentPrograms' \subseteq CurrentPrograms
  BY DEF CurrentPrograms, Attached, Static
<1>2. (Canon => Canon') /\ (LegacyLink => LegacyLink')
  BY StaticKeeps
<1>3. \A p \in CurrentPrograms' : Canon' /\ p.list = pin'["LIST"] /\ p.count = pin'["COUNT"]
  BY <1>1, <1>2 DEF ProgramsKeep, Static
<1>4. \A p \in {linkTmp', fdLink'} : p # NoProg => p.abi = "current"
  BY DEF ProgramsKeep
<1>5. link' # NoProg /\ link'.abi = "legacy" => LegacyLink'
  BY <1>2 DEF ProgramsKeep, Static
<1>. QED  BY <1>3, <1>4, <1>5 DEF ProgramsKeep

\* At every label what was promised is in force, or can be taken from the legacy
\* maps by the next start.
LEMMA Recoverable ==
  ASSUME Inv, Progress PROVE Canon \/ Migratable
<1>1. pc \in {"stageCount", "stageList"} \cup Resuming => dir \in Dirs
  BY DEF Inv, Migrating
<1>. QED  BY <1>1 DEF Progress, Inv, TypeOK, Labels, Migratable, Resuming

\* A process that ends leaves what the next one needs.
LEMMA DieSurvives ==
  ASSUME Inv, ProgramsKeep, Progress, NEW where \in {"down", "refused"}, Die(where)
  PROVE  ProgramsKeep' /\ Progress'
<1>1. Static /\ linkTmp' = linkTmp /\ fdLink' = NoProg
  BY DEF Die, Static, bpffs, links, history
<1>2. ProgramsKeep'
  BY <1>1, StaticPrograms
<1>3. Canon' \/ Migratable'
  BY <1>1, Recoverable, StaticKeeps
<1>4. Progress'
  BY <1>3 DEF Die, Progress
<1>. QED  BY <1>2, <1>4

\* A new process starts where the old one ended.
LEMMA StartSurvives ==
  ASSUME Inv, ProgramsKeep, Progress, Start
  PROVE  ProgramsKeep' /\ Progress'
<1>1. Static /\ linkTmp' = linkTmp /\ fdLink' = fdLink
  BY DEF Start, Static, bpffs, links, history, locals
<1>2. ProgramsKeep'
  BY <1>1, StaticPrograms
<1>3. Canon' \/ Migratable'
  BY <1>1, Recoverable, StaticKeeps
<1>4. Progress'
  BY <1>3 DEF Start, Progress
<1>. QED  BY <1>2, <1>4

\* The staging directory that holds the legacy maps is the only one that counts.
LEMMA OneDir ==
  ASSUME Inv, LegacyLink, NEW d \in Dirs, HalfStaged(d) \/ FullyStaged(d)
  PROVE  DenyDirs = {d}
<1>1. link.list \in MapId
  BY DEF LegacyLink, Inv, TypeOK, Programs
<1>2. d \in dirs /\ Staged(d, "COUNT")
  BY <1>1, PinAssumption DEF HalfStaged, FullyStaged, OnlyIn, Staged
<1>3. \A e \in dirs \ {d} : \A name \in MapNames : ~Staged(e, name)
  BY DEF HalfStaged, FullyStaged, OnlyIn, Staged, NoPins, Inv, TypeOK
<1>. QED  BY <1>2, <1>3 DEF DenyDirs, MapNames

\* A start that finds its own maps resumes them.
LEMMA AssessKeepSurvives ==
  ASSUME Inv, ProgramsKeep, Progress, AssessKeep
  PROVE  ProgramsKeep' /\ Progress'
<1>1. Static /\ linkTmp' = linkTmp /\ fdLink' = fdLink /\ pc = "assess"
  BY DEF AssessKeep, Static, bpffs, links, history
<1>2. ProgramsKeep'
  BY <1>1, StaticPrograms
<1>3. Canon \/ Migratable
  BY <1>1 DEF Progress
<1>4. ASSUME Migratable PROVE FALSE
  <2>1. LegacyLink /\ link.list \in MapId /\ lists[link.list].abi = "legacy"
    BY <1>4 DEF Migratable, LegacyLink, Readable, Inv, TypeOK, Programs
  <2>2. CASE Unstaged
    BY <1>1, <2>1, <2>2, PinAssumption DEF Unstaged, AssessKeep, Cold, Compatible, Pinned
  <2>3. CASE \E d \in Dirs : HalfStaged(d) \/ FullyStaged(d)
    <3>1. PICK d \in Dirs : HalfStaged(d) \/ FullyStaged(d)
      BY <2>3
    <3>2. DenyDirs # {}
      BY <2>1, <3>1, OneDir
    <3>3. Pinned("COUNT") => counts[pin["COUNT"]] = 0
      BY <3>1 DEF HalfStaged, FullyStaged, Pinned
    <3>. QED  BY <3>2, <3>3 DEF AssessKeep, Cold, Compatible, MapsOk
  <2>. QED  BY <1>4, <2>2, <2>3 DEF Migratable
<1>5. Canon /\ plan' = "resume" /\ pc' = "proc"
  BY <1>3, <1>4 DEF AssessKeep, Cold, Canon, MapsOk
<1>6. Progress'
  BY <1>1, <1>5, StaticKeeps DEF Progress
<1>. QED  BY <1>2, <1>6

\* The entries read from legacy maps are what they deny.
LEMMA ReadIsCarried ==
  ASSUME Inv, LegacyLink, NEW es, es = SeedFrom(link.list, link.list)
  PROVE  {es[i] : i \in 1..Len(es)} = promised
<1>1. link.list \in MapId /\ Readable(link.list, link.list)
      /\ Active(link.list, link.list) = promised
  BY DEF LegacyLink, Inv, TypeOK, Programs
<1>2. counts[link.list] \in Nat
  BY <1>1, PinAssumption DEF Inv, TypeOK
<1>3. es = [i \in 1..counts[link.list] |-> lists[link.list].slots[i]]
  BY <1>1 DEF SeedFrom, ReadEntries
<1>4. Len(es) = counts[link.list]
  BY <1>2, <1>3
<1>5. \A i \in 1..counts[link.list] : es[i] = lists[link.list].slots[i]
  BY <1>3
<1>6. {es[i] : i \in 1..counts[link.list]}
        = {lists[link.list].slots[i] : i \in 1..counts[link.list]}
  BY <1>5
<1>. QED  BY <1>1, <1>4, <1>6 DEF Active

\* An upgrade over legacy maps reads them before it moves them.
LEMMA AssessLegacySurvives ==
  ASSUME Inv, ProgramsKeep, Progress, AssessLegacy
  PROVE  ProgramsKeep' /\ Progress'
<1>1. CASE Refuse
  BY <1>1, DieSurvives DEF Refuse
<1>2. CASE ~Refuse
  <2>1. PICK d \in FreeDirs :
          /\ entries' = SeedFrom(pin["LIST"], pin["COUNT"])
          /\ dir' = d /\ dirs' = dirs \cup {d} /\ pc' = "stageCount"
          /\ UNCHANGED <<lists, counts, pin, staged, proc, procStaged, links,
                         fd, fdLink, idx, crashes, history>>
    BY <1>2 DEF AssessLegacy
  <2>2. pc = "assess" /\ MapsOk /\ lists[pin["LIST"]].abi = "legacy"
    BY DEF AssessLegacy, LegacyMigratable
  <2>3. LegacyLink /\ (Unstaged \/ \E e \in Dirs : HalfStaged(e) \/ FullyStaged(e))
    BY <2>2 DEF Progress, Canon, Migratable
  <2>4. Unstaged
    BY <2>2, <2>3 DEF HalfStaged, FullyStaged, MapsOk, Pinned
  <2>5. LegacyLink' /\ Unstaged' /\ promised' = promised
    BY <2>1, <2>3, <2>4 DEF LegacyLink, Unstaged, Readable, Active, links, history
  <2>6. entries' = SeedFrom(link.list, link.list)
    BY <2>1, <2>4 DEF Unstaged
  <2>7. Carried'
    BY <2>3, <2>5, <2>6, ReadIsCarried DEF Carried
  <2>8. ~Canon
    BY <2>2 DEF Canon
  <2>9. CurrentPrograms' = {} /\ linkTmp' = linkTmp /\ fdLink' = fdLink /\ link' = link
    BY <2>1, <2>8 DEF ProgramsKeep, CurrentPrograms, Attached, links
  <2>10. ProgramsKeep'
    BY <2>5, <2>9 DEF ProgramsKeep
  <2>11. Progress'
    BY <2>1, <2>5, <2>7 DEF Progress
  <2>. QED  BY <2>10, <2>11
<1>. QED  BY <1>1, <1>2

\* Without the canonical maps of this version there is no program of it, and a step
\* that changes only deny pins attaches none.
LEMMA NoPrograms ==
  ASSUME ProgramsKeep, ~Canon, UNCHANGED <<links, fdLink>>, LegacyLink'
  PROVE  ProgramsKeep'
BY DEF ProgramsKeep, CurrentPrograms, Attached, links

\* LegacyLink is about the maps of the link and not about their pins.
LEMMA LegacyLinkStays ==
  ASSUME LegacyLink, UNCHANGED <<lists, counts, link, promised>>
  PROVE  LegacyLink'
BY DEF LegacyLink, Readable, Active

\* It needs only its own maps.
LEMMA LegacyMapsKept ==
  ASSUME Inv, LegacyLink, UNCHANGED <<link, promised>>,
         lists'[link.list] = lists[link.list], counts'[link.list] = counts[link.list]
  PROVE  LegacyLink'
<1>1. lists[link.list].abi = "legacy" /\ counts[link.list] > 0
      /\ Empty \notin Active(link.list, link.list) /\ Active(link.list, link.list) = promised
      /\ link # NoProg /\ link.abi = "legacy" /\ link.list = link.count
  BY DEF LegacyLink, Readable
<1>2. Active(link.list, link.list)' = Active(link.list, link.list)
  BY DEF Active
<1>. QED  BY <1>1, <1>2 DEF LegacyLink, Readable

\* COUNT is staged first.
LEMMA StageCountSurvives ==
  ASSUME Inv, ProgramsKeep, Progress, StageCount
  PROVE  ProgramsKeep' /\ Progress'
<1>1. /\ pc = "stageCount" /\ pc' = "stageList" /\ dir' = dir /\ entries' = entries
      /\ staged' = [staged EXCEPT ![dir]["COUNT"] = pin["COUNT"]]
      /\ pin' = [pin EXCEPT !["COUNT"] = NoMap]
      /\ UNCHANGED <<lists, counts, link, linkTmp, fdLink, promised, dirs>>
  BY DEF StageCount, Rename, Goto, links, locals, history
<1>2. LegacyLink /\ Unstaged /\ dir \in dirs /\ Carried
  BY <1>1 DEF Progress
<1>3. /\ pin \in [MapNames -> MapId \cup {NoMap}] /\ dir \in Dirs /\ dirs \subseteq Dirs
      /\ staged \in [Dirs -> [MapNames -> MapId \cup {NoMap}]]
      /\ link.list \in MapId /\ lists[link.list].abi = "legacy"
  BY <1>2 DEF Inv, TypeOK, LegacyLink, Readable, Programs
<1>4. LegacyLink'
  BY <1>1, <1>2, LegacyLinkStays
<1>5. ~Canon
  BY <1>2, <1>3 DEF Canon, Unstaged
<1>6. ProgramsKeep'
  BY <1>1, <1>4, <1>5, NoPrograms DEF links
<1>7. HalfStaged(dir)'
  <2>1. pin'["LIST"] = link.list /\ pin'["COUNT"] = NoMap
    BY <1>1, <1>2, <1>3 DEF Unstaged, MapNames
  <2>2. staged'[dir]["COUNT"] = link.list /\ staged'[dir]["LIST"] = NoMap
    BY <1>1, <1>2, <1>3 DEF Unstaged, NoPins, MapNames
  <2>3. \A e \in Dirs \ {dir} : staged'[e] = NoPins
    BY <1>1, <1>2, <1>3 DEF Unstaged
  <2>. QED  BY <1>1, <1>2, <2>1, <2>2, <2>3 DEF HalfStaged, OnlyIn, NoPins
<1>8. Carried'
  BY <1>1, <1>2 DEF Carried
<1>9. Progress'
  BY <1>1, <1>4, <1>7, <1>8 DEF Progress
<1>. QED  BY <1>6, <1>9

\* A rename of LIST beside a staged COUNT completes the pair.
LEMMA ListStaged ==
  ASSUME Inv, LegacyLink, HalfStaged(dir), dir \in Dirs, dir' = dir,
         staged' = [staged EXCEPT ![dir]["LIST"] = pin["LIST"]],
         pin' = [pin EXCEPT !["LIST"] = NoMap],
         UNCHANGED <<lists, counts, link, promised, dirs>>
  PROVE  LegacyLink' /\ FullyStaged(dir)'
<1>1. /\ pin \in [MapNames -> MapId \cup {NoMap}]
      /\ staged \in [Dirs -> [MapNames -> MapId \cup {NoMap}]]
      /\ link.list \in MapId
  BY DEF Inv, TypeOK, LegacyLink, Programs
<1>2. LegacyLink'
  BY LegacyLinkStays
<1>3. pin'["LIST"] = NoMap /\ pin'["COUNT"] = NoMap
  BY <1>1 DEF HalfStaged, MapNames
<1>4. staged'[dir]["COUNT"] = link.list /\ staged'[dir]["LIST"] = link.list
  BY <1>1 DEF HalfStaged, MapNames
<1>5. \A e \in Dirs \ {dir} : staged'[e] = NoPins
  BY <1>1 DEF HalfStaged, OnlyIn
<1>6. link.list # NoMap
  BY <1>1, PinAssumption
<1>7. dir \in dirs'
  BY DEF HalfStaged, OnlyIn
<1>. QED  BY <1>2, <1>3, <1>4, <1>5, <1>6, <1>7 DEF FullyStaged, OnlyIn, Pinned, NoPins

\* LIST follows, and the pair is staged.
LEMMA StageListSurvives ==
  ASSUME Inv, ProgramsKeep, Progress, StageList
  PROVE  ProgramsKeep' /\ Progress'
<1>1. /\ pc = "stageList" /\ pc' = "proc" /\ dir' = dir /\ entries' = entries /\ plan' = plan
      /\ staged' = [staged EXCEPT ![dir]["LIST"] = pin["LIST"]]
      /\ pin' = [pin EXCEPT !["LIST"] = NoMap]
      /\ UNCHANGED <<lists, counts, link, linkTmp, fdLink, promised, dirs>>
  BY DEF StageList, Rename, Goto, links, locals, history
<1>2. LegacyLink /\ HalfStaged(dir) /\ Carried /\ dir \in Dirs /\ plan = "migrated"
  BY <1>1 DEF Progress, Inv, Migrating, EntriesReady
<1>3. LegacyLink' /\ FullyStaged(dir)'
  BY <1>1, <1>2, ListStaged
<1>4. ~Canon
  BY <1>2 DEF Canon, HalfStaged, MapsOk, Pinned
<1>5. ProgramsKeep'
  BY <1>1, <1>3, <1>4, NoPrograms DEF links
<1>6. Carried' /\ \E d \in Dirs : FullyStaged(d)'
  BY <1>1, <1>2, <1>3 DEF Carried, FullyStaged, OnlyIn, Pinned
<1>7. Progress'
  BY <1>1, <1>2, <1>3, <1>6 DEF Progress
<1>. QED  BY <1>5, <1>7

-----------------------------------------------------------------------------
(***************************************************************************)
(* Resuming an interrupted migration.                                      *)
(***************************************************************************)
\* The resumption finds the directory that holds the legacy maps.
LEMMA AssessResumeSurvives ==
  ASSUME Inv, ProgramsKeep, Progress, AssessResume
  PROVE  ProgramsKeep' /\ Progress'
<1>1. Static /\ linkTmp' = linkTmp /\ fdLink' = fdLink /\ pc = "assess" /\ pc' = "completeList"
  BY DEF AssessResume, Static, bpffs, links, history
<1>2. ProgramsKeep'
  BY <1>1, StaticPrograms
<1>3. DenyDirs # {} /\ ~Canon
  BY DEF AssessResume, MigrationInProgress, Canon
<1>4. LegacyLink /\ (Unstaged \/ \E d \in Dirs : HalfStaged(d) \/ FullyStaged(d))
  BY <1>1, <1>3 DEF Progress, Migratable
<1>5. ~Unstaged
  <2>1. ASSUME Unstaged PROVE DenyDirs = {}
    BY <2>1 DEF Unstaged, DenyDirs, Staged, NoPins, MapNames, Inv, TypeOK
  <2>. QED  BY <1>3, <2>1
<1>6. PICK d \in Dirs : HalfStaged(d) \/ FullyStaged(d)
  BY <1>4, <1>5
<1>7. DenyDirs = {d}
  BY <1>4, <1>6, OneDir
<1>8. dir' = d
  BY <1>7 DEF AssessResume, Selected
<1>9. LegacyLink' /\ (HalfStaged(d)' \/ FullyStaged(d)')
  BY <1>1, <1>4, <1>6, StaticKeeps
<1>10. HalfStaged(dir)' \/ FullyStaged(dir)'
  BY <1>8, <1>9 DEF HalfStaged, FullyStaged, OnlyIn, Pinned
<1>11. Progress'
  BY <1>1, <1>9, <1>10 DEF Progress
<1>. QED  BY <1>2, <1>11

\* What a step of the resumption that changes nothing keeps.
LEMMA StaticStaged ==
  ASSUME Static, dir \in Dirs, dir' = dir, LegacyLink, FullyStaged(dir)
  PROVE  LegacyLink' /\ FullyStaged(dir)'
<1>1. LegacyLink'
  BY StaticKeeps
<1>2. FullyStaged(dir)'
  BY DEF Static, FullyStaged, OnlyIn, Pinned
<1>. QED  BY <1>1, <1>2

\* The LIST that a kill left canonical joins its COUNT.
LEMMA CompleteListSurvives ==
  ASSUME Inv, ProgramsKeep, Progress, CompleteList
  PROVE  ProgramsKeep' /\ Progress'
<1>1. /\ pc = "completeList" /\ pc' = "completeCount" /\ dir' = dir
      /\ UNCHANGED <<lists, counts, link, linkTmp, fdLink, promised, dirs>>
  BY DEF CompleteList, CompleteStage, Goto, links, locals, history
<1>2. LegacyLink /\ (HalfStaged(dir) \/ FullyStaged(dir)) /\ dir \in Dirs /\ link.list \in MapId
  BY <1>1 DEF Progress, Inv, Migrating, Resuming, LegacyLink, TypeOK, Programs
<1>3. LegacyLink' /\ FullyStaged(dir)'
  <2>1. CASE HalfStaged(dir)
    <3>1. Pinned("LIST") /\ ~Staged(dir, "LIST")
      BY <1>2, <2>1, PinAssumption DEF HalfStaged, Pinned, Staged
    <3>2. Rename("LIST")
      BY <3>1 DEF CompleteList, CompleteStage
    <3>. QED  BY <1>1, <1>2, <2>1, <3>2, ListStaged DEF Rename
  <2>2. CASE FullyStaged(dir)
    <3>1. Staged(dir, "LIST")
      BY <1>2, <2>2, PinAssumption DEF FullyStaged, Staged
    <3>2. UNCHANGED <<pin, staged>>
      BY <3>1 DEF CompleteList, CompleteStage
    <3>. QED  BY <1>1, <1>2, <2>2, <3>2, StaticStaged DEF Static
  <2>. QED  BY <1>2, <2>1, <2>2
<1>4. ~Canon
  BY <1>2 DEF Canon, HalfStaged, FullyStaged, MapsOk, Pinned
<1>5. ProgramsKeep'
  BY <1>1, <1>3, <1>4, NoPrograms DEF links
<1>6. Progress'
  BY <1>1, <1>3 DEF Progress
<1>. QED  BY <1>5, <1>6

\* COUNT is staged already.
LEMMA CompleteCountSurvives ==
  ASSUME Inv, ProgramsKeep, Progress, CompleteCount
  PROVE  ProgramsKeep' /\ Progress'
<1>1. /\ pc = "completeCount" /\ pc' = "readStaged" /\ dir' = dir
      /\ UNCHANGED <<lists, counts, link, linkTmp, fdLink, promised, dirs>>
  BY DEF CompleteCount, CompleteStage, Goto, links, locals, history
<1>2. LegacyLink /\ FullyStaged(dir) /\ dir \in Dirs /\ link.list \in MapId
  BY <1>1 DEF Progress, Inv, Migrating, Resuming, LegacyLink, TypeOK, Programs
<1>3. Staged(dir, "COUNT")
  BY <1>2, PinAssumption DEF FullyStaged, Staged
<1>4. Static
  BY <1>1, <1>3 DEF CompleteCount, CompleteStage, Static
<1>5. LegacyLink' /\ FullyStaged(dir)'
  BY <1>1, <1>2, <1>4, StaticStaged
<1>6. ProgramsKeep'
  BY <1>1, <1>4, StaticPrograms
<1>7. Progress'
  BY <1>1, <1>5 DEF Progress
<1>. QED  BY <1>6, <1>7

\* The staged pair is read, not what is canonical beside it.
LEMMA ReadStagedSurvives ==
  ASSUME Inv, ProgramsKeep, Progress, ReadStaged
  PROVE  ProgramsKeep' /\ Progress'
<1>1. CASE Refuse
  BY <1>1, DieSurvives DEF Refuse
<1>2. CASE ~Refuse
  <2>1. /\ pc = "readStaged" /\ dir' = dir
        /\ entries' = SeedFrom(Located("LIST"), Located("COUNT"))
        /\ pc' = IF CanonicalEmpty THEN "freeList" ELSE "proc"
        /\ Static /\ linkTmp' = linkTmp /\ fdLink' = fdLink /\ promised' = promised
    BY <1>2 DEF ReadStaged, Static, bpffs, links, history
  <2>2. LegacyLink /\ FullyStaged(dir) /\ dir \in Dirs /\ link.list \in MapId
    BY <2>1 DEF Progress, Inv, Migrating, Resuming, LegacyLink, TypeOK, Programs
  <2>3. Located("LIST") = link.list /\ Located("COUNT") = link.list
    BY <2>2, PinAssumption DEF FullyStaged, Located, Staged
  <2>4. Carried'
    BY <2>1, <2>2, <2>3, ReadIsCarried DEF Carried
  <2>5. CanonicalEmpty
    BY <2>2 DEF FullyStaged, CanonicalEmpty
  <2>6. LegacyLink' /\ FullyStaged(dir)'
    BY <2>1, <2>2, StaticStaged
  <2>7. ProgramsKeep'
    BY <2>1, StaticPrograms
  <2>8. Progress'
    BY <2>1, <2>4, <2>5, <2>6 DEF Progress
  <2>. QED  BY <2>7, <2>8
<1>. QED  BY <1>1, <1>2

\* Empty canonical maps are removed, the staged pair stays.
LEMMA FreeSurvives ==
  ASSUME Inv, ProgramsKeep, Progress, FreeList \/ FreeCount
  PROVE  ProgramsKeep' /\ Progress'
<1>1. /\ pc \in {"freeList", "freeCount"} /\ dir' = dir /\ entries' = entries /\ plan' = plan
      /\ pc = "freeList" => pc' = "freeCount"
      /\ pc = "freeCount" => pc' = "proc"
      /\ UNCHANGED <<lists, counts, link, linkTmp, fdLink, promised, dirs, staged>>
      /\ pin' \in {pin, [pin EXCEPT !["LIST"] = NoMap], [pin EXCEPT !["COUNT"] = NoMap]}
  BY DEF FreeList, FreeCount, FreeCanonical, Goto, links, locals, history
<1>2. LegacyLink /\ FullyStaged(dir) /\ dir \in Dirs /\ link.list \in MapId /\ Carried
      /\ plan = "migrated"
  BY <1>1 DEF Progress, Inv, Migrating, EntriesReady, Resuming, LegacyLink, TypeOK, Programs
<1>3. LegacyLink' /\ Carried'
  BY <1>1, <1>2, LegacyLinkStays DEF Carried
<1>4. pin \in [MapNames -> MapId \cup {NoMap}] /\ link.list # NoMap
  BY <1>2, PinAssumption DEF Inv, TypeOK
<1>5. pin'["LIST"] \in {pin["LIST"], NoMap} /\ pin'["COUNT"] \in {pin["COUNT"], NoMap}
  BY <1>1, <1>4 DEF MapNames
<1>6. FullyStaged(dir)'
  BY <1>1, <1>2, <1>4, <1>5 DEF FullyStaged, OnlyIn, Pinned
<1>7. \E d \in Dirs : FullyStaged(d)'
  BY <1>1, <1>2, <1>6 DEF FullyStaged, OnlyIn, Pinned
<1>8. ~Canon
  BY <1>2 DEF Canon, FullyStaged, MapsOk, Pinned
<1>9. ProgramsKeep'
  BY <1>1, <1>3, <1>8, NoPrograms DEF links
<1>10. Progress'
  BY <1>1, <1>2, <1>3, <1>6, <1>7 DEF Progress
<1>. QED  BY <1>9, <1>10

-----------------------------------------------------------------------------
(***************************************************************************)
(* Load and seed.                                                          *)
(***************************************************************************)
\* The plan and what it rests on, from the end of the preparation to the seed.
Planned ==
  \/ plan = "resume" /\ Canon
  \/ plan = "migrated" /\ LegacyLink /\ Carried /\ \E d \in Dirs : FullyStaged(d)

\* A step that changes none of it.
LEMMA PlanKept ==
  ASSUME Planned, Static, UNCHANGED <<plan, entries>>
  PROVE  Planned'
<1>1. Carried => Carried'
  BY DEF Carried, Static
<1>. QED  BY <1>1, StaticKeeps DEF Planned

\* The process maps and the classification touch no deny pin.
LEMMA ProcAndClassifySurvive ==
  ASSUME Inv, ProgramsKeep, Progress, RecreateProc \/ Classify
  PROVE  ProgramsKeep' /\ Progress'
<1>1. CASE Refuse
  BY <1>1, DieSurvives DEF Refuse
<1>2. CASE ~Refuse
  <2>1. /\ Static /\ linkTmp' = linkTmp /\ fdLink' = fdLink /\ plan' = plan /\ entries' = entries
        /\ pc \in {"proc", "classify"} /\ pc' \in {"classify", "load"}
    BY <1>2 DEF RecreateProc, Classify, Goto, Static, bpffs, links, locals, history
  <2>2. ProgramsKeep'
    BY <2>1, StaticPrograms
  <2>3. Planned
    BY <2>1 DEF Progress, Planned
  <2>4. Planned'
    BY <2>1, <2>3, PlanKept
  <2>5. Progress'
    BY <2>1, <2>4 DEF Progress, Planned
  <2>. QED  BY <2>2, <2>5
<1>. QED  BY <1>1, <1>2

\* Maps the loader creates are none that a program or a staging directory holds.
LEMMA LoadMapSurvives ==
  ASSUME Inv, ProgramsKeep, Progress, NEW name \in MapNames, LoadMap(name)
  PROVE  ProgramsKeep' /\ Progress'
<1>1. /\ pc = "load" /\ pc' \in {"load", "seed"}
      /\ UNCHANGED <<staged, dirs, link, linkTmp, fdLink, plan, entries, promised>>
  BY DEF LoadMap, links, history
<1>2. Planned
  BY <1>1 DEF Progress, Planned
<1>3. CASE UNCHANGED <<lists, counts, pin>>
  <2>1. Static
    BY <1>1, <1>3 DEF Static
  <2>2. ProgramsKeep'
    BY <1>1, <2>1, StaticPrograms
  <2>3. Planned'
    BY <1>1, <1>2, <2>1, PlanKept
  <2>4. Progress'
    BY <1>1, <2>3 DEF Progress, Planned
  <2>. QED  BY <2>2, <2>4
<1>4. CASE ~Pinned(name) /\ ~ UNCHANGED <<lists, counts, pin>>
  <2>1. PICK m \in MapId \ InUse(name) :
          /\ pin' = [pin EXCEPT ![name] = m]
          /\ lists' = IF name = "COUNT" THEN lists
                      ELSE [lists EXCEPT ![m] = [abi |-> "current", slots |-> BlankSlots]]
          /\ counts' = IF name = "LIST" THEN counts ELSE [counts EXCEPT ![m] = 0]
    BY <1>4 DEF LoadMap
  <2>2. ~Canon
    BY <1>4 DEF Canon, MapsOk, MapNames
  <2>3. LegacyLink /\ Carried /\ plan = "migrated"
    BY <1>2, <2>2 DEF Planned
  <2>4. PICK d \in Dirs : FullyStaged(d)
    BY <1>2, <2>2 DEF Planned
  <2>5. /\ link.list \in MapId /\ link.count = link.list /\ link \in Attached
        /\ pin \in [MapNames -> MapId \cup {NoMap}]
        /\ DOMAIN lists = MapId /\ DOMAIN counts = MapId
    BY <2>3 DEF Inv, TypeOK, LegacyLink, Programs, Attached
  <2>6. m # link.list
    BY <2>1, <2>5 DEF InUse, MapNames
  <2>7. lists'[link.list] = lists[link.list] /\ counts'[link.list] = counts[link.list]
    BY <2>1, <2>5, <2>6
  <2>8. LegacyLink'
    BY <1>1, <2>3, <2>7 DEF LegacyLink, Readable, Active
  <2>9. ProgramsKeep'
    BY <1>1, <2>2, <2>8, NoPrograms DEF links
  <2>10. pin'["LIST"] \in {pin["LIST"], m} /\ pin'["COUNT"] \in {pin["COUNT"], m}
    BY <2>1, <2>5 DEF MapNames
  <2>11. Pinned("LIST")' => lists'[pin'["LIST"]].abi = "current"
    <3>1. CASE name = "LIST"
      BY <2>1, <2>5, <3>1 DEF MapNames
    <3>2. CASE name = "COUNT"
      BY <2>1, <2>4, <2>5, <3>2 DEF FullyStaged, Pinned, MapNames
    <3>. QED  BY <3>1, <3>2 DEF MapNames
  <2>12. Pinned("COUNT")' => counts'[pin'["COUNT"]] = 0
    <3>1. CASE name = "LIST"
      BY <2>1, <2>4, <2>5, <3>1 DEF FullyStaged, Pinned, MapNames
    <3>2. CASE name = "COUNT"
      BY <2>1, <2>5, <3>2 DEF MapNames
    <3>. QED  BY <3>1, <3>2 DEF MapNames
  <2>13. FullyStaged(d)'
    BY <1>1, <2>4, <2>6, <2>10, <2>11, <2>12 DEF FullyStaged, OnlyIn
  <2>14. Carried'
    BY <1>1, <2>3 DEF Carried
  <2>15. Planned'
    BY <1>1, <2>3, <2>8, <2>13, <2>14 DEF Planned
  <2>16. Progress'
    BY <1>1, <2>15 DEF Progress, Planned
  <2>. QED  BY <2>9, <2>16
<1>. QED  BY <1>3, <1>4 DEF LoadMap

\* Canonical maps are resumed, or the entries carried over are written.
LEMMA SeedSurvives ==
  ASSUME Inv, ProgramsKeep, Progress, Seed
  PROVE  ProgramsKeep' /\ Progress'
<1>1. CASE Refuse
  BY <1>1, DieSurvives DEF Refuse
<1>2. CASE ~Refuse
  <2>1. Static /\ linkTmp' = linkTmp /\ fdLink' = fdLink /\ pc = "seed" /\ plan' = plan
    BY <1>2 DEF Seed, Static, bpffs, links, history
  <2>2. ProgramsKeep'
    BY <2>1, StaticPrograms
  <2>3. Planned
    BY <2>1 DEF Progress, Planned
  <2>4. CASE plan = "resume"
    <3>1. Canon' /\ pc' = "lsm"
      BY <1>2, <2>1, <2>3, <2>4, StaticKeeps DEF Planned, Seed
    <3>. QED  BY <2>2, <3>1 DEF Progress
  <2>5. CASE plan = "migrated"
    <3>1. pc' = "write" /\ entries' = entries /\ idx' = 1
      BY <1>2, <2>5 DEF Seed
    <3>2. Planned'
      BY <2>1, <2>3, <3>1, PlanKept
    <3>3. LegacyLink' /\ Carried' /\ \E d \in Dirs : FullyStaged(d)'
      BY <2>1, <2>5, <3>2 DEF Planned
    <3>. QED  BY <2>2, <3>1, <3>3 DEF Progress
  <2>. QED  BY <2>3, <2>4, <2>5 DEF Planned
<1>. QED  BY <1>1, <1>2

\* What the writer has at hand.
LEMMA WriterFacts ==
  ASSUME Inv, pc \in {"write", "clear"}
  PROVE  /\ fd["LIST"] = pin["LIST"] /\ fd["COUNT"] = pin["COUNT"]
         /\ fd["LIST"] \in MapId /\ fd["COUNT"] \in MapId /\ MapsOk
         /\ Len(entries) \in 1..MaxEntries /\ Len(entries) \in Nat
         /\ \A i \in 1..Len(entries) : i \in Slots /\ entries[i] \in Prefix
<1>1. /\ fd["LIST"] # NoMap /\ fd["COUNT"] # NoMap
      /\ fd["LIST"] = pin["LIST"] /\ fd["COUNT"] = pin["COUNT"]
  BY DEF Inv, OpenMaps, PreLoad, MapNames
<1>2. fd["LIST"] \in MapId /\ fd["COUNT"] \in MapId
  BY <1>1 DEF Inv, TypeOK, MapNames
<1>3. Len(entries) \in 1..MaxEntries /\ entries \in Seq(Prefix)
  BY PinAssumption DEF Inv, TypeOK, EntriesReady
<1>4. MapsOk
  BY <1>1 DEF MapsOk, Pinned
<1>. QED  BY <1>1, <1>2, <1>3, <1>4, PinAssumption DEF Slots

\* A slot is written below a count of zero, in a map no program uses.
LEMMA WriteSlotSurvives ==
  ASSUME Inv, ProgramsKeep, Progress, WriteSlot
  PROVE  ProgramsKeep' /\ Progress'
<1>1. /\ pc = "write" /\ pc' = "write" /\ idx <= Len(entries) /\ idx' = idx + 1
      /\ lists' = [lists EXCEPT ![fd["LIST"]].slots[idx] = entries[idx]]
      /\ UNCHANGED <<counts, pin, staged, dirs, link, linkTmp, fdLink, promised, entries, fd>>
  BY DEF WriteSlot, bpffs, links, history
<1>2. /\ LegacyLink /\ Carried
      /\ \A i \in 1..idx - 1 : lists[fd["LIST"]].slots[i] = entries[i]
  BY <1>1 DEF Progress
<1>3. PICK d \in Dirs : FullyStaged(d)
  BY <1>1 DEF Progress
<1>4. /\ fd["LIST"] = pin["LIST"] /\ fd["COUNT"] = pin["COUNT"]
      /\ fd["LIST"] \in MapId /\ fd["COUNT"] \in MapId /\ MapsOk
      /\ \A i \in 1..Len(entries) : i \in Slots
  BY <1>1, WriterFacts
<1>5. link.list \in MapId /\ fd["LIST"] # link.list
  BY <1>2, <1>3, <1>4 DEF Inv, TypeOK, LegacyLink, Programs, FullyStaged
<1>6. /\ lists \in [MapId -> [abi : {"legacy", "current", "unknown"},
                             slots : [Slots -> Prefix \cup {Empty}]]]
      /\ idx \in Nat /\ idx >= 1 /\ Len(entries) \in Nat
  BY <1>1 DEF Inv, TypeOK, WriterProgress
<1>7. /\ lists'[link.list] = lists[link.list]
      /\ lists'[fd["LIST"]].abi = lists[fd["LIST"]].abi
      /\ lists'[fd["LIST"]].slots = [lists[fd["LIST"]].slots EXCEPT ![idx] = entries[idx]]
  BY <1>1, <1>4, <1>5, <1>6
<1>8. LegacyLink'
  BY <1>1, <1>2, <1>7, LegacyMapsKept
<1>9. counts[pin["COUNT"]] = 0
  BY <1>3, <1>4 DEF FullyStaged, MapsOk
<1>10. ~Canon
  BY <1>9 DEF Canon
<1>11. ProgramsKeep'
  BY <1>1, <1>8, <1>10, NoPrograms DEF links
<1>12. FullyStaged(d)'
  BY <1>1, <1>3, <1>4, <1>7 DEF FullyStaged, OnlyIn, Pinned
<1>13. Carried'
  BY <1>1, <1>2 DEF Carried
<1>14. idx \in Slots /\ lists[fd["LIST"]].slots \in [Slots -> Prefix \cup {Empty}]
  BY <1>1, <1>4, <1>6
<1>15. \A i \in 1..idx' - 1 : lists'[fd'["LIST"]].slots[i] = entries'[i]
  <2>1. ASSUME NEW i \in 1..idx' - 1 PROVE lists'[fd["LIST"]].slots[i] = entries[i]
    <3>1. i \in 1..idx - 1 \/ i = idx
      BY <1>1, <1>6
    <3>2. i \in Slots
      BY <1>1, <1>4, <1>6
    <3>. QED  BY <1>2, <1>7, <1>14, <3>1, <3>2
  <2>. QED  BY <1>1, <2>1
<1>16. Progress'
  BY <1>1, <1>8, <1>12, <1>13, <1>15 DEF Progress
<1>. QED  BY <1>11, <1>16

\* The count makes the new list count, all of it at once.
LEMMA WriteCountSurvives ==
  ASSUME Inv, ProgramsKeep, Progress, WriteCount
  PROVE  ProgramsKeep' /\ Progress'
<1>1. /\ pc = "write" /\ pc' = "clear" /\ idx > Len(entries)
      /\ counts' = [counts EXCEPT ![fd["COUNT"]] = Len(entries)]
      /\ UNCHANGED <<lists, pin, staged, dirs, link, linkTmp, fdLink, promised, entries, fd>>
  BY DEF WriteCount, bpffs, links, locals, history
<1>2. /\ LegacyLink /\ Carried
      /\ \A i \in 1..idx - 1 : lists[fd["LIST"]].slots[i] = entries[i]
  BY <1>1 DEF Progress
<1>3. PICK d \in Dirs : FullyStaged(d)
  BY <1>1 DEF Progress
<1>4. /\ fd["LIST"] = pin["LIST"] /\ fd["COUNT"] = pin["COUNT"]
      /\ fd["LIST"] \in MapId /\ fd["COUNT"] \in MapId /\ MapsOk
      /\ Len(entries) \in 1..MaxEntries /\ Len(entries) \in Nat
  BY <1>1, WriterFacts
<1>5. link.list \in MapId /\ fd["COUNT"] # link.list /\ DOMAIN counts = MapId
  BY <1>2, <1>3, <1>4 DEF Inv, TypeOK, LegacyLink, Programs, FullyStaged
<1>6. counts'[link.list] = counts[link.list] /\ counts'[fd["COUNT"]] = Len(entries)
  BY <1>1, <1>4, <1>5
<1>7. LegacyLink'
  BY <1>1, <1>2, <1>6 DEF LegacyLink, Readable, Active
<1>8. \A i \in 1..Len(entries) : lists[fd["LIST"]].slots[i] = entries[i]
  <2>1. idx \in Nat
    BY PinAssumption DEF Inv, TypeOK
  <2>2. \A i \in 1..Len(entries) : i \in 1..idx - 1
    BY <1>1, <1>4, <2>1
  <2>. QED  BY <1>2, <2>2
<1>9. Canon'
  <2>1. lists[pin["LIST"]].abi = "current"
    BY <1>3, <1>4 DEF FullyStaged, MapsOk
  <2>2. promised \subseteq {lists[pin["LIST"]].slots[i] : i \in 1..Len(entries)}
    BY <1>2, <1>4, <1>8 DEF Carried
  <2>3. Active(pin["LIST"], pin["COUNT"])'
          = {lists[pin["LIST"]].slots[i] : i \in 1..Len(entries)}
    BY <1>1, <1>4, <1>6 DEF Active
  <2>. QED  BY <1>1, <1>4, <1>6, <2>1, <2>2, <2>3 DEF Canon, MapsOk, Pinned
<1>10. ~Canon
  BY <1>3, <1>4 DEF Canon, FullyStaged, MapsOk
<1>11. ProgramsKeep'
  BY <1>1, <1>7, <1>10, NoPrograms DEF links
<1>12. Carried'
  BY <1>1, <1>2 DEF Carried
<1>13. Progress'
  BY <1>1, <1>8, <1>9, <1>12 DEF Progress
<1>. QED  BY <1>11, <1>13

\* What is cleared lies behind the count.
LEMMA ClearRestSurvives ==
  ASSUME Inv, ProgramsKeep, Progress, ClearRest
  PROVE  ProgramsKeep' /\ Progress'
<1>1. /\ pc = "clear" /\ pc' \in {"lsm", "running"}
      /\ lists' = [lists EXCEPT ![fd["LIST"]].slots =
                     [i \in Slots |-> IF i > Len(entries) THEN Empty ELSE @[i]]]
      /\ UNCHANGED <<counts, pin, staged, dirs, link, linkTmp, fdLink, promised, entries, fd>>
  BY DEF ClearRest, bpffs, links, locals, history
<1>2. Canon
  BY <1>1 DEF Progress
<1>3. /\ fd["LIST"] = pin["LIST"] /\ fd["COUNT"] = pin["COUNT"]
      /\ fd["LIST"] \in MapId /\ fd["COUNT"] \in MapId /\ MapsOk
      /\ Len(entries) \in Nat
      /\ \A i \in 1..Len(entries) : i \in Slots
  BY <1>1, WriterFacts
<1>4. counts[fd["COUNT"]] = Len(entries)
  BY <1>1 DEF Inv, WriterProgress
<1>5. lists \in [MapId -> [abi : {"legacy", "current", "unknown"},
                          slots : [Slots -> Prefix \cup {Empty}]]]
  BY DEF Inv, TypeOK
<1>6. /\ lists'[fd["LIST"]].abi = lists[fd["LIST"]].abi
      /\ \A i \in 1..Len(entries) : lists'[fd["LIST"]].slots[i] = lists[fd["LIST"]].slots[i]
      /\ \A m \in MapId : m # fd["LIST"] => lists'[m] = lists[m]
  BY <1>1, <1>3, <1>5
<1>7. Canon'
  <2>1. {lists'[pin["LIST"]].slots[i] : i \in 1..Len(entries)}
          = {lists[pin["LIST"]].slots[i] : i \in 1..Len(entries)}
    BY <1>3, <1>6
  <2>2. Active(pin["LIST"], pin["COUNT"])' = Active(pin["LIST"], pin["COUNT"])
    <3>1. counts[pin["COUNT"]] = Len(entries) /\ counts' = counts /\ pin' = pin
      BY <1>1, <1>3, <1>4
    <3>2. Active(pin["LIST"], pin["COUNT"]) = {lists[pin["LIST"]].slots[i] : i \in 1..Len(entries)}
      BY <3>1 DEF Active
    <3>3. Active(pin["LIST"], pin["COUNT"])'
            = {lists'[pin["LIST"]].slots[i] : i \in 1..Len(entries)}
      BY <3>1 DEF Active
    <3>. QED  BY <2>1, <3>2, <3>3
  <2>. QED  BY <1>1, <1>2, <1>3, <1>6, <2>2 DEF Canon, MapsOk, Pinned
<1>8. LegacyLink => LegacyLink'
  <2>. SUFFICES ASSUME LegacyLink PROVE LegacyLink'
    OBVIOUS
  <2>1. link.list \in MapId /\ lists[link.list].abi = "legacy"
    BY DEF LegacyLink, Readable, Inv, TypeOK, Programs
  <2>2. link.list # fd["LIST"]
    BY <1>2, <1>3, <2>1 DEF Canon
  <2>. QED  BY <1>1, <1>6, <2>1, <2>2, LegacyMapsKept
<1>9. ProgramsKeep'
  BY <1>1, <1>7, <1>8 DEF ProgramsKeep, CurrentPrograms, Attached
<1>10. Progress'
  BY <1>1, <1>7 DEF Progress
<1>. QED  BY <1>9, <1>10

-----------------------------------------------------------------------------
(***************************************************************************)
(* The hand-off and the clean-up: the canonical maps stay what they are.   *)
(***************************************************************************)
\* The canonical maps without the link.
LEMMA CanonKept ==
  ASSUME Canon, UNCHANGED <<lists, counts, pin, promised>>
  PROVE  Canon'
BY DEF Canon, MapsOk, Pinned, Active

\* The labels from the load of the program on.
Late == {"lsm", "rmTmp", "attach", "pinTmp", "rmOld", "rename", "reopen",
         "cleanup", "running"}

\* The hand-off replaces the link by a program over the canonical maps.
LEMMA HandOffSurvives ==
  ASSUME Inv, ProgramsKeep, Progress, ArmLsm
  PROVE  ProgramsKeep' /\ Progress'
<1>1. CASE Refuse
  BY <1>1, DieSurvives DEF Refuse
<1>2. CASE ~Refuse
  <2>1. /\ pc \in Late /\ pc' \in Late
        /\ UNCHANGED <<lists, counts, pin, promised, fd>>
    BY <1>2 DEF ArmLsm, LsmLoad, RemoveStaleTmp, Attach, PinTmp, RemoveOldLink, RenameLink,
       Reopen, CleanupDir, FinishStart, Goto, HandOff, Late, bpffs, locals, history
  <2>2. /\ linkTmp # NoProg => linkTmp.abi = "current"
        /\ fdLink # NoProg => fdLink.abi = "current"
        /\ link # NoProg /\ link.abi = "legacy" => LegacyLink
        /\ pc = "reopen" /\ link # NoProg => link.abi = "current"
    BY DEF ProgramsKeep, Progress
  <2>3. Canon'
    BY <2>1, CanonKept DEF Progress, Late
  <2>4. fd["LIST"] = pin["LIST"] /\ fd["COUNT"] = pin["COUNT"]
    BY <2>1 DEF Inv, OpenMaps, PreLoad, MapNames, Late
  <2>5. link' = link /\ LegacyLink => LegacyLink'
    BY <2>1, LegacyLinkStays
  <2>6. /\ link' \in {link, linkTmp, NoProg}
        /\ link' = link \/ link' = NoProg \/ (link' = linkTmp /\ pc' = "reopen")
        /\ pc' = "reopen" => link' = linkTmp
        /\ linkTmp' \in {linkTmp, fdLink, NoProg}
        /\ \/ fdLink' \in {fdLink, NoProg}
           \/ fdLink' = link /\ pc = "reopen"
           \/ fdLink' = [abi |-> "current", list |-> pin["LIST"], count |-> pin["COUNT"]]
    BY <1>2, <2>4 DEF ArmLsm, LsmLoad, RemoveStaleTmp, Attach, PinTmp, RemoveOldLink,
       RenameLink, Reopen, CleanupDir, FinishStart, Goto, HandOff, links, locals
  <2>7. \A p \in CurrentPrograms' :
          \/ p \in CurrentPrograms
          \/ p.list = pin["LIST"] /\ p.count = pin["COUNT"]
    BY <2>6 DEF CurrentPrograms, Attached
  <2>8. \A p \in CurrentPrograms' : Canon' /\ p.list = pin'["LIST"] /\ p.count = pin'["COUNT"]
    BY <2>1, <2>3, <2>7 DEF ProgramsKeep
  <2>9. /\ linkTmp' # NoProg => linkTmp'.abi = "current"
        /\ fdLink' # NoProg => fdLink'.abi = "current"
        /\ pc' = "reopen" /\ link' # NoProg => link'.abi = "current"
    BY <2>2, <2>6
  <2>10. link' # NoProg /\ link'.abi = "legacy" => LegacyLink'
    BY <2>2, <2>5, <2>6
  <2>11. ProgramsKeep'
    BY <2>8, <2>9, <2>10 DEF ProgramsKeep
  <2>12. Progress'
    BY <2>1, <2>3, <2>9 DEF Progress, Late
  <2>. QED  BY <2>11, <2>12
<1>. QED  BY <1>1, <1>2

-----------------------------------------------------------------------------
(***************************************************************************)
(* Every step, and the first state.                                        *)
(***************************************************************************)
\* Where a run started never changes, and only a served list changes the rest.
LEMMA HistoryStays ==
  ASSUME [Next]_vars PROVE origin' = origin /\ (SyncPolicy \/ UNCHANGED history)
<1>1. CASE SyncPolicy
  BY <1>1 DEF SyncPolicy
<1>2. ~SyncPolicy => UNCHANGED history
  BY DEF Next, Start, Prepare, AssessIncompatible, AssessKeep, AssessLegacy,
     AssessResume, StageCount, StageList, CompleteList, CompleteCount, ReadStaged,
     FreeList, FreeCount, RecreateProc, LoadAndSeed, Classify, LoadMap, Seed,
     WriteSlot, WriteCount, ClearRest, ArmLsm, LsmLoad, RemoveStaleTmp, Attach,
     PinTmp, RemoveOldLink, RenameLink, Reopen, CleanupDir, FinishStart, Crash,
     Refuse, Die, Goto, HandOff, vars
<1>. QED  BY <1>1, <1>2 DEF history

\* What is still kept was kept before.
LEMMA KeptBefore ==
  ASSUME [Next]_vars, Kept' PROVE Kept /\ ~SyncPolicy
<1>1. ~SyncPolicy
  BY DEF Kept, SyncPolicy
<1>. QED  BY <1>1, HistoryStays DEF Kept, history

\* Every action keeps the invariant of the migration.
LEMMA NextSurvival == Inv /\ Survival /\ [Next]_vars => Survival'
<1>. SUFFICES ASSUME Inv, Survival, [Next]_vars, Kept' PROVE ProgramsKeep' /\ Progress'
  BY DEF Survival
<1>1. Kept /\ ~SyncPolicy
  BY KeptBefore
<1>2. ProgramsKeep /\ Progress
  BY <1>1 DEF Survival
<1>3. CASE Start
  BY <1>2, <1>3, StartSurvives
<1>4. CASE Prepare
  <2>1. CASE AssessIncompatible
    BY <1>2, <2>1, DieSurvives DEF AssessIncompatible, Refuse
  <2>2. CASE AssessKeep
    BY <1>2, <2>2, AssessKeepSurvives
  <2>3. CASE AssessLegacy
    BY <1>2, <2>3, AssessLegacySurvives
  <2>4. CASE AssessResume
    BY <1>2, <2>4, AssessResumeSurvives
  <2>5. CASE StageCount
    BY <1>2, <2>5, StageCountSurvives
  <2>6. CASE StageList
    BY <1>2, <2>6, StageListSurvives
  <2>7. CASE CompleteList
    BY <1>2, <2>7, CompleteListSurvives
  <2>8. CASE CompleteCount
    BY <1>2, <2>8, CompleteCountSurvives
  <2>9. CASE ReadStaged
    BY <1>2, <2>9, ReadStagedSurvives
  <2>10. CASE FreeList \/ FreeCount
    BY <1>2, <2>10, FreeSurvives
  <2>11. CASE RecreateProc
    BY <1>2, <2>11, ProcAndClassifySurvive
  <2>. QED  BY <1>4, <2>1, <2>2, <2>3, <2>4, <2>5, <2>6, <2>7, <2>8, <2>9, <2>10, <2>11
            DEF Prepare
<1>5. CASE LoadAndSeed
  <2>1. CASE Classify
    BY <1>2, <2>1, ProcAndClassifySurvive
  <2>2. CASE \E name \in MapNames : LoadMap(name)
    BY <1>2, <2>2, LoadMapSurvives
  <2>3. CASE Seed
    BY <1>2, <2>3, SeedSurvives
  <2>4. CASE WriteSlot
    BY <1>2, <2>4, WriteSlotSurvives
  <2>5. CASE WriteCount
    BY <1>2, <2>5, WriteCountSurvives
  <2>6. CASE ClearRest
    BY <1>2, <2>6, ClearRestSurvives
  <2>. QED  BY <1>5, <2>1, <2>2, <2>3, <2>4, <2>5, <2>6 DEF LoadAndSeed
<1>6. CASE ArmLsm
  BY <1>2, <1>6, HandOffSurvives
<1>7. CASE Crash
  BY <1>2, <1>7, DieSurvives DEF Crash
<1>8. CASE UNCHANGED vars
  <2>1. /\ Static /\ linkTmp' = linkTmp /\ fdLink' = fdLink
        /\ UNCHANGED <<pc, plan, entries, dir, fd, idx>>
    BY <1>8 DEF vars, bpffs, links, locals, history, Static
  <2>2. ProgramsKeep'
    BY <1>2, <2>1, StaticPrograms
  <2>3. Progress'
    BY <1>2, <2>1 DEF Progress, Canon, MapsOk, Pinned, Active, LegacyLink, Readable,
       Unstaged, HalfStaged, FullyStaged, OnlyIn, Migratable, Carried, Static
  <2>. QED  BY <2>2, <2>3
<1>. QED  BY <1>1, <1>3, <1>4, <1>5, <1>6, <1>7, <1>8 DEF Next

\* A run starts with its list in force: in the canonical maps of this version, or
\* in legacy ones.
LEMMA InitSurvival == Init => Survival
<1>. SUFFICES ASSUME Init, Kept PROVE ProgramsKeep /\ Progress
  BY DEF Survival
<1>1. PICK shape \in Shapes, g \in MapId, n \in 0..MaxEntries,
           s \in [Slots -> Prefix \cup {Empty}] : InitFrom(shape, g, n, s)
  BY DEF Init
<1>2. /\ pc = "down" /\ linkTmp = NoProg /\ fdLink = NoProg
      /\ staged = [d \in Dirs |-> NoPins]
  BY <1>1 DEF InitFrom
<1>3. /\ shape = "compatible" \/ (shape = "legacy" /\ Readable(g, g))
      /\ promised = Active(g, g)
  BY <1>1 DEF InitFrom, Kept
<1>4. /\ pin = [name \in MapNames |-> g]
      /\ link = [abi |-> AbiOf(shape), list |-> g, count |-> g]
      /\ lists[g].abi = AbiOf(shape) /\ counts[g] = n /\ Populated(shape, s, n)
  BY <1>1, <1>3 DEF InitFrom
<1>5. pin["LIST"] = g /\ pin["COUNT"] = g /\ g # NoMap /\ link.list = g /\ link.count = g
      /\ link.abi = AbiOf(shape)
  BY <1>4, PinAssumption DEF MapNames
<1>6. link # NoProg
  <2>1. AbiOf(shape) \in {"legacy", "current"}
    BY <1>3 DEF AbiOf
  <2>. QED  BY <1>4, <2>1, PinAssumption
<1>7. CASE shape = "compatible"
  <2>1. lists[g].abi = "current" /\ link.abi = "current" /\ counts[g] > 0
    BY <1>4, <1>5, <1>7 DEF AbiOf, Populated
  <2>2. Canon
    BY <1>3, <1>5, <2>1 DEF Canon, MapsOk, Pinned
  <2>3. ProgramsKeep
    BY <1>2, <1>5, <2>1, <2>2 DEF ProgramsKeep, CurrentPrograms, Attached
  <2>. QED  BY <1>2, <2>2, <2>3 DEF Progress
<1>8. CASE shape = "legacy" /\ Readable(g, g)
  <2>1. link.abi = "legacy"
    BY <1>5, <1>8 DEF AbiOf
  <2>2. LegacyLink
    BY <1>3, <1>5, <1>6, <1>8, <2>1 DEF LegacyLink
  <2>3. Unstaged
    BY <1>2, <1>5 DEF Unstaged
  <2>4. ProgramsKeep
    BY <1>2, <2>1, <2>2 DEF ProgramsKeep, CurrentPrograms, Attached
  <2>. QED  BY <1>2, <2>2, <2>3, <2>4 DEF Progress, Migratable
<1>. QED  BY <1>3, <1>7, <1>8

\* F3 (pin_abi.rs, prepare_pin_root_for_load to cleanup_legacy_abi_dirs): whatever
\* the crash points, a program that enforces denies all that the pins denied when
\* the agent was upgraded or restarted, until a policy-engine list replaces it.
THEOREM PolicySurvives == Spec => []PolicySurvivesRestart
<1>1. Inv /\ Survival => PolicySurvivesRestart
  <2>. SUFFICES ASSUME Inv, Survival, ~synced, NEW p \in Attached
                PROVE  promised \subseteq Active(p.list, p.count)
    BY DEF PolicySurvivesRestart
  <2>1. CASE promised = {}
    BY <2>1
  <2>2. CASE promised # {}
    <3>1. ProgramsKeep
      BY <2>2 DEF Survival, Kept
    <3>2. p.abi \in {"legacy", "current"}
      BY DEF Attached, Inv, TypeOK, Programs
    <3>3. CASE p.abi = "current"
      BY <3>1, <3>3 DEF ProgramsKeep, CurrentPrograms, Canon
    <3>4. CASE p.abi = "legacy"
      <4>1. p = link /\ link # NoProg
        BY <3>1, <3>4 DEF ProgramsKeep, Attached
      <4>2. LegacyLink
        BY <3>1, <3>4, <4>1 DEF ProgramsKeep
      <4>. QED  BY <4>1, <4>2 DEF LegacyLink
    <3>. QED  BY <3>2, <3>3, <3>4
  <2>. QED  BY <2>1, <2>2
<1>2. Spec => []Survival
  BY InitSurvival, NextSurvival, Invariance, PTL DEF Spec
<1>. QED  BY <1>1, <1>2, Invariance, PTL

-----------------------------------------------------------------------------
\* A directory of unknown layout never gets past its assessment.
UnknownInv ==
  origin = "unknown" =>
    /\ pc \in {"down", "refused", "assess"} /\ dirs = {}
    /\ MapsOk /\ lists[pin["LIST"]].abi = "unknown"

\* Only a start, a refusal or a kill is possible over it.
LEMMA UnknownSteps ==
  ASSUME UnknownInv, [Next]_vars, origin = "unknown"
  PROVE  UNCHANGED <<lists, counts, pin, staged, dirs, links, origin>>
         /\ pc' \in {"down", "refused", "assess"}
<1>1. /\ pc \in {"down", "refused", "assess"} /\ dirs = {} /\ MapsOk
      /\ lists[pin["LIST"]].abi = "unknown"
  BY DEF UnknownInv
<1>2. DenyDirs = {}
  BY <1>1 DEF DenyDirs
<1>3. ~Cold /\ ~Compatible /\ ~LegacyMigratable /\ ~MigrationInProgress
  BY <1>1, <1>2 DEF Cold, Compatible, LegacyMigratable, MigrationInProgress, MapsOk
<1>4. CASE Start
  BY <1>4 DEF Start, bpffs, history
<1>5. CASE Crash
  BY <1>5 DEF Crash, Die, bpffs, history
<1>6. CASE Prepare
  <2>1. AssessIncompatible
    BY <1>1, <1>3, <1>6 DEF Prepare, AssessKeep, AssessLegacy, AssessResume, StageCount,
       StageList, CompleteList, CompleteCount, ReadStaged, FreeList, FreeCount, RecreateProc
  <2>. QED  BY <2>1 DEF AssessIncompatible, Refuse, Die, bpffs, history
<1>7. CASE LoadAndSeed \/ SyncPolicy
  BY <1>1, <1>7 DEF LoadAndSeed, SyncPolicy, Classify, LoadMap, Seed, WriteSlot,
     WriteCount, ClearRest
<1>8. CASE ArmLsm
  BY <1>1, <1>8 DEF ArmLsm, LsmLoad, RemoveStaleTmp, Attach, PinTmp, RemoveOldLink,
     RenameLink, Reopen, CleanupDir, FinishStart
<1>9. CASE UNCHANGED vars
  BY <1>1, <1>9 DEF vars, bpffs, history
<1>. QED  BY <1>4, <1>5, <1>6, <1>7, <1>8, <1>9 DEF Next

\* F4 (pin_abi.rs, assess_pin_dir_state and the refusal of prepare_pin_root_for_load):
\* no start and no kill changes a pin, a map or a link of an unknown layout.
THEOREM UnknownUntouched == Spec => UnknownLayoutUntouched
<1>1. Init => UnknownInv
  <2>. SUFFICES ASSUME Init, origin = "unknown"
                PROVE  /\ pc \in {"down", "refused", "assess"} /\ dirs = {}
                       /\ MapsOk /\ lists[pin["LIST"]].abi = "unknown"
    BY DEF UnknownInv
  <2>1. PICK shape \in Shapes, g \in MapId, n \in 0..MaxEntries,
             s \in [Slots -> Prefix \cup {Empty}] : InitFrom(shape, g, n, s)
    BY DEF Init
  <2>2. shape = "unknown" /\ pc = "down" /\ dirs = {}
    BY <2>1 DEF InitFrom
  <2>3. pin = [name \in MapNames |-> g] /\ lists[g].abi = "unknown"
    BY <2>1, <2>2 DEF InitFrom, AbiOf
  <2>4. pin["LIST"] = g /\ pin["COUNT"] = g /\ g # NoMap
    BY <2>3, PinAssumption DEF MapNames
  <2>. QED  BY <2>2, <2>3, <2>4 DEF MapsOk, Pinned
<1>2. UnknownInv /\ [Next]_vars => UnknownInv'
  <2>. SUFFICES ASSUME UnknownInv, [Next]_vars, origin' = "unknown"
                PROVE  UnknownInv'
    BY DEF UnknownInv
  <2>1. origin = "unknown"
    BY HistoryStays
  <2>. QED  BY <2>1, UnknownSteps DEF UnknownInv, MapsOk, Pinned
<1>3. UnknownInv /\ [Next]_vars =>
        [origin = "unknown" => UNCHANGED <<pin, staged, dirs, lists, counts, links>>]_vars
  BY UnknownSteps
<1>. QED  BY <1>1, <1>2, <1>3, PTL DEF Spec, UnknownLayoutUntouched

-----------------------------------------------------------------------------
(***************************************************************************)
(* A node that enforces is never refused.  Its canonical maps can be       *)
(* resumed as they are, or the legacy program still enforces and its two   *)
(* maps, readable or not, are on their way into one staging directory.     *)
(***************************************************************************)
\* next_legacy_dir_name gives up after a fixed number of names: there are more of
\* them than kills, since a start leaves at most one directory behind.
DirsSuffice == IsFiniteSet(Dirs) /\ MaxCrashes < Cardinality(Dirs)

Known == origin \in {"cold", "legacy", "compatible"}

\* The canonical maps are those of this version and count something.
Resumable == MapsOk /\ lists[pin["LIST"]].abi = "current" /\ counts[pin["COUNT"]] > 0

\* The pinned link is a legacy program over a legacy pair.
LegacyPair ==
  /\ link # NoProg /\ link.abi = "legacy" /\ link.list = link.count
  /\ lists[link.list].abi = "legacy"

\* Where its maps are at each label.
Stages ==
  /\ pc \in {"down", "refused", "assess"} =>
       Unstaged \/ \E d \in Dirs : HalfStaged(d) \/ FullyStaged(d)
  /\ pc = "stageCount" => Unstaged /\ dir \in dirs
  /\ pc = "stageList" => HalfStaged(dir)
  /\ pc = "completeList" => HalfStaged(dir) \/ FullyStaged(dir)
  /\ pc \in {"completeCount", "readStaged", "freeList", "freeCount"} => FullyStaged(dir)
  /\ pc \in {"proc", "classify", "load", "seed"} => plan = "migrated"
  /\ pc \in {"proc", "classify", "load", "seed", "write"} => \E d \in Dirs : FullyStaged(d)
  /\ pc \notin Late \cup {"clear"}

Upgrading == LegacyPair /\ Stages

\* Programs of this version need maps that can be resumed; only the pinned link of an
\* upgraded node can be a legacy one, and not once it has been replaced.
LinkKinds ==
  /\ CurrentPrograms # {} => Resumable
  /\ linkTmp # NoProg => linkTmp.abi = "current"
  /\ fdLink # NoProg => fdLink.abi = "current"
  /\ link # NoProg /\ (pc = "reopen" \/ origin # "legacy") => link.abi = "current"

Startable ==
  /\ origin = "legacy" => Resumable \/ link # NoProg
  /\ link # NoProg => Resumable \/ Upgrading

\* The labels at which no staging directory of this start exists.
Resting == {"down", "refused", "assess"}

\* Every start that was killed left at most one staging directory.
DirsCounted ==
  /\ crashes <= MaxCrashes
  /\ origin = "legacy" =>
       Cardinality(dirs) <= crashes + (IF pc \in Resting THEN 0 ELSE 1)

\* Nothing but a node without any link is refused.
NeverRefused == pc = "refused" => link = NoProg /\ linkTmp = NoProg

Accepted == Known => LinkKinds /\ Startable /\ DirsCounted /\ NeverRefused

-----------------------------------------------------------------------------
\* The conditions under which a start ends without a fault.
Refusing ==
  \/ pc = "assess" /\ Incompatible
  \/ pc = "assess" /\ LegacyMigratable /\ FreeDirs = {}
  \/ /\ pc = "readStaged"
     /\ (\E name \in MapNames : Located(name) = NoMap) \/ ~CanonicalEmpty
  \/ pc = "classify" /\ InconsistentLinkWithoutMaps
  \/ pc = "seed" /\ plan = "resume" /\ counts[fd["COUNT"]] = 0
  \/ pc = "lsm" /\ lists[fd["LIST"]].abi # "current"

\* There is no other refusal.
LEMMA RefusalNeeds ==
  ASSUME Next, pc' = "refused" PROVE Refusing /\ Refuse
<1>1. CASE Start
  BY <1>1 DEF Start
<1>2. CASE Prepare
  BY <1>2 DEF Prepare, AssessIncompatible, AssessKeep, AssessLegacy, AssessResume,
     StageCount, StageList, CompleteList, CompleteCount, ReadStaged, FreeList, FreeCount,
     RecreateProc, Goto, Refusing
<1>3. CASE LoadAndSeed
  BY <1>3 DEF LoadAndSeed, Classify, LoadMap, Seed, WriteSlot, WriteCount, ClearRest,
     Goto, Refusing
<1>4. CASE ArmLsm
  BY <1>4 DEF ArmLsm, LsmLoad, RemoveStaleTmp, Attach, PinTmp, RemoveOldLink, RenameLink,
     Reopen, CleanupDir, FinishStart, Goto, HandOff, Refusing
<1>5. CASE SyncPolicy \/ Crash
  BY <1>5 DEF SyncPolicy, Crash, Die
<1>. QED  BY <1>1, <1>2, <1>3, <1>4, <1>5 DEF Next

\* The maps the process has open are the canonical ones.
LEMMA OpenIsCanonical ==
  ASSUME Inv, pc \notin PreLoad \cup {"load"}
  PROVE  /\ fd["LIST"] = pin["LIST"] /\ fd["COUNT"] = pin["COUNT"] /\ MapsOk
         /\ pin["LIST"] \in MapId /\ pin["COUNT"] \in MapId
<1>1. \A name \in MapNames : fd[name] # NoMap /\ fd[name] = pin[name]
  BY DEF Inv, OpenMaps
<1>2. /\ fd["LIST"] = pin["LIST"] /\ fd["COUNT"] = pin["COUNT"]
      /\ pin["LIST"] # NoMap /\ pin["COUNT"] # NoMap
  BY <1>1 DEF MapNames
<1>. QED  BY <1>2 DEF MapsOk, Pinned, Inv, TypeOK, MapNames

\* Maps that can be resumed are accepted at every label.
LEMMA ResumableAccepted ==
  ASSUME Inv, Resumable PROVE ~Refusing
<1>1. MapsOk /\ Pinned("LIST") /\ Pinned("COUNT")
      /\ lists[pin["LIST"]].abi = "current" /\ counts[pin["COUNT"]] > 0
  BY DEF Resumable, MapsOk
<1>2. ~Incompatible /\ ~LegacyMigratable /\ ~InconsistentLinkWithoutMaps
  BY <1>1 DEF Incompatible, LegacyMigratable, InconsistentLinkWithoutMaps
<1>3. pc # "readStaged"
  BY <1>1 DEF Inv, Migrating, Resuming
<1>4. pc \in {"seed", "lsm"} => fd["LIST"] = pin["LIST"] /\ fd["COUNT"] = pin["COUNT"]
  BY OpenIsCanonical DEF PreLoad
<1>. QED  BY <1>1, <1>2, <1>3, <1>4 DEF Refusing

\* There is a staging directory left to use.
LEMMA DirLeft ==
  ASSUME Inv, DirsSuffice, DirsCounted, origin = "legacy", pc = "assess"
  PROVE  FreeDirs # {}
<1>1. IsFiniteSet(Dirs) /\ dirs \in SUBSET Dirs /\ MaxCrashes \in Nat /\ crashes \in Nat
  BY PinAssumption DEF DirsSuffice, Inv, TypeOK
<1>2. Cardinality(dirs) <= crashes /\ crashes <= MaxCrashes /\ MaxCrashes < Cardinality(Dirs)
  BY <1>1, FS_CardinalityType DEF DirsCounted, DirsSuffice, Resting
<1>3. Cardinality(dirs) \in Nat /\ Cardinality(Dirs) \in Nat
  BY <1>1, FS_CardinalityType, FS_Subset
<1>4. dirs # Dirs
  BY <1>1, <1>2, <1>3
<1>. QED  BY <1>1, <1>4 DEF FreeDirs

\* The legacy list of an upgrade, as a map object.
LEMMA LegacyMap ==
  ASSUME Inv, LegacyPair
  PROVE  /\ link.list \in MapId /\ link.list # NoMap /\ link \in Attached
         /\ lists[link.list].abi = "legacy"
  BY PinAssumption DEF LegacyPair, Inv, TypeOK, Programs, Attached

\* The staging directory of an upgrade is the only one that counts.
LEMMA UpgradeDir ==
  ASSUME Inv, LegacyPair, NEW d \in Dirs, HalfStaged(d) \/ FullyStaged(d)
  PROVE  DenyDirs = {d}
<1>1. d \in dirs /\ Staged(d, "COUNT")
  BY LegacyMap DEF HalfStaged, FullyStaged, OnlyIn, Staged
<1>2. \A e \in dirs \ {d} : \A name \in MapNames : ~Staged(e, name)
  BY DEF HalfStaged, FullyStaged, OnlyIn, Staged, NoPins, Inv, TypeOK
<1>. QED  BY <1>1, <1>2 DEF DenyDirs, MapNames

\* Neither is an interrupted upgrade.
LEMMA UpgradeAccepted ==
  ASSUME Inv, DirsSuffice, DirsCounted, origin = "legacy", Upgrading PROVE ~Refusing
<1>1. LegacyPair /\ Stages
  BY DEF Upgrading
<1>2. pc = "assess" => ~Incompatible /\ (LegacyMigratable => FreeDirs # {})
  <2>. SUFFICES ASSUME pc = "assess" PROVE ~Incompatible /\ FreeDirs # {}
    OBVIOUS
  <2>1. CASE Unstaged
    BY <1>1, <2>1, LegacyMap, DirLeft DEF Unstaged, Incompatible, Pinned
  <2>2. CASE \E d \in Dirs : HalfStaged(d) \/ FullyStaged(d)
    <3>1. PICK d \in Dirs : HalfStaged(d) \/ FullyStaged(d)
      BY <2>2
    <3>2. DenyDirs # {}
      BY <1>1, <3>1, UpgradeDir
    <3>3. MapsOk => lists[pin["LIST"]].abi = "current"
      BY <3>1 DEF HalfStaged, FullyStaged, MapsOk, Pinned
    <3>. QED  BY <3>2, <3>3, DirLeft DEF Incompatible
  <2>. QED  BY <1>1, <2>1, <2>2 DEF Stages
<1>3. pc = "readStaged" => (\A name \in MapNames : Located(name) # NoMap) /\ CanonicalEmpty
  BY <1>1, LegacyMap DEF Stages, FullyStaged, Located, Staged, CanonicalEmpty, MapNames
<1>4. pc = "classify" => ~InconsistentLinkWithoutMaps
  <2>. SUFFICES ASSUME pc = "classify" PROVE DenyDirs # {}
    BY DEF InconsistentLinkWithoutMaps
  <2>1. PICK d \in Dirs : FullyStaged(d)
    BY <1>1 DEF Stages
  <2>. QED  BY <1>1, <2>1, UpgradeDir
<1>5. (pc = "seed" => plan # "resume") /\ pc # "lsm"
  BY <1>1 DEF Stages, Late
<1>. QED  BY <1>2, <1>3, <1>4, <1>5 DEF Refusing

-----------------------------------------------------------------------------
\* A process that ends or starts changes no map and no pin.
LEMMA EndsAreStatic ==
  ASSUME (\E where \in {"down", "refused"} : Die(where)) \/ Start
  PROVE  /\ Static /\ linkTmp' = linkTmp /\ UNCHANGED history
         /\ fdLink' \in {fdLink, NoProg} /\ pc' \in Resting
  BY DEF Die, Start, Static, bpffs, links, history, locals, Resting

\* Once the canonical maps can be resumed they stay so: no step unpins them, empties
\* them or gives them another layout.
LEMMA ResumableStays ==
  ASSUME Inv, Resumable, [Next]_vars PROVE Resumable'
<1>1. MapsOk /\ Pinned("LIST") /\ Pinned("COUNT")
      /\ lists[pin["LIST"]].abi = "current" /\ counts[pin["COUNT"]] > 0
  BY DEF Resumable, MapsOk
<1>2. UNCHANGED <<lists, counts, pin>> => Resumable'
  BY <1>1 DEF Resumable, MapsOk, Pinned
<1>3. pc \notin Resuming \cup {"stageCount", "stageList"}
  BY <1>1 DEF Inv, Migrating
<1>4. CASE Start \/ Crash \/ Refuse
  BY <1>2, <1>4, EndsAreStatic DEF Crash, Refuse, Static
<1>5. CASE Prepare /\ ~Refuse
  BY <1>2, <1>3, <1>5 DEF Prepare, AssessIncompatible, AssessKeep, AssessLegacy,
     AssessResume, StageCount, StageList, CompleteList, CompleteCount, ReadStaged, FreeList,
     FreeCount, RecreateProc, Resuming, Goto, bpffs
<1>6. CASE LoadAndSeed /\ ~Refuse
  <2>1. CASE Classify \/ Seed
    BY <1>2, <1>6, <2>1 DEF Classify, Seed, Goto, bpffs
  <2>2. CASE \E name \in MapNames : LoadMap(name)
    BY <1>1, <1>2, <2>2 DEF LoadMap, MapNames
  <2>3. CASE WriteSlot \/ ClearRest
    <3>1. fd["LIST"] = pin["LIST"] /\ pin["LIST"] \in MapId /\ UNCHANGED <<counts, pin>>
      BY <2>3, WriterFacts DEF WriteSlot, ClearRest, bpffs
    <3>2. lists \in [MapId -> [abi : {"legacy", "current", "unknown"},
                              slots : [Slots -> Prefix \cup {Empty}]]]
      BY DEF Inv, TypeOK
    <3>3. lists'[pin["LIST"]].abi = lists[pin["LIST"]].abi
      BY <2>3, <3>1, <3>2 DEF WriteSlot, ClearRest
    <3>. QED  BY <1>1, <3>1, <3>3 DEF Resumable, MapsOk, Pinned
  <2>4. CASE WriteCount
    <3>1. /\ fd["COUNT"] = pin["COUNT"] /\ pin["COUNT"] \in MapId /\ Len(entries) \in Nat
          /\ Len(entries) >= 1 /\ UNCHANGED <<lists, pin>>
      BY <2>4, WriterFacts, PinAssumption DEF WriteCount, bpffs
    <3>2. counts'[pin["COUNT"]] = Len(entries)
      BY <2>4, <3>1 DEF WriteCount, Inv, TypeOK
    <3>. QED  BY <1>1, <3>1, <3>2 DEF Resumable, MapsOk, Pinned
  <2>. QED  BY <1>6, <2>1, <2>2, <2>3, <2>4 DEF LoadAndSeed
<1>7. CASE (ArmLsm \/ SyncPolicy) /\ ~Refuse
  BY <1>2, <1>7 DEF ArmLsm, SyncPolicy, LsmLoad, RemoveStaleTmp, Attach, PinTmp,
     RemoveOldLink, RenameLink, Reopen, CleanupDir, FinishStart, Goto, HandOff, bpffs
<1>8. CASE UNCHANGED vars
  BY <1>2, <1>8 DEF vars, bpffs
<1>. QED  BY <1>4, <1>5, <1>6, <1>7, <1>8 DEF Next

\* What a step does to the links.
LEMMA LinkSteps ==
  ASSUME Inv, [Next]_vars
  PROVE  /\ linkTmp' \in {linkTmp, fdLink, NoProg}
         /\ \/ link' = link /\ (pc' # "reopen" \/ pc = "reopen")
            \/ link' = NoProg /\ pc = "rmOld"
            \/ link' = linkTmp /\ pc = "rename"
         /\ \/ fdLink' \in {fdLink, NoProg}
            \/ fdLink' = link /\ pc = "reopen"
            \/ /\ pc = "attach" /\ fdLink'.abi = "current"
               /\ UNCHANGED <<lists, counts, pin>>
<1>1. CASE Start \/ Crash \/ Refuse
  BY <1>1, EndsAreStatic DEF Crash, Refuse, Static, Resting
<1>2. CASE (Prepare \/ LoadAndSeed \/ SyncPolicy) /\ ~Refuse
  BY <1>2 DEF Prepare, AssessIncompatible, AssessKeep, AssessLegacy,
     AssessResume, StageCount, StageList, CompleteList, CompleteCount, ReadStaged, FreeList,
     FreeCount, RecreateProc, LoadAndSeed, Classify, LoadMap, Seed, WriteSlot, WriteCount,
     ClearRest, SyncPolicy, Goto, links, locals
<1>3. CASE ArmLsm /\ ~Refuse
  BY <1>3 DEF ArmLsm, LsmLoad, RemoveStaleTmp, Attach, PinTmp,
     RemoveOldLink, RenameLink, Reopen, CleanupDir, FinishStart, Goto, HandOff, bpffs, links,
     locals
<1>4. CASE UNCHANGED vars
  BY <1>4 DEF vars, links, locals
<1>. QED  BY <1>1, <1>2, <1>3, <1>4 DEF Next

\* Only the hand-off makes a program of this version, over maps that can be resumed.
LEMMA LinkKindsStep ==
  ASSUME Inv, LinkKinds, [Next]_vars PROVE LinkKinds'
<1>1. origin' = origin
  BY HistoryStays
<1>2. /\ linkTmp' # NoProg => linkTmp'.abi = "current"
      /\ fdLink' # NoProg => fdLink'.abi = "current"
      /\ link' # NoProg /\ (pc' = "reopen" \/ origin' # "legacy") => link'.abi = "current"
  BY <1>1, LinkSteps DEF LinkKinds
<1>3. CASE Resumable
  BY <1>2, <1>3, ResumableStays DEF LinkKinds
<1>4. CASE ~Resumable /\ pc # "attach"
  <2>1. CurrentPrograms = {}
    BY <1>4 DEF LinkKinds
  <2>2. CurrentPrograms' \subseteq CurrentPrograms
    BY <1>4, LinkSteps DEF CurrentPrograms, Attached
  <2>. QED  BY <1>2, <2>1, <2>2 DEF LinkKinds
<1>5. CASE ~Resumable /\ pc = "attach"
  <2>1. Good(fd["LIST"], fd["COUNT"])
    BY <1>5 DEF Inv, WriterProgress
  <2>2. fd["LIST"] = pin["LIST"] /\ fd["COUNT"] = pin["COUNT"] /\ MapsOk
    BY <1>5, OpenIsCanonical DEF PreLoad
  <2>. QED  BY <1>5, <2>1, <2>2 DEF Good, Resumable
<1>. QED  BY <1>3, <1>4, <1>5

-----------------------------------------------------------------------------
(***************************************************************************)
(* An upgrade goes on, step by step, until the canonical maps can be       *)
(* resumed.                                                                *)
(***************************************************************************)
\* Only the layout of the legacy list matters for the pair.
LEMMA PairKept ==
  ASSUME LegacyPair, link' = link, lists'[link.list].abi = lists[link.list].abi
  PROVE  LegacyPair'
BY DEF LegacyPair

\* A step that leaves the maps and the deny pins alone leaves the upgrade where it is.
LEMMA UpgradeStatic ==
  ASSUME Static, LegacyPair
  PROVE  /\ LegacyPair'
         /\ dir' = dir /\ dir \in Dirs /\ HalfStaged(dir) => HalfStaged(dir)'
         /\ dir' = dir /\ dir \in Dirs /\ FullyStaged(dir) => FullyStaged(dir)'
<1>1. LegacyPair'
  BY PairKept DEF Static
<1>2. dir' = dir /\ dir \in Dirs /\ HalfStaged(dir) => HalfStaged(dir)'
  BY DEF Static, HalfStaged, OnlyIn
<1>3. dir' = dir /\ dir \in Dirs /\ FullyStaged(dir) => FullyStaged(dir)'
  BY DEF Static, FullyStaged, OnlyIn, Pinned
<1>. QED  BY <1>1, <1>2, <1>3

\* The next start can take the upgrade up wherever it was left.
LEMMA UpgradeLeft ==
  ASSUME Inv, Upgrading
  PROVE  Unstaged \/ \E d \in Dirs : HalfStaged(d) \/ FullyStaged(d)
<1>1. pc \in {"stageCount", "stageList"} \cup Resuming => dir \in Dirs
  BY DEF Inv, Migrating
<1>. QED  BY <1>1 DEF Upgrading, Stages, Inv, TypeOK, Labels, Resuming, Late

\* An end or a start of the process.
LEMMA UpgradeEnds ==
  ASSUME Inv, Upgrading, (\E where \in {"down", "refused"} : Die(where)) \/ Start
  PROVE  Upgrading'
<1>1. Static /\ pc' \in Resting
  BY EndsAreStatic
<1>2. LegacyPair'
  BY <1>1, UpgradeStatic DEF Upgrading
<1>3. Unstaged' \/ \E d \in Dirs : HalfStaged(d)' \/ FullyStaged(d)'
  BY <1>1, UpgradeLeft, StaticKeeps
<1>4. Stages'
  BY <1>1, <1>3 DEF Stages, Resting, Late
<1>. QED  BY <1>2, <1>4 DEF Upgrading

\* The assessment takes the upgrade up: it never takes legacy maps for its own.
LEMMA UpgradeAssessed ==
  ASSUME Inv, Upgrading, AssessKeep \/ AssessLegacy \/ AssessResume, ~Refuse
  PROVE  Upgrading'
<1>1. pc = "assess" /\ LegacyPair
  BY DEF Upgrading, AssessKeep, AssessLegacy, AssessResume
<1>2. Unstaged \/ \E d \in Dirs : HalfStaged(d) \/ FullyStaged(d)
  BY UpgradeLeft
<1>3. CASE Unstaged
  <2>1. DenyDirs = {}
    BY <1>3 DEF Unstaged, DenyDirs, Staged, NoPins, MapNames, Inv, TypeOK
  <2>2. ~Cold /\ ~Compatible /\ ~MigrationInProgress
    BY <1>1, <1>3, <2>1, LegacyMap DEF Unstaged, Cold, Compatible, MigrationInProgress, Pinned
  <2>3. AssessLegacy
    BY <2>2 DEF AssessKeep, AssessResume
  <2>4. PICK d \in FreeDirs :
          /\ dir' = d /\ dirs' = dirs \cup {d} /\ pc' = "stageCount"
          /\ UNCHANGED <<lists, counts, pin, staged, links>>
    BY <2>3 DEF AssessLegacy
  <2>5. LegacyPair'
    BY <1>1, <2>4, PairKept DEF links
  <2>6. Unstaged' /\ dir' \in dirs'
    BY <1>3, <2>4 DEF Unstaged, links
  <2>7. Stages'
    BY <2>4, <2>6 DEF Stages, Late
  <2>. QED  BY <2>5, <2>7 DEF Upgrading
<1>4. CASE \E d \in Dirs : HalfStaged(d) \/ FullyStaged(d)
  <2>1. PICK d \in Dirs : HalfStaged(d) \/ FullyStaged(d)
    BY <1>4
  <2>2. DenyDirs = {d}
    BY <1>1, <2>1, UpgradeDir
  <2>3. /\ MapsOk => lists[pin["LIST"]].abi = "current"
        /\ MapsOk => counts[pin["COUNT"]] = 0
    BY <2>1 DEF HalfStaged, FullyStaged, MapsOk, Pinned
  <2>4. ~Cold /\ ~Compatible /\ ~LegacyMigratable
    BY <2>2, <2>3 DEF Cold, Compatible, LegacyMigratable
  <2>5. AssessResume
    BY <2>4 DEF AssessKeep, AssessLegacy
  <2>6. Static /\ pc' = "completeList" /\ dir' = d
    BY <2>2, <2>5 DEF AssessResume, Selected, Static, bpffs, links, history
  <2>7. LegacyPair' /\ (HalfStaged(d)' \/ FullyStaged(d)')
    BY <1>1, <2>1, <2>6, StaticKeeps, UpgradeStatic
  <2>8. HalfStaged(dir)' \/ FullyStaged(dir)'
    BY <2>6, <2>7 DEF HalfStaged, FullyStaged, OnlyIn, Pinned
  <2>9. Stages'
    BY <2>6, <2>8 DEF Stages, Late
  <2>. QED  BY <2>7, <2>9 DEF Upgrading
<1>. QED  BY <1>2, <1>3, <1>4

\* A rename of LIST beside its staged COUNT completes the pair.
LEMMA UpgradeListStaged ==
  ASSUME Inv, LegacyPair, HalfStaged(dir), dir \in Dirs, dir' = dir, Rename("LIST"),
         UNCHANGED <<lists, counts, link, dirs>>
  PROVE  FullyStaged(dir)'
<1>1. /\ pin \in [MapNames -> MapId \cup {NoMap}]
      /\ staged \in [Dirs -> [MapNames -> MapId \cup {NoMap}]]
      /\ staged' = [staged EXCEPT ![dir]["LIST"] = pin["LIST"]]
      /\ pin' = [pin EXCEPT !["LIST"] = NoMap]
      /\ link.list \in MapId /\ link.list # NoMap
  BY LegacyMap DEF Inv, TypeOK, Rename
<1>2. pin'["LIST"] = NoMap /\ pin'["COUNT"] = NoMap
  BY <1>1 DEF HalfStaged, MapNames
<1>3. staged'[dir]["COUNT"] = link.list /\ staged'[dir]["LIST"] = link.list
  BY <1>1 DEF HalfStaged, MapNames
<1>4. \A e \in Dirs \ {dir} : staged'[e] = NoPins
  BY <1>1 DEF HalfStaged, OnlyIn
<1>5. dir \in dirs'
  BY DEF HalfStaged, OnlyIn
<1>. QED  BY <1>1, <1>2, <1>3, <1>4, <1>5 DEF FullyStaged, OnlyIn, Pinned, NoPins

\* The two renames of stage_legacy_deny_pins.
LEMMA UpgradeStaged ==
  ASSUME Inv, Upgrading, StageCount \/ StageList
  PROVE  Upgrading'
<1>1. /\ dir' = dir /\ plan' = plan /\ plan = "migrated" /\ dir \in Dirs
      /\ UNCHANGED <<lists, counts, link, dirs>>
  BY DEF StageCount, StageList, Goto, links, locals, Inv, Migrating, EntriesReady
<1>2. LegacyPair'
  BY <1>1, PairKept DEF Upgrading
<1>3. /\ pin \in [MapNames -> MapId \cup {NoMap}]
      /\ staged \in [Dirs -> [MapNames -> MapId \cup {NoMap}]]
  BY DEF Inv, TypeOK
<1>4. CASE StageCount
  <2>1. /\ pc = "stageCount" /\ pc' = "stageList"
        /\ staged' = [staged EXCEPT ![dir]["COUNT"] = pin["COUNT"]]
        /\ pin' = [pin EXCEPT !["COUNT"] = NoMap]
    BY <1>4 DEF StageCount, Rename, Goto
  <2>2. Unstaged /\ dir \in dirs
    BY <2>1 DEF Upgrading, Stages
  <2>3. pin'["LIST"] = link.list /\ pin'["COUNT"] = NoMap
    BY <1>3, <2>1, <2>2 DEF Unstaged, MapNames
  <2>4. staged'[dir]["COUNT"] = link.list /\ staged'[dir]["LIST"] = NoMap
    BY <1>1, <1>3, <2>1, <2>2 DEF Unstaged, NoPins, MapNames
  <2>5. \A e \in Dirs \ {dir} : staged'[e] = NoPins
    BY <1>1, <1>3, <2>1, <2>2 DEF Unstaged
  <2>6. HalfStaged(dir)'
    BY <1>1, <2>2, <2>3, <2>4, <2>5 DEF HalfStaged, OnlyIn, NoPins
  <2>7. Stages'
    BY <2>1, <2>6 DEF Stages, Late
  <2>. QED  BY <1>2, <2>7 DEF Upgrading
<1>5. CASE StageList
  <2>1. pc = "stageList" /\ pc' = "proc" /\ Rename("LIST")
    BY <1>5 DEF StageList, Goto
  <2>2. HalfStaged(dir) /\ LegacyPair
    BY <2>1 DEF Upgrading, Stages
  <2>3. FullyStaged(dir)'
    BY <1>1, <2>1, <2>2, UpgradeListStaged
  <2>4. \E d \in Dirs : FullyStaged(d)'
    BY <1>1, <2>3 DEF FullyStaged, OnlyIn, Pinned
  <2>5. Stages'
    BY <1>1, <2>1, <2>4 DEF Stages, Late
  <2>. QED  BY <1>2, <2>5 DEF Upgrading
<1>. QED  BY <1>4, <1>5

\* complete_interrupted_deny_stage stages what a kill left behind.
LEMMA UpgradeCompleted ==
  ASSUME Inv, Upgrading, CompleteList \/ CompleteCount
  PROVE  Upgrading'
<1>1. /\ dir' = dir /\ dir \in Dirs /\ UNCHANGED <<lists, counts, link, dirs, promised>>
      /\ pc \in {"completeList", "completeCount"}
      /\ pc' \in {"completeCount", "readStaged"}
  BY DEF CompleteList, CompleteCount, CompleteStage, Goto, links, locals, history, Inv,
     Migrating, Resuming
<1>2. LegacyPair /\ LegacyPair'
  BY <1>1, PairKept DEF Upgrading
<1>3. CASE FullyStaged(dir)
  <2>1. Staged(dir, "LIST") /\ Staged(dir, "COUNT")
    BY <1>2, <1>3, LegacyMap DEF FullyStaged, Staged
  <2>2. Static
    BY <1>1, <2>1 DEF CompleteList, CompleteCount, CompleteStage, Static
  <2>3. FullyStaged(dir)'
    BY <1>1, <1>2, <1>3, <2>2, UpgradeStatic
  <2>. QED  BY <1>1, <1>2, <2>3 DEF Upgrading, Stages, Late
<1>4. CASE ~FullyStaged(dir)
  <2>1. pc = "completeList" /\ HalfStaged(dir)
    BY <1>1, <1>4 DEF Upgrading, Stages
  <2>2. Pinned("LIST") /\ ~Staged(dir, "LIST")
    BY <1>2, <2>1, LegacyMap DEF HalfStaged, Pinned, Staged
  <2>3. Rename("LIST")
    BY <2>1, <2>2 DEF CompleteList, CompleteCount, CompleteStage
  <2>4. FullyStaged(dir)'
    BY <1>1, <1>2, <2>1, <2>3, UpgradeListStaged
  <2>. QED  BY <1>1, <1>2, <2>4 DEF Upgrading, Stages, Late
<1>. QED  BY <1>3, <1>4

\* The staged pair is read and empty canonical maps beside it are removed.
LEMMA UpgradeRead ==
  ASSUME Inv, Upgrading, ReadStaged \/ FreeList \/ FreeCount, ~Refuse
  PROVE  Upgrading'
<1>1. /\ dir' = dir /\ dir \in Dirs /\ plan' = plan /\ plan = "migrated"
      /\ UNCHANGED <<lists, counts, link, dirs, staged>>
      /\ pc \in {"readStaged", "freeList", "freeCount"}
      /\ pc' \in {"freeList", "freeCount", "proc"}
  BY DEF ReadStaged, FreeList, FreeCount, FreeCanonical, Goto, links, locals, bpffs, Inv,
     Migrating, EntriesReady, Resuming
<1>2. LegacyPair /\ LegacyPair' /\ FullyStaged(dir)
  BY <1>1, PairKept DEF Upgrading, Stages
<1>3. pin \in [MapNames -> MapId \cup {NoMap}] /\ link.list # NoMap
  BY <1>2, LegacyMap DEF Inv, TypeOK
<1>4. pin' \in {pin, [pin EXCEPT !["LIST"] = NoMap], [pin EXCEPT !["COUNT"] = NoMap]}
  BY DEF ReadStaged, FreeList, FreeCount, FreeCanonical, bpffs
<1>5. pin'["LIST"] \in {pin["LIST"], NoMap} /\ pin'["COUNT"] \in {pin["COUNT"], NoMap}
  BY <1>3, <1>4 DEF MapNames
<1>6. FullyStaged(dir)'
  BY <1>1, <1>2, <1>3, <1>5 DEF FullyStaged, OnlyIn, Pinned
<1>7. \E d \in Dirs : FullyStaged(d)'
  BY <1>1, <1>6 DEF FullyStaged, OnlyIn, Pinned
<1>8. Stages'
  BY <1>1, <1>6, <1>7 DEF Stages, Late
<1>. QED  BY <1>2, <1>8 DEF Upgrading

\* The process maps, the classification and the choice of the seed touch no deny pin.
LEMMA UpgradePlanned ==
  ASSUME Inv, Upgrading, RecreateProc \/ Classify \/ Seed, ~Refuse
  PROVE  Upgrading'
<1>1. /\ Static /\ plan' = plan /\ pc \in {"proc", "classify", "seed"}
      /\ pc = "seed" /\ plan = "migrated" => pc' = "write"
      /\ pc # "seed" => pc' \in {"classify", "load"}
  BY DEF RecreateProc, Classify, Seed, Goto, Static, bpffs, links, locals, history
<1>2. plan = "migrated" /\ \E d \in Dirs : FullyStaged(d)
  BY <1>1 DEF Upgrading, Stages
<1>3. LegacyPair' /\ \E d \in Dirs : FullyStaged(d)'
  BY <1>1, <1>2, StaticKeeps, UpgradeStatic DEF Upgrading
<1>4. Stages'
  BY <1>1, <1>2, <1>3 DEF Stages, Late
<1>. QED  BY <1>3, <1>4 DEF Upgrading

\* The loader creates what is missing beside the staged pair.
LEMMA UpgradeLoaded ==
  ASSUME Inv, Upgrading, NEW name \in MapNames, LoadMap(name)
  PROVE  Upgrading'
<1>1. /\ pc = "load" /\ pc' \in {"load", "seed"} /\ plan' = plan
      /\ UNCHANGED <<staged, dirs, link, promised>>
  BY DEF LoadMap, links, history
<1>2. plan = "migrated" /\ LegacyPair
  BY <1>1 DEF Upgrading, Stages
<1>3. PICK d \in Dirs : FullyStaged(d)
  BY <1>1 DEF Upgrading, Stages
<1>4. /\ link.list \in MapId /\ link.count = link.list /\ link \in Attached
      /\ pin \in [MapNames -> MapId \cup {NoMap}]
      /\ DOMAIN lists = MapId /\ DOMAIN counts = MapId
  BY <1>2, LegacyMap DEF Inv, TypeOK, LegacyPair
<1>5. LegacyPair' /\ FullyStaged(d)'
  <2>1. CASE UNCHANGED <<lists, counts, pin>>
    BY <1>1, <1>2, <1>3, <2>1, StaticKeeps, UpgradeStatic DEF Static
  <2>2. CASE ~ UNCHANGED <<lists, counts, pin>>
    <3>1. PICK m \in MapId \ InUse(name) :
            /\ pin' = [pin EXCEPT ![name] = m]
            /\ lists' = IF name = "COUNT" THEN lists
                        ELSE [lists EXCEPT ![m] = [abi |-> "current", slots |-> BlankSlots]]
            /\ counts' = IF name = "LIST" THEN counts ELSE [counts EXCEPT ![m] = 0]
      BY <2>2 DEF LoadMap
    <3>2. m # link.list
      BY <1>4, <3>1 DEF InUse, MapNames
    <3>3. LegacyPair'
      BY <1>1, <1>2, <1>4, <3>1, <3>2, PairKept
    <3>4. pin'["LIST"] \in {pin["LIST"], m} /\ pin'["COUNT"] \in {pin["COUNT"], m}
      BY <1>4, <3>1 DEF MapNames
    <3>5. Pinned("LIST")' => lists'[pin'["LIST"]].abi = "current"
      <4>1. CASE name = "LIST"
        BY <1>4, <3>1, <4>1 DEF MapNames
      <4>2. CASE name = "COUNT"
        BY <1>3, <1>4, <3>1, <4>2 DEF FullyStaged, Pinned, MapNames
      <4>. QED  BY <4>1, <4>2 DEF MapNames
    <3>6. Pinned("COUNT")' => counts'[pin'["COUNT"]] = 0
      <4>1. CASE name = "LIST"
        BY <1>3, <1>4, <3>1, <4>1 DEF FullyStaged, Pinned, MapNames
      <4>2. CASE name = "COUNT"
        BY <1>4, <3>1, <4>2 DEF MapNames
      <4>. QED  BY <4>1, <4>2 DEF MapNames
    <3>7. FullyStaged(d)'
      BY <1>1, <1>3, <3>2, <3>4, <3>5, <3>6 DEF FullyStaged, OnlyIn
    <3>. QED  BY <3>3, <3>7
  <2>. QED  BY <2>1, <2>2
<1>6. Stages'
  BY <1>1, <1>2, <1>5 DEF Stages, Late
<1>. QED  BY <1>5, <1>6 DEF Upgrading

\* Slots are written under a count of zero; the count makes the maps resumable.
LEMMA UpgradeWritten ==
  ASSUME Inv, Upgrading, WriteSlot \/ WriteCount
  PROVE  Upgrading' \/ Resumable'
<1>1. pc = "write" /\ LegacyPair
  BY DEF Upgrading, WriteSlot, WriteCount
<1>2. PICK d \in Dirs : FullyStaged(d)
  BY <1>1 DEF Upgrading, Stages
<1>3. /\ fd["LIST"] = pin["LIST"] /\ fd["COUNT"] = pin["COUNT"]
      /\ pin["LIST"] \in MapId /\ pin["COUNT"] \in MapId /\ MapsOk
      /\ Len(entries) \in Nat /\ Len(entries) >= 1
  BY <1>1, WriterFacts, PinAssumption
<1>4. lists[pin["LIST"]].abi = "current" /\ link.list \in MapId /\ link.list # pin["LIST"]
  BY <1>1, <1>2, <1>3, LegacyMap DEF FullyStaged, MapsOk
<1>5. CASE WriteSlot
  <2>1. /\ pc' = "write" /\ UNCHANGED <<counts, pin, staged, dirs, link>>
        /\ lists' = [lists EXCEPT ![fd["LIST"]].slots[idx] = entries[idx]]
    BY <1>5 DEF WriteSlot, bpffs, links
  <2>2. lists \in [MapId -> [abi : {"legacy", "current", "unknown"},
                            slots : [Slots -> Prefix \cup {Empty}]]]
    BY DEF Inv, TypeOK
  <2>3. lists'[link.list] = lists[link.list] /\ lists'[pin["LIST"]].abi = "current"
    BY <1>3, <1>4, <2>1, <2>2
  <2>4. LegacyPair'
    BY <1>1, <2>1, <2>3, PairKept
  <2>5. FullyStaged(d)'
    BY <1>2, <2>1, <2>3 DEF FullyStaged, OnlyIn, Pinned
  <2>6. Stages'
    BY <2>1, <2>5 DEF Stages, Late
  <2>. QED  BY <2>4, <2>6 DEF Upgrading
<1>6. CASE WriteCount
  <2>1. counts' = [counts EXCEPT ![fd["COUNT"]] = Len(entries)] /\ UNCHANGED <<lists, pin>>
    BY <1>6 DEF WriteCount, bpffs
  <2>2. counts'[pin["COUNT"]] > 0
    BY <1>3, <2>1 DEF Inv, TypeOK
  <2>. QED  BY <1>3, <1>4, <2>1, <2>2 DEF Resumable, MapsOk, Pinned
<1>. QED  BY <1>5, <1>6

\* Every step that is no refusal.
LEMMA UpgradeStep ==
  ASSUME Inv, Upgrading, [Next]_vars, pc' # "refused" \/ UNCHANGED vars
  PROVE  Upgrading' \/ Resumable'
<1>1. ~Refuse \/ UNCHANGED vars
  BY DEF Refuse, Die
<1>2. pc \notin Late \cup {"clear"}
  BY DEF Upgrading, Stages
<1>3. CASE Start \/ Crash
  BY <1>3, UpgradeEnds DEF Crash
<1>4. CASE Prepare /\ ~Refuse
  BY <1>4, UpgradeAssessed, UpgradeStaged, UpgradeCompleted, UpgradeRead, UpgradePlanned
     DEF Prepare, AssessIncompatible
<1>5. CASE LoadAndSeed /\ ~Refuse
  <2>1. ~ClearRest
    BY <1>2 DEF ClearRest
  <2>. QED  BY <1>5, <2>1, UpgradePlanned, UpgradeLoaded, UpgradeWritten DEF LoadAndSeed
<1>6. ~ArmLsm /\ ~SyncPolicy
  BY <1>2 DEF ArmLsm, LsmLoad, RemoveStaleTmp, Attach, PinTmp, RemoveOldLink, RenameLink,
     Reopen, CleanupDir, FinishStart, SyncPolicy, Late
<1>7. CASE UNCHANGED vars
  BY <1>7 DEF vars, bpffs, links, locals, Upgrading, LegacyPair, Stages, Unstaged,
     HalfStaged, FullyStaged, OnlyIn, Pinned
<1>. QED  BY <1>1, <1>3, <1>4, <1>5, <1>6, <1>7 DEF Next

-----------------------------------------------------------------------------
\* What a step does to the staging directories and to the number of kills.
LEMMA DirSteps ==
  ASSUME Inv, [Next]_vars
  PROVE  \/ UNCHANGED <<dirs, crashes, pc>>
         \/ dirs' = dirs /\ crashes' = crashes + 1 /\ crashes < MaxCrashes
         \/ /\ dirs' \subseteq dirs /\ crashes' = crashes
            /\ pc' \in Resting => pc \in Resting \/ pc' = "refused"
         \/ /\ pc = "assess" /\ pc' = "stageCount" /\ crashes' = crashes
            /\ \E d \in Dirs : dirs' = dirs \cup {d}
<1>1. CASE Start
  BY <1>1 DEF Start, bpffs, Resting
<1>2. CASE Crash
  BY <1>2 DEF Crash, Die, bpffs
<1>3. CASE Refuse
  BY <1>3 DEF Refuse, Die, bpffs
<1>4. CASE Prepare /\ ~Refuse
  <2>1. CASE AssessLegacy
    BY <1>4, <2>1 DEF AssessLegacy, FreeDirs
  <2>2. CASE ~AssessLegacy
    BY <1>4, <2>2 DEF Prepare, AssessIncompatible, AssessKeep, AssessResume, StageCount,
       StageList, CompleteList, CompleteCount, CompleteStage, ReadStaged, FreeList, FreeCount,
       FreeCanonical, RecreateProc, Goto, bpffs, Resting
  <2>. QED  BY <2>1, <2>2
<1>5. CASE (LoadAndSeed \/ SyncPolicy) /\ ~Refuse
  BY <1>5 DEF LoadAndSeed, SyncPolicy, Classify, LoadMap, Seed, WriteSlot, WriteCount,
     ClearRest, Goto, bpffs, Resting
<1>6. CASE ArmLsm /\ ~Refuse
  BY <1>6 DEF ArmLsm, LsmLoad, RemoveStaleTmp, Attach, PinTmp, RemoveOldLink, RenameLink,
     Reopen, CleanupDir, FinishStart, Goto, HandOff, bpffs, Resting
<1>7. CASE UNCHANGED vars
  BY <1>7 DEF vars, bpffs
<1>. QED  BY <1>1, <1>2, <1>3, <1>4, <1>5, <1>6, <1>7 DEF Next

\* A start that is not refused leaves its directory only when it is killed.
LEMMA DirsCountedStep ==
  ASSUME Inv, DirsSuffice, DirsCounted, [Next]_vars,
         origin = "legacy" => pc' # "refused" \/ pc = "refused"
  PROVE  DirsCounted'
<1>1. IsFiniteSet(dirs) /\ Cardinality(dirs) \in Nat /\ crashes \in Nat /\ MaxCrashes \in Nat
  <2>1. IsFiniteSet(Dirs) /\ dirs \in SUBSET Dirs
    BY DEF DirsSuffice, Inv, TypeOK
  <2>2. IsFiniteSet(dirs)
    BY <2>1, FS_Subset
  <2>. QED  BY <2>2, FS_CardinalityType, PinAssumption DEF Inv, TypeOK
<1>2. crashes' <= MaxCrashes
  BY <1>1, DirSteps DEF DirsCounted
<1>3. ASSUME origin' = "legacy"
      PROVE  Cardinality(dirs') <= crashes' + (IF pc' \in Resting THEN 0 ELSE 1)
  <2>1. origin = "legacy"
    BY <1>3, HistoryStays
  <2>2. Cardinality(dirs) <= crashes + (IF pc \in Resting THEN 0 ELSE 1)
    BY <2>1 DEF DirsCounted
  <2>3. CASE UNCHANGED <<dirs, crashes, pc>>
    BY <2>2, <2>3
  <2>4. CASE dirs' = dirs /\ crashes' = crashes + 1
    BY <1>1, <2>2, <2>4
  <2>5. CASE /\ dirs' \subseteq dirs /\ crashes' = crashes
             /\ pc' \in Resting => pc \in Resting \/ pc' = "refused"
    <3>1. Cardinality(dirs') <= Cardinality(dirs) /\ Cardinality(dirs') \in Nat
      BY <1>1, <2>5, FS_Subset, FS_CardinalityType
    <3>2. pc' \in Resting => pc \in Resting
      BY <2>1, <2>5 DEF Resting
    <3>. QED  BY <1>1, <2>2, <2>5, <3>1, <3>2
  <2>6. CASE /\ pc = "assess" /\ pc' = "stageCount" /\ crashes' = crashes
             /\ \E d \in Dirs : dirs' = dirs \cup {d}
    <3>1. PICK d \in Dirs : dirs' = dirs \cup {d}
      BY <2>6
    <3>2. Cardinality(dirs') = IF d \in dirs THEN Cardinality(dirs) ELSE Cardinality(dirs) + 1
      BY <1>1, <3>1, FS_AddElement
    <3>3. pc \in Resting /\ pc' \notin Resting
      BY <2>6 DEF Resting
    <3>. QED  BY <1>1, <2>2, <2>6, <3>2, <3>3
  <2>. QED  BY <2>3, <2>4, <2>5, <2>6, DirSteps
<1>. QED  BY <1>2, <1>3 DEF DirsCounted

\* Every step keeps a known node acceptable.
LEMMA AcceptedStep ==
  ASSUME Inv, DirsSuffice, Accepted, [Next]_vars PROVE Accepted'
<1>. SUFFICES ASSUME Known' PROVE (LinkKinds /\ Startable /\ DirsCounted /\ NeverRefused)'
  BY DEF Accepted
<1>1. Known /\ origin' = origin
  BY HistoryStays DEF Known
<1>2. LinkKinds /\ Startable /\ DirsCounted /\ NeverRefused
  BY <1>1 DEF Accepted
<1>3. LinkKinds'
  BY <1>2, LinkKindsStep
<1>4. ~Resumable => linkTmp = NoProg
  BY <1>2 DEF LinkKinds, CurrentPrograms, Attached
<1>5. ~Resumable /\ link # NoProg => Upgrading /\ origin = "legacy"
  BY <1>2 DEF Startable, LinkKinds, Upgrading, LegacyPair
<1>6. Resumable \/ link # NoProg => ~Refusing
  BY <1>2, <1>5, ResumableAccepted, UpgradeAccepted
<1>7. pc' = "refused" => UNCHANGED vars \/ (Refuse /\ ~Resumable /\ link = NoProg)
  BY <1>6, RefusalNeeds
<1>8. Startable'
  <2>1. CASE Resumable
    BY <2>1, ResumableStays DEF Startable
  <2>2. CASE ~Resumable /\ link = NoProg
    <3>1. link' = NoProg
      BY <1>4, <2>2, LinkSteps
    <3>. QED  BY <1>1, <1>2, <2>2, <3>1 DEF Startable
  <2>3. CASE ~Resumable /\ link # NoProg
    <3>1. Upgrading' \/ Resumable'
      BY <1>5, <1>7, <2>3, UpgradeStep
    <3>. QED  BY <3>1 DEF Startable, Upgrading, LegacyPair
  <2>. QED  BY <2>1, <2>2, <2>3
<1>9. DirsCounted'
  <2>1. origin = "legacy" => Resumable \/ link # NoProg
    BY <1>2 DEF Startable
  <2>2. origin = "legacy" => pc' # "refused" \/ pc = "refused"
    BY <1>7, <2>1 DEF vars
  <2>. QED  BY <1>2, <2>2, DirsCountedStep
<1>10. NeverRefused'
  <2>. SUFFICES ASSUME pc' = "refused" PROVE link' = NoProg /\ linkTmp' = NoProg
    BY DEF NeverRefused
  <2>1. CASE UNCHANGED vars
    BY <1>2, <2>1 DEF NeverRefused, vars, links
  <2>2. CASE Refuse /\ ~Resumable /\ link = NoProg
    BY <1>4, <2>2 DEF Refuse, Die, links
  <2>. QED  BY <1>7, <2>1, <2>2
<1>. QED  BY <1>3, <1>8, <1>9, <1>10

\* A node starts cold, with its own maps in force, or with legacy ones.
LEMMA InitAccepted ==
  ASSUME Init PROVE Accepted
<1>. SUFFICES ASSUME Known PROVE LinkKinds /\ Startable /\ DirsCounted /\ NeverRefused
  BY DEF Accepted
<1>1. PICK shape \in Shapes, g \in MapId, n \in 0..MaxEntries,
           s \in [Slots -> Prefix \cup {Empty}] : InitFrom(shape, g, n, s)
  BY DEF Init
<1>2. /\ pc = "down" /\ linkTmp = NoProg /\ fdLink = NoProg /\ dirs = {} /\ crashes = 0
      /\ staged = [d \in Dirs |-> NoPins] /\ origin = shape
  BY <1>1 DEF InitFrom
<1>3. DirsCounted
  BY <1>2, FS_EmptySet, PinAssumption DEF DirsCounted, Resting
<1>4. NeverRefused
  BY <1>2 DEF NeverRefused
<1>5. CASE shape = "cold"
  <2>1. link = NoProg
    BY <1>1, <1>5 DEF InitFrom
  <2>. QED  BY <1>2, <1>3, <1>4, <1>5, <2>1 DEF LinkKinds, Startable, CurrentPrograms, Attached
<1>6. CASE shape \in {"legacy", "compatible"}
  <2>1. /\ pin = [name \in MapNames |-> g]
        /\ link = [abi |-> AbiOf(shape), list |-> g, count |-> g]
        /\ lists[g].abi = AbiOf(shape) /\ counts[g] = n /\ Populated(shape, s, n)
    BY <1>1, <1>6 DEF InitFrom
  <2>2. pin["LIST"] = g /\ pin["COUNT"] = g /\ g # NoMap /\ link.list = g /\ link.count = g
        /\ link.abi = AbiOf(shape)
    BY <2>1, PinAssumption DEF MapNames
  <2>3. link # NoProg
    <3>1. AbiOf(shape) \in {"legacy", "current"}
      BY <1>6 DEF AbiOf
    <3>. QED  BY <2>1, <3>1, PinAssumption
  <2>4. CASE shape = "compatible"
    <3>1. lists[g].abi = "current" /\ link.abi = "current" /\ counts[g] > 0
      BY <2>1, <2>2, <2>4 DEF AbiOf, Populated
    <3>2. Resumable
      BY <2>2, <3>1 DEF Resumable, MapsOk, Pinned
    <3>. QED  BY <1>2, <1>3, <1>4, <3>1, <3>2 DEF LinkKinds, Startable
  <2>5. CASE shape = "legacy"
    <3>1. lists[g].abi = "legacy" /\ link.abi = "legacy"
      BY <2>1, <2>2, <2>5 DEF AbiOf
    <3>2. CurrentPrograms = {}
      BY <1>2, <3>1 DEF CurrentPrograms, Attached
    <3>3. LegacyPair
      BY <2>2, <2>3, <3>1 DEF LegacyPair
    <3>4. Unstaged
      BY <1>2, <2>2 DEF Unstaged
    <3>5. Upgrading
      BY <1>2, <3>3, <3>4 DEF Upgrading, Stages, Late
    <3>. QED  BY <1>2, <1>3, <1>4, <2>3, <2>5, <3>2, <3>5 DEF LinkKinds, Startable
  <2>. QED  BY <1>6, <2>4, <2>5
<1>. QED  BY <1>2, <1>5, <1>6 DEF Known

\* "kill -9 at any step recovers on the next start" (pin_abi.rs): with more directory
\* names than kills, no crash point of an upgrade or a restart leaves pins that the
\* assessment, the classification, the seed plan or the verifier rejects while a
\* pinned link enforces.
THEOREM NodeNeverRefuses ==
  ASSUME DirsSuffice PROVE Spec => []EnforcingNodeNeverRefuses
<1>1. Init => Accepted
  BY InitAccepted
<1>2. Inv /\ Accepted /\ [Next]_vars => Accepted'
  BY DirsSuffice, AcceptedStep
<1>3. Accepted => EnforcingNodeNeverRefuses
  BY DEF Accepted, Known, NeverRefused, EnforcingNodeNeverRefuses
<1>. QED  BY <1>1, <1>2, <1>3, Invariance, PTL DEF Spec
=============================================================================
