---------------------- MODULE IdentityCorrelator_proofs ----------------------
(***************************************************************************)
(* Proofs about IdentityCorrelator: the types, the agreement of the side   *)
(* table with its indexes, that deleted pods stay out, that no key         *)
(* outlives its leaf unnoticed, that tracked leaves are watched, and that  *)
(* the row of a live manual seed is lost for a reason of its own only.     *)
(***************************************************************************)
EXTENDS IdentityCorrelator, FiniteSetTheorems, TLAPS

-----------------------------------------------------------------------------
(***************************************************************************)
(* The operations of the side table.                                       *)
(***************************************************************************)
\* What every operation keeps of a table.
TableOK(t) ==
  /\ t \in Tables /\ Coherent(t)
  /\ IsFiniteSet(Ids(t)) /\ Cardinality(Ids(t)) <= MaxRows

\* A row is what was inserted.
LEMMA RowsTyped ==
  ASSUME NEW t \in Tables, NEW i \in Inode, t.rows[i] # NoRow
  PROVE  /\ t.rows[i] \in Rows /\ t.rows[i].path \in Path
         /\ t.rows[i].pod \in Pod /\ t.rows[i].spiffe \in Spiffe \cup {NoSpiffe}
<1>1. t.rows[i] \in Rows
  BY DEF Tables
<1>. QED  BY <1>1 DEF Rows

\* Rows that are removed leave nothing behind, the others stay.
LEMMA RemoveRowsIs ==
  ASSUME NEW t \in Tables, NEW ids \in SUBSET Ids(t)
  PROVE  /\ RemoveRows(t, ids) \in Tables
         /\ Ids(RemoveRows(t, ids)) = Ids(t) \ ids
         /\ \A i \in Inode : RemoveRows(t, ids).rows[i]
                               = IF i \in ids THEN NoRow ELSE t.rows[i]
         /\ PathsOf(t, ids) \in SUBSET Path
<1>1. /\ t.rows \in [Inode -> Rows \cup {NoRow}]
      /\ t.byPod \in [Pod -> SUBSET Inode]
      /\ t.byPath \in [Path -> Inode \cup {NoInode}]
  BY DEF Tables
<1>2. /\ RemoveRows(t, ids).rows \in [Inode -> Rows \cup {NoRow}]
      /\ RemoveRows(t, ids).byPod \in [Pod -> SUBSET Inode]
      /\ RemoveRows(t, ids).byPath \in [Path -> Inode \cup {NoInode}]
  BY <1>1 DEF RemoveRows
<1>3. RemoveRows(t, ids) \in Tables
  BY <1>2 DEF RemoveRows, Tables
<1>4. \A i \in Inode : RemoveRows(t, ids).rows[i] = IF i \in ids THEN NoRow ELSE t.rows[i]
  BY DEF RemoveRows
<1>5. Ids(RemoveRows(t, ids)) = Ids(t) \ ids
  BY <1>4 DEF Ids
<1>6. PathsOf(t, ids) \in SUBSET Path
  BY RowsTyped DEF PathsOf, Ids
<1>. QED  BY <1>3, <1>4, <1>5, <1>6

\* side_table.rs: remove_by_cgroup keeps both indexes.
LEMMA RemoveRowsOK ==
  ASSUME NEW t, TableOK(t), NEW ids \in SUBSET Ids(t)
  PROVE  TableOK(RemoveRows(t, ids))
<1>1. t \in Tables /\ Coherent(t) /\ IsFiniteSet(Ids(t)) /\ Cardinality(Ids(t)) <= MaxRows
  BY DEF TableOK
<1>2. /\ RemoveRows(t, ids) \in Tables
      /\ Ids(RemoveRows(t, ids)) = Ids(t) \ ids
      /\ \A i \in Inode : RemoveRows(t, ids).rows[i]
                            = IF i \in ids THEN NoRow ELSE t.rows[i]
  BY <1>1, RemoveRowsIs
<1>3. ASSUME NEW i \in Inode, NEW p \in Path
      PROVE  RemoveRows(t, ids).byPath[p] = i
               <=> RemoveRows(t, ids).rows[i] # NoRow /\ RemoveRows(t, ids).rows[i].path = p
  <2>1. RemoveRows(t, ids).byPath[p] = IF p \in PathsOf(t, ids) THEN NoInode ELSE t.byPath[p]
    BY DEF RemoveRows
  <2>2. \A j \in Inode : t.byPath[p] = j <=> t.rows[j] # NoRow /\ t.rows[j].path = p
    BY <1>1 DEF Coherent
  <2>3. CASE p \in PathsOf(t, ids)
    <3>1. PICK j \in ids : t.rows[j].path = p
      BY <2>3 DEF PathsOf
    <3>2. j \in Inode /\ t.rows[j] # NoRow
      BY <3>1 DEF Ids
    <3>3. t.byPath[p] = j
      BY <2>2, <3>1, <3>2
    <3>4. i \notin ids => ~ (t.rows[i] # NoRow /\ t.rows[i].path = p)
      BY <2>2, <3>1, <3>3
    <3>. QED  BY <1>2, <2>1, <2>3, <3>4, SideTableAssumption
  <2>4. CASE p \notin PathsOf(t, ids)
    <3>1. i \in ids => t.rows[i].path # p
      BY <2>4 DEF PathsOf
    <3>2. i \in ids => t.byPath[p] # i
      BY <2>2, <3>1
    <3>. QED  BY <1>2, <2>1, <2>2, <2>4, <3>2
  <2>. QED  BY <2>3, <2>4
<1>4. ASSUME NEW i \in Inode, NEW d \in Pod
      PROVE  i \in RemoveRows(t, ids).byPod[d]
               <=> RemoveRows(t, ids).rows[i] # NoRow /\ RemoveRows(t, ids).rows[i].pod = d
  <2>1. RemoveRows(t, ids).byPod[d] = t.byPod[d] \ {j \in ids : t.rows[j].pod = d}
    BY DEF RemoveRows
  <2>2. i \in t.byPod[d] <=> t.rows[i] # NoRow /\ t.rows[i].pod = d
    BY <1>1 DEF Coherent
  <2>. QED  BY <1>2, <2>1, <2>2
<1>5. Coherent(RemoveRows(t, ids))
  BY <1>3, <1>4 DEF Coherent
<1>6. IsFiniteSet(Ids(t) \ ids) /\ Cardinality(Ids(t) \ ids) <= Cardinality(Ids(t))
  BY <1>1, FS_Subset
<1>7. Cardinality(Ids(t) \ ids) \in Nat /\ Cardinality(Ids(t)) \in Nat
  BY <1>1, <1>6, FS_CardinalityType
<1>8. Cardinality(Ids(t) \ ids) <= MaxRows
  BY <1>1, <1>6, <1>7, SideTableAssumption
<1>. QED  BY <1>2, <1>5, <1>6, <1>8 DEF TableOK

\* side_table.rs: remove_by_pod trusts the pod index, and so removes just the
\* rows of the pod.
LEMMA RemoveByPodIs ==
  ASSUME NEW t \in Tables, Coherent(t), NEW d \in Pod
  PROVE  /\ IdsOfPod(t, d) = {i \in Ids(t) : t.rows[i].pod = d}
         /\ RemoveByPod(t, d) = RemoveRows(t, IdsOfPod(t, d))
<1>1. t.byPod \in [Pod -> SUBSET Inode]
  BY DEF Tables
<1>2. \A e \in Pod : t.byPod[e] = {i \in Ids(t) : t.rows[i].pod = e}
  <2>1. ASSUME NEW e \in Pod PROVE t.byPod[e] = {i \in Ids(t) : t.rows[i].pod = e}
    <3>1. t.byPod[e] \subseteq Inode
      BY <1>1
    <3>2. \A i \in Inode : i \in t.byPod[e] <=> t.rows[i] # NoRow /\ t.rows[i].pod = e
      BY DEF Coherent
    <3>. QED  BY <3>1, <3>2 DEF Ids
  <2>. QED  BY <2>1
<1>3. IdsOfPod(t, d) = t.byPod[d]
  BY <1>2 DEF IdsOfPod
<1>4. [t.byPod EXCEPT ![d] = {}]
        = [e \in Pod |-> t.byPod[e] \ {i \in t.byPod[d] : t.rows[i].pod = e}]
  <2>1. ASSUME NEW e \in Pod
        PROVE  [t.byPod EXCEPT ![d] = {}][e]
                 = t.byPod[e] \ {i \in t.byPod[d] : t.rows[i].pod = e}
    <3>1. CASE e = d
      BY <1>1, <1>2, <3>1
    <3>2. CASE e # d
      BY <1>1, <1>2, <3>2
    <3>. QED  BY <3>1, <3>2
  <2>. QED  BY <1>1, <2>1
<1>. QED  BY <1>2, <1>3, <1>4 DEF RemoveByPod, RemoveRows

\* Two rows do not name one path: so each path may be the key of an index.
OwnPath(t, i, p) == \A j \in Inode : t.rows[j] # NoRow /\ t.rows[j].path = p => j = i

\* side_table.rs: insert keeps both indexes, unless another row names the path.
LEMMA InsertOK ==
  ASSUME NEW t, TableOK(t), NEW i \in Inode, NEW e \in Rows,
         OwnPath(t, i, e.path), ~RejectedFull(t, i)
  PROVE  /\ TableOK(Insert(t, i, e))
         /\ \A j \in Inode : Insert(t, i, e).rows[j] = IF j = i THEN e ELSE t.rows[j]
<1>. DEFINE u == IF t.rows[i] = NoRow THEN t ELSE RemoveRows(t, {i})
            n == Insert(t, i, e)
<1>0. t \in Tables /\ Coherent(t) /\ IsFiniteSet(Ids(t)) /\ Cardinality(Ids(t)) <= MaxRows
  BY DEF TableOK
<1>1. /\ u \in Tables /\ Coherent(u) /\ u.rows[i] = NoRow
      /\ \A j \in Inode : j # i => u.rows[j] = t.rows[j]
  <2>1. CASE t.rows[i] = NoRow
    BY <1>0, <2>1
  <2>2. CASE t.rows[i] # NoRow
    <3>1. {i} \in SUBSET Ids(t)
      BY <2>2 DEF Ids
    <3>2. TableOK(RemoveRows(t, {i}))
      BY <3>1, RemoveRowsOK
    <3>3. \A j \in Inode : RemoveRows(t, {i}).rows[j] = IF j \in {i} THEN NoRow ELSE t.rows[j]
      BY <1>0, <3>1, RemoveRowsIs
    <3>. QED  BY <2>2, <3>2, <3>3 DEF TableOK
  <2>. QED  BY <2>1, <2>2
<1>2. n = [rows |-> [u.rows EXCEPT ![i] = e],
           byPod |-> [u.byPod EXCEPT ![e.pod] = @ \cup {i}],
           byPath |-> [u.byPath EXCEPT ![e.path] = i]]
  BY DEF Insert
<1>. HIDE DEF u, n
<1>3. e.pod \in Pod /\ e.path \in Path /\ e # NoRow
  BY SideTableAssumption DEF Rows
<1>4. /\ u.rows \in [Inode -> Rows \cup {NoRow}]
      /\ u.byPod \in [Pod -> SUBSET Inode]
      /\ u.byPath \in [Path -> Inode \cup {NoInode}]
  BY <1>1 DEF Tables
<1>5. n \in Tables
  <2>1. /\ n.rows \in [Inode -> Rows \cup {NoRow}]
        /\ n.byPod \in [Pod -> SUBSET Inode]
        /\ n.byPath \in [Path -> Inode \cup {NoInode}]
    BY <1>2, <1>3, <1>4
  <2>. QED  BY <1>2, <2>1 DEF Tables
<1>6. \A j \in Inode : n.rows[j] = IF j = i THEN e ELSE t.rows[j]
  BY <1>1, <1>2, <1>4
<1>7. ASSUME NEW j \in Inode, NEW p \in Path
      PROVE  n.byPath[p] = j <=> n.rows[j] # NoRow /\ n.rows[j].path = p
  <2>1. u.byPath[p] = j <=> u.rows[j] # NoRow /\ u.rows[j].path = p
    BY <1>1 DEF Coherent
  <2>2. n.byPath[p] = IF p = e.path THEN i ELSE u.byPath[p]
    BY <1>2, <1>3, <1>4
  <2>3. p = e.path /\ j # i => ~ (t.rows[j] # NoRow /\ t.rows[j].path = p)
    BY DEF OwnPath
  <2>4. CASE j = i
    BY <1>1, <1>3, <1>6, <2>1, <2>2, <2>4
  <2>5. CASE j # i
    BY <1>1, <1>6, <2>1, <2>2, <2>3, <2>5
  <2>. QED  BY <2>4, <2>5
<1>8. ASSUME NEW j \in Inode, NEW d \in Pod
      PROVE  j \in n.byPod[d] <=> n.rows[j] # NoRow /\ n.rows[j].pod = d
  <2>1. j \in u.byPod[d] <=> u.rows[j] # NoRow /\ u.rows[j].pod = d
    BY <1>1 DEF Coherent
  <2>2. n.byPod[d] = IF d = e.pod THEN u.byPod[d] \cup {i} ELSE u.byPod[d]
    BY <1>2, <1>3, <1>4
  <2>3. CASE j = i
    BY <1>1, <1>3, <1>6, <2>1, <2>2, <2>3
  <2>4. CASE j # i
    BY <1>1, <1>6, <2>1, <2>2, <2>4
  <2>. QED  BY <2>3, <2>4
<1>9. Coherent(n)
  BY <1>7, <1>8 DEF Coherent
<1>10. Ids(n) = Ids(t) \cup {i}
  BY <1>3, <1>6 DEF Ids
<1>11. IsFiniteSet(Ids(n)) /\ Cardinality(Ids(n)) <= MaxRows
  <2>1. Cardinality(Ids(t)) \in Nat
    BY <1>0, FS_CardinalityType
  <2>2. CASE i \in Ids(t)
    BY <1>0, <1>10, <2>2
  <2>3. CASE i \notin Ids(t)
    <3>1. t.rows[i] = NoRow
      BY <2>3 DEF Ids
    <3>2. Cardinality(Ids(t)) < MaxRows
      BY <2>1, <3>1, SideTableAssumption DEF RejectedFull
    <3>3. /\ IsFiniteSet(Ids(t) \cup {i})
          /\ Cardinality(Ids(t) \cup {i}) = Cardinality(Ids(t)) + 1
      BY <1>0, <2>3, FS_AddElement
    <3>. QED  BY <1>10, <2>1, <3>2, <3>3, SideTableAssumption
  <2>. QED  BY <2>2, <2>3
<1>. QED  BY <1>5, <1>6, <1>9, <1>11 DEF TableOK, n

-----------------------------------------------------------------------------
(***************************************************************************)
(* The inductive invariant.                                                *)
(***************************************************************************)
\* A row carries the inode its leaf has, and a leaf keeps its inode once it
\* exists: so two rows never name one path, although inodes are recycled.
Named ==
  /\ \A p \in Path : fate[p] # "unborn" => ino[p] \in Inode
  /\ \A p \in Seeded \cup cCur : fate[p] # "unborn"
  /\ \A i \in Inode : table.rows[i] # NoRow =>
       /\ fate[table.rows[i].path] # "unborn" /\ ino[table.rows[i].path] = i

\* Nothing of a pod comes after its DELETED event, in the queue or in the hands
\* of the task.
Deletions ==
  /\ \A k \in 1 .. Len(podQ) :
       /\ podQ[k].type = "deleted" => api[podQ[k].pod] = "deleted"
       /\ podQ[k].type = "upsert" => /\ podQ[k].pod \notin handled
                                     /\ \A p \in podQ[k].paths : PodOf[p] = podQ[k].pod
  /\ \A k, l \in 1 .. Len(podQ) :
       podQ[k].type = "deleted" /\ podQ[l].type = "upsert" /\ podQ[k].pod = podQ[l].pod
         => l < k
  /\ \A d \in handled : api[d] = "deleted"
  /\ cPc \in {"containers", "insert", "seed", "watch"} =>
       \A p \in cTodo : PodOf[p] \notin handled
  /\ cPc \in {"insert", "seed", "watch"} => \A p \in cCur : PodOf[p] \notin handled

IInv == TypeOK /\ TableOK(table) /\ Named /\ Deletions /\ DeletedPodsStayOut

\* Nothing that is below the table disturbs what the invariant says of rows.
LeavesGrow ==
  \A p \in Path :
    /\ fate[p] # "unborn" => fate'[p] # "unborn" /\ ino'[p] = ino[p]
    /\ fate'[p] # "unborn" => ino'[p] \in Inode

RowsOnlyGo == \A i \in Inode : table'.rows[i] \in {NoRow, table.rows[i]}

Reconciling == {"containers", "insert", "seed", "watch"}

\* A step that inserts no row and takes no leaf keeps Named and DeletedPodsStayOut.
LEMMA RowsKept ==
  ASSUME IInv, LeavesGrow, RowsOnlyGo, cCur' \subseteq cCur, handled' \subseteq handled
  PROVE  Named' /\ DeletedPodsStayOut'
<1>1. \A i \in Inode : table.rows[i] # NoRow => table.rows[i].path \in Path
  BY RowsTyped DEF IInv, TableOK
<1>2. \A p \in Seeded \cup cCur' : fate'[p] # "unborn"
  BY CorrelatorAssumption DEF IInv, TypeOK, Named, LeavesGrow
<1>3. ASSUME NEW i \in Inode, table'.rows[i] # NoRow
      PROVE  fate'[table'.rows[i].path] # "unborn" /\ ino'[table'.rows[i].path] = i
  <2>1. table'.rows[i] = table.rows[i]
    BY <1>3 DEF RowsOnlyGo
  <2>2. table.rows[i].path \in Path
    BY <1>1, <1>3, <2>1
  <2>3. fate[table.rows[i].path] # "unborn" /\ ino[table.rows[i].path] = i
    BY <1>3, <2>1 DEF IInv, Named
  <2>. QED  BY <2>1, <2>2, <2>3 DEF LeavesGrow
<1>4. Named'
  BY <1>2, <1>3 DEF Named, LeavesGrow
<1>5. DeletedPodsStayOut'
  BY DEF IInv, DeletedPodsStayOut, RowsOnlyGo, Ids
<1>. QED  BY <1>4, <1>5

\* A step that handles no pod event keeps Deletions.
LEMMA DeletionsKept ==
  ASSUME IInv, UNCHANGED <<podQ, api, handled>>,
         cPc' \in Reconciling => cPc \in Reconciling /\ cTodo' \subseteq cTodo,
         cPc' \in Reconciling \ {"containers"} =>
           cPc \in Reconciling \ {"containers"} /\ cCur' \subseteq cCur
  PROVE  Deletions'
BY DEF IInv, Deletions, Reconciling

\* Removing rows of the table.
LEMMA RemovalOK ==
  ASSUME IInv, NEW ids \in SUBSET Ids(table), table' = RemoveRows(table, ids)
  PROVE  /\ TableOK(table') /\ RowsOnlyGo /\ PathsOf(table, ids) \in SUBSET Path
         /\ ids \in SUBSET Inode
<1>1. TableOK(table) /\ table \in Tables
  BY DEF IInv, TableOK
<1>2. TableOK(table')
  BY <1>1, RemoveRowsOK
<1>3. RowsOnlyGo
  BY <1>1, RemoveRowsIs DEF RowsOnlyGo
<1>4. PathsOf(table, ids) \in SUBSET Path
  BY <1>1, RemoveRowsIs
<1>. QED  BY <1>2, <1>3, <1>4 DEF Ids

\* A table that stays.
LEMMA TableKept ==
  ASSUME IInv, UNCHANGED table
  PROVE  TableOK(table') /\ RowsOnlyGo
BY DEF IInv, RowsOnlyGo

\* Leaves that stay.
LEMMA LeavesKept ==
  ASSUME IInv, UNCHANGED leaves
  PROVE  LeavesGrow
BY DEF IInv, Named, LeavesGrow, leaves

-----------------------------------------------------------------------------
(***************************************************************************)
(* The environment.                                                        *)
(***************************************************************************)
\* Before anything ran nothing is in the table, and only manual seeds exist.
LEMMA InitOK == Init => IInv
<1>. SUFFICES ASSUME Init PROVE IInv
  OBVIOUS
<1>1. table = EmptyTable /\ Ids(table) = {}
  BY DEF Init, EmptyTable, Ids
<1>2. table \in Tables
  BY <1>1 DEF EmptyTable, Tables
<1>3. Coherent(table)
  BY <1>1, SideTableAssumption DEF EmptyTable, Coherent
<1>4. IsFiniteSet({}) /\ Cardinality({}) = 0
  BY FS_EmptySet
<1>5. TableOK(table)
  BY <1>1, <1>2, <1>3, <1>4, SideTableAssumption DEF TableOK
<1>6. \A p \in Path : /\ fate[p] \in {"unborn", "live", "gone"}
                      /\ fate[p] # "unborn" <=> p \in Seeded
                      /\ fate[p] # "unborn" => ino[p] \in Inode
  BY DEF Init
<1>7. Named
  BY <1>1, <1>6, CorrelatorAssumption DEF Init, Named, EmptyTable
<1>8. allow \subseteq Inode
  BY <1>6, CorrelatorAssumption DEF Init
<1>9. TypeOK
  <2>1. client \in BOOLEAN /\ kOverflow \in BOOLEAN
    BY Zenon DEF Init
  <2>2. podQ \in Seq(PodEvents) /\ cmdQ \in Seq(Commands) /\ batchQ \in Seq(Batches)
    BY DEF Init
  <2>3. fate \in [Path -> {"unborn", "live", "gone"}] /\ holes \in [Path -> SUBSET Causes]
    BY DEF Init
  <2>4. ino \in [Path -> Inode \cup {NoInode}] /\ api \in [Pod -> {"listed", "deleted"}]
    BY DEF Init
  <2>5. table \in Tables /\ Cardinality(Ids(table)) <= MaxRows
    BY <1>5 DEF TableOK
  <2>. QED  BY <1>8, <2>1, <2>2, <2>3, <2>4, <2>5 DEF Init, TypeOK
<1>10. Deletions /\ DeletedPodsStayOut
  BY DEF Init, Deletions, DeletedPodsStayOut
<1>. QED  BY <1>5, <1>7, <1>9, <1>10 DEF IInv

\* A new leaf had no row: its inode may have been another leaf's.
LEMMA CreateLeafOK ==
  ASSUME IInv, NEW p \in Path, NEW i \in Inode, CreateLeaf(p, i)
  PROVE  IInv'
<1>1. LeavesGrow
  BY DEF CreateLeaf, LeavesGrow, IInv, TypeOK, Named
<1>2. UNCHANGED <<table, cCur, cTodo, cPc, podQ, api, handled>>
  BY DEF CreateLeaf, correlator, pods
<1>3. TableOK(table') /\ RowsOnlyGo
  BY <1>2, TableKept
<1>4. Named' /\ DeletedPodsStayOut'
  BY <1>1, <1>2, <1>3, RowsKept
<1>5. Deletions'
  BY <1>2, DeletionsKept
<1>6. TypeOK'
  BY DEF IInv, TypeOK, CreateLeaf, pods, policy, seeds, correlator, sync, worker, kernel
<1>. QED  BY <1>3, <1>4, <1>5, <1>6 DEF IInv

\* A leaf that goes keeps its inode in the model, and its row for now.
LEMMA RemoveLeafOK ==
  ASSUME IInv, NEW p \in Path, RemoveLeaf(p)
  PROVE  IInv'
<1>1. LeavesGrow
  BY DEF RemoveLeaf, LeavesGrow, IInv, TypeOK, Named, Live
<1>2. UNCHANGED <<table, cCur, cTodo, cPc, podQ, api, handled>>
  BY DEF RemoveLeaf, correlator, pods
<1>3. TableOK(table') /\ RowsOnlyGo
  BY <1>2, TableKept
<1>4. Named' /\ DeletedPodsStayOut'
  BY <1>1, <1>2, <1>3, RowsKept
<1>5. Deletions'
  BY <1>2, DeletionsKept
<1>6. TypeOK'
  <2>1. /\ fate' \in [Path -> {"unborn", "live", "gone"}]
        /\ kq' \subseteq Path /\ kOverflow' \in BOOLEAN /\ overflows' \in Nat
    <3>1. fate' \in [Path -> {"unborn", "live", "gone"}]
      BY DEF IInv, TypeOK, RemoveLeaf
    <3>2. \/ kq' \in {kq, kq \cup {p}} /\ kOverflow' = kOverflow /\ overflows' = overflows
          \/ kOverflow' = TRUE /\ overflows' = overflows + 1 /\ kq' = kq
      BY DEF RemoveLeaf
    <3>3. kOverflow' \in BOOLEAN
      BY <3>2, Zenon DEF IInv, TypeOK
    <3>4. kq' \subseteq Path /\ overflows' \in Nat
      BY <3>2 DEF IInv, TypeOK
    <3>. QED  BY <3>1, <3>3, <3>4
  <2>. QED  BY <2>1 DEF IInv, TypeOK, RemoveLeaf, pods, policy, seeds, correlator, sync, worker
<1>. QED  BY <1>3, <1>4, <1>5, <1>6 DEF IInv

\* A MODIFIED event of a pod the API server lists is behind no DELETED one.
LEMMA PodModifiedOK ==
  ASSUME IInv, NEW d \in Pod, PodModified(d)
  PROVE  IInv'
<1>. DEFINE e == [type |-> "upsert", pod |-> d,
                  paths |-> {p \in Path : PodOf[p] = d /\ fate[p] # "unborn"}]
<1>1. e \in PodEvents /\ e.type = "upsert" /\ e.pod = d /\ \A p \in e.paths : PodOf[p] = d
  BY DEF PodEvents
<1>2. podQ' = Append(podQ, e) /\ api[d] = "listed" /\ api' = api
  BY DEF PodModified
<1>. HIDE DEF e
<1>3. UNCHANGED <<leaves, table, cCur, cTodo, cPc, handled>>
  BY DEF PodModified, correlator
<1>4. podQ \in Seq(PodEvents)
  BY DEF IInv, TypeOK
<1>5. /\ podQ' \in Seq(PodEvents) /\ Len(podQ') = Len(podQ) + 1 /\ Len(podQ) \in Nat
      /\ \A k \in 1 .. Len(podQ) : podQ'[k] = podQ[k]
      /\ podQ'[Len(podQ) + 1] = e
  BY <1>1, <1>2, <1>4
<1>6. TableOK(table') /\ RowsOnlyGo
  BY <1>3, TableKept
<1>7. Named' /\ DeletedPodsStayOut'
  BY <1>3, <1>6, LeavesKept, RowsKept
<1>8. d \notin handled
  BY <1>2 DEF IInv, Deletions
<1>9. Deletions'
  <2>1. \A k \in 1 .. Len(podQ') : k \in 1 .. Len(podQ) \/ k = Len(podQ) + 1
    BY <1>5
  <2>2. ASSUME NEW k \in 1 .. Len(podQ')
        PROVE  /\ podQ'[k].type = "deleted" => api'[podQ'[k].pod] = "deleted"
               /\ podQ'[k].type = "upsert" => /\ podQ'[k].pod \notin handled'
                                              /\ \A p \in podQ'[k].paths : PodOf[p] = podQ'[k].pod
    <3>1. CASE k \in 1 .. Len(podQ)
      BY <1>2, <1>3, <1>5, <3>1 DEF IInv, Deletions
    <3>2. CASE k = Len(podQ) + 1
      BY <1>1, <1>3, <1>5, <1>8, <3>2
    <3>. QED  BY <2>1, <3>1, <3>2
  <2>3. ASSUME NEW k \in 1 .. Len(podQ'), NEW l \in 1 .. Len(podQ'),
               podQ'[k].type = "deleted", podQ'[l].type = "upsert",
               podQ'[k].pod = podQ'[l].pod
        PROVE  l < k
    <3>1. k \in 1 .. Len(podQ)
      BY <1>1, <1>5, <2>1, <2>3
    <3>2. api[podQ[k].pod] = "deleted"
      BY <1>2, <1>5, <2>2, <2>3, <3>1
    <3>3. l \in 1 .. Len(podQ)
      BY <1>1, <1>2, <1>5, <2>1, <2>3, <3>1, <3>2
    <3>. QED  BY <1>5, <2>3, <3>1, <3>3 DEF IInv, Deletions
  <2>4. /\ \A c \in handled' : api'[c] = "deleted"
        /\ cPc' \in {"containers", "insert", "seed", "watch"} =>
             \A p \in cTodo' : PodOf[p] \notin handled'
        /\ cPc' \in {"insert", "seed", "watch"} => \A p \in cCur' : PodOf[p] \notin handled'
    BY <1>2, <1>3 DEF IInv, Deletions
  <2>. QED  BY <2>2, <2>3, <2>4 DEF Deletions
<1>10. TypeOK'
  <2>1. events' \in Nat
    BY DEF IInv, TypeOK, PodModified
  <2>. QED  BY <1>5, <2>1 DEF IInv, TypeOK, PodModified, leaves, policy, seeds, correlator,
                              sync, worker, kernel
<1>. QED  BY <1>6, <1>7, <1>9, <1>10 DEF IInv

\* A DELETED event goes behind what is queued of the pod, or is lost.
LEMMA PodDeletedOK ==
  ASSUME IInv, NEW d \in Pod, PodDeleted(d)
  PROVE  IInv'
<1>. DEFINE e == [type |-> "deleted", pod |-> d, paths |-> {}]
<1>1. e \in PodEvents /\ e.type = "deleted" /\ e.pod = d
  BY DEF PodEvents
<1>2. /\ podQ' = Append(podQ, e) \/ podQ' = podQ
      /\ api' \in [Pod -> {"listed", "deleted"}] /\ api'[d] = "deleted"
      /\ \A c \in Pod : api[c] = "deleted" => api'[c] = "deleted"
  BY DEF PodDeleted, IInv, TypeOK
<1>. HIDE DEF e
<1>3. UNCHANGED <<leaves, table, cCur, cTodo, cPc, handled>>
  BY DEF PodDeleted, correlator
<1>4. podQ \in Seq(PodEvents) /\ handled \subseteq Pod
  BY DEF IInv, TypeOK
<1>5. /\ podQ' \in Seq(PodEvents) /\ Len(podQ) \in Nat
      /\ Len(podQ') = Len(podQ) \/ Len(podQ') = Len(podQ) + 1
      /\ \A k \in 1 .. Len(podQ) : podQ'[k] = podQ[k]
      /\ Len(podQ') = Len(podQ) + 1 => podQ'[Len(podQ) + 1] = e
  BY <1>1, <1>2, <1>4
<1>6. TableOK(table') /\ RowsOnlyGo
  BY <1>3, TableKept
<1>7. Named' /\ DeletedPodsStayOut'
  BY <1>3, <1>6, LeavesKept, RowsKept
<1>8. Deletions'
  <2>1. ASSUME NEW k \in 1 .. Len(podQ')
        PROVE  k \in 1 .. Len(podQ) \/ (k = Len(podQ) + 1 /\ podQ'[k] = e)
    BY <1>5
  <2>a. ASSUME NEW k \in 1 .. Len(podQ) PROVE podQ[k].pod \in Pod
    <3>1. podQ[k] \in PodEvents
      BY <1>4
    <3>. QED  BY <3>1 DEF PodEvents
  <2>2. ASSUME NEW k \in 1 .. Len(podQ')
        PROVE  /\ podQ'[k].type = "deleted" => api'[podQ'[k].pod] = "deleted"
               /\ podQ'[k].type = "upsert" => /\ podQ'[k].pod \notin handled'
                                              /\ \A p \in podQ'[k].paths : PodOf[p] = podQ'[k].pod
    <3>1. CASE k \in 1 .. Len(podQ)
      BY <1>2, <1>3, <1>5, <2>a, <3>1 DEF IInv, Deletions
    <3>2. CASE podQ'[k] = e
      BY <1>1, <1>2, <3>2
    <3>. QED  BY <2>1, <3>1, <3>2
  <2>3. ASSUME NEW k \in 1 .. Len(podQ'), NEW l \in 1 .. Len(podQ'),
               podQ'[k].type = "deleted", podQ'[l].type = "upsert",
               podQ'[k].pod = podQ'[l].pod
        PROVE  l < k
    <3>1. l \in 1 .. Len(podQ)
      BY <1>1, <2>1, <2>3
    <3>2. CASE k \in 1 .. Len(podQ)
      BY <1>5, <2>3, <3>1, <3>2 DEF IInv, Deletions
    <3>3. CASE k = Len(podQ) + 1
      BY <1>5, <3>1, <3>3
    <3>. QED  BY <2>1, <3>2, <3>3
  <2>4. /\ \A c \in handled' : api'[c] = "deleted"
        /\ cPc' \in {"containers", "insert", "seed", "watch"} =>
             \A p \in cTodo' : PodOf[p] \notin handled'
        /\ cPc' \in {"insert", "seed", "watch"} => \A p \in cCur' : PodOf[p] \notin handled'
    BY <1>2, <1>3, <1>4 DEF IInv, Deletions
  <2>. QED  BY <2>2, <2>3, <2>4 DEF Deletions
<1>9. TypeOK'
  BY <1>2, <1>5 DEF IInv, TypeOK, PodDeleted, leaves, policy, seeds, correlator,
                    sync, worker, kernel
<1>. QED  BY <1>6, <1>7, <1>8, <1>9 DEF IInv

\* A step that leaves table, leaves, pod events and the correlator's work alone.
Aside == UNCHANGED <<leaves, table, cCur, cTodo, cPc, podQ, api, handled>>

\* Such a step only has types to keep.
LEMMA AsideOK ==
  ASSUME IInv, Aside, TypeOK' PROVE IInv'
<1>1. TableOK(table') /\ RowsOnlyGo
  BY TableKept DEF Aside
<1>2. Named' /\ DeletedPodsStayOut'
  BY <1>1, LeavesKept, RowsKept DEF Aside
<1>3. Deletions'
  BY DeletionsKept DEF Aside
<1>. QED  BY <1>1, <1>2, <1>3 DEF IInv

\* The pod watch fails, the policy engine serves another section.
LEMMA FeedAndPolicyOK ==
  ASSUME IInv, FeedFails \/ PolicyChange PROVE IInv'
<1>1. Aside
  BY DEF FeedFails, PolicyChange, Aside, leaves, pods, correlator
<1>2. CASE FeedFails
  <2>1. TypeOK'
    BY <1>2 DEF IInv, TypeOK, FeedFails, leaves, policy, seeds, correlator, sync, worker, kernel
  <2>. QED  BY <1>1, <2>1, AsideOK
<1>3. CASE PolicyChange
  <2>1. TypeOK'
    BY <1>3 DEF IInv, TypeOK, PolicyChange, leaves, pods, seeds, correlator, sync, worker, kernel
  <2>. QED  BY <1>1, <2>1, AsideOK
<1>. QED  BY <1>2, <1>3

-----------------------------------------------------------------------------
(***************************************************************************)
(* Manual seeds, and the inotify worker.                                   *)
(***************************************************************************)
\* Commands in the queue.
LEMMA CommandsTyped ==
  /\ \A p \in Path : Watch(p) \in Commands
  /\ \A ps \in SUBSET Path : Unwatch(ps) \in Commands /\ Rearm(ps) \in Commands
BY DEF Watch, Unwatch, Rearm, Commands

\* A row of a leaf that exists, under the inode of the leaf.
LEMMA InsertionOK ==
  ASSUME IInv, NEW p \in Path, NEW s \in Spiffe \cup {NoSpiffe}, fate[p] # "unborn",
         ~RejectedFull(table, ino[p]),
         table' = Insert(table, ino[p], [pod |-> PodOf[p], spiffe |-> s, path |-> p]),
         UNCHANGED <<leaves, handled>>, cCur' \subseteq cCur,
         PodOf[p] \notin handled \/ s = NoSpiffe
  PROVE  TableOK(table') /\ Named' /\ DeletedPodsStayOut'
<1>. DEFINE e == [pod |-> PodOf[p], spiffe |-> s, path |-> p]
            i == ino[p]
<1>1. e \in Rows /\ e.path = p /\ e.pod = PodOf[p] /\ e.spiffe = s
  BY CorrelatorAssumption DEF Rows
<1>2. i \in Inode
  BY DEF IInv, Named
<1>3. table' = Insert(table, i, e) /\ ~RejectedFull(table, i)
  OBVIOUS
<1>. HIDE DEF e
<1>4. OwnPath(table, i, e.path)
  BY <1>1 DEF IInv, Named, OwnPath
<1>5. /\ TableOK(table')
      /\ \A j \in Inode : table'.rows[j] = IF j = i THEN e ELSE table.rows[j]
  BY <1>1, <1>2, <1>3, <1>4, InsertOK DEF IInv
<1>6. Named'
  <2>1. ASSUME NEW j \in Inode, table'.rows[j] # NoRow
        PROVE  fate'[table'.rows[j].path] # "unborn" /\ ino'[table'.rows[j].path] = j
    <3>1. CASE j = i
      BY <1>1, <1>5, <3>1 DEF leaves
    <3>2. CASE j # i
      BY <1>5, <2>1, <3>2 DEF IInv, Named, leaves
    <3>. QED  BY <3>1, <3>2
  <2>2. \A q \in Seeded \cup cCur' : fate'[q] # "unborn"
    BY DEF IInv, Named, leaves
  <2>3. \A q \in Path : fate'[q] # "unborn" => ino'[q] \in Inode
    BY DEF IInv, Named, leaves
  <2>. QED  BY <2>1, <2>2, <2>3 DEF Named
<1>7. DeletedPodsStayOut'
  <2>1. ASSUME NEW d \in handled, NEW j \in Inode, table'.rows[j] # NoRow,
               table'.rows[j].pod = d
        PROVE  table'.rows[j].spiffe = NoSpiffe
    <3>1. CASE j = i
      BY <1>1, <1>5, <2>1, <3>1
    <3>2. CASE j # i
      BY <1>5, <2>1, <3>2 DEF IInv, DeletedPodsStayOut, Ids
    <3>. QED  BY <3>1, <3>2
  <2>. QED  BY <2>1 DEF DeletedPodsStayOut, Ids
<1>. QED  BY <1>5, <1>6, <1>7

\* main registers a seed: its leaf exists, its row is a manual one.
LEMMA RegisterSeedOK ==
  ASSUME IInv, NEW p \in Path, RegisterSeed(p) PROVE IInv'
<1>1. /\ p \in Seeded /\ fate[p] # "unborn" /\ ~RejectedFull(table, ino[p])
      /\ table' = Insert(table, ino[p],
                         [pod |-> PodOf[p], spiffe |-> NoSpiffe, path |-> p])
      /\ UNCHANGED <<leaves, handled, cCur, cTodo, cPc, podQ, api>>
  BY DEF RegisterSeed, IInv, TypeOK, Named, correlator, pods
<1>2. TableOK(table') /\ Named' /\ DeletedPodsStayOut'
  BY <1>1, InsertionOK
<1>3. Deletions'
  BY <1>1, DeletionsKept
<1>4. table' \in Tables /\ Cardinality(Ids(table'))  <= MaxRows
  BY <1>2 DEF TableOK
<1>5. TypeOK'
  <2>1. toRegister' \subseteq Seeded /\ toArm' \subseteq Seeded
    BY <1>1 DEF RegisterSeed, IInv, TypeOK
  <2>. QED  BY <1>4, <2>1 DEF RegisterSeed, IInv, TypeOK, Ids, leaves, pods, policy, correlator,
                              sync, worker, kernel
<1>. QED  BY <1>2, <1>3, <1>5 DEF IInv

\* main queues the Watch command of a seed.
LEMMA ArmSeedOK ==
  ASSUME IInv, NEW p \in Path, ArmSeed(p) PROVE IInv'
<1>1. Aside
  BY DEF ArmSeed, Aside, leaves, pods, correlator
<1>2. cmdQ' \in Seq(Commands)
  BY CommandsTyped DEF ArmSeed, IInv, TypeOK
<1>3. TypeOK'
  BY <1>2 DEF ArmSeed, IInv, TypeOK, leaves, pods, policy, correlator, sync, worker, kernel
<1>. QED  BY <1>1, <1>3, AsideOK

\* The head and the tail of a queue.
LEMMA Queue ==
  ASSUME NEW S, NEW q \in Seq(S), q # <<>>
  PROVE  /\ Head(q) \in S /\ Tail(q) \in Seq(S) /\ Len(Tail(q)) = Len(q) - 1
         /\ Len(q) \in Nat \ {0} /\ Head(q) = q[1]
         /\ \A k \in 1 .. Len(q) - 1 : Tail(q)[k] = q[k + 1]
OBVIOUS

\* The worker runs a command, in any of its three forms.
LEMMA CommandOK ==
  ASSUME IInv, Command PROVE IInv'
<1>1. Aside
  BY DEF Command, BesideWorker, Aside, leaves, pods, correlator
<1>2. Head(cmdQ) \in Commands /\ cmdQ' \in Seq(Commands)
  BY Queue DEF Command, IInv, TypeOK
<1>3. Head(cmdQ).paths \subseteq Path
  BY <1>2 DEF Commands
<1>4. /\ kq \subseteq Path /\ watched \subseteq Path /\ holes \in [Path -> SUBSET Causes]
  BY DEF IInv, TypeOK
<1>5. watched' \subseteq Path /\ kq' \subseteq Path /\ holes' \in [Path -> SUBSET Causes]
  <2>1. ASSUME NEW p \in Path, WatchCmd(p)
        PROVE  watched' \subseteq Path /\ kq' \subseteq Path /\ holes' \in [Path -> SUBSET Causes]
    BY <1>4, <2>1 DEF WatchCmd, Causes
  <2>2. ASSUME NEW ps \in SUBSET Path, UnwatchCmd(ps)
        PROVE  watched' \subseteq Path /\ kq' \subseteq Path /\ holes' \in [Path -> SUBSET Causes]
    BY <1>4, <2>2 DEF UnwatchCmd, Queued
  <2>3. ASSUME NEW ps \in SUBSET Path, RearmCmd(ps)
        PROVE  watched' \subseteq Path /\ kq' \subseteq Path /\ holes' \in [Path -> SUBSET Causes]
    BY <1>4, <2>3 DEF RearmCmd, Causes
  <2>. QED  BY <1>3, <2>1, <2>2, <2>3 DEF Command
<1>6. TypeOK'
  BY <1>2, <1>5 DEF Command, IInv, TypeOK, BesideWorker, leaves, pods, policy, seeds,
                    correlator, sync
<1>. QED  BY <1>1, <1>6, AsideOK

\* The worker waits, and hands over what the kernel queued.
LEMMA PollAndDrainOK ==
  ASSUME IInv, Poll \/ Drain PROVE IInv'
<1>1. Aside
  BY DEF Poll, Drain, BesideWorker, Aside, leaves, pods, correlator
<1>2. CASE Poll
  <2>1. TypeOK'
    BY <1>2 DEF Poll, IInv, TypeOK, BesideWorker, leaves, pods, policy, seeds, correlator,
                sync, kernel
  <2>. QED  BY <1>1, <2>1, AsideOK
<1>3. CASE Drain
  <2>1. kq' \subseteq Path /\ watched' \subseteq Path
    BY <1>3 DEF Drain, IInv, TypeOK, Queued
  <2>2. batchQ' \in Seq(Batches)
    <3>1. PICK drained \in SUBSET kq :
            batchQ' = IF Reported(drained)
                      THEN Append(batchQ, [overflow |-> kOverflow,
                                           paths |-> drained \cap watched])
                      ELSE batchQ
      BY <1>3 DEF Drain
    <3>2. kOverflow \in BOOLEAN
      BY Zenon DEF IInv, TypeOK
    <3>3. [overflow |-> kOverflow, paths |-> drained \cap watched] \in Batches
      BY <3>2, Zenon DEF Batches, IInv, TypeOK
    <3>. QED  BY <3>1, <3>3 DEF IInv, TypeOK
  <2>3. kOverflow' \in BOOLEAN
    BY <1>3, Zenon DEF Drain
  <2>4. TypeOK'
    BY <1>3, <2>1, <2>2, <2>3 DEF Drain, IInv, TypeOK, BesideWorker, leaves, pods, policy,
                                  seeds, correlator, sync
  <2>. QED  BY <1>1, <2>4, AsideOK
<1>. QED  BY <1>2, <1>3

-----------------------------------------------------------------------------
(***************************************************************************)
(* The policy-sync task.                                                   *)
(***************************************************************************)
\* What the policy engine serves becomes a set of identities.
LEMMA AllowlistTyped ==
  ASSUME IInv
  PROVE  (IF served = InvalidSection THEN {} ELSE served) \subseteq Spiffe
BY CorrelatorAssumption DEF IInv, TypeOK

\* A fetch replaces the allowlist or fails.
LEMMA FetchingOK ==
  ASSUME IInv, Fetch \/ FetchOk \/ FetchErr PROVE IInv'
<1>1. Aside
  BY DEF Fetch, FetchOk, FetchErr, BesideSync, Aside, leaves, pods, correlator
<1>2. /\ allowlist' \subseteq Spiffe
      /\ sPc' \in {"idle", "fetch", "revoke", "clear", "unwatch"}
      /\ UNCHANGED <<BesideSync, table, allow, served, changes, sIds, sPaths, cmdQ>>
  BY AllowlistTyped DEF Fetch, FetchOk, FetchErr, policy, IInv, TypeOK
<1>3. TypeOK'
  BY <1>2 DEF IInv, TypeOK, BesideSync, leaves, pods, seeds, correlator, worker, kernel
<1>. QED  BY <1>1, <1>3, AsideOK

\* A revocation or a clearing removes rows only.
LEMMA RevokeOK ==
  ASSUME IInv, Revoke PROVE IInv'
<1>1. RevokePlan \in SUBSET Ids(table)
  BY DEF RevokePlan, Revoked
<1>2. table' = RemoveRows(table, RevokePlan) /\ sIds' = RevokePlan
      /\ sPaths' = PathsOf(table, RevokePlan)
      /\ sPc' \in {"idle", "unwatch"}
  BY DEF Revoke
<1>3. /\ TableOK(table') /\ RowsOnlyGo /\ PathsOf(table, RevokePlan) \in SUBSET Path
      /\ RevokePlan \in SUBSET Inode
  BY <1>1, <1>2, RemovalOK
<1>4. UNCHANGED <<leaves, cCur, cTodo, cPc, podQ, api, handled>>
  BY DEF Revoke, BesideSync, pods, correlator
<1>5. Named' /\ DeletedPodsStayOut'
  BY <1>3, <1>4, LeavesKept, RowsKept
<1>6. Deletions'
  BY <1>4, DeletionsKept
<1>7. TypeOK'
  <2>1. table' \in Tables /\ Cardinality(Ids(table'))  <= MaxRows
    BY <1>3 DEF TableOK
  <2>2. UNCHANGED <<BesideSync, allow, policy, cmdQ>>
    BY DEF Revoke
  <2>. QED  BY <1>2, <1>3, <2>1, <2>2 DEF IInv, TypeOK, Ids, BesideSync, leaves, pods, policy,
                                          seeds, correlator, worker, kernel
<1>. QED  BY <1>3, <1>5, <1>6, <1>7 DEF IInv

\* What follows a revocation does not touch the table.
LEMMA AfterRevokeOK ==
  ASSUME IInv, SendUnwatch \/ RevokeKeys PROVE IInv'
<1>1. Aside
  BY DEF SendUnwatch, RevokeKeys, BesideSync, Aside, leaves, pods, correlator
<1>2. CASE SendUnwatch
  <2>1. cmdQ' \in Seq(Commands) /\ sPaths' \subseteq Path
    BY <1>2, CommandsTyped DEF SendUnwatch, IInv, TypeOK
  <2>2. TypeOK'
    BY <1>2, <2>1 DEF SendUnwatch, IInv, TypeOK, BesideSync, leaves, pods, policy, seeds,
                      correlator, worker, kernel
  <2>. QED  BY <1>1, <2>2, AsideOK
<1>3. CASE RevokeKeys
  <2>1. TypeOK'
    BY <1>3 DEF RevokeKeys, IInv, TypeOK, BesideSync, leaves, pods, policy, seeds,
                correlator, worker, kernel
  <2>. QED  BY <1>1, <2>1, AsideOK
<1>. QED  BY <1>2, <1>3

-----------------------------------------------------------------------------
(***************************************************************************)
(* The correlator task.                                                    *)
(***************************************************************************)
CorrelatorPc == {"start", "resync", "sweep", "invalidate", "teardown", "containers",
                 "insert", "seed", "watch", "idle", "dead"}

\* The types of what the task writes, the table aside.
OwnTypes ==
  /\ feed \in {"none", "up", "down"} /\ allow \subseteq Inode
  /\ podQ \in Seq(PodEvents) /\ cmdQ \in Seq(Commands) /\ batchQ \in Seq(Batches)
  /\ cPc \in CorrelatorPc /\ cTodo \subseteq Path /\ cCur \subseteq Path
  /\ cIds \subseteq Inode /\ cList \subseteq Pod
  /\ handled \subseteq Pod /\ holes \in [Path -> SUBSET Causes]

\* These types are part of TypeOK.
LEMMA OwnTypesHold == ASSUME IInv PROVE OwnTypes
BY DEF IInv, TypeOK, OwnTypes, CorrelatorPc

\* The types that are left are those of the other actors.
LEMMA TypesKept ==
  ASSUME IInv, UNCHANGED OtherActors, OwnTypes', TableOK(table')
  PROVE  TypeOK'
<1>1. table' \in Tables /\ Cardinality(Ids(table')) <= MaxRows
  BY DEF TableOK
<1>. QED  BY <1>1 DEF IInv, TypeOK, OwnTypes, CorrelatorPc, Ids, OtherActors, leaves, policy,
                      seeds, sync, worker, kernel

\* Where the task goes next.
LEMMA NextPc ==
  /\ \A ids, todo : AfterPlan(ids, todo) \in {"invalidate", "teardown", "idle"}
  /\ \A todo : NextContainer(todo) \in {"idle", "containers"}
BY DEF AfterPlan, NextContainer

\* A step of the task that handles no pod and inserts no row.
Quiet ==
  /\ UNCHANGED <<OtherActors, podQ, handled>> /\ cCur' \subseteq cCur
  /\ cPc' \in Reconciling => cPc \in Reconciling /\ cTodo' \subseteq cTodo
  /\ cPc' \in Reconciling \ {"containers"} =>
       cPc \in Reconciling \ {"containers"} /\ cCur' \subseteq cCur

\* Such a step keeps the invariant if it keeps table and types.
LEMMA QuietOK ==
  ASSUME IInv, Quiet, RowsOnlyGo, TableOK(table'), OwnTypes' PROVE IInv'
<1>1. UNCHANGED <<leaves, api, podQ, handled>>
  BY DEF Quiet, OtherActors
<1>2. Named' /\ DeletedPodsStayOut'
  BY <1>1, LeavesKept, RowsKept DEF Quiet
<1>3. Deletions'
  BY <1>1, DeletionsKept DEF Quiet
<1>4. TypeOK'
  BY TypesKept DEF Quiet
<1>. QED  BY <1>2, <1>3, <1>4 DEF IInv

\* The steps of the task that leave the table alone.
LEMMA SmallStepsOK ==
  ASSUME IInv, Invalidate \/ ListPods \/ ResyncFails \/ SpawnPodWatch \/ TakeBatch \/ SendWatch
  PROVE  IInv'
<1>1. OwnTypes
  BY OwnTypesHold
<1>2. UNCHANGED table
  BY DEF Invalidate, ListPods, ResyncFails, SpawnPodWatch, TakeBatch, SendWatch
<1>3. TableOK(table') /\ RowsOnlyGo
  BY <1>2, TableKept
<1>4. CASE Invalidate
  <2>1. Quiet
    BY <1>4, NextPc DEF Invalidate, Quiet, Reconciling
  <2>2. OwnTypes'
    BY <1>1, <1>4, NextPc DEF Invalidate, OwnTypes, CorrelatorPc
  <2>. QED  BY <1>3, <2>1, <2>2, QuietOK
<1>5. CASE ListPods
  <2>1. Quiet
    BY <1>5 DEF ListPods, Quiet, Reconciling
  <2>2. OwnTypes'
    BY <1>1, <1>5 DEF ListPods, OwnTypes, CorrelatorPc
  <2>. QED  BY <1>3, <2>1, <2>2, QuietOK
<1>6. CASE ResyncFails
  <2>1. Quiet
    BY <1>6 DEF ResyncFails, Quiet, Reconciling
  <2>2. holes' \in [Path -> SUBSET Causes]
    BY <1>1, <1>6 DEF ResyncFails, OwnTypes, Causes
  <2>3. OwnTypes'
    BY <1>1, <1>6, <2>2 DEF ResyncFails, OwnTypes, CorrelatorPc
  <2>. QED  BY <1>3, <2>1, <2>3, QuietOK
<1>7. CASE SpawnPodWatch
  <2>1. Quiet
    BY <1>7 DEF SpawnPodWatch, Quiet, correlator
  <2>2. OwnTypes'
    BY <1>1, <1>7 DEF SpawnPodWatch, OwnTypes, correlator
  <2>. QED  BY <1>3, <2>1, <2>2, QuietOK
<1>8. CASE TakeBatch
  <2>1. Quiet
    BY <1>8 DEF TakeBatch, Quiet, Reconciling
  <2>2. Head(batchQ) \in Batches /\ batchQ' \in Seq(Batches)
    BY <1>1, <1>8, Queue DEF TakeBatch, OwnTypes
  <2>3. Head(batchQ).paths \subseteq Path
    BY <2>2, Zenon DEF Batches
  <2>4. cPc' \in {"resync", "teardown"} /\ cTodo' \in {cTodo, Head(batchQ).paths}
    BY <1>8 DEF TakeBatch
  <2>5. OwnTypes'
    BY <1>1, <1>8, <2>2, <2>3, <2>4 DEF TakeBatch, OwnTypes, CorrelatorPc
  <2>. QED  BY <1>3, <2>1, <2>5, QuietOK
<1>9. CASE SendWatch
  <2>1. Quiet
    BY <1>9, NextPc DEF SendWatch, Quiet, Reconciling
  <2>2. cmdQ' \in Seq(Commands)
    BY <1>1, <1>9, CommandsTyped DEF SendWatch, OwnTypes
  <2>3. OwnTypes'
    BY <1>1, <1>9, <2>2, NextPc DEF SendWatch, OwnTypes, CorrelatorPc
  <2>. QED  BY <1>3, <2>1, <2>3, QuietOK
<1>. QED  BY <1>4, <1>5, <1>6, <1>7, <1>8, <1>9

\* The sweep of a forced resync removes rows only.
LEMMA SweepOK ==
  ASSUME IInv, Sweep PROVE IInv'
<1>1. OwnTypes
  BY OwnTypesHold
<1>2. Swept \in SUBSET Ids(table) /\ table' = RemoveRows(table, Swept)
  BY DEF Sweep, Swept, Missing, Unlisted
<1>3. TableOK(table') /\ RowsOnlyGo /\ Swept \in SUBSET Inode
  BY <1>2, RemovalOK
<1>4. PathsOf(table, Ids(table) \ Swept) \in SUBSET Path
  <2>1. table \in Tables
    BY DEF IInv, TableOK
  <2>. QED  BY <2>1, RemoveRowsIs
<1>5. cmdQ' \in Seq(Commands)
  <2>1. cmdQ' = cmdQ \/ cmdQ' = Append(cmdQ, Rearm(PathsOf(table, Ids(table) \ Swept)))
    BY Zenon DEF Sweep
  <2>2. Rearm(PathsOf(table, Ids(table) \ Swept)) \in Commands
    BY <1>4, CommandsTyped, Zenon
  <2>. QED  BY <1>1, <2>1, <2>2 DEF OwnTypes
<1>6. Quiet
  BY NextPc DEF Sweep, Quiet, Reconciling
<1>7. OwnTypes'
  BY <1>1, <1>3, <1>5, NextPc DEF Sweep, OwnTypes, CorrelatorPc
<1>. QED  BY <1>3, <1>6, <1>7, QuietOK

\* A teardown removes the row the path index names, which exists.
LEMMA TeardownOK ==
  ASSUME IInv, Teardown PROVE IInv'
<1>1. OwnTypes
  BY OwnTypesHold
<1>2. PICK p \in cTodo :
        LET i == table.byPath[p]
        IN /\ cTodo' = cTodo \ {p}
           /\ cIds' = TornDownIds(p)
           /\ table' = IF i = NoInode THEN table ELSE RemoveRows(table, {i})
           /\ cmdQ' = Append(cmdQ, Unwatch({p}))
           /\ cPc' = AfterPlan(TornDownIds(p), cTodo \ {p})
  BY DEF Teardown
<1>3. table \in Tables /\ Coherent(table) /\ p \in Path
  BY <1>1 DEF IInv, TableOK, OwnTypes
<1>4. table.byPath[p] \in Inode \cup {NoInode}
  BY <1>3 DEF Tables
<1>5. table.byPath[p] # NoInode => {table.byPath[p]} \in SUBSET Ids(table)
  BY <1>3, <1>4 DEF Coherent, Ids
<1>6. TableOK(table') /\ RowsOnlyGo
  BY <1>2, <1>5, RemovalOK, TableKept
<1>7. cmdQ' \in Seq(Commands)
  BY <1>1, <1>2, <1>3, CommandsTyped DEF OwnTypes
<1>8. TornDownIds(p) \subseteq Inode
  BY <1>4 DEF TornDownIds
<1>9. Quiet
  BY <1>2, NextPc DEF Teardown, Quiet, Reconciling
<1>10. OwnTypes'
  BY <1>1, <1>2, <1>7, <1>8, NextPc DEF Teardown, OwnTypes, CorrelatorPc
<1>. QED  BY <1>6, <1>9, <1>10, QuietOK

\* What removing a pod leaves: none of its rows.
LEMMA RemovePodOK ==
  ASSUME IInv, NEW d \in Pod, RemovePod(d)
  PROVE  /\ TableOK(table') /\ RowsOnlyGo
         /\ \A i \in Inode : table'.rows[i] # NoRow => table'.rows[i].pod # d
         /\ cIds' \subseteq Inode /\ cmdQ' \in Seq(Commands)
         /\ cPc' \in {"invalidate", "teardown", "idle"}
<1>1. table \in Tables /\ Coherent(table) /\ cmdQ \in Seq(Commands)
  BY DEF IInv, TableOK, TypeOK
<1>2. /\ IdsOfPod(table, d) = {i \in Ids(table) : table.rows[i].pod = d}
      /\ table' = RemoveRows(table, IdsOfPod(table, d))
  BY <1>1, RemoveByPodIs DEF RemovePod
<1>3. IdsOfPod(table, d) \in SUBSET Ids(table)
  BY <1>2
<1>4. /\ TableOK(table') /\ RowsOnlyGo
      /\ PathsOf(table, IdsOfPod(table, d)) \in SUBSET Path
      /\ IdsOfPod(table, d) \in SUBSET Inode
  BY <1>2, <1>3, RemovalOK
<1>5. \A i \in Inode : table'.rows[i] = IF i \in IdsOfPod(table, d) THEN NoRow ELSE table.rows[i]
  BY <1>1, <1>2, <1>3, RemoveRowsIs
<1>6. \A i \in Inode : table'.rows[i] # NoRow => table'.rows[i].pod # d
  BY <1>2, <1>5 DEF Ids
<1>. QED  BY <1>1, <1>4, <1>6, NextPc, CommandsTyped DEF RemovePod

\* No container of a deleted pod is being worked on.
WorkAllowed ==
  /\ cPc \in {"containers", "insert", "seed", "watch"} =>
       \A p \in cTodo : PodOf[p] \notin handled
  /\ cPc \in {"insert", "seed", "watch"} => \A p \in cCur : PodOf[p] \notin handled

\* Taking the head of the queue of pod events: the events behind it stay in order.
LEMMA QueueAdvances ==
  ASSUME IInv, podQ # <<>>, podQ' = Tail(podQ), api' = api, WorkAllowed',
         \/ handled' = handled
         \/ handled' = handled \cup {Head(podQ).pod} /\ Head(podQ).type = "deleted"
  PROVE  Deletions' /\ podQ' \in Seq(PodEvents) /\ Head(podQ).pod \in Pod
<1>1. podQ \in Seq(PodEvents)
  BY DEF IInv, TypeOK
<1>2. /\ Head(podQ) \in PodEvents /\ podQ' \in Seq(PodEvents) /\ Len(podQ') = Len(podQ) - 1
      /\ Len(podQ) \in Nat \ {0} /\ Head(podQ) = podQ[1]
      /\ \A k \in 1 .. Len(podQ) - 1 : podQ'[k] = podQ[k + 1]
  BY <1>1, Queue
<1>3. Head(podQ).pod \in Pod
  BY <1>2 DEF PodEvents
<1>4. ASSUME NEW k \in 1 .. Len(podQ')
      PROVE  k + 1 \in 1 .. Len(podQ) /\ podQ'[k] = podQ[k + 1]
  BY <1>2
<1>5. ASSUME NEW k \in 1 .. Len(podQ')
      PROVE  /\ podQ'[k].type = "deleted" => api'[podQ'[k].pod] = "deleted"
             /\ podQ'[k].type = "upsert" => /\ podQ'[k].pod \notin handled'
                                            /\ \A p \in podQ'[k].paths : PodOf[p] = podQ'[k].pod
  <2>1. podQ[1].type = "deleted" /\ podQ[k + 1].type = "upsert" =>
          podQ[k + 1].pod # podQ[1].pod
    <3>1. 1 \in 1 .. Len(podQ) /\ ~ (k + 1 < 1)
      BY <1>2
    <3>. QED  BY <1>2, <1>4, <3>1 DEF IInv, Deletions
  <2>. QED  BY <1>2, <1>4, <2>1 DEF IInv, Deletions
<1>6. ASSUME NEW k \in 1 .. Len(podQ'), NEW l \in 1 .. Len(podQ'),
             podQ'[k].type = "deleted", podQ'[l].type = "upsert", podQ'[k].pod = podQ'[l].pod
      PROVE  l < k
  <2>1. l + 1 < k + 1
    BY <1>4, <1>6 DEF IInv, Deletions
  <2>. QED  BY <2>1
<1>7. \A d \in handled' : api'[d] = "deleted"
  <2>1. podQ[1].type = "deleted" => api[podQ[1].pod] = "deleted"
    BY <1>2 DEF IInv, Deletions
  <2>. QED  BY <1>2, <2>1 DEF IInv, Deletions
<1>8. Deletions'
  BY <1>5, <1>6, <1>7 DEF Deletions, WorkAllowed
<1>. QED  BY <1>2, <1>3, <1>8

\* After a DELETED event the pod has no rows and nothing under way.
LEMMA TakeDeletedOK ==
  ASSUME IInv, TakeDeleted PROVE IInv'
<1>. DEFINE d == Head(podQ).pod
<1>1. OwnTypes
  BY OwnTypesHold
<1>2. /\ podQ # <<>> /\ podQ' = Tail(podQ) /\ Head(podQ).type = "deleted" /\ RemovePod(d)
      /\ handled' = handled \cup {d} /\ cCur' = cCur /\ cTodo' = cTodo
      /\ UNCHANGED <<OtherActors, cList, feed, allow, batchQ, holes>>
  BY DEF TakeDeleted, TakePod
<1>3. podQ \in Seq(PodEvents) /\ Head(podQ) \in PodEvents
  BY <1>1, <1>2, Queue DEF OwnTypes
<1>4. d \in Pod
  BY <1>3 DEF PodEvents
<1>. HIDE DEF d
<1>5. /\ TableOK(table') /\ RowsOnlyGo
      /\ \A i \in Inode : table'.rows[i] # NoRow => table'.rows[i].pod # d
      /\ cIds' \subseteq Inode /\ cmdQ' \in Seq(Commands)
      /\ cPc' \in {"invalidate", "teardown", "idle"}
  BY <1>2, <1>4, RemovePodOK
<1>6. api' = api /\ UNCHANGED leaves
  BY <1>2 DEF OtherActors
<1>7. WorkAllowed'
  BY <1>5 DEF WorkAllowed
<1>8. Deletions' /\ podQ' \in Seq(PodEvents)
  BY <1>2, <1>6, <1>7, QueueAdvances DEF d
<1>9. LeavesGrow
  BY <1>6, LeavesKept
<1>10. Named'
  <2>1. \A i \in Inode : table'.rows[i] # NoRow => table'.rows[i] = table.rows[i]
    BY <1>5 DEF RowsOnlyGo
  <2>. QED  BY <1>2, <1>6, <2>1 DEF IInv, Named, leaves
<1>11. DeletedPodsStayOut'
  BY <1>2, <1>5 DEF IInv, DeletedPodsStayOut, RowsOnlyGo, Ids
<1>12. OwnTypes'
  BY <1>1, <1>2, <1>4, <1>5, <1>8 DEF OwnTypes, CorrelatorPc
<1>13. TypeOK'
  BY <1>2, <1>5, <1>12, TypesKept
<1>. QED  BY <1>5, <1>8, <1>10, <1>11, <1>13 DEF IInv

\* An upsert that is still queued belongs to a pod whose deletion was not handled.
LEMMA TakeUpsertOK ==
  ASSUME IInv, TakeUpsert PROVE IInv'
<1>. DEFINE d == Head(podQ).pod
            ps == Head(podQ).paths
<1>1. OwnTypes
  BY OwnTypesHold
<1>2. /\ podQ # <<>> /\ podQ' = Tail(podQ) /\ Head(podQ).type = "upsert"
      /\ handled' = handled /\ cCur' = cCur
      /\ UNCHANGED <<OtherActors, cList, feed, allow, batchQ, holes>>
      /\ \/ cPc' = NextContainer(ps) /\ cTodo' = ps /\ UNCHANGED <<table, cIds, cmdQ>>
         \/ RemovePod(d) /\ cTodo' = cTodo
  BY DEF TakeUpsert, TakePod
<1>3. podQ \in Seq(PodEvents) /\ Head(podQ) \in PodEvents /\ Head(podQ) = podQ[1]
      /\ 1 \in 1 .. Len(podQ)
  BY <1>1, <1>2, Queue DEF OwnTypes
<1>4. d \in Pod /\ ps \subseteq Path
  BY <1>3 DEF PodEvents
<1>5. d \notin handled /\ \A p \in ps : PodOf[p] = d
  BY <1>2, <1>3 DEF IInv, Deletions
<1>. HIDE DEF d, ps
<1>6. /\ TableOK(table') /\ RowsOnlyGo
      /\ cIds' \subseteq Inode /\ cmdQ' \in Seq(Commands)
      /\ cTodo' \subseteq Path
      /\ \/ cPc' \in {"invalidate", "teardown", "idle"}
         \/ cPc' \in {"idle", "containers"} /\ cTodo' = ps
  <2>1. CASE cPc' = NextContainer(ps) /\ cTodo' = ps /\ UNCHANGED <<table, cIds, cmdQ>>
    BY <1>1, <1>4, <2>1, TableKept, NextPc DEF OwnTypes
  <2>2. CASE RemovePod(d) /\ cTodo' = cTodo
    BY <1>1, <1>4, <2>2, RemovePodOK DEF OwnTypes
  <2>. QED  BY <1>2, <2>1, <2>2
<1>7. api' = api /\ UNCHANGED leaves
  BY <1>2 DEF OtherActors
<1>8. WorkAllowed'
  BY <1>2, <1>5, <1>6 DEF WorkAllowed
<1>9. Deletions' /\ podQ' \in Seq(PodEvents)
  BY <1>2, <1>7, <1>8, QueueAdvances
<1>10. Named' /\ DeletedPodsStayOut'
  BY <1>2, <1>6, <1>7, LeavesKept, RowsKept
<1>11. OwnTypes'
  BY <1>1, <1>2, <1>6, <1>9 DEF OwnTypes, CorrelatorPc
<1>12. TypeOK'
  BY <1>2, <1>6, <1>11, TypesKept
<1>. QED  BY <1>6, <1>9, <1>10, <1>12 DEF IInv

\* A resolved leaf exists, and its pod was not deleted.
LEMMA ResolveOK ==
  ASSUME IInv, Resolve PROVE IInv'
<1>1. OwnTypes
  BY OwnTypesHold
<1>2. PICK p \in cTodo :
        /\ cTodo' = cTodo \ {p}
        /\ \/ Live(p) /\ cCur' = {p} /\ cPc' = "insert"
           \/ ~Live(p) /\ cPc' = NextContainer(cTodo \ {p}) /\ UNCHANGED cCur
  BY DEF Resolve
<1>3. /\ UNCHANGED <<OtherActors, cList, feed, podQ, table, allow, cIds, cmdQ, batchQ, handled, holes>>
      /\ cPc = "containers" /\ UNCHANGED <<leaves, api>>
  BY DEF Resolve, OtherActors
<1>4. TableOK(table')
  BY <1>3, TableKept
<1>5. p \in Path /\ PodOf[p] \notin handled /\ \A q \in cTodo : PodOf[q] \notin handled
  BY <1>1, <1>3 DEF IInv, Deletions, OwnTypes
<1>6. Named'
  <2>1. \A q \in cCur' : fate[q] # "unborn"
    BY <1>2 DEF IInv, Named, Live
  <2>. QED  BY <1>3, <2>1 DEF IInv, Named, leaves
<1>7. DeletedPodsStayOut'
  BY <1>3 DEF IInv, DeletedPodsStayOut, Ids
<1>8. cPc' \in {"insert", "idle", "containers"} /\ (cPc' = "insert" => cCur' = {p})
      /\ cCur' \subseteq Path
  BY <1>1, <1>2, <1>5, NextPc DEF OwnTypes
<1>9. WorkAllowed'
  BY <1>2, <1>3, <1>5, <1>8 DEF WorkAllowed
<1>10. Deletions'
  BY <1>3, <1>9 DEF IInv, Deletions, WorkAllowed
<1>11. OwnTypes'
  BY <1>1, <1>2, <1>3, <1>8 DEF OwnTypes, CorrelatorPc
<1>12. TypeOK'
  BY <1>3, <1>4, <1>11, TypesKept
<1>. QED  BY <1>4, <1>6, <1>7, <1>10, <1>12 DEF IInv

\* The row inserted is under the inode of its own leaf.
LEMMA InsertRowOK ==
  ASSUME IInv, InsertRow PROVE IInv'
<1>1. OwnTypes
  BY OwnTypesHold
<1>2. PICK p \in cCur :
        \/ /\ CanInsert(p) /\ cPc' = "seed"
           /\ table' = Insert(table, ino[p],
                [pod |-> PodOf[p], spiffe |-> SpiffeOf[PodOf[p]], path |-> p])
           /\ UNCHANGED cCur
        \/ /\ ~CanInsert(p) /\ cPc' = NextContainer(cTodo) /\ cCur' = {}
           /\ UNCHANGED table
  BY DEF InsertRow
<1>3. /\ UNCHANGED <<OtherActors, cList, feed, podQ, allow, cTodo, cIds, cmdQ, batchQ, handled, holes>>
      /\ cPc = "insert" /\ UNCHANGED <<leaves, api>>
  BY DEF InsertRow, OtherActors
<1>4. p \in Path /\ fate[p] # "unborn" /\ PodOf[p] \notin handled
  BY <1>1, <1>3 DEF IInv, Deletions, Named, OwnTypes
<1>5. cCur' \subseteq cCur /\ cPc' \in {"seed", "idle", "containers"}
      /\ (cPc' = "seed" => cCur' = cCur)
  BY <1>2, NextPc
<1>6. TableOK(table') /\ Named' /\ DeletedPodsStayOut'
  <2>1. CASE table' = table
    <3>1. TableOK(table') /\ RowsOnlyGo
      BY <2>1, TableKept
    <3>. QED  BY <1>3, <1>5, <3>1, LeavesKept, RowsKept
  <2>2. CASE /\ CanInsert(p)
             /\ table' = Insert(table, ino[p],
                  [pod |-> PodOf[p], spiffe |-> SpiffeOf[PodOf[p]], path |-> p])
    <3>1. SpiffeOf[PodOf[p]] \in Spiffe \cup {NoSpiffe}
      BY <1>4, CorrelatorAssumption
    <3>2. ~RejectedFull(table, ino[p])
      BY <2>2 DEF CanInsert
    <3>. QED  BY <1>3, <1>4, <1>5, <2>2, <3>1, <3>2, InsertionOK
  <2>. QED  BY <1>2, <2>1, <2>2
<1>7. Deletions'
  BY <1>3, <1>5, DeletionsKept DEF Reconciling
<1>8. OwnTypes'
  BY <1>1, <1>3, <1>5 DEF OwnTypes, CorrelatorPc
<1>9. TypeOK'
  BY <1>3, <1>6, <1>8, TypesKept
<1>. QED  BY <1>6, <1>7, <1>9 DEF IInv

\* The key goes in, or the row comes out again.
LEMMA SeedOK ==
  ASSUME IInv, Seed PROVE IInv'
<1>1. OwnTypes
  BY OwnTypesHold
<1>2. PICK p \in cCur :
        \/ /\ allow' = allow \cup {ino[p]} /\ cPc' = "watch"
           /\ holes' \in {holes, [holes EXCEPT ![p] = @ \cup {"lateSeed"}]}
           /\ UNCHANGED <<table, cCur>>
        \/ /\ cPc' = NextContainer(cTodo) /\ cCur' = {}
           /\ table' = IF table.rows[ino[p]] = NoRow THEN table
                       ELSE RemoveRows(table, {ino[p]})
           /\ UNCHANGED <<allow, holes>>
  BY DEF Seed
<1>3. p \in Path /\ ino[p] \in Inode
  BY <1>1 DEF IInv, Named, OwnTypes
<1>4. table.rows[ino[p]] # NoRow => {ino[p]} \in SUBSET Ids(table)
  BY <1>3 DEF Ids
<1>5. TableOK(table') /\ RowsOnlyGo
  BY <1>2, <1>4, RemovalOK, TableKept
<1>6. /\ UNCHANGED <<OtherActors, cList, feed, podQ, cTodo, cIds, cmdQ, batchQ, handled>>
      /\ cPc = "seed"
  BY DEF Seed
<1>7. cCur' \subseteq cCur /\ cPc' \in {"watch", "idle", "containers"}
  BY <1>2, NextPc
<1>8. Quiet
  BY <1>6, <1>7 DEF Quiet, Reconciling
<1>9. allow' \subseteq Inode /\ holes' \in [Path -> SUBSET Causes]
  BY <1>1, <1>2, <1>3 DEF OwnTypes, Causes
<1>10. OwnTypes'
  BY <1>1, <1>6, <1>7, <1>9 DEF OwnTypes, CorrelatorPc
<1>. QED  BY <1>5, <1>8, <1>10, QuietOK

-----------------------------------------------------------------------------
(***************************************************************************)
(* The theorems.                                                           *)
(***************************************************************************)
\* Every step keeps the invariant.
LEMMA StepOK == ASSUME IInv, [Next]_vars PROVE IInv'
<1>1. CASE Environment
  BY <1>1, CreateLeafOK, RemoveLeafOK, PodModifiedOK, PodDeletedOK, FeedAndPolicyOK
     DEF Environment
<1>2. CASE \E p \in Path : RegisterSeed(p) \/ ArmSeed(p)
  BY <1>2, RegisterSeedOK, ArmSeedOK
<1>3. CASE Correlator
  BY <1>3, SmallStepsOK, SweepOK, TeardownOK, TakeDeletedOK, TakeUpsertOK, ResolveOK,
     InsertRowOK, SeedOK DEF Correlator
<1>4. CASE SyncTask
  BY <1>4, FetchingOK, RevokeOK, AfterRevokeOK DEF SyncTask
<1>5. CASE Worker
  BY <1>5, CommandOK, PollAndDrainOK DEF Worker
<1>6. CASE UNCHANGED vars
  <2>1. Aside
    BY <1>6 DEF vars, Aside, leaves, pods, correlator
  <2>2. TypeOK'
    BY <1>6 DEF IInv, TypeOK, Ids, vars, leaves, pods, policy, seeds, correlator, sync, worker, kernel
  <2>. QED  BY <2>1, <2>2, AsideOK
<1>. QED  BY <1>1, <1>2, <1>3, <1>4, <1>5, <1>6 DEF Next

\* The invariant holds throughout.
LEMMA Invariant == Spec => []IInv
BY InitOK, StepOK, PTL DEF Spec

\* The types hold, and the rows stay within the capacity of the map
\* (side_table.rs), for any number of pods, leaves, inodes and identities.
THEOREM TypeCorrect == Spec => []TypeOK
<1>1. IInv => TypeOK
  BY DEF IInv
<1>. QED  BY <1>1, Invariant, PTL

\* However inserts, teardowns, sweeps and revocations interleave and inodes are
\* recycled, both indexes describe the rows (side_table.rs).
THEOREM IndexesDescribeRows == Spec => []IndexCoherent
<1>1. IInv => IndexCoherent
  BY DEF IInv, TableOK, IndexCoherent
<1>. QED  BY <1>1, Invariant, PTL

\* No late event or half-done reconciliation brings a deleted pod back (mod.rs).
THEOREM DeletedPodsNeverReturn == Spec => []DeletedPodsStayOut
<1>1. IInv => DeletedPodsStayOut
  BY DEF IInv
<1>. QED  BY <1>1, Invariant, PTL

-----------------------------------------------------------------------------
(***************************************************************************)
(* Following the removal of a leaf to its key.                             *)
(***************************************************************************)
\* What a command does to the watch of p, if the leaf still exists.
Adds(c, p) == \/ c.op = "watch" /\ c.paths = {p}
              \/ c.op = "rearm" /\ p \in c.paths
Drops(c, p) == \/ c.op = "unwatch" /\ p \in c.paths
               \/ c.op = "rearm" /\ p \notin c.paths

\* Once the commands of q are carried out p is watched, if the leaf exists: it
\* is in w or a command adds it, and no later command drops it.
Armed(q, w, p) ==
  \E k \in 0 .. Len(q) :
    /\ IF k = 0 THEN p \in w ELSE Adds(q[k], p)
    /\ \A j \in 1 .. Len(q) : j > k => ~Drops(q[j], p)

\* A sweep of the table is to come.
Resyncing ==
  \/ kOverflow \/ cPc \in {"start", "resync", "sweep"}
  \/ \E k \in 1 .. Len(batchQ) : batchQ[k].overflow

\* The removal of p is on its way from the worker to the table, or was lost.
Reaching(p) ==
  \/ Resyncing \/ holes[p] # {}
  \/ \E k \in 1 .. Len(batchQ) : p \in batchQ[k].paths
  \/ p \in cTodo /\ cPc \in {"teardown", "invalidate"}

\* A task is about to take key i out of the map.
Pending(i) == (i \in cIds /\ cPc = "invalidate") \/ (i \in sIds /\ sPc = "unwatch")

\* The watch of p is armed or will be, or the removal of p is on its way.
Tracked(p) ==
  \/ p \in cCur \cup toArm \/ Armed(cmdQ, watched, p)
  \/ "rearm" \in holes[p] \/ cPc = "dead"
  \/ fate[p] = "gone" /\ Reaching(p)

\* The kernel has an event for a watched leaf that is gone, or a sweep comes.
Noticed(p) ==
  fate[p] = "gone" /\ p \in watched => p \in kq \/ Resyncing \/ holes[p] # {}

HasRow(p) == \E i \in Inode : table.rows[i] # NoRow /\ table.rows[i].path = p

\* Why a key is in the map.
KeyKnown(i) ==
  \/ Pending(i)
  \/ table.rows[i] = NoRow /\ (Lost(i, Causes) \/ \E p \in toRegister : ino[p] = i)
  \/ \E p \in Path : table.rows[i] # NoRow /\ table.rows[i].path = p /\ Tracked(p)

\* Inodes: of leaves that exist, of seeds that main has yet to register, of keys.
Inodes ==
  /\ \A p \in Path : fate[p] = "unborn" => ino[p] = NoInode
  /\ \A p \in toRegister : Live(p) /\ \A q \in Path : ino[q] = ino[p] => q = p
  /\ \A i \in allow : \E p \in Path : ino[p] = i
  /\ \A p, q \in toArm : p = q

\* What the tasks hold between two steps.
InHand ==
  /\ cCur # {} => cPc \in {"insert", "seed", "watch"} /\ \E p \in Path : cCur = {p}
  /\ cPc = "seed" => \A p \in cCur : table.rows[ino[p]] # NoRow => table.rows[ino[p]].path = p
  /\ cPc = "dead" => \A p \in Path : "dead" \in holes[p]
  /\ sPc = "unwatch" => \A p \in sPaths : ino[p] \in sIds
  /\ \A p \in kq : fate[p] = "gone"

AllNoticed == \A p \in Path : p \in cCur \/ HasRow(p) => Noticed(p)
AllKnown == \A i \in allow : KeyKnown(i)

\* A key without a watched, live leaf is being followed up: this is what lets
\* KeysBacked and TrackedLeavesWatched hold whenever nothing is in flight.
Followed == Inodes /\ InHand /\ AllNoticed /\ AllKnown

-----------------------------------------------------------------------------
\* The queue of commands: a command at its end, a command carried out.
LEMMA ArmedAppend ==
  ASSUME NEW q \in Seq(Commands), NEW c \in Commands, NEW w, NEW p \in Path,
         Adds(c, p) \/ (Armed(q, w, p) /\ ~Drops(c, p))
  PROVE  Armed(Append(q, c), w, p)
<1>. DEFINE r == Append(q, c)
<1>1. /\ Len(q) \in Nat /\ Len(r) = Len(q) + 1 /\ r[Len(q) + 1] = c
      /\ \A k \in 1 .. Len(q) : r[k] = q[k]
  OBVIOUS
<1>. HIDE DEF r
<1>2. CASE Adds(c, p)
  <2>1. /\ Len(r) \in 0 .. Len(r) /\ Len(r) # 0 /\ Adds(r[Len(r)], p)
        /\ \A j \in 1 .. Len(r) : j > Len(r) => ~Drops(r[j], p)
    BY <1>1, <1>2
  <2>. QED  BY <2>1 DEF Armed, r
<1>3. CASE Armed(q, w, p) /\ ~Drops(c, p)
  <2>1. PICK k \in 0 .. Len(q) : /\ IF k = 0 THEN p \in w ELSE Adds(q[k], p)
                                 /\ \A j \in 1 .. Len(q) : j > k => ~Drops(q[j], p)
    BY <1>3 DEF Armed
  <2>2. k \in 0 .. Len(r) /\ (IF k = 0 THEN p \in w ELSE Adds(r[k], p))
    BY <1>1, <2>1
  <2>3. \A j \in 1 .. Len(r) : j > k => ~Drops(r[j], p)
    BY <1>1, <1>3, <2>1
  <2>. QED  BY <2>2, <2>3 DEF Armed, r
<1>. QED  BY <1>2, <1>3

\* A command that is carried out leaves p armed, unless p is not watched after
\* a command that should have kept or added it.
LEMMA ArmedTail ==
  ASSUME NEW q \in Seq(Commands), q # <<>>, NEW w, NEW v, NEW p \in Path,
         Armed(q, w, p),
         ((p \in w /\ ~Drops(Head(q), p)) \/ Adds(Head(q), p)) => p \in v
  PROVE  Armed(Tail(q), v, p)
<1>1. /\ Tail(q) \in Seq(Commands) /\ Len(Tail(q)) = Len(q) - 1
      /\ Len(q) \in Nat \ {0} /\ Head(q) = q[1]
      /\ \A k \in 1 .. Len(q) - 1 : Tail(q)[k] = q[k + 1]
  BY Queue
<1>2. PICK k \in 0 .. Len(q) : /\ IF k = 0 THEN p \in w ELSE Adds(q[k], p)
                               /\ \A j \in 1 .. Len(q) : j > k => ~Drops(q[j], p)
  BY DEF Armed
<1>3. CASE k \in {0, 1}
  <2>1. p \in v
    BY <1>1, <1>2, <1>3
  <2>2. \A j \in 1 .. Len(Tail(q)) : j > 0 => ~Drops(Tail(q)[j], p)
    BY <1>1, <1>2, <1>3
  <2>. QED  BY <1>1, <2>1, <2>2 DEF Armed
<1>4. CASE k > 1
  <2>1. k - 1 \in 0 .. Len(Tail(q)) /\ k - 1 # 0 /\ Adds(Tail(q)[k - 1], p)
    BY <1>1, <1>2, <1>4
  <2>2. \A j \in 1 .. Len(Tail(q)) : j > k - 1 => ~Drops(Tail(q)[j], p)
    BY <1>1, <1>2, <1>4
  <2>. QED  BY <2>1, <2>2 DEF Armed
<1>. QED  BY <1>2, <1>3, <1>4

\* With the queue empty an armed leaf is watched; losing other watches does not
\* matter to it.
LEMMA ArmedWatched ==
  /\ \A w, p : Armed(<<>>, w, p) => p \in w
  /\ \A q, w, v, p : Armed(q, w, p) /\ (p \in w => p \in v) => Armed(q, v, p)
BY DEF Armed

\* The leaf of a row exists and has the inode of the row.
LEMMA RowPath ==
  ASSUME IInv, NEW i \in Inode, table.rows[i] # NoRow
  PROVE  /\ table.rows[i].path \in Path /\ ino[table.rows[i].path] = i
         /\ fate[table.rows[i].path] # "unborn"
BY RowsTyped DEF IInv, TableOK, Named

\* Nothing that the invariant mentions changes.
LEMMA FollowedKept ==
  ASSUME Followed, UNCHANGED <<leaves, table, allow, seeds, cPc, cTodo, cCur, cIds, sIds,
                               sPaths, cmdQ, watched, kq, kOverflow, batchQ, holes>>,
         sPc' = "unwatch" <=> sPc = "unwatch"
  PROVE  Followed'
<1>1. \A p \in Path : (Tracked(p) <=> Tracked(p)') /\ (Noticed(p) <=> Noticed(p)')
                      /\ (HasRow(p) <=> HasRow(p)')
  BY DEF Tracked, Armed, Reaching, Resyncing, Noticed, HasRow, seeds, leaves
<1>2. AllNoticed'
  BY <1>1 DEF Followed, AllNoticed
<1>3. AllKnown'
  BY <1>1 DEF Followed, AllKnown, KeyKnown, Pending, Lost, seeds, leaves
<1>4. Inodes' /\ InHand'
  BY DEF Followed, Inodes, InHand, Live, seeds, leaves
<1>. QED  BY <1>2, <1>3, <1>4 DEF Followed

HolesGrow == \A p \in Path : holes[p] \subseteq holes'[p]

\* A key whose row stays is known as long as its leaf stays tracked.
LEMMA KeyStays ==
  ASSUME NEW i \in Inode, KeyKnown(i), table'.rows[i] = table.rows[i],
         \A p \in Path : ino[p] = i => ino'[p] = i,
         HolesGrow, toRegister' = toRegister, toRegister \subseteq Path,
         Pending(i) => Pending(i)',
         \A p \in Path : table.rows[i].path = p /\ Tracked(p) => Tracked(p)'
  PROVE  KeyKnown(i)'
<1>1. Lost(i, Causes) => Lost(i, Causes)'
  BY DEF Lost, HolesGrow
<1>. QED  BY <1>1 DEF KeyKnown

\* A leaf is created: no key or seed has it yet.
LEMMA CreateLeafFollowed ==
  ASSUME IInv, Followed, NEW p \in Path, NEW i \in Inode, CreateLeaf(p, i)
  PROVE  Followed'
<1>1. /\ fate[p] = "unborn" /\ ino[p] = NoInode /\ \A q \in Path : Live(q) => ino[q] # i
      /\ fate' = [fate EXCEPT ![p] = "live"] /\ ino' = [ino EXCEPT ![p] = i]
      /\ fate \in [Path -> {"unborn", "live", "gone"}]
      /\ ino \in [Path -> Inode \cup {NoInode}]
  BY DEF CreateLeaf, IInv, TypeOK, Followed, Inodes
<1>2. UNCHANGED <<table, allow, toRegister, toArm, cPc, cTodo, cCur, cIds, sPc, sIds, sPaths,
                  cmdQ, watched, kq, kOverflow, batchQ, holes>>
  BY DEF CreateLeaf, seeds, correlator, sync, worker, kernel
<1>3. \A q \in Path : /\ fate'[q] = "gone" <=> fate[q] = "gone"
                      /\ fate'[q] = "unborn" => fate[q] = "unborn" /\ q # p
                      /\ ino[q] \in Inode => ino'[q] = ino[q] /\ q # p
                      /\ q # p => ino'[q] = ino[q] /\ fate'[q] = fate[q]
  BY <1>1, SideTableAssumption
<1>4. ino'[p] = i
  BY <1>1
<1>5. Inodes'
  <2>1. \A q \in Path : fate'[q] = "unborn" => ino'[q] = NoInode
    BY <1>3 DEF Followed, Inodes
  <2>2. ASSUME NEW q \in toRegister
        PROVE  Live(q)' /\ \A r \in Path : ino'[r] = ino'[q] => r = q
    <3>1. q \in Path /\ Live(q) /\ fate[q] # "unborn" /\ q # p /\ \A r \in Path : ino[r] = ino[q] => r = q
      BY <1>1, CorrelatorAssumption DEF IInv, TypeOK, Followed, Inodes, Live
    <3>. QED  BY <1>1, <1>3, <1>4, <3>1 DEF Live
  <2>3. \A j \in allow : \E q \in Path : ino'[q] = j
    BY <1>3 DEF Followed, Inodes, IInv, TypeOK
  <2>4. \A q, r \in toArm : q = r
    BY DEF Followed, Inodes
  <2>. QED  BY <1>2, <2>1, <2>2, <2>3, <2>4 DEF Inodes
<1>6. InHand'
  <2>1. \A q \in cCur : q \in Path /\ ino'[q] = ino[q]
    BY <1>1, <1>3 DEF IInv, TypeOK, Named
  <2>2. sPc = "unwatch" => \A q \in sPaths : ino'[q] = ino[q]
    BY <1>3 DEF IInv, TypeOK, Followed, InHand
  <2>3. \A q \in kq : fate'[q] = "gone"
    BY <1>3 DEF IInv, TypeOK, Followed, InHand
  <2>. QED  BY <1>2, <2>1, <2>2, <2>3 DEF Followed, InHand
<1>7. \A q \in Path : (HasRow(q)' => HasRow(q)) /\ (Noticed(q) => Noticed(q)')
                      /\ (Tracked(q) => Tracked(q)')
  BY <1>2, <1>3 DEF HasRow, Noticed, Tracked, Armed, Reaching, Resyncing
<1>8. AllNoticed'
  BY <1>2, <1>7 DEF Followed, AllNoticed
<1>9. ASSUME NEW j \in allow PROVE KeyKnown(j)'
  <2>1. j \in Inode /\ KeyKnown(j) /\ toRegister \subseteq Path
    BY CorrelatorAssumption DEF IInv, TypeOK, Followed, AllKnown
  <2>2. (Pending(j) => Pending(j)') /\ HolesGrow
    BY <1>2 DEF Pending, HolesGrow
  <2>. QED  BY <1>2, <1>3, <1>7, <2>1, <2>2, KeyStays
<1>10. AllKnown'
  BY <1>2, <1>9 DEF AllKnown
<1>. QED  BY <1>5, <1>6, <1>8, <1>10 DEF Followed

\* A leaf is removed: a watched one leaves an event, or the queue overflows.
LEMMA RemoveLeafFollowed ==
  ASSUME IInv, Followed, NEW p \in Path, RemoveLeaf(p)
  PROVE  Followed'
<1>1. /\ Live(p) /\ p \notin toRegister
      /\ fate' = [fate EXCEPT ![p] = "gone"] /\ fate \in [Path -> {"unborn", "live", "gone"}]
      /\ ino' = ino
  BY DEF RemoveLeaf, IInv, TypeOK
<1>2. UNCHANGED <<table, allow, toRegister, toArm, cPc, cTodo, cCur, cIds, sPc, sIds, sPaths,
                  cmdQ, watched, batchQ, holes>>
  BY DEF RemoveLeaf, seeds, correlator, sync, worker
<1>3. /\ kq \subseteq kq' /\ kq' \subseteq kq \cup {p} /\ (kOverflow => kOverflow')
      /\ p \in watched => p \in kq' \/ kOverflow'
  BY DEF RemoveLeaf
<1>4. fate'[p] = "gone" /\ \A q \in Path : q # p => fate'[q] = fate[q]
  BY <1>1
<1>5. \A q \in Path : fate[q] = "gone" => fate'[q] = "gone"
  BY <1>4
<1>6. Inodes'
  BY <1>1, <1>2, <1>4, CorrelatorAssumption DEF IInv, TypeOK, Followed, Inodes, Live
<1>7. InHand'
  BY <1>1, <1>2, <1>3, <1>4, <1>5 DEF IInv, TypeOK, Followed, InHand
<1>8. Resyncing => Resyncing'
  BY <1>2, <1>3 DEF Resyncing
<1>9. \A q \in Path : (HasRow(q)' => HasRow(q)) /\ (Noticed(q) => Noticed(q)')
  BY <1>2, <1>3, <1>4, <1>8 DEF HasRow, Noticed, Resyncing
<1>10. \A q \in Path : Tracked(q) => Tracked(q)'
  BY <1>2, <1>5, <1>8 DEF Tracked, Armed, Reaching
<1>11. AllNoticed'
  BY <1>2, <1>9 DEF Followed, AllNoticed
<1>12. ASSUME NEW j \in allow PROVE KeyKnown(j)'
  <2>1. j \in Inode /\ KeyKnown(j) /\ toRegister \subseteq Path
    BY CorrelatorAssumption DEF IInv, TypeOK, Followed, AllKnown
  <2>2. (Pending(j) => Pending(j)') /\ HolesGrow
    BY <1>2 DEF Pending, HolesGrow
  <2>. QED  BY <1>1, <1>2, <1>10, <2>1, <2>2, KeyStays
<1>13. AllKnown'
  BY <1>2, <1>12 DEF AllKnown
<1>. QED  BY <1>6, <1>7, <1>11, <1>13 DEF Followed

\* The rows of the table after an insertion.
LEMMA InsertedRows ==
  ASSUME NEW t \in Tables, NEW i \in Inode, NEW e
  PROVE  \A j \in Inode : Insert(t, i, e).rows[j] = IF j = i THEN e ELSE t.rows[j]
<1>1. t.rows \in [Inode -> Rows \cup {NoRow}]
  BY DEF Tables
<1>. QED  BY <1>1 DEF Insert, RemoveRows

\* main registers a seed: its key has a row, and a watch comes next.
LEMMA RegisterSeedFollowed ==
  ASSUME IInv, Followed, NEW p \in Path, RegisterSeed(p)
  PROVE  Followed'
<1>1. /\ p \in toRegister /\ toRegister' = toRegister \ {p} /\ toArm = {} /\ toArm' = {p}
      /\ table' = Insert(table, ino[p], [pod |-> PodOf[p], spiffe |-> NoSpiffe, path |-> p])
  BY DEF RegisterSeed
<1>2. UNCHANGED <<fate, ino, allow, cPc, cTodo, cCur, cIds, sPc, sIds, sPaths,
                  cmdQ, watched, kq, kOverflow, batchQ, holes>>
  BY DEF RegisterSeed, leaves, correlator, sync, worker, kernel
<1>3. /\ Live(p) /\ ino[p] \in Inode /\ table \in Tables /\ toRegister \subseteq Path
      /\ \A q \in Path : ino[q] = ino[p] => q = p
  BY <1>1, CorrelatorAssumption DEF IInv, TypeOK, Named, Followed, Inodes, Live
<1>4. \A j \in Inode : j # ino[p] => table'.rows[j] = table.rows[j]
  BY <1>1, <1>3, InsertedRows
<1>5. table'.rows[ino[p]] # NoRow /\ table'.rows[ino[p]].path = p
  <2>1. table'.rows[ino[p]] = [pod |-> PodOf[p], spiffe |-> NoSpiffe, path |-> p]
    BY <1>1, <1>3, InsertedRows
  <2>2. table'.rows[ino[p]] \in Rows
    BY <1>3, <2>1, CorrelatorAssumption DEF Rows
  <2>. QED  BY <2>1, <2>2, SideTableAssumption
<1>6. Inodes'
  BY <1>1, <1>2 DEF Followed, Inodes, Live
<1>7. InHand'
  <2>1. cPc = "seed" => \A q \in cCur : table'.rows[ino[q]] # NoRow => table'.rows[ino[q]].path = q
    <3>1. ASSUME NEW q \in cCur, cPc = "seed", table'.rows[ino[q]] # NoRow
          PROVE  table'.rows[ino[q]].path = q
      <4>1. q \in Path /\ ino[q] \in Inode
        BY DEF IInv, TypeOK, Named
      <4>. QED  BY <1>3, <1>4, <1>5, <3>1, <4>1 DEF Followed, InHand
    <3>. QED  BY <3>1
  <2>. QED  BY <1>2, <2>1 DEF Followed, InHand
<1>8. \A q \in Path : (Noticed(q) <=> Noticed(q)') /\ (Tracked(q) => Tracked(q)')
  BY <1>1, <1>2 DEF Noticed, Tracked, Armed, Reaching, Resyncing
<1>9. Noticed(p) /\ \A q \in Path : HasRow(q)' => HasRow(q) \/ q = p
  BY <1>3, <1>4, <1>5 DEF Noticed, HasRow, Live
<1>10. AllNoticed'
  BY <1>2, <1>8, <1>9 DEF Followed, AllNoticed
<1>11. ASSUME NEW j \in allow PROVE KeyKnown(j)'
  <2>1. j \in Inode /\ KeyKnown(j) /\ (Pending(j) => Pending(j)')
    BY <1>2 DEF IInv, TypeOK, Followed, AllKnown, Pending
  <2>2. CASE j = ino[p]
    <3>1. Tracked(p)'
      BY <1>1 DEF Tracked
    <3>. QED  BY <1>5, <2>2, <3>1 DEF KeyKnown
  <2>3. CASE j # ino[p]
    <3>1. Lost(j, Causes) <=> Lost(j, Causes)'
      BY <1>2 DEF Lost
    <3>. QED  BY <1>1, <1>2, <1>4, <1>8, <2>1, <2>3, <3>1 DEF KeyKnown
  <2>. QED  BY <2>2, <2>3
<1>12. AllKnown'
  BY <1>2, <1>11 DEF AllKnown
<1>. QED  BY <1>6, <1>7, <1>10, <1>12 DEF Followed

\* A Watch command goes to the worker.
LEMMA ArmSeedFollowed ==
  ASSUME IInv, Followed, NEW p \in Path, ArmSeed(p)
  PROVE  Followed'
<1>1. p \in toArm /\ toArm' = {} /\ cmdQ' = Append(cmdQ, Watch(p)) /\ cmdQ \in Seq(Commands)
  BY DEF ArmSeed, IInv, TypeOK
<1>2. UNCHANGED <<fate, ino, table, allow, toRegister, cPc, cTodo, cCur, cIds, sPc, sIds, sPaths,
                  watched, kq, kOverflow, batchQ, holes>>
  BY DEF ArmSeed, leaves, correlator, sync, worker, kernel
<1>3. toArm = {p}
  BY <1>1 DEF Followed, Inodes
<1>4. Watch(p) \in Commands /\ Adds(Watch(p), p) /\ \A q \in Path : ~Drops(Watch(p), q)
  BY CommandsTyped DEF Watch, Adds, Drops
<1>5. \A q \in Path : Armed(cmdQ, watched, q) \/ q = p => Armed(cmdQ', watched', q)
  BY <1>1, <1>2, <1>4, ArmedAppend
<1>6. \A q \in Path : Tracked(q) => Tracked(q)'
  BY <1>1, <1>2, <1>3, <1>5 DEF Tracked, Reaching, Resyncing
<1>7. Inodes' /\ InHand'
  BY <1>1, <1>2 DEF Followed, Inodes, InHand, Live
<1>8. AllNoticed'
  BY <1>2 DEF Followed, AllNoticed, Noticed, HasRow, Resyncing
<1>9. AllKnown'
  BY <1>2, <1>6 DEF Followed, AllKnown, KeyKnown, Pending, Lost
<1>. QED  BY <1>7, <1>8, <1>9 DEF Followed

\* What a step of the correlator task leaves alone.
LEMMA Others ==
  ASSUME UNCHANGED OtherActors
  PROVE  UNCHANGED <<fate, ino, toRegister, toArm, sPc, sIds, sPaths, watched, kq, kOverflow>>
BY DEF OtherActors, leaves, seeds, sync, worker, kernel

\* A step of the task that keeps its keys pending and its leaves in hand.
LEMMA KeysStay ==
  ASSUME IInv, Followed, UNCHANGED <<ino, toRegister>>, HolesGrow, NEW keys \in SUBSET allow,
         \A i \in keys : table'.rows[i] = table.rows[i] /\ (Pending(i) => Pending(i)'),
         \A i \in keys, p \in Path :
           table.rows[i] # NoRow /\ table.rows[i].path = p /\ Tracked(p) => Tracked(p)'
  PROVE  \A i \in keys : KeyKnown(i)'
<1>. SUFFICES ASSUME NEW i \in keys PROVE KeyKnown(i)'
  OBVIOUS
<1>1. i \in Inode /\ KeyKnown(i) /\ toRegister \subseteq Path
  BY CorrelatorAssumption DEF IInv, TypeOK, Followed, AllKnown
<1>2. Lost(i, Causes) => Lost(i, Causes)'
  BY DEF Lost, HolesGrow
<1>. QED  BY <1>1, <1>2 DEF KeyKnown

\* The keys of removed rows leave the map.
LEMMA InvalidateFollowed ==
  ASSUME IInv, Followed, Invalidate
  PROVE  Followed'
<1>1. /\ cPc = "invalidate" /\ allow' = allow \ cIds
      /\ cPc' = AfterPlan({}, cTodo) /\ UNCHANGED <<table, cTodo, cCur, cmdQ, batchQ, holes>>
      /\ UNCHANGED <<fate, ino, toRegister, toArm, sPc, sIds, sPaths, watched, kq, kOverflow>>
  BY Others DEF Invalidate
<1>2. cPc' = (IF cTodo = {} THEN "idle" ELSE "teardown") /\ cCur = {}
  BY <1>1 DEF AfterPlan, Followed, InHand
<1>3. Resyncing <=> Resyncing'
  BY <1>1, <1>2 DEF Resyncing
<1>4. \A p \in Path : Tracked(p) => Tracked(p)'
  BY <1>1, <1>2, <1>3 DEF Tracked, Reaching
<1>5. AllNoticed'
  BY <1>1, <1>3 DEF Followed, AllNoticed, Noticed, HasRow
<1>6. AllKnown'
  <2>1. allow' \in SUBSET allow /\ \A i \in allow' : Pending(i) => Pending(i)'
    BY <1>1 DEF Pending
  <2>. QED  BY <1>1, <1>4, <2>1, KeysStay DEF HolesGrow, AllKnown
<1>7. Inodes' /\ InHand'
  BY <1>1, <1>2 DEF Followed, Inodes, InHand, Live
<1>. QED  BY <1>5, <1>6, <1>7 DEF Followed

\* The pods are listed, or the list fails and the leaves that are gone are lost.
LEMMA ListPodsFollowed ==
  ASSUME IInv, Followed, ListPods
  PROVE  Followed'
<1>1. /\ cPc \in {"start", "resync"} /\ cPc' = "sweep"
      /\ UNCHANGED <<table, allow, cTodo, cCur, cIds, cmdQ, batchQ, holes>>
      /\ UNCHANGED <<fate, ino, toRegister, toArm, sPc, sIds, sPaths, watched, kq, kOverflow>>
  BY Others DEF ListPods
<1>2. Resyncing /\ Resyncing'
  BY <1>1 DEF Resyncing
<1>3. \A p \in Path : Tracked(p) => Tracked(p)'
  BY <1>1, <1>2 DEF Tracked, Reaching
<1>4. AllNoticed'
  BY <1>1, <1>2 DEF Followed, AllNoticed, Noticed, HasRow
<1>5. AllKnown'
  BY <1>1, <1>3, KeysStay DEF HolesGrow, AllKnown, Pending
<1>6. Inodes' /\ InHand'
  BY <1>1 DEF Followed, Inodes, InHand, Live
<1>. QED  BY <1>4, <1>5, <1>6 DEF Followed

\* Every leaf of an ended task, and every leaf that a failed resync misses, has
\* its cause on record.
LEMMA ResyncFailsFollowed ==
  ASSUME IInv, Followed, ResyncFails
  PROVE  Followed'
<1>1. /\ cPc \in {"start", "resync"} /\ cPc' = IF cPc = "start" THEN "dead" ELSE "idle"
      /\ UNCHANGED <<table, allow, cTodo, cCur, cIds, cmdQ, batchQ>>
      /\ UNCHANGED <<fate, ino, toRegister, toArm, sPc, sIds, sPaths, watched, kq, kOverflow>>
  BY Others DEF ResyncFails
<1>2. \A p \in Path : /\ holes[p] \subseteq holes'[p]
                      /\ cPc' = "dead" => "dead" \in holes'[p]
                      /\ fate[p] = "gone" => holes'[p] # {}
  BY <1>1 DEF ResyncFails
<1>3. \A p \in Path : Noticed(p)' /\ (Tracked(p) => Tracked(p)')
  BY <1>1, <1>2 DEF Tracked, Noticed, Reaching
<1>4. AllNoticed'
  BY <1>3 DEF AllNoticed
<1>5. AllKnown'
  BY <1>1, <1>2, <1>3, KeysStay DEF HolesGrow, AllKnown, Pending
<1>6. Inodes' /\ InHand'
  BY <1>1, <1>2 DEF Followed, Inodes, InHand, Live
<1>. QED  BY <1>4, <1>5, <1>6 DEF Followed

\* Rows that a step removes lose their key soon: it is pending.
LEMMA RemovedRows ==
  ASSUME IInv, NEW ids \in SUBSET Ids(table), table' = RemoveRows(table, ids)
  PROVE  /\ \A i \in Inode : table'.rows[i] = IF i \in ids THEN NoRow ELSE table.rows[i]
         /\ \A p \in Path : HasRow(p)' => HasRow(p)
<1>1. \A i \in Inode : table'.rows[i] = IF i \in ids THEN NoRow ELSE table.rows[i]
  BY RemoveRowsIs DEF IInv, TableOK
<1>. QED  BY <1>1 DEF HasRow

\* A sweep leaves rows of live leaves only, and watches them all again.
LEMMA SweepFollowed ==
  ASSUME IInv, Followed, Sweep
  PROVE  Followed'
<1>1. /\ cPc \in {"start", "resync", "sweep"} /\ cIds' = Swept /\ cPc' = AfterPlan(Swept, {})
      /\ table' = RemoveRows(table, Swept) /\ UNCHANGED <<allow, cTodo, cCur, batchQ, holes>>
      /\ UNCHANGED <<fate, ino, toRegister, toArm, sPc, sIds, sPaths, watched, kq, kOverflow>>
  BY Others DEF Sweep
<1>2. Swept \in SUBSET Ids(table)
  BY DEF Swept, Missing, Unlisted
<1>3. /\ \A i \in Inode : table'.rows[i] = IF i \in Swept THEN NoRow ELSE table.rows[i]
      /\ \A p \in Path : HasRow(p)' => HasRow(p)
  BY <1>1, <1>2, RemovedRows
<1>4. cPc' = (IF Swept = {} THEN "idle" ELSE "invalidate") /\ cCur = {}
  BY <1>1 DEF AfterPlan, Followed, InHand
<1>5. ASSUME NEW i \in Inode, table'.rows[i] # NoRow
      PROVE  /\ table'.rows[i] = table.rows[i] /\ i \in Ids(table) \ Swept
             /\ Live(table.rows[i].path) /\ table.rows[i].path \in Path
  <2>1. i \notin Swept /\ table'.rows[i] = table.rows[i]
    BY <1>3, <1>5
  <2>2. i \in Ids(table)
    BY <1>5, <2>1 DEF Ids
  <2>. QED  BY <1>5, <2>1, <2>2, RowPath DEF Swept, Missing
<1>6. AllNoticed'
  <2>1. \A p \in Path : HasRow(p)' => Live(p)
    BY <1>5 DEF HasRow
  <2>. QED  BY <1>1, <1>4, <2>1 DEF AllNoticed, Noticed, Live
<1>7. ASSUME NEW i \in Inode, table'.rows[i] # NoRow, NEW p \in Path, p = table.rows[i].path
      PROVE  Tracked(p)'
  <2>. DEFINE c == Rearm(PathsOf(table, Ids(table) \ Swept))
  <2>1. p \in Path /\ i \in Ids(table) \ Swept
    BY <1>5, <1>7
  <2>2. Ids(table) # Swept /\ cmdQ' = Append(cmdQ, c) /\ cmdQ \in Seq(Commands)
    BY <2>1 DEF Sweep, IInv, TypeOK
  <2>3. c \in Commands
    <3>1. Ids(table) \ Swept \in SUBSET Ids(table) /\ table \in Tables
      BY DEF IInv, TableOK
    <3>2. PathsOf(table, Ids(table) \ Swept) \in SUBSET Path
      BY <3>1, RemoveRowsIs
    <3>. QED  BY <3>2, CommandsTyped
  <2>4. Adds(c, p)
    BY <1>7, <2>1 DEF Adds, Rearm, PathsOf
  <2>5. Armed(cmdQ', watched', p)
    BY <2>1, <2>2, <2>3, <2>4, ArmedAppend
  <2>. QED  BY <2>5 DEF Tracked
<1>8. ASSUME NEW i \in allow PROVE KeyKnown(i)'
  <2>1. i \in Inode /\ KeyKnown(i)
    BY DEF IInv, TypeOK, Followed, AllKnown
  <2>2. CASE i \in Swept
    BY <1>1, <1>4, <2>2 DEF KeyKnown, Pending
  <2>3. CASE table'.rows[i] # NoRow
    <3>1. PICK p \in Path : p = table.rows[i].path
      BY <1>5, <2>1, <2>3
    <3>2. Tracked(p)' /\ table'.rows[i].path = p
      BY <1>5, <1>7, <2>1, <2>3, <3>1
    <3>. QED  BY <2>3, <3>2 DEF KeyKnown
  <2>4. CASE i \notin Swept /\ table'.rows[i] = NoRow
    <3>1. table.rows[i] = NoRow
      BY <1>3, <2>1, <2>4
    <3>2. (Pending(i) => Pending(i)') /\ (Lost(i, Causes) <=> Lost(i, Causes)')
      BY <1>1 DEF Pending, Lost
    <3>. QED  BY <1>1, <2>1, <2>4, <3>1, <3>2 DEF KeyKnown
  <2>. QED  BY <2>2, <2>3, <2>4
<1>9. AllKnown'
  BY <1>1, <1>8 DEF AllKnown
<1>10. Inodes' /\ InHand'
  BY <1>1, <1>4 DEF Followed, Inodes, InHand, Live
<1>. QED  BY <1>6, <1>9, <1>10 DEF Followed

\* A batch that is taken goes to the table, or starts a sweep.
LEMMA TakeBatchFollowed ==
  ASSUME IInv, Followed, TakeBatch
  PROVE  Followed'
<1>1. /\ cPc = "idle" /\ batchQ # <<>> /\ batchQ' = Tail(batchQ) /\ batchQ \in Seq(Batches)
      /\ \/ Head(batchQ).overflow /\ cPc' = "resync" /\ UNCHANGED cTodo
         \/ ~Head(batchQ).overflow /\ cPc' = "teardown" /\ cTodo' = Head(batchQ).paths
      /\ UNCHANGED <<table, allow, cCur, cIds, cmdQ, holes>>
      /\ UNCHANGED <<fate, ino, toRegister, toArm, sPc, sIds, sPaths, watched, kq, kOverflow>>
  BY Others DEF TakeBatch, InLoop, IInv, TypeOK
<1>2. /\ Len(batchQ') = Len(batchQ) - 1 /\ Len(batchQ) \in Nat \ {0} /\ Head(batchQ) = batchQ[1]
      /\ \A k \in 1 .. Len(batchQ) - 1 : batchQ'[k] = batchQ[k + 1]
  BY <1>1, Queue
<1>3. ASSUME NEW k \in 1 .. Len(batchQ), k # 1
      PROVE  k - 1 \in 1 .. Len(batchQ') /\ batchQ'[k - 1] = batchQ[k]
  BY <1>2, <1>3
<1>4. Resyncing => Resyncing'
  BY <1>1, <1>2, <1>3 DEF Resyncing
<1>5. \A p \in Path : Reaching(p) => Reaching(p)'
  <2>1. ASSUME NEW p \in Path, NEW k \in 1 .. Len(batchQ), p \in batchQ[k].paths
        PROVE  Reaching(p)'
    <3>1. CASE k = 1
      BY <1>1, <1>2, <2>1, <3>1 DEF Reaching, Resyncing
    <3>2. CASE k # 1
      BY <1>3, <2>1, <3>2 DEF Reaching
    <3>. QED  BY <3>1, <3>2
  <2>. QED  BY <1>1, <1>4, <2>1 DEF Reaching
<1>6. \A p \in Path : Tracked(p) => Tracked(p)'
  BY <1>1, <1>5 DEF Tracked
<1>7. AllNoticed'
  BY <1>1, <1>4 DEF Followed, AllNoticed, Noticed, HasRow
<1>8. AllKnown'
  BY <1>1, <1>6, KeysStay DEF HolesGrow, AllKnown, Pending
<1>9. Inodes' /\ InHand'
  BY <1>1 DEF Followed, Inodes, InHand, Live
<1>. QED  BY <1>7, <1>8, <1>9 DEF Followed

\* A teardown or the removal of a pod: the keys of the rows are pending, and the
\* paths that are no longer watched have no row.
LEMMA RemovalFollowed ==
  ASSUME IInv, Followed, UNCHANGED <<OtherActors, allow, cCur, batchQ, holes>>,
         NEW ids \in SUBSET Ids(table), table' = RemoveRows(table, ids), cIds' = ids,
         cPc \in {"idle", "teardown"}, cPc' \in {"invalidate", "teardown", "idle"},
         ids # {} => cPc' = "invalidate",
         NEW ps \in SUBSET Path, cmdQ' = cmdQ \/ cmdQ' = Append(cmdQ, Unwatch(ps)),
         \A p \in ps : ~HasRow(p)',
         \A p \in cTodo : HasRow(p)' /\ cPc = "teardown" =>
                            p \in cTodo' /\ cPc' \in {"teardown", "invalidate"}
  PROVE  Followed'
<1>1. UNCHANGED <<fate, ino, toRegister, toArm, sPc, sIds, sPaths, watched, kq, kOverflow>>
  BY Others
<1>2. /\ \A i \in Inode : table'.rows[i] = IF i \in ids THEN NoRow ELSE table.rows[i]
      /\ \A p \in Path : HasRow(p)' => HasRow(p)
  BY RemovedRows
<1>3. cCur = {}
  BY DEF Followed, InHand
<1>4. Resyncing <=> Resyncing'
  BY <1>1 DEF Resyncing
<1>5. AllNoticed'
  BY <1>1, <1>2, <1>3, <1>4 DEF Followed, AllNoticed, Noticed
<1>6. ASSUME NEW p \in Path, HasRow(p)', Tracked(p) PROVE Tracked(p)'
  <2>1. Armed(cmdQ, watched, p) => Armed(cmdQ', watched', p)
    <3>1. cmdQ \in Seq(Commands) /\ Unwatch(ps) \in Commands
      BY CommandsTyped DEF IInv, TypeOK
    <3>2. ~Drops(Unwatch(ps), p)
      BY <1>6 DEF Drops, Unwatch
    <3>. QED  BY <1>1, <3>1, <3>2, ArmedAppend
  <2>2. Reaching(p) => Reaching(p)'
    BY <1>4, <1>6 DEF Reaching
  <2>. QED  BY <1>1, <1>6, <2>1, <2>2 DEF Tracked
<1>7. \A i \in allow \cap ids : KeyKnown(i)'
  BY DEF KeyKnown, Pending
<1>8. \A i \in allow \ ids : KeyKnown(i)'
  <2>1. \A i \in allow \ ids : i \in Inode /\ table'.rows[i] = table.rows[i]
    BY <1>2 DEF IInv, TypeOK
  <2>2. \A i \in allow \ ids : Pending(i) => Pending(i)'
    BY <1>1 DEF Pending
  <2>3. \A i \in allow \ ids, p \in Path :
          table.rows[i] # NoRow /\ table.rows[i].path = p => HasRow(p)'
    BY <2>1 DEF HasRow
  <2>4. HolesGrow /\ allow \ ids \in SUBSET allow
    BY DEF HolesGrow
  <2>. QED  BY <1>1, <1>6, <2>1, <2>2, <2>3, <2>4, KeysStay
<1>9. AllKnown'
  BY <1>7, <1>8 DEF AllKnown
<1>10. Inodes' /\ InHand'
  BY <1>1, <1>3 DEF Followed, Inodes, InHand, Live
<1>. QED  BY <1>5, <1>9, <1>10 DEF Followed

\* The removal of a leaf reaches the table.
LEMMA TeardownFollowed ==
  ASSUME IInv, Followed, Teardown
  PROVE  Followed'
<1>1. PICK p \in cTodo :
        /\ cTodo' = cTodo \ {p} /\ cIds' = TornDownIds(p)
        /\ table' = IF table.byPath[p] = NoInode THEN table
                    ELSE RemoveRows(table, {table.byPath[p]})
        /\ cmdQ' = Append(cmdQ, Unwatch({p}))
        /\ cPc' = AfterPlan(TornDownIds(p), cTodo \ {p})
  BY DEF Teardown
<1>2. cPc = "teardown" /\ UNCHANGED <<OtherActors, allow, cCur, batchQ, holes>> /\ p \in Path
  BY DEF Teardown, IInv, TypeOK
<1>3. table \in Tables /\ Coherent(table) /\ table.byPath[p] \in Inode \cup {NoInode}
  BY <1>2 DEF IInv, TableOK, Tables
<1>4. TornDownIds(p) \in SUBSET Ids(table) /\ table' = RemoveRows(table, TornDownIds(p))
  <2>1. CASE table.byPath[p] = NoInode
    <3>1. TornDownIds(p) = {} /\ table' = table
      BY <1>1, <2>1 DEF TornDownIds
    <3>2. /\ table = [rows |-> table.rows, byPod |-> table.byPod, byPath |-> table.byPath]
          /\ table.rows = [i \in Inode |-> table.rows[i]]
          /\ table.byPod = [d \in Pod |-> table.byPod[d]]
          /\ table.byPath = [q \in Path |-> table.byPath[q]]
      BY <1>3 DEF Tables
    <3>3. RemoveRows(table, {}) = table
      BY <3>2 DEF RemoveRows, PathsOf
    <3>. QED  BY <3>1, <3>3
  <2>2. CASE table.byPath[p] # NoInode
    BY <1>1, <1>2, <1>3, <2>2 DEF TornDownIds, Coherent, Ids
  <2>. QED  BY <2>1, <2>2
<1>5. ~HasRow(p)'
  <2>1. \A i \in Inode : table.rows[i] # NoRow /\ table.rows[i].path = p => i \in TornDownIds(p)
    BY <1>2, <1>3, SideTableAssumption DEF Coherent, TornDownIds
  <2>2. \A i \in Inode : table'.rows[i] = IF i \in TornDownIds(p) THEN NoRow ELSE table.rows[i]
    BY <1>4, RemovedRows
  <2>. QED  BY <2>1, <2>2 DEF HasRow
<1>6. /\ cPc' \in {"invalidate", "teardown", "idle"}
      /\ TornDownIds(p) # {} => cPc' = "invalidate"
      /\ cTodo' # {} => cPc' \in {"teardown", "invalidate"}
  BY <1>1 DEF AfterPlan
<1>7. \A q \in cTodo : HasRow(q)' => q \in cTodo' /\ cPc' \in {"teardown", "invalidate"}
  BY <1>1, <1>5, <1>6
<1>8. {p} \in SUBSET Path /\ \A q \in {p} : ~HasRow(q)'
  BY <1>2, <1>5
<1>. QED  BY <1>1, <1>2, <1>4, <1>6, <1>7, <1>8, RemovalFollowed

\* The rows of a pod go.
LEMMA RemovePodFollowed ==
  ASSUME IInv, Followed, NEW d \in Pod, RemovePod(d), cPc = "idle",
         UNCHANGED <<OtherActors, allow, cCur, batchQ, holes>>
  PROVE  Followed'
<1>. DEFINE ids == IdsOfPod(table, d)
            ps == PathsOf(table, ids)
<1>1. /\ ids \in SUBSET Ids(table) /\ table' = RemoveRows(table, ids) /\ cIds' = ids
      /\ cmdQ' = cmdQ \/ cmdQ' = Append(cmdQ, Unwatch(ps))
      /\ cPc' = AfterPlan(ids, {})
  BY RemoveByPodIs DEF RemovePod, IInv, TableOK
<1>2. ps \in SUBSET Path
  BY <1>1, RemoveRowsIs DEF IInv, TableOK
<1>3. \A i \in Inode : table'.rows[i] = IF i \in ids THEN NoRow ELSE table.rows[i]
  BY <1>1, RemovedRows
<1>. HIDE DEF ids
<1>4. ASSUME NEW p \in ps PROVE ~HasRow(p)'
  <2>1. PICK i \in ids : p = table.rows[i].path
    BY <1>4 DEF PathsOf
  <2>2. ino[p] = i /\ i \in Inode
    BY <1>1, <2>1, RowPath DEF Ids
  <2>3. ASSUME NEW j \in Inode, table'.rows[j] # NoRow, table'.rows[j].path = p PROVE FALSE
    <3>1. j \notin ids /\ table'.rows[j] = table.rows[j]
      BY <1>3, <2>3
    <3>2. ino[p] = j
      BY <2>3, <3>1, RowPath
    <3>. QED  BY <2>2, <3>1, <3>2
  <2>. QED  BY <2>3 DEF HasRow
<1>5. cPc' \in {"invalidate", "teardown", "idle"} /\ (ids # {} => cPc' = "invalidate")
  BY <1>1 DEF AfterPlan
<1>. QED  BY <1>1, <1>2, <1>4, <1>5, RemovalFollowed

\* Pod events: the rows go, or the containers are looked at one by one.
LEMMA PodEventFollowed ==
  ASSUME IInv, Followed, TakeDeleted \/ TakeUpsert
  PROVE  Followed'
<1>1. /\ cPc = "idle" /\ podQ # <<>> /\ podQ \in Seq(PodEvents)
      /\ UNCHANGED <<OtherActors, allow, cCur, batchQ, holes>>
      /\ \/ RemovePod(Head(podQ).pod)
         \/ /\ cPc' = NextContainer(Head(podQ).paths)
            /\ UNCHANGED <<table, cIds, cmdQ>>
  BY DEF TakeDeleted, TakeUpsert, TakePod, InLoop, IInv, TypeOK
<1>2. CASE RemovePod(Head(podQ).pod)
  <2>1. Head(podQ) \in PodEvents
    BY <1>1, Queue
  <2>2. Head(podQ).pod \in Pod
    BY <2>1 DEF PodEvents
  <2>. QED  BY <1>1, <1>2, <2>2, RemovePodFollowed
<1>3. CASE cPc' = NextContainer(Head(podQ).paths) /\ UNCHANGED <<table, cIds, cmdQ>>
  <2>1. cPc' \in {"idle", "containers"} /\ cCur = {}
    BY <1>1, <1>3, NextPc DEF Followed, InHand
  <2>2. UNCHANGED <<fate, ino, toRegister, toArm, sPc, sIds, sPaths, watched, kq, kOverflow>>
    BY <1>1, Others
  <2>3. Resyncing <=> Resyncing'
    BY <1>1, <2>1, <2>2 DEF Resyncing
  <2>4. \A p \in Path : Tracked(p) => Tracked(p)'
    BY <1>1, <1>3, <2>1, <2>2, <2>3 DEF Tracked, Reaching
  <2>5. AllNoticed'
    BY <1>1, <1>3, <2>2, <2>3 DEF Followed, AllNoticed, Noticed, HasRow
  <2>6. AllKnown'
    BY <1>1, <1>3, <2>2, <2>4, KeysStay DEF HolesGrow, AllKnown, Pending
  <2>7. Inodes' /\ InHand'
    BY <1>1, <1>3, <2>1, <2>2 DEF Followed, Inodes, InHand, Live
  <2>. QED  BY <2>5, <2>6, <2>7 DEF Followed
<1>. QED  BY <1>1, <1>2, <1>3

\* While a container is worked on no removal is being handed over.
LEMMA Containers ==
  ASSUME IInv, Followed, UNCHANGED <<OtherActors, batchQ>>, HolesGrow,
         cPc \in Reconciling, cPc' \in Reconciling \cup {"idle"},
         NEW p \in Path, p \in cCur \/ Armed(cmdQ, watched, p) =>
                           p \in cCur' \/ Armed(cmdQ', watched', p)
  PROVE  (Tracked(p) => Tracked(p)') /\ (Noticed(p) => Noticed(p)')
<1>1. UNCHANGED <<fate, ino, toRegister, toArm, sPc, sIds, sPaths, watched, kq, kOverflow>>
  BY Others
<1>2. Resyncing <=> Resyncing'
  BY <1>1 DEF Resyncing, Reconciling
<1>3. holes[p] \subseteq holes'[p]
  BY DEF HolesGrow
<1>4. Reaching(p) => Reaching(p)'
  BY <1>2, <1>3 DEF Reaching, Reconciling
<1>5. Tracked(p) => Tracked(p)'
  BY <1>1, <1>3, <1>4 DEF Tracked, Reconciling
<1>6. Noticed(p) => Noticed(p)'
  BY <1>1, <1>2, <1>3 DEF Noticed
<1>. QED  BY <1>5, <1>6

\* A resolved leaf is live.
LEMMA ResolveFollowed ==
  ASSUME IInv, Followed, Resolve
  PROVE  Followed'
<1>1. /\ cPc = "containers"
      /\ UNCHANGED <<OtherActors, table, allow, cIds, cmdQ, batchQ, holes>>
      /\ UNCHANGED <<fate, ino, toRegister, toArm, sPc, sIds, sPaths, watched, kq, kOverflow>>
  BY Others DEF Resolve
<1>2. PICK p \in Path : \/ Live(p) /\ cCur' = {p} /\ cPc' = "insert"
                        \/ cPc' \in {"idle", "containers"} /\ UNCHANGED cCur
  BY NextPc DEF Resolve, IInv, TypeOK
<1>3. cCur = {} /\ HolesGrow
  BY <1>1 DEF Followed, InHand, HolesGrow
<1>4. \A q \in Path : (Tracked(q) => Tracked(q)') /\ (Noticed(q) => Noticed(q)')
  BY <1>1, <1>2, <1>3, Containers DEF Reconciling
<1>5. AllNoticed'
  <2>1. \A q \in cCur' : Noticed(q)'
    BY <1>1, <1>2, <1>3 DEF Noticed, Live
  <2>. QED  BY <1>1, <1>4, <2>1 DEF Followed, AllNoticed, HasRow
<1>6. AllKnown'
  BY <1>1, <1>3, <1>4, KeysStay DEF AllKnown, Pending
<1>7. Inodes' /\ InHand'
  BY <1>1, <1>2, <1>3 DEF Followed, Inodes, InHand, Live
<1>. QED  BY <1>5, <1>6, <1>7 DEF Followed

\* The leaf in hand gets its row; its key and its watch come next.
LEMMA InsertRowFollowed ==
  ASSUME IInv, Followed, InsertRow
  PROVE  Followed'
<1>1. /\ cPc = "insert"
      /\ UNCHANGED <<OtherActors, allow, cTodo, cIds, cmdQ, batchQ, holes>>
      /\ UNCHANGED <<fate, ino, toRegister, toArm, sPc, sIds, sPaths, watched, kq, kOverflow>>
  BY Others DEF InsertRow
<1>2. PICK p \in cCur :
        \/ /\ cPc' = "seed" /\ UNCHANGED cCur
           /\ table' = Insert(table, ino[p],
                [pod |-> PodOf[p], spiffe |-> SpiffeOf[PodOf[p]], path |-> p])
        \/ /\ ~CanInsert(p) /\ cPc' \in {"idle", "containers"} /\ cCur' = {}
           /\ UNCHANGED table
  BY NextPc DEF InsertRow
<1>3. p \in Path /\ cCur = {p} /\ ino[p] \in Inode /\ table \in Tables /\ HolesGrow
  BY <1>1 DEF IInv, TypeOK, Named, Followed, InHand, HolesGrow
<1>4. CASE cPc' = "seed" /\ UNCHANGED cCur
           /\ table' = Insert(table, ino[p],
                [pod |-> PodOf[p], spiffe |-> SpiffeOf[PodOf[p]], path |-> p])
  <2>1. \A j \in Inode : j # ino[p] => table'.rows[j] = table.rows[j]
    BY <1>3, <1>4, InsertedRows
  <2>2. table'.rows[ino[p]] # NoRow /\ table'.rows[ino[p]].path = p
    <3>1. table'.rows[ino[p]] = [pod |-> PodOf[p], spiffe |-> SpiffeOf[PodOf[p]], path |-> p]
      BY <1>3, <1>4, InsertedRows
    <3>2. table'.rows[ino[p]] \in Rows
      BY <1>3, <3>1, CorrelatorAssumption DEF Rows
    <3>. QED  BY <3>1, <3>2, SideTableAssumption
  <2>3. \A q \in Path : (Tracked(q) => Tracked(q)') /\ (Noticed(q) => Noticed(q)')
    BY <1>1, <1>3, <1>4, Containers DEF Reconciling
  <2>4. AllNoticed'
    <3>1. \A q \in Path : HasRow(q)' => HasRow(q) \/ q = p
      BY <2>1, <2>2 DEF HasRow
    <3>. QED  BY <1>3, <1>4, <2>3, <3>1 DEF Followed, AllNoticed
  <2>5. Tracked(p)'
    BY <1>3, <1>4 DEF Tracked
  <2>6. \A i \in allow \ {ino[p]} : KeyKnown(i)'
    <3>1. \A i \in allow \ {ino[p]} :
            table'.rows[i] = table.rows[i] /\ (Pending(i) => Pending(i)')
      BY <1>1, <2>1 DEF Pending, IInv, TypeOK
    <3>. QED  BY <1>1, <1>3, <2>3, <3>1, KeysStay
  <2>7. AllKnown'
    <3>1. ASSUME NEW i \in allow PROVE KeyKnown(i)'
      <4>1. CASE i = ino[p]
        BY <1>1, <2>2, <2>5, <1>3, <4>1 DEF KeyKnown
      <4>2. CASE i # ino[p]
        BY <2>6, <4>2
      <4>. QED  BY <4>1, <4>2
    <3>. QED  BY <1>1, <3>1 DEF AllKnown
  <2>8. Inodes' /\ InHand'
    BY <1>1, <1>3, <1>4, <2>2 DEF Followed, Inodes, InHand, Live
  <2>. QED  BY <2>4, <2>7, <2>8 DEF Followed
<1>5. CASE ~CanInsert(p) /\ cPc' \in {"idle", "containers"} /\ cCur' = {} /\ UNCHANGED table
  <2>1. \A q \in Path : HasRow(q) => q # p
    <3>1. table.rows[ino[p]] = NoRow
      BY <1>5 DEF CanInsert, RejectedFull
    <3>. QED  BY <3>1, RowPath DEF HasRow
  <2>2. \A q \in Path : HasRow(q) => (Tracked(q) => Tracked(q)') /\ (Noticed(q) => Noticed(q)')
    BY <1>1, <1>3, <1>5, <2>1, Containers DEF Reconciling
  <2>3. AllNoticed'
    BY <1>5, <2>2 DEF Followed, AllNoticed, HasRow
  <2>4. AllKnown'
    <3>1. \A i \in allow, q \in Path : table.rows[i] # NoRow /\ table.rows[i].path = q => HasRow(q)
      BY DEF HasRow, IInv, TypeOK
    <3>. QED  BY <1>1, <1>3, <1>5, <2>2, <3>1, KeysStay DEF AllKnown, Pending
  <2>5. Inodes' /\ InHand'
    BY <1>1, <1>5 DEF Followed, Inodes, InHand, Live
  <2>. QED  BY <2>3, <2>4, <2>5 DEF Followed
<1>. QED  BY <1>2, <1>4, <1>5

\* The key goes in: the row is still there, or the loss is on record.
LEMMA SeedFollowed ==
  ASSUME IInv, Followed, Seed
  PROVE  Followed'
<1>1. /\ cPc = "seed" /\ UNCHANGED <<OtherActors, cTodo, cIds, cmdQ, batchQ>>
      /\ UNCHANGED <<fate, ino, toRegister, toArm, sPc, sIds, sPaths, watched, kq, kOverflow>>
  BY Others DEF Seed
<1>2. PICK p \in cCur :
        \/ /\ allow' = allow \cup {ino[p]} /\ cPc' = "watch"
           /\ holes' = IF table.rows[ino[p]] = NoRow
                       THEN [holes EXCEPT ![p] = @ \cup {"lateSeed"}] ELSE holes
           /\ UNCHANGED <<table, cCur>>
        \/ /\ ino[p] \notin allow /\ cPc' \in {"idle", "containers"} /\ cCur' = {}
           /\ table' = IF table.rows[ino[p]] = NoRow THEN table
                       ELSE RemoveRows(table, {ino[p]})
           /\ UNCHANGED <<allow, holes>>
  BY NextPc DEF Seed
<1>3. /\ p \in Path /\ cCur = {p} /\ ino[p] \in Inode
      /\ table.rows[ino[p]] # NoRow => table.rows[ino[p]].path = p
      /\ holes \in [Path -> SUBSET Causes]
  BY <1>1 DEF IInv, TypeOK, Named, Followed, InHand
<1>4. CASE /\ allow' = allow \cup {ino[p]} /\ cPc' = "watch"
           /\ holes' = IF table.rows[ino[p]] = NoRow
                       THEN [holes EXCEPT ![p] = @ \cup {"lateSeed"}] ELSE holes
           /\ UNCHANGED <<table, cCur>>
  <2>1. HolesGrow /\ (table.rows[ino[p]] = NoRow => "lateSeed" \in holes'[p])
    BY <1>3, <1>4 DEF HolesGrow
  <2>2. \A q \in Path : (Tracked(q) => Tracked(q)') /\ (Noticed(q) => Noticed(q)')
    BY <1>1, <1>4, <2>1, Containers DEF Reconciling
  <2>3. AllNoticed'
    BY <1>4, <2>2 DEF Followed, AllNoticed, HasRow
  <2>4. Tracked(p)' /\ (table.rows[ino[p]] = NoRow => \E q \in Path : ino'[q] = ino[p] /\ holes'[q] \cap Causes # {})
    BY <1>1, <1>3, <1>4, <2>1 DEF Tracked, Causes
  <2>5. ASSUME NEW i \in allow' PROVE KeyKnown(i)'
    <3>1. CASE i = ino[p]
      BY <1>1, <1>3, <1>4, <2>4, <3>1 DEF KeyKnown, Lost
    <3>2. CASE i # ino[p]
      <4>1. allow \in SUBSET allow /\ i \in allow
        BY <1>4, <3>2
      <4>2. \A j \in allow : table'.rows[j] = table.rows[j] /\ (Pending(j) => Pending(j)')
        BY <1>1, <1>4 DEF Pending
      <4>. QED  BY <1>1, <2>1, <2>2, <4>1, <4>2, KeysStay
    <3>. QED  BY <3>1, <3>2
  <2>6. AllKnown'
    BY <2>5 DEF AllKnown
  <2>7. Inodes' /\ InHand'
    BY <1>1, <1>3, <1>4 DEF Followed, Inodes, InHand, Live
  <2>. QED  BY <2>3, <2>6, <2>7 DEF Followed
<1>5. CASE /\ ino[p] \notin allow /\ cPc' \in {"idle", "containers"} /\ cCur' = {}
           /\ table' = IF table.rows[ino[p]] = NoRow THEN table
                       ELSE RemoveRows(table, {ino[p]})
           /\ UNCHANGED <<allow, holes>>
  <2>1. /\ table'.rows[ino[p]] = NoRow
        /\ \A i \in Inode : i # ino[p] => table'.rows[i] = table.rows[i]
    <3>1. CASE table.rows[ino[p]] = NoRow
      BY <1>5, <3>1
    <3>2. CASE table.rows[ino[p]] # NoRow
      <4>1. {ino[p]} \in SUBSET Ids(table)
        BY <1>3, <3>2 DEF Ids
      <4>2. table' = RemoveRows(table, {ino[p]})
        BY <1>5, <3>2
      <4>3. \A i \in Inode : table'.rows[i] = IF i \in {ino[p]} THEN NoRow ELSE table.rows[i]
        BY <4>1, <4>2, RemovedRows
      <4>. QED  BY <1>3, <4>3
    <3>. QED  BY <3>1, <3>2
  <2>2. \A q \in Path : HasRow(q)' => HasRow(q) /\ q # p
    BY <2>1, RowPath DEF HasRow
  <2>3. \A q \in Path : q # p => (Tracked(q) => Tracked(q)') /\ (Noticed(q) => Noticed(q)')
    BY <1>1, <1>3, <1>5, Containers DEF Reconciling, HolesGrow
  <2>4. AllNoticed'
    BY <1>5, <2>2, <2>3 DEF Followed, AllNoticed
  <2>5. AllKnown'
    <3>1. \A i \in allow : i \in Inode /\ table'.rows[i] = table.rows[i]
      BY <1>5, <2>1 DEF IInv, TypeOK
    <3>2. \A i \in allow, q \in Path : table.rows[i] # NoRow /\ table.rows[i].path = q => q # p
      BY <1>5, <3>1, RowPath
    <3>3. \A i \in allow : Pending(i) => Pending(i)'
      BY <1>1 DEF Pending
    <3>4. HolesGrow /\ allow \in SUBSET allow
      BY <1>5 DEF HolesGrow
    <3>. QED  BY <1>1, <1>5, <2>3, <3>1, <3>2, <3>3, <3>4, KeysStay DEF AllKnown
  <2>6. Inodes' /\ InHand'
    BY <1>1, <1>5 DEF Followed, Inodes, InHand, Live
  <2>. QED  BY <2>4, <2>5, <2>6 DEF Followed
<1>. QED  BY <1>2, <1>4, <1>5

\* The watch of the leaf in hand is on its way.
LEMMA SendWatchFollowed ==
  ASSUME IInv, Followed, SendWatch
  PROVE  Followed'
<1>1. /\ cPc = "watch" /\ cCur' = {} /\ cPc' \in {"idle", "containers"}
      /\ UNCHANGED <<OtherActors, table, allow, cTodo, cIds, batchQ, holes>>
      /\ UNCHANGED <<fate, ino, toRegister, toArm, sPc, sIds, sPaths, watched, kq, kOverflow>>
  BY Others, NextPc DEF SendWatch
<1>2. PICK p \in cCur : cmdQ' = Append(cmdQ, Watch(p))
  BY DEF SendWatch
<1>3. p \in Path /\ cCur = {p} /\ cmdQ \in Seq(Commands) /\ HolesGrow
  BY <1>1 DEF IInv, TypeOK, Followed, InHand, HolesGrow
<1>4. Watch(p) \in Commands /\ Adds(Watch(p), p) /\ \A q \in Path : ~Drops(Watch(p), q)
  BY <1>3, CommandsTyped DEF Watch, Adds, Drops
<1>5. \A q \in Path : q \in cCur \/ Armed(cmdQ, watched, q) => Armed(cmdQ', watched', q)
  BY <1>1, <1>2, <1>3, <1>4, ArmedAppend
<1>6. \A q \in Path : (Tracked(q) => Tracked(q)') /\ (Noticed(q) => Noticed(q)')
  BY <1>1, <1>3, <1>5, Containers DEF Reconciling
<1>7. AllNoticed'
  BY <1>1, <1>6 DEF Followed, AllNoticed, HasRow
<1>8. AllKnown'
  BY <1>1, <1>3, <1>6, KeysStay DEF AllKnown, Pending
<1>9. Inodes' /\ InHand'
  BY <1>1 DEF Followed, Inodes, InHand, Live
<1>. QED  BY <1>7, <1>8, <1>9 DEF Followed

-----------------------------------------------------------------------------
\* What a step of the policy-sync task leaves alone.
LEMMA BesidesSync ==
  ASSUME UNCHANGED BesideSync
  PROVE  UNCHANGED <<fate, ino, toRegister, toArm, cPc, cTodo, cCur, cIds, watched, kq,
                     kOverflow, batchQ, holes>>
BY DEF BesideSync, leaves, seeds, correlator, worker, kernel

\* A revocation: the keys of its rows are pending until the paths are unwatched.
LEMMA RevokeFollowed ==
  ASSUME IInv, Followed, Revoke
  PROVE  Followed'
<1>1. /\ sPc # "unwatch" /\ sIds' = RevokePlan /\ sPaths' = PathsOf(table, RevokePlan)
      /\ table' = RemoveRows(table, RevokePlan) /\ UNCHANGED <<allow, cmdQ>>
      /\ sPc' = IF RevokePlan = {} THEN "idle" ELSE "unwatch"
      /\ UNCHANGED <<fate, ino, toRegister, toArm, cPc, cTodo, cCur, cIds, watched, kq,
                     kOverflow, batchQ, holes>>
  BY BesidesSync DEF Revoke
<1>2. RevokePlan \in SUBSET Ids(table)
  BY DEF RevokePlan, Revoked
<1>3. /\ \A i \in Inode : table'.rows[i] = IF i \in RevokePlan THEN NoRow ELSE table.rows[i]
      /\ \A p \in Path : HasRow(p)' => HasRow(p)
  BY <1>1, <1>2, RemovedRows
<1>4. \A p \in Path : (Noticed(p) <=> Noticed(p)') /\ (Tracked(p) <=> Tracked(p)')
  BY <1>1 DEF Noticed, Tracked, Armed, Reaching, Resyncing
<1>5. AllNoticed'
  BY <1>1, <1>3, <1>4 DEF Followed, AllNoticed
<1>6. \A i \in allow \cap RevokePlan : KeyKnown(i)'
  BY <1>1 DEF KeyKnown, Pending
<1>7. \A i \in allow \ RevokePlan : KeyKnown(i)'
  <2>1. \A i \in allow \ RevokePlan :
          table'.rows[i] = table.rows[i] /\ (Pending(i) => Pending(i)')
    BY <1>1, <1>3 DEF IInv, TypeOK, Pending
  <2>2. HolesGrow /\ allow \ RevokePlan \in SUBSET allow
    BY <1>1 DEF HolesGrow
  <2>. QED  BY <1>1, <1>4, <2>1, <2>2, KeysStay
<1>8. AllKnown'
  BY <1>1, <1>6, <1>7 DEF AllKnown
<1>9. \A p \in sPaths' : ino[p] \in sIds'
  BY <1>1, <1>2, RowPath DEF PathsOf, Ids
<1>10. cPc = "seed" => \A p \in cCur : table'.rows[ino[p]] # NoRow => table'.rows[ino[p]].path = p
  <2>1. \A p \in cCur : ino[p] \in Inode
    BY DEF IInv, TypeOK, Named
  <2>. QED  BY <1>3, <2>1 DEF Followed, InHand
<1>11. Inodes' /\ InHand'
  BY <1>1, <1>9, <1>10 DEF Followed, Inodes, InHand, Live
<1>. QED  BY <1>5, <1>8, <1>11 DEF Followed

\* An Unwatch command may come after a new Watch of the path: then the key of the
\* path is pending, and goes with the next step.
LEMMA AfterRevokeFollowed ==
  ASSUME IInv, Followed, SendUnwatch \/ RevokeKeys
  PROVE  Followed'
<1>1. /\ UNCHANGED table /\ sPc = "unwatch"
      /\ UNCHANGED <<fate, ino, toRegister, toArm, cPc, cTodo, cCur, cIds, watched, kq,
                     kOverflow, batchQ, holes>>
  BY BesidesSync DEF SendUnwatch, RevokeKeys
<1>2. AllNoticed'
  BY <1>1 DEF Followed, AllNoticed, HasRow, Noticed, Resyncing
<1>3. CASE SendUnwatch
  <2>1. /\ UNCHANGED <<allow, sPc, sIds>> /\ cmdQ \in Seq(Commands)
        /\ \E p \in sPaths : sPaths' = sPaths \ {p} /\ cmdQ' = Append(cmdQ, Unwatch({p}))
    BY <1>3 DEF SendUnwatch, IInv, TypeOK
  <2>2. PICK p \in sPaths : sPaths' = sPaths \ {p} /\ cmdQ' = Append(cmdQ, Unwatch({p}))
    BY <2>1
  <2>3. p \in Path /\ ino[p] \in sIds
    BY <1>1, <2>2 DEF IInv, TypeOK, Followed, InHand
  <2>4. ASSUME NEW q \in Path, q # p, Tracked(q) PROVE Tracked(q)'
    <3>1. Unwatch({p}) \in Commands /\ ~Drops(Unwatch({p}), q)
      BY <2>3, <2>4, CommandsTyped DEF Unwatch, Drops
    <3>2. Armed(cmdQ, watched, q) => Armed(cmdQ', watched', q)
      BY <1>1, <2>1, <2>2, <3>1, ArmedAppend
    <3>. QED  BY <1>1, <2>4, <3>2 DEF Tracked, Reaching, Resyncing
  <2>5. \A i \in allow \cap sIds : KeyKnown(i)'
    BY <1>1, <2>1 DEF KeyKnown, Pending
  <2>6. \A i \in allow \ sIds : KeyKnown(i)'
    <3>1. \A i \in allow \ sIds, q \in Path :
            table.rows[i] # NoRow /\ table.rows[i].path = q => q # p
      BY <2>3, RowPath DEF IInv, TypeOK
    <3>2. \A i \in allow \ sIds : table'.rows[i] = table.rows[i] /\ (Pending(i) => Pending(i)')
      BY <1>1, <2>1 DEF Pending
    <3>3. HolesGrow /\ allow \ sIds \in SUBSET allow
      BY <1>1 DEF HolesGrow
    <3>. QED  BY <1>1, <2>4, <3>1, <3>2, <3>3, KeysStay
  <2>7. AllKnown'
    BY <2>1, <2>5, <2>6 DEF AllKnown
  <2>8. Inodes' /\ InHand'
    BY <1>1, <2>1, <2>2 DEF Followed, Inodes, InHand, Live
  <2>. QED  BY <1>2, <2>7, <2>8 DEF Followed
<1>4. CASE RevokeKeys
  <2>1. allow' = allow \ sIds /\ sPc' = "idle" /\ UNCHANGED cmdQ
    BY <1>4 DEF RevokeKeys
  <2>2. \A p \in Path : Tracked(p) => Tracked(p)'
    BY <1>1, <2>1 DEF Tracked, Reaching, Resyncing, Armed
  <2>3. \A i \in allow' : KeyKnown(i)'
    <3>1. \A i \in allow' : table'.rows[i] = table.rows[i] /\ (Pending(i) => Pending(i)')
      BY <1>1, <2>1 DEF Pending
    <3>2. HolesGrow /\ allow' \in SUBSET allow
      BY <1>1, <2>1 DEF HolesGrow
    <3>. QED  BY <1>1, <2>2, <3>1, <3>2, KeysStay
  <2>4. AllKnown'
    BY <2>3 DEF AllKnown
  <2>5. Inodes' /\ InHand'
    BY <1>1, <2>1 DEF Followed, Inodes, InHand, Live
  <2>. QED  BY <1>2, <2>4, <2>5 DEF Followed
<1>. QED  BY <1>3, <1>4

-----------------------------------------------------------------------------
\* What a step of the worker leaves alone.
LEMMA BesidesWorker ==
  ASSUME UNCHANGED BesideWorker
  PROVE  UNCHANGED <<fate, ino, table, allow, toRegister, toArm, cPc, cTodo, cCur, cIds,
                     sPc, sIds, sPaths>>
BY DEF BesideWorker, leaves, seeds, correlator, sync

\* What the worker's steps have to keep.
LEMMA WorkerFollowed ==
  ASSUME IInv, Followed, UNCHANGED BesideWorker, HolesGrow,
         \A p \in kq' : p \in kq,
         \A p \in Path : p \in cCur \/ HasRow(p) =>
           (Noticed(p) => Noticed(p)') /\ (Tracked(p) => Tracked(p)')
  PROVE  Followed'
<1>1. UNCHANGED <<fate, ino, table, allow, toRegister, toArm, cPc, cTodo, cCur, cIds,
                  sPc, sIds, sPaths>>
  BY BesidesWorker
<1>2. AllNoticed'
  BY <1>1 DEF Followed, AllNoticed, HasRow
<1>3. AllKnown'
  <2>1. \A i \in allow : table'.rows[i] = table.rows[i] /\ (Pending(i) => Pending(i)')
    BY <1>1 DEF Pending
  <2>2. \A i \in allow, p \in Path : table.rows[i] # NoRow /\ table.rows[i].path = p => HasRow(p)
    BY DEF HasRow, IInv, TypeOK
  <2>. QED  BY <1>1, <2>1, <2>2, KeysStay DEF AllKnown
<1>4. Inodes' /\ InHand'
  BY <1>1 DEF Followed, Inodes, InHand, Live, HolesGrow
<1>. QED  BY <1>2, <1>3, <1>4 DEF Followed

\* A command: a leaf it fails to watch has its cause on record.
LEMMA CommandFollowed ==
  ASSUME IInv, Followed, Command
  PROVE  Followed'
<1>1. /\ UNCHANGED <<BesideWorker, kOverflow, batchQ>> /\ cmdQ # <<>> /\ cmdQ' = Tail(cmdQ)
      /\ cmdQ \in Seq(Commands) /\ holes \in [Path -> SUBSET Causes]
      /\ fate \in [Path -> {"unborn", "live", "gone"}]
  BY DEF Command, IInv, TypeOK
<1>2. UNCHANGED <<fate, ino, table, allow, toRegister, toArm, cPc, cTodo, cCur, cIds,
                  sPc, sIds, sPaths>>
  BY <1>1, BesidesWorker
<1>3. Resyncing <=> Resyncing'
  BY <1>1, <1>2 DEF Resyncing
<1>. DEFINE c == Head(cmdQ)
<1>4. c \in Commands
  BY <1>1, Queue
<1>5. c.paths \subseteq Path
  BY <1>4 DEF Commands
<1>6. ASSUME HolesGrow, NEW p \in Path,
             Armed(cmdQ, watched, p) => Armed(cmdQ', watched', p) \/ "rearm" \in holes'[p]
                                        \/ (fate[p] = "gone" /\ holes'[p] # {}),
             Tracked(p)
      PROVE  Tracked(p)'
  <2>1. holes[p] \subseteq holes'[p]
    BY <1>6 DEF HolesGrow
  <2>2. Reaching(p) => Reaching(p)'
    BY <1>1, <1>2, <1>3, <2>1 DEF Reaching
  <2>. QED  BY <1>2, <1>6, <2>1, <2>2 DEF Tracked, Reaching
<1>7. CASE c.op = "watch" /\ \E p \in c.paths : WatchCmd(p)
  <2>1. PICK p \in c.paths : WatchCmd(p)
    BY <1>7
  <2>2. /\ p \in Path /\ kq' = kq /\ HolesGrow
        /\ watched' = IF Live(p) THEN watched \cup {p} ELSE watched
        /\ ~Live(p) /\ p \notin watched => holes'[p] # {}
    BY <1>1, <1>5, <2>1 DEF WatchCmd, HolesGrow
  <2>3. ASSUME NEW q \in Path, q \in cCur \/ HasRow(q), Noticed(q) PROVE Noticed(q)'
    BY <1>2, <1>3, <2>2, <2>3 DEF Noticed, Live, HolesGrow
  <2>4. ASSUME NEW q \in Path, q \in cCur \/ HasRow(q), Armed(cmdQ, watched, q)
        PROVE  Armed(cmdQ', watched', q) \/ (fate[q] = "gone" /\ holes'[q] # {})
    <3>1. fate[q] # "unborn"
      BY <2>4, RowPath DEF IInv, Named, HasRow
    <3>2. Adds(c, q) => q = p
      BY <1>7, <2>1 DEF Adds
    <3>3. CASE q \in watched'
      BY <1>1, <2>4, <3>3, ArmedTail
    <3>4. CASE q \notin watched' /\ q = p
      BY <1>1, <2>2, <3>1, <3>4 DEF Live
    <3>5. CASE q \notin watched' /\ q # p
      <4>1. q \notin watched /\ ~Adds(c, q)
        BY <2>2, <3>2, <3>5
      <4>. QED  BY <1>1, <2>4, <4>1, ArmedTail
    <3>. QED  BY <3>3, <3>4, <3>5
  <2>. QED  BY <1>1, <1>6, <2>2, <2>3, <2>4, WorkerFollowed
<1>8. CASE c.op = "unwatch" /\ UnwatchCmd(c.paths)
  <2>1. watched' = watched \ c.paths /\ kq' = Queued(watched \ c.paths) /\ holes' = holes
    BY <1>8 DEF UnwatchCmd
  <2>2. HolesGrow /\ (\A q \in kq' : q \in kq) /\ \A q \in kq : q \in watched' => q \in kq'
    BY <2>1 DEF HolesGrow, Queued
  <2>3. \A q \in Path : Noticed(q) => Noticed(q)'
    BY <1>2, <1>3, <2>1, <2>2 DEF Noticed
  <2>4. ASSUME NEW q \in Path, Armed(cmdQ, watched, q) PROVE Armed(cmdQ', watched', q)
    <3>1. ~Adds(c, q) /\ (q \in watched /\ ~Drops(c, q) => q \in watched')
      BY <1>8, <2>1 DEF Adds, Drops
    <3>. QED  BY <1>1, <2>4, <3>1, ArmedTail
  <2>. QED  BY <1>1, <1>6, <2>2, <2>3, <2>4, WorkerFollowed
<1>9. CASE c.op = "rearm" /\ RearmCmd(c.paths)
  <2>1. CASE c.paths = {}
    <3>1. UNCHANGED <<watched, kq, holes>> /\ HolesGrow
      BY <1>9, <2>1 DEF RearmCmd, HolesGrow
    <3>2. \A q \in Path : Noticed(q) => Noticed(q)'
      BY <1>2, <1>3, <3>1 DEF Noticed
    <3>3. ASSUME NEW q \in Path, Armed(cmdQ, watched, q) PROVE Armed(cmdQ', watched', q)
      <4>1. ~Adds(c, q)
        BY <1>9, <2>1 DEF Adds
      <4>. QED  BY <1>1, <3>1, <3>3, <4>1, ArmedTail
    <3>. QED  BY <1>1, <1>6, <3>1, <3>2, <3>3, WorkerFollowed
  <2>2. CASE c.paths # {}
    <3>1. PICK ws \in SUBSET {p \in c.paths : Live(p)} :
            /\ kq' = {} /\ watched' = ws
            /\ holes' = [p \in Path |-> IF p \in c.paths \ ws THEN holes[p] \cup {"rearm"}
                                        ELSE holes[p]]
      BY <1>9, <2>2 DEF RearmCmd
    <3>2. HolesGrow /\ \A q \in c.paths : q \in watched' \/ "rearm" \in holes'[q]
      BY <1>5, <3>1 DEF HolesGrow
    <3>3. \A q \in Path : Noticed(q)'
      BY <1>2, <3>1 DEF Noticed, Live
    <3>4. ASSUME NEW q \in Path, Armed(cmdQ, watched, q)
          PROVE  Armed(cmdQ', watched', q) \/ "rearm" \in holes'[q]
      <4>1. Adds(c, q) \/ ~Drops(c, q) => q \in c.paths
        BY <1>9 DEF Adds, Drops
      <4>. QED  BY <1>1, <3>2, <3>4, <4>1, ArmedTail
    <3>. QED  BY <1>1, <1>6, <3>1, <3>2, <3>3, <3>4, WorkerFollowed
  <2>. QED  BY <2>1, <2>2
<1>. QED  BY <1>7, <1>8, <1>9 DEF Command

\* The events drained are in the batch, and an overflow is.
LEMMA DrainFollowed ==
  ASSUME IInv, Followed, Drain
  PROVE  Followed'
<1>1. /\ UNCHANGED <<BesideWorker, cmdQ, holes>> /\ batchQ \in Seq(Batches) /\ ~kOverflow'
      /\ kq \subseteq Path /\ watched \subseteq Path /\ kOverflow \in BOOLEAN /\ HolesGrow
  BY DEF Drain, IInv, TypeOK, HolesGrow
<1>2. UNCHANGED <<fate, ino, table, allow, toRegister, toArm, cPc, cTodo, cCur, cIds,
                  sPc, sIds, sPaths>>
  BY <1>1, BesidesWorker
<1>3. PICK drained \in SUBSET kq :
        /\ ~kOverflow => drained = kq
        /\ kq' = Queued(watched \ drained) \ drained /\ watched' = watched \ drained
        /\ batchQ' = IF Reported(drained)
                     THEN Append(batchQ, [overflow |-> kOverflow,
                                          paths |-> drained \cap watched])
                     ELSE batchQ
  BY DEF Drain
<1>. DEFINE b == [overflow |-> kOverflow, paths |-> drained \cap watched]
<1>4. \A k \in 1 .. Len(batchQ) : k \in 1 .. Len(batchQ') /\ batchQ'[k] = batchQ[k]
  BY <1>1, <1>3
<1>5. Reported(drained) => Len(batchQ') \in 1 .. Len(batchQ') /\ batchQ'[Len(batchQ')] = b
  BY <1>1, <1>3
<1>6. cPc = "dead" => \A p \in Path : "dead" \in holes[p]
  BY DEF Followed, InHand
<1>7. cPc # "dead" /\ Resyncing => Resyncing'
  <2>1. kOverflow /\ cPc # "dead" => Reported(drained)
    BY DEF Reported
  <2>. QED  BY <1>2, <1>4, <1>5, <2>1 DEF Resyncing
<1>8. ASSUME NEW p \in Path, Noticed(p) PROVE Noticed(p)'
  <2>1. p \in kq /\ p \in watched' => p \in kq'
    BY <1>3 DEF Queued
  <2>. QED  BY <1>1, <1>2, <1>3, <1>6, <1>7, <1>8, <2>1 DEF Noticed
<1>9. ASSUME NEW p \in Path, Tracked(p) PROVE Tracked(p)'
  <2>1. CASE cPc = "dead"
    BY <1>2, <2>1 DEF Tracked
  <2>2. CASE cPc # "dead"
    <3>1. Reaching(p) => Reaching(p)'
      BY <1>1, <1>2, <1>4, <1>7, <2>2 DEF Reaching
    <3>2. Armed(cmdQ, watched, p) => Armed(cmdQ', watched', p) \/ (fate[p] = "gone" /\ Reaching(p)')
      <4>1. CASE p \in drained /\ p \in watched
        <5>1. Reported(drained)
          BY <2>2, <4>1 DEF Reported
        <5>2. Reaching(p)'
          BY <1>5, <4>1, <5>1 DEF Reaching
        <5>. QED  BY <4>1, <5>2 DEF Followed, InHand
      <4>2. CASE ~ (p \in drained /\ p \in watched)
        BY <1>1, <1>3, <4>2, ArmedWatched
      <4>. QED  BY <4>1, <4>2
    <3>. QED  BY <1>1, <1>2, <1>9, <3>1, <3>2 DEF Tracked
  <2>. QED  BY <2>1, <2>2
<1>. QED  BY <1>1, <1>3, <1>8, <1>9, WorkerFollowed DEF Queued

-----------------------------------------------------------------------------
\* Before anything ran the keys are those of seeds yet to be registered.
LEMMA InitFollowed == Init => Followed
<1>. SUFFICES ASSUME Init PROVE Followed
  OBVIOUS
<1>1. \A p \in Path : /\ fate[p] = "unborn" => ino[p] = NoInode
                      /\ p \in Seeded => fate[p] = "live" /\ ino[p] \in Inode
                      /\ p \notin Seeded => ino[p] = NoInode
  BY DEF Init
<1>2. Inodes
  BY <1>1, CorrelatorAssumption, SideTableAssumption DEF Init, Inodes, Live
<1>3. InHand
  BY DEF Init, InHand
<1>4. \A i \in Inode : table.rows[i] = NoRow
  BY DEF Init, EmptyTable
<1>5. AllNoticed
  BY <1>4 DEF Init, AllNoticed, HasRow
<1>6. AllKnown
  BY <1>1, <1>4, CorrelatorAssumption DEF Init, AllKnown, KeyKnown
<1>. QED  BY <1>2, <1>3, <1>5, <1>6 DEF Followed

\* Steps beside leaves, rows, keys and watches.
LEMMA BesideFollowed ==
  ASSUME Followed,
         \/ \E d \in Pod : PodModified(d) \/ PodDeleted(d)
         \/ FeedFails \/ PolicyChange \/ SpawnPodWatch \/ Fetch \/ FetchOk \/ FetchErr \/ Poll
         \/ UNCHANGED vars
  PROVE  Followed'
<1>1. UNCHANGED <<leaves, table, allow, seeds, cPc, cTodo, cCur, cIds, sIds, sPaths, cmdQ,
                  watched, kq, kOverflow, batchQ, holes>>
  BY DEF PodModified, PodDeleted, FeedFails, PolicyChange, SpawnPodWatch, Fetch, FetchOk,
         FetchErr, Poll, vars, OtherActors, BesideSync, BesideWorker, correlator, sync,
         worker, kernel
<1>2. sPc' = "unwatch" <=> sPc = "unwatch"
  BY DEF PodModified, PodDeleted, FeedFails, PolicyChange, SpawnPodWatch, Fetch, FetchOk,
         FetchErr, Poll, vars, OtherActors, BesideWorker, sync
<1>. QED  BY <1>1, <1>2, FollowedKept

\* Every step keeps following the keys.
LEMMA StepFollowed == ASSUME IInv, Followed, [Next]_vars PROVE Followed'
<1>1. CASE Environment
  BY <1>1, CreateLeafFollowed, RemoveLeafFollowed, BesideFollowed DEF Environment
<1>2. CASE \E p \in Path : RegisterSeed(p) \/ ArmSeed(p)
  BY <1>2, RegisterSeedFollowed, ArmSeedFollowed
<1>3. CASE Correlator
  BY <1>3, InvalidateFollowed, ListPodsFollowed, ResyncFailsFollowed, SweepFollowed,
     BesideFollowed, TakeBatchFollowed, TeardownFollowed, PodEventFollowed, ResolveFollowed,
     InsertRowFollowed, SeedFollowed, SendWatchFollowed DEF Correlator
<1>4. CASE SyncTask
  BY <1>4, BesideFollowed, RevokeFollowed, AfterRevokeFollowed DEF SyncTask
<1>5. CASE Worker
  BY <1>5, BesideFollowed, CommandFollowed, DrainFollowed DEF Worker
<1>6. CASE UNCHANGED vars
  BY <1>6, BesideFollowed
<1>. QED  BY <1>1, <1>2, <1>3, <1>4, <1>5, <1>6 DEF Next

\* Both invariants hold throughout.
LEMMA AlwaysFollowed == Spec => [](IInv /\ Followed)
BY Invariant, InitFollowed, StepFollowed, PTL DEF Spec

\* With nothing in flight a key without a row was lost, and one with a row has a
\* leaf that is watched, or whose watch or removal was lost.
LEMMA AtRest ==
  ASSUME IInv, Followed, Quiescent, cPc = "idle", NEW i \in allow
  PROVE  /\ table.rows[i] = NoRow => Lost(i, Causes)
         /\ table.rows[i] # NoRow =>
              LET p == table.rows[i].path
              IN /\ p \in Path /\ ino[p] = i
                 /\ Live(p) => p \in watched \/ "rearm" \in holes[p]
                 /\ ~Live(p) => holes[p] # {}
<1>1. /\ sPc = "idle" /\ toRegister = {} /\ toArm = {} /\ cCur = {} /\ i \in Inode
      /\ cmdQ = <<>> /\ batchQ = <<>> /\ kq = {} /\ ~kOverflow
  BY DEF Quiescent, Followed, InHand, IInv, TypeOK
<1>2. ~Pending(i) /\ ~Resyncing /\ KeyKnown(i)
  BY <1>1 DEF Pending, Resyncing, Followed, AllKnown
<1>3. CASE table.rows[i] = NoRow
  BY <1>1, <1>2, <1>3 DEF KeyKnown
<1>4. CASE table.rows[i] # NoRow
  <2>1. PICK p \in Path : p = table.rows[i].path /\ Tracked(p)
    BY <1>2, <1>4 DEF KeyKnown
  <2>2. ino[p] = i /\ fate[p] \in {"live", "gone"}
    BY <1>1, <1>4, <2>1, RowPath DEF IInv, TypeOK
  <2>3. HasRow(p)
    BY <1>1, <1>4, <2>1 DEF HasRow
  <2>4. Armed(cmdQ, watched, p) => p \in watched
    BY <1>1, ArmedWatched
  <2>5. p \in watched \/ "rearm" \in holes[p] \/ (fate[p] = "gone" /\ holes[p] # {})
    BY <1>1, <1>2, <2>1, <2>4 DEF Tracked, Reaching
  <2>6. fate[p] = "gone" /\ p \in watched => holes[p] # {}
    BY <1>1, <1>2, <2>1, <2>3 DEF Followed, AllNoticed, Noticed
  <2>. QED  BY <1>4, <2>1, <2>2, <2>5, <2>6 DEF Live
<1>. QED  BY <1>3, <1>4

\* threat-model.md section 4: whenever nothing is in flight every key belongs to a
\* live, tracked cgroup, unless its leaf met one of the recorded causes; for any
\* number of leaves, pods, inodes, policies and events.
THEOREM NoKeyOutlivesItsLeaf == Spec => []KeysBacked
<1>1. IInv /\ Followed => KeysBacked
  <2>. SUFFICES ASSUME IInv, Followed, Quiescent, NEW i \in allow
                PROVE  Backed(i) \/ Lost(i, Causes)
    BY DEF KeysBacked
  <2>1. i \in Inode /\ holes \in [Path -> SUBSET Causes]
    BY DEF IInv, TypeOK
  <2>2. CASE cPc = "dead"
    <3>1. PICK p \in Path : ino[p] = i
      BY DEF Followed, Inodes
    <3>2. "dead" \in holes[p] /\ "dead" \in Causes
      BY <2>2 DEF Followed, InHand, Causes
    <3>. QED  BY <3>1, <3>2 DEF Lost
  <2>3. CASE cPc = "idle"
    <3>1. CASE table.rows[i] = NoRow
      BY <2>3, <3>1, AtRest
    <3>2. CASE table.rows[i] # NoRow
      <4>1. PICK p \in Path : p = table.rows[i].path
        BY <2>3, <3>2, AtRest
      <4>2. ino[p] = i /\ (~Live(p) => holes[p] # {}) /\ holes[p] \subseteq Causes
        BY <2>1, <2>3, <3>2, <4>1, AtRest
      <4>. QED  BY <3>2, <4>1, <4>2 DEF Backed, Lost
    <3>. QED  BY <3>1, <3>2
  <2>. QED  BY <2>2, <2>3 DEF Quiescent
<1>. QED  BY <1>1, AlwaysFollowed, PTL

\* reconcile.rs, teardown_watch.rs: a live leaf with a row and a key is watched once
\* the worker has caught up, whatever Unwatch of a revocation came after its Watch.
THEOREM TrackedLeavesStayWatched == Spec => []TrackedLeavesWatched
<1>1. IInv /\ Followed => TrackedLeavesWatched
  <2>. SUFFICES ASSUME IInv, Followed, Quiescent, cPc = "idle", NEW i \in allow, Backed(i)
                PROVE  table.rows[i].path \in watched \/ "rearm" \in holes[table.rows[i].path]
    BY DEF TrackedLeavesWatched
  <2>. QED  BY AtRest DEF Backed
<1>. QED  BY <1>1, AlwaysFollowed, PTL

-----------------------------------------------------------------------------
(***************************************************************************)
(* Manual seeds.                                                           *)
(***************************************************************************)
\* A row belongs to the pod of its path, and a row without an identity is that of
\* a manual seed.
SeedRows ==
  \A i \in Inode : table.rows[i] # NoRow =>
    /\ table.rows[i].pod = PodOf[table.rows[i].path]
    /\ table.rows[i].spiffe = NoSpiffe => table.rows[i].path \in Seeded

\* The inode of a live seed was never another leaf's.
SeedInodes ==
  \A p \in Seeded, q \in Path : Live(p) /\ ino[q] = ino[p] => q = p

\* What is torn down is gone.
TornDown ==
  /\ cPc \notin Reconciling => \A p \in cTodo : fate[p] = "gone"
  /\ \A k \in 1 .. Len(batchQ) : \A p \in batchQ[k].paths : fate[p] = "gone"

\* A pod that the list of a resync lacks was deleted.
Listing == cPc = "sweep" => \A d \in Pod : d \in cList \/ api[d] = "deleted"

\* No identity is allowed before main has registered the seeds, and so no
\* container is worked on.
Unsynced ==
  toRegister # {} => allowlist = {} /\ sPc = "idle" /\ cPc \notin Reconciling

\* The row of a container between its row and its key is not that of a seed.
OwnRow ==
  cPc = "seed" => \A p \in cCur :
    table.rows[ino[p]] # NoRow => table.rows[ino[p]].spiffe # NoSpiffe

SeedsInv == SeedRows /\ SeedInodes /\ TornDown /\ Listing /\ Unsynced /\ OwnRow

\* The steps that write the table.
LEMMA TableStep ==
  ASSUME [Next]_vars
  PROVE  \/ UNCHANGED table \/ \E p \in Path : RegisterSeed(p)
         \/ Sweep \/ Teardown \/ TakeDeleted \/ TakeUpsert \/ InsertRow \/ Seed \/ Revoke
<1>1. Environment => UNCHANGED table
  BY DEF Environment, CreateLeaf, RemoveLeaf, PodModified, PodDeleted, FeedFails, PolicyChange
<1>2. \A p \in Path : ArmSeed(p) => UNCHANGED table
  BY DEF ArmSeed
<1>3. ListPods \/ ResyncFails \/ SpawnPodWatch \/ Invalidate \/ TakeBatch \/ Resolve \/ SendWatch
        => UNCHANGED table
  BY DEF ListPods, ResyncFails, SpawnPodWatch, Invalidate, TakeBatch, Resolve, SendWatch
<1>4. Fetch \/ FetchOk \/ FetchErr \/ SendUnwatch \/ RevokeKeys => UNCHANGED table
  BY DEF Fetch, FetchOk, FetchErr, SendUnwatch, RevokeKeys
<1>5. Worker => UNCHANGED table
  BY DEF Worker, Command, Poll, Drain, BesideWorker
<1>6. UNCHANGED vars => UNCHANGED table
  BY DEF vars
<1>. QED  BY <1>1, <1>2, <1>3, <1>4, <1>5, <1>6 DEF Next, Correlator, SyncTask

\* The rows that a teardown, a sweep, a pod event, a full map or a revocation take.
LEMMA SweptRows ==
  ASSUME IInv, Sweep
  PROVE  \A i \in Inode : table'.rows[i] = IF i \in Swept THEN NoRow ELSE table.rows[i]
<1>1. Swept \in SUBSET Ids(table) /\ table' = RemoveRows(table, Swept)
  BY DEF Sweep, Swept, Missing, Unlisted
<1>. QED  BY <1>1, RemovedRows

\* Only rows whose path the batch named go.
LEMMA TornDownRows ==
  ASSUME IInv, Teardown
  PROVE  \A i \in Inode :
           \/ table'.rows[i] = table.rows[i]
           \/ table.rows[i] # NoRow /\ table.rows[i].path \in cTodo /\ table'.rows[i] = NoRow
<1>1. PICK p \in cTodo :
        table' = IF table.byPath[p] = NoInode THEN table ELSE RemoveRows(table, {table.byPath[p]})
  BY DEF Teardown
<1>2. table \in Tables /\ Coherent(table) /\ p \in Path
  BY DEF IInv, TableOK, TypeOK
<1>3. CASE table.byPath[p] = NoInode
  BY <1>1, <1>3
<1>4. CASE table.byPath[p] # NoInode
  <2>1. table.byPath[p] \in Inode
    BY <1>2, <1>4 DEF Tables
  <2>2. table.rows[table.byPath[p]] # NoRow /\ table.rows[table.byPath[p]].path = p
    BY <1>2, <2>1 DEF Coherent
  <2>3. {table.byPath[p]} \in SUBSET Ids(table)
    BY <2>1, <2>2 DEF Ids
  <2>4. \A i \in Inode :
          table'.rows[i] = IF i \in {table.byPath[p]} THEN NoRow ELSE table.rows[i]
    BY <1>1, <1>4, <2>3, RemovedRows
  <2>. QED  BY <2>2, <2>4
<1>. QED  BY <1>3, <1>4

\* Only rows of the pod go.
LEMMA PodRows ==
  ASSUME IInv, NEW d \in Pod, RemovePod(d)
  PROVE  \A i \in Inode :
           table'.rows[i] = IF i \in Ids(table) /\ table.rows[i].pod = d THEN NoRow
                            ELSE table.rows[i]
<1>1. table \in Tables /\ Coherent(table)
  BY DEF IInv, TableOK
<1>2. /\ IdsOfPod(table, d) = {i \in Ids(table) : table.rows[i].pod = d}
      /\ table' = RemoveRows(table, IdsOfPod(table, d))
  BY <1>1, RemoveByPodIs DEF RemovePod
<1>3. \A i \in Inode : table'.rows[i] = IF i \in IdsOfPod(table, d) THEN NoRow ELSE table.rows[i]
  BY <1>2, RemovedRows
<1>. QED  BY <1>2, <1>3

\* The pod of the event at the head of the queue.
LEMMA HeadPod ==
  ASSUME IInv, podQ # <<>>
  PROVE  /\ Head(podQ).pod \in Pod /\ Head(podQ) = podQ[1] /\ 1 \in 1 .. Len(podQ)
         /\ Head(podQ).paths \subseteq Path
<1>1. podQ \in Seq(PodEvents)
  BY DEF IInv, TypeOK
<1>2. Head(podQ) \in PodEvents /\ Head(podQ) = podQ[1] /\ Len(podQ) \in Nat \ {0}
  BY <1>1, Queue
<1>3. Head(podQ).pod \in Pod /\ Head(podQ).paths \subseteq Path
  BY <1>2, Zenon DEF PodEvents
<1>. QED  BY <1>2, <1>3

\* A full map takes the row of the container back.
LEMMA FullMapRows ==
  ASSUME IInv, Seed
  PROVE  \E p \in cCur : \A i \in Inode :
           table'.rows[i] = table.rows[i] \/ (i = ino[p] /\ table'.rows[i] = NoRow)
<1>1. PICK p \in cCur :
        \/ UNCHANGED table
        \/ table' = IF table.rows[ino[p]] = NoRow THEN table ELSE RemoveRows(table, {ino[p]})
  BY DEF Seed
<1>2. ino[p] \in Inode
  BY DEF IInv, TypeOK, Named
<1>3. table.rows[ino[p]] # NoRow => {ino[p]} \in SUBSET Ids(table)
  BY <1>2 DEF Ids
<1>4. \A i \in Inode : table'.rows[i] = table.rows[i] \/ (i = ino[p] /\ table'.rows[i] = NoRow)
  BY <1>1, <1>3, RemovedRows
<1>. QED  BY <1>4

\* The rows a revocation takes.
LEMMA RevokedRows ==
  ASSUME IInv, Revoke
  PROVE  \A i \in Inode : table'.rows[i] = IF i \in RevokePlan THEN NoRow ELSE table.rows[i]
<1>1. RevokePlan \in SUBSET Ids(table) /\ table' = RemoveRows(table, RevokePlan)
  BY DEF Revoke, RevokePlan, Revoked
<1>. QED  BY <1>1, RemovedRows

\* A row comes in for a seed that main registers, or for a container that exists.
LEMMA RowsComeAndGo ==
  ASSUME IInv, [Next]_vars
  PROVE  \/ RowsOnlyGo
         \/ \E p \in Path :
              /\ RegisterSeed(p) \/ (InsertRow /\ p \in cCur)
              /\ ino[p] \in Inode
              /\ \A i \in Inode : table'.rows[i] =
                   IF i # ino[p] THEN table.rows[i]
                   ELSE [pod |-> PodOf[p],
                         spiffe |-> IF RegisterSeed(p) THEN NoSpiffe ELSE SpiffeOf[PodOf[p]],
                         path |-> p]
<1>1. table \in Tables
  BY DEF IInv, TableOK
<1>2. CASE UNCHANGED table
  BY <1>2 DEF RowsOnlyGo
<1>3. ASSUME NEW p \in Path, RegisterSeed(p)
      PROVE  /\ ino[p] \in Inode
             /\ \A i \in Inode : table'.rows[i] =
                  IF i # ino[p] THEN table.rows[i]
                  ELSE [pod |-> PodOf[p], spiffe |-> NoSpiffe, path |-> p]
  <2>1. ino[p] \in Inode
    BY <1>3 DEF RegisterSeed, IInv, TypeOK, Named
  <2>2. table' = Insert(table, ino[p], [pod |-> PodOf[p], spiffe |-> NoSpiffe, path |-> p])
    BY <1>3 DEF RegisterSeed
  <2>. QED  BY <1>1, <2>1, <2>2, InsertedRows
<1>4. CASE InsertRow
  <2>1. PICK p \in cCur :
          \/ table' = Insert(table, ino[p],
               [pod |-> PodOf[p], spiffe |-> SpiffeOf[PodOf[p]], path |-> p])
          \/ UNCHANGED table
    BY <1>4 DEF InsertRow
  <2>2. p \in Path /\ ino[p] \in Inode
    BY DEF IInv, TypeOK, Named
  <2>3. CASE UNCHANGED table
    BY <2>3 DEF RowsOnlyGo
  <2>4. CASE table' = Insert(table, ino[p],
               [pod |-> PodOf[p], spiffe |-> SpiffeOf[PodOf[p]], path |-> p])
    <3>1. \A i \in Inode : table'.rows[i] =
             IF i # ino[p] THEN table.rows[i]
             ELSE [pod |-> PodOf[p], spiffe |-> SpiffeOf[PodOf[p]], path |-> p]
      BY <1>1, <2>2, <2>4, InsertedRows
    <3>2. ~ RegisterSeed(p)
      BY <1>4 DEF RegisterSeed, InsertRow, OtherActors, seeds
    <3>. QED  BY <1>4, <2>2, <3>1, <3>2
  <2>. QED  BY <2>1, <2>3, <2>4
<1>5. CASE Sweep
  BY <1>5, SweptRows DEF RowsOnlyGo
<1>6. CASE Teardown
  BY <1>6, TornDownRows DEF RowsOnlyGo
<1>7. CASE TakeDeleted
  BY <1>7, HeadPod, PodRows DEF RowsOnlyGo, TakeDeleted, TakePod
<1>8. CASE TakeUpsert
  <2>1. UNCHANGED table \/ RemovePod(Head(podQ).pod)
    BY <1>8 DEF TakeUpsert
  <2>. QED  BY <1>8, <2>1, HeadPod, PodRows DEF RowsOnlyGo, TakeUpsert, TakePod
<1>9. CASE Seed
  BY <1>9, FullMapRows DEF RowsOnlyGo
<1>10. CASE Revoke
  BY <1>10, RevokedRows DEF RowsOnlyGo
<1>. QED  BY <1>2, <1>3, <1>4, <1>5, <1>6, <1>7, <1>8, <1>9, <1>10, TableStep

\* Rows keep their pod, and only main inserts one without an identity.
LEMMA SeedRowsKept ==
  ASSUME IInv, SeedRows, [Next]_vars PROVE SeedRows'
<1>1. CASE RowsOnlyGo
  BY <1>1 DEF SeedRows, RowsOnlyGo
<1>2. ASSUME NEW p \in Path, RegisterSeed(p) \/ (InsertRow /\ p \in cCur),
             NEW i \in Inode, table'.rows[i] # NoRow,
             table'.rows[i] =
               IF i # ino[p] THEN table.rows[i]
               ELSE [pod |-> PodOf[p],
                     spiffe |-> IF RegisterSeed(p) THEN NoSpiffe ELSE SpiffeOf[PodOf[p]],
                     path |-> p]
      PROVE  /\ table'.rows[i].pod = PodOf[table'.rows[i].path]
             /\ table'.rows[i].spiffe = NoSpiffe => table'.rows[i].path \in Seeded
  <2>1. CASE i # ino[p]
    BY <1>2, <2>1 DEF SeedRows
  <2>2. CASE i = ino[p]
    <3>1. RegisterSeed(p) => p \in Seeded
      BY DEF RegisterSeed, IInv, TypeOK
    <3>2. SpiffeOf[PodOf[p]] # NoSpiffe
      BY CorrelatorAssumption, SideTableAssumption
    <3>3. /\ table'.rows[i].pod = PodOf[p] /\ table'.rows[i].path = p
          /\ table'.rows[i].spiffe = IF RegisterSeed(p) THEN NoSpiffe ELSE SpiffeOf[PodOf[p]]
      BY <1>2, <2>2
    <3>. QED  BY <3>1, <3>2, <3>3
  <2>. QED  BY <2>1, <2>2
<1>. QED  BY <1>1, <1>2, RowsComeAndGo DEF SeedRows

\* Leaves are created and removed by the environment only.
LEMMA LeafStep ==
  ASSUME [Next]_vars
  PROVE  \/ UNCHANGED leaves
         \/ \E p \in Path : (\E i \in Inode : CreateLeaf(p, i)) \/ RemoveLeaf(p)
<1>1. \A d \in Pod : PodModified(d) \/ PodDeleted(d) => UNCHANGED leaves
  BY DEF PodModified, PodDeleted
<1>2. FeedFails \/ PolicyChange => UNCHANGED leaves
  BY DEF FeedFails, PolicyChange
<1>3. \A p \in Path : RegisterSeed(p) \/ ArmSeed(p) => UNCHANGED leaves
  BY DEF RegisterSeed, ArmSeed
<1>4. Correlator => UNCHANGED leaves
  BY DEF Correlator, OtherActors, Invalidate, ListPods, ResyncFails, Sweep, SpawnPodWatch,
         TakeBatch, Teardown, TakeDeleted, TakeUpsert, Resolve, InsertRow, Seed, SendWatch
<1>5. SyncTask => UNCHANGED leaves
  BY DEF SyncTask, BesideSync, Fetch, FetchOk, FetchErr, Revoke, SendUnwatch, RevokeKeys
<1>6. Worker => UNCHANGED leaves
  BY DEF Worker, BesideWorker, Command, Poll, Drain
<1>7. UNCHANGED vars => UNCHANGED leaves
  BY DEF vars
<1>. QED  BY <1>1, <1>2, <1>3, <1>4, <1>5, <1>6, <1>7 DEF Next, Environment

\* A new leaf has the inode of no live one, and a leaf that is gone stays so.
LEMMA SeedInodesKept ==
  ASSUME IInv, SeedInodes, [Next]_vars
  PROVE  SeedInodes' /\ \A p \in Path : fate[p] = "gone" => fate'[p] = "gone"
<1>1. /\ fate \in [Path -> {"unborn", "live", "gone"}] /\ ino \in [Path -> Inode \cup {NoInode}]
      /\ \A p \in Seeded : p \in Path /\ fate[p] # "unborn"
  BY CorrelatorAssumption DEF IInv, TypeOK, Named
<1>2. CASE UNCHANGED leaves
  BY <1>2 DEF SeedInodes, Live, leaves
<1>3. ASSUME NEW p \in Path, NEW i \in Inode, CreateLeaf(p, i)
      PROVE  SeedInodes' /\ \A q \in Path : fate[q] = "gone" => fate'[q] = "gone"
  <2>1. /\ fate[p] = "unborn" /\ \A q \in Path : fate[q] = "live" => ino[q] # i
        /\ fate' = [fate EXCEPT ![p] = "live"] /\ ino' = [ino EXCEPT ![p] = i]
    BY <1>3 DEF CreateLeaf, Live
  <2>2. ASSUME NEW s \in Seeded, NEW q \in Path, fate'[s] = "live", ino'[q] = ino'[s]
        PROVE  q = s
    <3>1. s # p /\ fate[s] = "live" /\ ino'[s] = ino[s] /\ ino[s] # i
      BY <1>1, <2>1, <2>2
    <3>2. q # p /\ ino'[q] = ino[q]
      BY <1>1, <2>1, <2>2, <3>1
    <3>. QED  BY <2>2, <3>1, <3>2 DEF SeedInodes, Live
  <2>. QED  BY <1>1, <2>1, <2>2 DEF SeedInodes, Live
<1>4. ASSUME NEW p \in Path, RemoveLeaf(p)
      PROVE  SeedInodes' /\ \A q \in Path : fate[q] = "gone" => fate'[q] = "gone"
  <2>1. fate' = [fate EXCEPT ![p] = "gone"] /\ ino' = ino
    BY <1>4 DEF RemoveLeaf
  <2>. QED  BY <1>1, <2>1 DEF SeedInodes, Live
<1>. QED  BY <1>2, <1>3, <1>4, LeafStep

\* What the environment leaves of the task's own state.
LEMMA BesideTask ==
  ASSUME Environment \/ (\E p \in Path : RegisterSeed(p) \/ ArmSeed(p)) \/ SyncTask
         \/ UNCHANGED vars
  PROVE  UNCHANGED <<cPc, cTodo, cCur, cList, batchQ>>
<1>1. Environment => UNCHANGED <<correlator, batchQ>>
  BY DEF Environment, CreateLeaf, RemoveLeaf, PodModified, PodDeleted, FeedFails, PolicyChange
<1>2. \A p \in Path : RegisterSeed(p) \/ ArmSeed(p) => UNCHANGED <<correlator, batchQ>>
  BY DEF RegisterSeed, ArmSeed
<1>3. SyncTask => UNCHANGED <<correlator, batchQ>>
  BY DEF SyncTask, BesideSync, Fetch, FetchOk, FetchErr, Revoke, SendUnwatch, RevokeKeys
<1>4. UNCHANGED vars => UNCHANGED <<correlator, batchQ>>
  BY DEF vars
<1>. QED  BY <1>1, <1>2, <1>3, <1>4 DEF correlator

\* The worker reports leaves that are gone.
LEMMA TornDownKept ==
  ASSUME IInv, Followed, SeedInodes, TornDown, [Next]_vars PROVE TornDown'
<1>1. \A p \in Path : fate[p] = "gone" => fate'[p] = "gone"
  BY SeedInodesKept
<1>2. batchQ \in Seq(Batches) /\ cTodo \subseteq Path /\ kq \subseteq Path
  BY DEF IInv, TypeOK
<1>3. \A k \in 1 .. Len(batchQ) : batchQ[k].paths \subseteq Path
  <2>1. \A k \in 1 .. Len(batchQ) : batchQ[k] \in Batches
    BY <1>2
  <2>. QED  BY <2>1, Zenon DEF Batches
<1>4. \A k \in 1 .. Len(batchQ) : \A p \in batchQ[k].paths : fate'[p] = "gone"
  BY <1>1, <1>3 DEF TornDown
<1>5. cPc \notin Reconciling => \A p \in cTodo : fate'[p] = "gone"
  BY <1>1, <1>2 DEF TornDown
<1>6. CASE UNCHANGED <<cPc, cTodo, batchQ>>
  BY <1>4, <1>5, <1>6 DEF TornDown
<1>7. CASE Worker
  <2>1. UNCHANGED <<cPc, cTodo>>
    BY <1>7, BesidesWorker DEF Worker, Command, Poll, Drain
  <2>2. CASE Drain
    <3>1. PICK drained \in SUBSET kq :
            batchQ' = IF Reported(drained)
                      THEN Append(batchQ, [overflow |-> kOverflow, paths |-> drained \cap watched])
                      ELSE batchQ
      BY <2>2 DEF Drain
    <3>2. \A p \in drained \cap watched : fate'[p] = "gone"
      BY <1>1, <1>2 DEF Followed, InHand
    <3>3. \A k \in 1 .. Len(batchQ') : \A p \in batchQ'[k].paths : fate'[p] = "gone"
      <4>1. CASE batchQ' = batchQ
        BY <1>4, <4>1
      <4>2. CASE batchQ' = Append(batchQ, [overflow |-> kOverflow, paths |-> drained \cap watched])
        <5>1. ASSUME NEW k \in 1 .. Len(batchQ')
              PROVE  \/ k \in 1 .. Len(batchQ) /\ batchQ'[k] = batchQ[k]
                     \/ batchQ'[k] = [overflow |-> kOverflow, paths |-> drained \cap watched]
          BY <1>2, <4>2, <5>1
        <5>. QED  BY <1>4, <3>2, <5>1
      <4>. QED  BY <3>1, <4>1, <4>2
    <3>. QED  BY <1>5, <2>1, <3>3 DEF TornDown
  <2>3. CASE Command \/ Poll
    <3>1. UNCHANGED batchQ
      BY <2>3 DEF Command, Poll
    <3>. QED  BY <1>6, <2>1, <3>1
  <2>. QED  BY <1>7, <2>2, <2>3 DEF Worker
<1>8. CASE TakeBatch
  <2>1. /\ batchQ # <<>> /\ batchQ' = Tail(batchQ) /\ cPc = "idle"
        /\ \/ cTodo' = cTodo
           \/ cTodo' = Head(batchQ).paths
    BY <1>8 DEF TakeBatch, InLoop
  <2>2. /\ Len(batchQ') = Len(batchQ) - 1 /\ Len(batchQ) \in Nat \ {0} /\ Head(batchQ) = batchQ[1]
        /\ \A k \in 1 .. Len(batchQ) - 1 : batchQ'[k] = batchQ[k + 1]
    BY <1>2, <2>1, Queue
  <2>3. \A p \in cTodo' : fate'[p] = "gone"
    BY <1>4, <1>5, <2>1, <2>2 DEF Reconciling
  <2>4. ASSUME NEW k \in 1 .. Len(batchQ'), NEW p \in batchQ'[k].paths PROVE fate'[p] = "gone"
    <3>1. k + 1 \in 1 .. Len(batchQ) /\ batchQ'[k] = batchQ[k + 1]
      BY <2>2
    <3>. QED  BY <1>4, <2>4, <3>1
  <2>. QED  BY <2>3, <2>4 DEF TornDown
<1>9. ASSUME UNCHANGED batchQ,
             cPc' \notin Reconciling => cTodo' = {} \/ (cPc \notin Reconciling /\ cTodo' \subseteq cTodo)
      PROVE  TornDown'
  BY <1>4, <1>5, <1>9 DEF TornDown
<1>10. CASE ListPods \/ ResyncFails \/ Sweep \/ SpawnPodWatch \/ Invalidate \/ Teardown
            \/ TakeDeleted
  BY <1>9, <1>10 DEF ListPods, ResyncFails, Sweep, SpawnPodWatch, Invalidate, Teardown, TakeDeleted,
                     TakePod, InLoop, Reconciling, correlator
<1>11. CASE TakeUpsert
  BY <1>9, <1>11 DEF TakeUpsert, TakePod, InLoop, NextContainer, Reconciling
<1>12. CASE Resolve \/ InsertRow \/ Seed \/ SendWatch
  BY <1>9, <1>12 DEF Resolve, InsertRow, Seed, SendWatch, NextContainer, Reconciling
<1>. QED  BY <1>6, <1>7, <1>8, <1>10, <1>11, <1>12, BesideTask DEF Next, Correlator

\* The pods a resync lists include all that were not deleted by then.
LEMMA ListingKept ==
  ASSUME IInv, Listing, [Next]_vars PROVE Listing'
<1>1. \A d \in Pod : api[d] = "deleted" => api'[d] = "deleted"
  <2>1. api \in [Pod -> {"listed", "deleted"}]
    BY DEF IInv, TypeOK
  <2>2. ASSUME NEW e \in Pod, PodDeleted(e)
        PROVE  \A d \in Pod : api[d] = "deleted" => api'[d] = "deleted"
    BY <2>1, <2>2 DEF PodDeleted
  <2>3. Environment => UNCHANGED api \/ \E e \in Pod : PodDeleted(e)
    BY DEF Environment, CreateLeaf, RemoveLeaf, PodModified, FeedFails, PolicyChange, pods
  <2>4. \A p \in Path : RegisterSeed(p) \/ ArmSeed(p) => UNCHANGED api
    BY DEF RegisterSeed, ArmSeed, pods
  <2>5. Correlator => UNCHANGED api
    BY DEF Correlator, OtherActors, Invalidate, ListPods, ResyncFails, Sweep, SpawnPodWatch,
           TakeBatch, Teardown, TakeDeleted, TakeUpsert, Resolve, InsertRow, Seed, SendWatch
  <2>6. SyncTask => UNCHANGED api
    BY DEF SyncTask, BesideSync, Fetch, FetchOk, FetchErr, Revoke, SendUnwatch, RevokeKeys, pods
  <2>7. Worker \/ UNCHANGED vars => UNCHANGED api
    BY DEF Worker, BesideWorker, Command, Poll, Drain, vars, pods
  <2>. QED  BY <2>2, <2>3, <2>4, <2>5, <2>6, <2>7 DEF Next
<1>2. CASE UNCHANGED <<cPc, cList>>
  BY <1>1, <1>2 DEF Listing
<1>3. Worker => UNCHANGED <<cPc, cList>>
  BY DEF Worker, BesideWorker, Command, Poll, Drain, correlator
<1>4. CASE ListPods
  BY <1>4 DEF ListPods, Listing, OtherActors, IInv, TypeOK
<1>5. Correlator => ListPods \/ cPc' # "sweep" \/ UNCHANGED <<cPc, cList>>
  BY NextPc DEF Correlator, Invalidate, ResyncFails, Sweep, SpawnPodWatch, TakeBatch, Teardown,
                TakeDeleted, TakeUpsert, RemovePod, Resolve, InsertRow, Seed, SendWatch, correlator
<1>. QED  BY <1>2, <1>3, <1>4, <1>5, BesideTask DEF Next, Listing

\* main registers the seeds before it spawns the policy sync.
LEMMA UnsyncedKept ==
  ASSUME IInv, Unsynced, [Next]_vars PROVE Unsynced'
<1>1. ASSUME UNCHANGED <<allowlist, sPc, cPc>>, toRegister' \subseteq toRegister PROVE Unsynced'
  BY <1>1 DEF Unsynced
<1>2. CASE Environment
  BY <1>1, <1>2, BesideTask DEF Environment, CreateLeaf, RemoveLeaf, PodModified, PodDeleted,
       FeedFails, PolicyChange, policy, seeds, sync
<1>3. CASE \E p \in Path : RegisterSeed(p) \/ ArmSeed(p)
  BY <1>1, <1>3, BesideTask DEF RegisterSeed, ArmSeed, policy, seeds, sync
<1>4. CASE Worker \/ UNCHANGED vars
  BY <1>1, <1>4 DEF Worker, BesideWorker, Command, Poll, Drain, vars, policy, seeds, sync, correlator
<1>5. CASE SyncTask
  BY <1>5 DEF SyncTask, BesideSync, Fetch, FetchOk, FetchErr, Revoke, SendUnwatch, RevokeKeys,
              seeds, correlator, Unsynced
<1>6. CASE Correlator
  <2>1. UNCHANGED <<allowlist, sPc, toRegister>>
    BY <1>6 DEF Correlator, OtherActors, Invalidate, ListPods, ResyncFails, Sweep, SpawnPodWatch,
           TakeBatch, Teardown, TakeDeleted, TakeUpsert, Resolve, InsertRow, Seed, SendWatch,
           policy, seeds, sync
  <2>2. CASE Invalidate \/ ListPods \/ ResyncFails \/ Sweep \/ SpawnPodWatch \/ TakeBatch
             \/ Teardown \/ TakeDeleted
    <3>1. cPc' \notin Reconciling \/ cPc' = cPc
      BY <2>2, NextPc DEF Invalidate, ListPods, ResyncFails, Sweep, SpawnPodWatch, TakeBatch,
           Teardown, TakeDeleted, RemovePod, Reconciling, correlator
    <3>. QED  BY <2>1, <3>1 DEF Unsynced
  <2>3. CASE TakeUpsert
    <3>1. cPc' \in Reconciling => allowlist # {}
      BY <2>3, NextPc DEF TakeUpsert, RemovePod, Reconciling
    <3>. QED  BY <2>1, <3>1 DEF Unsynced
  <2>4. CASE Resolve \/ InsertRow \/ Seed \/ SendWatch
    <3>1. cPc \in Reconciling
      BY <2>4 DEF Resolve, InsertRow, Seed, SendWatch, Reconciling
    <3>. QED  BY <2>1, <3>1 DEF Unsynced
  <2>. QED  BY <1>6, <2>2, <2>3, <2>4 DEF Correlator
<1>. QED  BY <1>2, <1>3, <1>4, <1>5, <1>6 DEF Next

\* Until its key is in, a container's row is the one the task inserted, or none.
LEMMA OwnRowKept ==
  ASSUME IInv, Followed, OwnRow, Unsynced, [Next]_vars PROVE OwnRow'
<1>. SUFFICES ASSUME cPc' = "seed", NEW p \in cCur', table'.rows[ino'[p]] # NoRow
              PROVE  table'.rows[ino'[p]].spiffe # NoSpiffe
  BY DEF OwnRow
<1>1. CASE InsertRow
  <2>1. PICK q \in cCur :
          /\ table' = Insert(table, ino[q],
                [pod |-> PodOf[q], spiffe |-> SpiffeOf[PodOf[q]], path |-> q])
          /\ cCur' = cCur
    BY <1>1, NextPc DEF InsertRow
  <2>2. p = q
    BY <2>1 DEF Followed, InHand
  <2>3. /\ UNCHANGED ino /\ p \in Path /\ ino[p] \in Inode /\ table \in Tables
        /\ SpiffeOf[PodOf[p]] # NoSpiffe
    BY <1>1, <2>1, Others, CorrelatorAssumption, SideTableAssumption
       DEF InsertRow, IInv, TypeOK, TableOK, Named
  <2>4. table'.rows[ino[p]] = [pod |-> PodOf[p], spiffe |-> SpiffeOf[PodOf[p]], path |-> p]
    BY <2>1, <2>2, <2>3, InsertedRows
  <2>. QED  BY <2>3, <2>4
<1>2. CASE ~InsertRow
  <2>1. cPc = "seed" /\ cCur' = cCur
    <3>1. Worker => UNCHANGED <<cPc, cCur>>
      BY BesidesWorker DEF Worker, Command, Poll, Drain
    <3>2. Correlator => UNCHANGED <<cPc, cCur>>
      BY <1>2, NextPc DEF Correlator, Invalidate, ListPods, ResyncFails, Sweep, SpawnPodWatch,
           TakeBatch, Teardown, TakeDeleted, TakeUpsert, RemovePod, Resolve, Seed, SendWatch,
           correlator
    <3>. QED  BY <3>1, <3>2, BesideTask DEF Next
  <2>2. p \in Path /\ fate[p] # "unborn" /\ ino[p] \in Inode
    BY <2>1 DEF IInv, TypeOK, Named
  <2>3. ino'[p] = ino[p]
    <3>1. \A q \in Path, i \in Inode : CreateLeaf(q, i) => q # p
      BY <2>2 DEF CreateLeaf
    <3>2. ino \in [Path -> Inode \cup {NoInode}]
      BY DEF IInv, TypeOK
    <3>. QED  BY <2>2, <3>1, <3>2, LeafStep DEF CreateLeaf, RemoveLeaf, leaves
  <2>4. RowsOnlyGo
    <3>1. \A q \in Path : ~ RegisterSeed(q)
      BY <2>1 DEF RegisterSeed, Unsynced, Reconciling
    <3>. QED  BY <1>2, <3>1, RowsComeAndGo
  <2>. QED  BY <2>1, <2>2, <2>3, <2>4 DEF OwnRow, RowsOnlyGo
<1>. QED  BY <1>1, <1>2

\* Before anything ran the table is empty and main has all seeds in hand.
LEMMA InitSeeds == Init => SeedsInv
<1>. SUFFICES ASSUME Init PROVE SeedsInv
  OBVIOUS
<1>1. \A i \in Inode : table.rows[i] = NoRow
  BY DEF Init, EmptyTable
<1>2. SeedRows
  BY <1>1 DEF SeedRows
<1>3. SeedInodes
  BY CorrelatorAssumption DEF Init, SeedInodes, Live
<1>4. TornDown /\ Listing /\ Unsynced /\ OwnRow
  BY DEF Init, TornDown, Listing, Unsynced, OwnRow, Reconciling
<1>. QED  BY <1>2, <1>3, <1>4 DEF SeedsInv

\* All parts hold throughout.
LEMMA AlwaysSeeds == Spec => [](IInv /\ Followed /\ SeedsInv)
<1>1. IInv /\ Followed /\ SeedsInv /\ [Next]_vars => SeedsInv'
  BY SeedRowsKept, SeedInodesKept, TornDownKept, ListingKept, UnsyncedKept, OwnRowKept
     DEF SeedsInv
<1>. QED  BY <1>1, AlwaysFollowed, InitSeeds, PTL DEF Spec

\* The row of a live manual seed goes for one of the four reasons.
LEMMA SeedStep ==
  ASSUME IInv, Followed, SeedsInv, [Next]_vars, NEW i \in Ids(table),
         table.rows[i].spiffe = NoSpiffe, Live(table.rows[i].path), table'.rows[i] # table.rows[i]
  PROVE  \/ sPc = "clear" /\ sPc' # "clear"
         \/ api[table.rows[i].pod] = "deleted"
         \/ Purges(table.rows[i].pod)
         \/ table'.rows[i] = [table.rows[i] EXCEPT !.spiffe = SpiffeOf[table.rows[i].pod]]
<1>1. /\ i \in Inode /\ table.rows[i] # NoRow /\ table.rows[i] \in Rows
      /\ table.rows[i].path \in Seeded /\ table.rows[i].path \in Path
      /\ table.rows[i].pod = PodOf[table.rows[i].path] /\ table.rows[i].pod \in Pod
  BY RowsTyped DEF Ids, IInv, TableOK, SeedsInv, SeedRows
<1>2. ino[table.rows[i].path] = i
  BY <1>1, RowPath
<1>3. \A p \in Path : ino[p] = i => p = table.rows[i].path
  BY <1>1, <1>2 DEF SeedsInv, SeedInodes
<1>4. ASSUME NEW p \in Path, RegisterSeed(p) \/ (InsertRow /\ p \in cCur),
             table'.rows[i] =
               IF i # ino[p] THEN table.rows[i]
               ELSE [pod |-> PodOf[p],
                     spiffe |-> IF RegisterSeed(p) THEN NoSpiffe ELSE SpiffeOf[PodOf[p]],
                     path |-> p]
      PROVE  table'.rows[i] = [table.rows[i] EXCEPT !.spiffe = SpiffeOf[table.rows[i].pod]]
  <2>1. i = ino[p] /\ p = table.rows[i].path
    BY <1>3, <1>4
  <2>2. table.rows[i] = [pod |-> PodOf[p], spiffe |-> NoSpiffe, path |-> p]
    BY <1>1, <2>1 DEF Rows
  <2>3. ~ RegisterSeed(p)
    BY <1>4, <2>1, <2>2
  <2>4. table'.rows[i] = [pod |-> PodOf[p], spiffe |-> SpiffeOf[PodOf[p]], path |-> p]
    BY <1>4, <2>1, <2>3
  <2>5. table.rows[i].pod = PodOf[p]
    BY <1>1, <2>1
  <2>6. [table.rows[i] EXCEPT !.spiffe = SpiffeOf[PodOf[p]]]
          = [pod |-> PodOf[p], spiffe |-> SpiffeOf[PodOf[p]], path |-> p]
    BY <2>2
  <2>. QED  BY <2>4, <2>5, <2>6
<1>5. CASE UNCHANGED table
  BY <1>5
<1>6. CASE \E p \in Path : RegisterSeed(p)
  <2>1. PICK p \in Path : RegisterSeed(p)
    BY <1>6
  <2>2. /\ ino[p] \in Inode /\ table \in Tables
        /\ table' = Insert(table, ino[p], [pod |-> PodOf[p], spiffe |-> NoSpiffe, path |-> p])
    BY <2>1 DEF RegisterSeed, IInv, TypeOK, TableOK, Named
  <2>3. table'.rows[i] = IF i # ino[p] THEN table.rows[i]
                         ELSE [pod |-> PodOf[p], spiffe |-> NoSpiffe, path |-> p]
    BY <1>1, <2>2, InsertedRows
  <2>. QED  BY <1>4, <2>1, <2>3
<1>7. CASE InsertRow
  <2>1. PICK p \in cCur :
          \/ table' = Insert(table, ino[p],
               [pod |-> PodOf[p], spiffe |-> SpiffeOf[PodOf[p]], path |-> p])
          \/ UNCHANGED table
    BY <1>7 DEF InsertRow
  <2>2. p \in Path /\ ino[p] \in Inode /\ table \in Tables
    BY DEF IInv, TypeOK, TableOK, Named
  <2>3. table'.rows[i] = IF i # ino[p] THEN table.rows[i]
                         ELSE [pod |-> PodOf[p], spiffe |-> SpiffeOf[PodOf[p]], path |-> p]
    BY <1>1, <2>1, <2>2, InsertedRows
  <2>4. ~ RegisterSeed(p)
    BY <1>7 DEF RegisterSeed, InsertRow, OtherActors, seeds
  <2>. QED  BY <1>4, <1>7, <2>2, <2>3, <2>4
<1>8. CASE Sweep
  <2>1. i \in Swept
    BY <1>1, <1>8, SweptRows
  <2>2. client /\ table.rows[i].pod \notin cList
    BY <2>1 DEF Swept, Missing, Unlisted
  <2>3. cPc = "sweep"
    BY <1>8, <2>2 DEF Sweep
  <2>. QED  BY <1>1, <2>2, <2>3 DEF SeedsInv, Listing
<1>9. CASE Teardown
  <2>1. table.rows[i].path \in cTodo
    BY <1>1, <1>9, TornDownRows
  <2>2. fate[table.rows[i].path] = "gone"
    BY <1>9, <2>1 DEF SeedsInv, TornDown, Teardown, Reconciling
  <2>. QED  BY <2>2 DEF Live
<1>10. CASE TakeDeleted
  <2>1. podQ # <<>> /\ Head(podQ).type = "deleted" /\ RemovePod(Head(podQ).pod)
    BY <1>10 DEF TakeDeleted, TakePod
  <2>2. table.rows[i].pod = Head(podQ).pod
    BY <1>1, <2>1, HeadPod, PodRows
  <2>. QED  BY <2>1, <2>2, HeadPod DEF IInv, Deletions
<1>11. CASE TakeUpsert
  <2>1. /\ podQ # <<>> /\ podQ' = Tail(podQ) /\ SpiffeOf[Head(podQ).pod] \notin allowlist
        /\ RemovePod(Head(podQ).pod)
    BY <1>11 DEF TakeUpsert, TakePod
  <2>2. table.rows[i].pod = Head(podQ).pod
    BY <1>1, <2>1, HeadPod, PodRows
  <2>. QED  BY <2>1, <2>2 DEF Purges
<1>12. CASE Seed
  <2>1. PICK p \in cCur : table'.rows[i] = table.rows[i] \/ i = ino[p]
    BY <1>1, <1>12, FullMapRows
  <2>. QED  BY <1>1, <1>12, <2>1 DEF Seed, SeedsInv, OwnRow
<1>13. CASE Revoke
  <2>1. i \in RevokePlan
    BY <1>1, <1>13, RevokedRows
  <2>2. sPc = "clear"
    BY <1>13, <2>1 DEF Revoke, RevokePlan, Revoked
  <2>. QED  BY <1>13, <2>2 DEF Revoke
<1>. QED  BY <1>5, <1>6, <1>7, <1>8, <1>9, <1>10, <1>11, <1>12, <1>13, TableStep

\* A live manual seed keeps its row through revocations, sweeps, teardowns of
\* other leaves, recycled inodes and a full map (side_table.rs, reconcile.rs,
\* mod.rs): only a cleared table, the deletion of its pod, or an upsert of its
\* pod takes or changes it.
THEOREM SeedsStay == Spec => LiveSeedsStay
<1>1. IInv /\ Followed /\ SeedsInv /\ [Next]_vars =>
        [\A i \in Ids(table) :
           LET r == table.rows[i]
           IN  r.spiffe = NoSpiffe /\ Live(r.path) /\ table'.rows[i] # r =>
                 \/ sPc = "clear" /\ sPc' # "clear"
                 \/ api[r.pod] = "deleted"
                 \/ Purges(r.pod)
                 \/ table'.rows[i] = [r EXCEPT !.spiffe = SpiffeOf[r.pod]]]_vars
  BY SeedStep
<1>. QED  BY <1>1, AlwaysSeeds, PTL DEF Spec, LiveSeedsStay
=============================================================================
