------------------------------ MODULE SideTable ------------------------------
(***************************************************************************)
(* The correlator's side table (side_table.rs): rows keyed by cgroup id    *)
(* and two indexes over them, by pod and by path.  A table is a record of  *)
(* the three maps; the operations return the table they leave.             *)
(***************************************************************************)
EXTENDS Integers, FiniteSets

CONSTANTS
  Inode,    \* cgroup ids: the inodes of cgroup v2 directories
  Path,     \* container leaf directories
  Pod,      \* pod UIDs
  Spiffe,   \* SPIFFE ids of auto-inserted rows
  NoSpiffe, \* the empty spiffe_id of a manual seed
  MaxRows,  \* IDENTITY_ALLOW_CGROUPS_MAX_ENTRIES
  NoRow, NoInode

Rows == [pod : Pod, spiffe : Spiffe \cup {NoSpiffe}, path : Path]

Tables == [rows : [Inode -> Rows \cup {NoRow}],
           byPod : [Pod -> SUBSET Inode],
           byPath : [Path -> Inode \cup {NoInode}]]

ASSUME SideTableAssumption ==
  /\ MaxRows \in Nat \ {0}
  /\ NoSpiffe \notin Spiffe /\ NoRow \notin Rows
  /\ NoInode \notin Inode

EmptyTable == [rows |-> [i \in Inode |-> NoRow],
               byPod |-> [d \in Pod |-> {}],
               byPath |-> [p \in Path |-> NoInode]]

Ids(t) == {i \in Inode : t.rows[i] # NoRow}
PathsOf(t, ids) == {t.rows[i].path : i \in ids}

\* remove_by_cgroup for each of ids (all of them have rows), with unlink_indexes.
RemoveRows(t, ids) ==
  [rows |-> [i \in Inode |-> IF i \in ids THEN NoRow ELSE t.rows[i]],
   byPod |-> [d \in Pod |-> t.byPod[d] \ {i \in ids : t.rows[i].pod = d}],
   byPath |-> [p \in Path |-> IF p \in PathsOf(t, ids) THEN NoInode ELSE t.byPath[p]]]

\* Wrong variant: a replaced row leaves its old path in the index.
Insert_KeepsOldPath(t, i, e) ==
  LET u == IF t.rows[i] = NoRow THEN t
           ELSE [RemoveRows(t, {i}) EXCEPT !.byPath = t.byPath]
  IN [rows |-> [u.rows EXCEPT ![i] = e],
      byPod |-> [u.byPod EXCEPT ![e.pod] = @ \cup {i}],
      byPath |-> [u.byPath EXCEPT ![e.path] = i]]

\* insert, past its RejectedFull test: the old row of i is unlinked first.
Insert(t, i, e) ==
  LET u == IF t.rows[i] = NoRow THEN t ELSE RemoveRows(t, {i})
  IN [rows |-> [u.rows EXCEPT ![i] = e],
      byPod |-> [u.byPod EXCEPT ![e.pod] = @ \cup {i}],
      byPath |-> [u.byPath EXCEPT ![e.path] = i]]

RejectedFull(t, i) == t.rows[i] = NoRow /\ Cardinality(Ids(t)) >= MaxRows

\* The ids remove_by_pod finds: it trusts the pod index.
IdsOfPod(t, d) == t.byPod[d] \cap Ids(t)

\* Wrong variant: the pod leaves the indexes, its rows stay.
RemoveByPod_KeepsRows(t, d) ==
  [t EXCEPT !.byPod = [@ EXCEPT ![d] = {}]]

RemoveByPod(t, d) ==
  [rows |-> [i \in Inode |-> IF i \in t.byPod[d] THEN NoRow ELSE t.rows[i]],
   byPod |-> [t.byPod EXCEPT ![d] = {}],
   byPath |-> [p \in Path |-> IF p \in PathsOf(t, IdsOfPod(t, d)) THEN NoInode
                              ELSE t.byPath[p]]]

\* plan_pe_allowlist_revoke: manual seeds are never selected.
Revoked(t, allowed) ==
  {i \in Ids(t) : t.rows[i].spiffe # NoSpiffe /\ t.rows[i].spiffe \notin allowed}

\* The three maps describe the same rows.
Coherent(t) ==
  /\ \A i \in Inode, p \in Path :
       t.byPath[p] = i <=> t.rows[i] # NoRow /\ t.rows[i].path = p
  /\ \A i \in Inode, d \in Pod :
       i \in t.byPod[d] <=> t.rows[i] # NoRow /\ t.rows[i].pod = d
=============================================================================
