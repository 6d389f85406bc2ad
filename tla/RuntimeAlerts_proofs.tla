------------------------ MODULE RuntimeAlerts_proofs ------------------------
(***************************************************************************)
(* What an agent loads and what its alerts say, for every release, every   *)
(* kernel and every exec.  Where a definition looks for the first of       *)
(* something, or computes along a sequence, the argument is a least        *)
(* counterexample.                                                         *)
(***************************************************************************)
EXTENDS AgentRuntime_proofs, WellFoundedInduction

-----------------------------------------------------------------------------
(***************************************************************************)
(* The least of a set of numbers, and what is found first.                 *)
(***************************************************************************)
\* Every set of natural numbers that is not empty has a least one.
LEMMA LeastNat ==
  ASSUME NEW T, T \subseteq Nat, T # {}
  PROVE  \E m \in T : \A k \in T : m <= k
<1>. DEFINE R == OpToRel(<, Nat)
<1>1. IsWellFoundedOn(R, Nat)
  BY NatLessThanWellFounded
<1>2. PICK x \in T : \A y \in T : ~ (<<y, x>> \in R)
  <2>. HIDE DEF R
  <2>. QED  BY <1>1, WFMin
<1>3. \A y \in T : <<y, x>> \in R <=> y < x
  BY DEF OpToRel
<1>. HIDE DEF R
<1>4. \A y \in T : ~ (y < x)
  BY <1>2, <1>3
<1>5. x \in Nat /\ \A y \in T : y \in Nat
  OBVIOUS
<1>6. \A y \in T : x <= y
  BY <1>4, <1>5
<1>. QED  BY <1>6

\* The minimum of such a set is its least element.
LEMMA MinNat ==
  ASSUME NEW T, T \subseteq Nat, T # {}
  PROVE  Min(T) \in T /\ \A k \in T : Min(T) <= k
<1>1. \E m \in T : \A k \in T : m <= k
  BY LeastNat
<1>. QED  BY <1>1 DEF Min

-----------------------------------------------------------------------------
(***************************************************************************)
(* Attestation.                                                            *)
(***************************************************************************)
\* Three entries that name all three objects name each of them once.
LEMMA ThreeNames ==
  ASSUME NEW s \in Seq([name : STRING, digest : STRING]), Len(s) = 3,
         REQUIRED_ARTIFACT_NAMES = {s[i].name : i \in DOMAIN s}
  PROVE  /\ DOMAIN s = 1 .. 3
         /\ \A i, j \in 1 .. 3 : s[i].name = s[j].name => i = j
         /\ \A i \in 1 .. 3 : Entry(s, s[i].name) = s[i]
<1>1. DOMAIN s = 1 .. 3
  OBVIOUS
<1>2. \A n \in REQUIRED_ARTIFACT_NAMES : \E i \in 1 .. 3 : s[i].name = n
  BY <1>1
<1>3. /\ \E i \in 1 .. 3 : s[i].name = "sys_exec.bpf.o"
      /\ \E i \in 1 .. 3 : s[i].name = "network_filter.bpf.o"
      /\ \E i \in 1 .. 3 : s[i].name = "agent-ebpf-sensor-ebpf"
  BY <1>2 DEF REQUIRED_ARTIFACT_NAMES
<1>4. \A i, j \in 1 .. 3 : s[i].name = s[j].name => i = j
  BY <1>3
<1>5. ASSUME NEW i \in 1 .. 3 PROVE Entry(s, s[i].name) = s[i]
  <2>1. \A k \in DOMAIN s : (s[k].name = s[i].name /\ \A j \in 1 .. k - 1 : s[j].name # s[i].name) <=> k = i
    BY <1>1, <1>4
  <2>2. (CHOOSE k \in DOMAIN s : s[k].name = s[i].name /\ \A j \in 1 .. k - 1 : s[j].name # s[i].name) = i
    BY <1>1, <2>1
  <2>. QED  BY <2>2 DEF Entry
<1>. QED  BY <1>1, <1>4, <1>5

\* The entries s are the objects in some order, with their digests e.
Lists(s, e, order) ==
  /\ \A n \in REQUIRED_ARTIFACT_NAMES : e[n] # "" /\ \E i \in 1 .. 3 : order[i] = n
  /\ s = [i \in 1 .. 3 |-> [name |-> order[i], digest |-> e[order[i]]]]

\* The checks accept exactly the releases that are what they should be
\* (bytecode_attestation.rs).
LEMMA VerifyStartupExact ==
  ASSUME NEW a \in Release  PROVE VerifyStartup(a) = "Ok" <=> Attested(a)
<1>. DEFINE m == a.manifest  s == a.manifest.artifacts  e == a.embedded
            listed == {s[i].name : i \in DOMAIN s}
<1>1. /\ s \in Seq([name : STRING, digest : STRING])
      /\ e \in [REQUIRED_ARTIFACT_NAMES -> STRING \ {"md5"}]
      /\ a.files \in [{"key", "manifest", "signature"} -> STRING]
  BY DEF Release, Manifest
<1>2. (\A f \in DOMAIN a.files : a.files[f] = "read") <=>
        a.files.key = "read" /\ a.files.manifest = "read" /\ a.files.signature = "read"
  BY <1>1
<1>3. SignatureError(a.key, a.signature) = "Ok" <=>
        a.key \in {"p256", "ed25519"} /\ a.signature = a.key
  BY DEF SignatureError
<1>4. VerifyStartup(a) = "Ok" <=>
        /\ a.absolute /\ \A f \in DOMAIN a.files : a.files[f] = "read"
        /\ a.key \in {"p256", "ed25519"} /\ a.signature = a.key
        /\ ManifestError(m, e) = "Ok"
  BY <1>2, <1>3 DEF VerifyStartup
<1>5. ManifestError(m, e) = "Ok" <=>
        /\ m.parses /\ m.schema_version = 1 /\ m.git_sha # "" /\ m.build_timestamp # ""
        /\ ValidateArtifactSet(s) = "Ok" /\ DigestsMatch(s, e)
  BY DEF ManifestError
<1>6. ValidateArtifactSet(s) = "Ok" <=>
        /\ listed = REQUIRED_ARTIFACT_NAMES /\ Len(s) = 3
        /\ \A i \in DOMAIN s : WellFormedDigest(s[i].digest)
  BY DEF ValidateArtifactSet
<1>. HIDE DEF s, e
<1>7. ASSUME ValidateArtifactSet(s) = "Ok", DigestsMatch(s, e)
      PROVE  \E order \in [1 .. 3 -> REQUIRED_ARTIFACT_NAMES] : Lists(s, e, order)
  <2>1. /\ DOMAIN s = 1 .. 3 /\ Len(s) = 3 /\ listed = REQUIRED_ARTIFACT_NAMES
        /\ \A i \in 1 .. 3 : Entry(s, s[i].name) = s[i]
    BY <1>1, <1>6, <1>7, ThreeNames
  <2>. DEFINE order == [i \in 1 .. 3 |-> s[i].name]
  <2>2. order \in [1 .. 3 -> REQUIRED_ARTIFACT_NAMES]
    BY <2>1
  <2>3. \A n \in REQUIRED_ARTIFACT_NAMES : e[n] # "" /\ \E i \in 1 .. 3 : order[i] = n
    BY <1>7, <2>1 DEF DigestsMatch
  <2>4. \A i \in 1 .. 3 : s[i] = [name |-> order[i], digest |-> e[order[i]]]
    <3>. SUFFICES ASSUME NEW i \in 1 .. 3 PROVE s[i] = [name |-> order[i], digest |-> e[order[i]]]
      OBVIOUS
    <3>1. s[i] \in [name : STRING, digest : STRING]
      <4>1. i \in 1 .. Len(s)
        BY <2>1
      <4>. QED  BY <1>1, <4>1, ElementOfSeq
    <3>2. s[i].digest = e[s[i].name]
      BY <1>7, <2>1 DEF DigestsMatch
    <3>. QED  BY <3>1, <3>2
  <2>5. s = [i \in 1 .. 3 |-> [name |-> order[i], digest |-> e[order[i]]]]
    BY <1>1, <2>1, <2>4
  <2>. HIDE DEF order
  <2>. QED  BY <2>2, <2>3, <2>5 DEF Lists
<1>8. ASSUME NEW order \in [1 .. 3 -> REQUIRED_ARTIFACT_NAMES], Lists(s, e, order)
      PROVE  ValidateArtifactSet(s) = "Ok" /\ DigestsMatch(s, e)
  <2>0. /\ \A n \in REQUIRED_ARTIFACT_NAMES : e[n] # "" /\ \E i \in 1 .. 3 : order[i] = n
        /\ s = [i \in 1 .. 3 |-> [name |-> order[i], digest |-> e[order[i]]]]
    BY <1>8 DEF Lists
  <2>1. /\ DOMAIN s = 1 .. 3 /\ Len(s) = 3
        /\ \A i \in 1 .. 3 : s[i].name = order[i] /\ s[i].digest = e[order[i]]
    <3>1. DOMAIN s = 1 .. 3 /\ DOMAIN s = 1 .. Len(s) /\ Len(s) \in Nat
      <4>1. DOMAIN s = 1 .. 3
        BY <2>0, Zenon
      <4>2. DOMAIN s = 1 .. Len(s) /\ Len(s) \in Nat
        BY <1>1
      <4>. QED  BY <4>1, <4>2
    <3>2. 1 .. Len(s) = 1 .. 3 => Len(s) = 3
      BY <3>1
    <3>3. \A i \in 1 .. 3 : s[i] = [name |-> order[i], digest |-> e[order[i]]]
      BY <2>0
    <3>. QED  BY <3>1, <3>2, <3>3
  <2>2. listed = REQUIRED_ARTIFACT_NAMES
    <3>1. \A n \in REQUIRED_ARTIFACT_NAMES : \E i \in 1 .. 3 : s[i].name = n
      BY <2>0, <2>1
    <3>2. \A i \in 1 .. 3 : s[i].name \in REQUIRED_ARTIFACT_NAMES
      BY <2>1
    <3>. QED  BY <2>1, <3>1, <3>2
  <2>3. \A i \in DOMAIN s : WellFormedDigest(s[i].digest)
    BY <1>1, <2>0, <2>1 DEF WellFormedDigest
  <2>4. \A i \in 1 .. 3 : Entry(s, s[i].name) = s[i]
    BY <1>1, <2>1, <2>2, ThreeNames
  <2>5. DigestsMatch(s, e)
    <3>1. ASSUME NEW n \in REQUIRED_ARTIFACT_NAMES PROVE Entry(s, n).digest = e[n]
      <4>1. PICK i \in 1 .. 3 : order[i] = n
        BY <2>0
      <4>2. Entry(s, n) = s[i] /\ s[i].digest = e[n]
        BY <2>1, <2>4, <4>1
      <4>. QED  BY <4>2
    <3>. QED  BY <2>0, <3>1 DEF DigestsMatch
  <2>. QED  BY <1>6, <2>1, <2>2, <2>3, <2>5
<1>9. (\E order \in [1 .. 3 -> REQUIRED_ARTIFACT_NAMES] : Lists(s, e, order))
        <=> ValidateArtifactSet(s) = "Ok" /\ DigestsMatch(s, e)
  BY <1>7, <1>8
<1>. USE DEF s, e
<1>10. Attested(a) <=>
         /\ a.absolute /\ a.key \in {"p256", "ed25519"} /\ a.signature = a.key
         /\ \A f \in DOMAIN a.files : a.files[f] = "read"
         /\ m.parses /\ m.schema_version = 1 /\ m.git_sha # "" /\ m.build_timestamp # ""
         /\ \E order \in [1 .. 3 -> REQUIRED_ARTIFACT_NAMES] : Lists(s, e, order)
  BY DEF Attested, Lists
<1>. HIDE DEF s, e, m
<1>. QED  BY <1>4, <1>5, <1>9, <1>10

-----------------------------------------------------------------------------
(***************************************************************************)
(* The offsets of the LSM program.                                         *)
(***************************************************************************)
\* The walk stops at the first type that is at fault.
LEMMA WalkErrorExact ==
  ASSUME NEW types \in Seq(BtfType)
  PROVE  WalkError(types) = "" <=> \A i \in DOMAIN types : TypeError(types[i]) = ""
<1>. DEFINE I == {i \in 1 .. Len(types) : TypeError(types[i]) # ""}
<1>1. WalkError(types) = LET bad == IF I # {} THEN Min(I) ELSE 0
                         IN  IF bad = 0 THEN "" ELSE TypeError(types[bad])
  BY DEF WalkError, SelectInSeq
<1>2. I \subseteq Nat \ {0} /\ DOMAIN types = 1 .. Len(types)
  <2>1. Len(types) \in Nat /\ DOMAIN types = 1 .. Len(types)
    OBVIOUS
  <2>2. 1 .. Len(types) \subseteq Nat \ {0}
    BY <2>1
  <2>. QED  BY <2>1, <2>2
<1>3. CASE I = {}
  BY <1>1, <1>2, <1>3
<1>4. CASE I # {}
  <2>. HIDE DEF I
  <2>1. Min(I) \in I
    BY <1>2, <1>4, MinNat
  <2>2. Min(I) # 0 /\ TypeError(types[Min(I)]) # "" /\ Min(I) \in DOMAIN types
    BY <1>2, <2>1 DEF I
  <2>. QED  BY <1>1, <1>4, <2>2
<1>. QED  BY <1>3, <1>4

\* A type without a fault.
LEMMA TypeErrorExact ==
  ASSUME NEW t \in BtfType
  PROVE  TypeError(t) = "" <=> /\ t.kind <= 19 /\ t.fits
                               /\ t.kind = BTF_KIND_STRUCT => t.name # BadName
<1>1. t.kind \in Nat
  BY DEF BtfType
<1>2. t.kind \in KnownKinds <=> t.kind <= 19
  BY <1>1 DEF KnownKinds
<1>. QED  BY <1>2 DEF TypeError

\* A header without a fault.
LEMMA HeaderErrorExact ==
  ASSUME NEW h \in [whole : BOOLEAN, magic : STRING, version : Nat, hdr_len : Nat,
                    sections : BOOLEAN]
  PROVE  HeaderError(h) = "" <=>
           /\ h = [whole |-> TRUE, magic |-> "0xEB9F", version |-> 1,
                   hdr_len |-> h.hdr_len, sections |-> TRUE]
           /\ h.hdr_len >= 24
<1>1. HeaderError(h) = "" <=> /\ h.whole /\ h.magic = "0xEB9F" /\ h.version = 1
                              /\ h.hdr_len >= 24 /\ h.sections
  BY DEF HeaderError
<1>2. h = [whole |-> TRUE, magic |-> "0xEB9F", version |-> 1, hdr_len |-> h.hdr_len,
           sections |-> TRUE]
        <=> h.whole /\ h.magic = "0xEB9F" /\ h.version = 1 /\ h.sections
  OBVIOUS
<1>. QED  BY <1>1, <1>2

\* The place of the first struct of a name.
LEMMA StructAtExact ==
  ASSUME NEW types \in Seq(BtfType), NEW name
  PROVE  /\ StructAt(types, name) # 0 =>
              /\ StructAt(types, name) \in DOMAIN types
              /\ types[StructAt(types, name)].kind = BTF_KIND_STRUCT
              /\ types[StructAt(types, name)].name = name
         /\ StructAt(types, name) = 0 =>
              \A i \in DOMAIN types : ~ (types[i].kind = BTF_KIND_STRUCT /\ types[i].name = name)
<1>. DEFINE I == {i \in 1 .. Len(types) : types[i].kind = BTF_KIND_STRUCT /\ types[i].name = name}
<1>1. StructAt(types, name) = IF I # {} THEN Min(I) ELSE 0
  BY DEF StructAt, SelectInSeq
<1>2. I \subseteq Nat \ {0} /\ DOMAIN types = 1 .. Len(types)
  <2>1. Len(types) \in Nat /\ DOMAIN types = 1 .. Len(types)
    OBVIOUS
  <2>2. 1 .. Len(types) \subseteq Nat \ {0}
    BY <2>1
  <2>. QED  BY <2>1, <2>2
<1>3. CASE I = {}
  BY <1>1, <1>2, <1>3
<1>4. CASE I # {}
  <2>. HIDE DEF I
  <2>1. Min(I) \in I
    BY <1>2, <1>4, MinNat
  <2>2. /\ Min(I) # 0 /\ Min(I) \in DOMAIN types
        /\ types[Min(I)].kind = BTF_KIND_STRUCT /\ types[Min(I)].name = name
    BY <1>2, <2>1 DEF I
  <2>. QED  BY <1>1, <1>4, <2>2
<1>. QED  BY <1>3, <1>4

\* The arithmetic of a member: the raw offset is a whole number of bytes within
\* the struct and has no width of a bitfield.
LEMMA PlainArithmetic ==
  ASSUME NEW t \in BtfType, NEW j \in DOMAIN t.members
  PROVE  LET raw == t.members[j].offset
         IN  /\ PlainMember(t, j) <=>
                  /\ BitfieldBits(t, raw) = 0 /\ BitOffset(t, raw) % 8 = 0
                  /\ ~ (BitOffset(t, raw) \div 8 >= t.size)
             /\ PlainMember(t, j) => raw = 8 * (BitOffset(t, raw) \div 8)
<1>. DEFINE raw == t.members[j].offset
<1>1. raw \in Nat /\ t.size \in Nat /\ t.kind_flag \in BOOLEAN
  <2>1. t.members \in Seq([name : STRING, offset : Nat]) /\ t.size \in Nat /\ t.kind_flag \in BOOLEAN
    BY DEF BtfType
  <2>2. t.members[j] \in [name : STRING, offset : Nat]
    <3>1. j \in 1 .. Len(t.members)
      BY <2>1
    <3>. QED  BY <2>1, <3>1, ElementOfSeq
  <2>. QED  BY <2>1, <2>2
<1>2. 2^24 \in Nat \ {0}
  OBVIOUS
<1>3. \A x \in Nat, m \in Nat \ {0} : (x \div m = 0 <=> x < m) /\ (x < m => x % m = x)
  OBVIOUS
<1>4. \A x, y \in Nat : /\ x % 8 = 0 => x = 8 * (x \div 8)
                        /\ x % 8 = 0 => (x < 8 * y <=> ~ (x \div 8 >= y))
  OBVIOUS
<1>5. (raw \div 2^24 = 0 <=> raw < 2^24) /\ (raw < 2^24 => raw % 2^24 = raw)
  BY <1>1, <1>2, <1>3
<1>6. /\ raw % 8 = 0 => raw = 8 * (raw \div 8)
      /\ raw % 8 = 0 => (raw < 8 * t.size <=> ~ (raw \div 8 >= t.size))
  BY <1>1, <1>4
<1>. HIDE DEF raw
<1>7. CASE t.kind_flag
  <2>1. BitfieldBits(t, raw) = raw \div 2^24 /\ BitOffset(t, raw) = raw % 2^24
    BY <1>7 DEF BitfieldBits, BitOffset
  <2>2. PlainMember(t, j) <=> raw < 2^24 /\ raw % 8 = 0 /\ raw < 8 * t.size
    BY <1>7 DEF PlainMember, raw
  <2>. QED  BY <1>5, <1>6, <2>1, <2>2 DEF raw
<1>8. CASE ~ t.kind_flag
  <2>1. BitfieldBits(t, raw) = 0 /\ BitOffset(t, raw) = raw
    BY <1>8 DEF BitfieldBits, BitOffset
  <2>2. PlainMember(t, j) <=> raw % 8 = 0 /\ raw < 8 * t.size
    BY <1>8 DEF PlainMember, raw
  <2>. QED  BY <1>6, <2>1, <2>2 DEF raw
<1>. QED  BY <1>7, <1>8

\* A member that is found is a plain one of the name at the offset; when none is
\* found, the struct has no such member or one at fault.
LEMMA MemberOffsetExact ==
  ASSUME NEW t \in BtfType, NEW name, name # BadName
  PROVE  /\ MemberOffset(t, name).error = "" =>
              \E j \in DOMAIN t.members :
                /\ t.members[j].name = name /\ PlainMember(t, j)
                /\ t.members[j].offset = 8 * MemberOffset(t, name).at
         /\ MemberOffset(t, name).error # "" => ~ HasPlain(t, name)
         /\ MemberOffset(t, name).error # "StructNotFound"
<1>. DEFINE I    == {i \in 1 .. Len(t.members) : t.members[i].name \in {name, BadName}}
            stop == IF I # {} THEN Min(I) ELSE 0
            raw  == t.members[stop].offset
<1>1. MemberOffset(t, name)
        = IF stop = 0 THEN Failed("MemberNotFound")
          ELSE IF t.members[stop].name = BadName THEN Failed("StringError")
          ELSE IF BitfieldBits(t, raw) # 0 THEN Failed("UnexpectedBitfield")
          ELSE IF BitOffset(t, raw) % 8 # 0 THEN Failed("UnalignedBitOffset")
          ELSE IF BitOffset(t, raw) \div 8 >= t.size THEN Failed("OffsetExceedsStructSize")
          ELSE Found(BitOffset(t, raw) \div 8)
  BY DEF MemberOffset, SelectInSeq
<1>0. /\ \A e : Failed(e).error = e
      /\ \A n : Found(n).error = "" /\ Found(n).at = n
  BY DEF Failed, Found
<1>2. I \subseteq Nat \ {0} /\ DOMAIN t.members = 1 .. Len(t.members)
  <2>1. t.members \in Seq([name : STRING, offset : Nat])
    BY DEF BtfType
  <2>2. Len(t.members) \in Nat /\ DOMAIN t.members = 1 .. Len(t.members)
    BY <2>1
  <2>3. 1 .. Len(t.members) \subseteq Nat \ {0}
    BY <2>2
  <2>. QED  BY <2>2, <2>3
<1>3. CASE I = {}
  <2>1. MemberOffset(t, name) = Failed("MemberNotFound")
    BY <1>1, <1>3
  <2>2. ~ \E j \in DOMAIN t.members : t.members[j].name = name
    BY <1>2, <1>3
  <2>. QED  BY <2>1, <2>2 DEF Failed, HasPlain
<1>4. CASE I # {}
  <2>1. stop = Min(I) /\ Min(I) \in I
    <3>. HIDE DEF I
    <3>. QED  BY <1>2, <1>4, MinNat
  <2>2. stop # 0 /\ stop \in DOMAIN t.members /\ t.members[stop].name \in {name, BadName}
    BY <1>2, <2>1
  <2>. HIDE DEF stop, raw
  <2>3. /\ PlainMember(t, stop) <=>
             /\ BitfieldBits(t, raw) = 0 /\ BitOffset(t, raw) % 8 = 0
             /\ ~ (BitOffset(t, raw) \div 8 >= t.size)
        /\ PlainMember(t, stop) => raw = 8 * (BitOffset(t, raw) \div 8)
    BY <2>2, PlainArithmetic DEF raw
  <2>4. CASE t.members[stop].name = BadName
    <3>1. MemberOffset(t, name) = Failed("StringError")
      BY <1>1, <2>2, <2>4
    <3>. QED  BY <2>2, <2>4, <3>1 DEF Failed, HasPlain
  <2>5. CASE t.members[stop].name # BadName
    <3>1. t.members[stop].name = name
      BY <2>2, <2>5
    <3>2. CASE PlainMember(t, stop)
      <4>1. MemberOffset(t, name) = Found(BitOffset(t, raw) \div 8)
        BY <1>1, <2>2, <2>3, <2>5, <3>2
      <4>2. MemberOffset(t, name).error = "" /\ MemberOffset(t, name).at = BitOffset(t, raw) \div 8
        BY <1>0, <4>1
      <4>3. t.members[stop].offset = 8 * MemberOffset(t, name).at
        BY <2>3, <3>2, <4>2 DEF raw
      <4>. QED  BY <2>2, <3>1, <3>2, <4>2, <4>3
    <3>3. CASE ~ PlainMember(t, stop)
      <4>1. MemberOffset(t, name) \in {Failed("UnexpectedBitfield"), Failed("UnalignedBitOffset"),
                                       Failed("OffsetExceedsStructSize")}
        BY <1>1, <2>2, <2>3, <2>5, <3>3
      <4>2. MemberOffset(t, name).error \notin {"", "StructNotFound"}
        <5>1. MemberOffset(t, name).error \in
                {"UnexpectedBitfield", "UnalignedBitOffset", "OffsetExceedsStructSize"}
          BY <1>0, <4>1, Zenon
        <5>. QED  BY <5>1
      <4>3. ~ HasPlain(t, name)
        BY <2>2, <3>1, <3>3 DEF HasPlain
      <4>. QED  BY <4>2, <4>3
    <3>. QED  BY <3>2, <3>3
  <2>. QED  BY <2>4, <2>5
<1>. QED  BY <1>3, <1>4

\* The fields, looked for in the first struct of their name.
LEMMA FieldOffsetsExact ==
  ASSUME NEW types \in Seq(BtfType), NEW f \in DOMAIN Fields
  PROVE  LET found == FieldOffsets(types)[f]
         IN  /\ found.error = "" =>
                  \E i \in DOMAIN types :
                    /\ types[i].kind = BTF_KIND_STRUCT /\ types[i].name = Fields[f][1]
                    /\ \E j \in DOMAIN types[i].members :
                         /\ types[i].members[j].name = Fields[f][2]
                         /\ PlainMember(types[i], j)
                         /\ types[i].members[j].offset = 8 * found.at
             /\ found.error # "" =>
                  LET structs == {t \in Range(types) :
                                    t.kind = BTF_KIND_STRUCT /\ t.name = Fields[f][1]}
                  IN  structs = {} \/ \E t \in structs : ~ HasPlain(t, Fields[f][2])
<1>. DEFINE place == StructAt(types, Fields[f][1])
            found == FieldOffsets(types)[f]
            structs == {t \in Range(types) : t.kind = BTF_KIND_STRUCT /\ t.name = Fields[f][1]}
<1>1. found = IF place = 0 THEN Failed("StructNotFound") ELSE MemberOffset(types[place], Fields[f][2])
  BY DEF FieldOffsets
<1>2. Fields[f][2] # BadName
  <2>1. f \in {1, 2, 3}
    BY DEF Fields
  <2>2. /\ Fields[1][2] = "real_parent" /\ Fields[2][2] = "tgid"
        /\ Fields[3][2] = "filename"
    BY DEF Fields
  <2>3. Fields[f][2] \in {"real_parent", "tgid", "filename"}
    BY <2>1, <2>2
  <2>4. "real_parent" # BadName /\ "tgid" # BadName /\ "filename" # BadName
    BY DEF BadName
  <2>. QED  BY <2>3, <2>4
<1>3. CASE place = 0
  <2>1. found.error = "StructNotFound"
    BY <1>1, <1>3 DEF Failed
  <2>2. structs = {}
    BY <1>3, StructAtExact DEF Range
  <2>. QED  BY <2>1, <2>2
<1>4. CASE place # 0
  <2>1. /\ place \in DOMAIN types /\ types[place].kind = BTF_KIND_STRUCT
        /\ types[place].name = Fields[f][1]
    BY <1>4, StructAtExact
  <2>2. types[place] \in BtfType
    BY <2>1
  <2>3. found = MemberOffset(types[place], Fields[f][2])
    BY <1>1, <1>4
  <2>4. types[place] \in structs
    BY <2>1 DEF Range
  <2>. HIDE DEF place, found
  <2>5. /\ found.error = "" =>
             \E j \in DOMAIN types[place].members :
                /\ types[place].members[j].name = Fields[f][2] /\ PlainMember(types[place], j)
                /\ types[place].members[j].offset = 8 * found.at
        /\ found.error # "" => ~ HasPlain(types[place], Fields[f][2])
    BY <1>2, <2>2, <2>3, MemberOffsetExact
  <2>. QED  BY <2>1, <2>4, <2>5 DEF found
<1>. QED  BY <1>3, <1>4

\* The errors of a resolution, in the order in which they are reported.
LEMMA ResolveOffsetsExact ==
  ASSUME NEW blob \in BtfBlob
  PROVE  LET found == FieldOffsets(blob.types)
             none  == /\ HeaderError(blob.header) = "" /\ WalkError(blob.types) = ""
                      /\ \A f \in DOMAIN Fields : found[f].error = ""
         IN  /\ ResolveOffsets(blob).error = "" <=> none
             /\ none => ResolveOffsets(blob).at = [f \in DOMAIN Fields |-> found[f].at]
<1>. DEFINE found  == FieldOffsets(blob.types)
            header == HeaderError(blob.header)
            walk   == WalkError(blob.types)
            missing == [f \in DOMAIN Fields |->
                          IF found[f].error = "StructNotFound" THEN found[f].error ELSE ""]
            member == [f \in DOMAIN Fields |-> found[f].error]
            errors == <<header, walk>> \o missing \o member
            I      == {i \in 1 .. Len(errors) : errors[i] # ""}
            first  == IF I # {} THEN Min(I) ELSE 0
            none   == header = "" /\ walk = "" /\ \A f \in DOMAIN Fields : found[f].error = ""
<1>1. ResolveOffsets(blob) =
        [error |-> IF first = 0 THEN "" ELSE errors[first],
         at    |-> [f \in DOMAIN Fields |-> IF first = 0 THEN found[f].at ELSE 0]]
  BY DEF ResolveOffsets, SelectInSeq
<1>2. DOMAIN Fields = 1 .. 3
  BY DEF Fields
<1>. HIDE DEF header, walk, found
<1>3. /\ Len(errors) = 8 /\ errors[1] = header /\ errors[2] = walk
      /\ \A f \in 1 .. 3 : errors[f + 2] = missing[f] /\ errors[f + 5] = member[f]
  <2>. DEFINE S == {header, walk} \cup {missing[f] : f \in 1 .. 3} \cup {member[f] : f \in 1 .. 3}
  <2>1. /\ missing = [f \in 1 .. 3 |-> missing[f]] /\ \A f \in 1 .. 3 : missing[f] \in S
        /\ member = [f \in 1 .. 3 |-> member[f]] /\ \A f \in 1 .. 3 : member[f] \in S
        /\ <<header, walk>> \in Seq(S)
    BY <1>2
  <2>. HIDE DEF missing, member, S
  <2>2. missing \in Seq(S) /\ Len(missing) = 3 /\ member \in Seq(S) /\ Len(member) = 3
    BY <2>1
  <2>3. /\ <<header, walk>> \o missing \in Seq(S) /\ Len(<<header, walk>> \o missing) = 5
        /\ (<<header, walk>> \o missing)[1] = header /\ (<<header, walk>> \o missing)[2] = walk
        /\ \A f \in 1 .. 3 : (<<header, walk>> \o missing)[f + 2] = missing[f]
    BY <2>1, <2>2
  <2>4. Len(errors) = 8
    BY <2>2, <2>3
  <2>5. errors[1] = header /\ errors[2] = walk
    BY <2>2, <2>3
  <2>6. \A f \in 1 .. 3 : errors[f + 2] = missing[f]
    BY <2>2, <2>3
  <2>7. \A f \in 1 .. 3 : errors[f + 5] = member[f]
    BY <2>2, <2>3
  <2>. QED  BY <2>4, <2>5, <2>6, <2>7
<1>. HIDE DEF errors
<1>8. /\ ResolveOffsets(blob).error = IF first = 0 THEN "" ELSE errors[first]
      /\ ResolveOffsets(blob).at = [f \in DOMAIN Fields |-> IF first = 0 THEN found[f].at ELSE 0]
  <2>. DEFINE er == IF first = 0 THEN "" ELSE errors[first]
              at == [f \in DOMAIN Fields |-> IF first = 0 THEN found[f].at ELSE 0]
  <2>1. ResolveOffsets(blob) = [error |-> er, at |-> at]
    BY <1>1
  <2>. HIDE DEF er, at
  <2>2. ResolveOffsets(blob).error = er /\ ResolveOffsets(blob).at = at
    BY <2>1
  <2>. QED  BY <2>2 DEF er, at
<1>4. I = {} <=> none
  <2>1. \A f \in 1 .. 3 : (member[f] = "" => missing[f] = "") /\ member[f] = found[f].error
    BY <1>2
  <2>. HIDE DEF missing, member
  <2>2. I = {} <=> \A i \in 1 .. 8 : errors[i] = ""
    BY <1>3
  <2>3. (\A i \in 1 .. 8 : errors[i] = "")
          <=> /\ header = "" /\ walk = ""
              /\ \A f \in 1 .. 3 : missing[f] = "" /\ member[f] = ""
    <3>1. \A i \in 1 .. 8 : i = 1 \/ i = 2 \/ (\E f \in 1 .. 3 : i = f + 2)
                               \/ (\E f \in 1 .. 3 : i = f + 5)
      <4>1. \A i \in 3 .. 5 : i - 2 \in 1 .. 3 /\ i = (i - 2) + 2
        OBVIOUS
      <4>2. \A i \in 6 .. 8 : i - 5 \in 1 .. 3 /\ i = (i - 5) + 5
        OBVIOUS
      <4>3. \A i \in 1 .. 8 : i = 1 \/ i = 2 \/ i \in 3 .. 5 \/ i \in 6 .. 8
        OBVIOUS
      <4>. QED  BY <4>1, <4>2, <4>3
    <3>2. 1 \in 1 .. 8 /\ 2 \in 1 .. 8 /\ \A f \in 1 .. 3 : f + 2 \in 1 .. 8 /\ f + 5 \in 1 .. 8
      OBVIOUS
    <3>. QED  BY <1>3, <3>1, <3>2
  <2>. QED  BY <1>2, <2>1, <2>2, <2>3
<1>5. I \subseteq Nat \ {0}
  <2>1. 1 .. 8 \subseteq Nat \ {0}
    OBVIOUS
  <2>2. I \subseteq 1 .. 8
    BY <1>3
  <2>. QED  BY <2>1, <2>2
<1>6. CASE I = {}
  <2>1. first = 0
    BY <1>6
  <2>2. none
    BY <1>4, <1>6
  <2>. HIDE DEF first, none
  <2>3. /\ ResolveOffsets(blob).error = ""
        /\ ResolveOffsets(blob).at = [f \in DOMAIN Fields |-> found[f].at]
    BY <1>8, <2>1
  <2>. QED  BY <2>2, <2>3 DEF found, none, header, walk
<1>7. CASE I # {}
  <2>1. Min(I) \in I
    <3>. HIDE DEF I
    <3>. QED  BY <1>5, <1>7, MinNat
  <2>2. first # 0 /\ errors[first] # ""
    BY <1>3, <1>5, <1>7, <2>1
  <2>3. ~ none
    BY <1>4, <1>7
  <2>. HIDE DEF first, none
  <2>4. ResolveOffsets(blob).error # ""
    BY <1>8, <2>2
  <2>. QED  BY <2>3, <2>4 DEF found, none, header, walk
<1>. QED  BY <1>6, <1>7

\* An offset is a number.
LEMMA OffsetsAreNumbers ==
  ASSUME NEW blob \in BtfBlob
  PROVE  ResolveOffsets(blob).at \in [DOMAIN Fields -> Nat]
<1>. DEFINE found == FieldOffsets(blob.types)
<1>1. blob.types \in Seq(BtfType)
  BY DEF BtfBlob
<1>2. PICK first : ResolveOffsets(blob).at = [f \in DOMAIN Fields |-> IF first = 0 THEN found[f].at ELSE 0]
  BY DEF ResolveOffsets
<1>3. ASSUME NEW f \in DOMAIN Fields PROVE found[f].at \in Nat
  <2>. DEFINE place == StructAt(blob.types, Fields[f][1])
              t == blob.types[place]
  <2>1. found[f] = IF place = 0 THEN Failed("StructNotFound") ELSE MemberOffset(t, Fields[f][2])
    BY DEF FieldOffsets
  <2>2. \A e : Failed(e).at = 0
    BY DEF Failed
  <2>3. \A n : Found(n).at = n
    BY DEF Found
  <2>4. CASE place = 0
    BY <2>1, <2>2, <2>4
  <2>5. CASE place # 0
    <3>1. place \in DOMAIN blob.types
      BY <1>1, <2>5, StructAtExact
    <3>2. t \in BtfType
      BY <1>1, <3>1
    <3>. DEFINE I    == {i \in 1 .. Len(t.members) : t.members[i].name \in {Fields[f][2], BadName}}
                stop == IF I # {} THEN Min(I) ELSE 0
                raw  == t.members[stop].offset
    <3>3. \/ MemberOffset(t, Fields[f][2]).at = 0
          \/ stop # 0 /\ MemberOffset(t, Fields[f][2]).at = BitOffset(t, raw) \div 8
      <4>1. \/ \E e : MemberOffset(t, Fields[f][2]) = Failed(e)
            \/ stop # 0 /\ MemberOffset(t, Fields[f][2]) = Found(BitOffset(t, raw) \div 8)
        BY DEF MemberOffset, SelectInSeq
      <4>. HIDE DEF stop, raw, t
      <4>. QED  BY <2>2, <2>3, <4>1
    <3>4. ASSUME stop # 0 PROVE BitOffset(t, raw) \div 8 \in Nat
      <4>1. t.members \in Seq([name : STRING, offset : Nat])
        BY <3>2 DEF BtfType
      <4>2. Len(t.members) \in Nat /\ 1 .. Len(t.members) \subseteq Nat
        BY <4>1
      <4>3. I \subseteq Nat /\ I # {}
        BY <3>4, <4>2
      <4>4. stop \in I
        <5>. HIDE DEF I
        <5>. QED  BY <4>3, MinNat
      <4>5. stop \in 1 .. Len(t.members)
        BY <4>4
      <4>. HIDE DEF stop, t
      <4>6. t.members[stop] \in [name : STRING, offset : Nat]
        BY <4>1, <4>5, ElementOfSeq
      <4>7. raw \in Nat /\ 2^24 \in Nat \ {0}
        BY <4>6
      <4>8. \A x \in Nat, m \in Nat \ {0} : x % m \in Nat /\ x \div 8 \in Nat
        OBVIOUS
      <4>. HIDE DEF raw
      <4>9. BitOffset(t, raw) \in Nat
        BY <4>7, <4>8 DEF BitOffset
      <4>. QED  BY <4>7, <4>8, <4>9
    <3>. HIDE DEF stop, raw
    <3>. QED  BY <2>1, <2>5, <3>3, <3>4
  <2>. QED  BY <2>4, <2>5
<1>. HIDE DEF found
<1>. QED  BY <1>2, <1>3

-----------------------------------------------------------------------------
(***************************************************************************)
(* The life of the process.                                                *)
(***************************************************************************)
\* Nothing runs that was not attested, a refused agent ends at once, and the tasks
\* run only while the process does.
Life ==
  /\ plan \in Plans /\ loop \in Loops
  /\ monitor \subseteq {"poller", "worker", "network"}
  /\ monitor # {} => loop \in Running
  /\ loop \in {"start", "enforcing"} => baseline = ""
  /\ exit \in {"", "ok", "error", "refused", "killed", "78"}
  /\ exit # "" <=> loop = "end"
  /\ exit = "refused" => ~ MayLoad
  /\ loop # "start" /\ exit # "refused" => MayLoad
  /\ offsets = IF loop = "start" THEN [f \in DOMAIN Fields |-> 0] ELSE ResolveOffsets(plan.btf).at

\* The steps, by what they do to the process.
LEMMA LifeSteps ==
  ASSUME Next
  PROVE  \/ Attest
         \/ ArmVisibility
         \/ /\ \E code \in {"ok", "error", "killed", "78"} : exit' = code
            /\ ExecEnd /\ offsets' = offsets /\ baseline' = baseline
            /\ loop # "end" /\ (loop = "start" => baseline # "")
         \/ /\ loop \in {"monitoring", "select"} /\ loop' \in {"select", "sleep"}
            /\ UNCHANGED <<plan, monitor, baseline, offsets, exit>>
         \/ monitor' \subseteq monitor /\ UNCHANGED <<plan, loop, baseline, offsets, exit>>
<1>1. CASE ArmVisibilityFails
  BY <1>1 DEF ArmVisibilityFails, End, integrityvars
<1>2. CASE LoopFails
  BY <1>2 DEF LoopFails, End, integrityvars
<1>3. CASE LoopEnd
  BY <1>3 DEF LoopEnd, End, integrityvars
<1>4. CASE IntegrityTick
  BY <1>4 DEF IntegrityTick, Armed, End, execvars, kernelvars, pipevars, agentvars
<1>5. CASE LivenessProbe
  BY <1>5 DEF LivenessProbe, End, kernelvars, agentvars, integrityvars
<1>6. CASE Tamper /\ UNCHANGED <<execvars, netvars, agentvars>>
  BY <1>6 DEF Tamper, execvars, kernelvars, pipevars, agentvars
<1>7. CASE ExecSteps /\ UNCHANGED <<netvars, integrityvars, agentvars>>
  <2>1. UNCHANGED <<baseline, offsets, exit>>
    BY <1>7 DEF integrityvars, agentvars
  <2>2. ASSUME NEW t \in Task, SysEnter(t) \/ BprmCheck(t) PROVE UNCHANGED <<plan, monitor, loop>>
    BY <2>2 DEF SysEnter, BprmCheck, pipevars
  <2>3. CASE \/ Tick \/ PollerEnter \/ PollerNext \/ PollerLeave \/ WorkerStep \/ HealthSample
             \/ LoopStep
    <3>1. UNCHANGED <<plan, monitor, loop>>
      BY <2>3 DEF Tick, PollerEnter, PollerNext, PollerLeave, WorkerStep, HealthSample, LoopStep,
                  LoopEnter, LoopNext, LoopLeave, LoopDetect, kernelvars, pipevars
    <3>. QED  BY <2>1, <3>1
  <2>4. CASE MonitorExit
    BY <2>1, <2>4 DEF MonitorExit, kernelvars, pipevars
  <2>5. CASE StartLoop \/ LoopSignal
    BY <2>1, <2>5 DEF StartLoop, LoopSignal, kernelvars
  <2>. QED  BY <1>7, <2>1, <2>2, <2>3, <2>4, <2>5 DEF ExecSteps
<1>8. CASE NetSteps /\ UNCHANGED <<execvars, integrityvars, agentvars>>
  BY <1>8 DEF execvars, kernelvars, pipevars, agentvars, integrityvars
<1>9. CASE NetExit /\ UNCHANGED <<integrityvars, agentvars>>
  BY <1>9 DEF NetExit, kernelvars, pipevars, agentvars, integrityvars
<1>. QED  BY <1>1, <1>2, <1>3, <1>4, <1>5, <1>6, <1>7, <1>8, <1>9 DEF Next

\* It holds when the process starts.
LEMMA LifeInit == Init => Life
BY DEF Init, ExecInit, IntegrityInit, Life, Loops, Running

\* Every step keeps it.
LEMMA LifeStep == Life /\ [Next]_vars => Life'
<1>. SUFFICES ASSUME Life, [Next]_vars PROVE Life'
  OBVIOUS
<1>1. CASE Attest
  <2>1. /\ loop = "start" /\ offsets' = ResolveOffsets(plan.btf).at
        /\ UNCHANGED <<plan, monitor, baseline>>
        /\ \/ MayLoad /\ loop' = "enforcing" /\ exit' = exit
           \/ ~ MayLoad /\ loop' = "end" /\ exit' = "refused"
    BY <1>1 DEF Attest, kernelvars, integrityvars
  <2>2. MayLoad' <=> MayLoad
    BY <2>1 DEF MayLoad
  <2>. QED  BY <2>1, <2>2 DEF Life, Loops, Running
<1>2. CASE ArmVisibility
  <2>1. /\ loop = "enforcing" /\ loop' = "monitoring"
        /\ monitor' = {"poller", "worker", "network"} /\ UNCHANGED <<plan, offsets, exit>>
    BY <1>2 DEF ArmVisibility, StartMonitors, kernelvars, agentvars
  <2>2. MayLoad' <=> MayLoad
    BY <2>1 DEF MayLoad
  <2>. QED  BY <2>1, <2>2 DEF Life, Loops, Running
<1>3. ASSUME \E code \in {"ok", "error", "killed", "78"} : exit' = code, ExecEnd, offsets' = offsets,
             loop # "end", loop = "start" => baseline # ""
      PROVE  Life'
  <2>1. loop' = "end" /\ monitor' = {} /\ plan' = plan
    BY <1>3 DEF ExecEnd, kernelvars
  <2>2. MayLoad' <=> MayLoad
    BY <2>1 DEF MayLoad
  <2>3. loop # "start" /\ exit = "" /\ MayLoad
    BY <1>3 DEF Life
  <2>. QED  BY <1>3, <2>1, <2>2, <2>3 DEF Life, Loops
<1>4. ASSUME loop \in {"monitoring", "select"}, loop' \in {"select", "sleep"},
             UNCHANGED <<plan, monitor, baseline, offsets, exit>>
      PROVE  Life'
  <2>1. MayLoad' <=> MayLoad
    BY <1>4 DEF MayLoad
  <2>. QED  BY <1>4, <2>1 DEF Life, Loops, Running
<1>5. ASSUME monitor' \subseteq monitor, UNCHANGED <<plan, loop, baseline, offsets, exit>>
      PROVE  Life'
  <2>1. MayLoad' <=> MayLoad
    BY <1>5 DEF MayLoad
  <2>. QED  BY <1>5, <2>1 DEF Life
<1>6. CASE UNCHANGED vars
  BY <1>5, <1>6 DEF vars, execvars, kernelvars, pipevars, integrityvars, agentvars
<1>. QED  BY <1>1, <1>2, <1>3, <1>4, <1>5, <1>6, LifeSteps

\* Life says what the property says, by what the two resolutions accept.
LEMMA LifeAttested == Life => OnlyAttestedCodeRuns
<1>. SUFFICES ASSUME Life PROVE OnlyAttestedCodeRuns
  OBVIOUS
<1>. DEFINE a == plan.attest  b == plan.btf  found == FieldOffsets(b.types)
<1>1. a \in Release /\ b \in BtfBlob
  BY PlanAssumption DEF Life
<1>2. /\ b.types \in Seq(BtfType)
      /\ b.header \in [whole : BOOLEAN, magic : STRING, version : Nat, hdr_len : Nat, sections : BOOLEAN]
  BY <1>1 DEF BtfBlob
<1>3. VerifyStartup(a) = "Ok" <=> Attested(a)
  BY <1>1, VerifyStartupExact
<1>4. Describes(b) <=> HeaderError(b.header) = "" /\ WalkError(b.types) = ""
  <2>1. HeaderError(b.header) = "" <=>
          /\ b.header = [whole |-> TRUE, magic |-> "0xEB9F", version |-> 1,
                         hdr_len |-> b.header.hdr_len, sections |-> TRUE]
          /\ b.header.hdr_len >= 24
    BY <1>2, HeaderErrorExact
  <2>2. WalkError(b.types) = "" <=> \A i \in DOMAIN b.types : TypeError(b.types[i]) = ""
    BY <1>2, WalkErrorExact
  <2>3. \A i \in DOMAIN b.types : b.types[i] \in BtfType
    BY <1>2
  <2>4. \A i \in DOMAIN b.types :
          TypeError(b.types[i]) = "" <=>
            /\ b.types[i].kind <= 19 /\ b.types[i].fits
            /\ b.types[i].kind = BTF_KIND_STRUCT => b.types[i].name # BadName
    BY <2>3, TypeErrorExact
  <2>. HIDE DEF b
  <2>. QED  BY <2>1, <2>2, <2>4 DEF Describes
<1>5. /\ ResolveOffsets(b).error = "" <=>
           /\ HeaderError(b.header) = "" /\ WalkError(b.types) = ""
           /\ \A f \in DOMAIN Fields : found[f].error = ""
      /\ ResolveOffsets(b).error = "" =>
           ResolveOffsets(b).at = [f \in DOMAIN Fields |-> found[f].at]
  <2>. HIDE DEF b
  <2>. QED  BY <1>1, ResolveOffsetsExact
<1>6. ASSUME loop # "start", exit # "refused"
      PROVE  /\ Attested(a) /\ Describes(b)
             /\ \A f \in DOMAIN Fields :
                  \E i \in DOMAIN b.types :
                    LET t == b.types[i]
                    IN  /\ t.kind = BTF_KIND_STRUCT /\ t.name = Fields[f][1]
                        /\ \E j \in DOMAIN t.members :
                             /\ t.members[j].name = Fields[f][2]
                             /\ PlainMember(t, j)
                             /\ t.members[j].offset = 8 * offsets[f]
  <2>1. MayLoad /\ offsets = ResolveOffsets(b).at
    BY <1>6 DEF Life
  <2>2. Attested(a) /\ ResolveOffsets(b).error = ""
    BY <1>3, <2>1 DEF MayLoad
  <2>3. /\ Describes(b) /\ \A f \in DOMAIN Fields : found[f].error = ""
        /\ offsets = [f \in DOMAIN Fields |-> found[f].at]
    BY <1>4, <1>5, <2>1, <2>2
  <2>. HIDE DEF a, b, found
  <2>4. ASSUME NEW f \in DOMAIN Fields
        PROVE  \E i \in DOMAIN b.types :
                 /\ b.types[i].kind = BTF_KIND_STRUCT /\ b.types[i].name = Fields[f][1]
                 /\ \E j \in DOMAIN b.types[i].members :
                      /\ b.types[i].members[j].name = Fields[f][2]
                      /\ PlainMember(b.types[i], j)
                      /\ b.types[i].members[j].offset = 8 * offsets[f]
    <3>1. offsets[f] = found[f].at /\ found[f].error = ""
      BY <2>3
    <3>2. FieldOffsets(b.types)[f].error = "" =>
            \E i \in DOMAIN b.types :
              /\ b.types[i].kind = BTF_KIND_STRUCT /\ b.types[i].name = Fields[f][1]
              /\ \E j \in DOMAIN b.types[i].members :
                   /\ b.types[i].members[j].name = Fields[f][2]
                   /\ PlainMember(b.types[i], j)
                   /\ b.types[i].members[j].offset = 8 * FieldOffsets(b.types)[f].at
      BY <1>2, FieldOffsetsExact
    <3>3. FieldOffsets(b.types)[f].error = "" /\ FieldOffsets(b.types)[f].at = offsets[f]
      BY <3>1 DEF found
    <3>. QED  BY <3>2, <3>3
  <2>. QED  BY <2>2, <2>3, <2>4
<1>7. ASSUME exit = "refused"
      PROVE  \/ ~ Attested(a) \/ ~ Describes(b)
             \/ \E f \in DOMAIN Fields :
                  LET structs == {t \in Range(b.types) :
                                    t.kind = BTF_KIND_STRUCT /\ t.name = Fields[f][1]}
                  IN  structs = {} \/ \E t \in structs : ~ HasPlain(t, Fields[f][2])
  <2>1. VerifyStartup(a) # "Ok" \/ ResolveOffsets(b).error # ""
    BY <1>7 DEF Life, MayLoad
  <2>2. CASE VerifyStartup(a) # "Ok"
    BY <1>3, <2>2
  <2>3. CASE ResolveOffsets(b).error # ""
    <3>1. ~ Describes(b) \/ \E f \in DOMAIN Fields : found[f].error # ""
      BY <1>4, <1>5, <2>3
    <3>. HIDE DEF a, b
    <3>. QED  BY <1>2, <3>1, FieldOffsetsExact
  <2>. QED  BY <2>1, <2>2, <2>3
<1>. QED  BY <1>6, <1>7 DEF OnlyAttestedCodeRuns

\* Nothing is loaded, attached or started unless the objects are attested and the
\* offsets are those of plain members, and an agent is refused only for a fault
\* (bytecode_attestation.rs, btf_offsets.rs, startup.rs): for every release, and
\* type information with any number of types and members.
THEOREM OnlyAttested == Spec => []OnlyAttestedCodeRuns
BY LifeInit, LifeStep, LifeAttested, PTL DEF Spec

-----------------------------------------------------------------------------
(***************************************************************************)
(* What is recorded of an exec.                                            *)
(***************************************************************************)
\* The slots are full and nobody can say whether more follows.
CutUnseen(argv, slots) ==
  /\ slots = SubSeq(argv, 1, ArgSlots)
  /\ Len(argv) > ArgSlots /\ argv[ArgSlots + 1] = "no_pointer"

\* The arguments are all there, or marked as truncated, or the place behind the
\* slots cannot be read.
LEMMA ArgvMarked ==
  ASSUME NEW argv \in Seq(STRING), NEW null
  PROVE  \/ ArgvOf(argv, null).slots = argv \/ ArgvOf(argv, null).flags # {}
         \/ CutUnseen(argv, ArgvOf(argv, null).slots)
<1>1. CASE null
  BY <1>1 DEF ArgvOf
<1>2. CASE ~ null
  <2>. DEFINE C == CopiedArgs(argv)  n == Cardinality(C)
  <2>1. Len(argv) \in Nat /\ ArgSlots \in Nat \ {0}
    BY CaptureAssumption
  <2>2. C \subseteq 1 .. ArgSlots /\ C \subseteq 1 .. Len(argv)
    BY <2>1 DEF CopiedArgs
  <2>3. /\ IsFiniteSet(1 .. ArgSlots) /\ Cardinality(1 .. ArgSlots) = ArgSlots
        /\ IsFiniteSet(1 .. Len(argv)) /\ Cardinality(1 .. Len(argv)) = Len(argv)
    <3>1. /\ IsFiniteSet(1 .. ArgSlots) /\ IsFiniteSet(1 .. Len(argv))
          /\ Cardinality(1 .. ArgSlots) = IF 1 > ArgSlots THEN 0 ELSE ArgSlots - 1 + 1
          /\ Cardinality(1 .. Len(argv)) = IF 1 > Len(argv) THEN 0 ELSE Len(argv) - 1 + 1
      BY <2>1, FS_Interval
    <3>. QED  BY <2>1, <3>1
  <2>4. n \in Nat /\ n <= ArgSlots /\ n <= Len(argv)
    <3>. HIDE DEF C
    <3>1. C \in SUBSET (1 .. ArgSlots) /\ C \in SUBSET (1 .. Len(argv))
      BY <2>2
    <3>2. IsFiniteSet(C) /\ Cardinality(C) <= Cardinality(1 .. ArgSlots)
          /\ Cardinality(C) <= Cardinality(1 .. Len(argv))
      BY <2>3, <3>1, FS_Subset
    <3>3. Cardinality(C) \in Nat
      BY <3>2, FS_CardinalityType
    <3>. QED  BY <2>3, <3>2, <3>3
  <2>5. /\ ArgvOf(argv, null).slots = SubSeq(argv, 1, n)
        /\ ArgvOf(argv, null).flags = Marked("PROBE_FAULT", n < ArgSlots /\ n < Len(argv))
                           \cup Marked("ARGC_TRUNCATED", n = ArgSlots /\ MoreArgs(argv))
    BY <1>2 DEF ArgvOf
  <2>. HIDE DEF n
  <2>6. CASE n = Len(argv)
    <3>1. SubSeq(argv, 1, n) = argv
      BY <2>1, <2>6
    <3>. QED  BY <2>5, <3>1
  <2>7. CASE n # Len(argv)
    <3>1. n < Len(argv) /\ (n < ArgSlots \/ n = ArgSlots)
      BY <2>1, <2>4, <2>7
    <3>2. CASE n < ArgSlots
      BY <2>5, <3>1, <3>2 DEF Marked
    <3>3. CASE n = ArgSlots /\ MoreArgs(argv)
      BY <2>5, <3>3 DEF Marked
    <3>4. CASE n = ArgSlots /\ ~ MoreArgs(argv)
      BY <2>1, <2>5, <3>1, <3>4 DEF CutUnseen, MoreArgs
    <3>. QED  BY <3>1, <3>2, <3>3, <3>4
  <2>. QED  BY <2>6, <2>7
<1>. QED  BY <1>1, <1>2

\* What may be in a slot of the environment: nothing, or an allowlisted variable
\* of V.
GoodSlot(V) == {EmptySlot} \cup {v \in V : v.name \in DOMAIN EnvSlot}
GoodEnv(V, env) ==
  /\ DOMAIN env = {"slots", "trunc", "flags"}
  /\ env.slots \in [1 .. EnvSlots -> GoodSlot(V)]

\* Setting a bit of the status word changes no slot.
LEMMA FlagGood ==
  ASSUME NEW V, NEW env, GoodEnv(V, env), NEW f
  PROVE  GoodEnv(V, [env EXCEPT !.flags = f])
BY DEF GoodEnv

\* An empty environment.
LEMMA NoEnvGood == ASSUME NEW V PROVE GoodEnv(V, NoEnv)
<1>1. [i \in 1 .. EnvSlots |-> EmptySlot] \in [1 .. EnvSlots -> GoodSlot(V)]
  BY DEF GoodSlot
<1>2. NoEnv.slots \in [1 .. EnvSlots -> GoodSlot(V)]
  BY <1>1 DEF NoEnv
<1>. QED  BY <1>2 DEF GoodEnv, NoEnv

\* One turn of the scan keeps that.
LEMMA StoreEnvGood ==
  ASSUME NEW V, NEW env, GoodEnv(V, env), NEW v \in V
  PROVE  GoodEnv(V, StoreEnv(env, v))
<1>. DEFINE k == EnvSlot[v.name]
<1>1. \A f : GoodEnv(V, [env EXCEPT !.flags = f])
  BY FlagGood
<1>2. CASE v = EnvFault
  <2>1. StoreEnv(env, v) = [env EXCEPT !.flags = env.flags \cup {"PROBE_FAULT"}]
    BY <1>2 DEF StoreEnv
  <2>. QED  BY <1>1, <2>1
<1>3. CASE v # EnvFault /\ v.name \notin DOMAIN EnvSlot
  BY <1>3 DEF StoreEnv
<1>4. CASE v # EnvFault /\ v.name \in DOMAIN EnvSlot
  <2>1. k \in 1 .. EnvSlots
    BY <1>4 DEF EnvSlot, EnvSlots
  <2>2. v \in GoodSlot(V)
    BY <1>4 DEF GoodSlot
  <2>. HIDE DEF k
  <2>3. ASSUME NEW s PROVE GoodEnv(V, [env EXCEPT !.slots[k] = v, !.trunc = s])
    <3>1. /\ DOMAIN [env EXCEPT !.slots[k] = v, !.trunc = s] = {"slots", "trunc", "flags"}
          /\ [env EXCEPT !.slots[k] = v, !.trunc = s].slots = [env.slots EXCEPT ![k] = v]
      BY DEF GoodEnv
    <3>2. [env.slots EXCEPT ![k] = v] \in [1 .. EnvSlots -> GoodSlot(V)]
      BY <2>1, <2>2 DEF GoodEnv
    <3>. QED  BY <3>1, <3>2 DEF GoodEnv
  <2>4. CASE v.name = "SSLKEYLOGFILE" /\ env.slots[8] # EmptySlot
    <3>1. StoreEnv(env, v) = [env EXCEPT !.flags = env.flags \cup {"SLOTS_FULL"}]
      BY <1>4, <2>4 DEF StoreEnv
    <3>. QED  BY <1>1, <3>1
  <2>5. CASE ~ (v.name = "SSLKEYLOGFILE" /\ env.slots[8] # EmptySlot)
    <3>1. StoreEnv(env, v)
            = [env EXCEPT !.slots[k] = v,
                          !.trunc = IF "long" \in v.value THEN @ \cup {k} ELSE @]
      BY <1>4, <2>5 DEF StoreEnv, k
    <3>. QED  BY <2>3, <3>1
  <2>. QED  BY <2>4, <2>5
<1>. QED  BY <1>2, <1>3, <1>4

\* The scan as a function of the number of variables read so far.
Scans(envp, n, scan) ==
  scan = [j \in 0 .. n |-> IF j = 0 THEN NoEnv ELSE StoreEnv(scan[j - 1], envp[j])]

\* There is such a function for every number of variables.
LEMMA ScanExists ==
  ASSUME NEW envp, NEW n \in Nat  PROVE \E scan : Scans(envp, n, scan)
<1>. DEFINE T == {m \in Nat : ~ \E scan : Scans(envp, m, scan)}
<1>. SUFFICES ASSUME T # {} PROVE FALSE
  OBVIOUS
<1>1. PICK m \in T : \A k \in T : m <= k
  BY LeastNat
<1>2. CASE m = 0
  <2>1. Scans(envp, 0, [j \in 0 .. 0 |-> NoEnv])
    BY DEF Scans
  <2>. QED  BY <1>2, <2>1
<1>3. CASE m # 0
  <2>1. m - 1 \in Nat /\ m - 1 \notin T
    BY <1>1, <1>3
  <2>2. PICK scan : Scans(envp, m - 1, scan)
    BY <2>1
  <2>. DEFINE new == [j \in 0 .. m |-> IF j = m THEN StoreEnv(scan[m - 1], envp[m]) ELSE scan[j]]
  <2>3. \A j \in 0 .. m - 1 : new[j] = scan[j]
    BY <2>1
  <2>4. \A j \in 0 .. m : new[j] = IF j = 0 THEN NoEnv ELSE StoreEnv(new[j - 1], envp[j])
    <3>. SUFFICES ASSUME NEW j \in 0 .. m
                  PROVE  new[j] = IF j = 0 THEN NoEnv ELSE StoreEnv(new[j - 1], envp[j])
      OBVIOUS
    <3>1. CASE j = m
      <4>1. new[j] = StoreEnv(scan[m - 1], envp[m]) /\ new[j - 1] = scan[m - 1]
        BY <1>3, <2>1, <2>3, <3>1
      <4>. QED  BY <1>3, <3>1, <4>1
    <3>2. CASE j # m
      <4>1. j \in 0 .. m - 1 /\ (j # 0 => j - 1 \in 0 .. m - 1)
        BY <2>1, <3>2
      <4>2. scan[j] = IF j = 0 THEN NoEnv ELSE StoreEnv(scan[j - 1], envp[j])
        BY <2>2, <4>1 DEF Scans
      <4>. HIDE DEF new
      <4>. QED  BY <2>3, <4>1, <4>2
    <3>. QED  BY <3>1, <3>2
  <2>5. new = [j \in 0 .. m |-> new[j]]
    OBVIOUS
  <2>. HIDE DEF new
  <2>6. Scans(envp, m, new)
    BY <2>4, <2>5 DEF Scans
  <2>. QED  BY <2>6
<1>. QED  BY <1>2, <1>3

\* The variables of an environment.
Vars(envp) == {envp[i] : i \in DOMAIN envp}

\* The scan stores allowlisted variables of the environment only.
LEMMA ScanGood ==
  ASSUME NEW envp \in Seq(EnvVar), NEW n \in Nat, n <= Len(envp),
         NEW scan, Scans(envp, n, scan)
  PROVE  \A j \in 0 .. n : GoodEnv(Vars(envp), scan[j])
<1>. DEFINE T == {m \in Nat : m <= n /\ ~ GoodEnv(Vars(envp), scan[m])}
<1>. SUFFICES ASSUME T # {} PROVE FALSE
  OBVIOUS
<1>1. PICK m \in T : \A k \in T : m <= k
  BY LeastNat
<1>2. scan[m] = IF m = 0 THEN NoEnv ELSE StoreEnv(scan[m - 1], envp[m])
  BY DEF Scans
<1>3. CASE m = 0
  BY <1>2, <1>3, NoEnvGood
<1>4. CASE m # 0
  <2>1. m - 1 \in Nat /\ m - 1 <= n /\ m - 1 \notin T
    BY <1>1, <1>4
  <2>2. GoodEnv(Vars(envp), scan[m - 1])
    BY <2>1
  <2>3. m \in DOMAIN envp
    BY <1>4
  <2>4. envp[m] \in Vars(envp)
    BY <2>3 DEF Vars
  <2>. QED  BY <1>2, <1>4, <2>2, <2>4, StoreEnvGood
<1>. QED  BY <1>3, <1>4

\* A set of places among the first m has at most m members.
LEMMA PlacesBound ==
  ASSUME NEW m \in Nat, NEW C \in SUBSET (1 .. m)
  PROVE  Cardinality(C) \in Nat /\ Cardinality(C) <= m
<1>1. /\ IsFiniteSet(1 .. m)
      /\ Cardinality(1 .. m) = IF 1 > m THEN 0 ELSE m - 1 + 1
  BY FS_Interval
<1>2. IsFiniteSet(C) /\ Cardinality(C) <= Cardinality(1 .. m)
  BY <1>1, FS_Subset
<1>3. Cardinality(C) \in Nat
  BY <1>2, FS_CardinalityType
<1>. QED  BY <1>1, <1>2, <1>3

\* So does the whole capture.
LEMMA EnvOfGood ==
  ASSUME NEW envp \in Seq(EnvVar), NEW null
  PROVE  GoodEnv(Vars(envp), EnvOf(envp, null))
<1>1. CASE null
  BY <1>1, NoEnvGood, FlagGood DEF EnvOf
<1>2. CASE ~ null
  <2>. DEFINE n == Cardinality(ScannedVars(envp))
              scan == CHOOSE scan : scan = [j \in 0 .. n |->
                                      IF j = 0 THEN NoEnv ELSE StoreEnv(scan[j - 1], envp[j])]
  <2>1. EnvOf(envp, null)
          = [scan[n] EXCEPT
               !.flags = @ \cup Marked("PROBE_FAULT", n < EnvScan /\ n < Len(envp))
                           \cup Marked("COUNT_TRUNCATED", n = EnvScan)]
    BY <1>2, Zenon DEF EnvOf
  <2>2. n \in Nat /\ n <= Len(envp) /\ Len(envp) \in Nat
    <3>1. Len(envp) \in Nat
      OBVIOUS
    <3>2. ScannedVars(envp) \in SUBSET (1 .. Len(envp))
      BY <3>1, CaptureAssumption DEF ScannedVars
    <3>. QED  BY <3>1, <3>2, PlacesBound
  <2>3. Scans(envp, n, scan)
    <3>. HIDE DEF n
    <3>1. \E s : s = [j \in 0 .. n |-> IF j = 0 THEN NoEnv ELSE StoreEnv(s[j - 1], envp[j])]
      BY <2>2, ScanExists DEF Scans
    <3>. QED  BY <3>1, Zenon DEF Scans
  <2>. HIDE DEF n, scan
  <2>4. GoodEnv(Vars(envp), scan[n])
    BY <2>2, <2>3, ScanGood
  <2>5. \A f : GoodEnv(Vars(envp), [scan[n] EXCEPT !.flags = f])
    BY <2>4, FlagGood
  <2>. QED  BY <2>1, <2>5
<1>. QED  BY <1>1, <1>2

-----------------------------------------------------------------------------
(***************************************************************************)
(* What an alert says.                                                     *)
(***************************************************************************)
\* s shows the variable v of an exec, redacted when it is a secret in a slot of
\* text.
Shows(s, v) ==
  /\ v.name \in DOMAIN EnvSlot /\ s.name = v.name
  /\ \/ s.value = {"REDACTED"} /\ "secret" \in v.value
     \/ s.value = v.value /\ ("secret" \in s.value => "not_utf8" \in s.value)

\* The telemetry shows allowlisted variables of V only, and no secret in text.
CleanEnv(V, env) ==
  \A j \in DOMAIN env : env[j] = EmptySlot \/ \E v \in V : Shows(env[j], v)

HonestAlert(a) ==
  /\ \/ a.argv = Exec(a.pid).argv \/ a.argv_truncated
     \/ a.argv = <<>> /\ a.pid \in Task /\ task[a.pid] = "reported"
     \/ CutUnseen(Exec(a.pid).argv, a.argv)
  /\ CleanEnv(Vars(Exec(a.pid).envp), a.env)

\* Redaction takes secrets out of text and keeps the names.
LEMMA EnvFieldClean ==
  ASSUME NEW V \in SUBSET EnvVar, NEW env, GoodEnv(V, env)
  PROVE  CleanEnv(V, EnvField(env))
<1>1. ASSUME NEW v \in GoodSlot(V)
      PROVE  Redact(v) = EmptySlot \/ \E w \in V : Shows(Redact(v), w)
  <2>1. CASE v = EmptySlot
    <3>1. "secret" \notin v.value
      BY <2>1 DEF EmptySlot
    <3>. QED  BY <2>1, <3>1 DEF Redact
  <2>2. CASE v \in V /\ v.name \in DOMAIN EnvSlot
    <3>1. v \in EnvVar
      BY <2>2
    <3>2. CASE "secret" \in v.value /\ "not_utf8" \notin v.value
      <4>1. Redact(v) = [v EXCEPT !.value = {"REDACTED"}]
        BY <3>2 DEF Redact
      <4>2. Redact(v).name = v.name /\ Redact(v).value = {"REDACTED"}
        BY <3>1, <4>1 DEF EnvVar
      <4>. QED  BY <2>2, <3>2, <4>2 DEF Shows
    <3>3. CASE ~ ("secret" \in v.value /\ "not_utf8" \notin v.value)
      <4>1. Redact(v) = v
        BY <3>3 DEF Redact
      <4>. QED  BY <2>2, <3>3, <4>1 DEF Shows
    <3>. QED  BY <3>2, <3>3
  <2>. QED  BY <2>1, <2>2 DEF GoodSlot
<1>. DEFINE filled == {i \in 1 .. EnvSlots : env.slots[i] # EmptySlot}
<1>2. EnvLen(env) = Cardinality(filled)
  BY DEF EnvLen
<1>4. EnvLen(env) \in Nat /\ EnvLen(env) <= EnvSlots
  <2>1. filled \in SUBSET (1 .. EnvSlots) /\ EnvSlots \in Nat
    BY DEF EnvSlots
  <2>. QED  BY <1>2, <2>1, PlacesBound
<1>5. ASSUME NEW j \in 1 .. EnvLen(env)
      PROVE  EnvField(env)[j] = Redact(env.slots[j]) /\ env.slots[j] \in GoodSlot(V)
  <2>1. j \in 1 .. EnvSlots
    BY <1>4 DEF EnvSlots
  <2>2. env.slots[j] \in GoodSlot(V)
    BY <2>1 DEF GoodEnv
  <2>. QED  BY <2>2 DEF EnvField
<1>6. DOMAIN EnvField(env) = 1 .. EnvLen(env)
  BY DEF EnvField
<1>. QED  BY <1>1, <1>5, <1>6 DEF CleanEnv

\* An alert about a record of the tracepoint is honest.
LEMMA TraceHonest ==
  ASSUME NEW t, Exec(t) \in ExecImage
  PROVE  HonestAlert(SiemAlert(Telemetry(TraceEvent(t, Exec(t)))))
<1>. DEFINE x == Exec(t)
            e == TraceEvent(t, x)
            a == SiemAlert(Telemetry(e))
            v == ArgvOf(x.argv, "ARGV_NULL" \in x.faults)
            env == EnvOf(x.envp, "ENVP_NULL" \in x.faults)
<1>1. x.argv \in Seq(STRING) /\ x.envp \in Seq(EnvVar)
  BY DEF ExecImage
<1>2. e.pid = t /\ e.argv = v /\ e.env = env
  BY DEF TraceEvent
<1>3. v.slots = x.argv \/ v.flags # {} \/ CutUnseen(x.argv, v.slots)
  BY <1>1, ArgvMarked
<1>4. GoodEnv(Vars(x.envp), env) /\ Vars(x.envp) \in SUBSET EnvVar
  BY <1>1, EnvOfGood DEF Vars
<1>. HIDE DEF x, e, v, env
<1>5. /\ a.pid = e.pid /\ a.argv = e.argv.slots /\ (e.argv.flags # {} => a.argv_truncated)
      /\ a.env = EnvField(e.env)
  BY DEF SiemAlert, Telemetry
<1>6. CleanEnv(Vars(x.envp), a.env)
  BY <1>2, <1>4, <1>5, EnvFieldClean
<1>7. a.argv = Exec(a.pid).argv \/ a.argv_truncated \/ CutUnseen(Exec(a.pid).argv, a.argv)
  BY <1>2, <1>3, <1>5 DEF x
<1>8. CleanEnv(Vars(Exec(a.pid).envp), a.env)
  BY <1>2, <1>5, <1>6 DEF x
<1>. HIDE DEF a
<1>9. HonestAlert(a)
  BY <1>7, <1>8 DEF HonestAlert
<1>. QED  BY <1>9 DEF a, e, x

\* An alert about a record of the LSM program is, once the exec is reported.
LEMMA BlockedHonest ==
  ASSUME NEW t \in Task, task[t] = "reported"
  PROVE  HonestAlert(SiemAlert(Telemetry(BlockedEvent(t, Exec(t)))))
<1>. DEFINE e == BlockedEvent(t, Exec(t))
            a == SiemAlert(Telemetry(e))
<1>1. e.pid = t /\ e.argv.slots = <<>> /\ e.env = NoEnv
  BY DEF BlockedEvent
<1>. HIDE DEF e
<1>2. a.pid = e.pid /\ a.argv = e.argv.slots /\ a.env = EnvField(e.env)
  BY DEF SiemAlert, Telemetry
<1>3. CleanEnv({}, a.env)
  BY <1>1, <1>2, NoEnvGood, EnvFieldClean
<1>5. CleanEnv(Vars(Exec(a.pid).envp), a.env)
  BY <1>3 DEF CleanEnv
<1>. HIDE DEF a
<1>4. HonestAlert(a)
  BY <1>1, <1>2, <1>5 DEF HonestAlert
<1>. QED  BY <1>4 DEF a, e

\* The alerts are a sequence of honest ones.
HonestSeq(s) ==
  \E S : s \in Seq(S) /\ \A a \in S : a.severity = "CRITICAL_ALERT" => HonestAlert(a)

\* The pipeline adds honest alerts.
LEMMA ProcessHonest ==
  ASSUME NEW ev, HonestSeq(alerts), HonestAlert(SiemAlert(ev)), Process(ev)
  PROVE  \E S : alerts' \in Seq(S) /\ \A a \in S : a.severity = "CRITICAL_ALERT" => HonestAlert(a)
<1>1. PICK S : alerts \in Seq(S) /\ \A a \in S : a.severity = "CRITICAL_ALERT" => HonestAlert(a)
  BY DEF HonestSeq
<1>. DEFINE S2 == S \cup {BehaviorAlert(ev), SiemAlert(ev)}
<1>2. PICK u, w : /\ u \in {<<>>, <<BehaviorAlert(ev)>>} /\ w \in {<<>>, <<SiemAlert(ev)>>}
                  /\ alerts' = (alerts \o u) \o w
  BY DEF Process
<1>3. u \in Seq(S2) /\ w \in Seq(S2)
  <2>1. <<>> \in Seq(S2) /\ <<BehaviorAlert(ev)>> \in Seq(S2) /\ <<SiemAlert(ev)>> \in Seq(S2)
    OBVIOUS
  <2>. QED  BY <1>2, <2>1
<1>4. alerts \in Seq(S2)
  BY <1>1
<1>5. BehaviorAlert(ev).severity # "CRITICAL_ALERT"
  BY DEF BehaviorAlert
<1>6. \A a \in S2 : a.severity = "CRITICAL_ALERT" => HonestAlert(a)
  BY <1>1, <1>5
<1>. HIDE DEF S2
<1>7. alerts' \in Seq(S2)
  <2>1. alerts \o u \in Seq(S2)
    BY <1>3, <1>4, ConcatProperties
  <2>. QED  BY <1>2, <1>3, <2>1, ConcatProperties
<1>. QED  BY <1>6, <1>7

-----------------------------------------------------------------------------
(***************************************************************************)
(* What is under way.                                                      *)
(***************************************************************************)
Whole   == {TraceEvent(t, Exec(t)) : t \in DOMAIN plan.execs}
Blocked == {BlockedEvent(t, Exec(t)) : t \in {u \in Task : task[u] = "reported"}}

\* Every record and every event is one of an exec, and the ring of the LSM program
\* holds those of reported execs.
Items ==
  /\ task = [t \in Task |-> task[t]]
  /\ \A t \in Task : task[t] # "none" => t \in DOMAIN plan.execs
  /\ procRing.q \in Seq({Discarded} \cup Whole) /\ telemRing.q \in Seq(Blocked)
  /\ procCh \in Seq(Whole) /\ detCh \in Seq({Telemetry(e) : e \in Whole})
  /\ DOMAIN names \subseteq Task
  /\ HonestSeq(alerts)

\* It holds with what an earlier agent left.
LEMMA ItemsInit == Init => Items
<1>. SUFFICES ASSUME Init PROVE Items
  OBVIOUS
<1>1. /\ plan.left \in Seq(DOMAIN plan.execs) /\ DOMAIN plan.execs \subseteq Task
  BY PlanAssumption DEF Init
<1>2. /\ procRing.q = [i \in DOMAIN plan.left |-> TraceEvent(plan.left[i], Exec(plan.left[i]))]
      /\ telemRing.q = <<>> /\ procCh = <<>> /\ detCh = <<>> /\ names = <<>> /\ alerts = <<>>
  BY DEF Init, ExecInit, EmptyRing
<1>3. procRing.q \in Seq({Discarded} \cup Whole)
  <2>. DEFINE n == Len(plan.left)  Q == {Discarded} \cup Whole
  <2>1. n \in Nat /\ DOMAIN plan.left = 1 .. n
    BY <1>1
  <2>2. \A i \in 1 .. n : procRing.q[i] \in Q
    BY <1>1, <1>2, <2>1 DEF Whole
  <2>3. procRing.q = [i \in 1 .. n |-> procRing.q[i]]
    BY <1>2, <2>1
  <2>. HIDE DEF Q, n
  <2>4. procRing.q \in Seq(Q)
    BY <2>1, <2>2, <2>3
  <2>. QED  BY <2>4 DEF Q
<1>4. HonestSeq(alerts)
  <2>1. \A S : S = {} => /\ <<>> \in Seq(S)
                         /\ \A a \in S : a.severity = "CRITICAL_ALERT" => HonestAlert(a)
    BY EmptySeq
  <2>2. HonestSeq(<<>>)
    BY <2>1, Zenon DEF HonestSeq
  <2>. QED  BY <1>2, <2>2
<1>5. task = [t \in Task |-> task[t]]
  <2>1. task = [t \in Task |-> CASE t \notin DOMAIN plan.execs -> "none"
                                 [] t \in Range(plan.left) -> "runs"
                                 [] OTHER -> "start"]
    BY DEF Init, ExecInit
  <2>. QED  BY <2>1
<1>6. ASSUME NEW t \in Task, t \notin DOMAIN plan.execs PROVE task[t] = "none"
  <2>1. t \notin Range(plan.left)
    BY <1>1, <1>6 DEF Range
  <2>2. task[t] = CASE t \notin DOMAIN plan.execs -> "none"
                    [] t \in Range(plan.left) -> "runs"
                    [] OTHER -> "start"
    BY DEF Init, ExecInit
  <2>. QED  BY <1>6, <2>1, <2>2
<1>. QED  BY <1>2, <1>3, <1>4, <1>5, <1>6, EmptySeq DEF Items

\* What is under way moves on, or is lost with the process.
LEMMA ItemsKept ==
  ASSUME Items, UNCHANGED <<plan, task, names, alerts>>,
         procRing'.q \in {procRing.q, <<>>}, telemRing'.q = telemRing.q,
         procCh' \in {procCh, <<>>}, detCh' \in {detCh, <<>>}
  PROVE  Items'
<1>1. Whole' = Whole /\ Blocked' = Blocked
  BY DEF Whole, Blocked, Exec
<1>2. HonestSeq(alerts)'
  BY DEF Items, HonestSeq, HonestAlert, Exec
<1>3. /\ procRing'.q \in Seq({Discarded} \cup Whole) /\ procCh' \in Seq(Whole)
      /\ detCh' \in Seq({Telemetry(e) : e \in Whole})
  BY EmptySeq DEF Items
<1>. QED  BY <1>1, <1>2, <1>3 DEF Items

\* An exec goes on: what was reported stays reported.
LEMMA ItemsTask ==
  ASSUME Items, UNCHANGED <<plan, names, alerts, procCh, detCh>>,
         NEW t \in Task, NEW st \in {"check", "runs", "denied", "lost", "reported"},
         task[t] \in {"start", "check"},
         task' = [task EXCEPT ![t] = st],
         procRing'.q \in Seq({Discarded} \cup Whole),
         telemRing'.q \in Seq(Blocked')
  PROVE  Items'
<1>1. Whole' = Whole
  BY DEF Whole, Exec
<1>2. /\ \A u \in Task : task[u] = "reported" => task'[u] = "reported"
      /\ \A u \in Task : task'[u] # "none" => task[u] # "none"
      /\ task' = [u \in Task |-> task'[u]]
  BY DEF Items
<1>3. \A a : HonestAlert(a) => HonestAlert(a)'
  BY <1>2 DEF HonestAlert, Exec
<1>4. HonestSeq(alerts)'
  <2>1. PICK S : alerts \in Seq(S) /\ \A a \in S : a.severity = "CRITICAL_ALERT" => HonestAlert(a)
    BY DEF Items, HonestSeq
  <2>2. alerts' \in Seq(S) /\ \A a \in S : a.severity = "CRITICAL_ALERT" => HonestAlert(a)'
    BY <1>3, <2>1
  <2>. QED  BY <2>2 DEF HonestSeq
<1>. QED  BY <1>1, <1>2, <1>4 DEF Items

\* The tracepoint commits a whole record, a discarded one or none.
LEMMA ItemsSysEnter ==
  ASSUME Items, Flow, NEW t \in Task, SysEnter(t)
  PROVE  Items'
<1>1. /\ task[t] = "start" /\ task' = [task EXCEPT ![t] = "check"]
      /\ UNCHANGED <<plan, telemRing, procCh, detCh, names, alerts>>
  BY DEF SysEnter, pipevars
<1>2. \/ procRing' = procRing \/ procRing' = Commit(procRing, Discarded)
      \/ procRing' = Commit(procRing, TraceEvent(t, Exec(t)))
  BY DEF SysEnter
<1>3. TraceEvent(t, Exec(t)) \in Whole
  BY <1>1 DEF Items, Whole
<1>4. \A x : Commit(procRing, x).q = Append(procRing.q, x)
  BY DEF Flow, Pollers, RingShape, Commit
<1>5. procRing'.q \in Seq({Discarded} \cup Whole)
  <2>1. procRing.q \in Seq({Discarded} \cup Whole)
    BY DEF Items
  <2>2. \A x \in {Discarded} \cup Whole : Append(procRing.q, x) \in Seq({Discarded} \cup Whole)
    BY <2>1, AppendProperties
  <2>. QED  BY <1>2, <1>3, <1>4, <2>1, <2>2
<1>6. Blocked' = Blocked
  BY <1>1 DEF Blocked, Exec, Items
<1>7. telemRing'.q \in Seq(Blocked')
  BY <1>1, <1>6 DEF Items
<1>. QED  BY <1>1, <1>5, <1>7, ItemsTask

\* The LSM program reports an exec with its record.
LEMMA ItemsBprmCheck ==
  ASSUME Items, Flow, NEW t \in Task, BprmCheck(t)
  PROVE  Items'
<1>1. /\ task[t] = "check"
      /\ UNCHANGED <<plan, procRing, procCh, detCh, names, alerts>>
  BY DEF BprmCheck, pipevars
<1>2. procRing'.q \in Seq({Discarded} \cup Whole)
  BY <1>1 DEF Items
<1>3. CASE telemRing' = Commit(telemRing, BlockedEvent(t, Exec(t))) /\ task' = [task EXCEPT ![t] = "reported"]
  <2>1. telemRing'.q = Append(telemRing.q, BlockedEvent(t, Exec(t)))
    BY <1>3 DEF Flow, Pollers, RingShape, Commit
  <2>2. \A u \in Task : task'[u] = "reported" <=> u = t \/ task[u] = "reported"
    BY <1>3 DEF Items
  <2>3. Blocked' = Blocked \cup {BlockedEvent(t, Exec(t))}
    BY <1>1, <2>2 DEF Blocked, Exec
  <2>4. telemRing.q \in Seq(Blocked')
    BY <2>3 DEF Items
  <2>5. telemRing'.q \in Seq(Blocked')
    BY <2>1, <2>3, <2>4, AppendProperties
  <2>6. task[t] \in {"start", "check"} /\ UNCHANGED <<plan, names, alerts, procCh, detCh>>
    BY <1>1
  <2>. QED  BY <1>2, <1>3, <2>5, <2>6, ItemsTask
<1>4. ASSUME NEW st, st \in {"runs", "denied", "lost"}, telemRing' = telemRing, task' = [task EXCEPT ![t] = st]
      PROVE  Items'
  <2>1. \A u \in Task : task'[u] = "reported" <=> task[u] = "reported"
    BY <1>1, <1>4 DEF Items
  <2>2. Blocked' = Blocked
    BY <1>1, <2>1 DEF Blocked, Exec
  <2>3. telemRing'.q \in Seq(Blocked')
    BY <1>4, <2>2 DEF Items
  <2>4. /\ task[t] \in {"start", "check"} /\ UNCHANGED <<plan, names, alerts, procCh, detCh>>
        /\ st \in {"check", "runs", "denied", "lost", "reported"}
    BY <1>1, <1>4
  <2>. QED  BY <1>2, <1>4, <2>3, <2>4, ItemsTask
<1>5. \/ telemRing' = Commit(telemRing, BlockedEvent(t, Exec(t))) /\ task' = [task EXCEPT ![t] = "reported"]
      \/ \E st \in {"runs", "denied", "lost"} : telemRing' = telemRing /\ task' = [task EXCEPT ![t] = st]
  BY DEF BprmCheck
<1>. QED  BY <1>3, <1>4, <1>5

\* The poller passes whole records on.
LEMMA ItemsPollerNext == Items /\ Flow /\ PollerNext => Items'
<1>. SUFFICES ASSUME Items, Flow, PollerNext PROVE Items'
  OBVIOUS
<1>. DEFINE e == Head(procRing.q)
<1>1. /\ UNCHANGED <<plan, task, names, alerts, telemRing, detCh>> /\ procRing.q # <<>>
      /\ procRing' \in {Consume(procRing), Abandon(Consume(procRing))}
      /\ procCh' = procCh \/ (procCh' = Append(procCh, e) /\ e # Discarded)
  BY DEF PollerNext, kernelvars, pipevars
<1>2. procRing'.q = Tail(procRing.q)
  <2>1. procRing \in RingShape(ProcItem)
    BY DEF Flow, Pollers
  <2>2. Consume(procRing) \in RingShape(ProcItem) /\ Consume(procRing).q = Tail(procRing.q)
    BY <1>1, <2>1, RingConsume
  <2>3. Abandon(Consume(procRing)).q = Tail(procRing.q)
    BY <2>2, RingLeave
  <2>. QED  BY <1>1, <2>2, <2>3
<1>3. procRing.q \in Seq({Discarded} \cup Whole) /\ procCh \in Seq(Whole)
  BY DEF Items
<1>4. Tail(procRing.q) \in Seq({Discarded} \cup Whole) /\ e \in {Discarded} \cup Whole
  BY <1>1, <1>3, HeadTailProperties
<1>. HIDE DEF e
<1>5. procCh' \in Seq(Whole)
  BY <1>1, <1>3, <1>4, AppendProperties
<1>6. Whole' = Whole /\ Blocked' = Blocked
  BY <1>1 DEF Whole, Blocked, Exec
<1>7. HonestSeq(alerts)'
  BY <1>1 DEF Items, HonestSeq, HonestAlert, Exec
<1>. QED  BY <1>1, <1>2, <1>4, <1>5, <1>6, <1>7 DEF Items

\* The worker registers a process of the node and passes its telemetry on.
LEMMA ItemsWorkerStep == Items /\ Life /\ WorkerStep => Items'
<1>. SUFFICES ASSUME Items, Life, WorkerStep PROVE Items'
  OBVIOUS
<1>. DEFINE e == Head(procCh)
<1>1. /\ UNCHANGED <<plan, task, alerts, procRing, telemRing>> /\ procCh # <<>>
      /\ procCh' = Tail(procCh) /\ names' = RegisterProcess(e)
      /\ detCh' = detCh \/ detCh' = Append(detCh, Telemetry(e))
  BY DEF WorkerStep, kernelvars, pipevars
<1>2. procCh \in Seq(Whole) /\ detCh \in Seq({Telemetry(x) : x \in Whole})
  BY DEF Items
<1>3. Tail(procCh) \in Seq(Whole) /\ e \in Whole
  BY <1>1, <1>2, HeadTailProperties
<1>. HIDE DEF e
<1>4. detCh' \in Seq({Telemetry(x) : x \in Whole})
  BY <1>1, <1>2, <1>3, AppendProperties
<1>5. e.pid \in Task
  <2>1. DOMAIN plan.execs \subseteq Task
    BY PlanAssumption DEF Life
  <2>. QED  BY <1>3, <2>1 DEF Whole, TraceEvent
<1>6. DOMAIN names' \subseteq Task
  <2>1. CASE e.pid = 0
    BY <1>1, <2>1 DEF RegisterProcess, Items
  <2>2. CASE e.pid # 0
    <3>1. DOMAIN names' = DOMAIN names \cup {e.pid}
      BY <1>1, <2>2 DEF RegisterProcess, Insert
    <3>. QED  BY <1>5, <3>1 DEF Items
  <2>. QED  BY <2>1, <2>2
<1>7. Whole' = Whole /\ Blocked' = Blocked
  BY <1>1 DEF Whole, Blocked, Exec
<1>8. HonestSeq(alerts)'
  BY <1>1 DEF Items, HonestSeq, HonestAlert, Exec
<1>. QED  BY <1>1, <1>3, <1>4, <1>6, <1>7, <1>8 DEF Items

\* The pipeline adds an alert about an event of which an alert is honest.
LEMMA ItemsProcess ==
  ASSUME Items, NEW ev, HonestAlert(SiemAlert(ev)), Process(ev),
         UNCHANGED <<plan, task, names, procRing, procCh>>,
         telemRing'.q \in Seq(Blocked), detCh' \in Seq({Telemetry(e) : e \in Whole})
  PROVE  Items'
<1>1. Whole' = Whole /\ Blocked' = Blocked
  BY DEF Whole, Blocked, Exec
<1>2. \A a : HonestAlert(a)' <=> HonestAlert(a)
  BY DEF HonestAlert, Exec
<1>3. HonestSeq(alerts)
  BY DEF Items
<1>4. \E S : alerts' \in Seq(S) /\ \A a \in S : a.severity = "CRITICAL_ALERT" => HonestAlert(a)
  BY <1>3, ProcessHonest
<1>5. HonestSeq(alerts)'
  BY <1>2, <1>4 DEF HonestSeq
<1>. QED  BY <1>1, <1>5 DEF Items

\* The event loop takes the record of a reported exec, or the telemetry of a whole
\* record.
LEMMA ItemsLoopStep == Items /\ Life /\ Flow /\ LoopStep => Items'
<1>. SUFFICES ASSUME Items, Life, Flow, LoopStep PROVE Items'
  OBVIOUS
<1>1. telemRing \in RingShape(TelemItem)
  BY DEF Flow, Pollers
<1>2. CASE LoopEnter \/ LoopLeave
  <2>1. /\ UNCHANGED <<plan, task, names, alerts, procRing, procCh, detCh>>
        /\ telemRing' \in {Enter(telemRing), Leave(telemRing)}
        /\ telemRing' = Enter(telemRing) => CanEnter(telemRing) \/ telemRing' = Leave(telemRing)
    BY <1>2 DEF LoopEnter, LoopLeave, kernelvars, pipevars
  <2>2. telemRing'.q = telemRing.q
    BY <1>1, <2>1, RingEnter, RingLeave
  <2>. QED  BY <2>1, <2>2, ItemsKept
<1>3. CASE LoopNext
  <2>. DEFINE r == Head(telemRing.q)
  <2>1. /\ UNCHANGED <<plan, task, names, procRing, procCh, detCh>> /\ telemRing.q # <<>>
        /\ telemRing' = Consume(telemRing)
        /\ alerts' = alerts \/ Process(Telemetry(r))
    BY <1>3 DEF LoopNext, kernelvars, pipevars
  <2>2. telemRing'.q = Tail(telemRing.q)
    BY <1>1, <2>1, RingConsume
  <2>3. telemRing.q \in Seq(Blocked) /\ detCh' \in Seq({Telemetry(e) : e \in Whole})
    BY <2>1 DEF Items
  <2>4. Tail(telemRing.q) \in Seq(Blocked) /\ r \in Blocked
    BY <2>1, <2>3, HeadTailProperties
  <2>. HIDE DEF r
  <2>5. HonestAlert(SiemAlert(Telemetry(r)))
    <3>1. PICK t \in {u \in Task : task[u] = "reported"} : r = BlockedEvent(t, Exec(t))
      BY <2>4 DEF Blocked
    <3>. QED  BY <3>1, BlockedHonest
  <2>6. CASE Process(Telemetry(r))
    BY <2>1, <2>2, <2>3, <2>4, <2>5, <2>6, ItemsProcess
  <2>7. CASE alerts' = alerts
    <3>1. Whole' = Whole /\ Blocked' = Blocked
      BY <2>1 DEF Whole, Blocked, Exec
    <3>2. HonestSeq(alerts)'
      BY <2>1, <2>7 DEF Items, HonestSeq, HonestAlert, Exec
    <3>. QED  BY <2>1, <2>2, <2>4, <3>1, <3>2 DEF Items
  <2>. QED  BY <2>1, <2>6, <2>7
<1>4. CASE LoopDetect
  <2>. DEFINE ev == Head(detCh)
  <2>1. /\ UNCHANGED <<plan, task, names, procRing, telemRing, procCh>> /\ detCh # <<>>
        /\ detCh' = Tail(detCh) /\ Process(ev)
    BY <1>4 DEF LoopDetect, kernelvars
  <2>2. telemRing'.q \in Seq(Blocked) /\ detCh \in Seq({Telemetry(e) : e \in Whole})
    BY <2>1 DEF Items
  <2>3. detCh' \in Seq({Telemetry(e) : e \in Whole}) /\ ev \in {Telemetry(e) : e \in Whole}
    BY <2>1, <2>2, HeadTailProperties
  <2>. HIDE DEF ev
  <2>4. HonestAlert(SiemAlert(ev))
    <3>1. PICK t \in DOMAIN plan.execs : ev = Telemetry(TraceEvent(t, Exec(t)))
      BY <2>3 DEF Whole
    <3>2. Exec(t) \in ExecImage
      <4>1. plan.execs \in [DOMAIN plan.execs -> ExecImage]
        BY PlanAssumption DEF Life
      <4>. QED  BY <4>1 DEF Exec
    <3>. QED  BY <3>1, <3>2, TraceHonest
  <2>. QED  BY <2>1, <2>2, <2>3, <2>4, ItemsProcess
<1>. QED  BY <1>2, <1>3, <1>4 DEF LoopStep

\* Every step keeps what is under way.
LEMMA ItemsStep == Items /\ Life /\ Flow /\ [Next]_vars => Items'
<1>. SUFFICES ASSUME Items, Life, Flow, [Next]_vars PROVE Items'
  OBVIOUS
<1>0. /\ procRing \in RingShape(ProcItem) /\ telemRing \in RingShape(TelemItem)
      /\ \A x : [procRing EXCEPT !.ready = x].q = procRing.q
      /\ \A x : [telemRing EXCEPT !.ready = x].q = telemRing.q
  BY DEF Flow, Pollers, RingShape
<1>1. CASE UNCHANGED execvars
  <2>1. UNCHANGED <<plan, task, names, alerts, procRing, telemRing, procCh, detCh>>
    BY <1>1 DEF execvars, kernelvars, pipevars
  <2>. QED  BY <2>1, ItemsKept
<1>2. CASE Attest
  <2>1. UNCHANGED <<plan, task, names, alerts, procRing, telemRing, procCh, detCh>>
    BY <1>2 DEF Attest, kernelvars
  <2>. QED  BY <2>1, ItemsKept
<1>3. CASE ArmVisibility
  <2>1. /\ UNCHANGED <<plan, task, names, alerts, telemRing, procCh, detCh>>
        /\ procRing' = [ReusedRing EXCEPT !.ready = ReusedRing.q # <<>>]
    BY <1>3 DEF ArmVisibility, StartMonitors, kernelvars
  <2>2. procRing'.q \in {procRing.q, <<>>}
    BY <1>0, <2>1 DEF ReusedRing, EmptyRing
  <2>. QED  BY <2>1, <2>2, ItemsKept
<1>4. CASE ExecEnd
  <2>1. /\ UNCHANGED <<plan, task, names, alerts>> /\ procCh' = <<>> /\ detCh' = <<>>
        /\ procRing' = Abandon(procRing) /\ telemRing' = Abandon(telemRing)
    BY <1>4 DEF ExecEnd, Abandon, kernelvars
  <2>2. procRing'.q = procRing.q /\ telemRing'.q = telemRing.q
    BY <1>0, <2>1, RingLeave
  <2>. QED  BY <2>1, <2>2, ItemsKept
<1>5. CASE UNCHANGED <<kernelvars, procRing, telemRing, procCh, detCh, names, alerts>>
  BY <1>5, ItemsKept DEF kernelvars
<1>6. CASE NetExit
  <2>1. UNCHANGED <<plan, task, names, alerts, procRing, telemRing, procCh, detCh>>
    BY <1>6 DEF NetExit, kernelvars, pipevars
  <2>. QED  BY <2>1, ItemsKept
<1>7. CASE ExecSteps
  <2>1. ASSUME NEW t \in Task, SysEnter(t) PROVE Items'
    BY <2>1, ItemsSysEnter
  <2>2. ASSUME NEW t \in Task, BprmCheck(t) PROVE Items'
    BY <2>2, ItemsBprmCheck
  <2>3. CASE Tick \/ HealthSample
    <3>1. UNCHANGED <<plan, task, names, alerts, procRing, telemRing, procCh, detCh>>
      BY <2>3 DEF Tick, HealthSample, kernelvars, pipevars
    <3>. QED  BY <3>1, ItemsKept
  <2>4. CASE StartLoop
    <3>1. /\ UNCHANGED <<plan, task, names, alerts, procRing, procCh, detCh>>
          /\ telemRing' = [telemRing EXCEPT !.ready = telemRing.q # <<>>]
      BY <2>4 DEF StartLoop, kernelvars
    <3>. QED  BY <1>0, <3>1, ItemsKept
  <2>5. CASE PollerEnter
    <3>1. /\ UNCHANGED <<plan, task, names, alerts, telemRing, procCh, detCh>>
          /\ CanEnter(procRing) /\ procRing' = Enter(procRing)
      BY <2>5 DEF PollerEnter, kernelvars, pipevars
    <3>2. procRing'.q = procRing.q
      BY <1>0, <3>1, RingEnter
    <3>. QED  BY <3>1, <3>2, ItemsKept
  <2>6. CASE PollerNext
    BY <2>6, ItemsPollerNext
  <2>7. CASE PollerLeave
    <3>1. /\ UNCHANGED <<plan, task, names, alerts, telemRing, procCh, detCh>>
          /\ procRing' = Leave(procRing)
      BY <2>7 DEF PollerLeave, kernelvars, pipevars
    <3>2. procRing'.q = procRing.q
      BY <1>0, <3>1, RingLeave
    <3>. QED  BY <3>1, <3>2, ItemsKept
  <2>8. CASE WorkerStep
    BY <2>8, ItemsWorkerStep
  <2>9. CASE MonitorExit
    <3>1. /\ UNCHANGED <<plan, task, names, alerts, procRing, telemRing, detCh>>
          /\ procCh' \in {procCh, <<>>}
      BY <2>9 DEF MonitorExit, kernelvars, pipevars
    <3>. QED  BY <3>1, ItemsKept
  <2>10. CASE LoopStep
    BY <2>10, ItemsLoopStep
  <2>11. CASE LoopSignal
    <3>1. UNCHANGED <<plan, task, names, alerts, procRing, telemRing, procCh, detCh>>
      BY <2>11 DEF LoopSignal, kernelvars
    <3>. QED  BY <3>1, ItemsKept
  <2>. QED
    BY <1>7, <2>1, <2>2, <2>3, <2>4, <2>5, <2>6, <2>7, <2>8, <2>9, <2>10, <2>11 DEF ExecSteps
<1>8. CASE Next
  BY <1>8, <1>1, <1>2, <1>3, <1>4, <1>5, <1>6, <1>7, Steps
<1>9. CASE UNCHANGED vars
  BY <1>1, <1>9 DEF vars
<1>. QED  BY <1>8, <1>9

\* Honest alerts are what the property asks for.
LEMMA ItemsHonest == Items => AlertsAreHonest
<1>. SUFFICES ASSUME Items, NEW i \in DOMAIN alerts, alerts[i].severity = "CRITICAL_ALERT"
              PROVE  HonestAlert(alerts[i])
  <2>1. ASSUME NEW i \in DOMAIN alerts, HonestAlert(alerts[i])
        PROVE  LET a == alerts[i]
                   x == Exec(a.pid)
               IN  \A j \in DOMAIN a.env :
                     a.env[j] = EmptySlot \/ \E k \in DOMAIN x.envp : Shows(a.env[j], x.envp[k])
    BY <2>1, Zenon DEF HonestAlert, CleanEnv, Vars
  <2>. QED  BY <2>1, Zenon DEF AlertsAreHonest, HonestAlert, Shows, CutUnseen
<1>1. PICK S : alerts \in Seq(S) /\ \A a \in S : a.severity = "CRITICAL_ALERT" => HonestAlert(a)
  BY DEF Items, HonestSeq
<1>2. alerts[i] \in S
  BY <1>1
<1>. QED  BY <1>1, <1>2

\* A critical alert never says more than the exec it is about and never less without
\* saying so (sys_exec.bpf.c, exec_mapper.rs, env_capture.rs, rules.rs), for every
\* number of slots, any arguments and environments, and any records left behind.
THEOREM AlertsHonest == Spec => []AlertsAreHonest
BY CounterInit, CounterStep, FlowInit, FlowStep, LifeInit, LifeStep, ItemsInit, ItemsStep,
   ItemsHonest, PTL DEF Spec

-----------------------------------------------------------------------------
(***************************************************************************)
(* Bursts.                                                                 *)
(***************************************************************************)
\* Those of the first n entries that are later than c.
Later(s, n, c) == {i \in 1 .. n : s[i] > c}

\* There are finitely many.
LEMMA LaterFinite ==
  ASSUME NEW s, NEW n \in Nat, NEW c
  PROVE  IsFiniteSet(Later(s, n, c)) /\ Cardinality(Later(s, n, c)) \in Nat
<1>1. IsFiniteSet(1 .. n) /\ Later(s, n, c) \in SUBSET (1 .. n)
  BY FS_Interval DEF Later
<1>2. IsFiniteSet(Later(s, n, c))
  BY <1>1, FS_Subset
<1>. QED  BY <1>2, FS_CardinalityType

\* One more entry counts when it is later.
LEMMA LaterNext ==
  ASSUME NEW s, NEW n \in Nat, NEW c
  PROVE  Cardinality(Later(s, n + 1, c))
           = IF s[n + 1] > c THEN Cardinality(Later(s, n, c)) + 1 ELSE Cardinality(Later(s, n, c))
<1>1. CASE s[n + 1] > c
  <2>1. Later(s, n + 1, c) = Later(s, n, c) \cup {n + 1} /\ n + 1 \notin Later(s, n, c)
    BY <1>1 DEF Later
  <2>. QED  BY <1>1, <2>1, LaterFinite, FS_AddElement
<1>2. CASE ~ (s[n + 1] > c)
  <2>1. Later(s, n + 1, c) = Later(s, n, c)
    BY <1>2 DEF Later
  <2>. QED  BY <1>2, <2>1
<1>. QED  BY <1>1, <1>2

\* So does a new one.
LEMMA LaterAppend ==
  ASSUME NEW s \in Seq(Int), NEW x \in Int, NEW c
  PROVE  Cardinality(Later(Append(s, x), Len(Append(s, x)), c))
           = IF x > c THEN Cardinality(Later(s, Len(s), c)) + 1 ELSE Cardinality(Later(s, Len(s), c))
<1>1. /\ Len(s) \in Nat /\ Len(Append(s, x)) = Len(s) + 1 /\ Append(s, x)[Len(s) + 1] = x
      /\ \A i \in 1 .. Len(s) : Append(s, x)[i] = s[i]
  OBVIOUS
<1>2. Later(Append(s, x), Len(s), c) = Later(s, Len(s), c)
  BY <1>1 DEF Later
<1>. QED  BY <1>1, <1>2, LaterNext

\* When all are later, all count.
LEMMA LaterAll ==
  ASSUME NEW s \in Seq(Int), NEW c, \A i \in 1 .. Len(s) : s[i] > c
  PROVE  Cardinality(Later(s, Len(s), c)) = Len(s)
<1>1. Later(s, Len(s), c) = 1 .. Len(s) /\ Len(s) \in Nat
  BY DEF Later
<1>2. Cardinality(1 .. Len(s)) = IF 1 > Len(s) THEN 0 ELSE Len(s) - 1 + 1
  BY <1>1, FS_Interval
<1>. QED  BY <1>1, <1>2

\* retain as a function of the number of entries looked at.
Keeps(entries, span, n, kept) ==
  kept = [i \in 0 .. n |-> IF i = 0 THEN <<>>
                           ELSE IF now - entries[i] < span THEN Append(kept[i - 1], entries[i])
                           ELSE kept[i - 1]]

\* There is such a function for every number of entries.
LEMMA KeepsExists ==
  ASSUME NEW entries, NEW span, NEW n \in Nat  PROVE \E kept : Keeps(entries, span, n, kept)
<1>. DEFINE T == {m \in Nat : ~ \E kept : Keeps(entries, span, m, kept)}
<1>. SUFFICES ASSUME T # {} PROVE FALSE
  OBVIOUS
<1>1. PICK m \in T : \A k \in T : m <= k
  BY LeastNat
<1>2. CASE m = 0
  <2>1. Keeps(entries, span, 0, [j \in 0 .. 0 |-> <<>>])
    BY DEF Keeps
  <2>. QED  BY <1>2, <2>1
<1>3. CASE m # 0
  <2>1. m - 1 \in Nat /\ m - 1 \notin T
    BY <1>1, <1>3
  <2>2. PICK kept : Keeps(entries, span, m - 1, kept)
    BY <2>1
  <2>. DEFINE last == IF now - entries[m] < span THEN Append(kept[m - 1], entries[m]) ELSE kept[m - 1]
              new  == [j \in 0 .. m |-> IF j = m THEN last ELSE kept[j]]
  <2>. HIDE DEF last
  <2>3. \A j \in 0 .. m - 1 : new[j] = kept[j]
    BY <2>1
  <2>4. \A j \in 0 .. m : new[j] = IF j = 0 THEN <<>>
                                   ELSE IF now - entries[j] < span THEN Append(new[j - 1], entries[j])
                                   ELSE new[j - 1]
    <3>. SUFFICES ASSUME NEW j \in 0 .. m
                  PROVE  new[j] = IF j = 0 THEN <<>>
                                  ELSE IF now - entries[j] < span THEN Append(new[j - 1], entries[j])
                                  ELSE new[j - 1]
      OBVIOUS
    <3>1. CASE j = m
      <4>1. new[j] = last /\ new[j - 1] = kept[m - 1]
        BY <1>3, <2>1, <2>3, <3>1
      <4>. HIDE DEF new
      <4>. QED  BY <1>3, <3>1, <4>1 DEF last
    <3>2. CASE j # m
      <4>1. j \in 0 .. m - 1 /\ (j # 0 => j - 1 \in 0 .. m - 1)
        BY <2>1, <3>2
      <4>2. kept[j] = IF j = 0 THEN <<>>
                      ELSE IF now - entries[j] < span THEN Append(kept[j - 1], entries[j])
                      ELSE kept[j - 1]
        BY <2>2, <4>1 DEF Keeps
      <4>. HIDE DEF new
      <4>. QED  BY <2>3, <4>1, <4>2
    <3>. QED  BY <3>1, <3>2
  <2>5. new = [j \in 0 .. m |-> new[j]]
    OBVIOUS
  <2>. HIDE DEF new
  <2>6. Keeps(entries, span, m, new)
    BY <2>4, <2>5 DEF Keeps
  <2>. QED  BY <2>6
<1>. QED  BY <1>2, <1>3

\* What was kept of the first n entries: all that a later look at the window counts.
KeptWell(entries, span, n, k) ==
  /\ k \in Seq(Int) /\ \A j \in 1 .. Len(k) : k[j] > now - span
  /\ \A c \in Int : c >= now - span =>
       Cardinality(Later(k, Len(k), c)) = Cardinality(Later(entries, n, c))

\* Of no entry nothing is kept.
LEMMA KeptNone == ASSUME NEW entries, NEW span PROVE KeptWell(entries, span, 0, <<>>)
<1>1. <<>> \in Seq(Int) /\ Len(<<>>) = 0
  BY EmptySeq
<1>2. \A c : Later(<<>>, 0, c) = {} /\ Later(entries, 0, c) = {}
  BY DEF Later
<1>3. \A c : Later(<<>>, Len(<<>>), c) = Later(entries, 0, c)
  BY <1>1, <1>2
<1>4. \A j \in 1 .. Len(<<>>) : FALSE
  BY <1>1
<1>. QED  BY <1>1, <1>3, <1>4, Zenon DEF KeptWell

\* It is kept well, entry by entry.
LEMMA KeepsWell ==
  ASSUME NEW entries \in Seq(Int), NEW span \in Int, now \in Int, NEW n \in Nat, n <= Len(entries),
         NEW kept, Keeps(entries, span, n, kept)
  PROVE  \A j \in 0 .. n : KeptWell(entries, span, j, kept[j])
<1>. DEFINE T == {m \in Nat : m <= n /\ ~ KeptWell(entries, span, m, kept[m])}
<1>. SUFFICES ASSUME T # {} PROVE FALSE
  OBVIOUS
<1>1. PICK m \in T : \A k \in T : m <= k
  BY LeastNat
<1>2. kept[m] = IF m = 0 THEN <<>>
                ELSE IF now - entries[m] < span THEN Append(kept[m - 1], entries[m])
                ELSE kept[m - 1]
  <2>1. m \in 0 .. n
    OBVIOUS
  <2>. HIDE DEF T
  <2>. QED  BY <2>1 DEF Keeps
<1>3. CASE m = 0
  <2>1. kept[m] = <<>>
    BY <1>2, <1>3
  <2>. QED  BY <1>3, <2>1, KeptNone
<1>4. CASE m # 0
  <2>. DEFINE k == kept[m - 1]  x == entries[m]
  <2>1. m - 1 \in Nat /\ m - 1 <= n /\ m - 1 \notin T /\ m \in 1 .. Len(entries)
    BY <1>1, <1>4
  <2>2. KeptWell(entries, span, m - 1, k)
    BY <2>1
  <2>3. x \in Int
    BY <2>1, ElementOfSeq
  <2>4. kept[m] = IF now - x < span THEN Append(k, x) ELSE k
    BY <1>2, <1>4
  <2>. HIDE DEF k
  <2>5. k \in Seq(Int) /\ Len(k) \in Nat /\ \A j \in 1 .. Len(k) : k[j] > now - span
    BY <2>2 DEF KeptWell
  <2>6. ASSUME NEW c \in Int
        PROVE  Cardinality(Later(entries, m, c))
                 = IF x > c THEN Cardinality(Later(entries, m - 1, c)) + 1
                            ELSE Cardinality(Later(entries, m - 1, c))
    <3>1. (m - 1) + 1 = m
      BY <2>1
    <3>2. Cardinality(Later(entries, (m - 1) + 1, c))
            = IF entries[(m - 1) + 1] > c THEN Cardinality(Later(entries, m - 1, c)) + 1
                                          ELSE Cardinality(Later(entries, m - 1, c))
      BY <2>1, LaterNext
    <3>. QED  BY <3>1, <3>2
  <2>. HIDE DEF x
  <2>7. CASE now - x < span
    <3>1. kept[m] = Append(k, x)
      BY <2>4, <2>7
    <3>2. /\ Append(k, x) \in Seq(Int) /\ Len(Append(k, x)) = Len(k) + 1
          /\ \A j \in 1 .. Len(k) : Append(k, x)[j] = k[j]
          /\ Append(k, x)[Len(k) + 1] = x
      BY <2>3, <2>5
    <3>3. x > now - span
      BY <2>3, <2>7
    <3>4. \A j \in 1 .. Len(Append(k, x)) : Append(k, x)[j] > now - span
      <4>. SUFFICES ASSUME NEW j \in 1 .. Len(k) + 1 PROVE Append(k, x)[j] > now - span
        BY <3>2
      <4>1. CASE j = Len(k) + 1
        BY <3>2, <3>3, <4>1
      <4>2. CASE j # Len(k) + 1
        <5>1. j \in 1 .. Len(k)
          BY <2>5, <4>2
        <5>. QED  BY <2>5, <3>2, <5>1
      <4>. QED  BY <4>1, <4>2
    <3>5. ASSUME NEW c \in Int, c >= now - span
          PROVE  Cardinality(Later(Append(k, x), Len(Append(k, x)), c)) = Cardinality(Later(entries, m, c))
      <4>1. Cardinality(Later(k, Len(k), c)) = Cardinality(Later(entries, m - 1, c))
        BY <2>2, <3>5 DEF KeptWell
      <4>. QED  BY <2>3, <2>5, <2>6, <4>1, LaterAppend
    <3>. QED  BY <3>1, <3>2, <3>4, <3>5 DEF KeptWell
  <2>8. CASE ~ (now - x < span)
    <3>1. kept[m] = k
      BY <2>4, <2>8
    <3>2. ASSUME NEW c \in Int, c >= now - span
          PROVE  Cardinality(Later(k, Len(k), c)) = Cardinality(Later(entries, m, c))
      <4>1. Cardinality(Later(k, Len(k), c)) = Cardinality(Later(entries, m - 1, c))
        BY <2>2, <3>2 DEF KeptWell
      <4>2. ~ (x > c)
        BY <2>3, <2>8, <3>2
      <4>. QED  BY <2>6, <4>1, <4>2
    <3>. QED  BY <2>5, <3>1, <3>2 DEF KeptWell
  <2>. QED  BY <2>7, <2>8
<1>. QED  BY <1>3, <1>4

\* What retain keeps.
LEMMA RetainWell ==
  ASSUME NEW entries \in Seq(Int), NEW span \in Int, now \in Int
  PROVE  KeptWell(entries, span, Len(entries), Retain(entries, span))
<1>. DEFINE n    == Len(entries)
            kept == CHOOSE kept : kept = [i \in 0 .. Len(entries) |->
                      IF i = 0 THEN <<>>
                      ELSE IF now - entries[i] < span THEN Append(kept[i - 1], entries[i])
                      ELSE kept[i - 1]]
<1>1. Retain(entries, span) = kept[n]
  BY Zenon DEF Retain
<1>2. n \in Nat
  OBVIOUS
<1>3. Keeps(entries, span, n, kept)
  <2>1. \E k : Keeps(entries, span, n, k)
    BY <1>2, KeepsExists
  <2>2. \E k : k = [i \in 0 .. Len(entries) |->
                      IF i = 0 THEN <<>>
                      ELSE IF now - entries[i] < span THEN Append(k[i - 1], entries[i])
                      ELSE k[i - 1]]
    BY <2>1, Zenon DEF Keeps
  <2>. QED  BY <2>2, Zenon DEF Keeps
<1>. HIDE DEF kept
<1>4. KeptWell(entries, span, n, kept[n])
  <2>1. n <= Len(entries) /\ n \in 0 .. n
    BY <1>2
  <2>. HIDE DEF n
  <2>. QED  BY <1>2, <1>3, <2>1, KeepsWell
<1>. QED  BY <1>1, <1>4

\* The bucket of a key, and the events of the history that belong in it.
Bucket(k) == IF k \in DOMAIN spawns THEN spawns[k] ELSE <<>>
Seen(k, c) == {j \in DOMAIN hist : hist[j].key = k /\ hist[j].at > c}

\* Whatever part of the window is looked at, a bucket has as many entries in it as
\* the history has events.
Windows ==
  \A k : Counted(k) =>
    /\ Bucket(k) \in Seq(Int)
    /\ \A c \in Int : c >= now - Window =>
         Cardinality(Later(Bucket(k), Len(Bucket(k)), c)) = Cardinality(Seen(k, c))

Bursts ==
  /\ now \in Nat
  /\ \E K : hist \in Seq([key : K, at : Int, burst : BOOLEAN])
  /\ Windows
  /\ BurstsAreExact

\* At first both are empty.
LEMMA BurstsInit == Init => Bursts
<1>. SUFFICES ASSUME Init PROVE Bursts
  OBVIOUS
<1>1. now = 0 /\ hist = <<>> /\ spawns = <<>>
  BY DEF Init, ExecInit
<1>2. <<>> \in Seq(Int) /\ Len(<<>>) = 0 /\ DOMAIN <<>> = {}
  BY EmptySeq
<1>3. \A k : Bucket(k) = <<>>
  BY <1>1, <1>2 DEF Bucket
<1>4. \A k, c : Later(<<>>, Len(<<>>), c) = {} /\ Seen(k, c) = {}
  BY <1>1, <1>2 DEF Later, Seen
<1>5. Windows
  BY <1>2, <1>3, <1>4, Zenon DEF Windows
<1>6. BurstsAreExact
  BY <1>1, <1>2 DEF BurstsAreExact
<1>7. \A K : <<>> \in Seq([key : K, at : Int, burst : BOOLEAN])
  BY EmptySeq
<1>. QED  BY <1>1, <1>5, <1>6, <1>7 DEF Bursts

\* Time passes, or nothing that concerns the normalizer happens.
LEMMA BurstsKept ==
  ASSUME Bursts, UNCHANGED <<spawns, hist>>, now' \in Nat, now' >= now
  PROVE  Bursts'
<1>1. \A k, c : Bucket(k)' = Bucket(k) /\ Seen(k, c)' = Seen(k, c)
  BY DEF Bucket, Seen
<1>2. \A c \in Int : c >= now' - Window => c >= now - Window
  BY TelemetryAssumption DEF Bursts
<1>3. Windows'
  <2>. SUFFICES ASSUME NEW k, Counted(k)
                PROVE  /\ Bucket(k)' \in Seq(Int)
                       /\ \A c \in Int : c >= now' - Window =>
                            Cardinality(Later(Bucket(k)', Len(Bucket(k)'), c)) = Cardinality(Seen(k, c)')
    BY DEF Windows
  <2>. QED  BY <1>1, <1>2 DEF Bursts, Windows
<1>4. BurstsAreExact'
  BY DEF Bursts, BurstsAreExact
<1>. QED  BY <1>3, <1>4 DEF Bursts

\* The events of a key that the history has, and how a new event changes them.
LEMMA SeenFinite ==
  ASSUME NEW H, hist \in Seq(H), NEW k, NEW c
  PROVE  IsFiniteSet(Seen(k, c)) /\ Cardinality(Seen(k, c)) \in Nat
<1>1. IsFiniteSet(1 .. Len(hist)) /\ Seen(k, c) \in SUBSET (1 .. Len(hist))
  BY FS_Interval DEF Seen
<1>2. IsFiniteSet(Seen(k, c))
  BY <1>1, FS_Subset
<1>. QED  BY <1>2, FS_CardinalityType

\* The pipeline counts an event.
LEMMA BurstsProcess ==
  ASSUME Bursts, NEW ev, Process(ev), now' = now
  PROVE  Bursts'
<1>. DEFINE key == SpawnKey(ev)
            new == [key |-> key, at |-> now, burst |-> Burst(key)]
            n   == Len(hist)
<1>1. /\ hist' = Append(hist, new)
      /\ spawns' = IF Counted(key) THEN Insert(spawns, key, Append(Recent(key), now)) ELSE spawns
  BY DEF Process
<1>2. PICK K : hist \in Seq([key : K, at : Int, burst : BOOLEAN])
  BY DEF Bursts
<1>3. /\ now \in Int /\ Window \in Int /\ BurstThreshold \in Int /\ n \in Nat
  BY <1>2, TelemetryAssumption DEF Bursts
<1>4. Burst(key) \in BOOLEAN /\ (Burst(key) <=> Counted(key) /\ Len(Recent(key)) + 1 >= BurstThreshold)
  BY DEF Burst
<1>5. new.key = key /\ new.at = now /\ new.burst = Burst(key)
  OBVIOUS
<1>6. \E L : hist' \in Seq([key : L, at : Int, burst : BOOLEAN])
  <2>. DEFINE L == K \cup {key}
              H == [key : K, at : Int, burst : BOOLEAN]
              G == [key : L, at : Int, burst : BOOLEAN]
  <2>1. H \subseteq G
    OBVIOUS
  <2>2. new \in G
    <3>. HIDE DEF key
    <3>1. key \in L
      OBVIOUS
    <3>. HIDE DEF L
    <3>. QED  BY <1>3, <1>4, <3>1, Zenon
  <2>. HIDE DEF L, H, G, new
  <2>3. hist \in Seq(G)
    <3>1. hist \in Seq(H)
      BY <1>2 DEF H
    <3>. QED  BY <2>1, <3>1
  <2>4. hist' \in Seq(G)
    BY <1>1, <2>2, <2>3, AppendProperties
  <2>. QED  BY <2>4 DEF G
<1>. HIDE DEF key, new
<1>7. /\ DOMAIN hist = 1 .. n /\ DOMAIN hist' = 1 .. n + 1 /\ hist'[n + 1] = new
      /\ \A i \in 1 .. n : hist'[i] = hist[i] /\ hist[i].at \in Int
  <2>. DEFINE H == [key : K, at : Int, burst : BOOLEAN]
  <2>1. hist \in Seq(H) /\ \A h \in H : h.at \in Int
    BY <1>2
  <2>. HIDE DEF H
  <2>2. DOMAIN hist = 1 .. n /\ \A i \in 1 .. n : hist[i] \in H
    BY <2>1
  <2>3. DOMAIN hist' = 1 .. n + 1 /\ hist'[n + 1] = new /\ \A i \in 1 .. n : hist'[i] = hist[i]
    BY <1>1, <2>1
  <2>. QED  BY <2>1, <2>2, <2>3
<1>. HIDE DEF n
<1>8. ASSUME NEW k, NEW c
      PROVE  Cardinality(Seen(k, c)') = IF k = key /\ now > c THEN Cardinality(Seen(k, c)) + 1
                                                              ELSE Cardinality(Seen(k, c))
  <2>1. CASE k = key /\ now > c
    <3>1. Seen(k, c)' = Seen(k, c) \cup {n + 1} /\ n + 1 \notin Seen(k, c)
      BY <1>3, <1>5, <1>7, <2>1 DEF Seen
    <3>. QED  BY <1>2, <2>1, <3>1, SeenFinite, FS_AddElement
  <2>2. CASE ~ (k = key /\ now > c)
    <3>1. Seen(k, c)' = Seen(k, c)
      BY <1>3, <1>5, <1>7, <2>2 DEF Seen
    <3>. QED  BY <2>2, <3>1
  <2>. QED  BY <2>1, <2>2
<1>9. ASSUME NEW k, Counted(k) PROVE KeptWell(Bucket(k), Window, Len(Bucket(k)), Recent(k))
  <2>1. CASE k \in DOMAIN spawns
    <3>1. Bucket(k) = spawns[k] /\ Bucket(k) \in Seq(Int) /\ Recent(k) = Retain(spawns[k], Window)
      BY <1>9, <2>1 DEF Bursts, Windows, Bucket, Recent
    <3>. QED  BY <1>3, <3>1, RetainWell
  <2>2. CASE k \notin DOMAIN spawns
    <3>1. Bucket(k) = <<>> /\ Recent(k) = <<>> /\ Len(<<>>) = 0
      BY <2>2, EmptySeq DEF Bucket, Recent
    <3>. QED  BY <3>1, KeptNone
  <2>. QED  BY <2>1, <2>2
<1>10. ASSUME NEW k, Counted(k), NEW c \in Int, c >= now - Window
       PROVE  Cardinality(Later(Recent(k), Len(Recent(k)), c)) = Cardinality(Seen(k, c))
  <2>1. Cardinality(Later(Recent(k), Len(Recent(k)), c))
          = Cardinality(Later(Bucket(k), Len(Bucket(k)), c))
    BY <1>9, <1>10 DEF KeptWell
  <2>. QED  BY <1>10, <2>1 DEF Bursts, Windows
<1>11. Windows'
  <2>. SUFFICES ASSUME NEW k, Counted(k)
                PROVE  /\ Bucket(k)' \in Seq(Int)
                       /\ \A c \in Int : c >= now - Window =>
                            Cardinality(Later(Bucket(k)', Len(Bucket(k)'), c)) = Cardinality(Seen(k, c)')
    BY DEF Windows
  <2>1. CASE k = key
    <3>1. Bucket(k)' = Append(Recent(k), now)
      BY <1>1, <2>1 DEF Bucket, Insert
    <3>2. Recent(k) \in Seq(Int)
      BY <1>9 DEF KeptWell
    <3>3. Append(Recent(k), now) \in Seq(Int)
      BY <1>3, <3>2, AppendProperties
    <3>4. ASSUME NEW c \in Int, c >= now - Window
          PROVE  Cardinality(Later(Append(Recent(k), now), Len(Append(Recent(k), now)), c))
                   = Cardinality(Seen(k, c)')
      <4>1. Cardinality(Later(Append(Recent(k), now), Len(Append(Recent(k), now)), c))
              = IF now > c THEN Cardinality(Later(Recent(k), Len(Recent(k)), c)) + 1
                           ELSE Cardinality(Later(Recent(k), Len(Recent(k)), c))
        BY <1>3, <3>2, LaterAppend
      <4>. QED  BY <1>8, <1>10, <2>1, <3>4, <4>1
    <3>. QED  BY <3>1, <3>3, <3>4
  <2>2. CASE k # key
    <3>1. Bucket(k)' = Bucket(k)
      BY <1>1, <2>2 DEF Bucket, Insert
    <3>2. \A c : Cardinality(Seen(k, c)') = Cardinality(Seen(k, c))
      BY <1>8, <2>2
    <3>. QED  BY <3>1, <3>2 DEF Bursts, Windows
  <2>. QED  BY <2>1, <2>2
<1>12. ASSUME NEW i \in 1 .. n PROVE {j \in 1 .. i : hist'[j].key = hist'[i].key /\ hist'[i].at - hist'[j].at < Window}
                                      = {j \in 1 .. i : hist[j].key = hist[i].key /\ hist[i].at - hist[j].at < Window}
  BY <1>3, <1>7
<1>13. ASSUME Counted(key)
       PROVE  Cardinality({j \in 1 .. n + 1 : hist'[j].key = key /\ now - hist'[j].at < Window})
                = Len(Recent(key)) + 1
  <2>1. {j \in 1 .. n + 1 : hist'[j].key = key /\ now - hist'[j].at < Window}
          = Seen(key, now - Window) \cup {n + 1}
    <3>1. now \in Int /\ Window \in Int /\ Window > 0 /\ n \in Nat
      BY <1>3, <1>5, TelemetryAssumption
    <3>2. hist'[n + 1].key = key /\ hist'[n + 1].at = now
      BY <1>5, <1>7
    <3>3. \A j \in 1 .. n : /\ hist'[j] = hist[j]
                            /\ now - hist[j].at < Window <=> hist[j].at > now - Window
      BY <1>7, <3>1
    <3>4. Seen(key, now - Window)
            = {j \in 1 .. n : hist'[j].key = key /\ now - hist'[j].at < Window}
      BY <1>7, <3>3 DEF Seen
    <3>5. now - hist'[n + 1].at < Window
      BY <3>1, <3>2
    <3>6. 1 .. n + 1 = (1 .. n) \cup {n + 1}
      BY <3>1
    <3>. QED  BY <3>2, <3>4, <3>5, <3>6
  <2>2. n + 1 \notin Seen(key, now - Window)
    BY <1>3, <1>7 DEF Seen
  <2>3. Cardinality(Seen(key, now - Window) \cup {n + 1}) = Cardinality(Seen(key, now - Window)) + 1
    BY <1>2, <2>2, SeenFinite, FS_AddElement
  <2>4. Cardinality(Later(Recent(key), Len(Recent(key)), now - Window)) = Cardinality(Seen(key, now - Window))
    BY <1>3, <1>10, <1>13
  <2>5. Cardinality(Later(Recent(key), Len(Recent(key)), now - Window)) = Len(Recent(key))
    <3>1. Recent(key) \in Seq(Int) /\ \A j \in 1 .. Len(Recent(key)) : Recent(key)[j] > now - Window
      BY <1>9, <1>13 DEF KeptWell
    <3>. QED  BY <3>1, LaterAll
  <2>. QED  BY <2>1, <2>3, <2>4, <2>5
<1>14. BurstsAreExact'
  <2>. SUFFICES ASSUME NEW i \in 1 .. n + 1
                PROVE  hist'[i].burst <=>
                         /\ hist'[i].key # <<"ppid", 0>>
                         /\ BurstThreshold <=
                              Cardinality({j \in 1 .. i : /\ hist'[j].key = hist'[i].key
                                                          /\ hist'[i].at - hist'[j].at < Window})
    BY <1>7 DEF BurstsAreExact
  <2>1. CASE i = n + 1
    <3>1. hist'[i].burst = Burst(key) /\ hist'[i].key = key /\ hist'[i].at = now
      BY <1>5, <1>7, <2>1
    <3>2. Counted(key) <=> key # <<"ppid", 0>>
      BY DEF Counted
    <3>3. Counted(key) => Len(Recent(key)) \in Nat
      BY <1>9 DEF KeptWell
    <3>. QED  BY <1>3, <1>4, <1>13, <2>1, <3>1, <3>2, <3>3
  <2>2. CASE i # n + 1
    <3>1. i \in 1 .. n
      BY <1>3, <2>2
    <3>2. hist[i].burst <=>
            /\ hist[i].key # <<"ppid", 0>>
            /\ BurstThreshold <=
                 Cardinality({j \in 1 .. i : /\ hist[j].key = hist[i].key
                                             /\ hist[i].at - hist[j].at < Window})
      BY <1>7, <3>1 DEF Bursts, BurstsAreExact
    <3>3. hist'[i] = hist[i]
      BY <1>7, <3>1
    <3>. QED  BY <1>12, <3>1, <3>2, <3>3
  <2>. QED  BY <2>1, <2>2
<1>15. now' \in Nat
  BY DEF Bursts
<1>. QED  BY <1>6, <1>11, <1>14, <1>15 DEF Bursts

\* Every step keeps the windows.
LEMMA BurstsStep == Bursts /\ [Next]_vars => Bursts'
<1>. SUFFICES ASSUME Bursts, [Next]_vars PROVE Bursts'
  OBVIOUS
<1>0. now \in Nat /\ now <= now
  BY DEF Bursts
<1>1. CASE UNCHANGED <<now, spawns, hist>>
  BY <1>0, <1>1, BurstsKept
<1>2. CASE ExecSteps
  <2>1. CASE Tick
    <3>1. UNCHANGED <<spawns, hist>> /\ now' = now + 1
      BY <2>1 DEF Tick, pipevars
    <3>2. now' \in Nat /\ now' >= now
      BY <1>0, <3>1
    <3>. QED  BY <3>1, <3>2, BurstsKept
  <2>2. CASE LoopNext
    <3>1. \/ UNCHANGED <<now, spawns, hist>>
          \/ \E ev : Process(ev) /\ now' = now
      BY <2>2 DEF LoopNext, kernelvars, pipevars
    <3>. QED  BY <1>1, <3>1, BurstsProcess
  <2>3. CASE LoopDetect
    <3>1. \E ev : Process(ev) /\ now' = now
      BY <2>3 DEF LoopDetect, kernelvars
    <3>. QED  BY <3>1, BurstsProcess
  <2>4. ASSUME NEW t \in Task, SysEnter(t) \/ BprmCheck(t) PROVE UNCHANGED <<now, spawns, hist>>
    BY <2>4 DEF SysEnter, BprmCheck, pipevars
  <2>5. CASE \/ StartLoop \/ PollerEnter \/ PollerNext \/ PollerLeave \/ WorkerStep \/ MonitorExit
             \/ HealthSample \/ LoopEnter \/ LoopLeave \/ LoopSignal
    <3>1. UNCHANGED <<now, spawns, hist>>
      BY <2>5 DEF StartLoop, PollerEnter, PollerNext, PollerLeave, WorkerStep, MonitorExit,
                  HealthSample, LoopEnter, LoopLeave, LoopSignal, kernelvars, pipevars
    <3>. QED  BY <1>1, <3>1
  <2>. QED  BY <1>1, <1>2, <2>1, <2>2, <2>3, <2>4, <2>5 DEF ExecSteps, LoopStep
<1>3. CASE Attest \/ ArmVisibility \/ ExecEnd \/ NetExit \/ UNCHANGED execvars
  <2>1. UNCHANGED <<now, spawns, hist>>
    BY <1>3 DEF Attest, ArmVisibility, StartMonitors, ExecEnd, NetExit, execvars, kernelvars, pipevars
  <2>. QED  BY <1>1, <2>1
<1>4. CASE UNCHANGED <<kernelvars, spawns, hist>>
  BY <1>1, <1>4 DEF kernelvars
<1>5. CASE Next
  BY <1>5, <1>2, <1>3, <1>4, Steps
<1>6. CASE UNCHANGED vars
  BY <1>3, <1>6 DEF vars
<1>. QED  BY <1>5, <1>6

\* The normalizer prunes its buckets as it goes, and still alerts exactly when the
\* whole history has enough spawns of the same parent (or comm) in the window that
\* ends with the event (normalizer.rs), for every window and threshold.
THEOREM ExactBursts == Spec => []BurstsAreExact
<1>1. Bursts => BurstsAreExact
  BY DEF Bursts
<1>. QED  BY <1>1, BurstsInit, BurstsStep, PTL DEF Spec

-----------------------------------------------------------------------------
(***************************************************************************)
(* Capacities.                                                             *)
(***************************************************************************)
\* The clock stays in the plan, and the rate limiter has at most its tokens and was
\* not refilled in the future.
Clock ==
  /\ plan.seconds \in Nat /\ now \in 0 .. plan.seconds
  /\ bucket \in [last : 0 .. now, tokens : 0 .. MaxTokens]

\* Nothing holds more than it can.
Queues ==
  /\ Len(procRing.q) <= RingCapacity /\ Len(telemRing.q) <= RingCapacity
  /\ Len(netRing.q) <= RingCapacity
  /\ Len(procCh) <= ProcCapacity /\ Len(detCh) <= DetCapacity
  /\ batched \in 0 .. BatchLimit - 1

\* A file has one of the states the checks tell apart.
Files == files \in FileState

\* They hold when the agent starts.
LEMMA SizesInit == Init => Clock /\ Queues /\ Files
<1>. SUFFICES ASSUME Init PROVE Clock /\ Queues /\ Files
  OBVIOUS
<1>0. /\ MaxTokens \in Nat /\ BatchLimit \in Nat \ {0}
      /\ RingCapacity \in Nat /\ ProcCapacity \in Nat /\ DetCapacity \in Nat
  BY TelemetryAssumption
<1>1. Clock
  <2>1. plan.seconds \in Nat
    BY PlanAssumption DEF Init
  <2>2. now = 0 /\ bucket = [last |-> 0, tokens |-> MaxTokens]
    BY DEF Init, ExecInit
  <2>. QED  BY <1>0, <2>1, <2>2 DEF Clock
<1>2. Queues
  <2>1. plan.left \in Seq(DOMAIN plan.execs) /\ Len(plan.left) <= RingCapacity
    BY PlanAssumption DEF Init
  <2>2. /\ procRing.q = [i \in DOMAIN plan.left |-> TraceEvent(plan.left[i], Exec(plan.left[i]))]
        /\ telemRing.q = <<>> /\ netRing.q = <<>> /\ procCh = <<>> /\ detCh = <<>> /\ batched = 0
    BY DEF Init, ExecInit, NetInit, EmptyRing
  <2>3. Len(procRing.q) = Len(plan.left)
    <3>1. Len(plan.left) \in Nat /\ DOMAIN plan.left = 1 .. Len(plan.left)
      BY <2>1
    <3>2. DOMAIN procRing.q = 1 .. Len(plan.left)
      BY <2>2, <3>1
    <3>3. procRing.q \in Seq({Discarded} \cup Whole)
      BY ItemsInit DEF Items
    <3>. QED  BY <3>1, <3>2, <3>3
  <2>4. Len(<<>>) = 0
    BY EmptySeq
  <2>. QED  BY <1>0, <2>1, <2>2, <2>3, <2>4 DEF Queues
<1>3. Files
  BY DEF Init, IntegrityInit, Pristine, Files, FileState
<1>. QED  BY <1>1, <1>2, <1>3

\* The tracepoint takes a token that is there.
LEMMA ClockSysEnter ==
  ASSUME Clock, NEW t \in Task, SysEnter(t)
  PROVE  Clock'
<1>1. /\ UNCHANGED <<plan, now>>
      /\ bucket' \in {bucket, Refilled} \/ (Fate(t) # "rate" /\ bucket' = [Refilled EXCEPT !.tokens = @ - 1])
  BY DEF SysEnter
<1>2. Refilled \in [last : 0 .. now, tokens : 0 .. MaxTokens]
  <2>1. /\ now \in Nat /\ bucket.last \in 0 .. now /\ bucket.tokens \in 0 .. MaxTokens /\ MaxTokens \in Nat
    BY TelemetryAssumption DEF Clock
  <2>2. CASE now > bucket.last
    <3>. DEFINE n == IF bucket.tokens + now - bucket.last > MaxTokens
                       THEN MaxTokens ELSE bucket.tokens + now - bucket.last
    <3>1. Refilled = [last |-> now, tokens |-> n]
      BY <2>2 DEF Refilled
    <3>2. n \in 0 .. MaxTokens /\ now \in 0 .. now
      BY <2>1, <2>2
    <3>. HIDE DEF n
    <3>. QED  BY <3>1, <3>2
  <2>3. CASE ~ (now > bucket.last)
    BY <2>3 DEF Refilled, Clock
  <2>. QED  BY <2>2, <2>3
<1>3. Fate(t) # "rate" => Refilled.tokens # 0
  BY DEF Fate
<1>4. Fate(t) # "rate" => Refilled.tokens - 1 \in 0 .. MaxTokens
  BY <1>2, <1>3, TelemetryAssumption
<1>. HIDE DEF Refilled
<1>5. bucket' \in [last : 0 .. now, tokens : 0 .. MaxTokens]
  BY <1>1, <1>2, <1>4 DEF Clock
<1>. QED  BY <1>1, <1>5 DEF Clock

\* Nobody else touches the clock.
LEMMA ClockStep == Clock /\ [Next]_vars => Clock'
<1>. SUFFICES ASSUME Clock, [Next]_vars PROVE Clock'
  OBVIOUS
<1>1. CASE UNCHANGED <<plan, now, bucket>>
  BY <1>1 DEF Clock
<1>2. CASE ExecSteps
  <2>1. CASE Tick
    <3>1. now < plan.seconds /\ now' = now + 1 /\ UNCHANGED <<plan, bucket>>
      BY <2>1 DEF Tick
    <3>2. now' \in 0 .. plan.seconds /\ 0 .. now \subseteq 0 .. now'
      BY <3>1 DEF Clock
    <3>3. bucket \in [last : 0 .. now', tokens : 0 .. MaxTokens]
      BY <3>2 DEF Clock
    <3>. QED  BY <3>1, <3>2, <3>3 DEF Clock
  <2>2. ASSUME NEW t \in Task, SysEnter(t) PROVE Clock'
    BY <2>2, ClockSysEnter
  <2>3. ASSUME NEW t \in Task, BprmCheck(t) PROVE UNCHANGED <<plan, now, bucket>>
    BY <2>3 DEF BprmCheck
  <2>4. CASE \/ StartLoop \/ PollerEnter \/ PollerNext \/ PollerLeave \/ WorkerStep \/ MonitorExit
             \/ HealthSample \/ LoopStep \/ LoopSignal
    <3>1. UNCHANGED <<plan, now, bucket>>
      BY <2>4 DEF StartLoop, PollerEnter, PollerNext, PollerLeave, WorkerStep, MonitorExit,
                  HealthSample, LoopStep, LoopEnter, LoopNext, LoopLeave, LoopDetect, LoopSignal, kernelvars
    <3>. QED  BY <1>1, <3>1
  <2>. QED  BY <1>1, <1>2, <2>1, <2>2, <2>3, <2>4 DEF ExecSteps
<1>3. CASE Attest \/ ArmVisibility \/ ExecEnd \/ NetExit \/ UNCHANGED execvars
  <2>1. UNCHANGED <<plan, now, bucket>>
    BY <1>3 DEF Attest, ArmVisibility, StartMonitors, ExecEnd, NetExit, execvars, kernelvars
  <2>. QED  BY <1>1, <2>1
<1>4. CASE UNCHANGED kernelvars
  BY <1>1, <1>4 DEF kernelvars
<1>5. CASE Next
  BY <1>5, <1>2, <1>3, <1>4, Steps
<1>6. CASE UNCHANGED vars
  BY <1>3, <1>6 DEF vars
<1>. QED  BY <1>5, <1>6

\* The pipeline clears a full batch.
LEMMA BatchProcess ==
  ASSUME batched \in 0 .. BatchLimit - 1, NEW ev, Process(ev)
  PROVE  batched' \in 0 .. BatchLimit - 1
<1>1. BatchLimit \in Nat \ {0}
  BY TelemetryAssumption
<1>2. batched' = IF batched + 1 >= BatchLimit THEN 0 ELSE batched + 1
  BY DEF Process
<1>. QED  BY <1>1, <1>2

\* What the steps of the exec side do to its queues.
LEMMA QueuesExec ==
  ASSUME Queues, Flow, Items, ExecSteps, UNCHANGED netvars
  PROVE  Queues'
<1>0. /\ RingCapacity \in Nat /\ ProcCapacity \in Nat /\ DetCapacity \in Nat
      /\ procRing \in RingShape(ProcItem) /\ telemRing \in RingShape(TelemItem)
      /\ netRing' = netRing /\ procCh \in Seq(ProcItem) /\ detCh \in Seq({Telemetry(e) : e \in Whole})
  BY TelemetryAssumption DEF Flow, Pollers, Books, Items, netvars
<1>1. procRing.q \in Seq(ProcItem) /\ telemRing.q \in Seq(TelemItem) /\ Len(<<>>) = 0
  BY <1>0, EmptySeq DEF RingShape
<1>2. ASSUME UNCHANGED <<procRing, telemRing, procCh, detCh, batched>> PROVE Queues'
  BY <1>0, <1>2 DEF Queues
<1>3. ASSUME NEW t \in Task, SysEnter(t) PROVE Queues'
  <2>1. /\ UNCHANGED <<telemRing, procCh, detCh, batched>>
        /\ \/ procRing' = procRing
           \/ /\ Fate(t) \in {"fails", "ring"}
              /\ \E x : procRing' = Commit(procRing, x)
    BY <1>3 DEF SysEnter, pipevars
  <2>2. Fate(t) \in {"fails", "ring"} => ~ (Len(procRing.q) >= RingCapacity)
    BY DEF Fate
  <2>3. \A x : Len(Commit(procRing, x).q) = Len(procRing.q) + 1
    <3>1. \A x : Commit(procRing, x).q = Append(procRing.q, x)
      BY <1>0 DEF RingShape, Commit
    <3>2. \A x : procRing.q \in Seq(ProcItem \cup {x})
      BY <1>1
    <3>3. \A x : Len(Append(procRing.q, x)) = Len(procRing.q) + 1
      BY <3>2, AppendProperties
    <3>. QED  BY <3>1, <3>3
  <2>4. Len(procRing'.q) <= RingCapacity
    BY <1>0, <1>1, <2>1, <2>2, <2>3 DEF Queues
  <2>. QED  BY <1>0, <2>1, <2>4 DEF Queues
<1>4. ASSUME NEW t \in Task, BprmCheck(t) PROVE Queues'
  <2>1. /\ UNCHANGED <<procRing, procCh, detCh, batched>>
        /\ \/ telemRing' = telemRing
           \/ Len(telemRing.q) < RingCapacity /\ telemRing' = Commit(telemRing, BlockedEvent(t, Exec(t)))
    BY <1>4 DEF BprmCheck, pipevars
  <2>2. Len(Commit(telemRing, BlockedEvent(t, Exec(t))).q) = Len(telemRing.q) + 1
    <3>1. BlockedEvent(t, Exec(t)) \in TelemItem
      BY DEF TelemItem
    <3>. QED  BY <1>0, <1>1, <3>1, RingCommit, AppendProperties
  <2>3. Len(telemRing'.q) <= RingCapacity
    BY <1>0, <1>1, <2>1, <2>2 DEF Queues
  <2>. QED  BY <1>0, <2>1, <2>3 DEF Queues
<1>5. CASE Tick \/ HealthSample \/ LoopSignal
  <2>1. UNCHANGED <<procRing, telemRing, procCh, detCh, batched>>
    BY <1>5 DEF Tick, HealthSample, LoopSignal, pipevars
  <2>. QED  BY <1>2, <2>1
<1>6. CASE StartLoop
  <2>1. /\ UNCHANGED <<procRing, procCh, detCh, batched>>
        /\ telemRing' = [telemRing EXCEPT !.ready = telemRing.q # <<>>]
    BY <1>6 DEF StartLoop
  <2>2. telemRing'.q = telemRing.q
    BY <1>0, <2>1 DEF RingShape
  <2>. QED  BY <1>0, <2>1, <2>2 DEF Queues
<1>7. CASE PollerEnter \/ PollerLeave
  <2>1. /\ UNCHANGED <<telemRing, procCh, detCh, batched>>
        /\ (procRing' = Enter(procRing) /\ CanEnter(procRing)) \/ procRing' = Leave(procRing)
    BY <1>7 DEF PollerEnter, PollerLeave, pipevars
  <2>2. procRing'.q = procRing.q
    BY <1>0, <2>1, RingEnter, RingLeave
  <2>. QED  BY <1>0, <2>1, <2>2 DEF Queues
<1>8. CASE PollerNext
  <2>1. /\ UNCHANGED <<telemRing, detCh, batched>> /\ procRing.q # <<>>
        /\ procRing' \in {Consume(procRing), Abandon(Consume(procRing))}
        /\ procCh' = procCh \/ (Len(procCh) < ProcCapacity /\ procCh' = Append(procCh, Head(procRing.q)))
    BY <1>8 DEF PollerNext, pipevars
  <2>2. /\ Consume(procRing) \in RingShape(ProcItem) /\ Consume(procRing).q = Tail(procRing.q)
        /\ Head(procRing.q) \in ProcItem
    BY <1>0, <2>1, RingConsume
  <2>3. procRing'.q = Tail(procRing.q)
    BY <2>1, <2>2, RingLeave
  <2>4. Len(procRing'.q) <= RingCapacity
    BY <1>0, <1>1, <2>1, <2>3 DEF Queues
  <2>5. Len(Append(procCh, Head(procRing.q))) = Len(procCh) + 1 /\ Len(procCh) \in Nat
    BY <1>0, <2>2, AppendProperties
  <2>6. Len(procCh') <= ProcCapacity
    BY <1>0, <2>1, <2>5 DEF Queues
  <2>. QED  BY <1>0, <2>1, <2>4, <2>6 DEF Queues
<1>9. CASE WorkerStep
  <2>1. /\ UNCHANGED <<procRing, telemRing, batched>> /\ procCh # <<>> /\ procCh' = Tail(procCh)
        /\ detCh' = detCh \/ (Len(detCh) < DetCapacity /\ detCh' = Append(detCh, Telemetry(Head(procCh))))
    BY <1>9 DEF WorkerStep, pipevars
  <2>2. Len(procCh') <= ProcCapacity
    BY <1>0, <2>1 DEF Queues
  <2>3. \A x : Len(Append(detCh, x)) = Len(detCh) + 1 /\ Len(detCh) \in Nat
    <3>1. \A x : detCh \in Seq({Telemetry(e) : e \in Whole} \cup {x})
      BY <1>0
    <3>. QED  BY <3>1, AppendProperties
  <2>4. Len(detCh') <= DetCapacity
    BY <1>0, <2>1, <2>3 DEF Queues
  <2>. QED  BY <1>0, <2>1, <2>2, <2>4 DEF Queues
<1>10. CASE MonitorExit
  <2>1. UNCHANGED <<procRing, telemRing, detCh, batched>> /\ procCh' \in {procCh, <<>>}
    BY <1>10 DEF MonitorExit, pipevars
  <2>. QED  BY <1>0, <1>1, <2>1 DEF Queues
<1>11. CASE LoopEnter \/ LoopLeave
  <2>1. /\ UNCHANGED <<procRing, procCh, detCh, batched>>
        /\ (telemRing' = Enter(telemRing) /\ CanEnter(telemRing)) \/ telemRing' = Leave(telemRing)
    BY <1>11 DEF LoopEnter, LoopLeave, pipevars
  <2>2. telemRing'.q = telemRing.q
    BY <1>0, <2>1, RingEnter, RingLeave
  <2>. QED  BY <1>0, <2>1, <2>2 DEF Queues
<1>12. CASE LoopNext
  <2>1. /\ UNCHANGED <<procRing, procCh, detCh>> /\ telemRing.q # <<>> /\ telemRing' = Consume(telemRing)
        /\ batched' = batched \/ \E ev : Process(ev)
    BY <1>12 DEF LoopNext, pipevars
  <2>2. telemRing'.q = Tail(telemRing.q)
    BY <1>0, <2>1, RingConsume
  <2>3. Len(telemRing'.q) <= RingCapacity
    BY <1>0, <1>1, <2>1, <2>2 DEF Queues
  <2>4. batched' \in 0 .. BatchLimit - 1
    BY <2>1, BatchProcess DEF Queues
  <2>. QED  BY <1>0, <2>1, <2>3, <2>4 DEF Queues
<1>13. CASE LoopDetect
  <2>1. /\ UNCHANGED <<procRing, telemRing, procCh>> /\ detCh # <<>> /\ detCh' = Tail(detCh)
        /\ \E ev : Process(ev)
    BY <1>13 DEF LoopDetect
  <2>2. Len(detCh') <= DetCapacity
    BY <1>0, <2>1 DEF Queues
  <2>3. batched' \in 0 .. BatchLimit - 1
    BY <2>1, BatchProcess DEF Queues
  <2>. QED  BY <1>0, <2>1, <2>2, <2>3 DEF Queues
<1>. QED
  BY <1>3, <1>4, <1>5, <1>6, <1>7, <1>8, <1>9, <1>10, <1>11, <1>12, <1>13 DEF ExecSteps, LoopStep

\* Every step keeps to the capacities.
LEMMA QueuesStep == Queues /\ Flow /\ Items /\ Counter /\ [Next]_vars => Queues'
<1>. SUFFICES ASSUME Queues, Flow, Items, Counter, [Next]_vars PROVE Queues'
  OBVIOUS
<1>0. /\ RingCapacity \in Nat /\ ProcCapacity \in Nat /\ DetCapacity \in Nat
      /\ procRing \in RingShape(ProcItem) /\ telemRing \in RingShape(TelemItem)
      /\ netRing \in RingShape([pid : Task]) /\ netRing.q \in Seq([pid : Task]) /\ Len(<<>>) = 0
  BY TelemetryAssumption, EmptySeq DEF Flow, Pollers, Counter, RingShape
<1>1. CASE UNCHANGED <<procRing, telemRing, netRing, procCh, detCh, batched>>
  BY <1>1 DEF Queues
<1>2. CASE ExecSteps /\ UNCHANGED netvars
  BY <1>2, QueuesExec
<1>3. CASE UNCHANGED execvars /\ NetSteps
  <2>1. UNCHANGED <<procRing, telemRing, procCh, detCh, batched>>
    BY <1>3 DEF execvars, pipevars
  <2>2. ASSUME NEW t \in Task, TcpConnect(t) PROVE Len(netRing'.q) <= RingCapacity
    <3>1. [pid |-> t] \in [pid : Task]
      OBVIOUS
    <3>2. Commit(netRing, [pid |-> t]).q = Append(netRing.q, [pid |-> t])
      BY <1>0, <3>1, RingCommit
    <3>3. Len(Append(netRing.q, [pid |-> t])) = Len(netRing.q) + 1 /\ Len(netRing.q) \in Nat
      BY <1>0, <3>1, AppendProperties
    <3>. QED  BY <1>0, <2>2, <3>2, <3>3 DEF TcpConnect, Queues
  <2>3. ASSUME NetEnter PROVE Len(netRing'.q) <= RingCapacity
    BY <1>0, <2>3, RingEnter DEF NetEnter, Queues
  <2>4. ASSUME NetNext PROVE Len(netRing'.q) <= RingCapacity
    <3>1. netRing'.q = Tail(netRing.q) /\ netRing.q # <<>>
      BY <1>0, <2>4, RingConsume DEF NetNext
    <3>. QED  BY <1>0, <3>1 DEF Queues
  <2>5. ASSUME NetLeave PROVE Len(netRing'.q) <= RingCapacity
    BY <1>0, <2>5, RingLeave DEF NetLeave, Queues
  <2>6. ASSUME \/ CheckPressure \/ TrySend \/ RecordEnqueued
               \/ NewProducer \/ PubRecv \/ DecrementQueued \/ Publish \/ PubWake
        PROVE  Len(netRing'.q) <= RingCapacity
    BY <2>6 DEF CheckPressure, TrySend, RecordEnqueued, NewProducer, PubRecv, DecrementQueued,
                Publish, PubWake, Queues
  <2>7. Len(netRing'.q) <= RingCapacity
    BY <1>3, <2>2, <2>3, <2>4, <2>5, <2>6 DEF NetSteps
  <2>. QED  BY <2>1, <2>7 DEF Queues
<1>4. CASE UNCHANGED execvars /\ UNCHANGED netvars
  BY <1>1, <1>4 DEF execvars, pipevars, netvars
<1>5. CASE Attest \/ NetExit
  <2>1. UNCHANGED <<procRing, telemRing, netRing, procCh, detCh, batched>>
    BY <1>5 DEF Attest, NetExit, pipevars, netvars
  <2>. QED  BY <1>1, <2>1
<1>6. CASE ArmVisibility
  <2>1. /\ UNCHANGED <<telemRing, netRing, procCh, detCh, batched>>
        /\ procRing' = [ReusedRing EXCEPT !.ready = ReusedRing.q # <<>>]
    BY <1>6 DEF ArmVisibility, StartMonitors, netvars
  <2>2. procRing'.q \in {procRing.q, <<>>}
    BY <1>0, <2>1 DEF ReusedRing, EmptyRing, RingShape
  <2>. QED  BY <1>0, <2>1, <2>2 DEF Queues
<1>7. CASE ExecEnd /\ NetEnd
  <2>1. /\ procCh' = <<>> /\ detCh' = <<>> /\ batched' = batched
        /\ procRing' = Abandon(procRing) /\ telemRing' = Abandon(telemRing) /\ netRing' = Abandon(netRing)
    BY <1>7 DEF ExecEnd, NetEnd, Abandon
  <2>2. procRing'.q = procRing.q /\ telemRing'.q = telemRing.q /\ netRing'.q = netRing.q
    BY <1>0, <2>1, RingLeave
  <2>. QED  BY <1>0, <2>1, <2>2 DEF Queues
<1>8. CASE UNCHANGED <<procRing, telemRing, procCh, detCh, batched, netvars>>
  BY <1>1, <1>8 DEF netvars
<1>9. CASE Next
  BY <1>9, <1>2, <1>3, <1>4, <1>5, <1>6, <1>7, <1>8, Steps
<1>10. CASE UNCHANGED vars
  BY <1>4, <1>10 DEF vars
<1>. QED  BY <1>9, <1>10

\* Whatever changes a file.
LEMMA FilesStep == Files /\ [Next]_vars => Files'
<1>. SUFFICES ASSUME files \in FileState, [Next]_vars PROVE files' \in FileState
  BY DEF Files
<1>1. \/ files' = files \/ Tamper
  BY DEF Next, Attest, ArmVisibility, ArmIntegrity, ArmVisibilityFails, LoopFails, LoopEnd, IntegrityTick,
         LivenessProbe, vars, integrityvars
<1>2. Tamper => files' \in FileState
  BY DEF Tamper
<1>. QED  BY <1>1, <1>2

\* All of it together is the type invariant.
LEMMA TypesHold ==
  Clock /\ Queues /\ Files /\ Life /\ Counter /\ Flow /\ Items => TypeOK
<1>. SUFFICES ASSUME Clock, Queues, Files, Life, Counter, Flow, Items PROVE TypeOK
  OBVIOUS
<1>1. counts \in [DOMAIN counts -> Nat]
  BY DEF Flow, Metrics
<1>2. offsets \in [DOMAIN Fields -> Nat]
  <2>1. plan.btf \in BtfBlob
    BY PlanAssumption DEF Life
  <2>2. [f \in DOMAIN Fields |-> 0] \in [DOMAIN Fields -> Nat]
    OBVIOUS
  <2>3. ResolveOffsets(plan.btf).at \in [DOMAIN Fields -> Nat]
    BY <2>1, OffsetsAreNumbers
  <2>. QED  BY <2>2, <2>3 DEF Life
<1>3. now \in 0 .. plan.seconds /\ bucket.last \in 0 .. now /\ bucket.tokens \in 0 .. MaxTokens
  BY DEF Clock
<1>4. (exit # "") = (loop = "end")
  BY DEF Life
<1>. QED  BY <1>1, <1>2, <1>3, <1>4 DEF TypeOK, Queues, Files, Life, Counter, Flow, Pollers, Items

\* Rings, channels, counters, the token bucket and the offsets stay within their types
\* and capacities, and the tasks run only while the process does (sys_exec.bpf.c,
\* process_monitor.rs, event_loop.rs, btf_offsets.rs, integrity.rs), whatever the
\* capacities.
THEOREM Typed == Spec => []TypeOK
BY CounterInit, CounterStep, FlowInit, FlowStep, LifeInit, LifeStep, ItemsInit, ItemsStep,
   SizesInit, ClockStep, QueuesStep, FilesStep, TypesHold, PTL DEF Spec
=============================================================================
