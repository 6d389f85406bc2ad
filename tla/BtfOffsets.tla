----------------------------- MODULE BtfOffsets -----------------------------
(***************************************************************************)
(* Where the LSM program finds its fields (btf_offsets.rs): before the     *)
(* program is loaded, the type information of the running kernel is walked *)
(* for three members of two structs.                                       *)
(*                                                                         *)
(* A blob is a record: what its header says (header), and the records of   *)
(* its type section in order (types).  A type has a kind, a name (BadName  *)
(* when its string cannot be read), its size, kind_flag, whether it fits   *)
(* in the section, and members with a name and the raw 32-bit offset.      *)
(* A result has an error, "" for none, and a byte offset.                  *)
(***************************************************************************)
EXTENDS Naturals, Sequences, SequencesExt

BTF_KIND_STRUCT == 4
BadName == "<unreadable>"

BtfType ==
  [kind : Nat, name : STRING, size : Nat, kind_flag : BOOLEAN, fits : BOOLEAN,
   members : Seq([name : STRING, offset : Nat])]
BtfBlob ==
  [header : [whole : BOOLEAN, magic : STRING, version : Nat, hdr_len : Nat, sections : BOOLEAN],
   types : Seq(BtfType)]

Failed(error) == [error |-> error, at |-> 0]
Found(offset) == [error |-> "", at |-> offset]

\* parse_header and checked_slice: the header is whole, little-endian, of
\* version 1, and its two sections lie in the blob.
HeaderError(h) ==
  IF ~ h.whole THEN "TooShort"
  ELSE IF h.magic = "swapped" THEN "UnsupportedEndianness"
  ELSE IF h.magic # "0xEB9F" THEN "BadMagic"
  ELSE IF h.version # 1 THEN "UnsupportedVersion"
  ELSE IF h.hdr_len < 24 THEN "HeaderTooShort"
  ELSE IF ~ h.sections THEN "SectionOutOfBounds"
  ELSE ""

\* kind_extra_len knows these kinds.
KnownKinds == 0 .. 19

\* What stops the walk at a type.
TypeError(t) ==
  IF t.kind \notin KnownKinds THEN "UnsupportedKind"
  ELSE IF ~ t.fits THEN "TruncatedTypeRecord"
  ELSE IF t.kind = BTF_KIND_STRUCT /\ t.name = BadName THEN "StringError"
  ELSE ""

\* find_structs: the whole section is walked, whatever has been found.
WalkError(types) ==
  LET bad == SelectInSeq(types, LAMBDA t : TypeError(t) # "")
  IN  IF bad = 0 THEN "" ELSE TypeError(types[bad])

\* The place of the first struct of a name, 0 when there is none.
StructAt(types, name) ==
  SelectInSeq(types, LAMBDA t : t.kind = BTF_KIND_STRUCT /\ t.name = name)

\* The raw offset of a member: 24 bits of offset and 8 bits of width when
\* kind_flag is set.
BitOffset(t, raw) == IF t.kind_flag THEN raw % 2^24 ELSE raw
BitfieldBits(t, raw) == IF t.kind_flag THEN raw \div 2^24 ELSE 0

\* find_member_byte_offset: the members in order, up to the first of the name.
MemberOffset(t, name) ==
  LET stop == SelectInSeq(t.members, LAMBDA m : m.name \in {name, BadName})
      raw  == t.members[stop].offset
  IN  IF stop = 0 THEN Failed("MemberNotFound")
      ELSE IF t.members[stop].name = BadName THEN Failed("StringError")
      ELSE IF BitfieldBits(t, raw) # 0 THEN Failed("UnexpectedBitfield")
      ELSE IF BitOffset(t, raw) % 8 # 0 THEN Failed("UnalignedBitOffset")
      ELSE IF BitOffset(t, raw) \div 8 >= t.size THEN Failed("OffsetExceedsStructSize")
      ELSE Found(BitOffset(t, raw) \div 8)

\* The fields in the order in which resolve_offsets looks for them.
Fields ==
  << <<"task_struct", "real_parent">>, <<"task_struct", "tgid">>,
     <<"linux_binprm", "filename">> >>

\* Each field looked for in the first struct of its name.
FieldOffsets(types) ==
  LET place == [f \in DOMAIN Fields |-> StructAt(types, Fields[f][1])]
  IN  [f \in DOMAIN Fields |->
         IF place[f] = 0 THEN Failed("StructNotFound")
                         ELSE MemberOffset(types[place[f]], Fields[f][2])]

\* resolve_offsets: three offsets, or the first error; a struct that is missing
\* comes before the members.
ResolveOffsets(blob) ==
  LET found   == FieldOffsets(blob.types)
      errors  == <<HeaderError(blob.header), WalkError(blob.types)>>
                   \o [f \in DOMAIN Fields |->
                         IF found[f].error = "StructNotFound" THEN found[f].error ELSE ""]
                   \o [f \in DOMAIN Fields |-> found[f].error]
      first   == SelectInSeq(errors, LAMBDA e : e # "")
  IN  [error |-> IF first = 0 THEN "" ELSE errors[first],
       at    |-> [f \in DOMAIN Fields |-> IF first = 0 THEN found[f].at ELSE 0]]
=============================================================================
