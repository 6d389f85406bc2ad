------------------------ MODULE BytecodeAttestation ------------------------
(***************************************************************************)
(* What an agent verifies before it loads any BPF object                   *)
(* (bytecode_attestation.rs): a manifest, signed with the key of the       *)
(* release, that names the digest of each of the embedded objects.         *)
(*                                                                         *)
(* The inputs are a record: whether the configured paths are absolute; the *)
(* files that are missing or unreadable; the key, the signature and the    *)
(* manifest; the digests of the embedded objects ("" when one is empty).   *)
(* Errors are named as in the code.                                        *)
(***************************************************************************)
EXTENDS Naturals, Sequences

REQUIRED_ARTIFACT_NAMES ==
  {"sys_exec.bpf.o", "network_filter.bpf.o", "agent-ebpf-sensor-ebpf"}

\* What lies on the node, and what is embedded.  The digests are computed, so they
\* have the form that a manifest may only claim.
Manifest ==
  [parses : BOOLEAN, schema_version : Nat, git_sha : STRING, build_timestamp : STRING,
   artifacts : Seq([name : STRING, digest : STRING])]
Release ==
  [absolute : BOOLEAN, files : [{"key", "manifest", "signature"} -> STRING],
   key : STRING, signature : STRING, manifest : Manifest,
   embedded : [REQUIRED_ARTIFACT_NAMES -> STRING \ {"md5"}]]

\* verify_cosign_blob_signature: the file must be base64 of something, the key
\* one of two kinds, and the signature one of the key over the manifest.  A
\* signature is "", "not_base64", "other", or the kind of key that made it.
SignatureError(key, sig) ==
  CASE sig \in {"", "not_base64"} -> "SignatureInvalid"
    [] sig \notin {"", "not_base64"} /\ key \notin {"p256", "ed25519"} -> "PublicKeyInvalid"
    [] sig \notin {"", "not_base64"} /\ key \in {"p256", "ed25519"} ->
         IF sig = key THEN "Ok" ELSE "SignatureInvalid"

\* The digest of a manifest entry has the right form.
WellFormedDigest(d) == d \notin {"", "md5"}

\* Wrong variant: an object may be listed twice, or without a digest.
ValidateArtifactSet_Subset(artifacts) ==
  LET listed == {artifacts[i].name : i \in DOMAIN artifacts}
  IN  IF ~ REQUIRED_ARTIFACT_NAMES \subseteq listed THEN "ArtifactMissingFromManifest"
      ELSE IF ~ listed \subseteq REQUIRED_ARTIFACT_NAMES THEN "UnexpectedArtifactInManifest"
      ELSE "Ok"

\* validate_artifact_set: every name, no other, each with a digest, and as many
\* entries as names.
ValidateArtifactSet(artifacts) ==
  LET listed == {artifacts[i].name : i \in DOMAIN artifacts}
  IN  IF ~ REQUIRED_ARTIFACT_NAMES \subseteq listed THEN "ArtifactMissingFromManifest"
      ELSE IF ~ listed \subseteq REQUIRED_ARTIFACT_NAMES THEN "UnexpectedArtifactInManifest"
      ELSE IF \E i \in DOMAIN artifacts : ~ WellFormedDigest(artifacts[i].digest)
        THEN "ManifestSchema"
      ELSE IF Len(artifacts) # 3 THEN "ManifestSchema"
      ELSE "Ok"

\* The first entry of a name.
Entry(artifacts, name) ==
  artifacts[CHOOSE i \in DOMAIN artifacts :
              /\ artifacts[i].name = name
              /\ \A j \in 1 .. i - 1 : artifacts[j].name # name]

\* The manifest says what is embedded.
DigestsMatch(artifacts, embedded) ==
  \A n \in REQUIRED_ARTIFACT_NAMES :
    embedded[n] # "" /\ Entry(artifacts, n).digest = embedded[n]

\* verify_artifacts, after the signature.
ManifestError(m, embedded) ==
  IF ~ m.parses THEN "ManifestParse"
  ELSE IF m.schema_version # 1 \/ m.git_sha = "" \/ m.build_timestamp = ""
    THEN "ManifestSchema"
  ELSE IF ValidateArtifactSet(m.artifacts) # "Ok" THEN ValidateArtifactSet(m.artifacts)
  ELSE IF ~ DigestsMatch(m.artifacts, embedded) THEN "DigestMismatch"
  ELSE "Ok"

\* verify_startup and verify_artifacts: key, manifest and signature are read,
\* then verified; the manifest is parsed after that.  A file that is missing and
\* one that is unreadable have errors of their own, here taken as one.
VerifyStartup(a) ==
  IF ~ a.absolute THEN "PathNotAbsolute"
  ELSE IF a.files.key # "read" THEN "PublicKeyUnread"
  ELSE IF a.files.manifest # "read" THEN "ManifestUnread"
  ELSE IF a.files.signature # "read" THEN "SignatureUnread"
  ELSE IF SignatureError(a.key, a.signature) # "Ok" THEN SignatureError(a.key, a.signature)
  ELSE ManifestError(a.manifest, a.embedded)
=============================================================================
