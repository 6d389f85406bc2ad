-------------------------- MODULE IntegrityMonitor --------------------------
(***************************************************************************)
(* The periodic check of a running agent (integrity.rs): the executable,   *)
(* the file a restart would load, the LSM link pin and the deny map pins.  *)
(***************************************************************************)
EXTENDS Naturals

CONSTANT MaxTampers   \* bound: changes of the files

ASSUME IntegrityAssumption == MaxTampers \in Nat

VARIABLES
  files,     \* what the checks look at
  tampers,   \* changes so far
  baseline,  \* expected_exe_digest, "" before the monitor is armed
  reported   \* reasons recorded in the metrics

integrityvars == <<files, tampers, baseline, reported>>

\* The contents of the executable and of the install path, the state of the pins.
FileState ==
  [exe  : {"v1", "v2", "gone"},
   disk : {"v1", "v2", "gone"},
   link : {"ok", "missing", "unopenable", "no_program"},
   list : {"ok", "missing"}, count : {"ok", "missing"}]

Pristine ==
  [exe |-> "v1", disk |-> "v1", link |-> "ok", list |-> "ok", count |-> "ok"]

IntegrityInit ==
  files = Pristine /\ tampers = 0 /\ baseline = "" /\ reported = {}

\* Something changes a file, or puts it back.
Tamper ==
  /\ tampers < MaxTampers /\ tampers' = tampers + 1
  /\ \E f \in DOMAIN files :
       \E g \in FileState :
         g = [files EXCEPT ![f] = g[f]] /\ g # files /\ files' = g
  /\ UNCHANGED <<baseline, reported>>

\* IntegrityConfig::from_env and resolve_on_disk_path.  The environment may name
\* the digest, which must look like one, and the install path, which must be
\* absolute; by default the running executable is hashed and its link is read.
ConfigOk(cfg) ==
  /\ cfg.path # "relative"
  /\ cfg.digest # "malformed"
  /\ cfg.digest = "" => files.exe # "gone"

ArmIntegrity(cfg) ==
  /\ ConfigOk(cfg)
  /\ baseline' = IF cfg.digest = "" THEN files.exe ELSE cfg.digest
  /\ UNCHANGED <<files, tampers, reported>>

-----------------------------------------------------------------------------
(* The four checks.                                                        *)

CheckExeDigest     == files.exe = baseline
CheckOnDiskBinary  == files.disk = baseline
CheckLsmLinkPin    == files.link = "ok"
CheckPinnedDenyMaps == files.list = "ok" /\ files.count = "ok"

\* Wrong variant: the first failure ends the checks.
RunIntegrityChecks_FirstOnly ==
  CASE ~ CheckExeDigest -> {"exe_digest"}
    [] CheckExeDigest /\ ~ CheckOnDiskBinary -> {"on_disk_binary"}
    [] CheckExeDigest /\ CheckOnDiskBinary /\ ~ CheckLsmLinkPin -> {"lsm_link"}
    [] CheckExeDigest /\ CheckOnDiskBinary /\ CheckLsmLinkPin ->
         IF CheckPinnedDenyMaps THEN {} ELSE {"pinned_map"}

\* run_integrity_checks: every failure, not the first.
RunIntegrityChecks ==
  {reason \in {"exe_digest", "on_disk_binary", "lsm_link", "pinned_map"} :
     CASE reason = "exe_digest"     -> ~ CheckExeDigest
       [] reason = "on_disk_binary" -> ~ CheckOnDiskBinary
       [] reason = "lsm_link"       -> ~ CheckLsmLinkPin
       [] reason = "pinned_map"     -> ~ CheckPinnedDenyMaps}

\* evaluate_enforcement: what GET /healthz answers by.
Healthy == CheckLsmLinkPin /\ CheckPinnedDenyMaps

\* handle_integrity_failures: the metrics, and whether the agent is to end.
RecordFailures == reported' = reported \cup RunIntegrityChecks
MustExit(cfg) == RunIntegrityChecks # {} /\ cfg.exit_on_failure
=============================================================================
