------------------------------ MODULE Snapshot ------------------------------
(***************************************************************************)
(* `warmup` and `fingerprint`: src/src/fingerprint.rs and the commands of  *)
(* src/src/main.rs.  A host records a snapshot when warmup exits with 0,   *)
(* and consumes it where the fingerprint is the same.                      *)
(***************************************************************************)
EXTENDS Naturals, FiniteSets, Sequences, TLC, Stage

CONSTANTS
    Environments,    \* [tool, bazel, lock, rc, flags]: where the commands run
    Imports,         \* [content of an rc file -> the files it imports]
    Missing,         \* a file that is not there
    MaxMoves         \* bound: how often the environment changes

ASSUME SnapshotAssumption ==
    \A e \in Environments :
        DOMAIN e = {"tool", "bazel", "lock", "rc", "flags"} /\ [env |-> e] # Missing

VARIABLE
    snapshot         \* the two output files, the command and its host, or Idle

Torn == [torn |-> TRUE]

SnapshotInit ==
    snapshot \in {[env |-> e, at |-> "host", hashes |-> Missing, print |-> Missing,
                   clean |-> FALSE, used |-> Missing, moves |-> 0] : e \in Environments}

MutantModuleLock(lock) == IF lock = Missing THEN "" ELSE lock

\* "present" and the content, or "absent".
ModuleLock(lock) == IF lock = Missing THEN <<"absent">> ELSE <<"present", lock>>

\* .bazelrc and the files it imports that can be read; not what those import.
ReadBazelrcs(rc) ==
    IF rc[".bazelrc"] = Missing THEN {}
    ELSE {<<f, rc[f]>> : f \in {g \in {".bazelrc"} \cup Imports[rc[".bazelrc"]] : rc[g] # Missing}}

\* `bazel version`, or "unknown" when it fails.
BazelVersions(e) == {e.bazel, "unknown"}

\* The options the fingerprint covers.  It leaves out excludeTargetsQuery,
\* seedFilepaths, alwaysAffectedTags and fineGrainedHashExternalReposFile.
FingerprintFlags(flags) == flags.listed

\* compute of gather: a digest of the digests of the components, which are
\* ordered maps.
Fingerprint(e, version) ==
    [bazelDiffVersion |-> e.tool, bazelVersion |-> version, moduleLock |-> ModuleLock(e.lock),
     bazelrc |-> ReadBazelrcs(e.rc), flags |-> FingerprintFlags(e.flags)]

Host == snapshot # Idle /\ snapshot.at = "host"

Warmup ==
    /\ Host
    /\ snapshot' = [snapshot EXCEPT !.at = "generate", !.clean = FALSE, !.used = Missing]

GenerateHashes ==
    /\ snapshot # Idle /\ snapshot.at = "generate"
    /\ \/ snapshot' = [snapshot EXCEPT !.at = "host"]
       \/ snapshot' = [snapshot EXCEPT !.at = "host", !.hashes = Torn]
       \/ snapshot' = [snapshot EXCEPT !.at = "fingerprint", !.hashes = [env |-> snapshot.env]]

\* run_fingerprint after it: 0 is the exit status only when both are written.
WriteFingerprint ==
    /\ snapshot # Idle /\ snapshot.at = "fingerprint"
    /\ \/ snapshot' = [snapshot EXCEPT !.at = "host", !.print = Torn]
       \/ snapshot' = [snapshot EXCEPT !.at = "host"]
       \/ \E version \in BazelVersions(snapshot.env) :
             snapshot' = [snapshot EXCEPT !.at = "host", !.clean = TRUE,
                                          !.print = Fingerprint(snapshot.env, version)]

\* The machine stops, in the middle of a write or between two.
Crash ==
    /\ snapshot # Idle /\ snapshot.at # "host"
    /\ \/ snapshot' = [snapshot EXCEPT !.at = "host"]
       \/ snapshot.at = "generate" /\ snapshot' = [snapshot EXCEPT !.at = "host", !.hashes = Torn]
       \/ snapshot.at = "fingerprint" /\ snapshot' = [snapshot EXCEPT !.at = "host", !.print = Torn]

\* The host trusts what a clean exit left, if the fingerprint is its own.
Consume ==
    /\ Host /\ snapshot.clean
    /\ \E version \in BazelVersions(snapshot.env) :
          /\ snapshot.print = Fingerprint(snapshot.env, version)
          /\ snapshot' = [snapshot EXCEPT !.used = [version |-> version, hashes |-> snapshot.hashes]]

\* Another environment, while no command runs in it.
Move ==
    /\ Host
    /\ snapshot.moves < MaxMoves
    /\ \E e \in Environments \ {snapshot.env} :
          snapshot' = [snapshot EXCEPT !.env = e, !.moves = @ + 1, !.used = Missing]

SnapshotNext == Warmup \/ GenerateHashes \/ WriteFingerprint \/ Crash \/ Consume \/ Move

SnapshotSpec == SnapshotInit /\ [][SnapshotNext]_snapshot

-----------------------------------------------------------------------------
(* Properties                                                              *)

\* The rc files of the workspace that say how Bazel runs there.
RcFiles(rc) ==
    {".bazelrc"} \cup (IF rc[".bazelrc"] = Missing THEN {} ELSE Imports[rc[".bazelrc"]])

\* "A stale snapshot is never silently trusted": hashes the host consumes
\* were generated with its versions of bazel-diff and Bazel, its lock file, its
\* rc files, present or not, and the flags the fingerprint lists,
\* unless `bazel version` failed both times.
ConsumedSnapshotMatches ==
    snapshot # Idle /\ snapshot.used # Missing =>
        LET made == snapshot.used.hashes.env
            same(part) == made[part] = snapshot.env[part]
        IN  /\ same("tool") /\ same("lock")
            /\ \A f \in RcFiles(snapshot.env.rc) : made.rc[f] = snapshot.env.rc[f]
            /\ made.flags.listed = snapshot.env.flags.listed
            /\ snapshot.used.version # "unknown" => same("bazel")

\* run_warmup_with: whatever failed or crashed before, a clean exit leaves two
\* whole files of one run, the safe-to-snapshot signal of the host.
CleanExitLeavesBoth ==
    snapshot # Idle /\ snapshot.clean /\ snapshot.at = "host" =>
        /\ snapshot.hashes \notin {Missing, Torn}
        /\ \E version \in BazelVersions(snapshot.hashes.env) :
              snapshot.print = Fingerprint(snapshot.hashes.env, version)

\* The contract of warmup and fingerprint: a clean exit leaves two files of one
\* run, and they are consumed only where that run could have been made.
SnapshotTrusted == CleanExitLeavesBoth /\ ConsumedSnapshotMatches
=============================================================================
