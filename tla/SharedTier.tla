----------------------------- MODULE SharedTier -----------------------------
(***************************************************************************)
(* RemoteCache of src/src/server.rs: how the replicas of a deployment read *)
(* and publish one entry in a shared S3, GCS or Nexus store, whose         *)
(* requests may fail in every way, whose retention policy may remove       *)
(* objects, and in which an older release left a plain object.             *)
(***************************************************************************)
EXTENDS Naturals, FiniteSets, Stage

CONSTANTS
    Replicas,
    Deployments      \* [flags, fault, redeploy]: how the replicas are configured

ASSUME DeploymentsAssumption ==
    Deployments \subseteq [flags : SUBSET STRING, fault : STRING, redeploy : BOOLEAN]

VARIABLE
    shared           \* the store and what each replica is doing with it, or Idle

\* RemoteCache::new.  The command line allows one store only, and one flag of
\* Nexus only with the other.
Backend(flags) ==
    IF "s3" \in flags THEN "S3"
    ELSE IF "gcs" \in flags THEN "GCS"
    ELSE IF {"nexusUrl", "nexusRepository"} \subseteq flags THEN "Nexus"
    ELSE "none"

\* What is under a name: "torn" does not gunzip, "foreign" is not a hash file.
Contents == {"nothing", "entry", "torn", "foreign"}

NotAsking == [at |-> "idle", failed |-> 0, due |-> FALSE, read |-> "nothing"]

Deploy(d, compressed, plain) ==
    [flags |-> d.flags, fault |-> d.fault, redeploy |-> d.redeploy, backend |-> "unset",
     compressed |-> compressed, plain |-> plain,
     asking |-> [r \in Replicas |-> NotAsking]]

SharedInit ==
    shared \in {Deploy(d, c, p) : d \in Deployments, c \in Contents, p \in Contents \ {"torn"}}

Running == shared # Idle /\ shared.backend \notin {"unset", "refused"}

\* What keeps a client from being built: credentials that do not resolve, a
\* region, bucket or address that is not one, a certificate that cannot be
\* read, a user without a password.
S3Faults == {"credentials", "region"}

GcsFaults == {"credentials", "bucket"}

NexusAddressFaults == {"url", "repository"}

CertificateFaults == {"certificate"}

NexusFaults == CertificateFaults \cup NexusAddressFaults

CommandFaults(backend) ==
    CASE backend = "S3" -> {"endpoint"} [] backend = "GCS" -> {"bucket"}
      [] backend = "Nexus" -> {"password"} [] OTHER -> {}

Faults(backend) ==
    CommandFaults(backend) \cup
    CASE backend = "S3" -> S3Faults [] backend = "GCS" -> GcsFaults
      [] backend = "Nexus" -> NexusFaults [] OTHER -> {}

\* The client is built before the server listens, or it does not start.
Connect ==
    /\ shared # Idle
    /\ shared.backend = "unset"
    /\ LET backend == Backend(shared.flags)
       IN  shared' = [shared EXCEPT !.backend =
                         IF shared.fault \in Faults(backend) THEN "refused" ELSE backend]

\* Everything but 200 with its body and 404 is a failure.  A redirect is
\* never followed; a GCS request may fail before it is sent.
S3Failures == {"status", "no answer"}

GcsFailures == {"no token", "status", "redirect", "no answer", "body cut off"}

NexusFailures == {"status", "redirect", "no answer", "body cut off"}

Failures ==
    CASE shared.backend = "S3" -> S3Failures
      [] shared.backend = "GCS" -> GcsFailures
      [] shared.backend = "Nexus" -> NexusFailures

Statuses(content) == {IF content = "nothing" THEN "404" ELSE "200"} \cup Failures

Fetched(status) ==
    CASE status = "200" -> "Found" [] status = "404" -> "Missing" [] OTHER -> "Failed"

At(r, step) == Running /\ shared.asking[r].at = step

\* An entry a lookup must find: one that can be read and stays there.
Due ==
    \/ shared.compressed = "entry"
    \/ shared.compressed = "nothing" /\ shared.plain = "entry"

\* A local miss asks the shared tier, if there is one.
Ask(r) ==
    /\ At(r, "idle")
    /\ shared' = [shared EXCEPT !.asking[r] =
                     [NotAsking EXCEPT !.at = IF shared.backend = "none" THEN "generate"
                                              ELSE "compressed",
                                       !.due = shared.backend # "none" /\ Due]]

\* One request of r, with the step its outcome leads to.
Request(r, status, next, read) ==
    LET asked == shared.asking[r]
    IN  shared' = [shared EXCEPT !.asking[r] =
                      [asked EXCEPT !.at = next, !.read = read,
                           !.failed = asked.failed + (IF Fetched(status) = "Failed" THEN 1 ELSE 0)]]

\* fetch and gunzip of the compressed object: bytes that do not gunzip and a
\* failure are a miss.
Inflated(r, status) ==
    /\ Fetched(status) # "Missing"
    /\ Request(r, status, IF status = "200" /\ shared.compressed # "torn" THEN "parse" ELSE "generate",
               IF status = "200" THEN shared.compressed ELSE "nothing")

MutantNoFallback(r) ==
    /\ At(r, "compressed")
    /\ \E status \in Statuses(shared.compressed) :
          \/ Inflated(r, status)
          \/ Fetched(status) = "Missing" /\ Request(r, status, "generate", "nothing")

\* The compressed object first; a clean miss goes on to the plain one, a
\* failure does not.
GetCompressed(r) ==
    /\ At(r, "compressed")
    /\ \E status \in Statuses(shared.compressed) :
          \/ Inflated(r, status)
          \/ Fetched(status) = "Missing" /\ Request(r, status, "plain", "nothing")

GetPlain(r) ==
    /\ At(r, "plain")
    /\ \E status \in Statuses(shared.plain) :
          IF Fetched(status) = "Found" THEN Request(r, status, "parse", shared.plain)
          ELSE Request(r, status, "generate", "nothing")

\* from_slice: the bytes are a hash file and serve the request, or fail it.
Parse(r) ==
    /\ At(r, "parse")
    /\ shared' = [shared EXCEPT !.asking[r].at =
                     IF shared.asking[r].read = "entry" THEN "hit" ELSE "error"]

\* The revision is generated and written to the local disk, then published.
Generated(r) ==
    /\ At(r, "generate")
    /\ shared' = [shared EXCEPT !.asking[r].at =
                     IF shared.backend = "none" THEN "served" ELSE "publish"]

\* A Nexus repository may forbid to replace an object.
NexusAccepts == shared.redeploy \/ shared.compressed = "nothing"

\* put: gzip and one request, whose failure is only logged.  An upload that is
\* stored may still fail to be answered.
Put(r) ==
    /\ At(r, "publish")
    /\ \E stored \in BOOLEAN :
          /\ stored /\ shared.backend = "Nexus" => NexusAccepts
          /\ shared' = [shared EXCEPT !.asking[r].at = "served",
                                      !.compressed = IF stored THEN "entry" ELSE @]

Answered(r) ==
    /\ Running
    /\ shared.asking[r].at \in {"hit", "served", "error"}
    /\ shared' = [shared EXCEPT !.asking[r] = NotAsking]

\* The retention policy of the store.
Expire ==
    /\ Running /\ shared.backend # "none"
    /\ \E name \in {"compressed", "plain"} :
          /\ shared[name] # "nothing"
          /\ shared' = [shared EXCEPT ![name] = "nothing",
                           !.asking = [r \in Replicas |->
                               [shared.asking[r] EXCEPT !.due = FALSE]]]

Step(r) ==
    Ask(r) \/ GetCompressed(r) \/ GetPlain(r) \/ Parse(r) \/ Generated(r) \/ Put(r) \/ Answered(r)

SharedNext == Connect \/ (\E r \in Replicas : Step(r)) \/ Expire

SharedSpec == SharedInit /\ [][SharedNext]_shared

-----------------------------------------------------------------------------
(* Properties                                                              *)

Missed == {"generate", "publish", "served"}

\* RemoteCache::get: an object another replica published, compressed or by an
\* older release plain, that is there throughout a lookup is found by it,
\* whatever the others publish meanwhile, unless a request fails.
SharedEntryFound ==
    Running => \A r \in Replicas :
        shared.asking[r].at \in Missed /\ shared.asking[r].due => shared.asking[r].failed > 0

\* "an outage of the shared store costs throughput, never availability": a
\* lookup fails its query only over an object that was read whole and is not
\* a hash file.
OutageNeverFailsQuery ==
    Running => \A r \in Replicas :
        shared.asking[r].at = "error" => shared.asking[r].read = "foreign"

\* "an outage costs one request per lookup, not two": no lookup waits for two
\* requests that fail.
OutageCostsOneRequest == Running => \A r \in Replicas : shared.asking[r].failed <= 1

\* RemoteCache::get: a lookup finds what is there, and an outage costs it one
\* request and never the query.
LookupsRight == SharedEntryFound /\ OutageNeverFailsQuery /\ OutageCostsOneRequest
=============================================================================
