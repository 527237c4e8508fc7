----------------------------- MODULE HashCache ------------------------------
(***************************************************************************)
(* get_hashes_locked of src/src/server.rs: how a query retrieves the       *)
(* hashes of its `from` and then of its `to` revision from the memory, the *)
(* disk and the shared cache tier, or generates them.                      *)
(*                                                                         *)
(* The query holds the workspace (module QueryService), so one retrieval   *)
(* runs at a time.  The pruner thread, other replicas on the shared tier,  *)
(* the external repositories and crashes do not wait for it.               *)
(***************************************************************************)
EXTENDS Naturals

CONSTANTS
    Revs,             \* revisions; the cache key of each is that of its tree
    ModuleFiles,      \* [Revs -> ...]: what the module files of each say
    Derivable,        \* pairs classify accepts for a partial-graph derivation
    NoRev, NoEntry, NoPrint,
    Guards,           \* values of --dependencyFingerprint the server is started with
    HasMemory,        \* --cacheMemoryMax is not 0
    HasRemote,        \* a shared S3, GCS or Nexus tier is configured
    MaxWorld,         \* bound: how often the external repositories change
    QuietQueries      \* whether they change only while no query runs

ASSUME HashCacheAssumption ==
    /\ NoRev \notin Revs
    /\ \A d \in Derivable : ModuleFiles[d[1]] = ModuleFiles[d[2]]
    /\ MaxWorld \in Nat
    /\ {HasMemory, HasRemote, QuietQueries} \subseteq BOOLEAN
    /\ Guards \in (SUBSET BOOLEAN) \ {{}}

VARIABLES
    memory, disk, remote,  \* the three tiers, by revision
    guard,                 \* --dependencyFingerprint of the running server
    world,                 \* the state of the external repositories
    head,                  \* the revision checked out in the workspace
    pc,                    \* where the query is in get_hashes_locked
    rev, to,               \* the revision being retrieved, the one to follow
    base,                  \* the entry a derivation of `rev` may start from
    cur,                   \* current_dependency_fingerprint
    data,                  \* the entry found or generated
    since                  \* the world when the query started

tiers == <<memory, disk, remote>>
query == <<rev, to, base, since>>
vars == <<tiers, guard, world, head, pc, query, cur, data>>

Prints == {ModuleFiles[r] : r \in Revs} \X (0 .. MaxWorld)

\* An entry: the revision it describes, the world it was generated in, and
\* its recorded dependency fingerprint.
Entries == [rev : Revs, world : 0 .. MaxWorld, fp : Prints \cup {NoPrint}]

ASSUME DistinctAssumption == NoEntry \notin Entries /\ NoPrint \notin Prints

\* A file under its final name that holds only part of an entry.
Torn == [torn |-> TRUE]

Fingerprint(r) == <<ModuleFiles[r], world>>

Init ==
    /\ memory = [r \in Revs |-> NoEntry]
    /\ disk = [r \in Revs |-> NoEntry]
    /\ remote = [r \in Revs |-> NoEntry]
    /\ guard \in Guards
    /\ world = 0
    /\ head \in Revs
    /\ pc = "idle"
    /\ rev = head /\ to = NoRev
    /\ base = NoEntry /\ data = NoEntry /\ cur = NoPrint
    /\ since = 0

-----------------------------------------------------------------------------
(* The query.                                                              *)

Goto(step) == pc' = step

\* The locals of compute_query go away with it.
End ==
    /\ Goto("idle")
    /\ rev' = head' /\ to' = NoRev /\ since' = 0
    /\ base' = NoEntry /\ data' = NoEntry /\ cur' = NoPrint

\* A diff retrieves f and then t; depEdges and the warm-up one revision.
Begin(f, t) ==
    /\ pc = "idle"
    /\ Goto("memory")
    /\ rev' = f /\ to' = t /\ since' = world
    /\ base' = NoEntry /\ data' = NoEntry /\ cur' = NoPrint
    /\ UNCHANGED <<tiers, guard, world, head>>

MutantServeUnprinted(e, yes, no) ==
    \/ /\ ~guard \/ e.fp = NoPrint
       /\ Goto(yes)
       /\ data' = e
       /\ UNCHANGED <<head, cur>>
    \/ /\ guard /\ e.fp # NoPrint
       /\ \E f \in IF cur = NoPrint THEN {Fingerprint(rev), NoPrint} ELSE {cur} :
             /\ cur' = f
             /\ Goto(IF e.fp = f THEN yes ELSE no)
             /\ data' = IF e.fp = f THEN e ELSE data
       /\ head' = IF cur = NoPrint THEN rev ELSE head

\* cache_entry_is_servable: without the guard always; with it, only an entry
\* whose fingerprint is the current one, computed at most once per retrieval
\* on a checkout of the revision.  A fingerprint that cannot be computed
\* makes the entry a miss.
Servable(e, yes, no) ==
    \/ /\ ~guard
       /\ Goto(yes)
       /\ data' = e
       /\ UNCHANGED <<head, cur>>
    \/ /\ guard /\ e.fp = NoPrint
       /\ Goto(no)
       /\ UNCHANGED <<data, head, cur>>
    \/ /\ guard /\ e.fp # NoPrint
       /\ \E f \in IF cur = NoPrint THEN {Fingerprint(rev), NoPrint} ELSE {cur} :
             /\ cur' = f
             /\ Goto(IF e.fp = f THEN yes ELSE no)
             /\ data' = IF e.fp = f THEN e ELSE data
       /\ head' = IF cur = NoPrint THEN rev ELSE head

MemoryTier ==
    /\ pc = "memory"
    /\ \/ memory[rev] = NoEntry /\ Goto("disk") /\ UNCHANGED <<head, cur, data>>
       \/ memory[rev] # NoEntry /\ Servable(memory[rev], "return", "disk")
    /\ UNCHANGED <<tiers, guard, world, query>>

\* path.is_file()
DiskLookup ==
    /\ pc = "disk"
    /\ Goto(IF disk[rev] = NoEntry THEN "remote" ELSE "disk_read")
    /\ UNCHANGED <<tiers, guard, world, head, query, cur, data>>

\* fs::read and from_slice: an entry pruned since the lookup, and one that
\* does not parse, fail the request.
DiskRead ==
    /\ pc = "disk_read"
    /\ \/ /\ disk[rev] \in {NoEntry, Torn}
          /\ Goto(IF disk[rev] = Torn THEN "unparsable" ELSE "vanished")
          /\ UNCHANGED <<head, cur, data>>
       \/ /\ disk[rev] \notin {NoEntry, Torn}
          /\ Servable(disk[rev], "insert", "remote")
    /\ UNCHANGED <<tiers, guard, world, query>>

\* No shared tier, no object, or any error of the shared tier: a miss.
RemoteTier ==
    /\ pc = "remote"
    /\ \/ Goto("generate") /\ UNCHANGED <<head, cur, data>>
       \/ remote[rev] # NoEntry /\ Servable(remote[rev], "backfill", "generate")
    /\ UNCHANGED <<tiers, guard, world, query>>

\* fs::write(&path, &bytes): the file is created, then filled.
BackfillStart ==
    /\ pc = "backfill"
    /\ Goto("backfilling")
    /\ disk' = [disk EXCEPT ![rev] = Torn]
    /\ UNCHANGED <<memory, remote, guard, world, head, query, cur, data>>

BackfillEnd ==
    /\ pc = "backfilling"
    /\ Goto("insert")
    /\ disk' = [disk EXCEPT ![rev] = data]
    /\ UNCHANGED <<memory, remote, guard, world, head, query, cur, data>>

MutantGenerateWithoutCheckout ==
    /\ pc = "generate"
    /\ Goto("fingerprint")
    /\ data' = [rev |-> head, world |-> world, fp |-> NoPrint]
    /\ UNCHANGED <<tiers, guard, world, head, query, cur>>

\* A derivation re-evaluates the base entry's recipes without a checkout and
\* carries its fingerprint; a full generation checks the revision out.
Generate ==
    /\ pc = "generate"
    /\ Goto("fingerprint")
    /\ \/ /\ base # NoEntry
          /\ <<base.rev, rev>> \in Derivable
          /\ data' = [base EXCEPT !.rev = rev]
          /\ UNCHANGED head
       \/ /\ data' = [rev |-> rev, world |-> world, fp |-> NoPrint]
          /\ head' = rev
    /\ UNCHANGED <<tiers, guard, world, query, cur>>

\* An entry without a fingerprint gets the one a tier's check computed, or
\* that of whatever is checked out now, or none when bazel fails.
RecordFingerprint ==
    /\ pc = "fingerprint"
    /\ Goto("write")
    /\ \/ /\ guard /\ data.fp = NoPrint
          /\ \E f \in IF cur = NoPrint THEN {Fingerprint(head), NoPrint} ELSE {cur} :
                data' = [data EXCEPT !.fp = f]
          /\ cur' = NoPrint
       \/ /\ ~guard \/ data.fp # NoPrint
          /\ UNCHANGED <<data, cur>>
    /\ UNCHANGED <<tiers, guard, world, head, query>>

\* Written to a temporary file and renamed.
WriteEntry ==
    /\ pc = "write"
    /\ Goto("publish")
    /\ disk' = [disk EXCEPT ![rev] = data]
    /\ UNCHANGED <<memory, remote, guard, world, head, query, cur, data>>

\* A failed put leaves the entry local.
Publish ==
    /\ pc = "publish"
    /\ Goto("insert")
    /\ \/ UNCHANGED remote
       \/ HasRemote /\ remote' = [remote EXCEPT ![rev] = data]
    /\ UNCHANGED <<memory, disk, guard, world, head, query, cur, data>>

\* MemoryCache::insert evicts what no longer fits and skips an entry larger
\* than the budget (module MemoryCache).
Insert ==
    /\ pc = "insert"
    /\ Goto("return")
    /\ \/ UNCHANGED memory
       \/ \E kept \in SUBSET Revs :
             /\ HasMemory
             /\ memory' = [r \in Revs |-> IF r = rev THEN data
                                          ELSE IF r \in kept THEN memory[r] ELSE NoEntry]
    /\ UNCHANGED <<disk, remote, guard, world, head, query, cur, data>>

\* compute_query goes on from `from` to `to`, with `from` as the base, and
\* from `to` to the diff, for which `to` is checked out.  A query of one
\* revision ends where it is.
Return ==
    /\ pc = "return"
    /\ \/ /\ to # NoRev
          /\ Goto("memory")
          /\ rev' = to /\ to' = NoRev /\ base' = data
          /\ cur' = NoPrint
          /\ UNCHANGED <<head, since, data>>
       \/ /\ to = NoRev
          /\ head' = IF base = NoEntry THEN head ELSE rev
          /\ End
    /\ UNCHANGED <<tiers, guard, world>>

\* git, bazel, an I/O error or a cancellation: the query ends where it is.
Fail ==
    /\ pc # "idle"
    /\ UNCHANGED <<tiers, guard, world, head>>
    /\ End

-----------------------------------------------------------------------------
(* Everyone else.                                                          *)

\* The server may be started again with another value of the flag.
Crash ==
    /\ guard' \in Guards
    /\ memory' = [r \in Revs |-> NoEntry]
    /\ UNCHANGED <<disk, remote, world, head>>
    /\ End

\* The pruner thread, or prune_cache at the end of a query.
Prune(r) ==
    /\ disk[r] # NoEntry
    /\ disk' = [disk EXCEPT ![r] = NoEntry]
    /\ UNCHANGED <<memory, remote, guard, world, head, pc, query, cur, data>>

\* Another replica, with or without the guard, publishes what it generated.
ReplicaPublishes(r) ==
    /\ HasRemote
    /\ \E f \in {Fingerprint(r), NoPrint} :
          remote' = [remote EXCEPT ![r] = [rev |-> r, world |-> world, fp |-> f]]
    /\ UNCHANGED <<memory, disk, guard, world, head, pc, query, cur, data>>

WorldChanges ==
    /\ world < MaxWorld
    /\ QuietQueries => pc = "idle"
    /\ world' = world + 1
    /\ UNCHANGED <<tiers, guard, head, pc, query, cur, data>>

QueryStep ==
    \/ MemoryTier \/ DiskLookup \/ DiskRead \/ RemoteTier
    \/ BackfillStart \/ BackfillEnd \/ Generate \/ RecordFingerprint
    \/ WriteEntry \/ Publish \/ Insert \/ Return \/ Fail

Next ==
    \/ \E f \in Revs, t \in Revs \cup {NoRev} : Begin(f, t)
    \/ QueryStep
    \/ Crash
    \/ \E r \in Revs : Prune(r) \/ ReplicaPublishes(r)
    \/ WorldChanges

Spec == Init /\ [][Next]_vars

-----------------------------------------------------------------------------
(* Properties                                                              *)

TypeOK ==
    /\ memory \in [Revs -> Entries \cup {NoEntry}]
    /\ disk \in [Revs -> Entries \cup {NoEntry, Torn}]
    /\ remote \in [Revs -> Entries \cup {NoEntry}]
    /\ guard \in Guards
    /\ world \in 0 .. MaxWorld /\ since \in 0 .. world
    /\ head \in Revs /\ rev \in Revs /\ to \in Revs \cup {NoRev}
    /\ pc \in {"idle", "memory", "disk", "disk_read", "vanished", "unparsable",
               "remote", "backfill", "backfilling", "generate", "fingerprint",
               "write", "publish", "insert", "return"}
    /\ base \in Entries \cup {NoEntry}
    /\ data \in Entries \cup {NoEntry}
    /\ cur \in Prints \cup {NoPrint}
    /\ pc \in {"backfill", "backfilling", "fingerprint", "write", "publish",
               "insert", "return"} => data # NoEntry

\* Every entry any tier holds under a revision describes that revision and
\* carries no fingerprint or that of its own module files, also when it was
\* derived without a checkout while another revision was checked out.
OwnEntry(e, r) == e.rev = r /\ (e.fp = NoPrint \/ e.fp[1] = ModuleFiles[r])

TiersConsistent ==
    \A r \in Revs :
        \A e \in {memory[r], disk[r], remote[r]} \ {NoEntry, Torn} : OwnEntry(e, r)

\* What a query uses for a revision is an entry of that revision, whichever
\* tier served it and whatever the other tiers and replicas did meanwhile.
UsesOwnEntry == pc = "return" => OwnEntry(data, rev)

\* With the guard, what a query uses was generated in a world no older than
\* the query: "This catches hashes that went stale because an external
\* repository changed underneath an unchanged commit".
FreshUnderGuard == guard /\ pc = "return" => data.world >= since

\* An entry under its final name is complete, so cached hashes "survive
\* restarts" and a crash costs at most a regeneration.
DiskEntriesWhole == pc = "idle" => \A r \in Revs : disk[r] # Torn

\* get_hashes_locked: no entry is ever stored under, or used for, a revision
\* other than the one it describes, through every tier, replica, crash and
\* derivation.
OwnEntriesOnly == TiersConsistent /\ UsesOwnEntry
=============================================================================
