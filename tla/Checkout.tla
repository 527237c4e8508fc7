------------------------------ MODULE Checkout ------------------------------
(***************************************************************************)
(* Git::checkout of src/src/git.rs, the git process it runs and the full   *)
(* generation that reads the working tree afterwards.                      *)
(*                                                                         *)
(* One query at a time owns the clone (module QueryService).  It may be    *)
(* cancelled, which kills its git; the server may die; git may fail on its *)
(* own.  The git process is external: it takes index.lock, rewrites the    *)
(* files that differ, replaces the index, and moves HEAD last.             *)
(***************************************************************************)
EXTENDS FiniteSets

CONSTANTS
    Revs,         \* the commits queries ask for
    Paths,        \* the tracked files, which differ between any two commits
    NoEntry,      \* an empty slot of the cache
    Interruptions \* what may go wrong: a subset of AllInterruptions

AllInterruptions == {"cancel", "crash", "git_error"}

ASSUME CheckoutAssumption ==
    /\ NoEntry \notin [Paths -> Revs]
    /\ Interruptions \subseteq AllInterruptions

VARIABLES
    head,         \* the commit HEAD names
    worktree,     \* the commit each file's content is from
    indexLock,    \* whether .git/index.lock exists
    git,          \* the git checkout process
    pc,           \* where the query is in checkout and the generation after it
    want,         \* the commit the query asked for
    cancelled,    \* whether the query's token is cancelled
    gitFailed,    \* whether git failed by itself during this query
    skipped,      \* whether checkout found HEAD at the commit already
    cache         \* what the working tree held when each entry was generated

query == <<want, cancelled, gitFailed, skipped>>
vars == <<head, worktree, indexLock, git, pc, query, cache>>

FilesOf(r) == [p \in Paths |-> r]

Init ==
    /\ \E r \in Revs : head = r /\ worktree = FilesOf(r) /\ want = r
    /\ indexLock = FALSE
    /\ git = "none"
    /\ pc = "idle"
    /\ cancelled = FALSE /\ gitFailed = FALSE /\ skipped = FALSE
    /\ cache = [r \in Revs |-> NoEntry]

-----------------------------------------------------------------------------
(* The query.                                                              *)

\* A query misses every cache tier for commit r and goes on to check it out.
Start(r) ==
    /\ pc = "idle"
    /\ cache[r] = NoEntry
    /\ pc' = "compare"
    /\ want' = r /\ cancelled' = FALSE /\ gitFailed' = FALSE /\ skipped' = FALSE
    /\ UNCHANGED <<head, worktree, indexLock, git, cache>>

\* rev-parse HEAD: a clone already at the commit is left as it is.  A rev-parse
\* that fails goes on to the checkout.
CompareHead ==
    /\ pc = "compare"
    /\ \/ /\ head = want /\ ~cancelled
          /\ pc' = "generate"
          /\ skipped' = TRUE
       \/ /\ pc' = "first"
          /\ UNCHANGED skipped
    /\ UNCHANGED <<head, worktree, indexLock, git, want, cancelled, gitFailed, cache>>

\* run: the token is checked, then git is spawned; an existing index.lock
\* makes git fail at once.
RunGit(attempt, running, next) ==
    /\ pc = attempt
    /\ IF cancelled \/ indexLock
       THEN pc' = next /\ UNCHANGED <<git, indexLock>>
       ELSE pc' = running /\ git' = "writing" /\ indexLock' = TRUE
    /\ UNCHANGED <<head, worktree, query, cache>>

FirstAttempt == RunGit("first", "first_running", "clear")

RetryCheckout == RunGit("retry", "retry_running", "failed")

MutantKeepLock ==
    /\ pc = "clear"
    /\ pc' = IF indexLock THEN "retry" ELSE "failed"
    /\ UNCHANGED <<head, worktree, indexLock, git, query, cache>>

MutantNoRetry ==
    /\ pc = "clear"
    /\ pc' = IF indexLock THEN "generate" ELSE "failed"
    /\ indexLock' = FALSE
    /\ UNCHANGED <<head, worktree, git, query, cache>>

\* Only a failed checkout that leaves an index.lock behind is retried.
ClearStaleLock ==
    /\ pc = "clear"
    /\ pc' = IF indexLock THEN "retry" ELSE "failed"
    /\ indexLock' = FALSE
    /\ UNCHANGED <<head, worktree, git, query, cache>>

\* The generation reads the working tree; check_cancelled guards the write.
Generate ==
    /\ pc = "generate"
    /\ \/ /\ ~cancelled
          /\ cache' = [cache EXCEPT ![want] = worktree]
       \/ UNCHANGED cache
    /\ pc' = "idle"
    /\ UNCHANGED <<head, worktree, indexLock, git, query>>

ReportFailure ==
    /\ pc = "failed"
    /\ pc' = "idle"
    /\ UNCHANGED <<head, worktree, indexLock, git, query, cache>>

-----------------------------------------------------------------------------
(* The git process.                                                        *)

Running == pc \in {"first_running", "retry_running"}

AfterFailure == IF pc = "first_running" THEN "clear" ELSE "failed"

GitWritesFile(p) ==
    /\ git = "writing"
    /\ worktree[p] # want
    /\ worktree' = [worktree EXCEPT ![p] = want]
    /\ UNCHANGED <<head, indexLock, git, pc, query, cache>>

GitReplacesIndex ==
    /\ git = "writing"
    /\ worktree = FilesOf(want)
    /\ git' = "indexed"
    /\ indexLock' = FALSE
    /\ UNCHANGED <<head, worktree, pc, query, cache>>

GitMovesHead ==
    /\ git = "indexed"
    /\ git' = "none"
    /\ head' = want
    /\ pc' = IF cancelled THEN AfterFailure ELSE "generate"
    /\ UNCHANGED <<worktree, indexLock, query, cache>>

\* git gives up (no space left, a blob it cannot fetch): it removes its lock
\* and leaves the files it has written.
GitFails ==
    /\ "git_error" \in Interruptions
    /\ git = "writing"
    /\ git' = "none"
    /\ indexLock' = FALSE
    /\ gitFailed' = TRUE
    /\ pc' = AfterFailure
    /\ UNCHANGED <<head, worktree, want, cancelled, skipped, cache>>

-----------------------------------------------------------------------------
(* The rest of the world.                                                  *)

\* A timeout cancels the query; a git it is running is killed and cannot
\* clean up after itself.
CancelQuery ==
    /\ "cancel" \in Interruptions
    /\ pc # "idle" /\ ~cancelled
    /\ cancelled' = TRUE
    /\ git' = "none"
    /\ pc' = IF git = "none" THEN pc ELSE AfterFailure
    /\ UNCHANGED <<head, worktree, indexLock, want, gitFailed, skipped, cache>>

\* The server and its git die; the clone and the cache directory survive.
Crash ==
    /\ "crash" \in Interruptions
    /\ pc # "idle"
    /\ pc' = "idle"
    /\ git' = "none"
    /\ UNCHANGED <<head, worktree, indexLock, query, cache>>

\* Entries leave the cache, so that commits are generated again.
Evict(r) ==
    /\ cache[r] # NoEntry
    /\ cache' = [cache EXCEPT ![r] = NoEntry]
    /\ UNCHANGED <<head, worktree, indexLock, git, pc, query>>

QueryStep ==
    \/ CompareHead \/ FirstAttempt \/ ClearStaleLock \/ RetryCheckout
    \/ Generate \/ ReportFailure

GitStep ==
    \/ \E p \in Paths : GitWritesFile(p)
    \/ GitReplacesIndex \/ GitMovesHead \/ GitFails

Next ==
    \/ \E r \in Revs : Start(r) \/ Evict(r)
    \/ QueryStep \/ GitStep \/ CancelQuery \/ Crash

Spec == Init /\ [][Next]_vars

-----------------------------------------------------------------------------
(* Properties                                                              *)

TypeOK ==
    /\ head \in Revs
    /\ worktree \in [Paths -> Revs]
    /\ indexLock \in BOOLEAN
    /\ git \in {"none", "writing", "indexed"}
    /\ git # "none" => Running
    /\ pc \in {"idle", "compare", "first", "first_running", "clear", "retry",
               "retry_running", "generate", "failed"}
    /\ want \in Revs
    /\ cancelled \in BOOLEAN /\ gitFailed \in BOOLEAN /\ skipped \in BOOLEAN
    /\ cache \in [Revs -> [Paths -> Revs] \cup {NoEntry}]

\* A lock left by a git that was killed in an earlier query never makes a
\* later one fail: checkout clears it and retries, so a query fails only when
\* it is cancelled itself or git fails by itself.
StaleLockNeverFatal == pc = "failed" => cancelled \/ gitFailed

\* Whatever state a killed git left the clone in, a query that gets to run
\* git checkout --force reads exactly the commit it asked for.
ForcedCheckoutRepairs == pc = "generate" /\ ~skipped => worktree = FilesOf(want)

\* A cached entry was generated from the commit it is cached under: "A killed
\* git checkout can leave the clone mid-switch; the next query repairs it with
\* git checkout --force."
EntriesDescribeTheirCommit ==
    \A r \in Revs : cache[r] \in {NoEntry, FilesOf(r)}
=============================================================================
