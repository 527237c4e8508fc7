------------------------------ MODULE ModRepos ------------------------------
(***************************************************************************)
(* Reading repository definitions through `bazel mod` in src/src/bazel.rs  *)
(* when module extensions cannot be evaluated: one --all_repos invocation, *)
(* or invocations by name within the argument limit (show_repositories),   *)
(* each retried without the repositories that spoil it                     *)
(* (run_mod_over_repos), which a bisection of the failed batch identifies  *)
(* (find_unavailable_repositories); and the check that no target needs one *)
(* of them (check_failed_extension_references).                            *)
(***************************************************************************)
EXTENDS Naturals, Sequences, SequencesExt

CONSTANTS
    Requested,    \* the names to read: canonical names, then hidden module keys
    Hidden,       \* the module keys among them
    Extension,    \* the names is_extension_repo holds for
    Bytes,        \* the bytes a name takes on the command line
    Budget        \* mod_argument_byte_budget

ASSUME ModReposAssumption ==
    /\ IsInjective(Requested)
    /\ Extension \subseteq Range(Requested) \ Hidden
    /\ Bytes \in [Range(Requested) -> Nat]
    /\ Budget \in Nat

VARIABLES
    broken,       \* repositories whose mapping Bazel cannot compute
    missing,      \* repositories with a mapping and no definition
    steady,       \* whether Bazel answers by these sets, or anything at all
    bound,        \* whether the parents' mappings identify the module keys
    needed,       \* extension repositories the queried targets refer to
    keepGoing,    \* --keep_going
    pc,
    chunks,       \* the batches of names still to be read
    repos,        \* the names of the batch being read
    pending,      \* the stack of batches being bisected
    observed,     \* FailedExtensions.observed
    unavailable,  \* FailedExtensions.unavailable
    answered,     \* the definitions read so far, by name
    outcome

bazel == <<broken, missing, steady, bound, needed, keepGoing>>
vars == <<bazel, pc, chunks, repos, pending, observed, unavailable, answered, outcome>>

Size(names) == FoldLeft(LAMBDA n, name : n + Bytes[name], 0, names)

\* The consecutive runs of names that begin where start[i] = i.
Runs(names, start) ==
    LET heads == SelectSeq([i \in DOMAIN names |-> i], LAMBDA i : start[i] = i)
        last(k) == IF k = Len(heads) THEN Len(names) ELSE heads[k + 1] - 1
    IN  [k \in DOMAIN heads |-> SubSeq(names, heads[k], last(k))]

\* chunk_arguments: runs of at most Budget bytes, none empty.
Chunks(names) ==
    LET start[i \in DOMAIN names] ==
          IF i = 1 THEN 1
          ELSE LET s == start[i - 1]
               IN  IF Size(SubSeq(names, s, i)) > Budget THEN i ELSE s
    IN  Runs(names, start)

Available(names) == SelectSeq(names, LAMBDA name : name \notin unavailable)

Suspects(names) == SelectSeq(names, LAMBDA name : name \in Extension \ unavailable)

Canonical == SelectSeq(Requested, LAMBDA name : name \notin Hidden)

HiddenKeys == SelectSeq(Requested, LAMBDA name : name \in Hidden)

Init ==
    /\ broken \in SUBSET Extension
    /\ missing \in {{}} \cup {{r} : r \in Extension \ broken}
    /\ steady \in BOOLEAN /\ (~steady => broken = {} /\ missing = {})
    /\ bound \in BOOLEAN /\ keepGoing \in BOOLEAN
    /\ needed \in SUBSET Extension
    /\ pc = IF Size(Canonical) > Budget THEN "all" ELSE "explicit"
    /\ chunks = <<>> /\ repos = <<>> /\ pending = <<>>
    /\ observed = FALSE /\ unavailable = {}
    /\ answered = <<>>
    /\ outcome = "running"

-----------------------------------------------------------------------------
(* What `bazel mod` answers: "ok", "partial" (it failed and answered for   *)
(* the repositories that do not need a broken extension), "refused" (it    *)
(* named a failed extension and printed nothing) or "error".               *)

Anything == {"ok", "partial", "refused", "error"}

ShowAll ==
    IF ~steady THEN Anything
    ELSE IF broken = {} THEN {"ok"} ELSE {"partial", "refused"}

ShowRepo(names) ==
    IF ~steady THEN Anything
    ELSE IF Range(names) \cap (broken \cup missing) # {} THEN {"refused"}
    ELSE IF broken = {} THEN {"ok"} ELSE {"ok", "partial"}

DumpRepoMapping(names) ==
    IF ~steady THEN Anything \ {"partial"}
    ELSE IF Range(names) \cap broken # {} THEN {"refused"} ELSE {"ok"}

-----------------------------------------------------------------------------

Explicit(names) == chunks' = Chunks(names) /\ pc' = "chunk"

\* show_all_repositories; without an answer everything is read by name.
AskAll ==
    /\ pc = "all"
    /\ \E reply \in ShowAll :
          /\ observed' = (observed \/ reply \in {"partial", "refused"})
          /\ \/ /\ reply \in {"ok", "partial"}
                /\ \/ /\ reply = "ok" /\ bound
                      /\ answered' = SelectSeq(Requested, LAMBDA r : r \notin missing)
                      /\ Explicit(<<>>)
                   \/ /\ reply = "partial" \/ ~bound
                      /\ answered' = SelectSeq(Canonical, LAMBDA r : r \notin broken \cup missing)
                      /\ Explicit(HiddenKeys)
             \/ /\ reply \in {"refused", "error"}
                /\ pc' = "explicit"
                /\ UNCHANGED <<answered, chunks>>
    /\ UNCHANGED <<bazel, repos, pending, unavailable, outcome>>

ShowExplicit ==
    /\ pc = "explicit"
    /\ Explicit(Requested)
    /\ UNCHANGED <<bazel, repos, pending, observed, unavailable, answered, outcome>>

\* run_mod_over_repos starts on a batch, or nothing is left of it.
NextChunk ==
    /\ pc = "chunk" /\ chunks # <<>>
    /\ repos' = Available(Head(chunks))
    /\ chunks' = Tail(chunks)
    /\ pc' = IF repos' = <<>> THEN "chunk" ELSE "ask"
    /\ UNCHANGED <<bazel, pending, observed, unavailable, answered, outcome>>

Bail ==
    /\ outcome' = "failed"
    /\ pc' = "end"

Ask ==
    /\ pc = "ask"
    /\ \E reply \in ShowRepo(repos) :
          /\ observed' = (observed \/ reply \in {"partial", "refused"})
          /\ \/ /\ reply \in {"ok", "partial"}
                /\ answered' = answered \o repos
                /\ pc' = "chunk"
                /\ UNCHANGED <<pending, outcome>>
             \/ /\ reply = "refused"
                /\ pending' = Chunks(Suspects(repos))
                /\ pc' = "bisect"
                /\ UNCHANGED <<answered, outcome>>
             \/ /\ reply = "error"
                /\ Bail
                /\ UNCHANGED <<answered, pending>>
    /\ UNCHANGED <<bazel, chunks, repos, unavailable>>

MutantBlameBatch ==
    /\ pc \in {"bisect", "check"} /\ pending # <<>>
    /\ \E reply \in DumpRepoMapping(Head(pending)) :
          \/ /\ reply = "ok"
             /\ pending' = Tail(pending)
             /\ UNCHANGED <<unavailable, outcome, pc>>
          \/ /\ reply = "refused"
             /\ unavailable' = unavailable \cup Range(Head(pending))
             /\ pending' = Tail(pending)
             /\ UNCHANGED <<outcome, pc>>
          \/ /\ reply = "error"
             /\ Bail
             /\ UNCHANGED <<unavailable, pending>>
    /\ UNCHANGED <<bazel, chunks, repos, observed, answered>>

\* One batch of find_unavailable_repositories.
Bisect ==
    /\ pc \in {"bisect", "check"} /\ pending # <<>>
    /\ LET batch == Head(pending)
           half  == Len(batch) \div 2
       IN  \E reply \in DumpRepoMapping(batch) :
             \/ /\ reply = "ok"
                /\ pending' = Tail(pending)
                /\ UNCHANGED <<unavailable, outcome, pc>>
             \/ /\ reply = "refused" /\ Len(batch) = 1
                /\ unavailable' = unavailable \cup {batch[1]}
                /\ pending' = Tail(pending)
                /\ UNCHANGED <<outcome, pc>>
             \/ /\ reply = "refused" /\ Len(batch) > 1
                /\ pending' = <<SubSeq(batch, 1, half), SubSeq(batch, half + 1, Len(batch))>>
                              \o Tail(pending)
                /\ UNCHANGED <<unavailable, outcome, pc>>
             \/ /\ reply = "error"
                /\ Bail
                /\ UNCHANGED <<unavailable, pending>>
    /\ UNCHANGED <<bazel, chunks, repos, observed, answered>>

\* A retry without the unavailable repositories, unless none was found.
Retry ==
    /\ pc = "bisect" /\ pending = <<>>
    /\ \/ /\ Available(repos) = repos
          /\ Bail
          /\ UNCHANGED repos
       \/ /\ Available(repos) # repos
          /\ repos' = Available(repos)
          /\ pc' = IF repos' = <<>> THEN "chunk" ELSE "ask"
          /\ UNCHANGED outcome
    /\ UNCHANGED <<bazel, chunks, pending, observed, unavailable, answered>>

\* check_failed_extension_references: nothing failed, or the repositories the
\* targets refer to are bisected like the others.
CheckReferences ==
    /\ pc = "chunk" /\ chunks = <<>>
    /\ \/ /\ ~observed /\ unavailable = {}
          /\ outcome' = "ok" /\ pc' = "end"
          /\ UNCHANGED pending
       \/ /\ observed \/ unavailable # {}
          /\ pending' = Chunks(Suspects(SetToSeq(needed)))
          /\ pc' = "check"
          /\ UNCHANGED outcome
    /\ UNCHANGED <<bazel, chunks, repos, observed, unavailable, answered>>

\* A target that needs an unavailable repository is an error, or a warning.
Offenders ==
    /\ pc = "check" /\ pending = <<>>
    /\ \/ (needed \cap unavailable = {} \/ keepGoing) /\ outcome' = "ok" /\ pc' = "end"
       \/ needed \cap unavailable # {} /\ ~keepGoing /\ Bail
    /\ UNCHANGED <<bazel, chunks, repos, pending, observed, unavailable, answered>>

Next ==
    \/ AskAll \/ ShowExplicit \/ NextChunk \/ Ask \/ Bisect \/ Retry
    \/ CheckReferences \/ Offenders
    \/ pc = "end" /\ UNCHANGED vars

Spec == Init /\ [][Next]_vars /\ WF_vars(Next)

-----------------------------------------------------------------------------
(* Properties                                                              *)

\* Every batch handed to Bazel is non-empty and fits the command line, unless
\* it is a single name, also after retries and bisections.
BatchesFit ==
    \A batch \in Range(chunks) \cup Range(pending) \cup (IF pc = "ask" THEN {repos} ELSE {}) :
        batch # <<>> /\ (Len(batch) = 1 \/ Size(batch) <= Budget)

\* A successful read has the definition of every repository Bazel can define,
\* once and in the order asked for, however many batches failed on the way.
ReadsEverything ==
    steady /\ outcome = "ok" =>
        answered = SelectSeq(Requested, LAMBDA r : r \notin broken \cup missing)

\* Without --keep_going hashing goes on only if no target needs a repository
\* whose mapping failed; and it fails only for such a target, or for a
\* repository with a mapping and no definition.
NeededIsAvailable ==
    steady =>
        /\ outcome = "ok" /\ ~keepGoing => needed \cap broken = {}
        /\ outcome = "failed" => missing # {} \/ (needed \cap broken # {} /\ ~keepGoing)

\* Whatever Bazel answers, and however its answers contradict each other, the
\* retries and the bisections come to an end.
ReadEnds == <>(pc = "end")

\* show_repositories: a read asks in batches that fit, has everything Bazel can
\* define, and lets hashing go on only if nothing a target needs is missing.
ReadIsFaithful == BatchesFit /\ ReadsEverything /\ NeededIsAvailable
=============================================================================
