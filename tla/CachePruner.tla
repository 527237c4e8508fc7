---------------------------- MODULE CachePruner -----------------------------
(***************************************************************************)
(* prune_cache of src/src/server.rs against the queries that read and      *)
(* write the cache directory meanwhile.                                    *)
(*                                                                         *)
(* The pruner thread takes no lock.  A pass lists the directory with the   *)
(* modification times, removes what is too old, lists again, and removes   *)
(* from the front of the list until the entry and the size limits hold.    *)
(***************************************************************************)
EXTENDS Naturals, Sequences, FiniteSets, FiniteSetsExt

CONSTANTS
    Keys,          \* cache entries
    Size,          \* [Keys -> Nat]: the bytes of each entry
    NoLimit,       \* a limit that is not configured
    MaxAge, MaxEntries, MaxSize,
    MaxClock       \* bound: how far the clock goes

ASSUME PrunerAssumption ==
    /\ IsFiniteSet(Keys)
    /\ Size \in [Keys -> Nat]
    /\ MaxAge \in Nat \cup {NoLimit} /\ MaxEntries \in Nat \cup {NoLimit}
    /\ MaxSize \in Nat \cup {NoLimit} /\ MaxClock \in Nat

VARIABLES
    clock,
    mtime,         \* the modification time of each entry on disk
    present,       \* the entries on disk
    pc,            \* where the pass is in prune_cache
    now,           \* the time the pass took at its start
    list,          \* its entries: <<key, modification time>>, oldest first
    quiet          \* no entry was used or written since the last listing

vars == <<clock, mtime, present, pc, now, list, quiet>>

Init ==
    /\ clock = 0
    /\ mtime = [k \in Keys |-> 0]
    /\ present = {}
    /\ pc = "idle"
    /\ now = 0
    /\ list = <<>>
    /\ quiet = TRUE

\* cache_entries sorted by modification time, in any order where those agree.
Listings ==
    {s \in [1 .. Cardinality(present) -> {<<k, mtime[k]>> : k \in present}] :
        \A i, j \in DOMAIN s : i < j => s[i] # s[j] /\ s[i][2] <= s[j][2]}

Relist(next) ==
    /\ list' \in Listings
    /\ quiet' = TRUE
    /\ pc' = next

MutantPassPerTick ==
    /\ pc = "idle" /\ clock > now
    /\ now' = clock
    /\ Relist(IF MaxAge = NoLimit THEN "entries" ELSE "age")
    /\ UNCHANGED <<clock, mtime, present>>

StartPass ==
    /\ pc = "idle"
    /\ now' = clock
    /\ Relist(IF MaxAge = NoLimit THEN "entries" ELSE "age")
    /\ UNCHANGED <<clock, mtime, present>>

\* remove_file ignores an error, such as a file another pass removed.
RemoveHead ==
    /\ list' = Tail(list)
    /\ present' = present \ {Head(list)[1]}

Expired == now - Head(list)[2] > MaxAge

RemoveExpired ==
    /\ pc = "age" /\ list # <<>>
    /\ IF Expired THEN RemoveHead ELSE list' = Tail(list) /\ UNCHANGED present
    /\ UNCHANGED <<clock, mtime, pc, now, quiet>>

ListAgain ==
    /\ pc = "age" /\ list = <<>>
    /\ Relist("entries")
    /\ UNCHANGED <<clock, mtime, present, now>>

TooMany == MaxEntries # NoLimit /\ Len(list) > MaxEntries

SizeOf(keys) == MapThenSumSet(LAMBDA k : Size[k], keys)

Total == SizeOf({list[i][1] : i \in DOMAIN list})

TooLarge == MaxSize # NoLimit /\ Total > MaxSize /\ list # <<>>

MutantRemoveNewest ==
    /\ pc \in {"entries", "size"}
    /\ IF pc = "entries" THEN TooMany ELSE TooLarge
    /\ list' = SubSeq(list, 1, Len(list) - 1)
    /\ present' = present \ {list[Len(list)][1]}
    /\ UNCHANGED <<clock, mtime, pc, now, quiet>>

RemoveOldest ==
    /\ pc \in {"entries", "size"}
    /\ IF pc = "entries" THEN TooMany ELSE TooLarge
    /\ RemoveHead
    /\ UNCHANGED <<clock, mtime, pc, now, quiet>>

EntriesDone ==
    /\ pc = "entries" /\ ~TooMany
    /\ pc' = "size"
    /\ UNCHANGED <<clock, mtime, present, now, list, quiet>>

PassDone ==
    /\ pc = "size" /\ ~TooLarge
    /\ pc' = "idle"
    /\ list' = <<>>
    /\ UNCHANGED <<clock, mtime, present, now, quiet>>

-----------------------------------------------------------------------------
(* Queries: get_hashes_locked touches the entry it hits and writes the one *)
(* it generates or copies from the shared tier.                            *)

Touch(k) ==
    /\ k \in present
    /\ mtime' = [mtime EXCEPT ![k] = clock]
    /\ quiet' = FALSE
    /\ UNCHANGED <<clock, present, pc, now, list>>

WriteEntry(k) ==
    /\ k \notin present
    /\ present' = present \cup {k}
    /\ mtime' = [mtime EXCEPT ![k] = clock]
    /\ quiet' = FALSE
    /\ UNCHANGED <<clock, pc, now, list>>

Tick ==
    /\ clock < MaxClock
    /\ clock' = clock + 1
    /\ UNCHANGED <<mtime, present, pc, now, list, quiet>>

PassStep ==
    RemoveExpired \/ ListAgain \/ RemoveOldest \/ EntriesDone \/ PassDone

Next ==
    \/ StartPass \/ PassStep
    \/ \E k \in Keys : Touch(k) \/ WriteEntry(k)
    \/ Tick

\* The pruner thread keeps starting passes and finishes those it starts.
Spec == Init /\ [][Next]_vars /\ WF_vars(StartPass) /\ WF_vars(PassStep)

-----------------------------------------------------------------------------
(* Properties                                                              *)

LimitsHold ==
    /\ MaxEntries # NoLimit => Cardinality(present) <= MaxEntries
    /\ MaxSize # NoLimit => SizeOf(present) <= MaxSize

\* An entry used or written no more than the maximum age before a pass began
\* is removed by that pass only for the entry or the size limit.
YoungEntriesStay ==
    pc = "age" => \A k \in present \ present' : now - mtime[k] > MaxAge

\* "evicting least-recently-used entries first": the entries a step of the
\* limit phases removes were used no later than any entry it leaves.
RemovesLeastRecent ==
    pc \in {"entries", "size"} =>
        \A k \in present \ present', other \in present' : mtime[k] <= mtime[other]

\* prune_cache: as long as no entry is used or written between a listing and
\* the removals made from it, a pass removes only what is too old or least
\* recently used, and leaves the directory within its limits.
QuietPassExact ==
    [][quiet => YoungEntriesStay /\ RemovesLeastRecent /\ (PassDone => LimitsHold)]_vars

\* Whatever a pass that ran against queries left behind, once no entry is
\* used or written any more the directory comes, and stays, within its limits.
LimitsRestored ==
    <>[][~\E k \in Keys : Touch(k) \/ WriteEntry(k)]_vars => <>[]LimitsHold
=============================================================================
