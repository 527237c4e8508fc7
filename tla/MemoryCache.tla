----------------------------- MODULE MemoryCache ----------------------------
(***************************************************************************)
(* MemoryCache of src/src/server.rs: the in-memory tier, least recently    *)
(* used first, within a budget of serialized bytes.                        *)
(***************************************************************************)
EXTENDS Integers, Sequences, FiniteSetsExt

CONSTANTS
    MemoryKeys,
    Sizes,       \* serialized lengths an entry may have
    Budget       \* --cacheMemoryMax

ASSUME MemoryAssumption == Sizes \subseteq Nat /\ Budget \in Nat

VARIABLES
    entries,     \* <<key, bytes>>, least recently used first
    used,        \* the bytes the cache accounts for
    recency      \* every entry ever kept, by its last use (not in the code)

memoryVars == <<entries, used, recency>>

MemoryInit ==
    /\ entries = <<>>
    /\ used = 0
    /\ recency = <<>>

\* The bytes of the first n entries, and of all of them.
BytesUpTo(s) ==
    LET sum[n \in 0 .. Len(s)] == IF n = 0 THEN 0 ELSE sum[n - 1] + s[n][2]
    IN  sum

Bytes(s) == BytesUpTo(s)[Len(s)]

\* position and remove(index)
Holds(s, k) == \E i \in DOMAIN s : s[i][1] = k

Position(s, k) == Min({i \in DOMAIN s : s[i][1] = k})

Removed(s, i) == [j \in 1 .. Len(s) - 1 |-> IF j < i THEN s[j] ELSE s[j + 1]]

Without(s, k) == IF Holds(s, k) THEN Removed(s, Position(s, k)) ELSE s

UsedNow(e) == recency' = Append(Without(recency, e[1]), e)

MutantGetKeepsPlace(k) ==
    /\ Holds(entries, k)
    /\ UNCHANGED entries
    /\ UsedNow(entries[Position(entries, k)])
    /\ UNCHANGED used

\* A hit moves the entry to the back; a miss changes nothing.
Get(k) ==
    /\ Holds(entries, k)
    /\ LET e == entries[Position(entries, k)]
       IN  entries' = Append(Without(entries, k), e) /\ UsedNow(e)
    /\ UNCHANGED used

\* How many entries the loop pops from the front of `rest` to fit `bytes`.
Evicted(rest, free, bytes) ==
    Min({n \in 0 .. Len(rest) :
            n = Len(rest) \/ free - BytesUpTo(rest)[n] + bytes <= Budget})

MutantEvictBeforeReplace(k, bytes) ==
    /\ bytes <= Budget
    /\ LET n == Evicted(entries, used, bytes)
           kept == SubSeq(entries, n + 1, Len(entries))
       IN  /\ entries' = Append(Without(kept, k), <<k, bytes>>)
           /\ used' = Bytes(Without(kept, k)) + bytes
    /\ UsedNow(<<k, bytes>>)

\* An entry larger than the budget is not kept; otherwise an entry of the
\* same key is replaced and entries are popped until the new one fits.
MemoryInsert(k, bytes) ==
    /\ bytes <= Budget
    /\ LET rest == Without(entries, k)
           free == IF Holds(entries, k) THEN used - entries[Position(entries, k)][2] ELSE used
           n == Evicted(rest, free, bytes)
       IN  /\ entries' = Append(SubSeq(rest, n + 1, Len(rest)), <<k, bytes>>)
           /\ used' = free - BytesUpTo(rest)[n] + bytes
    /\ UsedNow(<<k, bytes>>)

MemoryNext == \E k \in MemoryKeys : Get(k) \/ \E bytes \in Sizes : MemoryInsert(k, bytes)

MemorySpec == MemoryInit /\ [][MemoryNext]_memoryVars

-----------------------------------------------------------------------------
(* Properties                                                              *)

\* However entries are replaced, used and evicted, the counter is the sum of
\* the entries' sizes, stays within the budget, and no key is kept twice: the
\* unsigned subtractions of insert cannot wrap.
AccountingExact ==
    /\ used = Bytes(entries) /\ used \in 0 .. Budget
    /\ \A i, j \in DOMAIN entries : entries[i][1] = entries[j][1] => i = j

\* "the least recently used entry goes first when the budget is exceeded":
\* the cache holds the most recently used entries, each as it was last
\* inserted, in the order of their use.
HoldsMostRecent ==
    entries = SubSeq(recency, Len(recency) - Len(entries) + 1, Len(recency))

\* An insertion evicts an entry only when the new one does not fit beside it
\* and everything used after it.
EvictsOnlyForRoom ==
    [][LET last == entries'[Len(entries')]
       IN  \A i \in DOMAIN entries :
              \/ Holds(entries', entries[i][1])
              \/ Bytes(Without(SubSeq(entries, i, Len(entries)), last[1])) + last[2]
                     > Budget]_memoryVars

\* The memory tier holds exactly the most recently used entries and counts
\* their bytes exactly, within the budget.
MemoryTierExact == AccountingExact /\ HoldsMostRecent
=============================================================================
