-------------------------- MODULE HashCacheProofs ---------------------------
(***************************************************************************)
(* Every tier of the cache, and every query, holds entries of the revision *)
(* they are stored or asked for, for any set of revisions, any relation of *)
(* module files and derivable pairs, with external repositories that may   *)
(* change at any time.                                                     *)
(*                                                                         *)
(* The fingerprint of a derived entry is the crux: get_hashes_locked may   *)
(* compute it on whatever is checked out, so the invariant follows the     *)
(* checkout (BaseHead, DataHead) as well as the entries.                   *)
(*                                                                         *)
(* The second part is about the dependency guard: what a query uses is     *)
(* never older than the query.                                             *)
(***************************************************************************)
EXTENDS HashCache, TLAPS

Holding == {"backfill", "backfilling", "fingerprint", "write", "publish",
            "insert", "return"}

CurOwn == cur # NoPrint => cur[1] = ModuleFiles[rev]

BaseOwn == base # NoEntry => OwnEntry(base, base.rev)

\* Under the guard a base without a fingerprint was generated by this query.
BaseHead ==
    guard /\ base # NoEntry /\ base.fp = NoPrint =>
        head = rev \/ ModuleFiles[head] = ModuleFiles[base.rev]

DataOwn == pc \in Holding => OwnEntry(data, rev)

DataHead ==
    guard /\ pc \in Holding /\ data.fp = NoPrint => ModuleFiles[head] = ModuleFiles[rev]

Parts == CurOwn /\ BaseOwn /\ BaseHead /\ DataOwn /\ DataHead

Inv == TypeOK /\ TiersConsistent /\ Parts

\* A fingerprint computed on a checkout of r is one of r's module files.
LEMMA FingerprintOwn ==
    ASSUME TypeOK, NEW r \in Revs
    PROVE  Fingerprint(r) \in Prints /\ Fingerprint(r)[1] = ModuleFiles[r]
  BY DEF Fingerprint, Prints, TypeOK

\* A torn file is no entry.
LEMMA TornNotEntry == Torn \notin Entries
  BY DEF Torn, Entries

\* The server starts with empty tiers and no query.
LEMMA InitInv == Init => Inv
  BY HashCacheAssumption, DistinctAssumption
  DEF Init, Inv, Parts, TypeOK, TiersConsistent, CurOwn, BaseOwn, BaseHead, DataOwn,
      DataHead, Holding

\* A tier's entry that passes cache_entry_is_servable becomes the query's; one
\* that does not leaves the query without an entry and `rev` checked out.
LEMMA ServableInv ==
    ASSUME Inv, NEW e \in Entries, OwnEntry(e, rev),
           NEW yes \in {"return", "insert", "backfill"},
           NEW no \in {"disk", "remote", "generate"},
           Servable(e, yes, no), UNCHANGED <<tiers, guard, world, query>>
    PROVE  Inv'
<1> USE DEF Inv, tiers, query
<1>1. /\ cur' \in Prints \cup {NoPrint} /\ CurOwn'
      /\ head' \in {head, rev} /\ head' \in Revs
      /\ \/ pc' = yes /\ data' = e /\ (guard => e.fp # NoPrint)
         \/ pc' = no /\ data' = data
  <2>1. CASE ~guard
    BY <2>1 DEF Servable, Goto, Parts, CurOwn, TypeOK
  <2>2. CASE guard /\ e.fp = NoPrint
    BY <2>2 DEF Servable, Goto, Parts, CurOwn, TypeOK
  <2>3. CASE guard /\ e.fp # NoPrint
    <3>1. PICK f \in IF cur = NoPrint THEN {Fingerprint(rev), NoPrint} ELSE {cur} :
             /\ cur' = f
             /\ pc' = IF e.fp = f THEN yes ELSE no
             /\ data' = IF e.fp = f THEN e ELSE data
      BY <2>3 DEF Servable, Goto
    <3>2. f \in Prints \cup {NoPrint} /\ (f # NoPrint => f[1] = ModuleFiles[rev])
      BY FingerprintOwn DEF Parts, CurOwn, TypeOK
    <3>3. head' \in {head, rev}
      BY <2>3 DEF Servable
    <3> QED BY <2>3, <3>1, <3>2, <3>3 DEF CurOwn, TypeOK
  <2> QED BY <2>1, <2>2, <2>3
<1>2. TypeOK'
  BY <1>1, DistinctAssumption DEF TypeOK
<1>3. TiersConsistent'
  BY DEF TiersConsistent, OwnEntry
<1>4. BaseOwn' /\ BaseHead'
  BY <1>1 DEF Parts, BaseOwn, BaseHead, OwnEntry
<1>5. DataOwn' /\ DataHead'
  BY <1>1 DEF Parts, DataOwn, DataHead, OwnEntry, Holding
<1> QED BY <1>1, <1>2, <1>3, <1>4, <1>5 DEF Parts

\* Every step of a query, of the pruner, of another replica and of the world,
\* and a crash at any point, keeps the invariant.
LEMMA NextInv == Inv /\ [Next]_vars => Inv'
<1> SUFFICES ASSUME Inv, [Next]_vars PROVE Inv'
  OBVIOUS
<1> USE DEF Inv
<1>1. ASSUME NEW f \in Revs, NEW t \in Revs \cup {NoRev}, Begin(f, t)
      PROVE  Inv'
  <2>1. TypeOK'
    BY <1>1 DEF Begin, Goto, tiers, TypeOK
  <2>2. TiersConsistent' /\ Parts'
    BY <1>1 DEF Begin, Goto, tiers, TiersConsistent, OwnEntry, Parts, CurOwn, BaseOwn,
                BaseHead, DataOwn, DataHead, Holding
  <2> QED BY <2>1, <2>2
<1>2. ASSUME MemoryTier PROVE Inv'
  <2>1. CASE memory[rev] = NoEntry
    <3>1. TypeOK'
      BY <1>2, <2>1, DistinctAssumption DEF MemoryTier, Servable, Goto, tiers, query, TypeOK
    <3>2. TiersConsistent' /\ Parts'
      BY <1>2, <2>1 DEF MemoryTier, Goto, tiers, query, TiersConsistent, OwnEntry, Parts,
                  CurOwn, BaseOwn, BaseHead, DataOwn, DataHead, Holding
    <3> QED BY <3>1, <3>2
  <2>2. CASE memory[rev] # NoEntry
    <3>1. memory[rev] \in Entries /\ OwnEntry(memory[rev], rev)
      BY <2>2, TornNotEntry DEF TypeOK, TiersConsistent
    <3> QED BY <1>2, <2>2, <3>1, ServableInv DEF MemoryTier
  <2> QED BY <2>1, <2>2
<1>3. ASSUME DiskLookup PROVE Inv'
  <2>1. TypeOK'
    BY <1>3 DEF DiskLookup, Goto, tiers, query, TypeOK
  <2>2. TiersConsistent' /\ Parts'
    BY <1>3 DEF DiskLookup, Goto, tiers, query, TypeOK, TiersConsistent,
                OwnEntry, Parts, CurOwn, BaseOwn,
                BaseHead, DataOwn, DataHead, Holding
  <2> QED BY <2>1, <2>2
<1>4. ASSUME DiskRead PROVE Inv'
  <2>1. CASE disk[rev] \in {NoEntry, Torn}
    <3>1. TypeOK'
      BY <1>4, <2>1 DEF DiskRead, Goto, tiers, query, TypeOK
    <3>2. TiersConsistent' /\ Parts'
      BY <1>4, <2>1 DEF DiskRead, Goto, tiers, query, TiersConsistent, OwnEntry, Parts,
                  CurOwn, BaseOwn, BaseHead, DataOwn, DataHead, Holding
    <3> QED BY <3>1, <3>2
  <2>2. CASE disk[rev] \notin {NoEntry, Torn}
    <3>1. disk[rev] \in Entries /\ OwnEntry(disk[rev], rev)
      BY <2>2 DEF TypeOK, TiersConsistent
    <3> QED BY <1>4, <2>2, <3>1, ServableInv DEF DiskRead
  <2> QED BY <2>1, <2>2
<1>5. ASSUME RemoteTier PROVE Inv'
  <2>1. CASE pc' = "generate" /\ UNCHANGED <<head, cur, data>>
    <3>1. TypeOK'
      BY <1>5, <2>1 DEF RemoteTier, tiers, query, TypeOK
    <3>2. TiersConsistent' /\ Parts'
      BY <1>5, <2>1 DEF RemoteTier, tiers, query, TiersConsistent, OwnEntry, Parts,
                  CurOwn, BaseOwn, BaseHead, DataOwn, DataHead, Holding
    <3> QED BY <3>1, <3>2
  <2>2. CASE remote[rev] # NoEntry /\ Servable(remote[rev], "backfill", "generate")
    <3>1. remote[rev] \in Entries
      BY <2>2 DEF TypeOK
    <3>2. OwnEntry(remote[rev], rev)
      BY <2>2, <3>1, TornNotEntry DEF TypeOK, TiersConsistent
    <3> QED BY <1>5, <2>2, <3>1, <3>2, ServableInv DEF RemoteTier
  <2> QED BY <1>5, <2>1, <2>2 DEF RemoteTier, Goto
<1>6. ASSUME BackfillStart PROVE Inv'
  <2>1. TypeOK'
    BY <1>6 DEF BackfillStart, Goto, tiers, query, TypeOK
  <2>2. TiersConsistent' /\ Parts'
    BY <1>6 DEF BackfillStart, Goto, tiers, query, TypeOK, TiersConsistent,
                OwnEntry, Parts, CurOwn, BaseOwn,
                BaseHead, DataOwn, DataHead, Holding
  <2> QED BY <2>1, <2>2
<1>7. ASSUME BackfillEnd PROVE Inv'
  <2>1. TypeOK'
    BY <1>7 DEF BackfillEnd, Goto, tiers, query, TypeOK
  <2>2. TiersConsistent' /\ Parts'
    BY <1>7 DEF BackfillEnd, Goto, tiers, query, TypeOK, TiersConsistent,
                OwnEntry, Parts, CurOwn, BaseOwn,
                BaseHead, DataOwn, DataHead, Holding
  <2> QED BY <2>1, <2>2
<1>8. ASSUME Generate PROVE Inv'
  <2>1. CASE /\ base # NoEntry /\ <<base.rev, rev>> \in Derivable
             /\ data' = [base EXCEPT !.rev = rev] /\ UNCHANGED head
    <3>1. /\ base \in Entries /\ data' \in Entries
          /\ data'.rev = rev /\ data'.fp = base.fp
      BY <2>1 DEF TypeOK, Entries
    <3>2. ModuleFiles[base.rev] = ModuleFiles[rev]
      BY <2>1, HashCacheAssumption
    <3>3. TypeOK'
      BY <1>8, <2>1, <3>1, DistinctAssumption DEF Generate, Goto, tiers, query, TypeOK
    <3>4. TiersConsistent' /\ CurOwn' /\ BaseOwn' /\ BaseHead'
      BY <1>8, <2>1 DEF Generate, tiers, query, TiersConsistent, OwnEntry, Parts, CurOwn,
                  BaseOwn, BaseHead
    <3>5. DataOwn' /\ DataHead'
      BY <1>8, <2>1, <3>1, <3>2 DEF Generate, tiers, query, OwnEntry, Parts, BaseOwn,
                  BaseHead, DataOwn, DataHead
    <3> QED BY <3>3, <3>4, <3>5 DEF Parts
  <2>2. CASE data' = [rev |-> rev, world |-> world, fp |-> NoPrint] /\ head' = rev
    <3>1. data' \in Entries /\ data'.rev = rev /\ data'.fp = NoPrint
      BY <2>2 DEF TypeOK, Entries
    <3>2. TypeOK'
      BY <1>8, <2>2, <3>1, DistinctAssumption DEF Generate, Goto, tiers, query, TypeOK
    <3>3. TiersConsistent' /\ Parts'
      BY <1>8, <2>2, <3>1 DEF Generate, tiers, query, TiersConsistent, OwnEntry, Parts,
                  CurOwn, BaseOwn, BaseHead, DataOwn, DataHead
    <3> QED BY <3>2, <3>3
  <2> QED BY <1>8, <2>1, <2>2 DEF Generate
<1>9. ASSUME RecordFingerprint PROVE Inv'
  <2>1. data \in Entries /\ OwnEntry(data, rev)
    BY <1>9 DEF RecordFingerprint, TypeOK, Parts, DataOwn, Holding
  <2>2. CASE guard /\ data.fp = NoPrint
    <3>1. PICK f \in IF cur = NoPrint THEN {Fingerprint(head), NoPrint} ELSE {cur} :
             data' = [data EXCEPT !.fp = f]
      BY <1>9, <2>2 DEF RecordFingerprint
    <3>2. f \in Prints \cup {NoPrint} /\ (f # NoPrint => f[1] = ModuleFiles[rev])
      <4>1. Fingerprint(head) \in Prints /\ Fingerprint(head)[1] = ModuleFiles[head]
        BY FingerprintOwn DEF TypeOK
      <4>2. ModuleFiles[head] = ModuleFiles[rev]
        BY <1>9, <2>2 DEF RecordFingerprint, Parts, DataHead, Holding
      <4> QED BY <4>1, <4>2 DEF Parts, CurOwn, TypeOK
    <3>3. /\ data' \in Entries /\ data'.rev = rev /\ data'.fp = f
          /\ cur' = NoPrint
      BY <1>9, <2>1, <2>2, <3>1, <3>2 DEF RecordFingerprint, Entries, OwnEntry
    <3>4. TypeOK'
      BY <1>9, <3>3, DistinctAssumption DEF RecordFingerprint, Goto, tiers, query, TypeOK
    <3>5. TiersConsistent' /\ CurOwn' /\ BaseOwn' /\ BaseHead'
      BY <1>9, <3>3 DEF RecordFingerprint, tiers, query, TiersConsistent, OwnEntry, Parts,
                  CurOwn, BaseOwn, BaseHead
    <3>6. DataOwn' /\ DataHead'
      BY <1>9, <2>2, <3>2, <3>3 DEF RecordFingerprint, tiers, query, OwnEntry, Parts,
                  DataOwn, DataHead, Holding
    <3> QED BY <3>4, <3>5, <3>6 DEF Parts
  <2>3. CASE UNCHANGED <<data, cur>>
    <3>1. TypeOK'
      BY <1>9, <2>3 DEF RecordFingerprint, Goto, tiers, query, TypeOK
    <3>2. TiersConsistent' /\ Parts'
      BY <1>9, <2>3 DEF RecordFingerprint, Goto, tiers, query, TiersConsistent, OwnEntry,
                  Parts, CurOwn, BaseOwn, BaseHead, DataOwn, DataHead, Holding
    <3> QED BY <3>1, <3>2
  <2> QED BY <1>9, <2>2, <2>3 DEF RecordFingerprint
<1>10. ASSUME WriteEntry PROVE Inv'
  <2>1. TypeOK'
    BY <1>10 DEF WriteEntry, Goto, tiers, query, TypeOK
  <2>2. TiersConsistent' /\ Parts'
    BY <1>10 DEF WriteEntry, Goto, tiers, query, TypeOK, TiersConsistent,
                OwnEntry, Parts, CurOwn, BaseOwn,
                BaseHead, DataOwn, DataHead, Holding
  <2> QED BY <2>1, <2>2
<1>11. ASSUME Publish PROVE Inv'
  <2>1. TypeOK'
    BY <1>11 DEF Publish, Goto, tiers, query, TypeOK
  <2>2. TiersConsistent' /\ Parts'
    BY <1>11 DEF Publish, Goto, tiers, query, TypeOK, TiersConsistent,
                OwnEntry, Parts, CurOwn, BaseOwn,
                BaseHead, DataOwn, DataHead, Holding
  <2> QED BY <2>1, <2>2
<1>12. ASSUME Insert PROVE Inv'
  <2>1. TypeOK'
    BY <1>12 DEF Insert, Goto, tiers, query, TypeOK
  <2>2. TiersConsistent' /\ Parts'
    BY <1>12 DEF Insert, Goto, tiers, query, TypeOK, TiersConsistent,
                OwnEntry, Parts, CurOwn, BaseOwn,
                BaseHead, DataOwn, DataHead, Holding
  <2> QED BY <2>1, <2>2
<1>13. ASSUME Return PROVE Inv'
  <2>1. TypeOK'
    BY <1>13 DEF Return, Goto, tiers, query, End, TypeOK
  <2>2. TiersConsistent' /\ Parts'
    BY <1>13 DEF Return, Goto, tiers, query, End, TypeOK, TiersConsistent,
                OwnEntry, Parts, CurOwn, BaseOwn,
                BaseHead, DataOwn, DataHead, Holding
  <2> QED BY <2>1, <2>2
<1>14. ASSUME Fail PROVE Inv'
  <2>1. TypeOK'
    BY <1>14 DEF Fail, Goto, tiers, query, End, TypeOK
  <2>2. TiersConsistent' /\ Parts'
    BY <1>14 DEF Fail, Goto, tiers, query, End, TypeOK, TiersConsistent,
                OwnEntry, Parts, CurOwn, BaseOwn,
                BaseHead, DataOwn, DataHead, Holding
  <2> QED BY <2>1, <2>2
<1>15. ASSUME Crash PROVE Inv'
  <2>1. TypeOK'
    BY <1>15, DistinctAssumption DEF Crash, Goto, tiers, query, End, TypeOK
  <2>2. TiersConsistent' /\ Parts'
    BY <1>15, DistinctAssumption DEF Crash, Goto, tiers, query, End, TypeOK, TiersConsistent,
                OwnEntry, Parts, CurOwn, BaseOwn,
                BaseHead, DataOwn, DataHead, Holding
  <2> QED BY <2>1, <2>2
<1>16. ASSUME NEW r \in Revs, Prune(r) PROVE Inv'
  <2>1. TypeOK'
    BY <1>16 DEF Prune, query, TypeOK
  <2>2. TiersConsistent' /\ Parts'
    BY <1>16 DEF Prune, query, TypeOK, TiersConsistent,
                OwnEntry, Parts, CurOwn, BaseOwn,
                BaseHead, DataOwn, DataHead, Holding
  <2> QED BY <2>1, <2>2
<1>17. ASSUME NEW r \in Revs, ReplicaPublishes(r) PROVE Inv'
  <2>1. PICK f \in {Fingerprint(r), NoPrint} :
           remote' = [remote EXCEPT ![r] = [rev |-> r, world |-> world, fp |-> f]]
    BY <1>17, Zenon DEF ReplicaPublishes
  <2>2. f \in Prints \cup {NoPrint} /\ (f # NoPrint => f[1] = ModuleFiles[r])
    BY FingerprintOwn
  <2>3. [rev |-> r, world |-> world, fp |-> f] \in Entries
    BY <2>2 DEF Entries, TypeOK
  <2>4. TypeOK'
    BY <1>17, <2>1, <2>3 DEF ReplicaPublishes, query, TypeOK
  <2>5. TiersConsistent' /\ Parts'
    BY <1>17, <2>1, <2>2 DEF ReplicaPublishes, query, TypeOK, TiersConsistent, OwnEntry,
                Parts, CurOwn, BaseOwn, BaseHead, DataOwn, DataHead, Holding
  <2> QED BY <2>4, <2>5
<1>18. ASSUME WorldChanges PROVE Inv'
  <2>1. TypeOK'
    BY <1>18, HashCacheAssumption DEF WorldChanges, Goto, tiers, query, TypeOK
  <2>2. TiersConsistent' /\ Parts'
    BY <1>18, HashCacheAssumption DEF WorldChanges, Goto, tiers, query, TypeOK, TiersConsistent,
                OwnEntry, Parts, CurOwn, BaseOwn,
                BaseHead, DataOwn, DataHead, Holding
  <2> QED BY <2>1, <2>2
<1>19. ASSUME UNCHANGED vars PROVE Inv'
  <2>1. TypeOK'
    BY <1>19 DEF vars, tiers, query, TypeOK
  <2>2. TiersConsistent' /\ Parts'
    BY <1>19 DEF vars, tiers, query, TiersConsistent, OwnEntry, Parts, CurOwn, BaseOwn,
                BaseHead, DataOwn, DataHead, Holding
  <2> QED BY <2>1, <2>2
<1> QED
  BY <1>1, <1>2, <1>3, <1>4, <1>5, <1>6, <1>7, <1>8, <1>9, <1>10, <1>11, <1>12, <1>13,
     <1>14, <1>15, <1>16, <1>17, <1>18, <1>19 DEF Next, QueryStep

\* The invariant holds throughout.
THEOREM Invariance == Spec => []Inv
  BY InitInv, NextInv, PTL DEF Spec

\* The state of get_hashes_locked and of the tiers is well formed.
THEOREM TypeCorrect == Spec => []TypeOK
<1>1. Inv => TypeOK
  BY DEF Inv
<1> QED BY <1>1, Invariance, PTL

\* Every entry in the memory, the disk and the shared tier is one of the
\* revision it is stored under, with no fingerprint or one of that revision's
\* module files, also when it was derived without checking the revision out.
THEOREM EntriesStayOwn == Spec => []TiersConsistent
<1>1. Inv => TiersConsistent
  BY DEF Inv
<1> QED BY <1>1, Invariance, PTL

\* What get_hashes_locked returns for a revision is an entry of that revision.
THEOREM QueriesUseOwn == Spec => []UsesOwnEntry
<1>1. Inv => UsesOwnEntry
  BY DEF Inv, Parts, DataOwn, Holding, UsesOwnEntry
<1> QED BY <1>1, Invariance, PTL

\* For any revisions, module files and derivable pairs: no entry is stored
\* under, or used for, a revision other than the one it describes.
THEOREM OnlyOwnEntries == Spec => []OwnEntriesOnly
  BY EntriesStayOwn, QueriesUseOwn, PTL DEF OwnEntriesOnly

-----------------------------------------------------------------------------
(* Freshness under --dependencyFingerprint, when the external repositories *)
(* stay as they are while a query runs.  A fingerprint only speaks for the *)
(* world it was computed in, so the invariant dates every entry, base and  *)
(* fingerprint: an entry that matches the current fingerprint is then one  *)
(* of the query's own world, and so is what is derived from it.            *)

\* What an entry records is not of a later world, and its fingerprint is that of
\* the world it was generated in.
Dated(e) == e.world <= world /\ (e.fp # NoPrint => e.fp[2] = e.world)

\* A query sees one world, and the fingerprint it computed is of that world.
QueryDated ==
    /\ pc # "idle" => since = world
    /\ pc = "idle" => base = NoEntry /\ cur = NoPrint
    /\ cur # NoPrint => cur[2] = world

TiersDated ==
    \A r \in Revs :
        \A e \in {memory[r], disk[r], remote[r]} \ {NoEntry, Torn} : Dated(e)

BaseDated == base # NoEntry => Dated(base) /\ (guard => base.world >= since)

DataDated == pc \in Holding => Dated(data) /\ (guard => data.world >= since)

FreshInv == QueryDated /\ TiersDated /\ BaseDated /\ DataDated

\* The server starts with nothing that could be stale.
LEMMA InitFresh == Init => FreshInv
  BY DEF Init, FreshInv, QueryDated, TiersDated, BaseDated, DataDated, Holding

\* A fingerprint computed now is one of the current world.
LEMMA FingerprintDated ==
    ASSUME NEW r
    PROVE  Fingerprint(r)[2] = world
  BY DEF Fingerprint

\* cache_entry_is_servable lets a stale entry through only without the guard.
LEMMA ServableFresh ==
    ASSUME Inv, FreshInv, pc # "idle", NEW e \in Entries, Dated(e),
           NEW yes \in {"return", "insert", "backfill"},
           NEW no \in {"disk", "remote", "generate"},
           Servable(e, yes, no), UNCHANGED <<tiers, guard, world, query>>
    PROVE  FreshInv'
<1> USE DEF FreshInv, tiers, query
<1>1. /\ cur' # NoPrint => cur'[2] = world
      /\ \/ pc' = yes /\ data' = e /\ (guard => e.world = world)
         \/ pc' = no /\ data' = data
  <2>1. CASE ~guard
    BY <2>1 DEF Servable, Goto, QueryDated
  <2>2. CASE guard /\ e.fp = NoPrint
    BY <2>2 DEF Servable, Goto, QueryDated
  <2>3. CASE guard /\ e.fp # NoPrint
    <3>1. PICK f \in IF cur = NoPrint THEN {Fingerprint(rev), NoPrint} ELSE {cur} :
             /\ cur' = f
             /\ pc' = IF e.fp = f THEN yes ELSE no
             /\ data' = IF e.fp = f THEN e ELSE data
      BY <2>3 DEF Servable, Goto
    <3>2. f # NoPrint => f[2] = world
      BY FingerprintDated DEF QueryDated
    <3> QED BY <2>3, <3>1, <3>2 DEF Dated
  <2> QED BY <2>1, <2>2, <2>3
<1>2. world \in Nat /\ e.world \in Nat
  BY HashCacheAssumption DEF Inv, TypeOK, Entries
<1>3. QueryDated'
  BY <1>1 DEF QueryDated
<1>4. TiersDated' /\ BaseDated'
  BY DEF TiersDated, BaseDated, Dated
<1>5. DataDated'
  BY <1>1, <1>2 DEF DataDated, Dated, Holding, QueryDated
<1> QED BY <1>3, <1>4, <1>5

\* While no query straddles a change of the world, every step keeps the dates.
LEMMA NextFresh == QuietQueries /\ Inv /\ FreshInv /\ [Next]_vars => FreshInv'
<1> SUFFICES ASSUME QuietQueries, Inv, FreshInv, [Next]_vars PROVE FreshInv'
  OBVIOUS
<1> USE DEF FreshInv
<1>a. /\ world \in Nat /\ since \in Nat
      /\ \A e \in Entries : e.world \in Nat
  BY HashCacheAssumption DEF Inv, TypeOK, Entries
<1>1. ASSUME NEW f \in Revs, NEW t \in Revs \cup {NoRev}, Begin(f, t)
      PROVE  FreshInv'
  BY <1>1 DEF Begin, Goto, tiers, QueryDated, TiersDated, BaseDated, DataDated, Dated, Holding
<1>2. ASSUME MemoryTier PROVE FreshInv'
  <2>1. CASE memory[rev] = NoEntry
    BY <1>2, <2>1 DEF MemoryTier, Goto, tiers, query, QueryDated, TiersDated, BaseDated,
                DataDated, Dated, Holding
  <2>2. CASE memory[rev] # NoEntry
    <3>1. memory[rev] \in Entries
      BY <2>2 DEF Inv, TypeOK
    <3>2. Dated(memory[rev])
      BY <2>2, <3>1, TornNotEntry DEF Inv, TypeOK, TiersDated
    <3> QED BY <1>2, <2>2, <3>1, <3>2, ServableFresh DEF MemoryTier
  <2> QED BY <2>1, <2>2
<1>3. ASSUME DiskLookup PROVE FreshInv'
  BY <1>3 DEF DiskLookup, Goto, tiers, query, QueryDated, TiersDated, BaseDated, DataDated,
              Dated, Holding
<1>4. ASSUME DiskRead PROVE FreshInv'
  <2>1. CASE disk[rev] \in {NoEntry, Torn}
    BY <1>4, <2>1 DEF DiskRead, Goto, tiers, query, QueryDated, TiersDated, BaseDated,
                DataDated, Dated, Holding
  <2>2. CASE disk[rev] \notin {NoEntry, Torn}
    <3>1. disk[rev] \in Entries /\ Dated(disk[rev])
      BY <2>2 DEF Inv, TypeOK, TiersDated
    <3> QED BY <1>4, <2>2, <3>1, ServableFresh DEF DiskRead
  <2> QED BY <2>1, <2>2
<1>5. ASSUME RemoteTier PROVE FreshInv'
  <2>1. CASE pc' = "generate" /\ UNCHANGED <<head, cur, data>>
    BY <1>5, <2>1 DEF RemoteTier, tiers, query, QueryDated, TiersDated, BaseDated,
                DataDated, Dated, Holding
  <2>2. CASE remote[rev] # NoEntry /\ Servable(remote[rev], "backfill", "generate")
    <3>1. remote[rev] \in Entries
      BY <2>2 DEF Inv, TypeOK
    <3>2. Dated(remote[rev])
      BY <2>2, <3>1, TornNotEntry DEF Inv, TypeOK, TiersDated
    <3> QED BY <1>5, <2>2, <3>1, <3>2, ServableFresh DEF RemoteTier
  <2> QED BY <1>5, <2>1, <2>2 DEF RemoteTier, Goto
<1>6. ASSUME BackfillStart PROVE FreshInv'
  <2>1. QueryDated' /\ BaseDated' /\ DataDated'
    BY <1>6, <1>a DEF BackfillStart, Goto, tiers, query, QueryDated, BaseDated, DataDated, Dated,
                Holding
  <2>2. TiersDated'
    BY <1>6 DEF BackfillStart, tiers, query, Inv, TypeOK, TiersDated, DataDated, Dated, Holding
  <2> QED BY <2>1, <2>2
<1>7. ASSUME BackfillEnd PROVE FreshInv'
  <2>1. QueryDated' /\ BaseDated' /\ DataDated'
    BY <1>7, <1>a DEF BackfillEnd, Goto, tiers, query, QueryDated, BaseDated, DataDated, Dated,
                Holding
  <2>2. TiersDated'
    BY <1>7 DEF BackfillEnd, tiers, query, Inv, TypeOK, TiersDated, DataDated, Dated, Holding
  <2> QED BY <2>1, <2>2
<1>8. ASSUME Generate PROVE FreshInv'
  <2>1. CASE /\ base # NoEntry /\ data' = [base EXCEPT !.rev = rev]
    <3>1. base \in Entries /\ data'.world = base.world /\ data'.fp = base.fp
      BY <2>1 DEF Inv, TypeOK, Entries
    <3> QED BY <1>8, <2>1, <3>1 DEF Generate, Goto, tiers, query, QueryDated, TiersDated,
                BaseDated, DataDated, Dated
  <2>2. CASE data' = [rev |-> rev, world |-> world, fp |-> NoPrint]
    BY <1>8, <1>a, <2>2 DEF Generate, Goto, tiers, query, QueryDated, TiersDated,
                BaseDated, DataDated, Dated
  <2> QED BY <1>8, <2>1, <2>2 DEF Generate
<1>9. ASSUME RecordFingerprint PROVE FreshInv'
  <2>1. /\ data \in Entries /\ Dated(data) /\ since = world
        /\ guard => data.world = world
    BY <1>9, <1>a DEF RecordFingerprint, Inv, TypeOK, DataDated, Dated, QueryDated, Holding
  <2>2. CASE guard /\ data.fp = NoPrint
    <3>1. PICK f \in IF cur = NoPrint THEN {Fingerprint(head), NoPrint} ELSE {cur} :
             data' = [data EXCEPT !.fp = f]
      BY <1>9, <2>2 DEF RecordFingerprint
    <3>2. f # NoPrint => f[2] = world
      BY FingerprintDated DEF QueryDated
    <3>3. data'.world = world /\ data'.fp = f /\ cur' = NoPrint
      BY <1>9, <2>1, <2>2, <3>1 DEF RecordFingerprint, Entries
    <3> QED BY <1>9, <1>a, <2>1, <3>2, <3>3 DEF RecordFingerprint, Goto, tiers, query,
                QueryDated, TiersDated, BaseDated, DataDated, Dated
  <2>3. CASE UNCHANGED <<data, cur>>
    BY <1>9, <2>3 DEF RecordFingerprint, Goto, tiers, query, QueryDated, TiersDated,
                BaseDated, DataDated, Dated, Holding
  <2> QED BY <1>9, <2>2, <2>3 DEF RecordFingerprint
<1>10. ASSUME WriteEntry PROVE FreshInv'
  <2>1. QueryDated' /\ BaseDated' /\ DataDated'
    BY <1>10, <1>a DEF WriteEntry, Goto, tiers, query, QueryDated, BaseDated, DataDated, Dated,
                Holding
  <2>2. TiersDated'
    BY <1>10 DEF WriteEntry, tiers, query, Inv, TypeOK, TiersDated, DataDated, Dated, Holding
  <2> QED BY <2>1, <2>2
<1>11. ASSUME Publish PROVE FreshInv'
  <2>1. QueryDated' /\ BaseDated' /\ DataDated'
    BY <1>11, <1>a DEF Publish, Goto, tiers, query, QueryDated, BaseDated, DataDated, Dated,
                Holding
  <2>2. TiersDated'
    BY <1>11 DEF Publish, tiers, query, Inv, TypeOK, TiersDated, DataDated, Dated, Holding
  <2> QED BY <2>1, <2>2
<1>12. ASSUME Insert PROVE FreshInv'
  <2>1. QueryDated' /\ BaseDated' /\ DataDated'
    BY <1>12, <1>a DEF Insert, Goto, tiers, query, QueryDated, BaseDated, DataDated, Dated,
                Holding
  <2>2. TiersDated'
    BY <1>12 DEF Insert, tiers, query, Inv, TypeOK, TiersDated, DataDated, Dated, Holding
  <2> QED BY <2>1, <2>2
<1>13. ASSUME Return PROVE FreshInv'
  <2>1. QueryDated' /\ BaseDated' /\ DataDated'
    BY <1>13, <1>a DEF Return, Goto, tiers, query, End, QueryDated, BaseDated, DataDated, Dated,
                Holding
  <2>2. TiersDated'
    BY <1>13 DEF Return, tiers, query, End, Inv, TypeOK, TiersDated, DataDated, Dated, Holding
  <2> QED BY <2>1, <2>2
<1>14. ASSUME Fail PROVE FreshInv'
  <2>1. QueryDated' /\ BaseDated' /\ DataDated'
    BY <1>14, <1>a DEF Fail, Goto, tiers, query, End, QueryDated, BaseDated, DataDated, Dated,
                Holding
  <2>2. TiersDated'
    BY <1>14 DEF Fail, tiers, query, End, Inv, TypeOK, TiersDated, DataDated, Dated, Holding
  <2> QED BY <2>1, <2>2
<1>15. ASSUME Crash PROVE FreshInv'
  <2>1. QueryDated' /\ BaseDated' /\ DataDated'
    BY <1>15, <1>a DEF Crash, Goto, tiers, query, End, QueryDated, BaseDated, DataDated, Dated,
                Holding
  <2>2. TiersDated'
    BY <1>15 DEF Crash, tiers, query, End, Inv, TypeOK, TiersDated, DataDated, Dated, Holding
  <2> QED BY <2>1, <2>2
<1>16. ASSUME NEW r \in Revs, Prune(r) PROVE FreshInv'
  BY <1>16 DEF Prune, query, Inv, TypeOK, QueryDated, TiersDated, BaseDated, DataDated, Dated
<1>17. ASSUME NEW r \in Revs, ReplicaPublishes(r) PROVE FreshInv'
  <2>1. PICK f \in {Fingerprint(r), NoPrint} :
           remote' = [remote EXCEPT ![r] = [rev |-> r, world |-> world, fp |-> f]]
    BY <1>17, Zenon DEF ReplicaPublishes
  <2>2. f # NoPrint => f[2] = world
    BY FingerprintDated
  <2>3. TiersDated'
    BY <1>17, <1>a, <2>1, <2>2 DEF ReplicaPublishes, Inv, TypeOK, TiersDated, Dated
  <2> QED BY <1>17, <2>3 DEF ReplicaPublishes, query, QueryDated, BaseDated, DataDated, Dated
<1>18. ASSUME WorldChanges PROVE FreshInv'
  <2>1. \A e \in Entries : Dated(e) => Dated(e)'
    BY <1>18, <1>a DEF WorldChanges, Dated
  <2>2. TiersDated'
    BY <1>18, <2>1 DEF WorldChanges, tiers, Inv, TypeOK, TiersDated
  <2> QED BY <1>18, <2>2 DEF WorldChanges, query, QueryDated, BaseDated, DataDated, Holding
<1>19. ASSUME UNCHANGED vars PROVE FreshInv'
  BY <1>19 DEF vars, tiers, query, QueryDated, TiersDated, BaseDated, DataDated, Dated
<1> QED
  BY <1>1, <1>2, <1>3, <1>4, <1>5, <1>6, <1>7, <1>8, <1>9, <1>10, <1>11, <1>12, <1>13,
     <1>14, <1>15, <1>16, <1>17, <1>18, <1>19 DEF Next, QueryStep

\* With --dependencyFingerprint, and external repositories that stay put while a
\* query runs, get_hashes_locked never returns hashes older than the query: for
\* any revisions and derivations, whatever the tiers, the replicas (guarded or
\* not), the pruner and crashes did before.
THEOREM GuardKeepsFresh ==
    ASSUME QuietQueries
    PROVE  Spec => []FreshUnderGuard
<1>1. Init => Inv /\ FreshInv
  BY InitInv, InitFresh
<1>2. Inv /\ FreshInv /\ [Next]_vars => (Inv /\ FreshInv)'
  BY NextInv, NextFresh
<1>3. FreshInv => FreshUnderGuard
  BY DEF FreshInv, DataDated, Holding, FreshUnderGuard
<1> QED BY <1>1, <1>2, <1>3, PTL DEF Spec
=============================================================================
