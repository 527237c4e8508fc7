-------------------------- MODULE CacheTierProofs ---------------------------
(***************************************************************************)
(* What is kept between queries and runs, for every instance: the safety   *)
(* properties of SharedTier for any number of replicas, any deployment and *)
(* any sequence of failures and expiries; those of CacheEntries for any    *)
(* servers, configurations, trees and untracked files; those of Snapshot   *)
(* for any environments and any number of moves between them; and that a   *)
(* pass of CachePruner no query interferes with is exact, for any entries, *)
(* sizes and limits.                                                       *)
(***************************************************************************)
EXTENDS SharedTier, CacheEntries, Snapshot, CachePruner, FiniteSetTheorems,
        WellFoundedInduction, TLAPS

-----------------------------------------------------------------------------
(* Lists.                                                                  *)

LEMMA ListElement ==
    ASSUME NEW A, NEW s \in Seq(A), NEW i \in 1 .. Len(s)
    PROVE  s[i] \in A
  OBVIOUS

\* A list is a function on its places.
LEMMA ListPlaces ==
    ASSUME NEW A, NEW s \in Seq(A)
    PROVE  Len(s) \in Nat /\ DOMAIN s = 1 .. Len(s) /\ s \in [1 .. Len(s) -> A]
  OBVIOUS

\* Only the empty list has no place.
LEMMA EmptyList ==
    ASSUME NEW A
    PROVE  <<>> \in Seq(A) /\ Len(<<>>) = 0 /\ \A s \in Seq(A) : s # <<>> => Len(s) \in Nat \ {0}
  OBVIOUS

\* The first element and the others, one place earlier.
LEMMA ListFront ==
    ASSUME NEW A, NEW s \in Seq(A), s # <<>>
    PROVE  /\ Head(s) \in A /\ Tail(s) \in Seq(A) /\ Len(Tail(s)) = Len(s) - 1
           /\ \A i \in 1 .. Len(Tail(s)) : Tail(s)[i] = s[i + 1]
  OBVIOUS

\* One more element at the end.
LEMMA ListAppend ==
    ASSUME NEW A, NEW s \in Seq(A), NEW e \in A
    PROVE  /\ Append(s, e) \in Seq(A) /\ Append(s, e) # <<>> /\ Len(Append(s, e)) = Len(s) + 1
           /\ Append(s, e)[Len(s) + 1] = e /\ \A i \in 1 .. Len(s) : Append(s, e)[i] = s[i]
  OBVIOUS

\* The part of a list between two places.
LEMMA ListPart ==
    ASSUME NEW A, NEW s, NEW m \in Int, NEW n \in Int, \A i \in m .. n : s[i] \in A
    PROVE  /\ SubSeq(s, m, n) \in Seq(A)
           /\ Len(SubSeq(s, m, n)) = IF m <= n THEN (n - m) + 1 ELSE 0
           /\ \A i \in 1 .. (n - m) + 1 : SubSeq(s, m, n)[i] = s[(m + i) - 1]
  OBVIOUS

\* One list after another.
LEMMA ListJoined ==
    ASSUME NEW A, NEW s \in Seq(A), NEW t \in Seq(A)
    PROVE  /\ s \o t \in Seq(A) /\ Len(s \o t) = Len(s) + Len(t)
           /\ \A i \in 1 .. Len(s) + Len(t) :
                 (s \o t)[i] = IF i <= Len(s) THEN s[i] ELSE t[i - Len(s)]
  OBVIOUS

\* Lists with the same elements at the same places are the same.
LEMMA ListsEqual ==
    ASSUME NEW A, NEW s \in Seq(A), NEW t \in Seq(A), Len(s) = Len(t),
           \A i \in 1 .. Len(s) : s[i] = t[i]
    PROVE  s = t
  OBVIOUS

-----------------------------------------------------------------------------
(* SharedTier                                                              *)

Steps == {"idle", "compressed", "plain", "parse", "generate", "publish", "hit", "served", "error"}

Lookups == [at : Steps, failed : 0..1, due : BOOLEAN, read : Contents]

Stores == {"S3", "GCS", "Nexus"}

SharedStates ==
    [flags : SUBSET STRING, fault : STRING, redeploy : BOOLEAN,
     backend : Stores \cup {"none", "unset", "refused"},
     compressed : Contents, plain : Contents \ {"torn"}, asking : [Replicas -> Lookups]]

\* What a lookup knows of the store at each of its steps: requests are made of
\* a store, only the last one failed, an entry that is due is still ahead of
\* the lookup, and the bytes in hand were there.
Sound(a, backend, compressed, plain) ==
    /\ a.at \in {"compressed", "plain"} => backend \in Stores
    /\ a.at \notin Missed => a.failed = 0
    /\ a.at = "compressed" /\ a.due =>
          compressed = "entry" \/ (compressed = "nothing" /\ plain = "entry")
    /\ a.at = "plain" /\ a.due => plain = "entry"
    /\ a.at \in Missed /\ a.due => a.failed > 0
    /\ a.at = "parse" => a.read \in {"entry", "foreign"}
    /\ a.at = "error" => a.read = "foreign"

SharedInv ==
    shared # Idle =>
        /\ shared \in SharedStates
        /\ shared.backend \in {"unset", "refused"} => \A r \in Replicas : shared.asking[r] = NotAsking
        /\ \A r \in Replicas :
              Sound(shared.asking[r], shared.backend, shared.compressed, shared.plain)

\* A lookup that has not begun is sound whatever the store holds.
LEMMA NotAskingSound ==
    ASSUME NEW backend, NEW compressed, NEW plain
    PROVE  NotAsking \in Lookups /\ Sound(NotAsking, backend, compressed, plain)
BY DEF NotAsking, Lookups, Sound, Steps, Contents, Missed

\* A step that changes only the lookup of one replica, to a sound one, keeps
\* the invariant.
LEMMA OneLookup ==
    ASSUME SharedInv, Running, NEW r \in Replicas, NEW a \in Lookups,
           Sound(a, shared.backend, shared.compressed, shared.plain),
           shared' = [shared EXCEPT !.asking[r] = a]
    PROVE  SharedInv'
BY DEF SharedInv, Running, SharedStates

\* The statuses of a request of a store and what fetch makes of them
\* (S3Cache::fetch and its two siblings): an object is found or missing only
\* if it is there or not.
LEMMA StatusFacts ==
    ASSUME shared.backend \in Stores, NEW content \in Contents,
           NEW status \in Statuses(content)
    PROVE  /\ Fetched(status) \in {"Found", "Missing", "Failed"}
           /\ Fetched(status) = "Found" <=> status = "200"
           /\ Fetched(status) = "Found" => content # "nothing"
           /\ Fetched(status) = "Missing" => content = "nothing"
<1>1. "200" \notin Failures /\ "404" \notin Failures
  BY DEF Failures, S3Failures, GcsFailures, NexusFailures, Stores
<1>2. status \in Failures \/ status = (IF content = "nothing" THEN "404" ELSE "200")
  BY DEF Statuses
<1> QED
  BY <1>1, <1>2 DEF Fetched

\* Lookups begin before any request: a fresh deployment satisfies SharedInv.
LEMMA InitSound ==
    SharedInit => SharedInv
<1> SUFFICES ASSUME SharedInit PROVE SharedInv
  OBVIOUS
<1>1. PICK d \in Deployments, c \in Contents, p \in Contents \ {"torn"} : shared = Deploy(d, c, p)
  BY DEF SharedInit
<1>2. d \in [flags : SUBSET STRING, fault : STRING, redeploy : BOOLEAN]
  BY DeploymentsAssumption
<1> QED
  BY <1>1, <1>2, NotAskingSound DEF Deploy, SharedInv, SharedStates

\* The two requests of a lookup (RemoteCache::get): the compressed object, and
\* after a clean miss the plain one.
LEMMA RequestsSound ==
    ASSUME SharedInv, NEW r \in Replicas, GetCompressed(r) \/ GetPlain(r)
    PROVE  SharedInv'
<1> DEFINE asked == shared.asking[r]
<1>1. /\ Running /\ shared \in SharedStates /\ asked \in Lookups
      /\ Sound(asked, shared.backend, shared.compressed, shared.plain)
      /\ asked.at \in {"compressed", "plain"}
  BY DEF SharedInv, GetCompressed, GetPlain, At, Running, SharedStates
<1>2. shared.backend \in Stores /\ asked.failed = 0
  BY <1>1 DEF Sound, Missed
<1>3. shared.compressed \in Contents /\ shared.plain \in Contents /\ shared.plain # "torn"
  BY <1>1 DEF SharedStates
<1>4. ASSUME NEW status, NEW next \in Steps, NEW read \in Contents, Request(r, status, next, read),
             NEW f \in 0..1, f = (IF Fetched(status) = "Failed" THEN 1 ELSE 0),
             Sound([asked EXCEPT !.at = next, !.read = read, !.failed = f],
                   shared.backend, shared.compressed, shared.plain)
      PROVE  SharedInv'
  <2>1. [asked EXCEPT !.at = next, !.read = read, !.failed = f] \in Lookups
    BY <1>1, <1>4, Zenon DEF Lookups
  <2>2. shared' = [shared EXCEPT !.asking[r] =
                      [asked EXCEPT !.at = next, !.read = read, !.failed = f]]
    BY <1>2, <1>4 DEF Request
  <2> QED
    BY <1>1, <1>4, <2>1, <2>2, OneLookup
<1>5. CASE GetCompressed(r)
  <2>1. PICK status \in Statuses(shared.compressed) :
            \/ Inflated(r, status)
            \/ Fetched(status) = "Missing" /\ Request(r, status, "plain", "nothing")
    BY <1>5 DEF GetCompressed
  <2>2. asked.at = "compressed"
    BY <1>5 DEF GetCompressed, At
  <2>3. CASE Inflated(r, status) /\ status = "200" /\ shared.compressed # "torn"
    <3>1. Request(r, status, "parse", shared.compressed) /\ Fetched(status) = "Found"
          /\ shared.compressed # "nothing"
      BY <1>2, <1>3, <2>1, <2>3, StatusFacts DEF Inflated
    <3>2. Sound([asked EXCEPT !.at = "parse", !.read = shared.compressed, !.failed = 0],
                shared.backend, shared.compressed, shared.plain)
      BY <1>1, <1>3, <2>3, <3>1 DEF Sound, Lookups, Missed, Contents
    <3>3. "parse" \in Steps /\ 0 \in 0..1 /\ 0 = (IF Fetched(status) = "Failed" THEN 1 ELSE 0)
      BY <3>1 DEF Steps
    <3> QED
      BY <1>3, <1>4, <3>1, <3>2, <3>3, Zenon
  <2>4. CASE Inflated(r, status) /\ status = "200" /\ shared.compressed = "torn"
    <3>1. Request(r, status, "generate", "torn") /\ Fetched(status) = "Found"
      BY <1>2, <1>3, <2>1, <2>4, StatusFacts DEF Inflated
    <3>2. Sound([asked EXCEPT !.at = "generate", !.read = "torn", !.failed = 0],
                shared.backend, shared.compressed, shared.plain)
      BY <1>1, <2>2, <2>4 DEF Sound, Lookups, Missed
    <3>3. /\ "generate" \in Steps /\ "torn" \in Contents
          /\ 0 \in 0..1 /\ 0 = (IF Fetched(status) = "Failed" THEN 1 ELSE 0)
      BY <3>1 DEF Steps, Contents
    <3> QED
      BY <1>4, <3>1, <3>2, <3>3, Zenon
  <2>5. CASE Inflated(r, status) /\ status # "200"
    <3>1. Request(r, status, "generate", "nothing") /\ Fetched(status) = "Failed"
      BY <1>2, <1>3, <2>1, <2>5, StatusFacts DEF Inflated
    <3>2. Sound([asked EXCEPT !.at = "generate", !.read = "nothing", !.failed = 1],
                shared.backend, shared.compressed, shared.plain)
      BY <1>1 DEF Sound, Lookups, Missed
    <3>3. /\ "generate" \in Steps /\ "nothing" \in Contents
          /\ 1 \in 0..1 /\ 1 = (IF Fetched(status) = "Failed" THEN 1 ELSE 0)
      BY <3>1 DEF Steps, Contents
    <3> QED
      BY <1>4, <3>1, <3>2, <3>3, Zenon
  <2>6. CASE Fetched(status) = "Missing" /\ Request(r, status, "plain", "nothing")
    <3>1. shared.compressed = "nothing"
      BY <1>2, <1>3, <2>1, <2>6, StatusFacts
    <3>2. Sound([asked EXCEPT !.at = "plain", !.read = "nothing", !.failed = 0],
                shared.backend, shared.compressed, shared.plain)
      BY <1>1, <1>2, <2>2, <3>1 DEF Sound, Lookups, Missed
    <3>3. /\ "plain" \in Steps /\ "nothing" \in Contents
          /\ 0 \in 0..1 /\ 0 = (IF Fetched(status) = "Failed" THEN 1 ELSE 0)
      BY <2>6 DEF Steps, Contents
    <3> QED
      BY <1>4, <2>6, <3>2, <3>3, Zenon
  <2> QED
    BY <2>1, <2>3, <2>4, <2>5, <2>6
<1>6. CASE GetPlain(r)
  <2>1. PICK status \in Statuses(shared.plain) :
            IF Fetched(status) = "Found" THEN Request(r, status, "parse", shared.plain)
            ELSE Request(r, status, "generate", "nothing")
    BY <1>6 DEF GetPlain
  <2>2. asked.at = "plain"
    BY <1>6 DEF GetPlain, At
  <2>3. CASE Fetched(status) = "Found"
    <3>1. Request(r, status, "parse", shared.plain) /\ shared.plain # "nothing"
      BY <1>2, <1>3, <2>1, <2>3, StatusFacts
    <3>2. Sound([asked EXCEPT !.at = "parse", !.read = shared.plain, !.failed = 0],
                shared.backend, shared.compressed, shared.plain)
      BY <1>1, <1>2, <1>3, <3>1 DEF Sound, Lookups, Missed, Contents
    <3>3. "parse" \in Steps /\ 0 \in 0..1 /\ 0 = (IF Fetched(status) = "Failed" THEN 1 ELSE 0)
      BY <2>3 DEF Steps
    <3> QED
      BY <1>3, <1>4, <3>1, <3>2, <3>3, Zenon
  <2>4. CASE Fetched(status) = "Missing"
    <3>1. shared.plain = "nothing"
      BY <1>2, <1>3, <2>1, <2>4, StatusFacts
    <3>2. Sound([asked EXCEPT !.at = "generate", !.read = "nothing", !.failed = 0],
                shared.backend, shared.compressed, shared.plain)
      BY <1>1, <2>2, <3>1 DEF Sound, Lookups, Missed
    <3>3. Request(r, status, "generate", "nothing")
      BY <2>1, <2>4
    <3>4. /\ "generate" \in Steps /\ "nothing" \in Contents
          /\ 0 \in 0..1 /\ 0 = (IF Fetched(status) = "Failed" THEN 1 ELSE 0)
      BY <2>4 DEF Steps, Contents
    <3> QED
      BY <1>4, <3>2, <3>3, <3>4, Zenon
  <2>5. CASE Fetched(status) = "Failed"
    <3>1. Sound([asked EXCEPT !.at = "generate", !.read = "nothing", !.failed = 1],
                shared.backend, shared.compressed, shared.plain)
      BY <1>1 DEF Sound, Lookups, Missed
    <3>2. Request(r, status, "generate", "nothing")
      BY <2>1, <2>5
    <3>3. /\ "generate" \in Steps /\ "nothing" \in Contents
          /\ 1 \in 0..1 /\ 1 = (IF Fetched(status) = "Failed" THEN 1 ELSE 0)
      BY <2>5 DEF Steps, Contents
    <3> QED
      BY <1>4, <3>1, <3>2, <3>3, Zenon
  <2> QED
    BY <1>2, <1>3, <2>1, <2>3, <2>4, <2>5, StatusFacts
<1> QED
  BY <1>5, <1>6

\* A lookup begins: an entry is due to it if the store has one to read.
LEMMA AskSound ==
    ASSUME SharedInv, NEW r \in Replicas, Ask(r)
    PROVE  SharedInv'
<1> DEFINE a == [NotAsking EXCEPT !.at = IF shared.backend = "none" THEN "generate" ELSE "compressed",
                                  !.due = shared.backend # "none" /\ Due]
<1>1. Running /\ shared \in SharedStates
  BY DEF Ask, At, Running, SharedInv
<1>2. shared.backend \in Stores \cup {"none"}
  BY <1>1 DEF Running, SharedStates
<1>3. a \in Lookups
  <2>1. (shared.backend # "none" /\ Due) \in BOOLEAN
    BY Zenon DEF Due
  <2>2. (IF shared.backend = "none" THEN "generate" ELSE "compressed") \in Steps
    BY DEF Steps
  <2>3. ASSUME NEW at \in Steps, NEW due \in BOOLEAN
        PROVE  [NotAsking EXCEPT !.at = at, !.due = due] \in Lookups
    <3>1. NotAsking \in Lookups
      BY NotAskingSound
    <3> QED
      BY <3>1, Zenon DEF Lookups
  <2> QED
    BY <2>1, <2>2, <2>3, Zenon
<1>4. Sound(a, shared.backend, shared.compressed, shared.plain)
  BY <1>2, Zenon DEF Sound, NotAsking, Missed, Due, Stores
<1>5. shared' = [shared EXCEPT !.asking[r] = a]
  BY DEF Ask
<1> QED
  BY <1>1, <1>3, <1>4, <1>5, OneLookup

\* What follows a request: the bytes are parsed, or the revision is generated
\* and its upload begun, and the query is answered.
LEMMA RestSound ==
    ASSUME SharedInv, NEW r \in Replicas, Parse(r) \/ Generated(r) \/ Answered(r)
    PROVE  SharedInv'
<1> DEFINE asked == shared.asking[r]
<1>1. /\ Running /\ shared \in SharedStates /\ asked \in Lookups
      /\ Sound(asked, shared.backend, shared.compressed, shared.plain)
  BY DEF SharedInv, Parse, Generated, Answered, At, Running, SharedStates
<1>2. ASSUME NEW next \in Steps, shared' = [shared EXCEPT !.asking[r].at = next],
             Sound([asked EXCEPT !.at = next], shared.backend, shared.compressed, shared.plain)
      PROVE  SharedInv'
  <2>1. [asked EXCEPT !.at = next] \in Lookups
    BY <1>1, <1>2 DEF Lookups
  <2>2. shared' = [shared EXCEPT !.asking[r] = [asked EXCEPT !.at = next]]
    BY <1>2
  <2> QED
    BY <1>1, <1>2, <2>1, <2>2, OneLookup
<1>3. CASE Parse(r)
  <2> DEFINE next == IF asked.read = "entry" THEN "hit" ELSE "error"
  <2>1. asked.at = "parse" /\ shared' = [shared EXCEPT !.asking[r].at = next]
    BY <1>3 DEF Parse, At
  <2>2. Sound([asked EXCEPT !.at = next], shared.backend, shared.compressed, shared.plain)
    BY <1>1, <2>1 DEF Sound, Lookups, Missed
  <2> QED
    BY <1>2, <2>1, <2>2, Zenon DEF Steps
<1>4. CASE Generated(r)
  <2> DEFINE next == IF shared.backend = "none" THEN "served" ELSE "publish"
  <2>1. asked.at = "generate" /\ shared' = [shared EXCEPT !.asking[r].at = next]
    BY <1>4 DEF Generated, At
  <2>2. Sound([asked EXCEPT !.at = next], shared.backend, shared.compressed, shared.plain)
    BY <1>1, <2>1 DEF Sound, Lookups, Missed
  <2> QED
    BY <1>2, <2>1, <2>2, Zenon DEF Steps
<1>5. CASE Answered(r)
  BY <1>1, <1>5, NotAskingSound, OneLookup DEF Answered
<1> QED
  BY <1>3, <1>4, <1>5

\* An upload, stored or not: it can only add the entry another lookup waits for.
LEMMA PutSound ==
    ASSUME SharedInv, NEW r \in Replicas, Put(r)
    PROVE  SharedInv'
<1> DEFINE asked == shared.asking[r]
           a == [asked EXCEPT !.at = "served"]
<1>1. /\ Running /\ shared \in SharedStates /\ asked \in Lookups /\ asked.at = "publish"
      /\ \A q \in Replicas : Sound(shared.asking[q], shared.backend, shared.compressed, shared.plain)
  BY DEF SharedInv, Put, At, Running, SharedStates
<1>2. PICK stored \in BOOLEAN :
          shared' = [shared EXCEPT !.asking[r].at = "served",
                                   !.compressed = IF stored THEN "entry" ELSE @]
  BY Zenon DEF Put
<1> DEFINE c == IF stored THEN "entry" ELSE shared.compressed
<1>3. /\ shared' \in SharedStates
      /\ shared'.asking = [shared.asking EXCEPT ![r] = a]
      /\ shared'.backend = shared.backend /\ shared'.compressed = c /\ shared'.plain = shared.plain
  BY <1>1, <1>2, ZenonT(40) DEF SharedStates, Lookups, Steps, Contents
<1>4. ASSUME NEW q \in Replicas
      PROVE  Sound(shared'.asking[q], shared.backend, c, shared.plain)
  BY <1>1, <1>3 DEF Sound, Missed, SharedStates, Lookups
<1>5. shared'.backend \notin {"unset", "refused"}
  BY <1>1, <1>3 DEF Running
<1> QED
  BY <1>3, <1>4, <1>5 DEF SharedInv

\* The client is built, or the server does not start: no lookup has begun.
LEMMA ConnectSound ==
    ASSUME SharedInv, Connect
    PROVE  SharedInv'
<1>1. /\ shared \in SharedStates /\ shared.backend = "unset"
      /\ \A r \in Replicas : shared.asking[r] = NotAsking
  BY DEF Connect, SharedInv
<1>2. PICK b \in Stores \cup {"none", "refused"} : shared' = [shared EXCEPT !.backend = b]
  BY DEF Connect, Backend, Stores
<1>3. /\ shared' \in SharedStates /\ shared'.asking = shared.asking
  BY <1>1, <1>2 DEF SharedStates
<1> QED
  BY <1>1, <1>3, NotAskingSound DEF SharedInv

\* The store drops an object: nothing is due to the lookups under way.
LEMMA ExpireSound ==
    ASSUME SharedInv, Expire
    PROVE  SharedInv'
<1> DEFINE undue == [r \in Replicas |-> [shared.asking[r] EXCEPT !.due = FALSE]]
<1>1. /\ Running /\ shared \in SharedStates
      /\ \A q \in Replicas : /\ shared.asking[q] \in Lookups
                             /\ Sound(shared.asking[q], shared.backend, shared.compressed, shared.plain)
  BY Zenon DEF SharedInv, Expire, Running, SharedStates
<1>2. \/ shared' = [shared EXCEPT !.compressed = "nothing", !.asking = undue]
      \/ shared' = [shared EXCEPT !.plain = "nothing", !.asking = undue]
  BY Zenon DEF Expire
<1>3. undue \in [Replicas -> Lookups]
  BY <1>1, Zenon DEF Lookups
<1>4. /\ shared' \in SharedStates
      /\ shared'.asking = undue /\ shared'.backend = shared.backend
  BY <1>1, <1>2, <1>3, ZenonT(40) DEF SharedStates, Contents
<1>5. ASSUME NEW q \in Replicas
      PROVE  Sound(shared'.asking[q], shared.backend, shared'.compressed, shared'.plain)
  BY <1>1, <1>4 DEF Sound, Missed, Lookups
<1>6. shared'.backend \notin {"unset", "refused"}
  BY <1>1, <1>4 DEF Running
<1> QED
  BY <1>4, <1>5, <1>6 DEF SharedInv

\* SharedInv is an invariant: every step of every replica, and every expiry,
\* leaves each lookup sound.
THEOREM SharedInvariant ==
    SharedSpec => []SharedInv
<1>1. SharedInv /\ [SharedNext]_shared => SharedInv'
  <2> SUFFICES ASSUME SharedInv, [SharedNext]_shared PROVE SharedInv'
    OBVIOUS
  <2>1. CASE Connect
    BY <2>1, ConnectSound
  <2>2. CASE \E r \in Replicas : Step(r)
    <3>1. PICK r \in Replicas : Step(r)
      BY <2>2
    <3> QED
      BY <3>1, AskSound, RequestsSound, RestSound, PutSound DEF Step
  <2>3. CASE Expire
    BY <2>3, ExpireSound
  <2>4. CASE UNCHANGED shared
    BY <2>4 DEF SharedInv
  <2> QED
    BY <2>1, <2>2, <2>3, <2>4 DEF SharedNext
<1> QED
  BY <1>1, InitSound, PTL DEF SharedSpec

\* For any number of replicas: an object that is in the store throughout a
\* lookup is found by RemoteCache::get, unless a request failed.
THEOREM PublishedIsFound ==
    SharedSpec => []SharedEntryFound
<1>1. SharedInv => SharedEntryFound
  BY DEF SharedInv, SharedEntryFound, Running, Sound
<1> QED
  BY <1>1, SharedInvariant, PTL

\* For any number of replicas and any failures: a lookup fails its query only
\* over an object that was read whole and is not a hash file.
THEOREM OutageIsHarmless ==
    SharedSpec => []OutageNeverFailsQuery
<1>1. SharedInv => OutageNeverFailsQuery
  BY DEF SharedInv, OutageNeverFailsQuery, Running, Sound
<1> QED
  BY <1>1, SharedInvariant, PTL

\* For any number of replicas: no lookup waits for two requests that fail.
THEOREM OutageIsCheap ==
    SharedSpec => []OutageCostsOneRequest
<1>1. SharedInv => OutageCostsOneRequest
  BY DEF SharedInv, OutageCostsOneRequest, Running, SharedStates, Lookups
<1> QED
  BY <1>1, SharedInvariant, PTL

\* For any number of replicas, any deployment and any failures: a lookup finds
\* what is there, and an outage costs it one request and never the query.
THEOREM LookupsCorrect ==
    SharedSpec => []LookupsRight
  BY PublishedIsFound, OutageIsHarmless, OutageIsCheap, PTL DEF LookupsRight

-----------------------------------------------------------------------------
(* CacheEntries.  The key of an entry says everything the entry was        *)
(* generated from: two configurations with the same fingerprint differ at  *)
(* most in what they allow, and two keys are equal only in all their parts.*)

\* An option's name and value behind the three that are always there.
LEMMA OptionAfterThree ==
    ASSUME NEW a, NEW b, NEW c, NEW d, NEW e
    PROVE  <<a, b, c>> \o <<d, e>> = <<a, b, c, d, e>>
<1> DEFINE S == {a, b, c, d, e}
<1>1. /\ <<a, b, c>> \in Seq(S) /\ <<d, e>> \in Seq(S) /\ <<a, b, c, d, e>> \in Seq(S)
      /\ Len(<<a, b, c>>) = 3 /\ Len(<<d, e>>) = 2 /\ Len(<<a, b, c, d, e>>) = 5
  OBVIOUS
<1> HIDE DEF S
<1>2. /\ <<a, b, c>> \o <<d, e>> \in Seq(S) /\ Len(<<a, b, c>> \o <<d, e>>) = 5
      /\ \A i \in 1 .. 5 : (<<a, b, c>> \o <<d, e>>)[i] =
                                IF i <= 3 THEN <<a, b, c>>[i] ELSE <<d, e>>[i - 3]
  BY <1>1, ListJoined
<1>3. \A i \in 1 .. 5 : (<<a, b, c>> \o <<d, e>>)[i] = <<a, b, c, d, e>>[i]
  BY <1>2
<1> QED BY <1>1, <1>2, <1>3, ListsEqual, Zenon

\* And behind another option.
LEMMA OptionAfterFive ==
    ASSUME NEW a, NEW b, NEW c, NEW d, NEW e, NEW f, NEW g
    PROVE  <<a, b, c, d, e>> \o <<f, g>> = <<a, b, c, d, e, f, g>>
<1> DEFINE S == {a, b, c, d, e, f, g}
           front == <<a, b, c, d, e>>
<1>1. /\ front \in Seq(S) /\ <<f, g>> \in Seq(S) /\ <<a, b, c, d, e, f, g>> \in Seq(S)
      /\ Len(front) = 5 /\ Len(<<f, g>>) = 2 /\ Len(<<a, b, c, d, e, f, g>>) = 7
  OBVIOUS
<1> HIDE DEF S
<1>2. /\ front \o <<f, g>> \in Seq(S) /\ Len(front \o <<f, g>>) = 7
      /\ \A i \in 1 .. 7 : (front \o <<f, g>>)[i] = IF i <= 5 THEN front[i] ELSE <<f, g>>[i - 5]
  BY <1>1, ListJoined
<1>3. \A i \in 1 .. 7 : (front \o <<f, g>>)[i] = <<a, b, c, d, e, f, g>>[i]
  BY <1>2
<1> QED BY <1>1, <1>2, <1>3, ListsEqual, ZenonT(40)

\* configuration_fingerprint by the options that are set.
LEMMA FingerprintForms ==
    ASSUME NEW c
    PROVE  ConfigurationFingerprint(c) =
             IF c.root = ""
             THEN IF c.partial
                  THEN <<c.version, c.options, c.trackDeps, "partialGraph", "version">>
                  ELSE <<c.version, c.options, c.trackDeps>>
             ELSE IF c.partial
                  THEN <<c.version, c.options, c.trackDeps, "isolatedDependencyRoot", c.root,
                         "partialGraph", "version">>
                  ELSE <<c.version, c.options, c.trackDeps, "isolatedDependencyRoot", c.root>>
<1> DEFINE always == <<c.version, c.options, c.trackDeps>>
           rooted == <<c.version, c.options, c.trackDeps, "isolatedDependencyRoot", c.root>>
<1>1. always \o <<>> = always /\ rooted \o <<>> = rooted
  OBVIOUS
<1>2. /\ always \o <<"isolatedDependencyRoot", c.root>> = rooted
      /\ always \o <<"partialGraph", "version">>
            = <<c.version, c.options, c.trackDeps, "partialGraph", "version">>
  BY OptionAfterThree
<1>3. rooted \o <<"partialGraph", "version">>
         = <<c.version, c.options, c.trackDeps, "isolatedDependencyRoot", c.root,
             "partialGraph", "version">>
  BY OptionAfterFive
<1>4. ConfigurationFingerprint(c) =
        (always \o (IF c.root = "" THEN <<>> ELSE <<"isolatedDependencyRoot", c.root>>))
            \o (IF c.partial THEN <<"partialGraph", "version">> ELSE <<>>)
  BY DEF ConfigurationFingerprint
<1> HIDE DEF always, rooted
<1>5. CASE c.root = "" /\ c.partial
  BY <1>1, <1>2, <1>4, <1>5, Zenon
<1>6. CASE c.root = "" /\ ~c.partial
  BY <1>1, <1>4, <1>6, Zenon DEF always
<1>7. CASE c.root # "" /\ c.partial
  BY <1>2, <1>3, <1>4, <1>7, Zenon
<1>8. CASE c.root # "" /\ ~c.partial
  BY <1>1, <1>2, <1>4, <1>8, Zenon DEF rooted
<1> QED BY <1>5, <1>6, <1>7, <1>8, Zenon

\* Two configurations with one fingerprint agree in every option that changes
\* the hashes.
LEMMA FingerprintInjective ==
    ASSUME NEW c \in Configurations, NEW d \in Configurations,
           ConfigurationFingerprint(c) = ConfigurationFingerprint(d)
    PROVE  \A option \in Options \ {"allow"} : c[option] = d[option]
<1>1. c.partial \in BOOLEAN /\ d.partial \in BOOLEAN
  BY CacheEntriesAssumption
<1>2. /\ c.version = d.version /\ c.options = d.options /\ c.trackDeps = d.trackDeps
      /\ c.root = d.root /\ c.partial = d.partial
  <2>1. CASE c.root = "" /\ c.partial
    BY <1>1, <2>1, FingerprintForms, Zenon
  <2>2. CASE c.root = "" /\ ~c.partial
    BY <1>1, <2>2, FingerprintForms, Zenon
  <2>3. CASE c.root # "" /\ c.partial
    BY <1>1, <2>3, FingerprintForms, Zenon
  <2>4. CASE c.root # "" /\ ~c.partial
    BY <1>1, <2>4, FingerprintForms, Zenon
  <2> QED BY <2>1, <2>2, <2>3, <2>4, Zenon
<1> QED BY <1>2 DEF Options

\* Two keys are equal only in all their parts: a scoped one is longer.
LEMMA KeyInjective ==
    ASSUME NEW t, NEW f, NEW m, NEW u, NEW g, NEW n, CacheKey(t, f, m) = CacheKey(u, g, n)
    PROVE  t = u /\ f = g /\ m = n
  BY DEF CacheKey

\* A path is its package and its last component.
LEMMA PathParts ==
    ASSUME NEW p \in Paths, p # <<>>
    PROVE  Parent(p) \in Paths /\ Append(Parent(p), FileName(p)) = p
<1>1. Len(p) \in Nat \ {0} /\ p \in [1 .. Len(p) -> BuildNames \cup STRING]
  BY EmptyList, ListPlaces DEF Paths
<1>2. /\ Parent(p) \in Paths /\ Len(Parent(p)) = Len(p) - 1
      /\ \A i \in 1 .. Len(p) - 1 : Parent(p)[i] = p[i]
  <2>1. \A i \in 1 .. Len(p) - 1 : p[i] \in BuildNames \cup STRING
    BY <1>1
  <2> QED BY <1>1, <2>1, ListPart DEF Parent, Paths
<1>3. FileName(p) \in BuildNames \cup STRING
  BY <1>1 DEF FileName
<1>4. /\ Append(Parent(p), FileName(p)) \in Paths /\ Len(Append(Parent(p), FileName(p))) = Len(p)
      /\ \A i \in 1 .. Len(p) - 1 : Append(Parent(p), FileName(p))[i] = p[i]
      /\ Append(Parent(p), FileName(p))[Len(p)] = p[Len(p)]
  <2> DEFINE l == FileName(p)
  <2>1. l \in BuildNames \cup STRING /\ l = p[Len(p)]
    BY <1>3 DEF FileName
  <2> HIDE DEF l
  <2>2. Parent(p) \in Seq(BuildNames \cup STRING)
    BY <1>2 DEF Paths
  <2>3. /\ Append(Parent(p), l) \in Seq(BuildNames \cup STRING) /\ Len(Append(Parent(p), l)) = Len(Parent(p)) + 1
        /\ \A i \in 1 .. Len(Parent(p)) : Append(Parent(p), l)[i] = Parent(p)[i]
        /\ Append(Parent(p), l)[Len(Parent(p)) + 1] = l
    BY <2>1, <2>2, ListAppend
  <2>4. Len(Parent(p)) + 1 = Len(p)
    BY <1>1, <1>2
  <2>5. /\ Append(Parent(p), l) \in Paths /\ Len(Append(Parent(p), l)) = Len(p)
        /\ \A i \in 1 .. Len(p) - 1 : Append(Parent(p), l)[i] = p[i]
        /\ Append(Parent(p), l)[Len(p)] = p[Len(p)]
    BY <1>2, <2>1, <2>3, <2>4 DEF Paths
  <2> QED BY <2>5 DEF l
<1>5. \A i \in 1 .. Len(p) : Append(Parent(p), FileName(p))[i] = p[i]
  BY <1>1, <1>4
<1> QED BY <1>1, <1>2, <1>4, <1>5, ListsEqual, Zenon DEF Paths

\* The package of a BUILD file below a package is the package.
LEMMA BuildFileOf ==
    ASSUME NEW q \in Paths, NEW n \in BuildNames
    PROVE  Parent(Append(q, n)) = q /\ FileName(Append(q, n)) = n
<1>1. Len(q) \in Nat /\ q \in Seq(BuildNames \cup STRING)
  BY ListPlaces DEF Paths
<1>2. /\ Len(Append(q, n)) = Len(q) + 1 /\ Append(q, n)[Len(q) + 1] = n
      /\ \A i \in 1 .. Len(q) : Append(q, n)[i] = q[i]
  BY ListAppend DEF Paths
<1>3. FileName(Append(q, n)) = n
  BY <1>2 DEF FileName
<1>4. Parent(Append(q, n)) = SubSeq(Append(q, n), 1, Len(q))
  BY <1>1, <1>2 DEF Parent
<1>5. /\ SubSeq(Append(q, n), 1, Len(q)) \in Seq(BuildNames \cup STRING)
      /\ Len(SubSeq(Append(q, n), 1, Len(q))) = Len(q)
      /\ \A i \in 1 .. Len(q) : SubSeq(Append(q, n), 1, Len(q))[i] = q[i]
  <2>1. \A i \in 1 .. Len(q) : Append(q, n)[i] \in BuildNames \cup STRING
    BY <1>1, <1>2, ListElement
  <2> QED BY <1>1, <1>2, <2>1, ListPart
<1> QED BY <1>1, <1>3, <1>4, <1>5, ListsEqual

\* What lies inside a link has the link for a prefix.
LEMMA InsideLink ==
    ASSUME NEW p \in Paths, NEW d \in Paths
    PROVE  IsAncestor(p, p \o d)
<1> DEFINE S == BuildNames \cup STRING
<1>1. p \in Seq(S) /\ d \in Seq(S) /\ Len(p) \in Nat /\ Len(d) \in Nat
  BY ListPlaces DEF Paths
<1> HIDE DEF S
<1>2. p \o d \in Seq(S) /\ Len(p \o d) = Len(p) + Len(d) /\ \A i \in 1 .. Len(p) : (p \o d)[i] = p[i]
  BY <1>1, ListJoined
<1>3. \A i \in 1 .. Len(p) : p[i] \in S
  BY <1>1, ListElement
<1>4. SubSeq(p, 1, Len(p)) = SubSeq(p \o d, 1, Len(p))
  <2>1. /\ SubSeq(p, 1, Len(p)) \in Seq(S) /\ Len(SubSeq(p, 1, Len(p))) = Len(p)
        /\ \A i \in 1 .. Len(p) : SubSeq(p, 1, Len(p))[i] = p[i]
    BY <1>1, <1>3, ListPart
  <2>2. /\ SubSeq(p \o d, 1, Len(p)) \in Seq(S) /\ Len(SubSeq(p \o d, 1, Len(p))) = Len(p)
        /\ \A i \in 1 .. Len(p) : SubSeq(p \o d, 1, Len(p))[i] = p[i]
    BY <1>1, <1>2, <1>3, ListPart
  <2> QED BY <2>1, <2>2, ListsEqual
<1> QED BY <1>1, <1>2, <1>4 DEF IsAncestor

\* A loaded package has a BUILD file, is inside a link, or is external.
LEMMA LoadedFrom ==
    ASSUME NEW tree, NEW litter
    PROVE  \A l : l \in Loaded(tree, litter) <=>
             \/ \E p \in DOMAIN tree \cup litter :
                   FileName(p) \in BuildNames /\ l = [main |-> TRUE, package |-> Parent(p)]
             \/ \E p \in Links(tree) : \E d \in tree[p].packages : l = [main |-> TRUE, package |-> p \o d]
             \/ l = [main |-> FALSE, package |-> <<"bzl">>]
<1> DEFINE files == {[main |-> TRUE, package |-> Parent(p)] :
                        p \in {q \in DOMAIN tree \cup litter : FileName(q) \in BuildNames}}
           links == UNION {{[main |-> TRUE, package |-> p \o d] : d \in tree[p].packages} : p \in Links(tree)}
<1>1. \A l : l \in Loaded(tree, litter) <=> l \in files \/ l \in links \/ l = [main |-> FALSE, package |-> <<"bzl">>]
  <2>1. Loaded(tree, litter) = files \cup links \cup {[main |-> FALSE, package |-> <<"bzl">>]}
    BY DEF Loaded
  <2> HIDE DEF files, links
  <2> QED BY <2>1
<1>2. \A l : l \in files <=> \E p \in DOMAIN tree \cup litter :
                   FileName(p) \in BuildNames /\ l = [main |-> TRUE, package |-> Parent(p)]
  OBVIOUS
<1>3. \A l : l \in links <=> \E p \in Links(tree) : \E d \in tree[p].packages : l = [main |-> TRUE, package |-> p \o d]
  <2> DEFINE inside(p) == {[main |-> TRUE, package |-> p \o d] : d \in tree[p].packages}
  <2>1. \A l, p : l \in inside(p) <=> \E d \in tree[p].packages : l = [main |-> TRUE, package |-> p \o d]
    OBVIOUS
  <2>2. links = UNION {inside(p) : p \in Links(tree)}
    OBVIOUS
  <2> HIDE DEF inside, links
  <2>3. \A l : l \in links <=> \E p \in Links(tree) : l \in inside(p)
    BY <2>2, Zenon
  <2> QED BY <2>1, <2>3, Zenon
<1> HIDE DEF files, links
<1> QED BY <1>1, <1>2, <1>3

\* What a generation loads beyond a fresh clone comes from untracked BUILD
\* files; what is not found untracked lies inside a link, and what is found
\* untracked was not in the revision.
LEMMA GenerationTracked ==
    ASSUME NEW t \in DOMAIN Trees, NEW left \in SUBSET Litter
    PROVE  LET tree == Trees[t]
               labels == Loaded(tree, left)
               fresh == Loaded(tree, {})
           IN  /\ fresh \subseteq labels
               /\ UntrackedPackages(labels, tree) = {} =>
                     \A l \in labels \ fresh : \E p \in Links(tree) : IsAncestor(p, l.package)
               /\ UntrackedPackages(labels, tree) # {} => \E p \in left : FileName(p) \in BuildNames
<1> DEFINE tree == Trees[t]
           labels == Loaded(tree, left)
           fresh == Loaded(tree, {})
           FromFile(l, files) == \E p \in files : FileName(p) \in BuildNames /\ l = [main |-> TRUE, package |-> Parent(p)]
           FromLink(l) == \E p \in Links(tree) : \E d \in tree[p].packages : l = [main |-> TRUE, package |-> p \o d]
           External == [main |-> FALSE, package |-> <<"bzl">>]
<1>1. \A l : l \in labels <=> FromFile(l, DOMAIN tree \cup left) \/ FromLink(l) \/ l = External
  BY LoadedFrom
<1>2. \A l : l \in fresh <=> FromFile(l, DOMAIN tree) \/ FromLink(l) \/ l = External
  <2> DEFINE none == {}
  <2>1. DOMAIN tree \cup none = DOMAIN tree /\ Loaded(tree, none) = fresh
    OBVIOUS
  <2> HIDE DEF none
  <2>2. \A l : l \in Loaded(tree, none) <=> FromFile(l, DOMAIN tree \cup none) \/ FromLink(l) \/ l = External
    BY LoadedFrom
  <2> HIDE DEF tree, fresh, FromFile, FromLink, External
  <2> QED BY <2>1, <2>2
<1>3. DOMAIN tree \subseteq Paths \ {<<>>} /\ left \subseteq Paths \ {<<>>}
  BY CacheEntriesAssumption
<1>4. \A p \in Links(tree) : p \in DOMAIN tree /\ tree[p].packages \subseteq Paths
  BY CacheEntriesAssumption DEF Links, Plain
<1>5. fresh \subseteq labels
  BY <1>1, <1>2
<1>6. \A l : FromLink(l) => BelowLink(l.package, tree)
  <2> SUFFICES ASSUME NEW l, FromLink(l) PROVE BelowLink(l.package, tree)
    BY Zenon
  <2>0. PICK p \in Links(tree) : \E d \in tree[p].packages : l = [main |-> TRUE, package |-> p \o d]
    BY Zenon
  <2>1. PICK d \in tree[p].packages : l = [main |-> TRUE, package |-> p \o d]
    BY <2>0, Zenon
  <2>2. p \in Paths /\ p # <<>> /\ d \in Paths
    BY <1>3, <1>4
  <2>3. IsAncestor(p, p \o d)
    BY <2>2, InsideLink
  <2> QED BY <2>1, <2>2, <2>3, Zenon DEF BelowLink
<1>7. \A l \in labels \ fresh : FromFile(l, left) /\ l.main
  BY <1>1, <1>2
<1>8. ASSUME NEW l \in labels \ fresh
      PROVE  \A n \in BuildNames : Append(l.package, n) \notin DOMAIN tree
  <2> SUFFICES ASSUME NEW n \in BuildNames, Append(l.package, n) \in DOMAIN tree PROVE FALSE
    OBVIOUS
  <2>1. PICK p \in left : FileName(p) \in BuildNames /\ l = [main |-> TRUE, package |-> Parent(p)]
    BY <1>7
  <2>2. Parent(p) \in Paths
    BY <1>3, PathParts
  <2>3. Parent(Append(l.package, n)) = l.package /\ FileName(Append(l.package, n)) = n
    BY <2>1, <2>2, BuildFileOf
  <2>4. FromFile(l, DOMAIN tree)
    BY <2>1, <2>3, Zenon
  <2> QED BY <1>2, <2>4
<1>9. ASSUME UntrackedPackages(labels, tree) = {}, NEW l \in labels \ fresh
      PROVE  \E p \in Links(tree) : IsAncestor(p, l.package)
  BY <1>7, <1>8, <1>9 DEF UntrackedPackages, BelowLink
<1>10. ASSUME UntrackedPackages(labels, tree) # {}
       PROVE  \E p \in left : FileName(p) \in BuildNames
  <2>1. PICK k \in labels : /\ k.main
                            /\ \A n \in BuildNames : Append(k.package, n) \notin DOMAIN tree
                            /\ ~BelowLink(k.package, tree)
    BY <1>10 DEF UntrackedPackages
  <2>2. PICK p \in DOMAIN tree \cup left : FileName(p) \in BuildNames /\ k = [main |-> TRUE, package |-> Parent(p)]
    BY <1>1, <1>6, <2>1
  <2>3. Append(k.package, FileName(p)) = p
    BY <1>3, <2>2, PathParts
  <2> QED BY <2>1, <2>2, <2>3, Zenon
<1> HIDE DEF labels, fresh, FromFile, FromLink, External
<1> QED BY <1>5, <1>9, <1>10 DEF labels, fresh

\* An entry lies under the key of what it was made from, and a full one of a
\* server that does not allow untracked packages has those of a fresh clone.
EntrySound(key, e) ==
    /\ e.made \in Configurations
    /\ e.tree \in DOMAIN Trees
    /\ key = CacheKey(e.tree, ConfigurationFingerprint(e.made), e.modified)
    /\ e.modified = {} /\ ~e.made.allow =>
          /\ Loaded(Trees[e.tree], {}) \subseteq e.labels
          /\ \A l \in e.labels \ Loaded(Trees[e.tree], {}) :
                \E p \in Links(Trees[e.tree]) : IsAncestor(p, l.package)

StoreShape ==
    /\ store = [entries |-> store.entries, config |-> store.config, litter |-> store.litter,
                reply |-> store.reply]
    /\ store.config \in [Servers -> Configurations]
    /\ store.litter \in [Servers -> SUBSET Litter]
    /\ \A key \in DOMAIN store.entries : EntrySound(key, store.entries[key])

StoreInv ==
    store # Idle => StoreShape /\ ServedAsAsked /\ CleanTreeNotRefused

\* The cache starts empty and nothing was asked.
LEMMA StoreStarts ==
    StoreInit => StoreInv
  BY DEF StoreInit, StoreInv, StoreShape, ServedAsAsked, CleanTreeNotRefused, NoReply

\* A step that leaves the entries alone and clears the reply keeps the invariant.
LEMMA QuietStepSound ==
    ASSUME store # Idle, StoreShape, NEW config \in [Servers -> Configurations],
           NEW litter \in [Servers -> SUBSET Litter],
           store' = [entries |-> store.entries, config |-> config, litter |-> litter, reply |-> NoReply]
    PROVE  StoreInv'
  BY DEF StoreShape, StoreInv, ServedAsAsked, CleanTreeNotRefused, NoReply

\* A query served from the cache gets an entry of its own key.
LEMMA HitSound ==
    ASSUME store # Idle, StoreInv, NEW s \in Servers, NEW commit \in DOMAIN Commits,
           NEW modified \in Scopes, Hit(s, commit, modified)
    PROVE  StoreInv'
<1> DEFINE c == store.config[s]
           key == CacheKey(Commits[commit], ConfigurationFingerprint(c), modified)
           e == store.entries[key]
<1>1. StoreShape /\ key \in DOMAIN store.entries /\ c \in Configurations
  BY DEF StoreInv, StoreShape, Hit
<1>2. store' = [entries |-> store.entries, config |-> store.config, litter |-> store.litter,
                reply |-> Reply(s, commit, modified, e)]
  BY <1>1 DEF StoreShape, Hit
<1>3. e.made \in Configurations /\ key = CacheKey(e.tree, ConfigurationFingerprint(e.made), e.modified)
  BY <1>1 DEF StoreShape, EntrySound
<1>4. e.tree = Commits[commit] /\ e.modified = modified
      /\ ConfigurationFingerprint(e.made) = ConfigurationFingerprint(c)
  BY <1>3, KeyInjective, SMTT(30)
<1>5. \A option \in Options \ {"allow"} : e.made[option] = c[option]
  BY <1>1, <1>3, <1>4, FingerprintInjective
<1>6. DOMAIN c = Options
  BY <1>1, CacheEntriesAssumption
<1> HIDE DEF key, e
<1>7. ServedAsAsked'
  BY <1>2, <1>4, <1>5, <1>6 DEF ServedAsAsked, Reply
<1>8. CleanTreeNotRefused'
  BY <1>2 DEF CleanTreeNotRefused, Reply
<1>9. StoreShape'
  BY <1>1, <1>2 DEF StoreShape
<1> QED BY <1>7, <1>8, <1>9 DEF StoreInv

\* A generation is cached under the key of what it was made from, unless it is
\* refused, and then over a file that is not in the revision.
LEMMA GenerateSound ==
    ASSUME store # Idle, StoreInv, NEW s \in Servers, NEW commit \in DOMAIN Commits,
           NEW modified \in Scopes, Generate(s, commit, modified)
    PROVE  StoreInv'
<1> DEFINE c == store.config[s]
           t == Commits[commit]
           left == Left(s, commit)
           key == CacheKey(t, ConfigurationFingerprint(c), modified)
           labels == Loaded(Trees[t], left)
           entry == [tree |-> t, made |-> c, modified |-> modified, labels |-> labels]
           refused == modified = {} /\ UntrackedPackages(labels, Trees[t]) # {} /\ ~c.allow
           litter == [store.litter EXCEPT ![s] = left]
           stored == [k \in DOMAIN store.entries \cup {key} |->
                          IF k = key THEN entry ELSE store.entries[k]]
<1>1. StoreShape /\ c \in Configurations /\ t \in DOMAIN Trees /\ left \in SUBSET Litter
  BY CacheEntriesAssumption DEF StoreInv, StoreShape, Left
<1>2. litter \in [Servers -> SUBSET Litter] /\ litter[s] = left
  BY <1>1 DEF StoreShape
<1>3. CASE refused /\ store' = [store EXCEPT !.litter[s] = left,
                                   !.reply = [kind |-> "refused", server |-> s, commit |-> commit]]
  <2>1. store' = [entries |-> store.entries, config |-> store.config, litter |-> litter,
                  reply |-> [kind |-> "refused", server |-> s, commit |-> commit]]
    BY <1>1, <1>3, Zenon DEF StoreShape
  <2>2. \E p \in left : FileName(p) \in BuildNames
    BY <1>1, <1>3, GenerationTracked
  <2>3. left \ DOMAIN Trees[t] = left
    BY DEF Left
  <2> HIDE DEF left, litter
  <2>4. CleanTreeNotRefused'
    BY <1>2, <2>1, <2>2, <2>3 DEF CleanTreeNotRefused, Left
  <2>5. ServedAsAsked'
    BY <2>1 DEF ServedAsAsked
  <2>6. StoreShape'
    BY <1>1, <1>2, <2>1 DEF StoreShape
  <2> QED BY <2>4, <2>5, <2>6 DEF StoreInv
<1>4. CASE ~refused /\ store' = [store EXCEPT !.litter[s] = left, !.entries = stored,
                                    !.reply = Reply(s, commit, modified, entry)]
  <2>1. store' = [entries |-> stored, config |-> store.config, litter |-> litter,
                  reply |-> Reply(s, commit, modified, entry)]
    BY <1>1, <1>4, Zenon DEF StoreShape
  <2>2. EntrySound(key, entry)
    <3>1. modified = {} /\ ~c.allow => UntrackedPackages(labels, Trees[t]) = {}
      BY <1>4
    <3>2. modified = {} /\ ~c.allow =>
             /\ Loaded(Trees[t], {}) \subseteq labels
             /\ \A l \in labels \ Loaded(Trees[t], {}) :
                   \E p \in Links(Trees[t]) : IsAncestor(p, l.package)
      BY <1>1, <3>1, GenerationTracked
    <3> HIDE DEF labels, c, t
    <3> QED BY <1>1, <3>2 DEF EntrySound
  <2> HIDE DEF key, entry
  <2>3. \A k \in DOMAIN stored : EntrySound(k, stored[k])
    BY <1>1, <2>2 DEF StoreShape
  <2> HIDE DEF stored, litter
  <2>4. ServedAsAsked'
    BY <2>1 DEF ServedAsAsked, Reply, entry
  <2>5. CleanTreeNotRefused'
    BY <2>1 DEF CleanTreeNotRefused, Reply
  <2>6. StoreShape'
    BY <1>1, <1>2, <2>1, <2>3 DEF StoreShape
  <2> QED BY <2>4, <2>5, <2>6 DEF StoreInv
<1> QED BY <1>3, <1>4 DEF Generate

\* Every step of a server, and whatever happens to its workspace and options.
LEMMA StoreStepSound ==
    StoreInv /\ [StoreNext]_store => StoreInv'
<1> SUFFICES ASSUME StoreInv, [StoreNext]_store PROVE StoreInv'
  OBVIOUS
<1>1. CASE UNCHANGED store
  BY <1>1 DEF StoreInv, StoreShape, ServedAsAsked, CleanTreeNotRefused, Left
<1>2. CASE StoreNext
  <2>1. PICK s \in Servers :
           \/ \E commit \in DOMAIN Commits, modified \in Scopes :
                 Hit(s, commit, modified) \/ Generate(s, commit, modified)
           \/ \E p \in Litter : LeaveFile(s, p)
           \/ Clean(s)
           \/ \E c \in Configurations : Restart(s, c)
    BY <1>2 DEF StoreNext
  <2>2. store # Idle /\ StoreShape
    BY <1>2 DEF StoreNext, StoreInv
  <2>3. CASE \E commit \in DOMAIN Commits, modified \in Scopes :
                Hit(s, commit, modified) \/ Generate(s, commit, modified)
    BY <2>2, <2>3, HitSound, GenerateSound
  <2>4. ASSUME NEW p \in Litter, LeaveFile(s, p)
        PROVE  StoreInv'
    <3>1. /\ [store.litter EXCEPT ![s] = @ \cup {p}] \in [Servers -> SUBSET Litter]
          /\ store' = [entries |-> store.entries, config |-> store.config,
                       litter |-> [store.litter EXCEPT ![s] = @ \cup {p}], reply |-> NoReply]
      BY <2>2, <2>4, Zenon DEF LeaveFile, StoreShape
    <3> QED BY <2>2, <3>1, QuietStepSound DEF StoreShape
  <2>5. CASE Clean(s)
    <3>1. /\ [store.litter EXCEPT ![s] = {}] \in [Servers -> SUBSET Litter]
          /\ store' = [entries |-> store.entries, config |-> store.config,
                       litter |-> [store.litter EXCEPT ![s] = {}], reply |-> NoReply]
      BY <2>2, <2>5, Zenon DEF Clean, StoreShape
    <3> QED BY <2>2, <3>1, QuietStepSound DEF StoreShape
  <2>6. ASSUME NEW c \in Configurations, Restart(s, c)
        PROVE  StoreInv'
    <3>1. /\ [store.config EXCEPT ![s] = c] \in [Servers -> Configurations]
          /\ store' = [entries |-> store.entries, config |-> [store.config EXCEPT ![s] = c],
                       litter |-> store.litter, reply |-> NoReply]
      BY <2>2, <2>6, Zenon DEF Restart, StoreShape
    <3> QED BY <2>2, <3>1, QuietStepSound DEF StoreShape
  <2> QED BY <2>1, <2>3, <2>4, <2>5, <2>6
<1> QED BY <1>1, <1>2

\* cache_key: for any servers, configurations, trees and scopes, whatever was
\* put into the shared cache before, a served entry was generated for the
\* query's tree and modifiedFilepaths under every option that changes hashes.
THEOREM KeysSeparateQueries == StoreSpec => []ServedAsAsked
<1>1. StoreInv => ServedAsAsked
  BY DEF StoreInv, ServedAsAsked
<1> QED BY <1>1, StoreStarts, StoreStepSound, PTL DEF StoreSpec

\* check_tracked_packages: for any untracked files left in any workspace, a
\* full entry has the packages of a fresh clone apart from those inside links,
\* and a query is refused only over a file that is not in its revision.
THEOREM OnlyTrackedPackagesCached == StoreSpec => []PackagesTracked
<1>1. StoreInv => PackagesTracked
  BY DEF StoreInv, StoreShape, EntrySound, PackagesTracked, CachedPackagesTracked, CleanTreeNotRefused
<1> QED BY <1>1, StoreStarts, StoreStepSound, PTL DEF StoreSpec

-----------------------------------------------------------------------------
(* Snapshot                                                                *)

\* Two workspaces with the same bazelrc component have the same rc files.
LEMMA SameBazelrcs ==
    ASSUME NEW a, NEW b, ReadBazelrcs(a) = ReadBazelrcs(b)
    PROVE  \A f \in RcFiles(b) : a[f] = b[f]
<1> DEFINE files(rc) == {".bazelrc"} \cup Imports[rc[".bazelrc"]]
<1>1. ASSUME NEW rc, rc[".bazelrc"] # Missing
      PROVE  \A f, v : <<f, v>> \in ReadBazelrcs(rc) <=> f \in files(rc) /\ rc[f] # Missing /\ v = rc[f]
  BY <1>1, Zenon DEF ReadBazelrcs
<1>2. ASSUME NEW rc, rc[".bazelrc"] = Missing
      PROVE  ReadBazelrcs(rc) = {}
  BY <1>2 DEF ReadBazelrcs
<1>3. ASSUME NEW rc
      PROVE  ".bazelrc" \in files(rc)
  OBVIOUS
<1>4. CASE b[".bazelrc"] = Missing
  <2>1. a[".bazelrc"] = Missing
    <3> SUFFICES ASSUME a[".bazelrc"] # Missing PROVE FALSE
      OBVIOUS
    <3>1. <<".bazelrc", a[".bazelrc"]>> \in ReadBazelrcs(a)
      BY <1>1
    <3> QED BY <1>2, <1>4, <3>1
  <2> QED BY <1>4, <2>1 DEF RcFiles
<1>5. CASE b[".bazelrc"] # Missing
  <2>1. <<".bazelrc", b[".bazelrc"]>> \in ReadBazelrcs(b)
    BY <1>1, <1>5
  <2>2. a[".bazelrc"] # Missing
    BY <1>2, <2>1
  <2> HIDE DEF files
  <2>3. a[".bazelrc"] = b[".bazelrc"]
    BY <1>1, <2>1, <2>2
  <2>4. files(a) = files(b) /\ RcFiles(b) = files(b)
    BY <1>5, <2>3 DEF files, RcFiles
  <2>5. ASSUME NEW f \in files(b), b[f] # Missing
        PROVE  a[f] = b[f]
    BY <1>1, <1>5, <2>2, <2>5, Zenon
  <2>6. ASSUME NEW f \in files(b), b[f] = Missing
        PROVE  a[f] = b[f]
    BY <1>1, <1>5, <2>2, <2>4, <2>6, Zenon
  <2> QED BY <2>4, <2>5, <2>6
<1> QED BY <1>4, <1>5

\* Equal fingerprints are of environments that agree on what they cover.
LEMMA SameFingerprint ==
    ASSUME NEW d, NEW e, NEW v, NEW w, Fingerprint(d, v) = Fingerprint(e, w)
    PROVE  /\ d.tool = e.tool /\ v = w /\ d.lock = e.lock
           /\ \A f \in RcFiles(e.rc) : d.rc[f] = e.rc[f]
           /\ d.flags.listed = e.flags.listed
<1>1. /\ d.tool = e.tool /\ v = w /\ ModuleLock(d.lock) = ModuleLock(e.lock)
      /\ ReadBazelrcs(d.rc) = ReadBazelrcs(e.rc) /\ d.flags.listed = e.flags.listed
  BY DEF Fingerprint, FingerprintFlags
<1>2. d.lock = e.lock
  BY <1>1 DEF ModuleLock
<1> QED BY <1>1, <1>2, SameBazelrcs

\* The two files are whole and of one run, in an environment there was.
WholeRun(hashes, print) ==
    \E e \in Environments :
        hashes = [env |-> e] /\ \E version \in BazelVersions(e) : print = Fingerprint(e, version)

SnapshotShape ==
    /\ snapshot = [env |-> snapshot.env, at |-> snapshot.at, hashes |-> snapshot.hashes,
                   print |-> snapshot.print, clean |-> snapshot.clean, used |-> snapshot.used,
                   moves |-> snapshot.moves]
    /\ snapshot.env \in Environments
    /\ snapshot.at \in {"host", "generate", "fingerprint"}
    /\ snapshot.clean \in BOOLEAN

\* While a command runs there is no signal and nothing is consumed; the hashes
\* a fingerprint is about to be written for are those of the environment.
SnapshotInv ==
    snapshot # Idle =>
        /\ SnapshotShape
        /\ snapshot.at # "host" => ~snapshot.clean /\ snapshot.used = Missing
        /\ snapshot.at = "fingerprint" => snapshot.hashes = [env |-> snapshot.env]
        /\ snapshot.clean => WholeRun(snapshot.hashes, snapshot.print)
        /\ ConsumedSnapshotMatches

\* A state in which nothing was consumed yet.
LEMMA UnusedSound ==
    ASSUME NEW e \in Environments, NEW at \in {"host", "generate", "fingerprint"}, NEW hashes,
           NEW print, NEW clean \in BOOLEAN, NEW moves,
           snapshot' = [env |-> e, at |-> at, hashes |-> hashes, print |-> print, clean |-> clean,
                        used |-> Missing, moves |-> moves],
           at # "host" => ~clean,
           at = "fingerprint" => hashes = [env |-> e],
           clean => WholeRun(hashes, print)
    PROVE  SnapshotInv'
<1>1. SnapshotShape'
  BY DEF SnapshotShape
<1>2. ConsumedSnapshotMatches'
  BY DEF ConsumedSnapshotMatches
<1> QED BY <1>1, <1>2 DEF SnapshotInv

\* What the host consumes was generated where the fingerprint is the same.
LEMMA ConsumeSound ==
    ASSUME SnapshotInv, Consume
    PROVE  SnapshotInv'
<1>1. SnapshotShape /\ snapshot.at = "host" /\ WholeRun(snapshot.hashes, snapshot.print) /\ snapshot.clean
  BY DEF SnapshotInv, Consume, Host
<1>2. PICK version \in BazelVersions(snapshot.env) :
         /\ snapshot.print = Fingerprint(snapshot.env, version)
         /\ snapshot' = [snapshot EXCEPT !.used = [version |-> version, hashes |-> snapshot.hashes]]
  BY DEF Consume
<1>3. snapshot' = [env |-> snapshot.env, at |-> snapshot.at, hashes |-> snapshot.hashes,
                   print |-> snapshot.print, clean |-> snapshot.clean,
                   used |-> [version |-> version, hashes |-> snapshot.hashes], moves |-> snapshot.moves]
  BY <1>1, <1>2, Zenon DEF SnapshotShape
<1>4. PICK e \in Environments :
         snapshot.hashes = [env |-> e] /\ \E v \in BazelVersions(e) : snapshot.print = Fingerprint(e, v)
  BY <1>1 DEF WholeRun
<1>5. PICK v \in BazelVersions(e) : Fingerprint(e, v) = Fingerprint(snapshot.env, version)
  BY <1>2, <1>4
<1>6. /\ e.tool = snapshot.env.tool /\ v = version /\ e.lock = snapshot.env.lock
      /\ \A f \in RcFiles(snapshot.env.rc) : e.rc[f] = snapshot.env.rc[f]
      /\ e.flags.listed = snapshot.env.flags.listed
  BY <1>5, SameFingerprint
<1>7. version # "unknown" => e.bazel = snapshot.env.bazel
  BY <1>2, <1>5, <1>6 DEF BazelVersions
<1>8. ConsumedSnapshotMatches'
  BY <1>3, <1>4, <1>6, <1>7 DEF ConsumedSnapshotMatches
<1>9. SnapshotShape'
  BY <1>1, <1>3 DEF SnapshotShape
<1> QED BY <1>1, <1>3, <1>8, <1>9 DEF SnapshotInv

LEMMA SnapshotStarts ==
    SnapshotInit => SnapshotInv
<1> SUFFICES ASSUME NEW e \in Environments,
                    snapshot = [env |-> e, at |-> "host", hashes |-> Missing, print |-> Missing,
                                clean |-> FALSE, used |-> Missing, moves |-> 0]
             PROVE  SnapshotInv
  BY DEF SnapshotInit
<1>1. SnapshotShape
  BY DEF SnapshotShape
<1>2. ConsumedSnapshotMatches
  BY DEF ConsumedSnapshotMatches
<1> QED BY <1>1, <1>2 DEF SnapshotInv

\* A run of the two commands, failures and crashes of it included.
LEMMA CommandSound ==
    ASSUME SnapshotInv, Warmup \/ GenerateHashes \/ WriteFingerprint \/ Crash
    PROVE  SnapshotInv'
<1>1. snapshot # Idle /\ SnapshotShape
  BY Zenon DEF SnapshotInv, Warmup, GenerateHashes, WriteFingerprint, Crash, Host
<1> DEFINE After(at, hashes, print, clean) ==
              [env |-> snapshot.env, at |-> at, hashes |-> hashes, print |-> print, clean |-> clean,
               used |-> Missing, moves |-> snapshot.moves]
<1>2. ASSUME NEW hashes, NEW print, snapshot' = After("host", hashes, print, FALSE)
      PROVE  SnapshotInv'
  BY <1>1, <1>2, UnusedSound, Zenon DEF SnapshotShape
<1>3. CASE Warmup
  <2>1. snapshot' = After("generate", snapshot.hashes, snapshot.print, FALSE)
    BY <1>1, <1>3, Zenon DEF Warmup, SnapshotShape
  <2> QED BY <1>1, <2>1, UnusedSound, Zenon DEF SnapshotShape
<1>4. ASSUME snapshot.at # "host"
      PROVE  /\ ~snapshot.clean /\ snapshot.used = Missing
             /\ snapshot.clean = FALSE
  BY <1>1, <1>4 DEF SnapshotInv, SnapshotShape
<1>5. CASE GenerateHashes
  <2>1. snapshot.at = "generate"
    BY <1>5 DEF GenerateHashes
  <2>2. CASE snapshot' = [snapshot EXCEPT !.at = "host"]
    <3>1. snapshot' = After("host", snapshot.hashes, snapshot.print, FALSE)
      BY <1>1, <1>4, <2>1, <2>2, Zenon DEF SnapshotShape
    <3> QED BY <1>2, <3>1
  <2>3. CASE snapshot' = [snapshot EXCEPT !.at = "host", !.hashes = Torn]
    <3>1. snapshot' = After("host", Torn, snapshot.print, FALSE)
      BY <1>1, <1>4, <2>1, <2>3, Zenon DEF SnapshotShape
    <3> QED BY <1>2, <3>1
  <2>4. CASE snapshot' = [snapshot EXCEPT !.at = "fingerprint", !.hashes = [env |-> snapshot.env]]
    <3>1. snapshot' = After("fingerprint", [env |-> snapshot.env], snapshot.print, FALSE)
      BY <1>1, <1>4, <2>1, <2>4, Zenon DEF SnapshotShape
    <3> QED BY <1>1, <3>1, UnusedSound, Zenon DEF SnapshotShape
  <2> QED BY <1>5, <2>2, <2>3, <2>4 DEF GenerateHashes
<1>6. CASE WriteFingerprint
  <2>1. snapshot.at = "fingerprint" /\ snapshot.hashes = [env |-> snapshot.env]
    BY <1>6, Zenon DEF WriteFingerprint, SnapshotInv
  <2>2. CASE snapshot' = [snapshot EXCEPT !.at = "host", !.print = Torn]
    <3>1. snapshot' = After("host", snapshot.hashes, Torn, FALSE)
      BY <1>1, <1>4, <2>1, <2>2, Zenon DEF SnapshotShape
    <3> QED BY <1>2, <3>1
  <2>3. CASE snapshot' = [snapshot EXCEPT !.at = "host"]
    <3>1. snapshot' = After("host", snapshot.hashes, snapshot.print, FALSE)
      BY <1>1, <1>4, <2>1, <2>3, Zenon DEF SnapshotShape
    <3> QED BY <1>2, <3>1
  <2>4. ASSUME NEW version \in BazelVersions(snapshot.env),
               snapshot' = [snapshot EXCEPT !.at = "host", !.clean = TRUE,
                                            !.print = Fingerprint(snapshot.env, version)]
        PROVE  SnapshotInv'
    <3>1. snapshot' = After("host", snapshot.hashes, Fingerprint(snapshot.env, version), TRUE)
      BY <1>1, <1>4, <2>1, <2>4, Zenon DEF SnapshotShape
    <3>2. WholeRun(snapshot.hashes, Fingerprint(snapshot.env, version))
      BY <1>1, <2>1 DEF WholeRun, SnapshotShape
    <3> QED BY <1>1, <3>1, <3>2, UnusedSound, Zenon DEF SnapshotShape
  <2> QED BY <1>6, <2>2, <2>3, <2>4, Zenon DEF WriteFingerprint
<1>7. CASE Crash
  <2>1. snapshot.at # "host"
    BY <1>7 DEF Crash
  <2>2. CASE snapshot' = [snapshot EXCEPT !.at = "host"]
    <3>1. snapshot' = After("host", snapshot.hashes, snapshot.print, FALSE)
      BY <1>1, <1>4, <2>1, <2>2, Zenon DEF SnapshotShape
    <3> QED BY <1>2, <3>1
  <2>3. CASE snapshot' = [snapshot EXCEPT !.at = "host", !.hashes = Torn]
    <3>1. snapshot' = After("host", Torn, snapshot.print, FALSE)
      BY <1>1, <1>4, <2>1, <2>3, Zenon DEF SnapshotShape
    <3> QED BY <1>2, <3>1
  <2>4. CASE snapshot' = [snapshot EXCEPT !.at = "host", !.print = Torn]
    <3>1. snapshot' = After("host", snapshot.hashes, Torn, FALSE)
      BY <1>1, <1>4, <2>1, <2>4, Zenon DEF SnapshotShape
    <3> QED BY <1>2, <3>1
  <2> QED BY <1>7, <2>2, <2>3, <2>4 DEF Crash
<1> QED BY <1>3, <1>5, <1>6, <1>7

\* A host that moves keeps the files and forgets what it consumed.
LEMMA MoveSound ==
    ASSUME SnapshotInv, Move
    PROVE  SnapshotInv'
<1>1. SnapshotShape /\ snapshot.at = "host" /\ (snapshot.clean => WholeRun(snapshot.hashes, snapshot.print))
  BY DEF SnapshotInv, Move, Host
<1>2. PICK e \in Environments :
         snapshot' = [snapshot EXCEPT !.env = e, !.moves = @ + 1, !.used = Missing]
  BY Zenon DEF Move
<1>3. snapshot' = [env |-> e, at |-> "host", hashes |-> snapshot.hashes, print |-> snapshot.print,
                   clean |-> snapshot.clean, used |-> Missing, moves |-> snapshot.moves + 1]
  BY <1>1, <1>2, Zenon DEF SnapshotShape
<1> QED BY <1>1, <1>3, UnusedSound DEF SnapshotShape

LEMMA SnapshotStepSound ==
    SnapshotInv /\ [SnapshotNext]_snapshot => SnapshotInv'
<1>1. SnapshotInv /\ UNCHANGED snapshot => SnapshotInv'
  BY DEF SnapshotInv, SnapshotShape, ConsumedSnapshotMatches
<1> QED BY <1>1, CommandSound, ConsumeSound, MoveSound DEF SnapshotNext

\* run_warmup_with and run_fingerprint, in any environments and with any number
\* of moves, failures and crashes: a clean exit leaves two whole files of one
\* run, and a host consumes them only where the tool, Bazel, the lock file, the
\* rc files and the listed flags are those of that run.
THEOREM SnapshotsAreTrusted == SnapshotSpec => []SnapshotTrusted
<1>1. SnapshotInv => SnapshotTrusted
  <2> SUFFICES ASSUME SnapshotInv PROVE SnapshotTrusted
    OBVIOUS
  <2>1. ConsumedSnapshotMatches
    BY DEF SnapshotInv, ConsumedSnapshotMatches
  <2>2. ASSUME snapshot # Idle, snapshot.clean
        PROVE  /\ snapshot.hashes \notin {Missing, Torn}
               /\ \E version \in BazelVersions(snapshot.hashes.env) :
                     snapshot.print = Fingerprint(snapshot.hashes.env, version)
    <3>1. PICK e \in Environments :
             snapshot.hashes = [env |-> e] /\ \E version \in BazelVersions(e) : snapshot.print = Fingerprint(e, version)
      BY <2>2, Zenon DEF SnapshotInv, WholeRun
    <3>2. snapshot.hashes.env = e /\ snapshot.hashes # Missing /\ snapshot.hashes # Torn
      BY <3>1, SnapshotAssumption DEF Torn
    <3> QED BY <3>1, <3>2
  <2> QED BY <2>1, <2>2 DEF SnapshotTrusted, CleanExitLeavesBoth
<1> QED BY <1>1, SnapshotStarts, SnapshotStepSound, PTL DEF SnapshotSpec

-----------------------------------------------------------------------------
(* CachePruner.  While a pass is quiet its list is true: it holds the      *)
(* entries on disk with the modification times they have, each once and    *)
(* oldest first; in the phases of the limits it holds all of them, so that *)
(* what the pass counts and adds up is what the directory holds.           *)

KeysOf(s) == {s[i][1] : i \in 1 .. Len(s)}

\* Each entry of the list is on disk, as listed, and listed once; oldest first.
TrueList(s) ==
    /\ s \in Seq(Keys \X Nat)
    /\ \A i \in 1 .. Len(s) : s[i][1] \in present /\ s[i][2] = mtime[s[i][1]]
    /\ \A i, j \in 1 .. Len(s) : i < j => s[i][1] # s[j][1] /\ s[i][2] <= s[j][2]

Complete(s) == KeysOf(s) = present /\ Len(s) = Cardinality(present)

PrunerTypes ==
    /\ clock \in Nat
    /\ present \subseteq Keys
    /\ mtime \in [Keys -> Nat]
    /\ pc \in {"idle", "age", "entries", "size"}

PrunerInv ==
    /\ PrunerTypes
    /\ quiet /\ pc # "idle" => TrueList(list)
    /\ quiet /\ pc \in {"entries", "size"} => Complete(list)
    /\ quiet /\ pc = "size" => ~TooMany

(* Sums.  SizeOf is a recursive function on the subsets of its set;        *)
(* that it exists and is a number is shown by induction on their size.     *)

\* The least number of a set of numbers.
LEMMA LeastNumber ==
    ASSUME NEW T, T \subseteq Nat, T # {}
    PROVE  \E n \in T : \A m \in T : n <= m
<1> DEFINE R == OpToRel(<, Nat)
<1>1. IsWellFoundedOn(R, Nat)
  BY NatLessThanWellFounded, Zenon
<1>2. \A m, k \in Nat : m < k => <<m, k>> \in R
  BY DEF OpToRel
<1> HIDE DEF R
<1>3. PICK n \in T : \A m \in T : ~(<<m, n>> \in R)
  BY <1>1, WFMin, Zenon
<1>4. \A m \in T : ~(m < n)
  BY <1>2, <1>3, Zenon
<1> QED BY <1>4

LEMMA SetInduction ==
    ASSUME NEW S, 0 \in S, \A n \in Nat : n \in S => n + 1 \in S
    PROVE  \A n \in Nat : n \in S
<1> DEFINE T == {n \in Nat : n \notin S}
<1> SUFFICES ASSUME T # {} PROVE FALSE
  OBVIOUS
<1>1. PICK n \in T : \A m \in T : n <= m
  BY LeastNumber, Zenon
<1>2. n # 0 /\ n - 1 \in Nat /\ n - 1 \notin T
  BY <1>1
<1>3. n - 1 \in S
  BY <1>2
<1>4. (n - 1) + 1 \in S
  BY <1>2, <1>3
<1> QED BY <1>1, <1>4

OneOf(s) == CHOOSE x \in s : TRUE

SumStep(g, s) == IF s = {} THEN 0 ELSE Size[OneOf(s)] + g[s \ {OneOf(s)}]

UpTo(S, n) == {s \in SUBSET S : Cardinality(s) <= n}

LEMMA UpToFacts ==
    ASSUME NEW S \in SUBSET Keys
    PROVE  /\ UpTo(S, 0) = {{}} /\ {} \in SUBSET S
           /\ Cardinality(S) \in Nat /\ UpTo(S, Cardinality(S)) = SUBSET S
           /\ \A n \in Nat : UpTo(S, n) \subseteq UpTo(S, n + 1)
           /\ \A n \in Nat : \A s \in UpTo(S, n + 1) :
                 s # {} => s \ {OneOf(s)} \in UpTo(S, n) /\ Size[OneOf(s)] \in Nat
<1>1. IsFiniteSet(S)
  BY PrunerAssumption, FS_Subset
<1>2. \A s \in SUBSET S : IsFiniteSet(s) /\ Cardinality(s) \in Nat
  BY <1>1, FS_Subset, FS_CardinalityType
<1>3. \A s \in SUBSET S : s # {} => OneOf(s) \in s
  BY DEF OneOf
<1>4. \A s \in SUBSET S : s # {} => Cardinality(s \ {OneOf(s)}) = Cardinality(s) - 1
  BY <1>2, <1>3, FS_RemoveElement
<1>5. {} \in SUBSET S /\ Cardinality({}) = 0 /\ \A s \in SUBSET S : Cardinality(s) = 0 => s = {}
  BY <1>2, FS_EmptySet
<1>6. UpTo(S, 0) = {{}}
  BY <1>2, <1>5 DEF UpTo
<1>7. \A n \in Nat : UpTo(S, n) \subseteq UpTo(S, n + 1)
  <2>1. \A n \in Nat, c \in Nat : c <= n => c <= n + 1
    OBVIOUS
  <2> QED BY <1>2, <2>1, Zenon DEF UpTo
<1>8. ASSUME NEW n \in Nat, NEW s \in UpTo(S, n + 1), s # {}
      PROVE  s \ {OneOf(s)} \in UpTo(S, n) /\ Size[OneOf(s)] \in Nat
  <2>1. s \in SUBSET S /\ Cardinality(s) <= n + 1
    BY DEF UpTo
  <2>2. OneOf(s) \in Keys
    BY <1>3, <1>8, <2>1
  <2>3. Cardinality(s \ {OneOf(s)}) <= n
    BY <1>2, <1>4, <1>8, <2>1
  <2>4. s \ {OneOf(s)} \in SUBSET S
    BY <2>1
  <2>5. s \ {OneOf(s)} \in UpTo(S, n)
    BY <2>3, <2>4 DEF UpTo
  <2> QED BY <2>2, <2>5, PrunerAssumption
<1>9. Cardinality(S) \in Nat /\ UpTo(S, Cardinality(S)) = SUBSET S
  BY <1>1, FS_Subset, FS_CardinalityType DEF UpTo
<1> QED BY <1>5, <1>6, <1>7, <1>8, <1>9

LEMMA SumExists ==
    ASSUME NEW S \in SUBSET Keys
    PROVE  \E g : g = [s \in SUBSET S |-> SumStep(g, s)]
<1> DEFINE P(n) == \E g \in [UpTo(S, n) -> Nat] : \A s \in UpTo(S, n) : g[s] = SumStep(g, s)
           I == {n \in Nat : P(n)}
<1>1. P(0)
  <2> DEFINE g == [s \in UpTo(S, 0) |-> 0]
  <2>1. g \in [UpTo(S, 0) -> Nat]
    OBVIOUS
  <2>2. \A s \in UpTo(S, 0) : g[s] = SumStep(g, s)
    BY UpToFacts DEF SumStep
  <2> QED BY <2>1, <2>2
<1>2. ASSUME NEW n \in Nat, P(n) PROVE P(n + 1)
  <2>1. PICK g \in [UpTo(S, n) -> Nat] : \A s \in UpTo(S, n) : g[s] = SumStep(g, s)
    BY <1>2
  <2> DEFINE h == [s \in UpTo(S, n + 1) |-> SumStep(g, s)]
  <2>2. \A s \in UpTo(S, n + 1) : s # {} => s \ {OneOf(s)} \in UpTo(S, n) /\ Size[OneOf(s)] \in Nat
    BY UpToFacts
  <2>3. \A s \in UpTo(S, n + 1) : SumStep(g, s) \in Nat
    BY <2>1, <2>2 DEF SumStep
  <2>4. UpTo(S, n) \subseteq UpTo(S, n + 1)
    BY UpToFacts
  <2>5. \A s \in UpTo(S, n) : h[s] = g[s]
    BY <2>1, <2>4
  <2>6. \A s \in UpTo(S, n + 1) : h[s] = SumStep(h, s)
    BY <2>2, <2>5, Zenon DEF SumStep
  <2>7. h \in [UpTo(S, n + 1) -> Nat]
    BY <2>3
  <2> QED BY <2>6, <2>7, Zenon
<1>3. \A n \in Nat : n \in I
  <2>1. 0 \in I /\ \A n \in Nat : n \in I => n + 1 \in I
    BY <1>1, <1>2
  <2> HIDE DEF I
  <2> QED BY <2>1, SetInduction
<1>4. Cardinality(S) \in Nat /\ UpTo(S, Cardinality(S)) = SUBSET S
  BY UpToFacts
<1>5. PICK g \in [SUBSET S -> Nat] : \A s \in SUBSET S : g[s] = SumStep(g, s)
  BY <1>3, <1>4, Zenon
<1>6. g = [s \in SUBSET S |-> SumStep(g, s)]
  BY <1>5
<1> QED BY <1>6

\* The bytes of a set of entries are a number; those of none are none.
LEMMA SumIsNatural ==
    ASSUME NEW S \in SUBSET Keys
    PROVE  SizeOf(S) \in Nat /\ (S = {} => SizeOf(S) = 0)
<1> DEFINE iter == CHOOSE g : g = [s \in SUBSET S |-> SumStep(g, s)]
<1>1. SizeOf(S) = iter[S]
  BY DEF SizeOf, MapThenSumSet, MapThenFoldSet, SumStep, OneOf
<1>2. iter = [s \in SUBSET S |-> SumStep(iter, s)]
  BY SumExists
<1> HIDE DEF iter
<1>3. \A s \in SUBSET S : iter[s] = SumStep(iter, s)
  BY <1>2
<1> DEFINE I == {n \in Nat : \A s \in UpTo(S, n) : iter[s] \in Nat}
<1>4. 0 \in I
  <2>1. ASSUME NEW s \in UpTo(S, 0) PROVE iter[s] = 0
    <3>1. s = {} /\ s \in SUBSET S
      BY UpToFacts
    <3>2. SumStep(iter, s) = 0
      BY <3>1 DEF SumStep
    <3> QED BY <1>3, <3>1, <3>2, Zenon
  <2>2. \A s \in UpTo(S, 0) : iter[s] \in Nat
    BY <2>1
  <2> QED BY <2>2
<1>5. ASSUME NEW n \in Nat, n \in I PROVE n + 1 \in I
  <2>1. \A s \in UpTo(S, n + 1) : s # {} => s \ {OneOf(s)} \in UpTo(S, n) /\ Size[OneOf(s)] \in Nat
    BY UpToFacts
  <2>2. \A s \in UpTo(S, n + 1) : s \in SUBSET S
    BY DEF UpTo
  <2>3. \A s \in UpTo(S, n + 1) : SumStep(iter, s) \in Nat
    BY <1>5, <2>1 DEF SumStep
  <2> QED BY <1>3, <2>2, <2>3
<1>6. \A n \in Nat : n \in I
  <2> HIDE DEF I
  <2> QED BY <1>4, <1>5, SetInduction
<1>7. S \in UpTo(S, Cardinality(S)) /\ Cardinality(S) \in Nat
  BY UpToFacts
<1>8. iter[S] \in Nat
  BY <1>6, <1>7
<1>9. S = {} => iter[S] = 0
  BY <1>3 DEF SumStep
<1> QED BY <1>1, <1>8, <1>9

\* A listing of the directory is true and complete.
LEMMA ListingsTrue ==
    ASSUME PrunerTypes, NEW s \in Listings
    PROVE  TrueList(s) /\ Complete(s)
<1> DEFINE n == Cardinality(present)
           f == [i \in 1 .. n |-> s[i][1]]
<1>1. IsFiniteSet(present) /\ n \in Nat
  BY PrunerAssumption, FS_Subset, FS_CardinalityType DEF PrunerTypes
<1>2. s \in [1 .. n -> {<<k, mtime[k]>> : k \in present}]
  BY DEF Listings
<1>3. \A i \in 1 .. n : s[i][1] \in present /\ s[i] = <<s[i][1], mtime[s[i][1]]>>
                        /\ s[i] \in Keys \X Nat
  BY <1>2 DEF PrunerTypes
<1>4. s \in Seq(Keys \X Nat) /\ Len(s) = n /\ DOMAIN s = 1 .. n
  <2>1. s \in [1 .. n -> Keys \X Nat]
    BY <1>2, <1>3
  <2> QED BY <1>1, <2>1
<1>5. \A i, j \in 1 .. n : i < j => s[i] # s[j] /\ s[i][2] <= s[j][2]
  BY <1>4, Zenon DEF Listings
<1>6. \A i, j \in 1 .. n : i < j => s[i][1] # s[j][1]
  BY <1>3, <1>5
<1>7. TrueList(s)
  BY <1>3, <1>4, <1>5, <1>6 DEF TrueList
<1>8. f \in Injection(1 .. n, present)
  <2>1. f \in [1 .. n -> present]
    BY <1>3
  <2>2. ASSUME NEW i \in 1 .. n, NEW j \in 1 .. n, f[i] = f[j]
        PROVE  i = j
    BY <1>1, <1>6, <2>2
  <2> QED BY <2>1, <2>2 DEF Injection, IsInjective
<1>9. Cardinality(1 .. n) = n
  BY <1>1, FS_Interval
<1>10. f \in Surjection(1 .. n, present)
  BY <1>1, <1>8, <1>9, FS_Injection
<1>11. KeysOf(s) = present
  <2>1. \A k \in present : \E i \in 1 .. n : f[i] = k
    BY <1>10, Zenon DEF Surjection
  <2> QED BY <1>3, <1>4, <2>1 DEF KeysOf
<1> QED BY <1>4, <1>7, <1>11 DEF Complete

\* Without its head a list is still true, whether the file is removed or kept.
LEMMA TailTrue ==
    ASSUME TrueList(list), list # <<>>, list' = Tail(list), UNCHANGED mtime,
           present' \in {present, present \ {Head(list)[1]}}
    PROVE  TrueList(list)'
<1>1. /\ list' \in Seq(Keys \X Nat) /\ Len(list') = Len(list) - 1 /\ Len(list) \in Nat \ {0}
      /\ \A i \in 1 .. Len(list') : list'[i] = list[i + 1] /\ i + 1 \in 1 .. Len(list)
  BY ListFront, EmptyList DEF TrueList
<1>2. Head(list) = list[1] /\ 1 \in 1 .. Len(list)
  BY <1>1 DEF TrueList
<1>3. \A i \in 1 .. Len(list') : list'[i][1] # Head(list)[1]
  BY <1>1, <1>2 DEF TrueList
<1>4. \A i \in 1 .. Len(list') : list'[i][1] \in present' /\ list'[i][2] = mtime'[list'[i][1]]
  BY <1>1, <1>3 DEF TrueList
<1>5. \A i, j \in 1 .. Len(list') : i < j => list'[i][1] # list'[j][1] /\ list'[i][2] <= list'[j][2]
  <2> SUFFICES ASSUME NEW i \in 1 .. Len(list'), NEW j \in 1 .. Len(list'), i < j
               PROVE  list'[i][1] # list'[j][1] /\ list'[i][2] <= list'[j][2]
    OBVIOUS
  <2>1. i + 1 \in 1 .. Len(list) /\ j + 1 \in 1 .. Len(list) /\ i + 1 < j + 1
    BY <1>1
  <2> QED BY <1>1, <2>1 DEF TrueList
<1> QED BY <1>1, <1>4, <1>5 DEF TrueList

\* remove_file of the head leaves the list complete.
LEMMA RemovalComplete ==
    ASSUME PrunerTypes, TrueList(list), Complete(list), list # <<>>, RemoveHead
    PROVE  Complete(list)'
<1>1. /\ Len(list') = Len(list) - 1 /\ Len(list) \in Nat \ {0}
      /\ \A i \in 1 .. Len(list') : list'[i] = list[i + 1] /\ i + 1 \in 1 .. Len(list)
  BY ListFront, EmptyList DEF TrueList, RemoveHead
<1> DEFINE k == Head(list)[1]
<1>2. k = list[1][1] /\ 1 \in 1 .. Len(list)
  BY <1>1 DEF TrueList
<1>3. IsFiniteSet(present) /\ k \in present
  BY <1>2, PrunerAssumption, FS_Subset DEF PrunerTypes, TrueList
<1>4. Cardinality(present') = Cardinality(present) - 1
  BY <1>3, FS_RemoveElement, Zenon DEF RemoveHead
<1>5. KeysOf(list') = KeysOf(list) \ {k}
  <2>1. ASSUME NEW x \in KeysOf(list') PROVE x \in KeysOf(list) /\ x # k
    <3>1. PICK i \in 1 .. Len(list') : x = list'[i][1]
      BY DEF KeysOf
    <3>2. x = list[i + 1][1] /\ i + 1 \in 1 .. Len(list) /\ 1 < i + 1
      BY <1>1, <3>1
    <3> QED BY <1>2, <3>2, SMTT(30) DEF KeysOf, TrueList
  <2>2. ASSUME NEW x \in KeysOf(list), x # k PROVE x \in KeysOf(list')
    <3>1. PICK i \in 1 .. Len(list) : x = list[i][1]
      BY DEF KeysOf
    <3>2. i - 1 \in 1 .. Len(list') /\ i = (i - 1) + 1
      BY <1>1, <1>2, <2>2, <3>1
    <3>3. list'[i - 1] = list[i]
      BY <1>1, <3>2
    <3> QED BY <3>1, <3>2, <3>3 DEF KeysOf
  <2> QED BY <2>1, <2>2
<1> QED BY <1>1, <1>4, <1>5 DEF Complete, RemoveHead

LEMMA PrunerStarts == Init => PrunerInv
  BY DEF Init, PrunerInv, PrunerTypes

LEMMA RelistSound ==
    ASSUME PrunerTypes, NEW next \in {"age", "entries"}, Relist(next),
           UNCHANGED <<clock, mtime, present>>
    PROVE  PrunerInv'
<1>1. TrueList(list') /\ Complete(list')
  BY ListingsTrue DEF Relist
<1>2. TrueList(list)' /\ Complete(list)'
  BY <1>1 DEF TrueList, Complete
<1> QED BY <1>2 DEF PrunerInv, PrunerTypes, Relist

LEMMA PrunerStepSound == PrunerInv /\ [Next]_vars => PrunerInv'
<1> SUFFICES ASSUME PrunerInv, [Next]_vars PROVE PrunerInv'
  OBVIOUS
<1>1. PrunerTypes
  BY DEF PrunerInv
<1>2. CASE StartPass
  BY <1>1, <1>2, RelistSound DEF StartPass
<1>3. CASE RemoveExpired
  <2>1. /\ UNCHANGED <<clock, mtime, pc, quiet>> /\ pc = "age" /\ list # <<>> /\ list' = Tail(list)
        /\ present' \in {present, present \ {Head(list)[1]}}
    BY <1>3 DEF RemoveExpired, RemoveHead
  <2>2. quiet => TrueList(list)'
    BY <2>1, TailTrue DEF PrunerInv
  <2> QED BY <1>1, <2>1, <2>2 DEF PrunerInv, PrunerTypes
<1>4. CASE ListAgain
  BY <1>1, <1>4, RelistSound DEF ListAgain
<1>5. CASE RemoveOldest
  <2>1. /\ UNCHANGED <<clock, mtime, pc, quiet>> /\ pc \in {"entries", "size"}
        /\ RemoveHead /\ list' = Tail(list) /\ present' = present \ {Head(list)[1]}
    BY <1>5 DEF RemoveOldest, RemoveHead
  <2>2. quiet => TrueList(list) /\ Complete(list)
    BY <2>1 DEF PrunerInv
  <2>3. quiet => list # <<>>
    BY <1>5, <2>1, PrunerAssumption DEF RemoveOldest, TooMany, TooLarge
  <2>4. quiet => TrueList(list)' /\ Complete(list)'
    BY <1>1, <2>1, <2>2, <2>3, TailTrue, RemovalComplete
  <2>5. quiet /\ pc = "size" => ~TooMany'
    <3>1. quiet => Len(list') = Len(list) - 1 /\ Len(list) \in Nat
      BY <2>1, <2>2, <2>3, ListFront DEF TrueList
    <3> QED BY <3>1, PrunerAssumption DEF PrunerInv, TooMany
  <2> QED BY <1>1, <2>1, <2>4, <2>5 DEF PrunerInv, PrunerTypes
<1>6. CASE EntriesDone
  <2>1. UNCHANGED <<clock, mtime, present, list, quiet>> /\ pc = "entries" /\ pc' = "size" /\ ~TooMany
    BY <1>6 DEF EntriesDone
  <2> QED BY <1>1, <2>1 DEF PrunerInv, PrunerTypes, TrueList, Complete, TooMany
<1>7. CASE PassDone
  BY <1>1, <1>7 DEF PassDone, PrunerInv, PrunerTypes
<1>8. CASE \E k \in Keys : Touch(k) \/ WriteEntry(k)
  <2>1. /\ UNCHANGED <<clock, pc>> /\ ~quiet' /\ present' \subseteq Keys
        /\ mtime' \in [Keys -> Nat]
    BY <1>1, <1>8 DEF Touch, WriteEntry, PrunerTypes
  <2> QED BY <1>1, <2>1 DEF PrunerInv, PrunerTypes
<1>9. CASE Tick \/ UNCHANGED vars
  <2>1. UNCHANGED <<mtime, present, pc, list, quiet>> /\ clock' \in Nat
    BY <1>1, <1>9 DEF Tick, vars, PrunerTypes
  <2> QED BY <1>1, <2>1 DEF PrunerInv, PrunerTypes, TrueList, Complete, TooMany
<1> QED BY <1>2, <1>3, <1>4, <1>5, <1>6, <1>7, <1>8, <1>9 DEF Next, PassStep

\* Only the removals of the pass take an entry from the directory.
LEMMA OnlyPassRemoves ==
    ASSUME PrunerInv, [Next]_vars, NEW k \in present \ present'
    PROVE  (RemoveExpired /\ RemoveHead /\ Expired) \/ RemoveOldest
  BY DEF Next, PassStep, StartPass, RemoveExpired, ListAgain, EntriesDone, PassDone, Touch,
         WriteEntry, Tick, vars

\* When the pass ends, what it counted and added up is within the limits.
LEMMA PassEndsWithinLimits ==
    ASSUME PrunerInv, quiet, PassDone
    PROVE  LimitsHold
<1>1. TrueList(list) /\ Complete(list) /\ ~TooMany /\ ~TooLarge
  BY DEF PassDone, PrunerInv
<1>2. Len(list) \in Nat /\ DOMAIN list = 1 .. Len(list)
  BY <1>1 DEF TrueList
<1>3. MaxEntries # NoLimit => Cardinality(present) <= MaxEntries
  BY <1>1, <1>2, PrunerAssumption DEF Complete, TooMany
<1>4. {list[i][1] : i \in DOMAIN list} = present
  BY <1>1, <1>2 DEF Complete, KeysOf
<1>5. Total = SizeOf(present)
  BY <1>4 DEF Total
<1>6. CASE list = <<>>
  <2>1. present = {}
    BY <1>2, <1>4, <1>6
  <2>2. SizeOf(present) = 0 /\ SizeOf(present) \in Int
    BY <2>1, SumIsNatural
  <2>3. MaxSize # NoLimit => SizeOf(present) <= MaxSize
    BY <2>2, PrunerAssumption
  <2> QED BY <1>3, <2>3 DEF LimitsHold
<1>7. CASE list # <<>>
  <2>1. MaxSize # NoLimit => ~(SizeOf(present) > MaxSize)
    BY <1>1, <1>5, <1>7 DEF TooLarge
  <2>2. SizeOf(present) \in Int
    BY SumIsNatural DEF PrunerInv, PrunerTypes
  <2>3. MaxSize # NoLimit => SizeOf(present) <= MaxSize
    BY <2>1, <2>2, PrunerAssumption
  <2> QED BY <1>3, <2>3 DEF LimitsHold
<1> QED BY <1>6, <1>7

\* A pass of prune_cache that no query interferes with removes for age only
\* what is older than the limit, for the other limits only what was used least
\* recently, and leaves the directory within its limits: for any entries, sizes
\* and limits, and whatever happened before its last listing.
THEOREM QuietPassesExact == Spec => QuietPassExact
<1> DEFINE Exact == quiet => YoungEntriesStay /\ RemovesLeastRecent /\ (PassDone => LimitsHold)
<1>1. ASSUME PrunerInv, [Next]_vars, quiet PROVE YoungEntriesStay
  <2> SUFFICES ASSUME pc = "age", NEW k \in present \ present'
               PROVE  now - mtime[k] > MaxAge
    BY DEF YoungEntriesStay
  <2>1. RemoveExpired /\ RemoveHead /\ Expired
    BY <1>1, OnlyPassRemoves DEF RemoveOldest
  <2>2. TrueList(list) /\ list # <<>> /\ k = Head(list)[1]
    BY <1>1, <2>1 DEF PrunerInv, RemoveExpired, RemoveHead
  <2>3. Head(list)[2] = mtime[k]
    <3>1. 1 \in 1 .. Len(list) /\ Head(list) = list[1]
      BY <2>2, EmptyList DEF TrueList
    <3> QED BY <2>2, <3>1 DEF TrueList
  <2> QED BY <2>1, <2>3 DEF Expired
<1>2. ASSUME PrunerInv, [Next]_vars, quiet PROVE RemovesLeastRecent
  <2> SUFFICES ASSUME pc \in {"entries", "size"}, NEW k \in present \ present', NEW other \in present'
               PROVE  mtime[k] <= mtime[other]
    BY DEF RemovesLeastRecent
  <2>1. RemoveOldest /\ RemoveHead
    BY <1>2, OnlyPassRemoves, Zenon DEF RemoveExpired, RemoveOldest
  <2>2. TrueList(list) /\ Complete(list) /\ k = Head(list)[1] /\ other \in present /\ other # k
    BY <1>2, <2>1 DEF PrunerInv, RemoveHead
  <2>3. PICK i \in 1 .. Len(list) : other = list[i][1]
    BY <2>2 DEF Complete, KeysOf
  <2>4. 1 \in 1 .. Len(list) /\ Head(list) = list[1] /\ 1 < i
    <3>1. Len(list) \in Nat /\ 1 \in 1 .. Len(list) /\ Head(list) = list[1]
      BY <2>2, <2>3 DEF TrueList
    <3> QED BY <2>2, <2>3, <3>1
  <2> QED BY <2>2, <2>3, <2>4 DEF TrueList
<1>3. PrunerInv /\ [Next]_vars => [Exact]_vars
  BY <1>1, <1>2, PassEndsWithinLimits
<1> QED BY <1>3, PrunerStarts, PrunerStepSound, PTL DEF Spec, QuietPassExact
=============================================================================
