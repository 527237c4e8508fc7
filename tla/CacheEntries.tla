---------------------------- MODULE CacheEntries ----------------------------
(***************************************************************************)
(* What a cache entry stands for: configuration_fingerprint and cache_key  *)
(* of src/src/cache.rs, and check_tracked_packages of src/src/server.rs.   *)
(* Servers with configurations and workspaces of their own share a cache;  *)
(* their checkouts leave untracked files behind.  A path is the sequence   *)
(* of its components.                                                      *)
(***************************************************************************)
EXTENDS Naturals, FiniteSets, Sequences, Stage

CONSTANTS
    Servers,
    Configurations,  \* [version, options, trackDeps, root, partial, allow]
    Trees,           \* [tree -> [path -> a file, or a link and the packages below it]]
    Commits,         \* [commit -> its tree]
    Scopes,          \* sets of modifiedFilepaths, {} for a full query
    Litter,          \* files that builds and people leave untracked
    MaxStored        \* bound: entries in the cache

Options == {"version", "options", "trackDeps", "root", "partial", "allow"}

BuildNames == {"BUILD", "BUILD.bazel"}

Paths == Seq(BuildNames \cup STRING)

Parent(path) == SubSeq(path, 1, Len(path) - 1)

FileName(path) == path[Len(path)]

\* Path::starts_with, of a path itself too.
IsAncestor(path, other) == Len(path) <= Len(other) /\ SubSeq(other, 1, Len(path)) = path

\* A path git or a build can name is not empty; each commit has its tree.
ASSUME CacheEntriesAssumption ==
    /\ \A c \in Configurations :
          DOMAIN c = Options /\ c.partial \in BOOLEAN /\ c.allow \in BOOLEAN
    /\ \A commit \in DOMAIN Commits : Commits[commit] \in DOMAIN Trees
    /\ \A t \in DOMAIN Trees :
          /\ DOMAIN Trees[t] \subseteq Paths \ {<<>>}
          /\ \A p \in DOMAIN Trees[t] : Trees[t][p].kind # "file" => Trees[t][p].packages \subseteq Paths
    /\ Litter \subseteq Paths \ {<<>>}

VARIABLE
    store            \* the cache, the servers and the last answer, or Idle

NoReply == [kind |-> "none"]

StoreInit ==
    store \in {[entries |-> <<>>, config |-> c, litter |-> [s \in Servers |-> {}],
                reply |-> NoReply] : c \in [Servers -> Configurations]}

\* Whatever changes the hashes is in the digest, as is the form of the entry.
\* The two late options are added only when they are set.
ConfigurationFingerprint(c) ==
    <<c.version, c.options, c.trackDeps>>
    \o (IF c.root = "" THEN <<>> ELSE <<"isolatedDependencyRoot", c.root>>)
    \o (IF c.partial THEN <<"partialGraph", "version">> ELSE <<>>)

MutantCacheKey(tree, fingerprint, modified) == <<tree, fingerprint>>

\* A scoped entry has a third part.
CacheKey(tree, fingerprint, modified) ==
    IF modified = {} THEN <<tree, fingerprint>> ELSE <<tree, fingerprint, modified>>

Plain(tree) == {p \in DOMAIN tree : tree[p].kind = "file"}

Links(tree) == DOMAIN tree \ Plain(tree)

\* Bazel loads what is in the working tree, through links and submodules, and
\* the packages of external repositories.  A BUILD file may be a link itself.
Loaded(tree, litter) ==
    {[main |-> TRUE, package |-> Parent(p)] :
        p \in {q \in DOMAIN tree \cup litter : FileName(q) \in BuildNames}}
    \cup (UNION {{[main |-> TRUE, package |-> p \o d] : d \in tree[p].packages} : p \in Links(tree)})
    \cup {[main |-> FALSE, package |-> <<"bzl">>]}

\* The package or a directory above it is a symlink or a submodule, whose
\* contents ls-tree does not list.
BelowLink(package, tree) == \E p \in Links(tree) : p # <<>> /\ IsAncestor(p, package)

MutantUntracked(labels, tree) ==
    {l.package : l \in {k \in labels :
        k.main /\ ~BelowLink(k.package, tree) /\ \A p \in DOMAIN tree : ~IsAncestor(k.package, p)}}

UntrackedPackages(labels, tree) ==
    {l.package : l \in {k \in labels :
        /\ k.main
        /\ \A n \in BuildNames : Append(k.package, n) \notin DOMAIN tree
        /\ ~BelowLink(k.package, tree)}}

\* What checkout --force leaves of the untracked files.
Left(s, commit) == store.litter[s] \ DOMAIN Trees[Commits[commit]]

Reply(s, commit, modified, entry) ==
    [kind |-> "served", commit |-> commit, config |-> store.config[s], modified |-> modified,
     entry |-> entry]

\* get_hashes_locked finds the entry under the key.
Hit(s, commit, modified) ==
    LET key == CacheKey(Commits[commit], ConfigurationFingerprint(store.config[s]), modified)
    IN  /\ key \in DOMAIN store.entries
        /\ store' = [store EXCEPT !.reply = Reply(s, commit, modified, store.entries[key])]

\* Or it checks the revision out and generates.  A full generation that
\* loaded a package the revision does not track is refused, not cached.
Generate(s, commit, modified) ==
    LET c == store.config[s]
        tree == Trees[Commits[commit]]
        key == CacheKey(Commits[commit], ConfigurationFingerprint(c), modified)
        labels == Loaded(tree, Left(s, commit))
        entry == [tree |-> Commits[commit], made |-> c, modified |-> modified, labels |-> labels]
        refused == modified = {} /\ UntrackedPackages(labels, tree) # {} /\ ~c.allow
    IN  /\ key \notin DOMAIN store.entries
        /\ Cardinality(DOMAIN store.entries) < MaxStored
        /\ \/ /\ refused
              /\ store' = [store EXCEPT !.litter[s] = Left(s, commit),
                               !.reply = [kind |-> "refused", server |-> s, commit |-> commit]]
           \/ /\ ~refused
              /\ store' = [store EXCEPT !.litter[s] = Left(s, commit),
                               !.entries = [k \in DOMAIN @ \cup {key} |->
                                               IF k = key THEN entry ELSE @[k]],
                               !.reply = Reply(s, commit, modified, entry)]

\* A build or a person leaves a file in a workspace; someone cleans it.
LeaveFile(s, p) ==
    store' = [store EXCEPT !.litter[s] = @ \cup {p}, !.reply = NoReply]

Clean(s) ==
    store.litter[s] # {} /\ store' = [store EXCEPT !.litter[s] = {}, !.reply = NoReply]

Restart(s, c) ==
    store.config[s] # c /\ store' = [store EXCEPT !.config[s] = c, !.reply = NoReply]

StoreNext ==
    /\ store # Idle
    /\ \E s \in Servers :
          \/ \E commit \in DOMAIN Commits, modified \in Scopes :
                Hit(s, commit, modified) \/ Generate(s, commit, modified)
          \/ \E p \in Litter : LeaveFile(s, p)
          \/ Clean(s)
          \/ \E c \in Configurations : Restart(s, c)

StoreSpec == StoreInit /\ [][StoreNext]_store

-----------------------------------------------------------------------------
(* Properties                                                              *)

\* cache_key: whatever servers with other options, modes and scopes put into
\* the cache before, the entry a query is served was generated from the tree
\* of its commit, for its modifiedFilepaths, under every option that changes
\* the hashes.
ServedAsAsked ==
    store # Idle /\ store.reply.kind = "served" =>
        LET e == store.reply.entry
            c == store.reply.config
        IN  /\ e.tree = Commits[store.reply.commit]
            /\ e.modified = store.reply.modified
            /\ \A option \in DOMAIN c \ {"allow"} : e.made[option] = c[option]

\* check_tracked_packages: a full entry of a server that does not allow
\* untracked packages names the packages a fresh clone of the revision has,
\* apart from those inside a symlink or a submodule.
CachedPackagesTracked ==
    store # Idle => \A key \in DOMAIN store.entries :
        LET e == store.entries[key]
            fresh == Loaded(Trees[e.tree], {})
        IN  e.modified = {} /\ ~e.made.allow =>
                /\ fresh \subseteq e.labels
                /\ \A l \in e.labels \ fresh :
                      \E p \in Links(Trees[e.tree]) : IsAncestor(p, l.package)

\* A query is refused only over a BUILD file that is in the workspace and not
\* in the revision.
CleanTreeNotRefused ==
    store # Idle /\ store.reply.kind = "refused" =>
        \E p \in Left(store.reply.server, store.reply.commit) : FileName(p) \in BuildNames

\* check_tracked_packages refuses exactly the generations that loaded a package
\* a fresh clone of the revision would not have.
PackagesTracked == CachedPackagesTracked /\ CleanTreeNotRefused
=============================================================================
