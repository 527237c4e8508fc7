---------------------------- MODULE MCCacheTiers ----------------------------
(* Instances of what is kept between runs: the memory tier, the shared tier, *)
(* the entries a cache may hold and the files of a snapshot.  One of them is *)
(* under study in each behaviour, the others are Idle.                       *)
EXTENDS MemoryCache, SharedTier, CacheEntries, Snapshot

tierVars == <<memoryVars, shared, store, snapshot>>

TiersInit ==
    /\ MemoryInit
    /\ \/ shared = Idle /\ store = Idle /\ snapshot = Idle
       \/ SharedInit /\ store = Idle /\ snapshot = Idle
       \/ shared = Idle /\ StoreInit /\ snapshot = Idle
       \/ shared = Idle /\ store = Idle /\ SnapshotInit

TiersNext ==
    \/ /\ <<shared, store, snapshot>> = <<Idle, Idle, Idle>>
       /\ MemoryNext /\ UNCHANGED <<shared, store, snapshot>>
    \/ SharedNext /\ UNCHANGED <<memoryVars, store, snapshot>>
    \/ StoreNext /\ UNCHANGED <<memoryVars, shared, snapshot>>
    \/ SnapshotNext /\ UNCHANGED <<memoryVars, shared, store>>

TiersSpec == TiersInit /\ [][TiersNext]_tierVars

-----------------------------------------------------------------------------
(* The shared tier: every store, one that may not replace an object, a       *)
(* server whose client cannot be built, and none at all.                     *)
MCDeployments ==
    {[flags |-> f, fault |-> p, redeploy |-> TRUE] :
        f \in {{}, {"s3"}, {"gcs"}, {"nexusUrl", "nexusRepository"}}, p \in {"none", "credentials"}}
    \cup {[flags |-> {"nexusUrl", "nexusRepository"}, fault |-> p, redeploy |-> FALSE] :
            p \in {"none", "url"}}

-----------------------------------------------------------------------------
(* Two trees, one of them of two commits.  A package and a plain directory,  *)
(* which becomes a package in the second tree; a symlink and a submodule     *)
(* with packages in them; a BUILD file that is a symlink; BUILD files left   *)
(* in the directory, beside the package's own and in the submodule.          *)
tFile == [kind |-> "file"]

tCommon == (<<"BUILD">> :> tFile) @@ (<<"lib", "BUILD.bazel">> :> tFile)

MCTrees ==
    "t1" :> (tCommon @@ (<<"lib", "src", "x.c">> :> tFile)
             @@ (<<"link">> :> [kind |-> "symlink", packages |-> {<<>>, <<"deep">>}])
             @@ (<<"tool", "BUILD">> :> [kind |-> "symlink", packages |-> {}]))
    @@ "t2" :> (tCommon @@ (<<"lib", "src", "BUILD">> :> tFile)
                @@ (<<"sub", "mod">> :> [kind |-> "submodule", packages |-> {<<"in">>}]))

MCCommits == "c1" :> "t1" @@ "c2" :> "t2" @@ "amended" :> "t1"

MCScopes == {{}, {"x.c"}}

MCLitter == {<<"lib", "src", "BUILD">>, <<"lib", "BUILD">>, <<"sub", "mod", "old", "BUILD">>}

tBase == [version |-> "1", options |-> "o", trackDeps |-> FALSE, root |-> "", partial |-> FALSE,
          allow |-> FALSE]

MCConfigurations ==
    {tBase, [tBase EXCEPT !.partial = TRUE], [tBase EXCEPT !.allow = TRUE],
     [tBase EXCEPT !.root = "r"], [tBase EXCEPT !.options = "p"]}

-----------------------------------------------------------------------------
(* Environments that differ from one in one part, an import that cannot be   *)
(* read included.                                                            *)
tRc(root, imported) == ".bazelrc" :> root @@ "ci.bazelrc" :> imported

MCImports == "plain" :> {} @@ "imports" :> {"ci.bazelrc"}

tEnv == [tool |-> "1", bazel |-> "7", lock |-> "l", rc |-> tRc("imports", "x"),
         flags |-> [listed |-> "f", other |-> "o"]]

MCEnvironments ==
    {tEnv, [tEnv EXCEPT !.tool = "2"], [tEnv EXCEPT !.bazel = "8"], [tEnv EXCEPT !.flags.listed = "g"],
     [tEnv EXCEPT !.flags.other = "p"]}
    \cup {[tEnv EXCEPT !.lock = l] : l \in {Missing, ""}}
    \cup {[tEnv EXCEPT !.rc = r] : r \in {tRc(Missing, Missing), tRc("plain", Missing),
                                          tRc("imports", Missing), tRc("imports", "y")}}
=============================================================================
