--------------------------- MODULE MCPartialGraph ---------------------------
(* A package with a rule over a source and a directory, a rule over a file  *)
(* the query does not list and over the repository `vendor` in the          *)
(* workspace, and a generated file.  Editing BUILD closes a cycle, editing  *)
(* the lock file or a vendored file changes what Bazel loads.               *)
EXTENDS PartialGraph

File(c) == [object |-> c, kind |-> "file"]
Symlink == [object |-> 1, kind |-> "symlink"]

Label(rank, pkg, name) == [rank |-> rank, pkg |-> pkg, name |-> name, external |-> FALSE]

BuildFile == <<"BUILD">>
Bzl == <<"defs.bzl">>
ModuleFile == <<"MODULE.bazel">>
Lock == <<"lock", "lock">>
Vendored == <<"vendor", "f">>
Seed == <<"seed">>
DataFile == <<"data", "x">>

a == Label(1, <<>>, <<"a">>)
data == Label(2, <<>>, <<"data">>)
gen == Label(3, <<>>, <<"gen">>)
main == Label(4, <<>>, <<"main">>)
lib == Label(5, <<>>, <<"lib">>)
soft == Label(6, <<>>, <<"soft">>)
bzl == Label(7, <<>>, Bzl)
repo == [rank |-> 8, pkg |-> <<"external">>, name |-> <<"repo">>, external |-> FALSE]

MCBase == [p \in {BuildFile, Bzl, ModuleFile, Lock, Vendored, Seed,
               DataFile, <<"a">>, <<"soft">>, <<"notes">>,
               <<"forced">>}
             |-> File(1)]

At(tree, p) == IF p \in DOMAIN tree THEN tree[p] ELSE None

MCLoad(tree) ==
    LET build == At(tree, BuildFile) IN
    [targets |-> (a :> "SourceFile") @@ (data :> "SourceFile") @@ (gen :> "GeneratedFile")
                   @@ (main :> "Rule") @@ (lib :> "Rule") @@ (repo :> "Rule"),
     rules |-> (main :> [definition |-> build, stack |-> {}, inputs |-> <<a, gen>>])
            @@ (lib :> [definition |-> build, stack |-> {},
                        inputs |-> IF build = File(2) THEN <<data, main, repo, soft>>
                                   ELSE <<data, repo, soft>>])
            @@ (repo :> [definition |-> <<IF At(tree, ModuleFile) = File(1) THEN At(tree, Lock) ELSE None,
                                         Restrict(tree, Under(tree, <<"vendor">>))>>,
                         stack |-> {}, inputs |-> <<>>]),
     generated |-> gen :> lib,
     subincludes |-> (a :> <<bzl>>) @@ (data :> <<>>),
     repositories |-> {[local |-> TRUE, path |-> <<".", "x", "..", "vendor">>, labels |-> {}],
                       [local |-> TRUE, path |-> <<"..", "elsewhere">>, labels |-> {}]},
     markers |-> {}]

MCLoadingNames == {"BUILD", "defs.bzl", "MODULE.bazel"}
MCSeeds == {Seed}
MCPatterns == {<<"forced">>}
MCOwnFile == <<"hashes.json">>

MCLiterals(f, content) ==
    IF content = 1 THEN {[pkg |-> <<"lock">>, name |-> <<>>], [pkg |-> <<>>, name |-> <<>>]} ELSE {}

MCEntries ==
    (BuildFile :> {File(2), Symlink}) @@ (Bzl :> {File(2)}) @@ (ModuleFile :> {File(2)})
    @@ (Lock :> {File(2)})
    @@ (Vendored :> {File(2), None}) @@ (Seed :> {File(2)})
    @@ (DataFile :> {File(2), None})
    @@ (<<"a">> :> {File(1), File(2), [object |-> 1, kind |-> "executable"]})
    @@ (<<"soft">> :> {File(2), None, Symlink}) @@ (<<"notes">> :> {File(2)})
    @@ (<<"forced">> :> {File(2)})
=============================================================================
