----------------------------- MODULE MCGeneration -----------------------------
(* Small instances of the stages of `generate-hashes`. A behaviour is one   *)
(* stage's: the workspaces, answers and edits that make each stage hard     *)
(* differ, so each is explored over its own inputs.                         *)
EXTENDS ModRepos, TargetQuery, RepositoryGraph, RepositoryDefinitions, ConfiguredTargets,
        SourceDigests, ExternalResolver

-------------------------------------------------------------------------------
(* ModRepos: three extension repositories, a module and a hidden module     *)
(* key; two names fit an invocation, and one is longer than the limit.      *)

MCRequested == <<"e1", "e2", "e3", "mod", "key">>

MCBytes == [r \in Range(MCRequested) |-> IF r = "mod" THEN 5 ELSE 2]

-------------------------------------------------------------------------------
(* TargetQuery: a main package and a fine-grained repository that read an   *)
(* isolated usage of a hub and a spoke, in every combination of labels and  *)
(* loads; catalogs that disagree with the inventory; and the plain command  *)
(* lines.                                                                   *)

qUsage == <<"rules", "crate", "pinned">>
qHub == [prefix |-> qUsage, name |-> "hub"]
qSpoke == [prefix |-> qUsage, name |-> "spoke"]
qExt == [prefix |-> <<>>, name |-> "ext"]
qOther == [prefix |-> <<"rules", "crate", "">>, name |-> "o"]
qRival == [prefix |-> <<"more", "crate", "pinned">>, name |-> "r"]

QLabel(form, repo, package, target) ==
    [form |-> form, repo |-> repo, package |-> package, target |-> target]

InApp(t) == QLabel("main", "", "app", t)
InHub(f, t) == QLabel(f, IF f = "apparent" THEN "hub" ELSE qHub, "", t)
InExt(f, t) == QLabel(f, IF f = "apparent" THEN "ext" ELSE qExt, "p", t)
InSpoke(t) == QLabel("canonical", qSpoke, "", t)

QRule(label, inputs) == [kind |-> "rule", label |-> label, inputs |-> inputs, loads |-> {}]
QSource(label, loads) == [kind |-> "source", label |-> label, inputs |-> {}, loads |-> loads]
QNode(name) == QRule(QLabel("external", name, "", ""), {})

\* One record of app/BUILD per file it loads: a query may write several.
QGraph(f, inputs, loads, exported, extReads, chain) ==
    (IF loads = {} THEN {QSource(InApp("BUILD"), {})} ELSE {QSource(InApp("BUILD"), {l}) : l \in loads})
    \cup {QRule(InApp("bin"), inputs \cup {InApp("src")}), QSource(InApp("src"), {}),
          QRule(InApp("lib"), {}),
          QRule(InExt(f, "r"), IF extReads = "label" THEN {InSpoke("lib")} ELSE {}),
          QSource(InExt(f, "BUILD"), IF extReads = "load" THEN {InSpoke("x.bzl")} ELSE {}),
          QRule(InHub(f, "lib"), IF exported THEN {InSpoke("lib")} ELSE {}),
          QSource(InHub(f, "BUILD"), {InHub(f, "defs.bzl")}), QSource(InHub(f, "defs.bzl"), {}),
          QRule(InSpoke("lib"), {InSpoke("src")} \cup (IF chain THEN {InSpoke("deep")} ELSE {})),
          QRule(InSpoke("deep"), {}), QSource(InSpoke("src"), {}),
          QSource(InSpoke("BUILD"), {}), QSource(InSpoke("x.bzl"), {})}

QRow(repo, labels) == [repo |-> repo, original |-> repo.name, labels |-> labels, typed |-> TRUE]

qCatalog == <<QRow(qHub, {InSpoke("src")}), QRow(qSpoke, {InApp("src")}), QRow(qOther, {})>>

qCatalogs ==
    {qCatalog,
     <<qCatalog[1], qCatalog[3]>>,
     <<qCatalog[1], qCatalog[2], qCatalog[2]>>,
     <<qCatalog[1], qCatalog[2], QRow(qOther, {InSpoke("src")})>>,
     <<[qCatalog[1] EXCEPT !.original = "other"], qCatalog[2]>>,
     <<[qCatalog[1] EXCEPT !.typed = FALSE], qCatalog[2]>>,
     <<QRow(qHub, {InHub("apparent", "lib")}), qCatalog[2]>>}

qRequest ==
    [anchor |-> "hub", mapping |-> ("hub" :> qHub) @@ ("ext" :> qExt),
     imported |-> {qHub, qOther}, generated |-> {qHub, qSpoke, qOther}, catalog |-> qCatalog,
     graph |-> QGraph("apparent", {}, {}, TRUE, "no", FALSE), fine |-> {qExt},
     excluded |-> {}, incompatible |-> {}, nodes |-> {QNode("hub"), QNode("ext")},
     legacy |-> {QNode("legacy"), [QNode("ext") EXCEPT !.inputs = {InApp("src")}]},
     external |-> FALSE, excludeExternal |-> FALSE, isolated |-> TRUE, keepGoing |-> FALSE,
     useCquery |-> FALSE, version |-> "supported"]

qReaders ==
    UNION {{[qRequest EXCEPT !.graph = QGraph(f, i, l, e, x, c[1]), !.keepGoing = f = "apparent",
                             !.excluded = {Denoted(qRequest, t) : t \in c[2]}] :
            i \in SUBSET {InHub(f, "lib"), InSpoke("lib")},
            l \in {{}, {InSpoke("x.bzl")}, {InHub(f, "defs.bzl"), InSpoke("x.bzl")}},
            e \in BOOLEAN, x \in {"no", "label", "load"},
            c \in {<<TRUE, {}>>, <<TRUE, {InSpoke("deep")}>>, <<FALSE, {InSpoke("x.bzl")}>>}} :
           f \in {"apparent", "canonical"}}

qRoots ==
    {[qRequest EXCEPT !.catalog = c, !.imported = i, !.generated = g] :
        c \in qCatalogs, i \in {{qHub, qOther}, {qOther}, {qHub, qSpoke}, {qHub, qRival}},
        g \in {{qHub, qSpoke, qOther}, {qHub, qOther}}}
    \cup {[qRequest EXCEPT !.anchor = "ext"], [qRequest EXCEPT !.anchor = "nowhere"],
          [qRequest EXCEPT !.useCquery = TRUE]}

qPlain ==
    {[qRequest EXCEPT !.isolated = FALSE, !.keepGoing = k, !.useCquery = q, !.excludeExternal = x,
                      !.external = e, !.version = v, !.excluded = z, !.incompatible = n] :
        k \in BOOLEAN, q \in BOOLEAN, x \in BOOLEAN, e \in BOOLEAN, v \in {"supported", "old"},
        z \in {{}, {Denoted(qRequest, InApp("lib"))}}, n \in {{}, {Denoted(qRequest, InApp("bin"))}}}

MCRequests == qReaders \cup qRoots \cup qPlain

-------------------------------------------------------------------------------
(* RepositoryGraph: three modules with every set of edges among them, a hub *)
(* and its spoke, a tool of another extension, a use_repo_rule repository.  *)

gOwner == <<"a", "">>
gHub == <<"a", "", "x", "hub">>
gSpoke == <<"a", "", "x", "spoke">>
gTool == <<"a", "", "y", "tool">>
gDep == <<"", "_repo_rules", "dep">>
gNumbered == <<"a", "", "x2", "hub2">>

gViews ==
    {[map |-> ("a" :> gOwner) @@ ("b" :> <<"b", "">>) @@ ("hub" :> gHub) @@ ("dep" :> gDep),
      imports |-> (<<"c", "">> :> {gTool}), gone |-> {}, second |-> {}],
     [map |-> ("a" :> gOwner) @@ ("hub" :> gHub) @@ ("h2" :> gHub) @@ ("cc" :> <<"c", "">>),
      imports |-> (<<"c", "">> :> {gTool}), gone |-> {gTool}, second |-> {}],
     [map |-> ("b" :> <<"b", "">>) @@ ("dep" :> gDep),
      imports |-> (gOwner :> {gHub}) @@ (<<"b", "">> :> {gTool}), gone |-> {}, second |-> {}],
     [map |-> ("a" :> gOwner) @@ ("hub" :> gHub) @@ ("hub2" :> gNumbered),
      imports |-> <<>>, gone |-> {}, second |-> {<<"b", "2">>}]}

GLabel(w, c, t) ==
    IF ~w.useCquery /\ c \in Range(w.mapping)
    THEN [at |-> 1, repo |-> <<CHOOSE n \in DOMAIN w.mapping : w.mapping[n] = c>>, view |-> <<>>, target |-> t]
    ELSE [at |-> 2, repo |-> c, view |-> <<>>, target |-> t]

\* A main rule for each repository, and the rules of the fine-grained ones.
GRules(w) ==
    {[key |-> [at |-> 3, repo |-> c, view |-> <<>>, target |-> "m"], inputs |-> {GLabel(w, c, "t")}] :
        c \in Described(w)}
    \cup {[key |-> GLabel(w, c, "t"),
           inputs |-> {GLabel(w, d, "t") : d \in {gOwner} \cup ({gSpoke} \ (w.unavailable \cup {c}))}] :
          c \in {Repository(w, f) : f \in w.fine}}

GModule(n) == <<n, "1">>

gWorkspaces ==
    {[modules |-> {GModule("a"), GModule("b"), GModule("c"), GModule("platforms")} \cup v.second,
      edges |-> e \cup {<<GModule("b"), GModule("platforms")>>} \cup {<<GModule("c"), m>> : m \in v.second},
      mapping |-> v.map, imports |-> v.imports, derived |-> o = "hubs", unavailable |-> v.gone,
      extensionRepos |-> {gHub, gSpoke, gTool, gDep, gNumbered}, useCquery |-> q,
      labelOnly |-> l, exempt |-> x, fine |-> f, order |-> o, rules |-> {}] :
        e \in SUBSET {<<GModule("a"), GModule("b")>>, <<GModule("b"), GModule("c")>>, <<GModule("c"), GModule("a")>>},
        v \in gViews, q \in BOOLEAN,
        l \in {{}, {[at |-> 1, repo |-> <<"a">>, name |-> "x"]}, {[at |-> 2, repo |-> gOwner, name |-> "x"]}},
        x \in {{}, {gHub, gSpoke}},
        f \in {{}, {[at |-> 2, repo |-> gSpoke]}, {[at |-> 2, repo |-> gHub], [at |-> 2, repo |-> gSpoke]},
               {[at |-> 1, repo |-> <<"hub">>]}},
        o \in {"hubs", "other"}}

MCWorlds ==
    {[w EXCEPT !.rules = GRules(w)] :
        w \in {v \in gWorkspaces : \A f \in v.fine : f.at = 1 => f.repo[1] \in DOMAIN v.mapping}}

MCNumbered == {<<"x", "x2">>}

-------------------------------------------------------------------------------
(* RepositoryDefinitions: archives with and without checksums, patches, a   *)
(* registry inside the checkout, local and Go repositories by path.         *)

DValue(v) == [scheme |-> "", base |-> v, rest |-> <<>>]
DUrl(h) == [scheme |-> "https://", base |-> h, rest |-> <<"x">>]
DPath(s, b, r) == [scheme |-> s, base |-> b, rest |-> r]
dPatch == [scheme |-> "//", base |-> "", rest |-> <<"p.patch">>]
DStrings(s) == [strings |-> s, dict |-> <<>>, listDict |-> <<>>]
DDict(d) == [strings |-> <<>>, dict |-> d, listDict |-> <<>>]
DLists(d) == [strings |-> <<>>, dict |-> <<>>, listDict |-> d]
DEntry(k, v) == [key |-> k, value |-> v]

MCCheckouts == {[given |-> "/w1", resolved |-> "/r1"], [given |-> "/w2", resolved |-> "/r2"]}

MCAlternatives ==
    ("sha256" :> {DStrings(<<EmptyValue>>), DStrings(<<DValue("s1")>>)})
    @@ ("urls" :> {DStrings(<<DUrl("h1")>>), DStrings(<<DUrl("h2")>>)})
    @@ ("remote_patches" :>
          {DDict(<<DEntry(DUrl("h1"), DValue("p1")), DEntry(DUrl("h2"), DValue("p2"))>>),
           DDict(<<DEntry(DUrl("h1"), DValue("p2")), DEntry(DUrl("h2"), DValue("p1"))>>),
           DDict(<<DEntry(DUrl("h1"), EmptyValue)>>), DDict(<<DEntry(DUrl("h2"), EmptyValue)>>)})
    @@ ("remote_file_urls" :>
          {DLists(<<DEntry(DValue("f"), <<DUrl("h1")>>)>>), DLists(<<DEntry(DValue("f"), <<DUrl("h2")>>)>>)})
    @@ ("remote_file_integrity" :>
          {DDict(<<DEntry(DValue("f"), DValue("i1"))>>), DDict(<<DEntry(DValue("f"), EmptyValue)>>)})
    @@ ("remote_module_file_urls" :> {DStrings(<<DUrl("h1")>>), DStrings(<<DUrl("h2")>>)})
    @@ ("remote_module_file_integrity" :> {DStrings(<<EmptyValue>>), DStrings(<<DValue("m1")>>)})
    @@ ("patches" :> {DStrings(<<dPatch>>), DStrings(<<>>)})
    @@ ("local_path" :> {DStrings(<<DPath("", "given", p)>>) :
                           p \in {<<"go", "..", "lib">>, <<"..", "lib">>, <<"out", "lib">>}})

MCRepositories ==
    {[rule |-> "http_archive",
      attrs |-> ("remote_patches" :> DDict(<<DEntry(DUrl("h1"), EmptyValue)>>))
                @@ ("sha256" :> DStrings(<<EmptyValue>>)) @@ ("urls" :> DStrings(<<DUrl("h1")>>))],
     [rule |-> "http_archive",
      attrs |-> ("sha256" :> DStrings(<<DValue("s1")>>)) @@ ("urls" :> DStrings(<<DUrl("h1")>>))
                @@ ("remote_patches" :>
                      DDict(<<DEntry(DUrl("h1"), DValue("p1")), DEntry(DUrl("h2"), DValue("p2"))>>))
                @@ ("remote_file_urls" :> DLists(<<DEntry(DValue("f"), <<DUrl("h1")>>)>>))
                @@ ("remote_file_integrity" :> DDict(<<DEntry(DValue("f"), DValue("i1"))>>))
                @@ ("remote_module_file_urls" :> DStrings(<<DPath("file://", "resolved", <<"registry">>)>>))
                @@ ("remote_module_file_integrity" :> DStrings(<<DValue("m1")>>))
                @@ ("patches" :> DStrings(<<dPatch>>))],
     [rule |-> "local_repository", attrs |-> ("path" :> DStrings(<<DPath("", "", <<"vendor", "lib">>)>>))],
     [rule |-> "local_repository", attrs |-> ("path" :> DStrings(<<DPath("", "given", <<"vendor", "lib">>)>>))]}
    \cup {[rule |-> "go_repository",
           attrs |-> ("urls" :> DStrings(<<DUrl("h1")>>)) @@ ("local_path" :> DStrings(<<DPath("", "given", p)>>))] :
          p \in {<<"lib">>, <<"..", "lib">>, <<"out", "lib">>}}

MCFiles ==
    (<<"p.patch">> :> "c1") @@ (<<"vendor", "lib", "BUILD">> :> "c1")
    @@ (<<"vendor", "lib", "MODULE.bazel.lock">> :> "c1")

MCOutsideLinks == <<"out">> :> "/else"

-------------------------------------------------------------------------------
(* ConfiguredTargets: two rules in two configurations, a source, a          *)
(* generated file, an environment group and a package group, with every set *)
(* of edges that closes a cycle across the configurations.                  *)

CResult(label, kind, id, inline, inputs) ==
    [label |-> label, kind |-> kind, id |-> id, inline |-> inline, inputs |-> inputs,
     groups |-> {}, generating |-> ""]

MCConfigured ==
    {[table |-> (1 :> "x") @@ (2 :> "y"),
      results |->
        {CResult("a", "rule", 1, IF absent THEN "x" ELSE "", {Key("b", "x")} \cup ({Key("s", "")} \cap e)),
         CResult("a", "rule", 2, "", {Key("b", "y"), Key("s", "")} \cap e),
         [CResult("b", "rule", 1, "", {Key("a", "y"), Key("g", "y")} \cap e) EXCEPT !.groups = {"pg", "none"}],
         CResult("s", "source", 0, "null", {}), CResult("pg", "package_group", 0, "", {}),
         CResult("env", "environment_group", 0, "", {}),
         [CResult("g", "generated", 2, "", {}) EXCEPT !.generating = "a"]}
        \cup (IF absent THEN {} ELSE {CResult("b", "rule", 2, "", {})})] :
        e \in SUBSET {Key("s", ""), Key("b", "y"), Key("a", "y"), Key("g", "y")}, absent \in BOOLEAN}

-------------------------------------------------------------------------------
(* SourceDigests: a file, a directory, a .bzl and two seeds.                *)

SFile(c, e) == [content |-> c, executable |-> e]

SSource(path, read, seed) == [path |-> path, read |-> read, seed |-> seed, package |-> "p"]

MCLayouts ==
    {[files |-> (<<"a">> :> SFile("1", FALSE)) @@ (<<"d", "x">> :> SFile("1", FALSE))
                @@ (<<"d", "y">> :> SFile("1", TRUE)) @@ (<<"b.bzl">> :> SFile("1", FALSE))
                @@ (<<"seed">> :> SFile("1", FALSE)) @@ (<<"soft">> :> SFile("1", FALSE))
                @@ (<<"other">> :> SFile("1", FALSE)),
      untracked |-> u,
      sources |-> {SSource(<<"a">>, TRUE, {<<"b.bzl">>, <<"gone.bzl">>}), SSource(<<"d">>, TRUE, {}),
                   SSource(<<"external", "r", "f">>, FALSE, {}), SSource(<<"missing">>, TRUE, {})},
      rule |-> [package |-> "p", stack |-> {<<"b.bzl">>, <<"external", "defs.bzl">>},
                soft |-> {<<"soft">>, <<"nosoft">>}],
      seeds |-> s, stacks |-> st] :
        u \in {{}, {<<"a">>}}, s \in {{}, {<<"seed">>}}, st \in BOOLEAN}

MCFileStates == {SFile("1", FALSE), SFile("2", FALSE), SFile("2", TRUE)}

-------------------------------------------------------------------------------
(* ExternalResolver: threads that look up one repository, or different      *)
(* ones, by either name.                                                    *)

rDep == <<"dep">>
rDepCanonical == <<"", "_repo_rules", "dep">>
rTool == <<"tool">>

MCLookups ==
    {[repo |-> r, mapping |-> (rDep :> rDepCanonical) @@ (rTool :> <<"tool", "">>), captured |-> c,
      modWorks |-> m, dirs |-> d, materializes |-> {<<"dep", "">>, rDepCanonical}, fine |-> f, where |-> wh] :
        r \in {("t1" :> rDep) @@ ("t2" :> rDep) @@ ("t3" :> rTool),
               ("t1" :> rDep) @@ ("t2" :> rTool) @@ ("t3" :> rDepCanonical)},
        c \in BOOLEAN, m \in BOOLEAN, d \in {{}, {<<"tool", "">>}},
        f \in {{rDep}, {rDepCanonical}}, wh \in {<<>>, (rDep :> rDepCanonical)}}

-------------------------------------------------------------------------------

stages == <<query, graph, defs, conf, srcs, roots>>

\* ModRepos has read nothing and has nothing left to read.
NoRead ==
    /\ broken = {} /\ missing = {} /\ needed = {}
    /\ steady = TRUE /\ bound = TRUE /\ keepGoing = FALSE
    /\ pc = "end" /\ outcome = "not run"
    /\ chunks = <<>> /\ repos = <<>> /\ pending = <<>> /\ answered = <<>>
    /\ observed = FALSE /\ unavailable = {}

GenerationInit ==
    \/ Init /\ query = Idle /\ graph = Idle /\ defs = Idle /\ conf = Idle /\ srcs = Idle /\ roots = Idle
    \/ NoRead /\ QueryInit /\ graph = Idle /\ defs = Idle /\ conf = Idle /\ srcs = Idle /\ roots = Idle
    \/ NoRead /\ GraphInit /\ query = Idle /\ defs = Idle /\ conf = Idle /\ srcs = Idle /\ roots = Idle
    \/ NoRead /\ DefinitionsInit /\ query = Idle /\ graph = Idle /\ conf = Idle /\ srcs = Idle /\ roots = Idle
    \/ NoRead /\ ConfInit /\ query = Idle /\ graph = Idle /\ defs = Idle /\ srcs = Idle /\ roots = Idle
    \/ NoRead /\ SourcesInit /\ query = Idle /\ graph = Idle /\ defs = Idle /\ conf = Idle /\ roots = Idle
    \/ NoRead /\ ResolverInit /\ query = Idle /\ graph = Idle /\ defs = Idle /\ conf = Idle /\ srcs = Idle

GenerationNext ==
    \/ Next /\ UNCHANGED stages
    \/ QueryNext /\ UNCHANGED <<vars, graph, defs, conf, srcs, roots>>
    \/ GraphNext /\ UNCHANGED <<vars, query, defs, conf, srcs, roots>>
    \/ DefinitionsNext /\ UNCHANGED <<vars, query, graph, conf, srcs, roots>>
    \/ ConfNext /\ UNCHANGED <<vars, query, graph, defs, srcs, roots>>
    \/ SourcesNext /\ UNCHANGED <<vars, query, graph, defs, conf, roots>>
    \/ ResolverNext /\ UNCHANGED <<vars, query, graph, defs, conf, srcs>>

GenerationSpec ==
    GenerationInit /\ [][GenerationNext]_<<vars, stages>> /\ WF_vars(Next) /\ ResolverFairness

-------------------------------------------------------------------------------

\* The two stages that can wait for Bazel again and again, the reading of
\* repositories and the resolution of directories, come to an end.
StagesEnd == ReadEnds /\ ResolutionEnds
===============================================================================
