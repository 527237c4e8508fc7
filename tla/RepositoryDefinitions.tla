------------------------ MODULE RepositoryDefinitions ------------------------
(***************************************************************************)
(* What the definition of an external repository hashes to: its attributes *)
(* with the checkout's own path taken out and the URLs a checksum pins     *)
(* dropped, the workspace files its attributes name, and the tree of a     *)
(* local_repository (prepare_repository, repository_rule and               *)
(* repository_definition_hash of src/src/bazel.rs; rule_definition_digest  *)
(* of src/src/hash.rs).  The repository, the files and the checkout change *)
(* between two generations.                                                *)
(*                                                                         *)
(* A value is [scheme, base, rest]: a label ("//"), a path or URL whose    *)
(* base is a root or a host and whose rest is a sequence of components, or *)
(* a plain string (its base).  An attribute has the three kinds of slots   *)
(* of the protocol buffer: strings, a dictionary, a dictionary of lists.   *)
(***************************************************************************)
EXTENDS Stage, Naturals, Sequences, SequencesExt, Functions

CONSTANTS
    Repositories,   \* [rule, attrs]: the repositories at the first generation
    Alternatives,   \* [attribute name -> the values an edit may give it]
    Checkouts,      \* [given, resolved]: the spellings of a workspace root
    Files,          \* [path -> contents]: the files at the first generation
    Contents,       \* what a file may be edited to
    OutsideLinks,   \* [path in the workspace -> where the symlink there leads]
    MaxDefinitionEdits

VARIABLE defs       \* [repo, checkout, files, first, edits]

EmptyValue == [scheme |-> "", base |-> "", rest |-> <<>>]

Roots(checkout) == {checkout.given, checkout.resolved}

-----------------------------------------------------------------------------
(* Paths                                                                   *)

\* Components with ".." taken lexically; <<"..">> once it leaves the root.
Normalized(rest) ==
    FoldLeft(LAMBDA path, part :
                CASE path = <<"..">>              -> path
                  [] part = ".." /\ path = <<>>   -> <<"..">>
                  [] part = ".." /\ path # <<>>   -> Front(path)
                  [] OTHER                        -> Append(path, part),
             <<>>, rest)

MutantStaysInside(rest) == TRUE

\* Never above the root, and not behind a symlink that leads out of it.
StaysInside(rest) ==
    /\ Normalized(rest) # <<"..">>
    /\ ~\E link \in DOMAIN OutsideLinks : IsPrefix(link, Normalized(rest))

WorkspaceRelative(v, checkout) ==
    IF v.scheme \in {"", "file://"} /\ v.base \in Roots(checkout) /\ StaysInside(v.rest)
    THEN [v EXCEPT !.base = "%workspace%"] ELSE v

MapValues(F(_), attribute) ==
    [strings  |-> [i \in DOMAIN attribute.strings |-> F(attribute.strings[i])],
     dict     |-> [i \in DOMAIN attribute.dict |->
                      [key |-> F(attribute.dict[i].key), value |-> F(attribute.dict[i].value)]],
     listDict |-> [i \in DOMAIN attribute.listDict |->
                      [key   |-> F(attribute.listDict[i].key),
                       value |-> [j \in DOMAIN attribute.listDict[i].value |->
                                     F(attribute.listDict[i].value[j])]]]]

NormalizeWorkspaceAttributes(attrs, checkout) ==
    [n \in DOMAIN attrs |-> MapValues(LAMBDA v : WorkspaceRelative(v, checkout), attrs[n])]

-----------------------------------------------------------------------------
(* The files behind a definition                                           *)

\* A dictionary's values are read as labels, its keys are not.
MainRepoLabels(attrs) ==
    {v \in UNION {Range(attrs[n].strings)
                    \cup {e.value : e \in Range(attrs[n].dict)}
                    \cup UNION {Range(e.value) : e \in Range(attrs[n].listDict)} :
                      n \in DOMAIN attrs} : v.scheme = "//"}

\* The contents of the files and directories they name, where they exist.
LocalInputsHash(attrs, files) ==
    [l \in {v \in MainRepoLabels(attrs) : v.rest \in DOMAIN files} |-> files[l.rest]]

\* The tree of a local_repository whose path is in the workspace, the lock
\* file aside.
LocalContentHash(repo, checkout, files) ==
    LET path == repo.attrs["path"].strings[1]
        root == Normalized(path.rest)
    IN  IF repo.rule = "local_repository" /\ path.base \in Roots(checkout) \cup {""}
        THEN [f \in {p \in DOMAIN files : IsPrefix(root, p) /\ Last(p) # "MODULE.bazel.lock"} |->
                files[f]]
        ELSE <<>>

-----------------------------------------------------------------------------
(* The digests                                                             *)

NonEmpty(attrs, n) == n \in DOMAIN attrs /\ \E v \in Range(attrs[n].strings) : v # EmptyValue

PinsDownloadContent(attrs) == NonEmpty(attrs, "sha256") \/ NonEmpty(attrs, "integrity")

PinnedFiles(attrs) ==
    IF "remote_file_integrity" \in DOMAIN attrs
    THEN {e.key : e \in {d \in Range(attrs["remote_file_integrity"].dict) : d.value # EmptyValue}}
    ELSE {}

\* Patches keep their order, the order they apply in.
WithoutIntegrityPinnedUrls(n, attrs) ==
    LET a == attrs[n]
    IN  CASE n = "remote_patches" ->
               [a EXCEPT !.dict = [i \in DOMAIN @ |-> IF @[i].value # EmptyValue
                                                      THEN [@[i] EXCEPT !.key = EmptyValue]
                                                      ELSE @[i]]]
          [] n = "remote_module_file_urls" /\ NonEmpty(attrs, "remote_module_file_integrity") ->
               [a EXCEPT !.strings = <<>>]
          [] n = "remote_file_urls" ->
               [a EXCEPT !.listDict =
                   [i \in DOMAIN @ |-> IF @[i].key \in PinnedFiles(attrs)
                                       THEN [@[i] EXCEPT !.value = <<>>] ELSE @[i]]]
          [] OTHER -> a

HashedAttributes(attrs) ==
    LET names == {n \in DOMAIN attrs : ~(PinsDownloadContent(attrs) /\ n \in {"url", "urls"})}
    IN  [n \in names |-> WithoutIntegrityPinnedUrls(n, attrs)]

\* What a generation reads of a repository before it rewrites its attributes.
PrepareRepository(repo, checkout, files) ==
    [rule   |-> repo.rule,
     attrs  |-> NormalizeWorkspaceAttributes(repo.attrs, checkout),
     tree   |-> LocalContentHash(repo, checkout, files),
     inputs |-> LocalInputsHash(repo.attrs, files)]

\* The digest of the //external rule: file hashes are attributes of its own,
\* generator_location is left out.
RuleDefinitionDigest(prepared) ==
    LET attrs == [n \in DOMAIN prepared.attrs \ {"generator_location"} |-> prepared.attrs[n]]
    IN  [rule |-> prepared.rule, attrs |-> HashedAttributes(attrs),
         contentHash |-> prepared.tree, localInputsHash |-> prepared.inputs]

\* The hash of a module's definition that its extensions' repositories carry.
RepositoryDefinitionHash(prepared) ==
    <<prepared.rule, HashedAttributes(prepared.attrs), prepared.tree, prepared.inputs>>

\* The repository as Bazel describes it in a checkout: a path in the
\* workspace, or a registry there, starts with one spelling of its root.
Shown(d) ==
    [d.repo EXCEPT !.attrs =
        [n \in DOMAIN @ |->
            MapValues(LAMBDA v : IF v.base \in DOMAIN d.checkout
                                 THEN [v EXCEPT !.base = d.checkout[v.base]] ELSE v, @[n])]]

Digests(d) ==
    LET prepared == PrepareRepository(Shown(d), d.checkout, d.files)
    IN  [node |-> RuleDefinitionDigest(prepared), owner |-> RepositoryDefinitionHash(prepared)]

-----------------------------------------------------------------------------
(* Two generations and the edits between them                              *)

\* Where a path leads: a place in the checkout, or one outside it.
Meaning(v, checkout) ==
    LET path  == Normalized(v.rest)
        links == {l \in DOMAIN OutsideLinks : IsPrefix(l, path)}
    IN  IF v.scheme \notin {"", "file://"} \/ v.base \notin Roots(checkout) THEN v
        ELSE IF path = <<"..">> THEN v
        ELSE IF links # {}
             THEN LET l == CHOOSE x \in links : TRUE
                  IN  [scheme |-> v.scheme, base |-> OutsideLinks[l],
                       rest |-> SubSeq(path, Len(l) + 1, Len(path))]
        ELSE [v EXCEPT !.base = "workspace"]

\* What fetching the repository gives: every URL by the content it is pinned
\* to, if any, and the files it reads.
Fetched(d) ==
    LET repo  == Shown(d)
        attrs == [n \in DOMAIN repo.attrs |->
                     MapValues(LAMBDA v : Meaning(v, d.checkout), repo.attrs[n])]
        pinned == PinsDownloadContent(attrs)
        moduleIntegrity == NonEmpty(attrs, "remote_module_file_integrity")
        source(n) ==
            CASE n \in {"url", "urls"} -> IF pinned THEN {} ELSE {attrs[n]}
              [] n = "remote_module_file_urls" -> IF moduleIntegrity THEN {} ELSE {attrs[n]}
              [] n = "remote_patches" ->
                   {<<i, e.value, IF e.value = EmptyValue THEN e.key ELSE EmptyValue>> :
                      <<i, e>> \in {<<j, attrs[n].dict[j]>> : j \in DOMAIN attrs[n].dict}}
              [] n = "remote_file_urls" ->
                   {IF e.key \in PinnedFiles(attrs) THEN <<e.key>> ELSE <<e.key, e.value>> :
                      e \in Range(attrs[n].listDict)}
              [] OTHER -> {attrs[n]}
    IN  [rule  |-> d.repo.rule, from |-> [n \in DOMAIN attrs |-> source(n)],
         tree  |-> LocalContentHash(repo, d.checkout, d.files),
         files |-> {<<l, d.files[l.rest]>> :
                      l \in {v \in MainRepoLabels(attrs) : v.rest \in DOMAIN d.files}}]

DefinitionsInit ==
    \E r \in Repositories, c \in Checkouts :
        LET d == [repo |-> r, checkout |-> c, files |-> Files]
        IN  defs = d @@ [edits |-> 0, first |-> [digests |-> Digests(d), fetched |-> Fetched(d)]]

DefinitionsEditable == defs # Idle /\ defs.edits < MaxDefinitionEdits

EditAttribute ==
    /\ DefinitionsEditable
    /\ \E n \in DOMAIN defs.repo.attrs \cap DOMAIN Alternatives :
         \E a \in Alternatives[n] :
             defs' = [defs EXCEPT !.repo.attrs[n] = a, !.edits = @ + 1]

\* A file's contents change, or it is removed.
EditFile ==
    /\ DefinitionsEditable
    /\ \E p \in DOMAIN defs.files :
         \/ \E c \in Contents : defs' = [defs EXCEPT !.files[p] = c, !.edits = @ + 1]
         \/ defs' = [defs EXCEPT !.files = [q \in DOMAIN @ \ {p} |-> @[q]], !.edits = @ + 1]

\* The same revision in another directory.
MoveCheckout ==
    /\ DefinitionsEditable
    /\ \E c \in Checkouts : defs' = [defs EXCEPT !.checkout = c, !.edits = @ + 1]

DefinitionsNext == EditAttribute \/ EditFile \/ MoveCheckout

-----------------------------------------------------------------------------
(* Properties                                                              *)

\* Two definitions that hash the same fetch the same content: dropping pinned
\* URLs (without_integrity_pinned_urls) and the checkout's path
\* (workspace_relative) never hides a change, whatever edits came between.
SameDigestSameContent ==
    defs # Idle =>
        (Digests(defs).node = defs.first.digests.node => Fetched(defs) = defs.first.fetched)

\* Whether an attribute names a place in the checkout's root that is not in it.
LeavesCheckout(d) ==
    \E n \in DOMAIN d.repo.attrs : \E v \in Range(d.repo.attrs[n].strings) :
        v.base \in DOMAIN d.checkout /\ ~StaysInside(v.rest)

\* "Identical checkouts at different paths" and mirrors of pinned content hash
\* the same: where the content is the same, so is the hash, unless the
\* definition names a place outside the checkout by way of the checkout.
SameContentSameDigest ==
    defs # Idle =>
        (Fetched(defs) = defs.first.fetched /\ ~LeavesCheckout(defs)
            => Digests(defs).node = defs.first.digests.node)

\* The repositories of a module's extensions see its definition change exactly
\* when its own node does: repository_definition_hash and
\* rule_definition_digest, separate code, agree on what a definition is.
OwnerHashFollowsNode ==
    defs # Idle =>
        (Digests(defs).node = defs.first.digests.node
            <=> Digests(defs).owner = defs.first.digests.owner)

\* The digests of a definition move exactly when what it fetches does, in the
\* two places that compute them alike.
DefinitionsFaithful == SameDigestSameContent /\ SameContentSameDigest /\ OwnerHashFollowsNode
=============================================================================
