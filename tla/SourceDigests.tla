---------------------------- MODULE SourceDigests ----------------------------
(***************************************************************************)
(* What the sources, the .bzl files and the seed files of a workspace      *)
(* contribute to the hashes of a rule (SourceHasher, rule_bzl_seed,        *)
(* package_bzl_seeds and hash_seed_files of src/src/hash.rs), in the three *)
(* ways they are read: from disk, from the blob hashes Git has for the     *)
(* tracked files (serve), and from disk with everything outside            *)
(* --modified-filepaths taken as unchanged.                                *)
(*                                                                         *)
(* A path is a sequence of components; files maps it to [content,          *)
(* executable]; a directory is a proper prefix of some path.               *)
(***************************************************************************)
EXTENDS Stage, Naturals, Sequences, FiniteSets, Functions

CONSTANTS
    Layouts,       \* [files, untracked, sources, rule, seeds, stacks]
    FileStates,    \* what an edit may turn a file into
    MaxSourceEdits

\* A path relative to the workspace, below none of the roots that lead out of it.
WorkspacePath(p) == p \in Seq({"x"} \cup STRING) /\ p # <<>> /\ p[1] \notin {"..", "/"}

IsFile(f) == f = [content |-> f.content, executable |-> f.executable]

ASSUME SourcesAssumption ==
    /\ \A f \in FileStates : IsFile(f)
    /\ \A l \in Layouts :
          /\ \A p \in DOMAIN l.files : WorkspacePath(p) /\ IsFile(l.files[p])
          /\ l.seeds \subseteq DOMAIN l.files

VARIABLE srcs      \* [layout, first, files, edits]

\* The ways of reading a source.
Disk == [mode |-> "disk", modified |-> {}]
Blobs == [mode |-> "blobs", modified |-> {}]
Scoped(m) == [mode |-> "disk", modified |-> m]

\* Path::starts_with, of a path itself too.
IsAncestor(path, other) == Len(path) <= Len(other) /\ SubSeq(other, 1, Len(path)) = path

IsDirectory(files, path) ==
    \E p \in DOMAIN files : IsAncestor(path, p) /\ Len(path) < Len(p)

\* Every entry below a directory, with its content and permissions.
DirectoryTree(files, path) ==
    {<<p, files[p]>> : p \in {q \in DOMAIN files : IsAncestor(path, q) /\ Len(path) < Len(q)}}

MutantDigestSource(layout, files, how, s) ==
    LET path == s.path
    IN  IF ~s.read THEN <<"unread">>
        ELSE IF how.mode = "blobs" /\ path \in DOMAIN files \ layout.untracked
        THEN <<"file", s.seed, files[path].executable, {files[path].content}>>
        ELSE IF path \in DOMAIN files
        THEN <<"file", s.seed, files[path].executable,
               IF how.modified = {} \/ path \in how.modified THEN {files[path].content} ELSE {}>>
        ELSE IF IsDirectory(files, path)
        THEN <<"directory", s.seed,
               IF how.modified = {} \/ path \in how.modified
               THEN DirectoryTree(files, path) ELSE {}>>
        ELSE <<"missing", s.seed>>

\* The digest of one source: of its blob when Git has one, of the file, of
\* the tree of a directory; outside the modified paths only the name, the
\* kind and the executable bit count.  A source of a repository that is not
\* fine-grained is not read at all.
DigestSource(layout, files, how, s) ==
    LET path == s.path
    IN  IF ~s.read THEN <<"unread">>
        ELSE IF how.mode = "blobs" /\ path \in DOMAIN files \ layout.untracked
        THEN <<"file", s.seed, files[path].executable, {files[path].content}>>
        ELSE IF path \in DOMAIN files
        THEN <<"file", s.seed, files[path].executable,
               IF how.modified = {} \/ path \in how.modified THEN {files[path].content} ELSE {}>>
        ELSE IF IsDirectory(files, path)
        THEN <<"directory", s.seed,
               IF how.modified = {} \/ \E m \in how.modified : IsAncestor(path, m)
               THEN DirectoryTree(files, path) ELSE {}>>
        ELSE <<"missing", s.seed>>

\* An input the query did not return, a .bzl file: read when it is a file of
\* the main repository.
SoftDigest(layout, files, how, path) ==
    IF path \in DOMAIN files
    THEN {DigestSource(layout, files, how, [path |-> path, read |-> TRUE, seed |-> {}])} ELSE {}

\* The .bzl files of the main repository a rule was instantiated through;
\* without any stack in the graph, those its package's BUILD file loads.
BzlSeed(layout, files, how) ==
    LET stack    == {p \in layout.rule.stack : p[1] \notin {"external", "..", "/"}}
        loaded   == UNION {s.seed : s \in {o \in layout.sources : o.package = layout.rule.package}}
        bzl      == IF layout.stacks THEN stack ELSE loaded
    IN  {<<p, SoftDigest(layout, files, how, p)>> :
            p \in {q \in bzl : layout.stacks \/ SoftDigest(layout, files, how, q) # {}}}

\* Seed files are read from disk whatever the mode; one that is missing fails
\* the generation.
SeedFilesHash(layout, files) == [p \in layout.seeds |-> files[p].content]

RuleDigest(layout, files, how) ==
    [seeds  |-> SeedFilesHash(layout, files),
     bzl    |-> BzlSeed(layout, files, how),
     inputs |-> {<<s.path, DigestSource(layout, files, how, s)>> : s \in layout.sources},
     soft   |-> {<<p, SoftDigest(layout, files, how, p)>> : p \in layout.rule.soft}]

-----------------------------------------------------------------------------
(* Two revisions                                                           *)

SourcesInit ==
    \E l \in Layouts : srcs = [layout |-> l, first |-> l.files, files |-> l.files, edits |-> 0]

SourcesEditable == srcs # Idle /\ srcs.edits < MaxSourceEdits

EditSource ==
    /\ SourcesEditable
    /\ \E p \in DOMAIN srcs.files, f \in FileStates :
          srcs' = [srcs EXCEPT !.files[p] = f, !.edits = @ + 1]

RemoveSource ==
    /\ SourcesEditable
    /\ \E p \in DOMAIN srcs.files \ srcs.layout.seeds :
          srcs' = [srcs EXCEPT !.files = [q \in DOMAIN @ \ {p} |-> @[q]], !.edits = @ + 1]

\* A file is replaced by a directory of the same name with one file.
ReplaceByDirectory ==
    /\ SourcesEditable
    /\ \E p \in DOMAIN srcs.files \ srcs.layout.seeds, f \in FileStates :
          srcs' = [srcs EXCEPT
              !.files = [q \in (DOMAIN @ \ {p}) \cup {Append(p, "x")} |->
                            IF q \in DOMAIN @ \ {p} THEN @[q] ELSE f],
              !.edits = @ + 1]

SourcesNext == EditSource \/ RemoveSource \/ ReplaceByDirectory

SourcesSpec == SourcesInit /\ [][SourcesNext]_srcs

-----------------------------------------------------------------------------
(* Properties                                                              *)

\* The paths that differ between the two revisions, as `git diff` lists them.
ModifiedFilepaths ==
    {p \in DOMAIN srcs.first \cup DOMAIN srcs.files :
        \/ p \notin DOMAIN srcs.first \cap DOMAIN srcs.files
        \/ srcs.first[p] # srcs.files[p]}

\* Whether the rule's hash differs between the revisions, read in one way.
Impacted(how) ==
    RuleDigest(srcs.layout, srcs.first, how) # RuleDigest(srcs.layout, srcs.files, how)

\* What the rule really depends on: its sources, trees and permissions, the
\* .bzl files behind it and the seed files.
SourceContents(files) ==
    LET l == srcs.layout
    IN  [sources |-> {<<s.path, IF s.path \in DOMAIN files THEN {<<s.path, files[s.path]>>}
                                ELSE DirectoryTree(files, s.path)>> :
                         s \in {o \in l.sources : o.read}},
         others  |-> {<<p, files[p]>> :
                        p \in DOMAIN files \cap (l.rule.soft \cup
                            (IF l.stacks THEN {q \in l.rule.stack : q[1] # "external"}
                             ELSE UNION {s.seed : s \in {o \in l.sources :
                                                          o.package = l.rule.package}}))},
         seeds   |-> {<<p, files[p].content>> : p \in l.seeds}]

\* Reading sources from disk, from Git's blob hashes, or only the modified
\* ones impacts the same rules: exactly those whose sources, .bzl files or
\* seed files differ.  The modified set may hold more than what changed.
EveryModeSeesTheChange ==
    srcs # Idle =>
        LET changed == SourceContents(srcs.first) # SourceContents(srcs.files)
            extra   == CHOOSE p \in DOMAIN srcs.first : TRUE
        IN  /\ Impacted(Disk) = changed
            /\ Impacted(Blobs) = changed
            /\ ModifiedFilepaths # {} =>
                  /\ Impacted(Scoped(ModifiedFilepaths)) = changed
                  /\ Impacted(Scoped(ModifiedFilepaths \cup {extra})) = changed
=============================================================================
