------------------------------ MODULE TreeWalk ------------------------------
(***************************************************************************)
(* How a directory is observed while somebody may be editing it:           *)
(* internal/acquisition's source snapshot, internal/spdx's reading of the  *)
(* two npm files and internal/releaseindex's scan of an artifact           *)
(* directory.                                                              *)
(*                                                                         *)
(* A tree gives every path a file: absent, a regular file or a link (which *)
(* stands for everything a stat refuses).  Each write leaves content that  *)
(* no earlier write left (edit); a checksum list also has the contents it  *)
(* lists.  What a stat sees (size and mode) does not tell all contents     *)
(* apart.                                                                  *)
(***************************************************************************)
EXTENDS Naturals, Sequences, FiniteSets, SequencesExt

CONSTANTS Paths,        \* positive numbers, in the order of the names
          Directories,  \* numbers too, for the root and what lies in it
          Root,
          Within,       \* the directory a path is in
          Skipped       \* the paths a source snapshot leaves out

ASSUME PathsAssumption ==
    /\ Paths \cup Directories \subseteq Nat /\ IsFiniteSet(Paths) /\ IsFiniteSet(Directories)
    /\ Paths \cap Directories = {} /\ Root \in Directories
    /\ Within \in [Paths -> Directories]

ManifestPath == 1
SumsFile == 1           \* the same name in an artifact directory
LockPath == 2
PackagePath == 3

Absent == [kind |-> "absent", edit |-> 0, lists |-> {}]

\* A set of names, in order.
sorted ==
    [set \in SUBSET (Paths \cup Directories) |->
        CHOOSE s \in [1..Cardinality(set) -> set] : \A i, j \in DOMAIN s : i < j => s[i] < s[j]]

names(tree) == sorted[{p \in Paths : tree[p].kind # "absent"}]

statOf(file) == 1 + (file.edit % 2)
contentOf(file) == [edit |-> file.edit, lists |-> file.lists]

shouldSkip(path) == path \in Skipped

\* A walk: the names still to visit, the stat of the one being visited, the
\* entries so far, and whether it has failed.
NoWalk == [todo |-> <<>>, stat |-> {}, entries |-> <<>>, ok |-> TRUE]

-----------------------------------------------------------------------------
(* acquisition.LocalProvider.Fetch: the root is listed, then each name in  *)
(* it visited: a file by a stat and a read, a directory by listing it.  A  *)
(* directory is there while it holds something; an empty one may be.       *)

InDirectory(tree, directory) ==
    {p \in Paths : Within[p] = directory /\ tree[p].kind # "absent" /\ ~shouldSkip(p)}

Holding(tree) == {Within[p] : p \in {q \in Paths : tree[q].kind # "absent"}} \ {Root}

\* The walks that can begin on a tree.
fetchList(tree) ==
    {[NoWalk EXCEPT !.todo = sorted[InDirectory(tree, Root) \cup there]] :
        there \in {set \in SUBSET (Directories \ {Root}) : Holding(tree) \subseteq set}}

\* filepath.WalkDir lists a directory when it comes to it.
listDirectory(walk, tree) ==
    LET directory == Head(walk.todo)
    IN  {[walk EXCEPT !.todo = sorted[InDirectory(tree, directory)] \o Tail(@)]}
        \cup {[walk EXCEPT !.ok = FALSE] : d \in {directory} \ Holding(tree)}

fetchStat(walk, tree) ==
    LET file == tree[Head(walk.todo)]
    IN  IF file.kind = "file" THEN [walk EXCEPT !.stat = {statOf(file)}]
        ELSE [walk EXCEPT !.ok = FALSE]

\* The file is opened again by name: a link put there since is followed.
digestFile(walk, tree) ==
    LET file == tree[Head(walk.todo)]
        entry == [path |-> Head(walk.todo), stat |-> CHOOSE s \in walk.stat : TRUE,
                  digest |-> contentOf(file)]
    IN  IF file.kind = "absent" THEN [walk EXCEPT !.ok = FALSE]
        ELSE [walk EXCEPT !.todo = Tail(@), !.stat = {}, !.entries = Append(@, entry)]

\* One visit, as far as it goes before the next point at which the tree may
\* have changed.
Fetch(walk, tree) ==
    IF Head(walk.todo) \in Directories THEN listDirectory(walk, tree)
    ELSE IF walk.stat = {} THEN {fetchStat(walk, tree)} ELSE {digestFile(walk, tree)}

\* The entries in the order of their paths, which is not the order of a walk.
Inventory(entries) ==
    LET order == sorted[{entries[i].path : i \in DOMAIN entries}]
    IN  [k \in DOMAIN order |->
            CHOOSE e \in {entries[i] : i \in DOMAIN entries} : e.path = order[k]]

snapshotOf(walk, commit) ==
    LET tree == Inventory(walk.entries)
    IN  [tree |-> tree, commit |-> commit, identity |-> IF commit = "none" THEN tree ELSE <<commit>>]

\* Mutant: the second snapshot is taken for the first.
sameSnapshotIdentityAlways(left, right) == TRUE

sameSnapshotIdentity(left, right) ==
    left.identity = right.identity /\ left.commit = right.commit /\ left.tree = right.tree

\* What a snapshot has of a path in a tree.
EntryOf(tree, path) ==
    [path |-> path, stat |-> statOf(tree[path]), digest |-> contentOf(tree[path])]

\* The names a snapshot has of one directory.
NamesIn(entries, directory) ==
    {entries[i].path : i \in {j \in DOMAIN entries : Within[entries[j].path] = directory}}

-----------------------------------------------------------------------------
(* spdx.DerivePackageLockV3 on a snapshot. *)

entriesOf(snapshot, path) ==
    {snapshot.tree[i] : i \in {j \in DOMAIN snapshot.tree : snapshot.tree[j].path = path}}

validateDerivedSnapshot(snapshot) ==
    /\ snapshot.commit = "none"
    /\ snapshot.identity = snapshot.tree
    /\ Len(snapshot.tree) >= 2

\* Both npm files are in the snapshot.
DerivedInputsListed(snapshot) ==
    \A path \in {LockPath, PackagePath} : entriesOf(snapshot, path) # {}

\* The file is what the snapshot says it is.
readDerivedInput(snapshot, path, tree) ==
    /\ tree[path].kind = "file"
    /\ \A entry \in entriesOf(snapshot, path) :
         entry.stat = statOf(tree[path]) /\ entry.digest = contentOf(tree[path])

-----------------------------------------------------------------------------
(* releaseindex: the artifact directory is listed, read and listed again,  *)
(* twice over.  A file is read so that a change under the reader's hands   *)
(* is noticed (stableFile), which is one instant here.  Such a directory   *)
(* is flat: all of Paths are names in it.                                  *)

scanList(tree) == [NoWalk EXCEPT !.todo = names(tree)]

stableFile(walk, tree) ==
    LET file == tree[Head(walk.todo)]
    IN  IF file.kind # "file" THEN [walk EXCEPT !.ok = FALSE]
        ELSE [walk EXCEPT !.todo = Tail(@),
                          !.entries = Append(@, [path |-> Head(walk.todo),
                                                 content |-> contentOf(file)])]

pathsOf(entries) == [i \in DOMAIN entries |-> entries[i].path]

\* The list names exactly the other files and their contents.
validateSHA256SUMS(entries) ==
    LET others == {entries[i] : i \in {j \in DOMAIN entries : entries[j].path # SumsFile}}
    IN  /\ others # {}
        /\ \E i \in DOMAIN entries :
             /\ entries[i].path = SumsFile
             /\ entries[i].content.lists = {[path |-> o.path, edit |-> o.content.edit] : o \in others}

\* The end of one scan: the names have not changed and the sums add up.
scanArtifactRoot(walk, tree, expected) ==
    /\ walk.ok
    /\ names(tree) = pathsOf(walk.entries)
    /\ \A e \in expected : pathsOf(e) = pathsOf(walk.entries)
    /\ validateSHA256SUMS(walk.entries)

ArtifactsOf(tree) ==
    [i \in DOMAIN names(tree) |-> [path |-> names(tree)[i], content |-> contentOf(tree[names(tree)[i]])]]

-----------------------------------------------------------------------------
(* Somebody else's edits: external to the program. *)

Written(tree, path, edit) ==
    [kind |-> "file", edit |-> edit,
     lists |-> IF path = SumsFile
               THEN {[path |-> q, edit |-> tree[q].edit] :
                       q \in {r \in Paths \ {SumsFile} : tree[r].kind = "file"}}
               ELSE {}]

Edits(tree, path, edit) ==
    {[tree EXCEPT ![path] = file] : file \in
        {Written(tree, path, edit)}
        \cup (IF tree[path].kind = "absent" THEN {} ELSE {Absent, [Absent EXCEPT !.kind = "link", !.edit = edit]})}
=============================================================================
