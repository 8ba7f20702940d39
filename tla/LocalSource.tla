----------------------------- MODULE LocalSource -----------------------------
(***************************************************************************)
(* The walk of a `local` source (whirl-worker/sources/local.rs: refuse,    *)
(* enumerate, walk, candidate) over a tree with links, cycles and entries  *)
(* that cannot be read.                                                    *)
(*                                                                         *)
(* A path is the sequence of the nodes on it, from its root on; the path a *)
(* candidate is known by is absolute (Origin). Names, the globs and the    *)
(* header are abstracted to what they decide: a "picture" is a file they   *)
(* admit and that can be measured, a "file" one they do not.               *)
(***************************************************************************)
EXTENDS Naturals, Sequences, FiniteSets, SequencesExt

CONSTANTS Nodes, Nowhere,
          Trees,      \* the file systems
          RootLists,  \* the values of `paths`
          Depths      \* the values of max_depth

NodeKinds == {"dir", "picture", "file", "link", "other"}
FileSystems == [kind : [Nodes -> NodeKinds], inside : [Nodes -> Seq(Nodes)],
                to : [Nodes -> Nodes \cup {Nowhere}], at : [Nodes -> Seq(Nodes)]]

\* A node is a canonical path: a directory names an entry once, is itself in one directory at
\* most, and is not inside itself, however deep: of any directories one is outermost. Its
\* absolute path is that of the directory it is in, and it.
IsTree(t) ==
  LET dirs == {n \in Nodes : t.kind[n] = "dir"}
  IN  /\ \A n \in Nodes : IsInjective(t.inside[n])
      /\ \A d, e, n \in dirs : Contains(t.inside[d], n) /\ Contains(t.inside[e], n) => d = e
      /\ \A some \in (SUBSET dirs) \ {{}} :
           \E n \in some : \A d \in some : ~Contains(t.inside[d], n)
      /\ \A d, n \in Nodes : Contains(t.inside[d], n) => t.at[n] = Append(t.at[d], n)

ASSUME LocalAssumption ==
  /\ Nowhere \notin Nodes /\ Trees \subseteq {t \in FileSystems : IsTree(t)}
  /\ RootLists \subseteq Seq(Nodes) /\ Depths \subseteq Nat

VARIABLES
  tree, roots, follow, recursive, depth,   \* the file system and the options
  rootsLeft,   \* the configured paths not walked yet
  stack,       \* the directories being walked, innermost first
  visited,     \* the real directories entered under this root
  blind,       \* history: under this root, a directory had no canonical path
  listed,      \* history: the directories read under this root, in order
  found,       \* out: the paths of the candidates
  lost,        \* history: something could not be read
  walkAct      \* "idle", "validate", "walk", "done", or "refused" by validate

options == <<tree, roots, follow, recursive, depth>>
localVars == <<tree, roots, follow, recursive, depth, rootsLeft, stack, visited, blind, listed,
               found, lost, walkAct>>

\* fs::canonicalize; a link that leads nowhere has no metadata either.
Real(n) == IF n # Nowhere /\ tree.kind[n] = "link" THEN tree.to[n] ELSE n
KindOf(n) == IF Real(n) = Nowhere THEN "nothing" ELSE tree.kind[Real(n)]

\* unreadable_root
RootWalks(n) == KindOf(n) = "dir" /\ (tree.kind[n] = "link" => follow)

LocalInit ==
  /\ tree = [kind |-> [n \in Nodes |-> "other"], inside |-> [n \in Nodes |-> <<>>],
             to |-> [n \in Nodes |-> Nowhere], at |-> [n \in Nodes |-> <<n>>]]
  /\ roots = <<>> /\ follow = FALSE /\ recursive = FALSE /\ depth = 0 /\ rootsLeft = <<>> /\ stack = <<>>
  /\ visited = {} /\ blind = FALSE /\ listed = <<>> /\ found = <<>> /\ lost = FALSE /\ walkAct = "idle"

Configured ==
  /\ walkAct = "idle"
  /\ tree' \in Trees /\ follow' \in BOOLEAN /\ recursive' \in BOOLEAN /\ depth' \in Depths
  /\ roots' \in RootLists /\ rootsLeft' = roots'
  /\ walkAct' = "validate"
  /\ UNCHANGED <<stack, visited, blind, listed, found, lost>>

\* refuse: an error only when no path can be read.
Validate ==
  /\ walkAct = "validate"
  /\ walkAct' = IF \E i \in DOMAIN roots : RootWalks(roots[i]) THEN "walk" ELSE "refused"
  /\ UNCHANGED <<options, rootsLeft, stack, visited, blind, listed, found, lost>>

\* The directory `real` at `path` is read, if the depth allows it and it can be.
Enters(rest, read, real, path, level) ==
  \/ level > depth /\ stack' = rest /\ listed' = read /\ UNCHANGED lost
  \/ /\ level <= depth /\ listed' = Append(read, real)
     /\ \/ /\ stack' = <<[path |-> path, level |-> level, left |-> tree.inside[real]]>> \o rest
           /\ UNCHANGED lost
        \/ stack' = rest /\ lost' = TRUE

\* A root that fs::canonicalize fails on is walked, and not recorded.
NextRoot ==
  /\ walkAct = "walk" /\ stack = <<>> /\ rootsLeft # <<>>
  /\ LET n == Head(rootsLeft)
     IN  /\ RootWalks(n) /\ Enters(<<>>, <<>>, Real(n), <<n>>, 1)
         /\ blind' \in BOOLEAN /\ visited' = IF blind' THEN {} ELSE {Real(n)}
  /\ rootsLeft' = Tail(rootsLeft)
  /\ UNCHANGED <<options, found, walkAct>>

SkipRoot ==
  /\ walkAct = "walk" /\ stack = <<>> /\ rootsLeft # <<>> /\ ~RootWalks(Head(rootsLeft))
  /\ rootsLeft' = Tail(rootsLeft)
  /\ UNCHANGED <<options, stack, visited, blind, listed, found, lost, walkAct>>

Entry == Head(Head(stack).left)
Here == Append(Head(stack).path, Entry)
Walking == walkAct = "walk" /\ stack # <<>> /\ Head(stack).left # <<>>
Onward == <<[Head(stack) EXCEPT !.left = Tail(@)]>> \o Tail(stack)

\* A link that is not followed, a directory without `recursive`, a file the globs or the
\* header refuse, and what is neither.
SkipEntry ==
  /\ Walking /\ stack' = Onward
  /\ \/ tree.kind[Entry] = "link" /\ ~follow
     \/ KindOf(Entry) = "dir" /\ ~recursive
     \/ KindOf(Entry) \in {"nothing", "file", "other"}
  /\ UNCHANGED <<options, rootsLeft, visited, blind, listed, found, lost, walkAct>>

\* symlink_metadata, metadata or header_of fails.
Unreadable ==
  /\ Walking /\ stack' = Onward /\ lost' = TRUE
  /\ UNCHANGED <<options, rootsLeft, visited, blind, listed, found, walkAct>>

Follows == tree.kind[Entry] = "link" => follow

\* Mutant: the set holds the paths of the entries, not the directories behind them.
EnterByName ==
  /\ Walking /\ Follows /\ KindOf(Entry) = "dir" /\ recursive /\ Entry \notin visited
  /\ visited' = visited \cup {Entry}
  /\ Enters(Onward, listed, Real(Entry), Here, Head(stack).level + 1)
  /\ UNCHANGED <<options, rootsLeft, blind, found, walkAct>>

EnterDirectory ==
  /\ Walking /\ Follows /\ KindOf(Entry) = "dir" /\ recursive /\ Real(Entry) \notin visited
  /\ visited' = visited \cup {Real(Entry)}
  /\ Enters(Onward, listed, Real(Entry), Here, Head(stack).level + 1)
  /\ UNCHANGED <<options, rootsLeft, blind, found, walkAct>>

\* fs::canonicalize fails: whatever was visited, the directory is walked.
EnterBlind ==
  /\ Walking /\ Follows /\ KindOf(Entry) = "dir" /\ recursive
  /\ Enters(Onward, listed, Real(Entry), Here, Head(stack).level + 1)
  /\ blind' = TRUE
  /\ UNCHANGED <<options, rootsLeft, visited, found, walkAct>>

SkipVisited ==
  /\ Walking /\ Follows /\ KindOf(Entry) = "dir" /\ recursive /\ Real(Entry) \in visited
  /\ stack' = Onward
  /\ UNCHANGED <<options, rootsLeft, visited, blind, listed, found, lost, walkAct>>

TakeFile ==
  /\ Walking /\ Follows /\ KindOf(Entry) = "picture"
  /\ found' = Append(found, Here) /\ stack' = Onward
  /\ UNCHANGED <<options, rootsLeft, visited, blind, listed, lost, walkAct>>

LeaveDirectory ==
  /\ walkAct = "walk" /\ stack # <<>> /\ Head(stack).left = <<>>
  /\ stack' = Tail(stack)
  /\ UNCHANGED <<options, rootsLeft, visited, blind, listed, found, lost, walkAct>>

EndWalk ==
  /\ walkAct = "walk" /\ stack = <<>> /\ rootsLeft = <<>> /\ walkAct' = "done"
  /\ UNCHANGED <<options, rootsLeft, stack, visited, blind, listed, found, lost>>

LocalNext ==
  \/ Configured \/ Validate \/ NextRoot \/ SkipRoot \/ SkipEntry \/ Unreadable \/ EnterDirectory \/ EnterBlind
  \/ SkipVisited \/ TakeFile \/ LeaveDirectory \/ EndWalk

LocalSpec == LocalInit /\ [][LocalNext]_localVars
-----------------------------------------------------------------------------
\* The reference: a picture at the end of directories, no deeper than max_depth.
Belongs(p) ==
  /\ Len(p) \in 2 .. depth + 1 /\ KindOf(Last(p)) = "picture"
  /\ recursive \/ Len(p) = 2
  /\ \A i \in 1 .. Len(p) - 1 : KindOf(p[i]) = "dir" /\ Contains(tree.inside[Real(p[i])], p[i + 1])
  /\ \A i \in DOMAIN p : tree.kind[p[i]] = "link" => follow

Paths == UNION {[1 .. n -> Nodes] : n \in 2 .. depth + 1}

\* The absolute path, of which a candidate's id is the digest.
Origin(p) == tree.at[p[1]] \o Tail(p)

\* Two entries of `paths` are one directory, or one is above the other.
Overlap == \E i, j \in DOMAIN roots : i # j /\ IsPrefix(tree.at[roots[i]], tree.at[roots[j]])

\* "Every candidate the configured paths hold, at most one per file", and the walk ends "at
\* the second visit instead of at the bound": no directory with a canonical path is read
\* twice under one root whatever its links; what is offered belongs to the tree, each path
\* once under each root, and no origin twice where no root is above another (where one is,
\* the code does offer an origin twice); and where no link was followed and everything could
\* be read it is all that belongs.
WalkIsTheTree ==
  /\ (~blind => IsInjective(listed)) /\ (IsInjective(roots) => IsInjective(found))
  /\ ~Overlap => \A i, j \in DOMAIN found : Origin(found[i]) = Origin(found[j]) => i = j
  /\ \A i \in DOMAIN found : Belongs(found[i])
  /\ walkAct = "done" /\ ~follow /\ ~lost =>
       \A p \in Paths : Belongs(p) /\ Contains(roots, p[1]) => Contains(found, p)
=============================================================================
