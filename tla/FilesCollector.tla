--------------------------- MODULE FilesCollector ---------------------------
(* files.go: the directory tree and the user totals made of du, find and zfs.

   A path is the sequence of what stands between its slashes, as strings.Split
   gives it: "/t/a" is <<"", "t", "a">>, "/t/" is <<"", "t", "">>.  A line of du
   is [size, path], a line of find [uid, blocks].  A number that does not parse
   is Bad.  Shown[name] is a name as strings.Fields and Join leave it: its runs
   of blanks are single blanks. *)
EXTENDS Commands, Positions, Integers, SequencesExt, FiniteSetsExt

CONSTANTS
  Shown,         \* function on names
  NoParent,
  UserName,      \* function from user ids to names: the id's text where the
                 \* lookup fails
  UserRank,      \* the order of the names
  System         \* the name "system"

(***************************************************************************)
(* The tree                                                                *)
(***************************************************************************)
\* What stands before a leading slash and after a trailing one.
Nothing == ""

\* Lines without a number are skipped.
Entries(lines) ==
  LET sized == Kept(lines, {i \in DOMAIN lines : lines[i].size # Bad})
  IN  [i \in DOMAIN sized |->
        [size |-> sized[i].size,
         path |-> [k \in DOMAIN sized[i].path |-> Shown[sized[i].path[k]]]]]

\* The map from paths to nodes: a later entry replaces an earlier one.
NodeSizes(entries) ==
  [p \in {entries[i].path : i \in DOMAIN entries} |->
     entries[Max({i \in DOMAIN entries : entries[i].path = p})].size]

\* The nearest proper prefix that is a node.  The search stops where no slash or
\* only the leading one is left, so the empty path is never a parent.
ParentPath(path, nodes) ==
  LET prefixes == {k \in 1..Len(path) - 1 :
                     /\ SubSeq(path, 1, k) \in nodes
                     /\ SubSeq(path, 1, k) # <<Nothing>>}
  IN  IF prefixes = {} THEN NoParent ELSE SubSeq(path, 1, Max(prefixes))

\* Children in the order of the entries, an entry given twice twice.
Children(path, entries, root) ==
  LET nodes == {entries[i].path : i \in DOMAIN entries}
      below == {i \in DOMAIN entries : /\ entries[i].path # root
                                       /\ ParentPath(entries[i].path, nodes) = path}
  IN  Kept([i \in DOMAIN entries |-> entries[i].path], below)

\* Wrong: the children of a hidden directory are judged by their own mode.
FilterWorldReadable_Flat(entries, root, readable) ==
  LET nodes == {entries[i].path : i \in DOMAIN entries}
      kept[p \in nodes] ==
        p \in readable /\ (p = root \/ ParentPath(p, nodes) # NoParent)
  IN  {p \in nodes : kept[p]}

\* A node that Stat fails for or that others may not read goes with its subtree;
\* readable is the set of the other paths.
FilterWorldReadable(entries, root, readable) ==
  LET nodes == {entries[i].path : i \in DOMAIN entries}
      kept[p \in nodes] ==
        /\ p \in readable
        /\ p = root \/ (ParentPath(p, nodes) # NoParent /\ kept[ParentPath(p, nodes)])
  IN  {p \in nodes : kept[p]}

\* No tree is the empty function; a root that is not listed is a node without size.
CollectDirTree(lines, root, readable) ==
  LET entries == Entries(lines)
      sizes == NodeSizes(entries)
      kept == FilterWorldReadable(entries, root, readable)
      keptOf(paths) == Kept(paths, {i \in DOMAIN paths : paths[i] \in kept})
  IN  IF root \in DOMAIN sizes
      THEN [p \in kept |->
             [size |-> sizes[p],
              children |-> keptOf(Children(p, entries, root))]]
      ELSE [p \in {root} \cap readable |-> [size |-> 0, children |-> <<>>]]

(***************************************************************************)
(* The users                                                               *)
(***************************************************************************)
BlockSize == 512
FirstUser == 1000

\* Wrong: the first user counts as a system user.
Owner_OffByOne(uid) ==
  IF uid = Bad \/ uid <= FirstUser THEN System ELSE UserName[uid]

Owner(uid) ==
  IF uid = Bad \/ uid < FirstUser THEN System ELSE UserName[uid]

AddBlocks(sum, line) == sum + line.blocks * BlockSize

\* Lines without a number are skipped, the others added up for each owner.
Tally(lines) ==
  LET counted == {i \in DOMAIN lines : lines[i].blocks # Bad}
  IN  [o \in {Owner(lines[i].uid) : i \in counted} |->
        FoldLeft(AddBlocks, 0, Kept(lines, {i \in counted : Owner(lines[i].uid) = o}))]

\* Wrong: ties by name the other way round.
Before_Descending(a, b) ==
  a.size > b.size \/ (a.size = b.size /\ UserRank[a.user] > UserRank[b.user])

\* Largest first, ties by name.
Before(a, b) == a.size > b.size \/ (a.size = b.size /\ UserRank[a.user] < UserRank[b.user])

ParseUserUsage(lines) ==
  LET tally == Tally(lines)
  IN  Sorted({[user |-> o, size |-> tally[o]] : o \in DOMAIN tally}, Before)

(***************************************************************************)
(* Files: du and find are required, the pool statistics are not            *)
(***************************************************************************)
PoolStats(avail, snapshots) ==
  [avail |-> IF avail \in {Failed, Bad} THEN 0 ELSE avail,
   snapshot |->
     IF avail = Failed \/ snapshots = Failed THEN 0
     ELSE FoldLeft(LAMBDA sum, n : IF n = Bad THEN sum ELSE sum + n, 0, snapshots)]

Files(out, root, readable) ==
  IF out.du = Failed \/ out.find = Failed THEN Failed
  ELSE [tree |-> CollectDirTree(out.du, root, readable),
        users |-> ParseUserUsage(out.find),
        stats |-> PoolStats(out.avail, out.snapshots)]

=============================================================================
