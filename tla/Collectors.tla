----------------------------- MODULE Collectors -----------------------------
(* The configuration and the three collectors as the dashboard calls them: a
   job takes what the environment or the commands say and makes a result of it.
   What they say is any member of the input sets; the properties compare the
   result with it. *)
EXTENDS Config, SmartCollector, FilesCollector, ZfsCollector

CONSTANTS
  Envs,           \* environments
  SmartInputs,    \* [cfg, lines, number, entries, answers], answers by device
  DeviceInputs,   \* the same, with other entries of /dev
  FilesInputs,    \* [root, dirs, readable, out]: what is on disk and what is said
  ZfsInputs,      \* outputs of the commands of ZFS
  Idle

ASSUME ConfigAssumption ==
  /\ Required \cap Intervals = {}
  /\ Second \in Nat \ {0} /\ DurationRange \in Nat /\ DurationRange % 2 = 0
  /\ \A i \in {SmartInterval, FilesInterval} : Default[i] \in Int
  /\ \A env \in Envs :
       /\ Intervals \subseteq DOMAIN env
       /\ \A i \in Intervals : env[i] \in {Unset, Invalid} \cup Int

\* What a command prints is a sequence of lines.
IsLines(lines) == lines \in Seq(ToSet(lines))

\* The data of smartctl that the proofs rely on being numbers.
Answers == [identity : {Failed, Garbage} \cup BOOLEAN, health : {Failed, Garbage} \cup BOOLEAN,
            attributes : {Failed, Garbage} \cup Seq([id : Int, raw : Int])]

TypedSmart(in) ==
  /\ (in.lines # Failed => IsLines(in.lines)) /\ IsLines(in.entries)
  /\ \A d \in DOMAIN in.answers : in.answers[d] \in Answers
  /\ in.cfg \in [tempWarn : Int, tempCrit : Int, warn : [Counted -> Int], crit : [Counted -> Int]]

ASSUME SmartAssumption ==
  /\ \A in \in SmartInputs : TypedSmart(in)
  /\ \A in \in DeviceInputs : TypedSmart(in)

\* Used counts of snapshots are no negative numbers, as are the counters of arcstats;
\* zpool status prints no row below its errors.
ASSUME ZfsAssumption ==
  \A out \in ZfsInputs :
    /\ out.arc # Failed =>
         /\ IsLines(out.arc)
         /\ \A i \in DOMAIN out.arc : Len(out.arc[i]) = 3 => out.arc[i][3] \in {Bad} \cup Nat
    /\ out.snapshots # Failed =>
         /\ IsLines(out.snapshots)
         /\ \A i \in DOMAIN out.snapshots :
              /\ Len(out.snapshots[i]) \in Nat
              /\ Len(out.snapshots[i]) >= 3 => out.snapshots[i][2] \in {Bad} \cup Nat
    /\ out.pool # Failed =>
         /\ IsLines(out.pool)
         /\ \A i, j \in DOMAIN out.pool :
              i < j /\ out.pool[i].kind = "errors" => out.pool[j].kind # "row"

\* The path of a directory on disk as du prints it below this root: a root that
\* ends in a slash adds no second one.
Printed(root, dir) ==
  IF dir = <<>> THEN root
  ELSE (IF Last(root) = Nothing THEN Front(root) ELSE root) \o dir

\* du lists each directory below the root once, with its size.
Listed(in) ==
  LET D == DOMAIN in.dirs
      du == in.out.du
  IN  /\ in.root \in Seq(DOMAIN Shown) \ {<<>>, <<Nothing>>}
      /\ \A k \in DOMAIN in.root : Shown[in.root[k]] = in.root[k]
      /\ D \subseteq Seq(DOMAIN Shown \ {Nothing}) /\ <<>> \in D
      /\ \A d \in D \ {<<>>} : Front(d) \in D
      /\ \A d \in D : Printed(in.root, d) # NoParent
      /\ IsLines(du)
      /\ \A i \in DOMAIN du :
           \E d \in D : du[i].path = Printed(in.root, d) /\ du[i].size = in.dirs[d]
      /\ \A d \in D : in.dirs[d] # Bad /\ \E i \in DOMAIN du : du[i].path = Printed(in.root, d)
      /\ \A i, j \in DOMAIN du : du[i].path = du[j].path => i = j

\* Names differ in their order; users from 1000 on have names, blocks are counts and du
\* lists what is on disk.
ASSUME FilesAssumption ==
  /\ \A u \in DOMAIN UserRank : UserRank[u] \in Int
  /\ IsInjective(UserRank)
  /\ System \in DOMAIN UserRank /\ \A uid \in DOMAIN UserName : UserName[uid] \in DOMAIN UserRank
  /\ \A in \in FilesInputs : in.out.du # Failed => Listed(in)
  /\ \A in \in FilesInputs :
       in.out.find # Failed =>
         /\ IsLines(in.out.find)
         /\ \A i \in DOMAIN in.out.find :
              /\ in.out.find[i].blocks \in {Bad} \cup Nat
              /\ in.out.find[i].uid \in {Bad} \cup Nat
              /\ in.out.find[i].uid # Bad /\ in.out.find[i].uid >= FirstUser =>
                   in.out.find[i].uid \in DOMAIN UserName

VARIABLES job, said, result

vars == <<job, said, result>>

CollectorsInit == job = "none" /\ said = Idle /\ result = Idle

LoadConfig ==
  /\ job = "none" /\ job' = "config"
  /\ said' \in Envs
  /\ result' = Load(said')

CollectSmart ==
  /\ job = "none" /\ job' = "smart"
  /\ said' \in SmartInputs \/ said' \in DeviceInputs
  /\ result' = Smart(said')

CollectFiles ==
  /\ job = "none" /\ job' = "files"
  /\ said' \in FilesInputs
  /\ result' = Files(said'.out, said'.root, said'.readable)

CollectZFS ==
  /\ job = "none" /\ job' = "zfs"
  /\ said' \in ZfsInputs
  /\ result' = ZFS(said')

Finish ==
  /\ job # "none"
  /\ job' = "none" /\ said' = Idle /\ result' = Idle

CollectorsNext == LoadConfig \/ CollectSmart \/ CollectFiles \/ CollectZFS \/ Finish

CollectorsSpec == CollectorsInit /\ [][CollectorsNext]_vars

Done(j) == job = j /\ result # Failed /\ result # LoadError

-----------------------------------------------------------------------------
(***************************************************************************)
(* Configuration                                                           *)
(***************************************************************************)
Given(key) == said[key] \notin {Unset, Invalid}

\* The seconds of an interval: what is set, or the default, which for the ZFS refresh
\* is what the files refresh has.
SecsMeant(i) ==
  LET own(j) == IF Given(j) THEN said[j] ELSE Default[j]
  IN  IF i = ZFSInterval /\ ~Given(i) THEN own(FilesInterval) ELSE own(i)

\* The product with time.Second is a Duration.
Fits(secs) == 2 * secs * Second \in -DurationRange..DurationRange - 1

\* What Load accepts follows the environment: each value that is set is taken, the
\* others have their defaults, and so have the intervals, in nanoseconds as far as
\* these are a Duration.  The ZFS refresh follows the files refresh, set or not, when
\* it is not set itself, whatever the product.
LoadFollowsEnv ==
  Done("config") =>
    /\ \A key \in DOMAIN result \ Intervals :
         result[key] = IF Given(key) THEN said[key] ELSE Default[key]
    /\ \A i \in Intervals : Fits(SecsMeant(i)) => result[i] = SecsMeant(i) * Second
    /\ ~Given(ZFSInterval) => result[ZFSInterval] = result[FilesInterval]

\* Of a configuration that is accepted and whose intervals, in nanoseconds, are
\* Durations, the tickers run if all are of at least a second; one of zero or less
\* gives a ticker that panics.  (Nothing in Load refuses it.  Intervals so long that the
\* product overflows are outside this property.)
TickersRun ==
  (Done("config") /\ \A i \in Intervals : Fits(SecsMeant(i))) =>
    (Runnable(result) <=> \A i \in Intervals : SecsMeant(i) >= 1)

(***************************************************************************)
(* SMART                                                                   *)
(***************************************************************************)
\* Whatever mixture of bare names, paths and other text zpool status prints, there
\* is one row for each disk named, in the order of the first mention, and what it
\* shows was read from a device of that disk's number.
DisksAsListed ==
  Done("smart") =>
    LET first(d) == CHOOSE i \in DOMAIN said.lines :
                      /\ IsDevice(said.lines[i]) /\ said.lines[i].id = d
                      /\ \A j \in 1..i - 1 : ~(IsDevice(said.lines[j]) /\ said.lines[j].id = d)
        disks == {said.lines[i].id : i \in {j \in DOMAIN said.lines : IsDevice(said.lines[j])}}
    IN  /\ {result[i].id : i \in DOMAIN result} = disks
        /\ \A i, j \in DOMAIN result :
             i < j => first(result[i].id) < first(result[j].id)
        /\ \A i \in DOMAIN result : said.number[result[i].dev] = said.number[result[i].id]

\* What is shown as good was answered in this collection: PASSED by -H, a green
\* temperature by a row of -A, and a green count by a row of -A for that attribute.  Of
\* an attribute that the table of -A does not have the count is a green zero, which
\* nobody read (a drive without an attribute table has three of them).
GreenWasAnswered ==
  Done("smart") =>
    \A i \in DOMAIN result :
      LET answer == Answer(said.answers, result[i].dev)
          info == result[i].info
          read == answer.attributes \notin {Failed, Garbage}
          Says(id, raw) == \E k \in DOMAIN answer.attributes :
                             /\ answer.attributes[k].id = id
                             /\ answer.attributes[k].raw = raw
          Has(id) == \E k \in DOMAIN answer.attributes : answer.attributes[k].id = id
      IN  /\ info.health = "PASSED" => answer.health = TRUE
          /\ info.celsiusStatus = Green =>
               read /\ info.celsius > 0 /\ \E id \in {190, 194} : Says(id, info.celsius)
          /\ \A id \in Counted : info.status[id] = Green =>
               read /\ IF Has(id) THEN Says(id, info.count[id]) ELSE info.count[id] = 0

Rank(status) == IF status = "red" THEN 2 ELSE IF status = "amber" THEN 1 ELSE 0

\* Of two disks of a collection whose counts were read, the one with the higher
\* count never has the better colour, however the thresholds are set.
WorseIsNoBetter ==
  Done("smart") =>
    \A i, j \in DOMAIN result, id \in Counted :
      LET a == result[i].info
          b == result[j].info
      IN  (a.status[id] # "" /\ b.status[id] # "" /\ a.count[id] <= b.count[id]) =>
            Rank(a.status[id]) <= Rank(b.status[id])

(***************************************************************************)
(* Files                                                                   *)
(***************************************************************************)
\* The tree is what is on disk: a directory is a node exactly when it and all
\* above it, up to the root, are readable, it is the child of its parent, once, and
\* has its own size.  (With POOL_PATH ending in a slash the tree is the root alone;
\* a name that strings.Fields changes is outside this property.)
TreeAsOnDisk ==
  (Done("files") /\ \A d \in DOMAIN said.dirs : \A k \in DOMAIN d : Shown[d[k]] = d[k]) =>
    LET path(d) == Printed(said.root, d)
        visible == {d \in DOMAIN said.dirs :
                      /\ \A k \in 0..Len(d) : path(SubSeq(d, 1, k)) \in said.readable
                      /\ Last(said.root) = Nothing => d = <<>>}
    IN  /\ DOMAIN result.tree = {path(d) : d \in visible}
        /\ \A d \in visible :
             LET node == result.tree[path(d)]
             IN  /\ node.size = said.dirs[d]
                 /\ IsInjective(node.children)
                 /\ ToSet(node.children) =
                      {path(e) : e \in {f \in visible : f # <<>> /\ Front(f) = d}}

\* The slices add up to the blocks found; each user id from 1000 on counts for its
\* user's slice and all others for "system".  (So does the code with nobody, whose uid
\* is 65534, and files_test.go:46-48 expects a slice of its own; requirements.md:58 and
\* the comment at files_test.go:37 have it in the system slice.)
UsageAddsUp ==
  Done("files") =>
    LET lines == {i \in DOMAIN said.out.find : said.out.find[i].blocks # Bad}
        person(i) == said.out.find[i].uid # Bad /\ said.out.find[i].uid >= 1000
        bytes(S) == SumFunctionOnSet([i \in lines |-> 512 * said.out.find[i].blocks], S)
    IN  /\ \A i \in lines : \E k \in DOMAIN result.users :
             result.users[k].user =
               IF person(i) THEN UserName[said.out.find[i].uid] ELSE System
        /\ \A k \in DOMAIN result.users :
             result.users[k].size =
               bytes({i \in lines :
                        IF person(i) THEN UserName[said.out.find[i].uid] = result.users[k].user
                        ELSE result.users[k].user = System})

\* The order of the slices, which the page takes their colours from, depends on
\* sizes and names only, not on the order of find's lines.
PieStable ==
  Done("files") =>
    /\ ParseUserUsage(Reverse(said.out.find)) = result.users
    /\ \A i, j \in DOMAIN result.users :
         i < j => \/ result.users[i].size > result.users[j].size
                  \/ /\ result.users[i].size = result.users[j].size
                     /\ UserRank[result.users[i].user] < UserRank[result.users[j].user]

(***************************************************************************)
(* ZFS                                                                     *)
(***************************************************************************)
\* The devices shown are the rows of the config table but its heading and the pool,
\* and only those, though other parts of the output have as many words.
DevicesOfConfig ==
  Done("zfs") =>
    LET lines == said.pool
        inTable(i) == \E c \in 1..i - 1 : /\ lines[c].kind = "config"
                                          /\ \A k \in c..i : lines[k].kind \notin {"key", "errors"}
        rows == {i \in DOMAIN lines : /\ lines[i].kind = "row" /\ inTable(i)
                                      /\ lines[i].name \notin {PoolName, "NAME"}}
        ordered == Ascending(rows)
    IN  /\ Len(result.pool.vdevs) = Len(ordered)
        /\ \A k \in DOMAIN ordered :
             /\ result.pool.vdevs[k].name = lines[ordered[k]].name
             /\ result.pool.vdevs[k].state = lines[ordered[k]].state

\* The snapshot count and total are those of the lines printed, none when the
\* command fails; names of one word are taken to have no blanks in them.
SnapshotsAddUp ==
  Done("zfs") =>
    LET lines == IF said.snapshots = Failed THEN <<>> ELSE said.snapshots
        full == {i \in DOMAIN lines : Len(lines[i]) = 3}
    IN  (\A i \in DOMAIN lines : Len(lines[i]) <= 3) =>
          /\ result.snapshotCount = Cardinality(full)
          /\ result.snapshotTotal =
               SumFunction([i \in full |-> IF lines[i][2] = Bad THEN 0 ELSE lines[i][2]])

\* The colour of the hit rate is green from four hits in five, amber from one in
\* two, and red below and without any access.
HitRateColour ==
  (Done("zfs") /\ said.arc # Failed) =>
    LET hits == result.arc.hits
        misses == result.arc.misses
    IN  /\ result.arc.status = "green" <=> hits > 0 /\ hits >= 4 * misses
        /\ result.arc.status = "red" <=> hits = 0 \/ hits < misses

=============================================================================
