---------------------------- MODULE ZfsCollector ----------------------------
(* zfs.go: what ZFS makes of the output of zpool, zfs and the ARC statistics.

   A line of zpool status has a kind: "state", "scan", "errors" and "config"
   begin with that word and a colon, "key" is another unindented line with a
   colon, "row" is a line of five fields or more whose first is name, and "text"
   is any other.  A number that does not parse is Bad.  The lines of zfs list
   and of arcstats are sequences of fields: a name with blanks is several. *)
EXTENDS Commands, Positions, Integers, SequencesExt, FiniteSetsExt

CONSTANT PoolName

\* ParseInt with its error ignored.
Int64(field) == IF field = Bad THEN 0 ELSE field

(***************************************************************************)
(* zpool status                                                            *)
(***************************************************************************)
ParseScanLine(s) ==
  [type |-> s.type,
   state |-> IF s.inProgress THEN "in_progress"
             ELSE IF s.repaired \/ s.zeroErrors THEN "finished" ELSE "none",
   end |-> IF ~s.inProgress /\ (s.repaired \/ s.zeroErrors) THEN s.on ELSE ""]

EmptyPool ==
  [state |-> "", scan |-> [type |-> "", state |-> "", end |-> ""],
   errors |-> "", vdevs |-> <<>>]

VDev(row) ==
  [name |-> row.name, state |-> row.state,
   errors |-> [i \in DOMAIN row.errors |-> Int64(row.errors[i])]]

\* Wrong: a row anywhere is a device.
IsVDev_Anywhere(p, line) ==
  line.kind = "row" /\ line.name \notin {PoolName, "NAME"}

IsVDev(p, line) ==
  line.kind = "row" /\ p.inConfig /\ line.name \notin {PoolName, "NAME"}

\* One turn of the loop over the lines; p holds inConfig and the pool.
ScanStatusLine(p, line) ==
  [inConfig |-> line.kind = "config" \/ (p.inConfig /\ line.kind # "key"),
   pool |->
     [state |-> IF line.kind = "state" THEN line.text ELSE p.pool.state,
      scan |-> IF line.kind = "scan" THEN ParseScanLine(line.text) ELSE p.pool.scan,
      errors |-> IF line.kind = "errors" THEN line.text ELSE p.pool.errors,
      vdevs |-> IF IsVDev(p, line) THEN Append(p.pool.vdevs, VDev(line)) ELSE p.pool.vdevs]]

BeforeStatus == [inConfig |-> FALSE, pool |-> EmptyPool]

ParseZpoolStatus(lines) == FoldLeft(ScanStatusLine, BeforeStatus, lines).pool

(***************************************************************************)
(* zfs list                                                                *)
(***************************************************************************)
\* Lines with too few fields are skipped; the fields are taken by position,
\* whether or not the name has blanks and shifts them.
ParseZFSList(lines) ==
  LET full == Kept(lines, {i \in DOMAIN lines : Len(lines[i]) >= 6})
  IN  [i \in DOMAIN full |->
        [name |-> full[i][1], used |-> Int64(full[i][2]),
         avail |-> Int64(full[i][3]), refer |-> Int64(full[i][4]),
         ratio |-> full[i][5], compression |-> full[i][6]]]

\* A snapshot's name is [dataset, snap]; a word of a name with blanks may lack
\* its @, and is then the dataset as well.
ParseSnapshots(lines) ==
  LET full == Kept(lines, {i \in DOMAIN lines : Len(lines[i]) >= 3})
  IN  [i \in DOMAIN full |->
        [name |-> full[i][1], dataset |-> full[i][1].dataset,
         used |-> Int64(full[i][2]), creation |-> full[i][3]]]

(***************************************************************************)
(* arcstats                                                                *)
(***************************************************************************)
\* The last line of three fields that gives this counter a number.
Counter(lines, key) ==
  LET set == {i \in DOMAIN lines : /\ Len(lines[i]) = 3 /\ lines[i][1] = key
                                   /\ lines[i][3] # Bad}
  IN  IF set = {} THEN 0 ELSE lines[Max(set)][3]

\* Wrong: hits are compared with misses.
ARCStatus_Misses(hits, misses) ==
  IF 100 * hits >= 80 * misses THEN "green"
  ELSE IF 100 * hits >= 50 * misses THEN "amber" ELSE "red"

\* The hit rate is hits out of total and compared as a fraction.
ARCStatus(hits, misses) ==
  LET total == hits + misses
  IN  IF total > 0 /\ 100 * hits >= 80 * total THEN "green"
      ELSE IF total > 0 /\ 100 * hits >= 50 * total THEN "amber"
      ELSE "red"

ParseARC(lines) ==
  [hits |-> Counter(lines, "hits"), misses |-> Counter(lines, "misses"),
   size |-> Counter(lines, "size"), max |-> Counter(lines, "c_max"),
   status |-> ARCStatus(Counter(lines, "hits"), Counter(lines, "misses"))]

NoARC == [hits |-> 0, misses |-> 0, size |-> 0, max |-> 0, status |-> ""]

(***************************************************************************)
(* ZFS: the pool and the datasets are required, the rest is not            *)
(***************************************************************************)
\* Wrong: an assignment for an addition.
Total_Last(snapshots) == IF snapshots = <<>> THEN 0 ELSE Last(snapshots).used

AddUsed(sum, snapshot) == sum + snapshot.used

Total(snapshots) == FoldLeft(AddUsed, 0, snapshots)

ZFS(out) ==
  IF out.pool = Failed \/ out.datasets = Failed THEN Failed
  ELSE LET snapshots ==
             IF out.snapshots = Failed THEN <<>>
             ELSE ParseSnapshots(out.snapshots)
       IN  [pool |-> ParseZpoolStatus(out.pool),
            datasets |-> ParseZFSList(out.datasets),
            snapshots |-> snapshots,
            arc |-> IF out.arc = Failed THEN NoARC ELSE ParseARC(out.arc),
            snapshotCount |-> Len(snapshots),
            snapshotTotal |-> Total(snapshots)]

=============================================================================
