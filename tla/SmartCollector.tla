--------------------------- MODULE SmartCollector ---------------------------
(* smart.go: what Smart makes of the output of zpool and smartctl.

   A line of zpool status is its first field: a name of the form of a by-id
   device, bare or with its path ([form, id]), or anything else.  The entries of
   /dev have a name and may be of a block device; number gives the device number
   behind an entry or a by-id path, or Failed where Stat fails.  An answer of
   smartctl is Failed (non-zero exit status), Garbage (not JSON) or its data:
   for -i anything, for -A the attribute table, for -H whether the disk passed.
   answers gives those of the devices that can be opened. *)
EXTENDS Commands, Integers, Sequences, SequencesExt, FiniteSetsExt

CONSTANTS Garbage, NoTemp

\* The attributes the code reads: temperatures, error counts, power-on hours.
Counted == {5, 197, 198}

Green == "green"

(***************************************************************************)
(* Discovery                                                               *)
(***************************************************************************)
\* A bare name and its full path are the same candidate.
IsDevice(line) == line.form \in {"bare", "path"}

\* Wrong: the path and the bare name of a disk are two disks.
DiscoverDevices_Twice(lines) ==
  LET Add(devices, line) ==
        IF IsDevice(line) THEN Append(devices, line.id) ELSE devices
  IN  FoldLeft(Add, <<>>, lines)

\* One turn of the loop over the lines.
Note(devices, line) ==
  IF IsDevice(line) /\ line.id \notin ToSet(devices)
  THEN Append(devices, line.id) ELSE devices

DiscoverDevices(lines) == FoldLeft(Note, <<>>, lines)

(***************************************************************************)
(* One disk                                                                *)
(***************************************************************************)
\* Wrong: the warning is tested first and hides the critical value.
ThresholdStatus_WarnFirst(val, warn, crit) ==
  IF val >= warn THEN "amber" ELSE IF val >= crit THEN "red" ELSE Green

\* tempStatus and thresholdStatus are the same function.
ThresholdStatus(val, warn, crit) ==
  IF val >= crit THEN "red" ELSE IF val >= warn THEN "amber" ELSE Green

\* The last row of the table with this id, and zero when there is none.
Attribute(table, id) ==
  LET rows == {i \in DOMAIN table : table[i].id = id}
  IN  IF rows = {} THEN 0 ELSE table[Max(rows)].raw

Celsius(table) ==
  IF Attribute(table, 194) > 0 THEN Attribute(table, 194)
  ELSE IF Attribute(table, 190) > 0 THEN Attribute(table, 190)
  ELSE NoTemp

BlankInfo ==
  [identified |-> FALSE, health |-> "", celsius |-> NoTemp, celsiusStatus |-> "",
   count |-> [id \in Counted |-> 0], status |-> [id \in Counted |-> ""],
   hours |-> 0]

ParseIdentity(info, answer) ==
  [info EXCEPT !.identified = answer \notin {Failed, Garbage}]

FromTable(info, table, cfg) ==
  LET t == Celsius(table)
      count == [id \in Counted |-> Attribute(table, id)]
  IN  [info EXCEPT
        !.celsius = t,
        !.celsiusStatus =
          IF t = NoTemp THEN "" ELSE ThresholdStatus(t, cfg.tempWarn, cfg.tempCrit),
        !.count = count,
        !.status = [id \in Counted |->
                     ThresholdStatus(count[id], cfg.warn[id], cfg.crit[id])],
        !.hours = Attribute(table, 9)]

\* Wrong: the thresholds are applied to what a failed call left at zero.
ParseAttributes_Always(info, answer, cfg) ==
  FromTable(info, IF answer \in {Failed, Garbage} THEN <<>> ELSE answer, cfg)

ParseAttributes(info, answer, cfg) ==
  IF answer \in {Failed, Garbage} THEN info ELSE FromTable(info, answer, cfg)

ParseHealth(info, answer) ==
  [info EXCEPT !.health =
     IF answer \in {Failed, Garbage} THEN "UNKNOWN"
     ELSE IF answer THEN "PASSED" ELSE "FAILED"]

\* The three calls of readDisk; each that fails leaves its fields as they are.
ReadDisk(cfg, answer) ==
  ParseHealth(
    ParseAttributes(ParseIdentity(BlankInfo, answer.identity), answer.attributes, cfg),
    answer.health)

NoDevice == [identity |-> Failed, attributes |-> Failed, health |-> Failed]

Answer(answers, dev) == IF dev \in DOMAIN answers THEN answers[dev] ELSE NoDevice

\* The first block device of /dev with the number of the by-id path, which itself
\* stands in where there is none.
ResolveDevice(id, number, entries) ==
  LET same == {i \in DOMAIN entries :
                 entries[i].block /\ number[entries[i].name] = number[id]}
  IN  IF number[id] = Failed \/ same = {} THEN id ELSE entries[Min(same)].name

\* Without zpool there are no disks; readDisk never returns an error: one row per
\* device, in the order found.
Smart(in) ==
  IF in.lines = Failed THEN Failed
  ELSE LET devices == DiscoverDevices(in.lines)
           Dev(i) == ResolveDevice(devices[i], in.number, in.entries)
       IN  [i \in DOMAIN devices |->
             [id |-> devices[i], dev |-> Dev(i),
              info |-> ReadDisk(in.cfg, Answer(in.answers, Dev(i)))]]

=============================================================================
