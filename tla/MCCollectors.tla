---------------------------- MODULE MCCollectors ----------------------------
(* Collectors on bounded inputs: what the environment and the commands may say. *)
EXTENDS Collectors

(* Config: a Duration has 256 values and a second is ten of them, so that 12
   seconds fit, 13 are negative and 30 are positive again. *)
MCDefault == (SmartInterval :> 6) @@ (FilesInterval :> 9) @@ ("SCAN_DEPTH" :> 5)

MCRequired == {"POOL_PATH", "POOL_NAME"}

MCEnvs ==
  {p @@ d @@ i : p \in [MCRequired -> {Unset, 1}],
                 d \in [{"SCAN_DEPTH"} -> {Unset, Invalid, -3}],
                 i \in [Intervals -> {Unset, Invalid, -1, 0, 1, 12, 13, 30}]}

(* SMART: two disks, up to three lines that name them either way. *)
Lines == {[form |-> "path", id |-> "d1"], [form |-> "bare", id |-> "d1"],
          [form |-> "bare", id |-> "d2"], [form |-> "other"]}

Row(id, raw) == [id |-> id, raw |-> raw]

\* Usual; the fall-back temperature; over all limits; a drive without attributes; an
\* attribute given twice.
Tables == {<<Row(194, 40), Row(5, 0), Row(9, 100)>>,
           <<Row(190, 50), Row(194, 0), Row(5, 3), Row(197, 1)>>,
           <<Row(194, 60), Row(5, 5), Row(197, 7), Row(198, 2)>>,
           <<>>,
           <<Row(5, 9), Row(5, 2)>>}

Thresholds(warn, crit) ==
  [tempWarn |-> 45, tempCrit |-> 55,
   warn |-> [id \in Counted |-> warn], crit |-> [id \in Counted |-> crit]]

Entry(name, block) == [name |-> name, block |-> block]

Two == {"d1", "d2"}
Devices == Two \cup {"sda", "sdb", "sg0"}

\* The answers of smartctl, then the ways to a device's node; health and identity
\* go together.
MCSmartInputs ==
  {[cfg |-> c, lines |-> l, number |-> [d \in Two |-> Failed], entries |-> <<>>,
    answers |-> [d \in Two |-> [identity |-> h, attributes |-> a[d], health |-> h]]] :
     c \in {Thresholds(1, 5), Thresholds(5, 1)},
     l \in BoundedSeq(Lines, 3) \cup {Failed},
     a \in [Two -> Tables \cup {Failed, Garbage}],
     h \in {Failed, Garbage, TRUE, FALSE}}

MCDeviceInputs ==
  {[cfg |-> Thresholds(1, 5), lines |-> <<[form |-> "path", id |-> "d1"]>>,
    number |-> n, entries |-> e,
    answers |-> [d \in Devices |-> [identity |-> TRUE, attributes |-> <<>>, health |-> TRUE]]] :
     n \in [Devices -> {1, 2, Failed}],
     e \in BoundedSeq({Entry("sda", TRUE), Entry("sdb", TRUE), Entry("sg0", FALSE)}, 2)}

(* Files: directories "a", "x y" and "x  y" below the root, each with one below it,
   and a third level below "a"; roots "/t", "/t/" and "/". *)
MCShown == [n \in {"", "t", "a", "x y", "x  y"} |-> IF n = "x  y" THEN "x y" ELSE n]

\* In the order of du, which lists a directory after all below it.
AllDirs == << <<"a", "a", "a">>, <<"a", "a">>, <<"a">>, <<"x y", "a">>, <<"x y">>,
              <<"x  y", "a">>, <<"x  y">>, <<>> >>

DirSets == {D \in SUBSET ToSet(AllDirs) :
              <<>> \in D /\ \A d \in D : d # <<>> => Front(d) \in D}

Below(D, d) == {e \in D : IsPrefix(d, e)}

DuLines(root, D) ==
  LET listed == SelectSeq(AllDirs, LAMBDA d : d \in D)
  IN  [i \in DOMAIN listed |->
        [size |-> Cardinality(Below(D, listed[i])), path |-> Printed(root, listed[i])]]

FilesInput(root, D, readable, find, avail, snapshots) ==
  [root |-> root, readable |-> {Printed(root, d) : d \in readable},
   dirs |-> [d \in D |-> Cardinality(Below(D, d))],
   out |-> [du |-> DuLines(root, D),
            find |-> find, avail |-> avail, snapshots |-> snapshots]]

\* The user nobody.
Nobody == 65534

MCUserName == 1000 :> "ann" @@ 1001 :> "bob" @@ 1002 :> "ann" @@ Nobody :> "nobody"
MCUserRank == "ann" :> 1 @@ "bob" :> 2 @@ "nobody" :> 3 @@ "system" :> 4

FindLines == [uid : {999, 1000, 1001, 1002, Nobody, Bad}, blocks : {1, 3, Bad}]

Slash == <<"", "">>
T == <<"", "t">>

MCFilesInputs ==
  UNION {{FilesInput(root, D, R, <<>>, 7, <<2, Bad, 3>>) : R \in SUBSET D} :
           root \in {T, T \o <<"">>, Slash}, D \in DirSets}
  \cup {FilesInput(T, {<<>>}, {<<>>}, f, 7, Failed) : f \in BoundedSeq(FindLines, 3) \cup {Failed}}
  \cup {[FilesInput(T, {<<>>}, {<<>>}, <<>>, 7, Failed) EXCEPT !.out.du = Failed]}

(* ZFS: one part of the output varies at a time. *)
Scan(type, inProgress, repaired, zeroErrors, on) ==
  [type |-> type, inProgress |-> inProgress, repaired |-> repaired,
   zeroErrors |-> zeroErrors, on |-> on]

ScanTexts == {Scan("scrub", FALSE, TRUE, TRUE, "Sun"), Scan("scrub", TRUE, FALSE, FALSE, ""),
              Scan("resilver", FALSE, FALSE, TRUE, "Mon"),
              Scan("resilver", FALSE, FALSE, FALSE, "Tue"), Scan("", FALSE, FALSE, FALSE, "")}

Text(kind, text) == [kind |-> kind, text |-> text]
TableRow(name, r) == [kind |-> "row", name |-> name, state |-> "ONLINE", errors |-> <<r, 0, 0>>]

StatusOutputs ==
  {<<Text("state", "ONLINE")>> \o advice \o <<Text("scan", s)>> \o
   <<Text("config", ""), TableRow("NAME", Bad), TableRow("tank", 0)>> \o rows \o
   <<Text("text", ""), Text("errors", "none")>> :
     advice \in {<<>>, <<Text("key", "status"), TableRow("One", Bad)>>},
     s \in ScanTexts,
     rows \in BoundedSeq({TableRow("mirror-0", 0), TableRow("sda", 2), Text("text", "spares")}, 3)}

Dataset(used) == <<"tank", used, 5, 2, "1.37", "lz4">>
Snap(name) == [dataset |-> "tank", snap |-> name]
SnapLines == {<<Snap("a"), 4, 100>>, <<Snap("b"), Bad, 200>>, <<"short">>}
Arc(h, m) == <<<<"hits", 4, h>>, <<"misses", 4, m>>, <<"size", 4, 9>>, <<"c_max", 4>>>>

SomeStatus == CHOOSE o \in StatusOutputs : TRUE
Out(pool, datasets, snapshots, arc) ==
  [pool |-> pool, datasets |-> datasets, snapshots |-> snapshots, arc |-> arc]

MCZfsInputs ==
  {Out(p, <<Dataset(3)>>, <<>>, Failed) : p \in StatusOutputs \cup {Failed}}
  \cup {Out(SomeStatus, d, s, Failed) : d \in {<<>>, <<Dataset(Bad)>>, Failed},
                                        s \in BoundedSeq(SnapLines, 3) \cup {Failed}}
  \cup {Out(SomeStatus, <<>>, <<>>, Arc(h, m)) : h, m \in 0..9}

=============================================================================
