-------------------------- MODULE CollectorsProofs --------------------------
(* Proofs about the configuration and the collectors for all inputs that have
   the types assumed in Collectors.  A result is what the code makes of what was
   said; the lemmas say what each part of it is. *)
EXTENDS FilesProofs

\* What the variables hold: the result of the job on an input of its kind.
Computed ==
  /\ job = "config" => said \in Envs /\ result = Load(said)
  /\ job = "smart" => TypedSmart(said) /\ result = Smart(said)
  /\ job = "files" =>
       said \in FilesInputs /\ result = Files(said.out, said.root, said.readable)
  /\ job = "zfs" => said \in ZfsInputs /\ result = ZFS(said)

\* Computed holds in every state.
LEMMA ComputedCorrect == CollectorsSpec => []Computed
<1>1. CollectorsInit => Computed
  BY DEF CollectorsInit, Computed
<1>2. Computed /\ [CollectorsNext]_vars => Computed'
  <2> SUFFICES ASSUME Computed, [CollectorsNext]_vars
               PROVE  Computed'
    OBVIOUS
  <2>1. CASE LoadConfig
    BY <2>1 DEF LoadConfig, Computed
  <2>2. CASE CollectSmart
    BY <2>2, SmartAssumption DEF CollectSmart, Computed
  <2>3. CASE CollectFiles
    BY <2>3 DEF CollectFiles, Computed
  <2>4. CASE CollectZFS
    BY <2>4 DEF CollectZFS, Computed
  <2>5. CASE Finish
    BY <2>5 DEF Finish, Computed
  <2>6. CASE UNCHANGED vars
    BY <2>6 DEF Computed, vars
  <2> QED
    BY <2>1, <2>2, <2>3, <2>4, <2>5, <2>6 DEF CollectorsNext
<1> QED
  BY <1>1, <1>2, PTL DEF CollectorsSpec

-----------------------------------------------------------------------------
(* Configuration *)

\* What Load accepts: the required variables are set and all integers parse.
LEMMA Accepted ==
  ASSUME NEW env \in Envs, Load(env) # LoadError
  PROVE  /\ \A key \in DOMAIN env : env[key] # Invalid
         /\ Load(env) = [key \in DOMAIN env \ Required |->
                          IF key \in Intervals THEN Duration(Secs(env)[key])
                          ELSE IntOf(env, key, Default[key])]
BY DEF Load

\* A product within the range of a Duration is not changed by the wrap-around.
LEMMA DurationInRange ==
  ASSUME NEW secs \in Int, Fits(secs)
  PROVE  Duration(secs) = secs * Second
<1> USE DEF Fits
<1> DEFINE half == DurationRange \div 2
<1>1. Second \in Nat /\ DurationRange \in Nat /\ DurationRange % 2 = 0
  BY ConfigAssumption
<1>2. half \in Nat /\ DurationRange = 2 * half
  BY <1>1
<1>3. PICK product \in Int : product = secs * Second
  BY <1>1
<1>4. 2 * product = 2 * secs * Second
  BY <1>1, <1>3
<1>5. -half <= product /\ product < half
  BY <1>2, <1>4
<1> HIDE DEF half
<1>6. product + half \in 0..(2 * half - 1)
  BY <1>2, <1>5
<1>7. (product + half) % DurationRange = product + half
  BY <1>2, <1>6
<1>8. Duration(secs) = ((product + half) % DurationRange) - half
  BY <1>3 DEF Duration, half
<1> QED
  BY <1>2, <1>3, <1>7, <1>8

\* A Duration of seconds is positive exactly from one second on.
LEMMA DurationPositive ==
  ASSUME NEW secs \in Int, Fits(secs)
  PROVE  Duration(secs) > 0 <=> secs >= 1
<1>1. Second \in Nat \ {0}
  BY ConfigAssumption
<1>2. \A n \in Int, m \in Nat \ {0} : (n >= 1 => n * m >= 1) /\ (n <= 0 => n * m <= 0)
  <2> SUFFICES ASSUME NEW n \in Int, NEW m \in Nat \ {0}
               PROVE  (n >= 1 => n * m >= 1) /\ (n <= 0 => n * m <= 0)
    OBVIOUS
  <2>1. CASE n >= 1
    BY <2>1, SMTT(30)
  <2>2. CASE n <= 0
    BY <2>2, SMTT(30)
  <2> QED
    BY <2>1, <2>2
<1>3. (secs >= 1 => secs * Second >= 1) /\ (secs <= 0 => secs * Second <= 0)
  BY <1>1, <1>2
<1> QED
  BY <1>1, <1>3, DurationInRange

\* An accepted interval is the Duration of the seconds that are meant.
LEMMA IntervalResult ==
  ASSUME Computed, Done("config"), NEW i \in Intervals
  PROVE  result[i] = Duration(SecsMeant(i)) /\ SecsMeant(i) \in Int
<1> DEFINE own(j) == IF Given(j) THEN said[j] ELSE Default[j]
<1>1. said \in Envs /\ result = Load(said) /\ Load(said) # LoadError
  BY DEF Computed, Done
<1>2. result = [key \in DOMAIN said \ Required |->
                 IF key \in Intervals THEN Duration(Secs(said)[key])
                 ELSE IntOf(said, key, Default[key])]
  BY <1>1, Accepted
<1>3. Intervals \subseteq DOMAIN said \ Required
  BY <1>1, ConfigAssumption
<1>4. \A j \in Intervals : said[j] # Invalid
  BY <1>1, <1>3, Accepted
<1>5. \A j \in Intervals : Given(j) => said[j] \in Int
  BY <1>1, ConfigAssumption DEF Given
<1>6. \A j \in {SmartInterval, FilesInterval} : j \in Intervals /\ j # ZFSInterval
  BY DEF Intervals, SmartInterval, FilesInterval, ZFSInterval
<1>7. \A j \in {SmartInterval, FilesInterval} : own(j) \in Int
  BY <1>5, <1>6, ConfigAssumption
<1>8. Secs(said)[i] = SecsMeant(i)
  BY DEF Secs, IntOf, Given, SecsMeant
<1>9. i \in {SmartInterval, FilesInterval} \/ i = ZFSInterval
  BY DEF Intervals
<1>10. SecsMeant(i) \in Int
  BY <1>5, <1>6, <1>7, <1>9 DEF SecsMeant
<1> QED
  BY <1>2, <1>3, <1>8, <1>10

\* An accepted configuration follows the environment (Config, LoadFollowsEnv): each
\* variable, the three intervals among them, has the value set or its default, and
\* ZFS_REFRESH_INTERVAL follows FILES_REFRESH_INTERVAL.
THEOREM LoadCorrect == CollectorsSpec => []LoadFollowsEnv
<1>1. Computed => LoadFollowsEnv
  <2> SUFFICES ASSUME Computed, Done("config")
               PROVE  /\ \A key \in DOMAIN result \ Intervals :
                           result[key] = IF Given(key) THEN said[key] ELSE Default[key]
                      /\ \A i \in Intervals :
                           Fits(SecsMeant(i)) => result[i] = SecsMeant(i) * Second
                      /\ ~Given(ZFSInterval) => result[ZFSInterval] = result[FilesInterval]
    BY DEF LoadFollowsEnv
  <2>1. said \in Envs /\ result = Load(said) /\ Load(said) # LoadError
    BY DEF Computed, Done
  <2>2. result = [key \in DOMAIN said \ Required |->
                   IF key \in Intervals THEN Duration(Secs(said)[key])
                   ELSE IntOf(said, key, Default[key])]
    BY <2>1, Accepted
  <2>3. ASSUME NEW key \in DOMAIN result \ Intervals
        PROVE  result[key] = IF Given(key) THEN said[key] ELSE Default[key]
    BY <2>2, <2>3 DEF IntOf, Given
  <2>4. ASSUME ~Given(ZFSInterval)
        PROVE  result[ZFSInterval] = result[FilesInterval]
    <3>1. SecsMeant(ZFSInterval) = SecsMeant(FilesInterval)
      BY <2>4 DEF SecsMeant
    <3>2. {ZFSInterval, FilesInterval} \subseteq Intervals
      BY DEF Intervals
    <3> QED
      BY <3>1, <3>2, IntervalResult
  <2>5. ASSUME NEW i \in Intervals, Fits(SecsMeant(i))
        PROVE  result[i] = SecsMeant(i) * Second
    BY <2>5, IntervalResult, DurationInRange
  <2> QED
    BY <2>3, <2>4, <2>5
<1> QED
  BY <1>1, ComputedCorrect, PTL

\* Accepted intervals give tickers that run exactly when they are of a second or
\* more (Config, TickersRun), as long as the product is a Duration.
THEOREM TickersCorrect == CollectorsSpec => []TickersRun
<1>1. Computed => TickersRun
  <2> SUFFICES ASSUME Computed, Done("config"), \A i \in Intervals : Fits(SecsMeant(i))
               PROVE  Runnable(result) <=> \A i \in Intervals : SecsMeant(i) >= 1
    BY DEF TickersRun
  <2>1. ASSUME NEW i \in Intervals
        PROVE  result[i] > 0 <=> SecsMeant(i) >= 1
    BY IntervalResult, DurationPositive
  <2> QED
    BY <2>1 DEF Runnable
<1> QED
  BY <1>1, ComputedCorrect, PTL

-----------------------------------------------------------------------------
(* SMART *)

\* A place of a sequence holds a member of its set.
LEMMA RowOfTable ==
  ASSUME NEW Row, NEW rows \in Seq(Row), NEW i \in 1..Len(rows)
  PROVE  rows[i] \in Row
OBVIOUS

\* An attribute is an integer: that of a row of the table, and zero if there is none.
LEMMA AttributeCorrect ==
  ASSUME NEW table \in Seq([id : Int, raw : Int]), NEW id
  PROVE  /\ Attribute(table, id) \in Int
         /\ (\E k \in DOMAIN table : table[k].id = id) =>
              \E k \in DOMAIN table : table[k].id = id /\ table[k].raw = Attribute(table, id)
         /\ ~(\E k \in DOMAIN table : table[k].id = id) => Attribute(table, id) = 0
<1> DEFINE rows == {i \in DOMAIN table : table[i].id = id}
<1>1. \A k \in DOMAIN table : table[k].raw \in Int
  <2>1. ASSUME NEW k \in DOMAIN table
        PROVE  table[k].raw \in Int
    <3>1. DOMAIN table = 1..Len(table)
      OBVIOUS
    <3>2. table[k] \in [id : Int, raw : Int]
      BY <3>1, RowOfTable
    <3>3. \A row \in [id : Int, raw : Int] : row.raw \in Int
      OBVIOUS
    <3> QED
      BY <3>2, <3>3
  <2> QED
    BY <2>1
<1>2. CASE rows = {}
  BY <1>2 DEF Attribute
<1>3. CASE rows # {}
  <2>1. Len(table) \in Nat /\ rows \in SUBSET (1..Len(table))
    OBVIOUS
  <2>2. Max(rows) \in rows
    BY <1>3, <2>1, MaxOf
  <2>3. Max(rows) \in DOMAIN table /\ table[Max(rows)].id = id
    BY <2>2
  <2>4. Attribute(table, id) = table[Max(rows)].raw
    BY <1>3 DEF Attribute
  <2> QED
    BY <1>1, <2>3, <2>4
<1> QED
  BY <1>2, <1>3

\* A worse value has no better colour.
LEMMA ThresholdMonotone ==
  ASSUME NEW a \in Int, NEW b \in Int, a <= b, NEW warn \in Int, NEW crit \in Int
  PROVE  Rank(ThresholdStatus(a, warn, crit)) <= Rank(ThresholdStatus(b, warn, crit))
BY DEF Rank, ThresholdStatus, Green

\* The health call changes no other field.
LEMMA AfterAttributes ==
  ASSUME NEW cfg, NEW answer
  PROVE  LET after == ParseAttributes(ParseIdentity(BlankInfo, answer.identity),
                                      answer.attributes, cfg)
         IN  /\ ReadDisk(cfg, answer).celsius = after.celsius
             /\ ReadDisk(cfg, answer).celsiusStatus = after.celsiusStatus
             /\ ReadDisk(cfg, answer).count = after.count
             /\ ReadDisk(cfg, answer).status = after.status
<1> DEFINE after == ParseAttributes(ParseIdentity(BlankInfo, answer.identity),
                                    answer.attributes, cfg)
<1>1. ReadDisk(cfg, answer) = ParseHealth(after, answer.health)
  BY DEF ReadDisk
<1>2. \A info : /\ ParseHealth(info, answer.health).celsius = info.celsius
                /\ ParseHealth(info, answer.health).celsiusStatus = info.celsiusStatus
                /\ ParseHealth(info, answer.health).count = info.count
                /\ ParseHealth(info, answer.health).status = info.status
  BY DEF ParseHealth
<1> HIDE DEF after
<1>3. /\ ReadDisk(cfg, answer).celsius = after.celsius
      /\ ReadDisk(cfg, answer).celsiusStatus = after.celsiusStatus
      /\ ReadDisk(cfg, answer).count = after.count
      /\ ReadDisk(cfg, answer).status = after.status
  BY <1>1, <1>2
<1> QED
  BY <1>3 DEF after

NotRead(answer) == answer.attributes \in {Failed, Garbage}

\* Attributes that were not read leave every colour empty.
LEMMA AttributesNotRead ==
  ASSUME NEW cfg, NEW answer, NotRead(answer)
  PROVE  /\ ReadDisk(cfg, answer).celsiusStatus = ""
         /\ \A id \in Counted : ReadDisk(cfg, answer).status[id] = ""
<1> DEFINE before == ParseIdentity(BlankInfo, answer.identity)
<1>1. ParseAttributes(before, answer.attributes, cfg) = before
  BY DEF ParseAttributes, NotRead
<1>2. before.celsiusStatus = "" /\ before.status = [id \in Counted |-> ""]
  BY DEF ParseIdentity, BlankInfo
<1>3. /\ ReadDisk(cfg, answer).celsiusStatus = before.celsiusStatus
      /\ ReadDisk(cfg, answer).status = before.status
  BY <1>1, AfterAttributes
<1> QED
  BY <1>2, <1>3

\* Attributes that were read give the temperature, the counts and their colours.
LEMMA AttributesRead ==
  ASSUME NEW cfg, NEW answer, ~NotRead(answer)
  PROVE  /\ ReadDisk(cfg, answer).celsius = Celsius(answer.attributes)
         /\ Celsius(answer.attributes) = NoTemp => ReadDisk(cfg, answer).celsiusStatus = ""
         /\ \A id \in Counted :
              /\ ReadDisk(cfg, answer).count[id] = Attribute(answer.attributes, id)
              /\ ReadDisk(cfg, answer).status[id] =
                   ThresholdStatus(Attribute(answer.attributes, id), cfg.warn[id], cfg.crit[id])
<1> DEFINE before == ParseIdentity(BlankInfo, answer.identity)
           after == FromTable(before, answer.attributes, cfg)
<1>1. ParseAttributes(before, answer.attributes, cfg) = after
  BY DEF ParseAttributes, NotRead
<1>2. "celsius" \in DOMAIN before /\ "celsiusStatus" \in DOMAIN before
  BY DEF ParseIdentity, BlankInfo
<1>3. "count" \in DOMAIN before /\ "status" \in DOMAIN before
  BY DEF ParseIdentity, BlankInfo
<1>4. /\ ReadDisk(cfg, answer).celsius = after.celsius
      /\ ReadDisk(cfg, answer).celsiusStatus = after.celsiusStatus
      /\ ReadDisk(cfg, answer).count = after.count
      /\ ReadDisk(cfg, answer).status = after.status
  BY <1>1, AfterAttributes
<1> HIDE DEF before
<1>5. ReadDisk(cfg, answer).celsius = Celsius(answer.attributes)
  BY <1>2, <1>4 DEF FromTable
<1>6. Celsius(answer.attributes) = NoTemp => ReadDisk(cfg, answer).celsiusStatus = ""
  BY <1>2, <1>4 DEF FromTable
<1>7. ReadDisk(cfg, answer).count = [id \in Counted |-> Attribute(answer.attributes, id)]
  BY <1>3, <1>4 DEF FromTable
<1>8. ReadDisk(cfg, answer).status =
        [id \in Counted |->
          ThresholdStatus(Attribute(answer.attributes, id), cfg.warn[id], cfg.crit[id])]
  BY <1>3, <1>4 DEF FromTable
<1> QED
  BY <1>5, <1>6, <1>7, <1>8

\* PASSED needs the answer that the disk passed.
LEMMA HealthRead ==
  ASSUME NEW cfg, NEW answer \in Answers, ReadDisk(cfg, answer).health = "PASSED"
  PROVE  answer.health = TRUE
<1> DEFINE before ==
      ParseAttributes(ParseIdentity(BlankInfo, answer.identity), answer.attributes, cfg)
<1>1. ReadDisk(cfg, answer) = ParseHealth(before, answer.health)
  BY DEF ReadDisk
<1> QED
  BY <1>1 DEF ParseHealth, Answers

\* A row of the result is what readDisk makes of the answers of its device.
LEMMA RowRead ==
  ASSUME Computed, Done("smart"), NEW i \in DOMAIN result
  PROVE  /\ Answer(said.answers, result[i].dev) \in Answers
         /\ result[i].info = ReadDisk(said.cfg, Answer(said.answers, result[i].dev))
<1>1. TypedSmart(said) /\ result = Smart(said) /\ result # Failed
  BY DEF Computed, Done
<1>2. said.lines # Failed
  BY <1>1 DEF Smart
<1>3. PICK dev, id : result[i] =
        [id |-> id, dev |-> dev, info |-> ReadDisk(said.cfg, Answer(said.answers, dev))]
  BY <1>1, <1>2 DEF Smart
<1>4. result[i].info = ReadDisk(said.cfg, Answer(said.answers, result[i].dev))
  BY <1>3
<1>5. NoDevice \in Answers
  BY DEF NoDevice, Answers
<1>6. \A d : Answer(said.answers, d) \in Answers
  BY <1>1, <1>5 DEF Answer, TypedSmart
<1> QED
  BY <1>4, <1>6

\* Green values and passed tests come from answers (Collectors, GreenWasAnswered), and
\* the counts among them from rows of their attribute where the table has one.
THEOREM GreenCorrect == CollectorsSpec => []GreenWasAnswered
<1>1. Computed => GreenWasAnswered
  <2> SUFFICES ASSUME Computed, Done("smart"), NEW i \in DOMAIN result
               PROVE  LET answer == Answer(said.answers, result[i].dev)
                          info == result[i].info
                          read == answer.attributes \notin {Failed, Garbage}
                          Says(id, raw) == \E k \in DOMAIN answer.attributes :
                                             /\ answer.attributes[k].id = id
                                             /\ answer.attributes[k].raw = raw
                          Has(id) == \E k \in DOMAIN answer.attributes :
                                       answer.attributes[k].id = id
                      IN  /\ info.health = "PASSED" => answer.health = TRUE
                          /\ info.celsiusStatus = Green =>
                               /\ read /\ info.celsius > 0
                               /\ \E id \in {190, 194} : Says(id, info.celsius)
                          /\ \A id \in Counted : info.status[id] = Green =>
                               /\ read
                               /\ IF Has(id) THEN Says(id, info.count[id])
                                  ELSE info.count[id] = 0
    BY DEF GreenWasAnswered
  <2> DEFINE answer == Answer(said.answers, result[i].dev)
             info == result[i].info
             table == answer.attributes
             Says(id, raw) == \E k \in DOMAIN table : table[k].id = id /\ table[k].raw = raw
             Has(id) == \E k \in DOMAIN table : table[k].id = id
  <2>1. answer \in Answers /\ info = ReadDisk(said.cfg, answer)
    BY RowRead
  <2> HIDE DEF answer, info
  <2>2. info.health = "PASSED" => answer.health = TRUE
    BY <2>1, HealthRead
  <2>3. CASE NotRead(answer)
    <3>1. info.celsiusStatus = "" /\ \A id \in Counted : info.status[id] = ""
      BY <2>1, <2>3, AttributesNotRead
    <3> QED
      BY <2>2, <3>1 DEF Green, answer, info
  <2>4. CASE ~NotRead(answer)
    <3>1. info.celsius = Celsius(table)
      BY <2>1, <2>4, AttributesRead
    <3>2. Celsius(table) = NoTemp => info.celsiusStatus = ""
      BY <2>1, <2>4, AttributesRead
    <3>3. table \in Seq([id : Int, raw : Int])
      BY <2>1, <2>4 DEF Answers, NotRead
    <3>4. \A id : /\ Attribute(table, id) \in Int
                  /\ Has(id) => Says(id, Attribute(table, id))
                  /\ ~Has(id) => Attribute(table, id) = 0
      BY <3>3, AttributeCorrect
    <3> HIDE DEF Says, Has
    <3>5. \A id : Attribute(table, id) > 0 => Says(id, Attribute(table, id))
      <4>1. ASSUME NEW id, Attribute(table, id) > 0
            PROVE  Says(id, Attribute(table, id))
        <5>1. Has(id)
          BY <3>4, <4>1
        <5> QED
          BY <3>4, <5>1
      <4> QED
        BY <4>1
    <3>6. \/ Celsius(table) = NoTemp
          \/ Celsius(table) = Attribute(table, 194) /\ Attribute(table, 194) > 0
          \/ Celsius(table) = Attribute(table, 190) /\ Attribute(table, 190) > 0
      BY DEF Celsius
    <3>7. info.celsiusStatus = Green =>
            info.celsius > 0 /\ \E id \in {190, 194} : Says(id, info.celsius)
      BY <3>1, <3>2, <3>5, <3>6 DEF Green
    <3>8. \A id \in Counted : IF Has(id) THEN Says(id, info.count[id]) ELSE info.count[id] = 0
      <4>1. \A id \in Counted : info.count[id] = Attribute(table, id)
        BY <2>1, <2>4, AttributesRead
      <4> QED
        BY <3>4, <4>1
    <3>9. /\ answer.attributes \notin {Failed, Garbage}
          /\ info.celsiusStatus = Green =>
               info.celsius > 0 /\ \E id \in {190, 194} : Says(id, info.celsius)
          /\ \A id \in Counted : IF Has(id) THEN Says(id, info.count[id]) ELSE info.count[id] = 0
      BY <2>4, <3>7, <3>8 DEF NotRead
    <3> QED
      BY <2>2, <3>9 DEF answer, info, Says, Has
  <2> QED
    BY <2>3, <2>4
<1> QED
  BY <1>1, ComputedCorrect, PTL

\* Of two disks whose counts were read the one with the higher count has no better
\* colour (Collectors, WorseIsNoBetter), whatever the thresholds.
THEOREM WorseCorrect == CollectorsSpec => []WorseIsNoBetter
<1>1. Computed => WorseIsNoBetter
  <2> SUFFICES ASSUME Computed, Done("smart"),
                      NEW i \in DOMAIN result, NEW j \in DOMAIN result, NEW id \in Counted,
                      result[i].info.status[id] # "", result[j].info.status[id] # "",
                      result[i].info.count[id] <= result[j].info.count[id]
               PROVE  Rank(result[i].info.status[id]) <= Rank(result[j].info.status[id])
    BY DEF WorseIsNoBetter
  <2>1. said.cfg.warn[id] \in Int /\ said.cfg.crit[id] \in Int
    BY DEF Computed, Done, TypedSmart
  <2>2. ASSUME NEW k \in DOMAIN result, result[k].info.status[id] # ""
        PROVE  /\ result[k].info.count[id] \in Int
               /\ result[k].info.status[id] =
                    ThresholdStatus(result[k].info.count[id],
                                    said.cfg.warn[id], said.cfg.crit[id])
    <3> DEFINE answer == Answer(said.answers, result[k].dev)
               info == result[k].info
               table == answer.attributes
    <3>1. answer \in Answers /\ info = ReadDisk(said.cfg, answer)
      BY RowRead
    <3>2. info.status[id] # ""
      BY <2>2
    <3> HIDE DEF answer, info
    <3>3. NotRead(answer) => \A x \in Counted : info.status[x] = ""
      BY <3>1, AttributesNotRead
    <3>4. ~NotRead(answer)
      BY <3>2, <3>3
    <3>5. table \in Seq([id : Int, raw : Int])
      BY <3>1, <3>4 DEF Answers, NotRead
    <3>6. Attribute(table, id) \in Int
      BY <3>5, AttributeCorrect
    <3>7. \A x \in Counted :
            /\ info.count[x] = Attribute(table, x)
            /\ info.status[x] =
                 ThresholdStatus(Attribute(table, x), said.cfg.warn[x], said.cfg.crit[x])
      BY <3>1, <3>4, AttributesRead
    <3> QED
      BY <3>6, <3>7 DEF info
  <2> QED
    BY <2>1, <2>2, ThresholdMonotone, ZenonT(30)
<1> QED
  BY <1>1, ComputedCorrect, PTL

-----------------------------------------------------------------------------
(* Disks *)

DiscoverFold == INSTANCE FoldProofs WITH Op <- Note, base <- <<>>

\* The disks are discovered line by line.
LEMMA DiscoverTurns ==
  ASSUME NEW T, NEW q \in Seq(T)
  PROVE  \E f : /\ f[0] = <<>> /\ \A k \in 1..Len(q) : f[k] = Note(f[k - 1], q[k])
                /\ DiscoverDevices(q) = f[Len(q)]
BY DiscoverFold!Folded
   DEF DiscoverFold!Turns, DiscoverDevices, FoldLeft, DiscoverFold!FoldLeft, MapThenFoldSet,
       DiscoverFold!MapThenFoldSet, Max, DiscoverFold!Max

\* Line i names disk d, and is the first that does.
Names(lines, d, i) == IsDevice(lines[i]) /\ lines[i].id = d
First(lines, d, i) == Names(lines, d, i) /\ \A j \in 1..i - 1 : ~Names(lines, d, j)

\* The disks that the first n lines name, each once, in the order of the first mention.
Discovered(devices, lines, n) ==
  /\ devices \in Seq(ToSet(devices))
  /\ \A d : d \in ToSet(devices) <=> \E i \in 1..n : Names(lines, d, i)
  /\ \A i, j \in DOMAIN devices : i < j =>
       \A p, q \in 1..n :
         First(lines, devices[i], p) /\ First(lines, devices[j], q) => p < q

\* One line keeps this so.
LEMMA DiscoveredLine ==
  ASSUME NEW lines, NEW n \in Nat, NEW devices, Discovered(devices, lines, n)
  PROVE  Discovered(Note(devices, lines[n + 1]), lines, n + 1)
<1>1. /\ DOMAIN devices = 1..Len(devices) /\ Len(devices) \in Nat
      /\ devices \in Seq(ToSet(devices))
      /\ \A d : d \in ToSet(devices) <=> \E i \in DOMAIN devices : devices[i] = d
  BY DEF Discovered, ToSet
<1>2. /\ \A i \in 1..n + 1 : i = n + 1 \/ i \in 1..n
      /\ \A i \in 1..n : i \in 1..n + 1 /\ i < n + 1 /\ i \in 1..(n + 1) - 1
      /\ n + 1 \in 1..n + 1
  OBVIOUS
<1>3. CASE IsDevice(lines[n + 1]) /\ lines[n + 1].id \notin ToSet(devices)
  <2>1. PICK id : id = lines[n + 1].id
    OBVIOUS
  <2>2. PICK more : more = Append(devices, id)
    OBVIOUS
  <2>3. Note(devices, lines[n + 1]) = more /\ Names(lines, id, n + 1) /\ id \notin ToSet(devices)
    BY <1>3, <2>1, <2>2 DEF Note, Names
  <2>4. /\ DOMAIN more = 1..Len(devices) + 1
        /\ \A i \in 1..Len(devices) : more[i] = devices[i]
        /\ more[Len(devices) + 1] = id
    BY <1>1, <2>2
  <2>5. \A i \in 1..Len(devices) + 1 : i = Len(devices) + 1 \/ i \in 1..Len(devices)
    BY <1>1
  <2>6. \A d : d \in ToSet(more) <=> d = id \/ d \in ToSet(devices)
    <3>1. Len(devices) + 1 \in 1..Len(devices) + 1
          /\ \A i \in 1..Len(devices) : i \in 1..Len(devices) + 1
      BY <1>1
    <3> QED
      BY <1>1, <2>4, <2>5, <3>1 DEF ToSet
  <2>7. \A d : d \in ToSet(more) <=> \E i \in 1..n + 1 : Names(lines, d, i)
    <3>1. \A d : Names(lines, d, n + 1) <=> d = id
      BY <1>3, <2>1 DEF Names
    <3> QED
      BY <1>2, <2>6, <3>1 DEF Discovered
  <2>8. more \in Seq(ToSet(more))
    <3>1. \A d \in ToSet(devices) : d \in ToSet(more)
      BY <2>6
    <3>2. devices \in Seq(ToSet(more)) /\ id \in ToSet(more)
      BY <1>1, <2>6, <3>1
    <3> QED
      BY <2>2, <3>2
  <2>9. ASSUME NEW i \in DOMAIN more, NEW j \in DOMAIN more, i < j,
               NEW p \in 1..n + 1, NEW q \in 1..n + 1,
               First(lines, more[i], p), First(lines, more[j], q)
        PROVE  p < q
    <3>1. i \in 1..Len(devices) /\ more[i] = devices[i] /\ devices[i] \in ToSet(devices)
      BY <1>1, <2>4, <2>5, <2>9
    <3>2. p \in 1..n
      <4>1. PICK l \in 1..n : Names(lines, devices[i], l)
        BY <3>1 DEF Discovered
      <4>2. CASE p = n + 1
        BY <1>2, <2>9, <3>1, <4>1, <4>2 DEF First
      <4> QED
        BY <1>2, <4>2
    <3>3. CASE j = Len(devices) + 1
      <4>1. more[j] = id
        BY <2>4, <3>3
      <4>2. \A l \in 1..n : ~Names(lines, id, l)
        BY <2>3 DEF Discovered
      <4>3. q \notin 1..n
        BY <2>9, <4>1, <4>2 DEF First
      <4> QED
        BY <1>2, <3>2, <4>3
    <3>4. CASE j \in 1..Len(devices)
      <4>1. more[j] = devices[j] /\ devices[j] \in ToSet(devices)
        BY <1>1, <2>4, <3>4
      <4>2. PICK l \in 1..n : Names(lines, devices[j], l)
        BY <4>1 DEF Discovered
      <4>3. q \in 1..n
        <5>1. CASE q = n + 1
          BY <1>2, <2>9, <4>1, <4>2, <5>1 DEF First
        <5> QED
          BY <1>2, <5>1
      <4> QED
        BY <1>1, <2>9, <3>1, <3>2, <3>4, <4>1, <4>3 DEF Discovered
    <3> QED
      BY <2>4, <2>5, <3>3, <3>4
  <2> QED
    BY <2>3, <2>7, <2>8, <2>9 DEF Discovered
<1>4. CASE ~(IsDevice(lines[n + 1]) /\ lines[n + 1].id \notin ToSet(devices))
  <2>1. Note(devices, lines[n + 1]) = devices
    BY <1>4 DEF Note
  <2>2. \A d : Names(lines, d, n + 1) => d \in ToSet(devices)
    BY <1>4 DEF Names
  <2>3. \A d : d \in ToSet(devices) <=> \E i \in 1..n + 1 : Names(lines, d, i)
    BY <1>2, <2>2 DEF Discovered
  <2>4. ASSUME NEW i \in DOMAIN devices, NEW p \in 1..n + 1, First(lines, devices[i], p)
        PROVE  p \in 1..n
    <3>1. PICK l \in 1..n : Names(lines, devices[i], l)
      BY <1>1 DEF Discovered
    <3>2. CASE p = n + 1
      BY <1>2, <2>4, <3>1, <3>2 DEF First
    <3> QED
      BY <1>2, <3>2
  <2> QED
    BY <2>1, <2>3, <2>4 DEF Discovered
<1> QED
  BY <1>3, <1>4

\* After all lines the disks they name are there.
LEMMA DisksDiscovered ==
  ASSUME NEW lines, IsLines(lines)
  PROVE  Discovered(DiscoverDevices(lines), lines, Len(lines))
<1>1. lines \in Seq(ToSet(lines)) /\ Len(lines) \in Nat
  BY DEF IsLines
<1>2. PICK f : /\ f[0] = <<>> /\ \A k \in 1..Len(lines) : f[k] = Note(f[k - 1], lines[k])
               /\ DiscoverDevices(lines) = f[Len(lines)]
  BY <1>1, DiscoverTurns
<1> DEFINE N == {n \in Nat : n <= Len(lines) => Discovered(f[n], lines, n)}
<1>3. 0 \in N
  <2>1. ToSet(<<>>) = {} /\ <<>> \in Seq({}) /\ DOMAIN <<>> = {}
    BY DEF ToSet
  <2>2. Discovered(<<>>, lines, 0)
    BY <2>1 DEF Discovered
  <2> QED
    BY <1>2, <2>2
<1>4. ASSUME NEW n \in Nat, n \in N
      PROVE  n + 1 \in N
  <2> SUFFICES ASSUME n + 1 <= Len(lines)
               PROVE  Discovered(f[n + 1], lines, n + 1)
    OBVIOUS
  <2>1. n + 1 \in 1..Len(lines) /\ (n + 1) - 1 = n /\ n <= Len(lines)
    BY <1>1
  <2>2. f[n + 1] = Note(f[n], lines[n + 1])
    BY <1>2, <2>1
  <2>3. Discovered(f[n], lines, n)
    BY <1>4, <2>1
  <2> QED
    BY <2>2, <2>3, DiscoveredLine
<1>5. Nat \subseteq N
  <2> HIDE DEF N
  <2> QED
    BY <1>3, <1>4, NatSetInduction
<1> QED
  BY <1>1, <1>2, <1>5

\* The device that a disk is read from has the disk's number.
LEMMA DeviceResolved ==
  ASSUME NEW id, NEW number, NEW entries, IsLines(entries)
  PROVE  number[ResolveDevice(id, number, entries)] = number[id]
<1> DEFINE same == {i \in DOMAIN entries :
                      entries[i].block /\ number[entries[i].name] = number[id]}
<1>1. CASE number[id] = Failed \/ same = {}
  BY <1>1 DEF ResolveDevice
<1>2. CASE ~(number[id] = Failed \/ same = {})
  <2>1. Len(entries) \in Nat /\ same \in SUBSET (1..Len(entries))
    BY DEF IsLines
  <2>2. \E i \in same : \A j \in same : i <= j
    BY <1>2, <2>1, Least
  <2>3. Min(same) \in same
    BY <2>2 DEF Min
  <2>4. ResolveDevice(id, number, entries) = entries[Min(same)].name
    BY <1>2 DEF ResolveDevice
  <2> QED
    BY <2>3, <2>4
<1> QED
  BY <1>1, <1>2

\* There is one row for each disk that zpool status names, in the order of the first
\* mention, and it was read from a device of that disk (Collectors, DisksAsListed),
\* whatever the lines and the entries of /dev are.
THEOREM DisksCorrect == CollectorsSpec => []DisksAsListed
<1>1. Computed => DisksAsListed
  <2> SUFFICES ASSUME Computed, Done("smart")
               PROVE  DisksAsListed
    BY DEF DisksAsListed
  <2> DEFINE lines == said.lines
             first(d) == CHOOSE i \in DOMAIN lines :
                           /\ IsDevice(lines[i]) /\ lines[i].id = d
                           /\ \A j \in 1..i - 1 : ~(IsDevice(lines[j]) /\ lines[j].id = d)
             disks == {lines[i].id : i \in {j \in DOMAIN lines : IsDevice(lines[j])}}
  <2>1. TypedSmart(said) /\ result = Smart(said) /\ lines # Failed
    BY DEF Computed, Done, Smart
  <2>2. IsLines(lines) /\ IsLines(said.entries)
    BY <2>1 DEF TypedSmart
  <2>3. PICK devices : devices = DiscoverDevices(lines)
    OBVIOUS
  <2>4. /\ DOMAIN result = DOMAIN devices
        /\ \A i \in DOMAIN devices :
             /\ result[i].id = devices[i]
             /\ result[i].dev = ResolveDevice(devices[i], said.number, said.entries)
    BY <2>1, <2>3 DEF Smart
  <2> HIDE DEF lines
  <2>5. PICK n \in Nat : n = Len(lines) /\ DOMAIN lines = 1..n
    BY <2>2 DEF IsLines
  <2>6. Discovered(devices, lines, n)
    BY <2>2, <2>3, <2>5, DisksDiscovered
  <2>7. {result[i].id : i \in DOMAIN result} = disks
    <3>1. \A d : d \in {result[i].id : i \in DOMAIN result} <=> d \in ToSet(devices)
      BY <2>4 DEF ToSet
    <3>2. \A d : d \in disks <=> \E i \in 1..n : Names(lines, d, i)
      BY <2>5 DEF Names
    <3>3. \A d : d \in ToSet(devices) <=> \E i \in 1..n : Names(lines, d, i)
      BY <2>6 DEF Discovered
    <3> HIDE DEF disks
    <3> QED
      BY <3>1, <3>2, <3>3
  <2>8. \A d : first(d) = CHOOSE i \in 1..n : First(lines, d, i)
    BY <2>5 DEF First, Names
  <2> HIDE DEF first, disks
  <2>9. ASSUME NEW i \in DOMAIN devices
        PROVE  first(devices[i]) \in 1..n /\ First(lines, devices[i], first(devices[i]))
    <3>1. PICK d : d = devices[i]
      OBVIOUS
    <3>2. d \in ToSet(devices)
      BY <3>1 DEF ToSet
    <3>3. \E p \in 1..n : Names(lines, d, p)
      BY <2>6, <3>2 DEF Discovered
    <3>4. PICK named : named = {p \in 1..n : Names(lines, d, p)}
      OBVIOUS
    <3>5. PICK p \in named : \A j \in named : p <= j
      BY <3>3, <3>4, Least
    <3>6. First(lines, d, p) /\ p \in 1..n
      <4>1. \A j \in 1..p - 1 : j \in 1..n /\ ~(p <= j)
        BY <3>4
      <4> QED
        BY <3>4, <3>5, <4>1 DEF First
    <3> QED
      BY <2>8, <3>1, <3>6
  <2>10. ASSUME NEW i \in DOMAIN result, NEW j \in DOMAIN result, i < j
         PROVE  first(result[i].id) < first(result[j].id)
    BY <2>4, <2>6, <2>9, <2>10 DEF Discovered
  <2>11. ASSUME NEW i \in DOMAIN result
         PROVE  said.number[result[i].dev] = said.number[result[i].id]
    BY <2>2, <2>4, <2>11, DeviceResolved
  <2> QED
    BY <2>7, <2>10, <2>11 DEF DisksAsListed, first, disks, lines
<1> QED
  BY <1>1, ComputedCorrect, PTL

-----------------------------------------------------------------------------
(* Files *)

\* What the users of a collection are.
LEMMA UsersOf ==
  ASSUME Computed, Done("files")
  PROVE  Found(said.out.find) /\ result.users = ParseUserUsage(said.out.find)
<1>1. /\ said \in FilesInputs /\ result # Failed
      /\ result = Files(said.out, said.root, said.readable)
  BY DEF Computed, Done
<1>2. said.out.find # Failed /\ result.users = ParseUserUsage(said.out.find)
  BY <1>1 DEF Files
<1>3. Found(said.out.find)
  BY <1>1, <1>2, FilesAssumption DEF Found
<1> QED
  BY <1>2, <1>3

\* Each slice has the blocks of its user's lines and no line with a number is left out
\* (Collectors, UsageAddsUp), whatever find prints.
THEOREM UsageCorrect == CollectorsSpec => []UsageAddsUp
<1>1. Computed => UsageAddsUp
  <2> SUFFICES ASSUME Computed, Done("files")
               PROVE  UsageAddsUp
    BY DEF UsageAddsUp
  <2> DEFINE find == said.out.find
             lines == {i \in DOMAIN said.out.find : said.out.find[i].blocks # Bad}
             person(i) == said.out.find[i].uid # Bad /\ said.out.find[i].uid >= 1000
             of(user) == {i \in lines :
                            IF person(i) THEN UserName[said.out.find[i].uid] = user
                            ELSE user = System}
  <2>1. Found(find) /\ result.users = ParseUserUsage(find)
    BY UsersOf
  <2>2. lines = CountedLines(find)
    BY DEF CountedLines
  <2>3. [i \in lines |-> 512 * said.out.find[i].blocks] = Bytes(find)
    BY <2>2 DEF Bytes
  <2>4. ASSUME NEW i \in lines
        PROVE  Owner(find[i].uid) = IF person(i) THEN UserName[find[i].uid] ELSE System
    <3>1. find[i].uid \in {Bad} \cup Nat
      BY <2>1 DEF Found
    <3>2. \A u \in Nat : ~(u < 1000) <=> u >= 1000
      OBVIOUS
    <3> QED
      BY <3>1, <3>2 DEF Owner, FirstUser
  <2>5. ASSUME NEW user
        PROVE  of(user) = LinesOf(find, user)
    <3>1. \A i \in lines : Owner(find[i].uid) = user <=>
             IF person(i) THEN UserName[find[i].uid] = user ELSE user = System
      BY <2>4
    <3> QED
      BY <2>2, <3>1 DEF LinesOf
  <2>6. PICK users, n : /\ users = result.users /\ n = Cardinality(Slices(find))
                        /\ n \in Nat /\ users \in [1..n -> Slices(find)]
                        /\ \A s \in Slices(find) : \E k \in 1..n : users[k] = s
    BY <2>1, UsersSorted
  <2>7. ASSUME NEW i \in lines
        PROVE  \E k \in DOMAIN users : users[k].user = Owner(find[i].uid)
    <3>1. Slice(find, Owner(find[i].uid)) \in Slices(find)
      BY <2>2 DEF Slices, Owners
    <3> QED
      BY <2>6, <3>1 DEF Slice
  <2>8. ASSUME NEW k \in DOMAIN users
        PROVE  users[k].size = SumFunctionOnSet(Bytes(find), LinesOf(find, users[k].user))
    <3>0. k \in 1..n /\ users[k] \in Slices(find)
      BY <2>6
    <3>1. PICK o \in Owners(find) : users[k] = Slice(find, o)
      BY <3>0 DEF Slices
    <3> QED
      BY <2>1, <3>1, TallyCorrect DEF Slice
  <2>9. \A i \in lines : \E k \in DOMAIN users :
          users[k].user = IF person(i) THEN UserName[find[i].uid] ELSE System
    BY <2>4, <2>7
  <2>10. ASSUME NEW k \in DOMAIN users
         PROVE  users[k].size = SumFunctionOnSet(Bytes(find), of(users[k].user))
    <3>1. of(users[k].user) = LinesOf(find, users[k].user)
      BY <2>5
    <3> QED
      BY <2>8, <3>1
  <2>11. \A i \in lines : \E k \in DOMAIN result.users :
           result.users[k].user = IF person(i) THEN UserName[said.out.find[i].uid] ELSE System
    BY <2>6, <2>9
  <2>12. ASSUME NEW k \in DOMAIN result.users
         PROVE  result.users[k].size =
                  SumFunctionOnSet([i \in lines |-> 512 * said.out.find[i].blocks],
                    {i \in lines :
                       IF person(i) THEN UserName[said.out.find[i].uid] = result.users[k].user
                       ELSE result.users[k].user = System})
    <3>1. of(result.users[k].user) =
            {i \in lines :
               IF person(i) THEN UserName[said.out.find[i].uid] = result.users[k].user
               ELSE result.users[k].user = System}
      OBVIOUS
    <3> HIDE DEF of
    <3> QED
      BY <2>3, <2>6, <2>10, <3>1, ZenonT(60)
  <2> QED
    BY <2>11, <2>12, Zenon DEF UsageAddsUp
<1> QED
  BY <1>1, ComputedCorrect, PTL

\* The order of the slices does not depend on that of find's lines and is the larger
\* slice first, ties by name (Collectors, PieStable), for any number of users.
THEOREM PieCorrect == CollectorsSpec => []PieStable
<1>1. Computed => PieStable
  <2> SUFFICES ASSUME Computed, Done("files")
               PROVE  PieStable
    BY DEF PieStable
  <2>1. Found(said.out.find) /\ result.users = ParseUserUsage(said.out.find)
    BY UsersOf
  <2>2. ParseUserUsage(Reverse(said.out.find)) = result.users
    BY <2>1, TallyReversed DEF ParseUserUsage
  <2>3. PICK users, n : /\ users = result.users /\ n \in Nat
                        /\ users \in [1..n -> Slices(said.out.find)]
                        /\ \A k, l \in 1..n : k < l => Before(users[k], users[l])
    BY <2>1, UsersSorted
  <2>4. \A i, j \in DOMAIN users :
          i < j => \/ users[i].size > users[j].size
                   \/ /\ users[i].size = users[j].size
                      /\ UserRank[users[i].user] < UserRank[users[j].user]
    BY <2>3 DEF Before
  <2> QED
    BY <2>2, <2>3, <2>4 DEF PieStable
<1> QED
  BY <1>1, ComputedCorrect, PTL

\* The tree is what is on disk (Collectors, TreeAsOnDisk): for every root, every set of
\* directories, every choice of the readable ones and every order of du's lines.
THEOREM TreeCorrect == CollectorsSpec => []TreeAsOnDisk
<1>1. Computed => TreeAsOnDisk
  <2> SUFFICES ASSUME Computed, Done("files"), Plain(said)
               PROVE  /\ DOMAIN result.tree = {Printed(said.root, d) : d \in Visible(said)}
                      /\ \A d \in Visible(said) :
                           /\ result.tree[Printed(said.root, d)].size = said.dirs[d]
                           /\ IsInjective(result.tree[Printed(said.root, d)].children)
                           /\ ToSet(result.tree[Printed(said.root, d)].children) =
                                {Printed(said.root, e) :
                                   e \in {f \in Visible(said) : f # <<>> /\ Front(f) = d}}
    BY DEF TreeAsOnDisk, Plain, Visible
  <2>1. /\ said \in FilesInputs /\ result # Failed
        /\ result = Files(said.out, said.root, said.readable)
    BY DEF Computed, Done
  <2>2. said.out.du # Failed
        /\ result.tree = CollectDirTree(said.out.du, said.root, said.readable)
    BY <2>1 DEF Files
  <2>3. Listed(said)
    BY <2>1, <2>2, FilesAssumption
  <2>4. PICK tree : /\ tree = result.tree /\ DOMAIN tree = Shows(said)
                    /\ \A d \in Visible(said) :
                         /\ tree[Printed(said.root, d)].size = said.dirs[d]
                         /\ IsInjective(tree[Printed(said.root, d)].children)
                         /\ ToSet(tree[Printed(said.root, d)].children) = ChildPaths(said, d)
    BY <2>2, <2>3, TreeParsed, Zenon
  <2> QED
    BY <2>4, Zenon DEF Shows, ChildPaths
<1> QED
  BY <1>1, ComputedCorrect, PTL

-----------------------------------------------------------------------------
(* ZFS *)

\* A counter of arcstats is a natural number.
LEMMA CounterCorrect ==
  ASSUME NEW out \in ZfsInputs, out.arc # Failed, NEW key
  PROVE  Counter(out.arc, key) \in Nat
<1> DEFINE set == {i \in DOMAIN out.arc : /\ Len(out.arc[i]) = 3 /\ out.arc[i][1] = key
                                          /\ out.arc[i][3] # Bad}
<1>1. CASE set = {}
  BY <1>1 DEF Counter
<1>2. CASE set # {}
  <2>1. Len(out.arc) \in Nat /\ set \in SUBSET (1..Len(out.arc))
    BY ZfsAssumption
  <2>2. Max(set) \in set
    BY <1>2, <2>1, MaxOf
  <2>3. Counter(out.arc, key) = out.arc[Max(set)][3]
    BY <1>2 DEF Counter
  <2> QED
    BY <2>2, <2>3, ZfsAssumption
<1> QED
  BY <1>1, <1>2

\* The thresholds of the hit rate, in whole numbers.
LEMMA StatusOfRate ==
  ASSUME NEW hits \in Nat, NEW misses \in Nat
  PROVE  /\ ARCStatus(hits, misses) = "green" <=> hits > 0 /\ hits >= 4 * misses
         /\ ARCStatus(hits, misses) = "red" <=> hits = 0 \/ hits < misses
BY DEF ARCStatus

\* The colour of the hit rate is that of the rate (Collectors, HitRateColour), for
\* all counters and without any access.
THEOREM HitRateCorrect == CollectorsSpec => []HitRateColour
<1>1. Computed => HitRateColour
  <2> SUFFICES ASSUME Computed, Done("zfs"), said.arc # Failed
               PROVE  /\ result.arc.status = "green" <=>
                           result.arc.hits > 0 /\ result.arc.hits >= 4 * result.arc.misses
                      /\ result.arc.status = "red" <=>
                           result.arc.hits = 0 \/ result.arc.hits < result.arc.misses
    BY DEF HitRateColour
  <2>1. said \in ZfsInputs /\ result = ZFS(said) /\ result # Failed
    BY DEF Computed, Done
  <2>2. result.arc = ParseARC(said.arc)
    BY <2>1 DEF ZFS
  <2>3. /\ result.arc.hits \in Nat /\ result.arc.misses \in Nat
        /\ result.arc.status = ARCStatus(result.arc.hits, result.arc.misses)
    BY <2>1, <2>2, CounterCorrect DEF ParseARC
  <2> QED
    BY <2>3, StatusOfRate
<1> QED
  BY <1>1, ComputedCorrect, PTL

-----------------------------------------------------------------------------
(* Snapshots *)

TotalFold == INSTANCE FoldProofs WITH Op <- AddUsed, base <- 0

\* The total is summed up snapshot by snapshot.
LEMMA TotalTurns ==
  ASSUME NEW T, NEW q \in Seq(T)
  PROVE  \E f : /\ f[0] = 0 /\ \A k \in 1..Len(q) : f[k] = f[k - 1] + q[k].used
                /\ Total(q) = f[Len(q)]
BY TotalFold!Folded
   DEF TotalFold!Turns, AddUsed, Total, FoldLeft, TotalFold!FoldLeft, MapThenFoldSet,
       TotalFold!MapThenFoldSet, Max, TotalFold!Max

\* The lines of three fields of a listing, and the number of each.
Full(lines) == {i \in DOMAIN lines : Len(lines[i]) = 3}
Used(lines) == [i \in Full(lines) |-> IF lines[i][2] = Bad THEN 0 ELSE lines[i][2]]

\* A listing of snapshots as ZfsAssumption has it, with names of one word.
Listing(lines) ==
  /\ IsLines(lines)
  /\ \A i \in DOMAIN lines :
       Len(lines[i]) \in 0..3 /\ (Len(lines[i]) >= 3 => lines[i][2] \in {Bad} \cup Nat)

\* The snapshots are those of the full lines, and their total that of the numbers.
LEMMA SnapshotsParsed ==
  ASSUME NEW lines, Listing(lines)
  PROVE  /\ Len(ParseSnapshots(lines)) = Cardinality(Full(lines))
         /\ Total(ParseSnapshots(lines)) = SumFunction(Used(lines))
<1> DEFINE at == {i \in DOMAIN lines : Len(lines[i]) >= 3}
           n == Cardinality(at)
<1>1. lines \in Seq(ToSet(lines)) /\ at \in SUBSET DOMAIN lines
  BY DEF Listing, IsLines
<1>2. at = Full(lines)
  <2>1. ASSUME NEW i \in DOMAIN lines
        PROVE  Len(lines[i]) >= 3 <=> Len(lines[i]) = 3
    <3>1. Len(lines[i]) \in 0..3
      BY DEF Listing
    <3> QED
      BY ONLY <3>1
  <2> QED
    BY <2>1 DEF Full
<1>3. /\ Kept(lines, at) \in Seq(ToSet(lines)) /\ DOMAIN Kept(lines, at) = 1..n
      /\ Ascending(at) \in [1..n -> at]
      /\ \A k \in 1..n : Kept(lines, at)[k] = lines[Ascending(at)[k]]
  BY <1>1, KeptProperties
<1>4. Len(lines) \in Nat /\ at \in SUBSET (1..Len(lines))
  BY <1>1
<1>5. n \in Nat /\ IsFiniteSet(at) /\ Enumerates(Ascending(at), n, at)
  BY <1>4, AscendingEnumerates
<1>6. PICK snapshots : snapshots = ParseSnapshots(lines)
  OBVIOUS
<1>7. /\ snapshots = [k \in 1..n |-> snapshots[k]]
      /\ \A k \in 1..n : snapshots[k].used = Used(lines)[Ascending(at)[k]]
  <2>1. snapshots = [k \in DOMAIN Kept(lines, at) |->
                      [name |-> Kept(lines, at)[k][1], dataset |-> Kept(lines, at)[k][1].dataset,
                       used |-> Int64(Kept(lines, at)[k][2]), creation |-> Kept(lines, at)[k][3]]]
    BY <1>6 DEF ParseSnapshots
  <2>2. ASSUME NEW k \in 1..n
        PROVE  snapshots[k].used = Used(lines)[Ascending(at)[k]]
    <3>1. Ascending(at)[k] \in Full(lines)
      BY <1>2, <1>3
    <3>2. snapshots[k].used = Int64(lines[Ascending(at)[k]][2])
      BY <1>3, <2>1
    <3> QED
      BY <3>1, <3>2 DEF Used, Int64
  <2> QED
    BY <1>3, <2>1, <2>2
<1> HIDE DEF at, n
<1>8. snapshots \in Seq(ToSet(snapshots)) /\ Len(snapshots) = n
  <2>1. DOMAIN snapshots = 1..n /\ \A k \in 1..n : snapshots[k] \in ToSet(snapshots)
    BY <1>7 DEF ToSet
  <2>2. snapshots \in [1..n -> ToSet(snapshots)]
    BY <1>7, <2>1
  <2> QED
    BY <1>5, <2>2
<1>9. PICK f : /\ f[0] = 0 /\ \A k \in 1..Len(snapshots) : f[k] = f[k - 1] + snapshots[k].used
               /\ Total(snapshots) = f[Len(snapshots)]
  BY <1>8, TotalTurns
<1>10. Sums(f, Ascending(at), Used(lines), n)
  BY <1>7, <1>8, <1>9 DEF Sums
<1>11. Integral(Used(lines), at) /\ DOMAIN Used(lines) = at
  BY <1>2 DEF Integral, Used, Full, Listing
<1>12. f[n] = SumFunctionOnSet(Used(lines), at)
  BY <1>5, <1>10, <1>11, SumInOrder
<1>13. SumFunction(Used(lines)) = SumFunctionOnSet(Used(lines), at)
  BY <1>11 DEF SumFunction
<1> QED
  BY <1>2, <1>6, <1>8, <1>9, <1>12, <1>13 DEF n

\* The count and the total of the snapshots are those of the lines printed
\* (Collectors, SnapshotsAddUp), for listings of any length.
THEOREM SnapshotsCorrect == CollectorsSpec => []SnapshotsAddUp
<1>1. Computed => SnapshotsAddUp
  <2> SUFFICES ASSUME Computed, Done("zfs")
               PROVE  SnapshotsAddUp
    BY DEF SnapshotsAddUp
  <2>1. said \in ZfsInputs /\ result = ZFS(said) /\ result # Failed
    BY DEF Computed, Done
  <2>2. PICK lines : lines = IF said.snapshots = Failed THEN <<>> ELSE said.snapshots
    OBVIOUS
  <2>3. PICK snapshots :
          snapshots = IF said.snapshots = Failed THEN <<>> ELSE ParseSnapshots(said.snapshots)
    OBVIOUS
  <2>4. result.snapshotCount = Len(snapshots) /\ result.snapshotTotal = Total(snapshots)
    BY <2>1, <2>3 DEF ZFS
  <2> SUFFICES ASSUME \A i \in DOMAIN lines : Len(lines[i]) <= 3
               PROVE  /\ Len(snapshots) = Cardinality(Full(lines))
                      /\ Total(snapshots) = SumFunction(Used(lines))
    BY <2>2, <2>4 DEF SnapshotsAddUp, Full, Used
  <2>5. CASE said.snapshots = Failed
    <3>1. lines = <<>> /\ snapshots = <<>>
      BY <2>2, <2>3, <2>5
    <3>2. Full(lines) = {}
      BY <3>1 DEF Full
    <3>3. Len(snapshots) = 0 /\ Cardinality(Full(lines)) = 0
      BY <3>1, <3>2, FS_EmptySet
    <3>4. Total(snapshots) = 0
      <4>1. snapshots \in Seq({})
        BY <3>1
      <4>2. \E f : f[0] = 0 /\ Total(snapshots) = f[Len(snapshots)]
        BY <4>1, TotalTurns
      <4> QED
        BY <3>3, <4>2
    <3>5. SumFunction(Used(lines)) = 0
      <4>1. DOMAIN Used(lines) = {} /\ IsFiniteSet({})
        BY <3>2, FS_EmptySet DEF Used
      <4>2. SumFunctionOnSet(Used(lines), {}) = 0
        BY <4>1, SumZero
      <4> QED
        BY <4>1, <4>2 DEF SumFunction
    <3> QED
      BY <3>3, <3>4, <3>5
  <2>6. CASE said.snapshots # Failed
    <3>1. lines = said.snapshots /\ snapshots = ParseSnapshots(lines)
      BY <2>2, <2>3, <2>6
    <3>2. \A i \in DOMAIN lines : Len(lines[i]) \in Nat
      BY <2>1, <2>6, <3>1, ZfsAssumption
    <3>3. \A i \in DOMAIN lines : Len(lines[i]) \in 0..3
      <4> TAKE i \in DOMAIN lines
      <4>1. Len(lines[i]) \in Nat /\ Len(lines[i]) <= 3
        BY <3>2
      <4>2. \A m \in Nat : m <= 3 => m \in 0..3
        OBVIOUS
      <4> QED
        BY <4>1, <4>2, Zenon
    <3>4. /\ IsLines(lines)
          /\ \A i \in DOMAIN lines : Len(lines[i]) >= 3 => lines[i][2] \in {Bad} \cup Nat
      BY <2>1, <2>6, <3>1, ZfsAssumption
    <3>5. Listing(lines)
      BY <3>3, <3>4 DEF Listing
    <3> QED
      BY <3>1, <3>5, SnapshotsParsed
  <2> QED
    BY <2>5, <2>6
<1> QED
  BY <1>1, ComputedCorrect, PTL

-----------------------------------------------------------------------------
(* Devices of the pool *)

StatusFold == INSTANCE FoldProofs WITH Op <- ScanStatusLine, base <- BeforeStatus

\* The status is read line by line.
LEMMA StatusTurns ==
  ASSUME NEW T, NEW q \in Seq(T)
  PROVE  \E f : /\ f[0] = BeforeStatus
                /\ \A k \in 1..Len(q) : f[k] = ScanStatusLine(f[k - 1], q[k])
                /\ ParseZpoolStatus(q) = f[Len(q)].pool
BY StatusFold!Folded
   DEF StatusFold!Turns, ParseZpoolStatus, FoldLeft, StatusFold!FoldLeft, MapThenFoldSet,
       StatusFold!MapThenFoldSet, Max, StatusFold!Max

\* A line below the config line with no other key between, as the loop has it ...
Inside(lines, i) ==
  \E c \in 1..i : lines[c].kind = "config" /\ \A k \in c..i : lines[k].kind # "key"
\* ... and the rows up to line n that are devices.
DeviceRows(lines, n) ==
  {i \in 1..n : /\ lines[i].kind = "row" /\ Inside(lines, i - 1)
                /\ lines[i].name \notin {PoolName, "NAME"}}

\* What the loop has after n lines: whether it is in the table, and a device for each row.
AfterLines(p, lines, n) ==
  /\ p.inConfig <=> Inside(lines, n)
  /\ p.pool.vdevs = [k \in 1..Cardinality(DeviceRows(lines, n)) |->
                      VDev(lines[Ascending(DeviceRows(lines, n))[k]])]

\* One line keeps this so.
LEMMA AfterLine ==
  ASSUME NEW lines, NEW n \in Nat, NEW p, AfterLines(p, lines, n)
  PROVE  AfterLines(ScanStatusLine(p, lines[n + 1]), lines, n + 1)
<1> DEFINE line == lines[n + 1]
           S == DeviceRows(lines, n)
           T == DeviceRows(lines, n + 1)
           C == Cardinality(S)
<1>1. PICK r : r = ScanStatusLine(p, line)
  OBVIOUS
<1>2. /\ r.inConfig <=> line.kind = "config" \/ (p.inConfig /\ line.kind # "key")
      /\ r.pool.vdevs = IF IsVDev(p, line) THEN Append(p.pool.vdevs, VDev(line))
                        ELSE p.pool.vdevs
  BY <1>1 DEF ScanStatusLine
<1>3. Inside(lines, n + 1) <=> line.kind = "config" \/ (Inside(lines, n) /\ line.kind # "key")
  <2>1. \A c \in 1..n + 1 : c = n + 1 \/ c \in 1..n
    OBVIOUS
  <2>2. \A c \in 1..n : \A k \in c..n + 1 : k = n + 1 \/ k \in c..n
    OBVIOUS
  <2>3. \A c \in 1..n : n + 1 \in c..n + 1 /\ \A k \in c..n : k \in c..n + 1
    OBVIOUS
  <2>4. \A k \in n + 1..n + 1 : k = n + 1
    OBVIOUS
  <2>5. \A c \in 1..n : c \in 1..n + 1
    OBVIOUS
  <2>6. n + 1 \in 1..n + 1 /\ n + 1 \in n + 1..n + 1
    OBVIOUS
  <2>7. ASSUME line.kind = "config"
        PROVE  Inside(lines, n + 1)
    <3>1. "config" # "key"
      OBVIOUS
    <3> QED
      BY <2>4, <2>6, <2>7, <3>1 DEF Inside
  <2>8. ASSUME Inside(lines, n), line.kind # "key"
        PROVE  Inside(lines, n + 1)
    BY <2>2, <2>5, <2>8 DEF Inside
  <2>9. ASSUME Inside(lines, n + 1)
        PROVE  line.kind = "config" \/ (Inside(lines, n) /\ line.kind # "key")
    <3>1. PICK c \in 1..n + 1 : lines[c].kind = "config" /\ \A k \in c..n + 1 : lines[k].kind # "key"
      BY <2>9 DEF Inside
    <3>2. CASE c = n + 1
      BY <3>1, <3>2
    <3>3. CASE c \in 1..n
      BY <2>3, <3>1, <3>3 DEF Inside
    <3> QED
      BY <2>1, <3>2, <3>3
  <2> QED
    BY <2>7, <2>8, <2>9
<1>4. T = IF IsVDev(p, line) THEN S \cup {n + 1} ELSE S
  <2>1. \A i \in 1..n + 1 : i = n + 1 \/ i \in 1..n
    OBVIOUS
  <2>2. \A i \in 1..n : i \in 1..n + 1
    OBVIOUS
  <2>3. n + 1 \in 1..n + 1 /\ n + 1 \notin 1..n /\ (n + 1) - 1 = n
    OBVIOUS
  <2>4. IsVDev(p, line) <=> n + 1 \in T
    BY <2>3 DEF IsVDev, DeviceRows, AfterLines
  <2>5. \A i \in 1..n : i \in S <=> i \in T
    BY <2>2 DEF DeviceRows
  <2>6. S \subseteq 1..n /\ T \subseteq 1..n + 1
    BY DEF DeviceRows
  <2> HIDE DEF S, T, line
  <2>7. n + 1 \in T => T = S \cup {n + 1}
    BY ONLY <2>1, <2>5, <2>6
  <2>8. n + 1 \notin T => T = S
    BY ONLY <2>1, <2>2, <2>5, <2>6
  <2> QED
    BY <2>4, <2>7, <2>8
<1>5. /\ S \in SUBSET (1..n) /\ C \in Nat
      /\ Cardinality(S \cup {n + 1}) = C + 1
      /\ \A k \in 1..C : Ascending(S \cup {n + 1})[k] = Ascending(S)[k]
      /\ Ascending(S \cup {n + 1})[C + 1] = n + 1
  <2>1. S \in SUBSET (1..n)
    BY DEF DeviceRows
  <2> QED
    BY <2>1, AscendingAppend
<1>6. p.pool.vdevs = [k \in 1..C |-> VDev(lines[Ascending(S)[k]])]
  BY DEF AfterLines
<1> HIDE DEF S, T, C
<1>7. r.pool.vdevs = [k \in 1..Cardinality(T) |-> VDev(lines[Ascending(T)[k]])]
  <2>1. CASE IsVDev(p, line)
    <3>1. PICK q : q = p.pool.vdevs
      OBVIOUS
    <3>2. /\ T = S \cup {n + 1} /\ r.pool.vdevs = Append(q, VDev(line))
          /\ q = [k \in 1..C |-> VDev(lines[Ascending(S)[k]])]
      BY <1>2, <1>4, <1>6, <2>1, <3>1
    <3>3. Len(q) = C /\ q \in Seq({VDev(lines[Ascending(S)[k]]) : k \in 1..C})
      BY <1>5, <3>2
    <3>4. Append(q, VDev(line)) = [k \in 1..C + 1 |-> IF k = C + 1 THEN VDev(line) ELSE q[k]]
      BY <1>5, <3>3
    <3>5. \A k \in 1..C + 1 : k = C + 1 \/ k \in 1..C
      BY <1>5
    <3>6. \A k \in 1..C + 1 :
            (IF k = C + 1 THEN VDev(line) ELSE q[k]) = VDev(lines[Ascending(T)[k]])
      BY <1>5, <3>2, <3>5
    <3>7. Cardinality(T) = C + 1
      BY <1>5, <3>2
    <3>8. [k \in 1..C + 1 |-> IF k = C + 1 THEN VDev(line) ELSE q[k]]
            = [k \in 1..C + 1 |-> VDev(lines[Ascending(T)[k]])]
      BY <3>6
    <3> QED
      BY <3>2, <3>4, <3>7, <3>8
  <2>2. CASE ~IsVDev(p, line)
    BY <1>2, <1>4, <1>6, <2>2 DEF C
  <2> QED
    BY <2>1, <2>2
<1> QED
  BY <1>1, <1>2, <1>3, <1>7 DEF AfterLines, T

\* After all lines there is a device for each row of the table, in their order.
LEMMA StatusParsed ==
  ASSUME NEW lines, IsLines(lines)
  PROVE  ParseZpoolStatus(lines).vdevs =
           [k \in 1..Cardinality(DeviceRows(lines, Len(lines))) |->
              VDev(lines[Ascending(DeviceRows(lines, Len(lines)))[k]])]
<1>1. lines \in Seq(ToSet(lines)) /\ Len(lines) \in Nat
  BY DEF IsLines
<1>2. PICK f : /\ f[0] = BeforeStatus
               /\ \A k \in 1..Len(lines) : f[k] = ScanStatusLine(f[k - 1], lines[k])
               /\ ParseZpoolStatus(lines) = f[Len(lines)].pool
  BY <1>1, StatusTurns
<1> DEFINE N == {n \in Nat : n <= Len(lines) => AfterLines(f[n], lines, n)}
<1>3. 0 \in N
  <2>1. ~Inside(lines, 0)
    BY DEF Inside
  <2>2. DeviceRows(lines, 0) = {}
    BY DEF DeviceRows
  <2>3. Cardinality(DeviceRows(lines, 0)) = 0
    BY <2>2, FS_EmptySet
  <2>4. ~f[0].inConfig /\ f[0].pool.vdevs = <<>>
    <3>1. f[0] = BeforeStatus
      BY <1>2
    <3>2. BeforeStatus.inConfig = FALSE /\ BeforeStatus.pool = EmptyPool
      BY DEF BeforeStatus
    <3>3. EmptyPool.vdevs = <<>>
      BY DEF EmptyPool
    <3>4. ~f[0].inConfig
      BY <3>1, <3>2, Zenon
    <3> QED
      BY <3>1, <3>2, <3>3, <3>4
  <2>5. AfterLines(f[0], lines, 0)
    BY <2>1, <2>3, <2>4 DEF AfterLines
  <2> QED
    BY <2>5
<1>4. ASSUME NEW n \in Nat, n \in N
      PROVE  n + 1 \in N
  <2> SUFFICES ASSUME n + 1 <= Len(lines)
               PROVE  AfterLines(f[n + 1], lines, n + 1)
    OBVIOUS
  <2>1. n + 1 \in 1..Len(lines) /\ (n + 1) - 1 = n /\ n <= Len(lines)
    BY <1>1
  <2>2. f[n + 1] = ScanStatusLine(f[n], lines[n + 1])
    BY <1>2, <2>1
  <2>3. AfterLines(f[n], lines, n)
    BY <1>4, <2>1
  <2> QED
    BY <2>2, <2>3, AfterLine
<1>5. Nat \subseteq N
  <2> HIDE DEF N
  <2> QED
    BY <1>3, <1>4, NatSetInduction
<1>6. AfterLines(f[Len(lines)], lines, Len(lines))
  BY <1>1, <1>5
<1> QED
  BY <1>2, <1>6 DEF AfterLines

\* The devices shown are the rows of the config table, in its order (Collectors,
\* DevicesOfConfig), whatever zpool prints above the table and however long it is.
THEOREM DevicesCorrect == CollectorsSpec => []DevicesOfConfig
<1>1. Computed => DevicesOfConfig
  <2> SUFFICES ASSUME Computed, Done("zfs")
               PROVE  DevicesOfConfig
    BY DEF DevicesOfConfig
  <2> DEFINE lines == said.pool
             inTable(i) == \E c \in 1..i - 1 :
                             /\ lines[c].kind = "config"
                             /\ \A k \in c..i : lines[k].kind \notin {"key", "errors"}
             rows == {i \in DOMAIN lines : /\ lines[i].kind = "row" /\ inTable(i)
                                           /\ lines[i].name \notin {PoolName, "NAME"}}
  <2>1. said \in ZfsInputs /\ result = ZFS(said) /\ result # Failed
    BY DEF Computed, Done
  <2>2. lines # Failed /\ result.pool = ParseZpoolStatus(lines)
    BY <2>1 DEF ZFS
  <2>3. /\ IsLines(lines)
        /\ \A i, j \in DOMAIN lines : i < j /\ lines[i].kind = "errors" => lines[j].kind # "row"
    BY <2>1, <2>2, ZfsAssumption
  <2> HIDE DEF lines
  <2>4. DOMAIN lines = 1..Len(lines) /\ Len(lines) \in Nat
    BY <2>3 DEF IsLines
  <2>5. ASSUME NEW i \in DOMAIN lines, lines[i].kind = "row"
        PROVE  inTable(i) <=> Inside(lines, i - 1)
    <3>1. i \in Nat /\ i \in 1..Len(lines)
      BY <2>4
    <3>2. \A c \in 1..i - 1 : \A k \in c..i : k = i \/ k \in c..i - 1
      BY <3>1
    <3>3. \A c \in 1..i - 1 : \A k \in c..i - 1 : k \in c..i /\ k \in DOMAIN lines /\ k < i
      BY <2>4, <3>1
    <3>4. \A c \in 1..i - 1 : \A k \in c..i - 1 : lines[k].kind # "errors"
      BY <2>3, <2>5, <3>3
    <3>5. inTable(i) => Inside(lines, i - 1)
      BY <3>3 DEF Inside
    <3>6. Inside(lines, i - 1) => inTable(i)
      BY <2>5, <3>2, <3>4 DEF Inside
    <3> QED
      BY <3>5, <3>6
  <2>6. rows = DeviceRows(lines, Len(lines))
    BY <2>4, <2>5 DEF DeviceRows
  <2> HIDE DEF rows
  <2>7. PICK vdevs : vdevs = result.pool.vdevs
    OBVIOUS
  <2>8. vdevs = [k \in 1..Cardinality(rows) |-> VDev(lines[Ascending(rows)[k]])]
    BY <2>2, <2>3, <2>6, <2>7, StatusParsed
  <2>9. /\ Cardinality(rows) \in Nat /\ Ascending(rows) \in [1..Cardinality(rows) -> rows]
    <3>1. rows \in SUBSET (1..Len(lines))
      BY <2>6 DEF DeviceRows
    <3> QED
      BY <2>4, <3>1, AscendingProperties
  <2>10. Len(vdevs) = Cardinality(rows) /\ Len(Ascending(rows)) = Cardinality(rows)
    BY <2>8, <2>9
  <2>11. ASSUME NEW k \in DOMAIN Ascending(rows)
         PROVE  /\ vdevs[k].name = lines[Ascending(rows)[k]].name
                /\ vdevs[k].state = lines[Ascending(rows)[k]].state
    <3>1. vdevs[k] = VDev(lines[Ascending(rows)[k]])
      BY <2>8, <2>9, <2>11
    <3> QED
      BY <3>1 DEF VDev
  <2> QED
    BY <2>7, <2>10, <2>11 DEF DevicesOfConfig, rows, lines
<1> QED
  BY <1>1, ComputedCorrect, PTL

=============================================================================
