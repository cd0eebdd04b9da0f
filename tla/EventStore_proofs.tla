-------------------------- MODULE EventStore_proofs --------------------------
(***************************************************************************)
(* What EventStore promises, for any events, workers, calendar, retention  *)
(* and crashes: rows, months and references fit each other, and reports    *)
(* count their day.                                                        *)
(*                                                                         *)
(* Of RangesAddUp MonthsTile is the part about sets.  The rest is a sum     *)
(* over the days of a month: that sums of the same terms are the same is   *)
(* shown on a smallest part on which they would differ.                    *)
(***************************************************************************)
EXTENDS EventStore, FiniteSetTheorems, WellFoundedInduction, TLAPS

WrittenOn(d) == {e \in Events : written[e] = d}

(* How old a read is at least when it goes.                                 *)
Bound == Min({least, MonthLen + 1})

(* A row is of the day it was written and in its month's partition or the   *)
(* default one, and none goes before its time.                              *)
RowsAreKnown ==
  \A e \in Events :
    /\ ev[e] # None => written[e] = ev[e].day /\ ev[e].home \in {None, MonthOf(ev[e].day)}
    /\ written[e] # None => written[e] <= today
    /\ written[e] # None /\ ev[e] = None => today - written[e] >= Bound

(* The exit of a stay that ended is its event's day.                        *)
ExitIsKnown ==
  left # None =>
    /\ left <= today /\ stay # None
    /\ stay.exit # None => ev[stay.exit] # None /\ ev[stay.exit].day = left

RowsInv == RowsAreKnown /\ ReferencesResolve /\ ExitIsKnown /\ ReopenedByRetentionOnly

(* Every month made in advance that is still to come is there, or in part   *)
(* in the default partition.                                                *)
MonthsInv ==
  \A m \in Months : MonthOf(today) <= m /\ m <= started + Ahead => m \in parts \/ WentToDefault(m)

(* No run keeps less than the shortest retention there was.                 *)
RetentionInv ==
  /\ least <= DefaultRetain
  /\ policy # None => least <= policy
  /\ \A w \in Workers : work[w].pc = "rows" =>
       work[w].job.kind = "retention" /\ work[w].retain >= least

(* Begun when the day was over, a count was right or late.                  *)
CountIsRight(d, total, begun) ==
  \/ total = Cardinality(WrittenOn(d))
  \/ begun - d >= Bound

(* A first count of a day that is over has not been overtaken.              *)
RunIsRight(w) ==
  LET d == work[w].job.day IN
  /\ work[w].job.kind = "report" /\ work[w].begun <= today
  /\ work[w].begun > d => /\ Cardinality(Daily(d)) <= work[w].total
                          /\ CountIsRight(d, work[w].total, work[w].begun)

(* Nor is what is stored.                                                   *)
EntryIsRight(d) ==
  /\ report[d].begun <= today
  /\ report[d].begun > d => /\ report[d].reads <= report[d].total
                            /\ CountIsRight(d, report[d].total, report[d].begun)

ReportsInv ==
  /\ \A w \in Workers : work[w].pc = "reads" => RunIsRight(w)
  /\ \A d \in Days : report[d] # None => EntryIsRight(d)

Inv == TypeOK /\ RowsInv /\ MonthsInv /\ RetentionInv /\ ReportsInv

USE StoreAssumption

(***************************************************************************)
(* Days, months and counts                                                 *)
(***************************************************************************)

(* The lesser of two numbers.                                               *)
LEMMA MinPair ==
  ASSUME NEW a \in Nat, NEW b \in Nat
  PROVE  Min({a, b}) = IF a <= b THEN a ELSE b
<1> DEFINE m == IF a <= b THEN a ELSE b
<1>1. m \in {a, b} /\ \A y \in {a, b} : m <= y
  OBVIOUS
<1>2. \A x \in {a, b} : (\A y \in {a, b} : x <= y) => x = m
  OBVIOUS
<1> HIDE DEF m
<1>3. (CHOOSE x \in {a, b} : \A y \in {a, b} : x <= y) = m
  BY <1>1, <1>2
<1>4. QED
  BY <1>3 DEF Min, m

(* Months follow each other as their days do.                               *)
LEMMA MonthOrder ==
  ASSUME NEW d \in Nat, NEW e \in Nat, d <= e
  PROVE  MonthOf(d) \in Nat /\ MonthOf(e) \in Nat /\ MonthOf(d) <= MonthOf(e)
  BY SMTT(30) DEF MonthOf

(* A day lies within its month.                                             *)
LEMMA MonthBounds ==
  ASSUME NEW d \in Nat
  PROVE  /\ MonthOf(d) \in Nat
         /\ MonthLen * MonthOf(d) <= d /\ d < MonthLen * MonthOf(d) + MonthLen
  BY SMTT(30) DEF MonthOf

(* A day whose month is two before another's is more than a month before it. *)
LEMMA MonthsApart ==
  ASSUME NEW d \in Nat, NEW e \in Nat, MonthOf(d) < MonthOf(e) - 1
  PROVE  e - d >= MonthLen + 1
<1> DEFINE p == MonthOf(d)
           q == MonthOf(e)
<1>1. p \in Nat /\ q \in Nat /\ d < MonthLen * p + MonthLen /\ MonthLen * q <= e
  BY MonthBounds
<1>2. p + 1 < q
  BY <1>1
<1> HIDE DEF p, q
<1>3. MonthLen * (p + 1) + MonthLen <= MonthLen * q
  BY <1>1, <1>2, SMTT(30)
<1>4. MonthLen * (p + 1) = MonthLen * p + MonthLen
  BY <1>1, SMTT(30)
<1>5. MonthLen * p \in Nat /\ MonthLen * q \in Nat
  BY <1>1, SMTT(30)
<1>6. QED
  BY <1>1, <1>3, <1>4, <1>5

(* Days and their months are those of the horizon.                          *)
LEMMA DayParts ==
  /\ Days \subseteq Nat /\ None \notin Days
  /\ \A d \in Days : MonthOf(d) \in Months
  /\ Months \subseteq Nat /\ None \notin Months
<1>1. Days \subseteq Nat
  BY DEF Days
<1>2. \A d \in Days : MonthOf(d) \in Months
  <2> SUFFICES ASSUME NEW d \in Days PROVE MonthOf(d) \in Months
    OBVIOUS
  <2>1. d \in Nat /\ FirstDay <= d /\ d <= MaxDay
    BY DEF Days
  <2>2. MonthOf(FirstDay) <= MonthOf(d) /\ MonthOf(FirstDay) \in Nat /\ MonthOf(d) \in Nat
    BY <2>1, MonthOrder
  <2>3. MonthOf(d) <= MonthOf(MaxDay) /\ MonthOf(MaxDay) \in Nat
    BY <2>1, MonthOrder
  <2>4. QED
    BY <2>2, <2>3 DEF Months
<1>3. MonthOf(FirstDay) \in Nat /\ MonthOf(MaxDay) \in Nat
  BY MonthBounds
<1>4. Months \subseteq Nat
  BY <1>3 DEF Months
<1>5. QED
  BY <1>1, <1>2, <1>4

(* The summary of a day counts the day's rows.                              *)
LEMMA DailyIs ==
  ASSUME TypeOK, NEW d \in Days
  PROVE  /\ Daily(d) = {e \in Events : ev[e] # None /\ ev[e].day = d}
         /\ Cardinality(Daily(d)) \in 0 .. Cardinality(Events)
<1>1. \A e \in Events : ev[e] # None => ev[e].day \in Nat
  BY DayParts DEF TypeOK, Row
<1>2. d \in Nat
  BY DayParts
<1>3. Daily(d) = {e \in Events : ev[e] # None /\ ev[e].day = d}
  BY <1>1, <1>2 DEF Daily, EventsIn, InRange
<1>4. /\ IsFiniteSet(Daily(d)) /\ Cardinality(Daily(d)) <= Cardinality(Events)
      /\ Cardinality(Daily(d)) \in Nat /\ Cardinality(Events) \in Nat
  BY <1>3, FS_Subset, FS_CardinalityType
<1>5. QED
  BY <1>3, <1>4

(* How old a read is when it goes, in numbers.                              *)
LEMMA BoundIs ==
  ASSUME TypeOK
  PROVE  /\ least \in Nat /\ Bound = IF least <= MonthLen + 1 THEN least ELSE MonthLen + 1
         /\ Bound \in Nat
<1>1. least \in Nat /\ MonthLen + 1 \in Nat
  BY DEF TypeOK
<1>2. QED
  BY <1>1, MinPair DEF Bound

(* An age only grows, and a bound that only falls stays met.                *)
LEMMA Ages ==
  ASSUME NEW t \in Nat, NEW u \in Nat, t <= u, NEW d \in Nat,
         NEW x \in Nat, NEW y \in Nat, y <= x, t - d >= x
  PROVE  u - d >= y
  OBVIOUS

(* The bound falls with the shortest retention.                             *)
LEMMA LowerBound ==
  ASSUME TypeOK, TypeOK', least' <= least
  PROVE  Bound' <= Bound /\ Bound \in Nat /\ Bound' \in Nat
<1>1. /\ least \in Nat /\ Bound = IF least <= MonthLen + 1 THEN least ELSE MonthLen + 1
      /\ Bound \in Nat
  BY BoundIs
<1>2. least' \in Nat /\ MonthLen + 1 \in Nat
  BY DEF TypeOK
<1>3. Bound' = IF least' <= MonthLen + 1 THEN least' ELSE MonthLen + 1
  BY <1>2, MinPair DEF Bound
<1>4. QED
  BY <1>1, <1>2, <1>3

(* What a worker has in hand.                                               *)
LEMMA WorkParts ==
  ASSUME TypeOK, NEW w \in Workers
  PROVE  /\ work[w] \in {Idle} \cup ReportRun \cup RetentionRun
         /\ work[w] # Idle => work[w].job \in Job
         /\ work[w].pc = "reads" => work[w] \in ReportRun
         /\ work[w].pc = "rows" => work[w] \in RetentionRun
         /\ \A r \in ReportRun : r # Idle /\ r.pc = "reads"
         /\ \A r \in RetentionRun : r # Idle /\ r.pc = "rows"
         /\ Idle.pc = "idle"
  BY DEF TypeOK, Idle, ReportRun, RetentionRun

(* The day of a report's job.                                               *)
LEMMA JobParts ==
  ASSUME NEW j \in Job
  PROVE  /\ j.kind = "report" => j.day \in Days /\ j = [kind |-> "report", day |-> j.day]
         /\ j.kind # "report" => j.kind = "retention"
  BY DEF Job

(***************************************************************************)
(* What is said of rows, months, retention and reports survives steps that *)
(* do not touch it                                                         *)
(***************************************************************************)

(* What time and the other steps do to the days that are over: nothing is    *)
(* written, rows may go.                                                    *)
Onward ==
  /\ today <= today' /\ least' <= least
  /\ \A d \in Days : d < today => WrittenOn(d)' = WrittenOn(d) /\ Daily(d)' \subseteq Daily(d)

(* Steps that leave the rows alone go onward.                               *)
LEMMA StillOnward ==
  ASSUME TypeOK, UNCHANGED rows, today <= today', least' <= least
  PROVE  Onward
  BY DEF Onward, rows, WrittenOn, Daily, EventsIn

(* Time makes no row younger, nor a policy the bound longer.                *)
LEMMA RowsKept ==
  ASSUME TypeOK, TypeOK', RowsInv, UNCHANGED rows, today <= today', least' <= least
  PROVE  RowsInv'
<1>1. UNCHANGED <<ev, alert, stay, written, left>>
  BY DEF rows
<1>2. Bound' <= Bound /\ Bound \in Nat /\ Bound' \in Nat /\ least \in Nat /\ least' \in Nat
  BY LowerBound DEF TypeOK
<1>3. today \in Nat /\ today' \in Nat /\ \A e \in Events : written[e] # None => written[e] \in Nat
  BY DayParts DEF TypeOK
<1>4. left # None => left \in Nat
  BY DayParts DEF TypeOK
<1>5. RowsAreKnown'
  <2> SUFFICES ASSUME NEW e \in Events
               PROVE  /\ ev[e] # None => /\ written[e] = ev[e].day
                                         /\ ev[e].home \in {None, MonthOf(ev[e].day)}
                      /\ written[e] # None => written[e] <= today'
                      /\ written[e] # None /\ ev[e] = None => today' - written[e] >= Bound'
    BY <1>1 DEF RowsAreKnown, MonthOf
  <2>1. /\ ev[e] # None => written[e] = ev[e].day /\ ev[e].home \in {None, MonthOf(ev[e].day)}
        /\ written[e] # None => written[e] <= today
        /\ written[e] # None /\ ev[e] = None => today - written[e] >= Bound
    BY DEF RowsInv, RowsAreKnown
  <2>2. written[e] # None => written[e] \in Nat
    BY <1>3
  <2> HIDE DEF Bound
  <2>3. QED
    BY <1>2, <1>3, <2>1, <2>2
<1>6. ReferencesResolve'
  BY <1>1 DEF RowsInv, ReferencesResolve, Referenced
<1>7. ExitIsKnown'
  BY <1>1, <1>3, <1>4 DEF RowsInv, ExitIsKnown
<1>8. ReopenedByRetentionOnly'
  BY <1>1, <1>2, <1>3, <1>4 DEF RowsInv, ReopenedByRetentionOnly, CurrentlyInside
<1>9. QED
  BY <1>5, <1>6, <1>7, <1>8 DEF RowsInv

(* Once in the default partition, a row is there or gone.                    *)
LEMMA MonthsKept ==
  ASSUME TypeOK, TypeOK', MonthsInv, UNCHANGED started, today <= today',
         \A m \in parts : MonthOf(today) <= m => m \in parts',
         \A e \in Events : written[e] # None =>
           written'[e] = written[e] /\ (ev'[e] = ev[e] \/ ev'[e] = None)
  PROVE  MonthsInv'
<1>1. today \in Nat /\ today' \in Nat
  BY DayParts DEF TypeOK
<1>2. MonthOf(today) <= MonthOf(today') /\ MonthOf(today) \in Nat /\ MonthOf(today') \in Nat
  BY <1>1, MonthOrder
<1> SUFFICES ASSUME NEW m \in Months, MonthOf(today') <= m, m <= started + Ahead
             PROVE  m \in parts' \/ WentToDefault(m)'
  BY DEF MonthsInv, MonthOf
<1>3. m \in Nat
  BY DayParts
<1>4. MonthOf(today) <= m
  BY <1>2, <1>3
<1>5. m \in parts \/ WentToDefault(m)
  BY <1>4 DEF MonthsInv
<1>6. WentToDefault(m) => WentToDefault(m)'
  BY DEF WentToDefault, MonthOf
<1>7. QED
  BY <1>4, <1>5, <1>6

(* No run began, no policy changed.                                         *)
LEMMA RetentionKept ==
  ASSUME TypeOK, RetentionInv, UNCHANGED <<policy, least>>,
         \A w \in Workers : work'[w].pc = "rows" => work'[w] = work[w]
  PROVE  RetentionInv'
  BY DEF RetentionInv

(* A count that was right stays right: nothing is written on a day that is  *)
(* over, and the bound only falls.                                          *)
LEMMA CountsKept ==
  ASSUME TypeOK, TypeOK', Onward, NEW d \in Days, d < today,
         NEW total, NEW begun \in Nat, CountIsRight(d, total, begun)
  PROVE  CountIsRight(d, total, begun)'
<1>1. Bound' <= Bound /\ Bound \in Nat /\ Bound' \in Nat
  BY LowerBound DEF Onward
<1>2. WrittenOn(d)' = WrittenOn(d) /\ d \in Nat
  BY DayParts DEF Onward
<1> HIDE DEF Bound
<1>3. begun - d >= Bound => begun - d >= Bound'
  BY <1>1, <1>2
<1>4. QED
  BY <1>2, <1>3 DEF CountIsRight

(* What is counted or stored is as before, or right.                        *)
LEMMA ReportsKept ==
  ASSUME TypeOK, TypeOK', ReportsInv, Onward,
         \A w \in Workers : work'[w].pc = "reads" => work'[w] = work[w] \/ RunIsRight(w)',
         \A d \in Days : report'[d] # None => report'[d] = report[d] \/ EntryIsRight(d)'
  PROVE  ReportsInv'
<1>1. today \in Nat /\ today' \in Nat /\ today <= today'
  BY DayParts DEF TypeOK, Onward
<1>2. ASSUME NEW w \in Workers, work[w].pc = "reads", work'[w] = work[w]
      PROVE  RunIsRight(w)'
  <2>1. work[w] \in ReportRun
    BY <1>2, WorkParts
  <2>2. RunIsRight(w)
    BY <1>2 DEF ReportsInv
  <2>3. work[w].total \in Nat /\ work[w].job \in Job /\ work[w].begun \in Nat
    <3>1. IsFiniteSet(Events)
      OBVIOUS
    <3>2. Cardinality(Events) \in Nat
      BY <3>1, FS_CardinalityType
    <3>3. work[w].total \in Nat /\ work[w].job \in Job /\ work[w].begun \in Days
      BY <2>1, <3>2 DEF ReportRun
    <3>4. QED
      BY <3>3, DayParts
  <2>4. PICK d \in Days : d = work[w].job.day
    BY <2>2, <2>3, JobParts DEF RunIsRight
  <2>5. d \in Nat /\ work[w].begun <= today /\ work[w].begun <= today'
    BY <1>1, <2>2, <2>3, DayParts DEF RunIsRight
  <2>6. CASE ~(work[w].begun > d)
    BY <1>2, <2>2, <2>4, <2>5, <2>6 DEF RunIsRight
  <2>7. CASE work[w].begun > d
    <3>1. d < today
      BY <1>1, <2>3, <2>5, <2>7
    <3>2. Daily(d)' \subseteq Daily(d) /\ IsFiniteSet(Daily(d))
      BY <3>1, FS_Subset DEF Onward, Daily, EventsIn
    <3>3. Cardinality(Daily(d)') <= Cardinality(Daily(d)) /\ Cardinality(Daily(d)') \in Nat
          /\ Cardinality(Daily(d)) \in Nat
      BY <3>2, FS_Subset, FS_CardinalityType
    <3>4. Cardinality(Daily(d)) <= work[w].total /\ CountIsRight(d, work[w].total, work[w].begun)
      BY <2>2, <2>4, <2>7 DEF RunIsRight
    <3>5. Cardinality(Daily(d)') <= work[w].total
      BY <2>3, <3>3, <3>4
    <3>6. CountIsRight(d, work[w].total, work[w].begun)'
      <4>1. PICK total, begun : begun \in Nat /\ total = work[w].total /\ begun = work[w].begun
        BY <2>3
      <4>2. CountIsRight(d, total, begun)'
        BY <3>1, <3>4, <4>1, CountsKept
      <4>3. QED
        BY <1>2, <4>1, <4>2 DEF CountIsRight
    <3>7. QED
      BY <1>2, <2>2, <2>4, <2>5, <3>5, <3>6 DEF RunIsRight
  <2>8. QED
    BY <2>6, <2>7
<1>3. ASSUME NEW d \in Days, report[d] # None, report'[d] = report[d]
      PROVE  EntryIsRight(d)'
  <2>1. EntryIsRight(d)
    BY <1>3 DEF ReportsInv
  <2>2. report[d].begun \in Nat /\ d \in Nat
    BY <1>3, DayParts DEF TypeOK, Report
  <2>3. report[d].begun <= today /\ report[d].begun <= today'
    BY <1>1, <2>1, <2>2 DEF EntryIsRight
  <2>4. CASE ~(report[d].begun > d)
    BY <1>3, <2>3, <2>4 DEF EntryIsRight
  <2>5. CASE report[d].begun > d
    <3>1. d < today
      BY <1>1, <2>2, <2>3, <2>5
    <3>2. PICK total, begun : begun \in Nat /\ total = report[d].total /\ begun = report[d].begun
      BY <2>2
    <3>3. CountIsRight(d, total, begun)
      BY <2>1, <2>5, <3>2 DEF EntryIsRight
    <3>4. CountIsRight(d, total, begun)'
      BY <3>1, <3>2, <3>3, CountsKept
    <3>5. CountIsRight(d, report[d].total, report[d].begun)'
      BY <1>3, <3>2, <3>4 DEF CountIsRight
    <3>6. QED
      BY <1>3, <2>1, <2>3, <2>5, <3>5 DEF EntryIsRight
  <2>6. QED
    BY <2>4, <2>5
<1>4. QED
  BY <1>2, <1>3 DEF ReportsInv

(***************************************************************************)
(* Types                                                                   *)
(***************************************************************************)

(* What a purge does to the rows of these events, and to what refers to      *)
(* them.                                                                    *)
PurgeRowsBy(gone) ==
  /\ Without(gone)
  /\ alert' = [e \in Events |-> IF e \in gone THEN None ELSE alert[e]]
  /\ IF stay = None
     THEN stay' = None
     ELSE stay' = [stay EXCEPT !.entry = IF @ \in gone THEN None ELSE @,
                               !.exit = IF @ \in gone THEN None ELSE @]

(* The rows a purge takes are there and as old as its retention.            *)
LEMMA PurgeIs ==
  ASSUME TypeOK, NEW w \in Workers, Purge(w)
  PROVE  \E gone \in SUBSET Events :
           /\ PurgeRowsBy(gone)
           /\ \A e \in gone : ev[e] # None /\ today - ev[e].day >= work[w].retain
<1>1. work[w] \in RetentionRun
  BY WorkParts DEF Purge
<1>2. work[w].retain \in Nat /\ today \in Nat /\ \A e \in Events : ev[e] # None => ev[e].day \in Nat
  BY <1>1, DayParts DEF TypeOK, RetentionRun, Row
<1> DEFINE cutoff == today - work[w].retain
           before == {e \in Events : ev[e] # None /\ ev[e].day < cutoff}
           onDay == {e \in Events : ev[e] # None /\ ev[e].day = cutoff}
<1>3. PICK some \in SUBSET onDay : PurgeRowsBy(before \cup some)
  BY DEF Purge, PurgeRows, PurgeRowsBy
<1>4. \A e \in before \cup some : e \in Events /\ ev[e] # None /\ ev[e].day <= cutoff
  BY <1>2
<1>5. \A e \in before \cup some : today - ev[e].day >= work[w].retain
  BY <1>2, <1>4
<1>6. QED
  BY <1>3, <1>4, <1>5

(* Every step gives each variable a value of its kind.                      *)
LEMMA TypeStep ==
  ASSUME TypeOK, [Next]_vars
  PROVE  TypeOK'
<1> USE DEF TypeOK
<1>1. ASSUME NEW e \in Events, Write(e) PROVE TypeOK'
  <2>1. [day |-> today, home |-> HomeOf(today)] \in Row
    BY DayParts DEF Row, HomeOf
  <2>2. ev' \in [Events -> Row \cup {None}]
    BY <1>1, <2>1 DEF Write
  <2>3. alert' \in [Events -> Days \cup {None}]
    BY <1>1 DEF Write
  <2>4. stay' \in Stay \cup {None} /\ left' \in Days \cup {None}
    BY <1>1 DEF Write, Stay
  <2>5. snaps' \subseteq Object
    BY <1>1 DEF Write, Object
  <2>6. written' \in [Events -> Days \cup {None}]
    BY <1>1 DEF Write
  <2>7. QED
    BY <1>1, <2>2, <2>3, <2>4, <2>5, <2>6 DEF Write, jobs
<1>2. CASE EnsurePartitions
  <2>1. parts' \subseteq Months /\ started' \in Months
    BY <1>2, DayParts DEF EnsurePartitions, Wanted
  <2>2. QED
    BY <1>2, <2>1 DEF EnsurePartitions, rows, jobs
<1>3. CASE DropOldPartitions
  <2>1. ev' \in [Events -> Row \cup {None}]
    BY <1>3 DEF DropOldPartitions, Without
  <2>2. parts' \subseteq Months
    BY <1>3 DEF DropOldPartitions
  <2>3. QED
    BY <1>3, <2>1, <2>2 DEF DropOldPartitions, jobs
<1>4. CASE UpsertPolicy
  <2>1. PICK p \in Retains : policy' = p
    BY <1>4 DEF UpsertPolicy
  <2>2. least' \in {least, p}
    BY <1>4, <2>1, MinPair DEF UpsertPolicy
  <2>3. QED
    BY <1>4, <2>1, <2>2 DEF UpsertPolicy, rows, jobs
<1>5. CASE SendReport
  <2>1. PICK d \in Reported : queue' = queue \cup {[kind |-> "report", day |-> d]}
    BY <1>5 DEF SendReport
  <2>2. [kind |-> "report", day |-> d] \in Job
    BY DEF Job
  <2>3. QED
    BY <1>5, <2>1, <2>2 DEF SendReport, rows
<1>6. CASE SendRetention
  BY <1>6 DEF SendRetention, rows, Job
<1>7. CASE NextDay
  <2>1. today' \in Days
    BY <1>7 DEF NextDay, Days
  <2>2. QED
    BY <1>7, <2>1 DEF NextDay, rows, jobs
<1>8. ASSUME NEW w \in Workers, TakeReport(w) PROVE TypeOK'
  <2>1. PICK d \in Days : /\ [kind |-> "report", day |-> d] \in queue
                          /\ queue' = queue \ {[kind |-> "report", day |-> d]}
                          /\ work' = [work EXCEPT ![w] =
                               [pc |-> "reads", job |-> [kind |-> "report", day |-> d], total |-> DailySummary(d),
                                begun |-> today]]
    BY <1>8 DEF TakeReport
  <2>2. [pc |-> "reads", job |-> [kind |-> "report", day |-> d], total |-> DailySummary(d),
                                begun |-> today] \in ReportRun
    BY <2>1, DailyIs DEF ReportRun, DailySummary
  <2>3. work' \in [Workers -> {Idle} \cup ReportRun \cup RetentionRun] /\ queue' \subseteq Job
    BY <2>1, <2>2
  <2>4. QED
    BY <1>8, <2>3 DEF TakeReport, rows
<1>9. ASSUME NEW w \in Workers, TakeRetention(w) PROVE TypeOK'
  <2>1. [pc |-> "rows", job |-> [kind |-> "retention", day |-> None],
         retain |-> IF policy = None THEN DefaultRetain ELSE policy] \in RetentionRun
    BY <1>9 DEF RetentionRun, TakeRetention
  <2>2. work' \in [Workers -> {Idle} \cup ReportRun \cup RetentionRun] /\ queue' \subseteq Job
    BY <1>9, <2>1 DEF TakeRetention
  <2>3. QED
    BY <1>9, <2>2 DEF TakeRetention, rows
<1>10. ASSUME NEW w \in Workers, Crash(w) PROVE TypeOK'
  <2>1. queue' \subseteq Job /\ work' \in [Workers -> {Idle} \cup ReportRun \cup RetentionRun]
    BY <1>10, WorkParts DEF Crash
  <2>2. QED
    BY <1>10, <2>1 DEF Crash, rows
<1>11. ASSUME NEW w \in Workers, StoreReport(w) PROVE TypeOK'
  <2>1. work[w] \in ReportRun
    BY <1>11, WorkParts DEF StoreReport
  <2>2. CASE work[w].job.day \in Days
    <3>1. [total |-> work[w].total, reads |-> Cardinality(Daily(work[w].job.day)),
          begun |-> work[w].begun] \in Report
      BY <2>1, <2>2, DailyIs DEF Report, ReportRun
    <3>2. QED
      BY <1>11, <3>1 DEF StoreReport, rows
  <2>3. CASE work[w].job.day \notin Days
    BY <1>11, <2>3 DEF StoreReport, rows
  <2>4. QED
    BY <2>2, <2>3
<1>12. ASSUME NEW w \in Workers, Purge(w) PROVE TypeOK'
  <2>1. PICK gone \in SUBSET Events : PurgeRowsBy(gone)
    BY <1>12, PurgeIs
  <2>3. ev' \in [Events -> Row \cup {None}]
    BY <2>1 DEF PurgeRowsBy, Without
  <2>4. alert' \in [Events -> Days \cup {None}]
    BY <2>1 DEF PurgeRowsBy
  <2>5. stay' \in Stay \cup {None}
    BY <2>1 DEF PurgeRowsBy, Stay
  <2>2. snaps' \subseteq Object
    BY <1>12 DEF Purge
  <2>6. work' \in [Workers -> {Idle} \cup ReportRun \cup RetentionRun]
    BY <1>12 DEF Purge
  <2>7. QED
    BY <1>12, <2>2, <2>3, <2>4, <2>5, <2>6 DEF Purge
<1>13. CASE UNCHANGED vars
  BY <1>13 DEF vars, rows, jobs
<1>14. CASE JobIgnored
  BY <1>14 DEF JobIgnored, rows
<1>15. ASSUME NEW w \in Workers, JobFails(w) PROVE TypeOK'
  BY <1>15 DEF JobFails, rows
<1>16. QED
  BY <1>1, <1>2, <1>3, <1>4, <1>5, <1>6, <1>7, <1>8, <1>9, <1>10, <1>11, <1>12, <1>13, <1>14,
     <1>15
     DEF Next, WorkerStep

(***************************************************************************)
(* Rows that go                                                            *)
(***************************************************************************)

(* Rows that go leave the counts of their days smaller.                     *)
LEMMA GoingIsOnward ==
  ASSUME TypeOK, NEW gone \in SUBSET Events, Without(gone), UNCHANGED <<today, written, least>>
  PROVE  Onward
<1>1. today <= today' /\ least' <= least
  BY DayParts DEF TypeOK
<1>2. \A d \in Days : WrittenOn(d)' = WrittenOn(d)
  BY DEF WrittenOn
<1>3. \A d \in Days : Daily(d)' \subseteq Daily(d)
  BY DEF Without, Daily, EventsIn
<1>4. QED
  BY <1>1, <1>2, <1>3 DEF Onward

(* A row that goes at its age leaves the others as they were.               *)
LEMMA GoingIsKnown ==
  ASSUME TypeOK, RowsAreKnown, NEW gone \in SUBSET Events, Without(gone),
         UNCHANGED <<today, written, least>>,
         \A e \in gone : ev[e] # None => today - ev[e].day >= Bound
  PROVE  RowsAreKnown'
<1>1. Bound' = Bound
  BY DEF Bound
<1> HIDE DEF Bound
<1>2. \A e \in Events : ev'[e] = IF e \in gone THEN None ELSE ev[e]
  BY DEF Without
<1>3. QED
  BY <1>1, <1>2 DEF RowsAreKnown

(***************************************************************************)
(* The initial states, and what each step keeps                            *)
(***************************************************************************)

(* Nothing is written, dispatched or made on the day of the installation.   *)
LEMMA InitInv == Init => Inv
<1> SUFFICES ASSUME Init PROVE Inv
  OBVIOUS
<1>1. FirstDay \in Days
  BY DEF Days
<1>2. TypeOK
  <2>1. /\ parts \subseteq Months /\ started \in Months /\ today \in Days
        /\ queue \subseteq Job
    BY <1>1, DayParts DEF Init
  <2>2. /\ ev \in [Events -> Row \cup {None}] /\ alert \in [Events -> Days \cup {None}]
        /\ written \in [Events -> Days \cup {None}]
        /\ report \in [Days -> Report \cup {None}]
        /\ work \in [Workers -> {Idle} \cup ReportRun \cup RetentionRun]
    BY DEF Init
  <2>3. stay \in Stay \cup {None} /\ snaps \subseteq Object /\ policy \in Retains \cup {None}
    BY DEF Init
  <2>5. least \in Retains \cup {DefaultRetain} /\ left \in Days \cup {None}
    BY DEF Init
  <2>7. QED
    BY <2>1, <2>2, <2>3, <2>5, Zenon DEF TypeOK, Init
<1>3. RowsInv
  BY DEF Init, RowsInv, RowsAreKnown, ReferencesResolve, Referenced, ExitIsKnown,
         ReopenedByRetentionOnly
<1>4. MonthsInv
  BY DEF Init, MonthsInv
<1>5. RetentionInv
  BY DEF Init, RetentionInv, Idle
<1>6. ReportsInv
  BY DEF Init, ReportsInv, Idle
<1>7. QED
  BY <1>2, <1>3, <1>4, <1>5, <1>6 DEF Inv

(* A read is written, for the first time, today.                            *)
LEMMA WriteStep ==
  ASSUME Inv, TypeOK', NEW e \in Events, Write(e)
  PROVE  Inv'
<1> USE DEF Inv
<1>1. /\ written[e] = None /\ UNCHANGED <<today, parts, policy, jobs, started, least>>
      /\ ev' = [ev EXCEPT ![e] = [day |-> today, home |-> HomeOf(today)]]
      /\ written' = [written EXCEPT ![e] = today]
  BY DEF Write
<1>2. today \in Nat /\ today \in Days /\ Bound' = Bound
  BY <1>1, DayParts DEF TypeOK, Bound
<1>3. [day |-> today, home |-> HomeOf(today)] \in Row
  BY <1>1, <1>2, DayParts DEF TypeOK, HomeOf, Row
<1>4. [day |-> today, home |-> HomeOf(today)] # None
  BY <1>3
<1>5. /\ ev'[e] = [day |-> today, home |-> HomeOf(today)] /\ ev'[e] # None /\ ev'[e].day = today
      /\ written'[e] = today /\ ev[e] = None
      /\ \A f \in Events \ {e} : ev'[f] = ev[f] /\ written'[f] = written[f]
  BY <1>1, <1>4, DayParts DEF TypeOK, RowsInv, RowsAreKnown, Row
<1>6. \A f \in Events : written[f] # None => f # e
  BY <1>1
<1>7. Onward
  <2> SUFFICES ASSUME NEW d \in Days, d < today
               PROVE  WrittenOn(d)' = WrittenOn(d) /\ Daily(d)' \subseteq Daily(d)
    BY <1>1, <1>2, BoundIs DEF Onward
  <2>1. d \in Nat
    BY DayParts
  <2>2. WrittenOn(d)' = WrittenOn(d)
    BY <1>1, <1>2, <1>5, <2>1, DayParts DEF WrittenOn
  <2>3. ~InRange(today, d, d)
    BY <1>2, <2>1 DEF InRange
  <2>4. Daily(d)' \subseteq Daily(d)
    BY <1>5, <2>3 DEF Daily, EventsIn
  <2>5. QED
    BY <2>2, <2>4
<1>8. RowsInv'
  <2>1. RowsAreKnown'
    <3>1. ev'[e].home \in {None, MonthOf(ev'[e].day)}
      BY <1>5 DEF HomeOf
    <3>2. \A f \in Events : ev'[f] # None => ev'[f].home \in {None, MonthOf(ev'[f].day)}
      BY <1>5, <3>1 DEF RowsInv, RowsAreKnown
    <3> HIDE DEF Bound
    <3>3. \A f \in Events :
            /\ ev'[f] # None => written'[f] = ev'[f].day
            /\ written'[f] # None => written'[f] <= today
            /\ written'[f] # None /\ ev'[f] = None => today - written'[f] >= Bound
      BY <1>2, <1>5 DEF RowsInv, RowsAreKnown
    <3>4. QED
      BY <1>1, <1>2, <3>2, <3>3 DEF RowsAreKnown, MonthOf
  <2>2. \A f \in Events : stay # None /\ f \in {stay.entry, stay.exit} => f # e
    BY <1>5 DEF RowsInv, ReferencesResolve, Referenced
  <2>3. ReferencesResolve'
    <3> SUFFICES ASSUME NEW f \in Events, f # e, f \in Referenced' PROVE ev[f] # None
      BY <1>5 DEF ReferencesResolve, Referenced
    <3>1. f \in Referenced
      <4>1. alert'[f] # None => alert[f] # None
        BY DEF Write, TypeOK
      <4>2. stay' # None /\ f \in {stay'.entry, stay'.exit} => stay # None /\ f \in {stay.entry, stay.exit}
        <5>1. CASE UNCHANGED stay
          BY <5>1
        <5>2. CASE stay' = [entry |-> e, exit |-> None, day |-> today]
          BY <5>2
        <5>3. CASE stay # None /\ stay' = [stay EXCEPT !.exit = e]
          BY <5>3 DEF TypeOK, Stay
        <5>4. QED
          BY <5>1, <5>2, <5>3 DEF Write
      <4>3. QED
        BY <4>1, <4>2 DEF Referenced
    <3>2. QED
      BY <3>1 DEF RowsInv, ReferencesResolve
  <2>4. ExitIsKnown' /\ ReopenedByRetentionOnly'
    <3>1. CASE UNCHANGED <<stay, left>>
      <4>1. stay # None /\ stay.exit # None => stay.exit # e
        BY <2>2
      <4>2. stay # None /\ stay.exit # None => stay.exit \in Events
        BY DEF TypeOK, Stay
      <4>3. QED
        BY <1>1, <1>5, <3>1, <4>1, <4>2
           DEF RowsInv, ExitIsKnown, ReopenedByRetentionOnly, CurrentlyInside
    <3>2. CASE stay = None /\ UNCHANGED left
      BY <3>2 DEF RowsInv, ExitIsKnown, ReopenedByRetentionOnly
    <3>3. CASE stay # None /\ stay' = [stay EXCEPT !.exit = e] /\ left' = today
      <4>1. stay'.exit = e /\ stay' \in Stay /\ e # None
        BY <3>3 DEF TypeOK, Stay
      <4>2. QED
        BY <1>1, <1>2, <1>5, <3>3, <4>1, DayParts DEF ExitIsKnown, ReopenedByRetentionOnly, CurrentlyInside
    <3>4. QED
      BY <3>1, <3>2, <3>3 DEF Write
  <2>5. QED
    BY <2>1, <2>3, <2>4 DEF RowsInv
<1>9. MonthsInv'
  BY <1>1, <1>2, <1>5, <1>6, MonthsKept
<1>10. RetentionInv'
  BY <1>1, RetentionKept DEF jobs
<1>11. ReportsInv'
  BY <1>1, <1>7, ReportsKept DEF jobs
<1>12. QED
  BY <1>8, <1>9, <1>10, <1>11

(* Every month in advance is made, but for those with default rows.         *)
LEMMA EnsureStep ==
  ASSUME Inv, TypeOK', EnsurePartitions
  PROVE  Inv'
<1> USE DEF Inv
<1>1. /\ UNCHANGED <<today, rows, policy, jobs, least>>
      /\ UNCHANGED <<ev, written>> /\ UNCHANGED <<queue, work, report>>
      /\ parts \subseteq parts'
  BY DEF EnsurePartitions, rows, jobs
<1>2. today \in Nat /\ today <= today' /\ least' <= least
  BY <1>1, DayParts DEF TypeOK
<1>3. RowsInv' /\ Onward
  BY <1>1, <1>2, RowsKept, StillOnward
<1>4. MonthsInv'
  <2>1. CASE UNCHANGED started
    BY <1>1, <1>2, <2>1, MonthsKept
  <2>2. CASE /\ parts' = parts \cup {m \in Wanted : ~DefaultHas(m)}
             /\ started' = MonthOf(today)
    <3> SUFFICES ASSUME NEW m \in Months, MonthOf(today) <= m, m <= MonthOf(today) + Ahead
                 PROVE  m \in parts' \/ WentToDefault(m)
      BY <1>1, <2>2 DEF MonthsInv, WentToDefault, MonthOf
    <3>1. MonthOf(today) \in Nat /\ m \in Nat
      BY <1>2, DayParts, MonthOrder
    <3>2. MonthOf(today) - Behind <= m
      BY <3>1
    <3>3. m \in Wanted
      BY <3>1, <3>2 DEF Wanted
    <3>4. CASE DefaultHas(m)
      <4>1. PICK e \in Events : ev[e] # None /\ ev[e].home = None /\ MonthOf(ev[e].day) = m
        BY <3>4 DEF DefaultHas
      <4>2. written[e] = ev[e].day /\ written[e] # None
        BY <4>1, DayParts DEF RowsInv, RowsAreKnown, TypeOK, Row
      <4>3. QED
        BY <4>1, <4>2 DEF WentToDefault
    <3>5. CASE ~DefaultHas(m)
      BY <2>2, <3>3, <3>5
    <3>6. QED
      BY <3>4, <3>5
  <2>3. QED
    BY <2>1, <2>2 DEF EnsurePartitions
<1>5. RetentionInv'
  BY <1>1, RetentionKept
<1>6. ReportsInv'
  BY <1>1, <1>3, ReportsKept
<1>7. QED
  BY <1>3, <1>4, <1>5, <1>6

(* What is dropped is a month old, and nothing refers to it.                *)
LEMMA DropStep ==
  ASSUME Inv, TypeOK', DropOldPartitions
  PROVE  Inv'
<1> USE DEF Inv
<1>0. PICK older \in 1 .. MonthOf(MaxDay) : \E ms \in SUBSET Droppable(older) :
        parts' = parts \ ms /\ Without(RowsOf(ms))
  BY DEF DropOldPartitions
<1>1. PICK ms \in SUBSET Droppable(older) : parts' = parts \ ms /\ Without(RowsOf(ms))
  BY <1>0
<1>2. /\ UNCHANGED <<today, alert, stay, snaps, written, left, policy, jobs, started, least>>
      /\ UNCHANGED <<queue, work, report>>
  BY DEF DropOldPartitions, jobs
<1> DEFINE gone == RowsOf(ms)
<1>3. gone \in SUBSET Events /\ \A e \in Events : ev'[e] = IF e \in gone THEN None ELSE ev[e]
  BY <1>1 DEF RowsOf, Without
<1>4. today \in Nat /\ MonthOf(today) \in Nat /\ MonthOf(MaxDay) \in Nat
  BY DayParts, MonthBounds DEF TypeOK
<1>5. \A m \in ms : m \in Nat /\ m < MonthOf(today) - 1 /\ RowsOf({m}) \cap Referenced = {}
  <2> SUFFICES ASSUME NEW m \in ms
               PROVE  m \in Nat /\ m < MonthOf(today) - 1 /\ RowsOf({m}) \cap Referenced = {}
    OBVIOUS
  <2>1. m \in parts /\ m < MonthOf(today) - older /\ RowsOf({m}) \cap Referenced = {}
    BY DEF Droppable
  <2>2. m \in Nat /\ older \in Nat /\ older >= 1
    BY <1>4, <2>1, DayParts DEF TypeOK
  <2>3. PICK p \in Nat : p = MonthOf(today)
    BY <1>4
  <2>4. m < p - older
    BY <2>1, <2>3
  <2>5. m < p - 1
    BY <2>2, <2>4
  <2>6. QED
    BY <2>1, <2>2, <2>3, <2>5
<1>6. gone \cap Referenced = {}
  BY <1>5 DEF RowsOf
<1>7. \A e \in gone : ev[e] # None => today - ev[e].day >= Bound
  <2> SUFFICES ASSUME NEW e \in gone, ev[e] # None PROVE today - ev[e].day >= Bound
    OBVIOUS
  <2>1. ev[e].home \in ms /\ ev[e].day \in Nat
    BY DayParts DEF RowsOf, TypeOK, Row
  <2>2. MonthOf(ev[e].day) = ev[e].home
    BY <2>1, <1>3, <1>5 DEF RowsInv, RowsAreKnown
  <2>3. MonthOf(ev[e].day) < MonthOf(today) - 1
    BY <1>5, <2>1, <2>2
  <2>4. PICK d \in Nat : d = ev[e].day
    BY <2>1
  <2>5. today - d >= MonthLen + 1
    BY <1>4, <2>3, <2>4, MonthsApart
  <2>6. Bound <= MonthLen + 1 /\ Bound \in Nat
    BY BoundIs
  <2> HIDE DEF Bound
  <2>7. QED
    BY <1>4, <2>4, <2>5, <2>6
<1>8. Onward
  BY <1>1, <1>2, <1>3, GoingIsOnward
<1>9. RowsInv'
  <2>1. RowsAreKnown'
    BY <1>1, <1>2, <1>3, <1>7, GoingIsKnown DEF RowsInv
  <2>2. ReferencesResolve'
    BY <1>2, <1>3, <1>6 DEF RowsInv, ReferencesResolve, Referenced
  <2>3. ExitIsKnown'
    <3>1. stay # None /\ stay.exit # None => stay.exit \in Referenced /\ stay.exit \in Events
      BY DEF Referenced, TypeOK, Stay
    <3>2. QED
      BY <1>2, <1>3, <1>6, <3>1 DEF RowsInv, ExitIsKnown
  <2>4. ReopenedByRetentionOnly'
    BY <1>2 DEF RowsInv, ReopenedByRetentionOnly, CurrentlyInside
  <2>5. QED
    BY <2>1, <2>2, <2>3, <2>4 DEF RowsInv
<1>10. MonthsInv'
  <2>1. PICK p \in Nat : p = MonthOf(today)
    BY <1>4
  <2>2. \A m \in ms : m \in Nat /\ m < p - 1
    BY <1>5, <2>1
  <2>3. \A m \in parts : p <= m => m \in parts'
    BY <1>1, <2>2
  <2>4. QED
    BY <1>2, <1>3, <1>4, <2>1, <2>3, MonthsKept
<1>11. RetentionInv'
  BY <1>2, RetentionKept
<1>12. ReportsInv'
  BY <1>2, <1>8, ReportsKept
<1>13. QED
  BY <1>9, <1>10, <1>11, <1>12

(* The steps of jobs and policies, and those that change nothing, leave the *)
(* rows and the partitions alone.                                           *)
LEMMA RowsAndMonthsKept ==
  ASSUME Inv, TypeOK', UNCHANGED <<parts, rows, started>>, today <= today', least' <= least
  PROVE  RowsInv' /\ MonthsInv' /\ Onward
<1> USE DEF Inv
<1>1. UNCHANGED <<ev, written>>
  BY DEF rows
<1>2. QED
  BY <1>1, RowsKept, MonthsKept, StillOnward

(* A shorter policy lowers what runs keep at least.                         *)
LEMMA PolicyStep ==
  ASSUME Inv, TypeOK', UpsertPolicy
  PROVE  Inv'
<1> USE DEF Inv
<1>1. UNCHANGED <<today, parts, rows, started>> /\ UNCHANGED <<queue, work, report>>
  BY DEF UpsertPolicy, jobs
<1>2. PICK p \in Nat : policy' = p /\ least' = Min({least, p})
  BY DEF UpsertPolicy
<1>3. least \in Nat /\ today \in Nat
  BY DayParts DEF TypeOK
<1>4. least' = IF least <= p THEN least ELSE p
  BY <1>2, <1>3, MinPair
<1>5. least' <= least /\ least' <= p /\ least' \in Nat /\ today <= today'
  BY <1>1, <1>3, <1>4
<1>6. RowsInv' /\ MonthsInv' /\ Onward
  BY <1>1, <1>5, RowsAndMonthsKept
<1>7. RetentionInv'
  <2>1. least' <= DefaultRetain
    BY <1>3, <1>5 DEF RetentionInv
  <2>2. ASSUME NEW w \in Workers, work[w].pc = "rows"
        PROVE  work[w].job.kind = "retention" /\ work[w].retain >= least'
    <3>1. work[w].job.kind = "retention" /\ work[w].retain >= least
      BY <2>2 DEF RetentionInv
    <3>2. work[w] \in RetentionRun
      BY <2>2, WorkParts
    <3>3. work[w].retain \in Nat
      BY <3>2 DEF RetentionRun
    <3>4. QED
      BY <1>3, <1>5, <3>1, <3>3
  <2>3. QED
    BY <1>1, <1>2, <1>5, <2>1, <2>2 DEF RetentionInv
<1>8. ReportsInv'
  BY <1>1, <1>6, ReportsKept
<1>9. QED
  BY <1>6, <1>7, <1>8

(* Jobs come and go, and none of the workers begins one.                    *)
LEMMA QueueStep ==
  ASSUME Inv, TypeOK', UNCHANGED <<today, parts, rows, policy, report, started, least>>,
         \A w \in Workers : work'[w] = work[w] \/ work'[w] = Idle
  PROVE  Inv'
<1> USE DEF Inv
<1>1. today <= today' /\ least' <= least
  BY DayParts DEF TypeOK
<1>2. RowsInv' /\ MonthsInv' /\ Onward
  BY <1>1, RowsAndMonthsKept
<1>3. \A w \in Workers : work'[w].pc \in {"rows", "reads"} => work'[w] = work[w]
  BY DEF Idle
<1>4. RetentionInv'
  BY <1>3, RetentionKept
<1>5. ReportsInv'
  BY <1>2, <1>3, ReportsKept
<1>6. QED
  BY <1>2, <1>4, <1>5

(* What is sent, discarded, fails or is given back is not begun.            *)
LEMMA QueueSteps ==
  ASSUME Inv, TypeOK',
         \/ SendReport \/ SendRetention \/ JobIgnored
         \/ \E w \in Workers : JobFails(w) \/ Crash(w)
  PROVE  Inv'
<1>1. UNCHANGED <<today, parts, rows, policy, report, started, least>>
  BY DEF SendReport, SendRetention, JobIgnored, JobFails, Crash
<1>2. work' = work \/ \E w \in Workers : work' = [work EXCEPT ![w] = Idle]
  BY DEF SendReport, SendRetention, JobIgnored, JobFails, Crash
<1>3. \A w \in Workers : work'[w] = work[w] \/ work'[w] = Idle
  BY <1>2 DEF Inv, TypeOK
<1>4. QED
  BY <1>1, <1>3, QueueStep

(* A day passes, or nothing happens.                                        *)
LEMMA IdleStep ==
  ASSUME Inv, TypeOK', NextDay \/ UNCHANGED vars
  PROVE  Inv'
<1> USE DEF Inv
<1>1. /\ UNCHANGED <<parts, rows, policy, started, least>> /\ UNCHANGED <<queue, work, report>>
      /\ today' = today \/ today' = today + 1
  BY DEF NextDay, vars, jobs
<1>2. today <= today' /\ least' <= least
  BY <1>1, DayParts DEF TypeOK
<1>3. RowsInv' /\ MonthsInv' /\ Onward
  BY <1>1, <1>2, RowsAndMonthsKept
<1>4. RetentionInv'
  BY <1>1, RetentionKept
<1>5. ReportsInv'
  BY <1>1, <1>3, ReportsKept
<1>6. QED
  BY <1>3, <1>4, <1>5

(* A first count of a day that is over has all its rows, or retention has   *)
(* begun on them.                                                           *)
LEMMA CountIsRightOrLate ==
  ASSUME Inv, NEW d \in Days
  PROVE  \/ Cardinality(Daily(d)) = Cardinality(WrittenOn(d))
         \/ today - d >= Bound
<1> USE DEF Inv
<1>1. Daily(d) \subseteq WrittenOn(d)
  BY DailyIs DEF RowsInv, RowsAreKnown, WrittenOn
<1>2. CASE Daily(d) = WrittenOn(d)
  BY <1>2
<1>3. CASE Daily(d) # WrittenOn(d)
  <2>1. PICK e \in WrittenOn(d) : e \notin Daily(d)
    BY <1>1, <1>3
  <2>2. e \in Events /\ written[e] = d
    BY DEF WrittenOn
  <2>3. ev[e] = None
    BY <2>1, <2>2, DailyIs DEF RowsInv, RowsAreKnown
  <2>4. QED
    BY <2>2, <2>3, DayParts DEF RowsInv, RowsAreKnown
<1>4. QED
  BY <1>2, <1>3

(* A worker that takes a report counts, and has it in hand.                 *)
LEMMA TakeReportStep ==
  ASSUME Inv, TypeOK', NEW w \in Workers, TakeReport(w)
  PROVE  Inv'
<1> USE DEF Inv
<1> DEFINE job(d) == [kind |-> "report", day |-> d]
<1>1. UNCHANGED <<today, parts, rows, policy, report, started, least>> /\ work[w] = Idle
  BY DEF TakeReport
<1>2. PICK d \in Days :
        /\ job(d) \in queue /\ queue' = queue \ {job(d)}
        /\ work' = [work EXCEPT ![w] = [pc |-> "reads", job |-> job(d), total |-> DailySummary(d),
                                begun |-> today]]
  BY DEF TakeReport
<1>3. today <= today' /\ least' <= least
  BY <1>1, DayParts DEF TypeOK
<1>4. RowsInv' /\ MonthsInv' /\ Onward
  BY <1>1, <1>3, RowsAndMonthsKept
<1>5. /\ work'[w] = [pc |-> "reads", job |-> job(d), total |-> DailySummary(d),
                                begun |-> today]
      /\ \A v \in Workers \ {w} : work'[v] = work[v]
  BY <1>2 DEF TypeOK
<1>6. RetentionInv'
  <2>1. work'[w].pc = "reads"
    BY <1>5
  <2>2. \A v \in Workers : work'[v].pc = "rows" => work'[v] = work[v]
    BY <1>5, <2>1
  <2>3. QED
    BY <1>1, <2>2, RetentionKept
<1>7. RunIsRight(w)'
  <2>1. work'[w].job.kind = "report" /\ work'[w].job.day = d /\ work'[w].total = DailySummary(d)
        /\ work'[w].begun = today
    BY <1>5
  <2>2. Daily(d)' = Daily(d) /\ WrittenOn(d)' = WrittenOn(d) /\ Bound' = Bound
    BY <1>1 DEF Daily, EventsIn, WrittenOn, Bound, rows
  <2>3. Cardinality(Daily(d)) <= DailySummary(d)
    BY DailyIs DEF DailySummary
  <2>4. \/ DailySummary(d) = Cardinality(WrittenOn(d))
        \/ today - d >= Bound
    BY CountIsRightOrLate DEF DailySummary
  <2>5. today <= today
    BY DayParts DEF TypeOK
  <2> HIDE DEF Bound
  <2>6. QED
    BY <1>1, <2>1, <2>2, <2>3, <2>4, <2>5 DEF RunIsRight, CountIsRight
<1>8. ReportsInv'
  <2>1. \A v \in Workers : work'[v].pc = "reads" => work'[v] = work[v] \/ RunIsRight(v)'
    BY <1>5, <1>7
  <2>2. \A b \in Days : report'[b] # None => report'[b] = report[b]
    BY <1>1
  <2>3. QED
    BY <1>4, <2>1, <2>2, ReportsKept
<1>9. QED
  BY <1>4, <1>6, <1>8

(* A worker that takes the retention has the policy in hand, or the default.*)
LEMMA TakeRetentionStep ==
  ASSUME Inv, TypeOK', NEW w \in Workers, TakeRetention(w)
  PROVE  Inv'
<1> USE DEF Inv
<1> DEFINE job == [kind |-> "retention", day |-> None]
           days == IF policy = None THEN DefaultRetain ELSE policy
<1>1. /\ UNCHANGED <<today, parts, rows, policy, report, started, least>> /\ work[w] = Idle
      /\ queue' = queue \ {job}
      /\ work' = [work EXCEPT ![w] = [pc |-> "rows", job |-> job, retain |-> days]]
  BY DEF TakeRetention
<1>2. today <= today' /\ least' <= least
  BY <1>1, DayParts DEF TypeOK
<1>3. RowsInv' /\ MonthsInv' /\ Onward
  BY <1>1, <1>2, RowsAndMonthsKept
<1>4. /\ work'[w] = [pc |-> "rows", job |-> job, retain |-> days]
      /\ \A v \in Workers \ {w} : work'[v] = work[v]
  BY <1>1 DEF TypeOK
<1>5. RetentionInv'
  <2>1. least <= days
    BY DEF RetentionInv
  <2>2. work'[w].job.kind = "retention" /\ work'[w].retain = days
    BY <1>4
  <2>3. days >= least
    BY <2>1 DEF TypeOK
  <2> HIDE DEF days
  <2>4. \A v \in Workers : work'[v].pc = "rows" =>
          work'[v].job.kind = "retention" /\ work'[v].retain >= least
    BY <1>4, <2>2, <2>3 DEF RetentionInv
  <2>5. QED
    BY <1>1, <2>4 DEF RetentionInv
<1>6. ReportsInv'
  <2>1. \A v \in Workers : work'[v].pc = "reads" => work'[v] = work[v]
    BY <1>4
  <2>2. \A b \in Days : report'[b] # None => report'[b] = report[b]
    BY <1>1
  <2>3. QED
    BY <1>3, <2>1, <2>2, ReportsKept
<1>7. QED
  BY <1>3, <1>5, <1>6

(* What is stored is what was counted.                                      *)
LEMMA StoreReportStep ==
  ASSUME Inv, TypeOK', NEW w \in Workers, StoreReport(w)
  PROVE  Inv'
<1> USE DEF Inv
<1>1. /\ UNCHANGED <<today, parts, rows, policy, queue, started, least>> /\ work[w].pc = "reads"
      /\ work' = [work EXCEPT ![w] = Idle]
  BY DEF StoreReport
<1>2. today \in Nat /\ today <= today' /\ least' <= least
  BY <1>1, DayParts DEF TypeOK
<1>3. RowsInv' /\ MonthsInv' /\ Onward
  BY <1>1, <1>2, RowsAndMonthsKept
<1>4. work'[w] = Idle /\ Idle.pc = "idle" /\ \A v \in Workers \ {w} : work'[v] = work[v]
  BY <1>1 DEF TypeOK, Idle
<1>5. RetentionInv'
  <2>1. \A v \in Workers : work'[v].pc = "rows" => work'[v] = work[v]
    BY <1>4
  <2>2. QED
    BY <1>1, <2>1, RetentionKept
<1>6. work[w] \in ReportRun /\ RunIsRight(w)
  BY <1>1, WorkParts DEF ReportsInv
<1>7. PICK d \in Days : d = work[w].job.day /\ work[w].job = [kind |-> "report", day |-> d]
  BY <1>1, <1>6, WorkParts, JobParts DEF RunIsRight, ReportRun
<1> DEFINE entry == [total |-> work[w].total, reads |-> Cardinality(Daily(d)),
                     begun |-> work[w].begun]
<1>8. entry \in Report
  BY <1>6, DailyIs DEF ReportRun, Report
<1>9. report' = [report EXCEPT ![d] = entry]
  BY <1>7 DEF StoreReport
<1>10. /\ report'[d] = entry /\ report'[d] # None
       /\ \A b \in Days \ {d} : report'[b] = report[b]
  BY <1>8, <1>9 DEF TypeOK
<1>11. EntryIsRight(d)'
  <2>1. WrittenOn(d)' = WrittenOn(d) /\ Bound' = Bound
    BY <1>1 DEF WrittenOn, Bound, rows
  <2>2. report'[d].total = work[w].total /\ report'[d].reads = Cardinality(Daily(d))
        /\ report'[d].begun = work[w].begun
    BY <1>10
  <2> HIDE DEF Bound
  <2>3. QED
    BY <1>1, <1>6, <1>7, <2>1, <2>2 DEF EntryIsRight, RunIsRight, CountIsRight
<1>12. ReportsInv'
  <2>1. \A v \in Workers : work'[v].pc = "reads" => work'[v] = work[v]
    BY <1>4
  <2>2. \A b \in Days : report'[b] # None => report'[b] = report[b] \/ EntryIsRight(b)'
    BY <1>10, <1>11
  <2>3. QED
    BY <1>3, <2>1, <2>2, ReportsKept
<1>13. QED
  BY <1>3, <1>5, <1>12

(* A purge takes rows whose time has come, and what refers to them.         *)
LEMMA PurgeStep ==
  ASSUME Inv, TypeOK', NEW w \in Workers, Purge(w)
  PROVE  Inv'
<1> USE DEF Inv
<1>1. /\ UNCHANGED <<today, parts, written, left, policy, queue, report, started, least>>
      /\ work[w].pc = "rows" /\ work' = [work EXCEPT ![w] = Idle]
  BY DEF Purge
<1>2. work'[w] = Idle /\ Idle.pc = "idle" /\ \A v \in Workers \ {w} : work'[v] = work[v]
  BY <1>1 DEF TypeOK, Idle
<1>3. PICK gone \in SUBSET Events :
        /\ PurgeRowsBy(gone)
        /\ \A e \in gone : ev[e] # None /\ today - ev[e].day >= work[w].retain
  BY PurgeIs
<1>4. /\ Without(gone) /\ \A e \in Events : ev'[e] = IF e \in gone THEN None ELSE ev[e]
      /\ \A e \in Events : alert'[e] = IF e \in gone THEN None ELSE alert[e]
  BY <1>3 DEF PurgeRowsBy, Without
<1>5. /\ work[w].retain \in Nat /\ least \in Nat /\ work[w].retain >= least
      /\ work[w].job.kind = "retention"
  BY <1>1, WorkParts DEF RetentionInv, RetentionRun, TypeOK
<1>6. today \in Nat /\ today <= today' /\ \A e \in Events : ev[e] # None => ev[e].day \in Nat
  <2>1. today \in Nat
    BY DayParts DEF TypeOK
  <2>2. today <= today'
    BY <1>1, <2>1
  <2>3. \A e \in Events : ev[e] # None => ev[e].day \in Nat
    BY DayParts DEF TypeOK, Row
  <2>4. QED
    BY <2>1, <2>2, <2>3
<1>7. \A e \in gone : ev[e] # None => today - ev[e].day >= Bound /\ today - ev[e].day >= least
  <2> SUFFICES ASSUME NEW e \in gone
               PROVE  today - ev[e].day >= Bound /\ today - ev[e].day >= least
    OBVIOUS
  <2>1. PICK d \in Nat : d = ev[e].day
    BY <1>3, <1>6
  <2>2. today - d >= work[w].retain
    BY <1>3, <2>1
  <2>3. Bound \in Nat /\ Bound <= least
    BY BoundIs
  <2> HIDE DEF Bound
  <2>4. QED
    BY <1>5, <1>6, <2>1, <2>2, <2>3
<1>8. Onward
  BY <1>1, <1>4, GoingIsOnward
<1>9. stay # None => /\ stay' # None
                     /\ stay'.entry = IF stay.entry \in gone THEN None ELSE stay.entry
                     /\ stay'.exit = IF stay.exit \in gone THEN None ELSE stay.exit
  <2> SUFFICES ASSUME stay # None
               PROVE  /\ stay' # None
                      /\ stay'.entry = IF stay.entry \in gone THEN None ELSE stay.entry
                      /\ stay'.exit = IF stay.exit \in gone THEN None ELSE stay.exit
    OBVIOUS
  <2>1. stay' = [stay EXCEPT !.entry = IF @ \in gone THEN None ELSE @,
                             !.exit = IF @ \in gone THEN None ELSE @]
    BY <1>3 DEF PurgeRowsBy
  <2>2. stay \in Stay
    BY DEF TypeOK
  <2>3. stay' \in Stay
    BY <2>1, <2>2 DEF Stay
  <2>4. QED
    BY <2>1, <2>2, <2>3 DEF Stay
<1>10. stay = None => stay' = None
  BY <1>3 DEF PurgeRowsBy
<1>11. RowsInv'
  <2>1. RowsAreKnown'
    BY <1>1, <1>4, <1>7, GoingIsKnown DEF RowsInv
  <2>2. ReferencesResolve'
    <3> SUFFICES ASSUME NEW e \in Events, e \in Referenced' PROVE ev'[e] # None
      BY DEF ReferencesResolve, Referenced
    <3>1. e \in Referenced /\ e \notin gone
      BY <1>4, <1>9, <1>10 DEF Referenced
    <3>2. QED
      BY <1>4, <3>1 DEF RowsInv, ReferencesResolve
  <2>3. ASSUME left # None PROVE ExitIsKnown' /\ ReopenedByRetentionOnly'
    <3>1. /\ stay # None /\ stay \in Stay /\ left <= today /\ left \in Nat
          /\ stay.exit # None => ev[stay.exit] # None /\ ev[stay.exit].day = left
      BY <2>3, DayParts DEF RowsInv, ExitIsKnown, TypeOK
    <3>2. stay.exit \in Events \cup {None}
      BY <3>1 DEF Stay
    <3>3. CASE stay.exit \in gone
      <4>1. stay'.exit = None /\ stay' # None
        BY <1>9, <3>1, <3>3
      <4>2. stay.exit # None
        BY <3>3
      <4>3. today - left >= least
        BY <1>7, <3>1, <3>3, <4>2
      <4>4. QED
        BY <1>1, <3>1, <4>1, <4>3 DEF ExitIsKnown, ReopenedByRetentionOnly
    <3>4. CASE stay.exit \notin gone
      <4>1. stay'.exit = stay.exit /\ stay' # None
        BY <1>9, <3>1, <3>4
      <4>2. stay.exit # None => ev'[stay.exit] = ev[stay.exit]
        BY <1>4, <3>2, <3>4
      <4>3. ExitIsKnown'
        BY <1>1, <3>1, <4>1, <4>2 DEF ExitIsKnown
      <4>4. ReopenedByRetentionOnly'
        BY <1>1, <3>1, <4>1 DEF RowsInv, ReopenedByRetentionOnly, CurrentlyInside
      <4>5. QED
        BY <4>3, <4>4
    <3>5. QED
      BY <3>3, <3>4
  <2>4. QED
    BY <1>1, <2>1, <2>2, <2>3 DEF RowsInv, ExitIsKnown, ReopenedByRetentionOnly
<1>12. MonthsInv'
  BY <1>1, <1>4, <1>6, MonthsKept
<1>13. RetentionInv'
  <2>1. \A v \in Workers : work'[v].pc = "rows" => work'[v] = work[v]
    BY <1>2
  <2>2. QED
    BY <1>1, <2>1, RetentionKept
<1>14. ReportsInv'
  <2>1. \A v \in Workers : work'[v].pc = "reads" => work'[v] = work[v]
    BY <1>2
  <2>2. \A b \in Days : report'[b] # None => report'[b] = report[b]
    BY <1>1
  <2>3. QED
    BY <1>8, <2>1, <2>2, ReportsKept
<1>15. QED
  BY <1>11, <1>12, <1>13, <1>14

(* Every step keeps the invariant.                                          *)
LEMMA NextInv == Inv /\ [Next]_vars => Inv'
<1> SUFFICES ASSUME Inv, [Next]_vars PROVE Inv'
  OBVIOUS
<1>1. TypeOK'
  BY TypeStep DEF Inv
<1>2. QED
  BY <1>1, WriteStep, EnsureStep, DropStep, PolicyStep, QueueSteps, IdleStep,
     TakeReportStep, TakeRetentionStep, StoreReportStep, PurgeStep
     DEF Next, WorkerStep

(***************************************************************************)
(* Theorems                                                                *)
(***************************************************************************)

(* The inductive invariant.                                                 *)
THEOREM SpecInv == Spec => []Inv
  BY InitInv, NextInv, PTL DEF Spec

(* Partitions, retention and what refers to events: whatever a start of the *)
(* API makes, a drop or a purge takes and a policy shortens, no alert and    *)
(* no session refers to a row that is gone, a stay that ended counts as      *)
(* open only when retention reached its exit, and this month's rows have a  *)
(* partition when it was made in advance.                                   *)
THEOREM RowsAreWhole == Spec => []RowsStayWhole
<1>1. Inv => RowsStayWhole
  <2> SUFFICES ASSUME Inv PROVE CurrentMonthReady
    BY DEF Inv, RowsInv, RowsStayWhole
  <2>1. MonthOf(today) \in Months /\ MonthOf(today) <= MonthOf(today)
    BY DayParts, MonthOrder DEF Inv, TypeOK
  <2>2. MonthOf(today) <= started + Ahead => MonthOf(today) \in parts \/ WentToDefault(MonthOf(today))
    BY <2>1 DEF Inv, MonthsInv
  <2>3. QED
    BY <2>2 DEF CurrentMonthReady, HasCurrent
<1>2. QED
  BY <1>1, SpecInv, PTL

(* _build_pdf and the jobs that run it: a report begun when its day was over *)
(* counts all reads of the day, unless it was begun so late that retention   *)
(* or the dropping of old partitions came first, and its counts fit each     *)
(* other: whichever job is repeated, overtaken, discarded, fails or is lost. *)
THEOREM ReportsAreSound == Spec => []ReportsAreRight
<1>1. Inv => ReportsAreRight
  <2> SUFFICES ASSUME Inv PROVE ReportIsComplete /\ ReportAddsUp
    BY DEF Inv, ReportsInv, ReportsAreRight
  <2>1. \A d \in Days : report[d] # None => EntryIsRight(d)
    BY DEF Inv, ReportsInv
  <2>2. ReportIsComplete
    BY <2>1 DEF ReportIsComplete, EntryIsRight, CountIsRight, WrittenOn, Bound
  <2>3. ReportAddsUp
    BY <2>1 DEF ReportAddsUp, EntryIsRight
  <2>4. QED
    BY <2>2, <2>3
<1>2. QED
  BY <1>1, SpecInv, PTL

(***************************************************************************)
(* Sums over sets                                                          *)
(***************************************************************************)

(* What MapThenSumSet is: g sums the terms F of every part of S, the first  *)
(* element of a part by choice.                                             *)
First(s) == CHOOSE x \in s : TRUE
IsSum(S, F, g) ==
  g = [s \in SUBSET S |-> IF s = {} THEN 0 ELSE F[First(s)] + g[s \ {First(s)}]]

(* The first element of a set is in it.                                     *)
LEMMA FirstIsIn ==
  ASSUME NEW s, s # {}
  PROVE  First(s) \in s
  BY DEF First

(* Some numbers have a least one.                                           *)
LEMMA LeastNumber ==
  ASSUME NEW T, T \subseteq Nat, T # {}
  PROVE  \E n \in T : \A k \in T : n <= k
<1>1. PICK n \in T : \A k \in T : <<k, n>> \notin OpToRel(<, Nat)
  BY WFMin, NatLessThanWellFounded
<1>2. \A k \in T : k \in Nat /\ n \in Nat /\ ~(k < n)
  BY <1>1 DEF OpToRel
<1>3. QED
  BY <1>2

(* Two sums of the same terms are the same: of the parts on which they      *)
(* differed one would be smallest, and without its first element they would *)
(* not differ.                                                              *)
LEMMA SumIsUnique ==
  ASSUME NEW S, IsFiniteSet(S), NEW F, NEW g, NEW h, IsSum(S, F, g), IsSum(S, F, h)
  PROVE  g[S] = h[S]
<1> DEFINE Sizes == {n \in Nat : \E s \in SUBSET S : Cardinality(s) = n /\ g[s] # h[s]}
<1>1. SUFFICES ASSUME g[S] # h[S] PROVE FALSE
  OBVIOUS
<1>2. Sizes # {} /\ Sizes \subseteq Nat
  BY <1>1, FS_CardinalityType
<1>3. PICK n \in Sizes : \A k \in Sizes : n <= k
  BY <1>2, LeastNumber
<1>4. PICK s \in SUBSET S : Cardinality(s) = n /\ g[s] # h[s]
  BY <1>3
<1>5. s # {}
  BY <1>4 DEF IsSum
<1> DEFINE x == First(s)
           t == s \ {First(s)}
<1>6. x \in s /\ t \in SUBSET S
  BY <1>5, FirstIsIn
<1>7. IsFiniteSet(s) /\ Cardinality(s) \in Nat
  BY FS_Subset, FS_CardinalityType
<1>8. Cardinality(t) = n - 1 /\ IsFiniteSet(t) /\ Cardinality(t) \in Nat
  BY <1>4, <1>6, <1>7, FS_RemoveElement, FS_CardinalityType
<1>9. g[s] = F[x] + g[t] /\ h[s] = F[x] + h[t]
  BY <1>5 DEF IsSum
<1>10. g[t] # h[t]
  BY <1>4, <1>9
<1>11. Cardinality(t) \in Sizes
  BY <1>6, <1>8, <1>10
<1>12. n = Cardinality(s)
  BY <1>4
<1> HIDE DEF Sizes, t
<1>13. n <= Cardinality(t)
  BY <1>3, <1>11
<1>14. QED
  BY <1>7, <1>8, <1>12, <1>13

(* The sizes of sets of rows that have no row in common add up to the size  *)
(* of their union: that of each part's union is such a sum, so it is the    *)
(* one.                                                                     *)
LEMMA SizesAddUp ==
  ASSUME NEW S, IsFiniteSet(S), NEW R \in [S -> SUBSET Events],
         \A b, d \in S : b # d => R[b] \cap R[d] = {},
         NEW F, F = [d \in S |-> Cardinality(R[d])]
  PROVE  /\ \E g : IsSum(S, F, g)
         /\ \A g : IsSum(S, F, g) => g[S] = Cardinality(UNION {R[d] : d \in S})
<1> DEFINE All(s) == UNION {R[d] : d \in s}
           h == [s \in SUBSET S |-> Cardinality(All(s))]
<1>1. ASSUME NEW s \in SUBSET S, s # {}
      PROVE  Cardinality(All(s)) = F[First(s)] + h[s \ {First(s)}]
  <2> DEFINE x == First(s)
             t == s \ {x}
  <2>1. x \in S /\ x \in s /\ t \in SUBSET S
    BY <1>1, FirstIsIn
  <2>2. All(s) = R[x] \cup All(t) /\ R[x] \cap All(t) = {}
    BY <2>1
  <2>3. IsFiniteSet(R[x]) /\ IsFiniteSet(All(t))
    <3>1. IsFiniteSet(Events) /\ R[x] \in SUBSET Events /\ All(t) \in SUBSET Events
      BY <2>1, StoreAssumption
    <3> HIDE DEF All
    <3>2. QED
      BY <3>1, FS_Subset
  <2>4. Cardinality(R[x] \cup All(t)) = Cardinality(R[x]) + Cardinality(All(t))
    <3> DEFINE A == R[x]
               B == All(t)
    <3>1. IsFiniteSet(A) /\ IsFiniteSet(B) /\ A \cap B = {}
      BY <2>2, <2>3
    <3> HIDE DEF A, B
    <3>2. Cardinality(A \cup B) = Cardinality(A) + Cardinality(B) - Cardinality(A \cap B)
      BY <3>1, FS_Union
    <3>3. Cardinality(A \cap B) = 0
      BY <3>1, FS_EmptySet
    <3>4. Cardinality(A) \in Nat /\ Cardinality(B) \in Nat
      BY <3>1, FS_CardinalityType
    <3>5. QED
      BY <3>2, <3>3, <3>4 DEF A, B
  <2>5. F[x] = Cardinality(R[x]) /\ h[t] = Cardinality(All(t))
    BY <2>1
  <2>6. QED
    BY <2>2, <2>4, <2>5
<1>2. h[{}] = 0
  BY FS_EmptySet
<1>3. \A s \in SUBSET S : h[s] = IF s = {} THEN 0 ELSE F[First(s)] + h[s \ {First(s)}]
  BY <1>1, <1>2
<1>4. IsSum(S, F, h)
  <2>1. h = [s \in SUBSET S |-> h[s]]
    OBVIOUS
  <2> HIDE DEF h
  <2>2. QED
    BY <1>3, <2>1 DEF IsSum
<1>5. h[S] = Cardinality(UNION {R[d] : d \in S})
  OBVIOUS
<1> HIDE DEF h
<1>6. ASSUME NEW g, IsSum(S, F, g)
      PROVE  g[S] = h[S]
  BY <1>4, <1>6, SumIsUnique
<1>7. QED
  BY <1>4, <1>5, <1>6

(* The reads of days, counted day by day.                                   *)
LEMMA SumOfReads ==
  ASSUME NEW S, IsFiniteSet(S), \A b, d \in S : b # d => Daily(b) \cap Daily(d) = {}
  PROVE  MapThenSumSet(DailySummary, S) = Cardinality(UNION {Daily(d) : d \in S})
<1> DEFINE R == [d \in S |-> Daily(d)]
           F == [d \in S |-> Cardinality(R[d])]
           Sums(g) == g = [s \in SUBSET S |-> IF s = {} THEN 0
                             ELSE DailySummary(First(s)) + g[s \ {First(s)}]]
<1>1. MapThenSumSet(DailySummary, S) = (CHOOSE g : Sums(g))[S]
  BY DEF MapThenSumSet, MapThenFoldSet, First
<1>2. \A s \in SUBSET S : s # {} => DailySummary(First(s)) = F[First(s)]
  BY FirstIsIn DEF DailySummary
<1>3. \A g : Sums(g) <=> IsSum(S, F, g)
  BY <1>2 DEF IsSum
<1>4. R \in [S -> SUBSET Events] /\ UNION {R[d] : d \in S} = UNION {Daily(d) : d \in S}
      /\ \A b, d \in S : b # d => R[b] \cap R[d] = {}
  BY DEF Daily, EventsIn
<1> HIDE DEF R, Sums
<1>5. /\ \E g : IsSum(S, F, g)
      /\ \A g : IsSum(S, F, g) => g[S] = Cardinality(UNION {R[d] : d \in S})
  BY <1>4, SizesAddUp
<1>6. IsSum(S, F, CHOOSE g : Sums(g))
  BY <1>3, <1>5
<1>7. QED
  BY <1>1, <1>4, <1>5, <1>6

(* The alerts of days, counted day by day.                                  *)
LEMMA SumOfAlerts ==
  ASSUME NEW S, IsFiniteSet(S),
         \A b, d \in S : b # d => AlertsCsv(b, b) \cap AlertsCsv(d, d) = {}
  PROVE  MapThenSumSet(AlertsOf, S) = Cardinality(UNION {AlertsCsv(d, d) : d \in S})
<1> DEFINE R == [d \in S |-> AlertsCsv(d, d)]
           F == [d \in S |-> Cardinality(R[d])]
           Sums(g) == g = [s \in SUBSET S |-> IF s = {} THEN 0
                             ELSE AlertsOf(First(s)) + g[s \ {First(s)}]]
<1>1. MapThenSumSet(AlertsOf, S) = (CHOOSE g : Sums(g))[S]
  BY DEF MapThenSumSet, MapThenFoldSet, First
<1>2. \A s \in SUBSET S : s # {} => AlertsOf(First(s)) = F[First(s)]
  BY FirstIsIn DEF AlertsOf
<1>3. \A g : Sums(g) <=> IsSum(S, F, g)
  BY <1>2 DEF IsSum
<1>4. R \in [S -> SUBSET Events] /\ UNION {R[d] : d \in S} = UNION {AlertsCsv(d, d) : d \in S}
      /\ \A b, d \in S : b # d => R[b] \cap R[d] = {}
  BY DEF AlertsCsv
<1> HIDE DEF R, Sums
<1>5. /\ \E g : IsSum(S, F, g)
      /\ \A g : IsSum(S, F, g) => g[S] = Cardinality(UNION {R[d] : d \in S})
  BY <1>4, SizesAddUp
<1>6. IsSum(S, F, CHOOSE g : Sums(g))
  BY <1>3, <1>5
<1>7. QED
  BY <1>1, <1>4, <1>5, <1>6

(***************************************************************************)
(* Days and months                                                         *)
(***************************************************************************)

(* A month is its days: the part of RangesAddUp that needs no sum.          *)
MonthIsItsDays ==
  \A m \in Months :
    LET days == {d \in Days : MonthOf(d) = m}
        from == MonthRange(m)[1]
        to == MonthRange(m)[2]
    IN
    /\ Monthly(m) = UNION {Daily(d) : d \in days}
    /\ \A b, d \in days : b # d => Daily(b) \cap Daily(d) = {}
    /\ AlertsCsv(from, to) = UNION {AlertsCsv(d, d) : d \in days}
    /\ \A b, d \in days : b # d => AlertsCsv(b, b) \cap AlertsCsv(d, d) = {}
    /\ ParkingCsv(from, to) <=> \E d \in days : ExportParking(d, d)

(* A day is in the range of its month and in no other.                      *)
LEMMA RangeIs ==
  ASSUME NEW m \in Months, NEW d \in Days
  PROVE  InRange(d, MonthRange(m)[1], MonthRange(m)[2]) <=> MonthOf(d) = m
<1>1. d \in Nat /\ m \in Nat /\ MonthOf(d) \in Nat
  BY DayParts, MonthBounds
<1>2. MonthLen * MonthOf(d) <= d /\ d < MonthLen * MonthOf(d) + MonthLen
  BY <1>1, MonthBounds
<1>3. PICK p \in Nat : p = MonthOf(d)
  BY <1>1
<1>4. m * MonthLen = MonthLen * m /\ (m + 1) * MonthLen = MonthLen * m + MonthLen
      /\ MonthLen * m \in Nat /\ MonthLen * p \in Nat
  BY <1>1, <1>3, SMTT(30)
<1>5. InRange(d, MonthRange(m)[1], MonthRange(m)[2]) <=>
        MonthLen * m <= d /\ d < MonthLen * m + MonthLen
  <2>1. MonthRange(m)[1] = MonthLen * m /\ MonthRange(m)[2] = MonthLen * m + MonthLen - 1
    BY <1>4 DEF MonthRange
  <2>2. QED
    BY <1>1, <1>4, <2>1 DEF InRange
<1>6. p < m => MonthLen * p + MonthLen <= MonthLen * m
  BY <1>1, <1>3, SMTT(30)
<1>7. m < p => MonthLen * m + MonthLen <= MonthLen * p
  BY <1>1, <1>3, SMTT(30)
<1>8. QED
  BY <1>1, <1>2, <1>3, <1>4, <1>5, <1>6, <1>7

(* MonthRange, EventsIn and AlertsCsv: the rows and alerts of a month are    *)
(* those of its days, each of one day only, and a session is in its file    *)
(* when it is in a day's.                                                   *)
LEMMA MonthsTile == TypeOK => MonthIsItsDays
<1> SUFFICES ASSUME TypeOK, NEW m \in Months
             PROVE  LET days == {d \in Days : MonthOf(d) = m}
                        from == MonthRange(m)[1]
                        to == MonthRange(m)[2]
                    IN
                    /\ Monthly(m) = UNION {Daily(d) : d \in days}
                    /\ \A b, d \in days : b # d => Daily(b) \cap Daily(d) = {}
                    /\ AlertsCsv(from, to) = UNION {AlertsCsv(d, d) : d \in days}
                    /\ \A b, d \in days : b # d => AlertsCsv(b, b) \cap AlertsCsv(d, d) = {}
                    /\ ParkingCsv(from, to) <=> \E d \in days : ExportParking(d, d)
  BY DEF MonthIsItsDays
<1> DEFINE days == {d \in Days : MonthOf(d) = m}
           from == MonthRange(m)[1]
           to == MonthRange(m)[2]
<1>1. \A b, d \in Days : InRange(b, d, d) <=> b = d
  BY DayParts DEF InRange
<1>2. \A d \in Days : InRange(d, from, to) <=> d \in days
  BY RangeIs
<1>3. \A e \in Events : /\ ev[e] # None => ev[e].day \in Days
                        /\ alert[e] # None => alert[e] \in Days
  BY DEF TypeOK, Row
<1>4. days \subseteq Days
  OBVIOUS
<1>5. stay # None => stay.day \in Days
  BY DEF TypeOK, Stay
<1> HIDE DEF days, from, to
<1>6. Monthly(m) = UNION {Daily(d) : d \in days}
  BY <1>1, <1>2, <1>3, <1>4 DEF Monthly, Daily, EventsIn, from, to
<1>7. \A b, d \in days : b # d => Daily(b) \cap Daily(d) = {}
  BY <1>1, <1>3, <1>4 DEF Daily, EventsIn
<1>8. AlertsCsv(from, to) = UNION {AlertsCsv(d, d) : d \in days}
  BY <1>1, <1>2, <1>3, <1>4 DEF AlertsCsv
<1>9. \A b, d \in days : b # d => AlertsCsv(b, b) \cap AlertsCsv(d, d) = {}
  BY <1>1, <1>3, <1>4 DEF AlertsCsv
<1>10. ParkingCsv(from, to) <=> \E d \in days : ExportParking(d, d)
  BY <1>1, <1>2, <1>4, <1>5 DEF ParkingCsv, ExportParking
<1>11. QED
  BY <1>6, <1>7, <1>8, <1>9, <1>10 DEF days, from, to

(* Daily and monthly reports, the files of events and alerts and of parking *)
(* count the same rows: nothing is counted twice or falls between ranges,   *)
(* however long the months and whatever was written, purged or dropped.     *)
THEOREM RangesTile == Spec => []RangesAddUp
<1>1. TypeOK => RangesAddUp
  <2> SUFFICES ASSUME TypeOK, NEW m \in Months
               PROVE  LET from == MonthRange(m)[1]
                          to == MonthRange(m)[2]
                          days == {d \in Days : MonthOf(d) = m}
                      IN
                      /\ Cardinality(Monthly(m)) = MapThenSumSet(DailySummary, days)
                      /\ EventsCsv(from, to) = UNION {Daily(d) : d \in days}
                      /\ ExportEvents(from, to) = EventsCsv(from, to)
                      /\ Cardinality(AlertsCsv(from, to)) = MapThenSumSet(AlertsOf, days)
                      /\ ParkingCsv(from, to) <=> \E d \in days : ExportParking(d, d)
    BY DEF RangesAddUp
  <2> DEFINE from == MonthRange(m)[1]
             to == MonthRange(m)[2]
             days == {d \in Days : MonthOf(d) = m}
  <2>1. IsFiniteSet(days)
    <3>1. IsFiniteSet(Days) /\ days \in SUBSET Days
      BY StoreAssumption, FS_Interval DEF Days
    <3> HIDE DEF days
    <3>2. QED
      BY <3>1, FS_Subset
  <2>2. /\ Monthly(m) = UNION {Daily(d) : d \in days}
        /\ \A b, d \in days : b # d => Daily(b) \cap Daily(d) = {}
        /\ AlertsCsv(from, to) = UNION {AlertsCsv(d, d) : d \in days}
        /\ \A b, d \in days : b # d => AlertsCsv(b, b) \cap AlertsCsv(d, d) = {}
        /\ ParkingCsv(from, to) <=> \E d \in days : ExportParking(d, d)
    BY MonthsTile DEF MonthIsItsDays
  <2>3. EventsCsv(from, to) = Monthly(m) /\ ExportEvents(from, to) = EventsCsv(from, to)
    BY DEF EventsCsv, ExportEvents, EventsIn, Monthly
  <2> HIDE DEF days, from, to
  <2>4. MapThenSumSet(DailySummary, days) = Cardinality(UNION {Daily(d) : d \in days})
    BY <2>1, <2>2, SumOfReads
  <2>5. MapThenSumSet(AlertsOf, days) = Cardinality(UNION {AlertsCsv(d, d) : d \in days})
    BY <2>1, <2>2, SumOfAlerts
  <2>6. QED
    BY <2>2, <2>3, <2>4, <2>5 DEF days, from, to
<1>2. QED
  BY <1>1, SpecInv, PTL DEF Inv
=============================================================================
