----------------------------- MODULE EventStore -----------------------------
(***************************************************************************)
(* The events table and what lives off it: monthly partitions, the nightly *)
(* retention, daily reports and exports, for one site.                     *)
(*                                                                         *)
(* The clock counts days.  A job is acknowledged when it is done, when it  *)
(* raises and when its pool process dies (acks_late without a rejection of *)
(* lost workers); only a worker that dies as a whole leaves its job to be  *)
(* delivered again.                                                        *)
(*                                                                         *)
(* Beat's two fan-out tasks send nothing: the query for the active sites   *)
(* (scheduled.py:25) names a column the table does not have.  Jobs are     *)
(* sent by whoever calls the tasks, a cron job or an operator.             *)
(***************************************************************************)
EXTENDS Integers, FiniteSets, FiniteSetsExt

CONSTANTS
  Events,     \* ids of plate reads
  Workers,    \* Celery's worker processes
  None,       \* no row, no reference, no policy
  MonthLen,   \* days in a month
  Ahead,      \* months of partitions made in advance
  Behind,     \* months of partitions made for the past
  DefaultRetain,  \* days plate reads are kept without a policy
  Retains,    \* days a policy may ask for
  SnapRetain, \* days snapshots are kept
  FirstDay,   \* day of the installation
  MaxDay,     \* bound on the clock
  Reported,   \* bound: days whose report is asked for
  MaxJobs     \* bound: jobs sent and not done

VARIABLES
  today,
  parts,    \* months that have a partition
  ev,       \* events: the day of ts and the partition the row is in
  alert,    \* events with an alert, to its created_at
  stay,     \* a parking session: entry and exit event, created_at
  snaps,    \* objects in the bucket of snapshots
  policy,   \* retention_policies: retain_days of plate reads
  queue,    \* jobs sent and not acknowledged, nor with a worker
  work,     \* what each worker does
  report,   \* daily_summary.pdf of each day
  (* observations *)
  written,  \* the day each event was written
  started,  \* month of the last start that made all partitions it could
  least,    \* shortest retention in force so far
  left      \* day the stay ended

jobs == <<queue, work, report>>
rows == <<ev, alert, stay, snaps, written, left>>
vars == <<today, parts, rows, policy, jobs, started, least>>

Days == FirstDay .. MaxDay
MonthOf(d) == d \div MonthLen
Months == MonthOf(FirstDay) .. MonthOf(MaxDay)

(* A row in events_default has no home.                                     *)
Row == [day: Days, home: Months \cup {None}]
Object == [prefix: {"plates", "site"}, day: Days]
Stay == [entry: Events \cup {None}, exit: Events \cup {None}, day: Days]
(* begun: the day of its first count                                        *)
Report == [total: 0 .. Cardinality(Events), reads: 0 .. Cardinality(Events), begun: Days]

ASSUME StoreAssumption ==
  /\ IsFiniteSet(Events)
  /\ MonthLen \in Nat \ {0} /\ Ahead \in Nat /\ Behind \in Nat
  /\ DefaultRetain \in Nat /\ SnapRetain \in Nat /\ Retains \subseteq Nat
  /\ Reported \subseteq Days
  /\ FirstDay \in Nat /\ MaxDay \in Nat /\ FirstDay <= MaxDay /\ MaxJobs \in Nat
  /\ None \notin Nat \cup Events \cup Row \cup Stay \cup Report

(* The days a report is asked for are in its job, retention has no argument.*)
Job == [kind: {"report"}, day: Days] \cup [kind: {"retention"}, day: {None}]
Idle == [pc |-> "idle"]
ReportRun == [pc: {"reads"}, job: Job, total: 0 .. Cardinality(Events), begun: Days]
RetentionRun == [pc: {"rows"}, job: Job, retain: Retains \cup {DefaultRetain}]

TypeOK ==
  /\ today \in Days
  /\ parts \subseteq Months
  /\ ev \in [Events -> Row \cup {None}]
  /\ alert \in [Events -> Days \cup {None}]
  /\ stay \in Stay \cup {None}
  /\ snaps \subseteq Object
  /\ policy \in Retains \cup {None}
  /\ queue \subseteq Job
  /\ work \in [Workers -> {Idle} \cup ReportRun \cup RetentionRun]
  /\ report \in [Days -> Report \cup {None}]
  /\ written \in [Events -> Days \cup {None}]
  /\ started \in Months
  /\ least \in Retains \cup {DefaultRetain}
  /\ left \in Days \cup {None}

(* The migrations have run today.                                           *)
Init ==
  /\ today = FirstDay
  /\ parts = {m \in Months : m <= MonthOf(FirstDay) + Ahead}
  /\ ev = [e \in Events |-> None] /\ alert = [e \in Events |-> None]
  /\ stay = None /\ snaps = {} /\ policy = None
  /\ queue = {} /\ work = [w \in Workers |-> Idle]
  /\ report = [d \in Days |-> None]
  /\ written = [e \in Events |-> None]
  /\ started = MonthOf(FirstDay) /\ least = DefaultRetain /\ left = None

(***************************************************************************)
(* Writing (pipeline; CameraPipeline and ParkingSession have the detail)   *)
(***************************************************************************)

HomeOf(d) == IF MonthOf(d) \in parts THEN MonthOf(d) ELSE None

(* A read is stored with its snapshot, and with an alert when a watchlist   *)
(* has the plate; an entry or exit camera begins or ends a stay.            *)
Write(e) ==
  /\ written[e] = None
  /\ ev' = [ev EXCEPT ![e] = [day |-> today, home |-> HomeOf(today)]]
  /\ written' = [written EXCEPT ![e] = today]
  /\ snaps' = snaps \cup {[prefix |-> "plates", day |-> today]}
  /\ \E a \in {None, today} : alert' = [alert EXCEPT ![e] = a]
  /\ \/ UNCHANGED <<stay, left>>
     \/ /\ stay = None /\ UNCHANGED left
        /\ stay' = [entry |-> e, exit |-> None, day |-> today]
     \/ /\ stay # None /\ left = None
        /\ stay' = [stay EXCEPT !.exit = e] /\ left' = today
  /\ UNCHANGED <<today, parts, policy, jobs, started, least>>

(***************************************************************************)
(* Partitions (API: partition_manager.py)                                  *)
(***************************************************************************)

DefaultHas(m) == \E e \in Events : ev[e] # None /\ ev[e].home = None /\ MonthOf(ev[e].day) = m

(* The months around today.                                                 *)
Wanted == {m \in Months : m \in MonthOf(today) - Behind .. MonthOf(today) + Ahead}

(* At each start of the API.  PostgreSQL refuses a partition for rows that  *)
(* the default one holds; a failure ends no loop.                           *)
EnsurePartitions ==
  LET possible == {m \in Wanted : ~DefaultHas(m)} IN
  /\ \/ parts' = parts \cup possible /\ started' = MonthOf(today)
     \/ \E failed \in SUBSET possible :
          parts' = parts \cup (possible \ failed) /\ UNCHANGED started
  /\ UNCHANGED <<today, rows, policy, jobs, least>>

(* Events an alert or the session refers to.                                *)
Referenced ==
  {e \in Events : alert[e] # None \/ (stay # None /\ e \in {stay.entry, stay.exit})}

RowsOf(ms) == {e \in Events : ev[e] # None /\ ev[e].home \in ms}
Without(gone) == ev' = [e \in Events |-> IF e \in gone THEN None ELSE ev[e]]

(* Months before the threshold.  A table with rows that are referenced is   *)
(* not dropped: PostgreSQL refuses.  (Trigger logs and review items refer   *)
(* to events as well; what they keep is among the drops that fail.)         *)
Droppable(older) ==
  {m \in parts : m < MonthOf(today) - older /\ RowsOf({m}) \cap Referenced = {}}

(* On request; each DROP may fail on its own.                               *)
DropOldPartitions ==
  /\ \E older \in 1 .. MonthOf(MaxDay) : \E ms \in SUBSET Droppable(older) :
       /\ ms # {} /\ parts' = parts \ ms
       /\ Without(RowsOf(ms))
  /\ UNCHANGED <<today, alert, stay, snaps, written, left, policy, jobs, started, least>>

(* PUT of a policy, its days not checked.                                   *)
UpsertPolicy ==
  /\ policy' \in Retains
  /\ least' = Min({least, policy'})
  /\ UNCHANGED <<today, parts, rows, jobs, started>>

(***************************************************************************)
(* Reports and exports                                                     *)
(***************************************************************************)

(* [from, to] as timestamps: from at midnight up to the midnight after to.  *)
InRange(d, from, to) == from <= d /\ d < to + 1

EventsIn(from, to) == {e \in Events : ev[e] # None /\ InRange(ev[e].day, from, to)}

(* _build_pdf: one day.                                                     *)
Daily(d) == EventsIn(d, d)

(* The API builds the same summary on request.                              *)
DailySummary(d) == Cardinality(Daily(d))

BugMonthRange(m) == <<m * MonthLen, (m + 1) * MonthLen>>

(* The first of the month to the day before the first of the next.          *)
MonthRange(m) == <<m * MonthLen, (m + 1) * MonthLen - 1>>
Monthly(m) == EventsIn(MonthRange(m)[1], MonthRange(m)[2])

(* The API's file and the worker's, up to their limits.                     *)
EventsCsv(from, to) == EventsIn(from, to)
ExportEvents(from, to) == {e \in Events : ev[e] # None /\ InRange(ev[e].day, from, to)}

(* Alerts by created_at, joined with their events.                          *)
AlertsCsv(from, to) ==
  {e \in Events : alert[e] # None /\ InRange(alert[e], from, to) /\ ev[e] # None}
AlertsOf(d) == Cardinality(AlertsCsv(d, d))

(* Sessions by created_at.                                                  *)
ParkingCsv(from, to) == stay # None /\ InRange(stay.day, from, to)
ExportParking(from, to) == stay # None /\ InRange(stay.day, from, to)

(***************************************************************************)
(* What the API shows                                                      *)
(***************************************************************************)

(* /system/health: the partition of this month.                             *)
HasCurrent == MonthOf(today) \in parts

(* An open session is one without an exit event.                            *)
CurrentlyInside == stay # None /\ stay.exit = None

(***************************************************************************)
(* Jobs (worker)                                                           *)
(***************************************************************************)

Pending == Cardinality(queue) + Cardinality({w \in Workers : work[w] # Idle})

(* generate_daily_report is called for some day, over or not.               *)
SendReport ==
  /\ Pending < MaxJobs
  /\ \E d \in Reported : queue' = queue \cup {[kind |-> "report", day |-> d]}
  /\ UNCHANGED <<today, parts, rows, policy, work, report, started, least>>

(* enforce_retention_policy is called, nightly or to free space; two that   *)
(* wait are as one.                                                         *)
SendRetention ==
  /\ Pending < MaxJobs
  /\ queue' = queue \cup {[kind |-> "retention", day |-> None]}
  /\ UNCHANGED <<today, parts, rows, policy, work, report, started, least>>

(* The next day.                                                            *)
NextDay ==
  /\ today < MaxDay /\ today' = today + 1
  /\ UNCHANGED <<parts, rows, policy, jobs, started, least>>

(* A worker takes a report and makes the first count.  Each query sees what *)
(* is committed by then.                                                    *)
TakeReport(w) ==
  \E d \in Days :
    LET job == [kind |-> "report", day |-> d] IN
    /\ work[w] = Idle /\ job \in queue
    /\ queue' = queue \ {job}
    /\ work' = [work EXCEPT ![w] =
         [pc |-> "reads", job |-> job, total |-> DailySummary(d), begun |-> today]]
    /\ UNCHANGED <<today, parts, rows, policy, report, started, least>>

(* A worker takes the retention and reads the policies first.               *)
TakeRetention(w) ==
  LET job == [kind |-> "retention", day |-> None] IN
  /\ work[w] = Idle /\ job \in queue
  /\ queue' = queue \ {job}
  /\ work' = [work EXCEPT ![w] =
       [pc |-> "rows", job |-> job, retain |-> IF policy = None THEN DefaultRetain ELSE policy]]
  /\ UNCHANGED <<today, parts, rows, policy, report, started, least>>

(* A job that is taken and done for at once: its task is not registered in  *)
(* the worker, whose autodiscovery looks for a module that is not there, or *)
(* its first query raises.                                                  *)
JobIgnored ==
  /\ \E job \in queue : queue' = queue \ {job}
  /\ UNCHANGED <<today, parts, rows, policy, work, report, started, least>>

(* A query or the upload raises, or the pool process dies: the job is       *)
(* acknowledged, and nobody tries it again.                                 *)
JobFails(w) ==
  /\ work[w] # Idle
  /\ work' = [work EXCEPT ![w] = Idle]
  /\ UNCHANGED <<today, parts, rows, policy, queue, report, started, least>>

(* The worker dies as a whole: what it did not acknowledge is delivered     *)
(* again.  (A job that was done by then is as one sent once more.)          *)
Crash(w) ==
  /\ work[w] # Idle
  /\ queue' = queue \cup {work[w].job}
  /\ work' = [work EXCEPT ![w] = Idle]
  /\ UNCHANGED <<today, parts, rows, policy, report, started, least>>

BugStoreReport(w) ==
  /\ work[w].pc = "reads"
  /\ report' = [report EXCEPT ![work[w].job.day] =
       [total |-> Cardinality(Daily(work[w].job.day)), reads |-> work[w].total,
        begun |-> work[w].begun]]
  /\ work' = [work EXCEPT ![w] = Idle]
  /\ UNCHANGED <<today, parts, rows, policy, queue, started, least>>

(* The other counts and the upload, over any earlier one; acknowledged.     *)
StoreReport(w) ==
  /\ work[w].pc = "reads"
  /\ report' = [report EXCEPT ![work[w].job.day] =
       [total |-> work[w].total, reads |-> Cardinality(Daily(work[w].job.day)),
        begun |-> work[w].begun]]
  /\ work' = [work EXCEPT ![w] = Idle]
  /\ UNCHANGED <<today, parts, rows, policy, queue, started, least>>

BugPurgeRows(cutoff) ==
  LET gone == {e \in Events : ev[e] # None /\ ev[e].day < cutoff} IN
  /\ Without(gone)
  /\ alert' = [e \in Events |-> IF e \in gone THEN None ELSE alert[e]]
  /\ UNCHANGED stay

(* DELETE of what is older than the cutoff, a time of day: some rows of its *)
(* day go too.  Alerts go with their event, a session loses its reference.  *)
PurgeRows(cutoff) ==
  LET before == {e \in Events : ev[e] # None /\ ev[e].day < cutoff}
      onDay == {e \in Events : ev[e] # None /\ ev[e].day = cutoff}
      Kept(e, gone) == IF e \in gone THEN None ELSE e
  IN
  \E some \in SUBSET onDay :
    LET gone == before \cup some IN
    /\ Without(gone)
    /\ alert' = [e \in Events |-> IF e \in gone THEN None ELSE alert[e]]
    /\ stay' = IF stay = None THEN None
               ELSE [stay EXCEPT !.entry = Kept(@, gone), !.exit = Kept(@, gone)]

(* Old objects under the site's prefix, where the pipeline puts none.       *)
Expired == {o \in snaps : o.day < today - SnapRetain}
Found == {o \in snaps : o.prefix = "site" /\ o.day <= today - SnapRetain}

(* The rows, in a transaction of their own; then the objects, each of which *)
(* may fail to go, and the clips, of which there are none.                  *)
Purge(w) ==
  /\ work[w].pc = "rows"
  /\ PurgeRows(today - work[w].retain)
  /\ \E gone \in SUBSET Found : snaps' = snaps \ gone
  /\ work' = [work EXCEPT ![w] = Idle]
  /\ UNCHANGED <<today, parts, written, left, policy, queue, report, started, least>>

WorkerStep(w) ==
  \/ TakeReport(w) \/ StoreReport(w)
  \/ TakeRetention(w) \/ Purge(w)

Next ==
  \/ \E e \in Events : Write(e)
  \/ EnsurePartitions \/ DropOldPartitions \/ UpsertPolicy
  \/ SendReport \/ SendRetention \/ NextDay \/ JobIgnored
  \/ \E w \in Workers : WorkerStep(w) \/ JobFails(w) \/ Crash(w)

Spec == Init /\ [][Next]_vars

(***************************************************************************)
(* Properties                                                              *)
(***************************************************************************)

(* Within the months made in advance, today has a partition, unless rows of *)
(* this month went to the default one when it had none, which keeps it from *)
(* being made as long as retention leaves one of them.                      *)
WentToDefault(m) ==
  \E e \in Events : /\ written[e] # None /\ MonthOf(written[e]) = m
                    /\ ev[e] = None \/ ev[e].home = None
CurrentMonthReady ==
  MonthOf(today) <= started + Ahead => HasCurrent \/ WentToDefault(MonthOf(today))

(* References of alerts and sessions survive neither retention nor the      *)
(* dropping of partitions dangling.                                         *)
ReferencesResolve == \A e \in Referenced : ev[e] # None

(* analytics' and the parking desk's open stays are those without an exit   *)
(* event: one that ended counts as open again only when retention reached   *)
(* its exit.                                                                *)
ReopenedByRetentionOnly ==
  left # None /\ CurrentlyInside => today - left >= least

(* Rows have the home and the references that those who read them take for  *)
(* granted, whoever created, purged or dropped in between.                  *)
RowsStayWhole == TypeOK /\ CurrentMonthReady /\ ReferencesResolve /\ ReopenedByRetentionOnly

(* A report begun when its day was over has all reads of the day unless it  *)
(* was begun so late that retention or the dropping of old partitions came  *)
(* first: whatever job was repeated or came last.                           *)
ReportIsComplete ==
  \A d \in Days : report[d] # None /\ report[d].begun > d =>
    \/ report[d].total = Cardinality({e \in Events : written[e] = d})
    \/ report[d].begun - d >= Min({least, MonthLen + 1})

(* The counts of a report are no snapshot: rows go between them, and none   *)
(* come once the day is over, so reads never exceed events.                 *)
ReportAddsUp ==
  \A d \in Days : report[d] # None /\ report[d].begun > d => report[d].reads <= report[d].total

(* Days, months, files and alerts tile the same rows: nothing is counted    *)
(* twice or falls between two ranges.                                       *)
RangesAddUp ==
  \A m \in Months :
    LET from == MonthRange(m)[1]
        to == MonthRange(m)[2]
        days == {d \in Days : MonthOf(d) = m}
    IN
    /\ Cardinality(Monthly(m)) = MapThenSumSet(DailySummary, days)
    /\ EventsCsv(from, to) = UNION {Daily(d) : d \in days}
    /\ ExportEvents(from, to) = EventsCsv(from, to)
    /\ Cardinality(AlertsCsv(from, to)) = MapThenSumSet(AlertsOf, days)
    /\ ParkingCsv(from, to) <=> \E d \in days : ExportParking(d, d)

(* A report counts its day, and its counts fit each other.                  *)
ReportsAreRight == ReportIsComplete /\ ReportAddsUp

(* "snapshots: list + delete objects from MinIO snapshots bucket"           *)
(* (retention.py:8): a purge finds all snapshots that exceeded their window. *)
OldSnapshotsAreFound == \A w \in Workers : work[w].pc = "rows" => Expired \subseteq Found
=============================================================================
