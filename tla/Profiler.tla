------------------------------ MODULE Profiler ------------------------------
(***************************************************************************)
(* The performance records of a session (CNIS_RECORD_PERF, on by default): *)
(* TagSetProfiler, with one Profiler for each tag that is in use, and      *)
(* LatencyRecorder.                                                        *)
(*                                                                         *)
(* Send starts a request of a tag, the response task     *)
(* ends it, also when it was discarded; WaitTaskDone and DiscardTask       *)
(* remove the tag, although other threads may have requests of it under    *)
(* way; a timer refreshes the rates.  Each of these operations is one      *)
(* step, under profilers_mutex_.  max and min of a Throughout are kept by  *)
(* the code and read by nobody.                                            *)
(*                                                                         *)
(* The response task also records the latency of the requests that were    *)
(* not discarded.  RecordPerformance writes the fields of a record one by  *)
(* one under latency_mutex_, which GetLatency does not take when it copies *)
(* them: GetPerformance returns a reference.  Both go through the fields   *)
(* in any order, as a data race leaves it to the build.  The two recorders *)
(* share nothing and are specified side by side.                           *)
(***************************************************************************)
EXTENDS Integers, FiniteSets, Functions

CONSTANTS
  ProfTags,     \* tags
  ProfReqs,     \* requests, numbered as they are sent
  ProfUnits,    \* DataNum of a request
  ProfLatency,  \* time of a unit
  MaxRecords,   \* bound on the calls of RecordPerformance
  MaxNow,       \* bound on the clock
  MaxRemovals   \* bound on the calls of RemoveTag

ASSUME ProfilerConstants ==
  /\ ProfReqs \subseteq Nat /\ ProfUnits \subseteq Nat \ {0} /\ ProfLatency \subseteq Nat
  /\ MaxRecords \in Nat /\ MaxNow \in Nat /\ MaxRemovals \in Nat

VARIABLES
  profilers_,       \* Profiler by tag, for the tags that have one
  now,              \* the steady clock
  flying,           \* requests between RequestStart and RequestEnd, or NotFlying
  unused,           \* requests to come
  fatal,            \* CHECK_NE has ended the process
  \* history, by tag: removals; what its present profiler should say; whether a
  \* request that an earlier profiler of the tag had counted was ended in it
  epoch, truth, tainted

VARIABLES
  latency_record_,  \* LatencyRecorder, for one key
  settled, left,    \* the record when RecordPerformance is through, and the fields
                    \* it has still to write
  records,          \* calls of RecordPerformance
  copy, torn        \* what GetLatency has copied, and whether a record was made
                    \* meanwhile

tagVars == <<profilers_, now, flying, unused, fatal, epoch, truth, tainted>>
latencyVars == <<latency_record_, settled, left, records, copy, torn>>
profilerVars == <<tagVars, latencyVars>>

NotFlying == [tag |-> "none", units |-> 0, epoch |-> 0]
NewProfiler ==
  [processing_cnt_ |-> 0, start_time_ |-> -1, total_ |-> 0, request_cnt_ |-> 0, unit_cnt_ |-> 0,
   last_update_ |-> now, period_request_cnt_ |-> 0, period_unit_cnt_ |-> 0, rt |-> [req |-> 0, unit |-> 0, period |-> 1]]
NewTruth == [busy |-> 0, requests |-> 0, units |-> 0, shown |-> 0]

ProfilerInit ==
  /\ profilers_ = [t \in {} |-> 0]
  /\ now = 0
  /\ flying = [r \in ProfReqs |-> NotFlying] /\ unused = ProfReqs
  /\ fatal = FALSE
  /\ epoch = [t \in ProfTags |-> 0] /\ truth = [t \in ProfTags |-> NewTruth]
  /\ tainted = [t \in ProfTags |-> FALSE]

Present == DOMAIN profilers_
SetProfiler(t, p) == profilers_' = [u \in Present \cup {t} |-> IF u = t THEN p ELSE profilers_[u]]

-----------------------------------------------------------------------------
\* Mutant: every request starts the clock again.
StartedAgain(p) == [p EXCEPT !.start_time_ = now, !.processing_cnt_ = @ + 1]

\* Profiler::RequestStart: the busy time begins with the first request.
Started(p) ==
  [p EXCEPT !.start_time_ = IF p.processing_cnt_ = 0 THEN now ELSE @,
            !.processing_cnt_ = @ + 1]

\* TagSetProfiler::RequestStart makes the profiler of a new tag.
RequestStart(r, t, n) ==
  /\ ~fatal /\ r \in unused /\ \A q \in unused : r <= q
  /\ SetProfiler(t, Started(IF t \in Present THEN profilers_[t] ELSE NewProfiler))
  /\ unused' = unused \ {r}
  /\ flying' = [flying EXCEPT ![r] = [tag |-> t, units |-> n, epoch |-> epoch[t]]]
  /\ UNCHANGED <<now, fatal, epoch, truth, tainted>>

\* Profiler::RequestEnd.
Ended(p, n) ==
  [p EXCEPT !.request_cnt_ = @ + 1, !.period_request_cnt_ = @ + 1,
            !.unit_cnt_ = @ + n, !.period_unit_cnt_ = @ + n,
            !.processing_cnt_ = @ - 1,
            !.total_ = IF p.processing_cnt_ = 1 THEN @ + (now - p.start_time_) ELSE @]

\* The response task: TagSetProfiler::RequestEnd ignores a tag that is gone and
\* does not notice one that is new.
RequestEnd(r) ==
  LET f == flying[r]
      orphan == f.epoch # epoch[f.tag]
      found == f.tag \in Present
      check == found /\ profilers_[f.tag].processing_cnt_ = 0
  IN
  /\ ~fatal /\ f # NotFlying
  /\ flying' = [flying EXCEPT ![r] = NotFlying]
  /\ fatal' = check
  /\ tainted' = [tainted EXCEPT ![f.tag] = @ \/ (found /\ orphan)]
  /\ IF found /\ ~check
     THEN /\ SetProfiler(f.tag, Ended(profilers_[f.tag], f.units))
          /\ truth' = [truth EXCEPT ![f.tag] = [truth[f.tag] EXCEPT !.requests = @ + 1, !.units = @ + f.units]]
     ELSE UNCHANGED <<profilers_, truth>>
  /\ UNCHANGED <<now, unused, epoch>>

\* WaitTaskDone and DiscardTask.
RemoveTag(t) ==
  /\ ~fatal /\ t \in Present /\ epoch[t] < MaxRemovals
  /\ profilers_' = [u \in Present \ {t} |-> profilers_[u]]
  /\ epoch' = [epoch EXCEPT ![t] = @ + 1]
  /\ truth' = [truth EXCEPT ![t] = NewTruth]
  /\ tainted' = [tainted EXCEPT ![t] = FALSE]
  /\ UNCHANGED <<now, flying, unused, fatal>>

\* Profiler::Refresh: the rates of the period that ends.
PeriodRates(p) == [req |-> p.period_request_cnt_, unit |-> p.period_unit_cnt_, period |-> now - p.last_update_]
Refreshed(p) ==
  [p EXCEPT !.last_update_ = now, !.period_request_cnt_ = 0, !.period_unit_cnt_ = 0,
            !.rt = PeriodRates(p)]

\* TagSetProfiler::Update, from the session's timer; time has passed since the
\* last call.
Update ==
  /\ ~fatal /\ Present # {}
  /\ \A t \in Present : now > profilers_[t].last_update_
  /\ profilers_' = [t \in Present |-> Refreshed(profilers_[t])]
  /\ truth' = [t \in ProfTags |->
                 IF t \in Present THEN [truth[t] EXCEPT !.shown = @ + profilers_'[t].rt.req] ELSE truth[t]]
  /\ UNCHANGED <<now, flying, unused, fatal, epoch, tainted>>

Flying(t) == {r \in ProfReqs : flying[r] # NotFlying /\ flying[r].tag = t /\ flying[r].epoch = epoch[t]}

\* The clock.
Tick ==
  /\ ~fatal /\ now < MaxNow
  /\ now' = now + 1
  /\ truth' = [t \in ProfTags |-> IF Flying(t) # {} THEN [truth[t] EXCEPT !.busy = @ + 1] ELSE truth[t]]
  /\ UNCHANGED <<profilers_, flying, unused, fatal, epoch, tainted>>

ProfilerNext ==
  \/ \E r \in ProfReqs, t \in ProfTags, n \in ProfUnits : RequestStart(r, t, n)
  \/ \E r \in ProfReqs : RequestEnd(r)
  \/ \E t \in ProfTags : RemoveTag(t)
  \/ Update \/ Tick

ProfilerSpec == ProfilerInit /\ [][ProfilerNext]_tagVars

-----------------------------------------------------------------------------
(* LatencyRecorder *)

LatencyFields == {"unit_cnt", "total", "max", "min"}
NewLatency == [unit_cnt |-> 0, total |-> 0, max |-> 0, min |-> 1000000]

LatencyInit ==
  /\ latency_record_ = NewLatency /\ settled = NewLatency /\ left = {} /\ records = 0
  /\ copy = <<>> /\ torn = FALSE

Greater(a, b) == IF a > b THEN a ELSE b
Smaller(a, b) == IF a < b THEN a ELSE b

\* What RecordPerformance makes of a record.
Recorded(l, n, time) ==
  [unit_cnt |-> l.unit_cnt + n, total |-> l.total + time,
   max |-> Greater(l.max, time \div n), min |-> Smaller(l.min, time \div n)]

\* LatencyRecorder::RecordPerformance takes the mutex and begins ...
RecordPerformance(n, latency) ==
  /\ left = {} /\ records < MaxRecords
  /\ settled' = Recorded(latency_record_, n, latency * n) /\ left' = LatencyFields
  /\ records' = records + 1
  /\ UNCHANGED <<latency_record_, copy, torn>>

\* ... and writes a field, until none is left.
RecordField(f) ==
  /\ f \in left
  /\ latency_record_' = [latency_record_ EXCEPT ![f] = settled[f]] /\ left' = left \ {f}
  /\ torn' = (torn \/ DOMAIN copy # LatencyFields)
  /\ UNCHANGED <<settled, records, copy>>

\* InferServer::GetLatency copies a field, without the mutex, and may be called again.
GetLatency(f) ==
  LET had == IF DOMAIN copy = LatencyFields THEN {} ELSE DOMAIN copy IN
  /\ f \notin had
  /\ copy' = [g \in had \cup {f} |-> IF g = f THEN latency_record_[f] ELSE copy[g]]
  /\ torn' = (left # {} \/ (had # {} /\ torn))
  /\ UNCHANGED <<latency_record_, settled, left, records>>

LatencyNext ==
  \/ \E n \in ProfUnits, l \in ProfLatency : RecordPerformance(n, l)
  \/ \E f \in LatencyFields : RecordField(f) \/ GetLatency(f)

LatencySpec == LatencyInit /\ [][LatencyNext]_latencyVars

-----------------------------------------------------------------------------
(* What the session's observers return *)

\* The time behind RequestPerSecond and UnitPerSecond: what ended, and what runs.
BusyTime(p) == p.total_ + IF p.processing_cnt_ = 0 THEN 0 ELSE now - p.start_time_

\* Profiler::Summary, and TagSetProfiler::Summary over all tags.
Summary(t) == [request_cnt |-> profilers_[t].request_cnt_, unit_cnt |-> profilers_[t].unit_cnt_,
               time |-> BusyTime(profilers_[t]), rt |-> profilers_[t].rt]
SummaryAll == [request_cnt |-> SumFunctionOnSet([t \in Present |-> Summary(t).request_cnt], Present),
               unit_cnt |-> SumFunctionOnSet([t \in Present |-> Summary(t).unit_cnt], Present)]

-----------------------------------------------------------------------------
(* Properties *)

Between(l) == l.min * l.unit_cnt <= l.total /\ l.total <= l.max * l.unit_cnt

\* The CHECK of RequestEnd ends the process only after a tag was removed with
\* requests under way and used again: the end of an old request is then counted
\* in the new profiler, and the end of a new one finds zero.
FatalOnlyAfterRemoval == fatal => \E t \in ProfTags : tainted[t]

\* The rates of GetThroughout are taken over exactly the time in which requests of
\* the tag were under way, however they overlap.
BusyTimeExact ==
  \A t \in Present : ~tainted[t] => Summary(t).time = truth[t].busy

\* The counts of GetThroughout are those of the requests that ended.
SummaryExact ==
  /\ \A t \in Present : Summary(t).request_cnt = truth[t].requests /\ Summary(t).unit_cnt = truth[t].units
  /\ SummaryAll.request_cnt = SumFunctionOnSet([t \in Present |-> truth[t].requests], Present)
  /\ SummaryAll.unit_cnt = SumFunctionOnSet([t \in Present |-> truth[t].units], Present)

\* Every request that ended is in the rate of exactly one period.
PeriodsAddUp ==
  \A t \in Present : truth[t].shown + profilers_[t].period_request_cnt_ = truth[t].requests

\* The average of a latency record lies between its minimum and its maximum: in what
\* PrintPerformance reads under latency_mutex_, and in what GetLatency returns unless
\* a record was made while it copied.  That exception is real: GetPerformance takes no
\* lock, a copy that meets a record mixes old and new fields, and its average may lie
\* anywhere.
MeanBetween ==
  /\ left = {} => Between(latency_record_)
  /\ DOMAIN copy = LatencyFields /\ ~torn => Between(copy)

\* The statistics are those of the requests, for any overlap of them, the latency
\* unless a request is recorded while it is copied, and the CHECK of RequestEnd fails
\* only after a tag was removed with requests under way.
ProfilesExact == FatalOnlyAfterRemoval /\ BusyTimeExact /\ SummaryExact /\ PeriodsAddUp /\ MeanBetween

-----------------------------------------------------------------------------
(* The inductive invariant of ProfilesExact *)

Flights == [tag : ProfTags, units : ProfUnits, epoch : Nat]
Rates == [req : Nat, unit : Nat, period : Int]
ProfilerStates ==
  [processing_cnt_ : Nat, start_time_ : Int, total_ : Int, request_cnt_ : Nat, unit_cnt_ : Nat, last_update_ : Int,
   period_request_cnt_ : Nat, period_unit_cnt_ : Nat, rt : Rates]
Truths == [busy : Int, requests : Nat, units : Nat, shown : Nat]
Latencies == [unit_cnt : Nat, total : Nat, max : Nat, min : Nat]
Copies == UNION {[F -> Nat] : F \in SUBSET LatencyFields}

ProfilerTyped ==
  /\ Present \subseteq ProfTags /\ profilers_ \in [Present -> ProfilerStates]
  /\ now \in Nat /\ fatal \in BOOLEAN
  /\ flying \in [ProfReqs -> Flights \cup {NotFlying}] /\ unused \subseteq ProfReqs
  /\ epoch \in [ProfTags -> Nat] /\ truth \in [ProfTags -> Truths] /\ tainted \in [ProfTags -> BOOLEAN]

\* A request is sent once, with the epoch its tag is in.
FlightsKnown ==
  /\ \A r \in unused : flying[r] = NotFlying
  /\ \A r \in ProfReqs : flying[r] # NotFlying => flying[r].epoch <= epoch[flying[r].tag]
  /\ \A t \in ProfTags : IsFiniteSet(Flying(t))

\* A tag without a profiler has nothing to be told.
AbsentClear ==
  \A t \in ProfTags \ Present : truth[t] = NewTruth /\ ~tainted[t] /\ Flying(t) = {}

\* A profiler that no request of an earlier one was ended in counts those under way.
CountsExact ==
  \A t \in Present :
    /\ profilers_[t].request_cnt_ = truth[t].requests /\ profilers_[t].unit_cnt_ = truth[t].units
    /\ truth[t].shown + profilers_[t].period_request_cnt_ = truth[t].requests
    /\ ~tainted[t] => /\ profilers_[t].processing_cnt_ = Cardinality(Flying(t))
                      /\ BusyTime(profilers_[t]) = truth[t].busy

ProfilerInv == ProfilerTyped /\ FlightsKnown /\ AbsentClear /\ CountsExact /\ FatalOnlyAfterRemoval

LatencyTyped ==
  /\ latency_record_ \in Latencies /\ settled \in Latencies /\ left \subseteq LatencyFields
  /\ copy \in Copies /\ torn \in BOOLEAN

\* The record is right when RecordPerformance is through, a field it has written has
\* its value, and a copy that met no record has the fields of one state.
LatencyInv ==
  /\ LatencyTyped
  /\ Between(settled) /\ \A f \in LatencyFields \ left : latency_record_[f] = settled[f]
  /\ ~torn => IF DOMAIN copy = LatencyFields THEN Between(copy)
              ELSE \A f \in DOMAIN copy : copy[f] = latency_record_[f]
==============================================================================
