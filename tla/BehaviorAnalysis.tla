-------------------------- MODULE BehaviorAnalysis --------------------------
(***************************************************************************)
(* The statistics of ai-service/src/modules/behavioral-analysis:           *)
(* AnalyzerService (analyzer.service.ts) over the events of a request, in  *)
(* the order of the request, and the hour ranges sent to the text model    *)
(* (compact-summary.ts).  Only operators.                                  *)
(*                                                                         *)
(* Time is in minutes.  A text is its length: the code looks at nothing    *)
(* else of a text once it has been split into lines or array members.      *)
(***************************************************************************)
EXTENDS Sums

Minute == 1
Hour   == 60 * Minute
Day    == 24 * Hour

NoTime == 0      \* the code takes a time of 0 for none

----------------------------------------------------------------------------
(* computeStats: one pass over the events [type, ts, minutes, claimed]:    *)
(* claimed when there is a durationSec, which nothing keeps from being < 0.*)
(* started is focusStartsByKey.get('latest'), failed is pendingFailureAt.  *)

EventType == {"distraction_detected", "focus_session_started", "focus_session_ended",
              "round_failed", "round_succeeded"}

Event == [type: EventType, ts: Int, minutes: Int, claimed: BOOLEAN]

Pass == [started: Int, failed: Int, focus: Seq(Int), gaps: Seq(Int),
         succeeded: Nat, failures: Nat]

NewPass == [started |-> NoTime, failed |-> NoTime, focus |-> <<>>, gaps |-> <<>>,
            succeeded |-> 0, failures |-> 0]

(* A fault for the runs: the start of a measured session is kept.          *)
FocusEndedFault(p, e) ==
    IF p.started # NoTime /\ e.ts > p.started
    THEN [p EXCEPT !.focus = Append(@, e.ts - p.started)]
    ELSE IF e.claimed THEN [p EXCEPT !.focus = Append(@, e.minutes)] ELSE p

(* A session is measured from the latest start, which is used up; without  *)
(* one before it, the event's own duration counts.                         *)
FocusEnded(p, e) ==
    IF p.started # NoTime /\ e.ts > p.started
    THEN [p EXCEPT !.focus = Append(@, e.ts - p.started), !.started = NoTime]
    ELSE IF e.claimed THEN [p EXCEPT !.focus = Append(@, e.minutes)] ELSE p

RoundSucceeded(p, e) ==
    IF p.failed = NoTime THEN [p EXCEPT !.succeeded = @ + 1]
    ELSE [p EXCEPT !.succeeded = @ + 1, !.gaps = Append(@, e.ts - p.failed),
                   !.failed = NoTime]

Step(p, e) ==
    CASE e.type = "focus_session_started" -> [p EXCEPT !.started = e.ts]
      [] e.type = "focus_session_ended"   -> FocusEnded(p, e)
      [] e.type = "round_failed"    -> [p EXCEPT !.failed = e.ts, !.failures = @ + 1]
      [] e.type = "round_succeeded" -> RoundSucceeded(p, e)
      [] OTHER -> p

Passed(events) == Folded([p \in Pass |-> [e \in Event |-> Step(p, e)]], NewPass, events)

hourOf(ts) == (ts \div Hour) % 24

Occurrences(s, k) == Cardinality({i \in DOMAIN s : s[i] = k})

(* topHours: the n busiest hours; hours as busy stay in order of the day.  *)
Hours(hours) == {hours[i] : i \in DOMAIN hours}
Busier(hours) ==
    {p \in Hours(hours) \X Hours(hours) :
        \/ Occurrences(hours, p[1]) > Occurrences(hours, p[2])
        \/ Occurrences(hours, p[1]) = Occurrences(hours, p[2]) /\ p[1] < p[2]}

topHours(hours, n) == UpTo(Ranked(Hours(hours), Busier(hours)), n)

(* A mean with two decimals, in hundredths: toFixed(2) of the code.        *)
Mean(s) == (200 * SumOf(s) + Len(s)) \div (2 * Len(s))

(* Math.round(successRate * 10), cut to 1..10; 0.5 without any round.      *)
ceilingOf(succeeded, failures) ==
    LET all     == succeeded + failures
        rounded == IF all = 0 THEN 5 ELSE (20 * succeeded + all) \div (2 * all)
    IN  IF rounded < 1 THEN 1 ELSE rounded

computeStats(events) ==
    LET p == Passed(events)
    IN  [ peakProductivityHours  |-> topHours([i \in DOMAIN events |-> hourOf(events[i].ts)], 3),
          distracted             |-> \E i \in DOMAIN events : events[i].type = "distraction_detected",
          avgFocusSessionMinutes |-> IF p.focus = <<>> THEN 0 ELSE Mean(p.focus),
          recoveryDays           |-> IF p.gaps = <<>> THEN <<>> ELSE <<Mean(p.gaps)>>,
          sustainableCeiling     |-> ceilingOf(p.succeeded, p.failures) ]

----------------------------------------------------------------------------
(* analyze: the deterministic insights, replaced by those of the model if  *)
(* there are at least MinForAi events and the model says something usable. *)

(* One insight for each statistic that has a value, or the one that says   *)
(* there is no telemetry.  Their length is about 60, more for a domain     *)
(* with a long name: nothing limits it, and nothing here is said of it.    *)
deterministicInsights(stats) ==
    LET known == {f \in {"peak", "distraction", "focus", "recovery"} :
                    CASE f = "peak"        -> stats.peakProductivityHours # <<>>
                      [] f = "distraction" -> stats.distracted
                      [] f = "focus"       -> stats.avgFocusSessionMinutes > 0
                      [] f = "recovery"    -> stats.recoveryDays # <<>>}
    IN  [i \in 1..(IF known = {} THEN 1 ELSE Cardinality(known)) |-> 60]

(* parseInsightArray: of the members, or of the lines when the answer is   *)
(* no JSON array, the first four that are neither empty nor over 200.      *)
Insight == 1..200
Usable == [kept \in Seq(Insight) |-> [n \in Nat |->
             IF n \in Insight THEN Append(kept, n) ELSE kept]]
parseInsightArray(lines) == UpTo(Folded(Usable, <<>>, lines), 4)

(* The lines of the text model's answer: <<>> if it throws, which analyze  *)
(* catches.                                                                *)
aiInsights(events, minForAi, answer) ==
    IF Len(events) >= minForAi THEN parseInsightArray(answer) ELSE <<>>

analyze(events, minForAi, answer) ==
    LET ai == aiInsights(events, minForAi, answer) IN
    IF ai # <<>> THEN ai ELSE deterministicInsights(computeStats(events))

----------------------------------------------------------------------------
(* compactifyContext, as analyze uses it: of what computeStats returns     *)
(* only the peak hours change. The distractions, at most three objects     *)
(* {domain, count}, pass as they are: compactValue cuts strings, array     *)
(* members that are strings, and arrays longer than eight, and meets none  *)
(* of these; a domain of any length is sent whole.                         *)

(* formatHourRange: the hours as runs of consecutive ones.  topHours gives *)
(* each hour once, so sorting them is sorting a set.                       *)
Extend(ranges, h) ==
    IF ranges # <<>> /\ h = ranges[Len(ranges)][2] + 1
    THEN [ranges EXCEPT ![Len(ranges)] = <<@[1], h>>]
    ELSE Append(ranges, <<h, h>>)

Sorted(hours) == Ranked(Hours(hours), {p \in Hours(hours) \X Hours(hours) : p[1] < p[2]})

Joined(hours) ==
    Folded([ranges \in Seq(Int \X Int) |-> [h \in Int |-> Extend(ranges, h)]],
           <<>>, Sorted(hours))

(* A fault for the runs: a run that the end of the hours cuts is dropped.  *)
formatHourRangeFault(hours) ==
    LET ranges == Joined(hours)
    IN  IF Len(ranges) < 2 THEN ranges ELSE SubSeq(ranges, 1, Len(ranges) - 1)

formatHourRange(hours) == Joined(hours)
=============================================================================
