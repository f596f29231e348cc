----------------------------- MODULE Judgement -----------------------------
(***************************************************************************)
(* What is concluded from telemetry as it comes in: the score of a round   *)
(* (Scoring), the pattern of a player's past rounds (Scoring) and the      *)
(* behaviour analysis of the AI service (BehaviorAnalysis).  The state is  *)
(* the stream one of them reads; a step is one more event in the stream.   *)
(* The three never read each other's input, so a behaviour has one stream. *)
(***************************************************************************)
EXTENDS Scoring

BA == INSTANCE BehaviorAnalysis

CONSTANTS MaxEvents,      \* length of a stream of telemetry events
          MaxRecords,     \* length of a history, and of a request's events
          MinForAi,       \* events from which the text model is asked (10)
          EventMinutes,   \* durations that telemetry events have
          RoundMinutes,   \* minutes between start and end of the round
          Pressures,      \* its difficulty's time pressure
          Records,        \* scored rounds: days since the one before, hour, score
          TimeSteps,      \* minutes from an event of a request to the next
          Claims,         \* durations that the events of a request claim
          Answers         \* lengths of the lines of the text model's answers

ASSUME JudgementAssumption ==
    /\ MaxEvents \in Nat /\ MaxRecords \in Nat /\ MinForAi \in Nat
    /\ EventMinutes \subseteq Int /\ RoundMinutes \subseteq Int /\ Pressures \subseteq Int
    /\ Records \subseteq [day: Nat, hour: Nat, focus: Int, score: Int]
    /\ TimeSteps \subseteq Int /\ Claims \subseteq Int
    /\ Answers \subseteq Seq(Nat)

VARIABLES reader,         \* who reads the stream: "round", "pattern", "analyzer"
          stream,         \* what has come in
          duration,       \* minutes of the round that is scored
          timePressure    \* and its difficulty

streamVars == <<reader, stream, duration, timePressure>>

Simple == {"app_switched", "distraction_detected", "git_commit",
           "terminal_activity", "manual_checkin"}

(* The payload of telemetry is not validated: a duration may be missing    *)
(* (0) or negative.                                                        *)
Telemetry == TelemetryEvent(Simple, {0})
             \cup TelemetryEvent({"focus_session_ended", "idle_detected", "ide_activity"},
                                 EventMinutes)

BehaviorEvents ==
    [type: BA!EventType, ts: TimeSteps, minutes: {0}, claimed: {FALSE}]
    \cup [type: {"focus_session_ended"}, ts: TimeSteps, minutes: Claims, claimed: {TRUE}]

Now == IF stream = <<>> THEN 600 ELSE stream[Len(stream)].ts

StreamInit ==
        /\ reader \in {"round", "pattern", "analyzer"}
        /\ stream = <<>>
        /\ IF reader = "round"
           THEN duration \in {Duration(0, n) : n \in RoundMinutes} /\ timePressure \in Pressures
           ELSE duration = 1 /\ timePressure = 1

(* One more telemetry event of the round (some fields do not matter).      *)
Observe ==
    /\ reader = "round" /\ Len(stream) < MaxEvents
    /\ \E e \in Telemetry :
          /\ e.type # "app_switched" => ~e.productive
          /\ e.type # "git_commit" => e.files = 1
          /\ stream' = Append(stream, e)
    /\ UNCHANGED <<reader, duration, timePressure>>

(* One more scored round: records are read in the order of their start.    *)
Record ==
    /\ reader = "pattern" /\ Len(stream) < MaxRecords
    /\ \E r \in Records :
          LET last == IF stream = <<>> THEN 0 ELSE stream[Len(stream)].day IN
          stream' = Append(stream, [r EXCEPT !.day = last + @])
    /\ UNCHANGED <<reader, duration, timePressure>>

(* One more event of a request to the analyzer; ts is a step from the one  *)
(* before, which may go back: nobody sorts them.                           *)
Analyze ==
    /\ reader = "analyzer" /\ Len(stream) < MaxRecords
    /\ \E e \in BehaviorEvents : stream' = Append(stream, [e EXCEPT !.ts = Now + @])
    /\ UNCHANGED <<reader, duration, timePressure>>

StreamNext == Observe \/ Record \/ Analyze

StreamSpec == StreamInit /\ [][StreamNext]_streamVars

----------------------------------------------------------------------------

Score(s) == computeBreakdown(aggregateEvents(s), duration, timePressure).total

Flags(s) == ToSet(detectAnomalies(aggregateEvents(s), duration))

(* scoring.service.ts:329-395.  More work never lowers the score of a      *)
(* round, a distraction never raises it, and what is not weighed leaves it *)
(* alone; whatever the payloads say, it stays between 0 and 1.  A flag     *)
(* once raised stays, but for "no commits", which only a commit takes back.*)
ScoreMovesRightly ==
    [][ reader = "round" =>
        LET e == stream'[Len(stream')]  was == Score(stream)  is == Score(stream') IN
        /\ is \in 0..Unit
        /\ CASE e.type = "distraction_detected" -> is <= was
             [] e.type \in {"git_commit", "manual_checkin"} -> is >= was
             [] e.type \in {"focus_session_ended", "ide_activity"} ->
                    e.minutes >= 0 => is >= was
             [] OTHER -> is = was
        /\ \A flag \in Flags(stream) \ Flags(stream') :
              \/ flag = "ide_no_commits" /\ e.type = "git_commit"
              \/ e.minutes < 0 ]_streamVars

InOrder(s) == \A i \in 2..Len(s) : s[i-1].ts <= s[i].ts

Claimed(s) == SumOf([i \in DOMAIN s |-> AtLeast(0, s[i].minutes)])

(* scoring.service.ts:206-232 and analyzer.service.ts:82-106.  A recovery  *)
(* is never negative nor longer than the history it is read from, and the  *)
(* focus sessions the analyzer measures do not overlap: together they are  *)
(* no longer than the history plus the durations the events claim.         *)
TimesWithinHistory ==
    /\ reader = "pattern" /\ stream # <<>> =>
          getPlayerPattern(stream, <<>>).recoverySpeedDays
              \in 0..(stream[Len(stream)].day - stream[1].day)
    /\ reader = "analyzer" /\ stream # <<>> /\ InOrder(stream) =>
          LET span    == stream[Len(stream)].ts - stream[1].ts
              pass    == BA!Passed(stream)
          IN  /\ SumOf(pass.focus) <= span + Claimed(stream)
              /\ SumOf(pass.gaps) <= span
              /\ \A i \in DOMAIN pass.gaps : pass.gaps[i] >= 0

(* analyzer.service.ts:39-60, 175-187; compact-summary.ts:92-112;          *)
(* scoring.service.ts:175-183.  Whatever the text model answers, an        *)
(* analysis has one to four insights, none from the model empty or too     *)
(* long, and a ceiling a difficulty can have.  The ranges sent for the     *)
(* peak hours hold exactly those hours, in order, and no two could be      *)
(* joined.  No hour left out of a player's three peak hours is busier than *)
(* one of them.                                                            *)
AnalysisFaithful ==
    /\ reader = "analyzer" =>
        LET stats  == BA!computeStats(stream)
            hours  == stats.peakProductivityHours
            ranges == BA!formatHourRange(hours)
        IN  /\ stats.sustainableCeiling \in 1..10
            /\ ToSet(hours) = UNION {ranges[i][1]..ranges[i][2] : i \in DOMAIN ranges}
            /\ \A i \in DOMAIN ranges : ranges[i][1] <= ranges[i][2]
            /\ \A i \in 2..Len(ranges) : ranges[i-1][2] + 1 < ranges[i][1]
            /\ \A answer \in Answers :
                  LET said == BA!aiInsights(stream, MinForAi, answer)
                  IN  /\ Len(BA!analyze(stream, MinForAi, answer)) \in 1..4
                      /\ \A i \in DOMAIN said : said[i] \in 1..200
    /\ reader = "pattern" =>
        LET hours == [i \in DOMAIN stream |-> stream[i].hour]
            peaks == getPlayerPattern(stream, <<>>).peakProductivityHours
        IN  /\ Len(peaks) <= 3 /\ Cardinality(ToSet(peaks)) = Len(peaks)
            /\ \A h \in ToSet(hours) \ ToSet(peaks) : \A p \in ToSet(peaks) :
                  Occurrences(hours, h) <= Occurrences(hours, p)
-----------------------------------------------------------------------------
(* What is known of the streams, from which the properties follow.         *)

StreamTyped ==
    /\ duration \in Nat \ {0} /\ timePressure \in Int
    /\ \/ reader = "round" /\ stream \in Seq(Telemetry)
       \/ reader = "pattern" /\ stream \in Seq([day: Nat, hour: Nat, focus: Int, score: Int])
       \/ reader = "analyzer" /\ stream \in Seq(BA!Event)

RecordsInOrder ==
    reader = "pattern" =>
        \A i, j \in DOMAIN stream : i <= j => stream[i].day <= stream[j].day

(* All that was measured ends before the start or the failure that is      *)
(* still to be used up.                                                    *)
PassWithin(first, last, claimed, p) ==
    /\ p.started # BA!NoTime => p.started \in first..last
    /\ p.failed # BA!NoTime => p.failed \in first..last
    /\ SumOf(p.focus) <= claimed + (IF p.started = BA!NoTime THEN last ELSE p.started) - first
    /\ SumOf(p.gaps) <= (IF p.failed = BA!NoTime THEN last ELSE p.failed) - first
    /\ \A i \in DOMAIN p.gaps : p.gaps[i] >= 0

PassMeasured ==
    reader = "analyzer" /\ stream # <<>> /\ InOrder(stream) =>
        PassWithin(stream[1].ts, stream[Len(stream)].ts, Claimed(stream), BA!Passed(stream))

StreamInv == StreamTyped /\ RecordsInOrder /\ PassMeasured
=============================================================================
