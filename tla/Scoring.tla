------------------------------ MODULE Scoring ------------------------------
(***************************************************************************)
(* The arithmetic of backend/src/modules/scoring/scoring.service.ts: what  *)
(* ScoringService makes of the telemetry of a round.  Only operators; the  *)
(* calls of scoreRound, which saves rows with them, are in EventProcessing.*)
(*                                                                         *)
(* Numbers: a score is a whole number of parts of Unit (1.0 = Unit), and   *)
(* every division rounds down, where the code keeps a double.  Rounding    *)
(* down keeps order, so what is said here about which of two scores is     *)
(* larger, and about the limits 0 and 1, is said of the code.              *)
(***************************************************************************)
EXTENDS Sums, SequencesExt

Unit == 10000

(* A telemetry event: eventType, payload.durationMinutes (0 if missing),   *)
(* isProductive and payload.changedFiles.                                  *)
TelemetryEvent(types, minutes) ==
    [type: types, minutes: minutes, productive: BOOLEAN, files: 0..1]

clamp01(n) == IF n < 0 THEN 0 ELSE IF n > Unit THEN Unit ELSE n

AtLeast(a, b) == IF a > b THEN a ELSE b

----------------------------------------------------------------------------
(* aggregateEvents: one pass over the events, here one count or sum for    *)
(* each field.  `durationMin || n` gives n for a missing or zero duration. *)

PlacesOf(events, type) == {i \in DOMAIN events : events[i].type = type}

Minutes(events, type, missing) ==
    SumOf([i \in DOMAIN events |->
             IF events[i].type # type THEN 0
             ELSE IF events[i].minutes = 0 THEN missing ELSE events[i].minutes])

aggregateEvents(events) ==
    LET Count(type) == Cardinality(PlacesOf(events, type)) IN
    [ focusMinutes        |-> Minutes(events, "focus_session_ended", 0),
      idleMinutes         |-> Minutes(events, "idle_detected", 5),
      ideMinutes          |-> Minutes(events, "ide_activity", 1),
      appSwitches         |-> Count("app_switched"),
      productiveAppEvents |-> Cardinality({i \in PlacesOf(events, "app_switched") :
                                             events[i].productive}),
      distractionEvents   |-> Count("distraction_detected"),
      gitCommits          |-> Count("git_commit"),
      terminalActivity    |-> Count("terminal_activity"),
      manualCheckins      |-> Count("manual_checkin"),
      zeroDiffCommits     |-> Cardinality({i \in PlacesOf(events, "git_commit") :
                                             events[i].files = 0}) ]

----------------------------------------------------------------------------
(* computeBreakdown.  duration is at least 1: scoreRound takes             *)
(* Math.max(1, ...) of the minutes between start and end.                  *)

Duration(start, end) == AtLeast(1, end - start)

Weights == [ide |-> 3, git |-> 3, focus |-> 2, distraction |-> 1, checkin |-> 1]

Tolerance(timePressure) == AtLeast(1, 6 - timePressure)

(* n / d as parts of Unit; d is never 0, see Duration and Tolerance.       *)
Ratio(n, d) == (n * Unit) \div d

(* A fault for the runs: distractions are charged the whole tolerance.     *)
DistractionFault(distractions, timePressure) ==
    clamp01(Ratio(distractions, Tolerance(timePressure)))

DistractionAbsence(distractions, timePressure) ==
    clamp01(Unit - Ratio(distractions, Tolerance(timePressure)))

computeBreakdown(a, duration, timePressure) ==
    LET ide      == clamp01(Ratio(2 * a.ideMinutes, duration))
        git      == clamp01(Ratio(60 * a.gitCommits, AtLeast(60, duration)))
        focus    == clamp01(Ratio(10 * a.focusMinutes, 7 * duration))
        distract == DistractionAbsence(a.distractionEvents, timePressure)
        checkin  == IF a.manualCheckins > 0 THEN Unit ELSE 0
    IN  [ ideActivityScore |-> ide, gitActivityScore |-> git,
          focusDurationScore |-> focus, distractionAbsenceScore |-> distract,
          manualCheckinScore |-> checkin,
          total |-> clamp01((Weights.ide * ide + Weights.git * git
                             + Weights.focus * focus
                             + Weights.distraction * distract
                             + Weights.checkin * checkin) \div 10) ]

(* detectAnomaliesInternal: the flags, in the order the code pushes them.  *)
(* More than 20/60 commits a minute; 12 hours of IDE time and no commit;   *)
(* idle for at least 0.9 of the round; a commit that changes nothing.      *)
detectAnomalies(a, duration) ==
    (IF 60 * a.gitCommits > 20 * duration THEN <<"git_commits_spike">> ELSE <<>>)
    \o (IF a.ideMinutes >= 12 * 60 /\ a.gitCommits = 0
        THEN <<"ide_no_commits">> ELSE <<>>)
    \o (IF 10 * a.idleMinutes >= 9 * duration THEN <<"round_mostly_idle">> ELSE <<>>)
    \o (IF a.zeroDiffCommits > 0 THEN <<"zero_diff_commits">> ELSE <<>>)

----------------------------------------------------------------------------
(* getPlayerPattern, over the behavioural records in the order of their    *)
(* start: [day, hour, focus, score].                                       *)

Keys(s) == {s[i] : i \in DOMAIN s}

Occurrences(s, k) == Cardinality({i \in DOMAIN s : s[i] = k})

FirstAt(s, k) == CHOOSE i \in DOMAIN s : s[i] = k /\ \A j \in 1..(i-1) : s[j] # k

(* The keys of a Map filled along s, sorted by count and cut to n: the     *)
(* sort is stable, so keys of one count stay in order of first occurrence. *)
Commoner(s) ==
    {p \in Keys(s) \X Keys(s) :
        \/ Occurrences(s, p[1]) > Occurrences(s, p[2])
        \/ /\ Occurrences(s, p[1]) = Occurrences(s, p[2])
           /\ FirstAt(s, p[1]) < FirstAt(s, p[2])}

MostCommon(s, n) == UpTo(Ranked(Keys(s), Commoner(s)), n)

(* The mean of the members of s at some places, 0 if there are none.       *)
MeanOf(s, places) ==
    IF places = {} THEN 0
    ELSE SumOf([i \in DOMAIN s |-> IF i \in places THEN s[i] ELSE 0]) \div Cardinality(places)

Mean(s) == MeanOf(s, DOMAIN s)

(* The records below 0.4 that a later record of 0.6 or more follows, and   *)
(* the days from each to the first such record.                            *)
Good(records, i) == {j \in (i+1)..Len(records) : records[j].score >= 6000}
FirstGood(records, i) ==
    CHOOSE j \in Good(records, i) : \A k \in Good(records, i) : j <= k

Lows(records) == {i \in DOMAIN records : records[i].score < 4000 /\ Good(records, i) # {}}

RecoveryDays(records) ==
    [i \in DOMAIN records |-> IF i \in Lows(records)
                              THEN records[FirstGood(records, i)].day - records[i].day ELSE 0]

getPlayerPattern(records, distractions) ==
    [ averageFocusSessionMinutes |-> Mean([i \in DOMAIN records |-> records[i].focus]),
      averageProductivityScore   |-> Mean([i \in DOMAIN records |-> records[i].score]),
      peakProductivityHours      |-> MostCommon([i \in DOMAIN records |-> records[i].hour], 3),
      commonDistractions         |-> IF records = <<>> THEN <<>>
                                     ELSE MostCommon(distractions, 5),
      recoverySpeedDays          |-> MeanOf(RecoveryDays(records), Lows(records)),
      sampleSize                 |-> Len(records) ]
=============================================================================
