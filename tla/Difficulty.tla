----------------------------- MODULE Difficulty -----------------------------
(***************************************************************************)
(* The arithmetic of                                                       *)
(* backend/src/modules/difficulty/difficulty-engine.service.ts, in         *)
(* hundredths: a ceiling of 3 is 300.  Multiplications round down to a     *)
(* hundredth, where the code keeps a double or calls toFixed(2).           *)
(* The five dimensions of a difficulty are always set together to one      *)
(* value, here called target; a difficulty is [target, multiplier].        *)
(***************************************************************************)
EXTENDS Integers, Sequences, FiniteSets

CEILING_MIN    == 100
CEILING_MAX    == 1000
DIMENSION_MIN  == 100
DIMENSION_MAX  == 1000
MULTIPLIER_MIN == 50
MULTIPLIER_MAX == 200
BASELINE       == 300       \* DEFAULT_DIFFICULTY.timePressure

Within(low, high, n) == IF n < low THEN low ELSE IF n > high THEN high ELSE n

clampDimension(n) == Within(DIMENSION_MIN, DIMENSION_MAX, n)

Times(n, hundredths) == (n * hundredths) \div 100

(* The sum of the difficulties of a sequence of rounds. *)
Total(rounds) ==
    LET sum[n \in 0..Len(rounds)] == IF n = 0 THEN 0 ELSE sum[n - 1] + rounds[n].difficulty
    IN  sum[Len(rounds)]

Completed(rounds) == Cardinality({i \in DOMAIN rounds : rounds[i].completed})

(* calculateCeiling, over the last ten finished rounds                     *)
(* [completed, difficulty]: the mean difficulty, moved by five times what  *)
(* the rate of success is above or below 0.7.                              *)
calculateCeiling(finished) ==
    IF finished = <<>> THEN BASELINE
    ELSE LET n      == Len(finished)
             recent == SubSeq(finished, IF n > 10 THEN n - 9 ELSE 1, n)
             mean   == Total(recent) \div Len(recent)
         IN  Within(CEILING_MIN, CEILING_MAX,
                    mean + (500 * Completed(recent)) \div Len(recent) - 350)

(* Math.round of a ceiling, as updateCeiling stores it.                    *)
RoundedCeiling(n) == ((n + 50) \div 100) * 100

PhaseRatio == <<60, 75, 90, 85>>

(* A fault for the runs: the phase goes past the ceiling, unclamped.       *)
nextDifficultyFault(ceiling, completed) ==
    LET target == Times(ceiling, 40 + PhaseRatio[(completed % 4) + 1]) IN
    [target |-> target, multiplier |-> 100]

(* getNextRoundDifficulty, from the ceiling and the completed rounds.      *)
nextDifficulty(ceiling, completed) ==
    LET target == clampDimension(Times(ceiling, PhaseRatio[(completed % 4) + 1])) IN
    [ target     |-> target,
      multiplier |-> Within(MULTIPLIER_MIN, MULTIPLIER_MAX,
                            100 + Times(target - BASELINE, 15)) ]

(* applyConsequenceAdjustment: the new ceiling, and the next difficulty.   *)
adjustedCeiling(ceiling, type) ==
    CASE type = "recovery_required" -> Within(CEILING_MIN, ceiling, Times(ceiling, 60))
      [] type = "difficulty_reset"  -> BASELINE
      [] type = "cooldown_imposed"  -> Within(CEILING_MIN, ceiling, ceiling \div 2)
      [] OTHER                      -> ceiling

adjustedDifficulty(newCeiling, type) ==
    [ target     |-> clampDimension(Times(newCeiling, 60)),
      multiplier |-> CASE type \in {"recovery_required", "cooldown_imposed"} -> 50
                       [] type = "difficulty_reset" -> 75
                       [] OTHER -> 100 ]
=============================================================================
