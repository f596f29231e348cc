---------------------------- MODULE MCJudgement ----------------------------
(* Judgement on streams of a few events, with odd durations and times that *)
(* go back.                                                                *)
EXTENDS Judgement

SomeMinutes == {-20, 0, 40, 800}
SomeRounds == {-5, 45, 90}
SomePressures == {1, 5, 10}
SomeRecords == [day: {0, 2}, hour: {9, 10, 14, 23}, focus: {50}, score: {2000, 5000, 9000}]
SomeSteps == {-60, 30, 90}
SomeClaims == {-20, 20}
SomeAnswers == {<<>>, <<0, 300>>, <<80, 80, 80, 80, 80>>}
=============================================================================
