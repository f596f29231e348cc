CONSTANTS
    MaxEvents = 3
    MaxRecords = 4
    MinForAi = 3
    EventMinutes <- SomeMinutes
    RoundMinutes <- SomeRounds
    Pressures <- SomePressures
    Records <- SomeRecords
    TimeSteps <- SomeSteps
    Claims <- SomeClaims
    Answers <- SomeAnswers
SPECIFICATION StreamSpec
INVARIANTS TimesWithinHistory AnalysisFaithful
PROPERTY ScoreMovesRightly
CHECK_DEADLOCK FALSE
