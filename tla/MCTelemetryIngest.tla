------------------------- MODULE MCTelemetryIngest -------------------------
(* TelemetryIngest on batches that overlap in some of their events. *)
EXTENDS TelemetryIngest

CONSTANTS a, b, c

SomeKeys == {a, b, c}
Loud == {a, b}

Ev(key, time) == [key |-> key, time |-> time]
Env(events) == [validPeriod |-> TRUE, events |-> events]

(* Two batches that share an event, one with every kind of invalid event.  *)
DistinctDtos ==
  {<<Env(<<Ev(a, "recent"), Ev(c, "recent")>>), Env(<<Ev(b, "recent")>>)>>,
   <<Env(<<Ev(b, "recent"), Ev(a, "old")>>)>>,
   <<Env(<<Ev(c, "recent"), Ev(a, "unparsable"), Ev(b, "future")>>),
     [validPeriod |-> FALSE, events |-> <<Ev(a, "recent")>>]>>}

(* And one that holds an event twice. *)
AllDtos == DistinctDtos \cup {<<Env(<<Ev(a, "recent"), Ev(a, "recent")>>)>>}
=============================================================================
