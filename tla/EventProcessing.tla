-------------------------- MODULE EventProcessing --------------------------
(***************************************************************************)
(* What happens to an event after it is logged, for one user with one      *)
(* round: EventProcessor (event-processor.worker.ts),                      *)
(* EventSnapshotService, the state it keeps in CacheService, and           *)
(* ScoringService.scoreRound, which writes the same row of rounds.         *)
(*                                                                         *)
(* One action is one awaited call; calls of two workers interleave.  A     *)
(* save of the round writes every column of the copy that was loaded.      *)
(***************************************************************************)
EXTENDS RoundStateMachine, Naturals, Sequences, FiniteSets
LOCAL INSTANCE TLC

CONSTANTS Workers,        \* calls of process, scoreRound or a transition at a time
          Triggers,       \* the triggers RoundsService is called with
          SNAPSHOT_EVERY, \* event-snapshot.service.ts:8 (1000)
          MaxEvents, MaxCalls, MaxFailures \* bounds

ASSUME ProcessingAssumption ==
    /\ Triggers \subseteq StateTrigger
    /\ SNAPSHOT_EVERY \in Nat \ {0} /\ {MaxEvents, MaxCalls, MaxFailures} \subseteq Nat

VARIABLES events,    \* the events table, in order of occurred_at
          round,     \* the row of rounds: its state, and part of its stats
          records,   \* the distractions counted by each of the behavioral_records
          snapshots, \* the event_snapshots table
          cache,     \* user:<id>:current_state, or "none"
          signals,   \* what was published for each event, and which escalations
          worker,
          calls, failures, overlapped

vars == <<events, round, records, snapshots, cache, signals, worker, calls, failures, overlapped>>

CRITICAL_VIOLATIONS_THRESHOLD == 2
Topics == {"scoring", "difficulty", "announcements"}
Idle == [kind |-> "idle"]
Working(w, at) == worker[w] # Idle /\ worker[w].at = at
Quiet == \A w \in Workers : worker[w] = Idle

Round == [state: OperationalState, violations: Nat, distractions: Nat, scored: BOOLEAN]

Init ==
    /\ events = <<>> /\ records = <<>> /\ snapshots = <<>>
    /\ round = [state |-> "MONITORING", violations |-> 0, distractions |-> 0, scored |-> FALSE]
    /\ cache = "none"
    /\ signals = [published |-> <<>>, saved |-> <<>>, escalations |-> 0]
    /\ worker = [w \in Workers |-> Idle]
    /\ calls = 0 /\ failures = 0 /\ overlapped = FALSE

(* EventsService.emit: the row is there before anyone processes it. *)
Log(e) == /\ events' = Append(events, [e EXCEPT !.processed = FALSE])
          /\ signals' = [signals EXCEPT !.published = Append(@, [t \in Topics |-> 0]),
                                        !.saved = Append(@, 0)]
Event(type, to, inRound) == [type |-> type, to |-> to, inRound |-> inRound, processed |-> FALSE]

(* Another service logs an event.  A distraction is also a row of          *)
(* telemetry, which scoreRound counts.                                     *)
Emit ==
    /\ Len(events) < MaxEvents
    /\ \E e \in {Event("round.completed", "none", TRUE),
                 Event("behavior.distraction_detected", "none", TRUE),
                 Event("behavior.distraction_detected", "none", FALSE)} : Log(e)
    /\ overlapped' = (overlapped \/ ~Quiet)
    /\ UNCHANGED <<round, records, snapshots, cache, worker, calls, failures>>

Distraction(i) == events[i].type = "behavior.distraction_detected" /\ events[i].inRound
Distractions == Cardinality({i \in DOMAIN events : Distraction(i)})

Start(w, kind, arg) ==
    /\ worker[w] = Idle /\ calls < MaxCalls
    /\ worker' = [worker EXCEPT ![w] = [kind |-> kind, arg |-> arg, at |-> "load", copy |-> round,
                                        count |-> 0, latest |-> 0]]
    /\ calls' = calls + 1
    /\ overlapped' = (overlapped \/ ~Quiet)
    /\ UNCHANGED <<events, round, records, snapshots, cache, signals, failures>>

Process(w)    == \E e \in DOMAIN events : Start(w, "process", e)
ScoreRound(w) == Start(w, "score", 0)
Transition(w) == \E t \in Triggers : Start(w, "transition", t)

Done(w)     == worker' = [worker EXCEPT ![w] = Idle]
Goto(w, at) == worker' = [worker EXCEPT ![w].at = at]

----------------------------------------------------------------------------
(* process: events.findOne, then dispatch up to its first awaited call.    *)

Find(w) ==
    /\ Working(w, "load") /\ worker[w].kind = "process"
    /\ LET id == worker[w].arg
           e  == events[id]
       IN  /\ IF e.processed THEN Done(w)
              ELSE Goto(w, IF Distraction(id) THEN "loadRound" ELSE "mark")
           /\ signals' = IF ~e.processed /\ e.type = "round.completed"
                         THEN [signals EXCEPT !.published[id] = [t \in Topics |-> @[t] + 1]]
                         ELSE signals
           /\ cache' = IF ~e.processed /\ e.type = "state.transition" THEN e.to ELSE cache
    /\ UNCHANGED <<events, round, records, snapshots, calls, failures, overlapped>>

(* handleDistraction: rounds.findOne, the counters, rounds.save. *)
LoadRound(w) ==
    /\ Working(w, "loadRound")
    /\ worker' = [worker EXCEPT ![w].copy = [round EXCEPT !.violations = @ + 1,
                                                          !.distractions = @ + 1],
                                ![w].at = "save"]
    /\ UNCHANGED <<events, round, records, snapshots, cache, signals, calls, failures, overlapped>>

SaveDistraction(w) ==
    /\ Working(w, "save") /\ worker[w].kind = "process"
    /\ LET copy == worker[w].copy IN
       /\ round' = copy
       /\ signals' = [signals EXCEPT
            !.saved[worker[w].arg] = @ + 1,
            !.escalations = @ + IF /\ copy.violations >= CRITICAL_VIOLATIONS_THRESHOLD
                                   /\ copy.state = "OPERATIONAL" THEN 1 ELSE 0]
    /\ Goto(w, "mark")
    /\ UNCHANGED <<events, records, snapshots, cache, calls, failures, overlapped>>

(* markProcessed; maybeSnapshot goes on without its caller. *)
MarkProcessed(w) ==
    /\ Working(w, "mark")
    /\ events' = [events EXCEPT ![worker[w].arg].processed = TRUE]
    /\ Goto(w, "count")
    /\ UNCHANGED <<round, records, snapshots, cache, signals, calls, failures, overlapped>>

----------------------------------------------------------------------------
(* maybeSnapshot and captureSnapshot: count, last snapshot, latest event,  *)
(* insert.                                                                 *)

Count(w) ==
    /\ Working(w, "count")
    /\ worker' = [worker EXCEPT ![w] =
                    IF Len(events) % SNAPSHOT_EVERY # 0 THEN Idle
                    ELSE [@ EXCEPT !.count = Len(events), !.at = "last"]]
    /\ UNCHANGED <<events, round, records, snapshots, cache, signals, calls, failures, overlapped>>

(* A fault for the runs: the last snapshot is not looked at. *)
FindLastFault(w) ==
    /\ Working(w, "last") /\ Goto(w, "latest")
    /\ UNCHANGED <<events, round, records, snapshots, cache, signals, calls, failures, overlapped>>

FindLast(w) ==
    /\ Working(w, "last")
    /\ IF snapshots # <<>> /\ snapshots[Len(snapshots)].count = worker[w].count
       THEN Done(w) ELSE Goto(w, "latest")
    /\ UNCHANGED <<events, round, records, snapshots, cache, signals, calls, failures, overlapped>>

FindLatest(w) ==
    /\ Working(w, "latest")
    /\ worker' = [worker EXCEPT ![w].latest = Len(events), ![w].at = "insert"]
    /\ UNCHANGED <<events, round, records, snapshots, cache, signals, calls, failures, overlapped>>

SaveSnapshot(w) ==
    /\ Working(w, "insert")
    /\ snapshots' = Append(snapshots, [count |-> worker[w].count, last |-> worker[w].latest])
    /\ Done(w)
    /\ UNCHANGED <<events, round, records, cache, signals, calls, failures, overlapped>>

----------------------------------------------------------------------------
(* scoreRound: rounds.findOne, the telemetry, behavioral_records.save,     *)
(* rounds.save.                                                            *)

LoadScored(w) ==
    /\ Working(w, "load") /\ worker[w].kind = "score"
    /\ worker' = [worker EXCEPT ![w].copy = round, ![w].at = "telemetry"]
    /\ UNCHANGED <<events, round, records, snapshots, cache, signals, calls, failures, overlapped>>

LoadTelemetry(w) ==
    /\ Working(w, "telemetry")
    /\ worker' = [worker EXCEPT ![w].count = Distractions, ![w].at = "record"]
    /\ UNCHANGED <<events, round, records, snapshots, cache, signals, calls, failures, overlapped>>

SaveRecord(w) ==
    /\ Working(w, "record")
    /\ records' = Append(records, worker[w].count)
    /\ Goto(w, "save")
    /\ UNCHANGED <<events, round, snapshots, cache, signals, calls, failures, overlapped>>

(* A fault for the runs: the violations are overwritten with the rest. *)
MirrorScoreFault(w) ==
    /\ Working(w, "save") /\ worker[w].kind = "score"
    /\ round' = [worker[w].copy EXCEPT !.distractions = worker[w].count,
                                       !.violations = worker[w].count, !.scored = TRUE]
    /\ Done(w)
    /\ UNCHANGED <<events, records, snapshots, cache, signals, calls, failures, overlapped>>

MirrorScore(w) ==
    /\ Working(w, "save") /\ worker[w].kind = "score"
    /\ round' = [worker[w].copy EXCEPT !.distractions = worker[w].count, !.scored = TRUE]
    /\ Done(w)
    /\ UNCHANGED <<events, records, snapshots, cache, signals, calls, failures, overlapped>>

----------------------------------------------------------------------------
(* A transition as RoundLifecycle has it in full: load, save, emit.        *)

LoadTransition(w) ==
    /\ Working(w, "load") /\ worker[w].kind = "transition"
    /\ IF resolveTransition(round.state, worker[w].arg) = {} THEN Done(w)
       ELSE \E to \in resolveTransition(round.state, worker[w].arg) :
               worker' = [worker EXCEPT ![w].copy = [round EXCEPT !.state = to], ![w].at = "save"]
    /\ UNCHANGED <<events, round, records, snapshots, cache, signals, calls, failures, overlapped>>

SaveTransition(w) ==
    /\ Working(w, "save") /\ worker[w].kind = "transition"
    /\ round' = worker[w].copy
    /\ Goto(w, "emit")
    /\ UNCHANGED <<events, records, snapshots, cache, signals, calls, failures, overlapped>>

EmitTransition(w) ==
    /\ Working(w, "emit")
    /\ Log(Event("state.transition", worker[w].copy.state, TRUE))
    /\ Done(w)
    /\ UNCHANGED <<round, records, snapshots, cache, calls, failures, overlapped>>

----------------------------------------------------------------------------
(* An awaited call is rejected; after the mark nobody hears of it. *)
Fail(w) ==
    /\ worker[w] # Idle /\ failures < MaxFailures
    /\ failures' = failures + 1 /\ Done(w)
    /\ UNCHANGED <<events, round, records, snapshots, cache, signals, calls, overlapped>>

(* The entry is 24 hours old, or was evicted, or the process ends and with *)
(* it the calls in flight.                                                 *)
Expire ==
    /\ cache # "none" /\ cache' = "none"
    /\ UNCHANGED <<events, round, records, snapshots, signals, worker, calls, failures, overlapped>>

Restart ==
    /\ failures < MaxFailures
    /\ failures' = failures + 1
    /\ cache' = "none" /\ worker' = [w \in Workers |-> Idle]
    /\ UNCHANGED <<events, round, records, snapshots, signals, calls, overlapped>>

Next == \/ Emit \/ Expire \/ Restart
        \/ \E w \in Workers :
              \/ Process(w) \/ ScoreRound(w) \/ Transition(w)
              \/ Find(w) \/ LoadRound(w) \/ SaveDistraction(w) \/ MarkProcessed(w)
              \/ Count(w) \/ FindLast(w) \/ FindLatest(w) \/ SaveSnapshot(w)
              \/ LoadScored(w) \/ LoadTelemetry(w) \/ SaveRecord(w) \/ MirrorScore(w)
              \/ LoadTransition(w) \/ SaveTransition(w) \/ EmitTransition(w) \/ Fail(w)

Spec == Init /\ [][Next]_vars

----------------------------------------------------------------------------

Processed(type) == {i \in DOMAIN events : events[i].processed /\ events[i].type = type
                                           /\ events[i].inRound}
(* The workers are alike. *)
Symmetry == Permutations(Workers)

Serial == ~overlapped /\ failures = 0 /\ Quiet

(* event-processor.worker.ts:22, 45-71, 110-132.  An event is marked       *)
(* processed only when its work was published or its violation was saved.  *)
(* When calls neither overlapped nor failed that happened once for each,   *)
(* and the row counts exactly those violations, whatever scorings and      *)
(* transitions wrote it in between; an escalation was signalled only after *)
(* as many violations as the threshold asks for.                           *)
EffectsAccounted ==
    /\ round \in Round /\ cache \in OperationalState \cup {"none"}
    /\ \A i \in Processed("round.completed") : \A t \in Topics : signals.published[i][t] >= 1
    /\ \A i \in Processed("behavior.distraction_detected") : signals.saved[i] >= 1
    /\ signals.escalations > 0 => Distractions >= CRITICAL_VIOLATIONS_THRESHOLD \/ failures > 0
                                  \/ overlapped
    /\ Serial =>
         /\ \A i \in DOMAIN events : signals.saved[i] <= 1 /\ \A t \in Topics :
               signals.published[i][t] <= 1
         /\ round.violations = Cardinality(Processed("behavior.distraction_detected"))

(* event-snapshot.service.ts:31-68.  A snapshot is of a multiple of        *)
(* SNAPSHOT_EVERY events, no more than there are, and its last event is    *)
(* one of those counted or a later one.  Unless events were logged or      *)
(* other calls ran during a call, it is the last of those counted, and no  *)
(* two snapshots are of the same count.                                    *)
SnapshotsFaithful ==
    /\ \A i \in DOMAIN snapshots :
          /\ snapshots[i].count > 0 /\ snapshots[i].count % SNAPSHOT_EVERY = 0
          /\ snapshots[i].count <= snapshots[i].last /\ snapshots[i].last <= Len(events)
          /\ ~overlapped => snapshots[i].count = snapshots[i].last
    /\ ~overlapped => \A i, j \in DOMAIN snapshots : i < j => snapshots[i].count < snapshots[j].count

----------------------------------------------------------------------------
(***************************************************************************)
(* The inductive invariant behind the two.                                 *)
(***************************************************************************)

Events == [type : {"round.completed", "behavior.distraction_detected", "state.transition"},
           to : OperationalState \cup {"none"}, inRound : BOOLEAN, processed : BOOLEAN]

(* The calls that each kind of work makes. *)
Stages == [process    |-> {"load", "loadRound", "save", "mark", "count", "last", "latest", "insert"},
           score      |-> {"load", "telemetry", "record", "save"},
           transition |-> {"load", "save", "emit"}]

Busy(w) == worker[w] # Idle

TypeOK ==
    /\ events \in Seq(Events) /\ round \in Round
    /\ snapshots \in Seq([count : Nat, last : Nat])
    /\ cache \in OperationalState \cup {"none"}
    /\ signals \in [published : Seq([Topics -> Nat]), saved : Seq(Nat), escalations : Nat]
    /\ Len(signals.published) = Len(events) /\ Len(signals.saved) = Len(events)
    /\ DOMAIN worker = Workers /\ failures \in Nat /\ overlapped \in BOOLEAN

(* The work that an event asks for has been done at least once. *)
Effected(i) ==
    /\ events[i].type = "round.completed" => \A t \in Topics : signals.published[i][t] >= 1
    /\ Distraction(i) => signals.saved[i] >= 1

Untroubled == ~overlapped /\ failures = 0

(* What is known of the work that q is, and of the copies it holds. *)
Typed(q) ==
    /\ q.kind \in DOMAIN Stages /\ q.at \in Stages[q.kind]
    /\ q.copy \in Round /\ q.count \in Nat /\ q.latest \in Nat
    /\ q.kind = "process" => q.arg \in DOMAIN events

KnowsEvent(q) ==
    q.kind = "process" =>
      /\ q.at = "mark" => Effected(q.arg)
      /\ q.at \in {"loadRound", "save"} => Distraction(q.arg)
      /\ q.at \in {"loadRound", "save", "mark"} /\ Untroubled => ~events[q.arg].processed

KnowsRound(q) ==
    q.at \in {"save", "telemetry", "record"} /\ Untroubled =>
      q.copy.violations = IF q.kind = "process" THEN round.violations + 1 ELSE round.violations

KnowsSnapshot(q) ==
    q.at \in {"last", "latest", "insert"} =>
      /\ q.count > 0 /\ q.count % SNAPSHOT_EVERY = 0 /\ q.count <= Len(events)
      /\ q.at = "insert" => q.count <= q.latest /\ q.latest <= Len(events)
      /\ ~overlapped =>
            /\ q.count = Len(events)
            /\ q.at = "insert" => q.latest = q.count
            /\ q.at # "last" => \A i \in DOMAIN snapshots : snapshots[i].count < q.count

Knows(q) == Typed(q) /\ KnowsEvent(q) /\ KnowsRound(q) /\ KnowsSnapshot(q)

WorkersKnow == \A w \in Workers : Busy(w) => Knows(worker[w])

(* Calls that do not overlap: one worker at a time. *)
OneByOne == ~overlapped => \A v, w \in Workers : Busy(v) /\ Busy(w) => v = w

Handled == \A i \in DOMAIN events : events[i].processed => Effected(i)

Violations == {i \in DOMAIN events : signals.saved[i] >= 1}
Marking(w, i) == Busy(w) /\ worker[w].at = "mark" /\ worker[w].arg = i

(* One by one and without a failure: what was signalled for an event once  *)
(* is followed by its mark, and the row counts what was saved.             *)
Exact ==
    Untroubled =>
      /\ round.violations = Cardinality(Violations)
      /\ signals.escalations > 0 => Distractions >= CRITICAL_VIOLATIONS_THRESHOLD
      /\ \A i \in DOMAIN events :
            /\ signals.saved[i] \in {0, 1} /\ \A t \in Topics : signals.published[i][t] \in {0, 1}
            /\ signals.saved[i] = 1 => Distraction(i)
            /\ signals.saved[i] = 1 \/ (\E t \in Topics : signals.published[i][t] = 1) =>
                  events[i].processed \/ \E w \in Workers : Marking(w, i)

IInv == TypeOK /\ WorkersKnow /\ OneByOne /\ Handled /\ Exact /\ SnapshotsFaithful
=============================================================================
