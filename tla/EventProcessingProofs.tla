----------------------- MODULE EventProcessingProofs -----------------------
(***************************************************************************)
(* EffectsAccounted and SnapshotsFaithful for any number of events, of     *)
(* calls that overlap, and of failures.                                    *)
(***************************************************************************)
EXTENDS EventProcessing, FiniteSetTheorems, TLAPS

USE ProcessingAssumption

(* The calls of each kind of work. *)
LEMMA StageNames ==
  /\ DOMAIN Stages = {"process", "score", "transition"}
  /\ Stages["process"] = {"load", "loadRound", "save", "mark", "count", "last", "latest", "insert"}
  /\ Stages["score"] = {"load", "telemetry", "record", "save"}
  /\ Stages["transition"] = {"load", "save", "emit"}
BY DEF Stages

(* Which work makes a call. *)
LEMMA KindOfCall ==
  ASSUME NEW q, Typed(q)
  PROVE  /\ q.at \in {"loadRound", "mark", "count", "last", "latest", "insert"} => q.kind = "process"
         /\ q.at \in {"telemetry", "record"} => q.kind = "score"
         /\ q.at = "emit" => q.kind = "transition"
         /\ q.kind \in {"process", "score", "transition"}
BY StageNames DEF Typed

(* The table resolves to states only. *)
LEMMA TransitionsTyped ==
  ASSUME NEW state, NEW trigger, NEW to \in resolveTransition(state, trigger)
  PROVE  to \in OperationalState
BY DEF resolveTransition, TRANSITIONS, Rule, OperationalState

(* What is known of some work stays true when others do something, which   *)
(* makes it overlap: events are added and their work is done, never undone.*)
LEMMA KnowsOverlapped ==
  ASSUME NEW q, Knows(q), overlapped', TypeOK, TypeOK',
         Len(events) <= Len(events)',
         \A i \in DOMAIN events : /\ i \in DOMAIN events'
                                  /\ Effected(i) => Effected(i)'
                                  /\ Distraction(i) => Distraction(i)'
  PROVE  Knows(q)'
<1> USE DEF Knows
<1>1. Typed(q)'
  BY DEF Typed
<1>2. KnowsEvent(q)'
  BY DEF KnowsEvent, Typed, Untroubled
<1>3. KnowsRound(q)'
  BY DEF KnowsRound, Untroubled
<1>4. KnowsSnapshot(q)'
  <2>1. q.count \in Nat /\ q.latest \in Nat /\ Len(events) \in Nat /\ Len(events)' \in Nat
    BY DEF Typed, TypeOK
  <2>2. QED
    BY <2>1 DEF KnowsSnapshot
<1>5. QED
  BY <1>1, <1>2, <1>3, <1>4

(* One worker moves: it has to be shown what is known of its next call.    *)
LEMMA OneWorkerMoves ==
  ASSUME IInv, TypeOK', NEW w \in Workers, Busy(w), overlapped' = overlapped,
         \A v \in Workers : v # w => worker'[v] = worker[v],
         Busy(w)' => Knows(worker[w])',
         Len(events) <= Len(events)',
         \A i \in DOMAIN events : /\ i \in DOMAIN events'
                                  /\ Effected(i) => Effected(i)'
                                  /\ Distraction(i) => Distraction(i)'
  PROVE  WorkersKnow' /\ OneByOne'
<1> USE DEF IInv
<1>1. OneByOne'
  BY DEF OneByOne, Busy
<1>2. ASSUME NEW v \in Workers, Busy(v)' PROVE Knows(worker[v])'
  <2>1. CASE v = w
    BY <1>2, <2>1
  <2>2. CASE v # w
    <3>1. Busy(v) /\ worker'[v] = worker[v]
      BY <1>2, <2>2 DEF Busy
    <3>2. overlapped'
      BY <3>1, <2>2 DEF OneByOne
    <3>3. PICK q : q = worker[v]
      OBVIOUS
    <3>4. Knows(q)
      BY <3>1, <3>3 DEF WorkersKnow
    <3>5. Knows(q)'
      BY <3>2, <3>4, KnowsOverlapped
    <3>6. QED
      BY <3>1, <3>3, <3>5
  <2>3. QED
    BY <2>1, <2>2
<1>3. QED
  BY <1>1, <1>2 DEF WorkersKnow

(* What a worker is about to do without anything else having changed. *)
LEMMA KnowsUntouched ==
  ASSUME NEW q, Knows(q), UNCHANGED <<events, round, snapshots, signals, overlapped>>,
         failures \in Nat, failures' \in {failures, failures + 1}
  PROVE  Knows(q)'
<1>1. Untroubled' => Untroubled
  BY DEF Untroubled
<1>2. QED
  BY <1>1 DEF Knows, Typed, KnowsEvent, KnowsRound, KnowsSnapshot, Effected, Distraction

(* A call that tells the worker something, and changes nothing else.       *)
LEMMA WorkerMoves ==
  ASSUME IInv, NEW w \in Workers, NEW q, Busy(w),
         worker' = [worker EXCEPT ![w] = q], q = Idle \/ Knows(q),
         UNCHANGED <<events, round, snapshots, signals, overlapped>>,
         cache' \in OperationalState \cup {"none"},
         (failures' = failures /\ worker[w].at # "mark") \/ failures' = failures + 1
  PROVE  IInv'
<1> USE DEF IInv
<1>1. /\ failures \in Nat /\ failures' \in {failures, failures + 1} /\ DOMAIN worker = Workers
      /\ Untroubled' => (Untroubled /\ failures' = failures)
  BY DEF TypeOK, Untroubled
<1>2. TypeOK'
  BY <1>1 DEF TypeOK
<1>3. worker'[w] = q /\ \A v \in Workers : v # w => worker'[v] = worker[v]
  BY <1>1
<1>4. Busy(w)' => Knows(worker[w])'
  <2>1. Busy(w)' => q # Idle
    BY <1>3 DEF Busy
  <2>2. q # Idle => Knows(q)'
    BY <1>1, KnowsUntouched
  <2>3. QED
    BY <1>3, <2>1, <2>2
<1>5. \A i \in DOMAIN events : /\ i \in DOMAIN events'
                               /\ Effected(i) => Effected(i)'
                               /\ Distraction(i) => Distraction(i)'
  BY DEF Effected, Distraction
<1>6. WorkersKnow' /\ OneByOne'
  <2>1. Len(events) <= Len(events)'
    BY DEF TypeOK
  <2>2. QED
    BY <1>2, <1>3, <1>4, <1>5, <2>1, OneWorkerMoves
<1>7. Handled' /\ SnapshotsFaithful'
  BY DEF Handled, Effected, Distraction, SnapshotsFaithful
<1>8. Exact'
  <2> SUFFICES ASSUME Untroubled' PROVE Exact'
    BY DEF Exact
  <2>1. Untroubled /\ worker[w].at # "mark"
    BY <1>1
  <2>2. \A v \in Workers, i \in DOMAIN events : Marking(v, i) => Marking(v, i)'
    BY <1>3, <2>1 DEF Marking, Busy
  <2>3. Violations' = Violations /\ Distractions' = Distractions
    BY DEF Violations, Distractions, Distraction
  <2>4. QED
    BY <2>1, <2>2, <2>3 DEF Exact, Distraction
<1>9. QED
  BY <1>2, <1>6, <1>7, <1>8

----------------------------------------------------------------------------
(* Work that begins: on its own, or it makes the others overlap. *)
LEMMA StartKeeps ==
  ASSUME IInv, NEW w \in Workers, NEW kind \in DOMAIN Stages, NEW arg,
         kind = "process" => arg \in DOMAIN events, Start(w, kind, arg)
  PROVE  IInv'
<1> USE DEF IInv
<1>1. PICK q : q = [kind |-> kind, arg |-> arg, at |-> "load", copy |-> round,
                    count |-> 0, latest |-> 0]
  OBVIOUS
<1>2. /\ UNCHANGED <<events, round, snapshots, cache, signals, failures>>
      /\ overlapped' = (overlapped \/ ~Quiet) /\ DOMAIN worker = Workers
      /\ worker' = [worker EXCEPT ![w] = q] /\ worker[w] = Idle
  BY <1>1 DEF Start, TypeOK
<1>3. worker'[w] = q /\ \A v \in Workers : v # w => worker'[v] = worker[v]
  BY <1>2
<1>4. TypeOK'
  BY <1>2 DEF TypeOK, Quiet
<1>5. Typed(q)'
  BY <1>1, <1>2, StageNames DEF Typed, TypeOK
<1>6. Knows(q)'
  BY <1>1, <1>5 DEF Knows, KnowsEvent, KnowsRound, KnowsSnapshot
<1>7. \A i \in DOMAIN events : /\ i \in DOMAIN events'
                               /\ Effected(i) => Effected(i)'
                               /\ Distraction(i) => Distraction(i)'
  BY <1>2 DEF Effected, Distraction
<1>8. WorkersKnow'
  <2> SUFFICES ASSUME NEW v \in Workers, Busy(v)' PROVE Knows(worker[v])'
    BY DEF WorkersKnow
  <2>1. CASE v = w
    BY <1>3, <1>6, <2>1
  <2>2. CASE v # w
    <3>1. Busy(v) /\ worker'[v] = worker[v]
      BY <1>3, <2>2 DEF Busy
    <3>2. overlapped'
      BY <1>2, <3>1 DEF Quiet, Busy
    <3>3. PICK p : p = worker[v]
      OBVIOUS
    <3>4. Knows(p)
      BY <3>1, <3>3 DEF WorkersKnow
    <3>5. Len(events) <= Len(events)'
      BY <1>2 DEF TypeOK
    <3>6. Knows(p)'
      BY <1>4, <1>7, <3>2, <3>4, <3>5, KnowsOverlapped
    <3>7. QED
      BY <3>1, <3>3, <3>6
  <2>3. QED
    BY <2>1, <2>2
<1>9. OneByOne'
  BY <1>2, <1>3 DEF OneByOne, Busy, Quiet
<1>10. Handled' /\ SnapshotsFaithful'
  BY <1>2 DEF Handled, Effected, Distraction, SnapshotsFaithful
<1>11. Exact'
  <2> SUFFICES ASSUME Untroubled' PROVE Exact'
    BY DEF Exact
  <2>1. Untroubled /\ \A v \in Workers, i \in DOMAIN events : ~Marking(v, i)
    BY <1>2 DEF Untroubled, Quiet, Marking, Busy
  <2>2. Violations' = Violations /\ Distractions' = Distractions
    BY <1>2 DEF Violations, Distractions, Distraction
  <2>3. QED
    BY <1>2, <2>1, <2>2 DEF Exact, Distraction
<1>12. QED
  BY <1>4, <1>8, <1>9, <1>10, <1>11

(* Work that marks no event and has marked none: nothing that was signalled*)
(* for an event in its place is left without a mark.                       *)
LEMMA NotYetSignalled ==
  ASSUME IInv, Untroubled, NEW w \in Workers, Busy(w), worker[w].at # "mark",
         NEW i \in DOMAIN events, ~events[i].processed
  PROVE  signals.saved[i] = 0 /\ \A t \in Topics : signals.published[i][t] = 0
<1>1. \A v \in Workers : ~Marking(v, i)
  BY DEF IInv, OneByOne, Untroubled, Marking
<1>2. QED
  BY <1>1 DEF IInv, Exact

LEMMA FindKeeps ==
  ASSUME IInv, NEW w \in Workers, Find(w)
  PROVE  IInv'
<1> USE DEF IInv
<1>1. PICK id : id = worker[w].arg
  OBVIOUS
<1>2. Busy(w) /\ worker[w].at = "load" /\ worker[w].kind = "process" /\ DOMAIN worker = Workers
  BY DEF Find, Working, Busy, TypeOK
<1>3. Knows(worker[w]) /\ id \in DOMAIN events
  BY <1>1, <1>2 DEF WorkersKnow, Knows, Typed
<1>4. events[id] \in Events /\ DOMAIN events = 1..Len(events) /\ Len(events) \in Nat
  BY <1>3 DEF TypeOK
<1>5. cache' \in OperationalState \cup {"none"}
  BY <1>1, <1>4 DEF Find, TypeOK, Events
<1>6. UNCHANGED <<events, round, snapshots, failures, overlapped>>
  BY DEF Find
<1>7. CASE events[id].processed
  <2>1. worker' = [worker EXCEPT ![w] = Idle] /\ UNCHANGED signals
    BY <1>1, <1>7 DEF Find, Done
  <2>2. QED
    BY <1>2, <1>5, <1>6, <2>1, WorkerMoves
<1>8. CASE ~events[id].processed /\ Distraction(id)
  <2>1. PICK q : q = [worker[w] EXCEPT !.at = "loadRound"]
    OBVIOUS
  <2>2. worker' = [worker EXCEPT ![w] = q] /\ UNCHANGED signals
    BY <1>1, <1>2, <1>8, <2>1 DEF Find, Goto, Distraction
  <2>3. Knows(q)
    BY <1>1, <1>2, <1>3, <1>8, <2>1, StageNames
       DEF Knows, Typed, KnowsEvent, KnowsRound, KnowsSnapshot
  <2>4. QED
    BY <1>2, <1>5, <1>6, <2>2, <2>3, WorkerMoves
<1>9. CASE ~events[id].processed /\ ~Distraction(id)
  <2>1. PICK q : q = [worker[w] EXCEPT !.at = "mark"]
    OBVIOUS
  <2>2. worker' = [worker EXCEPT ![w] = q]
    BY <1>1, <1>2, <1>9, <2>1 DEF Find, Goto, Distraction
  <2>3. worker'[w] = q /\ \A v \in Workers : v # w => worker'[v] = worker[v]
    BY <1>2, <2>2
  <2>4. Typed(q) /\ q # Idle /\ q.kind = "process" /\ q.at = "mark" /\ q.arg = id
    <3>1. Typed(q) /\ q.kind = "process" /\ q.at = "mark" /\ q.arg = id
      BY <1>1, <1>2, <1>3, <2>1, StageNames DEF Knows, Typed
    <3>2. QED
      BY <3>1 DEF Idle
  <2>5. CASE events[id].type # "round.completed"
    <3>1. UNCHANGED signals
      BY <1>1, <1>9, <2>5 DEF Find
    <3>2. Effected(id)
      BY <1>9, <2>5 DEF Effected
    <3>3. Knows(q)
      BY <1>9, <2>4, <3>2 DEF Knows, KnowsEvent, KnowsRound, KnowsSnapshot
    <3>4. QED
      BY <1>2, <1>5, <1>6, <2>2, <3>1, <3>3, WorkerMoves
  <2>6. CASE events[id].type = "round.completed"
    <3> DEFINE done == [t \in Topics |-> signals.published[id][t] + 1]
    <3>1. signals' = [signals EXCEPT !.published = [@ EXCEPT ![id] = done]]
      BY <1>1, <1>9, <2>6 DEF Find, TypeOK
    <3>2. /\ signals \in [published : Seq([Topics -> Nat]), saved : Seq(Nat), escalations : Nat]
          /\ id \in 1..Len(signals.published) /\ signals.published[id] \in [Topics -> Nat]
      BY <1>3, <1>4 DEF TypeOK
    <3>3. done \in [Topics -> Nat]
      BY <3>2
    <3>4. /\ signals'.published = [signals.published EXCEPT ![id] = done]
          /\ signals'.saved = signals.saved /\ signals'.escalations = signals.escalations
      BY <3>1, <3>2
    <3> HIDE DEF done
    <3>5. TypeOK'
      <4>1. signals'.published \in Seq([Topics -> Nat]) /\ Len(signals'.published) = Len(signals.published)
        BY <3>2, <3>3, <3>4
      <4>2. signals' \in [published : Seq([Topics -> Nat]), saved : Seq(Nat), escalations : Nat]
        BY <3>1, <3>2, <4>1
      <4>3. QED
        BY <1>5, <1>6, <2>2, <3>4, <4>1, <4>2 DEF TypeOK
    <3>6. /\ \A i \in DOMAIN events : i # id => signals'.published[i] = signals.published[i]
          /\ signals'.published[id] = done
      BY <1>3, <1>4, <3>2, <3>4 DEF TypeOK
    <3>7. \A t \in Topics : done[t] = signals.published[id][t] + 1 /\ signals.published[id][t] \in Nat
      BY <3>2 DEF done
    <3>8. \A i \in DOMAIN events : /\ i \in DOMAIN events'
                                   /\ Effected(i) => Effected(i)'
                                   /\ Distraction(i) => Distraction(i)'
      BY <1>6, <3>4, <3>6, <3>7 DEF Effected, Distraction
    <3>9. Effected(id)'
      BY <1>6, <1>9, <3>6, <3>7 DEF Effected, Distraction
    <3>10. Knows(q)'
      BY <1>6, <1>9, <2>4, <3>9 DEF Knows, Typed, KnowsEvent, KnowsRound, KnowsSnapshot
    <3>11. WorkersKnow' /\ OneByOne'
      <4>1. Busy(w)' => Knows(worker[w])'
        BY <2>3, <3>10
      <4>2. Len(events) <= Len(events)' /\ overlapped' = overlapped
        BY <1>4, <1>6
      <4>3. QED
        BY <1>2, <2>3, <3>5, <3>8, <4>1, <4>2, OneWorkerMoves
    <3>12. Handled' /\ SnapshotsFaithful'
      BY <1>6, <3>8 DEF Handled, SnapshotsFaithful
    <3>13. Exact'
      <4> SUFFICES ASSUME Untroubled' PROVE Exact'
        BY DEF Exact
      <4>1. Untroubled
        BY <1>6 DEF Untroubled
      <4>2. signals.saved[id] = 0 /\ \A t \in Topics : signals.published[id][t] = 0
        BY <1>2, <1>3, <1>9, <4>1, NotYetSignalled
      <4>3. \A i \in DOMAIN events : ~events[i].processed =>
              signals.saved[i] = 0 /\ \A t \in Topics : signals.published[i][t] = 0
        BY <1>2, <4>1, NotYetSignalled
      <4>4. Marking(w, id)'
        BY <2>3, <2>4 DEF Marking, Busy
      <4>5. Violations' = Violations /\ Distractions' = Distractions
        BY <1>6, <3>4 DEF Violations, Distractions, Distraction
      <4>6. \A t \in Topics : done[t] = 1
        BY <3>7, <4>2
      <4>7. QED
        BY <1>6, <3>4, <3>6, <4>1, <4>2, <4>3, <4>4, <4>5, <4>6 DEF Exact, Distraction
    <3>14. QED
      BY <3>5, <3>11, <3>12, <3>13
  <2>7. QED
    BY <2>5, <2>6
<1>10. QED
  BY <1>7, <1>8, <1>9

LEMMA LoadRoundKeeps ==
  ASSUME IInv, NEW w \in Workers, LoadRound(w)
  PROVE  IInv'
<1> USE DEF IInv
<1>1. Busy(w) /\ worker[w].at = "loadRound" /\ DOMAIN worker = Workers
  BY DEF LoadRound, Working, Busy, TypeOK
<1>2. Knows(worker[w]) /\ worker[w].kind = "process"
  BY <1>1, KindOfCall DEF WorkersKnow, Knows
<1>3. PICK copy : copy = [round EXCEPT !.violations = @ + 1, !.distractions = @ + 1]
  OBVIOUS
<1>4. PICK q : q = [worker[w] EXCEPT !.copy = copy, !.at = "save"]
  OBVIOUS
<1>5. worker' = [worker EXCEPT ![w] = q]
  BY <1>1, <1>3, <1>4 DEF LoadRound
<1>6. q.copy \in Round /\ q.copy.violations = round.violations + 1
  <2>1. round \in Round
    BY DEF TypeOK
  <2>2. PICK m \in Nat, n \in Nat : m = round.violations + 1 /\ n = round.distractions + 1
    BY <2>1 DEF Round
  <2>3. copy = [round EXCEPT !.violations = m, !.distractions = n]
    BY <1>3, <2>2
  <2>4. copy \in Round /\ copy.violations = round.violations + 1
    BY <2>1, <2>2, <2>3 DEF Round
  <2>5. q.copy = copy
    BY <1>2, <1>4 DEF Knows, Typed
  <2>6. QED
    BY <2>4, <2>5
<1>7. q.kind = "process" /\ q.at = "save" /\ q.arg = worker[w].arg /\ q.count = worker[w].count
      /\ q.latest = worker[w].latest
  BY <1>2, <1>4 DEF Knows, Typed
<1>8. Typed(q)
  BY <1>2, <1>6, <1>7, StageNames DEF Knows, Typed
<1>9. Knows(q)
  BY <1>1, <1>2, <1>6, <1>7, <1>8 DEF Knows, KnowsEvent, KnowsRound, KnowsSnapshot
<1>10. UNCHANGED <<events, round, snapshots, signals, overlapped, failures>>
       /\ cache' \in OperationalState \cup {"none"}
  BY DEF LoadRound, TypeOK
<1>11. QED
  BY <1>1, <1>5, <1>9, <1>10, WorkerMoves

(* Counting events. *)
LEMMA EventsCounted ==
  ASSUME NEW n \in Nat, NEW D, D \subseteq 1..n, NEW V, V \subseteq D
  PROVE  /\ IsFiniteSet(V) /\ Cardinality(V) \in Nat /\ Cardinality(D) \in Nat
         /\ Cardinality(V) <= Cardinality(D)
<1>1. IsFiniteSet(1..n)
  BY FS_Interval
<1>2. IsFiniteSet(D) /\ IsFiniteSet(V)
  BY <1>1, FS_Subset
<1>3. QED
  BY <1>2, FS_CardinalityType, FS_Subset

LEMMA SaveDistractionKeeps ==
  ASSUME IInv, NEW w \in Workers, SaveDistraction(w)
  PROVE  IInv'
<1> USE DEF IInv
<1>1. Busy(w) /\ worker[w].at = "save" /\ worker[w].kind = "process" /\ DOMAIN worker = Workers
  BY DEF SaveDistraction, Working, Busy, TypeOK
<1>2. Knows(worker[w])
  BY <1>1 DEF WorkersKnow
<1>3. PICK id : id = worker[w].arg
  OBVIOUS
<1>4. PICK copy : copy = worker[w].copy
  OBVIOUS
<1>5. /\ id \in DOMAIN events /\ copy \in Round /\ Distraction(id)
      /\ Untroubled => copy.violations = round.violations + 1 /\ ~events[id].processed
  BY <1>1, <1>2, <1>3, <1>4 DEF Knows, Typed, KnowsEvent, KnowsRound
<1>6. PICK q : q = [worker[w] EXCEPT !.at = "mark"]
  OBVIOUS
<1>7. worker' = [worker EXCEPT ![w] = q]
  BY <1>1, <1>6 DEF SaveDistraction, Goto
<1>8. worker'[w] = q /\ \A v \in Workers : v # w => worker'[v] = worker[v]
  BY <1>1, <1>7
<1>9. Typed(q) /\ q.kind = "process" /\ q.at = "mark" /\ q.arg = id
  BY <1>1, <1>2, <1>3, <1>6, StageNames DEF Knows, Typed
<1>10. q # Idle
  BY <1>9 DEF Idle
<1>11. round' = copy /\ UNCHANGED <<events, snapshots, cache, failures, overlapped>>
  BY <1>4 DEF SaveDistraction
<1>12. /\ signals \in [published : Seq([Topics -> Nat]), saved : Seq(Nat), escalations : Nat]
       /\ DOMAIN events = 1..Len(events) /\ Len(events) \in Nat
       /\ Len(signals.saved) = Len(events)
  BY DEF TypeOK
<1>13. /\ signals'.published = signals.published
       /\ signals'.saved = [signals.saved EXCEPT ![id] = @ + 1]
       /\ \/ signals'.escalations = signals.escalations
          \/ signals'.escalations = signals.escalations + 1
             /\ copy.violations >= CRITICAL_VIOLATIONS_THRESHOLD
       /\ signals' = [signals EXCEPT !.saved = signals'.saved, !.escalations = signals'.escalations]
  BY <1>3, <1>4, <1>12 DEF SaveDistraction
<1>14. signals'.saved \in Seq(Nat) /\ Len(signals'.saved) = Len(signals.saved)
  BY <1>5, <1>12, <1>13
<1>15. TypeOK'
  <2> DEFINE Signals == [published : Seq([Topics -> Nat]), saved : Seq(Nat), escalations : Nat]
  <2>0. PICK n \in Nat, f \in Seq(Nat) : signals' = [signals EXCEPT !.saved = f, !.escalations = n]
    <3>1. signals'.escalations \in Nat
      BY <1>12, <1>13
    <3>2. QED
      BY <1>13, <1>14, <3>1
  <2>1. signals' \in Signals
    BY <1>12, <2>0
  <2>2. QED
    BY <1>5, <1>7, <1>11, <1>13, <1>14, <2>1 DEF TypeOK
<1>16. /\ \A i \in DOMAIN events : i # id => signals'.saved[i] = signals.saved[i]
       /\ signals'.saved[id] = signals.saved[id] + 1
       /\ \A i \in DOMAIN events : signals.saved[i] \in Nat
  <2>1. PICK g \in Seq(Nat) : g = signals.saved
    BY <1>12
  <2>2. DOMAIN g = DOMAIN events
    BY <1>12, <2>1
  <2>3. signals'.saved = [g EXCEPT ![id] = @ + 1] /\ id \in DOMAIN g
    BY <1>5, <1>13, <2>1, <2>2
  <2>4. \A i \in DOMAIN g : g[i] \in Nat
    OBVIOUS
  <2>5. /\ \A i \in DOMAIN g : i # id => signals'.saved[i] = g[i]
        /\ signals'.saved[id] = g[id] + 1
    BY <2>3
  <2>6. QED
    BY <2>1, <2>2, <2>4, <2>5, Zenon
<1>17. \A i \in DOMAIN events : /\ i \in DOMAIN events'
                                /\ Effected(i) => Effected(i)'
                                /\ Distraction(i) => Distraction(i)'
  BY <1>11, <1>13, <1>16 DEF Effected, Distraction
<1>18. Effected(id)'
  BY <1>5, <1>11, <1>16 DEF Effected, Distraction
<1>19. Untroubled' => Untroubled
  BY <1>11 DEF Untroubled
<1>20. Knows(q)'
  BY <1>5, <1>9, <1>11, <1>18, <1>19 DEF Knows, Typed, KnowsEvent, KnowsRound, KnowsSnapshot
<1>21. WorkersKnow' /\ OneByOne'
  <2>1. Busy(w)' => Knows(worker[w])'
    BY <1>8, <1>20
  <2>2. Len(events) <= Len(events)' /\ overlapped' = overlapped
    BY <1>11, <1>12
  <2>3. QED
    BY <1>1, <1>8, <1>15, <1>17, <2>1, <2>2, OneWorkerMoves
<1>22. Handled' /\ SnapshotsFaithful'
  BY <1>11, <1>17 DEF Handled, SnapshotsFaithful
<1>23. Exact'
  <2> SUFFICES ASSUME Untroubled' PROVE Exact'
    BY DEF Exact
  <2>1. Untroubled
    BY <1>19
  <2>2. \A i \in DOMAIN events : ~events[i].processed =>
          signals.saved[i] = 0 /\ \A t \in Topics : signals.published[i][t] = 0
    BY <1>1, <2>1, NotYetSignalled
  <2>3. Marking(w, id)'
    BY <1>8, <1>9, <1>10 DEF Marking, Busy
  <2>4. Violations' = Violations \cup {id} /\ id \notin Violations
    BY <1>5, <1>11, <1>16, <2>1, <2>2 DEF Violations
  <2>5. Cardinality(Violations)' = Cardinality(Violations) + 1
    <3>1. Violations \subseteq 1..Len(events)
      BY <1>12 DEF Violations
    <3>2. IsFiniteSet(Violations)
      BY <1>12, <3>1, EventsCounted
    <3>3. QED
      BY <2>4, <3>2, FS_AddElement
  <2>6. round.violations = Cardinality(Violations) /\ round'.violations = Cardinality(Violations)'
    BY <1>5, <1>11, <2>1, <2>5 DEF Exact
  <2>7. \A i \in DOMAIN events :
           /\ signals'.saved[i] \in {0, 1} /\ \A t \in Topics : signals'.published[i][t] \in {0, 1}
           /\ signals'.saved[i] = 1 => Distraction(i)'
    BY <1>5, <1>11, <1>13, <1>16, <2>1, <2>2 DEF Exact, Distraction
  <2>8. \A i \in DOMAIN events :
           signals'.saved[i] = 1 \/ (\E t \in Topics : signals'.published[i][t] = 1) =>
              events'[i].processed \/ \E v \in Workers : Marking(v, i)'
    <3> SUFFICES ASSUME NEW i \in DOMAIN events, ~events[i].processed, i # id
                 PROVE  signals'.saved[i] # 1 /\ \A t \in Topics : signals'.published[i][t] # 1
      BY <1>11, <2>3
    <3>1. QED
      BY <1>13, <1>16, <2>2
  <2>9. Distractions' = Distractions
    BY <1>11 DEF Distractions, Distraction
  <2>10. signals'.escalations > 0 => Distractions' >= CRITICAL_VIOLATIONS_THRESHOLD
    <3>1. CASE signals'.escalations = signals.escalations
      BY <2>1, <2>9, <3>1 DEF Exact
    <3>2. CASE copy.violations >= CRITICAL_VIOLATIONS_THRESHOLD
      <4>1. \A i \in Violations' : Distraction(i)'
        BY <1>11, <1>16, <2>7 DEF Violations
      <4>2. Cardinality(Violations)' <= Distractions' /\ Cardinality(Violations)' \in Nat
            /\ Distractions' \in Nat
        <5>1. DOMAIN events' = 1..Len(events) /\ Len(events) \in Nat
          BY <1>11, <1>12
        <5>2. PICK D : D = {i \in DOMAIN events' : Distraction(i)'}
          OBVIOUS
        <5>3. D \subseteq 1..Len(events) /\ Violations' \subseteq D
          BY <4>1, <5>1, <5>2 DEF Violations
        <5>4. Distractions' = Cardinality(D)
          BY <5>2 DEF Distractions
        <5>5. QED
          BY <5>1, <5>3, <5>4, EventsCounted
      <4>3. Cardinality(Violations)' >= CRITICAL_VIOLATIONS_THRESHOLD
        BY <1>11, <2>6, <3>2
      <4>4. QED
        BY <4>2, <4>3 DEF CRITICAL_VIOLATIONS_THRESHOLD
    <3>3. QED
      BY <1>13, <3>1, <3>2
  <2>11. QED
    BY <1>11, <2>6, <2>7, <2>8, <2>10 DEF Exact
<1>24. QED
  BY <1>15, <1>21, <1>22, <1>23

LEMMA MarkProcessedKeeps ==
  ASSUME IInv, NEW w \in Workers, MarkProcessed(w)
  PROVE  IInv'
<1> USE DEF IInv
<1>1. PICK id : id = worker[w].arg
  OBVIOUS
<1>2. Busy(w) /\ worker[w].at = "mark" /\ DOMAIN worker = Workers
  BY DEF MarkProcessed, Working, Busy, TypeOK
<1>3. Knows(worker[w]) /\ worker[w].kind = "process"
  BY <1>2, KindOfCall DEF WorkersKnow, Knows
<1>4. id \in DOMAIN events /\ Effected(id)
  BY <1>1, <1>2, <1>3 DEF Knows, Typed, KnowsEvent
<1>5. PICK q : q = [worker[w] EXCEPT !.at = "count"]
  OBVIOUS
<1>6. worker' = [worker EXCEPT ![w] = q]
  BY <1>2, <1>5 DEF MarkProcessed, Goto
<1>7. worker'[w] = q /\ \A v \in Workers : v # w => worker'[v] = worker[v]
  BY <1>2, <1>6
<1>8. Typed(q) /\ q.kind = "process" /\ q.at = "count"
  BY <1>2, <1>3, <1>5, StageNames DEF Knows, Typed
<1>9. UNCHANGED <<round, snapshots, cache, signals, failures, overlapped>>
  BY DEF MarkProcessed
<1>10. /\ events \in Seq(Events) /\ events[id] \in Events
       /\ DOMAIN events = 1..Len(events) /\ Len(events) \in Nat
  BY <1>4 DEF TypeOK
<1>11. PICK e : e = [events[id] EXCEPT !.processed = TRUE]
  OBVIOUS
<1>12. /\ e \in Events /\ e.type = events[id].type /\ e.inRound = events[id].inRound
       /\ e.processed = TRUE
  BY <1>10, <1>11 DEF Events
<1>13. events' = [events EXCEPT ![id] = e]
  BY <1>1, <1>4, <1>10, <1>11 DEF MarkProcessed
<1>14. events' \in Seq(Events) /\ Len(events') = Len(events) /\ DOMAIN events' = DOMAIN events
  BY <1>4, <1>10, <1>12, <1>13
<1>15. /\ events'[id] = e
       /\ \A i \in DOMAIN events : i # id => events'[i] = events[i]
  BY <1>4, <1>10, <1>13
<1>16. \A i \in DOMAIN events : /\ events'[i].type = events[i].type
                                /\ events'[i].inRound = events[i].inRound
  BY <1>12, <1>15
<1>17. \A i \in DOMAIN events : Distraction(i)' = Distraction(i) /\ Effected(i)' = Effected(i)
  BY <1>9, <1>16 DEF Distraction, Effected
<1>18. TypeOK'
  BY <1>6, <1>9, <1>14 DEF TypeOK
<1>19. Knows(q)'
  BY <1>3, <1>8, <1>14, StageNames DEF Knows, Typed, KnowsEvent, KnowsRound, KnowsSnapshot
<1>20. WorkersKnow' /\ OneByOne'
  <2>1. Busy(w)' => Knows(worker[w])'
    BY <1>7, <1>19
  <2>2. Len(events) <= Len(events)' /\ overlapped' = overlapped
    BY <1>9, <1>10, <1>14
  <2>3. QED
    BY <1>2, <1>7, <1>14, <1>17, <1>18, <2>1, <2>2, OneWorkerMoves
<1>21. Handled' /\ SnapshotsFaithful'
  BY <1>4, <1>9, <1>14, <1>15, <1>17 DEF Handled, SnapshotsFaithful
<1>22. Exact'
  <2> SUFFICES ASSUME Untroubled' PROVE Exact'
    BY DEF Exact
  <2>1. Untroubled
    BY <1>9 DEF Untroubled
  <2>2. Violations' = Violations /\ Distractions' = Distractions
    BY <1>9, <1>14, <1>17 DEF Violations, Distractions
  <2>3. \A i \in DOMAIN events : i # id /\ ~events[i].processed => \A v \in Workers : ~Marking(v, i)
    BY <1>1, <1>2, <2>1 DEF Marking, OneByOne, Untroubled
  <2>4. \A i \in DOMAIN events :
           signals.saved[i] = 1 \/ (\E t \in Topics : signals.published[i][t] = 1) =>
              events'[i].processed
    BY <1>12, <1>15, <2>1, <2>3 DEF Exact
  <2>5. QED
    BY <1>9, <1>14, <1>17, <2>1, <2>2, <2>4 DEF Exact
<1>23. QED
  BY <1>18, <1>20, <1>21, <1>22

----------------------------------------------------------------------------
(* The calls of a snapshot. *)
LEMMA CountKeeps ==
  ASSUME IInv, NEW w \in Workers, Count(w)
  PROVE  IInv'
<1> USE DEF IInv
<1>1. Busy(w) /\ worker[w].at = "count" /\ DOMAIN worker = Workers
  BY DEF Count, Working, Busy, TypeOK
<1>2. Knows(worker[w]) /\ worker[w].kind = "process"
  BY <1>1, KindOfCall DEF WorkersKnow, Knows
<1>3. UNCHANGED <<events, round, snapshots, signals, failures, overlapped>>
      /\ cache' \in OperationalState \cup {"none"}
  BY DEF Count, TypeOK
<1>4. CASE Len(events) % SNAPSHOT_EVERY # 0
  <2>1. worker' = [worker EXCEPT ![w] = Idle]
    BY <1>4 DEF Count
  <2>2. QED
    BY <1>1, <1>3, <2>1, WorkerMoves
<1>5. CASE Len(events) % SNAPSHOT_EVERY = 0
  <2>1. PICK q : q = [worker[w] EXCEPT !.count = Len(events), !.at = "last"]
    OBVIOUS
  <2>2. worker' = [worker EXCEPT ![w] = q]
    BY <1>1, <1>5, <2>1 DEF Count
  <2>3. Len(events) \in Nat /\ Len(events) > 0
    BY <1>2 DEF Knows, Typed, TypeOK
  <2>4. /\ q.kind = "process" /\ q.at = "last" /\ q.arg = worker[w].arg /\ q.copy = worker[w].copy
        /\ q.count = Len(events) /\ q.latest = worker[w].latest
    BY <1>2, <2>1 DEF Knows, Typed
  <2>5. Knows(q)
    BY <1>2, <1>5, <2>3, <2>4, StageNames DEF Knows, Typed, KnowsEvent, KnowsRound, KnowsSnapshot
  <2>6. QED
    BY <1>1, <1>3, <2>2, <2>5, WorkerMoves
<1>6. QED
  BY <1>4, <1>5

LEMMA FindLastKeeps ==
  ASSUME IInv, NEW w \in Workers, FindLast(w)
  PROVE  IInv'
<1> USE DEF IInv
<1>1. Busy(w) /\ worker[w].at = "last" /\ DOMAIN worker = Workers
  BY DEF FindLast, Working, Busy, TypeOK
<1>2. Knows(worker[w]) /\ worker[w].kind = "process"
  BY <1>1, KindOfCall DEF WorkersKnow, Knows
<1>3. UNCHANGED <<events, round, snapshots, signals, failures, overlapped>>
      /\ cache' \in OperationalState \cup {"none"}
  BY DEF FindLast, TypeOK
<1>4. CASE worker' = [worker EXCEPT ![w] = Idle]
  BY <1>1, <1>3, <1>4, WorkerMoves
<1>5. CASE /\ Goto(w, "latest")
           /\ ~(snapshots # <<>> /\ snapshots[Len(snapshots)].count = worker[w].count)
  <2>1. PICK q : q = [worker[w] EXCEPT !.at = "latest"]
    OBVIOUS
  <2>2. worker' = [worker EXCEPT ![w] = q]
    BY <1>1, <1>5, <2>1 DEF Goto
  <2>3. /\ q.kind = "process" /\ q.at = "latest" /\ q.arg = worker[w].arg /\ q.copy = worker[w].copy
        /\ q.count = worker[w].count /\ q.latest = worker[w].latest
    BY <1>2, <2>1 DEF Knows, Typed
  <2>4. ~overlapped => \A i \in DOMAIN snapshots : snapshots[i].count < q.count
    <3> SUFFICES ASSUME ~overlapped, NEW i \in DOMAIN snapshots PROVE snapshots[i].count < q.count
      OBVIOUS
    <3>1. PICK n : n = Len(snapshots)
      OBVIOUS
    <3>2. DOMAIN snapshots = 1..n /\ n \in Nat /\ n >= 1 /\ i \in 1..n /\ n \in 1..n /\ snapshots # <<>>
      BY <3>1 DEF TypeOK
    <3>3. snapshots[i].count \in Nat /\ snapshots[n].count \in Nat /\ q.count \in Nat /\ Len(events) \in Nat
      <4>1. snapshots \in Seq([count : Nat, last : Nat]) /\ events \in Seq(Events)
        BY DEF TypeOK
      <4>2. PICK S : S = [count : Nat, last : Nat]
        OBVIOUS
      <4>3. snapshots[i] \in S /\ snapshots[n] \in S
        <5>1. snapshots \in Seq(S)
          BY <4>1, <4>2
        <5>2. QED
          BY <3>1, <3>2, <5>1
      <4>4. q.count \in Nat
        BY <1>2, <2>3 DEF Knows, Typed
      <4>5. QED
        BY <4>1, <4>2, <4>3, <4>4
    <3>4. snapshots[n].count <= Len(events) /\ q.count = Len(events)
      BY <1>1, <1>2, <2>3, <3>2 DEF SnapshotsFaithful, Knows, KnowsSnapshot
    <3>5. snapshots[n].count # q.count
      BY <1>5, <2>3, <3>1, <3>2
    <3>6. i < n => snapshots[i].count < snapshots[n].count
      BY <3>2 DEF SnapshotsFaithful
    <3>7. QED
      BY <3>2, <3>3, <3>4, <3>5, <3>6
  <2>5. Knows(q)
    BY <1>1, <1>2, <2>3, <2>4, StageNames DEF Knows, Typed, KnowsEvent, KnowsRound, KnowsSnapshot
  <2>6. QED
    BY <1>1, <1>3, <2>2, <2>5, WorkerMoves
<1>6. QED
  BY <1>4, <1>5 DEF FindLast, Done

LEMMA FindLatestKeeps ==
  ASSUME IInv, NEW w \in Workers, FindLatest(w)
  PROVE  IInv'
<1> USE DEF IInv
<1>1. Busy(w) /\ worker[w].at = "latest" /\ DOMAIN worker = Workers
  BY DEF FindLatest, Working, Busy, TypeOK
<1>2. Knows(worker[w]) /\ worker[w].kind = "process"
  BY <1>1, KindOfCall DEF WorkersKnow, Knows
<1>3. UNCHANGED <<events, round, snapshots, signals, failures, overlapped>>
      /\ cache' \in OperationalState \cup {"none"}
  BY DEF FindLatest, TypeOK
<1>4. PICK q : q = [worker[w] EXCEPT !.latest = Len(events), !.at = "insert"]
  OBVIOUS
<1>5. worker' = [worker EXCEPT ![w] = q]
  BY <1>1, <1>4 DEF FindLatest
<1>6. /\ q.kind = "process" /\ q.at = "insert" /\ q.arg = worker[w].arg /\ q.copy = worker[w].copy
      /\ q.count = worker[w].count /\ q.latest = Len(events)
  BY <1>2, <1>4 DEF Knows, Typed
<1>7. Len(events) \in Nat
  BY DEF TypeOK
<1>8. Knows(q)
  BY <1>1, <1>2, <1>6, <1>7, StageNames DEF Knows, Typed, KnowsEvent, KnowsRound, KnowsSnapshot
<1>9. QED
  BY <1>1, <1>3, <1>5, <1>8, WorkerMoves

LEMMA SaveSnapshotKeeps ==
  ASSUME IInv, NEW w \in Workers, SaveSnapshot(w)
  PROVE  IInv'
<1> USE DEF IInv
<1>1. Busy(w) /\ worker[w].at = "insert" /\ DOMAIN worker = Workers
  BY DEF SaveSnapshot, Working, Busy, TypeOK
<1>2. Knows(worker[w])
  BY <1>1 DEF WorkersKnow
<1>3. /\ UNCHANGED <<events, round, signals, cache, failures, overlapped>>
      /\ worker' = [worker EXCEPT ![w] = Idle]
  BY DEF SaveSnapshot, Done
<1>4. worker'[w] = Idle /\ \A v \in Workers : v # w => worker'[v] = worker[v]
  BY <1>1, <1>3
<1>5. PICK s : s = [count |-> worker[w].count, last |-> worker[w].latest]
  OBVIOUS
<1>6. snapshots' = Append(snapshots, s)
  BY <1>5 DEF SaveSnapshot
<1>7. /\ s \in [count : Nat, last : Nat] /\ s.count > 0 /\ s.count % SNAPSHOT_EVERY = 0
      /\ s.count <= s.last /\ s.last <= Len(events)
      /\ ~overlapped => s.count = s.last /\ \A i \in DOMAIN snapshots : snapshots[i].count < s.count
  BY <1>1, <1>2, <1>5 DEF Knows, Typed, KnowsSnapshot
<1>8. snapshots \in Seq([count : Nat, last : Nat])
  BY DEF TypeOK
<1>9. TypeOK'
  BY <1>3, <1>6, <1>7, <1>8 DEF TypeOK
<1>10. \A i \in DOMAIN events : /\ i \in DOMAIN events'
                                /\ Effected(i) => Effected(i)'
                                /\ Distraction(i) => Distraction(i)'
  BY <1>3 DEF Effected, Distraction
<1>11. WorkersKnow' /\ OneByOne'
  <2>1. ~Busy(w)'
    BY <1>4 DEF Busy
  <2>2. Len(events) <= Len(events)' /\ overlapped' = overlapped
    BY <1>3 DEF TypeOK
  <2>3. QED
    BY <1>1, <1>4, <1>9, <1>10, <2>1, <2>2, OneWorkerMoves
<1>12. Handled'
  BY <1>3 DEF Handled, Effected, Distraction
<1>13. SnapshotsFaithful'
  <2>1. PICK n \in Nat : n = Len(snapshots)
    BY <1>8
  <2>2. /\ DOMAIN snapshots = 1..n /\ DOMAIN snapshots' = 1..(n + 1) /\ snapshots'[n + 1] = s
        /\ \A i \in 1..n : snapshots'[i] = snapshots[i]
    BY <1>6, <1>7, <1>8, <2>1
  <2>3. \A i \in DOMAIN snapshots' : i \in 1..n \/ i = n + 1
    BY <2>2
  <2>4. \A i \in DOMAIN snapshots' :
          /\ snapshots'[i].count > 0 /\ snapshots'[i].count % SNAPSHOT_EVERY = 0
          /\ snapshots'[i].count <= snapshots'[i].last /\ snapshots'[i].last <= Len(events')
          /\ ~overlapped' => snapshots'[i].count = snapshots'[i].last
    BY <1>3, <1>7, <2>2, <2>3 DEF SnapshotsFaithful
  <2>5. ~overlapped' => \A i, j \in DOMAIN snapshots' : i < j => snapshots'[i].count < snapshots'[j].count
    <3> SUFFICES ASSUME ~overlapped', NEW i \in DOMAIN snapshots', NEW j \in DOMAIN snapshots', i < j
                 PROVE  snapshots'[i].count < snapshots'[j].count
      OBVIOUS
    <3>1. i \in 1..n
      BY <2>2
    <3>2. CASE j = n + 1
      BY <1>3, <1>7, <2>2, <3>1, <3>2
    <3>3. CASE j \in 1..n
      BY <1>3, <2>2, <3>1, <3>3 DEF SnapshotsFaithful
    <3>4. QED
      BY <2>3, <3>2, <3>3
  <2>6. QED
    BY <2>4, <2>5 DEF SnapshotsFaithful
<1>14. Exact'
  <2> SUFFICES ASSUME Untroubled' PROVE Exact'
    BY DEF Exact
  <2>1. Untroubled
    BY <1>3 DEF Untroubled
  <2>2. \A v \in Workers, i \in DOMAIN events : Marking(v, i) => Marking(v, i)'
    BY <1>1, <1>4 DEF Marking, Busy
  <2>3. Violations' = Violations /\ Distractions' = Distractions
    BY <1>3 DEF Violations, Distractions, Distraction
  <2>4. QED
    BY <1>3, <2>1, <2>2, <2>3 DEF Exact, Distraction
<1>15. QED
  BY <1>9, <1>11, <1>12, <1>13, <1>14

----------------------------------------------------------------------------
(* A scoring, and a transition beside it. *)
LEMMA LoadScoredKeeps ==
  ASSUME IInv, NEW w \in Workers, LoadScored(w)
  PROVE  IInv'
<1> USE DEF IInv
<1>1. Busy(w) /\ worker[w].at = "load" /\ worker[w].kind = "score" /\ DOMAIN worker = Workers
  BY DEF LoadScored, Working, Busy, TypeOK
<1>2. Knows(worker[w])
  BY <1>1 DEF WorkersKnow
<1>3. PICK q : q = [worker[w] EXCEPT !.copy = round, !.at = "telemetry"]
  OBVIOUS
<1>4. worker' = [worker EXCEPT ![w] = q]
  BY <1>1, <1>3 DEF LoadScored
<1>5. /\ q.kind = "score" /\ q.at = "telemetry" /\ q.copy = round
      /\ q.count = worker[w].count /\ q.latest = worker[w].latest
  BY <1>1, <1>2, <1>3 DEF Knows, Typed
<1>6. round \in Round
  BY DEF TypeOK
<1>7. Knows(q)
  BY <1>2, <1>5, <1>6, StageNames DEF Knows, Typed, KnowsEvent, KnowsRound, KnowsSnapshot
<1>8. UNCHANGED <<events, round, snapshots, signals, overlapped, failures>>
      /\ cache' \in OperationalState \cup {"none"}
  BY DEF LoadScored, TypeOK
<1>9. QED
  BY <1>1, <1>4, <1>7, <1>8, WorkerMoves

LEMMA LoadTelemetryKeeps ==
  ASSUME IInv, NEW w \in Workers, LoadTelemetry(w)
  PROVE  IInv'
<1> USE DEF IInv
<1>1. Busy(w) /\ worker[w].at = "telemetry" /\ DOMAIN worker = Workers
  BY DEF LoadTelemetry, Working, Busy, TypeOK
<1>2. Knows(worker[w]) /\ worker[w].kind = "score"
  BY <1>1, KindOfCall DEF WorkersKnow, Knows
<1>3. PICK q : q = [worker[w] EXCEPT !.count = Distractions, !.at = "record"]
  OBVIOUS
<1>4. worker' = [worker EXCEPT ![w] = q]
  BY <1>1, <1>3 DEF LoadTelemetry
<1>5. /\ q.kind = "score" /\ q.at = "record" /\ q.copy = worker[w].copy
      /\ q.count = Distractions /\ q.latest = worker[w].latest
  BY <1>2, <1>3 DEF Knows, Typed
<1>6. Distractions \in Nat
  <2>1. DOMAIN events = 1..Len(events) /\ Len(events) \in Nat
    BY DEF TypeOK
  <2>2. {i \in DOMAIN events : Distraction(i)} \subseteq 1..Len(events)
    BY <2>1
  <2>3. QED
    BY <2>1, <2>2, EventsCounted DEF Distractions
<1>7. Knows(q)
  BY <1>1, <1>2, <1>5, <1>6, StageNames DEF Knows, Typed, KnowsEvent, KnowsRound, KnowsSnapshot
<1>8. UNCHANGED <<events, round, snapshots, signals, overlapped, failures>>
      /\ cache' \in OperationalState \cup {"none"}
  BY DEF LoadTelemetry, TypeOK
<1>9. QED
  BY <1>1, <1>4, <1>7, <1>8, WorkerMoves

LEMMA SaveRecordKeeps ==
  ASSUME IInv, NEW w \in Workers, SaveRecord(w)
  PROVE  IInv'
<1> USE DEF IInv
<1>1. Busy(w) /\ worker[w].at = "record" /\ DOMAIN worker = Workers
  BY DEF SaveRecord, Working, Busy, TypeOK
<1>2. Knows(worker[w]) /\ worker[w].kind = "score"
  BY <1>1, KindOfCall DEF WorkersKnow, Knows
<1>3. PICK q : q = [worker[w] EXCEPT !.at = "save"]
  OBVIOUS
<1>4. worker' = [worker EXCEPT ![w] = q]
  BY <1>1, <1>3 DEF SaveRecord, Goto
<1>5. /\ q.kind = "score" /\ q.at = "save" /\ q.copy = worker[w].copy
      /\ q.count = worker[w].count /\ q.latest = worker[w].latest
  BY <1>2, <1>3 DEF Knows, Typed
<1>6. Knows(q)
  BY <1>1, <1>2, <1>5, StageNames DEF Knows, Typed, KnowsEvent, KnowsRound, KnowsSnapshot
<1>7. UNCHANGED <<events, round, snapshots, signals, overlapped, failures>>
      /\ cache' \in OperationalState \cup {"none"}
  BY DEF SaveRecord, TypeOK
<1>8. QED
  BY <1>1, <1>4, <1>6, <1>7, WorkerMoves

LEMMA LoadTransitionKeeps ==
  ASSUME IInv, NEW w \in Workers, LoadTransition(w)
  PROVE  IInv'
<1> USE DEF IInv
<1>1. Busy(w) /\ worker[w].at = "load" /\ worker[w].kind = "transition" /\ DOMAIN worker = Workers
  BY DEF LoadTransition, Working, Busy, TypeOK
<1>2. Knows(worker[w])
  BY <1>1 DEF WorkersKnow
<1>3. UNCHANGED <<events, round, snapshots, signals, overlapped, failures>>
      /\ cache' \in OperationalState \cup {"none"}
  BY DEF LoadTransition, TypeOK
<1>4. CASE worker' = [worker EXCEPT ![w] = Idle]
  BY <1>1, <1>3, <1>4, WorkerMoves
<1>5. ASSUME NEW to \in resolveTransition(round.state, worker[w].arg),
             worker' = [worker EXCEPT ![w].copy = [round EXCEPT !.state = to], ![w].at = "save"]
      PROVE  IInv'
  <2>1. to \in OperationalState
    BY TransitionsTyped
  <2>2. PICK copy : copy = [round EXCEPT !.state = to]
    OBVIOUS
  <2>3. copy \in Round /\ copy.violations = round.violations
    BY <2>1, <2>2 DEF TypeOK, Round
  <2>4. PICK q : q = [worker[w] EXCEPT !.copy = copy, !.at = "save"]
    OBVIOUS
  <2>5. worker' = [worker EXCEPT ![w] = q]
    BY <1>1, <1>5, <2>2, <2>4
  <2>6. /\ q.kind = "transition" /\ q.at = "save" /\ q.copy = copy
        /\ q.count = worker[w].count /\ q.latest = worker[w].latest
    BY <1>1, <1>2, <2>4 DEF Knows, Typed
  <2>7. Knows(q)
    BY <1>2, <2>3, <2>6, StageNames DEF Knows, Typed, KnowsEvent, KnowsRound, KnowsSnapshot
  <2>8. QED
    BY <1>1, <1>3, <2>5, <2>7, WorkerMoves
<1>6. QED
  BY <1>4, <1>5 DEF LoadTransition, Done

(* A save of the row that leaves the violations as they are, if nobody     *)
(* else wrote meanwhile.                                                   *)
LEMMA RowSaved ==
  ASSUME IInv, NEW w \in Workers, Busy(w), worker[w].at = "save", worker[w].kind # "process",
         round' \in Round, round'.violations = worker[w].copy.violations,
         NEW q, worker' = [worker EXCEPT ![w] = q],
         q = Idle \/ (worker[w].kind = "transition" /\ q = [worker[w] EXCEPT !.at = "emit"]),
         UNCHANGED <<events, snapshots, signals, cache, failures, overlapped>>
  PROVE  IInv'
<1> USE DEF IInv
<1>1. Knows(worker[w]) /\ DOMAIN worker = Workers
  BY DEF WorkersKnow, TypeOK
<1>2. worker'[w] = q /\ \A v \in Workers : v # w => worker'[v] = worker[v]
  BY <1>1
<1>3. Untroubled => round'.violations = round.violations
  BY <1>1 DEF Knows, KnowsRound
<1>4. TypeOK'
  BY DEF TypeOK
<1>5. Busy(w)' => Knows(worker[w])'
  <2> SUFFICES ASSUME q # Idle PROVE Knows(q)'
    BY <1>2 DEF Busy
  <2>0. worker[w].kind = "transition" /\ q = [worker[w] EXCEPT !.at = "emit"]
    OBVIOUS
  <2>1. /\ q.kind = "transition" /\ q.at = "emit" /\ q.copy = worker[w].copy
        /\ q.count = worker[w].count /\ q.latest = worker[w].latest
    BY <1>1, <2>0 DEF Knows, Typed
  <2>2. QED
    BY <1>1, <2>1, StageNames DEF Knows, Typed, KnowsEvent, KnowsRound, KnowsSnapshot
<1>6. \A i \in DOMAIN events : /\ i \in DOMAIN events'
                               /\ Effected(i) => Effected(i)'
                               /\ Distraction(i) => Distraction(i)'
  BY DEF Effected, Distraction
<1>7. WorkersKnow' /\ OneByOne'
  <2>1. Len(events) <= Len(events)'
    BY DEF TypeOK
  <2>2. QED
    BY <1>2, <1>4, <1>5, <1>6, <2>1, OneWorkerMoves
<1>8. Handled' /\ SnapshotsFaithful'
  BY DEF Handled, Effected, Distraction, SnapshotsFaithful
<1>9. Exact'
  <2> SUFFICES ASSUME Untroubled' PROVE Exact'
    BY DEF Exact
  <2>1. Untroubled
    BY DEF Untroubled
  <2>2. \A v \in Workers, i \in DOMAIN events : Marking(v, i) => Marking(v, i)'
    BY <1>2 DEF Marking, Busy
  <2>3. Violations' = Violations /\ Distractions' = Distractions
    BY DEF Violations, Distractions, Distraction
  <2>4. QED
    BY <1>3, <2>1, <2>2, <2>3 DEF Exact, Distraction
<1>10. QED
  BY <1>4, <1>7, <1>8, <1>9

LEMMA MirrorScoreKeeps ==
  ASSUME IInv, NEW w \in Workers, MirrorScore(w)
  PROVE  IInv'
<1>1. Busy(w) /\ worker[w].at = "save" /\ worker[w].kind = "score"
  BY DEF MirrorScore, Working, Busy
<1>2. Knows(worker[w])
  BY <1>1 DEF IInv, WorkersKnow
<1>3. PICK copy \in Round : copy = worker[w].copy
  BY <1>2 DEF Knows, Typed
<1>4. PICK n \in Nat : n = worker[w].count
  BY <1>2 DEF Knows, Typed
<1>5. round' = [copy EXCEPT !.distractions = n, !.scored = TRUE]
  BY <1>3, <1>4 DEF MirrorScore
<1>6. round' \in Round /\ round'.violations = copy.violations
  BY <1>3, <1>4, <1>5 DEF Round
<1>7. /\ UNCHANGED <<events, snapshots, signals, cache, failures, overlapped>>
      /\ worker' = [worker EXCEPT ![w] = Idle]
  BY DEF MirrorScore, Done
<1>8. QED
  BY <1>1, <1>3, <1>6, <1>7, RowSaved

LEMMA SaveTransitionKeeps ==
  ASSUME IInv, NEW w \in Workers, SaveTransition(w)
  PROVE  IInv'
<1>1. Busy(w) /\ worker[w].at = "save" /\ worker[w].kind = "transition" /\ DOMAIN worker = Workers
  BY DEF SaveTransition, Working, Busy, IInv, TypeOK
<1>2. Knows(worker[w])
  BY <1>1 DEF IInv, WorkersKnow
<1>3. round' \in Round /\ round'.violations = worker[w].copy.violations
  BY <1>2 DEF SaveTransition, Knows, Typed
<1>4. PICK q : q = [worker[w] EXCEPT !.at = "emit"]
  OBVIOUS
<1>5. /\ UNCHANGED <<events, snapshots, signals, cache, failures, overlapped>>
      /\ worker' = [worker EXCEPT ![w] = q]
  BY <1>1, <1>4 DEF SaveTransition, Goto
<1>6. QED
  BY <1>1, <1>3, <1>4, <1>5, RowSaved

----------------------------------------------------------------------------
(* A new event: nothing has been done for it, and the others are untouched.*)
LEMMA Logged ==
  ASSUME TypeOK, NEW e, e \in Events, Log(e)
  PROVE  /\ events' \in Seq(Events)
         /\ signals' \in [published : Seq([Topics -> Nat]), saved : Seq(Nat), escalations : Nat]
         /\ Len(events) \in Nat /\ Len(events') = Len(events) + 1
         /\ Len(signals'.published) = Len(events') /\ Len(signals'.saved) = Len(events')
         /\ DOMAIN events = 1..Len(events) /\ DOMAIN events' = 1..(Len(events) + 1)
         /\ signals'.escalations = signals.escalations
         /\ \A i \in DOMAIN events : /\ events'[i] = events[i]
                                     /\ signals'.published[i] = signals.published[i]
                                     /\ signals'.saved[i] = signals.saved[i]
         /\ ~events'[Len(events) + 1].processed /\ signals'.saved[Len(events) + 1] = 0
         /\ \A t \in Topics : signals'.published[Len(events) + 1][t] = 0
<1>1. PICK n \in Nat : n = Len(events)
  BY DEF TypeOK
<1>2. PICK f : f = [e EXCEPT !.processed = FALSE]
  OBVIOUS
<1>3. f \in Events /\ f.processed = FALSE
  BY <1>2 DEF Events
<1>4. PICK none : none = [t \in Topics |-> 0]
  OBVIOUS
<1>5. none \in [Topics -> Nat] /\ \A t \in Topics : none[t] = 0
  BY <1>4
<1>6. /\ signals.published \in Seq([Topics -> Nat]) /\ Len(signals.published) = n
      /\ signals.saved \in Seq(Nat) /\ Len(signals.saved) = n /\ signals.escalations \in Nat
      /\ signals \in [published : Seq([Topics -> Nat]), saved : Seq(Nat), escalations : Nat]
  BY <1>1 DEF TypeOK
<1>7. PICK p, s : p = Append(signals.published, none) /\ s = Append(signals.saved, 0)
  OBVIOUS
<1>8. signals' = [signals EXCEPT !.published = p, !.saved = s]
  BY <1>4, <1>6, <1>7 DEF Log
<1>9. /\ p \in Seq([Topics -> Nat]) /\ Len(p) = n + 1 /\ p[n + 1] = none
      /\ \A i \in 1..n : p[i] = signals.published[i]
  BY <1>1, <1>5, <1>6, <1>7
<1>10. /\ s \in Seq(Nat) /\ Len(s) = n + 1 /\ s[n + 1] = 0
       /\ \A i \in 1..n : s[i] = signals.saved[i]
  BY <1>1, <1>6, <1>7
<1>11. signals' \in [published : Seq([Topics -> Nat]), saved : Seq(Nat), escalations : Nat]
       /\ signals'.published = p /\ signals'.saved = s /\ signals'.escalations = signals.escalations
  BY <1>6, <1>8, <1>9, <1>10
<1>12. events' = Append(events, f) /\ events \in Seq(Events)
  BY <1>2 DEF Log, TypeOK
<1>13. /\ events' \in Seq(Events) /\ Len(events') = n + 1 /\ events'[n + 1] = f
       /\ DOMAIN events = 1..n /\ DOMAIN events' = 1..(n + 1)
       /\ \A i \in 1..n : events'[i] = events[i]
  BY <1>1, <1>3, <1>12
<1>14. QED
  BY <1>1, <1>3, <1>5, <1>9, <1>10, <1>11, <1>13

(* What a new event leaves as it is. *)
LEMMA LogKeeps ==
  ASSUME IInv, NEW e, e \in Events, Log(e), DOMAIN worker' = Workers,
         UNCHANGED <<round, snapshots, cache, failures>>,
         overlapped' \in BOOLEAN, overlapped => overlapped'
  PROVE  /\ TypeOK' /\ Handled' /\ SnapshotsFaithful'
         /\ Len(events) <= Len(events)'
         /\ \A i \in DOMAIN events : /\ i \in DOMAIN events'
                                     /\ Effected(i) => Effected(i)'
                                     /\ Distraction(i) => Distraction(i)'
         /\ (Untroubled' => \A v \in Workers, i \in DOMAIN events : ~Marking(v, i)) => Exact'
<1> USE DEF IInv
<1>1. PICK n \in Nat : n = Len(events)
  BY DEF TypeOK
<1>2. /\ events' \in Seq(Events)
      /\ signals' \in [published : Seq([Topics -> Nat]), saved : Seq(Nat), escalations : Nat]
      /\ Len(events') = n + 1 /\ DOMAIN events = 1..n /\ DOMAIN events' = 1..(n + 1)
      /\ Len(signals'.published) = Len(events') /\ Len(signals'.saved) = Len(events')
      /\ signals'.escalations = signals.escalations
      /\ \A i \in 1..n : /\ events'[i] = events[i]
                         /\ signals'.published[i] = signals.published[i]
                         /\ signals'.saved[i] = signals.saved[i]
      /\ ~events'[n + 1].processed /\ signals'.saved[n + 1] = 0
      /\ \A t \in Topics : signals'.published[n + 1][t] = 0
  BY <1>1, Logged
<1>3. \A i \in DOMAIN events' : i \in 1..n \/ i = n + 1
  BY <1>2
<1>4. TypeOK'
  BY <1>2 DEF TypeOK
<1>5. \A i \in 1..n : Effected(i)' = Effected(i) /\ Distraction(i)' = Distraction(i)
  BY <1>2 DEF Effected, Distraction
<1>6. Handled'
  BY <1>2, <1>3, <1>5 DEF Handled
<1>7. SnapshotsFaithful'
  <2>1. \A i \in DOMAIN snapshots : snapshots[i].last <= n + 1
    <3> SUFFICES ASSUME NEW i \in DOMAIN snapshots PROVE snapshots[i].last <= n + 1
      OBVIOUS
    <3>1. snapshots[i].last <= n
      BY <1>1 DEF SnapshotsFaithful
    <3>2. PICK S : S = [count : Nat, last : Nat]
      OBVIOUS
    <3>3. snapshots \in Seq(S)
      BY <3>2 DEF TypeOK
    <3>4. snapshots[i] \in S
      BY <3>3
    <3>5. snapshots[i].last \in Nat
      BY <3>2, <3>4
    <3>6. QED
      BY <3>1, <3>5
  <2>2. QED
    BY <1>2, <2>1 DEF SnapshotsFaithful
<1>8. ASSUME Untroubled', \A v \in Workers, i \in DOMAIN events : ~Marking(v, i)
      PROVE  Exact'
  <2>1. Untroubled
    BY <1>8 DEF Untroubled
  <2>2. Violations' = Violations
    BY <1>2, <1>3 DEF Violations
  <2>3. Distractions' \in Nat /\ Distractions \in Nat /\ Distractions' >= Distractions
    <3>1. PICK D : D = {i \in DOMAIN events' : Distraction(i)'}
      OBVIOUS
    <3>2. PICK E : E = {i \in DOMAIN events : Distraction(i)}
      OBVIOUS
    <3>3. D \subseteq 1..(n + 1) /\ E \subseteq D /\ n + 1 \in Nat
      BY <1>2, <1>5, <3>1, <3>2
    <3>4. Cardinality(E) \in Nat /\ Cardinality(D) \in Nat /\ Cardinality(E) <= Cardinality(D)
      BY <3>3, EventsCounted
    <3>5. Distractions = Cardinality(E) /\ Distractions' = Cardinality(D)
      BY <3>1, <3>2 DEF Distractions
    <3>6. QED
      BY <3>4, <3>5
  <2>4. signals'.escalations > 0 => Distractions' >= CRITICAL_VIOLATIONS_THRESHOLD
    BY <1>2, <2>1, <2>3 DEF Exact, CRITICAL_VIOLATIONS_THRESHOLD
  <2>5. \A i \in DOMAIN events' :
            /\ signals'.saved[i] \in {0, 1} /\ \A t \in Topics : signals'.published[i][t] \in {0, 1}
            /\ signals'.saved[i] = 1 => Distraction(i)'
            /\ signals'.saved[i] = 1 \/ (\E t \in Topics : signals'.published[i][t] = 1) =>
                  events'[i].processed
    <3> SUFFICES ASSUME NEW i \in DOMAIN events'
                 PROVE /\ signals'.saved[i] \in {0, 1}
                       /\ \A t \in Topics : signals'.published[i][t] \in {0, 1}
                       /\ signals'.saved[i] = 1 => Distraction(i)'
                       /\ signals'.saved[i] = 1 \/ (\E t \in Topics : signals'.published[i][t] = 1) =>
                             events'[i].processed
      OBVIOUS
    <3>1. CASE i = n + 1
      BY <1>2, <3>1
    <3>2. CASE i \in 1..n
      <4>1. /\ signals.saved[i] \in {0, 1} /\ \A t \in Topics : signals.published[i][t] \in {0, 1}
            /\ signals.saved[i] = 1 => Distraction(i)
            /\ signals.saved[i] = 1 \/ (\E t \in Topics : signals.published[i][t] = 1) =>
                  events[i].processed
        BY <1>2, <1>8, <2>1, <3>2 DEF Exact
      <4>2. /\ signals'.saved[i] = signals.saved[i] /\ signals'.published[i] = signals.published[i]
            /\ events'[i] = events[i] /\ (Distraction(i) => Distraction(i)')
        BY <1>2, <1>5, <3>2
      <4>3. QED
        BY <4>1, <4>2
    <3>3. QED
      BY <1>3, <3>1, <3>2
  <2>6. QED
    BY <2>1, <2>2, <2>4, <2>5 DEF Exact
<1>9. (Untroubled' => \A v \in Workers, i \in DOMAIN events : ~Marking(v, i)) => Exact'
  BY <1>8 DEF Exact
<1>10. Len(events) <= Len(events)' /\ \A i \in 1..n : i \in DOMAIN events'
  BY <1>1, <1>2
<1>11. QED
  BY <1>2, <1>4, <1>5, <1>6, <1>7, <1>9, <1>10

LEMMA EmitKeeps ==
  ASSUME IInv, Emit
  PROVE  IInv'
<1> USE DEF IInv
<1>1. PICK e : e \in Events /\ Log(e)
  BY DEF Emit, Event, Events
<1>2. /\ UNCHANGED <<round, snapshots, cache, worker, failures>>
      /\ overlapped' = (overlapped \/ ~Quiet)
  BY DEF Emit
<1>3. DOMAIN worker' = Workers /\ overlapped' \in BOOLEAN /\ (overlapped => overlapped')
  BY <1>2 DEF TypeOK, Quiet
<1>4. /\ TypeOK' /\ Handled' /\ SnapshotsFaithful'
      /\ Len(events) <= Len(events)'
      /\ \A i \in DOMAIN events : /\ i \in DOMAIN events'
                                  /\ Effected(i) => Effected(i)'
                                  /\ Distraction(i) => Distraction(i)'
      /\ (Untroubled' => \A v \in Workers, i \in DOMAIN events : ~Marking(v, i)) => Exact'
  BY <1>1, <1>2, <1>3, LogKeeps
<1>5. Untroubled' => \A v \in Workers, i \in DOMAIN events : ~Marking(v, i)
  BY <1>2 DEF Untroubled, Quiet, Marking, Busy
<1>6. OneByOne'
  BY <1>2 DEF OneByOne, Busy, Quiet
<1>7. WorkersKnow'
  <2> SUFFICES ASSUME NEW v \in Workers, Busy(v)' PROVE Knows(worker[v])'
    BY DEF WorkersKnow
  <2>1. PICK q : q = worker[v]
    OBVIOUS
  <2>2. overlapped' /\ Knows(q)
    BY <1>2, <2>1 DEF WorkersKnow, Busy, Quiet
  <2>3. Knows(q)'
    BY <1>4, <2>2, KnowsOverlapped
  <2>4. QED
    BY <1>2, <2>1, <2>3
<1>8. QED
  BY <1>4, <1>5, <1>6, <1>7

LEMMA EmitTransitionKeeps ==
  ASSUME IInv, NEW w \in Workers, EmitTransition(w)
  PROVE  IInv'
<1> USE DEF IInv
<1>1. Busy(w) /\ worker[w].at = "emit" /\ DOMAIN worker = Workers
  BY DEF EmitTransition, Working, Busy, TypeOK
<1>2. Knows(worker[w])
  BY <1>1 DEF WorkersKnow
<1>3. PICK e : e \in Events /\ Log(e)
  <2>1. worker[w].copy.state \in OperationalState
    BY <1>2 DEF Knows, Typed, Round
  <2>2. Event("state.transition", worker[w].copy.state, TRUE) \in Events
    BY <2>1 DEF Event, Events
  <2>3. QED
    BY <2>2 DEF EmitTransition
<1>4. /\ UNCHANGED <<round, snapshots, cache, failures, overlapped>>
      /\ worker' = [worker EXCEPT ![w] = Idle]
  BY DEF EmitTransition, Done
<1>5. worker'[w] = Idle /\ \A v \in Workers : v # w => worker'[v] = worker[v]
  BY <1>1, <1>4
<1>6. DOMAIN worker' = Workers /\ overlapped' \in BOOLEAN /\ (overlapped => overlapped')
  BY <1>1, <1>4 DEF TypeOK
<1>7. /\ TypeOK' /\ Handled' /\ SnapshotsFaithful'
      /\ Len(events) <= Len(events)'
      /\ \A i \in DOMAIN events : /\ i \in DOMAIN events'
                                  /\ Effected(i) => Effected(i)'
                                  /\ Distraction(i) => Distraction(i)'
      /\ (Untroubled' => \A v \in Workers, i \in DOMAIN events : ~Marking(v, i)) => Exact'
  BY <1>3, <1>4, <1>6, LogKeeps
<1>8. Untroubled' => \A v \in Workers, i \in DOMAIN events : ~Marking(v, i)
  BY <1>1, <1>4 DEF Untroubled, OneByOne, Marking
<1>9. WorkersKnow' /\ OneByOne'
  <2>1. ~Busy(w)'
    BY <1>5 DEF Busy
  <2>2. QED
    BY <1>1, <1>4, <1>5, <1>7, <2>1, OneWorkerMoves
<1>10. QED
  BY <1>7, <1>8, <1>9

----------------------------------------------------------------------------
LEMMA FailKeeps ==
  ASSUME IInv, NEW w \in Workers, Fail(w)
  PROVE  IInv'
<1>1. /\ Busy(w) /\ worker' = [worker EXCEPT ![w] = Idle] /\ failures' = failures + 1
      /\ UNCHANGED <<events, round, snapshots, signals, overlapped>>
  BY DEF Fail, Done, Busy
<1>2. cache' \in OperationalState \cup {"none"}
  BY DEF Fail, IInv, TypeOK
<1>3. QED
  BY <1>1, <1>2, WorkerMoves

(* Nothing but the cache, or all the work is gone after a failure.         *)
LEMMA ExpireKeeps ==
  ASSUME IInv, Expire \/ Restart \/ UNCHANGED vars
  PROVE  IInv'
<1> USE DEF IInv
<1>1. /\ UNCHANGED <<events, round, snapshots, signals, overlapped>>
      /\ cache' \in {cache, "none"}
      /\ \/ UNCHANGED <<worker, failures>>
         \/ worker' = [w \in Workers |-> Idle] /\ failures' = failures + 1
  BY DEF Expire, Restart, vars
<1>2. TypeOK'
  BY <1>1 DEF TypeOK
<1>3. Handled' /\ SnapshotsFaithful'
  BY <1>1 DEF Handled, Effected, Distraction, SnapshotsFaithful
<1>4. CASE UNCHANGED <<worker, failures>>
  <2>1. WorkersKnow'
    <3> SUFFICES ASSUME NEW v \in Workers, Busy(v)' PROVE Knows(worker[v])'
      BY DEF WorkersKnow
    <3>1. PICK q : q = worker[v]
      OBVIOUS
    <3>2. Knows(q)
      BY <1>4, <3>1 DEF WorkersKnow, Busy
    <3>3. Knows(q)'
      BY <1>1, <1>4, <3>2, KnowsUntouched DEF TypeOK
    <3>4. QED
      BY <1>4, <3>1, <3>3
  <2>2. OneByOne'
    BY <1>1, <1>4 DEF OneByOne, Busy
  <2>3. Violations' = Violations /\ Distractions' = Distractions
    BY <1>1 DEF Violations, Distractions, Distraction
  <2>4. Exact'
    BY <1>1, <1>4, <2>3 DEF Exact, Untroubled, Distraction, Marking, Busy
  <2>5. QED
    BY <1>2, <1>3, <2>1, <2>2, <2>4
<1>5. CASE worker' = [w \in Workers |-> Idle] /\ failures' = failures + 1
  <2>1. WorkersKnow' /\ OneByOne'
    BY <1>5 DEF WorkersKnow, OneByOne, Busy
  <2>2. failures' # 0
    BY <1>5 DEF TypeOK
  <2>3. Exact'
    BY <2>2 DEF Exact, Untroubled
  <2>4. QED
    BY <1>2, <1>3, <2>1, <2>3
<1>6. QED
  BY <1>1, <1>4, <1>5

(* What is known of the events, of the row and of each call under way is   *)
(* true from the start and kept by every call, failure and restart.        *)
THEOREM EventInvariance == Spec => []IInv
<1>1. Init => IInv
  <2> SUFFICES ASSUME Init PROVE IInv
    OBVIOUS
  <2>1. TypeOK
    <3>1. round \in Round
      BY DEF Init, Round, OperationalState
    <3>2. /\ signals \in [published : Seq([Topics -> Nat]), saved : Seq(Nat), escalations : Nat]
          /\ signals.published = <<>> /\ signals.saved = <<>>
      BY DEF Init
    <3>3. events = <<>> /\ snapshots = <<>> /\ cache = "none" /\ failures = 0 /\ overlapped = FALSE
          /\ DOMAIN worker = Workers
      BY DEF Init
    <3>4. events \in Seq(Events) /\ snapshots \in Seq([count : Nat, last : Nat])
      BY <3>3
    <3>5. Len(signals.published) = Len(events) /\ Len(signals.saved) = Len(events)
      BY <3>2, <3>3
    <3>6. cache \in OperationalState \cup {"none"} /\ failures \in Nat /\ overlapped \in BOOLEAN
      BY <3>3
    <3>7. QED
      BY <3>1, <3>2, <3>3, <3>4, <3>5, <3>6 DEF TypeOK
  <2>2. WorkersKnow /\ OneByOne
    BY DEF Init, WorkersKnow, OneByOne, Busy
  <2>3. Handled /\ SnapshotsFaithful
    BY DEF Init, Handled, SnapshotsFaithful
  <2>4. Exact
    <3>1. Violations = {}
      BY DEF Init, Violations
    <3>2. round.violations = Cardinality(Violations)
      BY <3>1, FS_EmptySet DEF Init
    <3>3. QED
      BY <3>2 DEF Init, Exact
  <2>5. QED
    BY <2>1, <2>2, <2>3, <2>4 DEF IInv
<1>2. IInv /\ [Next]_vars => IInv'
  <2> SUFFICES ASSUME IInv, [Next]_vars PROVE IInv'
    OBVIOUS
  <2>1. CASE Emit
    BY <2>1, EmitKeeps
  <2>2. CASE Expire \/ Restart \/ UNCHANGED vars
    BY <2>2, ExpireKeeps
  <2>3. ASSUME NEW w \in Workers, Process(w) \/ ScoreRound(w) \/ Transition(w) PROVE IInv'
    <3>1. CASE Process(w)
      <4>1. PICK e \in DOMAIN events : Start(w, "process", e)
        BY <3>1 DEF Process
      <4>2. QED
        BY <4>1, StartKeeps, StageNames
    <3>2. CASE ScoreRound(w)
      BY <3>2, StartKeeps, StageNames DEF ScoreRound
    <3>3. CASE Transition(w)
      <4>1. PICK t \in Triggers : Start(w, "transition", t)
        BY <3>3 DEF Transition
      <4>2. QED
        BY <4>1, StartKeeps, StageNames
    <3>4. QED
      BY <2>3, <3>1, <3>2, <3>3
  <2>4. ASSUME NEW w \in Workers,
               \/ Find(w) \/ LoadRound(w) \/ SaveDistraction(w) \/ MarkProcessed(w)
        PROVE  IInv'
    BY <2>4, FindKeeps, LoadRoundKeeps, SaveDistractionKeeps, MarkProcessedKeeps
  <2>5. ASSUME NEW w \in Workers,
               \/ Count(w) \/ FindLast(w) \/ FindLatest(w) \/ SaveSnapshot(w)
        PROVE  IInv'
    BY <2>5, CountKeeps, FindLastKeeps, FindLatestKeeps, SaveSnapshotKeeps
  <2>6. ASSUME NEW w \in Workers,
               \/ LoadScored(w) \/ LoadTelemetry(w) \/ SaveRecord(w) \/ MirrorScore(w)
        PROVE  IInv'
    BY <2>6, LoadScoredKeeps, LoadTelemetryKeeps, SaveRecordKeeps, MirrorScoreKeeps
  <2>7. ASSUME NEW w \in Workers,
               \/ LoadTransition(w) \/ SaveTransition(w) \/ EmitTransition(w) \/ Fail(w)
        PROVE  IInv'
    BY <2>7, LoadTransitionKeeps, SaveTransitionKeeps, EmitTransitionKeeps, FailKeeps
  <2>8. QED
    BY <2>1, <2>2, <2>3, <2>4, <2>5, <2>6, <2>7 DEF Next
<1>3. QED
  BY <1>1, <1>2, PTL DEF Spec

(* An event is marked processed only with its effect, and what calls that  *)
(* neither overlapped nor failed did is counted exactly once (event-       *)
(* processor.worker.ts:45-71): any number of events, calls and scorings.   *)
THEOREM EffectsAlwaysAccounted == Spec => []EffectsAccounted
<1>1. IInv => EffectsAccounted
  <2> SUFFICES ASSUME IInv PROVE EffectsAccounted
    OBVIOUS
  <2> USE DEF IInv
  <2>1. \A i \in Processed("round.completed") : \A t \in Topics : signals.published[i][t] >= 1
    BY DEF Processed, Handled, Effected
  <2>2. \A i \in Processed("behavior.distraction_detected") : signals.saved[i] >= 1
    BY DEF Processed, Handled, Effected, Distraction
  <2>3. round \in Round /\ cache \in OperationalState \cup {"none"}
    BY DEF TypeOK
  <2>4. signals.escalations > 0 => \/ Distractions >= CRITICAL_VIOLATIONS_THRESHOLD
                                   \/ failures > 0 \/ overlapped
    <3>1. failures \in Nat
      BY DEF TypeOK
    <3>2. QED
      BY <3>1 DEF Exact, Untroubled
  <2>5. ASSUME Serial
        PROVE  /\ \A i \in DOMAIN events : /\ signals.saved[i] <= 1
                                           /\ \A t \in Topics : signals.published[i][t] <= 1
               /\ round.violations = Cardinality(Processed("behavior.distraction_detected"))
    <3>1. Untroubled /\ \A v \in Workers, i \in DOMAIN events : ~Marking(v, i)
      BY <2>5 DEF Serial, Untroubled, Quiet, Marking, Busy
    <3>2. \A i \in DOMAIN events :
             /\ signals.saved[i] \in {0, 1} /\ \A t \in Topics : signals.published[i][t] \in {0, 1}
             /\ signals.saved[i] = 1 => Distraction(i) /\ events[i].processed
      BY <3>1 DEF Exact
    <3>3. Violations = Processed("behavior.distraction_detected")
      BY <2>2, <3>2 DEF Violations, Processed, Distraction
    <3>4. round.violations = Cardinality(Violations)
      BY <3>1 DEF Exact
    <3>5. QED
      BY <3>2, <3>3, <3>4
  <2>6. QED
    BY <2>1, <2>2, <2>3, <2>4, <2>5 DEF EffectsAccounted
<1>2. QED
  BY <1>1, EventInvariance, PTL

(* A snapshot covers the events it counts, whatever was logged meanwhile   *)
(* (event-snapshot.service.ts:31-68).                                      *)
THEOREM SnapshotsAlwaysFaithful == Spec => []SnapshotsFaithful
<1>1. IInv => SnapshotsFaithful
  BY DEF IInv
<1>2. QED
  BY <1>1, EventInvariance, PTL
=============================================================================
