------------------------ MODULE RoundLifecycleProofs ------------------------
(***************************************************************************)
(* The transition table; RowsCoupled and FinalRowsStick for every set of   *)
(* rounds, missions and requests, every subset of the operations, with and *)
(* without failures; the refinement of RoundPromise, StateIsJournalled and *)
(* CountersExact for requests served one at a time and without failures.   *)
(***************************************************************************)
EXTENDS RoundRefinement, FiniteSetTheorems, SequenceTheorems, TLAPS

----------------------------------------------------------------------------
(* The transition table. *)

(* The table only speaks of declared states and triggers. *)
LEMMA TableTyped ==
  TRANSITIONS \subseteq [from : OperationalState, trigger : StateTrigger, to : OperationalState]
BY DEF TRANSITIONS, Rule, OperationalState, StateTrigger

(* "Determinism: same (currentState, trigger) always yields the same       *)
(* nextState" (line 28): Array.find never has a choice.                    *)
THEOREM Determinism ==
  ASSUME NEW state, NEW trigger,
         NEW a \in resolveTransition(state, trigger),
         NEW b \in resolveTransition(state, trigger)
  PROVE  a = b
BY DEF resolveTransition, TRANSITIONS, Rule

(* No rule keeps the state: `if (to !== from)` at line 156 is always true. *)
LEMMA NoSelfLoop ==
  ASSUME NEW state, NEW trigger, NEW to \in resolveTransition(state, trigger)
  PROVE  to # state
BY DEF resolveTransition, TRANSITIONS, Rule

(* A caller that passes no state to force gets what the table says, and    *)
(* admin.force is in no rule of it.                                        *)
LEMMA NoForce ==
  ASSUME NEW state, NEW trigger
  PROVE  Targets(state, trigger, {}) = resolveTransition(state, trigger)
<1>1. CASE trigger = "admin.force"
  BY <1>1 DEF Targets, resolveTransition, TRANSITIONS, Rule
<1>2. CASE trigger # "admin.force"
  BY <1>2 DEF Targets
<1>3. QED
  BY <1>1, <1>2

(* What the triggers RoundsService uses lead to, and from where. *)
LEMMA LifecycleTriggers ==
  ASSUME NEW state, NEW trigger, NEW to \in resolveTransition(state, trigger)
  PROVE  /\ trigger = "round.started" => state = "MONITORING" /\ to = "OPERATIONAL"
         /\ trigger = "round.resumed" => state = "CRITICAL" /\ to = "OPERATIONAL"
         /\ trigger = "round.violations_threshold" => state = "OPERATIONAL" /\ to = "CRITICAL"
         /\ trigger = "round.completed" => state \in {"OPERATIONAL", "CRITICAL"} /\ to = "EXTRACTION"
         /\ trigger = "round.failed" => state \in {"OPERATIONAL", "CRITICAL"} /\ to = "RECOVERY"
         /\ trigger = "round.abandoned" =>
              \/ state = "MONITORING" /\ to = "DORMANT"
              \/ state \in {"OPERATIONAL", "CRITICAL"} /\ to = "SILENCE"
BY DEF resolveTransition, TRANSITIONS, Rule

(* The comment's table (lines 16-23) and the array (lines 53-78) agree:    *)
(* each documented arrow has a trigger, and no trigger leaves the table.   *)
THEOREM TableAsDocumented ==
  ASSUME NEW state \in OperationalState, NEW to
  PROVE  to \in DocumentedNext[state] <=> \E t \in TRANSITIONS : t.from = state /\ t.to = to
<1>1. /\ DocumentedNext["DORMANT"] = {"MONITORING"}
      /\ DocumentedNext["MONITORING"] = {"OPERATIONAL", "DORMANT"}
      /\ DocumentedNext["OPERATIONAL"] = {"CRITICAL", "EXTRACTION", "RECOVERY", "SILENCE"}
      /\ DocumentedNext["CRITICAL"] = {"OPERATIONAL", "EXTRACTION", "RECOVERY", "SILENCE"}
      /\ DocumentedNext["RECOVERY"] = {"DORMANT", "MONITORING"}
      /\ DocumentedNext["EXTRACTION"] = {"SILENCE", "DORMANT"}
      /\ DocumentedNext["SILENCE"] = {"DORMANT"}
  BY Zenon DEF DocumentedNext
<1>2. QED
  BY <1>1 DEF OperationalState, TRANSITIONS, Rule

(* The two readers of the table agree: getValidTransitions lists exactly   *)
(* the pairs that resolveTransition accepts.                               *)
THEOREM ListedIffAccepted ==
  ASSUME NEW state, NEW trigger, NEW to
  PROVE  [to |-> to, trigger |-> trigger] \in getValidTransitions(state)
           <=> to \in resolveTransition(state, trigger)
<1>1. ASSUME NEW t \in TRANSITIONS, [to |-> to, trigger |-> trigger] = [to |-> t.to, trigger |-> t.trigger]
      PROVE  to = t.to /\ trigger = t.trigger
  BY <1>1
<1>2. QED
  BY <1>1 DEF getValidTransitions, resolveTransition

----------------------------------------------------------------------------
(* The operations. *)

LEMMA TriggerValues ==
  /\ Trigger["start"] = "round.started"
  /\ Trigger["complete"] = "round.completed"
  /\ Trigger["abandon"] = "round.abandoned"
  /\ Trigger["fail"] = "round.failed"
  /\ Trigger["resume"] = "round.resumed"
  /\ Trigger["escalate"] = "round.violations_threshold"
BY Zenon DEF Trigger

(* What transitionState resolves to, for each operation that uses it. *)
LEMMA ResolvedStates ==
  ASSUME NEW op \in Transitioning, NEW state, NEW to \in resolveTransition(state, Trigger[op])
  PROVE  /\ to \in OperationalState
         /\ state \in {"MONITORING", "OPERATIONAL", "CRITICAL"}
         /\ ResolvedTo(op, to) /\ (op = "resume" => to \notin {"DORMANT", "MONITORING"})
         /\ state # "MONITORING" => to \notin {"DORMANT", "MONITORING"}
<1>1. to \in OperationalState
  BY TableTyped DEF resolveTransition
<1>2. QED
  BY <1>1, TriggerValues, LifecycleTriggers DEF ResolvedTo, Transitioning

LEMMA NewRowTyped == NoRow \in Row /\ NewRow \in Row /\ NoMission \in MissionRow
BY DEF NoRow, NewRow, NoMission, Row, MissionRow, RoundStatus, MissionStatus, OperationalState

LEMMA BumpedTyped ==
  ASSUME NEW m \in MissionRow
  PROVE  /\ [m EXCEPT !.total = @ + 1] \in MissionRow
         /\ [m EXCEPT !.completed = @ + 1] \in MissionRow
<1>1. m.total \in Nat /\ m.completed \in Nat /\ m.status \in MissionStatus
  BY DEF MissionRow
<1>2. m.total + 1 \in Nat /\ m.completed + 1 \in Nat
  BY <1>1
<1>3. QED
  BY <1>1, <1>2 DEF MissionRow

(* A request that is past its first call is a round request, unless it is  *)
(* a mission update on its way to its only save.                           *)
LEMMA AtStep ==
  ASSUME TypeOK, NEW q \in Requests, req[q].pc \in Step
  PROVE  \/ req[q] \in RoundRequest
         \/ req[q] \in MissionRequest /\ req[q].pc = "saveMission" /\ req[q].op = "updateMission"
BY DEF TypeOK, MissionRequest, Idle, Step

LEMMA AfterTyped ==
  ASSUME NEW op \in RoundOps, NEW step \in Step
  PROVE  After(op, step) \in Step \cup {"done"}
BY DEF After, Step

(* Continue moves request q to the next call, with the local state given.  *)
LEMMA ContinueTyped ==
  ASSUME TypeOK, NEW q \in Requests, NEW local \in RoundRequest,
         req[q] \in RoundRequest, Continue(q, local)
  PROVE  req' \in [Requests -> RoundRequest \cup MissionRequest \cup {Idle}]
<1>1. After(req[q].op, req[q].pc) \in Step \cup {"done"}
  BY AfterTyped DEF RoundRequest
<1>2. CASE After(req[q].op, req[q].pc) = "done"
  BY <1>2 DEF Continue, TypeOK
<1>3. CASE After(req[q].op, req[q].pc) # "done"
  <2>1. [local EXCEPT !.pc = After(req[q].op, req[q].pc)] \in RoundRequest
    BY <1>1, <1>3 DEF RoundRequest
  <2>2. QED
    BY <1>3, <2>1 DEF Continue, TypeOK
<1>4. QED
  BY <1>2, <1>3

LEMMA EditedTyped ==
  ASSUME NEW op, NEW entity \in Row, NEW to \in OperationalState
  PROVE  Edited(op, entity, to) \in Row
<1>1. /\ [entity EXCEPT !.status = "active", !.opState = to, !.started = TRUE] \in Row
      /\ [entity EXCEPT !.status = "paused"] \in Row
      /\ [entity EXCEPT !.status = "active", !.opState = to] \in Row
      /\ [entity EXCEPT !.status = "completed", !.opState = to, !.ended = TRUE] \in Row
      /\ [entity EXCEPT !.status = "abandoned", !.opState = to, !.ended = TRUE] \in Row
      /\ [entity EXCEPT !.status = "failed", !.opState = to, !.ended = TRUE] \in Row
      /\ [entity EXCEPT !.opState = to] \in Row
  BY DEF Row, RoundStatus
<1>2. QED
  BY <1>1 DEF Edited
-----------------------------------------------------------------------------
(* Each step keeps every variable in its type. *)
LEMMA TypeStep == TypeOK /\ [Next]_vars => TypeOK'
<1> SUFFICES ASSUME TypeOK, [Next]_vars PROVE TypeOK'
  OBVIOUS
<1> USE ConstantsAssumption
<1>1. ASSUME NEW m \in Missions, CreateMission(m) PROVE TypeOK'
  BY <1>1 DEF CreateMission, TypeOK, MissionRow, MissionStatus, history
<1>2. ASSUME NEW q \in Requests, NEW request \in RoundRequest \cup MissionRequest,
             Accept(q, request), disturbed' \subseteq Rounds
      PROVE  TypeOK'
  BY <1>2 DEF Accept, TypeOK
<1>3. ASSUME NEW q \in Requests, NEW m \in Missions, NEW status \in MissionStatus,
             LoadMissionUpdate(q, m, status)
      PROVE  TypeOK'
  <2>1. [missions[m] EXCEPT !.status = status] \in MissionRow
    BY DEF TypeOK, MissionRow
  <2>2. [op |-> "updateMission", pc |-> "saveMission", mission |-> m,
         copy |-> [missions[m] EXCEPT !.status = status]] \in MissionRequest
    BY <2>1 DEF MissionRequest
  <2>3. QED
    BY <1>2, <1>3, <2>2 DEF LoadMissionUpdate, TypeOK
<1>4. ASSUME NEW q \in Requests, NEW r \in Rounds, LoadSchedule(q, r) PROVE TypeOK'
  <2>1. MissionOf[r] \in Missions /\ [missions[MissionOf[r]] EXCEPT !.total = @ + 1] \in MissionRow
    <3>1. MissionOf[r] \in Missions /\ missions[MissionOf[r]] \in MissionRow
      BY DEF TypeOK
    <3>2. QED
      BY <3>1, BumpedTyped
  <2>2. [op |-> "schedule", pc |-> "insertRound", round |-> r, entity |-> NewRow,
         machine |-> NoRow, to |-> "MONITORING", mission |-> MissionOf[r],
         copy |-> [missions[MissionOf[r]] EXCEPT !.total = @ + 1]] \in RoundRequest
    BY <2>1, NewRowTyped DEF RoundRequest, RoundOps, Step, OperationalState
  <2>3. QED
    BY <1>2, <1>4, <2>2 DEF LoadSchedule, TypeOK
<1>5. ASSUME NEW q \in Requests, NEW r \in Rounds, NEW op \in Ops, LoadRound(q, op, r) PROVE TypeOK'
  <2>1. op \in RoundOps /\ FirstStep(op, rounds[r]) \in Step
    BY <1>5 DEF LoadRound, Operations, FirstStep, Step
  <2>2. rounds[r] \in Row /\ rounds[r].opState \in OperationalState /\ MissionOf[r] \in Missions
    BY DEF TypeOK, Row
  <2>3. ASSUME NEW to \in OperationalState
        PROVE  [op |-> op, pc |-> FirstStep(op, rounds[r]), round |-> r, entity |-> rounds[r],
                machine |-> rounds[r], to |-> to, mission |-> MissionOf[r],
                copy |-> NoMission] \in RoundRequest
    BY <2>1, <2>2, NewRowTyped DEF RoundRequest
  <2>4. PICK to \in OperationalState :
          Accept(q, [op |-> op, pc |-> FirstStep(op, rounds[r]), round |-> r, entity |-> rounds[r],
                     machine |-> rounds[r], to |-> to, mission |-> MissionOf[r],
                     copy |-> NoMission])
    BY <1>5, <2>2 DEF LoadRound
  <2>5. disturbed' \subseteq Rounds
    BY <1>5 DEF LoadRound, TypeOK
  <2>6. QED
    BY <1>2, <2>3, <2>4, <2>5
<1>6. ASSUME NEW q \in Requests, Resolve(q) PROVE TypeOK'
  <2>1. req[q] \in RoundRequest
    BY <1>6, AtStep DEF Resolve, At, Step
  <2>2. req' \in [Requests -> RoundRequest \cup MissionRequest \cup {Idle}]
    <3>1. CASE req' = [req EXCEPT ![q] = Idle]
      BY <3>1 DEF TypeOK
    <3>2. ASSUME NEW to \in resolveTransition(rounds[req[q].round].opState, Trigger[req[q].op]),
                 Continue(q, [req[q] EXCEPT !.machine = rounds[req[q].round], !.to = to])
          PROVE  req' \in [Requests -> RoundRequest \cup MissionRequest \cup {Idle}]
      <4>1. to \in OperationalState /\ rounds[req[q].round] \in Row
        BY <2>1, TableTyped DEF resolveTransition, TypeOK, RoundRequest
      <4>2. [req[q] EXCEPT !.machine = rounds[req[q].round], !.to = to] \in RoundRequest
        BY <2>1, <4>1 DEF RoundRequest
      <4>3. QED
        BY <2>1, <3>2, <4>2, ContinueTyped
    <3>3. QED
      BY <1>6, <3>1, <3>2, NoForce DEF Resolve
  <2>3. QED
    BY <1>6, <2>2 DEF Resolve, TypeOK, history
<1>7. ASSUME NEW q \in Requests, SaveState(q) PROVE TypeOK'
  <2>1. req[q] \in RoundRequest
    BY <1>7, AtStep DEF SaveState, At, Step
  <2>2. [req[q].machine EXCEPT !.opState = req[q].to] \in Row
    BY <2>1 DEF RoundRequest, Row
  <2>3. req' \in [Requests -> RoundRequest \cup MissionRequest \cup {Idle}]
    BY <1>7, <2>1, ContinueTyped DEF SaveState
  <2>4. QED
    BY <1>7, <2>2, <2>3 DEF SaveState, TypeOK, history
<1>8. ASSUME NEW q \in Requests, SaveRound(q) PROVE TypeOK'
  <2>1. req[q] \in RoundRequest
    BY <1>8, AtStep DEF SaveRound, At, Step
  <2>2. Edited(req[q].op, req[q].entity, req[q].to) \in Row
    BY <2>1, EditedTyped DEF RoundRequest
  <2>3. req' \in [Requests -> RoundRequest \cup MissionRequest \cup {Idle}]
    BY <1>8, <2>1, ContinueTyped DEF SaveRound
  <2>4. QED
    BY <1>8, <2>1, <2>2, <2>3 DEF SaveRound, TypeOK, RoundRequest
<1>9. ASSUME NEW q \in Requests, InsertRound(q) PROVE TypeOK'
  <2>1. req[q] \in RoundRequest
    BY <1>9, AtStep DEF InsertRound, At, Step
  <2>2. req' \in [Requests -> RoundRequest \cup MissionRequest \cup {Idle}]
    BY <1>9, <2>1, ContinueTyped DEF InsertRound
  <2>3. req[q].entity \in Row
    BY <2>1 DEF RoundRequest
  <2>4. QED
    BY <1>9, <2>2, <2>3 DEF InsertRound, TypeOK, history
<1>10. ASSUME NEW q \in Requests, LoadMission(q) PROVE TypeOK'
  <2>1. req[q] \in RoundRequest
    BY <1>10, AtStep DEF LoadMission, At, Step
  <2>2. [missions[req[q].mission] EXCEPT !.completed = @ + 1] \in MissionRow
    <3>1. missions[req[q].mission] \in MissionRow
      BY <2>1 DEF RoundRequest, TypeOK
    <3>2. QED
      BY <3>1, BumpedTyped
  <2>3. [req[q] EXCEPT !.copy = [missions[req[q].mission] EXCEPT !.completed = @ + 1]] \in RoundRequest
    BY <2>1, <2>2 DEF RoundRequest
  <2>4. req' \in [Requests -> RoundRequest \cup MissionRequest \cup {Idle}]
    BY <1>10, <2>1, <2>3, ContinueTyped DEF LoadMission
  <2>5. QED
    BY <1>10, <2>4 DEF LoadMission, TypeOK, history
<1>11. ASSUME NEW q \in Requests, SaveMission(q) PROVE TypeOK'
  <2>1. req[q].mission \in Missions /\ req[q].copy \in MissionRow
    BY <1>11, AtStep DEF SaveMission, At, Step, RoundRequest, MissionRequest
  <2>2. req' \in [Requests -> RoundRequest \cup MissionRequest \cup {Idle}]
    <3>1. CASE req[q] \in RoundRequest
      BY <1>11, <3>1, ContinueTyped DEF SaveMission
    <3>2. CASE req[q].op = "updateMission" /\ req[q].pc = "saveMission"
      <4>1. After(req[q].op, req[q].pc) = "done"
        BY <3>2 DEF After
      <4>2. QED
        BY <1>11, <4>1 DEF SaveMission, Continue, TypeOK
    <3>3. QED
      BY <1>11, <3>1, <3>2, AtStep DEF SaveMission, At, Step
  <2>3. QED
    BY <1>11, <2>1, <2>2 DEF SaveMission, TypeOK, history
<1>12. ASSUME NEW q \in Requests, NEW event \in Event, req[q] \in RoundRequest, Emit(q, event)
       PROVE  TypeOK'
  <2>1. req' \in [Requests -> RoundRequest \cup MissionRequest \cup {Idle}]
    BY <1>12, ContinueTyped DEF Emit
  <2>2. journal' \in [Rounds -> Seq(Event)]
    BY <1>12 DEF Emit, TypeOK, RoundRequest
  <2>3. QED
    BY <1>12, <2>1, <2>2 DEF Emit, TypeOK, history
<1>13. ASSUME NEW q \in Requests, EmitTransition(q) PROVE TypeOK'
  <2>1. req[q] \in RoundRequest
    BY <1>13, AtStep DEF EmitTransition, At, Step
  <2>2. Transition(req[q].machine.opState, req[q].to) \in Event
    BY <2>1 DEF RoundRequest, Row, Transition, Event
  <2>3. QED
    BY <1>12, <1>13, <2>1, <2>2 DEF EmitTransition
<1>14. ASSUME NEW q \in Requests, EmitEvent(q) PROVE TypeOK'
  <2>1. req[q] \in RoundRequest
    BY <1>14, AtStep DEF EmitEvent, At, Step
  <2>2. Lifecycle(req[q].op) \in Event
    BY <2>1 DEF RoundRequest, Lifecycle, Event
  <2>3. QED
    BY <1>12, <1>14, <2>1, <2>2 DEF EmitEvent
<1>15. ASSUME NEW q \in Requests, Abort(q) PROVE TypeOK'
  <2>1. OwesTransition(req[q]) => req[q] \in RoundRequest
    BY <1>15, AtStep DEF OwesTransition, Abort, Step, Transitioning
  <2>2. disturbed' \subseteq Rounds
    BY <1>15, <2>1 DEF Abort, TypeOK, RoundRequest
  <2>3. QED
    BY <1>15, <2>2 DEF Abort, TypeOK
<1>16. CASE UNCHANGED vars
  BY <1>16 DEF vars, history, TypeOK
<1>17. QED
  BY <1>1, <1>3, <1>4, <1>5, <1>6, <1>7, <1>8, <1>9, <1>10, <1>11, <1>13, <1>14, <1>15, <1>16
     DEF Next, Serve

LEMMA TypeInit == Init => TypeOK
<1> SUFFICES ASSUME Init PROVE TypeOK
  OBVIOUS
<1>1. journal \in [Rounds -> Seq(Event)]
  BY DEF Init
<1>2. QED
  BY <1>1, NewRowTyped, ConstantsAssumption DEF Init, TypeOK

(* Type correctness of RoundLifecycle. *)
THEOREM TypeCorrect == Spec => []TypeOK
BY TypeInit, TypeStep, PTL DEF Spec
-----------------------------------------------------------------------------
(* What is asked of a row of round r when `direct` are the rounds whose    *)
(* state was written directly.                                             *)
RowFits(row, r, direct) == EndCoupled(row) /\ (r \notin direct => StateCoupled(row))

LEMMA FitsLonger ==
  ASSUME NEW x, NEW direct, NEW more, direct \subseteq more, RequestFits(x, direct)
  PROVE  RequestFits(x, more)
BY DEF RequestFits

(* What an operation saves over the round is coupled when the entity it    *)
(* loaded was.                                                             *)
LEMMA EditedCoupled ==
  ASSUME NEW x \in RoundRequest, RequestOK(x), x.pc = "saveRound"
  PROVE  /\ EndCoupled(Edited(x.op, x.entity, x.to))
         /\ Edited(x.op, x.entity, x.to).status # "none"
         /\ StateOK(x) /\ x.op # "assign" => StateCoupled(Edited(x.op, x.entity, x.to))
<1> DEFINE e == x.entity
<1>1. e \in Row /\ x.op \in RoundOps \ {"escalate", "schedule"} /\ x.to \in OperationalState
  BY DEF RoundRequest, RequestOK
<1>2. ResolvedTo(x.op, x.to) /\ EndCoupled(e) /\ e.status # "none"
  BY DEF RequestOK
<1>3. StateOK(x) => StateCoupled(e)
  BY DEF StateOK
<1>4. CASE x.op = "start"
  BY <1>1, <1>2, <1>4 DEF Edited, EndCoupled, StateCoupled, ResolvedTo, Row, FinalStatus
<1>5. CASE x.op = "pause"
  BY <1>1, <1>2, <1>3, <1>5 DEF Edited, EndCoupled, StateCoupled, RequestOK, Row, FinalStatus
<1>6. CASE x.op = "resume"
  BY <1>1, <1>2, <1>6 DEF Edited, EndCoupled, StateCoupled, RequestOK, StateOK, Row, FinalStatus
<1>7. CASE x.op = "complete"
  BY <1>1, <1>2, <1>7 DEF Edited, EndCoupled, StateCoupled, ResolvedTo, Row, FinalStatus
<1>8. CASE x.op = "abandon"
  BY <1>1, <1>2, <1>8 DEF Edited, EndCoupled, StateCoupled, ResolvedTo, Row, FinalStatus
<1>9. CASE x.op = "fail"
  BY <1>1, <1>2, <1>9 DEF Edited, EndCoupled, StateCoupled, ResolvedTo, Row, FinalStatus
<1>10. CASE x.op = "touch"
  BY <1>2, <1>3, <1>10 DEF Edited
<1>11. CASE x.op = "assign"
  BY <1>1, <1>2, <1>11 DEF Edited, EndCoupled, Row
<1>12. QED
  BY <1>1, <1>4, <1>5, <1>6, <1>7, <1>8, <1>9, <1>10, <1>11 DEF RoundOps, Transitioning

(* Moving on to the next call keeps what is known of a request; the step   *)
(* out of "resolve" is in LEMMA ResolveOK.                                 *)
LEMMA AdvanceOK ==
  ASSUME NEW x \in RoundRequest, NEW direct, RequestFits(x, direct),
         x.pc # "resolve", After(x.op, x.pc) # "done"
  PROVE  LET y == [x EXCEPT !.pc = After(x.op, x.pc)] IN
         RequestFits(y, direct) /\ y.pc \notin {"insertRound", "resolve", "saveState"}
<1> DEFINE next == After(x.op, x.pc)
           y == [x EXCEPT !.pc = next]
<1>1. /\ y.op = x.op /\ y.entity = x.entity /\ y.machine = x.machine /\ y.to = x.to
      /\ y.round = x.round /\ y.pc = next /\ x.op \in RoundOps /\ x.pc \in Step
  BY DEF RoundRequest
<1>2. next \notin {"insertRound", "resolve", "saveState"}
  BY <1>1 DEF After, Step
<1>3. next = "saveRound" => x.op \notin {"escalate", "schedule"}
  BY <1>1 DEF After, Step, RequestFits, RequestOK, Transitioning
<1> HIDE DEF y, next
<1>4. RequestOK(y)
  BY <1>1, <1>2, <1>3 DEF RequestFits, RequestOK
<1>5. StateOK(x) => StateOK(y)
  BY <1>1, <1>2 DEF StateOK
<1>6. RequestFits(y, direct)
  BY <1>1, <1>4, <1>5 DEF RequestFits
<1>7. QED
  BY <1>1, <1>2, <1>6 DEF y, next

LEMMA ResolveOK ==
  ASSUME NEW x \in RoundRequest, NEW direct, RequestFits(x, direct), x.pc = "resolve",
         NEW row \in Row, RowFits(row, x.round, direct), row.status # "none",
         NEW to \in resolveTransition(row.opState, Trigger[x.op]),
         NEW y, y.op = x.op, y.entity = x.entity, y.machine = row, y.to = to,
         y.pc = "saveState", y.round = x.round
  PROVE  RequestFits(y, direct)
<1>1. /\ y.op = x.op /\ y.entity = x.entity /\ y.machine = row /\ y.to = to
      /\ y.pc = "saveState" /\ y.round = x.round
  OBVIOUS
<1>2. x.op \in Transitioning
  BY DEF RequestFits, RequestOK
<1>3. /\ to \in OperationalState
      /\ row.opState \in {"MONITORING", "OPERATIONAL", "CRITICAL"}
      /\ ResolvedTo(x.op, to) /\ (x.op = "resume" => to \notin {"DORMANT", "MONITORING"})
      /\ row.opState # "MONITORING" => to \notin {"DORMANT", "MONITORING"}
  BY <1>2, ResolvedStates
<1>4. ASSUME StateCoupled(row)
      PROVE  row.status \notin FinalStatus /\ StateCoupled([row EXCEPT !.opState = to])
  <2>1. row.status \notin FinalStatus
    BY <1>3, <1>4 DEF StateCoupled, FinalStatus
  <2>2. QED
    BY <1>3, <1>4, <2>1 DEF StateCoupled, FinalStatus, Row
<1>5. RequestOK(y)
  BY <1>1, <1>2, <1>3 DEF RequestFits, RequestOK, RowFits
<1>6. x.round \notin direct => StateOK(y)
  BY <1>1, <1>3, <1>4 DEF RequestFits, StateOK, RowFits
<1>7. QED
  BY <1>1, <1>5, <1>6 DEF RequestFits

Inserting(p) == req[p] \in RoundRequest /\ req[p].pc = "insertRound"

(* What a step of request q has to establish: it is enough to look at the  *)
(* row it writes and at its own local state, provided no row vanishes and  *)
(* no row appears under an id another request is about to insert.          *)
LEMMA Frame ==
  ASSUME IInv, TypeOK', RowsCoupled', assigned \subseteq assigned', NEW q \in Requests,
         \A p \in Requests \ {q} : req'[p] = req[p],
         req'[q] \in RoundRequest => RequestFits(req'[q], assigned'),
         req'[q] \in RoundRequest => RoundPresent(q)',
         \A r \in Rounds : rounds[r].status # "none" => rounds'[r].status # "none",
         \A p \in Requests \ {q} : Inserting(p) => rounds'[req[p].round].status = "none",
         \A p \in Requests \ {q} : Inserting(p) /\ Inserting(q)' => req[p].round # req'[q].round
  PROVE  IInv'
<1> SUFFICES ASSUME NEW p \in Requests \ {q}, req[p] \in RoundRequest
             PROVE  RequestFits(req[p], assigned') /\ RoundPresent(p)'
  BY DEF IInv
<1>1. /\ RequestFits(req[p], assigned') /\ RoundPresent(p)
      /\ req'[p] = req[p] /\ req[p].round \in Rounds
  BY FitsLonger DEF IInv, RoundRequest
<1>2. CASE req[p].pc = "insertRound"
  <2>1. rounds'[req[p].round].status = "none"
    BY <1>2 DEF Inserting
  <2>2. ASSUME NEW o \in Requests \ {p}, req'[o] \in RoundRequest, req'[o].pc = "insertRound"
        PROVE  req'[o].round # req[p].round
    <3>1. CASE o = q
      BY <1>2, <2>2, <3>1 DEF Inserting
    <3>2. CASE o # q
      BY <1>1, <1>2, <2>2, <3>2 DEF RoundPresent
    <3>3. QED
      BY <3>1, <3>2
  <2>3. QED
    BY <1>1, <1>2, <2>1, <2>2 DEF RoundPresent
<1>3. CASE req[p].pc # "insertRound"
  BY <1>1, <1>3 DEF RoundPresent
<1>4. QED
  BY <1>1, <1>2, <1>3

(* The steps that leave the rounds table alone, and the request that takes *)
(* them is not about to insert.                                            *)
LEMMA QuietFrame ==
  ASSUME IInv, TypeOK', NEW q \in Requests, rounds' = rounds, assigned' = assigned,
         \A p \in Requests \ {q} : req'[p] = req[p],
         req'[q] \in RoundRequest =>
           /\ RequestFits(req'[q], assigned) /\ req'[q].pc # "insertRound" /\ req'[q].round \in Rounds
           /\ req'[q].op # "schedule" => rounds[req'[q].round].status # "none"
  PROVE  IInv'
<1>1. RowsCoupled'
  BY DEF IInv, RowsCoupled
<1>2. req'[q] \in RoundRequest => RoundPresent(q)'
  BY DEF RoundPresent
<1>3. \A p \in Requests \ {q} : Inserting(p) => rounds'[req[p].round].status = "none"
  BY DEF IInv, Inserting, RoundPresent
<1>4. \A p \in Requests \ {q} : Inserting(p) /\ Inserting(q)' => req[p].round # req'[q].round
  BY DEF Inserting
<1>5. \A r \in Rounds : rounds[r].status # "none" => rounds'[r].status # "none"
  OBVIOUS
<1>6. QED
  BY <1>1, <1>2, <1>3, <1>4, <1>5, Frame

(* A request that goes on after a call other than the resolve. *)
LEMMA ContinueOK ==
  ASSUME IInv, NEW q \in Requests, req[q] \in RoundRequest, req[q].pc # "resolve",
         NEW copy \in MissionRow, Continue(q, [req[q] EXCEPT !.copy = copy])
  PROVE  /\ \A p \in Requests \ {q} : req'[p] = req[p]
         /\ req'[q] \in RoundRequest =>
              /\ RequestFits(req'[q], assigned) /\ req'[q].pc \notin {"insertRound", "saveState"}
              /\ req'[q].op = req[q].op /\ req'[q].round = req[q].round
<1> DEFINE x == [req[q] EXCEPT !.copy = copy]
           next == After(x.op, x.pc)
           y == [x EXCEPT !.pc = next]
<1>1. /\ x \in RoundRequest /\ x.op = req[q].op /\ x.pc = req[q].pc /\ x.round = req[q].round
      /\ x.entity = req[q].entity /\ x.machine = req[q].machine /\ x.to = req[q].to
  BY DEF RoundRequest
<1>2. RequestFits(x, assigned)
  <2>1. RequestFits(req[q], assigned)
    BY DEF IInv
  <2>2. QED
    BY <1>1, <2>1 DEF RequestFits, RequestOK, StateOK
<1>3. req' = [req EXCEPT ![q] = IF next = "done" THEN Idle ELSE y]
  BY <1>1 DEF Continue
<1>4. req \in [Requests -> RoundRequest \cup MissionRequest \cup {Idle}]
  BY DEF IInv, TypeOK
<1>5. y.op = x.op /\ y.round = x.round
  BY <1>1 DEF RoundRequest
<1>6. next # "done" => RequestFits(y, assigned) /\ y.pc \notin {"insertRound", "resolve", "saveState"}
  BY <1>1, <1>2, AdvanceOK
<1>7. Idle \notin RoundRequest
  <2>1. Idle.pc \notin Step
    BY DEF Idle, Step
  <2>2. QED
    BY <2>1 DEF RoundRequest
<1> HIDE DEF y, next
<1>8. QED
  BY <1>1, <1>3, <1>4, <1>5, <1>6, <1>7

LEMMA PlainContinue ==
  ASSUME IInv, NEW q \in Requests, req[q] \in RoundRequest, req[q].pc # "resolve", Continue(q, req[q])
  PROVE  /\ \A p \in Requests \ {q} : req'[p] = req[p]
         /\ req'[q] \in RoundRequest =>
              /\ RequestFits(req'[q], assigned) /\ req'[q].pc \notin {"insertRound", "saveState"}
              /\ req'[q].op = req[q].op /\ req'[q].round = req[q].round
<1>1. req[q].copy \in MissionRow /\ [req[q] EXCEPT !.copy = req[q].copy] = req[q]
  BY DEF RoundRequest
<1>2. Continue(q, [req[q] EXCEPT !.copy = req[q].copy])
  BY <1>1
<1>3. QED
  BY <1>1, <1>2, ContinueOK

(* A save over a row that is in the table. *)
LEMMA SaveFrame ==
  ASSUME IInv, TypeOK', NEW q \in Requests, req[q] \in RoundRequest,
         req[q].pc \in {"saveState", "saveRound"}, Continue(q, req[q]),
         NEW row \in Row, RowFits(row, req[q].round, assigned'), row.status # "none",
         assigned \subseteq assigned', rounds' = [rounds EXCEPT ![req[q].round] = row]
  PROVE  IInv'
<1>1. rounds \in [Rounds -> Row] /\ req[q].round \in Rounds /\ RequestOK(req[q]) /\ RoundPresent(q)
  BY DEF IInv, TypeOK, RoundRequest, RequestFits
<1>2. /\ \A p \in Requests \ {q} : req'[p] = req[p]
      /\ req'[q] \in RoundRequest =>
           /\ RequestFits(req'[q], assigned') /\ req'[q].pc # "insertRound"
           /\ req'[q].op = req[q].op /\ req'[q].round = req[q].round
  BY PlainContinue, FitsLonger
<1>3. rounds[req[q].round].status # "none"
  BY <1>1 DEF RoundPresent, RequestOK, Transitioning
<1>4. RowsCoupled'
  <2>1. SUFFICES ASSUME NEW r \in Rounds PROVE RowFits(rounds'[r], r, assigned')
    BY DEF RowsCoupled, RowFits
  <2>2. RowFits(rounds[r], r, assigned')
    BY DEF IInv, RowsCoupled, RowFits
  <2>3. QED
    BY <1>1, <2>2
<1>5. req'[q] \in RoundRequest => RoundPresent(q)'
  BY <1>1, <1>2 DEF RoundPresent
<1>6. \A r \in Rounds : rounds[r].status # "none" => rounds'[r].status # "none"
  BY <1>1
<1>7. \A p \in Requests \ {q} : Inserting(p) => rounds'[req[p].round].status = "none"
  BY <1>1, <1>3 DEF IInv, Inserting, RoundPresent
<1>8. \A p \in Requests \ {q} : Inserting(p) /\ Inserting(q)' => req[p].round # req'[q].round
  BY <1>2 DEF Inserting
<1>9. QED
  BY <1>2, <1>4, <1>5, <1>6, <1>7, <1>8, Frame

LEMMA NewRowCoupled ==
  /\ EndCoupled(NewRow) /\ StateCoupled(NewRow) /\ NewRow.status = "scheduled"
  /\ EndCoupled(NoRow) /\ StateCoupled(NoRow)
BY DEF EndCoupled, StateCoupled, NewRow, NoRow, FinalStatus

(* Only createRound inserts, and it inserts a new row. *)
LEMMA InsertFrame ==
  ASSUME IInv, TypeOK', NEW q \in Requests, InsertRound(q)
  PROVE  IInv'
<1>1. req[q] \in RoundRequest /\ req[q].pc = "insertRound"
  BY AtStep DEF IInv, InsertRound, At, Step
<1>2. /\ rounds \in [Rounds -> Row] /\ req[q].round \in Rounds
      /\ RequestFits(req[q], assigned) /\ RoundPresent(q)
  BY <1>1 DEF IInv, TypeOK, RoundRequest
<1>3. /\ \A p \in Requests \ {q} : req'[p] = req[p]
      /\ req'[q] \in RoundRequest =>
           /\ RequestFits(req'[q], assigned) /\ req'[q].pc # "insertRound"
           /\ req'[q].op = req[q].op /\ req'[q].round = req[q].round
  BY <1>1, PlainContinue DEF InsertRound
<1>4. rounds' = [rounds EXCEPT ![req[q].round] = req[q].entity] /\ assigned' = assigned
  BY DEF InsertRound, history
<1>5. RowFits(req[q].entity, req[q].round, assigned) /\ req[q].entity.status # "none"
  BY <1>2 DEF RequestFits, RequestOK, StateOK, RowFits
<1>6. RowsCoupled'
  <2>1. SUFFICES ASSUME NEW r \in Rounds PROVE RowFits(rounds'[r], r, assigned)
    BY <1>4 DEF RowsCoupled, RowFits
  <2>2. RowFits(rounds[r], r, assigned)
    BY DEF IInv, RowsCoupled, RowFits
  <2>3. QED
    BY <1>2, <1>4, <1>5, <2>2
<1>7. req'[q] \in RoundRequest => RoundPresent(q)'
  BY <1>2, <1>3, <1>4, <1>5 DEF RoundPresent
<1>8. \A r \in Rounds : rounds[r].status # "none" => rounds'[r].status # "none"
  BY <1>2, <1>4, <1>5
<1>9. \A p \in Requests \ {q} : Inserting(p) => rounds'[req[p].round].status = "none"
  <2>1. SUFFICES ASSUME NEW p \in Requests \ {q}, Inserting(p)
                 PROVE  rounds'[req[p].round].status = "none"
    OBVIOUS
  <2>2. req[p].round # req[q].round
    BY <1>1, <1>2, <2>1 DEF RoundPresent, Inserting
  <2>3. rounds[req[p].round].status = "none"
    BY <2>1 DEF IInv, Inserting, RoundPresent
  <2>4. req[p].round \in Rounds
    BY <2>1 DEF Inserting, RoundRequest
  <2>5. QED
    BY <1>2, <1>4, <2>2, <2>3, <2>4
<1>10. \A p \in Requests \ {q} : Inserting(p) /\ Inserting(q)' => req[p].round # req'[q].round
  BY <1>3 DEF Inserting
<1>11. QED
  BY <1>3, <1>4, <1>6, <1>7, <1>8, <1>9, <1>10, Frame

LEMMA ScheduleFrame ==
  ASSUME IInv, TypeOK', NEW q \in Requests, NEW r \in Rounds, LoadSchedule(q, r)
  PROVE  IInv'
<1> DEFINE m == MissionOf[r]
           x == [op |-> "schedule", pc |-> "insertRound", round |-> r, entity |-> NewRow,
                 machine |-> NoRow, to |-> "MONITORING", mission |-> m,
                 copy |-> [missions[m] EXCEPT !.total = @ + 1]]
<1>1. /\ rounds' = rounds /\ req' = [req EXCEPT ![q] = x] /\ rounds[r].status = "none"
      /\ assigned' = assigned
  BY DEF LoadSchedule, Accept
<1>2. req'[q] = x /\ \A p \in Requests \ {q} : req'[p] = req[p]
  BY <1>1 DEF IInv, TypeOK
<1>3. /\ x.op = "schedule" /\ x.pc = "insertRound" /\ x.round = r /\ x.entity = NewRow
      /\ x.to = "MONITORING"
  OBVIOUS
<1> HIDE DEF x
<1>4. RequestFits(req'[q], assigned)
  BY <1>2, <1>3, NewRowCoupled DEF RequestFits, RequestOK, StateOK, ResolvedTo, FinalStatus
<1>5. \A p \in Requests \ {q} : Inserting(p) => req[p].round # r
  <2>1. SUFFICES ASSUME NEW p \in Requests \ {q}, Inserting(p) PROVE req[p].round # r
    OBVIOUS
  <2>2. req[p].op = "schedule"
    BY <2>1 DEF IInv, Inserting, RequestFits, RequestOK
  <2>3. req[p] # Idle
    BY <2>1 DEF Inserting, Idle
  <2>4. QED
    BY <2>2, <2>3 DEF LoadSchedule
<1>6. RoundPresent(q)'
  BY <1>1, <1>2, <1>3, <1>5 DEF RoundPresent, Inserting
<1>7. RowsCoupled'
  BY <1>1 DEF IInv, RowsCoupled
<1>8. \A p \in Requests \ {q} : Inserting(p) => rounds'[req[p].round].status = "none"
  BY <1>1 DEF IInv, Inserting, RoundPresent
<1>9. \A p \in Requests \ {q} : Inserting(p) /\ Inserting(q)' => req[p].round # req'[q].round
  BY <1>2, <1>3, <1>5
<1>10. \A s \in Rounds : rounds[s].status # "none" => rounds'[s].status # "none"
  BY <1>1
<1>11. QED
  BY <1>1, <1>2, <1>4, <1>6, <1>7, <1>8, <1>9, <1>10, Frame

LEMMA LoadFrame ==
  ASSUME IInv, TypeOK', NEW q \in Requests, NEW r \in Rounds, NEW op \in Ops, LoadRound(q, op, r)
  PROVE  IInv'
<1>1. PICK to \in IF op = "assign" THEN OperationalState ELSE {rounds[r].opState} :
        Accept(q, [op |-> op, pc |-> FirstStep(op, rounds[r]), round |-> r, entity |-> rounds[r],
                   machine |-> rounds[r], to |-> to, mission |-> MissionOf[r],
                   copy |-> NoMission])
  BY DEF LoadRound
<1> DEFINE x == [op |-> op, pc |-> FirstStep(op, rounds[r]), round |-> r, entity |-> rounds[r],
                 machine |-> rounds[r], to |-> to, mission |-> MissionOf[r],
                 copy |-> NoMission]
<1>2. /\ rounds' = rounds /\ req' = [req EXCEPT ![q] = x] /\ assigned' = assigned
  BY <1>1 DEF Accept
<1>3. /\ Accepts(op, rounds[r]) /\ rounds[r].status # "none"
      /\ op \in RoundOps \ {"schedule"} /\ (op # "assign" => to = rounds[r].opState)
  BY ConstantsAssumption DEF LoadRound, Operations
<1>4. req'[q] = x /\ \A p \in Requests \ {q} : req'[p] = req[p]
  BY <1>2 DEF IInv, TypeOK
<1>5. /\ x.op = op /\ x.pc = FirstStep(op, rounds[r]) /\ x.round = r /\ x.entity = rounds[r]
      /\ x.to = to
  OBVIOUS
<1> HIDE DEF x
<1>6. rounds[r] \in Row /\ RowFits(rounds[r], r, assigned)
  BY DEF IInv, TypeOK, RowsCoupled, RowFits
<1>7. /\ op \notin {"touch", "assign", "escalate"} => rounds[r].status \notin FinalStatus
      /\ op = "resume" => rounds[r].status = "paused"
      /\ op = "pause" => rounds[r].status = "active"
  BY <1>3 DEF Accepts, FinalStatus, RoundOps, Transitioning
<1>8. /\ x.pc \in {"resolve", "saveRound"}
      /\ x.pc = "resolve" => op \in Transitioning
      /\ x.pc = "saveRound" => op \in Direct \cup {"resume"}
  BY <1>3, <1>5 DEF FirstStep, RoundOps, Direct
<1>9. RequestOK(x)
  BY <1>3, <1>5, <1>6, <1>7, <1>8 DEF RequestOK, RowFits, ResolvedTo, Direct
<1>10. r \notin assigned => StateOK(x)
  BY <1>3, <1>5, <1>6, <1>7, <1>8 DEF StateOK, RowFits, StateCoupled
<1>11. RequestFits(x, assigned)
  BY <1>5, <1>9, <1>10 DEF RequestFits
<1>12. QED
  BY <1>2, <1>3, <1>4, <1>5, <1>8, <1>11, QuietFrame

LEMMA ResolveFrame ==
  ASSUME IInv, TypeOK', NEW q \in Requests, Resolve(q)
  PROVE  IInv'
<1>1. /\ req[q] \in RoundRequest /\ req[q].pc = "resolve"
      /\ rounds' = rounds /\ assigned' = assigned
  BY AtStep DEF IInv, Resolve, At, Step, history
<1> DEFINE row == rounds[req[q].round]
<1>2. /\ req[q].round \in Rounds /\ RequestFits(req[q], assigned) /\ RoundPresent(q)
      /\ req \in [Requests -> RoundRequest \cup MissionRequest \cup {Idle}]
      /\ row \in Row /\ RowFits(row, req[q].round, assigned)
  BY <1>1 DEF IInv, TypeOK, RoundRequest, RowsCoupled, RowFits
<1>3. req[q].op \in Transitioning /\ row.status # "none"
  BY <1>1, <1>2 DEF RequestFits, RequestOK, RoundPresent, Transitioning
<1>4. CASE req' = [req EXCEPT ![q] = Idle]
  <2>1. req'[q] \notin RoundRequest
    BY <1>2, <1>4 DEF Idle, RoundRequest, Step
  <2>2. QED
    BY <1>1, <1>2, <1>4, <2>1, QuietFrame
<1>5. ASSUME NEW to \in resolveTransition(row.opState, Trigger[req[q].op]),
             Continue(q, [req[q] EXCEPT !.machine = row, !.to = to])
      PROVE  IInv'
  <2> DEFINE y == [[req[q] EXCEPT !.machine = row, !.to = to] EXCEPT !.pc = "saveState"]
  <2>1. RequestFits(y, assigned) /\ y.pc = "saveState"
    <3>1. /\ req[q] \in RoundRequest /\ RequestFits(req[q], assigned) /\ req[q].pc = "resolve"
          /\ row \in Row /\ RowFits(row, req[q].round, assigned) /\ row.status # "none"
          /\ to \in resolveTransition(row.opState, Trigger[req[q].op])
      BY <1>1, <1>2, <1>3, <1>5
    <3>2. /\ y.op = req[q].op /\ y.entity = req[q].entity /\ y.machine = row /\ y.to = to
          /\ y.pc = "saveState" /\ y.round = req[q].round
      BY <1>1 DEF RoundRequest
    <3> HIDE DEF row, y
    <3>3. QED
      BY <3>1, <3>2, ResolveOK
  <2>2. y.round = req[q].round
    BY <1>1 DEF RoundRequest
  <2>3. req' = [req EXCEPT ![q] = y]
    BY <1>1, <1>5 DEF Continue, After
  <2> HIDE DEF y
  <2>4. QED
    BY <1>1, <1>2, <1>3, <2>1, <2>2, <2>3, QuietFrame
<1>6. QED
  BY <1>1, <1>4, <1>5, NoForce DEF Resolve

(* A request that goes on without touching the rounds table. *)
LEMMA QuietContinue ==
  ASSUME IInv, TypeOK', NEW q \in Requests, req[q] \in RoundRequest,
         req[q].pc \notin {"resolve", "insertRound"}, rounds' = rounds, assigned' = assigned,
         NEW copy \in MissionRow, Continue(q, [req[q] EXCEPT !.copy = copy])
  PROVE  IInv'
<1>1. RoundPresent(q) /\ req[q].round \in Rounds
  BY DEF IInv, RoundRequest
<1>2. req[q].op # "schedule" => rounds[req[q].round].status # "none"
  BY <1>1 DEF RoundPresent
<1>3. /\ \A p \in Requests \ {q} : req'[p] = req[p]
      /\ req'[q] \in RoundRequest =>
           /\ RequestFits(req'[q], assigned) /\ req'[q].pc # "insertRound"
           /\ req'[q].op = req[q].op /\ req'[q].round = req[q].round
  BY ContinueOK
<1>4. QED
  BY <1>1, <1>2, <1>3, QuietFrame

(* A step that leaves the rounds table alone and frees the request's slot, *)
(* or turns it into a mission update.                                      *)
LEMMA LeaveFrame ==
  ASSUME IInv, TypeOK', NEW q \in Requests, rounds' = rounds, assigned' = assigned,
         NEW x \in MissionRequest \cup {Idle}, req' = [req EXCEPT ![q] = x]
  PROVE  IInv'
<1>1. x \notin RoundRequest
  <2>1. CASE x = Idle
    BY <2>1 DEF Idle, RoundRequest, Step
  <2>2. CASE x \in MissionRequest
    <3>1. x.op = "updateMission"
      BY <2>2 DEF MissionRequest
    <3>2. QED
      BY <3>1 DEF RoundRequest, RoundOps, Transitioning
  <2>3. QED
    BY <2>1, <2>2
<1>2. req'[q] = x /\ \A p \in Requests \ {q} : req'[p] = req[p]
  BY DEF IInv, TypeOK
<1>3. QED
  BY <1>1, <1>2, QuietFrame
-----------------------------------------------------------------------------
LEMMA IInvInit == Init => IInv
<1> SUFFICES ASSUME Init PROVE IInv
  OBVIOUS
<1>1. RowsCoupled
  <2>1. \A r \in Rounds : rounds[r] = NoRow
    BY DEF Init
  <2>2. QED
    BY <2>1, NewRowCoupled DEF RowsCoupled
<1>2. \A q \in Requests : req[q] \notin RoundRequest
  BY DEF Init, Idle, RoundRequest, Step
<1>3. QED
  BY <1>1, <1>2, TypeInit DEF IInv

LEMMA IInvStep == IInv /\ [Next]_vars => IInv'
<1> SUFFICES ASSUME IInv, [Next]_vars PROVE IInv'
  OBVIOUS
<1>0. TypeOK' /\ TypeOK
  BY TypeStep DEF IInv
<1>1. ASSUME NEW m \in Missions, CreateMission(m) PROVE IInv'
  <2>1. rounds' = rounds /\ req' = req /\ assigned' = assigned
    BY <1>1 DEF CreateMission, history
  <2>2. QED
    BY <1>0, <2>1 DEF IInv, RowsCoupled, RoundPresent
<1>2. ASSUME NEW q \in Requests, NEW m \in Missions, NEW status \in MissionStatus,
             LoadMissionUpdate(q, m, status)
      PROVE  IInv'
  <2>1. [missions[m] EXCEPT !.status = status] \in MissionRow
    BY <1>0 DEF TypeOK, MissionRow
  <2>2. [op |-> "updateMission", pc |-> "saveMission", mission |-> m,
         copy |-> [missions[m] EXCEPT !.status = status]] \in MissionRequest
    BY <2>1 DEF MissionRequest
  <2>3. QED
    BY <1>0, <1>2, <2>2, LeaveFrame DEF LoadMissionUpdate, Accept
<1>3. ASSUME NEW q \in Requests, NEW r \in Rounds, LoadSchedule(q, r) PROVE IInv'
  BY <1>0, <1>3, ScheduleFrame
<1>4. ASSUME NEW q \in Requests, NEW r \in Rounds, NEW op \in Ops, LoadRound(q, op, r) PROVE IInv'
  BY <1>0, <1>4, LoadFrame
<1>5. ASSUME NEW q \in Requests, Resolve(q) PROVE IInv'
  BY <1>0, <1>5, ResolveFrame
<1>6. ASSUME NEW q \in Requests, SaveState(q) PROVE IInv'
  <2> DEFINE row == [req[q].machine EXCEPT !.opState = req[q].to]
  <2>1. req[q] \in RoundRequest /\ req[q].pc = "saveState"
    BY <1>0, <1>6, AtStep DEF SaveState, At, Step
  <2>2. RequestFits(req[q], assigned) /\ assigned' = assigned
    BY <1>6, <2>1 DEF IInv, SaveState, history
  <2>3. row \in Row /\ EndCoupled(row) /\ row.status # "none"
    BY <2>1, <2>2 DEF RoundRequest, Row, RequestFits, RequestOK, EndCoupled
  <2>4. RowFits(row, req[q].round, assigned')
    BY <2>1, <2>2, <2>3 DEF RequestFits, StateOK, RowFits
  <2>5. QED
    BY <1>0, <1>6, <2>1, <2>2, <2>3, <2>4, SaveFrame DEF SaveState
<1>7. ASSUME NEW q \in Requests, SaveRound(q) PROVE IInv'
  <2> DEFINE row == Edited(req[q].op, req[q].entity, req[q].to)
  <2>1. req[q] \in RoundRequest /\ req[q].pc = "saveRound"
    BY <1>0, <1>7, AtStep DEF SaveRound, At, Step
  <2>2. RequestFits(req[q], assigned) /\ row \in Row
    BY <2>1, EditedTyped DEF IInv, RoundRequest
  <2>3. /\ EndCoupled(row) /\ row.status # "none"
        /\ StateOK(req[q]) /\ req[q].op # "assign" => StateCoupled(row)
    BY <2>1, <2>2, EditedCoupled DEF RequestFits
  <2>4. /\ assigned \subseteq assigned'
        /\ req[q].op = "assign" => req[q].round \in assigned'
        /\ rounds' = [rounds EXCEPT ![req[q].round] = row] /\ Continue(q, req[q])
    BY <1>7 DEF SaveRound
  <2> HIDE DEF row
  <2>5. RowFits(row, req[q].round, assigned')
    BY <2>2, <2>3, <2>4 DEF RequestFits, RowFits
  <2>6. QED
    BY <1>0, <2>1, <2>2, <2>3, <2>4, <2>5, SaveFrame
<1>8. ASSUME NEW q \in Requests, InsertRound(q) PROVE IInv'
  BY <1>0, <1>8, InsertFrame
<1>9. ASSUME NEW q \in Requests, LoadMission(q) PROVE IInv'
  <2>1. req[q] \in RoundRequest /\ req[q].pc = "loadMission"
    BY <1>0, <1>9, AtStep DEF LoadMission, At, Step
  <2>2. missions[req[q].mission] \in MissionRow
    BY <1>0, <2>1 DEF TypeOK, RoundRequest
  <2>3. [missions[req[q].mission] EXCEPT !.completed = @ + 1] \in MissionRow
    BY <2>2, BumpedTyped
  <2>4. QED
    BY <1>0, <1>9, <2>1, <2>3, QuietContinue DEF LoadMission, history
<1>10. ASSUME NEW q \in Requests, SaveMission(q) PROVE IInv'
  <2>1. CASE req[q] \in RoundRequest
    <3>1. /\ req[q].pc = "saveMission" /\ rounds' = rounds /\ Continue(q, req[q])
          /\ req[q].copy \in MissionRow /\ [req[q] EXCEPT !.copy = req[q].copy] = req[q]
          /\ assigned' = assigned
      BY <1>10, <2>1 DEF SaveMission, At, RoundRequest, history
    <3>2. Continue(q, [req[q] EXCEPT !.copy = req[q].copy])
      BY <3>1
    <3>3. QED
      BY <1>0, <2>1, <3>1, <3>2, QuietContinue
  <2>2. CASE req[q].pc = "saveMission" /\ req[q].op = "updateMission"
    <3>1. rounds' = rounds /\ req' = [req EXCEPT ![q] = Idle] /\ assigned' = assigned
      BY <1>10, <2>2 DEF SaveMission, Continue, After, history
    <3>2. QED
      BY <1>0, <3>1, LeaveFrame
  <2>3. QED
    BY <1>0, <1>10, <2>1, <2>2, AtStep DEF SaveMission, At, Step
<1>11. ASSUME NEW q \in Requests, req[q] \in RoundRequest, NEW event, Emit(q, event),
              req[q].pc \in {"emitTransition", "emitEvent"}
       PROVE  IInv'
  <2>1. /\ rounds' = rounds /\ Continue(q, req[q]) /\ assigned' = assigned
        /\ req[q].copy \in MissionRow /\ [req[q] EXCEPT !.copy = req[q].copy] = req[q]
    BY <1>11 DEF Emit, RoundRequest, history
  <2>2. Continue(q, [req[q] EXCEPT !.copy = req[q].copy])
    BY <2>1
  <2>3. QED
    BY <1>0, <1>11, <2>1, <2>2, QuietContinue
<1>12. ASSUME NEW q \in Requests, EmitTransition(q) PROVE IInv'
  <2>1. req[q] \in RoundRequest /\ req[q].pc = "emitTransition"
    BY <1>0, <1>12, AtStep DEF EmitTransition, At, Step
  <2>2. QED
    BY <1>11, <1>12, <2>1 DEF EmitTransition
<1>13. ASSUME NEW q \in Requests, EmitEvent(q) PROVE IInv'
  <2>1. req[q] \in RoundRequest /\ req[q].pc = "emitEvent"
    BY <1>0, <1>13, AtStep DEF EmitEvent, At, Step
  <2>2. QED
    BY <1>11, <1>13, <2>1 DEF EmitEvent
<1>14. ASSUME NEW q \in Requests, Abort(q) PROVE IInv'
  BY <1>0, <1>14, LeaveFrame DEF Abort
<1>15. CASE UNCHANGED vars
  BY <1>0, <1>15 DEF vars, history, IInv, RowsCoupled, RoundPresent
<1>16. QED
  BY <1>1, <1>2, <1>3, <1>4, <1>5, <1>6, <1>7, <1>8, <1>9, <1>10, <1>12, <1>13, <1>14, <1>15
     DEF Next, Serve

THEOREM Invariance == Spec => []IInv
BY IInvInit, IInvStep, PTL DEF Spec

(* However requests interleave and wherever they die, a row that says a    *)
(* round is over carries an end time and, unless updateOperationalState    *)
(* wrote its state, the operational state of that ending; a running one    *)
(* has been started (RoundsService, the two saves of every operation).     *)
THEOREM RowsAlwaysCoupled == Spec => []RowsCoupled
<1>1. IInv => RowsCoupled
  BY DEF IInv
<1>2. QED
  BY <1>1, Invariance, PTL

LEMMA FinalKept ==
  ASSUME IInv, [Next]_vars, NEW r \in Rounds, rounds[r].status \in FinalStatus,
         \A q \in Requests : ~StaleWriter(q, r)
  PROVE  /\ rounds'[r].status = rounds[r].status
         /\ rounds'[r].opState = rounds[r].opState \/ r \in assigned'
<1> DEFINE Kept == /\ rounds'[r].status = rounds[r].status
                   /\ rounds'[r].opState = rounds[r].opState \/ r \in assigned'
<1>0. TypeOK /\ rounds \in [Rounds -> Row]
  BY DEF IInv, TypeOK
<1>1. CASE rounds' = rounds
  BY <1>1
<1>2. ASSUME NEW q \in Requests, req[q] \in RoundRequest, req[q].round # r, NEW row,
             rounds' = [rounds EXCEPT ![req[q].round] = row]
      PROVE  Kept
  BY <1>0, <1>2
<1>3. ASSUME NEW q \in Requests, SaveState(q) PROVE Kept
  <2>1. req[q] \in RoundRequest /\ req[q].pc = "saveState" /\ assigned' = assigned
    BY <1>0, <1>3, AtStep DEF SaveState, At, Step, history
  <2>2. RequestFits(req[q], assigned)
    BY <2>1 DEF IInv
  <2>3. CASE req[q].round = r
    <3>1. req[q].op \in RoundOps \ {"schedule"} /\ req[q] # Idle
      BY <2>1, <2>2 DEF RequestFits, RequestOK, RoundOps, Transitioning, Idle
    <3>2. ~Outdated(req[q].machine, r)
      BY <2>1, <2>3, <3>1 DEF StaleWriter, At
    <3>3. req[q].machine.status = rounds[r].status
      BY <3>2 DEF Outdated
    <3>4. r \in assigned
      BY <2>1, <2>2, <2>3, <3>3 DEF RequestFits, StateOK
    <3>5. rounds' = [rounds EXCEPT ![r] = [req[q].machine EXCEPT !.opState = req[q].to]]
      BY <1>3, <2>3 DEF SaveState
    <3>6. rounds'[r].status = rounds[r].status
      BY <1>0, <2>1, <3>3, <3>5 DEF RoundRequest, Row
    <3>7. QED
      BY <2>1, <3>4, <3>6
  <2>4. CASE req[q].round # r
    BY <1>2, <1>3, <2>1, <2>4 DEF SaveState
  <2>5. QED
    BY <2>3, <2>4
<1>4. ASSUME NEW q \in Requests, SaveRound(q) PROVE Kept
  <2>1. req[q] \in RoundRequest /\ req[q].pc = "saveRound"
    BY <1>0, <1>4, AtStep DEF SaveRound, At, Step
  <2>2. RequestOK(req[q])
    BY <2>1 DEF IInv, RequestFits
  <2>3. CASE req[q].round = r
    <3>1. req[q].op \in RoundOps \ {"schedule", "escalate"} /\ req[q] # Idle
      BY <2>1, <2>2 DEF RequestOK, RoundRequest, Idle
    <3>2. ~Outdated(req[q].entity, r)
      BY <2>1, <2>3, <3>1 DEF StaleWriter, WillSaveEntity
    <3>3. req[q].op \in {"touch", "assign"}
      BY <2>2, <3>1, <3>2 DEF Outdated, RequestOK
    <3>4. CASE req[q].op = "touch"
      <4>1. rounds' = [rounds EXCEPT ![r] = req[q].entity]
        BY <1>4, <2>3, <3>4 DEF SaveRound, Edited
      <4>2. QED
        BY <1>0, <3>2, <4>1 DEF Outdated
    <3>5. CASE req[q].op = "assign"
      <4>1. /\ rounds' = [rounds EXCEPT ![r] = [req[q].entity EXCEPT !.opState = req[q].to]]
            /\ r \in assigned'
        BY <1>4, <2>3, <3>5 DEF SaveRound, Edited
      <4>2. rounds'[r].status = rounds[r].status
        BY <1>0, <2>1, <3>2, <4>1 DEF Outdated, RoundRequest, Row
      <4>3. QED
        BY <4>1, <4>2
    <3>6. QED
      BY <3>3, <3>4, <3>5
  <2>4. CASE req[q].round # r
    BY <1>2, <1>4, <2>1, <2>4 DEF SaveRound
  <2>5. QED
    BY <2>3, <2>4
<1>5. ASSUME NEW q \in Requests, InsertRound(q) PROVE Kept
  <2>1. req[q] \in RoundRequest /\ req[q].pc = "insertRound"
    BY <1>0, <1>5, AtStep DEF InsertRound, At, Step
  <2>2. rounds[req[q].round].status = "none"
    BY <2>1 DEF IInv, RoundPresent
  <2>3. req[q].round # r
    BY <2>2 DEF FinalStatus
  <2>4. QED
    BY <1>2, <1>5, <2>1, <2>3 DEF InsertRound
<1>6. ASSUME NEW q \in Requests, NEW s \in Rounds, NEW op \in Ops, LoadRound(q, op, s)
      PROVE  rounds' = rounds
  BY <1>6 DEF LoadRound, Accept
<1>7. QED
  BY <1>1, <1>3, <1>4, <1>5, <1>6
     DEF Next, Serve, vars, CreateMission, LoadMissionUpdate, LoadSchedule, Accept,
         Resolve, LoadMission, SaveMission, EmitTransition, EmitEvent, Emit, Abort

(* A finished round changes its status only by the save of a request that  *)
(* holds a copy older than the finish: with one request per round at a     *)
(* time, completed, failed and abandoned are final.  Its operational state *)
(* stays as well where updateOperationalState never wrote it.              *)
THEOREM FinishedStaysFinished == Spec => FinalRowsStick
<1>1. IInv /\ [Next]_vars =>
        [\A r \in Rounds :
           (/\ rounds[r].status \in FinalStatus
            /\ \A q \in Requests : ~StaleWriter(q, r))
           => /\ rounds'[r].status = rounds[r].status
              /\ rounds'[r].opState = rounds[r].opState \/ r \in assigned']_vars
  BY FinalKept
<1>2. QED
  BY <1>1, Invariance, PTL DEF Spec, FinalRowsStick

----------------------------------------------------------------------------
(* One request at a time: the refinement of RoundPromise, and what it says *)
(* of the log and of the counters.                                         *)

On(x, r) == Committed(x) /\ x.round = r
PhaseOf(row) == [status |-> row.status, opState |-> row.opState]
Counted(x, m, mission) ==
  [mission EXCEPT !.total = @ + (IF CountsTotal(x, m) THEN 1 ELSE 0),
                  !.completed = @ + (IF CountsCompleted(x, m) THEN 1 ELSE 0)]

RoundView(x, r, row) == PhaseOf(IF On(x, r) THEN Served(x, row) ELSE row)
JournalView(x, r, log) == IF On(x, r) THEN log \o Owed(x) ELSE log

(* The mapping, when there is one slot s for requests. *)
LEMMA SlotView ==
  ASSUME NEW s, Requests = {s}
  PROVE  /\ \A r : Commits(r) = IF On(req[s], r) THEN {s} ELSE {}
         /\ \A m : /\ {q \in Requests : CountsTotal(req[q], m)}
                        = IF CountsTotal(req[s], m) THEN {s} ELSE {}
                   /\ {q \in Requests : CountsCompleted(req[q], m)}
                        = IF CountsCompleted(req[s], m) THEN {s} ELSE {}
BY DEF Commits, On

LEMMA CardinalityOfOne ==
  ASSUME NEW s
  PROVE  Cardinality({s}) = 1 /\ Cardinality({}) = 0
BY FS_Singleton, FS_EmptySet

LEMMA View ==
  ASSUME NEW s, Requests = {s}
  PROVE  /\ PromisedRounds = [r \in Rounds |-> RoundView(req[s], r, rounds[r])]
         /\ PromisedJournals = [r \in Rounds |-> JournalView(req[s], r, journal[r])]
         /\ PromisedMissions = [m \in Missions |-> Counted(req[s], m, missions[m])]
<1>1. \A r : (CHOOSE q \in {s} : TRUE) = s
  OBVIOUS
<1>2. \A r : PromisedRound(r) =
          PhaseOf(IF On(req[s], r) THEN Served(req[s], rounds[r]) ELSE rounds[r])
  BY <1>1, SlotView DEF PromisedRound, PhaseOf
<1>3. \A r : PromisedJournal(r) = IF On(req[s], r) THEN journal[r] \o Owed(req[s]) ELSE journal[r]
  BY <1>1, SlotView DEF PromisedJournal
<1>4. \A m : PromisedMission(m) = Counted(req[s], m, missions[m])
  BY SlotView, CardinalityOfOne DEF PromisedMission, Counted
<1>5. QED
  BY <1>2, <1>3, <1>4 DEF RoundView, JournalView, PromisedRounds, PromisedJournals, PromisedMissions

LEMMA ViewNext ==
  ASSUME NEW s, Requests = {s}
  PROVE  /\ PromisedRounds' = [r \in Rounds |-> RoundView(req'[s], r, rounds'[r])]
         /\ PromisedJournals' = [r \in Rounds |-> JournalView(req'[s], r, journal'[r])]
         /\ PromisedMissions' = [m \in Missions |-> Counted(req'[s], m, missions'[m])]
<1>1. (Requests = {s} => 
         /\ PromisedRounds = [r \in Rounds |-> RoundView(req[s], r, rounds[r])]
         /\ PromisedJournals = [r \in Rounds |-> JournalView(req[s], r, journal[r])]
         /\ PromisedMissions = [m \in Missions |-> Counted(req[s], m, missions[m])])'
  BY View, PTL
<1>2. QED
  BY <1>1
-----------------------------------------------------------------------------
LEMMA CommittedIsRound ==
  ASSUME NEW x \in RoundRequest \cup MissionRequest \cup {Idle}, Committed(x)
  PROVE  x \in RoundRequest
BY DEF MissionRequest, Idle, Committed

LEMMA CountedFields ==
  ASSUME NEW x, NEW m, NEW mission \in MissionRow
  PROVE  /\ Counted(x, m, mission) \in MissionRow
         /\ Counted(x, m, mission).status = mission.status
         /\ Counted(x, m, mission).total = mission.total + (IF CountsTotal(x, m) THEN 1 ELSE 0)
         /\ Counted(x, m, mission).completed
              = mission.completed + (IF CountsCompleted(x, m) THEN 1 ELSE 0)
<1>1. mission.total \in Nat /\ mission.completed \in Nat /\ mission.status \in MissionStatus
  BY DEF MissionRow
<1> DEFINE total == mission.total + (IF CountsTotal(x, m) THEN 1 ELSE 0)
           completed == mission.completed + (IF CountsCompleted(x, m) THEN 1 ELSE 0)
<1>2. total \in Nat /\ completed \in Nat
  BY <1>1
<1>3. Counted(x, m, mission) = [mission EXCEPT !.total = total, !.completed = completed]
  BY DEF Counted
<1> HIDE DEF total, completed
<1>4. /\ [mission EXCEPT !.total = total, !.completed = completed] \in MissionRow
      /\ [mission EXCEPT !.total = total, !.completed = completed].status = mission.status
      /\ [mission EXCEPT !.total = total, !.completed = completed].total = total
      /\ [mission EXCEPT !.total = total, !.completed = completed].completed = completed
  BY <1>1, <1>2 DEF MissionRow
<1>5. QED
  BY <1>3, <1>4 DEF total, completed

(* Missions with the same fields are the same. *)
LEMMA SameMission ==
  ASSUME NEW a \in MissionRow, NEW b \in MissionRow,
         a.status = b.status, a.total = b.total, a.completed = b.completed
  PROVE  a = b
BY DEF MissionRow

LEMMA IdleViews ==
  ASSUME NEW x, ~Committed(x)
  PROVE  /\ \A r, row : RoundView(x, r, row) = PhaseOf(row)
         /\ \A r, log : JournalView(x, r, log) = log
         /\ \A m : \A mission \in MissionRow : Counted(x, m, mission) = mission
<1>1. ASSUME NEW m, NEW mission \in MissionRow
      PROVE  Counted(x, m, mission) = mission
  <2>1. ~CountsTotal(x, m) /\ ~CountsCompleted(x, m)
    BY DEF CountsTotal, CountsCompleted
  <2>2. mission.total \in Nat /\ mission.completed \in Nat
    BY DEF MissionRow
  <2>3. QED
    BY <2>1, <2>2, CountedFields, SameMission
<1>2. QED
  BY <1>1 DEF RoundView, JournalView, On

LEMMA OwedTyped ==
  ASSUME NEW x \in RoundRequest
  PROVE  Owed(x) \in Seq(Event)
<1>1. Transition(x.machine.opState, x.to) \in Event /\ Lifecycle(x.op) \in Event
  BY DEF RoundRequest, Row, Event, Transition, Lifecycle
<1> DEFINE t == Transition(x.machine.opState, x.to)
           l == Lifecycle(x.op)
<1> HIDE DEF t, l
<1>2. t \in Event /\ l \in Event
  BY <1>1 DEF t, l
<1>3. <<t>> \in Seq(Event) /\ <<l>> \in Seq(Event) /\ <<>> \in Seq(Event)
  BY <1>2
<1>4. <<t>> \o <<l>> \in Seq(Event)
  BY <1>3, ConcatProperties
<1>5. QED
  BY <1>3, <1>4 DEF Owed, t, l

(* The promised variables have the types of the tables.                    *)
LEMMA ViewTyped ==
  ASSUME NEW s, Requests = {s}, TypeOK
  PROVE  /\ PromisedMissions \in [Missions -> MissionRow]
         /\ PromisedJournals \in [Rounds -> Seq(Event)]
         /\ PromisedRounds = [r \in Rounds |-> PromisedRounds[r]]
         /\ \A r \in Rounds : PromisedRounds[r].opState \in OperationalState
<1>1. req[s] \in RoundRequest \cup MissionRequest \cup {Idle}
  BY DEF TypeOK
<1>2. \A m \in Missions : Counted(req[s], m, missions[m]) \in MissionRow
  BY CountedFields DEF TypeOK
<1>3. \A r \in Rounds : JournalView(req[s], r, journal[r]) \in Seq(Event)
  <2> TAKE r \in Rounds
  <2>1. journal[r] \in Seq(Event)
    BY DEF TypeOK
  <2>2. On(req[s], r) => Owed(req[s]) \in Seq(Event)
    BY <1>1, CommittedIsRound, OwedTyped DEF On
  <2>3. QED
    BY <2>1, <2>2, ConcatProperties DEF JournalView
<1>4. \A r \in Rounds : RoundView(req[s], r, rounds[r]).opState \in OperationalState
  <2> TAKE r \in Rounds
  <2>1. rounds[r] \in Row
    BY DEF TypeOK
  <2>2. On(req[s], r) => Edited(req[s].op, req[s].entity, req[s].to) \in Row
    BY <1>1, CommittedIsRound, EditedTyped DEF On, RoundRequest
  <2>3. (IF On(req[s], r) THEN Served(req[s], rounds[r]) ELSE rounds[r]) \in Row
    BY <2>1, <2>2 DEF Served
  <2>4. \A row \in Row : PhaseOf(row).opState \in OperationalState
    BY DEF PhaseOf, Row
  <2>5. QED
    BY <2>3, <2>4 DEF RoundView
<1>5. QED
  BY <1>2, <1>3, <1>4, View

(* A step that changes nothing of what is promised.                        *)
LEMMA Unchanged ==
  ASSUME NEW s, Requests = {s}, assigned' = assigned,
         \A r \in Rounds : RoundView(req'[s], r, rounds'[r]) = RoundView(req[s], r, rounds[r]),
         \A r \in Rounds : JournalView(req'[s], r, journal'[r]) = JournalView(req[s], r, journal[r]),
         \A m \in Missions : Counted(req'[s], m, missions'[m]) = Counted(req[s], m, missions[m])
  PROVE  UNCHANGED Promise!vars
BY View, ViewNext DEF Promise!vars

(* A step that moves the promised round r.                                 *)
LEMMA MoveStep ==
  ASSUME NEW s, Requests = {s}, NEW r \in Rounds, NEW status, NEW opState, NEW news,
         assigned' = assigned, r \in assigned \/ Settled(RoundView(req[s], r, rounds[r])),
         \A t \in Rounds \ {r} :
           /\ RoundView(req'[s], t, rounds'[t]) = RoundView(req[s], t, rounds[t])
           /\ JournalView(req'[s], t, journal'[t]) = JournalView(req[s], t, journal[t]),
         RoundView(req'[s], r, rounds'[r]) = [status |-> status, opState |-> opState],
         JournalView(req'[s], r, journal'[r]) = JournalView(req[s], r, journal[r])
           \o (IF RoundView(req[s], r, rounds[r]).opState = opState THEN <<>>
               ELSE <<Transition(RoundView(req[s], r, rounds[r]).opState, opState)>>) \o news
  PROVE  Promise!Move(r, status, opState, news)
<1>1. PromisedRounds' = [PromisedRounds EXCEPT ![r] = Promise!Phase(status, opState)]
  BY View, ViewNext DEF Promise!Phase
<1> DEFINE from == RoundView(req[s], r, rounds[r]).opState
           events == IF from = opState THEN <<>> ELSE <<Transition(from, opState)>>
           log == JournalView(req[s], r, journal[r])
<1> HIDE DEF from, events, log
<1>2. PromisedRounds[r].opState = from /\ PromisedJournals[r] = log
  BY View DEF from, log
<1>3. events = IF PromisedRounds[r].opState = opState THEN <<>>
               ELSE <<Promise!Moved(PromisedRounds[r].opState, opState)>>
  BY <1>2 DEF events, Promise!Moved, Transition
<1>4. PromisedJournals' = [PromisedJournals EXCEPT ![r] = log \o events \o news]
  BY View, ViewNext DEF from, events, log
<1>5. r \in assigned \/ Promise!Settled(PromisedRounds[r])
  BY View DEF Settled
<1>6. QED
  BY <1>1, <1>2, <1>3, <1>4, <1>5 DEF Promise!Move
-----------------------------------------------------------------------------
(***************************************************************************)
(* One step of the service: the request in flight is served as RequestServed *)
(* says, and the promise sees one of its own steps or nothing.             *)
(***************************************************************************)
LEMMA IdleServed == ~Committed(Idle) /\ \A rows, ms, direct : RequestServed(Idle, rows, ms, direct)
<1>1. Idle \notin RoundRequest /\ Idle \notin MissionRequest
  BY DEF Idle, RoundRequest, MissionRequest, Step
<1>2. QED
  BY <1>1 DEF Idle, Committed, RequestServed

LEMMA UpdateUncommitted ==
  ASSUME NEW x \in MissionRequest
  PROVE  ~Committed(x) /\ x \notin RoundRequest
BY DEF MissionRequest, Committed, RoundRequest, RoundOps, Transitioning

(* The slot that Continue leaves behind. *)
LEMMA Continued ==
  ASSUME TypeOK, NEW s \in Requests, NEW local, Continue(s, local)
  PROVE  req'[s] = IF After(req[s].op, req[s].pc) = "done" THEN Idle
                   ELSE [local EXCEPT !.pc = After(req[s].op, req[s].pc)]
BY DEF Continue, TypeOK

(* Nothing saved before, nothing saved by this step. *)
LEMMA QuietStep ==
  ASSUME NEW s, Requests = {s}, TypeOK, ~Committed(req[s]), ~Committed(req'[s]),
         rounds' = rounds, missions' = missions, journal' = journal, assigned' = assigned
  PROVE  UNCHANGED Promise!vars
<1>1. \A m \in Missions : missions[m] \in MissionRow
  BY DEF TypeOK
<1>2. QED
  BY <1>1, IdleViews, Unchanged

(* With no save under way the promise shows the tables. *)
LEMMA UncommittedView ==
  ASSUME NEW s, Requests = {s}, TypeOK, ~Committed(req[s])
  PROVE  /\ \A r \in Rounds : PromisedRounds[r] = PhaseOf(rounds[r])
         /\ \A r \in Rounds : PromisedJournals[r] = journal[r]
         /\ \A m \in Missions : PromisedMissions[m] = missions[m]
<1>1. \A m \in Missions : missions[m] \in MissionRow
  BY DEF TypeOK
<1>2. QED
  BY <1>1, IdleViews, View

LEMMA SettledRow ==
  ASSUME NEW row
  PROVE  Settled(PhaseOf(row)) <=> Settled(row)
BY DEF PhaseOf, Settled, Promise!Settled, Promise!Engaged

LEMMA UpdateLoaded ==
  ASSUME NEW s, Requests = {s}, IInv, SerialInv,
         NEW m \in Missions, NEW status \in MissionStatus \ {"none"}, LoadMissionUpdate(s, m, status)
  PROVE  RequestServed(req'[s], rounds', missions', assigned') /\ UNCHANGED Promise!vars
<1> DEFINE y == [op |-> "updateMission", pc |-> "saveMission", mission |-> m,
                 copy |-> [missions[m] EXCEPT !.status = status]]
<1>1. /\ req'[s] = y /\ rounds' = rounds /\ missions' = missions /\ journal' = journal
      /\ assigned' = assigned
      /\ missions[m].status \notin {"none", "archived"} /\ req[s].pc = "idle"
  BY DEF LoadMissionUpdate, Accept, At, IInv, TypeOK
<1>2. missions[m] \in MissionRow
  BY DEF IInv, TypeOK
<1>3. [missions[m] EXCEPT !.status = status] \in MissionRow /\ [missions[m] EXCEPT !.status = status].status = status
  BY <1>2 DEF MissionRow
<1>4. y \in MissionRequest
  BY <1>3 DEF MissionRequest
<1>5. RequestServed(y, rounds, missions, assigned)
  BY <1>1, <1>3, <1>4, UpdateUncommitted DEF RequestServed
<1>6. ~Committed(req[s])
  BY <1>1 DEF Committed
<1>7. ~Committed(y)
  BY <1>4, UpdateUncommitted
<1> HIDE DEF y
<1>8. QED
  BY <1>1, <1>5, <1>6, <1>7, QuietStep DEF IInv

LEMMA ScheduleLoaded ==
  ASSUME NEW s, Requests = {s}, IInv, SerialInv, NEW r \in Rounds, LoadSchedule(s, r)
  PROVE  RequestServed(req'[s], rounds', missions', assigned') /\ UNCHANGED Promise!vars
<1> DEFINE m == MissionOf[r]
           y == [op |-> "schedule", pc |-> "insertRound", round |-> r, entity |-> NewRow,
                 machine |-> NoRow, to |-> "MONITORING", mission |-> m,
                 copy |-> [missions[m] EXCEPT !.total = @ + 1]]
<1>1. /\ req'[s] = y /\ rounds' = rounds /\ missions' = missions /\ journal' = journal
      /\ assigned' = assigned
      /\ missions[m].status \notin {"none", "archived", "completed"} /\ req[s].pc = "idle"
      /\ rounds[r].status = "none"
  BY DEF LoadSchedule, Accept, At, IInv, TypeOK
<1>2. missions[m] \in MissionRow
  BY ConstantsAssumption DEF IInv, TypeOK
<1>3. missions[m].status \in {"draft", "active"}
  BY <1>1, <1>2 DEF MissionRow, MissionStatus
<1>4. Schedules(y, rounds[r], missions[m])
  BY <1>1, <1>3 DEF Schedules
<1>5. Path["schedule"] = {"insertRound", "emitTransition", "emitEvent", "saveMission"}
  BY DEF Path
<1>6. y \notin MissionRequest /\ ~Committed(y)
  BY DEF MissionRequest, Committed
<1>7. RequestServed(y, rounds, missions, assigned)
  BY <1>4, <1>5, <1>6 DEF RequestServed
<1>8. ~Committed(req[s])
  BY <1>1 DEF Committed
<1> HIDE DEF y
<1>9. QED
  BY <1>1, <1>6, <1>7, <1>8, QuietStep DEF IInv

LEMMA PathValues ==
  LET moves == {"resolve", "saveState", "saveRound", "emitTransition", "emitEvent"} IN
  /\ Path["start"] = moves /\ Path["abandon"] = moves /\ Path["fail"] = moves
  /\ Path["resume"] = moves /\ Path["complete"] = moves \cup {"loadMission", "saveMission"}
  /\ Path["escalate"] = {"resolve", "saveState", "emitTransition"}
  /\ Path["pause"] = {"saveRound", "emitEvent"}
  /\ Path["touch"] = {"saveRound"} /\ Path["assign"] = {"saveRound"}
  /\ Path["schedule"] = {"insertRound", "emitTransition", "emitEvent", "saveMission"}
BY DEF Path

LEMMA RoundLoaded ==
  ASSUME NEW s, Requests = {s}, IInv, SerialInv,
         NEW r \in Rounds, NEW op \in Ops, LoadRound(s, op, r)
  PROVE  RequestServed(req'[s], rounds', missions', assigned') /\ UNCHANGED Promise!vars
<1>0. PICK to \in IF op = "assign" THEN OperationalState ELSE {rounds[r].opState} :
        Accept(s, [op |-> op, pc |-> FirstStep(op, rounds[r]), round |-> r, entity |-> rounds[r],
                   machine |-> rounds[r], to |-> to, mission |-> MissionOf[r],
                   copy |-> NoMission])
  BY DEF LoadRound
<1> DEFINE y == [op |-> op, pc |-> FirstStep(op, rounds[r]), round |-> r, entity |-> rounds[r],
                 machine |-> rounds[r], to |-> to, mission |-> MissionOf[r],
                 copy |-> NoMission]
<1>1. /\ req'[s] = y /\ rounds' = rounds /\ missions' = missions /\ journal' = journal
      /\ assigned' = assigned
      /\ op \in RoundOps \ {"schedule"} /\ Accepts(op, rounds[r]) /\ req[s].pc = "idle"
  BY <1>0, ConstantsAssumption DEF LoadRound, Accept, At, IInv, TypeOK, Operations
<1>2. /\ y.op = op /\ y.pc = FirstStep(op, rounds[r]) /\ y.round = r /\ y.entity = rounds[r]
      /\ y.machine = rounds[r] /\ y.mission = MissionOf[r]
      /\ op # "assign" => y.to = rounds[r].opState
  BY <1>0
<1> HIDE DEF y
<1>3. ~Committed(req[s])
  BY <1>1 DEF Committed
<1>4. r \notin assigned => Settled(rounds[r])
  BY <1>3, UncommittedView, SettledRow DEF SerialInv, PhasesSettled, IInv
<1>5. /\ y.pc \in {"resolve", "saveRound"}
      /\ y.pc = "saveRound" <=> op \in {"pause", "touch", "assign"} \/ Unmoved(y)
  BY <1>1, <1>2 DEF FirstStep, Unmoved, Direct
<1>6. ~Committed(y)
  BY <1>2, <1>5 DEF Committed, Unmoved, Transitioning
<1>7. WorksAlone(y, rounds[r], assigned)
  <2>1. /\ y.machine = y.entity /\ Accepts(y.op, y.entity)
        /\ y.round \notin assigned => Settled(y.entity)
        /\ TableHolds(y, rounds[r])
    BY <1>1, <1>2, <1>4, <1>6 DEF TableHolds
  <2>2. Unmoved(y) => y.pc = "saveRound" /\ y.to = y.entity.opState
    BY <1>2, <1>5 DEF Unmoved
  <2>3. ~Unmoved(y) /\ y.op \in Transitioning => y.pc = "resolve"
    BY <1>2, <1>5 DEF Transitioning
  <2>4. QED
    BY <2>1, <2>2, <2>3 DEF WorksAlone
<1>8. y.pc \in Path[op]
  BY <1>1, <1>2, <1>5, PathValues DEF RoundOps, Transitioning, Unmoved, Direct
<1>9. y \notin MissionRequest
  BY <1>1, <1>2 DEF MissionRequest, RoundOps, Transitioning
<1>10. RequestServed(y, rounds, missions, assigned)
  BY <1>1, <1>2, <1>5, <1>7, <1>8, <1>9 DEF RequestServed
<1>11. QED
  BY <1>1, <1>3, <1>6, <1>10, QuietStep DEF IInv

(* What is known of a request about a round, but its insertion.            *)
LEMMA RequestKnown ==
  ASSUME NEW s, Requests = {s}, IInv, SerialInv, req[s] \in RoundRequest
  PROVE  /\ req[s].round \in Rounds /\ req[s].mission = MissionOf[req[s].round]
         /\ req[s].mission \in Missions /\ req[s].pc \in Path[req[s].op] /\ req[s].op \in RoundOps
         /\ req[s].entity \in Row /\ rounds[req[s].round] \in Row
         /\ missions[req[s].mission] \in MissionRow /\ RequestOK(req[s])
         /\ req[s].to \in OperationalState
         /\ req[s].op = "schedule" =>
              Schedules(req[s], rounds[req[s].round], missions[req[s].mission])
         /\ req[s].op # "schedule" => WorksAlone(req[s], rounds[req[s].round], assigned)
<1>1. RequestServed(req[s], rounds, missions, assigned)
  BY DEF SerialInv
<1>2. QED
  BY <1>1 DEF IInv, TypeOK, RoundRequest, RequestServed, RequestFits

LEMMA StateResolved ==
  ASSUME NEW s, Requests = {s}, IInv, SerialInv, Resolve(s)
  PROVE  RequestServed(req'[s], rounds', missions', assigned') /\ UNCHANGED Promise!vars
<1> DEFINE x == req[s]
           row == rounds[x.round]
<1>1. /\ x \in RoundRequest /\ x.pc = "resolve" /\ rounds' = rounds /\ missions' = missions
      /\ journal' = journal /\ assigned' = assigned
  BY AtStep DEF IInv, Resolve, At, Step, history
<1>2. /\ ~Committed(x) /\ RequestOK(x) /\ x.op \in Transitioning /\ WorksAlone(x, row, assigned)
      /\ x.mission = MissionOf[x.round]
  BY <1>1, RequestKnown DEF Committed, RequestOK, Transitioning
<1>3. CASE req' = [req EXCEPT ![s] = Idle]
  <2>1. req'[s] = Idle
    BY <1>3 DEF IInv, TypeOK
  <2>2. QED
    BY <1>1, <1>2, <2>1, IdleServed, QuietStep DEF IInv
<1>4. ASSUME NEW to \in resolveTransition(row.opState, Trigger[x.op]),
             Continue(s, [x EXCEPT !.machine = row, !.to = to])
      PROVE  RequestServed(req'[s], rounds', missions', assigned') /\ UNCHANGED Promise!vars
  <2> DEFINE y == [[x EXCEPT !.machine = row, !.to = to] EXCEPT !.pc = "saveState"]
  <2>1. req'[s] = y
    BY <1>1, <1>4, Continued DEF IInv, After
  <2>2. /\ y.op = x.op /\ y.pc = "saveState" /\ y.round = x.round /\ y.entity = x.entity
        /\ y.machine = row /\ y.to = to /\ y.mission = x.mission
    BY <1>1 DEF RoundRequest
  <2> HIDE DEF y
  <2>3. ~Committed(y)
    BY <2>2 DEF Committed
  <2>4. row = x.entity /\ ~Unmoved(x) /\ ~Unmoved(y)
    BY <1>1, <1>2, <2>2 DEF WorksAlone, TableHolds, Unmoved
  <2>5. WorksAlone(y, row, assigned)
    BY <1>2, <2>2, <2>3, <2>4 DEF WorksAlone, TableHolds
  <2>6. y.pc \in Path[y.op] /\ y \notin MissionRequest
    BY <1>2, <2>2, PathValues DEF Transitioning, MissionRequest
  <2>7. RequestServed(y, rounds, missions, assigned)
    BY <1>2, <2>2, <2>5, <2>6 DEF RequestServed, Transitioning
  <2>8. QED
    BY <1>1, <1>2, <2>1, <2>3, <2>7, QuietStep DEF IInv
<1>5. QED
  BY <1>1, <1>3, <1>4, NoForce DEF Resolve
-----------------------------------------------------------------------------
(* From where to where an operation moves its round, once its trigger has  *)
(* been resolved.                                                          *)
LEMMA Movement ==
  ASSUME NEW x \in RoundRequest, NEW row, RequestOK(x), WorksAlone(x, row, assigned),
         x.op \in Transitioning, ~Unmoved(x), x.pc # "resolve"
  PROVE  LET was == x.entity.status
             from == x.entity.opState
             unfinished == was \in {"scheduled", "active", "paused"}
             engaged == from \in {"OPERATIONAL", "CRITICAL"}
         IN
         /\ x.to \in OperationalState /\ x.to # from
         /\ x.op = "start" =>
              was \in {"scheduled", "paused"} /\ from = "MONITORING" /\ x.to = "OPERATIONAL"
         /\ x.op = "escalate" => was # "none" /\ from = "OPERATIONAL" /\ x.to = "CRITICAL"
         /\ x.op = "resume" => was = "paused" /\ from = "CRITICAL" /\ x.to = "OPERATIONAL"
         /\ x.op = "complete" => unfinished /\ engaged /\ x.to = "EXTRACTION"
         /\ x.op = "fail" => unfinished /\ engaged /\ x.to = "RECOVERY"
         /\ x.op = "abandon" => /\ unfinished
                                /\ \/ from = "MONITORING" /\ x.to = "DORMANT"
                                   \/ engaged /\ x.to = "SILENCE"
<1> DEFINE was == x.entity.status
           from == x.entity.opState
<1>1. x.to \in resolveTransition(from, Trigger[x.op])
  BY DEF WorksAlone
<1>2. x.to \in OperationalState /\ x.to # from
  BY <1>1, ResolvedStates, NoSelfLoop
<1>3. /\ x.op = "start" => from = "MONITORING" /\ x.to = "OPERATIONAL"
      /\ x.op = "escalate" => from = "OPERATIONAL" /\ x.to = "CRITICAL"
      /\ x.op = "resume" => from = "CRITICAL" /\ x.to = "OPERATIONAL"
      /\ x.op = "complete" => from \in {"OPERATIONAL", "CRITICAL"} /\ x.to = "EXTRACTION"
      /\ x.op = "fail" => from \in {"OPERATIONAL", "CRITICAL"} /\ x.to = "RECOVERY"
      /\ x.op = "abandon" => \/ from = "MONITORING" /\ x.to = "DORMANT"
                             \/ from \in {"OPERATIONAL", "CRITICAL"} /\ x.to = "SILENCE"
  BY <1>1, LifecycleTriggers, TriggerValues
<1>4. /\ was \in RoundStatus /\ was # "none"
      /\ x.op # "escalate" => was \notin FinalStatus
  BY DEF RequestOK, RoundRequest, Row, Transitioning
<1>5. x.op # "escalate" => was \in {"scheduled", "active", "paused"}
  BY <1>4 DEF RoundStatus, FinalStatus
<1>6. /\ x.op = "start" => was \in {"scheduled", "paused"}
      /\ x.op = "resume" => was = "paused"
  <2>1. Accepts(x.op, x.entity) /\ x.entity.status = was
    BY DEF WorksAlone
  <2>2. QED
    BY <2>1 DEF Accepts
<1>7. QED
  BY <1>2, <1>3, <1>4, <1>5, <1>6

LEMMA LifecycleTyped ==
  ASSUME NEW x \in RoundRequest
  PROVE  Transition(x.machine.opState, x.to) \in Event /\ Lifecycle(x.op) \in Event
BY DEF RoundRequest, Row, Event, Transition, Lifecycle

LEMMA Associate ==
  ASSUME NEW a \in Seq(Event), NEW b \in Seq(Event), NEW c \in Seq(Event)
  PROVE  a \o (b \o c) = (a \o b) \o c
<1> DEFINE E == Event
<1> HIDE DEF E
<1>1. a \in Seq(E) /\ b \in Seq(E) /\ c \in Seq(E)
  BY DEF E
<1>2. QED
  BY <1>1, ConcatAssociative

(* The first save of request x: the promised round moves.                  *)
LEMMA CommitView ==
  ASSUME NEW s, Requests = {s}, IInv, req[s] \in RoundRequest, ~Committed(req[s]),
         NEW y, req'[s] = y, Committed(y), y.round = req[s].round,
         NEW row, rounds' = [rounds EXCEPT ![req[s].round] = row], journal' = journal,
         assigned' = assigned,
         req[s].round \in assigned \/ Settled(PhaseOf(rounds[req[s].round])),
         NEW status, NEW opState \in OperationalState, NEW news \in Seq(Event),
         PhaseOf(Served(y, row)) = [status |-> status, opState |-> opState],
         Owed(y) = (IF rounds[req[s].round].opState = opState THEN <<>>
                    ELSE <<Transition(rounds[req[s].round].opState, opState)>>) \o news
  PROVE  Promise!Move(req[s].round, status, opState, news)
<1> DEFINE r == req[s].round
           from == rounds[r].opState
           events == IF from = opState THEN <<>> ELSE <<Transition(from, opState)>>
<1>1. /\ r \in Rounds /\ journal[r] \in Seq(Event) /\ from \in OperationalState
      /\ rounds \in [Rounds -> Row]
  BY DEF IInv, TypeOK, RoundRequest, Row
<1>2. events \in Seq(Event)
  <2>1. Transition(from, opState) \in Event
    BY <1>1 DEF Transition, Event
  <2>2. QED
    BY <2>1
<1>3. JournalView(req[s], r, journal[r]) = journal[r] /\ RoundView(req[s], r, rounds[r]) = PhaseOf(rounds[r])
  BY IdleViews
<1>4. RoundView(req[s], r, rounds[r]).opState = from
  <2>1. PhaseOf(rounds[r]).opState = from
    BY DEF PhaseOf
  <2>2. QED
    BY <1>3, <2>1
<1>5. JournalView(y, r, journal'[r]) = journal[r] \o Owed(y)
  BY DEF JournalView, On
<1> HIDE DEF events
<1>6. journal[r] \o (events \o news) = (journal[r] \o events) \o news
  BY <1>1, <1>2, Associate
<1>7. JournalView(y, r, journal'[r]) = (JournalView(req[s], r, journal[r]) \o events) \o news
  BY <1>3, <1>5, <1>6 DEF events
<1>8. RoundView(y, r, rounds'[r]) = [status |-> status, opState |-> opState]
  <2>1. rounds'[r] = row
    BY <1>1
  <2>2. RoundView(y, r, row) = PhaseOf(Served(y, row))
    BY DEF RoundView, On
  <2>3. QED
    BY <2>1, <2>2
<1>9. \A t \in Rounds \ {r} :
        /\ RoundView(y, t, rounds'[t]) = RoundView(req[s], t, rounds[t])
        /\ JournalView(y, t, journal'[t]) = JournalView(req[s], t, journal[t])
  BY <1>1 DEF RoundView, JournalView, On
<1>10. r \in assigned \/ Settled(RoundView(req[s], r, rounds[r]))
  BY <1>3
<1> HIDE DEF r, from
<1>11. r \in Rounds /\ req'[s] = y
  BY <1>1
<1>12. Promise!Move(r, status, opState, news)
  BY <1>4, <1>7, <1>8, <1>9, <1>10, <1>11, MoveStep DEF events
<1>13. QED
  BY <1>12 DEF r

(* Missions whose pending counts stay are promised as they were.           *)
LEMMA MissionsKept ==
  ASSUME NEW s, Requests = {s}, missions' = missions,
         \A m : CountsTotal(req'[s], m) <=> CountsTotal(req[s], m),
         \A m : CountsCompleted(req'[s], m) <=> CountsCompleted(req[s], m)
  PROVE  PromisedMissions' = PromisedMissions
<1>1. \A m : Counted(req'[s], m, missions[m]) = Counted(req[s], m, missions[m])
  BY DEF Counted
<1>2. QED
  BY <1>1, View, ViewNext

(* A mission that gets one round, or one completed round, more.            *)
LEMMA TotalCounted ==
  ASSUME NEW s, Requests = {s}, TypeOK, missions' = missions, ~Committed(req[s]),
         NEW m0 \in Missions, \A m : CountsTotal(req'[s], m) <=> m = m0,
         \A m : ~CountsCompleted(req'[s], m)
  PROVE  PromisedMissions' = [PromisedMissions EXCEPT ![m0].total = @ + 1]
<1>1. \A m \in Missions : Counted(req'[s], m, missions[m])
                            = IF m = m0 THEN [missions[m] EXCEPT !.total = @ + 1] ELSE missions[m]
  <2> TAKE m \in Missions
  <2>1. missions[m] \in MissionRow /\ missions[m].completed \in Nat /\ missions[m].total \in Nat
    BY DEF TypeOK, MissionRow
  <2> DEFINE c == Counted(req'[s], m, missions[m])
             b == [missions[m] EXCEPT !.total = @ + 1]
  <2>2. /\ b \in MissionRow /\ b.status = missions[m].status
        /\ b.total = missions[m].total + 1 /\ b.completed = missions[m].completed
    BY <2>1, BumpedTyped DEF MissionRow
  <2>3. /\ c \in MissionRow /\ c.status = missions[m].status
        /\ c.total = missions[m].total + (IF m = m0 THEN 1 ELSE 0)
        /\ c.completed = missions[m].completed + 0
    BY <2>1, CountedFields
  <2> HIDE DEF c, b
  <2>4. CASE m = m0
    <3>1. c = b
      BY <2>1, <2>2, <2>3, <2>4, SameMission
    <3>2. QED
      BY <2>4, <3>1 DEF b, c
  <2>5. CASE m # m0
    <3>1. c = missions[m]
      BY <2>1, <2>3, <2>5, SameMission
    <3>2. QED
      BY <2>5, <3>1 DEF c
  <2>6. QED
    BY <2>4, <2>5
<1>2. \A m \in Missions : PromisedMissions[m] = missions[m]
  BY UncommittedView
<1>3. PromisedMissions' = [m \in Missions |->
        IF m = m0 THEN [missions[m] EXCEPT !.total = @ + 1] ELSE missions[m]]
  <2>1. PromisedMissions' = [m \in Missions |-> Counted(req'[s], m, missions[m])]
    BY ViewNext
  <2>2. QED
    BY <1>1, <2>1
<1>4. PromisedMissions = [m \in Missions |-> missions[m]]
  BY <1>2, View
<1>5. QED
  BY <1>3, <1>4

LEMMA CompletedCounted ==
  ASSUME NEW s, Requests = {s}, TypeOK, missions' = missions, ~Committed(req[s]),
         NEW m0 \in Missions, \A m : CountsCompleted(req'[s], m) <=> m = m0,
         \A m : ~CountsTotal(req'[s], m)
  PROVE  PromisedMissions' = [PromisedMissions EXCEPT ![m0].completed = @ + 1]
<1>1. \A m \in Missions : Counted(req'[s], m, missions[m])
                            = IF m = m0 THEN [missions[m] EXCEPT !.completed = @ + 1] ELSE missions[m]
  <2> TAKE m \in Missions
  <2>1. missions[m] \in MissionRow /\ missions[m].completed \in Nat /\ missions[m].total \in Nat
    BY DEF TypeOK, MissionRow
  <2> DEFINE c == Counted(req'[s], m, missions[m])
             b == [missions[m] EXCEPT !.completed = @ + 1]
  <2>2. /\ b \in MissionRow /\ b.status = missions[m].status
        /\ b.completed = missions[m].completed + 1 /\ b.total = missions[m].total
    BY <2>1, BumpedTyped DEF MissionRow
  <2>3. /\ c \in MissionRow /\ c.status = missions[m].status
        /\ c.completed = missions[m].completed + (IF m = m0 THEN 1 ELSE 0)
        /\ c.total = missions[m].total + 0
    BY <2>1, CountedFields
  <2> HIDE DEF c, b
  <2>4. CASE m = m0
    <3>1. c = b
      BY <2>1, <2>2, <2>3, <2>4, SameMission
    <3>2. QED
      BY <2>4, <3>1 DEF b, c
  <2>5. CASE m # m0
    <3>1. c = missions[m]
      BY <2>1, <2>3, <2>5, SameMission
    <3>2. QED
      BY <2>5, <3>1 DEF c
  <2>6. QED
    BY <2>4, <2>5
<1>2. \A m \in Missions : PromisedMissions[m] = missions[m]
  BY UncommittedView
<1>3. PromisedMissions' = [m \in Missions |->
        IF m = m0 THEN [missions[m] EXCEPT !.completed = @ + 1] ELSE missions[m]]
  <2>1. PromisedMissions' = [m \in Missions |-> Counted(req'[s], m, missions[m])]
    BY ViewNext
  <2>2. QED
    BY <1>1, <2>1
<1>4. PromisedMissions = [m \in Missions |-> missions[m]]
  BY <1>2, View
<1>5. QED
  BY <1>3, <1>4

(* transitionState's save: start, escalate, complete, fail and abandon     *)
(* take effect, and resume on a CRITICAL round.                            *)
LEMMA StateSaved ==
  ASSUME NEW s, Requests = {s}, IInv, SerialInv, SaveState(s)
  PROVE  RequestServed(req'[s], rounds', missions', assigned') /\ Promise!Next
<1> DEFINE x == req[s]
           r == x.round
           e == x.entity
           row == [e EXCEPT !.opState = x.to]
           y == [x EXCEPT !.pc = IF x.op \in {"resume", "escalate"} THEN "emitTransition"
                                 ELSE "saveRound"]
<1>1. /\ x \in RoundRequest /\ x.pc = "saveState" /\ missions' = missions /\ journal' = journal
      /\ assigned' = assigned
  BY AtStep DEF IInv, SaveState, At, Step, history
<1>2. /\ r \in Rounds /\ x.mission = MissionOf[r] /\ x.mission \in Missions /\ e \in Row
      /\ RequestOK(x) /\ x.op \in Transitioning /\ WorksAlone(x, rounds[r], assigned)
  BY <1>1, RequestKnown DEF RequestOK, Transitioning
<1>3. /\ ~Committed(x) /\ x.machine = e /\ rounds[r] = e /\ ~Unmoved(x)
  BY <1>1, <1>2 DEF Committed, WorksAlone, TableHolds
<1>4. rounds' = [rounds EXCEPT ![r] = row]
  BY <1>3 DEF SaveState
<1>5. req'[s] = y
  BY <1>1, Continued DEF SaveState, IInv, After
<1>6. /\ y.op = x.op /\ y.round = r /\ y.entity = e /\ y.machine = e /\ y.to = x.to
      /\ y.mission = x.mission
      /\ y.pc = IF x.op \in {"resume", "escalate"} THEN "emitTransition" ELSE "saveRound"
  BY <1>1, <1>3 DEF RoundRequest
<1> HIDE DEF y
<1>7. Committed(y) /\ HalfSaved(y) /\ ~Unmoved(y)
  BY <1>2, <1>3, <1>6 DEF Committed, HalfSaved, Unmoved
<1>8. WorksAlone(y, row, assigned)
  BY <1>1, <1>2, <1>3, <1>6, <1>7 DEF WorksAlone, TableHolds
<1>9. y.pc \in Path[y.op] /\ y \notin MissionRequest
  BY <1>2, <1>6, PathValues DEF Transitioning, MissionRequest
<1>10. RequestServed(y, rounds', missions', assigned')
  <2>1. rounds'[r] = row
    BY <1>2, <1>4 DEF IInv, TypeOK
  <2>2. QED
    BY <1>1, <1>2, <1>6, <1>8, <1>9, <2>1 DEF RequestServed, Transitioning
<1>11. /\ x.to \in OperationalState /\ x.to # e.opState
       /\ PromisedRounds[r] = PhaseOf(e)
       /\ r \in assigned \/ Settled(PhaseOf(rounds[r]))
  <2>1. x.to \in OperationalState /\ x.to # e.opState
    BY <1>1, <1>2, <1>3, Movement
  <2>2. PromisedRounds[r] = PhaseOf(e)
    BY <1>2, <1>3, UncommittedView DEF IInv
  <2>3. r \in assigned \/ Settled(PhaseOf(rounds[r]))
    BY <1>2, <1>3, SettledRow DEF WorksAlone
  <2>4. QED
    BY <2>1, <2>2, <2>3
<1>12. ASSUME NEW status, NEW news \in Seq(Event),
              PhaseOf(Served(y, row)) = [status |-> status, opState |-> x.to],
              Owed(y) = <<Transition(e.opState, x.to)>> \o news
       PROVE  Promise!Move(r, status, x.to, news)
  BY <1>1, <1>2, <1>3, <1>4, <1>5, <1>6, <1>7, <1>11, <1>12, CommitView
<1>13. <<Lifecycle(x.op)>> \in Seq(Event) /\ <<>> \in Seq(Event)
  BY <1>1, LifecycleTyped
<1>14. x.op # "complete" => UNCHANGED PromisedMissions
  BY <1>1, <1>2, <1>3, <1>5, <1>6, MissionsKept DEF CountsTotal, CountsCompleted, Transitioning
<1>15. ASSUME NEW status, x.op # "escalate",
              PhaseOf(Edited(x.op, e, x.to)) = [status |-> status, opState |-> x.to]
       PROVE  Promise!Move(r, status, x.to, <<Promise!Announced(x.op)>>)
  <2>1. Served(y, row) = Edited(x.op, e, x.to)
    BY <1>6, <1>15 DEF Served
  <2>2. Owed(y) = <<Transition(e.opState, x.to)>> \o <<Lifecycle(x.op)>>
    BY <1>2, <1>6, <1>15 DEF Owed, Transitioning
  <2>3. Lifecycle(x.op) = Promise!Announced(x.op)
    BY DEF Lifecycle, Promise!Announced
  <2>4. QED
    BY <1>12, <1>13, <1>15, <2>1, <2>2, <2>3
<1>16. CASE x.op = "start"
  <2>1. /\ e.status \in {"scheduled", "paused"} /\ e.opState = "MONITORING"
        /\ x.to = "OPERATIONAL"
    BY <1>1, <1>2, <1>3, <1>16, Movement
  <2>2. PhaseOf(Edited(x.op, e, x.to)) = [status |-> "active", opState |-> x.to]
    BY <1>2, <1>16 DEF PhaseOf, Edited, Row
  <2>3. Promise!Move(r, "active", "OPERATIONAL", <<Promise!Announced("start")>>)
    BY <1>15, <1>16, <2>1, <2>2
  <2>4. Promise!Start(r)
    BY <1>11, <1>14, <1>16, <2>1, <2>3
       DEF Promise!Start, Promise!In, PhaseOf
  <2>5. QED
    BY <1>2, <1>5, <1>10, <2>4 DEF Promise!Next
<1>17. CASE x.op = "resume"
  <2>1. e.status = "paused" /\ e.opState = "CRITICAL" /\ x.to = "OPERATIONAL"
    BY <1>1, <1>2, <1>3, <1>17, Movement
  <2>2. PhaseOf(Edited(x.op, e, x.to)) = [status |-> "active", opState |-> x.to]
    BY <1>2, <1>17 DEF PhaseOf, Edited, Row
  <2>3. Promise!Move(r, "active", "OPERATIONAL", <<Promise!Announced("resume")>>)
    BY <1>15, <1>17, <2>1, <2>2
  <2>4. Promise!Resume(r)
    BY <1>11, <1>14, <1>17, <2>1, <2>3
       DEF Promise!Resume, PhaseOf
  <2>5. QED
    BY <1>2, <1>5, <1>10, <2>4 DEF Promise!Next
<1>18. CASE x.op = "fail"
  <2>1. /\ e.status \in {"scheduled", "active", "paused"}
        /\ e.opState \in {"OPERATIONAL", "CRITICAL"} /\ x.to = "RECOVERY"
    BY <1>1, <1>2, <1>3, <1>18, Movement
  <2>2. PhaseOf(Edited(x.op, e, x.to)) = [status |-> "failed", opState |-> x.to]
    BY <1>2, <1>18 DEF PhaseOf, Edited, Row
  <2>3. Promise!Move(r, "failed", "RECOVERY", <<Promise!Announced("fail")>>)
    BY <1>15, <1>18, <2>1, <2>2
  <2>4. Promise!Fail(r)
    BY <1>11, <1>14, <1>18, <2>1, <2>3
       DEF Promise!Fail, Promise!In, Promise!Unfinished, Promise!Engaged, PhaseOf
  <2>5. QED
    BY <1>2, <1>5, <1>10, <2>4 DEF Promise!Next
<1>19. CASE x.op = "complete"
  <2>1. /\ e.status \in {"scheduled", "active", "paused"}
        /\ e.opState \in {"OPERATIONAL", "CRITICAL"} /\ x.to = "EXTRACTION"
    BY <1>1, <1>2, <1>3, <1>19, Movement
  <2>2. PhaseOf(Edited(x.op, e, x.to)) = [status |-> "completed", opState |-> x.to]
    BY <1>2, <1>19 DEF PhaseOf, Edited, Row
  <2>3. Promise!Move(r, "completed", "EXTRACTION", <<Promise!Announced("complete")>>)
    BY <1>15, <1>19, <2>1, <2>2
  <2>4. /\ \A m : CountsCompleted(y, m) <=> m = x.mission
        /\ \A m : ~CountsTotal(y, m)
    BY <1>6, <1>7, <1>19 DEF CountsCompleted, CountsTotal
  <2>5. PromisedMissions' = [PromisedMissions EXCEPT ![MissionOf[r]].completed = @ + 1]
    BY <1>1, <1>2, <1>3, <1>5, <2>4, CompletedCounted DEF IInv
  <2>6. Promise!Complete(r)
    BY <1>11, <2>1, <2>3, <2>5
       DEF Promise!Complete, Promise!In, Promise!Unfinished, Promise!Engaged, PhaseOf
  <2>7. QED
    BY <1>2, <1>5, <1>10, <2>6 DEF Promise!Next
<1>20. CASE x.op = "abandon"
  <2>1. PhaseOf(Edited(x.op, e, x.to)) = [status |-> "abandoned", opState |-> x.to]
    BY <1>2, <1>20 DEF PhaseOf, Edited, Row
  <2>2. Promise!Move(r, "abandoned", x.to, <<Promise!Announced("abandon")>>)
    BY <1>15, <1>20, <2>1
  <2>3. /\ e.status \in {"scheduled", "active", "paused"}
        /\ \/ e.opState = "MONITORING" /\ x.to = "DORMANT"
           \/ e.opState \in {"OPERATIONAL", "CRITICAL"} /\ x.to = "SILENCE"
    BY <1>1, <1>2, <1>3, <1>20, Movement
  <2>4. Promise!Abandon(r)
    BY <1>11, <1>14, <1>20, <2>2, <2>3
       DEF Promise!Abandon, Promise!In, Promise!Unfinished, Promise!Engaged, PhaseOf
  <2>5. QED
    BY <1>2, <1>5, <1>10, <2>4 DEF Promise!Next
<1>21. CASE x.op = "escalate"
  <2>1. e.status # "none" /\ e.opState = "OPERATIONAL" /\ x.to = "CRITICAL"
    BY <1>1, <1>2, <1>3, <1>21, Movement
  <2>2. PhaseOf(Served(y, row)) = [status |-> e.status, opState |-> x.to]
    BY <1>2, <1>6, <1>21 DEF PhaseOf, Served, Row
  <2>3. Owed(y) = <<Transition(e.opState, x.to)>>
    BY <1>6, <1>21 DEF Owed
  <2>4. <<Transition(e.opState, x.to)>> \in Seq(Event)
    BY <1>1, <1>3, LifecycleTyped
  <2>5. <<Transition(e.opState, x.to)>> = <<Transition(e.opState, x.to)>> \o <<>>
    BY <2>4, ConcatEmptySeq
  <2>6. Promise!Move(r, e.status, "CRITICAL", <<>>)
    BY <1>12, <1>13, <2>1, <2>2, <2>3, <2>5
  <2>7. Promise!Escalate(r)
    BY <1>11, <1>14, <1>21, <2>1, <2>6 DEF Promise!Escalate, PhaseOf
  <2>8. QED
    BY <1>2, <1>5, <1>10, <2>7 DEF Promise!Next
<1>22. QED
  BY <1>2, <1>16, <1>17, <1>18, <1>19, <1>20, <1>21 DEF Transitioning

(* What a request still owes the log, by operation and next call.          *)
LEMMA OwedValues ==
  ASSUME NEW x
  PROVE  LET moved == <<Transition(x.machine.opState, x.to)>>
             news == <<Lifecycle(x.op)>>
         IN
         /\ x.pc = "emitEvent" => Owed(x) = news
         /\ x.op = "schedule" /\ x.pc = "saveMission" => Owed(x) = <<>>
         /\ x.op = "schedule" /\ x.pc = "emitTransition" => Owed(x) = moved \o news
         /\ x.op = "escalate" /\ x.pc = "emitTransition" => Owed(x) = moved
         /\ x.op = "resume" /\ x.pc = "saveRound" => Owed(x) = news
         /\ x.op = "resume" /\ x.pc = "emitTransition" => Owed(x) = moved \o news
         /\ /\ x.op \in {"start", "complete", "abandon", "fail"}
            /\ x.pc \in {"saveRound", "loadMission", "saveMission", "emitTransition"}
            => Owed(x) = moved \o news
<1>1. x.pc = "emitEvent" => Owed(x) = <<Lifecycle(x.op)>>
  BY DEF Owed
<1>2. x.op = "schedule" /\ x.pc = "saveMission" => Owed(x) = <<>>
  BY DEF Owed
<1>3. x.op = "schedule" /\ x.pc = "emitTransition"
        => Owed(x) = <<Transition(x.machine.opState, x.to)>> \o <<Lifecycle(x.op)>>
  BY DEF Owed
<1>4. x.op = "escalate" /\ x.pc = "emitTransition"
        => Owed(x) = <<Transition(x.machine.opState, x.to)>>
  BY DEF Owed
<1>5. x.op = "resume" /\ x.pc = "saveRound" => Owed(x) = <<Lifecycle(x.op)>>
  BY DEF Owed
<1>6. x.op = "resume" /\ x.pc = "emitTransition"
        => Owed(x) = <<Transition(x.machine.opState, x.to)>> \o <<Lifecycle(x.op)>>
  BY DEF Owed
<1>7. ASSUME x.op \in {"start", "complete", "abandon", "fail"},
             x.pc \in {"saveRound", "loadMission", "saveMission", "emitTransition"}
      PROVE  Owed(x) = <<Transition(x.machine.opState, x.to)>> \o <<Lifecycle(x.op)>>
  BY <1>7 DEF Owed
<1>8. QED
  BY <1>1, <1>2, <1>3, <1>4, <1>5, <1>6, <1>7, Zenon

(* A later step of a request that has taken effect: the promise does not   *)
(* see it when the same events are owed and the same counts.               *)
LEMMA InnerView ==
  ASSUME NEW s, Requests = {s}, TypeOK, assigned' = assigned, req[s] \in RoundRequest, Committed(req[s]),
         NEW y, req'[s] = y, Committed(y), y.round = req[s].round, y.op = req[s].op,
         y.entity = req[s].entity, y.to = req[s].to, y.mission = req[s].mission,
         \A r \in Rounds : r # req[s].round => rounds'[r] = rounds[r] /\ journal'[r] = journal[r],
         req[s].op = "escalate" => rounds' = rounds,
         journal'[req[s].round] \o Owed(y) = journal[req[s].round] \o Owed(req[s]),
         \A m \in Missions : Counted(y, m, missions'[m]) = Counted(req[s], m, missions[m])
  PROVE  UNCHANGED Promise!vars
<1> DEFINE x == req[s]
           r0 == x.round
<1>1. \A r \in Rounds : RoundView(y, r, rounds'[r]) = RoundView(x, r, rounds[r])
  BY DEF RoundView, On, Served
<1>2. \A r \in Rounds : JournalView(y, r, journal'[r]) = JournalView(x, r, journal[r])
  BY DEF JournalView, On
<1>3. QED
  BY <1>1, <1>2, Unchanged

(* The save of the loaded entity: pause, and resume on a round that is not *)
(* CRITICAL, take effect; of touch the promise sees nothing.               *)
LEMMA RoundSaved ==
  ASSUME NEW s, Requests = {s}, IInv, SerialInv, SaveRound(s)
  PROVE  RequestServed(req'[s], rounds', missions', assigned') /\ [Promise!Next]_Promise!vars
<1> DEFINE x == req[s]
           r == x.round
           e == x.entity
           row == Edited(x.op, e, x.to)
           pc == CASE x.op = "complete" -> "loadMission"
                   [] x.op \in {"pause", "resume"} -> "emitEvent"
                   [] OTHER -> "emitTransition"
           y == [x EXCEPT !.pc = pc]
<1>1. /\ x \in RoundRequest /\ x.pc = "saveRound" /\ missions' = missions /\ journal' = journal
      /\ rounds' = [rounds EXCEPT ![r] = row]
      /\ assigned' = assigned \cup IF x.op = "assign" THEN {r} ELSE {}
  BY AtStep DEF IInv, SaveRound, At, Step
<1>2. /\ r \in Rounds /\ x.mission = MissionOf[r] /\ x.mission \in Missions /\ e \in Row
      /\ RequestOK(x) /\ x.op \in RoundOps \ {"schedule", "escalate"} /\ WorksAlone(x, rounds[r], assigned)
      /\ rounds \in [Rounds -> Row] /\ x.to \in OperationalState
  BY <1>1, RequestKnown DEF RequestOK, IInv, TypeOK
<1>3. x.machine = e
  BY <1>2 DEF WorksAlone
<1>4. CASE x.op = "touch"
  <2>1. ~Committed(x) /\ row = e
    BY <1>1, <1>4 DEF Committed, Edited, Transitioning
  <2>2. rounds' = rounds
    BY <1>1, <1>2, <2>1 DEF WorksAlone, TableHolds
  <2>3. req'[s] = Idle
    BY <1>1, <1>4, Continued DEF SaveRound, IInv, After
  <2>4. assigned' = assigned
    BY <1>1, <1>4
  <2>5. QED
    BY <1>1, <2>1, <2>2, <2>3, <2>4, IdleServed, QuietStep DEF IInv
<1>5. CASE x.op \notin {"touch", "assign"}
  <2>0. assigned' = assigned
    BY <1>1, <1>5
  <2>1. req'[s] = y
    <3>1. After(x.op, "saveRound") = pc /\ pc # "done"
      BY <1>2, <1>5 DEF After
    <3>2. QED
      BY <1>1, <3>1, Continued DEF SaveRound, IInv
  <2>2. /\ y.op = x.op /\ y.round = r /\ y.entity = e /\ y.machine = e /\ y.to = x.to
        /\ y.mission = x.mission /\ y.pc = pc
    BY <1>1, <1>3 DEF RoundRequest
  <2>3. pc \in {"loadMission", "emitEvent", "emitTransition"} /\ y \notin MissionRequest
    BY <1>2, <2>2 DEF MissionRequest, RoundOps, Transitioning
  <2> HIDE DEF y
  <2>4. Committed(y) /\ ~HalfSaved(y) /\ (Unmoved(y) <=> Unmoved(x))
    BY <1>2, <2>2, <2>3 DEF Committed, HalfSaved, Unmoved, RoundOps, Transitioning
  <2>5. WorksAlone(y, row, assigned)
    BY <1>1, <1>2, <1>3, <2>2, <2>4 DEF WorksAlone, TableHolds, Unmoved
  <2>6. y.pc \in Path[y.op]
    BY <1>2, <1>5, <2>2, PathValues DEF RoundOps, Transitioning
  <2>7. RequestServed(y, rounds', missions', assigned')
    <3>1. rounds'[r] = row
      BY <1>1, <1>2
    <3>2. QED
      BY <1>2, <2>0, <2>2, <2>3, <2>5, <2>6, <3>1 DEF RequestServed
  <2>8. CASE Committed(x)
    <3>1. Owed(y) = Owed(x)
      <4>1. x.op \in {"start", "complete", "abandon", "fail", "resume"}
        BY <1>1, <1>2, <2>8 DEF Committed, RoundOps, Transitioning
      <4>2. Lifecycle(y.op) = Lifecycle(x.op)
            /\ Transition(y.machine.opState, y.to) = Transition(x.machine.opState, x.to)
        BY <1>3, <2>2
      <4>3. CASE x.op = "resume"
        <5>1. y.pc = "emitEvent"
          BY <2>2, <4>3
        <5>2. QED
          BY <1>1, <4>2, <4>3, <5>1, OwedValues
      <4>4. CASE x.op # "resume"
        <5>1. y.pc \in {"loadMission", "emitTransition"}
          BY <2>2, <4>1, <4>4
        <5>2. QED
          BY <1>1, <2>2, <4>1, <4>2, <4>4, <5>1, OwedValues
      <4>5. QED
        BY <4>3, <4>4
    <3>2. \A m : /\ CountsTotal(y, m) <=> CountsTotal(x, m)
                 /\ CountsCompleted(y, m) <=> CountsCompleted(x, m)
      BY <1>1, <1>2, <2>2, <2>4, <2>8 DEF CountsTotal, CountsCompleted
    <3>3. \A m \in Missions : Counted(y, m, missions'[m]) = Counted(x, m, missions[m])
      BY <1>1, <3>2 DEF Counted
    <3>4. \A t \in Rounds : t # r => rounds'[t] = rounds[t]
      BY <1>1, <1>2
    <3>5. UNCHANGED Promise!vars
      <4>1. TypeOK /\ x.op # "escalate"
        BY <1>2 DEF IInv
      <4>2. journal'[r] \o Owed(y) = journal[r] \o Owed(x)
        BY <1>1, <3>1
      <4>3. \A t \in Rounds : t # r => rounds'[t] = rounds[t] /\ journal'[t] = journal[t]
        BY <1>1, <3>4
      <4>4. QED
        BY <1>1, <2>0, <2>1, <2>2, <2>4, <2>8, <3>3, <4>1, <4>2, <4>3, InnerView
    <3>6. QED
      BY <2>1, <2>7, <3>5
  <2>9. CASE ~Committed(x)
    <3>1. x.op = "pause" \/ Unmoved(x)
      BY <1>1, <1>2, <1>5, <2>9 DEF Committed, Unmoved, RoundOps, Transitioning
    <3>2. /\ rounds[r] = e /\ PromisedRounds[r] = PhaseOf(e)
          /\ r \in assigned \/ Settled(PhaseOf(rounds[r]))
      BY <1>2, <2>9, SettledRow, UncommittedView DEF WorksAlone, TableHolds, IInv
    <3>3. /\ x.op = "pause" => e.status = "active"
          /\ x.op = "resume" => e.status = "paused" /\ e.opState # "CRITICAL" /\ x.to = e.opState
      BY <1>2, <3>1 DEF RequestOK, WorksAlone, Unmoved
    <3>4. x.op \in {"pause", "resume"}
      BY <3>1 DEF Unmoved
    <3>5. PhaseOf(Served(y, row)) =
            [status |-> IF x.op = "pause" THEN "paused" ELSE "active", opState |-> e.opState]
      BY <1>2, <2>2, <3>3, <3>4 DEF PhaseOf, Served, Edited, Row
    <3>6. <<Lifecycle(x.op)>> \in Seq(Event) /\ e.opState \in OperationalState
      BY <1>1, <1>2, LifecycleTyped DEF Row
    <3>7. Owed(y) = <<>> \o <<Lifecycle(x.op)>>
      <4>1. <<Lifecycle(x.op)>> = <<>> \o <<Lifecycle(x.op)>>
        BY <3>6, ConcatEmptySeq
      <4>2. Owed(y) = <<Lifecycle(x.op)>>
        <5>1. y.pc = "emitEvent"
          BY <2>2, <3>4
        <5>2. QED
          BY <2>2, <5>1, OwedValues
      <4>3. QED
        BY <4>1, <4>2
    <3>8. Promise!Move(r, IF x.op = "pause" THEN "paused" ELSE "active", e.opState,
                       <<Lifecycle(x.op)>>)
      BY <1>1, <2>0, <2>1, <2>2, <2>4, <2>9, <3>2, <3>5, <3>6, <3>7, CommitView
    <3>9. UNCHANGED PromisedMissions
      BY <1>1, <2>1, <2>2, <2>9, <3>4, MissionsKept DEF CountsTotal, CountsCompleted
    <3>10. Lifecycle("pause") = Promise!Announced("pause") /\ Lifecycle("resume") = Promise!Announced("resume")
      BY DEF Lifecycle, Promise!Announced
    <3>11. CASE x.op = "pause"
      <4>1. Promise!Pause(r)
        BY <3>2, <3>3, <3>8, <3>9, <3>10, <3>11 DEF Promise!Pause, PhaseOf
      <4>2. QED
        BY <1>2, <2>1, <2>7, <4>1 DEF Promise!Next
    <3>12. CASE x.op = "resume"
      <4>1. Promise!Resume(r)
        BY <3>2, <3>3, <3>8, <3>9, <3>10, <3>12 DEF Promise!Resume, PhaseOf
      <4>2. QED
        BY <1>2, <2>1, <2>7, <4>1 DEF Promise!Next
    <3>13. QED
      BY <3>4, <3>11, <3>12
  <2>10. QED
    BY <2>8, <2>9
<1>6. CASE x.op = "assign"
  <2>1. /\ ~Committed(x) /\ rounds[r] = e /\ row = [e EXCEPT !.opState = x.to]
        /\ e.status # "none"
    BY <1>1, <1>2, <1>6 DEF Committed, Edited, Transitioning, WorksAlone, TableHolds, RequestOK
  <2>2. req'[s] = Idle
    BY <1>1, <1>6, Continued DEF SaveRound, IInv, After
  <2>3. /\ PromisedRounds = [t \in Rounds |-> PhaseOf(rounds[t])]
        /\ PromisedRounds' = [t \in Rounds |-> PhaseOf(rounds'[t])]
    BY <2>1, <2>2, IdleServed, IdleViews, View, ViewNext
  <2>4. PromisedRounds' = [PromisedRounds EXCEPT ![r].opState = x.to]
    <3>1. PhaseOf(rounds'[r]) = [PhaseOf(rounds[r]) EXCEPT !.opState = x.to]
      BY <1>1, <1>2, <2>1 DEF PhaseOf, Row
    <3>2. \A t \in Rounds : t # r => rounds'[t] = rounds[t]
      BY <1>1, <1>2
    <3>3. QED
      BY <1>2, <2>3, <3>1, <3>2
  <2>5. UNCHANGED PromisedMissions
    BY <1>1, <2>1, <2>2, IdleServed, MissionsKept DEF CountsTotal, CountsCompleted
  <2>6. UNCHANGED PromisedJournals
    BY <1>1, <2>1, <2>2, IdleServed, IdleViews, View, ViewNext
  <2>7. PromisedRounds[r].status # "none"
    BY <1>2, <2>1, <2>3 DEF PhaseOf
  <2>8. assigned' = assigned \cup {r}
    BY <1>1, <1>6
  <2>9. Promise!Assign(r)
    BY <1>2, <2>4, <2>5, <2>6, <2>7, <2>8 DEF Promise!Assign, OperationalState
  <2>10. QED
    BY <1>2, <2>2, <2>9, IdleServed DEF Promise!Next
<1>7. QED
  BY <1>4, <1>5, <1>6

(* The first save of a schedule.                                           *)
LEMMA RoundInserted ==
  ASSUME NEW s, Requests = {s}, IInv, SerialInv, InsertRound(s)
  PROVE  RequestServed(req'[s], rounds', missions', assigned') /\ Promise!Next
<1> DEFINE x == req[s]
           r == x.round
           m == x.mission
           y == [x EXCEPT !.pc = "emitTransition"]
<1>1. /\ x \in RoundRequest /\ x.pc = "insertRound" /\ missions' = missions /\ journal' = journal
      /\ rounds' = [rounds EXCEPT ![r] = x.entity] /\ assigned' = assigned
  BY AtStep DEF IInv, InsertRound, At, Step, history
<1>2. /\ r \in Rounds /\ m = MissionOf[r] /\ m \in Missions /\ x.op = "schedule"
      /\ rounds \in [Rounds -> Row] /\ Schedules(x, rounds[r], missions[m])
  BY <1>1, RequestKnown DEF RequestOK, IInv, TypeOK
<1>3. /\ x.machine = NoRow /\ x.entity = NewRow /\ x.to = "MONITORING"
      /\ missions[m].status \in {"draft", "active"} /\ x.copy = [missions[m] EXCEPT !.total = @ + 1]
      /\ rounds[r].status = "none" /\ ~Committed(x)
  BY <1>1, <1>2 DEF Schedules, Committed
<1>4. /\ \A t \in Rounds : PromisedRounds[t] = PhaseOf(rounds[t])
      /\ \A n \in Missions : PromisedMissions[n] = missions[n]
  BY <1>3, UncommittedView DEF IInv
<1>5. rounds[r].opState = "DORMANT" /\ Settled(PhaseOf(rounds[r]))
  <2>1. r \notin assigned
    BY <1>3 DEF SerialInv
  <2>2. Settled(PhaseOf(rounds[r]))
    BY <1>2, <1>4, <2>1 DEF SerialInv, PhasesSettled
  <2>3. QED
    BY <1>3, <2>2 DEF Settled, Promise!Settled, PhaseOf
<1>6. req'[s] = y
  BY <1>1, <1>2, Continued DEF InsertRound, IInv, After
<1>7. /\ y.op = "schedule" /\ y.round = r /\ y.entity = NewRow /\ y.machine = NoRow
      /\ y.to = "MONITORING" /\ y.mission = m /\ y.copy = x.copy /\ y.pc = "emitTransition"
  BY <1>1, <1>2, <1>3 DEF RoundRequest
<1> HIDE DEF y
<1>8. Committed(y) /\ y \notin MissionRequest /\ y.pc \in Path[y.op]
  BY <1>7, PathValues DEF Committed, MissionRequest
<1>9. RequestServed(y, rounds', missions', assigned')
  BY <1>1, <1>2, <1>3, <1>7, <1>8 DEF RequestServed, Schedules
<1>10. PhaseOf(Served(y, NewRow)) = [status |-> "scheduled", opState |-> "MONITORING"]
  BY <1>7 DEF PhaseOf, Served, Edited, NewRow, NoRow
<1>11. Owed(y) = <<Transition(rounds[r].opState, "MONITORING")>> \o <<Lifecycle("schedule")>>
  <2>1. y.machine.opState = rounds[r].opState
    BY <1>5, <1>7 DEF NoRow
  <2>2. QED
    BY <1>7, <2>1, OwedValues
<1>12. <<Lifecycle("schedule")>> \in Seq(Event) /\ "MONITORING" \in OperationalState
  BY <1>1, <1>2, LifecycleTyped DEF OperationalState
<1>13. Promise!Move(r, "scheduled", "MONITORING", <<Lifecycle("schedule")>>)
  <2>1. rounds' = [rounds EXCEPT ![r] = NewRow] /\ rounds[r].opState # "MONITORING"
    BY <1>1, <1>3, <1>5
  <2>2. Owed(y) = (IF rounds[r].opState = "MONITORING" THEN <<>>
                   ELSE <<Transition(rounds[r].opState, "MONITORING")>>) \o <<Lifecycle("schedule")>>
    BY <1>11, <2>1
  <2>3. req'[s] = y /\ Committed(y) /\ y.round = r /\ journal' = journal /\ ~Committed(x)
    BY <1>1, <1>3, <1>6, <1>7, <1>8
  <2>4. QED
    <3>1. /\ req[s] \in RoundRequest /\ ~Committed(req[s]) /\ y.round = req[s].round
          /\ rounds' = [rounds EXCEPT ![req[s].round] = NewRow]
          /\ assigned' = assigned /\ Settled(PhaseOf(rounds[req[s].round]))
      BY <1>1, <1>5, <2>1, <2>3
    <3>2. Owed(y) = (IF rounds[req[s].round].opState = "MONITORING" THEN <<>>
                     ELSE <<Transition(rounds[req[s].round].opState, "MONITORING")>>)
                    \o <<Lifecycle("schedule")>>
      BY <2>2
    <3>3. Promise!Move(req[s].round, "scheduled", "MONITORING", <<Lifecycle("schedule")>>)
      BY <1>10, <1>12, <2>3, <3>1, <3>2, CommitView
    <3>4. QED
      BY <3>3
<1>14. PromisedMissions' = [PromisedMissions EXCEPT ![m].total = @ + 1]
  <2>1. (\A n : CountsTotal(y, n) <=> n = m) /\ (\A n : ~CountsCompleted(y, n))
    BY <1>7, <1>8 DEF CountsTotal, CountsCompleted
  <2>2. QED
    BY <1>1, <1>2, <1>3, <1>6, <2>1, TotalCounted DEF IInv
<1>15. Promise!Schedule(r)
  <2>1. Lifecycle("schedule") = Promise!Announced("schedule")
    BY DEF Lifecycle, Promise!Announced
  <2>2. PromisedRounds[r].status = "none" /\ PromisedRounds[r].opState = "DORMANT"
    <3>1. PromisedRounds[r] = PhaseOf(rounds[r]) /\ rounds[r].status = "none"
      BY <1>2, <1>3, <1>4
    <3>2. QED
      BY <1>5, <3>1 DEF PhaseOf
  <2>3. PromisedMissions[MissionOf[r]].status \in {"draft", "active"}
    BY <1>2, <1>3, <1>4
  <2>4. QED
    BY <1>2, <1>13, <1>14, <2>1, <2>2, <2>3 DEF Promise!Schedule, Promise!In
<1>16. QED
  BY <1>2, <1>6, <1>9, <1>15 DEF Promise!Next

(* completeRound loads its mission.                                        *)
LEMMA MissionLoaded ==
  ASSUME NEW s, Requests = {s}, IInv, SerialInv, LoadMission(s)
  PROVE  RequestServed(req'[s], rounds', missions', assigned') /\ UNCHANGED Promise!vars
<1> DEFINE x == req[s]
           r == x.round
           m == x.mission
           copy == [missions[m] EXCEPT !.completed = @ + 1]
           y == [[x EXCEPT !.copy = copy] EXCEPT !.pc = "saveMission"]
<1>1. /\ x \in RoundRequest /\ x.pc = "loadMission" /\ missions' = missions /\ journal' = journal
      /\ rounds' = rounds /\ assigned' = assigned
  BY AtStep DEF IInv, LoadMission, At, Step, history
<1>2. /\ r \in Rounds /\ m = MissionOf[r] /\ x.pc \in Path[x.op] /\ x.op \in RoundOps
      /\ x.op # "schedule" => WorksAlone(x, rounds[r], assigned)
  BY <1>1, RequestKnown
<1>3. x.op = "complete"
  BY <1>1, <1>2, PathValues DEF RoundOps, Transitioning
<1>4. req'[s] = y
  BY <1>1, Continued DEF LoadMission, IInv, After
<1>5. /\ y.op = "complete" /\ y.round = r /\ y.entity = x.entity /\ y.machine = x.machine
      /\ y.to = x.to /\ y.mission = m /\ y.copy = copy /\ y.pc = "saveMission"
  BY <1>1, <1>3 DEF RoundRequest
<1> HIDE DEF y
<1>6. Committed(x) /\ Committed(y) /\ ~HalfSaved(x) /\ ~HalfSaved(y) /\ y \notin MissionRequest
  BY <1>1, <1>3, <1>5 DEF Committed, HalfSaved, MissionRequest
<1>7. WorksAlone(y, rounds[r], assigned)
  BY <1>1, <1>2, <1>3, <1>5, <1>6 DEF WorksAlone, TableHolds, Unmoved
<1>8. RequestServed(y, rounds', missions', assigned')
  BY <1>1, <1>2, <1>5, <1>6, <1>7, PathValues DEF RequestServed
<1>9. Owed(y) = Owed(x)
  <2>1. /\ Lifecycle(y.op) = Lifecycle(x.op)
        /\ Transition(y.machine.opState, y.to) = Transition(x.machine.opState, x.to)
    BY <1>3, <1>5
  <2>2. Owed(x) = <<Transition(x.machine.opState, x.to)>> \o <<Lifecycle(x.op)>>
    BY <1>1, <1>3, OwedValues
  <2>3. Owed(y) = <<Transition(y.machine.opState, y.to)>> \o <<Lifecycle(y.op)>>
    BY <1>5, OwedValues
  <2>4. QED
    BY <2>1, <2>2, <2>3
<1>10. \A n \in Missions : Counted(y, n, missions'[n]) = Counted(x, n, missions[n])
  <2>1. \A n : /\ CountsTotal(y, n) <=> CountsTotal(x, n)
               /\ CountsCompleted(y, n) <=> CountsCompleted(x, n)
    BY <1>1, <1>3, <1>5, <1>6 DEF CountsTotal, CountsCompleted
  <2>2. QED
    BY <1>1, <2>1 DEF Counted
<1>11. UNCHANGED Promise!vars
  BY <1>1, <1>3, <1>4, <1>5, <1>6, <1>9, <1>10, InnerView DEF IInv
<1>12. QED
  BY <1>4, <1>8, <1>11

(* The last step of a request that has taken effect.                       *)
LEMMA LeaveView ==
  ASSUME NEW s, Requests = {s}, IInv, SerialInv, req[s] \in RoundRequest, Committed(req[s]),
         ~HalfSaved(req[s]) \/ req[s].op = "escalate",
         req'[s] = Idle, rounds' = rounds, assigned' = assigned,
         \A r \in Rounds : r # req[s].round => journal'[r] = journal[r],
         journal'[req[s].round] = journal[req[s].round] \o Owed(req[s]),
         \A m \in Missions : Counted(Idle, m, missions'[m]) = Counted(req[s], m, missions[m])
  PROVE  RequestServed(req'[s], rounds', missions', assigned') /\ UNCHANGED Promise!vars
<1> DEFINE x == req[s]
<1>1. x.op = "escalate" \/ rounds[x.round] = Edited(x.op, x.entity, x.to)
  <2>1. CASE x.op = "schedule"
    <3>1. rounds[x.round] = NewRow /\ x.entity = NewRow
      BY <2>1, RequestKnown DEF Schedules, Committed
    <3>2. QED
      BY <2>1, <3>1 DEF Edited
  <2>2. CASE x.op # "schedule"
    BY <2>2, RequestKnown DEF WorksAlone, TableHolds
  <2>3. QED
    BY <2>1, <2>2
<1>2. Served(x, rounds[x.round]) = rounds[x.round]
  BY <1>1 DEF Served
<1>3. \A r \in Rounds : RoundView(Idle, r, rounds'[r]) = RoundView(x, r, rounds[r])
  BY <1>2, IdleServed, IdleViews DEF RoundView, On
<1>4. \A r \in Rounds : JournalView(Idle, r, journal'[r]) = JournalView(x, r, journal[r])
  BY IdleServed, IdleViews DEF JournalView, On
<1>5. QED
  BY <1>3, <1>4, IdleServed, Unchanged

(* A mission saved with what was pending for it counts as it did.          *)
LEMMA CountSaved ==
  ASSUME NEW x, NEW y, NEW m, NEW mission \in MissionRow, NEW saved \in MissionRow,
         saved.status = mission.status,
         saved.total = mission.total + (IF CountsTotal(x, m) THEN 1 ELSE 0),
         saved.completed = mission.completed + (IF CountsCompleted(x, m) THEN 1 ELSE 0),
         ~CountsTotal(y, m), ~CountsCompleted(y, m)
  PROVE  Counted(y, m, saved) = Counted(x, m, mission)
<1>1. saved.total \in Nat /\ saved.completed \in Nat
  BY DEF MissionRow
<1> DEFINE a == Counted(y, m, saved)
           b == Counted(x, m, mission)
<1>2. a \in MissionRow /\ a.status = saved.status /\ a.total = saved.total /\ a.completed = saved.completed
  BY <1>1, CountedFields
<1>3. b \in MissionRow /\ b.status = saved.status /\ b.total = saved.total /\ b.completed = saved.completed
  BY CountedFields
<1> HIDE DEF a, b
<1>4. a = b
  BY <1>2, <1>3, SameMission
<1>5. QED
  BY <1>4 DEF a, b

(* The save of a mission: update takes effect; complete and schedule save  *)
(* what the promise has counted already.                                   *)
LEMMA MissionSaved ==
  ASSUME NEW s, Requests = {s}, IInv, SerialInv, SaveMission(s)
  PROVE  RequestServed(req'[s], rounds', missions', assigned') /\ [Promise!Next]_Promise!vars
<1> DEFINE x == req[s]
           r == x.round
           m == x.mission
<1>1. /\ x \in RoundRequest \cup MissionRequest /\ x.pc = "saveMission"
      /\ rounds' = rounds /\ journal' = journal /\ missions' = [missions EXCEPT ![m] = x.copy]
      /\ assigned' = assigned
      /\ missions \in [Missions -> MissionRow] /\ m \in Missions /\ x.copy \in MissionRow
  <2>1. x \in RoundRequest \cup MissionRequest /\ x.pc = "saveMission"
    BY DEF IInv, TypeOK, SaveMission, At, Idle
  <2>2. QED
    BY <2>1 DEF IInv, TypeOK, SaveMission, RoundRequest, MissionRequest, history
<1>2. \A n \in Missions : n # m => missions'[n] = missions[n]
  BY <1>1
<1>3. missions'[m] = x.copy /\ missions[m] \in MissionRow
  BY <1>1
<1>4. CASE x \in MissionRequest
  <2>1. /\ missions[m].status \notin {"none", "archived"} /\ x.copy.status # "none"
        /\ x.copy = [missions[m] EXCEPT !.status = x.copy.status]
    BY <1>4 DEF SerialInv, RequestServed
  <2>2. x.copy.status \in {"draft", "active", "completed", "archived"}
    BY <1>1, <2>1 DEF MissionRow, MissionStatus
  <2>3. req'[s] = Idle
    BY <1>1, <1>4, Continued DEF SaveMission, IInv, After, MissionRequest
  <2>4. ~Committed(x) /\ ~Committed(Idle)
    BY <1>4, UpdateUncommitted, IdleServed
  <2>5. /\ \A n \in Missions : PromisedMissions[n] = missions[n]
        /\ PromisedMissions = missions
    <3>1. \A n \in Missions : PromisedMissions[n] = missions[n]
      BY <2>4, UncommittedView DEF IInv
    <3>2. PromisedMissions = [n \in Missions |-> PromisedMissions[n]]
      BY View
    <3>3. QED
      BY <1>1, <3>1, <3>2
  <2>6. PromisedMissions' = missions'
    <3>1. \A n \in Missions : missions'[n] \in MissionRow
      BY <1>1, <1>2, <1>3
    <3>2. \A n \in Missions : Counted(Idle, n, missions'[n]) = missions'[n]
      BY <2>4, <3>1, IdleViews
    <3>3. missions' = [n \in Missions |-> missions'[n]]
      BY <1>1
    <3>4. QED
      BY <2>3, <3>2, <3>3, ViewNext
  <2>7. PromisedRounds' = PromisedRounds /\ PromisedJournals' = PromisedJournals
    BY <1>1, <2>3, <2>4, IdleViews, View, ViewNext
  <2>8. Promise!UpdateMission(m)
    <3>1. PromisedMissions' = [PromisedMissions EXCEPT ![m].status = x.copy.status]
      BY <1>1, <2>1, <2>5, <2>6
    <3>2. PromisedMissions[m].status \notin {"none", "archived"}
      BY <2>1, <2>5
    <3>3. QED
      BY <1>1, <2>2, <2>7, <3>1, <3>2 DEF Promise!UpdateMission
  <2>9. QED
    BY <1>1, <2>3, <2>8, IdleServed DEF Promise!Next
<1>5. CASE x \in RoundRequest
  <2>1. /\ r \in Rounds /\ m = MissionOf[r] /\ x.pc \in Path[x.op] /\ x.op \in RoundOps
        /\ x.op = "schedule" => Schedules(x, rounds[r], missions[m])
        /\ x.op # "schedule" => WorksAlone(x, rounds[r], assigned)
    BY <1>5, RequestKnown
  <2>2. x.op \in {"complete", "schedule"}
    BY <1>1, <2>1, PathValues DEF RoundOps, Transitioning
  <2>3. Committed(x) /\ ~HalfSaved(x)
    BY <1>1, <2>2 DEF Committed, HalfSaved
  <2>4. missions[m].total \in Nat /\ missions[m].completed \in Nat
    BY <1>3 DEF MissionRow
  <2>5. CASE x.op = "complete"
    <3> DEFINE y == [x EXCEPT !.pc = "emitTransition"]
    <3>1. x.copy = [missions[m] EXCEPT !.completed = @ + 1]
      BY <1>1, <1>5, <2>5 DEF SerialInv, RequestServed
    <3>2. req'[s] = y
      BY <1>1, <2>5, Continued DEF SaveMission, IInv, After
    <3>3. /\ y.op = "complete" /\ y.round = r /\ y.entity = x.entity /\ y.machine = x.machine
          /\ y.to = x.to /\ y.mission = m /\ y.pc = "emitTransition"
      BY <1>5, <2>5 DEF RoundRequest
    <3> HIDE DEF y
    <3>4. Committed(y) /\ ~HalfSaved(y) /\ y \notin MissionRequest
      BY <3>3 DEF Committed, HalfSaved, MissionRequest
    <3>5. WorksAlone(y, rounds[r], assigned)
      BY <1>1, <2>1, <2>3, <2>5, <3>3, <3>4 DEF WorksAlone, TableHolds, Unmoved
    <3>6. RequestServed(y, rounds', missions', assigned')
      BY <1>1, <2>1, <3>3, <3>4, <3>5, PathValues DEF RequestServed
    <3>7. Owed(y) = Owed(x)
      <4>1. /\ Lifecycle(y.op) = Lifecycle(x.op)
            /\ Transition(y.machine.opState, y.to) = Transition(x.machine.opState, x.to)
        BY <2>5, <3>3
      <4>2. Owed(x) = <<Transition(x.machine.opState, x.to)>> \o <<Lifecycle(x.op)>>
        BY <1>1, <2>5, OwedValues
      <4>3. Owed(y) = <<Transition(y.machine.opState, y.to)>> \o <<Lifecycle(y.op)>>
        BY <3>3, OwedValues
      <4>4. QED
        BY <4>1, <4>2, <4>3
    <3>8. \A n : ~CountsTotal(x, n) /\ ~CountsTotal(y, n) /\ ~CountsCompleted(y, n)
      BY <2>5, <3>3 DEF CountsTotal, CountsCompleted
    <3>9. \A n : CountsCompleted(x, n) <=> n = m
      BY <1>1, <2>3, <2>5 DEF CountsCompleted
    <3>10. \A n \in Missions : Counted(y, n, missions'[n]) = Counted(x, n, missions[n])
      <4> TAKE n \in Missions
      <4>1. CASE n = m
        <5>1. /\ x.copy.status = missions[m].status /\ x.copy.total = missions[m].total
              /\ x.copy.completed = missions[m].completed + 1
          BY <1>3, <3>1 DEF MissionRow
        <5>2. x.copy.total = missions[m].total + (IF CountsTotal(x, m) THEN 1 ELSE 0)
          BY <2>4, <3>8, <5>1
        <5>3. x.copy.completed = missions[m].completed + (IF CountsCompleted(x, m) THEN 1 ELSE 0)
          BY <3>9, <5>1
        <5>4. Counted(y, m, x.copy) = Counted(x, m, missions[m])
          BY <1>1, <1>3, <3>8, <5>1, <5>2, <5>3, CountSaved
        <5>5. QED
          BY <1>3, <4>1, <5>4
      <4>2. CASE n # m
        BY <1>2, <3>8, <3>9, <4>2 DEF Counted
      <4>3. QED
        BY <4>1, <4>2
    <3>11. TypeOK /\ x.op # "escalate"
      BY <2>5 DEF IInv
    <3>12. UNCHANGED Promise!vars
      BY <1>1, <1>5, <2>3, <2>5, <3>2, <3>3, <3>4, <3>7, <3>10, <3>11, InnerView
    <3>13. QED
      BY <3>2, <3>6, <3>12
  <2>6. CASE x.op = "schedule"
    <3>1. x.copy = [missions[m] EXCEPT !.total = @ + 1]
      BY <2>1, <2>6 DEF Schedules
    <3>2. req'[s] = Idle
      BY <1>1, <2>6, Continued DEF SaveMission, IInv, After
    <3>3. Owed(x) = <<>>
      BY <1>1, <2>6, OwedValues
    <3>4. journal'[r] = journal[r] \o Owed(x)
      <4>1. journal[r] \in Seq(Event)
        BY <2>1 DEF IInv, TypeOK
      <4>2. QED
        BY <1>1, <3>3, <4>1, ConcatEmptySeq
    <3>5. /\ \A n : ~CountsCompleted(x, n)
          /\ \A n : ~CountsTotal(Idle, n) /\ ~CountsCompleted(Idle, n)
      BY <2>6, IdleServed DEF CountsTotal, CountsCompleted
    <3>6. \A n : CountsTotal(x, n) <=> n = m
      BY <2>3, <2>6 DEF CountsTotal
    <3>7. \A n \in Missions : Counted(Idle, n, missions'[n]) = Counted(x, n, missions[n])
      <4> TAKE n \in Missions
      <4>1. CASE n = m
        <5>1. /\ x.copy.status = missions[m].status /\ x.copy.completed = missions[m].completed
              /\ x.copy.total = missions[m].total + 1
          BY <1>3, <3>1 DEF MissionRow
        <5>2. x.copy.total = missions[m].total + (IF CountsTotal(x, m) THEN 1 ELSE 0)
          BY <3>6, <5>1
        <5>3. x.copy.completed = missions[m].completed + (IF CountsCompleted(x, m) THEN 1 ELSE 0)
          BY <2>4, <3>5, <5>1
        <5>4. Counted(Idle, m, x.copy) = Counted(x, m, missions[m])
          BY <1>1, <1>3, <3>5, <5>1, <5>2, <5>3, CountSaved
        <5>5. QED
          BY <1>3, <4>1, <5>4
      <4>2. CASE n # m
        BY <1>2, <3>5, <3>6, <4>2 DEF Counted
      <4>3. QED
        BY <4>1, <4>2
    <3>8. \A t \in Rounds : t # r => journal'[t] = journal[t]
      BY <1>1
    <3>9. QED
      BY <1>1, <1>5, <2>3, <3>2, <3>4, <3>7, <3>8, LeaveView
  <2>7. QED
    BY <2>2, <2>5, <2>6
<1>6. QED
  BY <1>1, <1>4, <1>5

(* An event at the end of a log of events makes one. *)
LEMMA LogGrows ==
  ASSUME NEW log \in Seq(Event), NEW e \in Event
  PROVE  Append(log, e) = log \o <<e>> /\ Append(log, e) \in Seq(Event)
<1> DEFINE E == Event
<1> HIDE DEF E
<1>1. log \in Seq(E) /\ e \in E
  BY DEF E
<1>2. Append(log, e) = log \o <<e>> /\ Append(log, e) \in Seq(E)
  BY <1>1
<1>3. QED
  BY <1>2 DEF E

(* What an emit does to the log of the request's round, and to no other.   *)
LEMMA LogAppended ==
  ASSUME NEW s \in Requests, IInv, req[s] \in RoundRequest, NEW e \in Event, Emit(s, e)
  PROVE  /\ journal[req[s].round] \in Seq(Event)
         /\ journal'[req[s].round] = journal[req[s].round] \o <<e>>
         /\ \A r \in Rounds : r # req[s].round => journal'[r] = journal[r]
         /\ rounds' = rounds /\ missions' = missions /\ assigned' = assigned
<1>1. /\ req[s].round \in Rounds /\ journal \in [Rounds -> Seq(Event)]
      /\ journal' = [journal EXCEPT ![req[s].round] = Append(journal[req[s].round], e)]
      /\ rounds' = rounds /\ missions' = missions /\ assigned' = assigned
  BY DEF IInv, TypeOK, RoundRequest, Emit, history
<1>2. journal[req[s].round] \in Seq(Event)
  BY <1>1
<1>3. /\ journal'[req[s].round] = Append(journal[req[s].round], e)
      /\ \A r \in Rounds : r # req[s].round => journal'[r] = journal[r]
  BY <1>1
<1>4. QED
  BY <1>1, <1>2, <1>3, LogGrows

LEMMA TransitionEmitted ==
  ASSUME NEW s, Requests = {s}, IInv, SerialInv, EmitTransition(s)
  PROVE  RequestServed(req'[s], rounds', missions', assigned') /\ UNCHANGED Promise!vars
<1> DEFINE x == req[s]
           r == x.round
           m == x.mission
           t == Transition(x.machine.opState, x.to)
           l == Lifecycle(x.op)
<1>1. /\ x \in RoundRequest /\ x.pc = "emitTransition" /\ Emit(s, t) /\ s \in Requests
  BY AtStep DEF IInv, EmitTransition, At, Step
<1>2. t \in Event /\ l \in Event
  BY <1>1, LifecycleTyped
<1>3. /\ r \in Rounds /\ m = MissionOf[r] /\ x.pc \in Path[x.op] /\ x.op \in RoundOps
      /\ x.op = "schedule" => Schedules(x, rounds[r], missions[m])
      /\ x.op # "schedule" => WorksAlone(x, rounds[r], assigned)
  BY <1>1, RequestKnown
<1>4. /\ journal[r] \in Seq(Event) /\ journal'[r] = journal[r] \o <<t>>
      /\ \A u \in Rounds : u # r => journal'[u] = journal[u]
      /\ rounds' = rounds /\ missions' = missions /\ assigned' = assigned
  BY <1>1, <1>2, LogAppended
<1>5. x.op \in {"start", "complete", "abandon", "fail", "resume", "escalate", "schedule"}
  BY <1>1, <1>3, PathValues DEF RoundOps, Transitioning
<1>6. Committed(x)
  BY <1>1, <1>5 DEF Committed
<1>7. CASE x.op = "escalate"
  <2>1. req'[s] = Idle
    BY <1>1, <1>7, Continued DEF Emit, IInv, After
  <2>2. Owed(x) = <<t>>
    BY <1>1, <1>7, OwedValues
  <2>3. \A n : /\ ~CountsTotal(x, n) /\ ~CountsCompleted(x, n)
               /\ ~CountsTotal(Idle, n) /\ ~CountsCompleted(Idle, n)
    BY <1>7, IdleServed DEF CountsTotal, CountsCompleted
  <2>4. \A n \in Missions : Counted(Idle, n, missions'[n]) = Counted(x, n, missions[n])
    BY <1>4, <2>3 DEF Counted
  <2>5. journal'[r] = journal[r] \o Owed(x)
    BY <1>4, <2>2
  <2>6. QED
    BY <1>1, <1>4, <1>6, <1>7, <2>1, <2>4, <2>5, LeaveView
<1>8. CASE x.op # "escalate"
  <2> DEFINE pc == IF x.op = "resume" THEN "saveRound" ELSE "emitEvent"
             y == [x EXCEPT !.pc = pc]
  <2>1. req'[s] = y
    <3>1. After(x.op, "emitTransition") = pc /\ pc # "done"
      BY <1>5, <1>8 DEF After
    <3>2. QED
      BY <1>1, <3>1, Continued DEF Emit, IInv
  <2>2. /\ y.op = x.op /\ y.round = r /\ y.entity = x.entity /\ y.machine = x.machine
        /\ y.to = x.to /\ y.mission = m /\ y.copy = x.copy /\ y.pc = pc
    BY <1>1 DEF RoundRequest
  <2> HIDE DEF y
  <2>3. x.op = "resume" => x.entity.opState = "CRITICAL"
    BY <1>1, <1>3 DEF WorksAlone, Unmoved
  <2>4. /\ Committed(y) /\ (HalfSaved(y) <=> HalfSaved(x)) /\ (Unmoved(y) <=> Unmoved(x))
        /\ pc \in {"saveRound", "emitEvent"}
    BY <1>1, <1>5, <1>8, <2>2, <2>3 DEF Committed, HalfSaved, Unmoved, Transitioning
  <2>5. y.pc \in Path[y.op] /\ y \notin MissionRequest
    BY <1>5, <1>8, <2>2, PathValues DEF MissionRequest
  <2>6. x.op # "schedule" => WorksAlone(y, rounds[r], assigned)
    BY <1>1, <1>3, <1>6, <2>2, <2>4 DEF WorksAlone, TableHolds, Unmoved
  <2>7. x.op = "schedule" => Schedules(y, rounds[r], missions[m])
    BY <1>1, <1>3, <2>2 DEF Schedules
  <2>8. RequestServed(y, rounds', missions', assigned')
    BY <1>3, <1>4, <2>2, <2>4, <2>5, <2>6, <2>7 DEF RequestServed
  <2>9. Owed(y) = <<l>>
    <3>1. Lifecycle(y.op) = l
      BY <2>2
    <3>2. y.pc = "emitEvent" \/ (y.op = "resume" /\ y.pc = "saveRound")
      BY <2>2
    <3>3. QED
      BY <3>1, <3>2, OwedValues
  <2>10. Owed(x) = <<t>> \o <<l>>
    <3>1. CASE x.op \in {"start", "complete", "abandon", "fail"}
      BY <1>1, <3>1, OwedValues
    <3>2. CASE x.op = "resume"
      BY <1>1, <3>2, OwedValues
    <3>3. CASE x.op = "schedule"
      BY <1>1, <3>3, OwedValues
    <3>4. QED
      BY <1>5, <1>8, <3>1, <3>2, <3>3
  <2>11. journal'[r] \o Owed(y) = journal[r] \o Owed(x)
    <3> HIDE DEF t, l
    <3>1. <<t>> \in Seq(Event) /\ <<l>> \in Seq(Event)
      BY <1>2
    <3>2. (journal[r] \o <<t>>) \o <<l>> = journal[r] \o (<<t>> \o <<l>>)
      BY <1>4, <3>1, Associate
    <3>3. QED
      BY <1>4, <2>9, <2>10, <3>2
  <2>12. \A n : /\ CountsTotal(y, n) <=> CountsTotal(x, n)
                /\ CountsCompleted(y, n) <=> CountsCompleted(x, n)
    BY <1>1, <1>6, <2>2, <2>4 DEF CountsTotal, CountsCompleted
  <2>13. \A n \in Missions : Counted(y, n, missions'[n]) = Counted(x, n, missions[n])
    BY <1>4, <2>12 DEF Counted
  <2>14. TypeOK /\ \A u \in Rounds : u # r => rounds'[u] = rounds[u] /\ journal'[u] = journal[u]
    BY <1>4 DEF IInv
  <2>15. UNCHANGED Promise!vars
    BY <1>1, <1>4, <1>6, <1>8, <2>1, <2>2, <2>4, <2>11, <2>13, <2>14, InnerView
  <2>16. QED
    BY <2>1, <2>8, <2>15
<1>9. QED
  BY <1>7, <1>8

LEMMA EventEmitted ==
  ASSUME NEW s, Requests = {s}, IInv, SerialInv, EmitEvent(s)
  PROVE  RequestServed(req'[s], rounds', missions', assigned') /\ UNCHANGED Promise!vars
<1> DEFINE x == req[s]
           r == x.round
           m == x.mission
           l == Lifecycle(x.op)
<1>1. /\ x \in RoundRequest /\ x.pc = "emitEvent" /\ Emit(s, l) /\ s \in Requests
  BY AtStep DEF IInv, EmitEvent, At, Step
<1>2. l \in Event
  BY <1>1, LifecycleTyped
<1>3. /\ r \in Rounds /\ m = MissionOf[r] /\ x.pc \in Path[x.op] /\ x.op \in RoundOps
      /\ x.op = "schedule" => Schedules(x, rounds[r], missions[m])
      /\ x.op # "schedule" => WorksAlone(x, rounds[r], assigned)
  BY <1>1, RequestKnown
<1>4. /\ journal[r] \in Seq(Event) /\ journal'[r] = journal[r] \o <<l>>
      /\ \A u \in Rounds : u # r => journal'[u] = journal[u]
      /\ rounds' = rounds /\ missions' = missions /\ assigned' = assigned
  BY <1>1, <1>2, LogAppended
<1>5. x.op \in RoundOps \ {"touch", "assign", "escalate"}
  BY <1>1, <1>3, PathValues DEF RoundOps, Transitioning
<1>6. Committed(x) /\ ~HalfSaved(x)
  BY <1>1, <1>5 DEF Committed, HalfSaved, RoundOps, Transitioning
<1>7. Owed(x) = <<l>>
  BY <1>1, OwedValues
<1>8. CASE x.op # "schedule"
  <2>1. req'[s] = Idle
    BY <1>1, <1>8, Continued DEF Emit, IInv, After
  <2>2. \A n : /\ ~CountsTotal(x, n) /\ ~CountsCompleted(x, n)
               /\ ~CountsTotal(Idle, n) /\ ~CountsCompleted(Idle, n)
    BY <1>1, <1>8, IdleServed DEF CountsTotal, CountsCompleted
  <2>3. \A n \in Missions : Counted(Idle, n, missions'[n]) = Counted(x, n, missions[n])
    BY <1>4, <2>2 DEF Counted
  <2>4. journal'[r] = journal[r] \o Owed(x)
    BY <1>4, <1>7
  <2>5. QED
    BY <1>1, <1>4, <1>6, <2>1, <2>3, <2>4, LeaveView
<1>9. CASE x.op = "schedule"
  <2> DEFINE y == [x EXCEPT !.pc = "saveMission"]
  <2>1. req'[s] = y
    BY <1>1, <1>9, Continued DEF Emit, IInv, After
  <2>2. /\ y.op = "schedule" /\ y.round = r /\ y.entity = x.entity /\ y.machine = x.machine
        /\ y.to = x.to /\ y.mission = m /\ y.copy = x.copy /\ y.pc = "saveMission"
    BY <1>1, <1>9 DEF RoundRequest
  <2> HIDE DEF y
  <2>3. Committed(y) /\ y \notin MissionRequest /\ y.pc \in Path[y.op]
    BY <2>2, PathValues DEF Committed, MissionRequest
  <2>4. Schedules(y, rounds[r], missions[m])
    BY <1>1, <1>3, <1>9, <2>2 DEF Schedules
  <2>5. RequestServed(y, rounds', missions', assigned')
    BY <1>3, <1>4, <2>2, <2>3, <2>4 DEF RequestServed
  <2>6. Owed(y) = <<>>
    BY <2>2, OwedValues
  <2>7. journal'[r] \o Owed(y) = journal[r] \o Owed(x)
    <3> HIDE DEF l
    <3>1. <<l>> \in Seq(Event)
      BY <1>2
    <3>2. journal'[r] \in Seq(Event)
      BY <1>4, <3>1, ConcatProperties
    <3>3. journal'[r] \o <<>> = journal'[r]
      BY <3>2, ConcatEmptySeq
    <3>4. QED
      BY <1>4, <1>7, <2>6, <3>3
  <2>8. \A n : /\ CountsTotal(y, n) <=> CountsTotal(x, n)
               /\ CountsCompleted(y, n) <=> CountsCompleted(x, n)
    BY <1>6, <1>9, <2>2, <2>3 DEF CountsTotal, CountsCompleted
  <2>9. \A n \in Missions : Counted(y, n, missions'[n]) = Counted(x, n, missions[n])
    BY <1>4, <2>8 DEF Counted
  <2>10. TypeOK /\ \A u \in Rounds : u # r => rounds'[u] = rounds[u] /\ journal'[u] = journal[u]
    BY <1>4 DEF IInv
  <2>11. UNCHANGED Promise!vars
    <3>1. /\ req[s] \in RoundRequest /\ Committed(req[s]) /\ req[s].op = "schedule"
          /\ y.round = req[s].round /\ y.op = req[s].op /\ y.entity = req[s].entity
          /\ y.to = req[s].to /\ y.mission = req[s].mission
      BY <1>1, <1>6, <1>9, <2>2
    <3>2. req'[s] = y /\ Committed(y) /\ (req[s].op = "escalate" => rounds' = rounds)
      BY <2>1, <2>3, <3>1
    <3>3. QED
      BY <1>4, <2>7, <2>9, <2>10, <3>1, <3>2, InnerView
  <2>12. QED
    BY <2>1, <2>5, <2>11
<1>10. QED
  BY <1>8, <1>9

(* The mission of a request about a round exists.                          *)
LEMMA RequestMission ==
  ASSUME NEW s, Requests = {s}, IInv, SerialInv, req[s] \in RoundRequest
  PROVE  missions[req[s].mission].status # "none"
<1> DEFINE x == req[s]
<1>1. /\ x.mission = MissionOf[x.round] /\ x.round \in Rounds /\ RoundPresent(s)
      /\ x.op = "schedule" => Schedules(x, rounds[x.round], missions[x.mission])
  BY RequestKnown DEF IInv
<1>2. CASE x.op = "schedule"
  BY <1>1, <1>2 DEF Schedules
<1>3. CASE x.op # "schedule"
  <2>1. rounds[x.round].status # "none"
    BY <1>1, <1>3 DEF RoundPresent, IInv, RequestOK, RequestFits
  <2>2. QED
    BY <1>1, <2>1 DEF SerialInv, MissionsThere
<1>4. QED
  BY <1>2, <1>3

(* Creating a mission while another one is being worked on.                *)
LEMMA MissionCreated ==
  ASSUME NEW s, Requests = {s}, IInv, SerialInv, NEW m \in Missions, CreateMission(m)
  PROVE  RequestServed(req'[s], rounds', missions', assigned') /\ Promise!Next
<1> DEFINE x == req[s]
<1>1. /\ missions[m].status = "none" /\ missions' = [missions EXCEPT ![m].status = "draft"]
      /\ rounds' = rounds /\ journal' = journal /\ req' = req /\ assigned' = assigned
      /\ missions \in [Missions -> MissionRow]
  BY DEF CreateMission, IInv, TypeOK, history
<1>2. x \in RoundRequest => x.mission # m
  BY <1>1, RequestMission
<1>3. x \in MissionRequest => x.mission # m
  BY <1>1 DEF SerialInv, RequestServed
<1>4. \A n \in Missions : n # m => missions'[n] = missions[n]
  BY <1>1
<1>5. x \in RoundRequest \cup MissionRequest => missions'[x.mission] = missions[x.mission]
  BY <1>2, <1>3, <1>4 DEF RoundRequest, MissionRequest
<1>6. RequestServed(x, rounds', missions', assigned')
  <2>1. RequestServed(x, rounds, missions, assigned)
    BY DEF SerialInv
  <2>2. QED
    BY <1>1, <1>5, <2>1 DEF RequestServed
<1>7. \A n : CountsTotal(x, n) \/ CountsCompleted(x, n) => n # m
  <2>1. x \in RoundRequest \cup MissionRequest \cup {Idle}
    BY DEF IInv, TypeOK
  <2>2. Committed(x) => x.mission # m
    BY <1>2, <2>1, CommittedIsRound
  <2>3. QED
    BY <2>2 DEF CountsTotal, CountsCompleted
<1>8. Counted(x, m, missions[m]) = missions[m] /\ Counted(x, m, missions'[m]) = missions'[m]
  <2>1. missions[m] \in MissionRow /\ missions'[m] \in MissionRow
    <3>1. missions'[m] = [missions[m] EXCEPT !.status = "draft"]
      BY <1>1
    <3>2. QED
      BY <1>1, <3>1 DEF MissionRow, MissionStatus
  <2>2. ASSUME NEW mission \in MissionRow PROVE Counted(x, m, mission) = mission
    <3>1. mission.total \in Nat /\ mission.completed \in Nat
      BY DEF MissionRow
    <3>2. QED
      BY <1>7, <3>1, CountedFields, SameMission
  <2>3. QED
    BY <2>1, <2>2
<1>9. PromisedMissions' = [PromisedMissions EXCEPT ![m].status = "draft"]
  <2>1. PromisedMissions = [n \in Missions |-> Counted(x, n, missions[n])]
    BY View
  <2>2. PromisedMissions' = [n \in Missions |-> Counted(x, n, missions'[n])]
    BY <1>1, ViewNext
  <2>3. missions'[m] = [missions[m] EXCEPT !.status = "draft"]
    BY <1>1
  <2>4. PromisedMissions[m] = missions[m] /\ PromisedMissions'[m] = [missions[m] EXCEPT !.status = "draft"]
    BY <1>8, <2>1, <2>2, <2>3
  <2>5. \A n \in Missions : n # m => PromisedMissions'[n] = PromisedMissions[n]
    BY <1>4, <2>1, <2>2
  <2>6. /\ PromisedMissions = [n \in Missions |-> PromisedMissions[n]]
        /\ PromisedMissions' = [n \in Missions |-> PromisedMissions'[n]]
    BY <2>1, <2>2
  <2> HIDE DEF x
  <2>7. QED
    BY <2>4, <2>5, <2>6
<1>10. PromisedMissions[m].status = "none"
  BY <1>1, <1>8, View
<1>11. PromisedRounds' = PromisedRounds /\ PromisedJournals' = PromisedJournals
  <2>1. rounds' = rounds /\ journal' = journal /\ req' = req
    BY <1>1
  <2>2. PromisedRounds' = PromisedRounds
    BY <2>1, View, ViewNext
  <2>3. PromisedJournals' = PromisedJournals
    BY <2>1, View, ViewNext
  <2>4. QED
    BY <2>2, <2>3
<1>12. Promise!CreateMission(m)
  BY <1>1, <1>9, <1>10, <1>11 DEF Promise!CreateMission
<1>13. QED
  BY <1>1, <1>6, <1>12 DEF Promise!Next
-----------------------------------------------------------------------------
(***************************************************************************)
(* Every step of the service is one of the promise's own, or none.         *)
(***************************************************************************)
LEMMA StepPromised ==
  ASSUME NEW s, Requests = {s}, Failures = FALSE, IInv, SerialInv, [Next]_vars
  PROVE  RequestServed(req'[s], rounds', missions', assigned') /\ [Promise!Next]_Promise!vars
<1>1. ASSUME NEW m \in Missions, CreateMission(m)
      PROVE  RequestServed(req'[s], rounds', missions', assigned') /\ [Promise!Next]_Promise!vars
  BY <1>1, MissionCreated
<1>2. ASSUME NEW m \in Missions, NEW status \in MissionStatus \ {"none"}, LoadMissionUpdate(s, m, status)
      PROVE  RequestServed(req'[s], rounds', missions', assigned') /\ [Promise!Next]_Promise!vars
  BY <1>2, UpdateLoaded
<1>3. ASSUME NEW r \in Rounds, LoadSchedule(s, r)
      PROVE  RequestServed(req'[s], rounds', missions', assigned') /\ [Promise!Next]_Promise!vars
  BY <1>3, ScheduleLoaded
<1>4. ASSUME NEW r \in Rounds, NEW op \in Ops, LoadRound(s, op, r)
      PROVE  RequestServed(req'[s], rounds', missions', assigned') /\ [Promise!Next]_Promise!vars
  BY <1>4, RoundLoaded
<1>5. CASE Serve(s)
  BY <1>5, StateResolved, StateSaved, RoundSaved, RoundInserted, MissionLoaded, MissionSaved,
     TransitionEmitted, EventEmitted DEF Serve
<1>6. CASE UNCHANGED vars
  <2>1. /\ rounds' = rounds /\ missions' = missions /\ journal' = journal /\ req' = req
        /\ assigned' = assigned
    BY <1>6 DEF vars, history
  <2>2. UNCHANGED Promise!vars
    BY <2>1, View, ViewNext DEF Promise!vars
  <2>3. QED
    BY <2>1, <2>2 DEF SerialInv
<1>7. QED
  BY <1>1, <1>2, <1>3, <1>4, <1>5, <1>6 DEF Next, Abort
-----------------------------------------------------------------------------
(***************************************************************************)
(* What the promise keeps.                                                 *)
(***************************************************************************)

(* A transition from where the chain ended prolongs it.                    *)
LEMMA ChainProlonged ==
  ASSUME NEW log \in Seq(Event), NEW from, NEW to, Transition(from, to) \in Event,
         log = <<>> \/ ChainTo(log, from)
  PROVE  ChainTo(Append(log, Transition(from, to)), to)
<1> DEFINE n == Len(log)
           longer == Append(log, Transition(from, to))
           moves == {i \in DOMAIN log : log[i].type = "state.transition"}
           more == {i \in DOMAIN longer : longer[i].type = "state.transition"}
<1>1. /\ n \in Nat /\ DOMAIN log = 1..n /\ DOMAIN longer = 1..(n + 1)
      /\ \A i \in 1..n : longer[i] = log[i]
      /\ longer[n + 1] = Transition(from, to)
  <2> DEFINE E == Event
  <2> HIDE DEF E
  <2>1. log \in Seq(E) /\ Transition(from, to) \in E
    BY DEF E
  <2>2. QED
    BY <2>1
<1>2. /\ longer[n + 1].type = "state.transition" /\ longer[n + 1].from = from
      /\ longer[n + 1].to = to
  BY <1>1 DEF Transition
<1> HIDE DEF longer, n
<1>3. more = moves \cup {n + 1} /\ moves \subseteq 1..n
  BY <1>1, <1>2
<1>4. \A j \in more : j <= n + 1
  BY <1>1, <1>3
<1>5. ASSUME NEW i \in more, NEW j \in more, i < j, \A k \in more : k <= i \/ j <= k
      PROVE  longer[i].to = longer[j].from
  <2>1. i \in moves
    BY <1>1, <1>3, <1>4, <1>5
  <2>2. ChainTo(log, from) /\ longer[i] = log[i]
    BY <1>1, <1>3, <2>1 DEF n
  <2>3. CASE j \in moves
    <3>1. \A k \in moves : k <= i \/ j <= k
      BY <1>3, <1>5
    <3>2. log[i].to = log[j].from
      BY <1>5, <2>1, <2>2, <2>3, <3>1 DEF ChainTo
    <3>3. QED
      BY <1>1, <1>3, <2>2, <2>3, <3>2
  <2>4. CASE j = n + 1
    <3>1. PICK last \in moves : log[last].to = from /\ \A k \in moves : k <= last
      BY <2>2 DEF ChainTo
    <3>2. last <= i \/ j <= last
      BY <1>3, <1>5, <3>1
    <3>3. last = i
      BY <1>1, <1>3, <2>1, <2>4, <3>1, <3>2
    <3>4. QED
      BY <1>2, <2>2, <2>4, <3>1, <3>3
  <2>5. QED
    BY <1>3, <2>3, <2>4
<1>6. \E i \in more : longer[i].to = to /\ \A j \in more : j <= i
  BY <1>2, <1>3, <1>4
<1>7. ChainTo(longer, to)
  BY <1>5, <1>6 DEF ChainTo
<1>8. QED
  BY <1>7 DEF longer

(* Any other event leaves it as it is.                                     *)
LEMMA ChainKept ==
  ASSUME NEW log \in Seq(Event), NEW state, ChainTo(log, state), NEW op \in RoundOps
  PROVE  ChainTo(Append(log, Lifecycle(op)), state)
<1> DEFINE n == Len(log)
           longer == Append(log, Lifecycle(op))
           moves == {i \in DOMAIN log : log[i].type = "state.transition"}
           more == {i \in DOMAIN longer : longer[i].type = "state.transition"}
<1>1. Lifecycle(op) \in Event /\ Lifecycle(op).type # "state.transition"
  BY DEF Lifecycle, Event, RoundOps, Transitioning
<1>2. /\ n \in Nat /\ DOMAIN log = 1..n /\ DOMAIN longer = 1..(n + 1)
      /\ \A i \in 1..n : longer[i] = log[i]
      /\ longer[n + 1] = Lifecycle(op)
  <2> DEFINE E == Event
  <2> HIDE DEF E
  <2>1. log \in Seq(E) /\ Lifecycle(op) \in E
    BY <1>1 DEF E
  <2>2. QED
    BY <2>1
<1> HIDE DEF longer, n
<1>3. more = moves /\ moves \subseteq 1..n
  BY <1>1, <1>2
<1>4. \A i \in moves : longer[i] = log[i]
  BY <1>2, <1>3
<1>5. ChainTo(longer, state)
  <2>1. \E i \in more : longer[i].to = state /\ \A j \in more : j <= i
    <3>1. PICK i \in moves : log[i].to = state /\ \A j \in moves : j <= i
      BY DEF ChainTo
    <3>2. QED
      BY <1>3, <1>4, <3>1
  <2>2. ASSUME NEW i \in more, NEW j \in more, i < j, \A k \in more : k <= i \/ j <= k
        PROVE  longer[i].to = longer[j].from
    <3>1. log[i].to = log[j].from
      BY <1>3, <2>2 DEF ChainTo
    <3>2. QED
      BY <1>3, <1>4, <3>1
  <2>3. QED
    BY <2>1, <2>2 DEF ChainTo
<1>6. QED
  BY <1>5 DEF longer

(* What an operation adds to the log after its transition, if it has one.  *)
News == {<<>>} \cup {<<Lifecycle(op)>> : op \in RoundOps}

PromiseTyped ==
  /\ PromisedRounds = [r \in Rounds |-> PromisedRounds[r]]
  /\ \A r \in Rounds : PromisedRounds[r].opState \in OperationalState
  /\ PromisedJournals \in [Rounds -> Seq(Event)]
  /\ PromisedMissions \in [Missions -> MissionRow]
PromiseOK == PhasesSettled /\ LogsChained /\ RoundsCounted

LEMMA PhaseMoved ==
  ASSUME NEW r \in Rounds, NEW status, NEW opState \in OperationalState,
         NEW news \in News, Promise!Move(r, status, opState, news),
         PromiseTyped, PhasesSettled, LogsChained, status # "none",
         r \notin assigned => Settled([status |-> status, opState |-> opState]),
         PromisedRounds[r].status = "none" => PromisedRounds[r].opState # opState
  PROVE  PhasesSettled' /\ LogsChained'
<1> DEFINE from == PromisedRounds[r].opState
           log == PromisedJournals[r]
           moved == IF from = opState THEN <<>> ELSE <<Transition(from, opState)>>
<1>1. /\ PromisedRounds' = [PromisedRounds EXCEPT ![r] = [status |-> status, opState |-> opState]]
      /\ PromisedJournals' = [PromisedJournals EXCEPT ![r] = log \o moved \o news]
      /\ assigned' = assigned
  BY DEF Promise!Move, Promise!Phase, Promise!Moved, Transition
<1>2. /\ PromisedRounds'[r] = [status |-> status, opState |-> opState]
      /\ PromisedJournals'[r] = log \o moved \o news
      /\ \A t \in Rounds : t # r =>
           PromisedRounds'[t] = PromisedRounds[t] /\ PromisedJournals'[t] = PromisedJournals[t]
  BY <1>1 DEF PromiseTyped
<1>3. PhasesSettled'
  BY <1>1, <1>2 DEF PhasesSettled, Settled, Promise!Settled, Promise!Engaged
<1>4. /\ log \in Seq(Event) /\ Transition(from, opState) \in Event
      /\ \A op \in RoundOps : Lifecycle(op) \in Event
  BY DEF Event, Transition, Lifecycle, PromiseTyped
<1>5. ASSUME r \notin assigned
      PROVE  ChainTo(PromisedJournals'[r], opState)
  <2>1. IF PromisedRounds[r].status = "none" THEN log = <<>> ELSE ChainTo(log, from)
    BY <1>5 DEF LogsChained
  <2>2. log \o moved \in Seq(Event) /\ ChainTo(log \o moved, opState)
    <3>1. CASE from = opState
      <4>1. log \o moved = log
        BY <1>4, <3>1, ConcatEmptySeq
      <4>2. QED
        BY <1>4, <2>1, <3>1, <4>1
    <3>2. CASE from # opState
      <4>1. /\ log \o moved = Append(log, Transition(from, opState))
            /\ Append(log, Transition(from, opState)) \in Seq(Event)
        BY <1>4, <3>2, LogGrows
      <4>2. ChainTo(Append(log, Transition(from, opState)), opState)
        BY <1>4, <2>1, ChainProlonged
      <4>3. QED
        BY <4>1, <4>2
    <3>3. QED
      BY <3>1, <3>2
  <2> DEFINE l == log \o moved
  <2>3. l \in Seq(Event) /\ ChainTo(l, opState)
    BY <2>2
  <2> HIDE DEF l
  <2>4. CASE news = <<>>
    <3>1. l \o news = l
      BY <2>3, <2>4, ConcatEmptySeq
    <3>2. ChainTo(l \o news, opState)
      BY <2>3, <3>1
    <3>3. QED
      BY <1>2, <3>2 DEF l
  <2>5. ASSUME NEW op \in RoundOps, news = <<Lifecycle(op)>>
        PROVE  ChainTo(PromisedJournals'[r], opState)
    <3>1. l \o news = Append(l, Lifecycle(op))
      BY <1>4, <2>3, <2>5, LogGrows
    <3>2. ChainTo(l \o news, opState)
      BY <2>3, <3>1, ChainKept
    <3>3. QED
      BY <1>2, <3>2 DEF l
  <2>6. QED
    BY <2>4, <2>5 DEF News
<1>6. LogsChained'
  <2>1. \A t \in Rounds \ assigned :
          IF PromisedRounds'[t].status = "none" THEN PromisedJournals'[t] = <<>>
          ELSE ChainTo(PromisedJournals'[t], PromisedRounds'[t].opState)
    <3> TAKE t \in Rounds \ assigned
    <3>1. CASE t = r
      <4>1. PromisedRounds'[r].status # "none" /\ PromisedRounds'[r].opState = opState
        BY <1>2
      <4>2. ChainTo(PromisedJournals'[r], opState)
        BY <1>5, <3>1
      <4>3. QED
        BY <3>1, <4>1, <4>2
    <3>2. CASE t # r
      BY <1>2, <3>2 DEF LogsChained
    <3>3. QED
      BY <3>1, <3>2
  <2>2. QED
    BY <1>1, <2>1 DEF LogsChained, ChainTo
<1>7. QED
  BY <1>3, <1>6

(* A round counts from its creation, and as completed once it is.          *)
LEMMA CountMoved ==
  ASSUME NEW r \in Rounds, NEW status, NEW opState, NEW news, Promise!Move(r, status, opState, news),
         PromisedRounds = [t \in Rounds |-> PromisedRounds[t]],
         status # "none", PromisedRounds[r].status # "completed"
  PROVE  \A m : /\ Of(m)' = IF MissionOf[r] = m THEN Of(m) \cup {r} ELSE Of(m)
                /\ CompletedOf(m)' = IF MissionOf[r] = m /\ status = "completed"
                                       THEN CompletedOf(m) \cup {r} ELSE CompletedOf(m)
<1>1. PromisedRounds' = [PromisedRounds EXCEPT ![r] = [status |-> status, opState |-> opState]]
  BY DEF Promise!Move, Promise!Phase
<1>2. /\ PromisedRounds'[r].status = status
      /\ \A t \in Rounds : t # r => PromisedRounds'[t] = PromisedRounds[t]
  BY <1>1
<1>3. QED
  BY <1>2 DEF Of, CompletedOf

LEMMA OneMore ==
  ASSUME NEW S, IsFiniteSet(S), NEW e
  PROVE  /\ IsFiniteSet(S \cup {e})
         /\ Cardinality(S \cup {e}) = Cardinality(S) + (IF e \in S THEN 0 ELSE 1)
<1>1. /\ IsFiniteSet(S \cup {e})
      /\ Cardinality(S \cup {e}) = IF e \in S THEN Cardinality(S) ELSE Cardinality(S) + 1
  BY FS_AddElement
<1>2. Cardinality(S) \in Nat
  BY FS_CardinalityType
<1>3. QED
  BY <1>1, <1>2

LEMMA CountsMoved ==
  ASSUME NEW r \in Rounds, NEW status, NEW opState, NEW news, Promise!Move(r, status, opState, news),
         PromisedRounds = [t \in Rounds |-> PromisedRounds[t]],
         PromisedMissions \in [Missions -> MissionRow],
         status # "none", PromisedRounds[r].status # "completed", RoundsCounted,
         \A m \in Missions :
           /\ PromisedMissions'[m].total = PromisedMissions[m].total
                + (IF MissionOf[r] = m /\ PromisedRounds[r].status = "none" THEN 1 ELSE 0)
           /\ PromisedMissions'[m].completed = PromisedMissions[m].completed
                + (IF MissionOf[r] = m /\ status = "completed" THEN 1 ELSE 0)
  PROVE  RoundsCounted'
<1>1. ASSUME NEW m \in Missions
      PROVE  /\ IsFiniteSet(Of(m)')
             /\ PromisedMissions'[m].total = Cardinality(Of(m)')
             /\ PromisedMissions'[m].completed = Cardinality(CompletedOf(m)')
  <2>1. /\ IsFiniteSet(Of(m)) /\ PromisedMissions[m].total = Cardinality(Of(m))
        /\ PromisedMissions[m].completed = Cardinality(CompletedOf(m))
        /\ PromisedMissions[m].total \in Nat /\ PromisedMissions[m].completed \in Nat
    BY DEF RoundsCounted, MissionRow
  <2>2. IsFiniteSet(CompletedOf(m))
    <3>1. CompletedOf(m) \subseteq Of(m)
      BY DEF Of, CompletedOf
    <3>2. QED
      BY <2>1, <3>1, FS_Subset
  <2>3. /\ Of(m)' = IF MissionOf[r] = m THEN Of(m) \cup {r} ELSE Of(m)
        /\ CompletedOf(m)' = IF MissionOf[r] = m /\ status = "completed"
                               THEN CompletedOf(m) \cup {r} ELSE CompletedOf(m)
    BY CountMoved
  <2>4. /\ MissionOf[r] = m => (r \in Of(m) <=> PromisedRounds[r].status # "none")
        /\ r \notin CompletedOf(m)
    BY DEF Of, CompletedOf
  <2>5. /\ IsFiniteSet(Of(m) \cup {r}) /\ IsFiniteSet(CompletedOf(m) \cup {r})
        /\ Cardinality(Of(m) \cup {r}) = Cardinality(Of(m)) + (IF r \in Of(m) THEN 0 ELSE 1)
        /\ Cardinality(CompletedOf(m) \cup {r}) = Cardinality(CompletedOf(m)) + 1
    BY <2>1, <2>2, <2>4, OneMore
  <2>6. IsFiniteSet(Of(m)') /\ PromisedMissions'[m].total = Cardinality(Of(m)')
    <3>1. CASE MissionOf[r] = m
      BY <2>1, <2>3, <2>4, <2>5, <3>1
    <3>2. CASE MissionOf[r] # m
      BY <2>1, <2>3, <3>2
    <3>3. QED
      BY <3>1, <3>2
  <2>7. PromisedMissions'[m].completed = Cardinality(CompletedOf(m)')
    <3>1. CASE MissionOf[r] = m /\ status = "completed"
      BY <2>1, <2>3, <2>5, <3>1
    <3>2. CASE ~(MissionOf[r] = m /\ status = "completed")
      BY <2>1, <2>3, <3>2
    <3>3. QED
      BY <3>1, <3>2
  <2>8. QED
    BY <2>6, <2>7
<1>2. QED
  BY <1>1 DEF RoundsCounted

(* A move that neither creates nor completes a round.                      *)
LEMMA MoveKeeps ==
  ASSUME NEW r \in Rounds, NEW status, NEW opState \in OperationalState,
         NEW news \in News, Promise!Move(r, status, opState, news), PromiseTyped,
         PromisedRounds[r].status \notin {"none", "completed"}, status \notin {"none", "completed"},
         r \notin assigned => Settled([status |-> status, opState |-> opState]),
         PromiseOK, UNCHANGED PromisedMissions
  PROVE  PromiseOK'
<1>1. PhasesSettled' /\ LogsChained'
  BY PhaseMoved DEF PromiseOK
<1>2. \A m \in Missions :
        /\ PromisedMissions'[m].total = PromisedMissions[m].total
             + (IF MissionOf[r] = m /\ PromisedRounds[r].status = "none" THEN 1 ELSE 0)
        /\ PromisedMissions'[m].completed = PromisedMissions[m].completed
             + (IF MissionOf[r] = m /\ status = "completed" THEN 1 ELSE 0)
  BY DEF PromiseTyped, MissionRow
<1>3. RoundsCounted'
  BY <1>2, CountsMoved DEF PromiseTyped, PromiseOK
<1>4. QED
  BY <1>1, <1>3 DEF PromiseOK

(* A step that changes no promised status and no counter.                  *)
LEMMA StatusKept ==
  ASSUME RoundsCounted, UNCHANGED PromisedMissions,
         \A r \in Rounds : PromisedRounds'[r].status = PromisedRounds[r].status
  PROVE  RoundsCounted'
<1>1. \A m : Of(m)' = Of(m) /\ CompletedOf(m)' = CompletedOf(m)
  BY DEF Of, CompletedOf
<1>2. QED
  BY <1>1 DEF RoundsCounted

LEMMA PromiseKeeps ==
  ASSUME PromiseTyped, PromiseOK, [Promise!Next]_Promise!vars
  PROVE  PromiseOK'
<1> USE ConstantsAssumption
<1>1. CASE UNCHANGED Promise!vars
  <2>1. PromisedRounds' = PromisedRounds /\ PromisedJournals' = PromisedJournals
        /\ PromisedMissions' = PromisedMissions /\ assigned' = assigned
    BY <1>1 DEF Promise!vars
  <2>2. PhasesSettled'
    BY <2>1 DEF PromiseOK, PhasesSettled, Settled, Promise!Settled, Promise!Engaged
  <2>3. LogsChained'
    BY <2>1 DEF PromiseOK, LogsChained, ChainTo
  <2>4. RoundsCounted'
    BY <2>1 DEF PromiseOK, RoundsCounted, Of, CompletedOf
  <2>5. QED
    BY <2>2, <2>3, <2>4 DEF PromiseOK
<1>2. ASSUME NEW m \in Missions, Promise!CreateMission(m) \/ Promise!UpdateMission(m)
      PROVE  PromiseOK'
  <2>1. /\ PromisedRounds' = PromisedRounds /\ PromisedJournals' = PromisedJournals
        /\ assigned' = assigned
    BY <1>2 DEF Promise!CreateMission, Promise!UpdateMission
  <2>2. \E st : PromisedMissions' = [PromisedMissions EXCEPT ![m].status = st]
    BY <1>2 DEF Promise!CreateMission, Promise!UpdateMission
  <2>3. \A n \in Missions : /\ PromisedMissions'[n].total = PromisedMissions[n].total
                            /\ PromisedMissions'[n].completed = PromisedMissions[n].completed
    <3> TAKE n \in Missions
    <3>1. PromisedMissions[n] \in MissionRow
      BY DEF PromiseTyped
    <3>2. QED
      BY <2>2, <3>1 DEF PromiseTyped, MissionRow
  <2>4. PhasesSettled'
    BY <2>1 DEF PromiseOK, PhasesSettled, Settled, Promise!Settled, Promise!Engaged
  <2>5. LogsChained'
    <3>1. \A r \in Rounds : /\ PromisedRounds'[r] = PromisedRounds[r]
                           /\ PromisedJournals'[r] = PromisedJournals[r]
      BY <2>1
    <3>2. QED
      BY <2>1, <3>1 DEF PromiseOK, LogsChained
  <2>6. RoundsCounted'
    BY <2>1, <2>3 DEF PromiseOK, RoundsCounted, Of, CompletedOf
  <2>7. QED
    BY <2>4, <2>5, <2>6 DEF PromiseOK
<1>3. /\ \A op \in RoundOps : Promise!Announced(op) = Lifecycle(op) /\ <<Lifecycle(op)>> \in News
      /\ <<>> \in News
  BY DEF Promise!Announced, Lifecycle, News
<1>4. /\ {"start", "pause", "resume", "complete", "fail", "abandon", "escalate", "schedule"} \subseteq RoundOps
      /\ {"DORMANT", "MONITORING", "OPERATIONAL", "CRITICAL", "EXTRACTION", "RECOVERY", "SILENCE"}
           \subseteq OperationalState
  BY DEF RoundOps, Transitioning, OperationalState
<1>5. ASSUME NEW r \in Rounds, Promise!Schedule(r)
      PROVE  PromiseOK'
  <2> DEFINE status == "scheduled"
  <2>1. /\ PromisedRounds[r].status = "none" /\ PromisedRounds[r].opState = "DORMANT"
        /\ Promise!Move(r, "scheduled", "MONITORING", <<Lifecycle("schedule")>>)
        /\ PromisedMissions' = [PromisedMissions EXCEPT ![MissionOf[r]].total = @ + 1]
    BY <1>3, <1>4, <1>5 DEF Promise!Schedule, Promise!In
  <2>2. PhasesSettled' /\ LogsChained'
    BY <1>3, <1>4, <2>1, PhaseMoved DEF Settled, Promise!Settled, Promise!Engaged, PromiseOK
  <2>3. \A m \in Missions :
          /\ PromisedMissions'[m].total = PromisedMissions[m].total
               + (IF MissionOf[r] = m /\ PromisedRounds[r].status = "none" THEN 1 ELSE 0)
          /\ PromisedMissions'[m].completed = PromisedMissions[m].completed
               + (IF MissionOf[r] = m /\ status = "completed" THEN 1 ELSE 0)
    <3> TAKE m \in Missions
    <3>1. PromisedMissions[m] \in MissionRow
      BY DEF PromiseTyped
    <3>2. CASE m = MissionOf[r]
      BY <2>1, <3>1, <3>2 DEF PromiseTyped, MissionRow
    <3>3. CASE m # MissionOf[r]
      BY <2>1, <3>1, <3>3 DEF PromiseTyped, MissionRow
    <3>4. QED
      BY <3>2, <3>3
  <2>4. RoundsCounted'
    <3>1. /\ PromisedRounds[r].status # "completed" /\ status # "none"
          /\ Promise!Move(r, status, "MONITORING", <<Lifecycle("schedule")>>)
      BY <2>1
    <3> HIDE DEF status
    <3>2. QED
      BY <2>3, <3>1, CountsMoved DEF PromiseTyped, PromiseOK
  <2>5. QED
    BY <2>2, <2>4 DEF PromiseOK
<1>6. ASSUME NEW r \in Rounds, Promise!Complete(r)
      PROVE  PromiseOK'
  <2> DEFINE status == "completed"
  <2>1. /\ PromisedRounds[r].status \in {"scheduled", "active", "paused"}
        /\ PromisedRounds[r].opState \in {"OPERATIONAL", "CRITICAL"}
        /\ Promise!Move(r, "completed", "EXTRACTION", <<Lifecycle("complete")>>)
        /\ PromisedMissions' = [PromisedMissions EXCEPT ![MissionOf[r]].completed = @ + 1]
    BY <1>3, <1>4, <1>6 DEF Promise!Complete, Promise!In, Promise!Unfinished, Promise!Engaged
  <2>2. PhasesSettled' /\ LogsChained'
    BY <1>3, <1>4, <2>1, PhaseMoved DEF Settled, Promise!Settled, Promise!Engaged, PromiseOK
  <2>3. \A m \in Missions :
          /\ PromisedMissions'[m].total = PromisedMissions[m].total
               + (IF MissionOf[r] = m /\ PromisedRounds[r].status = "none" THEN 1 ELSE 0)
          /\ PromisedMissions'[m].completed = PromisedMissions[m].completed
               + (IF MissionOf[r] = m /\ status = "completed" THEN 1 ELSE 0)
    <3> TAKE m \in Missions
    <3>1. PromisedMissions[m] \in MissionRow
      BY DEF PromiseTyped
    <3>2. CASE m = MissionOf[r]
      BY <2>1, <3>1, <3>2 DEF PromiseTyped, MissionRow
    <3>3. CASE m # MissionOf[r]
      BY <2>1, <3>1, <3>3 DEF PromiseTyped, MissionRow
    <3>4. QED
      BY <3>2, <3>3
  <2>4. RoundsCounted'
    <3>1. /\ PromisedRounds[r].status # "completed" /\ status # "none"
          /\ Promise!Move(r, status, "EXTRACTION", <<Lifecycle("complete")>>)
      BY <2>1
    <3> HIDE DEF status
    <3>2. QED
      BY <2>3, <3>1, CountsMoved DEF PromiseTyped, PromiseOK
  <2>5. QED
    BY <2>2, <2>4 DEF PromiseOK
<1>7. ASSUME NEW r \in Rounds, Promise!Start(r)
      PROVE  PromiseOK'
  <2>1. /\ PromisedRounds[r].status \in {"scheduled", "paused"}
        /\ PromisedRounds[r].opState = "MONITORING"
        /\ Promise!Move(r, "active", "OPERATIONAL", <<Lifecycle("start")>>)
        /\ UNCHANGED PromisedMissions
    BY <1>3, <1>4, <1>7 DEF Promise!Start, Promise!In
  <2>2. QED
    BY <1>3, <1>4, <2>1, MoveKeeps DEF Settled, Promise!Settled, Promise!Engaged
<1>8. ASSUME NEW r \in Rounds, Promise!Escalate(r)
      PROVE  PromiseOK'
  <2> DEFINE status == PromisedRounds[r].status
  <2>1. /\ status # "none" /\ PromisedRounds[r].opState = "OPERATIONAL"
        /\ Promise!Move(r, status, "CRITICAL", <<>>)
        /\ UNCHANGED PromisedMissions
    BY <1>8 DEF Promise!Escalate
  <2>2. r \notin assigned => Settled([status |-> status, opState |-> "CRITICAL"])
    BY <2>1 DEF PromiseOK, PhasesSettled, Settled, Promise!Settled, Promise!Engaged
  <2>3. PhasesSettled' /\ LogsChained'
    <3> HIDE DEF status
    <3>1. QED
      BY <1>3, <1>4, <2>1, <2>2, PhaseMoved DEF PromiseOK
  <2>4. PromisedRounds' = [PromisedRounds EXCEPT ![r] = [status |-> status, opState |-> "CRITICAL"]]
    BY <2>1 DEF Promise!Move, Promise!Phase
  <2>5. \A t \in Rounds : PromisedRounds'[t].status = PromisedRounds[t].status
    BY <2>4 DEF PromiseTyped
  <2>6. QED
    BY <2>1, <2>3, <2>5, StatusKept DEF PromiseOK
<1>9. ASSUME NEW r \in Rounds, Promise!Pause(r)
      PROVE  PromiseOK'
  <2>1. /\ PromisedRounds[r].status = "active"
        /\ Promise!Move(r, "paused", PromisedRounds[r].opState, <<Lifecycle("pause")>>)
        /\ UNCHANGED PromisedMissions
    BY <1>3, <1>4, <1>9 DEF Promise!Pause
  <2>2. /\ PromisedRounds[r].opState \in OperationalState
        /\ <<Lifecycle("pause")>> \in News
    BY <1>3, <1>4 DEF PromiseTyped
  <2>3. r \notin assigned => Settled([status |-> "paused", opState |-> PromisedRounds[r].opState])
    BY <2>1 DEF PromiseOK, PhasesSettled, Settled, Promise!Settled
  <2>4. QED
    BY <2>1, <2>2, <2>3, MoveKeeps
<1>10. ASSUME NEW r \in Rounds, Promise!Resume(r)
      PROVE  PromiseOK'
  <2> DEFINE to == IF PromisedRounds[r].opState = "CRITICAL" THEN "OPERATIONAL"
                   ELSE PromisedRounds[r].opState
  <2>1. /\ PromisedRounds[r].status = "paused"
        /\ Promise!Move(r, "active", to, <<Lifecycle("resume")>>)
        /\ UNCHANGED PromisedMissions
    BY <1>3, <1>4, <1>10 DEF Promise!Resume
  <2>2. to \in OperationalState /\ <<Lifecycle("resume")>> \in News
    BY <1>3, <1>4 DEF PromiseTyped
  <2>3. r \notin assigned => Settled([status |-> "active", opState |-> to])
    BY <2>1 DEF PromiseOK, PhasesSettled, Settled, Promise!Settled, Promise!Engaged
  <2> HIDE DEF to
  <2>4. QED
    BY <2>1, <2>2, <2>3, MoveKeeps
<1>11. ASSUME NEW r \in Rounds, Promise!Fail(r)
      PROVE  PromiseOK'
  <2>1. /\ PromisedRounds[r].status \in {"scheduled", "active", "paused"}
        /\ Promise!Move(r, "failed", "RECOVERY", <<Lifecycle("fail")>>)
        /\ UNCHANGED PromisedMissions
    BY <1>3, <1>4, <1>11 DEF Promise!Fail, Promise!In, Promise!Unfinished
  <2>2. /\ "RECOVERY" \in OperationalState /\ <<Lifecycle("fail")>> \in News
        /\ Settled([status |-> "failed", opState |-> "RECOVERY"])
    BY <1>3, <1>4, <2>1 DEF Settled, Promise!Settled
  <2>3. QED
    BY <2>1, <2>2, MoveKeeps
<1>12. ASSUME NEW r \in Rounds, Promise!Abandon(r)
      PROVE  PromiseOK'
  <2>1. PICK opState \in {"DORMANT", "SILENCE"} :
          Promise!Move(r, "abandoned", opState, <<Lifecycle("abandon")>>)
    BY <1>3, <1>4, <1>12 DEF Promise!Abandon
  <2>2. /\ PromisedRounds[r].status \in {"scheduled", "active", "paused"}
        /\ UNCHANGED PromisedMissions
    BY <1>12 DEF Promise!Abandon, Promise!In, Promise!Unfinished
  <2>3. opState \in OperationalState /\ Settled([status |-> "abandoned", opState |-> opState])
    BY <1>4, <2>1 DEF Settled, Promise!Settled
  <2>4. /\ <<Lifecycle("abandon")>> \in News
        /\ PromisedRounds[r].status \notin {"none", "completed"}
    BY <1>3, <1>4, <2>2
  <2>5. QED
    BY <2>1, <2>2, <2>3, <2>4, MoveKeeps
<1>13. ASSUME NEW r \in Rounds, Promise!Assign(r)
      PROVE  PromiseOK'
  <2>1. /\ \E opState : PromisedRounds' = [PromisedRounds EXCEPT ![r].opState = opState]
        /\ assigned' = assigned \cup {r}
        /\ UNCHANGED <<PromisedMissions, PromisedJournals>>
    BY <1>13 DEF Promise!Assign
  <2>2. /\ \A t \in Rounds : t # r => PromisedRounds'[t] = PromisedRounds[t]
        /\ \A t \in Rounds : PromisedRounds'[t].status = PromisedRounds[t].status
    BY <2>1 DEF PromiseTyped
  <2>3. \A t \in Rounds \ assigned' : t # r /\ t \in Rounds \ assigned
    BY <2>1
  <2>4. PhasesSettled'
    BY <2>2, <2>3 DEF PromiseOK, PhasesSettled, Settled, Promise!Settled, Promise!Engaged
  <2>5. LogsChained'
    <3>1. \A t \in Rounds : PromisedJournals'[t] = PromisedJournals[t]
      BY <2>1
    <3>2. QED
      BY <2>2, <2>3, <3>1 DEF PromiseOK, LogsChained
  <2>6. QED
    BY <2>1, <2>2, <2>4, <2>5, StatusKept DEF PromiseOK
<1>14. QED
  BY <1>1, <1>2, <1>5, <1>6, <1>7, <1>8, <1>9, <1>10, <1>11, <1>12, <1>13 DEF Promise!Next
-----------------------------------------------------------------------------
(* No mission disappears, and a round has its mission from the start.      *)
LEMMA MissionsStay ==
  ASSUME NEW s, Requests = {s}, Failures = FALSE, IInv, SerialInv, [Next]_vars
  PROVE  MissionsThere'
<1> DEFINE x == req[s]
           Stay == \A m \in Missions : missions[m].status # "none" => missions'[m].status # "none"
<1>0. \A r, op : LoadRound(s, op, r) => missions' = missions /\ rounds' = rounds
  BY DEF LoadRound, Accept
<1>1. Stay
  <2>1. ASSUME NEW m \in Missions, CreateMission(m)
        PROVE  Stay
    BY <2>1 DEF CreateMission, IInv, TypeOK, MissionRow
  <2>2. CASE SaveMission(s)
    <3>1. /\ x \in RoundRequest \cup MissionRequest /\ x.pc = "saveMission"
          /\ missions' = [missions EXCEPT ![x.mission] = x.copy]
      BY <2>2 DEF SaveMission, At, Idle, IInv, TypeOK
    <3>2. missions[x.mission].status # "none" => x.copy.status # "none"
      <4>1. CASE x \in MissionRequest
        BY <4>1 DEF SerialInv, RequestServed
      <4>2. CASE x \in RoundRequest
        <5>1. /\ x.pc \in Path[x.op] /\ x.op \in RoundOps /\ missions[x.mission] \in MissionRow
              /\ x.op = "schedule" => Schedules(x, rounds[x.round], missions[x.mission])
          BY <4>2, RequestKnown
        <5>2. x.op \in {"complete", "schedule"}
          BY <3>1, <5>1, PathValues DEF RoundOps, Transitioning
        <5>3. x.op = "complete" => x.copy = [missions[x.mission] EXCEPT !.completed = @ + 1]
          BY <3>1, <4>2 DEF SerialInv, RequestServed
        <5>4. x.copy.status = missions[x.mission].status
          BY <5>1, <5>2, <5>3 DEF Schedules, MissionRow
        <5>5. QED
          BY <5>4
      <4>3. QED
        BY <3>1, <4>1, <4>2
    <3>3. QED
      BY <3>1, <3>2 DEF IInv, TypeOK
  <2>3. CASE missions' = missions
    BY <2>3
  <2>4. QED
    BY <1>0, <2>1, <2>2, <2>3 DEF Next, Serve, vars, LoadMissionUpdate, LoadSchedule, Accept,
       Resolve, SaveState, SaveRound, InsertRound, LoadMission, EmitTransition, EmitEvent, Emit, Abort
<1>2. CASE rounds' = rounds
  BY <1>1, <1>2, ConstantsAssumption DEF SerialInv, MissionsThere
<1>3. CASE SaveState(s) \/ SaveRound(s) \/ InsertRound(s)
  <2>1. x \in RoundRequest
    BY <1>3, AtStep DEF SaveState, SaveRound, InsertRound, At, Step, IInv
  <2>2. x.mission = MissionOf[x.round] /\ missions[x.mission].status # "none"
    BY <2>1, RequestKnown, RequestMission
  <2>3. missions' = missions /\ \A r \in Rounds : r # x.round => rounds'[r] = rounds[r]
    BY <1>3 DEF SaveState, SaveRound, InsertRound, IInv, TypeOK
  <2>4. QED
    BY <2>2, <2>3 DEF SerialInv, MissionsThere
<1>4. QED
  BY <1>0, <1>2, <1>3 DEF Next, Serve, vars, CreateMission, LoadMissionUpdate, LoadSchedule, Accept,
     Resolve, LoadMission, SaveMission, EmitTransition, EmitEvent, Emit, Abort

LEMMA SerialInit ==
  ASSUME NEW s, Requests = {s}, Init
  PROVE  SerialInv /\ Promise!Init
<1>1. TypeOK /\ req[s] = Idle /\ ~Committed(req[s])
  BY IInvInit, IdleServed DEF IInv, Init
<1>2. \A r \in Rounds : PromisedRounds[r] = [status |-> "none", opState |-> "DORMANT"]
  BY <1>1, UncommittedView DEF Init, NoRow, PhaseOf
<1>3. \A r \in Rounds : PromisedJournals[r] = <<>>
  BY <1>1, UncommittedView DEF Init
<1>4. \A m \in Missions : PromisedMissions[m] = NoMission
  BY <1>1, UncommittedView DEF Init
<1>5. Promise!Init
  <2>1. /\ PromisedRounds = [r \in Rounds |-> PromisedRounds[r]]
        /\ PromisedMissions = [m \in Missions |-> PromisedMissions[m]]
        /\ PromisedJournals = [r \in Rounds |-> PromisedJournals[r]]
    BY View
  <2>2. PromisedRounds = [r \in Rounds |-> Promise!Phase("none", "DORMANT")]
    BY <1>2, <2>1 DEF Promise!Phase
  <2>3. PromisedMissions = [m \in Missions |-> [status |-> "none", total |-> 0, completed |-> 0]]
    BY <1>4, <2>1 DEF NoMission
  <2>4. PromisedJournals = [r \in Rounds |-> <<>>]
    BY <1>3, <2>1
  <2>5. QED
    BY <2>2, <2>3, <2>4 DEF Promise!Init, Init
<1>6. PhasesSettled /\ LogsChained
  BY <1>2, <1>3 DEF PhasesSettled, LogsChained, Settled, Promise!Settled, Promise!Engaged
<1>7. RoundsCounted
  <2>1. \A m : Of(m) = {} /\ CompletedOf(m) = {}
    BY <1>2 DEF Of, CompletedOf
  <2>2. \A m \in Missions : PromisedMissions[m].total = 0 /\ PromisedMissions[m].completed = 0
    BY <1>4 DEF NoMission
  <2>3. QED
    BY <2>1, <2>2, FS_EmptySet DEF RoundsCounted
<1>8. MissionsThere
  BY DEF MissionsThere, Init, NoRow
<1>9. QED
  BY <1>1, <1>5, <1>6, <1>7, <1>8, IdleServed DEF SerialInv, Init

(* One request at a time never meets another one, and drops none; a row    *)
(* somebody has written to is in the table.                                *)
LEMMA HistoryStep ==
  ASSUME NEW s, Requests = {s}, Failures = FALSE, IInv, SerialInv, [Next]_vars
  PROVE  disturbed' = {} /\ \A r \in assigned' : rounds'[r].status # "none"
<1> DEFINE x == req[s]
<1>1. /\ disturbed = {} /\ assigned \subseteq Rounds /\ rounds \in [Rounds -> Row]
      /\ \A r \in assigned : rounds[r].status # "none"
  BY DEF SerialInv, IInv, TypeOK
<1>2. CASE disturbed' = disturbed /\ assigned' = assigned /\ rounds' = rounds
  BY <1>1, <1>2
<1>3. ASSUME NEW r \in Rounds, NEW op \in Ops, LoadRound(s, op, r)
      PROVE  disturbed' = {} /\ assigned' = assigned /\ rounds' = rounds
  <2>1. req[s].pc = "idle" /\ assigned' = assigned /\ rounds' = rounds
    BY <1>3 DEF LoadRound, Accept, At
  <2>2. req[s] \in RoundRequest \cup MissionRequest \cup {Idle}
    BY DEF IInv, TypeOK
  <2>3. req[s] = Idle
    BY <2>1, <2>2 DEF RoundRequest, MissionRequest, Step
  <2>4. Quiescent(r)
    BY <2>3 DEF Quiescent
  <2>5. QED
    BY <1>1, <1>3, <2>1, <2>4 DEF LoadRound
<1>4. CASE SaveState(s) \/ SaveRound(s) \/ InsertRound(s)
  <2>1. x \in RoundRequest /\ RequestOK(x) /\ x.round \in Rounds
    BY <1>4, AtStep DEF SaveState, SaveRound, InsertRound, At, Step, IInv, RequestFits, RoundRequest
  <2>2. PICK row : rounds' = [rounds EXCEPT ![x.round] = row] /\ row.status # "none"
    <3>1. CASE SaveState(s)
      <4>1. x.machine.status # "none" /\ x.machine \in Row
        BY <2>1, <3>1 DEF SaveState, At, RequestOK, RoundRequest
      <4>2. [x.machine EXCEPT !.opState = x.to].status # "none"
        BY <4>1 DEF Row
      <4>3. QED
        BY <3>1, <4>2 DEF SaveState
    <3>2. CASE SaveRound(s)
      <4>1. x.entity.status # "none" /\ x.entity \in Row
        BY <2>1 DEF RequestOK, RoundRequest
      <4>2. Edited(x.op, x.entity, x.to).status # "none"
        BY <4>1 DEF Edited, Row
      <4>3. QED
        BY <3>2, <4>2 DEF SaveRound
    <3>3. CASE InsertRound(s)
      BY <2>1, <3>3 DEF InsertRound, RequestOK
    <3>4. QED
      BY <1>4, <3>1, <3>2, <3>3
  <2>3. disturbed' = disturbed /\ assigned' \subseteq assigned \cup {x.round}
    BY <1>4 DEF SaveState, SaveRound, InsertRound, history
  <2>4. rounds'[x.round].status # "none" /\ \A r \in Rounds : r # x.round => rounds'[r] = rounds[r]
    BY <1>1, <2>1, <2>2
  <2>5. QED
    BY <1>1, <2>3, <2>4
<1>5. QED
  BY <1>1, <1>2, <1>3, <1>4 DEF Next, Serve, vars, history, CreateMission, LoadMissionUpdate, LoadSchedule,
     Accept, Resolve, LoadMission, SaveMission, EmitTransition, EmitEvent, Emit, Abort

LEMMA SerialStep ==
  ASSUME NEW s, Requests = {s}, Failures = FALSE, IInv, SerialInv, [Next]_vars
  PROVE  SerialInv' /\ [Promise!Next]_Promise!vars
<1>1. RequestServed(req'[s], rounds', missions', assigned') /\ [Promise!Next]_Promise!vars
  BY StepPromised
<1>2. PromiseTyped /\ PromiseOK
  BY View, ViewTyped DEF PromiseTyped, PromiseOK, SerialInv, IInv
<1>3. PromiseOK'
  BY <1>1, <1>2, PromiseKeeps
<1>4. \A q \in Requests : RequestServed(req'[q], rounds', missions', assigned')
  BY <1>1
<1>5. (\A q \in Requests : RequestServed(req[q], rounds, missions, assigned))'
  BY <1>4
<1>6. QED
  BY <1>1, <1>3, <1>5, MissionsStay, HistoryStep DEF SerialInv, PromiseOK

(* One request at a time and no failed call: what the request in flight    *)
(* has still to save and to emit accounts exactly for the difference       *)
(* between the tables and what RoundsService promises.                     *)
THEOREM SerialInvariance ==
  ASSUME NEW CONSTANT s, Requests = {s}, Failures = FALSE
  PROVE  Spec => []SerialInv
<1>1. Init => SerialInv
  BY SerialInit
<1>2. IInv /\ SerialInv /\ [Next]_vars => SerialInv'
  BY SerialStep
<1>3. QED
  BY <1>1, <1>2, Invariance, PTL DEF Spec

(* RoundsService and MissionsService implement RoundPromise, step by step: *)
(* every request changes round, counters and log as one of the promise's   *)
(* operations does, or not at all.                                         *)
THEOREM ServiceImplementsPromise ==
  ASSUME NEW CONSTANT s, Requests = {s}, Failures = FALSE
  PROVE  Spec => ImplementsPromise
<1>1. Init => Promise!Init
  BY SerialInit
<1>2. IInv /\ SerialInv /\ [Next]_vars => [Promise!Next]_Promise!vars
  BY SerialStep
<1>3. QED
  BY <1>1, <1>2, Invariance, SerialInvariance, PTL DEF Spec, ImplementsPromise, Promise!Spec

(* "All transitions are persisted and emit a state.transition event": the  *)
(* log of a round nobody works on is a chain that ends in its state.       *)
THEOREM StateAlwaysJournalled ==
  ASSUME NEW CONSTANT s, Requests = {s}, Failures = FALSE
  PROVE  Spec => []StateIsJournalled
<1>1. IInv /\ SerialInv => StateIsJournalled
  <2> SUFFICES ASSUME IInv, SerialInv, NEW r \in Rounds \ (assigned \cup disturbed),
                      rounds[r].status # "none", Quiescent(r)
               PROVE  ChainTo(journal[r], rounds[r].opState)
    BY DEF StateIsJournalled
  <2>1. ~On(req[s], r)
    <3>1. req[s] \in RoundRequest \cup MissionRequest \cup {Idle}
      BY DEF IInv, TypeOK
    <3>2. ASSUME On(req[s], r) PROVE FALSE
      <4>1. Committed(req[s]) /\ req[s].round = r /\ req[s] \in RoundRequest
        BY <3>1, <3>2, CommittedIsRound DEF On
      <4>2. req[s] # Idle /\ req[s].op # "updateMission"
        BY <4>1, IdleServed DEF RoundRequest, RoundOps, Transitioning
      <4>3. QED
        BY <4>1, <4>2 DEF Quiescent
    <3>3. QED
      BY <3>2
  <2>2. PromisedRounds[r] = PhaseOf(rounds[r]) /\ PromisedJournals[r] = journal[r]
    <3>1. /\ PromisedRounds[r] = RoundView(req[s], r, rounds[r])
          /\ PromisedJournals[r] = JournalView(req[s], r, journal[r])
      BY View
    <3>2. QED
      BY <2>1, <3>1 DEF RoundView, JournalView
  <2>3. PromisedRounds[r].status # "none" /\ PromisedRounds[r].opState = rounds[r].opState
    BY <2>2 DEF PhaseOf
  <2>4. QED
    BY <2>2, <2>3 DEF SerialInv, LogsChained
<1>2. QED
  BY <1>1, Invariance, SerialInvariance, PTL

(* With no request in flight a mission's counters count its rounds and its *)
(* completed rounds.                                                       *)
THEOREM CountersAlwaysExact ==
  ASSUME NEW CONSTANT s, Requests = {s}, Failures = FALSE
  PROVE  Spec => []CountersExact
<1>1. IInv /\ SerialInv => CountersExact
  <2> SUFFICES ASSUME IInv, SerialInv, NEW m \in Missions, req[s] = Idle
               PROVE  LET mine == {r \in Rounds : MissionOf[r] = m /\ rounds[r].status # "none"} IN
                      /\ missions[m].total = Cardinality(mine)
                      /\ missions[m].completed
                           = Cardinality({r \in mine : rounds[r].status = "completed"})
    BY DEF CountersExact
  <2> DEFINE mine == {r \in Rounds : MissionOf[r] = m /\ rounds[r].status # "none"}
             done == {r \in mine : rounds[r].status = "completed"}
  <2>1. /\ \A r \in Rounds : PromisedRounds[r] = PhaseOf(rounds[r])
        /\ PromisedMissions[m] = missions[m]
    <3>1. TypeOK /\ ~Committed(req[s])
      BY IdleServed DEF IInv
    <3>2. /\ \A r \in Rounds : PromisedRounds[r] = PhaseOf(rounds[r])
          /\ \A n \in Missions : PromisedMissions[n] = missions[n]
      BY <3>1, UncommittedView, Zenon
    <3>3. QED
      BY <3>2
  <2>2. \A r \in Rounds : PromisedRounds[r].status = rounds[r].status
    <3>1. \A row : PhaseOf(row).status = row.status
      BY DEF PhaseOf
    <3>2. QED
      BY <2>1, <3>1, Zenon
  <2>3. mine = Of(m) /\ done = CompletedOf(m)
    BY <2>2 DEF Of, CompletedOf
  <2>4. missions[m].total = Cardinality(Of(m)) /\ missions[m].completed = Cardinality(CompletedOf(m))
    BY <2>1 DEF SerialInv, RoundsCounted
  <2>5. QED
    BY <2>3, <2>4
<1>2. QED
  BY <1>1, Invariance, SerialInvariance, PTL
=============================================================================
