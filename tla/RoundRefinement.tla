-------------------------- MODULE RoundRefinement --------------------------
(***************************************************************************)
(* RoundLifecycle implements RoundPromise when requests do not overlap and *)
(* no call fails.  An operation takes effect with its first save: from     *)
(* then on the mapping shows the round, the counters and the log as they   *)
(* will be when the request has been served.                               *)
(***************************************************************************)
EXTENDS RoundLifecycle

(* The events request x has still to emit. *)
Owed(x) ==
  LET moved == <<Transition(x.machine.opState, x.to)>>
      news == <<Lifecycle(x.op)>>
  IN IF x.op = "schedule" /\ x.pc = "saveMission" THEN <<>>
     ELSE IF x.pc = "emitEvent" \/ (x.op = "resume" /\ x.pc = "saveRound") THEN news
     ELSE IF x.op = "escalate" THEN moved
     ELSE moved \o news

(* Request x has done its first save on a round, and not its last step. *)
Committed(x) ==
  \/ /\ x.pc \in {"loadMission", "saveMission", "emitTransition", "emitEvent"}
     /\ x.op # "updateMission"
  \/ /\ x.pc = "saveRound"
     /\ \/ x.op \in Transitioning \ {"resume"}
        \/ x.op = "resume" /\ x.entity.opState = "CRITICAL"

Commits(r) == {q \in Requests : Committed(req[q]) /\ req[q].round = r}

(* The row as it will be when request x has been served. *)
Served(x, row) == IF x.op = "escalate" THEN row ELSE Edited(x.op, x.entity, x.to)

PromisedRound(r) ==
  LET row == IF Commits(r) = {} THEN rounds[r]
             ELSE Served(req[CHOOSE q \in Commits(r) : TRUE], rounds[r])
  IN  [status |-> row.status, opState |-> row.opState]

PromisedJournal(r) ==
  IF Commits(r) = {} THEN journal[r]
  ELSE journal[r] \o Owed(req[CHOOSE q \in Commits(r) : TRUE])

(* Request x will still count m's new round, or its completed one. *)
CountsTotal(x, m) == Committed(x) /\ x.op = "schedule" /\ x.mission = m
CountsCompleted(x, m) ==
  /\ Committed(x) /\ x.op = "complete" /\ x.mission = m
  /\ x.pc \in {"saveRound", "loadMission", "saveMission"}

PromisedMission(m) ==
  [missions[m] EXCEPT
     !.total = @ + Cardinality({q \in Requests : CountsTotal(req[q], m)}),
     !.completed = @ + Cardinality({q \in Requests : CountsCompleted(req[q], m)})]

PromisedRounds == [r \in Rounds |-> PromisedRound(r)]
PromisedMissions == [m \in Missions |-> PromisedMission(m)]
PromisedJournals == [r \in Rounds |-> PromisedJournal(r)]

Promise == INSTANCE RoundPromise WITH
  rounds <- PromisedRounds, missions <- PromisedMissions, journal <- PromisedJournals,
  assigned <- assigned

(* REFINEMENT.  Every behaviour of the service, one request at a time, is  *)
(* a behaviour of RoundPromise: every operation changes round, counters    *)
(* and log together, along the documented phases, or not at all.  Only     *)
(* updateOperationalState may leave the phases, and the log behind.        *)
ImplementsPromise == Promise!Spec
-----------------------------------------------------------------------------
(***************************************************************************)
(* The inductive invariant behind the refinement, StateIsJournalled and    *)
(* CountersExact, for one request at a time: what holds of the promised    *)
(* rounds, missions and logs, and how the request in flight relates the    *)
(* tables to them.                                                         *)
(***************************************************************************)

(* A promised round is in a phase that its status goes with.               *)
Settled(phase) == Promise!Settled(phase)

PhasesSettled == \A r \in Rounds \ assigned : Settled(PromisedRounds[r])

(* StateIsJournalled of the promise, at all times. *)
LogsChained ==
  \A r \in Rounds \ assigned :
    IF PromisedRounds[r].status = "none" THEN PromisedJournals[r] = <<>>
    ELSE ChainTo(PromisedJournals[r], PromisedRounds[r].opState)

Of(m) == {r \in Rounds : MissionOf[r] = m /\ PromisedRounds[r].status # "none"}
CompletedOf(m) == {r \in Rounds : MissionOf[r] = m /\ PromisedRounds[r].status = "completed"}

(* CountersExact of the promise, at all times. *)
RoundsCounted ==
  \A m \in Missions :
    /\ IsFiniteSet(Of(m))
    /\ PromisedMissions[m].total = Cardinality(Of(m))
    /\ PromisedMissions[m].completed = Cardinality(CompletedOf(m))

MissionsThere ==
  \A r \in Rounds : rounds[r].status # "none" => missions[MissionOf[r]].status # "none"

(* The calls of each operation. *)
Path ==
  LET moves == {"resolve", "saveState", "saveRound", "emitTransition", "emitEvent"} IN
  [start |-> moves, abandon |-> moves, fail |-> moves, resume |-> moves,
   complete |-> moves \cup {"loadMission", "saveMission"},
   escalate |-> {"resolve", "saveState", "emitTransition"},
   pause |-> {"saveRound", "emitEvent"}, touch |-> {"saveRound"}, assign |-> {"saveRound"},
   schedule |-> {"insertRound", "emitTransition", "emitEvent", "saveMission"}]

(* What the table holds of the round that request x works on: the entity   *)
(* as it was loaded; with the new operational state; as the operation      *)
(* writes it back.                                                         *)
HalfSaved(x) ==
  x.pc = "saveRound" \/ (x.pc = "emitTransition" /\ x.op \in {"resume", "escalate"})
TableHolds(x, row) ==
  row = IF ~Committed(x) THEN x.entity
        ELSE IF HalfSaved(x) THEN [x.entity EXCEPT !.opState = x.to]
        ELSE Edited(x.op, x.entity, x.to)

(* resume on a round that is not CRITICAL calls no state machine.          *)
Unmoved(x) == x.op = "resume" /\ x.entity.opState # "CRITICAL"

(* Nobody else has written to the round since x loaded it, so both copies  *)
(* are the same and `to` is where its state leads.  `direct` are the       *)
(* rounds whose state was written directly: theirs may be any.             *)
WorksAlone(x, row, direct) ==
  /\ x.machine = x.entity /\ Accepts(x.op, x.entity)
  /\ x.round \notin direct => Settled(x.entity)
  /\ TableHolds(x, row)
  /\ Unmoved(x) => x.pc \in {"saveRound", "emitEvent"} /\ x.to = x.entity.opState
  /\ ~Unmoved(x) /\ x.op \in Transitioning /\ x.pc # "resolve" =>
       x.to \in resolveTransition(x.entity.opState, Trigger[x.op])

(* The round being scheduled, and its mission as it will be saved.         *)
Schedules(x, row, mission) ==
  /\ x.machine = NoRow /\ x.entity = NewRow /\ x.to = "MONITORING"
  /\ mission.status \in {"draft", "active"} /\ x.copy = [mission EXCEPT !.total = @ + 1]
  /\ IF x.pc = "insertRound" THEN row.status = "none" ELSE row = NewRow

RequestServed(x, rows, ms, direct) ==
  /\ x \in RoundRequest =>
       /\ x.pc \in Path[x.op] /\ x.mission = MissionOf[x.round]
       /\ x.op = "schedule" => Schedules(x, rows[x.round], ms[x.mission])
       /\ x.op # "schedule" => WorksAlone(x, rows[x.round], direct)
       /\ x.op = "complete" /\ x.pc = "saveMission" =>
            x.copy = [ms[x.mission] EXCEPT !.completed = @ + 1]
  /\ x \in MissionRequest =>
       /\ ms[x.mission].status \notin {"none", "archived"} /\ x.copy.status # "none"
       /\ x.copy = [ms[x.mission] EXCEPT !.status = x.copy.status]

SerialInv ==
  /\ PhasesSettled /\ LogsChained /\ RoundsCounted /\ MissionsThere
  /\ disturbed = {} /\ \A r \in assigned : rounds[r].status # "none"
  /\ \A q \in Requests : RequestServed(req[q], rounds, missions, assigned)
=============================================================================
