--------------------------- MODULE RoundLifecycle ---------------------------
(***************************************************************************)
(* RoundsService and MissionsService over their two tables and the event   *)
(* log (packages/backend/src/modules/{rounds,missions,events}).            *)
(*                                                                         *)
(* Every operation is a sequence of awaited repository calls.  Nothing is  *)
(* locked and no transaction spans two of them, so one action here is one  *)
(* awaited call, and the calls of requests in flight together interleave.  *)
(* An operation works on the entity it loaded first and writes all of it   *)
(* back with Repository.save: a save overwrites the row with a copy that   *)
(* may be stale by then.                                                   *)
(*                                                                         *)
(* A row holds the columns the lifecycle decides on.  The operations that  *)
(* write only others (stats, points, notes) are the one operation "touch". *)
(* updateOperationalState may also be given an operational state, which it *)
(* writes as it is, past the state machine and with no event: "assign".    *)
(* It and escalateToCritical have no caller in the repository yet.         *)
(***************************************************************************)
EXTENDS RoundStateMachine, Naturals, Sequences, FiniteSets

CONSTANTS
  Rounds,      \* round ids the database may hand out
  Missions,    \* mission ids
  MissionOf,   \* the mission each round id is created for
  Requests,    \* slots for requests in flight together
  Ops,         \* the operations somebody calls in this instance
  MaxRequests, \* bound: requests accepted in one behaviour
  Failures     \* TRUE: an awaited call may reject, or the process may die

Transitioning == {"start", "complete", "abandon", "fail", "resume", "escalate"}
RoundOps == Transitioning \cup {"pause", "touch", "assign", "schedule"}
Operations == RoundOps \cup {"updateMission"}

ASSUME ConstantsAssumption ==
  /\ MissionOf \in [Rounds -> Missions]
  /\ Ops \subseteq Operations
  /\ MaxRequests \in Nat
  /\ Failures \in BOOLEAN

VARIABLES
  rounds,    \* the rounds table
  missions,  \* the missions table
  journal,   \* the events table, by round
  req,       \* the local state of each request in flight
  accepted,  \* requests accepted so far
  assigned,  \* history: the rounds that "assign" has been saved on
  disturbed  \* history: the rounds two requests have worked on at once, and
             \* those whose transition was saved and will never be emitted

history == <<assigned, disturbed>>
vars == <<rounds, missions, journal, req, accepted, history>>
-----------------------------------------------------------------------------
RoundStatus ==
  {"none", "scheduled", "active", "paused", "completed", "failed", "abandoned"}
MissionStatus == {"none", "draft", "active", "completed", "archived"}
FinalStatus == {"completed", "failed", "abandoned"}

Row == [status : RoundStatus, opState : OperationalState,
        started : BOOLEAN, ended : BOOLEAN]
MissionRow == [status : MissionStatus, total : Nat, completed : Nat]

NoRow == [status |-> "none", opState |-> "DORMANT", started |-> FALSE, ended |-> FALSE]
(* An operator commented "Fault" is not the code but the definition that   *)
(* follows it with one slip a maintainer could make: the properties are    *)
(* tried against it.                                                       *)

(* Fault: a new round gets a new mission's status. *)
NewRowFault == [NoRow EXCEPT !.status = "draft", !.opState = "MONITORING"]
NewRow == [NoRow EXCEPT !.status = "scheduled", !.opState = "MONITORING"]
NoMission == [status |-> "none", total |-> 0, completed |-> 0]

Step == {"resolve", "saveState", "insertRound", "saveRound", "loadMission",
         "saveMission", "emitTransition", "emitEvent"}

Transition(from, to) == [type |-> "state.transition", from |-> from, to |-> to]
Lifecycle(op) == [type |-> op]
Event == [type : {"state.transition"}, from : OperationalState, to : OperationalState]
           \cup [type : RoundOps]

(* A request in flight: the entity it loaded, the second copy              *)
(* transitionState loads, the state that one resolves to, and the mission  *)
(* entity to be saved.                                                     *)
RoundRequest ==
  [op : RoundOps, pc : Step, round : Rounds, entity : Row, machine : Row,
   to : OperationalState, mission : Missions, copy : MissionRow]
MissionRequest ==
  [op : {"updateMission"}, pc : {"saveMission"}, mission : Missions, copy : MissionRow]
Idle == [pc |-> "idle"]

TypeOK ==
  /\ rounds \in [Rounds -> Row]
  /\ missions \in [Missions -> MissionRow]
  /\ journal \in [Rounds -> Seq(Event)]
  /\ req \in [Requests -> RoundRequest \cup MissionRequest \cup {Idle}]
  /\ accepted \in 0..MaxRequests
  /\ assigned \subseteq Rounds
  /\ disturbed \subseteq Rounds

Init ==
  /\ rounds = [r \in Rounds |-> NoRow]
  /\ missions = [m \in Missions |-> NoMission]
  /\ journal = [r \in Rounds |-> <<>>]
  /\ req = [q \in Requests |-> Idle]
  /\ accepted = 0
  /\ assigned = {}
  /\ disturbed = {}
-----------------------------------------------------------------------------
(* Fault: pauseRound without its status check. *)
AcceptsFault(op, row) ==
  \/ op = "start"    /\ row.status \in {"scheduled", "paused"}
  \/ op \in {"pause", "touch", "assign"}
  \/ op = "resume"   /\ row.status = "paused"
  \/ op \in {"complete", "abandon", "fail"} /\ row.status \notin FinalStatus
  \/ op = "escalate" /\ row.opState = "OPERATIONAL"

(* What the guards of the operations ask of the entity they loaded.  A     *)
(* request that fails them, or start on an active round, changes nothing.  *)
Accepts(op, row) ==
  \/ op = "start"    /\ row.status \in {"scheduled", "paused"}
  \/ op = "pause"    /\ row.status = "active"
  \/ op = "resume"   /\ row.status = "paused"
  \/ op \in {"complete", "abandon", "fail"} /\ row.status \notin FinalStatus
  \/ op = "escalate" /\ row.opState = "OPERATIONAL"
  \/ op \in {"touch", "assign"}

Trigger ==
  [start |-> "round.started", complete |-> "round.completed",
   abandon |-> "round.abandoned", fail |-> "round.failed",
   resume |-> "round.resumed", escalate |-> "round.violations_threshold"]

(* The operations that edit and save their entity and are done with it.    *)
Direct == {"pause", "touch", "assign"}

(* Fault: resumeRound never leaves CRITICAL. *)
FirstStepFault(op, row) == IF op \in Direct \cup {"resume"} THEN "saveRound" ELSE "resolve"

(* resumeRound calls the state machine only when its entity is CRITICAL.   *)
FirstStep(op, row) ==
  IF op \in Direct \/ (op = "resume" /\ row.opState # "CRITICAL")
    THEN "saveRound" ELSE "resolve"

(* The order of the awaited calls in each operation.  resume emits before  *)
(* it saves (line 250), schedule saves the mission last (line 177).        *)
After(op, step) ==
  CASE step = "resolve"        -> "saveState"
    [] step = "saveState"      -> IF op \in {"resume", "escalate"} THEN "emitTransition" ELSE "saveRound"
    [] step = "insertRound"    -> "emitTransition"
    [] step = "saveRound"      -> CASE op = "complete" -> "loadMission"
                                    [] op \in {"touch", "assign"} -> "done"
                                    [] op \in {"pause", "resume"} -> "emitEvent"
                                    [] OTHER -> "emitTransition"
    [] step = "loadMission"    -> "saveMission"
    [] step = "saveMission"    -> IF op = "complete" THEN "emitTransition" ELSE "done"
    [] step = "emitTransition" -> CASE op = "resume" -> "saveRound"
                                    [] op = "escalate" -> "done"
                                    [] OTHER -> "emitEvent"
    [] step = "emitEvent"      -> IF op = "schedule" THEN "saveMission" ELSE "done"

(* The entity as each operation writes it back. *)
Edited(op, entity, to) ==
  CASE op = "start"    -> [entity EXCEPT !.status = "active", !.opState = to, !.started = TRUE]
    [] op = "pause"    -> [entity EXCEPT !.status = "paused"]
    [] op = "resume"   -> [entity EXCEPT !.status = "active", !.opState = to]
    [] op = "complete" -> [entity EXCEPT !.status = "completed", !.opState = to, !.ended = TRUE]
    [] op = "abandon"  -> [entity EXCEPT !.status = "abandoned", !.opState = to, !.ended = TRUE]
    [] op = "fail"     -> [entity EXCEPT !.status = "failed", !.opState = to, !.ended = TRUE]
    [] op = "assign"   -> [entity EXCEPT !.opState = to]
    [] OTHER           -> entity

At(q, step) == req[q].pc = step

Quiescent(r) == \A q \in Requests : req[q] # Idle => req[q].op = "updateMission" \/ req[q].round # r

(* Request q goes on to the next call, with its local state as in `local`. *)
Continue(q, local) ==
  LET next == After(req[q].op, req[q].pc)
  IN  req' = [req EXCEPT ![q] = IF next = "done" THEN Idle ELSE [local EXCEPT !.pc = next]]
-----------------------------------------------------------------------------
(* MissionsService.create: one insert. *)
CreateMission(m) ==
  /\ missions[m].status = "none"
  /\ missions' = [missions EXCEPT ![m].status = "draft"]
  /\ UNCHANGED <<rounds, journal, req, accepted, history>>

Accept(q, request) ==
  /\ At(q, "idle")
  /\ accepted < MaxRequests
  /\ accepted' = accepted + 1
  /\ req' = [req EXCEPT ![q] = request]
  /\ UNCHANGED <<rounds, missions, journal, assigned>>

(* MissionsService.update loads the mission, refuses an archived one and   *)
(* edits the entity; the save is SaveMission.                              *)
LoadMissionUpdate(q, m, status) ==
  /\ "updateMission" \in Ops
  /\ missions[m].status \notin {"none", "archived"}
  /\ Accept(q, [op |-> "updateMission", pc |-> "saveMission", mission |-> m,
                copy |-> [missions[m] EXCEPT !.status = status]])
  /\ UNCHANGED disturbed

(* createRound loads the mission and refuses a finished one.  The id it    *)
(* will insert under is fresh: no row has it and no other request.         *)
LoadSchedule(q, r) ==
  LET m == MissionOf[r] IN
  /\ "schedule" \in Ops
  /\ rounds[r].status = "none"
  /\ \A p \in Requests : req[p] # Idle /\ req[p].op = "schedule" => req[p].round # r
  /\ missions[m].status \notin {"none", "archived", "completed"}
  /\ Accept(q, [op |-> "schedule", pc |-> "insertRound", round |-> r, entity |-> NewRow,
                machine |-> NoRow, to |-> "MONITORING", mission |-> m,
                copy |-> [missions[m] EXCEPT !.total = @ + 1]])
  /\ UNCHANGED disturbed

(* Every other operation starts by loading the round (404 when there is    *)
(* none) and checking it.  assign is given the state it is to write.       *)
LoadRound(q, op, r) ==
  /\ op \in Ops \ {"schedule", "updateMission"}
  /\ rounds[r].status # "none"
  /\ Accepts(op, rounds[r])
  /\ \E to \in IF op = "assign" THEN OperationalState ELSE {rounds[r].opState} :
       Accept(q, [op |-> op, pc |-> FirstStep(op, rounds[r]), round |-> r, entity |-> rounds[r],
                  machine |-> rounds[r], to |-> to, mission |-> MissionOf[r],
                  copy |-> NoMission])
  /\ disturbed' = disturbed \cup IF Quiescent(r) THEN {} ELSE {r}

(* transitionState: load the round again and resolve the trigger.  On      *)
(* null it throws and the request ends with nothing written.  No operation *)
(* passes the option `force`.                                              *)
Resolve(q) ==
  LET row == rounds[req[q].round]
      targets == Targets(row.opState, Trigger[req[q].op], {})
  IN
  /\ At(q, "resolve")
  /\ \/ \E to \in targets : Continue(q, [req[q] EXCEPT !.machine = row, !.to = to])
     \/ targets = {} /\ req' = [req EXCEPT ![q] = Idle]
  /\ UNCHANGED <<rounds, missions, journal, accepted, history>>

(* transitionState: save the second copy with its new operational state. *)
SaveState(q) ==
  /\ At(q, "saveState")
  /\ rounds' = [rounds EXCEPT ![req[q].round] = [req[q].machine EXCEPT !.opState = req[q].to]]
  /\ Continue(q, req[q])
  /\ UNCHANGED <<missions, journal, accepted, history>>

(* Fault: the entity keeps the operational state it was loaded with. *)
SaveRoundFault(q) ==
  /\ At(q, "saveRound")
  /\ rounds' = [rounds EXCEPT ![req[q].round] =
                  Edited(req[q].op, req[q].entity, req[q].entity.opState)]
  /\ assigned' = assigned \cup IF req[q].op = "assign" THEN {req[q].round} ELSE {}
  /\ Continue(q, req[q])
  /\ UNCHANGED <<missions, journal, accepted, disturbed>>

(* The operation edits the entity it loaded first and saves it. *)
SaveRound(q) ==
  /\ At(q, "saveRound")
  /\ rounds' = [rounds EXCEPT ![req[q].round] = Edited(req[q].op, req[q].entity, req[q].to)]
  /\ assigned' = assigned \cup IF req[q].op = "assign" THEN {req[q].round} ELSE {}
  /\ Continue(q, req[q])
  /\ UNCHANGED <<missions, journal, accepted, disturbed>>

InsertRound(q) ==
  /\ At(q, "insertRound")
  /\ rounds' = [rounds EXCEPT ![req[q].round] = req[q].entity]
  /\ Continue(q, req[q])
  /\ UNCHANGED <<missions, journal, accepted, history>>

(* Fault: the wrong counter. *)
LoadMissionMiscounts(q) ==
  /\ At(q, "loadMission")
  /\ Continue(q, [req[q] EXCEPT !.copy = [missions[req[q].mission] EXCEPT !.total = @ + 1]])
  /\ UNCHANGED <<rounds, missions, journal, accepted, history>>

(* Fault: completeRound returns early when the mission has been archived. *)
LoadMissionGivesUp(q) ==
  /\ At(q, "loadMission")
  /\ IF missions[req[q].mission].status = "archived"
       THEN req' = [req EXCEPT ![q] = Idle]
       ELSE Continue(q, [req[q] EXCEPT !.copy = [missions[req[q].mission] EXCEPT !.completed = @ + 1]])
  /\ UNCHANGED <<rounds, missions, journal, accepted, history>>

(* completeRound: load the mission and bump its counter in memory. *)
LoadMission(q) ==
  /\ At(q, "loadMission")
  /\ Continue(q, [req[q] EXCEPT !.copy = [missions[req[q].mission] EXCEPT !.completed = @ + 1]])
  /\ UNCHANGED <<rounds, missions, journal, accepted, history>>

SaveMission(q) ==
  /\ At(q, "saveMission")
  /\ missions' = [missions EXCEPT ![req[q].mission] = req[q].copy]
  /\ Continue(q, req[q])
  /\ UNCHANGED <<rounds, journal, accepted, history>>

(* EventsService.emit: append to the log. *)
Emit(q, event) ==
  /\ journal' = [journal EXCEPT ![req[q].round] = Append(@, event)]
  /\ Continue(q, req[q])
  /\ UNCHANGED <<rounds, missions, accepted, history>>

(* Fault: from and to swapped. *)
EmitTransitionFault(q) ==
  /\ At(q, "emitTransition")
  /\ Emit(q, Transition(req[q].to, req[q].machine.opState))

EmitTransition(q) ==
  /\ At(q, "emitTransition")
  /\ Emit(q, Transition(req[q].machine.opState, req[q].to))

EmitEvent(q) ==
  /\ At(q, "emitEvent")
  /\ Emit(q, Lifecycle(req[q].op))

(* Request x has saved a new operational state, or inserted the round, and *)
(* has not emitted the transition.                                         *)
OwesTransition(x) ==
  \/ x.pc = "emitTransition"
  \/ x.op = "complete" /\ x.pc \in {"loadMission", "saveMission"}
  \/ x.op \in Transitioning \ {"resume"} /\ x.pc = "saveRound"

(* The awaited call rejects, or the process dies: the request is gone and  *)
(* what it has saved so far stays.                                         *)
Abort(q) ==
  /\ Failures
  /\ req[q] # Idle
  /\ req' = [req EXCEPT ![q] = Idle]
  /\ disturbed' = disturbed \cup IF OwesTransition(req[q]) THEN {req[q].round} ELSE {}
  /\ UNCHANGED <<rounds, missions, journal, accepted, assigned>>

Serve(q) ==
  \/ Resolve(q) \/ SaveState(q) \/ SaveRound(q) \/ InsertRound(q)
  \/ LoadMission(q) \/ SaveMission(q) \/ EmitTransition(q) \/ EmitEvent(q)

Next ==
  \/ \E m \in Missions : CreateMission(m)
  \/ \E q \in Requests :
       \/ \E m \in Missions, status \in MissionStatus \ {"none"} : LoadMissionUpdate(q, m, status)
       \/ \E r \in Rounds : LoadSchedule(q, r)
       \/ \E r \in Rounds, op \in Ops : LoadRound(q, op, r)
       \/ Serve(q)
       \/ Abort(q)

Spec == Init /\ [][Next]_vars

(* The event loop runs every pending continuation: a request in flight is  *)
(* served to its end.  Nobody has to send requests.                        *)
FairSpec == Spec /\ \A q \in Requests : WF_vars(Serve(q))
-----------------------------------------------------------------------------
(* A round that is over has an end time, one that runs has been started. *)
EndCoupled(row) ==
  /\ row.status \in FinalStatus => row.ended
  /\ row.status \in {"active", "paused"} => row.started

(* The operational state that goes with each status: what the state        *)
(* machine resolves round.completed, round.failed and round.abandoned to.  *)
StateCoupled(row) ==
  /\ row.status = "completed" => row.opState = "EXTRACTION"
  /\ row.status = "failed" => row.opState = "RECOVERY"
  /\ row.status = "abandoned" => row.opState \in {"DORMANT", "SILENCE"}
  /\ row.status \in {"active", "paused"} => row.opState \notin {"DORMANT", "MONITORING"}

(* SAFETY.  However requests interleave and wherever they die, a row that  *)
(* says a round is over also carries the operational state of that ending  *)
(* and an end time, and one that says a round is running or paused has     *)
(* been started and is never back in a state that precedes the start.  The *)
(* columns are written by two saves from two different copies of the row   *)
(* (transitionState, then the operation), so no single line ensures it.    *)
(* Only a state that updateOperationalState was told to write uncouples    *)
(* state and status (lines 417-419).                                       *)
RowsCoupled ==
  \A r \in Rounds :
    EndCoupled(rounds[r]) /\ (r \notin assigned => StateCoupled(rounds[r]))

(* A request in flight that will still save round r from a copy that is no *)
(* longer what the table holds.                                            *)
Outdated(row, r) == row.status # rounds[r].status \/ row.opState # rounds[r].opState

WillSaveEntity(q) ==
  \/ req[q].pc \in {"resolve", "saveState", "saveRound"} /\ req[q].op # "escalate"
  \/ req[q].pc = "emitTransition" /\ req[q].op = "resume"

StaleWriter(q, r) ==
  /\ req[q] # Idle /\ req[q].op \in RoundOps \ {"schedule"} /\ req[q].round = r
  /\ \/ WillSaveEntity(q) /\ Outdated(req[q].entity, r)
     \/ At(q, "saveState") /\ Outdated(req[q].machine, r)

(* ACTION.  A finished round keeps its status unless a request still holds *)
(* a copy loaded before the round was finished: the stale save is the only *)
(* way a round comes back to life.  Its operational state stays as well,   *)
(* unless it was written directly, now or before: then the state is no     *)
(* longer that of an ending, and escalateToCritical accepts it too.        *)
FinalRowsStick ==
  [][\A r \in Rounds :
       /\ rounds[r].status \in FinalStatus
       /\ \A q \in Requests : ~StaleWriter(q, r)
       => /\ rounds'[r].status = rounds[r].status
          /\ rounds'[r].opState = rounds[r].opState \/ r \in assigned']_vars

(* The transitions in a round's log form a chain that ends in `state`.     *)
ChainTo(log, state) ==
  LET moves == {i \in DOMAIN log : log[i].type = "state.transition"} IN
  /\ \E i \in moves : log[i].to = state /\ \A j \in moves : j <= i
  /\ \A i, j \in moves :
       i < j /\ (\A k \in moves : k <= i \/ j <= k) => log[i].to = log[j].from

(* SAFETY.  "All transitions are persisted and emit a state.transition     *)
(* event" (round-state-machine.service.ts lines 25-26): once no request is *)
(* working on a round, its operational state is where the last journalled  *)
(* transition led, and the transitions in the journal form a chain.  It    *)
(* can fail in three ways only, each of them real: two requests worked on  *)
(* the round at once, one was cut off after it had saved a transition and  *)
(* before it emitted it, or updateOperationalState wrote the state.        *)
StateIsJournalled ==
  \A r \in Rounds \ (assigned \cup disturbed) :
    rounds[r].status # "none" /\ Quiescent(r) => ChainTo(journal[r], rounds[r].opState)

(* SAFETY.  With no request in flight, a mission's counters count its      *)
(* rounds and its completed rounds.                                        *)
CountersExact ==
  \A m \in Missions : (\A q \in Requests : req[q] = Idle) =>
    LET mine == {r \in Rounds : MissionOf[r] = m /\ rounds[r].status # "none"} IN
    /\ missions[m].total = Cardinality(mine)
    /\ missions[m].completed = Cardinality({r \in mine : rounds[r].status = "completed"})

(* LIVENESS.  completeRound has four calls left after it saved the round,  *)
(* two of them on the mission: a round that was saved as completed is      *)
(* eventually announced in the event log (lines 281-300).                  *)
FinishIsJournalled ==
  \A r \in Rounds :
    (rounds[r].status = "completed")
      ~> (\E i \in 1..Len(journal[r]) : journal[r][i] = Lifecycle("complete"))
-----------------------------------------------------------------------------
(***************************************************************************)
(* The inductive invariant behind RowsCoupled and FinalRowsStick: what is  *)
(* known of the copies a request carries, and what only as long as nobody  *)
(* has written the round's operational state directly.                     *)
(***************************************************************************)

(* What `to` can be from the moment a trigger has been resolved. *)
ResolvedTo(op, to) ==
  /\ op = "start" => to = "OPERATIONAL"
  /\ op = "complete" => to = "EXTRACTION"
  /\ op = "fail" => to = "RECOVERY"
  /\ op = "abandon" => to \in {"DORMANT", "SILENCE"}

RequestOK(x) ==
  /\ EndCoupled(x.entity) /\ x.entity.status # "none"
  /\ x.op \notin {"touch", "assign", "schedule", "escalate"} => x.entity.status \notin FinalStatus
  /\ x.op = "resume" => x.entity.status = "paused"
  /\ x.op = "pause" => x.entity.status = "active"
  /\ x.pc = "insertRound" => x.op = "schedule"
  /\ x.pc \in {"resolve", "saveState"} => x.op \in Transitioning
  /\ x.pc = "saveRound" => x.op \notin {"escalate", "schedule"}
  /\ x.pc # "resolve" => ResolvedTo(x.op, x.to)
  /\ x.pc = "saveState" => EndCoupled(x.machine) /\ x.machine.status # "none"

StateOK(x) ==
  /\ StateCoupled(x.entity)
  /\ x.op = "resume" /\ x.pc # "resolve" => x.to \notin {"DORMANT", "MONITORING"}
  /\ x.pc = "saveState" =>
       /\ x.machine.status \notin FinalStatus
       /\ StateCoupled([x.machine EXCEPT !.opState = x.to])

RequestFits(x, direct) == RequestOK(x) /\ (x.round \notin direct => StateOK(x))

(* A request on an existing round works on a row that is in the table; the *)
(* id of a round about to be inserted is used by no row and no one else.   *)
RoundPresent(q) ==
  IF req[q].pc = "insertRound"
    THEN /\ rounds[req[q].round].status = "none"
         /\ \A p \in Requests \ {q} :
              req[p] \in RoundRequest /\ req[p].pc = "insertRound" => req[p].round # req[q].round
    ELSE req[q].op # "schedule" => rounds[req[q].round].status # "none"

IInv ==
  /\ TypeOK
  /\ RowsCoupled
  /\ \A q \in Requests :
       req[q] \in RoundRequest => RequestFits(req[q], assigned) /\ RoundPresent(q)
=============================================================================
