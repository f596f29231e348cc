---------------------------- MODULE RoundPromise ----------------------------
(***************************************************************************)
(* What RoundsService promises its callers, with no notion of saves,       *)
(* copies or requests: each operation is one step that changes the round,  *)
(* its mission's counters and the event log together.  RoundLifecycle,     *)
(* serving one request at a time with no failure, implements this module   *)
(* (RoundRefinement).                                                      *)
(***************************************************************************)
EXTENDS Naturals, Sequences

CONSTANTS Rounds, Missions, MissionOf

VARIABLES
  rounds, missions, journal,
  assigned  \* the rounds whose operational state somebody has set directly

vars == <<rounds, missions, journal, assigned>>

Phase(status, opState) == [status |-> status, opState |-> opState]
Moved(from, to) == [type |-> "state.transition", from |-> from, to |-> to]
Announced(op) == [type |-> op]

Init ==
  /\ rounds = [r \in Rounds |-> Phase("none", "DORMANT")]
  /\ missions = [m \in Missions |-> [status |-> "none", total |-> 0, completed |-> 0]]
  /\ journal = [r \in Rounds |-> <<>>]
  /\ assigned = {}

(* The phases of a round that nobody has set the operational state of.     *)
Engaged == {"OPERATIONAL", "CRITICAL"}
Settled(phase) ==
  /\ phase.status = "none" => phase.opState = "DORMANT"
  /\ phase.status = "scheduled" => phase.opState = "MONITORING"
  /\ phase.status \in {"active", "paused"} => phase.opState \in Engaged

(* Round r moves to a new phase and the log gets the events of the move:   *)
(* the transition, when the operational state changes, then `news`.        *)
Move(r, status, opState, news) ==
  LET from == rounds[r].opState IN
  /\ r \in assigned \/ Settled(rounds[r])
  /\ rounds' = [rounds EXCEPT ![r] = Phase(status, opState)]
  /\ journal' = [journal EXCEPT ![r] =
       @ \o (IF from = opState THEN <<>> ELSE <<Moved(from, opState)>>) \o news]
  /\ UNCHANGED assigned

In(r, status, opStates) == rounds[r].status \in status /\ rounds[r].opState \in opStates
Unfinished == {"scheduled", "active", "paused"}

CreateMission(m) ==
  /\ missions[m].status = "none"
  /\ missions' = [missions EXCEPT ![m].status = "draft"]
  /\ UNCHANGED <<rounds, journal, assigned>>

(* An archived mission keeps its status. *)
UpdateMission(m) ==
  /\ missions[m].status \notin {"none", "archived"}
  /\ \E s \in {"draft", "active", "completed", "archived"} :
       missions' = [missions EXCEPT ![m].status = s]
  /\ UNCHANGED <<rounds, journal, assigned>>

Schedule(r) ==
  /\ In(r, {"none"}, {"DORMANT"})
  /\ missions[MissionOf[r]].status \in {"draft", "active"}
  /\ Move(r, "scheduled", "MONITORING", <<Announced("schedule")>>)
  /\ missions' = [missions EXCEPT ![MissionOf[r]].total = @ + 1]

(* Move keeps a paused round from being started: it is resumed.            *)
Start(r) ==
  /\ In(r, {"scheduled", "paused"}, {"MONITORING"})
  /\ Move(r, "active", "OPERATIONAL", <<Announced("start")>>)
  /\ UNCHANGED missions

Escalate(r) ==
  /\ rounds[r].status # "none" /\ rounds[r].opState = "OPERATIONAL"
  /\ Move(r, rounds[r].status, "CRITICAL", <<>>)
  /\ UNCHANGED missions

Pause(r) ==
  /\ rounds[r].status = "active"
  /\ Move(r, "paused", rounds[r].opState, <<Announced("pause")>>)
  /\ UNCHANGED missions

(* A resumed round leaves CRITICAL. *)
Resume(r) ==
  /\ rounds[r].status = "paused"
  /\ Move(r, "active",
          IF rounds[r].opState = "CRITICAL" THEN "OPERATIONAL" ELSE rounds[r].opState,
          <<Announced("resume")>>)
  /\ UNCHANGED missions

Complete(r) ==
  /\ In(r, Unfinished, Engaged)
  /\ Move(r, "completed", "EXTRACTION", <<Announced("complete")>>)
  /\ missions' = [missions EXCEPT ![MissionOf[r]].completed = @ + 1]

Fail(r) ==
  /\ In(r, Unfinished, Engaged)
  /\ Move(r, "failed", "RECOVERY", <<Announced("fail")>>)
  /\ UNCHANGED missions

Abandon(r) ==
  /\ \/ /\ In(r, Unfinished, {"MONITORING"})
        /\ Move(r, "abandoned", "DORMANT", <<Announced("abandon")>>)
     \/ /\ In(r, Unfinished, Engaged)
        /\ Move(r, "abandoned", "SILENCE", <<Announced("abandon")>>)
  /\ UNCHANGED missions

(* The operational state is set to any state; the log is not told.         *)
Assign(r) ==
  /\ rounds[r].status # "none"
  /\ \E opState \in {"DORMANT", "MONITORING", "OPERATIONAL", "CRITICAL",
                     "RECOVERY", "EXTRACTION", "SILENCE"} :
       rounds' = [rounds EXCEPT ![r].opState = opState]
  /\ assigned' = assigned \cup {r}
  /\ UNCHANGED <<missions, journal>>

Next ==
  \/ \E m \in Missions : CreateMission(m) \/ UpdateMission(m)
  \/ \E r \in Rounds :
       Schedule(r) \/ Start(r) \/ Escalate(r) \/ Pause(r) \/ Resume(r)
         \/ Complete(r) \/ Fail(r) \/ Abandon(r) \/ Assign(r)

Spec == Init /\ [][Next]_vars
=============================================================================
