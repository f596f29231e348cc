------------------------- MODULE RoundStateMachine -------------------------
(***************************************************************************)
(* The transition table of a round's operational state                     *)
(* (packages/backend/src/modules/rounds/round-state-machine.service.ts).   *)
(* The table is data: every lifecycle operation of RoundsService goes      *)
(* through resolveTransition, and RoundLifecycle is built on it.           *)
(***************************************************************************)

OperationalState ==
  {"DORMANT", "MONITORING", "OPERATIONAL", "CRITICAL",
   "RECOVERY", "EXTRACTION", "SILENCE"}

StateTrigger ==
  {"round.scheduled", "round.started", "round.paused", "round.resumed",
   "round.time_warning", "round.violations_threshold", "round.completed",
   "round.failed", "round.abandoned", "recovery.timeout",
   "recovery.manual", "extraction.complete", "silence.timeout",
   "admin.force"}

Rule(from, trigger, to) == [from |-> from, trigger |-> trigger, to |-> to]

TRANSITIONS ==
  {Rule("DORMANT",     "round.scheduled",            "MONITORING"),
   Rule("MONITORING",  "round.started",              "OPERATIONAL"),
   Rule("MONITORING",  "round.abandoned",            "DORMANT"),
   Rule("OPERATIONAL", "round.time_warning",         "CRITICAL"),
   Rule("OPERATIONAL", "round.violations_threshold", "CRITICAL"),
   Rule("OPERATIONAL", "round.completed",            "EXTRACTION"),
   Rule("OPERATIONAL", "round.failed",               "RECOVERY"),
   Rule("OPERATIONAL", "round.abandoned",            "SILENCE"),
   Rule("CRITICAL",    "round.resumed",              "OPERATIONAL"),
   Rule("CRITICAL",    "round.completed",            "EXTRACTION"),
   Rule("CRITICAL",    "round.failed",               "RECOVERY"),
   Rule("CRITICAL",    "round.abandoned",            "SILENCE"),
   Rule("RECOVERY",    "recovery.timeout",           "DORMANT"),
   Rule("RECOVERY",    "recovery.manual",            "MONITORING"),
   Rule("EXTRACTION",  "extraction.complete",        "SILENCE"),
   Rule("EXTRACTION",  "recovery.manual",            "DORMANT"),
   Rule("SILENCE",     "silence.timeout",            "DORMANT"),
   Rule("SILENCE",     "recovery.manual",            "DORMANT")}

(***************************************************************************)
(* The states resolveTransition can return; {} is the code's null, on      *)
(* which transitionState throws.  Array.find returns the first match: that *)
(* the choice never matters is Determinism, in RoundLifecycleProofs.       *)
(***************************************************************************)
resolveTransition(state, trigger) ==
  {t.to : t \in {t \in TRANSITIONS : t.from = state /\ t.trigger = trigger}}

(***************************************************************************)
(* The states transitionState may go to: admin.force bypasses the table    *)
(* and goes to the state it is given, `force` being the set of it, or {}   *)
(* when the caller gave none.  Again {} is a refusal.  Nothing under src/  *)
(* passes admin.force, nor the option: RoundsService gives a trigger only. *)
(***************************************************************************)
Targets(state, trigger, force) ==
  IF trigger = "admin.force" THEN force ELSE resolveTransition(state, trigger)

getValidTransitions(state) ==
  {[to |-> t.to, trigger |-> t.trigger] : t \in {t \in TRANSITIONS : t.from = state}}

(* The same table as the service's header comment draws it (lines 16-23). *)
DocumentedNext ==
  [DORMANT     |-> {"MONITORING"},
   MONITORING  |-> {"OPERATIONAL", "DORMANT"},
   OPERATIONAL |-> {"CRITICAL", "EXTRACTION", "RECOVERY", "SILENCE"},
   CRITICAL    |-> {"OPERATIONAL", "EXTRACTION", "RECOVERY", "SILENCE"},
   RECOVERY    |-> {"DORMANT", "MONITORING"},
   EXTRACTION  |-> {"SILENCE", "DORMANT"},
   SILENCE     |-> {"DORMANT"}]
=============================================================================
