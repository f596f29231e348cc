---------------------------- MODULE PlayerLedger ----------------------------
(***************************************************************************)
(* The requests that write the row of a user, or the consequences:         *)
(* ConsequencesService (consequences.service.ts), DifficultyEngineService  *)
(* (difficulty-engine.service.ts), AuthService.login and                   *)
(* UsersService.updateById, for one user.                                  *)
(*                                                                         *)
(* A request runs in one Node process and gives way to others at every     *)
(* awaited call: one action for each such call.  `copy` is the entity it   *)
(* has loaded; save writes every column of it.  A call may be rejected     *)
(* (Fail), and the request then ends where it is.                          *)
(***************************************************************************)
EXTENDS Difficulty

CONSTANTS Requests,          \* requests in flight at a time
          Severities,        \* the severities that consequences are issued with
          Awards,            \* deltas given to issueConsequence directly
          Difficulties,      \* mean difficulties of finished rounds
          MaxConsequences,   \* bounds: consequences issued,
          MaxRounds,         \* rounds finished,
          MaxRequests,       \* requests started,
          MaxFailures        \* rejected calls

ASSUME LedgerAssumption ==
    /\ Severities \subseteq {"low", "medium", "high", "critical"}
    /\ Awards \subseteq Int /\ Difficulties \subseteq DIMENSION_MIN..DIMENSION_MAX
    /\ {MaxConsequences, MaxRounds, MaxRequests, MaxFailures} \subseteq Nat

VARIABLES user,         \* the users row
          consequences, \* the consequences, in order of insertion
          finished,     \* the user's finished rounds
          log,          \* how often each consequence was announced, and acknowledged
          req,          \* the requests in flight
          given,        \* the last difficulty answered, and the ceiling it is for
          started, failures, overlapped

vars == <<user, consequences, finished, log, req, given, started, failures, overlapped>>

ConsequenceType == {"streak_break", "reputation_penalty", "recovery_required",
                    "difficulty_reset", "cooldown_imposed"}

(* CONSEQUENCE_RULES[trigger][severity] *)
Rule(trigger, severity) ==
    LET T(type, delta) == [type |-> type, delta |-> delta]
        failed == [low      |-> T("streak_break", -5),
                   medium   |-> T("reputation_penalty", -15),
                   high     |-> T("recovery_required", -30),
                   critical |-> T("cooldown_imposed", -50)]
        distracted == [low      |-> T("reputation_penalty", -3),
                       medium   |-> T("reputation_penalty", -10),
                       high     |-> T("difficulty_reset", -20),
                       critical |-> T("cooldown_imposed", -40)]
    IN  IF trigger = "round_failed" THEN failed[severity] ELSE distracted[severity]

Idle == [kind |-> "idle"]

Templates == {Rule(t, s) : t \in {"round_failed", "distraction_threshold"}, s \in Severities}
             \cup {[type |-> "streak_break", delta |-> d] : d \in Awards}

(* The columns that some request changes; last_login_at and the preferences *)
(* are written with the others and read by none.                           *)
UserRow == [reputation: Nat, ceiling: Nat, active: BOOLEAN]

(* A registered user, auth.service.ts:50-60. *)
NewUser == [reputation |-> 0, ceiling |-> BASELINE, active |-> TRUE]

Init ==
    /\ user = NewUser
    /\ consequences = <<>> /\ finished = <<>>
    /\ log = [issued |-> <<>>, acked |-> <<>>, deactivated |-> FALSE]
    /\ req = [r \in Requests |-> Idle]
    /\ given = [target |-> BASELINE, multiplier |-> 100, ceiling |-> BASELINE]
    /\ started = 0 /\ failures = 0 /\ overlapped = FALSE

----------------------------------------------------------------------------
(* A request: its kind, what it was called with, the awaited call it is    *)
(* about to make, the copy it has loaded and the row it is about.          *)

Start(r, kind, arg, first) ==
    /\ req[r] = Idle /\ started < MaxRequests
    /\ req' = [req EXCEPT ![r] = [kind |-> kind, arg |-> arg, at |-> first,
                                  copy |-> NewUser, row |-> 0]]
    /\ started' = started + 1
    /\ overlapped' = (overlapped \/ \E q \in Requests : req[q] # Idle)
    /\ UNCHANGED <<user, consequences, finished, log, given, failures>>

(* issueByTrigger and issueConsequence *)
Issue(r) == /\ Len(consequences) < MaxConsequences
            /\ \E t \in Templates : Start(r, "issue", t, "insert")

(* The guard of the HTTP routes refuses a user who is not active. *)
Acknowledge(r) == user.active /\ \E c \in DOMAIN consequences : Start(r, "acknowledge", c, "load")

(* The type of any consequence that was issued. *)
Adjust(r) == \E c \in DOMAIN consequences :
                 Start(r, "adjust", consequences[c].type, "load")

UpdateCeiling(r) == Start(r, "ceiling", 0, "rounds")
NextDifficulty(r) == Start(r, "next", 0, "load")
Login(r) == Start(r, "login", 0, "load")
UpdateProfile(r) == user.active /\ \E active \in BOOLEAN : Start(r, "profile", active, "load")

(* A round of the user finishes (RoundLifecycle). *)
FinishRound ==
    /\ Len(finished) < MaxRounds
    /\ \E ok \in BOOLEAN, d \in Difficulties :
          finished' = Append(finished, [completed |-> ok, difficulty |-> d])
    /\ UNCHANGED <<user, consequences, log, req, given, started, failures, overlapped>>

Done(r)     == req' = [req EXCEPT ![r] = Idle]
Goto(r, at) == IF at = "done" THEN Done(r) ELSE req' = [req EXCEPT ![r].at = at]

(* consequences.save: the row exists before the reputation is touched. *)
Insert(r) ==
    /\ req[r] # Idle /\ req[r].at = "insert"
    /\ consequences' = Append(consequences, [type |-> req[r].arg.type, delta |-> req[r].arg.delta,
                                             acknowledged |-> FALSE])
    /\ log' = [log EXCEPT !.issued = Append(@, 0), !.acked = Append(@, 0)]
    /\ req' = [req EXCEPT ![r].at = IF req[r].arg.delta = 0 THEN "emit" ELSE "load",
                          ![r].row = Len(consequences) + 1]
    /\ UNCHANGED <<user, finished, given, started, failures, overlapped>>

(* calculateCeiling's query; the ceiling it returns is kept in row. *)
LoadRounds(r) ==
    /\ req[r] # Idle /\ req[r].at = "rounds"
    /\ req' = [req EXCEPT ![r].row = calculateCeiling(finished), ![r].at = "load"]
    /\ UNCHANGED <<user, consequences, finished, log, given, started, failures, overlapped>>

reputationAfter(reputation, delta) ==
    IF reputation + delta < 0 THEN 0 ELSE reputation + delta

(* What the request writes into the entity it has loaded. *)
Edited(q, row) ==
    CASE q.kind = "issue"   -> [row EXCEPT !.reputation = reputationAfter(@, q.arg.delta)]
      [] q.kind = "adjust"  -> [row EXCEPT !.ceiling = adjustedCeiling(@, q.arg)]
      [] q.kind = "ceiling" -> [row EXCEPT !.ceiling = RoundedCeiling(q.row)]
      [] q.kind = "profile" -> [row EXCEPT !.active = q.arg]
      [] OTHER -> row

(* users.findOne.  adjust and ceiling save only a ceiling that differs; a  *)
(* login compares the password between this call and its save, and is      *)
(* refused when the user is not active.                                    *)
AfterLoad(kind, edited) ==
    IF kind = "login" THEN IF user.active THEN "save" ELSE "done"
    ELSE IF kind \in {"issue", "profile"} \/ edited # user THEN "save"
    ELSE IF kind = "adjust" THEN "emit" ELSE "done"

LoadUser(r) ==
    /\ req[r] # Idle /\ req[r].at = "load" /\ req[r].kind \notin {"acknowledge", "next"}
    /\ LET edited == Edited(req[r], user)
           next   == AfterLoad(req[r].kind, edited)
       IN  req' = [req EXCEPT ![r] = IF next = "done" THEN Idle
                                     ELSE [@ EXCEPT !.copy = edited, !.at = next]]
    /\ UNCHANGED <<user, consequences, finished, log, given, started, failures, overlapped>>

AfterSave(kind) == CASE kind = "issue" -> "emit"
                     [] kind \in {"adjust", "ceiling"} -> "emitCeiling"
                     [] OTHER -> "done"

(* A fault for the runs: the edit is made to the saved row once more. *)
SaveUserFault(r) ==
    /\ req[r] # Idle /\ req[r].at = "save"
    /\ user' = Edited(req[r], req[r].copy)
    /\ Goto(r, AfterSave(req[r].kind))
    /\ UNCHANGED <<consequences, finished, log, given, started, failures, overlapped>>

(* users.save *)
SaveUser(r) ==
    /\ req[r] # Idle /\ req[r].at = "save"
    /\ user' = req[r].copy
    /\ log' = [log EXCEPT !.deactivated = @ \/ (req[r].kind = "profile" /\ ~req[r].arg)]
    /\ Goto(r, AfterSave(req[r].kind))
    /\ UNCHANGED <<consequences, finished, given, started, failures, overlapped>>

(* events.emit of difficulty.ceiling_updated *)
EmitCeiling(r) ==
    /\ req[r] # Idle /\ req[r].at = "emitCeiling"
    /\ Goto(r, IF req[r].kind = "adjust" THEN "emit" ELSE "done")
    /\ UNCHANGED <<user, consequences, finished, log, given, started, failures, overlapped>>

(* A fault for the runs: only a consequence with a penalty is announced. *)
EmitFault(r) ==
    /\ req[r] # Idle /\ req[r].at = "emit" /\ req[r].kind = "issue"
    /\ log' = IF req[r].arg.delta < 0 THEN [log EXCEPT !.issued[req[r].row] = @ + 1] ELSE log
    /\ Done(r)
    /\ UNCHANGED <<user, consequences, finished, given, started, failures, overlapped>>

(* events.emit of consequence.issued *)
Emit(r) ==
    /\ req[r] # Idle /\ req[r].at = "emit" /\ req[r].kind = "issue"
    /\ log' = [log EXCEPT !.issued[req[r].row] = @ + 1]
    /\ Done(r)
    /\ UNCHANGED <<user, consequences, finished, given, started, failures, overlapped>>

Give(difficulty, ceiling) == given' = [target |-> difficulty.target, ceiling |-> ceiling,
                                       multiplier |-> difficulty.multiplier]

(* applyConsequenceAdjustment's last event, and its answer. *)
EmitAdjusted(r) ==
    /\ req[r] # Idle /\ req[r].at = "emit" /\ req[r].kind = "adjust"
    /\ Give(adjustedDifficulty(req[r].copy.ceiling, req[r].arg), req[r].copy.ceiling)
    /\ Done(r)
    /\ UNCHANGED <<user, consequences, finished, log, started, failures, overlapped>>

(* getNextRoundDifficulty: the user's row, then the count of its completed *)
(* rounds.                                                                 *)
LoadCeiling(r) ==
    /\ req[r] # Idle /\ req[r].at = "load" /\ req[r].kind = "next"
    /\ req' = [req EXCEPT ![r].copy = user, ![r].at = "count"]
    /\ UNCHANGED <<user, consequences, finished, log, given, started, failures, overlapped>>

AnswerNext(r) ==
    /\ req[r] # Idle /\ req[r].at = "count"
    /\ Give(nextDifficulty(req[r].copy.ceiling, Completed(finished)), req[r].copy.ceiling)
    /\ Done(r)
    /\ UNCHANGED <<user, consequences, finished, log, started, failures, overlapped>>

(* acknowledgeConsequence: consequences.findOne, save, emit. *)
LoadConsequence(r) ==
    /\ req[r] # Idle /\ req[r].at = "load" /\ req[r].kind = "acknowledge"
    /\ Goto(r, IF consequences[req[r].arg].acknowledged THEN "done" ELSE "saveAck")
    /\ UNCHANGED <<user, consequences, finished, log, given, started, failures, overlapped>>

SaveAcknowledged(r) ==
    /\ req[r] # Idle /\ req[r].at = "saveAck"
    /\ consequences' = [consequences EXCEPT ![req[r].arg].acknowledged = TRUE]
    /\ Goto(r, "emitAck")
    /\ UNCHANGED <<user, finished, log, given, started, failures, overlapped>>

EmitAcknowledged(r) ==
    /\ req[r] # Idle /\ req[r].at = "emitAck"
    /\ log' = [log EXCEPT !.acked[req[r].arg] = @ + 1]
    /\ Done(r)
    /\ UNCHANGED <<user, consequences, finished, given, started, failures, overlapped>>

(* An awaited call is rejected: the request ends, what it saved stays. *)
Fail(r) ==
    /\ req[r] # Idle /\ failures < MaxFailures
    /\ failures' = failures + 1 /\ Done(r)
    /\ UNCHANGED <<user, consequences, finished, log, given, started, overlapped>>

Serve(r) == \/ Insert(r) \/ LoadRounds(r) \/ LoadUser(r) \/ SaveUser(r) \/ Emit(r)
            \/ EmitAdjusted(r) \/ LoadCeiling(r) \/ AnswerNext(r) \/ LoadConsequence(r)
            \/ SaveAcknowledged(r) \/ EmitAcknowledged(r) \/ EmitCeiling(r)

Next == \/ FinishRound
        \/ \E r \in Requests :
              \/ Issue(r) \/ Acknowledge(r) \/ Adjust(r) \/ UpdateCeiling(r)
              \/ NextDifficulty(r) \/ Login(r) \/ UpdateProfile(r)
              \/ Serve(r) \/ Fail(r)

Spec == Init /\ [][Next]_vars /\ \A r \in Requests : WF_vars(Serve(r))

----------------------------------------------------------------------------

(* What a sequence of deltas makes of a reputation of 0. *)
Outcome(deltas) ==
    LET n[k \in 0..Len(deltas)] == IF k = 0 THEN 0 ELSE reputationAfter(n[k - 1], deltas[k])
    IN  n[Len(deltas)]

Applied(chain) == Outcome([k \in 1..Len(chain) |-> consequences[chain[k]].delta])

(* Sequences of distinct consequences. *)
Chains == {s \in UNION {[1..n -> DOMAIN consequences] : n \in 0..Len(consequences)} :
              \A i, j \in DOMAIN s : s[i] = s[j] => i = j}

(* All of them, or the first n, in the order of insertion. *)
First(n) == [i \in 1..n |-> i]

(* consequences.service.ts:126-136, users.service.ts:26-40.  However       *)
(* requests overlap, the reputation is what some of the consequences make  *)
(* of 0, each counted once.  When no two requests overlapped and none      *)
(* failed, it is what all of them make of it, in order, and a user who was *)
(* deactivated stays so: a login or an adjustment, which save the row too, *)
(* take nothing back.                                                      *)
RowAccounted ==
    /\ user \in UserRow /\ \A r \in Requests : req[r] = Idle \/ req[r].copy \in UserRow
    /\ \E chain \in Chains : user.reputation = Applied(chain)
    /\ ~overlapped /\ failures = 0 /\ (\A r \in Requests : req[r] = Idle) =>
          /\ user.reputation = Applied(First(Len(consequences)))
          /\ log.deactivated => ~user.active

(* difficulty-engine.service.ts:75, 104-119, 145-186.  Over any sequence   *)
(* of consequences, finished rounds and overlapping requests, ceiling,     *)
(* dimensions and multiplier keep their bounds, and no difficulty is above *)
(* the ceiling it was made for.                                            *)
DifficultyInBounds ==
    /\ user.ceiling \in CEILING_MIN..CEILING_MAX
    /\ given.target \in DIMENSION_MIN..DIMENSION_MAX /\ given.target <= given.ceiling
    /\ given.multiplier \in MULTIPLIER_MIN..MULTIPLIER_MAX

(* consequences.service.ts:124-150.  A consequence that was stored is      *)
(* announced, unless a call was rejected.                                  *)
IssuedIsAnnounced ==
    \A c \in 1..MaxConsequences :
        (c \in DOMAIN consequences)
            ~> (failures > 0 \/ (c \in DOMAIN log.issued /\ log.issued[c] = 1))

----------------------------------------------------------------------------
(***************************************************************************)
(* The inductive invariant behind the first two.                           *)
(***************************************************************************)

(* The awaited calls of each kind of request. *)
Calls == [issue       |-> {"insert", "load", "save", "emit"},
          adjust      |-> {"load", "save", "emitCeiling", "emit"},
          ceiling     |-> {"rounds", "load", "save", "emitCeiling"},
          next        |-> {"load", "count"},
          login       |-> {"load", "save"},
          profile     |-> {"load", "save"},
          acknowledge |-> {"load", "saveAck", "emitAck"}]

Busy(r) == req[r] # Idle
Ceilings == CEILING_MIN..CEILING_MAX
BoundedRow == [reputation : Nat, ceiling : Ceilings, active : BOOLEAN]

(* A request, whatever it is: its consequence exists once it is inserted.  *)
RequestOK(q) ==
    /\ DOMAIN q = {"kind", "arg", "at", "copy", "row"} /\ q.copy \in BoundedRow
    /\ q.kind \in DOMAIN Calls /\ q.at \in Calls[q.kind]
    /\ q.kind = "issue" => /\ q.arg \in [type : ConsequenceType, delta : Int]
                           /\ q.at # "insert" => /\ q.row \in DOMAIN consequences
                                                 /\ consequences[q.row].delta = q.arg.delta
    /\ q.kind = "adjust" => q.arg \in ConsequenceType
    /\ q.kind = "ceiling" /\ q.at # "rounds" => q.row \in Ceilings
    /\ q.kind = "profile" => q.arg \in BOOLEAN
    /\ q.kind = "acknowledge" => q.arg \in DOMAIN consequences

TypeOK ==
    /\ user \in BoundedRow /\ DOMAIN req = Requests
    /\ consequences \in Seq([type : ConsequenceType, delta : Int, acknowledged : BOOLEAN])
    /\ finished \in Seq([completed : BOOLEAN, difficulty : Int])
    /\ log \in [issued : Seq(Nat), acked : Seq(Nat), deactivated : BOOLEAN]
    /\ Len(log.issued) = Len(consequences) /\ Len(log.acked) = Len(consequences)
    /\ failures \in Nat /\ overlapped \in BOOLEAN
    /\ \A r \in Requests : Busy(r) => RequestOK(req[r])

(* A consequence inserted and not yet applied to any copy of the row. *)
Pending(r, c) == Busy(r) /\ req[r].kind = "issue" /\ req[r].at = "load" /\ req[r].row = c
Inserted(r) == Busy(r) /\ req[r].kind = "issue" /\ req[r].at # "insert"

(* No two requests are about one new consequence. *)
OwnConsequence ==
    \A q, r \in Requests : Inserted(q) /\ Inserted(r) /\ req[q].row = req[r].row => q = r

(* n is what consequences make of 0 that none of the requests has to apply.*)
Reached(n) ==
    \E chain \in Chains : n = Applied(chain) /\ \A i \in DOMAIN chain, r \in Requests :
                             ~Pending(r, chain[i])

RowReached ==
    /\ Reached(user.reputation)
    /\ \A r \in Requests : Busy(r) => Reached(req[r].copy.reputation)

OneByOne == ~overlapped => \A q, r \in Requests : Busy(q) /\ Busy(r) => q = r
Untroubled == ~overlapped /\ failures = 0

(* The request in flight has yet to apply the last consequence. *)
Applying(q) == q.kind = "issue" /\ q.at \in {"load", "save"}

(* What one request at a time knows: what its copy is, and that a profile  *)
(* is changed by an active user only.                                      *)
CopyExact(q) ==
    /\ q.at = "save" /\ q.kind # "issue" => q.copy.reputation = user.reputation
    /\ q.at = "save" /\ q.kind # "profile" => q.copy.active = user.active
    /\ q.at = "save" /\ q.kind = "profile" => q.copy.active = q.arg
    /\ q.kind = "profile" => ~log.deactivated
    /\ Applying(q) => q.row = Len(consequences)
    /\ Applying(q) /\ q.at = "save" => q.copy.reputation = Applied(First(Len(consequences)))

Exact ==
    Untroubled =>
      /\ log.deactivated => ~user.active
      /\ \A r \in Requests : Busy(r) => CopyExact(req[r])
      /\ (\A r \in Requests : Busy(r) => ~Applying(req[r])) =>
            user.reputation = Applied(First(Len(consequences)))
      /\ (\E r \in Requests : Busy(r) /\ Applying(req[r])) =>
            user.reputation = Applied(First(Len(consequences) - 1))

IInv == TypeOK /\ OwnConsequence /\ RowReached /\ OneByOne /\ Exact /\ DifficultyInBounds
=============================================================================
