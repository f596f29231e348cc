---------------------------- MODULE MobileOutbox ----------------------------
(***************************************************************************)
(* The mobile app's telemetry queue: queueEvent, drain and the poll timer  *)
(* (packages/mobile/src/services/telemetry-uploader.service.ts) over the   *)
(* telemetry_queue table (db/repositories/telemetry.repo.ts).              *)
(*                                                                         *)
(* One action is one awaited call of drain or queueEvent.  The queue is on *)
(* disk and survives the process; the drain, the timer and the `draining`  *)
(* flag do not.  Time is counted in poll intervals (30 s).                 *)
(***************************************************************************)
EXTENDS Naturals, FiniteSets, TelemetryEndpoint

CONSTANTS
  N,          \* the app queues events 1, 2, ..., N, in the order of occurred_at
  BatchLimit, \* BATCH_LIMIT
  HighWater,  \* DRAIN_QUEUE_HIGH_WATER
  BackoffCap, \* BACKOFF_CAP_MS, in poll intervals
  Faults,     \* what may go wrong in this instance
  MaxFaults   \* bound: how often something goes wrong

Fault == {"kill", "db", "lost", "logout"}

ASSUME OutboxAssumption ==
  /\ N \in Nat /\ MaxFaults \in Nat
  /\ BatchLimit \in Nat \ {0} /\ HighWater \in Nat /\ BackoffCap \in Nat \ {0}
  /\ Faults \subseteq Fault

VARIABLES
  queue,     \* the telemetry_queue table
  delivered, \* how often the server has taken each event (2: more than once)
  drain,     \* the drain in progress: the next call and the ids of its batch
  counting,  \* queueEvent calls that await countPending
  app,       \* whether the process runs, and whether its timer does
  token,     \* an access token is in secure storage
  faults,    \* faults so far
  happened   \* history: the kinds of fault so far

vars == <<queue, delivered, drain, counting, app, token, faults, happened>>

Events == 1..N
Age == 0..BackoffCap
Row == [status : {"none", "pending", "in_flight", "uploaded"}, attempts : Age, age : Age]
NewRow == [status |-> "pending", attempts |-> 0, age |-> 0]

Call == {"getAccessToken", "getPendingBatch", "markInFlight", "post", "markUploaded", "markFailed"}
Off == [call |-> "none", ids |-> {}]

TypeOK ==
  /\ queue \in [Events -> Row]
  /\ delivered \in [Events -> 0..2]
  /\ drain \in [call : Call, ids : SUBSET Events] \cup {Off}
  /\ counting \in 0..N
  /\ app \in [running : BOOLEAN, polling : BOOLEAN]
  /\ token \in BOOLEAN
  /\ faults \in 0..MaxFaults
  /\ happened \subseteq Faults

Init ==
  /\ queue = [e \in Events |-> [NewRow EXCEPT !.status = "none"]]
  /\ delivered = [e \in Events |-> 0]
  /\ drain = Off
  /\ counting = 0
  /\ app = [running |-> TRUE, polling |-> TRUE]
  /\ token = TRUE
  /\ faults = 0
  /\ happened = {}
-----------------------------------------------------------------------------
WithStatus(status) == {e \in Events : queue[e].status = status}

(* Fault: what was in flight is sent again. *)
PendingFault == WithStatus("pending") \cup WithStatus("in_flight")
Pending == WithStatus("pending")

(* A number of intervals the saturated counters tell apart. *)
Capped(n) == IF n > BackoffCap THEN BackoffCap ELSE n

(* Fault: the first retry waits for longer than the cap. *)
EligibleFault(e) == queue[e].attempts > 0 => queue[e].age > BackoffCap

(* isEligibleForRetry: 2^(attempts - 1) intervals after the event was      *)
(* queued (created_at, not the last try), at most BackoffCap.              *)
Eligible(e) ==
  queue[e].attempts > 0 => queue[e].age >= Capped(2 ^ (queue[e].attempts - 1))

(* The oldest pending events, BatchLimit of them at most. *)
Candidates == {e \in Pending : Cardinality({o \in Pending : o < e}) < BatchLimit}

SetStatus(ids, status) ==
  queue' = [e \in Events |-> IF e \in ids THEN [queue[e] EXCEPT !.status = status] ELSE queue[e]]

Go(call) == drain' = [drain EXCEPT !.call = call]

(* Fault: the flag is not looked at. *)
StartDrainFault == drain' = [Off EXCEPT !.call = "getAccessToken"]

(* drain() does nothing while another drain is in progress. *)
StartDrain == drain' = IF drain = Off THEN [Off EXCEPT !.call = "getAccessToken"] ELSE drain

Strike(fault) ==
  /\ fault \in Faults
  /\ faults < MaxFaults
  /\ faults' = faults + 1
  /\ happened' = happened \cup {fault}

NoStrike == UNCHANGED <<faults, happened>>
-----------------------------------------------------------------------------
(* enqueueTelemetry: one insert. *)
QueueEvent ==
  \E e \in Events :
    /\ app.running
    /\ e = Cardinality(Events \ WithStatus("none")) + 1
    /\ queue' = [queue EXCEPT ![e] = NewRow]
    /\ counting' = counting + 1
    /\ UNCHANGED <<delivered, drain, app, token, faults, happened>>

(* countPending, and a drain when the queue is long. *)
CountPending ==
  /\ counting > 0
  /\ counting' = counting - 1
  /\ IF Cardinality(Pending) >= HighWater THEN StartDrain ELSE UNCHANGED drain
  /\ UNCHANGED <<queue, delivered, app, token, faults, happened>>

(* The timer fires. *)
Poll ==
  /\ app.polling /\ drain = Off
  /\ StartDrain
  /\ UNCHANGED <<queue, delivered, counting, app, token, faults, happened>>

(* An interval passes. *)
Tick ==
  /\ \E e \in Pending : queue[e].age < BackoffCap
  /\ queue' = [e \in Events |-> IF queue[e].status = "none" THEN queue[e]
                                ELSE [queue[e] EXCEPT !.age = Capped(@ + 1)]]
  /\ UNCHANGED <<delivered, drain, counting, app, token, faults, happened>>
-----------------------------------------------------------------------------
GetAccessToken ==
  /\ drain.call = "getAccessToken"
  /\ IF token THEN Go("getPendingBatch") ELSE drain' = Off
  /\ UNCHANGED <<queue, delivered, counting, app, token, faults, happened>>

(* The batch is what is eligible among the oldest; nothing: the drain ends.*)
GetPendingBatch ==
  LET ids == {e \in Candidates : Eligible(e)} IN
  /\ drain.call = "getPendingBatch"
  /\ drain' = IF ids = {} THEN Off ELSE [call |-> "markInFlight", ids |-> ids]
  /\ UNCHANGED <<queue, delivered, counting, app, token, faults, happened>>

MarkInFlight ==
  /\ drain.call = "markInFlight"
  /\ queue' = [e \in Events |->
       IF e \in drain.ids
         THEN [queue[e] EXCEPT !.status = "in_flight", !.attempts = Capped(@ + 1)]
         ELSE queue[e]]
  /\ Go("post")
  /\ UNCHANGED <<delivered, counting, app, token, faults, happened>>

(* BatchEnvelope.                                                          *)
Envelope == {"batchedAt", "events"}

Deliver == delivered' = [e \in Events |->
  IF e \in drain.ids /\ delivered[e] < 2 THEN delivered[e] + 1 ELSE delivered[e]]

(* Fault: any answer counts as success. *)
PostFault ==
  /\ drain.call = "post"
  /\ \/ Takes(Envelope) /\ Deliver /\ NoStrike
     \/ UNCHANGED delivered /\ NoStrike
     \/ Takes(Envelope) /\ Strike("lost") /\ Deliver
  /\ Go("markUploaded")
  /\ UNCHANGED <<queue, counting, app, token>>

(* POST /telemetry/batch: taken and answered; not taken, any number of     *)
(* times (the body is refused, the token has expired and is not refreshed, *)
(* nobody answers); or taken, and the answer lost or late.                 *)
Post ==
  /\ drain.call = "post"
  /\ \/ Takes(Envelope) /\ Deliver /\ Go("markUploaded") /\ NoStrike
     \/ UNCHANGED delivered /\ Go("markFailed") /\ NoStrike
     \/ Takes(Envelope) /\ Strike("lost") /\ Deliver /\ Go("markFailed")
  /\ UNCHANGED <<queue, counting, app, token>>

MarkUploaded ==
  /\ drain.call = "markUploaded"
  /\ SetStatus(drain.ids, "uploaded")
  /\ drain' = Off
  /\ UNCHANGED <<delivered, counting, app, token, faults, happened>>

(* Fault: the status is the one the name suggests, which nobody reads. *)
MarkFailedFault ==
  /\ drain.call = "markFailed"
  /\ SetStatus(drain.ids, "failed")
  /\ drain' = Off
  /\ UNCHANGED <<delivered, counting, app, token, faults, happened>>

MarkFailed ==
  /\ drain.call = "markFailed"
  /\ SetStatus(drain.ids, "pending")
  /\ drain' = Off
  /\ UNCHANGED <<delivered, counting, app, token, faults, happened>>

(* A call on the local database throws: after the POST it is handled as a  *)
(* failed upload (line 102), anywhere else it ends the drain (line 107).   *)
DbError ==
  /\ drain.call \in {"getPendingBatch", "markInFlight", "markUploaded", "markFailed"}
  /\ Strike("db")
  /\ IF drain.call = "markUploaded" THEN Go("markFailed") ELSE drain' = Off
  /\ UNCHANGED <<queue, delivered, counting, app, token>>
-----------------------------------------------------------------------------
(* The process dies: the queue stays as it is, the rest is gone. *)
Kill ==
  /\ app.running
  /\ Strike("kill")
  /\ app' = [running |-> FALSE, polling |-> FALSE]
  /\ drain' = Off
  /\ counting' = 0
  /\ UNCHANGED <<queue, delivered, token>>

(* The app is opened: with a session it starts the timer and drains. *)
Open ==
  /\ ~app.running
  /\ app' = [running |-> TRUE, polling |-> token]
  /\ IF token THEN StartDrain ELSE UNCHANGED drain
  /\ UNCHANGED <<queue, delivered, counting, token, faults, happened>>

(* The session ends: the timer stops, a drain in progress goes on. *)
Logout ==
  /\ app.running /\ token
  /\ Strike("logout")
  /\ token' = FALSE
  /\ app' = [app EXCEPT !.polling = FALSE]
  /\ UNCHANGED <<queue, delivered, drain, counting>>

Login ==
  /\ app.running /\ ~token
  /\ token' = TRUE
  /\ app' = [app EXCEPT !.polling = TRUE]
  /\ StartDrain
  /\ UNCHANGED <<queue, delivered, counting, faults, happened>>

(* flushNow: the check-in button. *)
FlushNow ==
  /\ app.running /\ drain = Off
  /\ StartDrain
  /\ UNCHANGED <<queue, delivered, counting, app, token, faults, happened>>

Drain ==
  \/ GetAccessToken \/ GetPendingBatch \/ MarkInFlight \/ Post
  \/ MarkUploaded \/ MarkFailed \/ DbError

Next ==
  \/ QueueEvent \/ CountPending \/ Poll \/ Tick \/ FlushNow
  \/ Drain
  \/ Kill \/ Open \/ Logout \/ Login

(* The timer fires, time passes, a drain goes on to its end, and a user    *)
(* who closed the app or was logged out comes back.                        *)
Spec ==
  /\ Init /\ [][Next]_vars
  /\ WF_vars(Poll) /\ WF_vars(Tick) /\ WF_vars(Drain) /\ WF_vars(Open) /\ WF_vars(Login)
-----------------------------------------------------------------------------
(* SAFETY.  An event is only marked uploaded when the server has it:       *)
(* purgeUploaded deletes nothing the server never saw.                     *)
UploadedIsDelivered == \A e \in WithStatus("uploaded") : delivered[e] > 0

(* SAFETY.  The rows in flight are those of the drain in progress, unless  *)
(* the process died or the database threw: `draining` and the two settling *)
(* updates keep the table and the drain together.                          *)
InFlightIsDrained ==
  happened \cap {"kill", "db"} = {} =>
    WithStatus("in_flight") =
      (IF drain.call \in {"post", "markUploaded", "markFailed"} THEN drain.ids ELSE {})

(* SAFETY.  The server gets an event twice only when an answer was lost or *)
(* the outcome could not be written down: no two drains send the same row. *)
DeliveredOnce ==
  happened \cap {"lost", "db"} = {} => \A e \in Events : delivered[e] <= 1

(* As many as fit a batch, or fewer, are before e and not uploaded. *)
AtFront(e) == Cardinality({o \in Events : o < e /\ queue[o].status # "uploaded"}) < BatchLimit

(* LIVENESS.  As long as the process lives and the database works, an      *)
(* event at the front is sent again and again until it is taken, however   *)
(* often it is refused and whoever logs out: none stays behind its backoff *)
(* or in a drain that ended.  Only the front moves: when BatchLimit events *)
(* are refused for good, the later ones are never sent (README, section 3).*)
FrontIsOffered ==
  \A e \in Events :
    (queue[e].status = "pending" /\ AtFront(e))
      ~> (queue[e].status = "in_flight" \/ happened \cap {"kill", "db"} # {})

-----------------------------------------------------------------------------
(***************************************************************************)
(* The inductive invariant behind the three safety properties.             *)
(***************************************************************************)

(* Events are queued in the order 1, 2, ..., and no more of them are being *)
(* counted than have been queued.                                          *)
QueuedInOrder == \E k \in 0..N : Events \ WithStatus("none") = 1..k /\ counting <= k

(* What the drain knows of its batch: the rows exist; about to be marked,  *)
(* they are still pending, and once marked they are not; about to be       *)
(* marked uploaded, the server has them.                                   *)
BatchOK ==
  /\ drain.ids \cap WithStatus("none") = {}
  /\ drain.call = "markInFlight" => drain.ids \subseteq Pending
  /\ drain.call \in {"post", "markUploaded", "markFailed"} => drain.ids \cap Pending = {}
  /\ drain.call = "markUploaded" => \A e \in drain.ids : delivered[e] > 0

(* Without a lost answer or a database error the server has none of the    *)
(* rows that may still be posted.                                          *)
UnsentIsNew ==
  happened \cap {"lost", "db"} = {} =>
    /\ \A e \in WithStatus("none") \cup Pending : delivered[e] = 0
    /\ drain.call \in {"post", "markFailed"} => \A e \in drain.ids : delivered[e] = 0

IInv ==
  /\ TypeOK
  /\ QueuedInOrder /\ BatchOK /\ UnsentIsNew
  /\ UploadedIsDelivered /\ InFlightIsDrained /\ DeliveredOnce
=============================================================================
