-------------------------- MODULE TelemetryIngest --------------------------
(***************************************************************************)
(* TelemetryService.ingestBatch: POST /telemetry/batch over the telemetry  *)
(* table and the event log                                                 *)
(* (packages/backend/src/modules/telemetry/telemetry.service.ts).          *)
(*                                                                         *)
(* A request is validated in memory, then awaits a lookup of rows that     *)
(* already exist, one transaction that inserts the others, and one event   *)
(* per inserted row whose type is announced.  Nothing joins the three and  *)
(* no unique index backs the lookup.                                       *)
(***************************************************************************)
EXTENDS Naturals, Sequences, FiniteSets, SequencesExt

CONSTANTS
  Keys,        \* what makes two events the same: device, occurredAt, eventType
  Announced,   \* the keys whose event type maps to an operational event
  Requests,    \* slots for requests in flight together
  Dtos,        \* the batches the clients may post, and post again
  MaxRequests, \* bound: requests received in one behaviour
  Failures     \* TRUE: an awaited call may reject, or the process may die

Times == {"recent", "unparsable", "old", "future"}
Envelope == [validPeriod : BOOLEAN, events : Seq([key : Keys, time : Times])]

ASSUME IngestAssumption ==
  /\ Announced \subseteq Keys
  /\ Dtos \subseteq Seq(Envelope)
  /\ MaxRequests \in Nat
  /\ Failures \in BOOLEAN

VARIABLES
  table,     \* telemetry_events
  journal,   \* the events table: the row (telemetryEventId) of each event
  req,       \* the local state of each request in flight
  acked,     \* keys of the valid events of the batches answered with 202
  received,  \* requests received so far
  disturbed  \* history: what has happened that could have disturbed the pipeline

vars == <<table, journal, req, acked, received, disturbed>>

(* The j-th event of the i-th batch of the request that came as number no. *)
Row == [no : Nat, pos : (Nat \ {0}) \X (Nat \ {0}), key : Keys]
Idle == [pc |-> "idle"]

Init ==
  /\ table = {}
  /\ journal = <<>>
  /\ req = [q \in Requests |-> Idle]
  /\ acked = {}
  /\ received = 0
  /\ disturbed = {}
-----------------------------------------------------------------------------
(* The rows made of the events that pass validation.  A batch with bad     *)
(* period bounds drops out whole.                                          *)
Candidates(dto, no) ==
  LET row(i, j) == [no |-> no, pos |-> <<i, j>>, key |-> dto[i].events[j].key]
      recent(i) == {j \in DOMAIN dto[i].events : dto[i].events[j].time = "recent"}
      valid == {i \in DOMAIN dto : dto[i].validPeriod}
  IN  UNION {{row(i, j) : j \in recent(i)} : i \in valid}

KeysOf(rows) == {row.key : row \in rows}
Stored == KeysOf(table)
Distinct(rows) == \A r, s \in rows : r.key = s.key => r = s

Before(r, s) ==
  r.pos[1] < s.pos[1] \/ (r.pos[1] = s.pos[1] /\ r.pos[2] < s.pos[2])

(* Request q is answered with 202: the client drops the batch. *)
Answer(q) ==
  /\ acked' = acked \cup KeysOf(req[q].candidates)
  /\ req' = [req EXCEPT ![q] = Idle]
-----------------------------------------------------------------------------
(* Lines 92-159: everything before the first await. *)
Receive(q, dto) ==
  LET candidates == Candidates(dto, received + 1)
      busy == {p \in Requests : req[p] # Idle}
  IN
  /\ req[q] = Idle
  /\ received < MaxRequests
  /\ received' = received + 1
  /\ req' = IF candidates = {} THEN req
            ELSE [req EXCEPT ![q] = [pc |-> "lookup", candidates |-> candidates,
                                     toInsert |-> {}, todo |-> {}]]
  /\ disturbed' = disturbed
       \cup (IF busy # {} /\ candidates # {} THEN {"overlap"} ELSE {})
       \cup (IF Distinct(candidates) THEN {} ELSE {"repeat"})
  /\ UNCHANGED <<table, journal, acked>>

(* Fault: nothing is looked up. *)
LookupFault(q) ==
  /\ req[q].pc = "lookup"
  /\ req' = [req EXCEPT ![q].pc = "save", ![q].toInsert = req[q].candidates]
  /\ UNCHANGED <<table, journal, acked, received, disturbed>>

(* The rows that exist when the query runs are dropped; when nothing is    *)
(* left the request is over.                                               *)
Lookup(q) ==
  LET toInsert == {row \in req[q].candidates : row.key \notin Stored} IN
  /\ req[q].pc = "lookup"
  /\ IF toInsert = {}
       THEN Answer(q)
       ELSE /\ req' = [req EXCEPT ![q].pc = "save", ![q].toInsert = toInsert]
            /\ UNCHANGED acked
  /\ UNCHANGED <<table, journal, received, disturbed>>

(* Fault: every candidate is announced, inserted or not. *)
SavedFault(q) == {row \in req[q].candidates : row.key \in Announced}

(* The rows of the bulk insert whose type is announced. *)
Saved(q) == {row \in req[q].toInsert : row.key \in Announced}

(* Fault: the answer goes out before the insert has been awaited. *)
SaveFault(q) ==
  /\ req[q].pc = "save"
  /\ Answer(q)
  /\ UNCHANGED <<table, journal, received, disturbed>>

(* One transaction inserts all of toInsert. *)
Save(q) ==
  /\ req[q].pc = "save"
  /\ table' = table \cup req[q].toInsert
  /\ IF Saved(q) = {}
       THEN Answer(q)
       ELSE /\ req' = [req EXCEPT ![q].pc = "emit", ![q].todo = Saved(q)]
            /\ UNCHANGED acked
  /\ UNCHANGED <<journal, received, disturbed>>

(* The next row of the loop over what was saved. *)
IsNext(q, row) == row \in req[q].todo /\ \A other \in req[q].todo : ~Before(other, row)

(* Fault: the answer does not wait for the events after the first one. *)
EmitFault(q) ==
  /\ req[q].pc = "emit"
  /\ \E row \in req[q].todo : IsNext(q, row) /\ journal' = Append(journal, row)
  /\ Answer(q)
  /\ UNCHANGED <<table, received, disturbed>>

(* One event, then the next one; after the last, the answer. *)
Emit(q) ==
  /\ req[q].pc = "emit"
  /\ \E row \in req[q].todo :
       /\ IsNext(q, row)
       /\ journal' = Append(journal, row)
       /\ IF req[q].todo = {row}
            THEN Answer(q)
            ELSE /\ req' = [req EXCEPT ![q].todo = @ \ {row}]
                 /\ UNCHANGED acked
  /\ UNCHANGED <<table, received, disturbed>>

(* A call rejects or the process dies: no answer, what is written stays.   *)
Abort(q) ==
  /\ Failures
  /\ req[q] # Idle
  /\ req' = [req EXCEPT ![q] = Idle]
  /\ disturbed' = disturbed \cup {"failure"}
  /\ UNCHANGED <<table, journal, acked, received>>

Serve(q) == Lookup(q) \/ Save(q) \/ Emit(q)

Next ==
  \E q \in Requests :
    \/ \E dto \in Dtos : Receive(q, dto)
    \/ Serve(q)
    \/ Abort(q)

(* The event loop runs every pending continuation. *)
Spec == Init /\ [][Next]_vars /\ \A q \in Requests : WF_vars(Serve(q))
-----------------------------------------------------------------------------
(* SAFETY.  A 202 is the client's licence to forget: whatever overlaps or  *)
(* fails, every valid event of an answered batch is in the table, whether  *)
(* this request inserted it or found it there (lines 186-200).             *)
AckedIsStored == acked \subseteq Stored

Owed(q) == IF req[q].pc = "emit" THEN req[q].todo ELSE {}

(* SAFETY.  No row is announced twice, by one request or by two, and only  *)
(* rows that exist and whose type is announced are (lines 206-222).        *)
AnnouncedOnce ==
  /\ IsInjective(journal)
  /\ \A q \in Requests : Owed(q) \cap ToSet(journal) = {}
  /\ \A p, q \in Requests : p # q => Owed(p) \cap Owed(q) = {}
  /\ \A row \in ToSet(journal) \cup UNION {Owed(q) : q \in Requests} :
       row \in table /\ row.key \in Announced

(* SAFETY.  Posting a batch again, also after a failure in the middle of   *)
(* it, stores nothing twice as long as requests do not overlap and no      *)
(* batch repeats an event itself.                                          *)
NoDuplicates == disturbed \cap {"overlap", "repeat"} = {} => Distinct(table)

(* LIVENESS.  Every stored event whose type is announced gets into the     *)
(* event log, unless a request failed: a retry finds the row and emits     *)
(* nothing.                                                                *)
StoredIsAnnounced ==
  \A k \in Announced :
    (k \in Stored) ~> ("failure" \in disturbed \/ k \in KeysOf(ToSet(journal)))

-----------------------------------------------------------------------------
Disturbance == {"overlap", "repeat", "failure"}
Request == [pc : {"lookup", "save", "emit"}, candidates : SUBSET Row,
            toInsert : SUBSET Row, todo : SUBSET Row]

(* TYPE. *)
TypeOK ==
  /\ table \subseteq Row
  /\ journal \in Seq(Row)
  /\ req \in [Requests -> Request \cup {Idle}]
  /\ acked \subseteq Keys
  /\ received \in 0..MaxRequests
  /\ disturbed \subseteq Disturbance

Busy(q) == req[q] # Idle

(* A request works on its own rows: those not saved yet are nowhere else.  *)
OwnRows ==
  /\ \A row \in table : row.no <= received
  /\ \A q \in Requests : Busy(q) =>
       /\ \A row \in req[q].candidates : row.no <= received
       /\ req[q].toInsert \subseteq req[q].candidates
       /\ Owed(q) \subseteq req[q].toInsert
       /\ req[q].pc \in {"lookup", "save"} => req[q].candidates \cap table = {}
  /\ \A p, q \in Requests :
       p # q /\ Busy(p) /\ Busy(q) => req[p].candidates \cap req[q].candidates = {}

(* What a request will answer for is stored, or it is about to insert it.  *)
CandidatesCovered ==
  \A q \in Requests : Busy(q) =>
    /\ req[q].pc = "save" => KeysOf(req[q].candidates) \subseteq Stored \cup KeysOf(req[q].toInsert)
    /\ req[q].pc = "emit" => KeysOf(req[q].candidates) \subseteq Stored

(* Alone and without repetition, a request inserts what nobody has.        *)
InsertsAreNew ==
  disturbed \cap {"overlap", "repeat"} = {} =>
    /\ \A p, q \in Requests : Busy(p) /\ Busy(q) => p = q
    /\ \A q \in Requests : Busy(q) =>
         /\ Distinct(req[q].candidates)
         /\ req[q].pc = "save" => KeysOf(req[q].toInsert) \cap Stored = {}

(* The inductive invariant. *)
IInv ==
  /\ TypeOK /\ OwnRows /\ CandidatesCovered /\ InsertsAreNew
  /\ AckedIsStored /\ AnnouncedOnce /\ NoDuplicates
=============================================================================
