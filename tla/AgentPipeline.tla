--------------------------- MODULE AgentPipeline ---------------------------
(***************************************************************************)
(* The desktop agent behind its collectors: the classifier worker, the     *)
(* aggregator and the uploader, three goroutines over one SQLite buffer    *)
(* (packages/desktop-agent/internal/{storage,classifier,aggregator,        *)
(* uploader}).                                                             *)
(*                                                                         *)
(* The goroutines share nothing but the buffer, which has one connection:  *)
(* one action is one call on the Store, or one POST.  Time is counted in   *)
(* aggregation windows.  The buffer survives the process; windowEnd, the   *)
(* lists the goroutines have fetched and their position in them do not.    *)
(***************************************************************************)
EXTENDS Naturals, Sequences, FiniteSets, SequencesExt, TelemetryEndpoint

CONSTANTS
  N,          \* the collectors submit events 1, 2, ..., N
  LastWindow, \* bound: the windows of a behaviour are 0, 1, ..., LastWindow
  BatchSize,  \* batches of one flush
  MaxRetries, \* POSTs of one batch in one flush
  Faults,     \* what may go wrong in this instance
  MaxFaults   \* bound: how often something goes wrong

Fault == {"kill", "db", "lost"}

ASSUME AgentAssumption ==
  /\ N \in Nat /\ LastWindow \in Nat /\ MaxFaults \in Nat
  /\ BatchSize \in Nat \ {0} /\ MaxRetries \in Nat \ {0}
  /\ Faults \subseteq Fault

VARIABLES
  clock,      \* the window the present is in
  events,     \* raw_events joined with classified_events
  batches,    \* batch_queue, by id
  delivered,  \* how often the server has taken each batch (2: more than once)
  classifier, \* events the classifier worker has fetched and not saved yet
  windowEnd,  \* Aggregator.Run: the next window to aggregate
  agg,        \* the aggregator's next call
  up,         \* the uploader: the flush in progress
  faults,     \* faults so far
  happened    \* history: the kinds of fault so far

buffer == <<events, batches>>
aggregator == <<windowEnd, agg>>
record == <<faults, happened>>
vars == <<clock, buffer, delivered, classifier, aggregator, up, record>>

Events == 1..N
Window == 0..LastWindow
NoEvent == [window |-> 0, stage |-> "none", aggregated |-> FALSE]

AggIdle == [call |-> "none", now |-> 0, members |-> {}]
UpIdle == [call |-> "none", todo |-> {}, attempt |-> 0]

Init ==
  /\ clock = 0
  /\ events = [e \in Events |-> NoEvent]
  /\ batches = <<>>
  /\ delivered = [w \in Window |-> 0]
  /\ classifier = {}
  /\ windowEnd = 0
  /\ agg = AggIdle
  /\ up = [UpIdle EXCEPT !.call = "pending"]
  /\ faults = 0 /\ happened = {}
-----------------------------------------------------------------------------
(* An operator commented "Fault" is not the code but the definition that   *)
(* follows it with one slip a maintainer could make: the properties are    *)
(* tried against it.                                                       *)

AtStage(stage) == {e \in Events : events[e].stage = stage}

Strike(fault) ==
  /\ fault \in Faults
  /\ faults < MaxFaults
  /\ faults' = faults + 1
  /\ happened' = happened \cup {fault}

NoStrike == UNCHANGED record

Tick ==
  /\ clock < LastWindow
  /\ clock' = clock + 1
  /\ UNCHANGED <<buffer, delivered, classifier, aggregator, up, record>>

(* A collector submits an event. *)
Submit ==
  \E e \in AtStage("none") :
    /\ e = N + 1 - Cardinality(AtStage("none"))
    /\ events' = [events EXCEPT ![e] = [@ EXCEPT !.window = clock, !.stage = "raw"]]
    /\ UNCHANGED <<clock, batches, delivered, classifier, aggregator, up, record>>
-----------------------------------------------------------------------------
FetchUnclassified ==
  /\ classifier = {} /\ AtStage("raw") # {}
  /\ classifier' = AtStage("raw")
  /\ UNCHANGED <<clock, buffer, delivered, aggregator, up, record>>

(* One transaction for each fetched event, in the order of their ids; an   *)
(* event whose transaction fails stays unclassified.                       *)
SaveClassification ==
  \E e \in classifier :
    /\ \A other \in classifier : e <= other
    /\ \/ events' = [events EXCEPT ![e].stage = "classified"] /\ NoStrike
       \/ Strike("db") /\ UNCHANGED events
    /\ classifier' = classifier \ {e}
    /\ UNCHANGED <<clock, batches, delivered, aggregator, up>>
-----------------------------------------------------------------------------
(* Aggregator.Run goes on to the next completed window, if there is one.   *)
NextWindow(end) ==
  /\ windowEnd' = end
  /\ agg' = IF end < agg.now THEN [agg EXCEPT !.call = "fetch", !.members = {}] ELSE AggIdle

AggregatorTick ==
  /\ agg = AggIdle /\ windowEnd < clock
  /\ agg' = [AggIdle EXCEPT !.call = "fetch", !.now = clock]
  /\ UNCHANGED <<clock, buffer, delivered, classifier, windowEnd, up, record>>

FetchClassifiedSince(start) == {e \in AtStage("classified") : events[e].window = start}

(* A window without events is passed over; when the call fails, the loop   *)
(* is left and the next tick begins again at this window.                  *)
Fetch ==
  /\ agg.call = "fetch"
  /\ \/ LET members == FetchClassifiedSince(windowEnd) IN
        /\ IF members = {}
             THEN NextWindow(windowEnd + 1)
             ELSE /\ agg' = [agg EXCEPT !.call = "enqueue", !.members = members]
                  /\ UNCHANGED windowEnd
        /\ NoStrike
     \/ /\ Strike("db")
        /\ agg' = AggIdle
        /\ UNCHANGED windowEnd
  /\ UNCHANGED <<clock, buffer, delivered, classifier, up>>

NewBatch == [window |-> windowEnd, members |-> agg.members, uploaded |-> FALSE]

(* Fault: a batch that could not be stored is only logged. *)
EnqueueBatchFault ==
  /\ agg.call = "enqueue"
  /\ agg' = [agg EXCEPT !.call = "mark"]
  /\ \/ batches' = Append(batches, NewBatch) /\ NoStrike
     \/ Strike("db") /\ UNCHANGED batches
  /\ UNCHANGED <<clock, events, delivered, classifier, windowEnd, up>>

EnqueueBatch ==
  /\ agg.call = "enqueue"
  /\ \/ batches' = Append(batches, NewBatch) /\ agg' = [agg EXCEPT !.call = "mark"] /\ NoStrike
     \/ Strike("db") /\ agg' = AggIdle /\ UNCHANGED batches
  /\ UNCHANGED <<clock, events, delivered, classifier, windowEnd, up>>

(* A failed mark is only logged: the window is done either way. *)
MarkAggregated ==
  /\ agg.call = "mark"
  /\ \/ /\ events' = [e \in Events |-> [events[e] EXCEPT !.aggregated = @ \/ e \in agg.members]]
        /\ NoStrike
     \/ Strike("db") /\ UNCHANGED events
  /\ NextWindow(windowEnd + 1)
  /\ UNCHANGED <<clock, batches, delivered, classifier, up>>
-----------------------------------------------------------------------------
Unsent == {b \in DOMAIN batches : ~batches[b].uploaded}

Flush ==
  /\ up = UpIdle
  /\ Unsent # {}
  /\ up' = [up EXCEPT !.call = "pending"]
  /\ UNCHANGED <<clock, buffer, delivered, classifier, aggregator, record>>

(* The uploader goes on to the next batch of its flush. *)
NextBatch(todo) == up' = IF todo = {} THEN UpIdle ELSE [call |-> "post", todo |-> todo, attempt |-> 0]

(* The batch the uploader is at: the one with the smallest id. *)
Current(b) == b \in up.todo /\ \A c \in up.todo : b <= c

PendingBatches ==
  LET oldest == {b \in Unsent : Cardinality({c \in Unsent : c < b}) < BatchSize} IN
  /\ up.call = "pending"
  /\ \/ NextBatch(oldest) /\ NoStrike
     \/ Strike("db") /\ up' = UpIdle
  /\ UNCHANGED <<clock, buffer, delivered, classifier, aggregator>>

(* envelope: what envelopeBody wraps a batch in.                           *)
Envelope == {"source", "deviceId", "agentVersion", "sentAt", "batch"}

Deliver(b) ==
  LET w == batches[b].window
  IN  delivered' = [delivered EXCEPT ![w] = IF @ < 2 THEN @ + 1 ELSE @]

(* Fault: a rejected batch is taken off the queue as if it were uploaded. *)
PostFault ==
  /\ up.call = "post"
  /\ \/ Takes(Envelope) /\ \E b \in up.todo : Current(b) /\ Deliver(b)
     \/ UNCHANGED delivered
  /\ up' = [up EXCEPT !.call = "markUploaded"]
  /\ NoStrike
  /\ UNCHANGED <<clock, buffer, classifier, aggregator>>

(* One attempt of uploadWithRetry.  A lost answer, a transient error and a *)
(* 401 with a refreshed token use up an attempt; any other 4xx, or a 401   *)
(* the refresh of which fails, ends the batch for this flush.  Refusals of *)
(* either kind may come any number of times.                               *)
Post ==
  LET again == up' = IF up.attempt + 1 < MaxRetries
                       THEN [up EXCEPT !.attempt = @ + 1]
                       ELSE [up EXCEPT !.call = "failed", !.attempt = @ + 1]
      giveUp == up' = [up EXCEPT !.call = "failed"]
      taken == Takes(Envelope) /\ \E b \in up.todo : Current(b) /\ Deliver(b)
  IN
  /\ up.call = "post"
  /\ \/ taken /\ up' = [up EXCEPT !.call = "markUploaded"] /\ NoStrike
     \/ UNCHANGED delivered /\ (again \/ giveUp) /\ NoStrike
     \/ Strike("lost") /\ taken /\ again
  /\ UNCHANGED <<clock, buffer, classifier, aggregator>>

(* Fault: a batch that failed all its attempts is deleted. *)
RecordBatchFailureFault ==
  /\ up.call = "failed"
  /\ \E b \in up.todo : Current(b) /\ batches' = RemoveAt(batches, b)
  /\ up' = UpIdle
  /\ UNCHANGED <<clock, events, delivered, classifier, aggregator, record>>

(* Fault: a batch that fails ends the flush. *)
FlushEndsFault ==
  /\ up.call = "failed"
  /\ up' = UpIdle
  /\ UNCHANGED <<clock, buffer, delivered, classifier, aggregator, record>>

(* The failure is recorded (or not) and the flush goes on. *)
RecordBatchFailure ==
  /\ up.call = "failed"
  /\ \E b \in up.todo : Current(b) /\ NextBatch(up.todo \ {b})
  /\ UNCHANGED <<clock, buffer, delivered, classifier, aggregator, record>>

(* When this call fails the batch stays in the queue, although taken. *)
MarkUploaded ==
  /\ up.call = "markUploaded"
  /\ \E b \in up.todo :
       /\ Current(b)
       /\ \/ batches' = [batches EXCEPT ![b].uploaded = TRUE] /\ NoStrike
          \/ Strike("db") /\ UNCHANGED batches
       /\ NextBatch(up.todo \ {b})
  /\ UNCHANGED <<clock, events, delivered, classifier, aggregator>>
-----------------------------------------------------------------------------
(* Fault: the first window of a new process is the one before. *)
RestartFault ==
  /\ Strike("kill")
  /\ classifier' = {}
  /\ windowEnd' = IF clock = 0 THEN 0 ELSE clock - 1
  /\ agg' = AggIdle
  /\ up' = [UpIdle EXCEPT !.call = "pending"]
  /\ UNCHANGED <<clock, buffer, delivered>>

(* The process dies and is started again: the aggregator begins with the   *)
(* window the present is in, the uploader with a flush.                    *)
Restart ==
  /\ Strike("kill")
  /\ classifier' = {}
  /\ windowEnd' = clock
  /\ agg' = AggIdle
  /\ up' = [UpIdle EXCEPT !.call = "pending"]
  /\ UNCHANGED <<clock, buffer, delivered>>

Classify == FetchUnclassified \/ SaveClassification
Aggregate == AggregatorTick \/ Fetch \/ EnqueueBatch \/ MarkAggregated
Upload == Flush \/ PendingBatches \/ Post \/ RecordBatchFailure \/ MarkUploaded

Next == Tick \/ Submit \/ Classify \/ Aggregate \/ Upload \/ Restart

(* Time passes, and each goroutine's ticker fires and its calls return. *)
Spec ==
  /\ Init /\ [][Next]_vars
  /\ WF_vars(Tick) /\ WF_vars(Classify) /\ WF_vars(Aggregate) /\ WF_vars(Upload)
-----------------------------------------------------------------------------
Holders(e) == {b \in DOMAIN batches : e \in batches[b].members}

(* SAFETY.  An event is counted in one batch at most, the one of its own   *)
(* window, and batches are queued in the order of their windows: whatever  *)
(* calls failed in between, and however often the process was restarted.   *)
(* Nothing in the buffer says which windows have been aggregated (the      *)
(* aggregated column is never read): only windowEnd does.  What is marked  *)
(* aggregated is in a batch.                                               *)
CountedOnce ==
  /\ \A e \in Events : events[e].aggregated => Holders(e) # {}
  /\ \A e \in Events : Cardinality(Holders(e)) <= 1
  /\ \A b \in DOMAIN batches : \A e \in batches[b].members : events[e].window = batches[b].window
  /\ \A b, c \in DOMAIN batches : b < c => batches[b].window < batches[c].window

(* SAFETY.  A batch leaves the queue only when the server has taken it,    *)
(* and is taken again only after a lost answer, a failed mark or a restart.*)
UploadedIsDelivered ==
  \A b \in DOMAIN batches :
    /\ batches[b].uploaded => delivered[batches[b].window] > 0
    /\ delivered[batches[b].window] > 1 => happened \cap {"lost", "db", "kill"} # {}

(* An event that has been classified before its window was aggregated. *)
InTime(e) == events[e].stage = "classified" /\ windowEnd <= events[e].window /\ agg.call = "none"

(* LIVENESS.  "Batches that fail all retries are kept in the queue for the *)
(* next upload tick" (uploader.go lines 2-3): each of the BatchSize oldest *)
(* batches that are not uploaded is posted once more, however often it or  *)
(* the others are refused.  Only those: when that many are refused for     *)
(* good, later batches are never posted (README, section 3).               *)
FrontIsPosted ==
  \A b \in 1..LastWindow :
    (b \in DOMAIN batches /\ Cardinality({c \in Unsent : c < b}) < BatchSize)
      ~> (b \in DOMAIN batches /\ (batches[b].uploaded \/ (up.call = "post" /\ Current(b))))

(* LIVENESS.  An event classified in time gets into a batch once its       *)
(* window is over, unless the process is restarted, also when fetching or  *)
(* queueing failed before ("so we don't skip ahead during outages",        *)
(* aggregator.go line 107).                                                *)
InTimeIsBatched ==
  \A e \in Events :
    InTime(e) ~> (Holders(e) # {} \/ "kill" \in happened \/ events[e].window = LastWindow)
-----------------------------------------------------------------------------
(* TYPE. *)
TypeOK ==
  /\ clock \in Window /\ windowEnd \in Window
  /\ events \in [Events -> [window : Window, stage : {"none", "raw", "classified"},
                            aggregated : BOOLEAN]]
  /\ batches \in Seq([window : Window, members : SUBSET Events, uploaded : BOOLEAN])
  /\ delivered \in [Window -> 0..2]
  /\ classifier \subseteq Events
  /\ agg \in [call : {"none", "fetch", "enqueue", "mark"}, now : Window, members : SUBSET Events]
  /\ up \in [call : {"none", "pending", "post", "failed", "markUploaded"},
             todo : SUBSET DOMAIN batches, attempt : 0..MaxRetries]
  /\ faults \in 0..MaxFaults /\ happened \subseteq Faults

(* An event keeps its window from submission on, and what the goroutines   *)
(* hold has at least the stage they fetched it at.                         *)
FetchedKeepsStage ==
  /\ \A e \in classifier : events[e].stage # "none"
  /\ agg.call \in {"enqueue", "mark"} =>
       \A e \in agg.members : events[e].stage = "classified" /\ events[e].window = windowEnd
  /\ \A b \in DOMAIN batches : \A e \in batches[b].members : events[e].stage = "classified"

(* windowEnd is behind every batch; the batch being marked is the last.    *)
WindowsInOrder ==
  /\ windowEnd <= clock
  /\ agg.call # "none" => windowEnd < agg.now /\ agg.now <= clock
  /\ \A b \in DOMAIN batches :
       /\ batches[b].window <= windowEnd /\ batches[b].window < clock
       /\ agg.call # "mark" => batches[b].window < windowEnd
  /\ agg.call = "mark" =>
       \E b \in DOMAIN batches : batches[b].window = windowEnd /\ batches[b].members = agg.members

Undisturbed == happened \cap {"lost", "db", "kill"} = {}

(* What the uploader knows of the batches of its flush.                    *)
FlushKnows ==
  /\ up.call \in {"none", "pending"} => up.todo = {}
  /\ up.call = "post" => up.attempt < MaxRetries
  /\ up.call = "markUploaded" =>
       \A b \in up.todo : Current(b) => delivered[batches[b].window] > 0
  /\ \A w \in Window : delivered[w] > 0 => \E b \in DOMAIN batches : batches[b].window = w
  /\ Undisturbed =>
       /\ \A b \in up.todo : ~batches[b].uploaded
       /\ \A b \in DOMAIN batches : delivered[batches[b].window] > 0 =>
            batches[b].uploaded \/ (up.call = "markUploaded" /\ Current(b))

(* The inductive invariant. *)
IInv ==
  /\ TypeOK /\ FetchedKeepsStage /\ WindowsInOrder /\ FlushKnows
  /\ CountedOnce /\ UploadedIsDelivered
=============================================================================
