--------------------------- MODULE ExtensionQueue ---------------------------
(***************************************************************************)
(* The browser extension's telemetry queue: addToQueue, uploadBatch and    *)
(* the batch alarm (packages/extension/src/background/index.ts and         *)
(* src/shared/storage.ts).                                                 *)
(*                                                                         *)
(* The queue is one value in chrome.storage.local.  An add reads it, then  *)
(* writes it; an upload reads it, posts it, then writes the empty queue.   *)
(* Chrome runs the handlers of tab events, alarms and messages as they     *)
(* come: what one awaits between its read and its write, others overtake.  *)
(* Storage and alarms outlive the service worker, the handlers do not.     *)
(***************************************************************************)
EXTENDS Naturals, Sequences, FiniteSets, SequencesExt, TelemetryEndpoint

CONSTANTS
  N,         \* the listeners capture events 1, 2, ..., N
  MaxQueue,  \* MAX_QUEUE_LENGTH
  Adders,    \* slots for enqueueEvent calls in progress together
  Uploaders, \* slots for uploadBatch calls in progress together
  Faults,    \* what may go wrong, or come from the user, in this instance
  MaxFaults  \* bound: how often

Fault == {"lost", "teardown", "pause", "flush"}

ASSUME ExtensionAssumption ==
  /\ N \in Nat /\ MaxFaults \in Nat
  /\ MaxQueue \in Nat \ {0}
  /\ Faults \subseteq Fault

VARIABLES
  queue,       \* telemetry_queue
  add,         \* enqueueEvent calls between their read and their write
  upload,      \* uploadBatch calls in progress
  alarm,       \* the batch alarm chrome holds
  paused,      \* monitoring_paused
  captured,    \* events captured so far
  delivered,   \* how often the server has taken each event (2: more than once)
  dropped,     \* history: events trimmed off a full queue
  overwritten, \* history: events a writer did not know of when it wrote
  overlapped,  \* history: a handler started while another one was in progress
  faults,      \* faults so far
  happened     \* history: the kinds of fault so far

vars == <<queue, add, upload, alarm, paused, captured, delivered, dropped,
          overwritten, overlapped, faults, happened>>
history == <<dropped, overwritten>>

Events == 1..N
Idle == [call |-> "none", batch |-> <<>>]
Writing(batch) == [call |-> "set", batch |-> batch]

Init ==
  /\ queue = <<>>
  /\ add = [a \in Adders |-> Idle]
  /\ upload = [u \in Uploaders |-> Idle]
  /\ alarm = "periodic"
  /\ paused = FALSE
  /\ captured = 0
  /\ delivered = [e \in Events |-> 0]
  /\ dropped = {} /\ overwritten = {}
  /\ overlapped = FALSE
  /\ faults = 0 /\ happened = {}
-----------------------------------------------------------------------------
(* An operator commented "Fault" is not the code but the definition that   *)
(* follows it with one slip a maintainer could make: the properties are    *)
(* tried against it.                                                       *)

Busy == (\E a \in Adders : add[a] # Idle) \/ (\E u \in Uploaders : upload[u] # Idle)

Strike(fault) ==
  /\ fault \in Faults
  /\ faults < MaxFaults
  /\ faults' = faults + 1
  /\ happened' = happened \cup {fault}

NoStrike == UNCHANGED <<faults, happened>>

(* The newest MaxQueue events. *)
Trimmed(events) ==
  IF Len(events) > MaxQueue THEN SubSeq(events, Len(events) - MaxQueue + 1, Len(events)) ELSE events

(* A handler that has read `known` writes the queue. *)
Store(known, events) ==
  /\ queue' = events
  /\ overwritten' = overwritten \cup (ToSet(queue) \ ToSet(known))

(* uploadBatch has begun: it awaits isPaused. *)
StartUpload(u) ==
  /\ upload[u] = Idle
  /\ upload' = [upload EXCEPT ![u] = [Idle EXCEPT !.call = "get"]]
  /\ overlapped' = (overlapped \/ Busy)
-----------------------------------------------------------------------------
(* Fault: the newest event goes to the front. *)
CaptureFault(a) ==
  /\ captured < N /\ add[a] = Idle
  /\ captured' = captured + 1
  /\ add' = [add EXCEPT ![a] = Writing(<<captured + 1>> \o queue)]
  /\ overlapped' = (overlapped \/ Busy)
  /\ UNCHANGED <<queue, upload, alarm, paused, delivered, history, faults, happened>>

(* enqueueEvent makes the event, addToQueue reads the queue and appends.   *)
(* A tab event is dropped while paused; a dwell event is not, so pausing   *)
(* is no guard here.                                                       *)
Capture(a) ==
  /\ captured < N /\ add[a] = Idle
  /\ captured' = captured + 1
  /\ add' = [add EXCEPT ![a] = Writing(Append(queue, captured + 1))]
  /\ overlapped' = (overlapped \/ Busy)
  /\ UNCHANGED <<queue, upload, alarm, paused, delivered, history, faults, happened>>

(* addToQueue writes what it has, the newest MaxQueue events of it. *)
Set(a) ==
  LET events == add[a].batch IN
  /\ add[a].call = "set"
  /\ Store(events, Trimmed(events))
  /\ dropped' = dropped \cup (ToSet(events) \ ToSet(Trimmed(events)))
  /\ add' = [add EXCEPT ![a] = Idle]
  /\ UNCHANGED <<upload, alarm, paused, captured, delivered, overlapped, faults, happened>>

(* The alarm fires: a one-shot alarm is gone with it. *)
Fire(u) ==
  /\ alarm # "none"
  /\ StartUpload(u)
  /\ alarm' = IF alarm = "once" THEN "none" ELSE alarm
  /\ UNCHANGED <<queue, add, paused, captured, delivered, history, faults, happened>>

(* The popup's flush button. *)
ForceFlush(u) ==
  /\ Strike("flush")
  /\ StartUpload(u)
  /\ UNCHANGED <<queue, add, alarm, paused, captured, delivered, history>>

(* uploadBatch returns when paused or when nothing is queued. *)
GetQueue(u) ==
  /\ upload[u].call = "get"
  /\ upload' = [upload EXCEPT ![u] = IF paused \/ queue = <<>> THEN Idle
                                     ELSE [call |-> "post", batch |-> queue]]
  /\ UNCHANGED <<queue, add, alarm, paused, captured, delivered, history, overlapped, faults, happened>>

(* TelemetryBatch of shared/types.ts.                                      *)
Envelope == {"batchId", "deviceId", "browser", "events"}

Deliver(batch) == delivered' = [e \in Events |->
  IF e \in ToSet(batch) /\ delivered[e] < 2 THEN delivered[e] + 1 ELSE delivered[e]]

Goto(u, call) == upload' = [upload EXCEPT ![u].call = call]

(* Fault: the queue is emptied also when the upload fails. *)
PostFault(u) ==
  /\ upload[u].call = "post"
  /\ Goto(u, "clear")
  /\ \/ Takes(Envelope) /\ Deliver(upload[u].batch) /\ NoStrike
     \/ UNCHANGED delivered /\ NoStrike
     \/ Takes(Envelope) /\ Strike("lost") /\ Deliver(upload[u].batch)
  /\ UNCHANGED <<queue, add, alarm, paused, captured, history, overlapped>>

(* apiPost: taken and answered; not taken, any number of times; or taken,  *)
(* and the answer lost.                                                    *)
Post(u) ==
  /\ upload[u].call = "post"
  /\ \/ Takes(Envelope) /\ Deliver(upload[u].batch) /\ Goto(u, "clear") /\ NoStrike
     \/ UNCHANGED delivered /\ Goto(u, "retry") /\ NoStrike
     \/ Takes(Envelope) /\ Strike("lost") /\ Deliver(upload[u].batch) /\ Goto(u, "retry")
  /\ UNCHANGED <<queue, add, alarm, paused, captured, history, overlapped>>

(* Fault: the queue is left as it is. *)
ClearFault(u) ==
  /\ upload[u].call = "clear"
  /\ upload' = [upload EXCEPT ![u] = Idle]
  /\ UNCHANGED <<queue, add, alarm, paused, captured, delivered, history, overlapped, faults, happened>>

(* replaceQueue([]), whatever has been added since the read. *)
Clear(u) ==
  /\ upload[u].call = "clear"
  /\ Store(upload[u].batch, <<>>)
  /\ upload' = [upload EXCEPT ![u] = Idle]
  /\ UNCHANGED <<add, alarm, paused, captured, delivered, dropped, overlapped, faults, happened>>

(* Fault: only the first failure is retried. *)
ScheduleRetryFault(u) ==
  /\ upload[u].call = "retry"
  /\ alarm' = IF alarm = "periodic" THEN "once" ELSE alarm
  /\ upload' = [upload EXCEPT ![u] = Idle]
  /\ UNCHANGED <<queue, add, paused, captured, delivered, history, overlapped, faults, happened>>

(* scheduleRetry creates an alarm of the same name as the periodic one,    *)
(* with a delay only: chrome replaces the one by the other.                *)
ScheduleRetry(u) ==
  /\ upload[u].call = "retry"
  /\ alarm' = "once"
  /\ upload' = [upload EXCEPT ![u] = Idle]
  /\ UNCHANGED <<queue, add, paused, captured, delivered, history, overlapped, faults, happened>>

(* Chrome stops the service worker: the handlers are gone. *)
Teardown ==
  /\ Strike("teardown")
  /\ add' = [a \in Adders |-> Idle]
  /\ upload' = [u \in Uploaders |-> Idle]
  /\ UNCHANGED <<queue, alarm, paused, captured, delivered, history, overlapped>>

(* onStartup, onInstalled: the browser starts, the alarms are set up. *)
Startup ==
  /\ "teardown" \in happened
  /\ ~Busy
  /\ alarm' = "periodic"
  /\ UNCHANGED <<queue, add, upload, paused, captured, delivered, history, overlapped, faults, happened>>

TogglePause ==
  /\ \/ ~paused /\ Strike("pause")
     \/ paused /\ NoStrike
  /\ paused' = ~paused
  /\ UNCHANGED <<queue, add, upload, alarm, captured, delivered, history, overlapped>>

Serve(u) == GetQueue(u) \/ Post(u) \/ Clear(u) \/ ScheduleRetry(u)

Next ==
  \/ \E a \in Adders : Capture(a) \/ Set(a)
  \/ \E u \in Uploaders : Fire(u) \/ ForceFlush(u) \/ Serve(u)
  \/ Teardown \/ Startup \/ TogglePause

(* Chrome fires the alarm it holds, a handler that has begun goes on.  No  *)
(* user has to do anything and no browser has to be restarted.             *)
Spec ==
  /\ Init /\ [][Next]_vars
  /\ \A a \in Adders : WF_vars(Set(a))
  /\ \A u \in Uploaders : WF_vars(Serve(u))
  /\ WF_vars(\E u \in Uploaders : Fire(u))
-----------------------------------------------------------------------------
Queued == ToSet(queue)

(* Events that have been in the queue: captured and their write done. *)
Stored == {e \in 1..captured : \A a \in Adders : add[a] # Idle => Last(add[a].batch) # e}

(* SAFETY.  An event does not leave the queue without having been taken by *)
(* the server, except off the old end of a full queue, under a write from  *)
(* a stale read, or with the handler that was about to add it when chrome  *)
(* stopped the worker ("On failure the batch is retained", README 151).    *)
StoredIsKept ==
  \A e \in Stored :
    \/ e \in Queued \/ delivered[e] > 0
    \/ e \in dropped \cup overwritten
    \/ "teardown" \in happened

(* SAFETY.  The queue is always chronological, holds no event twice and is *)
(* never over its limit, also after adds have overtaken one another.       *)
QueueInOrder ==
  /\ \A i \in 1..Len(queue) - 1 : queue[i] < queue[i + 1]
  /\ Len(queue) <= MaxQueue

(* SAFETY.  With one handler at a time, no answer lost and no worker       *)
(* stopped, the server gets no event twice and no write loses an event.    *)
SerialIsExact ==
  ~overlapped /\ happened \cap {"lost", "teardown"} = {} =>
    /\ \A e \in Events : delivered[e] < 2
    /\ overwritten = {}

Offered(e) == \E u \in Uploaders : upload[u].call = "post" /\ e \in ToSet(upload[u].batch)

(* LIVENESS.  "On failure the batch is retained locally with exponential   *)
(* backoff" (README 151): however often a batch is refused, its events are *)
(* posted once more as long as they are queued, unless the user pauses or  *)
(* chrome stops the worker.  (StoredIsKept: how they may leave the queue.) *)
FailedIsRetried ==
  \A e \in Events :
    (\E u \in Uploaders : upload[u].call = "retry" /\ e \in ToSet(upload[u].batch))
      ~> (Offered(e) \/ e \notin Queued \/ happened \cap {"pause", "teardown"} # {})
-----------------------------------------------------------------------------
(* TYPE. *)
TypeOK ==
  /\ queue \in Seq(Events)
  /\ add \in [Adders -> {Idle} \cup [call : {"set"}, batch : Seq(Events)]]
  /\ upload \in [Uploaders ->
       {Idle} \cup [call : {"get", "post", "clear", "retry"}, batch : Seq(Events)]]
  /\ alarm \in {"periodic", "once", "none"} /\ paused \in BOOLEAN
  /\ captured \in 0..N
  /\ delivered \in [Events -> 0..2]
  /\ dropped \subseteq Events /\ overwritten \subseteq Events
  /\ overlapped \in BOOLEAN
  /\ faults \in 0..MaxFaults /\ happened \subseteq Faults

Ascending(events) == \A i, j \in DOMAIN events : i < j => events[i] < events[j]

(* A list of captured events in the order of their capture.                *)
Chronicle(events) == Ascending(events) /\ \A e \in ToSet(events) : e <= captured

(* The queue, and what is about to be written to it, are chronological.    *)
ListsInOrder ==
  /\ Chronicle(queue) /\ Len(queue) <= MaxQueue
  /\ \A a \in Adders : add[a] # Idle => add[a].batch # <<>> /\ Chronicle(add[a].batch)

(* What an upload is about to clear has been taken. *)
ClearedIsDelivered ==
  \A u \in Uploaders :
    upload[u].call = "clear" => \A e \in ToSet(upload[u].batch) : delivered[e] > 0

(* Without an overlap, at most one handler is in progress. *)
OneHandler ==
  ~overlapped =>
    /\ \A a, b \in Adders : add[a] # Idle /\ add[b] # Idle => a = b
    /\ \A u, v \in Uploaders : upload[u] # Idle /\ upload[v] # Idle => u = v
    /\ \A a \in Adders, u \in Uploaders : add[a] = Idle \/ upload[u] = Idle

Serial == ~overlapped /\ happened \cap {"lost", "teardown"} = {}

(* A handler alone knows the whole queue, and the queue is new to the      *)
(* server until the upload in progress has been taken.                     *)
SerialHandlers ==
  Serial =>
    /\ \A a \in Adders : add[a] # Idle =>
         Queued \subseteq ToSet(add[a].batch) /\ \A e \in ToSet(add[a].batch) : delivered[e] = 0
    /\ \A u \in Uploaders : upload[u].call \in {"post", "clear", "retry"} => upload[u].batch = queue
    /\ (\A u \in Uploaders : upload[u].call # "clear") => \A e \in Queued : delivered[e] = 0
    /\ \A e \in Events : e > captured => delivered[e] = 0

(* The inductive invariant. *)
IInv ==
  /\ TypeOK /\ ListsInOrder /\ ClearedIsDelivered /\ OneHandler /\ SerialHandlers
  /\ StoredIsKept /\ SerialIsExact
=============================================================================
