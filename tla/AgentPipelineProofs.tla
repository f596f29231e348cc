------------------------ MODULE AgentPipelineProofs ------------------------
(***************************************************************************)
(* The safety properties of the desktop agent's buffer for any number of   *)
(* events and windows, every size of a flush and any number of faults.     *)
(***************************************************************************)
EXTENDS AgentPipeline, FiniteSetTheorems, SequenceTheorems, TLAPS

USE AgentAssumption

Batch == [window : Window, members : SUBSET Events, uploaded : BOOLEAN]
Row == [window : Window, stage : {"none", "raw", "classified"}, aggregated : BOOLEAN]
AggState == [call : {"none", "fetch", "enqueue", "mark"}, now : Window, members : SUBSET Events]
UpCall == {"none", "pending", "post", "failed", "markUploaded"}

(* The queue by id. *)
LEMMA BatchesTyped ==
  ASSUME TypeOK
  PROVE  /\ batches \in Seq(Batch)
         /\ DOMAIN batches = 1..Len(batches) /\ Len(batches) \in Nat
         /\ \A b \in DOMAIN batches : batches[b] \in Batch
<1>1. batches \in Seq(Batch)
  BY DEF TypeOK, Batch
<1>2. QED
  BY <1>1

LEMMA IdlesTyped ==
  /\ AggIdle \in AggState /\ AggIdle.call = "none"
  /\ UpIdle.call = "none" /\ UpIdle.todo = {} /\ UpIdle.attempt = 0
  /\ NoEvent \in Row
BY DEF AggIdle, AggState, UpIdle, NoEvent, Row, Window

LEMMA StrikeTyped ==
  ASSUME TypeOK, NEW fault, Strike(fault)
  PROVE  faults' \in 0..MaxFaults /\ happened' \subseteq Faults /\ happened' = happened \cup {fault}
BY DEF TypeOK, Strike

(* At most one batch holds an event, when batches have different windows.  *)
LEMMA HoldersAtMostOne ==
  ASSUME NEW e, \A b, c \in Holders(e) : b = c
  PROVE  Cardinality(Holders(e)) <= 1
<1>1. CASE Holders(e) = {}
  BY <1>1, FS_EmptySet
<1>2. CASE Holders(e) # {}
  <2>1. PICK b : b \in Holders(e)
    BY <1>2
  <2>2. Holders(e) = {b}
    BY <2>1
  <2>3. QED
    BY <2>2, FS_Singleton
<1>3. QED
  BY <1>1, <1>2

(* The parts of CountedOnce that need no counting. *)
InOneBatch ==
  /\ \A e \in Events : events[e].aggregated => \E b \in DOMAIN batches : e \in batches[b].members
  /\ \A b \in DOMAIN batches : \A e \in batches[b].members : events[e].window = batches[b].window
  /\ \A b, c \in DOMAIN batches : b < c => batches[b].window < batches[c].window

LEMMA WindowsDiffer ==
  ASSUME TypeOK, InOneBatch
  PROVE  \A b, c \in DOMAIN batches : batches[b].window = batches[c].window => b = c
<1> SUFFICES ASSUME NEW b \in DOMAIN batches, NEW c \in DOMAIN batches,
                    batches[b].window = batches[c].window, b # c
             PROVE  FALSE
  OBVIOUS
<1>1. b \in Nat /\ c \in Nat /\ batches[b].window \in Nat /\ batches[c].window \in Nat
  BY BatchesTyped DEF Batch, Window
<1>2. b < c \/ c < b
  BY <1>1
<1>3. QED
  BY <1>1, <1>2 DEF InOneBatch

LEMMA CountedOnceIsInOneBatch == TypeOK => (CountedOnce <=> InOneBatch)
<1> SUFFICES ASSUME TypeOK PROVE CountedOnce <=> InOneBatch
  OBVIOUS
<1>1. \A e : Holders(e) # {} <=> \E b \in DOMAIN batches : e \in batches[b].members
  BY DEF Holders
<1>2. ASSUME InOneBatch, NEW e \in Events
      PROVE  Cardinality(Holders(e)) <= 1
  <2>1. ASSUME NEW b \in Holders(e), NEW c \in Holders(e)
        PROVE  b = c
    BY <1>2, WindowsDiffer DEF Holders, InOneBatch
  <2>2. QED
    BY <2>1, HoldersAtMostOne
<1>3. QED
  BY <1>1, <1>2 DEF CountedOnce, InOneBatch
-----------------------------------------------------------------------------
LEMMA InitInvariant == Init => IInv
<1> SUFFICES ASSUME Init PROVE IInv
  OBVIOUS
<1>1. batches = <<>> /\ DOMAIN batches = {}
  BY DEF Init
<1>2. TypeOK
  <2>1. events \in [Events -> Row]
    BY IdlesTyped DEF Init
  <2>2. agg \in AggState
    BY IdlesTyped DEF Init
  <2>3. up = [call |-> "pending", todo |-> {}, attempt |-> 0]
    BY DEF Init, UpIdle
  <2>4. delivered \in [Window -> 0..2]
    BY DEF Init
  <2>5. 0 \in Window /\ 0 \in 0..MaxFaults
    BY DEF Window
  <2>6. up \in [call : UpCall, todo : SUBSET DOMAIN batches, attempt : 0..MaxRetries]
    BY <2>3 DEF UpCall
  <2>7. QED
    BY <1>1, <2>1, <2>2, <2>4, <2>5, <2>6 DEF Init, TypeOK, Row, AggState, UpCall
<1>3. FetchedKeepsStage /\ WindowsInOrder
  BY <1>1, IdlesTyped DEF Init, FetchedKeepsStage, WindowsInOrder
<1>4. FlushKnows /\ UploadedIsDelivered
  BY <1>1, IdlesTyped DEF Init, FlushKnows, UploadedIsDelivered, UpIdle
<1>5. InOneBatch
  BY <1>1 DEF Init, InOneBatch, NoEvent
<1>6. QED
  BY <1>2, <1>3, <1>4, <1>5, CountedOnceIsInOneBatch DEF IInv
-----------------------------------------------------------------------------
(* The events and the present: what is submitted and classified. *)
LEMMA EventStep ==
  ASSUME IInv, Tick \/ Submit \/ Classify
  PROVE  IInv'
<1> USE DEF IInv
<1>1. /\ UNCHANGED <<batches, delivered, aggregator, up>>
      /\ clock' = clock \/ (clock < LastWindow /\ clock' = clock + 1)
      /\ UNCHANGED record \/ (happened \subseteq happened' /\ happened' \subseteq Faults /\ faults' \in 0..MaxFaults)
  BY StrikeTyped DEF Tick, Submit, Classify, FetchUnclassified, SaveClassification, buffer, record, NoStrike
<1>2. /\ events' \in [Events -> Row]
      /\ \A e \in Events :
           /\ events'[e].aggregated = events[e].aggregated
           /\ events[e].stage # "none" => events'[e].stage # "none" /\ events'[e].window = events[e].window
           /\ events[e].stage = "classified" => events'[e].stage = "classified"
  <2>1. CASE Submit
    <3>1. PICK e \in AtStage("none") :
            events' = [events EXCEPT ![e] = [@ EXCEPT !.window = clock, !.stage = "raw"]]
      BY <2>1 DEF Submit
    <3>2. e \in Events /\ events[e].stage = "none" /\ clock \in Window
      BY DEF AtStage, TypeOK
    <3> DEFINE new == [events[e] EXCEPT !.window = clock, !.stage = "raw"]
    <3>3. /\ new \in Row /\ new.aggregated = events[e].aggregated
          /\ events \in [Events -> Row]
      BY <3>2 DEF TypeOK, Row
    <3>4. events' = [events EXCEPT ![e] = new]
      BY <3>1, <3>2, <3>3
    <3> HIDE DEF new
    <3>5. QED
      BY <3>2, <3>3, <3>4
  <2>2. CASE SaveClassification
    <3>1. PICK e \in classifier :
            events' = [events EXCEPT ![e].stage = "classified"] \/ events' = events
      BY <2>2 DEF SaveClassification
    <3> DEFINE new == [events[e] EXCEPT !.stage = "classified"]
    <3>2. e \in Events /\ events \in [Events -> Row]
      BY DEF TypeOK, Row
    <3>3. /\ new \in Row /\ new.stage = "classified" /\ new.window = events[e].window
          /\ new.aggregated = events[e].aggregated
      BY <3>2 DEF Row
    <3>4. events' = [events EXCEPT ![e] = new] \/ events' = events
      BY <3>1
    <3> HIDE DEF new
    <3>5. QED
      BY <3>2, <3>3, <3>4
  <2>3. CASE Tick \/ FetchUnclassified
    <3>1. events' = events
      BY <2>3 DEF Tick, FetchUnclassified, buffer
    <3>2. QED
      BY <3>1 DEF TypeOK, Row
  <2>4. QED
    BY <2>1, <2>2, <2>3 DEF Classify
<1>3. classifier' \subseteq Events /\ \A e \in classifier' : events'[e].stage # "none"
  <2>1. CASE FetchUnclassified
    BY <2>1 DEF FetchUnclassified, AtStage, buffer
  <2>2. CASE ~FetchUnclassified
    <3>1. classifier' \subseteq classifier
      BY <2>2 DEF Tick, Submit, Classify, SaveClassification
    <3>2. QED
      BY <1>2, <3>1 DEF TypeOK, FetchedKeepsStage
  <2>3. QED
    BY <2>1, <2>2
<1>4. clock' \in Window /\ clock <= clock' /\ clock \in Nat /\ windowEnd \in Nat
  BY <1>1 DEF TypeOK, Window
<1>5. TypeOK'
  BY <1>1, <1>2, <1>3, <1>4 DEF TypeOK, Row, aggregator, record
<1>6. FetchedKeepsStage'
  <2>1. \A b \in DOMAIN batches : batches[b].members \subseteq Events
    BY BatchesTyped DEF Batch
  <2>2. agg.members \subseteq Events
    BY DEF TypeOK
  <2>3. QED
    BY <1>1, <1>2, <1>3, <2>1, <2>2 DEF FetchedKeepsStage, aggregator
<1>7. WindowsInOrder'
  <2>1. agg.now \in Nat /\ \A b \in DOMAIN batches : batches[b].window \in Nat
    BY BatchesTyped DEF TypeOK, Batch, Window
  <2>2. QED
    BY <1>1, <1>4, <2>1 DEF WindowsInOrder, aggregator
<1>8. FlushKnows' /\ UploadedIsDelivered'
  BY <1>1 DEF FlushKnows, UploadedIsDelivered, Undisturbed, Current, record
<1>9. InOneBatch'
  <2>1. \A b \in DOMAIN batches : \A e \in batches[b].members :
          e \in Events /\ events[e].stage = "classified"
    BY BatchesTyped DEF FetchedKeepsStage, Batch
  <2>2. InOneBatch
    BY CountedOnceIsInOneBatch
  <2>3. QED
    BY <1>1, <1>2, <2>1, <2>2 DEF InOneBatch
<1>10. CountedOnce'
  <2>1. (TypeOK => (CountedOnce <=> InOneBatch))'
    BY CountedOnceIsInOneBatch, PTL
  <2>2. QED
    BY <1>5, <1>9, <2>1
<1>11. QED
  BY <1>5, <1>6, <1>7, <1>8, <1>10

(* Nothing that the uploader looks at changes. *)
LEMMA FlushUndisturbed ==
  ASSUME IInv, UNCHANGED <<batches, delivered, up>>, happened \subseteq happened'
  PROVE  FlushKnows' /\ UploadedIsDelivered'
BY DEF IInv, FlushKnows, UploadedIsDelivered, Undisturbed, Current

LEMMA RecordTyped ==
  ASSUME TypeOK, NoStrike \/ \E fault \in Fault : Strike(fault)
  PROVE  faults' \in 0..MaxFaults /\ happened' \subseteq Faults /\ happened \subseteq happened'
BY StrikeTyped DEF NoStrike, record, TypeOK

LEMMA NextWindowTyped ==
  ASSUME IInv, agg.call \in {"fetch", "mark"}, NextWindow(windowEnd + 1)
  PROVE  /\ windowEnd' = windowEnd + 1 /\ windowEnd' \in Window /\ windowEnd' <= clock
         /\ agg' \in AggState /\ agg'.call \in {"none", "fetch"}
         /\ agg'.call # "none" => windowEnd' < agg'.now /\ agg'.now <= clock
<1> USE DEF IInv
<1>1. windowEnd \in Nat /\ clock \in Nat /\ agg.now \in Nat /\ windowEnd < agg.now /\ agg.now <= clock
      /\ clock <= LastWindow /\ agg \in AggState
  BY DEF TypeOK, WindowsInOrder, Window, AggState
<1>2. windowEnd' = windowEnd + 1 /\ windowEnd' \in Window /\ windowEnd' <= clock
  BY <1>1 DEF NextWindow, Window
<1>3. \/ agg' = [agg EXCEPT !.call = "fetch", !.members = {}] /\ windowEnd' < agg.now
      \/ agg' = AggIdle
  BY <1>2 DEF NextWindow
<1>4. QED
  BY <1>1, <1>2, <1>3, IdlesTyped DEF AggState

(* The aggregator goes from call to call, and the queue stays. *)
LEMMA AggregatorQuietStep ==
  ASSUME IInv, AggregatorTick \/ Fetch
  PROVE  IInv'
<1> USE DEF IInv
<1>1. UNCHANGED <<clock, events, batches, delivered, classifier, up>>
  BY DEF AggregatorTick, Fetch, buffer
<1>2. faults' \in 0..MaxFaults /\ happened' \subseteq Faults /\ happened \subseteq happened'
  BY RecordTyped DEF AggregatorTick, Fetch, Fault, record, NoStrike
<1>3. /\ windowEnd' \in Window /\ windowEnd <= windowEnd' /\ windowEnd' <= clock
      /\ agg' \in AggState /\ agg'.call # "mark"
      /\ agg'.call # "none" => windowEnd' < agg'.now /\ agg'.now <= clock
      /\ agg'.call = "enqueue" =>
           windowEnd' = windowEnd /\ agg'.members = FetchClassifiedSince(windowEnd)
  <2>0. windowEnd \in Nat /\ windowEnd <= clock /\ windowEnd \in Window /\ clock \in Window
    BY DEF TypeOK, WindowsInOrder, Window
  <2>1. CASE AggregatorTick
    <3>1. /\ agg' = [AggIdle EXCEPT !.call = "fetch", !.now = clock]
          /\ windowEnd < clock /\ windowEnd' = windowEnd
      BY <2>1 DEF AggregatorTick
    <3>2. /\ agg' \in AggState /\ agg'.call = "fetch" /\ agg'.now = clock
      BY <2>0, <3>1 DEF AggState, AggIdle
    <3>3. clock <= clock
      BY <2>0 DEF Window
    <3>4. QED
      BY <2>0, <3>1, <3>2, <3>3
  <2>2. CASE Fetch /\ NextWindow(windowEnd + 1)
    BY <2>0, <2>2, NextWindowTyped DEF Fetch
  <2>3. CASE /\ Fetch /\ windowEnd' = windowEnd
             /\ agg' = [agg EXCEPT !.call = "enqueue", !.members = FetchClassifiedSince(windowEnd)]
    <3>1. FetchClassifiedSince(windowEnd) \subseteq Events
      BY DEF FetchClassifiedSince, AtStage
    <3>2. /\ agg' \in AggState /\ agg'.call = "enqueue" /\ agg'.now = agg.now
          /\ agg'.members = FetchClassifiedSince(windowEnd)
      BY <2>3, <3>1 DEF TypeOK, AggState
    <3>3. windowEnd < agg.now /\ agg.now <= clock
      BY <2>3 DEF Fetch, WindowsInOrder
    <3>4. QED
      BY <2>0, <2>3, <3>2, <3>3
  <2>4. CASE Fetch /\ agg' = AggIdle /\ windowEnd' = windowEnd
    BY <2>0, <2>4, IdlesTyped
  <2>5. QED
    BY <2>1, <2>2, <2>3, <2>4 DEF Fetch
<1>4. agg.call # "mark"
  BY DEF AggregatorTick, Fetch, AggIdle
<1>5. TypeOK'
  BY <1>1, <1>2, <1>3 DEF TypeOK, AggState
<1>6. FetchedKeepsStage'
  BY <1>1, <1>3 DEF FetchedKeepsStage, FetchClassifiedSince, AtStage
<1>7. WindowsInOrder'
  <2>1. windowEnd \in Nat /\ windowEnd' \in Nat /\ \A b \in DOMAIN batches : batches[b].window \in Nat
    BY <1>3, BatchesTyped DEF TypeOK, Batch, Window
  <2>2. QED
    BY <1>1, <1>3, <1>4, <2>1 DEF WindowsInOrder
<1>8. FlushKnows' /\ UploadedIsDelivered'
  BY <1>1, <1>2, FlushUndisturbed
<1>9. CountedOnce'
  BY <1>1 DEF CountedOnce, Holders
<1>10. QED
  BY <1>5, <1>6, <1>7, <1>8, <1>9

(* The queue after a batch has been added. *)
LEMMA AppendBatch ==
  ASSUME TypeOK, NEW batch \in Batch, batches' = Append(batches, batch)
  PROVE  /\ batches' \in Seq(Batch)
         /\ DOMAIN batches' = DOMAIN batches \cup {Len(batches) + 1}
         /\ \A b \in DOMAIN batches : b < Len(batches) + 1 /\ b # Len(batches) + 1 /\ batches'[b] = batches[b]
         /\ batches'[Len(batches) + 1] = batch
<1>1. batches \in Seq(Batch) /\ DOMAIN batches = 1..Len(batches) /\ Len(batches) \in Nat
  BY BatchesTyped
<1>2. QED
  BY <1>1

LEMMA EnqueueStep == IInv /\ EnqueueBatch => IInv'
<1> SUFFICES ASSUME IInv, EnqueueBatch PROVE IInv'
  OBVIOUS
<1> USE DEF IInv
<1>1. /\ UNCHANGED <<clock, events, delivered, classifier, windowEnd, up>>
      /\ agg.call = "enqueue"
  BY DEF EnqueueBatch
<1>2. faults' \in 0..MaxFaults /\ happened' \subseteq Faults /\ happened \subseteq happened'
  BY RecordTyped DEF EnqueueBatch, Fault
<1>3. /\ windowEnd \in Window /\ windowEnd < agg.now /\ agg.now <= clock /\ agg \in AggState
      /\ windowEnd \in Nat /\ clock \in Nat /\ agg.now \in Nat
  BY <1>1 DEF TypeOK, WindowsInOrder, Window, AggState
<1>4. CASE agg' = AggIdle /\ batches' = batches
  <2>1. TypeOK'
    BY <1>1, <1>2, <1>4, IdlesTyped DEF TypeOK, AggState
  <2>2. FetchedKeepsStage' /\ WindowsInOrder'
    BY <1>1, <1>4, IdlesTyped DEF FetchedKeepsStage, WindowsInOrder
  <2>3. FlushKnows' /\ UploadedIsDelivered'
    BY <1>1, <1>2, <1>4, FlushUndisturbed
  <2>4. CountedOnce'
    BY <1>1, <1>4 DEF CountedOnce, Holders
  <2>5. QED
    BY <2>1, <2>2, <2>3, <2>4
<1>5. CASE batches' = Append(batches, NewBatch) /\ agg' = [agg EXCEPT !.call = "mark"]
  <2> DEFINE new == Len(batches) + 1
  <2>1. /\ NewBatch \in Batch /\ NewBatch.window = windowEnd /\ NewBatch.members = agg.members
        /\ NewBatch.uploaded = FALSE
    BY <1>3 DEF NewBatch, Batch, AggState
  <2>2. /\ batches' \in Seq(Batch) /\ DOMAIN batches' = DOMAIN batches \cup {new}
        /\ \A b \in DOMAIN batches : b < new /\ b # new /\ batches'[b] = batches[b]
        /\ batches'[new] = NewBatch /\ new \in Nat
    BY <1>5, <2>1, AppendBatch, BatchesTyped
  <2> HIDE DEF new
  <2>3. agg' \in AggState /\ agg'.call = "mark" /\ agg'.members = agg.members /\ agg'.now = agg.now
    BY <1>3, <1>5 DEF AggState
  <2>4. \A b \in DOMAIN batches : batches[b].window < windowEnd /\ batches[b].window \in Nat /\ b \in Nat
    BY <1>1, BatchesTyped DEF WindowsInOrder, Batch, Window
  <2>5. TypeOK'
    <3>1. up' \in [call : UpCall, todo : SUBSET DOMAIN batches', attempt : 0..MaxRetries]
      BY <1>1, <2>2 DEF TypeOK, UpCall
    <3>2. QED
      BY <1>1, <1>2, <2>2, <2>3, <3>1 DEF TypeOK, AggState, Batch, UpCall
  <2>6. FetchedKeepsStage'
    BY <1>1, <2>1, <2>2, <2>3 DEF FetchedKeepsStage
  <2>7. WindowsInOrder'
    BY <1>1, <1>3, <2>1, <2>2, <2>3, <2>4 DEF WindowsInOrder
  <2>8. \A w \in Window : delivered[w] > 0 => \E b \in DOMAIN batches : batches[b].window = w
    BY DEF FlushKnows
  <2>9. ~(delivered[windowEnd] > 0)
    <3>1. \A b \in DOMAIN batches : batches[b].window # windowEnd
      BY <1>3, <2>4
    <3>2. QED
      BY <1>3, <2>8, <3>1
  <2>10. FlushKnows'
    <3>1. up.todo \subseteq DOMAIN batches
      BY DEF TypeOK
    <3>2. \A b : Current(b)' <=> Current(b)
      BY <1>1 DEF Current
    <3>3. QED
      BY <1>1, <1>2, <2>1, <2>2, <2>9, <3>1, <3>2 DEF FlushKnows, Undisturbed
  <2>11. UploadedIsDelivered'
    <3>1. ~(delivered[windowEnd] > 1)
      BY <1>3, <2>9 DEF TypeOK
    <3>2. QED
      BY <1>1, <1>2, <2>1, <2>2, <3>1 DEF UploadedIsDelivered
  <2>12. InOneBatch'
    <3>1. InOneBatch
      BY CountedOnceIsInOneBatch
    <3>2. \A e \in agg.members : events[e].window = windowEnd
      BY <1>1 DEF FetchedKeepsStage
    <3>3. \A e \in Events : events'[e].aggregated => \E b \in DOMAIN batches' : e \in batches'[b].members
      BY <1>1, <2>2, <3>1 DEF InOneBatch
    <3>4. \A b \in DOMAIN batches' : \A e \in batches'[b].members : events'[e].window = batches'[b].window
      BY <1>1, <2>1, <2>2, <3>1, <3>2 DEF InOneBatch
    <3>5. \A b, c \in DOMAIN batches' : b < c => batches'[b].window < batches'[c].window
      <4>1. SUFFICES ASSUME NEW b \in DOMAIN batches', NEW c \in DOMAIN batches', b < c
                     PROVE  batches'[b].window < batches'[c].window
        OBVIOUS
      <4>2. b \in DOMAIN batches
        BY <2>2, <2>4, <4>1
      <4>3. CASE c = new
        BY <2>1, <2>2, <2>4, <4>2, <4>3
      <4>4. CASE c \in DOMAIN batches
        BY <2>2, <3>1, <4>1, <4>2, <4>4 DEF InOneBatch
      <4>5. QED
        BY <2>2, <4>3, <4>4
    <3>6. QED
      BY <3>3, <3>4, <3>5 DEF InOneBatch
  <2>13. CountedOnce'
    <3>1. (TypeOK => (CountedOnce <=> InOneBatch))'
      BY CountedOnceIsInOneBatch, PTL
    <3>2. QED
      BY <2>5, <2>12, <3>1
  <2>14. QED
    BY <2>5, <2>6, <2>7, <2>10, <2>11, <2>13
<1>6. QED
  BY <1>4, <1>5 DEF EnqueueBatch

LEMMA MarkAggregatedStep == IInv /\ MarkAggregated => IInv'
<1> SUFFICES ASSUME IInv, MarkAggregated PROVE IInv'
  OBVIOUS
<1> USE DEF IInv
<1>1. UNCHANGED <<clock, batches, delivered, classifier, up>> /\ agg.call = "mark"
  BY DEF MarkAggregated
<1>2. faults' \in 0..MaxFaults /\ happened' \subseteq Faults /\ happened \subseteq happened'
  BY RecordTyped DEF MarkAggregated, Fault
<1>3. /\ windowEnd' = windowEnd + 1 /\ windowEnd' \in Window /\ windowEnd' <= clock
      /\ agg' \in AggState /\ agg'.call \in {"none", "fetch"}
      /\ agg'.call # "none" => windowEnd' < agg'.now /\ agg'.now <= clock
  BY <1>1, NextWindowTyped DEF MarkAggregated
<1>4. /\ events' \in [Events -> Row]
      /\ \A e \in Events :
           /\ events'[e].stage = events[e].stage /\ events'[e].window = events[e].window
           /\ events'[e].aggregated => events[e].aggregated \/ e \in agg.members
  <2> DEFINE new(e) == [events[e] EXCEPT !.aggregated = @ \/ e \in agg.members]
  <2>1. \A e \in Events :
          /\ new(e) \in Row /\ new(e).stage = events[e].stage /\ new(e).window = events[e].window
          /\ new(e).aggregated => events[e].aggregated \/ e \in agg.members
    <3>1. ASSUME NEW e \in Events
          PROVE  /\ new(e) \in Row /\ new(e).stage = events[e].stage /\ new(e).window = events[e].window
                 /\ new(e).aggregated => events[e].aggregated \/ e \in agg.members
      <4>1. PICK v \in Row : v = events[e]
        BY DEF TypeOK, Row
      <4>2. PICK b \in BOOLEAN : b <=> (v.aggregated \/ e \in agg.members)
        OBVIOUS
      <4>3. new(e) = [v EXCEPT !.aggregated = b]
        BY <4>1, <4>2 DEF Row
      <4>4. /\ [v EXCEPT !.aggregated = b] \in Row
            /\ [v EXCEPT !.aggregated = b].stage = v.stage /\ [v EXCEPT !.aggregated = b].window = v.window
            /\ [v EXCEPT !.aggregated = b].aggregated = b
        BY DEF Row
      <4> HIDE DEF new
      <4>5. QED
        BY <4>1, <4>2, <4>3, <4>4, Zenon
    <3> HIDE DEF new
    <3>2. QED
      BY <3>1
  <2>2. events' = [e \in Events |-> new(e)] \/ events' = events
    BY DEF MarkAggregated
  <2> HIDE DEF new
  <2>3. events \in [Events -> Row]
    BY DEF TypeOK, Row
  <2>4. QED
    BY <2>1, <2>2, <2>3
<1>5. TypeOK'
  BY <1>1, <1>2, <1>3, <1>4 DEF TypeOK, Row, AggState
<1>6. FetchedKeepsStage'
  <2>1. \A b \in DOMAIN batches : batches[b].members \subseteq Events
    BY BatchesTyped DEF Batch
  <2>2. QED
    BY <1>1, <1>3, <1>4, <2>1 DEF FetchedKeepsStage, TypeOK
<1>7. WindowsInOrder'
  <2>1. windowEnd \in Nat /\ \A b \in DOMAIN batches : batches[b].window \in Nat
    BY BatchesTyped DEF TypeOK, Batch, Window
  <2>2. QED
    BY <1>1, <1>3, <2>1 DEF WindowsInOrder
<1>8. FlushKnows' /\ UploadedIsDelivered'
  BY <1>1, <1>2, FlushUndisturbed
<1>9. InOneBatch'
  <2>1. InOneBatch /\ \A b \in DOMAIN batches : batches[b].members \subseteq Events
    BY CountedOnceIsInOneBatch, BatchesTyped DEF Batch
  <2>2. \E b \in DOMAIN batches : batches[b].members = agg.members
    BY <1>1 DEF WindowsInOrder
  <2>3. QED
    BY <1>1, <1>4, <2>1, <2>2 DEF InOneBatch
<1>10. CountedOnce'
  <2>1. (TypeOK => (CountedOnce <=> InOneBatch))'
    BY CountedOnceIsInOneBatch, PTL
  <2>2. QED
    BY <1>5, <1>9, <2>1
<1>11. QED
  BY <1>5, <1>6, <1>7, <1>8, <1>10
-----------------------------------------------------------------------------
UpState == [call : UpCall, todo : SUBSET DOMAIN batches, attempt : 0..MaxRetries]

LEMMA UpTyped ==
  ASSUME TypeOK
  PROVE  /\ up \in UpState
         /\ UpIdle \in UpState /\ [UpIdle EXCEPT !.call = "pending"] \in UpState
         /\ [UpIdle EXCEPT !.call = "pending"].call = "pending"
         /\ [UpIdle EXCEPT !.call = "pending"].todo = {}
<1>1. up \in UpState
  BY DEF TypeOK, UpState, UpCall
<1>2. 0 \in 0..MaxRetries /\ {} \in SUBSET DOMAIN batches /\ {"none", "pending"} \subseteq UpCall
  BY DEF TypeOK, UpCall
<1>3. [UpIdle EXCEPT !.call = "pending"] = [call |-> "pending", todo |-> {}, attempt |-> 0]
  BY DEF UpIdle
<1>4. UpIdle \in UpState /\ [call |-> "pending", todo |-> {}, attempt |-> 0] \in UpState
  BY <1>2 DEF UpIdle, UpState
<1>5. QED
  BY <1>1, <1>3, <1>4

LEMMA NextBatchTyped ==
  ASSUME TypeOK, NEW todo, todo \subseteq DOMAIN batches,
         up' = IF todo = {} THEN UpIdle ELSE [call |-> "post", todo |-> todo, attempt |-> 0]
  PROVE  /\ up' \in UpState /\ up'.call \in {"none", "post"} /\ up'.todo = todo
         /\ up'.call = "post" => up'.attempt < MaxRetries
         /\ todo = {} => up'.call = "none"
         /\ todo # {} => up'.call = "post"
<1>1. UpIdle \in UpState /\ UpIdle.call = "none" /\ UpIdle.todo = {}
  BY UpTyped, IdlesTyped
<1>2. [call |-> "post", todo |-> todo, attempt |-> 0] \in UpState
  BY DEF UpState, UpCall
<1>3. QED
  BY <1>1, <1>2

(* Nothing changes but the uploader's own state and the record. *)
LEMMA UploaderQuietStep ==
  ASSUME IInv, UNCHANGED <<clock, buffer, delivered, classifier, aggregator>>,
         up' \in UpState, up'.call # "markUploaded",
         up'.call \in {"none", "pending"} => up'.todo = {},
         up'.call = "post" => up'.attempt < MaxRetries,
         faults' \in 0..MaxFaults, happened' \subseteq Faults, happened \subseteq happened',
         Undisturbed' => /\ \A b \in up'.todo : ~batches[b].uploaded
                         /\ up.call # "markUploaded"
  PROVE  IInv'
<1> USE DEF IInv, buffer, aggregator
<1>1. TypeOK'
  BY DEF TypeOK, UpState, UpCall
<1>2. FetchedKeepsStage' /\ WindowsInOrder'
  BY DEF FetchedKeepsStage, WindowsInOrder
<1>3. FlushKnows'
  <2>1. Undisturbed' => Undisturbed
    BY DEF Undisturbed
  <2>2. QED
    BY <2>1 DEF FlushKnows
<1>4. UploadedIsDelivered' /\ CountedOnce'
  BY DEF UploadedIsDelivered, CountedOnce, Holders
<1>5. QED
  BY <1>1, <1>2, <1>3, <1>4

(* The server takes a batch that it may have had before.                   *)
LEMMA TakenStep ==
  ASSUME IInv, up.call = "post", NEW b \in up.todo, Current(b), Deliver(b),
         UNCHANGED <<clock, buffer, classifier, aggregator>>,
         up' \in UpState, up'.todo = up.todo, up'.call \in {"post", "failed", "markUploaded"},
         up'.call = "post" => up'.attempt < MaxRetries,
         faults' \in 0..MaxFaults, happened' \subseteq Faults, happened \subseteq happened',
         Undisturbed' => up'.call = "markUploaded"
  PROVE  IInv'
<1> USE DEF IInv, buffer, aggregator
<1> DEFINE w == batches[b].window
<1>1. b \in DOMAIN batches /\ w \in Window
  BY BatchesTyped, UpTyped DEF Batch, UpState
<1>2. delivered \in [Window -> 0..2]
  BY DEF TypeOK
<1>3. /\ delivered' \in [Window -> 0..2] /\ delivered'[w] > 0
      /\ \A v \in Window : delivered'[v] >= delivered[v]
      /\ \A v \in Window : v # w => delivered'[v] = delivered[v]
      /\ delivered[w] = 0 => delivered'[w] = 1
  BY <1>1, <1>2 DEF Deliver
<1>4. \A c \in DOMAIN batches : batches[c].window \in Window /\ (c # b => batches[c].window # w)
  BY <1>1, BatchesTyped, WindowsDiffer, CountedOnceIsInOneBatch DEF Batch
<1>5. \A c \in up.todo : Current(c)' => c = b
  <2>1. \A c \in up.todo : c \in Nat /\ b \in Nat
    BY BatchesTyped, UpTyped DEF UpState
  <2>2. QED
    BY <2>1 DEF Current
<1>6. Current(b)'
  BY DEF Current
<1>7. TypeOK'
  BY <1>3 DEF TypeOK, UpState, UpCall
<1>8. FetchedKeepsStage' /\ WindowsInOrder' /\ CountedOnce'
  BY DEF FetchedKeepsStage, WindowsInOrder, CountedOnce, Holders
<1>9. Undisturbed' =>
        /\ Undisturbed /\ ~batches[b].uploaded /\ delivered[w] = 0 /\ delivered'[w] = 1
  <2>1. Undisturbed' => Undisturbed
    BY DEF Undisturbed
  <2>2. Undisturbed => ~batches[b].uploaded /\ ~(delivered[w] > 0)
    BY <1>1 DEF FlushKnows
  <2>3. QED
    BY <1>1, <1>2, <1>3, <2>1, <2>2
<1>10. FlushKnows'
  <2>1. up'.call = "markUploaded" =>
          \A c \in up'.todo : Current(c)' => delivered'[batches'[c].window] > 0
    BY <1>3, <1>5
  <2>2. \A v \in Window : delivered'[v] > 0 => \E c \in DOMAIN batches' : batches'[c].window = v
    BY <1>1, <1>3 DEF FlushKnows
  <2>3. Undisturbed' =>
          \A c \in DOMAIN batches' : delivered'[batches'[c].window] > 0 =>
            batches'[c].uploaded \/ (up'.call = "markUploaded" /\ Current(c)')
    BY <1>3, <1>4, <1>6, <1>9 DEF FlushKnows
  <2>4. Undisturbed' => \A c \in up'.todo : ~batches'[c].uploaded
    BY <1>9 DEF FlushKnows
  <2>5. QED
    BY <2>1, <2>2, <2>3, <2>4 DEF FlushKnows
<1>11. UploadedIsDelivered'
  <2>1. \A c \in DOMAIN batches : batches[c].uploaded => delivered'[batches[c].window] > 0
    BY <1>2, <1>3, <1>4 DEF UploadedIsDelivered
  <2>2. ASSUME NEW c \in DOMAIN batches, delivered'[batches[c].window] > 1
        PROVE  happened' \cap {"lost", "db", "kill"} # {}
    <3>1. CASE c = b
      BY <1>9, <2>2, <3>1 DEF Undisturbed
    <3>2. CASE c # b
      BY <1>3, <1>4, <2>2, <3>2 DEF UploadedIsDelivered
    <3>3. QED
      BY <3>1, <3>2
  <2>3. QED
    BY <2>1, <2>2 DEF UploadedIsDelivered
<1>12. QED
  BY <1>7, <1>8, <1>10, <1>11

LEMMA PostStep == IInv /\ Post => IInv'
<1> SUFFICES ASSUME IInv, Post PROVE IInv'
  OBVIOUS
<1> USE DEF IInv
<1> DEFINE again == up' = IF up.attempt + 1 < MaxRetries
                            THEN [up EXCEPT !.attempt = @ + 1]
                            ELSE [up EXCEPT !.call = "failed", !.attempt = @ + 1]
           giveUp == up' = [up EXCEPT !.call = "failed"]
           taken == Takes(Envelope) /\ \E b \in up.todo : Current(b) /\ Deliver(b)
           Typed == /\ up' \in UpState /\ up'.todo = up.todo /\ up'.call \in {"post", "failed"}
                    /\ up'.call = "post" => up'.attempt < MaxRetries
<1>1. up \in UpState /\ up.call = "post" /\ UNCHANGED <<clock, buffer, classifier, aggregator>>
  BY UpTyped DEF Post
<1>2. up.attempt \in Nat /\ up.attempt < MaxRetries
  BY <1>1 DEF UpState, FlushKnows
<1>3. again \/ giveUp => Typed
  <2> DEFINE next == [up EXCEPT !.attempt = @ + 1]
             last == [up EXCEPT !.call = "failed", !.attempt = @ + 1]
             over == [up EXCEPT !.call = "failed"]
  <2>1. up.attempt + 1 \in 0..MaxRetries
    BY <1>2
  <2>2. /\ next \in UpState /\ next.todo = up.todo /\ next.call = "post"
        /\ next.attempt = up.attempt + 1
    BY <1>1, <2>1 DEF UpState, UpCall
  <2>3. last \in UpState /\ last.todo = up.todo /\ last.call = "failed"
    BY <1>1, <2>1 DEF UpState, UpCall
  <2>4. over \in UpState /\ over.todo = up.todo /\ over.call = "failed"
    BY <1>1 DEF UpState, UpCall
  <2>5. again \/ giveUp =>
          \/ up.attempt + 1 < MaxRetries /\ up' = next
          \/ up' = last
          \/ up' = over
    OBVIOUS
  <2> HIDE DEF again, giveUp, next, last, over
  <2>6. QED
    BY <2>2, <2>3, <2>4, <2>5
<1>4. CASE up' = [up EXCEPT !.call = "markUploaded"] /\ NoStrike /\ taken
  <2>1. up' \in UpState /\ up'.todo = up.todo /\ up'.call = "markUploaded"
    BY <1>1, <1>4 DEF UpState, UpCall
  <2>2. faults' \in 0..MaxFaults /\ happened' \subseteq Faults /\ happened \subseteq happened'
    BY <1>4, RecordTyped
  <2>3. QED
    BY <1>1, <1>4, <2>1, <2>2, TakenStep
<1>5. CASE Strike("lost") /\ taken /\ again
  <2>1. /\ faults' \in 0..MaxFaults /\ happened' \subseteq Faults /\ happened \subseteq happened'
        /\ ~Undisturbed'
    BY <1>5, StrikeTyped DEF Undisturbed
  <2>2. Typed
    BY <1>3, <1>5
  <2>3. QED
    BY <1>1, <1>5, <2>1, <2>2, TakenStep
<1>6. CASE NoStrike /\ UNCHANGED delivered /\ (again \/ giveUp)
  <2>1. faults' \in 0..MaxFaults /\ happened' \subseteq Faults /\ happened \subseteq happened'
    BY <1>6, RecordTyped
  <2>2. Typed
    BY <1>3, <1>6
  <2>3. Undisturbed' => \A b \in up.todo : ~batches[b].uploaded
    BY <2>1 DEF Undisturbed, FlushKnows
  <2>4. QED
    BY <1>1, <1>6, <2>1, <2>2, <2>3, UploaderQuietStep
<1>7. QED
  <2>1. \/ NoStrike /\ taken /\ up' = [up EXCEPT !.call = "markUploaded"]
        \/ Strike("lost") /\ taken /\ again
        \/ NoStrike /\ UNCHANGED delivered /\ (again \/ giveUp)
    BY DEF Post
  <2> HIDE DEF again, giveUp, taken
  <2>2. QED
    BY <1>4, <1>5, <1>6, <2>1

(* The queue after a mark: only the one batch differs, and only in that.   *)
LEMMA MarkBatch ==
  ASSUME TypeOK, NEW b \in DOMAIN batches, batches' = [batches EXCEPT ![b].uploaded = TRUE]
  PROVE  /\ batches' \in Seq(Batch) /\ DOMAIN batches' = DOMAIN batches
         /\ \A c \in DOMAIN batches :
              /\ batches'[c].window = batches[c].window
              /\ batches'[c].members = batches[c].members
              /\ batches'[c].uploaded <=> batches[c].uploaded \/ c = b
<1> DEFINE new == [batches[b] EXCEPT !.uploaded = TRUE]
<1>1. batches \in Seq(Batch) /\ batches[b] \in Batch
  BY BatchesTyped
<1>2. /\ new \in Batch /\ new.window = batches[b].window /\ new.members = batches[b].members
      /\ new.uploaded = TRUE
  BY <1>1 DEF Batch
<1>3. batches' = [batches EXCEPT ![b] = new]
  OBVIOUS
<1> HIDE DEF new
<1>4. batches' \in Seq(Batch) /\ DOMAIN batches' = DOMAIN batches
  <2>1. batches \in Seq(Batch) /\ b \in 1..Len(batches) /\ new \in Batch
    BY <1>1, <1>2, BatchesTyped
  <2>2. [batches EXCEPT ![b] = new] \in Seq(Batch)
    BY <2>1, ExceptSeq
  <2>3. DOMAIN [batches EXCEPT ![b] = new] = DOMAIN batches
    OBVIOUS
  <2>4. QED
    BY <1>3, <2>2, <2>3
<1>5. \A c \in DOMAIN batches : batches'[c] = IF c = b THEN new ELSE batches[c]
  BY <1>1, <1>3
<1>6. QED
  BY <1>2, <1>4, <1>5

LEMMA MarkUploadedStep == IInv /\ MarkUploaded => IInv'
<1> SUFFICES ASSUME IInv, MarkUploaded PROVE IInv'
  OBVIOUS
<1> USE DEF IInv
<1>1. PICK b \in up.todo :
        /\ Current(b)
        /\ \/ batches' = [batches EXCEPT ![b].uploaded = TRUE] /\ NoStrike
           \/ Strike("db") /\ UNCHANGED batches
        /\ NextBatch(up.todo \ {b})
  BY DEF MarkUploaded
<1>2. /\ up.call = "markUploaded" /\ UNCHANGED <<clock, events, delivered, classifier, aggregator>>
  BY DEF MarkUploaded
<1>3. b \in DOMAIN batches /\ up.todo \ {b} \subseteq DOMAIN batches
  BY DEF TypeOK
<1>4. /\ up' \in UpState /\ up'.call \in {"none", "post"} /\ up'.todo = up.todo \ {b}
      /\ up'.call = "post" => up'.attempt < MaxRetries
      /\ up'.todo = {} => up'.call = "none"
      /\ up'.todo # {} => up'.call = "post"
  BY <1>1, <1>3, NextBatchTyped DEF NextBatch
<1>5. CASE Strike("db") /\ UNCHANGED batches
  <2>1. /\ faults' \in 0..MaxFaults /\ happened' \subseteq Faults /\ happened \subseteq happened'
        /\ ~Undisturbed'
    BY <1>5, StrikeTyped DEF Undisturbed
  <2>2. QED
    BY <1>2, <1>4, <1>5, <2>1, UploaderQuietStep DEF buffer
<1>6. CASE batches' = [batches EXCEPT ![b].uploaded = TRUE] /\ NoStrike
  <2>1. /\ batches' \in Seq(Batch) /\ DOMAIN batches' = DOMAIN batches
        /\ \A c \in DOMAIN batches :
             /\ batches'[c].window = batches[c].window
             /\ batches'[c].members = batches[c].members
             /\ batches'[c].uploaded <=> batches[c].uploaded \/ c = b
    BY <1>3, <1>6, MarkBatch
  <2>2. faults' = faults /\ happened' = happened
    BY <1>6 DEF NoStrike, record
  <2>3. TypeOK'
    BY <1>2, <1>4, <2>1, <2>2 DEF TypeOK, Batch, UpState, UpCall, aggregator
  <2>4. FetchedKeepsStage'
    BY <1>2, <2>1 DEF FetchedKeepsStage, aggregator
  <2>5. WindowsInOrder'
    <3>1. windowEnd' = windowEnd /\ agg' = agg /\ clock' = clock
      BY <1>2 DEF aggregator
    <3>2. \A c \in DOMAIN batches' : batches'[c].window = batches[c].window
      BY <2>1
    <3>3. agg.call = "mark" => \E c \in DOMAIN batches' :
            batches'[c].window = windowEnd /\ batches'[c].members = agg.members
      <4> SUFFICES ASSUME agg.call = "mark"
                   PROVE  \E c \in DOMAIN batches' :
                            batches'[c].window = windowEnd /\ batches'[c].members = agg.members
        OBVIOUS
      <4>1. PICK c \in DOMAIN batches : batches[c].window = windowEnd /\ batches[c].members = agg.members
        BY DEF WindowsInOrder
      <4>2. QED
        BY <2>1, <4>1
    <3>4. QED
      BY <2>1, <3>1, <3>2, <3>3 DEF WindowsInOrder
  <2>6. delivered[batches[b].window] > 0
    BY <1>1, <1>2 DEF FlushKnows
  <2>7. FlushKnows'
    <3>1. \A w \in Window : delivered[w] > 0 => \E c \in DOMAIN batches' : batches'[c].window = w
      <4> SUFFICES ASSUME NEW w \in Window, delivered[w] > 0
                   PROVE  \E c \in DOMAIN batches' : batches'[c].window = w
        OBVIOUS
      <4>1. PICK c \in DOMAIN batches : batches[c].window = w
        BY DEF FlushKnows
      <4>2. QED
        BY <2>1, <4>1
    <3>2. up'.todo \subseteq DOMAIN batches /\ b \notin up'.todo /\ up'.todo \subseteq up.todo
      BY <1>3, <1>4
    <3>3. Undisturbed' => \A c \in up'.todo : ~batches'[c].uploaded
      BY <2>1, <2>2, <3>2 DEF FlushKnows, Undisturbed
    <3>4. \A c \in DOMAIN batches : Current(c) => c = b
      BY <1>1, <1>3, BatchesTyped DEF Current, TypeOK
    <3>5. Undisturbed' => \A c \in DOMAIN batches' :
            delivered'[batches'[c].window] > 0 => batches'[c].uploaded
      BY <1>2, <2>1, <2>2, <3>4 DEF FlushKnows, Undisturbed
    <3>6. QED
      BY <1>2, <1>4, <3>1, <3>3, <3>5 DEF FlushKnows
  <2>8. UploadedIsDelivered'
    BY <1>2, <2>1, <2>2, <2>6 DEF UploadedIsDelivered
  <2>9. InOneBatch'
    <3>1. InOneBatch
      BY CountedOnceIsInOneBatch
    <3>2. \A e \in Events : events[e].aggregated => \E c \in DOMAIN batches' : e \in batches'[c].members
      <4> SUFFICES ASSUME NEW e \in Events, events[e].aggregated
                   PROVE  \E c \in DOMAIN batches' : e \in batches'[c].members
        OBVIOUS
      <4>1. PICK c \in DOMAIN batches : e \in batches[c].members
        BY <3>1 DEF InOneBatch
      <4>2. QED
        BY <2>1, <4>1
    <3>3. QED
      BY <1>2, <2>1, <3>1, <3>2 DEF InOneBatch
  <2>10. CountedOnce'
    <3>1. (TypeOK => (CountedOnce <=> InOneBatch))'
      BY CountedOnceIsInOneBatch, PTL
    <3>2. QED
      BY <2>3, <2>9, <3>1
  <2>11. QED
    BY <2>3, <2>4, <2>5, <2>7, <2>8, <2>10
<1>7. QED
  BY <1>1, <1>5, <1>6

(* Beginning a flush and giving a batch up for this flush. *)
LEMMA FlushStep ==
  ASSUME IInv, Flush \/ PendingBatches \/ RecordBatchFailure
  PROVE  IInv'
<1> USE DEF IInv
<1>1. UNCHANGED <<clock, buffer, delivered, classifier, aggregator>>
  BY DEF Flush, PendingBatches, RecordBatchFailure
<1>2. faults' \in 0..MaxFaults /\ happened' \subseteq Faults /\ happened \subseteq happened'
  BY RecordTyped DEF Flush, PendingBatches, RecordBatchFailure, Fault, NoStrike, record
<1>3. up.call # "markUploaded" /\ (Undisturbed' => Undisturbed)
  BY <1>2, IdlesTyped DEF Flush, PendingBatches, RecordBatchFailure, Undisturbed
<1>4. /\ up' \in UpState /\ up'.call # "markUploaded"
      /\ up'.call \in {"none", "pending"} => up'.todo = {}
      /\ up'.call = "post" => up'.attempt < MaxRetries
      /\ Undisturbed => \A b \in up'.todo : ~batches[b].uploaded
  <2>1. CASE Flush
    BY <2>1, UpTyped DEF Flush
  <2>2. CASE PendingBatches
    <3> DEFINE oldest == {b \in Unsent : Cardinality({c \in Unsent : c < b}) < BatchSize}
    <3>1. oldest \subseteq DOMAIN batches /\ \A b \in oldest : ~batches[b].uploaded
      BY DEF Unsent
    <3>2. NextBatch(oldest) \/ up' = UpIdle
      BY <2>2 DEF PendingBatches
    <3> HIDE DEF oldest
    <3>3. CASE NextBatch(oldest)
      BY <3>1, <3>3, NextBatchTyped DEF NextBatch
    <3>4. CASE up' = UpIdle
      BY <3>4, UpTyped, IdlesTyped
    <3>5. QED
      BY <3>2, <3>3, <3>4
  <2>3. CASE RecordBatchFailure
    <3>1. PICK b \in up.todo : NextBatch(up.todo \ {b})
      BY <2>3 DEF RecordBatchFailure
    <3>2. up.todo \ {b} \subseteq DOMAIN batches
      BY DEF TypeOK
    <3>3. /\ up' \in UpState /\ up'.call \in {"none", "post"} /\ up'.todo = up.todo \ {b}
          /\ up'.call = "post" => up'.attempt < MaxRetries
          /\ up'.todo # {} => up'.call = "post"
      BY <3>1, <3>2, NextBatchTyped DEF NextBatch
    <3>4. Undisturbed => \A c \in up.todo : ~batches[c].uploaded
      BY DEF FlushKnows
    <3>5. QED
      BY <3>3, <3>4
  <2>4. QED
    BY <2>1, <2>2, <2>3
<1>5. QED
  BY <1>1, <1>2, <1>3, <1>4, UploaderQuietStep

(* A new process: every batch is of a window before the present.           *)
LEMMA RestartStep == IInv /\ Restart => IInv'
<1> SUFFICES ASSUME IInv, Restart PROVE IInv'
  OBVIOUS
<1> USE DEF IInv, Restart, buffer
<1>1. /\ faults' \in 0..MaxFaults /\ happened' \subseteq Faults /\ happened \subseteq happened'
      /\ ~Undisturbed'
  BY StrikeTyped DEF Undisturbed
<1>2. agg'.call = "none" /\ agg' \in AggState /\ up' \in UpState /\ up'.call = "pending" /\ up'.todo = {}
  BY IdlesTyped, UpTyped
<1>3. TypeOK'
  BY <1>1, <1>2 DEF TypeOK, UpState, UpCall, AggState
<1>4. FetchedKeepsStage'
  BY <1>2 DEF FetchedKeepsStage
<1>5. WindowsInOrder'
  <2>1. windowEnd' = clock /\ clock' = clock /\ batches' = batches /\ clock \in Int
    BY BatchesTyped DEF TypeOK, Batch, Window
  <2>2. \A b \in DOMAIN batches : batches[b].window < clock /\ batches[b].window \in Int
    BY BatchesTyped DEF WindowsInOrder, Batch, Window
  <2>3. \A b \in DOMAIN batches' :
          /\ batches'[b].window <= windowEnd' /\ batches'[b].window < clock'
          /\ batches'[b].window < windowEnd'
    BY <2>1, <2>2
  <2>4. windowEnd' <= clock'
    BY <2>1
  <2>5. QED
    BY <1>2, <2>3, <2>4 DEF WindowsInOrder
<1>6. FlushKnows' /\ UploadedIsDelivered'
  BY <1>1, <1>2 DEF FlushKnows, UploadedIsDelivered, Undisturbed
<1>7. CountedOnce'
  BY DEF CountedOnce, Holders
<1>8. QED
  BY <1>3, <1>4, <1>5, <1>6, <1>7

LEMMA Inductive == IInv /\ [Next]_vars => IInv'
<1> SUFFICES ASSUME IInv, [Next]_vars PROVE IInv'
  OBVIOUS
<1>1. CASE Tick \/ Submit \/ Classify
  BY <1>1, EventStep
<1>2. CASE Aggregate
  BY <1>2, AggregatorQuietStep, EnqueueStep, MarkAggregatedStep DEF Aggregate
<1>3. CASE Upload
  BY <1>3, FlushStep, PostStep, MarkUploadedStep DEF Upload
<1>4. CASE Restart
  BY <1>4, RestartStep
<1>5. CASE UNCHANGED vars
  <2> USE <1>5 DEF IInv, vars, buffer, aggregator, record
  <2>1. TypeOK' /\ FetchedKeepsStage' /\ WindowsInOrder'
    BY DEF TypeOK, FetchedKeepsStage, WindowsInOrder
  <2>2. FlushKnows' /\ CountedOnce' /\ UploadedIsDelivered'
    BY DEF FlushKnows, Undisturbed, Current, CountedOnce, Holders, UploadedIsDelivered
  <2>3. QED
    BY <2>1, <2>2
<1>6. QED
  BY <1>1, <1>2, <1>3, <1>4, <1>5 DEF Next
-----------------------------------------------------------------------------
(* The invariant of the pipeline: the aggregator is behind the clock and   *)
(* ahead of every batch, and the uploader knows which batches are new to   *)
(* the server.                                                             *)
THEOREM PipelineInvariance == Spec => []IInv
<1>1. QED
  BY InitInvariant, Inductive, PTL DEF Spec

(* Every row, batch and goroutine keeps its type. *)
THEOREM PipelineTyped == Spec => []TypeOK
<1>1. IInv => TypeOK
  BY DEF IInv
<1>2. QED
  BY <1>1, PipelineInvariance, PTL

(* An event is in one batch at most, that of its own window, although      *)
(* nothing stored says which windows have been aggregated.                 *)
THEOREM AlwaysCountedOnce == Spec => []CountedOnce
<1>1. IInv => CountedOnce
  BY DEF IInv
<1>2. QED
  BY <1>1, PipelineInvariance, PTL

(* What leaves the queue has been taken, and is taken twice only after a   *)
(* lost answer, a failed mark or a restart.                                *)
THEOREM UploadedAlwaysDelivered == Spec => []UploadedIsDelivered
<1>1. IInv => UploadedIsDelivered
  BY DEF IInv
<1>2. QED
  BY <1>1, PipelineInvariance, PTL

(* No body of the agent passes the validation of this repository's         *)
(* backend: its batch is not called batches, and agentVersion and sentAt   *)
(* are not in the DTO.                                                     *)
LEMMA EnvelopeRefused == ~Validates(Envelope)
BY DEF Validates, Envelope, Required

(* With that backend no batch is ever taken: all of them stay in the queue.*)
THEOREM BackendTakesNothing ==
  ASSUME ~Lenient
  PROVE  Spec => [](Unsent = DOMAIN batches)
<1> DEFINE Nothing == \A w \in Window : delivered[w] = 0
<1>1. ~Takes(Envelope)
  BY EnvelopeRefused DEF Takes
<1>2. Init => Nothing
  BY DEF Init
<1>3. Nothing /\ [Next]_vars => Nothing'
  <2>1. [Next]_vars => delivered' = delivered
    BY <1>1 DEF Next, Tick, Submit, Classify, FetchUnclassified, SaveClassification, Aggregate,
                AggregatorTick, Fetch, EnqueueBatch, MarkAggregated, Upload, Flush,
                PendingBatches, Post, RecordBatchFailure, MarkUploaded, Restart, vars
  <2>2. QED
    BY <2>1
<1>4. IInv /\ Nothing => Unsent = DOMAIN batches
  <2> SUFFICES ASSUME IInv, Nothing, NEW b \in DOMAIN batches PROVE ~batches[b].uploaded
    BY DEF Unsent
  <2>1. batches[b].window \in Window
    BY BatchesTyped DEF IInv, Batch
  <2>2. QED
    BY <2>1 DEF IInv, UploadedIsDelivered
<1>5. QED
  BY <1>2, <1>3, <1>4, PipelineInvariance, PTL DEF Spec
=============================================================================
