------------------------ MODULE ExtensionQueueProofs ------------------------
(***************************************************************************)
(* The safety properties of the extension's queue for every number of      *)
(* events, every limit of the queue, any number of handlers in progress    *)
(* together and any number of faults.                                      *)
(***************************************************************************)
EXTENDS ExtensionQueue, SequenceTheorems, TLAPS

USE ExtensionAssumption

AddState == {Idle} \cup [call : {"set"}, batch : Seq(Events)]
UploadState == {Idle} \cup [call : {"get", "post", "clear", "retry"}, batch : Seq(Events)]

(* The newest MaxQueue events of a list, in its order. *)
LEMMA TrimmedList ==
  ASSUME NEW s \in Seq(Events), Ascending(s)
  PROVE  /\ Trimmed(s) \in Seq(Events) /\ Ascending(Trimmed(s))
         /\ Len(Trimmed(s)) <= MaxQueue
         /\ ToSet(Trimmed(s)) \subseteq ToSet(s)
<1>1. CASE Len(s) <= MaxQueue
  BY <1>1 DEF Trimmed
<1>2. CASE Len(s) > MaxQueue
  <2> DEFINE m == Len(s) - MaxQueue + 1
             t == SubSeq(s, m, Len(s))
  <2>1. m \in Nat /\ m >= 1 /\ Len(s) \in Nat /\ Len(s) - m + 1 = MaxQueue /\ MaxQueue \in Nat
    BY <1>2
  <2>2. \A i \in m..Len(s) : s[i] \in Events
    BY <2>1
  <2>3. /\ t \in Seq(Events) /\ Len(t) = MaxQueue
        /\ \A i \in 1..MaxQueue : t[i] = s[m + i - 1]
    BY <1>2, <2>1, <2>2, SubSeqProperties
  <2>4. Trimmed(s) = t
    BY <1>2 DEF Trimmed
  <2> HIDE DEF t, m
  <2>5. DOMAIN t = 1..MaxQueue
    BY <2>3
  <2>6. \A i \in 1..MaxQueue : m + i - 1 \in DOMAIN s
    BY <2>1 DEF m
  <2>7. Ascending(t)
    <3>1. SUFFICES ASSUME NEW i \in 1..MaxQueue, NEW j \in 1..MaxQueue, i < j
                   PROVE  t[i] < t[j]
      BY <2>5 DEF Ascending
    <3>2. m + i - 1 < m + j - 1
      BY <2>1, <3>1
    <3>3. s[m + i - 1] < s[m + j - 1]
      BY <2>6, <3>2 DEF Ascending
    <3>4. QED
      BY <2>3, <3>3
  <2>8. ToSet(t) \subseteq ToSet(s)
    BY <2>3, <2>5, <2>6 DEF ToSet
  <2>9. QED
    BY <2>1, <2>3, <2>4, <2>7, <2>8
<1>3. QED
  BY <1>1, <1>2

(* A list with one more event at its end. *)
LEMMA AppendedList ==
  ASSUME NEW s \in Seq(Events), Ascending(s), NEW n \in Nat, n + 1 \in Events,
         \A e \in ToSet(s) : e <= n
  PROVE  /\ Append(s, n + 1) \in Seq(Events) /\ Append(s, n + 1) # <<>>
         /\ Ascending(Append(s, n + 1)) /\ Last(Append(s, n + 1)) = n + 1
         /\ ToSet(Append(s, n + 1)) = ToSet(s) \cup {n + 1}
<1> DEFINE t == Append(s, n + 1)
<1>1. /\ t \in Seq(Events) /\ Len(t) = Len(s) + 1 /\ DOMAIN t = 1..Len(s) + 1 /\ Len(s) \in Nat
      /\ \A i \in 1..Len(s) : t[i] = s[i]
      /\ t[Len(s) + 1] = n + 1
  OBVIOUS
<1> HIDE DEF t
<1>2. \A i \in 1..Len(s) : s[i] \in Nat /\ s[i] <= n
  BY DEF ToSet, Events
<1>3. Ascending(t)
  BY <1>1, <1>2 DEF Ascending
<1>4. ToSet(t) = ToSet(s) \cup {n + 1}
  BY <1>1 DEF ToSet
<1>5. t # <<>> /\ Last(t) = n + 1
  BY <1>1 DEF Last
<1>6. QED
  BY <1>1, <1>3, <1>4, <1>5 DEF t

LEMMA LastOfList ==
  ASSUME NEW s \in Seq(Events), s # <<>>
  PROVE  Last(s) \in ToSet(s)
BY DEF Last, ToSet

LEMMA StateTyped ==
  ASSUME TypeOK
  PROVE  /\ \A a \in Adders : add[a] \in AddState
         /\ \A u \in Uploaders : upload[u] \in UploadState
         /\ \A a \in Adders : add[a] # Idle <=> add[a].call = "set"
         /\ \A u \in Uploaders : upload[u] # Idle <=> upload[u].call # "none"
         /\ Idle.call = "none" /\ <<>> \in Seq(Events)
         /\ \A call \in {"get", "post", "clear", "retry"}, batch \in Seq(Events) :
              [call |-> call, batch |-> batch] \in UploadState
BY DEF TypeOK, Idle, AddState, UploadState

LEMMA StrikeTyped ==
  ASSUME TypeOK, NEW fault, Strike(fault)
  PROVE  faults' \in 0..MaxFaults /\ happened' \subseteq Faults /\ happened' = happened \cup {fault}
BY DEF TypeOK, Strike
-----------------------------------------------------------------------------
LEMMA InitInvariant == Init => IInv
<1> SUFFICES ASSUME Init PROVE IInv
  OBVIOUS
<1> USE DEF Init
<1>1. TypeOK
  <2>1. 0 \in 0..N /\ 0 \in 0..MaxFaults /\ <<>> \in Seq(Events)
    OBVIOUS
  <2>2. delivered \in [Events -> 0..2]
    OBVIOUS
  <2>3. QED
    BY <2>1, <2>2 DEF TypeOK
<1>2. ToSet(queue) = {} /\ Ascending(queue) /\ Len(queue) = 0
  BY DEF ToSet, Ascending
<1>3. ListsInOrder
  BY <1>2 DEF ListsInOrder, Chronicle
<1>4. ClearedIsDelivered /\ OneHandler
  BY DEF ClearedIsDelivered, OneHandler, Idle
<1>5. SerialHandlers
  BY <1>2 DEF SerialHandlers, Queued, Idle
<1>6. StoredIsKept /\ SerialIsExact
  BY DEF StoredIsKept, Stored, SerialIsExact
<1>7. QED
  BY <1>1, <1>3, <1>4, <1>5, <1>6 DEF IInv
-----------------------------------------------------------------------------
(* An event that nobody has seen before is at the end of what is read.     *)
LEMMA CaptureStep ==
  ASSUME IInv, NEW a \in Adders, Capture(a)
  PROVE  IInv'
<1> USE DEF IInv
<1> DEFINE batch == Append(queue, captured + 1)
<1>1. /\ captured < N /\ add[a] = Idle /\ captured' = captured + 1
      /\ add' = [add EXCEPT ![a] = Writing(batch)]
      /\ overlapped' = (overlapped \/ Busy)
      /\ UNCHANGED <<queue, upload, alarm, paused, delivered, dropped, overwritten, faults, happened>>
  BY DEF Capture, history
<1>2. captured \in Nat /\ captured + 1 \in Events /\ captured + 1 \in 0..N
  BY <1>1 DEF TypeOK, Events
<1>3. /\ batch \in Seq(Events) /\ batch # <<>> /\ Ascending(batch) /\ Last(batch) = captured + 1
      /\ ToSet(batch) = Queued \cup {captured + 1}
  BY <1>2, AppendedList DEF TypeOK, ListsInOrder, Chronicle, Queued
<1> HIDE DEF batch
<1>4. /\ add'[a] = Writing(batch) /\ add'[a] # Idle
      /\ \A b \in Adders \ {a} : add'[b] = add[b]
      /\ Writing(batch) \in [call : {"set"}, batch : Seq(Events)] /\ Writing(batch).batch = batch
  BY <1>1, <1>3 DEF TypeOK, Writing, Idle
<1>5. TypeOK'
  <2>1. add' \in [Adders -> AddState]
    BY <1>1, <1>4 DEF TypeOK, AddState
  <2>2. overlapped' \in BOOLEAN
    BY <1>1 DEF TypeOK
  <2>3. QED
    BY <1>1, <1>2, <2>1, <2>2 DEF TypeOK, AddState
<1>6. ListsInOrder'
  <2>1. \A s \in Seq(Events) : Chronicle(s) => \A e \in ToSet(s) : e <= captured'
    <3>1. \A s \in Seq(Events) : ToSet(s) \subseteq Nat
      BY DEF ToSet, Events
    <3>2. \A e \in Nat : e <= captured => e <= captured'
      BY <1>1, <1>2
    <3>3. QED
      BY <3>1, <3>2 DEF Chronicle
  <2>2. \A e \in ToSet(batch) : e <= captured'
    BY <1>1, <1>2, <1>3, <2>1 DEF TypeOK, ListsInOrder, Queued
  <2>3. Ascending(queue)' /\ \A e \in ToSet(queue)' : e <= captured'
    BY <1>1, <2>1 DEF TypeOK, ListsInOrder, Chronicle, Ascending, ToSet
  <2>4. ASSUME NEW b \in Adders, add'[b] # Idle
        PROVE  add'[b].batch # <<>> /\ Ascending(add'[b].batch) /\ \A e \in ToSet(add'[b].batch) : e <= captured'
    <3>1. CASE b = a
      BY <1>3, <1>4, <2>2, <3>1
    <3>2. CASE b # a
      <4>1. add[b] # Idle /\ add'[b] = add[b] /\ add[b].batch \in Seq(Events)
        BY <1>4, <2>4, <3>2 DEF TypeOK
      <4>2. QED
        BY <2>1, <4>1 DEF ListsInOrder, Chronicle
    <3>3. QED
      BY <3>1, <3>2
  <2>5. QED
    BY <1>1, <2>3, <2>4 DEF ListsInOrder, Chronicle
<1>7. ClearedIsDelivered'
  BY <1>1 DEF ClearedIsDelivered
<1>8. OneHandler'
  <2>1. ~overlapped' => ~Busy
    BY <1>1
  <2>2. ~Busy => (\A b \in Adders : add[b] = Idle) /\ (\A u \in Uploaders : upload[u] = Idle)
    BY DEF Busy
  <2>3. (\A b \in Adders \ {a} : add'[b] = add[b]) /\ upload' = upload
    BY <1>1, <1>4
  <2>4. ~overlapped' => /\ \A b \in Adders : add'[b] # Idle => b = a
                        /\ \A u \in Uploaders : upload'[u] = Idle
    BY <2>1, <2>2, <2>3
  <2>5. QED
    BY <2>4 DEF OneHandler
<1>9. SerialHandlers' /\ SerialIsExact'
  <2>1. Serial' => Serial /\ ~Busy
    BY <1>1 DEF Serial
  <2>2. Serial' => \A e \in ToSet(batch) : delivered'[e] = 0
    <3>1. captured + 1 > captured
      BY <1>2
    <3>2. Serial /\ ~Busy => \A e \in Queued : delivered[e] = 0
      BY DEF SerialHandlers, Busy, Idle
    <3>3. Serial => delivered[captured + 1] = 0
      BY <1>2, <3>1 DEF SerialHandlers
    <3>4. QED
      BY <1>1, <1>3, <2>1, <3>2, <3>3
  <2>3. Queued' = Queued
    BY <1>1 DEF Queued
  <2>4. \A e \in Events : e > captured' => e > captured
    BY <1>1, <1>2 DEF Events
  <2>5. SerialHandlers'
    BY <1>1, <1>3, <1>4, <2>1, <2>2, <2>3, <2>4 DEF SerialHandlers, Busy
  <2>6. SerialIsExact'
    BY <1>1, <2>1 DEF SerialIsExact, Serial
  <2>7. QED
    BY <2>5, <2>6
<1>10. StoredIsKept'
  <2>1. Stored' \subseteq Stored
    <3>1. SUFFICES ASSUME NEW e \in 1..captured', \A b \in Adders : add'[b] # Idle => Last(add'[b].batch) # e
                   PROVE  e \in 1..captured /\ \A b \in Adders : add[b] # Idle => Last(add[b].batch) # e
      BY DEF Stored
    <3>2. e # captured + 1
      BY <1>3, <1>4, <3>1
    <3>3. e \in 1..captured
      BY <1>1, <1>2, <3>2
    <3>4. QED
      BY <1>1, <1>4, <3>1, <3>3
  <2>2. Queued' = Queued
    BY <1>1 DEF Queued
  <2>3. QED
    BY <1>1, <2>1, <2>2 DEF StoredIsKept
<1>11. QED
  BY <1>5, <1>6, <1>7, <1>8, <1>9, <1>10

(* A write keeps every event it knows of, or trims it, and overwrites what *)
(* it does not know of.                                                    *)
LEMMA SetStep ==
  ASSUME IInv, NEW a \in Adders, Set(a)
  PROVE  IInv'
<1> USE DEF IInv
<1> DEFINE events == add[a].batch
<1>1. /\ add[a].call = "set" /\ add' = [add EXCEPT ![a] = Idle]
      /\ queue' = Trimmed(events) /\ overwritten' = overwritten \cup (Queued \ ToSet(events))
      /\ dropped' = dropped \cup (ToSet(events) \ ToSet(Trimmed(events)))
      /\ UNCHANGED <<upload, alarm, paused, captured, delivered, overlapped, faults, happened>>
  BY DEF Set, Store, Queued
<1>2. /\ add[a] # Idle /\ events \in Seq(Events) /\ events # <<>>
      /\ Ascending(events) /\ \A e \in ToSet(events) : e <= captured
  BY <1>1, StateTyped DEF TypeOK, ListsInOrder, Chronicle
<1>3. /\ Trimmed(events) \in Seq(Events) /\ Ascending(Trimmed(events))
      /\ Len(Trimmed(events)) <= MaxQueue
      /\ ToSet(Trimmed(events)) \subseteq ToSet(events)
  BY <1>2, TrimmedList
<1>4. add'[a] = Idle /\ \A b \in Adders \ {a} : add'[b] = add[b]
  BY <1>1 DEF TypeOK
<1>5. ToSet(events) \subseteq Events /\ Queued \subseteq Events
  BY <1>2 DEF ToSet, TypeOK, Queued
<1>6. Queued' = ToSet(Trimmed(events))
  BY <1>1 DEF Queued
<1> HIDE DEF events
<1>7. TypeOK'
  BY <1>1, <1>3, <1>5 DEF TypeOK
<1>8. ListsInOrder'
  <2>1. Chronicle(queue)'
    BY <1>1, <1>2, <1>3 DEF Chronicle
  <2>2. ASSUME NEW b \in Adders, add'[b] # Idle
        PROVE  add'[b].batch # <<>> /\ Ascending(add'[b].batch) /\ \A e \in ToSet(add'[b].batch) : e <= captured'
    <3>1. b # a /\ add'[b] = add[b] /\ captured' = captured
      BY <1>1, <1>4, <2>2
    <3>2. QED
      BY <2>2, <3>1 DEF ListsInOrder, Chronicle
  <2>3. QED
    BY <1>1, <1>3, <2>1, <2>2 DEF ListsInOrder, Chronicle
<1>9. ClearedIsDelivered'
  BY <1>1 DEF ClearedIsDelivered
<1>10. OneHandler'
  BY <1>1, <1>4 DEF OneHandler
<1>11. SerialHandlers' /\ SerialIsExact'
  <2>1. Serial' => /\ Serial /\ \A b \in Adders : add'[b] = Idle
                   /\ \A u \in Uploaders : upload[u] = Idle
    BY <1>1, <1>2, <1>4 DEF Serial, OneHandler
  <2>2. Serial => Queued \subseteq ToSet(events) /\ \A e \in ToSet(events) : delivered[e] = 0
    BY <1>2 DEF SerialHandlers, events
  <2>3. SerialHandlers'
    BY <1>1, <1>3, <1>6, <2>1, <2>2, StateTyped DEF SerialHandlers
  <2>4. SerialIsExact'
    BY <1>1, <2>1, <2>2 DEF SerialIsExact, Serial
  <2>5. QED
    BY <2>3, <2>4
<1>12. StoredIsKept'
  <2>1. SUFFICES ASSUME NEW e \in Stored', "teardown" \notin happened'
                 PROVE  e \in Queued' \/ delivered'[e] > 0 \/ e \in dropped' \cup overwritten'
    BY DEF StoredIsKept
  <2>2. CASE e \in ToSet(events)
    BY <1>1, <1>6, <2>2
  <2>3. CASE e \notin ToSet(events)
    <3>1. e # Last(events)
      BY <1>2, <2>3, LastOfList
    <3>2. e \in Stored
      BY <1>1, <1>4, <2>1, <3>1 DEF Stored, events
    <3>3. e \in Queued \/ delivered[e] > 0 \/ e \in dropped \cup overwritten
      BY <1>1, <2>1, <3>2 DEF StoredIsKept
    <3>4. QED
      BY <1>1, <2>3, <3>3
  <2>4. QED
    BY <2>2, <2>3
<1>13. QED
  BY <1>7, <1>8, <1>9, <1>10, <1>11, <1>12
-----------------------------------------------------------------------------
(* The queue and what is known of its events stay.                         *)
LEMMA QuietStep ==
  ASSUME IInv, TypeOK', UNCHANGED <<queue, add, captured, delivered, dropped, overwritten>>,
         happened \subseteq happened', overlapped => overlapped',
         ClearedIsDelivered', OneHandler',
         Serial' =>
           /\ \A u \in Uploaders : upload'[u].call \in {"post", "clear", "retry"} => upload'[u].batch = queue
           /\ (\A u \in Uploaders : upload'[u].call # "clear") => \A e \in Queued : delivered[e] = 0
  PROVE  IInv'
<1> USE DEF IInv
<1>1. Queued' = Queued /\ Stored' = Stored
  BY DEF Queued, Stored
<1>2. Serial' => Serial
  BY DEF Serial, TypeOK
<1>3. ListsInOrder'
  BY DEF ListsInOrder, Chronicle, Ascending, ToSet
<1>4. SerialHandlers'
  BY <1>1, <1>2 DEF SerialHandlers
<1>5. SerialIsExact'
  BY <1>2 DEF SerialIsExact, Serial
<1>6. StoredIsKept'
  BY <1>1 DEF StoredIsKept
<1>7. QED
  BY <1>3, <1>4, <1>5, <1>6

LEMMA StartStep ==
  ASSUME IInv, NEW u \in Uploaders, Fire(u) \/ ForceFlush(u)
  PROVE  IInv'
<1> USE DEF IInv
<1> DEFINE new == [Idle EXCEPT !.call = "get"]
<1>1. /\ upload[u] = Idle /\ upload' = [upload EXCEPT ![u] = new]
      /\ overlapped' = (overlapped \/ Busy)
      /\ UNCHANGED <<queue, add, paused, captured, delivered, dropped, overwritten>>
  BY DEF Fire, ForceFlush, StartUpload, history
<1>2. new = [call |-> "get", batch |-> <<>>] /\ new \in UploadState /\ new.call = "get"
  <2>1. new = [call |-> "get", batch |-> <<>>]
    BY DEF Idle
  <2>2. [call |-> "get", batch |-> <<>>] \in UploadState
    BY DEF UploadState
  <2>3. QED
    BY <2>1, <2>2
<1> HIDE DEF new
<1>3. /\ upload'[u] = new /\ \A v \in Uploaders \ {u} : upload'[v] = upload[v]
  BY <1>1 DEF TypeOK
<1>4. faults' \in 0..MaxFaults /\ happened' \subseteq Faults /\ happened \subseteq happened'
  BY StrikeTyped DEF Fire, ForceFlush, TypeOK
<1>5. alarm' \in {"periodic", "once", "none"}
  BY DEF Fire, ForceFlush, TypeOK
<1>6. TypeOK'
  BY <1>1, <1>2, <1>4, <1>5 DEF TypeOK, UploadState
<1>7. ClearedIsDelivered'
  BY <1>1, <1>2, <1>3 DEF ClearedIsDelivered
<1>8. OneHandler'
  BY <1>1, <1>3 DEF OneHandler, Busy
<1>9. Serial' => Serial /\ ~Busy
  BY <1>1, <1>4 DEF Serial
<1>10. Serial' =>
         /\ \A v \in Uploaders : upload'[v].call \in {"post", "clear", "retry"} => upload'[v].batch = queue
         /\ \A e \in Queued : delivered[e] = 0
  BY <1>2, <1>3, <1>9, StateTyped DEF SerialHandlers, Busy
<1>11. QED
  BY <1>1, <1>4, <1>6, <1>7, <1>8, <1>10, QuietStep

(* An upload reads the queue, or fails and asks for a retry. *)
LEMMA ReadStep ==
  ASSUME IInv, NEW u \in Uploaders, GetQueue(u) \/ ScheduleRetry(u)
  PROVE  IInv'
<1> USE DEF IInv
<1>1. PICK new \in {Idle, [call |-> "post", batch |-> queue]} :
        /\ upload' = [upload EXCEPT ![u] = new]
        /\ ScheduleRetry(u) => new = Idle
  BY DEF GetQueue, ScheduleRetry
<1>2. /\ upload[u].call \in {"get", "retry"} /\ (upload[u].call = "retry" => new = Idle)
      /\ UNCHANGED <<queue, add, paused, captured, delivered, dropped, overwritten, overlapped, faults, happened>>
      /\ alarm' \in {"periodic", "once", "none"}
  BY <1>1 DEF GetQueue, ScheduleRetry, history, TypeOK
<1>3. new \in UploadState /\ new.call \in {"none", "post"} /\ (new.call = "post" => new.batch = queue)
  BY StateTyped DEF TypeOK, Idle, UploadState
<1>4. upload'[u] = new /\ \A v \in Uploaders \ {u} : upload'[v] = upload[v]
  BY <1>1 DEF TypeOK
<1>5. TypeOK'
  BY <1>1, <1>2, <1>3 DEF TypeOK, UploadState
<1>6. ClearedIsDelivered'
  BY <1>2, <1>3, <1>4 DEF ClearedIsDelivered
<1>7. upload[u] # Idle
  BY <1>2, StateTyped
<1>8. OneHandler'
  BY <1>2, <1>4, <1>7 DEF OneHandler
<1>9. Serial => \A v \in Uploaders : upload[v].call # "clear"
  BY <1>2, <1>7, StateTyped DEF Serial, OneHandler
<1>10. Serial' => Serial
  BY <1>2 DEF Serial
<1>11. Serial =>
         /\ \A v \in Uploaders : upload'[v].call \in {"post", "clear", "retry"} => upload'[v].batch = queue
         /\ \A e \in Queued : delivered[e] = 0
  BY <1>3, <1>4, <1>9 DEF SerialHandlers
<1>12. QED
  BY <1>2, <1>5, <1>6, <1>8, <1>10, <1>11, QuietStep

(* What the server takes is counted for good. *)
LEMMA DeliverCounts ==
  ASSUME TypeOK, NEW batch, Deliver(batch)
  PROVE  /\ delivered' \in [Events -> 0..2]
         /\ \A e \in Events : delivered[e] > 0 => delivered'[e] > 0
         /\ \A e \in Events \cap ToSet(batch) : delivered'[e] > 0 /\ (delivered[e] = 0 => delivered'[e] = 1)
         /\ \A e \in Events \ ToSet(batch) : delivered'[e] = delivered[e]
<1>1. \A e \in Events : delivered[e] \in 0..2
  BY DEF TypeOK
<1>2. delivered' = [e \in Events |->
        IF e \in ToSet(batch) /\ delivered[e] < 2 THEN delivered[e] + 1 ELSE delivered[e]]
  BY DEF Deliver
<1>3. QED
  BY <1>1, <1>2

LEMMA PostStep ==
  ASSUME IInv, NEW u \in Uploaders, Post(u)
  PROVE  IInv'
<1> USE DEF IInv
<1> DEFINE batch == upload[u].batch
           clear == [upload[u] EXCEPT !.call = "clear"]
           retry == [upload[u] EXCEPT !.call = "retry"]
<1>1. /\ upload[u].call = "post"
      /\ UNCHANGED <<queue, add, alarm, paused, captured, dropped, overwritten, overlapped>>
      /\ \/ Deliver(batch) /\ upload' = [upload EXCEPT ![u] = clear] /\ NoStrike
         \/ Strike("lost") /\ Deliver(batch) /\ upload' = [upload EXCEPT ![u] = retry]
         \/ UNCHANGED delivered /\ upload' = [upload EXCEPT ![u] = retry] /\ NoStrike
  BY DEF Post, Goto, history
<1>2. /\ upload[u] # Idle /\ upload[u] \in UploadState /\ batch \in Seq(Events)
      /\ clear = [call |-> "clear", batch |-> batch] /\ retry = [call |-> "retry", batch |-> batch]
  BY <1>1, StateTyped DEF UploadState, Idle
<1>3. /\ clear \in UploadState /\ clear.call = "clear" /\ clear.batch = batch
      /\ retry \in UploadState /\ retry.call = "retry" /\ retry.batch = batch
  BY <1>2, StateTyped
<1> HIDE DEF clear, retry
<1>4. /\ upload'[u] = clear \/ upload'[u] = retry
      /\ \A v \in Uploaders \ {u} : upload'[v] = upload[v]
  BY <1>1 DEF TypeOK
<1>5. /\ delivered' \in [Events -> 0..2]
      /\ \A e \in Events : delivered[e] > 0 => delivered'[e] > 0
      /\ \A e \in Events \ ToSet(batch) : delivered'[e] = delivered[e]
      /\ \A e \in Events \cap ToSet(batch) : delivered[e] = 0 => delivered'[e] \in {0, 1}
      /\ upload'[u] = clear => \A e \in Events \cap ToSet(batch) : delivered'[e] > 0
      /\ upload'[u] = retry => "lost" \in happened' \/ delivered' = delivered
  <2>1. clear # retry
    BY <1>3
  <2>2. CASE Deliver(batch) /\ upload' = [upload EXCEPT ![u] = clear]
    BY <1>4, <2>1, <2>2, DeliverCounts DEF TypeOK
  <2>3. CASE Strike("lost") /\ Deliver(batch) /\ upload' = [upload EXCEPT ![u] = retry]
    <3>1. "lost" \in happened' /\ upload'[u] # clear
      BY <2>1, <2>3, StrikeTyped DEF TypeOK
    <3>2. QED
      BY <2>3, <3>1, DeliverCounts
  <2>4. CASE UNCHANGED delivered /\ upload' = [upload EXCEPT ![u] = retry]
    BY <2>1, <2>4 DEF TypeOK
  <2>5. QED
    BY <1>1, <2>2, <2>3, <2>4
<1>6. faults' \in 0..MaxFaults /\ happened' \subseteq Faults /\ happened \subseteq happened'
  BY <1>1, StrikeTyped DEF NoStrike, TypeOK
<1>7. TypeOK'
  <2>1. upload' \in [Uploaders -> UploadState]
    BY <1>1, <1>3 DEF TypeOK, UploadState
  <2>2. QED
    BY <1>1, <1>5, <1>6, <2>1 DEF TypeOK, UploadState
<1>8. ListsInOrder'
  BY <1>1 DEF ListsInOrder, Chronicle, Ascending, ToSet
<1>9. \A v \in Uploaders : upload[v].batch \in Seq(Events) /\ ToSet(upload[v].batch) \subseteq Events
  <2>1. Idle.batch \in Seq(Events)
    BY DEF Idle
  <2>2. \A v \in Uploaders : upload[v].batch \in Seq(Events)
    BY <2>1, StateTyped DEF UploadState
  <2>3. \A s \in Seq(Events) : ToSet(s) \subseteq Events
    BY DEF ToSet
  <2>4. QED
    BY <2>2, <2>3
<1>10. ClearedIsDelivered'
  BY <1>3, <1>4, <1>5, <1>9 DEF ClearedIsDelivered
<1>11. OneHandler'
  BY <1>1, <1>2, <1>4 DEF OneHandler
<1>12. Queued' = Queued /\ Queued \subseteq Events /\ Stored' = Stored
  BY <1>1 DEF Queued, Stored, ToSet, TypeOK
<1>13. Serial' =>
         /\ Serial /\ batch = queue /\ \A a \in Adders : add[a] = Idle
         /\ \A v \in Uploaders \ {u} : upload[v] = Idle
         /\ \A e \in Queued : delivered[e] = 0
  <2>1. Serial' => Serial
    BY <1>1, <1>6 DEF Serial
  <2>2. Serial => (\A a \in Adders : add[a] = Idle) /\ \A v \in Uploaders \ {u} : upload[v] = Idle
    BY <1>2 DEF Serial, OneHandler
  <2>3. Serial => \A v \in Uploaders : upload[v].call # "clear"
    BY <1>1, <2>2, StateTyped
  <2>4. QED
    BY <1>1, <2>1, <2>2, <2>3 DEF SerialHandlers
<1>14. SerialHandlers' /\ SerialIsExact'
  <2>1. SUFFICES ASSUME Serial' PROVE SerialHandlers' /\ SerialIsExact'
    BY DEF SerialHandlers, SerialIsExact, Serial
  <2>2. batch = queue /\ \A e \in Queued : delivered[e] = 0 /\ delivered'[e] \in {0, 1}
    BY <1>5, <1>12, <1>13, <2>1 DEF Queued
  <2>3. \A v \in Uploaders : upload'[v].call # "clear" => v # u \/ delivered' = delivered
    BY <1>3, <1>4, <1>5, <2>1 DEF Serial
  <2>4. \A e \in Events : e > captured => e \notin Queued
    BY DEF ListsInOrder, Chronicle, Queued, Events, TypeOK
  <2>5. SerialHandlers'
    <3>1. \A v \in Uploaders : upload'[v].call \in {"post", "clear", "retry"} => upload'[v].batch = queue'
      BY <1>1, <1>3, <1>4, <1>13, <2>1, StateTyped
    <3>2. (\A v \in Uploaders : upload'[v].call # "clear") => \A e \in Queued' : delivered'[e] = 0
      BY <1>12, <2>2, <2>3
    <3>3. \A e \in Events : e > captured' => delivered'[e] = 0
      BY <1>1, <1>5, <1>13, <2>1, <2>2, <2>4 DEF SerialHandlers, Queued
    <3>4. QED
      BY <1>1, <1>13, <2>1, <3>1, <3>2, <3>3 DEF SerialHandlers
  <2>6. SerialIsExact'
    <3>1. \A e \in Events : delivered[e] < 2 /\ overwritten = {}
      BY <1>13, <2>1 DEF SerialIsExact, Serial
    <3>2. \A e \in Events : delivered'[e] < 2
      BY <1>5, <1>12, <2>2, <3>1 DEF Queued
    <3>3. overwritten = {}
      BY <1>13, <2>1 DEF SerialIsExact, Serial
    <3>4. QED
      BY <1>1, <3>2, <3>3 DEF SerialIsExact
  <2>7. QED
    BY <2>5, <2>6
<1>15. StoredIsKept'
  <2>1. Stored \subseteq Events
    BY DEF Stored, Events, TypeOK
  <2>2. QED
    BY <1>1, <1>5, <1>6, <1>12, <2>1 DEF StoredIsKept
<1>16. QED
  BY <1>7, <1>8, <1>10, <1>11, <1>14, <1>15

(* The empty queue overwrites what has been added since the read. *)
LEMMA ClearStep ==
  ASSUME IInv, NEW u \in Uploaders, Clear(u)
  PROVE  IInv'
<1> USE DEF IInv
<1> DEFINE batch == upload[u].batch
<1>1. /\ upload[u].call = "clear" /\ upload' = [upload EXCEPT ![u] = Idle]
      /\ queue' = <<>> /\ overwritten' = overwritten \cup (Queued \ ToSet(batch))
      /\ UNCHANGED <<add, alarm, paused, captured, delivered, dropped, overlapped, faults, happened>>
  BY DEF Clear, Store, Queued
<1>2. upload[u] # Idle /\ \A e \in ToSet(batch) : delivered[e] > 0
  BY <1>1, StateTyped DEF ClearedIsDelivered
<1>3. upload'[u] = Idle /\ \A v \in Uploaders \ {u} : upload'[v] = upload[v]
  BY <1>1 DEF TypeOK
<1>4. Queued \subseteq Events /\ Queued' = {} /\ Ascending(<<>>) /\ Len(<<>>) = 0
  BY <1>1 DEF Queued, ToSet, TypeOK, Ascending
<1>5. TypeOK'
  BY <1>1, <1>4, StateTyped DEF TypeOK
<1>6. ListsInOrder'
  <2>1. Chronicle(queue)' /\ Len(queue)' <= MaxQueue
    BY <1>1, <1>4 DEF Chronicle, Queued
  <2>2. QED
    BY <1>1, <2>1 DEF ListsInOrder, Chronicle
<1>7. ClearedIsDelivered'
  BY <1>1, <1>3 DEF ClearedIsDelivered, Idle
<1>8. OneHandler'
  BY <1>1, <1>3 DEF OneHandler
<1>9. Serial' => /\ Serial /\ batch = queue /\ \A a \in Adders : add[a] = Idle
                 /\ \A v \in Uploaders : upload'[v] = Idle
  BY <1>1, <1>2, <1>3 DEF Serial, OneHandler, SerialHandlers
<1>10. SerialHandlers'
  BY <1>1, <1>4, <1>9, StateTyped DEF SerialHandlers
<1>11. SerialIsExact'
  <2>1. Serial' => overwritten' = overwritten
    BY <1>1, <1>9 DEF Queued
  <2>2. QED
    BY <1>1, <1>9, <2>1 DEF SerialIsExact, Serial
<1>12. StoredIsKept'
  <2>1. Stored' = Stored
    BY <1>1 DEF Stored
  <2>2. QED
    BY <1>1, <1>2, <2>1 DEF StoredIsKept
<1>13. QED
  BY <1>5, <1>6, <1>7, <1>8, <1>10, <1>11, <1>12

(* The handlers are gone, the storage stays. *)
LEMMA TeardownStep == IInv /\ Teardown => IInv'
<1> SUFFICES ASSUME IInv, Teardown PROVE IInv'
  OBVIOUS
<1> USE DEF IInv, Teardown, history
<1>1. faults' \in 0..MaxFaults /\ happened' \subseteq Faults /\ "teardown" \in happened'
  BY StrikeTyped
<1>2. TypeOK'
  BY <1>1 DEF TypeOK
<1>3. ListsInOrder'
  BY DEF ListsInOrder, Chronicle, Ascending, ToSet
<1>4. ClearedIsDelivered' /\ OneHandler'
  BY DEF ClearedIsDelivered, OneHandler, Idle
<1>5. SerialHandlers' /\ SerialIsExact' /\ StoredIsKept'
  BY <1>1 DEF SerialHandlers, SerialIsExact, Serial, StoredIsKept
<1>6. QED
  BY <1>2, <1>3, <1>4, <1>5

LEMMA Inductive == IInv /\ [Next]_vars => IInv'
<1> SUFFICES ASSUME IInv, [Next]_vars PROVE IInv'
  OBVIOUS
<1>1. CASE \E a \in Adders : Capture(a) \/ Set(a)
  BY <1>1, CaptureStep, SetStep
<1>2. CASE \E u \in Uploaders : Fire(u) \/ ForceFlush(u) \/ Serve(u)
  BY <1>2, StartStep, ReadStep, PostStep, ClearStep DEF Serve
<1>3. CASE Startup \/ TogglePause \/ UNCHANGED vars
  <2>1. /\ UNCHANGED <<queue, add, upload, captured, delivered, dropped, overwritten, overlapped>>
        /\ alarm' \in {"periodic", "once", "none"} /\ paused' \in BOOLEAN
    BY <1>3 DEF Startup, TogglePause, vars, history, IInv, TypeOK
  <2>2. faults' \in 0..MaxFaults /\ happened' \subseteq Faults /\ happened \subseteq happened'
    BY <1>3, StrikeTyped DEF Startup, TogglePause, NoStrike, vars, IInv, TypeOK
  <2>3. TypeOK' /\ ClearedIsDelivered' /\ OneHandler'
    BY <2>1, <2>2 DEF IInv, TypeOK, ClearedIsDelivered, OneHandler
  <2>4. Serial' => Serial
    BY <2>1, <2>2 DEF Serial
  <2>5. QED
    BY <2>1, <2>2, <2>3, <2>4, QuietStep DEF IInv, SerialHandlers
<1>4. CASE Teardown
  BY <1>4, TeardownStep
<1>5. QED
  BY <1>1, <1>2, <1>3, <1>4 DEF Next
-----------------------------------------------------------------------------
(* The invariant of the queue: every list a handler holds is in the order  *)
(* of capture, and one handler alone knows the whole queue.                *)
THEOREM QueueInvariance == Spec => []IInv
<1>1. QED
  BY InitInvariant, Inductive, PTL DEF Spec

(* No event leaves the queue undelivered but for the reasons the code has: *)
(* a full queue, a stale write, a stopped worker.                          *)
THEOREM StoredAlwaysKept == Spec => []StoredIsKept
<1>1. IInv => StoredIsKept
  BY DEF IInv
<1>2. QED
  BY <1>1, QueueInvariance, PTL

(* The queue is chronological and within its limit, however the adds and   *)
(* uploads overtake one another.                                           *)
THEOREM QueueAlwaysInOrder == Spec => []QueueInOrder
<1>1. IInv => QueueInOrder
  <2>1. SUFFICES ASSUME IInv, NEW i \in 1..Len(queue) - 1
                 PROVE  queue[i] < queue[i + 1] /\ Len(queue) <= MaxQueue
    BY DEF QueueInOrder, IInv, ListsInOrder
  <2>2. queue \in Seq(Events) /\ Ascending(queue) /\ Len(queue) <= MaxQueue
    BY <2>1 DEF IInv, TypeOK, ListsInOrder, Chronicle
  <2>3. i \in DOMAIN queue /\ i + 1 \in DOMAIN queue /\ i < i + 1
    BY <2>1, <2>2
  <2>4. QED
    BY <2>2, <2>3 DEF Ascending
<1>2. QED
  BY <1>1, QueueInvariance, PTL

(* One handler at a time: nothing is sent twice and nothing overwritten.   *)
THEOREM SerialAlwaysExact == Spec => []SerialIsExact
<1>1. IInv => SerialIsExact
  BY DEF IInv
<1>2. QED
  BY <1>1, QueueInvariance, PTL

(* No body of the extension passes the validation of this repository's     *)
(* backend: it has no source and no batches, and events is not in the DTO. *)
LEMMA EnvelopeRefused == ~Validates(Envelope)
BY DEF Validates, Envelope, Required

(* With that backend no event is ever taken, so none leaves the queue but  *)
(* by the other ways StoredIsKept names.                                   *)
THEOREM BackendTakesNothing ==
  ASSUME ~Lenient
  PROVE  Spec => [](\A e \in Events : delivered[e] = 0)
<1> DEFINE Nothing == \A e \in Events : delivered[e] = 0
<1>1. ~Takes(Envelope)
  BY EnvelopeRefused DEF Takes
<1>2. Init => Nothing
  BY DEF Init
<1>3. Nothing /\ [Next]_vars => Nothing'
  <2>1. [Next]_vars => delivered' = delivered
    BY <1>1 DEF Next, Capture, Set, Fire, ForceFlush, Serve, GetQueue, Post, Clear,
                ScheduleRetry, Teardown, Startup, TogglePause, vars
  <2>2. QED
    BY <2>1
<1>4. QED
  BY <1>2, <1>3, PTL DEF Spec
=============================================================================
