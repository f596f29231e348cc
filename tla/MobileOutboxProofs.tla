------------------------- MODULE MobileOutboxProofs -------------------------
(***************************************************************************)
(* The safety properties of the phone's queue for every number of events,  *)
(* every size of a batch, every backoff and any number of faults.          *)
(***************************************************************************)
EXTENDS MobileOutbox, FiniteSetTheorems, TLAPS

USE OutboxAssumption

LEMMA CappedTyped ==
  ASSUME NEW n \in Nat
  PROVE  Capped(n) \in Age
BY DEF Capped, Age

LEMMA RowsTyped ==
  /\ NewRow \in Row
  /\ \A row \in Row : [row EXCEPT !.age = Capped(@ + 1)] \in Row
  /\ \A row \in Row, status \in {"none", "pending", "in_flight", "uploaded"} :
       [row EXCEPT !.status = status] \in Row
  /\ \A row \in Row : [row EXCEPT !.status = "in_flight", !.attempts = Capped(@ + 1)] \in Row
<1>1. ASSUME NEW row \in Row
      PROVE  Capped(row.age + 1) \in Age /\ Capped(row.attempts + 1) \in Age
  BY CappedTyped DEF Row, Age
<1>2. NewRow \in Row
  BY DEF NewRow, Row, Age
<1>3. QED
  BY <1>1, <1>2 DEF Row

(* A drain in progress is at one of its calls. *)
LEMMA DrainTyped ==
  ASSUME TypeOK
  PROVE  /\ drain = Off \/ (drain.call \in Call /\ drain.ids \subseteq Events)
         /\ drain # Off => drain \in [call : Call, ids : SUBSET Events]
         /\ Off.call = "none" /\ Off.ids = {}
BY DEF TypeOK, Off, Call

LEMMA GoTyped ==
  ASSUME TypeOK, NEW call \in Call, drain.call \in Call
  PROVE  [drain EXCEPT !.call = call] \in [call : Call, ids : SUBSET Events]
BY DEF TypeOK, Off, Call

LEMMA StartDrainTyped ==
  ASSUME TypeOK, StartDrain
  PROVE  /\ drain' \in [call : Call, ids : SUBSET Events] \cup {Off}
         /\ drain' = drain \/ (drain = Off /\ drain' = [call |-> "getAccessToken", ids |-> {}])
BY DEF TypeOK, StartDrain, Off, Call

LEMMA StrikeTyped ==
  ASSUME TypeOK, NEW fault, Strike(fault)
  PROVE  /\ faults' \in 0..MaxFaults
         /\ happened' \subseteq Faults
         /\ happened' = happened \cup {fault}
BY DEF TypeOK, Strike

(* QueueEvent takes the next event, which is in no state of the table yet. *)
LEMMA NextEvent ==
  ASSUME QueuedInOrder, NEW e \in Events,
         e = Cardinality(Events \ WithStatus("none")) + 1
  PROVE  \E k \in 0..N - 1 : /\ Events \ WithStatus("none") = 1..k
                             /\ e = k + 1 /\ counting <= k
<1>1. PICK k \in 0..N : Events \ WithStatus("none") = 1..k /\ counting <= k
  BY DEF QueuedInOrder
<1>2. Cardinality(1..k) = k
  <2>1. 1 \in Int /\ k \in Int /\ k \in Nat
    OBVIOUS
  <2>2. Cardinality(1..k) = IF 1 > k THEN 0 ELSE k - 1 + 1
    BY <2>1, FS_Interval
  <2>3. QED
    BY <2>1, <2>2
<1>3. e = k + 1
  BY <1>1, <1>2
<1>4. k <= N - 1
  BY <1>3 DEF Events
<1>5. QED
  BY <1>1, <1>3, <1>4
-----------------------------------------------------------------------------
LEMMA InitInvariant == Init => IInv
<1> SUFFICES ASSUME Init PROVE IInv
  OBVIOUS
<1>1. TypeOK
  <2>1. [NewRow EXCEPT !.status = "none"] \in Row
    BY RowsTyped
  <2>2. QED
    BY <2>1 DEF Init, TypeOK, Off
<1>2. \A e \in Events : queue[e].status = "none"
  <2>1. [NewRow EXCEPT !.status = "none"].status = "none"
    BY DEF NewRow
  <2>2. QED
    BY <2>1 DEF Init
<1>3. QueuedInOrder
  <2>1. Events \ WithStatus("none") = 1..0
    BY <1>2 DEF WithStatus
  <2>2. QED
    BY <2>1 DEF QueuedInOrder, Init
<1>4. drain.call = "none" /\ drain.ids = {} /\ \A e \in Events : delivered[e] = 0
  BY DEF Init, Off
<1>5. WithStatus("uploaded") = {} /\ WithStatus("in_flight") = {}
  BY <1>2 DEF WithStatus
<1>6. BatchOK /\ UnsentIsNew
  BY <1>4 DEF BatchOK, UnsentIsNew, WithStatus, Pending
<1>7. UploadedIsDelivered /\ InFlightIsDrained /\ DeliveredOnce
  BY <1>4, <1>5 DEF UploadedIsDelivered, InFlightIsDrained, DeliveredOnce
<1>8. QED
  BY <1>1, <1>3, <1>6, <1>7 DEF IInv
-----------------------------------------------------------------------------
(* Each step keeps every variable in its type. *)
LEMMA TypeStep == IInv /\ [Next]_vars => TypeOK'
<1> SUFFICES ASSUME IInv, [Next]_vars PROVE TypeOK'
  OBVIOUS
<1> USE DEF IInv
<1> DEFINE DrainOK == drain' \in [call : Call, ids : SUBSET Events] \cup {Off}
<1>1. CASE QueueEvent
  <2>1. PICK e \in Events : /\ e = Cardinality(Events \ WithStatus("none")) + 1
                            /\ queue' = [queue EXCEPT ![e] = NewRow]
                            /\ counting' = counting + 1
                            /\ UNCHANGED <<delivered, drain, app, token, faults, happened>>
    BY <1>1 DEF QueueEvent
  <2>2. counting' \in 0..N
    <3>1. PICK k \in 0..N - 1 : counting <= k
      BY <2>1, NextEvent
    <3>2. QED
      BY <2>1, <3>1 DEF TypeOK
  <2>3. queue' \in [Events -> Row]
    BY <2>1, RowsTyped DEF TypeOK
  <2>4. QED
    BY <2>1, <2>2, <2>3 DEF TypeOK
<1>2. CASE CountPending
  <2>1. DrainOK
    BY <1>2, StartDrainTyped DEF CountPending, TypeOK
  <2>2. QED
    BY <1>2, <2>1 DEF CountPending, TypeOK
<1>3. CASE Poll \/ FlushNow
  BY <1>3, StartDrainTyped DEF Poll, FlushNow, TypeOK
<1>4. CASE Tick
  <2>1. queue' \in [Events -> Row]
    <3>1. \A e \in Events : queue[e] \in Row
      BY DEF TypeOK
    <3>2. QED
      BY <1>4, <3>1, RowsTyped DEF Tick
  <2>2. QED
    BY <1>4, <2>1 DEF Tick, TypeOK
<1>5. CASE GetAccessToken
  <2>1. DrainOK
    BY <1>5, GoTyped DEF GetAccessToken, Go, Call
  <2>2. QED
    BY <1>5, <2>1 DEF GetAccessToken, TypeOK
<1>6. CASE GetPendingBatch
  <2>1. {e \in Candidates : Eligible(e)} \subseteq Events
    BY DEF Candidates, Pending, WithStatus
  <2>2. DrainOK
    BY <1>6, <2>1 DEF GetPendingBatch, Call
  <2>3. QED
    BY <1>6, <2>2 DEF GetPendingBatch, TypeOK
<1>7. CASE MarkInFlight
  <2>1. queue' \in [Events -> Row]
    <3>1. \A e \in Events : queue[e] \in Row
      BY DEF TypeOK
    <3>2. QED
      BY <1>7, <3>1, RowsTyped DEF MarkInFlight
  <2>2. DrainOK
    BY <1>7, GoTyped DEF MarkInFlight, Go, Call
  <2>3. QED
    BY <1>7, <2>1, <2>2 DEF MarkInFlight, TypeOK
<1>8. CASE Post
  <2>1. DrainOK
    BY <1>8, GoTyped DEF Post, Go, Call
  <2>2. delivered' \in [Events -> 0..2]
    BY <1>8 DEF Post, Deliver, TypeOK
  <2>3. faults' \in 0..MaxFaults /\ happened' \subseteq Faults
    BY <1>8, StrikeTyped DEF Post, NoStrike, TypeOK
  <2>4. QED
    BY <1>8, <2>1, <2>2, <2>3 DEF Post, TypeOK
<1>9. CASE MarkUploaded \/ MarkFailed
  <2>1. queue' \in [Events -> Row]
    <3>1. \A e \in Events : queue[e] \in Row
      BY DEF TypeOK
    <3>2. QED
      BY <1>9, <3>1, RowsTyped DEF MarkUploaded, MarkFailed, SetStatus
  <2>2. QED
    BY <1>9, <2>1 DEF MarkUploaded, MarkFailed, TypeOK
<1>10. CASE DbError
  <2>1. DrainOK
    BY <1>10, GoTyped DEF DbError, Go, Call
  <2>2. faults' \in 0..MaxFaults /\ happened' \subseteq Faults
    BY <1>10, StrikeTyped DEF DbError
  <2>3. QED
    BY <1>10, <2>1, <2>2 DEF DbError, TypeOK
<1>11. CASE Kill
  BY <1>11, StrikeTyped DEF Kill, TypeOK
<1>12. CASE Open
  <2>1. DrainOK
    BY <1>12, StartDrainTyped DEF Open, TypeOK
  <2>2. QED
    BY <1>12, <2>1 DEF Open, TypeOK
<1>13. CASE Logout
  <2>1. app' \in [running : BOOLEAN, polling : BOOLEAN]
    BY <1>13 DEF Logout, TypeOK
  <2>2. QED
    BY <1>13, <2>1, StrikeTyped DEF Logout, TypeOK
<1>14. CASE Login
  <2>1. app' \in [running : BOOLEAN, polling : BOOLEAN]
    BY <1>14 DEF Login, TypeOK
  <2>2. QED
    BY <1>14, <2>1, StartDrainTyped DEF Login, TypeOK
<1>15. CASE UNCHANGED vars
  BY <1>15 DEF vars, TypeOK
<1>16. QED
  BY <1>1, <1>2, <1>3, <1>4, <1>5, <1>6, <1>7, <1>8, <1>9, <1>10, <1>11, <1>12, <1>13, <1>14, <1>15
  DEF Next, Drain
-----------------------------------------------------------------------------
Early == {"none", "getAccessToken", "getPendingBatch"}
Late == {"post", "markUploaded", "markFailed"}

(* Steps that leave the table alone and start a drain, end it early, or    *)
(* cut it short by a fault.                                                *)
LEMMA QuietStep ==
  ASSUME IInv, TypeOK', queue' = queue, delivered' = delivered,
         happened \subseteq happened', counting' <= counting,
         \/ drain' = drain
         \/ /\ drain'.call \in Early /\ drain'.ids \subseteq drain.ids
            /\ drain.call \in Early \/ happened' \cap {"kill", "db"} # {}
  PROVE  IInv'
<1> USE DEF IInv
<1>1. \A status : WithStatus(status)' = WithStatus(status)
  BY DEF WithStatus
<1>2. Pending' = Pending
  BY <1>1 DEF Pending
<1>3. QueuedInOrder'
  <2>1. PICK k \in 0..N : Events \ WithStatus("none") = 1..k /\ counting <= k
    BY DEF QueuedInOrder
  <2>2. counting' <= k
    BY <2>1 DEF TypeOK
  <2>3. QED
    BY <1>1, <2>1, <2>2 DEF QueuedInOrder
<1>4. BatchOK'
  BY <1>1, <1>2 DEF BatchOK, Early
<1>5. UnsentIsNew'
  BY <1>1, <1>2 DEF UnsentIsNew, Early
<1>6. UploadedIsDelivered' /\ DeliveredOnce'
  BY <1>1 DEF UploadedIsDelivered, DeliveredOnce
<1>7. InFlightIsDrained'
  <2>1. CASE drain' = drain
    BY <1>1, <2>1 DEF InFlightIsDrained
  <2>2. CASE drain'.call \in Early /\ drain.call \in Early
    BY <1>1, <2>2 DEF InFlightIsDrained, Early
  <2>3. CASE happened' \cap {"kill", "db"} # {}
    BY <2>3 DEF InFlightIsDrained
  <2>4. QED
    BY <2>1, <2>2, <2>3
<1>8. QED
  BY <1>3, <1>4, <1>5, <1>6, <1>7

(* A new event is pending, and the server does not have it. *)
LEMMA QueueEventStep == IInv /\ TypeOK' /\ QueueEvent => IInv'
<1> SUFFICES ASSUME IInv, TypeOK', QueueEvent PROVE IInv'
  OBVIOUS
<1> USE DEF IInv
<1>1. PICK e \in Events : /\ e = Cardinality(Events \ WithStatus("none")) + 1
                          /\ queue' = [queue EXCEPT ![e] = NewRow]
                          /\ counting' = counting + 1
                          /\ UNCHANGED <<delivered, drain, app, token, faults, happened>>
  BY DEF QueueEvent
<1>2. PICK k \in 0..N - 1 : Events \ WithStatus("none") = 1..k /\ e = k + 1 /\ counting <= k
  BY <1>1, NextEvent
<1>3. e \in WithStatus("none")
  <2>1. e \notin 1..k
    BY <1>2
  <2>2. QED
    BY <1>2, <2>1
<1>4. \A o \in Events : queue'[o].status = IF o = e THEN "pending" ELSE queue[o].status
  BY <1>1 DEF TypeOK, NewRow
<1>5. /\ WithStatus("none")' = WithStatus("none") \ {e}
      /\ Pending' = Pending \cup {e}
      /\ WithStatus("in_flight")' = WithStatus("in_flight")
      /\ WithStatus("uploaded")' = WithStatus("uploaded")
  BY <1>3, <1>4 DEF WithStatus, Pending
<1>6. QueuedInOrder'
  <2>1. Events \ WithStatus("none")' = 1..(k + 1)
    <3>1. Events \ WithStatus("none")' = (Events \ WithStatus("none")) \cup {e}
      BY <1>5
    <3>2. (1..k) \cup {k + 1} = 1..(k + 1)
      OBVIOUS
    <3>3. QED
      BY <1>2, <3>1, <3>2
  <2>2. k + 1 \in 0..N /\ counting' <= k + 1
    BY <1>1, <1>2 DEF TypeOK
  <2>3. QED
    BY <2>1, <2>2 DEF QueuedInOrder, Events
<1>7. UploadedIsDelivered' /\ InFlightIsDrained' /\ DeliveredOnce'
  BY <1>1, <1>5 DEF UploadedIsDelivered, InFlightIsDrained, DeliveredOnce
<1>8. UnsentIsNew'
  BY <1>1, <1>3, <1>5 DEF UnsentIsNew
<1>9. BatchOK'
  <2>1. e \notin drain.ids
    BY <1>3 DEF BatchOK
  <2>2. QED
    BY <1>1, <1>5, <2>1 DEF BatchOK
<1>10. QED
  BY <1>6, <1>7, <1>8, <1>9

(* The steps of a drain that concern its batch, and the passing of time.   *)
LEMMA BatchStep ==
  ASSUME IInv, TypeOK', Tick \/ GetPendingBatch \/ MarkInFlight \/ Post
  PROVE  IInv'
<1> USE DEF IInv
<1>1. CASE Tick
  <2>1. \A e \in Events : queue'[e].status = queue[e].status
    BY <1>1 DEF Tick, TypeOK, Row
  <2>2. \A status : WithStatus(status)' = WithStatus(status)
    BY <2>1 DEF WithStatus
  <2>3. QED
    BY <1>1, <2>2
    DEF Tick, QueuedInOrder, BatchOK, UnsentIsNew, UploadedIsDelivered, InFlightIsDrained,
        DeliveredOnce, Pending
<1>2. CASE GetPendingBatch
  <2>1. CASE drain' = Off
    BY <1>2, <2>1, QuietStep DEF GetPendingBatch, Early, Off, TypeOK
  <2>2. CASE drain' # Off
    <3> DEFINE ids == {e \in Candidates : Eligible(e)}
    <3>1. drain' = [call |-> "markInFlight", ids |-> ids] /\ ids \subseteq Pending
      BY <1>2, <2>2 DEF GetPendingBatch, Candidates
    <3>2. \A status : WithStatus(status)' = WithStatus(status)
      BY <1>2 DEF GetPendingBatch, WithStatus
    <3>3. BatchOK'
      <4>1. Pending \cap WithStatus("none") = {}
        BY DEF Pending, WithStatus
      <4>2. QED
        BY <3>1, <3>2, <4>1 DEF BatchOK, Pending
    <3>4. QED
      BY <1>2, <3>1, <3>2, <3>3
      DEF GetPendingBatch, QueuedInOrder, UnsentIsNew, UploadedIsDelivered, InFlightIsDrained,
          DeliveredOnce, Pending
  <2>3. QED
    BY <2>1, <2>2
<1>3. CASE MarkInFlight
  <2>1. /\ drain.ids \subseteq Pending /\ drain.ids \subseteq Events
        /\ drain'.call = "post" /\ drain'.ids = drain.ids
        /\ UNCHANGED <<delivered, counting, app, token, faults, happened>>
    BY <1>3, DrainTyped DEF MarkInFlight, Go, BatchOK, Off, TypeOK
  <2>2. \A e \in Events :
          queue'[e].status = IF e \in drain.ids THEN "in_flight" ELSE queue[e].status
    <3>1. \A row \in Row : [row EXCEPT !.status = "in_flight", !.attempts = Capped(@ + 1)].status = "in_flight"
      BY DEF Row
    <3>2. QED
      BY <1>3, <3>1 DEF MarkInFlight, TypeOK
  <2>3. /\ WithStatus("none")' = WithStatus("none")
        /\ Pending' = Pending \ drain.ids
        /\ WithStatus("in_flight")' = WithStatus("in_flight") \cup drain.ids
        /\ WithStatus("uploaded")' = WithStatus("uploaded")
    BY <2>1, <2>2 DEF WithStatus, Pending
  <2>4. QueuedInOrder' /\ BatchOK'
    BY <2>1, <2>3 DEF QueuedInOrder, BatchOK
  <2>5. UnsentIsNew'
    BY <2>1, <2>3 DEF UnsentIsNew
  <2>6. UploadedIsDelivered' /\ DeliveredOnce'
    BY <2>1, <2>3 DEF UploadedIsDelivered, DeliveredOnce
  <2>7. InFlightIsDrained'
    BY <1>3, <2>1, <2>3 DEF InFlightIsDrained, MarkInFlight
  <2>8. QED
    BY <2>4, <2>5, <2>6, <2>7
<1>4. CASE Post
  <2>1. /\ drain.call = "post" /\ drain'.ids = drain.ids /\ drain.ids \subseteq Events
        /\ queue' = queue /\ counting' = counting
        /\ happened \subseteq happened'
    BY <1>4, DrainTyped DEF Post, Go, Off, TypeOK, Strike, NoStrike
  <2>2. \A status : WithStatus(status)' = WithStatus(status)
    BY <2>1 DEF WithStatus
  <2>3. \A e \in Events : delivered[e] \in 0..2 /\ delivered'[e] \in 0..2
    BY DEF TypeOK
  <2>4. \/ /\ drain'.call = "markUploaded"
           /\ \A e \in drain.ids : delivered'[e] > 0
        \/ /\ drain'.call = "markFailed"
           /\ "lost" \in happened' \/ delivered' = delivered
    BY <1>4, <2>1, <2>3 DEF Post, Go, Deliver, Strike, TypeOK, Off
  <2>5. \A e \in Events :
          /\ delivered'[e] >= delivered[e]
          /\ delivered'[e] <= delivered[e] + 1
          /\ e \notin drain.ids => delivered'[e] = delivered[e]
    BY <1>4, <2>3 DEF Post, Deliver, TypeOK
  <2>6. QueuedInOrder' /\ BatchOK'
    BY <2>1, <2>2, <2>4 DEF QueuedInOrder, BatchOK, Pending
  <2>7. UploadedIsDelivered'
    <3>1. ASSUME NEW e \in WithStatus("uploaded") PROVE delivered'[e] > 0
      <4>1. e \in Events /\ delivered[e] > 0
        BY DEF UploadedIsDelivered, WithStatus
      <4>2. QED
        BY <2>3, <2>5, <4>1
    <3>2. QED
      BY <2>2, <3>1 DEF UploadedIsDelivered
  <2>8. InFlightIsDrained'
    BY <2>1, <2>2, <2>4 DEF InFlightIsDrained
  <2>9. DeliveredOnce'
    <3> SUFFICES ASSUME happened' \cap {"lost", "db"} = {}, NEW e \in Events PROVE delivered'[e] <= 1
      BY DEF DeliveredOnce
    <3>1. happened \cap {"lost", "db"} = {}
      BY <2>1
    <3>2. CASE e \in drain.ids
      <4>1. delivered[e] = 0
        BY <2>1, <3>1, <3>2 DEF UnsentIsNew
      <4>2. QED
        BY <2>3, <2>5, <4>1
    <3>3. CASE e \notin drain.ids
      BY <2>5, <3>1, <3>3 DEF DeliveredOnce
    <3>4. QED
      BY <3>2, <3>3
  <2>10. UnsentIsNew'
    <3> SUFFICES ASSUME happened' \cap {"lost", "db"} = {} PROVE UnsentIsNew'
      BY DEF UnsentIsNew
    <3>1. happened \cap {"lost", "db"} = {}
      BY <2>1
    <3>2. \A e \in WithStatus("none") \cup Pending : e \in Events /\ e \notin drain.ids
      BY <2>1 DEF BatchOK, WithStatus, Pending
    <3>3. \A e \in (WithStatus("none") \cup Pending)' : delivered'[e] = 0
      BY <2>2, <2>5, <3>1, <3>2 DEF UnsentIsNew, Pending
    <3>4. drain'.call \in {"post", "markFailed"} => \A e \in drain'.ids : delivered'[e] = 0
      BY <2>1, <2>4, <3>1 DEF UnsentIsNew
    <3>5. QED
      BY <3>3, <3>4 DEF UnsentIsNew
  <2>11. QED
    BY <2>6, <2>7, <2>8, <2>9, <2>10
<1>5. QED
  BY <1>1, <1>2, <1>3, <1>4

(* The steps that settle a batch, also by way of a database error. *)
LEMMA SettleStep ==
  ASSUME IInv, TypeOK', MarkUploaded \/ MarkFailed \/ DbError
  PROVE  IInv'
<1> USE DEF IInv
<1>1. CASE MarkUploaded \/ MarkFailed
  <2>1. PICK status \in {"uploaded", "pending"} :
          /\ drain.call = IF status = "uploaded" THEN "markUploaded" ELSE "markFailed"
          /\ SetStatus(drain.ids, status)
    BY <1>1 DEF MarkUploaded, MarkFailed
  <2>2. /\ drain' = Off /\ drain'.call = "none" /\ drain'.ids = {} /\ drain.ids \subseteq Events
        /\ UNCHANGED <<delivered, counting, app, token, faults, happened>>
    BY <1>1, <2>1, DrainTyped DEF MarkUploaded, MarkFailed
  <2>3. \A e \in Events :
          queue'[e].status = IF e \in drain.ids THEN status ELSE queue[e].status
    <3>1. \A row \in Row : [row EXCEPT !.status = status].status = status
      BY DEF Row
    <3>2. QED
      BY <2>1, <3>1 DEF SetStatus, TypeOK
  <2>4. WithStatus("none")' = WithStatus("none") /\ WithStatus("in_flight")' = WithStatus("in_flight") \ drain.ids
    BY <2>1, <2>3 DEF WithStatus, BatchOK
  <2>5. /\ status = "uploaded" => /\ WithStatus("uploaded")' = WithStatus("uploaded") \cup drain.ids
                                  /\ Pending' = Pending \ drain.ids
        /\ status = "pending" => /\ WithStatus("uploaded")' = WithStatus("uploaded") \ drain.ids
                                 /\ Pending' = Pending \cup drain.ids
    BY <2>2, <2>3 DEF WithStatus, Pending
  <2>6. QueuedInOrder' /\ BatchOK' /\ DeliveredOnce'
    BY <2>2, <2>4 DEF QueuedInOrder, BatchOK, DeliveredOnce
  <2>7. UnsentIsNew'
    BY <2>1, <2>2, <2>4, <2>5 DEF UnsentIsNew
  <2>8. UploadedIsDelivered'
    BY <2>1, <2>2, <2>5 DEF UploadedIsDelivered, BatchOK
  <2>9. InFlightIsDrained'
    BY <2>1, <2>2, <2>4 DEF InFlightIsDrained
  <2>10. QED
    BY <2>6, <2>7, <2>8, <2>9
<1>2. CASE DbError
  <2>1. /\ UNCHANGED <<queue, delivered, counting, app, token>>
        /\ happened' = happened \cup {"db"}
    BY <1>2, StrikeTyped DEF DbError
  <2>2. CASE drain.call = "markUploaded"
    <3>1. drain'.call = "markFailed" /\ drain'.ids = drain.ids
      BY <1>2, <2>2, DrainTyped DEF DbError, Go, TypeOK, Off
    <3>2. \A status : WithStatus(status)' = WithStatus(status)
      BY <2>1 DEF WithStatus
    <3>3. QED
      BY <2>1, <2>2, <3>1, <3>2
      DEF QueuedInOrder, BatchOK, UnsentIsNew, UploadedIsDelivered, InFlightIsDrained,
          DeliveredOnce, Pending
  <2>3. CASE drain.call # "markUploaded"
    BY <1>2, <2>1, <2>3, DrainTyped, QuietStep DEF DbError, Early, TypeOK
  <2>4. QED
    BY <2>2, <2>3
<1>3. QED
  BY <1>1, <1>2

LEMMA Inductive == IInv /\ [Next]_vars => IInv'
<1> SUFFICES ASSUME IInv, [Next]_vars PROVE IInv'
  OBVIOUS
<1>1. TypeOK' /\ TypeOK
  BY TypeStep DEF IInv
<1>2. counting \in Nat
  BY <1>1 DEF TypeOK
<1>3. CASE CountPending \/ Poll \/ FlushNow \/ Login
  <2>1. StartDrain => drain' = drain \/ (drain.call = "none" /\ drain'.call = "getAccessToken"
                                           /\ drain'.ids = drain.ids)
    BY <1>1, StartDrainTyped, DrainTyped
  <2>2. StartDrain \/ drain' = drain
    BY <1>3 DEF CountPending, Poll, FlushNow, Login
  <2>3. QED
    BY <1>1, <1>2, <1>3, <2>1, <2>2, QuietStep DEF CountPending, Poll, FlushNow, Login, Early
<1>4. CASE Open
  <2>1. drain' = drain \/ (drain.call = "none" /\ drain'.call = "getAccessToken" /\ drain'.ids = drain.ids)
    BY <1>1, <1>4, StartDrainTyped, DrainTyped DEF Open
  <2>2. QED
    BY <1>1, <1>2, <1>4, <2>1, QuietStep DEF Open, Early
<1>5. CASE GetAccessToken
  <2>1. drain.call = "getAccessToken" /\ drain'.call \in Early /\ drain'.ids \subseteq drain.ids
    BY <1>1, <1>5, DrainTyped DEF GetAccessToken, Go, Early, TypeOK, Off
  <2>2. QED
    BY <1>1, <1>2, <1>5, <2>1, QuietStep DEF GetAccessToken, Early
<1>6. CASE Kill
  <2>1. happened' = happened \cup {"kill"}
    BY <1>1, <1>6, StrikeTyped DEF Kill
  <2>2. QED
    BY <1>1, <1>2, <1>6, <2>1, DrainTyped, QuietStep DEF Kill, Early
<1>7. CASE Logout
  <2>1. happened \subseteq happened'
    BY <1>7 DEF Logout, Strike
  <2>2. QED
    BY <1>1, <1>2, <1>7, <2>1, QuietStep DEF Logout
<1>8. CASE UNCHANGED vars
  BY <1>1, <1>2, <1>8, QuietStep DEF vars
<1>9. QED
  BY <1>1, <1>3, <1>4, <1>5, <1>6, <1>7, <1>8, QueueEventStep, BatchStep, SettleStep DEF Next, Drain
-----------------------------------------------------------------------------
(* The invariant of the queue, whatever fails and whenever. *)
THEOREM OutboxInvariance == Spec => []IInv
<1>1. QED
  BY InitInvariant, Inductive, PTL DEF Spec

(* Every row, the drain and the counters keep their types; `counting` is   *)
(* bounded because an event is counted at most once.                       *)
THEOREM OutboxTyped == Spec => []TypeOK
<1>1. IInv => TypeOK
  BY DEF IInv
<1>2. QED
  BY <1>1, OutboxInvariance, PTL

(* A row is marked uploaded only when the server has taken it: drain reads *)
(* its ids before the POST and settles the same ids after it.              *)
THEOREM UploadedAlwaysDelivered == Spec => []UploadedIsDelivered
<1>1. IInv => UploadedIsDelivered
  BY DEF IInv
<1>2. QED
  BY <1>1, OutboxInvariance, PTL

(* The rows in flight are those of the one drain in progress, as long as   *)
(* no process died and no database call threw.                             *)
THEOREM InFlightAlwaysDrained == Spec => []InFlightIsDrained
<1>1. IInv => InFlightIsDrained
  BY DEF IInv
<1>2. QED
  BY <1>1, OutboxInvariance, PTL

(* Nothing is sent twice without a lost answer or a database error: not by *)
(* a refused upload, a kill, a logout or a second drain.                   *)
THEOREM DeliveredAtMostOnce == Spec => []DeliveredOnce
<1>1. IInv => DeliveredOnce
  BY DEF IInv
<1>2. QED
  BY <1>1, OutboxInvariance, PTL

(* No body of the phone passes the validation of this repository's         *)
(* backend: it has no source, no deviceId and no batches.                  *)
LEMMA EnvelopeRefused == ~Validates(Envelope)
BY DEF Validates, Envelope, Required

(* With that backend no event is ever taken, hence none marked uploaded.   *)
THEOREM BackendTakesNothing ==
  ASSUME ~Lenient
  PROVE  Spec => [](WithStatus("uploaded") = {} /\ \A e \in Events : delivered[e] = 0)
<1> DEFINE Nothing == \A e \in Events : delivered[e] = 0
<1>1. ~Takes(Envelope)
  BY EnvelopeRefused DEF Takes
<1>2. Init => Nothing
  BY DEF Init
<1>3. Nothing /\ [Next]_vars => Nothing'
  <2>1. [Next]_vars => delivered' = delivered
    BY <1>1 DEF Next, QueueEvent, CountPending, Poll, Tick, FlushNow, Drain, GetAccessToken,
                GetPendingBatch, MarkInFlight, Post, MarkUploaded, MarkFailed, DbError,
                Kill, Open, Logout, Login, vars
  <2>2. QED
    BY <2>1
<1>4. IInv /\ Nothing => WithStatus("uploaded") = {} /\ Nothing
  BY DEF IInv, UploadedIsDelivered, WithStatus
<1>5. QED
  BY <1>2, <1>3, <1>4, OutboxInvariance, PTL DEF Spec
=============================================================================
