----------------------- MODULE TelemetryIngestProofs -----------------------
(***************************************************************************)
(* The safety properties of telemetry ingestion for every set of batches,  *)
(* any number of requests in flight together, and failures anywhere.       *)
(***************************************************************************)
EXTENDS TelemetryIngest, TLAPS

USE IngestAssumption

LEMMA ElementOfSeq ==
  ASSUME NEW S, NEW s \in Seq(S), NEW i \in DOMAIN s
  PROVE  i \in Nat \ {0} /\ s[i] \in S
OBVIOUS

(* What a request makes of its batches are rows of its own number. *)
LEMMA CandidatesTyped ==
  ASSUME NEW dto \in Dtos, NEW no \in Nat
  PROVE  /\ Candidates(dto, no) \subseteq Row
         /\ \A row \in Candidates(dto, no) : row.no = no
<1> SUFFICES ASSUME NEW row \in Candidates(dto, no)
             PROVE  row \in Row /\ row.no = no
  OBVIOUS
<1>1. PICK i \in DOMAIN dto : \E j \in DOMAIN dto[i].events :
        row = [no |-> no, pos |-> <<i, j>>, key |-> dto[i].events[j].key]
  BY DEF Candidates
<1>2. PICK j \in DOMAIN dto[i].events :
        row = [no |-> no, pos |-> <<i, j>>, key |-> dto[i].events[j].key]
  BY <1>1
<1>3. i \in Nat \ {0} /\ dto[i] \in Envelope
  <2>1. dto \in Seq(Envelope)
    OBVIOUS
  <2>2. QED
    BY <2>1, ElementOfSeq
<1>4. dto[i].events \in Seq([key : Keys, time : Times])
  BY <1>3 DEF Envelope
<1>5. j \in Nat \ {0} /\ dto[i].events[j] \in [key : Keys, time : Times]
  <2> DEFINE events == dto[i].events
             Event == [key : Keys, time : Times]
  <2> HIDE DEF Event, events
  <2>1. events \in Seq(Event) /\ j \in DOMAIN events
    BY <1>4 DEF events, Event
  <2>2. j \in Nat \ {0} /\ events[j] \in Event
    BY <2>1, ElementOfSeq
  <2>3. QED
    BY <2>2 DEF events, Event
<1>6. <<i, j>> \in (Nat \ {0}) \X (Nat \ {0})
  BY <1>3, <1>5
<1>7. dto[i].events[j].key \in Keys
  BY <1>5
<1>8. QED
  BY <1>2, <1>6, <1>7 DEF Row

(* The local state of a request in flight. *)
LEMMA RequestTyped ==
  ASSUME TypeOK, NEW q \in Requests
  PROVE  /\ Busy(q) => req[q] \in Request
         /\ Busy(q) <=> req[q].pc \in {"lookup", "save", "emit"}
         /\ Idle \notin Request
BY DEF TypeOK, Busy, Request, Idle

(* Every row is stored under its key. *)
LEMMA StoredGrows ==
  ASSUME table \subseteq table'
  PROVE  Stored \subseteq Stored'
BY DEF Stored, KeysOf
-----------------------------------------------------------------------------
LEMMA InitInvariant == Init => IInv
<1> SUFFICES ASSUME Init PROVE IInv
  OBVIOUS
<1>1. TypeOK
  BY DEF Init, TypeOK
<1>2. \A q \in Requests : ~Busy(q) /\ Owed(q) = {}
  BY DEF Init, Busy, Owed, Idle
<1>3. OwnRows /\ CandidatesCovered /\ AckedIsStored
  BY <1>2 DEF Init, OwnRows, CandidatesCovered, AckedIsStored
<1>4. InsertsAreNew /\ NoDuplicates
  BY <1>2 DEF Init, InsertsAreNew, NoDuplicates, Distinct
<1>5. AnnouncedOnce
  <2>1. ToSet(journal) = {} /\ IsInjective(journal)
    BY DEF Init, ToSet, IsInjective
  <2>2. QED
    BY <1>2, <2>1 DEF AnnouncedOnce
<1>6. QED
  BY <1>1, <1>3, <1>4, <1>5 DEF IInv
-----------------------------------------------------------------------------
(* A request ends, answered or not: the others, and what is stored, stay.  *)
LEMMA EndStep ==
  ASSUME IInv, NEW q \in Requests,
         req' = [req EXCEPT ![q] = Idle],
         UNCHANGED <<table, journal, received>>,
         disturbed \subseteq disturbed', disturbed' \subseteq Disturbance,
         acked' = acked \/ (Busy(q) /\ acked' = acked \cup KeysOf(req[q].candidates)
                            /\ KeysOf(req[q].candidates) \subseteq Stored)
  PROVE  IInv'
<1> USE DEF IInv
<1>1. /\ ~Busy(q)' /\ Owed(q)' = {}
      /\ \A p \in Requests \ {q} : req'[p] = req[p] /\ Owed(p)' = Owed(p)
                                   /\ (Busy(p)' <=> Busy(p))
  BY DEF TypeOK, Busy, Owed, Idle
<1>2. TypeOK'
  <2>1. Stored \subseteq Keys
    BY DEF TypeOK, Stored, KeysOf, Row
  <2>2. QED
    BY <2>1 DEF TypeOK
<1>3. Stored' = Stored
  BY DEF Stored, KeysOf
<1>4. OwnRows'
  BY <1>1 DEF OwnRows
<1>5. CandidatesCovered'
  BY <1>1, <1>3 DEF CandidatesCovered
<1>6. InsertsAreNew'
  BY <1>1, <1>3 DEF InsertsAreNew
<1>7. AckedIsStored'
  BY <1>3 DEF AckedIsStored
<1>8. AnnouncedOnce'
  <2>1. \A p \in Requests : Owed(p)' \subseteq Owed(p)
    BY <1>1
  <2>2. QED
    BY <2>1 DEF AnnouncedOnce
<1>9. NoDuplicates'
  BY DEF NoDuplicates
<1>10. QED
  BY <1>2, <1>4, <1>5, <1>6, <1>7, <1>8, <1>9

(* A new request holds rows that nobody else has. *)
LEMMA ReceiveStep ==
  ASSUME IInv, NEW q \in Requests, NEW dto \in Dtos, Receive(q, dto)
  PROVE  IInv'
<1> USE DEF IInv
<1> DEFINE candidates == Candidates(dto, received + 1)
           new == [pc |-> "lookup", candidates |-> candidates, toInsert |-> {}, todo |-> {}]
<1> HIDE DEF candidates
<1>1. /\ candidates \subseteq Row
      /\ \A row \in candidates : row.no = received + 1
  BY CandidatesTyped DEF candidates, TypeOK
<1>2. /\ req[q] = Idle /\ received < MaxRequests /\ received' = received + 1
      /\ req' = IF candidates = {} THEN req ELSE [req EXCEPT ![q] = new]
      /\ UNCHANGED <<table, journal, acked>>
  BY DEF Receive, candidates
<1>3. disturbed' = disturbed
        \cup (IF {p \in Requests : req[p] # Idle} # {} /\ candidates # {} THEN {"overlap"} ELSE {})
        \cup (IF Distinct(candidates) THEN {} ELSE {"repeat"})
  BY DEF Receive, candidates
<1>4. new \in Request
  BY <1>1 DEF Request
<1>5. TypeOK'
  <2>1. received' \in 0..MaxRequests
    BY <1>2 DEF TypeOK
  <2>2. disturbed' \subseteq Disturbance
    BY <1>3 DEF TypeOK, Disturbance
  <2>3. QED
    BY <1>2, <1>4, <2>1, <2>2 DEF TypeOK
<1>6. \A p \in Requests \ {q} : req'[p] = req[p] /\ (Busy(p)' <=> Busy(p)) /\ Owed(p)' = Owed(p)
  BY <1>2 DEF TypeOK, Busy, Owed
<1>7. /\ ~Busy(q) /\ Owed(q)' = {}
      /\ Busy(q)' => req'[q] = new /\ candidates # {}
  BY <1>2 DEF TypeOK, Busy, Owed, Idle
<1>8. Stored' = Stored
  BY <1>2 DEF Stored, KeysOf
<1>9. OwnRows'
  <2>1. \A row \in table : row.no <= received'
    BY <1>2 DEF OwnRows, TypeOK, Row
  <2>2. \A p \in Requests \ {q} : Busy(p) =>
          \A row \in req[p].candidates : row.no <= received /\ row.no <= received'
    BY <1>2, RequestTyped DEF OwnRows, TypeOK, Row, Request
  <2>3. candidates \cap table = {}
    BY <1>1 DEF OwnRows, TypeOK
  <2>4. \A p \in Requests \ {q} : Busy(p) => candidates \cap req[p].candidates = {}
    BY <1>1, <2>2 DEF TypeOK
  <2>5. \A row \in candidates : row.no <= received'
    BY <1>1, <1>2 DEF TypeOK
  <2>6. ASSUME NEW p \in Requests, Busy(p)'
        PROVE  /\ \A row \in req'[p].candidates : row.no <= received'
               /\ req'[p].toInsert \subseteq req'[p].candidates
               /\ Owed(p)' \subseteq req'[p].toInsert
               /\ req'[p].pc \in {"lookup", "save"} => req'[p].candidates \cap table' = {}
    <3>1. CASE p = q
      BY <1>2, <1>7, <2>3, <2>5, <2>6, <3>1
    <3>2. CASE p # q
      BY <1>2, <1>6, <2>2, <2>6, <3>2 DEF OwnRows
    <3>3. QED
      BY <3>1, <3>2
  <2>7. ASSUME NEW p \in Requests, NEW o \in Requests, p # o, Busy(p)', Busy(o)'
        PROVE  req'[p].candidates \cap req'[o].candidates = {}
    <3>1. CASE p = q
      BY <1>6, <1>7, <2>4, <2>7, <3>1
    <3>2. CASE o = q
      BY <1>6, <1>7, <2>4, <2>7, <3>2
    <3>3. CASE p # q /\ o # q
      BY <1>6, <2>7, <3>3 DEF OwnRows
    <3>4. QED
      BY <3>1, <3>2, <3>3
  <2>8. QED
    BY <1>2, <2>1, <2>6, <2>7 DEF OwnRows
<1>10. CandidatesCovered'
  BY <1>6, <1>7, <1>8 DEF CandidatesCovered
<1>11. InsertsAreNew'
  <2> SUFFICES ASSUME disturbed' \cap {"overlap", "repeat"} = {}
               PROVE  /\ \A p, o \in Requests : Busy(p)' /\ Busy(o)' => p = o
                      /\ \A p \in Requests : Busy(p)' =>
                           /\ Distinct(req'[p].candidates)
                           /\ req'[p].pc = "save" => KeysOf(req'[p].toInsert) \cap Stored' = {}
    BY DEF InsertsAreNew
  <2>1. disturbed \cap {"overlap", "repeat"} = {} /\ Distinct(candidates)
    BY <1>3
  <2>2. candidates # {} => \A p \in Requests : ~Busy(p)
    BY <1>3 DEF Busy
  <2>3. QED
    BY <1>6, <1>7, <1>8, <2>1, <2>2 DEF InsertsAreNew
<1>12. AckedIsStored'
  BY <1>2, <1>8 DEF AckedIsStored
<1>13. AnnouncedOnce'
  <2>1. \A p \in Requests : Owed(p)' \subseteq Owed(p)
    BY <1>6, <1>7
  <2>2. QED
    BY <1>2, <2>1 DEF AnnouncedOnce
<1>14. NoDuplicates'
  BY <1>2, <1>3 DEF NoDuplicates
<1>15. QED
  BY <1>5, <1>9, <1>10, <1>11, <1>12, <1>13, <1>14

(* The candidates are stored or kept for the insert. *)
LEMMA LookupStep ==
  ASSUME IInv, NEW q \in Requests, Lookup(q)
  PROVE  IInv'
<1> USE DEF IInv
<1> DEFINE toInsert == {row \in req[q].candidates : row.key \notin Stored}
<1>1. Busy(q) /\ req[q] \in Request /\ req[q].pc = "lookup"
  BY RequestTyped DEF Lookup
<1>2. KeysOf(req[q].candidates) \subseteq Stored \cup KeysOf(toInsert)
  BY DEF KeysOf
<1>3. CASE toInsert = {}
  <2>1. KeysOf(req[q].candidates) \subseteq Stored
    BY <1>2, <1>3 DEF KeysOf
  <2>2. QED
    BY <1>1, <1>3, <2>1, EndStep DEF Lookup, Answer, TypeOK
<1>4. CASE toInsert # {}
  <2> DEFINE new == [req[q] EXCEPT !.pc = "save", !.toInsert = toInsert]
  <2>1. /\ req' = [req EXCEPT ![q] = new]
        /\ UNCHANGED <<table, journal, acked, received, disturbed>>
    BY <1>4 DEF Lookup
  <2>2. /\ new \in Request /\ new.pc = "save" /\ new.toInsert = toInsert
        /\ new.candidates = req[q].candidates /\ new.todo = req[q].todo
    BY <1>1 DEF Request
  <2> HIDE DEF new
  <2>3. req'[q] = new /\ \A p \in Requests \ {q} : req'[p] = req[p]
    BY <2>1 DEF TypeOK
  <2>4. \A p \in Requests : (Busy(p)' <=> Busy(p)) /\ Owed(p)' = Owed(p)
    BY <1>1, <2>2, <2>3, RequestTyped DEF Busy, Owed
  <2>5. \A p \in Requests : Busy(p) => req'[p].candidates = req[p].candidates
    BY <2>2, <2>3
  <2>6. Stored' = Stored
    BY <2>1 DEF Stored, KeysOf
  <2>7. TypeOK'
    BY <2>1, <2>2 DEF TypeOK
  <2>8. OwnRows'
    <3>1. Owed(q) = {}
      BY <1>1 DEF Owed
    <3>2. QED
      BY <1>1, <2>1, <2>2, <2>3, <2>4, <2>5, <3>1 DEF OwnRows
  <2>9. CandidatesCovered'
    BY <1>2, <2>2, <2>3, <2>4, <2>6 DEF CandidatesCovered
  <2>10. InsertsAreNew'
    <3>1. KeysOf(toInsert) \cap Stored = {}
      BY DEF KeysOf
    <3>2. QED
      BY <2>1, <2>2, <2>3, <2>4, <2>5, <2>6, <3>1 DEF InsertsAreNew
  <2>11. AckedIsStored' /\ AnnouncedOnce' /\ NoDuplicates'
    BY <2>1, <2>4, <2>6 DEF AckedIsStored, AnnouncedOnce, NoDuplicates
  <2>12. QED
    BY <2>7, <2>8, <2>9, <2>10, <2>11
<1>5. QED
  BY <1>3, <1>4

(* What the transaction does to the other requests, and to the answers. *)
LEMMA SaveInserts ==
  ASSUME IInv, NEW q \in Requests, Save(q)
  PROVE  /\ req[q] \in Request /\ Busy(q) /\ req[q].pc = "save"
         /\ req[q].toInsert \subseteq req[q].candidates
         /\ req[q].toInsert \cap table = {}
         /\ \A p \in Requests \ {q} : Busy(p) => req[p].candidates \cap req[q].toInsert = {}
         /\ table' = table \cup req[q].toInsert
         /\ Stored' = Stored \cup KeysOf(req[q].toInsert)
         /\ KeysOf(req[q].candidates) \subseteq Stored'
         /\ \A p \in Requests \ {q} : req'[p] = req[p]
         /\ UNCHANGED <<journal, received, disturbed>>
<1> USE DEF IInv
<1>1. Busy(q) /\ req[q] \in Request /\ req[q].pc = "save"
  BY RequestTyped DEF Save
<1>2. table' = table \cup req[q].toInsert /\ UNCHANGED <<journal, received, disturbed>>
  BY DEF Save
<1>3. Stored' = Stored \cup KeysOf(req[q].toInsert)
  BY <1>2 DEF Stored, KeysOf
<1>4. \A p \in Requests \ {q} : req'[p] = req[p]
  BY DEF Save, Answer, TypeOK
<1>5. /\ req[q].toInsert \subseteq req[q].candidates
      /\ req[q].toInsert \cap table = {}
      /\ \A p \in Requests \ {q} : Busy(p) => req[p].candidates \cap req[q].toInsert = {}
  BY <1>1 DEF OwnRows
<1>6. KeysOf(req[q].candidates) \subseteq Stored'
  BY <1>1, <1>3 DEF CandidatesCovered
<1>7. QED
  BY <1>1, <1>2, <1>3, <1>4, <1>5, <1>6

LEMMA SaveStep ==
  ASSUME IInv, NEW q \in Requests, Save(q)
  PROVE  IInv'
<1> USE DEF IInv
<1> DEFINE new == [req[q] EXCEPT !.pc = "emit", !.todo = Saved(q)]
           rows == req[q].toInsert
<1>1. /\ req[q] \in Request /\ Busy(q) /\ req[q].pc = "save"
      /\ rows \subseteq req[q].candidates /\ rows \cap table = {}
      /\ \A p \in Requests \ {q} : Busy(p) => req[p].candidates \cap rows = {}
  BY SaveInserts
<1>2. /\ table' = table \cup rows
      /\ Stored' = Stored \cup KeysOf(rows)
      /\ KeysOf(req[q].candidates) \subseteq Stored'
      /\ \A p \in Requests \ {q} : req'[p] = req[p]
      /\ UNCHANGED <<journal, received, disturbed>>
  BY SaveInserts
<1>3. \/ Saved(q) = {} /\ req' = [req EXCEPT ![q] = Idle]
         /\ acked' = acked \cup KeysOf(req[q].candidates)
      \/ Saved(q) # {} /\ req' = [req EXCEPT ![q] = new] /\ acked' = acked
  BY DEF Save, Answer
<1>4. /\ new \in Request /\ new.pc = "emit" /\ new.todo = Saved(q)
      /\ new.candidates = req[q].candidates /\ new.toInsert = rows
  BY <1>1 DEF Request, Saved
<1> HIDE DEF new
<1>5. req'[q] = Idle \/ (req'[q] = new /\ Busy(q)')
  BY <1>3, <1>4, RequestTyped DEF TypeOK, Busy
<1>6. /\ \A p \in Requests \ {q} : Owed(p)' = Owed(p) /\ (Busy(p)' <=> Busy(p))
      /\ Owed(q)' \subseteq Saved(q) /\ (Busy(q)' => req'[q] = new)
      /\ Owed(q) = {}
  BY <1>1, <1>2, <1>4, <1>5 DEF Owed, Busy, Idle
<1>7. rows \subseteq Row /\ KeysOf(req[q].candidates) \subseteq Keys
  BY <1>1 DEF Request, KeysOf, Row
<1>8. TypeOK'
  BY <1>2, <1>3, <1>4, <1>7 DEF TypeOK
<1>9. OwnRows'
  <2>1. \A row \in table' : row.no <= received'
    BY <1>1, <1>2 DEF OwnRows
  <2>2. ASSUME NEW p \in Requests, Busy(p)'
        PROVE  /\ \A row \in req'[p].candidates : row.no <= received'
               /\ req'[p].toInsert \subseteq req'[p].candidates
               /\ Owed(p)' \subseteq req'[p].toInsert
               /\ req'[p].pc \in {"lookup", "save"} => req'[p].candidates \cap table' = {}
    <3>1. CASE p = q
      BY <1>1, <1>2, <1>4, <1>6, <2>2, <3>1 DEF OwnRows, Saved
    <3>2. CASE p # q
      BY <1>1, <1>2, <1>6, <2>2, <3>2 DEF OwnRows
    <3>3. QED
      BY <3>1, <3>2
  <2>3. \A p \in Requests : Busy(p)' => Busy(p) /\ req'[p].candidates = req[p].candidates
    BY <1>1, <1>2, <1>4, <1>6
  <2>4. \A p, o \in Requests : p # o /\ Busy(p)' /\ Busy(o)' =>
          req'[p].candidates \cap req'[o].candidates = {}
    BY <2>3 DEF OwnRows
  <2>5. QED
    BY <2>1, <2>2, <2>4 DEF OwnRows
<1>10. CandidatesCovered'
  <2>1. ASSUME NEW p \in Requests, Busy(p)'
        PROVE  /\ req'[p].pc = "save" =>
                    KeysOf(req'[p].candidates) \subseteq Stored' \cup KeysOf(req'[p].toInsert)
               /\ req'[p].pc = "emit" => KeysOf(req'[p].candidates) \subseteq Stored'
    <3>1. CASE p = q
      BY <1>2, <1>4, <1>6, <2>1, <3>1
    <3>2. CASE p # q
      BY <1>2, <1>6, <2>1, <3>2 DEF CandidatesCovered
    <3>3. QED
      BY <3>1, <3>2
  <2>2. QED
    BY <2>1 DEF CandidatesCovered
<1>11. ASSUME disturbed' \cap {"overlap", "repeat"} = {}
       PROVE  /\ \A p, o \in Requests : Busy(p)' /\ Busy(o)' => p = o
              /\ \A p \in Requests : Busy(p)' => p = q /\ req'[p] = new
              /\ Distinct(req[q].candidates) /\ Distinct(table')
  <2>1. disturbed \cap {"overlap", "repeat"} = {}
    BY <1>2, <1>11
  <2>2. /\ \A p \in Requests : Busy(p) => p = q
        /\ Distinct(req[q].candidates) /\ Distinct(table) /\ KeysOf(rows) \cap Stored = {}
    BY <1>1, <2>1 DEF InsertsAreNew, NoDuplicates
  <2>3. Distinct(table')
    <3>1. Distinct(rows)
      BY <1>1, <2>2 DEF Distinct
    <3>2. QED
      BY <1>2, <2>2, <3>1 DEF Distinct, KeysOf, Stored
  <2>4. QED
    BY <1>6, <2>2, <2>3
<1>12. InsertsAreNew' /\ NoDuplicates'
  BY <1>4, <1>11 DEF InsertsAreNew, NoDuplicates
<1>13. AckedIsStored'
  BY <1>2, <1>3 DEF AckedIsStored
<1>14. AnnouncedOnce'
  <2>1. ToSet(journal)' = ToSet(journal) /\ IsInjective(journal)'
    BY <1>2 DEF AnnouncedOnce
  <2>2. Owed(q)' \subseteq rows /\ \A row \in Owed(q)' : row.key \in Announced
    BY <1>6 DEF Saved
  <2>3. \A row \in ToSet(journal) : row \in table /\ row.key \in Announced
    BY DEF AnnouncedOnce
  <2>4. \A p \in Requests : Owed(p) \subseteq table /\ \A row \in Owed(p) : row.key \in Announced
    BY DEF AnnouncedOnce
  <2>5. \A p \in Requests : Owed(p)' \cap ToSet(journal)' = {}
    BY <1>1, <1>6, <2>1, <2>2, <2>3 DEF AnnouncedOnce
  <2>6. \A p, o \in Requests : p # o => Owed(p)' \cap Owed(o)' = {}
    BY <1>1, <1>6, <2>2, <2>4 DEF AnnouncedOnce
  <2>7. \A row \in ToSet(journal)' \cup UNION {Owed(p)' : p \in Requests} :
          row \in table' /\ row.key \in Announced
    BY <1>2, <1>6, <2>1, <2>2, <2>3, <2>4
  <2>8. QED
    BY <2>1, <2>5, <2>6, <2>7 DEF AnnouncedOnce
<1>15. QED
  BY <1>8, <1>9, <1>10, <1>12, <1>13, <1>14

LEMMA AppendNew ==
  ASSUME NEW S, NEW s \in Seq(S), NEW e \in S, IsInjective(s), e \notin ToSet(s)
  PROVE  /\ Append(s, e) \in Seq(S) /\ IsInjective(Append(s, e))
         /\ ToSet(Append(s, e)) = ToSet(s) \cup {e}
<1>1. PICK n \in Nat : n = Len(s)
  OBVIOUS
<1>2. PICK t : t = Append(s, e)
  OBVIOUS
<1>3. /\ t \in Seq(S) /\ DOMAIN t = 1..(n + 1) /\ DOMAIN s = 1..n
      /\ t[n + 1] = e /\ \A i \in 1..n : t[i] = s[i] /\ s[i] # e
  BY <1>1, <1>2 DEF ToSet
<1>4. \A i \in 1..(n + 1) : i \in 1..n \/ i = n + 1
  OBVIOUS
<1>5. IsInjective(t)
  BY <1>3, <1>4 DEF IsInjective
<1>6. ToSet(t) = ToSet(s) \cup {e}
  <2>1. n + 1 \in 1..(n + 1) /\ 1..n \subseteq 1..(n + 1)
    OBVIOUS
  <2>2. QED
    BY <1>3, <1>4, <2>1 DEF ToSet
<1>7. QED
  BY <1>3, <1>5, <1>6, <1>2

LEMMA EmitStep ==
  ASSUME IInv, NEW q \in Requests, Emit(q)
  PROVE  IInv'
<1> USE DEF IInv
<1>1. Busy(q) /\ req[q] \in Request /\ req[q].pc = "emit" /\ Owed(q) = req[q].todo
  BY RequestTyped DEF Emit, Owed
<1>2. PICK row \in req[q].todo :
        /\ journal' = Append(journal, row)
        /\ IF req[q].todo = {row}
             THEN Answer(q)
             ELSE /\ req' = [req EXCEPT ![q].todo = @ \ {row}]
                  /\ UNCHANGED acked
        /\ UNCHANGED <<table, received, disturbed>>
  BY DEF Emit
<1> DEFINE new == [req[q] EXCEPT !.todo = @ \ {row}]
<1>3. /\ new \in Request /\ new.pc = "emit" /\ new.todo = req[q].todo \ {row}
      /\ new.candidates = req[q].candidates /\ new.toInsert = req[q].toInsert
  BY <1>1 DEF Request
<1>4. \/ /\ req' = [req EXCEPT ![q] = Idle]
         /\ acked' = acked \cup KeysOf(req[q].candidates)
      \/ req' = [req EXCEPT ![q] = new] /\ acked' = acked
  BY <1>2 DEF Answer
<1> HIDE DEF new
<1>5. \A p \in Requests \ {q} : req'[p] = req[p] /\ Owed(p)' = Owed(p) /\ (Busy(p)' <=> Busy(p))
  BY <1>4 DEF TypeOK, Owed, Busy
<1>6. /\ Owed(q)' \subseteq Owed(q) \ {row}
      /\ Busy(q)' => req'[q] = new
  BY <1>1, <1>3, <1>4 DEF TypeOK, Owed, Busy, Idle
<1>7. Stored' = Stored /\ KeysOf(req[q].candidates) \subseteq Stored
  BY <1>1, <1>2 DEF Stored, KeysOf, CandidatesCovered
<1>8. row \in table /\ row.key \in Announced /\ row \notin ToSet(journal)
  BY <1>1 DEF AnnouncedOnce
<1>9. /\ journal' \in Seq(Row) /\ IsInjective(journal)'
      /\ ToSet(journal)' = ToSet(journal) \cup {row}
  <2>1. row \in Row /\ journal \in Seq(Row) /\ IsInjective(journal)
    BY <1>8 DEF TypeOK, AnnouncedOnce
  <2>2. QED
    BY <1>2, <1>8, <2>1, AppendNew
<1>10. TypeOK'
  <2>1. KeysOf(req[q].candidates) \subseteq Keys
    BY <1>1 DEF Request, KeysOf, Row
  <2>2. QED
    BY <1>2, <1>3, <1>4, <1>9, <2>1 DEF TypeOK
<1>11. OwnRows'
  <2>1. \A p \in Requests : Busy(p)' =>
          /\ Busy(p) /\ Owed(p)' \subseteq Owed(p) /\ req'[p].pc = req[p].pc
          /\ req'[p].candidates = req[p].candidates /\ req'[p].toInsert = req[p].toInsert
    BY <1>1, <1>3, <1>5, <1>6
  <2>2. QED
    BY <1>2, <2>1 DEF OwnRows
<1>12. CandidatesCovered'
  BY <1>3, <1>5, <1>6, <1>7 DEF CandidatesCovered
<1>13. InsertsAreNew' /\ NoDuplicates'
  <2>1. \A p \in Requests : Busy(p)' =>
          /\ Busy(p) /\ req'[p].pc = req[p].pc
          /\ req'[p].candidates = req[p].candidates /\ req'[p].toInsert = req[p].toInsert
    BY <1>1, <1>3, <1>5, <1>6
  <2>2. QED
    BY <1>2, <1>7, <2>1 DEF InsertsAreNew, NoDuplicates
<1>14. AckedIsStored'
  BY <1>4, <1>7 DEF AckedIsStored
<1>15. AnnouncedOnce'
  <2>1. \A p \in Requests : Owed(p)' \subseteq Owed(p) /\ row \notin Owed(p)'
    BY <1>1, <1>5, <1>6 DEF AnnouncedOnce
  <2>2. \A p \in Requests : Owed(p)' \cap ToSet(journal)' = {}
    BY <1>9, <2>1 DEF AnnouncedOnce
  <2>3. \A p, o \in Requests : p # o => Owed(p)' \cap Owed(o)' = {}
    BY <2>1 DEF AnnouncedOnce
  <2>4. \A r \in ToSet(journal)' \cup UNION {Owed(p)' : p \in Requests} :
          r \in table' /\ r.key \in Announced
    BY <1>2, <1>8, <1>9, <2>1 DEF AnnouncedOnce
  <2>5. QED
    BY <1>9, <2>2, <2>3, <2>4 DEF AnnouncedOnce
<1>16. QED
  BY <1>10, <1>11, <1>12, <1>13, <1>14, <1>15
-----------------------------------------------------------------------------
LEMMA Inductive == IInv /\ [Next]_vars => IInv'
<1> SUFFICES ASSUME IInv, [Next]_vars PROVE IInv'
  OBVIOUS
<1>1. ASSUME NEW q \in Requests, NEW dto \in Dtos, Receive(q, dto)
      PROVE  IInv'
  BY <1>1, ReceiveStep
<1>2. ASSUME NEW q \in Requests, Serve(q)
      PROVE  IInv'
  BY <1>2, LookupStep, SaveStep, EmitStep DEF Serve
<1>3. ASSUME NEW q \in Requests, Abort(q)
      PROVE  IInv'
  <2>1. disturbed' \subseteq Disturbance
    BY <1>3 DEF Abort, IInv, TypeOK, Disturbance
  <2>2. QED
    BY <1>3, <2>1, EndStep DEF Abort
<1>4. CASE UNCHANGED vars
  <2> USE DEF vars, IInv
  <2>1. \A q \in Requests : (Busy(q)' <=> Busy(q)) /\ Owed(q)' = Owed(q)
    BY <1>4 DEF Busy, Owed
  <2>2. Stored' = Stored
    BY <1>4 DEF Stored, KeysOf
  <2>3. TypeOK' /\ OwnRows' /\ CandidatesCovered' /\ InsertsAreNew'
    BY <1>4, <2>1, <2>2 DEF TypeOK, OwnRows, CandidatesCovered, InsertsAreNew
  <2>4. AckedIsStored' /\ AnnouncedOnce' /\ NoDuplicates'
    BY <1>4, <2>1, <2>2 DEF AckedIsStored, AnnouncedOnce, NoDuplicates
  <2>5. QED
    BY <2>3, <2>4
<1>5. QED
  BY <1>1, <1>2, <1>3, <1>4 DEF Next
-----------------------------------------------------------------------------
(* The invariant of the ingestion: each request in flight works on rows of *)
(* its own, and covers the candidates it will answer for.                  *)
THEOREM IngestInvariance == Spec => []IInv
<1>1. QED
  BY InitInvariant, Inductive, PTL DEF Spec

(* What is answered with 202 is in the table, whatever overlaps and fails. *)
THEOREM AckedAlwaysStored == Spec => []AckedIsStored
<1>1. IInv => AckedIsStored
  BY DEF IInv
<1>2. QED
  BY <1>1, IngestInvariance, PTL

(* No row is announced twice, and none that was not inserted. *)
THEOREM AnnouncedAtMostOnce == Spec => []AnnouncedOnce
<1>1. IInv => AnnouncedOnce
  BY DEF IInv
<1>2. QED
  BY <1>1, IngestInvariance, PTL

(* Without overlapping requests and repeated events inside a request,      *)
(* nothing is stored twice, however often it is posted and fails.          *)
THEOREM NeverDuplicated == Spec => []NoDuplicates
<1>1. IInv => NoDuplicates
  BY DEF IInv
<1>2. QED
  BY <1>1, IngestInvariance, PTL
=============================================================================
