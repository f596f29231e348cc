---------------------------- MODULE MobileRounds ----------------------------
(***************************************************************************)
(* The rounds on the phone: round.service.ts over rounds.repo.ts, and what *)
(* the backend answers.                                                    *)
(*                                                                         *)
(* What the phone makes of an answer depends on the field it looks into:   *)
(* an answer is a record with the fields it has.                           *)
(***************************************************************************)
EXTENDS MobileSession

CONSTANT Rounds

VARIABLES local,    \* the rounds table: the status and the anchor of the timer
          action,   \* the calls of startRound, completeRound and abandonRound
          remote,   \* the backend's rounds
          last,     \* history: the call that began last, and the last start
          torn      \* history: since the last start, calls on it were cut off or overlapped

roundVars == <<local, action, remote, last, torn>>

RoundsInit ==
    /\ local = [r \in Rounds |-> None] /\ action = {}
    /\ remote = [r \in Rounds |-> "scheduled"]
    /\ last = [r \in Rounds |-> None] /\ torn = {}

(* What each action writes, and from where the backend allows it. *)
Status  == [start |-> "active", complete |-> "completed", abandon |-> "abandoned"]
Allowed == [start |-> {"scheduled"}, complete |-> {"active"}, abandon |-> {"scheduled", "active"}]

(* The RoundView that RoundsController returns: it is the answer itself.   *)
serializeRound(r, status) == [id |-> r, status |-> status]

(* fromBackendRound and upsertRound, if the answer has what is looked for; *)
(* a timer of 0 is none, or not of the phone's time.                       *)
Adopt(r, answer, timer) ==
    IF "round" \in DOMAIN answer
    THEN [local EXCEPT ![r] = [status |-> answer.round.status, timer |-> timer]]
    ELSE local

InLocalPart(r) == {c \in action : c.r = r /\ c.at \in {"read", "write"}}

----------------------------------------------------------------------------

(* A start that overlaps nothing sets the row right, whatever was there.   *)
Begin(r, do) ==
    /\ Called /\ auth = "authenticated"
    /\ action' = action \cup {[at |-> "read", r |-> r, do |-> do, n |-> calls']}
    /\ last' = [last EXCEPT ![r] = [do |-> do, n |-> IF do = "start" THEN calls'
                                                     ELSE IF @ = None THEN 0 ELSE @.n]]
    /\ torn' = IF InLocalPart(r) # {} THEN torn \cup {r}
               ELSE IF do = "start" THEN torn \ {r} ELSE torn
    /\ UNCHANGED <<local, remote, faults>>

Goes(c, at) == action' = (action \ {c}) \cup at

(* getRoundById *)
ReadRow(c) ==
    /\ c \in action /\ c.at = "read"
    /\ Goes(c, {[at |-> "write", r |-> c.r, do |-> c.do, n |-> c.n, existing |-> local[c.r]]})
    /\ UNCHANGED <<local, remote, last, torn, calls, faults>>

(* postRoundAction, if there is a token. *)
PostNext(c) == IF Bearer = None THEN {} ELSE {[at |-> "post", r |-> c.r, do |-> c.do, n |-> c.n]}

(* A fault for the runs: every call writes the time it began. *)
UpsertFault(c) ==
    /\ c \in action /\ c.at = "write"
    /\ local' = [local EXCEPT ![c.r] = [status |-> Status[c.do], timer |-> c.n]]
    /\ Goes(c, PostNext(c))
    /\ UNCHANGED <<remote, last, torn, calls, faults>>

(* The whole row is written: a start anchors the timer, the others keep    *)
(* the anchor that was read.                                               *)
Upsert(c) ==
    /\ c \in action /\ c.at = "write"
    /\ local' = [local EXCEPT ![c.r] =
          [status |-> Status[c.do],
           timer  |-> IF c.do = "start" THEN c.n
                      ELSE IF c.existing = None THEN 0 ELSE c.existing.timer]]
    /\ Goes(c, PostNext(c))
    /\ UNCHANGED <<remote, last, torn, calls, faults>>

(* The upsert or the log is rejected. *)
UpsertFails(c) ==
    /\ Fault /\ c \in action /\ c.at = "write"
    /\ Goes(c, {}) /\ torn' = torn \cup {c.r}
    /\ UNCHANGED <<local, remote, last, calls>>

(* The backend takes the step, or refuses. *)
Post(c) ==
    /\ c \in action /\ c.at = "post"
    /\ IF remote[c.r] \in Allowed[c.do]
       THEN /\ remote' = [remote EXCEPT ![c.r] = Status[c.do]]
            /\ Goes(c, {[at |-> "answer", r |-> c.r, do |-> c.do, n |-> c.n]})
       ELSE Goes(c, {}) /\ UNCHANGED remote
    /\ UNCHANGED <<local, last, torn, calls, faults>>

PostLost(c) ==
    /\ Fault /\ c \in action /\ c.at \in {"post", "answer"}
    /\ Goes(c, {})
    /\ UNCHANGED <<local, remote, last, torn, calls>>

(* The answer comes, however late. *)
Respond(c) ==
    /\ c \in action /\ c.at = "answer"
    /\ Goes(c, {})
    /\ local' = Adopt(c.r, serializeRound(c.r, Status[c.do]), IF c.do = "start" THEN c.n ELSE 0)
    /\ UNCHANGED <<remote, last, torn, calls, faults>>

----------------------------------------------------------------------------

(* getCurrentRound of the backend: an active round, else a scheduled one.  *)
Open(status) == {r \in Rounds : remote[r] = status}
getCurrentRound == IF Open("active") # {} THEN Open("active") ELSE Open("scheduled")

(* fetchCurrentRound, when there is one. *)
FetchCurrent(r) ==
    /\ Bearer # None /\ r \in getCurrentRound
    /\ local' = Adopt(r, serializeRound(r, remote[r]), 0)
    /\ UNCHANGED <<action, remote, last, torn, calls, faults>>

RoundsKilled ==
    /\ action' = {}
    /\ torn' = torn \cup {c.r : c \in {c \in action : c.at \in {"read", "write"}}}
    /\ UNCHANGED <<local, remote, last>>

RoundsNext ==
    \/ \E r \in Rounds : \/ \E do \in DOMAIN Status : Begin(r, do)
                         \/ FetchCurrent(r)
    \/ \E c \in action : \/ ReadRow(c) \/ Upsert(c) \/ UpsertFails(c)
                         \/ Post(c) \/ PostLost(c) \/ Respond(c)

----------------------------------------------------------------------------
(* The inductive invariant behind RowFollowsCalls.                         *)

RoundsTyped ==
    /\ local \in [Rounds -> {None} \cup [status : {"active", "completed", "abandoned"}, timer : Nat]]
    /\ last \in [Rounds -> {None} \cup [do : DOMAIN Status, n : Nat]]
    /\ torn \subseteq Rounds
    /\ action \subseteq
         [at : {"read", "post", "answer"}, r : Rounds, do : DOMAIN Status, n : Nat]
           \cup [at : {"write"}, r : Rounds, do : DOMAIN Status, n : Nat,
                  existing : {None} \cup [status : {"active", "completed", "abandoned"}, timer : Nat]]

Timer(row) == IF row = None THEN 0 ELSE row.timer

(* The row of r as the last call leaves it. *)
Settled(r) ==
    IF last[r] = None THEN local[r] = None
    ELSE local[r] = [status |-> Status[last[r].do], timer |-> last[r].n]

(* c is the last call on r, and will leave the row as it should be.        *)
Settling(c, r) ==
    /\ last[r] # None /\ c.do = last[r].do
    /\ last[r].n = IF c.do = "start" THEN c.n ELSE Timer(local[r])
    /\ c.at = "write" => c.existing = local[r]

(* One call at a time on the row, and the last one prevails.               *)
Follows(r) ==
    /\ \A c, d \in InLocalPart(r) : c = d
    /\ \A c \in InLocalPart(r) : Settling(c, r)
    /\ InLocalPart(r) = {} => Settled(r)

RoundsInv == RoundsTyped /\ \A r \in Rounds \ torn : Follows(r)
=============================================================================
