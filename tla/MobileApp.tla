----------------------------- MODULE MobileApp -----------------------------
(***************************************************************************)
(* The phone: its session, its announcements and its rounds, which use the *)
(* session's tokens and its socket, keep their tables over a logout, and   *)
(* stop together when the process is killed.                               *)
(***************************************************************************)
EXTENDS MobileFeed, MobileRounds

vars == <<sessionVars, feedVars, roundVars, calls, faults>>

Init == SessionInit /\ FeedInit /\ RoundsInit

(* What EventBroadcasterService sends for an event about a round. *)
Payload(r) == [id |-> 0, type |-> "event", roundId |-> r, data |-> remote[r]]

(* The field of the payload that the phone's handler looks into, for each  *)
(* event that the backend's are mapped to and that the phone listens to.   *)
Field == [ended |-> "round", started |-> "round", incoming |-> "announcement"]

(* The handlers; one that does not find its field throws. *)
handleRound(event, r) == IF Field[event] = "round" THEN Adopt(r, Payload(r), 0) ELSE local

handleAnnouncementIncoming(event, r) ==
    [a \in Anns |-> IF /\ event = "incoming" /\ Field[event] \in DOMAIN Payload(r)
                       /\ ann[a] = "absent"
                    THEN "queued" ELSE ann[a]]

(* An event reaches the phone.  What a handler throws is caught, and the   *)
(* listeners of the screens are told of the event in any case.             *)
Push(event, r) ==
    /\ socket # None /\ socket.status = "connected"
    /\ local' = handleRound(event, r)
    /\ ann' = handleAnnouncementIncoming(event, r)
    /\ UNCHANGED <<sessionVars, owner, tick, current, acking, stopping, sounds, requests, row,
                   shown, astray, action, remote, last, torn, calls, faults>>

(* The process is killed. *)
Kill == SessionKilled /\ FeedKilled /\ RoundsKilled

Next == \/ SessionNext /\ UNCHANGED <<feedVars, roundVars>>
        \/ FeedNext    /\ UNCHANGED <<sessionVars, roundVars>>
        \/ RoundsNext  /\ UNCHANGED <<sessionVars, feedVars>>
        \/ \E event \in DOMAIN Field, r \in Rounds : Push(event, r)
        \/ Kill

Spec == Init /\ [][Next]_vars

----------------------------------------------------------------------------

(* round.service.ts:74-211: "the mobile timer is the operational           *)
(* authority".  The phone's row holds what the user asked for last and its *)
(* timer runs from the last start, whatever became of the POSTs (refused,  *)
(* lost, cut off by a kill, answered after the next call) and of the       *)
(* session.  Only calls whose local parts overlapped or were cut off leave *)
(* it open, until the next start.                                          *)
RowFollowsCalls ==
    \A r \in Rounds : r \notin torn /\ InLocalPart(r) = {} =>
      IF last[r] = None THEN local[r] = None
      ELSE local[r] = [status |-> Status[last[r].do], timer |-> last[r].n]
=============================================================================
