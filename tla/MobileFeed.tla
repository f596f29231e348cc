----------------------------- MODULE MobileFeed -----------------------------
(***************************************************************************)
(* The announcements on the phone: the local queue and the dispatcher of   *)
(* announcement.service.ts, AnnouncementOverlay.tsx with its sounds, and   *)
(* the two calls that tell the backend what became of an announcement,     *)
(* with their handlers in the backend's AnnouncementsService.              *)
(***************************************************************************)
EXTENDS MobileSession

CONSTANTS Anns,     \* announcements, numbered as they are scheduled
          Left,     \* bound: those that may be in the queue from before
          Voiced,   \* the ones that have a voiceUrl
          Critical, \* the ones whose tone is urgent or authoritative
          Ticks     \* runs of tick at a time

ASSUME MobileFeedAssumption ==
    Anns \subseteq Nat \ {0} /\ Critical \subseteq Anns /\ Voiced \subseteq Anns /\ Left \subseteq Anns

VARIABLES ann,      \* AnnouncementRow.status, or "absent"
          owner,    \* whose announcement it is, for the backend
          tick,     \* what each run of tick is about to do
          current,  \* the overlay's announcement, or Nobody
          acking,   \* acknowledge awaits markAcknowledged
          stopping, \* acknowledge awaits stopAnnouncementAudio
          loading,  \* the sounds being loaded
          active,   \* activeSound
          playing,  \* the sounds that are heard
          requests, \* the calls under way to the backend
          row,      \* the backend's row: deliveredAt and acknowledgedAt are set
          shown,    \* history: how often the overlay showed it
          astray,   \* history: its calls were lost, refused or overlapped
          stuck,    \* history: the sounds whose unloadAsync was rejected
          late      \* history: a sound was loaded after the overlay moved on

sounds == <<loading, active, playing, stuck, late>>
feedVars == <<ann, owner, tick, current, acking, stopping, sounds, requests, row, shown, astray>>

Nobody == 0

(* Announcements of whoever is signed in may be left in the queue. *)
FeedInit ==
    /\ \E left \in SUBSET (IF accounts = {} THEN {} ELSE Left) :
          /\ ann = [a \in Anns |-> IF a \in left THEN "queued" ELSE "absent"]
          /\ owner = [a \in Anns |-> IF a \in left THEN secure["auth.user"].user ELSE None]
    /\ tick = [t \in Ticks |-> Idle] /\ current = Nobody /\ acking = {} /\ stopping = {}
    /\ loading = {} /\ active = Nobody /\ playing = {} /\ stuck = {} /\ late = FALSE
    /\ requests = {} /\ row = [a \in Anns |-> {}]
    /\ shown = [a \in Anns |-> 0] /\ astray = {}

(* queueAnnouncement, with what the backend scheduled for the user. *)
QueueAnnouncement(a) ==
    /\ Called /\ auth = "authenticated" /\ ann[a] = "absent"
    /\ ann' = [ann EXCEPT ![a] = "queued"]
    /\ owner' = [owner EXCEPT ![a] = session.user]
    /\ UNCHANGED <<tick, current, acking, stopping, sounds, requests, row, shown, astray, faults>>

----------------------------------------------------------------------------
(* Sounds *)

(* activeSound is forgotten; its unloadAsync stops it or is rejected, and  *)
(* the rejection is swallowed.  What is awaited after it is another step.  *)
unloadActiveSound ==
    /\ active' = Nobody
    /\ \/ playing' = playing \ {active} /\ UNCHANGED <<stuck, faults>>
       \/ active \in playing /\ Fault /\ stuck' = stuck \cup {active} /\ UNCHANGED playing
    /\ UNCHANGED late

(* A fault for the runs: the audio effect does not clean up.               *)
OverlayFault(a) ==
    /\ current' = a
    /\ loading' = loading \cup ({a} \cap Voiced)
    /\ UNCHANGED <<active, playing, stuck, late, faults>>

(* Another announcement, or none, is on the overlay: the cleanup of the    *)
(* last audio effect, and the next effect's playAnnouncementAudio.         *)
Overlay(a) ==
    /\ current' = a
    /\ unloadActiveSound
    /\ loading' = loading \cup ({a} \cap Voiced)

(* createAsync resolves: whatever is on the overlay now, the sound plays.  *)
Loaded(a) ==
    /\ a \in loading /\ loading' = loading \ {a}
    /\ active' = a /\ playing' = playing \cup {a}
    /\ late' = (late \/ current # a)
    /\ UNCHANGED <<ann, owner, tick, current, acking, stopping, stuck, requests, row, shown,
                   astray, calls, faults>>

LoadFails(a) ==
    /\ a \in loading /\ loading' = loading \ {a}
    /\ UNCHANGED <<ann, owner, tick, current, acking, stopping, active, playing, stuck, late,
                   requests, row, shown, astray, calls, faults>>

(* didJustFinish: it is not heard any more. *)
SoundEnds(a) ==
    /\ a \in playing /\ playing' = playing \ {a}
    /\ UNCHANGED <<ann, owner, tick, current, acking, stopping, loading, active, stuck, late,
                   requests, row, shown, astray, calls, faults>>

(* Its unloadAsync has resolved or was rejected. *)
Forget(a) ==
    /\ active = a /\ a \notin playing
    /\ active' = Nobody
    /\ UNCHANGED <<ann, owner, tick, current, acking, stopping, loading, playing, stuck, late,
                   requests, row, shown, astray, calls, faults>>

----------------------------------------------------------------------------
(* notifyBackendPlayed and notifyBackendAcknowledged: once, if there is a  *)
(* token, and nobody looks at the answer.                                  *)
Notify(a, sets) ==
    /\ requests' = IF Bearer = None THEN requests
                   ELSE requests \cup {[at |-> "sent", a |-> a, sets |-> sets, by |-> Bearer.user]}
    /\ astray' = IF Bearer = None \/ \E q \in requests : q.a = a THEN astray \cup {a} ELSE astray

(* getNextQueued: ORDER BY scheduled_for LIMIT 1 *)
Queued == {a \in Anns : ann[a] = "queued"}
getNextQueued == {a \in Queued : \A b \in Queued : a <= b}

dispatching == \E t \in Ticks : tick[t] # Idle

(* A fault for the runs: a tick does not look at dispatching. *)
TickReadsFault(t) ==
    /\ tick[t] = Idle
    /\ \E a \in getNextQueued : tick' = [tick EXCEPT ![t] = [at |-> "mark", a |-> a]]
    /\ UNCHANGED <<ann, owner, current, acking, stopping, sounds, requests, row, shown, astray,
                   calls, faults>>

(* A tick that finds nothing leaves no trace. *)
TickReads(t) ==
    /\ ~dispatching
    /\ \E a \in getNextQueued : tick' = [tick EXCEPT ![t] = [at |-> "mark", a |-> a]]
    /\ UNCHANGED <<ann, owner, current, acking, stopping, sounds, requests, row, shown, astray,
                   calls, faults>>

TickMarks(t) ==
    /\ tick[t].at = "mark"
    /\ ann' = [ann EXCEPT ![tick[t].a] = "played"]
    /\ tick' = [tick EXCEPT ![t].at = "notify"]
    /\ UNCHANGED <<owner, current, acking, stopping, sounds, requests, row, shown, astray,
                   calls, faults>>

(* The overlay shows it, in place of what it showed, and the backend is    *)
(* told.                                                                   *)
TickNotifies(t) ==
    /\ tick[t].at = "notify"
    /\ Overlay(tick[t].a) /\ Notify(tick[t].a, "delivered")
    /\ shown' = [shown EXCEPT ![tick[t].a] = @ + 1]
    /\ tick' = [tick EXCEPT ![t] = Idle]
    /\ UNCHANGED <<ann, owner, acking, stopping, row, calls>>

(* markPlayed is rejected. *)
TickFails(t) ==
    /\ Fault /\ tick[t].at = "mark"
    /\ tick' = [tick EXCEPT ![t] = Idle]
    /\ UNCHANGED <<ann, owner, current, acking, stopping, sounds, requests, row, shown, astray,
                   calls>>

----------------------------------------------------------------------------
(* dismiss: by the countdown, or by the button, which a critical           *)
(* announcement does not have before.                                      *)
Dismiss(countdownOver) ==
    /\ current # Nobody /\ (countdownOver \/ current \notin Critical)
    /\ acking' = acking \cup {current}
    /\ Overlay(Nobody)
    /\ UNCHANGED <<ann, owner, tick, stopping, requests, row, shown, astray, calls>>

(* acknowledge: the row, and stopAnnouncementAudio, whatever plays now.    *)
Acknowledge(a) ==
    /\ a \in acking /\ acking' = acking \ {a}
    /\ ann' = [ann EXCEPT ![a] = "acknowledged"]
    /\ stopping' = stopping \cup {a}
    /\ unloadActiveSound
    /\ UNCHANGED <<owner, tick, current, loading, requests, row, shown, astray, calls>>

(* The backend is told when the sound has stopped, or could not be. *)
AcknowledgeNotifies(a) ==
    /\ a \in stopping /\ stopping' = stopping \ {a}
    /\ Notify(a, "acknowledged")
    /\ UNCHANGED <<ann, owner, tick, current, acking, sounds, row, shown, calls, faults>>

(* markAcknowledged is rejected. *)
AcknowledgeFails(a) ==
    /\ Fault /\ a \in acking /\ acking' = acking \ {a}
    /\ UNCHANGED <<ann, owner, tick, current, stopping, sounds, requests, row, shown, astray,
                   calls>>

----------------------------------------------------------------------------
(* The backend.  markAcknowledged asks whose announcement it is; neither   *)
(* does anything if the time is set already.                               *)
Load(q) ==
    /\ q \in requests /\ q.at = "sent"
    /\ LET refused == q.sets = "acknowledged" /\ owner[q.a] # q.by
           found   == [at |-> "save", a |-> q.a, sets |-> q.sets, row |-> row[q.a]]
       IN  /\ requests' = (requests \ {q}) \cup
                          (IF refused \/ q.sets \in row[q.a] THEN {} ELSE {found})
           /\ astray' = IF refused THEN astray \cup {q.a} ELSE astray
    /\ UNCHANGED <<ann, owner, tick, current, acking, stopping, sounds, row, shown, calls, faults>>

(* The row is saved as it was loaded, but for the one time. *)
Save(q) ==
    /\ q \in requests /\ q.at = "save" /\ requests' = requests \ {q}
    /\ row' = [row EXCEPT ![q.a] = q.row \cup {q.sets}]
    /\ UNCHANGED <<ann, owner, tick, current, acking, stopping, sounds, shown, astray, calls,
                   faults>>

Lost(q) ==
    /\ Fault /\ q \in requests /\ requests' = requests \ {q}
    /\ astray' = astray \cup {q.a}
    /\ UNCHANGED <<ann, owner, tick, current, acking, stopping, sounds, row, shown, calls>>

(* The process is killed: what it was about to show or to tell is gone. *)
FeedKilled ==
    /\ tick' = [t \in Ticks |-> Idle] /\ current' = Nobody /\ acking' = {} /\ stopping' = {}
    /\ loading' = {} /\ active' = Nobody /\ playing' = {} /\ stuck' = {} /\ late' = FALSE
    /\ astray' = astray \cup stopping
                 \cup {tick[t].a : t \in {t \in Ticks : tick[t].at = "notify"}}
    /\ UNCHANGED <<ann, owner, requests, row, shown>>

FeedNext ==
    \/ \E a \in Anns : \/ QueueAnnouncement(a)
                       \/ Loaded(a) \/ LoadFails(a) \/ SoundEnds(a) \/ Forget(a)
                       \/ Acknowledge(a) \/ AcknowledgeNotifies(a) \/ AcknowledgeFails(a)
    \/ \E t \in Ticks : TickReads(t) \/ TickMarks(t) \/ TickNotifies(t) \/ TickFails(t)
    \/ \E over \in BOOLEAN : Dismiss(over)
    \/ \E q \in requests : Load(q) \/ Save(q) \/ Lost(q)

----------------------------------------------------------------------------

(* announcement.service.ts:140-236, announcements.service.ts:107-146.  An  *)
(* announcement is shown at most once, acknowledged only after it was      *)
(* shown, and left out only by a kill after it was marked.  When nothing   *)
(* is under way the backend knows what became of it, unless one of its     *)
(* calls was lost, was never made because of a kill, had no valid token,   *)
(* was refused because somebody else had signed in, or overlapped the      *)
(* other one.                                                              *)
ShownOnce ==
    \A a \in Anns :
      LET between == \E t \in Ticks : tick[t].at = "notify" /\ tick[t].a = a
          told    == CASE ann[a] = "played" -> {"delivered"}
                       [] ann[a] = "acknowledged" ->
                            {"delivered"} \cup (IF a \in stopping THEN {} ELSE {"acknowledged"})
                       [] OTHER -> {}
      IN  /\ shown[a] <= 1
          /\ shown[a] = 1 => ann[a] \in {"played", "acknowledged"}
          /\ ann[a] = "acknowledged" => shown[a] = 1
          /\ ann[a] = "played" /\ ~between /\ a \notin astray => shown[a] = 1
          /\ ~between /\ a \notin astray /\ (\A q \in requests : q.a # a) => row[a] = told

(* announcement.service.ts:69-132.  The phone is silent when no            *)
(* announcement is shown or loading, and no sound is out of reach of       *)
(* stopAnnouncementAudio, unless it could not be unloaded, or a sound was  *)
(* loaded after the overlay had moved on.                                  *)
SoundsTracked ==
    ~late => /\ playing \subseteq {active} \cup stuck
             /\ active \in {Nobody, current}
----------------------------------------------------------------------------
(***************************************************************************)
(* The inductive invariant behind ShownOnce and SoundsTracked.             *)
(***************************************************************************)

Requests == [at : {"sent"}, a : Anns, sets : {"delivered", "acknowledged"}, by : Users]
              \cup [at : {"save"}, a : Anns, sets : {"delivered", "acknowledged"},
                     row : SUBSET {"delivered", "acknowledged"}]

FeedTyped ==
    /\ ann \in [Anns -> {"absent", "queued", "played", "acknowledged"}]
    /\ tick \in [Ticks -> {Idle} \cup [at : {"mark", "notify"}, a : Anns]]
    /\ current \in Anns \cup {Nobody} /\ {acking, stopping} \subseteq SUBSET Anns
    /\ {loading, playing, stuck} \subseteq SUBSET Anns
    /\ requests \subseteq Requests
    /\ row \in [Anns -> SUBSET {"delivered", "acknowledged"}]
    /\ shown \in [Anns -> Nat] /\ astray \subseteq Anns /\ late \in BOOLEAN

(* The one tick that is dispatching, and how far it got.                   *)
Dispatch ==
    /\ \A t, u \in Ticks : tick[t] # Idle /\ tick[u] # Idle => t = u
    /\ \A t \in Ticks : tick[t].at = "mark" => ann[tick[t].a] = "queued"
    /\ \A t \in Ticks : tick[t].at = "notify" => ann[tick[t].a] = "played" /\ shown[tick[t].a] = 0

Between(a) == \E t \in Ticks : tick[t].at = "notify" /\ tick[t].a = a

(* Shown, dismissed and acknowledged in this order, each of them once.     *)
Shows ==
    /\ \A a \in Anns : /\ shown[a] \in {0, 1}
                       /\ shown[a] = 1 => ann[a] \in {"played", "acknowledged"}
                       /\ ann[a] = "acknowledged" => shown[a] = 1
                       /\ ann[a] = "played" /\ ~Between(a) /\ a \notin astray => shown[a] = 1
    /\ current \notin acking
    /\ \A a \in Anns : a = current \/ a \in acking => ann[a] = "played" /\ shown[a] = 1
    /\ \A a \in stopping : ann[a] = "acknowledged"

(* What the backend has been told of a, and what it will be told by the    *)
(* one call that is on.                                                    *)
Told(a) ==
    /\ \A q, p \in requests : q.a = a /\ p.a = a => q = p
    /\ \A q \in requests : q.a = a =>
          /\ IF q.sets = "delivered" THEN (ann[a] = "played" \/ a \in stopping) /\ row[a] = {}
             ELSE ann[a] = "acknowledged" /\ a \notin stopping /\ row[a] = {"delivered"}
          /\ q.at = "save" => q.row = row[a]
          /\ ~Between(a)
    /\ (\A q \in requests : q.a # a) =>
          row[a] = IF ann[a] \in {"absent", "queued"} \/ Between(a) THEN {}
                   ELSE IF ann[a] = "played" \/ a \in stopping THEN {"delivered"}
                   ELSE {"delivered", "acknowledged"}

FeedInv == /\ FeedTyped /\ Dispatch /\ Shows /\ SoundsTracked
           /\ \A a \in Anns \ astray : Told(a)
=============================================================================
