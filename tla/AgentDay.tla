------------------------------ MODULE AgentDay ------------------------------
(***************************************************************************)
(* What the desktop agent makes of a day at the computer: the collectors   *)
(* that poll the front application, the idle time and the processes, the   *)
(* git hook, the tray's pause switch and counters, the classifier's rules  *)
(* and the metrics of a window (packages/desktop-agent/internal/           *)
(* {collectors,classifier,aggregator,roundcontext,tray}).                  *)
(*                                                                         *)
(* Time is counted in minutes; a sample is what the machine shows at the   *)
(* end of one.  The pollers tick every few seconds: each sees every        *)
(* sample, unless its lookup fails.  They share nothing, so they look at   *)
(* it in one order, and whatever else happens in a minute happens before   *)
(* or after that.  The Store's calls one by one, and the upload, are the   *)
(* business of AgentPipeline.                                              *)
(***************************************************************************)
EXTENDS Sums, FiniteSets, SequencesExt

CONSTANTS
  Window,    \* minutes of an aggregation window
  Threshold, \* minutes without input that count as idle
  Apps,      \* applications the user may have in front
  Horizon,   \* bound: minutes of a day
  MaxFaults, \* bound: how often something goes wrong
  MaxHooks   \* bound: commits, and samples in which the watched process runs

ASSUME DayAssumption ==
  /\ Window \in Nat \ {0} /\ Threshold \in Nat \ {0}
  /\ Horizon \in Nat /\ MaxFaults \in Nat /\ MaxHooks \in Nat

VARIABLES
  day,        \* the samples so far
  due,        \* pollers that have not looked at the last sample yet
  front,      \* WindowCollector: the application in front, and since when
  inIdle,     \* IdleCollector
  seen,       \* TerminalCollector: a watched process has been seen running
  paused,     \* the tray's switch
  events,     \* raw_events, in the order of their ids
  classified, \* how many of them the classifier worker has dealt with
  windowEnd,  \* Aggregator.Run: the next window
  batches,    \* the windows queued for upload
  counters,   \* the tray's counters
  hooks,      \* history: commits
  base,       \* history: batches queued by earlier processes
  recounts,   \* history: windows of this process counted, and not queued
  troubled,   \* history: windows in which something was dropped, late or lost
  faults      \* faults so far

collectors == <<due, front, inIdle, seen>>
aggregator == <<windowEnd, batches, counters, recounts>>
dayVars == <<day, collectors, paused, events, classified, aggregator, hooks, base, troubled, faults>>

now == Len(day) - 1
Sample == day[Len(day)]
WindowAt(minute) == minute \div Window

Pollers == <<"window", "idle", "terminal">>
NoFront == [app |-> "", since |-> 0]
NoCounters == [windows |-> 0, focus |-> 0, distractions |-> 0, commits |-> 0]
RawEvent ==
  [at : Nat, type : {"app_switched", "idle_detected", "idle_ended", "terminal_activity", "git_commit"},
   subject : Apps \cup {""}, focus : Nat]
Event(type, subject, focus) == [at |-> now, type |-> type, subject |-> subject, focus |-> focus]

DayInit ==
  /\ \E app \in Apps : day = <<[app |-> app, idle |-> 0, running |-> FALSE]>>
  /\ due = Pollers /\ front = NoFront /\ inIdle = FALSE /\ seen = FALSE
  /\ paused = FALSE
  /\ events = <<>> /\ classified = 0
  /\ windowEnd = 0 /\ batches = <<>> /\ counters = NoCounters
  /\ hooks = 0 /\ base = 0 /\ recounts = 0 /\ troubled = {} /\ faults = 0
-----------------------------------------------------------------------------
(* The rules.  A name matches a keyword that is a part of it, and the      *)
(* keyword x is a part of Firefox.                                         *)

productiveApps == {"xcode", "code"}
communicationApps == {"slack"}
distractionApps == {"youtube", "x"}
Inside == {<<"youtube - chrome", "youtube">>, <<"firefox", "x">>, <<"vscodium code", "code">>}
Names(app, keyword) == app = keyword \/ <<app, keyword>> \in Inside

classifyApp(app) ==
  CASE app \in productiveApps                          -> "development"
    [] app \in communicationApps                       -> "communication"
    [] \E keyword \in distractionApps : Names(app, keyword) -> "distraction"
    [] \E keyword \in productiveApps : Names(app, keyword)  -> "development"
    [] OTHER                                           -> "neutral"

Classify(e) ==
  CASE e.type = "app_switched"                        -> classifyApp(e.subject)
    [] e.type \in {"idle_detected", "idle_ended"}     -> "neutral"
    [] e.type \in {"terminal_activity", "git_commit"} -> "development"
-----------------------------------------------------------------------------
Idling == [in : BOOLEAN, start : Int, sum : Int]

(* Fault: a second detection moves the beginning of the idle period, and   *)
(* an end without a beginning counts from the beginning of the window.     *)
idleStepFault(acc, e) ==
  CASE e.type = "idle_detected" -> [in |-> TRUE, start |-> e.at, sum |-> acc.sum]
    [] e.type = "idle_ended"    -> [in |-> FALSE, start |-> acc.start, sum |-> acc.sum + e.at - acc.start]
    [] OTHER                    -> acc

idleStep(acc, e) ==
  CASE e.type = "idle_detected" /\ ~acc.in -> [in |-> TRUE, start |-> e.at, sum |-> acc.sum]
    [] e.type = "idle_ended" /\ acc.in ->
         [in |-> FALSE, start |-> acc.start, sum |-> acc.sum + e.at - acc.start]
    [] OTHER -> acc

(* The pass of idleTime over the events in ids; the others are none to it. *)
NoEvent == [type |-> "none"]
Picked(ids) == [i \in DOMAIN events |-> IF i \in ids THEN events[i] ELSE NoEvent]
idlePass(w, ids) ==
  Folded([acc \in Idling |-> [e \in RawEvent \cup {NoEvent} |-> idleStep(acc, e)]],
         [in |-> FALSE, start |-> w * Window, sum |-> 0], Picked(ids))

idleTime(w, ids) ==
  LET end == idlePass(w, ids)
  IN  end.sum + IF end.in THEN (w + 1) * Window - end.start ELSE 0

(* The poller keeps the answer of GET /rounds/current; an answer without a *)
(* roundId is no active round.  The backend's answer names the round id,   *)
(* so none is ever known, however fresh the answer.                        *)
fetchedRoundID == ""
Active == fetchedRoundID # ""
Current == IF Active THEN fetchedRoundID ELSE ""

OfType(type, ids) == {i \in ids : events[i].type = type}
FocusIn(ids) == SumOf([i \in DOMAIN events |-> IF i \in ids THEN events[i].focus ELSE 0])

computeMetrics(w, ids) ==
  LET switches == OfType("app_switched", ids)
      classedAs(category) == {i \in switches : Classify(events[i]) = category}
  IN  [window       |-> w,
       focus        |-> FocusIn(switches),
       idle         |-> idleTime(w, ids),
       productive   |-> {events[i].subject : i \in classedAs("development")},
       distractions |-> Cardinality(classedAs("distraction")),
       commits      |-> Cardinality(OfType("git_commit", ids)),
       commands     |-> Cardinality(OfType("terminal_activity", ids)),
       round        |-> Current]

Counted(m) ==
  [windows      |-> counters.windows + 1,
   focus        |-> counters.focus + m.focus,
   distractions |-> counters.distractions + m.distractions,
   commits      |-> counters.commits + m.commits]
-----------------------------------------------------------------------------
Runs == Cardinality({t \in DOMAIN day : day[t].running})

(* A minute passes.  The user gives the machine some input at the end of   *)
(* it or not; another application, or a new process, takes some.           *)
Minute ==
  /\ now < Horizon
  /\ \E app \in Apps, input, running \in BOOLEAN :
       /\ ~input => app = Sample.app
       /\ running => Runs + hooks < MaxHooks /\ (input \/ Sample.running)
       /\ day' = Append(day, [app |-> app, running |-> running,
                              idle |-> IF input THEN 0 ELSE Sample.idle + 1])
  /\ due' = Pollers
  /\ UNCHANGED <<front, inIdle, seen, paused, events, classified, aggregator, hooks, base, troubled, faults>>

Trouble == troubled' = troubled \cup {WindowAt(now)}

Strike == faults < MaxFaults /\ faults' = faults + 1 /\ Trouble

(* PausableSink: an event is dropped while collection is paused.  A failed *)
(* insert is only logged.                                                  *)
Submit(e) ==
  IF paused
    THEN Trouble /\ UNCHANGED <<events, faults>>
    ELSE \/ events' = Append(events, e) /\ UNCHANGED <<troubled, faults>>
         \/ Strike /\ UNCHANGED events

NoSubmit == UNCHANGED <<events, troubled, faults>>

Polled(poller) ==
  /\ due # <<>> /\ Head(due) = poller /\ due' = Tail(due)
  /\ UNCHANGED <<day, paused, classified, aggregator, hooks, base>>

(* The lookup fails or times out: the poller leaves this sample out. *)
LookupFails ==
  \E poller \in ToSet(Pollers) :
    /\ Polled(poller) /\ Strike
    /\ UNCHANGED <<front, inIdle, seen, events>>

(* Fault: the beginning of the new application's focus is not noted. *)
PollWindowFault ==
  /\ Polled("window")
  /\ IF front.app = "" THEN front' = [app |-> Sample.app, since |-> now] /\ NoSubmit
     ELSE IF front.app # Sample.app
       THEN /\ Submit(Event("app_switched", Sample.app, now - front.since))
            /\ front' = [front EXCEPT !.app = Sample.app]
     ELSE NoSubmit /\ UNCHANGED front
  /\ UNCHANGED <<inIdle, seen>>

PollWindow ==
  /\ Polled("window")
  /\ \/ front.app = Sample.app /\ NoSubmit
     \/ front.app = "" /\ NoSubmit
     \/ /\ front.app \notin {"", Sample.app}
        /\ Submit(Event("app_switched", Sample.app, now - front.since))
  /\ front' = IF front.app = Sample.app THEN front ELSE [app |-> Sample.app, since |-> now]
  /\ UNCHANGED <<inIdle, seen>>

PollIdle ==
  /\ Polled("idle")
  /\ \/ /\ ~inIdle /\ Sample.idle >= Threshold
        /\ inIdle' = TRUE
        /\ Submit(Event("idle_detected", "", 0))
     \/ /\ inIdle /\ Sample.idle = 0
        /\ inIdle' = FALSE
        /\ Submit(Event("idle_ended", "", 0))
     \/ /\ IF inIdle THEN Sample.idle > 0 ELSE Sample.idle < Threshold
        /\ NoSubmit /\ UNCHANGED inIdle
  /\ UNCHANGED <<front, seen>>

(* An event the first time a process is seen; one that has gone is dropped *)
(* from the list.                                                          *)
PollTerminal ==
  /\ Polled("terminal")
  /\ IF Sample.running /\ ~seen
       THEN Submit(Event("terminal_activity", "", 0))
       ELSE NoSubmit
  /\ seen' = Sample.running
  /\ UNCHANGED <<front, inIdle>>

GitEvent ==
  /\ Runs + hooks < MaxHooks /\ hooks' = hooks + 1
  /\ Submit(Event("git_commit", "", 0))
  /\ UNCHANGED <<day, collectors, paused, classified, aggregator, base>>

(* Pause Collection, Resume Collection. *)
TogglePause ==
  /\ faults < MaxFaults /\ faults' = faults + 1
  /\ paused' = ~paused
  /\ UNCHANGED <<day, collectors, events, classified, aggregator, hooks, base, troubled>>

(* One tick of the classifier worker. *)
ClassifyPending ==
  /\ classified < Len(events) /\ classified' = Len(events)
  /\ UNCHANGED <<day, collectors, paused, events, aggregator, hooks, base, troubled, faults>>
-----------------------------------------------------------------------------
EventsOf(w) == {i \in DOMAIN events : WindowAt(events[i].at) = w}
FetchClassifiedSince(w) == {i \in EventsOf(w) : i <= classified}

(* A window that lacks events when it is aggregated lacks them for ever. *)
NoteLate ==
  troubled' = troubled \cup IF FetchClassifiedSince(windowEnd) # EventsOf(windowEnd) THEN {windowEnd} ELSE {}

(* Fault: the counters are raised when the batch has been stored, in the   *)
(* branch that has also marked its events.                                 *)
AggregateWindowFault ==
  LET m == computeMetrics(windowEnd, FetchClassifiedSince(windowEnd)) IN
  /\ WindowAt(now) > windowEnd /\ FetchClassifiedSince(windowEnd) # {}
  /\ batches' = Append(batches, m)
  /\ windowEnd' = windowEnd + 1
  /\ \/ counters' = Counted(m) /\ UNCHANGED faults
     \/ faults < MaxFaults /\ faults' = faults + 1 /\ UNCHANGED counters
  /\ NoteLate
  /\ UNCHANGED <<day, collectors, paused, events, classified, recounts, hooks, base>>

(* The counters are raised before the batch is stored: when it cannot be,  *)
(* the next tick takes the window again, with the events it then has.      *)
AggregateWindow ==
  LET m == computeMetrics(windowEnd, FetchClassifiedSince(windowEnd)) IN
  /\ WindowAt(now) > windowEnd /\ FetchClassifiedSince(windowEnd) # {}
  /\ counters' = Counted(m)
  /\ \/ /\ batches' = Append(batches, m)
        /\ windowEnd' = windowEnd + 1
        /\ NoteLate
        /\ UNCHANGED <<recounts, faults>>
     \/ /\ faults < MaxFaults /\ faults' = faults + 1
        /\ recounts' = recounts + 1
        /\ UNCHANGED <<batches, windowEnd, troubled>>
  /\ UNCHANGED <<day, collectors, paused, events, classified, hooks, base>>

SkipWindow ==
  /\ WindowAt(now) > windowEnd /\ FetchClassifiedSince(windowEnd) = {}
  /\ windowEnd' = windowEnd + 1
  /\ NoteLate
  /\ UNCHANGED <<day, collectors, paused, events, classified, batches, counters, recounts, hooks, base, faults>>

(* The process is started again.  What the collectors knew is forgotten,   *)
(* the counters begin at zero, the aggregator with the present window.     *)
Restart ==
  /\ Strike
  /\ due' = Pollers /\ front' = NoFront /\ inIdle' = FALSE /\ seen' = FALSE
  /\ paused' = FALSE
  /\ windowEnd' = WindowAt(now)
  /\ counters' = NoCounters /\ recounts' = 0 /\ base' = Len(batches)
  /\ UNCHANGED <<day, events, classified, batches, hooks>>

Poll == PollWindow \/ PollIdle \/ PollTerminal \/ LookupFails
DayNext ==
  \/ Poll
  \/ due = <<>> /\ (\/ Minute \/ GitEvent \/ TogglePause \/ Restart
                    \/ ClassifyPending \/ AggregateWindow \/ SkipWindow)

DaySpec == DayInit /\ [][DayNext]_dayVars
-----------------------------------------------------------------------------
Sum(field, from) == SumOf([i \in 1..(Len(batches) - from) |-> batches[from + i][field]])

MinutesOf(w) == {t \in w * Window..(w + 1) * Window - 1 : t <= now}
IdleAt(t) == day[t + 1].idle >= Threshold

(* Minutes of window w that belong to an idle period noticed in it. *)
IdleWithin(w) ==
  {t \in MinutesOf(w) : \E s \in MinutesOf(w) :
     /\ s <= t /\ \A u \in s..t : IdleAt(u)
     /\ s = 0 \/ ~IdleAt(s - 1)}

(* Minutes at the end of which a process was there that was not before. *)
Launches == {t \in 0..now : day[t + 1].running /\ (t > 0 => ~day[t].running)}

IdleIsTold(b) ==
  LET w == batches[b].window IN
  w \notin troubled =>
    /\ batches[b].idle <= Cardinality({t \in MinutesOf(w) : IdleAt(t)})
    /\ (\A v \in troubled : v > w) => batches[b].idle = Cardinality(IdleWithin(w))

OpenFocus == IF front.app = "" THEN 0 ELSE now - front.since

(* SAFETY.  The windows tell no more than the day had.  A window in which  *)
(* nothing was dropped, late or lost counts no more idle minutes than the  *)
(* user was idle in it, and as long as nothing ever was, exactly those of  *)
(* the idle periods noticed in it (one that began in an earlier window is  *)
(* not counted); all windows together count no more focus than time that   *)
(* has passed, and no process or commit twice.                             *)
DayIsNotInflated ==
  /\ \A b \in DOMAIN batches : IdleIsTold(b)
  /\ Sum("focus", 0) + OpenFocus <= now
  /\ faults = 0 => Sum("commands", 0) <= Cardinality(Launches)
  /\ Sum("commits", 0) <= hooks

(* SAFETY.  The tray shows what this process has queued, and more only for *)
(* a window it had to take again.                                          *)
CountersCoverBatches ==
  /\ counters.windows = Len(batches) - base + recounts
  /\ \A field \in {"focus", "distractions", "commits"} :
       /\ counters[field] >= Sum(field, base)
       /\ recounts = 0 => counters[field] = Sum(field, base)
-----------------------------------------------------------------------------
(* TYPE. *)
Batch ==
  [window : Nat, focus : Int, idle : Int, productive : SUBSET (Apps \cup {""}),
   distractions : Nat, commits : Nat, commands : Nat, round : {""}]

Shown == [app : Apps, idle : Nat, running : BOOLEAN]

DayType ==
  /\ day \in Seq(Shown) /\ day # <<>>
  /\ due \in {Pollers, <<"idle", "terminal">>, <<"terminal">>, <<>>}
  /\ front \in [app : Apps \cup {""}, since : 0..now]
  /\ inIdle \in BOOLEAN /\ seen \in BOOLEAN /\ paused \in BOOLEAN
  /\ events \in Seq(RawEvent) /\ classified \in 0..Len(events)
  /\ windowEnd \in Nat /\ batches \in Seq(Batch)
  /\ counters \in [windows : Nat, focus : Int, distractions : Nat, commits : Nat]
  /\ hooks \in Nat /\ base \in 0..Len(batches) /\ recounts \in Nat
  /\ troubled \subseteq Nat /\ faults \in Nat

(* Events are not later than the present, batches of windows before the    *)
(* next one; a minute without input follows another one or begins.         *)
TimesInOrder ==
  /\ windowEnd <= WindowAt(now)
  /\ \A i \in DOMAIN events : events[i].at <= now
  /\ \A b \in DOMAIN batches : batches[b].window < windowEnd
  /\ \A t \in 1..now : day[t + 1].idle \in {0, day[t].idle + 1}

Before(w) == {i \in DOMAIN events : WindowAt(events[i].at) < w}
SeenByTerminal == now + IF due = <<>> THEN 1 ELSE 0

(* What the batches count is in the events of the windows before the next  *)
(* one, and what the events tell is in the day.                            *)
BatchesAreEvents ==
  /\ Sum("focus", 0) <= FocusIn(Before(windowEnd))
  /\ Sum("commands", 0) <= Cardinality(OfType("terminal_activity", Before(windowEnd)))
  /\ Sum("commits", 0) <= Cardinality(OfType("git_commit", Before(windowEnd)))

EventsAreDay ==
  /\ FocusIn(DOMAIN events) + OpenFocus <= now
  /\ Cardinality(OfType("git_commit", DOMAIN events)) <= hooks
  /\ faults = 0 =>
       /\ Cardinality(OfType("terminal_activity", DOMAIN events)) <=
             Cardinality({t \in Launches : t < SeenByTerminal})
       /\ seen <=> SeenByTerminal > 0 /\ day[SeenByTerminal].running

(* The idle poller has seen the minutes of window w before this one.       *)
SeenByIdle(w) ==
  IF w < WindowAt(now) THEN (w + 1) * Window
  ELSE now + IF due \in {Pollers, <<"idle", "terminal">>} THEN 0 ELSE 1

(* What the events of window w say of its idle time, as far as they go: an *)
(* open period lies in the window, and is known to the poller; together    *)
(* with the closed ones it counts idle minutes only, and without trouble   *)
(* up to here all those of the periods that began in the window.           *)
IdleIsKnown(w) ==
  LET acc == idlePass(w, EventsOf(w))
      until == SeenByIdle(w)
      noted == acc.sum + IF acc.in THEN until - acc.start ELSE 0
  IN  /\ acc.in =>
           /\ w * Window <= acc.start /\ acc.start < until
           /\ \A t \in acc.start..(until - 1) : IdleAt(t)
           /\ w = WindowAt(now) => inIdle
      /\ noted <= Cardinality({t \in MinutesOf(w) : t < until /\ IdleAt(t)})
      /\ (\A v \in troubled : v > w) =>
           /\ noted = Cardinality({t \in IdleWithin(w) : t < until})
           /\ acc.in <=> until - 1 \in IdleWithin(w)
           /\ w = WindowAt(now) => (inIdle <=> until > 0 /\ IdleAt(until - 1))

(* The inductive invariant. *)
DayInv ==
  /\ DayType /\ TimesInOrder /\ BatchesAreEvents /\ EventsAreDay /\ CountersCoverBatches
  /\ \A w \in 0..WindowAt(now) : w \notin troubled => IdleIsKnown(w)
  /\ \A b \in DOMAIN batches : IdleIsTold(b)
=============================================================================
