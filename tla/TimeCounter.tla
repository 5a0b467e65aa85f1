---------------------------- MODULE TimeCounter ----------------------------
(***************************************************************************)
(* TimeCounter, the one thread behind all Timers, with one-shot events (of *)
(* batchers) and loop events (of the performance printers).  Each timer is *)
(* used by a thread of its own.  A handle is the address of an event, and  *)
(* an address may be given out again.  An event may be due at any moment.  *)
(* Batcher looks at one timer and at what its event does.                  *)
(***************************************************************************)
EXTENDS Integers, FiniteSets

CONSTANTS
  Timers, LoopTimers,  \* timers, and those started with NotifyEvery
  EventAddrs,          \* heap addresses of events, from 1
  MaxStarts            \* bound on the calls of Start

ASSUME TimeCounterConstants ==
  /\ LoopTimers \subseteq Timers /\ EventAddrs \subseteq Nat \ {0} /\ MaxStarts \in Nat
  /\ "none" \notin Timers

VARIABLES
  heap,       \* what is at an address: TimeEvent or NoEvent
  events_,    \* addresses in the multiset
  timer_id_,  \* of each timer
  tpc, tevent,  \* of each timer's thread: where it is, the event in its hand
  lpc, levent,  \* of the thread in Loop
  alive,      \* TimeCounter::running_
  exitpc,     \* ~TimeCounter
  starts,     \* calls of Start
  mistaken    \* history: <<by, whose>> for events removed by another timer

timerVars == <<heap, events_, timer_id_, tpc, tevent, lpc, levent, alive, exitpc, starts, mistaken>>

NoEvent == [timer |-> "none"]
NewEvent(t) == [timer |-> t, loop |-> t \in LoopTimers, notifying |-> FALSE]

TimeCounterInit ==
  /\ heap = [a \in EventAddrs |-> NoEvent] /\ events_ = {}
  /\ timer_id_ = [t \in Timers |-> 0]
  /\ tpc = [t \in Timers |-> "idle"] /\ tevent = [t \in Timers |-> 0]
  /\ lpc = "top" /\ levent = 0 /\ alive = TRUE /\ exitpc = "no"
  /\ starts = 0 /\ mistaken = {}

\* mutex_ is held over a step by a spinning Remove and by a wait that is about to sleep.
TimerMutexFree == lpc # "doze" /\ \A t \in Timers : tpc[t] # "spin"

NotifyCounter == lpc' = IF lpc = "asleep" THEN "top" ELSE lpc

-----------------------------------------------------------------------------
(* Timer::Start *)

\* TimeCounter::Add for a timer that is Idle ...
AddEvent(t, a) ==
  /\ tpc[t] = "idle" /\ exitpc = "no" /\ timer_id_[t] = 0 /\ starts < MaxStarts
  /\ TimerMutexFree /\ heap[a] = NoEvent
  /\ heap' = [heap EXCEPT ![a] = NewEvent(t)] /\ events_' = events_ \cup {a}
  /\ tpc' = [tpc EXCEPT ![t] = "added"] /\ tevent' = [tevent EXCEPT ![t] = a]
  /\ starts' = starts + 1
  /\ UNCHANGED <<timer_id_, lpc, levent, alive, exitpc, mistaken>>

\* ... cond_.notify_one ...
NotifyAdded(t) ==
  /\ tpc[t] = "added"
  /\ NotifyCounter
  /\ tpc' = [tpc EXCEPT ![t] = "store"]
  /\ UNCHANGED <<heap, events_, timer_id_, tevent, levent, alive, exitpc, starts, mistaken>>

\* ... and the handle, by when the event may be over.
StoreTimerId(t) ==
  /\ tpc[t] = "store"
  /\ timer_id_' = [timer_id_ EXCEPT ![t] = tevent[t]]
  /\ tpc' = [tpc EXCEPT ![t] = "idle"]
  /\ UNCHANGED <<heap, events_, tevent, lpc, levent, alive, exitpc, starts, mistaken>>

-----------------------------------------------------------------------------
(* Timer::Cancel, also from ~Timer *)

LoadTimerId(t) ==
  /\ tpc[t] = "idle" /\ exitpc = "no" /\ timer_id_[t] # 0
  /\ tevent' = [tevent EXCEPT ![t] = timer_id_[t]]
  /\ tpc' = [tpc EXCEPT ![t] = "remove"]
  /\ UNCHANGED <<heap, events_, timer_id_, lpc, levent, alive, exitpc, starts, mistaken>>

\* delete *e; events_.erase(e)
Erase(t, a) ==
  /\ heap' = [heap EXCEPT ![a] = NoEvent] /\ events_' = events_ \ {a}
  /\ mistaken' = IF heap[a].timer = t THEN mistaken ELSE mistaken \cup {<<t, heap[a].timer>>}
  /\ tpc' = [tpc EXCEPT ![t] = "removed"]

\* Mutant: a notifier that runs is not waited for.
RemoveEventAtOnce(t) ==
  LET a == tevent[t] IN
  /\ tpc[t] = "remove" /\ TimerMutexFree
  /\ \/ a \in events_ /\ Erase(t, a)
     \/ a \notin events_ /\ tpc' = [tpc EXCEPT ![t] = "removed"] /\ UNCHANGED <<heap, events_, mistaken>>
  /\ UNCHANGED <<timer_id_, tevent, lpc, levent, alive, exitpc, starts>>

\* TimeCounter::Remove of whatever has this address; it spins with mutex_ held
\* while a loop event is notified.  A one-shot event is not in events_ by then.
RemoveEvent(t) ==
  LET a == tevent[t] IN
  /\ tpc[t] = "remove" /\ TimerMutexFree
  /\ \/ a \in events_ /\ ~heap[a].notifying /\ Erase(t, a)
     \/ /\ a \in events_ /\ heap[a].notifying
        /\ tpc' = [tpc EXCEPT ![t] = "spin"] /\ UNCHANGED <<heap, events_, mistaken>>
     \/ a \notin events_ /\ tpc' = [tpc EXCEPT ![t] = "removed"] /\ UNCHANGED <<heap, events_, mistaken>>
  /\ UNCHANGED <<timer_id_, tevent, lpc, levent, alive, exitpc, starts>>

RemoveSpun(t) ==
  /\ tpc[t] = "spin" /\ ~heap[tevent[t]].notifying
  /\ Erase(t, tevent[t])
  /\ UNCHANGED <<timer_id_, tevent, lpc, levent, alive, exitpc, starts>>

FinishCancel(t) ==
  /\ tpc[t] = "removed"
  /\ NotifyCounter
  /\ timer_id_' = [timer_id_ EXCEPT ![t] = 0]
  /\ tpc' = [tpc EXCEPT ![t] = "idle"]
  /\ UNCHANGED <<heap, events_, tevent, levent, alive, exitpc, starts, mistaken>>

\* ~Timer of a timer that is Idle, now or after Cancel.
DestroyTimer(t) ==
  /\ tpc[t] = "idle" /\ timer_id_[t] = 0
  /\ tpc' = [tpc EXCEPT ![t] = "dead"]
  /\ UNCHANGED <<heap, events_, timer_id_, tevent, lpc, levent, alive, exitpc, starts, mistaken>>

-----------------------------------------------------------------------------
(* TimeCounter::Loop *)

loop_only == <<timer_id_, tpc, tevent, alive, exitpc, starts, mistaken>>

\* Nothing to wait for: the predicate is false, and the thread goes to sleep.
LoopWait ==
  /\ lpc = "top" /\ TimerMutexFree /\ events_ = {}
  /\ lpc' = IF alive THEN "doze" ELSE "exit"
  /\ UNCHANGED <<heap, events_, levent, loop_only>>

\* cond_.wait releases mutex_; it may return by itself.
LoopSleep ==
  /\ \/ lpc = "doze" /\ lpc' = "asleep"
     \/ lpc = "asleep" /\ lpc' = "top"
  /\ UNCHANGED <<heap, events_, levent, loop_only>>

LoopExit ==
  /\ lpc = "top" /\ ~alive
  /\ lpc' = "exit"
  /\ UNCHANGED <<heap, events_, levent, loop_only>>

\* An event is due: a loop event stays in events_.
LoopFire(a) ==
  /\ lpc = "top" /\ TimerMutexFree /\ a \in events_
  /\ heap' = [heap EXCEPT ![a].notifying = TRUE]
  /\ events_' = IF heap[a].loop THEN events_ ELSE events_ \ {a}
  /\ lpc' = "notifier" /\ levent' = a
  /\ UNCHANGED loop_only

\* The task of Timer::Start: a one-shot timer becomes idle, whatever it holds now.
LoopTask ==
  /\ lpc = "notifier"
  /\ timer_id_' = IF heap[levent].loop THEN timer_id_ ELSE [timer_id_ EXCEPT ![heap[levent].timer] = 0]
  /\ lpc' = "notified"
  /\ UNCHANGED <<heap, events_, levent, tpc, tevent, alive, exitpc, starts, mistaken>>

LoopNotified ==
  /\ lpc = "notified"
  /\ heap' = [heap EXCEPT ![levent].notifying = FALSE]
  /\ lpc' = IF heap[levent].loop THEN "top" ELSE "delete"
  /\ UNCHANGED <<events_, levent, loop_only>>

LoopDelete ==
  /\ lpc = "delete"
  /\ heap' = [heap EXCEPT ![levent] = NoEvent]
  /\ lpc' = "top"
  /\ UNCHANGED <<events_, levent, loop_only>>

-----------------------------------------------------------------------------
(* ~TimeCounter, at the end of the program *)

ExitStop ==
  /\ exitpc = "no" /\ \A t \in Timers : tpc[t] \in {"idle", "dead"}
  /\ alive' = FALSE /\ exitpc' = "notify"
  /\ UNCHANGED <<heap, events_, timer_id_, tpc, tevent, lpc, levent, starts, mistaken>>

\* Without mutex_: a loop that dozes will sleep.
ExitNotify ==
  /\ exitpc = "notify"
  /\ NotifyCounter
  /\ exitpc' = "join"
  /\ UNCHANGED <<heap, events_, timer_id_, tpc, tevent, levent, alive, starts, mistaken>>

ExitJoin ==
  /\ exitpc = "join" /\ lpc = "exit"
  /\ heap' = [a \in EventAddrs |-> IF a \in events_ THEN NoEvent ELSE heap[a]] /\ events_' = {}
  /\ exitpc' = "dead"
  /\ UNCHANGED <<timer_id_, tpc, tevent, lpc, levent, alive, starts, mistaken>>

TimeCounterNext ==
  \/ \E t \in Timers : \/ \E a \in EventAddrs : AddEvent(t, a)
                       \/ NotifyAdded(t) \/ StoreTimerId(t) \/ LoadTimerId(t) \/ RemoveEvent(t)
                       \/ RemoveSpun(t) \/ FinishCancel(t) \/ DestroyTimer(t)
  \/ \E a \in EventAddrs : LoopFire(a)
  \/ LoopWait \/ LoopSleep \/ LoopExit \/ LoopTask \/ LoopNotified \/ LoopDelete
  \/ ExitStop \/ ExitNotify \/ ExitJoin

TimeCounterSpec == TimeCounterInit /\ [][TimeCounterNext]_timerVars

-----------------------------------------------------------------------------
(* Properties *)

\* The loop never calls, or clears the flag of, an event that a Remove, with a
\* handle of its own or a stale one, has deleted.
NotifiedAlive == lpc \in {"notifier", "notified", "delete"} => heap[levent] # NoEvent

\* The notifier of a loop timer runs only while its timer holds the event, or is
\* about to: once Cancel or ~Timer returned, ~Session may free what it reads.
LoopTimerQuiet ==
  lpc = "notifier" /\ heap[levent].loop =>
    LET t == heap[levent].timer IN
    timer_id_[t] = levent \/ (tpc[t] \in {"added", "store"} /\ tevent[t] = levent)

\* The notification of Add is not lost: the thread never sleeps without a limit over
\* an event nobody is about to announce.
AddNoticed == lpc = "asleep" /\ events_ # {} => \E t \in Timers : tpc[t] = "added"

\* A handle of a loop timer is never stale.  The handle of a one-shot timer may be,
\* when its event was over before Start stored it, and then Cancel may remove the
\* event of another timer at the same address; a loop timer does so only after
\* that was done to itself.
LoopHandleFresh ==
  \A m \in mistaken : m[1] \in LoopTimers => \E n \in mistaken : n[2] = m[1]

\* An event that was not removed is in the heap as long as it is in events_, and
\* at the end of the program no event is left over but one being notified.
NoEventLeaked ==
  /\ \A a \in events_ : heap[a] # NoEvent
  /\ exitpc = "dead" => \A a \in EventAddrs : heap[a] = NoEvent

-----------------------------------------------------------------------------
(* Parts of the inductive invariant of UnitsProofs *)

Events == [timer : Timers, loop : BOOLEAN, notifying : BOOLEAN]

TimersTyped ==
  /\ heap \in [EventAddrs -> Events \cup {NoEvent}] /\ events_ \in SUBSET EventAddrs
  /\ timer_id_ \in [Timers -> EventAddrs \cup {0}] /\ tevent \in [Timers -> EventAddrs \cup {0}]
  /\ tpc \in [Timers -> {"idle", "added", "store", "remove", "spin", "removed", "dead"}]
  /\ lpc \in {"top", "doze", "asleep", "notifier", "notified", "delete", "exit"}
  /\ levent \in EventAddrs \cup {0}
  /\ exitpc \in {"no", "notify", "join", "dead"}
  /\ mistaken \in SUBSET (Timers \X Timers)

\* The loop has taken an event and is not done with it.
Firing == lpc \in {"notifier", "notified", "delete"}

\* An event is in events_ or is a one-shot event that the loop has taken out.
EventsHeld ==
  /\ \A a \in events_ : heap[a] # NoEvent
  /\ \A a \in EventAddrs : heap[a] # NoEvent =>
       /\ heap[a].loop <=> heap[a].timer \in LoopTimers
       /\ a \in events_ \/ (Firing /\ levent = a)

\* What keeps Remove away from the event of the loop.
FiringHeld ==
  Firing =>
    /\ levent \in EventAddrs /\ heap[levent] # NoEvent
    /\ heap[levent].loop => levent \in events_ /\ lpc # "delete"
    /\ ~heap[levent].loop => levent \notin events_
    /\ lpc # "delete" => heap[levent].notifying

\* Who holds mutex_ over a step.
OneTimerMutex ==
  /\ \A t \in Timers : tpc[t] = "spin" => tevent[t] \in events_ /\ lpc # "doze"
  /\ \A t, u \in Timers : tpc[t] = "spin" /\ tpc[u] = "spin" => t = u
  /\ lpc = "doze" => events_ = {}
  /\ exitpc # "no" => \A t \in Timers : tpc[t] \in {"idle", "dead"}
  /\ exitpc = "dead" => lpc = "exit" /\ events_ = {}

\* The event of timer t at the address a.
IsEventOf(a, t) == a \in events_ /\ heap[a].timer = t
Victim(t) == \E n \in mistaken : n[2] = t

\* The event of a loop timer is the one it has a handle of; the handle is stale
\* only after another timer removed the event.
LoopHandles ==
  \A t \in LoopTimers :
    /\ tpc[t] \in {"added", "store"} => timer_id_[t] = 0
    /\ tpc[t] \in {"remove", "spin"} => tevent[t] = timer_id_[t]
    /\ \A a \in events_ : heap[a].timer = t =>
         \/ tpc[t] \in {"idle", "remove", "spin"} /\ timer_id_[t] = a
         \/ tpc[t] \in {"added", "store"} /\ tevent[t] = a
    /\ exitpc # "dead" /\ tpc[t] \in {"idle", "remove", "spin"} /\ timer_id_[t] # 0 =>
         Victim(t) \/ IsEventOf(timer_id_[t], t)
    /\ tpc[t] \in {"added", "store"} => Victim(t) \/ IsEventOf(tevent[t], t)

TimersInv ==
  /\ TimersTyped /\ EventsHeld /\ FiringHeld /\ OneTimerMutex /\ LoopHandles
  /\ AddNoticed /\ LoopHandleFresh

-----------------------------------------------------------------------------
\* Events are notified while they exist and only for a timer that wants it, none is
\* overslept, none is leaked, and no loop timer removes the event of another.
TimersSafe == NotifiedAlive /\ LoopTimerQuiet /\ AddNoticed /\ LoopHandleFresh /\ NoEventLeaked
==============================================================================
