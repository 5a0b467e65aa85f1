----------------------------- MODULE UnitsProofs -----------------------------
(***************************************************************************)
(* Proofs about seven components: TimeCounter for any number of timers     *)
(* and addresses, EncoderCe3226 for any sizes, rates and lengths of a      *)
(* stream, StreamRunner for any file and pool, Processors for any number   *)
(* of engines, packages and threads, Pipeline for any number of streams    *)
(* and packets, Osd for any boxes, colours and frame, and Surface for any  *)
(* sizes, formats, batches and calls.                                      *)
(***************************************************************************)
EXTENDS TimeCounter, EncoderCe3226, StreamRunner, Processors, Pipeline, Osd,
        Surface, SublistsProofs, TLAPS, FiniteSetTheorems

-----------------------------------------------------------------------------
(* TimeCounter *)

LEMMA NoEventApart ==
  /\ \A e \in Events : e # NoEvent /\ e.timer \in Timers /\ e.loop \in BOOLEAN
                       /\ e.notifying \in BOOLEAN
  /\ \A t \in Timers : NewEvent(t) \in Events /\ NewEvent(t).timer = t
                       /\ (NewEvent(t).loop <=> t \in LoopTimers)
  /\ 0 \notin EventAddrs
<1>1. \A e \in Events : e.timer \in Timers /\ e.loop \in BOOLEAN /\ e.notifying \in BOOLEAN
  BY DEF Events
<1>2. \A e \in Events : e # NoEvent
  BY <1>1, TimeCounterConstants DEF NoEvent
<1>3. \A t \in Timers : NewEvent(t) \in Events /\ NewEvent(t).timer = t
                        /\ (NewEvent(t).loop <=> t \in LoopTimers)
  <2> SUFFICES ASSUME NEW t \in Timers
               PROVE  NewEvent(t) \in Events /\ NewEvent(t).timer = t
                      /\ (NewEvent(t).loop <=> t \in LoopTimers)
    OBVIOUS
  <2>1. CASE t \in LoopTimers
    <3>1. (t \in LoopTimers) = TRUE
      BY <2>1
    <3>2. NewEvent(t) = [timer |-> t, loop |-> TRUE, notifying |-> FALSE]
      BY <3>1 DEF NewEvent
    <3> QED
      BY <2>1, <3>2 DEF Events
  <2>2. CASE t \notin LoopTimers
    <3>1. (t \in LoopTimers) = FALSE
      BY <2>2
    <3>2. NewEvent(t) = [timer |-> t, loop |-> FALSE, notifying |-> FALSE]
      BY <3>1 DEF NewEvent
    <3> QED
      BY <2>2, <3>2 DEF Events
  <2> QED
    BY <2>1, <2>2
<1> QED
  BY <1>1, <1>2, <1>3, TimeCounterConstants

LEMMA TimersInit == TimeCounterInit => TimersInv
<1> SUFFICES ASSUME TimeCounterInit PROVE TimersInv
  OBVIOUS
<1> USE DEF TimeCounterInit
<1>1. TimersTyped
  BY DEF TimersTyped
<1>2. EventsHeld /\ FiringHeld
  BY DEF EventsHeld, FiringHeld, Firing
<1>3. OneTimerMutex /\ LoopHandles
  BY TimeCounterConstants DEF OneTimerMutex, LoopHandles
<1>4. AddNoticed /\ LoopHandleFresh
  BY DEF AddNoticed, LoopHandleFresh
<1> QED
  BY <1>1, <1>2, <1>3, <1>4 DEF TimersInv

LEMMA AddEventStep ==
  ASSUME TimersInv, NEW t \in Timers, NEW a \in EventAddrs, AddEvent(t, a)
  PROVE  TimersInv'
<1> USE DEF TimersInv
<1>1. /\ tpc[t] = "idle" /\ exitpc = "no" /\ timer_id_[t] = 0 /\ TimerMutexFree /\ heap[a] = NoEvent
      /\ heap' = [heap EXCEPT ![a] = NewEvent(t)] /\ events_' = events_ \cup {a}
      /\ tpc' = [tpc EXCEPT ![t] = "added"] /\ tevent' = [tevent EXCEPT ![t] = a]
      /\ UNCHANGED <<timer_id_, lpc, levent, alive, exitpc, mistaken>>
  BY DEF AddEvent
<1>2. /\ heap'[a] = NewEvent(t) /\ \A b \in EventAddrs \ {a} : heap'[b] = heap[b]
      /\ tpc'[t] = "added" /\ tevent'[t] = a
      /\ \A u \in Timers \ {t} : tpc'[u] = tpc[u] /\ tevent'[u] = tevent[u]
  BY <1>1 DEF TimersTyped
<1>3. TimersTyped'
  BY <1>1, NoEventApart DEF TimersTyped
<1>4. a \notin events_ /\ (Firing => levent # a)
  BY <1>1 DEF EventsHeld, FiringHeld
<1>5. EventsHeld'
  BY <1>1, <1>2, NoEventApart DEF EventsHeld, Firing, TimersTyped
<1>6. FiringHeld'
  BY <1>1, <1>2, <1>4 DEF FiringHeld, Firing
<1>7. OneTimerMutex'
  BY <1>1, <1>2 DEF OneTimerMutex, TimerMutexFree
<1>8. LoopHandles'
  <2> SUFFICES ASSUME NEW u \in LoopTimers
               PROVE  /\ tpc'[u] \in {"added", "store"} => timer_id_'[u] = 0
                      /\ tpc'[u] \in {"remove", "spin"} => tevent'[u] = timer_id_'[u]
                      /\ \A b \in events_' : heap'[b].timer = u =>
                           \/ tpc'[u] \in {"idle", "remove", "spin"} /\ timer_id_'[u] = b
                           \/ tpc'[u] \in {"added", "store"} /\ tevent'[u] = b
                      /\ exitpc' # "dead" /\ tpc'[u] \in {"idle", "remove", "spin"} /\ timer_id_'[u] # 0 =>
                           Victim(u)' \/ IsEventOf(timer_id_[u], u)'
                      /\ tpc'[u] \in {"added", "store"} => Victim(u)' \/ IsEventOf(tevent[u], u)'
    BY DEF LoopHandles
  <2>1. u \in Timers /\ (Victim(u) => Victim(u)')
    BY <1>1, TimeCounterConstants DEF Victim
  <2>2. \A b \in events_ : heap'[b] = heap[b]
    BY <1>2, <1>4 DEF TimersTyped
  <2>3. CASE u = t
    BY <1>1, <1>2, <2>1, <2>2, <2>3, NoEventApart DEF LoopHandles, IsEventOf, TimersTyped
  <2>4. CASE u # t
    BY <1>1, <1>2, <2>1, <2>2, <2>4, NoEventApart DEF LoopHandles, IsEventOf
  <2> QED
    BY <2>3, <2>4
<1>9. AddNoticed' /\ LoopHandleFresh'
  BY <1>1, <1>2 DEF AddNoticed, LoopHandleFresh
<1> QED
  BY <1>3, <1>5, <1>6, <1>7, <1>8, <1>9

\* LoopHandles of one timer.
HandleOf(t) ==
  /\ tpc[t] \in {"added", "store"} => timer_id_[t] = 0
  /\ tpc[t] \in {"remove", "spin"} => tevent[t] = timer_id_[t]
  /\ \A a \in events_ : heap[a].timer = t =>
       \/ tpc[t] \in {"idle", "remove", "spin"} /\ timer_id_[t] = a
       \/ tpc[t] \in {"added", "store"} /\ tevent[t] = a
  /\ exitpc # "dead" /\ tpc[t] \in {"idle", "remove", "spin"} /\ timer_id_[t] # 0 =>
       Victim(t) \/ IsEventOf(timer_id_[t], t)
  /\ tpc[t] \in {"added", "store"} => Victim(t) \/ IsEventOf(tevent[t], t)

LEMMA HandlesAreOf ==
  /\ LoopHandles <=> \A t \in LoopTimers : HandleOf(t)
  /\ LoopHandles' <=> \A t \in LoopTimers : HandleOf(t)'
  BY DEF LoopHandles, HandleOf

\* NotifyAdded, StoreTimerId, LoadTimerId, FinishCancel, DestroyTimer, and a Remove
\* that finds nothing or has to wait.
LEMMA OwnStep ==
  ASSUME TimersInv, NEW t \in Timers,
         \/ NotifyAdded(t) \/ StoreTimerId(t) \/ LoadTimerId(t) \/ FinishCancel(t)
         \/ DestroyTimer(t) \/ (RemoveEvent(t) /\ UNCHANGED <<heap, events_, mistaken>>)
  PROVE  TimersInv'
<1> USE DEF TimersInv
<1>1. /\ UNCHANGED <<heap, events_, levent, alive, exitpc, mistaken>>
      /\ lpc' = lpc \/ (lpc = "asleep" /\ lpc' = "top")
      /\ \/ tpc[t] = "added" /\ tpc' = [tpc EXCEPT ![t] = "store"]
            /\ UNCHANGED <<timer_id_, tevent>> /\ lpc' # "asleep"
         \/ tpc[t] = "store" /\ tpc' = [tpc EXCEPT ![t] = "idle"]
            /\ timer_id_' = [timer_id_ EXCEPT ![t] = tevent[t]] /\ UNCHANGED <<tevent, lpc>>
         \/ tpc[t] = "idle" /\ exitpc = "no" /\ tpc' = [tpc EXCEPT ![t] = "remove"]
            /\ tevent' = [tevent EXCEPT ![t] = timer_id_[t]] /\ UNCHANGED <<timer_id_, lpc>>
         \/ tpc[t] = "removed" /\ tpc' = [tpc EXCEPT ![t] = "idle"]
            /\ timer_id_' = [timer_id_ EXCEPT ![t] = 0] /\ UNCHANGED tevent
         \/ tpc[t] = "idle" /\ timer_id_[t] = 0 /\ tpc' = [tpc EXCEPT ![t] = "dead"]
            /\ UNCHANGED <<timer_id_, tevent, lpc>>
         \/ tpc[t] = "remove" /\ tpc' = [tpc EXCEPT ![t] = "spin"] /\ tevent[t] \in events_
            /\ TimerMutexFree /\ UNCHANGED <<timer_id_, tevent, lpc>>
         \/ tpc[t] = "remove" /\ tpc' = [tpc EXCEPT ![t] = "removed"] /\ tevent[t] \notin events_
            /\ UNCHANGED <<timer_id_, tevent, lpc>>
  <2>1. CASE NotifyAdded(t)
    BY <2>1 DEF NotifyAdded, NotifyCounter
  <2>2. CASE StoreTimerId(t)
    BY <2>2 DEF StoreTimerId
  <2>3. CASE LoadTimerId(t)
    BY <2>3 DEF LoadTimerId
  <2>4. CASE FinishCancel(t)
    BY <2>4 DEF FinishCancel, NotifyCounter
  <2>5. CASE DestroyTimer(t)
    BY <2>5 DEF DestroyTimer
  <2>6. CASE RemoveEvent(t) /\ UNCHANGED <<heap, events_, mistaken>>
    <3>1. ASSUME tevent[t] \in events_, Erase(t, tevent[t]) PROVE FALSE
      <4>1. heap'[tevent[t]] = NoEvent /\ tevent[t] \in events_'
        BY <2>6, <3>1 DEF Erase, TimersTyped
      <4> QED
        BY <2>6, <3>1, <4>1 DEF EventsHeld
    <3> QED
      BY <2>6, <3>1 DEF RemoveEvent
  <2> QED
    BY <2>1, <2>2, <2>3, <2>4, <2>5, <2>6
<1>2. \A u \in Timers \ {t} : tpc'[u] = tpc[u] /\ tevent'[u] = tevent[u] /\ timer_id_'[u] = timer_id_[u]
  BY <1>1 DEF TimersTyped
<1>3. TimersTyped'
  <2>1. tpc[t] \in {"idle", "added", "store", "remove", "spin", "removed", "dead"}
        /\ tevent[t] \in EventAddrs \cup {0} /\ timer_id_[t] \in EventAddrs \cup {0}
    BY DEF TimersTyped
  <2> QED
    BY <1>1, <2>1 DEF TimersTyped
<1>4. EventsHeld' /\ FiringHeld'
  BY <1>1 DEF EventsHeld, FiringHeld, Firing
<1>5. OneTimerMutex'
  BY <1>1, <1>2 DEF OneTimerMutex, TimerMutexFree, TimersTyped
<1>6. LoopHandles'
  <2> SUFFICES ASSUME NEW u \in LoopTimers PROVE HandleOf(u)'
    BY HandlesAreOf
  <2>1. u \in Timers /\ HandleOf(u) /\ (Victim(u)' <=> Victim(u))
        /\ \A a : IsEventOf(a, u)' <=> IsEventOf(a, u)
    BY <1>1, HandlesAreOf, TimeCounterConstants DEF Victim, IsEventOf
  <2>2. CASE u # t
    BY <1>1, <1>2, <2>1, <2>2 DEF HandleOf
  <2>3. CASE u = t
    <3>1. /\ 0 \notin EventAddrs /\ events_ \subseteq EventAddrs
          /\ tpc'[t] \in {"store", "idle", "remove", "dead", "spin", "removed"}
      BY <1>1, NoEventApart DEF TimersTyped
    <3> QED
      BY <1>1, <2>1, <2>3, <3>1 DEF HandleOf, TimersTyped, EventsHeld
  <2> QED
    BY <2>2, <2>3
<1>7. AddNoticed'
  BY <1>1, <1>2 DEF AddNoticed, TimersTyped
<1>8. LoopHandleFresh'
  BY <1>1 DEF LoopHandleFresh
<1> QED
  BY <1>3, <1>4, <1>5, <1>6, <1>7, <1>8

\* Remove deletes an event that is in events_ and is not notified.
LEMMA EraseStep ==
  ASSUME TimersInv, NEW t \in Timers, NEW a \in events_, Erase(t, a), tevent[t] = a,
         \/ tpc[t] = "remove" /\ TimerMutexFree
         \/ tpc[t] = "spin",
         ~heap[a].notifying,
         UNCHANGED <<timer_id_, tevent, lpc, levent, alive, exitpc, starts>>
  PROVE  TimersInv'
<1> USE DEF TimersInv
<1>1. /\ heap' = [heap EXCEPT ![a] = NoEvent] /\ events_' = events_ \ {a}
      /\ mistaken' = IF heap[a].timer = t THEN mistaken ELSE mistaken \cup {<<t, heap[a].timer>>}
      /\ tpc' = [tpc EXCEPT ![t] = "removed"]
  BY DEF Erase
<1>2. /\ a \in EventAddrs /\ heap'[a] = NoEvent
      /\ \A b \in EventAddrs \ {a} : heap'[b] = heap[b]
      /\ tpc'[t] = "removed" /\ \A u \in Timers \ {t} : tpc'[u] = tpc[u]
      /\ heap[a] \in Events /\ heap[a].timer \in Timers
  BY <1>1, NoEventApart DEF TimersTyped, EventsHeld
<1>3. TimersTyped'
  <2>1. mistaken' \in SUBSET (Timers \X Timers)
    BY <1>1, <1>2 DEF TimersTyped
  <2> QED
    BY <1>1, <2>1 DEF TimersTyped
<1>4. Firing => levent # a
  BY DEF FiringHeld, Firing
<1>5. EventsHeld'
  BY <1>1, <1>2, <1>4 DEF EventsHeld, Firing, TimersTyped
<1>6. FiringHeld'
  BY <1>1, <1>2, <1>4 DEF FiringHeld, Firing
<1>7. OneTimerMutex'
  BY <1>1, <1>2 DEF OneTimerMutex, TimerMutexFree
<1>8. mistaken \subseteq mistaken' /\ \A u \in Timers : Victim(u) => Victim(u)'
  BY <1>1 DEF Victim
<1>9. LoopHandles'
  <2> SUFFICES ASSUME NEW u \in LoopTimers PROVE HandleOf(u)'
    BY HandlesAreOf
  <2>1. u \in Timers /\ HandleOf(u)
    BY HandlesAreOf, TimeCounterConstants
  <2>2. \A b \in events_' : b \in events_ /\ heap'[b] = heap[b]
    BY <1>1, <1>2 DEF TimersTyped
  <2>3. CASE u # t
    <3>1. heap[a].timer = u => Victim(u)'
      <4> SUFFICES ASSUME heap[a].timer = u PROVE Victim(u)'
        OBVIOUS
      <4>1. <<t, u>> \in mistaken'
        BY <1>1, <2>3
      <4> QED
        BY <4>1 DEF Victim
    <3>2. \A b : IsEventOf(b, u) => IsEventOf(b, u)' \/ Victim(u)'
      BY <1>1, <1>2, <3>1 DEF IsEventOf, TimersTyped
    <3> QED
      BY <1>2, <1>8, <2>1, <2>2, <2>3, <3>2 DEF HandleOf
  <2>4. CASE u = t
    BY <1>1, <1>2, <2>1, <2>2, <2>4 DEF HandleOf
  <2> QED
    BY <2>3, <2>4
<1>10. AddNoticed'
  BY <1>1, <1>2 DEF AddNoticed
<1>11. LoopHandleFresh'
  <2>1. t \in LoopTimers /\ heap[a].timer # t => Victim(t)
    <3> SUFFICES ASSUME t \in LoopTimers, heap[a].timer # t PROVE Victim(t)
      OBVIOUS
    <3>1. HandleOf(t)
      BY HandlesAreOf
    <3>2. exitpc = "no" /\ timer_id_[t] = a /\ a # 0
      BY <1>2, <3>1, NoEventApart DEF HandleOf, OneTimerMutex
    <3> QED
      BY <3>1, <3>2 DEF HandleOf, IsEventOf
  <2>2. \A m \in mistaken' : m \in mistaken \/ (m = <<t, heap[a].timer>> /\ heap[a].timer # t)
    BY <1>1
  <2> QED
    BY <1>8, <2>1, <2>2 DEF LoopHandleFresh, Victim
<1> QED
  BY <1>3, <1>5, <1>6, <1>7, <1>9, <1>10, <1>11

LEMMA RemoveStep ==
  ASSUME TimersInv, NEW t \in Timers, RemoveEvent(t) \/ RemoveSpun(t)
  PROVE  TimersInv'
<1>1. CASE RemoveEvent(t)
  <2>1. CASE tevent[t] \in events_ /\ ~heap[tevent[t]].notifying /\ Erase(t, tevent[t])
    BY <1>1, <2>1, EraseStep DEF RemoveEvent
  <2>2. CASE UNCHANGED <<heap, events_, mistaken>>
    BY <1>1, <2>2, OwnStep
  <2> QED
    BY <1>1, <2>1, <2>2 DEF RemoveEvent
<1>2. CASE RemoveSpun(t)
  BY <1>2, EraseStep DEF RemoveSpun, TimersInv, OneTimerMutex
<1> QED
  BY <1>1, <1>2

-----------------------------------------------------------------------------
(* The thread of Loop *)

\* LoopWait, LoopSleep, LoopExit and LoopTask.
LEMMA LoopQuietStep ==
  ASSUME TimersInv, LoopWait \/ LoopSleep \/ LoopExit \/ LoopTask
  PROVE  TimersInv'
<1> USE DEF TimersInv
<1>1. /\ UNCHANGED <<heap, events_, levent, tpc, tevent, alive, exitpc, starts, mistaken>>
      /\ lpc' \in {"top", "doze", "asleep", "notified", "exit"}
      /\ lpc' = "doze" => events_ = {} /\ TimerMutexFree
      /\ lpc' = "asleep" => lpc = "doze"
      /\ exitpc = "dead" => lpc' = "exit"
      /\ Firing' <=> Firing
      /\ Firing => lpc = "notifier" /\ lpc' = "notified"
  BY DEF LoopWait, LoopSleep, LoopExit, LoopTask, loop_only, Firing, OneTimerMutex
<1>2. /\ timer_id_' \in [Timers -> EventAddrs \cup {0}]
      /\ \A t \in LoopTimers : timer_id_'[t] = timer_id_[t]
  <2>1. CASE UNCHANGED timer_id_
    BY <2>1 DEF TimersTyped
  <2>2. CASE LoopTask /\ ~heap[levent].loop
    <3>1. /\ levent \in EventAddrs /\ heap[levent] \in Events
          /\ heap[levent].timer \in Timers \ LoopTimers
      BY <2>2, NoEventApart DEF LoopTask, FiringHeld, Firing, EventsHeld, TimersTyped
    <3>2. timer_id_' = [timer_id_ EXCEPT ![heap[levent].timer] = 0]
      BY <2>2 DEF LoopTask
    <3> QED
      BY <3>1, <3>2, TimeCounterConstants DEF TimersTyped
  <2> QED
    BY <2>1, <2>2 DEF LoopWait, LoopSleep, LoopExit, LoopTask, loop_only
<1>3. TimersTyped'
  BY <1>1, <1>2 DEF TimersTyped
<1>4. EventsHeld' /\ FiringHeld'
  BY <1>1 DEF EventsHeld, FiringHeld
<1>5. OneTimerMutex'
  BY <1>1 DEF OneTimerMutex, TimerMutexFree
<1>6. LoopHandles'
  BY <1>1, <1>2 DEF LoopHandles, Victim, IsEventOf
<1>7. AddNoticed' /\ LoopHandleFresh'
  BY <1>1 DEF AddNoticed, LoopHandleFresh, OneTimerMutex
<1> QED
  BY <1>3, <1>4, <1>5, <1>6, <1>7

LEMMA LoopFireStep ==
  ASSUME TimersInv, NEW a \in EventAddrs, LoopFire(a)
  PROVE  TimersInv'
<1> USE DEF TimersInv
<1>1. /\ lpc = "top" /\ TimerMutexFree /\ a \in events_ /\ lpc' = "notifier" /\ levent' = a
      /\ heap' = [heap EXCEPT ![a].notifying = TRUE]
      /\ events_' = IF heap[a].loop THEN events_ ELSE events_ \ {a}
      /\ UNCHANGED <<timer_id_, tpc, tevent, alive, exitpc, starts, mistaken>>
  BY DEF LoopFire, loop_only
<1>2. PICK e \in Events : e = heap'[a] /\ e.timer = heap[a].timer /\ e.loop = heap[a].loop
                          /\ e.notifying = TRUE
  <2>1. heap[a] \in Events /\ heap'[a] = [heap[a] EXCEPT !.notifying = TRUE]
    BY <1>1 DEF TimersTyped, EventsHeld
  <2>2. [heap[a] EXCEPT !.notifying = TRUE] \in Events
    BY <2>1 DEF Events
  <2> QED
    BY <2>1, <2>2 DEF Events
<1>3. \A b \in EventAddrs \ {a} : heap'[b] = heap[b]
  BY <1>1 DEF TimersTyped
<1>4. TimersTyped'
  BY <1>1, <1>2 DEF TimersTyped
<1>5. EventsHeld' /\ FiringHeld'
  <2>1. /\ heap'[a] # NoEvent /\ (heap'[a].loop <=> heap[a].loop) /\ heap'[a].timer = heap[a].timer
        /\ heap'[a].notifying /\ heap[a] # NoEvent /\ Firing' /\ ~Firing /\ events_ \subseteq EventAddrs
    BY <1>1, <1>2, NoEventApart DEF Firing, EventsHeld, TimersTyped
  <2>2. \A b \in events_' : heap'[b] # NoEvent
    BY <1>1, <1>3, <2>1 DEF EventsHeld
  <2>3. ASSUME NEW b \in EventAddrs, heap'[b] # NoEvent
        PROVE  /\ heap'[b].loop <=> heap'[b].timer \in LoopTimers
               /\ b \in events_' \/ (Firing' /\ levent' = b)
    <3>1. CASE b = a
      BY <1>1, <2>1, <3>1 DEF EventsHeld
    <3>2. CASE b # a
      BY <1>1, <1>3, <2>1, <2>3, <3>2 DEF EventsHeld
    <3> QED
      BY <3>1, <3>2
  <2>4. EventsHeld'
    BY <2>2, <2>3 DEF EventsHeld
  <2>5. FiringHeld'
    BY <1>1, <2>1 DEF FiringHeld
  <2> QED
    BY <2>4, <2>5
<1>6. OneTimerMutex'
  BY <1>1 DEF OneTimerMutex, TimerMutexFree
<1>7. LoopHandles'
  <2> SUFFICES ASSUME NEW u \in LoopTimers PROVE HandleOf(u)'
    BY HandlesAreOf
  <2>1. u \in Timers /\ HandleOf(u) /\ (Victim(u)' <=> Victim(u))
    BY <1>1, HandlesAreOf, TimeCounterConstants DEF Victim
  <2>2. \A b \in events_ : heap'[b].timer = heap[b].timer
    BY <1>1, <1>2, <1>3 DEF TimersTyped
  <2>3. heap[a].timer = u => events_' = events_
    BY <1>1 DEF EventsHeld
  <2>4. \A b : IsEventOf(b, u) => IsEventOf(b, u)'
    BY <1>1, <2>2, <2>3 DEF IsEventOf
  <2>5. events_' \subseteq events_
    BY <1>1
  <2> QED
    BY <1>1, <2>1, <2>2, <2>4, <2>5 DEF HandleOf
<1>8. AddNoticed' /\ LoopHandleFresh'
  BY <1>1 DEF AddNoticed, LoopHandleFresh
<1> QED
  BY <1>4, <1>5, <1>6, <1>7, <1>8

LEMMA LoopNotifiedStep ==
  ASSUME TimersInv, LoopNotified \/ LoopDelete
  PROVE  TimersInv'
<1> USE DEF TimersInv
<1>1. /\ Firing /\ levent \in EventAddrs /\ heap[levent] \in Events
      /\ UNCHANGED <<events_, levent, timer_id_, tpc, tevent, alive, exitpc, starts, mistaken>>
  BY DEF LoopNotified, LoopDelete, loop_only, Firing, FiringHeld, TimersTyped
<1>2. \/ /\ LoopNotified /\ heap' = [heap EXCEPT ![levent].notifying = FALSE]
         /\ lpc' = IF heap[levent].loop THEN "top" ELSE "delete"
      \/ /\ LoopDelete /\ heap' = [heap EXCEPT ![levent] = NoEvent]
         /\ lpc = "delete" /\ lpc' = "top" /\ levent \notin events_
  BY DEF LoopNotified, LoopDelete, FiringHeld, Firing
<1>3. \A b \in EventAddrs \ {levent} : heap'[b] = heap[b]
  BY <1>1, <1>2 DEF TimersTyped
<1>4. LoopNotified => /\ heap'[levent] \in Events /\ heap'[levent].timer = heap[levent].timer
                      /\ heap'[levent].loop = heap[levent].loop
  <2> SUFFICES ASSUME LoopNotified
               PROVE  /\ heap'[levent] \in Events /\ heap'[levent].timer = heap[levent].timer
                      /\ heap'[levent].loop = heap[levent].loop
    OBVIOUS
  <2>1. heap'[levent] = [heap[levent] EXCEPT !.notifying = FALSE]
    BY <1>1 DEF LoopNotified, TimersTyped
  <2> QED
    BY <1>1, <2>1 DEF Events
<1>5. TimersTyped'
  BY <1>1, <1>2, <1>4 DEF TimersTyped
<1>6. \A b \in events_ : heap'[b] # NoEvent /\ heap'[b].timer = heap[b].timer
  BY <1>1, <1>2, <1>3, <1>4, NoEventApart DEF EventsHeld, TimersTyped
<1>7. EventsHeld' /\ FiringHeld'
  <2>1. CASE LoopNotified
    <3>1. /\ heap'[levent] # NoEvent /\ heap'[levent].timer = heap[levent].timer
          /\ (heap'[levent].loop <=> heap[levent].loop) /\ levent' = levent /\ events_' = events_
          /\ heap[levent] # NoEvent
      BY <1>1, <1>4, <2>1, NoEventApart DEF FiringHeld
    <3>2. /\ heap[levent].loop => levent \in events_ /\ lpc' = "top"
          /\ ~heap[levent].loop => levent \notin events_ /\ lpc' = "delete"
      BY <1>1, <2>1 DEF FiringHeld, LoopNotified
    <3>3. ASSUME NEW b \in EventAddrs, heap'[b] # NoEvent
          PROVE  /\ heap'[b].loop <=> heap'[b].timer \in LoopTimers
                 /\ b \in events_' \/ (Firing' /\ levent' = b)
      <4>1. CASE b = levent
        BY <1>1, <3>1, <3>2, <4>1 DEF EventsHeld, Firing
      <4>2. CASE b # levent
        BY <1>1, <1>3, <3>1, <3>3, <4>2 DEF EventsHeld
      <4> QED
        BY <4>1, <4>2
    <3>4. EventsHeld'
      BY <1>6, <3>1, <3>3 DEF EventsHeld
    <3>5. FiringHeld'
      BY <1>1, <3>1, <3>2 DEF FiringHeld, Firing
    <3> QED
      BY <3>4, <3>5
  <2>2. CASE LoopDelete
    BY <1>1, <1>2, <1>3, <1>6, <2>2 DEF EventsHeld, FiringHeld, Firing, LoopDelete, TimersTyped
  <2> QED
    BY <2>1, <2>2
<1>8. OneTimerMutex' /\ AddNoticed' /\ LoopHandleFresh'
  BY <1>1, <1>2 DEF OneTimerMutex, AddNoticed, LoopHandleFresh, Firing
<1>9. LoopHandles'
  BY <1>1, <1>6 DEF LoopHandles, Victim, IsEventOf
<1> QED
  BY <1>5, <1>7, <1>8, <1>9

LEMMA ExitStep ==
  ASSUME TimersInv, ExitStop \/ ExitNotify \/ ExitJoin
  PROVE  TimersInv'
<1> USE DEF TimersInv
<1>1. CASE ExitStop \/ ExitNotify
  <2>1. /\ UNCHANGED <<heap, events_, timer_id_, tpc, tevent, levent, starts, mistaken>>
        /\ lpc' = lpc \/ (lpc = "asleep" /\ lpc' = "top")
        /\ exitpc' \in {"notify", "join"} /\ exitpc # "dead"
        /\ \A t \in Timers : tpc[t] \in {"idle", "dead"}
    BY <1>1 DEF ExitStop, ExitNotify, NotifyCounter, OneTimerMutex
  <2>2. TimersTyped' /\ EventsHeld' /\ FiringHeld'
    BY <2>1 DEF TimersTyped, EventsHeld, FiringHeld, Firing
  <2>3. OneTimerMutex' /\ AddNoticed' /\ LoopHandleFresh'
    BY <2>1 DEF OneTimerMutex, AddNoticed, LoopHandleFresh
  <2>4. LoopHandles'
    BY <2>1 DEF LoopHandles, Victim, IsEventOf
  <2> QED
    BY <2>2, <2>3, <2>4
<1>2. CASE ExitJoin
  <2>1. /\ lpc = "exit" /\ exitpc = "join" /\ exitpc' = "dead" /\ events_' = {}
        /\ heap' = [a \in EventAddrs |-> IF a \in events_ THEN NoEvent ELSE heap[a]]
        /\ UNCHANGED <<timer_id_, tpc, tevent, lpc, levent, alive, starts, mistaken>>
    BY <1>2 DEF ExitJoin
  <2>2. TimersTyped'
    BY <2>1 DEF TimersTyped
  <2>3. EventsHeld' /\ FiringHeld'
    BY <2>1 DEF EventsHeld, FiringHeld, Firing, TimersTyped
  <2>4. OneTimerMutex' /\ AddNoticed' /\ LoopHandleFresh'
    BY <2>1 DEF OneTimerMutex, AddNoticed, LoopHandleFresh
  <2>5. LoopHandles'
    BY <2>1, TimeCounterConstants DEF LoopHandles, OneTimerMutex
  <2> QED
    BY <2>2, <2>3, <2>4, <2>5
<1> QED
  BY <1>1, <1>2

LEMMA TimersStep == TimersInv /\ [TimeCounterNext]_timerVars => TimersInv'
<1> SUFFICES ASSUME TimersInv, [TimeCounterNext]_timerVars PROVE TimersInv'
  OBVIOUS
<1>1. CASE UNCHANGED timerVars
  BY <1>1 DEF timerVars, TimersInv, TimersTyped, EventsHeld, FiringHeld, Firing, OneTimerMutex,
              LoopHandles, Victim, IsEventOf, AddNoticed, LoopHandleFresh
<1>2. CASE TimeCounterNext
  BY <1>2, AddEventStep, OwnStep, RemoveStep, LoopFireStep, LoopQuietStep, LoopNotifiedStep, ExitStep
     DEF TimeCounterNext
<1> QED
  BY <1>1, <1>2

LEMMA TimersInvImplies == TimersInv => TimersSafe
<1> SUFFICES ASSUME TimersInv PROVE TimersSafe
  OBVIOUS
<1> USE DEF TimersInv
<1>1. NotifiedAlive
  BY DEF NotifiedAlive, FiringHeld, Firing
<1>2. LoopTimerQuiet
  BY DEF LoopTimerQuiet, FiringHeld, Firing, EventsHeld, LoopHandles
<1>3. NoEventLeaked
  BY DEF NoEventLeaked, EventsHeld, OneTimerMutex, Firing
<1> QED
  BY <1>1, <1>2, <1>3 DEF TimersSafe

\* TimeCounter notifies only events that exist, notifies a loop timer only while it
\* holds its event, oversleeps no event and leaks none, for every number of
\* timers, however their threads interleave with Loop and although addresses of
\* events are used again.
THEOREM TimersAreSafe == TimeCounterSpec => []TimersSafe
<1>1. TimeCounterSpec => []TimersInv
  BY TimersInit, TimersStep, PTL DEF TimeCounterSpec
<1> QED
  BY <1>1, TimersInvImplies, PTL
-----------------------------------------------------------------------------
(* EncoderCe3226 *)

\* What the channel and its output hold.
LEMMA EncoderEntries ==
  ASSUME EncoderTyped
  PROVE  /\ \A k \in DOMAIN chan : k \in Nat /\ chan[k] \in ChannelFrames /\ chan[k].n \in Nat
         /\ \A k \in DOMAIN encoded : k \in Nat /\ encoded[k] \in EncodedFrames /\ encoded[k].n \in Nat
<1>1. /\ \A k \in DOMAIN chan : k \in Nat /\ chan[k] \in ChannelFrames
      /\ \A k \in DOMAIN encoded : k \in Nat /\ encoded[k] \in EncodedFrames
  BY DEF EncoderTyped
<1>2. \A f \in ChannelFrames : f.n \in Nat
  BY DEF ChannelFrames
<1>3. \A e \in EncodedFrames : e.n \in Nat
  BY DEF EncodedFrames
<1> QED
  BY <1>1, <1>2, <1>3

LEMMA ScalingInit == EncoderCe3226Init => ScalingInv
<1> SUFFICES ASSUME EncoderCe3226Init PROVE ScalingInv
  OBVIOUS
<1> USE DEF EncoderCe3226Init
<1>1. EncoderTyped
  <2>1. chan \in Seq(ChannelFrames) /\ encoded \in Seq(EncodedFrames)
    OBVIOUS
  <2>2. encPools \in [live : Nat, unused : Nat]
    OBVIOUS
  <2> QED
    BY <2>1, <2>2 DEF EncoderTyped
<1>2. ScratchCounted
  BY DEF ScratchCounted
<1>3. ChannelOrdered /\ ScratchFresh /\ EncodedOrdered /\ NoOlderPicture
  BY DEF ChannelOrdered, ScratchFresh, EncodedOrdered, NoOlderPicture
<1> QED
  BY <1>1, <1>2, <1>3 DEF ScalingInv

\* Steps that send and encode nothing.
LEMMA EncoderQuietStep ==
  ASSUME ScalingInv, UNCHANGED <<scaled, encoded>>,
         \/ \E type \in {"H264", "INVALID"}, rate \in EncRates, free \in BOOLEAN : CreateEncoder(type, rate, free)
         \/ \E size \in EncSizes : SendFrame(size)
         \/ SendEosFrame \/ DestroyEncoder
         \/ \E pool, surface \in BOOLEAN : (surface => pool) /\ CreateScratch(pool, surface)
  PROVE  ScalingInv'
<1> USE DEF ScalingInv
<1>1. /\ chan' = chan \/ chan' = <<>>
      /\ nframes' \in Nat /\ nframes <= nframes'
      /\ \A n \in Nat : Sent(n) => Sent(n)'
      /\ venc_' \in {"none", "open", "eos", "closed", "refused"}
  BY DEF CreateEncoder, SendFrame, SendEosFrame, DestroyEncoder, CreateScratch, NeedsScratch, Sent, EncoderTyped
<1>2. encPools' \in [live : Nat, unused : Nat] /\ output_surf_' \in BOOLEAN /\ ScratchCounted'
  <2>1. CASE UNCHANGED <<encPools, output_surf_>> /\ venc_ # "closed" /\ venc_' # "closed"
    BY <2>1 DEF EncoderTyped, ScratchCounted
  <2>2. CASE DestroyEncoder
    <3>1. PICK l \in Nat, u \in Nat : encPools = [live |-> l, unused |-> u]
      BY DEF EncoderTyped
    <3>2. encPools' = [live |-> IF l = 0 THEN 0 ELSE l - 1, unused |-> u]
      BY <2>2, <3>1 DEF DestroyEncoder
    <3>3. l <= u + 1
      BY <2>2, <3>1 DEF DestroyEncoder, ScratchCounted
    <3>4. /\ encPools' \in [live : Nat, unused : Nat]
          /\ encPools'.live <= encPools'.unused
      BY <3>2, <3>3
    <3>5. output_surf_' = FALSE /\ venc_' = "closed" /\ encFrame' = NoFrame
      BY <2>2 DEF DestroyEncoder
    <3> QED
      BY <3>4, <3>5 DEF ScratchCounted
  <2>3. ASSUME NEW pool \in BOOLEAN, NEW surface \in BOOLEAN, surface => pool, CreateScratch(pool, surface)
        PROVE  encPools' \in [live : Nat, unused : Nat] /\ output_surf_' \in BOOLEAN /\ ScratchCounted'
    <3>1. PICK l \in Nat, u \in Nat : encPools = [live |-> l, unused |-> u]
      BY DEF EncoderTyped
    <3>2. /\ ~output_surf_ /\ venc_ # "closed" /\ venc_' = venc_ /\ l = u
          /\ encPools' = [live |-> l + (IF pool THEN 1 ELSE 0), unused |-> u + (IF pool /\ ~surface THEN 1 ELSE 0)]
          /\ output_surf_' = (pool /\ surface)
      BY <2>3, <3>1 DEF CreateScratch, NeedsScratch, ScratchCounted
    <3>3. CASE surface
      <4>1. encPools' = [live |-> l + 1, unused |-> u] /\ output_surf_' = TRUE
        <5>1. pool = TRUE /\ surface = TRUE
          BY <2>3, <3>3
        <5>2. output_surf_' = TRUE
          BY <3>2, <5>1
        <5>3. l + (IF pool THEN 1 ELSE 0) = l + 1 /\ u + (IF pool /\ ~surface THEN 1 ELSE 0) = u
          BY <5>1
        <5> QED
          BY <3>2, <5>2, <5>3
      <4> QED
        BY <3>2, <4>1 DEF ScratchCounted
    <3>4. CASE ~surface
      <4>1. encPools'.live = encPools'.unused /\ encPools' \in [live : Nat, unused : Nat]
        BY <3>2, <3>4
      <4>2. output_surf_' = FALSE
        BY <3>2, <3>4
      <4> QED
        BY <3>2, <4>1, <4>2 DEF ScratchCounted
    <3> QED
      BY <3>3, <3>4
  <2> QED
    BY <2>1, <2>2, <2>3 DEF CreateEncoder, SendFrame, SendEosFrame
<1>3. EncoderTyped'
  <2>1. chan' \in Seq(ChannelFrames)
    <3>1. <<>> \in Seq(ChannelFrames) /\ chan \in Seq(ChannelFrames)
      BY DEF EncoderTyped
    <3> QED
      BY <1>1, <3>1
  <2> QED
    BY <1>1, <1>2, <2>1 DEF EncoderTyped
<1>4. \A k \in DOMAIN chan' : k \in DOMAIN chan /\ chan'[k] = chan[k] /\ chan[k].n \in Nat
  BY <1>1, EncoderEntries
<1>5. ChannelOrdered' /\ ScratchFresh'
  <2>1. ASSUME NEW k \in DOMAIN chan' PROVE chan'[k].size = EncSize /\ Sent(chan[k].n)'
    <3>1. PICK n \in Nat : n = chan[k].n
      BY <1>4, <2>1
    <3>2. Sent(n) /\ chan[k].size = EncSize
      BY <1>4, <2>1, <3>1 DEF ChannelOrdered
    <3>3. Sent(n)' /\ chan'[k].n = n
      BY <1>1, <1>4, <2>1, <3>1, <3>2
    <3> QED
      BY <1>4, <2>1, <3>2, <3>3 DEF Sent
  <2>2. \A j, k \in DOMAIN chan' : j < k => chan'[j].n < chan'[k].n
    BY <1>4 DEF ChannelOrdered
  <2>3. ScratchFresh'
    BY <1>1, <1>4 DEF ScratchFresh, EncoderTyped
  <2> QED
    BY <2>1, <2>2, <2>3 DEF ChannelOrdered
<1>6. \A j \in DOMAIN encoded : encoded[j].n \in Nat
  BY EncoderEntries
<1>7. EncodedOrdered' /\ NoOlderPicture'
  <2>1. ASSUME NEW j \in DOMAIN encoded PROVE Sent(encoded[j].n)'
    <3>1. PICK n \in Nat : n = encoded[j].n
      BY <1>6
    <3>2. Sent(n)' /\ encoded'[j].n = n
      BY <1>1, <3>1 DEF EncodedOrdered
    <3> QED
      BY <3>2 DEF Sent
  <2> QED
    BY <1>4, <2>1 DEF EncodedOrdered, NoOlderPicture
<1> QED
  BY <1>2, <1>3, <1>5, <1>7

\* SendFrame hands the frame it was called with to the channel, or fails to.
LEMMA ToChannelStep ==
  ASSUME ScalingInv, NEW f \in ChannelFrames, encFrame # NoFrame, ToChannel(f),
         f.n = nframes, f.size = EncSize, scaled' \in {scaled, nframes},
         ~f.own /\ ~f.failed => scaled' = nframes,
         UNCHANGED <<venc_, nframes, output_surf_, encPools, encoded>>
  PROVE  ScalingInv'
<1> USE DEF ScalingInv
<1>1. \/ chan' = Append(chan, f)
      \/ chan' = chan
  BY DEF ToChannel
<1>2. /\ encFrame' = NoFrame /\ nframes \in Nat /\ scaled \in Nat /\ scaled <= scaled' /\ scaled' \in Nat
      /\ scaled' <= nframes
      /\ \A n \in Nat : Sent(n) => n < nframes
  BY DEF ToChannel, Sent, ScratchFresh, EncoderTyped
<1>3. EncoderTyped'
  <2>1. chan' \in Seq(ChannelFrames)
    BY <1>1 DEF EncoderTyped
  <2> QED
    BY <1>2, <2>1 DEF EncoderTyped
<1>4. ScratchCounted'
  BY <1>2 DEF ScratchCounted
<1>5. \A k \in DOMAIN chan : chan[k] \in ChannelFrames /\ chan[k].n \in Nat /\ chan[k].n < nframes
  BY <1>2, EncoderEntries DEF ChannelOrdered
<1>6. \A k \in DOMAIN chan' : \/ k \in DOMAIN chan /\ chan'[k] = chan[k]
                              \/ k = Len(chan) + 1 /\ chan'[k] = f
  BY <1>1 DEF EncoderTyped
<1>7. ChannelOrdered'
  <2>1. ASSUME NEW k \in DOMAIN chan' PROVE chan'[k].size = EncSize /\ Sent(chan[k].n)'
    <3>1. Sent(chan[k].n)' <=> (chan'[k].n <= nframes' /\ (encFrame' # NoFrame => chan'[k].n < nframes'))
      BY DEF Sent
    <3> QED
      BY <1>2, <1>5, <1>6, <3>1 DEF ChannelOrdered
  <2>2. ASSUME NEW j \in DOMAIN chan', NEW k \in DOMAIN chan', j < k PROVE chan'[j].n < chan'[k].n
    <3>1. j \in DOMAIN chan /\ chan'[j] = chan[j]
      BY <1>1, <1>6, <2>2 DEF EncoderTyped
    <3> QED
      BY <1>5, <1>6, <2>2, <3>1 DEF ChannelOrdered
  <2> QED
    BY <2>1, <2>2 DEF ChannelOrdered
<1>8. ScratchFresh'
  <2>1. ASSUME NEW k \in DOMAIN chan', ~chan'[k].own, ~chan'[k].failed PROVE chan'[k].n <= scaled'
    BY <1>2, <1>5, <1>6, <2>1 DEF ScratchFresh
  <2> QED
    BY <1>2, <2>1 DEF ScratchFresh
<1>9. EncodedOrdered'
  <2>1. \A j \in DOMAIN encoded : encoded[j].n \in Nat /\ encoded[j].n < nframes
    BY <1>2, EncoderEntries DEF EncodedOrdered
  <2>2. \A j \in DOMAIN encoded : Sent(encoded[j].n)'
    BY <1>2, <2>1 DEF Sent
  <2> QED
    BY <1>6, <2>1, <2>2 DEF EncodedOrdered
<1>10. NoOlderPicture'
  BY DEF NoOlderPicture
<1> QED
  BY <1>3, <1>4, <1>7, <1>8, <1>9, <1>10

LEMMA SendToChannelStep ==
  ASSUME ScalingInv, SendDirect \/ \E ok \in BOOLEAN : SendScaled(ok)
  PROVE  ScalingInv'
<1>1. nframes \in Nat
  BY DEF ScalingInv, EncoderTyped
<1>2. CASE SendDirect
  <2> DEFINE f == [n |-> nframes, size |-> encFrame, own |-> TRUE, failed |-> FALSE]
  <2>1. /\ f \in ChannelFrames /\ f.n = nframes /\ f.size = EncSize /\ f.own
        /\ ToChannel(f) /\ encFrame # NoFrame
        /\ UNCHANGED <<venc_, nframes, output_surf_, encPools, encoded, scaled>>
    BY <1>1, <1>2, EncoderCe3226Constants DEF SendDirect, SameSize, ChannelFrames
  <2> HIDE DEF f
  <2> QED
    BY <2>1, ToChannelStep
<1>3. ASSUME NEW ok \in BOOLEAN, SendScaled(ok) PROVE ScalingInv'
  <2> DEFINE f == [n |-> nframes, size |-> EncSize, own |-> FALSE, failed |-> ~ok]
  <2>1. f \in ChannelFrames /\ f.n = nframes /\ f.size = EncSize /\ f.failed = ~ok
    BY <1>1, EncoderCe3226Constants DEF ChannelFrames
  <2>2. /\ ToChannel(f) /\ encFrame # NoFrame
        /\ UNCHANGED <<venc_, nframes, output_surf_, encPools, encoded>>
        /\ scaled' \in {scaled, nframes} /\ (ok => scaled' = nframes)
    BY <1>3 DEF SendScaled, VguScaleCsc
  <2> HIDE DEF f
  <2> QED
    BY <2>1, <2>2, ToChannelStep
<1> QED
  BY <1>2, <1>3

LEMMA EncodeFrameStep ==
  ASSUME ScalingInv, EncodeFrame
  PROVE  ScalingInv'
<1> USE DEF ScalingInv
<1> DEFINE f == chan[1]
           e == [n |-> f.n, from |-> IF f.own THEN f.n ELSE scaled, failed |-> f.failed]
<1>1. /\ chan # <<>> /\ 1 \in DOMAIN chan /\ f \in ChannelFrames
      /\ encoded' = Append(encoded, e) /\ chan' = Tail(chan)
      /\ UNCHANGED <<venc_, encFrame, nframes, output_surf_, encPools, scaled>>
  BY DEF EncodeFrame, EncoderTyped
<1>2. /\ e \in EncodedFrames /\ e.n = f.n /\ e.n \in Nat
      /\ e.from >= e.n \/ e.failed
  <2>1. f.n \in Nat /\ f.own \in BOOLEAN /\ f.failed \in BOOLEAN /\ scaled \in Nat
    BY <1>1 DEF ChannelFrames, EncoderTyped
  <2>2. ~f.own /\ ~f.failed => f.n <= scaled
    BY <1>1 DEF ScratchFresh
  <2> QED
    BY <2>1, <2>2 DEF EncodedFrames
<1> HIDE DEF e
<1>3. EncoderTyped' /\ ScratchCounted'
  BY <1>1, <1>2 DEF EncoderTyped, ScratchCounted
<1>4. \A k \in DOMAIN chan' : k + 1 \in DOMAIN chan /\ chan'[k] = chan[k + 1] /\ 1 < k + 1
  BY <1>1 DEF EncoderTyped
<1>5. ChannelOrdered'
  <2>1. \A k \in DOMAIN chan' : chan'[k].size = EncSize /\ Sent(chan[k].n)'
    BY <1>1, <1>4 DEF ChannelOrdered, Sent
  <2>2. \A j, k \in DOMAIN chan' : j < k => chan'[j].n < chan'[k].n
    <3> SUFFICES ASSUME NEW j \in DOMAIN chan', NEW k \in DOMAIN chan', j < k PROVE chan'[j].n < chan'[k].n
      OBVIOUS
    <3>1. j + 1 < k + 1
      BY <1>3 DEF EncoderTyped
    <3> QED
      BY <1>4, <3>1 DEF ChannelOrdered
  <2> QED
    BY <2>1, <2>2 DEF ChannelOrdered
<1>6. ScratchFresh'
  BY <1>1, <1>4 DEF ScratchFresh
<1>7. \A j \in DOMAIN encoded' : \/ j \in DOMAIN encoded /\ encoded'[j] = encoded[j]
                                 \/ j = Len(encoded) + 1 /\ encoded'[j] = e
  BY <1>1 DEF EncoderTyped
<1>8. \A k \in DOMAIN chan' : e.n < chan'[k].n
  BY <1>1, <1>2, <1>4 DEF ChannelOrdered
<1>9. EncodedOrdered'
  <2>1. ASSUME NEW j \in DOMAIN encoded'
        PROVE  Sent(encoded[j].n)' /\ \A k \in DOMAIN chan' : encoded'[j].n < chan'[k].n
    <3>1. CASE j \in DOMAIN encoded /\ encoded'[j] = encoded[j]
      BY <1>1, <1>4, <3>1 DEF EncodedOrdered, Sent
    <3>2. CASE encoded'[j] = e
      BY <1>1, <1>2, <1>8, <3>2 DEF ChannelOrdered, Sent
    <3> QED
      BY <1>7, <3>1, <3>2
  <2> QED
    BY <2>1 DEF EncodedOrdered
<1>10. NoOlderPicture'
  <2>1. \A k \in DOMAIN encoded' : encoded'[k].from >= encoded'[k].n \/ encoded'[k].failed
    BY <1>2, <1>7 DEF NoOlderPicture
  <2>2. ASSUME NEW j \in DOMAIN encoded', NEW k \in DOMAIN encoded', j < k
        PROVE  encoded'[j].n < encoded'[k].n
    <3>1. j \in DOMAIN encoded /\ encoded'[j] = encoded[j]
      BY <1>1, <1>7, <2>2 DEF EncoderTyped
    <3> QED
      BY <1>1, <1>2, <1>7, <2>2, <3>1 DEF NoOlderPicture, EncodedOrdered
  <2> QED
    BY <2>1, <2>2 DEF NoOlderPicture
<1> QED
  BY <1>3, <1>5, <1>6, <1>9, <1>10

LEMMA ScalingStep == ScalingInv /\ [EncoderCe3226Next]_encoderVars => ScalingInv'
<1> SUFFICES ASSUME ScalingInv, [EncoderCe3226Next]_encoderVars PROVE ScalingInv'
  OBVIOUS
<1>1. CASE UNCHANGED encoderVars
  BY <1>1 DEF encoderVars, ScalingInv, EncoderTyped, ScratchCounted, ChannelOrdered, ScratchFresh,
              EncodedOrdered, NoOlderPicture, Sent
<1>2. CASE SendDirect \/ \E ok \in BOOLEAN : SendScaled(ok)
  BY <1>2, SendToChannelStep
<1>3. CASE EncodeFrame
  BY <1>3, EncodeFrameStep
<1>4. CASE \/ \E type \in {"H264", "INVALID"}, rate \in EncRates, free \in BOOLEAN : CreateEncoder(type, rate, free)
           \/ \E size \in EncSizes : SendFrame(size)
           \/ SendEosFrame \/ DestroyEncoder
           \/ \E pool, surface \in BOOLEAN : (surface => pool) /\ CreateScratch(pool, surface)
  <2>1. UNCHANGED <<scaled, encoded>>
    BY <1>4 DEF CreateEncoder, SendFrame, SendEosFrame, DestroyEncoder, CreateScratch
  <2> QED
    BY <1>4, <2>1, EncoderQuietStep
<1> QED
  BY <1>1, <1>2, <1>3, <1>4 DEF EncoderCe3226Next

\* EncoderCe3226::SendFrame with its one scratch surface, for streams of any length
\* and channels of any depth: the channel gets frames of its own size, none is
\* encoded twice, out of order or from an older picture, and no pool is made for
\* a surface that exists.
THEOREM ScalingIsSafe == EncoderCe3226Spec => []ScalingSafe
<1>1. ScalingInv => ScalingSafe
  <2> SUFFICES ASSUME ScalingInv PROVE ScalingSafe
    OBVIOUS
  <2>1. ChannelGetsItsSize /\ NoOlderPicture
    BY DEF ScalingInv, ChannelGetsItsSize, ChannelOrdered
  <2>2. OneScratchPool
    BY DEF ScalingInv, OneScratchPool, ScratchCounted, EncoderTyped
  <2> QED
    BY <2>1, <2>2 DEF ScalingSafe
<1> QED
  BY <1>1, ScalingInit, ScalingStep, PTL DEF EncoderCe3226Spec

-----------------------------------------------------------------------------
(* StreamRunner: sequences of pictures *)

LEMMA RisingAppend ==
  ASSUME NEW s \in Seq(Nat), NEW n \in Nat, Rising(s),
         n # 0 => \A x \in PicturesIn(s) : x < n
  PROVE  /\ Append(s, n) \in Seq(Nat) /\ Rising(Append(s, n))
         /\ PicturesIn(Append(s, n)) = PicturesIn(s) \cup {n}
<1> DEFINE t == Append(s, n)
<1>1. /\ t \in Seq(Nat) /\ DOMAIN t = DOMAIN s \cup {Len(s) + 1} /\ t[Len(s) + 1] = n
      /\ \A i \in DOMAIN s : t[i] = s[i] /\ i \in 1 .. Len(s) /\ Len(s) \in Nat /\ s[i] \in Nat
  OBVIOUS
<1> HIDE DEF t
<1>2. PicturesIn(t) = PicturesIn(s) \cup {n}
  BY <1>1 DEF PicturesIn
<1>3. ASSUME NEW i \in DOMAIN t, NEW j \in DOMAIN t, i < j, t[i] # 0, t[j] # 0
      PROVE  t[i] < t[j]
  <2>1. i \in DOMAIN s
    BY <1>1, <1>3
  <2>2. CASE j \in DOMAIN s
    BY <1>1, <1>3, <2>1, <2>2 DEF Rising
  <2>3. CASE j = Len(s) + 1
    <3>1. t[j] = n /\ t[i] = s[i] /\ s[i] \in PicturesIn(s) /\ n # 0
      BY <1>1, <1>3, <2>1, <2>3 DEF PicturesIn
    <3> QED
      BY <3>1
  <2> QED
    BY <1>1, <2>2, <2>3
<1> QED
  BY <1>1, <1>2, <1>3 DEF Rising, t

LEMMA RisingTail ==
  ASSUME NEW s \in Seq(Nat), s # <<>>, Rising(s)
  PROVE  /\ Tail(s) \in Seq(Nat) /\ Head(s) \in Nat /\ Rising(Tail(s))
         /\ PicturesIn(s) = {Head(s)} \cup PicturesIn(Tail(s))
         /\ Head(s) # 0 => \A x \in PicturesIn(Tail(s)) \ {0} : Head(s) < x
<1> DEFINE t == Tail(s)
<1>1. /\ t \in Seq(Nat) /\ Head(s) = s[1] /\ Head(s) \in Nat /\ 1 \in DOMAIN s
      /\ \A i \in DOMAIN t : t[i] = s[i + 1] /\ i + 1 \in DOMAIN s /\ i \in Nat /\ 1 < i + 1
      /\ \A i \in DOMAIN s : i = 1 \/ (i - 1 \in DOMAIN t /\ i \in Nat)
  OBVIOUS
<1> HIDE DEF t
<1>2. \A i \in DOMAIN s : i # 1 => s[i] = t[i - 1]
  <2> SUFFICES ASSUME NEW i \in DOMAIN s, i # 1 PROVE s[i] = t[i - 1]
    OBVIOUS
  <2>1. i - 1 \in DOMAIN t /\ i - 1 + 1 = i
    BY <1>1
  <2> QED
    BY <1>1, <2>1
<1>3. PicturesIn(s) = {Head(s)} \cup PicturesIn(t)
  BY <1>1, <1>2 DEF PicturesIn
<1>4. Rising(t)
  <2> SUFFICES ASSUME NEW i \in DOMAIN t, NEW j \in DOMAIN t, i < j, t[i] # 0, t[j] # 0
               PROVE  t[i] < t[j]
    BY DEF Rising
  <2>1. i + 1 < j + 1 /\ t[i] = s[i + 1] /\ t[j] = s[j + 1] /\ i + 1 \in DOMAIN s /\ j + 1 \in DOMAIN s
    BY <1>1
  <2> QED
    BY <2>1 DEF Rising
<1>5. Head(s) # 0 => \A x \in PicturesIn(t) \ {0} : Head(s) < x
  BY <1>1 DEF Rising, PicturesIn
<1> QED
  BY <1>1, <1>3, <1>4, <1>5 DEF t

-----------------------------------------------------------------------------
(* StreamRunner: the decoder *)

LEMMA DecoderWork ==
  ASSUME NEW d \in Decoders, EosMarked(d)
  PROVE  /\ WithEos(d) \in Decoders /\ EosMarked(WithEos(d))
         /\ WithEos(d).on = d.on /\ (d.eos => WithEos(d).eos)
         /\ d.on => LET p == [d EXCEPT !.work = Append(@, "packet")]
                    IN  p \in Decoders /\ EosMarked(p) /\ p.on = d.on /\ p.eos = d.eos
         /\ d.work # <<>> => LET t == [d EXCEPT !.work = Tail(@)]
                             IN  t \in Decoders /\ EosMarked(t) /\ t.on = d.on /\ t.eos = d.eos
<1>1. /\ d.on \in BOOLEAN /\ d.eos \in BOOLEAN /\ d.work \in Seq({"packet", "eos"})
      /\ d = [on |-> d.on, eos |-> d.eos, work |-> d.work]
  BY DEF Decoders
<1>2. ASSUME d.on, ~d.eos
      PROVE  WithEos(d) \in Decoders /\ WithEos(d).on = d.on /\ WithEos(d).eos /\ EosMarked(WithEos(d))
  <2>1. WithEos(d) = [on |-> d.on, eos |-> TRUE, work |-> Append(d.work, "eos")]
    BY <1>1, <1>2 DEF WithEos
  <2>2. Append(d.work, "eos") \in Seq({"packet", "eos"})
    BY <1>1
  <2> QED
    BY <1>1, <1>2, <2>1, <2>2 DEF Decoders, EosMarked
<1>3. ~d.on \/ d.eos => WithEos(d) = d
  BY DEF WithEos
<1>4. ASSUME d.on
      PROVE  LET p == [d EXCEPT !.work = Append(@, "packet")]
             IN  p \in Decoders /\ EosMarked(p) /\ p.on = d.on /\ p.eos = d.eos
  <2> DEFINE p == [d EXCEPT !.work = Append(@, "packet")]
             w == Append(d.work, "packet")
  <2>1. p.on = d.on /\ p.eos = d.eos /\ p.work = w
    BY DEF Decoders
  <2>2. w \in Seq({"packet", "eos"}) /\ \A i \in DOMAIN w : w[i] = "eos" => i \in DOMAIN d.work /\ d.work[i] = "eos"
    BY <1>1
  <2>3. p \in Decoders
    BY <1>1, <2>2 DEF Decoders
  <2> QED
    BY <1>4, <2>1, <2>2, <2>3 DEF EosMarked
<1>5. ASSUME d.work # <<>>
      PROVE  LET t == [d EXCEPT !.work = Tail(@)]
             IN  t \in Decoders /\ EosMarked(t) /\ t.on = d.on /\ t.eos = d.eos
  <2> DEFINE t == [d EXCEPT !.work = Tail(@)]
             w == Tail(d.work)
  <2>1. t.on = d.on /\ t.eos = d.eos /\ t.work = w
    BY DEF Decoders
  <2>2. w \in Seq({"packet", "eos"}) /\ \A i \in DOMAIN w : i + 1 \in DOMAIN d.work /\ w[i] = d.work[i + 1]
    BY <1>1, <1>5
  <2>3. t \in Decoders
    BY <1>1, <2>2 DEF Decoders
  <2> QED
    BY <1>5, <2>1, <2>2, <2>3 DEF EosMarked
<1> QED
  BY <1>2, <1>3, <1>4, <1>5

-----------------------------------------------------------------------------
(* StreamRunner: the inductive invariant *)

\* The variables that say where the pictures are.
pictureVars == <<frames_, decoded, inUse, taken, inferring, shown, refused, unanswered>>

LEMMA RunnerInitInv == RunnerInit => RunnerInv
<1> SUFFICES ASSUME RunnerInit PROVE RunnerInv
  OBVIOUS
<1> USE DEF RunnerInit
<1>1. NoDecoder \in Decoders /\ EosMarked(NoDecoder) /\ ~NoDecoder.on
  BY DEF NoDecoder, Decoders, EosMarked
<1>2. RunnerTyped
  BY <1>1 DEF RunnerTyped
<1>3. QueuedPictures = {} /\ Held = {} /\ Asked = {} /\ Done = {}
  BY DEF QueuedPictures, Held, Asked, Done, PicturesIn
<1>4. PicturesOrdered
  BY <1>3 DEF PicturesOrdered, Before, Rising
<1>5. PicturesKept
  BY <1>3 DEF PicturesKept, PicturesIn
<1>6. SourceHeld /\ EosFresh
  BY <1>1 DEF SourceHeld, EosFresh
<1> QED
  BY <1>2, <1>4, <1>5, <1>6 DEF RunnerInv

LEMMA PicturesUnchanged ==
  ASSUME PicturesOrdered, PicturesKept, UNCHANGED pictureVars
  PROVE  PicturesOrdered' /\ PicturesKept'
BY DEF PicturesOrdered, PicturesKept, pictureVars, QueuedPictures, Held, Asked, Done

\* The decoder gets a packet or an end, or has done one, and the main thread goes
\* on reading.
LEMMA ReadingStep ==
  ASSUME RunnerInv,
         \/ Demux \/ ParseStopped \/ ReadEof \/ ReadSkipped \/ RoundEnds \/ WaitEos \/ LeaveDemux \/ DestroyDemo
         \/ HandleAlarm \/ NoBufSurface \/ LoopStart \/ LoopTest \/ ProcessEos
         \/ \E sent \in BOOLEAN : ReadPacket(sent)
  PROVE  RunnerInv'
<1> USE DEF RunnerInv
<1> DEFINE busy == {"new", "destroyDecoder", "destroyPool", "forget", "reopen", "ended"}
<1>1. /\ UNCHANGED pictureVars /\ UNCHANGED <<have_video_source_, surf_pool_, receive_eos_>>
      /\ afterClose' \in {"ended", "forget"}
      /\ loop_pc' = loop_pc \/ loop_pc' # "process"
      /\ loop_pc' # "process" => taken = 0
      /\ loop_pc = "none" => loop_pc' = "none"
      /\ runner_pc' = runner_pc \/ (runner_pc \notin busy /\ runner_pc' \notin busy)
  BY DEF Demux, ParseStopped, ReadEof, ReadSkipped, RoundEnds, WaitEos, LeaveDemux, DestroyDemo, HandleAlarm,
         NoBufSurface, LoopStart, LoopTest, ProcessEos, ReadPacket, Reading, RunnerTyped,
         pictureVars, flowVars, parserVars, decVars, queueVars, loopVars, serverVars, DecoderOnEos
<1>2. \/ vdec_' = vdec_ \/ vdec_' = WithEos(vdec_)
      \/ vdec_.on /\ vdec_' = [vdec_ EXCEPT !.work = Append(@, "packet")]
      \/ vdec_.work # <<>> /\ vdec_' = [vdec_ EXCEPT !.work = Tail(@)]
  BY DEF Demux, ParseStopped, ReadEof, ReadSkipped, RoundEnds, WaitEos, LeaveDemux, DestroyDemo, HandleAlarm,
         NoBufSurface, LoopStart, LoopTest, ProcessEos, ReadPacket, decVars, DecoderOnEos
<1>3. vdec_' \in Decoders /\ EosMarked(vdec_)' /\ vdec_'.on = vdec_.on /\ (vdec_.eos => vdec_'.eos)
  <2>1. vdec_ \in Decoders /\ EosMarked(vdec_)
    BY DEF RunnerTyped, EosFresh
  <2>2. vdec_' \in Decoders /\ EosMarked(vdec_') /\ vdec_'.on = vdec_.on /\ (vdec_.eos => vdec_'.eos)
    BY <1>2, <2>1, DecoderWork
  <2> QED
    BY <2>2 DEF EosMarked
<1>4. RunnerTyped'
  BY <1>1, <1>3 DEF RunnerTyped, pictureVars
<1>5. PicturesOrdered' /\ PicturesKept'
  BY <1>1, PicturesUnchanged
<1>6. SourceHeld'
  BY <1>1, <1>3 DEF SourceHeld, pictureVars
<1>7. EosFresh'
  BY <1>1, <1>3 DEF EosFresh
<1> QED
  BY <1>4, <1>5, <1>6, <1>7

\* The source is opened.
LEMMA OpenStep ==
  ASSUME RunnerInv, NEW result \in OpenResults, Construct(result) \/ Reopen(result)
  PROVE  RunnerInv'
<1> USE DEF RunnerInv
<1>1. /\ runner_pc \in {"new", "reopen"} /\ runner_pc' = "demux" /\ OpenSource(result)
      /\ UNCHANGED pictureVars /\ UNCHANGED <<afterClose, receive_eos_>>
      /\ loop_pc' = loop_pc \/ loop_pc' = "start"
      /\ loop_pc' # "process" => taken = 0
  <2>1. CASE Reopen(result)
    BY <2>1 DEF Reopen, pictureVars, queueVars, loopVars, serverVars, RunnerTyped
  <2>2. CASE Construct(result)
    <3>1. runner_pc = "new" /\ loop_pc = "none" /\ taken = 0
      BY <2>2 DEF Construct, RunnerTyped
    <3> QED
      BY <2>2, <3>1 DEF Construct, pictureVars, queueVars, serverVars
  <2> QED
    BY <2>1, <2>2
<1>2. /\ ~have_video_source_ /\ ~vdec_.on /\ surf_pool_ # "open" /\ inUse = {} /\ ~receive_eos_
      /\ vdec_ \in Decoders /\ EosMarked(vdec_)
  BY <1>1 DEF SourceHeld, EosFresh, RunnerTyped
<1>3. NewDecoder \in Decoders /\ EosMarked(NewDecoder)
  <2>1. NoDecoder \in Decoders /\ NoDecoder.work = <<>>
    BY DEF NoDecoder, Decoders
  <2>2. NewDecoder \in Decoders /\ NewDecoder.work = <<>>
    BY <2>1 DEF NewDecoder, Decoders
  <2> QED
    BY <2>2 DEF EosMarked
<1>4. \/ have_video_source_' = have_video_source_ /\ vdec_' = vdec_ /\ surf_pool_' = surf_pool_
      \/ have_video_source_' = TRUE /\ vdec_' = vdec_
      \/ have_video_source_' = TRUE /\ vdec_' = NewDecoder /\ surf_pool_' = "open"
  BY <1>1 DEF OpenSource, DecoderInit, OpenResults, parserVars
<1>5. RunnerTyped'
  BY <1>1, <1>2, <1>3, <1>4 DEF RunnerTyped, pictureVars
<1>6. PicturesOrdered' /\ PicturesKept'
  BY <1>1, PicturesUnchanged
<1>7. SourceHeld'
  BY <1>1, <1>2, <1>4 DEF SourceHeld, pictureVars
<1>8. EosFresh'
  BY <1>1, <1>2, <1>3, <1>4 DEF EosFresh, EosMarked
<1> QED
  BY <1>5, <1>6, <1>7, <1>8

\* The source is closed, and the decoder and the pool with it.
LEMMA CloseStep ==
  ASSUME RunnerInv, CloseSourceBegin \/ DestroyDecoder \/ DestroySurfPool \/ ForgetEos
  PROVE  RunnerInv'
<1> USE DEF RunnerInv
<1>1. UNCHANGED pictureVars /\ UNCHANGED <<afterClose, loop_pc>> /\ (receive_eos_' => receive_eos_)
      /\ vdec_ \in Decoders /\ EosMarked(vdec_) /\ afterClose \in {"ended", "forget"}
  BY DEF CloseSourceBegin, DestroyDecoder, DestroySurfPool, ForgetEos, pictureVars, queueVars, loopVars, serverVars,
         RunnerTyped, EosFresh
<1>2. NoDecoder \in Decoders /\ EosMarked(NoDecoder) /\ ~NoDecoder.on
  BY DEF NoDecoder, Decoders, EosMarked
<1>3. vdec_' = vdec_ \/ vdec_' = WithEos(vdec_) \/ vdec_' = NoDecoder
  BY DEF CloseSourceBegin, DestroyDecoder, DestroySurfPool, ForgetEos, decVars
<1>4. /\ vdec_' \in Decoders /\ EosMarked(vdec_')
      /\ vdec_'.on => vdec_.on /\ (vdec_.eos => vdec_'.eos)
  BY <1>1, <1>2, <1>3, DecoderWork
<1>5. RunnerTyped'
  <2>1. runner_pc' # "new"
    BY <1>1 DEF CloseSourceBegin, DestroyDecoder, DestroySurfPool, ForgetEos
  <2> QED
    BY <1>1, <1>4, <2>1 DEF RunnerTyped, pictureVars
<1>6. PicturesOrdered' /\ PicturesKept'
  BY <1>1, PicturesUnchanged
<1>7. SourceHeld'
  <2>1. CASE CloseSourceBegin
    BY <1>1, <1>4, <2>1 DEF CloseSourceBegin, SourceHeld, pictureVars
  <2>2. CASE DestroyDecoder
    BY <1>1, <1>2, <2>2 DEF DestroyDecoder, SourceHeld, pictureVars, parserVars
  <2>3. CASE DestroySurfPool
    BY <1>1, <2>3 DEF DestroySurfPool, SourceHeld, pictureVars, parserVars
  <2>4. CASE ForgetEos
    BY <1>1, <2>4 DEF ForgetEos, SourceHeld, pictureVars, parserVars, decVars
  <2> QED
    BY <2>1, <2>2, <2>3, <2>4
<1>8. EosFresh'
  <2>1. runner_pc' \notin {"new", "reopen"} \/ ~receive_eos_'
    BY <1>1 DEF CloseSourceBegin, DestroyDecoder, DestroySurfPool, ForgetEos
  <2>2. EosMarked(vdec_)'
    BY <1>4 DEF EosMarked
  <2> QED
    BY <1>1, <1>4, <2>1, <2>2 DEF EosFresh
<1> QED
  BY <1>5, <1>6, <1>7, <1>8

\* Where pictures are and how they compare.
LEMMA PictureFacts ==
  ASSUME RunnerInv
  PROVE  /\ QueuedPictures \subseteq 1 .. decoded /\ Held \subseteq 1 .. decoded /\ Asked \subseteq 1 .. decoded
         /\ Done \subseteq 1 .. decoded /\ PicturesIn(shown) \subseteq 1 .. decoded
         /\ decoded \in Nat
         /\ PicturesIn(frames_) \subseteq Nat
BY DEF RunnerInv, RunnerTyped, PicturesKept, Done, PicturesIn

\* A callback of the decoder.
LEMMA CallbackStep ==
  ASSUME RunnerInv, OnDecodeFrame \/ OnDecodeEos
  PROVE  RunnerInv'
<1> USE DEF RunnerInv
<1> DEFINE n == decoded + 1
<1>1. /\ vdec_ \in Decoders /\ EosMarked(vdec_) /\ vdec_.work # <<>> /\ vdec_' = [vdec_ EXCEPT !.work = Tail(@)]
      /\ UNCHANGED <<runner_pc, afterClose, have_video_source_, surf_pool_, loop_pc, taken, inferring, shown, refused,
                     unanswered>>
  BY DEF OnDecodeFrame, OnDecodeEos, RunnerTyped, EosFresh, flowVars, parserVars, loopVars, serverVars
<1>2. vdec_' \in Decoders /\ EosMarked(vdec_)' /\ vdec_'.on = vdec_.on /\ vdec_'.eos = vdec_.eos
  <2>1. vdec_' \in Decoders /\ EosMarked(vdec_') /\ vdec_'.on = vdec_.on /\ vdec_'.eos = vdec_.eos
    BY <1>1, DecoderWork
  <2> QED
    BY <2>1 DEF EosMarked
<1>3. vdec_.on /\ surf_pool_ = "open" /\ runner_pc \notin {"new", "reopen"}
  BY <1>1 DEF EosMarked, SourceHeld
<1>4. UNCHANGED <<Held, Asked, Done>>
  BY <1>1 DEF Held, Asked, Done
<1>5. CASE OnDecodeFrame
  <2>1. /\ decoded' = n /\ inUse' = inUse \cup {n} /\ frames_' = Append(frames_, n) /\ receive_eos_' = receive_eos_
    BY <1>5 DEF OnDecodeFrame
  <2>2. /\ n \in Nat /\ n # 0 /\ frames_ \in Seq(Nat) /\ Rising(frames_) /\ 1 .. n = 1 .. decoded \cup {n}
        /\ \A x \in 1 .. decoded : x < n
    BY DEF RunnerTyped, PicturesOrdered
  <2>3. \A x \in PicturesIn(frames_) : x < n
    BY <2>2, PictureFacts DEF QueuedPictures
  <2>4. /\ frames_' \in Seq(Nat) /\ Rising(frames_') /\ PicturesIn(frames_') = PicturesIn(frames_) \cup {n}
    BY <2>1, <2>2, <2>3, RisingAppend
  <2> HIDE DEF n
  <2>5. QueuedPictures' = QueuedPictures \cup {n}
    BY <2>2, <2>4 DEF QueuedPictures
  <2>6. RunnerTyped'
    BY <1>1, <1>2, <2>1, <2>2, <2>4 DEF RunnerTyped
  <2>7. PicturesOrdered'
    <3>1. Before(Done, QueuedPictures)' /\ Before(Asked, QueuedPictures)' /\ Before(Held, QueuedPictures)'
      BY <1>4, <2>2, <2>5, PictureFacts DEF PicturesOrdered, Before
    <3>2. Rising(frames_)' /\ Rising(inferring)' /\ Rising(shown)'
      BY <1>1, <2>4 DEF PicturesOrdered, Rising
    <3> QED
      BY <1>4, <3>1, <3>2 DEF PicturesOrdered, Before
  <2>8. PicturesKept'
    BY <1>1, <1>4, <2>1, <2>2, <2>5 DEF PicturesKept
  <2>9. SourceHeld'
    BY <1>1, <1>2, <1>3 DEF SourceHeld
  <2>10. EosFresh'
    BY <1>1, <1>2, <2>1 DEF EosFresh
  <2> QED
    BY <2>6, <2>7, <2>8, <2>9, <2>10
<1>6. CASE OnDecodeEos
  <2>1. UNCHANGED <<decoded, inUse>> /\ frames_' = Append(frames_, 0) /\ vdec_.eos
    BY <1>1, <1>6 DEF OnDecodeEos, EosMarked, Decoders
  <2>2. frames_' \in Seq(Nat) /\ Rising(frames_') /\ PicturesIn(frames_') = PicturesIn(frames_) \cup {0}
    BY <2>1, RisingAppend DEF RunnerTyped, PicturesOrdered
  <2>3. QueuedPictures' = QueuedPictures
    BY <2>2 DEF QueuedPictures
  <2>4. RunnerTyped'
    BY <1>1, <1>2, <2>1, <2>2 DEF RunnerTyped
  <2>5. PicturesOrdered'
    BY <1>1, <1>4, <2>2, <2>3 DEF PicturesOrdered, Before, Rising
  <2>6. PicturesKept'
    BY <1>1, <1>4, <2>1, <2>3 DEF PicturesKept
  <2>7. SourceHeld' /\ EosFresh'
    BY <1>1, <1>2, <1>3, <2>1 DEF SourceHeld, EosFresh
  <2> QED
    BY <2>4, <2>5, <2>6, <2>7
<1> QED
  BY <1>5, <1>6

\* RunLoop takes a frame or finds none.
LEMMA LoopPopStep ==
  ASSUME RunnerInv, LoopPop
  PROVE  RunnerInv'
<1> USE DEF RunnerInv
<1>1. /\ loop_pc = "wait" /\ taken = 0
      /\ UNCHANGED <<runner_pc, afterClose, have_video_source_, surf_pool_, vdec_, receive_eos_, decoded, inUse,
                     inferring, shown, refused, unanswered>>
  BY DEF LoopPop, RunnerTyped, flowVars, parserVars, decVars, serverVars
<1>2. SourceHeld' /\ EosFresh'
  BY <1>1 DEF SourceHeld, EosFresh, EosMarked
<1>3. UNCHANGED <<Asked, Done>> /\ Held = {}
  BY <1>1 DEF Held, Asked, Done
<1>4. CASE frames_ = <<>>
  <2>1. UNCHANGED <<frames_, taken>> /\ loop_pc' = "test"
    BY <1>4 DEF LoopPop
  <2> QED
    BY <1>1, <1>2, <2>1, PicturesUnchanged DEF RunnerTyped, pictureVars
<1>5. CASE frames_ # <<>>
  <2>1. loop_pc' = "process" /\ taken' = Head(frames_) /\ frames_' = Tail(frames_)
    BY <1>5 DEF LoopPop
  <2>2. /\ frames_' \in Seq(Nat) /\ taken' \in Nat /\ Rising(frames_')
        /\ PicturesIn(frames_) = {taken'} \cup PicturesIn(frames_')
        /\ taken' # 0 => \A x \in PicturesIn(frames_') \ {0} : taken' < x
    BY <1>5, <2>1, RisingTail DEF RunnerTyped, PicturesOrdered
  <2>3. QueuedPictures = Held' \cup QueuedPictures' /\ Before(Held, QueuedPictures)'
    BY <2>2 DEF QueuedPictures, Held, Before
  <2>4. RunnerTyped'
    BY <1>1, <2>1, <2>2 DEF RunnerTyped
  <2>5. PicturesOrdered'
    <3>1. Rising(frames_)' /\ Rising(inferring)' /\ Rising(shown)'
      BY <1>1, <2>2 DEF PicturesOrdered, Rising
    <3>2. Before(Done, QueuedPictures)' /\ Before(Asked, QueuedPictures)' /\ Before(Done, Held)' /\ Before(Asked, Held)'
      BY <1>3, <2>3 DEF PicturesOrdered, Before
    <3> QED
      BY <1>3, <2>3, <3>1, <3>2 DEF PicturesOrdered, Before
  <2>6. PicturesKept'
    BY <1>1, <1>3, <2>3 DEF PicturesKept
  <2> QED
    BY <1>2, <2>4, <2>5, <2>6
<1> QED
  BY <1>4, <1>5

\* RunLoop hands its frame to the server, which may refuse it.
LEMMA ProcessFrameStep ==
  ASSUME RunnerInv, NEW accepted \in BOOLEAN, ProcessFrame(accepted)
  PROVE  RunnerInv'
<1> USE DEF RunnerInv
<1>1. /\ taken # 0 /\ taken \in Nat /\ taken' = 0 /\ loop_pc' = "test"
      /\ inferring' = IF accepted THEN Append(inferring, taken) ELSE inferring
      /\ refused' = IF accepted THEN refused ELSE refused \cup {taken}
      /\ inUse' = IF accepted THEN inUse ELSE inUse \ {taken}
      /\ UNCHANGED <<runner_pc, afterClose, have_video_source_, surf_pool_, vdec_, receive_eos_, decoded, frames_,
                     shown, unanswered>>
  BY DEF ProcessFrame, RunnerTyped, flowVars, parserVars, decVars, queueVars
<1>2. Held = {taken} /\ Held' = {} /\ UNCHANGED <<QueuedPictures, Done>>
  BY <1>1 DEF Held, QueuedPictures, Done
<1>3. SourceHeld' /\ EosFresh'
  BY <1>1 DEF SourceHeld, EosFresh, EosMarked
<1>4. \A x \in Asked : x < taken
  BY <1>2 DEF PicturesOrdered, Before
<1>5. CASE accepted
  <2>1. /\ inferring' \in Seq(Nat) /\ Rising(inferring') /\ PicturesIn(inferring') = PicturesIn(inferring) \cup {taken}
    BY <1>1, <1>4, <1>5, RisingAppend DEF RunnerTyped, PicturesOrdered, Asked
  <2>2. Asked' = Asked \cup Held
    BY <1>2, <2>1 DEF Asked
  <2>3. RunnerTyped'
    BY <1>1, <2>1 DEF RunnerTyped
  <2>4. PicturesOrdered'
    <3>1. Rising(frames_)' /\ Rising(inferring)' /\ Rising(shown)'
      BY <1>1, <2>1 DEF PicturesOrdered, Rising
    <3>2. Before(Done, Asked)' /\ Before(Asked, QueuedPictures)'
      BY <1>2, <2>2 DEF PicturesOrdered, Before
    <3>3. Before(Done, QueuedPictures)' /\ Before(Done, Held)' /\ Before(Asked, Held)' /\ Before(Held, QueuedPictures)'
      BY <1>2 DEF PicturesOrdered, Before
    <3> QED
      BY <3>1, <3>2, <3>3 DEF PicturesOrdered
  <2>5. PicturesKept'
    BY <1>1, <1>2, <1>5, <2>2 DEF PicturesKept
  <2> QED
    BY <1>3, <2>3, <2>4, <2>5
<1>6. CASE ~accepted
  <2>1. Asked' = Asked /\ inferring' = inferring
    BY <1>1, <1>6 DEF Asked
  <2>2. RunnerTyped'
    BY <1>1, <2>1 DEF RunnerTyped
  <2>3. PicturesOrdered'
    BY <1>1, <1>2, <2>1 DEF PicturesOrdered, Before, Rising
  <2>4. taken \notin QueuedPictures /\ taken \notin Asked /\ taken \notin unanswered
    BY <1>1, <1>2 DEF PicturesOrdered, Before, Done
  <2>5. PicturesKept'
    BY <1>1, <1>2, <1>6, <2>1, <2>4 DEF PicturesKept
  <2> QED
    BY <1>3, <2>2, <2>3, <2>5
<1> QED
  BY <1>5, <1>6

\* The server answers its oldest request.
LEMMA ObserverStep ==
  ASSUME RunnerInv, NEW valid \in BOOLEAN, ObserverCallback(valid)
  PROVE  RunnerInv'
<1> USE DEF RunnerInv
<1> DEFINE h == Head(inferring)
<1>1. /\ inferring # <<>> /\ inferring' = Tail(inferring)
      /\ shown' = IF valid THEN Append(shown, h) ELSE shown
      /\ unanswered' = IF valid THEN unanswered ELSE unanswered \cup {h}
      /\ inUse' = IF valid THEN inUse \ {h} ELSE inUse
      /\ UNCHANGED <<runner_pc, afterClose, have_video_source_, surf_pool_, vdec_, receive_eos_, decoded, frames_,
                     loop_pc, taken, refused>>
  BY DEF ObserverCallback, flowVars, parserVars, decVars, queueVars, loopVars
<1>2. /\ inferring' \in Seq(Nat) /\ h \in Nat /\ Rising(inferring') /\ Asked = {h} \cup Asked'
      /\ h # 0 => \A x \in Asked' \ {0} : h < x
  BY <1>1, RisingTail DEF RunnerTyped, PicturesOrdered, Asked
<1>3. h \in 1 .. decoded /\ h # 0 /\ 0 \notin Asked' /\ \A x \in Asked' : h < x
  BY <1>2, PictureFacts
<1>4. shown' \in Seq(Nat) /\ Rising(shown') /\ Done' = Done \cup {h}
      /\ PicturesIn(shown') = PicturesIn(shown) \cup (IF valid THEN {h} ELSE {})
  <2>1. \A x \in PicturesIn(shown) : x < h
    BY <1>2 DEF PicturesOrdered, Before, Done
  <2>2. Append(shown, h) \in Seq(Nat) /\ Rising(Append(shown, h)) /\ PicturesIn(Append(shown, h)) = PicturesIn(shown) \cup {h}
    BY <1>2, <2>1, RisingAppend DEF RunnerTyped, PicturesOrdered
  <2> QED
    BY <1>1, <2>2 DEF RunnerTyped, PicturesOrdered, Done
<1> HIDE DEF h
<1>5. UNCHANGED <<QueuedPictures, Held>>
  BY <1>1 DEF QueuedPictures, Held
<1>6. RunnerTyped'
  BY <1>1, <1>2, <1>4 DEF RunnerTyped
<1>7. PicturesOrdered'
  <2>1. Rising(frames_)' /\ Rising(inferring)' /\ Rising(shown)'
    BY <1>1, <1>2, <1>4 DEF PicturesOrdered, Rising
  <2>2. Before(Done, Asked)' /\ Before(Done, Held)' /\ Before(Done, QueuedPictures)'
    BY <1>2, <1>3, <1>4, <1>5 DEF PicturesOrdered, Before
  <2>3. Before(Asked, Held)' /\ Before(Asked, QueuedPictures)' /\ Before(Held, QueuedPictures)'
    BY <1>2, <1>5 DEF PicturesOrdered, Before
  <2> QED
    BY <2>1, <2>2, <2>3 DEF PicturesOrdered
<1>8. PicturesKept'
  <2>1. h \notin QueuedPictures /\ h \notin Held /\ h \notin Asked' /\ h \notin unanswered
    BY <1>2, <1>3 DEF PicturesOrdered, Before, Done
  <2>2. h \in inUse
    BY <1>2 DEF PicturesKept
  <2>3. CASE valid
    BY <1>1, <1>2, <1>4, <1>5, <2>1, <2>2, <2>3 DEF PicturesKept
  <2>4. CASE ~valid
    BY <1>1, <1>2, <1>4, <1>5, <2>1, <2>2, <2>4 DEF PicturesKept
  <2> QED
    BY <2>3, <2>4
<1>9. SourceHeld' /\ EosFresh'
  BY <1>1 DEF SourceHeld, EosFresh, EosMarked
<1> QED
  BY <1>6, <1>7, <1>8, <1>9

LEMMA RunnerStep == RunnerInv /\ [RunnerNext]_runnerVars => RunnerInv'
<1> SUFFICES ASSUME RunnerInv, [RunnerNext]_runnerVars PROVE RunnerInv'
  OBVIOUS
<1>1. CASE UNCHANGED runnerVars
  <2>1. UNCHANGED pictureVars
    BY <1>1 DEF runnerVars, pictureVars
  <2>2. PicturesOrdered' /\ PicturesKept'
    BY <2>1, PicturesUnchanged DEF RunnerInv
  <2>3. RunnerTyped' /\ SourceHeld' /\ EosFresh'
    BY <1>1 DEF RunnerInv, runnerVars, RunnerTyped, SourceHeld, EosFresh, EosMarked
  <2> QED
    BY <2>2, <2>3 DEF RunnerInv
<1>2. CASE RunnerNext
  BY <1>2, ReadingStep, OpenStep, CloseStep, CallbackStep, LoopPopStep, ProcessFrameStep, ObserverStep DEF RunnerNext
<1> QED
  BY <1>1, <1>2

LEMMA DisjointUnion ==
  ASSUME NEW S, NEW T, IsFiniteSet(S), IsFiniteSet(T), S \cap T = {}
  PROVE  IsFiniteSet(S \cup T) /\ Cardinality(S \cup T) = Cardinality(S) + Cardinality(T)
<1>1. IsFiniteSet(S \cup T) /\ Cardinality(S \cup T) = Cardinality(S) + Cardinality(T) - Cardinality(S \cap T)
  BY FS_Union
<1>2. Cardinality(S \cap T) = 0
  BY FS_EmptySet
<1>3. Cardinality(S) \in Nat /\ Cardinality(T) \in Nat
  BY FS_CardinalityType
<1> QED
  BY <1>1, <1>2, <1>3

\* The sets of pictures are disjoint, and a request is of one picture.
LEMMA PicturesCounted == RunnerInv => PictureInOnePlace
<1> SUFFICES ASSUME RunnerInv PROVE PictureInOnePlace
  OBVIOUS
<1> USE DEF RunnerInv
<1>1. /\ IsFiniteSet(QueuedPictures) /\ IsFiniteSet(Held) /\ IsFiniteSet(Asked) /\ IsFiniteSet(unanswered)
  <2>1. IsFiniteSet(1 .. decoded)
    BY PictureFacts, FS_Interval
  <2>2. unanswered \subseteq 1 .. decoded
    BY PictureFacts DEF Done
  <2> QED
    BY <2>1, <2>2, PictureFacts, FS_Subset
<1>2. /\ QueuedPictures \cap Held = {} /\ (QueuedPictures \cup Held) \cap Asked = {}
      /\ (QueuedPictures \cup Held \cup Asked) \cap unanswered = {}
  <2>1. ASSUME NEW A \in SUBSET Nat, NEW B, Before(A, B) PROVE A \cap B = {}
    <3> SUFFICES ASSUME NEW x \in A, x \in B PROVE FALSE
      OBVIOUS
    <3>1. x < x /\ x \in Nat
      BY <2>1 DEF Before
    <3> QED
      BY <3>1
  <2>2. Held \subseteq Nat /\ Asked \subseteq Nat /\ Done \subseteq Nat
    BY PictureFacts
  <2>3. /\ Held \cap QueuedPictures = {} /\ Asked \cap Held = {} /\ Asked \cap QueuedPictures = {}
        /\ Done \cap Asked = {} /\ Done \cap Held = {} /\ Done \cap QueuedPictures = {}
    BY <2>1, <2>2 DEF PicturesOrdered
  <2>4. unanswered \subseteq Done
    BY DEF Done
  <2> QED
    BY <2>3, <2>4
<1>3. Cardinality(Asked) = Len(inferring)
  <2>1. /\ inferring \in [1 .. Len(inferring) -> Asked] /\ Len(inferring) \in Nat
        /\ \A x \in Asked : \E i \in 1 .. Len(inferring) : inferring[i] = x
    <3>1. Len(inferring) \in Nat /\ DOMAIN inferring = 1 .. Len(inferring)
      BY DEF RunnerTyped
    <3>2. inferring \in [1 .. Len(inferring) -> Nat]
      BY DEF RunnerTyped
    <3> QED
      BY <3>1, <3>2 DEF Asked, PicturesIn
  <2>2. inferring \in Surjection(1 .. Len(inferring), Asked)
    BY <2>1 DEF Surjection
  <2>3. \A i, j \in 1 .. Len(inferring) : inferring[i] = inferring[j] => i = j
    <3> SUFFICES ASSUME NEW i \in 1 .. Len(inferring), NEW j \in 1 .. Len(inferring), i < j
                 PROVE  inferring[i] # inferring[j]
      BY <2>1
    <3>1. inferring[i] \in 1 .. decoded /\ inferring[j] \in 1 .. decoded /\ i \in DOMAIN inferring /\ j \in DOMAIN inferring
      BY <2>1, PictureFacts
    <3>2. inferring[i] < inferring[j]
      BY <3>1, PictureFacts DEF PicturesOrdered, Rising
    <3> QED
      BY <3>1, <3>2
  <2>4. inferring \in Injection(1 .. Len(inferring), Asked)
    BY <2>1, <2>3 DEF Injection, IsInjective
  <2>5. IsFiniteSet(1 .. Len(inferring)) /\ Cardinality(1 .. Len(inferring)) = Len(inferring)
    <3>1. PICK n \in Nat : n = Len(inferring)
      BY <2>1
    <3>2. IsFiniteSet(1 .. n) /\ Cardinality(1 .. n) = IF 1 > n THEN 0 ELSE n - 1 + 1
      BY FS_Interval
    <3> QED
      BY <3>1, <3>2
  <2> QED
    BY <2>2, <2>4, <2>5, FS_Surjection
<1>4. /\ Cardinality(QueuedPictures \cup Held) = Cardinality(QueuedPictures) + Cardinality(Held)
      /\ IsFiniteSet(QueuedPictures \cup Held)
  BY <1>1, <1>2, DisjointUnion
<1>5. /\ Cardinality(QueuedPictures \cup Held \cup Asked) = Cardinality(QueuedPictures \cup Held) + Cardinality(Asked)
      /\ IsFiniteSet(QueuedPictures \cup Held \cup Asked)
  BY <1>1, <1>2, <1>4, DisjointUnion
<1>6. Cardinality(QueuedPictures \cup Held \cup Asked \cup unanswered)
        = Cardinality(QueuedPictures \cup Held \cup Asked) + Cardinality(unanswered)
  BY <1>1, <1>2, <1>5, DisjointUnion
<1>7. inUse = QueuedPictures \cup Held \cup Asked \cup unanswered
  BY DEF PicturesKept
<1>8. Cardinality(inUse) = Cardinality(QueuedPictures) + Cardinality(Held) + Len(inferring) + Cardinality(unanswered)
  BY <1>3, <1>4, <1>5, <1>6, <1>7
<1> QED
  BY <1>7, <1>8 DEF PictureInOnePlace, QueuedPictures, Held, Asked

\* The simple demos lose no picture and no surface, however the decoder, RunLoop, the
\* server, repetitions and the alarm interleave, for files of any length: every surface
\* that is out belongs to one picture, pictures are drawn in order, the pool is
\* destroyed without surfaces and no round sees the end of an older one.
THEOREM RunnerIsSafe == RunnerSpec => []RunnerSafe
<1>1. RunnerInv => RunnerSafe
  <2> SUFFICES ASSUME RunnerInv PROVE RunnerSafe
    OBVIOUS
  <2>1. ShownInOrder
    <3>1. \A i \in DOMAIN shown : shown[i] # 0
      BY PictureFacts DEF PicturesIn
    <3> QED
      BY <3>1 DEF ShownInOrder, RunnerInv, PicturesOrdered, Rising
  <2>2. PoolOutlivesPictures
    BY DEF PoolOutlivesPictures, RunnerInv, SourceHeld, PicturesKept
  <2>3. NoOldEos
    BY DEF NoOldEos, RunnerInv, EosFresh
  <2> QED
    BY <2>1, <2>2, <2>3, PicturesCounted DEF RunnerSafe
<1> QED
  BY <1>1, RunnerInitInv, RunnerStep, PTL DEF RunnerSpec

-----------------------------------------------------------------------------
(* Processors *)

LEMMA EngineInitInv == Init => EngineInv
<1> SUFFICES ASSUME Init PROVE EngineInv
  OBVIOUS
<1> USE DEF Init
<1>1. Fresh \in Package /\ Fresh.st = "new" /\ Fresh.in = FALSE /\ Fresh.out = FALSE
  BY ProcessorsConstants DEF Fresh, Package, Engines, Nodes
<1>2. Cardinality(Packs) \in Nat
  BY ProcessorsConstants, FS_CardinalityType
<1>3. TypeOK
  <2>1. 1 \in Engines /\ 0 \in 0 .. Cardinality(Packs)
    BY <1>2, ProcessorsConstants DEF Engines
  <2>2. {handler, gOnParamsSet, crashed} \subseteq BOOLEAN
    OBVIOUS
  <2> QED
    BY <1>1, <2>1, <2>2 DEF TypeOK
<1>4. LoadCounted
  <2>1. \A e : Loaded(e) = {}
    BY <1>1 DEF Loaded, Of, Active
  <2> QED
    BY <2>1, FS_EmptySet DEF LoadCounted
<1>5. ProcessorLocked /\ BuffersPlaced
  BY <1>1 DEF ProcessorLocked, BuffersPlaced, BuffersOf
<1>6. ParamsUnderWay
  BY <1>1 DEF ParamsUnderWay, At
<1> QED
  BY <1>3, <1>4, <1>5, <1>6 DEF EngineInv

\* The packages of an engine are finitely many.
LEMMA PacksAreFinite ==
  ASSUME NEW S \in SUBSET Packs
  PROVE  /\ IsFiniteSet(S) /\ Cardinality(S) \in Nat /\ Cardinality(Packs) \in Nat
         /\ Cardinality(S) <= Cardinality(Packs)
BY ProcessorsConstants, FS_Subset, FS_CardinalityType

\* One package changes to r and keeps its place in the load of an engine.
LEMMA PackChanged ==
  ASSUME EngineInv, NEW p \in Packs, NEW r \in Package, pack' = [pack EXCEPT ![p] = r], BuffersOf(r)
  PROVE  /\ pack' \in [Packs -> Package] /\ pack'[p] = r
         /\ \A q \in Packs \ {p} : pack'[q] = pack[q]
         /\ BuffersPlaced'
         /\ (/\ r.st \in Active <=> pack[p].st \in Active
             /\ pack[p].st \in Active => r.eng = pack[p].eng)
            => \A e : Loaded(e)' = Loaded(e)
<1>1. /\ pack \in [Packs -> Package] /\ pack' \in [Packs -> Package] /\ pack'[p] = r
      /\ \A q \in Packs \ {p} : pack'[q] = pack[q]
  BY DEF EngineInv, TypeOK
<1>2. BuffersPlaced'
  <2> SUFFICES ASSUME NEW q \in Packs PROVE BuffersOf(pack[q])'
    BY DEF BuffersPlaced
  <2>1. CASE q = p
    BY <1>1, <2>1 DEF BuffersOf
  <2>2. CASE q # p
    BY <1>1, <2>2 DEF EngineInv, BuffersPlaced, BuffersOf
  <2> QED
    BY <2>1, <2>2
<1>3. ASSUME r.st \in Active <=> pack[p].st \in Active, pack[p].st \in Active => r.eng = pack[p].eng, NEW e
      PROVE  Loaded(e)' = Loaded(e)
  BY <1>1, <1>3 DEF Loaded, Of
<1> QED
  BY <1>1, <1>2, <1>3

\* Process returns: the package is queued for its next node, or over.
LEMMA ProcessorReleased ==
  ASSUME EngineInv, NEW p \in Packs, NEW ok \in BOOLEAN, NEW in \in BOOLEAN, NEW out \in BOOLEAN,
         pack[p].st \in {"start", "params", "buffer"}, Return(p, ok, in, out),
         in => ok /\ pack[p].node = Pre, out => pack[p].node = Infer
  PROVE  /\ pack' \in [Packs -> Package] /\ holder' \in [Engines \X Nodes -> Packs \cup {0}]
         /\ UNCHANGED engines /\ LoadCounted' /\ ProcessorLocked' /\ BuffersPlaced'
         /\ pack'[p].st \in {"queue", "count"}
         /\ \A q \in Packs \ {p} : pack'[q] = pack[q]
<1> DEFINE b == pack[p]
           r == IF ok /\ b.node < Post THEN [b EXCEPT !.st = "queue", !.node = b.node + 1, !.in = in, !.out = out]
                ELSE [b EXCEPT !.st = "count", !.in = in, !.out = out]
<1>1. /\ b \in Package /\ b.node \in Nodes /\ b.eng \in Engines /\ Proc(p) \in Engines \X Nodes
  BY DEF EngineInv, TypeOK, Package, Proc
<1>2. pack' = [pack EXCEPT ![p] = r]
  BY Zenon DEF Return
<1>3. /\ r \in Package /\ r.st \in {"queue", "count"} /\ r.eng = b.eng /\ r.in = in /\ r.out = out
      /\ ok /\ b.node < Post => r.st = "queue" /\ r.node = b.node + 1
      /\ ~(ok /\ b.node < Post) => r.st = "count" /\ r.node = b.node
  <2>1. CASE ok /\ b.node < Post
    <3>1. b.node + 1 \in Nodes
      BY <1>1, <2>1 DEF Nodes, Post
    <3>2. r = [b EXCEPT !.st = "queue", !.node = b.node + 1, !.in = in, !.out = out]
      BY <1>1, <2>1 DEF Package
    <3>3. r \in Package
      BY <1>1, <3>1, <3>2 DEF Package
    <3>4. r.st = "queue" /\ r.node = b.node + 1 /\ r.eng = b.eng /\ r.in = in /\ r.out = out
      BY <1>1, <3>2 DEF Package
    <3> QED
      BY <2>1, <3>3, <3>4
  <2>2. CASE ~(ok /\ b.node < Post)
    BY <1>1, <2>2 DEF Package, Nodes, Post
  <2> QED
    BY <2>1, <2>2
<1> HIDE DEF r
<1>4. BuffersOf(r)
  BY <1>1, <1>3 DEF BuffersOf, Nodes, Pre, Infer, Post
<1>5. /\ pack' \in [Packs -> Package] /\ pack'[p] = r /\ BuffersPlaced'
      /\ \A q \in Packs \ {p} : pack'[q] = pack[q]
      /\ \A e : Loaded(e)' = Loaded(e)
  BY <1>2, <1>3, <1>4, PackChanged DEF Active
<1>6. LoadCounted' /\ UNCHANGED engines
  BY <1>5 DEF EngineInv, LoadCounted, Return, engines
<1>7. holder' = [holder EXCEPT ![Proc(p)] = 0] /\ holder' \in [Engines \X Nodes -> Packs \cup {0}]
  BY DEF Return, EngineInv, TypeOK
<1>8. ProcessorLocked'
  <2> SUFFICES ASSUME NEW q \in Packs, pack'[q].st \in {"start", "params", "buffer"}
               PROVE  holder'[Proc(q)'] = q
    BY DEF ProcessorLocked, Proc
  <2>1. q # p /\ pack'[q] = pack[q] /\ Proc(q)' = Proc(q)
    BY <1>3, <1>5 DEF Proc
  <2>2. holder[Proc(q)] = q /\ holder[Proc(p)] = p /\ Proc(q) \in Engines \X Nodes
    BY <2>1 DEF EngineInv, ProcessorLocked, TypeOK, Package, Proc
  <2>3. Proc(q) # Proc(p)
    BY <2>1, <2>2
  <2> QED
    BY <1>7, <2>1, <2>2, <2>3 DEF EngineInv, TypeOK
<1> QED
  BY <1>3, <1>5, <1>6, <1>7, <1>8

LEMMA ProcessorGoesOn ==
  ASSUME EngineInv, NEW p \in Packs, NEW st \in {"params", "buffer"},
         pack[p].st \in {"start", "params"}, pack[p].node = Pre, Goto(p, st)
  PROVE  /\ pack' \in [Packs -> Package] /\ UNCHANGED <<engines, holder>>
         /\ LoadCounted' /\ ProcessorLocked' /\ BuffersPlaced'
         /\ pack'[p].st = st /\ pack'[p].node = Pre /\ pack'[p].eng = pack[p].eng
         /\ \A q \in Packs \ {p} : pack'[q] = pack[q]
<1> DEFINE r == [pack[p] EXCEPT !.st = st]
<1>1. /\ pack[p] \in Package /\ pack[p].in = FALSE /\ pack[p].out = FALSE
  BY DEF EngineInv, TypeOK, BuffersPlaced, BuffersOf, Package, Pre, Infer, Post
<1>2. pack' = [pack EXCEPT ![p] = r]
  BY DEF Goto, EngineInv, TypeOK
<1>3. r \in Package /\ r.st = st /\ r.node = Pre /\ r.eng = pack[p].eng /\ r.in = FALSE /\ r.out = FALSE
  BY <1>1 DEF Package
<1>4. BuffersOf(r)
  BY <1>3 DEF BuffersOf
<1> HIDE DEF r
<1>5. /\ pack' \in [Packs -> Package] /\ pack'[p] = r /\ BuffersPlaced'
      /\ \A q \in Packs \ {p} : pack'[q] = pack[q]
      /\ \A e : Loaded(e)' = Loaded(e)
  BY <1>2, <1>3, <1>4, PackChanged DEF Active
<1>6. LoadCounted' /\ UNCHANGED <<engines, holder>>
  BY <1>5 DEF EngineInv, LoadCounted, Goto, engines
<1>7. ProcessorLocked'
  <2> SUFFICES ASSUME NEW q \in Packs, pack'[q].st \in {"start", "params", "buffer"}
               PROVE  holder'[Proc(q)'] = q
    BY DEF ProcessorLocked, Proc
  <2>1. Proc(q)' = Proc(q) /\ pack[q].st \in {"start", "params", "buffer"}
    BY <1>3, <1>5 DEF Proc
  <2> QED
    BY <1>6, <2>1 DEF EngineInv, ProcessorLocked
<1> QED
  BY <1>3, <1>5, <1>6, <1>7

\* A handler without tensor params goes on getting them while package p steps.
LEMMA ParamsKept ==
  ASSUME EngineInv, NEW p \in Packs, \A q \in Packs \ {p} : pack'[q] = pack[q],
         calls' = IF gOnParamsSet' THEN 1 ELSE 0,
         \A e \in Engines : solver[e] => solver'[e],
         pack'[p].node = Pre /\ pack'[p].st = "buffer" => solver'[pack'[p].eng],
         params' = "none" /\ (gOnParamsSet' \/ \E e \in Engines : solver'[e]) =>
           \/ /\ params = "none" /\ (gOnParamsSet \/ \E e \in Engines : solver[e])
              /\ pack[p].st # "params"
           \/ pack'[p].node = Pre /\ pack'[p].st = "params"
  PROVE  ParamsUnderWay'
<1>1. \A q \in Packs : pack[q].eng \in Engines
  BY DEF EngineInv, TypeOK, Package
<1>2. ASSUME NEW q \in Packs, At(q, Pre, "buffer")' PROVE (solver[pack[q].eng])'
  <2>1. CASE q = p
    BY <1>2, <2>1 DEF At
  <2>2. CASE q # p
    BY <1>1, <1>2, <2>2 DEF At, EngineInv, ParamsUnderWay
  <2> QED
    BY <2>1, <2>2
<1>3. ASSUME params' = "none" /\ (gOnParamsSet' \/ \E e \in Engines : solver'[e])
      PROVE  \E q \in Packs : At(q, Pre, "params")'
  <2>1. CASE pack'[p].node = Pre /\ pack'[p].st = "params"
    BY <2>1 DEF At
  <2>2. CASE ~(pack'[p].node = Pre /\ pack'[p].st = "params")
    <3>1. pack[p].st # "params" /\ \E q \in Packs : At(q, Pre, "params")
      BY <1>3, <2>2 DEF EngineInv, ParamsUnderWay
    <3>2. PICK q \in Packs : At(q, Pre, "params")
      BY <3>1
    <3>3. q # p /\ pack'[q] = pack[q]
      BY <3>1, <3>2 DEF At
    <3> QED
      BY <3>2, <3>3 DEF At
  <2> QED
    BY <2>1, <2>2
<1> QED
  BY <1>2, <1>3 DEF ParamsUnderWay

\* The same when no solver is touched.
LEMMA ParamsUntouched ==
  ASSUME EngineInv, NEW p \in Packs, \A q \in Packs \ {p} : pack'[q] = pack[q],
         UNCHANGED solvers, pack[p].st # "params", pack'[p].st # "buffer"
  PROVE  ParamsUnderWay'
<1>1. calls' = IF gOnParamsSet' THEN 1 ELSE 0
  BY DEF EngineInv, ParamsUnderWay, solvers
<1>2. solver' = solver /\ params' = params /\ gOnParamsSet' = gOnParamsSet
  BY DEF solvers
<1> QED
  BY <1>1, <1>2, ParamsKept

\* A thread takes the task, and the lock or a place before it.
LEMMA TaskTaken ==
  ASSUME EngineInv, NEW p \in Packs, NEW st \in {"lock", "start"},
         pack[p].st \in {"queue", "lock"}, pack' = [pack EXCEPT ![p].st = st],
         IF st = "start" THEN holder[Proc(p)] = 0 /\ holder' = [holder EXCEPT ![Proc(p)] = p]
         ELSE UNCHANGED holder,
         UNCHANGED <<solvers, engines, crashed>>
  PROVE  EngineInv'
<1> DEFINE b == pack[p]
           r == [b EXCEPT !.st = st]
<1>1. b \in Package /\ Proc(p) \in Engines \X Nodes /\ BuffersOf(b)
  BY DEF EngineInv, TypeOK, Package, Proc, BuffersPlaced
<1>2. pack' = [pack EXCEPT ![p] = r]
  BY DEF EngineInv, TypeOK
<1>3. r \in Package /\ r.st = st /\ r.node = b.node /\ r.eng = b.eng /\ r.in = b.in /\ r.out = b.out
  BY <1>1 DEF Package
<1> HIDE DEF r
<1>4. BuffersOf(r)
  BY <1>1, <1>3 DEF BuffersOf
<1>5. /\ pack' \in [Packs -> Package] /\ pack'[p] = r /\ BuffersPlaced'
      /\ \A q \in Packs \ {p} : pack'[q] = pack[q]
      /\ \A e : Loaded(e)' = Loaded(e)
  BY <1>2, <1>3, <1>4, PackChanged DEF Active
<1>6. holder' \in [Engines \X Nodes -> Packs \cup {0}]
  BY <1>1 DEF EngineInv, TypeOK
<1>7. TypeOK'
  BY <1>5, <1>6 DEF EngineInv, TypeOK, solvers, engines
<1>8. LoadCounted'
  BY <1>5 DEF EngineInv, LoadCounted, engines
<1>9. ProcessorLocked'
  <2> SUFFICES ASSUME NEW q \in Packs, pack'[q].st \in {"start", "params", "buffer"}
               PROVE  holder'[Proc(q)'] = q
    BY DEF ProcessorLocked, Proc
  <2>1. CASE q = p
    <3>1. st = "start" /\ Proc(q)' = Proc(p)
      BY <1>3, <1>5, <2>1 DEF Proc
    <3> QED
      BY <1>1, <2>1, <3>1 DEF EngineInv, TypeOK
  <2>2. CASE q # p
    <3>1. Proc(q)' = Proc(q) /\ holder[Proc(q)] = q /\ Proc(q) \in Engines \X Nodes /\ q # 0
      BY <1>5, <2>2, ProcessorsConstants DEF EngineInv, ProcessorLocked, TypeOK, Package, Proc
    <3>2. holder'[Proc(q)] = holder[Proc(q)]
      BY <1>1, <3>1 DEF EngineInv, TypeOK
    <3> QED
      BY <3>1, <3>2
  <2> QED
    BY <2>1, <2>2
<1>10. ParamsUnderWay'
  BY <1>3, <1>5, ParamsUntouched
<1> QED
  BY <1>5, <1>7, <1>8, <1>9, <1>10 DEF EngineInv

\* DispatchLoop and Engine::Run: the engine has one package more.
LEMMA RunKeeps ==
  ASSUME EngineInv, NEW p \in Packs, NEW e \in Engines, Run(p, e)
  PROVE  EngineInv'
<1> DEFINE b == pack[p]
           r == [b EXCEPT !.st = "queue", !.eng = e]
<1>1. b \in Package /\ b.st = "new" /\ b.in = FALSE /\ b.out = FALSE
  BY DEF EngineInv, TypeOK, Package, BuffersPlaced, BuffersOf, Run
<1>2. pack' = [pack EXCEPT ![p] = r]
  BY DEF EngineInv, TypeOK, Run
<1>3. r \in Package /\ r.st = "queue" /\ r.node = b.node /\ r.eng = e /\ r.in = FALSE /\ r.out = FALSE
  BY <1>1 DEF Package
<1> HIDE DEF r
<1>4. BuffersOf(r)
  BY <1>3 DEF BuffersOf
<1>5. /\ pack' \in [Packs -> Package] /\ pack'[p] = r /\ BuffersPlaced'
      /\ \A q \in Packs \ {p} : pack'[q] = pack[q]
  BY <1>2, <1>3, <1>4, PackChanged
<1>6. \A f \in Engines : Loaded(f) \in SUBSET Packs /\ Loaded(f)' \in SUBSET Packs
  BY DEF Loaded, Of
<1>7. p \notin Loaded(e) /\ Loaded(e)' = Loaded(e) \cup {p}
  BY <1>1, <1>3, <1>5 DEF Loaded, Of, Active
<1>8. \A f \in Engines \ {e} : Loaded(f)' = Loaded(f)
  BY <1>1, <1>3, <1>5 DEF Loaded, Of, Active
<1>9. Cardinality(Loaded(e))' = Cardinality(Loaded(e)) + 1
  <2>1. IsFiniteSet(Loaded(e))
    BY <1>6, PacksAreFinite
  <2> QED
    BY <1>7, <2>1, FS_AddElement
<1>10. task_num_' = [task_num_ EXCEPT ![e] = @ + 1] /\ task_num_ \in [Engines -> 0 .. Cardinality(Packs)]
  BY DEF Run, EngineInv, TypeOK
<1>11. LoadCounted'
  <2> SUFFICES ASSUME NEW f \in Engines PROVE task_num_'[f] = Cardinality(Loaded(f))'
    BY DEF LoadCounted
  <2>1. task_num_[f] = Cardinality(Loaded(f))
    BY DEF EngineInv, LoadCounted
  <2>2. CASE f = e
    BY <1>9, <1>10, <2>1, <2>2
  <2>3. CASE f # e
    BY <1>8, <1>10, <2>1, <2>3
  <2> QED
    BY <2>2, <2>3
<1>12. task_num_' \in [Engines -> 0 .. Cardinality(Packs)]
  <2>1. \A f \in Engines : /\ Cardinality(Loaded(f)') \in Nat /\ Cardinality(Packs) \in Nat
                           /\ Cardinality(Loaded(f)') <= Cardinality(Packs)
    BY <1>6, PacksAreFinite
  <2>2. \A f \in Engines : task_num_'[f] = Cardinality(Loaded(f)')
    BY <1>11 DEF LoadCounted
  <2>3. \A f \in Engines : task_num_'[f] \in 0 .. Cardinality(Packs)
    BY <2>1, <2>2
  <2> QED
    BY <1>10, <2>3
<1>13. TypeOK'
  BY <1>5, <1>12 DEF EngineInv, TypeOK, Run, solvers
<1>14. ProcessorLocked'
  <2> SUFFICES ASSUME NEW q \in Packs, pack'[q].st \in {"start", "params", "buffer"}
               PROVE  holder'[Proc(q)'] = q
    BY DEF ProcessorLocked, Proc
  <2>1. pack'[q] = pack[q] /\ Proc(q)' = Proc(q)
    BY <1>3, <1>5 DEF Proc
  <2> QED
    BY <2>1 DEF EngineInv, ProcessorLocked, Run
<1>15. ParamsUnderWay'
  BY <1>1, <1>3, <1>5, ParamsUntouched DEF Run
<1> QED
  BY <1>5, <1>11, <1>13, <1>14, <1>15 DEF EngineInv

\* --task_num_ of done_notifier_.
LEMMA CountDownKeeps ==
  ASSUME EngineInv, NEW p \in Packs, CountDown(p)
  PROVE  EngineInv'
<1>0. PICK e \in Engines : e = pack[p].eng
  BY DEF EngineInv, TypeOK, Package
<1> DEFINE b == pack[p]
           r == [b EXCEPT !.st = "idle"]
<1>1. b \in Package /\ b.st = "count" /\ b.eng = e /\ BuffersOf(b)
  BY <1>0 DEF EngineInv, TypeOK, Package, BuffersPlaced, CountDown
<1>2. pack' = [pack EXCEPT ![p] = r]
  BY DEF EngineInv, TypeOK, CountDown
<1>3. r \in Package /\ r.st = "idle" /\ r.node = b.node /\ r.eng = e /\ r.in = b.in /\ r.out = b.out
  BY <1>1 DEF Package
<1> HIDE DEF r
<1>4. BuffersOf(r)
  BY <1>1, <1>3 DEF BuffersOf
<1>5. /\ pack' \in [Packs -> Package] /\ pack'[p] = r /\ BuffersPlaced'
      /\ \A q \in Packs \ {p} : pack'[q] = pack[q]
  BY <1>2, <1>3, <1>4, PackChanged
<1>6. \A f \in Engines : Loaded(f) \in SUBSET Packs /\ Loaded(f)' \in SUBSET Packs
  BY DEF Loaded, Of
<1>7. p \in Loaded(e) /\ Loaded(e)' = Loaded(e) \ {p}
  BY <1>1, <1>3, <1>5 DEF Loaded, Of, Active
<1>8. \A f \in Engines \ {e} : Loaded(f)' = Loaded(f)
  BY <1>1, <1>3, <1>5 DEF Loaded, Of, Active
<1>9. Cardinality(Loaded(e))' = Cardinality(Loaded(e)) - 1
  <2>1. IsFiniteSet(Loaded(e))
    BY <1>1, <1>6, PacksAreFinite
  <2> QED
    BY <1>1, <1>7, <2>1, FS_RemoveElement
<1>10. task_num_' = [task_num_ EXCEPT ![e] = @ - 1] /\ task_num_ \in [Engines -> 0 .. Cardinality(Packs)]
  BY <1>0 DEF CountDown, EngineInv, TypeOK
<1>11. LoadCounted'
  <2> SUFFICES ASSUME NEW f \in Engines PROVE task_num_'[f] = Cardinality(Loaded(f))'
    BY DEF LoadCounted
  <2>1. task_num_[f] = Cardinality(Loaded(f))
    BY DEF EngineInv, LoadCounted
  <2>2. CASE f = e
    BY <1>9, <1>10, <2>1, <2>2
  <2>3. CASE f # e
    BY <1>8, <1>10, <2>1, <2>3
  <2> QED
    BY <2>2, <2>3
<1>12. task_num_' \in [Engines -> 0 .. Cardinality(Packs)]
  <2>1. \A f \in Engines : /\ Cardinality(Loaded(f)') \in Nat /\ Cardinality(Packs) \in Nat
                           /\ Cardinality(Loaded(f)') <= Cardinality(Packs)
    BY <1>6, PacksAreFinite
  <2>2. \A f \in Engines : task_num_'[f] = Cardinality(Loaded(f)')
    BY <1>11 DEF LoadCounted
  <2>3. \A f \in Engines : task_num_'[f] \in 0 .. Cardinality(Packs)
    BY <2>1, <2>2
  <2> QED
    BY <1>10, <2>3
<1>13. TypeOK'
  BY <1>5, <1>12 DEF EngineInv, TypeOK, CountDown, solvers
<1>14. ProcessorLocked'
  <2> SUFFICES ASSUME NEW q \in Packs, pack'[q].st \in {"start", "params", "buffer"}
               PROVE  holder'[Proc(q)'] = q
    BY DEF ProcessorLocked, Proc
  <2>1. pack'[q] = pack[q] /\ Proc(q)' = Proc(q)
    BY <1>3, <1>5 DEF Proc
  <2> QED
    BY <2>1 DEF EngineInv, ProcessorLocked, CountDown
<1>15. ParamsUnderWay'
  BY <1>1, <1>3, <1>5, ParamsUntouched DEF CountDown
<1> QED
  BY <1>5, <1>11, <1>13, <1>14, <1>15 DEF EngineInv

\* A package that is counted down goes on to be dropped, or is gone.
LEMMA CountedKeeps ==
  ASSUME EngineInv, NEW p \in Packs, StoreIdle(p) \/ Drop(p)
  PROVE  EngineInv'
<1> DEFINE b == pack[p]
<1>1. b \in Package /\ b.st \in {"idle", "drop"} /\ b.eng \in Engines /\ BuffersOf(b)
  BY DEF EngineInv, TypeOK, Package, BuffersPlaced, StoreIdle, Drop
<1>2. /\ Gone \in Package /\ Gone.st = "over" /\ Gone.in = FALSE /\ Gone.out = FALSE
  <2>1. 1 \in Engines /\ 1 \in Nodes
    BY ProcessorsConstants DEF Engines, Nodes
  <2> QED
    BY <2>1 DEF Gone, Fresh, Package
<1>3. PICK r \in Package : /\ pack' = [pack EXCEPT ![p] = r] /\ r.st \in {"drop", "over"} /\ BuffersOf(r)
  <2>1. CASE pack' = [pack EXCEPT ![p] = Gone]
    BY <1>2, <2>1 DEF BuffersOf
  <2>2. CASE pack' # [pack EXCEPT ![p] = Gone]
    <3> DEFINE r == [b EXCEPT !.st = "drop"]
    <3>1. pack' = [pack EXCEPT ![p] = r] /\ b.st = "idle"
      BY <2>2 DEF StoreIdle, Drop, EngineInv, TypeOK
    <3>2. r \in Package /\ r.st = "drop" /\ r.node = b.node /\ r.in = b.in /\ r.out = b.out
      BY <1>1 DEF Package
    <3> HIDE DEF r
    <3>3. BuffersOf(r)
      BY <1>1, <3>1, <3>2 DEF BuffersOf
    <3> QED
      BY <3>1, <3>2, <3>3
  <2> QED
    BY <2>1, <2>2
<1>4. /\ pack' \in [Packs -> Package] /\ pack'[p] = r /\ BuffersPlaced'
      /\ \A q \in Packs \ {p} : pack'[q] = pack[q]
      /\ \A e : Loaded(e)' = Loaded(e)
  BY <1>1, <1>3, PackChanged DEF Active
<1>5. UNCHANGED <<solvers, task_num_, holder, crashed>> /\ idle_' \in Engines \cup {0}
  BY <1>1 DEF StoreIdle, Drop, engines, EngineInv, TypeOK
<1>6. TypeOK'
  BY <1>4, <1>5 DEF EngineInv, TypeOK, solvers
<1>7. LoadCounted'
  BY <1>4, <1>5 DEF EngineInv, LoadCounted
<1>8. ProcessorLocked'
  <2> SUFFICES ASSUME NEW q \in Packs, pack'[q].st \in {"start", "params", "buffer"}
               PROVE  holder'[Proc(q)'] = q
    BY DEF ProcessorLocked, Proc
  <2>1. pack'[q] = pack[q] /\ Proc(q)' = Proc(q)
    BY <1>3, <1>4 DEF Proc
  <2> QED
    BY <1>5, <2>1 DEF EngineInv, ProcessorLocked
<1>9. ParamsUnderWay'
  BY <1>1, <1>3, <1>4, <1>5, ParamsUntouched
<1> QED
  BY <1>4, <1>6, <1>7, <1>8, <1>9 DEF EngineInv

\* Process returns and no solver is touched.
LEMMA ReturnKeeps ==
  ASSUME EngineInv, NEW p \in Packs, NEW ok \in BOOLEAN, NEW in \in BOOLEAN, NEW out \in BOOLEAN,
         pack[p].st \in {"start", "buffer"}, Return(p, ok, in, out),
         in => ok /\ pack[p].node = Pre, out => pack[p].node = Infer,
         UNCHANGED <<solvers, crashed>>
  PROVE  EngineInv'
<1>1. /\ pack' \in [Packs -> Package] /\ holder' \in [Engines \X Nodes -> Packs \cup {0}]
      /\ UNCHANGED engines /\ LoadCounted' /\ ProcessorLocked' /\ BuffersPlaced'
      /\ pack'[p].st \in {"queue", "count"}
      /\ \A q \in Packs \ {p} : pack'[q] = pack[q]
  BY ProcessorReleased
<1>2. TypeOK'
  BY <1>1 DEF EngineInv, TypeOK, solvers, engines
<1>3. ParamsUnderWay'
  BY <1>1, ParamsUntouched
<1> QED
  BY <1>1, <1>2, <1>3 DEF EngineInv

\* What CreatePool does, whether or not the pool could be made.
LEMMA CreatePoolKeeps ==
  ASSUME EngineInv, NEW p \in Packs, NEW ok \in BOOLEAN, pack[p].node = Pre,
         pack[p].st \in {"start", "params"}, CreatePool(p, ok)
  PROVE  /\ pack' \in [Packs -> Package] /\ holder' \in [Engines \X Nodes -> Packs \cup {0}]
         /\ UNCHANGED engines /\ LoadCounted' /\ ProcessorLocked' /\ BuffersPlaced'
         /\ \A q \in Packs \ {p} : pack'[q] = pack[q]
         /\ solver' \in [Engines -> BOOLEAN]
         /\ \A e \in Engines : solver[e] => solver'[e]
         /\ pack'[p].st = "buffer" => solver'[pack'[p].eng]
<1>1. pack[p].eng \in Engines /\ solver \in [Engines -> BOOLEAN]
  BY DEF EngineInv, TypeOK, Package
<1>2. CASE ok
  <2>1. solver' = [solver EXCEPT ![pack[p].eng] = TRUE] /\ Goto(p, "buffer")
    BY <1>2 DEF CreatePool
  <2>2. /\ pack' \in [Packs -> Package] /\ UNCHANGED <<engines, holder>>
        /\ LoadCounted' /\ ProcessorLocked' /\ BuffersPlaced' /\ pack'[p].eng = pack[p].eng
        /\ \A q \in Packs \ {p} : pack'[q] = pack[q]
    BY <2>1, ProcessorGoesOn
  <2>3. /\ solver' \in [Engines -> BOOLEAN] /\ \A e \in Engines : solver[e] => solver'[e]
        /\ solver'[pack'[p].eng]
    BY <1>1, <2>1, <2>2
  <2> QED
    BY <2>2, <2>3 DEF EngineInv, TypeOK
<1>3. CASE ~ok
  <2>1. Return(p, FALSE, FALSE, FALSE) /\ solver' = solver
    BY <1>3 DEF CreatePool
  <2>2. /\ pack' \in [Packs -> Package] /\ holder' \in [Engines \X Nodes -> Packs \cup {0}]
        /\ UNCHANGED engines /\ LoadCounted' /\ ProcessorLocked' /\ BuffersPlaced'
        /\ pack'[p].st \in {"queue", "count"}
        /\ \A q \in Packs \ {p} : pack'[q] = pack[q]
    BY <2>1, ProcessorReleased
  <2> QED
    BY <1>1, <2>1, <2>2
<1> QED
  BY <1>2, <1>3

\* CheckAllocResource: one engine calls OnTensorParams, the others make their pools.
LEMMA CheckAllocKeeps ==
  ASSUME EngineInv, NEW p \in Packs, NEW ok \in BOOLEAN, CheckAllocResource(p, ok)
  PROVE  EngineInv'
<1> DEFINE e == pack[p].eng
<1>1. /\ pack[p].node = Pre /\ pack[p].st = "start" /\ UNCHANGED <<handler, params, crashed>>
      /\ e \in Engines /\ solver \in [Engines -> BOOLEAN] /\ handler \in BOOLEAN /\ gOnParamsSet \in BOOLEAN
      /\ calls = IF gOnParamsSet THEN 1 ELSE 0
  BY DEF CheckAllocResource, At, EngineInv, TypeOK, Package, ParamsUnderWay
<1>2. CASE solver[e]
  <2>1. Goto(p, "buffer") /\ UNCHANGED <<gOnParamsSet, calls, solver>>
    BY <1>2 DEF CheckAllocResource
  <2>2. /\ pack' \in [Packs -> Package] /\ UNCHANGED <<engines, holder>>
        /\ LoadCounted' /\ ProcessorLocked' /\ BuffersPlaced' /\ pack'[p].eng = e
        /\ \A q \in Packs \ {p} : pack'[q] = pack[q]
    BY <1>1, <2>1, ProcessorGoesOn
  <2>3. ParamsUnderWay'
    BY <1>1, <1>2, <2>1, <2>2, ParamsKept
  <2>4. TypeOK'
    BY <1>1, <2>1, <2>2 DEF EngineInv, TypeOK, engines
  <2> QED
    BY <2>2, <2>3, <2>4 DEF EngineInv
<1>3. CASE ~solver[e] /\ ~handler
  <2>1. Return(p, FALSE, FALSE, FALSE) /\ UNCHANGED <<gOnParamsSet, calls, solver>>
    BY <1>1, <1>3 DEF CheckAllocResource
  <2>2. UNCHANGED <<solvers, crashed>>
    BY <1>1, <2>1 DEF solvers
  <2> QED
    BY <1>1, <2>1, <2>2, ReturnKeeps
<1>4. CASE ~solver[e] /\ handler /\ ~gOnParamsSet
  <2>1. Goto(p, "params") /\ gOnParamsSet' = TRUE /\ calls' = calls + 1 /\ UNCHANGED solver
    BY <1>1, <1>4 DEF CheckAllocResource
  <2>2. /\ pack' \in [Packs -> Package] /\ UNCHANGED <<engines, holder>>
        /\ LoadCounted' /\ ProcessorLocked' /\ BuffersPlaced'
        /\ pack'[p].node = Pre /\ pack'[p].st = "params"
        /\ \A q \in Packs \ {p} : pack'[q] = pack[q]
    BY <1>1, <2>1, ProcessorGoesOn
  <2>3. calls' = 1
    BY <1>1, <1>4, <2>1
  <2>4. ParamsUnderWay'
    BY <1>1, <2>1, <2>2, <2>3, ParamsKept
  <2>5. TypeOK'
    BY <1>1, <2>1, <2>2, <2>3 DEF EngineInv, TypeOK, engines
  <2> QED
    BY <2>2, <2>4, <2>5 DEF EngineInv
<1>5. CASE ~solver[e] /\ handler /\ gOnParamsSet
  <2>1. CreatePool(p, ok) /\ UNCHANGED <<gOnParamsSet, calls>>
    BY <1>1, <1>5 DEF CheckAllocResource
  <2>2. /\ pack' \in [Packs -> Package] /\ holder' \in [Engines \X Nodes -> Packs \cup {0}]
        /\ UNCHANGED engines /\ LoadCounted' /\ ProcessorLocked' /\ BuffersPlaced'
        /\ \A q \in Packs \ {p} : pack'[q] = pack[q]
        /\ solver' \in [Engines -> BOOLEAN]
        /\ \A f \in Engines : solver[f] => solver'[f]
        /\ pack'[p].st = "buffer" => solver'[pack'[p].eng]
    BY <1>1, <2>1, CreatePoolKeeps
  <2>3. ParamsUnderWay'
    BY <1>1, <1>5, <2>1, <2>2, ParamsKept
  <2>4. TypeOK'
    BY <1>1, <2>1, <2>2 DEF EngineInv, TypeOK, engines
  <2> QED
    BY <2>2, <2>3, <2>4 DEF EngineInv
<1> QED
  BY <1>1, <1>2, <1>3, <1>4, <1>5

\* OnTensorParams answers, and the engine that called it makes its pool.
LEMMA OnTensorParamsKeeps ==
  ASSUME EngineInv, NEW p \in Packs, NEW ok \in BOOLEAN, OnTensorParams(p, ok)
  PROVE  EngineInv'
<1>1. /\ pack[p].node = Pre /\ pack[p].st = "params" /\ UNCHANGED <<handler, gOnParamsSet, calls, crashed>>
      /\ params' \in {"ok", "failed"} /\ solver \in [Engines -> BOOLEAN]
      /\ calls = IF gOnParamsSet THEN 1 ELSE 0
  BY DEF OnTensorParams, At, EngineInv, TypeOK, ParamsUnderWay
<1>2. PICK made \in BOOLEAN : CreatePool(p, made)
  <2>1. CASE ok
    BY <2>1 DEF OnTensorParams
  <2>2. CASE ~ok
    <3>1. CreatePool(p, FALSE)
      BY <2>2 DEF OnTensorParams, CreatePool
    <3> QED
      BY <3>1
  <2> QED
    BY <2>1, <2>2
<1>3. /\ pack' \in [Packs -> Package] /\ holder' \in [Engines \X Nodes -> Packs \cup {0}]
      /\ UNCHANGED engines /\ LoadCounted' /\ ProcessorLocked' /\ BuffersPlaced'
      /\ \A q \in Packs \ {p} : pack'[q] = pack[q]
      /\ solver' \in [Engines -> BOOLEAN]
      /\ \A f \in Engines : solver[f] => solver'[f]
      /\ pack'[p].st = "buffer" => solver'[pack'[p].eng]
  BY <1>1, <1>2, CreatePoolKeeps
<1>4. ParamsUnderWay'
  BY <1>1, <1>3, ParamsKept
<1>5. TypeOK'
  BY <1>1, <1>3 DEF EngineInv, TypeOK, engines
<1> QED
  BY <1>3, <1>4, <1>5 DEF EngineInv

\* Removing the handler finds nobody in OnTensorParams.
LEMMA RemoveHandlerKeeps == EngineInv /\ RemovePreprocHandler => EngineInv'
<1> SUFFICES ASSUME EngineInv, RemovePreprocHandler PROVE EngineInv'
  OBVIOUS
<1>1. /\ UNCHANGED <<handler, params, solver, engines, pack, holder, crashed>>
      /\ gOnParamsSet /\ gOnParamsSet' = FALSE /\ calls' = 0
      /\ \A p \in Packs : pack[p].st \in {"new", "over"}
  BY DEF RemovePreprocHandler
<1>2. params # "none"
  BY <1>1 DEF EngineInv, ParamsUnderWay, At
<1>3. ParamsUnderWay'
  BY <1>1, <1>2 DEF EngineInv, ParamsUnderWay, At
<1>4. TypeOK'
  BY <1>1 DEF EngineInv, TypeOK, engines
<1>5. (LoadCounted /\ ProcessorLocked /\ BuffersPlaced)'
  BY <1>1 DEF EngineInv, engines, LoadCounted, Loaded, Of, ProcessorLocked, Proc, BuffersPlaced, BuffersOf
<1> QED
  BY <1>3, <1>4, <1>5 DEF EngineInv

LEMMA EngineStep == EngineInv /\ [Next]_vars => EngineInv'
<1> SUFFICES ASSUME EngineInv, [Next]_vars PROVE EngineInv'
  OBVIOUS
<1>1. ASSUME NEW p \in Packs, TakeTask(p) PROVE EngineInv'
  <2>1. pack[p].st = "queue" /\ UNCHANGED <<solvers, engines, crashed>>
    BY <1>1 DEF TakeTask, Queued
  <2>2. CASE holder[Proc(p)] = 0
    BY <1>1, <2>1, <2>2, TaskTaken DEF TakeTask, Acquire
  <2>3. CASE holder[Proc(p)] # 0
    BY <1>1, <2>1, <2>3, TaskTaken DEF TakeTask
  <2> QED
    BY <2>2, <2>3
<1>2. ASSUME NEW p \in Packs, Lock(p) PROVE EngineInv'
  BY <1>2, TaskTaken DEF Lock, Acquire
<1>3. ASSUME NEW p \in Packs, CountDown(p) PROVE EngineInv'
  BY <1>3, CountDownKeeps
<1>4. ASSUME NEW p \in Packs, StoreIdle(p) \/ Drop(p) PROVE EngineInv'
  BY <1>4, CountedKeeps
<1>5. ASSUME NEW p \in Packs, NEW ok \in BOOLEAN, CheckAllocResource(p, ok) PROVE EngineInv'
  BY <1>5, CheckAllocKeeps
<1>6. ASSUME NEW p \in Packs, NEW ok \in BOOLEAN, OnTensorParams(p, ok) PROVE EngineInv'
  BY <1>6, OnTensorParamsKeeps
<1>7. ASSUME NEW p \in Packs, NEW ok \in BOOLEAN, OnPreproc(p, ok) PROVE EngineInv'
  BY <1>7, ReturnKeeps DEF OnPreproc, At
<1>8. ASSUME NEW p \in Packs, PreprocTimeout(p) PROVE EngineInv'
  BY <1>8, ReturnKeeps DEF PreprocTimeout, At
<1>9. ASSUME NEW p \in Packs, NEW ok \in BOOLEAN, Predict(p, ok) PROVE EngineInv'
  BY <1>9, ReturnKeeps, ProcessorsConstants DEF Predict, At
<1>10. ASSUME NEW p \in Packs, OnPostproc(p) PROVE EngineInv'
  BY <1>10, ReturnKeeps DEF OnPostproc, At
<1>11. ASSUME NEW p \in Packs, PredictTimeout(p) PROVE EngineInv'
  <2>1. UNCHANGED <<solvers, engines, pack, holder>> /\ crashed' = TRUE
    BY <1>11 DEF PredictTimeout
  <2>2. TypeOK'
    BY <2>1 DEF EngineInv, TypeOK, solvers, engines
  <2>3. (LoadCounted /\ ProcessorLocked /\ BuffersPlaced /\ ParamsUnderWay)'
    BY <2>1 DEF EngineInv, solvers, engines, LoadCounted, Loaded, Of, ProcessorLocked, Proc,
                BuffersPlaced, BuffersOf, ParamsUnderWay, At
  <2> QED
    BY <2>2, <2>3 DEF EngineInv
<1>12. CASE UNCHANGED vars
  BY <1>12 DEF vars, EngineInv, TypeOK, solvers, engines, LoadCounted, Loaded, Of, ProcessorLocked, Proc,
               BuffersPlaced, BuffersOf, ParamsUnderWay, At
<1> QED
  BY <1>1, <1>2, <1>3, <1>4, <1>5, <1>6, <1>7, <1>8, <1>9, <1>10, <1>11, <1>12, RunKeeps, RemoveHandlerKeeps
  DEF Next, WorkStep

\* A package that waits for a buffer of the Preprocessor is in the load with
\* those that have one.
LEMMA InEmptyMeansOverload ==
  ASSUME EngineInv, NEW p \in Packs, At(p, Pre, "buffer"), ~InFree(pack[p].eng)
  PROVE  Overloaded(pack[p].eng)
<1> DEFINE e == pack[p].eng
           I == {q \in Of(e) : pack[q].in}
           Late == {q \in Of(e) : pack[q].node < Post /\ pack[q].st \in {"idle", "drop"}}
<1>1. e \in Engines /\ p \in Of(e) /\ pack[p].in = FALSE
  BY DEF EngineInv, TypeOK, Package, Of, BuffersPlaced, BuffersOf, At
<1>2. /\ I \in SUBSET Packs /\ I \cup {p} \in SUBSET Packs /\ Late \in SUBSET Packs
      /\ Loaded(e) \in SUBSET Packs /\ p \notin I
  BY <1>1 DEF Of, Loaded
<1>3. I \cup {p} \subseteq Loaded(e)
  BY <1>1 DEF Loaded, Of, Active, At, EngineInv, BuffersPlaced, BuffersOf
<1>4. ~(Cardinality(I) < BufNum)
  BY DEF InFree
<1>5. Cardinality(Late) \in Nat /\ Cardinality(I) \in Nat /\ Cardinality(Loaded(e)) \in Nat
      /\ IsFiniteSet(I) /\ IsFiniteSet(Loaded(e))
  BY <1>2, PacksAreFinite
<1> HIDE DEF I, Late
<1>6. Cardinality(I \cup {p}) = Cardinality(I) + 1
  BY <1>2, <1>5, FS_AddElement
<1>7. Cardinality(I \cup {p}) <= Cardinality(Loaded(e))
  BY <1>3, <1>5, FS_Subset
<1>8. task_num_[e] = Cardinality(Loaded(e))
  BY <1>1 DEF EngineInv, LoadCounted
<1>9. task_num_[e] + Cardinality(Late) > MaxLoad
  BY <1>4, <1>5, <1>6, <1>7, <1>8, ProcessorsConstants
<1> QED
  BY <1>9 DEF Overloaded, Late

\* One that waits for a buffer of the Predictor is in the load with those that
\* have one, or these failed and are not yet gone.
LEMMA OutEmptyMeansOverload ==
  ASSUME EngineInv, NEW p \in Packs, At(p, Infer, "start"), ~OutFree(pack[p].eng)
  PROVE  Overloaded(pack[p].eng)
<1> DEFINE e == pack[p].eng
           O == {q \in Of(e) : pack[q].out}
           Late == {q \in Of(e) : pack[q].node < Post /\ pack[q].st \in {"idle", "drop"}}
<1>1. e \in Engines /\ p \in Of(e) /\ pack[p].out = FALSE
  BY DEF EngineInv, TypeOK, Package, Of, BuffersPlaced, BuffersOf, At, Infer, Post
<1>2. /\ O \in SUBSET Packs /\ Late \in SUBSET Packs /\ Loaded(e) \in SUBSET Packs
      /\ Loaded(e) \cup Late \in SUBSET Packs /\ p \notin O /\ Loaded(e) \cap Late = {}
  BY <1>1 DEF Of, Loaded, Active
<1>3. O \cup {p} \subseteq Loaded(e) \cup Late
  <2>1. p \in Loaded(e)
    BY <1>1 DEF Loaded, Of, Active, At
  <2>2. ASSUME NEW q \in O PROVE q \in Loaded(e) \cup Late
    BY <2>2 DEF Loaded, Of, Active, EngineInv, BuffersPlaced, BuffersOf, Infer, Post
  <2> QED
    BY <2>1, <2>2
<1>4. ~(Cardinality(O) < BufNum)
  BY DEF OutFree
<1>5. /\ Cardinality(Late) \in Nat /\ Cardinality(O) \in Nat /\ Cardinality(Loaded(e)) \in Nat
      /\ IsFiniteSet(O) /\ IsFiniteSet(Loaded(e)) /\ IsFiniteSet(Late) /\ IsFiniteSet(Loaded(e) \cup Late)
  BY <1>2, PacksAreFinite
<1> HIDE DEF O, Late
<1>6. Cardinality(O \cup {p}) = Cardinality(O) + 1
  BY <1>2, <1>5, FS_AddElement
<1>7. Cardinality(O \cup {p}) <= Cardinality(Loaded(e) \cup Late)
  BY <1>3, <1>5, FS_Subset
<1>8. Cardinality(Loaded(e) \cup Late) = Cardinality(Loaded(e)) + Cardinality(Late)
  BY <1>2, <1>5, DisjointUnion
<1>9. task_num_[e] = Cardinality(Loaded(e))
  BY <1>1 DEF EngineInv, LoadCounted
<1>10. task_num_[e] + Cardinality(Late) > MaxLoad
  BY <1>4, <1>5, <1>6, <1>7, <1>8, <1>9, ProcessorsConstants
<1> QED
  BY <1>10 DEF Overloaded, Late

\* Processors, for any number of engines, packages and threads: OnTensorParams is called
\* once per registration, OnPreproc runs without tensor params only while another
\* engine is getting them or after that failed, and the pools of a Preprocessor and a
\* Predictor are empty only when the engine was given more than its load.
THEOREM EnginesAreSafe == Spec => []EngineSafe
<1>1. EngineInv => EngineSafe
  <2> SUFFICES ASSUME EngineInv PROVE EngineSafe
    OBVIOUS
  <2>1. TypeOK /\ ParamsOnce
    BY DEF EngineInv, ParamsUnderWay, ParamsOnce
  <2>2. PreprocAfterParams
    <3> SUFFICES ASSUME NEW p \in Packs, At(p, Pre, "buffer"), params = "none"
                 PROVE  \E q \in Packs : pack[q].eng # pack[p].eng /\ At(q, Pre, "params")
      BY DEF PreprocAfterParams
    <3>1. pack[p].eng \in Engines /\ solver[pack[p].eng]
      BY DEF EngineInv, TypeOK, Package, ParamsUnderWay
    <3>2. PICK q \in Packs : At(q, Pre, "params")
      BY <3>1 DEF EngineInv, ParamsUnderWay
    <3>3. q # p /\ holder[Proc(q)] = q /\ holder[Proc(p)] = p
      BY <3>2 DEF At, EngineInv, ProcessorLocked
    <3>4. pack[q].eng # pack[p].eng
      BY <3>2, <3>3 DEF Proc, At
    <3> QED
      BY <3>2, <3>4
  <2>3. PoolEmptyMeansOverload
    BY InEmptyMeansOverload, OutEmptyMeansOverload DEF PoolEmptyMeansOverload
  <2> QED
    BY <2>1, <2>2, <2>3 DEF EngineSafe
<1> QED
  BY <1>1, EngineInitInv, EngineStep, PTL DEF Spec

-----------------------------------------------------------------------------
(* Pipeline: a line of places *)

\* A frame that follows all of a queue joins it.
LEMMA QueueGrows ==
  ASSUME NEW s, NEW q \in Seq(Frames), NEW f \in Frames, QueueInOrder(s, q),
         \A g \in Elems(q) : Precedes(s, g, f)
  PROVE  QueueInOrder(s, Append(q, f))
<1> DEFINE r == Append(q, f)
           L == Len(r)
<1>1. /\ DOMAIN r = DOMAIN q \cup {L} /\ r[L] = f /\ L \in Nat
      /\ \A i \in DOMAIN q : r[i] = q[i] /\ i \in Nat /\ i < L
  BY AppendWork
<1>2. \A i \in DOMAIN q : q[i] \in Elems(q)
  BY DEF Elems
<1> HIDE DEF r, L
<1>3. \A i, j \in DOMAIN r : i < j => Precedes(s, r[i], r[j])
  <2> SUFFICES ASSUME NEW i \in DOMAIN r, NEW j \in DOMAIN r, i < j PROVE Precedes(s, r[i], r[j])
    OBVIOUS
  <2>1. i \in DOMAIN q
    BY <1>1
  <2>2. CASE j = L
    BY <1>1, <1>2, <2>1, <2>2
  <2>3. CASE j \in DOMAIN q
    BY <1>1, <2>1, <2>3 DEF QueueInOrder
  <2> QED
    BY <1>1, <2>2, <2>3
<1> QED
  BY <1>3 DEF QueueInOrder, r

LEMMA QueueShrinks ==
  ASSUME NEW s, NEW q \in Seq(Frames), q # <<>>, QueueInOrder(s, q)
  PROVE  QueueInOrder(s, Tail(q)) /\ \A g \in Elems(Tail(q)) : Precedes(s, Head(q), g)
<1> DEFINE r == Tail(q)
<1>1. /\ Head(q) = q[1] /\ 1 \in DOMAIN q
      /\ \A i \in DOMAIN r : i \in Nat /\ i >= 1 /\ i + 1 \in DOMAIN q /\ r[i] = q[i + 1]
  BY TailWork
<1> HIDE DEF r
<1>2. \A i, j \in DOMAIN r : i < j => Precedes(s, r[i], r[j])
  <2> SUFFICES ASSUME NEW i \in DOMAIN r, NEW j \in DOMAIN r, i < j PROVE Precedes(s, r[i], r[j])
    OBVIOUS
  <2>1. i + 1 \in DOMAIN q /\ j + 1 \in DOMAIN q /\ i + 1 < j + 1
    BY <1>1
  <2> QED
    BY <1>1, <2>1 DEF QueueInOrder
<1>3. \A i \in DOMAIN r : Precedes(s, q[1], r[i])
  <2> SUFFICES ASSUME NEW i \in DOMAIN r PROVE Precedes(s, q[1], r[i])
    OBVIOUS
  <2>1. i + 1 \in DOMAIN q /\ 1 < i + 1 /\ r[i] = q[i + 1]
    BY <1>1
  <2> QED
    BY <1>1, <2>1 DEF QueueInOrder
<1> QED
  BY <1>1, <1>2, <1>3 DEF QueueInOrder, Elems, r

\* The places of a line.
PlaceLists == [1..LastPlace -> Seq(Frames)]

\* f joins place p; f leaves it.
Joins(P, Q, p, f) == Q[p] = Append(P[p], f) /\ \A o \in 1..LastPlace : o # p => Q[o] = P[o]
Leaves(P, Q, p, f) ==
  /\ P[p] # <<>> /\ f = Head(P[p]) /\ Q[p] = Tail(P[p])
  /\ \A o \in 1..LastPlace : o # p => Q[o] = P[o]

LEMMA PlacesEqual ==
  ASSUME NEW P \in PlaceLists, NEW Q \in PlaceLists, \A o \in 1..8 : Q[o] = P[o]
  PROVE  Q = P
<1>1. PICK S : P \in [1..8 -> S] /\ Q \in [1..8 -> S]
  BY DEF PlaceLists, LastPlace
<1> QED
  BY <1>1

LEMMA LineLoses ==
  ASSUME NEW s, NEW P, NEW n, NEW G, NEW H, G \subseteq H, Line(s, P, n, G)
  PROVE  Line(s, P, n, H)
  BY DEF Line

\* A frame of another stream joins.
LEMMA LineForeign ==
  ASSUME NEW s, NEW P \in PlaceLists, NEW Q \in PlaceLists, NEW n \in Nat, NEW G, Line(s, P, n, G),
         NEW p \in 1..LastPlace, NEW f \in Frames, f.stream # s, Joins(P, Q, p, f)
  PROVE  Line(s, Q, n, G) /\ (HasEnd(s, Q) <=> HasEnd(s, P))
<1> USE DEF Joins
<1>1. P[p] \in Seq(Frames)
  BY DEF PlaceLists
<1>2. Elems(Q[p]) = Elems(P[p]) \cup {f}
  BY <1>1, AppendElems
<1>3. \A g : Precedes(s, g, f) /\ Precedes(s, f, g)
  BY DEF Precedes
<1>4. QueueInOrder(s, Q[p])
  BY <1>1, <1>3, QueueGrows DEF Line
<1>5. \A o \in 1..LastPlace : QueueInOrder(s, Q[o])
  BY <1>4 DEF Line
<1>6. \A o \in 1..LastPlace : \A g \in Elems(Q[o]) : g.stream = s => g \in Elems(P[o])
  BY <1>2
<1>7. \A o \in 1..LastPlace : Elems(P[o]) \subseteq Elems(Q[o])
  BY <1>2
<1>8. \A o, r \in 1..LastPlace : r < o =>
        \A g \in Elems(Q[o]), h \in Elems(Q[r]) : Precedes(s, g, h)
  BY <1>6 DEF Line, Precedes
<1>9. \A o \in 1..LastPlace : \A g \in Elems(Q[o]) : g.stream = s => g.idx < n
  BY <1>6 DEF Line
<1>10. ASSUME NEW i \in 0..n - 1
       PROVE  \/ \E o \in 1..LastPlace : \E g \in Elems(Q[o]) : g.stream = s /\ g.idx = i
              \/ \E g \in G : g.stream = s /\ g.idx = i
  BY <1>7, <1>10 DEF Line
<1>11. HasEnd(s, Q) <=> HasEnd(s, P)
  BY <1>6, <1>7 DEF HasEnd
<1> QED
  BY <1>5, <1>8, <1>9, <1>10, <1>11 DEF Line

\* The next frame of the stream joins at the first place.
LEMMA LineGrows ==
  ASSUME NEW s, NEW P \in PlaceLists, NEW Q \in PlaceLists, NEW n \in Nat, NEW G, Line(s, P, n, G),
         NEW f \in Frames, f.stream = s, f.idx = n, ~HasEnd(s, P),
         Joins(P, Q, 1, f)
  PROVE  Line(s, Q, n + 1, G) /\ (HasEnd(s, Q) <=> f.is_eos)
<1> USE DEF Joins
<1>1. P[1] \in Seq(Frames) /\ 1 \in 1..LastPlace
  BY DEF PlaceLists, LastPlace
<1>2. Elems(Q[1]) = Elems(P[1]) \cup {f}
  BY <1>1, AppendElems
<1>3. \A o \in 1..LastPlace : \A g \in Elems(P[o]) : Precedes(s, g, f)
  BY DEF Precedes, Line, HasEnd
<1>4. QueueInOrder(s, Q[1])
  BY <1>1, <1>3, QueueGrows DEF Line
<1>5. \A o \in 1..LastPlace : QueueInOrder(s, Q[o])
  BY <1>4 DEF Line
<1>6. \A o \in 1..LastPlace : \A g \in Elems(Q[o]) : g \in Elems(P[o]) \/ (o = 1 /\ g = f)
  BY <1>2
<1>7. \A o \in 1..LastPlace : Elems(P[o]) \subseteq Elems(Q[o])
  BY <1>2
<1>8. ASSUME NEW o \in 1..LastPlace, NEW r \in 1..LastPlace, r < o,
             NEW g \in Elems(Q[o]), NEW h \in Elems(Q[r])
      PROVE  Precedes(s, g, h)
  <2>1. g \in Elems(P[o])
    BY <1>6, <1>8
  <2> QED
    BY <1>3, <1>6, <1>8, <2>1 DEF Line
<1>9. ASSUME NEW o \in 1..LastPlace, NEW g \in Elems(Q[o]), g.stream = s PROVE g.idx < n + 1
  <2>1. CASE g \in Elems(P[o]) /\ g # f
    <3>1. P[o] \in Seq(Frames)
      BY DEF PlaceLists
    <3>2. g \in Frames
      BY <2>1, <3>1 DEF Elems
    <3>3. g.idx \in Nat /\ g.idx < n
      BY <1>9, <2>1, <3>2 DEF Line, Frames
    <3> QED
      BY <3>3
  <2> QED
    BY <1>6, <1>9, <2>1
<1>10. ASSUME NEW i \in 0..n
       PROVE  \/ \E o \in 1..LastPlace : \E g \in Elems(Q[o]) : g.stream = s /\ g.idx = i
              \/ \E g \in G : g.stream = s /\ g.idx = i
  <2>1. CASE i = n
    BY <1>1, <1>2, <2>1
  <2>2. CASE i \in 0..n - 1
    BY <1>7, <2>2 DEF Line
  <2> QED
    BY <2>1, <2>2
<1>11. HasEnd(s, Q) <=> f.is_eos
  BY <1>1, <1>2, <1>6 DEF HasEnd
<1>12. 0..(n + 1) - 1 = 0..n
  OBVIOUS
<1> QED
  BY <1>5, <1>8, <1>9, <1>10, <1>11, <1>12 DEF Line

\* The first frame of a place leaves the line: of another stream, or given up.
LEMMA LineShrinks ==
  ASSUME NEW s, NEW P \in PlaceLists, NEW Q \in PlaceLists, NEW n \in Nat, NEW G, NEW H, Line(s, P, n, G),
         G \subseteq H, NEW p \in 1..LastPlace, NEW f \in Frames, Leaves(P, Q, p, f),
         f.stream # s \/ (f \in H /\ ~f.is_eos)
  PROVE  Line(s, Q, n, H) /\ (HasEnd(s, Q) <=> HasEnd(s, P))
<1> USE DEF Leaves
<1>1. P[p] \in Seq(Frames)
  BY DEF PlaceLists
<1>2. Elems(P[p]) = Elems(Q[p]) \cup {f}
  BY <1>1, TailElements
<1>3. QueueInOrder(s, Q[p])
  BY <1>1, QueueShrinks DEF Line
<1>4. \A o \in 1..LastPlace : QueueInOrder(s, Q[o])
  BY <1>3 DEF Line
<1>5. \A o \in 1..LastPlace : Elems(Q[o]) \subseteq Elems(P[o])
  BY <1>2
<1>6. \A o \in 1..LastPlace : \A g \in Elems(P[o]) : g \in Elems(Q[o]) \/ g = f
  BY <1>2
<1>7. f.stream # s \/ (f \in H /\ ~f.is_eos)
  OBVIOUS
<1>8. \A o, r \in 1..LastPlace : r < o =>
        \A g \in Elems(Q[o]), h \in Elems(Q[r]) : Precedes(s, g, h)
  BY <1>5 DEF Line
<1>9. \A o \in 1..LastPlace : \A g \in Elems(Q[o]) : g.stream = s => g.idx < n
  BY <1>5 DEF Line
<1>10. ASSUME NEW i \in 0..n - 1
       PROVE  \/ \E o \in 1..LastPlace : \E g \in Elems(Q[o]) : g.stream = s /\ g.idx = i
              \/ \E g \in H : g.stream = s /\ g.idx = i
  <2>1. CASE \E g \in G : g.stream = s /\ g.idx = i
    BY <2>1
  <2>2. ASSUME NEW o \in 1..LastPlace, NEW g \in Elems(P[o]), g.stream = s, g.idx = i
        PROVE  \/ \E u \in 1..LastPlace : \E h \in Elems(Q[u]) : h.stream = s /\ h.idx = i
               \/ \E h \in H : h.stream = s /\ h.idx = i
    BY <1>6, <1>7, <2>2
  <2> QED
    BY <2>1, <2>2 DEF Line
<1>11. HasEnd(s, Q) <=> HasEnd(s, P)
  BY <1>5, <1>6, <1>7 DEF HasEnd
<1> QED
  BY <1>4, <1>8, <1>9, <1>10, <1>11 DEF Line

\* The first frame of a place goes on to another, past empty places.
LEMMA LineMoves ==
  ASSUME NEW s, NEW P \in PlaceLists, NEW Q \in PlaceLists, NEW n \in Nat, NEW G, Line(s, P, n, G),
         NEW p \in 1..LastPlace, NEW r \in 1..LastPlace, p < r, P[p] # <<>>,
         \A o \in 1..LastPlace : p < o /\ o < r => P[o] = <<>>,
         Q[p] = Tail(P[p]), Q[r] = Append(P[r], Head(P[p])),
         \A o \in 1..LastPlace : o # p /\ o # r => Q[o] = P[o]
  PROVE  Line(s, Q, n, G) /\ (HasEnd(s, Q) <=> HasEnd(s, P))
<1>1. P[p] \in Seq(Frames) /\ P[r] \in Seq(Frames) /\ p # r
  BY DEF PlaceLists
<1>2. PICK f \in Frames : f = Head(P[p]) /\ Elems(P[p]) = Elems(Q[p]) \cup {f}
  BY <1>1, TailElements
<1>3. QueueInOrder(s, Q[p]) /\ \A g \in Elems(Q[p]) : Precedes(s, f, g)
  BY <1>1, <1>2, QueueShrinks DEF Line
<1>4. Elems(Q[r]) = Elems(P[r]) \cup {f}
  BY <1>1, <1>2, AppendElems
<1>5. \A g \in Elems(P[r]) : Precedes(s, g, f)
  BY <1>2 DEF Line
<1>6. QueueInOrder(s, Q[r])
  BY <1>1, <1>2, <1>5, QueueGrows DEF Line
<1>7. \A o \in 1..LastPlace : QueueInOrder(s, Q[o])
  BY <1>3, <1>6 DEF Line
<1>8. \A o \in 1..LastPlace : \A g \in Elems(Q[o]) : g \in Elems(P[o]) \/ (o = r /\ g = f)
  BY <1>2, <1>4
<1>9. \A o \in 1..LastPlace : \A g \in Elems(P[o]) : g \in Elems(Q[o]) \/ (o = p /\ g = f)
  BY <1>2, <1>4
<1>10. f \in Elems(Q[r]) /\ f \in Elems(P[p])
  BY <1>2, <1>4
<1>11. ASSUME NEW o \in 1..LastPlace, NEW u \in 1..LastPlace, u < o,
              NEW g \in Elems(Q[o]), NEW h \in Elems(Q[u])
       PROVE  Precedes(s, g, h)
  <2>1. CASE g \in Elems(P[o]) /\ h \in Elems(P[u])
    BY <1>11, <2>1 DEF Line
  <2>2. CASE u = r /\ h = f /\ g \in Elems(P[o])
    <3>1. p < o
      BY <1>11, <2>2
    <3> QED
      BY <1>10, <2>2, <3>1 DEF Line
  <2>3. CASE o = r /\ g = f /\ h \in Elems(P[u])
    <3>1. CASE u = p
      BY <1>3, <2>3, <3>1
    <3>2. CASE u < p
      BY <1>10, <2>3, <3>2 DEF Line
    <3>3. CASE p < u
      <4>1. P[u] = <<>>
        BY <1>11, <2>3, <3>3
      <4>2. Elems(<<>>) = {}
        BY DEF Elems
      <4> QED
        BY <2>3, <4>1, <4>2
    <3> QED
      BY <3>1, <3>2, <3>3
  <2>4. u # o
    BY <1>11 DEF LastPlace
  <2> QED
    BY <1>8, <2>1, <2>2, <2>3, <2>4
<1>12. ASSUME NEW o \in 1..LastPlace, NEW g \in Elems(Q[o]), g.stream = s PROVE g.idx < n
  BY <1>8, <1>10, <1>12 DEF Line
<1>13. ASSUME NEW i \in 0..n - 1
       PROVE  \/ \E o \in 1..LastPlace : \E g \in Elems(Q[o]) : g.stream = s /\ g.idx = i
              \/ \E g \in G : g.stream = s /\ g.idx = i
  <2>1. CASE \E g \in G : g.stream = s /\ g.idx = i
    BY <2>1
  <2>2. ASSUME NEW o \in 1..LastPlace, NEW g \in Elems(P[o]), g.stream = s, g.idx = i
        PROVE  \E u \in 1..LastPlace : \E h \in Elems(Q[u]) : h.stream = s /\ h.idx = i
    BY <1>9, <1>10, <2>2
  <2> QED
    BY <2>1, <2>2 DEF Line
<1>14. HasEnd(s, Q) <=> HasEnd(s, P)
  BY <1>8, <1>9, <1>10 DEF HasEnd
<1> QED
  BY <1>7, <1>11, <1>12, <1>13, <1>14 DEF Line

-----------------------------------------------------------------------------
(* Pipeline: its places *)

USE DEF InferNode, OsdNode, EncodeNode

LEMMA NodeFacts ==
  /\ Len(PipeNodes) = 3 /\ 1..Len(PipeNodes) = {1, 2, 3}
  /\ Parallelism(2) = 1 /\ Parallelism(3) = 1
  /\ infer_kind = "sync" => Parallelism(1) = 2
  /\ infer_kind # "sync" => Parallelism(1) = 1
  /\ 0..Parallelism(1) - 1 \subseteq {0, 1}
  /\ \A n \in {1, 2, 3}, k \in {0, 1} : <<n, k>> \in Tasks
  /\ \A n \in {2, 3} : \A k \in 0..Parallelism(n) - 1 : k = 0
<1>1. Len(PipeNodes) = 3
  BY DEF PipeNodes
<1>2. 1..Len(PipeNodes) = {1, 2, 3}
  BY <1>1
<1> QED
  BY <1>1, <1>2 DEF Parallelism, Tasks

LEMMA LaneFacts ==
  /\ \A s \in Streams : s \in Nat /\ s % 1 = 0
  /\ \A s \in Streams : Lane(s) \in {0, 1} /\ Lane(s) \in 0..Parallelism(1) - 1
  /\ \A s \in Streams : infer_kind # "sync" => Lane(s) = 0
<1>1. \A s \in Streams : s \in Nat
  BY PipelineConstants DEF Streams
<1>2. \A s \in Nat : s % 1 = 0 /\ s % 2 \in {0, 1}
  OBVIOUS
<1>3. \A s \in Streams : s % 1 = 0 /\ s % 2 \in {0, 1}
  BY <1>1, <1>2
<1> QED
  BY <1>1, <1>3 DEF Lane, Parallelism

LEMMA HandTyped ==
  ASSUME PipelineTyped
  PROVE  \A n \in {1, 2, 3}, k \in {0, 1} : InHand(n, k) \in Seq(Frames) /\ frameQueue[<<n, k>>] \in Seq(Frames)
<1> SUFFICES ASSUME NEW n \in {1, 2, 3}, NEW k \in {0, 1}
             PROVE  InHand(n, k) \in Seq(Frames) /\ frameQueue[<<n, k>>] \in Seq(Frames)
  OBVIOUS
<1>1. worker[<<n, k>>] \in WorkerStates /\ frameQueue[<<n, k>>] \in Seq(Frames)
  BY NodeFacts DEF PipelineTyped
<1>2. worker[<<n, k>>].pc = "process" => worker[<<n, k>>].frame \in Frames
  BY <1>1 DEF WorkerStates, AtLoop, ThreadGone
<1>3. <<>> \in Seq(Frames) /\ \A x \in Frames : <<x>> \in Seq(Frames)
  OBVIOUS
<1> QED
  BY <1>1, <1>2, <1>3 DEF InHand

LEMMA HandTypedNext ==
  ASSUME PipelineTyped'
  PROVE  \A n \in {1, 2, 3}, k \in {0, 1} : InHand(n, k)' \in Seq(Frames) /\ frameQueue'[<<n, k>>] \in Seq(Frames)
<1> SUFFICES ASSUME NEW n \in {1, 2, 3}, NEW k \in {0, 1}
             PROVE  InHand(n, k)' \in Seq(Frames) /\ frameQueue'[<<n, k>>] \in Seq(Frames)
  OBVIOUS
<1>1. worker'[<<n, k>>] \in WorkerStates /\ frameQueue'[<<n, k>>] \in Seq(Frames)
  BY NodeFacts DEF PipelineTyped
<1>2. worker'[<<n, k>>].pc = "process" => worker'[<<n, k>>].frame \in Frames
  BY <1>1 DEF WorkerStates, AtLoop, ThreadGone
<1>3. <<>> \in Seq(Frames) /\ \A x \in Frames : <<x>> \in Seq(Frames)
  OBVIOUS
<1> QED
  BY <1>1, <1>2, <1>3 DEF InHand

LEMMA PlacesNow ==
  ASSUME PipelineTyped, NEW s \in Streams
  PROVE  \E P \in PlaceLists :
           /\ P = Places(s)
           /\ P[1] = frameQueue[<<1, Lane(s)>>] /\ P[2] = InHand(1, Lane(s)) /\ P[3] = asked
           /\ P[4] = frameQueue[<<2, 0>>] /\ P[5] = InHand(2, 0)
           /\ P[6] = frameQueue[<<3, 0>>] /\ P[7] = InHand(3, 0) /\ P[8] = encodedBy[s]
<1>1. /\ frameQueue[<<1, Lane(s)>>] \in Seq(Frames) /\ InHand(1, Lane(s)) \in Seq(Frames) /\ asked \in Seq(Frames)
      /\ frameQueue[<<2, 0>>] \in Seq(Frames) /\ InHand(2, 0) \in Seq(Frames)
      /\ frameQueue[<<3, 0>>] \in Seq(Frames) /\ InHand(3, 0) \in Seq(Frames) /\ encodedBy[s] \in Seq(Frames)
  BY HandTyped, LaneFacts DEF PipelineTyped
<1>2. PICK S : S = Seq(Frames)
  OBVIOUS
<1>3. Places(s) \in [1..8 -> S]
  BY <1>1, <1>2 DEF Places
<1> QED
  BY <1>2, <1>3 DEF Places, PlaceLists, LastPlace

LEMMA PlacesNext ==
  ASSUME PipelineTyped', infer_kind' = infer_kind, NEW s \in Streams
  PROVE  \E P \in PlaceLists :
           /\ P = Places(s)'
           /\ P[1] = frameQueue'[<<1, Lane(s)>>] /\ P[2] = InHand(1, Lane(s))' /\ P[3] = asked'
           /\ P[4] = frameQueue'[<<2, 0>>] /\ P[5] = InHand(2, 0)'
           /\ P[6] = frameQueue'[<<3, 0>>] /\ P[7] = InHand(3, 0)' /\ P[8] = encodedBy'[s]
<1>1. Lane(s)' = Lane(s)
  BY DEF Lane, Parallelism
<1>2. PICK l \in {0, 1} : l = Lane(s) /\ l = Lane(s)'
  BY <1>1, LaneFacts
<1>3. /\ frameQueue'[<<1, l>>] \in Seq(Frames) /\ InHand(1, l)' \in Seq(Frames) /\ asked' \in Seq(Frames)
      /\ frameQueue'[<<2, 0>>] \in Seq(Frames) /\ InHand(2, 0)' \in Seq(Frames)
      /\ frameQueue'[<<3, 0>>] \in Seq(Frames) /\ InHand(3, 0)' \in Seq(Frames) /\ encodedBy'[s] \in Seq(Frames)
  BY HandTypedNext DEF PipelineTyped
<1>4. PICK S : S = Seq(Frames)
  OBVIOUS
<1>5. InHand(1, Lane(s))' = InHand(1, l)'
  BY <1>2 DEF InHand
<1>6. Places(s)' = <<frameQueue'[<<1, l>>], InHand(1, l)', asked', frameQueue'[<<2, 0>>], InHand(2, 0)',
                     frameQueue'[<<3, 0>>], InHand(3, 0)', encodedBy'[s]>>
  BY <1>2, <1>5 DEF Places
<1>7. Places(s)' \in [1..8 -> S]
  BY <1>3, <1>4, <1>6
<1>8. PICK P \in PlaceLists : P = Places(s)'
  BY <1>4, <1>7 DEF PlaceLists, LastPlace
<1>9. /\ P[1] = frameQueue'[<<1, l>>] /\ P[2] = InHand(1, l)' /\ P[3] = asked'
      /\ P[4] = frameQueue'[<<2, 0>>] /\ P[5] = InHand(2, 0)'
      /\ P[6] = frameQueue'[<<3, 0>>] /\ P[7] = InHand(3, 0)' /\ P[8] = encodedBy'[s]
  BY <1>6, <1>8
<1> QED
  BY <1>2, <1>5, <1>8, <1>9

-----------------------------------------------------------------------------
(* Pipeline: frames pass from place to place *)

FlowKept ==
  \A s \in Streams : /\ Line(s, Places(s)', frame_count_'[s], givenUp')
                     /\ HasEnd(s, Places(s)') <=> HasEnd(s, Places(s))

LEMMA OneFrame ==
  ASSUME NEW x \in Frames
  PROVE  Append(<<>>, x) = <<x>> /\ Tail(<<x>>) = <<>> /\ Head(<<x>>) = x /\ <<x>> # <<>>
  OBVIOUS

LEMMA HandEffect ==
  ASSUME PipelineTyped, NEW n \in {1, 2, 3}, NEW k \in {0, 1}, NEW w, worker' = [worker EXCEPT ![<<n, k>>] = w]
  PROVE  /\ InHand(n, k)' = (IF w.pc = "process" THEN <<w.frame>> ELSE <<>>)
         /\ \A m \in {1, 2, 3}, l \in {0, 1} : m # n \/ l # k => InHand(m, l)' = InHand(m, l)
<1>1. <<n, k>> \in DOMAIN worker
  BY NodeFacts DEF PipelineTyped
<1>2. worker'[<<n, k>>] = w
  BY <1>1
<1>3. ASSUME NEW m \in {1, 2, 3}, NEW l \in {0, 1}, m # n \/ l # k PROVE InHand(m, l)' = InHand(m, l)
  <2>1. <<m, l>> # <<n, k>>
    BY <1>3
  <2>2. worker'[<<m, l>>] = worker[<<m, l>>]
    BY <2>1, NodeFacts DEF PipelineTyped
  <2> QED
    BY <2>2 DEF InHand
<1> QED
  BY <1>2, <1>3 DEF InHand

LEMMA QueueEffect ==
  ASSUME PipelineTyped, NEW n \in {1, 2, 3}, NEW k \in {0, 1}, NEW q, frameQueue' = [frameQueue EXCEPT ![<<n, k>>] = q]
  PROVE  /\ frameQueue'[<<n, k>>] = q
         /\ \A m \in {1, 2, 3}, l \in {0, 1} : m # n \/ l # k => frameQueue'[<<m, l>>] = frameQueue[<<m, l>>]
<1>1. <<n, k>> \in DOMAIN frameQueue
  BY NodeFacts DEF PipelineTyped
<1>2. ASSUME NEW m \in {1, 2, 3}, NEW l \in {0, 1}, m # n \/ l # k PROVE frameQueue'[<<m, l>>] = frameQueue[<<m, l>>]
  <2>1. <<m, l>> # <<n, k>>
    BY <1>2
  <2> QED
    BY <2>1, NodeFacts DEF PipelineTyped
<1> QED
  BY <1>1, <1>2

LEMMA PlacesSame ==
  ASSUME infer_kind' = infer_kind, UNCHANGED <<frameQueue, asked, encodedBy>>, NEW s \in Streams,
         \A n \in {1, 2, 3}, k \in {0, 1} : InHand(n, k)' = InHand(n, k)
  PROVE  Places(s)' = Places(s)
<1>1. PICK l \in {0, 1} : l = Lane(s) /\ l = Lane(s)'
  BY LaneFacts DEF Lane, Parallelism
<1>2. InHand(1, Lane(s))' = InHand(1, l)'
  BY <1>1 DEF InHand
<1>3. InHand(1, l)' = InHand(1, l) /\ InHand(2, 0)' = InHand(2, 0) /\ InHand(3, 0)' = InHand(3, 0)
  OBVIOUS
<1> QED
  BY <1>1, <1>2, <1>3 DEF Places

LEMMA FlowSame ==
  ASSUME LinesKept, infer_kind' = infer_kind, UNCHANGED <<frameQueue, asked, encodedBy, frame_count_>>,
         givenUp \subseteq givenUp',
         \A n \in {1, 2, 3}, k \in {0, 1} : InHand(n, k)' = InHand(n, k)
  PROVE  FlowKept
<1> SUFFICES ASSUME NEW s \in Streams
             PROVE  /\ Line(s, Places(s)', frame_count_'[s], givenUp')
                    /\ HasEnd(s, Places(s)') <=> HasEnd(s, Places(s))
  BY DEF FlowKept
<1>1. Places(s)' = Places(s)
  BY PlacesSame
<1>2. Line(s, Places(s), frame_count_[s], givenUp)
  BY DEF LinesKept
<1> QED
  BY <1>1, <1>2, LineLoses

\* The pop of a task.
LEMMA PopFlow ==
  ASSUME PipelineTyped, LinesKept, NEW n \in {1, 2, 3}, NEW k \in {0, 1}, n # 1 => k = 0,
         PopFrame(n, k), PipelineTyped'
  PROVE  FlowKept
<1> SUFFICES ASSUME NEW s \in Streams
             PROVE  /\ Line(s, Places(s)', frame_count_'[s], givenUp')
                    /\ HasEnd(s, Places(s)') <=> HasEnd(s, Places(s))
  BY DEF FlowKept
<1>1. /\ frameQueue[<<n, k>>] # <<>> /\ worker[<<n, k>>] = AtLoop
      /\ worker' = [worker EXCEPT ![<<n, k>>] = [pc |-> "process", frame |-> Head(frameQueue[<<n, k>>])]]
      /\ frameQueue' = [frameQueue EXCEPT ![<<n, k>>] = Tail(frameQueue[<<n, k>>])]
      /\ UNCHANGED <<infer_kind, asked, encodedBy, givenUp, frame_count_>>
  BY DEF PopFrame, mainVars, sourceVars
<1>2. frameQueue[<<n, k>>] \in Seq(Frames)
  BY HandTyped
<1>3. PICK x \in Frames : x = Head(frameQueue[<<n, k>>])
  BY <1>1, <1>2, TailElements
<1>4. InHand(n, k) = <<>>
  BY <1>1 DEF InHand, AtLoop
<1>5. /\ InHand(n, k)' = <<x>>
      /\ \A m \in {1, 2, 3}, l \in {0, 1} : m # n \/ l # k => InHand(m, l)' = InHand(m, l)
  <2>1. PICK w : w = [pc |-> "process", frame |-> x]
    OBVIOUS
  <2>2. w.pc = "process" /\ w.frame = x
    BY <2>1
  <2>3. worker' = [worker EXCEPT ![<<n, k>>] = w]
    BY <1>1, <1>3, <2>1
  <2> QED
    BY <2>2, <2>3, HandEffect
<1>6. /\ frameQueue'[<<n, k>>] = Tail(frameQueue[<<n, k>>])
      /\ \A m \in {1, 2, 3}, l \in {0, 1} : m # n \/ l # k => frameQueue'[<<m, l>>] = frameQueue[<<m, l>>]
  <2>1. PICK q : q = Tail(frameQueue[<<n, k>>])
    OBVIOUS
  <2>2. frameQueue' = [frameQueue EXCEPT ![<<n, k>>] = q]
    BY <1>1, <2>1
  <2> QED
    BY <2>1, <2>2, QueueEffect
<1>7. PICK P \in PlaceLists :
           /\ P = Places(s)
           /\ P[1] = frameQueue[<<1, Lane(s)>>] /\ P[2] = InHand(1, Lane(s)) /\ P[3] = asked
           /\ P[4] = frameQueue[<<2, 0>>] /\ P[5] = InHand(2, 0)
           /\ P[6] = frameQueue[<<3, 0>>] /\ P[7] = InHand(3, 0) /\ P[8] = encodedBy[s]
  BY PlacesNow
<1>8. PICK Q \in PlaceLists :
           /\ Q = Places(s)'
           /\ Q[1] = frameQueue'[<<1, Lane(s)>>] /\ Q[2] = InHand(1, Lane(s))' /\ Q[3] = asked'
           /\ Q[4] = frameQueue'[<<2, 0>>] /\ Q[5] = InHand(2, 0)'
           /\ Q[6] = frameQueue'[<<3, 0>>] /\ Q[7] = InHand(3, 0)' /\ Q[8] = encodedBy'[s]
  BY <1>1, PlacesNext
<1>9. PICK l \in {0, 1} : l = Lane(s) /\ l = Lane(s)'
  BY <1>1, LaneFacts DEF Lane, Parallelism
<1>10. P[2] = InHand(1, l) /\ Q[2] = InHand(1, l)'
  BY <1>7, <1>8, <1>9 DEF InHand
<1>11. Line(s, P, frame_count_[s], givenUp) /\ frame_count_[s] \in Nat
  BY <1>7 DEF LinesKept, PipelineTyped
<1>12. ASSUME NEW p \in {1, 4, 6}, P[p] = frameQueue[<<n, k>>], P[p + 1] = InHand(n, k), Q[p + 1] = InHand(n, k)',
              Q[p] = frameQueue'[<<n, k>>], \A o \in 1..8 : o # p /\ o # p + 1 => Q[o] = P[o]
       PROVE  /\ Line(s, Q, frame_count_[s], givenUp)
              /\ HasEnd(s, Q) <=> HasEnd(s, P)
  <2>1. PICK r \in 1..LastPlace : r = p + 1
    BY DEF LastPlace
  <2>2. p \in 1..LastPlace /\ p < r /\ \A o \in 1..LastPlace : ~(p < o /\ o < r)
    BY <2>1 DEF LastPlace
  <2>3. Q[r] = Append(P[r], Head(P[p])) /\ P[p] # <<>> /\ Q[p] = Tail(P[p])
    <3>1. Q[r] = <<x>> /\ P[r] = <<>> /\ Head(P[p]) = x
      BY <1>3, <1>4, <1>5, <1>12, <2>1
    <3>2. Append(<<>>, x) = <<x>>
      BY OneFrame
    <3>3. P[p] # <<>> /\ Q[p] = Tail(P[p])
      BY <1>1, <1>6, <1>12
    <3> QED
      BY <3>1, <3>2, <3>3
  <2>4. \A o \in 1..LastPlace : o # p /\ o # r => Q[o] = P[o]
    BY <1>12, <2>1 DEF LastPlace
  <2> QED
    BY <1>11, <2>2, <2>3, <2>4, LineMoves
<1>13. CASE n = 1 /\ k = l
  <2>1. \A o \in 1..8 : o # 1 /\ o # 1 + 1 => Q[o] = P[o]
    BY <1>1, <1>5, <1>6, <1>7, <1>8, <1>13
  <2>2. P[1] = frameQueue[<<n, k>>] /\ P[1 + 1] = InHand(n, k) /\ Q[1 + 1] = InHand(n, k)' /\ Q[1] = frameQueue'[<<n, k>>]
    BY <1>7, <1>8, <1>9, <1>10, <1>13
  <2> QED
    BY <1>1, <1>7, <1>8, <1>12, <2>1, <2>2
<1>14. CASE n = 1 /\ k # l
  <2>1. \A o \in 1..8 : Q[o] = P[o]
    BY <1>1, <1>5, <1>6, <1>7, <1>8, <1>9, <1>10, <1>14
  <2>2. Q = P
    BY <2>1, PlacesEqual
  <2> QED
    BY <1>1, <1>7, <1>8, <1>11, <2>2
<1>15. CASE n = 2
  <2>0. k = 0
    BY <1>15
  <2>1. \A o \in 1..8 : o # 4 /\ o # 4 + 1 => Q[o] = P[o]
    BY <1>1, <1>5, <1>6, <1>7, <1>8, <1>9, <1>10, <1>15, <2>0
  <2>2. P[4] = frameQueue[<<n, k>>] /\ P[4 + 1] = InHand(n, k) /\ Q[4 + 1] = InHand(n, k)' /\ Q[4] = frameQueue'[<<n, k>>]
    BY <1>7, <1>8, <1>15, <2>0
  <2> QED
    BY <1>1, <1>7, <1>8, <1>12, <2>1, <2>2
<1>16. CASE n = 3
  <2>0. k = 0
    BY <1>16
  <2>1. \A o \in 1..8 : o # 6 /\ o # 6 + 1 => Q[o] = P[o]
    BY <1>1, <1>5, <1>6, <1>7, <1>8, <1>9, <1>10, <1>16, <2>0
  <2>2. P[6] = frameQueue[<<n, k>>] /\ P[6 + 1] = InHand(n, k) /\ Q[6 + 1] = InHand(n, k)' /\ Q[6] = frameQueue'[<<n, k>>]
    BY <1>7, <1>8, <1>16, <2>0
  <2> QED
    BY <1>1, <1>7, <1>8, <1>12, <2>1, <2>2
<1> QED
  BY <1>13, <1>14, <1>15, <1>16

\* The places of a stream before and after a step.
LEMMA BothPlaces ==
  ASSUME PipelineTyped, LinesKept, PipelineTyped', infer_kind' = infer_kind, NEW s \in Streams
  PROVE  \E P \in PlaceLists, Q \in PlaceLists, l \in {0, 1} :
           /\ P = Places(s) /\ Q = Places(s)' /\ l = Lane(s)
           /\ P[1] = frameQueue[<<1, l>>] /\ P[2] = InHand(1, l) /\ P[3] = asked
           /\ P[4] = frameQueue[<<2, 0>>] /\ P[5] = InHand(2, 0)
           /\ P[6] = frameQueue[<<3, 0>>] /\ P[7] = InHand(3, 0) /\ P[8] = encodedBy[s]
           /\ Q[1] = frameQueue'[<<1, l>>] /\ Q[2] = InHand(1, l)' /\ Q[3] = asked'
           /\ Q[4] = frameQueue'[<<2, 0>>] /\ Q[5] = InHand(2, 0)'
           /\ Q[6] = frameQueue'[<<3, 0>>] /\ Q[7] = InHand(3, 0)' /\ Q[8] = encodedBy'[s]
           /\ Line(s, P, frame_count_[s], givenUp) /\ frame_count_[s] \in Nat
<1>1. PICK P \in PlaceLists :
           /\ P = Places(s)
           /\ P[1] = frameQueue[<<1, Lane(s)>>] /\ P[2] = InHand(1, Lane(s)) /\ P[3] = asked
           /\ P[4] = frameQueue[<<2, 0>>] /\ P[5] = InHand(2, 0)
           /\ P[6] = frameQueue[<<3, 0>>] /\ P[7] = InHand(3, 0) /\ P[8] = encodedBy[s]
  BY PlacesNow
<1>2. PICK Q \in PlaceLists :
           /\ Q = Places(s)'
           /\ Q[1] = frameQueue'[<<1, Lane(s)>>] /\ Q[2] = InHand(1, Lane(s))' /\ Q[3] = asked'
           /\ Q[4] = frameQueue'[<<2, 0>>] /\ Q[5] = InHand(2, 0)'
           /\ Q[6] = frameQueue'[<<3, 0>>] /\ Q[7] = InHand(3, 0)' /\ Q[8] = encodedBy'[s]
  BY PlacesNext
<1>3. PICK l \in {0, 1} : l = Lane(s) /\ l = Lane(s)'
  BY LaneFacts DEF Lane, Parallelism
<1>4. P[2] = InHand(1, l) /\ Q[2] = InHand(1, l)'
  BY <1>1, <1>2, <1>3 DEF InHand
<1>5. Line(s, P, frame_count_[s], givenUp) /\ frame_count_[s] \in Nat
  BY <1>1 DEF LinesKept, PipelineTyped
<1> QED
  BY <1>1, <1>2, <1>3, <1>4, <1>5

LEMMA NoElements ==
  ASSUME NEW S, NEW q \in Seq(S), Elems(q) = {}
  PROVE  q = <<>>
<1>1. q # <<>> => Head(q) \in Elems(q)
  BY TailElements
<1> QED
  BY <1>1

\* What Process of a module does with its frame.
PassedOn(n, x) ==
  /\ frameQueue' = [frameQueue EXCEPT ![<<n + 1, 0>>] = Append(frameQueue[<<n + 1, 0>>], x)]
  /\ n = 1 => asked = <<>>
  /\ UNCHANGED <<asked, encodedBy, givenUp>>
Abandoned(x) == givenUp' = givenUp \cup {x} /\ ~x.is_eos /\ UNCHANGED <<frameQueue, asked, encodedBy>>
Requested(x) == asked' = Append(asked, x) /\ ~x.is_eos /\ UNCHANGED <<frameQueue, encodedBy, givenUp>>
Encoded(x) ==
  /\ encodedBy' = [encodedBy EXCEPT ![x.stream] = Append(encodedBy[x.stream], x)]
  /\ UNCHANGED <<frameQueue, asked, givenUp>>

LEMMA ProcessEffect ==
  ASSUME PipelineTyped, LanesKept, NEW n \in {1, 2, 3}, NEW k \in {0, 1}, ModuleProcess(n, k)
  PROVE  \E x \in Frames :
           /\ worker[<<n, k>>] = [pc |-> "process", frame |-> x] /\ UNCHANGED <<infer_kind, frame_count_>>
           /\ InHand(n, k) = <<x>> /\ InHand(n, k)' = <<>>
           /\ worker' = [worker EXCEPT ![<<n, k>>] = IF n = 3 THEN [pc |-> "mark", frame |-> x] ELSE AtLoop]
           /\ \A m \in {1, 2, 3}, l \in {0, 1} : m # n \/ l # k => InHand(m, l)' = InHand(m, l)
           /\ \/ n \in {1, 2} /\ PassedOn(n, x)
              \/ n \in {1, 2} /\ Abandoned(x)
              \/ n = 1 /\ infer_kind = "async" /\ Requested(x)
              \/ n = 3 /\ Encoded(x)
<1>1. worker[<<n, k>>] \in WorkerStates /\ worker[<<n, k>>].pc = "process"
  BY NodeFacts DEF PipelineTyped, ModuleProcess
<1>2. worker[<<n, k>>] \in [pc : {"process", "mark"}, frame : Frames]
  BY <1>1 DEF WorkerStates, AtLoop, ThreadGone
<1>3. PICK x \in Frames : worker[<<n, k>>] = [pc |-> "process", frame |-> x] /\ x = worker[<<n, k>>].frame
  BY <1>1, <1>2
<1>4. PICK w : w = IF n = 3 THEN [pc |-> "mark", frame |-> x] ELSE AtLoop
  OBVIOUS
<1>5. worker' = [worker EXCEPT ![<<n, k>>] = w] /\ w.pc # "process"
  <2>1. [worker[<<n, k>>] EXCEPT !.pc = "mark"] = [pc |-> "mark", frame |-> x]
    BY <1>3
  <2>2. worker' = [worker EXCEPT ![<<n, k>>] = IF n = 3 THEN [worker[<<n, k>>] EXCEPT !.pc = "mark"] ELSE AtLoop]
    BY NodeFacts DEF ModuleProcess
  <2> QED
    BY <1>4, <2>1, <2>2 DEF AtLoop
<1>6. InHand(n, k)' = <<>> /\ \A m \in {1, 2, 3}, l \in {0, 1} : m # n \/ l # k => InHand(m, l)' = InHand(m, l)
  BY <1>5, HandEffect
<1>7. InHand(n, k) = <<x>>
  BY <1>1, <1>3 DEF InHand
<1>8. x.stream \in Streams /\ x.stream % 1 = 0
  BY LaneFacts DEF Frames
<1>9. infer_kind = "sync" => asked = <<>>
  <2>1. infer_kind = "sync" => Elems(asked) = {}
    BY DEF LanesKept
  <2> QED
    BY <2>1, NoElements DEF PipelineTyped
<1>10. n \in {1, 2} => Transmitted(frameQueue, n + 1, x) =
                         [frameQueue EXCEPT ![<<n + 1, 0>>] = Append(frameQueue[<<n + 1, 0>>], x)]
  <2>1. n \in {1, 2} => ~(n + 1 > Len(PipeNodes)) /\ Parallelism(n + 1) = 1
    BY NodeFacts
  <2> QED
    BY <1>8, <2>1 DEF Transmitted
<1>11. n = 3 => Transmitted(frameQueue, n + 1, x) = frameQueue
  BY NodeFacts DEF Transmitted
<1> DEFINE Outcome == \/ n \in {1, 2} /\ PassedOn(n, x)
                      \/ n \in {1, 2} /\ Abandoned(x)
                      \/ n = 1 /\ infer_kind = "async" /\ Requested(x)
                      \/ n = 3 /\ Encoded(x)
<1>12. ASSUME n = 1 /\ infer_kind = "async" /\ AsyncProcess(x) /\ UNCHANGED encodedBy
       PROVE  Outcome
  BY <1>10, <1>12 DEF AsyncProcess, PassOn, GiveUp, PassedOn, Abandoned, Requested
<1>13. ASSUME n = 1 /\ infer_kind = "sync" /\ SyncProcess(x) /\ UNCHANGED encodedBy
       PROVE  Outcome
  BY <1>9, <1>10, <1>13 DEF SyncProcess, PassOn, GiveUp, PassedOn, Abandoned
<1>14. ASSUME n = 2 /\ OsdProcess(x) /\ UNCHANGED encodedBy
       PROVE  Outcome
  BY <1>10, <1>14 DEF OsdProcess, PassOn, GiveUp, PassedOn, Abandoned
<1>15. ASSUME n = 3 /\ encodedBy' = [encodedBy EXCEPT ![x.stream] = Append(@, x)] /\ PassOn(3, x) /\ UNCHANGED asked
       PROVE  Outcome
  BY <1>11, <1>15 DEF PassOn, Encoded
<1>16. /\ UNCHANGED <<infer_kind, frame_count_>>
       /\ \/ n = 1 /\ infer_kind = "async" /\ AsyncProcess(x) /\ UNCHANGED encodedBy
          \/ n = 1 /\ infer_kind = "sync" /\ SyncProcess(x) /\ UNCHANGED encodedBy
          \/ n = 2 /\ OsdProcess(x) /\ UNCHANGED encodedBy
          \/ n = 3 /\ encodedBy' = [encodedBy EXCEPT ![x.stream] = Append(@, x)] /\ PassOn(3, x) /\ UNCHANGED asked
  BY <1>3 DEF ModuleProcess, mainVars, sourceVars
<1>17. /\ worker[<<n, k>>] = [pc |-> "process", frame |-> x] /\ UNCHANGED <<infer_kind, frame_count_>>
       /\ InHand(n, k) = <<x>> /\ InHand(n, k)' = <<>>
       /\ worker' = [worker EXCEPT ![<<n, k>>] = IF n = 3 THEN [pc |-> "mark", frame |-> x] ELSE AtLoop]
       /\ \A m \in {1, 2, 3}, l \in {0, 1} : m # n \/ l # k => InHand(m, l)' = InHand(m, l)
  BY <1>3, <1>4, <1>5, <1>6, <1>7, <1>16
<1> QED
  BY <1>12, <1>13, <1>14, <1>15, <1>16, <1>17

\* The frame a task has leaves it.
LEMMA ProcessFlow ==
  ASSUME PipelineTyped, LinesKept, LanesKept, NEW n \in {1, 2, 3}, NEW k \in {0, 1}, n # 1 => k = 0,
         infer_kind = "async" => k = 0, ModuleProcess(n, k), PipelineTyped'
  PROVE  FlowKept
<1> SUFFICES ASSUME NEW s \in Streams
             PROVE  /\ Line(s, Places(s)', frame_count_'[s], givenUp')
                    /\ HasEnd(s, Places(s)') <=> HasEnd(s, Places(s))
  BY DEF FlowKept
<1>1. PICK x \in Frames :
           /\ worker[<<n, k>>] = [pc |-> "process", frame |-> x] /\ UNCHANGED <<infer_kind, frame_count_>>
           /\ InHand(n, k) = <<x>> /\ InHand(n, k)' = <<>>
           /\ worker' = [worker EXCEPT ![<<n, k>>] = IF n = 3 THEN [pc |-> "mark", frame |-> x] ELSE AtLoop]
           /\ \A m \in {1, 2, 3}, l \in {0, 1} : m # n \/ l # k => InHand(m, l)' = InHand(m, l)
           /\ \/ n \in {1, 2} /\ PassedOn(n, x)
              \/ n \in {1, 2} /\ Abandoned(x)
              \/ n = 1 /\ infer_kind = "async" /\ Requested(x)
              \/ n = 3 /\ Encoded(x)
  BY ProcessEffect
<1>2. PICK P \in PlaceLists, Q \in PlaceLists, l \in {0, 1} :
           /\ P = Places(s) /\ Q = Places(s)' /\ l = Lane(s)
           /\ P[1] = frameQueue[<<1, l>>] /\ P[2] = InHand(1, l) /\ P[3] = asked
           /\ P[4] = frameQueue[<<2, 0>>] /\ P[5] = InHand(2, 0)
           /\ P[6] = frameQueue[<<3, 0>>] /\ P[7] = InHand(3, 0) /\ P[8] = encodedBy[s]
           /\ Q[1] = frameQueue'[<<1, l>>] /\ Q[2] = InHand(1, l)' /\ Q[3] = asked'
           /\ Q[4] = frameQueue'[<<2, 0>>] /\ Q[5] = InHand(2, 0)'
           /\ Q[6] = frameQueue'[<<3, 0>>] /\ Q[7] = InHand(3, 0)' /\ Q[8] = encodedBy'[s]
           /\ Line(s, P, frame_count_[s], givenUp) /\ frame_count_[s] \in Nat
  BY <1>1, BothPlaces
<1>a. PICK c \in Nat : c = frame_count_[s] /\ c = frame_count_'[s] /\ Line(s, P, c, givenUp)
  BY <1>1, <1>2
<1>b. /\ P[1] = frameQueue[<<1, l>>] /\ P[2] = InHand(1, l) /\ P[3] = asked
      /\ P[4] = frameQueue[<<2, 0>>] /\ P[5] = InHand(2, 0)
      /\ P[6] = frameQueue[<<3, 0>>] /\ P[7] = InHand(3, 0) /\ P[8] = encodedBy[s]
      /\ Q[1] = frameQueue'[<<1, l>>] /\ Q[2] = InHand(1, l)' /\ Q[3] = asked'
      /\ Q[4] = frameQueue'[<<2, 0>>] /\ Q[5] = InHand(2, 0)'
      /\ Q[6] = frameQueue'[<<3, 0>>] /\ Q[7] = InHand(3, 0)' /\ Q[8] = encodedBy'[s]
  BY <1>2
<1>c. /\ InHand(n, k) = <<x>> /\ InHand(n, k)' = <<>>
      /\ \A m \in {1, 2, 3}, j \in {0, 1} : m # n \/ j # k => InHand(m, j)' = InHand(m, j)
  BY <1>1
<1> SUFFICES Line(s, Q, c, givenUp') /\ (HasEnd(s, Q) <=> HasEnd(s, P))
  BY <1>2, <1>a
<1>3. /\ Tail(<<x>>) = <<>> /\ Head(<<x>>) = x /\ <<x>> # <<>>
  BY OneFrame
<1>4. n = 1 => Lane(x.stream) = k
  <2>1. x \in Elems(<<x>>)
    BY DEF Elems
  <2> QED
    BY <1>1, <2>1 DEF LanesKept
<1>5. ASSUME NEW p \in {2, 5, 7}, P[p] = <<x>>, Q[p] = <<>>,
             NEW r \in 1..LastPlace, p < r, \A o \in 1..LastPlace : p < o /\ o < r => P[o] = <<>>,
             Q[r] = Append(P[r], x), \A o \in 1..8 : o # p /\ o # r => Q[o] = P[o]
      PROVE  Line(s, Q, c, givenUp) /\ (HasEnd(s, Q) <=> HasEnd(s, P))
  <2>1. p \in 1..LastPlace /\ Q[r] = Append(P[r], Head(P[p])) /\ P[p] # <<>> /\ Q[p] = Tail(P[p])
    BY <1>3, <1>5 DEF LastPlace
  <2>2. \A o \in 1..LastPlace : o # p /\ o # r => Q[o] = P[o]
    BY <1>5 DEF LastPlace
  <2> QED
    BY <1>a, <1>5, <2>1, <2>2, LineMoves
<1>6. ASSUME NEW p \in {2, 5, 7}, P[p] = <<x>>, Q[p] = <<>>, NEW H, givenUp \subseteq H,
             x.stream # s \/ (x \in H /\ ~x.is_eos), \A o \in 1..8 : o # p => Q[o] = P[o]
      PROVE  Line(s, Q, c, H) /\ (HasEnd(s, Q) <=> HasEnd(s, P))
  <2>1. p \in 1..LastPlace /\ Head(P[p]) = x /\ P[p] # <<>> /\ Q[p] = Tail(P[p])
    BY <1>3, <1>6 DEF LastPlace
  <2>2. \A o \in 1..LastPlace : o # p => Q[o] = P[o]
    BY <1>6 DEF LastPlace
  <2>3. Leaves(P, Q, p, x)
    BY <2>1, <2>2 DEF Leaves
  <2>4. p \in 1..LastPlace
    BY <2>1
  <2> QED
    BY <1>a, <1>6, <2>3, <2>4, LineShrinks
<1>d. ASSUME NEW p \in 1..LastPlace, Q[p] = Append(P[p], x), x.stream # s,
             \A o \in 1..LastPlace : o # p => Q[o] = P[o]
      PROVE  Line(s, Q, c, givenUp) /\ (HasEnd(s, Q) <=> HasEnd(s, P))
  <2>1. Joins(P, Q, p, x)
    BY <1>d DEF Joins
  <2> QED
    BY <1>a, <1>d, <2>1, LineForeign
<1>7. CASE n \in {1, 2} /\ PassedOn(n, x)
  <2>1. PICK m \in {2, 3} : m = n + 1
    BY <1>7
  <2>2. frameQueue' = [frameQueue EXCEPT ![<<m, 0>>] = Append(frameQueue[<<m, 0>>], x)]
    BY <1>7, <2>1 DEF PassedOn
  <2>3. /\ frameQueue'[<<m, 0>>] = Append(frameQueue[<<m, 0>>], x)
        /\ \A a \in {1, 2, 3}, b \in {0, 1} : a # m \/ b # 0 => frameQueue'[<<a, b>>] = frameQueue[<<a, b>>]
    BY <2>2, QueueEffect
  <2>4. UNCHANGED <<asked, encodedBy, givenUp>> /\ (n = 1 => asked = <<>>)
    BY <1>7 DEF PassedOn
  <2>a. frameQueue'[<<1, l>>] = frameQueue[<<1, l>>]
    <3>1. m # 1 /\ 1 \in {1, 2, 3}
      OBVIOUS
    <3> QED
      BY <2>3, <3>1
  <2>b. m = 2 => frameQueue'[<<3, 0>>] = frameQueue[<<3, 0>>]
    BY <2>3
  <2>c. m = 3 => frameQueue'[<<2, 0>>] = frameQueue[<<2, 0>>]
    BY <2>3
  <2>d. n = 1 => InHand(2, 0)' = InHand(2, 0) /\ InHand(3, 0)' = InHand(3, 0)
    BY <1>c
  <2>e. n = 1 /\ k # l => InHand(1, l)' = InHand(1, l)
    BY <1>c
  <2>f. n = 2 => InHand(1, l)' = InHand(1, l) /\ InHand(3, 0)' = InHand(3, 0)
    BY <1>c
  <2>5. CASE n = 1 /\ k = l
    <3>1a. Q[1] = P[1] /\ Q[3] = P[3] /\ Q[5] = P[5] /\ Q[6] = P[6] /\ Q[7] = P[7] /\ Q[8] = P[8]
      BY <1>b, <2>1, <2>4, <2>5, <2>a, <2>b, <2>d
    <3>1. \A o \in 1..8 : o # 2 /\ o # 4 => Q[o] = P[o]
      BY <3>1a
    <3>2. P[2] = <<x>> /\ Q[2] = <<>> /\ Q[4] = Append(P[4], x)
      BY <1>b, <1>c, <2>1, <2>3, <2>5
    <3>3. 4 \in 1..LastPlace /\ \A o \in 1..LastPlace : 2 < o /\ o < 4 => P[o] = <<>>
      BY <1>2, <2>4, <2>5 DEF LastPlace
    <3> QED
      BY <1>5, <2>4, <3>1, <3>2, <3>3
  <2>6. CASE n = 1 /\ k # l
    <3>1a. Q[1] = P[1] /\ Q[2] = P[2] /\ Q[3] = P[3] /\ Q[5] = P[5] /\ Q[6] = P[6] /\ Q[7] = P[7] /\ Q[8] = P[8]
      BY <1>b, <2>1, <2>4, <2>6, <2>a, <2>b, <2>d, <2>e
    <3>1. \A o \in 1..8 : o # 4 => Q[o] = P[o]
      BY <3>1a
    <3>2. Q[4] = Append(P[4], x) /\ x.stream # s /\ 4 \in 1..LastPlace
      BY <1>2, <1>4, <2>1, <2>3, <2>6 DEF LastPlace
    <3>3. \A o \in 1..LastPlace : o # 4 => Q[o] = P[o]
      BY <3>1 DEF LastPlace
    <3>4. Line(s, Q, c, givenUp) /\ (HasEnd(s, Q) <=> HasEnd(s, P))
      BY <1>d, <3>2, <3>3
    <3> QED
      BY <2>4, <3>4
  <2>7. CASE n = 2
    <3>1a. Q[1] = P[1] /\ Q[2] = P[2] /\ Q[3] = P[3] /\ Q[4] = P[4] /\ Q[7] = P[7] /\ Q[8] = P[8]
      BY <1>b, <2>1, <2>4, <2>7, <2>a, <2>c, <2>f
    <3>1. \A o \in 1..8 : o # 5 /\ o # 6 => Q[o] = P[o]
      BY <3>1a
    <3>2. P[5] = <<x>> /\ Q[5] = <<>> /\ Q[6] = Append(P[6], x)
      BY <1>b, <1>c, <2>1, <2>3, <2>7
    <3>3. 6 \in 1..LastPlace /\ \A o \in 1..LastPlace : ~(5 < o /\ o < 6)
      BY DEF LastPlace
    <3> QED
      BY <1>5, <2>4, <3>1, <3>2, <3>3
  <2> QED
    BY <1>7, <2>5, <2>6, <2>7
<1>8. CASE n \in {1, 2} /\ Abandoned(x)
  <2>1. /\ givenUp \subseteq givenUp' /\ x \in givenUp' /\ ~x.is_eos
        /\ UNCHANGED <<frameQueue, asked, encodedBy>>
    BY <1>8 DEF Abandoned
  <2>2. CASE n = 1 /\ k = l
    <3>1a. Q[1] = P[1] /\ Q[3] = P[3] /\ Q[4] = P[4] /\ Q[5] = P[5] /\ Q[6] = P[6] /\ Q[7] = P[7] /\ Q[8] = P[8]
      BY <1>b, <1>c, <2>1, <2>2
    <3>1. \A o \in 1..8 : o # 2 => Q[o] = P[o]
      BY <3>1a
    <3>2. P[2] = <<x>> /\ Q[2] = <<>>
      BY <1>b, <1>c, <2>2
    <3> QED
      BY <1>6, <2>1, <3>1, <3>2
  <2>3. CASE n = 1 /\ k # l
    <3>1a. Q[1] = P[1] /\ Q[2] = P[2] /\ Q[3] = P[3] /\ Q[4] = P[4] /\ Q[5] = P[5] /\ Q[6] = P[6] /\ Q[7] = P[7] /\ Q[8] = P[8]
      BY <1>b, <1>c, <2>1, <2>3
    <3>1. \A o \in 1..8 : Q[o] = P[o]
      BY <3>1a
    <3>2. Q = P
      BY <3>1, PlacesEqual
    <3> QED
      BY <1>a, <2>1, <3>2, LineLoses
  <2>4. CASE n = 2
    <3>1a. Q[1] = P[1] /\ Q[2] = P[2] /\ Q[3] = P[3] /\ Q[4] = P[4] /\ Q[6] = P[6] /\ Q[7] = P[7] /\ Q[8] = P[8]
      BY <1>b, <1>c, <2>1, <2>4
    <3>1. \A o \in 1..8 : o # 5 => Q[o] = P[o]
      BY <3>1a
    <3>2. P[5] = <<x>> /\ Q[5] = <<>>
      BY <1>b, <1>c, <2>4
    <3> QED
      BY <1>6, <2>1, <3>1, <3>2
  <2> QED
    BY <1>8, <2>2, <2>3, <2>4
<1>9. CASE n = 1 /\ infer_kind = "async" /\ Requested(x)
  <2>1. asked' = Append(asked, x) /\ UNCHANGED <<frameQueue, encodedBy, givenUp>> /\ k = 0 /\ l = 0
    BY <1>2, <1>9, LaneFacts DEF Requested
  <2>2a. Q[1] = P[1] /\ Q[4] = P[4] /\ Q[5] = P[5] /\ Q[6] = P[6] /\ Q[7] = P[7] /\ Q[8] = P[8]
    BY <1>b, <1>c, <1>9, <2>1
  <2>2. \A o \in 1..8 : o # 2 /\ o # 3 => Q[o] = P[o]
    BY <2>2a
  <2>3. P[2] = <<x>> /\ Q[2] = <<>> /\ Q[3] = Append(P[3], x)
    BY <1>b, <1>c, <1>9, <2>1
  <2>4. 3 \in 1..LastPlace /\ \A o \in 1..LastPlace : ~(2 < o /\ o < 3)
    BY DEF LastPlace
  <2> QED
    BY <1>5, <2>1, <2>2, <2>3, <2>4
<1>10. CASE n = 3 /\ Encoded(x)
  <2>1. /\ UNCHANGED <<frameQueue, asked, givenUp>> /\ x.stream \in Streams
        /\ encodedBy' = [encodedBy EXCEPT ![x.stream] = Append(encodedBy[x.stream], x)]
    BY <1>10 DEF Encoded, Frames
  <2>2. P[7] = <<x>> /\ Q[7] = <<>>
    BY <1>b, <1>c, <1>10
  <2>3a. Q[1] = P[1] /\ Q[2] = P[2] /\ Q[3] = P[3] /\ Q[4] = P[4] /\ Q[5] = P[5] /\ Q[6] = P[6]
    BY <1>b, <1>c, <1>10, <2>1
  <2>3. \A o \in 1..8 : o # 7 /\ o # 8 => Q[o] = P[o]
    BY <2>3a
  <2>4. CASE x.stream = s
    <3>1. Q[8] = Append(P[8], x)
      BY <1>2, <2>1, <2>4 DEF PipelineTyped
    <3>2. 8 \in 1..LastPlace /\ \A o \in 1..LastPlace : ~(7 < o /\ o < 8)
      BY DEF LastPlace
    <3> QED
      BY <1>5, <2>1, <2>2, <2>3, <3>1, <3>2
  <2>5. CASE x.stream # s
    <3>1. Q[8] = P[8]
      BY <1>2, <2>1, <2>5 DEF PipelineTyped
    <3>2. \A o \in 1..8 : o # 7 => Q[o] = P[o]
      BY <2>3, <3>1
    <3> QED
      BY <1>6, <2>1, <2>2, <2>5, <3>2
  <2> QED
    BY <2>4, <2>5
<1> QED
  BY <1>1, <1>7, <1>8, <1>9, <1>10

\* A task goes back to its loop, or leaves it.
LEMMA LoopFlow ==
  ASSUME PipelineTyped, LinesKept, NEW n \in {1, 2, 3}, NEW k \in {0, 1}, LeaveLoop(n, k) \/ ProcessFrameEos(n, k)
  PROVE  FlowKept
<1>1. /\ worker[<<n, k>>].pc # "process"
      /\ worker' = [worker EXCEPT ![<<n, k>>] = ThreadGone] \/ worker' = [worker EXCEPT ![<<n, k>>] = AtLoop]
      /\ UNCHANGED <<infer_kind, frameQueue, asked, encodedBy, givenUp, frame_count_>>
  BY DEF LeaveLoop, ProcessFrameEos, mainVars, sourceVars, AtLoop
<1>2. PICK w : worker' = [worker EXCEPT ![<<n, k>>] = w] /\ w.pc # "process"
  BY <1>1 DEF AtLoop, ThreadGone
<1>3. InHand(n, k)' = <<>> /\ \A m \in {1, 2, 3}, l \in {0, 1} : m # n \/ l # k => InHand(m, l)' = InHand(m, l)
  BY <1>2, HandEffect
<1>4. InHand(n, k) = <<>>
  BY <1>1 DEF InHand
<1>5. \A m \in {1, 2, 3}, l \in {0, 1} : InHand(m, l)' = InHand(m, l)
  BY <1>3, <1>4
<1> QED
  BY <1>1, <1>5, FlowSame

\* The session of infer answers.
LEMMA ResponseFlow ==
  ASSUME PipelineTyped, LinesKept, LanesKept, InferResponse, PipelineTyped'
  PROVE  FlowKept
<1> SUFFICES ASSUME NEW s \in Streams
             PROVE  /\ Line(s, Places(s)', frame_count_'[s], givenUp')
                    /\ HasEnd(s, Places(s)') <=> HasEnd(s, Places(s))
  BY DEF FlowKept
<1>1. /\ asked # <<>> /\ asked' = Tail(asked) /\ UNCHANGED <<infer_kind, worker, encodedBy, frame_count_>>
      /\ PassOn(1, Head(asked)) \/ GiveUp(Head(asked))
  BY DEF InferResponse, mainVars, sourceVars
<1>2. PICK x \in Frames : x = Head(asked) /\ x \in Elems(asked)
  BY <1>1, TailElements DEF PipelineTyped
<1>3. ~x.is_eos /\ x.stream \in Streams /\ x.stream % 1 = 0
  BY <1>2, LaneFacts DEF LanesKept, Frames
<1>4. PICK P \in PlaceLists, Q \in PlaceLists, l \in {0, 1} :
           /\ P = Places(s) /\ Q = Places(s)' /\ l = Lane(s)
           /\ P[1] = frameQueue[<<1, l>>] /\ P[2] = InHand(1, l) /\ P[3] = asked
           /\ P[4] = frameQueue[<<2, 0>>] /\ P[5] = InHand(2, 0)
           /\ P[6] = frameQueue[<<3, 0>>] /\ P[7] = InHand(3, 0) /\ P[8] = encodedBy[s]
           /\ Q[1] = frameQueue'[<<1, l>>] /\ Q[2] = InHand(1, l)' /\ Q[3] = asked'
           /\ Q[4] = frameQueue'[<<2, 0>>] /\ Q[5] = InHand(2, 0)'
           /\ Q[6] = frameQueue'[<<3, 0>>] /\ Q[7] = InHand(3, 0)' /\ Q[8] = encodedBy'[s]
           /\ Line(s, P, frame_count_[s], givenUp) /\ frame_count_[s] \in Nat
  BY <1>1, BothPlaces
<1>a. PICK c \in Nat : c = frame_count_[s] /\ c = frame_count_'[s] /\ Line(s, P, c, givenUp)
  BY <1>1, <1>4
<1>b. /\ P[1] = frameQueue[<<1, l>>] /\ P[2] = InHand(1, l) /\ P[3] = asked
      /\ P[4] = frameQueue[<<2, 0>>] /\ P[5] = InHand(2, 0)
      /\ P[6] = frameQueue[<<3, 0>>] /\ P[7] = InHand(3, 0) /\ P[8] = encodedBy[s]
      /\ Q[1] = frameQueue'[<<1, l>>] /\ Q[2] = InHand(1, l)' /\ Q[3] = asked'
      /\ Q[4] = frameQueue'[<<2, 0>>] /\ Q[5] = InHand(2, 0)'
      /\ Q[6] = frameQueue'[<<3, 0>>] /\ Q[7] = InHand(3, 0)' /\ Q[8] = encodedBy'[s]
  BY <1>4
<1>c. \A m \in {1, 2, 3}, j \in {0, 1} : InHand(m, j)' = InHand(m, j)
  BY <1>1 DEF InHand
<1> SUFFICES Line(s, Q, c, givenUp') /\ (HasEnd(s, Q) <=> HasEnd(s, P))
  BY <1>4, <1>a
<1>5. CASE PassOn(1, Head(asked))
  <2>1. frameQueue' = [frameQueue EXCEPT ![<<2, 0>>] = Append(frameQueue[<<2, 0>>], x)] /\ givenUp' = givenUp
    <3>1. ~(2 > Len(PipeNodes)) /\ Parallelism(2) = 1
      BY NodeFacts
    <3>2. Transmitted(frameQueue, 2, x) = [frameQueue EXCEPT ![<<2, 0>>] = Append(frameQueue[<<2, 0>>], x)]
      BY <1>3, <3>1 DEF Transmitted
    <3>3. frameQueue' = Transmitted(frameQueue, 1 + 1, x) /\ givenUp' = givenUp /\ 1 + 1 = 2
      BY <1>2, <1>5 DEF PassOn
    <3> QED
      BY <3>2, <3>3
  <2>2. /\ frameQueue'[<<2, 0>>] = Append(frameQueue[<<2, 0>>], x)
        /\ \A a \in {1, 2, 3}, b \in {0, 1} : a # 2 \/ b # 0 => frameQueue'[<<a, b>>] = frameQueue[<<a, b>>]
    BY <2>1, QueueEffect
  <2>3. frameQueue'[<<1, l>>] = frameQueue[<<1, l>>] /\ frameQueue'[<<3, 0>>] = frameQueue[<<3, 0>>]
    <3>1. frameQueue'[<<1, l>>] = frameQueue[<<1, l>>]
      <4>1. frameQueue'[<<1, 0>>] = frameQueue[<<1, 0>>]
        BY <2>2
      <4>2. frameQueue'[<<1, 1>>] = frameQueue[<<1, 1>>]
        BY <2>2
      <4> QED
        BY <4>1, <4>2
    <3>2. frameQueue'[<<3, 0>>] = frameQueue[<<3, 0>>]
      BY <2>2
    <3> QED
      BY <3>1, <3>2
  <2>4. Q[1] = P[1] /\ Q[2] = P[2] /\ Q[5] = P[5] /\ Q[6] = P[6] /\ Q[7] = P[7] /\ Q[8] = P[8]
    BY <1>1, <1>b, <1>c, <2>3
  <2>0. PICK p \in 1..LastPlace, r \in 1..LastPlace : p = 3 /\ r = 4
    BY DEF LastPlace
  <2>5. Q[p] = Tail(P[p]) /\ P[p] # <<>> /\ Q[r] = Append(P[r], Head(P[p]))
    BY <1>1, <1>2, <1>b, <2>0, <2>2
  <2>6. p < r /\ \A o \in 1..LastPlace : ~(p < o /\ o < r)
    BY <2>0 DEF LastPlace
  <2>7. \A o \in 1..LastPlace : o # p /\ o # r => Q[o] = P[o]
    BY <2>0, <2>4 DEF LastPlace
  <2> QED
    BY <1>a, <2>1, <2>5, <2>6, <2>7, LineMoves
<1>6. CASE GiveUp(Head(asked))
  <2>1. givenUp \subseteq givenUp' /\ x \in givenUp' /\ frameQueue' = frameQueue
    BY <1>2, <1>6 DEF GiveUp
  <2>2. Q[1] = P[1] /\ Q[2] = P[2] /\ Q[4] = P[4] /\ Q[5] = P[5] /\ Q[6] = P[6] /\ Q[7] = P[7] /\ Q[8] = P[8]
    BY <1>1, <1>b, <1>c, <2>1
  <2>3. Q[3] = Tail(P[3]) /\ P[3] # <<>> /\ Head(P[3]) = x
    BY <1>1, <1>2, <1>b
  <2>4. Leaves(P, Q, 3, x) /\ 3 \in 1..LastPlace
    BY <2>2, <2>3 DEF Leaves, LastPlace
  <2> QED
    BY <1>a, <1>3, <2>1, <2>4, LineShrinks
<1> QED
  BY <1>1, <1>5, <1>6

\* A decoder delivers; it has not delivered the end of its stream before.
LEMMA DecoderFlow ==
  ASSUME PipelineTyped, LinesKept, SourcesEnd, NEW t \in Streams, FromDecoder(t), PipelineTyped', NEW s \in Streams
  PROVE  /\ Line(s, Places(s)', frame_count_'[s], givenUp')
         /\ HasEnd(s, Places(s)') <=> HasEnd(s, Places(s)) \/ (s = t /\ Head(decoding[t].q) = "eos")
         /\ s = t => ~HasEnd(s, Places(s))
<1>1. PICK x \in Frames : x = [stream |-> t, idx |-> frame_count_[t], is_eos |-> Head(decoding[t].q) = "eos"]
  <2>1. PICK z \in BOOLEAN : z = (Head(decoding[t].q) = "eos")
    OBVIOUS
  <2>2. frame_count_[t] \in Nat
    BY DEF PipelineTyped
  <2>3. [stream |-> t, idx |-> frame_count_[t], is_eos |-> z] \in Frames
    BY <2>2 DEF Frames
  <2> QED
    BY <2>1, <2>3
<1>2. x.stream = t /\ x.idx = frame_count_[t] /\ (x.is_eos <=> Head(decoding[t].q) = "eos")
  BY <1>1
<1>3. PICK e \in {0, 1} : e = Lane(t)
  BY LaneFacts
<1>4. /\ frameQueue' = [frameQueue EXCEPT ![<<1, e>>] = Append(frameQueue[<<1, e>>], x)]
      /\ UNCHANGED <<infer_kind, worker, asked, encodedBy, givenUp>>
      /\ frame_count_' = [frame_count_ EXCEPT ![t] = frame_count_[t] + 1]
  <2>1. ~(1 > Len(PipeNodes))
    BY NodeFacts
  <2>2. frameQueue' = Transmitted(frameQueue, 1, x)
    BY <1>1 DEF FromDecoder
  <2> QED
    BY <1>2, <1>3, <2>1, <2>2 DEF FromDecoder, Transmitted, Lane, mainVars
<1>5. PICK P \in PlaceLists, Q \in PlaceLists, l \in {0, 1} :
           /\ P = Places(s) /\ Q = Places(s)' /\ l = Lane(s)
           /\ P[1] = frameQueue[<<1, l>>] /\ P[2] = InHand(1, l) /\ P[3] = asked
           /\ P[4] = frameQueue[<<2, 0>>] /\ P[5] = InHand(2, 0)
           /\ P[6] = frameQueue[<<3, 0>>] /\ P[7] = InHand(3, 0) /\ P[8] = encodedBy[s]
           /\ Q[1] = frameQueue'[<<1, l>>] /\ Q[2] = InHand(1, l)' /\ Q[3] = asked'
           /\ Q[4] = frameQueue'[<<2, 0>>] /\ Q[5] = InHand(2, 0)'
           /\ Q[6] = frameQueue'[<<3, 0>>] /\ Q[7] = InHand(3, 0)' /\ Q[8] = encodedBy'[s]
           /\ Line(s, P, frame_count_[s], givenUp) /\ frame_count_[s] \in Nat
  BY <1>4, BothPlaces
<1>a. PICK c \in Nat : c = frame_count_[s] /\ Line(s, P, c, givenUp)
  BY <1>5
<1>b. /\ P[1] = frameQueue[<<1, l>>] /\ P[2] = InHand(1, l) /\ P[3] = asked
      /\ P[4] = frameQueue[<<2, 0>>] /\ P[5] = InHand(2, 0)
      /\ P[6] = frameQueue[<<3, 0>>] /\ P[7] = InHand(3, 0) /\ P[8] = encodedBy[s]
      /\ Q[1] = frameQueue'[<<1, l>>] /\ Q[2] = InHand(1, l)' /\ Q[3] = asked'
      /\ Q[4] = frameQueue'[<<2, 0>>] /\ Q[5] = InHand(2, 0)'
      /\ Q[6] = frameQueue'[<<3, 0>>] /\ Q[7] = InHand(3, 0)' /\ Q[8] = encodedBy'[s]
  BY <1>5
<1>c. \A m \in {1, 2, 3}, j \in {0, 1} : InHand(m, j)' = InHand(m, j)
  BY <1>4 DEF InHand
<1>6. /\ frameQueue'[<<1, e>>] = Append(frameQueue[<<1, e>>], x)
      /\ \A a \in {1, 2, 3}, b \in {0, 1} : a # 1 \/ b # e => frameQueue'[<<a, b>>] = frameQueue[<<a, b>>]
  BY <1>4, QueueEffect
<1>7. frameQueue'[<<2, 0>>] = frameQueue[<<2, 0>>] /\ frameQueue'[<<3, 0>>] = frameQueue[<<3, 0>>]
      /\ (l # e => frameQueue'[<<1, l>>] = frameQueue[<<1, l>>])
  BY <1>6
<1>8. Q[2] = P[2] /\ Q[3] = P[3] /\ Q[4] = P[4] /\ Q[5] = P[5] /\ Q[6] = P[6] /\ Q[7] = P[7] /\ Q[8] = P[8]
  BY <1>4, <1>7, <1>b, <1>c
<1>9. l = e => Joins(P, Q, 1, x)
  <2>1. l = e => Q[1] = Append(P[1], x)
    BY <1>6, <1>b
  <2> QED
    BY <1>8, <2>1 DEF Joins, LastPlace
<1>10. 1 \in 1..LastPlace
  BY DEF LastPlace
<1>11. CASE s = t
  <2>1. ~HasEnd(s, P)
    <3>1. decoding[s].q # <<>> /\ Head(decoding[s].q) # "sent"
      BY <1>11 DEF FromDecoder
    <3>2. DecoderEnds(decoding[s], HasEnd(s, P), sourceOn[s])
      BY <1>5 DEF SourcesEnd
    <3>3. Head(<<"sent">>) = "sent"
      OBVIOUS
    <3> QED
      BY <3>1, <3>2, <3>3 DEF DecoderEnds
  <2>2. l = e /\ x.stream = s /\ x.idx = c
    BY <1>2, <1>3, <1>5, <1>a, <1>11
  <2>3. Line(s, Q, c + 1, givenUp) /\ (HasEnd(s, Q) <=> x.is_eos)
    BY <1>9, <1>a, <2>1, <2>2, LineGrows
  <2>4. frame_count_'[s] = c + 1
    BY <1>4, <1>11, <1>a DEF PipelineTyped
  <2> QED
    BY <1>2, <1>4, <1>5, <1>11, <2>1, <2>3, <2>4
<1>12. CASE s # t
  <2>1. frame_count_'[s] = c
    BY <1>4, <1>12, <1>a DEF PipelineTyped
  <2>2. CASE l = e
    <3>1. Line(s, Q, c, givenUp) /\ (HasEnd(s, Q) <=> HasEnd(s, P))
      BY <1>2, <1>9, <1>10, <1>12, <1>a, <2>2, LineForeign
    <3> QED
      BY <1>4, <1>5, <1>12, <2>1, <3>1
  <2>3. CASE l # e
    <3>1. Q[1] = P[1]
      BY <1>7, <1>b, <2>3
    <3>2. Q = P
      BY <1>8, <3>1, PlacesEqual
    <3> QED
      BY <1>4, <1>5, <1>12, <1>a, <2>1, <3>2
  <2> QED
    BY <2>2, <2>3
<1> QED
  BY <1>11, <1>12

-----------------------------------------------------------------------------
(* The sources and main *)

LEMMA NodesFrame ==
  ASSUME LinesKept, LanesKept, MarkedLast,
         UNCHANGED <<infer_kind, frameQueue, worker, asked, encodedBy, givenUp, frame_count_>>
  PROVE  /\ LinesKept' /\ LanesKept' /\ MarkedLast'
         /\ \A s \in Streams : Places(s)' = Places(s) /\ (EndEncoded(s)' <=> EndEncoded(s))
<1>1. \A n, k : InHand(n, k)' = InHand(n, k)
  BY DEF InHand
<1>2. \A s : Lane(s)' = Lane(s)
  BY DEF Lane, Parallelism
<1>3. \A s \in Streams : Places(s)' = Places(s)
  BY <1>1, PlacesSame
<1>4. LinesKept'
  BY <1>3 DEF LinesKept
<1>5. LanesKept'
  BY <1>1, <1>2 DEF LanesKept
<1>6. MarkedLast'
  BY DEF MarkedLast
<1> QED
  BY <1>3, <1>4, <1>5, <1>6 DEF EndEncoded

\* A packet or the end of the stream is given to a decoder that has no end yet.
LEMMA SentMore ==
  ASSUME NEW d \in Coded, NEW what \in {"packet", "eos"}, NEW ended, NEW on \in BOOLEAN,
         DecoderEnds(d, ended, on), ~d.eos,
         NEW e, e = [q |-> Append(d.q, what), eos |-> what = "eos"]
  PROVE  e \in Coded /\ DecoderEnds(e, ended, on)
<1>1. d.q \in Seq({"packet", "eos", "sent"})
  BY DEF Coded
<1>2. on /\ ~ended /\ \A i \in DOMAIN d.q : d.q[i] # "sent" /\ d.q[i] # "eos"
  BY DEF DecoderEnds
<1>a. PICK T : T = {"packet", "eos", "sent"}
  OBVIOUS
<1>b. d.q \in Seq(T) /\ what \in T
  BY <1>1, <1>a
<1>3. PICK q \in Seq(T) :
        /\ q = Append(d.q, what) /\ DOMAIN q = DOMAIN d.q \cup {Len(q)} /\ q[Len(q)] = what
        /\ \A i \in DOMAIN d.q : q[i] = d.q[i] /\ i \in Nat /\ i < Len(q)
        /\ Len(q) \in Nat
  BY <1>b, AppendWork
<1>4. PICK z \in BOOLEAN : z = (what = "eos")
  OBVIOUS
<1>5. e = [q |-> q, eos |-> z]
  BY <1>3, <1>4
<1>6. e \in Coded /\ e.q = q /\ (e.eos <=> what = "eos")
  <2>1. [q |-> q, eos |-> z] \in [q : Seq(T), eos : BOOLEAN]
    OBVIOUS
  <2>2. e \in Coded
    BY <1>5, <1>a, <2>1 DEF Coded
  <2>3. e.q = q /\ e.eos = z
    BY <1>5
  <2> QED
    BY <1>4, <2>2, <2>3
<1>7. \A i \in DOMAIN q : q[i] # "sent" /\ (q[i] = "eos" <=> what = "eos" /\ i = Len(q))
  BY <1>2, <1>3
<1>8. q # <<>>
  BY <1>3
<1> QED
  BY <1>2, <1>6, <1>7, <1>8 DEF DecoderEnds

LEMMA SendStep ==
  ASSUME PipelineTyped, SourcesEnd, NEW s \in Streams, NEW what \in {"packet", "eos"}, SendStream(s, what),
         sourceOn' = sourceOn, \A t \in Streams : Places(t)' = Places(t),
         \A t \in Streams : eos_send_[t] => eos_send_'[t], what = "eos" => eos_send_'[s]
  PROVE  decoding' \in [Streams -> Coded] /\ SourcesEnd'
<1>1. decoding \in [Streams -> Coded] /\ sourceOn[s] \in BOOLEAN
  BY DEF PipelineTyped
<1>2. CASE decoding' = decoding
  BY <1>1, <1>2 DEF SourcesEnd
<1>3. CASE /\ ~decoding[s].eos
           /\ decoding' = [decoding EXCEPT ![s] = [q |-> Append(@.q, what), eos |-> what = "eos"]]
  <2>1. PICK e : e = [q |-> Append(decoding[s].q, what), eos |-> what = "eos"]
    OBVIOUS
  <2>2. decoding' = [decoding EXCEPT ![s] = e]
    BY <1>3, <2>1
  <2>3. PICK d \in Coded : d = decoding[s] /\ ~d.eos
    BY <1>1, <1>3
  <2>4. PICK h \in BOOLEAN : h <=> HasEnd(s, Places(s))
    OBVIOUS
  <2>5. DecoderEnds(d, h, sourceOn[s])
    BY <2>3, <2>4 DEF SourcesEnd, DecoderEnds
  <2>6. e \in Coded /\ DecoderEnds(e, h, sourceOn[s])
    BY <1>1, <2>1, <2>3, <2>5, SentMore
  <2>7. e.eos => what = "eos"
    BY <2>1
  <2>8. decoding' \in [Streams -> Coded] /\ decoding'[s] = e /\ \A t \in Streams : t # s => decoding'[t] = decoding[t]
    BY <1>1, <2>2, <2>6
  <2>9. DecoderEnds(decoding'[s], HasEnd(s, Places(s)'), sourceOn'[s])
    BY <2>4, <2>6, <2>8 DEF DecoderEnds
  <2>10. \A t \in Streams : t # s => DecoderEnds(decoding'[t], HasEnd(t, Places(t)'), sourceOn'[t])
    BY <2>8 DEF SourcesEnd
  <2>11. \A t \in Streams : decoding'[t].eos => eos_send_'[t]
    BY <2>7, <2>8 DEF SourcesEnd
  <2> QED
    BY <2>8, <2>9, <2>10, <2>11 DEF SourcesEnd
<1> QED
  BY <1>2, <1>3 DEF SendStream

LEMMA SourcesFrame ==
  ASSUME SourcesEnd, UNCHANGED <<decoding, sourceOn, eos_send_>>, \A s \in Streams : Places(s)' = Places(s)
  PROVE  SourcesEnd'
  BY DEF SourcesEnd

LEMMA SinkFrame ==
  ASSUME SinkKnows, UNCHANGED <<worker, sinkMap, encodedBy>>, seenAtStop' = seenAtStop
  PROVE  SinkKnows'
  BY DEF SinkKnows, EndEncoded

\* Start, Stop, WaitForStop and ~EasyPipeline.
LEMMA MainStep ==
  ASSUME PipelineInv,
         \/ \E opened \in BOOLEAN : PipeStart(opened)
         \/ Interrupt \/ WaitForStop \/ StopRunning \/ JoinAndClose
  PROVE  PipelineInv'
<1> USE DEF PipelineInv
<1>1. UNCHANGED <<infer_kind, frameQueue, worker, asked, sinkMap, encodedBy, givenUp, frame_count_,
                  reader, decoding, sourceOn, eos_send_>>
  BY DEF PipeStart, Interrupt, WaitForStop, StopRunning, JoinAndClose, sourceVars, nodeVars
<1>2. /\ LinesKept' /\ LanesKept' /\ MarkedLast'
      /\ \A s \in Streams : Places(s)' = Places(s) /\ (EndEncoded(s)' <=> EndEncoded(s))
  BY <1>1, NodesFrame
<1>3. SourcesEnd'
  BY <1>1, <1>2, SourcesFrame
<1>4. Len(PipeNodes) = 3 /\ \A n : Parallelism(n)' = Parallelism(n)
  BY <1>1, NodeFacts DEF Parallelism
<1> SUFFICES PipelineTyped' /\ SinkKnows' /\ StopOrder'
  BY <1>2, <1>3
<1>5. ASSUME NEW opened \in BOOLEAN, PipeStart(opened) PROVE PipelineTyped' /\ SinkKnows' /\ StopOrder'
  <2>1. /\ main_pc = "new" /\ main_pc' = (IF opened THEN "waiting" ELSE "joining") /\ pipeRunning' = opened
        /\ UNCHANGED <<joinNode, closing, seenAtStop>> /\ joinNode = 0
    BY <1>5 DEF PipeStart, StopOrder
  <2>2. PipelineTyped'
    BY <1>1, <2>1 DEF PipelineTyped
  <2>3. SinkKnows'
    BY <1>1, <2>1, SinkFrame
  <2>4. NeverRan /\ (main_pc' = "joining" => NeverRan')
    BY <1>1, <2>1 DEF StopOrder, NeverRan
  <2>5. StopOrder'
    BY <1>1, <1>4, <2>1, <2>4 DEF StopOrder
  <2> QED
    BY <2>2, <2>3, <2>5
<1>6. CASE Interrupt
  <2>1. pipeRunning /\ UNCHANGED <<main_pc, joinNode, pipeRunning, seenAtStop>> /\ ~NeverRan
    BY <1>6 DEF Interrupt, NeverRan
  <2>2. PipelineTyped'
    BY <1>1, <2>1 DEF PipelineTyped
  <2>3. SinkKnows'
    BY <1>1, <2>1, SinkFrame
  <2>4. StopOrder'
    BY <1>1, <1>4, <2>1 DEF StopOrder
  <2> QED
    BY <2>2, <2>3, <2>4
<1>7. CASE WaitForStop
  <2>1. /\ main_pc = "waiting" /\ PipelineEnded /\ main_pc' = "stopping"
        /\ seenAtStop' = {s \in Streams : sinkMap[s] # "absent"} /\ UNCHANGED <<joinNode, pipeRunning, closing>>
    BY <1>7 DEF WaitForStop
  <2>2. PipelineTyped'
    BY <1>1, <2>1 DEF PipelineTyped
  <2>3. \A s \in Streams : ~sourceOn[s] /\ (sinkMap[s] # "absent" => sinkMap[s] = "off")
    BY <2>1 DEF PipelineEnded, PipelineTyped
  <2>4. SinkKnows'
    BY <1>1, <1>2, <2>1, <2>3 DEF SinkKnows
  <2>5. StopOrder'
    BY <1>1, <1>4, <2>1, <2>3 DEF StopOrder
  <2> QED
    BY <2>2, <2>4, <2>5
<1>8. CASE StopRunning
  <2>1. /\ main_pc = "stopping" /\ main_pc' = "joining" /\ pipeRunning' = FALSE
        /\ UNCHANGED <<joinNode, closing, seenAtStop>>
    BY <1>8 DEF StopRunning
  <2>2. PipelineTyped'
    BY <1>1, <2>1 DEF PipelineTyped
  <2>3. SinkKnows'
    BY <1>1, <2>1, SinkFrame
  <2>4. NeverRan => NeverRan'
    BY <1>1, <2>1 DEF NeverRan
  <2>5. StopOrder'
    BY <1>1, <1>4, <2>1, <2>4 DEF StopOrder
  <2> QED
    BY <2>2, <2>3, <2>5
<1>9. CASE JoinAndClose
  <2>1. /\ main_pc = "joining" /\ joinNode' = joinNode + 1 /\ UNCHANGED <<pipeRunning, closing, seenAtStop>>
        /\ main_pc' = (IF joinNode = 3 THEN "deleted" ELSE "joining")
        /\ joinNode # 0 => NodeClosed(joinNode)
    BY <1>4, <1>9 DEF JoinAndClose
  <2>2. joinNode \in 0..3
    BY <1>4, <2>1 DEF PipelineTyped, StopOrder
  <2>3. PipelineTyped'
    BY <1>1, <1>4, <2>1, <2>2 DEF PipelineTyped
  <2>4. SinkKnows'
    BY <1>1, <2>1, SinkFrame
  <2>5. NeverRan => NeverRan'
    BY <1>1, <2>1 DEF NeverRan
  <2>6. ASSUME NEW n \in 1..3, joinNode' > n PROVE \A k \in 0..Parallelism(n) - 1 : worker[<<n, k>>] = ThreadGone
    <3>1. joinNode > n \/ joinNode = n
      BY <2>1, <2>2, <2>6
    <3> QED
      BY <1>4, <2>1, <2>6, <3>1 DEF StopOrder, NodeClosed
  <2>7. joinNode' > 1 => asked = <<>>
    <3>1. joinNode' > 1 => joinNode > 1 \/ joinNode = 1
      BY <2>1, <2>2
    <3> QED
      BY <2>1, <3>1 DEF StopOrder, NodeClosed
  <2>8. (main_pc' = "deleted" <=> joinNode' = 4) /\ main_pc' \in {"joining", "deleted"}
    BY <2>1, <2>2
  <2>9. StopOrder'
    BY <1>1, <1>4, <2>1, <2>5, <2>6, <2>7, <2>8 DEF StopOrder
  <2> QED
    BY <2>3, <2>4, <2>9
<1> QED
  BY <1>5, <1>6, <1>7, <1>8, <1>9

\* The sources as long as nothing is delivered.
LEMMA SourceStep ==
  ASSUME PipelineInv,
         CloseSource \/ \E s \in Streams : ReadFrame(s) \/ SendPacket(s) \/ SendEnd(s) \/ SourceEnds(s)
  PROVE  PipelineInv'
<1> USE DEF PipelineInv
<1>1. UNCHANGED <<infer_kind, frameQueue, worker, asked, sinkMap, encodedBy, givenUp, frame_count_,
                  main_pc, joinNode, pipeRunning, seenAtStop>>
  BY DEF CloseSource, ReadFrame, SendPacket, SendEnd, SourceEnds, mainVars, nodeVars
<1>2. /\ LinesKept' /\ LanesKept' /\ MarkedLast'
      /\ \A s \in Streams : Places(s)' = Places(s) /\ (EndEncoded(s)' <=> EndEncoded(s))
  BY <1>1, NodesFrame
<1>3. SinkKnows'
  BY <1>1, SinkFrame
<1>4. \A n : Parallelism(n)' = Parallelism(n)
  BY <1>1 DEF Parallelism
<1>5. ASSUME ~NeverRan, \A s \in Streams : sourceOn'[s] => sourceOn[s] PROVE StopOrder'
  BY <1>1, <1>4, <1>5 DEF StopOrder
<1> SUFFICES PipelineTyped' /\ SourcesEnd' /\ StopOrder'
  BY <1>2, <1>3
<1>6. CASE CloseSource
  <2>1. closing \in Streams /\ UNCHANGED <<reader, sourceOn>>
    BY <1>6 DEF CloseSource
  <2>2. PICK s \in Streams : s = closing /\ s \in Nat
    BY <2>1, LaneFacts
  <2>3. ~NeverRan
    BY <2>2 DEF NeverRan
  <2>4. StopOrder'
    BY <1>5, <2>1, <2>3
  <2>5. CASE UNCHANGED <<eos_send_, decoding>>
    BY <1>1, <1>2, <2>1, <2>4, <2>5, SourcesFrame DEF PipelineTyped
  <2>6. CASE eos_send_' = [eos_send_ EXCEPT ![s] = TRUE] /\ SendStream(s, "eos")
    <3>1. eos_send_' \in [Streams -> BOOLEAN] /\ eos_send_'[s] /\ \A t \in Streams : eos_send_[t] => eos_send_'[t]
      BY <2>6 DEF PipelineTyped
    <3>2. decoding' \in [Streams -> Coded] /\ SourcesEnd'
      BY <1>2, <2>1, <2>6, <3>1, SendStep
    <3> QED
      BY <1>1, <2>1, <2>4, <3>1, <3>2 DEF PipelineTyped
  <2> QED
    BY <1>6, <2>2, <2>5, <2>6 DEF CloseSource
<1>7. ASSUME NEW s \in Streams, ReadFrame(s) PROVE PipelineTyped' /\ SourcesEnd' /\ StopOrder'
  <2>1. /\ pipeRunning /\ UNCHANGED <<decoding, sourceOn, eos_send_>>
        /\ reader' = [reader EXCEPT ![s] = IF packetsLeft[s] = 0 THEN "eos" ELSE "packet"]
    BY <1>7 DEF ReadFrame
  <2>2. StopOrder'
    BY <1>5, <2>1 DEF NeverRan
  <2> QED
    BY <1>1, <1>2, <2>1, <2>2, SourcesFrame DEF PipelineTyped
<1>8. ASSUME NEW s \in Streams, SendPacket(s) PROVE PipelineTyped' /\ SourcesEnd' /\ StopOrder'
  <2>1. /\ reader[s] = "packet" /\ SendStream(s, "packet") /\ UNCHANGED <<sourceOn, eos_send_>>
        /\ reader' = [reader EXCEPT ![s] = "loop"]
    BY <1>8 DEF SendPacket
  <2>2. StopOrder'
    BY <1>5, <2>1 DEF NeverRan
  <2>3. decoding' \in [Streams -> Coded] /\ SourcesEnd'
    BY <1>2, <2>1, SendStep
  <2> QED
    BY <1>1, <2>1, <2>2, <2>3 DEF PipelineTyped
<1>9. ASSUME NEW s \in Streams, SendEnd(s) PROVE PipelineTyped' /\ SourcesEnd' /\ StopOrder'
  <2>1. /\ reader[s] = "eos" /\ SendStream(s, "eos") /\ UNCHANGED sourceOn
        /\ eos_send_' = [eos_send_ EXCEPT ![s] = TRUE]
        /\ reader' = [reader EXCEPT ![s] = "loop"]
    BY <1>9 DEF SendEnd
  <2>2. StopOrder'
    BY <1>5, <2>1 DEF NeverRan
  <2>3. eos_send_' \in [Streams -> BOOLEAN] /\ eos_send_'[s] /\ \A t \in Streams : eos_send_[t] => eos_send_'[t]
    BY <2>1 DEF PipelineTyped
  <2>4. decoding' \in [Streams -> Coded] /\ SourcesEnd'
    BY <1>2, <2>1, <2>3, SendStep
  <2> QED
    BY <1>1, <2>1, <2>2, <2>3, <2>4 DEF PipelineTyped
<1>10. ASSUME NEW s \in Streams, SourceEnds(s) PROVE PipelineTyped' /\ SourcesEnd' /\ StopOrder'
  <2>1. /\ decoding[s].q = <<"sent">> /\ decoding' = [decoding EXCEPT ![s].q = <<>>] /\ UNCHANGED <<reader, eos_send_>>
        /\ sourceOn' = [sourceOn EXCEPT ![s] = FALSE]
    BY <1>10 DEF SourceEnds
  <2>2. PICK d \in Coded : d = decoding[s] /\ d.q = <<"sent">>
    BY <2>1 DEF PipelineTyped
  <2>3. PICK e : e = [d EXCEPT !.q = <<>>]
    OBVIOUS
  <2>4. e \in Coded /\ e.q = <<>> /\ e.eos = d.eos
    <3>1. <<>> \in Seq({"packet", "eos", "sent"})
      OBVIOUS
    <3> QED
      BY <2>3, <3>1 DEF Coded
  <2>5. decoding' = [decoding EXCEPT ![s] = e]
    BY <2>1, <2>2, <2>3
  <2>6. decoding' \in [Streams -> Coded] /\ decoding'[s] = e /\ \A t \in Streams : t # s => decoding'[t] = decoding[t]
    BY <2>4, <2>5 DEF PipelineTyped
  <2>7. sourceOn' \in [Streams -> BOOLEAN] /\ ~sourceOn'[s] /\ \A t \in Streams : t # s => sourceOn'[t] = sourceOn[t]
    BY <2>1 DEF PipelineTyped
  <2>8. HasEnd(s, Places(s)) /\ d.eos
    <3>1. 1 \in DOMAIN d.q /\ d.q[1] = "sent" /\ d.q # <<>>
      BY <2>2
    <3>2. DecoderEnds(d, HasEnd(s, Places(s)), sourceOn[s])
      BY <2>2 DEF SourcesEnd
    <3> QED
      BY <3>1, <3>2 DEF DecoderEnds
  <2>9. DecoderEnds(decoding'[s], HasEnd(s, Places(s)'), sourceOn'[s])
    BY <1>2, <2>4, <2>6, <2>7, <2>8 DEF DecoderEnds
  <2>10. \A t \in Streams : decoding'[t].eos => eos_send_'[t]
    BY <2>1, <2>2, <2>4, <2>6 DEF SourcesEnd
  <2>11. SourcesEnd'
    BY <1>2, <2>6, <2>7, <2>9, <2>10 DEF SourcesEnd
  <2>12. ~NeverRan
    <3>1. <<"sent">> # <<>>
      OBVIOUS
    <3> QED
      BY <2>1, <3>1 DEF NeverRan
  <2>13. StopOrder'
    BY <1>5, <2>7, <2>12
  <2> QED
    BY <1>1, <2>1, <2>6, <2>7, <2>11, <2>13 DEF PipelineTyped
<1> QED
  BY <1>6, <1>7, <1>8, <1>9, <1>10

\* A frame, or the end of a stream, is delivered.
LEMMA DeliverStep ==
  ASSUME PipelineInv, NEW s \in Streams, FromDecoder(s)
  PROVE  PipelineInv'
<1> USE DEF PipelineInv
<1>1. PICK d \in Coded : d = decoding[s] /\ d.q # <<>> /\ Head(d.q) # "sent"
  BY DEF FromDecoder, PipelineTyped
<1>2. /\ UNCHANGED <<infer_kind, main_pc, joinNode, pipeRunning, closing, seenAtStop,
                     reader, eos_send_, sourceOn, worker, asked, sinkMap, encodedBy, givenUp>>
      /\ frame_count_' = [frame_count_ EXCEPT ![s] = @ + 1]
      /\ decoding' = [decoding EXCEPT ![s].q = IF Head(@) = "eos" THEN <<"sent">> ELSE Tail(@)]
  BY DEF FromDecoder, mainVars
<1>3. PICK x \in Frames, k \in {0, 1} :
        /\ frameQueue' = [frameQueue EXCEPT ![<<1, k>>] = Append(frameQueue[<<1, k>>], x)]
        /\ x.stream = s /\ k = Lane(s)
  <2>1. PICK k \in {0, 1} : k = Lane(s)
    BY LaneFacts
  <2>2. PICK z \in BOOLEAN : z = (Head(decoding[s].q) = "eos")
    OBVIOUS
  <2>3. PICK x : x = [stream |-> s, idx |-> frame_count_[s], is_eos |-> z]
    OBVIOUS
  <2>4. x \in Frames /\ x.stream = s
    BY <2>3 DEF PipelineTyped, Frames
  <2>5. ~(1 > Len(PipeNodes))
    BY NodeFacts
  <2>6. frameQueue' = Transmitted(frameQueue, 1, x)
    BY <2>2, <2>3 DEF FromDecoder
  <2> QED
    BY <2>1, <2>4, <2>5, <2>6 DEF Transmitted, Lane
<1>4. frameQueue[<<1, k>>] \in Seq(Frames)
  BY HandTyped
<1>5. Append(frameQueue[<<1, k>>], x) \in Seq(Frames)
      /\ Elems(Append(frameQueue[<<1, k>>], x)) = Elems(frameQueue[<<1, k>>]) \cup {x}
  BY <1>4, AppendElems
<1>6. PICK e : e = [d EXCEPT !.q = IF Head(d.q) = "eos" THEN <<"sent">> ELSE Tail(d.q)]
  OBVIOUS
<1>7. e \in Coded /\ e.eos = d.eos /\ e.q = (IF Head(d.q) = "eos" THEN <<"sent">> ELSE Tail(d.q))
  <2>1. PICK T : T = {"packet", "eos", "sent"}
    OBVIOUS
  <2>2. d.q \in Seq(T)
    BY <2>1 DEF Coded
  <2>3. Tail(d.q) \in Seq(T)
    BY <1>1, <2>2, TailElements
  <2>4. <<"sent">> \in Seq(T)
    BY <2>1
  <2> QED
    BY <1>6, <2>1, <2>3, <2>4 DEF Coded
<1>8. decoding' = [decoding EXCEPT ![s] = e]
  BY <1>1, <1>2, <1>6
<1>9. decoding' \in [Streams -> Coded] /\ decoding'[s] = e /\ \A t \in Streams : t # s => decoding'[t] = decoding[t]
  BY <1>7, <1>8 DEF PipelineTyped
<1>10. PipelineTyped'
  <2>1. frame_count_' \in [Streams -> Nat]
    BY <1>2 DEF PipelineTyped
  <2>2. frameQueue' \in [Tasks -> Seq(Frames)]
    BY <1>3, <1>5 DEF PipelineTyped
  <2> QED
    BY <1>2, <1>9, <2>1, <2>2 DEF PipelineTyped
<1>11. \A t \in Streams :
         /\ Line(t, Places(t)', frame_count_'[t], givenUp')
         /\ HasEnd(t, Places(t)') <=> HasEnd(t, Places(t)) \/ (t = s /\ Head(decoding[s].q) = "eos")
         /\ t = s => ~HasEnd(t, Places(t))
  BY <1>10, DecoderFlow
<1>12. LinesKept'
  BY <1>11 DEF LinesKept
<1>13. LanesKept'
  <2>1. \A n, j : InHand(n, j)' = InHand(n, j)
    BY <1>2 DEF InHand
  <2>2. \A t : Lane(t)' = Lane(t)
    BY <1>2 DEF Lane, Parallelism
  <2>3. /\ frameQueue'[<<1, k>>] = Append(frameQueue[<<1, k>>], x)
        /\ \A a \in {1, 2, 3}, b \in {0, 1} : a # 1 \/ b # k => frameQueue'[<<a, b>>] = frameQueue[<<a, b>>]
    BY <1>3, QueueEffect
  <2>4. \A j \in {0, 1} : \A f \in Elems(frameQueue'[<<1, j>>]) : f \in Elems(frameQueue[<<1, j>>]) \/ (j = k /\ f = x)
    <3> SUFFICES ASSUME NEW j \in {0, 1}, NEW f \in Elems(frameQueue'[<<1, j>>])
                 PROVE  f \in Elems(frameQueue[<<1, j>>]) \/ (j = k /\ f = x)
      OBVIOUS
    <3>1. CASE j = k
      BY <1>5, <2>3, <3>1
    <3>2. CASE j # k
      <4>1. frameQueue'[<<1, j>>] = frameQueue[<<1, j>>]
        BY <2>3, <3>2
      <4> QED
        BY <4>1
    <3> QED
      BY <3>1, <3>2
  <2> QED
    BY <1>2, <1>3, <2>1, <2>2, <2>4 DEF LanesKept
<1>14. SourcesEnd'
  <2>1. PICK T : T = {"packet", "eos", "sent"}
    OBVIOUS
  <2>2. d.q \in Seq(T)
    BY <2>1 DEF Coded
  <2>3. DecoderEnds(d, FALSE, sourceOn[s])
    BY <1>1, <1>11 DEF SourcesEnd, DecoderEnds
  <2>4. sourceOn[s] /\ \A i \in DOMAIN d.q : d.q[i] # "sent" /\ (d.q[i] = "eos" <=> d.eos /\ i = Len(d.q))
    BY <1>1, <2>3 DEF DecoderEnds
  <2>a. ASSUME NEW t \in Streams, t # s PROVE DecoderEnds(decoding'[t], HasEnd(t, Places(t)'), sourceOn'[t])
    <3>1. HasEnd(t, Places(t)') <=> HasEnd(t, Places(t))
      BY <1>11, <2>a
    <3>2. DecoderEnds(decoding[t], HasEnd(t, Places(t)), sourceOn[t])
      BY DEF SourcesEnd
    <3>3. decoding'[t] = decoding[t] /\ sourceOn'[t] = sourceOn[t]
      BY <1>2, <1>9, <2>a
    <3> QED
      BY <3>1, <3>2, <3>3 DEF DecoderEnds
  <2>b. \A t \in Streams : decoding'[t].eos => eos_send_'[t]
    BY <1>1, <1>2, <1>7, <1>9 DEF SourcesEnd
  <2>5. CASE Head(d.q) = "eos"
    <3>1. d.eos
      BY <1>1, <2>2, <2>4, <2>5, TailWork
    <3>2. DecoderEnds(e, TRUE, TRUE)
      BY <1>7, <2>5, <3>1 DEF DecoderEnds
    <3>3. DecoderEnds(decoding'[s], HasEnd(s, Places(s)'), sourceOn'[s])
      BY <1>1, <1>2, <1>9, <1>11, <2>4, <2>5, <3>2 DEF DecoderEnds
    <3> QED
      BY <2>a, <2>b, <3>3 DEF SourcesEnd
  <2>6. CASE Head(d.q) # "eos"
    <3>1. PICK r \in Seq(T) : r = e.q /\ r = Tail(d.q)
      BY <1>1, <1>7, <2>2, <2>6, TailElements
    <3>2. Head(d.q) = d.q[1] /\ 1 \in DOMAIN d.q /\ Len(r) = Len(d.q) - 1 /\ Len(d.q) \in Nat
          /\ \A i \in DOMAIN r : i \in Nat /\ i + 1 \in DOMAIN d.q /\ r[i] = d.q[i + 1]
      BY <1>1, <2>2, <3>1, TailWork
    <3>3. \A i \in DOMAIN r : r[i] # "sent" /\ (r[i] = "eos" <=> d.eos /\ i = Len(r))
      BY <2>4, <3>2
    <3>4. d.eos => r # <<>>
      <4>1. d.eos => Len(d.q) # 1
        BY <2>4, <2>6, <3>2
      <4>2. Len(d.q) >= 1
        BY <2>2, <3>2
      <4>3. d.eos => Len(r) # 0
        BY <3>2, <4>1, <4>2
      <4>4. Len(<<>>) = 0
        OBVIOUS
      <4> QED
        BY <4>3, <4>4
    <3>5. DecoderEnds(e, FALSE, TRUE)
      BY <1>7, <3>1, <3>3, <3>4 DEF DecoderEnds
    <3>6. DecoderEnds(decoding'[s], HasEnd(s, Places(s)'), sourceOn'[s])
      BY <1>1, <1>2, <1>9, <1>11, <2>4, <2>6, <3>5 DEF DecoderEnds
    <3> QED
      BY <2>a, <2>b, <3>6 DEF SourcesEnd
  <2> QED
    BY <2>5, <2>6
<1>15. MarkedLast'
  BY <1>2 DEF MarkedLast
<1>16. SinkKnows'
  BY <1>2, SinkFrame
<1>17. StopOrder'
  <2>1. ~NeverRan /\ sourceOn[s]
    BY <1>1, <1>11 DEF NeverRan, SourcesEnd, DecoderEnds
  <2>2. \A n : Parallelism(n)' = Parallelism(n)
    BY <1>2 DEF Parallelism
  <2> QED
    BY <1>2, <2>1, <2>2 DEF StopOrder
<1> QED
  BY <1>10, <1>12, <1>13, <1>14, <1>15, <1>16, <1>17

-----------------------------------------------------------------------------
(* Pipeline: the nodes *)

LEMMA FlowSources ==
  ASSUME SourcesEnd, FlowKept, UNCHANGED <<decoding, sourceOn, eos_send_>>
  PROVE  LinesKept' /\ SourcesEnd'
<1>1. LinesKept'
  BY DEF LinesKept, FlowKept
<1>2. ASSUME NEW s \in Streams PROVE DecoderEnds(decoding'[s], HasEnd(s, Places(s)'), sourceOn'[s])
  <2>1. HasEnd(s, Places(s)') <=> HasEnd(s, Places(s))
    BY DEF FlowKept
  <2>2. DecoderEnds(decoding[s], HasEnd(s, Places(s)), sourceOn[s])
    BY DEF SourcesEnd
  <2> QED
    BY <2>1, <2>2 DEF DecoderEnds
<1> QED
  BY <1>1, <1>2 DEF SourcesEnd

LEMMA StopFrame ==
  ASSUME StopOrder,
         UNCHANGED <<infer_kind, main_pc, joinNode, pipeRunning, closing, seenAtStop, reader, decoding, frame_count_, sourceOn>>,
         \A n \in {1, 2, 3} : \A k \in {0, 1} : worker[<<n, k>>] = ThreadGone => worker'[<<n, k>>] = ThreadGone,
         joinNode > 1 => asked' = <<>>
  PROVE  StopOrder'
<1>1. \A n : Parallelism(n)' = Parallelism(n)
  BY DEF Parallelism
<1>2. NeverRan' <=> NeverRan
  BY DEF NeverRan
<1>3. \A n \in {1, 2, 3} : \A k \in 0..Parallelism(n) - 1 : k \in {0, 1}
  BY NodeFacts
<1>4. 1..Len(PipeNodes) = {1, 2, 3}
  BY NodeFacts
<1>5. \A n \in 1..Len(PipeNodes) : joinNode > n => \A k \in 0..Parallelism(n) - 1 : worker'[<<n, k>>] = ThreadGone
  BY <1>3, <1>4 DEF StopOrder
<1> QED
  BY <1>1, <1>2, <1>5 DEF StopOrder

\* The threads of a node and what they change.
LEMMA WorkerEffect ==
  ASSUME PipelineTyped, NEW n \in {1, 2, 3}, NEW k \in {0, 1}, NEW w \in WorkerStates,
         worker' = [worker EXCEPT ![<<n, k>>] = w]
  PROVE  /\ worker' \in [Tasks -> WorkerStates] /\ worker'[<<n, k>>] = w
         /\ \A m \in {1, 2, 3} : \A l \in {0, 1} : m # n \/ l # k => worker'[<<m, l>>] = worker[<<m, l>>]
<1>1. <<n, k>> \in Tasks
  BY NodeFacts
<1>2. ASSUME NEW m \in {1, 2, 3}, NEW l \in {0, 1}, m # n \/ l # k PROVE worker'[<<m, l>>] = worker[<<m, l>>]
  <2>1. <<m, l>> # <<n, k>> /\ <<m, l>> \in Tasks
    BY <1>2, NodeFacts
  <2> QED
    BY <2>1 DEF PipelineTyped
<1> QED
  BY <1>1, <1>2 DEF PipelineTyped

LEMMA StateFacts ==
  /\ AtLoop \in WorkerStates /\ ThreadGone \in WorkerStates
  /\ AtLoop.pc = "loop" /\ ThreadGone.pc = "gone"
  /\ \A p \in {"process", "mark"}, x \in Frames : [pc |-> p, frame |-> x] \in WorkerStates
  BY DEF AtLoop, ThreadGone, WorkerStates

LEMMA PopStep ==
  ASSUME PipelineInv, NEW n \in {1, 2, 3}, NEW k \in {0, 1}, n # 1 => k = 0, PopFrame(n, k)
  PROVE  PipelineInv'
<1> USE DEF PipelineInv
<1>1. /\ frameQueue[<<n, k>>] # <<>> /\ worker[<<n, k>>] = AtLoop
      /\ worker' = [worker EXCEPT ![<<n, k>>] = [pc |-> "process", frame |-> Head(frameQueue[<<n, k>>])]]
      /\ frameQueue' = [frameQueue EXCEPT ![<<n, k>>] = Tail(frameQueue[<<n, k>>])]
      /\ UNCHANGED <<infer_kind, main_pc, joinNode, pipeRunning, closing, seenAtStop, reader, decoding, eos_send_,
                     frame_count_, sourceOn, asked, sinkMap, encodedBy, givenUp>>
  BY DEF PopFrame, mainVars, sourceVars
<1>2. frameQueue[<<n, k>>] \in Seq(Frames)
  BY HandTyped
<1>3. PICK x \in Frames : /\ x = Head(frameQueue[<<n, k>>]) /\ Tail(frameQueue[<<n, k>>]) \in Seq(Frames)
                          /\ Elems(frameQueue[<<n, k>>]) = Elems(Tail(frameQueue[<<n, k>>])) \cup {x}
  BY <1>1, <1>2, TailElements
<1>4. PICK w \in WorkerStates : w = [pc |-> "process", frame |-> x] /\ w.pc = "process" /\ w.frame = x
  BY StateFacts
<1>5. worker' = [worker EXCEPT ![<<n, k>>] = w]
  BY <1>1, <1>3, <1>4
<1>6. /\ worker' \in [Tasks -> WorkerStates] /\ worker'[<<n, k>>] = w
      /\ \A m \in {1, 2, 3} : \A l \in {0, 1} : m # n \/ l # k => worker'[<<m, l>>] = worker[<<m, l>>]
  BY <1>5, WorkerEffect
<1>7. PipelineTyped'
  <2>1. frameQueue' \in [Tasks -> Seq(Frames)]
    BY <1>1, <1>3 DEF PipelineTyped
  <2> QED
    BY <1>1, <1>6, <2>1 DEF PipelineTyped
<1>8. LinesKept' /\ SourcesEnd'
  BY <1>1, <1>7, PopFlow, FlowSources
<1>9. LanesKept'
  <2>1. /\ frameQueue'[<<n, k>>] = Tail(frameQueue[<<n, k>>])
        /\ \A a \in {1, 2, 3}, b \in {0, 1} : a # n \/ b # k => frameQueue'[<<a, b>>] = frameQueue[<<a, b>>]
    BY <1>1, QueueEffect
  <2>2. /\ InHand(n, k)' = <<x>>
        /\ \A m \in {1, 2, 3}, l \in {0, 1} : m # n \/ l # k => InHand(m, l)' = InHand(m, l)
    BY <1>4, <1>5, HandEffect
  <2>3. \A t : Lane(t)' = Lane(t)
    BY <1>1 DEF Lane, Parallelism
  <2>4. Elems(<<x>>) = {x}
    BY DEF Elems
  <2>5. ASSUME NEW j \in {0, 1}, NEW f \in Elems(frameQueue'[<<1, j>>]) \cup Elems(InHand(1, j)')
        PROVE  f \in Elems(frameQueue[<<1, j>>]) \cup Elems(InHand(1, j))
    <3>1. CASE n = 1 /\ k = j
      <4>1. Elems(InHand(1, j)') = {x} /\ Elems(frameQueue'[<<1, j>>]) \subseteq Elems(frameQueue[<<1, j>>])
            /\ x \in Elems(frameQueue[<<1, j>>])
        BY <1>3, <2>1, <2>2, <2>4, <3>1
      <4> QED
        BY <2>5, <4>1
    <3>2. CASE n # 1 \/ k # j
      <4>1. InHand(1, j)' = InHand(1, j) /\ frameQueue'[<<1, j>>] = frameQueue[<<1, j>>]
        BY <2>1, <2>2, <3>2
      <4> QED
        BY <2>5, <4>1
    <3> QED
      BY <3>1, <3>2
  <2> QED
    BY <1>1, <2>3, <2>5 DEF LanesKept
<1>10. MarkedLast'
  <2>1. \A m \in {1, 2}, l \in {0, 1} : worker'[<<m, l>>].pc # "mark"
    BY <1>4, <1>6 DEF MarkedLast
  <2>2. worker'[<<3, 0>>].pc = "mark" => worker'[<<3, 0>>] = worker[<<3, 0>>]
    BY <1>4, <1>6
  <2> QED
    BY <1>1, <2>1, <2>2 DEF MarkedLast
<1>11. SinkKnows'
  <2>1. worker[<<3, 0>>].pc = "mark" => worker'[<<3, 0>>] = worker[<<3, 0>>]
    BY <1>1, <1>6, StateFacts
  <2> QED
    BY <1>1, <2>1 DEF SinkKnows, EndEncoded
<1>12. StopOrder'
  <2>1. worker[<<n, k>>] # ThreadGone
    BY <1>1 DEF AtLoop, ThreadGone
  <2>2. \A m \in {1, 2, 3} : \A l \in {0, 1} : worker[<<m, l>>] = ThreadGone => worker'[<<m, l>>] = ThreadGone
    BY <1>6, <2>1
  <2>3. joinNode > 1 => asked' = <<>>
    BY <1>1 DEF StopOrder
  <2> QED
    BY <1>1, <2>2, <2>3, StopFrame
<1> QED
  BY <1>7, <1>8, <1>9, <1>10, <1>11, <1>12

\* A thread goes back to its loop, after the sink marked the stream, or ends.
LEMMA LoopStep ==
  ASSUME PipelineInv, NEW n \in {1, 2, 3}, NEW k \in {0, 1}, n # 1 => k = 0, LeaveLoop(n, k) \/ ProcessFrameEos(n, k)
  PROVE  PipelineInv'
<1> USE DEF PipelineInv
<1>1. /\ UNCHANGED <<infer_kind, main_pc, joinNode, pipeRunning, closing, seenAtStop, reader, decoding, eos_send_,
                     frame_count_, sourceOn, frameQueue, asked, encodedBy, givenUp>>
      /\ worker[<<n, k>>].pc # "process"
  BY DEF LeaveLoop, ProcessFrameEos, mainVars, sourceVars, AtLoop
<1>2. PICK w \in {AtLoop, ThreadGone} : worker' = [worker EXCEPT ![<<n, k>>] = w]
                                        /\ (worker[<<n, k>>] = ThreadGone => w = ThreadGone)
  <2>1. CASE LeaveLoop(n, k)
    BY <2>1 DEF LeaveLoop
  <2>2. CASE ProcessFrameEos(n, k)
    BY <2>2, StateFacts DEF ProcessFrameEos
  <2> QED
    BY <2>1, <2>2
<1>3. w \in WorkerStates /\ w.pc # "process" /\ w.pc # "mark"
  BY <1>2, StateFacts
<1>4. /\ worker' \in [Tasks -> WorkerStates] /\ worker'[<<n, k>>] = w
      /\ \A m \in {1, 2, 3} : \A l \in {0, 1} : m # n \/ l # k => worker'[<<m, l>>] = worker[<<m, l>>]
  BY <1>2, <1>3, WorkerEffect
<1>5. \A m \in {1, 2, 3}, l \in {0, 1} : InHand(m, l)' = InHand(m, l)
  <2>1. InHand(n, k)' = <<>> /\ \A m \in {1, 2, 3}, l \in {0, 1} : m # n \/ l # k => InHand(m, l)' = InHand(m, l)
    BY <1>2, <1>3, HandEffect
  <2>2. InHand(n, k) = <<>>
    BY <1>1 DEF InHand
  <2> QED
    BY <2>1, <2>2
<1>6. LinesKept' /\ SourcesEnd'
  BY <1>1, LoopFlow, FlowSources
<1>7. LanesKept'
  <2>1. \A t : Lane(t)' = Lane(t)
    BY <1>1 DEF Lane, Parallelism
  <2>2. \A j \in {0, 1} : InHand(1, j)' = InHand(1, j)
    BY <1>5
  <2> QED
    BY <1>1, <2>1, <2>2 DEF LanesKept
<1>8. MarkedLast'
  <2>1. \A m \in {1, 2}, l \in {0, 1} : worker'[<<m, l>>].pc # "mark"
    BY <1>3, <1>4 DEF MarkedLast
  <2>2. worker'[<<3, 0>>].pc = "mark" => worker'[<<3, 0>>] = worker[<<3, 0>>]
    BY <1>3, <1>4
  <2> QED
    BY <1>1, <2>1, <2>2 DEF MarkedLast
<1>9. StopOrder'
  <2>1. \A m \in {1, 2, 3} : \A l \in {0, 1} : worker[<<m, l>>] = ThreadGone => worker'[<<m, l>>] = ThreadGone
    BY <1>2, <1>4
  <2>2. joinNode > 1 => asked' = <<>>
    BY <1>1 DEF StopOrder
  <2> QED
    BY <1>1, <2>1, <2>2, StopFrame
<1>10. CASE LeaveLoop(n, k)
  <2>1. sinkMap' = sinkMap /\ worker[<<n, k>>] = AtLoop
    BY <1>10 DEF LeaveLoop
  <2>2. PipelineTyped'
    BY <1>1, <1>4, <2>1 DEF PipelineTyped
  <2>3. worker[<<3, 0>>].pc = "mark" => worker'[<<3, 0>>] = worker[<<3, 0>>]
    BY <1>4, <2>1, StateFacts
  <2>4. SinkKnows'
    BY <1>1, <2>1, <2>3 DEF SinkKnows, EndEncoded
  <2> QED
    BY <1>6, <1>7, <1>8, <1>9, <2>2, <2>4
<1>11. CASE ProcessFrameEos(n, k)
  <2>1. worker[<<n, k>>].pc = "mark" /\ n = 3 /\ k = 0
    BY <1>11 DEF ProcessFrameEos, MarkedLast
  <2>2. worker[<<3, 0>>] \in [pc : {"process", "mark"}, frame : Frames]
    <3>1. worker[<<3, 0>>] \in WorkerStates
      BY NodeFacts DEF PipelineTyped
    <3> QED
      BY <2>1, <3>1, StateFacts DEF WorkerStates
  <2>3. PICK x \in Frames, s \in Streams : x = worker[<<3, 0>>].frame /\ s = x.stream
    BY <2>2 DEF Frames
  <2>4. sinkMap' = [sinkMap EXCEPT ![s] = Marked(sinkMap[s], x)]
    BY <1>11, <2>1, <2>3 DEF ProcessFrameEos
  <2>5. sinkMap[s] \in {"absent", "on", "off"} /\ Marked(sinkMap[s], x) \in {"absent", "on", "off"}
    BY DEF PipelineTyped, Marked
  <2>6. /\ sinkMap' \in [Streams -> {"absent", "on", "off"}] /\ sinkMap'[s] = Marked(sinkMap[s], x)
        /\ \A t \in Streams : t # s => sinkMap'[t] = sinkMap[t]
    BY <2>4, <2>5 DEF PipelineTyped
  <2>7. PipelineTyped'
    BY <1>1, <1>4, <2>6 DEF PipelineTyped
  <2>8. encodedBy[s] # <<>> /\ x = encodedBy[s][Len(encodedBy[s])] /\ encodedBy[s] \in Seq(Frames)
    BY <2>1, <2>3 DEF MarkedLast, PipelineTyped
  <2>9. Len(encodedBy[s]) \in DOMAIN encodedBy[s] /\ \A i \in DOMAIN encodedBy[s] : i \in Nat /\ i <= Len(encodedBy[s])
    BY <2>8
  <2>10. x.is_eos => EndEncoded(s)
    BY <2>8, <2>9 DEF EndEncoded, Elems
  <2>11. ASSUME ~x.is_eos PROVE ~EndEncoded(s)
    <3> SUFFICES ASSUME NEW i \in DOMAIN encodedBy[s], encodedBy[s][i].is_eos PROVE FALSE
      BY DEF EndEncoded, Elems
    <3>1. i < Len(encodedBy[s])
      <4>1. i # Len(encodedBy[s])
        BY <2>8, <2>11
      <4> QED
        BY <2>9, <4>1
    <3>2. QueueInOrder(s, encodedBy[s])
      <4>1. PICK P \in PlaceLists : P = Places(s) /\ P[8] = encodedBy[s]
        BY PlacesNow
      <4>2. Line(s, P, frame_count_[s], givenUp) /\ 8 \in 1..LastPlace
        BY <4>1 DEF LinesKept, LastPlace
      <4> QED
        BY <4>1, <4>2 DEF Line
    <3>3. encodedBy[s][i].stream = s
      BY DEF LanesKept, Elems
    <3>4. Precedes(s, encodedBy[s][i], x)
      BY <2>8, <2>9, <3>1, <3>2 DEF QueueInOrder
    <3> QED
      BY <2>3, <3>3, <3>4 DEF Precedes
  <2>12. \A t \in Streams : EndEncoded(t)' <=> EndEncoded(t)
    BY <1>1 DEF EndEncoded
  <2>13. sinkMap'[s] = "off" => EndEncoded(s)
    BY <2>6, <2>10 DEF SinkKnows, Marked
  <2>14. ~(sinkMap'[s] = "on" /\ EndEncoded(s))
    <3>1. CASE x.is_eos
      <4>1. sinkMap'[s] # "on"
        BY <2>6, <3>1 DEF Marked
      <4> QED
        BY <4>1
    <3>2. CASE ~x.is_eos
      BY <2>11, <3>2
    <3> QED
      BY <3>1, <3>2
  <2>15. ASSUME NEW t \in Streams, t # s PROVE ~(sinkMap'[t] = "on" /\ EndEncoded(t))
    BY <2>3, <2>6, <2>15 DEF SinkKnows
  <2>16. SinkKnows'
    BY <1>1, <2>6, <2>12, <2>13, <2>14, <2>15 DEF SinkKnows
  <2> QED
    BY <1>6, <1>7, <1>8, <1>9, <2>7, <2>16
<1> QED
  BY <1>10, <1>11

\* Where the effects of Process leave the queues.
LEMMA OutcomeTyped ==
  ASSUME PipelineTyped, NEW n \in {1, 2, 3}, NEW x \in Frames,
         \/ n \in {1, 2} /\ PassedOn(n, x)
         \/ n \in {1, 2} /\ Abandoned(x)
         \/ n = 1 /\ infer_kind = "async" /\ Requested(x)
         \/ n = 3 /\ Encoded(x)
  PROVE  /\ frameQueue' \in [Tasks -> Seq(Frames)] /\ asked' \in Seq(Frames)
         /\ encodedBy' \in [Streams -> Seq(Frames)]
         /\ \A j \in {0, 1} : frameQueue'[<<1, j>>] = frameQueue[<<1, j>>]
         /\ \A f \in Elems(asked') : f \in Elems(asked) \/ (f = x /\ infer_kind = "async" /\ ~x.is_eos)
         /\ n # 3 => encodedBy' = encodedBy
         /\ asked' = asked \/ (n = 1 /\ infer_kind = "async")
<1>0. x.stream \in Streams
  BY DEF Frames
<1>1. CASE n \in {1, 2} /\ PassedOn(n, x)
  <2>1. PICK m \in {2, 3} : m = n + 1
    BY <1>1
  <2>2. frameQueue' = [frameQueue EXCEPT ![<<m, 0>>] = Append(frameQueue[<<m, 0>>], x)] /\ UNCHANGED <<asked, encodedBy>>
    BY <1>1, <2>1 DEF PassedOn
  <2>3. Append(frameQueue[<<m, 0>>], x) \in Seq(Frames)
    BY HandTyped, AppendElems
  <2>4. frameQueue' \in [Tasks -> Seq(Frames)]
    BY <2>2, <2>3 DEF PipelineTyped
  <2>5. \A a \in {1, 2, 3}, b \in {0, 1} : a # m \/ b # 0 => frameQueue'[<<a, b>>] = frameQueue[<<a, b>>]
    BY <2>2, QueueEffect
  <2>6. \A j \in {0, 1} : frameQueue'[<<1, j>>] = frameQueue[<<1, j>>]
    BY <2>5
  <2> QED
    BY <1>1, <2>2, <2>4, <2>6 DEF PipelineTyped
<1>2. CASE n \in {1, 2} /\ Abandoned(x)
  BY <1>2 DEF Abandoned, PipelineTyped
<1>3. CASE n = 1 /\ infer_kind = "async" /\ Requested(x)
  <2>1. asked' \in Seq(Frames) /\ Elems(asked') = Elems(asked) \cup {x}
    BY <1>3, AppendElems DEF Requested, PipelineTyped
  <2> QED
    BY <1>3, <2>1 DEF Requested, PipelineTyped
<1>4. CASE n = 3 /\ Encoded(x)
  <2>1. encodedBy[x.stream] \in Seq(Frames)
    BY <1>0 DEF PipelineTyped
  <2>2. Append(encodedBy[x.stream], x) \in Seq(Frames)
    BY <2>1, AppendElems
  <2>3. encodedBy' \in [Streams -> Seq(Frames)]
    BY <1>4, <2>2 DEF Encoded, PipelineTyped
  <2> QED
    BY <1>4, <2>3 DEF Encoded, PipelineTyped
<1> QED
  BY <1>1, <1>2, <1>3, <1>4

LEMMA ProcessStep ==
  ASSUME PipelineInv, NEW n \in {1, 2, 3}, NEW k \in {0, 1}, n # 1 => k = 0, infer_kind = "async" => k = 0,
         ModuleProcess(n, k)
  PROVE  PipelineInv'
<1> USE DEF PipelineInv
<1>1. PICK x \in Frames :
           /\ worker[<<n, k>>] = [pc |-> "process", frame |-> x] /\ UNCHANGED <<infer_kind, frame_count_>>
           /\ InHand(n, k) = <<x>> /\ InHand(n, k)' = <<>>
           /\ worker' = [worker EXCEPT ![<<n, k>>] = IF n = 3 THEN [pc |-> "mark", frame |-> x] ELSE AtLoop]
           /\ \A m \in {1, 2, 3}, l \in {0, 1} : m # n \/ l # k => InHand(m, l)' = InHand(m, l)
           /\ \/ n \in {1, 2} /\ PassedOn(n, x)
              \/ n \in {1, 2} /\ Abandoned(x)
              \/ n = 1 /\ infer_kind = "async" /\ Requested(x)
              \/ n = 3 /\ Encoded(x)
  BY ProcessEffect
<1>2. UNCHANGED <<infer_kind, main_pc, joinNode, pipeRunning, closing, seenAtStop, reader, decoding, eos_send_,
                  frame_count_, sourceOn, sinkMap>>
  BY DEF ModuleProcess, mainVars, sourceVars
<1>3. /\ frameQueue' \in [Tasks -> Seq(Frames)] /\ asked' \in Seq(Frames)
      /\ encodedBy' \in [Streams -> Seq(Frames)]
      /\ \A j \in {0, 1} : frameQueue'[<<1, j>>] = frameQueue[<<1, j>>]
      /\ \A f \in Elems(asked') : f \in Elems(asked) \/ (f = x /\ infer_kind = "async" /\ ~x.is_eos)
      /\ n # 3 => encodedBy' = encodedBy
      /\ asked' = asked \/ (n = 1 /\ infer_kind = "async")
  BY <1>1, OutcomeTyped
<1>4. PICK w \in WorkerStates : /\ w = (IF n = 3 THEN [pc |-> "mark", frame |-> x] ELSE AtLoop)
                                /\ w.pc # "process" /\ (n # 3 => w.pc # "mark")
                                /\ (n = 3 => w.pc = "mark" /\ w.frame = x)
  BY StateFacts
<1>5. worker' = [worker EXCEPT ![<<n, k>>] = w] /\ worker[<<n, k>>].pc = "process"
  BY <1>1, <1>4
<1>6. /\ worker' \in [Tasks -> WorkerStates] /\ worker'[<<n, k>>] = w
      /\ \A m \in {1, 2, 3} : \A l \in {0, 1} : m # n \/ l # k => worker'[<<m, l>>] = worker[<<m, l>>]
  BY <1>5, WorkerEffect
<1>7. PipelineTyped'
  BY <1>2, <1>3, <1>6 DEF PipelineTyped
<1>8. LinesKept' /\ SourcesEnd'
  BY <1>2, <1>7, ProcessFlow, FlowSources
<1>a. x.stream \in Streams
  BY DEF Frames
<1>b. n = 3 => /\ encodedBy'[x.stream] = Append(encodedBy[x.stream], x)
               /\ \A t \in Streams : t # x.stream => encodedBy'[t] = encodedBy[t]
  <2>1. n = 3 => encodedBy' = [encodedBy EXCEPT ![x.stream] = Append(encodedBy[x.stream], x)]
    BY <1>1 DEF Encoded
  <2> QED
    BY <1>a, <2>1 DEF PipelineTyped
<1>c. encodedBy[x.stream] \in Seq(Frames)
  BY <1>a DEF PipelineTyped
<1>d. Elems(Append(encodedBy[x.stream], x)) = Elems(encodedBy[x.stream]) \cup {x}
  BY <1>c, AppendElems
<1>9. LanesKept'
  <2>1. \A t : Lane(t)' = Lane(t)
    BY <1>2 DEF Lane, Parallelism
  <2>2. ASSUME NEW j \in {0, 1}, NEW f \in Elems(InHand(1, j)') PROVE f \in Elems(InHand(1, j))
    <3>1. Elems(<<>>) = {}
      BY DEF Elems
    <3>2. CASE n = 1 /\ k = j
      BY <1>1, <2>2, <3>1, <3>2
    <3>3. CASE n # 1 \/ k # j
      <4>1. InHand(1, j)' = InHand(1, j)
        BY <1>1, <3>3
      <4> QED
        BY <2>2, <4>1
    <3> QED
      BY <3>2, <3>3
  <2>3. ASSUME NEW j \in {0, 1}, NEW f \in Elems(frameQueue'[<<1, j>>]) \cup Elems(InHand(1, j)') PROVE Lane(f.stream)' = j
    <3>1. f \in Elems(frameQueue[<<1, j>>]) \cup Elems(InHand(1, j))
      <4>1. frameQueue'[<<1, j>>] = frameQueue[<<1, j>>]
        BY <1>3
      <4> QED
        BY <2>2, <2>3, <4>1
    <3>2. Lane(f.stream) = j
      BY <3>1 DEF LanesKept
    <3> QED
      BY <2>1, <3>2
  <2>4. \A f \in Elems(asked') : infer_kind' = "async" /\ ~f.is_eos
    BY <1>2, <1>3 DEF LanesKept
  <2>5. ASSUME NEW t \in Streams, NEW f \in Elems(encodedBy'[t]) PROVE f.stream = t
    <3>1. CASE n # 3 \/ t # x.stream
      <4>1. encodedBy'[t] = encodedBy[t]
        BY <1>3, <1>b, <3>1
      <4> QED
        BY <2>5, <4>1 DEF LanesKept
    <3>2. CASE n = 3 /\ t = x.stream
      <4>1. f \in Elems(encodedBy[t]) \/ f = x
        BY <1>b, <1>d, <2>5, <3>2
      <4> QED
        BY <3>2, <4>1 DEF LanesKept
    <3> QED
      BY <3>1, <3>2
  <2> QED
    BY <2>3, <2>4, <2>5 DEF LanesKept
<1>10. MarkedLast'
  <2>1. \A m \in {1, 2}, l \in {0, 1} : worker'[<<m, l>>].pc # "mark"
    BY <1>4, <1>6 DEF MarkedLast
  <2>2. CASE n # 3
    <3>1. worker'[<<3, 0>>] = worker[<<3, 0>>]
      BY <1>6, <2>2
    <3> QED
      BY <1>3, <2>1, <2>2, <3>1 DEF MarkedLast
  <2>3. CASE n = 3
    <3>1. worker'[<<3, 0>>].frame = x
      BY <1>4, <1>6, <2>3
    <3>2. encodedBy'[x.stream] # <<>> /\ x = encodedBy'[x.stream][Len(encodedBy'[x.stream])]
      BY <1>b, <1>c, <2>3
    <3> QED
      BY <2>1, <3>1, <3>2 DEF MarkedLast
  <2> QED
    BY <2>2, <2>3
<1>11. SinkKnows'
  <2>1. CASE n # 3
    <3>1. worker'[<<3, 0>>] = worker[<<3, 0>>]
      BY <1>6, <2>1
    <3> QED
      BY <1>2, <1>3, <2>1, <3>1 DEF SinkKnows, EndEncoded
  <2>2. CASE n = 3
    <3>1. worker[<<3, 0>>].pc = "process" /\ worker'[<<3, 0>>].pc = "mark" /\ worker'[<<3, 0>>].frame = x
      BY <1>4, <1>5, <1>6, <2>2
    <3>2. \A t \in Streams : EndEncoded(t) => EndEncoded(t)'
      BY <1>b, <1>d, <2>2 DEF EndEncoded
    <3>3. \A t \in Streams : t # x.stream => (EndEncoded(t)' <=> EndEncoded(t))
      BY <1>b, <2>2 DEF EndEncoded
    <3>4. \A t \in Streams : ~(sinkMap[t] = "on" /\ EndEncoded(t))
      BY <3>1 DEF SinkKnows
    <3> QED
      BY <1>2, <3>1, <3>2, <3>3, <3>4 DEF SinkKnows
  <2> QED
    BY <2>1, <2>2
<1>12. StopOrder'
  <2>1. worker[<<n, k>>] # ThreadGone
    BY <1>5, StateFacts
  <2>2. \A m \in {1, 2, 3} : \A l \in {0, 1} : worker[<<m, l>>] = ThreadGone => worker'[<<m, l>>] = ThreadGone
    BY <1>6, <2>1
  <2>3. joinNode > 1 => asked' = <<>>
    <3>1. CASE asked' = asked
      BY <3>1 DEF StopOrder
    <3>2. CASE n = 1 /\ infer_kind = "async"
      <4>1. k \in 0..Parallelism(1) - 1 /\ 1 \in 1..Len(PipeNodes)
        BY <3>2, NodeFacts
      <4>2. ~(joinNode > 1)
        BY <2>1, <3>2, <4>1 DEF StopOrder
      <4> QED
        BY <4>2
    <3> QED
      BY <1>3, <3>1, <3>2
  <2> QED
    BY <1>2, <2>2, <2>3, StopFrame
<1> QED
  BY <1>7, <1>8, <1>9, <1>10, <1>11, <1>12

\* The observer of the session of infer.
LEMMA ResponseStep ==
  ASSUME PipelineInv, InferResponse
  PROVE  PipelineInv'
<1> USE DEF PipelineInv
<1>1. /\ PassOn(1, Head(asked)) \/ GiveUp(Head(asked))
      /\ UNCHANGED <<infer_kind, main_pc, joinNode, pipeRunning, closing, seenAtStop, reader, decoding, eos_send_,
                     frame_count_, sourceOn, worker, sinkMap, encodedBy>>
  BY DEF InferResponse, mainVars, sourceVars
<1>0. asked # <<>> /\ asked' = Tail(asked)
  BY DEF InferResponse
<1>2. PICK x \in Frames : x = Head(asked) /\ asked' \in Seq(Frames) /\ Elems(asked') \subseteq Elems(asked)
  <2>1. asked \in Seq(Frames) /\ asked # <<>> /\ asked' = Tail(asked)
    BY <1>0 DEF PipelineTyped
  <2>2. Tail(asked) \in Seq(Frames) /\ Head(asked) \in Frames /\ Elems(asked) = Elems(Tail(asked)) \cup {Head(asked)}
    BY <2>1, TailElements
  <2> QED
    BY <2>1, <2>2
<1>3. x.stream % 1 = 0
  BY LaneFacts DEF Frames
<1>4. frameQueue' \in [Tasks -> Seq(Frames)] /\ \A j \in {0, 1} : frameQueue'[<<1, j>>] = frameQueue[<<1, j>>]
  <2>1. CASE PassOn(1, x)
    <3>1. ~(2 > Len(PipeNodes)) /\ Parallelism(2) = 1
      BY NodeFacts
    <3>2. Transmitted(frameQueue, 2, x) = [frameQueue EXCEPT ![<<2, 0>>] = Append(frameQueue[<<2, 0>>], x)]
      BY <1>3, <3>1 DEF Transmitted
    <3>3. frameQueue' = Transmitted(frameQueue, 1 + 1, x) /\ 1 + 1 = 2
      BY <2>1 DEF PassOn
    <3>4. frameQueue' = [frameQueue EXCEPT ![<<2, 0>>] = Append(frameQueue[<<2, 0>>], x)]
      BY <3>2, <3>3
    <3>5. Append(frameQueue[<<2, 0>>], x) \in Seq(Frames)
      BY HandTyped, AppendElems
    <3>6. \A a \in {1, 2, 3}, b \in {0, 1} : a # 2 \/ b # 0 => frameQueue'[<<a, b>>] = frameQueue[<<a, b>>]
      BY <3>4, QueueEffect
    <3>7. \A j \in {0, 1} : frameQueue'[<<1, j>>] = frameQueue[<<1, j>>]
      BY <3>6
    <3>8. frameQueue' \in [Tasks -> Seq(Frames)]
      BY <3>4, <3>5 DEF PipelineTyped
    <3> QED
      BY <3>7, <3>8
  <2>2. CASE GiveUp(x)
    BY <2>2 DEF GiveUp, PipelineTyped
  <2> QED
    BY <1>1, <1>2, <2>1, <2>2
<1>5. PipelineTyped'
  BY <1>1, <1>2, <1>4 DEF PipelineTyped
<1>6. LinesKept' /\ SourcesEnd'
  BY <1>1, <1>5, ResponseFlow, FlowSources
<1>7. LanesKept'
  <2>1. \A t : Lane(t)' = Lane(t)
    BY <1>1 DEF Lane, Parallelism
  <2>2. \A j \in {0, 1} : InHand(1, j)' = InHand(1, j)
    BY <1>1 DEF InHand
  <2>3. \A j \in {0, 1} : \A f \in Elems(frameQueue'[<<1, j>>]) \cup Elems(InHand(1, j)') : Lane(f.stream)' = j
    BY <1>4, <2>1, <2>2 DEF LanesKept
  <2> QED
    BY <1>1, <1>2, <2>3 DEF LanesKept
<1>8. MarkedLast' /\ SinkKnows'
  BY <1>1, SinkFrame DEF MarkedLast
<1>9. StopOrder'
  <2>1. ~(joinNode > 1)
    BY <1>0 DEF StopOrder
  <2>2. \A m \in {1, 2, 3} : \A l \in {0, 1} : worker[<<m, l>>] = ThreadGone => worker'[<<m, l>>] = ThreadGone
    BY <1>1
  <2> QED
    BY <1>1, <2>1, <2>2, StopFrame
<1> QED
  BY <1>5, <1>6, <1>7, <1>8, <1>9

-----------------------------------------------------------------------------
(* Pipeline: it is correct *)

LEMMA PipelineInitInv ==
  ASSUME PipelineInit
  PROVE  PipelineInv
<1> USE DEF PipelineInit
<1>1. \A n \in {1, 2, 3}, k \in {0, 1} : worker[<<n, k>>] = AtLoop /\ frameQueue[<<n, k>>] = <<>> /\ InHand(n, k) = <<>>
  <2>1. \A n \in {1, 2, 3}, k \in {0, 1} : worker[<<n, k>>] = AtLoop /\ frameQueue[<<n, k>>] = <<>>
    BY NodeFacts
  <2> QED
    BY <2>1, StateFacts DEF InHand
<1>2. Elems(<<>>) = {}
  BY DEF Elems
<1>3. PipelineTyped
  <2>1. <<>> \in Seq(Frames) /\ <<>> \in Seq({"packet", "eos", "sent"})
    OBVIOUS
  <2>2. [q |-> <<>>, eos |-> FALSE] \in Coded
    BY <2>1 DEF Coded
  <2>3. decoding \in [Streams -> Coded] /\ frameQueue \in [Tasks -> Seq(Frames)] /\ encodedBy \in [Streams -> Seq(Frames)]
    BY <2>1, <2>2
  <2>4. worker \in [Tasks -> WorkerStates]
    BY StateFacts
  <2>5. /\ frame_count_ \in [Streams -> Nat] /\ reader \in [Streams -> {"loop", "packet", "eos"}]
        /\ eos_send_ \in [Streams -> BOOLEAN] /\ sourceOn \in [Streams -> BOOLEAN]
        /\ sinkMap \in [Streams -> {"absent", "on", "off"}]
    OBVIOUS
  <2>6. joinNode \in 0..Len(PipeNodes) + 1 /\ asked \in Seq(Frames)
    BY <2>1, NodeFacts
  <2> QED
    BY <2>3, <2>4, <2>5, <2>6 DEF PipelineTyped
<1>4. ASSUME NEW s \in Streams
      PROVE  \E P \in PlaceLists : P = Places(s) /\ \A p \in 1..LastPlace : P[p] = <<>>
  <2>1. PICK l \in {0, 1} : l = Lane(s)
    BY LaneFacts
  <2>2. PICK P \in PlaceLists :
           /\ P = Places(s)
           /\ P[1] = frameQueue[<<1, l>>] /\ P[2] = InHand(1, l) /\ P[3] = asked
           /\ P[4] = frameQueue[<<2, 0>>] /\ P[5] = InHand(2, 0)
           /\ P[6] = frameQueue[<<3, 0>>] /\ P[7] = InHand(3, 0) /\ P[8] = encodedBy[s]
    BY <1>3, <2>1, PlacesNow
  <2>3. /\ P[1] = <<>> /\ P[2] = <<>> /\ P[3] = <<>> /\ P[4] = <<>>
        /\ P[5] = <<>> /\ P[6] = <<>> /\ P[7] = <<>> /\ P[8] = <<>>
    BY <1>1, <2>2
  <2> QED
    BY <2>2, <2>3 DEF LastPlace
<1>5. ASSUME NEW s \in Streams PROVE Line(s, Places(s), 0, {}) /\ ~HasEnd(s, Places(s))
  <2>1. PICK P \in PlaceLists : P = Places(s) /\ \A p \in 1..LastPlace : P[p] = <<>>
    BY <1>4
  <2>2. \A p \in 1..LastPlace : Elems(P[p]) = {} /\ QueueInOrder(s, P[p])
    BY <1>2, <2>1 DEF QueueInOrder
  <2>3. Line(s, P, 0, {})
    <3>1. 0..0 - 1 = {}
      OBVIOUS
    <3> QED
      BY <2>2, <3>1 DEF Line
  <2>4. ~HasEnd(s, P)
    BY <2>2 DEF HasEnd
  <2> QED
    BY <2>1, <2>3, <2>4
<1>6. LinesKept
  BY <1>5 DEF LinesKept
<1>7. LanesKept
  BY <1>1, <1>2 DEF LanesKept
<1>8. SourcesEnd
  <2>1. \A s \in Streams : decoding[s].q = <<>> /\ decoding[s].eos = FALSE /\ sourceOn[s] = TRUE
    OBVIOUS
  <2>2. ASSUME NEW s \in Streams PROVE DecoderEnds(decoding[s], HasEnd(s, Places(s)), sourceOn[s])
    <3>1. DOMAIN <<>> = {}
      OBVIOUS
    <3> QED
      BY <1>5, <2>1, <3>1 DEF DecoderEnds
  <2> QED
    BY <2>1, <2>2 DEF SourcesEnd
<1>9. MarkedLast
  BY <1>1, StateFacts DEF MarkedLast
<1>10. SinkKnows
  BY <1>1, StateFacts DEF SinkKnows
<1>11. StopOrder
  BY NodeFacts DEF StopOrder, NeverRan
<1> QED
  BY <1>3, <1>6, <1>7, <1>8, <1>9, <1>10, <1>11 DEF PipelineInv

LEMMA PipelineIdle ==
  ASSUME PipelineInv, UNCHANGED pipelineVars
  PROVE  PipelineInv'
<1> USE DEF PipelineInv, pipelineVars
<1>1. /\ LinesKept' /\ LanesKept' /\ MarkedLast'
      /\ \A s \in Streams : Places(s)' = Places(s) /\ (EndEncoded(s)' <=> EndEncoded(s))
  BY NodesFrame
<1>2. SourcesEnd' /\ SinkKnows'
  BY <1>1, SourcesFrame, SinkFrame
<1>3. PipelineTyped'
  BY DEF PipelineTyped
<1>4. StopOrder'
  BY DEF StopOrder, NeverRan, Parallelism
<1> QED
  BY <1>1, <1>2, <1>3, <1>4

LEMMA PipelineStep ==
  ASSUME PipelineInv, [PipelineNext]_pipelineVars
  PROVE  PipelineInv'
<1>1. ASSUME NEW n \in 1..Len(PipeNodes), NEW k \in 0..Parallelism(n) - 1,
             PopFrame(n, k) \/ LeaveLoop(n, k) \/ ModuleProcess(n, k) \/ ProcessFrameEos(n, k)
      PROVE  PipelineInv'
  <2>1. n \in {1, 2, 3} /\ k \in {0, 1} /\ (n # 1 => k = 0) /\ (infer_kind = "async" => k = 0)
    <3>1. n \in {1, 2, 3}
      BY NodeFacts
    <3>2. CASE n = 1
      <4>1. k \in {0, 1}
        BY <3>2, NodeFacts
      <4>2. infer_kind = "async" => k \in 0..0
        BY <3>2, NodeFacts
      <4> QED
        BY <3>2, <4>1, <4>2
    <3>3. CASE n \in {2, 3}
      BY <3>3, NodeFacts
    <3> QED
      BY <3>1, <3>2, <3>3
  <2>2. CASE PopFrame(n, k)
    BY <2>1, <2>2, PopStep
  <2>3. CASE LeaveLoop(n, k) \/ ProcessFrameEos(n, k)
    BY <2>1, <2>3, LoopStep
  <2>4. CASE ModuleProcess(n, k)
    BY <2>1, <2>4, ProcessStep
  <2> QED
    BY <1>1, <2>2, <2>3, <2>4
<1>2. CASE (\E opened \in BOOLEAN : PipeStart(opened)) \/ Interrupt \/ WaitForStop \/ StopRunning \/ JoinAndClose
  BY <1>2, MainStep
<1>3. CASE CloseSource \/ \E s \in Streams : ReadFrame(s) \/ SendPacket(s) \/ SendEnd(s) \/ SourceEnds(s)
  BY <1>3, SourceStep
<1>4. CASE \E s \in Streams : FromDecoder(s)
  BY <1>4, DeliverStep
<1>5. CASE InferResponse
  BY <1>5, ResponseStep
<1>6. CASE UNCHANGED pipelineVars
  BY <1>6, PipelineIdle
<1> QED
  BY <1>1, <1>2, <1>3, <1>4, <1>5, <1>6 DEF PipelineNext

LEMMA InvIsCorrect ==
  ASSUME PipelineInv
  PROVE  PipelineCorrect
<1> USE DEF PipelineInv
<1>1. ASSUME NEW s \in Streams
      PROVE  \E P \in PlaceLists, l \in {0, 1} :
               /\ P = Places(s) /\ l = Lane(s) /\ l \in 0..Parallelism(1) - 1
               /\ P[1] = frameQueue[<<1, l>>] /\ P[2] = InHand(1, l) /\ P[3] = asked
               /\ P[4] = frameQueue[<<2, 0>>] /\ P[5] = InHand(2, 0)
               /\ P[6] = frameQueue[<<3, 0>>] /\ P[7] = InHand(3, 0) /\ P[8] = encodedBy[s]
               /\ Line(s, P, frame_count_[s], givenUp)
  <2>1. PICK l \in {0, 1} : l = Lane(s) /\ l \in 0..Parallelism(1) - 1
    BY LaneFacts
  <2>2. PICK P \in PlaceLists :
           /\ P = Places(s)
           /\ P[1] = frameQueue[<<1, l>>] /\ P[2] = InHand(1, l) /\ P[3] = asked
           /\ P[4] = frameQueue[<<2, 0>>] /\ P[5] = InHand(2, 0)
           /\ P[6] = frameQueue[<<3, 0>>] /\ P[7] = InHand(3, 0) /\ P[8] = encodedBy[s]
    BY <2>1, PlacesNow
  <2>3. Line(s, P, frame_count_[s], givenUp)
    BY <2>2 DEF LinesKept
  <2> QED
    BY <2>1, <2>2, <2>3
<1>2. 8 \in 1..LastPlace /\ \A p \in 1..LastPlace : p = 8 \/ p < 8
  BY DEF LastPlace
<1>3. StreamInOrder
  <2> SUFFICES ASSUME NEW s \in Streams, NEW i \in DOMAIN encodedBy[s], NEW j \in DOMAIN encodedBy[s], i < j
               PROVE  encodedBy[s][i].idx < encodedBy[s][j].idx /\ ~encodedBy[s][i].is_eos
    BY DEF StreamInOrder
  <2>1. PICK P \in PlaceLists : P[8] = encodedBy[s] /\ Line(s, P, frame_count_[s], givenUp)
    BY <1>1
  <2>2. QueueInOrder(s, encodedBy[s])
    BY <1>2, <2>1 DEF Line
  <2>3. encodedBy[s][i].stream = s /\ encodedBy[s][j].stream = s
    BY DEF LanesKept, Elems
  <2> QED
    BY <2>2, <2>3 DEF QueueInOrder, Precedes
<1>4. StopComplete
  <2> SUFFICES ASSUME NEW s \in seenAtStop, NEW i \in 0..frame_count_[s] - 1
               PROVE  \E f \in Elems(encodedBy[s]) \cup givenUp : f.stream = s /\ f.idx = i
    BY DEF StopComplete
  <2>1. s \in Streams /\ EndEncoded(s)
    BY DEF StopOrder, SinkKnows
  <2>2. PICK P \in PlaceLists : P[8] = encodedBy[s] /\ Line(s, P, frame_count_[s], givenUp)
    BY <1>1, <2>1
  <2>3. PICK e \in Elems(P[8]) : e.is_eos /\ e.stream = s
    BY <2>1, <2>2 DEF EndEncoded, LanesKept
  <2>4. ASSUME NEW p \in 1..LastPlace, NEW f \in Elems(P[p]), f.stream = s PROVE p = 8
    <3>1. p < 8 => Precedes(s, e, f)
      BY <1>2, <2>2, <2>3, <2>4 DEF Line
    <3>2. ~Precedes(s, e, f)
      BY <2>3, <2>4 DEF Precedes
    <3> QED
      BY <1>2, <3>1, <3>2
  <2>5. \/ \E p \in 1..LastPlace : \E f \in Elems(P[p]) : f.stream = s /\ f.idx = i
        \/ \E f \in givenUp : f.stream = s /\ f.idx = i
    BY <2>2 DEF Line
  <2> QED
    BY <2>2, <2>4, <2>5
<1>5. NoLateFrame
  <2> SUFFICES ASSUME main_pc = "deleted"
               PROVE  /\ asked = <<>>
                      /\ \A s \in Streams : decoding[s].q = <<>> /\ (eos_send_[s] \/ frame_count_[s] = 0)
                      /\ \A n \in 1..Len(PipeNodes) : \A k \in 0..Parallelism(n) - 1 : worker[<<n, k>>] = ThreadGone
    BY DEF NoLateFrame
  <2>1. joinNode = 4
    BY NodeFacts DEF StopOrder
  <2>2. asked = <<>> /\ \A n \in 1..Len(PipeNodes) : \A k \in 0..Parallelism(n) - 1 : worker[<<n, k>>] = ThreadGone
    BY <2>1, NodeFacts DEF StopOrder
  <2>3. CASE NeverRan
    BY <2>2, <2>3 DEF NeverRan
  <2>4. CASE \A s \in Streams : ~sourceOn[s]
    <3>1. ASSUME NEW s \in Streams PROVE decoding[s].q = <<>> /\ eos_send_[s]
      <4>1. DecoderEnds(decoding[s], HasEnd(s, Places(s)), sourceOn[s]) /\ (decoding[s].eos => eos_send_[s])
        BY DEF SourcesEnd
      <4> QED
        BY <2>4, <4>1 DEF DecoderEnds
    <3> QED
      BY <2>2, <3>1
  <2> QED
    BY <2>3, <2>4 DEF StopOrder
<1>6. EndNoticed
  <2> SUFFICES ASSUME \A s \in Streams : ~sourceOn[s],
                      \A n \in 1..Len(PipeNodes) : \A k \in 0..Parallelism(n) - 1 :
                        worker[<<n, k>>] = AtLoop /\ frameQueue[<<n, k>>] = <<>>,
                      asked = <<>>, NEW s \in Streams
               PROVE  sinkMap[s] # "on"
    BY DEF EndNoticed, PipelineEnded
  <2>1. PICK P \in PlaceLists, l \in {0, 1} :
               /\ P = Places(s) /\ l = Lane(s) /\ l \in 0..Parallelism(1) - 1
               /\ P[1] = frameQueue[<<1, l>>] /\ P[2] = InHand(1, l) /\ P[3] = asked
               /\ P[4] = frameQueue[<<2, 0>>] /\ P[5] = InHand(2, 0)
               /\ P[6] = frameQueue[<<3, 0>>] /\ P[7] = InHand(3, 0) /\ P[8] = encodedBy[s]
               /\ Line(s, P, frame_count_[s], givenUp)
    BY <1>1
  <2>2. /\ worker[<<1, l>>] = AtLoop /\ frameQueue[<<1, l>>] = <<>>
        /\ worker[<<2, 0>>] = AtLoop /\ frameQueue[<<2, 0>>] = <<>>
        /\ worker[<<3, 0>>] = AtLoop /\ frameQueue[<<3, 0>>] = <<>>
    <3>1. 1 \in 1..Len(PipeNodes) /\ 2 \in 1..Len(PipeNodes) /\ 3 \in 1..Len(PipeNodes)
      BY NodeFacts
    <3>2. 0 \in 0..Parallelism(2) - 1 /\ 0 \in 0..Parallelism(3) - 1
      BY NodeFacts
    <3> QED
      BY <2>1, <3>1, <3>2
  <2>3. InHand(1, l) = <<>> /\ InHand(2, 0) = <<>> /\ InHand(3, 0) = <<>>
    BY <2>2, StateFacts DEF InHand
  <2>4. Elems(<<>>) = {}
    BY DEF Elems
  <2>5. /\ Elems(P[1]) = {} /\ Elems(P[2]) = {} /\ Elems(P[3]) = {} /\ Elems(P[4]) = {}
        /\ Elems(P[5]) = {} /\ Elems(P[6]) = {} /\ Elems(P[7]) = {}
    BY <2>1, <2>2, <2>3, <2>4
  <2>6. HasEnd(s, P)
    <3>1. DecoderEnds(decoding[s], HasEnd(s, Places(s)), sourceOn[s]) /\ ~sourceOn[s]
      BY DEF SourcesEnd
    <3> QED
      BY <2>1, <3>1 DEF DecoderEnds
  <2>7. EndEncoded(s)
    <3>1. PICK p \in 1..LastPlace : \E f \in Elems(P[p]) : f.is_eos
      BY <2>6 DEF HasEnd
    <3>2. p = 8
      BY <2>5, <3>1 DEF LastPlace
    <3> QED
      BY <2>1, <3>1, <3>2 DEF EndEncoded
  <2> QED
    BY <2>2, <2>7, StateFacts DEF SinkKnows
<1> QED
  BY <1>3, <1>4, <1>5, <1>6 DEF PipelineCorrect

\* EasyPipeline: whatever the number of streams and the length of their files,
\* with either module of inference, the frames of a stream reach the encoder in
\* the order of its decoder and its end last, WaitForStop lets the threads go
\* only when every stream the sink has seen is encoded but for the frames given
\* up, it notices the end, and nobody pushes a frame once ~EasyPipeline deleted
\* the queues.
THEOREM PipelineIsCorrect == PipelineSpec => []PipelineCorrect
<1>1. PipelineInit => PipelineInv
  BY PipelineInitInv
<1>2. PipelineInv /\ [PipelineNext]_pipelineVars => PipelineInv'
  BY PipelineStep
<1>3. PipelineInv => PipelineCorrect
  BY InvIsCorrect
<1> QED
  BY <1>1, <1>2, <1>3, PTL DEF PipelineSpec

-----------------------------------------------------------------------------
(* Osd: a side of a box *)

LEMMA EvenFacts ==
  ASSUME NEW x \in Nat
  PROVE  Even(x) \in Nat /\ Even(x) <= x /\ \E a \in Nat : Even(x) = 2 * a
<1>1. PICK a \in Nat, r \in 0 .. 1 : x = 2 * a + r /\ x % 2 = r
  <2>1. x \div 2 \in Nat /\ x % 2 \in 0 .. 1 /\ x = 2 * (x \div 2) + (x % 2)
    OBVIOUS
  <2> QED
    BY <2>1
<1>2. Even(x) = 2 * a
  BY <1>1 DEF Even
<1> QED
  BY <1>1, <1>2

\* The loop that shrinks a side ends at the first width that fits.
LEMMA ShrunkInside ==
  ASSUME NEW a \in Nat, NEW c \in Nat, NEW width \in Nat, width < OsdMod, 2 * a < width, 2 * a + 2 * c < OsdMod
  PROVE  Shrunk(2 * a, 2 * c, width) \in Nat /\ 2 * a + Shrunk(2 * a, 2 * c, width) <= width - 1
<1>0. PICK M \in Nat : M = OsdMod
  BY OsdConstants
<1>1. PICK v \in Nat : v = 2 * a + 2 * c
  OBVIOUS
<1>2. ASSUME NEW k \in Nat, 2 * k <= v PROVE (2 * a + 2 * c - 2 * k) % M = v - 2 * k
  <2>1. v - 2 * k \in Nat /\ v - 2 * k < M /\ 2 * a + 2 * c - 2 * k = v - 2 * k
    BY <1>0, <1>1, <1>2
  <2>2. PICK y \in Nat : y = v - 2 * k
    BY <2>1
  <2>3. y % M = y
    BY <2>1, <2>2, ModSmall
  <2> QED
    BY <2>1, <2>2, <2>3
<1>3. PICK K \in Nat : /\ K <= c /\ v - 2 * K < width /\ \A j \in Nat : j < K => v - 2 * j >= width
  <2>1. CASE v < width
    BY <2>1
  <2>2. CASE v >= width
    <3>1. PICK e \in Nat : e = (v - width) \div 2 /\ 2 * e <= v - width /\ v - width < 2 * e + 2
      <4>1. PICK d \in Nat : d = v - width
        BY <2>2
      <4>2. d \div 2 \in Nat /\ 2 * (d \div 2) <= d /\ d < 2 * (d \div 2) + 2
        OBVIOUS
      <4> QED
        BY <4>1, <4>2
    <3>2. e + 1 \in Nat /\ v - 2 * (e + 1) < width
      BY <3>1
    <3>3. e + 1 <= c
      BY <1>1, <3>1
    <3>4. \A j \in Nat : j < e + 1 => v - 2 * j >= width
      BY <3>1
    <3> QED
      BY <3>2, <3>3, <3>4
  <2> QED
    BY <2>1, <2>2
<1> DEFINE Stop(k) == /\ (2 * a + 2 * c - 2 * k) % OsdMod < width
                      /\ \A j \in 0 .. (k - 1) : (2 * a + 2 * c - 2 * j) % OsdMod >= width
<1>4. K \in 0 .. (OsdMod \div 2)
  <2>1. 2 * K < M
    BY <1>0, <1>1, <1>3
  <2>2. K <= M \div 2
    BY <2>1
  <2> QED
    BY <1>0, <2>2
<1>5. Stop(K)
  <2>1. (2 * a + 2 * c - 2 * K) % M < width
    <3>1. 2 * K <= v
      BY <1>1, <1>3
    <3> QED
      BY <1>2, <1>3, <3>1
  <2>2. ASSUME NEW j \in 0 .. (K - 1) PROVE (2 * a + 2 * c - 2 * j) % M >= width
    <3>1. j \in Nat /\ j < K /\ 2 * j <= v
      BY <1>1, <1>3
    <3> QED
      BY <1>2, <1>3, <3>1
  <2> QED
    BY <1>0, <2>1, <2>2
<1>6. ASSUME NEW k \in 0 .. (OsdMod \div 2), Stop(k) PROVE k = K
  <2>0. k \in Nat
    BY <1>0
  <2>1. ASSUME k < K PROVE FALSE
    <3>1. 2 * k <= v /\ v - 2 * k >= width
      BY <1>1, <1>3, <2>0, <2>1
    <3>2. (2 * a + 2 * c - 2 * k) % M = v - 2 * k
      BY <1>2, <2>0, <3>1
    <3> QED
      BY <1>0, <1>6, <3>1, <3>2
  <2>2. ASSUME K < k PROVE FALSE
    <3>1. K \in 0 .. (k - 1) /\ 2 * K <= v
      BY <1>1, <1>3, <2>0, <2>2
    <3>2. (2 * a + 2 * c - 2 * K) % M = v - 2 * K
      BY <1>2, <3>1
    <3>3. (2 * a + 2 * c - 2 * K) % M >= width
      BY <1>0, <1>6, <3>1
    <3> QED
      BY <1>3, <3>2, <3>3
  <2> QED
    BY <2>0, <2>1, <2>2
<1>7. (CHOOSE k \in 0 .. (OsdMod \div 2) : Stop(k)) = K
  <2> HIDE DEF Stop
  <2> QED
    BY <1>4, <1>5, <1>6
<1>8. Shrunk(2 * a, 2 * c, width) = (2 * c - 2 * K) % M
  BY <1>0, <1>7 DEF Shrunk
<1>9. (2 * c - 2 * K) % M = 2 * c - 2 * K
  <2>0. 2 * c - 2 * K \in Nat /\ 2 * c - 2 * K < M
    <3>1. 2 * c < M /\ 2 * K <= 2 * c /\ 2 * c \in Nat /\ 2 * K \in Nat
      BY <1>0, <1>3
    <3>2. \A d, e \in Nat : d < M /\ e <= d => d - e \in Nat /\ d - e < M
      OBVIOUS
    <3> QED
      BY <3>1, <3>2
  <2>1. PICK y \in Nat : y = 2 * c - 2 * K /\ y < M
    BY <2>0
  <2>2. y % M = y
    BY <2>1, ModSmall
  <2> QED
    BY <2>1, <2>2
<1> QED
  BY <1>1, <1>3, <1>8, <1>9

\* A box that starts on the frame and does not wrap is drawn inside of it.
LEMMA SideInside ==
  ASSUME NEW b1 \in Nat, NEW bw \in Nat, NEW width \in Nat, width < OsdMod
  PROVE  Inside(b1, bw, Even(b1), Shrunk(Even(b1), Even(bw), width), width)
<1> SUFFICES ASSUME b1 < width, b1 + bw < OsdMod
             PROVE  Even(b1) + Shrunk(Even(b1), Even(bw), width) <= width - 1
  BY DEF Inside
<1>0. PICK M \in Nat : M = OsdMod
  BY OsdConstants
<1>1. PICK a \in Nat : Even(b1) = 2 * a /\ 2 * a <= b1
  BY EvenFacts
<1>2. PICK c \in Nat : Even(bw) = 2 * c /\ 2 * c <= bw
  BY EvenFacts
<1>3. 2 * a < width /\ 2 * a + 2 * c < OsdMod
  BY <1>0, <1>1, <1>2
<1>4. 2 * a + Shrunk(2 * a, 2 * c, width) <= width - 1
  BY <1>3, ShrunkInside
<1> QED
  BY <1>1, <1>2, <1>4

-----------------------------------------------------------------------------
(* Osd: the plan *)

LEMMA RectsFacts ==
  ASSUME todo \in Seq(Boxes), NEW color
  PROVE  /\ Rects(color) \in Seq(DOMAIN todo) /\ Distinct(Rects(color))
         /\ Elems(Rects(color)) = {i \in DOMAIN todo : todo[i].color = color /\ ~Empty(todo[i])}
<1>1. PICK n \in Nat : n = Len(todo) /\ DOMAIN todo = 1 .. n
  OBVIOUS
<1>2. PICK all \in Seq(DOMAIN todo) : all = [i \in DOMAIN todo |-> i] /\ Elems(all) = DOMAIN todo /\ Distinct(all)
  <2> DEFINE f == [i \in 1 .. n |-> i]
  <2>1. f \in Seq(1 .. n) /\ Elems(f) = 1 .. n /\ Distinct(f)
    BY DEF Elems, Distinct
  <2> QED
    BY <1>1, <2>1
<1>3. PICK gone : gone = {i \in DOMAIN todo : todo[i].color # color \/ Empty(todo[i])}
  OBVIOUS
<1>4. /\ Without(all, gone) \in Seq(DOMAIN todo) /\ Distinct(Without(all, gone))
      /\ Elems(Without(all, gone)) = Elems(all) \ gone
  BY <1>2, WithoutProperties
<1>5. Rects(color) = Without(all, gone)
  BY <1>2, <1>3 DEF Rects
<1>6. Elems(all) \ gone = {i \in DOMAIN todo : todo[i].color = color /\ ~Empty(todo[i])}
  BY <1>2, <1>3
<1> QED
  BY <1>4, <1>5, <1>6

\* The boxes of one colour.
LEMMA BatchesFacts ==
  ASSUME todo \in Seq(Boxes), NEW k \in DOMAIN Colors
  PROVE  /\ BatchesOf(k) \in Seq(Seq(DOMAIN todo)) /\ Scattered(BatchesOf(k))
         /\ Contents(BatchesOf(k)) = {i \in DOMAIN todo : todo[i].color = Colors[k] /\ ~Empty(todo[i])}
         /\ \A q \in Elems(BatchesOf(k)) : Len(q) \in 1 .. MaxOsdNum
<1>1. PICK B \in Nat : B = MaxOsdNum /\ B > 0
  BY OsdConstants
<1>0. PICK T : T = DOMAIN todo
  OBVIOUS
<1>2. PICK s \in Seq(T) : /\ s = Rects(Colors[k]) /\ Distinct(s)
                          /\ Elems(s) = {i \in DOMAIN todo : todo[i].color = Colors[k] /\ ~Empty(todo[i])}
  BY <1>0, RectsFacts
<1>3. PICK p : p = BatchesOf(k)
  OBVIOUS
<1>4. p = Parts(s, B)
  BY <1>1, <1>2, <1>3 DEF BatchesOf, Batched
<1>5. p \in Seq(Seq(T)) /\ Contents(p) = Elems(s) /\ Scattered(p) /\ \A q \in Elems(p) : Len(q) \in 1 .. B
  BY <1>1, <1>2, <1>4, PartsFacts
<1> QED
  BY <1>0, <1>1, <1>2, <1>3, <1>5

\* All batches of a call.
LEMMA PlanFacts ==
  ASSUME todo \in Seq(Boxes)
  PROVE  /\ Plan \in Seq(Seq(DOMAIN todo)) /\ Scattered(Plan) /\ Contents(Plan) = Wanted
         /\ \A q \in Elems(Plan) : /\ Len(q) \in 1 .. MaxOsdNum
                                   /\ \A i, j \in Elems(q) : todo[i].color = todo[j].color
<1>1. PICK T : T = Seq(DOMAIN todo)
  OBVIOUS
<1>2. PICK P : P = [k \in DOMAIN Colors |-> BatchesOf(k)]
  OBVIOUS
<1>3. PICK n \in Nat : DOMAIN Colors = 1 .. n
  BY OsdConstants
<1>4. DOMAIN P = DOMAIN Colors /\ \A k \in DOMAIN P : P[k] = BatchesOf(k)
  BY <1>2
<1>5. ASSUME NEW k \in DOMAIN P
      PROVE  /\ P[k] \in Seq(T) /\ Scattered(P[k])
             /\ Contents(P[k]) = {i \in DOMAIN todo : todo[i].color = Colors[k] /\ ~Empty(todo[i])}
             /\ \A q \in Elems(P[k]) : Len(q) \in 1 .. MaxOsdNum
  BY <1>1, <1>4, BatchesFacts
<1>6. P \in Seq(Seq(T))
  <2>1. P \in [1 .. n -> Seq(T)]
    BY <1>2, <1>3, <1>4, <1>5
  <2> QED
    BY <2>1
<1>7. ASSUME NEW k \in DOMAIN P, NEW q \in Elems(P[k]), NEW x \in Elems(q)
      PROVE  x \in DOMAIN todo /\ todo[x].color = Colors[k] /\ ~Empty(todo[x])
  <2>1. x \in Contents(P[k])
    BY ContentsOf
  <2> QED
    BY <1>5, <2>1
<1>8. ASSUME NEW k \in DOMAIN P, NEW l \in DOMAIN P, NEW q \in Elems(P[k]), NEW r \in Elems(P[l]),
             NEW x \in Elems(q), x \in Elems(r)
      PROVE  k = l /\ q = r
  <2>1. Colors[k] = Colors[l]
    BY <1>7, <1>8
  <2>2. k = l
    BY <1>4, <2>1, OsdConstants DEF Distinct
  <2> QED
    BY <1>5, <1>8, <2>2, ListOfElement
<1>9. ASSUME NEW k \in DOMAIN P, NEW q \in Elems(P[k]) PROVE q \in T /\ 1 \in DOMAIN q /\ q[1] \in Elems(q) /\ Distinct(q)
  <2>1. PICK m \in DOMAIN P[k] : q = P[k][m]
    BY DEF Elems
  <2>2. q \in T
    BY <1>5, <2>1
  <2>3. 1 \in DOMAIN q
    BY <1>1, <1>5, <2>2, OsdConstants
  <2>4. Distinct(q)
    BY <1>5, <2>1, OneOfLists
  <2> QED
    BY <2>2, <2>3, <2>4 DEF Elems
<1>10. Scattered(P)
  <2> SUFFICES ASSUME NEW k \in DOMAIN P, NEW l \in DOMAIN P, NEW m \in DOMAIN P[k], NEW o \in DOMAIN P[l], P[k][m] = P[l][o]
               PROVE  k = l /\ m = o
    BY DEF Scattered
  <2>1. PICK q : q = P[k][m] /\ q \in Elems(P[k]) /\ q \in Elems(P[l])
    BY DEF Elems
  <2>2. q[1] \in Elems(q) /\ 1 \in DOMAIN q
    BY <1>9, <2>1
  <2>3. k = l
    BY <1>8, <2>1, <2>2
  <2>4. Scattered(P[k]) /\ 1 \in DOMAIN P[k][m] /\ 1 \in DOMAIN P[k][o] /\ P[k][m][1] = P[k][o][1]
    BY <1>5, <2>1, <2>2, <2>3
  <2>5. m = o
    BY <2>3, <2>4, Zenon DEF Scattered
  <2> QED
    BY <2>3, <2>5
<1>11. PICK p \in Seq(T) : p = Plan /\ Elems(p) = Contents(P) /\ Distinct(p)
  <2>1. Plan = Flat(P)
    BY <1>2 DEF Plan
  <2> QED
    BY <1>6, <1>10, <2>1, FlatProperties
<1>12. ASSUME NEW q \in Elems(p) PROVE \E k \in DOMAIN P : q \in Elems(P[k])
  BY <1>11 DEF Contents
<1>13. Scattered(p)
  <2> SUFFICES ASSUME NEW k \in DOMAIN p, NEW l \in DOMAIN p, NEW m \in DOMAIN p[k], NEW o \in DOMAIN p[l], p[k][m] = p[l][o]
               PROVE  k = l /\ m = o
    BY DEF Scattered
  <2>1. p[k] \in Elems(p) /\ p[l] \in Elems(p) /\ p[k][m] \in Elems(p[k]) /\ p[k][m] \in Elems(p[l])
    BY DEF Elems
  <2>2. PICK c \in DOMAIN P, d \in DOMAIN P : p[k] \in Elems(P[c]) /\ p[l] \in Elems(P[d])
    BY <1>12, <2>1
  <2>3. p[k] = p[l]
    BY <1>8, <2>1, <2>2
  <2>4. k = l
    BY <1>11, <2>3 DEF Distinct
  <2>5. Distinct(p[k])
    BY <1>9, <2>2
  <2>6. m = o
    BY <2>4, <2>5 DEF Distinct
  <2> QED
    BY <2>4, <2>6
<1>14. Contents(p) = Wanted
  <2>1. ASSUME NEW x \in Contents(p) PROVE x \in Wanted
    <3>1. PICK q \in Elems(p) : x \in Elems(q)
      BY ContentsOf
    <3>2. PICK k \in DOMAIN P : q \in Elems(P[k])
      BY <1>12
    <3> QED
      BY <1>7, <3>1, <3>2 DEF Wanted
  <2>2. ASSUME NEW x \in Wanted PROVE x \in Contents(p)
    <3>1. x \in DOMAIN todo /\ todo[x] \in Boxes /\ ~Empty(todo[x])
      BY DEF Wanted
    <3>2. PICK k \in DOMAIN P : todo[x].color = Colors[k]
      <4>1. todo[x].color \in Elems(Colors)
        BY <3>1, OsdConstants
      <4> QED
        BY <1>4, <4>1 DEF Elems
    <3>3. x \in Contents(P[k])
      BY <1>5, <3>1, <3>2
    <3>4. PICK q \in Elems(P[k]) : x \in Elems(q)
      BY <3>3, ContentsOf
    <3>5. q \in Elems(p)
      BY <1>11, <3>4 DEF Contents
    <3> QED
      BY <3>4, <3>5, ContentsOf
  <2> QED
    BY <2>1, <2>2
<1>15. ASSUME NEW q \in Elems(p)
       PROVE  Len(q) \in 1 .. MaxOsdNum /\ \A i, j \in Elems(q) : todo[i].color = todo[j].color
  <2>1. PICK k \in DOMAIN P : q \in Elems(P[k])
    BY <1>12
  <2> QED
    BY <1>5, <1>7, <2>1
<1> QED
  BY <1>1, <1>11, <1>13, <1>14, <1>15

-----------------------------------------------------------------------------
(* Osd: every step keeps the invariant *)

LEMMA OsdStart == OsdInit => OsdInv
<1> SUFFICES ASSUME OsdInit PROVE OsdInv
  OBVIOUS
<1>1. todo = <<>> /\ batches = <<>> /\ osd = "idle"
  BY DEF OsdInit
<1>2. <<>> \in Seq(Boxes) /\ <<>> \in Seq(Elems(Plan)) /\ Len(<<>>) = 0 /\ DOMAIN <<>> = {}
  OBVIOUS
<1>3. todo \in Seq(Boxes)
  BY <1>1, <1>2
<1>4. PICK n \in Nat : n = Len(Plan)
  BY <1>3, PlanFacts
<1> QED
  BY <1>1, <1>2, <1>4 DEF OsdInv

\* A new call.
LEMMA PlanTyped == todo \in Seq(Boxes) => Plan \in Seq(Seq(DOMAIN todo))
  BY PlanFacts

LEMMA OsdCallStep ==
  ASSUME NEW s \in Seq(Boxes), todo' = s, batches' = <<>>, osd' \in {"drawing", "refused"}
  PROVE  OsdInv'
<1>1. todo' \in Seq(Boxes)
  OBVIOUS
<1>2. Plan' \in Seq(Seq(DOMAIN todo'))
  <2>1. (todo \in Seq(Boxes) => Plan \in Seq(Seq(DOMAIN todo)))'
    BY PlanTyped, PTL
  <2> QED
    BY <1>1, <2>1
<1>3. PICK P \in Seq(Seq(DOMAIN todo')) : P = Plan'
  BY <1>2
<1>4. <<>> \in Seq(Elems(P)) /\ Len(<<>>) = 0 /\ DOMAIN <<>> = {} /\ Len(P) \in Nat
  OBVIOUS
<1> QED
  BY <1>1, <1>3, <1>4 DEF OsdInv

LEMMA PlanKept == todo' = todo => Plan' = Plan
  BY DEF Plan, BatchesOf, Batched, Rects

LEMMA OsdStep == OsdInv /\ [OsdNext]_osdVars => OsdInv'
<1> SUFFICES ASSUME OsdInv, [OsdNext]_osdVars PROVE OsdInv'
  OBVIOUS
<1>0. PICK P \in Seq(Seq(DOMAIN todo)) : P = Plan
  BY PlanFacts DEF OsdInv
<1>1. /\ todo \in Seq(Boxes) /\ batches \in Seq(Elems(P)) /\ Len(batches) <= Len(P)
      /\ \A k \in DOMAIN batches : batches[k] = P[k]
      /\ osd \in {"idle", "drawing", "done", "failed", "refused"} /\ (osd = "done" => Len(batches) = Len(P))
  BY <1>0 DEF OsdInv
<1>2. ASSUME todo' = todo PROVE Plan' = P
  BY <1>0, <1>2, PlanKept
<1>3. ASSUME NEW n \in 0 .. MaxBoxes, NEW s \in [1 .. n -> Boxes], DrawRect(s) PROVE OsdInv'
  <2>1. s \in Seq(Boxes)
    BY OsdConstants
  <2> QED
    BY <1>3, <2>1, OsdCallStep DEF DrawRect
<1>4. ASSUME NEW b \in Boxes, Refuse(<<b>>) PROVE OsdInv'
  <2>0. <<b>> \in Seq(Boxes)
    OBVIOUS
  <2>1. PICK s \in Seq(Boxes) : s = <<b>>
    BY <2>0
  <2> QED
    BY <1>4, <2>1, OsdCallStep DEF Refuse
<1>5. ASSUME Submit PROVE OsdInv'
  <2>1. todo' = todo /\ osd' = osd /\ osd = "drawing" /\ Len(batches) < Len(P)
    BY <1>0, <1>5 DEF Submit
  <2>5. PICK n \in Nat : n = Len(batches) /\ n + 1 \in DOMAIN P
    BY <1>1, <2>1
  <2>6. PICK q \in Elems(P) : q = P[n + 1]
    BY <2>5 DEF Elems
  <2>2. n = Len(batches) /\ q = P[n + 1] /\ batches' = Append(batches, q)
    BY <1>0, <1>5, <2>5, <2>6 DEF Submit
  <2>3. batches' \in Seq(Elems(P)) /\ Len(batches') = n + 1 /\ DOMAIN batches' = 1 .. (n + 1) /\ DOMAIN batches = 1 .. n
    BY <1>1, <2>2
  <2>7. ASSUME NEW k \in 1 .. n PROVE batches'[k] = batches[k]
    BY <1>1, <2>2
  <2>8. batches'[n + 1] = q
    BY <1>1, <2>2
  <2>4. ASSUME NEW k \in 1 .. (n + 1) PROVE batches'[k] = P[k]
    <3>1. CASE k \in 1 .. n
      BY <1>1, <2>3, <2>7, <3>1
    <3>2. CASE k = n + 1
      BY <2>2, <2>8, <3>2
    <3> QED
      BY <3>1, <3>2
  <2> QED
    BY <1>0, <1>1, <1>2, <2>1, <2>2, <2>3, <2>4 DEF OsdInv
<1>6. ASSUME SubmitFails PROVE OsdInv'
  BY <1>1, <1>2, <1>6 DEF SubmitFails, OsdInv
<1>7. ASSUME Drawn PROVE OsdInv'
  BY <1>0, <1>1, <1>2, <1>7 DEF Drawn, OsdInv
<1>8. ASSUME UNCHANGED osdVars PROVE OsdInv'
  BY <1>1, <1>2, <1>8 DEF osdVars, OsdInv
<1> QED
  BY <1>3, <1>4, <1>5, <1>6, <1>7, <1>8 DEF OsdNext

LEMMA OsdInvDrawn == OsdInv => BoxesDrawn
<1> SUFFICES ASSUME OsdInv PROVE BoxesDrawn
  OBVIOUS
<1>0. PICK P \in Seq(Seq(DOMAIN todo)) : P = Plan
  BY PlanFacts DEF OsdInv
<1>1. /\ todo \in Seq(Boxes) /\ batches \in Seq(Elems(P)) /\ Len(batches) <= Len(P)
      /\ \A k \in DOMAIN batches : k \in DOMAIN P /\ batches[k] = P[k]
      /\ (osd = "done" => Len(batches) = Len(P))
  <2>1. /\ todo \in Seq(Boxes) /\ batches \in Seq(Elems(P)) /\ Len(batches) <= Len(P)
        /\ \A k \in DOMAIN batches : batches[k] = P[k]
        /\ (osd = "done" => Len(batches) = Len(P))
    BY <1>0 DEF OsdInv
  <2>2. \A k \in DOMAIN batches : k \in DOMAIN P
    BY <2>1
  <2> QED
    BY <2>1, <2>2
<1>2. /\ Scattered(P) /\ Contents(P) = Wanted
      /\ \A q \in Elems(P) : /\ Len(q) \in 1 .. MaxOsdNum
                             /\ \A i, j \in Elems(q) : todo[i].color = todo[j].color
  BY <1>0, <1>1, PlanFacts
<1>3. Elems(batches) \subseteq Elems(P)
  BY <1>1 DEF Elems
<1>4. Contents(batches) \subseteq Wanted
  BY <1>2, <1>3, ContentsOf
<1>5. Scattered(batches)
  <2> SUFFICES ASSUME NEW k \in DOMAIN batches, NEW l \in DOMAIN batches,
                      NEW m \in DOMAIN batches[k], NEW n \in DOMAIN batches[l], batches[k][m] = batches[l][n]
               PROVE  k = l /\ m = n
    BY DEF Scattered
  <2>1. k \in DOMAIN P /\ l \in DOMAIN P /\ m \in DOMAIN P[k] /\ n \in DOMAIN P[l] /\ P[k][m] = P[l][n]
    BY <1>1
  <2> QED
    BY <1>2, <2>1 DEF Scattered
<1>6. ASSUME osd = "done" PROVE Contents(batches) = Wanted
  <2>1. DOMAIN batches = DOMAIN P
    BY <1>1, <1>6
  <2>2. Elems(batches) = Elems(P)
    BY <1>1, <2>1 DEF Elems
  <2>3. \A x : x \in Contents(batches) <=> x \in Contents(P)
    BY <2>2, ContentsOf
  <2> QED
    BY <1>2, <2>3
<1>7. DrawnOnce
  BY <1>2, <1>3, <1>4, <1>5, <1>6 DEF DrawnOnce
<1>8. DrawnInside
  <2> SUFFICES ASSUME NEW i \in Contents(batches)
               PROVE  /\ Inside(todo[i].x, todo[i].w, RectOf(todo[i]).x, RectOf(todo[i]).w, FrameW)
                      /\ Inside(todo[i].y, todo[i].h, RectOf(todo[i]).y, RectOf(todo[i]).h, FrameH)
    BY DEF DrawnInside
  <2>1. PICK b \in Boxes : b = todo[i]
    BY <1>1, <1>4 DEF Wanted
  <2>2. b.x \in Nat /\ b.y \in Nat /\ b.w \in Nat /\ b.h \in Nat
    BY OsdConstants
  <2>3. FrameW \in Nat /\ FrameH \in Nat /\ FrameW < OsdMod /\ FrameH < OsdMod
    BY OsdConstants
  <2>4. /\ RectOf(b).x = Even(b.x) /\ RectOf(b).w = Shrunk(Even(b.x), Even(b.w), FrameW)
        /\ RectOf(b).y = Even(b.y) /\ RectOf(b).h = Shrunk(Even(b.y), Even(b.h), FrameH)
    BY DEF RectOf
  <2>5. Inside(b.x, b.w, Even(b.x), Shrunk(Even(b.x), Even(b.w), FrameW), FrameW)
    BY <2>2, <2>3, SideInside
  <2>6. Inside(b.y, b.h, Even(b.y), Shrunk(Even(b.y), Even(b.h), FrameH), FrameH)
    BY <2>2, <2>3, SideInside
  <2> QED
    BY <2>1, <2>4, <2>5, <2>6
<1> QED
  BY <1>7, <1>8 DEF BoxesDrawn

\* MpsService::OsdDrawBboxes draws every box of a call that has a size once, in a
\* batch of its colour that the hardware takes, and inside of the frame when the box
\* starts on it and has no negative size; when the call returns 0, it drew all.
THEOREM BoxesAreDrawn == OsdSpec => []BoxesDrawn
<1>1. OsdInit => OsdInv
  BY OsdStart
<1>2. OsdInv /\ [OsdNext]_osdVars => OsdInv'
  BY OsdStep
<1>3. OsdInv => BoxesDrawn
  BY OsdInvDrawn
<1> QED
  BY <1>1, <1>2, <1>3, PTL DEF OsdSpec

-----------------------------------------------------------------------------
(* Surface: layouts, copies and the two views of the data *)

\* Rounding up to an alignment.
LEMMA AlignedUp ==
  ASSUME NEW x \in Nat, NEW a \in Alignments
  PROVE  /\ AlignUp(x, a) \in Nat /\ x <= AlignUp(x, a)
         /\ \A y \in Nat : y <= x => AlignUp(y, a) <= AlignUp(x, a)
         /\ x = 0 => AlignUp(x, a) = 0
<1>1. CASE a = 1
  BY <1>1 DEF AlignUp
<1>2. CASE a = 4
  BY <1>2 DEF AlignUp
<1>3. CASE a = 16
  BY <1>3 DEF AlignUp
<1>4. CASE a = 64
  BY <1>4 DEF AlignUp
<1> QED
  BY <1>1, <1>2, <1>3, <1>4 DEF Alignments

\* Products of numbers.
LEMMA LargerProduct ==
  ASSUME NEW a \in Nat, NEW b \in Nat, NEW c \in Nat, b <= c
  PROVE  a * b \in Nat /\ a * b <= a * c /\ b * a <= c * a
OBVIOUS

LEMMA PlaneCount == \A f : NumPlanes(f) \in 0 .. 3 /\ BytesPerPix(f) \in 1 .. 4
BY DEF NumPlanes, BytesPerPix

LEMMA PlaneSizes ==
  ASSUME NEW f, NEW w \in Nat, NEW h \in Nat, NEW i \in 0 .. 2
  PROVE  /\ PlaneWidth(f, w, i) \in Nat /\ PlaneWidth(f, w, i) <= w
         /\ PlaneHeight(h, i) \in Nat /\ PlaneHeight(h, i) <= h
BY DEF PlaneWidth, PlaneHeight

\* The planes GetColorFormatInfo gives, one by one.
GivenPlane(L, f, w, h, aw, ah, i) ==
  /\ L.width[i] = PlaneWidth(f, w, i) /\ L.height[i] = PlaneHeight(h, i)
  /\ L.bytes_per_pix[i] = BytesPerPix(f)
  /\ L.pitch[i] = AlignUp(L.width[i] * BytesPerPix(f), aw)
  /\ L.psize[i] = L.pitch[i] * AlignUp(L.height[i], ah)
  /\ L.offset[i] = PlaneOffset(L.psize, i)

LEMMA PlanesGiven ==
  ASSUME NEW f, NEW w \in Nat, NEW h \in Nat, NEW aw \in Alignments, NEW ah \in Alignments,
         NEW L, L = GetColorFormatInfo(f, w, h, aw, ah)
  PROVE  /\ L.num_planes = NumPlanes(f) /\ L.num_planes \in 0 .. 3
         /\ \A i \in 0 .. 2 : i < L.num_planes => GivenPlane(L, f, w, h, aw, ah, i)
<1> DEFINE in(i) == i < NumPlanes(f)
<1>0. NumPlanes(f) \in 0 .. 3
  BY PlaneCount
<1>1. /\ L.num_planes = NumPlanes(f)
      /\ L.width = [i \in 0 .. 2 |-> IF in(i) THEN PlaneWidth(f, w, i) ELSE 0]
      /\ L.height = [i \in 0 .. 2 |-> IF in(i) THEN PlaneHeight(h, i) ELSE 0]
      /\ L.bytes_per_pix = [i \in 0 .. 2 |-> IF in(i) THEN BytesPerPix(f) ELSE 0]
      /\ L.pitch = [i \in 0 .. 2 |-> IF in(i) THEN AlignUp(PlaneWidth(f, w, i) * BytesPerPix(f), aw) ELSE 0]
      /\ L.psize = [i \in 0 .. 2 |-> IF in(i) THEN L.pitch[i] * AlignUp(PlaneHeight(h, i), ah) ELSE 0]
      /\ L.offset = [i \in 0 .. 2 |-> IF in(i) THEN PlaneOffset(L.psize, i) ELSE 0]
  BY DEF GetColorFormatInfo
<1> HIDE DEF in
<1>2. ASSUME NEW i \in 0 .. 2, in(i)
      PROVE  GivenPlane(L, f, w, h, aw, ah, i)
  BY <1>1, <1>2 DEF GivenPlane
<1> QED
  BY <1>0, <1>1, <1>2 DEF in

LEMMA PlanesAbsent ==
  ASSUME NEW f, NEW w \in Nat, NEW h \in Nat, NEW aw \in Alignments, NEW ah \in Alignments,
         NEW L, L = GetColorFormatInfo(f, w, h, aw, ah), NEW i \in 0 .. 2, L.num_planes <= i
  PROVE  L.psize[i] = 0
<1>1. L.num_planes = NumPlanes(f) /\ NumPlanes(f) \in 0 .. 3
  BY PlaneCount DEF GetColorFormatInfo
<1>2. ~(i < NumPlanes(f))
  BY <1>1
<1>3. L.psize = [n \in 0 .. 2 |-> IF n < NumPlanes(f) THEN L.pitch[n] * AlignUp(PlaneHeight(h, n), ah) ELSE 0]
  BY DEF GetColorFormatInfo
<1> QED
  BY <1>2, <1>3

\* A plane holds its rows.
LEMMA PlaneFits ==
  ASSUME NEW f, NEW w \in Nat, NEW h \in Nat, NEW aw \in Alignments, NEW ah \in Alignments,
         NEW L, L = GetColorFormatInfo(f, w, h, aw, ah), NEW i \in 0 .. 2
  PROVE  /\ L.psize[i] \in Nat
         /\ i < L.num_planes =>
              /\ {L.width[i], L.height[i], L.pitch[i], L.bytes_per_pix[i]} \subseteq Nat
              /\ L.width[i] * L.bytes_per_pix[i] \in Nat /\ L.width[i] * L.bytes_per_pix[i] <= L.pitch[i]
              /\ L.pitch[i] * L.height[i] <= L.psize[i]
<1>0. L.num_planes \in 0 .. 3 /\ (i < L.num_planes => GivenPlane(L, f, w, h, aw, ah, i))
  <2>1. \A n \in 0 .. 2 : n < L.num_planes => GivenPlane(L, f, w, h, aw, ah, n)
    BY PlanesGiven, Zenon
  <2>2. L.num_planes \in 0 .. 3
    BY PlanesGiven
  <2> QED
    BY <2>1, <2>2
<1>1. CASE ~(i < L.num_planes)
  <2>1. L.num_planes <= i
    BY <1>0, <1>1
  <2> QED
    BY <1>1, <2>1, PlanesAbsent
<1>2. CASE i < L.num_planes
  <2>1. /\ L.width[i] = PlaneWidth(f, w, i) /\ L.height[i] = PlaneHeight(h, i)
        /\ L.bytes_per_pix[i] = BytesPerPix(f)
        /\ L.pitch[i] = AlignUp(L.width[i] * BytesPerPix(f), aw)
        /\ L.psize[i] = L.pitch[i] * AlignUp(L.height[i], ah)
    BY <1>0, <1>2 DEF GivenPlane
  <2>2. L.width[i] \in Nat /\ L.height[i] \in Nat /\ BytesPerPix(f) \in Nat
    BY <2>1, PlaneSizes, PlaneCount
  <2>3. L.width[i] * BytesPerPix(f) \in Nat
    BY <2>2
  <2>4. L.pitch[i] \in Nat /\ L.width[i] * BytesPerPix(f) <= L.pitch[i]
    BY <2>1, <2>3, AlignedUp
  <2>5. AlignUp(L.height[i], ah) \in Nat /\ L.height[i] <= AlignUp(L.height[i], ah)
    BY <2>2, AlignedUp
  <2>6. L.pitch[i] * AlignUp(L.height[i], ah) \in Nat
        /\ L.pitch[i] * L.height[i] <= L.pitch[i] * AlignUp(L.height[i], ah)
    BY <2>2, <2>4, <2>5, LargerProduct
  <2> QED
    BY <2>1, <2>2, <2>3, <2>4, <2>6
<1> QED
  BY <1>1, <1>2

\* A format without planes.
LEMMA NoPlanesGiven ==
  ASSUME NEW w, NEW h, NEW aw, NEW ah
  PROVE  GetColorFormatInfo("INVALID", w, h, aw, ah) = NoPlanes /\ NoPlanes.num_planes = 0
<1> DEFINE zero == [i \in 0 .. 2 |-> 0]
           G(x, y, a, b) == GetColorFormatInfo("INVALID", x, y, a, b)
<1>1. NumPlanes("INVALID") = 0
  BY DEF NumPlanes
<1>2. ASSUME NEW x, NEW y, NEW a, NEW b
      PROVE  G(x, y, a, b) = [num_planes |-> 0, width |-> zero, height |-> zero, bytes_per_pix |-> zero,
                              pitch |-> zero, psize |-> zero, offset |-> zero]
  <2>1. \A i \in 0 .. 2 : ~(i < NumPlanes("INVALID"))
    BY <1>1
  <2> QED
    BY <1>1, <2>1, Zenon DEF GetColorFormatInfo
<1>3. NoPlanes = G(0, 0, 1, 1)
  BY DEF NoPlanes
<1> QED
  BY <1>2, <1>3

\* The planes of a surface, one by one ...
PlaneHolds(r, k) ==
  LET L == r.plane_params IN
  /\ {L.width[k], L.height[k], L.pitch[k], L.psize[k], L.offset[k], L.bytes_per_pix[k]} \subseteq Nat
  /\ L.width[k] * L.bytes_per_pix[k] <= L.pitch[k] /\ L.pitch[k] * L.height[k] <= L.psize[k]
  /\ L.offset[k] + L.psize[k] <= r.data_size

\* ... which are inside an element and apart.
LEMMA LayoutSound ==
  ASSUME NEW r, ShapeTyped(r), LaidOut(r)
  PROVE  LET L == r.plane_params
             P == 0 .. (L.num_planes - 1)
         IN /\ L.num_planes \in 0 .. 3
            /\ \A k \in P : PlaneHolds(r, k)
            /\ \A j, k \in P : j < k => L.offset[j] + L.psize[j] <= L.offset[k]
<1>1. CASE r.plane_params = NoPlanes
  <2>1. r.plane_params.num_planes = 0
    BY <1>1, NoPlanesGiven
  <2> QED
    BY <2>1
<1>2. CASE \E aw, ah \in Alignments :
             r.plane_params = GetColorFormatInfo(r.color_format, r.width, r.height, aw, ah)
             /\ r.data_size = r.plane_params.psize[0] + r.plane_params.psize[1] + r.plane_params.psize[2]
  <2>1. PICK aw \in Alignments, ah \in Alignments :
             r.plane_params = GetColorFormatInfo(r.color_format, r.width, r.height, aw, ah)
             /\ r.data_size = r.plane_params.psize[0] + r.plane_params.psize[1] + r.plane_params.psize[2]
    BY <1>2
  <2>2. PICK f \in ColorFormats, w \in Nat, h \in Nat :
          f = r.color_format /\ w = r.width /\ h = r.height
    BY DEF ShapeTyped
  <2>0. PICK L : L = r.plane_params
    OBVIOUS
  <2>3. L = GetColorFormatInfo(f, w, h, aw, ah)
    BY <2>0, <2>1, <2>2
  <2>4. L.num_planes \in 0 .. 3
    BY <2>3, PlanesGiven
  <2>5. \A i \in 0 .. 2 : L.psize[i] \in Nat
    BY <2>3, PlaneFits
  <2>6. ASSUME NEW k \in 0 .. 2, k < L.num_planes
        PROVE  /\ {L.width[k], L.height[k], L.pitch[k], L.bytes_per_pix[k]} \subseteq Nat
               /\ L.width[k] * L.bytes_per_pix[k] <= L.pitch[k]
               /\ L.pitch[k] * L.height[k] <= L.psize[k]
    BY <2>3, <2>6, PlaneFits
  <2>7. ASSUME NEW k \in 0 .. 2, k < L.num_planes
        PROVE  L.offset[k] = PlaneOffset(L.psize, k)
    <3>1. \A n \in 0 .. 2 : n < L.num_planes => GivenPlane(L, f, w, h, aw, ah, n)
      BY <2>3, PlanesGiven, Zenon
    <3> QED
      BY <2>7, <3>1 DEF GivenPlane
  <2>8. ASSUME NEW k \in 0 .. 2, k < L.num_planes PROVE PlaneHolds(r, k)
    <3>1. L.offset[k] \in Nat /\ L.offset[k] + L.psize[k] <= r.data_size
      BY <2>0, <2>1, <2>2, <2>5, <2>7, <2>8 DEF PlaneOffset
    <3> QED
      BY <2>0, <2>5, <2>6, <2>8, <3>1 DEF PlaneHolds
  <2>9. ASSUME NEW j \in 0 .. 2, NEW k \in 0 .. 2, k < L.num_planes, j < k
        PROVE  L.offset[j] + L.psize[j] <= L.offset[k]
    <3>1. j < L.num_planes
      BY <2>4, <2>9
    <3> QED
      BY <2>5, <2>7, <2>9, <3>1 DEF PlaneOffset
  <2> QED
    BY <2>0, <2>4, <2>8, <2>9
<1> QED
  BY <1>1, <1>2 DEF LaidOut

\* An element ends inside the memory, whatever its number.
LEMMA ElementInside ==
  ASSUME NEW n \in Nat, NEW size \in Nat, NEW i \in 0 .. (n - 1), NEW e \in Int, e <= size
  PROVE  i * size + e <= n * size
<1>1. (i + 1) * size <= n * size
  BY LargerProduct
<1>2. (i + 1) * size = i * size + size
  OBVIOUS
<1> QED
  BY <1>1, <1>2

LEMMA HeightBound ==
  ASSUME NEW f, NEW w \in Nat, NEW h \in Nat, NEW aw \in Alignments, NEW ah \in Alignments,
         NEW L, L = GetColorFormatInfo(f, w, h, aw, ah), NEW i \in 0 .. 2
  PROVE  L.height[i] \in Nat /\ L.height[i] <= h
<1>1. L.height = [n \in 0 .. 2 |-> IF n < NumPlanes(f) THEN PlaneHeight(h, n) ELSE 0]
  BY DEF GetColorFormatInfo
<1> QED
  BY <1>1, PlaneSizes

\* Rows that are copied to the plane before their own end inside the element: the
\* planes before the last hold them, and the last two together unless OddRows.
LEMMA RowsReach ==
  ASSUME NEW f, NEW w \in Nat, NEW h \in Nat, NEW aw \in Alignments, NEW ah \in Alignments,
         NEW L, L = GetColorFormatInfo(f, w, h, aw, ah), NEW k \in 0 .. 2, k < L.num_planes,
         NEW rows \in Nat, 0 < rows, rows <= h, ~(f = "YUV420" /\ h % 2 = 1)
  PROVE  L.offset[StartPlane(k)] + (rows - 1) * L.pitch[k] + PlaneWidth(f, w, k) * BytesPerPix(f)
           <= L.psize[0] + L.psize[1] + L.psize[2]
<1> DEFINE H(n) == AlignUp(PlaneHeight(h, n), ah)
<1>1. \A n \in 0 .. 2 : n < L.num_planes => GivenPlane(L, f, w, h, aw, ah, n)
  BY PlanesGiven, Zenon
<1>2. L.num_planes = NumPlanes(f)
  BY PlanesGiven
<1>3. \A n \in 0 .. 2 : L.psize[n] \in Nat
  BY PlaneFits
<1>4. ASSUME NEW n \in 0 .. 2, n < L.num_planes
      PROVE  /\ L.pitch[n] = AlignUp(PlaneWidth(f, w, n) * BytesPerPix(f), aw) /\ L.pitch[n] \in Nat
             /\ L.psize[n] = L.pitch[n] * H(n) /\ L.offset[n] = PlaneOffset(L.psize, n)
             /\ H(n) \in Nat /\ PlaneHeight(h, n) <= H(n)
  <2>1. PlaneHeight(h, n) \in Nat
    BY PlaneSizes
  <2>2. PlaneWidth(f, w, n) * BytesPerPix(f) \in Nat
    BY PlaneSizes, PlaneCount
  <2> QED
    BY <1>1, <1>4, <2>1, <2>2, AlignedUp DEF GivenPlane
<1>5. PICK row \in Nat, p \in Nat :
        row = PlaneWidth(f, w, k) * BytesPerPix(f) /\ p = L.pitch[k] /\ row <= p
  <2>1. PlaneWidth(f, w, k) * BytesPerPix(f) \in Nat
    BY PlaneSizes, PlaneCount
  <2> QED
    BY <1>4, <2>1, AlignedUp
<1>6. (rows - 1) * p + row <= rows * p
  <2>1. (rows - 1) * p + p = rows * p /\ (rows - 1) * p \in Int
    OBVIOUS
  <2> QED
    BY <1>5, <2>1
<1>7. CASE k = 0
  <2>1. h <= H(0)
    BY <1>4, <1>7 DEF PlaneHeight
  <2>2. rows * p <= H(0) * p
    BY <1>4, <1>7, <2>1, LargerProduct
  <2>3. L.psize[0] = H(0) * p /\ L.offset[0] = 0
    BY <1>4, <1>5, <1>7 DEF PlaneOffset
  <2>4. L.offset[StartPlane(k)] = 0
    BY <1>7, <2>3 DEF StartPlane
  <2> QED
    BY <1>3, <1>5, <1>6, <2>2, <2>3, <2>4
<1>8. CASE k # 0
  <2>1. 0 < L.num_planes /\ 1 < L.num_planes
    BY <1>2, <1>8, PlaneCount
  <2>2. BytesPerPix(f) = 1 /\ (k = 2 => f = "YUV420")
    BY <1>2, <1>8 DEF NumPlanes, BytesPerPix
  <2>3. CASE k = 1
    <3>1. p <= L.pitch[0]
      <4>1. PlaneWidth(f, w, 1) \in Nat /\ PlaneWidth(f, w, 0) \in Nat /\ PlaneWidth(f, w, 1) <= PlaneWidth(f, w, 0)
        BY DEF PlaneWidth
      <4>2. L.pitch[0] = AlignUp(PlaneWidth(f, w, 0), aw) /\ p = AlignUp(PlaneWidth(f, w, 1), aw)
        BY <1>4, <1>5, <2>1, <2>2, <2>3, <4>1
      <4> QED
        BY <4>1, <4>2, AlignedUp
    <3>2. rows <= H(0) /\ H(0) \in Nat /\ L.pitch[0] \in Nat /\ L.psize[0] = L.pitch[0] * H(0)
      BY <1>4, <2>1 DEF PlaneHeight
    <3>3. rows * p <= rows * L.pitch[0] /\ rows * L.pitch[0] <= H(0) * L.pitch[0]
      BY <3>1, <3>2, LargerProduct
    <3>4. L.offset[StartPlane(k)] = 0
      BY <1>4, <2>1, <2>3 DEF StartPlane, PlaneOffset
    <3>5. H(0) * L.pitch[0] = L.psize[0]
      BY <3>2
    <3> HIDE DEF H
    <3>6. rows * p <= L.psize[0]
      BY <3>2, <3>3, <3>5
    <3> QED
      BY <1>3, <1>5, <1>6, <3>4, <3>6
  <2>4. CASE k = 2
    <3>1. f = "YUV420" /\ L.pitch[1] = p
      BY <1>4, <1>5, <2>1, <2>2, <2>4 DEF PlaneWidth
    <3>2. PICK m \in Nat : m = h \div 2 /\ h = 2 * m
      <4>1. h % 2 = 0
        BY <3>1
      <4>2. h \div 2 \in Nat /\ h = 2 * (h \div 2)
        BY <4>1
      <4> QED
        BY <4>2
    <3> DEFINE g == AlignUp(m, ah)
    <3>7. g \in Nat /\ m <= g
      BY AlignedUp
    <3>3. L.psize[1] = p * g /\ L.psize[2] = p * g
      BY <1>4, <1>5, <2>1, <2>4, <3>1, <3>2, <3>7 DEF PlaneHeight
    <3>4. rows * p <= (2 * g) * p /\ (2 * g) * p = p * g + p * g
      <4> HIDE DEF g
      <4> QED
        BY <3>2, <3>7, LargerProduct
    <3>5. L.offset[StartPlane(k)] = L.psize[0]
      BY <1>4, <2>1, <2>4 DEF StartPlane, PlaneOffset
    <3> HIDE DEF g
    <3>6. rows * p <= L.psize[1] + L.psize[2]
      BY <3>3, <3>4
    <3> QED
      BY <1>3, <1>5, <1>6, <3>5, <3>6
  <2> QED
    BY <1>8, <2>3, <2>4
<1> QED
  BY <1>7, <1>8

\* What is known of a surface, and what no call on it changes.
KnownSurface(r) == IsSurface(r) /\ ShapeTyped(r) /\ LaidOut(r) /\ KeptData(r) /\ HostCopies(r)

SameShape(q, r) ==
  /\ r.mem_type = q.mem_type /\ r.batch_size = q.batch_size /\ r.color_format = q.color_format
  /\ r.width = q.width /\ r.height = q.height /\ r.plane_params = q.plane_params
  /\ r.data_size = q.data_size /\ r.allocated = q.allocated /\ r.is_contiguous = q.is_contiguous

\* r is q with other data.
Rewritten(q, r) == SameShape(q, r) /\ IsSurface(r) /\ KeptData(r) /\ HostCopies(r)

LEMMA RewrittenKnown ==
  ASSUME NEW q, NEW r, KnownSurface(q), Rewritten(q, r)
  PROVE  KnownSurface(r) /\ r # NoSurf
<1>1. ShapeTyped(r)
  BY DEF KnownSurface, Rewritten, SameShape, ShapeTyped
<1>2. LaidOut(r)
  BY Zenon DEF KnownSurface, Rewritten, SameShape, LaidOut
<1>3. r # NoSurf
  BY <1>1 DEF ShapeTyped, NoSurf
<1> QED
  BY <1>1, <1>2, <1>3 DEF KnownSurface, Rewritten

LEMMA SetMemRewrites ==
  ASSUME NEW q, KnownSurface(q), NEW new \in DataOf(q)
  PROVE  /\ Rewritten(q, SetMem(q, new)) /\ SetMem(q, new).mem = new
         /\ SetMem(q, new).cpu = IF q.mem_type \in {"SYSTEM", "PINNED", "UNIFIED", "VB"} THEN new ELSE q.cpu
         /\ SetMem(q, new).mapped = q.mapped /\ SetMem(q, new).host_data_ = q.host_data_
<1>1. PICK r : r = SetMem(q, new)
  OBVIOUS
<1>2. PICK c : c = IF q.mem_type \in {"SYSTEM", "PINNED", "UNIFIED", "VB"} THEN new ELSE q.cpu
  OBVIOUS
<1>3. r = [q EXCEPT !.mem = new, !.cpu = c]
  BY <1>1, <1>2 DEF SetMem
<1>4. /\ IsSurface(r) /\ SameShape(q, r) /\ r.mem = new /\ r.cpu = c
      /\ r.mapped = q.mapped /\ r.host_data_ = q.host_data_
  BY <1>3 DEF KnownSurface, IsSurface, SameShape
<1>5. KeptData(r)
  <2>1. DataOf(r) = DataOf(q)
    BY <1>4, Zenon DEF SameShape, DataOf
  <2> QED
    BY <1>2, <1>4, <2>1 DEF KnownSurface, KeptData
<1>6. HostCopies(r)
  BY <1>4, Zenon DEF KnownSurface, SameShape, HostCopies
<1> QED
  BY <1>1, <1>2, <1>4, <1>5, <1>6 DEF Rewritten

LEMMA CpuRewrites ==
  ASSUME NEW q, KnownSurface(q), NEW new \in DataOf(q), NEW r, r = [q EXCEPT !.cpu = new]
  PROVE  Rewritten(q, r) /\ r.mem = q.mem /\ r.cpu = new
<1>4. /\ IsSurface(r) /\ SameShape(q, r) /\ r.mem = q.mem /\ r.cpu = new
      /\ r.mapped = q.mapped /\ r.host_data_ = q.host_data_
  BY DEF KnownSurface, IsSurface, SameShape
<1>5. KeptData(r)
  <2>1. DataOf(r) = DataOf(q)
    BY <1>4, Zenon DEF SameShape, DataOf
  <2> QED
    BY <1>4, <2>1 DEF KnownSurface, KeptData
<1>6. HostCopies(r)
  BY <1>4, Zenon DEF KnownSurface, SameShape, HostCopies
<1> QED
  BY <1>4, <1>5, <1>6 DEF Rewritten

LEMMA MemRewrites ==
  ASSUME NEW q, KnownSurface(q), NEW new \in DataOf(q), NEW r, r = [q EXCEPT !.mem = new]
  PROVE  Rewritten(q, r) /\ r.mem = new /\ r.cpu = q.cpu
<1>4. /\ IsSurface(r) /\ SameShape(q, r) /\ r.mem = new /\ r.cpu = q.cpu
      /\ r.mapped = q.mapped /\ r.host_data_ = q.host_data_
  BY DEF KnownSurface, IsSurface, SameShape
<1>5. KeptData(r)
  <2>1. DataOf(r) = DataOf(q)
    BY <1>4, Zenon DEF SameShape, DataOf
  <2> QED
    BY <1>4, <2>1 DEF KnownSurface, KeptData
<1>6. HostCopies(r)
  BY <1>4, Zenon DEF KnownSurface, SameShape, HostCopies
<1> QED
  BY <1>4, <1>5, <1>6 DEF Rewritten

\* A step that rewrites one surface.
LEMMA OthersKept ==
  ASSUME SurfaceInv, NEW s \in Live, NEW r, Rewritten(surf[s], r), surf' = [surf EXCEPT ![s] = r]
  PROVE  /\ surf' = [t \in Surfs |-> surf'[t]] /\ Live' = Live /\ surf'[s] = r
         /\ \A t \in Surfs \ {s} : surf'[t] = surf[t]
         /\ \A t \in Live : KnownSurface(surf'[t]) /\ SameShape(surf[t], surf'[t])
<1>1. s \in Surfs /\ surf[s] # NoSurf /\ KnownSurface(surf[s])
  BY DEF Live, SurfaceInv, KnownSurface
<1>2. KnownSurface(r) /\ r # NoSurf /\ SameShape(surf[s], r)
  BY <1>1, RewrittenKnown DEF Rewritten
<1>3. surf' = [t \in Surfs |-> IF t = s THEN r ELSE surf[t]]
  BY <1>1 DEF SurfaceInv
<1>4. surf'[s] = r /\ \A t \in Surfs \ {s} : surf'[t] = surf[t]
  BY <1>1, <1>3
<1>5. surf' = [t \in Surfs |-> surf'[t]]
  BY <1>3
<1>6. Live' = Live
  BY <1>1, <1>2, <1>4 DEF Live
<1>7. ASSUME NEW t \in Live PROVE KnownSurface(surf'[t]) /\ SameShape(surf[t], surf'[t])
  <2>1. CASE t = s
    BY <1>2, <1>4, <2>1
  <2>2. CASE t # s
    <3>1. surf'[t] = surf[t]
      BY <1>4, <2>2 DEF Live
    <3>2. KnownSurface(surf[t])
      BY DEF SurfaceInv, KnownSurface
    <3> QED
      BY <3>1, <3>2 DEF SameShape
  <2> QED
    BY <2>1, <2>2
<1> QED
  BY <1>4, <1>5, <1>6, <1>7

LEMMA SurfaceCall == SurfaceInv /\ Call => ops' \in 0 .. MaxOps
BY SurfaceConstants DEF SurfaceInv, Call

\* Nothing is said of a call that neither fills nor copies.
LEMMA NothingNoted == last' = NoCall => AccessInBounds' /\ CopyFaithful' /\ CopyVisible'
BY DEF NoCall, AccessInBounds, CopyFaithful, CopyVisible

\* What is said of the lost writes is about the shapes of the surfaces.
LEMMA LostKept ==
  ASSUME SurfaceInv, lost' \subseteq lost, \A x \in lost' : x[1] \in Live /\ SameShape(surf[x[1]], surf'[x[1]])
  PROVE  HostWritesDelivered'
BY Zenon DEF SurfaceInv, HostWritesDelivered, SameShape

LEMMA SyncingStep ==
  ASSUME SurfaceInv, NEW s \in Live, NEW r, Rewritten(surf[s], r), surf' = [surf EXCEPT ![s] = r],
         Call, UNCHANGED unified, lost' \subseteq Surfs \X Nat, \A x \in lost' : x[1] \in Live,
         HostWritesDelivered', AccessInBounds', CopyFaithful', CopyVisible'
  PROVE  SurfaceInv'
<1>1. /\ surf' = [t \in Surfs |-> surf'[t]] /\ Live' = Live
      /\ \A t \in Live : KnownSurface(surf'[t])
  BY OthersKept
<1>2. ops' \in 0 .. MaxOps
  BY SurfaceCall
<1>3. unified' \in BOOLEAN
  BY DEF SurfaceInv
<1> QED
  BY <1>1, <1>2, <1>3 DEF SurfaceInv, KnownSurface

LEMMA RewritingStep ==
  ASSUME SurfaceInv, NEW s \in Live, NEW r, Rewritten(surf[s], r), surf' = [surf EXCEPT ![s] = r],
         Call, UNCHANGED <<unified, lost>>, AccessInBounds', CopyFaithful', CopyVisible'
  PROVE  SurfaceInv'
<1>1. \A t \in Live : SameShape(surf[t], surf'[t])
  BY OthersKept
<1>2. lost' \subseteq Surfs \X Nat /\ \A x \in lost' : x[1] \in Live
  BY DEF SurfaceInv
<1>3. HostWritesDelivered'
  BY <1>1, <1>2, LostKept
<1> QED
  BY <1>2, <1>3, SyncingStep

\* A surface that exists, and its elements.
LEMMA Existing ==
  ASSUME SurfaceInv, NEW s \in Surfs, surf[s] # NoSurf
  PROVE  /\ s \in Live /\ KnownSurface(surf[s]) /\ surf[s].batch_size \in Nat \ {0}
         /\ Elements(s) = 0 .. (surf[s].batch_size - 1) /\ Elements(s) \subseteq Nat
         /\ surf[s].mem \in DataOf(surf[s]) /\ surf[s].cpu \in DataOf(surf[s])
BY DEF SurfaceInv, Live, KnownSurface, ShapeTyped, KeptData, Elements

LEMMA ElementExists ==
  ASSUME NEW s \in Surfs, NEW i \in Elements(s)
  PROVE  surf[s] # NoSurf
BY DEF Elements, NoSurf

\* Data of which an element, or some elements, are replaced.
LEMMA ElementReplaced ==
  ASSUME NEW q, NEW m \in DataOf(q), NEW i, NEW v \in Values
  PROVE  Written(m, i, v) \in DataOf(q)
BY DEF DataOf, Written

LEMMA ElementsReplaced ==
  ASSUME NEW q, NEW m \in DataOf(q), NEW n \in DataOf(q), NEW I
  PROVE  [j \in DOMAIN m |-> IF j \in I THEN n[j] ELSE m[j]] \in DataOf(q)
BY DEF DataOf

LEMMA DeviceWritesStep ==
  ASSUME SurfaceInv, NEW s \in Surfs, NEW i \in Elements(s), NEW v \in Values, DeviceWrites(s, i, v)
  PROVE  SurfaceInv'
<1>1. surf[s] # NoSurf
  BY ElementExists
<1>2. PICK q, new : q = surf[s] /\ new = Written(q.mem, i, v)
  OBVIOUS
<1>3. s \in Live /\ KnownSurface(q) /\ new \in DataOf(q)
  BY <1>1, <1>2, Existing, ElementReplaced
<1>4. Rewritten(q, SetMem(q, new))
  BY <1>3, SetMemRewrites
<1>5. surf' = [surf EXCEPT ![s] = SetMem(q, new)]
  BY <1>2 DEF DeviceWrites
<1>6. Call /\ last' = NoCall /\ UNCHANGED <<unified, lost>>
  BY DEF DeviceWrites
<1> QED
  BY <1>2, <1>3, <1>4, <1>5, <1>6, NothingNoted, RewritingStep

LEMMA HostWritesStep ==
  ASSUME SurfaceInv, NEW s \in Surfs, NEW i \in Elements(s), NEW v \in Values, HostWrites(s, i, v)
  PROVE  SurfaceInv'
<1>1. surf[s] # NoSurf
  BY ElementExists
<1>2. PICK q, new : q = surf[s] /\ new = Written(q.cpu, i, v)
  OBVIOUS
<1>3. s \in Live /\ KnownSurface(q) /\ new \in DataOf(q)
  BY <1>1, <1>2, Existing, ElementReplaced
<1>4. PICK r : r = IF OneCopy(s) THEN [q EXCEPT !.cpu = new, !.mem = new] ELSE [q EXCEPT !.cpu = new]
  OBVIOUS
<1>5. Rewritten(q, r)
  <2>1. PICK c : c = [q EXCEPT !.cpu = new]
    OBVIOUS
  <2>2. Rewritten(q, c) /\ KnownSurface(c) /\ new \in DataOf(c)
    <3>1. Rewritten(q, c)
      BY <1>3, <2>1, CpuRewrites
    <3>2. DataOf(c) = DataOf(q)
      BY <3>1, Zenon DEF Rewritten, SameShape, DataOf
    <3> QED
      BY <1>3, <3>1, <3>2, RewrittenKnown
  <2>3. CASE OneCopy(s)
    <3>1. r = [c EXCEPT !.mem = new]
      BY <1>3, <1>4, <2>1, <2>3 DEF KnownSurface, IsSurface
    <3>2. Rewritten(c, r)
      BY <2>2, <3>1, MemRewrites
    <3> QED
      BY <2>2, <3>2 DEF Rewritten, SameShape
  <2>4. CASE ~OneCopy(s)
    BY <1>4, <2>1, <2>2, <2>4
  <2> QED
    BY <2>3, <2>4
<1>6. surf' = [surf EXCEPT ![s] = r]
  BY <1>2, <1>4 DEF HostWrites
<1>7. Call /\ last' = NoCall /\ UNCHANGED <<unified, lost>>
  BY DEF HostWrites
<1> QED
  BY <1>2, <1>3, <1>5, <1>6, <1>7, NothingNoted, RewritingStep

LEMMA InvalidatedRewrites ==
  ASSUME NEW q, KnownSurface(q), NEW I
  PROVE  /\ Rewritten(q, Invalidated(q, I)) /\ Invalidated(q, I).mem = q.mem
         /\ Invalidated(q, I).cpu = [j \in 0 .. (q.batch_size - 1) |-> IF j \in I THEN q.mem[j] ELSE q.cpu[j]]
<1>1. q.cpu \in DataOf(q) /\ q.mem \in DataOf(q)
  BY DEF KnownSurface, KeptData
<1>2. PICK new : new = [j \in DOMAIN q.cpu |-> IF j \in I THEN q.mem[j] ELSE q.cpu[j]]
  OBVIOUS
<1>3. new \in DataOf(q)
  BY <1>1, <1>2, ElementsReplaced
<1>4. DOMAIN q.cpu = 0 .. (q.batch_size - 1)
  BY <1>1 DEF DataOf
<1>5. Invalidated(q, I) = [q EXCEPT !.cpu = new]
  BY <1>2, Zenon DEF Invalidated
<1>6. Rewritten(q, Invalidated(q, I)) /\ Invalidated(q, I).mem = q.mem /\ Invalidated(q, I).cpu = new
  BY <1>3, <1>5, CpuRewrites
<1> QED
  BY <1>2, <1>4, <1>6

LEMMA SyncForCpuStep ==
  ASSUME SurfaceInv, NEW s \in Surfs, NEW i, SyncForCpu(s, i)
  PROVE  SurfaceInv'
<1>1. surf[s] # NoSurf /\ Call /\ last' = NoCall /\ UNCHANGED <<unified, lost>>
      /\ surf' = [surf EXCEPT ![s] = Invalidated(surf[s], Range_(s, i))]
  BY DEF SyncForCpu
<1>2. s \in Live /\ KnownSurface(surf[s])
  BY <1>1, Existing
<1>3. Rewritten(surf[s], Invalidated(surf[s], Range_(s, i)))
  BY <1>2, InvalidatedRewrites
<1> QED
  BY <1>1, <1>2, <1>3, NothingNoted, RewritingStep

LEMMA GetHostDataStep ==
  ASSUME SurfaceInv, NEW s \in Surfs, NEW i \in Elements(s), GetHostData(s, i)
  PROVE  SurfaceInv'
<1>1. surf[s] # NoSurf
  BY ElementExists
<1>2. PICK q, new : q = surf[s] /\ new = IF q.is_contiguous THEN Elements(s) ELSE {i}
  OBVIOUS
<1>3. PICK m, h : m = q.mapped \cup new /\ h = q.host_data_ \cup (IF q.is_contiguous THEN {0} ELSE {i})
  OBVIOUS
<1>4. PICK c : c = Invalidated(q, new)
  OBVIOUS
<1>5. /\ s \in Live /\ KnownSurface(q)
      /\ q.batch_size \in Nat \ {0} /\ Elements(s) = 0 .. (q.batch_size - 1)
  BY <1>1, <1>2, Existing
<1>6. Rewritten(q, c) /\ KnownSurface(c)
  BY <1>4, <1>5, InvalidatedRewrites, RewrittenKnown
<1>7. c.mapped = q.mapped /\ c.host_data_ = q.host_data_
  BY <1>4 DEF Invalidated
<1>8. PICK r : r = [c EXCEPT !.mapped = m, !.host_data_ = h]
  OBVIOUS
<1>9. Call /\ last' = NoCall /\ UNCHANGED <<unified, lost>> /\ q.mem_type = "DEVICE"
  BY <1>2 DEF GetHostData
<1>10. surf' = [surf EXCEPT ![s] = r]
  BY <1>2, <1>3, <1>4, <1>7, <1>8 DEF GetHostData
<1>11. Rewritten(q, r)
  <2>1. /\ IsSurface(r) /\ SameShape(c, r) /\ r.mem = c.mem /\ r.cpu = c.cpu
        /\ r.mapped = m /\ r.host_data_ = h
    BY <1>6, <1>8 DEF KnownSurface, IsSurface, SameShape
  <2>2. SameShape(q, r)
    BY <1>6, <2>1 DEF Rewritten, SameShape
  <2>3. KeptData(r)
    <3>1. DataOf(r) = DataOf(c)
      BY <2>1, Zenon DEF SameShape, DataOf
    <3> QED
      BY <1>6, <2>1, <3>1 DEF KnownSurface, KeptData
  <2>4. HostCopies(r)
    <3>1. HostCopies(q) /\ q.is_contiguous \in BOOLEAN
      BY <1>5 DEF KnownSurface, ShapeTyped
    <3>2. r.batch_size = q.batch_size /\ r.mem_type = "DEVICE" /\ r.is_contiguous = q.is_contiguous
      BY <1>9, <2>2 DEF SameShape
    <3>3. CASE q.is_contiguous
      <4>1. new = 0 .. (q.batch_size - 1) /\ h = q.host_data_ \cup {0}
        BY <1>2, <1>3, <1>5, <3>3
      <4>2. m = 0 .. (q.batch_size - 1) /\ m # {} /\ h = {0}
        BY <1>3, <1>5, <1>9, <3>1, <3>3, <4>1 DEF HostCopies
      <4> QED
        BY <2>1, <3>2, <3>3, <4>2 DEF HostCopies
    <3>4. CASE ~q.is_contiguous
      <4>1. m = q.mapped \cup {i} /\ h = q.host_data_ \cup {i}
        BY <1>2, <1>3, <3>4
      <4>2. h = m /\ m \subseteq 0 .. (q.batch_size - 1)
        BY <1>5, <1>9, <3>1, <3>4, <4>1 DEF HostCopies
      <4> QED
        BY <2>1, <3>2, <3>4, <4>2 DEF HostCopies
    <3> QED
      BY <3>3, <3>4
  <2> QED
    BY <2>1, <2>2, <2>3, <2>4 DEF Rewritten
<1> QED
  BY <1>2, <1>5, <1>9, <1>10, <1>11, NothingNoted, RewritingStep

\* An element that the wrapper copied and a SyncHostToDevice does not deliver.
LEMMA NotDelivered ==
  ASSUME NEW s, KnownSurface(surf[s]), NEW i, Range_(s, i) \subseteq Elements(s),
         NEW j \in Range_(s, i) \cap surf[s].mapped, j \notin Delivered(s, i),
         Cached(s) \/ surf[s].mem_type = "DEVICE"
  PROVE  IF surf[s].is_contiguous THEN j # 0 ELSE surf[s].batch_size >= HostSlots
<1>1. ~Cached(s) /\ surf[s].mem_type = "DEVICE"
  BY DEF Delivered
<1>2. HostCopies(surf[s]) /\ surf[s].is_contiguous \in BOOLEAN /\ j \in surf[s].mapped
  BY DEF KnownSurface, ShapeTyped
<1>3. j \in Elements(s)
  OBVIOUS
<1>4. IF surf[s].is_contiguous THEN surf[s].host_data_ = {0} ELSE surf[s].host_data_ = surf[s].mapped
  BY <1>1, <1>2 DEF HostCopies
<1>5. CASE i = -1
  BY <1>1, <1>2, <1>3, <1>4, <1>5 DEF Delivered
<1>6. CASE i # -1
  <2>1. j = i
    BY <1>6 DEF Range_
  <2> QED
    BY <1>1, <1>2, <1>4, <1>6, <2>1 DEF Delivered
<1> QED
  BY <1>5, <1>6

LEMMA SyncHostToDeviceStep ==
  ASSUME SurfaceInv, NEW s \in Surfs, NEW i, SyncHostToDevice(s, i)
  PROVE  SurfaceInv'
<1>1. surf[s] # NoSurf
  BY DEF SyncHostToDevice
<1>2. PICK q : q = surf[s]
  OBVIOUS
<1>3. PICK now : now = [j \in Elements(s) |-> IF j \in Delivered(s, i) THEN q.cpu[j] ELSE q.mem[j]]
  OBVIOUS
<1>4. /\ s \in Live /\ KnownSurface(q) /\ Elements(s) = 0 .. (q.batch_size - 1)
      /\ q.mem \in DataOf(q) /\ q.cpu \in DataOf(q) /\ Elements(s) \subseteq Nat
  BY <1>1, <1>2, Existing
<1>5. now \in DataOf(q)
  BY <1>3, <1>4 DEF DataOf
<1>6. PICK r : r = [q EXCEPT !.mem = now]
  OBVIOUS
<1>7. Rewritten(q, r)
  BY <1>4, <1>5, <1>6, MemRewrites
<1>8. /\ Call /\ last' = NoCall /\ UNCHANGED unified
      /\ Range_(s, i) \subseteq Elements(s) /\ (Cached(s) \/ q.mem_type = "DEVICE")
      /\ surf' = [surf EXCEPT ![s] = r]
  BY <1>2, <1>3, <1>6 DEF SyncHostToDevice
<1>9. lost' = (lost \ {<<s, j>> : j \in Range_(s, i)}) \cup
             {<<s, j>> : j \in {k \in Range_(s, i) \cap q.mapped : now[k] # q.cpu[k]}}
  BY <1>2, <1>3 DEF SyncHostToDevice
<1>10. lost' \subseteq Surfs \X Nat /\ \A x \in lost' : x[1] \in Live
  <2>1. lost \subseteq Surfs \X Nat /\ (\A x \in lost : x[1] \in Live) /\ Range_(s, i) \subseteq Nat
    BY <1>4, <1>8 DEF SurfaceInv
  <2>2. ASSUME NEW x \in lost' PROVE x \in Surfs \X Nat /\ x[1] \in Live
    <3>1. CASE x \in lost
      BY <2>1, <3>1
    <3>2. CASE x \notin lost
      <4>1. PICK j \in Range_(s, i) : x = <<s, j>>
        BY <1>9, <3>2
      <4> QED
        BY <1>4, <2>1, <4>1
    <3> QED
      BY <3>1, <3>2
  <2> QED
    BY <2>2
<1>11. \A t \in Live : SameShape(surf[t], surf'[t])
  BY <1>2, <1>4, <1>7, <1>8, OthersKept
<1>12. HostWritesDelivered'
  <2> SUFFICES ASSUME NEW x \in lost'
               PROVE  IF surf'[x[1]].is_contiguous THEN x[2] # 0 ELSE surf'[x[1]].batch_size >= HostSlots
    BY DEF HostWritesDelivered
  <2>1. SameShape(surf[x[1]], surf'[x[1]])
    BY <1>10, <1>11
  <2>2. IF surf[x[1]].is_contiguous THEN x[2] # 0 ELSE surf[x[1]].batch_size >= HostSlots
    <3>1. CASE x \in lost
      BY <3>1 DEF SurfaceInv, HostWritesDelivered
    <3>2. CASE x \notin lost
      <4>1. PICK j \in Range_(s, i) \cap q.mapped : x = <<s, j>> /\ now[j] # q.cpu[j]
        BY <1>9, <3>2
      <4>2. j \in Elements(s) /\ j \notin Delivered(s, i)
        <5>1. j \in Elements(s)
          BY <1>8, <4>1
        <5>2. now[j] = IF j \in Delivered(s, i) THEN q.cpu[j] ELSE q.mem[j]
          BY <1>3, <5>1
        <5> QED
          BY <4>1, <5>1, <5>2
      <4>5. KnownSurface(surf[s]) /\ j \in Range_(s, i) \cap surf[s].mapped
            /\ (Cached(s) \/ surf[s].mem_type = "DEVICE")
        BY <1>2, <1>4, <1>8, <4>1
      <4>3. IF surf[s].is_contiguous THEN j # 0 ELSE surf[s].batch_size >= HostSlots
        BY <1>8, <4>2, <4>5, NotDelivered
      <4> QED
        BY <4>1, <4>3
    <3> QED
      BY <3>1, <3>2
  <2> QED
    BY <2>1, <2>2 DEF SameShape
<1> QED
  BY <1>2, <1>4, <1>7, <1>8, <1>10, <1>12, NothingNoted, SyncingStep

\* What a caller may ask for, once DEFAULT is resolved.
AskedFor(p) ==
  /\ p.mem_type \in {"VB", "VB_CACHED", "UNIFIED", "UNIFIED_CACHED", "SYSTEM", "DEVICE"}
  /\ p.color_format \in ColorFormats /\ {p.width, p.height, p.size} \subseteq Nat
  /\ p.batch_size \in Nat \ {0} /\ {p.force_align_1, p.is_contiguous} \subseteq BOOLEAN

LEMMA LaidOutAs ==
  ASSUME NEW p, AskedFor(p)
  PROVE  \E aw, ah \in Alignments : \E gray \in BOOLEAN : LayoutOf(p) = Layout(p, aw, ah, gray)
<1>1. Align(p, 64) \in Alignments /\ Align(p, 16) \in Alignments /\ Align(p, 4) \in Alignments
  BY DEF Align, Alignments
<1>2. (p.size # 0) \in BOOLEAN /\ TRUE \in BOOLEAN
  OBVIOUS
<1>3. \/ LayoutOf(p) = Layout(p, Align(p, 64), Align(p, 16), TRUE)
      \/ LayoutOf(p) = Layout(p, Align(p, 64), Align(p, 16), p.size # 0)
      \/ LayoutOf(p) = Layout(p, Align(p, 4), Align(p, 4), p.size # 0)
  BY Zenon DEF LayoutOf, CreateVb, CreateUnified, CreateDevice, CreateSystem
<1> QED
  BY <1>1, <1>2, <1>3

\* The planes, the size and the format of a new surface.
LEMMA NewLayout ==
  ASSUME NEW p, AskedFor(p), NEW L, L = LayoutOf(p)
  PROVE  /\ L.size \in Nat /\ L.format \in ColorFormats
         /\ \/ L.planes = NoPlanes
            \/ \E aw, ah \in Alignments :
                 L.planes = GetColorFormatInfo(L.format, p.width, p.height, aw, ah)
                 /\ L.size = L.planes.psize[0] + L.planes.psize[1] + L.planes.psize[2]
<1>1. PICK aw \in Alignments, ah \in Alignments, gray \in BOOLEAN : L = Layout(p, aw, ah, gray)
  BY LaidOutAs
<1>2. PICK P : P = IF p.size # 0 THEN NoPlanes ELSE GetColorFormatInfo(p.color_format, p.width, p.height, aw, ah)
  OBVIOUS
<1>3. /\ L.planes = P
      /\ L.size = IF p.size # 0 THEN AlignUp(p.size, aw) ELSE P.psize[0] + P.psize[1] + P.psize[2]
      /\ L.format = IF p.color_format = "INVALID" /\ gray THEN "GRAY8" ELSE p.color_format
  BY <1>1, <1>2 DEF Layout
<1>4. p.width \in Nat /\ p.height \in Nat /\ p.size \in Nat /\ p.color_format \in ColorFormats
  BY DEF AskedFor
<1>5. L.format \in ColorFormats
  BY <1>3, <1>4 DEF ColorFormats
<1>6. CASE p.size # 0
  BY <1>2, <1>3, <1>4, <1>5, <1>6, AlignedUp
<1>7. CASE p.size = 0
  <2>1. P = GetColorFormatInfo(p.color_format, p.width, p.height, aw, ah)
        /\ L.size = P.psize[0] + P.psize[1] + P.psize[2]
    BY <1>2, <1>3, <1>7
  <2>2. P.psize[0] \in Nat /\ P.psize[1] \in Nat /\ P.psize[2] \in Nat
    BY <1>4, <2>1, PlaneFits
  <2>3. CASE L.format = p.color_format
    BY <1>3, <1>5, <2>1, <2>2, <2>3
  <2>4. CASE L.format # p.color_format
    <3>1. P = NoPlanes
      BY <1>3, <2>1, <2>4, NoPlanesGiven
    <3> QED
      BY <1>3, <1>5, <2>1, <2>2, <3>1
  <2> QED
    BY <2>3, <2>4
<1> QED
  BY <1>6, <1>7

LEMMA EnoughAllocated ==
  ASSUME NEW p, AskedFor(p)
  PROVE  /\ Allocated(p) \in Nat
         /\ p.mem_type # "SYSTEM" \/ p.batch_size = 1 => p.batch_size * LayoutOf(p).size <= Allocated(p)
<1>1. PICK n \in Nat, b \in Nat : n = LayoutOf(p).size /\ b = p.batch_size
  BY NewLayout DEF AskedFor
<1>2. n * b \in Nat /\ n * b = b * n /\ (b = 1 => n = b * n)
  OBVIOUS
<1>3. n * b <= AlignUp(n * b, 64) /\ AlignUp(n * b, 64) \in Nat
  BY <1>2, AlignedUp DEF Alignments
<1>4. \/ Allocated(p) = n * b \/ Allocated(p) = AlignUp(n * b, 64)
      \/ Allocated(p) = n /\ p.mem_type = "SYSTEM"
  BY <1>1, Zenon DEF Allocated, AllocVb, AllocUnified, AllocDevice, AllocSystem
<1> QED
  BY <1>1, <1>2, <1>3, <1>4

LEMMA NewSurfaceKnown ==
  ASSUME NEW p, AskedFor(p)
  PROVE  KnownSurface(NewSurface(p)) /\ NewSurface(p) # NoSurf
<1>1. PICK r : r = NewSurface(p)
  OBVIOUS
<1>2. PICK L : L = LayoutOf(p)
  OBVIOUS
<1>3. PICK v : v = CHOOSE x \in Values : TRUE
  OBVIOUS
<1>4. PICK blank : blank = [i \in 0 .. (p.batch_size - 1) |-> [k \in DataPlanes(L.planes) |-> v]]
  OBVIOUS
<1>5. PICK m : m = IF p.mem_type \in {"SYSTEM", "DEVICE"} THEN {} ELSE 0 .. (p.batch_size - 1)
  OBVIOUS
<1>6. r = [mem_type |-> p.mem_type, batch_size |-> p.batch_size, color_format |-> L.format,
           width |-> p.width, height |-> p.height, plane_params |-> L.planes, data_size |-> L.size,
           allocated |-> Allocated(p), is_contiguous |-> p.is_contiguous,
           mem |-> blank, cpu |-> blank, mapped |-> m, host_data_ |-> {}]
  <2>1. DOMAIN blank = 0 .. (p.batch_size - 1)
    BY <1>4
  <2> QED
    BY <1>1, <1>2, <1>3, <1>4, <1>5, <2>1 DEF NewSurface
<1>7. IsSurface(r)
  BY <1>6 DEF IsSurface
<1>8. L.size \in Nat /\ L.format \in ColorFormats
  BY <1>2, NewLayout
<1>9. ShapeTyped(r)
  BY <1>6, <1>8, EnoughAllocated DEF ShapeTyped, AskedFor, MemTypes
<1>10. LaidOut(r)
  <2>1. \/ r.plane_params = NoPlanes
        \/ \E aw, ah \in Alignments :
             r.plane_params = GetColorFormatInfo(r.color_format, r.width, r.height, aw, ah)
             /\ r.data_size = r.plane_params.psize[0] + r.plane_params.psize[1] + r.plane_params.psize[2]
    <3>1. /\ r.plane_params = L.planes /\ r.color_format = L.format /\ r.data_size = L.size
          /\ r.width = p.width /\ r.height = p.height
      BY <1>6
    <3>2. \/ L.planes = NoPlanes
          \/ \E aw, ah \in Alignments :
               L.planes = GetColorFormatInfo(L.format, p.width, p.height, aw, ah)
               /\ L.size = L.planes.psize[0] + L.planes.psize[1] + L.planes.psize[2]
      BY <1>2, NewLayout, Zenon
    <3> QED
      BY <3>1, <3>2, Zenon
  <2>2. r.mem_type # "SYSTEM" \/ r.batch_size = 1 => r.batch_size * r.data_size <= r.allocated
    BY <1>2, <1>6, EnoughAllocated
  <2> QED
    BY <2>1, <2>2, Zenon DEF LaidOut
<1>11. KeptData(r)
  <2>1. v \in Values
    BY <1>3, SurfaceConstants
  <2> QED
    BY <1>4, <1>6, <2>1 DEF KeptData, DataOf
<1>12. HostCopies(r)
  <2>1. p.mem_type = "DEVICE" => m = {}
    BY <1>5
  <2>2. m \subseteq 0 .. (p.batch_size - 1)
    BY <1>5
  <2> QED
    BY <1>6, <2>1, <2>2 DEF HostCopies
<1>13. r # NoSurf
  BY <1>9 DEF ShapeTyped, NoSurf
<1> QED
  BY <1>1, <1>7, <1>9, <1>10, <1>11, <1>12, <1>13 DEF KnownSurface

\* A step that makes or destroys a surface, of which nothing is said then.
LEMMA LifetimeStep ==
  ASSUME SurfaceInv, NEW s \in Surfs, NEW r, r = NoSurf \/ (KnownSurface(r) /\ r # NoSurf),
         surf' = [surf EXCEPT ![s] = r], Call, last' = NoCall, UNCHANGED unified,
         lost' = {x \in lost : x[1] # s}
  PROVE  SurfaceInv'
<1>1. surf' = [t \in Surfs |-> IF t = s THEN r ELSE surf[t]]
  BY DEF SurfaceInv
<1>2. surf'[s] = r /\ \A t \in Surfs \ {s} : surf'[t] = surf[t]
  BY <1>1
<1>3. surf' = [t \in Surfs |-> surf'[t]]
  BY <1>1
<1>4. ASSUME NEW t \in Live' PROVE KnownSurface(surf'[t])
  <2>1. t \in Surfs /\ surf'[t] # NoSurf
    BY DEF Live
  <2>2. CASE t = s
    BY <1>2, <2>1, <2>2
  <2>3. CASE t # s
    <3>1. surf'[t] = surf[t] /\ t \in Live
      BY <1>2, <2>1, <2>3 DEF Live
    <3>2. KnownSurface(surf[t])
      BY <3>1 DEF SurfaceInv, KnownSurface
    <3> QED
      BY <3>1, <3>2
  <2> QED
    BY <2>2, <2>3
<1>5. ASSUME NEW x \in lost' PROVE x \in lost /\ x[1] \in Live' /\ surf'[x[1]] = surf[x[1]]
  <2>1. x \in lost /\ x[1] # s
    OBVIOUS
  <2>2. x[1] \in Live
    BY <2>1 DEF SurfaceInv
  <2> QED
    BY <1>2, <2>1, <2>2 DEF Live
<1>6. HostWritesDelivered'
  BY <1>5, Zenon DEF SurfaceInv, HostWritesDelivered
<1>7. ops' \in 0 .. MaxOps /\ unified' \in BOOLEAN /\ lost' \subseteq Surfs \X Nat
  BY SurfaceCall DEF SurfaceInv
<1>8. AccessInBounds' /\ CopyFaithful' /\ CopyVisible'
  BY NothingNoted
<1> QED
  BY <1>3, <1>4, <1>5, <1>6, <1>7, <1>8 DEF SurfaceInv, KnownSurface

LEMMA CreationStep ==
  ASSUME SurfaceInv, NEW s \in Surfs, NEW p \in CreateParams[s],
         CreateSurface(s, p) \/ CreateFromPool(s, p)
  PROVE  SurfaceInv'
<1>1. PICK q : q = IF p.mem_type \in {"VB", "VB_CACHED"} THEN p ELSE [p EXCEPT !.mem_type = MemType(p)]
  OBVIOUS
<1>2. /\ surf[s] = NoSurf /\ CheckParams(p) /\ Call /\ last' = NoCall /\ UNCHANGED <<unified, lost>>
      /\ surf' = [surf EXCEPT ![s] = NewSurface(q)]
      /\ q.mem_type \in {"VB", "VB_CACHED", "UNIFIED", "UNIFIED_CACHED", "SYSTEM", "DEVICE"}
  <2>1. CASE CreateSurface(s, p)
    <3>1. p = [mem_type |-> p.mem_type, color_format |-> p.color_format, width |-> p.width,
               height |-> p.height, size |-> p.size, batch_size |-> p.batch_size,
               force_align_1 |-> p.force_align_1, is_contiguous |-> p.is_contiguous]
      BY SurfaceConstants
    <3>2. PICK m : m = MemType(p)
      OBVIOUS
    <3>3. [p EXCEPT !.mem_type = m].mem_type = m
      BY <3>1
    <3>4. p.mem_type \notin {"VB", "VB_CACHED"}
      BY <2>1, <3>2, <3>3 DEF CreateSurface, MemType
    <3> QED
      BY <1>1, <2>1, <3>4 DEF CreateSurface
  <2>2. CASE CreateFromPool(s, p)
    BY <1>1, <2>2 DEF CreateFromPool
  <2> QED
    BY <2>1, <2>2
<1>3. AskedFor(q)
  <2>1. p \in [mem_type : MemTypes, color_format : ColorFormats, width : Nat, height : Nat, size : Nat,
               batch_size : Nat, force_align_1 : BOOLEAN, is_contiguous : BOOLEAN]
    BY SurfaceConstants
  <2>2. p.batch_size # 0
    BY <1>2 DEF CheckParams
  <2>3. PICK m : m = MemType(p)
    OBVIOUS
  <2>4. /\ q.color_format = p.color_format /\ q.width = p.width /\ q.height = p.height /\ q.size = p.size
        /\ q.batch_size = p.batch_size /\ q.force_align_1 = p.force_align_1
        /\ q.is_contiguous = p.is_contiguous
    BY <1>1, <2>1, <2>3
  <2> QED
    BY <1>2, <2>1, <2>2, <2>4 DEF AskedFor
<1>4. lost' = {x \in lost : x[1] # s}
  <2>1. \A x \in lost : x[1] # s
    BY <1>2 DEF SurfaceInv, Live
  <2> QED
    BY <1>2, <2>1
<1> QED
  BY <1>2, <1>3, <1>4, NewSurfaceKnown, LifetimeStep

LEMMA DestroyStep ==
  ASSUME SurfaceInv, NEW s \in Surfs, Destroy(s)
  PROVE  SurfaceInv'
<1>1. PICK r : r = NoSurf
  OBVIOUS
<1>2. /\ surf' = [surf EXCEPT ![s] = r] /\ Call /\ last' = NoCall /\ UNCHANGED unified
      /\ lost' = {x \in lost : x[1] # s}
  BY <1>1 DEF Destroy
<1> QED
  BY <1>1, <1>2, LifetimeStep

\* A place in element i is in the memory of the surface.
LEMMA InsideMemory ==
  ASSUME NEW r, KnownSurface(r), ~(r.mem_type = "SYSTEM" /\ r.batch_size > 1),
         NEW i \in 0 .. (r.batch_size - 1), NEW e \in Int, e <= r.data_size
  PROVE  i * r.data_size + e <= r.allocated
<1>1. PICK n \in Nat, size \in Nat, all \in Nat : n = r.batch_size /\ size = r.data_size /\ all = r.allocated
  BY DEF KnownSurface, ShapeTyped
<1>2. n # 0
  BY <1>1 DEF KnownSurface, ShapeTyped
<1>3. r.mem_type # "SYSTEM" \/ n = 1
  BY <1>1, <1>2
<1>4. n * size <= all
  BY <1>1, <1>3 DEF KnownSurface, LaidOut
<1>5. i * size + e <= n * size
  BY <1>1, ElementInside
<1>6. i * size \in Nat /\ n * size \in Nat
  BY <1>1
<1> QED
  BY <1>1, <1>4, <1>5, <1>6

LEMMA ElementsFilled ==
  ASSUME NEW q, NEW m \in DataOf(q), NEW v \in Values, NEW J, NEW K
  PROVE  [j \in 0 .. (q.batch_size - 1) |-> [k \in DOMAIN m[j] |->
            IF j \in J /\ k \in K THEN v ELSE m[j][k]]] \in DataOf(q)
BY DEF DataOf

LEMMA MemsetStep ==
  ASSUME SurfaceInv, NEW s \in Surfs, NEW i, NEW plane, NEW v \in Values, Memset(s, i, plane, v)
  PROVE  SurfaceInv'
<1>1. surf[s] # NoSurf
  BY DEF Memset
<1>2. PICK q, J, K : q = surf[s] /\ J = Range_(s, i) /\ K = IF plane = -1 THEN PlaneIds(s) ELSE {plane}
  OBVIOUS
<1>3. PICK new : new = [j \in 0 .. (q.batch_size - 1) |-> [k \in DOMAIN q.mem[j] |->
                          IF j \in J /\ k \in K THEN v ELSE q.mem[j][k]]]
  OBVIOUS
<1> DEFINE ends == {j * q.data_size + q.plane_params.offset[k] + q.plane_params.psize[k] : j \in J, k \in K}
<1>6. /\ s \in Live /\ KnownSurface(q) /\ q.mem \in DataOf(q) /\ Elements(s) = 0 .. (q.batch_size - 1)
  BY <1>1, <1>2, Existing
<1>5. /\ Call /\ J \subseteq Elements(s) /\ K \subseteq PlaneIds(s) /\ UNCHANGED <<unified, lost>>
      /\ surf' = [surf EXCEPT ![s] = SetMem(q, new)]
      /\ last' = [op |-> "Memset", ret |-> 0, to |-> s, ends |-> [x \in {s} |-> ends]]
  BY <1>2, <1>3, <1>6 DEF Memset
<1> HIDE DEF ends
<1>7. new \in DataOf(q)
  BY <1>3, <1>6 DEF DataOf
<1>8. Rewritten(q, SetMem(q, new))
  BY <1>6, <1>7, SetMemRewrites
<1>9. SameShape(q, surf'[s])
  BY <1>2, <1>5, <1>6, <1>8, OthersKept
<1>10. AccessInBounds'
  <2>1. DOMAIN last'.ends = {s} /\ last'.ends[s] = ends
    BY <1>5
  <2> SUFFICES ASSUME NEW t \in {s}, ~ShortOfMemory(t)', NEW e \in last'.ends[t]
               PROVE  e <= surf'[t].allocated
    BY <2>1, Zenon DEF AccessInBounds
  <2>10. t = s /\ e \in ends
    BY <2>1
  <2>2. PICK j \in J, k \in K : e = j * q.data_size + q.plane_params.offset[k] + q.plane_params.psize[k]
    BY <2>10 DEF ends
  <2>3. k \in 0 .. (q.plane_params.num_planes - 1)
    BY <1>2, <1>5 DEF PlaneIds
  <2>4. PlaneHolds(q, k) /\ q.plane_params.num_planes \in 0 .. 3
    BY <1>6, <2>3, LayoutSound DEF KnownSurface
  <2>5. PICK d \in Int : d = q.plane_params.offset[k] + q.plane_params.psize[k] /\ d <= q.data_size
    BY <2>4 DEF PlaneHolds
  <2>6. j \in 0 .. (q.batch_size - 1) /\ q.data_size \in Nat
    BY <1>5, <1>6 DEF KnownSurface, ShapeTyped
  <2>7. ~(q.mem_type = "SYSTEM" /\ q.batch_size > 1)
    BY <1>9, <2>10 DEF ShortOfMemory, SameShape
  <2>8. j * q.data_size + d <= q.allocated
    BY <1>6, <2>5, <2>6, <2>7, InsideMemory
  <2>9. e = j * q.data_size + d
    <3>1. q.plane_params.offset[k] \in Nat /\ q.plane_params.psize[k] \in Nat
      BY <2>4 DEF PlaneHolds
    <3> QED
      BY <2>2, <2>5, <2>6, <3>1
  <2> QED
    BY <1>9, <2>8, <2>9, <2>10 DEF SameShape
<1>11. CopyFaithful' /\ CopyVisible'
  BY <1>5 DEF CopyFaithful, CopyVisible
<1> QED
  BY <1>2, <1>5, <1>6, <1>8, <1>10, <1>11, RewritingStep

\* Where a copy between different layouts reads or writes a plane.
ReachedAt(L, x, k, rows) ==
  x.offset[StartPlane(k)] + (rows - 1) * x.pitch[k] + L.width[k] * L.bytes_per_pix[k]

LEMMA PlaneReached ==
  ASSUME NEW f, NEW w \in Nat, NEW h \in Nat, NEW k \in Nat, NEW rows \in Nat,
         NEW aw \in Alignments, NEW ah \in Alignments, NEW bw \in Alignments, NEW bh \in Alignments,
         k < GetColorFormatInfo(f, w, h, aw, ah).num_planes,
         rows > 0, rows <= h, ~(f = "YUV420" /\ h % 2 = 1)
  PROVE  LET e == ReachedAt(GetColorFormatInfo(f, w, h, aw, ah), GetColorFormatInfo(f, w, h, bw, bh), k, rows)
             x == GetColorFormatInfo(f, w, h, bw, bh)
         IN e \in Int /\ e <= x.psize[0] + x.psize[1] + x.psize[2]
<1>0. PICK L, x : L = GetColorFormatInfo(f, w, h, aw, ah) /\ x = GetColorFormatInfo(f, w, h, bw, bh)
  OBVIOUS
<1>9. PICK e, size : /\ e = ReachedAt(GetColorFormatInfo(f, w, h, aw, ah), GetColorFormatInfo(f, w, h, bw, bh), k, rows)
                     /\ size = x.psize[0] + x.psize[1] + x.psize[2]
  OBVIOUS
<1>10. e = x.offset[StartPlane(k)] + (rows - 1) * x.pitch[k] + L.width[k] * L.bytes_per_pix[k]
  BY <1>0, <1>9, Zenon DEF ReachedAt
<1>1. L.num_planes \in 0 .. 3 /\ L.num_planes = NumPlanes(f) /\ x.num_planes = NumPlanes(f)
  BY <1>0, PlanesGiven
<1>2. k \in 0 .. 2 /\ k < L.num_planes /\ k < x.num_planes
  BY <1>0, <1>1
<1>3. L.width[k] = PlaneWidth(f, w, k) /\ L.bytes_per_pix[k] = BytesPerPix(f)
  <2>1. \A n \in 0 .. 2 : n < L.num_planes => GivenPlane(L, f, w, h, aw, ah, n)
    BY <1>0, PlanesGiven, Zenon
  <2> QED
    BY <1>2, <2>1 DEF GivenPlane
<1>4. e <= size
  BY <1>0, <1>2, <1>3, <1>9, <1>10, RowsReach
<1>5. {L.width[k], L.bytes_per_pix[k], x.pitch[k]} \subseteq Nat
  BY <1>0, <1>2, PlaneFits
<1>6. x.offset[StartPlane(k)] \in Nat
  <2>1. PICK n : n = StartPlane(k)
    OBVIOUS
  <2>2. n \in 0 .. 2 /\ n < x.num_planes
    BY <1>1, <1>2, <2>1 DEF StartPlane
  <2>5. \A m \in 0 .. 2 : m < x.num_planes => GivenPlane(x, f, w, h, bw, bh, m)
    BY <1>0, PlanesGiven, Zenon
  <2>3. x.offset[n] = PlaneOffset(x.psize, n)
    BY <2>2, <2>5 DEF GivenPlane
  <2>4. x.psize[0] \in Nat /\ x.psize[1] \in Nat
    BY <1>0, PlaneFits
  <2> QED
    BY <2>1, <2>2, <2>3, <2>4 DEF PlaneOffset
<1>7. PICK o \in Nat, p \in Nat, b \in Nat, c \in Nat :
        o = x.offset[StartPlane(k)] /\ p = x.pitch[k] /\ b = L.width[k] /\ c = L.bytes_per_pix[k]
  BY <1>5, <1>6
<1>8. e = o + (rows - 1) * p + b * c
  BY <1>7, <1>10
<1>11. e \in Int
  BY <1>8
<1> QED
  BY <1>0, <1>4, <1>9, <1>11

\* Two surfaces that may be copied, of different layouts, one of which has planes.
LEMMA PlanesOf ==
  ASSUME NEW r, LaidOut(r), r.plane_params.num_planes # 0
  PROVE  \E aw, ah \in Alignments :
           /\ r.plane_params = GetColorFormatInfo(r.color_format, r.width, r.height, aw, ah)
           /\ r.data_size = r.plane_params.psize[0] + r.plane_params.psize[1] + r.plane_params.psize[2]
<1>1. r.plane_params # NoPlanes
  BY NoPlanesGiven
<1> QED
  BY <1>1, Zenon DEF LaidOut

LEMMA CopyReaches ==
  ASSUME SurfaceInv, NEW a \in Surfs, NEW b \in Surfs, MayCopy(a, b), Copyable(a, b), NEW s \in {a, b},
         surf[a].data_size = surf[b].data_size \/ ~(surf[a].color_format = "YUV420" /\ surf[a].height % 2 = 1),
         NEW i \in Elements(b), NEW e \in Reach(a, b, s, i)
  PROVE  e \in Int /\ e <= surf[s].data_size
<1>1. /\ KnownSurface(surf[a]) /\ KnownSurface(surf[b]) /\ Elements(b) = 0 .. (surf[b].batch_size - 1)
      /\ surf[a].batch_size = surf[b].batch_size /\ surf[b].batch_size \in Nat
  BY Existing DEF MayCopy
<1>2. CASE surf[a].data_size = surf[b].data_size
  <2>1. e = surf[a].data_size /\ surf[s].data_size = surf[a].data_size
    BY <1>2 DEF Reach
  <2> QED
    BY <1>1, <2>1 DEF KnownSurface, ShapeTyped
<1>3. CASE surf[a].data_size # surf[b].data_size
  <2>0. PICK L, x, rows, size :
          /\ L = surf[a].plane_params /\ x = surf[s].plane_params
          /\ rows = L.height[i] /\ size = surf[s].data_size
    OBVIOUS
  <2>1. PICK k \in 0 .. (L.num_planes - 1) :
          rows > 0 /\ e = ReachedAt(L, x, k, rows)
    BY <1>3, <2>0 DEF Reach, RowsCopied, ReachedAt
  <2>2. LaidOut(surf[a]) /\ LaidOut(surf[b]) /\ ShapeTyped(surf[a]) /\ ShapeTyped(surf[b])
    BY <1>1 DEF KnownSurface
  <2>3. L.num_planes \in 0 .. 3
    BY <2>0, <2>2, LayoutSound
  <2>4. L.num_planes # 0
    BY <2>1, <2>3
  <2>5. x.num_planes # 0
    BY <1>3, <2>0, <2>4 DEF Copyable
  <2>12. PICK f : f = surf[a].color_format
    OBVIOUS
  <2>6. PICK w \in Nat, h \in Nat : f = surf[a].color_format /\ w = surf[a].width /\ h = surf[a].height
    BY <2>2, <2>12 DEF ShapeTyped
  <2>7. LaidOut(surf[s]) /\ f = surf[s].color_format /\ w = surf[s].width /\ h = surf[s].height
    BY <2>2, <2>6 DEF MayCopy
  <2>8. PICK aw \in Alignments, ah \in Alignments : L = GetColorFormatInfo(f, w, h, aw, ah)
    BY <2>0, <2>2, <2>4, <2>6, PlanesOf
  <2>9. PICK bw \in Alignments, bh \in Alignments :
          x = GetColorFormatInfo(f, w, h, bw, bh) /\ size = x.psize[0] + x.psize[1] + x.psize[2]
    BY <2>0, <2>5, <2>7, PlanesOf
  <2>10. rows \in Nat /\ rows <= h
    <3>1. i \in 0 .. 2
      BY <1>1, <1>3 DEF MayCopy
    <3> QED
      BY <2>0, <2>8, <3>1, HeightBound
  <2>11. ~(f = "YUV420" /\ h % 2 = 1)
    BY <1>3, <2>6
  <2>14. k \in Nat /\ k < L.num_planes
    BY <2>1, <2>3
  <2>13. e \in Int /\ e <= size
    BY <2>1, <2>8, <2>9, <2>10, <2>11, <2>14, PlaneReached
  <2> QED
    BY <2>0, <2>13
<1> QED
  BY <1>2, <1>3

\* Copies stay inside their surfaces.
LEMMA CopyInside ==
  ASSUME SurfaceInv, NEW a \in Surfs, NEW b \in Surfs, MayCopy(a, b), NEW I, I \subseteq Elements(b),
         Copyable(a, b) \/ I = {}, \A t \in Live : SameShape(surf[t], surf'[t]),
         last'.op = "Copy", last'.from = a, last'.to = b, last'.ends = Ends(a, b, I)
  PROVE  AccessInBounds'
<1>1. /\ KnownSurface(surf[a]) /\ KnownSurface(surf[b]) /\ Elements(b) = 0 .. (surf[b].batch_size - 1)
      /\ surf[a].batch_size = surf[b].batch_size /\ a \in Live /\ b \in Live
  BY Existing DEF MayCopy
<1>2. DOMAIN last'.ends = {a, b}
  BY DEF Ends
<1> SUFFICES ASSUME ~OddRows', NEW s \in {a, b}, ~ShortOfMemory(s)', NEW e \in last'.ends[s]
             PROVE  e <= surf'[s].allocated
  BY <1>2, Zenon DEF AccessInBounds
<1>3. last'.ends[s] = UNION {{i * surf[s].data_size + d : d \in Reach(a, b, s, i)} : i \in I}
  BY DEF Ends
<1>4. PICK i \in I : e \in {i * surf[s].data_size + d : d \in Reach(a, b, s, i)}
  BY <1>3
<1>5. PICK d \in Reach(a, b, s, i) : e = i * surf[s].data_size + d
  BY <1>4
<1>6. Copyable(a, b) /\ i \in Elements(b)
  BY <1>4
<1>7. SameShape(surf[a], surf'[a]) /\ SameShape(surf[b], surf'[b]) /\ SameShape(surf[s], surf'[s])
  BY <1>1
<1>8. surf[a].data_size = surf[b].data_size \/ ~(surf[a].color_format = "YUV420" /\ surf[a].height % 2 = 1)
  BY <1>7 DEF OddRows, SameShape
<1>9. d \in Int /\ d <= surf[s].data_size
  BY <1>5, <1>6, <1>8, CopyReaches
<1>10. KnownSurface(surf[s]) /\ i \in 0 .. (surf[s].batch_size - 1)
  BY <1>1, <1>6
<1>11. ~(surf[s].mem_type = "SYSTEM" /\ surf[s].batch_size > 1)
  BY <1>7 DEF ShortOfMemory, SameShape
<1>12. e <= surf[s].allocated
  BY <1>5, <1>9, <1>10, <1>11, InsideMemory
<1> QED
  BY <1>7, <1>12 DEF SameShape

\* What is written is what was there, what is copied, or torn.
LEMMA CopiedPlaneOneOf ==
  ASSUME NEW a, NEW b, NEW i, NEW t, NEW old, NEW new
  PROVE  CopiedPlane(a, b, i, t, old, new) \in {Torn, old, new}
BY Zenon DEF CopiedPlane

LEMMA BothData ==
  ASSUME SurfaceInv, NEW a \in Surfs, NEW b \in Surfs, MayCopy(a, b), NEW D, D = DOMAIN surf[b].mem[0]
  PROVE  /\ surf[a].mem \in [Elements(b) -> [D -> Values \cup {Torn}]]
         /\ surf[b].mem \in [Elements(b) -> [D -> Values \cup {Torn}]]
         /\ DataOf(surf[b]) = [Elements(b) -> [D -> Values \cup {Torn}]]
<1>1. /\ surf[a].mem \in DataOf(surf[a]) /\ surf[b].mem \in DataOf(surf[b])
      /\ surf[a].batch_size \in Nat \ {0} /\ surf[b].batch_size = surf[a].batch_size
      /\ Elements(b) = 0 .. (surf[a].batch_size - 1)
      /\ DOMAIN surf[a].mem[0] = D
  BY Existing DEF MayCopy
<1>2. 0 \in 0 .. (surf[a].batch_size - 1)
  BY <1>1
<1>3. DOMAIN surf[a].mem[0] = DataPlanes(surf[a].plane_params)
      /\ DOMAIN surf[b].mem[0] = DataPlanes(surf[b].plane_params)
  BY <1>1, <1>2 DEF DataOf
<1>4. /\ DataOf(surf[a]) = [Elements(b) -> [D -> Values \cup {Torn}]]
      /\ DataOf(surf[b]) = [Elements(b) -> [D -> Values \cup {Torn}]]
  BY <1>1, <1>3, Zenon DEF DataOf
<1> QED
  BY <1>1, <1>4

LEMMA CopiedData ==
  ASSUME SurfaceInv, NEW a \in Surfs, NEW b \in Surfs, MayCopy(a, b), NEW i \in Elements(b)
  PROVE  CopiedElement(a, b, i) \in [DOMAIN surf[b].mem[0] -> Values \cup {Torn}]
<1>1. PICK D : D = DOMAIN surf[b].mem[0]
  OBVIOUS
<1>2. surf[a].mem[i] \in [D -> Values \cup {Torn}] /\ surf[b].mem[i] \in [D -> Values \cup {Torn}]
  BY <1>1, BothData
<1>3. \/ CopiedElement(a, b, i) = [k \in D |-> surf[a].mem[i][k]]
      \/ CopiedElement(a, b, i) = surf[b].mem[i]
      \/ CopiedElement(a, b, i) =
           [k \in D |-> CopiedPlane(surf[a].plane_params, surf[b].plane_params, i, k,
                                    surf[b].mem[i][k], surf[a].mem[i][k])]
  <2>1. DOMAIN surf[b].mem[i] = D
    BY <1>2
  <2> QED
    BY <2>1, Zenon DEF CopiedElement
<1>4. \A k \in D : CopiedPlane(surf[a].plane_params, surf[b].plane_params, i, k,
                               surf[b].mem[i][k], surf[a].mem[i][k]) \in Values \cup {Torn}
  BY <1>2, CopiedPlaneOneOf
<1> QED
  BY <1>1, <1>2, <1>3, <1>4

\* Data of equal size is copied as it is.
LEMMA SameSizeCopied ==
  ASSUME SurfaceInv, NEW a \in Surfs, NEW b \in Surfs, MayCopy(a, b), surf[a].data_size = surf[b].data_size
  PROVE  [i \in Elements(b) |-> CopiedElement(a, b, i)] = surf[a].mem
<1>1. PICK D : D = DOMAIN surf[b].mem[0]
  OBVIOUS
<1>2. PICK m : m = surf[a].mem
  OBVIOUS
<1>3. /\ m \in [Elements(b) -> [D -> Values \cup {Torn}]]
      /\ surf[b].mem \in [Elements(b) -> [D -> Values \cup {Torn}]]
  BY <1>1, <1>2, BothData
<1>4. ASSUME NEW i \in Elements(b) PROVE CopiedElement(a, b, i) = m[i]
  <2>1. m[i] \in [D -> Values \cup {Torn}] /\ DOMAIN surf[b].mem[i] = D
    BY <1>3
  <2>2. CopiedElement(a, b, i) = [k \in D |-> m[i][k]]
    BY <1>2, <2>1, Zenon DEF CopiedElement
  <2> QED
    BY <2>1, <2>2
<1> QED
  BY <1>2, <1>3, <1>4

\* A surface whose planes have no rows has no data.
LEMMA NoRowsNoData ==
  ASSUME NEW f, NEW w \in Nat, NEW aw \in Alignments, NEW ah \in Alignments,
         NEW L, L = GetColorFormatInfo(f, w, 0, aw, ah)
  PROVE  L.psize[0] + L.psize[1] + L.psize[2] = 0
<1> SUFFICES ASSUME NEW i \in 0 .. 2 PROVE L.psize[i] = 0
  OBVIOUS
<1>1. CASE L.num_planes <= i
  BY <1>1, PlanesAbsent
<1>2. CASE ~(L.num_planes <= i)
  <2>1. \A n \in 0 .. 2 : n < L.num_planes => GivenPlane(L, f, w, 0, aw, ah, n)
    BY PlanesGiven, Zenon
  <2>2. L.num_planes \in 0 .. 3
    BY PlanesGiven
  <2>3. GivenPlane(L, f, w, 0, aw, ah, i) /\ L.pitch[i] \in Nat
    BY <1>2, <2>1, <2>2, PlaneFits
  <2>4. PlaneHeight(0, i) = 0 /\ AlignUp(0, ah) = 0
    BY AlignedUp DEF PlaneHeight
  <2> QED
    BY <2>3, <2>4 DEF GivenPlane
<1> QED
  BY <1>1, <1>2

\* The planes that are copied to the first one have its rows.
LEMMA FirstRows ==
  ASSUME NEW f, NEW w \in Nat, NEW h \in Nat, NEW aw \in Alignments, NEW ah \in Alignments,
         NEW L, L = GetColorFormatInfo(f, w, h, aw, ah), L.num_planes \in {1, 2},
         NEW k \in 0 .. (L.num_planes - 1)
  PROVE  L.pitch[k] = L.pitch[0] /\ L.height[0] = h
<1>1. L.num_planes = NumPlanes(f)
  BY PlanesGiven
<1>2. \A n \in 0 .. 2 : n < L.num_planes => GivenPlane(L, f, w, h, aw, ah, n)
  BY PlanesGiven, Zenon
<1>3. GivenPlane(L, f, w, h, aw, ah, 0) /\ GivenPlane(L, f, w, h, aw, ah, k) /\ k \in {0, 1}
  BY <1>2
<1>4. PlaneHeight(h, 0) = h
  BY DEF PlaneHeight
<1>5. PlaneWidth(f, w, k) = PlaneWidth(f, w, 0)
  BY <1>1 DEF NumPlanes, PlaneWidth
<1> QED
  BY <1>3, <1>4, <1>5 DEF GivenPlane

LEMMA FirstPlaneCopied ==
  ASSUME SurfaceInv, NEW a \in Surfs, NEW b \in Surfs, MayCopy(a, b), Copyable(a, b),
         surf[a].data_size # surf[b].data_size, surf[a].plane_params.num_planes \in {1, 2}
  PROVE  CopiedElement(a, b, 0)[0] = surf[a].mem[0][0]
<1>1. PICK L, M : L = surf[a].plane_params /\ M = surf[b].plane_params
  OBVIOUS
<1>2. /\ LaidOut(surf[a]) /\ LaidOut(surf[b]) /\ ShapeTyped(surf[a]) /\ surf[b].mem \in DataOf(surf[b])
      /\ surf[b].batch_size \in Nat \ {0}
  BY Existing DEF MayCopy, KnownSurface
<1>3. L.num_planes \in {1, 2} /\ M.num_planes = L.num_planes
  BY <1>1 DEF Copyable
<1>4. PICK f : f = surf[a].color_format
  OBVIOUS
<1>5. PICK w \in Nat, h \in Nat : w = surf[a].width /\ h = surf[a].height
  BY <1>2 DEF ShapeTyped
<1>6. f = surf[b].color_format /\ w = surf[b].width /\ h = surf[b].height
  BY <1>4, <1>5 DEF MayCopy
<1>7. L.num_planes # 0 /\ M.num_planes # 0
  BY <1>3
<1>8. PICK aw \in Alignments, ah \in Alignments :
        L = GetColorFormatInfo(f, w, h, aw, ah) /\ surf[a].data_size = L.psize[0] + L.psize[1] + L.psize[2]
  BY <1>1, <1>2, <1>4, <1>5, <1>7, PlanesOf
<1>9. PICK bw \in Alignments, bh \in Alignments :
        M = GetColorFormatInfo(f, w, h, bw, bh) /\ surf[b].data_size = M.psize[0] + M.psize[1] + M.psize[2]
  BY <1>1, <1>2, <1>6, <1>7, PlanesOf
<1>10. h # 0
  <2>1. h = 0 => surf[a].data_size = 0 /\ surf[b].data_size = 0
    BY <1>8, <1>9, NoRowsNoData
  <2> QED
    BY <2>1
<1>11. ASSUME NEW k \in 0 .. (L.num_planes - 1)
       PROVE  L.pitch[k] = L.pitch[0] /\ M.pitch[k] = M.pitch[0] /\ L.height[0] = h
  <2>1. L.pitch[k] = L.pitch[0] /\ L.height[0] = h
    BY <1>3, <1>8, FirstRows
  <2>2. M.pitch[k] = M.pitch[0]
    BY <1>3, <1>9, FirstRows
  <2> QED
    BY <2>1, <2>2
<1>12. 0 \in 0 .. (L.num_planes - 1)
  BY <1>3
<1>13. PICK old, new : old = surf[b].mem[0][0] /\ new = surf[a].mem[0][0]
  OBVIOUS
<1>14. CopiedPlane(L, M, 0, 0, old, new) = new
  <2>1. L.height[0] = h
    BY <1>11, <1>12
  <2> DEFINE writers == {k \in 0 .. (L.num_planes - 1) : StartPlane(k) = 0}
  <2>2. writers # {}
    BY <1>12 DEF StartPlane
  <2>3. \A k \in writers : RowsOf(L, M, k, 0) /\ RowsCopied(L, 0) >= L.height[0]
    BY <1>11, <2>1 DEF RowsOf, RowsCopied
  <2>4. RowsCopied(L, 0) # 0
    BY <1>10, <2>1 DEF RowsCopied
  <2>5. 0 # 2
    OBVIOUS
  <2> QED
    BY <2>2, <2>3, <2>4, <2>5, Zenon DEF CopiedPlane
<1>15. 0 \in DOMAIN surf[b].mem[0]
  <2>1. 0 \in 0 .. (surf[b].batch_size - 1)
    BY <1>2
  <2>2. DOMAIN surf[b].mem[0] = DataPlanes(M)
    BY <1>1, <1>2, <2>1 DEF DataOf
  <2> QED
    BY <1>3, <2>2 DEF DataPlanes
<1>16. surf[a].plane_params.num_planes # 0
  BY <1>1, <1>7
<1>17. CopiedElement(a, b, 0) = [k \in DOMAIN surf[b].mem[0] |->
          CopiedPlane(L, M, 0, k, surf[b].mem[0][k], surf[a].mem[0][k])]
  BY <1>1, <1>16, Zenon DEF CopiedElement
<1> QED
  BY <1>13, <1>14, <1>15, <1>17

LEMMA CopyStep ==
  ASSUME SurfaceInv, NEW a \in Surfs, NEW b \in Surfs, Copy(a, b)
  PROVE  SurfaceInv'
<1>1. MayCopy(a, b) /\ Copyable(a, b) /\ Call /\ UNCHANGED <<unified, lost>>
  BY DEF Copy
<1>2. PICK q, new : q = surf[b] /\ new = [i \in Elements(b) |-> CopiedElement(a, b, i)]
  OBVIOUS
<1>3. PICK c : c = SetMem(q, new)
  OBVIOUS
<1>4. PICK r : r = IF Cached(b) THEN Invalidated(c, Elements(b)) ELSE c
  OBVIOUS
<1>5. surf' = [surf EXCEPT ![b] = r]
  BY <1>2, <1>3, <1>4, Zenon DEF Copy
<1>6. last' = [op |-> "Copy", ret |-> 0, from |-> a, to |-> b, ends |-> Ends(a, b, Elements(b))]
  BY Zenon DEF Copy
<1>7. /\ a \in Live /\ b \in Live /\ a # b /\ KnownSurface(q) /\ KnownSurface(surf[a])
      /\ Elements(b) = 0 .. (q.batch_size - 1)
      /\ q.batch_size \in Nat \ {0} /\ surf[a].batch_size = q.batch_size
  BY <1>1, <1>2, Existing DEF MayCopy
<1>8. new \in DataOf(q)
  <2>1. DataOf(q) = [Elements(b) -> [DOMAIN surf[b].mem[0] -> Values \cup {Torn}]]
    BY <1>1, <1>2, BothData
  <2>2. \A i \in Elements(b) : CopiedElement(a, b, i) \in [DOMAIN surf[b].mem[0] -> Values \cup {Torn}]
    BY <1>1, CopiedData
  <2> QED
    BY <1>2, <2>1, <2>2
<1>9. /\ Rewritten(q, c) /\ c.mem = new
      /\ c.cpu = IF q.mem_type \in {"SYSTEM", "PINNED", "UNIFIED", "VB"} THEN new ELSE q.cpu
  BY <1>3, <1>7, <1>8, SetMemRewrites
<1>10. KnownSurface(c) /\ c.batch_size = q.batch_size
  BY <1>7, <1>9, RewrittenKnown DEF Rewritten, SameShape
<1>11. Rewritten(q, r) /\ r.mem = new /\ (q.mem_type # "DEVICE" => r.cpu = new)
  <2>1. CASE Cached(b)
    <3>1. /\ Rewritten(c, r) /\ r.mem = c.mem
          /\ r.cpu = [j \in 0 .. (c.batch_size - 1) |-> IF j \in Elements(b) THEN c.mem[j] ELSE c.cpu[j]]
      BY <1>4, <1>10, <2>1, InvalidatedRewrites
    <3>2. r.cpu = new
      BY <1>2, <1>7, <1>9, <1>10, <3>1
    <3>3. Rewritten(q, r)
      BY <1>9, <3>1 DEF Rewritten, SameShape
    <3> QED
      BY <1>9, <3>1, <3>2, <3>3
  <2>2. CASE ~Cached(b)
    <3>1. r = c
      BY <1>4, <2>2
    <3>2. q.mem_type \in {"DEVICE", "SYSTEM", "UNIFIED", "VB"}
      BY <1>2, <1>7, <2>2 DEF KnownSurface, ShapeTyped, MemTypes, Cached
    <3> QED
      BY <1>9, <3>1, <3>2
  <2> QED
    BY <2>1, <2>2
<1>12. /\ surf'[b] = r /\ surf'[a] = surf[a]
       /\ \A t \in Live : SameShape(surf[t], surf'[t])
  <2>1. /\ surf'[b] = r /\ \A t \in Surfs \ {b} : surf'[t] = surf[t]
        /\ \A t \in Live : SameShape(surf[t], surf'[t])
    BY <1>2, <1>5, <1>7, <1>11, OthersKept
  <2> QED
    BY <1>7, <2>1
<1>13. AccessInBounds'
  <2>1. last'.op = "Copy" /\ last'.from = a /\ last'.to = b /\ last'.ends = Ends(a, b, Elements(b))
    BY <1>6
  <2> QED
    BY <1>1, <1>12, <2>1, CopyInside
<1>14. last'.op = "Copy" /\ last'.from = a /\ last'.to = b
  BY <1>6
<1>15. CopyVisible'
  <2>1. r.mem_type = q.mem_type
    BY <1>11 DEF Rewritten, SameShape
  <2> QED
    BY <1>11, <1>12, <1>14, <2>1, Zenon DEF CopyVisible
<1>16. CopyFaithful'
  <2>1. r.data_size = q.data_size
    BY <1>11 DEF Rewritten, SameShape
  <2>2. surf[a].data_size = q.data_size => surf[a].mem = r.mem
    BY <1>1, <1>2, <1>11, SameSizeCopied
  <2>3. surf[a].data_size # q.data_size /\ surf[a].plane_params.num_planes \in {1, 2}
          => surf[a].mem[0][0] = r.mem[0][0]
    <3> HAVE surf[a].data_size # q.data_size /\ surf[a].plane_params.num_planes \in {1, 2}
    <3>1. CopiedElement(a, b, 0)[0] = surf[a].mem[0][0]
      BY <1>1, <1>2, FirstPlaneCopied
    <3>2. 0 \in Elements(b)
      BY <1>7
    <3>3. r.mem[0] = CopiedElement(a, b, 0)
      BY <1>2, <1>11, <3>2
    <3> QED
      BY <3>1, <3>3
  <2> QED
    BY <1>12, <1>14, <2>1, <2>2, <2>3, Zenon DEF CopyFaithful
<1> QED
  BY <1>1, <1>2, <1>5, <1>7, <1>11, <1>13, <1>15, <1>16, RewritingStep

LEMMA CopyFailsStep ==
  ASSUME SurfaceInv, NEW a \in Surfs, NEW b \in Surfs, NEW n \in Elements(b), CopyFails(a, b, n)
  PROVE  SurfaceInv'
<1>1. MayCopy(a, b) /\ (Copyable(a, b) \/ n = 0) /\ Call /\ UNCHANGED <<unified, lost>>
  BY DEF CopyFails
<1>2. PICK q, new : q = surf[b] /\ new = [i \in Elements(b) |-> IF i < n THEN CopiedElement(a, b, i) ELSE q.mem[i]]
  OBVIOUS
<1>3. surf' = [surf EXCEPT ![b] = SetMem(q, new)]
  BY <1>2, Zenon DEF CopyFails
<1>4. last'.op = "Copy" /\ last'.ret = -1 /\ last'.from = a /\ last'.to = b
      /\ last'.ends = Ends(a, b, 0 .. (n - 1))
  BY DEF CopyFails
<1>5. b \in Live /\ KnownSurface(q) /\ Elements(b) = 0 .. (q.batch_size - 1) /\ q.batch_size \in Nat
  BY <1>1, <1>2, Existing DEF MayCopy
<1>6. new \in DataOf(q)
  <2>1. DataOf(q) = [Elements(b) -> [DOMAIN surf[b].mem[0] -> Values \cup {Torn}]]
        /\ q.mem \in [Elements(b) -> [DOMAIN surf[b].mem[0] -> Values \cup {Torn}]]
    BY <1>1, <1>2, BothData
  <2>2. \A i \in Elements(b) : CopiedElement(a, b, i) \in [DOMAIN surf[b].mem[0] -> Values \cup {Torn}]
    BY <1>1, CopiedData
  <2> QED
    BY <1>2, <2>1, <2>2
<1>7. Rewritten(q, SetMem(q, new))
  BY <1>5, <1>6, SetMemRewrites
<1>8. \A t \in Live : SameShape(surf[t], surf'[t])
  BY <1>2, <1>3, <1>5, <1>7, OthersKept
<1>9. 0 .. (n - 1) \subseteq Elements(b) /\ (n = 0 => 0 .. (n - 1) = {})
  BY <1>5
<1>10. AccessInBounds'
  BY <1>1, <1>4, <1>8, <1>9, CopyInside
<1>11. CopyFaithful' /\ CopyVisible'
  BY <1>4 DEF CopyFaithful, CopyVisible
<1> QED
  BY <1>1, <1>2, <1>3, <1>5, <1>7, <1>10, <1>11, RewritingStep

LEMMA SurfaceInitInv == SurfaceInit => SurfaceInv
<1> SUFFICES ASSUME SurfaceInit PROVE SurfaceInv
  OBVIOUS
<1>1. Live = {}
  BY DEF SurfaceInit, Live
<1>2. /\ unified \in BOOLEAN /\ ops \in 0 .. MaxOps /\ lost = {} /\ last.op = "none"
      /\ surf = [s \in Surfs |-> surf[s]]
  BY SurfaceConstants DEF SurfaceInit, NoCall
<1> QED
  BY <1>1, <1>2 DEF SurfaceInv, AccessInBounds, CopyFaithful, CopyVisible, HostWritesDelivered

LEMMA SurfaceStepInv == SurfaceInv /\ [SurfaceNext]_surfaceVars => SurfaceInv'
<1> SUFFICES ASSUME SurfaceInv, [SurfaceNext]_surfaceVars PROVE SurfaceInv'
  OBVIOUS
<1>1. CASE UNCHANGED surfaceVars
  BY <1>1 DEF surfaceVars, SurfaceInv, Live, AccessInBounds, OddRows, ShortOfMemory, CopyFaithful, CopyVisible,
              HostWritesDelivered
<1>2. CASE SurfaceNext
  <2>1. PICK s \in Surfs : SurfaceStep(s)
    BY <1>2 DEF SurfaceNext
  <2>2. ASSUME NEW p \in CreateParams[s], CreateSurface(s, p) \/ CreateFromPool(s, p) PROVE SurfaceInv'
    BY <2>2, CreationStep
  <2>3. CASE Destroy(s)
    BY <2>3, DestroyStep
  <2>4. ASSUME NEW i \in Elements(s), NEW v \in Values, DeviceWrites(s, i, v) \/ HostWrites(s, i, v)
        PROVE  SurfaceInv'
    BY <2>4, DeviceWritesStep, HostWritesStep
  <2>5. ASSUME NEW i \in Elements(s), GetHostData(s, i) PROVE SurfaceInv'
    BY <2>5, GetHostDataStep
  <2>6. ASSUME NEW i \in Elements(s) \cup {-1}, SyncForCpu(s, i) \/ SyncHostToDevice(s, i) PROVE SurfaceInv'
    BY <2>6, SyncForCpuStep, SyncHostToDeviceStep
  <2>7. ASSUME NEW i \in Elements(s) \cup {-1}, NEW k \in -1 .. 2, NEW v \in Values, Memset(s, i, k, v)
        PROVE  SurfaceInv'
    BY <2>7, MemsetStep
  <2>8. ASSUME NEW b \in Surfs, Copy(s, b) \/ \E n \in Elements(b) : CopyFails(s, b, n) PROVE SurfaceInv'
    BY <2>8, CopyStep, CopyFailsStep
  <2> QED
    BY <2>1, <2>2, <2>3, <2>4, <2>5, <2>6, <2>7, <2>8, Zenon DEF SurfaceStep
<1> QED
  BY <1>1, <1>2

LEMMA SurfaceInvCorrect == SurfaceInv => SurfaceCorrect
<1> SUFFICES ASSUME SurfaceInv PROVE SurfaceCorrect
  OBVIOUS
<1>1. \A s \in Live : KnownSurface(surf[s])
  BY DEF SurfaceInv, KnownSurface
<1>2. SurfaceTypeOK
  <2>1. ASSUME NEW s \in Live
        PROVE  /\ surf[s].mem_type \in MemTypes \ {"DEFAULT", "PINNED"}
               /\ surf[s].batch_size > 0 /\ surf[s].mapped \subseteq Elements(s)
               /\ surf[s].host_data_ \subseteq surf[s].mapped
               /\ \A i \in Elements(s) : \A k \in DOMAIN surf[s].mem[i] :
                    {surf[s].mem[i][k], surf[s].cpu[i][k]} \subseteq Values \cup {Torn}
    <3>1. KnownSurface(surf[s]) /\ surf[s].batch_size \in Nat \ {0}
          /\ Elements(s) = 0 .. (surf[s].batch_size - 1)
          /\ surf[s].mem \in DataOf(surf[s]) /\ surf[s].cpu \in DataOf(surf[s])
      BY Existing DEF Live
    <3>2. surf[s].mem_type \in MemTypes \ {"DEFAULT", "PINNED"} /\ HostCopies(surf[s])
      BY <3>1 DEF KnownSurface, ShapeTyped
    <3>3. surf[s].host_data_ \subseteq surf[s].mapped /\ surf[s].mapped \subseteq Elements(s)
      BY <3>1, <3>2 DEF HostCopies
    <3>4. \A i \in Elements(s) : \A k \in DOMAIN surf[s].mem[i] :
            {surf[s].mem[i][k], surf[s].cpu[i][k]} \subseteq Values \cup {Torn}
      BY <3>1 DEF DataOf
    <3> QED
      BY <3>1, <3>2, <3>3, <3>4
  <2>2. unified \in BOOLEAN /\ ops \in 0 .. MaxOps /\ lost \subseteq Surfs \X Nat
    BY DEF SurfaceInv
  <2> QED
    BY <2>1, <2>2 DEF SurfaceTypeOK
<1>3. LayoutFits
  <2> SUFFICES ASSUME NEW s \in Live
               PROVE  LET L == surf[s].plane_params IN
                      /\ \A k \in PlaneIds(s) :
                           /\ L.width[k] * L.bytes_per_pix[k] <= L.pitch[k]
                           /\ L.pitch[k] * L.height[k] <= L.psize[k]
                           /\ L.offset[k] + L.psize[k] <= surf[s].data_size
                      /\ \A j, k \in PlaneIds(s) : j < k => L.offset[j] + L.psize[j] <= L.offset[k]
                      /\ ~ShortOfMemory(s) => surf[s].batch_size * surf[s].data_size <= surf[s].allocated
    BY Zenon DEF LayoutFits
  <2>1. ShapeTyped(surf[s]) /\ LaidOut(surf[s])
    BY <1>1 DEF KnownSurface
  <2>2. \A k \in PlaneIds(s) : PlaneHolds(surf[s], k)
    BY <2>1, LayoutSound, Zenon DEF PlaneIds
  <2>3. LET L == surf[s].plane_params IN
        \A j, k \in PlaneIds(s) : j < k => L.offset[j] + L.psize[j] <= L.offset[k]
    BY <2>1, LayoutSound, Zenon DEF PlaneIds
  <2>4. ~ShortOfMemory(s) => surf[s].mem_type # "SYSTEM" \/ surf[s].batch_size = 1
    BY <2>1 DEF ShortOfMemory, ShapeTyped
  <2>5. ~ShortOfMemory(s) => surf[s].batch_size * surf[s].data_size <= surf[s].allocated
    BY <2>1, <2>4, Zenon DEF LaidOut
  <2> QED
    BY <2>2, <2>3, <2>5, Zenon DEF PlaneHolds
<1> QED
  BY <1>2, <1>3 DEF SurfaceInv, SurfaceCorrect

\* Surfaces are laid out inside their memory for every size and format; fills and copies
\* stay there, and what was copied or written on one side is what the other reads
\* (MemAllocator*, BufSurfaceService::Memset and Copy, BufSurfaceWrapper::GetHostData and
\* SyncHostToDevice).
THEOREM SurfacesAreCorrect == SurfaceSpec => []SurfaceCorrect
<1>1. SurfaceSpec => []SurfaceInv
  BY SurfaceInitInv, SurfaceStepInv, PTL DEF SurfaceSpec
<1> QED
  BY <1>1, SurfaceInvCorrect, PTL
==============================================================================
