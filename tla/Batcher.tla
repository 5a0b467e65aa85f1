------------------------------ MODULE Batcher ------------------------------
(***************************************************************************)
(* infer_server::Batcher with the one-shot Timer it uses: clients add      *)
(* items, a full batch is emitted by the client that filled it, and a      *)
(* partial one by the thread of TimeCounter when the timeout of its first  *)
(* item expires.                                                           *)
(*                                                                         *)
(* cache_ and first_item_ are protected by cache_mutex_.  timer_id_ is     *)
(* not: the task a timer runs clears it after the notifier returned, with  *)
(* no lock held.  AddItem is therefore split at its accesses of timer_id_  *)
(* and of the events of TimeCounter.  Time is abstracted: an event may     *)
(* fire at any moment after it was added.                                  *)
(***************************************************************************)
EXTENDS Integers, Sequences, FiniteSets, Sublists

CONSTANTS
  Clients,     \* threads that call AddItem or Emit
  Items,       \* items, each added once
  BatchSize,   \* batch_size_
  Timeout,     \* timeout_: 0 means no timeout
  MaxEvents    \* bound on the timer events created in a behaviour

ASSUME BatcherConstants ==
  /\ BatchSize \in Nat \ {0}
  /\ Timeout \in Nat
  /\ MaxEvents \in Nat
  /\ Items # {}
  /\ "timer" \notin Clients

Events == 1 .. MaxEvents
NoEvent == 0

VARIABLES
  cache_, first_item_, timer_id_,
  events_,     \* TimeCounter::events_, in the order of their alarm times
  created,     \* events created so far
  timer_pc, tev,    \* the thread of TimeCounter, and the event it notifies
  cpc, citem,  \* clients, and the item each one adds
  handle,      \* what Add returned to the client that is inside Start
  held,        \* batches taken out of cache_ and not yet given to notifier_
  emitted,     \* items given to notifier_
  added        \* items given to AddItem

batcherVars == <<cache_, first_item_, timer_id_, events_, created, timer_pc, tev, cpc,
          citem, handle, held, emitted, added>>

timer == <<events_, created, timer_pc, tev>>

Actors == Clients \cup {"timer"}
Locked == {"cancel", "clear", "start", "handle", "put"}

BatcherTypeOK ==
  /\ cache_ \in Seq(Items) /\ Len(cache_) < BatchSize
  /\ first_item_ \in BOOLEAN
  /\ timer_id_ \in Events \cup {NoEvent}
  /\ events_ \in Seq(Events)
  /\ created \in 0 .. MaxEvents
  /\ timer_pc \in {"idle", "notify", "deliver", "store", "dead"}
  /\ tev \in Events \cup {NoEvent}
  /\ cpc \in [Clients -> {"idle", "deliver", "dead"} \cup Locked]
  /\ citem \in [Clients -> Items]
  /\ handle \in Events \cup {NoEvent}
  /\ held \in [Actors -> Seq(Items)]
  /\ emitted \subseteq Items /\ added \subseteq Items

BatcherInit ==
  /\ cache_ = <<>>
  /\ first_item_ = TRUE
  /\ timer_id_ = NoEvent
  /\ events_ = <<>> /\ created = 0
  /\ timer_pc = "idle" /\ tev = NoEvent
  /\ cpc = [c \in Clients |-> "idle"]
  /\ citem = [c \in Clients |-> CHOOSE x \in Items : TRUE]
  /\ handle = NoEvent
  /\ held = [a \in Actors |-> <<>>]
  /\ emitted = {} /\ added = {}

CacheMutexFree == \A c \in Clients : cpc[c] \notin Locked
Idle == timer_id_ = NoEvent
Destroyed == \E c \in Clients : cpc[c] = "dead"

-----------------------------------------------------------------------------
(* Batcher::AddItem *)

\* Takes cache_mutex_ and looks whether a timer has to be started.
AddItem(c, x) ==
  /\ cpc[c] = "idle" /\ CacheMutexFree /\ ~Destroyed
  /\ x \notin added
  /\ added' = added \cup {x}
  /\ citem' = [citem EXCEPT ![c] = x]
  /\ cpc' = [cpc EXCEPT ![c] =
               IF Timeout # 0 /\ first_item_ THEN "cancel" ELSE "put"]
  /\ UNCHANGED <<cache_, first_item_, timer_id_, timer, handle, held, emitted>>

\* Timer::Cancel: TimeCounter::Remove of the handle.  An event that is being
\* notified is no longer in events_, and Remove does not find it.
Cancel(c) ==
  /\ cpc[c] = "cancel"
  /\ events_' = Without(events_, {timer_id_})
  /\ cpc' = [cpc EXCEPT ![c] = IF Idle THEN "start" ELSE "clear"]
  /\ UNCHANGED <<cache_, first_item_, timer_id_, created, timer_pc, tev, citem,
                 handle, held, emitted, added>>

\* The store at the end of Timer::Cancel.
CancelStore(c) ==
  /\ cpc[c] = "clear"
  /\ timer_id_' = NoEvent
  /\ cpc' = [cpc EXCEPT ![c] = "start"]
  /\ UNCHANGED <<cache_, first_item_, timer, citem, handle, held, emitted, added>>

\* Mutant: no new event when the old one is still being notified.
StartUnlessFiring(c) ==
  /\ cpc[c] = "start"
  /\ \/ /\ timer_pc = "idle" /\ created < MaxEvents
        /\ created' = created + 1
        /\ events_' = Append(events_, created')
        /\ handle' = created'
        /\ cpc' = [cpc EXCEPT ![c] = "handle"]
     \/ /\ timer_pc # "idle"
        /\ cpc' = [cpc EXCEPT ![c] = "put"]
        /\ UNCHANGED <<created, events_, handle>>
  /\ UNCHANGED <<cache_, first_item_, timer_id_, timer_pc, tev, citem, held, emitted,
                 added>>

\* Timer::Start, up to the return of TimeCounter::Add.  Its "Timer is busy"
\* branch is never taken from here: see TimerNotBusy.
Start(c) ==
  /\ cpc[c] = "start" /\ Idle
  /\ created < MaxEvents
  /\ created' = created + 1
  /\ events_' = Append(events_, created')
  /\ handle' = created'
  /\ cpc' = [cpc EXCEPT ![c] = "handle"]
  /\ UNCHANGED <<cache_, first_item_, timer_id_, timer_pc, tev, citem, held, emitted,
                 added>>

\* timer_id_.store of what Add returned.
StoreHandle(c) ==
  /\ cpc[c] = "handle"
  /\ timer_id_' = handle
  /\ cpc' = [cpc EXCEPT ![c] = "put"]
  /\ UNCHANGED <<cache_, first_item_, timer, citem, handle, held, emitted, added>>

\* Mutant: first_item_ is not set again when a full batch is taken out.
PutKeepsFirst(c) ==
  /\ cpc[c] = "put"
  /\ LET full == Append(cache_, citem[c])
     IN IF Len(full) >= BatchSize
        THEN /\ held' = [held EXCEPT ![c] = full]
             /\ cache_' = <<>>
             /\ cpc' = [cpc EXCEPT ![c] = "deliver"]
        ELSE /\ cache_' = full
             /\ cpc' = [cpc EXCEPT ![c] = "idle"]
             /\ UNCHANGED held
  /\ first_item_' = (Timeout = 0 /\ first_item_)
  /\ UNCHANGED <<timer_id_, timer, citem, handle, emitted, added>>

\* The end of AddItem: emplace_back, and the swap of Notify when the batch is
\* full; cache_mutex_ is released.
Put(c) ==
  /\ cpc[c] = "put"
  /\ LET full == Append(cache_, citem[c])
     IN IF Len(full) > BatchSize - 1
        THEN /\ held' = [held EXCEPT ![c] = full]
             /\ cache_' = <<>>
             /\ first_item_' = TRUE
             /\ cpc' = [cpc EXCEPT ![c] = "deliver"]
        ELSE /\ cache_' = full
             /\ first_item_' = (Timeout = 0 /\ first_item_)
             /\ cpc' = [cpc EXCEPT ![c] = "idle"]
             /\ UNCHANGED held
  /\ UNCHANGED <<timer_id_, timer, citem, handle, emitted, added>>

-----------------------------------------------------------------------------
(* Batcher::Emit and Batcher::Notify *)

TakeBatch(a) ==
  /\ held' = [held EXCEPT ![a] = cache_]
  /\ cache_' = <<>>
  /\ first_item_' = TRUE

\* Emit called by a client (Cache::Flush).
Emit(c) ==
  /\ cpc[c] = "idle" /\ CacheMutexFree /\ ~Destroyed
  /\ cache_ # <<>>
  /\ TakeBatch(c)
  /\ cpc' = [cpc EXCEPT ![c] = "deliver"]
  /\ UNCHANGED <<timer_id_, timer, citem, handle, emitted, added>>

\* notifier_(std::move(tmp_cache)), outside of cache_mutex_.
Deliver(c) ==
  /\ cpc[c] = "deliver"
  /\ emitted' = emitted \cup Elems(held[c])
  /\ held' = [held EXCEPT ![c] = <<>>]
  /\ cpc' = [cpc EXCEPT ![c] = "idle"]
  /\ UNCHANGED <<cache_, first_item_, timer_id_, timer, citem, handle, added>>

-----------------------------------------------------------------------------
(* The thread of TimeCounter: Loop, and the task of Timer::Start.           *)

Fire ==
  /\ timer_pc = "idle" /\ events_ # <<>>
  /\ tev' = Head(events_)
  /\ events_' = Tail(events_)
  /\ timer_pc' = "notify"
  /\ UNCHANGED <<cache_, first_item_, timer_id_, created, cpc, citem, handle,
                 held, emitted, added>>

\* The notifier is Batcher::Emit.
FireEmit ==
  /\ timer_pc = "notify" /\ CacheMutexFree
  /\ \/ /\ cache_ = <<>>
        /\ timer_pc' = "store"
        /\ UNCHANGED <<cache_, first_item_, held>>
     \/ /\ cache_ # <<>>
        /\ TakeBatch("timer")
        /\ timer_pc' = "deliver"
  /\ UNCHANGED <<timer_id_, events_, created, tev, cpc, citem, handle, emitted,
                 added>>

FireDeliver ==
  /\ timer_pc = "deliver"
  /\ emitted' = emitted \cup Elems(held["timer"])
  /\ held' = [held EXCEPT !["timer"] = <<>>]
  /\ timer_pc' = "store"
  /\ UNCHANGED <<cache_, first_item_, timer_id_, events_, created, tev, cpc,
                 citem, handle, added>>

\* timer_id_.store(0), whatever the timer holds by now; delete e.
FireStore ==
  /\ timer_pc = "store"
  /\ timer_id_' = NoEvent
  /\ tev' = NoEvent
  /\ timer_pc' = "idle"
  /\ UNCHANGED <<cache_, first_item_, events_, created, cpc, citem, handle, held,
                 emitted, added>>

-----------------------------------------------------------------------------
\* ~Batcher, when its users are done and it is empty (the CHECK_EQ of
\* ~CacheDynamic): ~Timer cancels the event it knows of.
Destroy(c) ==
  /\ \A d \in Clients : cpc[d] = "idle"
  /\ cache_ = <<>>
  /\ events_' = Without(events_, {timer_id_})
  /\ timer_id_' = NoEvent
  /\ cpc' = [d \in Clients |-> "dead"]
  /\ UNCHANGED <<cache_, first_item_, created, timer_pc, tev, citem, handle, held,
                 emitted, added>>

ClientStep(c) ==
  \/ \E x \in Items : AddItem(c, x)
  \/ Cancel(c) \/ CancelStore(c) \/ Start(c) \/ StoreHandle(c) \/ Put(c)
  \/ Emit(c) \/ Deliver(c) \/ Destroy(c)

TimerStep == Fire \/ FireEmit \/ FireDeliver \/ FireStore

BatcherNext == (\E c \in Clients : ClientStep(c)) \/ TimerStep

BatcherSpec == BatcherInit /\ [][BatcherNext]_batcherVars

(* Fairness: a client inside AddItem or Emit goes on, and the thread of     *)
(* TimeCounter fires due events and gets cache_mutex_ in the end.           *)
BatcherFairSpec ==
  /\ BatcherSpec
  /\ \A c \in Clients :
       WF_batcherVars(Cancel(c) \/ CancelStore(c) \/ Start(c) \/ StoreHandle(c)
               \/ Put(c) \/ Deliver(c))
  /\ WF_batcherVars(Fire) /\ SF_batcherVars(FireEmit) /\ WF_batcherVars(FireDeliver \/ FireStore)

-----------------------------------------------------------------------------
(* Properties *)

\* With a timeout no item is stranded: while items wait in cache_ and nobody is
\* inside AddItem, a timer event that will emit them is pending or being
\* notified, although timer_id_ may have lost track of it.
NoStrandedItem ==
  Timeout # 0 /\ cache_ # <<>> /\ CacheMutexFree =>
    events_ # <<>> \/ timer_pc = "notify"

\* NotifyAfter always starts the timer it is asked for: after Cancel nobody else
\* can make the timer busy again, although FireStore may clear a fresh handle.
TimerNotBusy == \A c \in Clients : cpc[c] = "start" => Idle

\* Every item that was added is handed on, however few follow it.
ItemsAreEmitted == \A x \in Items : x \in added ~> x \in emitted

\* An item is in one place: being added, in cache_, in one batch on its way, or
\* handed on; never lost and never in two batches.
ItemInOnePlace ==
  \A x \in added :
    LET adding  == {c \in Clients : cpc[c] \in Locked /\ citem[c] = x}
        cached  == {i \in DOMAIN cache_ : cache_[i] = x}
        holders == {a \in Actors : x \in Elems(held[a])}
        out     == IF x \in emitted THEN 1 ELSE 0
    IN Cardinality(adding) + Cardinality(cached) + Cardinality(holders) + out = 1

-----------------------------------------------------------------------------
(* Parts of the inductive invariant of UtilProofs *)

\* cache_mutex_ is held by one client at most.
OneHolder == \A c, d \in Clients : cpc[c] \in Locked /\ cpc[d] \in Locked => c = d

\* The item a client is adding.
Adding(x) == \E c \in Clients : cpc[c] \in Locked /\ citem[c] = x
InBatch(x) == \E a \in Actors : x \in Elems(held[a])

\* The places of an item exclude one another, and one of them is taken.
Placed ==
  /\ \A x \in Items : x \in added <=>
       Adding(x) \/ x \in Elems(cache_) \/ InBatch(x) \/ x \in emitted
  /\ \A x \in Items : ~(Adding(x) /\ x \in Elems(cache_))
  /\ \A x \in Items : ~((Adding(x) \/ x \in Elems(cache_)) /\ (InBatch(x) \/ x \in emitted))
  /\ \A x \in Items : ~(InBatch(x) /\ x \in emitted)
  /\ \A a, b \in Actors : \A x \in Items :
       x \in Elems(held[a]) /\ x \in Elems(held[b]) => a = b
  /\ Distinct(cache_)

\* A thread that is not delivering has no batch.
Delivering ==
  /\ \A c \in Clients : cpc[c] # "deliver" => held[c] = <<>>
  /\ timer_pc # "deliver" => held["timer"] = <<>>

\* first_item_ says that cache_ is empty, and so does a client that starts a timer.
FirstItem ==
  Timeout # 0 =>
    /\ first_item_ <=> cache_ = <<>>
    /\ \A c \in Clients : cpc[c] \in {"cancel", "clear", "start", "handle"} =>
         cache_ = <<>>

\* The event that will emit what is in cache_, or about to be put there.
Covered ==
  Timeout # 0 /\ (cache_ # <<>> \/ \E c \in Clients : cpc[c] \in {"handle", "put"}) =>
    events_ # <<>> \/ timer_pc = "notify"

ItemsInv ==
  /\ BatcherTypeOK /\ OneHolder /\ Placed /\ Delivering /\ FirstItem /\ Covered /\ TimerNotBusy

-----------------------------------------------------------------------------
\* Items are in one place and none waits without an event that will fire, although
\* the timer may lose its handle.
ItemsSafe == BatcherTypeOK /\ ItemInOnePlace /\ NoStrandedItem /\ TimerNotBusy
====
