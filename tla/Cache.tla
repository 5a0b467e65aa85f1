------------------------------- MODULE Cache -------------------------------
(***************************************************************************)
(* CacheDynamic and CacheStatic, what they do to the items of requests:    *)
(* several threads push, a dynamic cache mixes the items of requests into  *)
(* batches and sends a partial batch on a timeout or a flush, a static     *)
(* cache cuts each request by itself, and the dispatch thread pops         *)
(* packages, clearing discarded items on the way.  How the dispatch thread *)
(* sleeps and is stopped is in module Executor, the timer in Batcher.      *)
(*                                                                         *)
(* The flags is_discarded_ are read at one moment of a call of Pop.        *)
(***************************************************************************)
EXTENDS Integers, Sequences, Sublists

CONSTANTS
  Reqs,      \* requests, each pushed by a thread of its own
  ReqSize,   \* number of items of each
  CacheBatch \* BatchSize() of the model

ASSUME CacheConstants ==
  /\ ReqSize \in [Reqs -> Nat \ {0}] /\ CacheBatch \in Nat \ {0} /\ "emit" \notin Reqs

VARIABLES
  strategy,   \* BatchStrategy
  unsent,     \* items of each request that Enqueue has still to go through
  batcher_,   \* the batch that is being filled
  inhand,     \* batches taken out of the batcher and not yet in the cache
  packages,   \* cache_
  popped,     \* packages given to the dispatch thread
  answered,   \* items for which ProcessFailed was called
  discarded   \* requests with is_discarded_

cacheVars == <<strategy, unsent, batcher_, inhand, packages, popped, answered, discarded>>

CacheItems == UNION {{r} \X (1 .. ReqSize[r]) : r \in Reqs}
ItemsOf(r) == [i \in 1 .. ReqSize[r] |-> <<r, i>>]
IsDiscarded(item) == item[1] \in discarded

CacheInit ==
  /\ strategy \in {"DYNAMIC", "STATIC"}
  /\ unsent = [r \in Reqs |-> ItemsOf(r)]
  /\ batcher_ = <<>> /\ inhand = [t \in Reqs \cup {"emit"} |-> <<>>]
  /\ packages = <<>> /\ popped = <<>> /\ answered = <<>> /\ discarded = {}

-----------------------------------------------------------------------------
(* Enqueue *)

\* CacheDynamic: item by item to the batcher; who fills the batch takes it out.
AddToBatch(r) ==
  LET b == Append(batcher_, Head(unsent[r])) IN
  /\ strategy = "DYNAMIC" /\ unsent[r] # <<>> /\ inhand[r] = <<>>
  /\ unsent' = [unsent EXCEPT ![r] = Tail(@)]
  /\ batcher_' = IF Len(b) < CacheBatch THEN b ELSE <<>>
  /\ inhand' = [inhand EXCEPT ![r] = IF Len(b) < CacheBatch THEN @ ELSE b]
  /\ UNCHANGED <<strategy, packages, popped, answered, discarded>>

\* Flush, or the timeout of the batcher.
EmitBatch ==
  /\ batcher_ # <<>> /\ inhand["emit"] = <<>>
  /\ inhand' = [inhand EXCEPT !["emit"] = batcher_]
  /\ batcher_' = <<>>
  /\ UNCHANGED <<strategy, unsent, packages, popped, answered, discarded>>

\* The batcher's notifier: the batch becomes a package of the cache.
DeliverBatch(t) ==
  /\ inhand[t] # <<>>
  /\ packages' = Append(packages, inhand[t])
  /\ inhand' = [inhand EXCEPT ![t] = <<>>]
  /\ UNCHANGED <<strategy, unsent, batcher_, popped, answered, discarded>>

\* Items of the next package; continuous data is one package, as it fits a batch.
StaticLength(n) == Least(n, CacheBatch)

\* CacheStatic: the request is cut into packages of the batch size.
PushStatic(r) ==
  LET n == StaticLength(Len(unsent[r])) IN
  /\ strategy = "STATIC" /\ unsent[r] # <<>>
  /\ packages' = Append(packages, SubSeq(unsent[r], 1, n))
  /\ unsent' = [unsent EXCEPT ![r] = SubSeq(@, n + 1, Len(@))]
  /\ UNCHANGED <<strategy, batcher_, inhand, popped, answered, discarded>>

-----------------------------------------------------------------------------
(* Pop and ClearDiscard.  A cleared cache is the packages that are left and  *)
(* the items that are answered.                                              *)

\* Mutant: the rest that does not fill a package is forgotten.
RebatchedFull(s) ==
  [k \in 1 .. (Len(s) \div CacheBatch) |-> SubSeq(s, (k - 1) * CacheBatch + 1, k * CacheBatch)]

\* s in packages of the batch size.
Rebatched(s) == Parts(s, CacheBatch)

\* CacheDynamic::ClearDiscard: what is left of all packages is batched again.
ClearDynamic ==
  LET all == Flat(packages)
      dead == {x \in CacheItems : IsDiscarded(x)}
  IN [left |-> Rebatched(Without(all, dead)), gone |-> Without(all, CacheItems \ dead)]

\* CacheStatic::ClearDiscard: whole packages, as their first item says.
ClearStatic ==
  LET all == Elems(packages)
      dead == {q \in all : IsDiscarded(q[1])}
  IN [left |-> Without(packages, dead), gone |-> Flat(Without(packages, all \ dead))]

ClearDiscard == IF strategy = "DYNAMIC" THEN ClearDynamic ELSE ClearStatic

FrontDiscarded == \E n \in DOMAIN Head(packages) : IsDiscarded(Head(packages)[n])

\* A null package, when everything was cleared, makes the dispatch thread pop again.
PopPackage ==
  LET c == IF FrontDiscarded THEN ClearDiscard ELSE [left |-> packages, gone |-> <<>>] IN
  /\ packages # <<>>
  /\ answered' = answered \o c.gone
  /\ packages' = IF c.left = <<>> THEN <<>> ELSE Tail(c.left)
  /\ popped' = IF c.left = <<>> THEN popped ELSE Append(popped, Head(c.left))
  /\ UNCHANGED <<strategy, unsent, batcher_, inhand, discarded>>

\* Session::DiscardTask, at any time.
DiscardRequest(r) ==
  /\ r \notin discarded
  /\ discarded' = discarded \cup {r}
  /\ UNCHANGED <<strategy, unsent, batcher_, inhand, packages, popped, answered>>

CacheNext ==
  \/ \E r \in Reqs : AddToBatch(r) \/ PushStatic(r) \/ DiscardRequest(r)
  \/ EmitBatch \/ PopPackage
  \/ \E t \in Reqs \cup {"emit"} : DeliverBatch(t)

CacheSpec == CacheInit /\ [][CacheNext]_cacheVars

-----------------------------------------------------------------------------
(* Properties *)

\* Every item is in one place: the lists u, h, p and q of lists, b and a.
Kept(u, b, h, p, q, a) ==
  LET places == <<Contents(u), Elems(b), Contents(h), Contents(p), Contents(q), Elems(a)>> IN
  /\ Scattered(u) /\ Distinct(b) /\ Scattered(h) /\ Scattered(p) /\ Scattered(q) /\ Distinct(a)
  /\ UNION {places[k] : k \in 1 .. 6} = CacheItems
  /\ \A k, l \in 1 .. 6 : k # l => places[k] \cap places[l] = {}

\* Through batching, rebatching and the clearing of discarded requests every item
\* stays in exactly one place: a lost item leaves its request unanswered for
\* ever, a second copy makes ProcessDone count below zero.
ItemsKept == Kept(unsent, batcher_, inhand, packages, popped, answered)

\* No package is empty or larger than the batch of the model, whatever was
\* cleared and batched again.
PackagesFit ==
  \A q \in Elems(packages) \cup Elems(popped) : Len(q) \in 1 .. CacheBatch

\* Packages of one request each, and the items of a request in their order.
Unmixed(p) ==
  /\ \A k \in DOMAIN p : \A n \in DOMAIN p[k] : p[k][n][1] = p[k][1][1]
  /\ \A k, l \in DOMAIN p : \A m \in DOMAIN p[k], n \in DOMAIN p[l] :
       (k < l \/ (k = l /\ m < n)) /\ p[k][m][1] = p[l][n][1] => p[k][m][2] < p[l][n][2]

\* With BatchStrategy::STATIC a package holds neighbouring items of one request,
\* and the packages of a request are popped in their order, although requests are
\* pushed concurrently and others are cleared between them.
StaticUnmixed == strategy = "STATIC" => Unmixed(popped)

\* ProcessFailed(SUCCESS) is called for items of discarded requests only.
OnlyDiscardedAnswered == \A n \in DOMAIN answered : IsDiscarded(answered[n])

\* No item of a request that is discarded by then is given to the dispatch
\* thread, in the front package or in the one that follows a clearing.
PoppedLive ==
  [][\A k \in DOMAIN popped' \ DOMAIN popped :
       \A n \in DOMAIN popped'[k] : ~IsDiscarded(popped'[k][n])]_cacheVars

\* No item is lost or doubled by batching, clearing and batching again, packages
\* are legal, and the items of discarded requests are answered and not popped.
CacheCorrect == [](ItemsKept /\ PackagesFit /\ StaticUnmixed /\ OnlyDiscardedAnswered) /\ PoppedLive

-----------------------------------------------------------------------------
(* The inductive invariant of CacheCorrect *)

CacheTyped ==
  /\ strategy \in {"DYNAMIC", "STATIC"}
  /\ unsent \in [Reqs -> Seq(CacheItems)] /\ batcher_ \in Seq(CacheItems)
  /\ inhand \in [Reqs \cup {"emit"} -> Seq(CacheItems)]
  /\ packages \in Seq(Seq(CacheItems)) /\ popped \in Seq(Seq(CacheItems)) /\ answered \in Seq(CacheItems)
  /\ discarded \subseteq Reqs

\* A batch that is being filled is not full, one taken out is no larger than one.
BatchesFit ==
  Len(batcher_) < CacheBatch /\ \A t \in Reqs \cup {"emit"} : Len(inhand[t]) <= CacheBatch

Precede(P, Q) == \A x \in P, y \in Q : x[1] = y[1] => x[2] < y[2]

\* A static cache fills no batch; what is popped comes before what is cached, and
\* that before what is still to be cut.
StaticInOrder ==
  strategy = "STATIC" =>
    /\ batcher_ = <<>> /\ \A t \in Reqs \cup {"emit"} : inhand[t] = <<>>
    /\ Unmixed(packages) /\ Unmixed(popped)
    /\ \A r \in Reqs : /\ \A n \in DOMAIN unsent[r] : unsent[r][n][1] = r
                       /\ \A m, n \in DOMAIN unsent[r] : m < n => unsent[r][m][2] < unsent[r][n][2]
    /\ Precede(Contents(popped), Contents(packages)) /\ Precede(Contents(popped), Contents(unsent))
    /\ Precede(Contents(packages), Contents(unsent))

CacheInv ==
  CacheTyped /\ ItemsKept /\ PackagesFit /\ BatchesFit /\ StaticInOrder /\ OnlyDiscardedAnswered
==============================================================================
