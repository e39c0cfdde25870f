------------------------------- MODULE Combining -------------------------------
(***************************************************************************)
(* ring_buffer_op of pci-ring-buffer/lib/ring_buffer.c: how the threads    *)
(* that call put (or get) on one ring buffer elect the one of them, the    *)
(* combiner, that executes the operations of all, and how the others wait, *)
(* doze and are woken.  Each thread has one request structure, which it    *)
(* initialises again for every call, and which is named by the thread.     *)
(*                                                                         *)
(* The operation itself (modules RingBuffer and ClaimQueue) is reduced to  *)
(* its outcome.  The elements are numbered in the order of put; get takes  *)
(* the next one if it is ready, is answered -EAGAIN if there is none or it *)
(* is not ready, and in the latter case leaves the element in the hint.    *)
(* Put behaves as a get that always finds an element: the one at tail2,    *)
(* which is ready for it when it is DONE.  No position is used twice,      *)
(* since fewer elements are put than the buffer has room for.              *)
(***************************************************************************)
EXTENDS Integers, Sequences, FiniteSets

CONSTANTS
  Threads,        \* callers of ring_buffer_op on one side of one ring buffer
  Blocking,       \* those whose requests are BLOCKING
  IsBlockingBuffer, \* rb->is_blocking
  MaxCombining,   \* RING_BUFFER_MAX_COMBINING
  NoReq,          \* the null pointer
  MaxOps,         \* bound: calls of each thread
  MaxElements,    \* bound: elements put by the other side
  MaxInUse        \* bound: those of them not DONE at one time

ASSUME BlockingAssumption == Blocking \subseteq Threads
ASSUME NullAssumption == NoReq \notin Threads
ASSUME CombiningAssumption == MaxCombining \in Nat \ {0}
ASSUME ModeAssumption == IsBlockingBuffer \in BOOLEAN
ASSUME OpsAssumption ==
  MaxOps \in [Threads -> Nat] /\ MaxElements \in Nat /\ MaxInUse \in Nat

VARIABLES
  req_tail,   \* *req_tail: the last request of the wait list
  next,       \* __next of each request
  rc,         \* rc of each request
  done,       \* RING_BUFFER_REQ_DONE of each request
  combiner,   \* RING_BUFFER_REQ_COMBINER of each request
  pc,         \* where each thread is
  cur,        \* its r (while linking, the request it found in req_tail)
  nxt,        \* its r_next
  left, max,  \* iterations left in its loop, and max_combining
  nap,        \* is_nap_time
  hint,       \* monitoring_elm, or 0 for NULL
  mutex,      \* holder of the nap mutex
  written,    \* elements the other side has put
  taken,      \* elements the operation has taken
  status,     \* of each element: INIT, READY or DONE
  calls,      \* calls made by each thread
  order       \* requests in the order of their swaps, until they leave the list

request == <<next, rc, done, combiner>>
locals == <<cur, nxt, left, max>>
napping == <<nap, hint, mutex>>
buffer == <<written, taken, status>>
combiningVars == <<req_tail, request, pc, locals, napping, buffer, calls, order>>

Elements == 1 .. MaxElements

CombiningInit ==
  /\ req_tail = NoReq
  /\ next = [t \in Threads |-> NoReq]
  /\ rc = [t \in Threads |-> "none"]
  /\ done = [t \in Threads |-> FALSE]
  /\ combiner = [t \in Threads |-> FALSE]
  /\ pc = [t \in Threads |-> "idle"]
  /\ cur = [t \in Threads |-> NoReq]
  /\ nxt = [t \in Threads |-> NoReq]
  /\ left = [t \in Threads |-> 0]
  /\ max = [t \in Threads |-> 0]
  /\ nap = FALSE /\ hint = 0 /\ mutex = NoReq
  /\ written = 0 /\ taken = 0
  /\ status = [e \in Elements |-> "init"]
  /\ calls = [t \in Threads |-> 0]
  /\ order = <<>>

Go(t, place) == pc' = [pc EXCEPT ![t] = place]
Return(t) == Go(t, "idle")

(* t becomes a combiner: it starts with its own request. *)
StartCombining(t) ==
  /\ Go(t, "exec")
  /\ cur' = [cur EXCEPT ![t] = t]
  /\ max' = [max EXCEPT ![t] = MaxCombining]
  /\ left' = [left EXCEPT ![t] = MaxCombining]
  /\ UNCHANGED nxt
-------------------------------------------------------------------------------
(* The macro that initialises a request, and the swap in ask_request.  A   *)
(* thread that finds the wait list empty is the combiner.                  *)
Call(t) ==
  /\ pc[t] = "idle"
  /\ calls[t] < MaxOps[t]
  /\ calls' = [calls EXCEPT ![t] = @ + 1]
  /\ next' = [next EXCEPT ![t] = NoReq]
  /\ rc' = [rc EXCEPT ![t] = "inprogress"]
  /\ done' = [done EXCEPT ![t] = FALSE]
  /\ combiner' = [combiner EXCEPT ![t] = FALSE]
  /\ req_tail' = t
  /\ order' = Append(order, t)
  /\ \/ /\ req_tail = NoReq
        /\ StartCombining(t)
     \/ /\ req_tail # NoReq
        /\ cur' = [cur EXCEPT ![t] = req_tail]
        /\ Go(t, "link")
        /\ UNCHANGED <<nxt, left, max>>
  /\ UNCHANGED <<napping, buffer>>

(* old_tail->__next = req.  A non-blocking caller returns at once and      *)
(* polls its request later (ring_buffer_req_barrier).                      *)
Link(t) ==
  /\ pc[t] = "link"
  /\ next' = [next EXCEPT ![cur[t]] = t]
  /\ Go(t, IF t \in Blocking THEN "wait" ELSE "pending")
  /\ UNCHANGED <<req_tail, rc, done, combiner, locals, napping, buffer, calls, order>>

(* wait_until_done and ring_buffer_req_barrier. *)
WaitDone(t) ==
  /\ pc[t] \in {"wait", "pending"}
  /\ done[t]
  /\ Return(t)
  /\ UNCHANGED <<req_tail, request, locals, napping, buffer, calls, order>>

WaitCombiner(t) ==
  /\ pc[t] = "wait"
  /\ ~done[t]
  /\ combiner[t]
  /\ StartCombining(t)
  /\ UNCHANGED <<req_tail, request, napping, buffer, calls, order>>
-------------------------------------------------------------------------------
(* _nap_doze: the unlocked check, the mutex, the check under it, and the   *)
(* wait on the condition, which gives the mutex up.                        *)
NeedDoze(t) == rc[t] = "inprogress" /\ nap

Doze(t) ==
  /\ pc[t] = "wait"
  /\ ~done[t] /\ ~combiner[t]
  /\ IsBlockingBuffer
  /\ NeedDoze(t)
  /\ Go(t, "doze")
  /\ UNCHANGED <<req_tail, request, locals, napping, buffer, calls, order>>

DozeLock(t) ==
  /\ pc[t] = "doze"
  /\ mutex = NoReq
  /\ mutex' = t
  /\ Go(t, "dozing")
  /\ UNCHANGED <<req_tail, request, locals, nap, hint, buffer, calls, order>>

DozeCheck(t) ==
  /\ pc[t] = "dozing"
  /\ IF NeedDoze(t)
       THEN Go(t, "falling_asleep") /\ UNCHANGED mutex
       ELSE Go(t, "wait") /\ mutex' = NoReq
  /\ UNCHANGED <<req_tail, request, locals, nap, hint, buffer, calls, order>>

DozeSleep(t) ==
  /\ pc[t] = "falling_asleep"
  /\ mutex' = NoReq
  /\ Go(t, "asleep")
  /\ UNCHANGED <<req_tail, request, locals, nap, hint, buffer, calls, order>>
-------------------------------------------------------------------------------
(* The combiner executes the operation for request r. *)
NeedPeek(r) == rc[r] = "again" /\ r \in Blocking

AfterExec(t, code) ==
  IF ~IsBlockingBuffer THEN "next"
  ELSE IF code = "again" /\ cur[t] \in Blocking
         THEN (IF cur[t] # t THEN "hand_over" ELSE "peek")
         ELSE (IF cur[t] = t THEN "wake" ELSE "next")

Exec(t) ==
  /\ pc[t] = "exec"
  /\ \/ /\ taken < written
        /\ status[taken + 1] = "ready"
        /\ taken' = taken + 1
        /\ rc' = [rc EXCEPT ![cur[t]] = "ok"]
        /\ Go(t, AfterExec(t, "ok"))
        /\ UNCHANGED hint
     \/ /\ taken < written
        /\ status[taken + 1] # "ready"
        /\ hint' = taken + 1
        /\ rc' = [rc EXCEPT ![cur[t]] = "again"]
        /\ Go(t, AfterExec(t, "again"))
        /\ UNCHANGED taken
     \/ /\ taken = written   \* empty: an earlier hint, if any, stays
        /\ rc' = [rc EXCEPT ![cur[t]] = "again"]
        /\ Go(t, AfterExec(t, "again"))
        /\ UNCHANGED <<taken, hint>>
  /\ UNCHANGED <<req_tail, next, done, combiner, locals, nap, mutex, written,
                 status, calls, order>>

(* _nap_peek announces nap time; without a hint it returns, else it waits  *)
(* until the monitored element is READY, whatever has become of that       *)
(* element since, and wakes all waiters.                                   *)
PeekNap(t) ==
  /\ pc[t] = "peek"
  /\ nap' = TRUE
  /\ Go(t, IF hint # 0 THEN "monitor" ELSE "exec")
  /\ UNCHANGED <<req_tail, request, locals, hint, mutex, buffer, calls, order>>

Monitor(t) ==
  /\ pc[t] = "monitor"
  /\ status[hint] = "ready"
  /\ Go(t, "wake")
  /\ UNCHANGED <<req_tail, request, locals, napping, buffer, calls, order>>

(* _nap_wake_up_all_waiters, from _nap_peek (and then the operation is     *)
(* tried again) or after the combiner's own operation.                     *)
AfterWake(t) == Go(t, IF NeedPeek(cur[t]) THEN "exec" ELSE "next")

WakeClear(t) ==
  /\ pc[t] = "wake"
  /\ nap' = FALSE
  /\ \/ /\ nap
        /\ Go(t, "wake_lock")
        /\ UNCHANGED hint
     \/ /\ ~nap
        /\ hint' = 0
        /\ AfterWake(t)
  /\ UNCHANGED <<req_tail, request, locals, mutex, buffer, calls, order>>

WakeUnlocked(t) ==   \* mutant: broadcast without taking the mutex
  /\ pc[t] = "wake_lock"
  /\ Go(t, "wake_all")
  /\ UNCHANGED <<req_tail, request, locals, napping, buffer, calls, order>>

WakeLock(t) ==
  /\ pc[t] = "wake_lock"
  /\ mutex = NoReq
  /\ mutex' = t
  /\ Go(t, "wake_all")
  /\ UNCHANGED <<req_tail, request, locals, nap, hint, buffer, calls, order>>

WakeAll(t) ==
  /\ pc[t] = "wake_all"
  /\ pc' = [s \in Threads |->
              IF s = t THEN (IF NeedPeek(cur[t]) THEN "exec" ELSE "next")
              ELSE IF pc[s] = "asleep" THEN "doze"
              ELSE pc[s]]
  /\ mutex' = NoReq
  /\ hint' = 0
  /\ UNCHANGED <<req_tail, request, locals, nap, buffer, calls, order>>
-------------------------------------------------------------------------------
(* Go on to the next request; the last one is taken off the list with a    *)
(* compare-and-swap, which fails when another request is being inserted.   *)
ReadNext(t) ==
  /\ pc[t] = "next"
  /\ nxt' = [nxt EXCEPT ![t] = next[cur[t]]]
  /\ Go(t, IF next[cur[t]] = NoReq THEN "cas" ELSE "release")
  /\ UNCHANGED <<req_tail, request, cur, left, max, napping, buffer, calls, order>>

StoreTail(t) ==   \* mutant: a plain store instead of the compare-and-swap
  /\ pc[t] = "cas"
  /\ req_tail' = NoReq /\ order' = Tail(order) /\ Go(t, "release_last")
  /\ UNCHANGED <<request, locals, napping, buffer, calls>>

CasTail(t) ==
  /\ pc[t] = "cas"
  /\ IF req_tail = cur[t]
       THEN req_tail' = NoReq /\ order' = Tail(order) /\ Go(t, "release_last")
       ELSE Go(t, "await_link") /\ UNCHANGED <<req_tail, order>>
  /\ UNCHANGED <<request, locals, napping, buffer, calls>>

AwaitLink(t) ==
  /\ pc[t] = "await_link"
  /\ next[cur[t]] # NoReq
  /\ nxt' = [nxt EXCEPT ![t] = next[cur[t]]]
  /\ Go(t, "release")
  /\ UNCHANGED <<req_tail, request, cur, left, max, napping, buffer, calls, order>>

ReleaseLast(t) ==
  /\ pc[t] = "release_last"
  /\ done' = [done EXCEPT ![cur[t]] = TRUE]
  /\ Return(t)
  /\ UNCHANGED <<req_tail, next, rc, combiner, locals, napping, buffer, calls, order>>

ReleaseToTail(t) ==   \* mutant: goes on with the youngest request
  /\ pc[t] = "release"
  /\ done' = [done EXCEPT ![cur[t]] = TRUE]
  /\ order' = Tail(order)
  /\ cur' = [cur EXCEPT ![t] = req_tail]
  /\ Go(t, "hand_over")
  /\ UNCHANGED <<req_tail, next, rc, combiner, left, max, nxt, napping, buffer, calls>>

(* Let the waiter go and take the next request; after max_combining of     *)
(* them a blocking one becomes the combiner, a non-blocking one cannot.    *)
Release(t) ==
  /\ pc[t] = "release"
  /\ done' = [done EXCEPT ![cur[t]] = TRUE]
  /\ order' = Tail(order)
  /\ cur' = [cur EXCEPT ![t] = nxt[t]]
  /\ \/ /\ left[t] > 1
        /\ left' = [left EXCEPT ![t] = @ - 1]
        /\ Go(t, "exec")
        /\ UNCHANGED max
     \/ /\ left[t] = 1
        /\ nxt[t] \notin Blocking
        /\ max' = [max EXCEPT ![t] = @ \div 2 + 1]
        /\ left' = [left EXCEPT ![t] = max[t] \div 2 + 1]
        /\ Go(t, "exec")
     \/ /\ left[t] = 1
        /\ nxt[t] \in Blocking
        /\ Go(t, "hand_over")
        /\ UNCHANGED <<left, max>>
  /\ UNCHANGED <<req_tail, next, rc, combiner, nxt, napping, buffer, calls>>

HandOver(t) ==
  /\ pc[t] = "hand_over"
  /\ combiner' = [combiner EXCEPT ![cur[t]] = TRUE]
  /\ Return(t)
  /\ UNCHANGED <<req_tail, next, rc, done, locals, napping, buffer, calls, order>>
-------------------------------------------------------------------------------
(* The other side puts an element, its owner makes it ready, and who has   *)
(* taken it is done with it; the latter two in any order of the elements.  *)
ElementPut ==
  /\ written < MaxElements
  /\ Cardinality({ e \in 1 .. written : status[e] # "done" }) < MaxInUse
  /\ written' = written + 1
  /\ UNCHANGED <<req_tail, request, pc, locals, napping, taken, status, calls, order>>

ElementReady ==
  /\ \E e \in taken + 1 .. written :
       status[e] = "init" /\ status' = [status EXCEPT ![e] = "ready"]
  /\ UNCHANGED <<req_tail, request, pc, locals, napping, written, taken, calls, order>>

ElementDone ==
  /\ \E e \in 1 .. taken :
       status[e] = "ready" /\ status' = [status EXCEPT ![e] = "done"]
  /\ UNCHANGED <<req_tail, request, pc, locals, napping, written, taken, calls, order>>

(* What a thread does inside ring_buffer_op. *)
Step(t) ==
  \/ Link(t) \/ WaitDone(t) \/ WaitCombiner(t)
  \/ Doze(t) \/ DozeLock(t) \/ DozeCheck(t) \/ DozeSleep(t)
  \/ Exec(t) \/ PeekNap(t) \/ Monitor(t)
  \/ WakeClear(t) \/ WakeLock(t) \/ WakeAll(t)
  \/ ReadNext(t) \/ CasTail(t) \/ AwaitLink(t)
  \/ ReleaseLast(t) \/ Release(t) \/ HandOver(t)

CombiningNext ==
  \/ \E t \in Threads : Call(t) \/ Step(t)
  \/ ElementPut \/ ElementReady \/ ElementDone

CombiningSpec == CombiningInit /\ [][CombiningNext]_combiningVars

(* Threads inside the library are scheduled, and elements are put, become  *)
(* ready and are done with.                                                *)
CombiningFairSpec ==
  /\ CombiningSpec
  /\ WF_combiningVars(ElementPut) /\ WF_combiningVars(ElementReady)
  /\ WF_combiningVars(ElementDone) /\ \A t \in Threads : WF_combiningVars(Step(t))
-------------------------------------------------------------------------------
Combining == {"exec", "peek", "monitor", "wake", "wake_lock", "wake_all",
              "next", "cas", "await_link", "release", "hand_over"}
Waiting == {"wait", "doze", "dozing", "falling_asleep", "asleep"}

(* The threads that execute operations or have been told to. *)
Chosen == { t \in Threads :
              \/ pc[t] \in Combining
              \/ pc[t] \in Waiting /\ ~done[t] /\ combiner[t] }

(* Never do two threads execute operations on one side of the buffer: the  *)
(* bodies of put and get rely on it, they take no lock.  While requests    *)
(* wait there is always one to execute them.                               *)
OneCombiner ==
  /\ Cardinality(Chosen) <= 1
  /\ order # <<>> => Chosen # {}

(* A combiner works on the oldest request, later ones are untouched, the   *)
(* tail of the list is the youngest: operations take effect in the order   *)
(* in which the callers entered, each once.                                *)
ArrivalOrder ==
  /\ \A t \in Threads :
       pc[t] \in Combining => order # <<>> /\ cur[t] = Head(order)
  /\ \A i \in 2 .. Len(order) :
       rc[order[i]] = "inprogress" /\ ~done[order[i]] /\ order[i] # order[1]
  /\ \A t \in Threads : pc[t] # "idle" /\ ~done[t] =>
       \/ \E i \in DOMAIN order : order[i] = t
       \/ \E s \in Threads : pc[s] = "release_last" /\ cur[s] = t

(* The hint that a failed request left is cleared by nobody if its caller  *)
(* does not block and the next request of the batch takes the element;     *)
(* once that is DONE, a blocking combiner that finds the buffer empty      *)
(* monitors it for ever.                                                   *)
StaleHint ==
  /\ \E t \in Threads : pc[t] = "monitor" /\ status[hint] = "done"
  /\ \E t \in Threads \ Blocking : calls[t] > 0

(* Every call is served and returns, whoever combines, sleeps or leaves,   *)
(* until a hint has gone stale, which only a caller that does not block    *)
(* can bring about: as long as all that have called block, nothing keeps a *)
(* call from returning.                                                    *)
CallsReturn ==
  \A t \in Threads : pc[t] # "idle" ~> pc[t] = "idle" \/ StaleHint
===============================================================================
