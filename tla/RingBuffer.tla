------------------------------ MODULE RingBuffer ------------------------------
(***************************************************************************)
(* The ring buffer of pci-ring-buffer/lib/ring_buffer.c in the build Cytom *)
(* uses: double-mmap (an element may wrap), request combining (so at most  *)
(* one thread executes __ring_buffer_put and at most one executes          *)
(* __ring_buffer_get at a time, which module Combining establishes), no    *)
(* reap callback, no health callback.  The put side, the get side and the  *)
(* users of elements interleave at every shared access.                    *)
(*                                                                         *)
(* Offsets count units of the alignment and never wrap here; the code's    *)
(* head, tail and tail2 are Ix(head), Ix(tail) and Ix(tail2), and every    *)
(* comparison the code makes is made on those.                             *)
(***************************************************************************)
EXTENDS Integers, Sequences

CONSTANTS
  Align,        \* bytes per unit: the alignment passed to create
  Size,         \* rb->size in units
  Sizes,        \* aligned sizes (__size) of put requests, in units
  Direct,       \* elements are set done without a get, and nobody calls get
  IsBlocking,   \* rb->is_blocking, with blocking requests
  MaxPuts       \* bound: put requests in one behaviour

ASSUME SizeAssumption == Size \in Nat \ {0}
ASSUME SizesAssumption == Sizes \subseteq 1 .. Size
ASSUME AlignAssumption == Align \in Nat \ {0}
ASSUME FlagAssumption == Direct \in BOOLEAN /\ IsBlocking \in BOOLEAN
ASSUME BoundAssumption == MaxPuts \in Nat

WithPhase(item, phase) == [item EXCEPT !.phase = phase]

HeaderBytes == 8        \* sizeof(struct ring_buffer_elm_t)

(* ring_buffer_create never makes a buffer smaller than a page. *)
ASSUME CapacityAssumption == Size * Align > HeaderBytes

VARIABLES
  head, tail, tail2,  \* the control variables
  elm,      \* element header at each position
  items,    \* elements handed out by put: where they are, what their user did
  putpc,    \* where the thread executing __ring_buffer_put is
  need,     \* the __size of the request it executes
  rbtail, rbtail2, passed,    \* its locals rb_tail, rb_tail2, changed_tail
  getpc,    \* where the thread executing __ring_buffer_get is
  getpos, getsize             \* the tail element it looked at

control == <<head, tail, tail2>>
reaping == <<rbtail, rbtail2, passed>>
putter == <<putpc, need, rbtail, rbtail2, passed>>
getter == <<getpc, getpos, getsize>>
vars == <<head, tail, tail2, elm, items, putpc, need, rbtail, rbtail2, passed,
          getpc, getpos, getsize>>

Pos == 0 .. Size - 1
Ix(off) == off % Size

NoHeader == [size |-> 0, status |-> "none"]

(* ring_buffer_create: all three start at the same, randomly coloured,     *)
(* offset of a zeroed buffer.                                              *)
Init ==
  /\ head \in Pos
  /\ tail = head
  /\ tail2 = head
  /\ elm = [p \in Pos |-> NoHeader]
  /\ items = <<>>
  /\ putpc = "idle" /\ need = 0
  /\ rbtail = 0 /\ rbtail2 = 0 /\ passed = FALSE
  /\ getpc = "idle" /\ getpos = 0 /\ getsize = 0

-------------------------------------------------------------------------------
(* free_space_size: the distance from head forward to t2, the whole buffer *)
(* when they coincide, less one header and one byte.  The subtraction is   *)
(* on size_t: a negative result is an enormous free space.                 *)
Gap(h, t2) ==
  IF Ix(t2) < Ix(h) THEN Size - (Ix(h) - Ix(t2))
  ELSE IF Ix(t2) > Ix(h) THEN Ix(t2) - Ix(h)
  ELSE Size

FreeSpace(h, t2) == Gap(h, t2) * Align - HeaderBytes - 1

FitsOffByOne(sz, h, t2) ==   \* mutant: the extra byte is not kept free
  FreeSpace(h, t2) < 0 \/ sz * Align <= FreeSpace(h, t2) + 1

FitsWithoutHeader(sz, h, t2) ==   \* mutant: the last header is not kept free
  sz * Align <= Gap(h, t2) * Align

Fits(sz, h, t2) ==
  FreeSpace(h, t2) < 0 \/ sz * Align <= FreeSpace(h, t2)

(* A caller of put becomes the one to execute __ring_buffer_put. *)
PutCall(sz) ==
  /\ putpc = "idle"
  /\ Len(items) < MaxPuts
  /\ putpc' = "check"
  /\ need' = sz
  /\ UNCHANGED <<control, elm, items, reaping, getter>>

(* With room left, write the element; else start reap_ring_buffer_elms     *)
(* with a snapshot of tail and tail2.                                      *)
PutCheck ==
  /\ putpc = "check"
  /\ \/ /\ Fits(need, head, tail2)
        /\ putpc' = "write"
        /\ UNCHANGED reaping
     \/ /\ ~Fits(need, head, tail2)
        /\ putpc' = "reap"
        /\ rbtail' = tail
        /\ rbtail2' = tail2
        /\ UNCHANGED passed
  /\ UNCHANGED <<control, elm, items, need, getter>>

Done(off) == elm[Ix(off)].status = "done"

ReapInUse ==   \* mutant: reaps elements that are dequeued but still in use
  /\ putpc = "reap"
  /\ Ix(rbtail2) # Ix(rbtail)
  /\ rbtail2' = rbtail2 + elm[Ix(rbtail2)].size
  /\ UNCHANGED <<control, elm, items, putpc, need, rbtail, passed, getter>>

(* One iteration of reap_ring_buffer_elms. *)
ReapAdvance ==
  /\ putpc = "reap"
  /\ Ix(rbtail2) # Ix(rbtail)
  /\ Done(rbtail2)
  /\ rbtail2' = rbtail2 + elm[Ix(rbtail2)].size
  /\ UNCHANGED <<control, elm, items, putpc, need, rbtail, passed, getter>>

(* The loop ends at the snapshot of tail or at an element in use; tail2 is *)
(* published, the room checked again, and a second snapshot of tail taken. *)
ReapStop ==
  /\ putpc = "reap"
  /\ Ix(rbtail2) = Ix(rbtail) \/ ~Done(rbtail2)
  /\ tail2' = rbtail2
  /\ putpc' = IF Fits(need, head, rbtail2) THEN "write" ELSE "reap_all"
  /\ rbtail' = tail
  /\ passed' = FALSE
  /\ UNCHANGED <<head, tail, elm, items, need, rbtail2, getter>>

(* reap_ring_buffer_elms_aggressively runs on to head: it remembers that   *)
(* it came by the snapshot of tail before it looks at the element there.   *)
AtTailForgotten ==   \* mutant: does not remember that it came by tail
  Ix(rbtail2) # Ix(head) /\ Ix(rbtail) = Ix(rbtail2)

AtTail == passed \/ (Ix(rbtail2) # Ix(head) /\ Ix(rbtail) = Ix(rbtail2))

ReapAllAdvance ==
  /\ putpc = "reap_all"
  /\ Ix(rbtail2) # Ix(head)
  /\ Done(rbtail2)
  /\ rbtail2' = rbtail2 + elm[Ix(rbtail2)].size
  /\ passed' = AtTail
  /\ UNCHANGED <<control, elm, items, putpc, need, rbtail, getter>>

(* The outcome of the last room check.  Without room a blocking request    *)
(* waits for the element at tail2, a non-blocking one returns -EAGAIN.     *)
PutDecide(t2) ==
  IF Fits(need, head, t2) THEN "write"
  ELSE IF IsBlocking THEN "peek" ELSE "idle"

ReapAllStop ==
  /\ putpc = "reap_all"
  /\ Ix(rbtail2) = Ix(head) \/ ~Done(rbtail2)
  /\ tail2' = rbtail2
  /\ putpc' = IF AtTail THEN "cas" ELSE PutDecide(rbtail2)
  /\ UNCHANGED <<head, tail, elm, items, need, reaping, getter>>

(* smp_cas(&rb->tail, rb_tail, rb_tail2) *)
ReapAllCas ==
  /\ putpc = "cas"
  /\ tail' = IF Ix(tail) = Ix(rbtail) THEN rbtail2 ELSE tail
  /\ putpc' = PutDecide(tail2)
  /\ UNCHANGED <<head, tail2, elm, items, need, reaping, getter>>

PutPeekReady ==   \* mutant: put waits for the status that get waits for
  /\ putpc = "peek"
  /\ elm[Ix(tail2)].status = "ready"
  /\ putpc' = "check"
  /\ UNCHANGED <<control, elm, items, need, reaping, getter>>

(* _nap_peek on put_nap.monitoring_elm, the element at tail2. *)
PutPeek ==
  /\ putpc = "peek"
  /\ Done(tail2)
  /\ putpc' = "check"
  /\ UNCHANGED <<control, elm, items, need, reaping, getter>>

PutElement ==
  /\ putpc = "write"
  /\ elm' = [elm EXCEPT ![Ix(head)] = [size |-> need, status |-> "init"]]
  /\ putpc' = "publish"
  /\ UNCHANGED <<control, items, need, reaping, getter>>

(* Publishing head hands the element to the caller of put. *)
PutPublish ==
  /\ putpc = "publish"
  /\ head' = head + need
  /\ items' = Append(items, [off |-> head, size |-> need, phase |-> "reserved"])
  /\ putpc' = "idle"
  /\ UNCHANGED <<tail, tail2, elm, need, reaping, getter>>
-------------------------------------------------------------------------------
(* __ring_buffer_get on a non-empty buffer.  On an empty one it returns    *)
(* -EAGAIN without a hint and is called again: no state changes.           *)
NonEmpty == Ix(head) # Ix(tail)

GetUnready ==   \* mutant: the status of the tail element is not checked
  /\ ~Direct
  /\ getpc = "idle"
  /\ NonEmpty
  /\ getpc' = "publish"
  /\ getpos' = tail
  /\ getsize' = elm[Ix(tail)].size
  /\ UNCHANGED <<control, elm, items, putter>>

GetReady ==
  /\ ~Direct
  /\ getpc = "idle"
  /\ NonEmpty
  /\ elm[Ix(tail)].status = "ready"
  /\ getpc' = "publish"
  /\ getpos' = tail
  /\ getsize' = elm[Ix(tail)].size
  /\ UNCHANGED <<control, elm, items, putter>>

(* The tail element is not ready: a blocking get waits for it. *)
GetNotReady ==
  /\ ~Direct
  /\ IsBlocking
  /\ getpc = "idle"
  /\ NonEmpty
  /\ elm[Ix(tail)].status # "ready"
  /\ getpc' = "peek"
  /\ getpos' = tail
  /\ UNCHANGED <<control, elm, items, putter, getsize>>

GetPeekDone ==   \* mutant: get waits for the status that put waits for
  /\ getpc = "peek"
  /\ elm[Ix(getpos)].status = "done"
  /\ getpc' = "idle"
  /\ UNCHANGED <<control, elm, items, putter, getpos, getsize>>

GetPeek ==
  /\ getpc = "peek"
  /\ elm[Ix(getpos)].status = "ready"
  /\ getpc' = "idle"
  /\ UNCHANGED <<control, elm, items, putter, getpos, getsize>>

(* Publishing tail hands the element to the caller of get. *)
GetPublish ==
  /\ getpc = "publish"
  /\ tail' = getpos + getsize
  /\ items' = [i \in DOMAIN items |->
                 IF items[i].off = getpos THEN WithPhase(items[i], "got")
                 ELSE items[i]]
  /\ getpc' = "idle"
  /\ UNCHANGED <<head, tail2, elm, putter, getpos, getsize>>
-------------------------------------------------------------------------------
(* The users of an element: its producer has filled it, its consumer has   *)
(* finished with it.                                                       *)
SetStatus(i, status) ==
  /\ elm' = [elm EXCEPT ![Ix(items[i].off)] =
                [size |-> @.size, status |-> status]]
  /\ items' = [items EXCEPT ![i] = WithPhase(@, status)]
  /\ UNCHANGED <<control, putter, getter>>

SetReady(i) ==
  /\ items[i].phase = "reserved"
  /\ SetStatus(i, "ready")

SetDone(i) ==
  /\ items[i].phase = IF Direct THEN "ready" ELSE "got"
  /\ SetStatus(i, "done")
-------------------------------------------------------------------------------
(* Everything put executes once it was called. *)
PutStep ==
  \/ PutCheck \/ PutPeek \/ PutElement \/ PutPublish
  \/ ReapAdvance \/ ReapStop \/ ReapAllAdvance \/ ReapAllStop \/ ReapAllCas

GetStep == GetReady \/ GetNotReady \/ GetPeek \/ GetPublish

UserStep == \E i \in DOMAIN items : SetReady(i) \/ SetDone(i)

Next ==
  \/ \E sz \in Sizes : PutCall(sz)
  \/ PutStep
  \/ GetStep
  \/ UserStep

Spec == Init /\ [][Next]_vars

(* Threads that are inside the library keep running, getters keep getting, *)
(* and every element is eventually filled and finished with.               *)
FairSpec ==
  /\ Spec
  /\ WF_vars(PutStep)
  /\ WF_vars(GetStep)
  /\ \A i \in 1 .. MaxPuts :
       /\ WF_vars(i \in DOMAIN items /\ SetReady(i))
       /\ WF_vars(i \in DOMAIN items /\ SetDone(i))
-------------------------------------------------------------------------------
Phases == {"reserved", "ready", "got", "done"}
Statuses == {"none", "init", "ready", "done"}
Element == [off : Nat, size : 0 .. Size, phase : Phases]
PutSteps == {"idle", "check", "reap", "reap_all", "cas", "peek", "write", "publish"}

(* Type invariant of the control variables, headers, elements and threads. *)
TypeOK ==
  /\ head \in Nat /\ tail \in Nat /\ tail2 \in Nat
  /\ elm \in [Pos -> [size : 0 .. Size, status : Statuses]]
  /\ items \in Seq(Element)
  /\ putpc \in PutSteps /\ need \in 0 .. Size
  /\ rbtail \in Nat /\ rbtail2 \in Nat /\ passed \in BOOLEAN
  /\ getpc \in {"idle", "peek", "publish"}
  /\ getpos \in Nat /\ getsize \in 0 .. Size

InUse(i) == items[i].phase # "done"

StatusOf(phase) ==
  CASE phase = "reserved" -> "init"
    [] phase \in {"ready", "got"} -> "ready"
    [] phase = "done" -> "done"

(* An element that is still in use keeps the header its put wrote, with    *)
(* the status its users gave it: no put, reap or get of another thread     *)
(* ever writes over it, and the assertions of ring_buffer_elm_set_ready    *)
(* and ring_buffer_elm_set_done on the status they find never fire.        *)
InUseIntact ==
  \A i \in DOMAIN items :
    InUse(i) =>
      elm[Ix(items[i].off)] = [size |-> items[i].size,
                               status |-> StatusOf(items[i].phase)]

(* The unit k units into a stretch of sz units at off. *)
UnitsOf(off, sz) == { Ix(off + k) : k \in 0 .. sz - 1 }

(* No unit of the buffer belongs to two elements in use, and the element   *)
(* put is about to publish lies on nothing that is in use: the space of an *)
(* element is given out again only after set_done, however puts, gets and  *)
(* set_done calls of different elements interleave with reaping.           *)
NoOverlap ==
  \A i \in DOMAIN items : InUse(i) =>
    /\ \A j \in DOMAIN items : i # j /\ InUse(j) =>
         UnitsOf(items[i].off, items[i].size)
           \cap UnitsOf(items[j].off, items[j].size) = {}
    /\ putpc \in {"write", "publish"} =>
         UnitsOf(items[i].off, items[i].size) \cap UnitsOf(head, need) = {}

(* The comment on the four control variables of ring_buffer_create:        *)
(* tail2, tail and head follow each other within one round of the buffer,  *)
(* what lies before tail2 is done, [tail2, tail) was dequeued, [tail, head)*)
(* was not.  Only between the two writes of the aggressive reap may tail2  *)
(* be ahead of tail.                                                       *)
ControlVariables ==
  /\ head - tail2 < Size
  /\ tail2 <= head /\ tail <= head
  /\ putpc # "cas" => tail2 <= tail
  /\ \A i \in DOMAIN items :
       /\ items[i].off < tail2 => ~InUse(i)
       /\ ~Direct => (items[i].off < tail <=> items[i].phase \in {"got", "done"})

(* free_space_size subtracts more than an alignment unit from the distance *)
(* between head and tail2, yet never wraps around: every put leaves more   *)
(* than a header behind it, for any alignment.                             *)
NoUnderflow == FreeSpace(head, tail2) >= 0

(* get hands out elements in the order in which put handed them out, each  *)
(* one once and only after it was set ready, although elements become      *)
(* ready and done in any order.                                            *)
DeliveredInOrder ==
  [][\A i \in DOMAIN items :
       items'[i].phase = "got" /\ items[i].phase # "got" =>
         /\ items[i].phase = "ready"
         /\ \A j \in 1 .. i - 1 : items[j].phase \in {"got", "done"}]_vars

(* The ring buffer implements the claim queue: space before tail2 is free, *)
(* elements are claimed, readied, taken, finished and reclaimed as there.  *)
Promise == INSTANCE ClaimQueue WITH freed <- tail2

ImplementsClaimQueue == Promise!Spec

(* A blocking put of less than the whole buffer returns: whenever it waits *)
(* for the element at tail2, that element is set done, wakes it, and the   *)
(* retry either finds room or a later element to wait for.                 *)
PutReturns == putpc = "check" ~> putpc = "idle"

(* What was put is received and its space is given back in the end, even   *)
(* when its get had to wait for an earlier element.                        *)
EveryElementServed ==
  \A i \in 1 .. MaxPuts : i \in DOMAIN items ~> (i \in DOMAIN items /\ ~InUse(i))
===============================================================================
