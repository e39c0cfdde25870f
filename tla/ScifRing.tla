------------------------------- MODULE ScifRing -------------------------------
(***************************************************************************)
(* A ring buffer across PCIe.  The elements and one set of control         *)
(* variables lie in the master's memory; the shadow works on a copy of the *)
(* control variables and passes them on lazily: rb_rmb fetches the other   *)
(* end's variable when the copy says full or empty, rb_wmb publishes its   *)
(* own at the end of a batch of combined requests, before the combiner     *)
(* waits or leaves (pci-ring-buffer/lib/ring_buffer.c with the shadow half *)
(* of its control flow, and ring_buffer_scif.c).                           *)
(*                                                                         *)
(* As in RingBuffer, offsets count units and never wrap.  A scan of the    *)
(* elements is one step here and every access a step there.                *)
(***************************************************************************)
EXTENDS ScifConnection, SequencesExt

CONSTANTS
  Size,        \* units in the buffer
  Sizes,       \* sizes of the elements, in units
  Combined,    \* for each end, the requests a combiner serves in one batch
               \* (1: the callers use the _nolock functions)
  MaxPuts,     \* bound: elements put
  MaxGets      \* bound: calls of get

ASSUME SizeAssumption == Size \in Nat \ {0, 1} /\ Sizes \subseteq 1 .. Size - 1
ASSUME CombinedAssumption == Combined \in [Ends -> Nat \ {0}]
ASSUME CallsAssumption == MaxPuts \in Nat /\ MaxGets \in Nat

VARIABLES
  view,        \* head, tail and tail2 as each end has them
  elm,         \* element header at each position
  items,       \* each element put: where it is, what has become of it
  put, get,    \* the combiner of the putting and of the getting end: where it
               \* is, the requests served since it last published, where the
               \* element of its own request is, the size it needs
  rbtail,      \* its local rb_tail in the aggressive reap
  gets         \* calls of get so far

vars == <<connection, view, elm, items, put, get, rbtail, gets>>
data == <<view, elm, items, put, get, rbtail, gets>>

consumer == Other(producer)
Mine == view[producer]
Theirs == view[consumer]
Ix(off) == off % Size
Done(off) == elm[Ix(off)].status = "done"
After(off) == off + elm[Ix(off)].size

Init ==
  /\ ConnectionInit
  /\ view = [e \in Ends |-> [head |-> 0, tail |-> 0, tail2 |-> 0]]
  /\ elm = [p \in 0 .. Size - 1 |-> [size |-> 0, status |-> "none"]]
  /\ items = <<>>
  /\ put = [pc |-> "idle", batch |-> 0, own |-> {}, need |-> 0]
  /\ get = [pc |-> "idle", batch |-> 0, own |-> {}]
  /\ rbtail = 0 /\ gets = 0

(* The shadow starts with the control variables of the master. *)
CreateShadow ==
  /\ Mapped
  /\ view' = [view EXCEPT !["shadow"] = view["master"]]
  /\ UNCHANGED <<elm, items, put, get, rbtail, gets>>

-------------------------------------------------------------------------------
(* rb_rmb and rb_wmb; e is the end that calls them. *)
Refreshed(e, var) ==
  IF e = "shadow" THEN [view[e] EXCEPT ![var] = view["master"][var]]
                  ELSE view[e]

Publish(e, var) ==
  view' = IF e = "shadow"
          THEN [view EXCEPT !["master"][var] = view["shadow"][var]]
          ELSE view

(* free_space_size, in units: a header and a byte stay free. *)
Gap(v) == IF Ix(v.tail2) = Ix(v.head) THEN Size
          ELSE (Ix(v.tail2) - Ix(v.head)) % Size

Fits(v) == put.need < Gap(v)

(* A reap goes from element to element and stops at "stop" or at the first *)
(* that is not done.                                                       *)
Reap(from, stop) ==
  LET reached[k \in 0 .. Size] ==
        IF k = 0 THEN from
        ELSE IF Ix(reached[k - 1]) = Ix(stop) \/ ~Done(reached[k - 1])
             THEN reached[k - 1]
             ELSE After(reached[k - 1])
  IN  [end |-> reached[Size], passed |-> { reached[k] : k \in 0 .. Size }]

PutGo(place) == put' = [put EXCEPT !.pc = place]

PutCall(size) ==
  /\ put.pc = "idle"
  /\ Usable(producer)
  /\ Len(items) < MaxPuts
  /\ put' = [put EXCEPT !.pc = "check", !.need = size]
  /\ UNCHANGED <<connection, view, elm, items, get, rbtail, gets>>

PutFits ==
  /\ put.pc = "check"
  /\ Fits(Mine)
  /\ PutGo("write")
  /\ UNCHANGED <<connection, view, elm, items, get, rbtail, gets>>

(* Not enough room: fetch tail and reap up to it. *)
PutReap ==
  LET v == Refreshed(producer, "tail")
      new == [v EXCEPT !.tail2 = Reap(v.tail2, v.tail).end]
  IN
  /\ put.pc = "check"
  /\ ~Fits(Mine)
  /\ view' = [view EXCEPT ![producer] = new]
  /\ PutGo(IF Fits(new) THEN "write" ELSE "again")
  /\ UNCHANGED <<connection, elm, items, get, rbtail, gets>>

(* The aggressive reap notes tail before it sets out. *)
PutNote ==
  /\ put.pc = "again"
  /\ rbtail' = Mine.tail
  /\ PutGo("reap_all")
  /\ UNCHANGED <<connection, view, elm, items, get, gets>>

(* It reaps up to head, and lets tail catch up if tail2 passed it.         *)
PutReapAll ==
  LET reap == Reap(Mine.tail2, Mine.head)
      passed == \E q \in reap.passed : Ix(q) = Ix(rbtail) /\ Ix(q) # Ix(Mine.head)
      new == [Mine EXCEPT !.tail2 = reap.end]
  IN
  /\ put.pc = "reap_all"
  /\ view' = [view EXCEPT ![producer] = new]
  /\ PutGo(IF passed THEN "cas" ELSE IF Fits(new) THEN "write" ELSE "full")
  /\ UNCHANGED <<connection, elm, items, get, rbtail, gets>>

PutNoCas ==   \* mutant: tail does not catch up
  /\ put.pc = "cas"
  /\ PutGo(IF Fits(Mine) THEN "write" ELSE "full")
  /\ UNCHANGED <<connection, view, elm, items, get, rbtail, gets>>

PutCas ==
  /\ put.pc = "cas"
  /\ view' = [view EXCEPT ![producer].tail =
                IF Ix(@) = Ix(rbtail) THEN Mine.tail2 ELSE @]
  /\ PutGo(IF Fits(Mine) THEN "write" ELSE "full")
  /\ UNCHANGED <<connection, elm, items, get, rbtail, gets>>

(* No room for a request that is not the combiner's own: it becomes the    *)
(* next combiner, after what was done so far is published.                 *)
PutHandOver ==
  /\ blocking
  /\ put.pc = "full"
  /\ put.batch > 0
  /\ Publish(producer, "head")
  /\ put' = [put EXCEPT !.pc = "check", !.batch = 0, !.own = {}]
  /\ UNCHANGED <<connection, elm, items, get, rbtail, gets>>

(* _nap_peek: health is checked once, before the wait for the element.     *)
PutPeek ==
  /\ blocking
  /\ put.pc = "full"
  /\ put.batch = 0
  /\ PutGo(IF IsHealthy(producer) THEN "peek" ELSE "idle")
  /\ UNCHANGED <<connection, view, elm, items, get, rbtail, gets>>

(* Without is_blocking the request is through, with -EAGAIN.               *)
PutFails ==
  /\ ~blocking
  /\ put.pc = "full"
  /\ put' = [put EXCEPT !.pc = "failed", !.batch = @ + 1]
  /\ UNCHANGED <<connection, view, elm, items, get, rbtail, gets>>

PutWake ==
  /\ put.pc = "peek"
  /\ Done(Mine.tail2)
  /\ PutGo("check")
  /\ UNCHANGED <<connection, view, elm, items, get, rbtail, gets>>

(* The first request a combiner serves is its own.                         *)
PutElement ==
  /\ put.pc = "write"
  /\ elm' = [elm EXCEPT ![Ix(Mine.head)] = [size |-> put.need, status |-> "init"]]
  /\ view' = [view EXCEPT ![producer].head = @ + put.need]
  /\ items' = Append(items, [off |-> Mine.head, size |-> put.need,
                             phase |-> "reserved"])
  /\ put' = [put EXCEPT !.pc = "served", !.batch = @ + 1,
                        !.own = IF put.batch = 0 THEN {Mine.head} ELSE @]
  /\ UNCHANGED <<connection, get, rbtail, gets>>

(* Another request waits: this one's caller is let go.  If the other came  *)
(* after the combiner took this one for the last, rb_wmb has been called.  *)
PutNext(size) ==
  /\ put.pc \in {"served", "failed"}
  /\ Usable(producer)
  /\ put.batch < Combined[producer]
  /\ Len(items) < MaxPuts
  /\ put' = [put EXCEPT !.pc = "check", !.need = size]
  /\ UNCHANGED view \/ Publish(producer, "head")
  /\ UNCHANGED <<connection, elm, items, get, rbtail, gets>>

PutReturn ==
  /\ put.pc \in {"served", "failed"}
  /\ Publish(producer, "head")
  /\ put' = [put EXCEPT !.pc = "idle", !.batch = 0, !.own = {}]
  /\ UNCHANGED <<connection, elm, items, get, rbtail, gets>>

-------------------------------------------------------------------------------
GetGo(place) == get' = [get EXCEPT !.pc = place]

GetCall ==
  /\ get.pc = "idle"
  /\ Usable(consumer)
  /\ gets < MaxGets
  /\ gets' = gets + 1
  /\ GetGo("check")
  /\ UNCHANGED <<connection, view, elm, items, put, rbtail>>

Empty(v) == Ix(v.head) = Ix(v.tail)

(* ring_buffer_is_empty fetches head when its copy says empty. *)
Fresh == IF Empty(Theirs) THEN Refreshed(consumer, "head") ELSE Theirs

(* The element at tail goes to the caller. *)
Taken == [i \in DOMAIN items |-> IF items[i].off # Fresh.tail THEN items[i]
                                 ELSE [items[i] EXCEPT !.phase = "got"]]

GetAny ==   \* mutant: the status of the element is not looked at
  /\ get.pc = "check"
  /\ ~Empty(Fresh)
  /\ view' = [view EXCEPT ![consumer] = [Fresh EXCEPT !.tail = After(@)]]
  /\ items' = Taken
  /\ get' = [pc |-> "served", batch |-> get.batch + 1,
             own |-> IF get.batch = 0 THEN {Theirs.tail} ELSE get.own]
  /\ UNCHANGED <<connection, elm, put, rbtail, gets>>

GetReady ==
  /\ get.pc = "check"
  /\ ~Empty(Fresh)
  /\ elm[Ix(Fresh.tail)].status = "ready"
  /\ view' = [view EXCEPT ![consumer] = [Fresh EXCEPT !.tail = After(@)]]
  /\ items' = Taken
  /\ get' = [pc |-> "served", batch |-> get.batch + 1,
             own |-> IF get.batch = 0 THEN {Theirs.tail} ELSE get.own]
  /\ UNCHANGED <<connection, elm, put, rbtail, gets>>

GetNothing ==
  /\ get.pc = "check"
  /\ Empty(Fresh) \/ elm[Ix(Fresh.tail)].status # "ready"
  /\ view' = [view EXCEPT ![consumer] = Fresh]
  /\ GetGo(IF Empty(Fresh) THEN "empty" ELSE "unready")
  /\ UNCHANGED <<connection, elm, items, put, rbtail, gets>>

GetHandOver ==
  /\ blocking
  /\ get.pc \in {"empty", "unready"}
  /\ get.batch > 0
  /\ Publish(consumer, "tail")
  /\ get' = [pc |-> "check", batch |-> 0, own |-> {}]
  /\ UNCHANGED <<connection, elm, items, put, rbtail, gets>>

(* In an empty buffer there is no element to wait for: try again. *)
GetPeek ==
  /\ blocking
  /\ get.pc \in {"empty", "unready"}
  /\ get.batch = 0
  /\ GetGo(IF ~IsHealthy(consumer) THEN "idle"
           ELSE IF get.pc = "empty" THEN "check" ELSE "peek")
  /\ UNCHANGED <<connection, view, elm, items, put, rbtail, gets>>

GetFails ==
  /\ ~blocking
  /\ get.pc \in {"empty", "unready"}
  /\ get' = [get EXCEPT !.pc = "failed", !.batch = @ + 1]
  /\ UNCHANGED <<connection, view, elm, items, put, rbtail, gets>>

GetWake ==
  /\ get.pc = "peek"
  /\ elm[Ix(Theirs.tail)].status = "ready"
  /\ GetGo("check")
  /\ UNCHANGED <<connection, view, elm, items, put, rbtail, gets>>

GetNext ==
  /\ get.pc \in {"served", "failed"}
  /\ Usable(consumer)
  /\ get.batch < Combined[consumer]
  /\ gets < MaxGets
  /\ gets' = gets + 1
  /\ GetGo("check")
  /\ UNCHANGED view \/ Publish(consumer, "tail")
  /\ UNCHANGED <<connection, elm, items, put, rbtail>>

GetReturn ==
  /\ get.pc \in {"served", "failed"}
  /\ Publish(consumer, "tail")
  /\ get' = [pc |-> "idle", batch |-> 0, own |-> {}]
  /\ UNCHANGED <<connection, elm, items, put, rbtail, gets>>

-------------------------------------------------------------------------------
(* The callers of put and get have their element once their request is     *)
(* done, which the last one of a batch is only after rb_wmb; the combiner  *)
(* has its own when it returns.                                            *)
SetStatus(i, new) ==
  /\ elm' = [elm EXCEPT ![Ix(items[i].off)].status = new]
  /\ items' = [items EXCEPT ![i].phase = new]
  /\ UNCHANGED <<connection, view, put, get, rbtail, gets>>

SetReady(i) ==
  /\ Usable(producer)
  /\ items[i].phase = "reserved"
  /\ put.pc = "served" => i < Len(items)
  /\ items[i].off \notin put.own
  /\ SetStatus(i, "ready")

SetDone(i) ==
  /\ Usable(consumer)
  /\ items[i].phase = "got"
  /\ get.pc = "served" => items[i].off + items[i].size # Theirs.tail
  /\ items[i].off \notin get.own
  /\ SetStatus(i, "done")

(* An end is destroyed when no call is in progress there; nothing asks     *)
(* what has become of the elements its users hold.                         *)
Destroy(e) ==
  /\ IF e = producer THEN put.pc = "idle" ELSE get.pc = "idle"
  /\ IF e = "master" THEN DestroyMaster ELSE DestroyShadow
  /\ UNCHANGED data

(* A call stops where it is when the process of its end does. *)
PutStep ==
  /\ Usable(producer)
  /\ \/ PutFits \/ PutReap \/ PutNote \/ PutReapAll \/ PutCas
     \/ PutHandOver \/ PutPeek \/ PutFails \/ PutWake \/ PutElement \/ PutReturn

GetStep ==
  /\ Usable(consumer)
  /\ \/ GetReady \/ GetNothing
     \/ GetHandOver \/ GetPeek \/ GetFails \/ GetWake \/ GetReturn

Next ==
  \/ (Handshake \/ \E e \in Ends : ProcessEnds(e)) /\ UNCHANGED data
  \/ CreateShadow
  \/ \E e \in Ends : Destroy(e)
  \/ PutStep \/ \E size \in Sizes : PutCall(size) \/ PutNext(size)
  \/ GetCall \/ GetStep \/ GetNext
  \/ \E i \in DOMAIN items : SetReady(i) \/ SetDone(i)

Spec == Init /\ [][Next]_vars

(* A call in progress goes on, the getting end keeps getting, and users    *)
(* finish with their elements.                                             *)
FairSpec ==
  /\ Spec
  /\ WF_vars(PutStep)
  /\ WF_vars(GetCall)
  /\ WF_vars(GetStep)
  /\ \A i \in 1 .. MaxPuts :
       /\ WF_vars(i \in DOMAIN items /\ SetReady(i))
       /\ WF_vars(i \in DOMAIN items /\ SetDone(i))

-------------------------------------------------------------------------------
(* copy_to_ring_buffer_scif and copy_from_ring_buffer_scif for n units at  *)
(* an address, counted from the page that holds the control variables.     *)
(* Behind it the buffer is mapped twice, but only the first mapping is     *)
(* registered for DMA, which the shadow uses for everything large.         *)
Page == 1
Threshold == 2      \* RING_BUFFER_DMA_OP_THRESHOLD
Window == Page + Size
IsDMABetter(e, n) == e = "shadow" /\ n >= Threshold

Adjusted(start) == IF start >= Window THEN start - Size ELSE start

Piece(e, start, n) ==
  IF IsDMABetter(e, n) THEN [dma |-> TRUE, start |-> Adjusted(start), n |-> n]
                       ELSE [dma |-> FALSE, start |-> start, n |-> n]

Unchopped(e, start, n) == <<Piece(e, start, n)>>   \* mutant: one piece

Pieces(e, start, n) ==
  LET behind == Adjusted(start) + n - Window IN
  IF IsDMABetter(e, n) /\ behind > 0
  THEN <<Piece(e, start, n - behind), Piece(e, Page, behind)>>
  ELSE <<Piece(e, start, n)>>

(* The places of the buffer a copy reads or writes, in order. *)
Place(address) == (address - Page) % Size
Touched(pieces) ==
  FlattenSeq([j \in DOMAIN pieces |->
               [k \in 1 .. pieces[j].n |-> Place(pieces[j].start + k - 1)]])

-------------------------------------------------------------------------------
(* A user may copy any part of an element it holds, in one call: the copy  *)
(* touches exactly that part, also where the element lies across the end   *)
(* of the buffer, and DMA stays inside the registered memory.              *)
CopiesWhole ==
  \A i \in DOMAIN items, e \in Ends :
    \A k \in 0 .. items[i].size - 1 : \A n \in 1 .. items[i].size - k :
      LET pieces == Pieces(e, Page + Ix(items[i].off) + k, n) IN
      /\ Touched(pieces) = [j \in 1 .. n |-> Ix(items[i].off + k + j - 1)]
      /\ \A j \in DOMAIN pieces :
           pieces[j].dma => /\ pieces[j].start >= Page
                            /\ pieces[j].start + pieces[j].n <= Window

(* The comment on the control variables in __ring_buffer_create, for the   *)
(* two ends: what one end knows of the other's variable is never ahead of  *)
(* it, and space is reaped only behind what the getting end has taken,     *)
(* which is also what the putting end takes for its tail.  It is what      *)
(* keeps a reap inside the elements: the code compares for equality alone. *)
ViewsInOrder ==
  Usable("shadow") =>
    /\ Theirs.head <= Mine.head
    /\ view["master"].head <= Mine.head
    /\ view["master"].tail <= Theirs.tail
    /\ Mine.tail <= Theirs.tail
    /\ put.pc # "cas" => Mine.tail2 <= Mine.tail
    /\ Mine.tail2 <= Mine.head /\ Mine.head - Mine.tail2 < Size

(* ring_buffer.c:643 of the reap: "we assume that element can be consumed  *)
(* by simply calling ring_buffer_elm_set_done() without ring_buffer_get(). *)
(* so tail2 can pass tail but cannot head."                                *)
TailTwoBehindHead == Usable("shadow") => Mine.tail2 <= Mine.head

(* Across the bus, with stale copies of the control variables at one end,  *)
(* the two ends keep the promise of the ring buffer: elements are claimed, *)
(* readied, taken in order, finished and reclaimed as in the claim queue.  *)
Promise == INSTANCE ClaimQueue WITH Direct <- FALSE, freed <- Mine.tail2

ImplementsClaimQueue == Promise!Spec

(* The other end may vanish at any time, but health is checked only before *)
(* a wait: a wait for the status of one element is then without end.       *)
Untaken == \E i \in DOMAIN items : items[i].phase \in {"reserved", "ready"}
Lost == status # "EAGAIN" /\ ~Linked
PutHangs == put.pc = "peek" /\ ~Usable(consumer) /\ ~Done(Mine.tail2)
GetHangs ==
  get.pc = "peek" /\ ~Usable(producer) /\ elm[Ix(Theirs.tail)].status # "ready"

(* A put returns, although the getting end does not publish tail at once.  *)
(* A get returns when there is an element to get, and also, which is the   *)
(* purpose of _rbs_is_healthy, when the connection to the other end is     *)
(* gone.  What remains is a call that has gone to wait for an element with *)
(* which the other end, vanished since, was not finished.                  *)
CallsReturn ==
  /\ put.pc = "check" ~> put.pc = "idle" \/ ~Usable(producer) \/ PutHangs
  /\ get.pc = "check" /\ (Untaken \/ Lost)
       ~> get.pc \in {"served", "failed", "idle"} \/ ~Usable(consumer) \/ GetHangs

(* ring_buffer_scif.c:102 of the destruction of an end: "close connections *)
(* first for the other end to get an error".  So a get that waits goes on. *)
OtherEndGetsError ==
  get.pc = "peek" /\ Lost ~> get.pc # "peek" \/ ~Usable(consumer)
===============================================================================
