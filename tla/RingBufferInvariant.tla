-------------------------- MODULE RingBufferInvariant --------------------------
(***************************************************************************)
(* The inductive invariant of RingBuffer, which a run checks and           *)
(* RingBufferProofs proves: where elements lie, what the control variables *)
(* say about them, and what the threads in put and get know.               *)
(***************************************************************************)
EXTENDS RingBuffer

(* An offset at which an element starts, or at which the next one will. *)
Boundary(o) == o = head \/ \E i \in DOMAIN items : items[i].off = o

End(i) == items[i].off + items[i].size

(* Elements lie one after the other up to head, without gaps. *)
Layout ==
  /\ \A i, j \in DOMAIN items : i < j => End(i) <= items[j].off
  /\ \A i \in DOMAIN items : /\ items[i].size >= 1
                              /\ End(i) <= head /\ Boundary(End(i))
  /\ items = <<>> => tail2 = head
  /\ items # <<>> => head = End(Len(items))

(* The bytes left when everything in [tail2, h) is in use. *)
Room(h) == (Size - (h - tail2)) * Align > HeaderBytes

(* The control variables, and what the phases of elements say about them. *)
Control ==
  /\ tail2 <= head /\ tail <= head
  /\ Room(head)
  /\ Boundary(tail) /\ Boundary(tail2)
  /\ putpc # "cas" => tail2 <= tail
  /\ \A i \in DOMAIN items :
       /\ items[i].off < tail2 => items[i].phase = "done"
       /\ ~Direct => (items[i].off < tail <=> items[i].phase \in {"got", "done"})
       /\ Direct => items[i].phase # "got"

(* The header of every element not reclaimed yet is the one its put wrote. *)
Headers ==
  \A i \in DOMAIN items :
    items[i].off >= tail2 =>
      elm[Ix(items[i].off)] = [size |-> items[i].size,
                               status |-> StatusOf(items[i].phase)]

(* What the thread inside __ring_buffer_put knows. *)
Reaping ==
  putpc \in {"reap", "reap_all", "cas"} =>
    /\ Boundary(rbtail) /\ Boundary(rbtail2)
    /\ tail2 <= rbtail2 /\ rbtail2 <= head
    /\ rbtail <= tail /\ head - rbtail < Size
    /\ Direct => rbtail = tail
    /\ \A i \in DOMAIN items : items[i].off < rbtail2 => items[i].phase = "done"

PutLocal ==
  /\ putpc = "reap" => rbtail2 <= rbtail
  /\ putpc = "reap_all" => IF passed THEN rbtail <= rbtail2
                                          ELSE rbtail2 <= rbtail
  /\ putpc = "cas" => rbtail <= rbtail2 /\ tail2 = rbtail2
  /\ putpc \in PutSteps \ {"idle"} => need \in Sizes
  /\ putpc \in {"write", "publish"} => Room(head + need)
  /\ putpc = "publish" =>
       elm[Ix(head)] = [size |-> need, status |-> "init"]

(* What the thread inside __ring_buffer_get knows. *)
GetLocal ==
  /\ Direct => getpc = "idle"
  /\ getpc = "publish" =>
       /\ getpos = tail
       /\ \E i \in DOMAIN items :
            items[i].off = tail /\ items[i].phase = "ready" /\ items[i].size = getsize

IInv ==
  TypeOK /\ Layout /\ Control /\ Headers /\ Reaping /\ PutLocal /\ GetLocal
================================================================================
