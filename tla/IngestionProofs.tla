---------------------------- MODULE IngestionProofs ----------------------------
(***************************************************************************)
(* Proofs about Ingestion, for any providers, managers, batches and rooms. *)
(*                                                                         *)
(* The pointer in an order is good until the manager that follows it gives *)
(* the element back (PointersValid).  The pointer is made by a provider,   *)
(* announced to the EdgeInserter, and passed on to the manager; all this   *)
(* time the element must not be reclaimed, although the manager gives back *)
(* others of the same ring.  It is not, because nobody else holds the same *)
(* pointer: a batch is announced once and forwarded once to each manager   *)
(* (IInv).                                                                 *)
(*                                                                         *)
(* No edge is lost or inserted twice (EdgesConserved): a step changes the  *)
(* sums at one provider and one manager at most, and moves as much from one *)
(* place as it brings to another (EInv).                                   *)
(*                                                                         *)
(* In the eager mode the algorithm runs on whole batches (WholeBatches):   *)
(* the EdgeInserter waits for as many replies as there are orders that have *)
(* no reply yet and replies under way, and the edges announced are the ones *)
(* inserted and the ones owed by those orders (WInv).                      *)
(***************************************************************************)
EXTENDS Ingestion, FoldTheorems, TLAPS

BatchIds == Providers \X Nat
Announcements == [batch : BatchIds, shutdown : BOOLEAN, edges : [Managers -> Nat]]
Elements == [batch : BatchIds, edges : Nat, done : BOOLEAN]
Orders == [batch : BatchIds \union {NoBatch}, shutdown : BOOLEAN,
           counter : BatchIds \union {NoBatch}]
ProviderRecords ==
  [pc : {"read", "send", "finished"}, left : Nat, batch : [Managers -> Nat],
   sent : SUBSET Managers, number : Nat, final : BOOLEAN]
ManagerRecords ==
  [pc : {"get", "insert", "report", "notify", "release", "finished"},
   left : Nat, reexecute : BOOLEAN]

\* Of the inserter the proof needs what its addressees are.
InserterShape ==
  /\ inserter = [pc |-> inserter.pc, shutdowns |-> inserter.shutdowns,
                 todo |-> inserter.todo, awaited |-> inserter.awaited,
                 edges |-> inserter.edges, reexecute |-> inserter.reexecute]
  /\ inserter.todo \in SUBSET Managers
RingShapes ==
  /\ inbox \in Seq(Announcements)
  /\ data \in [Managers -> Seq(Elements)]
  /\ control \in [Managers -> Seq(Orders)]
Shapes ==
  /\ provider \in [Providers -> ProviderRecords]
  /\ manager \in [Managers -> ManagerRecords]
  /\ InserterShape
  /\ RingShapes

\* The edges of batch b for manager m are in its ring.
Delivered(m, b) ==
  \E i \in 1 .. Len(data[m]) : data[m][i].batch = b /\ ~data[m][i].done

\* The inserter has yet to forward announcement k to manager m.
Pending(k, m) ==
  IF k = 1 /\ inserter.pc # "get" THEN m \in inserter.todo
                                  ELSE inbox[k].edges[m] > 0
Batches(m) == {k \in 1 .. Len(control[m]) : ~control[m][k].shutdown}

\* Whoever holds a pointer holds a good one: provider, inserter, manager.
ProvidersHold ==
  \A p \in Providers : \A m \in provider[p].sent : Delivered(m, BatchOf(p))
InserterHolds ==
  \A k \in 1 .. Len(inbox), m \in Managers :
    Pending(k, m) => Delivered(m, inbox[k].batch)
ManagersHold ==
  \A m \in Managers : \A k \in Batches(m) : Delivered(m, control[m][k].batch)

\* Nobody else holds the same.
Old(b) == b \in BatchIds /\ b[2] < provider[b[1]].number
AnnouncedOnce ==
  \A k \in 1 .. Len(inbox) :
    /\ Old(inbox[k].batch)
    /\ \A j \in 1 .. Len(inbox) : inbox[j].batch = inbox[k].batch => j = k
OrderedOnce ==
  \A m \in Managers : \A k \in Batches(m) :
    /\ Old(control[m][k].batch)
    /\ \A j \in Batches(m) : control[m][j].batch = control[m][k].batch => j = k
    /\ \A j \in 1 .. Len(inbox) :
         Pending(j, m) => inbox[j].batch # control[m][k].batch

\* Who is at work has the message it works on at the front of its ring.
InserterWorks ==
  /\ inserter.pc \notin {"count", "forward"} => inserter.todo = {}
  /\ inserter.pc \notin {"get", "shutdown", "finished"} => inbox # <<>>
ManagersWork ==
  \A m \in Managers :
    manager[m].pc \notin {"get", "finished"} => control[m] # <<>> /\ 1 \in Batches(m)

IInv ==
  /\ Shapes
  /\ ProvidersHold /\ InserterHolds /\ ManagersHold
  /\ AnnouncedOnce /\ OrderedOnce
  /\ InserterWorks /\ ManagersWork
-------------------------------------------------------------------------------
(* Sequences.                                                              *)
LEMMA OneMore ==
  ASSUME NEW n \in Nat
  PROVE  /\ \A i \in 1 .. n : i \in 1 .. n + 1
         /\ n + 1 \in 1 .. n + 1
         /\ \A i \in 1 .. n + 1 : i \in 1 .. n \/ i = n + 1
OBVIOUS

LEMMA UpTo ==
  ASSUME NEW n \in Nat
  PROVE  IsFiniteSet(1 .. n) /\ Cardinality(1 .. n) = n
<1>1. 1 \in Int /\ n \in Int
  OBVIOUS
<1>2. /\ IsFiniteSet(1 .. n)
      /\ Cardinality(1 .. n) = IF 1 > n THEN 0 ELSE n - 1 + 1
  BY <1>1, FS_Interval
<1> QED
  BY <1>2

LEMMA Appended ==
  ASSUME NEW S, NEW s \in Seq(S), NEW x \in S
  PROVE  /\ Append(s, x) \in Seq(S) /\ Append(s, x) # <<>>
         /\ Len(s) \in Nat /\ Len(Append(s, x)) = Len(s) + 1
         /\ \A i \in 1 .. Len(s) : Append(s, x)[i] = s[i] /\ i \in 1 .. Len(s) + 1
         /\ Append(s, x)[Len(s) + 1] = x /\ Len(s) + 1 \in 1 .. Len(s) + 1
         /\ \A i \in 1 .. Len(s) + 1 : i \in 1 .. Len(s) \/ i = Len(s) + 1
<1>1. /\ Append(s, x) \in Seq(S) /\ Append(s, x) # <<>>
      /\ Len(s) \in Nat /\ Len(Append(s, x)) = Len(s) + 1
      /\ \A i \in 1 .. Len(s) : Append(s, x)[i] = s[i]
      /\ Append(s, x)[Len(s) + 1] = x
  OBVIOUS
<1> QED
  BY <1>1, OneMore

LEMMA Tailed ==
  ASSUME NEW S, NEW s \in Seq(S), s # <<>>
  PROVE  /\ Tail(s) \in Seq(S) /\ Len(Tail(s)) = Len(s) - 1
         /\ Len(s) \in Nat /\ Len(s) > 0 /\ 1 \in 1 .. Len(s)
         /\ \A i \in 1 .. Len(s) - 1 : Tail(s)[i] = s[i + 1] /\ i + 1 \in 1 .. Len(s)
         /\ \A i \in 1 .. Len(s) : i # 1 => i - 1 \in 1 .. Len(s) - 1
         /\ Head(s) = s[1] /\ s[1] \in S
OBVIOUS

\* Giving back marks the elements of one batch, and takes away the first k.
Marked(x, b) == IF x.batch = b THEN [x EXCEPT !.done = TRUE] ELSE x

LEMMA SetDoneIs ==
  ASSUME NEW r \in Seq(Elements), NEW b
  PROVE  /\ SetDone(r, b) \in Seq(Elements) /\ Len(r) \in Nat
         /\ \E k \in 0 .. Len(r) :
              /\ Len(SetDone(r, b)) = Len(r) - k
              /\ \A i \in 1 .. k : Marked(r[i], b).done
              /\ \A i \in 1 .. Len(r) - k :
                   /\ i + k \in 1 .. Len(r)
                   /\ SetDone(r, b)[i] = Marked(r[i + k], b)
<1> DEFINE s == [i \in DOMAIN r |-> IF r[i].batch = b
                                    THEN [r[i] EXCEPT !.done = TRUE] ELSE r[i]]
           gone == {i \in DOMAIN s : \A j \in 1 .. i : s[j].done}
           k == Cardinality(gone)
<1>1. /\ Len(r) \in Nat /\ DOMAIN r = 1 .. Len(r)
      /\ \A i \in 1 .. Len(r) : r[i] \in Elements
  OBVIOUS
<1>2. \A i \in 1 .. Len(r) : s[i] \in Elements /\ s[i] = Marked(r[i], b)
  BY <1>1 DEF Elements, Marked
<1>3. s \in Seq(Elements) /\ Len(s) = Len(r) /\ DOMAIN s = 1 .. Len(r)
  BY <1>1, <1>2
<1>4. SetDone(r, b) = SubSeq(s, k + 1, Len(s))
  BY DEF SetDone, Reclaim
<1> HIDE DEF s
<1>6. gone \subseteq 1 .. Len(r)
  BY <1>3
<1>7. IsFiniteSet(1 .. Len(r)) /\ Cardinality(1 .. Len(r)) = Len(r)
  BY <1>1, UpTo
<1>8. k \in 0 .. Len(r)
  <2>1. IsFiniteSet(gone) /\ Cardinality(gone) <= Len(r)
    BY <1>6, <1>7, FS_Subset
  <2> QED
    BY <1>1, <2>1, FS_CardinalityType
<1>9. ASSUME NEW i \in 1 .. Len(r), ~s[i].done PROVE k < i
  <2>1. gone \subseteq 1 .. i - 1
    BY <1>1, <1>3, <1>9
  <2>2. IsFiniteSet(1 .. i - 1) /\ Cardinality(1 .. i - 1) = i - 1
    <3>1. i - 1 \in Nat
      OBVIOUS
    <3> QED
      BY <3>1, UpTo
  <2>3. IsFiniteSet(gone) /\ Cardinality(gone) <= i - 1
    BY SMTT(30), <2>1, <2>2, FS_Subset
  <2> QED
    BY <1>1, <2>3, FS_CardinalityType
<1> HIDE DEF k, gone
<1>10. PICK n \in Nat : n = Len(r)
  BY <1>1
<1>11. PICK d \in Nat : d = n - k
  <2>1. n - k \in Nat
    BY <1>8, <1>10
  <2> QED
    BY <2>1
<1>12. /\ SubSeq(s, k + 1, Len(s)) \in Seq(Elements)
       /\ Len(SubSeq(s, k + 1, Len(s))) = d
       /\ \A j \in 1 .. d : /\ SubSeq(s, k + 1, Len(s))[j] = s[j + k]
                            /\ j + k \in 1 .. n
  <2>1. PICK c \in 1 .. Len(s) + 1 : c = k + 1
    <3>1. k + 1 \in 1 .. Len(s) + 1
      BY <1>3, <1>8, <1>10
    <3> QED
      BY <3>1
  <2>2. /\ SubSeq(s, c, Len(s)) \in Seq(Elements)
        /\ Len(SubSeq(s, c, Len(s))) = Len(s) - c + 1
        /\ \A j \in 1 .. Len(s) - c + 1 : SubSeq(s, c, Len(s))[j] = s[c + j - 1]
    BY <1>1, <1>3
  <2>3. /\ Len(s) - c + 1 = d
        /\ \A j \in 1 .. d : c + j - 1 = j + k /\ j + k \in 1 .. n
    BY <1>3, <1>8, <1>10, <1>11, <2>1
  <2> QED
    BY <2>1, <2>2, <2>3
<1>13. \A i \in 1 .. k : Marked(r[i], b).done
  <2> SUFFICES ASSUME NEW i \in 1 .. k PROVE Marked(r[i], b).done
      OBVIOUS
  <2>1. i \in 1 .. Len(r) /\ ~(k < i)
    BY <1>8, <1>10
  <2>2. s[i].done
    BY <1>9, <2>1
  <2> QED
    BY <1>2, <2>1, <2>2
<1> QED
  BY <1>2, <1>4, <1>8, <1>10, <1>11, <1>12, <1>13

(* Giving back one batch keeps the elements of the others.                 *)
LEMMA SetDoneKeeps ==
  ASSUME NEW r \in Seq(Elements), NEW b
  PROVE  /\ SetDone(r, b) \in Seq(Elements)
         /\ \A i \in 1 .. Len(r) : r[i].batch # b /\ ~r[i].done =>
              \E j \in 1 .. Len(SetDone(r, b)) : SetDone(r, b)[j] = r[i]
<1>1. PICK s \in Seq(Elements), n \in Nat : s = SetDone(r, b) /\ n = Len(r)
  BY SetDoneIs
<1>2. PICK k \in 0 .. n :
        /\ Len(s) = n - k
        /\ \A i \in 1 .. k : Marked(r[i], b).done
        /\ \A i \in 1 .. n - k : i + k \in 1 .. n /\ s[i] = Marked(r[i + k], b)
  <2>1. \E k \in 0 .. Len(r) :
          /\ Len(SetDone(r, b)) = Len(r) - k
          /\ \A i \in 1 .. k : Marked(r[i], b).done
          /\ \A i \in 1 .. Len(r) - k :
               /\ i + k \in 1 .. Len(r)
               /\ SetDone(r, b)[i] = Marked(r[i + k], b)
    BY SetDoneIs
  <2> QED
    BY <1>1, <2>1
<1>3. ASSUME NEW i \in 1 .. n, r[i].batch # b, ~r[i].done
      PROVE  \E j \in 1 .. Len(s) : s[j] = r[i]
  <2>1. Marked(r[i], b) = r[i]
    BY <1>3 DEF Marked
  <2>2. i \notin 1 .. k
    BY <1>2, <1>3, <2>1
  <2>3. PICK j \in 1 .. n - k : i = j + k
    <3>1. i - k \in 1 .. n - k /\ i = (i - k) + k
      BY <2>2
    <3> QED
      BY <3>1
  <2> QED
    BY <1>2, <2>1, <2>3
<1> QED
  BY <1>1, <1>3
-------------------------------------------------------------------------------
(* Steps by who changes what the invariant speaks of.                      *)
LEMMA FrameKeeps ==
  ASSUME IInv, UNCHANGED <<provider, inbox, inserter, data, control, manager>>
  PROVE  IInv'
<1>1. Shapes'
  BY DEF IInv, Shapes, InserterShape, RingShapes
<1>2. ProvidersHold' /\ InserterHolds' /\ ManagersHold'
  BY SMTT(30) DEF IInv, ProvidersHold, InserterHolds, ManagersHold, Delivered, Pending,
         Batches, BatchOf
<1>3. AnnouncedOnce' /\ OrderedOnce'
  BY DEF IInv, AnnouncedOnce, OrderedOnce, Old, Pending, Batches
<1>4. InserterWorks' /\ ManagersWork'
  BY DEF IInv, InserterWorks, ManagersWork, Batches
<1> QED
  BY <1>1, <1>2, <1>3, <1>4 DEF IInv

(* A provider collects edges.                                              *)
LEMMA ProviderKeeps ==
  ASSUME IInv, NEW p \in Providers, NEW r \in ProviderRecords,
         r.sent = provider[p].sent, r.number = provider[p].number,
         provider' = [provider EXCEPT ![p] = r],
         UNCHANGED <<inbox, inserter, data, control, manager>>
  PROVE  IInv'
<1>1. Shapes'
  BY DEF IInv, Shapes, InserterShape, RingShapes
<1>2. \A q \in Providers : /\ provider'[q].sent = provider[q].sent
                           /\ provider'[q].number = provider[q].number
  BY DEF IInv, Shapes
<1>3. \A m, b : Delivered(m, b)' <=> Delivered(m, b)
  BY DEF Delivered
<1>4. \A k, m : Pending(k, m)' <=> Pending(k, m)
  BY DEF Pending
<1>5. \A m : Batches(m)' = Batches(m)
  BY DEF Batches
<1>6. \A b : Old(b)' <=> Old(b)
  BY <1>2 DEF Old, BatchIds
<1>7. ProvidersHold'
  BY <1>2, <1>3 DEF IInv, ProvidersHold, BatchOf
<1>8. InserterHolds' /\ ManagersHold'
  BY <1>3, <1>4, <1>5 DEF IInv, InserterHolds, ManagersHold
<1>9. AnnouncedOnce' /\ OrderedOnce'
  BY <1>4, <1>5, <1>6 DEF IInv, AnnouncedOnce, OrderedOnce
<1>10. InserterWorks' /\ ManagersWork'
  BY <1>5 DEF IInv, InserterWorks, ManagersWork
<1> QED
  BY <1>1, <1>7, <1>8, <1>9, <1>10 DEF IInv

(* The inserter takes up a message or goes on with it.                     *)
LEMMA InserterKeeps ==
  ASSUME IInv, InserterShape', InserterWorks',
         \A k \in 1 .. Len(inbox), m \in Managers : Pending(k, m)' => Pending(k, m),
         UNCHANGED <<provider, inbox, data, control, manager>>
  PROVE  IInv'
<1>1. Shapes'
  BY DEF IInv, Shapes, RingShapes
<1>2. \A m, b : Delivered(m, b)' <=> Delivered(m, b)
  BY DEF Delivered
<1>4. \A m : Batches(m)' = Batches(m)
  BY DEF Batches
<1>5. \A b : Old(b)' <=> Old(b)
  BY DEF Old
<1>6. ProvidersHold' /\ InserterHolds' /\ ManagersHold'
  BY <1>2, <1>4
     DEF IInv, ProvidersHold, InserterHolds, ManagersHold, BatchOf
<1>7. AnnouncedOnce' /\ OrderedOnce'
  BY <1>4, <1>5 DEF IInv, AnnouncedOnce, OrderedOnce
<1>8. ManagersWork'
  BY <1>4 DEF IInv, ManagersWork
<1> QED
  BY <1>1, <1>6, <1>7, <1>8 DEF IInv

(* A manager goes on with the order it has.                                *)
LEMMA ManagerKeeps ==
  ASSUME IInv, NEW m \in Managers, NEW r \in ManagerRecords,
         r.pc \notin {"get", "finished"} => control[m] # <<>> /\ 1 \in Batches(m),
         manager' = [manager EXCEPT ![m] = r],
         UNCHANGED <<provider, inbox, inserter, data, control>>
  PROVE  IInv'
<1>1. Shapes'
  BY DEF IInv, Shapes, InserterShape, RingShapes
<1>2. ProvidersHold' /\ InserterHolds' /\ ManagersHold'
  <2>1. /\ \A q, b : Delivered(q, b)' <=> Delivered(q, b)
        /\ \A k, q : Pending(k, q)' <=> Pending(k, q)
        /\ \A q : Batches(q)' = Batches(q)
    BY DEF Delivered, Pending, Batches
  <2> QED
    BY <2>1 DEF IInv, ProvidersHold, InserterHolds, ManagersHold, BatchOf
<1>3. AnnouncedOnce' /\ OrderedOnce'
  BY DEF IInv, AnnouncedOnce, OrderedOnce, Old, Pending, Batches
<1>4. InserterWorks'
  BY DEF IInv, InserterWorks
<1>5. ManagersWork'
  <2>1. \A q \in Managers : Batches(q)' = Batches(q)
    BY DEF Batches
  <2>2. \A q \in Managers \ {m} : manager'[q] = manager[q]
    BY DEF IInv, Shapes
  <2>3. manager'[m] = r
    BY DEF IInv, Shapes
  <2> QED
    BY <2>1, <2>2, <2>3 DEF IInv, ManagersWork
<1> QED
  BY <1>1, <1>2, <1>3, <1>4, <1>5 DEF IInv
-------------------------------------------------------------------------------
(* Providers.                                                              *)
LEMMA ReadEdgeKeeps ==
  ASSUME IInv, NEW p \in Providers, ReadEdge(p)
  PROVE  IInv'
<1>1. PICK m \in Managers, pc \in {"send", "read"} :
        provider' = [provider EXCEPT ![p].left = @ - 1,
          ![p].batch = [provider[p].batch EXCEPT ![m] = @ + 1], ![p].pc = pc]
  BY DEF ReadEdge
<1>2. provider[p] \in ProviderRecords /\ provider[p].left > 0
  BY DEF IInv, Shapes, ReadEdge
<1> DEFINE r == [provider[p] EXCEPT !.left = @ - 1,
                   !.batch = [provider[p].batch EXCEPT ![m] = @ + 1], !.pc = pc]
<1>3. r \in ProviderRecords /\ r.sent = provider[p].sent
      /\ r.number = provider[p].number
  <2>1. /\ provider[p].left - 1 \in Nat
        /\ [provider[p].batch EXCEPT ![m] = @ + 1] \in [Managers -> Nat]
    BY <1>2 DEF ProviderRecords
  <2> HIDE DEF r
  <2>2. r = [provider[p] EXCEPT !.left = provider[p].left - 1,
               !.batch = [provider[p].batch EXCEPT ![m] = @ + 1], !.pc = pc]
    BY <1>2 DEF r, ProviderRecords
  <2> QED
    BY <1>2, <2>1, <2>2 DEF ProviderRecords
<1>4. provider' = [provider EXCEPT ![p] = r]
  BY <1>1 DEF IInv, Shapes
<1>5. UNCHANGED <<inbox, inserter, data, control, manager>>
  BY DEF ReadEdge, rings
<1> HIDE DEF r
<1> QED
  BY <1>3, <1>4, <1>5, ProviderKeeps

LEMMA InsertionFinishedKeeps ==
  ASSUME IInv, NEW p \in Providers, InsertionFinished(p)
  PROVE  IInv'
<1>1. provider[p] \in ProviderRecords
  BY DEF IInv, Shapes
<1> DEFINE r == [provider[p] EXCEPT !.pc = "send", !.final = TRUE]
<1>2. r \in ProviderRecords /\ r.sent = provider[p].sent
      /\ r.number = provider[p].number
  BY <1>1 DEF ProviderRecords
<1>3. provider' = [provider EXCEPT ![p] = r]
  BY DEF InsertionFinished, IInv, Shapes
<1>4. UNCHANGED <<inbox, inserter, data, control, manager>>
  BY DEF InsertionFinished, rings
<1> HIDE DEF r
<1> QED
  BY <1>2, <1>3, <1>4, ProviderKeeps

(* The element is in the ring when the provider notes that it has sent it. *)
LEMMA PutDataKeeps ==
  ASSUME IInv, NEW p \in Providers, PutData(p)
  PROVE  IInv'
<1>1. PICK m \in Managers : PutDataOf(p, m)
  BY DEF PutData
<1> DEFINE x == [batch |-> BatchOf(p), edges |-> provider[p].batch[m],
                 done |-> FALSE]
<1>2. /\ data' = [data EXCEPT ![m] = Append(@, x)]
      /\ provider' = [provider EXCEPT ![p].sent = @ \union {m}]
      /\ UNCHANGED <<inbox, inserter, control, manager>>
  BY <1>1 DEF PutDataOf
<1>3. provider[p] \in ProviderRecords /\ data[m] \in Seq(Elements)
  BY DEF IInv, Shapes, RingShapes
<1>4. x \in Elements /\ x.batch = BatchOf(p) /\ ~x.done
  BY <1>3 DEF ProviderRecords, Elements, BatchOf, BatchIds
<1> HIDE DEF x
<1>5. /\ data'[m] = Append(data[m], x)
      /\ \A q \in Managers \ {m} : data'[q] = data[q]
      /\ data' \in [Managers -> Seq(Elements)]
  BY <1>2, <1>3, <1>4, Appended DEF IInv, Shapes, RingShapes
<1>6. /\ provider' \in [Providers -> ProviderRecords]
      /\ \A q \in Providers : provider'[q].number = provider[q].number
      /\ \A q \in Providers \ {p} : provider'[q] = provider[q]
      /\ provider'[p].sent = provider[p].sent \union {m}
  BY <1>2, <1>3 DEF IInv, Shapes, ProviderRecords
<1>7. Shapes'
  BY <1>2, <1>5, <1>6 DEF IInv, Shapes, InserterShape, RingShapes
<1>8. \A q \in Managers : \A b : Delivered(q, b) => Delivered(q, b)'
  <2>1. \A q \in Managers \ {m} : \A b : Delivered(q, b) => Delivered(q, b)'
    BY <1>5 DEF Delivered
  <2>2. ASSUME NEW b, Delivered(m, b) PROVE Delivered(m, b)'
    <3>1. PICK i \in 1 .. Len(data[m]) : data[m][i].batch = b /\ ~data[m][i].done
      BY <2>2 DEF Delivered
    <3>2. i \in 1 .. Len(data'[m]) /\ data'[m][i] = data[m][i]
      BY <1>3, <1>4, <1>5, Appended
    <3> QED
      BY <3>1, <3>2 DEF Delivered
  <2> QED
    BY <2>1, <2>2
<1>9. Delivered(m, BatchOf(p))'
  <2>1. BatchOf(p)' = BatchOf(p)
    BY <1>6 DEF BatchOf
  <2>2. /\ Len(data[m]) + 1 \in 1 .. Len(data'[m])
        /\ data'[m][Len(data[m]) + 1] = x
    BY <1>3, <1>4, <1>5, Appended
  <2> QED
    BY <1>4, <2>1, <2>2 DEF Delivered
<1>10. ProvidersHold'
  <2>1. ASSUME NEW q \in Providers, NEW n \in provider'[q].sent
        PROVE  Delivered(n, BatchOf(q))'
    <3>1. n \in Managers /\ BatchOf(q)' = BatchOf(q)
      BY <1>6 DEF ProviderRecords, BatchOf
    <3>2. CASE n \in provider[q].sent
      BY <3>1, <3>2, <1>8 DEF IInv, ProvidersHold
    <3>3. CASE n \notin provider[q].sent
      BY <3>3, <1>6, <1>9
    <3> QED
      BY <3>2, <3>3
  <2> QED
    BY <2>1 DEF ProvidersHold
<1>11. /\ \A k, q : Pending(k, q)' <=> Pending(k, q)
       /\ \A q : Batches(q)' = Batches(q)
  BY <1>2 DEF Pending, Batches
<1>12. \A b : Old(b)' <=> Old(b)
  BY <1>6 DEF Old, BatchIds
<1>13. InserterHolds'
  BY <1>2, <1>8, <1>11 DEF IInv, InserterHolds
<1>14. ManagersHold'
  BY <1>2, <1>8, <1>11 DEF IInv, ManagersHold
<1>15. AnnouncedOnce' /\ OrderedOnce'
  BY <1>2, <1>11, <1>12 DEF IInv, AnnouncedOnce, OrderedOnce
<1>16. InserterWorks' /\ ManagersWork'
  BY <1>2, <1>11 DEF IInv, InserterWorks, ManagersWork
<1> QED
  BY <1>7, <1>10, <1>13, <1>14, <1>15, <1>16 DEF IInv

(* What is announced has been sent, and has not been announced before.     *)
LEMMA AnnounceKeeps ==
  ASSUME IInv, NEW p \in Providers, Announce(p)
  PROVE  IInv'
<1>0. inbox \in Seq(Announcements) /\ Len(inbox) \in Nat /\ BatchOf(p) \in BatchIds
  BY DEF IInv, Shapes, RingShapes, ProviderRecords, BatchOf, BatchIds
<1> PICK n \in Nat, b0 \in BatchIds : n = Len(inbox) /\ b0 = BatchOf(p)
  BY <1>0
<1> DEFINE x == [batch |-> b0, shutdown |-> provider[p].final,
                 edges |-> provider[p].batch]
<1>1. /\ Unsent(p) = {}
      /\ inbox' = Append(inbox, x)
      /\ provider' = [provider EXCEPT
           ![p].pc = IF provider[p].final THEN "finished" ELSE "read",
           ![p].batch = Zero, ![p].sent = {}, ![p].number = @ + 1]
      /\ UNCHANGED <<inserter, data, control, manager>>
  BY DEF Announce, AnnounceIf, rings
<1>2. /\ provider[p] \in ProviderRecords /\ inbox \in Seq(Announcements)
      /\ Zero \in [Managers -> Nat]
  BY DEF IInv, Shapes, RingShapes, Zero
<1>3. x \in Announcements /\ x.batch = b0 /\ x.edges = provider[p].batch
  BY <1>2 DEF ProviderRecords, Announcements, BatchOf, BatchIds
<1> HIDE DEF x
<1>4. /\ inbox' \in Seq(Announcements) /\ Len(inbox') = n + 1 /\ inbox' # <<>>
      /\ \A i \in 1 .. n : inbox'[i] = inbox[i]
      /\ inbox'[n + 1] = x /\ n \in Nat
      /\ \A i \in 1 .. n + 1 : i \in 1 .. n \/ i = n + 1
  BY <1>1, <1>2, <1>3, Appended
<1>5. /\ provider' \in [Providers -> ProviderRecords]
      /\ \A q \in Providers \ {p} : provider'[q] = provider[q]
      /\ provider'[p].sent = {} /\ provider'[p].number = provider[p].number + 1
  <2>1. PICK pc \in {"finished", "read"} :
          provider' = [provider EXCEPT ![p].pc = pc, ![p].batch = Zero,
                         ![p].sent = {}, ![p].number = @ + 1]
    BY <1>1
  <2>2. PICK r \in ProviderRecords : r = provider[p]
    BY <1>2
  <2>3. PICK k \in Nat : k = r.number + 1
    BY DEF ProviderRecords
  <2>4. PICK s : s = [r EXCEPT !.pc = pc, !.batch = Zero, !.sent = {}, !.number = k]
    OBVIOUS
  <2>5. s \in ProviderRecords /\ s.sent = {} /\ s.number = k
    BY <1>2, <2>4 DEF ProviderRecords
  <2>6. provider \in [Providers -> ProviderRecords]
    BY DEF IInv, Shapes
  <2>7. provider' = [provider EXCEPT ![p] = s]
    BY <2>1, <2>2, <2>3, <2>4, <2>6
  <2>8. /\ provider' \in [Providers -> ProviderRecords] /\ provider'[p] = s
        /\ \A q \in Providers \ {p} : provider'[q] = provider[q]
    BY <2>5, <2>6, <2>7
  <2> QED
    BY <2>2, <2>3, <2>5, <2>8
<1>6. Shapes'
  BY <1>1, <1>4, <1>5 DEF IInv, Shapes, InserterShape, RingShapes
<1>7. /\ \A m, b : Delivered(m, b)' <=> Delivered(m, b)
      /\ \A m : Batches(m)' = Batches(m)
  BY <1>1 DEF Delivered, Batches
<1>8. \A k \in 1 .. n : \A m : Pending(k, m)' <=> Pending(k, m)
  BY <1>1, <1>4 DEF Pending
<1>9. \A m \in Managers : Pending(n + 1, m)' => m \in provider[p].sent
  <2>1. ASSUME NEW m \in Managers, Pending(n + 1, m)' PROVE provider[p].batch[m] > 0
    <3>1. CASE n + 1 = 1 /\ inserter.pc # "get"
      <4>1. inbox = <<>>
        BY <1>2, <3>1
      <4>2. inserter.pc \in {"shutdown", "finished"}
        BY <3>1, <4>1 DEF IInv, InserterWorks
      <4>3. inserter.todo = {}
        BY <4>2 DEF IInv, InserterWorks
      <4> QED
        BY <1>1, <2>1, <3>1, <4>3 DEF Pending
    <3>2. CASE ~(n + 1 = 1 /\ inserter.pc # "get")
      BY <1>1, <1>3, <1>4, <2>1, <3>2 DEF Pending
    <3> QED
      BY <3>1, <3>2
  <2> QED
    BY <1>1, <2>1 DEF Unsent
<1>10. \A b : Old(b) => Old(b)' /\ b # b0
  BY <1>2, <1>5 DEF Old, BatchIds, BatchOf, IInv, Shapes, ProviderRecords
<1>11. Old(b0)'
  BY <1>5 DEF Old, BatchIds, BatchOf, ProviderRecords
<1>12. ProvidersHold'
  <2>1. ASSUME NEW q \in Providers, NEW m \in provider'[q].sent
        PROVE  Delivered(m, BatchOf(q))'
    <3>1. q # p
      BY <1>5, <2>1
    <3>2. BatchOf(q)' = BatchOf(q) /\ m \in provider[q].sent
      BY <1>5, <3>1 DEF BatchOf
    <3> QED
      BY <1>7, <3>2 DEF IInv, ProvidersHold
  <2> QED
    BY <2>1 DEF ProvidersHold
<1>13. InserterHolds'
  <2>1. ASSUME NEW k \in 1 .. n + 1, NEW m \in Managers, Pending(k, m)'
        PROVE  Delivered(m, inbox'[k].batch)
    <3>1. CASE k \in 1 .. n
      BY <1>4, <1>8, <2>1, <3>1 DEF IInv, InserterHolds
    <3>2. CASE k = n + 1
      BY <1>3, <1>4, <1>9, <2>1, <3>2 DEF IInv, ProvidersHold
    <3> QED
      BY <1>4, <3>1, <3>2
  <2> QED
    BY <1>4, <1>7, <2>1 DEF InserterHolds
<1>14. ManagersHold'
  BY <1>1, <1>7 DEF IInv, ManagersHold
<1>15. AnnouncedOnce'
  <2>1. ASSUME NEW k \in 1 .. n + 1
        PROVE  /\ Old(inbox[k].batch)'
               /\ \A j \in 1 .. n + 1 : inbox'[j].batch = inbox'[k].batch => j = k
    <3>1. \A j \in 1 .. n : Old(inbox'[j].batch)
      BY <1>4 DEF IInv, AnnouncedOnce
    <3>2. inbox'[n + 1].batch = b0
      BY <1>3, <1>4
    <3>3. \A i, j \in 1 .. n : inbox'[j].batch = inbox'[i].batch => j = i
      BY <1>4 DEF IInv, AnnouncedOnce
    <3> QED
      BY <1>4, <1>10, <1>11, <3>1, <3>2, <3>3
  <2> QED
    BY <1>4, <2>1 DEF AnnouncedOnce
<1>16. OrderedOnce'
  <2>1. ASSUME NEW m \in Managers, NEW k \in Batches(m)
        PROVE  /\ Old(control[m][k].batch)'
               /\ \A j \in Batches(m) :
                    control[m][j].batch = control[m][k].batch => j = k
               /\ \A j \in 1 .. n + 1 :
                    Pending(j, m)' => inbox'[j].batch # control[m][k].batch
    <3>1. /\ Old(control[m][k].batch)
          /\ \A j \in Batches(m) :
               control[m][j].batch = control[m][k].batch => j = k
          /\ \A j \in 1 .. n :
               Pending(j, m) => inbox[j].batch # control[m][k].batch
      BY DEF IInv, OrderedOnce
    <3>2. inbox'[n + 1].batch = b0
      BY <1>3, <1>4
    <3> QED
      BY <1>1, <1>4, <1>8, <1>10, <3>1, <3>2
  <2> QED
    BY <1>1, <1>4, <1>7, <2>1 DEF OrderedOnce
<1>17. InserterWorks' /\ ManagersWork'
  BY <1>1, <1>4, <1>7 DEF IInv, InserterWorks, ManagersWork
<1> QED
  BY <1>6, <1>12, <1>13, <1>14, <1>15, <1>16, <1>17 DEF IInv
-------------------------------------------------------------------------------
(* The EdgeInserter.                                                       *)
LEMMA ReceiveKeeps ==
  ASSUME IInv, Receive
  PROVE  IInv'
<1> DEFINE Received(pc, n, c) ==
      inserter' = [inserter EXCEPT !.pc = pc, !.shutdowns = n,
        !.todo = Addressees(Message), !.awaited = c, !.reexecute = FALSE]
<1>0. PICK pc \in {"count", "forward"} : \E n, c : Received(pc, n, c)
  BY DEF Receive
<1>1. PICK n, c : Received(pc, n, c)
  BY <1>0
<1>2. /\ inserter.pc = "get" /\ inbox # <<>>
      /\ UNCHANGED <<provider, inbox, data, control, manager>>
  BY DEF Receive, rings
<1>3. inbox \in Seq(Announcements) /\ InserterShape
  BY DEF IInv, Shapes, RingShapes
<1>4. Message = inbox[1]
  BY <1>2, <1>3, Tailed DEF Message
<1>5. inserter' = [pc |-> pc, shutdowns |-> n, todo |-> Addressees(Message),
                   awaited |-> c, edges |-> inserter.edges, reexecute |-> FALSE]
  BY <1>1, <1>3 DEF InserterShape
<1>6. InserterShape'
  BY <1>5 DEF InserterShape, Addressees
<1>7. InserterWorks'
  BY <1>2, <1>5 DEF InserterWorks
<1>8. ASSUME NEW k \in 1 .. Len(inbox), NEW m \in Managers, Pending(k, m)'
      PROVE  Pending(k, m)
  BY <1>2, <1>4, <1>5, <1>8 DEF Pending, Addressees
<1> QED
  BY <1>2, <1>6, <1>7, <1>8, InserterKeeps

(* The steps between receiving and giving back that forward nothing.       *)
LEMMA InserterAtWork ==
  ASSUME IInv, NEW pc, NEW awaited, NEW edges, NEW reexecute,
         inserter' = [pc |-> pc, shutdowns |-> inserter.shutdowns,
                      todo |-> inserter.todo, awaited |-> awaited,
                      edges |-> edges, reexecute |-> reexecute],
         inserter.pc # "get", pc # "get",
         pc \notin {"count", "forward"} => inserter.todo = {},
         pc \notin {"shutdown", "finished"} => inbox # <<>>,
         UNCHANGED <<provider, inbox, data, control, manager>>
  PROVE  IInv'
<1>1. InserterShape
  BY DEF IInv, Shapes
<1>2. InserterShape' /\ InserterWorks'
  BY <1>1 DEF InserterShape, InserterWorks
<1>3. \A k \in 1 .. Len(inbox), m \in Managers : Pending(k, m)' => Pending(k, m)
  BY DEF Pending
<1> QED
  BY <1>2, <1>3, InserterKeeps

LEMMA AtWorkKeeps ==
  ASSUME IInv,
         \/ PutCounter \/ Forwarded \/ ReceiveReply \/ Decide \/ Executed
         \/ NotifyWriter \/ ResultsWritten \/ StopWriter
  PROVE  IInv'
<1> DEFINE Same(pc) == inserter' = [inserter EXCEPT !.pc = pc]
           Rest == UNCHANGED <<provider, inbox, data, control, manager>>
<1>1. InserterShape /\ InserterWorks
  BY DEF IInv, Shapes
<1>2. ASSUME NEW pc, Same(pc)
      PROVE  inserter' = [pc |-> pc, shutdowns |-> inserter.shutdowns,
                          todo |-> inserter.todo, awaited |-> inserter.awaited,
                          edges |-> inserter.edges, reexecute |-> inserter.reexecute]
  BY <1>1, <1>2 DEF InserterShape
<1>3. ASSUME NEW pc, Same(pc), Rest, inserter.pc # "get", pc # "get",
             pc \notin {"count", "forward"} => inserter.todo = {},
             pc \notin {"shutdown", "finished"} => inbox # <<>>
      PROVE  IInv'
  BY <1>2, <1>3, InserterAtWork
<1>4. CASE PutCounter
  <2>1. Same("forward") /\ Rest /\ inserter.pc = "count"
    BY <1>4 DEF PutCounter
  <2> QED
    BY <1>1, <1>3, <2>1 DEF InserterWorks
<1>5. CASE Forwarded
  <2>1. PICK pc \in {"done", "wait"} : Same(pc)
    BY <1>5 DEF Forwarded
  <2>2. Rest /\ inserter.pc = "forward" /\ inserter.todo = {}
    BY <1>5 DEF Forwarded, rings
  <2> QED
    BY <1>1, <1>3, <2>1, <2>2 DEF InserterWorks
<1>6. CASE ReceiveReply
  <2>1. PICK awaited, reexecute :
          inserter' = [inserter EXCEPT !.awaited = awaited, !.reexecute = reexecute]
    BY <1>6 DEF ReceiveReply
  <2>2. inserter' = [pc |-> inserter.pc, shutdowns |-> inserter.shutdowns,
                     todo |-> inserter.todo, awaited |-> awaited,
                     edges |-> inserter.edges, reexecute |-> reexecute]
    BY <1>1, <2>1 DEF InserterShape
  <2>3. Rest /\ inserter.pc = "wait"
    BY <1>6 DEF ReceiveReply
  <2> QED
    BY <1>1, <2>2, <2>3, InserterAtWork DEF InserterWorks
<1>7. CASE Decide
  <2>0. PICK pc \in {"executing", "done"} : \E edges :
          inserter' = [inserter EXCEPT !.edges = edges, !.pc = pc]
    BY <1>7 DEF Decide
  <2>1. PICK edges : inserter' = [inserter EXCEPT !.edges = edges, !.pc = pc]
    BY <2>0
  <2>2. inserter' = [pc |-> pc, shutdowns |-> inserter.shutdowns,
                     todo |-> inserter.todo, awaited |-> inserter.awaited,
                     edges |-> edges, reexecute |-> inserter.reexecute]
    BY <1>1, <2>1 DEF InserterShape
  <2>3. Rest /\ inserter.pc = "wait"
    BY <1>7 DEF Decide, rings
  <2> QED
    BY <1>1, <2>2, <2>3, InserterAtWork DEF InserterWorks
<1>8. CASE Executed
  <2>1. PICK pc \in {"notify", "done"} : Same(pc)
    BY <1>8 DEF Executed
  <2>2. Rest /\ inserter.pc = "executing"
    BY <1>8 DEF Executed, rings
  <2> QED
    BY <1>1, <1>3, <2>1, <2>2 DEF InserterWorks
<1>9. CASE NotifyWriter
  <2>1. Same("results") /\ Rest /\ inserter.pc = "notify"
    BY <1>9 DEF NotifyWriter, Meet, rings
  <2> QED
    BY <1>1, <1>3, <2>1 DEF InserterWorks
<1>10. CASE ResultsWritten
  <2>1. Same("done") /\ Rest /\ inserter.pc = "results"
    BY <1>10 DEF ResultsWritten, Meet, rings
  <2> QED
    BY <1>1, <1>3, <2>1 DEF InserterWorks
<1>11. CASE StopWriter
  <2>1. Same("finished") /\ Rest /\ inserter.pc = "shutdown"
    BY <1>11 DEF StopWriter, Meet, rings
  <2> QED
    BY <1>1, <1>3, <2>1 DEF InserterWorks
<1> QED
  BY <1>4, <1>5, <1>6, <1>7, <1>8, <1>9, <1>10, <1>11

(* An order for m is put into its ring: the pointer is passed on.          *)
LEMMA ForwardKeeps ==
  ASSUME IInv, Forward
  PROVE  IInv'
<1>1. PICK m \in Managers, counter \in {Message.batch, NoBatch} :
        /\ m \in inserter.todo
        /\ control' = [control EXCEPT ![m] = Append(@,
             [batch |-> Message.batch, shutdown |-> FALSE, counter |-> counter])]
        /\ inserter' = [inserter EXCEPT !.todo = @ \ {m}]
  BY DEF Forward, IsLeast
<1>2. /\ inserter.pc = "forward"
      /\ UNCHANGED <<provider, inbox, data, manager>>
  BY DEF Forward
<1>3. /\ inbox \in Seq(Announcements) /\ inbox # <<>> /\ InserterShape
      /\ control[m] \in Seq(Orders)
  BY <1>2 DEF IInv, Shapes, RingShapes, InserterWorks
<1>4. /\ Message = inbox[1] /\ inbox[1] \in Announcements /\ 1 \in 1 .. Len(inbox)
  BY <1>3, Tailed DEF Message
<1> DEFINE b == inbox[1].batch
           x == [batch |-> inbox[1].batch, shutdown |-> FALSE, counter |-> counter]
<1>5. x \in Orders /\ x.batch = b /\ ~x.shutdown
  BY <1>1, <1>4 DEF Announcements, Orders
<1>6. control' = [control EXCEPT ![m] = Append(@, x)]
  BY <1>1, <1>4
<1> HIDE DEF x
<1>0. Len(control[m]) \in Nat
  BY <1>3
<1> PICK n \in Nat : n = Len(control[m])
  BY <1>0
<1>7. /\ control'[m] \in Seq(Orders) /\ Len(control'[m]) = n + 1
      /\ control'[m] # <<>>
      /\ \A i \in 1 .. n : control'[m][i] = control[m][i] /\ i \in 1 .. n + 1
      /\ control'[m][n + 1] = x /\ n + 1 \in 1 .. n + 1
      /\ \A i \in 1 .. n + 1 : i \in 1 .. n \/ i = n + 1
  BY <1>3, <1>5, <1>6, Appended DEF IInv, Shapes, RingShapes
<1>8. /\ \A q \in Managers \ {m} : control'[q] = control[q]
      /\ control' \in [Managers -> Seq(Orders)]
  BY <1>3, <1>5, <1>6, Appended DEF IInv, Shapes, RingShapes
<1>9. /\ \A q \in Managers \ {m} : Batches(q)' = Batches(q)
      /\ Batches(m)' = Batches(m) \union {n + 1}
  <2>1. \A q \in Managers \ {m} : Batches(q)' = Batches(q)
    BY <1>8 DEF Batches
  <2>2. \A k : k \in Batches(m)' <=> k \in Batches(m) \union {n + 1}
    <3>1. \A k : k \in Batches(m)' <=> k \in 1 .. n + 1 /\ ~control'[m][k].shutdown
      BY <1>7 DEF Batches
    <3>2. \A k : k \in Batches(m) <=> k \in 1 .. n /\ ~control[m][k].shutdown
      BY DEF Batches
    <3> QED
      BY <1>5, <1>7, <3>1, <3>2
  <2> QED
    BY <2>1, <2>2
<1>10. /\ inserter' = [pc |-> inserter.pc, shutdowns |-> inserter.shutdowns,
                       todo |-> inserter.todo \ {m}, awaited |-> inserter.awaited,
                       edges |-> inserter.edges, reexecute |-> inserter.reexecute]
  BY <1>1, <1>3 DEF InserterShape
<1>11. Shapes'
  BY <1>2, <1>3, <1>8, <1>10 DEF IInv, Shapes, InserterShape, RingShapes
<1>12. \A q, c : Delivered(q, c)' <=> Delivered(q, c)
  BY <1>2 DEF Delivered
<1>13. /\ \A k \in 1 .. Len(inbox), q \in Managers :
            Pending(k, q)' => Pending(k, q) /\ (k # 1 \/ q # m)
       /\ Pending(1, m)
  BY <1>1, <1>2, <1>10 DEF Pending
<1>14. \A c : Old(c)' <=> Old(c)
  BY <1>2 DEF Old
<1>15. ProvidersHold' /\ InserterHolds'
  BY <1>2, <1>12, <1>13 DEF IInv, ProvidersHold, InserterHolds, BatchOf
<1>16. ManagersHold'
  <2>1. ASSUME NEW q \in Managers, NEW k \in Batches(q)'
        PROVE  Delivered(q, control'[q][k].batch)
    <3>1. CASE q # m
      BY <1>8, <1>9, <3>1 DEF IInv, ManagersHold
    <3>2. CASE q = m /\ k \in Batches(m)
      BY <1>7, <3>2 DEF IInv, ManagersHold, Batches
    <3>3. CASE q = m /\ k = n + 1
      BY <1>4, <1>5, <1>7, <1>13, <3>3 DEF IInv, InserterHolds
    <3> QED
      BY <1>9, <3>1, <3>2, <3>3
  <2> QED
    BY <1>12, <2>1 DEF ManagersHold
<1>17. AnnouncedOnce'
  BY <1>2, <1>14 DEF IInv, AnnouncedOnce
<1>18. OrderedOnce'
  <2> DEFINE Alone(q, k) ==
        /\ Old(control'[q][k].batch)
        /\ \A j \in Batches(q)' : control'[q][j].batch = control'[q][k].batch => j = k
        /\ \A j \in 1 .. Len(inbox) :
             Pending(j, q)' => inbox[j].batch # control'[q][k].batch
  <2>1. \A q \in Managers : \A k \in Batches(q) :
          /\ Old(control[q][k].batch)
          /\ \A j \in Batches(q) : control[q][j].batch = control[q][k].batch => j = k
          /\ \A j \in 1 .. Len(inbox) :
               Pending(j, q) => inbox[j].batch # control[q][k].batch
    BY DEF IInv, OrderedOnce
  <2>2. ASSUME NEW q \in Managers \ {m}, NEW k \in Batches(q)
        PROVE  Alone(q, k)
    BY <1>8, <1>9, <1>13, <2>1
  <2>3. \A k \in Batches(m) : k \in 1 .. n /\ control'[m][k] = control[m][k]
    BY <1>7 DEF Batches
  <2>4. \A k \in Batches(m) : control[m][k].batch # b /\ k # n + 1
    BY <1>4, <1>13, <2>1, <2>3
  <2>5. control'[m][n + 1].batch = b
    BY <1>5, <1>7
  <2>6. ASSUME NEW k \in Batches(m) PROVE Alone(m, k)
    BY SMTT(30), <1>9, <1>13, <2>1, <2>3, <2>4, <2>5
  <2>7. Alone(m, n + 1)
    <3>1. Old(b) /\ \A j \in 1 .. Len(inbox) : inbox[j].batch = b => j = 1
      BY <1>4 DEF IInv, AnnouncedOnce
    <3> QED
      BY <1>9, <1>13, <2>3, <2>4, <2>5, <3>1
  <2>8. \A q \in Managers : \A k \in Batches(q)' : Alone(q, k)
    BY <1>9, <2>2, <2>6, <2>7
  <2> QED
    BY <1>2, <1>14, <2>8 DEF OrderedOnce
<1>19. InserterWorks'
  BY <1>2, <1>3, <1>10 DEF InserterWorks
<1>20. ManagersWork'
  BY <1>2, <1>7, <1>8, <1>9 DEF IInv, ManagersWork
<1> QED
  BY <1>11, <1>15, <1>16, <1>17, <1>18, <1>19, <1>20 DEF IInv

(* The message given back has been forwarded to all it is for.             *)
LEMMA ReleaseKeeps ==
  ASSUME IInv, Release
  PROVE  IInv'
<1>1. PICK pc \in {"get", "shutdown", "finished"} :
        inserter' = [inserter EXCEPT !.pc = pc]
  BY DEF Release
<1>2. /\ inserter.pc = "done" /\ inbox' = Tail(inbox)
      /\ UNCHANGED <<provider, data, control, manager>>
  BY DEF Release, rings
<1>3. /\ inbox \in Seq(Announcements) /\ inbox # <<>> /\ InserterShape
      /\ inserter.todo = {}
  BY <1>2 DEF IInv, Shapes, RingShapes, InserterWorks
<1>4. PICK n \in Nat : n = Len(inbox)
  BY <1>3
<1>5. /\ inbox' \in Seq(Announcements) /\ Len(inbox') = n - 1
      /\ \A i \in 1 .. n - 1 : inbox'[i] = inbox[i + 1] /\ i + 1 \in 1 .. n
  BY <1>2, <1>3, <1>4, Tailed
<1>6. inserter' = [pc |-> pc, shutdowns |-> inserter.shutdowns,
                   todo |-> {}, awaited |-> inserter.awaited,
                   edges |-> inserter.edges, reexecute |-> inserter.reexecute]
  BY <1>1, <1>3 DEF InserterShape
<1>7. InserterShape'
  BY <1>6 DEF InserterShape
<1>8. Shapes'
  BY <1>2, <1>5, <1>7 DEF IInv, Shapes, RingShapes
<1>9. ASSUME NEW i \in 1 .. n - 1, NEW m \in Managers, Pending(i, m)'
      PROVE  Pending(i + 1, m)
  BY <1>2, <1>5, <1>6, <1>9 DEF Pending
<1>10. /\ \A m, b : Delivered(m, b)' <=> Delivered(m, b)
       /\ \A m : Batches(m)' = Batches(m)
       /\ \A b : Old(b)' <=> Old(b)
  BY <1>2 DEF Delivered, Batches, Old
<1>11. ProvidersHold' /\ ManagersHold'
  BY <1>2, <1>10 DEF IInv, ProvidersHold, ManagersHold, BatchOf
<1>12. InserterHolds'
  BY <1>4, <1>5, <1>9, <1>10 DEF IInv, InserterHolds
<1>13. AnnouncedOnce'
  BY <1>4, <1>5, <1>10 DEF IInv, AnnouncedOnce
<1>14. OrderedOnce'
  BY <1>2, <1>4, <1>5, <1>9, <1>10 DEF IInv, OrderedOnce
<1>15. InserterWorks'
  BY <1>6 DEF InserterWorks
<1>16. ManagersWork'
  BY <1>2, <1>10 DEF IInv, ManagersWork
<1> QED
  BY <1>8, <1>11, <1>12, <1>13, <1>14, <1>15, <1>16 DEF IInv
-------------------------------------------------------------------------------
(* The managers.                                                           *)
LEMMA FirstOrder ==
  ASSUME IInv, NEW m \in Managers, control[m] # <<>>
  PROVE  Order(m) = control[m][1] /\ 1 \in 1 .. Len(control[m])
BY Tailed DEF IInv, Shapes, RingShapes, Order

LEMMA GetOrderKeeps ==
  ASSUME IInv, NEW m \in Managers, GetOrder(m)
  PROVE  IInv'
<1>1. /\ control[m] # <<>>
      /\ UNCHANGED <<provider, inbox, inserter, data, control>>
  BY DEF GetOrder, rings, ingest
<1>2. manager \in [Managers -> ManagerRecords] /\ data[m] \in Seq(Elements)
  BY DEF IInv, Shapes, RingShapes
<1>3. CASE Order(m).shutdown /\ Place(m, "finished")
  <2>1. PICK r \in ManagerRecords : r = [manager[m] EXCEPT !.pc = "finished"]
    BY <1>2 DEF ManagerRecords
  <2>2. manager' = [manager EXCEPT ![m] = r] /\ r.pc = "finished"
    BY <1>2, <1>3, <2>1 DEF Place, ManagerRecords
  <2> QED
    BY <1>1, <2>2, ManagerKeeps
<1>4. CASE ~Order(m).shutdown
  <2>1. PICK i \in DOMAIN data[m] :
          manager' = [manager EXCEPT ![m] =
            [pc |-> "insert", left |-> data[m][i].edges, reexecute |-> FALSE]]
    BY <1>4 DEF GetOrder
  <2>2. PICK r \in ManagerRecords :
          r = [pc |-> "insert", left |-> data[m][i].edges, reexecute |-> FALSE]
    <3>1. data[m][i] \in Elements
      BY <1>2
    <3> QED
      BY <3>1 DEF ManagerRecords, Elements
  <2>3. manager' = [manager EXCEPT ![m] = r]
    BY <2>1, <2>2
  <2>4. 1 \in Batches(m)
    BY <1>1, <1>4, FirstOrder DEF Batches
  <2> QED
    BY <1>1, <2>3, <2>4, ManagerKeeps
<1> QED
  BY <1>3, <1>4 DEF GetOrder

LEMMA ManagerAtWork ==
  ASSUME IInv, NEW m \in Managers, NEW r \in ManagerRecords,
         manager' = [manager EXCEPT ![m] = r],
         manager[m].pc \notin {"get", "finished"},
         UNCHANGED <<provider, inbox, inserter, data, control>>
  PROVE  IInv'
<1>1. control[m] # <<>> /\ 1 \in Batches(m)
  BY DEF IInv, ManagersWork
<1> QED
  BY <1>1, ManagerKeeps

LEMMA ManagerPlaceKeeps ==
  ASSUME IInv, NEW m \in Managers, NEW pc \in {"notify", "release"}, Place(m, pc),
         manager[m].pc \notin {"get", "finished"},
         UNCHANGED <<provider, inbox, inserter, data, control>>
  PROVE  IInv'
<1>1. manager \in [Managers -> ManagerRecords]
  BY DEF IInv, Shapes
<1>2. PICK r \in ManagerRecords : r = [manager[m] EXCEPT !.pc = pc]
  BY <1>1 DEF ManagerRecords
<1>3. manager' = [manager EXCEPT ![m] = r]
  BY <1>1, <1>2 DEF Place
<1> QED
  BY <1>3, ManagerAtWork

LEMMA ManagerStepKeeps ==
  ASSUME IInv, NEW m \in Managers,
         Insert(m) \/ Delete(m) \/ Reply(m) \/ CountDown(m) \/ Notify(m)
  PROVE  IInv'
<1>1. manager \in [Managers -> ManagerRecords] /\ manager[m] \in ManagerRecords
  BY DEF IInv, Shapes
<1>2. CASE Insert(m)
  <2>1. /\ manager' = [manager EXCEPT ![m].left = @ - 1]
        /\ manager[m].pc = "insert" /\ manager[m].left > 0
        /\ UNCHANGED <<provider, inbox, inserter, data, control>>
    BY <1>2 DEF Insert, InsertInto, ingest, rings
  <2>2. PICK n \in Nat : n = manager[m].left - 1
    BY <1>1, <2>1 DEF ManagerRecords
  <2>3. PICK r \in ManagerRecords : r = [manager[m] EXCEPT !.left = n]
    BY <1>1 DEF ManagerRecords
  <2>4. manager' = [manager EXCEPT ![m] = r]
    BY <1>1, <2>1, <2>2, <2>3
  <2> QED
    BY <2>1, <2>4, ManagerAtWork
<1>3. CASE Delete(m)
  <2>1. PICK reexecute \in {FALSE, Deletions} :
          manager' = [manager EXCEPT ![m].pc = "report", ![m].reexecute = reexecute]
    BY <1>3 DEF Delete
  <2>2. reexecute \in BOOLEAN
    BY ConstantsAssumption
  <2>3. PICK r \in ManagerRecords :
          r = [manager[m] EXCEPT !.pc = "report", !.reexecute = reexecute]
    BY <1>1, <2>2 DEF ManagerRecords
  <2>4. manager' = [manager EXCEPT ![m] = r]
    BY <1>1, <2>1, <2>3
  <2>5. /\ manager[m].pc = "insert"
        /\ UNCHANGED <<provider, inbox, inserter, data, control>>
    BY <1>3 DEF Delete, ingest, rings
  <2> QED
    BY <2>4, <2>5, ManagerAtWork
<1>4. CASE Reply(m)
  <2>1. /\ Place(m, "release") /\ manager[m].pc = "report"
        /\ UNCHANGED <<provider, inbox, inserter, data, control>>
    BY <1>4 DEF Reply, ingest
  <2> QED
    BY <2>1, ManagerPlaceKeeps
<1>5. CASE CountDown(m)
  <2>1. PICK pc \in {"notify", "release"} : Place(m, pc)
    BY <1>5 DEF CountDown
  <2>2. /\ manager[m].pc = "report"
        /\ UNCHANGED <<provider, inbox, inserter, data, control>>
    BY <1>5 DEF CountDown, ingest
  <2> QED
    BY <2>1, <2>2, ManagerPlaceKeeps
<1>6. CASE Notify(m)
  <2>1. /\ Place(m, "release") /\ manager[m].pc = "notify"
        /\ UNCHANGED <<provider, inbox, inserter, data, control>>
    BY <1>6 DEF Notify, ingest
  <2> QED
    BY <2>1, ManagerPlaceKeeps
<1> QED
  BY <1>2, <1>3, <1>4, <1>5, <1>6

(* Nobody else holds the pointer a manager gives back.                     *)
LEMMA ReleaseBatchKeeps ==
  ASSUME IInv, NEW m \in Managers, ReleaseBatch(m)
  PROVE  IInv'
<1>1. /\ data' = [data EXCEPT ![m] = SetDone(data[m], Order(m).batch)]
      /\ control' = [control EXCEPT ![m] = Tail(control[m])]
      /\ Place(m, "get") /\ manager[m].pc = "release"
      /\ UNCHANGED <<provider, inbox, inserter>>
  BY DEF ReleaseBatch, ingest, IInv, Shapes, RingShapes
<1>2. /\ control[m] # <<>> /\ 1 \in Batches(m) /\ Order(m) = control[m][1]
      /\ data[m] \in Seq(Elements) /\ control[m] \in Seq(Orders)
  BY <1>1, FirstOrder DEF IInv, ManagersWork, Shapes, RingShapes
<1>3. PICK b : b = control[m][1].batch
  OBVIOUS
<1>4. data' = [data EXCEPT ![m] = SetDone(data[m], b)]
  BY <1>1, <1>2, <1>3
<1>5. /\ data'[m] = SetDone(data[m], b)
      /\ \A q \in Managers \ {m} : data'[q] = data[q]
      /\ data' \in [Managers -> Seq(Elements)]
  BY <1>2, <1>4, SetDoneKeeps DEF IInv, Shapes, RingShapes
<1>6. PICK n \in Nat : n = Len(control[m])
  BY <1>2
<1>7. /\ control'[m] \in Seq(Orders) /\ Len(control'[m]) = n - 1
      /\ \A i \in 1 .. n - 1 : control'[m][i] = control[m][i + 1] /\ i + 1 \in 1 .. n
  BY <1>1, <1>2, <1>6, Tailed DEF IInv, Shapes, RingShapes
<1>8. /\ \A q \in Managers \ {m} : control'[q] = control[q]
      /\ control' \in [Managers -> Seq(Orders)]
  BY <1>1, <1>2, <1>7 DEF IInv, Shapes, RingShapes
<1>9. /\ \A q \in Managers \ {m} : Batches(q)' = Batches(q)
      /\ \A k \in Batches(m)' : k \in 1 .. n - 1 /\ k + 1 \in Batches(m) /\ k + 1 # 1
  BY <1>6, <1>7, <1>8 DEF Batches
<1>10. /\ manager' \in [Managers -> ManagerRecords] /\ manager'[m].pc = "get"
       /\ \A q \in Managers \ {m} : manager'[q] = manager[q]
  BY <1>1 DEF Place, IInv, Shapes, ManagerRecords
<1>11. Shapes'
  BY <1>1, <1>5, <1>8, <1>10 DEF IInv, Shapes, InserterShape, RingShapes
<1>12. /\ \A q \in Managers \ {m} : \A c : Delivered(q, c) => Delivered(q, c)'
       /\ \A c : Delivered(m, c) /\ c # b => Delivered(m, c)'
  <2>1. \A q \in Managers \ {m} : \A c : Delivered(q, c) => Delivered(q, c)'
    BY <1>5 DEF Delivered
  <2>2. ASSUME NEW c, Delivered(m, c), c # b PROVE Delivered(m, c)'
    <3>1. PICK i \in 1 .. Len(data[m]) : data[m][i].batch = c /\ ~data[m][i].done
      BY <2>2 DEF Delivered
    <3>2. PICK j \in 1 .. Len(data'[m]) : data'[m][j] = data[m][i]
      BY <1>2, <1>5, <2>2, <3>1, SetDoneKeeps
    <3> QED
      BY <3>1, <3>2 DEF Delivered
  <2> QED
    BY <2>1, <2>2
<1>13. Old(b)
  BY <1>2, <1>3 DEF IInv, OrderedOnce
<1>14. /\ \A c : Old(c)' <=> Old(c)
       /\ \A k, q : Pending(k, q)' <=> Pending(k, q)
  BY <1>1 DEF Old, Pending
<1>15. ProvidersHold'
  <2>1. ASSUME NEW p \in Providers, NEW q \in provider[p].sent
        PROVE  Delivered(q, BatchOf(p))'
    <3>1. provider[p] \in ProviderRecords
      BY DEF IInv, Shapes
    <3>2. q \in Managers /\ BatchOf(p)' = BatchOf(p) /\ Delivered(q, BatchOf(p))
      BY <1>1, <3>1 DEF IInv, ProvidersHold, ProviderRecords, BatchOf
    <3>3. BatchOf(p) # b
      BY <1>13, <3>1 DEF Old, BatchOf, ProviderRecords
    <3> QED
      BY <1>12, <3>2, <3>3
  <2> QED
    BY <1>1, <2>1 DEF ProvidersHold
<1>16. InserterHolds'
  <2>1. \A k \in 1 .. Len(inbox) : Pending(k, m) => inbox[k].batch # b
    BY <1>2, <1>3 DEF IInv, OrderedOnce
  <2> QED
    BY <1>1, <1>12, <1>14, <2>1 DEF IInv, InserterHolds
<1>17. ManagersHold'
  <2>1. ASSUME NEW q \in Managers \ {m}, NEW k \in Batches(q)'
        PROVE  Delivered(q, control[q][k].batch)'
    BY <1>8, <1>9, <1>12 DEF IInv, ManagersHold
  <2>2. ASSUME NEW k \in Batches(m)'
        PROVE  Delivered(m, control[m][k].batch)'
    <3>1. control'[m][k] = control[m][k + 1] /\ k + 1 \in Batches(m)
      BY <1>7, <1>9
    <3>2. control[m][k + 1].batch # b
      BY <1>2, <1>3, <1>9, <3>1 DEF IInv, OrderedOnce
    <3>3. Delivered(m, control[m][k + 1].batch)
      BY <3>1 DEF IInv, ManagersHold
    <3> QED
      BY <1>12, <3>1, <3>2, <3>3
  <2> QED
    BY <2>1, <2>2 DEF ManagersHold
<1>18. AnnouncedOnce'
  BY <1>1, <1>14 DEF IInv, AnnouncedOnce
<1>19. OrderedOnce'
  <2> DEFINE Alone(q, k) ==
        /\ Old(control'[q][k].batch)
        /\ \A j \in Batches(q)' : control'[q][j].batch = control'[q][k].batch => j = k
        /\ \A j \in 1 .. Len(inbox) :
             Pending(j, q) => inbox[j].batch # control'[q][k].batch
  <2>1. \A q \in Managers : \A k \in Batches(q) :
          /\ Old(control[q][k].batch)
          /\ \A j \in Batches(q) : control[q][j].batch = control[q][k].batch => j = k
          /\ \A j \in 1 .. Len(inbox) :
               Pending(j, q) => inbox[j].batch # control[q][k].batch
    BY DEF IInv, OrderedOnce
  <2>2. ASSUME NEW q \in Managers \ {m}, NEW k \in Batches(q)'
        PROVE  Alone(q, k)
    BY <1>8, <1>9, <2>1
  <2>3. ASSUME NEW k \in Batches(m)' PROVE Alone(m, k)
    <3>1. \A j \in Batches(m)' :
            /\ j + 1 \in Batches(m) /\ control'[m][j] = control[m][j + 1]
            /\ j \in 1 .. n - 1
      BY <1>7, <1>9
    <3>2. \A j \in Batches(m)' : control'[m][j].batch = control'[m][k].batch => j = k
      <4>1. \A j \in Batches(m)' :
              control'[m][j].batch = control'[m][k].batch => j + 1 = k + 1
        BY <2>1, <3>1
      <4> QED
        BY <3>1, <4>1
    <3> QED
      BY <2>1, <3>1, <3>2
  <2> QED
    BY ZenonT(30), <1>1, <1>14, <2>2, <2>3 DEF OrderedOnce
<1>20. InserterWorks'
  BY <1>1 DEF IInv, InserterWorks
<1>21. ManagersWork'
  BY <1>8, <1>9, <1>10 DEF IInv, ManagersWork
<1> QED
  BY <1>11, <1>15, <1>16, <1>17, <1>18, <1>19, <1>20, <1>21 DEF IInv
-------------------------------------------------------------------------------
(* The main thread: the message that stops a manager points nowhere.       *)
LEMMA StopManagerBatches ==
  ASSUME IInv, StopManager
  PROVE  \A n \in Managers : /\ Batches(n)' = Batches(n)
                             /\ \A k \in Batches(n) : control'[n][k] = control[n][k]
<1> DEFINE x == [batch |-> NoBatch, shutdown |-> TRUE, counter |-> NoBatch]
<1>1. PICK m \in Managers : control' = [control EXCEPT ![m] = Append(@, x)]
  BY DEF StopManager
<1>2. x \in Orders /\ x.shutdown /\ control[m] \in Seq(Orders)
  BY DEF Orders, IInv, Shapes, RingShapes
<1> HIDE DEF x
<1>3. PICK n \in Nat : n = Len(control[m])
  BY <1>2
<1>4. /\ Len(control'[m]) = n + 1
      /\ \A i \in 1 .. n : control'[m][i] = control[m][i] /\ i \in 1 .. n + 1
      /\ control'[m][n + 1] = x
      /\ \A i \in 1 .. n + 1 : i \in 1 .. n \/ i = n + 1
      /\ \A q \in Managers \ {m} : control'[q] = control[q]
  BY <1>1, <1>2, <1>3, Appended DEF IInv, Shapes, RingShapes
<1>5. \A q \in Managers \ {m} : Batches(q)' = Batches(q)
  BY <1>4 DEF Batches
<1>6. \A k : k \in Batches(m)' <=> k \in Batches(m)
  <2>1. \A k : k \in Batches(m)' <=> k \in 1 .. n + 1 /\ ~control'[m][k].shutdown
    BY <1>4 DEF Batches
  <2>2. \A k : k \in Batches(m) <=> k \in 1 .. n /\ ~control[m][k].shutdown
    BY <1>3 DEF Batches
  <2> QED
    BY <1>2, <1>4, <2>1, <2>2
<1>7. \A q \in Managers : Batches(q)' = Batches(q)
  BY <1>5, <1>6
<1>8. \A q \in Managers : \A k \in Batches(q) : control'[q][k] = control[q][k]
  BY <1>3, <1>4 DEF Batches
<1> QED
  BY <1>7, <1>8

LEMMA StopManagerKeeps ==
  ASSUME IInv, StopManager
  PROVE  IInv'
<1> DEFINE x == [batch |-> NoBatch, shutdown |-> TRUE, counter |-> NoBatch]
<1>1. PICK m \in Managers : control' = [control EXCEPT ![m] = Append(@, x)]
  BY DEF StopManager
<1>2. UNCHANGED <<provider, inbox, inserter, data, manager>>
  BY DEF StopManager, ingest
<1>3. x \in Orders /\ x.shutdown /\ control[m] \in Seq(Orders)
  BY DEF Orders, IInv, Shapes, RingShapes
<1> HIDE DEF x
<1>4. PICK n \in Nat : n = Len(control[m])
  BY <1>3
<1>5. /\ control'[m] \in Seq(Orders) /\ Len(control'[m]) = n + 1
      /\ control'[m] # <<>>
      /\ \A i \in 1 .. n : control'[m][i] = control[m][i] /\ i \in 1 .. n + 1
      /\ control'[m][n + 1] = x
      /\ \A i \in 1 .. n + 1 : i \in 1 .. n \/ i = n + 1
  BY <1>1, <1>3, <1>4, Appended DEF IInv, Shapes, RingShapes
<1>6. /\ \A q \in Managers \ {m} : control'[q] = control[q]
      /\ control' \in [Managers -> Seq(Orders)]
  BY <1>1, <1>3, <1>5 DEF IInv, Shapes, RingShapes
<1>7. \A q \in Managers : Batches(q)' = Batches(q)
  BY StopManagerBatches
<1>8. \A q \in Managers : \A k \in Batches(q) : control'[q][k] = control[q][k]
  BY StopManagerBatches
<1>9. /\ \A q, b : Delivered(q, b)' <=> Delivered(q, b)
      /\ \A k, q : Pending(k, q)' <=> Pending(k, q)
      /\ \A b : Old(b)' <=> Old(b)
  BY <1>2 DEF Delivered, Pending, Old
<1>10. Shapes'
  BY <1>2, <1>6 DEF IInv, Shapes, InserterShape, RingShapes
<1>11. ProvidersHold' /\ InserterHolds'
  BY <1>2, <1>9 DEF IInv, ProvidersHold, InserterHolds, BatchOf
<1>12. ManagersHold'
  BY <1>7, <1>8, <1>9 DEF IInv, ManagersHold
<1>13. AnnouncedOnce' /\ InserterWorks'
  BY <1>2, <1>9 DEF IInv, AnnouncedOnce, InserterWorks
<1>14. OrderedOnce'
  BY <1>2, <1>7, <1>8, <1>9 DEF IInv, OrderedOnce
<1>15. ManagersWork'
  BY <1>2, <1>5, <1>6, <1>7 DEF IInv, ManagersWork
<1> QED
  BY <1>10, <1>11, <1>12, <1>13, <1>14, <1>15 DEF IInv
-------------------------------------------------------------------------------
LEMMA InitHolds == Init => IInv
<1> SUFFICES ASSUME Init PROVE IInv
    OBVIOUS
<1>1. Zero \in [Managers -> Nat] /\ EdgesPerProvider \in [Providers -> Nat]
  BY ConstantsAssumption DEF Zero
<1>2. provider \in [Providers -> ProviderRecords]
  BY <1>1 DEF Init, ProviderRecords
<1>3. manager \in [Managers -> ManagerRecords]
  BY DEF Init, ManagerRecords
<1>4. InserterShape
  BY DEF Init, InserterShape
<1>5. RingShapes
  BY DEF Init, RingShapes
<1>6. /\ inbox = <<>> /\ Len(inbox) = 0
      /\ \A m \in Managers : control[m] = <<>> /\ Batches(m) = {}
  BY DEF Init, Batches
<1>7. ProvidersHold
  BY DEF Init, ProvidersHold
<1>8. InserterHolds /\ ManagersHold /\ AnnouncedOnce /\ OrderedOnce
  BY <1>6 DEF InserterHolds, ManagersHold, AnnouncedOnce, OrderedOnce
<1>9. InserterWorks /\ ManagersWork
  BY DEF Init, InserterWorks, ManagersWork
<1> QED
  BY <1>2, <1>3, <1>4, <1>5, <1>7, <1>8, <1>9 DEF IInv, Shapes

LEMMA NextKeeps == IInv /\ [Next]_vars => IInv'
<1> SUFFICES ASSUME IInv, [Next]_vars PROVE IInv'
    OBVIOUS
<1>1. ASSUME NEW p \in Providers, ProviderNext(p) PROVE IInv'
  BY <1>1, ReadEdgeKeeps, InsertionFinishedKeeps, PutDataKeeps, AnnounceKeeps
     DEF ProviderNext
<1>2. CASE InserterNext
  BY <1>2, ReceiveKeeps, ForwardKeeps, ReleaseKeeps, AtWorkKeeps DEF InserterNext
<1>3. ASSUME NEW m \in Managers, ManagerNext(m) PROVE IInv'
  BY <1>3, GetOrderKeeps, ManagerStepKeeps, ReleaseBatchKeeps DEF ManagerNext
<1>4. CASE StopManager
  BY <1>4, StopManagerKeeps
<1>5. CASE WriteFile
  BY <1>5, FrameKeeps DEF WriteFile, rings
<1>6. CASE ExecutorNext
  BY <1>6, FrameKeeps DEF ExecutorNext, TakeNotice, ExecutorDone, ingest, rings
<1>7. CASE JoinInserter \/ JoinManagers \/ StopExecutor \/ Destroy
  BY <1>7, FrameKeeps
     DEF JoinInserter, JoinManagers, StopExecutor, Destroy, ingest, rings
<1>8. CASE UNCHANGED vars
  BY <1>8, FrameKeeps DEF vars, ingest, rings
<1> QED
  BY <1>1, <1>2, <1>3, <1>4, <1>5, <1>6, <1>7, <1>8 DEF Next, MainNext

-------------------------------------------------------------------------------
(* Sums over a batch and over a data ring.                                 *)
LEMMA TwoSums ==
  ASSUME NEW f \in [Providers -> Int], NEW f1 \in [Providers -> Int],
         NEW g \in [Managers -> Int], NEW g1 \in [Managers -> Int],
         NEW p \in Providers, NEW m \in Managers,
         \A q \in Providers \ {p} : f1[q] = f[q],
         \A n \in Managers \ {m} : g1[n] = g[n],
         f1[p] + g1[m] = f[p] + g[m]
  PROVE  Total(f1) + Total(g1) = Total(f) + Total(g)
<1>1. IsFiniteSet(Providers) /\ IsFiniteSet(Managers)
  BY ConstantsAssumption
<1>2. SumFunction(f1) + f[p] = SumFunction(f) + f1[p]
  BY <1>1, SumChange DEF DiffersAt
<1>3. SumFunction(g1) + g[m] = SumFunction(g) + g1[m]
  BY <1>1, SumChange DEF DiffersAt
<1>4. /\ SumFunction(f) \in Int /\ SumFunction(f1) \in Int
      /\ SumFunction(g) \in Int /\ SumFunction(g1) \in Int
  BY <1>1, SumInt
<1>5. f[p] \in Int /\ f1[p] \in Int /\ g[m] \in Int /\ g1[m] \in Int
  OBVIOUS
<1> QED
  BY <1>2, <1>3, <1>4, <1>5 DEF Total

\* What of a batch a provider still holds, by manager.
Kept(batch, sent) == [m \in Managers |-> IF m \in sent THEN 0 ELSE batch[m]]

LEMMA KeptIs ==
  ASSUME NEW b \in [Managers -> Nat], NEW sent
  PROVE  /\ Kept(b, sent) \in [Managers -> Int] /\ IsFiniteSet(Managers)
         /\ \A m \in Managers : Kept(b, sent)[m] = IF m \in sent THEN 0 ELSE b[m]
         /\ Collected(b, sent) = SumFunction(Kept(b, sent))
         /\ Collected(b, sent) \in Int
<1>1. /\ Kept(b, sent) \in [Managers -> Int] /\ IsFiniteSet(Managers)
      /\ \A m \in Managers : Kept(b, sent)[m] = IF m \in sent THEN 0 ELSE b[m]
  BY ConstantsAssumption DEF Kept
<1>2. Collected(b, sent) = SumFunction(Kept(b, sent))
  BY DEF Collected, Kept, Total
<1>3. SumFunction(Kept(b, sent)) \in Int
  BY <1>1, SumInt
<1> QED
  BY <1>1, <1>2, <1>3

LEMMA CollectedSent ==
  ASSUME NEW b \in [Managers -> Nat], NEW sent, NEW m \in Managers, m \notin sent
  PROVE  Collected(b, sent \union {m}) + b[m] = Collected(b, sent)
<1> DEFINE f == Kept(b, sent)
           g == Kept(b, sent \union {m})
<1>1. /\ f \in [Managers -> Int] /\ g \in [Managers -> Int] /\ IsFiniteSet(Managers)
      /\ \A n \in Managers : f[n] = IF n \in sent THEN 0 ELSE b[n]
      /\ \A n \in Managers : g[n] = IF n \in sent \union {m} THEN 0 ELSE b[n]
      /\ Collected(b, sent) = SumFunction(f) /\ SumFunction(f) \in Int
      /\ Collected(b, sent \union {m}) = SumFunction(g) /\ SumFunction(g) \in Int
  BY KeptIs
<1> HIDE DEF f, g
<1>2. /\ f[m] = b[m] /\ g[m] = 0 /\ b[m] \in Int
      /\ \A n \in Managers \ {m} : g[n] = f[n]
  BY <1>1
<1>3. SumFunction(g) + f[m] = SumFunction(f) + g[m]
  BY <1>1, <1>2, SumChange DEF DiffersAt
<1> QED
  BY <1>1, <1>2, <1>3

LEMMA CollectedMore ==
  ASSUME NEW b \in [Managers -> Nat], NEW m \in Managers
  PROVE  /\ [b EXCEPT ![m] = @ + 1] \in [Managers -> Nat]
         /\ Collected([b EXCEPT ![m] = @ + 1], {}) = Collected(b, {}) + 1
<1> DEFINE c == [b EXCEPT ![m] = @ + 1]
           f == Kept(b, {})
           g == Kept(c, {})
<1>0. /\ c \in [Managers -> Nat] /\ c[m] = b[m] + 1 /\ b[m] \in Int
      /\ \A n \in Managers \ {m} : c[n] = b[n]
  OBVIOUS
<1> HIDE DEF c
<1>1. /\ f \in [Managers -> Int] /\ g \in [Managers -> Int] /\ IsFiniteSet(Managers)
      /\ \A n \in Managers : f[n] = b[n] /\ g[n] = c[n]
      /\ Collected(b, {}) = SumFunction(f) /\ SumFunction(f) \in Int
      /\ Collected(c, {}) = SumFunction(g) /\ SumFunction(g) \in Int
  BY <1>0, KeptIs
<1> HIDE DEF f, g
<1>2. f[m] = b[m] /\ g[m] = b[m] + 1 /\ \A n \in Managers \ {m} : g[n] = f[n]
  BY <1>0, <1>1
<1>3. SumFunction(g) + f[m] = SumFunction(f) + g[m]
  BY <1>1, <1>2, SumChange DEF DiffersAt
<1>4. Collected(c, {}) = Collected(b, {}) + 1
  BY <1>0, <1>1, <1>2, <1>3
<1> QED
  BY <1>0, <1>4 DEF c

LEMMA CollectedNone ==
  ASSUME NEW b \in [Managers -> Nat], NEW sent,
         \A m \in Managers : m \in sent \/ b[m] = 0
  PROVE  Collected(b, sent) = 0
<1>1. \A m \in Managers : Kept(b, sent)[m] = 0
  BY KeptIs
<1> QED
  BY <1>1, KeptIs, SumZero

\* What counts of an element, and of the elements of a ring.
Weight(x, taken) == IF x.done \/ x.batch \in taken THEN 0 ELSE x.edges
Weights(ring, taken) == [i \in 1 .. Len(ring) |-> Weight(ring[i], taken)]

LEMMA WeightsAre ==
  ASSUME NEW r \in Seq(Elements), NEW taken
  PROVE  /\ Len(r) \in Nat /\ \A i \in 1 .. Len(r) : r[i] \in Elements
         /\ Weights(r, taken) \in [1 .. Len(r) -> Int] /\ IsFiniteSet(1 .. Len(r))
         /\ \A i \in 1 .. Len(r) : Weights(r, taken)[i] = Weight(r[i], taken)
         /\ Waiting(r, taken) = SumFunction(Weights(r, taken))
         /\ Waiting(r, taken) \in Int
<1>1. /\ Len(r) \in Nat /\ DOMAIN r = 1 .. Len(r)
      /\ \A i \in 1 .. Len(r) : r[i] \in Elements
  OBVIOUS
<1>2. \A i \in 1 .. Len(r) : Weight(r[i], taken) \in Int
  BY <1>1 DEF Weight, Elements
<1>3. /\ Weights(r, taken) \in [1 .. Len(r) -> Int]
      /\ \A i \in 1 .. Len(r) : Weights(r, taken)[i] = Weight(r[i], taken)
  BY <1>2 DEF Weights
<1>4. Waiting(r, taken) = SumFunction(Weights(r, taken))
  BY <1>1 DEF Waiting, Weights, Weight, Total
<1>5. IsFiniteSet(1 .. Len(r))
  BY <1>1, UpTo
<1>6. SumFunction(Weights(r, taken)) \in Int
  BY <1>3, <1>5, SumInt
<1> QED
  BY <1>1, <1>3, <1>4, <1>5, <1>6

LEMMA WaitingMore ==
  ASSUME NEW r \in Seq(Elements), NEW taken, NEW x \in Elements,
         ~x.done, x.batch \notin taken
  PROVE  Waiting(Append(r, x), taken) = Waiting(r, taken) + x.edges
<1> DEFINE a == Append(r, x)
           f == Weights(r, taken)
           g == Weights(a, taken)
<1>1. /\ a \in Seq(Elements) /\ Len(r) \in Nat /\ Len(a) = Len(r) + 1
      /\ \A i \in 1 .. Len(r) : a[i] = r[i] /\ i \in 1 .. Len(r) + 1
      /\ a[Len(r) + 1] = x /\ Len(r) + 1 \in 1 .. Len(r) + 1
  BY Appended
<1>2. PICK n \in Nat : n = Len(r)
  BY <1>1
<1> HIDE DEF a
<1>3. /\ f \in [1 .. n -> Int] /\ \A i \in 1 .. n : f[i] = Weight(r[i], taken)
      /\ Waiting(r, taken) = SumFunction(f) /\ SumFunction(f) \in Int
  BY <1>2, WeightsAre
<1>4. /\ g \in [1 .. n + 1 -> Int] /\ \A i \in 1 .. n + 1 : g[i] = Weight(a[i], taken)
      /\ Waiting(a, taken) = SumFunction(g)
  BY <1>1, <1>2, WeightsAre
<1>5. g[n + 1] = x.edges /\ x.edges \in Int
  BY <1>1, <1>2, <1>4 DEF Weight, Elements
<1>6. \A i \in 1 .. n : g[i] = f[i]
  BY <1>1, <1>2, <1>3, <1>4
<1> HIDE DEF f, g
<1>7. [i \in 1 .. n |-> g[i]] = f
  BY <1>3, <1>6
<1>8. SumFunction(g) = g[n + 1] + SumFunction([i \in 1 .. n |-> g[i]])
  BY <1>4, SumMore
<1>9. Waiting(a, taken) = Waiting(r, taken) + x.edges
  BY SMTT(30), <1>3, <1>4, <1>5, <1>7, <1>8
<1> QED
  BY <1>9 DEF a

\* A manager takes the only element of a batch.
LEMMA WaitingLess ==
  ASSUME NEW r \in Seq(Elements), NEW i \in 1 .. Len(r), ~r[i].done,
         \A j \in 1 .. Len(r) : r[j].batch = r[i].batch => j = i
  PROVE  Waiting(r, {r[i].batch}) + r[i].edges = Waiting(r, {})
<1> DEFINE f == Weights(r, {})
           g == Weights(r, {r[i].batch})
<1>1. /\ Len(r) \in Nat /\ \A j \in 1 .. Len(r) : r[j] \in Elements
      /\ f \in [1 .. Len(r) -> Int] /\ IsFiniteSet(1 .. Len(r))
      /\ \A j \in 1 .. Len(r) : f[j] = Weight(r[j], {})
      /\ Waiting(r, {}) = SumFunction(f) /\ SumFunction(f) \in Int
  BY WeightsAre
<1>2. /\ g \in [1 .. Len(r) -> Int]
      /\ \A j \in 1 .. Len(r) : g[j] = Weight(r[j], {r[i].batch})
      /\ Waiting(r, {r[i].batch}) = SumFunction(g) /\ SumFunction(g) \in Int
  BY WeightsAre
<1> HIDE DEF f, g
<1>3. f[i] = r[i].edges /\ g[i] = 0 /\ r[i].edges \in Int
  BY <1>1, <1>2 DEF Weight, Elements
<1>4. PICK D : D = 1 .. Len(r)
  OBVIOUS
<1>5. SumFunction(g) + f[i] = SumFunction(f) + g[i]
  <2>1. \A j \in D \ {i} : g[j] = f[j]
    BY <1>1, <1>2, <1>4 DEF Weight
  <2>2. f \in [D -> Int] /\ g \in [D -> Int] /\ i \in D /\ IsFiniteSet(D)
    BY <1>1, <1>2, <1>4
  <2>3. DiffersAt(f, g, D, i)
    BY <2>1, <2>2 DEF DiffersAt
  <2> QED
    BY <2>3, SumChange
<1> QED
  BY <1>1, <1>2, <1>3, <1>5

LEMMA WaitingDone ==
  ASSUME NEW r \in Seq(Elements), NEW b
  PROVE  Waiting(SetDone(r, b), {}) = Waiting(r, {b})
<1>1. PICK s \in Seq(Elements), n \in Nat : s = SetDone(r, b) /\ n = Len(r)
  BY SetDoneIs
<1>2. PICK k \in 0 .. n :
        /\ Len(s) = n - k
        /\ \A i \in 1 .. k : Marked(r[i], b).done
        /\ \A i \in 1 .. n - k : i + k \in 1 .. n /\ s[i] = Marked(r[i + k], b)
  <2>1. \E k \in 0 .. Len(r) :
          /\ Len(SetDone(r, b)) = Len(r) - k
          /\ \A i \in 1 .. k : Marked(r[i], b).done
          /\ \A i \in 1 .. Len(r) - k :
               /\ i + k \in 1 .. Len(r)
               /\ SetDone(r, b)[i] = Marked(r[i + k], b)
    BY SetDoneIs
  <2> QED
    BY <1>1, <2>1
<1> DEFINE f == Weights(r, {b})
           g == Weights(s, {})
<1>3. /\ \A j \in 1 .. n : r[j] \in Elements
      /\ f \in [1 .. n -> Int]
      /\ \A j \in 1 .. n : f[j] = Weight(r[j], {b})
      /\ Waiting(r, {b}) = SumFunction(f)
  BY <1>1, WeightsAre
<1>4. /\ g \in [1 .. n - k -> Int]
      /\ \A j \in 1 .. n - k : g[j] = Weight(s[j], {})
      /\ Waiting(s, {}) = SumFunction(g)
  BY <1>1, <1>2, WeightsAre
<1> HIDE DEF f, g
<1>5. \A j \in 1 .. n : Weight(Marked(r[j], b), {}) = Weight(r[j], {b})
  BY <1>3 DEF Weight, Marked, Elements
<1>6. \A i \in 1 .. k : f[i] = 0
  <2> SUFFICES ASSUME NEW i \in 1 .. k PROVE f[i] = 0
      OBVIOUS
  <2>1. i \in 1 .. n
    BY <1>2
  <2>2. Weight(Marked(r[i], b), {}) = 0
    BY <1>2 DEF Weight
  <2> QED
    BY <1>3, <1>5, <2>1, <2>2
<1>7. SumFunction(f) = SumFunction([i \in 1 .. n - k |-> f[i + k]])
  BY <1>3, <1>6, SumDrop
<1>8. g = [i \in 1 .. n - k |-> f[i + k]]
  <2>1. \A i \in 1 .. n - k : g[i] = f[i + k]
    BY <1>2, <1>3, <1>4, <1>5
  <2> QED
    BY <1>4, <2>1
<1> QED
  BY <1>1, <1>3, <1>4, <1>7, <1>8
-------------------------------------------------------------------------------
(* Where the edges are, and what makes the sums of EdgesConserved inductive. *)
Share(p) ==
  provider[p].left + Collected(provider[p].batch, provider[p].sent)
Load(m) == Waiting(data[m], Taken(m)) + manager[m].left + inserted[m]

\* A ring has one element of a batch, and none of a batch yet to be put there.
OnceInRing ==
  \A m \in Managers : \A i \in 1 .. Len(data[m]), j \in 1 .. Len(data[m]) :
    data[m][i].batch = data[m][j].batch => i = j
GivenInRing ==
  \A m \in Managers : \A i \in 1 .. Len(data[m]) :
    \/ Old(data[m][i].batch)
    \/ \E p \in Providers : data[m][i].batch = BatchOf(p) /\ m \in provider[p].sent

\* Nothing of a batch is sent before it is full, and nothing is left of an
\* order that is done.  A manager that has finished keeps the message.
NothingSentYet == \A p \in Providers : provider[p].pc = "read" => provider[p].sent = {}
ManagersRest ==
  \A m \in Managers :
    /\ manager[m].pc # "insert" => manager[m].left = 0
    /\ manager[m].pc = "finished" => control[m] # <<>> /\ control[m][1].shutdown

EInv ==
  /\ inserted \in [Managers -> Nat]
  /\ OnceInRing /\ GivenInRing /\ NothingSentYet /\ ManagersRest
  /\ EdgesConserved

LEMMA ShareInt ==
  ASSUME NEW r \in ProviderRecords
  PROVE  r.left + Collected(r.batch, r.sent) \in Int
<1>1. r.left \in Nat /\ r.batch \in [Managers -> Nat]
  BY DEF ProviderRecords
<1>2. Collected(r.batch, r.sent) \in Int
  BY <1>1, KeptIs
<1> QED
  BY <1>1, <1>2

LEMMA LoadInt ==
  ASSUME NEW r \in Seq(Elements), NEW taken, NEW left \in Nat, NEW done \in Nat
  PROVE  Waiting(r, taken) + left + done \in Int
<1>1. Waiting(r, taken) \in Int
  BY WeightsAre
<1> QED
  BY <1>1

(* Edges move at one provider and one manager at most.                     *)
LEMMA SumsMove ==
  ASSUME IInv, IInv', inserted \in [Managers -> Nat], inserted' \in [Managers -> Nat],
         EdgesConserved, NEW p \in Providers, NEW m \in Managers,
         \A q \in Providers \ {p} : Share(q)' = Share(q),
         \A n \in Managers \ {m} : Load(n)' = Load(n),
         Share(p)' + Load(m)' = Share(p) + Load(m)
  PROVE  EdgesConserved'
<1> DEFINE f == [q \in Providers |-> Share(q)]
           f1 == [q \in Providers |-> Share(q)']
           g == [n \in Managers |-> Load(n)]
           g1 == [n \in Managers |-> Load(n)']
<1>1. \A q \in Providers : Share(q) \in Int /\ Share(q)' \in Int
  <2>1. \A q \in Providers : /\ provider[q] \in ProviderRecords
                             /\ provider'[q] \in ProviderRecords
    BY DEF IInv, Shapes
  <2> QED
    BY <2>1, ShareInt DEF Share
<1>2. \A n \in Managers : Load(n) \in Int /\ Load(n)' \in Int
  <2>1. ASSUME NEW n \in Managers
        PROVE  /\ data[n] \in Seq(Elements) /\ data'[n] \in Seq(Elements)
               /\ manager[n].left \in Nat /\ manager'[n].left \in Nat
               /\ inserted[n] \in Nat /\ inserted'[n] \in Nat
    BY DEF IInv, Shapes, RingShapes, ManagerRecords
  <2> QED
    BY <2>1, LoadInt DEF Load
<1>3. /\ f \in [Providers -> Int] /\ f1 \in [Providers -> Int]
      /\ g \in [Managers -> Int] /\ g1 \in [Managers -> Int]
  BY <1>1, <1>2
<1>4. /\ \A q \in Providers \ {p} : f1[q] = f[q]
      /\ \A n \in Managers \ {m} : g1[n] = g[n]
      /\ f1[p] + g1[m] = f[p] + g[m]
  OBVIOUS
<1>5. Total(f1) + Total(g1) = Total(f) + Total(g)
  <2> HIDE DEF f, f1, g, g1
  <2> QED
    BY <1>3, <1>4, TwoSums
<1>6. Total(f) + Total(g) = AllEdges
  BY DEF EdgesConserved, Share, Load
<1> QED
  BY <1>5, <1>6 DEF EdgesConserved, Share, Load

LEMMA SumsStay ==
  ASSUME EdgesConserved, \A q \in Providers : Share(q)' = Share(q),
         \A n \in Managers : Load(n)' = Load(n)
  PROVE  EdgesConserved'
<1>1. /\ [q \in Providers |-> Share(q)'] = [q \in Providers |-> Share(q)]
      /\ [n \in Managers |-> Load(n)'] = [n \in Managers |-> Load(n)]
  OBVIOUS
<1>2. Total([q \in Providers |-> Share(q)]) + Total([n \in Managers |-> Load(n)])
        = AllEdges
  BY DEF EdgesConserved, Share, Load
<1> QED
  BY <1>1, <1>2 DEF EdgesConserved, Share, Load

LEMMA FrameConserves ==
  ASSUME EInv, UNCHANGED <<provider, data, control, manager, inserted>>
  PROVE  EInv'
<1>1. OnceInRing' /\ GivenInRing'
  BY DEF EInv, OnceInRing, GivenInRing, Old, BatchOf
<1>2. NothingSentYet' /\ ManagersRest'
  BY DEF EInv, NothingSentYet, ManagersRest
<1>3. \A m : Taken(m)' = Taken(m)
  BY DEF Taken, Order
<1>4. EdgesConserved'
  <2>1. \A q : Share(q)' = Share(q)
    BY DEF Share
  <2>2. \A n : Load(n)' = Load(n)
    BY <1>3 DEF Load
  <2> QED
    BY <2>1, <2>2, SumsStay DEF EInv
<1> QED
  BY <1>1, <1>2, <1>4 DEF EInv

(* A provider collects edges.                                              *)
LEMMA ProviderConserves ==
  ASSUME IInv, EInv, NEW p \in Providers, NEW r \in ProviderRecords,
         r.sent = provider[p].sent, r.number = provider[p].number,
         r.pc = "read" => r.sent = {},
         r.left + Collected(r.batch, r.sent) = Share(p),
         provider' = [provider EXCEPT ![p] = r],
         UNCHANGED <<data, control, manager, inserted>>
  PROVE  EInv'
<1>1. /\ provider'[p] = r /\ \A q \in Providers \ {p} : provider'[q] = provider[q]
      /\ \A q \in Providers : /\ provider'[q].sent = provider[q].sent
                              /\ provider'[q].number = provider[q].number
  BY DEF IInv, Shapes
<1>2. \A b : Old(b)' <=> Old(b)
  BY <1>1 DEF Old, BatchIds
<1>3. \A q \in Providers : BatchOf(q)' = BatchOf(q)
  BY <1>1 DEF BatchOf
<1>4. OnceInRing' /\ GivenInRing'
  BY <1>1, <1>2, <1>3 DEF EInv, OnceInRing, GivenInRing
<1>5. NothingSentYet' /\ ManagersRest'
  BY <1>1 DEF EInv, NothingSentYet, ManagersRest
<1>6. EdgesConserved'
  <2>1. \A q \in Providers : Share(q)' = Share(q)
    BY <1>1 DEF Share
  <2>2. \A n : Load(n)' = Load(n)
    BY DEF Load, Taken, Order
  <2> QED
    BY <2>1, <2>2, SumsStay DEF EInv
<1> QED
  BY <1>4, <1>5, <1>6 DEF EInv

LEMMA ReadEdgeConserves ==
  ASSUME IInv, EInv, NEW p \in Providers, ReadEdge(p)
  PROVE  EInv'
<1>1. PICK m \in Managers, pc \in {"send", "read"} :
        provider' = [provider EXCEPT ![p].left = @ - 1,
          ![p].batch = [provider[p].batch EXCEPT ![m] = @ + 1], ![p].pc = pc]
  BY DEF ReadEdge
<1>2. PICK o \in ProviderRecords : o = provider[p]
  BY DEF IInv, Shapes
<1>3. /\ o.left > 0 /\ o.left \in Nat /\ o.sent = {}
      /\ o.batch \in [Managers -> Nat]
  BY <1>2 DEF ReadEdge, EInv, NothingSentYet, ProviderRecords
<1>4. PICK n \in Nat : n = o.left - 1 /\ o.left = n + 1
  BY <1>3
<1>5. PICK b \in [Managers -> Nat] : /\ b = [o.batch EXCEPT ![m] = @ + 1]
                                    /\ Collected(b, {}) = Collected(o.batch, {}) + 1
  BY <1>3, CollectedMore
<1>6. PICK r : r = [o EXCEPT !.left = n, !.batch = b, !.pc = pc]
  OBVIOUS
<1>7. /\ r \in ProviderRecords /\ r.sent = {} /\ r.number = o.number
      /\ r.left = n /\ r.batch = b
  BY <1>3, <1>6 DEF ProviderRecords
<1>8. provider' = [provider EXCEPT ![p] = r]
  BY <1>1, <1>2, <1>4, <1>5, <1>6 DEF IInv, Shapes
<1>9. r.left + Collected(r.batch, r.sent) = Share(p)
  <2>1. PICK c \in Int : c = Collected(o.batch, {})
    BY <1>3, KeptIs
  <2>2. Share(p) = o.left + c
    BY <1>2, <1>3, <2>1 DEF Share
  <2>3. r.left + Collected(r.batch, r.sent) = n + (c + 1)
    BY <1>5, <1>7, <2>1
  <2> QED
    BY <1>4, <2>2, <2>3
<1>10. UNCHANGED <<data, control, manager, inserted>>
  BY DEF ReadEdge, rings
<1> QED
  BY <1>2, <1>3, <1>7, <1>8, <1>9, <1>10, ProviderConserves

LEMMA InsertionFinishedConserves ==
  ASSUME IInv, EInv, NEW p \in Providers, InsertionFinished(p)
  PROVE  EInv'
<1>1. PICK o \in ProviderRecords : o = provider[p]
  BY DEF IInv, Shapes
<1>2. PICK r : r = [o EXCEPT !.pc = "send", !.final = TRUE]
  OBVIOUS
<1>3. /\ r \in ProviderRecords /\ r.pc = "send" /\ r.sent = o.sent
      /\ r.number = o.number /\ r.left = o.left /\ r.batch = o.batch
  BY <1>2 DEF ProviderRecords
<1>4. provider' = [provider EXCEPT ![p] = r]
  BY <1>1, <1>2 DEF IInv, Shapes, InsertionFinished
<1>5. UNCHANGED <<data, control, manager, inserted>>
  BY DEF InsertionFinished, rings
<1>6. r.left + Collected(r.batch, r.sent) = Share(p)
  BY <1>1, <1>3 DEF Share
<1> QED
  BY <1>1, <1>3, <1>4, <1>5, <1>6, ProviderConserves

(* Edges go from a provider to a data ring.                                *)
LEMMA PutDataConserves ==
  ASSUME IInv, IInv', EInv, NEW p \in Providers, PutData(p)
  PROVE  EInv'
<1>1. PICK m \in Managers : PutDataOf(p, m)
  BY DEF PutData
<1>2. PICK o \in ProviderRecords : o = provider[p]
  BY DEF IInv, Shapes
<1>3. PICK r \in Seq(Elements) : r = data[m]
  BY DEF IInv, Shapes, RingShapes
<1>4. PICK b \in BatchIds : b = BatchOf(p)
  BY <1>2 DEF BatchOf, BatchIds, ProviderRecords
<1>5. PICK x : x = [batch |-> b, edges |-> o.batch[m], done |-> FALSE]
  OBVIOUS
<1>6. /\ data' = [data EXCEPT ![m] = Append(r, x)]
      /\ provider' = [provider EXCEPT ![p].sent = o.sent \union {m}]
      /\ UNCHANGED <<control, manager, inserted>>
      /\ o.pc = "send" /\ m \notin o.sent
  BY <1>1, <1>2, <1>3, <1>4, <1>5 DEF PutDataOf, Unsent, IInv, Shapes, RingShapes
<1>7. o.batch \in [Managers -> Nat] /\ o.batch[m] \in Nat /\ o.sent \in SUBSET Managers
  BY <1>2 DEF ProviderRecords
<1>8. x \in Elements /\ x.batch = b /\ ~x.done /\ x.edges = o.batch[m]
  BY <1>4, <1>5, <1>7 DEF Elements
<1>9. /\ \A q \in Providers : /\ provider'[q].number = provider[q].number
                              /\ provider'[q].pc = provider[q].pc
                              /\ provider[q].sent \subseteq provider'[q].sent
      /\ \A q \in Providers \ {p} : provider'[q] = provider[q]
      /\ provider'[p].sent = o.sent \union {m}
      /\ provider'[p].left = o.left /\ provider'[p].batch = o.batch
  BY <1>2, <1>6 DEF IInv, Shapes, ProviderRecords
<1>10. /\ data'[m] = Append(r, x)
       /\ \A n \in Managers \ {m} : data'[n] = data[n]
  BY <1>6 DEF IInv, Shapes, RingShapes
<1>11. PICK n \in Nat :
         /\ n = Len(data[m]) /\ Len(data'[m]) = n + 1
         /\ \A i \in 1 .. n : data'[m][i] = data[m][i]
         /\ data'[m][n + 1] = x
         /\ \A i \in 1 .. n + 1 : i \in 1 .. n \/ i = n + 1
  BY <1>3, <1>8, <1>10, Appended
<1>12. /\ \A c : Old(c)' <=> Old(c)
       /\ \A q \in Providers : BatchOf(q)' = BatchOf(q)
  BY <1>9 DEF Old, BatchOf, BatchIds
<1>13. ~Old(b)
  BY <1>2, <1>4 DEF Old, BatchOf, ProviderRecords
<1>14. \A i \in 1 .. n : data[m][i].batch # b
  <2> SUFFICES ASSUME NEW i \in 1 .. n, data[m][i].batch = b PROVE FALSE
      OBVIOUS
  <2>1. PICK q \in Providers : b = BatchOf(q) /\ m \in provider[q].sent
    BY <1>11, <1>13 DEF EInv, GivenInRing
  <2>2. q = p
    BY <1>4, <2>1 DEF BatchOf
  <2> QED
    BY <1>2, <1>6, <2>1, <2>2
<1>15. OnceInRing'
  <2>1. \A i \in 1 .. n, j \in 1 .. n : data[m][i].batch = data[m][j].batch => i = j
    BY <1>11 DEF EInv, OnceInRing
  <2>2. ASSUME NEW i \in 1 .. n + 1, NEW j \in 1 .. n + 1,
               data'[m][i].batch = data'[m][j].batch
        PROVE  i = j
    <3>1. \A k \in 1 .. n : data'[m][k].batch # data'[m][n + 1].batch
      BY <1>8, <1>11, <1>14
    <3>2. CASE i \in 1 .. n /\ j \in 1 .. n
      BY <1>11, <2>1, <2>2, <3>2
    <3>3. CASE i = n + 1 \/ j = n + 1
      BY <1>11, <2>2, <3>1, <3>3
    <3> QED
      BY <1>11, <3>2, <3>3
  <2>3. \A k \in Managers \ {m} : \A i \in 1 .. Len(data'[k]), j \in 1 .. Len(data'[k]) :
          data'[k][i].batch = data'[k][j].batch => i = j
    BY <1>10 DEF EInv, OnceInRing
  <2> QED
    BY <1>11, <2>2, <2>3 DEF OnceInRing
<1>16. GivenInRing'
  <2> SUFFICES ASSUME NEW k \in Managers, NEW i \in 1 .. Len(data'[k])
               PROVE  \/ Old(data[k][i].batch)'
                      \/ \E q \in Providers : /\ data'[k][i].batch = BatchOf(q)'
                                              /\ k \in provider'[q].sent
      BY DEF GivenInRing
  <2>1. CASE k # m \/ i \in 1 .. n
    <3>1. i \in 1 .. Len(data[k]) /\ data'[k][i] = data[k][i]
      BY <1>10, <1>11, <2>1
    <3> QED
      BY SMTT(30), <1>9, <1>12, <3>1 DEF EInv, GivenInRing
  <2>2. CASE k = m /\ i = n + 1
    <3>1. data'[k][i].batch = BatchOf(p)' /\ k \in provider'[p].sent
      BY <1>4, <1>8, <1>9, <1>11, <1>12, <2>2
    <3> QED
      BY <3>1
  <2> QED
    BY <1>11, <2>1, <2>2
<1>17. NothingSentYet' /\ ManagersRest'
  BY <1>2, <1>6, <1>9 DEF EInv, NothingSentYet, ManagersRest
<1>18. \A k : Taken(k)' = Taken(k)
  BY <1>6 DEF Taken, Order
<1>19. b \notin Taken(m)
  <2>1. Taken(m) # {} => /\ 1 \in Batches(m) /\ Taken(m) = {control[m][1].batch}
    <3>1. ASSUME Taken(m) # {}
          PROVE  /\ 1 \in Batches(m) /\ Taken(m) = {control[m][1].batch}
      <4>1. /\ manager[m].pc # "get" /\ ~Order(m).shutdown
            /\ Taken(m) = {Order(m).batch}
        BY <3>1 DEF Taken
      <4>2. control[m] # <<>>
        BY <4>1 DEF IInv, ManagersWork, EInv, ManagersRest
      <4>3. Order(m) = control[m][1] /\ 1 \in 1 .. Len(control[m])
        BY <4>2, Tailed DEF IInv, Shapes, RingShapes, Order
      <4> QED
        BY <4>1, <4>3 DEF Batches
    <3> QED
      BY <3>1
  <2>2. 1 \in Batches(m) => Old(control[m][1].batch)
    BY DEF IInv, OrderedOnce
  <2> QED
    BY <1>13, <2>1, <2>2
<1>20. EdgesConserved'
  <2>1. \A q \in Providers \ {p} : Share(q)' = Share(q)
    BY <1>9 DEF Share
  <2>2. \A k \in Managers \ {m} : Load(k)' = Load(k)
    BY <1>6, <1>10, <1>18 DEF Load
  <2>3. PICK c \in Int, d \in Int :
          c = Collected(o.batch, o.sent) /\ d = Collected(o.batch, o.sent \union {m})
    BY <1>7, KeptIs
  <2>4. d + x.edges = c
    BY <1>6, <1>7, <1>8, <2>3, CollectedSent
  <2>5. PICK w \in Int : w = Waiting(r, Taken(m))
    BY WeightsAre
  <2>6. Waiting(Append(r, x), Taken(m)) = w + x.edges
    BY <1>8, <1>19, <2>5, WaitingMore
  <2>7. PICK left \in Nat, lot \in Nat, put \in Nat :
          left = o.left /\ lot = manager[m].left /\ put = inserted[m]
    BY DEF IInv, EInv, Shapes, ProviderRecords, ManagerRecords
  <2>8. Share(p) = left + c /\ Share(p)' = left + d
    BY <1>2, <1>9, <2>3, <2>7 DEF Share
  <2>9. Load(m) = w + lot + put /\ Load(m)' = w + x.edges + lot + put
    BY <1>3, <1>6, <1>10, <1>18, <2>5, <2>6, <2>7 DEF Load
  <2>10. Share(p)' + Load(m)' = Share(p) + Load(m)
    <3>1. PICK e \in Nat : e = x.edges
      BY <1>7, <1>8
    <3>2. d + e = c
      BY <2>4, <3>1
    <3>3. (left + d) + (w + e + lot + put) = (left + c) + (w + lot + put)
      BY <3>2
    <3> QED
      BY <2>8, <2>9, <3>1, <3>3
  <2> QED
    BY <1>6, <2>1, <2>2, <2>10, SumsMove DEF EInv
<1> QED
  BY <1>6, <1>15, <1>16, <1>17, <1>20 DEF EInv

(* All of an announced batch is in the data rings.                         *)
LEMMA AnnounceConserves ==
  ASSUME IInv, EInv, NEW p \in Providers, Announce(p)
  PROVE  EInv'
<1>1. PICK pc \in {"finished", "read"} :
        provider' = [provider EXCEPT ![p].pc = pc, ![p].batch = Zero,
                       ![p].sent = {}, ![p].number = @ + 1]
  BY DEF Announce, AnnounceIf
<1>2. /\ Unsent(p) = {}
      /\ UNCHANGED <<data, control, manager, inserted>>
  BY DEF Announce, AnnounceIf, rings
<1>3. PICK o \in ProviderRecords : o = provider[p]
  BY DEF IInv, Shapes
<1>4. /\ o.number \in Nat /\ o.left \in Nat /\ o.batch \in [Managers -> Nat]
      /\ Zero \in [Managers -> Nat]
  BY DEF ProviderRecords, Zero
<1>5. /\ \A q \in Providers \ {p} : provider'[q] = provider[q]
      /\ provider'[p].sent = {} /\ provider'[p].batch = Zero
      /\ provider'[p].left = o.left /\ provider'[p].number = o.number + 1
  BY <1>1, <1>3 DEF IInv, Shapes, ProviderRecords
<1>6. \A b : Old(b) => Old(b)'
  BY <1>3, <1>4, <1>5 DEF Old, BatchIds, IInv, Shapes, ProviderRecords
<1>8. OnceInRing'
  BY <1>2 DEF EInv, OnceInRing
<1>9. GivenInRing'
  <2> SUFFICES ASSUME NEW k \in Managers, NEW i \in 1 .. Len(data[k])
               PROVE  \/ Old(data[k][i].batch)'
                      \/ \E q \in Providers : /\ data[k][i].batch = BatchOf(q)'
                                              /\ k \in provider'[q].sent
      BY <1>2 DEF GivenInRing
  <2>1. CASE Old(data[k][i].batch)
    BY <1>2, <1>6, <2>1
  <2>2. ASSUME NEW q \in Providers, data[k][i].batch = BatchOf(q),
               k \in provider[q].sent
        PROVE  \/ Old(data[k][i].batch)'
               \/ data[k][i].batch = BatchOf(q)' /\ k \in provider'[q].sent
    <3>1. CASE q = p
      BY <1>2, <1>3, <1>4, <1>5, <2>2, <3>1 DEF Old, BatchIds, BatchOf
    <3>2. CASE q # p
      BY <1>5, <2>2, <3>2 DEF BatchOf
    <3> QED
      BY <3>1, <3>2
  <2> QED
    BY <2>1, <2>2 DEF EInv, GivenInRing
<1>10. NothingSentYet' /\ ManagersRest'
  BY <1>2, <1>5 DEF EInv, NothingSentYet, ManagersRest
<1>11. EdgesConserved'
  <2>1. Collected(o.batch, o.sent) = 0
    <3>1. \A m \in Managers : m \in o.sent \/ o.batch[m] = 0
      BY <1>2, <1>3, <1>4 DEF Unsent
    <3> QED
      BY <1>4, <3>1, CollectedNone
  <2>2. Collected(Zero, {}) = 0
    <3>1. \A m \in Managers : m \in {} \/ Zero[m] = 0
      BY DEF Zero
    <3> QED
      BY <1>4, <3>1, CollectedNone
  <2>3. Share(p)' = Share(p)
    BY <1>3, <1>5, <2>1, <2>2 DEF Share
  <2>4. \A q \in Providers : Share(q)' = Share(q)
    BY <1>5, <2>3 DEF Share
  <2>5. \A n : Load(n)' = Load(n)
    BY <1>2 DEF Load, Taken, Order
  <2> QED
    BY <2>4, <2>5, SumsStay DEF EInv
<1> QED
  BY <1>2, <1>8, <1>9, <1>10, <1>11 DEF EInv

(* An order at the end of its ring is not the one a manager works on.      *)
LEMMA OrderConserves ==
  ASSUME IInv, EInv, NEW m \in Managers, NEW x \in Orders,
         control' = [control EXCEPT ![m] = Append(@, x)],
         UNCHANGED <<provider, data, manager, inserted>>
  PROVE  EInv'
<1>1. control[m] \in Seq(Orders)
  BY DEF IInv, Shapes, RingShapes
<1>2. /\ control'[m] = Append(control[m], x)
      /\ \A n \in Managers \ {m} : control'[n] = control[n]
  BY DEF IInv, Shapes, RingShapes
<1>3. control[m] # <<>> => /\ control'[m] # <<>> /\ control'[m][1] = control[m][1]
                           /\ Head(control'[m]) = Head(control[m])
  BY <1>1, <1>2
<1>4. \A n \in Managers : manager[n].pc # "get" => control[n] # <<>>
  BY DEF IInv, ManagersWork, EInv, ManagersRest
<1>5. \A n \in Managers : Taken(n)' = Taken(n)
  BY <1>2, <1>3, <1>4 DEF Taken, Order
<1>6. OnceInRing' /\ GivenInRing'
  BY DEF EInv, OnceInRing, GivenInRing, Old, BatchOf
<1>7. NothingSentYet' /\ ManagersRest'
  BY <1>2, <1>3 DEF EInv, NothingSentYet, ManagersRest
<1>8. EdgesConserved'
  <2>1. \A q : Share(q)' = Share(q)
    BY DEF Share
  <2>2. \A n \in Managers : Load(n)' = Load(n)
    BY <1>5 DEF Load
  <2> QED
    BY <2>1, <2>2, SumsStay DEF EInv
<1> QED
  BY <1>6, <1>7, <1>8 DEF EInv

(* A manager at work turns edges of its batch into inserted ones.          *)
LEMMA ManagerConserves ==
  ASSUME IInv, IInv', EInv, NEW m \in Managers, NEW r \in ManagerRecords,
         manager' = [manager EXCEPT ![m] = r], manager[m].pc # "get",
         r.pc \notin {"get", "finished"}, r.pc # "insert" => r.left = 0,
         inserted' \in [Managers -> Nat],
         \A n \in Managers \ {m} : inserted'[n] = inserted[n],
         r.left + inserted'[m] = manager[m].left + inserted[m],
         UNCHANGED <<provider, data, control>>
  PROVE  EInv'
<1>1. manager'[m] = r /\ \A n \in Managers \ {m} : manager'[n] = manager[n]
  BY DEF IInv, Shapes
<1>2. \A n \in Managers : Taken(n)' = Taken(n)
  BY <1>1 DEF Taken, Order
<1>3. OnceInRing' /\ GivenInRing'
  BY DEF EInv, OnceInRing, GivenInRing, Old, BatchOf
<1>4. NothingSentYet' /\ ManagersRest'
  BY <1>1 DEF EInv, NothingSentYet, ManagersRest
<1>5. EdgesConserved'
  <2>1. \A q : Share(q)' = Share(q)
    BY DEF Share
  <2>2. \A n \in Managers \ {m} : Load(n)' = Load(n)
    BY <1>1, <1>2 DEF Load
  <2>3. Load(m)' = Load(m)
    <3>1. PICK w \in Int : w = Waiting(data[m], Taken(m))
      BY WeightsAre DEF IInv, Shapes, RingShapes
    <3>0. /\ manager[m].left \in Nat /\ inserted[m] \in Nat
          /\ r.left \in Nat /\ inserted'[m] \in Nat
      BY DEF IInv, Shapes, EInv, ManagerRecords
    <3>2. PICK a \in Nat, b \in Nat, c \in Nat, d \in Nat :
            /\ a = manager[m].left /\ b = inserted[m]
            /\ c = r.left /\ d = inserted'[m] /\ c + d = a + b
      BY <3>0
    <3>3. Load(m) = w + a + b /\ Load(m)' = w + c + d
      BY <1>1, <1>2, <3>1, <3>2 DEF Load
    <3> QED
      BY <3>1, <3>2, <3>3
  <2> QED
    BY <2>1, <2>2, <2>3, SumsStay DEF EInv
<1> QED
  BY <1>3, <1>4, <1>5 DEF EInv

(* The steps that only change the place of a manager at work.              *)
LEMMA ManagerPlaceConserves ==
  ASSUME IInv, IInv', EInv, NEW m \in Managers, NEW pc \in {"report", "notify", "release"},
         NEW reexecute \in BOOLEAN,
         manager' = [manager EXCEPT ![m].pc = pc, ![m].reexecute = reexecute],
         manager[m].pc # "get", manager[m].left = 0,
         UNCHANGED <<provider, data, control, inserted>>
  PROVE  EInv'
<1>1. PICK r \in ManagerRecords : r = [manager[m] EXCEPT !.pc = pc, !.reexecute = reexecute]
  BY DEF IInv, Shapes, ManagerRecords
<1>2. /\ manager' = [manager EXCEPT ![m] = r] /\ r.pc = pc /\ r.left = manager[m].left
      /\ inserted \in [Managers -> Nat]
  BY <1>1 DEF IInv, EInv, Shapes, ManagerRecords
<1> QED
  BY <1>2, ManagerConserves

LEMMA ManagerStepConserves ==
  ASSUME IInv, IInv', EInv, NEW m \in Managers,
         Insert(m) \/ Delete(m) \/ Reply(m) \/ CountDown(m) \/ Notify(m)
  PROVE  EInv'
<1>1. manager \in [Managers -> ManagerRecords] /\ manager[m] \in ManagerRecords
  BY DEF IInv, Shapes
<1>2. CASE Insert(m)
  <2>1. /\ manager' = [manager EXCEPT ![m].left = @ - 1]
        /\ inserted' = [inserted EXCEPT ![m] = @ + 1]
        /\ manager[m].pc = "insert" /\ manager[m].left > 0
        /\ UNCHANGED <<provider, data, control>>
    BY <1>2 DEF Insert, InsertInto, ingest, rings
  <2>2. PICK n \in Nat : n = manager[m].left - 1 /\ manager[m].left = n + 1
    BY <1>1, <2>1 DEF ManagerRecords
  <2>3. PICK r \in ManagerRecords : r = [manager[m] EXCEPT !.left = n]
    BY <1>1 DEF ManagerRecords
  <2>4. manager' = [manager EXCEPT ![m] = r] /\ r.pc = "insert" /\ r.left = n
    BY <1>1, <2>1, <2>2, <2>3 DEF ManagerRecords
  <2>5. /\ inserted' \in [Managers -> Nat] /\ inserted[m] \in Nat
        /\ inserted'[m] = inserted[m] + 1
        /\ \A k \in Managers \ {m} : inserted'[k] = inserted[k]
    BY <2>1 DEF EInv
  <2>6. r.left + inserted'[m] = manager[m].left + inserted[m]
    <3>1. PICK k \in Nat : k = inserted[m]
      BY <2>5
    <3>2. n + (k + 1) = (n + 1) + k
      OBVIOUS
    <3> QED
      BY <2>2, <2>4, <2>5, <3>1, <3>2
  <2> QED
    BY <2>1, <2>4, <2>5, <2>6, ManagerConserves
<1>3. CASE Delete(m)
  <2>1. PICK reexecute \in BOOLEAN :
          manager' = [manager EXCEPT ![m].pc = "report", ![m].reexecute = reexecute]
    BY <1>3, ConstantsAssumption DEF Delete
  <2>2. /\ manager[m].pc # "get" /\ manager[m].left = 0
        /\ UNCHANGED <<provider, data, control, inserted>>
    BY <1>3 DEF Delete, ingest, rings
  <2> QED
    BY <2>1, <2>2, ManagerPlaceConserves
<1>4. ASSUME NEW pc \in {"notify", "release"}, Place(m, pc),
             manager[m].pc \in {"report", "notify"},
             UNCHANGED <<provider, data, control, inserted>>
      PROVE  EInv'
  <2>1. PICK reexecute \in BOOLEAN : reexecute = manager[m].reexecute
    BY <1>1 DEF ManagerRecords
  <2>2. manager' = [manager EXCEPT ![m].pc = pc, ![m].reexecute = reexecute]
    BY <1>1, <1>4, <2>1 DEF Place, ManagerRecords
  <2>3. manager[m].left = 0
    BY <1>4 DEF EInv, ManagersRest
  <2> QED
    BY <1>4, <2>2, <2>3, ManagerPlaceConserves
<1>5. CASE Reply(m)
  BY <1>4, <1>5 DEF Reply, ingest
<1>6. CASE CountDown(m)
  <2>1. PICK pc \in {"notify", "release"} : Place(m, pc)
    BY <1>6 DEF CountDown
  <2> QED
    BY <1>4, <1>6, <2>1 DEF CountDown, ingest
<1>7. CASE Notify(m)
  BY <1>4, <1>7 DEF Notify, ingest
<1> QED
  BY <1>2, <1>3, <1>5, <1>6, <1>7

(* A manager takes up the only element of its order.                       *)
LEMMA GetOrderConserves ==
  ASSUME IInv, IInv', EInv, NEW m \in Managers, GetOrder(m)
  PROVE  EInv'
<1>1. /\ control[m] # <<>> /\ manager[m].pc = "get" /\ manager[m].left = 0
      /\ UNCHANGED <<provider, data, control, inserted>>
  BY DEF GetOrder, rings, ingest, EInv, ManagersRest
<1>2. /\ manager \in [Managers -> ManagerRecords]
      /\ Order(m) = control[m][1] /\ 1 \in 1 .. Len(control[m])
  BY <1>1, FirstOrder DEF IInv, Shapes
<1>3. PICK ring \in Seq(Elements) : ring = data[m]
  BY DEF IInv, Shapes, RingShapes
<1>4. OnceInRing' /\ GivenInRing'
  BY <1>1 DEF EInv, OnceInRing, GivenInRing, Old, BatchOf
<1>5. NothingSentYet'
  BY <1>1 DEF EInv, NothingSentYet
<1>6. \A q : Share(q)' = Share(q)
  BY <1>1 DEF Share
<1>7. Taken(m) = {}
  BY <1>1 DEF Taken
<1>8. CASE Order(m).shutdown /\ Place(m, "finished")
  <2>1. /\ manager'[m].pc = "finished" /\ manager'[m].left = 0
        /\ \A n \in Managers \ {m} : manager'[n] = manager[n]
    BY <1>1, <1>2, <1>8 DEF Place, ManagerRecords
  <2>2. ManagersRest'
    BY <1>1, <1>2, <1>8, <2>1 DEF EInv, ManagersRest
  <2>3. \A n \in Managers : Taken(n)' = Taken(n)
    BY <1>1, <1>7, <1>8, <2>1 DEF Taken, Order
  <2>4. \A n \in Managers : Load(n)' = Load(n)
    BY <1>1, <2>1, <2>3 DEF Load
  <2> QED
    BY <1>1, <1>4, <1>5, <1>6, <2>2, <2>4, SumsStay DEF EInv
<1>9. CASE ~Order(m).shutdown
  <2>1. PICK i \in DOMAIN data[m] :
          /\ data[m][i].batch = Order(m).batch
          /\ manager' = [manager EXCEPT ![m] =
                [pc |-> "insert", left |-> data[m][i].edges, reexecute |-> FALSE]]
    BY <1>9 DEF GetOrder
  <2>2. PICK b : b = Order(m).batch
    OBVIOUS
  <2>3. i \in 1 .. Len(ring) /\ ring[i].batch = b /\ ring[i] \in Elements
    BY <1>3, <2>1, <2>2
  <2>4. \A j \in 1 .. Len(ring) : ring[j].batch = ring[i].batch => j = i
    BY <1>3, <2>3 DEF EInv, OnceInRing
  <2>5. ~ring[i].done
    <3>1. 1 \in Batches(m)
      BY <1>2, <1>9 DEF Batches
    <3>2. PICK j \in 1 .. Len(ring) : ring[j].batch = b /\ ~ring[j].done
      BY <1>2, <1>3, <2>2, <3>1 DEF IInv, ManagersHold, Delivered
    <3> QED
      BY <2>3, <2>4, <3>2
  <2>6. /\ manager'[m].pc = "insert" /\ manager'[m].left = ring[i].edges
        /\ \A n \in Managers \ {m} : manager'[n] = manager[n]
    BY <1>2, <1>3, <2>1
  <2>7. ManagersRest'
    BY <1>1, <2>6 DEF EInv, ManagersRest
  <2>8. /\ Taken(m)' = {b}
        /\ \A n \in Managers \ {m} : Taken(n)' = Taken(n)
    BY <1>1, <1>9, <2>2, <2>6 DEF Taken, Order
  <2>9. \A n \in Managers \ {m} : Load(n)' = Load(n)
    BY <1>1, <2>6, <2>8 DEF Load
  <2>10. Load(m)' = Load(m)
    <3>1. PICK w \in Int, v \in Int : w = Waiting(ring, {}) /\ v = Waiting(ring, {b})
      BY WeightsAre
    <3>2. PICK e \in Nat, k \in Nat : e = ring[i].edges /\ k = inserted[m]
      BY <2>3 DEF Elements, EInv
    <3>3. v + e = w
      BY <2>3, <2>4, <2>5, <3>1, <3>2, WaitingLess
    <3>4. Load(m) = w + 0 + k /\ Load(m)' = v + e + k
      BY <1>1, <1>3, <1>7, <2>6, <2>8, <3>1, <3>2 DEF Load
    <3> QED
      BY <3>3, <3>4
  <2> QED
    BY <1>1, <1>4, <1>5, <1>6, <2>7, <2>9, <2>10, SumsStay DEF EInv
<1> QED
  BY <1>8, <1>9 DEF GetOrder

(* The elements a manager gives back are those whose edges it has inserted. *)
LEMMA ReleaseBatchConserves ==
  ASSUME IInv, IInv', EInv, NEW m \in Managers, ReleaseBatch(m)
  PROVE  EInv'
<1>1. /\ control' = [control EXCEPT ![m] = Tail(control[m])]
      /\ Place(m, "get") /\ manager[m].pc = "release"
      /\ UNCHANGED <<provider, inserted>>
  BY DEF ReleaseBatch, ingest, IInv, Shapes, RingShapes
<1>2. /\ control[m] # <<>> /\ 1 \in Batches(m) /\ Order(m) = control[m][1]
  BY <1>1, FirstOrder DEF IInv, ManagersWork
<1>3. PICK ring \in Seq(Elements), b \in BatchIds \union {NoBatch} :
        ring = data[m] /\ b = Order(m).batch
  <2>1. Order(m) \in Orders /\ data[m] \in Seq(Elements)
    BY <1>2 DEF Batches, IInv, Shapes, RingShapes
  <2> QED
    BY <2>1 DEF Orders
<1>4. PICK s \in Seq(Elements) : s = SetDone(ring, b)
  BY SetDoneIs
<1>5. data' = [data EXCEPT ![m] = s]
  BY <1>3, <1>4 DEF ReleaseBatch, IInv, Shapes, RingShapes
<1>6. /\ data'[m] = s /\ \A n \in Managers \ {m} : data'[n] = data[n]
      /\ \A n \in Managers \ {m} : control'[n] = control[n]
  BY <1>1, <1>5 DEF IInv, Shapes, RingShapes
<1>7. /\ manager'[m].pc = "get" /\ manager'[m].left = manager[m].left
      /\ \A n \in Managers \ {m} : manager'[n] = manager[n]
  BY <1>1 DEF Place, IInv, Shapes, ManagerRecords
<1>8. \E k \in 0 .. Len(ring) :
        \A i \in 1 .. Len(s) : /\ i + k \in 1 .. Len(ring)
                               /\ s[i].batch = ring[i + k].batch
  <2>1. PICK k \in 0 .. Len(ring) :
          /\ Len(s) = Len(ring) - k
          /\ \A i \in 1 .. Len(ring) - k : /\ i + k \in 1 .. Len(ring)
                                            /\ s[i] = Marked(ring[i + k], b)
    <3>1. \E k \in 0 .. Len(ring) :
            /\ Len(SetDone(ring, b)) = Len(ring) - k
            /\ \A i \in 1 .. k : Marked(ring[i], b).done
            /\ \A i \in 1 .. Len(ring) - k :
                 /\ i + k \in 1 .. Len(ring)
                 /\ SetDone(ring, b)[i] = Marked(ring[i + k], b)
      BY SetDoneIs
    <3> QED
      BY <1>4, <3>1
  <2>2. \A j \in 1 .. Len(ring) : Marked(ring[j], b).batch = ring[j].batch
    <3>1. \A j \in 1 .. Len(ring) : ring[j] \in Elements
      OBVIOUS
    <3> QED
      BY <3>1 DEF Marked, Elements
  <2> QED
    BY <2>1, <2>2
<1>9. PICK k \in 0 .. Len(ring) :
        \A i \in 1 .. Len(s) : /\ i + k \in 1 .. Len(ring)
                               /\ s[i].batch = ring[i + k].batch
  BY <1>8
<1>10. OnceInRing'
  <2>1. ASSUME NEW i \in 1 .. Len(s), NEW j \in 1 .. Len(s), s[i].batch = s[j].batch
        PROVE  i = j
    <3>1. i + k \in 1 .. Len(ring) /\ j + k \in 1 .. Len(ring)
          /\ ring[i + k].batch = ring[j + k].batch
      BY <1>9, <2>1
    <3>2. i + k = j + k
      BY <1>3, <3>1 DEF EInv, OnceInRing
    <3>3. i \in Int /\ j \in Int /\ k \in Int
      BY <1>4
    <3> QED
      BY <3>2, <3>3
  <2>2. ASSUME NEW n \in Managers \ {m}, NEW i \in 1 .. Len(data'[n]),
               NEW j \in 1 .. Len(data'[n]), data'[n][i].batch = data'[n][j].batch
        PROVE  i = j
    BY <1>6, <2>2 DEF EInv, OnceInRing
  <2> QED
    BY <1>6, <2>1, <2>2 DEF OnceInRing
<1>11. GivenInRing'
  <2>1. \A c : Old(c)' <=> Old(c)
    BY <1>1 DEF Old
  <2>2. \A q : BatchOf(q)' = BatchOf(q)
    BY <1>1 DEF BatchOf
  <2>3. ASSUME NEW n \in Managers, NEW i \in 1 .. Len(data'[n])
        PROVE  \E j \in 1 .. Len(data[n]) : data'[n][i].batch = data[n][j].batch
    <3>1. CASE n = m
      <4>1. i + k \in 1 .. Len(data[n]) /\ data'[n][i].batch = data[n][i + k].batch
        BY <1>3, <1>6, <1>9, <3>1
      <4> QED
        BY <4>1
    <3>2. CASE n # m
      BY <1>6, <3>2
    <3> QED
      BY <3>1, <3>2
  <2>4. ASSUME NEW n \in Managers, NEW i \in 1 .. Len(data'[n])
        PROVE  \/ Old(data'[n][i].batch)
               \/ \E q \in Providers : /\ data'[n][i].batch = BatchOf(q)
                                       /\ n \in provider[q].sent
    <3>1. PICK j \in 1 .. Len(data[n]) : data'[n][i].batch = data[n][j].batch
      BY <2>3
    <3>2. \/ Old(data[n][j].batch)
          \/ \E q \in Providers : /\ data[n][j].batch = BatchOf(q)
                                  /\ n \in provider[q].sent
      BY DEF EInv, GivenInRing
    <3> QED
      BY <3>1, <3>2
  <2> QED
    BY <1>1, <2>1, <2>2, <2>4 DEF GivenInRing
<1>12. NothingSentYet' /\ ManagersRest'
  <2>1. NothingSentYet'
    BY <1>1 DEF EInv, NothingSentYet
  <2>2. ManagersRest'
    BY <1>1, <1>6, <1>7 DEF EInv, ManagersRest
  <2> QED
    BY <2>1, <2>2
<1>13. EdgesConserved'
  <2>1. \A q : Share(q)' = Share(q)
    BY <1>1 DEF Share
  <2>2. \A n \in Managers \ {m} : Taken(n)' = Taken(n)
    BY <1>6, <1>7 DEF Taken, Order
  <2>3. \A n \in Managers \ {m} : Load(n)' = Load(n)
    BY <1>1, <1>6, <1>7, <2>2 DEF Load
  <2>4. Taken(m) = {b} /\ Taken(m)' = {}
    BY <1>1, <1>2, <1>3, <1>7 DEF Taken, Batches
  <2>5. Load(m)' = Load(m)
    <3>1. Waiting(s, {}) = Waiting(ring, {b})
      BY <1>4, WaitingDone
    <3> QED
      BY <1>1, <1>3, <1>6, <1>7, <2>4, <3>1 DEF Load
  <2> QED
    BY <2>1, <2>3, <2>5, SumsStay DEF EInv
<1> QED
  BY <1>1, <1>10, <1>11, <1>12, <1>13 DEF EInv
(* The other steps.                                                        *)
LEMMA ForwardConserves ==
  ASSUME IInv, EInv, Forward
  PROVE  EInv'
<1>1. PICK m \in Managers, counter \in {Message.batch, NoBatch} :
        control' = [control EXCEPT ![m] = Append(@,
          [batch |-> Message.batch, shutdown |-> FALSE, counter |-> counter])]
  BY DEF Forward, IsLeast
<1>2. /\ UNCHANGED <<provider, data, manager, inserted>> /\ inserter.pc = "forward"
  BY DEF Forward
<1>3. inbox \in Seq(Announcements) /\ inbox # <<>>
  BY <1>2 DEF IInv, Shapes, RingShapes, InserterWorks
<1>4. Message = inbox[1] /\ inbox[1] \in Announcements
  BY <1>3, Tailed DEF Message
<1>5. PICK x : x = [batch |-> Message.batch, shutdown |-> FALSE, counter |-> counter]
  OBVIOUS
<1>6. x \in Orders
  BY <1>1, <1>4, <1>5 DEF Announcements, Orders
<1>7. control' = [control EXCEPT ![m] = Append(@, x)]
  BY <1>1, <1>5
<1> QED
  BY <1>2, <1>6, <1>7, OrderConserves

LEMMA StopManagerConserves ==
  ASSUME IInv, EInv, StopManager
  PROVE  EInv'
<1> DEFINE x == [batch |-> NoBatch, shutdown |-> TRUE, counter |-> NoBatch]
<1>1. PICK m \in Managers : control' = [control EXCEPT ![m] = Append(@, x)]
  BY DEF StopManager
<1>2. UNCHANGED <<provider, data, manager, inserted>>
  BY DEF StopManager, ingest
<1>3. x \in Orders
  BY DEF Orders
<1> HIDE DEF x
<1> QED
  BY <1>1, <1>2, <1>3, OrderConserves

LEMMA InitConserves == Init => EInv
<1> SUFFICES ASSUME Init PROVE EInv
    OBVIOUS
<1>1. /\ Zero \in [Managers -> Nat] /\ EdgesPerProvider \in [Providers -> Nat]
      /\ \A m \in Managers : Zero[m] = 0
      /\ IsFiniteSet(Managers)
  BY ConstantsAssumption DEF Zero
<1>2. OnceInRing /\ GivenInRing /\ NothingSentYet /\ ManagersRest
  BY DEF Init, OnceInRing, GivenInRing, NothingSentYet, ManagersRest
<1>3. \A p \in Providers : Share(p) = EdgesPerProvider[p]
  <2>1. Collected(Zero, {}) = 0
    BY <1>1, CollectedNone
  <2>2. \A p \in Providers : /\ provider[p].left = EdgesPerProvider[p]
                             /\ provider[p].batch = Zero /\ provider[p].sent = {}
    BY DEF Init
  <2> SUFFICES ASSUME NEW p \in Providers PROVE Share(p) = EdgesPerProvider[p]
      OBVIOUS
  <2>3. PICK n \in Nat : n = EdgesPerProvider[p]
    BY <1>1
  <2>4. provider[p].left = n /\ Collected(provider[p].batch, provider[p].sent) = 0
    BY <2>1, <2>2, <2>3
  <2> QED
    BY <2>3, <2>4 DEF Share
<1>4. \A m \in Managers : Load(m) = 0
  <2>1. \A m : Waiting(<<>>, Taken(m)) = 0
    <3>1. <<>> \in Seq(Elements) /\ Len(<<>>) = 0
      OBVIOUS
    <3> SUFFICES ASSUME NEW m PROVE Waiting(<<>>, Taken(m)) = 0
        OBVIOUS
    <3>2. /\ Weights(<<>>, Taken(m)) \in [1 .. 0 -> Int]
          /\ Waiting(<<>>, Taken(m)) = SumFunction(Weights(<<>>, Taken(m)))
      BY <3>1, WeightsAre
    <3>3. IsFiniteSet(1 .. 0) /\ \A i \in 1 .. 0 : Weights(<<>>, Taken(m))[i] = 0
      BY UpTo
    <3> QED
      BY <3>2, <3>3, SumZero
  <2>2. \A m \in Managers : data[m] = <<>> /\ manager[m].left = 0 /\ inserted[m] = 0
    BY <1>1 DEF Init
  <2> QED
    BY <2>1, <2>2 DEF Load
<1>5. EdgesConserved
  <2>1. [p \in Providers |-> Share(p)] = EdgesPerProvider
    BY <1>1, <1>3
  <2>2. PICK g : g = [m \in Managers |-> Load(m)]
    OBVIOUS
  <2>3. g \in [Managers -> Int] /\ \A m \in Managers : g[m] = 0
    BY <1>4, <2>2
  <2>4. Total(g) = 0
    BY <1>1, <2>3, SumZero DEF Total
  <2>5. AllEdges \in Int
    <3>1. IsFiniteSet(Providers) /\ EdgesPerProvider \in [Providers -> Int]
      BY <1>1, ConstantsAssumption
    <3> QED
      BY <3>1, SumInt DEF AllEdges, Total
  <2>6. Total([p \in Providers |-> Share(p)]) + Total([m \in Managers |-> Load(m)])
          = AllEdges
    BY <2>1, <2>2, <2>4, <2>5 DEF AllEdges
  <2> QED
    BY <2>6 DEF EdgesConserved, Share, Load
<1> QED
  BY <1>1, <1>2, <1>5 DEF EInv, Init

LEMMA NextConserves == IInv /\ IInv' /\ EInv /\ [Next]_vars => EInv'
<1> SUFFICES ASSUME IInv, IInv', EInv, [Next]_vars PROVE EInv'
    OBVIOUS
<1>1. ASSUME NEW p \in Providers, ProviderNext(p) PROVE EInv'
  BY <1>1, ReadEdgeConserves, InsertionFinishedConserves, PutDataConserves,
     AnnounceConserves DEF ProviderNext
<1>2. CASE InserterNext
  <2>1. CASE Forward
    BY <2>1, ForwardConserves
  <2>2. CASE Receive \/ PutCounter \/ Forwarded \/ ReceiveReply \/ Decide
    BY <2>2, FrameConserves
       DEF Receive, PutCounter, Forwarded, ReceiveReply, Decide, rings
  <2>3. CASE Executed \/ Release \/ NotifyWriter \/ ResultsWritten \/ StopWriter
    BY <2>3, FrameConserves
       DEF Executed, Release, NotifyWriter, ResultsWritten, StopWriter, Meet, rings
  <2> QED
    BY <1>2, <2>1, <2>2, <2>3 DEF InserterNext
<1>3. ASSUME NEW m \in Managers, ManagerNext(m) PROVE EInv'
  BY <1>3, GetOrderConserves, ManagerStepConserves, ReleaseBatchConserves
     DEF ManagerNext
<1>4. CASE StopManager
  BY <1>4, StopManagerConserves
<1>5. CASE WriteFile
  BY <1>5, FrameConserves DEF WriteFile, rings
<1>6. CASE ExecutorNext
  BY <1>6, FrameConserves DEF ExecutorNext, TakeNotice, ExecutorDone, ingest, rings
<1>7. CASE JoinInserter \/ JoinManagers \/ StopExecutor \/ Destroy
  BY <1>7, FrameConserves
     DEF JoinInserter, JoinManagers, StopExecutor, Destroy, ingest, rings
<1>8. CASE UNCHANGED vars
  BY <1>8, FrameConserves DEF vars, ingest, rings
<1> QED
  BY <1>1, <1>2, <1>3, <1>4, <1>5, <1>6, <1>7, <1>8 DEF Next, MainNext
-------------------------------------------------------------------------------
(* What makes WholeBatches inductive.  An order counts as unanswered until *)
(* its manager has replied.  In the eager mode a manager has one such order *)
(* at most, of the batch the EdgeInserter is at, or the EdgeInserter has    *)
(* yet to send it; it awaits as many replies as there are such managers and *)
(* replies in the ring.                                                     *)
Unanswered(m) == {k \in Batches(m) : k # 1 \/ manager[m].pc # "release"}
Owing == {m \in Managers : m \in inserter.todo \/ Unanswered(m) # {}}

\* Edges of the batch that manager m has yet to insert.
Untaken(m) ==
  m \in inserter.todo \/ \E k \in Unanswered(m) : k # 1 \/ manager[m].pc = "get"
Owed(m) == IF Untaken(m) THEN Message.edges[m] ELSE manager[m].left
Announced ==
  inserter.edges + IF inserter.pc \in {"forward", "wait"} THEN Total(Message.edges) ELSE 0

OneOrder ==
  \A m \in Managers : \A k \in Unanswered(m) :
    /\ m \notin inserter.todo /\ \A j \in Unanswered(m) : j = k
    /\ control[m][k].batch = Message.batch
AllReply == inserter.awaited = Cardinality(Owing) + Len(replies)
Wishes ==
  \/ inserter.reexecute
  \/ \E k \in 1 .. Len(replies) : replies[k]
  \/ \E m \in Managers : manager[m].pc = "report" /\ manager[m].reexecute
Places ==
  /\ inserter.pc # "count" /\ \A m \in Managers : manager[m].pc # "notify"
  /\ inserter.pc \notin {"forward", "wait"} => inserter.awaited = 0
Sums == Announced = Total([m \in Managers |-> inserted[m] + Owed(m)])
EagerInv == Places /\ OneOrder /\ AllReply /\ (asked <=> Wishes) /\ Sums

\* An element of a data ring has as many edges as the announcement says.
AsAnnounced ==
  \A m \in Managers : \A i \in 1 .. Len(data[m]) :
    /\ \A k \in 1 .. Len(inbox) : inbox[k].batch = data[m][i].batch =>
         data[m][i].edges = inbox[k].edges[m]
    /\ \A p \in Providers : BatchOf(p) = data[m][i].batch =>
         data[m][i].edges = provider[p].batch[m]

\* Who waits for whom, in either mode.
Waits ==
  /\ lazy => inserter.pc \notin {"wait", "executing", "notify", "results"}
  /\ writer \in {"writing", "written"} => inserter.pc = "results"
  /\ main.pc # "join" => inserter.pc = "finished"
  /\ \A m \in Managers : \A k \in 1 .. Len(control[m]) :
       control[m][k].shutdown => main.pc # "join"
Locals ==
  /\ lazy \in BOOLEAN /\ asked \in BOOLEAN /\ replies \in Seq(BOOLEAN)
  /\ inserter.awaited \in Nat /\ inserter.edges \in Int
  /\ inserter.reexecute \in BOOLEAN
  /\ main = [pc |-> main.pc, todo |-> main.todo]
WInv == Locals /\ Waits /\ AsAnnounced /\ (~lazy => EagerInv)
-------------------------------------------------------------------------------
(* The elements of the data rings and the announcements.                   *)
LEMMA BatchesOf ==
  ASSUME IInv, NEW p \in Providers
  PROVE  /\ BatchOf(p) \in BatchIds /\ ~Old(BatchOf(p))
         /\ \A q \in Providers : BatchOf(q) = BatchOf(p) => q = p
<1>1. provider[p] \in ProviderRecords
  BY DEF IInv, Shapes
<1> QED
  BY <1>1 DEF BatchOf, BatchIds, Old, ProviderRecords

LEMMA ReadEdgeMatches ==
  ASSUME IInv, EInv, AsAnnounced, NEW p \in Providers, ReadEdge(p)
  PROVE  AsAnnounced'
<1>1. /\ \A q \in Providers \ {p} : provider'[q] = provider[q]
      /\ provider'[p].number = provider[p].number /\ provider[p].sent = {}
      /\ UNCHANGED <<data, inbox>>
  BY DEF ReadEdge, rings, IInv, Shapes, EInv, NothingSentYet, ProviderRecords
<1>2. \A q \in Providers : BatchOf(q)' = BatchOf(q)
  BY <1>1 DEF BatchOf
<1>3. ASSUME NEW m \in Managers, NEW i \in 1 .. Len(data[m])
      PROVE  BatchOf(p) # data[m][i].batch
  <2>1. CASE Old(data[m][i].batch)
    BY <2>1, BatchesOf
  <2>2. ASSUME NEW q \in Providers, data[m][i].batch = BatchOf(q), m \in provider[q].sent
        PROVE  BatchOf(p) # data[m][i].batch
    BY <1>1, <2>2, BatchesOf
  <2> QED
    BY <2>1, <2>2 DEF EInv, GivenInRing
<1> QED
  BY <1>1, <1>2, <1>3 DEF AsAnnounced

LEMMA InsertionFinishedMatches ==
  ASSUME IInv, AsAnnounced, NEW p \in Providers, InsertionFinished(p)
  PROVE  AsAnnounced'
<1>1. /\ \A q \in Providers : /\ provider'[q].number = provider[q].number
                              /\ provider'[q].batch = provider[q].batch
      /\ UNCHANGED <<data, inbox>>
  BY DEF InsertionFinished, rings, IInv, Shapes, ProviderRecords
<1>2. \A q \in Providers : BatchOf(q)' = BatchOf(q)
  BY <1>1 DEF BatchOf
<1> QED
  BY <1>1, <1>2 DEF AsAnnounced

LEMMA PutDataMatches ==
  ASSUME IInv, AsAnnounced, NEW p \in Providers, PutData(p)
  PROVE  AsAnnounced'
<1>1. PICK m \in Managers : PutDataOf(p, m)
  BY DEF PutData
<1>2. PICK r \in Seq(Elements) : r = data[m]
  BY DEF IInv, Shapes, RingShapes
<1>3. PICK x : x = [batch |-> BatchOf(p), edges |-> provider[p].batch[m], done |-> FALSE]
  OBVIOUS
<1>4. /\ data' = [data EXCEPT ![m] = Append(r, x)] /\ UNCHANGED inbox
      /\ \A q \in Providers : /\ provider'[q].number = provider[q].number
                              /\ provider'[q].batch = provider[q].batch
  BY <1>1, <1>2, <1>3 DEF PutDataOf, IInv, Shapes, RingShapes, ProviderRecords
<1>5. x \in Elements /\ x.batch = BatchOf(p) /\ x.edges = provider[p].batch[m]
  <2>1. provider[p].batch[m] \in Nat
    BY DEF IInv, Shapes, ProviderRecords
  <2> QED
    BY <1>3, <2>1, BatchesOf DEF Elements
<1>6. /\ data'[m] = Append(r, x) /\ \A n \in Managers \ {m} : data'[n] = data[n]
      /\ \A q \in Providers : BatchOf(q)' = BatchOf(q)
  BY <1>4 DEF IInv, Shapes, RingShapes, BatchOf
<1>7. PICK n \in Nat :
        /\ n = Len(data[m]) /\ Len(data'[m]) = n + 1
        /\ \A i \in 1 .. n : data'[m][i] = data[m][i]
        /\ data'[m][n + 1] = x
        /\ \A i \in 1 .. n + 1 : i \in 1 .. n \/ i = n + 1
  BY <1>2, <1>5, <1>6, Appended
<1>8. ASSUME NEW k \in Managers, NEW i \in 1 .. Len(data'[k])
      PROVE  /\ \A j \in 1 .. Len(inbox) : inbox[j].batch = data'[k][i].batch =>
                  data'[k][i].edges = inbox[j].edges[k]
             /\ \A q \in Providers : BatchOf(q) = data'[k][i].batch =>
                  data'[k][i].edges = provider[q].batch[k]
  <2>1. CASE k # m \/ i \in 1 .. n
    <3>1. i \in 1 .. Len(data[k]) /\ data'[k][i] = data[k][i]
      BY <1>6, <1>7, <2>1
    <3> QED
      BY <3>1 DEF AsAnnounced
  <2>2. CASE k = m /\ i = n + 1
    <3>1. data'[k][i] = x
      BY <1>7, <2>2
    <3>2. \A j \in 1 .. Len(inbox) : inbox[j].batch # BatchOf(p)
      BY BatchesOf DEF IInv, AnnouncedOnce
    <3> QED
      BY <1>5, <2>2, <3>1, <3>2, BatchesOf
  <2> QED
    BY <1>7, <2>1, <2>2
<1>9. ASSUME NEW k \in Managers, NEW i \in 1 .. Len(data'[k])
      PROVE  /\ \A j \in 1 .. Len(inbox') : inbox'[j].batch = data'[k][i].batch =>
                  data'[k][i].edges = inbox'[j].edges[k]
             /\ \A q \in Providers : BatchOf(q)' = data'[k][i].batch =>
                  data'[k][i].edges = provider'[q].batch[k]
  <2>1. \A j \in 1 .. Len(inbox') : inbox'[j].batch = data'[k][i].batch =>
          data'[k][i].edges = inbox'[j].edges[k]
    BY <1>4, <1>8
  <2>2. ASSUME NEW q \in Providers, BatchOf(q)' = data'[k][i].batch
        PROVE  data'[k][i].edges = provider'[q].batch[k]
    <3>1. BatchOf(q) = data'[k][i].batch /\ provider'[q].batch = provider[q].batch
      BY <1>4, <1>6, <2>2
    <3> QED
      BY <1>8, <3>1
  <2> QED
    BY <2>1, <2>2
<1> QED
  BY <1>9 DEF AsAnnounced

LEMMA AnnounceMatches ==
  ASSUME IInv, EInv, AsAnnounced, NEW p \in Providers, Announce(p)
  PROVE  AsAnnounced'
<1>1. PICK o \in ProviderRecords : o = provider[p]
  BY DEF IInv, Shapes
<1>2. PICK x : x = [batch |-> BatchOf(p), shutdown |-> provider[p].final,
                    edges |-> provider[p].batch]
  OBVIOUS
<1>3. /\ inbox' = Append(inbox, x) /\ UNCHANGED data
      /\ \A q \in Providers \ {p} : provider'[q] = provider[q]
      /\ provider'[p].number = o.number + 1 /\ o.number \in Nat
  BY <1>1, <1>2 DEF Announce, AnnounceIf, rings, IInv, Shapes, ProviderRecords
<1>4. /\ x \in Announcements /\ inbox \in Seq(Announcements)
      /\ x.batch = BatchOf(p) /\ x.edges = provider[p].batch
  BY <1>1, <1>2, BatchesOf DEF Announcements, ProviderRecords, IInv, Shapes, RingShapes
<1>5. PICK n \in Nat :
        /\ n = Len(inbox) /\ Len(inbox') = n + 1
        /\ \A k \in 1 .. n : inbox'[k] = inbox[k]
        /\ inbox'[n + 1] = x
        /\ \A k \in 1 .. n + 1 : k \in 1 .. n \/ k = n + 1
  BY <1>3, <1>4, Appended
<1>6. /\ \A q \in Providers \ {p} : BatchOf(q)' = BatchOf(q)
      /\ BatchOf(p)' = <<p, o.number + 1>>
  BY <1>3 DEF BatchOf
<1>7. ASSUME NEW m \in Managers, NEW i \in 1 .. Len(data[m])
      PROVE  data[m][i].batch # <<p, o.number + 1>>
  <2>1. CASE Old(data[m][i].batch)
    BY <1>1, <1>3, <2>1 DEF Old
  <2>2. ASSUME NEW q \in Providers, data[m][i].batch = BatchOf(q)
        PROVE  data[m][i].batch # <<p, o.number + 1>>
    BY <1>1, <1>3, <2>2 DEF BatchOf
  <2> QED
    BY <2>1, <2>2 DEF EInv, GivenInRing
<1>8. ASSUME NEW m \in Managers, NEW i \in 1 .. Len(data[m])
      PROVE  /\ \A k \in 1 .. Len(inbox') : inbox'[k].batch = data[m][i].batch =>
                  data[m][i].edges = inbox'[k].edges[m]
             /\ \A q \in Providers : BatchOf(q)' = data[m][i].batch =>
                  data[m][i].edges = provider'[q].batch[m]
  <2>1. \A k \in 1 .. n : inbox'[k].batch = data[m][i].batch =>
          data[m][i].edges = inbox'[k].edges[m]
    BY <1>5 DEF AsAnnounced
  <2>2. x.batch = data[m][i].batch => data[m][i].edges = x.edges[m]
    BY <1>4 DEF AsAnnounced
  <2>3. \A q \in Providers : BatchOf(q)' = data[m][i].batch =>
          data[m][i].edges = provider'[q].batch[m]
    BY <1>3, <1>6, <1>7 DEF AsAnnounced
  <2> QED
    BY <1>5, <2>1, <2>2, <2>3
<1> QED
  BY <1>3, <1>8 DEF AsAnnounced

LEMMA ReleaseMatches ==
  ASSUME IInv, AsAnnounced, Release
  PROVE  AsAnnounced'
<1>1. inbox' = Tail(inbox) /\ UNCHANGED <<provider, data>> /\ inbox # <<>>
      /\ inbox \in Seq(Announcements)
  BY DEF Release, rings, IInv, InserterWorks, Shapes, RingShapes
<1>2. \A k \in 1 .. Len(inbox') : k + 1 \in 1 .. Len(inbox) /\ inbox'[k] = inbox[k + 1]
  BY <1>1, Tailed
<1>3. \A q : BatchOf(q)' = BatchOf(q)
  BY <1>1 DEF BatchOf
<1>4. ASSUME NEW m \in Managers, NEW i \in 1 .. Len(data[m])
      PROVE  /\ \A k \in 1 .. Len(inbox') : inbox'[k].batch = data[m][i].batch =>
                  data[m][i].edges = inbox'[k].edges[m]
             /\ \A p \in Providers : BatchOf(p) = data[m][i].batch =>
                  data[m][i].edges = provider[p].batch[m]
  BY SMTT(30), <1>2 DEF AsAnnounced
<1> QED
  BY <1>1, <1>3, <1>4 DEF AsAnnounced

LEMMA ReleaseBatchMatches ==
  ASSUME IInv, AsAnnounced, NEW m \in Managers, ReleaseBatch(m)
  PROVE  AsAnnounced'
<1>1. PICK ring \in Seq(Elements), b \in BatchIds \union {NoBatch} :
        ring = data[m] /\ b = Order(m).batch
  <2>1. control[m] # <<>> /\ 1 \in 1 .. Len(control[m]) /\ Order(m) = control[m][1]
    BY FirstOrder DEF ReleaseBatch, IInv, ManagersWork, Batches
  <2>2. Order(m) \in Orders /\ data[m] \in Seq(Elements)
    BY <2>1 DEF IInv, Shapes, RingShapes
  <2> QED
    BY <2>2 DEF Orders
<1>2. PICK s \in Seq(Elements), n \in Nat : s = SetDone(ring, b) /\ n = Len(ring)
  BY SetDoneIs
<1>3. /\ data'[m] = s /\ \A k \in Managers \ {m} : data'[k] = data[k]
      /\ UNCHANGED <<provider, inbox>>
  BY <1>1, <1>2 DEF ReleaseBatch, ingest, IInv, Shapes, RingShapes
<1>4. \A q : BatchOf(q)' = BatchOf(q)
  BY <1>3 DEF BatchOf
<1>5. ASSUME NEW i \in 1 .. Len(s)
      PROVE  \E j \in 1 .. n : s[i].batch = ring[j].batch /\ s[i].edges = ring[j].edges
  <2>1. \E k \in 0 .. Len(ring) :
          /\ Len(SetDone(ring, b)) = Len(ring) - k
          /\ \A l \in 1 .. k : Marked(ring[l], b).done
          /\ \A l \in 1 .. Len(ring) - k :
               /\ l + k \in 1 .. Len(ring)
               /\ SetDone(ring, b)[l] = Marked(ring[l + k], b)
    BY SetDoneIs
  <2>2. PICK k \in 0 .. n : /\ Len(s) = n - k
                            /\ \A l \in 1 .. n - k : /\ l + k \in 1 .. n
                                                     /\ s[l] = Marked(ring[l + k], b)
    BY <1>2, <2>1
  <2>3. i + k \in 1 .. n /\ s[i] = Marked(ring[i + k], b) /\ ring[i + k] \in Elements
    BY <1>2, <2>2
  <2>4. s[i].batch = ring[i + k].batch /\ s[i].edges = ring[i + k].edges
    BY <2>3 DEF Marked, Elements
  <2> QED
    BY <2>3, <2>4
<1>6. ASSUME NEW k \in Managers, NEW i \in 1 .. Len(data'[k])
      PROVE  \E j \in 1 .. Len(data[k]) : /\ data'[k][i].batch = data[k][j].batch
                                          /\ data'[k][i].edges = data[k][j].edges
  <2>1. CASE k = m
    <3>1. PICK j \in 1 .. n : s[i].batch = ring[j].batch /\ s[i].edges = ring[j].edges
      BY <1>3, <1>5, <2>1
    <3>2. /\ j \in 1 .. Len(data[k]) /\ data'[k][i].batch = data[k][j].batch
          /\ data'[k][i].edges = data[k][j].edges
      BY <1>1, <1>2, <1>3, <2>1, <3>1
    <3> QED
      BY <3>2
  <2>2. CASE k # m
    BY <1>3, <2>2
  <2> QED
    BY <2>1, <2>2
<1>7. ASSUME NEW k \in Managers, NEW i \in 1 .. Len(data'[k])
      PROVE  /\ \A l \in 1 .. Len(inbox) : inbox[l].batch = data'[k][i].batch =>
                  data'[k][i].edges = inbox[l].edges[k]
             /\ \A p \in Providers : BatchOf(p) = data'[k][i].batch =>
                  data'[k][i].edges = provider[p].batch[k]
  <2>1. PICK j \in 1 .. Len(data[k]) : /\ data'[k][i].batch = data[k][j].batch
                                       /\ data'[k][i].edges = data[k][j].edges
    BY <1>6
  <2> QED
    BY <2>1 DEF AsAnnounced
<1> QED
  BY <1>3, <1>4, <1>7 DEF AsAnnounced
-------------------------------------------------------------------------------
(* Who waits for whom, and the local variables.                            *)
LEMMA PcOnly ==
  ASSUME IInv, NEW pc, inserter' = [inserter EXCEPT !.pc = pc]
  PROVE  /\ inserter'.pc = pc /\ inserter'.todo = inserter.todo
         /\ inserter'.awaited = inserter.awaited /\ inserter'.edges = inserter.edges
         /\ inserter'.reexecute = inserter.reexecute
BY DEF IInv, Shapes, InserterShape

LEMMA InserterWaits ==
  ASSUME IInv, Locals, Waits, inserter.pc # "finished",
         inserter'.awaited \in Nat, inserter'.edges \in Int,
         inserter'.reexecute \in BOOLEAN, asked' \in BOOLEAN, replies' \in Seq(BOOLEAN),
         lazy => inserter'.pc \notin {"wait", "executing", "notify", "results"},
         writer' \in {"writing", "written"} => inserter'.pc = "results",
         UNCHANGED <<lazy, control, main>>
  PROVE  Locals' /\ Waits'
<1>1. Locals'
  BY DEF Locals
<1>2. main.pc = "join"
  BY DEF Waits
<1> QED
  BY <1>1, <1>2 DEF Waits

LEMMA PcWaits ==
  ASSUME IInv, Locals, Waits, inserter.pc # "finished", NEW pc,
         inserter' = [inserter EXCEPT !.pc = pc],
         lazy => pc \notin {"wait", "executing", "notify", "results"},
         writer' \in {"writing", "written"} => pc = "results",
         UNCHANGED <<lazy, control, main, asked, replies>>
  PROVE  Locals' /\ Waits'
<1>1. /\ inserter'.pc = pc /\ inserter'.awaited \in Nat /\ inserter'.edges \in Int
      /\ inserter'.reexecute \in BOOLEAN /\ asked' \in BOOLEAN /\ replies' \in Seq(BOOLEAN)
  BY PcOnly DEF Locals
<1> QED
  BY <1>1, InserterWaits

LEMMA AddresseesAre ==
  ASSUME IInv, inbox # <<>>
  PROVE  /\ Message = inbox[1] /\ Message \in Announcements /\ 1 \in 1 .. Len(inbox)
         /\ Addressees(Message) \in SUBSET Managers /\ IsFiniteSet(Addressees(Message))
         /\ Cardinality(Addressees(Message)) \in Nat
         /\ Message.edges \in [Managers -> Nat] /\ Total(Message.edges) \in Int
<1>1. inbox \in Seq(Announcements)
  BY DEF IInv, Shapes, RingShapes
<1>2. Message = inbox[1] /\ Message \in Announcements /\ 1 \in 1 .. Len(inbox)
  BY <1>1, Tailed DEF Message
<1>3. IsFiniteSet(Managers) /\ Addressees(Message) \in SUBSET Managers
  BY ConstantsAssumption DEF Addressees
<1>4. IsFiniteSet(Addressees(Message)) /\ Cardinality(Addressees(Message)) \in Nat
  BY <1>3, FS_Subset, FS_CardinalityType
<1>5. Message.edges \in [Managers -> Nat] /\ Message.edges \in [Managers -> Int]
  BY <1>2 DEF Announcements
<1>6. Total(Message.edges) \in Int
  BY <1>3, <1>5, SumInt DEF Total
<1> QED
  BY <1>2, <1>3, <1>4, <1>5, <1>6

LEMMA InserterNextWaits ==
  ASSUME IInv, Locals, Waits, InserterNext
  PROVE  Locals' /\ Waits'
<1>0. InserterShape
  BY DEF IInv, Shapes
<1>1. CASE Receive
  <2>1. /\ inserter.pc = "get" /\ inbox # <<>> /\ asked' = FALSE
        /\ UNCHANGED <<lazy, control, main, replies, writer>>
    BY <1>1 DEF Receive, rings
  <2>2. /\ inserter'.pc \in {"count", "forward"} /\ inserter'.edges = inserter.edges
        /\ inserter'.awaited = Cardinality(Addressees(Message))
        /\ inserter'.reexecute = FALSE
    BY <1>0, <1>1 DEF Receive, InserterShape
  <2>3. /\ inserter'.awaited \in Nat /\ inserter'.edges \in Int
        /\ inserter'.reexecute \in BOOLEAN /\ asked' \in BOOLEAN
        /\ replies' \in Seq(BOOLEAN)
    BY <2>1, <2>2, AddresseesAre DEF Locals
  <2>4. writer' \notin {"writing", "written"}
    BY <2>1 DEF Waits
  <2> QED
    BY <2>1, <2>2, <2>3, <2>4, InserterWaits
<1>2. CASE PutCounter
  <2>1. /\ inserter' = [inserter EXCEPT !.pc = "forward"] /\ inserter.pc = "count"
        /\ UNCHANGED <<lazy, control, main, asked, replies, writer>>
    BY <1>2 DEF PutCounter
  <2>2. writer' \notin {"writing", "written"}
    BY <2>1 DEF Waits
  <2> QED
    BY <2>1, <2>2, PcWaits
<1>3. CASE Forward
  <2>1. PICK m \in Managers, x \in Orders :
          control' = [control EXCEPT ![m] = Append(@, x)] /\ ~x.shutdown
    <3>1. PICK m \in Managers, counter \in {Message.batch, NoBatch} :
            control' = [control EXCEPT ![m] = Append(@,
              [batch |-> Message.batch, shutdown |-> FALSE, counter |-> counter])]
      BY <1>3 DEF Forward
    <3>2. PICK x : x = [batch |-> Message.batch, shutdown |-> FALSE, counter |-> counter]
      OBVIOUS
    <3>3. inbox # <<>>
      BY <1>3 DEF Forward, IInv, InserterWorks
    <3>4. x \in Orders /\ ~x.shutdown
      BY <3>1, <3>2, <3>3, AddresseesAre DEF Orders, Announcements
    <3> QED
      BY <3>1, <3>2, <3>4
  <2>2. /\ inserter.pc = "forward" /\ inserter'.pc = "forward"
        /\ inserter'.awaited = inserter.awaited /\ inserter'.edges = inserter.edges
        /\ inserter'.reexecute = inserter.reexecute
        /\ UNCHANGED <<lazy, main, asked, replies, writer>>
    BY <1>0, <1>3 DEF Forward, InserterShape
  <2>3. Locals'
    BY <2>2 DEF Locals
  <2>4. /\ main.pc = "join" /\ writer' \notin {"writing", "written"}
    BY <2>2 DEF Waits
  <2>5. ASSUME NEW n \in Managers, NEW k \in 1 .. Len(control'[n])
        PROVE  ~control'[n][k].shutdown
    <3>1. CASE n # m
      BY <2>1, <2>4, <3>1 DEF Waits, IInv, Shapes, RingShapes
    <3>2. CASE n = m
      <4>1. /\ control'[m] = Append(control[m], x)
            /\ \A j \in 1 .. Len(control[m]) : ~control[m][j].shutdown
        BY <2>1, <2>4 DEF Waits, IInv, Shapes, RingShapes
      <4>2. Len(control[m]) \in Nat
        BY DEF IInv, Shapes, RingShapes
      <4> QED
        BY <2>1, <3>2, <4>1, <4>2
    <3> QED
      BY <3>1, <3>2
  <2> QED
    BY <2>2, <2>3, <2>4, <2>5 DEF Waits
<1>4. CASE Forwarded
  <2>1. /\ inserter' = [inserter EXCEPT !.pc = IF lazy THEN "done" ELSE "wait"]
        /\ inserter.pc = "forward"
        /\ UNCHANGED <<lazy, control, main, asked, replies, writer>>
    BY <1>4 DEF Forwarded, rings
  <2>2. writer' \notin {"writing", "written"}
    BY <2>1 DEF Waits
  <2> QED
    BY <2>1, <2>2, PcWaits
<1>5. CASE ReceiveReply
  <2>1. /\ inserter.pc = "wait" /\ inserter.awaited > 0 /\ replies # <<>>
        /\ inserter' = [inserter EXCEPT !.awaited = @ - 1, !.reexecute = @ \/ Head(replies)]
        /\ replies' = Tail(replies)
        /\ UNCHANGED <<lazy, control, main, asked, writer>>
    BY <1>5 DEF ReceiveReply
  <2>2. replies[1] \in BOOLEAN /\ Head(replies) = replies[1] /\ Tail(replies) \in Seq(BOOLEAN)
    <3>1. replies \in Seq(BOOLEAN)
      BY DEF Locals
    <3> QED
      BY <2>1, <3>1, Tailed
  <2>3. /\ inserter'.pc = "wait" /\ inserter'.edges = inserter.edges
        /\ inserter'.awaited = inserter.awaited - 1
        /\ inserter'.reexecute = (inserter.reexecute \/ replies[1])
    BY <1>0, <2>1, <2>2 DEF InserterShape
  <2>4. inserter.awaited - 1 \in Nat
    <3>1. PICK n \in Nat : n = inserter.awaited
      BY DEF Locals
    <3>2. n > 0
      BY <2>1, <3>1
    <3>3. n - 1 \in Nat
      BY <3>2
    <3> QED
      BY <3>1, <3>3
  <2>5. /\ inserter'.awaited \in Nat /\ inserter'.edges \in Int
        /\ inserter'.reexecute \in BOOLEAN /\ asked' \in BOOLEAN
        /\ replies' \in Seq(BOOLEAN)
    BY <2>1, <2>2, <2>3, <2>4 DEF Locals
  <2>6. ~lazy /\ writer' \notin {"writing", "written"}
    BY <2>1 DEF Waits
  <2> QED
    BY <2>1, <2>3, <2>5, <2>6, InserterWaits
<1>6. CASE Decide
  <2>1. /\ inserter.pc = "wait"
        /\ UNCHANGED <<lazy, control, main, asked, replies, writer>>
    BY <1>6 DEF Decide, rings
  <2>2. /\ inserter'.awaited = inserter.awaited
        /\ inserter'.reexecute = inserter.reexecute
        /\ inserter'.edges = inserter.edges + Total(Message.edges)
    BY <1>0, <1>6 DEF Decide, InserterShape
  <2>3. inbox # <<>>
    BY <2>1 DEF IInv, InserterWorks
  <2>4. /\ inserter'.awaited \in Nat /\ inserter'.edges \in Int
        /\ inserter'.reexecute \in BOOLEAN /\ asked' \in BOOLEAN
        /\ replies' \in Seq(BOOLEAN)
    BY <2>1, <2>2, <2>3, AddresseesAre DEF Locals
  <2>5. ~lazy /\ writer' \notin {"writing", "written"}
    BY <2>1 DEF Waits
  <2> QED
    BY <2>1, <2>4, <2>5, InserterWaits
<1>7. CASE Executed
  <2>1. PICK pc \in {"notify", "done"} : inserter' = [inserter EXCEPT !.pc = pc]
    BY <1>7 DEF Executed
  <2>2. /\ inserter.pc = "executing"
        /\ UNCHANGED <<lazy, control, main, asked, replies, writer>>
    BY <1>7 DEF Executed, rings
  <2>3. ~lazy /\ writer' \notin {"writing", "written"}
    BY <2>2 DEF Waits
  <2> QED
    BY <2>1, <2>2, <2>3, PcWaits
<1>8. CASE Release
  <2>1. PICK pc \in {"get", "shutdown", "finished"} : inserter' = [inserter EXCEPT !.pc = pc]
    BY <1>8 DEF Release
  <2>2. /\ inserter.pc = "done"
        /\ UNCHANGED <<lazy, control, main, asked, replies, writer>>
    BY <1>8 DEF Release, rings
  <2>3. writer' \notin {"writing", "written"}
    BY <2>2 DEF Waits
  <2> QED
    BY <2>1, <2>2, <2>3, PcWaits
<1>9. CASE NotifyWriter
  <2>1. /\ inserter' = [inserter EXCEPT !.pc = "results"] /\ inserter.pc = "notify"
        /\ UNCHANGED <<lazy, control, main, asked, replies>>
    BY <1>9 DEF NotifyWriter, Meet, rings
  <2>2. ~lazy
    BY <2>1 DEF Waits
  <2> QED
    BY <2>1, <2>2, PcWaits
<1>10. CASE ResultsWritten
  <2>1. /\ inserter' = [inserter EXCEPT !.pc = "done"] /\ inserter.pc = "results"
        /\ UNCHANGED <<lazy, control, main, asked, replies>> /\ writer' = "barrier"
    BY <1>10 DEF ResultsWritten, Meet, rings
  <2> QED
    BY <2>1, PcWaits
<1>11. CASE StopWriter
  <2>1. /\ inserter' = [inserter EXCEPT !.pc = "finished"] /\ inserter.pc = "shutdown"
        /\ UNCHANGED <<lazy, control, main, asked, replies>> /\ writer' = "finished"
    BY <1>11 DEF StopWriter, Meet, rings
  <2> QED
    BY <2>1, PcWaits
<1> QED
  BY <1>1, <1>2, <1>3, <1>4, <1>5, <1>6, <1>7, <1>8, <1>9, <1>10, <1>11
     DEF InserterNext

LEMMA ManagerNextWaits ==
  ASSUME IInv, Locals, Waits, NEW m \in Managers, ManagerNext(m)
  PROVE  Locals' /\ Waits'
<1>1. UNCHANGED <<lazy, writer, inserter, main>>
  BY DEF ManagerNext, GetOrder, Insert, InsertInto, Delete, Reply, CountDown, Notify,
         ReleaseBatch, ingest
<1>2. manager[m].reexecute \in BOOLEAN /\ manager \in [Managers -> ManagerRecords]
  BY DEF IInv, Shapes, ManagerRecords
<1>3. asked' \in BOOLEAN
  <2>1. CASE Delete(m)
    BY <2>1 DEF Delete
  <2>2. CASE ~Delete(m)
    BY <2>2 DEF Locals, ManagerNext, GetOrder, Insert, InsertInto, Reply, CountDown,
                Notify, ReleaseBatch
  <2> QED
    BY <2>1, <2>2
<1>4. replies' \in Seq(BOOLEAN)
  <2>1. CASE Reply(m)
    BY <1>2, <2>1, Appended DEF Reply, Locals
  <2>2. CASE ~Reply(m)
    BY <2>2 DEF Locals, ManagerNext, GetOrder, Insert, InsertInto, Delete, CountDown,
                Notify, ReleaseBatch, rings
  <2> QED
    BY <2>1, <2>2
<1>5. Locals'
  BY <1>1, <1>3, <1>4 DEF Locals
<1>6. \A n \in Managers : \A k \in 1 .. Len(control'[n]) :
        control'[n][k].shutdown => main.pc # "join"
  <2>1. CASE ReleaseBatch(m)
    <3>1. /\ control' = [control EXCEPT ![m] = Tail(control[m])]
          /\ control[m] # <<>> /\ control[m] \in Seq(Orders)
      BY <2>1 DEF ReleaseBatch, IInv, ManagersWork, Shapes, RingShapes
    <3>2. /\ control'[m] = Tail(control[m])
          /\ \A n \in Managers \ {m} : control'[n] = control[n]
      BY <3>1 DEF IInv, Shapes, RingShapes
    <3>3. \A k \in 1 .. Len(control'[m]) : /\ k + 1 \in 1 .. Len(control[m])
                                           /\ control'[m][k] = control[m][k + 1]
      <4>1. PICK s \in Seq(Orders), n \in Nat : s = control[m] /\ n = Len(s)
        BY <3>1
      <4>2. /\ Len(Tail(s)) = n - 1
            /\ \A k \in 1 .. n - 1 : Tail(s)[k] = s[k + 1] /\ k + 1 \in 1 .. n
        BY <3>1, <4>1, Tailed
      <4> QED
        BY <3>2, <4>1, <4>2
    <3>4. \A k \in 1 .. Len(control'[m]) : control'[m][k].shutdown => main.pc # "join"
      BY <3>3 DEF Waits
    <3>5. \A n \in Managers \ {m} : \A k \in 1 .. Len(control'[n]) :
            control'[n][k].shutdown => main.pc # "join"
      BY <3>2 DEF Waits
    <3> QED
      BY <3>4, <3>5
  <2>2. CASE ~ReleaseBatch(m)
    <3>1. control' = control
      BY <2>2 DEF ManagerNext, GetOrder, Insert, InsertInto, Delete, Reply, CountDown,
                  Notify, rings
    <3> QED
      BY <3>1 DEF Waits
  <2> QED
    BY <2>1, <2>2
<1> QED
  BY <1>1, <1>5, <1>6 DEF Waits

LEMMA OthersWait ==
  ASSUME Locals, Waits,
         UNCHANGED <<lazy, inserter, control, asked, replies, main>>,
         writer' = writer \/ writer = "writing"
  PROVE  Locals' /\ Waits'
BY DEF Locals, Waits

LEMMA MainWaits ==
  ASSUME IInv, Locals, Waits, MainNext
  PROVE  Locals' /\ Waits'
<1>1. UNCHANGED <<lazy, inserter, writer, asked, replies>>
  BY DEF MainNext, JoinInserter, StopManager, JoinManagers, StopExecutor, Destroy,
         ingest, rings
<1>2. /\ main' = [pc |-> main'.pc, todo |-> main'.todo] /\ main'.pc # "join"
      /\ inserter.pc = "finished"
  <2>1. CASE JoinInserter
    BY <2>1 DEF JoinInserter, Locals
  <2>2. CASE StopManager
    BY <2>2 DEF StopManager, Locals, Waits
  <2>3. CASE JoinManagers
    BY <2>3 DEF JoinManagers, Locals, Waits
  <2>4. CASE StopExecutor
    BY <2>4 DEF StopExecutor, Locals, Waits
  <2>5. CASE Destroy
    BY <2>5 DEF Destroy, Locals, Waits
  <2> QED
    BY <2>1, <2>2, <2>3, <2>4, <2>5 DEF MainNext
<1> QED
  BY <1>1, <1>2 DEF Locals, Waits
-------------------------------------------------------------------------------
(* Nothing is owed once all replies are in.                                *)
LEMMA OwingIs ==
  ASSUME IInv, Locals
  PROVE  /\ IsFiniteSet(Owing) /\ Cardinality(Owing) \in Nat /\ Len(replies) \in Nat
         /\ Cardinality(Owing) = 0 <=> Owing = {}
<1>1. IsFiniteSet(Owing)
  BY ConstantsAssumption, FS_Subset DEF Owing
<1>2. Len(replies) \in Nat
  BY DEF Locals
<1> QED
  BY <1>1, <1>2, FS_EmptySet, FS_CardinalityType

LEMMA Quiet ==
  ASSUME IInv, EInv, Locals, EagerInv, inserter.awaited = 0
  PROVE  /\ replies = <<>> /\ Len(replies) = 0 /\ Owing = {}
         /\ \A m \in Managers :
              /\ m \notin inserter.todo /\ Unanswered(m) = {} /\ ~Untaken(m)
              /\ manager[m].pc \in {"get", "release", "finished"}
              /\ manager[m].left = 0 /\ Owed(m) = 0
<1>1. PICK c \in Nat, n \in Nat : c = Cardinality(Owing) /\ n = Len(replies)
  BY OwingIs
<1>2. c + n = 0
  BY <1>1 DEF EagerInv, AllReply
<1>3. c = 0 /\ n = 0
  BY <1>2
<1>4. Owing = {}
  BY <1>1, <1>3, OwingIs
<1>5. replies = <<>> /\ Len(replies) = 0
  <2>1. PICK r \in Seq(BOOLEAN) : r = replies
    BY DEF Locals
  <2>2. Len(r) = 0
    BY <1>1, <1>3, <2>1
  <2>3. r = <<>>
    BY <2>2
  <2> QED
    BY <2>1, <2>2, <2>3
<1>6. ASSUME NEW m \in Managers
      PROVE  /\ m \notin inserter.todo /\ Unanswered(m) = {} /\ ~Untaken(m)
             /\ manager[m].pc \in {"get", "release", "finished"}
             /\ manager[m].left = 0 /\ Owed(m) = 0
  <2>1. m \notin inserter.todo /\ Unanswered(m) = {}
    BY <1>4 DEF Owing
  <2>2. ~Untaken(m)
    BY <2>1 DEF Untaken
  <2>3. manager[m].pc \notin {"get", "finished"} => manager[m].pc = "release"
    BY <2>1 DEF Unanswered, IInv, ManagersWork
  <2>4. manager[m].left = 0
    BY <2>3 DEF EInv, ManagersRest
  <2> QED
    BY <2>1, <2>2, <2>3, <2>4 DEF Owed
<1> QED
  BY <1>4, <1>5, <1>6

LEMMA Working ==
  ASSUME IInv, EInv, Locals, EagerInv, NEW m \in Managers,
         m \in inserter.todo \/ Unanswered(m) # {}
  PROVE  inserter.pc \in {"forward", "wait"} /\ inbox # <<>>
<1>1. inserter.awaited # 0
  BY Quiet
<1>2. inserter.pc \in {"forward", "wait"}
  BY <1>1 DEF EagerInv, Places
<1> QED
  BY <1>2 DEF IInv, InserterWorks

LEMMA AtWork ==
  ASSUME IInv, EInv, Locals, EagerInv, NEW m \in Managers,
         manager[m].pc \in {"insert", "report"}
  PROVE  /\ 1 \in Batches(m) /\ Unanswered(m) = {1} /\ m \notin inserter.todo
         /\ control[m][1].batch = Message.batch
         /\ ~Untaken(m) /\ Owed(m) = manager[m].left /\ inbox # <<>>
<1>1. 1 \in Batches(m)
  BY DEF IInv, ManagersWork
<1>2. 1 \in Unanswered(m)
  BY <1>1 DEF Unanswered
<1>3. /\ m \notin inserter.todo /\ \A j \in Unanswered(m) : j = 1
      /\ control[m][1].batch = Message.batch
  BY <1>2 DEF EagerInv, OneOrder
<1>4. Unanswered(m) = {1}
  BY <1>2, <1>3
<1>5. ~Untaken(m)
  BY <1>3, <1>4 DEF Untaken
<1> QED
  BY <1>1, <1>3, <1>4, <1>5, Working DEF Owed

LEMMA SameAt ==
  ASSUME NEW n \in Managers, Batches(n)' = Batches(n), manager'[n] = manager[n],
         n \in inserter'.todo <=> n \in inserter.todo,
         Untaken(n) => Message' = Message
  PROVE  /\ Unanswered(n)' = Unanswered(n) /\ (Untaken(n)' <=> Untaken(n))
         /\ Owed(n)' = Owed(n)
<1>1. Unanswered(n)' = Unanswered(n)
  BY DEF Unanswered
<1>2. Untaken(n)' <=> Untaken(n)
  BY <1>1 DEF Untaken
<1> QED
  BY <1>1, <1>2 DEF Owed

(* The orders and the managers are as they were.                           *)
LEMMA StillEager ==
  ASSUME IInv, EInv, Locals, EagerInv,
         UNCHANGED <<replies, asked, manager, inserted>>,
         \A n \in Managers : /\ Batches(n)' = Batches(n)
                             /\ \A k \in Batches(n) : control'[n][k] = control[n][k],
         inserter'.todo = inserter.todo, inserter'.awaited = inserter.awaited,
         inserter'.reexecute = inserter.reexecute,
         inserter'.pc # "count",
         inserter'.pc \notin {"forward", "wait"} => inserter.awaited = 0,
         Announced' = Announced,
         Message' = Message \/ inserter.awaited = 0
  PROVE  EagerInv'
<1>1. \A n \in Managers : n \in inserter.todo \/ Unanswered(n) # {} => Message' = Message
  BY Quiet
<1>2. \A n \in Managers : Untaken(n) => Message' = Message
  BY <1>1 DEF Untaken
<1>3. \A n \in Managers : /\ Unanswered(n)' = Unanswered(n) /\ (Untaken(n)' <=> Untaken(n))
                          /\ Owed(n)' = Owed(n)
  BY <1>2, SameAt
<1>4. Places'
  BY DEF EagerInv, Places
<1>5. OneOrder'
  <2> SUFFICES ASSUME NEW n \in Managers, NEW k \in Unanswered(n)
               PROVE  /\ n \notin inserter.todo /\ \A j \in Unanswered(n) : j = k
                      /\ control'[n][k].batch = Message'.batch
      BY <1>3 DEF OneOrder
  <2>1. Message' = Message /\ k \in Batches(n)
    BY <1>1 DEF Unanswered
  <2> QED
    BY <2>1 DEF EagerInv, OneOrder
<1>6. AllReply'
  BY <1>3 DEF EagerInv, AllReply, Owing
<1>7. asked' <=> Wishes'
  BY DEF EagerInv, Wishes
<1>8. Sums'
  <2>1. [n \in Managers |-> inserted'[n] + Owed(n)'] = [n \in Managers |-> inserted[n] + Owed(n)]
    BY <1>3
  <2> QED
    BY <2>1 DEF EagerInv, Sums
<1> QED
  BY <1>4, <1>5, <1>6, <1>7, <1>8 DEF EagerInv

LEMMA OthersEager ==
  ASSUME IInv, EInv, Locals, EagerInv,
         UNCHANGED <<inserter, replies, asked, manager, inserted>>,
         \A n \in Managers : /\ Batches(n)' = Batches(n)
                             /\ \A k \in Batches(n) : control'[n][k] = control[n][k],
         inbox # <<>> => Message' = Message
  PROVE  EagerInv'
<1>1. inserter.pc \in {"forward", "wait"} => inbox # <<>>
  BY DEF IInv, InserterWorks
<1>2. Message' = Message \/ inserter.awaited = 0
  BY <1>1 DEF EagerInv, Places
<1>3. Announced' = Announced
  BY <1>1 DEF Announced
<1>4. /\ inserter'.pc # "count"
      /\ inserter'.pc \notin {"forward", "wait"} => inserter.awaited = 0
  BY DEF EagerInv, Places
<1> QED
  BY <1>2, <1>3, <1>4, StillEager

(* A manager moves on, and the others do not.                              *)
LEMMA ManagerEager ==
  ASSUME IInv, EInv, Locals, EagerInv, NEW m \in Managers,
         UNCHANGED <<inbox, inserter>>,
         \A n \in Managers \ {m} : /\ control'[n] = control[n]
                                   /\ manager'[n] = manager[n]
                                   /\ inserted'[n] = inserted[n],
         manager'[m].pc # "notify",
         \A k \in Unanswered(m)' : /\ m \notin inserter.todo
                                   /\ \A j \in Unanswered(m)' : j = k
                                   /\ control'[m][k].batch = Message.batch,
         inserted'[m] + Owed(m)' = inserted[m] + Owed(m),
         AllReply', asked' <=> Wishes'
  PROVE  EagerInv'
<1>1. Message' = Message
  BY DEF Message
<1>2. \A n \in Managers \ {m} : Batches(n)' = Batches(n)
  BY DEF Batches
<1>3. \A n \in Managers \ {m} : Unanswered(n)' = Unanswered(n) /\ Owed(n)' = Owed(n)
  BY <1>1, <1>2, SameAt
<1>4. Places'
  BY DEF EagerInv, Places
<1>5. OneOrder'
  BY <1>1, <1>3 DEF EagerInv, OneOrder
<1>6. Sums'
  <2>1. Announced' = Announced
    BY <1>1 DEF Announced
  <2>2. \A n \in Managers : inserted'[n] + Owed(n)' = inserted[n] + Owed(n)
    BY <1>3
  <2>3. [n \in Managers |-> inserted'[n] + Owed(n)'] = [n \in Managers |-> inserted[n] + Owed(n)]
    BY <2>2
  <2> QED
    BY <2>1, <2>3 DEF EagerInv, Sums
<1> QED
  BY <1>4, <1>5, <1>6 DEF EagerInv

LEMMA SameReplies ==
  ASSUME EagerInv, NEW m \in Managers, UNCHANGED <<inbox, inserter, replies>>,
         \A n \in Managers \ {m} : /\ control'[n] = control[n]
                                   /\ manager'[n] = manager[n],
         Unanswered(m)' = {} <=> Unanswered(m) = {}
  PROVE  AllReply'
<1>1. \A n \in Managers \ {m} : Unanswered(n)' = Unanswered(n)
  BY DEF Unanswered, Batches
<1>2. Owing' = Owing
  BY <1>1 DEF Owing
<1> QED
  BY <1>2 DEF EagerInv, AllReply

LEMMA SameWishes ==
  ASSUME EagerInv, NEW m \in Managers, UNCHANGED <<inserter, replies, asked>>,
         \A n \in Managers \ {m} : manager'[n] = manager[n],
         manager'[m].pc # "report", manager[m].pc # "report"
  PROVE  asked' <=> Wishes'
BY DEF EagerInv, Wishes

LEMMA GetOrderEager ==
  ASSUME IInv, IInv', EInv, Locals, AsAnnounced, EagerInv, NEW m \in Managers, GetOrder(m)
  PROVE  EagerInv'
<1>1. /\ control[m] # <<>> /\ manager[m].pc = "get" /\ manager[m].left = 0
      /\ UNCHANGED <<inbox, inserter, replies, asked, control, data, inserted>>
  BY DEF GetOrder, rings, ingest, EInv, ManagersRest
<1>2. /\ manager \in [Managers -> ManagerRecords]
      /\ Order(m) = control[m][1] /\ 1 \in 1 .. Len(control[m])
  BY <1>1, FirstOrder DEF IInv, Shapes
<1>3. Batches(m)' = Batches(m) /\ Message' = Message
  BY <1>1 DEF Batches, Message
<1>4. CASE Order(m).shutdown /\ Place(m, "finished")
  <2>1. /\ manager'[m].pc = "finished" /\ manager'[m].left = 0
        /\ \A n \in Managers \ {m} : manager'[n] = manager[n]
    BY <1>1, <1>2, <1>4 DEF Place, ManagerRecords
  <2>2. 1 \notin Batches(m)
    BY <1>2, <1>4 DEF Batches
  <2>3. Unanswered(m)' = Unanswered(m)
    BY <1>1, <1>3, <2>1 DEF Unanswered
  <2>4. Untaken(m)' <=> Untaken(m)
    BY <1>1, <2>2, <2>3 DEF Untaken, Unanswered
  <2>5. Owed(m)' = Owed(m)
    BY <1>1, <1>3, <2>1, <2>4 DEF Owed
  <2>6. AllReply'
    BY <1>1, <2>1, <2>3, SameReplies
  <2>7. asked' <=> Wishes'
    BY <1>1, <2>1, SameWishes
  <2>8. \A k \in Unanswered(m)' : /\ m \notin inserter.todo
                                  /\ \A j \in Unanswered(m)' : j = k
                                  /\ control'[m][k].batch = Message.batch
    BY <1>1, <2>3 DEF EagerInv, OneOrder
  <2> QED
    BY <1>1, <2>1, <2>5, <2>6, <2>7, <2>8, ManagerEager
<1>5. CASE ~Order(m).shutdown
  <2>1. PICK i \in DOMAIN data[m] :
          /\ data[m][i].batch = Order(m).batch
          /\ manager' = [manager EXCEPT ![m] =
                [pc |-> "insert", left |-> data[m][i].edges, reexecute |-> FALSE]]
    BY <1>5 DEF GetOrder
  <2>2. /\ manager'[m].pc = "insert" /\ manager'[m].left = data[m][i].edges
        /\ \A n \in Managers \ {m} : manager'[n] = manager[n]
    BY <1>2, <2>1
  <2>3. 1 \in Batches(m) /\ 1 \in Unanswered(m)
    BY <1>1, <1>2, <1>5 DEF Batches, Unanswered
  <2>4. /\ m \notin inserter.todo /\ \A j \in Unanswered(m) : j = 1
        /\ control[m][1].batch = Message.batch
    BY <2>3 DEF EagerInv, OneOrder
  <2>5. Unanswered(m) = {1} /\ Unanswered(m)' = {1}
    BY <1>1, <1>3, <2>2, <2>3, <2>4 DEF Unanswered
  <2>6. Untaken(m) /\ ~Untaken(m)'
    BY <1>1, <2>2, <2>4, <2>5 DEF Untaken
  <2>7. Message = inbox[1] /\ 1 \in 1 .. Len(inbox)
    BY <2>5, Working, AddresseesAre
  <2>8. data[m][i].edges = Message.edges[m]
    <3>1. i \in 1 .. Len(data[m]) /\ inbox[1].batch = data[m][i].batch
      <4>1. DOMAIN data[m] = 1 .. Len(data[m])
        BY DEF IInv, Shapes, RingShapes
      <4> QED
        BY <1>2, <2>1, <2>4, <2>7, <4>1
    <3> QED
      BY <2>7, <3>1 DEF AsAnnounced
  <2>9. Owed(m)' = Owed(m)
    BY <2>2, <2>6, <2>8 DEF Owed
  <2>10. AllReply'
    BY <1>1, <2>2, <2>5, SameReplies
  <2>11. asked' <=> Wishes'
    BY <1>1, <2>2, SameWishes
  <2>12. \A k \in Unanswered(m)' : /\ m \notin inserter.todo
                                   /\ \A j \in Unanswered(m)' : j = k
                                   /\ control'[m][k].batch = Message.batch
    BY <1>1, <2>4, <2>5
  <2> QED
    BY <1>1, <2>2, <2>9, <2>10, <2>11, <2>12, ManagerEager
<1> QED
  BY <1>4, <1>5 DEF GetOrder

LEMMA InsertEager ==
  ASSUME IInv, IInv', EInv, Locals, EagerInv, NEW m \in Managers, Insert(m)
  PROVE  EagerInv'
<1>1. /\ manager' = [manager EXCEPT ![m].left = @ - 1]
      /\ inserted' = [inserted EXCEPT ![m] = @ + 1]
      /\ manager[m].pc = "insert"
      /\ UNCHANGED <<inbox, inserter, replies, asked, control>>
  BY DEF Insert, InsertInto, ingest, rings
<1>2. /\ manager'[m].pc = "insert" /\ manager'[m].left = manager[m].left - 1
      /\ \A n \in Managers \ {m} : manager'[n] = manager[n]
      /\ manager[m].left \in Nat
  BY <1>1 DEF IInv, Shapes, ManagerRecords
<1>3. /\ inserted'[m] = inserted[m] + 1 /\ inserted[m] \in Nat
      /\ \A n \in Managers \ {m} : inserted'[n] = inserted[n]
  BY <1>1 DEF EInv
<1>4. /\ Unanswered(m) = {1} /\ m \notin inserter.todo
      /\ control[m][1].batch = Message.batch /\ Owed(m) = manager[m].left
  BY <1>1, AtWork
<1>5. Unanswered(m)' = {1}
  BY <1>1, <1>2, <1>4 DEF Unanswered, Batches
<1>6. Owed(m)' = manager'[m].left
  BY <1>1, <1>2, <1>4, <1>5 DEF Owed, Untaken
<1>7. inserted'[m] + Owed(m)' = inserted[m] + Owed(m)
  <2>1. PICK a \in Nat, b \in Nat : a = inserted[m] /\ b = manager[m].left
    BY <1>2, <1>3
  <2>2. (a + 1) + (b - 1) = a + b
    OBVIOUS
  <2> QED
    BY <1>2, <1>3, <1>4, <1>6, <2>1, <2>2
<1>8. AllReply'
  BY <1>1, <1>2, <1>4, <1>5, SameReplies
<1>9. asked' <=> Wishes'
  BY <1>1, <1>2, SameWishes
<1>10. \A k \in Unanswered(m)' : /\ m \notin inserter.todo
                                 /\ \A j \in Unanswered(m)' : j = k
                                 /\ control'[m][k].batch = Message.batch
  BY <1>1, <1>4, <1>5
<1> QED
  BY <1>1, <1>2, <1>3, <1>7, <1>8, <1>9, <1>10, ManagerEager

(* A deletion asks the manager to ask.                                     *)
LEMMA DeleteEager ==
  ASSUME IInv, IInv', EInv, Locals, EagerInv, NEW m \in Managers, Delete(m)
  PROVE  EagerInv'
<1>1. PICK wish \in {FALSE, Deletions} :
        /\ manager' = [manager EXCEPT ![m].pc = "report", ![m].reexecute = wish]
        /\ asked' = (asked \/ wish)
  BY DEF Delete
<1>2. /\ manager[m].pc = "insert"
      /\ UNCHANGED <<inbox, inserter, replies, control, inserted>>
  BY DEF Delete, ingest, rings
<1>3. /\ manager'[m].pc = "report" /\ manager'[m].left = manager[m].left
      /\ manager'[m].reexecute = wish
      /\ \A n \in Managers \ {m} : manager'[n] = manager[n]
  BY <1>1 DEF IInv, Shapes, ManagerRecords
<1>4. /\ Unanswered(m) = {1} /\ m \notin inserter.todo
      /\ control[m][1].batch = Message.batch /\ Owed(m) = manager[m].left
  BY <1>2, AtWork
<1>5. Unanswered(m)' = {1}
  BY <1>2, <1>3, <1>4 DEF Unanswered, Batches
<1>6. Owed(m)' = Owed(m)
  BY <1>2, <1>3, <1>4, <1>5 DEF Owed, Untaken
<1>7. AllReply'
  BY <1>2, <1>3, <1>4, <1>5, SameReplies
<1>8. asked' <=> Wishes'
  BY <1>1, <1>2, <1>3 DEF EagerInv, Wishes
<1>9. \A k \in Unanswered(m)' : /\ m \notin inserter.todo
                                /\ \A j \in Unanswered(m)' : j = k
                                /\ control'[m][k].batch = Message.batch
  BY <1>2, <1>4, <1>5
<1> QED
  BY <1>2, <1>3, <1>6, <1>7, <1>8, <1>9, ManagerEager

(* The reply takes the place of the order, and the wish goes with it.      *)
LEMMA ReplyEager ==
  ASSUME IInv, IInv', EInv, Locals, EagerInv, NEW m \in Managers, Reply(m)
  PROVE  EagerInv'
<1>1. PICK wish \in BOOLEAN : wish = manager[m].reexecute
  BY DEF IInv, Shapes, ManagerRecords
<1>2. /\ manager[m].pc = "report" /\ replies' = Append(replies, wish)
      /\ UNCHANGED <<inbox, inserter, asked, control, inserted>>
  BY <1>1 DEF Reply, ingest
<1>3. /\ manager'[m].pc = "release" /\ manager'[m].left = manager[m].left
      /\ \A n \in Managers \ {m} : manager'[n] = manager[n]
  BY DEF Reply, Place, IInv, Shapes, ManagerRecords
<1>4. /\ Unanswered(m) = {1} /\ m \notin inserter.todo /\ Owed(m) = manager[m].left
  BY <1>2, AtWork
<1>5. Unanswered(m)' = {}
  BY <1>2, <1>3, <1>4 DEF Unanswered, Batches
<1>6. Owed(m)' = Owed(m)
  BY <1>2, <1>3, <1>4, <1>5 DEF Owed, Untaken
<1>7. PICK r \in Seq(BOOLEAN), n \in Nat : r = replies /\ n = Len(r)
  BY DEF Locals
<1>8. /\ Len(replies') = n + 1 /\ replies'[n + 1] = wish
      /\ \A k \in 1 .. n : replies'[k] = r[k] /\ k \in 1 .. n + 1
      /\ n + 1 \in 1 .. n + 1 /\ \A k \in 1 .. n + 1 : k \in 1 .. n \/ k = n + 1
  BY <1>2, <1>7, Appended
<1>9. AllReply'
  <2>1. \A q \in Managers \ {m} : Unanswered(q)' = Unanswered(q)
    BY <1>2, <1>3 DEF Unanswered, Batches
  <2>2. m \in Owing /\ Owing' = Owing \ {m}
    BY <1>2, <1>4, <1>5, <2>1 DEF Owing
  <2>3. PICK c \in Nat : c = Cardinality(Owing)
    BY OwingIs
  <2>4. Cardinality(Owing') = c - 1
    BY <2>2, <2>3, OwingIs, FS_RemoveElement
  <2>5. inserter.awaited = c + n
    BY <1>7, <2>3 DEF EagerInv, AllReply
  <2>6. c + n = (c - 1) + (n + 1)
    OBVIOUS
  <2> QED
    BY <1>2, <1>8, <2>4, <2>5, <2>6 DEF AllReply
<1>10. asked' <=> Wishes'
  <2>1. (\E k \in 1 .. Len(replies') : replies'[k])
          <=> (\E k \in 1 .. n : r[k]) \/ wish
    BY <1>8
  <2>2. (\E q \in Managers : manager[q].pc = "report" /\ manager[q].reexecute)
          <=> \/ \E q \in Managers : manager'[q].pc = "report" /\ manager'[q].reexecute
              \/ wish
    BY <1>1, <1>2, <1>3
  <2> QED
    BY <1>2, <1>7, <2>1, <2>2 DEF EagerInv, Wishes
<1>11. \A k \in Unanswered(m)' : /\ m \notin inserter.todo
                                 /\ \A j \in Unanswered(m)' : j = k
                                 /\ control'[m][k].batch = Message.batch
  BY <1>5
<1> QED
  BY <1>2, <1>3, <1>6, <1>9, <1>10, <1>11, ManagerEager

LEMMA ReleaseBatchEager ==
  ASSUME IInv, IInv', EInv, Locals, EagerInv, NEW m \in Managers, ReleaseBatch(m)
  PROVE  EagerInv'
<1>1. /\ control' = [control EXCEPT ![m] = Tail(control[m])]
      /\ manager[m].pc = "release" /\ Place(m, "get")
      /\ UNCHANGED <<inbox, inserter, replies, asked, inserted>>
  BY DEF ReleaseBatch, ingest, IInv, Shapes, RingShapes
<1>2. /\ manager'[m].pc = "get" /\ manager'[m].left = manager[m].left
      /\ \A n \in Managers \ {m} : manager'[n] = manager[n]
      /\ control'[m] = Tail(control[m])
      /\ \A n \in Managers \ {m} : control'[n] = control[n]
  BY <1>1 DEF Place, IInv, Shapes, RingShapes, ManagerRecords
<1>3. PICK s \in Seq(Orders), n \in Nat : s = control[m] /\ n = Len(s) /\ s # <<>>
  BY <1>1 DEF IInv, Shapes, RingShapes, ManagersWork
<1>4. /\ Len(Tail(s)) = n - 1
      /\ \A k \in 1 .. n - 1 : Tail(s)[k] = s[k + 1] /\ k + 1 \in 1 .. n
      /\ \A k \in 1 .. n : k # 1 => k - 1 \in 1 .. n - 1
  BY <1>3, Tailed
<1>5. \A k \in Unanswered(m) : k \in 1 .. n /\ k # 1 /\ ~s[k].shutdown
  BY <1>1, <1>3 DEF Unanswered, Batches
<1>6. \A k \in Unanswered(m)' : /\ k \in 1 .. n - 1 /\ k + 1 \in Unanswered(m)
                                /\ control'[m][k] = s[k + 1]
  <2> SUFFICES ASSUME NEW k \in Unanswered(m)'
               PROVE  /\ k \in 1 .. n - 1 /\ k + 1 \in Unanswered(m)
                      /\ control'[m][k] = s[k + 1]
      OBVIOUS
  <2>1. k \in 1 .. n - 1 /\ ~Tail(s)[k].shutdown
    BY <1>2, <1>3, <1>4 DEF Unanswered, Batches
  <2>2. k + 1 \in 1 .. n /\ k + 1 # 1 /\ Tail(s)[k] = s[k + 1]
    BY <1>4, <2>1
  <2> QED
    BY <1>2, <1>3, <2>1, <2>2 DEF Unanswered, Batches
<1>7. ASSUME NEW k \in Unanswered(m) PROVE k - 1 \in Unanswered(m)'
  <2>1. k \in 1 .. n /\ k # 1 /\ ~s[k].shutdown
    BY <1>5
  <2>2. PICK j \in 1 .. n - 1 : j = k - 1 /\ j + 1 = k
    <3>1. k - 1 \in 1 .. n - 1 /\ (k - 1) + 1 = k
      BY <1>4, <2>1
    <3> QED
      BY <3>1
  <2>3. Tail(s)[j] = s[k]
    BY <1>4, <2>2
  <2> QED
    BY <1>2, <1>3, <1>4, <2>1, <2>2, <2>3 DEF Unanswered, Batches
<1>8. Unanswered(m)' = {} <=> Unanswered(m) = {}
  BY <1>6, <1>7
<1>9. Untaken(m)' <=> Untaken(m)
  <2>1. Untaken(m) <=> m \in inserter.todo \/ Unanswered(m) # {}
    BY <1>5 DEF Untaken
  <2>2. Untaken(m)' <=> m \in inserter.todo \/ Unanswered(m)' # {}
    BY <1>1, <1>2 DEF Untaken
  <2> QED
    BY <1>8, <2>1, <2>2
<1>10. Owed(m)' = Owed(m)
  BY <1>1, <1>2, <1>9 DEF Owed, Message
<1>11. AllReply'
  BY <1>1, <1>2, <1>8, SameReplies
<1>12. asked' <=> Wishes'
  BY <1>1, <1>2, SameWishes
<1>13. ASSUME NEW k \in Unanswered(m)'
       PROVE  /\ m \notin inserter.todo /\ \A j \in Unanswered(m)' : j = k
              /\ control'[m][k].batch = Message.batch
  <2>1. /\ m \notin inserter.todo /\ \A j \in Unanswered(m) : j = k + 1
        /\ control[m][k + 1].batch = Message.batch
    BY <1>6 DEF EagerInv, OneOrder
  <2>2. \A j \in Unanswered(m)' : j + 1 = k + 1
    BY <1>6, <2>1
  <2>3. \A j \in Unanswered(m)' : j = k
    BY <1>6, <2>2
  <2> QED
    BY <1>3, <1>6, <2>1, <2>3
<1> QED
  BY <1>1, <1>2, <1>10, <1>11, <1>12, <1>13, ManagerEager

LEMMA ManagerNextEager ==
  ASSUME IInv, IInv', EInv, Locals, AsAnnounced, ~lazy, EagerInv, NEW m \in Managers,
         ManagerNext(m)
  PROVE  EagerInv'
<1>1. ~CountDown(m) /\ ~Notify(m)
  BY DEF CountDown, Notify, EagerInv, Places
<1> QED
  BY <1>1, GetOrderEager, InsertEager, DeleteEager, ReplyEager, ReleaseBatchEager
     DEF ManagerNext

(* The EdgeInserter.                                                       *)
LEMMA PcEager ==
  ASSUME IInv, EInv, Locals, EagerInv, NEW pc,
         inserter' = [inserter EXCEPT !.pc = pc], pc # "count",
         UNCHANGED <<replies, asked, manager, control, inserted>>,
         \/ pc \in {"forward", "wait"} /\ inserter.pc \in {"forward", "wait"}
            /\ UNCHANGED inbox
         \/ pc \notin {"forward", "wait"} /\ inserter.pc \notin {"forward", "wait"}
  PROVE  EagerInv'
<1>1. /\ inserter'.pc = pc /\ inserter'.todo = inserter.todo
      /\ inserter'.awaited = inserter.awaited /\ inserter'.edges = inserter.edges
      /\ inserter'.reexecute = inserter.reexecute
  BY PcOnly
<1>2. Message' = Message \/ inserter.awaited = 0
  BY DEF EagerInv, Places, Message
<1>3. Announced' = Announced
  BY <1>1 DEF Announced, Message
<1>4. inserter'.pc \notin {"forward", "wait"} => inserter.awaited = 0
  BY <1>1 DEF EagerInv, Places
<1>5. \A n \in Managers : /\ Batches(n)' = Batches(n)
                          /\ \A k \in Batches(n) : control'[n][k] = control[n][k]
  BY DEF Batches
<1> QED
  BY <1>1, <1>2, <1>3, <1>4, <1>5, StillEager

LEMMA DecideEager ==
  ASSUME IInv, EInv, Locals, EagerInv, Decide
  PROVE  EagerInv'
<1>1. /\ inserter.pc = "wait" /\ inserter.awaited = 0
      /\ UNCHANGED <<inbox, replies, asked, manager, control, inserted>>
  BY DEF Decide, rings
<1>2. /\ inserter'.awaited = inserter.awaited /\ inserter'.todo = inserter.todo
      /\ inserter'.reexecute = inserter.reexecute
      /\ inserter'.edges = inserter.edges + Total(Message.edges)
      /\ inserter'.pc \in {"executing", "done"}
  BY DEF Decide, IInv, Shapes, InserterShape
<1>3. PICK e \in Int, t \in Int : e = inserter.edges /\ t = Total(Message.edges)
  BY <1>1, AddresseesAre DEF Locals, IInv, InserterWorks
<1>4. Announced' = Announced
  BY <1>1, <1>2, <1>3 DEF Announced
<1>5. \A n \in Managers : /\ Batches(n)' = Batches(n)
                          /\ \A k \in Batches(n) : control'[n][k] = control[n][k]
  BY <1>1 DEF Batches
<1> QED
  BY <1>1, <1>2, <1>4, <1>5, StillEager

LEMMA ReceiveEager ==
  ASSUME IInv, EInv, Locals, EagerInv, ~lazy, Receive
  PROVE  EagerInv'
<1>1. /\ inserter.pc = "get" /\ inbox # <<>> /\ asked' = FALSE
      /\ UNCHANGED <<inbox, replies, manager, control, inserted>>
  BY DEF Receive, rings
<1>2. /\ inserter'.pc = "forward" /\ inserter'.todo = Addressees(Message)
      /\ inserter'.awaited = Cardinality(Addressees(Message))
      /\ inserter'.edges = inserter.edges /\ inserter'.reexecute = FALSE
  BY DEF Receive, IInv, Shapes, InserterShape
<1>3. inserter.awaited = 0
  BY <1>1 DEF EagerInv, Places
<1>4. /\ Len(replies) = 0
      /\ \A m \in Managers :
           /\ Unanswered(m) = {} /\ manager[m].left = 0 /\ Owed(m) = 0
           /\ manager[m].pc \in {"get", "release", "finished"}
  BY <1>3, Quiet
<1>5. \A m \in Managers : Unanswered(m)' = {}
  BY <1>1, <1>4 DEF Unanswered, Batches
<1>6. Message' = Message /\ Addressees(Message) \in SUBSET Managers
      /\ Message.edges \in [Managers -> Nat] /\ Cardinality(Addressees(Message)) \in Nat
  BY <1>1, AddresseesAre DEF Message
<1>7. Places'
  BY <1>1, <1>2, <1>4 DEF Places
<1>8. OneOrder'
  BY <1>5 DEF OneOrder
<1>9. AllReply'
  <2>1. Owing' = Addressees(Message)
    BY <1>2, <1>5, <1>6 DEF Owing
  <2> QED
    BY <1>1, <1>2, <1>4, <1>6, <2>1 DEF AllReply
<1>10. asked' <=> Wishes'
  BY <1>1, <1>2, <1>4 DEF Wishes
<1>11. Sums'
  <2>1. \A m \in Managers : Owed(m)' = Message.edges[m]
    <3> SUFFICES ASSUME NEW m \in Managers PROVE Owed(m)' = Message.edges[m]
        OBVIOUS
    <3>1. Untaken(m)' <=> m \in Addressees(Message)
      BY <1>2, <1>5 DEF Untaken
    <3>2. m \notin Addressees(Message) => Message.edges[m] = 0
      BY <1>6 DEF Addressees
    <3> QED
      BY <1>1, <1>4, <1>6, <3>1, <3>2 DEF Owed
  <2> DEFINE f == [m \in Managers |-> inserted[m] + Owed(m)]
             f1 == [m \in Managers |-> inserted[m] + Message.edges[m]]
  <2>2. f = inserted
    <3>1. inserted \in [Managers -> Nat]
      BY DEF EInv
    <3>2. \A m \in Managers : inserted[m] + Owed(m) = inserted[m]
      BY <1>4, <3>1
    <3> QED
      BY <3>1, <3>2
  <2>3. /\ SumFunction(f1) = SumFunction(inserted) + SumFunction(Message.edges)
        /\ SumFunction(inserted) \in Int /\ SumFunction(Message.edges) \in Int
    <3>1. IsFiniteSet(Managers) /\ inserted \in [Managers -> Int]
          /\ Message.edges \in [Managers -> Int]
      BY <1>6, ConstantsAssumption DEF EInv
    <3> QED
      BY <3>1, SumPlus, SumInt
  <2>4. Announced = Total(inserted)
    BY <2>2 DEF EagerInv, Sums
  <2>5. PICK e \in Int : e = inserter.edges
    BY DEF Locals
  <2>6. e = SumFunction(inserted)
    BY <1>1, <2>3, <2>4, <2>5 DEF Announced, Total
  <2>7. Announced' = e + SumFunction(Message.edges)
    BY <1>2, <1>6, <2>5 DEF Announced, Total
  <2>8. [m \in Managers |-> inserted'[m] + Owed(m)'] = f1
    BY <1>1, <2>1
  <2> QED
    BY <2>3, <2>6, <2>7, <2>8 DEF Sums, Total
<1> QED
  BY <1>7, <1>8, <1>9, <1>10, <1>11 DEF EagerInv

LEMMA ReceiveReplyEager ==
  ASSUME IInv, EInv, Locals, EagerInv, ReceiveReply
  PROVE  EagerInv'
<1>1. PICK r \in Seq(BOOLEAN), n \in Nat : r = replies /\ n = Len(r) /\ r # <<>>
  <2>1. replies \in Seq(BOOLEAN) /\ replies # <<>>
    BY DEF Locals, ReceiveReply
  <2>2. Len(replies) \in Nat
    BY <2>1
  <2> QED
    BY <2>1, <2>2
<1>2. /\ Len(Tail(r)) = n - 1 /\ n > 0 /\ 1 \in 1 .. n /\ Head(r) = r[1]
      /\ \A k \in 1 .. n - 1 : Tail(r)[k] = r[k + 1] /\ k + 1 \in 1 .. n
      /\ \A k \in 1 .. n : k # 1 => k - 1 \in 1 .. n - 1
      /\ r[1] \in BOOLEAN
  BY <1>1, Tailed
<1>3. /\ inserter.pc = "wait" /\ replies' = Tail(r)
      /\ UNCHANGED <<inbox, asked, manager, control, inserted>>
  BY <1>1 DEF ReceiveReply
<1>4. /\ inserter'.pc = "wait" /\ inserter'.todo = inserter.todo
      /\ inserter'.awaited = inserter.awaited - 1
      /\ inserter'.edges = inserter.edges
      /\ inserter'.reexecute = (inserter.reexecute \/ r[1])
  BY <1>1, <1>2 DEF ReceiveReply, IInv, Shapes, InserterShape
<1>5. Message' = Message
  BY <1>3 DEF Message
<1>6. \A m \in Managers : /\ Batches(m)' = Batches(m)
                          /\ Unanswered(m)' = Unanswered(m) /\ Owed(m)' = Owed(m)
  <2>1. \A m \in Managers : Batches(m)' = Batches(m)
    BY <1>3 DEF Batches
  <2> QED
    BY <1>3, <1>4, <1>5, <2>1, SameAt
<1>7. Places'
  BY <1>3, <1>4 DEF EagerInv, Places
<1>8. OneOrder'
  BY <1>3, <1>4, <1>5, <1>6 DEF EagerInv, OneOrder
<1>9. AllReply'
  <2>1. Owing' = Owing
    BY <1>4, <1>6 DEF Owing
  <2>2. PICK c \in Nat : c = Cardinality(Owing)
    BY OwingIs
  <2>3. inserter.awaited = c + n
    BY <1>1, <2>2 DEF EagerInv, AllReply
  <2>4. (c + n) - 1 = c + (n - 1)
    OBVIOUS
  <2> QED
    BY <1>2, <1>3, <1>4, <2>1, <2>2, <2>3, <2>4 DEF AllReply
<1>10. asked' <=> Wishes'
  <2>1. (\E k \in 1 .. n : r[k]) <=> r[1] \/ \E k \in 1 .. n - 1 : Tail(r)[k]
    <3>1. ASSUME NEW k \in 1 .. n, k # 1, r[k] PROVE \E j \in 1 .. n - 1 : Tail(r)[j]
      <4>1. k - 1 \in 1 .. n - 1 /\ (k - 1) + 1 = k
        BY <1>2, <3>1
      <4> QED
        BY <1>2, <3>1, <4>1
    <3> QED
      BY <1>2, <3>1
  <2> QED
    BY <1>1, <1>2, <1>3, <1>4, <2>1 DEF EagerInv, Wishes
<1>11. Sums'
  <2>1. Announced' = Announced
    BY <1>3, <1>4, <1>5 DEF Announced
  <2>2. [m \in Managers |-> inserted'[m] + Owed(m)'] = [m \in Managers |-> inserted[m] + Owed(m)]
    BY <1>3, <1>6
  <2> QED
    BY <2>1, <2>2 DEF EagerInv, Sums
<1> QED
  BY <1>7, <1>8, <1>9, <1>10, <1>11 DEF EagerInv

LEMMA ForwardEager ==
  ASSUME IInv, EInv, Locals, EagerInv, Forward
  PROVE  EagerInv'
<1>1. PICK m \in Managers, counter \in {Message.batch, NoBatch} :
        /\ m \in inserter.todo
        /\ control' = [control EXCEPT ![m] = Append(@,
             [batch |-> Message.batch, shutdown |-> FALSE, counter |-> counter])]
        /\ inserter' = [inserter EXCEPT !.todo = @ \ {m}]
  BY DEF Forward, IsLeast
<1>2. /\ inserter.pc = "forward"
      /\ UNCHANGED <<inbox, manager, replies, asked, inserted>>
  BY DEF Forward
<1>3. /\ inserter'.pc = "forward" /\ inserter'.todo = inserter.todo \ {m}
      /\ inserter'.awaited = inserter.awaited /\ inserter'.edges = inserter.edges
      /\ inserter'.reexecute = inserter.reexecute
  BY <1>1, <1>2 DEF IInv, Shapes, InserterShape
<1>4. PICK x : x = [batch |-> Message.batch, shutdown |-> FALSE, counter |-> counter]
  OBVIOUS
<1>5. x \in Orders /\ ~x.shutdown /\ x.batch = Message.batch
  <2>1. inbox # <<>>
    BY <1>2 DEF IInv, InserterWorks
  <2> QED
    BY <1>1, <1>4, <2>1, AddresseesAre DEF Orders, Announcements
<1>6. PICK s \in Seq(Orders), n \in Nat : s = control[m] /\ n = Len(s)
  BY DEF IInv, Shapes, RingShapes
<1>7. /\ control'[m] = Append(s, x)
      /\ \A q \in Managers \ {m} : control'[q] = control[q]
  BY <1>1, <1>4, <1>6 DEF IInv, Shapes, RingShapes
<1>8. /\ Len(control'[m]) = n + 1 /\ control'[m][n + 1] = x /\ n + 1 \in 1 .. n + 1
      /\ \A k \in 1 .. n : control'[m][k] = s[k] /\ k \in 1 .. n + 1
      /\ \A k \in 1 .. n + 1 : k \in 1 .. n \/ k = n + 1
  BY <1>5, <1>6, <1>7, Appended
<1>9. Message' = Message
  BY <1>2 DEF Message
<1>10. \A q \in Managers \ {m} : /\ Batches(q)' = Batches(q)
                                 /\ Unanswered(q)' = Unanswered(q) /\ Owed(q)' = Owed(q)
  <2>1. \A q \in Managers \ {m} : Batches(q)' = Batches(q)
    BY <1>7 DEF Batches
  <2> QED
    BY <1>2, <1>3, <1>9, <2>1, SameAt
<1>11. Unanswered(m) = {}
  BY <1>1 DEF EagerInv, OneOrder
<1>12. n + 1 # 1 \/ manager[m].pc = "get"
  <2>1. CASE s = <<>>
    BY <1>6, <2>1 DEF IInv, ManagersWork, EInv, ManagersRest
  <2>2. CASE s # <<>>
    <3>1. n > 0
      BY <1>6, <2>2
    <3> QED
      BY <3>1
  <2> QED
    BY <2>1, <2>2
<1>13. Unanswered(m)' = {n + 1}
  <2>1. n + 1 \in Unanswered(m)'
    BY <1>2, <1>5, <1>8, <1>12 DEF Unanswered, Batches
  <2>2. ASSUME NEW k \in Unanswered(m)', k \in 1 .. n PROVE FALSE
    <3>1. k \in Unanswered(m)
      BY <1>2, <1>6, <1>8, <2>2 DEF Unanswered, Batches
    <3> QED
      BY <1>11, <3>1
  <2>3. \A k \in Unanswered(m)' : k \in 1 .. n + 1
    BY <1>8 DEF Unanswered, Batches
  <2> QED
    BY <1>8, <2>1, <2>2, <2>3
<1>14. Owed(m)' = Owed(m)
  <2>1. Untaken(m) /\ Untaken(m)'
    BY <1>1, <1>2, <1>12, <1>13 DEF Untaken
  <2> QED
    BY <1>9, <2>1 DEF Owed
<1>15. Places'
  BY <1>2, <1>3 DEF EagerInv, Places
<1>16. OneOrder'
  <2>1. \A k \in Unanswered(m)' : /\ m \notin inserter'.todo
                                  /\ \A j \in Unanswered(m)' : j = k
                                  /\ control'[m][k].batch = Message'.batch
    BY <1>3, <1>5, <1>8, <1>9, <1>13
  <2>2. \A q \in Managers \ {m} : \A k \in Unanswered(q)' :
          /\ q \notin inserter'.todo /\ \A j \in Unanswered(q)' : j = k
          /\ control'[q][k].batch = Message'.batch
    BY <1>3, <1>7, <1>9, <1>10 DEF EagerInv, OneOrder
  <2> QED
    BY <2>1, <2>2 DEF OneOrder
<1>17. AllReply'
  <2>1. Owing' = Owing
    BY <1>1, <1>3, <1>10, <1>13 DEF Owing
  <2> QED
    BY <1>2, <1>3, <2>1 DEF EagerInv, AllReply
<1>18. asked' <=> Wishes'
  BY <1>2, <1>3 DEF EagerInv, Wishes
<1>19. Sums'
  <2>1. Announced' = Announced
    BY <1>2, <1>3, <1>9 DEF Announced
  <2>2. [q \in Managers |-> inserted'[q] + Owed(q)'] = [q \in Managers |-> inserted[q] + Owed(q)]
    BY <1>2, <1>10, <1>14
  <2> QED
    BY <2>1, <2>2 DEF EagerInv, Sums
<1> QED
  BY <1>15, <1>16, <1>17, <1>18, <1>19 DEF EagerInv

LEMMA InserterNextEager ==
  ASSUME IInv, EInv, Locals, EagerInv, ~lazy, InserterNext
  PROVE  EagerInv'
<1> DEFINE Same(pc) == inserter' = [inserter EXCEPT !.pc = pc]
           Rest == UNCHANGED <<replies, asked, manager, control, inserted>>
<1>1. CASE Receive
  BY <1>1, ReceiveEager
<1>2. ~PutCounter
  BY DEF PutCounter, EagerInv, Places
<1>3. CASE Forward
  BY <1>3, ForwardEager
<1>4. CASE Forwarded
  <2>1. Same("wait") /\ Rest /\ inserter.pc = "forward" /\ UNCHANGED inbox
    BY <1>4 DEF Forwarded, rings
  <2> QED
    BY <2>1, PcEager
<1>5. CASE ReceiveReply
  BY <1>5, ReceiveReplyEager
<1>6. CASE Decide
  BY <1>6, DecideEager
<1>7. CASE Executed
  <2>1. PICK pc \in {"notify", "done"} : Same(pc)
    BY <1>7 DEF Executed
  <2>2. Rest /\ inserter.pc = "executing"
    BY <1>7 DEF Executed, rings
  <2> QED
    BY <2>1, <2>2, PcEager
<1>8. CASE Release
  <2>1. PICK pc \in {"get", "shutdown", "finished"} : Same(pc)
    BY <1>8 DEF Release
  <2>2. Rest /\ inserter.pc = "done"
    BY <1>8 DEF Release, rings
  <2> QED
    BY <2>1, <2>2, PcEager
<1>9. CASE NotifyWriter \/ ResultsWritten \/ StopWriter
  <2>1. PICK pc \in {"results", "done", "finished"} : Same(pc)
    BY <1>9 DEF NotifyWriter, ResultsWritten, StopWriter, Meet
  <2>2. Rest /\ inserter.pc \in {"notify", "results", "shutdown"}
    BY <1>9 DEF NotifyWriter, ResultsWritten, StopWriter, Meet, rings
  <2> QED
    BY <2>1, <2>2, PcEager
<1> QED
  BY <1>1, <1>2, <1>3, <1>4, <1>5, <1>6, <1>7, <1>8, <1>9 DEF InserterNext

(* All of it together.                                                     *)
LEMMA WholeFrame ==
  ASSUME IInv, EInv, WInv,
         UNCHANGED <<lazy, provider, inbox, inserter, data, control, manager, replies,
                     main, inserted, asked>>,
         writer' = writer \/ writer = "writing"
  PROVE  WInv'
<1>1. Locals' /\ Waits'
  BY OthersWait DEF WInv
<1>2. AsAnnounced'
  BY DEF WInv, AsAnnounced, BatchOf
<1>3. ~lazy => EagerInv'
  <2>1. Message' = Message /\ \A n \in Managers : Batches(n)' = Batches(n)
    BY DEF Message, Batches
  <2> QED
    BY <2>1, OthersEager DEF WInv
<1> QED
  BY <1>1, <1>2, <1>3 DEF WInv

LEMMA ProviderNextWhole ==
  ASSUME IInv, IInv', EInv, WInv, NEW p \in Providers, ProviderNext(p)
  PROVE  WInv'
<1>1. /\ UNCHANGED <<lazy, inserter, writer, control, manager, replies, main, inserted,
                     asked>>
      /\ inbox # <<>> => Message' = Message
  <2>1. CASE ReadEdge(p) \/ InsertionFinished(p) \/ PutData(p)
    BY <2>1 DEF ReadEdge, InsertionFinished, PutData, PutDataOf, rings, Message
  <2>2. CASE Announce(p)
    <3>1. PICK x : x = [batch |-> BatchOf(p), shutdown |-> provider[p].final,
                        edges |-> provider[p].batch]
      OBVIOUS
    <3>2. inbox # <<>> => Head(inbox') = Head(inbox)
      <4>1. provider[p] \in ProviderRecords
        BY DEF IInv, Shapes
      <4>2. x \in Announcements
        BY <3>1, <4>1, BatchesOf DEF Announcements, ProviderRecords
      <4>3. inbox' = Append(inbox, x) /\ inbox \in Seq(Announcements)
        BY <2>2, <3>1 DEF Announce, AnnounceIf, IInv, Shapes, RingShapes
      <4> QED
        BY <4>2, <4>3
    <3> QED
      BY <2>2, <3>2 DEF Announce, AnnounceIf, rings, Message
  <2> QED
    BY <2>1, <2>2 DEF ProviderNext
<1>2. Locals' /\ Waits'
  BY <1>1, OthersWait DEF WInv
<1>3. AsAnnounced'
  BY ReadEdgeMatches, InsertionFinishedMatches, PutDataMatches, AnnounceMatches
     DEF WInv, ProviderNext
<1>4. ~lazy => EagerInv'
  <2>1. \A n \in Managers : Batches(n)' = Batches(n)
    BY <1>1 DEF Batches
  <2> QED
    BY <1>1, <2>1, OthersEager DEF WInv
<1> QED
  BY <1>1, <1>2, <1>3, <1>4 DEF WInv

LEMMA InserterNextWhole ==
  ASSUME IInv, EInv, WInv, InserterNext
  PROVE  WInv'
<1>1. Locals' /\ Waits'
  BY InserterNextWaits DEF WInv
<1>2. AsAnnounced'
  <2>1. CASE Release
    BY <2>1, ReleaseMatches DEF WInv
  <2>2. CASE ~Release
    <3>1. UNCHANGED <<provider, inbox, data>>
      BY <2>2 DEF InserterNext, Receive, PutCounter, Forward, Forwarded, ReceiveReply,
         Decide, Executed, NotifyWriter, ResultsWritten, StopWriter, Meet, rings
    <3> QED
      BY <3>1 DEF WInv, AsAnnounced, BatchOf
  <2> QED
    BY <2>1, <2>2
<1>3. UNCHANGED lazy
  BY DEF InserterNext, Receive, PutCounter, Forward, Forwarded, ReceiveReply, Decide,
     Executed, Release, NotifyWriter, ResultsWritten, StopWriter, Meet
<1> QED
  BY <1>1, <1>2, <1>3, InserterNextEager DEF WInv

LEMMA ManagerNextWhole ==
  ASSUME IInv, IInv', EInv, WInv, NEW m \in Managers, ManagerNext(m)
  PROVE  WInv'
<1>1. Locals' /\ Waits'
  BY ManagerNextWaits DEF WInv
<1>2. AsAnnounced'
  <2>1. CASE ReleaseBatch(m)
    BY <2>1, ReleaseBatchMatches DEF WInv
  <2>2. CASE ~ReleaseBatch(m)
    <3>1. UNCHANGED <<provider, inbox, data>>
      BY <2>2 DEF ManagerNext, GetOrder, Insert, InsertInto, Delete, Reply, CountDown,
         Notify, ingest, rings
    <3> QED
      BY <3>1 DEF WInv, AsAnnounced, BatchOf
  <2> QED
    BY <2>1, <2>2
<1>3. UNCHANGED lazy
  BY DEF ManagerNext, GetOrder, Insert, InsertInto, Delete, Reply, CountDown, Notify,
     ReleaseBatch
<1> QED
  BY <1>1, <1>2, <1>3, ManagerNextEager DEF WInv

LEMMA MainNextWhole ==
  ASSUME IInv, EInv, WInv, MainNext
  PROVE  WInv'
<1>1. Locals' /\ Waits'
  BY MainWaits DEF WInv
<1>2. UNCHANGED <<lazy, provider, inbox, inserter, data, manager, replies, inserted, asked>>
  BY DEF MainNext, JoinInserter, StopManager, JoinManagers, StopExecutor, Destroy,
     ingest, rings
<1>3. AsAnnounced'
  BY <1>2 DEF WInv, AsAnnounced, BatchOf
<1>4. \A n \in Managers : /\ Batches(n)' = Batches(n)
                          /\ \A k \in Batches(n) : control'[n][k] = control[n][k]
  <2>1. CASE ~StopManager
    <3>1. UNCHANGED control
      BY <2>1 DEF MainNext, JoinInserter, JoinManagers, StopExecutor, Destroy, rings
    <3> QED
      BY <3>1 DEF Batches
  <2> QED
    BY <2>1, StopManagerBatches
<1>5. ~lazy => EagerInv'
  <2>1. Message' = Message
    BY <1>2 DEF Message
  <2> QED
    BY <1>2, <1>4, <2>1, OthersEager DEF WInv
<1> QED
  BY <1>1, <1>2, <1>3, <1>5 DEF WInv

LEMMA InitWhole == Init => WInv
<1> SUFFICES ASSUME Init PROVE WInv
    OBVIOUS
<1>1. IInv /\ EInv
  BY InitHolds, InitConserves
<1>2. Locals
  <2>1. lazy \in BOOLEAN
    BY ConstantsAssumption DEF Init
  <2>2. replies = <<>> /\ <<>> \in Seq(BOOLEAN)
    BY DEF Init
  <2>3. main = [pc |-> main.pc, todo |-> main.todo]
    BY DEF Init
  <2>4. /\ asked = FALSE /\ inserter.awaited = 0 /\ inserter.edges = 0
        /\ inserter.reexecute = FALSE
    BY DEF Init
  <2>5. asked \in BOOLEAN /\ inserter.reexecute \in BOOLEAN
    BY <2>4
  <2>6. inserter.awaited \in Nat /\ inserter.edges \in Int
    BY <2>4
  <2>7. replies \in Seq(BOOLEAN)
    BY <2>2
  <2> QED
    BY <2>1, <2>3, <2>5, <2>6, <2>7 DEF Locals
<1>3. Waits /\ AsAnnounced
  BY DEF Init, Waits, AsAnnounced
<1>4. \A m \in Managers : /\ m \notin inserter.todo /\ Unanswered(m) = {}
                          /\ manager[m].pc = "get"
                          /\ inserted[m] = 0 /\ Owed(m) = 0
  BY DEF Init, Unanswered, Batches, Owed, Untaken, Zero
<1>5. /\ inserter.pc = "get" /\ inserter.awaited = 0 /\ inserter.edges = 0
      /\ ~inserter.reexecute /\ replies = <<>> /\ ~asked
  BY DEF Init
<1>6. Places /\ OneOrder
  BY <1>4, <1>5 DEF Places, OneOrder
<1>7. AllReply
  <2>1. Owing = {}
    BY <1>4 DEF Owing
  <2> QED
    BY <1>5, <2>1, FS_EmptySet DEF AllReply
<1>8. asked <=> Wishes
  BY <1>4, <1>5 DEF Wishes
<1>9. Sums
  <2>1. PICK f : f = [m \in Managers |-> inserted[m] + Owed(m)]
    OBVIOUS
  <2>2. f \in [Managers -> Int] /\ \A m \in Managers : f[m] = 0
    BY <1>4, <2>1
  <2>3. Total(f) = 0
    BY <2>2, SumZero, ConstantsAssumption DEF Total
  <2> QED
    BY <1>5, <2>1, <2>3 DEF Sums, Announced
<1> QED
  BY <1>2, <1>3, <1>6, <1>7, <1>8, <1>9 DEF WInv, EagerInv

LEMMA NextWhole == IInv /\ IInv' /\ EInv /\ WInv /\ [Next]_vars => WInv'
<1> SUFFICES ASSUME IInv, IInv', EInv, WInv, [Next]_vars PROVE WInv'
    OBVIOUS
<1>1. ASSUME NEW p \in Providers, ProviderNext(p) PROVE WInv'
  BY <1>1, ProviderNextWhole
<1>2. CASE InserterNext
  BY <1>2, InserterNextWhole
<1>3. ASSUME NEW m \in Managers, ManagerNext(m) PROVE WInv'
  BY <1>3, ManagerNextWhole
<1>4. CASE MainNext
  BY <1>4, MainNextWhole
<1>5. CASE WriteFile
  BY <1>5, WholeFrame DEF WriteFile, rings
<1>6. CASE ExecutorNext
  BY <1>6, WholeFrame DEF ExecutorNext, TakeNotice, ExecutorDone, ingest, rings
<1>7. CASE UNCHANGED vars
  BY <1>7, WholeFrame DEF vars, ingest, rings
<1> QED
  BY <1>1, <1>2, <1>3, <1>4, <1>5, <1>6, <1>7 DEF Next
-------------------------------------------------------------------------------
(* Whoever holds a pointer into a data ring, the provider that made it, the *)
(* EdgeInserter or a manager, holds one nobody else holds, to an element    *)
(* that has not been given back.                                            *)
THEOREM Invariant == Spec => []IInv
<1> QED
  BY InitHolds, NextKeeps, PTL DEF Spec

(* MetaTileManager::run follows message_pointer into its data ring without  *)
(* any check: the element is there, and is the one meant.                   *)
THEOREM PointersGood == Spec => []PointersValid
<1>1. IInv => PointersValid
  <2> SUFFICES ASSUME IInv, NEW m \in Managers, NEW k \in DOMAIN control[m],
                      ~control[m][k].shutdown
               PROVE  \E i \in DOMAIN data[m] : /\ data[m][i].batch = control[m][k].batch
                                                /\ ~data[m][i].done
    BY DEF PointersValid
  <2>1. control[m] \in Seq(Orders) /\ data[m] \in Seq(Elements)
    BY DEF IInv, Shapes, RingShapes
  <2>2. DOMAIN control[m] = 1 .. Len(control[m]) /\ DOMAIN data[m] = 1 .. Len(data[m])
    BY <2>1
  <2>3. k \in Batches(m)
    BY <2>2 DEF Batches
  <2> QED
    BY <2>2, <2>3 DEF IInv, ManagersHold, Delivered
<1> QED
  BY <1>1, Invariant, PTL
(* On its way from the reader through the batch, the data ring and the     *)
(* manager to a tile no edge is lost and none is inserted twice.           *)
THEOREM NoEdgeLost == Spec => []EdgesConserved
<1>1. EInv => EdgesConserved
  BY DEF EInv
<1> QED
  BY <1>1, Invariant, InitConserves, NextConserves, PTL DEF Spec

(* In the eager mode the graph stands still from the decision to run the    *)
(* algorithm until its results are written; it has the edges executeAlgorithm *)
(* is told of, and the algorithm starts afresh if and only if a deletion of *)
(* the batch asked for it.                                                  *)
THEOREM WholeBatchesOnly == Spec => []WholeBatches
<1>1. IInv /\ EInv /\ WInv => WholeBatches
  <2> SUFFICES ASSUME IInv, EInv, WInv,
                      \/ inserter.pc \in {"executing", "notify", "results"}
                      \/ writer = "writing"
               PROVE  /\ \A m \in Managers : manager[m].pc \in {"get", "release"}
                      /\ inserter.edges = Total(inserted)
                      /\ inserter.reexecute = asked
      BY DEF WholeBatches
  <2>1. inserter.pc \in {"executing", "notify", "results"}
    BY DEF WInv, Waits
  <2>2. Locals /\ EagerInv /\ inserter.awaited = 0
    BY <2>1 DEF WInv, Waits, EagerInv, Places
  <2>3. /\ Len(replies) = 0
        /\ \A m \in Managers : /\ manager[m].pc \in {"get", "release", "finished"}
                               /\ Owed(m) = 0
    BY <2>2, Quiet
  <2>4. ASSUME NEW m \in Managers PROVE manager[m].pc # "finished"
    <3>1. SUFFICES ASSUME manager[m].pc = "finished" PROVE FALSE
      OBVIOUS
    <3>2. control[m] # <<>> /\ control[m][1].shutdown
      BY <3>1 DEF EInv, ManagersRest
    <3>3. 1 \in 1 .. Len(control[m])
      BY <3>2 DEF IInv, Shapes, RingShapes
    <3> QED
      BY <2>1, <3>2, <3>3 DEF WInv, Waits
  <2>5. inserter.edges = Total(inserted)
    <3>1. inserted \in [Managers -> Nat]
      BY DEF EInv
    <3>2. \A m \in Managers : inserted[m] + Owed(m) = inserted[m]
      BY <2>3, <3>1
    <3>3. [m \in Managers |-> inserted[m] + Owed(m)] = inserted
      BY <3>1, <3>2
    <3>4. PICK e \in Int : e = inserter.edges
      BY DEF WInv, Locals
    <3> QED
      BY <2>1, <2>2, <3>3, <3>4 DEF EagerInv, Sums, Announced
  <2>6. inserter.reexecute = asked
    <3>1. asked <=> inserter.reexecute
      BY <2>2, <2>3 DEF EagerInv, Wishes
    <3> QED
      BY <2>2, <3>1 DEF Locals
  <2> QED
    BY <2>3, <2>4, <2>5, <2>6
<1> QED
  BY <1>1, Invariant, InitConserves, NextConserves, InitWhole, NextWhole, PTL DEF Spec
================================================================================
