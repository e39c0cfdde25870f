------------------------------- MODULE Ingestion -------------------------------
(***************************************************************************)
(* The way of an edge into the graph, and the decision to run the          *)
(* algorithm.  Edge providers collect a batch, put the edges for each      *)
(* MetaTileManager into that manager's data ring and announce the batch to *)
(* the EdgeInserter, which forwards the announcements.  The managers       *)
(* insert.  In the eager mode they reply and the EdgeInserter runs the     *)
(* algorithm between two batches; in the lazy mode the last manager of a   *)
(* batch notifies the ContinuousAlgorithmExecutor.  After an eager run the *)
(* ResultsWriter may write the results.  The main thread shuts everything  *)
(* down.                                                                   *)
(*                                                                         *)
(* A ring buffer is the sequence of its elements in use (RingBuffer shows  *)
(* that this is what it promises); the room of a ring is the number of     *)
(* elements it holds.  A blocking put waits for room.                      *)
(***************************************************************************)
EXTENDS Integers, Sequences, FiniteSets, Functions

CONSTANTS
  Providers,         \* one per edge reader
  Managers,          \* ids of the MetaTileManagers
  EdgesPerProvider,  \* edges each reader reads
  BatchSize,         \* batch_insertion_count
  LazyModes,         \* the values enable_lazy_algorithm may have
  Deletions,         \* deletion_percentage > 0
  MinEdges,          \* min_count_edges_algorithm
  WriteResults,      \* enable_write_results
  DataRoom,          \* elements that fit into a data ring
  ControlRoom,       \* elements that fit into any other ring but the next
  CountRooms         \* how many counters may fit into the meta_tile_sync ring

ASSUME ConstantsAssumption ==
  /\ IsFiniteSet(Providers) /\ Providers # {}
  /\ IsFiniteSet(Managers) /\ Managers # {} /\ Managers \subseteq Nat
  /\ EdgesPerProvider \in [Providers -> Nat] /\ MinEdges \in Nat
  /\ {BatchSize, DataRoom, ControlRoom} \cup CountRooms \subseteq Nat \ {0}
  /\ LazyModes \subseteq BOOLEAN /\ {Deletions, WriteResults} \subseteq BOOLEAN

NoBatch == <<>>   \* no counter, in the eager mode and in a shutdown message

VARIABLES
  lazy,       \* enable_lazy_algorithm, read-only
  provider,   \* of each provider: its place, edges left, the batch it builds
  inbox,      \* control ring of the EdgeInserter
  inserter,   \* the EdgeInserter's place and local variables
  writer,     \* place of its ResultsWriter
  data,       \* data ring of each manager
  control,    \* control ring of each manager
  manager,    \* each manager's place and local variables
  replies,    \* edge_inserter_sync ring, eager mode
  counters,   \* meta_tile_manager_sync ring and its room, lazy mode
  notices,    \* ring of the ContinuousAlgorithmExecutor, lazy mode
  executor,   \* its place
  main,       \* place of the main thread, and the managers it has to stop
  inserted,   \* edges each manager has inserted into its tiles
  seen,       \* history: edges in the graph when the last run started
  asked       \* history: somebody asked for re-execution since the last batch

ingest == <<provider, inbox, inserter, writer>>
rings == <<data, control, replies, counters, notices>>
vars == <<lazy, ingest, rings, manager, executor, main, inserted, seen, asked>>

Total(f) == SumFunction(f)
AllEdges == Total(EdgesPerProvider)
Zero == [m \in Managers |-> 0]
IsLeast(m, S) == m \in S /\ \A k \in S : m <= k

Init ==
  /\ lazy \in LazyModes
  /\ provider = [p \in Providers |->
       [pc |-> "read", left |-> EdgesPerProvider[p], batch |-> Zero,
        sent |-> {}, number |-> 0, final |-> FALSE]]
  /\ inbox = <<>>
  /\ inserter = [pc |-> "get", shutdowns |-> 0, todo |-> {}, awaited |-> 0,
                 edges |-> 0, reexecute |-> FALSE]
  /\ writer = "barrier"
  /\ data = [m \in Managers |-> <<>>]
  /\ control = [m \in Managers |-> <<>>]
  /\ manager =
       [m \in Managers |-> [pc |-> "get", left |-> 0, reexecute |-> FALSE]]
  /\ replies = <<>>
  /\ counters \in [room : CountRooms, ring : {<<>>}]
  /\ notices = <<>>
  /\ executor = "get"
  /\ main = [pc |-> "join", todo |-> Managers]
  /\ inserted = Zero
  /\ seen = 0
  /\ asked = FALSE

(* Elements at the old end of a ring leave once they are done. *)
Reclaim(ring) ==
  LET gone == {i \in DOMAIN ring : \A j \in 1 .. i : ring[j].done}
  IN  SubSeq(ring, Cardinality(gone) + 1, Len(ring))

SetDone(ring, batch) ==
  Reclaim([i \in DOMAIN ring |->
             IF ring[i].batch = batch THEN [ring[i] EXCEPT !.done = TRUE]
             ELSE ring[i]])
-------------------------------------------------------------------------------
(* Edge providers. *)

Unsent(p) == {m \in Managers : provider[p].batch[m] > 0} \ provider[p].sent
BatchOf(p) == <<p, provider[p].number>>

(* addEdge: the tile of the edge decides on its manager. *)
ReadEdge(p) ==
  /\ provider[p].pc = "read"
  /\ provider[p].left > 0
  /\ \E m \in Managers :
       LET batch == [provider[p].batch EXCEPT ![m] = @ + 1]
       IN  provider' = [provider EXCEPT
             ![p].left = @ - 1, ![p].batch = batch,
             ![p].pc = IF Total(batch) >= BatchSize THEN "send" ELSE "read"]
  /\ UNCHANGED <<lazy, inbox, inserter, writer, rings, manager, executor, main,
                 inserted, seen, asked>>

InsertionFinished(p) ==
  /\ provider[p].pc = "read"
  /\ provider[p].left = 0
  /\ provider' = [provider EXCEPT ![p].pc = "send", ![p].final = TRUE]
  /\ UNCHANGED <<lazy, inbox, inserter, writer, rings, manager, executor, main,
                 inserted, seen, asked>>

PutDataOf(p, m) ==
  /\ provider[p].pc = "send"
  /\ m \in Unsent(p)
  /\ Len(data[m]) < DataRoom
  /\ data' = [data EXCEPT ![m] = Append(@,
       [batch |-> BatchOf(p), edges |-> provider[p].batch[m], done |-> FALSE])]
  /\ provider' = [provider EXCEPT ![p].sent = @ \cup {m}]
  /\ UNCHANGED <<lazy, inbox, inserter, writer, control, replies, counters, notices,
                 manager, executor, main, inserted, seen, asked>>

PutDataAnyOrder(p) ==   \* mutant: providers fill the rings in any order
  \E m \in Managers : PutDataOf(p, m)

(* One data message per manager that has edges in the batch, by rising id. *)
PutData(p) == \E m \in Managers : IsLeast(m, Unsent(p)) /\ PutDataOf(p, m)

(* The MetaEdgeInserterMessage lists where the edges are. *)
AnnounceIf(p, ready) ==
  /\ provider[p].pc = "send"
  /\ ready
  /\ Len(inbox) < ControlRoom
  /\ inbox' = Append(inbox, [batch |-> BatchOf(p), shutdown |-> provider[p].final,
       edges |-> provider[p].batch])
  /\ provider' = [provider EXCEPT
       ![p].pc = IF provider[p].final THEN "finished" ELSE "read",
       ![p].batch = Zero, ![p].sent = {}, ![p].number = @ + 1]
  /\ UNCHANGED <<lazy, inserter, writer, rings, manager, executor, main, inserted,
                 seen, asked>>

AnnounceEarly(p) == AnnounceIf(p, TRUE)   \* mutant: overtakes the data

Announce(p) == AnnounceIf(p, Unsent(p) = {})
-------------------------------------------------------------------------------
(* EdgeInserter. *)

Message == Head(inbox)
Addressees(msg) == {m \in Managers : msg.edges[m] > 0}

Receive ==
  /\ inserter.pc = "get"
  /\ inbox # <<>>
  /\ inserter' = [inserter EXCEPT
       !.pc = IF lazy THEN "count" ELSE "forward",
       !.shutdowns = @ + IF Message.shutdown THEN 1 ELSE 0,
       !.todo = Addressees(Message), !.awaited = Cardinality(Addressees(Message)),
       !.reexecute = FALSE]
  /\ asked' = FALSE
  /\ UNCHANGED <<lazy, provider, inbox, writer, rings, manager, executor, main,
                 inserted, seen>>

(* The number of managers that got a part of the batch. *)
PutCounter ==
  /\ inserter.pc = "count"
  /\ Len(counters.ring) < counters.room
  /\ counters' = [counters EXCEPT !.ring = Append(@,
       [batch |-> Message.batch, count |-> inserter.awaited, done |-> FALSE])]
  /\ inserter' = [inserter EXCEPT !.pc = "forward"]
  /\ UNCHANGED <<lazy, provider, inbox, writer, data, control, replies, notices,
                 manager, executor, main, inserted, seen, asked>>

(* One EdgeInserterControlMessage per manager named in the announcement. *)
Forward ==
  /\ inserter.pc = "forward"
  /\ \E m \in Managers :
       /\ IsLeast(m, inserter.todo)
       /\ Len(control[m]) < ControlRoom
       /\ control' = [control EXCEPT ![m] = Append(@,
            [batch |-> Message.batch, shutdown |-> FALSE,
             counter |-> IF lazy THEN Message.batch ELSE NoBatch])]
       /\ inserter' = [inserter EXCEPT !.todo = @ \ {m}]
  /\ UNCHANGED <<lazy, provider, inbox, writer, data, replies, counters, notices,
                 manager, executor, main, inserted, seen, asked>>

Forwarded ==
  /\ inserter.pc = "forward"
  /\ inserter.todo = {}
  /\ inserter' = [inserter EXCEPT !.pc = IF lazy THEN "done" ELSE "wait"]
  /\ UNCHANGED <<lazy, provider, inbox, writer, rings, manager, executor, main,
                 inserted, seen, asked>>

(* One reply per manager; each may ask for re-execution. *)
ReceiveReply ==
  /\ inserter.pc = "wait"
  /\ inserter.awaited > 0
  /\ replies # <<>>
  /\ inserter' = [inserter EXCEPT !.awaited = @ - 1,
                                  !.reexecute = @ \/ Head(replies)]
  /\ replies' = Tail(replies)
  /\ UNCHANGED <<lazy, provider, inbox, writer, data, control, counters, notices,
                 manager, executor, main, inserted, seen, asked>>

(* All replies are in: run the algorithm if the graph is large enough. *)
Decide ==
  /\ inserter.pc = "wait"
  /\ inserter.awaited = 0
  /\ LET edges == inserter.edges + Total(Message.edges)
     IN  /\ inserter' = [inserter EXCEPT !.edges = edges,
              !.pc = IF edges >= MinEdges THEN "executing" ELSE "done"]
         /\ seen' = IF edges >= MinEdges THEN Total(inserted) ELSE seen
  /\ UNCHANGED <<lazy, provider, inbox, writer, rings, manager, executor, main,
                 inserted, asked>>

Executed ==
  /\ inserter.pc = "executing"
  /\ inserter' = [inserter EXCEPT !.pc = IF WriteResults THEN "notify" ELSE "done"]
  /\ UNCHANGED <<lazy, provider, inbox, writer, rings, manager, executor, main,
                 inserted, seen, asked>>

(* Both are at the barrier of the ResultsWriter and go on.  The writer      *)
(* tests shutdown_ before the EdgeInserter, whose frame it is in, is gone.  *)
Meet(here, there, inserterNext, writerNext) ==
  /\ inserter.pc = here /\ writer = there
  /\ inserter' = [inserter EXCEPT !.pc = inserterNext]
  /\ writer' = writerNext
  /\ UNCHANGED <<lazy, provider, inbox, rings, manager, executor, main, inserted,
                 seen, asked>>

NotifyOnce ==   \* mutant: does not wait for completion
  Meet("notify", "barrier", "done", "writing")

NotifyWriter == Meet("notify", "barrier", "results", "writing")
ResultsWritten == Meet("results", "written", "done", "barrier")
StopWriter == Meet("shutdown", "barrier", "finished", "finished")

(* The file of this run. *)
WriteFile ==
  /\ writer = "writing"
  /\ writer' = "written"
  /\ UNCHANGED <<lazy, provider, inbox, inserter, rings, manager, executor, main,
                 inserted, seen, asked>>

(* set_done, and the end of the loop once every provider has shut down. *)
Release ==
  /\ inserter.pc = "done"
  /\ inbox' = Tail(inbox)
  /\ inserter' = [inserter EXCEPT !.pc =
       IF inserter.shutdowns < Cardinality(Providers) THEN "get"
       ELSE IF WriteResults THEN "shutdown" ELSE "finished"]
  /\ UNCHANGED <<lazy, provider, writer, rings, manager, executor, main, inserted,
                 seen, asked>>

-------------------------------------------------------------------------------
(* MetaTileManagers. *)

Order(m) == Head(control[m])
Place(m, pc) == manager' = [manager EXCEPT ![m].pc = pc]

GetOrder(m) ==
  /\ manager[m].pc = "get"
  /\ control[m] # <<>>
  /\ \/ /\ Order(m).shutdown
        /\ Place(m, "finished")
     \/ /\ ~Order(m).shutdown
        /\ \E i \in DOMAIN data[m] :   \* message_pointer
             /\ data[m][i].batch = Order(m).batch
             /\ manager' = [manager EXCEPT ![m] =
                  [pc |-> "insert", left |-> data[m][i].edges, reexecute |-> FALSE]]
  /\ UNCHANGED <<lazy, ingest, rings, executor, main, inserted, seen, asked>>

InsertInto(m, edges) ==
  /\ manager[m].pc = "insert"
  /\ manager[m].left > 0
  /\ inserted' = [inserted EXCEPT ![m] = @ + edges]
  /\ manager' = [manager EXCEPT ![m].left = @ - 1]
  /\ UNCHANGED <<lazy, ingest, rings, executor, main, seen, asked>>

InsertAllButOne(m) ==   \* mutant: skips the last edge of a batch
  InsertInto(m, IF manager[m].left > 1 THEN 1 ELSE 0)

(* insertEdge and edgeChanged. *)
Insert(m) == InsertInto(m, 1)

(* The deletions of a batch may ask for the algorithm to start afresh. *)
Delete(m) ==
  /\ manager[m].pc = "insert"
  /\ manager[m].left = 0
  /\ \E reexecute \in {FALSE, Deletions} :
       /\ manager' = [manager EXCEPT
            ![m].pc = "report", ![m].reexecute = reexecute]
       /\ asked' = (asked \/ reexecute)
  /\ UNCHANGED <<lazy, ingest, rings, executor, main, inserted, seen>>

(* Eager mode: the EdgesInsertedMessage. *)
Reply(m) ==
  /\ manager[m].pc = "report" /\ ~lazy
  /\ Len(replies) < ControlRoom
  /\ replies' = Append(replies, manager[m].reexecute)
  /\ Place(m, "release")
  /\ UNCHANGED <<lazy, ingest, data, control, counters, notices, executor,
                 main, inserted, seen, asked>>

(* smp_faa(&count_item->count, -1) == 1 *)
CountDown(m) ==
  /\ manager[m].pc = "report" /\ lazy
  /\ \E i \in DOMAIN counters.ring :
       /\ counters.ring[i].batch = Order(m).counter
       /\ counters' = [counters EXCEPT !.ring[i].count = @ - 1]
       /\ Place(m, IF counters.ring[i].count = 1 THEN "notify" ELSE "release")
  /\ UNCHANGED <<lazy, ingest, data, control, replies, notices, executor, main,
                 inserted, seen, asked>>

(* The last manager wakes the executor and gives the counter back. *)
Notify(m) ==
  /\ manager[m].pc = "notify"
  /\ Len(notices) < ControlRoom
  /\ notices' = Append(notices, [shutdown |-> FALSE])
  /\ counters' = [counters EXCEPT !.ring = SetDone(@, Order(m).counter)]
  /\ Place(m, "release")
  /\ UNCHANGED <<lazy, ingest, data, control, replies, executor, main,
                 inserted, seen, asked>>

ReleaseBatch(m) ==
  /\ manager[m].pc = "release"
  /\ data' = [data EXCEPT ![m] = SetDone(@, Order(m).batch)]
  /\ control' = [control EXCEPT ![m] = Tail(@)]
  /\ Place(m, "get")
  /\ UNCHANGED <<lazy, ingest, replies, counters, notices, executor, main,
                 inserted, seen, asked>>
-------------------------------------------------------------------------------
(* The thread of the ContinuousAlgorithmExecutor, which runs in the lazy   *)
(* mode only.                                                              *)

TakeNotice ==
  /\ executor = "get"
  /\ notices # <<>>
  /\ IF Head(notices).shutdown
       THEN executor' = "leaving" /\ UNCHANGED seen
       ELSE executor' = "executing" /\ seen' = Total(inserted)
  /\ notices' = Tail(notices)
  /\ UNCHANGED <<lazy, ingest, data, control, replies, counters, manager, main,
                 inserted, asked>>

ExecutorDone ==
  /\ executor = "executing"
  /\ executor' = "get"
  /\ UNCHANGED <<lazy, ingest, rings, manager, main, inserted, seen, asked>>
-------------------------------------------------------------------------------
(* The end of execute(). *)

JoinInserter ==
  /\ main.pc = "join"
  /\ inserter.pc = "finished"
  /\ main' = [main EXCEPT !.pc = "stop"]
  /\ UNCHANGED <<lazy, ingest, rings, manager, executor, inserted, seen,
                 asked>>

StopManager ==
  /\ main.pc = "stop"
  /\ \E m \in Managers :
       /\ IsLeast(m, main.todo)
       /\ Len(control[m]) < ControlRoom
       /\ control' = [control EXCEPT ![m] = Append(@,
            [batch |-> NoBatch, shutdown |-> TRUE, counter |-> NoBatch])]
       /\ main' = [main EXCEPT !.todo = @ \ {m}]
  /\ UNCHANGED <<lazy, ingest, data, replies, counters, notices, manager,
                 executor, inserted, seen, asked>>

JoinManagers ==
  /\ main.pc = "stop" /\ main.todo = {}
  /\ \A m \in Managers : manager[m].pc = "finished"
  /\ main' = [main EXCEPT !.pc = IF lazy THEN "stopExecutor" ELSE "finished"]
  /\ UNCHANGED <<lazy, ingest, rings, manager, executor, inserted, seen,
                 asked>>

StopExecutor ==
  /\ main.pc = "stopExecutor"
  /\ Len(notices) < ControlRoom
  /\ notices' = Append(notices, [shutdown |-> TRUE])
  /\ main' = [main EXCEPT !.pc = "destroy"]
  /\ UNCHANGED <<lazy, ingest, data, control, replies, counters, manager,
                 executor, inserted, seen, asked>>

(* Both meet at the shutdown barrier. *)
Destroy ==
  /\ main.pc = "destroy"
  /\ executor = "leaving"
  /\ executor' = "finished"
  /\ main' = [main EXCEPT !.pc = "finished"]
  /\ UNCHANGED <<lazy, ingest, rings, manager, inserted, seen, asked>>

-------------------------------------------------------------------------------
ProviderNext(p) == ReadEdge(p) \/ InsertionFinished(p) \/ PutData(p) \/ Announce(p)

InserterNext ==
  \/ Receive \/ PutCounter \/ Forward \/ Forwarded
  \/ ReceiveReply \/ Decide \/ Executed \/ Release
  \/ NotifyWriter \/ ResultsWritten \/ StopWriter

ManagerNext(m) ==
  \/ GetOrder(m) \/ Insert(m) \/ Delete(m)
  \/ Reply(m) \/ CountDown(m) \/ Notify(m) \/ ReleaseBatch(m)

ExecutorNext == TakeNotice \/ ExecutorDone

MainNext ==
  JoinInserter \/ StopManager \/ JoinManagers \/ StopExecutor \/ Destroy

Next ==
  \/ \E p \in Providers : ProviderNext(p)
  \/ InserterNext
  \/ WriteFile
  \/ \E m \in Managers : ManagerNext(m)
  \/ ExecutorNext
  \/ MainNext

Spec == Init /\ [][Next]_vars

(* Every thread runs: none of them waits for anything but room in a ring,  *)
(* a message, the end of another thread or a barrier.                      *)
FairSpec ==
  /\ Spec
  /\ \A p \in Providers : WF_vars(ProviderNext(p))
  /\ WF_vars(InserterNext)
  /\ WF_vars(WriteFile)
  /\ \A m \in Managers : WF_vars(ManagerNext(m))
  /\ WF_vars(ExecutorNext)
  /\ WF_vars(MainNext)
-------------------------------------------------------------------------------

(* An order points into the data ring of its manager, at an element that   *)
(* nobody has released, until the manager itself releases it.              *)
PointersValid ==
  \A m \in Managers : \A k \in DOMAIN control[m] :
    ~control[m][k].shutdown =>
      \E i \in DOMAIN data[m] :
        data[m][i].batch = control[m][k].batch /\ ~data[m][i].done

(* Edges in the elements of a data ring, but those being inserted. *)
Taken(m) ==
  IF manager[m].pc # "get" /\ ~Order(m).shutdown THEN {Order(m).batch} ELSE {}
Waiting(ring, taken) ==
  Total([i \in DOMAIN ring |->
    IF ring[i].done \/ ring[i].batch \in taken THEN 0 ELSE ring[i].edges])

(* Edges of a batch that are not in the data ring of their manager. *)
Collected(batch, sent) ==
  Total([m \in Managers |-> IF m \in sent THEN 0 ELSE batch[m]])

(* No edge is lost or inserted twice on its way from the reader to a tile. *)
EdgesConserved ==
  Total([p \in Providers |->
           provider[p].left + Collected(provider[p].batch, provider[p].sent)])
    + Total([m \in Managers |->
           Waiting(data[m], Taken(m)) + manager[m].left + inserted[m]])
  = AllEdges

(* Eager mode: while the algorithm runs, and until its results are in the   *)
(* file, nobody changes the graph.  It is exactly the batches received so   *)
(* far, as executeAlgorithm is told, and the algorithm starts afresh if and *)
(* only if a deletion of the last batch asked for it.                       *)
WholeBatches ==
  inserter.pc \in {"executing", "notify", "results"} \/ writer = "writing" =>
    /\ \A m \in Managers : manager[m].pc \in {"get", "release"}
    /\ inserter.edges = Total(inserted)
    /\ inserter.reexecute = asked

(* No message is left and the last run of the algorithm has seen every     *)
(* edge, if there are enough of them to run it.                            *)
NothingLeft ==
  /\ inbox = <<>> /\ replies = <<>> /\ notices = <<>>
  /\ \A m \in Managers : data[m] = <<>> /\ Len(control[m]) = 1
  /\ Total(inserted) = AllEdges
  /\ (IF lazy THEN Total(inserted) > 0 ELSE Total(inserted) >= MinEdges)
       => seen = Total(inserted)

(* A batch is empty if the ones before it have taken all edges of the       *)
(* provider: its last one, if they come out even.                           *)
IsEmpty(batch) == EdgesPerProvider[batch[1]] = batch[2] * BatchSize

(* The EdgeInserter waits for room for a counter, and the oldest one is of  *)
(* a batch that went to no manager: so no manager gives it back, nor, since *)
(* elements are reclaimed in order, any behind it.                          *)
Clogged ==
  /\ inserter.pc = "count"
  /\ Len(counters.ring) = counters.room
  /\ IsEmpty(counters.ring[1].batch)

(* execute() returns, however little the rings hold, and has then left      *)
(* nothing behind: a lost or miscounted message of any thread would keep    *)
(* another one waiting, or edges from the last run.  The one exception is   *)
(* the ring of counters: last batches without edges fill it up for good.    *)
Terminates == <>(main.pc = "finished" /\ NothingLeft) \/ <>[]Clogged
===============================================================================
