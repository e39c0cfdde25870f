------------------------------- MODULE EdgeReaders -------------------------------
(***************************************************************************)
(* Jobs and the edge readers they share.  The process runs several jobs,   *)
(* each with a graph, a vertex store and MetaTileManagers of its own.  The *)
(* readers share out the input file; a reader waits until every job has    *)
(* made its edge provider, then hands each edge to the providers of all    *)
(* jobs in turn and at the end tells them that insertion has finished.  A  *)
(* provider translates the ids if its job rewrites them, and sends batches *)
(* to the managers, or keeps all edges until every reader of the job has   *)
(* read its share (in-memory ingestion).                                   *)
(***************************************************************************)
EXTENDS VertexStore, JobOptions, FiniteSetsExt

CONSTANTS
  JobCount,      \* num_of_jobs_
  CommandLines,  \* what the process may be started with
  Input,         \* file_edges_map: pairs of originals
  Managers       \* ids of the MetaTileManagers of a job

Jobs == 1 .. JobCount
Parsed(line) == [j \in Jobs |-> Settings(LineOf(line, j))]

(* The readers share a VertexStore, so one job at most rewrites ids, and   *)
(* no job has more inserters than there are readers.  Tiles are shared out *)
(* modulo the number of managers, so there are some.                       *)
ASSUME JobsAssumption ==
  /\ JobCount \in Nat \ {0} /\ Originals \subseteq Nat
  /\ Input \in Seq(Originals \X Originals)
  /\ IsFiniteSet(Readers) /\ Readers = 1 .. Cardinality(Readers)
  /\ IsFiniteSet(Managers) /\ Managers = 0 .. Cardinality(Managers) - 1
  /\ Managers # {}
  /\ \A line \in CommandLines :
       LET accepted == {j \in Jobs : Parsed(line)[j].outcome = "accepted"}
           set == Parsed(line)
       IN  /\ JobsOf(line) = JobCount /\ ReadersOf(line) = Cardinality(Readers)
           /\ \A j \in accepted :
                /\ set[j].inserters \in 1 .. Cardinality(Readers)
                /\ set[j].managers = Cardinality(Managers)
                /\ {set[j].batch, set[j].tile} \subseteq Nat \ {0}
           /\ Cardinality({j \in accepted : set[j].rewriting}) <= 1

VARIABLES
  settings,  \* of each job; never change
  reader,    \* of each reader: its place, the edge and the job it is at
  kept,      \* edges_ of the provider of a reader and a job
  batch,     \* its size_current_batch_, and its temp_edges_ for each manager
  created,   \* edge_providers: how many each job has made
  arrived,   \* in_memory_barrier of each job: who waits or has passed
  announced, \* final batches each job's EdgeInserter has been sent
  queue      \* parts of batches on their way to each manager of a job

ids == <<current_id, translations, pc, original, translated, collided>>
reading == <<reader, kept, batch, arrived, announced>>

ReaderCount == Cardinality(Readers)   \* count_edge_inserters_ of Jobs
Inserters(j) == settings[j].inserters   \* edge_inserters_count

Having(j, option) == settings[j].outcome = "accepted" /\ settings[j][option]
InMemory == {j \in Jobs : Having(j, "inMemory")}

PerProvider(x) == [r \in Readers |-> [j \in Jobs |-> x]]
NoEdges == [size |-> 0, edges |-> [m \in Managers |-> <<>>]]
NewReaders == [r \in Readers |-> [at |-> "wait", edge |-> 0, job |-> 1, src |-> NoId]]

(* launch_edge_readers: the last reader takes what the division left.      *)
Share == Len(Input) \div ReaderCount
StartId(r) == (r - 1) * Share + 1
LastShare(r) == r * Share   \* mutant: the rest is not read

EndId(r) == IF r = ReaderCount THEN Len(Input) ELSE r * Share

ManagerOf(j, edge) ==
  LET size == settings[j].tile
  IN  (edge[1] \div size + edge[2] \div size) % Cardinality(Managers)

(* sendEdgesToTileManagers: a message for every manager with edges in it.  *)
Send(j, full) ==
  queue' = [queue EXCEPT ![j] = [m \in Managers |->
    IF full.edges[m] = <<>> THEN @[m] ELSE Append(@[m], full.edges[m])]]

(* processEdge *)
Process(r, j, edge) ==
  LET next == [size |-> batch[r][j].size + 1,
               edges |-> [batch[r][j].edges EXCEPT
                            ![ManagerOf(j, edge)] = Append(@, edge)]]
  IN  IF next.size >= settings[j].batch
      THEN batch' = [batch EXCEPT ![r][j] = NoEdges] /\ Send(j, next)
      ELSE batch' = [batch EXCEPT ![r][j] = next] /\ UNCHANGED queue

At(r, place) == reader[r].at = place

Start(r) ==
  /\ At(r, "wait")
  /\ \A j \in Jobs : created[j] >= r
  /\ reader' = [reader EXCEPT ![r].edge = StartId(r),
       ![r].at = IF StartId(r) <= EndId(r) THEN "edge" ELSE "finish"]
  /\ UNCHANGED <<settings, ids, kept, batch, created, arrived, announced, queue>>

(* The next job for this edge, the next edge, or the end of the share. *)
Advance(r) ==
  LET here == reader[r] IN
  reader' = [reader EXCEPT ![r] =
    IF here.job < JobCount THEN [here EXCEPT !.at = "edge", !.job = @ + 1]
    ELSE [here EXCEPT !.job = 1, !.edge = @ + 1,
            !.at = IF here.edge < EndId(r) THEN "edge" ELSE "finish"]]

(* addEdge, after the translation. *)
Add(r, edge) ==
  LET j == reader[r].job
  IN  /\ \/ /\ j \in InMemory
            /\ kept' = [kept EXCEPT ![r][j] = Append(@, edge)]
            /\ UNCHANGED <<batch, queue>>
         \/ /\ j \notin InMemory
            /\ Process(r, j, edge)
            /\ UNCHANGED kept
      /\ Advance(r)
      /\ UNCHANGED <<settings, ids, created, arrived, announced>>

AddEdge(r) ==
  /\ At(r, "edge") /\ ~Having(reader[r].job, "rewriting")
  /\ Add(r, Input[reader[r].edge])

TranslateSource(r) ==
  /\ At(r, "edge") /\ Having(reader[r].job, "rewriting")
  /\ Lookup(r, Input[reader[r].edge][1])
  /\ reader' = [reader EXCEPT ![r].at = "source"]
  /\ UNCHANGED <<settings, kept, batch, created, arrived, announced, queue>>

TranslateTarget(r) ==
  /\ At(r, "source") /\ pc[r] = "idle"
  /\ Lookup(r, Input[reader[r].edge][2])
  /\ reader' = [reader EXCEPT ![r].at = "target", ![r].src = translated[r]]
  /\ UNCHANGED <<settings, kept, batch, created, arrived, announced, queue>>

AddTranslated(r) ==
  /\ At(r, "target") /\ pc[r] = "idle"
  /\ Add(r, <<reader[r].src, translated[r]>>)

(* Within getTranslatedId. *)
Translate(r) ==
  /\ Draw(r) \/ Install(r) \/ Undo(r) \/ Reread(r)
  /\ UNCHANGED <<settings, reading, created, queue>>

(* insertionFinished waits at the barrier, or sends the final batch.       *)
FinishOrWait(r) ==
  /\ At(r, "finish")
  /\ LET j == reader[r].job
     IN  IF j \in InMemory
         THEN /\ arrived' = [arrived EXCEPT ![j] = @ \cup {r}]
              /\ reader' = [reader EXCEPT ![r].at = "barrier"]
         ELSE /\ reader' = [reader EXCEPT ![r].at = "final"]
              /\ UNCHANGED arrived
  /\ UNCHANGED <<settings, ids, kept, batch, created, announced, queue>>

FullEarly(j) == Cardinality(arrived[j]) >= Inserters(j)   \* mutant: one too few

FullLate(j) ==   \* mutant: the barrier waits for one thread more
  Cardinality(arrived[j]) > Inserters(j) + 1

(* The barrier counts the readers and the thread of the job, number 0.     *)
Full(j) == Cardinality(arrived[j]) = Inserters(j) + 1

Pass(r) ==
  /\ At(r, "barrier")
  /\ Full(reader[r].job)
  /\ reader' = [reader EXCEPT ![r].at = "flush"]
  /\ UNCHANGED <<settings, ids, kept, batch, created, arrived, announced, queue>>

Flush(r) ==
  LET j == reader[r].job IN
  /\ At(r, "flush")
  /\ IF kept[r][j] = <<>>
     THEN /\ reader' = [reader EXCEPT ![r].at = "final"]
          /\ UNCHANGED <<kept, batch, queue>>
     ELSE /\ Process(r, j, Head(kept[r][j]))
          /\ kept' = [kept EXCEPT ![r][j] = Tail(@)]
          /\ UNCHANGED reader
  /\ UNCHANGED <<settings, ids, created, arrived, announced>>

SendFinal(r) ==
  LET j == reader[r].job IN
  /\ At(r, "final")
  /\ Send(j, batch[r][j])
  /\ batch' = [batch EXCEPT ![r][j] = NoEdges]
  /\ announced' = [announced EXCEPT ![j] = @ + 1]
  /\ reader' = [reader EXCEPT
       ![r].at = IF j < JobCount THEN "finish" ELSE "done",
       ![r].job = IF j < JobCount THEN j + 1 ELSE 1]
  /\ UNCHANGED <<settings, ids, kept, created, arrived>>

ReaderStep(r) ==
  \/ Start(r) \/ AddEdge(r)
  \/ TranslateSource(r) \/ TranslateTarget(r) \/ Translate(r) \/ AddTranslated(r)
  \/ FinishOrWait(r) \/ Pass(r) \/ Flush(r) \/ SendFinal(r)
===============================================================================
