------------------------------- MODULE Persistence -------------------------------
(***************************************************************************)
(* Jobs from start to end, with edges written to disk and read back after  *)
(* a crash.  A MetaTileManager first inserts the backup, then handles the  *)
(* batches the readers send: it inserts the edges and puts a copy into the *)
(* ring of its EdgesWriter, which appends it to the manager's file.  The   *)
(* process may crash at any time; memory is lost, and a file has what was  *)
(* written, of the write in progress any part.                             *)
(***************************************************************************)
EXTENDS EdgeReaders, SequencesExt

CONSTANTS
  WriterRoom,   \* batches that fit into the ring of an EdgesWriter
  MaxCrashes    \* bound: crashes in a behaviour

ASSUME PersistenceAssumption ==
  WriterRoom \in Nat \ {0} /\ MaxCrashes \in Nat

VARIABLES
  process,   \* up, crashed, died (util::die) or exited
  restored,  \* enable_reading_edges of this process
  job,       \* place of the thread of each job
  manager,   \* place of each manager
  stored,    \* edges it has inserted, in order
  toWrite,   \* ring of its EdgesWriter
  written,   \* edges the writer has written since the process started
  disk,      \* its output file: edges_<id>
  backup,    \* its input file
  found,     \* history: what was in its output file when the process started
  crashes

files == <<disk, backup, found>>
managing == <<manager, stored, toWrite, written>>
system == <<process, restored, crashes, settings>>
jobsVars == <<ids, reading, created, queue, system, job, managing, files>>

PerManager(x) == [j \in Jobs |-> [m \in Managers |-> x]]
Persisting == {j \in Jobs : Having(j, "writing")}
Restoring(j) == restored /\ j \in Persisting

JobsInit ==
  /\ Init
  /\ reader = NewReaders
  /\ kept = PerProvider(<<>>) /\ batch = PerProvider(NoEdges)
  /\ created = [j \in Jobs |-> 0]
  /\ arrived = [j \in Jobs |-> {}]
  /\ announced = [j \in Jobs |-> 0]
  /\ queue = PerManager(<<>>)
  /\ process = "up" /\ restored = FALSE
  /\ \E line \in CommandLines : settings = Parsed(line)
  /\ job = [j \in Jobs |-> "parse"]
  /\ manager = PerManager("work")
  /\ stored = PerManager(<<>>) /\ toWrite = PerManager(<<>>)
  /\ written = PerManager(0)
  /\ disk = PerManager(<<>>) /\ backup = PerManager(<<>>) /\ found = PerManager(<<>>)
  /\ crashes = 0
-------------------------------------------------------------------------------
(* Threads of the jobs. *)

JobAt(j, place) == job[j] = place
JobGo(j, place) == job' = [job EXCEPT ![j] = place]

(* What boost throws ends the process; execute returns if its options do   *)
(* not parse, and makes no providers.                                      *)
ParseOptions(j) ==
  /\ JobAt(j, "parse")
  /\ \/ /\ settings[j].outcome = "throws"
        /\ process' = "died" /\ UNCHANGED job
     \/ /\ settings[j].outcome # "throws"
        /\ JobGo(j, IF settings[j].outcome = "accepted" THEN "create" ELSE "ended")
        /\ UNCHANGED process
  /\ UNCHANGED <<ids, reading, created, queue, restored, crashes, settings,
                 managing, files>>

(* Once the managers have read the backup, initEdgeGenerators makes one    *)
(* provider for each reader.                                               *)
CreateProvider(j) ==
  /\ JobAt(j, "create")
  /\ Restoring(j) => \A m \in Managers : manager[j][m] # "load"
  /\ created' = [created EXCEPT ![j] = @ + 1]
  /\ IF created[j] + 1 < Inserters(j) THEN UNCHANGED job
     ELSE JobGo(j, IF j \in InMemory THEN "barrier" ELSE "join")
  /\ UNCHANGED <<ids, reading, queue, system, managing, files>>

JobArrive(j) ==
  /\ JobAt(j, "barrier") /\ 0 \notin arrived[j]
  /\ arrived' = [arrived EXCEPT ![j] = @ \cup {0}]
  /\ UNCHANGED <<ids, reader, kept, batch, announced, created, queue, system,
                 job, managing, files>>

JobPass(j) ==
  /\ JobAt(j, "barrier") /\ Full(j)
  /\ JobGo(j, "join")
  /\ UNCHANGED <<ids, reading, created, queue, system, managing, files>>

Shutdown == <<>>   \* the message that is no batch

(* inserter.join, then meta_tile_store->join.                              *)
JobJoin(j) ==
  /\ JobAt(j, "join") /\ announced[j] = Inserters(j)
  /\ queue' = [queue EXCEPT ![j] = [m \in Managers |-> Append(@[m], Shutdown)]]
  /\ JobGo(j, "stop")
  /\ UNCHANGED <<ids, reading, created, system, managing, files>>

(* The managers are joined and deleted; their writers are not joined.      *)
JobEnd(j) ==
  /\ JobAt(j, "stop") /\ \A m \in Managers : manager[j][m] = "stopped"
  /\ JobGo(j, "ended")
  /\ UNCHANGED <<ids, reading, created, queue, system, managing, files>>

JobStep(j) ==
  ParseOptions(j) \/ CreateProvider(j) \/ JobArrive(j) \/ JobPass(j)
    \/ JobJoin(j) \/ JobEnd(j)
-------------------------------------------------------------------------------
(* MetaTileManagers and their EdgesWriters. *)

ManagerAt(j, m, place) == manager[j][m] = place
ManagerGo(j, m, place) == manager' = [manager EXCEPT ![j][m] = place]

LoadInto(j, m, ring) ==
  /\ JobAt(j, "create") /\ ManagerAt(j, m, "load")
  /\ IF backup[j][m] = <<>>
     THEN process' = "died" /\ UNCHANGED managing
     ELSE /\ stored' = [stored EXCEPT ![j][m] = backup[j][m]]
          /\ toWrite' = [toWrite EXCEPT ![j][m] = ring]
          /\ ManagerGo(j, m, "loaded")
          /\ UNCHANGED <<process, written>>
  /\ UNCHANGED <<ids, reading, created, queue, restored, crashes, settings, job,
                 files>>

LoadEchoed(j, m) ==   \* mutant: what is read back is persisted again
  LoadInto(j, m, <<backup[j][m]>>)

(* readEdgesFromFile; a file that is missing or empty ends the process:    *)
(* it cannot be closed, or not be mapped.                                  *)
Load(j, m) == LoadInto(j, m, toWrite[j][m])

(* read_edges_barrier, and the start of the writer.                        *)
Loaded(j, m) ==
  /\ ManagerAt(j, m, "loaded")
  /\ \A n \in Managers : ~ManagerAt(j, n, "load")
  /\ ManagerGo(j, m, "work")
  /\ UNCHANGED <<ids, reading, created, queue, system, job, stored, toWrite,
                 written, files>>

Release(j, m) == queue' = [queue EXCEPT ![j][m] = Tail(@)]

Insert(j, m) ==
  /\ ManagerAt(j, m, "work")
  /\ queue[j][m] # <<>> /\ Head(queue[j][m]) # Shutdown
  /\ stored' = [stored EXCEPT ![j][m] = @ \o Head(queue[j][m])]
  /\ IF j \in Persisting THEN ManagerGo(j, m, "persist") /\ UNCHANGED queue
     ELSE Release(j, m) /\ UNCHANGED manager
  /\ UNCHANGED <<ids, reading, created, system, job, toWrite, written, files>>

Persist(j, m) ==
  /\ ManagerAt(j, m, "persist")
  /\ Len(toWrite[j][m]) < WriterRoom
  /\ toWrite' = [toWrite EXCEPT ![j][m] = Append(@, Head(queue[j][m]))]
  /\ ManagerGo(j, m, "work")
  /\ Release(j, m)
  /\ UNCHANGED <<ids, reading, created, system, job, stored, written, files>>

Stop(j, m) ==
  /\ ManagerAt(j, m, "work")
  /\ queue[j][m] # <<>> /\ Head(queue[j][m]) = Shutdown
  /\ IF j \in Persisting
     THEN /\ Len(toWrite[j][m]) < WriterRoom
          /\ toWrite' = [toWrite EXCEPT ![j][m] = Append(@, Shutdown)]
     ELSE UNCHANGED toWrite
  /\ ManagerGo(j, m, "stopped")
  /\ UNCHANGED <<ids, reading, created, queue, system, job, stored, written,
                 files>>

(* The file is opened at its start and not truncated.                      *)
Overlay(file, offset, edges) ==
  SubSeq(file, 1, offset) \o edges
    \o SubSeq(file, offset + Len(edges) + 1, Len(file))

Write(j, m) ==
  /\ toWrite[j][m] # <<>> /\ Head(toWrite[j][m]) # Shutdown
  /\ disk' = [disk EXCEPT ![j][m] =
       Overlay(@, written[j][m], Head(toWrite[j][m]))]
  /\ written' = [written EXCEPT ![j][m] = @ + Len(Head(toWrite[j][m]))]
  /\ toWrite' = [toWrite EXCEPT ![j][m] = Tail(@)]
  /\ UNCHANGED <<ids, reading, created, queue, system, job, manager, stored,
                 backup, found>>

ManagerStep(j, m) ==
  \/ Load(j, m) \/ Loaded(j, m) \/ Insert(j, m) \/ Persist(j, m) \/ Stop(j, m)
-------------------------------------------------------------------------------
(* The end of the process. *)

NextWrite(j, m) == IF toWrite[j][m] = <<>> THEN <<>> ELSE Head(toWrite[j][m])

(* The files once the process is gone: of the batch a writer is at, any    *)
(* part may be on disk.                                                    *)
Remains(part) == [j \in Jobs |-> [m \in Managers |->
  IF j \in Persisting
  THEN Overlay(disk[j][m], written[j][m], SubSeq(NextWrite(j, m), 1, part[j, m]))
  ELSE <<>>]]

Parting == {part \in
    [Persisting \X Managers -> 0 .. Max({settings[j].batch : j \in Persisting} \cup {0})] :
  \A j \in Persisting, m \in Managers : part[j, m] <= Len(NextWrite(j, m))}

(* main returns after join_all, whatever the writers have left to do.      *)
Exit ==
  /\ \A r \in Readers : At(r, "done")
  /\ \A j \in Jobs : JobAt(j, "ended")
  /\ process' = "exited"
  /\ \E part \in Parting : disk' = Remains(part)
  /\ UNCHANGED <<ids, reading, created, queue, restored, crashes, settings, job,
                 managing, backup, found>>

(* A new process: memory as at the start, with or without reading edges    *)
(* back; unless its paths are the same, a job's output goes to new files.  *)
RestartWith(restoring, left) ==
  /\ restored' = restoring
  /\ backup' = IF restoring THEN left ELSE PerManager(<<>>)
  /\ disk' = [j \in Jobs |->
       IF j \in Persisting /\ settings[j].output = settings[j].input THEN left[j]
       ELSE PerManager(<<>>)[j]]
  /\ found' = disk'
  /\ current_id' = 0 /\ translations' = [v \in Originals |-> NoId]
  /\ pc' = [r \in Readers |-> "idle"] /\ collided' = FALSE
  /\ translated' = [r \in Readers |-> NoId]
  /\ reader' = NewReaders /\ kept' = PerProvider(<<>>) /\ batch' = PerProvider(NoEdges)
  /\ created' = [j \in Jobs |-> 0] /\ announced' = [j \in Jobs |-> 0]
  /\ arrived' = [j \in Jobs |-> {}]
  /\ queue' = PerManager(<<>>) /\ job' = [j \in Jobs |-> "parse"]
  /\ manager' = [j \in Jobs |-> [m \in Managers |->
       IF restoring /\ j \in Persisting THEN "load" ELSE "work"]]
  /\ stored' = PerManager(<<>>) /\ toWrite' = PerManager(<<>>)
  /\ written' = PerManager(0)
  /\ original' = [r \in Readers |-> CHOOSE v \in Originals : TRUE]
  /\ UNCHANGED settings

CrashAndRestart ==
  /\ crashes < MaxCrashes
  /\ crashes' = crashes + 1
  /\ UNCHANGED process
  /\ \E restoring \in BOOLEAN, part \in Parting :
       RestartWith(restoring, Remains(part))

JobsNext ==
  /\ process = "up"
  /\ \/ \E r \in Readers :
          /\ ReaderStep(r)
          /\ UNCHANGED <<system, job, managing, files>>
     \/ \E j \in Jobs : JobStep(j)
     \/ \E j \in Jobs, m \in Managers : ManagerStep(j, m) \/ Write(j, m)
     \/ Exit
     \/ CrashAndRestart

JobsSpec == JobsInit /\ [][JobsNext]_jobsVars

(* Every thread runs; a crash need not happen.                             *)
Fairness ==
  /\ \A r \in Readers : WF_jobsVars(process = "up" /\ ReaderStep(r)
       /\ UNCHANGED <<system, job, managing, files>>)
  /\ \A j \in Jobs : WF_jobsVars(process = "up" /\ JobStep(j))
  /\ \A j \in Jobs, m \in Managers :
       /\ WF_jobsVars(process = "up" /\ ManagerStep(j, m))
       /\ WF_jobsVars(process = "up" /\ Write(j, m))
  /\ WF_jobsVars(process = "up" /\ Exit)

FairJobsSpec == JobsSpec /\ Fairness
-------------------------------------------------------------------------------
(* An edge of the input as a job stores it. *)
Image(j, edge) ==
  IF Having(j, "rewriting") THEN <<translations[edge[1]], translations[edge[2]]>> ELSE edge

Copies(edges, edge) == Cardinality({i \in DOMAIN edges : edges[i] = edge})
Inserted(j, m) == SubSeq(stored[j][m], Len(backup[j][m]) + 1, Len(stored[j][m]))

\* Edges in the shares of the readers a job has providers for.
Due(j) == 1 .. IF Inserters(j) = ReaderCount THEN Len(Input) ELSE Inserters(j) * Share

(* What the readers give a job in one process arrives: when the job ends,  *)
(* its managers have inserted every edge of the readers' shares once,      *)
(* under the ids of the table, each edge at its manager, and what was read *)
(* back lies before it unchanged.  It says nothing of an edge that was     *)
(* also read back; that is ReadBackDeducted.  A job whose options do not   *)
(* parse has none, and one with fewer inserters than there are readers     *)
(* lacks the shares of the last ones: they never start.                    *)
InputInsertedOnce ==
  \A j \in Jobs, m \in Managers :
    JobAt(j, "ended") /\ settings[j].outcome = "accepted" =>
      LET new == [i \in Due(j) |-> Image(j, Input[i])]
      IN  /\ IsPrefix(backup[j][m], stored[j][m])
          /\ \A edge \in ToSet(Inserted(j, m)) : ManagerOf(j, edge) = m
          /\ \A edge \in ToSet(new) : ManagerOf(j, edge) = m =>
               Copies(Inserted(j, m), edge) = Copies(new, edge)

(* The comments on initEdgeGenerators: the edges read back are deducted    *)
(* from those to be read from the file, and the readers are offset behind  *)
(* them.  So a job that was restarted has no more edges at a manager than  *)
(* the file it reads.  It does not hold: the offset and the range of each  *)
(* thread are computed and not used, and the readers go by the ranges that *)
(* Jobs has made of the whole file.                                        *)
ReadBackDeducted ==
  \A j \in Jobs, m \in Managers :
    JobAt(j, "ended") /\ Restoring(j) => Len(stored[j][m]) <= Len(Input)

(* No edge is sent before every job has a provider to take it, nor, with   *)
(* in-memory ingestion, before every reader that the job has a provider    *)
(* for has read its share.                                                 *)
ReadFirst ==
  \A j \in Jobs, m \in Managers :
    queue[j][m] # <<>> \/ Inserted(j, m) # <<>> =>
      /\ \A i \in Jobs : created[i] > 0
      /\ j \in InMemory => \A r \in 1 .. Inserters(j) :
           reader[r].at \notin {"wait", "edge", "source", "target"}

(* The output file has the edges inserted since the start, in their order  *)
(* and never one read back, over what it held before; only the batches in  *)
(* the writer's ring and the one being persisted are missing.              *)
FileFollowsStore ==
  \A j \in Persisting, m \in Managers :
    process = "up" /\ manager[j][m] # "load" =>
      LET new == Inserted(j, m)
      IN  /\ written[j][m] \in 0 .. Len(new)
          /\ disk[j][m] = Overlay(found[j][m], 0, SubSeq(new, 1, written[j][m]))
          /\ Len(new) - written[j][m] <= (WriterRoom + 1) * settings[j].batch

(* Every job has parsed its options and has a provider for each reader.    *)
AllReady == \A j \in Jobs :
  settings[j].outcome = "accepted" /\ Inserters(j) = ReaderCount

(* Every process ends: the jobs finish, or the backup cannot be read.  But *)
(* if the options of one job are refused, or it has too few inserters, the *)
(* readers wait for its providers, and with them all jobs.                 *)
Terminates ==
  AllReady \/ (\E j \in Jobs : settings[j].outcome = "throws") =>
    <>(process \in {"died", "exited"})
===============================================================================
