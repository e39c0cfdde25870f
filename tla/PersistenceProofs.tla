--------------------------- MODULE PersistenceProofs ---------------------------
(***************************************************************************)
(* Proofs about VertexStore and about the jobs that use it.                *)
(*                                                                         *)
(* VertexStore, for any readers and any originals: neither property is     *)
(* inductive.  Ids that are drawn but not installed yet must be different  *)
(* from each other, and nobody gives an id back before the first collision *)
(* (IInv).                                                                 *)
(*                                                                         *)
(* The jobs, over any number of crashes and restarts: where every reader,  *)
(* job and manager is and how often it was counted at a barrier            *)
(* (ReadersPlaced), what a message holds and that none is sent before the  *)
(* job is open (MessagesRight), and for each manager where the batches in  *)
(* the ring of its writer lie among the edges it inserted (Filed).         *)
(*                                                                         *)
(* Every edge once: of each edge, what is inserted, on its way and held    *)
(* back is what the readers have handed on (Conserved), and that stays so  *)
(* because ids in the table stay (ReadersRight) and the message to stop    *)
(* comes last (ManagersRight).                                             *)
(***************************************************************************)
EXTENDS Persistence, FoldTheorems, TLAPS

Installing(r) == pc[r] = "install"

(* What readers hold in their hands while they have not collided. *)
DrawnApart ==
  ~collided =>
    /\ \A r \in Readers : pc[r] \notin {"undo", "reread"}
    /\ \A q, r \in Readers :
         q # r /\ Installing(q) /\ Installing(r) => translated[q] # translated[r]

IInv == TypeOK /\ Agreement /\ UniqueUntilCollision /\ DrawnApart
-------------------------------------------------------------------------------
LEMMA InitHolds == Init => IInv
<1> SUFFICES ASSUME Init PROVE IInv
    OBVIOUS
<1>1. TypeOK
  <2>1. (CHOOSE v \in Originals : TRUE) \in Originals
    BY OriginalsAssumption
  <2>2. original \in [Readers -> Originals]
    BY <2>1 DEF Init
  <2>3. translations \in [Originals -> Int] /\ translated \in [Readers -> Int]
    BY DEF Init, NoId
  <2>4. pc \in [Readers -> {"idle", "draw", "install", "undo", "reread"}]
    BY DEF Init
  <2>5. current_id \in Int
    BY DEF Init
  <2>6. collided \in BOOLEAN
    BY Zenon DEF Init
  <2> QED
    BY <2>2, <2>3, <2>4, <2>5, <2>6 DEF TypeOK
<1>2. Agreement
  BY DEF Init, Agreement
<1>3. UniqueUntilCollision
  BY DEF Init, UniqueUntilCollision, Unique, NoId
<1>4. DrawnApart
  BY DEF Init, DrawnApart, Installing
<1> QED
  BY <1>1, <1>2, <1>3, <1>4 DEF IInv

(* A stutter changes nothing the invariant speaks of. *)
LEMMA StutterKeeps == IInv /\ UNCHANGED vars => IInv'
BY DEF IInv, vars, TypeOK, Agreement, UniqueUntilCollision, Unique, DrawnApart, Installing

LEMMA LookupKeeps ==
  ASSUME IInv, NEW r \in Readers, NEW v \in Originals, Lookup(r, v)
  PROVE  IInv'
<1> USE DEF IInv, Lookup, Go
<1>1. TypeOK'
  BY DEF TypeOK
<1>2. Agreement'
  BY DEF TypeOK, Agreement
<1>3. UniqueUntilCollision'
  BY DEF TypeOK, UniqueUntilCollision, Unique
<1>4. DrawnApart'
  BY DEF TypeOK, DrawnApart, Installing
<1> QED
  BY <1>1, <1>2, <1>3, <1>4

(* The id drawn is the counter, above all ids in the table and in hand. *)
LEMMA DrawKeeps ==
  ASSUME IInv, NEW r \in Readers, Draw(r)
  PROVE  IInv'
<1> USE DEF IInv, Draw, Go
<1>1. TypeOK'
  BY DEF TypeOK
<1>2. Agreement'
  BY DEF TypeOK, Agreement
<1>3. UniqueUntilCollision'
  <2> SUFFICES ASSUME ~collided
               PROVE  /\ Unique'
                      /\ \A v \in Originals : translations[v] < current_id + 1
                      /\ \A q \in Readers : pc'[q] = "install" =>
                           /\ translated'[q] < current_id + 1
                           /\ \A v \in Originals : translations[v] # translated'[q]
    BY DEF UniqueUntilCollision
  <2>1. Unique'
    BY DEF UniqueUntilCollision, Unique
  <2>2. \A v \in Originals : translations[v] < current_id
    BY DEF UniqueUntilCollision
  <2>3. \A v \in Originals : translations[v] \in Int
    BY DEF TypeOK, NoId
  <2>4. \A v \in Originals : translations[v] < current_id + 1
    BY <2>2, <2>3 DEF TypeOK
  <2>5. ASSUME NEW q \in Readers, pc'[q] = "install"
        PROVE  /\ translated'[q] < current_id + 1
               /\ \A v \in Originals : translations[v] # translated'[q]
    <3>1. CASE q = r
      <4>1. translated'[q] = current_id
        BY <3>1 DEF TypeOK
      <4> QED
        BY <4>1, <2>2, <2>3 DEF TypeOK
    <3>2. CASE q # r
      <4>1. pc[q] = "install" /\ translated'[q] = translated[q]
        BY <3>2, <2>5 DEF TypeOK
      <4>2. translated[q] < current_id /\ translated[q] \in Int
        BY <4>1 DEF UniqueUntilCollision, TypeOK, NoId
      <4> QED
        BY <4>1, <4>2 DEF UniqueUntilCollision, TypeOK
    <3> QED
      BY <3>1, <3>2
  <2> QED
    BY <2>1, <2>4, <2>5
<1>4. DrawnApart'
  <2> SUFFICES ASSUME ~collided
               PROVE  /\ \A q \in Readers : pc'[q] \notin {"undo", "reread"}
                      /\ \A p, q \in Readers :
                           p # q /\ pc'[p] = "install" /\ pc'[q] = "install"
                             => translated'[p] # translated'[q]
    BY DEF DrawnApart, Installing
  <2>1. \A q \in Readers : pc'[q] \notin {"undo", "reread"}
    BY DEF TypeOK, DrawnApart
  <2>2. \A q \in Readers : q # r /\ pc'[q] = "install" =>
          pc[q] = "install" /\ translated'[q] = translated[q]
    BY DEF TypeOK
  <2>3. \A q \in Readers : pc[q] = "install" => translated[q] < current_id
    BY DEF UniqueUntilCollision
  <2>4. translated'[r] = current_id /\ current_id \in Int
    BY DEF TypeOK
  <2>5. \A q \in Readers : q # r /\ pc'[q] = "install" => translated'[q] # current_id
    BY <2>2, <2>3, <2>4 DEF TypeOK, NoId
  <2>6. \A p, q \in Readers :
          p # q /\ p # r /\ q # r /\ pc'[p] = "install" /\ pc'[q] = "install"
            => translated'[p] # translated'[q]
    BY <2>2 DEF DrawnApart, Installing
  <2> QED
    BY <2>1, <2>4, <2>5, <2>6
<1> QED
  BY <1>1, <1>2, <1>3, <1>4

LEMMA InstallKeeps ==
  ASSUME IInv, NEW r \in Readers, Install(r)
  PROVE  IInv'
<1>1. CASE translations[original[r]] # NoId
  <2> USE <1>1 DEF IInv, Install, Go
  <2>1. TypeOK'
    BY DEF TypeOK
  <2>2. Agreement'
    BY DEF TypeOK, Agreement
  <2>3. UniqueUntilCollision' /\ DrawnApart'
    BY DEF UniqueUntilCollision, DrawnApart
  <2> QED
    BY <2>1, <2>2, <2>3
<1>2. CASE translations[original[r]] = NoId
  <2>1. /\ pc[r] = "install"
        /\ translations' = [translations EXCEPT ![original[r]] = translated[r]]
        /\ pc' = [pc EXCEPT ![r] = "idle"]
        /\ UNCHANGED <<collided, current_id, original, translated>>
    BY <1>2 DEF Install, Go
  <2> USE <1>2, <2>1 DEF IInv
  <2>2. TypeOK'
    BY DEF TypeOK
  <2>3. Agreement'
    BY DEF TypeOK, Agreement
  <2>4. UniqueUntilCollision'
    <3> SUFFICES ASSUME ~collided
                 PROVE  /\ Unique'
                        /\ \A v \in Originals : translations'[v] < current_id
                        /\ \A q \in Readers : pc'[q] = "install" =>
                             /\ translated[q] < current_id
                             /\ \A v \in Originals : translations'[v] # translated[q]
      BY DEF UniqueUntilCollision
    <3>1. \A v \in Originals : v # original[r] => translations'[v] = translations[v]
      BY DEF TypeOK
    <3>2. translations'[original[r]] = translated[r] /\ original[r] \in Originals
      BY DEF TypeOK
    <3>3. /\ translated[r] < current_id
          /\ \A v \in Originals : translations[v] # translated[r]
      BY DEF UniqueUntilCollision
    <3>4. Unique'
      BY <3>1, <3>2, <3>3 DEF UniqueUntilCollision, Unique
    <3>5. \A v \in Originals : translations'[v] < current_id
      BY <3>1, <3>2, <3>3 DEF UniqueUntilCollision
    <3>6. ASSUME NEW q \in Readers, pc'[q] = "install"
          PROVE  /\ translated[q] < current_id
                 /\ \A v \in Originals : translations'[v] # translated[q]
      <4>1. q # r /\ pc[q] = "install"
        BY <3>6 DEF TypeOK
      <4>2. translated[q] # translated[r]
        BY <4>1 DEF DrawnApart, Installing
      <4> QED
        BY <4>1, <4>2, <3>1, <3>2 DEF UniqueUntilCollision
    <3> QED
      BY <3>4, <3>5, <3>6
  <2>5. DrawnApart'
    BY DEF TypeOK, DrawnApart, Installing
  <2> QED
    BY <2>2, <2>3, <2>4, <2>5
<1> QED
  BY <1>1, <1>2

(* A reader gives an id back only after a collision, so current_id has not *)
(* moved down while the properties still speak of it.                      *)
LEMMA UndoKeeps ==
  ASSUME IInv, NEW r \in Readers, Undo(r)
  PROVE  IInv'
<1> USE DEF IInv, Undo, Go
<1>1. TypeOK'
  BY DEF TypeOK
<1>2. Agreement'
  BY DEF TypeOK, Agreement
<1>3. collided'
  BY DEF DrawnApart
<1> QED
  BY <1>1, <1>2, <1>3 DEF UniqueUntilCollision, DrawnApart

LEMMA RereadKeeps ==
  ASSUME IInv, NEW r \in Readers, Reread(r)
  PROVE  IInv'
<1> USE DEF IInv, Reread, Go
<1>1. TypeOK'
  BY DEF TypeOK
<1>2. Agreement'
  BY DEF TypeOK, Agreement
<1>3. collided'
  BY DEF DrawnApart
<1> QED
  BY <1>1, <1>2, <1>3 DEF UniqueUntilCollision, DrawnApart

(* The strengthened invariant is one of every behaviour. *)
THEOREM Invariant == Spec => []IInv
<1>1. IInv /\ [Next]_vars => IInv'
  <2> SUFFICES ASSUME IInv, [Next]_vars PROVE IInv'
    OBVIOUS
  <2>1. ASSUME NEW r \in Readers, NEW v \in Originals, Lookup(r, v) PROVE IInv'
    BY <2>1, LookupKeeps
  <2>2. ASSUME NEW r \in Readers, Draw(r) PROVE IInv'
    BY <2>2, DrawKeeps
  <2>3. ASSUME NEW r \in Readers, Install(r) PROVE IInv'
    BY <2>3, InstallKeeps
  <2>4. ASSUME NEW r \in Readers, Undo(r) PROVE IInv'
    BY <2>4, UndoKeeps
  <2>5. ASSUME NEW r \in Readers, Reread(r) PROVE IInv'
    BY <2>5, RereadKeeps
  <2>6. CASE UNCHANGED vars
    BY <2>6, StutterKeeps
  <2> QED
    BY <2>1, <2>2, <2>3, <2>4, <2>5, <2>6 DEF Next
<1> QED
  BY InitHolds, <1>1, PTL DEF Spec

(* Every reader that translates an original gets the id in the table       *)
(* (getTranslatedId), however many readers race for it.                    *)
THEOREM ReadersAgree == Spec => []Agreement
<1>1. IInv => Agreement
  BY DEF IInv
<1> QED
  BY Invariant, <1>1, PTL

(* Until two readers race for one original, no id is given out twice.      *)
THEOREM IdsUnique == Spec => []UniqueUntilCollision
<1>1. IInv => UniqueUntilCollision
  BY DEF IInv
<1> QED
  BY Invariant, <1>1, PTL
-------------------------------------------------------------------------------
(* The jobs.  Types, and where everybody is.                               *)
Edges == Seq(Int \X Int)
Batches == [size : Nat, edges : [Managers -> Edges]]
Reading == {"edge", "source", "target"}
ReaderPlaces == {"wait", "finish", "barrier", "flush", "final", "done"} \union Reading
ReaderRecords == [at : ReaderPlaces, edge : Int, job : Jobs, src : Int]

SettingsGood == \E line \in CommandLines : settings = Parsed(line)
Admitted(j) == settings[j].outcome = "accepted"

ReaderTypes ==
  /\ reader \in [Readers -> ReaderRecords]
  /\ kept \in [Readers -> [Jobs -> Edges]]
  /\ batch \in [Readers -> [Jobs -> Batches]]
  /\ arrived \in [Jobs -> SUBSET (Readers \union {0})]
  /\ announced \in [Jobs -> Nat]
QueueTypes == queue \in [Jobs -> [Managers -> Seq(Edges)]]
JobTypes ==
  /\ created \in [Jobs -> Nat]
  /\ job \in [Jobs -> {"parse", "create", "barrier", "join", "stop", "ended"}]
ManagerTypes ==
  /\ manager \in [Jobs -> [Managers -> {"load", "loaded", "work", "persist", "stopped"}]]
  /\ stored \in [Jobs -> [Managers -> Edges]]
  /\ toWrite \in [Jobs -> [Managers -> Seq(Edges)]]
  /\ written \in [Jobs -> [Managers -> Nat]]
FileTypes ==
  /\ disk \in [Jobs -> [Managers -> Edges]]
  /\ backup \in [Jobs -> [Managers -> Edges]]
  /\ found \in [Jobs -> [Managers -> Edges]]
  /\ \A j \in Persisting, m \in Managers : written[j][m] <= Len(disk[j][m])

\* A reader reads its share, and has started only after every job has made
\* a provider for it.
ReadersRead ==
  \A r \in Readers :
    /\ reader[r].at # "wait" => \A i \in Jobs : created[i] >= r
    /\ reader[r].at \in Reading => reader[r].edge \in StartId(r) .. EndId(r)
    /\ reader[r].at \in {"barrier", "flush"} => reader[r].job \in InMemory

\* A job whose options are accepted makes as many providers as it should.
JobsCreate ==
  \A j \in Jobs :
    /\ created[j] > 0 => Admitted(j) /\ created[j] <= Inserters(j)
    /\ job[j] = "parse" => created[j] = 0
    /\ job[j] = "create" => Admitted(j) /\ created[j] < Inserters(j)
    /\ job[j] \in {"barrier", "join", "stop"} => Admitted(j)
    /\ job[j] = "barrier" => j \in InMemory

Shapes ==
  /\ SettingsGood
  /\ ReaderTypes /\ QueueTypes /\ JobTypes /\ ManagerTypes /\ FileTypes
  /\ ReadersRead /\ JobsCreate
-------------------------------------------------------------------------------
(* What the constants are.                                                  *)
LEMMA ReaderNumbers ==
  /\ ReaderCount \in Nat /\ Readers = 1 .. ReaderCount /\ JobCount \in Nat \ {0}
  /\ 1 \in Jobs
BY JobsAssumption, FS_CardinalityType DEF ReaderCount, Jobs

(* An accepted job has sizes to divide by, and not too many inserters.      *)
LEMMA AcceptedSettings ==
  ASSUME SettingsGood, NEW j \in Jobs, Admitted(j)
  PROVE  /\ Inserters(j) \in 1 .. ReaderCount
         /\ settings[j].managers = Cardinality(Managers)
         /\ settings[j].batch \in Nat \ {0} /\ settings[j].tile \in Nat \ {0}
<1>1. PICK line \in CommandLines : settings = Parsed(line)
  BY DEF SettingsGood
<1>2. j \in {i \in Jobs : Parsed(line)[i].outcome = "accepted"}
  BY <1>1 DEF Admitted
<1>3. /\ settings[j].inserters \in 1 .. Cardinality(Readers)
      /\ settings[j].managers = Cardinality(Managers)
      /\ {settings[j].batch, settings[j].tile} \subseteq Nat \ {0}
  BY <1>1, <1>2, JobsAssumption
<1> QED
  BY <1>3 DEF Inserters, ReaderCount

LEMMA ManagerOfEdge ==
  ASSUME SettingsGood, NEW j \in Jobs, Admitted(j), NEW edge \in Int \X Int
  PROVE  ManagerOf(j, edge) \in Managers
<1>1. settings[j].tile \in Nat \ {0}
  BY AcceptedSettings
<1>2. Cardinality(Managers) \in Nat /\ Managers = 0 .. Cardinality(Managers) - 1
  BY JobsAssumption, FS_CardinalityType
<1>3. Cardinality(Managers) > 0
  BY <1>2, JobsAssumption
<1> DEFINE size == settings[j].tile
           n == Cardinality(Managers)
           q == edge[1] \div size + edge[2] \div size
<1>4. edge[1] \in Int /\ edge[2] \in Int
  OBVIOUS
<1>5. edge[1] \div size \in Int /\ edge[2] \div size \in Int
  BY <1>1, <1>4
<1>6. q \in Int
  BY <1>5
<1>7. ManagerOf(j, edge) = q % n
  BY DEF ManagerOf
<1> HIDE DEF q, n
<1>8. n \in Nat /\ n > 0
  BY <1>2, <1>3 DEF n
<1>9. q % n \in 0 .. n - 1
  BY <1>6, <1>8
<1> QED
  BY <1>2, <1>7, <1>9 DEF n

(* The shares of the readers are parts of the input.                        *)
LEMMA SharesInInput ==
  ASSUME NEW r \in Readers
  PROVE  /\ StartId(r) \in Nat \ {0} /\ EndId(r) \in Nat
         /\ StartId(r) .. EndId(r) \subseteq DOMAIN Input
<1> DEFINE n == ReaderCount
           l == Len(Input)
           s == l \div n
<1>1. n \in Nat /\ n > 0 /\ r \in 1 .. n /\ l \in Nat /\ DOMAIN Input = 1 .. l
  BY ReaderNumbers, JobsAssumption
<1>2. Share = s
  BY DEF Share
<1>3. s \in Nat /\ n * s <= l
  BY <1>1, Z3
<1>4. StartId(r) = (r - 1) * s + 1 /\ EndId(r) = IF r = n THEN l ELSE r * s
  BY <1>2 DEF StartId, EndId
<1> HIDE DEF n, l, s
<1>5. (r - 1) * s \in Nat /\ r * s \in Nat /\ r * s <= n * s
  BY <1>1, <1>3, Z3
<1> QED
  BY <1>1, <1>3, <1>4, <1>5
-------------------------------------------------------------------------------
(* Each step keeps the types and the places.  First the readers.            *)
Kept(x) == x \in [Readers -> [Jobs -> Edges]]
Batched(x) == x \in [Readers -> [Jobs -> Batches]]

LEMMA NoEdgesType == NoEdges \in Batches
BY DEF NoEdges, Batches, Edges

LEMMA SendTypes ==
  ASSUME QueueTypes, NEW j \in Jobs, NEW full \in Batches, Send(j, full)
  PROVE  QueueTypes'
<1>1. full.edges \in [Managers -> Edges]
  BY DEF Batches
<1>2. \A m \in Managers :
        (IF full.edges[m] = <<>> THEN queue[j][m] ELSE Append(queue[j][m], full.edges[m]))
          \in Seq(Edges)
  BY <1>1 DEF QueueTypes
<1> QED
  BY <1>2 DEF QueueTypes, Send

LEMMA NextBatch ==
  ASSUME Shapes, NEW r \in Readers, NEW j \in Jobs, Admitted(j), NEW edge \in Int \X Int
  PROVE  [size |-> batch[r][j].size + 1,
          edges |-> [batch[r][j].edges EXCEPT ![ManagerOf(j, edge)] = Append(@, edge)]]
            \in Batches
<1>1. batch[r][j] \in Batches
  BY DEF Shapes, ReaderTypes
<1>2. ManagerOf(j, edge) \in Managers
  BY ManagerOfEdge DEF Shapes
<1>3. batch[r][j].size \in Nat /\ batch[r][j].edges \in [Managers -> Edges]
  BY <1>1 DEF Batches
<1>4. \A e \in Edges : Append(e, edge) \in Edges
  BY DEF Edges
<1> QED
  BY <1>2, <1>3, <1>4 DEF Batches

LEMMA ProcessTypes ==
  ASSUME Shapes, NEW r \in Readers, NEW j \in Jobs, Admitted(j), NEW edge \in Int \X Int,
         Process(r, j, edge)
  PROVE  Batched(batch') /\ QueueTypes'
<1> DEFINE next == [size |-> batch[r][j].size + 1,
                    edges |-> [batch[r][j].edges EXCEPT
                                 ![ManagerOf(j, edge)] = Append(@, edge)]]
<1>1. next \in Batches /\ NoEdges \in Batches
  BY NextBatch, NoEdgesType
<1>2. batch \in [Readers -> [Jobs -> Batches]] /\ QueueTypes
  BY DEF Shapes, ReaderTypes
<1>3. \/ batch' = [batch EXCEPT ![r][j] = NoEdges] /\ Send(j, next)
      \/ batch' = [batch EXCEPT ![r][j] = next] /\ UNCHANGED queue
  BY DEF Process
<1> HIDE DEF next
<1>4. QueueTypes'
  BY <1>1, <1>2, <1>3, SendTypes DEF QueueTypes
<1>5. \A b \in Batches : [batch EXCEPT ![r][j] = b] \in [Readers -> [Jobs -> Batches]]
  BY <1>2
<1> QED
  BY <1>1, <1>3, <1>4, <1>5 DEF Batched

\* What the readers never touch.
ReadersLeave == UNCHANGED <<settings, created, system, job, managing, files>>

\* The reader's next place, unless the edge is the last.
Follows(r, next) ==
  /\ next \in ReaderRecords
  /\ next.at # "wait"
  /\ next.at \in Reading => next.edge \in StartId(r) .. EndId(r)
  /\ next.at \in {"barrier", "flush"} => next.job \in InMemory

LEMMA ReaderKeeps ==
  ASSUME Shapes, ReadersLeave, NEW r \in Readers, NEW next, Follows(r, next),
         \A i \in Jobs : created[i] >= r,
         reader' = [reader EXCEPT ![r] = next],
         Kept(kept'), Batched(batch'), QueueTypes',
         arrived' \in [Jobs -> SUBSET (Readers \union {0})],
         announced' \in [Jobs -> Nat]
  PROVE  Shapes'
<1>1. ReaderTypes'
  BY DEF Shapes, ReaderTypes, Follows, Kept, Batched
<1>2. SettingsGood' /\ JobTypes' /\ ManagerTypes' /\ FileTypes' /\ JobsCreate'
  BY DEF Shapes, ReadersLeave, SettingsGood, JobTypes, ManagerTypes, FileTypes, JobsCreate,
         system, managing, files, Admitted, Inserters, InMemory, Having, Persisting
<1>3. ReadersRead'
  <2> SUFFICES ASSUME NEW q \in Readers
               PROVE  /\ reader'[q].at # "wait" => \A i \in Jobs : created'[i] >= q
                      /\ reader'[q].at \in Reading => reader'[q].edge \in StartId(q) .. EndId(q)
                      /\ reader'[q].at \in {"barrier", "flush"} => reader'[q].job \in InMemory'
    BY DEF ReadersRead
  <2>1. created' = created /\ InMemory' = InMemory
    BY DEF ReadersLeave, InMemory, Having
  <2>2. CASE q = r
    <3>1. reader'[q] = next
      BY <2>2 DEF Shapes, ReaderTypes
    <3> QED
      BY <2>1, <2>2, <3>1 DEF Follows
  <2>3. CASE q # r
    <3>1. reader'[q] = reader[q]
      BY <2>3
    <3> QED
      BY <2>1, <3>1 DEF Shapes, ReadersRead
  <2> QED
    BY <2>2, <2>3
<1> QED
  BY <1>1, <1>2, <1>3 DEF Shapes

LEMMA ReaderHere ==
  ASSUME Shapes, NEW r \in Readers
  PROVE  /\ reader[r] \in ReaderRecords /\ reader[r].job \in Jobs
         /\ reader[r].edge \in Int /\ reader[r].src \in Int
         /\ reader[r] = [at |-> reader[r].at, edge |-> reader[r].edge,
                         job |-> reader[r].job, src |-> reader[r].src]
         /\ ~At(r, "wait") => \A i \in Jobs : created[i] >= r /\ created[i] > 0 /\ Admitted(i)
         /\ reader[r].at \in Reading => reader[r].edge \in StartId(r) .. EndId(r)
         /\ reader[r].at \in {"barrier", "flush"} => reader[r].job \in InMemory
<1>1. reader[r] \in ReaderRecords
  BY DEF Shapes, ReaderTypes
<1>2. r \in Nat /\ r > 0
  BY ReaderNumbers
<1>3. \A i \in Jobs : created[i] \in Nat /\ (created[i] > 0 => Admitted(i))
  BY DEF Shapes, JobTypes, JobsCreate
<1>4. ~At(r, "wait") => \A i \in Jobs : created[i] >= r
  BY DEF At, Shapes, ReadersRead
<1> QED
  BY <1>1, <1>2, <1>3, <1>4 DEF Shapes, ReadersRead, ReaderRecords

LEMMA RecordForms ==
  ASSUME NEW s \in ReaderRecords, NEW a, NEW b
  PROVE  /\ [s EXCEPT !.at = a] = [at |-> a, edge |-> s.edge, job |-> s.job, src |-> s.src]
         /\ [s EXCEPT !.edge = b, !.at = a] = [at |-> a, edge |-> b, job |-> s.job, src |-> s.src]
         /\ [s EXCEPT !.at = a, !.src = b] = [at |-> a, edge |-> s.edge, job |-> s.job, src |-> b]
<1>1. s = [at |-> s.at, edge |-> s.edge, job |-> s.job, src |-> s.src]
  BY DEF ReaderRecords
<1>2. PICK t : t = [at |-> a, edge |-> s.edge, job |-> s.job, src |-> s.src]
  OBVIOUS
<1>3. PICK u : u = [at |-> s.at, edge |-> b, job |-> s.job, src |-> s.src]
  OBVIOUS
<1>4. [s EXCEPT !.at = a] = t
  BY <1>1, <1>2
<1>5. [s EXCEPT !.edge = b] = u
  BY <1>1, <1>3
<1>6. [u EXCEPT !.at = a] = [at |-> a, edge |-> b, job |-> s.job, src |-> s.src]
  BY <1>3
<1>7. [t EXCEPT !.src = b] = [at |-> a, edge |-> s.edge, job |-> s.job, src |-> b]
  BY <1>2
<1> QED
  BY <1>2, <1>4, <1>5, <1>6, <1>7

LEMMA InputEdge ==
  ASSUME NEW i \in DOMAIN Input
  PROVE  /\ Input[i][1] \in Originals /\ Input[i][2] \in Originals
         /\ Input[i] \in Int \X Int
<1>1. Input[i] \in Originals \X Originals /\ Originals \subseteq Nat
  BY JobsAssumption
<1>2. PICK p : p = Input[i]
  OBVIOUS
<1>3. p \in Originals \X Originals
  BY <1>1, <1>2
<1>4. p[1] \in Originals /\ p[2] \in Originals /\ p = <<p[1], p[2]>>
  BY <1>3
<1>5. p[1] \in Int /\ p[2] \in Int
  BY <1>1, <1>4
<1>6. p \in Int \X Int
  BY <1>4, <1>5
<1> QED
  BY <1>2, <1>4, <1>6

\* Where a reader is when it is through with an edge for a job.
After(r) ==
  LET here == reader[r] IN
    IF here.job < JobCount THEN [here EXCEPT !.at = "edge", !.job = @ + 1]
    ELSE [here EXCEPT !.job = 1, !.edge = @ + 1,
            !.at = IF here.edge < EndId(r) THEN "edge" ELSE "finish"]

LEMMA AfterFollows ==
  ASSUME Shapes, NEW r \in Readers, reader[r].at \in Reading
  PROVE  Follows(r, After(r))
<1> DEFINE here == reader[r]
<1>1. /\ here = [at |-> here.at, edge |-> here.edge, job |-> here.job, src |-> here.src]
      /\ here.edge \in Int /\ here.src \in Int /\ here.job \in Jobs
      /\ here.edge \in StartId(r) .. EndId(r)
  BY ReaderHere
<1>2. StartId(r) \in Nat /\ EndId(r) \in Nat
  BY SharesInInput
<1>3. JobCount \in Nat /\ 1 \in Jobs /\ Jobs = 1 .. JobCount
  BY ReaderNumbers DEF Jobs
<1>4. CASE here.job < JobCount
  <2>1. After(r) = [at |-> "edge", edge |-> here.edge, job |-> here.job + 1, src |-> here.src]
    BY <1>1, <1>4 DEF After
  <2> QED
    BY <1>1, <1>3, <1>4, <2>1 DEF Follows, ReaderRecords, ReaderPlaces, Reading
<1>5. CASE ~(here.job < JobCount)
  <2>1. After(r) = [at |-> IF here.edge < EndId(r) THEN "edge" ELSE "finish",
                    edge |-> here.edge + 1, job |-> 1, src |-> here.src]
    BY <1>1, <1>5 DEF After
  <2> QED
    BY <1>1, <1>2, <1>3, <1>5, <2>1 DEF Follows, ReaderRecords, ReaderPlaces, Reading
<1> QED
  BY <1>4, <1>5

LEMMA AddKeeps ==
  ASSUME Shapes, ReadersLeave, NEW r \in Readers, reader[r].at \in Reading,
         NEW edge \in Int \X Int, Add(r, edge)
  PROVE  Shapes'
<1> DEFINE j == reader[r].job
<1>1. j \in Jobs /\ Admitted(j) /\ \A i \in Jobs : created[i] >= r
  BY ReaderHere DEF At, Reading
<1>2. reader' = [reader EXCEPT ![r] = After(r)]
  BY DEF Add, Advance, After
<1>3. UNCHANGED <<arrived, announced>>
  BY DEF Add
<1>4. Kept(kept) /\ Batched(batch) /\ QueueTypes /\ kept[r][j] \in Edges
  BY <1>1 DEF Kept, Batched, Shapes, ReaderTypes
<1>5. Kept(kept') /\ Batched(batch') /\ QueueTypes'
  <2>1. CASE j \in InMemory
    <3>1. kept' = [kept EXCEPT ![r][j] = Append(@, edge)] /\ UNCHANGED <<batch, queue>>
      BY <2>1 DEF Add
    <3>2. Append(kept[r][j], edge) \in Edges
      BY <1>4 DEF Edges
    <3>3. Kept(kept')
      BY <1>1, <1>4, <3>1, <3>2 DEF Kept
    <3> QED
      BY <1>4, <3>1, <3>3 DEF Batched, QueueTypes
  <2>2. CASE j \notin InMemory
    <3>1. Process(r, j, edge) /\ UNCHANGED kept
      BY <2>2 DEF Add
    <3> QED
      BY <1>1, <1>4, <3>1, ProcessTypes DEF Kept
  <2> QED
    BY <2>1, <2>2
<1>6. arrived' \in [Jobs -> SUBSET (Readers \union {0})] /\ announced' \in [Jobs -> Nat]
  BY <1>3 DEF Shapes, ReaderTypes
<1> QED
  BY <1>1, <1>2, <1>5, <1>6, AfterFollows, ReaderKeeps

\* A reader moves on and nothing else of the readers changes.
LEMMA MoveKeeps ==
  ASSUME Shapes, ReadersLeave, NEW r \in Readers, NEW next, Follows(r, next),
         \A i \in Jobs : created[i] >= r,
         reader' = [reader EXCEPT ![r] = next],
         UNCHANGED <<kept, batch, queue, announced>>,
         arrived' \in [Jobs -> SUBSET (Readers \union {0})]
  PROVE  Shapes'
<1>1. Kept(kept') /\ Batched(batch') /\ QueueTypes' /\ announced' \in [Jobs -> Nat]
  BY DEF Kept, Batched, QueueTypes, Shapes, ReaderTypes
<1> QED
  BY <1>1, ReaderKeeps

LEMMA ArrivedType ==
  ASSUME Shapes, UNCHANGED arrived
  PROVE  arrived' \in [Jobs -> SUBSET (Readers \union {0})]
BY DEF Shapes, ReaderTypes

LEMMA StartKeeps ==
  ASSUME Shapes, ReadersLeave, NEW r \in Readers, Start(r)
  PROVE  Shapes'
<1> DEFINE place == IF StartId(r) <= EndId(r) THEN "edge" ELSE "finish"
           s == reader[r]
           next == [s EXCEPT !.edge = StartId(r), !.at = place]
<1>1. reader' = [reader EXCEPT ![r] = next] /\ UNCHANGED <<kept, batch, queue, announced, arrived>>
  BY DEF Start
<1>2. s \in ReaderRecords /\ s.job \in Jobs /\ s.src \in Int
  BY ReaderHere
<1>3. StartId(r) \in Nat /\ EndId(r) \in Nat
  BY SharesInInput
<1>4. \A i \in Jobs : created[i] >= r
  BY DEF Start
<1>5. /\ place \in ReaderPlaces /\ place \notin {"wait", "barrier", "flush"}
      /\ place \in Reading => StartId(r) \in StartId(r) .. EndId(r)
  BY <1>3 DEF ReaderPlaces, Reading
<1> HIDE DEF place, s
<1>6. next = [at |-> place, edge |-> StartId(r), job |-> s.job, src |-> s.src]
  BY <1>2, RecordForms
<1> HIDE DEF next
<1>7. Follows(r, next)
  BY <1>2, <1>3, <1>5, <1>6 DEF Follows, ReaderRecords
<1> QED
  BY <1>1, <1>4, <1>7, ArrivedType, MoveKeeps

LEMMA EdgeHere ==
  ASSUME Shapes, NEW r \in Readers, reader[r].at \in Reading
  PROVE  reader[r].edge \in DOMAIN Input /\ Input[reader[r].edge] \in Int \X Int
BY ReaderHere, SharesInInput, InputEdge

LEMMA SourceKeeps ==
  ASSUME Shapes, ReadersLeave, NEW r \in Readers, TranslateSource(r)
  PROVE  Shapes'
<1> DEFINE next == [reader[r] EXCEPT !.at = "source"]
<1>1. /\ reader' = [reader EXCEPT ![r] = next] /\ At(r, "edge")
      /\ UNCHANGED <<kept, batch, queue, announced, arrived>>
  BY DEF TranslateSource
<1>2. next = [at |-> "source", edge |-> reader[r].edge, job |-> reader[r].job,
              src |-> reader[r].src]
  BY ReaderHere, RecordForms
<1>3. Follows(r, next)
  BY <1>1, <1>2, ReaderHere DEF Follows, ReaderRecords, ReaderPlaces, Reading, At
<1>4. \A i \in Jobs : created[i] >= r
  BY <1>1, ReaderHere DEF At
<1> HIDE DEF next
<1> QED
  BY <1>1, <1>3, <1>4, ArrivedType, MoveKeeps

LEMMA TargetKeeps ==
  ASSUME Shapes, IInv, ReadersLeave, NEW r \in Readers, TranslateTarget(r)
  PROVE  Shapes'
<1> DEFINE next == [reader[r] EXCEPT !.at = "target", !.src = translated[r]]
<1>1. /\ reader' = [reader EXCEPT ![r] = next] /\ At(r, "source")
      /\ UNCHANGED <<kept, batch, queue, announced, arrived>>
  BY DEF TranslateTarget
<1>2. next = [at |-> "target", edge |-> reader[r].edge, job |-> reader[r].job,
              src |-> translated[r]]
  <2>1. PICK s, x : s = reader[r] /\ x = translated[r]
    OBVIOUS
  <2>2. s \in ReaderRecords
    BY <2>1, ReaderHere
  <2> QED
    BY <2>1, <2>2, RecordForms
<1>3. translated[r] \in Int
  BY DEF IInv, TypeOK
<1>4. Follows(r, next)
  BY <1>1, <1>2, <1>3, ReaderHere DEF Follows, ReaderRecords, ReaderPlaces, Reading, At
<1>5. \A i \in Jobs : created[i] >= r
  BY <1>1, ReaderHere DEF At
<1> HIDE DEF next
<1> QED
  BY <1>1, <1>4, <1>5, ArrivedType, MoveKeeps

LEMMA TranslateKeeps ==
  ASSUME Shapes, ReadersLeave, NEW r \in Readers, Translate(r)
  PROVE  Shapes'
BY DEF Shapes, ReadersLeave, Translate, SettingsGood, JobTypes, ManagerTypes, FileTypes,
       JobsCreate, system, managing, files, reading, Admitted, Inserters, InMemory, Having,
       ReaderTypes, QueueTypes, ReadersRead, Persisting

LEMMA FinishKeeps ==
  ASSUME Shapes, ReadersLeave, NEW r \in Readers, FinishOrWait(r)
  PROVE  Shapes'
<1> DEFINE j == reader[r].job
           place == IF j \in InMemory THEN "barrier" ELSE "final"
           next == [reader[r] EXCEPT !.at = place]
<1>1. /\ reader' = [reader EXCEPT ![r] = next] /\ At(r, "finish")
      /\ UNCHANGED <<kept, batch, queue, announced>>
  BY DEF FinishOrWait
<1>2. next = [at |-> place, edge |-> reader[r].edge, job |-> j, src |-> reader[r].src]
  BY ReaderHere, RecordForms
<1>3. Follows(r, next)
  BY <1>1, <1>2, ReaderHere DEF Follows, ReaderRecords, ReaderPlaces, Reading, At
<1>4. \A i \in Jobs : created[i] >= r
  BY <1>1, ReaderHere DEF At
<1>5. arrived' = [arrived EXCEPT ![j] = @ \cup {r}] \/ arrived' = arrived
  BY DEF FinishOrWait
<1>6. arrived' \in [Jobs -> SUBSET (Readers \union {0})]
  BY <1>5 DEF Shapes, ReaderTypes
<1> HIDE DEF next
<1> QED
  BY <1>1, <1>3, <1>4, <1>6, MoveKeeps

LEMMA PassKeeps ==
  ASSUME Shapes, ReadersLeave, NEW r \in Readers, Pass(r)
  PROVE  Shapes'
<1> DEFINE next == [reader[r] EXCEPT !.at = "flush"]
<1>1. /\ reader' = [reader EXCEPT ![r] = next] /\ At(r, "barrier")
      /\ UNCHANGED <<kept, batch, queue, announced, arrived>>
  BY DEF Pass
<1>2. next = [at |-> "flush", edge |-> reader[r].edge, job |-> reader[r].job,
              src |-> reader[r].src]
  BY ReaderHere, RecordForms
<1>3. Follows(r, next)
  BY <1>1, <1>2, ReaderHere DEF Follows, ReaderRecords, ReaderPlaces, Reading, At
<1>4. \A i \in Jobs : created[i] >= r
  BY <1>1, ReaderHere DEF At
<1> HIDE DEF next
<1> QED
  BY <1>1, <1>3, <1>4, ArrivedType, MoveKeeps

LEMMA FlushKeeps ==
  ASSUME Shapes, ReadersLeave, NEW r \in Readers, Flush(r)
  PROVE  Shapes'
<1> DEFINE j == reader[r].job
<1>1. /\ j \in Jobs /\ Admitted(j) /\ \A i \in Jobs : created[i] >= r
      /\ At(r, "flush") /\ UNCHANGED <<announced, arrived>>
  BY ReaderHere DEF Flush, At
<1>2. CASE kept[r][j] = <<>>
  <2> DEFINE next == [reader[r] EXCEPT !.at = "final"]
  <2>1. reader' = [reader EXCEPT ![r] = next] /\ UNCHANGED <<kept, batch, queue>>
    BY <1>2 DEF Flush
  <2>2. next = [at |-> "final", edge |-> reader[r].edge, job |-> j, src |-> reader[r].src]
    BY ReaderHere, RecordForms
  <2>3. Follows(r, next)
    BY <2>2, ReaderHere DEF Follows, ReaderRecords, ReaderPlaces, Reading
  <2> HIDE DEF next
  <2> QED
    BY <1>1, <2>1, <2>3, ArrivedType, MoveKeeps
<1>3. CASE kept[r][j] # <<>>
  <2>1. /\ Process(r, j, Head(kept[r][j])) /\ kept' = [kept EXCEPT ![r][j] = Tail(@)]
        /\ UNCHANGED reader
    BY <1>3 DEF Flush
  <2>2. Kept(kept) /\ kept[r][j] \in Seq(Int \X Int)
    BY <1>1 DEF Kept, Shapes, ReaderTypes, Edges
  <2>3. Head(kept[r][j]) \in Int \X Int /\ Tail(kept[r][j]) \in Edges
    BY <1>3, <2>2 DEF Edges
  <2>4. Kept(kept')
    BY <1>1, <2>1, <2>2, <2>3 DEF Kept
  <2>5. Batched(batch') /\ QueueTypes'
    BY <1>1, <2>1, <2>3, ProcessTypes
  <2>6. ReaderTypes' /\ ReadersRead'
    BY <1>1, <2>1, <2>4, <2>5 DEF ReaderTypes, Shapes, Kept, Batched, ReadersRead,
       ReadersLeave, InMemory, Having
  <2>7. SettingsGood' /\ JobTypes' /\ ManagerTypes' /\ FileTypes' /\ JobsCreate'
    BY DEF Shapes, ReadersLeave, SettingsGood, JobTypes, ManagerTypes, FileTypes, JobsCreate,
           system, managing, files, Admitted, Inserters, InMemory, Having, Persisting
  <2> QED
    BY <2>5, <2>6, <2>7 DEF Shapes
<1> QED
  BY <1>2, <1>3

LEMMA SendFinalKeeps ==
  ASSUME Shapes, ReadersLeave, NEW r \in Readers, SendFinal(r)
  PROVE  Shapes'
<1> DEFINE j == reader[r].job
           s == reader[r]
           place == IF j < JobCount THEN "finish" ELSE "done"
           following == IF j < JobCount THEN j + 1 ELSE 1
           next == [s EXCEPT !.at = place, !.job = following]
<1>1. /\ j \in Jobs /\ Admitted(j) /\ \A i \in Jobs : created[i] >= r
      /\ At(r, "final") /\ UNCHANGED <<kept, arrived>>
  BY ReaderHere DEF SendFinal, At
<1>2. /\ reader' = [reader EXCEPT ![r] = next] /\ Send(j, batch[r][j])
      /\ batch' = [batch EXCEPT ![r][j] = NoEdges]
      /\ announced' = [announced EXCEPT ![j] = @ + 1]
  BY DEF SendFinal
<1>3. s \in ReaderRecords /\ s.edge \in Int /\ s.src \in Int
  BY ReaderHere
<1>4. JobCount \in Nat /\ 1 \in Jobs /\ Jobs = 1 .. JobCount
  BY ReaderNumbers DEF Jobs
<1>5. following \in Jobs /\ place \in {"finish", "done"}
  BY <1>1, <1>4
<1>6. Batched(batch) /\ batch[r][j] \in Batches /\ Kept(kept') /\ announced \in [Jobs -> Nat]
  BY <1>1 DEF Batched, Kept, Shapes, ReaderTypes
<1>7. Batched(batch') /\ announced' \in [Jobs -> Nat]
  BY <1>1, <1>2, <1>6, NoEdgesType DEF Batched
<1>8. QueueTypes'
  BY <1>1, <1>2, <1>6, SendTypes DEF Shapes
<1>9. arrived' \in [Jobs -> SUBSET (Readers \union {0})]
  BY <1>1, ArrivedType
<1> HIDE DEF place, following, s
<1>10. next = [at |-> place, edge |-> s.edge, job |-> following, src |-> s.src]
  <2>1. s = [at |-> s.at, edge |-> s.edge, job |-> s.job, src |-> s.src]
    BY <1>3 DEF ReaderRecords
  <2>2. PICK t : t = [at |-> place, edge |-> s.edge, job |-> s.job, src |-> s.src]
    OBVIOUS
  <2>3. [s EXCEPT !.at = place] = t
    BY <2>1, <2>2
  <2>4. [t EXCEPT !.job = following]
          = [at |-> place, edge |-> s.edge, job |-> following, src |-> s.src]
    BY <2>2
  <2> QED
    BY <2>3, <2>4
<1> HIDE DEF next
<1>11. Follows(r, next)
  BY <1>3, <1>5, <1>10 DEF Follows, ReaderRecords, ReaderPlaces, Reading
<1> QED
  BY <1>1, <1>2, <1>6, <1>7, <1>8, <1>9, <1>11, ReaderKeeps

LEMMA ReaderStepKeeps ==
  ASSUME Shapes, IInv, ReadersLeave, NEW r \in Readers, ReaderStep(r)
  PROVE  Shapes'
<1>1. CASE AddEdge(r)
  <2>1. reader[r].at \in Reading /\ Add(r, Input[reader[r].edge])
    BY <1>1 DEF AddEdge, At, Reading
  <2> QED
    BY <2>1, EdgeHere, AddKeeps
<1>2. CASE AddTranslated(r)
  <2>1. reader[r].at \in Reading /\ Add(r, <<reader[r].src, translated[r]>>)
    BY <1>2 DEF AddTranslated, At, Reading
  <2>2. <<reader[r].src, translated[r]>> \in Int \X Int
    BY ReaderHere DEF IInv, TypeOK
  <2> QED
    BY <2>1, <2>2, AddKeeps
<1> QED
  BY <1>1, <1>2, StartKeeps, SourceKeeps, TargetKeeps, TranslateKeeps, FinishKeeps, PassKeeps,
     FlushKeeps, SendFinalKeeps DEF ReaderStep
-------------------------------------------------------------------------------
(* The threads of the jobs.                                                 *)
LEMMA JobKeeps ==
  ASSUME Shapes, UNCHANGED <<reader, kept, batch, announced, settings, managing, files>>,
         arrived' \in [Jobs -> SUBSET (Readers \union {0})],
         QueueTypes', JobTypes', JobsCreate', \A i \in Jobs : created'[i] >= created[i]
  PROVE  Shapes'
<1>1. ReaderTypes' /\ SettingsGood' /\ ManagerTypes' /\ FileTypes'
  BY DEF Shapes, ReaderTypes, SettingsGood, ManagerTypes, FileTypes, managing, files,
         Persisting, Having
<1>2. ReadersRead'
  <2>1. \A r \in Readers : r \in Int
    BY ReaderNumbers
  <2>2. \A i \in Jobs : created[i] \in Nat /\ created'[i] \in Nat
    BY DEF Shapes, JobTypes
  <2>3. UNCHANGED <<reader, InMemory>>
    BY DEF InMemory, Having
  <2> QED
    BY <2>1, <2>2, <2>3 DEF Shapes, ReadersRead
<1> QED
  BY <1>1, <1>2 DEF Shapes

LEMMA QueueTypesStay ==
  ASSUME Shapes, UNCHANGED queue
  PROVE  QueueTypes'
BY DEF Shapes, QueueTypes

\* The thread of a job moves on and makes no provider.
LEMMA JobMoveKeeps ==
  ASSUME Shapes, NEW j \in Jobs,
         UNCHANGED <<reader, kept, batch, announced, created, settings, managing, files>>,
         arrived' \in [Jobs -> SUBSET (Readers \union {0})], QueueTypes',
         NEW place \in {"create", "barrier", "join", "stop", "ended"},
         job' = [job EXCEPT ![j] = place],
         place \in {"create", "barrier", "join", "stop"} => Admitted(j),
         place = "create" => created[j] = 0,
         place = "barrier" => j \in InMemory
  PROVE  Shapes'
<1>1. JobTypes' /\ created \in [Jobs -> Nat]
  BY DEF Shapes, JobTypes
<1>2. JobsCreate'
  <2> SUFFICES ASSUME NEW i \in Jobs
               PROVE  /\ created'[i] > 0 => Admitted(i)' /\ created'[i] <= Inserters(i)'
                      /\ job'[i] = "parse" => created'[i] = 0
                      /\ job'[i] = "create" => Admitted(i)' /\ created'[i] < Inserters(i)'
                      /\ job'[i] \in {"barrier", "join", "stop"} => Admitted(i)'
                      /\ job'[i] = "barrier" => i \in InMemory'
    BY DEF JobsCreate
  <2>1. UNCHANGED <<created, InMemory, Inserters(i), Admitted(i)>>
    BY DEF InMemory, Having, Inserters, Admitted
  <2>2. CASE i = j
    <3>1. job'[i] = place
      BY <2>2 DEF Shapes, JobTypes
    <3>2. Admitted(i) => Inserters(i) \in 1 .. ReaderCount
      BY AcceptedSettings DEF Shapes
    <3>3. ReaderCount \in Nat
      BY ReaderNumbers
    <3>4. created[i] > 0 => Admitted(i) /\ created[i] <= Inserters(i)
      BY DEF Shapes, JobsCreate
    <3> QED
      BY <2>1, <2>2, <3>1, <3>2, <3>3, <3>4
  <2>3. CASE i # j
    <3>1. job'[i] = job[i]
      BY <2>3 DEF Shapes, JobTypes
    <3> QED
      BY <2>1, <3>1 DEF Shapes, JobsCreate
  <2> QED
    BY <2>2, <2>3
<1>3. \A i \in Jobs : created'[i] >= created[i]
  BY <1>1
<1> QED
  BY <1>1, <1>2, <1>3, JobKeeps

LEMMA ParseKeeps ==
  ASSUME Shapes, NEW j \in Jobs, ParseOptions(j)
  PROVE  Shapes'
<1>1. /\ UNCHANGED <<reader, kept, batch, announced, arrived, created, queue, settings,
                    managing, files>>
      /\ job[j] = "parse"
  BY DEF ParseOptions, reading, JobAt
<1>2. arrived' \in [Jobs -> SUBSET (Readers \union {0})] /\ QueueTypes'
  BY <1>1, ArrivedType, QueueTypesStay
<1>3. created[j] = 0
  BY <1>1 DEF Shapes, JobsCreate
<1>4. CASE UNCHANGED job
  <2>1. JobTypes' /\ JobsCreate'
    BY <1>1, <1>4 DEF Shapes, JobTypes, JobsCreate, Admitted, Inserters, InMemory, Having
  <2>2. \A i \in Jobs : created'[i] >= created[i]
    BY <1>1 DEF Shapes, JobTypes
  <2> QED
    BY <1>1, <1>2, <2>1, <2>2, JobKeeps
<1>5. CASE ~(UNCHANGED job)
  <2>1. JobGo(j, IF settings[j].outcome = "accepted" THEN "create" ELSE "ended")
    BY <1>5 DEF ParseOptions
  <2>2. CASE settings[j].outcome = "accepted"
    <3>1. job' = [job EXCEPT ![j] = "create"]
      BY <2>1, <2>2 DEF JobGo
    <3>2. Admitted(j)
      BY <2>2 DEF Admitted
    <3> QED
      BY <1>1, <1>2, <1>3, <3>1, <3>2, JobMoveKeeps
  <2>3. CASE settings[j].outcome # "accepted"
    <3>1. job' = [job EXCEPT ![j] = "ended"]
      BY <2>1, <2>3 DEF JobGo
    <3> QED
      BY <1>1, <1>2, <3>1, JobMoveKeeps
  <2> QED
    BY <2>2, <2>3
<1> QED
  BY <1>4, <1>5

LEMMA CreateKeeps ==
  ASSUME Shapes, NEW j \in Jobs, CreateProvider(j)
  PROVE  Shapes'
<1>1. /\ UNCHANGED <<reader, kept, batch, announced, arrived, queue, settings, managing,
                    files>>
      /\ job[j] = "create" /\ created' = [created EXCEPT ![j] = @ + 1]
      /\ IF created[j] + 1 < Inserters(j) THEN UNCHANGED job
         ELSE job' = [job EXCEPT ![j] = IF j \in InMemory THEN "barrier" ELSE "join"]
  BY DEF CreateProvider, reading, JobAt, JobGo, system
<1>2. arrived' \in [Jobs -> SUBSET (Readers \union {0})] /\ QueueTypes'
  BY <1>1, ArrivedType, QueueTypesStay
<1>3. /\ created \in [Jobs -> Nat] /\ Admitted(j) /\ created[j] < Inserters(j)
      /\ job \in [Jobs -> {"parse", "create", "barrier", "join", "stop", "ended"}]
  BY <1>1 DEF Shapes, JobTypes, JobsCreate
<1>4. Inserters(j) \in Nat
  BY <1>3, AcceptedSettings, ReaderNumbers DEF Shapes
<1>5. JobTypes'
  BY <1>1, <1>3 DEF JobTypes
<1>6. \A i \in Jobs : created'[i] >= created[i]
  BY <1>1, <1>3
<1>7. JobsCreate'
  <2> SUFFICES ASSUME NEW i \in Jobs
               PROVE  /\ created'[i] > 0 => Admitted(i)' /\ created'[i] <= Inserters(i)'
                      /\ job'[i] = "parse" => created'[i] = 0
                      /\ job'[i] = "create" => Admitted(i)' /\ created'[i] < Inserters(i)'
                      /\ job'[i] \in {"barrier", "join", "stop"} => Admitted(i)'
                      /\ job'[i] = "barrier" => i \in InMemory'
    BY DEF JobsCreate
  <2>1. UNCHANGED <<InMemory, Inserters(i), Admitted(i)>>
    BY <1>1 DEF InMemory, Having, Inserters, Admitted
  <2>2. CASE i = j
    <3>1. created'[i] = created[i] + 1
      BY <1>1, <1>3, <2>2
    <3>2. \/ created[i] + 1 < Inserters(i) /\ job'[i] = "create"
          \/ job'[i] \in {"barrier", "join"} /\ (job'[i] = "barrier" => i \in InMemory)
      BY <1>1, <1>3, <2>2
    <3> QED
      BY <1>3, <1>4, <2>1, <2>2, <3>1, <3>2
  <2>3. CASE i # j
    <3>1. job'[i] = job[i] /\ created'[i] = created[i]
      BY <1>1, <1>3, <2>3
    <3> QED
      BY <2>1, <3>1 DEF Shapes, JobsCreate
  <2> QED
    BY <2>2, <2>3
<1> QED
  BY <1>1, <1>2, <1>5, <1>6, <1>7, JobKeeps

LEMMA JobStepKeeps ==
  ASSUME Shapes, NEW j \in Jobs, JobStep(j)
  PROVE  Shapes'
<1>1. CASE JobArrive(j)
  <2>1. /\ UNCHANGED <<reader, kept, batch, announced, created, queue, settings, job,
                      managing, files>>
        /\ arrived' = [arrived EXCEPT ![j] = @ \cup {0}]
    BY <1>1 DEF JobArrive, system
  <2>2. arrived' \in [Jobs -> SUBSET (Readers \union {0})]
    BY <2>1 DEF Shapes, ReaderTypes
  <2>3. QueueTypes' /\ JobTypes' /\ JobsCreate'
    BY <2>1 DEF Shapes, QueueTypes, JobTypes, JobsCreate, Admitted, Inserters, InMemory,
       Having
  <2>4. \A i \in Jobs : created'[i] >= created[i]
    BY <2>1 DEF Shapes, JobTypes
  <2> QED
    BY <2>1, <2>2, <2>3, <2>4, JobKeeps
<1>2. CASE JobPass(j)
  <2>1. /\ UNCHANGED <<reader, kept, batch, announced, arrived, created, queue, settings,
                      managing, files>>
        /\ job[j] = "barrier" /\ job' = [job EXCEPT ![j] = "join"]
    BY <1>2 DEF JobPass, JobAt, JobGo, reading, system
  <2>2. arrived' \in [Jobs -> SUBSET (Readers \union {0})] /\ QueueTypes'
    BY <2>1, ArrivedType, QueueTypesStay
  <2>3. Admitted(j)
    BY <2>1 DEF Shapes, JobsCreate
  <2> QED
    BY <2>1, <2>2, <2>3, JobMoveKeeps
<1>3. CASE JobJoin(j)
  <2>1. /\ UNCHANGED <<reader, kept, batch, announced, arrived, created, settings,
                      managing, files>>
        /\ job[j] = "join" /\ job' = [job EXCEPT ![j] = "stop"]
        /\ queue' = [queue EXCEPT ![j] = [m \in Managers |-> Append(@[m], Shutdown)]]
    BY <1>3 DEF JobJoin, JobAt, JobGo, reading, system
  <2>2. arrived' \in [Jobs -> SUBSET (Readers \union {0})]
    BY <2>1, ArrivedType
  <2>3. QueueTypes'
    <3>1. \A m \in Managers : Append(queue[j][m], Shutdown) \in Seq(Edges)
      BY DEF Shapes, QueueTypes, Shutdown, Edges
    <3> QED
      BY <2>1, <3>1 DEF Shapes, QueueTypes
  <2>4. Admitted(j)
    BY <2>1 DEF Shapes, JobsCreate
  <2> QED
    BY <2>1, <2>2, <2>3, <2>4, JobMoveKeeps
<1>4. CASE JobEnd(j)
  <2>1. /\ UNCHANGED <<reader, kept, batch, announced, arrived, created, queue, settings,
                      managing, files>>
        /\ job' = [job EXCEPT ![j] = "ended"]
    BY <1>4 DEF JobEnd, JobGo, reading, system
  <2>2. arrived' \in [Jobs -> SUBSET (Readers \union {0})] /\ QueueTypes'
    BY <2>1, ArrivedType, QueueTypesStay
  <2> QED
    BY <2>1, <2>2, JobMoveKeeps
<1> QED
  BY <1>1, <1>2, <1>3, <1>4, ParseKeeps, CreateKeeps DEF JobStep
-------------------------------------------------------------------------------
(* The managers, their writers and the files.                               *)
LEMMA ConcatIs ==
  ASSUME NEW S, NEW a \in Seq(S), NEW b \in Seq(S)
  PROVE  /\ a \o b \in Seq(S) /\ Len(a \o b) = Len(a) + Len(b)
         /\ \A i \in 1 .. Len(a) + Len(b) :
              (a \o b)[i] = IF i <= Len(a) THEN a[i] ELSE b[i - Len(a)]
OBVIOUS

LEMMA OverlayIs ==
  ASSUME NEW S, NEW file \in Seq(S), NEW edges \in Seq(S), NEW offset \in 0 .. Len(file)
  PROVE  /\ Overlay(file, offset, edges) \in Seq(S)
         /\ Len(Overlay(file, offset, edges)) =
              IF offset + Len(edges) < Len(file) THEN Len(file) ELSE offset + Len(edges)
         /\ \A i \in 1 .. Len(Overlay(file, offset, edges)) :
              Overlay(file, offset, edges)[i] =
                IF i <= offset THEN file[i]
                ELSE IF i <= offset + Len(edges) THEN edges[i - offset] ELSE file[i]
<1> DEFINE n == offset + Len(edges)
           a == SubSeq(file, 1, offset)
           b == SubSeq(file, n + 1, Len(file))
           c == a \o edges
<1>1. Len(file) \in Nat /\ Len(edges) \in Nat /\ n \in Nat /\ offset <= Len(file)
  OBVIOUS
<1>2. a \in Seq(S) /\ Len(a) = offset /\ \A i \in 1 .. offset : a[i] = file[i]
  <2>1. \A i \in 1 .. offset : file[i] \in S
    BY <1>1
  <2> QED
    BY <1>1, <2>1
<1>3. /\ b \in Seq(S) /\ Len(b) = IF n < Len(file) THEN Len(file) - n ELSE 0
      /\ \A i \in 1 .. Len(b) : b[i] = file[n + i]
  <2>1. \A i \in n + 1 .. Len(file) : file[i] \in S
    BY <1>1
  <2> QED
    BY <1>1, <2>1
<1>4. Overlay(file, offset, edges) = c \o b
  BY DEF Overlay
<1> HIDE DEF a, b
<1>5. c \in Seq(S) /\ Len(c) = n /\ \A i \in 1 .. n :
        c[i] = IF i <= offset THEN a[i] ELSE edges[i - offset]
  BY <1>1, <1>2
<1> HIDE DEF c
<1>6. c \o b \in Seq(S) /\ Len(c \o b) = Len(c) + Len(b)
  BY <1>3, <1>5, ConcatIs
<1>7. \A i \in 1 .. Len(c) + Len(b) :
        (c \o b)[i] = IF i <= Len(c) THEN c[i] ELSE b[i - Len(c)]
  BY <1>3, <1>5, ConcatIs
<1> DEFINE d == c \o b
<1> HIDE DEF n, d
<1>8. Len(d) = IF n < Len(file) THEN Len(file) ELSE n
  BY <1>1, <1>3, <1>5, <1>6 DEF d
<1>9. ASSUME NEW i \in 1 .. Len(d)
      PROVE  d[i] = IF i <= offset THEN file[i]
                    ELSE IF i <= n THEN edges[i - offset] ELSE file[i]
  <2>0. /\ i \in Nat /\ i >= 1 /\ i <= n + Len(b) /\ offset <= n
        /\ Len(b) \in Nat /\ offset \in Nat
    BY <1>1, <1>3, <1>5, <1>6 DEF d, n
  <2>1. CASE i <= n
    <3>1. d[i] = c[i]
      BY <1>1, <1>5, <1>7, <2>0, <2>1 DEF d
    <3>2. c[i] = IF i <= offset THEN a[i] ELSE edges[i - offset]
      BY <1>5, <2>0, <2>1
    <3> QED
      BY <1>2, <2>0, <2>1, <3>1, <3>2
  <2>2. CASE i > n
    <3>1. d[i] = b[i - n]
      BY <1>1, <1>5, <1>7, <2>0, <2>2 DEF d
    <3>2. i - n \in 1 .. Len(b)
      BY <1>1, <2>0, <2>2
    <3>3. b[i - n] = file[n + (i - n)] /\ n + (i - n) = i
      BY <1>1, <1>3, <3>2
    <3>4. ~(i <= n) /\ ~(i <= offset)
      BY <1>1, <2>0, <2>2
    <3> QED
      BY <3>1, <3>3, <3>4
  <2> QED
    BY <1>1, <2>0, <2>1, <2>2
<1> QED
  BY <1>1, <1>4, <1>6, <1>8, <1>9 DEF d, n

LEMMA OverlayKeeps ==
  ASSUME NEW file \in Edges, NEW edges \in Edges, NEW offset \in Nat, offset <= Len(file)
  PROVE  /\ Overlay(file, offset, edges) \in Edges
         /\ Len(Overlay(file, offset, edges)) >= Len(file)
         /\ Len(Overlay(file, offset, edges)) >= offset + Len(edges)
<1>1. file \in Seq(Int \X Int) /\ edges \in Seq(Int \X Int)
  BY DEF Edges
<1>2. Len(file) \in Nat /\ Len(edges) \in Nat
  BY <1>1
<1>3. offset \in 0 .. Len(file)
  BY <1>2
<1>4. /\ Overlay(file, offset, edges) \in Seq(Int \X Int)
      /\ Len(Overlay(file, offset, edges)) =
           IF offset + Len(edges) < Len(file) THEN Len(file) ELSE offset + Len(edges)
  BY <1>1, <1>3, OverlayIs
<1> QED
  BY <1>2, <1>4 DEF Edges

LEMMA ManagerKeeps ==
  ASSUME Shapes, UNCHANGED <<reading, created, settings, job>>,
         QueueTypes', ManagerTypes', FileTypes'
  PROVE  Shapes'
<1>1. UNCHANGED <<reader, kept, batch, arrived, announced>>
  BY DEF reading
<1> QED
  BY <1>1 DEF Shapes, ReaderTypes, SettingsGood, JobTypes, JobsCreate, ReadersRead, InMemory,
     Having, Admitted, Inserters

LEMMA FilesStay ==
  ASSUME Shapes, UNCHANGED files, UNCHANGED <<written, settings>>
  PROVE  FileTypes'
BY DEF Shapes, FileTypes, files, Persisting, Having

LEMMA ReleaseTypes ==
  ASSUME Shapes, NEW j \in Jobs, NEW m \in Managers, queue[j][m] # <<>>, Release(j, m)
  PROVE  QueueTypes'
<1>1. queue[j][m] \in Seq(Edges)
  BY DEF Shapes, QueueTypes
<1>2. Tail(queue[j][m]) \in Seq(Edges)
  BY <1>1
<1> QED
  BY <1>2 DEF Shapes, QueueTypes, Release

LEMMA ManagerHere ==
  ASSUME Shapes, NEW j \in Jobs, NEW m \in Managers
  PROVE  /\ queue[j][m] \in Seq(Edges) /\ stored[j][m] \in Edges
         /\ toWrite[j][m] \in Seq(Edges) /\ written[j][m] \in Nat
         /\ disk[j][m] \in Edges /\ backup[j][m] \in Edges /\ found[j][m] \in Edges
         /\ j \in Persisting => written[j][m] <= Len(disk[j][m])
         /\ queue[j][m] # <<>> => Head(queue[j][m]) \in Edges
         /\ toWrite[j][m] # <<>> =>
              Head(toWrite[j][m]) \in Edges /\ Tail(toWrite[j][m]) \in Seq(Edges)
<1>1. /\ queue[j][m] \in Seq(Edges) /\ stored[j][m] \in Edges
      /\ toWrite[j][m] \in Seq(Edges) /\ written[j][m] \in Nat
      /\ disk[j][m] \in Edges /\ backup[j][m] \in Edges /\ found[j][m] \in Edges
      /\ j \in Persisting => written[j][m] <= Len(disk[j][m])
  BY DEF Shapes, QueueTypes, ManagerTypes, FileTypes
<1>2. \A q \in Seq(Edges) : q # <<>> => Head(q) \in Edges /\ Tail(q) \in Seq(Edges)
  OBVIOUS
<1> QED
  BY <1>1, <1>2

LEMMA ManagerGoes ==
  ASSUME Shapes, NEW j \in Jobs, NEW m \in Managers,
         NEW place \in {"load", "loaded", "work", "persist", "stopped"},
         manager' = [manager EXCEPT ![j][m] = place]
  PROVE  manager' \in [Jobs -> [Managers -> {"load", "loaded", "work", "persist", "stopped"}]]
BY DEF Shapes, ManagerTypes

LEMMA LoadKeeps ==
  ASSUME Shapes, NEW j \in Jobs, NEW m \in Managers, Load(j, m)
  PROVE  Shapes'
<1>1. /\ UNCHANGED <<reading, created, queue, settings, job, files, written>>
      /\ \/ UNCHANGED managing
         \/ /\ stored' = [stored EXCEPT ![j][m] = backup[j][m]]
            /\ toWrite' = [toWrite EXCEPT ![j][m] = toWrite[j][m]]
            /\ manager' = [manager EXCEPT ![j][m] = "loaded"]
  BY DEF Load, LoadInto, ManagerGo, managing
<1>2. QueueTypes' /\ FileTypes'
  BY <1>1, QueueTypesStay, FilesStay
<1>3. ManagerTypes'
  <2>1. CASE UNCHANGED managing
    BY <2>1 DEF Shapes, ManagerTypes, managing
  <2>2. CASE ~(UNCHANGED managing)
    <3>1. /\ stored' = [stored EXCEPT ![j][m] = backup[j][m]]
          /\ toWrite' = [toWrite EXCEPT ![j][m] = toWrite[j][m]]
          /\ manager' = [manager EXCEPT ![j][m] = "loaded"] /\ UNCHANGED written
      BY <1>1, <2>2
    <3>2. backup[j][m] \in Edges /\ toWrite[j][m] \in Seq(Edges)
      BY ManagerHere
    <3>3. stored' \in [Jobs -> [Managers -> Edges]]
      BY <3>1, <3>2 DEF Shapes, ManagerTypes
    <3>4. toWrite' \in [Jobs -> [Managers -> Seq(Edges)]]
      BY <3>1, <3>2 DEF Shapes, ManagerTypes
    <3> QED
      BY <3>1, <3>3, <3>4, ManagerGoes DEF Shapes, ManagerTypes
  <2> QED
    BY <2>1, <2>2
<1> QED
  BY <1>1, <1>2, <1>3, ManagerKeeps

LEMMA LoadedKeeps ==
  ASSUME Shapes, NEW j \in Jobs, NEW m \in Managers, Loaded(j, m)
  PROVE  Shapes'
<1>1. /\ UNCHANGED <<reading, created, queue, settings, job, files, written, stored, toWrite>>
      /\ manager' = [manager EXCEPT ![j][m] = "work"]
  BY DEF Loaded, ManagerGo, system
<1>2. QueueTypes' /\ FileTypes'
  BY <1>1, QueueTypesStay, FilesStay
<1>3. ManagerTypes'
  BY <1>1 DEF Shapes, ManagerTypes
<1> QED
  BY <1>1, <1>2, <1>3, ManagerKeeps

LEMMA InsertKeeps ==
  ASSUME Shapes, NEW j \in Jobs, NEW m \in Managers, Insert(j, m)
  PROVE  Shapes'
<1>1. /\ UNCHANGED <<reading, created, settings, job, files, written, toWrite>>
      /\ queue[j][m] # <<>>
      /\ stored' = [stored EXCEPT ![j][m] = @ \o Head(queue[j][m])]
      /\ \/ manager' = [manager EXCEPT ![j][m] = "persist"] /\ UNCHANGED queue
         \/ Release(j, m) /\ UNCHANGED manager
  BY DEF Insert, ManagerGo, system
<1>2. FileTypes'
  BY <1>1, FilesStay
<1>3. QueueTypes'
  BY <1>1, ReleaseTypes, QueueTypesStay
<1>4. stored[j][m] \o Head(queue[j][m]) \in Edges
  BY <1>1, ManagerHere DEF Edges
<1>5. stored' \in [Jobs -> [Managers -> Edges]]
  BY <1>1, <1>4 DEF Shapes, ManagerTypes
<1>7. manager' \in [Jobs -> [Managers -> {"load", "loaded", "work", "persist", "stopped"}]]
  BY <1>1, ManagerGoes DEF Shapes, ManagerTypes
<1>6. ManagerTypes'
  BY <1>1, <1>5, <1>7 DEF Shapes, ManagerTypes
<1> QED
  BY <1>1, <1>2, <1>3, <1>6, ManagerKeeps

LEMMA PersistKeeps ==
  ASSUME Shapes, NEW j \in Jobs, NEW m \in Managers, queue[j][m] # <<>>, Persist(j, m)
  PROVE  Shapes'
<1>1. /\ UNCHANGED <<reading, created, settings, job, files, written, stored>>
      /\ toWrite' = [toWrite EXCEPT ![j][m] = Append(@, Head(queue[j][m]))]
      /\ manager' = [manager EXCEPT ![j][m] = "work"] /\ Release(j, m)
  BY DEF Persist, ManagerGo, system
<1>2. FileTypes' /\ QueueTypes'
  BY <1>1, FilesStay, ReleaseTypes
<1>3. Append(toWrite[j][m], Head(queue[j][m])) \in Seq(Edges)
  BY <1>1, ManagerHere
<1>4. ManagerTypes'
  BY <1>1, <1>3 DEF Shapes, ManagerTypes
<1> QED
  BY <1>1, <1>2, <1>4, ManagerKeeps

LEMMA StopKeeps ==
  ASSUME Shapes, NEW j \in Jobs, NEW m \in Managers, Stop(j, m)
  PROVE  Shapes'
<1>1. /\ UNCHANGED <<reading, created, queue, settings, job, files, written, stored>>
      /\ \/ toWrite' = [toWrite EXCEPT ![j][m] = Append(@, Shutdown)]
         \/ UNCHANGED toWrite
      /\ manager' = [manager EXCEPT ![j][m] = "stopped"]
  BY DEF Stop, ManagerGo, system
<1>2. FileTypes' /\ QueueTypes'
  BY <1>1, FilesStay, QueueTypesStay
<1>3. Shutdown \in Edges
  BY DEF Shutdown, Edges
<1>4. Append(toWrite[j][m], Shutdown) \in Seq(Edges)
  BY <1>3, ManagerHere
<1>5. toWrite' \in [Jobs -> [Managers -> Seq(Edges)]]
  <2>1. CASE UNCHANGED toWrite
    BY <2>1 DEF Shapes, ManagerTypes
  <2>2. CASE ~(UNCHANGED toWrite)
    <3>1. toWrite' = [toWrite EXCEPT ![j][m] = Append(@, Shutdown)]
      BY <1>1, <2>2
    <3> QED
      BY <1>4, <3>1 DEF Shapes, ManagerTypes
  <2> QED
    BY <2>1, <2>2
<1>7. manager' \in [Jobs -> [Managers -> {"load", "loaded", "work", "persist", "stopped"}]]
  BY <1>1, ManagerGoes
<1>6. ManagerTypes'
  BY <1>1, <1>5, <1>7 DEF Shapes, ManagerTypes
<1> QED
  BY <1>1, <1>2, <1>6, ManagerKeeps

(* Whatever part of the last batch is on disk, the files are lists of edges. *)
LEMMA RemainsType ==
  ASSUME Shapes, NEW part \in Parting
  PROVE  /\ Remains(part) \in [Jobs -> [Managers -> Edges]]
         /\ \A j \in Persisting, m \in Managers :
              Len(Remains(part)[j][m]) >= Len(disk[j][m])
<1>1. ASSUME NEW j \in Persisting, NEW m \in Managers
      PROVE  LET o == Overlay(disk[j][m], written[j][m], SubSeq(NextWrite(j, m), 1, part[j, m]))
             IN  o \in Edges /\ Len(o) >= Len(disk[j][m])
  <2>0. j \in Jobs
    BY DEF Persisting
  <2>1. NextWrite(j, m) \in Edges
    BY <2>0, ManagerHere DEF NextWrite, Edges
  <2>2. part[j, m] \in Int /\ part[j, m] <= Len(NextWrite(j, m))
    <3>1. <<j, m>> \in Persisting \X Managers
      OBVIOUS
    <3> DEFINE top == Max({settings[i].batch : i \in Persisting} \cup {0})
    <3>2. part \in [Persisting \X Managers -> 0 .. top]
      BY DEF Parting
    <3> HIDE DEF top
    <3>3. part[j, m] \in 0 .. top
      BY <3>1, <3>2
    <3>4. part[j, m] <= Len(NextWrite(j, m))
      BY DEF Parting
    <3>5. \A x \in 0 .. top : x \in Int
      OBVIOUS
    <3> QED
      BY <3>3, <3>4, <3>5
  <2> DEFINE w == NextWrite(j, m)
             k == part[j, m]
             s == SubSeq(w, 1, k)
  <2> HIDE DEF w, k
  <2>3. s \in Edges
    <3>1. w \in Seq(Int \X Int) /\ k \in Int /\ k <= Len(w)
      BY <2>1, <2>2 DEF Edges, w, k
    <3>2. \A i \in 1 .. k : w[i] \in Int \X Int
      BY <3>1
    <3> QED
      BY <3>1, <3>2 DEF Edges
  <2>4. disk[j][m] \in Edges /\ written[j][m] \in Nat /\ written[j][m] <= Len(disk[j][m])
    BY <2>0, ManagerHere
  <2> HIDE DEF s
  <2>5. Overlay(disk[j][m], written[j][m], s) \in Edges
        /\ Len(Overlay(disk[j][m], written[j][m], s)) >= Len(disk[j][m])
    BY <2>3, <2>4, OverlayKeeps
  <2> QED
    BY <2>5 DEF s, w, k
<1>2. <<>> \in Edges
  BY DEF Edges
<1>3. \A j \in Persisting : j \in Jobs
  BY DEF Persisting
<1> QED
  BY <1>1, <1>2, <1>3 DEF Remains

LEMMA RemainsLength ==
  ASSUME Shapes, NEW part \in Parting, NEW j \in Jobs, NEW m \in Managers
  PROVE  j \in Persisting => written[j][m] <= Len(Remains(part)[j][m])
<1> SUFFICES ASSUME j \in Persisting PROVE written[j][m] <= Len(Remains(part)[j][m])
  OBVIOUS
<1>1. Len(Remains(part)[j][m]) >= Len(disk[j][m])
  BY RemainsType
<1>2. /\ written[j][m] \in Nat /\ written[j][m] <= Len(disk[j][m]) /\ disk[j][m] \in Edges
      /\ Remains(part)[j][m] \in Edges
  BY RemainsType, ManagerHere
<1>3. Len(disk[j][m]) \in Nat /\ Len(Remains(part)[j][m]) \in Nat
  BY <1>2 DEF Edges
<1> QED
  BY <1>1, <1>2, <1>3
-------------------------------------------------------------------------------
(* What is sent, and when.  The sizes of the batches, and who has read what *)
(* before anything is sent.                                                 *)

\* Edges may be sent to the managers of the job.
Opened(j) ==
  /\ \A i \in Jobs : created[i] > 0
  /\ j \in InMemory => \A r \in 1 .. Inserters(j) : r \in arrived[j]

\* A reader at the barrier of a job has read its share, and past it so have
\* all others.
PlacedAt(r) ==
  /\ \A j \in Jobs : r \in arrived[j] =>
       r <= Inserters(j) /\ reader[r].at \notin {"wait"} \union Reading
  /\ reader[r].at \in {"flush", "final"} => Opened(reader[r].job)

ReadersPlaced == \A r \in Readers : PlacedAt(r)

BatchesSmall ==
  \A r \in Readers, j \in Jobs : Admitted(j) =>
    /\ batch[r][j].size < settings[j].batch
    /\ \A m \in Managers : Len(batch[r][j].edges[m]) <= batch[r][j].size

\* What comes from the readers comes late enough and in small messages.
MessageAt(j, m) ==
  /\ queue[j][m] # <<>> \/ Inserted(j, m) # <<>> => Opened(j)
  /\ Admitted(j) => \A k \in DOMAIN queue[j][m] :
       Len(queue[j][m][k]) <= settings[j].batch
  /\ manager[j][m] = "persist" => j \in Persisting /\ queue[j][m] # <<>>
  /\ toWrite[j][m] # <<>> => j \in Persisting

MessagesRight ==
  /\ \A j \in Jobs : announced[j] > 0 => Opened(j)
  /\ \A j \in Jobs, m \in Managers : MessageAt(j, m)

(* Where the batches in the ring of a writer begin and end among the edges  *)
(* inserted: they follow each other from what is written to what the        *)
(* manager has still to put there.                                          *)
Pending(j, m) == IF manager[j][m] = "persist" THEN Head(queue[j][m]) ELSE <<>>

Cuts(cut, new, ring, from, rest, size) ==
  LET n == Len(ring)
  IN  /\ cut \in [0 .. n -> 0 .. Len(new)] /\ cut[0] = from
      /\ \A k \in 1 .. n :
           cut[k] = cut[k - 1] + Len(ring[k]) /\ ring[k] = SubSeq(new, cut[k - 1] + 1, cut[k])
      /\ rest = SubSeq(new, cut[n] + 1, Len(new))
      /\ \A k \in 0 .. n : cut[k] <= cut[n] /\ cut[n] <= cut[k] + (n - k) * size

CutsAt(j, m) ==
  \E cut \in [0 .. Len(toWrite[j][m]) -> 0 .. Len(Inserted(j, m))] :
    Cuts(cut, Inserted(j, m), toWrite[j][m], written[j][m], Pending(j, m), settings[j].batch)

FiledAt(j, m) ==
  /\ manager[j][m] = "load" =>
       stored[j][m] = <<>> /\ toWrite[j][m] = <<>> /\ written[j][m] = 0
  /\ manager[j][m] # "load" =>
       /\ Len(backup[j][m]) <= Len(stored[j][m]) /\ Len(toWrite[j][m]) <= WriterRoom
       /\ CutsAt(j, m)
  /\ disk[j][m] = Overlay(found[j][m], 0, SubSeq(Inserted(j, m), 1, written[j][m]))

Filed == process = "up" => \A j \in Persisting, m \in Managers : FiledAt(j, m)

JInv == Shapes /\ IInv /\ ReadersPlaced /\ BatchesSmall /\ MessagesRight /\ Filed

LEMMA WriteKeeps ==
  ASSUME Shapes, NEW j \in Jobs, NEW m \in Managers, MessageAt(j, m), Write(j, m)
  PROVE  Shapes'
<1> DEFINE h == Head(toWrite[j][m])
           o == Overlay(disk[j][m], written[j][m], h)
<1>1. /\ UNCHANGED <<reading, created, queue, settings, job, manager, stored, backup, found>>
      /\ disk' = [disk EXCEPT ![j][m] = o]
      /\ written' = [written EXCEPT ![j][m] = @ + Len(h)]
      /\ toWrite' = [toWrite EXCEPT ![j][m] = Tail(@)] /\ toWrite[j][m] # <<>>
      /\ j \in Persisting
  BY DEF Write, system, MessageAt
<1>2. /\ h \in Edges /\ Tail(toWrite[j][m]) \in Seq(Edges) /\ disk[j][m] \in Edges
      /\ written[j][m] \in Nat /\ written[j][m] <= Len(disk[j][m])
  BY <1>1, ManagerHere
<1> HIDE DEF h
<1>3. Len(h) \in Nat /\ Len(disk[j][m]) \in Nat
  BY <1>2 DEF Edges
<1>4. o \in Edges /\ written[j][m] + Len(h) <= Len(o)
  BY <1>2, <1>3, OverlayKeeps
<1> HIDE DEF h, o
<1>5. QueueTypes'
  BY <1>1, QueueTypesStay
<1>6. ManagerTypes'
  BY <1>1, <1>2, <1>3 DEF Shapes, ManagerTypes
<1>7. FileTypes'
  <2>1. disk' \in [Jobs -> [Managers -> Edges]]
    BY <1>1, <1>4 DEF Shapes, FileTypes
  <2>2. ASSUME NEW i \in Persisting, NEW n \in Managers
        PROVE  written'[i][n] <= Len(disk'[i][n])
    <3>0. i \in Jobs
      BY DEF Persisting
    <3>1. CASE i = j /\ n = m
      <4>1. disk'[i][n] = o /\ written'[i][n] = written[j][m] + Len(h)
        BY <1>1, <3>0, <3>1 DEF Shapes, FileTypes, ManagerTypes
      <4> QED
        BY <1>4, <4>1
    <3>2. CASE ~(i = j /\ n = m)
      <4>1. disk'[i][n] = disk[i][n] /\ written'[i][n] = written[i][n]
        BY <1>1, <3>0, <3>2 DEF Shapes, FileTypes, ManagerTypes
      <4> QED
        BY <4>1 DEF Shapes, FileTypes
    <3> QED
      BY <3>1, <3>2
  <2> QED
    BY <1>1, <2>1, <2>2 DEF Shapes, FileTypes, Persisting, Having
<1> QED
  BY <1>1, <1>5, <1>6, <1>7, ManagerKeeps
-------------------------------------------------------------------------------
(* The readers and the jobs send no batch too early, and none too large.    *)

\* What a step may do to the queues.
Grows ==
  \A i \in Jobs, n \in Managers :
    \/ queue'[i][n] = queue[i][n]
    \/ /\ Opened(i)
       /\ \E e \in Edges :
            /\ queue'[i][n] = Append(queue[i][n], e)
            /\ Admitted(i) => Len(e) <= settings[i].batch

LEMMA SameGrows == UNCHANGED queue => Grows
BY DEF Grows

LEMMA SendGrows ==
  ASSUME Shapes, NEW j \in Jobs, Opened(j), NEW full \in Batches,
         \A m \in Managers : Len(full.edges[m]) <= settings[j].batch, Send(j, full)
  PROVE  Grows
<1> SUFFICES ASSUME NEW i \in Jobs, NEW n \in Managers, queue'[i][n] # queue[i][n]
             PROVE  /\ Opened(i)
                    /\ \E e \in Edges :
                         /\ queue'[i][n] = Append(queue[i][n], e)
                         /\ Admitted(i) => Len(e) <= settings[i].batch
  BY DEF Grows
<1>1. queue \in [Jobs -> [Managers -> Seq(Edges)]]
  BY DEF Shapes, QueueTypes
<1>2. i = j
  BY <1>1 DEF Send
<1>3. queue'[i][n] = IF full.edges[n] = <<>> THEN queue[i][n]
                     ELSE Append(queue[i][n], full.edges[n])
  BY <1>1, <1>2 DEF Send
<1>4. full.edges[n] \in Edges
  BY DEF Batches
<1> QED
  BY <1>2, <1>3, <1>4

LEMMA NextSmall ==
  ASSUME Shapes, BatchesSmall, NEW r \in Readers, NEW j \in Jobs, Admitted(j),
         NEW edge \in Int \X Int
  PROVE  LET next == [size |-> batch[r][j].size + 1,
                      edges |-> [batch[r][j].edges EXCEPT
                                   ![ManagerOf(j, edge)] = Append(@, edge)]]
         IN  /\ next.size <= settings[j].batch
             /\ \A m \in Managers : Len(next.edges[m]) <= next.size
<1> DEFINE x == ManagerOf(j, edge)
<1>1. batch[r][j] \in Batches /\ settings[j].batch \in Nat
  BY AcceptedSettings DEF Shapes, ReaderTypes
<1>2. x \in Managers
  BY ManagerOfEdge DEF Shapes
<1> HIDE DEF x
<1>3. batch[r][j].size \in Nat /\ batch[r][j].edges \in [Managers -> Edges]
  BY <1>1 DEF Batches
<1>4. /\ batch[r][j].size < settings[j].batch
      /\ \A m \in Managers : Len(batch[r][j].edges[m]) <= batch[r][j].size
  BY DEF BatchesSmall
<1>5. PICK s, f, c : s = batch[r][j].size /\ f = batch[r][j].edges /\ c = settings[j].batch
  OBVIOUS
<1>6. /\ s \in Nat /\ f \in [Managers -> Edges] /\ c \in Nat /\ s < c
      /\ \A m \in Managers : Len(f[m]) <= s
  BY <1>1, <1>3, <1>4, <1>5
<1>7. s + 1 <= c
  BY <1>6
<1>8. \A m \in Managers : Len([f EXCEPT ![x] = Append(@, edge)][m]) <= s + 1
  <2>1. \A e \in Edges : Len(e) \in Nat /\ Len(Append(e, edge)) = Len(e) + 1
    BY DEF Edges
  <2>2. \A m \in Managers : [f EXCEPT ![x] = Append(@, edge)][m]
                               = IF m = x THEN Append(f[m], edge) ELSE f[m]
    BY <1>6
  <2>3. \A m \in Managers : Len(f[m]) \in Nat /\ Len(Append(f[m], edge)) = Len(f[m]) + 1
    BY <1>6, <2>1
  <2> QED
    BY <1>6, <2>2, <2>3
<1> QED
  BY <1>5, <1>7, <1>8 DEF x

LEMMA NoEdgesSmall ==
  ASSUME Shapes, NEW j \in Jobs, Admitted(j)
  PROVE  /\ NoEdges.size < settings[j].batch
         /\ \A m \in Managers : Len(NoEdges.edges[m]) <= NoEdges.size
<1>1. settings[j].batch \in Nat \ {0}
  BY AcceptedSettings DEF Shapes
<1> QED
  BY <1>1 DEF NoEdges

\* A batch of one reader for one job is changed.
LEMMA SmallKeeps ==
  ASSUME Shapes, BatchesSmall, UNCHANGED settings, NEW r \in Readers, NEW j \in Jobs, NEW b,
         batch' = [batch EXCEPT ![r][j] = b],
         Admitted(j) => /\ b.size < settings[j].batch
                         /\ \A m \in Managers : Len(b.edges[m]) <= b.size
  PROVE  BatchesSmall'
<1> SUFFICES ASSUME NEW q \in Readers, NEW i \in Jobs, Admitted(i)
             PROVE  /\ batch'[q][i].size < settings[i].batch
                    /\ \A m \in Managers : Len(batch'[q][i].edges[m]) <= batch'[q][i].size
  BY DEF BatchesSmall, Admitted
<1>1. batch \in [Readers -> [Jobs -> Batches]]
  BY DEF Shapes, ReaderTypes
<1>2. CASE q = r /\ i = j
  <2>1. batch'[q][i] = b
    BY <1>1, <1>2
  <2> QED
    BY <1>2, <2>1
<1>3. CASE ~(q = r /\ i = j)
  <2>1. batch'[q][i] = batch[q][i]
    BY <1>1, <1>3
  <2> QED
    BY <2>1 DEF BatchesSmall
<1> QED
  BY <1>2, <1>3

LEMMA SmallStay == BatchesSmall /\ UNCHANGED <<settings, batch>> => BatchesSmall'
BY DEF BatchesSmall, Admitted

LEMMA ProcessSmall ==
  ASSUME Shapes, BatchesSmall, UNCHANGED settings, NEW r \in Readers, NEW j \in Jobs,
         Admitted(j), Opened(j), NEW edge \in Int \X Int, Process(r, j, edge)
  PROVE  Grows /\ BatchesSmall'
<1> DEFINE next == [size |-> batch[r][j].size + 1,
                    edges |-> [batch[r][j].edges EXCEPT
                                 ![ManagerOf(j, edge)] = Append(@, edge)]]
<1>1. next \in Batches
  BY NextBatch
<1>2. next.size <= settings[j].batch /\ \A m \in Managers : Len(next.edges[m]) <= next.size
  BY NextSmall
<1>3. IF next.size >= settings[j].batch
      THEN batch' = [batch EXCEPT ![r][j] = NoEdges] /\ Send(j, next)
      ELSE batch' = [batch EXCEPT ![r][j] = next] /\ UNCHANGED queue
  BY DEF Process
<1> HIDE DEF next
<1>4. next.size \in Nat /\ next.edges \in [Managers -> Edges]
  BY <1>1 DEF Batches
<1>5. settings[j].batch \in Nat /\ \A e \in Edges : Len(e) \in Nat
  BY AcceptedSettings DEF Shapes, Edges
<1>6. CASE next.size >= settings[j].batch
  <2>1. \A m \in Managers : Len(next.edges[m]) <= settings[j].batch
    BY <1>2, <1>4, <1>5
  <2>2. Grows
    BY <1>1, <1>3, <1>6, <2>1, SendGrows
  <2>3. BatchesSmall'
    BY <1>3, <1>6, NoEdgesSmall, SmallKeeps
  <2> QED
    BY <2>2, <2>3
<1>7. CASE ~(next.size >= settings[j].batch)
  <2>1. next.size < settings[j].batch
    BY <1>4, <1>5, <1>7
  <2> QED
    BY <1>2, <1>3, <1>7, <2>1, SmallKeeps, SameGrows
<1> QED
  BY <1>6, <1>7

\* What is open stays open.
LEMMA OpenedStays ==
  ASSUME Shapes, UNCHANGED settings, NEW j \in Jobs, Opened(j),
         \A i \in Jobs : created'[i] \in Nat /\ created'[i] >= created[i],
         \A i \in Jobs : arrived[i] \subseteq arrived'[i]
  PROVE  Opened(j)'
<1>1. created \in [Jobs -> Nat]
  BY DEF Shapes, JobTypes
<1>2. \A i \in Jobs : created'[i] > 0
  BY <1>1 DEF Opened
<1>3. UNCHANGED <<InMemory, Inserters(j)>>
  BY DEF InMemory, Having, Inserters
<1> QED
  BY <1>2, <1>3 DEF Opened

\* Once the barrier is full, everybody has come.
LEMMA FullOpens ==
  ASSUME Shapes, ReadersPlaced, NEW j \in Jobs, Admitted(j), Full(j),
         \A i \in Jobs : created[i] > 0
  PROVE  Opened(j)
<1>1. Inserters(j) \in Nat
  BY AcceptedSettings, ReaderNumbers DEF Shapes
<1>2. arrived[j] \subseteq Readers \union {0}
  BY DEF Shapes, ReaderTypes
<1>3. \A r \in Readers : r \in Nat /\ r > 0
  BY ReaderNumbers
<1>4. arrived[j] \in SUBSET (0 .. Inserters(j))
  BY <1>1, <1>2, <1>3 DEF ReadersPlaced, PlacedAt
<1>5. /\ IsFiniteSet(0 .. Inserters(j))
      /\ Cardinality(0 .. Inserters(j)) = Inserters(j) + 1
  <2>1. 0 \in Int /\ Inserters(j) \in Int /\ ~(0 > Inserters(j))
    BY <1>1
  <2>2. /\ IsFiniteSet(0 .. Inserters(j))
        /\ Cardinality(0 .. Inserters(j)) = IF 0 > Inserters(j) THEN 0 ELSE Inserters(j) - 0 + 1
    BY <2>1, FS_Interval
  <2> QED
    BY <1>1, <2>2
<1>6. arrived[j] = 0 .. Inserters(j)
  BY <1>4, <1>5, FS_Subset DEF Full
<1> QED
  BY <1>1, <1>6 DEF Opened

\* A reader has gone to its next place.
LEMMA PlacedKeeps ==
  ASSUME Shapes, ReadersPlaced, UNCHANGED <<settings, created>>, NEW r \in Readers, NEW next,
         reader' = [reader EXCEPT ![r] = next],
         \A i \in Jobs : arrived[i] \subseteq arrived'[i]
                           /\ arrived'[i] \subseteq arrived[i] \union {0, r},
         \A j \in Jobs : r \in arrived'[j] =>
           r <= Inserters(j) /\ next.at \notin {"wait"} \union Reading,
         next.at \in {"flush", "final"} => next.job \in Jobs /\ Opened(next.job)
  PROVE  ReadersPlaced'
<1> SUFFICES ASSUME NEW q \in Readers PROVE PlacedAt(q)'
  BY DEF ReadersPlaced
<1>1. \A j \in Jobs : Inserters(j)' = Inserters(j)
  BY DEF Inserters
<1>2. \A j \in Jobs : Opened(j) => Opened(j)'
  <2>1. \A i \in Jobs : created'[i] \in Nat /\ created'[i] >= created[i]
    BY DEF Shapes, JobTypes
  <2> QED
    BY <2>1, OpenedStays
<1>3. reader \in [Readers -> ReaderRecords]
  BY DEF Shapes, ReaderTypes
<1>4. CASE q = r
  <2>1. reader'[q] = next
    BY <1>3, <1>4
  <2>2. \A j \in Jobs : q \in arrived'[j] =>
          q <= Inserters(j)' /\ reader'[q].at \notin {"wait"} \union Reading
    BY <1>1, <1>4, <2>1
  <2>3. (reader[q].at \in {"flush", "final"} => Opened(reader[q].job))'
    BY <1>2, <2>1 DEF Opened
  <2> QED
    BY <2>2, <2>3 DEF PlacedAt
<1>5. CASE q # r
  <2>1. reader'[q] = reader[q] /\ reader[q].job \in Jobs /\ PlacedAt(q)
    BY <1>3, <1>5 DEF ReaderRecords, ReadersPlaced
  <2>2. \A j \in Jobs : q \in arrived'[j] => q \in arrived[j]
    BY <1>5, ReaderNumbers
  <2>3. \A j \in Jobs : q \in arrived'[j] =>
          q <= Inserters(j)' /\ reader'[q].at \notin {"wait"} \union Reading
    BY <1>1, <2>1, <2>2 DEF PlacedAt
  <2>4. (reader[q].at \in {"flush", "final"} => Opened(reader[q].job))'
    BY <1>2, <2>1 DEF PlacedAt, Opened
  <2> QED
    BY <2>3, <2>4 DEF PlacedAt
<1> QED
  BY <1>4, <1>5

\* What a step of a reader does.
ReaderDoes ==
  /\ Grows /\ BatchesSmall' /\ ReadersPlaced'
  /\ \A j \in Jobs : announced'[j] = announced[j] \/ Opened(j)

Placed == Shapes /\ ReadersPlaced /\ BatchesSmall

LEMMA NotArrived ==
  ASSUME Placed, NEW r \in Readers, reader[r].at \in {"wait"} \union Reading, NEW j \in Jobs
  PROVE  r \notin arrived[j]
BY DEF Placed, ReadersPlaced, PlacedAt

LEMMA SendingOpens ==
  ASSUME Shapes, NEW r \in Readers, ~At(r, "wait"), NEW j \in Jobs, j \notin InMemory
  PROVE  Opened(j)
BY ReaderHere DEF Opened

\* A reader moves on, sends nothing and has not come to a barrier.
LEMMA MoveDoes ==
  ASSUME Placed, UNCHANGED <<settings, created, arrived, announced, batch, queue>>,
         NEW r \in Readers, NEW next, reader' = [reader EXCEPT ![r] = next],
         \/ reader[r].at \in {"wait"} \union Reading
         \/ next.at \notin {"wait"} \union Reading,
         next.at \in {"flush", "final"} => next.job \in Jobs /\ Opened(next.job)
  PROVE  ReaderDoes
<1>1. Shapes /\ ReadersPlaced /\ BatchesSmall
  BY DEF Placed
<1>2. \A i \in Jobs : arrived[i] \subseteq arrived'[i]
                        /\ arrived'[i] \subseteq arrived[i] \union {0, r}
  OBVIOUS
<1>3. \A j \in Jobs : r \in arrived'[j] =>
        r <= Inserters(j) /\ next.at \notin {"wait"} \union Reading
  BY <1>1, NotArrived DEF ReadersPlaced, PlacedAt
<1>4. ReadersPlaced'
  BY <1>1, <1>2, <1>3, PlacedKeeps
<1> QED
  BY <1>1, <1>4, SameGrows, SmallStay DEF ReaderDoes

LEMMA AddDoes ==
  ASSUME Placed, ReadersLeave, NEW r \in Readers, reader[r].at \in Reading,
         NEW edge \in Int \X Int, Add(r, edge)
  PROVE  ReaderDoes
<1> DEFINE j == reader[r].job
<1>0. Shapes /\ ReadersPlaced /\ BatchesSmall
  BY DEF Placed
<1>1. j \in Jobs /\ Admitted(j) /\ ~At(r, "wait")
  BY <1>0, ReaderHere DEF At, Reading
<1>2. reader' = [reader EXCEPT ![r] = After(r)]
  BY DEF Add, Advance, After
<1>3. UNCHANGED <<settings, created, arrived, announced>>
  BY DEF Add, ReadersLeave
<1>4. ReadersPlaced'
  <2>1. After(r).at \notin {"flush", "final"}
    <3>1. PICK s : s = reader[r] /\ s \in ReaderRecords
      BY <1>0, ReaderHere
    <3>2. [s EXCEPT !.at = "edge", !.job = @ + 1].at = "edge"
      BY <3>1 DEF ReaderRecords
    <3>3. [s EXCEPT !.job = 1, !.edge = @ + 1,
             !.at = IF s.edge < EndId(r) THEN "edge" ELSE "finish"].at
               \in {"edge", "finish"}
      BY <3>1 DEF ReaderRecords
    <3> QED
      BY <3>1, <3>2, <3>3 DEF After
  <2>2. \A i \in Jobs : r \notin arrived'[i]
    BY <1>3, NotArrived
  <2>3. \A i \in Jobs : arrived[i] \subseteq arrived'[i]
                          /\ arrived'[i] \subseteq arrived[i] \union {0, r}
    BY <1>3
  <2> QED
    BY <1>0, <1>2, <1>3, <2>1, <2>2, <2>3, PlacedKeeps
<1>5. Grows /\ BatchesSmall'
  <2>1. CASE j \in InMemory
    BY <1>0, <1>3, <2>1, SameGrows, SmallStay DEF Add
  <2>2. CASE j \notin InMemory
    <3>1. Process(r, j, edge)
      BY <2>2 DEF Add
    <3>2. Opened(j)
      BY <1>0, <1>1, <2>2, SendingOpens
    <3> QED
      BY <1>0, <1>1, <1>3, <3>1, <3>2, ProcessSmall
  <2> QED
    BY <2>1, <2>2
<1> QED
  BY <1>3, <1>4, <1>5 DEF ReaderDoes

LEMMA StartDoes ==
  ASSUME Placed, ReadersLeave, NEW r \in Readers, Start(r)
  PROVE  ReaderDoes
<1> DEFINE place == IF StartId(r) <= EndId(r) THEN "edge" ELSE "finish"
           next == [reader[r] EXCEPT !.edge = StartId(r), !.at = place]
<1>1. /\ reader' = [reader EXCEPT ![r] = next] /\ reader[r].at = "wait"
      /\ UNCHANGED <<settings, created, arrived, announced, batch, queue>>
  BY DEF Start, At
<1>2. next.at = place
  <2>1. PICK s, x, y : s = reader[r] /\ x = place /\ y = StartId(r)
    OBVIOUS
  <2>2. s \in ReaderRecords
    BY <2>1, ReaderHere DEF Placed
  <2>3. [s EXCEPT !.edge = y, !.at = x] = [at |-> x, edge |-> y, job |-> s.job, src |-> s.src]
    BY <2>2, RecordForms
  <2> QED
    BY <2>1, <2>3
<1>3. next.at \notin {"flush", "final"}
  BY <1>2
<1> HIDE DEF next
<1> QED
  BY <1>1, <1>3, MoveDoes

LEMMA SourceDoes ==
  ASSUME Placed, ReadersLeave, NEW r \in Readers, TranslateSource(r)
  PROVE  ReaderDoes
<1> DEFINE next == [reader[r] EXCEPT !.at = "source"]
<1>1. /\ reader' = [reader EXCEPT ![r] = next] /\ reader[r].at = "edge"
      /\ UNCHANGED <<settings, created, arrived, announced, batch, queue>>
  BY DEF TranslateSource, At
<1>2. next.at = "source"
  <2>1. next = [at |-> "source", edge |-> reader[r].edge, job |-> reader[r].job,
                src |-> reader[r].src]
    BY ReaderHere, RecordForms DEF Placed
  <2> QED
    BY <2>1
<1> HIDE DEF next
<1> QED
  BY <1>1, <1>2, MoveDoes DEF Reading

LEMMA TargetDoes ==
  ASSUME Placed, ReadersLeave, NEW r \in Readers, TranslateTarget(r)
  PROVE  ReaderDoes
<1> DEFINE next == [reader[r] EXCEPT !.at = "target", !.src = translated[r]]
<1>1. /\ reader' = [reader EXCEPT ![r] = next] /\ reader[r].at = "source"
      /\ UNCHANGED <<settings, created, arrived, announced, batch, queue>>
  BY DEF TranslateTarget, At
<1>2. next.at = "target"
  <2>1. PICK s, x : s = reader[r] /\ x = translated[r]
    OBVIOUS
  <2>2. s \in ReaderRecords
    BY <2>1, ReaderHere DEF Placed
  <2>3. [s EXCEPT !.at = "target", !.src = x]
          = [at |-> "target", edge |-> s.edge, job |-> s.job, src |-> x]
    BY <2>2, RecordForms
  <2> QED
    BY <2>1, <2>3
<1> HIDE DEF next
<1> QED
  BY <1>1, <1>2, MoveDoes DEF Reading

LEMMA TranslateDoes ==
  ASSUME Placed, ReadersLeave, NEW r \in Readers, Translate(r)
  PROVE  ReaderDoes
<1>1. UNCHANGED <<reader, settings, created, arrived, announced, batch, queue>>
  BY DEF Translate, reading
<1>2. ReadersPlaced'
  BY <1>1 DEF Placed, ReadersPlaced, PlacedAt, Opened, Inserters, InMemory, Having
<1> QED
  BY <1>1, <1>2, SameGrows, SmallStay DEF ReaderDoes, Placed

LEMMA FinishDoes ==
  ASSUME Placed, ReadersLeave, NEW r \in Readers, FinishOrWait(r)
  PROVE  ReaderDoes
<1> DEFINE j == reader[r].job
           place == IF j \in InMemory THEN "barrier" ELSE "final"
           next == [reader[r] EXCEPT !.at = place]
<1>0. Shapes /\ ReadersPlaced /\ BatchesSmall
  BY DEF Placed
<1>1. /\ reader' = [reader EXCEPT ![r] = next] /\ At(r, "finish")
      /\ UNCHANGED <<settings, created, announced, batch, queue>>
      /\ arrived' = [arrived EXCEPT ![j] = @ \cup {r}] \/ arrived' = arrived
  BY DEF FinishOrWait, ReadersLeave
<1>2. next = [at |-> place, edge |-> reader[r].edge, job |-> j, src |-> reader[r].src]
  BY <1>0, ReaderHere, RecordForms
<1>3. j \in Jobs /\ \A i \in Jobs : created[i] >= r /\ created[i] > 0
  BY <1>0, <1>1, ReaderHere DEF At
<1>4. \A i \in Jobs : r <= Inserters(i)
  <2>1. \A i \in Jobs : created[i] \in Nat /\ created[i] <= Inserters(i) /\ Admitted(i)
    BY <1>0, <1>3 DEF Shapes, JobTypes, JobsCreate
  <2>2. \A i \in Jobs : Inserters(i) \in Nat
    BY <1>0, <2>1, AcceptedSettings, ReaderNumbers DEF Shapes
  <2>3. r \in Nat
    BY ReaderNumbers
  <2> QED
    BY <1>3, <2>1, <2>2, <2>3
<1>5. \A i \in Jobs : arrived[i] \subseteq arrived'[i]
                        /\ arrived'[i] \subseteq arrived[i] \union {0, r}
  BY <1>0, <1>1 DEF Shapes, ReaderTypes
<1>6. next.at \notin {"wait"} \union Reading /\ next.job \in Jobs
  BY <1>2, <1>3 DEF Reading
<1>7. next.at \in {"flush", "final"} => Opened(next.job)
  <2>1. j \notin InMemory => Opened(j)
    BY <1>0, <1>1, <1>3, SendingOpens DEF At
  <2> QED
    BY <1>2, <2>1
<1> HIDE DEF next
<1>8. ReadersPlaced'
  BY <1>0, <1>1, <1>4, <1>5, <1>6, <1>7, PlacedKeeps
<1> QED
  BY <1>0, <1>1, <1>8, SameGrows, SmallStay DEF ReaderDoes

LEMMA PassDoes ==
  ASSUME Placed, ReadersLeave, NEW r \in Readers, Pass(r)
  PROVE  ReaderDoes
<1> DEFINE j == reader[r].job
           next == [reader[r] EXCEPT !.at = "flush"]
<1>0. Shapes /\ ReadersPlaced /\ BatchesSmall
  BY DEF Placed
<1>1. /\ reader' = [reader EXCEPT ![r] = next] /\ At(r, "barrier") /\ Full(j)
      /\ UNCHANGED <<settings, created, arrived, announced, batch, queue>>
  BY DEF Pass, ReadersLeave
<1>2. next = [at |-> "flush", edge |-> reader[r].edge, job |-> j, src |-> reader[r].src]
  BY <1>0, ReaderHere, RecordForms
<1>3. j \in Jobs /\ Admitted(j) /\ \A i \in Jobs : created[i] > 0
  BY <1>0, <1>1, ReaderHere DEF At
<1>4. Opened(j)
  BY <1>0, <1>1, <1>3, FullOpens
<1>5. next.at = "flush" /\ next.job = j
  BY <1>2
<1> HIDE DEF next
<1> QED
  BY <1>1, <1>3, <1>4, <1>5, MoveDoes DEF Reading

LEMMA FlushDoes ==
  ASSUME Placed, ReadersLeave, NEW r \in Readers, Flush(r)
  PROVE  ReaderDoes
<1> DEFINE j == reader[r].job
<1>0. Shapes /\ ReadersPlaced /\ BatchesSmall
  BY DEF Placed
<1>1. /\ j \in Jobs /\ Admitted(j) /\ At(r, "flush")
      /\ UNCHANGED <<settings, created, arrived, announced>>
  BY <1>0, ReaderHere DEF Flush, At, ReadersLeave
<1>2. Opened(j)
  BY <1>0, <1>1 DEF ReadersPlaced, PlacedAt, At
<1>3. CASE kept[r][j] = <<>>
  <2> DEFINE next == [reader[r] EXCEPT !.at = "final"]
  <2>1. reader' = [reader EXCEPT ![r] = next] /\ UNCHANGED <<batch, queue>>
    BY <1>3 DEF Flush
  <2>2. next = [at |-> "final", edge |-> reader[r].edge, job |-> j, src |-> reader[r].src]
    BY <1>0, ReaderHere, RecordForms
  <2>3. next.at = "final" /\ next.job = j
    BY <2>2
  <2> HIDE DEF next
  <2> QED
    BY <1>1, <1>2, <2>1, <2>3, MoveDoes DEF Reading
<1>4. CASE kept[r][j] # <<>>
  <2>1. Process(r, j, Head(kept[r][j])) /\ UNCHANGED reader
    BY <1>4 DEF Flush
  <2>2. kept[r][j] \in Seq(Int \X Int)
    BY <1>0, <1>1 DEF Shapes, ReaderTypes, Edges
  <2>3. Head(kept[r][j]) \in Int \X Int
    BY <1>4, <2>2
  <2>4. Grows /\ BatchesSmall'
    BY <1>0, <1>1, <1>2, <2>1, <2>3, ProcessSmall
  <2>5. ReadersPlaced'
    BY <1>0, <1>1, <2>1 DEF ReadersPlaced, PlacedAt, Opened, Inserters, InMemory, Having
  <2> QED
    BY <1>1, <2>4, <2>5 DEF ReaderDoes
<1> QED
  BY <1>3, <1>4

LEMMA SendFinalDoes ==
  ASSUME Placed, ReadersLeave, NEW r \in Readers, SendFinal(r)
  PROVE  ReaderDoes
<1> DEFINE j == reader[r].job
           s == reader[r]
           place == IF j < JobCount THEN "finish" ELSE "done"
           following == IF j < JobCount THEN j + 1 ELSE 1
           next == [s EXCEPT !.at = place, !.job = following]
<1>0. Shapes /\ ReadersPlaced /\ BatchesSmall
  BY DEF Placed
<1>1. /\ j \in Jobs /\ Admitted(j) /\ At(r, "final") /\ s \in ReaderRecords
      /\ UNCHANGED <<settings, created, arrived>>
  BY <1>0, ReaderHere DEF SendFinal, At, ReadersLeave
<1>2. /\ reader' = [reader EXCEPT ![r] = next] /\ Send(j, batch[r][j])
      /\ batch' = [batch EXCEPT ![r][j] = NoEdges]
      /\ announced' = [announced EXCEPT ![j] = @ + 1]
  BY DEF SendFinal
<1>3. Opened(j)
  BY <1>0, <1>1 DEF ReadersPlaced, PlacedAt, At
<1>4. Grows
  <2>1. batch[r][j] \in Batches
    BY <1>0, <1>1 DEF Shapes, ReaderTypes
  <2>2. batch[r][j].size \in Nat /\ batch[r][j].edges \in [Managers -> Edges]
    BY <2>1 DEF Batches
  <2>3. settings[j].batch \in Nat /\ \A e \in Edges : Len(e) \in Nat
    BY <1>0, <1>1, AcceptedSettings DEF Shapes, Edges
  <2>4. \A m \in Managers : Len(batch[r][j].edges[m]) <= settings[j].batch
    BY <1>0, <1>1, <2>2, <2>3 DEF BatchesSmall
  <2> QED
    BY <1>0, <1>1, <1>2, <1>3, <2>1, <2>4, SendGrows
<1>5. BatchesSmall'
  BY <1>0, <1>1, <1>2, NoEdgesSmall, SmallKeeps
<1>6. \A i \in Jobs : announced'[i] = announced[i] \/ Opened(i)
  BY <1>0, <1>2, <1>3 DEF Shapes, ReaderTypes
<1>7. next.at \in {"finish", "done"}
  <2>1. place \in {"finish", "done"}
    OBVIOUS
  <2> HIDE DEF place, following, s
  <2>2. next.at = place
    BY <1>1 DEF ReaderRecords
  <2> QED
    BY <2>1, <2>2
<1> HIDE DEF next
<1>8. \A i \in Jobs : r \in arrived'[i] => r <= Inserters(i)
  BY <1>0, <1>1 DEF ReadersPlaced, PlacedAt
<1>9. \A i \in Jobs : arrived[i] \subseteq arrived'[i]
                        /\ arrived'[i] \subseteq arrived[i] \union {0, r}
  BY <1>1
<1>10. ReadersPlaced'
  BY <1>0, <1>1, <1>2, <1>7, <1>8, <1>9, PlacedKeeps DEF Reading
<1> QED
  BY <1>4, <1>5, <1>6, <1>10 DEF ReaderDoes

LEMMA ReaderStepDoes ==
  ASSUME Placed, IInv, ReadersLeave, NEW r \in Readers, ReaderStep(r)
  PROVE  ReaderDoes
<1>1. CASE AddEdge(r)
  <2>1. reader[r].at \in Reading /\ Add(r, Input[reader[r].edge])
    BY <1>1 DEF AddEdge, At, Reading
  <2> QED
    BY <2>1, EdgeHere, AddDoes DEF Placed
<1>2. CASE AddTranslated(r)
  <2>1. reader[r].at \in Reading /\ Add(r, <<reader[r].src, translated[r]>>)
    BY <1>2 DEF AddTranslated, At, Reading
  <2>2. <<reader[r].src, translated[r]>> \in Int \X Int
    BY ReaderHere DEF IInv, TypeOK, Placed
  <2> QED
    BY <2>1, <2>2, AddDoes
<1> QED
  BY <1>1, <1>2, StartDoes, SourceDoes, TargetDoes, TranslateDoes, FinishDoes, PassDoes,
     FlushDoes, SendFinalDoes DEF ReaderStep
-------------------------------------------------------------------------------
(* The ring of a writer between what is written and what is inserted.       *)
LEMMA SubSeqIs ==
  ASSUME NEW S, NEW s \in Seq(S), NEW a \in Nat \ {0}, NEW b \in Nat, b <= Len(s)
  PROVE  /\ SubSeq(s, a, b) \in Seq(S)
         /\ Len(SubSeq(s, a, b)) = IF a <= b THEN b - a + 1 ELSE 0
         /\ \A i \in 1 .. Len(SubSeq(s, a, b)) : SubSeq(s, a, b)[i] = s[a + i - 1]
<1>1. Len(s) \in Nat
  OBVIOUS
<1>2. \A i \in a .. b : s[i] \in S
  BY <1>1
<1> QED
  BY <1>1, <1>2

LEMMA SameSeq ==
  ASSUME NEW S, NEW s \in Seq(S), NEW t \in Seq(S), Len(s) = Len(t),
         \A i \in 1 .. Len(s) : s[i] = t[i]
  PROVE  s = t
OBVIOUS

(* A part of the beginning is a part of the whole.                          *)
LEMMA SubSeqOfConcat ==
  ASSUME NEW S, NEW s \in Seq(S), NEW t \in Seq(S), NEW a \in Nat \ {0}, NEW b \in Nat,
         b <= Len(s)
  PROVE  SubSeq(s \o t, a, b) = SubSeq(s, a, b)
<1> DEFINE u == s \o t
<1>1. /\ u \in Seq(S) /\ Len(u) = Len(s) + Len(t)
      /\ \A i \in 1 .. Len(s) + Len(t) :
           u[i] = IF i <= Len(s) THEN s[i] ELSE t[i - Len(s)]
  BY ConcatIs
<1>2. Len(s) \in Nat /\ Len(t) \in Nat /\ b <= Len(u)
  BY <1>1
<1> HIDE DEF u
<1> DEFINE x == SubSeq(u, a, b)
           y == SubSeq(s, a, b)
<1>3. /\ x \in Seq(S) /\ Len(x) = IF a <= b THEN b - a + 1 ELSE 0
      /\ \A i \in 1 .. Len(x) : x[i] = u[a + i - 1]
  BY <1>1, <1>2, SubSeqIs
<1>4. /\ y \in Seq(S) /\ Len(y) = IF a <= b THEN b - a + 1 ELSE 0
      /\ \A i \in 1 .. Len(y) : y[i] = s[a + i - 1]
  BY SubSeqIs
<1> HIDE DEF x, y
<1>5. ASSUME NEW i \in 1 .. Len(x) PROVE x[i] = y[i]
  <2>1. /\ i \in Nat /\ i >= 1 /\ a <= b /\ i <= b - a + 1 /\ i \in 1 .. Len(y)
    BY <1>3, <1>4
  <2>2. a + i - 1 \in 1 .. Len(s) + Len(t) /\ a + i - 1 <= Len(s)
    BY <1>2, <2>1
  <2> QED
    BY <1>1, <1>3, <1>4, <2>1, <2>2
<1>6. x = y
  BY <1>3, <1>4, <1>5, SameSeq
<1> QED
  BY <1>6 DEF x, y, u

LEMMA RestOfConcat ==
  ASSUME NEW S, NEW s \in Seq(S), NEW t \in Seq(S)
  PROVE  SubSeq(s \o t, Len(s) + 1, Len(s \o t)) = t
<1> DEFINE u == s \o t
<1>1. /\ u \in Seq(S) /\ Len(u) = Len(s) + Len(t)
      /\ \A i \in 1 .. Len(s) + Len(t) :
           u[i] = IF i <= Len(s) THEN s[i] ELSE t[i - Len(s)]
  BY ConcatIs
<1>2. Len(s) \in Nat /\ Len(t) \in Nat
  OBVIOUS
<1> HIDE DEF u
<1> DEFINE x == SubSeq(u, Len(s) + 1, Len(u))
<1>3. /\ x \in Seq(S)
      /\ Len(x) = IF Len(s) + 1 <= Len(u) THEN Len(u) - (Len(s) + 1) + 1 ELSE 0
      /\ \A i \in 1 .. Len(x) : x[i] = u[(Len(s) + 1) + i - 1]
  BY <1>1, <1>2, SubSeqIs
<1> HIDE DEF x
<1>4. Len(x) = Len(t)
  BY <1>1, <1>2, <1>3
<1>5. ASSUME NEW i \in 1 .. Len(x) PROVE x[i] = t[i]
  <2>1. (Len(s) + 1) + i - 1 = Len(s) + i /\ Len(s) + i \in 1 .. Len(s) + Len(t)
        /\ ~(Len(s) + i <= Len(s)) /\ Len(s) + i - Len(s) = i
    BY <1>2, <1>4
  <2>2. x[i] = u[Len(s) + i]
    BY <1>3, <2>1
  <2> QED
    BY <1>1, <2>1, <2>2
<1>6. x = t
  BY <1>3, <1>4, <1>5, SameSeq
<1> QED
  BY <1>6 DEF x, u

LEMMA NoneAfter ==
  ASSUME NEW S, NEW s \in Seq(S), NEW a \in Nat, a <= Len(s), SubSeq(s, a + 1, Len(s)) = <<>>
  PROVE  a = Len(s)
<1>1. Len(s) \in Nat /\ a + 1 \in Nat \ {0} /\ Len(s) <= Len(s)
  OBVIOUS
<1>2. Len(SubSeq(s, a + 1, Len(s))) = IF a + 1 <= Len(s) THEN Len(s) - (a + 1) + 1 ELSE 0
  BY <1>1, SubSeqIs
<1> QED
  BY <1>1, <1>2

LEMMA EmptyPart ==
  ASSUME NEW S, NEW s \in Seq(S), NEW a \in Nat, a <= Len(s)
  PROVE  SubSeq(s, a + 1, a) = <<>>
<1>1. Len(SubSeq(s, a + 1, a)) = 0 /\ SubSeq(s, a + 1, a) \in Seq(S)
  <2>1. a + 1 \in Nat \ {0} /\ ~(a + 1 <= a)
    OBVIOUS
  <2> QED
    BY <2>1, SubSeqIs
<1> QED
  BY <1>1

LEMMA CutTypes ==
  ASSUME NEW n \in Nat, NEW l \in Nat, NEW cut \in [0 .. n -> 0 .. l]
  PROVE  \A k \in 0 .. n : cut[k] \in Nat /\ cut[k] <= l
<1>1. \A k \in 0 .. n : cut[k] \in 0 .. l
  OBVIOUS
<1> QED
  BY <1>1

(* Nothing inserted, and nothing in the ring.                               *)
LEMMA CutsEmpty ==
  ASSUME NEW size \in Nat
  PROVE  \E cut \in [0 .. Len(<<>>) -> 0 .. Len(<<>>)] : Cuts(cut, <<>>, <<>>, 0, <<>>, size)
<1> DEFINE cut == [k \in 0 .. 0 |-> 0]
<1>1. Len(<<>>) = 0
  OBVIOUS
<1>2. cut \in [0 .. 0 -> 0 .. 0] /\ cut[0] = 0
  OBVIOUS
<1>3. SubSeq(<<>>, 0 + 1, 0) = <<>>
  <2>1. <<>> \in Seq(Int) /\ 0 <= Len(<<>>)
    OBVIOUS
  <2> QED
    BY <2>1, EmptyPart
<1>4. \A k \in 0 .. 0 : cut[k] <= cut[0] /\ cut[0] <= cut[k] + (0 - k) * size
  <2>1. 0 - 0 = 0 /\ 0 * size = 0
    OBVIOUS
  <2> QED
    BY <1>2, <2>1
<1> HIDE DEF cut
<1>5. \A k \in 1 .. 0 : FALSE
  OBVIOUS
<1>6. Cuts(cut, <<>>, <<>>, 0, <<>>, size)
  BY <1>1, <1>2, <1>3, <1>4, <1>5 DEF Cuts
<1> QED
  BY <1>1, <1>2, <1>6

(* The manager has inserted a batch, and has still to put it into the ring. *)
LEMMA CutsInsert ==
  ASSUME NEW S, NEW new \in Seq(S), NEW h \in Seq(S), NEW ring \in Seq(Seq(S)), NEW from,
         NEW size \in Nat, NEW cut, Cuts(cut, new, ring, from, <<>>, size)
  PROVE  Cuts(cut, new \o h, ring, from, h, size)
<1> DEFINE n == Len(ring)
           all == new \o h
<1>1. /\ n \in Nat /\ Len(new) \in Nat /\ Len(h) \in Nat /\ all \in Seq(S)
      /\ Len(all) = Len(new) + Len(h)
  BY ConcatIs
<1>2. /\ cut \in [0 .. n -> 0 .. Len(new)] /\ cut[0] = from
      /\ \A k \in 1 .. n :
           cut[k] = cut[k - 1] + Len(ring[k]) /\ ring[k] = SubSeq(new, cut[k - 1] + 1, cut[k])
      /\ SubSeq(new, cut[n] + 1, Len(new)) = <<>>
      /\ \A k \in 0 .. n : cut[k] <= cut[n] /\ cut[n] <= cut[k] + (n - k) * size
  BY DEF Cuts
<1> HIDE DEF n
<1>0. \A k \in 0 .. n : cut[k] \in Nat /\ cut[k] <= Len(new)
  BY <1>1, <1>2, CutTypes
<1>3. cut[n] = Len(new)
  <2>1. n \in 0 .. n
    BY <1>1
  <2> QED
    BY <1>0, <1>2, <2>1, NoneAfter
<1>4. h = SubSeq(all, cut[n] + 1, Len(all))
  BY <1>3, RestOfConcat
<1>5. ASSUME NEW k \in 1 .. n
      PROVE  ring[k] = SubSeq(all, cut[k - 1] + 1, cut[k])
  <2>1. k \in 0 .. n /\ k - 1 \in 0 .. n
    BY <1>1
  <2>2. PICK x, y : x = cut[k - 1] + 1 /\ y = cut[k]
    OBVIOUS
  <2>3. y \in Nat /\ y <= Len(new) /\ x \in Nat \ {0}
    BY <1>0, <2>1, <2>2
  <2>4. SubSeq(new \o h, x, y) = SubSeq(new, x, y)
    BY <2>3, SubSeqOfConcat
  <2> QED
    BY <1>2, <2>2, <2>4
<1> HIDE DEF all
<1>6. cut \in [0 .. n -> 0 .. Len(all)]
  <2>1. \A x \in 0 .. Len(new) : x \in 0 .. Len(all)
    BY <1>1
  <2> QED
    BY <1>2, <2>1
<1>7. Cuts(cut, all, ring, from, h, size)
  BY <1>2, <1>4, <1>5, <1>6 DEF Cuts, n
<1> QED
  BY <1>7 DEF all

(* The manager has put it there.                                            *)
LEMMA CutsPersist ==
  ASSUME NEW S, NEW new \in Seq(S), NEW h \in Seq(S), NEW ring \in Seq(Seq(S)), NEW from,
         NEW size \in Nat, Len(h) <= size, NEW cut, Cuts(cut, new, ring, from, h, size)
  PROVE  \E next \in [0 .. Len(Append(ring, h)) -> 0 .. Len(new)] :
           Cuts(next, new, Append(ring, h), from, <<>>, size)
<1> DEFINE n == Len(ring)
           longer == Append(ring, h)
           next == [k \in 0 .. n + 1 |-> IF k <= n THEN cut[k] ELSE Len(new)]
<1>1. n \in Nat /\ Len(new) \in Nat /\ Len(h) \in Nat
  OBVIOUS
<1>2. /\ cut \in [0 .. n -> 0 .. Len(new)] /\ cut[0] = from
      /\ \A k \in 1 .. n :
           cut[k] = cut[k - 1] + Len(ring[k]) /\ ring[k] = SubSeq(new, cut[k - 1] + 1, cut[k])
      /\ h = SubSeq(new, cut[n] + 1, Len(new))
      /\ \A k \in 0 .. n : cut[k] <= cut[n] /\ cut[n] <= cut[k] + (n - k) * size
  BY DEF Cuts
<1>3. /\ longer \in Seq(Seq(S)) /\ Len(longer) = n + 1 /\ longer[n + 1] = h
      /\ \A k \in 1 .. n : longer[k] = ring[k]
  OBVIOUS
<1> HIDE DEF n, longer
<1>4. \A k \in 0 .. n : cut[k] \in Nat /\ cut[k] <= Len(new)
  BY <1>1, <1>2, CutTypes
<1>5. 0 \in 0 .. n /\ n \in 0 .. n /\ n + 1 \in 0 .. n + 1 /\ ~(n + 1 <= n)
  BY <1>1
<1>6. next \in [0 .. n + 1 -> 0 .. Len(new)]
  <2>1. \A k \in 0 .. n + 1 : k <= n => k \in 0 .. n
    BY <1>1
  <2>2. Len(new) \in 0 .. Len(new)
    BY <1>1
  <2> QED
    BY <1>2, <2>1, <2>2
<1>7. next[0] = cut[0] /\ next[n + 1] = Len(new) /\ \A k \in 0 .. n : next[k] = cut[k]
  <2>1. \A k \in 0 .. n : k \in 0 .. n + 1 /\ k <= n
    BY <1>1
  <2> QED
    BY <1>5, <2>1
<1> HIDE DEF next
<1>8. Len(new) = cut[n] + Len(h)
  <2>1. PICK x : x = cut[n]
    OBVIOUS
  <2>2. x \in Nat /\ x <= Len(new) /\ x + 1 \in Nat \ {0}
    BY <1>4, <1>5, <2>1
  <2>3. PICK l : l = Len(new)
    OBVIOUS
  <2>4. Len(h) = IF x + 1 <= l THEN l - (x + 1) + 1 ELSE 0
    <3>1. h = SubSeq(new, x + 1, l) /\ l \in Nat /\ l <= Len(new)
      BY <1>1, <1>2, <2>1, <2>3
    <3> QED
      BY <2>2, <3>1, SubSeqIs
  <2>5. l = x + Len(h)
    BY <1>1, <2>2, <2>3, <2>4
  <2> QED
    BY <2>1, <2>3, <2>5
<1>9. ASSUME NEW k \in 1 .. n + 1
      PROVE  /\ next[k] = next[k - 1] + Len(longer[k])
             /\ longer[k] = SubSeq(new, next[k - 1] + 1, next[k])
  <2>1. CASE k \in 1 .. n
    <3>1. k \in 0 .. n /\ k - 1 \in 0 .. n
      BY <1>1, <2>1
    <3> QED
      BY <1>2, <1>3, <1>7, <2>1, <3>1
  <2>2. CASE k \notin 1 .. n
    <3>1. k = n + 1 /\ k - 1 = n
      BY <1>1, <2>2
    <3> QED
      BY <1>2, <1>3, <1>5, <1>7, <1>8, <3>1
  <2> QED
    BY <2>1, <2>2
<1>10. <<>> = SubSeq(new, next[n + 1] + 1, Len(new))
  BY <1>1, <1>7, EmptyPart
<1>11. ASSUME NEW k \in 0 .. n + 1
       PROVE  next[k] <= next[n + 1] /\ next[n + 1] <= next[k] + ((n + 1) - k) * size
  <2>1. CASE k \in 0 .. n
    <3>1. PICK x, y, l : x = cut[k] /\ y = cut[n] /\ l = Len(new)
      OBVIOUS
    <3>2. x \in Nat /\ y \in Nat /\ l \in Nat /\ x <= y /\ y <= x + (n - k) * size
      BY <1>1, <1>2, <1>4, <1>5, <2>1, <3>1
    <3>3. l = y + Len(h)
      BY <1>8, <3>1
    <3>4. ((n + 1) - k) * size = (n - k) * size + size
      <4>1. (n + 1) - k = (n - k) + 1 /\ n - k \in Nat
        BY <1>1, <2>1
      <4>2. \A a \in Nat : (a + 1) * size = a * size + size
        OBVIOUS
      <4> QED
        BY <4>1, <4>2
    <3>5. (n - k) * size \in Nat
      <4>1. n - k \in Nat
        BY <1>1, <2>1
      <4> QED
        BY <4>1
    <3>6. x <= l /\ l <= x + ((n + 1) - k) * size
      <4>1. PICK z : z = (n - k) * size
        OBVIOUS
      <4>2. z \in Nat
        BY <3>5, <4>1
      <4>3. l <= x + (z + size)
        BY <1>1, <3>2, <3>3, <4>1, <4>2
      <4> QED
        BY <1>1, <3>2, <3>3, <3>4, <4>1, <4>3
    <3> QED
      BY <1>7, <2>1, <3>1, <3>6
  <2>2. CASE k \notin 0 .. n
    <3>1. k = n + 1 /\ ((n + 1) - k) = 0
      BY <1>1, <2>2
    <3>2. 0 * size = 0
      OBVIOUS
    <3> QED
      BY <1>1, <1>7, <3>1, <3>2
  <2> QED
    BY <2>1, <2>2
<1>12. Cuts(next, new, longer, from, <<>>, size)
  BY <1>2, <1>3, <1>6, <1>7, <1>9, <1>10, <1>11 DEF Cuts
<1> QED
  BY <1>3, <1>6, <1>12 DEF longer

(* The writer has written the first batch of the ring.                      *)
LEMMA CutsWrite ==
  ASSUME NEW S, NEW new \in Seq(S), NEW ring \in Seq(Seq(S)), ring # <<>>, NEW from,
         NEW rest, NEW size \in Nat, NEW cut, Cuts(cut, new, ring, from, rest, size)
  PROVE  /\ from \in Nat /\ from + Len(Head(ring)) \in 0 .. Len(new)
         /\ Head(ring) = SubSeq(new, from + 1, from + Len(Head(ring)))
         /\ \E next \in [0 .. Len(Tail(ring)) -> 0 .. Len(new)] :
              Cuts(next, new, Tail(ring), from + Len(Head(ring)), rest, size)
<1> DEFINE n == Len(ring)
           t == Tail(ring)
           next == [k \in 0 .. n - 1 |-> cut[k + 1]]
<1>1. n \in Nat /\ n > 0 /\ Len(new) \in Nat
  OBVIOUS
<1>2. /\ cut \in [0 .. n -> 0 .. Len(new)] /\ cut[0] = from
      /\ \A k \in 1 .. n :
           cut[k] = cut[k - 1] + Len(ring[k]) /\ ring[k] = SubSeq(new, cut[k - 1] + 1, cut[k])
      /\ rest = SubSeq(new, cut[n] + 1, Len(new))
      /\ \A k \in 0 .. n : cut[k] <= cut[n] /\ cut[n] <= cut[k] + (n - k) * size
  BY DEF Cuts
<1>3. /\ t \in Seq(Seq(S)) /\ Len(t) = n - 1 /\ Head(ring) = ring[1]
      /\ \A k \in 1 .. n - 1 : t[k] = ring[k + 1]
  OBVIOUS
<1> HIDE DEF n, t
<1>4. \A k \in 0 .. n : cut[k] \in Nat /\ cut[k] <= Len(new)
  BY <1>1, <1>2, CutTypes
<1>5. 0 \in 0 .. n /\ 1 \in 0 .. n /\ 1 \in 1 .. n /\ 1 - 1 = 0
  BY <1>1
<1>6. /\ from \in Nat /\ cut[1] = from + Len(Head(ring))
      /\ Head(ring) = SubSeq(new, from + 1, cut[1])
  BY <1>2, <1>3, <1>4, <1>5
<1>7. next \in [0 .. n - 1 -> 0 .. Len(new)]
  <2>1. \A k \in 0 .. n - 1 : k + 1 \in 0 .. n
    BY <1>1
  <2> QED
    BY <1>2, <2>1
<1>8. \A k \in 0 .. n - 1 : next[k] = cut[k + 1] /\ k + 1 \in 0 .. n
  BY <1>1
<1>9. 0 \in 0 .. n - 1 /\ n - 1 \in 0 .. n - 1 /\ (n - 1) + 1 = n
  BY <1>1
<1> HIDE DEF next
<1>10. next[0] = cut[1] /\ next[n - 1] = cut[n]
  BY <1>8, <1>9
<1>11. ASSUME NEW k \in 1 .. n - 1
       PROVE  /\ next[k] = next[k - 1] + Len(t[k])
              /\ t[k] = SubSeq(new, next[k - 1] + 1, next[k])
  <2>1. k \in 0 .. n - 1 /\ k - 1 \in 0 .. n - 1 /\ k + 1 \in 1 .. n /\ (k + 1) - 1 = k
        /\ (k - 1) + 1 = k
    BY <1>1
  <2>2. next[k] = cut[k + 1] /\ next[k - 1] = cut[k] /\ t[k] = ring[k + 1]
    BY <1>3, <1>8, <2>1
  <2> QED
    BY <1>2, <2>1, <2>2
<1>12. ASSUME NEW k \in 0 .. n - 1
       PROVE  next[k] <= next[n - 1] /\ next[n - 1] <= next[k] + ((n - 1) - k) * size
  <2>1. k + 1 \in 0 .. n /\ n - (k + 1) = (n - 1) - k
    BY <1>1
  <2>2. cut[k + 1] <= cut[n] /\ cut[n] <= cut[k + 1] + (n - (k + 1)) * size
    BY <1>2, <2>1
  <2> QED
    BY <1>8, <1>10, <2>1, <2>2
<1>13. Cuts(next, new, t, cut[1], rest, size)
  BY <1>2, <1>3, <1>7, <1>10, <1>11, <1>12 DEF Cuts
<1>14. cut[1] \in 0 .. Len(new)
  BY <1>1, <1>4, <1>5
<1> QED
  BY <1>3, <1>6, <1>7, <1>13, <1>14 DEF t

(* How far the writer may be behind.                                        *)
LEMMA CutsBehind ==
  ASSUME NEW S, NEW new \in Seq(S), NEW ring \in Seq(Seq(S)), NEW from, NEW h \in Seq(S),
         NEW size \in Nat, Len(h) <= size, NEW room \in Nat, Len(ring) <= room,
         NEW cut, Cuts(cut, new, ring, from, h, size)
  PROVE  from \in 0 .. Len(new) /\ Len(new) - from <= (room + 1) * size
<1> DEFINE n == Len(ring)
<1>1. n \in Nat /\ Len(new) \in Nat /\ Len(h) \in Nat /\ n <= room
  OBVIOUS
<1>2. /\ cut \in [0 .. n -> 0 .. Len(new)] /\ cut[0] = from
      /\ h = SubSeq(new, cut[n] + 1, Len(new))
      /\ \A k \in 0 .. n : cut[k] <= cut[n] /\ cut[n] <= cut[k] + (n - k) * size
  BY DEF Cuts
<1> HIDE DEF n
<1>3. \A k \in 0 .. n : cut[k] \in Nat /\ cut[k] <= Len(new)
  BY <1>1, <1>2, CutTypes
<1>4. 0 \in 0 .. n /\ n \in 0 .. n /\ n - 0 = n
  BY <1>1
<1>5. PICK x, y, l : x = from /\ y = cut[n] /\ l = Len(new)
  OBVIOUS
<1>6. /\ x \in Nat /\ y \in Nat /\ l \in Nat /\ x <= l /\ y <= l
      /\ y <= x + n * size
  BY <1>1, <1>2, <1>3, <1>4, <1>5
<1>7. l = y + Len(h)
  <2>1. y + 1 \in Nat \ {0}
    BY <1>6
  <2>2. Len(h) = IF y + 1 <= l THEN l - (y + 1) + 1 ELSE 0
    BY <1>1, <1>2, <1>5, <2>1, SubSeqIs
  <2> QED
    BY <1>6, <2>2
<1>8. n * size \in Nat /\ room * size \in Nat /\ n * size <= room * size
  <2>1. n * size \in Nat /\ room * size \in Nat /\ (room - n) * size \in Nat
    <3>1. room - n \in Nat
      BY <1>1
    <3> QED
      BY <1>1, <3>1
  <2>2. room * size = n * size + (room - n) * size
    BY <1>1, Z3
  <2>3. PICK a, b, c : a = n * size /\ b = room * size /\ c = (room - n) * size
    OBVIOUS
  <2> QED
    BY <2>1, <2>2, <2>3
<1>9. (room + 1) * size = room * size + size
  OBVIOUS
<1>10. l - x <= (room + 1) * size
  <2>1. PICK a, b : a = n * size /\ b = room * size
    OBVIOUS
  <2>2. a \in Nat /\ b \in Nat /\ a <= b /\ y <= x + a
    BY <1>6, <1>8, <2>1
  <2>3. l - x <= b + size
    BY <1>1, <1>6, <1>7, <2>2
  <2> QED
    BY <1>9, <2>1, <2>3
<1> QED
  BY <1>5, <1>6, <1>10

(* What is written goes over what the file held, part by part as at once.   *)
LEMMA OverlayNone ==
  ASSUME NEW S, NEW file \in Seq(S)
  PROVE  Overlay(file, 0, <<>>) = file
<1> DEFINE o == Overlay(file, 0, <<>>)
<1>1. /\ <<>> \in Seq(S) /\ Len(<<>>) = 0 /\ Len(file) \in Nat /\ 0 \in 0 .. Len(file)
  OBVIOUS
<1>2. /\ o \in Seq(S)
      /\ Len(o) = IF 0 + Len(<<>>) < Len(file) THEN Len(file) ELSE 0 + Len(<<>>)
      /\ \A i \in 1 .. Len(o) :
           o[i] = IF i <= 0 THEN file[i]
                  ELSE IF i <= 0 + Len(<<>>) THEN <<>>[i - 0] ELSE file[i]
  BY <1>1, OverlayIs
<1> HIDE DEF o
<1>3. Len(o) = Len(file)
  BY <1>1, <1>2
<1>4. \A i \in 1 .. Len(o) : o[i] = file[i]
  BY <1>1, <1>2
<1>5. o = file
  BY <1>2, <1>3, <1>4, SameSeq
<1> QED
  BY <1>5 DEF o

LEMMA OverlayTwice ==
  ASSUME NEW S, NEW file \in Seq(S), NEW new \in Seq(S), NEW w \in Nat, NEW v \in Nat,
         w <= v, v <= Len(new)
  PROVE  Overlay(Overlay(file, 0, SubSeq(new, 1, w)), w, SubSeq(new, w + 1, v))
           = Overlay(file, 0, SubSeq(new, 1, v))
<1> DEFINE a == SubSeq(new, 1, w)
           b == SubSeq(new, w + 1, v)
           c == SubSeq(new, 1, v)
           f == Overlay(file, 0, a)
           g == Overlay(f, w, b)
           h == Overlay(file, 0, c)
<1>1. Len(file) \in Nat /\ Len(new) \in Nat /\ w <= Len(new) /\ 1 \in Nat \ {0}
      /\ w + 1 \in Nat \ {0}
  OBVIOUS
<1>2. a \in Seq(S) /\ Len(a) = w /\ \A i \in 1 .. w : a[i] = new[i]
  <2>1. Len(a) = (IF 1 <= w THEN w - 1 + 1 ELSE 0) /\ a \in Seq(S)
        /\ \A i \in 1 .. Len(a) : a[i] = new[1 + i - 1]
    BY <1>1, SubSeqIs
  <2> HIDE DEF a
  <2>2. Len(a) = w /\ \A i \in 1 .. w : 1 + i - 1 = i
    BY <2>1
  <2> QED
    BY <2>1, <2>2
<1>3. b \in Seq(S) /\ Len(b) = v - w /\ \A i \in 1 .. v - w : b[i] = new[w + i]
  <2>1. Len(b) = (IF w + 1 <= v THEN v - (w + 1) + 1 ELSE 0) /\ b \in Seq(S)
        /\ \A i \in 1 .. Len(b) : b[i] = new[(w + 1) + i - 1]
    BY <1>1, SubSeqIs
  <2> HIDE DEF b
  <2>2. Len(b) = v - w /\ \A i \in 1 .. v - w : (w + 1) + i - 1 = w + i
    BY <2>1
  <2> QED
    BY <2>1, <2>2
<1>4. c \in Seq(S) /\ Len(c) = v /\ \A i \in 1 .. v : c[i] = new[i]
  <2>1. Len(c) = (IF 1 <= v THEN v - 1 + 1 ELSE 0) /\ c \in Seq(S)
        /\ \A i \in 1 .. Len(c) : c[i] = new[1 + i - 1]
    BY <1>1, SubSeqIs
  <2> HIDE DEF c
  <2>2. Len(c) = v /\ \A i \in 1 .. v : 1 + i - 1 = i
    BY <2>1
  <2> QED
    BY <2>1, <2>2
<1> HIDE DEF a, b, c
<1>5. 0 \in 0 .. Len(file)
  BY <1>1
<1>6. /\ f \in Seq(S) /\ Len(f) = IF 0 + Len(a) < Len(file) THEN Len(file) ELSE 0 + Len(a)
      /\ \A i \in 1 .. Len(f) :
           f[i] = IF i <= 0 THEN file[i]
                  ELSE IF i <= 0 + Len(a) THEN a[i - 0] ELSE file[i]
  BY <1>2, <1>5, OverlayIs
<1>7. /\ h \in Seq(S) /\ Len(h) = IF 0 + Len(c) < Len(file) THEN Len(file) ELSE 0 + Len(c)
      /\ \A i \in 1 .. Len(h) :
           h[i] = IF i <= 0 THEN file[i]
                  ELSE IF i <= 0 + Len(c) THEN c[i - 0] ELSE file[i]
  BY <1>4, <1>5, OverlayIs
<1> HIDE DEF f, h
<1>8. Len(f) = IF w < Len(file) THEN Len(file) ELSE w
  BY <1>1, <1>2, <1>6
<1>9. w \in 0 .. Len(f)
  BY <1>1, <1>8
<1>10. /\ g \in Seq(S) /\ Len(g) = IF w + Len(b) < Len(f) THEN Len(f) ELSE w + Len(b)
       /\ \A i \in 1 .. Len(g) :
            g[i] = IF i <= w THEN f[i]
                   ELSE IF i <= w + Len(b) THEN b[i - w] ELSE f[i]
  BY <1>3, <1>6, <1>9, OverlayIs
<1> HIDE DEF g
<1>11. /\ w + Len(b) = v /\ Len(h) = IF v < Len(file) THEN Len(file) ELSE v
       /\ Len(f) <= Len(h) /\ Len(g) = Len(h)
  BY <1>1, <1>3, <1>4, <1>7, <1>8, <1>10
<1>12. ASSUME NEW i \in 1 .. Len(g) PROVE g[i] = h[i]
  <2>1. /\ i \in Nat /\ i >= 1 /\ ~(i <= 0) /\ i - 0 = i /\ Len(g) \in Nat /\ i <= Len(h)
    BY <1>10, <1>11
  <2>2. h[i] = IF i <= v THEN new[i] ELSE file[i]
    BY <1>4, <1>7, <2>1
  <2>3. CASE i <= w
    <3>1. i \in 1 .. Len(f) /\ i \in 1 .. w /\ i <= v
      BY <1>8, <1>9, <2>1, <2>3
    <3>2. g[i] = f[i] /\ f[i] = a[i]
      BY <1>2, <1>6, <1>10, <2>1, <2>3, <3>1
    <3> QED
      BY <1>2, <2>2, <3>1, <3>2
  <2>4. CASE i > w /\ i <= v
    <3>1. i - w \in 1 .. v - w /\ w + (i - w) = i /\ ~(i <= w)
      BY <2>1, <2>4
    <3>2. g[i] = b[i - w]
      BY <1>10, <1>11, <2>1, <2>4, <3>1
    <3> QED
      BY <1>3, <2>2, <2>4, <3>1, <3>2
  <2>5. CASE i > v
    <3>1. ~(i <= w) /\ ~(i <= v) /\ i \in 1 .. Len(f) /\ ~(i <= 0 + Len(a))
      BY <1>1, <1>2, <1>8, <1>11, <2>1, <2>5
    <3>2. g[i] = f[i]
      BY <1>10, <1>11, <2>1, <3>1
    <3>3. f[i] = file[i]
      BY <1>6, <2>1, <3>1
    <3> QED
      BY <2>2, <3>1, <3>2, <3>3
  <2> QED
    BY <2>1, <2>3, <2>4, <2>5
<1>13. g = h
  BY <1>7, <1>10, <1>11, <1>12, SameSeq
<1> QED
  BY <1>13 DEF a, b, c, f, g, h
-------------------------------------------------------------------------------
(* The steps keep what is sent and what is in the files.                    *)

LEMMA InsertedIs ==
  ASSUME NEW S, NEW all \in Seq(S), NEW old \in Seq(S), Len(old) <= Len(all)
  PROVE  SubSeq(all, Len(old) + 1, Len(all)) \in Seq(S)
<1>1. Len(old) + 1 \in Nat \ {0} /\ Len(all) \in Nat /\ Len(all) <= Len(all)
  OBVIOUS
<1> QED
  BY <1>1, SubSeqIs

LEMMA InsertedMore ==
  ASSUME NEW S, NEW all \in Seq(S), NEW old \in Seq(S), NEW h \in Seq(S),
         Len(old) <= Len(all)
  PROVE  SubSeq(all \o h, Len(old) + 1, Len(all \o h))
           = SubSeq(all, Len(old) + 1, Len(all)) \o h
<1> DEFINE o == Len(old)
           u == all \o h
           x == SubSeq(u, o + 1, Len(u))
           p == SubSeq(all, o + 1, Len(all))
           y == p \o h
<1>1. o \in Nat /\ o + 1 \in Nat \ {0} /\ Len(all) \in Nat /\ Len(h) \in Nat /\ o <= Len(all)
  OBVIOUS
<1>2. /\ u \in Seq(S) /\ Len(u) = Len(all) + Len(h)
      /\ \A i \in 1 .. Len(all) + Len(h) :
           u[i] = IF i <= Len(all) THEN all[i] ELSE h[i - Len(all)]
  BY ConcatIs
<1> HIDE DEF o, u
<1>3. /\ p \in Seq(S) /\ Len(p) = IF o + 1 <= Len(all) THEN Len(all) - (o + 1) + 1 ELSE 0
      /\ \A i \in 1 .. Len(p) : p[i] = all[(o + 1) + i - 1]
  BY <1>1, SubSeqIs
<1>4. /\ x \in Seq(S) /\ Len(x) = IF o + 1 <= Len(u) THEN Len(u) - (o + 1) + 1 ELSE 0
      /\ \A i \in 1 .. Len(x) : x[i] = u[(o + 1) + i - 1]
  BY <1>1, <1>2, SubSeqIs
<1> HIDE DEF p, x
<1>5. /\ y \in Seq(S) /\ Len(y) = Len(p) + Len(h)
      /\ \A i \in 1 .. Len(p) + Len(h) :
           y[i] = IF i <= Len(p) THEN p[i] ELSE h[i - Len(p)]
  BY <1>3, ConcatIs
<1> HIDE DEF y
<1>6. Len(p) = Len(all) - o /\ Len(x) = Len(y) /\ Len(x) = (Len(all) - o) + Len(h)
  <2>1. PICK a, l, k : a = Len(all) /\ l = Len(h) /\ k = Len(u)
    OBVIOUS
  <2>2. a \in Nat /\ l \in Nat /\ k = a + l /\ o \in Nat /\ o <= a
    BY <1>1, <1>2, <2>1
  <2>3. Len(p) = a - o
    BY <1>3, <2>1, <2>2
  <2>4. Len(x) = (a - o) + l
    BY <1>4, <2>1, <2>2
  <2> QED
    BY <1>5, <2>1, <2>2, <2>3, <2>4
<1>7. ASSUME NEW i \in 1 .. Len(x) PROVE x[i] = y[i]
  <2>1. /\ i \in Nat /\ i >= 1 /\ i <= (Len(all) - o) + Len(h)
        /\ (o + 1) + i - 1 = o + i /\ o + i \in 1 .. Len(all) + Len(h)
        /\ i \in 1 .. Len(p) + Len(h)
    BY <1>1, <1>6
  <2>2. x[i] = IF o + i <= Len(all) THEN all[o + i] ELSE h[(o + i) - Len(all)]
    BY <1>2, <1>4, <2>1
  <2>3. CASE i <= Len(p)
    <3>1. o + i <= Len(all) /\ i \in 1 .. Len(p)
      BY <1>1, <1>6, <2>1, <2>3
    <3> QED
      BY <1>3, <1>5, <2>1, <2>2, <2>3, <3>1
  <2>4. CASE ~(i <= Len(p))
    <3>1. ~(o + i <= Len(all)) /\ (o + i) - Len(all) = i - Len(p)
      BY <1>1, <1>6, <2>1, <2>4
    <3> QED
      BY <1>5, <2>1, <2>2, <2>4, <3>1
  <2> QED
    BY <2>3, <2>4
<1>8. x = y
  BY <1>4, <1>5, <1>6, <1>7, SameSeq
<1> QED
  BY <1>8 DEF o, u, x, p, y

(* A step that only sends leaves the managers and the files as they are.    *)
LEMMA GrowsKeeps ==
  ASSUME Shapes, MessagesRight, Filed, process = "up", Grows,
         UNCHANGED <<settings, managing, files>>,
         \A i \in Jobs : created'[i] \in Nat /\ created'[i] >= created[i],
         \A i \in Jobs : arrived[i] \subseteq arrived'[i],
         \A i \in Jobs : announced'[i] = announced[i] \/ Opened(i)
  PROVE  MessagesRight' /\ Filed'
<1>1. \A i \in Jobs : Opened(i) => Opened(i)'
  BY OpenedStays
<1>2. UNCHANGED <<manager, stored, toWrite, written, disk, backup, found, Persisting>>
  BY DEF managing, files, Persisting, Having
<1>3. \A i \in Jobs, n \in Managers : Inserted(i, n)' = Inserted(i, n)
  BY <1>2 DEF Inserted
<1>4. ASSUME NEW i \in Jobs, NEW n \in Managers
      PROVE  /\ MessageAt(i, n)'
             /\ queue[i][n] # <<>> => queue'[i][n] # <<>> /\ Head(queue'[i][n]) = Head(queue[i][n])
  <2>1. PICK q, p : q = queue[i][n] /\ p = queue'[i][n]
    OBVIOUS
  <2>2. q \in Seq(Edges)
    BY <2>1 DEF Shapes, QueueTypes
  <2>3. MessageAt(i, n)
    BY DEF MessagesRight
  <2>4. CASE p = q
    <3>1. queue'[i][n] = queue[i][n]
      BY <2>1, <2>4
    <3>2. MessageAt(i, n)'
      BY <1>1, <1>2, <1>3, <2>3, <3>1 DEF MessageAt, Admitted
    <3> QED
      BY <3>1, <3>2
  <2>5. CASE p # q
    <3>1. PICK e \in Edges :
            /\ p = Append(q, e) /\ Opened(i)
            /\ Admitted(i) => Len(e) <= settings[i].batch
      BY <2>1, <2>5 DEF Grows
    <3>2. /\ Len(p) = Len(q) + 1 /\ p[Len(q) + 1] = e /\ p # <<>> /\ Len(q) \in Nat
          /\ DOMAIN p = 1 .. Len(q) + 1 /\ DOMAIN q = 1 .. Len(q)
          /\ \A k \in 1 .. Len(q) : p[k] = q[k]
          /\ q # <<>> => Head(p) = Head(q)
      BY <2>2, <3>1
    <3>3. Admitted(i) => \A k \in DOMAIN p : Len(p[k]) <= settings[i].batch
      <4> SUFFICES ASSUME Admitted(i), NEW k \in DOMAIN p
                   PROVE  Len(p[k]) <= settings[i].batch
        OBVIOUS
      <4>1. CASE k \in 1 .. Len(q)
        BY <2>1, <2>3, <3>2, <4>1 DEF MessageAt
      <4>2. CASE k \notin 1 .. Len(q)
        <5>1. k = Len(q) + 1
          BY <3>2, <4>2
        <5> QED
          BY <3>1, <3>2, <5>1
      <4> QED
        BY <4>1, <4>2
    <3>4. Opened(i)'
      BY <1>1, <3>1
    <3>5. Admitted(i)' <=> Admitted(i)
      BY DEF Admitted
    <3>6. manager'[i][n] = "persist" => i \in Persisting' /\ queue'[i][n] # <<>>
      BY <1>2, <2>1, <2>3, <3>2 DEF MessageAt
    <3>8. toWrite'[i][n] # <<>> => i \in Persisting'
      BY <1>2, <2>3 DEF MessageAt
    <3>7. MessageAt(i, n)'
      BY <2>1, <3>3, <3>4, <3>5, <3>6, <3>8 DEF MessageAt
    <3> QED
      BY <2>1, <3>2, <3>7
  <2> QED
    BY <2>4, <2>5
<1>5. \A i \in Jobs : announced'[i] > 0 => Opened(i)'
  BY <1>1 DEF MessagesRight
<1>6. ASSUME NEW i \in Persisting, NEW n \in Managers PROVE FiledAt(i, n)'
  <2>1. i \in Jobs /\ FiledAt(i, n) /\ MessageAt(i, n)
    BY DEF Filed, Persisting, MessagesRight
  <2>2. Pending(i, n)' = Pending(i, n)
    BY <1>2, <1>4, <2>1 DEF Pending, MessageAt
  <2>3. Inserted(i, n)' = Inserted(i, n)
    BY <1>3, <2>1
  <2> QED
    BY <1>2, <2>1, <2>2, <2>3 DEF FiledAt, CutsAt
<1> QED
  BY <1>2, <1>4, <1>5, <1>6 DEF MessagesRight, Filed

(* A manager or its writer touches nothing of the others.                   *)
ManagerOnly(j, m) ==
  /\ UNCHANGED <<reading, created, settings, backup, found>>
  /\ \A i \in Jobs, n \in Managers : i # j \/ n # m =>
       /\ queue'[i][n] = queue[i][n] /\ manager'[i][n] = manager[i][n]
       /\ stored'[i][n] = stored[i][n] /\ toWrite'[i][n] = toWrite[i][n]
       /\ written'[i][n] = written[i][n] /\ disk'[i][n] = disk[i][n]

LEMMA ManagerDoes ==
  ASSUME JInv, process = "up", NEW j \in Jobs, NEW m \in Managers, ManagerOnly(j, m),
         MessageAt(j, m)', process' = "up" /\ j \in Persisting => FiledAt(j, m)'
  PROVE  ReadersPlaced' /\ BatchesSmall' /\ MessagesRight' /\ Filed'
<1>1. UNCHANGED <<reader, kept, batch, arrived, announced, created, settings, backup, found>>
  BY DEF ManagerOnly, reading
<1>2. ReadersPlaced' /\ BatchesSmall'
  BY <1>1, SmallStay DEF JInv, ReadersPlaced, PlacedAt, Opened, Inserters, InMemory, Having
<1>3. UNCHANGED Persisting /\ \A i \in Jobs : Opened(i)' <=> Opened(i)
  BY <1>1 DEF Opened, Inserters, InMemory, Persisting, Having
<1>4. ASSUME NEW i \in Jobs, NEW n \in Managers, i # j \/ n # m
      PROVE  MessageAt(i, n)' /\ (FiledAt(i, n) => FiledAt(i, n)')
  <2>1. /\ queue'[i][n] = queue[i][n] /\ manager'[i][n] = manager[i][n]
        /\ stored'[i][n] = stored[i][n] /\ toWrite'[i][n] = toWrite[i][n]
        /\ written'[i][n] = written[i][n] /\ disk'[i][n] = disk[i][n]
    BY <1>4 DEF ManagerOnly
  <2>2. Inserted(i, n)' = Inserted(i, n) /\ Pending(i, n)' = Pending(i, n)
    BY <1>1, <2>1 DEF Inserted, Pending
  <2>3. MessageAt(i, n)
    BY DEF JInv, MessagesRight
  <2>4. MessageAt(i, n)'
    BY <1>1, <1>3, <2>1, <2>2, <2>3 DEF MessageAt, Admitted
  <2>5. ASSUME FiledAt(i, n) PROVE FiledAt(i, n)'
    BY <1>1, <2>1, <2>2, <2>5 DEF FiledAt, CutsAt
  <2> QED
    BY <2>4, <2>5
<1>5. MessagesRight'
  <2>1. \A i \in Jobs : announced'[i] > 0 => Opened(i)'
    BY <1>1, <1>3 DEF JInv, MessagesRight
  <2> QED
    BY <1>4, <2>1 DEF MessagesRight
<1>6. Filed'
  <2> SUFFICES ASSUME process' = "up", NEW i \in Persisting, NEW n \in Managers
               PROVE  FiledAt(i, n)'
    BY <1>3 DEF Filed
  <2>1. i \in Jobs /\ FiledAt(i, n)
    BY DEF JInv, Filed, Persisting
  <2> QED
    BY <1>4, <2>1
<1> QED
  BY <1>2, <1>5, <1>6

LEMMA TailSmall ==
  ASSUME NEW q \in Seq(Edges), q # <<>>, NEW size, \A k \in DOMAIN q : Len(q[k]) <= size
  PROVE  /\ \A k \in DOMAIN Tail(q) : Len(Tail(q)[k]) <= size
         /\ Len(Head(q)) <= size /\ Head(q) \in Edges /\ Tail(q) \in Seq(Edges)
<1>1. /\ DOMAIN q = 1 .. Len(q) /\ DOMAIN Tail(q) = 1 .. Len(q) - 1 /\ Len(q) \in Nat
      /\ \A k \in 1 .. Len(q) - 1 : Tail(q)[k] = q[k + 1]
      /\ Head(q) = q[1] /\ Len(q) > 0
      /\ Head(q) \in Edges /\ Tail(q) \in Seq(Edges)
  OBVIOUS
<1>2. \A k \in 1 .. Len(q) - 1 : k + 1 \in 1 .. Len(q)
  BY <1>1
<1> QED
  BY <1>1, <1>2

\* What is known of a manager and of its files.
LEMMA ManagerKnown ==
  ASSUME JInv, process = "up", NEW j \in Jobs, NEW m \in Managers
  PROVE  /\ Shapes /\ MessageAt(j, m)
         /\ j \in Persisting => FiledAt(j, m) /\ Admitted(j) /\ settings[j].batch \in Nat
         /\ manager[j][m] # "persist" => Pending(j, m) = <<>>
         /\ queue[j][m] \in Seq(Edges) /\ stored[j][m] \in Edges
         /\ toWrite[j][m] \in Seq(Edges) /\ written[j][m] \in Nat
         /\ disk[j][m] \in Edges /\ backup[j][m] \in Edges /\ found[j][m] \in Edges
         /\ Len(backup[j][m]) <= Len(stored[j][m]) => Inserted(j, m) \in Edges
<1>1. Shapes /\ MessageAt(j, m)
  BY DEF JInv, MessagesRight
<1>2. ASSUME j \in Persisting
      PROVE  FiledAt(j, m) /\ Admitted(j) /\ settings[j].batch \in Nat
  <2>1. FiledAt(j, m)
    BY <1>2 DEF JInv, Filed
  <2>2. Admitted(j)
    BY <1>2 DEF Persisting, Having, Admitted
  <2> QED
    BY <1>1, <2>1, <2>2, AcceptedSettings DEF Shapes
<1>3. /\ queue[j][m] \in Seq(Edges) /\ stored[j][m] \in Edges
      /\ toWrite[j][m] \in Seq(Edges) /\ written[j][m] \in Nat
      /\ disk[j][m] \in Edges /\ backup[j][m] \in Edges /\ found[j][m] \in Edges
  BY <1>1, ManagerHere
<1>4. Len(backup[j][m]) <= Len(stored[j][m]) => Inserted(j, m) \in Edges
  BY <1>3, InsertedIs DEF Inserted, Edges
<1> QED
  BY <1>1, <1>2, <1>3, <1>4 DEF Pending

\* Only the place of a manager changes, to one where it holds no batch.
LEMMA PlaceDoes ==
  ASSUME JInv, process = "up", NEW j \in Jobs, NEW m \in Managers,
         NEW place \in {"work", "stopped"},
         manager[j][m] \notin {"load", "persist"}, ManagerGo(j, m, place),
         UNCHANGED <<reading, created, settings, queue, stored, toWrite, written, files>>
  PROVE  ReadersPlaced' /\ BatchesSmall' /\ MessagesRight' /\ Filed'
<1>1. MessageAt(j, m) /\ (j \in Persisting => FiledAt(j, m)) /\ Shapes
  BY ManagerKnown
<1>2. /\ manager'[j][m] = place
      /\ \A i \in Jobs, n \in Managers : i # j \/ n # m => manager'[i][n] = manager[i][n]
  BY <1>1 DEF Shapes, ManagerTypes, ManagerGo
<1>3. ManagerOnly(j, m)
  BY <1>2 DEF ManagerOnly, files
<1>4. UNCHANGED <<disk, backup, found, arrived, announced, Inserted(j, m)>>
  BY DEF files, reading, Inserted
<1>5. MessageAt(j, m)'
  BY <1>1, <1>2, <1>4 DEF MessageAt, Admitted, Opened, InMemory, Inserters, Having, Persisting
<1>6. Pending(j, m)' = Pending(j, m)
  BY <1>2 DEF Pending
<1>7. j \in Persisting => FiledAt(j, m)'
  BY <1>1, <1>2, <1>4, <1>6 DEF FiledAt, CutsAt
<1> QED
  BY <1>3, <1>5, <1>7, ManagerDoes

LEMMA LoadedDoes ==
  ASSUME JInv, process = "up", NEW j \in Jobs, NEW m \in Managers, Loaded(j, m)
  PROVE  ReadersPlaced' /\ BatchesSmall' /\ MessagesRight' /\ Filed'
<1>1. manager[j][m] \notin {"load", "persist"} /\ ManagerGo(j, m, "work")
  BY DEF Loaded, ManagerAt
<1>2. UNCHANGED <<reading, created, settings, queue, stored, toWrite, written, files>>
  BY DEF Loaded, system
<1> QED
  BY <1>1, <1>2, PlaceDoes

LEMMA LoadDoes ==
  ASSUME JInv, process = "up", NEW j \in Jobs, NEW m \in Managers, Load(j, m)
  PROVE  ReadersPlaced' /\ BatchesSmall' /\ MessagesRight' /\ Filed'
<1>1. /\ UNCHANGED <<reading, created, queue, settings, files>>
      /\ manager[j][m] = "load"
      /\ \/ process' = "died" /\ UNCHANGED managing
         \/ /\ stored' = [stored EXCEPT ![j][m] = backup[j][m]]
            /\ toWrite' = [toWrite EXCEPT ![j][m] = toWrite[j][m]]
            /\ manager' = [manager EXCEPT ![j][m] = "loaded"]
            /\ UNCHANGED written
  BY DEF Load, LoadInto, ManagerGo, ManagerAt
<1>2. /\ MessageAt(j, m) /\ Shapes
      /\ j \in Persisting => FiledAt(j, m) /\ settings[j].batch \in Nat
      /\ Pending(j, m) = <<>> /\ backup[j][m] \in Edges
  BY <1>1, ManagerKnown
<1>3. UNCHANGED <<disk, backup, found, arrived, announced, settings, created, queue>>
  BY <1>1 DEF files, reading
<1>4. CASE process' = "died" /\ UNCHANGED managing
  <2>1. UNCHANGED <<manager, stored, toWrite, written>>
    BY <1>4 DEF managing
  <2>2. ManagerOnly(j, m)
    BY <1>1, <1>3, <2>1 DEF ManagerOnly
  <2>3. MessageAt(j, m)'
    BY <1>2, <1>3, <2>1
       DEF MessageAt, Admitted, Opened, InMemory, Inserters, Having, Inserted, Persisting
  <2> QED
    BY <1>4, <2>2, <2>3, ManagerDoes
<1>5. CASE ~(process' = "died" /\ UNCHANGED managing)
  <2>1. /\ stored' = [stored EXCEPT ![j][m] = backup[j][m]]
        /\ toWrite' = [toWrite EXCEPT ![j][m] = toWrite[j][m]]
        /\ manager' = [manager EXCEPT ![j][m] = "loaded"]
        /\ UNCHANGED written
    BY <1>1, <1>5
  <2>2. /\ stored'[j][m] = backup[j][m] /\ toWrite'[j][m] = toWrite[j][m]
        /\ manager'[j][m] = "loaded"
        /\ \A i \in Jobs, n \in Managers : i # j \/ n # m =>
             /\ manager'[i][n] = manager[i][n] /\ stored'[i][n] = stored[i][n]
             /\ toWrite'[i][n] = toWrite[i][n]
    BY <1>2, <2>1 DEF Shapes, ManagerTypes
  <2>3. ManagerOnly(j, m)
    BY <1>1, <1>3, <2>1, <2>2 DEF ManagerOnly
  <2>4. Inserted(j, m)' = <<>>
    <3>1. SubSeq(backup[j][m], Len(backup[j][m]) + 1, Len(backup[j][m])) = <<>>
      BY <1>2, EmptyPart DEF Edges
    <3> QED
      BY <1>3, <2>2, <3>1 DEF Inserted
  <2>5. MessageAt(j, m)'
    BY <1>2, <1>3, <2>2, <2>4
       DEF MessageAt, Admitted, Opened, InMemory, Inserters, Having, Persisting
  <2>6. ASSUME j \in Persisting PROVE FiledAt(j, m)'
    <3>1. /\ toWrite[j][m] = <<>> /\ written[j][m] = 0 /\ settings[j].batch \in Nat
          /\ disk[j][m] = Overlay(found[j][m], 0, SubSeq(Inserted(j, m), 1, written[j][m]))
          /\ stored[j][m] = <<>>
      BY <1>1, <1>2, <2>6 DEF FiledAt
    <3>2. Pending(j, m)' = <<>>
      BY <2>2 DEF Pending
    <3>3. CutsAt(j, m)'
      <4>1. \E cut \in [0 .. Len(<<>>) -> 0 .. Len(<<>>)] :
              Cuts(cut, <<>>, <<>>, 0, <<>>, settings[j].batch)
        BY <3>1, CutsEmpty
      <4>2. /\ toWrite'[j][m] = <<>> /\ written'[j][m] = 0
            /\ settings'[j].batch = settings[j].batch
        BY <1>3, <2>1, <2>2, <3>1
      <4> QED
        BY <2>4, <3>2, <4>1, <4>2 DEF CutsAt
    <3>4. Inserted(j, m) = <<>>
      <4>1. Len(backup[j][m]) \in Nat
        BY <1>2 DEF Edges
      <4>2. \A k \in Nat : SubSeq(<<>>, k + 1, 0) = <<>>
        OBVIOUS
      <4>3. Len(<<>>) = 0
        OBVIOUS
      <4> QED
        BY <3>1, <4>1, <4>2, <4>3 DEF Inserted
    <3>5. Len(backup[j][m]) <= Len(backup[j][m]) /\ Len(toWrite[j][m]) <= WriterRoom
      <4>1. Len(backup[j][m]) \in Nat
        BY <1>2 DEF Edges
      <4>2. Len(<<>>) = 0 /\ WriterRoom \in Nat
        BY PersistenceAssumption
      <4> QED
        BY <3>1, <4>1, <4>2
    <3> QED
      BY <1>3, <2>1, <2>2, <2>4, <3>1, <3>3, <3>4, <3>5 DEF FiledAt
  <2> QED
    BY <2>3, <2>5, <2>6, ManagerDoes
<1> QED
  BY <1>4, <1>5

LEMMA InsertDoes ==
  ASSUME JInv, process = "up", NEW j \in Jobs, NEW m \in Managers, Insert(j, m)
  PROVE  ReadersPlaced' /\ BatchesSmall' /\ MessagesRight' /\ Filed'
<1> DEFINE h == Head(queue[j][m])
<1>1. /\ UNCHANGED <<reading, created, settings, toWrite, written, files>>
      /\ manager[j][m] = "work" /\ queue[j][m] # <<>>
      /\ stored' = [stored EXCEPT ![j][m] = @ \o h]
      /\ IF j \in Persisting THEN manager' = [manager EXCEPT ![j][m] = "persist"] /\ UNCHANGED queue
         ELSE Release(j, m) /\ UNCHANGED manager
  BY DEF Insert, ManagerAt, ManagerGo, system
<1>2. /\ MessageAt(j, m) /\ Shapes
      /\ j \in Persisting => FiledAt(j, m) /\ settings[j].batch \in Nat
      /\ Pending(j, m) = <<>> /\ backup[j][m] \in Edges /\ stored[j][m] \in Edges
      /\ queue[j][m] \in Seq(Edges) /\ toWrite[j][m] \in Seq(Edges) /\ written[j][m] \in Nat
  BY <1>1, ManagerKnown
<1>3. UNCHANGED <<disk, backup, found, arrived, announced, settings, created>>
  BY <1>1 DEF files, reading
<1>4. h \in Edges
  BY <1>1, <1>2
<1> HIDE DEF h
<1>5. /\ stored'[j][m] = stored[j][m] \o h
      /\ \A i \in Jobs, n \in Managers : i # j \/ n # m => stored'[i][n] = stored[i][n]
  BY <1>1, <1>2 DEF Shapes, ManagerTypes
<1>6. /\ \A i \in Jobs, n \in Managers : i # j \/ n # m =>
           manager'[i][n] = manager[i][n] /\ queue'[i][n] = queue[i][n]
      /\ IF j \in Persisting THEN manager'[j][m] = "persist" /\ queue'[j][m] = queue[j][m]
         ELSE manager'[j][m] = "work" /\ queue'[j][m] = Tail(queue[j][m])
  <2>1. CASE j \in Persisting
    BY <1>1, <1>2, <2>1 DEF Shapes, ManagerTypes
  <2>2. CASE j \notin Persisting
    <3>1. manager' = manager /\ queue' = [queue EXCEPT ![j][m] = Tail(@)]
      BY <1>1, <2>2 DEF Release
    <3>2. queue \in [Jobs -> [Managers -> Seq(Edges)]]
      BY <1>2 DEF Shapes, QueueTypes
    <3>3. queue'[j][m] = Tail(queue[j][m])
      BY <3>1, <3>2
    <3>4. \A i \in Jobs, n \in Managers : i # j \/ n # m => queue'[i][n] = queue[i][n]
      BY <3>1, <3>2
    <3> QED
      BY <1>1, <2>2, <3>1, <3>3, <3>4
  <2> QED
    BY <2>1, <2>2
<1>7. ManagerOnly(j, m)
  BY <1>1, <1>3, <1>5, <1>6 DEF ManagerOnly
<1>8. MessageAt(j, m)'
  <2>1. Opened(j)'
    BY <1>1, <1>2, <1>3 DEF MessageAt, Opened, InMemory, Inserters, Having
  <2>2. Admitted(j) => \A k \in DOMAIN queue'[j][m] :
          Len(queue'[j][m][k]) <= settings[j].batch
    BY <1>1, <1>2, <1>6, TailSmall DEF MessageAt
  <2>3. UNCHANGED Persisting
    BY <1>3 DEF Persisting, Having
  <2> QED
    BY <1>1, <1>2, <1>3, <1>6, <2>1, <2>2, <2>3 DEF MessageAt, Admitted
<1>9. ASSUME j \in Persisting PROVE FiledAt(j, m)'
  <2> DEFINE new == Inserted(j, m)
  <2>1. /\ Len(backup[j][m]) <= Len(stored[j][m]) /\ Len(toWrite[j][m]) <= WriterRoom
        /\ CutsAt(j, m)
        /\ disk[j][m] = Overlay(found[j][m], 0, SubSeq(new, 1, written[j][m]))
    BY <1>1, <1>2, <1>9 DEF FiledAt
  <2>2. new \in Seq(Int \X Int) /\ h \in Seq(Int \X Int) /\ toWrite[j][m] \in Seq(Seq(Int \X Int))
    BY <1>2, <1>4, <2>1, InsertedIs DEF Inserted, Edges
  <2>3. Inserted(j, m)' = new \o h
    <3>1. PICK a, o, x : a = stored[j][m] /\ o = backup[j][m] /\ x = h
      OBVIOUS
    <3>2. a \in Seq(Int \X Int) /\ o \in Seq(Int \X Int) /\ x \in Seq(Int \X Int)
          /\ Len(o) <= Len(a)
      BY <1>2, <1>4, <2>1, <3>1 DEF Edges
    <3>3. SubSeq(a \o x, Len(o) + 1, Len(a \o x)) = SubSeq(a, Len(o) + 1, Len(a)) \o x
      BY <3>2, InsertedMore
    <3>4. stored'[j][m] = a \o x /\ backup'[j][m] = o
      BY <1>3, <1>5, <3>1
    <3> QED
      BY <3>1, <3>3, <3>4 DEF Inserted
  <2>4. Pending(j, m)' = h
    BY <1>6, <1>9 DEF Pending, h
  <2>5. PICK cut \in [0 .. Len(toWrite[j][m]) -> 0 .. Len(new)] :
          Cuts(cut, new, toWrite[j][m], written[j][m], <<>>, settings[j].batch)
    BY <1>2, <2>1 DEF CutsAt
  <2> HIDE DEF new
  <2>6. Cuts(cut, new \o h, toWrite[j][m], written[j][m], h, settings[j].batch)
    BY <1>2, <1>9, <2>2, <2>5, CutsInsert
  <2>7. cut \in [0 .. Len(toWrite[j][m]) -> 0 .. Len(new \o h)]
    BY <2>6 DEF Cuts
  <2>8. CutsAt(j, m)'
    BY <1>1, <1>3, <2>3, <2>4, <2>6, <2>7 DEF CutsAt
  <2>9. written[j][m] <= Len(new)
    <3>1. Len(new) \in Nat /\ 0 \in 0 .. Len(toWrite[j][m]) /\ cut[0] = written[j][m]
      BY <2>2, <2>5 DEF Cuts
    <3> QED
      BY <2>5, <3>1
  <2>10. SubSeq(new \o h, 1, written[j][m]) = SubSeq(new, 1, written[j][m])
    BY <1>2, <2>2, <2>9, SubSeqOfConcat
  <2>11. Len(backup[j][m]) <= Len(stored[j][m] \o h)
    <3>1. Len(stored[j][m] \o h) = Len(stored[j][m]) + Len(h)
      BY <1>2, <1>4, ConcatIs DEF Edges
    <3>2. Len(backup[j][m]) \in Nat /\ Len(stored[j][m]) \in Nat /\ Len(h) \in Nat
      BY <1>2, <1>4 DEF Edges
    <3> QED
      BY <2>1, <3>1, <3>2
  <2>12. manager'[j][m] # "load"
    BY <1>6, <1>9
  <2>13. disk'[j][m] = Overlay(found'[j][m], 0, SubSeq(Inserted(j, m)', 1, written'[j][m]))
    BY <1>1, <1>3, <2>1, <2>3, <2>10 DEF new
  <2>14. Len(backup'[j][m]) <= Len(stored'[j][m]) /\ Len(toWrite'[j][m]) <= WriterRoom
    BY <1>1, <1>3, <1>5, <2>1, <2>11
  <2> QED
    BY <2>8, <2>12, <2>13, <2>14 DEF FiledAt
<1> QED
  BY <1>7, <1>8, <1>9, ManagerDoes

\* A batch, or the message to stop, goes into the ring of the writer.
LEMMA RingDoes ==
  ASSUME JInv, process = "up", NEW j \in Persisting, NEW m \in Managers,
         NEW h \in Edges, Len(h) <= settings[j].batch,
         manager[j][m] # "load", Pending(j, m) = h, Len(toWrite[j][m]) < WriterRoom,
         UNCHANGED <<settings, backup, found>>,
         stored'[j][m] = stored[j][m], disk'[j][m] = disk[j][m],
         written'[j][m] = written[j][m],
         toWrite'[j][m] = Append(toWrite[j][m], h),
         manager'[j][m] \notin {"load", "persist"}
  PROVE  FiledAt(j, m)'
<1>0. j \in Jobs
  BY DEF Persisting
<1>1. /\ FiledAt(j, m) /\ settings[j].batch \in Nat
      /\ backup[j][m] \in Edges /\ stored[j][m] \in Edges /\ toWrite[j][m] \in Seq(Edges)
  BY <1>0, ManagerKnown
<1>2. /\ Len(backup[j][m]) <= Len(stored[j][m]) /\ CutsAt(j, m)
      /\ disk[j][m] = Overlay(found[j][m], 0, SubSeq(Inserted(j, m), 1, written[j][m]))
  BY <1>1 DEF FiledAt
<1> DEFINE new == Inserted(j, m)
<1>3. new \in Seq(Int \X Int) /\ h \in Seq(Int \X Int) /\ toWrite[j][m] \in Seq(Seq(Int \X Int))
  BY <1>1, <1>2, InsertedIs DEF Inserted, Edges
<1>4. PICK cut \in [0 .. Len(toWrite[j][m]) -> 0 .. Len(new)] :
        Cuts(cut, new, toWrite[j][m], written[j][m], h, settings[j].batch)
  BY <1>2 DEF CutsAt
<1> HIDE DEF new
<1>5. \E next \in [0 .. Len(Append(toWrite[j][m], h)) -> 0 .. Len(new)] :
        Cuts(next, new, Append(toWrite[j][m], h), written[j][m], <<>>, settings[j].batch)
  BY <1>1, <1>3, <1>4, CutsPersist
<1>6. Inserted(j, m)' = new /\ Pending(j, m)' = <<>> /\ settings' = settings
  BY DEF Inserted, Pending, new
<1>7. CutsAt(j, m)'
  BY <1>5, <1>6 DEF CutsAt
<1>8. Len(toWrite'[j][m]) <= WriterRoom
  <2>1. Len(Append(toWrite[j][m], h)) = Len(toWrite[j][m]) + 1 /\ Len(toWrite[j][m]) \in Nat
    BY <1>1
  <2>2. WriterRoom \in Nat
    BY PersistenceAssumption
  <2> QED
    BY <2>1, <2>2
<1>9. /\ Len(backup'[j][m]) <= Len(stored'[j][m])
      /\ disk'[j][m] = Overlay(found'[j][m], 0, SubSeq(Inserted(j, m)', 1, written'[j][m]))
  BY <1>2, <1>6 DEF new
<1>10. manager'[j][m] # "load"
  OBVIOUS
<1> QED
  BY <1>7, <1>8, <1>9, <1>10 DEF FiledAt

LEMMA PersistDoes ==
  ASSUME JInv, process = "up", NEW j \in Jobs, NEW m \in Managers, Persist(j, m)
  PROVE  ReadersPlaced' /\ BatchesSmall' /\ MessagesRight' /\ Filed'
<1> DEFINE h == Head(queue[j][m])
<1>1. /\ UNCHANGED <<reading, created, settings, stored, written, files>>
      /\ manager[j][m] = "persist" /\ Len(toWrite[j][m]) < WriterRoom
      /\ toWrite' = [toWrite EXCEPT ![j][m] = Append(@, h)]
      /\ manager' = [manager EXCEPT ![j][m] = "work"]
      /\ queue' = [queue EXCEPT ![j][m] = Tail(@)]
  BY DEF Persist, ManagerAt, ManagerGo, Release, system
<1>2. /\ MessageAt(j, m) /\ Shapes /\ queue[j][m] \in Seq(Edges)
      /\ j \in Persisting => Admitted(j)
  BY ManagerKnown
<1>3. UNCHANGED <<disk, backup, found, arrived, announced, settings, created>>
  BY <1>1 DEF files, reading
<1>4. j \in Persisting /\ queue[j][m] # <<>> /\ Admitted(j) /\ Pending(j, m) = h
  BY <1>1, <1>2 DEF MessageAt, Pending
<1>5. /\ \A k \in DOMAIN Tail(queue[j][m]) : Len(Tail(queue[j][m])[k]) <= settings[j].batch
      /\ Len(h) <= settings[j].batch /\ h \in Edges
  BY <1>2, <1>4, TailSmall DEF MessageAt
<1> HIDE DEF h
<1>6. /\ toWrite'[j][m] = Append(toWrite[j][m], h) /\ manager'[j][m] = "work"
      /\ \A i \in Jobs, n \in Managers : i # j \/ n # m =>
           toWrite'[i][n] = toWrite[i][n] /\ manager'[i][n] = manager[i][n]
  BY <1>1, <1>2 DEF Shapes, ManagerTypes
<1>7. /\ queue'[j][m] = Tail(queue[j][m])
      /\ \A i \in Jobs, n \in Managers : i # j \/ n # m => queue'[i][n] = queue[i][n]
  BY <1>1, <1>2 DEF Shapes, QueueTypes
<1>8. ManagerOnly(j, m)
  BY <1>1, <1>3, <1>6, <1>7 DEF ManagerOnly
<1>9. MessageAt(j, m)'
  <2>1. Opened(j)'
    BY <1>2, <1>3, <1>4 DEF MessageAt, Opened, InMemory, Inserters, Having
  <2>2. \A k \in DOMAIN queue'[j][m] : Len(queue'[j][m][k]) <= settings[j].batch
    BY <1>5, <1>7
  <2> QED
    BY <1>3, <1>4, <1>6, <2>1, <2>2 DEF MessageAt, Persisting, Having
<1>10. FiledAt(j, m)'
  BY <1>1, <1>3, <1>4, <1>5, <1>6, RingDoes
<1> QED
  BY <1>8, <1>9, <1>10, ManagerDoes

LEMMA StopDoes ==
  ASSUME JInv, process = "up", NEW j \in Jobs, NEW m \in Managers, Stop(j, m)
  PROVE  ReadersPlaced' /\ BatchesSmall' /\ MessagesRight' /\ Filed'
<1>1. /\ UNCHANGED <<reading, created, settings, queue, stored, written, files>>
      /\ manager[j][m] = "work" /\ manager' = [manager EXCEPT ![j][m] = "stopped"]
      /\ IF j \in Persisting
         THEN /\ Len(toWrite[j][m]) < WriterRoom
              /\ toWrite' = [toWrite EXCEPT ![j][m] = Append(@, Shutdown)]
         ELSE UNCHANGED toWrite
  BY DEF Stop, ManagerAt, ManagerGo, system
<1>2. CASE j \notin Persisting
  BY <1>1, <1>2, PlaceDoes DEF ManagerGo
<1>3. CASE j \in Persisting
  <2>1. /\ MessageAt(j, m) /\ Shapes /\ settings[j].batch \in Nat /\ Pending(j, m) = <<>>
    BY <1>1, <1>3, ManagerKnown
  <2>2. UNCHANGED <<disk, backup, found, arrived, announced, settings, created>>
    BY <1>1 DEF files, reading
  <2>3. Shutdown = <<>> /\ <<>> \in Edges /\ Len(<<>>) <= settings[j].batch
    BY <2>1 DEF Shutdown, Edges
  <2>4. /\ toWrite'[j][m] = Append(toWrite[j][m], <<>>) /\ manager'[j][m] = "stopped"
        /\ \A i \in Jobs, n \in Managers : i # j \/ n # m =>
             toWrite'[i][n] = toWrite[i][n] /\ manager'[i][n] = manager[i][n]
    BY <1>1, <1>3, <2>1, <2>3 DEF Shapes, ManagerTypes
  <2>5. ManagerOnly(j, m)
    BY <1>1, <2>2, <2>4 DEF ManagerOnly
  <2>6. MessageAt(j, m)'
    <3>1. UNCHANGED <<queue, Inserted(j, m), Persisting, InMemory, Inserters(j)>>
      BY <1>1, <2>2 DEF Inserted, Persisting, InMemory, Inserters, Having
    <3>2. Opened(j)' <=> Opened(j)
      BY <2>2, <3>1 DEF Opened
    <3> QED
      BY <1>3, <2>1, <2>2, <2>4, <3>1, <3>2 DEF MessageAt, Admitted
  <2>7. FiledAt(j, m)'
    BY <1>1, <1>3, <2>1, <2>2, <2>3, <2>4, RingDoes
  <2> QED
    BY <2>5, <2>6, <2>7, ManagerDoes
<1> QED
  BY <1>2, <1>3

LEMMA WriteDoes ==
  ASSUME JInv, process = "up", NEW j \in Jobs, NEW m \in Managers, Write(j, m)
  PROVE  ReadersPlaced' /\ BatchesSmall' /\ MessagesRight' /\ Filed'
<1> DEFINE h == Head(toWrite[j][m])
           o == Overlay(disk[j][m], written[j][m], h)
<1>1. /\ UNCHANGED <<reading, created, queue, settings, manager, stored, backup, found>>
      /\ toWrite[j][m] # <<>> /\ disk' = [disk EXCEPT ![j][m] = o]
      /\ written' = [written EXCEPT ![j][m] = @ + Len(h)]
      /\ toWrite' = [toWrite EXCEPT ![j][m] = Tail(@)]
  BY DEF Write, system
<1>2. /\ MessageAt(j, m) /\ Shapes /\ toWrite[j][m] \in Seq(Edges)
      /\ j \in Persisting => FiledAt(j, m) /\ settings[j].batch \in Nat
      /\ backup[j][m] \in Edges /\ stored[j][m] \in Edges /\ found[j][m] \in Edges
  BY ManagerKnown
<1>3. UNCHANGED <<arrived, announced>>
  BY <1>1 DEF reading
<1> HIDE DEF h, o
<1>4. /\ disk'[j][m] = o /\ written'[j][m] = written[j][m] + Len(h)
      /\ toWrite'[j][m] = Tail(toWrite[j][m])
      /\ \A i \in Jobs, n \in Managers : i # j \/ n # m =>
           /\ disk'[i][n] = disk[i][n] /\ written'[i][n] = written[i][n]
           /\ toWrite'[i][n] = toWrite[i][n]
  BY <1>1, <1>2 DEF Shapes, ManagerTypes, FileTypes
<1>5. ManagerOnly(j, m)
  BY <1>1, <1>4 DEF ManagerOnly
<1>6. MessageAt(j, m)'
  BY <1>1, <1>2, <1>3
     DEF MessageAt, Admitted, Opened, InMemory, Inserters, Having, Inserted, Persisting
<1>7. ASSUME j \in Persisting PROVE FiledAt(j, m)'
  <2> DEFINE new == Inserted(j, m)
             w == written[j][m]
  <2>1. /\ Len(backup[j][m]) <= Len(stored[j][m]) /\ Len(toWrite[j][m]) <= WriterRoom
        /\ CutsAt(j, m) /\ manager[j][m] # "load"
        /\ disk[j][m] = Overlay(found[j][m], 0, SubSeq(new, 1, w))
    BY <1>1, <1>2, <1>7 DEF FiledAt
  <2>2. new \in Seq(Int \X Int) /\ toWrite[j][m] \in Seq(Seq(Int \X Int))
    BY <1>2, <2>1, InsertedIs DEF Inserted, Edges
  <2>3. PICK cut \in [0 .. Len(toWrite[j][m]) -> 0 .. Len(new)] :
          Cuts(cut, new, toWrite[j][m], w, Pending(j, m), settings[j].batch)
    BY <2>1 DEF CutsAt
  <2>4. Inserted(j, m)' = new /\ Pending(j, m)' = Pending(j, m)
    BY <1>1 DEF Inserted, Pending
  <2> HIDE DEF new, w
  <2>5. /\ w \in Nat /\ w + Len(h) \in 0 .. Len(new)
        /\ h = SubSeq(new, w + 1, w + Len(h))
        /\ \E next \in [0 .. Len(Tail(toWrite[j][m])) -> 0 .. Len(new)] :
             Cuts(next, new, Tail(toWrite[j][m]), w + Len(h), Pending(j, m), settings[j].batch)
    BY <1>1, <1>2, <1>7, <2>2, <2>3, CutsWrite DEF h
  <2>6. CutsAt(j, m)'
    BY <1>1, <1>4, <2>4, <2>5 DEF CutsAt, w
  <2>7. Len(toWrite'[j][m]) <= WriterRoom
    <3>1. Len(Tail(toWrite[j][m])) = Len(toWrite[j][m]) - 1 /\ Len(toWrite[j][m]) \in Nat
      BY <1>1, <1>2
    <3> QED
      BY <1>4, <2>1, <3>1, PersistenceAssumption
  <2>8. o = Overlay(found[j][m], 0, SubSeq(new, 1, w + Len(h)))
    <3>1. PICK f, v : f = found[j][m] /\ v = w + Len(h)
      OBVIOUS
    <3>2. f \in Seq(Int \X Int) /\ v \in Nat /\ v <= Len(new)
      <4>1. Len(new) \in Nat
        BY <2>2
      <4> QED
        BY <1>2, <2>5, <3>1, <4>1 DEF Edges
    <3>3. w <= v
      <4>1. Len(h) \in Nat
        <5>1. \A e \in Edges : Len(e) \in Nat
          BY DEF Edges
        <5>2. h \in Edges
          BY <1>1, <1>2, ManagerHere DEF h
        <5> QED
          BY <5>1, <5>2
      <4> QED
        BY <2>5, <3>1, <4>1
    <3>4. Overlay(Overlay(f, 0, SubSeq(new, 1, w)), w, SubSeq(new, w + 1, v))
            = Overlay(f, 0, SubSeq(new, 1, v))
      BY <2>2, <2>5, <3>2, <3>3, OverlayTwice
    <3> QED
      BY <2>1, <2>5, <3>1, <3>4 DEF o, w
  <2>9. disk'[j][m] = Overlay(found'[j][m], 0, SubSeq(Inserted(j, m)', 1, written'[j][m]))
    BY <1>1, <1>4, <2>4, <2>8 DEF w
  <2>10. Len(backup'[j][m]) <= Len(stored'[j][m]) /\ manager'[j][m] # "load"
    BY <1>1, <2>1
  <2> QED
    BY <2>6, <2>7, <2>9, <2>10 DEF FiledAt
<1> QED
  BY <1>5, <1>6, <1>7, ManagerDoes
-------------------------------------------------------------------------------
(* The threads of the jobs.                                                 *)
LEMMA JobStepDoes ==
  ASSUME JInv, process = "up", NEW j \in Jobs, JobStep(j)
  PROVE  ReadersPlaced' /\ BatchesSmall' /\ MessagesRight' /\ Filed'
<1>0. Shapes /\ ReadersPlaced /\ BatchesSmall /\ MessagesRight /\ Filed
  BY DEF JInv
<1>1. UNCHANGED <<reader, kept, batch, announced, settings, managing, files>>
  BY DEF JobStep, ParseOptions, CreateProvider, JobArrive, JobPass, JobJoin, JobEnd, reading,
         system
<1>2. \A i \in Jobs : created'[i] \in Nat /\ created'[i] >= created[i]
  <2>1. created \in [Jobs -> Nat]
    BY <1>0 DEF Shapes, JobTypes
  <2>2. created' = created \/ created' = [created EXCEPT ![j] = @ + 1]
    BY DEF JobStep, ParseOptions, CreateProvider, JobArrive, JobPass, JobJoin, JobEnd
  <2> QED
    BY <2>1, <2>2
<1>3. \A i \in Jobs : arrived[i] \subseteq arrived'[i] /\ arrived'[i] \subseteq arrived[i] \union {0}
  <2>1. arrived \in [Jobs -> SUBSET (Readers \union {0})]
    BY <1>0 DEF Shapes, ReaderTypes
  <2>2. arrived' = arrived \/ arrived' = [arrived EXCEPT ![j] = @ \cup {0}]
    BY DEF JobStep, ParseOptions, CreateProvider, JobArrive, JobPass, JobJoin, JobEnd, reading
  <2> QED
    BY <2>1, <2>2
<1>4. Grows
  <2>1. CASE JobJoin(j)
    <3>1. /\ queue' = [queue EXCEPT ![j] = [m \in Managers |-> Append(@[m], Shutdown)]]
          /\ announced[j] = Inserters(j) /\ job[j] = "join"
      BY <2>1 DEF JobJoin, JobAt
    <3>2. Admitted(j)
      BY <1>0, <3>1 DEF Shapes, JobsCreate
    <3>3. Inserters(j) > 0 /\ settings[j].batch \in Nat
      BY <1>0, <3>2, AcceptedSettings, ReaderNumbers DEF Shapes
    <3>4. Opened(j)
      BY <1>0, <3>1, <3>3 DEF MessagesRight
    <3>5. Shutdown \in Edges /\ Len(Shutdown) <= settings[j].batch
      BY <3>3 DEF Shutdown, Edges
    <3>6. \A i \in Jobs, n \in Managers :
            queue'[i][n] = IF i = j THEN Append(queue[i][n], Shutdown) ELSE queue[i][n]
      BY <1>0, <3>1 DEF Shapes, QueueTypes
    <3> QED
      BY <3>4, <3>5, <3>6 DEF Grows
  <2>2. CASE ~JobJoin(j)
    <3>1. UNCHANGED queue
      BY <2>2 DEF JobStep, ParseOptions, CreateProvider, JobArrive, JobPass, JobEnd
    <3> QED
      BY <3>1, SameGrows
  <2> QED
    BY <2>1, <2>2
<1>5. MessagesRight' /\ Filed'
  BY <1>0, <1>1, <1>2, <1>3, <1>4, GrowsKeeps
<1>6. BatchesSmall'
  BY <1>0, <1>1, SmallStay
<1>7. ReadersPlaced'
  <2> SUFFICES ASSUME NEW r \in Readers PROVE PlacedAt(r)'
    BY DEF ReadersPlaced
  <2>1. \A i \in Jobs : r \in arrived'[i] => r \in arrived[i]
    BY <1>3, ReaderNumbers
  <2>2. \A i \in Jobs : Opened(i) => Opened(i)'
    BY <1>0, <1>1, <1>2, <1>3, OpenedStays
  <2>3. \A i \in Jobs : Inserters(i)' = Inserters(i)
    BY <1>1 DEF Inserters
  <2>4. PlacedAt(r) /\ reader[r].job \in Jobs
    BY <1>0, ReaderHere DEF ReadersPlaced
  <2>5. \A i \in Jobs : r \in arrived'[i] =>
          r <= Inserters(i)' /\ reader'[r].at \notin {"wait"} \union Reading
    BY <1>1, <2>1, <2>3, <2>4 DEF PlacedAt
  <2>6. (reader[r].at \in {"flush", "final"} => Opened(reader[r].job))'
    BY <1>1, <2>2, <2>4 DEF PlacedAt, Opened
  <2> QED
    BY <2>5, <2>6 DEF PlacedAt
<1> QED
  BY <1>5, <1>6, <1>7
-------------------------------------------------------------------------------
(* The end of the process, and the next one.                                *)
LEMMA ExitDoes ==
  ASSUME JInv, Exit
  PROVE  Shapes' /\ ReadersPlaced' /\ BatchesSmall' /\ MessagesRight' /\ Filed'
<1>1. /\ UNCHANGED <<reader, kept, batch, arrived, announced, created, queue, settings, job,
                    manager, stored, toWrite, written, backup, found>>
      /\ process' = "exited"
  BY DEF Exit, reading, managing
<1>2. PICK part \in Parting : disk' = Remains(part)
  BY DEF Exit
<1>3. Shapes /\ ReadersPlaced /\ BatchesSmall /\ MessagesRight
  BY DEF JInv
<1>4. FileTypes'
  <2>1. disk' \in [Jobs -> [Managers -> Edges]]
    BY <1>2, <1>3, RemainsType
  <2>2. ASSUME NEW j \in Jobs, NEW m \in Managers
        PROVE  j \in Persisting => written[j][m] <= Len(disk'[j][m])
    BY <1>2, <1>3, RemainsLength
  <2> QED
    BY <1>1, <1>3, <2>1, <2>2 DEF Shapes, FileTypes, Persisting, Having
<1>5. QueueTypes' /\ ManagerTypes'
  BY <1>1, <1>3 DEF Shapes, QueueTypes, ManagerTypes
<1>6. Shapes'
  BY <1>1, <1>3, <1>4, <1>5, ManagerKeeps DEF reading
<1>7. ReadersPlaced' /\ BatchesSmall'
  BY <1>1, <1>3, SmallStay DEF ReadersPlaced, PlacedAt, Opened, Inserters, InMemory, Having
<1>8. MessagesRight'
  BY <1>1, <1>3 DEF MessagesRight, MessageAt, Admitted, Opened, Inserters, InMemory, Having,
     Inserted, Persisting
<1>9. Filed'
  BY <1>1 DEF Filed
<1> QED
  BY <1>6, <1>7, <1>8, <1>9

\* Memory is as at the start; files and settings may be anything.
Fresh ==
  /\ reader = NewReaders /\ kept = PerProvider(<<>>) /\ batch = PerProvider(NoEdges)
  /\ created = [j \in Jobs |-> 0] /\ announced = [j \in Jobs |-> 0]
  /\ arrived = [j \in Jobs |-> {}]
  /\ queue = PerManager(<<>>) /\ job = [j \in Jobs |-> "parse"]
  /\ manager \in [Jobs -> [Managers -> {"load", "work"}]]
  /\ stored = PerManager(<<>>) /\ toWrite = PerManager(<<>>)
  /\ written = PerManager(0)
  /\ disk \in [Jobs -> [Managers -> Edges]] /\ backup \in [Jobs -> [Managers -> Edges]]
  /\ found = disk
  /\ \A j \in Persisting, m \in Managers : manager[j][m] # "load" => backup[j][m] = <<>>
  /\ SettingsGood

LEMMA FreshIs ==
  ASSUME Fresh
  PROVE  Shapes /\ ReadersPlaced /\ BatchesSmall /\ MessagesRight /\ Filed
<1>1. /\ reader = [r \in Readers |-> [at |-> "wait", edge |-> 0, job |-> 1, src |-> -1]]
      /\ kept = [r \in Readers |-> [j \in Jobs |-> <<>>]]
      /\ batch = [r \in Readers |-> [j \in Jobs |-> NoEdges]]
      /\ created = [j \in Jobs |-> 0] /\ announced = [j \in Jobs |-> 0]
      /\ arrived = [j \in Jobs |-> {}] /\ job = [j \in Jobs |-> "parse"]
      /\ queue = [j \in Jobs |-> [m \in Managers |-> <<>>]]
      /\ stored = [j \in Jobs |-> [m \in Managers |-> <<>>]]
      /\ toWrite = [j \in Jobs |-> [m \in Managers |-> <<>>]]
      /\ written = [j \in Jobs |-> [m \in Managers |-> 0]]
  BY DEF Fresh, NewReaders, PerProvider, PerManager, NoId
<1>2. 1 \in Jobs /\ <<>> \in Edges /\ <<>> \in Seq(Edges) /\ NoEdges \in Batches
  BY ReaderNumbers, NoEdgesType DEF Edges
<1>3. ReaderTypes
  <2>1. reader \in [Readers -> ReaderRecords]
    <3>1. [at |-> "wait", edge |-> 0, job |-> 1, src |-> -1] \in ReaderRecords
      BY <1>2 DEF ReaderRecords, ReaderPlaces
    <3> QED
      BY <1>1, <3>1
  <2>2. kept \in [Readers -> [Jobs -> Edges]] /\ batch \in [Readers -> [Jobs -> Batches]]
    BY <1>1, <1>2
  <2> QED
    BY <1>1, <2>1, <2>2 DEF ReaderTypes
<1>4. QueueTypes /\ JobTypes
  BY <1>1, <1>2 DEF QueueTypes, JobTypes
<1>5. ManagerTypes
  <2>1. manager \in [Jobs -> [Managers -> {"load", "loaded", "work", "persist", "stopped"}]]
    BY DEF Fresh
  <2> QED
    BY <1>1, <1>2, <2>1 DEF ManagerTypes
<1>6. FileTypes
  <2>1. \A j \in Jobs, m \in Managers : disk[j][m] \in Edges
    BY DEF Fresh
  <2>2. \A j \in Jobs, m \in Managers : written[j][m] = 0
    BY <1>1
  <2>3. \A e \in Edges : Len(e) \in Nat
    BY DEF Edges
  <2>4. \A j \in Jobs, m \in Managers : written[j][m] <= Len(disk[j][m])
    BY <2>1, <2>2, <2>3
  <2> QED
    BY <2>4 DEF FileTypes, Fresh, Persisting
<1>7. ReadersRead /\ JobsCreate
  BY <1>1 DEF ReadersRead, JobsCreate, Reading
<1>8. Shapes
  BY <1>3, <1>4, <1>5, <1>6, <1>7 DEF Shapes, Fresh
<1>9. ReadersPlaced
  BY <1>1 DEF ReadersPlaced, PlacedAt
<1>10. BatchesSmall
  <2>1. \A r \in Readers, j \in Jobs : batch[r][j] = NoEdges
    BY <1>1
  <2> QED
    BY <1>8, <2>1, NoEdgesSmall DEF BatchesSmall
<1>11. \A j \in Jobs, m \in Managers : Inserted(j, m) = <<>>
  <2> SUFFICES ASSUME NEW j \in Jobs, NEW m \in Managers PROVE Inserted(j, m) = <<>>
    OBVIOUS
  <2>1. stored[j][m] = <<>> /\ Len(<<>>) = 0
    BY <1>1
  <2>2. Len(backup[j][m]) \in Nat
    BY DEF Fresh, Edges
  <2>3. \A k \in Nat : SubSeq(<<>>, k + 1, 0) = <<>>
    OBVIOUS
  <2> QED
    BY <2>1, <2>2, <2>3 DEF Inserted
<1>12. MessagesRight
  <2>1. \A j \in Jobs, m \in Managers : MessageAt(j, m)
    <3> SUFFICES ASSUME NEW j \in Jobs, NEW m \in Managers PROVE MessageAt(j, m)
      OBVIOUS
    <3>1. /\ queue[j][m] = <<>> /\ Inserted(j, m) = <<>> /\ manager[j][m] # "persist"
          /\ toWrite[j][m] = <<>>
      <4>1. manager[j][m] \in {"load", "work"}
        BY DEF Fresh
      <4> QED
        BY <1>1, <1>11, <4>1
    <3>2. DOMAIN <<>> = {}
      OBVIOUS
    <3> QED
      BY <3>1, <3>2 DEF MessageAt
  <2> QED
    BY <1>1, <2>1 DEF MessagesRight
<1>13. ASSUME NEW j \in Persisting, NEW m \in Managers PROVE FiledAt(j, m)
  <2>1. j \in Jobs /\ Admitted(j)
    BY DEF Persisting, Having, Admitted
  <2>2. /\ stored[j][m] = <<>> /\ toWrite[j][m] = <<>> /\ written[j][m] = 0
        /\ Inserted(j, m) = <<>> /\ Pending(j, m) = <<>>
    <3>1. manager[j][m] \in {"load", "work"}
      BY <2>1 DEF Fresh
    <3>2. Pending(j, m) = <<>>
      BY <3>1 DEF Pending
    <3> QED
      BY <1>1, <1>11, <2>1, <3>2
  <2>3. settings[j].batch \in Nat /\ Len(<<>>) = 0 /\ WriterRoom \in Nat
    BY <1>8, <2>1, AcceptedSettings, PersistenceAssumption DEF Shapes
  <2>4. \E cut \in [0 .. Len(<<>>) -> 0 .. Len(<<>>)] :
          Cuts(cut, <<>>, <<>>, 0, <<>>, settings[j].batch)
    BY <2>3, CutsEmpty
  <2>5. CutsAt(j, m)
    BY <2>2, <2>4 DEF CutsAt
  <2>6. disk[j][m] = Overlay(found[j][m], 0, SubSeq(Inserted(j, m), 1, written[j][m]))
    <3>1. SubSeq(<<>>, 1, 0) = <<>>
      OBVIOUS
    <3>2. disk[j][m] \in Seq(Int \X Int) /\ found[j][m] = disk[j][m]
      BY <2>1 DEF Fresh, Edges
    <3> QED
      BY <2>2, <3>1, <3>2, OverlayNone
  <2>7. manager[j][m] # "load" =>
          Len(backup[j][m]) <= Len(stored[j][m]) /\ Len(toWrite[j][m]) <= WriterRoom
    BY <2>2, <2>3 DEF Fresh
  <2> QED
    BY <2>2, <2>5, <2>6, <2>7 DEF FiledAt
<1>14. Filed
  BY <1>13 DEF Filed
<1> QED
  BY <1>8, <1>9, <1>10, <1>12, <1>14

LEMMA InitFresh == JobsInit => Fresh /\ IInv
<1> SUFFICES ASSUME JobsInit PROVE Fresh /\ IInv
  OBVIOUS
<1>1. IInv
  BY InitHolds DEF JobsInit
<1>2. SettingsGood
  BY DEF JobsInit, SettingsGood
<1>3. manager \in [Jobs -> [Managers -> {"load", "work"}]]
  BY DEF JobsInit, PerManager
<1>4. /\ disk = [j \in Jobs |-> [m \in Managers |-> <<>>]]
      /\ backup = [j \in Jobs |-> [m \in Managers |-> <<>>]]
      /\ found = [j \in Jobs |-> [m \in Managers |-> <<>>]]
  BY DEF JobsInit, PerManager
<1>5. <<>> \in Edges
  BY DEF Edges
<1>6. disk \in [Jobs -> [Managers -> Edges]] /\ backup \in [Jobs -> [Managers -> Edges]]
  BY <1>4, <1>5
<1>7. \A j \in Persisting, m \in Managers : manager[j][m] # "load" => backup[j][m] = <<>>
  BY <1>4 DEF Persisting
<1> QED
  BY <1>1, <1>2, <1>3, <1>4, <1>6, <1>7 DEF Fresh, JobsInit

LEMMA RestartFresh ==
  ASSUME JInv, CrashAndRestart
  PROVE  Fresh' /\ IInv'
<1>1. PICK restoring \in BOOLEAN, part \in Parting : RestartWith(restoring, Remains(part))
  BY DEF CrashAndRestart
<1>2. PICK left : left = Remains(part)
  OBVIOUS
<1>3. left \in [Jobs -> [Managers -> Edges]]
  BY <1>2, RemainsType DEF JInv
<1>4. RestartWith(restoring, left)
  BY <1>1, <1>2
<1>5. <<>> \in Edges
  BY DEF Edges
<1>6. backup' \in [Jobs -> [Managers -> Edges]]
  BY <1>3, <1>4, <1>5 DEF RestartWith, PerManager
<1>7. disk' \in [Jobs -> [Managers -> Edges]]
  <2>1. disk' = [j \in Jobs |->
       IF j \in Persisting /\ settings[j].output = settings[j].input THEN left[j]
       ELSE PerManager(<<>>)[j]]
    BY <1>4 DEF RestartWith
  <2>2. \A j \in Jobs : left[j] \in [Managers -> Edges]
    BY <1>3
  <2>3. \A j \in Jobs : PerManager(<<>>)[j] \in [Managers -> Edges]
    BY <1>5 DEF PerManager
  <2> QED
    BY <2>1, <2>2, <2>3
<1>8. manager' = [j \in Jobs |-> [m \in Managers |->
        IF restoring /\ j \in Persisting THEN "load" ELSE "work"]]
  BY <1>4 DEF RestartWith
<1>9. settings' = settings /\ Persisting' = Persisting
  BY <1>4 DEF RestartWith, Persisting, Having
<1>10. \A j \in Persisting', m \in Managers : manager'[j][m] # "load" => backup'[j][m] = <<>>
  <2> SUFFICES ASSUME NEW j \in Persisting, NEW m \in Managers, manager'[j][m] # "load"
               PROVE  backup'[j][m] = <<>>
    BY <1>9
  <2>1. j \in Jobs
    BY DEF Persisting
  <2>2. ~restoring
    BY <1>8, <2>1
  <2>3. backup' = [i \in Jobs |-> [n \in Managers |-> <<>>]]
    BY <1>4, <2>2 DEF RestartWith, PerManager
  <2> QED
    BY <2>1, <2>3
<1>11. SettingsGood'
  BY <1>9 DEF JInv, Shapes, SettingsGood
<1>12. manager' \in [Jobs -> [Managers -> {"load", "work"}]]
  BY <1>8
<1>13. Fresh'
  BY <1>4, <1>6, <1>7, <1>10, <1>11, <1>12 DEF Fresh, RestartWith
<1>14. Init'
  BY <1>4 DEF RestartWith, Init
<1>15. IInv'
  BY <1>14, InitHolds, PTL
<1> QED
  BY <1>13, <1>15

LEMMA FreshHolds == Fresh => Shapes /\ ReadersPlaced /\ BatchesSmall /\ MessagesRight /\ Filed
BY FreshIs

LEMMA RestartDoes ==
  ASSUME JInv, CrashAndRestart
  PROVE  JInv'
<1>1. Fresh' /\ IInv'
  BY RestartFresh
<1> QED
  BY <1>1, FreshHolds, PTL DEF JInv
-------------------------------------------------------------------------------
(* The invariant of the jobs.                                               *)

LEMMA IdsStay ==
  ASSUME JInv, UNCHANGED ids
  PROVE  IInv'
<1>1. UNCHANGED vars
  BY DEF ids, vars
<1> QED
  BY <1>1, StutterKeeps DEF JInv

LEMMA ReaderLooksUp ==
  ASSUME JInv, NEW r \in Readers, ReaderStep(r)
  PROVE  IInv'
<1>0. Shapes /\ IInv
  BY DEF JInv
<1>1. CASE TranslateSource(r)
  <2>1. reader[r].at \in Reading /\ Lookup(r, Input[reader[r].edge][1])
    BY <1>1 DEF TranslateSource, At, Reading
  <2>2. Input[reader[r].edge][1] \in Originals
    BY <1>0, <2>1, EdgeHere, InputEdge
  <2> QED
    BY <1>0, <2>1, <2>2, LookupKeeps
<1>2. CASE TranslateTarget(r)
  <2>1. reader[r].at \in Reading /\ Lookup(r, Input[reader[r].edge][2])
    BY <1>2 DEF TranslateTarget, At, Reading
  <2>2. Input[reader[r].edge][2] \in Originals
    BY <1>0, <2>1, EdgeHere, InputEdge
  <2> QED
    BY <1>0, <2>1, <2>2, LookupKeeps
<1>3. CASE Translate(r)
  BY <1>0, <1>3, DrawKeeps, InstallKeeps, UndoKeeps, RereadKeeps DEF Translate
<1>4. CASE ~(TranslateSource(r) \/ TranslateTarget(r) \/ Translate(r))
  <2>1. UNCHANGED ids
    BY <1>4 DEF ReaderStep, Start, AddEdge, AddTranslated, Add, FinishOrWait, Pass, Flush,
       SendFinal
  <2> QED
    BY <2>1, IdsStay, Zenon
<1> QED
  BY <1>1, <1>2, <1>3, <1>4

LEMMA ReaderInvariant ==
  ASSUME JInv, process = "up", NEW r \in Readers, ReaderStep(r),
         UNCHANGED <<system, job, managing, files>>
  PROVE  JInv'
<1>1. UNCHANGED created /\ (\/ arrived' = arrived
                            \/ arrived' = [arrived EXCEPT ![reader[r].job] = @ \cup {r}])
  BY DEF ReaderStep, Start, AddEdge, AddTranslated, Add, TranslateSource, TranslateTarget,
     Translate, FinishOrWait, Pass, Flush, SendFinal, reading
<1>2. ReadersLeave
  BY <1>1 DEF ReadersLeave, system
<1>3. Placed /\ IInv /\ Shapes /\ MessagesRight /\ Filed
  BY DEF JInv, Placed
<1>4. Shapes'
  BY <1>2, <1>3, ReaderStepKeeps
<1>5. ReaderDoes
  BY <1>2, <1>3, ReaderStepDoes
<1>6. \A i \in Jobs : created'[i] \in Nat /\ created'[i] >= created[i]
  BY <1>1, <1>3 DEF Shapes, JobTypes
<1>7. \A i \in Jobs : arrived[i] \subseteq arrived'[i]
  BY <1>1, <1>3 DEF Shapes, ReaderTypes
<1>8. MessagesRight' /\ Filed'
  BY <1>2, <1>3, <1>5, <1>6, <1>7, GrowsKeeps DEF ReaderDoes, ReadersLeave
<1>9. IInv'
  BY ReaderLooksUp
<1>10. ReadersPlaced' /\ BatchesSmall'
  BY <1>5 DEF ReaderDoes
<1> QED
  BY <1>4, <1>8, <1>9, <1>10, Zenon DEF JInv

LEMMA JobInvariant ==
  ASSUME JInv, process = "up", NEW j \in Jobs, JobStep(j)
  PROVE  JInv'
<1>1. UNCHANGED ids
  BY DEF JobStep, ParseOptions, CreateProvider, JobArrive, JobPass, JobJoin, JobEnd
<1> QED
  BY <1>1, IdsStay, JobStepKeeps, JobStepDoes DEF JInv

LEMMA ManagerInvariant ==
  ASSUME JInv, process = "up", NEW j \in Jobs, NEW m \in Managers,
         ManagerStep(j, m) \/ Write(j, m)
  PROVE  JInv'
<1>0. Shapes /\ MessageAt(j, m)
  BY DEF JInv, MessagesRight
<1>1. UNCHANGED ids
  BY DEF ManagerStep, Load, LoadInto, Loaded, Insert, Persist, Stop, Write
<1>2. Shapes'
  <2>1. CASE Persist(j, m)
    <3>1. queue[j][m] # <<>>
      BY <1>0, <2>1 DEF Persist, ManagerAt, MessageAt
    <3> QED
      BY <1>0, <2>1, <3>1, PersistKeeps
  <2> QED
    BY <1>0, <2>1, LoadKeeps, LoadedKeeps, InsertKeeps, StopKeeps, WriteKeeps DEF ManagerStep
<1>3. ReadersPlaced' /\ BatchesSmall' /\ MessagesRight' /\ Filed'
  BY LoadDoes, LoadedDoes, InsertDoes, PersistDoes, StopDoes, WriteDoes DEF ManagerStep
<1> QED
  BY <1>1, <1>2, <1>3, IdsStay DEF JInv

LEMMA ExitInvariant ==
  ASSUME JInv, Exit
  PROVE  JInv'
<1>1. UNCHANGED ids
  BY DEF Exit
<1> QED
  BY <1>1, IdsStay, ExitDoes DEF JInv

LEMMA NothingMoves ==
  ASSUME JInv, UNCHANGED jobsVars
  PROVE  JInv'
<1>1. /\ UNCHANGED <<ids, reading, reader, kept, batch, arrived, announced, created, queue>>
      /\ UNCHANGED <<settings, job, manager, stored, toWrite, written, disk, backup, found,
                    process, files>>
  BY DEF jobsVars, reading, system, managing, files
<1>2. Shapes'
  <2>1. QueueTypes' /\ ManagerTypes'
    BY <1>1 DEF JInv, Shapes, QueueTypes, ManagerTypes
  <2> QED
    BY <1>1, <2>1, FilesStay, ManagerKeeps DEF JInv
<1>3. IInv'
  BY <1>1, IdsStay
<1>4. ReadersPlaced' /\ BatchesSmall'
  BY <1>1, SmallStay DEF JInv, ReadersPlaced, PlacedAt, Opened, Inserters, InMemory, Having
<1>5. MessagesRight'
  BY <1>1 DEF JInv, MessagesRight, MessageAt, Admitted, Opened, Inserters, InMemory, Having,
     Inserted, Persisting
<1>6. Filed'
  <2>1. CASE process = "up"
    <3>1. /\ \A i \in Jobs : created'[i] \in Nat /\ created'[i] >= created[i]
          /\ \A i \in Jobs : arrived[i] \subseteq arrived'[i]
          /\ \A i \in Jobs : announced'[i] = announced[i] \/ Opened(i)
      BY <1>1 DEF JInv, Shapes, JobTypes
    <3>2. Grows
      BY <1>1, SameGrows
    <3>3. UNCHANGED managing
      BY <1>1 DEF managing
    <3> QED
      BY <1>1, <2>1, <3>1, <3>2, <3>3, GrowsKeeps DEF JInv
  <2>2. CASE process # "up"
    BY <1>1, <2>2 DEF Filed
  <2> QED
    BY <2>1, <2>2
<1> QED
  BY <1>2, <1>3, <1>4, <1>5, <1>6 DEF JInv

(* The invariant holds in every behaviour of the jobs, across crashes.      *)
THEOREM JobsInvariant == JobsSpec => []JInv
<1>1. JobsInit => JInv
  BY InitFresh, FreshIs DEF JInv
<1>2. JInv /\ [JobsNext]_jobsVars => JInv'
  <2> SUFFICES ASSUME JInv, [JobsNext]_jobsVars PROVE JInv'
    OBVIOUS
  <2>1. CASE UNCHANGED jobsVars
    BY <2>1, NothingMoves
  <2>2. CASE JobsNext
    <3>1. process = "up"
      BY <2>2 DEF JobsNext
    <3>2. ASSUME NEW r \in Readers, ReaderStep(r), UNCHANGED <<system, job, managing, files>>
          PROVE  JInv'
      BY <3>1, <3>2, ReaderInvariant
    <3>3. ASSUME NEW j \in Jobs, JobStep(j) PROVE JInv'
      BY <3>1, <3>3, JobInvariant
    <3>4. ASSUME NEW j \in Jobs, NEW m \in Managers, ManagerStep(j, m) \/ Write(j, m)
          PROVE  JInv'
      BY <3>1, <3>4, ManagerInvariant
    <3> QED
      BY <2>2, <3>2, <3>3, <3>4, ExitInvariant, RestartDoes DEF JobsNext
  <2> QED
    BY <2>1, <2>2
<1> QED
  BY <1>1, <1>2, PTL DEF JobsSpec

(* The readers of all jobs agree on the ids, and until two race for one     *)
(* vertex no id is given out twice, also in a process started after a       *)
(* crash.                                                                   *)
THEOREM JobsAgree == JobsSpec => [](Agreement /\ UniqueUntilCollision)
<1>1. JInv => Agreement /\ UniqueUntilCollision
  BY DEF JInv, IInv
<1> QED
  BY JobsInvariant, <1>1, PTL

(* No manager gets an edge before every job has a provider, and with        *)
(* in-memory ingestion before every reader of the job has read its share.   *)
THEOREM ReadBeforeSent == JobsSpec => []ReadFirst
<1>1. JInv => ReadFirst
  <2> SUFFICES ASSUME JInv, NEW j \in Jobs, NEW m \in Managers,
                      queue[j][m] # <<>> \/ Inserted(j, m) # <<>>
               PROVE  /\ \A i \in Jobs : created[i] > 0
                      /\ j \in InMemory => \A r \in 1 .. Inserters(j) :
                           reader[r].at \notin {"wait", "edge", "source", "target"}
    BY DEF ReadFirst
  <2>1. Opened(j) /\ Shapes
    BY DEF JInv, MessagesRight, MessageAt
  <2>2. ASSUME j \in InMemory, NEW r \in 1 .. Inserters(j)
        PROVE  reader[r].at \notin {"wait", "edge", "source", "target"}
    <3>1. Admitted(j)
      BY <2>2 DEF InMemory, Having, Admitted
    <3>2. r \in Readers
      BY <2>1, <2>2, <3>1, AcceptedSettings, ReaderNumbers DEF Shapes
    <3>3. r \in arrived[j]
      BY <2>1, <2>2 DEF Opened
    <3> QED
      BY <3>2, <3>3 DEF JInv, ReadersPlaced, PlacedAt, Reading
  <2> QED
    BY <2>1, <2>2 DEF Opened
<1> QED
  BY JobsInvariant, <1>1, PTL

(* The output file of a manager has the edges inserted since the start, in  *)
(* their order and over what the file held; missing are at most those of    *)
(* the batches in the ring of its writer and of the one being persisted.    *)
THEOREM FilesFollow == JobsSpec => []FileFollowsStore
<1>1. JInv => FileFollowsStore
  <2> SUFFICES ASSUME JInv, NEW j \in Persisting, NEW m \in Managers,
                      process = "up", manager[j][m] # "load"
               PROVE  LET new == Inserted(j, m)
                      IN  /\ written[j][m] \in 0 .. Len(new)
                          /\ disk[j][m] = Overlay(found[j][m], 0, SubSeq(new, 1, written[j][m]))
                          /\ Len(new) - written[j][m] <= (WriterRoom + 1) * settings[j].batch
    BY DEF FileFollowsStore
  <2> DEFINE new == Inserted(j, m)
             h == Pending(j, m)
  <2>1. j \in Jobs
    BY DEF Persisting
  <2>2. /\ FiledAt(j, m) /\ MessageAt(j, m) /\ Admitted(j) /\ settings[j].batch \in Nat
        /\ queue[j][m] \in Seq(Edges) /\ toWrite[j][m] \in Seq(Edges)
        /\ backup[j][m] \in Edges /\ stored[j][m] \in Edges
    BY <2>1, ManagerKnown
  <2>3. /\ Len(backup[j][m]) <= Len(stored[j][m]) /\ Len(toWrite[j][m]) <= WriterRoom
        /\ CutsAt(j, m)
        /\ disk[j][m] = Overlay(found[j][m], 0, SubSeq(new, 1, written[j][m]))
    BY <2>2 DEF FiledAt
  <2>4. new \in Seq(Int \X Int) /\ toWrite[j][m] \in Seq(Seq(Int \X Int))
    BY <2>2, <2>3, InsertedIs DEF Inserted, Edges
  <2>5. h \in Seq(Int \X Int) /\ Len(h) <= settings[j].batch
    <3>1. CASE manager[j][m] = "persist"
      <4>1. queue[j][m] # <<>> /\ h = Head(queue[j][m])
        BY <2>2, <3>1 DEF MessageAt, Pending
      <4> QED
        BY <2>2, <4>1, TailSmall DEF MessageAt, Edges
    <3>2. CASE manager[j][m] # "persist"
      <4>1. h = <<>>
        BY <3>2 DEF Pending
      <4> QED
        BY <2>2, <4>1
    <3> QED
      BY <3>1, <3>2
  <2>6. PICK cut \in [0 .. Len(toWrite[j][m]) -> 0 .. Len(new)] :
          Cuts(cut, new, toWrite[j][m], written[j][m], h, settings[j].batch)
    BY <2>3 DEF CutsAt
  <2> HIDE DEF new, h
  <2>7. /\ written[j][m] \in 0 .. Len(new)
        /\ Len(new) - written[j][m] <= (WriterRoom + 1) * settings[j].batch
    BY <2>2, <2>3, <2>4, <2>5, <2>6, CutsBehind, PersistenceAssumption
  <2> QED
    BY <2>3, <2>7 DEF new
<1> QED
  BY JobsInvariant, <1>1, PTL
-------------------------------------------------------------------------------
(* Every edge once.  First what the readers of a job have done, as far as   *)
(* their places tell, then what of it the managers have got.                *)

\* Reader r, being at s, has handed edge i of the input to job j, or is
\* through with the job.
HandedBy(s, r, i, j) ==
  /\ s.at # "wait" /\ i \in StartId(r) .. EndId(r)
  /\ s.at \in Reading => i < s.edge \/ (i = s.edge /\ j < s.job)
Through(s, j) ==
  s.at = "done" \/ (s.at \in {"finish", "barrier", "flush", "final"} /\ j < s.job)

Handed(i, j) == \E r \in Readers : HandedBy(reader[r], r, i, j)
HandedTo(j) == {i \in DOMAIN Input : Handed(i, j)}
ThroughWith(j) == {r \in Readers : Through(reader[r], j)}

\* A reader in the table has an id to come back with: the counter is above
\* what has been drawn and may be given back.
Drawing == {r \in Readers : pc[r] \in {"install", "undo"}}
IdsDrawn ==
  /\ Cardinality(Drawing) <= current_id
  /\ \A r \in Readers :
       /\ pc[r] = "install" => translated[r] # NoId
       /\ pc[r] \in {"undo", "reread"} => translations[original[r]] # NoId

\* A reader translates the two ids of its edge in turn, and comes back from
\* each with what the table has.
LooksAt(r) ==
  LET s == reader[r]
  IN  /\ s.at \notin {"source", "target"} => pc[r] = "idle"
      /\ s.at \in {"source", "target"} /\ pc[r] = "idle" => translated[r] # NoId
      /\ s.at = "source" => original[r] = Input[s.edge][1]
      /\ s.at = "target" =>
           /\ original[r] = Input[s.edge][2]
           /\ s.src # NoId /\ s.src = translations[Input[s.edge][1]]
      /\ s.at \in {"source", "target"} => Having(s.job, "rewriting")

\* A reader that waits or is through with a job keeps nothing for it.
EmptyHanded(r) ==
  LET s == reader[r]
  IN  /\ s.at = "wait" => s.job = 1
      /\ \A j \in Jobs :
           /\ s.at = "wait" \/ Through(s, j) => batch[r][j] = NoEdges
           /\ s.at = "wait" \/ Through(s, j) \/ j \notin InMemory => kept[r][j] = <<>>
      /\ s.at = "final" => kept[r][s.job] = <<>>

\* The ids of the edges handed to a job that rewrites them are in the table.
Known(i) == translations[Input[i][1]] # NoId /\ translations[Input[i][2]] # NoId

ReadersRight ==
  /\ IdsDrawn
  /\ \A r \in Readers : LooksAt(r) /\ EmptyHanded(r)
  /\ \A j \in Jobs : Having(j, "rewriting") => \A i \in HandedTo(j) : Known(i)
  /\ \A j \in Jobs : announced[j] = Cardinality(ThroughWith(j))

\* A manager has before the edges it inserts what it has read back, and none
\* is still reading when its job makes providers.
BackedAt(j, m) ==
  /\ manager[j][m] # "load" => IsPrefix(backup[j][m], stored[j][m])
  /\ manager[j][m] = "load" => stored[j][m] = <<>> /\ Restoring(j) /\ created[j] = 0

\* The message to stop comes last, after all readers are through.
QueueAt(j, m) ==
  /\ \A k \in DOMAIN queue[j][m] : queue[j][m][k] = Shutdown =>
       k = Len(queue[j][m]) /\ job[j] \in {"stop", "ended"}
  /\ manager[j][m] = "persist" => Head(queue[j][m]) # Shutdown
  /\ manager[j][m] = "stopped" => queue[j][m] = <<Shutdown>>
  /\ job[j] = "ended" /\ Admitted(j) => manager[j][m] = "stopped"

ManagersRight ==
  /\ \A j \in Jobs : job[j] \in {"stop", "ended"} /\ Admitted(j) => announced[j] = Inserters(j)
  /\ \A j \in Jobs, m \in Managers : BackedAt(j, m) /\ QueueAt(j, m)

\* Of an edge, n copies are inserted by the manager or in its queue; acc
\* counts them along the queue.
Adds(acc, q, from, edge) ==
  /\ acc \in [0 .. Len(q) -> Int] /\ acc[0] = from
  /\ \A k \in 1 .. Len(q) : acc[k] = acc[k - 1] + Copies(q[k], edge)
Counted(q, from, edge, n) ==
  \E acc \in [0 .. Len(q) -> Int] : Adds(acc, q, from, edge) /\ acc[Len(q)] = n

Landing(j, m, edge, n) ==
  Counted(queue[j][m], Copies(Inserted(j, m), edge) - Copies(Pending(j, m), edge), edge, n)

\* What a provider has of it for the manager.
HeldIn(b, k, j, m, edge) ==
  Copies(b.edges[m], edge) + IF ManagerOf(j, edge) = m THEN Copies(k, edge) ELSE 0
Held(r, j, m, edge) == HeldIn(batch[r][j], kept[r][j], j, m, edge)
HeldFor(j, m, edge) == [r \in Readers |-> Held(r, j, m, edge)]

\* What it should have got.
Become(j, edge) == {i \in HandedTo(j) : Image(j, Input[i]) = edge}
Expected(j, m, edge) == IF ManagerOf(j, edge) = m THEN Cardinality(Become(j, edge)) ELSE 0

ConservedAt(j, m, edge) ==
  Landing(j, m, edge, Expected(j, m, edge) - SumFunction(HeldFor(j, m, edge)))
Conserved ==
  \A j \in Jobs, m \in Managers, edge \in Int \X Int : Admitted(j) => ConservedAt(j, m, edge)

OnceInv == ReadersRight /\ ManagersRight /\ Conserved
-------------------------------------------------------------------------------
(* Counting the copies of an edge.                                          *)
Shifted(A, k) == {i + k : i \in A}

LEMMA ShiftedCount ==
  ASSUME NEW A, IsFiniteSet(A), A \subseteq Int, NEW k \in Int
  PROVE  IsFiniteSet(Shifted(A, k)) /\ Cardinality(Shifted(A, k)) = Cardinality(A)
<1> DEFINE f == [i \in A |-> i + k]
           B == Shifted(A, k)
<1>1. f \in [A -> B]
  BY DEF Shifted
<1>2. \A i \in A, j \in A : f[i] = f[j] => i = j
  OBVIOUS
<1>3. \A b \in B : \E i \in A : f[i] = b
  BY DEF Shifted
<1> HIDE DEF f, B
<1>4. f \in Bijection(A, B)
  BY <1>1, <1>2, <1>3 DEF Bijection, Injection, Surjection, IsInjective
<1>5. ExistsBijection(A, B)
  BY <1>4 DEF ExistsBijection
<1> QED
  BY <1>5, FS_Bijection DEF B

Spots(s, e) == {i \in DOMAIN s : s[i] = e}

LEMMA SpotsFinite ==
  ASSUME NEW S, NEW s \in Seq(S), NEW e
  PROVE  /\ IsFiniteSet(Spots(s, e)) /\ Spots(s, e) \subseteq 1 .. Len(s)
         /\ Copies(s, e) = Cardinality(Spots(s, e)) /\ Copies(s, e) \in Nat
<1>1. DOMAIN s = 1 .. Len(s) /\ Len(s) \in Nat
  OBVIOUS
<1>2. IsFiniteSet(1 .. Len(s))
  BY <1>1, FS_Interval
<1>3. Spots(s, e) \in SUBSET (1 .. Len(s))
  BY <1>1 DEF Spots
<1>4. IsFiniteSet(Spots(s, e))
  BY <1>2, <1>3, FS_Subset
<1> QED
  BY <1>3, <1>4, FS_CardinalityType DEF Copies, Spots

LEMMA CopiesNone == \A e : Copies(<<>>, e) = 0
<1> SUFFICES ASSUME NEW e PROVE Copies(<<>>, e) = 0
  OBVIOUS
<1>1. {i \in DOMAIN <<>> : <<>>[i] = e} = {}
  OBVIOUS
<1> QED
  BY <1>1, FS_EmptySet DEF Copies

LEMMA CopiesAppend ==
  ASSUME NEW S, NEW s \in Seq(S), NEW x \in S, NEW e
  PROVE  Copies(Append(s, x), e) = Copies(s, e) + (IF x = e THEN 1 ELSE 0)
<1> DEFINE t == Append(s, x)
           n == Len(s)
<1>1. /\ n \in Nat /\ DOMAIN s = 1 .. n /\ DOMAIN t = 1 .. n + 1
      /\ t[n + 1] = x /\ \A i \in 1 .. n : t[i] = s[i]
      /\ t \in Seq(S)
  OBVIOUS
<1> HIDE DEF t, n
<1>2. IsFiniteSet(Spots(s, e)) /\ Copies(s, e) = Cardinality(Spots(s, e)) /\ Copies(s, e) \in Nat
  BY SpotsFinite
<1>3. Copies(t, e) = Cardinality(Spots(t, e))
  BY <1>1, SpotsFinite
<1>4. n + 1 \notin Spots(s, e)
  BY <1>1 DEF Spots
<1>5. CASE x = e
  <2>1. Spots(t, e) = Spots(s, e) \union {n + 1}
    BY <1>1, <1>5 DEF Spots
  <2>2. Cardinality(Spots(t, e)) = Cardinality(Spots(s, e)) + 1
    BY <1>2, <1>4, <2>1, FS_AddElement
  <2> QED
    BY <1>2, <1>3, <1>5, <2>2 DEF t
<1>6. CASE x # e
  <2>1. Spots(t, e) = Spots(s, e)
    BY <1>1, <1>6 DEF Spots
  <2> QED
    BY <1>2, <1>3, <1>6, <2>1 DEF t
<1> QED
  BY <1>5, <1>6

LEMMA CopiesConcat ==
  ASSUME NEW S, NEW s \in Seq(S), NEW t \in Seq(S), NEW e
  PROVE  Copies(s \o t, e) = Copies(s, e) + Copies(t, e)
<1> DEFINE u == s \o t
           n == Len(s)
           l == Len(t)
           A == Spots(s, e)
           B == Shifted(Spots(t, e), n)
<1>1. /\ u \in Seq(S) /\ Len(u) = n + l
      /\ \A i \in 1 .. n + l : u[i] = IF i <= n THEN s[i] ELSE t[i - n]
  BY ConcatIs
<1>2. n \in Nat /\ l \in Nat /\ DOMAIN s = 1 .. n /\ DOMAIN t = 1 .. l
  OBVIOUS
<1>3. DOMAIN u = 1 .. n + l
  BY <1>1
<1> HIDE DEF u, n, l
<1>4. /\ IsFiniteSet(A) /\ Copies(s, e) = Cardinality(A) /\ A \subseteq 1 .. Len(s)
      /\ IsFiniteSet(Spots(t, e)) /\ Copies(t, e) = Cardinality(Spots(t, e))
      /\ Spots(t, e) \subseteq 1 .. Len(t) /\ Copies(u, e) = Cardinality(Spots(u, e))
      /\ Copies(s, e) \in Nat /\ Copies(t, e) \in Nat
  BY <1>1, SpotsFinite
<1>5. IsFiniteSet(B) /\ Cardinality(B) = Cardinality(Spots(t, e))
  <2>1. Spots(t, e) \subseteq Int
    BY <1>4
  <2> QED
    BY <1>2, <1>4, <2>1, ShiftedCount
<1>6. A \cap B = {}
  <2>1. \A i \in A : i <= n
    BY <1>2 DEF Spots
  <2>2. \A i \in B : i > n
    BY <1>2 DEF Spots, Shifted
  <2>3. \A i \in A : i \in Nat
    BY <1>2 DEF Spots
  <2> HIDE DEF A, B
  <2> QED
    BY <1>2, <2>1, <2>2, <2>3
<1>7. Spots(u, e) = A \union B
  <2>1. ASSUME NEW i \in Spots(u, e) PROVE i \in A \union B
    <3>1. i \in 1 .. n + l /\ u[i] = e
      BY <1>3 DEF Spots
    <3>2. CASE i <= n
      <4>1. i \in 1 .. n /\ s[i] = e
        BY <1>1, <1>2, <3>1, <3>2
      <4> QED
        BY <1>2, <4>1 DEF Spots
    <3>3. CASE ~(i <= n)
      <4>1. i - n \in 1 .. l /\ t[i - n] = e /\ i = (i - n) + n
        BY <1>1, <1>2, <3>1, <3>3
      <4> QED
        BY <1>2, <4>1 DEF Spots, Shifted
    <3> QED
      BY <3>2, <3>3
  <2>2. ASSUME NEW i \in A PROVE i \in Spots(u, e)
    <3>1. i \in 1 .. n /\ s[i] = e
      BY <1>2 DEF Spots
    <3>2. i \in 1 .. n + l /\ i <= n
      BY <1>2, <3>1
    <3> QED
      BY <1>1, <1>3, <3>1, <3>2 DEF Spots
  <2>3. ASSUME NEW i \in B PROVE i \in Spots(u, e)
    <3>1. PICK k \in 1 .. l : t[k] = e /\ i = k + n
      BY <1>2 DEF Spots, Shifted
    <3>2. i \in 1 .. n + l /\ ~(i <= n) /\ i - n = k
      BY <1>2, <3>1
    <3> QED
      BY <1>1, <1>3, <3>1, <3>2 DEF Spots
  <2> QED
    BY <2>1, <2>2, <2>3
<1> HIDE DEF A, B
<1>8. Cardinality(A \union B) = Cardinality(A) + Cardinality(B) - Cardinality(A \cap B)
  BY <1>4, <1>5, FS_Union
<1>9. Cardinality({}) = 0
  BY FS_EmptySet
<1>10. Copies(u, e) = Cardinality(A) + Cardinality(B) - 0
  BY <1>4, <1>6, <1>7, <1>8, <1>9
<1>11. Copies(u, e) = Copies(s, e) + Copies(t, e)
  BY <1>4, <1>5, <1>10
<1> QED
  BY <1>11 DEF u

LEMMA CopiesTail ==
  ASSUME NEW S, NEW s \in Seq(S), s # <<>>, NEW e
  PROVE  Copies(s, e) = Copies(Tail(s), e) + (IF Head(s) = e THEN 1 ELSE 0)
<1> DEFINE t == Tail(s)
           h == <<Head(s)>>
<1>1. t \in Seq(S) /\ Head(s) \in S /\ h \in Seq(S) /\ <<>> \in Seq(S)
  OBVIOUS
<1>2. s = h \o t
  <2>1. /\ h \o t \in Seq(S) /\ Len(h \o t) = Len(h) + Len(t)
        /\ \A i \in 1 .. Len(h) + Len(t) :
             (h \o t)[i] = IF i <= Len(h) THEN h[i] ELSE t[i - Len(h)]
    BY <1>1, ConcatIs
  <2>2. PICK w : w = h \o t
    OBVIOUS
  <2>3. /\ Len(h) = 1 /\ Len(t) = Len(s) - 1 /\ Len(s) \in Nat /\ Len(s) > 0 /\ h[1] = s[1]
        /\ \A i \in 1 .. Len(s) - 1 : t[i] = s[i + 1]
    OBVIOUS
  <2>4. Len(w) = Len(s)
    BY <2>1, <2>2, <2>3
  <2>5. ASSUME NEW i \in 1 .. Len(s) PROVE s[i] = w[i]
    <3>1. CASE i = 1
      BY <2>1, <2>2, <2>3, <3>1
    <3>2. CASE i # 1
      <4>1. i - 1 \in 1 .. Len(s) - 1 /\ ~(i <= 1) /\ (i - 1) + 1 = i /\ i \in 1 .. 1 + (Len(s) - 1)
        BY <2>3, <3>2
      <4>2. w[i] = t[i - 1]
        BY <2>1, <2>2, <2>3, <4>1
      <4> QED
        BY <2>3, <4>1, <4>2
    <3> QED
      BY <3>1, <3>2
  <2>6. w \in Seq(S)
    BY <2>1, <2>2
  <2> QED
    BY <2>2, <2>4, <2>5, <2>6, SameSeq
<1>3. h = Append(<<>>, Head(s))
  OBVIOUS
<1>4. Copies(h, e) = IF Head(s) = e THEN 1 ELSE 0
  <2>1. PICK z, x : z = <<>> /\ x = Head(s)
    OBVIOUS
  <2>2. z \in Seq(S) /\ x \in S
    BY <1>1, <2>1
  <2>3. Copies(Append(z, x), e) = Copies(z, e) + (IF x = e THEN 1 ELSE 0)
    BY <2>2, CopiesAppend
  <2>4. Copies(z, e) = 0
    BY <2>1, CopiesNone
  <2> QED
    BY <1>3, <2>1, <2>3, <2>4
<1> HIDE DEF t, h
<1>5. Copies(h \o t, e) = Copies(h, e) + Copies(t, e)
  BY <1>1, CopiesConcat
<1>6. Copies(t, e) \in Nat
  BY <1>1, SpotsFinite
<1>7. Copies(s, e) = Copies(h, e) + Copies(t, e)
  BY <1>2, <1>5
<1>8. Copies(s, e) = Copies(t, e) + (IF Head(s) = e THEN 1 ELSE 0)
  BY <1>4, <1>6, <1>7
<1> QED
  BY <1>8 DEF t

(* Adding up along a queue, when a batch comes and when one goes.           *)
LEMMA AddsAppend ==
  ASSUME NEW q \in Seq(Edges), NEW x \in Edges, NEW e, NEW from, NEW count,
         Counted(q, from, e, count)
  PROVE  Counted(Append(q, x), from, e, count + Copies(x, e))
<1>0. PICK acc : Adds(acc, q, from, e) /\ acc[Len(q)] = count
  BY DEF Counted
<1> DEFINE n == Len(q)
           p == Append(q, x)
           next == [k \in 0 .. n + 1 |-> IF k <= n THEN acc[k] ELSE acc[n] + Copies(x, e)]
<1>1. /\ n \in Nat /\ Len(p) = n + 1 /\ p[n + 1] = x /\ \A k \in 1 .. n : p[k] = q[k]
  OBVIOUS
<1>2. Copies(x, e) \in Nat
  BY SpotsFinite DEF Edges
<1> HIDE DEF n, p
<1>3. /\ acc \in [0 .. n -> Int] /\ acc[0] = from
      /\ \A k \in 1 .. n : acc[k] = acc[k - 1] + Copies(q[k], e)
  BY <1>0 DEF Adds, n
<1>4. /\ \A k \in 0 .. n : next[k] = acc[k] /\ acc[k] \in Int
      /\ next[n + 1] = acc[n] + Copies(x, e)
  BY <1>1, <1>3
<1>5. next \in [0 .. n + 1 -> Int]
  <2>1. n \in 0 .. n /\ \A k \in 0 .. n : acc[k] \in Int
    BY <1>1, <1>3
  <2>2. PICK c : c = acc[n] + Copies(x, e)
    OBVIOUS
  <2>3. c \in Int
    BY <1>2, <2>1, <2>2
  <2>4. next = [k \in 0 .. n + 1 |-> IF k <= n THEN acc[k] ELSE c]
    BY <2>2
  <2>5. \A k \in 0 .. n + 1 : k <= n => k \in 0 .. n
    BY <1>1
  <2> HIDE DEF next
  <2> QED
    BY <2>1, <2>3, <2>4, <2>5
<1>6. next[0] = from
  BY <1>1, <1>3, <1>4
<1> HIDE DEF next
<1>7. ASSUME NEW k \in 1 .. n + 1 PROVE next[k] = next[k - 1] + Copies(p[k], e)
  <2>1. CASE k \in 1 .. n
    <3>1. k - 1 \in 0 .. n /\ k \in 0 .. n
      BY <1>1, <2>1
    <3> QED
      BY <1>1, <1>3, <1>4, <2>1, <3>1
  <2>2. CASE k \notin 1 .. n
    <3>1. k = n + 1 /\ k - 1 = n /\ n \in 0 .. n
      BY <1>1, <2>2
    <3> QED
      BY <1>1, <1>4, <3>1
  <2> QED
    BY <2>1, <2>2
<1>8. Adds(next, p, from, e)
  BY <1>1, <1>5, <1>6, <1>7 DEF Adds
<1> QED
  BY <1>0, <1>1, <1>4, <1>5, <1>8 DEF Counted, p, n

LEMMA AddsTail ==
  ASSUME NEW q \in Seq(Edges), q # <<>>, NEW e, NEW from, NEW count,
         Counted(q, from, e, count)
  PROVE  Counted(Tail(q), from + Copies(Head(q), e), e, count)
<1>0. PICK acc : Adds(acc, q, from, e) /\ acc[Len(q)] = count
  BY DEF Counted
<1> DEFINE p == Tail(q)
           n == Len(p)
           next == [k \in 0 .. n |-> acc[k + 1]]
<1>1. /\ n \in Nat /\ Len(q) = n + 1 /\ Head(q) = q[1] /\ \A k \in 1 .. n : p[k] = q[k + 1]
  OBVIOUS
<1> HIDE DEF n, p
<1>2. /\ acc \in [0 .. n + 1 -> Int] /\ acc[0] = from
      /\ \A k \in 1 .. n + 1 : acc[k] = acc[k - 1] + Copies(q[k], e)
  BY <1>0, <1>1 DEF Adds
<1>3. \A k \in 0 .. n : next[k] = acc[k + 1] /\ k + 1 \in 0 .. n + 1 /\ k + 1 \in 1 .. n + 1
  BY <1>1
<1>4. next \in [0 .. n -> Int]
  BY <1>2, <1>3
<1>5. next[0] = from + Copies(Head(q), e)
  <2>1. 0 \in 0 .. n /\ 0 + 1 = 1 /\ 1 \in 1 .. n + 1 /\ 1 - 1 = 0
    BY <1>1
  <2>2. acc[1] = acc[0] + Copies(q[1], e)
    BY <1>2, <2>1
  <2>3. next[0] = acc[1]
    BY <1>3, <2>1
  <2> QED
    BY <1>1, <1>2, <2>2, <2>3
<1> HIDE DEF next
<1>6. ASSUME NEW k \in 1 .. n PROVE next[k] = next[k - 1] + Copies(p[k], e)
  <2>1. k \in 0 .. n /\ k - 1 \in 0 .. n /\ (k - 1) + 1 = k /\ (k + 1) - 1 = k /\ k + 1 \in 1 .. n + 1
    BY <1>1
  <2>2. next[k] = acc[k + 1] /\ next[k - 1] = acc[k]
    BY <1>3, <2>1
  <2>3. acc[k + 1] = acc[k] + Copies(q[k + 1], e)
    BY <1>2, <2>1
  <2> QED
    BY <1>1, <2>2, <2>3
<1>7. Adds(next, p, from + Copies(Head(q), e), e)
  BY <1>4, <1>5, <1>6 DEF Adds, n
<1>8. next[n] = acc[n + 1]
  BY <1>1, <1>3
<1> QED
  BY <1>0, <1>1, <1>4, <1>7, <1>8 DEF Counted, p, n
-------------------------------------------------------------------------------
(* The table of ids.  What is in it stays, and nobody comes back without an *)
(* id: what is drawn is not negative.                                       *)
Installed(v) == translations[v] # NoId
InstalledStay == \A v \in Originals : Installed(v) => translations'[v] = translations[v]
OthersLook(r) ==
  \A q \in Readers \ {r} :
    pc'[q] = pc[q] /\ original'[q] = original[q] /\ translated'[q] = translated[q]
TableStep(r) == InstalledStay /\ OthersLook(r) /\ IdsDrawn'

LEMMA DrawingFinite ==
  /\ IsFiniteSet(Drawing) /\ Cardinality(Drawing) \in Nat
<1>1. IsFiniteSet(Readers) /\ Drawing \in SUBSET Readers
  BY JobsAssumption DEF Drawing
<1>2. IsFiniteSet(Drawing)
  BY <1>1, FS_Subset
<1> QED
  BY <1>2, FS_CardinalityType

\* Only reader r looks, and comes to its next place.
LEMMA TableMoves ==
  ASSUME TypeOK, TypeOK', IdsDrawn, NEW r \in Readers, InstalledStay, OthersLook(r),
         Cardinality(Drawing') <= current_id',
         pc'[r] = "install" => translated'[r] # NoId,
         pc'[r] \in {"undo", "reread"} => translations'[original'[r]] # NoId
  PROVE  TableStep(r)
<1>1. ASSUME NEW q \in Readers
      PROVE  /\ pc'[q] = "install" => translated'[q] # NoId
             /\ pc'[q] \in {"undo", "reread"} => translations'[original'[q]] # NoId
  <2>1. CASE q = r
    BY <2>1
  <2>2. CASE q # r
    <3>1. pc'[q] = pc[q] /\ original'[q] = original[q] /\ translated'[q] = translated[q]
      BY <2>2 DEF OthersLook
    <3>2. original[q] \in Originals
      BY DEF TypeOK
    <3> QED
      BY <3>1, <3>2 DEF IdsDrawn, InstalledStay, Installed
  <2> QED
    BY <2>1, <2>2
<1> QED
  BY <1>1 DEF TableStep, IdsDrawn

LEMMA LookupMoves ==
  ASSUME TypeOK, TypeOK', IdsDrawn, NEW r \in Readers, NEW v \in Originals, Lookup(r, v)
  PROVE  /\ TableStep(r) /\ original'[r] = v /\ translations' = translations
         /\ pc'[r] = "idle" => translated'[r] # NoId
<1>1. /\ pc[r] = "idle" /\ translations' = translations /\ current_id' = current_id
      /\ original'[r] = v /\ translated'[r] = translations[v]
      /\ pc'[r] = IF translations[v] # NoId THEN "idle" ELSE "draw"
      /\ OthersLook(r)
  BY DEF Lookup, Go, TypeOK, OthersLook
<1>2. Drawing' = Drawing
  BY <1>1 DEF Drawing, OthersLook
<1>3. InstalledStay /\ Cardinality(Drawing') <= current_id'
  BY <1>1, <1>2 DEF InstalledStay, IdsDrawn
<1>4. pc'[r] \notin {"install", "undo", "reread"}
  BY <1>1
<1> QED
  BY <1>1, <1>3, <1>4, TableMoves

LEMMA TranslateMoves ==
  ASSUME TypeOK, TypeOK', IdsDrawn, NEW r \in Readers,
         Draw(r) \/ Install(r) \/ Undo(r) \/ Reread(r)
  PROVE  /\ TableStep(r) /\ original' = original /\ pc[r] # "idle"
         /\ pc'[r] = "idle" => translated'[r] # NoId
<1>0. /\ IsFiniteSet(Drawing) /\ Cardinality(Drawing) \in Nat
      /\ current_id \in Int /\ Cardinality(Drawing) <= current_id /\ original[r] \in Originals
      /\ pc \in [Readers -> {"idle", "draw", "install", "undo", "reread"}]
  BY DrawingFinite DEF TypeOK, IdsDrawn
<1>1. CASE Draw(r)
  <2>1. /\ pc[r] = "draw" /\ pc'[r] = "install" /\ translated'[r] = current_id
        /\ current_id' = current_id + 1 /\ UNCHANGED <<translations, original>>
        /\ OthersLook(r)
    BY <1>1 DEF Draw, Go, TypeOK, OthersLook
  <2>2. Drawing' = Drawing \union {r} /\ r \notin Drawing
    BY <2>1 DEF Drawing, OthersLook
  <2>3. Cardinality(Drawing') = Cardinality(Drawing) + 1
    BY <1>0, <2>2, FS_AddElement
  <2>4. Cardinality(Drawing') <= current_id' /\ translated'[r] # NoId
    BY <1>0, <2>1, <2>3 DEF NoId
  <2>5. InstalledStay
    BY <2>1 DEF InstalledStay
  <2> QED
    BY <2>1, <2>4, <2>5, TableMoves
<1>2. CASE Install(r) /\ translations[original[r]] = NoId
  <2>1. /\ pc[r] = "install" /\ pc'[r] = "idle" /\ UNCHANGED <<current_id, original, translated>>
        /\ translations' = [translations EXCEPT ![original[r]] = translated[r]]
        /\ OthersLook(r)
    BY <1>2 DEF Install, Go, TypeOK, OthersLook
  <2>2. Drawing' = Drawing \ {r} /\ r \in Drawing
    BY <2>1 DEF Drawing, OthersLook
  <2>3. Cardinality(Drawing') = Cardinality(Drawing) - 1
    BY <1>0, <2>2, FS_RemoveElement
  <2>4. Cardinality(Drawing') <= current_id'
    BY <1>0, <2>1, <2>3
  <2>5. InstalledStay
    BY <1>2, <2>1 DEF InstalledStay, Installed
  <2>6. translated[r] # NoId
    BY <2>1 DEF IdsDrawn
  <2> QED
    BY <2>1, <2>4, <2>5, <2>6, TableMoves
<1>3. CASE Install(r) /\ translations[original[r]] # NoId
  <2>1. /\ pc[r] = "install" /\ pc'[r] = "undo"
        /\ UNCHANGED <<current_id, original, translated, translations>>
        /\ OthersLook(r)
    BY <1>3 DEF Install, Go, TypeOK, OthersLook
  <2>2. Drawing' = Drawing
    BY <2>1 DEF Drawing, OthersLook
  <2>3. Cardinality(Drawing') <= current_id' /\ InstalledStay
    BY <1>0, <2>1, <2>2 DEF InstalledStay
  <2> QED
    BY <1>3, <2>1, <2>3, TableMoves
<1>4. CASE Undo(r)
  <2>1. /\ pc[r] = "undo" /\ pc'[r] = "reread" /\ current_id' = current_id - 1
        /\ UNCHANGED <<original, translated, translations>>
        /\ OthersLook(r)
    BY <1>4 DEF Undo, Go, TypeOK, OthersLook
  <2>2. Drawing' = Drawing \ {r} /\ r \in Drawing
    BY <2>1 DEF Drawing, OthersLook
  <2>3. Cardinality(Drawing') = Cardinality(Drawing) - 1
    BY <1>0, <2>2, FS_RemoveElement
  <2>4. Cardinality(Drawing') <= current_id' /\ InstalledStay
    BY <1>0, <2>1, <2>3 DEF InstalledStay
  <2>5. translations[original[r]] # NoId
    BY <2>1 DEF IdsDrawn
  <2> QED
    BY <2>1, <2>4, <2>5, TableMoves
<1>5. CASE Reread(r)
  <2>1. /\ pc[r] = "reread" /\ pc'[r] = "idle" /\ translated'[r] = translations[original[r]]
        /\ UNCHANGED <<current_id, original, translations>>
        /\ OthersLook(r)
    BY <1>5 DEF Reread, Go, TypeOK, OthersLook
  <2>2. Drawing' = Drawing
    BY <2>1 DEF Drawing, OthersLook
  <2>3. Cardinality(Drawing') <= current_id' /\ InstalledStay
    BY <1>0, <2>1, <2>2 DEF InstalledStay
  <2>4. translations[original[r]] # NoId
    BY <2>1 DEF IdsDrawn
  <2> QED
    BY <2>1, <2>3, <2>4, TableMoves
<1> QED
  BY <1>1, <1>2, <1>3, <1>4, <1>5
-------------------------------------------------------------------------------
(* What the readers have handed on, and what the places of one of them say  *)
(* of it.                                                                   *)
\* Reader r is next, and has handed on what it had before.
SameHanded(r, next) ==
  \A j \in Jobs :
    /\ \A i \in DOMAIN Input : HandedBy(next, r, i, j) <=> HandedBy(reader[r], r, i, j)
    /\ Through(next, j) <=> Through(reader[r], j)

LEMMA HandedFinite ==
  ASSUME NEW j
  PROVE  /\ IsFiniteSet(HandedTo(j)) /\ IsFiniteSet(ThroughWith(j))
         /\ \A e : IsFiniteSet(Become(j, e)) /\ Cardinality(Become(j, e)) \in Nat
         /\ Cardinality(ThroughWith(j)) \in Nat
<1>1. IsFiniteSet(DOMAIN Input)
  <2>1. DOMAIN Input = 1 .. Len(Input) /\ Len(Input) \in Nat
    BY JobsAssumption
  <2> QED
    BY <2>1, FS_Interval
<1>2. HandedTo(j) \in SUBSET DOMAIN Input /\ ThroughWith(j) \in SUBSET Readers
  BY DEF HandedTo, ThroughWith
<1>3. IsFiniteSet(HandedTo(j)) /\ IsFiniteSet(ThroughWith(j))
  BY <1>1, <1>2, FS_Subset, JobsAssumption
<1>4. ASSUME NEW e PROVE IsFiniteSet(Become(j, e)) /\ Cardinality(Become(j, e)) \in Nat
  <2>1. Become(j, e) \in SUBSET HandedTo(j)
    BY DEF Become
  <2> QED
    BY <1>3, <2>1, FS_Subset, FS_CardinalityType
<1> QED
  BY <1>3, <1>4, FS_CardinalityType

LEMMA HandedSame ==
  ASSUME Shapes, NEW r \in Readers, NEW next, reader' = [reader EXCEPT ![r] = next],
         SameHanded(r, next)
  PROVE  \A j \in Jobs : HandedTo(j)' = HandedTo(j) /\ ThroughWith(j)' = ThroughWith(j)
<1> SUFFICES ASSUME NEW j \in Jobs
             PROVE  HandedTo(j)' = HandedTo(j) /\ ThroughWith(j)' = ThroughWith(j)
  OBVIOUS
<1>1. \A q \in Readers : reader'[q] = IF q = r THEN next ELSE reader[q]
  BY DEF Shapes, ReaderTypes
<1>2. ASSUME NEW i \in DOMAIN Input PROVE Handed(i, j)' <=> Handed(i, j)
  <2>1. \A q \in Readers : HandedBy(reader'[q], q, i, j) <=> HandedBy(reader[q], q, i, j)
    BY <1>1 DEF SameHanded
  <2> QED
    BY <2>1 DEF Handed, HandedBy
<1>3. \A q \in Readers : Through(reader'[q], j) <=> Through(reader[q], j)
  BY <1>1 DEF SameHanded
<1> QED
  BY <1>2, <1>3 DEF HandedTo, ThroughWith, Through

LEMMA NobodyMoves ==
  ASSUME UNCHANGED reader
  PROVE  \A j \in Jobs : HandedTo(j)' = HandedTo(j) /\ ThroughWith(j)' = ThroughWith(j)
BY DEF HandedTo, ThroughWith, Handed, HandedBy, Through
-------------------------------------------------------------------------------
(* What the readers have done, step by step.                                *)

LEMMA IdsKeepStill ==
  ASSUME IdsDrawn, UNCHANGED ids, NEW r \in Readers
  PROVE  TableStep(r)
<1>1. UNCHANGED <<current_id, translations, pc, original, translated>>
  BY DEF ids
<1>2. IdsDrawn'
  BY <1>1 DEF IdsDrawn, Drawing
<1> QED
  BY <1>1, <1>2 DEF TableStep, InstalledStay, OthersLook

\* Reader r changes, the others do not.
LEMMA RightKeeps ==
  ASSUME Shapes, ReadersRight, UNCHANGED settings, NEW r \in Readers, NEW next,
         TableStep(r), reader' = [reader EXCEPT ![r] = next],
         \A q \in Readers \ {r} : batch'[q] = batch[q] /\ kept'[q] = kept[q],
         LooksAt(r)', EmptyHanded(r)',
         \A j \in Jobs : Having(j, "rewriting") => \A i \in HandedTo(j)' : Known(i)',
         \A j \in Jobs : announced'[j] = Cardinality(ThroughWith(j)')
  PROVE  ReadersRight'
<1>1. \A j \in Jobs : Having(j, "rewriting")' <=> Having(j, "rewriting")
  BY DEF Having
<1>2. ASSUME NEW q \in Readers, q # r PROVE LooksAt(q)' /\ EmptyHanded(q)'
  <2>1. reader'[q] = reader[q] /\ reader[q].job \in Jobs
    BY <1>2, ReaderHere DEF Shapes, ReaderTypes
  <2>2. /\ pc'[q] = pc[q] /\ original'[q] = original[q] /\ translated'[q] = translated[q]
        /\ batch'[q] = batch[q] /\ kept'[q] = kept[q]
    BY <1>2 DEF TableStep, OthersLook
  <2>3. LooksAt(q) /\ EmptyHanded(q)
    BY DEF ReadersRight
  <2>4. LooksAt(q)'
    <3>1. reader[q].at = "target" => Input[reader[q].edge][1] \in Originals
      BY EdgeHere, InputEdge DEF Reading
    <3>2. reader[q].at = "target" =>
            translations'[Input[reader[q].edge][1]] = translations[Input[reader[q].edge][1]]
      BY <2>3, <3>1 DEF LooksAt, TableStep, InstalledStay, Installed
    <3> QED
      BY <1>1, <2>1, <2>2, <2>3, <3>2 DEF LooksAt
  <2>5. EmptyHanded(q)'
    <3>1. InMemory' = InMemory
      BY DEF InMemory, Having
    <3> QED
      BY <2>1, <2>2, <2>3, <3>1 DEF EmptyHanded, Through
  <2> QED
    BY <2>4, <2>5
<1>3. \A q \in Readers : LooksAt(q)' /\ EmptyHanded(q)'
  BY <1>2
<1> QED
  BY <1>1, <1>3 DEF ReadersRight, TableStep

\* What is handed to the jobs, and its ids.
SameHandedTo == \A j \in Jobs : HandedTo(j)' = HandedTo(j)

LEMMA KnownStay ==
  ASSUME InstalledStay, NEW i \in DOMAIN Input, Known(i)
  PROVE  /\ Known(i)' /\ translations'[Input[i][1]] = translations[Input[i][1]]
         /\ translations'[Input[i][2]] = translations[Input[i][2]]
BY InputEdge DEF Known, InstalledStay, Installed

LEMMA HandedKnown ==
  ASSUME ReadersRight, InstalledStay, SameHandedTo
  PROVE  \A j \in Jobs : Having(j, "rewriting") => \A i \in HandedTo(j)' : Known(i)'
<1> SUFFICES ASSUME NEW j \in Jobs, Having(j, "rewriting"), NEW i \in HandedTo(j)
             PROVE  Known(i)'
  BY DEF SameHandedTo
<1>1. i \in DOMAIN Input /\ Known(i)
  BY DEF HandedTo, ReadersRight
<1> QED
  BY <1>1, KnownStay

\* A reader moves on with what it has handed on and keeps.
Quiet ==
  ReadersRight' /\ SameHandedTo /\ InstalledStay /\ UNCHANGED <<kept, batch, queue>>

LEMMA MoveRight ==
  ASSUME Shapes, ReadersRight, UNCHANGED <<settings, kept, batch, announced, queue>>,
         NEW r \in Readers, NEW next, reader' = [reader EXCEPT ![r] = next],
         TableStep(r), SameHanded(r, next), LooksAt(r)',
         next.at # "wait", next.at = "final" => kept[r][next.job] = <<>>
  PROVE  Quiet
<1>1. \A j \in Jobs : HandedTo(j)' = HandedTo(j) /\ ThroughWith(j)' = ThroughWith(j)
  BY HandedSame
<1>2. InstalledStay /\ SameHandedTo
  BY <1>1 DEF TableStep, SameHandedTo
<1>3. EmptyHanded(r)'
  <2>1. reader'[r] = next /\ InMemory' = InMemory
    BY DEF Shapes, ReaderTypes, InMemory, Having
  <2>2. EmptyHanded(r)
    BY DEF ReadersRight
  <2>3. \A j \in Jobs : Through(next, j) <=> Through(reader[r], j)
    BY DEF SameHanded
  <2>4. \A j \in Jobs : Through(reader[r], j)' <=> Through(next, j)
    BY <2>1 DEF Through
  <2> QED
    BY <2>1, <2>2, <2>3, <2>4 DEF EmptyHanded
<1>4. \A j \in Jobs : announced'[j] = Cardinality(ThroughWith(j)')
  BY <1>1 DEF ReadersRight
<1>5. ReadersRight'
  BY <1>2, <1>3, <1>4, HandedKnown, RightKeeps
<1> QED
  BY <1>2, <1>5 DEF Quiet

\* A reader that looks at nothing before and after.
LEMMA MoveStill ==
  ASSUME Shapes, ReadersRight, UNCHANGED <<settings, kept, batch, announced, queue, ids>>,
         NEW r \in Readers, NEW next, reader' = [reader EXCEPT ![r] = next],
         SameHanded(r, next), reader[r].at \notin {"source", "target"},
         next.at \notin {"source", "target", "wait"},
         next.at = "final" => kept[r][next.job] = <<>>
  PROVE  Quiet
<1>1. TableStep(r)
  BY IdsKeepStill DEF ReadersRight
<1>2. LooksAt(r)'
  <2>1. pc'[r] = "idle"
    BY DEF ReadersRight, LooksAt, ids
  <2>2. reader'[r] = next
    BY DEF Shapes, ReaderTypes
  <2> QED
    BY <2>1, <2>2 DEF LooksAt
<1> QED
  BY <1>1, <1>2, MoveRight

LEMMA StartQuiet ==
  ASSUME Shapes, ReadersRight, ReadersLeave, NEW r \in Readers, Start(r)
  PROVE  Quiet
<1> DEFINE place == IF StartId(r) <= EndId(r) THEN "edge" ELSE "finish"
           next == [reader[r] EXCEPT !.edge = StartId(r), !.at = place]
<1>1. /\ reader' = [reader EXCEPT ![r] = next] /\ reader[r].at = "wait"
      /\ UNCHANGED <<settings, kept, batch, announced, queue, ids>>
  BY DEF Start, At
<1>2. next = [at |-> place, edge |-> StartId(r), job |-> reader[r].job, src |-> reader[r].src]
  <2>1. PICK s, x, y : s = reader[r] /\ x = place /\ y = StartId(r)
    OBVIOUS
  <2>2. s \in ReaderRecords
    BY <2>1, ReaderHere
  <2>3. [s EXCEPT !.edge = y, !.at = x] = [at |-> x, edge |-> y, job |-> s.job, src |-> s.src]
    BY <2>2, RecordForms
  <2> QED
    BY <2>1, <2>3
<1>3. reader[r].job = 1
  BY <1>1 DEF ReadersRight, EmptyHanded
<1>4. StartId(r) \in Nat /\ EndId(r) \in Nat /\ \A j \in Jobs : j \in Nat /\ ~(j < 1)
  BY SharesInInput, ReaderNumbers DEF Jobs
<1>5. /\ next.at = place /\ next.edge = StartId(r) /\ next.job = 1
      /\ place \in {"edge", "finish"} /\ (place = "finish" => StartId(r) > EndId(r))
  BY <1>2, <1>3, <1>4
<1> HIDE DEF next, place
<1>6. SameHanded(r, next)
  <2> SUFFICES ASSUME NEW j \in Jobs
               PROVE  /\ \A i \in DOMAIN Input : ~HandedBy(next, r, i, j)
                      /\ \A i \in DOMAIN Input : ~HandedBy(reader[r], r, i, j)
                      /\ ~Through(next, j) /\ ~Through(reader[r], j)
    BY DEF SameHanded
  <2>1. ~Through(next, j) /\ ~Through(reader[r], j)
    BY <1>1, <1>4, <1>5 DEF Through
  <2>2. ASSUME NEW i \in DOMAIN Input, HandedBy(next, r, i, j) PROVE FALSE
    <3>1. i \in StartId(r) .. EndId(r)
      BY <2>2 DEF HandedBy
    <3>2. place = "edge"
      BY <1>4, <1>5, <3>1
    <3>3. i < StartId(r) \/ (i = StartId(r) /\ j < 1)
      BY <1>5, <2>2, <3>2 DEF HandedBy, Reading
    <3> QED
      BY <1>4, <3>1, <3>3
  <2> QED
    BY <1>1, <2>1, <2>2 DEF HandedBy
<1> QED
  BY <1>1, <1>5, <1>6, MoveStill

\* The share, the edge and the job stay, and so does whether it reads.
LEMMA HandedLike ==
  ASSUME Shapes, NEW r \in Readers, NEW next, next.edge = reader[r].edge, next.job = reader[r].job,
         \/ next.at \in Reading /\ reader[r].at \in Reading
         \/ {next.at, reader[r].at} \subseteq {"finish", "barrier", "flush", "final"}
  PROVE  SameHanded(r, next)
BY DEF SameHanded, HandedBy, Through, Reading

LEMMA SourceQuiet ==
  ASSUME Shapes, TypeOK, TypeOK', ReadersRight, ReadersLeave, NEW r \in Readers, TranslateSource(r)
  PROVE  Quiet
<1> DEFINE next == [reader[r] EXCEPT !.at = "source"]
           v == Input[reader[r].edge][1]
<1>1. /\ reader' = [reader EXCEPT ![r] = next] /\ reader[r].at = "edge" /\ Lookup(r, v)
      /\ Having(reader[r].job, "rewriting")
      /\ UNCHANGED <<settings, kept, batch, announced, queue>>
  BY DEF TranslateSource, At
<1>2. /\ next.at = "source" /\ next.edge = reader[r].edge /\ next.job = reader[r].job
      /\ next.src = reader[r].src
  <2>1. next = [at |-> "source", edge |-> reader[r].edge, job |-> reader[r].job,
                src |-> reader[r].src]
    BY ReaderHere, RecordForms
  <2> QED
    BY <2>1
<1>3. v \in Originals
  BY <1>1, EdgeHere, InputEdge DEF Reading
<1>4. SameHanded(r, next)
  BY <1>1, <1>2, HandedLike DEF Reading
<1> HIDE DEF next, v
<1>5. TableStep(r) /\ original'[r] = v /\ (pc'[r] = "idle" => translated'[r] # NoId)
  BY <1>1, <1>3, LookupMoves DEF ReadersRight
<1>6. LooksAt(r)'
  <2>1. reader'[r] = next
    BY <1>1 DEF Shapes, ReaderTypes
  <2>2. /\ reader'[r].at = "source" /\ reader'[r].edge = reader[r].edge
        /\ reader'[r].job = reader[r].job
    BY <1>2, <2>1
  <2>3. Having(reader[r].job, "rewriting")'
    BY <1>1, <2>2 DEF Having
  <2>4. original'[r] = Input[reader'[r].edge][1]
    BY <1>5, <2>2 DEF v
  <2> QED
    BY <1>5, <2>2, <2>3, <2>4 DEF LooksAt
<1> QED
  BY <1>1, <1>2, <1>4, <1>5, <1>6, MoveRight

LEMMA TargetQuiet ==
  ASSUME Shapes, IInv, TypeOK', ReadersRight, ReadersLeave, NEW r \in Readers, TranslateTarget(r)
  PROVE  Quiet
<1> DEFINE next == [reader[r] EXCEPT !.at = "target", !.src = translated[r]]
           u == Input[reader[r].edge][1]
           v == Input[reader[r].edge][2]
<1>1. /\ reader' = [reader EXCEPT ![r] = next] /\ reader[r].at = "source" /\ Lookup(r, v)
      /\ pc[r] = "idle" /\ UNCHANGED <<settings, kept, batch, announced, queue>>
  BY DEF TranslateTarget, At
<1>2. /\ next.at = "target" /\ next.edge = reader[r].edge /\ next.job = reader[r].job
      /\ next.src = translated[r]
  <2>1. PICK s, x : s = reader[r] /\ x = translated[r]
    OBVIOUS
  <2>2. s \in ReaderRecords
    BY <2>1, ReaderHere
  <2>3. [s EXCEPT !.at = "target", !.src = x]
          = [at |-> "target", edge |-> s.edge, job |-> s.job, src |-> x]
    BY <2>2, RecordForms
  <2> QED
    BY <2>1, <2>3
<1>3. v \in Originals
  BY <1>1, EdgeHere, InputEdge DEF Reading
<1>4. SameHanded(r, next)
  BY <1>1, <1>2, HandedLike DEF Reading
<1>5. translated[r] # NoId /\ original[r] = u /\ Having(reader[r].job, "rewriting")
  BY <1>1 DEF ReadersRight, LooksAt
<1>6. translated[r] = translations[u]
  BY <1>1, <1>5 DEF IInv, Agreement
<1> HIDE DEF next, u, v
<1>7. /\ TableStep(r) /\ original'[r] = v /\ (pc'[r] = "idle" => translated'[r] # NoId)
      /\ translations' = translations
  BY <1>1, <1>3, LookupMoves DEF ReadersRight, IInv
<1>8. LooksAt(r)'
  <2>1. reader'[r] = next
    BY <1>1 DEF Shapes, ReaderTypes
  <2>2. /\ reader'[r].at = "target" /\ reader'[r].edge = reader[r].edge
        /\ reader'[r].job = reader[r].job /\ reader'[r].src = translated[r]
    BY <1>2, <2>1
  <2>3. Having(reader[r].job, "rewriting")'
    BY <1>1, <1>5, <2>2 DEF Having
  <2>4. original'[r] = Input[reader'[r].edge][2]
    BY <1>7, <2>2 DEF v
  <2>5. reader'[r].src = translations'[Input[reader'[r].edge][1]]
    BY <1>6, <1>7, <2>2 DEF u
  <2> QED
    BY <1>5, <1>7, <2>2, <2>3, <2>4, <2>5 DEF LooksAt
<1> QED
  BY <1>1, <1>2, <1>4, <1>7, <1>8, MoveRight

LEMMA TranslateQuiet ==
  ASSUME Shapes, TypeOK, TypeOK', ReadersRight, ReadersLeave, NEW r \in Readers, Translate(r)
  PROVE  Quiet
<1>1. /\ Draw(r) \/ Install(r) \/ Undo(r) \/ Reread(r)
      /\ UNCHANGED <<reader, settings, kept, batch, announced, queue>>
  BY DEF Translate, reading
<1>2. reader' = [reader EXCEPT ![r] = reader[r]]
  BY <1>1 DEF Shapes, ReaderTypes
<1>3. /\ TableStep(r) /\ original' = original /\ pc[r] # "idle"
      /\ pc'[r] = "idle" => translated'[r] # NoId
  BY <1>1, TranslateMoves DEF ReadersRight
<1>4. LooksAt(r) /\ reader[r].at \in {"source", "target"}
  BY <1>3 DEF ReadersRight, LooksAt
<1>5. LooksAt(r)'
  <2>1. Input[reader[r].edge][1] \in Originals
    BY <1>4, EdgeHere, InputEdge DEF Reading
  <2>2. reader[r].at = "target" =>
          translations'[Input[reader[r].edge][1]] = translations[Input[reader[r].edge][1]]
    BY <1>3, <1>4, <2>1 DEF LooksAt, TableStep, InstalledStay, Installed
  <2>3. Having(reader[r].job, "rewriting")' <=> Having(reader[r].job, "rewriting")
    BY <1>1 DEF Having
  <2> QED
    BY <1>1, <1>3, <1>4, <2>2, <2>3 DEF LooksAt
<1>6. SameHanded(r, reader[r])
  BY DEF SameHanded
<1> QED
  BY <1>1, <1>2, <1>3, <1>4, <1>5, <1>6, MoveRight

LEMMA FinishQuiet ==
  ASSUME Shapes, ReadersRight, ReadersLeave, NEW r \in Readers, FinishOrWait(r)
  PROVE  Quiet
<1> DEFINE j == reader[r].job
           place == IF j \in InMemory THEN "barrier" ELSE "final"
           next == [reader[r] EXCEPT !.at = place]
<1>1. /\ reader' = [reader EXCEPT ![r] = next] /\ reader[r].at = "finish"
      /\ UNCHANGED <<settings, kept, batch, announced, queue, ids>>
  BY DEF FinishOrWait, At
<1>2. next.at = place /\ next.edge = reader[r].edge /\ next.job = j
  <2>1. next = [at |-> place, edge |-> reader[r].edge, job |-> j, src |-> reader[r].src]
    BY ReaderHere, RecordForms
  <2> QED
    BY <2>1
<1>3. j \in Jobs
  BY ReaderHere
<1>4. place \in {"barrier", "final"} /\ (place = "final" => kept[r][j] = <<>>)
  BY <1>3 DEF ReadersRight, EmptyHanded
<1> HIDE DEF next, place
<1>5. SameHanded(r, next)
  BY <1>1, <1>2, <1>4, HandedLike
<1> QED
  BY <1>1, <1>2, <1>4, <1>5, MoveStill

LEMMA PassQuiet ==
  ASSUME Shapes, ReadersRight, ReadersLeave, NEW r \in Readers, Pass(r)
  PROVE  Quiet
<1> DEFINE next == [reader[r] EXCEPT !.at = "flush"]
<1>1. /\ reader' = [reader EXCEPT ![r] = next] /\ reader[r].at = "barrier"
      /\ UNCHANGED <<settings, kept, batch, announced, queue, ids>>
  BY DEF Pass, At
<1>2. next.at = "flush" /\ next.edge = reader[r].edge /\ next.job = reader[r].job
  <2>1. next = [at |-> "flush", edge |-> reader[r].edge, job |-> reader[r].job,
                src |-> reader[r].src]
    BY ReaderHere, RecordForms
  <2> QED
    BY <2>1
<1> HIDE DEF next
<1>3. SameHanded(r, next)
  BY <1>1, <1>2, HandedLike
<1> QED
  BY <1>1, <1>2, <1>3, MoveStill

LEMMA FlushedQuiet ==
  ASSUME Shapes, ReadersRight, ReadersLeave, NEW r \in Readers, Flush(r),
         kept[r][reader[r].job] = <<>>
  PROVE  Quiet
<1> DEFINE next == [reader[r] EXCEPT !.at = "final"]
<1>1. /\ reader' = [reader EXCEPT ![r] = next] /\ reader[r].at = "flush"
      /\ UNCHANGED <<settings, kept, batch, announced, queue, ids>>
  BY DEF Flush, At
<1>2. next.at = "final" /\ next.edge = reader[r].edge /\ next.job = reader[r].job
  <2>1. next = [at |-> "final", edge |-> reader[r].edge, job |-> reader[r].job,
                src |-> reader[r].src]
    BY ReaderHere, RecordForms
  <2> QED
    BY <2>1
<1> HIDE DEF next
<1>3. SameHanded(r, next)
  BY <1>1, <1>2, HandedLike
<1> QED
  BY <1>1, <1>2, <1>3, MoveStill
-------------------------------------------------------------------------------
(* What the managers have got, step by step.                                *)

LEMMA CopiesNat ==
  ASSUME NEW s \in Edges, NEW e
  PROVE  Copies(s, e) \in Nat
BY SpotsFinite DEF Edges

LEMMA LandingStays ==
  ASSUME NEW j \in Jobs, NEW m \in Managers, NEW e, NEW n, Landing(j, m, e, n),
         queue'[j][m] = queue[j][m], Inserted(j, m)' = Inserted(j, m),
         Pending(j, m)' = Pending(j, m)
  PROVE  Landing(j, m, e, n)'
BY DEF Landing

\* One more message in the queue.
LEMMA LandingGains ==
  ASSUME Shapes, NEW j \in Jobs, NEW m \in Managers, NEW e, NEW n \in Int, Landing(j, m, e, n),
         MessageAt(j, m), NEW x \in Edges, queue'[j][m] = Append(queue[j][m], x),
         Inserted(j, m)' = Inserted(j, m), manager'[j][m] = manager[j][m]
  PROVE  Landing(j, m, e, n + Copies(x, e))'
<1> DEFINE from == Copies(Inserted(j, m), e) - Copies(Pending(j, m), e)
<1>1. queue[j][m] \in Seq(Edges)
  BY DEF Shapes, QueueTypes
<1>2. PICK q : q = queue[j][m] /\ q \in Seq(Edges)
  BY <1>1
<1>3. Pending(j, m)' = Pending(j, m)
  <2>1. CASE manager[j][m] = "persist"
    <3>1. q # <<>>
      BY <1>2, <2>1 DEF MessageAt
    <3>2. Head(Append(q, x)) = Head(q)
      BY <1>2, <3>1
    <3> QED
      BY <1>2, <2>1, <3>2 DEF Pending
  <2>2. CASE manager[j][m] # "persist"
    BY <2>2 DEF Pending
  <2> QED
    BY <2>1, <2>2
<1>4. PICK f : f = from
  OBVIOUS
<1>5. (Copies(Inserted(j, m), e) - Copies(Pending(j, m), e))' = f
  BY <1>3, <1>4
<1> HIDE DEF from
<1>6. Counted(q, f, e, n)
  BY <1>2, <1>4 DEF Landing, from
<1>7. Counted(Append(q, x), f, e, n + Copies(x, e))
  BY <1>2, <1>6, AddsAppend
<1>8. queue'[j][m] = Append(q, x)
  BY <1>2
<1> QED
  BY <1>5, <1>7, <1>8 DEF Landing

LEMMA HeldInNat ==
  ASSUME NEW b \in Batches, NEW k \in Edges, NEW j, NEW m \in Managers, NEW e
  PROVE  /\ HeldIn(b, k, j, m, e) \in Nat /\ b.edges[m] \in Edges
         /\ Copies(b.edges[m], e) \in Nat /\ Copies(k, e) \in Nat
<1>1. b.edges[m] \in Edges
  BY DEF Batches
<1> QED
  BY <1>1, CopiesNat DEF HeldIn

HeldInts ==
  \A j \in Jobs, m \in Managers : \A e : HeldFor(j, m, e) \in [Readers -> Int]

LEMMA HeldIsInt == Shapes => HeldInts
<1> SUFFICES ASSUME Shapes, NEW j \in Jobs, NEW m \in Managers, NEW e
             PROVE  HeldFor(j, m, e) \in [Readers -> Int]
  BY DEF HeldInts
<1>1. ASSUME NEW r \in Readers PROVE Held(r, j, m, e) \in Int
  <2>1. kept[r][j] \in Edges /\ batch[r][j] \in Batches
    BY DEF Shapes, ReaderTypes
  <2> QED
    BY <2>1, HeldInNat DEF Held
<1> QED
  BY <1>1 DEF HeldFor

LEMMA HeldIsIntAfter == Shapes' => HeldInts'
BY HeldIsInt, PTL

LEMMA HeldInt ==
  ASSUME Shapes, NEW j \in Jobs, NEW m \in Managers, NEW e
  PROVE  /\ HeldFor(j, m, e) \in [Readers -> Int] /\ IsFiniteSet(Readers)
         /\ SumFunction(HeldFor(j, m, e)) \in Int
<1>1. HeldFor(j, m, e) \in [Readers -> Int]
  BY HeldIsInt DEF HeldInts
<1> QED
  BY <1>1, JobsAssumption, SumInt

LEMMA ExpectedInt ==
  ASSUME NEW j, NEW m, NEW e
  PROVE  Expected(j, m, e) \in Nat
BY HandedFinite DEF Expected

\* Nothing changes but what is landed is the same.
LEMMA ConservedSame ==
  ASSUME Shapes, NEW j \in Jobs, NEW m \in Managers, NEW e, ConservedAt(j, m, e),
         \A n \in Int : Landing(j, m, e, n) => Landing(j, m, e, n)',
         Expected(j, m, e)' = Expected(j, m, e), HeldFor(j, m, e)' = HeldFor(j, m, e)
  PROVE  ConservedAt(j, m, e)'
<1>1. PICK x, h : x = Expected(j, m, e) /\ h = HeldFor(j, m, e)
  OBVIOUS
<1>2. x - SumFunction(h) \in Int
  BY <1>1, HeldInt, ExpectedInt
<1>3. Landing(j, m, e, x - SumFunction(h))
  BY <1>1 DEF ConservedAt
<1>4. Landing(j, m, e, x - SumFunction(h))'
  BY <1>2, <1>3
<1> QED
  BY <1>1, <1>4 DEF ConservedAt

\* Reader r hands on something new, sends something, and keeps the rest.
LEMMA ConservedMoves ==
  ASSUME Shapes, Shapes', NEW j \in Jobs, NEW m \in Managers, NEW e, ConservedAt(j, m, e),
         NEW r \in Readers, \A q \in Readers : q # r => Held(q, j, m, e)' = Held(q, j, m, e),
         NEW sent \in Nat, NEW new \in Nat,
         \A n \in Int : Landing(j, m, e, n) => Landing(j, m, e, n + sent)',
         Expected(j, m, e)' = Expected(j, m, e) + new,
         sent + Held(r, j, m, e)' = Held(r, j, m, e) + new
  PROVE  ConservedAt(j, m, e)'
<1>1. PICK f, g : f = HeldFor(j, m, e) /\ g = HeldFor(j, m, e)'
  OBVIOUS
<1>2. f \in [Readers -> Int] /\ SumFunction(f) \in Int /\ IsFiniteSet(Readers)
  BY <1>1, HeldInt
<1>3. g \in [Readers -> Int] /\ SumFunction(g) \in Int
  <2>1. g \in [Readers -> Int]
    BY <1>1, HeldIsIntAfter DEF HeldInts
  <2> QED
    BY <1>2, <2>1, SumInt
<1>4. /\ \A q \in Readers : f[q] = Held(q, j, m, e)
      /\ \A q \in Readers : g[q] = Held(q, j, m, e)'
  BY <1>1 DEF HeldFor
<1>5. DiffersAt(f, g, Readers, r)
  BY <1>2, <1>3, <1>4 DEF DiffersAt
<1>6. SumFunction(g) + f[r] = SumFunction(f) + g[r]
  BY <1>5, SumChange
<1>7. PICK x : x = Expected(j, m, e)
  OBVIOUS
<1>8. x \in Nat /\ f[r] \in Int /\ g[r] \in Int /\ sent + g[r] = f[r] + new
  BY <1>2, <1>3, <1>4, <1>7, ExpectedInt
<1>9. PICK n : n = x - SumFunction(f)
  OBVIOUS
<1>10. n \in Int /\ n + sent = (x + new) - SumFunction(g)
  BY <1>2, <1>3, <1>6, <1>8, <1>9
<1>11. Landing(j, m, e, n)
  BY <1>1, <1>7, <1>9 DEF ConservedAt
<1>12. Landing(j, m, e, n + sent)'
  BY <1>10, <1>11
<1>13. Expected(j, m, e)' = x + new
  BY <1>7
<1>14. SumFunction(HeldFor(j, m, e))' = SumFunction(g)
  BY <1>1
<1> QED
  BY <1>10, <1>12, <1>13, <1>14 DEF ConservedAt

\* Of what a reader hands on, a part is sent, and the rest its provider has.
NewAt(j, new, m, e) == IF e \in new /\ ManagerOf(j, e) = m THEN 1 ELSE 0
Balanced(r, j, new, full, b, k) ==
  \A m \in Managers, e \in Int \X Int :
    Copies(full.edges[m], e) + HeldIn(b, k, j, m, e) = Held(r, j, m, e) + NewAt(j, new, m, e)
Passes(r, j, new) ==
  \E full \in Batches, b \in Batches, k \in Edges :
    /\ Send(j, full) /\ Balanced(r, j, new, full, b, k)
    /\ batch' = [batch EXCEPT ![r][j] = b]
    /\ kept' = [kept EXCEPT ![r][j] = k]
Hands(j, new) ==
  \A i \in Jobs : \A e :
    Cardinality(Become(i, e)') = Cardinality(Become(i, e)) + IF i = j /\ e \in new THEN 1 ELSE 0

LEMMA SendNone ==
  ASSUME Shapes, UNCHANGED queue, NEW j \in Jobs
  PROVE  Send(j, NoEdges)
<1>1. queue \in [Jobs -> [Managers -> Seq(Edges)]]
  BY DEF Shapes, QueueTypes
<1>2. \A m \in Managers : NoEdges.edges[m] = <<>>
  BY DEF NoEdges
<1>3. PICK q : q = [m \in Managers |->
          IF NoEdges.edges[m] = <<>> THEN queue[j][m] ELSE Append(queue[j][m], NoEdges.edges[m])]
  OBVIOUS
<1>4. q = queue[j]
  BY <1>1, <1>2, <1>3
<1>5. [queue EXCEPT ![j] = q] = queue
  BY <1>1, <1>4
<1> QED
  BY <1>3, <1>5 DEF Send

LEMMA SentLands ==
  ASSUME Shapes, MessagesRight, ReadersLeave, NEW j \in Jobs, NEW full \in Batches,
         Send(j, full), NEW i \in Jobs, NEW m \in Managers, NEW e
  PROVE  \A n \in Int : Landing(i, m, e, n) =>
           Landing(i, m, e, n + IF i = j THEN Copies(full.edges[m], e) ELSE 0)'
<1>1. PICK x : x = full.edges[m] /\ x \in Edges
  BY DEF Batches
<1>2. /\ manager' = manager /\ stored' = stored /\ backup' = backup
      /\ Inserted(i, m)' = Inserted(i, m)
  BY DEF ReadersLeave, managing, files, Inserted
<1>3. queue'[i][m] = IF i = j /\ x # <<>> THEN Append(queue[i][m], x) ELSE queue[i][m]
  <2>1. queue \in [Jobs -> [Managers -> Seq(Edges)]]
    BY DEF Shapes, QueueTypes
  <2> QED
    BY <1>1, <2>1 DEF Send
<1>4. MessageAt(i, m)
  BY DEF MessagesRight
<1> SUFFICES ASSUME NEW n \in Int, Landing(i, m, e, n)
             PROVE  Landing(i, m, e, n + IF i = j THEN Copies(x, e) ELSE 0)'
  BY <1>1
<1>5. CASE i = j /\ x # <<>>
  BY <1>1, <1>2, <1>3, <1>4, <1>5, LandingGains
<1>6. CASE ~(i = j /\ x # <<>>)
  <2>1. n + (IF i = j THEN Copies(x, e) ELSE 0) = n
    BY <1>6, CopiesNone
  <2>2. queue'[i][m] = queue[i][m] /\ Pending(i, m)' = Pending(i, m)
    BY <1>2, <1>3, <1>6 DEF Pending
  <2>3. Landing(i, m, e, n)'
    BY <1>2, <2>2, LandingStays
  <2> QED
    BY <2>1, <2>3
<1> QED
  BY <1>5, <1>6

LEMMA PassesConserved ==
  ASSUME Shapes, Shapes', MessagesRight, Conserved, ReadersLeave,
         NEW r \in Readers, NEW j \in Jobs, NEW new, Passes(r, j, new), Hands(j, new)
  PROVE  Conserved'
<1>0. settings' = settings /\ \A i \in Jobs : Admitted(i)' <=> Admitted(i)
  BY DEF ReadersLeave, Admitted
<1> SUFFICES ASSUME NEW i \in Jobs, NEW m \in Managers, NEW e \in Int \X Int, Admitted(i)
             PROVE  ConservedAt(i, m, e)'
  BY <1>0 DEF Conserved
<1>1. PICK full \in Batches, b \in Batches, k \in Edges :
        /\ Send(j, full) /\ Balanced(r, j, new, full, b, k)
        /\ batch' = [batch EXCEPT ![r][j] = b]
        /\ kept' = [kept EXCEPT ![r][j] = k]
  BY DEF Passes
<1>2. \A q \in Readers, l \in Jobs :
        /\ batch'[q][l] = IF q = r /\ l = j THEN b ELSE batch[q][l]
        /\ kept'[q][l] = IF q = r /\ l = j THEN k ELSE kept[q][l]
  BY <1>1 DEF Shapes, ReaderTypes
<1>3. ManagerOf(i, e)' = ManagerOf(i, e)
  BY <1>0 DEF ManagerOf
<1>4. \A q \in Readers : Held(q, i, m, e)' = HeldIn(batch'[q][i], kept'[q][i], i, m, e)
  BY <1>3 DEF Held, HeldIn
<1>5. PICK sent, gain :
        /\ sent = IF i = j THEN Copies(full.edges[m], e) ELSE 0
        /\ gain = IF i = j THEN NewAt(j, new, m, e) ELSE 0
  OBVIOUS
<1>6. sent \in Nat /\ gain \in Nat
  BY <1>1, <1>5, HeldInNat DEF NewAt
<1>7. \A q \in Readers : q # r => Held(q, i, m, e)' = Held(q, i, m, e)
  BY <1>2, <1>4 DEF Held
<1>8. sent + Held(r, i, m, e)' = Held(r, i, m, e) + gain
  <2>1. CASE i = j
    <3>1. Held(r, i, m, e)' = HeldIn(b, k, j, m, e)
      BY <1>2, <1>4, <2>1
    <3>2. Copies(full.edges[m], e) + HeldIn(b, k, j, m, e)
            = Held(r, j, m, e) + NewAt(j, new, m, e)
      BY <1>1 DEF Balanced
    <3> QED
      BY <1>5, <2>1, <3>1, <3>2
  <2>2. CASE i # j
    <3>1. Held(r, i, m, e)' = Held(r, i, m, e)
      BY <1>2, <1>4, <2>2 DEF Held
    <3>2. Held(r, i, m, e) \in Int
      BY HeldInt DEF HeldFor
    <3> QED
      BY <1>5, <2>2, <3>1, <3>2
  <2> QED
    BY <2>1, <2>2
<1>9. Expected(i, m, e)' = Expected(i, m, e) + gain
  <2>1. PICK c, d : c = Cardinality(Become(i, e)) /\ d = Cardinality(Become(i, e)')
    OBVIOUS
  <2>2. d = c + (IF i = j /\ e \in new THEN 1 ELSE 0) /\ c \in Nat
    BY <2>1, HandedFinite DEF Hands
  <2>3. Expected(i, m, e) = IF ManagerOf(i, e) = m THEN c ELSE 0
    BY <2>1 DEF Expected
  <2>4. Expected(i, m, e)' = IF ManagerOf(i, e) = m THEN d ELSE 0
    BY <1>3, <2>1 DEF Expected
  <2>5. CASE i = j
    BY <1>5, <2>2, <2>3, <2>4, <2>5 DEF NewAt
  <2>6. CASE i # j
    BY <1>5, <2>2, <2>3, <2>4, <2>6
  <2> QED
    BY <2>5, <2>6
<1>10. \A n \in Int : Landing(i, m, e, n) => Landing(i, m, e, n + sent)'
  BY <1>1, <1>5, SentLands
<1>11. ConservedAt(i, m, e)
  BY DEF Conserved
<1> QED
  BY <1>6, <1>7, <1>8, <1>9, <1>10, <1>11, ConservedMoves

LEMMA EdgesAppend ==
  ASSUME NEW s \in Edges, NEW x \in Int \X Int, NEW e
  PROVE  /\ Append(s, x) \in Edges
         /\ Copies(Append(s, x), e) = Copies(s, e) + (IF x = e THEN 1 ELSE 0)
<1>1. PICK S : S = Int \X Int
  OBVIOUS
<1>2. s \in Seq(S) /\ x \in S
  BY <1>1 DEF Edges
<1>3. Append(s, x) \in Seq(S)
  BY <1>2
<1>4. Copies(Append(s, x), e) = Copies(s, e) + (IF x = e THEN 1 ELSE 0)
  BY <1>2, CopiesAppend
<1> QED
  BY <1>1, <1>3, <1>4 DEF Edges

\* One more edge for a manager.
Here(j, x, m, e) == IF m = ManagerOf(j, x) /\ x = e THEN 1 ELSE 0

LEMMA ProcessCounts ==
  ASSUME Shapes, NEW r \in Readers, NEW j \in Jobs, Admitted(j), NEW x \in Int \X Int,
         Process(r, j, x)
  PROVE  \E full \in Batches, b \in Batches :
           /\ Send(j, full) /\ batch' = [batch EXCEPT ![r][j] = b]
           /\ \A m \in Managers, e \in Int \X Int :
                Copies(full.edges[m], e) + Copies(b.edges[m], e)
                  = Copies(batch[r][j].edges[m], e) + Here(j, x, m, e)
<1> DEFINE next == [size |-> batch[r][j].size + 1,
                    edges |-> [batch[r][j].edges EXCEPT ![ManagerOf(j, x)] = Append(@, x)]]
<1>1. next \in Batches /\ NoEdges \in Batches
  BY NextBatch, NoEdgesType
<1>2. batch[r][j] \in Batches
  BY DEF Shapes, ReaderTypes
<1>3. PICK old : old = batch[r][j].edges /\ old \in [Managers -> Edges]
  BY <1>2 DEF Batches
<1>4. ManagerOf(j, x) \in Managers
  BY ManagerOfEdge DEF Shapes
<1>5. \A m \in Managers : next.edges[m] = IF m = ManagerOf(j, x) THEN Append(old[m], x) ELSE old[m]
  BY <1>3, <1>4
<1>6. \/ batch' = [batch EXCEPT ![r][j] = NoEdges] /\ Send(j, next)
      \/ batch' = [batch EXCEPT ![r][j] = next] /\ UNCHANGED queue
  BY DEF Process
<1> HIDE DEF next
<1>7. ASSUME NEW m \in Managers, NEW e \in Int \X Int
      PROVE  /\ Copies(next.edges[m], e) = Copies(old[m], e) + Here(j, x, m, e)
             /\ Copies(next.edges[m], e) \in Nat /\ Copies(NoEdges.edges[m], e) = 0
  <2>1. old[m] \in Edges /\ Copies(old[m], e) \in Nat
    BY <1>3, CopiesNat
  <2>2. Copies(Append(old[m], x), e) = Copies(old[m], e) + (IF x = e THEN 1 ELSE 0)
    BY <2>1, EdgesAppend
  <2>3. Copies(next.edges[m], e) = Copies(old[m], e) + Here(j, x, m, e)
    <3>1. CASE m = ManagerOf(j, x)
      BY <1>5, <2>2, <3>1 DEF Here
    <3>2. CASE m # ManagerOf(j, x)
      BY <1>5, <2>1, <3>2 DEF Here
    <3> QED
      BY <3>1, <3>2
  <2>4. NoEdges.edges[m] = <<>>
    BY DEF NoEdges
  <2> QED
    BY <1>1, <2>3, <2>4, CopiesNone, HeldInNat, Zenon DEF Batches
<1>8. CASE batch' = [batch EXCEPT ![r][j] = NoEdges] /\ Send(j, next)
  <2>1. \A m \in Managers, e \in Int \X Int :
          Copies(next.edges[m], e) + Copies(NoEdges.edges[m], e)
            = Copies(batch[r][j].edges[m], e) + Here(j, x, m, e)
    BY <1>3, <1>7
  <2> QED
    BY <1>1, <1>8, <2>1
<1>9. CASE batch' = [batch EXCEPT ![r][j] = next] /\ UNCHANGED queue
  <2>1. Send(j, NoEdges)
    BY <1>9, SendNone
  <2>2. \A m \in Managers, e \in Int \X Int :
          Copies(NoEdges.edges[m], e) + Copies(next.edges[m], e)
            = Copies(batch[r][j].edges[m], e) + Here(j, x, m, e)
    BY <1>3, <1>7
  <2> QED
    BY <1>1, <1>9, <2>1, <2>2
<1> QED
  BY <1>6, <1>8, <1>9

\* The edge is handed to processEdge as it comes ...
LEMMA ProcessPasses ==
  ASSUME Shapes, NEW r \in Readers, NEW j \in Jobs, Admitted(j), NEW x \in Int \X Int,
         Process(r, j, x), UNCHANGED kept
  PROVE  Passes(r, j, {x})
<1>1. PICK full \in Batches, b \in Batches :
        /\ Send(j, full) /\ batch' = [batch EXCEPT ![r][j] = b]
        /\ \A m \in Managers, e \in Int \X Int :
             Copies(full.edges[m], e) + Copies(b.edges[m], e)
               = Copies(batch[r][j].edges[m], e) + Here(j, x, m, e)
  BY ProcessCounts
<1>2. PICK k : k = kept[r][j]
  OBVIOUS
<1>3. k \in Edges /\ kept' = [kept EXCEPT ![r][j] = k] /\ batch[r][j] \in Batches
  BY <1>2 DEF Shapes, ReaderTypes
<1>4. Balanced(r, j, {x}, full, b, k)
  <2> SUFFICES ASSUME NEW m \in Managers, NEW e \in Int \X Int
               PROVE  Copies(full.edges[m], e) + HeldIn(b, k, j, m, e)
                        = Held(r, j, m, e) + NewAt(j, {x}, m, e)
    BY DEF Balanced
  <2>1. PICK f, g, h, o : /\ f = Copies(full.edges[m], e) /\ g = Copies(b.edges[m], e)
                          /\ h = IF ManagerOf(j, e) = m THEN Copies(k, e) ELSE 0
                          /\ o = Copies(batch[r][j].edges[m], e)
    OBVIOUS
  <2>2. f \in Nat /\ g \in Nat /\ h \in Nat /\ o \in Nat
    BY <1>1, <1>3, <2>1, HeldInNat
  <2>3. f + g = o + Here(j, x, m, e)
    BY <1>1, <2>1
  <2>4. HeldIn(b, k, j, m, e) = g + h /\ Held(r, j, m, e) = o + h
    BY <1>2, <2>1 DEF Held, HeldIn
  <2>5. Here(j, x, m, e) = NewAt(j, {x}, m, e) /\ Here(j, x, m, e) \in Nat
    BY DEF Here, NewAt
  <2> QED
    BY <2>1, <2>2, <2>3, <2>4, <2>5
<1> QED
  BY <1>1, <1>3, <1>4 DEF Passes

\* ... or kept until everybody has read its share.
LEMMA KeepPasses ==
  ASSUME Shapes, NEW r \in Readers, NEW j \in Jobs, NEW x \in Int \X Int,
         kept' = [kept EXCEPT ![r][j] = Append(@, x)], UNCHANGED <<batch, queue>>
  PROVE  Passes(r, j, {x})
<1>1. PICK k, b : k = kept[r][j] /\ b = batch[r][j]
  OBVIOUS
<1>2. k \in Edges /\ b \in Batches /\ batch' = [batch EXCEPT ![r][j] = b] /\ Append(k, x) \in Edges
  BY <1>1 DEF Shapes, ReaderTypes, Edges
<1>3. kept' = [kept EXCEPT ![r][j] = Append(k, x)]
  BY <1>1 DEF Shapes, ReaderTypes
<1>4. Send(j, NoEdges) /\ NoEdges \in Batches
  BY SendNone, NoEdgesType
<1>5. Balanced(r, j, {x}, NoEdges, b, Append(k, x))
  <2> SUFFICES ASSUME NEW m \in Managers, NEW e \in Int \X Int
               PROVE  Copies(NoEdges.edges[m], e) + HeldIn(b, Append(k, x), j, m, e)
                        = Held(r, j, m, e) + NewAt(j, {x}, m, e)
    BY DEF Balanced
  <2>1. Copies(NoEdges.edges[m], e) = 0
    BY CopiesNone DEF NoEdges
  <2>2. Copies(Append(k, x), e) = Copies(k, e) + (IF x = e THEN 1 ELSE 0)
    BY <1>2, EdgesAppend
  <2>3. PICK c, o : c = Copies(k, e) /\ o = Copies(b.edges[m], e)
    OBVIOUS
  <2>4. c \in Nat /\ o \in Nat
    BY <1>2, <2>3, HeldInNat
  <2>5. /\ Held(r, j, m, e) = o + IF ManagerOf(j, e) = m THEN c ELSE 0
        /\ HeldIn(b, Append(k, x), j, m, e)
             = o + IF ManagerOf(j, e) = m THEN c + (IF x = e THEN 1 ELSE 0) ELSE 0
    BY <1>1, <2>2, <2>3 DEF Held, HeldIn
  <2>6. NewAt(j, {x}, m, e) = IF e = x /\ ManagerOf(j, e) = m THEN 1 ELSE 0
    BY DEF NewAt
  <2> QED
    BY <2>1, <2>4, <2>5, <2>6
<1> QED
  BY <1>2, <1>3, <1>4, <1>5 DEF Passes

\* What is kept goes the same way later.
LEMMA FlushPasses ==
  ASSUME Shapes, NEW r \in Readers, NEW j \in Jobs, Admitted(j), kept[r][j] # <<>>,
         Process(r, j, Head(kept[r][j])), kept' = [kept EXCEPT ![r][j] = Tail(@)]
  PROVE  Passes(r, j, {})
<1>1. PICK s : s = kept[r][j]
  OBVIOUS
<1>2. s \in Edges
  BY <1>1 DEF Shapes, ReaderTypes
<1>3. PICK x, k : x = Head(s) /\ k = Tail(s)
  OBVIOUS
<1>4. x \in Int \X Int /\ k \in Edges
  BY <1>1, <1>2, <1>3 DEF Edges
<1>5. PICK full \in Batches, b \in Batches :
        /\ Send(j, full) /\ batch' = [batch EXCEPT ![r][j] = b]
        /\ \A m \in Managers, e \in Int \X Int :
             Copies(full.edges[m], e) + Copies(b.edges[m], e)
               = Copies(batch[r][j].edges[m], e) + Here(j, x, m, e)
  <2>1. Process(r, j, x)
    BY <1>1, <1>3
  <2> QED
    BY <1>4, <2>1, ProcessCounts
<1>6. kept' = [kept EXCEPT ![r][j] = k] /\ batch[r][j] \in Batches
  BY <1>1, <1>3 DEF Shapes, ReaderTypes
<1>7. Balanced(r, j, {}, full, b, k)
  <2> SUFFICES ASSUME NEW m \in Managers, NEW e \in Int \X Int
               PROVE  Copies(full.edges[m], e) + HeldIn(b, k, j, m, e)
                        = Held(r, j, m, e) + NewAt(j, {}, m, e)
    BY DEF Balanced
  <2>1. PICK f, g, c, o : /\ f = Copies(full.edges[m], e) /\ g = Copies(b.edges[m], e)
                          /\ c = Copies(k, e) /\ o = Copies(batch[r][j].edges[m], e)
    OBVIOUS
  <2>2. f \in Nat /\ g \in Nat /\ c \in Nat /\ o \in Nat
    BY <1>4, <1>5, <1>6, <2>1, HeldInNat
  <2>3. f + g = o + Here(j, x, m, e)
    BY <1>5, <2>1
  <2>4. Copies(s, e) = c + (IF x = e THEN 1 ELSE 0)
    BY <1>1, <1>2, <1>3, <2>1, CopiesTail DEF Edges
  <2>5. /\ HeldIn(b, k, j, m, e) = g + IF ManagerOf(j, e) = m THEN c ELSE 0
        /\ Held(r, j, m, e)
             = o + IF ManagerOf(j, e) = m THEN c + (IF x = e THEN 1 ELSE 0) ELSE 0
    BY <1>1, <2>1, <2>4 DEF Held, HeldIn
  <2>6. NewAt(j, {}, m, e) = 0
    BY DEF NewAt
  <2>7. Here(j, x, m, e) = IF ManagerOf(j, e) = m /\ x = e THEN 1 ELSE 0
    BY DEF Here
  <2>8. f + g = o + (IF ManagerOf(j, e) = m /\ x = e THEN 1 ELSE 0)
    BY <2>3, <2>7
  <2>9. PICK u, v : u = HeldIn(b, k, j, m, e) /\ v = Held(r, j, m, e)
    OBVIOUS
  <2>10. f + u = v
    <3>1. CASE ManagerOf(j, e) = m
      <4>1. PICK y : y = IF x = e THEN 1 ELSE 0
        OBVIOUS
      <4>2. u = g + c
        BY <2>5, <2>9, <3>1
      <4>3. v = o + (c + y)
        BY <2>5, <2>9, <3>1, <4>1
      <4>4. f + g = o + y /\ y \in Nat
        BY <2>8, <3>1, <4>1
      <4> QED
        BY <2>2, <4>2, <4>3, <4>4, SMTT(30)
    <3>2. CASE ManagerOf(j, e) # m
      BY <2>2, <2>5, <2>8, <2>9, <3>2
    <3> QED
      BY <3>1, <3>2
  <2>11. v \in Nat
    BY <2>2, <2>5, <2>9
  <2> QED
    BY <2>1, <2>6, <2>9, <2>10, <2>11
<1> QED
  BY <1>4, <1>5, <1>6, <1>7 DEF Passes

LEMMA FinalPasses ==
  ASSUME Shapes, NEW r \in Readers, NEW j \in Jobs, Send(j, batch[r][j]),
         batch' = [batch EXCEPT ![r][j] = NoEdges], UNCHANGED kept
  PROVE  Passes(r, j, {})
<1>1. PICK k, b : k = kept[r][j] /\ b = batch[r][j]
  OBVIOUS
<1>2. k \in Edges /\ b \in Batches /\ kept' = [kept EXCEPT ![r][j] = k] /\ NoEdges \in Batches
  BY <1>1, NoEdgesType DEF Shapes, ReaderTypes
<1>3. Balanced(r, j, {}, b, NoEdges, k)
  <2> SUFFICES ASSUME NEW m \in Managers, NEW e \in Int \X Int
               PROVE  Copies(b.edges[m], e) + HeldIn(NoEdges, k, j, m, e)
                        = Held(r, j, m, e) + NewAt(j, {}, m, e)
    BY DEF Balanced
  <2>1. PICK h, o : h = (IF ManagerOf(j, e) = m THEN Copies(k, e) ELSE 0)
                      /\ o = Copies(b.edges[m], e)
    OBVIOUS
  <2>2. h \in Nat /\ o \in Nat
    BY <1>2, <2>1, HeldInNat
  <2>3. Copies(NoEdges.edges[m], e) = 0
    BY CopiesNone DEF NoEdges
  <2>4. HeldIn(NoEdges, k, j, m, e) = 0 + h /\ Held(r, j, m, e) = o + h
    BY <1>1, <2>1, <2>3 DEF Held, HeldIn
  <2>5. NewAt(j, {}, m, e) = 0
    BY DEF NewAt
  <2> QED
    BY <2>1, <2>2, <2>4, <2>5
<1> QED
  BY <1>1, <1>2, <1>3 DEF Passes

LEMMA QuietPasses ==
  ASSUME Shapes, NEW r \in Readers, NEW j \in Jobs, UNCHANGED <<kept, batch, queue>>
  PROVE  Passes(r, j, {})
<1>1. PICK k, b : k = kept[r][j] /\ b = batch[r][j]
  OBVIOUS
<1>2. /\ k \in Edges /\ kept' = [kept EXCEPT ![r][j] = k]
      /\ b \in Batches /\ batch' = [batch EXCEPT ![r][j] = b]
  BY <1>1 DEF Shapes, ReaderTypes
<1>3. Send(j, NoEdges) /\ NoEdges \in Batches
  BY SendNone, NoEdgesType
<1>4. Balanced(r, j, {}, NoEdges, b, k)
  <2> SUFFICES ASSUME NEW m \in Managers, NEW e \in Int \X Int
               PROVE  Copies(NoEdges.edges[m], e) + HeldIn(b, k, j, m, e)
                        = Held(r, j, m, e) + NewAt(j, {}, m, e)
    BY DEF Balanced
  <2>1. Copies(NoEdges.edges[m], e) = 0
    BY CopiesNone DEF NoEdges
  <2>2. HeldIn(b, k, j, m, e) \in Nat /\ HeldIn(b, k, j, m, e) = Held(r, j, m, e)
    BY <1>1, <1>2, HeldInNat DEF Held
  <2> QED
    BY <2>1, <2>2 DEF NewAt
<1> QED
  BY <1>2, <1>3, <1>4 DEF Passes

\* No edge is in the shares of two readers.
LEMMA SharesApart ==
  ASSUME NEW r \in Readers, NEW q \in Readers, q # r, NEW i \in StartId(r) .. EndId(r)
  PROVE  i \notin StartId(q) .. EndId(q)
<1> DEFINE n == ReaderCount
           l == Len(Input)
           s == l \div n
<1>1. n \in Nat /\ n > 0 /\ r \in 1 .. n /\ q \in 1 .. n /\ l \in Nat
  BY ReaderNumbers, JobsAssumption
<1>2. Share = s
  BY DEF Share
<1>3. s \in Nat /\ n * s <= l
  BY <1>1, Z3
<1>4. \A p \in {r, q} : StartId(p) = (p - 1) * s + 1 /\ EndId(p) = IF p = n THEN l ELSE p * s
  BY <1>2 DEF StartId, EndId
<1> HIDE DEF n, l, s
<1>5. \A a \in 1 .. n, b \in 1 .. n : a < b => a * s <= (b - 1) * s
  <2> SUFFICES ASSUME NEW a \in 1 .. n, NEW b \in 1 .. n, a < b PROVE a * s <= (b - 1) * s
    OBVIOUS
  <2>1. PICK d : d = b - 1 - a
    OBVIOUS
  <2>2. d \in Nat /\ b - 1 = a + d /\ a \in Nat
    BY <1>1, <2>1
  <2>3. (a + d) * s = a * s + d * s /\ d * s \in Nat /\ a * s \in Nat
    BY <1>3, <2>2, Z3
  <2> QED
    BY <2>2, <2>3
<1>6. \A a \in {r, q}, b \in {r, q} : a < b => EndId(a) < StartId(b)
  <2> SUFFICES ASSUME NEW a \in {r, q}, NEW b \in {r, q}, a < b PROVE EndId(a) < StartId(b)
    OBVIOUS
  <2>1. a \in 1 .. n /\ b \in 1 .. n /\ a # n
    BY <1>1
  <2>2. EndId(a) = a * s /\ StartId(b) = (b - 1) * s + 1
    BY <1>4, <2>1
  <2>3. PICK x, y : x = a * s /\ y = (b - 1) * s
    OBVIOUS
  <2>4. x \in Int /\ y \in Int
    BY <1>3, <2>1, <2>3, Z3
  <2>5. x <= y
    BY <1>5, <2>1, <2>3
  <2> QED
    BY <2>2, <2>3, <2>4, <2>5
<1>7. \A p \in {r, q} : StartId(p) \in Nat /\ EndId(p) \in Nat
  BY SharesInInput
<1>8. CASE r < q
  BY <1>6, <1>7, <1>8
<1>9. CASE q < r
  BY <1>6, <1>7, <1>9
<1> QED
  BY <1>1, <1>8, <1>9

LEMMA AfterIs ==
  ASSUME Shapes, NEW r \in Readers, reader[r].at \in Reading
  PROVE  LET here == reader[r]
         IN  /\ here.job < JobCount =>
                  After(r) = [at |-> "edge", edge |-> here.edge, job |-> here.job + 1,
                              src |-> here.src]
             /\ ~(here.job < JobCount) =>
                  After(r) = [at |-> IF here.edge < EndId(r) THEN "edge" ELSE "finish",
                              edge |-> here.edge + 1, job |-> 1, src |-> here.src]
<1> DEFINE here == reader[r]
<1>1. /\ here = [at |-> here.at, edge |-> here.edge, job |-> here.job, src |-> here.src]
      /\ here.edge \in Int /\ here.src \in Int /\ here.job \in Jobs
      /\ here.edge \in StartId(r) .. EndId(r)
  BY ReaderHere
<1>2. ASSUME here.job < JobCount
      PROVE  After(r) = [at |-> "edge", edge |-> here.edge, job |-> here.job + 1,
                         src |-> here.src]
  BY <1>1, <1>2 DEF After
<1>3. ASSUME ~(here.job < JobCount)
      PROVE  After(r) = [at |-> IF here.edge < EndId(r) THEN "edge" ELSE "finish",
                         edge |-> here.edge + 1, job |-> 1, src |-> here.src]
  BY <1>1, <1>3 DEF After
<1> QED
  BY <1>2, <1>3

\* With the step to its next place a reader has handed its edge to its job.
LEMMA AfterHands ==
  ASSUME Shapes, NEW r \in Readers, reader[r].at \in Reading
  PROVE  \A k \in Jobs :
           /\ \A i \in DOMAIN Input :
                HandedBy(After(r), r, i, k) <=>
                  HandedBy(reader[r], r, i, k) \/ (i = reader[r].edge /\ k = reader[r].job)
           /\ ~Through(After(r), k) /\ ~Through(reader[r], k)
           /\ ~HandedBy(reader[r], r, reader[r].edge, reader[r].job)
           /\ After(r).at \in {"edge", "finish"}
<1> SUFFICES ASSUME NEW k \in Jobs
             PROVE  /\ \A i \in DOMAIN Input :
                         HandedBy(After(r), r, i, k) <=>
                           HandedBy(reader[r], r, i, k) \/ (i = reader[r].edge /\ k = reader[r].job)
                    /\ ~Through(After(r), k) /\ ~Through(reader[r], k)
                    /\ ~HandedBy(reader[r], r, reader[r].edge, reader[r].job)
                    /\ After(r).at \in {"edge", "finish"}
  OBVIOUS
<1>1. PICK here : here = reader[r]
  OBVIOUS
<1>2. /\ here = [at |-> here.at, edge |-> here.edge, job |-> here.job, src |-> here.src]
      /\ here.edge \in Int /\ here.src \in Int /\ here.job \in Jobs
      /\ here.edge \in StartId(r) .. EndId(r) /\ here.at \in Reading
  BY <1>1, ReaderHere
<1>3. StartId(r) \in Nat /\ EndId(r) \in Nat
  BY SharesInInput
<1>4. JobCount \in Nat /\ Jobs = 1 .. JobCount
  BY ReaderNumbers DEF Jobs
<1>5. ~Through(here, k) /\ ~HandedBy(here, r, here.edge, here.job)
  BY <1>2, <1>4 DEF Through, HandedBy, Reading
<1>6. \A i \in DOMAIN Input : HandedBy(here, r, i, k) <=>
        i \in StartId(r) .. EndId(r) /\ (i < here.edge \/ (i = here.edge /\ k < here.job))
  BY <1>2 DEF HandedBy, Reading
<1>7. CASE here.job < JobCount
  <2>1. PICK s : s = [at |-> "edge", edge |-> here.edge, job |-> here.job + 1, src |-> here.src]
    OBVIOUS
  <2>2. After(r) = s
    BY <1>1, <1>7, <2>1, AfterIs
  <2>3. s.at = "edge" /\ s.edge = here.edge /\ s.job = here.job + 1
    BY <2>1
  <2>4. ~Through(s, k)
    BY <2>3 DEF Through
  <2>5. \A i \in DOMAIN Input : HandedBy(s, r, i, k) <=>
          i \in StartId(r) .. EndId(r) /\ (i < here.edge \/ (i = here.edge /\ k < here.job + 1))
    BY <2>3 DEF HandedBy, Reading
  <2>6. \A i \in DOMAIN Input : HandedBy(s, r, i, k) <=>
          HandedBy(here, r, i, k) \/ (i = here.edge /\ k = here.job)
    BY <1>2, <1>4, <1>6, <2>5
  <2> QED
    BY <1>1, <1>5, <2>2, <2>3, <2>4, <2>6
<1>8. CASE ~(here.job < JobCount)
  <2>1. PICK s : s = [at |-> IF here.edge < EndId(r) THEN "edge" ELSE "finish",
                      edge |-> here.edge + 1, job |-> 1, src |-> here.src]
    OBVIOUS
  <2>2. After(r) = s
    BY <1>1, <1>8, <2>1, AfterIs
  <2>3. /\ s.at = (IF here.edge < EndId(r) THEN "edge" ELSE "finish")
        /\ s.edge = here.edge + 1 /\ s.job = 1 /\ here.job = JobCount
    BY <1>2, <1>4, <1>8, <2>1
  <2>4. ~Through(s, k)
    BY <1>4, <2>3 DEF Through
  <2>5. \A i \in DOMAIN Input : HandedBy(here, r, i, k) \/ (i = here.edge /\ k = here.job)
          <=> i \in StartId(r) .. EndId(r) /\ i <= here.edge
    BY <1>2, <1>3, <1>4, <1>6, <2>3
  <2>6. CASE here.edge < EndId(r)
    <3>1. \A i \in DOMAIN Input : HandedBy(s, r, i, k) <=>
            i \in StartId(r) .. EndId(r) /\ (i < here.edge + 1 \/ (i = here.edge + 1 /\ k < 1))
      BY <2>3, <2>6 DEF HandedBy, Reading
    <3>2. \A i \in DOMAIN Input : HandedBy(s, r, i, k) <=>
            i \in StartId(r) .. EndId(r) /\ i <= here.edge
      BY <1>2, <1>3, <1>4, <3>1
    <3> QED
      BY <1>1, <1>5, <2>2, <2>3, <2>4, <2>5, <3>2
  <2>7. CASE ~(here.edge < EndId(r))
    <3>1. \A i \in DOMAIN Input : HandedBy(s, r, i, k) <=> i \in StartId(r) .. EndId(r)
      BY <2>3, <2>7 DEF HandedBy, Reading
    <3>2. \A i \in DOMAIN Input : HandedBy(s, r, i, k) <=>
            i \in StartId(r) .. EndId(r) /\ i <= here.edge
      BY <1>2, <1>3, <2>7, <3>1
    <3> QED
      BY <1>1, <1>5, <2>2, <2>3, <2>4, <2>5, <3>2
  <2> QED
    BY <2>6, <2>7
<1> QED
  BY <1>7, <1>8

LEMMA AfterHanded ==
  ASSUME Shapes, NEW r \in Readers, reader[r].at \in Reading,
         reader' = [reader EXCEPT ![r] = After(r)]
  PROVE  /\ reader[r].edge \in DOMAIN Input /\ reader[r].edge \notin HandedTo(reader[r].job)
         /\ \A k \in Jobs :
              /\ ThroughWith(k)' = ThroughWith(k)
              /\ HandedTo(k)' = HandedTo(k) \union
                   IF k = reader[r].job THEN {reader[r].edge} ELSE {}
<1>1. PICK i, j, next : i = reader[r].edge /\ j = reader[r].job /\ next = After(r)
  OBVIOUS
<1>2. i \in StartId(r) .. EndId(r) /\ i \in DOMAIN Input /\ j \in Jobs
  BY <1>1, ReaderHere, EdgeHere
<1>3. \A q \in Readers : reader'[q] = IF q = r THEN next ELSE reader[q]
  BY <1>1 DEF Shapes, ReaderTypes
<1>4. ~HandedBy(reader[r], r, i, j)
  BY <1>1, <1>2, AfterHands
<1>5. i \notin HandedTo(j)
  <2>1. ASSUME NEW q \in Readers, HandedBy(reader[q], q, i, j) PROVE FALSE
    <3>1. q # r
      BY <1>4, <2>1
    <3>2. i \in StartId(q) .. EndId(q)
      BY <2>1 DEF HandedBy
    <3> QED
      BY <1>2, <3>1, <3>2, SharesApart
  <2> QED
    BY <2>1 DEF HandedTo, Handed
<1>6. ASSUME NEW k \in Jobs PROVE ThroughWith(k)' = ThroughWith(k)
  <2>1. ~Through(next, k) /\ ~Through(reader[r], k)
    BY <1>1, AfterHands
  <2>2. \A q \in Readers : Through(reader'[q], k) <=> Through(reader[q], k)
    BY <1>3, <2>1
  <2> QED
    BY <2>2 DEF ThroughWith, Through
<1>7. ASSUME NEW k \in Jobs
      PROVE  HandedTo(k)' = HandedTo(k) \union IF k = j THEN {i} ELSE {}
  <2>1. ASSUME NEW l \in DOMAIN Input
        PROVE  Handed(l, k)' <=> Handed(l, k) \/ (l = i /\ k = j)
    <3>1. \A q \in Readers : HandedBy(reader'[q], q, l, k) <=>
            HandedBy(reader[q], q, l, k) \/ (q = r /\ l = i /\ k = j)
      BY <1>1, <1>3, AfterHands
    <3>2. Handed(l, k)' <=> \E q \in Readers : HandedBy(reader'[q], q, l, k)
      BY DEF Handed, HandedBy
    <3> QED
      BY <3>1, <3>2 DEF Handed
  <2>2. HandedTo(k)' = {l \in DOMAIN Input : Handed(l, k)'}
    BY DEF HandedTo
  <2> QED
    BY <1>2, <2>1, <2>2 DEF HandedTo
<1> QED
  BY <1>1, <1>2, <1>5, <1>6, <1>7

\* What is handed on keeps its ids.
LEMMA ImageStays ==
  ASSUME ReadersRight, InstalledStay, UNCHANGED settings, NEW j \in Jobs, NEW i \in HandedTo(j)
  PROVE  Image(j, Input[i])' = Image(j, Input[i])
<1>1. Having(j, "rewriting")' <=> Having(j, "rewriting")
  BY DEF Having
<1>2. i \in DOMAIN Input
  BY DEF HandedTo
<1>3. CASE Having(j, "rewriting")
  <2>1. Known(i)
    BY <1>3 DEF ReadersRight
  <2> QED
    BY <1>1, <1>2, <1>3, <2>1, KnownStay DEF Image
<1>4. CASE ~Having(j, "rewriting")
  BY <1>1, <1>4 DEF Image
<1> QED
  BY <1>3, <1>4

LEMMA BecomeStays ==
  ASSUME ReadersRight, InstalledStay, UNCHANGED settings, NEW j \in Jobs,
         HandedTo(j)' = HandedTo(j)
  PROVE  \A e : Become(j, e)' = Become(j, e)
<1> SUFFICES ASSUME NEW e PROVE Become(j, e)' = Become(j, e)
  OBVIOUS
<1>1. Become(j, e)' = {i \in HandedTo(j) : Image(j, Input[i])' = e}
  BY DEF Become
<1>2. \A i \in HandedTo(j) : Image(j, Input[i])' = Image(j, Input[i])
  BY ImageStays
<1> QED
  BY <1>1, <1>2 DEF Become

LEMMA NothingHanded ==
  ASSUME ReadersRight, InstalledStay, UNCHANGED settings, SameHandedTo, NEW j
  PROVE  Hands(j, {})
<1>1. \A i \in Jobs : \A e : Become(i, e)' = Become(i, e)
  BY BecomeStays DEF SameHandedTo
<1>2. \A i \in Jobs : \A e : Cardinality(Become(i, e)) \in Nat
  BY HandedFinite
<1> QED
  BY <1>1, <1>2 DEF Hands

LEMMA OneHanded ==
  ASSUME ReadersRight, InstalledStay, UNCHANGED settings, NEW j \in Jobs, NEW i \in DOMAIN Input,
         i \notin HandedTo(j), NEW x, Image(j, Input[i])' = x,
         \A k \in Jobs : HandedTo(k)' = HandedTo(k) \union IF k = j THEN {i} ELSE {}
  PROVE  Hands(j, {x})
<1> SUFFICES ASSUME NEW k \in Jobs, NEW e
             PROVE  Cardinality(Become(k, e)')
                      = Cardinality(Become(k, e)) + IF k = j /\ e \in {x} THEN 1 ELSE 0
  BY DEF Hands
<1>1. Cardinality(Become(k, e)) \in Nat /\ IsFiniteSet(Become(k, e))
  BY HandedFinite
<1>2. CASE k # j
  <2>1. HandedTo(k)' = HandedTo(k)
    BY <1>2
  <2>2. Become(k, e)' = Become(k, e)
    BY <2>1, BecomeStays
  <2> QED
    BY <1>1, <1>2, <2>2
<1>3. CASE k = j
  <2>1. Become(j, e)' = {l \in HandedTo(j) \union {i} : Image(j, Input[l])' = e}
    BY DEF Become
  <2>2. \A l \in HandedTo(j) : Image(j, Input[l])' = Image(j, Input[l])
    BY ImageStays
  <2>3. Become(j, e)' = Become(j, e) \union IF x = e THEN {i} ELSE {}
    BY <2>1, <2>2 DEF Become
  <2>4. i \notin Become(j, e)
    BY DEF Become
  <2>5. CASE x = e
    <3>1. Become(j, e)' = Become(j, e) \union {i}
      BY <2>3, <2>5
    <3>2. Cardinality(Become(j, e) \union {i}) = Cardinality(Become(j, e)) + 1
      BY <1>1, <1>3, <2>4, FS_AddElement
    <3> QED
      BY <1>3, <2>5, <3>1, <3>2
  <2>6. CASE x # e
    <3>1. Become(j, e)' = Become(j, e)
      BY <2>3, <2>6
    <3> QED
      BY <1>1, <1>3, <2>6, <3>1
  <2> QED
    BY <2>5, <2>6
<1> QED
  BY <1>2, <1>3

LEMMA AddHands ==
  ASSUME Shapes, ReadersRight, ReadersLeave, NEW r \in Readers, reader[r].at \in Reading,
         pc[r] = "idle", NEW x \in Int \X Int, Add(r, x),
         Image(reader[r].job, Input[reader[r].edge]) = x,
         Having(reader[r].job, "rewriting") => Known(reader[r].edge)
  PROVE  ReadersRight' /\ Passes(r, reader[r].job, {x}) /\ Hands(reader[r].job, {x})
<1> DEFINE j == reader[r].job
           i == reader[r].edge
           next == After(r)
<1>1. /\ reader' = [reader EXCEPT ![r] = next]
      /\ UNCHANGED <<settings, ids, announced>>
      /\ \/ /\ j \in InMemory /\ UNCHANGED <<batch, queue>>
            /\ kept' = [kept EXCEPT ![r][j] = Append(@, x)]
         \/ /\ j \notin InMemory /\ Process(r, j, x) /\ UNCHANGED kept
  BY DEF Add, Advance, After
<1>2. /\ i \in DOMAIN Input /\ i \notin HandedTo(j)
      /\ \A k \in Jobs :
           /\ ThroughWith(k)' = ThroughWith(k)
           /\ HandedTo(k)' = HandedTo(k) \union IF k = j THEN {i} ELSE {}
  BY <1>1, AfterHanded
<1>3. j \in Jobs /\ Admitted(j)
  BY ReaderHere DEF At, Reading
<1>4. /\ next.at \in {"edge", "finish"} /\ \A k \in Jobs : ~Through(next, k) /\ ~Through(reader[r], k)
  <2>1. \A k \in Jobs : After(r).at \in {"edge", "finish"} /\ ~Through(After(r), k)
                          /\ ~Through(reader[r], k)
    BY AfterHands
  <2> QED
    BY <1>3, <2>1
<1> HIDE DEF next
<1>5. TableStep(r) /\ InstalledStay
  BY <1>1, IdsKeepStill DEF ReadersRight, TableStep
<1>6. UNCHANGED <<pc, translations>>
  BY <1>1 DEF ids
<1>7. Passes(r, j, {x})
  <2>1. CASE j \in InMemory
    BY <1>1, <1>3, <2>1, KeepPasses
  <2>2. CASE j \notin InMemory
    BY <1>1, <1>3, <2>2, ProcessPasses
  <2> QED
    BY <2>1, <2>2
<1>8. Hands(j, {x})
  <2>1. PICK k, l : k = j /\ l = i
    OBVIOUS
  <2>2. Image(k, Input[l])' = x
    BY <1>1, <1>6, <2>1 DEF Image, Having
  <2>3. /\ k \in Jobs /\ l \in DOMAIN Input /\ l \notin HandedTo(k)
        /\ \A n \in Jobs : HandedTo(n)' = HandedTo(n) \union IF n = k THEN {l} ELSE {}
    BY <1>2, <1>3, <2>1
  <2>4. Hands(k, {x})
    BY <1>1, <1>5, <2>2, <2>3, OneHanded
  <2> QED
    BY <2>1, <2>4
<1>9. /\ reader'[r] = next /\ InMemory' = InMemory
      /\ \A k \in Jobs : Having(k, "rewriting")' <=> Having(k, "rewriting")
  BY <1>1 DEF Shapes, ReaderTypes, InMemory, Having
<1>10. LooksAt(r)'
  BY <1>4, <1>6, <1>9 DEF LooksAt
<1>11. EmptyHanded(r)'
  <2>1. \A k \in Jobs : ~Through(reader[r], k)'
    BY <1>4, <1>9 DEF Through
  <2>2. \A k \in Jobs : k \notin InMemory => kept'[r][k] = kept[r][k]
    BY <1>1, <1>3 DEF Shapes, ReaderTypes
  <2>3. EmptyHanded(r)
    BY DEF ReadersRight
  <2>4. \A k \in Jobs : k \notin InMemory => kept[r][k] = <<>>
    BY <2>3 DEF EmptyHanded
  <2>5. reader'[r].at \notin {"wait", "final"}
    BY <1>4, <1>9
  <2> QED
    BY <1>9, <2>1, <2>2, <2>4, <2>5 DEF EmptyHanded
<1>12. ASSUME NEW k \in Jobs, Having(k, "rewriting"), NEW l \in HandedTo(k)'
       PROVE  Known(l)'
  <2>1. \A n : Known(n)' <=> Known(n)
    BY <1>6 DEF Known
  <2>2. Known(l)
    <3>1. CASE l \in HandedTo(k)
      BY <1>12, <3>1 DEF ReadersRight
    <3>2. CASE l \notin HandedTo(k)
      <4>1. k = j /\ l = i
        BY <1>2, <1>12, <3>2
      <4> QED
        BY <1>12, <4>1
    <3> QED
      BY <3>1, <3>2
  <2> QED
    BY <2>1, <2>2
<1>13. \A k \in Jobs : announced'[k] = Cardinality(ThroughWith(k)')
  BY <1>1, <1>2 DEF ReadersRight
<1>14. \A q \in Readers \ {r} : batch'[q] = batch[q] /\ kept'[q] = kept[q]
  <2>1. CASE j \in InMemory
    BY <1>1, <2>1 DEF Shapes, ReaderTypes
  <2>2. CASE j \notin InMemory
    BY <1>1, <2>2 DEF Process, Shapes, ReaderTypes
  <2> QED
    BY <2>1, <2>2
<1>15. ReadersRight'
  <2>1. \A k \in Jobs : Having(k, "rewriting") => \A l \in HandedTo(k)' : Known(l)'
    BY <1>12
  <2> QED
    BY <1>1, <1>5, <1>10, <1>11, <1>13, <1>14, <2>1, RightKeeps
<1> QED
  BY <1>7, <1>8, <1>15

LEMMA FlushHands ==
  ASSUME Shapes, ReadersRight, ReadersLeave, NEW r \in Readers, Flush(r),
         kept[r][reader[r].job] # <<>>
  PROVE  ReadersRight' /\ Passes(r, reader[r].job, {}) /\ Hands(reader[r].job, {})
<1> DEFINE j == reader[r].job
<1>1. /\ reader[r].at = "flush" /\ UNCHANGED <<reader, settings, ids, announced>>
      /\ Process(r, j, Head(kept[r][j])) /\ kept' = [kept EXCEPT ![r][j] = Tail(@)]
  BY DEF Flush, At
<1>2. j \in Jobs /\ Admitted(j) /\ j \in InMemory
  BY <1>1, ReaderHere DEF At
<1>3. Passes(r, j, {})
  BY <1>1, <1>2, FlushPasses
<1>4. TableStep(r) /\ InstalledStay
  BY <1>1, IdsKeepStill DEF ReadersRight, TableStep
<1>5. \A k \in Jobs : HandedTo(k)' = HandedTo(k) /\ ThroughWith(k)' = ThroughWith(k)
  BY <1>1, NobodyMoves
<1>6. SameHandedTo
  BY <1>5 DEF SameHandedTo
<1>7. Hands(j, {})
  BY <1>1, <1>4, <1>6, NothingHanded
<1>8. /\ reader' = [reader EXCEPT ![r] = reader[r]] /\ InMemory' = InMemory /\ pc' = pc
  BY <1>1 DEF Shapes, ReaderTypes, InMemory, Having, ids
<1>9. LooksAt(r)'
  <2>1. LooksAt(r)
    BY DEF ReadersRight
  <2>2. reader'[r] = reader[r] /\ pc'[r] = pc[r] /\ reader[r].at \notin {"source", "target"}
    BY <1>1, <1>8
  <2> QED
    BY <2>1, <2>2 DEF LooksAt
<1>10. \A q \in Readers, k \in Jobs : q # r \/ k # j => batch'[q][k] = batch[q][k] /\ kept'[q][k] = kept[q][k]
  <2>1. \A q \in Readers, k \in Jobs : q # r \/ k # j => kept'[q][k] = kept[q][k]
    BY <1>1 DEF Shapes, ReaderTypes
  <2>2. PICK b \in Batches : batch' = [batch EXCEPT ![r][j] = b]
    BY <1>3 DEF Passes
  <2>3. \A q \in Readers, k \in Jobs : q # r \/ k # j => batch'[q][k] = batch[q][k]
    BY <2>2 DEF Shapes, ReaderTypes
  <2> QED
    BY <2>1, <2>3
<1>11. EmptyHanded(r)'
  <2>1. EmptyHanded(r)
    BY DEF ReadersRight
  <2>2. \A k \in Jobs : Through(reader[r], k)' <=> Through(reader[r], k)
    BY <1>1 DEF Through
  <2>3. ~Through(reader[r], j)
    BY <1>1, <1>2, ReaderNumbers DEF Through, Jobs
  <2>4. \A k \in Jobs : Through(reader[r], k) \/ k \notin InMemory => k # j
    <3>1. PICK l, t : l = j /\ t = reader[r]
      OBVIOUS
    <3>2. ~Through(t, l) /\ l \in InMemory
      BY <1>2, <2>3, <3>1
    <3>3. \A k \in Jobs : Through(t, k) \/ k \notin InMemory => k # l
      BY <3>2
    <3> QED
      BY <3>1, <3>3
  <2> QED
    BY <1>1, <1>8, <1>10, <2>1, <2>2, <2>4 DEF EmptyHanded
<1>12. \A q \in Readers \ {r} : batch'[q] = batch[q] /\ kept'[q] = kept[q]
  BY <1>1 DEF Process, Shapes, ReaderTypes
<1>13. \A k \in Jobs : announced'[k] = Cardinality(ThroughWith(k)')
  BY <1>1, <1>5 DEF ReadersRight
<1>14. \A k \in Jobs : Having(k, "rewriting") => \A i \in HandedTo(k)' : Known(i)'
  BY <1>4, <1>6, HandedKnown
<1>15. ReadersRight'
  BY <1>1, <1>4, <1>8, <1>9, <1>11, <1>12, <1>13, <1>14, RightKeeps
<1> QED
  BY <1>3, <1>7, <1>15

LEMMA FinalHands ==
  ASSUME Shapes, ReadersRight, ReadersLeave, NEW r \in Readers, SendFinal(r)
  PROVE  ReadersRight' /\ Passes(r, reader[r].job, {}) /\ Hands(reader[r].job, {})
<1> DEFINE j == reader[r].job
           s == reader[r]
           place == IF j < JobCount THEN "finish" ELSE "done"
           following == IF j < JobCount THEN j + 1 ELSE 1
           next == [s EXCEPT !.at = place, !.job = following]
<1>1. /\ reader[r].at = "final" /\ reader' = [reader EXCEPT ![r] = next]
      /\ Send(j, batch[r][j]) /\ batch' = [batch EXCEPT ![r][j] = NoEdges]
      /\ announced' = [announced EXCEPT ![j] = @ + 1]
      /\ UNCHANGED <<settings, ids, kept>>
  BY DEF SendFinal, At
<1>2. j \in Jobs /\ s \in ReaderRecords
  BY ReaderHere
<1>3. Passes(r, j, {})
  BY <1>1, <1>2, FinalPasses
<1>4. TableStep(r) /\ InstalledStay
  BY <1>1, IdsKeepStill DEF ReadersRight, TableStep
<1>5. next.at = place /\ next.job = following
  <2>1. PICK x, y : x = place /\ y = following
    OBVIOUS
  <2>2. PICK t : t = s /\ t \in ReaderRecords
    BY <1>2
  <2>3. [t EXCEPT !.at = x, !.job = y].at = x /\ [t EXCEPT !.at = x, !.job = y].job = y
    BY <2>2 DEF ReaderRecords
  <2> QED
    BY <2>1, <2>2, <2>3
<1>6. /\ next.at \in {"finish", "done"}
      /\ \A k \in Jobs : Through(next, k) <=> Through(s, k) \/ k = j
  <2>1. JobCount \in Nat /\ Jobs = 1 .. JobCount
    BY ReaderNumbers DEF Jobs
  <2>2. \A k \in Jobs : Through(s, k) <=> k < j
    BY <1>1 DEF Through
  <2>3. CASE j < JobCount
    <3>1. next.at = "finish" /\ next.job = j + 1
      BY <1>5, <2>3
    <3> HIDE DEF next
    <3>2. \A k \in Jobs : Through(next, k) <=> k < j + 1
      BY <3>1 DEF Through
    <3> QED
      BY <1>2, <2>1, <2>2, <3>1, <3>2
  <2>4. CASE ~(j < JobCount)
    <3>1. next.at = "done" /\ j = JobCount
      BY <1>2, <1>5, <2>1, <2>4
    <3> HIDE DEF next
    <3>2. \A k \in Jobs : Through(next, k)
      BY <3>1 DEF Through
    <3> QED
      BY <1>2, <2>1, <2>2, <3>1, <3>2
  <2> QED
    BY <2>3, <2>4
<1> HIDE DEF next
<1>7. \A q \in Readers : reader'[q] = IF q = r THEN next ELSE reader[q]
  BY <1>1 DEF Shapes, ReaderTypes
<1>8. \A k \in Jobs : HandedTo(k)' = HandedTo(k)
  <2> SUFFICES ASSUME NEW k \in Jobs PROVE HandedTo(k)' = HandedTo(k)
    OBVIOUS
  <2>1. ASSUME NEW i \in DOMAIN Input PROVE Handed(i, k)' <=> Handed(i, k)
    <3>1. HandedBy(next, r, i, k) <=> HandedBy(reader[r], r, i, k)
      BY <1>1, <1>6 DEF HandedBy, Reading
    <3>2. \A q \in Readers : HandedBy(reader'[q], q, i, k) <=> HandedBy(reader[q], q, i, k)
      BY <1>7, <3>1
    <3>3. Handed(i, k)' <=> \E q \in Readers : HandedBy(reader'[q], q, i, k)
      BY DEF Handed, HandedBy
    <3> QED
      BY <3>2, <3>3 DEF Handed
  <2>2. HandedTo(k)' = {i \in DOMAIN Input : Handed(i, k)'}
    BY DEF HandedTo
  <2> QED
    BY <2>1, <2>2 DEF HandedTo
<1>9. SameHandedTo
  BY <1>8 DEF SameHandedTo
<1>10. Hands(j, {})
  BY <1>1, <1>4, <1>9, NothingHanded
<1>11. ASSUME NEW k \in Jobs
       PROVE  /\ ThroughWith(k)' = ThroughWith(k) \union IF k = j THEN {r} ELSE {}
              /\ r \notin ThroughWith(j)
  <2>1. \A q \in Readers : Through(reader'[q], k) <=> Through(reader[q], k) \/ (q = r /\ k = j)
    BY <1>6, <1>7
  <2>2. ThroughWith(k)' = {q \in Readers : Through(reader'[q], k)}
    BY DEF ThroughWith, Through
  <2>3. ~Through(reader[r], j)
    BY <1>1, <1>2, ReaderNumbers DEF Through, Jobs
  <2> QED
    BY <2>1, <2>2, <2>3 DEF ThroughWith
<1>12. ASSUME NEW k \in Jobs PROVE announced'[k] = Cardinality(ThroughWith(k)')
  <2>1. announced[k] = Cardinality(ThroughWith(k)) /\ IsFiniteSet(ThroughWith(k))
    BY HandedFinite DEF ReadersRight
  <2>2. announced'[k] = announced[k] + IF k = j THEN 1 ELSE 0
    <3>1. announced \in [Jobs -> Nat]
      BY DEF Shapes, ReaderTypes
    <3> QED
      BY <1>1, <1>2, <3>1
  <2>3. CASE k = j
    <3>1. ThroughWith(k)' = ThroughWith(k) \union {r} /\ r \notin ThroughWith(k)
      BY <1>11, <2>3
    <3>2. Cardinality(ThroughWith(k) \union {r}) = Cardinality(ThroughWith(k)) + 1
      BY <2>1, <3>1, FS_AddElement
    <3> QED
      BY <2>1, <2>2, <2>3, <3>1, <3>2
  <2>4. CASE k # j
    <3>1. ThroughWith(k)' = ThroughWith(k)
      BY <1>11, <2>4
    <3>2. announced[k] \in Nat
      BY DEF Shapes, ReaderTypes
    <3> QED
      BY <2>1, <2>2, <2>4, <3>1, <3>2
  <2> QED
    BY <2>3, <2>4
<1>13. LooksAt(r)'
  <2>1. pc'[r] = "idle"
    BY <1>1 DEF LooksAt, ReadersRight, ids
  <2> QED
    BY <1>6, <1>7, <2>1 DEF LooksAt
<1>14. EmptyHanded(r)'
  <2>1. EmptyHanded(r) /\ InMemory' = InMemory
    BY <1>1 DEF ReadersRight, InMemory, Having
  <2>2. \A k \in Jobs : batch'[r][k] = IF k = j THEN NoEdges ELSE batch[r][k]
    BY <1>1 DEF Shapes, ReaderTypes
  <2>3. \A k \in Jobs : Through(reader[r], k)' <=> Through(s, k) \/ k = j
    BY <1>6, <1>7 DEF Through
  <2>4. kept' = kept /\ kept[r][j] = <<>>
    BY <1>1, <2>1 DEF EmptyHanded
  <2>5. reader'[r].at \notin {"wait", "final"}
    BY <1>6, <1>7
  <2> QED
    BY <2>1, <2>2, <2>3, <2>4, <2>5 DEF EmptyHanded
<1>15. \A q \in Readers \ {r} : batch'[q] = batch[q] /\ kept'[q] = kept[q]
  BY <1>1 DEF Shapes, ReaderTypes
<1>16. \A k \in Jobs : Having(k, "rewriting") => \A i \in HandedTo(k)' : Known(i)'
  BY <1>4, <1>9, HandedKnown
<1>17. ReadersRight'
  BY <1>1, <1>4, <1>12, <1>13, <1>14, <1>15, <1>16, RightKeeps
<1> QED
  BY <1>3, <1>10, <1>17

\* Once the managers of a job have been told to stop, the readers through
\* with the job are those it has providers for.
LEMMA AllThrough ==
  ASSUME Shapes, ReadersRight, ManagersRight, NEW j \in Jobs, Admitted(j),
         job[j] \in {"stop", "ended"}
  PROVE  ThroughWith(j) = 1 .. Inserters(j)
<1>1. Inserters(j) \in Nat /\ created[j] \in Nat
  BY AcceptedSettings, ReaderNumbers DEF Shapes, JobTypes
<1>2. announced[j] = Inserters(j) /\ announced[j] = Cardinality(ThroughWith(j))
  BY DEF ManagersRight, ReadersRight
<1>3. ASSUME NEW q \in ThroughWith(j) PROVE q \in 1 .. Inserters(j)
  <2>1. q \in Readers /\ ~At(q, "wait")
    BY DEF ThroughWith, Through, At
  <2>2. \A i \in Jobs : created[i] >= q
    BY <2>1, ReaderHere
  <2>3. created[j] >= q /\ q \in Nat /\ q > 0
    BY <2>1, <2>2, ReaderNumbers
  <2>4. created[j] <= Inserters(j)
    BY <1>1, <2>3 DEF Shapes, JobsCreate
  <2> QED
    BY <1>1, <2>3, <2>4
<1> DEFINE all == 1 .. Inserters(j)
<1>4. IsFiniteSet(all) /\ Cardinality(all) = Inserters(j)
  <2>1. 1 \in Int /\ Inserters(j) \in Int
    BY <1>1
  <2>2. /\ IsFiniteSet(all)
        /\ Cardinality(all) = IF 1 > Inserters(j) THEN 0 ELSE Inserters(j) - 1 + 1
    BY <2>1, FS_Interval
  <2> QED
    BY <1>1, <2>2
<1>5. ThroughWith(j) \in SUBSET all
  BY <1>3
<1> HIDE DEF all
<1>6. ThroughWith(j) = all
  BY <1>2, <1>4, <1>5, FS_Subset
<1> QED
  BY <1>6 DEF all

\* A job whose thread has gone on to stop has been told by all readers that
\* have started.
LEMMA NotStopped ==
  ASSUME Shapes, ReadersRight, ManagersRight, NEW r \in Readers, ~At(r, "wait"),
         NEW j \in Jobs, ~Through(reader[r], j)
  PROVE  job[j] \notin {"stop", "ended"}
<1> SUFFICES ASSUME job[j] \in {"stop", "ended"} PROVE FALSE
  OBVIOUS
<1>1. Admitted(j) /\ created[j] >= r
  BY ReaderHere
<1>2. Inserters(j) \in Nat /\ created[j] \in Nat /\ created[j] <= Inserters(j) /\ r \in Nat /\ r > 0
  <2>1. Inserters(j) \in Nat
    BY <1>1, AcceptedSettings, ReaderNumbers DEF Shapes
  <2>2. created[j] \in Nat /\ r \in Nat /\ r > 0
    BY ReaderNumbers DEF Shapes, JobTypes
  <2>3. created[j] > 0
    BY <1>1, <2>2
  <2> QED
    BY <2>1, <2>2, <2>3 DEF Shapes, JobsCreate
<1>3. r \in 1 .. Inserters(j) /\ r \notin ThroughWith(j)
  BY <1>1, <1>2 DEF ThroughWith
<1> QED
  BY <1>1, <1>3, AllThrough

\* What a step of a reader is for the managers.
Spares(j) ==
  /\ UNCHANGED <<queue, announced>> \/ job[j] \notin {"stop", "ended"}
  /\ \A i \in Jobs : i # j => announced'[i] = announced[i]
HandsOn(r) == \E j \in Jobs : \E new : Passes(r, j, new) /\ Hands(j, new) /\ Spares(j)
Right == Shapes /\ IInv /\ ReadersRight /\ ManagersRight

LEMMA QuietHandsOn ==
  ASSUME Shapes, ReadersRight, UNCHANGED <<settings, announced>>, Quiet, NEW r \in Readers
  PROVE  ReadersRight' /\ HandsOn(r)
<1>1. 1 \in Jobs
  BY ReaderNumbers
<1>2. Passes(r, 1, {})
  BY <1>1, QuietPasses DEF Quiet
<1>3. Hands(1, {})
  BY NothingHanded DEF Quiet
<1>4. Spares(1)
  BY DEF Spares, Quiet
<1> QED
  BY <1>1, <1>2, <1>3, <1>4 DEF HandsOn, Quiet

LEMMA AddHandsOn ==
  ASSUME Right, ReadersLeave, NEW r \in Readers, AddEdge(r) \/ AddTranslated(r)
  PROVE  ReadersRight' /\ HandsOn(r)
<1> DEFINE j == reader[r].job
           i == reader[r].edge
<1>0. Shapes /\ IInv /\ ReadersRight /\ ManagersRight /\ LooksAt(r)
  BY DEF Right, ReadersRight
<1>1. reader[r].at \in Reading /\ ~At(r, "wait") /\ j \in Jobs /\ Input[i] \in Int \X Int
  <2>1. reader[r].at \in Reading
    BY DEF AddEdge, AddTranslated, At, Reading
  <2> QED
    BY <1>0, <2>1, ReaderHere, EdgeHere DEF At, Reading
<1>2. \E x \in Int \X Int :
        /\ pc[r] = "idle" /\ Add(r, x) /\ Image(j, Input[i]) = x
        /\ Having(j, "rewriting") => Known(i)
  <2>1. CASE AddEdge(r)
    <3>1. ~Having(j, "rewriting") /\ Add(r, Input[i]) /\ reader[r].at = "edge"
      BY <2>1 DEF AddEdge, At
    <3>2. pc[r] = "idle"
      BY <1>0, <3>1 DEF LooksAt
    <3>3. Image(j, Input[i]) = Input[i]
      BY <3>1 DEF Image
    <3> QED
      BY <1>1, <3>1, <3>2, <3>3
  <2>2. CASE AddTranslated(r)
    <3>1. reader[r].at = "target" /\ pc[r] = "idle" /\ Add(r, <<reader[r].src, translated[r]>>)
      BY <2>2 DEF AddTranslated, At
    <3>2. /\ translated[r] # NoId /\ original[r] = Input[i][2]
          /\ reader[r].src # NoId /\ reader[r].src = translations[Input[i][1]]
          /\ Having(j, "rewriting")
      BY <1>0, <3>1 DEF LooksAt
    <3>3. translated[r] = translations[Input[i][2]]
      BY <1>0, <3>1, <3>2 DEF IInv, Agreement
    <3>4. Known(i) /\ Image(j, Input[i]) = <<reader[r].src, translated[r]>>
      BY <3>2, <3>3 DEF Known, Image
    <3>5. <<reader[r].src, translated[r]>> \in Int \X Int
      BY <1>0, ReaderHere DEF IInv, TypeOK
    <3> QED
      BY <3>1, <3>4, <3>5
  <2> QED
    BY <2>1, <2>2
<1>3. PICK x \in Int \X Int :
        /\ pc[r] = "idle" /\ Add(r, x) /\ Image(j, Input[i]) = x
        /\ Having(j, "rewriting") => Known(i)
  BY <1>2
<1>4. ReadersRight' /\ Passes(r, j, {x}) /\ Hands(j, {x})
  BY <1>0, <1>1, <1>3, AddHands
<1>5. ~Through(reader[r], j)
  BY <1>1 DEF Through, Reading
<1>6. job[j] \notin {"stop", "ended"}
  BY <1>0, <1>1, <1>5, NotStopped
<1>7. announced' = announced
  BY <1>3 DEF Add
<1>8. Spares(j)
  BY <1>6, <1>7 DEF Spares
<1> QED
  BY <1>1, <1>4, <1>8 DEF HandsOn

LEMMA SendHandsOn ==
  ASSUME Right, ReadersLeave, NEW r \in Readers, Flush(r) \/ SendFinal(r)
  PROVE  ReadersRight' /\ HandsOn(r)
<1> DEFINE j == reader[r].job
<1>0. Shapes /\ ReadersRight /\ ManagersRight
  BY DEF Right
<1>1. reader[r].at \in {"flush", "final"} /\ ~At(r, "wait") /\ j \in Jobs
  BY <1>0, ReaderHere DEF Flush, SendFinal, At
<1>2. CASE Flush(r) /\ kept[r][j] = <<>>
  <2>1. Quiet
    BY <1>0, <1>2, FlushedQuiet
  <2>2. UNCHANGED <<settings, announced>>
    BY <1>2 DEF Flush
  <2> QED
    BY <1>0, <2>1, <2>2, QuietHandsOn
<1>3. CASE ~(Flush(r) /\ kept[r][j] = <<>>)
  <2>1. ReadersRight' /\ Passes(r, j, {}) /\ Hands(j, {})
    BY <1>0, <1>3, FlushHands, FinalHands
  <2>2. ~Through(reader[r], j)
    BY <1>1, ReaderNumbers DEF Through, Jobs
  <2>3. job[j] \notin {"stop", "ended"}
    BY <1>0, <1>1, <2>2, NotStopped
  <2>4. \A i \in Jobs : i # j => announced'[i] = announced[i]
    <3>1. announced \in [Jobs -> Nat]
      BY <1>0 DEF Shapes, ReaderTypes
    <3> QED
      BY <3>1 DEF Flush, SendFinal
  <2> QED
    BY <1>1, <2>1, <2>3, <2>4 DEF HandsOn, Spares
<1> QED
  BY <1>2, <1>3

LEMMA ReaderHandsOn ==
  ASSUME Right, TypeOK', ReadersLeave, NEW r \in Readers, ReaderStep(r)
  PROVE  ReadersRight' /\ HandsOn(r)
<1>0. Shapes /\ IInv /\ TypeOK /\ ReadersRight /\ settings' = settings
  BY DEF Right, IInv, ReadersLeave
<1>1. CASE Start(r)
  <2>1. Quiet /\ announced' = announced
    BY <1>0, <1>1, StartQuiet DEF Start
  <2> QED
    BY <1>0, <2>1, QuietHandsOn
<1>2. CASE TranslateSource(r)
  <2>1. Quiet /\ announced' = announced
    BY <1>0, <1>2, SourceQuiet DEF TranslateSource
  <2> QED
    BY <1>0, <2>1, QuietHandsOn
<1>3. CASE TranslateTarget(r)
  <2>1. Quiet /\ announced' = announced
    BY <1>0, <1>3, TargetQuiet DEF TranslateTarget
  <2> QED
    BY <1>0, <2>1, QuietHandsOn
<1>4. CASE Translate(r)
  <2>1. Quiet /\ announced' = announced
    BY <1>0, <1>4, TranslateQuiet DEF Translate, reading
  <2> QED
    BY <1>0, <2>1, QuietHandsOn
<1>5. CASE FinishOrWait(r)
  <2>1. Quiet /\ announced' = announced
    BY <1>0, <1>5, FinishQuiet DEF FinishOrWait
  <2> QED
    BY <1>0, <2>1, QuietHandsOn
<1>6. CASE Pass(r)
  <2>1. Quiet /\ announced' = announced
    BY <1>0, <1>6, PassQuiet DEF Pass
  <2> QED
    BY <1>0, <2>1, QuietHandsOn
<1>7. CASE AddEdge(r) \/ AddTranslated(r)
  BY <1>7, AddHandsOn
<1>8. CASE Flush(r) \/ SendFinal(r)
  BY <1>8, SendHandsOn
<1> QED
  BY <1>1, <1>2, <1>3, <1>4, <1>5, <1>6, <1>7, <1>8 DEF ReaderStep

LEMMA BackedStays ==
  ASSUME UNCHANGED <<settings, restored, created, backup>>, NEW j \in Jobs, NEW m \in Managers,
         BackedAt(j, m), manager'[j][m] = manager[j][m], stored'[j][m] = stored[j][m]
  PROVE  BackedAt(j, m)'
BY DEF BackedAt, Restoring, Persisting, Having

LEMMA QueueStays ==
  ASSUME UNCHANGED settings, NEW j \in Jobs, NEW m \in Managers,
         QueueAt(j, m), manager'[j][m] = manager[j][m], queue'[j][m] = queue[j][m],
         job'[j] = job[j]
  PROVE  QueueAt(j, m)'
BY DEF QueueAt, Admitted

\* One more message, which is a batch.
LEMMA QueueGrows ==
  ASSUME Shapes, NEW j \in Jobs, NEW m \in Managers, UNCHANGED <<settings, job, manager>>,
         QueueAt(j, m), MessageAt(j, m), job[j] \notin {"stop", "ended"},
         NEW x \in Edges, x # <<>>, queue'[j][m] = Append(queue[j][m], x)
  PROVE  QueueAt(j, m)'
<1>1. PICK q : q = queue[j][m] /\ q \in Seq(Edges)
  BY DEF Shapes, QueueTypes
<1>2. PICK p : p = Append(q, x)
  OBVIOUS
<1>3. /\ DOMAIN q = 1 .. Len(q) /\ DOMAIN p = 1 .. Len(q) + 1 /\ Len(q) \in Nat
      /\ p[Len(q) + 1] = x /\ \A k \in 1 .. Len(q) : p[k] = q[k]
  BY <1>1, <1>2
<1>4. \A k \in 1 .. Len(q) : q[k] # Shutdown
  BY <1>1, <1>3 DEF QueueAt
<1>5. \A k \in DOMAIN p : p[k] # Shutdown
  <2> SUFFICES ASSUME NEW k \in DOMAIN p PROVE p[k] # Shutdown
    OBVIOUS
  <2>1. CASE k \in 1 .. Len(q)
    BY <1>3, <1>4, <2>1
  <2>2. CASE k \notin 1 .. Len(q)
    <3>1. k = Len(q) + 1
      BY <1>3, <2>2
    <3> QED
      BY <1>3, <3>1 DEF Shutdown
  <2> QED
    BY <2>1, <2>2
<1>6. manager[j][m] = "persist" => Head(p) # Shutdown
  <2> SUFFICES ASSUME manager[j][m] = "persist" PROVE Head(p) # Shutdown
    OBVIOUS
  <2>1. q # <<>> /\ Head(q) # Shutdown
    BY <1>1 DEF MessageAt, QueueAt
  <2>2. Head(p) = Head(q)
    BY <1>1, <1>2, <2>1
  <2> QED
    BY <2>1, <2>2
<1>7. manager[j][m] # "stopped"
  <2> SUFFICES ASSUME manager[j][m] = "stopped" PROVE FALSE
    OBVIOUS
  <2>1. q = <<Shutdown>>
    BY <1>1 DEF QueueAt
  <2>2. 1 \in DOMAIN <<Shutdown>> /\ <<Shutdown>>[1] = Shutdown
    OBVIOUS
  <2> QED
    BY <1>3, <1>4, <2>1, <2>2
<1>8. queue'[j][m] = p /\ manager' = manager /\ job' = job
  BY <1>1, <1>2
<1> QED
  BY <1>5, <1>6, <1>7, <1>8 DEF QueueAt, Admitted

LEMMA SentQueues ==
  ASSUME Shapes, MessagesRight, ManagersRight, ReadersLeave, NEW j \in Jobs, NEW full \in Batches,
         Send(j, full), UNCHANGED queue \/ job[j] \notin {"stop", "ended"},
         NEW i \in Jobs, NEW m \in Managers
  PROVE  BackedAt(i, m)' /\ QueueAt(i, m)'
<1>1. BackedAt(i, m) /\ QueueAt(i, m) /\ MessageAt(i, m)
  BY DEF ManagersRight, MessagesRight
<1>2. UNCHANGED <<settings, restored, created, backup, manager, stored, job>>
  BY DEF ReadersLeave, system, managing, files
<1>3. BackedAt(i, m)'
  BY <1>1, <1>2, BackedStays
<1>4. PICK x : x = full.edges[m] /\ x \in Edges
  BY DEF Batches
<1>5. queue'[i][m] = IF i = j /\ x # <<>> THEN Append(queue[i][m], x) ELSE queue[i][m]
  <2>1. queue \in [Jobs -> [Managers -> Seq(Edges)]]
    BY DEF Shapes, QueueTypes
  <2> QED
    BY <1>4, <2>1 DEF Send
<1>6. CASE queue'[i][m] = queue[i][m]
  BY <1>1, <1>2, <1>3, <1>6, QueueStays
<1>7. CASE queue'[i][m] # queue[i][m]
  <2>1. i = j /\ x # <<>> /\ queue'[i][m] = Append(queue[i][m], x)
    BY <1>5, <1>7
  <2>2. job[i] \notin {"stop", "ended"}
    BY <1>7, <2>1
  <2>3. QueueAt(i, m)'
    BY <1>1, <1>2, <1>4, <2>1, <2>2, QueueGrows
  <2> QED
    BY <1>3, <2>3
<1> QED
  BY <1>6, <1>7

LEMMA ReaderOnce ==
  ASSUME JInv, JInv', OnceInv, ReadersLeave, NEW r \in Readers, ReaderStep(r)
  PROVE  OnceInv'
<1>1. /\ Shapes /\ Shapes' /\ MessagesRight /\ TypeOK' /\ Right
      /\ ReadersRight /\ ManagersRight /\ Conserved
  BY DEF JInv, OnceInv, Right, IInv
<1>2. ReadersRight' /\ HandsOn(r)
  BY <1>1, ReaderHandsOn
<1>3. \E i \in Jobs : \E x : Passes(r, i, x) /\ Hands(i, x) /\ Spares(i)
  BY <1>2 DEF HandsOn
<1>4. Conserved'
  BY <1>1, <1>3, PassesConserved
<1>5. ManagersRight'
  <2>1. PICK i \in Jobs : Spares(i) /\ \E full \in Batches : Send(i, full)
    BY <1>3 DEF Passes
  <2>2. PICK full \in Batches : Send(i, full)
    BY <2>1
  <2>3. UNCHANGED queue \/ job[i] \notin {"stop", "ended"}
    BY <2>1 DEF Spares
  <2>4. \A k \in Jobs, m \in Managers : BackedAt(k, m)' /\ QueueAt(k, m)'
    BY <1>1, <2>2, <2>3, SentQueues
  <2>5. ASSUME NEW k \in Jobs, job'[k] \in {"stop", "ended"}, Admitted(k)'
        PROVE  announced'[k] = Inserters(k)'
    <3>1. job' = job /\ settings' = settings
      BY DEF ReadersLeave
    <3>2. job[k] \in {"stop", "ended"} /\ Admitted(k) /\ Inserters(k)' = Inserters(k)
      BY <2>5, <3>1 DEF Admitted, Inserters
    <3>3. announced[k] = Inserters(k)
      BY <1>1, <3>2 DEF ManagersRight
    <3>4. announced'[k] = announced[k]
      BY <2>1, <3>2 DEF Spares
    <3> QED
      BY <3>2, <3>3, <3>4
  <2> QED
    BY <2>4, <2>5 DEF ManagersRight
<1> QED
  BY <1>2, <1>4, <1>5 DEF OnceInv
-------------------------------------------------------------------------------
(* The jobs' threads and the managers.                                      *)

LEMMA ReadingStays ==
  ASSUME ReadersRight, UNCHANGED <<ids, reader, kept, batch, announced, settings>>
  PROVE  /\ ReadersRight'
         /\ \A j \in Jobs, m \in Managers : \A e :
              /\ Expected(j, m, e)' = Expected(j, m, e)
              /\ HeldFor(j, m, e)' = HeldFor(j, m, e)
<1>1. UNCHANGED <<current_id, translations, pc, original, translated>>
  BY DEF ids
<1>2. IdsDrawn' /\ InstalledStay
  BY <1>1 DEF ReadersRight, IdsDrawn, Drawing, InstalledStay
<1>3. \A r \in Readers : LooksAt(r)' /\ EmptyHanded(r)'
  BY <1>1 DEF ReadersRight, LooksAt, EmptyHanded, Through, InMemory, Having
<1>4. \A j \in Jobs : HandedTo(j)' = HandedTo(j) /\ ThroughWith(j)' = ThroughWith(j)
  BY NobodyMoves
<1>5. SameHandedTo
  BY <1>4 DEF SameHandedTo
<1>6. \A j \in Jobs : Having(j, "rewriting") => \A i \in HandedTo(j)' : Known(i)'
  BY <1>2, <1>5, HandedKnown
<1>7. \A j \in Jobs : Having(j, "rewriting")' <=> Having(j, "rewriting")
  BY DEF Having
<1>8. \A j \in Jobs : announced'[j] = Cardinality(ThroughWith(j)')
  BY <1>4 DEF ReadersRight
<1>9. ReadersRight'
  BY <1>2, <1>3, <1>6, <1>7, <1>8 DEF ReadersRight
<1>10. ASSUME NEW j \in Jobs, NEW m \in Managers, NEW e
       PROVE  /\ Expected(j, m, e)' = Expected(j, m, e)
              /\ HeldFor(j, m, e)' = HeldFor(j, m, e)
  <2>1. Become(j, e)' = Become(j, e)
    BY <1>2, <1>4, BecomeStays
  <2>2. ManagerOf(j, e)' = ManagerOf(j, e)
    BY DEF ManagerOf
  <2> QED
    BY <2>1, <2>2 DEF Expected, HeldFor, Held, HeldIn
<1> QED
  BY <1>9, <1>10

LEMMA LandedStays ==
  ASSUME Shapes, ReadersRight, Conserved,
         UNCHANGED <<ids, reader, kept, batch, announced, settings>>,
         \A j \in Jobs, m \in Managers : \A e : \A n \in Int :
           Landing(j, m, e, n) => Landing(j, m, e, n)'
  PROVE  ReadersRight' /\ Conserved'
<1>1. /\ ReadersRight'
      /\ \A j \in Jobs, m \in Managers : \A e :
           /\ Expected(j, m, e)' = Expected(j, m, e)
           /\ HeldFor(j, m, e)' = HeldFor(j, m, e)
  BY ReadingStays
<1>2. ASSUME NEW j \in Jobs, NEW m \in Managers, NEW e \in Int \X Int, Admitted(j)'
      PROVE  ConservedAt(j, m, e)'
  <2>1. Admitted(j)
    BY <1>2 DEF Admitted
  <2>2. ConservedAt(j, m, e)
    BY <2>1 DEF Conserved
  <2>3. \A n \in Int : Landing(j, m, e, n) => Landing(j, m, e, n)'
    OBVIOUS
  <2> QED
    BY <1>1, <2>2, <2>3, ConservedSame
<1> QED
  BY <1>1, <1>2 DEF Conserved

\* The thread of a job moves on and sends nothing.
LEMMA JobMoves ==
  ASSUME Shapes, OnceInv, NEW j \in Jobs,
         UNCHANGED <<ids, reader, kept, batch, announced, settings, restored, queue, managing,
                     files>>,
         \A i \in Jobs : i # j => job'[i] = job[i] /\ created'[i] = created[i],
         created'[j] = created[j] \/ \A m \in Managers : manager[j][m] # "load",
         \/ job[j] \notin {"stop", "ended"} /\ (job'[j] \in {"stop", "ended"} => ~Admitted(j))
         \/ job[j] = "stop" /\ job'[j] = "ended" /\ \A m \in Managers : manager[j][m] = "stopped"
         \/ job'[j] = job[j]
  PROVE  OnceInv'
<1>0. ReadersRight /\ ManagersRight /\ Conserved
  BY DEF OnceInv
<1>1. UNCHANGED <<manager, stored, backup>>
  BY DEF managing, files
<1>2. \A i \in Jobs : /\ Admitted(i)' <=> Admitted(i)
                      /\ Restoring(i)' <=> Restoring(i)
                      /\ Inserters(i)' = Inserters(i)
  BY DEF Admitted, Restoring, Persisting, Having, Inserters
<1>3. \A i \in Jobs, m \in Managers : \A e : \A n \in Int :
        Landing(i, m, e, n) => Landing(i, m, e, n)'
  BY <1>1, LandingStays DEF Inserted, Pending
<1>4. ReadersRight' /\ Conserved'
  BY <1>0, <1>3, LandedStays
<1>5. ASSUME NEW i \in Jobs, NEW m \in Managers PROVE BackedAt(i, m)' /\ QueueAt(i, m)'
  <2>0. BackedAt(i, m) /\ QueueAt(i, m)
    BY <1>0 DEF ManagersRight
  <2>1. BackedAt(i, m)'
    <3>1. manager[i][m] = "load" => created'[i] = created[i]
      OBVIOUS
    <3> QED
      BY <1>1, <1>2, <2>0, <3>1 DEF BackedAt
  <2>2. QueueAt(i, m)'
    <3>1. CASE job'[i] = job[i]
      BY <1>1, <1>2, <2>0, <3>1 DEF QueueAt
    <3>2. CASE job'[i] # job[i]
      <4>1. i = j
        BY <3>2
      <4>2. CASE job[j] \notin {"stop", "ended"} /\ (job'[j] \in {"stop", "ended"} => ~Admitted(j))
        <5>1. \A k \in DOMAIN queue[i][m] : queue[i][m][k] # Shutdown
          BY <2>0, <4>1, <4>2 DEF QueueAt
        <5> QED
          BY <1>1, <1>2, <2>0, <4>1, <4>2, <5>1 DEF QueueAt
      <4>3. CASE job[j] = "stop" /\ job'[j] = "ended" /\ \A n \in Managers : manager[j][n] = "stopped"
        BY <1>1, <1>2, <2>0, <4>1, <4>3 DEF QueueAt
      <4> QED
        BY <3>2, <4>1, <4>2, <4>3
    <3> QED
      BY <3>1, <3>2
  <2> QED
    BY <2>1, <2>2
<1>6. ASSUME NEW i \in Jobs, job'[i] \in {"stop", "ended"}, Admitted(i)'
      PROVE  announced'[i] = Inserters(i)'
  <2>1. Admitted(i)
    BY <1>2, <1>6
  <2>2. job[i] \in {"stop", "ended"}
    BY <1>6, <2>1
  <2> QED
    BY <1>0, <1>2, <2>1, <2>2 DEF ManagersRight
<1>7. ManagersRight'
  BY <1>5, <1>6 DEF ManagersRight
<1> QED
  BY <1>4, <1>7 DEF OnceInv

\* The message to stop, to all managers of the job.
LEMMA JoinOnce ==
  ASSUME JInv, OnceInv, NEW j \in Jobs, JobJoin(j)
  PROVE  OnceInv'
<1>0. Shapes /\ MessagesRight /\ ReadersRight /\ ManagersRight /\ Conserved
  BY DEF JInv, OnceInv
<1>1. /\ UNCHANGED <<ids, reader, kept, batch, announced, settings, restored, managing, files,
                     created>>
      /\ job[j] = "join" /\ announced[j] = Inserters(j) /\ job' = [job EXCEPT ![j] = "stop"]
      /\ queue' = [queue EXCEPT ![j] = [m \in Managers |-> Append(@[m], Shutdown)]]
  BY DEF JobJoin, JobAt, JobGo, reading, system
<1>2. UNCHANGED <<manager, stored, backup>>
  BY <1>1 DEF managing, files
<1>3. /\ \A i \in Jobs : job'[i] = IF i = j THEN "stop" ELSE job[i]
      /\ \A i \in Jobs, m \in Managers :
           queue'[i][m] = IF i = j THEN Append(queue[i][m], Shutdown) ELSE queue[i][m]
  BY <1>0, <1>1 DEF Shapes, JobTypes, QueueTypes
<1>4. Shutdown \in Edges /\ \A e : Copies(Shutdown, e) = 0
  BY CopiesNone DEF Shutdown, Edges
<1>5. \A i \in Jobs, m \in Managers : Inserted(i, m)' = Inserted(i, m)
  BY <1>2 DEF Inserted
<1>6. ASSUME NEW i \in Jobs, NEW m \in Managers, NEW e, NEW n \in Int, Landing(i, m, e, n)
      PROVE  Landing(i, m, e, n)'
  <2>1. CASE i = j
    <3>1. queue'[i][m] = Append(queue[i][m], Shutdown) /\ manager'[i][m] = manager[i][m]
      BY <1>2, <1>3, <2>1
    <3>2. MessageAt(i, m)
      BY <1>0 DEF MessagesRight
    <3>3. Landing(i, m, e, n + Copies(Shutdown, e))'
      BY <1>0, <1>4, <1>5, <1>6, <3>1, <3>2, LandingGains
    <3>4. n + Copies(Shutdown, e) = n
      BY <1>4
    <3> QED
      BY <3>3, <3>4
  <2>2. CASE i # j
    <3>1. queue'[i][m] = queue[i][m] /\ Pending(i, m)' = Pending(i, m)
      BY <1>2, <1>3, <2>2 DEF Pending
    <3> QED
      BY <1>5, <1>6, <3>1, LandingStays
  <2> QED
    BY <2>1, <2>2
<1>7. ReadersRight' /\ Conserved'
  BY <1>0, <1>1, <1>6, LandedStays
<1>8. ASSUME NEW i \in Jobs, NEW m \in Managers PROVE BackedAt(i, m)' /\ QueueAt(i, m)'
  <2>0. BackedAt(i, m) /\ QueueAt(i, m) /\ MessageAt(i, m)
    BY <1>0 DEF ManagersRight, MessagesRight
  <2>1. BackedAt(i, m)'
    BY <1>1, <1>2, <2>0, BackedStays
  <2>2. CASE i # j
    BY <1>1, <1>2, <1>3, <2>0, <2>1, <2>2, QueueStays
  <2>3. CASE i = j
    <3>1. PICK q : q = queue[i][m] /\ q \in Seq(Edges)
      BY <1>0 DEF Shapes, QueueTypes
    <3>2. PICK p : p = Append(q, Shutdown)
      OBVIOUS
    <3>3. /\ DOMAIN q = 1 .. Len(q) /\ DOMAIN p = 1 .. Len(q) + 1 /\ Len(q) \in Nat
          /\ Len(p) = Len(q) + 1 /\ \A k \in 1 .. Len(q) : p[k] = q[k]
      BY <3>1, <3>2
    <3>4. \A k \in 1 .. Len(q) : q[k] # Shutdown
      BY <1>1, <2>0, <2>3, <3>1, <3>3 DEF QueueAt
    <3>5. \A k \in DOMAIN p : p[k] = Shutdown => k = Len(p)
      BY <3>3, <3>4
    <3>6. manager[i][m] = "persist" => Head(p) # Shutdown
      <4> SUFFICES ASSUME manager[i][m] = "persist" PROVE Head(p) # Shutdown
        OBVIOUS
      <4>1. q # <<>> /\ Head(q) # Shutdown
        BY <2>0, <3>1 DEF MessageAt, QueueAt
      <4>2. Head(p) = Head(q)
        BY <3>1, <3>2, <4>1
      <4> QED
        BY <4>1, <4>2
    <3>7. manager[i][m] # "stopped"
      <4> SUFFICES ASSUME manager[i][m] = "stopped" PROVE FALSE
        OBVIOUS
      <4>1. q = <<Shutdown>>
        BY <2>0, <3>1 DEF QueueAt
      <4>2. 1 \in DOMAIN <<Shutdown>> /\ <<Shutdown>>[1] = Shutdown
        OBVIOUS
      <4> QED
        BY <3>3, <3>4, <4>1, <4>2
    <3>8. queue'[i][m] = p /\ manager'[i][m] = manager[i][m] /\ job'[i] = "stop"
      BY <1>2, <1>3, <2>3, <3>1, <3>2
    <3>9. QueueAt(i, m)'
      BY <3>5, <3>6, <3>7, <3>8 DEF QueueAt
    <3> QED
      BY <2>1, <3>9
  <2> QED
    BY <2>2, <2>3
<1>9. ASSUME NEW i \in Jobs, job'[i] \in {"stop", "ended"}, Admitted(i)'
      PROVE  announced'[i] = Inserters(i)'
  <2>1. Admitted(i) /\ Inserters(i)' = Inserters(i) /\ announced' = announced
    BY <1>1, <1>9 DEF Admitted, Inserters
  <2>2. CASE i = j
    BY <1>1, <2>1, <2>2
  <2>3. CASE i # j
    BY <1>0, <1>3, <1>9, <2>1, <2>3 DEF ManagersRight
  <2> QED
    BY <2>2, <2>3
<1>10. ManagersRight'
  BY <1>8, <1>9 DEF ManagersRight
<1> QED
  BY <1>7, <1>10 DEF OnceInv

LEMMA JobOnce ==
  ASSUME JInv, OnceInv, NEW j \in Jobs, JobStep(j)
  PROVE  OnceInv'
<1>0. Shapes /\ ManagersRight
  BY DEF JInv, OnceInv
<1>1. CASE JobJoin(j)
  BY <1>1, JoinOnce
<1>2. CASE ~JobJoin(j)
  <2>1. \/ ParseOptions(j) \/ CreateProvider(j) \/ JobArrive(j) \/ JobPass(j) \/ JobEnd(j)
    BY <1>2 DEF JobStep
  <2>2. UNCHANGED <<ids, reader, kept, batch, announced, settings, restored, queue, managing,
                    files>>
    BY <2>1 DEF ParseOptions, CreateProvider, JobArrive, JobPass, JobEnd, reading, system
  <2>3. \/ UNCHANGED job \/ \E place : job' = [job EXCEPT ![j] = place]
    BY <2>1 DEF ParseOptions, CreateProvider, JobArrive, JobPass, JobEnd, JobGo
  <2>4. \/ UNCHANGED created \/ created' = [created EXCEPT ![j] = @ + 1]
    BY <2>1 DEF ParseOptions, CreateProvider, JobArrive, JobPass, JobEnd
  <2>5. job \in [Jobs -> {"parse", "create", "barrier", "join", "stop", "ended"}]
        /\ created \in [Jobs -> Nat]
    BY <1>0 DEF Shapes, JobTypes
  <2>6. \A i \in Jobs : i # j => job'[i] = job[i] /\ created'[i] = created[i]
    BY <2>3, <2>4, <2>5
  <2>7. created'[j] = created[j] \/ \A m \in Managers : manager[j][m] # "load"
    <3>1. CASE CreateProvider(j)
      <4>1. Restoring(j) => \A m \in Managers : manager[j][m] # "load"
        BY <3>1 DEF CreateProvider
      <4> QED
        BY <1>0, <4>1 DEF ManagersRight, BackedAt
    <3>2. CASE ~CreateProvider(j)
      BY <2>1, <3>2 DEF ParseOptions, JobArrive, JobPass, JobEnd
    <3> QED
      BY <3>1, <3>2
  <2>8. \/ job[j] \notin {"stop", "ended"} /\ (job'[j] \in {"stop", "ended"} => ~Admitted(j))
        \/ job[j] = "stop" /\ job'[j] = "ended" /\ \A m \in Managers : manager[j][m] = "stopped"
        \/ job'[j] = job[j]
    <3>1. CASE ParseOptions(j)
      BY <2>5, <3>1 DEF ParseOptions, JobAt, JobGo, Admitted
    <3>2. CASE CreateProvider(j)
      BY <2>5, <3>2 DEF CreateProvider, JobAt, JobGo
    <3>3. CASE JobArrive(j)
      BY <3>3 DEF JobArrive
    <3>4. CASE JobPass(j)
      BY <2>5, <3>4 DEF JobPass, JobAt, JobGo
    <3>5. CASE JobEnd(j)
      BY <2>5, <3>5 DEF JobEnd, JobAt, JobGo
    <3> QED
      BY <2>1, <3>1, <3>2, <3>3, <3>4, <3>5
  <2> QED
    BY <1>0, <2>2, <2>6, <2>7, <2>8, JobMoves
<1> QED
  BY <1>1, <1>2

\* A manager moves, and no copy gets lost on its way.
LEMMA ManagerOnce ==
  ASSUME JInv, OnceInv, NEW j \in Jobs, NEW m \in Managers, ManagerOnly(j, m),
         UNCHANGED <<ids, job, restored>>, BackedAt(j, m)', QueueAt(j, m)',
         \A e : \A n \in Int : Landing(j, m, e, n) => Landing(j, m, e, n)'
  PROVE  OnceInv'
<1>0. Shapes /\ ReadersRight /\ ManagersRight /\ Conserved
  BY DEF JInv, OnceInv
<1>1. UNCHANGED <<reader, kept, batch, announced, created, settings, backup, found>>
  BY DEF ManagerOnly, reading
<1>2. ASSUME NEW i \in Jobs, NEW n \in Managers, i # j \/ n # m
      PROVE  /\ queue'[i][n] = queue[i][n] /\ manager'[i][n] = manager[i][n]
             /\ stored'[i][n] = stored[i][n]
             /\ Inserted(i, n)' = Inserted(i, n) /\ Pending(i, n)' = Pending(i, n)
  BY <1>1, <1>2 DEF ManagerOnly, Inserted, Pending
<1>3. ASSUME NEW i \in Jobs, NEW n \in Managers
      PROVE  \A e : \A c \in Int : Landing(i, n, e, c) => Landing(i, n, e, c)'
  <2>1. CASE i = j /\ n = m
    BY <2>1
  <2>2. CASE i # j \/ n # m
    BY <1>2, <2>2, LandingStays
  <2> QED
    BY <2>1, <2>2
<1>4. ReadersRight' /\ Conserved'
  BY <1>0, <1>1, <1>3, LandedStays
<1>5. ASSUME NEW i \in Jobs, NEW n \in Managers PROVE BackedAt(i, n)' /\ QueueAt(i, n)'
  <2>1. CASE i = j /\ n = m
    BY <2>1
  <2>2. CASE i # j \/ n # m
    <3>1. BackedAt(i, n) /\ QueueAt(i, n)
      BY <1>0 DEF ManagersRight
    <3> QED
      BY <1>1, <1>2, <2>2, <3>1, BackedStays, QueueStays
  <2> QED
    BY <2>1, <2>2
<1>6. ASSUME NEW i \in Jobs, job'[i] \in {"stop", "ended"}, Admitted(i)'
      PROVE  announced'[i] = Inserters(i)'
  <2>1. Admitted(i) /\ Inserters(i)' = Inserters(i) /\ job' = job /\ announced' = announced
    BY <1>1, <1>6 DEF Admitted, Inserters
  <2> QED
    BY <1>0, <1>6, <2>1 DEF ManagersRight
<1>7. ManagersRight'
  BY <1>5, <1>6 DEF ManagersRight
<1> QED
  BY <1>4, <1>7 DEF OnceInv

\* The messages but the first.
LEMMA TailQueue ==
  ASSUME NEW q \in Seq(Edges), q # <<>>, Head(q) # Shutdown,
         \A k \in DOMAIN q : q[k] = Shutdown => k = Len(q)
  PROVE  /\ Tail(q) \in Seq(Edges)
         /\ \A k \in DOMAIN Tail(q) : Tail(q)[k] = Shutdown => k = Len(Tail(q))
         /\ (\E k \in DOMAIN Tail(q) : Tail(q)[k] = Shutdown) =>
              \E k \in DOMAIN q : q[k] = Shutdown
<1>1. /\ DOMAIN q = 1 .. Len(q) /\ DOMAIN Tail(q) = 1 .. Len(q) - 1 /\ Len(q) \in Nat
      /\ Len(Tail(q)) = Len(q) - 1
      /\ \A k \in 1 .. Len(q) - 1 : Tail(q)[k] = q[k + 1]
      /\ Tail(q) \in Seq(Edges)
  OBVIOUS
<1>2. \A k \in 1 .. Len(q) - 1 : k + 1 \in 1 .. Len(q) /\ k \in Nat
  <2>1. \A n \in Nat : \A k \in 1 .. n - 1 : k + 1 \in 1 .. n /\ k \in Nat
    OBVIOUS
  <2>2. Len(q) \in Nat
    BY <1>1
  <2> QED
    BY <2>1, <2>2
<1>3. ASSUME NEW k \in DOMAIN Tail(q), Tail(q)[k] = Shutdown
      PROVE  k = Len(Tail(q)) /\ k + 1 \in DOMAIN q /\ q[k + 1] = Shutdown
  <2>1. k + 1 \in DOMAIN q /\ q[k + 1] = Shutdown /\ k \in Nat
    BY <1>1, <1>2, <1>3
  <2>2. k + 1 = Len(q)
    BY <2>1
  <2>3. k = Len(Tail(q))
    <3>1. PICK n : n = Len(q)
      OBVIOUS
    <3>2. n \in Nat /\ k + 1 = n /\ Len(Tail(q)) = n - 1
      BY <1>1, <2>2, <3>1
    <3> QED
      BY <2>1, <3>2
  <2> QED
    BY <2>1, <2>3
<1> QED
  BY <1>1, <1>3

\* A prefix stays one when more is appended.
LEMMA PrefixGrows ==
  ASSUME NEW S, NEW s \in Seq(S), NEW t \in Seq(S), NEW h \in Seq(S), IsPrefix(s, t)
  PROVE  IsPrefix(s, t \o h) /\ Len(s) <= Len(t)
<1>1. Len(s) <= Len(t) /\ SubSeq(s, 1, Len(s)) = SubSeq(t, 1, Len(s))
  BY DEF IsPrefix
<1>2. Len(s) \in Nat /\ Len(t) \in Nat /\ Len(h) \in Nat /\ Len(t \o h) = Len(t) + Len(h)
  BY ConcatIs
<1>3. SubSeq(t \o h, 1, Len(s)) = SubSeq(t, 1, Len(s))
  BY <1>1, <1>2, SubSeqOfConcat
<1>4. Len(s) <= Len(t \o h)
  BY <1>1, <1>2
<1> QED
  BY <1>1, <1>3, <1>4 DEF IsPrefix

LEMMA OneCell ==
  ASSUME NEW S, NEW f \in [Jobs -> [Managers -> S]], NEW g, NEW j \in Jobs, NEW m \in Managers,
         g = f \/ \E x : g = [f EXCEPT ![j][m] = x]
  PROVE  \A i \in Jobs, n \in Managers : i # j \/ n # m => g[i][n] = f[i][n]
OBVIOUS

LEMMA ManagerAlone ==
  ASSUME Shapes, NEW j \in Jobs, NEW m \in Managers, ManagerStep(j, m) \/ Write(j, m)
  PROVE  ManagerOnly(j, m) /\ UNCHANGED <<ids, job, restored>>
<1>1. /\ UNCHANGED <<reading, created, settings, backup, found>>
      /\ UNCHANGED <<ids, job, restored>>
  BY DEF ManagerStep, Load, LoadInto, Loaded, Insert, Persist, Stop, Write, system, files
<1>2. /\ queue \in [Jobs -> [Managers -> Seq(Edges)]]
      /\ manager \in [Jobs -> [Managers -> {"load", "loaded", "work", "persist", "stopped"}]]
      /\ stored \in [Jobs -> [Managers -> Edges]]
      /\ toWrite \in [Jobs -> [Managers -> Seq(Edges)]]
      /\ written \in [Jobs -> [Managers -> Nat]]
      /\ disk \in [Jobs -> [Managers -> Edges]]
  BY DEF Shapes, QueueTypes, ManagerTypes, FileTypes
<1>3. queue' = queue \/ \E x : queue' = [queue EXCEPT ![j][m] = x]
  <2>1. queue' = queue \/ queue' = [queue EXCEPT ![j][m] = Tail(@)]
    BY DEF ManagerStep, Load, LoadInto, Loaded, Insert, Persist, Stop, Write, Release
  <2> QED
    BY <2>1
<1>4. manager' = manager \/ \E x : manager' = [manager EXCEPT ![j][m] = x]
  BY DEF ManagerStep, Load, LoadInto, Loaded, Insert, Persist, Stop, Write, ManagerGo, managing
<1>5. stored' = stored \/ \E x : stored' = [stored EXCEPT ![j][m] = x]
  <2>1. \/ stored' = stored \/ stored' = [stored EXCEPT ![j][m] = backup[j][m]]
        \/ stored' = [stored EXCEPT ![j][m] = @ \o Head(queue[j][m])]
    BY DEF ManagerStep, Load, LoadInto, Loaded, Insert, Persist, Stop, Write, managing
  <2> QED
    BY <2>1
<1>6. toWrite' = toWrite \/ \E x : toWrite' = [toWrite EXCEPT ![j][m] = x]
  <2>1. \/ toWrite' = toWrite \/ toWrite' = [toWrite EXCEPT ![j][m] = toWrite[j][m]]
        \/ toWrite' = [toWrite EXCEPT ![j][m] = Append(@, Head(queue[j][m]))]
        \/ toWrite' = [toWrite EXCEPT ![j][m] = Append(@, Shutdown)]
        \/ toWrite' = [toWrite EXCEPT ![j][m] = Tail(@)]
    BY DEF ManagerStep, Load, LoadInto, Loaded, Insert, Persist, Stop, Write, managing
  <2> QED
    BY <2>1
<1>7. written' = written \/ \E x : written' = [written EXCEPT ![j][m] = x]
  <2>1. \/ written' = written
        \/ written' = [written EXCEPT ![j][m] = @ + Len(Head(toWrite[j][m]))]
    BY DEF ManagerStep, Load, LoadInto, Loaded, Insert, Persist, Stop, Write, managing
  <2> QED
    BY <2>1
<1>8. disk' = disk \/ \E x : disk' = [disk EXCEPT ![j][m] = x]
  <2>1. \/ disk' = disk
        \/ disk' = [disk EXCEPT ![j][m] = Overlay(@, written[j][m], Head(toWrite[j][m]))]
    BY DEF ManagerStep, Load, LoadInto, Loaded, Insert, Persist, Stop, Write, files
  <2> QED
    BY <2>1
<1>9. ASSUME NEW i \in Jobs, NEW n \in Managers, i # j \/ n # m
      PROVE  /\ queue'[i][n] = queue[i][n] /\ manager'[i][n] = manager[i][n]
             /\ stored'[i][n] = stored[i][n] /\ toWrite'[i][n] = toWrite[i][n]
             /\ written'[i][n] = written[i][n] /\ disk'[i][n] = disk[i][n]
  <2>1. queue'[i][n] = queue[i][n]
    BY <1>2, <1>3, <1>9, OneCell
  <2>2. manager'[i][n] = manager[i][n]
    BY <1>2, <1>4, <1>9, OneCell
  <2>3. stored'[i][n] = stored[i][n]
    BY <1>2, <1>5, <1>9, OneCell
  <2>4. toWrite'[i][n] = toWrite[i][n]
    BY <1>2, <1>6, <1>9, OneCell
  <2>5. written'[i][n] = written[i][n]
    BY <1>2, <1>7, <1>9, OneCell
  <2>6. disk'[i][n] = disk[i][n]
    BY <1>2, <1>8, <1>9, OneCell
  <2> QED
    BY <2>1, <2>2, <2>3, <2>4, <2>5, <2>6
<1> QED
  BY <1>1, <1>9 DEF ManagerOnly

\* What is known of a manager that does not read back any more.
LEMMA InsertedKnown ==
  ASSUME Shapes, ManagersRight, NEW j \in Jobs, NEW m \in Managers
  PROVE  /\ BackedAt(j, m) /\ QueueAt(j, m)
         /\ queue[j][m] \in Seq(Edges) /\ backup[j][m] \in Edges /\ stored[j][m] \in Edges
         /\ manager[j][m] # "load" =>
              /\ Inserted(j, m) \in Edges
              /\ \A e : Copies(Inserted(j, m), e) \in Int
<1>1. /\ BackedAt(j, m) /\ QueueAt(j, m)
      /\ queue[j][m] \in Seq(Edges) /\ backup[j][m] \in Edges /\ stored[j][m] \in Edges
  BY ManagerHere DEF ManagersRight
<1>2. ASSUME manager[j][m] # "load" PROVE Inserted(j, m) \in Edges
  <2>1. Len(backup[j][m]) <= Len(stored[j][m])
    BY <1>1, <1>2 DEF BackedAt, IsPrefix
  <2> QED
    BY <1>1, <2>1, InsertedIs DEF Inserted, Edges
<1>3. ASSUME manager[j][m] # "load" PROVE \A e : Copies(Inserted(j, m), e) \in Int
  BY <1>2, <1>3, CopiesNat
<1> QED
  BY <1>1, <1>2, <1>3

\* The first message is done with: its edges are inserted.
LEMMA LandingReleased ==
  ASSUME Shapes, NEW j \in Jobs, NEW m \in Managers, NEW e, NEW n, Landing(j, m, e, n),
         queue[j][m] # <<>>, queue'[j][m] = Tail(queue[j][m]), Pending(j, m)' = <<>>,
         Copies(Inserted(j, m), e) \in Int, Copies(Pending(j, m), e) \in Int,
         Copies(Inserted(j, m)', e)
           = Copies(Inserted(j, m), e) - Copies(Pending(j, m), e) + Copies(Head(queue[j][m]), e)
  PROVE  Landing(j, m, e, n)'
<1>1. PICK q : q = queue[j][m] /\ q \in Seq(Edges) /\ q # <<>>
  BY DEF Shapes, QueueTypes
<1>2. PICK from : from = Copies(Inserted(j, m), e) - Copies(Pending(j, m), e)
  OBVIOUS
<1>3. Counted(q, from, e, n)
  BY <1>1, <1>2 DEF Landing
<1>4. Counted(Tail(q), from + Copies(Head(q), e), e, n)
  BY <1>1, <1>3, AddsTail
<1>5. Copies(Inserted(j, m)', e) = from + Copies(Head(q), e)
  BY <1>1, <1>2
<1>6. Copies(Inserted(j, m)', e) - Copies(Pending(j, m)', e) = from + Copies(Head(q), e)
  <2>1. Copies(Pending(j, m)', e) = 0
    BY CopiesNone
  <2>2. from \in Int /\ Copies(Head(q), e) \in Int
    <3>1. Head(q) \in Edges
      BY <1>1
    <3> QED
      BY <1>2, <3>1, CopiesNat
  <2> QED
    BY <1>5, <2>1, <2>2
<1>7. queue'[j][m] = Tail(q)
  BY <1>1
<1> QED
  BY <1>4, <1>6, <1>7 DEF Landing

LEMMA PersistOnce ==
  ASSUME JInv, OnceInv, process = "up", NEW j \in Jobs, NEW m \in Managers, Persist(j, m)
  PROVE  OnceInv'
<1>0. Shapes /\ ManagersRight /\ ManagerOnly(j, m) /\ UNCHANGED <<ids, job, restored>>
  BY ManagerAlone DEF JInv, OnceInv, ManagerStep
<1>1. /\ manager[j][m] = "persist" /\ stored' = stored
      /\ manager' = [manager EXCEPT ![j][m] = "work"]
      /\ queue' = [queue EXCEPT ![j][m] = Tail(@)]
  BY DEF Persist, ManagerAt, ManagerGo, Release
<1>2. /\ BackedAt(j, m) /\ QueueAt(j, m) /\ queue[j][m] \in Seq(Edges)
      /\ \A e : Copies(Inserted(j, m), e) \in Int
  BY <1>0, <1>1, InsertedKnown
<1>3. queue[j][m] # <<>> /\ Head(queue[j][m]) # Shutdown /\ Pending(j, m) = Head(queue[j][m])
  BY <1>1, <1>2 DEF JInv, MessagesRight, MessageAt, QueueAt, Pending
<1>4. queue'[j][m] = Tail(queue[j][m]) /\ manager'[j][m] = "work"
  BY <1>0, <1>1 DEF Shapes, QueueTypes, ManagerTypes
<1>5. UNCHANGED <<backup, settings, restored, created>> /\ Inserted(j, m)' = Inserted(j, m)
  BY <1>0, <1>1 DEF ManagerOnly, Inserted
<1>6. BackedAt(j, m)'
  BY <1>1, <1>2, <1>4, <1>5 DEF BackedAt
<1>7. QueueAt(j, m)'
  <2>1. PICK q : q = queue[j][m] /\ q \in Seq(Edges) /\ q # <<>> /\ Head(q) # Shutdown
    BY <1>2, <1>3
  <2>2. \A k \in DOMAIN q : q[k] = Shutdown => k = Len(q) /\ job[j] \in {"stop", "ended"}
    BY <1>2, <2>1 DEF QueueAt
  <2>3. \A k \in DOMAIN Tail(q) : Tail(q)[k] = Shutdown =>
          k = Len(Tail(q)) /\ job[j] \in {"stop", "ended"}
    BY <2>1, <2>2, TailQueue
  <2>4. queue'[j][m] = Tail(q) /\ job' = job
    BY <1>0, <1>4, <2>1
  <2>5. ~(job[j] = "ended" /\ Admitted(j))
    BY <1>1, <1>2 DEF QueueAt
  <2> QED
    BY <1>4, <1>5, <2>3, <2>4, <2>5 DEF QueueAt, Admitted
<1>8. ASSUME NEW e, NEW n \in Int, Landing(j, m, e, n) PROVE Landing(j, m, e, n)'
  <2>1. PICK c, d : c = Copies(Inserted(j, m), e) /\ d = Copies(Head(queue[j][m]), e)
    OBVIOUS
  <2>2. Head(queue[j][m]) \in Edges
    BY <1>2, <1>3
  <2>3. c \in Int /\ d \in Int /\ c = c - d + d
    BY <1>2, <2>1, <2>2, CopiesNat
  <2>4. Pending(j, m)' = <<>>
    BY <1>4 DEF Pending
  <2>5. /\ Copies(Inserted(j, m), e) \in Int /\ Copies(Pending(j, m), e) \in Int
        /\ Copies(Inserted(j, m)', e)
             = Copies(Inserted(j, m), e) - Copies(Pending(j, m), e) + Copies(Head(queue[j][m]), e)
    BY <1>3, <1>5, <2>1, <2>3
  <2> QED
    BY <1>0, <1>3, <1>4, <1>8, <2>4, <2>5, LandingReleased
<1> QED
  BY <1>0, <1>6, <1>7, <1>8, ManagerOnce

LEMMA InsertOnce ==
  ASSUME JInv, OnceInv, process = "up", NEW j \in Jobs, NEW m \in Managers, Insert(j, m)
  PROVE  OnceInv'
<1>0. Shapes /\ ManagersRight /\ ManagerOnly(j, m) /\ UNCHANGED <<ids, job, restored>>
  BY ManagerAlone DEF JInv, OnceInv, ManagerStep
<1>1. /\ manager[j][m] = "work" /\ queue[j][m] # <<>> /\ Head(queue[j][m]) # Shutdown
      /\ stored' = [stored EXCEPT ![j][m] = @ \o Head(queue[j][m])]
      /\ \/ manager' = [manager EXCEPT ![j][m] = "persist"] /\ UNCHANGED queue
         \/ queue' = [queue EXCEPT ![j][m] = Tail(@)] /\ UNCHANGED manager
  BY DEF Insert, ManagerAt, ManagerGo, Release
<1>2. /\ BackedAt(j, m) /\ QueueAt(j, m) /\ queue[j][m] \in Seq(Edges)
      /\ backup[j][m] \in Edges /\ stored[j][m] \in Edges /\ Inserted(j, m) \in Edges
      /\ \A e : Copies(Inserted(j, m), e) \in Int
  BY <1>0, <1>1, InsertedKnown
<1>3. PICK h \in Edges : h = Head(queue[j][m])
  BY <1>1, <1>2
<1>4. /\ stored'[j][m] = stored[j][m] \o h
      /\ \/ manager'[j][m] = "persist" /\ queue'[j][m] = queue[j][m]
         \/ manager'[j][m] = "work" /\ queue'[j][m] = Tail(queue[j][m])
  <2>1. /\ stored \in [Jobs -> [Managers -> Edges]] /\ queue \in [Jobs -> [Managers -> Seq(Edges)]]
        /\ manager \in [Jobs -> [Managers -> {"load", "loaded", "work", "persist", "stopped"}]]
    BY <1>0 DEF Shapes, QueueTypes, ManagerTypes
  <2>2. stored'[j][m] = stored[j][m] \o h
    BY <1>1, <1>3, <2>1
  <2>3. CASE manager' = [manager EXCEPT ![j][m] = "persist"] /\ UNCHANGED queue
    BY <2>1, <2>2, <2>3
  <2>4. CASE queue' = [queue EXCEPT ![j][m] = Tail(@)] /\ UNCHANGED manager
    <3>1. queue'[j][m] = Tail(queue[j][m])
      BY <2>1, <2>4
    <3> QED
      BY <1>1, <2>2, <2>4, <3>1
  <2> QED
    BY <1>1, <2>3, <2>4
<1>5. UNCHANGED <<backup, settings, restored, created>>
  BY <1>0 DEF ManagerOnly
<1>6. PICK a, o : a = stored[j][m] /\ o = backup[j][m]
  OBVIOUS
<1>7. IsPrefix(o, a \o h) /\ Len(o) <= Len(a)
  <2>1. IsPrefix(o, a)
    BY <1>1, <1>2, <1>6 DEF BackedAt
  <2> QED
    BY <1>2, <1>3, <1>6, <2>1, PrefixGrows DEF Edges
<1>8. BackedAt(j, m)'
  BY <1>4, <1>5, <1>6, <1>7 DEF BackedAt
<1>9. Inserted(j, m)' = Inserted(j, m) \o h
  <2>1. SubSeq(a \o h, Len(o) + 1, Len(a \o h)) = SubSeq(a, Len(o) + 1, Len(a)) \o h
    BY <1>2, <1>3, <1>6, <1>7, InsertedMore DEF Edges
  <2> QED
    BY <1>4, <1>5, <1>6, <2>1 DEF Inserted
<1>10. \A e : Copies(Inserted(j, m)', e) = Copies(Inserted(j, m), e) + Copies(h, e)
  BY <1>2, <1>3, <1>9, CopiesConcat DEF Edges
<1>11. Pending(j, m) = <<>> /\ \A e : Copies(Pending(j, m), e) = 0
  BY <1>1, CopiesNone DEF Pending
<1>12. QueueAt(j, m)'
  <2>1. PICK q : q = queue[j][m] /\ q \in Seq(Edges) /\ q # <<>> /\ Head(q) # Shutdown
    BY <1>1, <1>2
  <2>2. \A k \in DOMAIN q : q[k] = Shutdown => k = Len(q) /\ job[j] \in {"stop", "ended"}
    BY <1>2, <2>1 DEF QueueAt
  <2>3. \A k \in DOMAIN Tail(q) : Tail(q)[k] = Shutdown =>
          k = Len(Tail(q)) /\ job[j] \in {"stop", "ended"}
    BY <2>1, <2>2, TailQueue
  <2>4. job' = job /\ settings' = settings /\ ~(job[j] = "ended" /\ Admitted(j))
    BY <1>0, <1>1, <1>2, <1>5 DEF QueueAt
  <2> QED
    BY <1>4, <2>1, <2>2, <2>3, <2>4 DEF QueueAt, Admitted
<1>13. ASSUME NEW e, NEW n \in Int, Landing(j, m, e, n) PROVE Landing(j, m, e, n)'
  <2>1. PICK c, d : c = Copies(Inserted(j, m), e) /\ d = Copies(h, e)
    OBVIOUS
  <2>2. c \in Int /\ d \in Int /\ c + d = c - 0 + d /\ (c + d) - d = c - 0
    BY <1>2, <2>1, CopiesNat
  <2>3. CASE manager'[j][m] = "persist" /\ queue'[j][m] = queue[j][m]
    <3>1. Pending(j, m)' = h
      BY <1>3, <2>3 DEF Pending
    <3>2. Copies(Inserted(j, m)', e) - Copies(Pending(j, m)', e)
            = Copies(Inserted(j, m), e) - Copies(Pending(j, m), e)
      BY <1>10, <1>11, <2>1, <2>2, <3>1
    <3> QED
      BY <1>13, <2>3, <3>2 DEF Landing
  <2>4. CASE manager'[j][m] = "work" /\ queue'[j][m] = Tail(queue[j][m])
    <3>1. Pending(j, m)' = <<>>
      BY <2>4 DEF Pending
    <3>2. /\ Copies(Inserted(j, m), e) \in Int /\ Copies(Pending(j, m), e) \in Int
          /\ Copies(Inserted(j, m)', e)
               = Copies(Inserted(j, m), e) - Copies(Pending(j, m), e)
                   + Copies(Head(queue[j][m]), e)
      BY <1>3, <1>10, <1>11, <2>1, <2>2
    <3> QED
      BY <1>0, <1>1, <1>13, <2>4, <3>1, <3>2, LandingReleased
  <2> QED
    BY <1>4, <2>3, <2>4
<1> QED
  BY <1>0, <1>8, <1>12, <1>13, ManagerOnce

\* The place of a manager changes or what its writer has, but nothing that
\* is inserted.
LEMMA PlaceOnce ==
  ASSUME JInv, OnceInv, NEW j \in Jobs, NEW m \in Managers, ManagerStep(j, m) \/ Write(j, m),
         stored'[j][m] = stored[j][m], queue'[j][m] = queue[j][m],
         manager'[j][m] = manager[j][m]
           \/ {manager[j][m], manager'[j][m]} \subseteq {"loaded", "work", "stopped"},
         manager[j][m] = "stopped" => manager'[j][m] = "stopped",
         manager'[j][m] = "stopped" => queue[j][m] = <<Shutdown>>
  PROVE  OnceInv'
<1>0. /\ Shapes /\ ManagersRight /\ ManagerOnly(j, m) /\ UNCHANGED <<ids, job, restored>>
      /\ BackedAt(j, m) /\ QueueAt(j, m)
  BY ManagerAlone, InsertedKnown DEF JInv, OnceInv
<1>1. UNCHANGED <<backup, settings, restored, created, job>>
  BY <1>0 DEF ManagerOnly
<1>2. Inserted(j, m)' = Inserted(j, m) /\ Pending(j, m)' = Pending(j, m)
  BY <1>1 DEF Inserted, Pending
<1>3. BackedAt(j, m)'
  BY <1>0, <1>1 DEF BackedAt, Restoring, Persisting, Having
<1>4. QueueAt(j, m)'
  BY <1>0, <1>1 DEF QueueAt, Admitted
<1>5. \A e : \A n \in Int : Landing(j, m, e, n) => Landing(j, m, e, n)'
  BY <1>2, LandingStays
<1> QED
  BY <1>0, <1>3, <1>4, <1>5, ManagerOnce

LEMMA StopOnce ==
  ASSUME JInv, OnceInv, NEW j \in Jobs, NEW m \in Managers, Stop(j, m)
  PROVE  OnceInv'
<1>1. /\ manager[j][m] = "work" /\ queue[j][m] # <<>> /\ Head(queue[j][m]) = Shutdown
      /\ manager' = [manager EXCEPT ![j][m] = "stopped"] /\ UNCHANGED <<queue, stored>>
  BY DEF Stop, ManagerAt, ManagerGo
<1>2. Shapes /\ QueueAt(j, m)
  BY DEF JInv, OnceInv, ManagersRight
<1>3. manager'[j][m] = "stopped"
  BY <1>1, <1>2 DEF Shapes, ManagerTypes
<1>4. queue[j][m] = <<Shutdown>>
  <2>1. PICK q : q = queue[j][m] /\ q \in Seq(Edges)
    BY <1>2 DEF Shapes, QueueTypes
  <2>2. 1 \in DOMAIN q /\ q[1] = Shutdown
    BY <1>1, <2>1
  <2>3. Len(q) = 1
    BY <1>2, <2>1, <2>2 DEF QueueAt
  <2> QED
    BY <2>1, <2>2, <2>3
<1> QED
  BY <1>1, <1>3, <1>4, PlaceOnce DEF ManagerStep

LEMMA LoadedOnce ==
  ASSUME JInv, OnceInv, NEW j \in Jobs, NEW m \in Managers, Loaded(j, m)
  PROVE  OnceInv'
<1>1. /\ manager[j][m] = "loaded" /\ manager' = [manager EXCEPT ![j][m] = "work"]
      /\ UNCHANGED <<queue, stored>>
  BY DEF Loaded, ManagerAt, ManagerGo
<1>2. Shapes
  BY DEF JInv
<1>3. manager'[j][m] = "work"
  BY <1>1, <1>2 DEF Shapes, ManagerTypes
<1> QED
  BY <1>1, <1>3, PlaceOnce DEF ManagerStep

LEMMA WriteOnce ==
  ASSUME JInv, OnceInv, NEW j \in Jobs, NEW m \in Managers, Write(j, m)
  PROVE  OnceInv'
<1>1. UNCHANGED <<queue, stored, manager>>
  BY DEF Write
<1>2. manager[j][m] = "stopped" => queue[j][m] = <<Shutdown>>
  BY DEF OnceInv, ManagersRight, QueueAt
<1> QED
  BY <1>1, <1>2, PlaceOnce

LEMMA LoadOnce ==
  ASSUME JInv, OnceInv, NEW j \in Jobs, NEW m \in Managers, Load(j, m)
  PROVE  OnceInv'
<1>0. /\ Shapes /\ ManagersRight /\ ManagerOnly(j, m) /\ UNCHANGED <<ids, job, restored>>
      /\ BackedAt(j, m) /\ QueueAt(j, m) /\ backup[j][m] \in Edges
  BY ManagerAlone, InsertedKnown DEF JInv, OnceInv, ManagerStep
<1>1. /\ manager[j][m] = "load" /\ job[j] = "create" /\ UNCHANGED queue
      /\ \/ UNCHANGED managing
         \/ /\ stored' = [stored EXCEPT ![j][m] = backup[j][m]]
            /\ manager' = [manager EXCEPT ![j][m] = "loaded"]
  BY DEF Load, LoadInto, ManagerAt, ManagerGo, JobAt
<1>2. CASE UNCHANGED managing
  <2>1. UNCHANGED <<stored, manager>>
    BY <1>2 DEF managing
  <2> QED
    BY <1>1, <2>1, PlaceOnce DEF ManagerStep
<1>3. CASE ~UNCHANGED managing
  <2>1. UNCHANGED <<backup, settings, restored, created, job>>
    BY <1>0 DEF ManagerOnly
  <2>2. stored'[j][m] = backup[j][m] /\ manager'[j][m] = "loaded"
    BY <1>0, <1>1, <1>3 DEF Shapes, ManagerTypes
  <2>3. Inserted(j, m) = <<>>
    <3>1. stored[j][m] = <<>>
      BY <1>0, <1>1 DEF BackedAt
    <3>2. Len(backup[j][m]) \in Nat /\ Len(<<>>) = 0
      BY <1>0 DEF Edges
    <3>3. \A k \in Nat : SubSeq(<<>>, k + 1, 0) = <<>>
      OBVIOUS
    <3> QED
      BY <3>1, <3>2, <3>3 DEF Inserted
  <2>4. Inserted(j, m)' = <<>>
    <3>1. SubSeq(backup[j][m], Len(backup[j][m]) + 1, Len(backup[j][m])) = <<>>
      BY <1>0, EmptyPart DEF Edges
    <3> QED
      BY <2>1, <2>2, <3>1 DEF Inserted
  <2>5. Pending(j, m) = <<>> /\ Pending(j, m)' = <<>>
    BY <1>1, <2>2 DEF Pending
  <2>6. \A e : \A n \in Int : Landing(j, m, e, n) => Landing(j, m, e, n)'
    BY <1>1, <2>3, <2>4, <2>5, LandingStays
  <2>7. BackedAt(j, m)'
    <3>1. IsPrefix(backup[j][m], backup[j][m])
      <4>1. Len(backup[j][m]) \in Nat
        BY <1>0 DEF Edges
      <4> QED
        BY <4>1 DEF IsPrefix
    <3> QED
      BY <2>1, <2>2, <3>1 DEF BackedAt
  <2>8. QueueAt(j, m)'
    BY <1>0, <1>1, <2>1, <2>2 DEF QueueAt, Admitted
  <2> QED
    BY <1>0, <2>6, <2>7, <2>8, ManagerOnce
<1> QED
  BY <1>2, <1>3

LEMMA ManagerStepOnce ==
  ASSUME JInv, OnceInv, process = "up", NEW j \in Jobs, NEW m \in Managers,
         ManagerStep(j, m) \/ Write(j, m)
  PROVE  OnceInv'
BY LoadOnce, LoadedOnce, InsertOnce, PersistOnce, StopOnce, WriteOnce DEF ManagerStep

(* The start, of the first process and of every later one. *)
FreshStart ==
  /\ Fresh /\ Init
  /\ \A j \in Jobs, m \in Managers :
       /\ manager[j][m] # "load" => backup[j][m] = <<>>
       /\ manager[j][m] = "load" => Restoring(j)

LEMMA StartReaders == FreshStart => ReadersRight
<1> SUFFICES ASSUME FreshStart PROVE ReadersRight
  OBVIOUS
<1>1. /\ \A r \in Readers : reader[r] = [at |-> "wait", edge |-> 0, job |-> 1, src |-> NoId]
      /\ \A r \in Readers, j \in Jobs : kept[r][j] = <<>> /\ batch[r][j] = NoEdges
      /\ \A j \in Jobs : announced[j] = 0
      /\ \A r \in Readers : pc[r] = "idle"
      /\ current_id = 0
  BY DEF FreshStart, Fresh, NewReaders, PerProvider, Init
<1>2. IdsDrawn
  <2>1. Drawing = {}
    BY <1>1 DEF Drawing
  <2> QED
    BY <1>1, <2>1, FS_EmptySet DEF IdsDrawn
<1>3. \A r \in Readers : reader[r].at = "wait" /\ reader[r].job = 1
  <2> SUFFICES ASSUME NEW r \in Readers PROVE reader[r].at = "wait" /\ reader[r].job = 1
    OBVIOUS
  <2>1. PICK s : s = reader[r]
    OBVIOUS
  <2>2. s = [at |-> "wait", edge |-> 0, job |-> 1, src |-> NoId]
    BY <1>1, <2>1
  <2> QED
    BY <2>1, <2>2
<1>4. \A r \in Readers : LooksAt(r) /\ EmptyHanded(r)
  <2> SUFFICES ASSUME NEW r \in Readers PROVE LooksAt(r) /\ EmptyHanded(r)
    OBVIOUS
  <2>1. LooksAt(r)
    BY <1>1, <1>3 DEF LooksAt
  <2>2. EmptyHanded(r)
    BY <1>1, <1>3 DEF EmptyHanded
  <2> QED
    BY <2>1, <2>2
<1>5. \A j \in Jobs : HandedTo(j) = {} /\ ThroughWith(j) = {}
  BY <1>3 DEF HandedTo, Handed, HandedBy, ThroughWith, Through
<1>6. \A j \in Jobs : announced[j] = Cardinality(ThroughWith(j))
  BY <1>1, <1>5, FS_EmptySet
<1> QED
  BY <1>2, <1>4, <1>5, <1>6 DEF ReadersRight

LEMMA StartManagers == FreshStart => ManagersRight
<1> SUFFICES ASSUME FreshStart PROVE ManagersRight
  OBVIOUS
<1>1. /\ \A j \in Jobs : job[j] = "parse" /\ created[j] = 0
      /\ \A j \in Jobs, m \in Managers : queue[j][m] = <<>> /\ stored[j][m] = <<>>
      /\ \A j \in Jobs, m \in Managers : manager[j][m] \in {"load", "work"}
  BY DEF FreshStart, Fresh, PerManager
<1>2. IsPrefix(<<>>, <<>>)
  BY DEF IsPrefix
<1>3. \A j \in Jobs, m \in Managers : BackedAt(j, m)
  BY <1>1, <1>2 DEF FreshStart, BackedAt
<1>4. DOMAIN <<>> = {}
  OBVIOUS
<1>5. \A j \in Jobs, m \in Managers : QueueAt(j, m)
  BY <1>1, <1>4 DEF QueueAt
<1> QED
  BY <1>1, <1>3, <1>5 DEF ManagersRight

LEMMA StartConserved == FreshStart => Conserved
<1> SUFFICES ASSUME FreshStart, NEW j \in Jobs, NEW m \in Managers, NEW e \in Int \X Int
             PROVE  ConservedAt(j, m, e)
  BY DEF Conserved
<1>1. /\ \A r \in Readers : reader[r] = [at |-> "wait", edge |-> 0, job |-> 1, src |-> NoId]
      /\ \A r \in Readers : kept[r][j] = <<>> /\ batch[r][j] = NoEdges
      /\ queue[j][m] = <<>> /\ stored[j][m] = <<>> /\ manager[j][m] \in {"load", "work"}
      /\ backup[j][m] \in Edges
  BY DEF FreshStart, Fresh, NewReaders, PerProvider, PerManager
<1>2. \A r \in Readers : reader[r].at = "wait"
  <2> SUFFICES ASSUME NEW r \in Readers PROVE reader[r].at = "wait"
    OBVIOUS
  <2>1. PICK s : s = reader[r]
    OBVIOUS
  <2>2. s = [at |-> "wait", edge |-> 0, job |-> 1, src |-> NoId]
    BY <1>1, <2>1
  <2> QED
    BY <2>1, <2>2
<1>3. HandedTo(j) = {}
  BY <1>2 DEF HandedTo, Handed, HandedBy
<1>4. Expected(j, m, e) = 0
  <2>1. Become(j, e) = {}
    BY <1>3 DEF Become
  <2> QED
    BY <2>1, FS_EmptySet DEF Expected
<1>5. \A r \in Readers : HeldFor(j, m, e)[r] = 0
  <2> SUFFICES ASSUME NEW r \in Readers PROVE HeldFor(j, m, e)[r] = 0
    OBVIOUS
  <2>1. batch[r][j].edges[m] = <<>> /\ kept[r][j] = <<>>
    BY <1>1 DEF NoEdges
  <2>2. Copies(<<>>, e) = 0
    BY CopiesNone
  <2> QED
    BY <2>1, <2>2 DEF HeldFor, Held, HeldIn
<1>6. SumFunction(HeldFor(j, m, e)) = 0
  <2>1. IsFiniteSet(Readers) /\ HeldFor(j, m, e) = [r \in Readers |-> HeldFor(j, m, e)[r]]
    BY JobsAssumption DEF HeldFor
  <2> QED
    BY <1>5, <2>1, SumZero
<1>7. Inserted(j, m) = <<>>
  <2>1. Len(backup[j][m]) \in Nat /\ Len(<<>>) = 0
    BY <1>1 DEF Edges
  <2>2. \A k \in Nat : SubSeq(<<>>, k + 1, 0) = <<>>
    OBVIOUS
  <2> QED
    BY <1>1, <2>1, <2>2 DEF Inserted
<1>8. Copies(Inserted(j, m), e) - Copies(Pending(j, m), e) = 0
  <2>1. Pending(j, m) = <<>>
    BY <1>1 DEF Pending
  <2>2. Copies(<<>>, e) = 0
    BY CopiesNone
  <2> QED
    BY <1>7, <2>1, <2>2
<1>9. Counted(<<>>, 0, e, 0)
  <2>1. PICK acc : acc = [k \in 0 .. Len(<<>>) |-> 0]
    OBVIOUS
  <2>2. /\ acc \in [0 .. Len(<<>>) -> Int] /\ acc[0] = 0 /\ acc[Len(<<>>)] = 0
        /\ 1 .. Len(<<>>) = {}
    BY <2>1
  <2> QED
    BY <2>2 DEF Counted, Adds
<1>10. Expected(j, m, e) - SumFunction(HeldFor(j, m, e)) = 0
  BY <1>4, <1>6
<1> QED
  BY <1>1, <1>8, <1>9, <1>10 DEF ConservedAt, Landing

LEMMA StartOnce == FreshStart => OnceInv
BY StartReaders, StartManagers, StartConserved DEF OnceInv

LEMMA InitStarts == JobsInit => FreshStart
<1> SUFFICES ASSUME JobsInit PROVE FreshStart
  OBVIOUS
<1>1. \A j \in Jobs, m \in Managers : manager[j][m] = "work" /\ backup[j][m] = <<>>
  BY DEF JobsInit, PerManager
<1> QED
  BY <1>1, InitFresh DEF FreshStart, JobsInit

LEMMA RestartStarts ==
  ASSUME JInv, CrashAndRestart
  PROVE  FreshStart'
<1>1. PICK restoring \in BOOLEAN, part \in Parting : RestartWith(restoring, Remains(part))
  BY DEF CrashAndRestart
<1>2. PICK left : left = Remains(part)
  OBVIOUS
<1>3. RestartWith(restoring, left)
  BY <1>1, <1>2
<1>4. /\ restored' = restoring /\ settings' = settings /\ Persisting' = Persisting
      /\ backup' = IF restoring THEN left ELSE PerManager(<<>>)
      /\ \A j \in Jobs, m \in Managers :
           manager'[j][m] = IF restoring /\ j \in Persisting THEN "load" ELSE "work"
  BY <1>3 DEF RestartWith, Persisting, Having
<1>5. Fresh' /\ Init'
  BY <1>3, RestartFresh DEF RestartWith, Init
<1>6. ASSUME NEW j \in Jobs, NEW m \in Managers
      PROVE  /\ manager'[j][m] # "load" => backup'[j][m] = <<>>
             /\ manager'[j][m] = "load" => Restoring(j)'
  <2>1. CASE restoring /\ j \in Persisting
    BY <1>4, <2>1 DEF Restoring
  <2>2. CASE restoring /\ j \notin Persisting
    <3>1. left[j][m] = <<>>
      BY <1>2, <2>2 DEF Remains
    <3> QED
      BY <1>4, <2>2, <3>1
  <2>3. CASE ~restoring
    <3>1. PerManager(<<>>)[j][m] = <<>>
      BY DEF PerManager
    <3> QED
      BY <1>4, <2>3, <3>1
  <2> QED
    BY <2>1, <2>2, <2>3
<1> QED
  BY <1>5, <1>6 DEF FreshStart

LEMMA RestartOnce ==
  ASSUME JInv, CrashAndRestart
  PROVE  OnceInv'
<1>1. FreshStart'
  BY RestartStarts
<1> QED
  BY <1>1, StartOnce, PTL

\* Only the process and its files change, or nothing.
LEMMA FilesOnce ==
  ASSUME JInv, OnceInv,
         UNCHANGED <<ids, reading, created, queue, restored, settings, job, manager, stored, backup>>
  PROVE  OnceInv'
<1>0. Shapes /\ ReadersRight /\ ManagersRight /\ Conserved
  BY DEF JInv, OnceInv
<1>1. UNCHANGED <<reader, kept, batch, announced>>
  BY DEF reading
<1>2. \A j \in Jobs, m \in Managers : \A e : \A n \in Int :
        Landing(j, m, e, n) => Landing(j, m, e, n)'
  BY LandingStays DEF Inserted, Pending
<1>3. ReadersRight' /\ Conserved'
  BY <1>0, <1>1, <1>2, LandedStays
<1>4. ASSUME NEW j \in Jobs, NEW m \in Managers PROVE BackedAt(j, m)' /\ QueueAt(j, m)'
  BY <1>0, BackedStays, QueueStays DEF ManagersRight
<1>5. ASSUME NEW i \in Jobs, job'[i] \in {"stop", "ended"}, Admitted(i)'
      PROVE  announced'[i] = Inserters(i)'
  <2>1. Admitted(i) /\ Inserters(i)' = Inserters(i)
    BY <1>5 DEF Admitted, Inserters
  <2> QED
    BY <1>0, <1>1, <1>5, <2>1 DEF ManagersRight
<1> QED
  BY <1>3, <1>4, <1>5 DEF OnceInv, ManagersRight

(* The readers' and the managers' accounts agree in every behaviour of the *)
(* jobs, across crashes.                                                   *)
THEOREM EdgesAccounted == JobsSpec => []OnceInv
<1>1. JobsInit => OnceInv
  BY InitStarts, StartOnce
<1>2. JInv /\ JInv' /\ OnceInv /\ [JobsNext]_jobsVars => OnceInv'
  <2> SUFFICES ASSUME JInv, JInv', OnceInv, [JobsNext]_jobsVars PROVE OnceInv'
    OBVIOUS
  <2>1. CASE UNCHANGED jobsVars
    <3>1. UNCHANGED <<ids, reading, created, queue, restored, settings, job, manager, stored,
                      backup>>
      BY <2>1 DEF jobsVars, system, managing, files
    <3> QED
      BY <3>1, FilesOnce
  <2>2. CASE JobsNext
    <3>1. process = "up"
      BY <2>2 DEF JobsNext
    <3>2. ASSUME NEW r \in Readers, ReaderStep(r), UNCHANGED <<system, job, managing, files>>
          PROVE  OnceInv'
      <4>1. UNCHANGED <<settings, created>>
        BY <3>2 DEF ReaderStep, Start, AddEdge, AddTranslated, Add, TranslateSource,
           TranslateTarget, Translate, FinishOrWait, Pass, Flush, SendFinal
      <4>2. ReadersLeave
        BY <3>2, <4>1 DEF ReadersLeave
      <4> QED
          BY <3>2, <4>2, ReaderOnce, SMTT(40)
    <3>3. ASSUME NEW j \in Jobs, JobStep(j) PROVE OnceInv'
      BY <3>3, JobOnce
    <3>4. ASSUME NEW j \in Jobs, NEW m \in Managers, ManagerStep(j, m) \/ Write(j, m)
          PROVE  OnceInv'
      BY <3>1, <3>4, ManagerStepOnce
    <3>5. CASE Exit
      <4>1. UNCHANGED <<ids, reading, created, queue, restored, settings, job, manager, stored,
                        backup>>
        BY <3>5 DEF Exit, managing
      <4> QED
        BY <4>1, FilesOnce
    <3> QED
      BY <2>2, <3>2, <3>3, <3>4, <3>5, RestartOnce DEF JobsNext
  <2> QED
    BY <2>1, <2>2
<1> QED
  BY JobsInvariant, <1>1, <1>2, PTL DEF JobsSpec
-------------------------------------------------------------------------------
(* Once a job has ended.                                                     *)
LEMMA ShareOf ==
  ASSUME NEW s \in Nat \ {0}, NEW k \in Nat, NEW i \in 1 .. k * s
  PROVE  \E r \in 1 .. k : (r - 1) * s + 1 <= i /\ i <= r * s
<1> DEFINE q == (i - 1) \div s
<1>1. i - 1 \in Nat
  <2>1. \A n \in Nat : \A x \in 1 .. n : x - 1 \in Nat
    OBVIOUS
  <2>2. k * s \in Nat
    OBVIOUS
  <2> QED
    BY <2>1, <2>2
<1>2. \A a \in Nat : a \div s \in Nat /\ (a \div s) * s <= a /\ a < (a \div s + 1) * s
  BY Z3
<1>3. q \in Nat /\ q * s <= i - 1 /\ i - 1 < (q + 1) * s
  BY <1>1, <1>2
<1> HIDE DEF q
<1>4. i \in Nat /\ i <= k * s /\ q * s < k * s
  <2>1. k * s \in Nat /\ q * s \in Nat
    BY <1>3
  <2> QED
    BY <1>3, <2>1
<1>5. q < k
  BY <1>3, <1>4, Z3
<1>6. /\ q + 1 \in 1 .. k /\ (q + 1) - 1 = q
      /\ q * s + 1 <= i /\ i <= (q + 1) * s
  <2>1. q * s \in Nat /\ (q + 1) * s \in Nat
    BY <1>3
  <2> QED
    BY <1>3, <1>4, <1>5, <2>1
<1> QED
  BY <1>6

\* The shares of the readers that run are what is due.
LEMMA SharesCover ==
  ASSUME SettingsGood, NEW j \in Jobs, Admitted(j)
  PROVE  /\ Due(j) \subseteq DOMAIN Input
         /\ \A i \in DOMAIN Input :
              i \in Due(j) <=> \E r \in 1 .. Inserters(j) : i \in StartId(r) .. EndId(r)
<1>1. PICK n, l, s, k : n = ReaderCount /\ l = Len(Input) /\ s = Share /\ k = Inserters(j)
  OBVIOUS
<1>2. /\ n \in Nat /\ n > 0 /\ l \in Nat /\ DOMAIN Input = 1 .. l /\ k \in 1 .. n
      /\ Readers = 1 .. n
  BY <1>1, ReaderNumbers, AcceptedSettings, JobsAssumption
<1>3. s = l \div n
  BY <1>1 DEF Share
<1>4. s \in Nat /\ n * s <= l
  BY <1>2, <1>3, Z3
<1>5. \A r : StartId(r) = (r - 1) * s + 1 /\ EndId(r) = IF r = n THEN l ELSE r * s
  BY <1>1 DEF StartId, EndId
<1>6. Due(j) = 1 .. IF k = n THEN l ELSE k * s
  BY <1>1 DEF Due
<1>7. k * s \in Nat /\ k * s <= l /\ k \in Nat
  <2>1. k \in Nat /\ k <= n
    BY <1>2
  <2>2. k * s <= n * s /\ k * s \in Nat /\ n * s \in Nat
    BY <1>2, <1>4, <2>1, Z3
  <2> QED
    BY <1>2, <1>4, <2>1, <2>2
<1>8. Due(j) \subseteq DOMAIN Input
  BY <1>2, <1>6, <1>7
<1>9. ASSUME NEW r \in 1 .. k, NEW i \in StartId(r) .. EndId(r) PROVE i \in Due(j)
  <2>1. r \in Nat /\ r >= 1 /\ r <= k /\ r \in 1 .. n
    BY <1>2, <1>7
  <2>2. (r - 1) * s \in Nat /\ r * s \in Nat /\ r * s <= k * s
    BY <1>4, <1>7, <2>1, Z3
  <2>3. CASE r = n
    <3>1. k = n
      BY <1>2, <2>1, <2>3
    <3>2. i \in (r - 1) * s + 1 .. l
      BY <1>5, <2>3
    <3> QED
      BY <1>2, <1>6, <2>2, <3>1, <3>2
  <2>4. CASE r # n
    <3>1. i \in (r - 1) * s + 1 .. r * s
      BY <1>5, <2>4
    <3>2. i \in 1 .. k * s /\ i \in 1 .. l
      BY <1>2, <1>7, <2>2, <3>1
    <3> QED
      BY <1>6, <3>2
  <2> QED
    BY <2>3, <2>4
<1>10. ASSUME NEW i \in Due(j) PROVE \E r \in 1 .. k : i \in StartId(r) .. EndId(r)
  <2>1. i \in Nat /\ i >= 1 /\ i <= l /\ (k = n \/ i <= k * s)
    BY <1>2, <1>6, <1>7
  <2>2. CASE i <= k * s
    <3>1. s # 0
      <4>1. k * 0 = 0
        BY <1>7
      <4> QED
        BY <2>1, <2>2, <4>1
    <3>2. PICK r \in 1 .. k : (r - 1) * s + 1 <= i /\ i <= r * s
      <4>1. i \in 1 .. k * s
        BY <1>7, <2>1, <2>2
      <4>2. s \in Nat \ {0} /\ k \in Nat
        BY <1>4, <1>7, <3>1
      <4> QED
        BY <4>1, <4>2, ShareOf
    <3>3. r \in Int /\ (r - 1) * s + 1 \in Int /\ r * s \in Int
      BY <1>4, <1>7
    <3>4. i \in StartId(r) .. EndId(r)
      BY <1>2, <1>5, <2>1, <3>2, <3>3
    <3> QED
      BY <3>4
  <2>3. CASE ~(i <= k * s)
    <3>1. k = n /\ n \in 1 .. k
      BY <1>2, <2>1, <2>3
    <3>2. (n - 1) * s \in Int /\ (n - 1) * s + 1 <= i
      <4>1. n * s \in Int /\ (n - 1) * s \in Int /\ (n - 1) * s <= n * s
        BY <1>2, <1>4, Z3
      <4> QED
        BY <2>1, <2>3, <3>1, <4>1
    <3>3. i \in StartId(n) .. EndId(n)
      BY <1>2, <1>5, <2>1, <3>2
    <3> QED
      BY <3>1, <3>3
  <2> QED
    BY <2>2, <2>3
<1>11. \A i : i \in Due(j) <=> \E r \in 1 .. k : i \in StartId(r) .. EndId(r)
  BY <1>9, <1>10
<1> QED
  BY <1>1, <1>8, <1>11

LEMMA AllHanded ==
  ASSUME Shapes, ReadersRight, ManagersRight, NEW j \in Jobs, Admitted(j),
         job[j] \in {"stop", "ended"}
  PROVE  /\ HandedTo(j) = Due(j) /\ Due(j) \subseteq DOMAIN Input
         /\ \A r \in Readers : batch[r][j] = NoEdges /\ kept[r][j] = <<>>
<1>1. ThroughWith(j) = 1 .. Inserters(j)
  BY AllThrough
<1>2. /\ Due(j) \subseteq DOMAIN Input
      /\ \A i \in DOMAIN Input :
           i \in Due(j) <=> \E r \in 1 .. Inserters(j) : i \in StartId(r) .. EndId(r)
  BY SharesCover DEF Shapes
<1>3. \A r \in Readers : At(r, "wait") \/ Through(reader[r], j)
  BY NotStopped
<1>4. \A r \in ThroughWith(j) :
        r \in Readers /\ Through(reader[r], j) /\ ~At(r, "wait") /\ reader[r].at \notin Reading
  BY DEF ThroughWith, Through, At, Reading
<1>5. ASSUME NEW i \in DOMAIN Input PROVE Handed(i, j) <=> i \in Due(j)
  <2>1. ASSUME NEW r \in Readers, HandedBy(reader[r], r, i, j) PROVE i \in Due(j)
    <3>1. ~At(r, "wait") /\ i \in StartId(r) .. EndId(r)
      BY <2>1 DEF HandedBy, At
    <3>2. r \in ThroughWith(j)
      BY <1>3, <3>1 DEF ThroughWith
    <3> QED
      BY <1>1, <1>2, <3>1, <3>2
  <2>2. ASSUME i \in Due(j) PROVE Handed(i, j)
    <3>1. PICK r \in ThroughWith(j) : i \in StartId(r) .. EndId(r)
      BY <1>1, <1>2, <2>2
    <3>2. r \in Readers /\ HandedBy(reader[r], r, i, j)
      BY <1>4, <3>1 DEF HandedBy, At
    <3> QED
      BY <3>2 DEF Handed
  <2> QED
    BY <2>1, <2>2 DEF Handed
<1>6. HandedTo(j) = Due(j)
  BY <1>2, <1>5 DEF HandedTo
<1>7. \A r \in Readers : batch[r][j] = NoEdges /\ kept[r][j] = <<>>
  BY <1>3 DEF ReadersRight, EmptyHanded, At
<1> QED
  BY <1>2, <1>6, <1>7

\* What the managers have got, once they have stopped.
LEMMA AllInserted ==
  ASSUME JInv, OnceInv, NEW j \in Jobs, Admitted(j), job[j] = "ended", NEW m \in Managers,
         NEW e \in Int \X Int
  PROVE  Copies(Inserted(j, m), e) = Expected(j, m, e)
<1>0. Shapes /\ ReadersRight /\ ManagersRight /\ Conserved
  BY DEF JInv, OnceInv
<1>1. manager[j][m] = "stopped" /\ queue[j][m] = <<Shutdown>>
  BY <1>0 DEF ManagersRight, QueueAt
<1>2. ConservedAt(j, m, e)
  BY <1>0 DEF Conserved
<1>3. SumFunction(HeldFor(j, m, e)) = 0
  <2>1. \A r \in Readers : HeldFor(j, m, e)[r] = 0
    <3> SUFFICES ASSUME NEW r \in Readers PROVE HeldFor(j, m, e)[r] = 0
      OBVIOUS
    <3>1. batch[r][j].edges[m] = <<>> /\ kept[r][j] = <<>>
      BY <1>0, AllHanded DEF NoEdges
    <3>2. Copies(<<>>, e) = 0
      BY CopiesNone
    <3> QED
      BY <3>1, <3>2 DEF HeldFor, Held, HeldIn
  <2>2. IsFiniteSet(Readers) /\ HeldFor(j, m, e) \in [Readers -> Int]
    BY <1>0, HeldInt
  <2> QED
    BY <2>1, <2>2, SumZero
<1>4. Expected(j, m, e) - SumFunction(HeldFor(j, m, e)) = Expected(j, m, e)
  BY <1>3, ExpectedInt
<1>5. PICK c : c = Copies(Inserted(j, m), e) /\ c \in Int
  BY <1>0, <1>1, InsertedKnown
<1>6. Copies(Inserted(j, m), e) - Copies(Pending(j, m), e) = c
  <2>1. Copies(Pending(j, m), e) = 0
    BY <1>1, CopiesNone DEF Pending
  <2> QED
    BY <1>5, <2>1
<1>7. Counted(<<Shutdown>>, c, e, Expected(j, m, e))
  BY <1>1, <1>2, <1>4, <1>6 DEF ConservedAt, Landing
<1>8. PICK acc \in [0 .. Len(<<Shutdown>>) -> Int] :
        Adds(acc, <<Shutdown>>, c, e) /\ acc[Len(<<Shutdown>>)] = Expected(j, m, e)
  BY <1>7 DEF Counted
<1>9. Len(<<Shutdown>>) = 1 /\ <<Shutdown>>[1] = Shutdown /\ Copies(Shutdown, e) = 0
  BY CopiesNone DEF Shutdown
<1>10. acc[0] = c /\ acc[1] = acc[1 - 1] + 0 /\ acc[1] = Expected(j, m, e)
  BY <1>8, <1>9 DEF Adds
<1> QED
  BY <1>5, <1>10

(* When a job ends, its managers have inserted every edge of the input     *)
(* that it has providers for exactly once in this process, each edge at    *)
(* its manager and behind what was read back: however the threads          *)
(* interleave, and in every process after a crash.                         *)
THEOREM EdgesInsertedOnce == JobsSpec => []InputInsertedOnce
<1>1. JInv /\ OnceInv => InputInsertedOnce
  <2> SUFFICES ASSUME JInv, OnceInv, NEW j \in Jobs, NEW m \in Managers,
                      JobAt(j, "ended"), settings[j].outcome = "accepted"
               PROVE  LET new == [i \in Due(j) |-> Image(j, Input[i])]
                      IN  /\ IsPrefix(backup[j][m], stored[j][m])
                          /\ \A edge \in ToSet(Inserted(j, m)) : ManagerOf(j, edge) = m
                          /\ \A edge \in ToSet(new) : ManagerOf(j, edge) = m =>
                               Copies(Inserted(j, m), edge) = Copies(new, edge)
    BY DEF InputInsertedOnce
  <2> DEFINE new == [i \in Due(j) |-> Image(j, Input[i])]
  <2>1. Admitted(j) /\ job[j] = "ended" /\ Shapes /\ ReadersRight /\ ManagersRight /\ TypeOK
    BY DEF Admitted, JobAt, JInv, IInv, OnceInv
  <2>2. HandedTo(j) = Due(j) /\ Due(j) \subseteq DOMAIN Input
    BY <2>1, AllHanded
  <2>3. manager[j][m] = "stopped"
    BY <2>1 DEF ManagersRight, QueueAt
  <2>4. BackedAt(j, m) /\ Inserted(j, m) \in Seq(Int \X Int)
    BY <2>1, <2>3, InsertedKnown DEF Edges
  <2>5. IsPrefix(backup[j][m], stored[j][m])
    BY <2>3, <2>4 DEF BackedAt
  <2>6. ASSUME NEW edge \in ToSet(Inserted(j, m)) PROVE ManagerOf(j, edge) = m
    <3>1. PICK s : s = Inserted(j, m) /\ s \in Seq(Int \X Int)
      BY <2>4
    <3>2. edge \in Int \X Int /\ Spots(s, edge) # {}
      BY <2>6, <3>1 DEF ToSet, Spots
    <3>3. Copies(s, edge) # 0
      BY <3>1, <3>2, SpotsFinite, FS_EmptySet
    <3>4. Expected(j, m, edge) # 0
      BY <2>1, <3>1, <3>2, <3>3, AllInserted
    <3> QED
      BY <3>4 DEF Expected
  <2>7. ASSUME NEW edge \in ToSet(new), ManagerOf(j, edge) = m
        PROVE  Copies(Inserted(j, m), edge) = Copies(new, edge)
    <3>1. PICK i \in Due(j) : edge = Image(j, Input[i])
      BY <2>7 DEF ToSet
    <3>2. edge \in Int \X Int
      <4>1. /\ Input[i][1] \in Originals /\ Input[i][2] \in Originals
            /\ Input[i] \in Int \X Int
        BY <2>2, InputEdge
      <4>2. translations[Input[i][1]] \in Int /\ translations[Input[i][2]] \in Int
        BY <2>1, <4>1 DEF TypeOK, NoId
      <4> QED
        BY <3>1, <4>1, <4>2 DEF Image
    <3>3. Copies(Inserted(j, m), edge) = Cardinality(Become(j, edge))
      BY <2>1, <2>7, <3>2, AllInserted DEF Expected
    <3>4. {k \in DOMAIN new : new[k] = edge} = Become(j, edge)
      BY <2>2 DEF Become
    <3> QED
      BY <3>3, <3>4 DEF Copies
  <2> QED
    BY <2>5, <2>6, <2>7
<1> QED
  BY JobsInvariant, EdgesAccounted, <1>1, PTL
===============================================================================
