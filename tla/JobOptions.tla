------------------------------- MODULE JobOptions -------------------------------
(***************************************************************************)
(* The command line: 40 options for each job, one job after another.  Each *)
(* job looks its numbers and flags up by name, but takes the values of its *)
(* names and paths from fixed places of argv, those of the order in which  *)
(* the scripts write the options.  The edge readers go by the first job.   *)
(*                                                                         *)
(* A line is a sequence of options [name, value].  A value is a number, or *)
(* a text in lower case.                                                   *)
(***************************************************************************)
EXTENDS Integers, Sequences

(* The options in the order of the scripts. *)
Order == <<
  "max-vertices", "vertices-per-tile", "batch-insertion-count",
  "meta-tile-manager-count", "count-edges", "edge-inserters-count",
  "use-dynamic-compaction", "count-parallel-compaction", "enable-edge-apis",
  "count-algorithm-executors", "algorithm-tile-batching", "algorithm-iterations",
  "path-perf-events", "enable-perf-event-collection",
  "enable-static-algorithm-before-compaction",
  "enable-static-algorithm-after-compaction", "enable-rewrite-ids", "traversal",
  "generator", "binary-input-file", "algorithm", "deletion-percentage",
  "enable-interactive-algorithm", "enable-lazy-algorithm",
  "count-algorithm-appliers", "enable-adaptive-scheduling",
  "tile-distribution-strategy", "path-to-edges-output", "enable-writing-edges",
  "enable-in-memory-ingestion", "td-count-meta-tiles-per-dimension",
  "algo-start-id", "enable-reading-edges", "path-to-edges-input",
  "enable-algorithm-reexecution", "path-to-results", "enable-write-results",
  "delta", "start-algorithm-count", "output-detailed-tile-stats">>

PerJob == Len(Order)   \* NUM_OF_ARGS counts the words, two for an option

(* A rest of the line too short for a job is reported and ignored.         *)
JobsOf(line) == (Len(line) \div PerJob) % 256

LineOf(line, j) == SubSeq(line, (j - 1) * PerJob + 1, j * PerJob)
-------------------------------------------------------------------------------
(* One job: part is its part of the line. *)

(* notify: all options are required.  What it throws nobody catches.       *)
Complete(part) == \A name \in {Order[i] : i \in 1 .. PerJob} :
  \E i \in DOMAIN part : part[i].name = name

Given(part, name) ==
  part[CHOOSE i \in DOMAIN part : part[i].name = name].value

(* The counts of threads are kept in a byte. *)
Count(part, name) == Given(part, name) % 256

(* "1" alone switches something on. *)
Flag(part, name) == Given(part, name) = 1

(* argv[36] and so on: the value at the place the option has in Order.     *)
AtPlace(part, name) == part[CHOOSE i \in 1 .. PerJob : Order[i] = name].value

Accepting == [
  traversal |-> {"hilbert", "row-first", "column-first"},
  generator |-> {"rmat", "binary"},
  distribution |-> {"tile-distributor", "atomics", "static"}]

(* Otherwise parseOption returns an error, and execute returns at once.    *)
Accepted(part) ==
  /\ AtPlace(part, "traversal") \in Accepting.traversal
  /\ AtPlace(part, "generator") \in Accepting.generator
  /\ AtPlace(part, "tile-distribution-strategy") \in Accepting.distribution

(* What the ingestion of a job goes by. *)
Settings(part) ==
  IF ~Complete(part) THEN [outcome |-> "throws"]
  ELSE IF ~Accepted(part) THEN [outcome |-> "refused"]
  ELSE [outcome |-> "accepted",
        inserters |-> Count(part, "edge-inserters-count"),
        batch |-> Given(part, "batch-insertion-count"),
        tile |-> Given(part, "vertices-per-tile"),
        managers |-> Count(part, "meta-tile-manager-count"),
        rewriting |-> Flag(part, "enable-rewrite-ids"),
        inMemory |-> Flag(part, "enable-in-memory-ingestion"),
        writing |-> Flag(part, "enable-writing-edges"),
        output |-> AtPlace(part, "path-to-edges-output"),
        input |-> AtPlace(part, "path-to-edges-input")]

(* Jobs::parse_options: how many edge readers there are. *)
ReadersOf(line) == Count(LineOf(line, 1), "edge-inserters-count")
===============================================================================
