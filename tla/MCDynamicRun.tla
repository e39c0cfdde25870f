----------------------------- MODULE MCDynamicRun -----------------------------
\* The instances TLC checks DynamicRun on.
EXTENDS DynamicRun

MCVertices == 0 .. 3
\* Two ways to 2, a cycle, and a chain of three hops from 0.
MCEdges == {<<0, 1>>, <<1, 2>>, <<3, 2>>, <<2, 1>>, <<2, 3>>}
MCWeight == [e \in MCEdges |-> IF e[1] < e[2] THEN e[1] + 1 ELSE 3]

Both == {"m1", "m2"}
One == {"m1"}
Labels == {"cc", "bfs", "sssp", "sswp"}
Asyncs == {"cc-async", "bfs-async"}
Executors(n) == {"x1", "x2"} \ IF n = 1 THEN {"x2"} ELSE {}
WithExecutors(n, algos, adaptive, api, eager, delete, managers) ==
  {[algo |-> a, adaptive |-> adaptive, api |-> api, eager |-> eager,
    delete |-> delete, managers |-> managers, executors |-> Executors(n)] : a \in algos}
Scenario(algos, adaptive, api, eager, delete, managers) ==
  WithExecutors(1, algos, adaptive, api, eager, delete, managers)

LabelScenarios == UNION {
  \* every edge in every iteration, two managers at once
  Scenario(Labels \union Asyncs, FALSE, TRUE, TRUE, FALSE, Both),
  \* two executors whose marks overwrite each other
  WithExecutors(2, Asyncs, FALSE, TRUE, TRUE, FALSE, One),
  \* active edges only: nothing marked, marked by one manager, or by two
  Scenario(Labels \union Asyncs, TRUE, FALSE, TRUE, FALSE, One),
  Scenario(Labels, TRUE, TRUE, FALSE, FALSE, One),
  Scenario(Asyncs, TRUE, TRUE, TRUE, FALSE, One),
  Scenario({"cc"}, TRUE, TRUE, FALSE, FALSE, Both),
  Scenario({"cc-async"}, TRUE, TRUE, TRUE, FALSE, Both),
  \* deletions
  Scenario(Labels \union Asyncs, TRUE, TRUE, TRUE, TRUE, One)}
RankScenarios == UNION {
  Scenario({"pagerank", "pagerank-delta"}, FALSE, TRUE, FALSE, FALSE, Both),
  Scenario({"pagerank-delta"}, TRUE, TRUE, FALSE, FALSE, Both),
  Scenario({"pagerank-delta"}, TRUE, FALSE, TRUE, FALSE, One),
  Scenario({"pagerank", "pagerank-delta"}, FALSE, TRUE, TRUE, TRUE, One),
  Scenario({"pagerank-delta"}, TRUE, TRUE, TRUE, TRUE, One)}
AllScenarios == LabelScenarios \union RankScenarios

\* A second run without the edge API.
AfreshScenarios == Scenario({"pagerank-delta"}, FALSE, FALSE, TRUE, FALSE, One)

\* Programs whose marks the exchange turns off.
MarkScenarios == Scenario({"cc", "bfs"}, TRUE, TRUE, TRUE, FALSE, One)
================================================================================
