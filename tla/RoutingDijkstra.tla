--------------------------- MODULE RoutingDijkstra ---------------------------
(***************************************************************************)
(* routing_dijkstra: each switch writes NEIGHBOR_PER_SWITCH links (to,     *)
(* cost) to random other switches; the controller runs, from every source, *)
(* a Dijkstra with a priority queue and lazy deletion over the links it    *)
(* read, and publishes a (first hop, cost) row per switch.  Unreached      *)
(* entries keep the 0xFFFFFFFF of the memset.  The controller's copy of   *)
(* the adjacency changes only at its own tasvir_service(), which it does   *)
(* not call during a computation, so switch rounds happen while it is     *)
(* idle; the steps of one computation are the loop iterations.            *)
(***************************************************************************)
EXTENDS Integers, FiniteSetsExt, Bags, BagsExt

CONSTANTS
  NumProcs,  \* args->process_cnt: nr_thread - 1 switch processes
  Sub,       \* args->subthread_cnt: switches per process
  NPS,       \* NEIGHBOR_PER_SWITCH
  Costs      \* the link costs fast_random() % 10 + 1 can produce

ASSUME NumProcs \in Nat \ {0} /\ Sub \in Nat \ {0} /\ NPS \in Nat \ {0}
ASSUME Costs \subseteq 1..10 /\ Costs # {}

N     == NumProcs * Sub
Sw    == 0..N-1
Procs == 1..NumProcs
Nbr   == 0..NPS-1

\* Stands for 0xFFFFFFFF (TLC's integers are 32-bit signed): the code
\* needs only that it exceeds every total, at most 10 per link of a route.
Inf == 1000
ASSUME 10 * N * N < Inf

Link(to, cost) == [to |-> to, cost |-> cost]
Hop(to, first, total) == [to |-> to, first |-> first, total |-> total]

\* Variant that numbers a process's tables from id instead of id - 1.
TablesOfFromId(s) == {s * Sub + n : n \in 0..Sub-1}

\* The tables a switch process writes: table_id = (id - 1) * subthread_cnt + n.
TablesOf(s) == {(s - 1) * Sub + n : n \in 0..Sub-1}

VARIABLES
  adj,      \* adj[t][n]: the n-th link of switch t, as the controller sees it
  written,  \* switches some round has written
  pc,       \* "idle" or "run"
  src,      \* the source i of the running Dijkstra
  next,     \* the priority queue, a bag of NextHop records
  table,    \* table[i][j]: Forward (to, cost)
  fwd       \* the published forwarding rows

vars == <<adj, written, pc, src, next, table, fwd>>

\* Variant that leaves the diagonal at 0xFFFFFFFF.
InitTableNoDiag == [i \in Sw |-> [j \in Sw |-> Link(Inf, Inf)]]

\* memset(table, 0xFF, ...) then table[i][i] = (i, 0).
InitTable == [i \in Sw |-> [j \in Sw |->
                IF i = j THEN Link(i, 0) ELSE Link(Inf, Inf)]]

\* What one push adds, for link k: a source's own link (its to is the
\* first hop), or a link of the popped hop's switch (first hop kept).
SourceHop(i, k) == Hop(adj[i][k].to, adj[i][k].to, adj[i][k].cost)
\* Variant that pushes next_adj[k].to as the first hop.
NextHopOfLastHop(hop, k) ==
  Hop(adj[hop.to][k].to, adj[hop.to][k].to, hop.total + adj[hop.to][k].cost)
NextHopOf(hop, k) ==
  Hop(adj[hop.to][k].to, hop.first, hop.total + adj[hop.to][k].cost)

\* The bag of the NPS pushes of a for loop over the links: two links with
\* the same to and cost push equal records.
\* f[k] is the record pushed for link k.
Pushes(f) == [h \in {f[k] : k \in Nbr} |-> Cardinality({k \in Nbr : f[k] = h})]

Init ==
  /\ adj     = [t \in Sw |-> [n \in Nbr |-> Link(0, 0)]]
  /\ written = {}
  /\ pc      = "idle"
  /\ src     = 0
  /\ next    = EmptyBag
  /\ table   = InitTable
  /\ fwd     = InitTable

\* run_switch's round: each link gets a random to other than table_id
\* (the do-while) and a random cost.
SwitchRound(s) ==
  /\ pc = "idle"
  /\ \E to \in [TablesOf(s) \X Nbr -> Sw], c \in [TablesOf(s) \X Nbr -> Costs] :
       /\ \A t \in TablesOf(s), n \in Nbr : to[t, n] # t
       /\ adj' = [t \in Sw |-> IF t \in TablesOf(s)
                              THEN [n \in Nbr |-> Link(to[t, n], c[t, n])]
                              ELSE adj[t]]
  /\ written' = written \cup TablesOf(s)
  /\ UNCHANGED <<pc, src, next, table, fwd>>

\* The controller's round starts: a fresh table, source 0's pushes.
Start ==
  /\ pc = "idle"
  /\ pc'    = "run"
  /\ src'   = 0
  /\ table' = InitTable
  /\ next'  = Pushes([k \in Nbr |-> SourceHop(0, k)])
  /\ UNCHANGED <<adj, written, fwd>>

\* One iteration of while (!next.empty()): pop a cheapest hop; if it
\* improves table[i][cur], record it and push cur's links.
Pop ==
  /\ pc = "run"
  /\ next # EmptyBag
  /\ \E hop \in BagToSet(next) :
       /\ \A h \in BagToSet(next) : hop.total <= h.total
       /\ IF table[src][hop.to].cost > hop.total
          THEN /\ table' = [table EXCEPT ![src][hop.to] =
                                           Link(hop.first, hop.total)]
               /\ next' = BagRemove(next, hop) (+) Pushes([k \in Nbr |-> NextHopOf(hop, k)])
          ELSE /\ next' = BagRemove(next, hop)
               /\ UNCHANGED table
  /\ UNCHANGED <<adj, written, pc, src, fwd>>

\* The queue is empty: on to the next source, or publish every row.
NextSource ==
  /\ pc = "run"
  /\ next = EmptyBag
  /\ src < N - 1
  /\ src' = src + 1
  /\ next' = Pushes([k \in Nbr |-> SourceHop(src + 1, k)])
  /\ UNCHANGED <<adj, written, pc, table, fwd>>

Publish ==
  /\ pc = "run"
  /\ next = EmptyBag
  /\ src = N - 1
  /\ fwd' = table
  /\ pc'  = "idle"
  /\ UNCHANGED <<adj, written, src, next, table>>

Next ==
  \/ \E s \in Procs : SwitchRound(s)
  \/ Start \/ Pop \/ NextSource \/ Publish

Spec == Init /\ [][Next]_vars

-----------------------------------------------------------------------------
(* Reference: the cheapest walk of at most h links, Bellman-Ford rounds.  *)

Plus(c, d) == IF d = Inf THEN Inf ELSE c + d

RECURSIVE RefDist(_, _)
RefDist(a, h) ==
  IF h = 0 THEN [i \in Sw |-> [j \in Sw |-> IF i = j THEN 0 ELSE Inf]]
  ELSE LET d == RefDist(a, h - 1)
       IN [i \in Sw |-> [j \in Sw |->
             Min({d[i][j]} \cup
                     {Plus(a[i][n].cost, d[a[i][n].to][j]) : n \in Nbr})]]

\* Costs are positive, so a cheapest walk is a path of at most N - 1 links.
Shortest(a) == RefDist(a, N - 1)

DijkstraTypeOK ==
  /\ adj \in [Sw -> [Nbr -> [to : Sw, cost : {0} \cup Costs]]]
  /\ written \subseteq Sw
  /\ pc \in {"idle", "run"} /\ src \in Sw
  /\ IsABag(next) /\ BagToSet(next) \subseteq [to : Sw, first : Sw, total : 0..10 * N * N]
  /\ table \in [Sw -> [Sw -> [to : Sw \cup {Inf}, cost : 0..10 * N \cup {Inf}]]]

\* A step that publishes the rows of a computation over links every switch
\* has written.
Published == pc = "run" /\ pc' = "idle" /\ written = Sw

\* Every published cost is the cost of the cheapest route over the links,
\* and 0xFFFFFFFF exactly when there is none.
DijkstraCostIsShortest ==
  [][Published =>
       LET sp == Shortest(adj) IN \A i, j \in Sw : fwd'[i][j].cost = sp[i][j]
    ]_vars

\* The published first hop of a reachable destination is the end of a link
\* of the source that starts a cheapest route (first_hop is carried from
\* the source's own pushes through every later push).
DijkstraFirstHopOnShortestPath ==
  [][Published =>
       LET sp == Shortest(adj) IN
       \A i, j \in Sw : i # j /\ sp[i][j] # Inf =>
         \E n \in Nbr :
           /\ adj[i][n].to = fwd'[i][j].to
           /\ Plus(adj[i][n].cost,
                   IF adj[i][n].to = j THEN 0 ELSE sp[adj[i][n].to][j]) = sp[i][j]
    ]_vars

\* No action reads fwd, and Publish writes it from table; while idle no
\* action reads table or src before Start overwrites them.
MCView == <<adj, written, pc, next,
            IF pc = "idle" THEN <<>> ELSE <<src, table>>>>

=============================================================================
