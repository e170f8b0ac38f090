------------------------------ MODULE RoutingFW ------------------------------
(***************************************************************************)
(* routing_dynamic: each switch process writes the link costs of its       *)
(* switches into an adjacency table (one row per switch) in a Tasvir area; *)
(* the controller reads all rows, runs an in-place Floyd-Warshall over     *)
(* them and publishes one forwarding row (next hop, cost) per switch.      *)
(* A switch's round is its write loop and the tasvir_service() that        *)
(* publishes it; the controller reads its replica only between its own     *)
(* tasvir_service() calls, so each round is one atomic step.              *)
(***************************************************************************)
EXTENDS Integers, FiniteSetsExt

CONSTANTS
  NumProcs,  \* args->switch_cnt: nr_thread - 1 switch processes
  Sub,       \* args->subthread_cnt: switches per process
  Costs      \* the link costs fast_random() % 10 + 1 can produce

ASSUME NumProcs \in Nat \ {0} /\ Sub \in Nat \ {0}
ASSUME Costs \subseteq 1..10 /\ Costs # {}

N   == NumProcs * Sub        \* switch_cnt as both loops compute it
Sw  == 0..N-1                \* switch and table indices
Procs == 1..NumProcs         \* switch process ids (tid 0 is the controller)

Link(to, cost) == [to |-> to, cost |-> cost]
ZeroRow == [j \in Sw |-> Link(0, 0)]

\* Variant that numbers a process's tables from id instead of id - 1.
TablesOfFromId(s) == {s * Sub + n : n \in 0..Sub-1}

\* The tables a switch process writes: table_id = (id - 1) * subthread_cnt + n.
TablesOf(s) == {(s - 1) * Sub + n : n \in 0..Sub-1}

VARIABLES
  adj,      \* adj[t][j]: table_t's Link to switch j, as the controller sees it
  written,  \* tables some switch round has written
  fwd,      \* fwd[i][j]: forward_table_i's Link for destination j
  fresh     \* no switch round since the controller's last round

vars == <<adj, written, fwd, fresh>>

-----------------------------------------------------------------------------
(* The controller's computation.                                          *)

\* Variant that records the last hop k -> j instead of the first.
RelaxLastHop(t, k, i, j) ==
  IF t[i][j].cost > t[i][k].cost + t[k][j].cost
  THEN Link(t[k][j].to, t[i][k].cost + t[k][j].cost)
  ELSE t[i][j]

\* The body of the triple loop: table[i][j] relaxed through k.
Relax(t, k, i, j) ==
  IF t[i][j].cost > t[i][k].cost + t[k][j].cost
  THEN Link(t[i][k].to, t[i][k].cost + t[k][j].cost)
  ELSE t[i][j]

\* The loops for k, for i, for j, updating table in place.  Within one k
\* the loops never change row k or column k (table[i][k] is lowered only
\* if table[k][k].cost < 0, and costs are unsigned sums of at most 10), so
\* the pass for k equals relaxing every pair against the table before it.
RECURSIVE FloydWarshallShort(_, _)
\* Variant whose k loop stops one short (k < switch_cnt - 1).
FloydWarshallShort(t, k) ==
  IF k = N - 1 THEN t
  ELSE FloydWarshallShort([i \in Sw |-> [j \in Sw |-> Relax(t, k, i, j)]], k + 1)

RECURSIVE FloydWarshall(_, _)
FloydWarshall(t, k) ==
  IF k = N THEN t
  ELSE FloydWarshall([i \in Sw |-> [j \in Sw |-> Relax(t, k, i, j)]], k + 1)

Init ==
  \* create_*_table(): the areas, of which memset clears the first Link
  /\ adj     = [t \in Sw |-> ZeroRow]
  /\ written = {}
  /\ fwd     = [i \in Sw |-> ZeroRow]
  /\ fresh   = FALSE

\* run_switch's round: for each of its tables, the link to switch i is
\* (i, 0) when i == args->id and (i, fast_random() % 10 + 1) otherwise.
SwitchRound(s) ==
  \E c \in [TablesOf(s) \X Sw -> Costs] :
    /\ adj' = [t \in Sw |->
                IF t \in TablesOf(s)
                THEN [i \in Sw |-> IF i = s THEN Link(i, 0)
                                             ELSE Link(i, c[t, i])]
                ELSE adj[t]]
    /\ written' = written \cup TablesOf(s)
    /\ fresh' = FALSE
    /\ UNCHANGED fwd

\* run_controller's round: copy the rows into table, run the triple loop,
\* write every forwarding row.
ControllerRound ==
  /\ fwd'   = FloydWarshall(adj, 0)
  /\ fresh' = TRUE
  /\ UNCHANGED <<adj, written>>

Next == ControllerRound \/ \E s \in Procs : SwitchRound(s)

Spec == Init /\ [][Next]_vars

-----------------------------------------------------------------------------
(* Reference: the cheapest walk of 1..h links, by Bellman-Ford rounds.    *)

RECURSIVE Dist(_, _)
Dist(a, h) ==
  IF h = 1 THEN [i \in Sw |-> [j \in Sw |-> a[i][j].cost]]
  ELSE LET d == Dist(a, h - 1)
       IN [i \in Sw |-> [j \in Sw |->
             Min({d[i][j]} \cup {a[i][m].cost + d[m][j] : m \in Sw})]]

\* Costs are non-negative, so no cheapest walk needs more than N links.
Shortest(a) == Dist(a, N)

RoutingTypeOK ==
  /\ adj \in [Sw -> [Sw -> [to : Sw, cost : 0..10]]]
  /\ written \subseteq Sw
  /\ fwd \in [Sw -> [Sw -> [to : Sw, cost : 0..10 * N]]]
  /\ fresh \in BOOLEAN

\* A step that publishes forwarding tables from a complete adjacency.
Published == fresh' /\ written = Sw

\* Once every switch has reported, each published cost is the cost of the
\* cheapest route in the adjacency the controller read (the in-place
\* triple loop of run_controller is Floyd-Warshall).
FwdCostIsShortest ==
  [][Published =>
       LET sp == Shortest(adj) IN \A i, j \in Sw : fwd'[i][j].cost = sp[i][j]
    ]_vars

\* The published next hop of i towards j starts a cheapest route: its link
\* from i plus the cheapest cost on from it (0 when it is j) is the route's
\* cost.  table[i][j].to = table[i][k].to must carry the first hop.
FwdNextHopOnShortestPath ==
  [][Published =>
       LET sp == Shortest(adj) IN
       \A i, j \in Sw :
         LET h == fwd'[i][j].to
         IN adj[i][h].cost + (IF h = j THEN 0 ELSE sp[h][j]) = sp[i][j]
    ]_vars

\* No action reads fwd (the switches only print it), and what a controller
\* round publishes depends on adj alone.
MCView == <<adj, written, fresh>>

=============================================================================
