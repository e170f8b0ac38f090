------------------------------- MODULE Monitor -------------------------------
(***************************************************************************)
(* The monitor application: each monitor process counts the packets it    *)
(* sees in its statistics area and the assets (IP addresses) and TCP      *)
(* connections in two tables of its own; the controller process reads all *)
(* monitors' areas through its Tasvir replicas once a second, replaces    *)
(* the global packet count by their sum and merges the tables into global *)
(* ones.  A monitor's writes reach the controller's replica only at the   *)
(* monitor's tasvir_service(), and only for the ranges passed to          *)
(* tasvir_log_write since the one before.                                 *)
(*                                                                         *)
(* A table is abstracted to the map it implements (CuckooMap refines      *)
(* KVMap): a key's detected_count or total packet count, 0 for a key Find *)
(* does not return.                                                        *)
(***************************************************************************)
EXTENDS Integers, FiniteSets, Functions

CONSTANTS
  Mon,        \* the monitor ids 1..monitor_cnt
  SrcIPs,     \* the source addresses of the generated packets
  DstIPs,     \* their destination addresses
  Batch,      \* the batch size of receive_packets (32 in the code)
  MaxPkts,    \* bound on the packets one monitor processes
  MaxRounds   \* bound on the controller's aggregation rounds

ASSUME SrcIPs \cap DstIPs = {} /\ Batch \in Nat \ {0}
ASSUME MaxPkts \in Nat /\ MaxRounds \in Nat

IPs   == SrcIPs \cup DstIPs
Flows == SrcIPs \X DstIPs         \* FlowId {src_ip, dst_ip, ports}: ports fixed
Count == 0..MaxPkts
NoAssets == [ip \in IPs |-> 0]
NoConns  == [f \in Flows |-> 0]

VARIABLES
  got,      \* got[m]: monitor m's stat->got_packets
  pos,      \* pos[m]: the index i of m's next packet within its batch
  assets,   \* assets[m]: m's asset table, ip -> detected_count
  conns,    \* conns[m]: m's connection table, flow -> d_total_pkts
  logged,   \* logged[m]: the table keys m has passed to tasvir_log_write
  rgot,     \* rgot[m]: the controller's replica of m's got_packets
  rassets,  \* rassets[m]: the controller's replica of m's asset table
  rconns,   \* rconns[m]: the controller's replica of m's connection table
  gstat,    \* the global stat->got_packets
  gassets,  \* the global asset table
  gconns,   \* the global connection table
  rounds    \* aggregation rounds so far

vars == <<got, pos, assets, conns, logged, rgot, rassets, rconns,
          gstat, gassets, gconns, rounds>>

\* What an AssetTable or ConnectionTable call passes to tasvir_log_write:
\* both are CuckooMap<...> with the default NoopMarker.
AssetMarks(keys) == {}

Init ==
  /\ got     = [m \in Mon |-> 0]
  /\ pos     = [m \in Mon |-> 0]
  /\ assets  = [m \in Mon |-> NoAssets]
  /\ conns   = [m \in Mon |-> NoConns]
  /\ logged  = [m \in Mon |-> {}]
  /\ rgot    = [m \in Mon |-> 0]
  /\ rassets = [m \in Mon |-> NoAssets]
  /\ rconns  = [m \in Mon |-> NoConns]
  /\ gstat   = 0
  /\ gassets = NoAssets
  /\ gconns  = NoConns
  /\ rounds  = 0

\* Find, Insert(ip, {0}) if absent, then detected_count++ through the
\* returned pointer.
Seen(t, ip) == [t EXCEPT ![ip] = @ + 1]

\* Remove(): the key is gone, Find returns null.
Dropped(t, k) == [t EXCEPT ![k] = 0]

\* update_asset: source then destination; Remove both when
\* random % 10000 == 0.
UpdateAsset(t, s, d, rm) ==
  LET t2 == Seen(Seen(t, s), d)
  IN IF rm THEN Dropped(Dropped(t2, s), d) ELSE t2

\* update_connection: fid is (src, dst, ports) in both branches; the packet
\* comes from 192.168.0.x to 172.10.4.y, so src_addr > dst_addr and
\* from_server is false (d_total_pkts++); Remove when random % 100 == 0.
UpdateConnection(t, f, rm) ==
  IF rm THEN Dropped(Seen(t, f), f) ELSE Seen(t, f)

\* The keys an update passes to the tables' Insert or Remove: the absent
\* ones, and the removed ones.
TableWrites(m, s, d, r) ==
  {ip \in {s, d} : assets[m][ip] = 0 \/ r = "both"}
    \cup {f \in {<<s, d>>} : conns[m][f] = 0 \/ r # "none"}

\* The controller's replica of m's tables after m's tasvir_service():
\* a logged key holds what m's table holds.
Install(r, t, ks) == [k \in DOMAIN r |-> IF k \in ks THEN t[k] ELSE r[k]]

\* Variant that indexes the batch from 0 to Batch (i <= ret).
NextPosOffByOne(p) == (p + 1) % (Batch + 1)

\* for (int i = 0; i < ret; i++) over a batch of ret = Batch packets.
NextPos(p) == (p + 1) % Batch

\* tasvir_log_write(stat) after monitor_packet; when tasvir_service()
\* syncs, the replica gets the incremented got_packets.
LogStat(m) == rgot' = [rgot EXCEPT ![m] = got'[m]]

\* One iteration of run_monitor's packet loop: monitor_packet (got_packets++,
\* monitor_tcp's update_connection and update_asset, with one random); for
\* the batch's first packet, then tasvir_log_write(stat) and
\* tasvir_service().  The service syncs the logged writes only once the
\* area's sync_int_us (network_stat.cpp:32, 100 ms) has passed since the
\* last sync, which no packet count bounds: `sync` is a free choice, and a
\* service that does not sync keeps the log.  receive_packets returns
\* Batch packets every time (PACKET_COUNT is a multiple of 32).
Packet(m) ==
  /\ got[m] < MaxPkts
  /\ \E s \in SrcIPs, d \in DstIPs, r \in {"none", "conn", "both"} :
       LET a == UpdateAsset(assets[m], s, d, r = "both")
           c == UpdateConnection(conns[m], <<s, d>>, r # "none")
           l == logged[m] \cup AssetMarks(TableWrites(m, s, d, r))
       IN
       /\ got'    = [got EXCEPT ![m] = @ + 1]
       /\ assets' = [assets EXCEPT ![m] = a]
       /\ conns'  = [conns EXCEPT ![m] = c]
       /\ pos'    = [pos EXCEPT ![m] = NextPos(@)]
       /\ \E sync \in BOOLEAN :
          IF pos[m] = 0 /\ sync
          THEN /\ LogStat(m)
               /\ rassets' = [rassets EXCEPT ![m] = Install(@, a, l)]
               /\ rconns'  = [rconns EXCEPT ![m] = Install(@, c, l)]
               /\ logged'  = [logged EXCEPT ![m] = {}]
          ELSE /\ logged'  = [logged EXCEPT ![m] = l]
               /\ UNCHANGED <<rgot, rassets, rconns>>
  /\ UNCHANGED <<gstat, gassets, gconns, rounds>>

\* The sum over the monitors of f[m][k].
SumOver(f, k) == SumFunction([m \in Mon |-> f[m][k]])

\* Variant that adds the replicas' counts to stat, as the tables are merged.
AggregateStatAccumulate == gstat' = gstat + SumFunction(rgot)

\* temp.got_packets summed over the replicas, memcpy'd into stat at once.
AggregateStat == gstat' = SumFunction(rgot)

\* A second has passed: stat is replaced by the sum of the replicas'
\* got_packets; each key the iterator yields from a replica is merged into
\* the global table (aggregate_* adds the counts to a present entry,
\* Insert copies an absent one), monitor by monitor.
Aggregate ==
  /\ rounds < MaxRounds
  /\ AggregateStat
  /\ gassets' = [ip \in IPs |-> gassets[ip] + SumOver(rassets, ip)]
  /\ gconns'  = [f \in Flows |-> gconns[f] + SumOver(rconns, f)]
  /\ rounds'  = rounds + 1
  /\ UNCHANGED <<got, pos, assets, conns, logged, rgot, rassets, rconns>>

Next == (\E m \in Mon : Packet(m)) \/ Aggregate

Spec == Init /\ [][Next]_vars

-----------------------------------------------------------------------------
MonitorTypeOK ==
  /\ got \in [Mon -> Count] /\ rgot \in [Mon -> Count]
  /\ pos \in [Mon -> 0..Batch-1]
  /\ assets \in [Mon -> [IPs -> Count]] /\ rassets \in [Mon -> [IPs -> Count]]
  /\ conns \in [Mon -> [Flows -> Count]] /\ rconns \in [Mon -> [Flows -> Count]]
  /\ logged \in [Mon -> SUBSET (IPs \cup Flows)]
  /\ gstat \in Nat /\ gassets \in [IPs -> Nat] /\ gconns \in [Flows -> Nat]
  /\ rounds \in 0..MaxRounds

\* The global packet count never counts a packet twice: run_controller
\* replaces stat by the sum of the replicas, which lag the monitors.
GlobalPacketsBounded == gstat <= SumFunction(got)

=============================================================================
