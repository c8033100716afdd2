------------------------------ MODULE MCCluster ------------------------------
(***************************************************************************)
(* What the hosts of a cluster share, model-checked: the storage and the   *)
(* directory behind every provider, membership and its leases, refreshed   *)
(* views, load balancing, calls between peers of different builds, and the *)
(* figures they report. The components do not interact here: `focus` picks *)
(* the one whose steps a behaviour takes, the others stand still.          *)
(***************************************************************************)
EXTENDS Storage, Membership, Refreshing, DirectoryStore, LoadBalancing,
        PeerCalls, Exposition, FetchPool

VARIABLE focus

Components == {"storage", "membership", "views", "directory", "balancing",
               "peers", "monitoring", "exposition", "fetches"}
clusterVars == <<focus, storageVars, memVars, refVars, dirVars, lbVars,
             peerVars, monVars, expoVars, fetchVars>>

------------------------------------------------------------------------------
(* Values of the constants *)

\* Three hosts: B runs an older build (no type k) and speaks HTTP only, C does
\* not list itself with its types; B's clock is ahead, C's behind.
MCTypeAt == [A |-> {"x", "k"}, B |-> {"x", "y"}, C |-> {"y", "k"}]
MCWires == [A |-> {"tcp", "http"}, B |-> {"http"}, C |-> {"tcp"}]
MCScore == [x |-> [A |-> 1, B |-> 1, C |-> 2], k |-> [A |-> 0, B |-> 2, C |-> 1]]
MCRank == [A |-> 1, B |-> 2, C |-> 3]
MCSkew == [A |-> 0, B |-> 2, C |-> -1]

------------------------------------------------------------------------------

\* The components that a behaviour is not about have no state.
Off == "off"
MonOff ==
  /\ meters = Off /\ taken = Off /\ running = Off /\ begun = Off /\ poll = Off
  /\ monOps = Off
ExpoOff ==
  /\ grid = Off /\ mounted = Off /\ live = Off /\ callbacks = Off /\ session = Off
  /\ watches = Off /\ loops = Off /\ totals = Off /\ lifetime = Off /\ lived = Off
  /\ subsMade = Off /\ starts = Off
FetchOff ==
  /\ lib = Off /\ ready = Off /\ agents = Off /\ fetches = Off /\ agentOf = Off
  /\ gauge = Off /\ ticks = Off /\ full = Off /\ fetchFaults = Off

ClusterInit ==
  /\ focus \in Components
  /\ StInit /\ (focus # "storage" => stProvider = "memory")
  /\ MemInit
  /\ RefInit /\ (focus # "views" => via = "redis")
  /\ DirInit /\ (focus # "directory" => backend = "memory")
  /\ LbInit /\ (focus # "balancing" => where = [x \in LbActors |-> 0])
  /\ PeerInit /\ (focus # "peers" => policy = "random" /\ standing = [h \in PeerHosts |-> "active"]
                                   /\ seenBy = [h \in PeerHosts |-> CHOOSE l \in Listings : TRUE])
  /\ IF focus \in {"monitoring", "exposition"} THEN MonInit ELSE MonOff
  /\ IF focus = "exposition" THEN ExpoInit ELSE ExpoOff
  /\ IF focus = "fetches" THEN FetchInit ELSE FetchOff

ClusterNext ==
  \/ /\ focus = "storage" /\ StNext
     /\ UNCHANGED <<focus, memVars, refVars, dirVars, lbVars, peerVars,
                   monVars, expoVars, fetchVars>>
  \/ /\ focus = "membership" /\ MemNext
     /\ UNCHANGED <<focus, storageVars, refVars, dirVars, lbVars, peerVars,
                   monVars, expoVars, fetchVars>>
  \/ /\ focus = "views" /\ RefNext
     /\ UNCHANGED <<focus, storageVars, memVars, dirVars, lbVars, peerVars,
                   monVars, expoVars, fetchVars>>
  \/ /\ focus = "directory" /\ DirNext
     /\ UNCHANGED <<focus, storageVars, memVars, refVars, lbVars, peerVars,
                   monVars, expoVars, fetchVars>>
  \/ /\ focus = "balancing" /\ LbNext
     /\ UNCHANGED <<focus, storageVars, memVars, refVars, dirVars, peerVars,
                   monVars, expoVars, fetchVars>>
  \/ /\ focus = "peers" /\ PeerNext
     /\ UNCHANGED <<focus, storageVars, memVars, refVars, dirVars, lbVars,
                   monVars, expoVars, fetchVars>>
  \/ /\ focus = "monitoring" /\ MonNext
     /\ UNCHANGED <<focus, storageVars, memVars, refVars, dirVars, lbVars,
                   peerVars, expoVars, fetchVars>>
  \/ /\ focus = "exposition" /\ ExpoNext
     /\ UNCHANGED <<focus, storageVars, memVars, refVars, dirVars, lbVars,
                   peerVars, fetchVars>>
  \/ /\ focus = "fetches" /\ FetchNext
     /\ UNCHANGED <<focus, storageVars, memVars, refVars, dirVars, lbVars,
                   peerVars, monVars, expoVars>>

ClusterSpec == ClusterInit /\ [][ClusterNext]_clusterVars

------------------------------------------------------------------------------
(* Properties: what each component promises, its named parts together.     *)

\* No store loses a write it acknowledged: two holders of the same version do not
\* both save, a log is folded once, whatever reply is lost; and the directory
\* names the holder of an actor until it lets go or is evicted, on every backend.
StoresNeverLoseAWrite ==
  /\ focus = "storage" => StTypeOK /\ NoLostUpdate /\ ReplayedOnce
  /\ focus = "directory" => DirTypeOK /\ HeldUnlessEvicted

\* Membership says what is so: a host is evicted only when its lease ran out by
\* the evictor's clock, one that left stays out, a view asked for after a change
\* shows the change, and its version moves only with its content.
MembershipIsHonest ==
  /\ focus = "membership" => MemTypeOK /\ EvictedPastWindow /\ LeftStaysOut
  /\ focus = "views" => RefTypeOK /\ RefreshIsFresh /\ PushIsEnough

\* Hosts that see the cluster differently still agree on what a call means: who
\* ranks first among the same candidates, when the call expires, which calls are
\* up its chain; and balancing sheds no further than the mean.
PeersAgree ==
  /\ focus = "peers" => /\ PeerTypeOK /\ UnknownIsLocal /\ HashersAgree
                        /\ ExpiryAgrees /\ CycleIsAnswered
  /\ focus = "balancing" => LbTypeOK /\ UnattachedKeepsNothing /\ QuietRoundStopsAtMean

\* The figures add up: rows and totals, buckets and percentiles, what two
\* exporters say of the same meters, the gauges of what is gone, and the permits
\* of a connection pool.
MetricsAddUp ==
  /\ focus = "monitoring" => /\ MonTypeOK /\ BreakdownAddsUp /\ SampleInItsBucket
                             /\ ClusterPercentile /\ WholeOrPartial
  /\ focus = "exposition" => ExpoTypeOK /\ BucketsAreExact /\ GaugesAreLive /\ ExportersAgree
  /\ focus = "fetches" => FetchTypeOK /\ SaturationIsTrue /\ LoadsAreRetried

\* A view's version moves with its content and never without, and a new view
\* moves no actor between two hosts that were in it and still are.
ViewsMoveForCause == ViewVersionMoves /\ OnlyDepartedRehomed
==============================================================================
