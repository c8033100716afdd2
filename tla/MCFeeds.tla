------------------------------- MODULE MCFeeds -------------------------------
(***************************************************************************)
(* What a client sees, model-checked: watches on one host and shared       *)
(* across hosts, the WebSocket session and the live page that carry them,  *)
(* the HTTP edge that finds the owner of an actor, and the streams an      *)
(* activation feeds. The components do not interact here: `focus` picks    *)
(* the one whose steps a behaviour takes, the others stand still.          *)
(***************************************************************************)
EXTENDS WatchFeed, SocketSession, LivePage, SharedWatches, EdgeRouting,
        StreamBodies

VARIABLE focus

Components == {"watch", "socket", "page", "relay", "edge", "response",
               "bodies"}
feedsVars == <<focus, watchVars, sockVars, pageVars, relayVars, edgeVars,
             edgeStreamVars, bodyVars>>

------------------------------------------------------------------------------

\* No watch's subscriber or principal differs from another.
Alike == Permutations(WatchSubs) \cup Permutations(Principals)

\* The components that a behaviour is not about have no state.
Off == "off"
WatchOff ==
  /\ ver = Off /\ consultFrom = Off /\ distinct = Off /\ dependent = Off
  /\ loops = Off /\ watches = Off /\ subs = Off /\ pump = Off /\ feed = Off
  /\ actClosed = Off /\ readFaults = Off
SockOff ==
  /\ cli = Off /\ called = Off /\ liveSub = Off /\ sessions = Off /\ sockRan = Off
  /\ sockVer = Off /\ toggles = Off /\ sockFaults = Off
PageOff ==
  /\ vers = Off /\ entries = Off /\ chan = Off /\ conns = Off /\ cellView = Off
  /\ pageCount = Off
RelayOff ==
  /\ owner = Off /\ aliveHosts = Off /\ relayView = Off /\ route = Off
  /\ relayVer = Off /\ declared = Off /\ memo = Off /\ current = Off /\ streams = Off
  /\ relaySubs = Off /\ upsets = Off
EdgeOff ==
  /\ edgeUp = Off /\ home = Off /\ believes = Off /\ onMiss = Off /\ learnt = Off
  /\ calls = Off /\ edgeFaults = Off
EdgeStreamOff ==
  /\ inner = Off /\ finished = Off /\ closed = Off /\ body = Off /\ queued = Off
  /\ reading = Off /\ pulling = Off /\ ping = Off /\ yields = Off
BodiesOff ==
  /\ phase = Off /\ queue = Off /\ inTurn = Off /\ kept = Off /\ recent = Off
  /\ bodyStreams = Off /\ timers = Off /\ turnsAsked = Off /\ touched = Off

FeedsInit ==
  /\ focus \in Components
  /\ IF focus = "watch" THEN WatchInit ELSE WatchOff
  /\ IF focus = "socket" THEN SockInit ELSE SockOff
  /\ IF focus = "page" THEN PageInit ELSE PageOff
  /\ IF focus = "relay" THEN RelayInit ELSE RelayOff
  /\ IF focus = "edge" THEN EdgeInit ELSE EdgeOff
  /\ IF focus = "response" THEN EdgeStreamInit ELSE EdgeStreamOff
  /\ IF focus = "bodies" THEN BodiesInit ELSE BodiesOff

FeedsNext ==
  \/ /\ focus = "watch" /\ WatchNext
     /\ UNCHANGED <<focus, sockVars, pageVars, relayVars, edgeVars,
                   edgeStreamVars, bodyVars>>
  \/ /\ focus = "socket" /\ SockNext
     /\ UNCHANGED <<focus, watchVars, pageVars, relayVars, edgeVars,
                   edgeStreamVars, bodyVars>>
  \/ /\ focus = "page" /\ PageNext
     /\ UNCHANGED <<focus, watchVars, sockVars, relayVars, edgeVars,
                   edgeStreamVars, bodyVars>>
  \/ /\ focus = "relay" /\ RelayNext
     /\ UNCHANGED <<focus, watchVars, sockVars, pageVars, edgeVars,
                   edgeStreamVars, bodyVars>>
  \/ /\ focus = "edge" /\ EdgeNext
     /\ UNCHANGED <<focus, watchVars, sockVars, pageVars, relayVars,
                   edgeStreamVars, bodyVars>>
  \/ /\ focus = "response" /\ EdgeStreamNext
     /\ UNCHANGED <<focus, watchVars, sockVars, pageVars, relayVars,
                   edgeVars, bodyVars>>
  \/ /\ focus = "bodies" /\ BodiesNext
     /\ UNCHANGED <<focus, watchVars, sockVars, pageVars, relayVars,
                   edgeVars, edgeStreamVars>>

FeedsSpec == FeedsInit /\ [][FeedsNext]_feedsVars

------------------------------------------------------------------------------
(* Properties: what each component promises, its named parts together.     *)

\* A watcher sees every state it should, for its own identity: a read that is
\* under way while the state moves is followed by another, one loop serves each
\* key, a sweep ends nobody else's watch, and a watch carried from another host
\* is caught up when its stream breaks, moves or is shared by somebody new.
WatchersAreCurrent ==
  /\ focus = "watch" => /\ WatchTypeOK /\ OwnView /\ RestIsCurrent
                        /\ OneLoopPerKey /\ PumpHoldsEveryRead /\ FeedKeepsLast
  /\ focus = "relay" => /\ RelayTypeOK /\ OneRemoteStream /\ NobodyParked
                        /\ OwnIdentity /\ CaughtUp

\* The page and the server agree on what is called and watched over a socket
\* that drops and is dialled again: a call runs once, no identifier is used
\* twice, the server keeps no watch for a page that let it go, and the page
\* shows the value the server last sent.
SocketSessionsAgree ==
  focus = "socket" => /\ SockTypeOK /\ PageCallsRunOnce /\ NeverBreaches
                      /\ NoOrphanWatch /\ PageShowsCurrent

\* A page over server-sent events has one live request, each frame reaches the
\* read it is for, and once quiet it shows the latest version.
PagesShowTheLatest ==
  focus = "page" => PageTypeOK /\ OneLiveRequest /\ RightRead /\ QuietPageIsCurrent

\* The edge finds the owner without showing it: no redirect reaches the caller, a
\* redirected call ran nowhere, a denied one learns no location, a broken stream
\* is not continued from elsewhere; and a response body closes its stream once,
\* with its ping.
EdgeForwardsFaithfully ==
  /\ focus = "edge" => /\ EdgeTypeOK /\ NoRedirectEscapes /\ RedirectIsFree
                       /\ DeniedLearnsNothing /\ StreamNeverSpliced
  /\ focus = "response" => EdgeStreamTypeOK /\ PingDiesWithBody /\ InnerNeverLeaks /\ ClosedOnce

\* What an activation streams keeps it alive exactly as long as somebody reads,
\* a body parked on a feed is woken when the reader leaves, timers keep nobody
\* and their ticks coalesce.
BodiesEndCleanly ==
  focus = "bodies" => /\ BodiesTypeOK /\ KeptByItsStreams /\ SweepSparesStreams
                      /\ LeavingWakesTheBody /\ NoOrphanFeed /\ TimersKeepNobody /\ TicksCoalesce
==============================================================================
