------------------------------ MODULE ApiFeed ------------------------------
(***************************************************************************)
(* The dashboard's WebSocket in api/server.py: sockets connect, are shown  *)
(* the tenant's positions, ask for market channels and leave, while three  *)
(* tasks share state with them on one event loop: the release of unwatched *)
(* channels, the release of the base feed and the fan-out of messages.     *)
(*                                                                         *)
(* A step is the code between two awaits.  A plan chosen in Init says what *)
(* may happen in a run.  Positions are version numbers; a channel and the  *)
(* stream it stands for have one name; `base' stands for the three base    *)
(* streams.                                                                *)
(***************************************************************************)
EXTENDS Integers, FiniteSets, FiniteSetsExt

CONSTANTS Sockets, Channels, ApiPlans,
          MaxChannels,      \* MAX_CHANNELS_PER_CONNECTION
          MaxConnects,      \* bound: connections made in a run
          MaxOps,           \* bound: subscribe and unsubscribe messages
          MaxVersion        \* bound: position updates

ASSUME ApiAssumption ==
    /\ IsFiniteSet(Channels) /\ MaxChannels \in Nat
    /\ MaxConnects \in Nat /\ MaxOps \in Nat /\ MaxVersion \in Nat

VARIABLES aplan,
          socket,           \* per socket: the await its handler is at
          todo,             \* per socket: channels _ensure_upstream still has to open
          frame,            \* per socket: the channel whose subscribe frame is being sent
          connections,      \* manager.connections
          watched,          \* manager.channel_subs
          upstream,         \* _upstream_channels
          streams,          \* BinanceWebSocketClient.subscriptions
          dropping,         \* _upstream_release_pending
          releaser,         \* _upstream_release_task: "none" or "sleeping"
          feed,             \* _market_feed_on
          stopper,          \* _market_feed_release_task: "none", "sleeping", "ready", "sending"
          latest, cache, frames, snapshot, shown,   \* versions of the positions
          connects, ops

avars == <<aplan, socket, todo, frame, connections, watched, upstream, streams, dropping, releaser,
           feed, stopper, latest, cache, frames, snapshot, shown, connects, ops>>
marketVars == <<upstream, streams, dropping, releaser>>
feedVars == <<feed, stopper>>
positionVars == <<latest, cache, frames, snapshot, shown>>

ApiSpared(kinds) == aplan \intersect kinds = {}
Unknown == -1

ApiInit ==
    /\ aplan \in ApiPlans
    /\ socket = [c \in Sockets |-> "off"]
    /\ todo = [c \in Sockets |-> {}] /\ frame = [c \in Sockets |-> {}]
    /\ connections = {} /\ watched = [c \in Sockets |-> {}]
    /\ upstream = {} /\ streams = {} /\ dropping = {} /\ releaser = "none"
    /\ feed = FALSE /\ stopper = "none"
    /\ latest = 0 /\ cache = IF "cold" \in aplan THEN Unknown ELSE 0
    /\ frames = {} /\ snapshot = [c \in Sockets |-> Unknown]
    /\ shown = [c \in Sockets |-> Unknown]
    /\ connects = 0 /\ ops = 0

----------------------------------------------------------------------------
(* A socket connects.                                                      *)

\* accept() has returned: the connection is registered before it is shown
\* anything.  The tenant's bucket is looked up here; without one the positions
\* come from the state manager.
Register(c) ==
    /\ socket[c] = "off" /\ connects < MaxConnects
    /\ connects' = connects + 1
    /\ connections' = connections \union {c}
    /\ socket' = [socket EXCEPT ![c] = IF cache = Unknown THEN "reading" ELSE "greeting"]
    /\ UNCHANGED <<aplan, todo, frame, watched, marketVars, feedVars, positionVars, ops>>

\* The state manager answers.
ReadPositions(c) ==
    /\ socket[c] = "reading"
    /\ snapshot' = [snapshot EXCEPT ![c] = latest]
    /\ socket' = [socket EXCEPT ![c] = "greeting"]
    /\ UNCHANGED <<aplan, todo, frame, connections, watched, marketVars, feedVars, latest, cache, frames,
                   shown, connects, ops>>

\* The positions are sent: those of the cache as they are now, or those read.
Greet(c) ==
    /\ socket[c] = "greeting"
    /\ shown' = [shown EXCEPT ![c] = IF snapshot[c] = Unknown THEN cache ELSE snapshot[c]]
    /\ snapshot' = [snapshot EXCEPT ![c] = Unknown]
    /\ socket' = [socket EXCEPT ![c] = "acquiring"]
    /\ UNCHANGED <<aplan, todo, frame, connections, watched, marketVars, feedVars, latest, cache, frames,
                   connects, ops>>

\* The lock of the base feed is held while the frames are sent, by an
\* acquiring socket or by the task that stops the feed.
FeedLocked == stopper = "sending" \/ \E c \in Sockets : socket[c] = "starting"

\* A pending stop is cancelled, asleep or waiting for the lock.
AcquireMarketFeed(c) ==
    /\ socket[c] = "acquiring" /\ ~FeedLocked
    /\ stopper' = "none"
    /\ socket' = [socket EXCEPT ![c] = IF feed THEN "open" ELSE "starting"]
    /\ UNCHANGED <<aplan, todo, frame, connections, watched, marketVars, feed, positionVars, connects, ops>>

\* A failed start leaves the feed off and the socket open.
FeedStarts(c) ==
    /\ socket[c] = "starting"
    /\ feed' \in {TRUE} \union IF ApiSpared({"send_fails"}) THEN {} ELSE {FALSE}
    /\ socket' = [socket EXCEPT ![c] = "open"]
    /\ UNCHANGED <<aplan, todo, frame, connections, watched, marketVars, stopper, positionVars,
                   connects, ops>>

----------------------------------------------------------------------------
(* Market channels.                                                        *)

Watchers(x) == {c \in Sockets : x \in watched[c]}

\* As many of the requested channels as there is room for, in the arbitrary
\* order of a set, those watched already included.
AddChannels(c, requested) ==
    LET room == Max({0, MaxChannels - Cardinality(watched[c])})
    IN  {watched[c] \union kept : kept \in
            kSubset(Min({room, Cardinality(requested)}), requested)}

\* Every requested channel is opened, the ones there was no room for too.
Subscribe(c, requested) ==
    /\ socket[c] = "open" /\ ~ApiSpared({"channels"}) /\ ops < MaxOps
    /\ ApiSpared({"overflow"}) =>
           Cardinality(watched[c]) + Cardinality(requested) <= MaxChannels
    /\ ops' = ops + 1
    /\ \E subs \in AddChannels(c, requested) : watched' = [watched EXCEPT ![c] = subs]
    /\ todo' = [todo EXCEPT ![c] = requested]
    /\ socket' = [socket EXCEPT ![c] = "opening"]
    /\ UNCHANGED <<aplan, frame, connections, marketVars, feedVars, positionVars, connects>>

\* One channel of the loop.  One in the client's list is put on the books at
\* once (those on the books are in the list); a new one is entered into the list
\* and its frame is sent.
EnsureUpstream(c, x) ==
    /\ socket[c] = "opening" /\ x \in todo[c]
    /\ todo' = [todo EXCEPT ![c] = @ \ {x}]
    /\ \/ /\ x \in streams
          /\ upstream' = upstream \union {x}
          /\ UNCHANGED <<streams, socket, frame>>
       \/ /\ x \notin streams
          /\ streams' = streams \union {x}
          /\ socket' = [socket EXCEPT ![c] = "sending"]
          /\ frame' = [frame EXCEPT ![c] = {x}]
          /\ UNCHANGED upstream
    /\ UNCHANGED <<aplan, connections, watched, dropping, releaser, feedVars, positionVars,
                   connects, ops>>

\* The frame is sent, and only now is the channel on the books; if the send
\* fails it is not, but the client's list keeps it.
Opened(c) ==
    /\ socket[c] = "sending"
    /\ upstream' \in {upstream \union frame[c]}
                     \union IF ApiSpared({"send_fails"}) THEN {} ELSE {upstream}
    /\ frame' = [frame EXCEPT ![c] = {}]
    /\ socket' = [socket EXCEPT ![c] = "opening"]
    /\ UNCHANGED <<aplan, todo, connections, watched, streams, dropping, releaser, feedVars,
                   positionVars, connects, ops>>

AllOpened(c) ==
    /\ socket[c] = "opening" /\ todo[c] = {}
    /\ socket' = [socket EXCEPT ![c] = "open"]
    /\ UNCHANGED <<aplan, todo, frame, connections, watched, marketVars, feedVars, positionVars, connects,
                   ops>>

\* Candidates are the channels on the books; one task waits for all of them.
ScheduleRelease(channels) ==
    /\ dropping' = dropping \union (channels \intersect upstream)
    /\ releaser' = IF channels \intersect upstream = {} THEN releaser ELSE "sleeping"

Unsubscribe(c, requested) ==
    /\ socket[c] = "open" /\ ~ApiSpared({"channels"}) /\ ops < MaxOps
    /\ ops' = ops + 1
    /\ watched' = [watched EXCEPT ![c] = @ \ requested]
    /\ ScheduleRelease(requested)
    /\ UNCHANGED <<aplan, socket, todo, frame, connections, upstream, streams, feedVars, positionVars,
                   connects>>

\* Mutant: who watches is not asked again.
ReleaseUpstreamBlindly ==
    /\ releaser = "sleeping"
    /\ upstream' = upstream \ dropping /\ streams' = streams \ (dropping \intersect upstream)
    /\ dropping' = {} /\ releaser' = "none"
    /\ UNCHANGED <<aplan, socket, todo, frame, connections, watched, feedVars, positionVars, connects, ops>>

\* The linger is over: what nobody watches leaves the books and the client's
\* list before the frame is sent, so a failing send changes nothing here.
ReleaseUpstream ==
    /\ releaser = "sleeping"
    /\ LET doomed == {x \in dropping \intersect upstream : Watchers(x) = {}}
       IN  upstream' = upstream \ doomed /\ streams' = streams \ doomed
    /\ dropping' = {} /\ releaser' = "none"
    /\ UNCHANGED <<aplan, socket, todo, frame, connections, watched, feedVars, positionVars, connects, ops>>

----------------------------------------------------------------------------
(* A socket leaves.                                                        *)

\* Mutant: the channels are looked up when the socket has been forgotten.
LeaveEmptyHanded(c) ==
    /\ socket[c] = "open"
    /\ socket' = [socket EXCEPT ![c] = "off"]
    /\ connections' = connections \ {c}
    /\ watched' = [watched EXCEPT ![c] = {}]
    /\ stopper' = IF feed /\ stopper = "none" /\ connections \subseteq {c} THEN "sleeping" ELSE stopper
    /\ shown' = [shown EXCEPT ![c] = Unknown]
    /\ UNCHANGED <<aplan, todo, frame, marketVars, feed, latest, cache, frames, snapshot, connects, ops>>

\* receive_text raised: the books are cleared, the feed's stop is scheduled if
\* this was the last viewer, and the channels it had are released.
Leave(c) ==
    /\ socket[c] = "open"
    /\ socket' = [socket EXCEPT ![c] = "off"]
    /\ connections' = connections \ {c}
    /\ watched' = [watched EXCEPT ![c] = {}]
    /\ stopper' = IF feed /\ stopper = "none" /\ connections \subseteq {c} THEN "sleeping"
                  ELSE stopper
    /\ ScheduleRelease(watched[c])
    /\ shown' = [shown EXCEPT ![c] = Unknown]
    /\ UNCHANGED <<aplan, todo, frame, upstream, streams, feed, latest, cache, frames, snapshot, connects, ops>>

StopperWakes ==
    /\ stopper = "sleeping" /\ stopper' = "ready"
    /\ UNCHANGED <<aplan, socket, todo, frame, connections, watched, marketVars, feed, positionVars,
                   connects, ops>>

\* Under the lock: somebody may have come in the meantime.
StopFeed ==
    /\ stopper = "ready" /\ ~FeedLocked
    /\ stopper' = IF connections = {} /\ feed THEN "sending" ELSE "none"
    /\ UNCHANGED <<aplan, socket, todo, frame, connections, watched, marketVars, feed, positionVars,
                   connects, ops>>

FeedStops ==
    /\ stopper = "sending"
    /\ stopper' = "none"
    /\ feed' \in {FALSE} \union IF ApiSpared({"send_fails"}) THEN {} ELSE {TRUE}
    /\ UNCHANGED <<aplan, socket, todo, frame, connections, watched, marketVars, positionVars, connects, ops>>

----------------------------------------------------------------------------
(* Messages of the daemon.                                                 *)

\* The daemon stores the positions, then publishes them.
Publish ==
    /\ ~ApiSpared({"positions"}) /\ latest < MaxVersion /\ frames = {}
    /\ latest' = latest + 1 /\ frames' = {latest + 1}
    /\ UNCHANGED <<aplan, socket, todo, frame, connections, watched, marketVars, feedVars, cache, snapshot,
                   shown, connects, ops>>

\* The message is cached and sent to every connection; one whose socket has
\* closed is taken off the list before its handler has noticed.
Broadcast ==
    /\ frames # {}
    /\ \E v \in frames, dead \in SUBSET {c \in connections : socket[c] = "open" /\ "dies" \in aplan} :
          /\ cache' = v
          /\ shown' = [c \in Sockets |-> IF c \in connections \ dead THEN v ELSE shown[c]]
          /\ connections' = connections \ dead
    /\ frames' = {}
    /\ UNCHANGED <<aplan, socket, todo, frame, watched, marketVars, feedVars, latest, snapshot, connects, ops>>

----------------------------------------------------------------------------

Requests == SUBSET Channels \ {{}}

HandlerStep(c) == Register(c) \/ ReadPositions(c) \/ Greet(c) \/ AcquireMarketFeed(c)
                  \/ FeedStarts(c) \/ Opened(c) \/ AllOpened(c) \/ Leave(c)
                  \/ (\E x \in Channels : EnsureUpstream(c, x))
                  \/ (\E r \in Requests : Subscribe(c, r) \/ Unsubscribe(c, r))

ApiNext == \/ \E c \in Sockets : HandlerStep(c)
           \/ ReleaseUpstream \/ StopperWakes \/ StopFeed \/ FeedStops
           \/ Publish \/ Broadcast

ApiSpec == ApiInit /\ [][ApiNext]_avars

\* Sleeps end, awaited calls return and locks are granted.
ApiFairness ==
    /\ WF_avars(ReleaseUpstream) /\ WF_avars(StopperWakes) /\ WF_avars(StopFeed)
    /\ WF_avars(FeedStops)
    /\ \A c \in Sockets :
          /\ WF_avars(ReadPositions(c)) /\ WF_avars(Greet(c)) /\ WF_avars(FeedStarts(c))
          /\ SF_avars(AcquireMarketFeed(c))
          /\ WF_avars(Opened(c)) /\ WF_avars(AllOpened(c))
          /\ WF_avars(\E x \in Channels : EnsureUpstream(c, x))

ApiFairSpec == ApiSpec /\ ApiFairness

----------------------------------------------------------------------------
(* Properties.                                                             *)

Ready(c) == socket[c] = "open"

\* Type invariant; the lock of the base feed has one holder.
ApiTypeOK ==
    /\ aplan \in ApiPlans
    /\ socket \in [Sockets -> {"off", "reading", "greeting", "acquiring", "starting", "open",
                               "opening", "sending"}]
    /\ todo \in [Sockets -> SUBSET Channels] /\ frame \in [Sockets -> SUBSET Channels]
    /\ watched \in [Sockets -> SUBSET Channels] /\ connections \subseteq Sockets
    /\ upstream \union streams \union dropping \subseteq Channels
    /\ releaser \in {"none", "sleeping"} /\ feed \in BOOLEAN
    /\ stopper \in {"none", "sleeping", "ready", "sending"}
    /\ latest \in 0..MaxVersion /\ cache \in Unknown..MaxVersion /\ frames \subseteq 1..MaxVersion
    /\ snapshot \in [Sockets -> Unknown..MaxVersion] /\ shown \in [Sockets -> Unknown..MaxVersion]
    /\ connects \in 0..MaxConnects /\ ops \in 0..MaxOps
    /\ ApiSpared({"overflow"}) => upstream \subseteq streams
    /\ \A c \in Sockets : Cardinality(watched[c]) <= MaxChannels
    /\ Cardinality({c \in Sockets : socket[c] = "starting"})
         + (IF stopper = "sending" THEN 1 ELSE 0) <= 1
    /\ releaser = "none" <=> dropping = {}

\* What a served socket watches is streamed, through every interleaving of the
\* releases, the lingers and the other sockets' requests.
WatchedIsStreamed ==
    \A c \in Sockets : Ready(c) /\ ApiSpared({"send_fails"}) => watched[c] \subseteq upstream

\* While a served socket is connected the base feed is on: a stop that was
\* scheduled before it came is cancelled or finds it.
ViewerHasFeed ==
    \A c \in connections :
        Ready(c) /\ ApiSpared({"send_fails"}) => feed /\ stopper # "sending"

\* A channel nobody watches is on its way out, if every request had room.
UnwatchedIsLeaving ==
    ApiSpared({"send_fails", "overflow"}) =>
        \A x \in upstream : Watchers(x) # {} \/ x \in dropping

\* "An idle backend now costs nothing": once everybody has left for good, all
\* streams end, if every request had room.
IdleCostsNothing ==
    ApiSpared({"send_fails", "overflow"}) =>
        (<>[](\A c \in Sockets : socket[c] = "off") => <>[](streams = {} /\ ~feed))

\* A greeted socket shows the newest positions the server has received, unless
\* its tenant had no bucket when it came.
ShowsNewest ==
    \A c \in connections :
        ApiSpared({"cold"}) /\ socket[c] \notin {"off", "reading", "greeting"} => shown[c] = cache

\* What a connected browser may rely on (server.py), whatever the other sockets
\* and the deferred stops do meanwhile.
SocketIsServed == WatchedIsStreamed /\ ViewerHasFeed /\ UnwatchedIsLeaving /\ ShowsNewest

=============================================================================
