----------------------------- MODULE PathTable -----------------------------
(***************************************************************************)
(* The path table of Transport (src/src/transport.rs): for every           *)
(* destination a short list of routes, newest first, learned from          *)
(* announces, restored from tunnels or cloned from another destination;    *)
(* the emissions remembered with it; and the readers of the table, which   *)
(* pick a route when a packet is sent or forwarded.                        *)
(*                                                                         *)
(* Every operation runs under the one TRANSPORT lock, so each is one       *)
(* action.  Time is a small counter; a destination, an interface and a     *)
(* next hop are model values; an emission (the random blob of an announce) *)
(* is its emission time.  All copies of one announce share a packet hash,  *)
(* which therefore also is the emission.                                   *)
(*                                                                         *)
(* EvictOldest, NoEviction, AdmitOnlyShortest, SelectLastBest,             *)
(* NewEmissionUnlessLive, UnresponsiveKeepingBlobs, OutboundNotSaved and   *)
(* DeregisterKeepingTunnel are defective variants of the definitions they  *)
(* precede; the specification does not use them.                           *)
(***************************************************************************)
EXTENDS Integers, SequencesExt, FiniteSetsExt

CONSTANTS
  Dests,          \* destinations
  Interfaces,     \* names of interfaces
  NextHops,       \* neighbours an announce can come from
  Neighbours,     \* pairs <<interface, next hop>> announces arrive over
  AccessPoint,    \* interfaces of mode ACCESS_POINT
  Bitrate,        \* bitrate of each interface
  MaxHops,        \* bound on the hop count of an announce
  MaxPaths,       \* MAX_PATHS_PER_DEST
  MaxBlobs,       \* MAX_RANDOM_BLOBS
  Lifetime,       \* DESTINATION_TIMEOUT
  ApLifetime,     \* AP_PATH_TIME
  StaleThreshold, \* PATH_STALE_THRESHOLD
  MaxTime,        \* bound on the clock
  MaxEmission,    \* bound on emission times
  MaxAnnounces,   \* bound on announces received
  MaxEvents       \* bound on interface changes, tunnel appearances, clones and
                  \* pending links found closed

ASSUME PathAssumption ==
  /\ Neighbours \subseteq Interfaces \X NextHops
  /\ AccessPoint \subseteq Interfaces
  /\ Bitrate \in [Interfaces -> Nat \ {0}]
  /\ {MaxHops, MaxPaths, MaxBlobs, Lifetime, ApLifetime} \subseteq Nat \ {0}
  /\ {StaleThreshold, MaxTime, MaxEmission, MaxAnnounces, MaxEvents} \subseteq Nat

VARIABLES
  clock,     \* now()
  routes,    \* path_table: destination -> its routes, newest first
  blobs,     \* path_random_blobs: destination -> emissions, oldest first
  verified,  \* path_verified_this_session
  dirty,     \* path_table_dirty
  iface,     \* state.interfaces: "online", "offline", or "gone" for an interface that
             \* is not in it: deregistered, or that of a local client
  carries,   \* interfaces whose tunnel_id is set
  tunnel,    \* the tunnel: its expiry and the paths recorded in it
  queued,    \* history: the emissions queued for rebroadcast since the destination
             \* was last unknown, in order
  announces, \* announces received so far
  events     \* interface changes and the other events so far

tableVars == <<routes, blobs, verified, dirty, tunnel, queued>>
ifaceVars == <<iface, carries>>
vars == <<clock, routes, blobs, verified, dirty, iface, carries, tunnel, queued,
          announces, events>>

NoPath == [known |-> FALSE]
NoTunnel == [known |-> FALSE]
Emissions == 1 .. MaxEmission

\* The timestamp 0.0, which is past every threshold.
LongAgo == -(1 + StaleThreshold + ApLifetime)

PathEntry == [timestamp : {LongAgo} \cup 0 .. MaxTime, hop : NextHops, hops : 1 .. MaxHops,
              expires : 0 .. MaxTime + Lifetime + StaleThreshold,
              iface : Interfaces, hash : Emissions]

RecordedPath == [known : {TRUE}, timestamp : 0 .. MaxTime, hop : NextHops,
                 hops : 1 .. MaxHops, expires : 0 .. MaxTime + Lifetime,
                 hash : Emissions]

----------------------------------------------------------------------------
(***************************************************************************)
(* The algorithms on a list of routes.                                     *)
(***************************************************************************)

IsExpired(e) == clock >= e.expires

Online(i) == iface[i] = "online"

\* An entry that select_path may return: not expired, its interface registered
\* and online.
Usable(e) == ~IsExpired(e) /\ Online(e.iface)

\* An access-point route has a shorter life, counted from its last refresh; the
\* mode is looked up among the registered interfaces.
RouteIsLive(e) ==
  /\ ~IsExpired(e)
  /\ e.iface \in AccessPoint /\ iface[e.iface] # "gone"
       => clock < e.timestamp + ApLifetime

SameRoute(e, f) == e.iface = f.iface /\ e.hop = f.hop

\* e is the worse of two routes: more hops, or as many and older.
Worse(e, f) == e.hops > f.hops \/ (e.hops = f.hops /\ e.timestamp < f.timestamp)

\* max_by returns the last of equal maxima, so a later entry loses a tie.
EvictedBefore(list, j, k) ==
  Worse(list[j], list[k]) \/ (~Worse(list[k], list[j]) /\ j > k)

EvictOldest(list) == SubSeq(list, 1, Min({Len(list), MaxPaths}))

NoEviction(list) == list

\* The eviction loop: the worst route goes, again and again, until MaxPaths are
\* left, so an entry stays when fewer than MaxPaths would be evicted after it.
EvictWorst(list) ==
  LET kept == SelectSeq([k \in DOMAIN list |-> k], LAMBDA k :
                Cardinality({j \in DOMAIN list : EvictedBefore(list, k, j)})
                  < MaxPaths)
  IN  [n \in DOMAIN kept |-> list[kept[n]]]

AdmitOnlyShortest(list, new) ==
  LET others == SelectSeq(list, LAMBDA e : ~SameRoute(e, new))
  IN  IF \A e \in ToSet(others) : new.hops <= e.hops
      THEN EvictWorst(<<new>> \o others) ELSE others

AdmitRoute(list, new) ==
  EvictWorst(<<new>> \o SelectSeq(list, LAMBDA e : ~SameRoute(e, new)))

\* score(e) > score(f), where score = bitrate / (hops + 1).
ScoresAbove(e, f) == Bitrate[e.iface] * (f.hops + 1) > Bitrate[f.iface] * (e.hops + 1)

SelectLastBest(list, excluded) ==
  FoldLeft(LAMBDA best, k :
             IF \/ ~Usable(list[k]) \/ list[k].iface = excluded
                \/ (best # 0 /\ ScoresAbove(list[best], list[k]))
             THEN best ELSE k,
           0, [k \in DOMAIN list |-> k])

\* select_path_excluding: one pass that keeps the best usable entry seen so far,
\* replaced only by a strictly better one.  The index in the list, 0 for none.
SelectPathExcluding(list, excluded) ==
  FoldLeft(LAMBDA best, k :
             IF \/ ~Usable(list[k]) \/ list[k].iface = excluded
                \/ (best # 0 /\ ~ScoresAbove(list[k], list[best]))
             THEN best ELSE k,
           0, [k \in DOMAIN list |-> k])

NoInterface == "none"

SelectPath(list) == SelectPathExcluding(list, NoInterface)

HasPath(d) == SelectPath(routes[d]) # 0


\* Whether an announce copy is a new emission for its destination, judged
\* against the routes and the emissions remembered before it arrived.
AnnounceIsNewEmission(d, e, h) ==
  \/ routes[d] = <<>>
  \/ /\ e \notin ToSet(blobs[d])
     /\ \/ \A b \in ToSet(blobs[d]) : e > b
        \/ /\ \A r \in ToSet(routes[d]) : ~RouteIsLive(r)
           /\ \E r \in ToSet(routes[d]) : h > r.hops

\* The remembered emissions after a new one: the oldest go beyond the cap.
Remember(list, e) ==
  LET all == IF e \in ToSet(list) THEN list ELSE Append(list, e)
  IN  SubSeq(all, Len(all) - Min({Len(all), MaxBlobs}) + 1, Len(all))

----------------------------------------------------------------------------
Init ==
  /\ clock = 0
  /\ routes = [d \in Dests |-> <<>>]
  /\ blobs = [d \in Dests |-> <<>>]
  /\ verified = {}
  /\ dirty = FALSE
  /\ iface = [i \in Interfaces |-> "online"]
  /\ carries = {}
  /\ tunnel = NoTunnel
  /\ queued = [d \in Dests |-> <<>>]
  /\ announces = 0
  /\ events = 0

(***************************************************************************)
(* Announces.                                                              *)
(***************************************************************************)

\* A path learned over an interface that carries the tunnel is also recorded
\* in the tunnel.
RecordTunnelPath(d, i, n, h, e) ==
  tunnel' = IF i \in carries /\ tunnel.known
            THEN [tunnel EXCEPT !.paths[d] =
                    [known |-> TRUE, timestamp |-> clock, hop |-> n, hops |-> h,
                     expires |-> clock + Lifetime, hash |-> e]]
            ELSE tunnel

\* inbound(): a validated announce of emission e for a destination that is not
\* our own, received over interface i from next hop n with h hops.  Whether it
\* is a new emission decides only whether it is queued for rebroadcast; the
\* route is admitted either way, and whatever became of the interface since the
\* packet was read from it.
Announce(d, e, i, n, h) ==
  LET isNew == AnnounceIsNewEmission(d, e, h)
      known == routes[d] # <<>>
  IN  /\ announces < MaxAnnounces
      /\ announces' = announces + 1
      /\ routes' = [routes EXCEPT ![d] =
           AdmitRoute(@, [timestamp |-> clock, hop |-> n, hops |-> h,
                          expires |-> clock + Lifetime, iface |-> i, hash |-> e])]
      /\ blobs' = IF isNew
                  THEN [blobs EXCEPT ![d] = Remember(IF known THEN @ ELSE <<>>, e)]
                  ELSE blobs
      /\ queued' = IF isNew THEN [queued EXCEPT ![d] = Append(@, e)] ELSE queued
      /\ dirty' = TRUE
      /\ RecordTunnelPath(d, i, n, h, e)
      /\ verified' = verified \cup {d}
      /\ UNCHANGED <<clock, ifaceVars, events>>

----------------------------------------------------------------------------
(***************************************************************************)
(* Removal.                                                                *)
(***************************************************************************)

\* Install a table whose lists may be shorter: a destination without routes
\* leaves the table with the emissions remembered for it.
Shrink(new) ==
  /\ routes' = new
  /\ blobs' = [d \in Dests |-> IF new[d] = <<>> THEN <<>> ELSE blobs[d]]
  /\ queued' = [d \in Dests |-> IF new[d] = <<>> THEN <<>> ELSE queued[d]]
  /\ dirty' = (dirty \/ new # routes)

ExpirePath(d) ==
  /\ routes[d] # <<>>
  /\ Shrink([routes EXCEPT ![d] = <<>>])
  /\ UNCHANGED <<clock, ifaceVars, verified, tunnel, announces, events>>

UnresponsiveKeepingBlobs(d, i) ==
  /\ \E e \in ToSet(routes[d]) : e.iface = i
  /\ routes' = [routes EXCEPT ![d] = SelectSeq(@, LAMBDA e : e.iface # i)]
  /\ dirty' = TRUE
  /\ UNCHANGED <<clock, blobs, queued, ifaceVars, verified, tunnel, announces,
                 events>>

MarkPathUnresponsive(d, i) ==
  /\ \E e \in ToSet(routes[d]) : e.iface = i
  /\ Shrink([routes EXCEPT ![d] = SelectSeq(@, LAMBDA e : e.iface # i)])
  /\ UNCHANGED <<clock, ifaceVars, verified, tunnel, announces, events>>

CullTunnel ==
  IF ~tunnel.known \/ clock > tunnel.expires THEN NoTunnel
  ELSE [tunnel EXCEPT !.paths = [d \in Dests |->
          IF @[d].known /\ clock > @[d].timestamp + Lifetime THEN NoPath ELSE @[d]]]

\* The table cull of jobs(): every route that is no longer live goes.
Cull ==
  /\ Shrink([d \in Dests |-> SelectSeq(routes[d], RouteIsLive)])
  /\ tunnel' = CullTunnel
  /\ UNCHANGED <<clock, ifaceVars, verified, announces, events>>

\* The link check of jobs(): an instance that is not a transport node found a
\* pending link to d closed.  The front route loses its timestamp; the dirty flag
\* is not set.
PendingLinkClosed(d) ==
  /\ events < MaxEvents
  /\ routes[d] # <<>>
  /\ events' = events + 1
  /\ routes' = [routes EXCEPT ![d][1].timestamp = LongAgo]
  /\ UNCHANGED <<clock, blobs, verified, dirty, ifaceVars, tunnel, queued,
                 announces>>

----------------------------------------------------------------------------
(***************************************************************************)
(* Readers: local sends, transit traffic, cloned paths.                    *)
(***************************************************************************)

IsStale(e) == e.hops >= 2 /\ clock - e.timestamp > StaleThreshold

\* The entry the code shortens is looked up by packet hash: the first with the
\* hash of the entry used.
ShortenedEntry(list, used) == SelectInSeq(list, LAMBDA e : e.hash = list[used].hash)

Shorten(list, k) ==
  [list EXCEPT ![k].expires = Min({@, clock + StaleThreshold})]

OutboundNotSaved(d) ==
  LET used == SelectPath(routes[d])
  IN  /\ used # 0
      /\ routes' = [routes EXCEPT ![d] =
           IF IsStale(@[used]) THEN Shorten(@, ShortenedEntry(@, used)) ELSE @]
      /\ UNCHANGED <<clock, blobs, verified, dirty, ifaceVars, tunnel, queued,
                     announces, events>>

\* outbound() over a path: the best route carries the packet; a stale one has
\* its expiry shortened and a path request sent for it.
Outbound(d) ==
  LET used == SelectPath(routes[d])
      new == IF used # 0 /\ IsStale(routes[d][used])
             THEN Shorten(routes[d], ShortenedEntry(routes[d], used))
             ELSE routes[d]
  IN  /\ used # 0
      /\ routes' = [routes EXCEPT ![d] = new]
      /\ dirty' = (dirty \/ new # routes[d])
      /\ UNCHANGED <<clock, blobs, verified, ifaceVars, tunnel, queued,
                     announces, events>>

\* The unexpired entry with the fewest hops, the first of equals; 0 for none.
FewestHops(list) ==
  FoldLeft(LAMBDA best, k :
             IF IsExpired(list[k]) \/ (best # 0 /\ list[k].hops >= list[best].hops)
             THEN best ELSE k,
           0, [k \in DOMAIN list |-> k])

Refresh(e) == [e EXCEPT !.timestamp = clock]

\* A link request in transit: whether or not select_path_excluding finds a route
\* that avoids the arrival interface, the first entry of the list is refreshed.
ForwardLinkRequest(d) ==
  /\ routes[d] # <<>>
  /\ routes' = [routes EXCEPT ![d][1] = Refresh(@)]
  /\ UNCHANGED <<clock, blobs, verified, dirty, ifaceVars, tunnel, queued,
                 announces, events>>

\* A data packet in transit: after the step above the packet is forwarded again
\* by the route with the fewest hops, and every entry is refreshed.
ForwardData(d) ==
  /\ routes[d] # <<>>
  /\ routes' = [routes EXCEPT ![d] =
       IF FewestHops(@) # 0 THEN [k \in DOMAIN @ |-> Refresh(@[k])]
       ELSE [@ EXCEPT ![1] = Refresh(@)]]
  /\ UNCHANGED <<clock, blobs, verified, dirty, ifaceVars, tunnel, queued,
                 announces, events>>

\* clone_path: the source's best route is put in front of the destination's
\* list, with no test for a duplicate and no eviction.
ClonePath(s, d) ==
  /\ events < MaxEvents
  /\ s # d
  /\ HasPath(s)
  /\ events' = events + 1
  /\ routes' = [routes EXCEPT ![d] = <<routes[s][SelectPath(routes[s])]>> \o @]
  /\ dirty' = TRUE
  /\ verified' = IF s \in verified THEN verified \cup {d} ELSE verified
  /\ UNCHANGED <<clock, blobs, ifaceVars, tunnel, queued, announces>>

----------------------------------------------------------------------------
(***************************************************************************)
(* Tunnels, interfaces and time.                                           *)
(***************************************************************************)

\* A recorded path goes back when it has not expired and no unexpired route has
\* fewer hops.
Restorable(d, p) ==
  /\ clock <= p.expires
  /\ \A e \in ToSet(routes[d]) : e.expires > clock => p.hops <= e.hops

\* handle_tunnel: the tunnel's peer appeared on interface i.  Only a registered
\* interface gets the tunnel_id; the paths are restored in any case.
HandleTunnel(i) ==
  LET back == {d \in Dests : tunnel.known /\ tunnel.paths[d].known
                             /\ Restorable(d, tunnel.paths[d])}
  IN  /\ events < MaxEvents
      /\ events' = events + 1
      /\ carries' = carries \cup ({i} \ {j \in Interfaces : iface[j] = "gone"})
      /\ tunnel' = [known |-> TRUE, expires |-> clock + Lifetime,
                    paths |-> [d \in Dests |->
                                 IF d \in back THEN tunnel.paths[d] ELSE NoPath]]
      /\ routes' = [d \in Dests |->
           IF d \notin back THEN routes[d]
           ELSE LET p == tunnel.paths[d]
                IN  AdmitRoute(routes[d],
                      [timestamp |-> clock, hop |-> p.hop, hops |-> p.hops,
                       expires |-> p.expires, iface |-> i, hash |-> p.hash])]
      /\ dirty' = (dirty \/ back # {})
      /\ UNCHANGED <<clock, blobs, verified, iface, queued, announces>>

\* set_interface_online.
SetInterfaceOnline(i, up) ==
  /\ events < MaxEvents
  /\ iface[i] = IF up THEN "offline" ELSE "online"
  /\ iface' = [iface EXCEPT ![i] = IF up THEN "online" ELSE "offline"]
  /\ events' = events + 1
  /\ UNCHANGED <<clock, tableVars, carries, announces>>

DeregisterKeepingTunnel(i) ==
  /\ events < MaxEvents
  /\ iface[i] # "gone"
  /\ iface' = [iface EXCEPT ![i] = "gone"]
  /\ events' = events + 1
  /\ UNCHANGED <<clock, tableVars, carries, announces>>

\* deregister_interface_stub: the stub and its tunnel_id are gone, the routes
\* over it stay.
DeregisterInterface(i) ==
  /\ events < MaxEvents
  /\ iface[i] # "gone"
  /\ iface' = [iface EXCEPT ![i] = "gone"]
  /\ carries' = carries \ {i}
  /\ events' = events + 1
  /\ UNCHANGED <<clock, tableVars, announces>>

\* register_interface_stub_config, with the online flag of its configuration.
RegisterInterface(i, up) ==
  /\ events < MaxEvents
  /\ iface[i] = "gone"
  /\ iface' = [iface EXCEPT ![i] = IF up THEN "online" ELSE "offline"]
  /\ events' = events + 1
  /\ UNCHANGED <<clock, tableVars, carries, announces>>

Tick ==
  /\ clock < MaxTime
  /\ clock' = clock + 1
  /\ UNCHANGED <<tableVars, ifaceVars, announces, events>>

AnnounceStep ==
  \E d \in Dests, e \in Emissions, p \in Neighbours, h \in 1 .. MaxHops :
    Announce(d, e, p[1], p[2], h)

OtherStep ==
  \/ \E d \in Dests : ExpirePath(d)
  \/ \E d \in Dests, i \in Interfaces : MarkPathUnresponsive(d, i)
  \/ Cull
  \/ \E d \in Dests : PendingLinkClosed(d)
  \/ \E d \in Dests : Outbound(d)
  \/ \E d \in Dests : ForwardLinkRequest(d)
  \/ \E d \in Dests : ForwardData(d)
  \/ \E i \in Interfaces : HandleTunnel(i)
  \/ \E i \in Interfaces, up \in BOOLEAN : SetInterfaceOnline(i, up)
  \/ \E i \in Interfaces : DeregisterInterface(i)
  \/ \E i \in Interfaces, up \in BOOLEAN : RegisterInterface(i, up)
  \/ Tick

\* clone_path is called from outside the table's own handlers; PathService adds
\* it, with the notification that follows the unlock.
Next == AnnounceStep \/ OtherStep

Spec == Init /\ [][Next]_vars

----------------------------------------------------------------------------
(***************************************************************************)
(* Properties.                                                             *)
(***************************************************************************)

\* Every list holds well-formed entries and is no longer than the cap allows,
\* except for what clone_path put in front; at most MaxBlobs emissions are
\* remembered for a destination.
TypeOK ==
  /\ clock \in 0 .. MaxTime
  /\ routes \in [Dests -> Seq(PathEntry)]
  /\ \A d \in Dests : Len(routes[d]) <= MaxPaths + events
  /\ blobs \in [Dests -> Seq(Emissions)]
  /\ \A d \in Dests : Len(blobs[d]) <= MaxBlobs
  /\ verified \subseteq Dests
  /\ dirty \in BOOLEAN
  /\ iface \in [Interfaces -> {"online", "offline", "gone"}]
  /\ carries \subseteq {i \in Interfaces : iface[i] # "gone"}
  /\ tunnel = NoTunnel \/ tunnel \in [known : {TRUE}, expires : 0 .. MaxTime + Lifetime,
                                       paths : [Dests -> {NoPath} \cup RecordedPath]]
  /\ queued \in [Dests -> Seq(Emissions)]
  /\ announces \in 0 .. MaxAnnounces
  /\ events \in 0 .. MaxEvents

\* The steps that admit a route.
Admits ==
  \/ announces' # announces
  \/ events' # events /\ \E i \in Interfaces : HandleTunnel(i)

\* The rule of admit_route that a short route is never displaced by longer
\* copies: when an announce or a tunnel pushes a route out of a list, every
\* route left in the list is at least as short.
ShortRouteKept ==
  [][Admits => \A d \in Dests :
       \A e \in ToSet(routes[d]) :
         \/ \E f \in ToSet(routes'[d]) : SameRoute(e, f)
         \/ \A f \in ToSet(routes'[d]) : f.hops <= e.hops]_vars


\* "A destination's list lives and dies with its path-table entry": a
\* destination with no route has no remembered emissions, so its next announce
\* starts afresh.
BlobsDieWithRoutes == \A d \in Dests : routes[d] = <<>> => blobs[d] = <<>>

\* A route admitted to a list costs the destination its reachability in one case
\* only: it is itself not usable, its interface having gone down or away while the
\* announce or tunnel packet was on its way here (or, restored from a tunnel,
\* expiring at this moment), and it is no longer than any route that was usable.
\* A list that clone_path made longer than the cap is left out: the next admission
\* may evict several routes of it at once.
AdmissionKeepsReachable ==
  [][Admits => \A d \in Dests :
       HasPath(d) /\ Len(routes[d]) <= MaxPaths
       => \/ HasPath(d)'
          \/ \E new \in ToSet(routes'[d]) \ ToSet(routes[d]) :
               /\ ~Usable(new)
               /\ \A e \in ToSet(routes[d]) : Usable(e) => new.hops <= e.hops]_vars

\* select_path's single pass returns a usable entry whenever there is one, and
\* the best scoring, newest listed among equals.
SelectsBest ==
  \A d \in Dests :
    LET list == routes[d]
        best == SelectPath(list)
        usable == {k \in DOMAIN list : Usable(list[k])}
    IN  IF usable = {} THEN best = 0
        ELSE /\ best \in usable
             /\ \A k \in usable : /\ ~ScoresAbove(list[k], list[best])
                                  /\ k < best => ScoresAbove(list[best], list[k])

\* "Stale paths also get their expiry shortened": after a send over a stale
\* route, that route expires within the stale threshold.
StaleUsedIsShortened ==
  [][\A d \in Dests :
       LET used == SelectPath(routes[d])
       IN  Outbound(d) /\ IsStale(routes[d][used])
             => routes'[d][used].expires <= clock + StaleThreshold]_vars

\* The interfaces a data packet in transit is dispatched on: by the best route
\* not over its arrival interface, and then twice by the route with the fewest
\* hops.
DataDispatch(d, i) ==
  LET best == SelectPathExcluding(routes[d], i)
      fewest == FewestHops(routes[d])
  IN  {routes[d][k].iface : k \in {best, fewest} \ {0}}

\* "Forwarding a transit packet back down the interface it came from is never
\* correct": no data packet in transit is dispatched on its arrival interface.
SplitHorizon ==
  \A d \in Dests, i \in Interfaces : Online(i) => i \notin DataDispatch(d, i)

=============================================================================
