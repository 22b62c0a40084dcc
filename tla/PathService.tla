---------------------------- MODULE PathService ----------------------------
(***************************************************************************)
(* The path table in a process that saves it to disk, may stop and start   *)
(* again, and has threads blocked in wait_for_path.  PathTable's actions   *)
(* are composed with                                                       *)
(*   - the save in jobs(): the dirty flag is cleared under the lock, which *)
(*     is dropped and taken again to write the file;                       *)
(*   - persist_data: the path table and then the tunnel table;             *)
(*   - a crash at any point, and the load in Transport::start;             *)
(*   - one waiter on the generation counter of PATH_ADDED_NOTIFY, for      *)
(*     wait_for_path or wait_for_path_verified_this_session.               *)
(*                                                                         *)
(* The counter itself is unbounded; the waiter only asks whether it        *)
(* differs from the value it last saw.  Crashes and waits count towards    *)
(* MaxEvents.                                                              *)
(*                                                                         *)
(* WaitWithoutCheck is a defective variant of the definition it precedes;  *)
(* the specification does not use it.                                      *)
(***************************************************************************)
EXTENDS PathTable

VARIABLES
  disk,       \* the file destination_table
  diskTunnel, \* the file tunnels
  saving,     \* jobs() has cleared the dirty flag and not yet written
  persisting, \* persist_data has saved the path table, not yet the tunnels
  failed,     \* the last write of destination_table failed
  waiter,     \* the waiting thread: program counter, destination, kind
  changed,    \* the generation differs from the one the waiter last saw
  notifying,  \* clone_path calls between the unlock and the notification
  silent      \* the path waited for came by a step that notifies nobody

diskVars == <<disk, diskTunnel, saving, persisting, failed>>
waitVars == <<waiter, changed, silent>>
serviceVars == <<vars, diskVars, waitVars, notifying>>

Idle == [pc |-> "idle"]

\* What wait_for_path, or its verified variant, waits for.
Ready(w) == HasPath(w.dest) /\ (w.verified => w.dest \in verified)

ServiceInit ==
  /\ Init
  /\ disk = [d \in Dests |-> <<>>]
  /\ diskTunnel = NoTunnel
  /\ saving = FALSE
  /\ persisting = FALSE
  /\ failed = FALSE
  /\ waiter = Idle
  /\ changed = FALSE
  /\ notifying = 0
  /\ silent = FALSE

----------------------------------------------------------------------------
(***************************************************************************)
(* The steps of PathTable and whom they notify.                            *)
(***************************************************************************)

\* notify_path_added: the generation moves on, whatever the waiter last saw.
NotifyPathAdded == changed' = TRUE

\* An announce notifies under the TRANSPORT lock.
ServiceAnnounce ==
  /\ AnnounceStep
  /\ NotifyPathAdded
  /\ UNCHANGED <<diskVars, waiter, silent, notifying>>

\* clone_path releases the lock first.
ServiceClone ==
  /\ \E s, d \in Dests : ClonePath(s, d)
  /\ notifying' = notifying + 1
  /\ UNCHANGED <<diskVars, waitVars>>

CloneNotifies ==
  /\ notifying > 0
  /\ NotifyPathAdded
  /\ notifying' = notifying - 1
  /\ UNCHANGED <<vars, diskVars, waiter, silent>>

\* No other step notifies; a tunnel's restored paths and an interface that
\* comes online can still make the destination reachable.
ServiceOther ==
  /\ OtherStep
  /\ UNCHANGED <<diskVars, waiter, changed, notifying>>
  /\ silent' = (silent \/ (waiter # Idle /\ ~Ready(waiter) /\ Ready(waiter)'))

----------------------------------------------------------------------------
(***************************************************************************)
(* Saving and restarting.                                                  *)
(***************************************************************************)

\* jobs(): the table is dirty and the save interval has passed.
JobsSave ==
  /\ dirty /\ ~saving
  /\ dirty' = FALSE
  /\ saving' = TRUE
  /\ UNCHANGED <<clock, routes, blobs, verified, iface, carries, tunnel, queued,
                 announces, events, disk, diskTunnel, persisting, failed,
                 waitVars, notifying>>

\* save_path_table: the file is replaced by renaming a complete new one, or, on
\* an error that nobody hears of, stays as it was.
SavePathTable(ok) ==
  /\ disk' = IF ok THEN routes ELSE disk
  /\ failed' = ~ok

JobsWrite(ok) ==
  /\ saving
  /\ SavePathTable(ok)
  /\ saving' = FALSE
  /\ UNCHANGED <<vars, diskTunnel, persisting, waitVars, notifying>>

PersistPathTable(ok) ==
  /\ ~persisting
  /\ SavePathTable(ok)
  /\ persisting' = TRUE
  /\ UNCHANGED <<vars, diskTunnel, saving, waitVars, notifying>>

PersistTunnelTable(ok) ==
  /\ persisting
  /\ diskTunnel' = IF ok THEN tunnel ELSE diskTunnel
  /\ persisting' = FALSE
  /\ UNCHANGED <<vars, disk, saving, failed, waitVars, notifying>>

\* Transport::start drops the entries that expired while the process was down
\* from a file in the current format (the fallback to the old one is left out),
LoadPathTable ==
  [d \in Dests |-> SelectSeq(disk[d], LAMBDA e : ~IsExpired(e))]

\* and load_tunnel_table the tunnel or the recorded paths that did.
LoadTunnelTable ==
  IF ~diskTunnel.known \/ diskTunnel.expires < clock THEN NoTunnel
  ELSE [diskTunnel EXCEPT !.paths = [d \in Dests |->
          IF @[d].known /\ @[d].expires < clock THEN NoPath ELSE @[d]]]

\* The process stops, at any point, and starts again, with a configuration that
\* may have lost interfaces: the routes come back, the remembered emissions and
\* the verified marks do not.
Restart ==
  /\ events < MaxEvents
  /\ events' = events + 1
  /\ routes' = LoadPathTable
  /\ verified' = {}
  /\ blobs' = [d \in Dests |-> <<>>]
  /\ queued' = [d \in Dests |-> <<>>]
  /\ dirty' = FALSE
  /\ tunnel' = LoadTunnelTable
  /\ \E kept \in SUBSET Interfaces :
       iface' = [i \in Interfaces |-> IF i \in kept THEN "online" ELSE "gone"]
  /\ carries' = {}
  /\ saving' = FALSE
  /\ persisting' = FALSE
  /\ waiter' = Idle
  /\ changed' = FALSE
  /\ notifying' = 0
  /\ silent' = FALSE
  /\ UNCHANGED <<clock, announces, disk, diskTunnel, failed>>

----------------------------------------------------------------------------
(***************************************************************************)
(* wait_for_path and wait_for_path_verified_this_session.                  *)
(***************************************************************************)

Others == <<vars, diskVars, notifying>>

\* The fast path: return at once when the path is there.
WaitForPath(d, v) ==
  LET w == [pc |-> "gen", dest |-> d, verified |-> v]
  IN  /\ events < MaxEvents
      /\ waiter = Idle
      /\ ~Ready(w)
      /\ waiter' = w
      /\ events' = events + 1
      /\ UNCHANGED <<clock, tableVars, ifaceVars, announces, diskVars,
                     changed, silent, notifying>>

WaitWithoutCheck ==
  /\ waiter.pc = "gen"
  /\ waiter' = [waiter EXCEPT !.pc = "wait"]
  /\ changed' = FALSE
  /\ UNCHANGED <<silent, Others>>

\* Read the generation,
ReadGeneration ==
  /\ waiter.pc = "gen"
  /\ waiter' = [waiter EXCEPT !.pc = "check"]
  /\ changed' = FALSE
  /\ UNCHANGED <<silent, Others>>

\* then check again,
CheckAgain ==
  /\ waiter.pc = "check"
  /\ waiter' = IF Ready(waiter) THEN Idle ELSE [waiter EXCEPT !.pc = "wait"]
  /\ silent' = FALSE
  /\ UNCHANGED <<changed, Others>>

\* then wait for another generation and go back to the check.
Woken ==
  /\ waiter.pc = "wait" /\ changed
  /\ waiter' = [waiter EXCEPT !.pc = "check"]
  /\ changed' = FALSE
  /\ UNCHANGED <<silent, Others>>

\* The budget is over.
GiveUp ==
  /\ waiter.pc = "wait"
  /\ waiter' = Idle
  /\ silent' = FALSE
  /\ UNCHANGED <<changed, Others>>

ServiceNext ==
  \/ ServiceAnnounce \/ ServiceClone \/ CloneNotifies \/ ServiceOther
  \/ JobsSave
  \/ \E ok \in BOOLEAN : JobsWrite(ok)
  \/ \E ok \in BOOLEAN : PersistPathTable(ok)
  \/ \E ok \in BOOLEAN : PersistTunnelTable(ok)
  \/ Restart
  \/ \E d \in Dests, v \in BOOLEAN : WaitForPath(d, v)
  \/ ReadGeneration \/ CheckAgain \/ Woken \/ GiveUp

ServiceSpec == ServiceInit /\ [][ServiceNext]_serviceVars

----------------------------------------------------------------------------
(***************************************************************************)
(* Properties.                                                             *)
(***************************************************************************)

\* The path table is well formed in every session, and so are the files, the
\* flags and the waiter.
ServiceTypeOK ==
  /\ TypeOK
  /\ disk \in [Dests -> Seq(PathEntry)]
  /\ diskTunnel = NoTunnel \/ DOMAIN diskTunnel.paths = Dests
  /\ {saving, persisting, failed, changed, silent} \subseteq BOOLEAN
  /\ notifying \in 0 .. MaxEvents
  /\ waiter = Idle \/ waiter \in [pc : {"gen", "check", "wait"}, dest : Dests,
                                   verified : BOOLEAN]

\* The unexpired routes of a list, without the timestamps, which transit traffic
\* and a closed pending link change and do not set the flag for.
Durable(list) ==
  LET live == SelectSeq(list, LAMBDA e : ~IsExpired(e))
  IN  [k \in DOMAIN live |-> [live[k] EXCEPT !.timestamp = 0]]

\* path_table_dirty tells the truth: when it is clear, no save is under way and
\* the last write did not fail, a restart would load the routes the table
\* holds.  A change made between the moment jobs() clears the flag and the
\* moment the file is written is in the file or sets the flag again.
CleanIsOnDisk ==
  ~dirty /\ ~saving /\ ~failed
    => \A d \in Dests : Durable(disk[d]) = Durable(routes[d])

\* The generation counter loses no wakeup: while a thread is blocked in
\* wait_for_path with no notification due to it, the path is not there, unless
\* it came by a step that notifies nobody.
NoLostWakeup ==
  waiter # Idle /\ waiter.pc = "wait" /\ ~changed /\ notifying = 0 /\ ~silent
    => ~Ready(waiter)

=============================================================================
