---------------------------- MODULE PortMapping -----------------------------
(***************************************************************************)
(* The thread that keeps the host's ports mapped on the router             *)
(* (src/upnp.cpp, upnp_thread_proc). The router forgets what it was told   *)
(* when it restarts, gives leases that lapse, knows other machines, and    *)
(* comes in several kinds; a round is REFRESH_INTERVAL long.               *)
(*                                                                         *)
(* A static mapping and one without a lease are the same thing to UPnP. A  *)
(* mapping to an address that the host no longer has is another machine's. *)
(***************************************************************************)
EXTENDS Integers

CONSTANTS
  MaxPorts,   \* how many ports are mapped; six or seven in the code
  Lifetime,   \* PORT_MAPPING_LIFETIME in rounds; 30 in the code
  Kinds,      \* routers: "good", "static" (no leases), "locked" (deletes no
              \* other machine's mapping), "broken" (answers no query)
  MaxTroubles \* bound: what happens to the router and its entries

Ports == 1 .. MaxPorts

VARIABLES
  kind, up,  \* external: the router
  entries,   \* external: its entry of each port; ours has the rounds left
  at,        \* where the thread is
  next,      \* the port it maps or unmaps next
  mapped,
  shutdown,  \* mail::shutdown has been raised
  troubles

routerVars == <<kind, up, troubles>>
vars == <<routerVars, entries, at, next, mapped, shutdown>>

NoEntry == -2
Other == -1
Static == 0
Ours(p) == entries[p] >= Static

Init ==
  /\ kind \in Kinds /\ up = TRUE /\ troubles = 0
  /\ entries = [p \in Ports |-> NoEntry]
  /\ at = "discover" /\ next = 1
  /\ mapped = FALSE /\ shutdown = FALSE

-----------------------------------------------------------------------------
(* One round: discover the router, then map port after port.               *)

Discover ==
  /\ at = "discover" /\ up
  /\ at' = "map" /\ next' = 1
  /\ UNCHANGED <<routerVars, entries, mapped, shutdown>>

\* Nobody answers, or not in time; what is mapped is forgotten.
DiscoverFails ==
  /\ at = "discover"
  /\ up => troubles < MaxTroubles
  /\ troubles' = IF up THEN troubles + 1 ELSE troubles
  /\ at' = "sleep" /\ mapped' = FALSE
  /\ UNCHANGED <<kind, up, entries, next, shutdown>>

(* What a mapping is like after AddPortMapping, first with a lease and,    *)
(* unless an odd answer made it indefinite, again without.                 *)
Added(p, indefinite) ==
  IF entries[p] = Other /\ kind = "broken" THEN Other
  ELSE IF indefinite \/ kind = "static" THEN Static ELSE Lifetime

MapOnce(p, odd) ==   \* mutant: a lease that still runs is not renewed
  entries' = [entries EXCEPT ![p] =
    IF ~up THEN @
    ELSE IF odd \/ kind = "broken" THEN Added(p, TRUE)
    ELSE IF @ >= Static \/ (@ = Other /\ kind = "locked") THEN @
    ELSE Added(p, FALSE)]

(* map_upnp_port: a static mapping of ours is left alone, another          *)
(* machine's is deleted first if the router lets us, an odd answer to the  *)
(* query makes the mapping indefinite.                                     *)
map_upnp_port(p, odd) ==
  entries' = [entries EXCEPT ![p] =
    IF ~up THEN @
    ELSE IF odd \/ kind = "broken" THEN Added(p, TRUE)
    ELSE IF @ = Static \/ (@ = Other /\ kind = "locked") THEN @
    ELSE Added(p, FALSE)]

MapPort(odd) ==
  /\ at = "map" /\ next <= MaxPorts /\ ~shutdown
  /\ odd => troubles < MaxTroubles
  /\ troubles' = IF odd THEN troubles + 1 ELSE troubles
  /\ map_upnp_port(next, odd)
  /\ next' = next + 1
  /\ UNCHANGED <<kind, up, at, mapped, shutdown>>

MapsDone ==
  /\ at = "map" /\ (next > MaxPorts \/ shutdown)
  /\ at' = "sleep" /\ mapped' = TRUE
  /\ UNCHANGED <<routerVars, entries, next, shutdown>>

(* shutdown_event->view(REFRESH_INTERVAL): a round of every lease passes.  *)
Age(e) == IF e > 1 THEN e - 1 ELSE IF e = 1 THEN NoEntry ELSE e

Sleep ==
  /\ at = "sleep" /\ ~shutdown
  /\ entries' = [p \in Ports |-> Age(entries[p])]
  /\ at' = "discover"
  /\ UNCHANGED <<routerVars, next, mapped, shutdown>>

WakeToEnd ==
  /\ at = "sleep" /\ shutdown
  /\ at' = IF mapped THEN "unmap" ELSE "done"
  /\ next' = 1
  /\ UNCHANGED <<routerVars, entries, mapped, shutdown>>

(* unmap_all_upnp_ports does not ask whose mapping it deletes.             *)
UnmapPort ==
  /\ at = "unmap"
  /\ entries' = [entries EXCEPT ![next] =
       IF up /\ ~(@ = Other /\ kind = "locked") THEN NoEntry ELSE @]
  /\ IF next = MaxPorts THEN at' = "done" /\ UNCHANGED next
     ELSE next' = next + 1 /\ UNCHANGED at
  /\ UNCHANGED <<routerVars, mapped, shutdown>>

-----------------------------------------------------------------------------
(* The world.                                                              *)

\* The router goes down with its entries, or another machine takes a port,
\* or the host gets another address.
Trouble ==
  /\ troubles < MaxTroubles /\ troubles' = troubles + 1
  /\ \/ /\ up' = FALSE /\ entries' = [p \in Ports |-> NoEntry]
     \/ /\ \E p \in Ports : entries[p] = NoEntry /\ up
             /\ entries' = [entries EXCEPT ![p] = Other]
        /\ UNCHANGED up
     \/ /\ entries' = [p \in Ports |-> IF Ours(p) THEN Other ELSE entries[p]]
        /\ UNCHANGED up
  /\ UNCHANGED <<kind, at, next, mapped, shutdown>>

RouterReturns ==
  /\ ~up /\ up' = TRUE
  /\ UNCHANGED <<kind, entries, at, next, mapped, shutdown, troubles>>

ShutDown ==
  /\ ~shutdown /\ shutdown' = TRUE
  /\ UNCHANGED <<routerVars, entries, at, next, mapped>>

Thread ==
  \/ Discover \/ DiscoverFails \/ MapPort(FALSE) \/ MapsDone
  \/ Sleep \/ WakeToEnd \/ UnmapPort

Next == Thread \/ MapPort(TRUE) \/ Trouble \/ RouterReturns \/ ShutDown

(* The thread keeps running, and the router comes back.                    *)
Fairness == WF_vars(Thread) /\ WF_vars(RouterReturns)

-----------------------------------------------------------------------------
(* Whatever happens to the router, once it stays up every port is mapped   *)
(* to the host again, and stays so, round after round, without its lease   *)
(* ever lapsing; unless the router keeps another machine's mapping         *)
(* (upnp_thread_proc: "They can be lost if the router reboots").           *)
PortsComeBack ==
  \A p \in Ports :
    <>[](\/ shutdown \/ Ours(p)
         \/ entries[p] = Other /\ kind \in {"locked", "broken"})
=============================================================================
