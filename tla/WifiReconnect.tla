---------------------------- MODULE WifiReconnect ----------------------------
(***************************************************************************)
(* The station of samples/static_control (src/main.c): connect_network in  *)
(* the main thread, the reconnect probe's thread, and the event handlers   *)
(* that the network stack calls.  The threads learn of the network only    *)
(* through three binary semaphores.  The driver and DHCP are external: a   *)
(* request is refused or answered later by an event, successful or not,    *)
(* an association is followed by an address, and the access point may be   *)
(* lost and found again without being asked.                               *)
(***************************************************************************)
EXTENDS Integers, Sequences, FiniteSets

CONSTANT MaxDrops   \* bound on unasked losses of the access point

VARIABLES
  link,       \* "down", "up"; associated with the access point
  address,    \* the interface has its address
  wanted,     \* the driver keeps the station associated
  asked,      \* the request that the driver is working on, or "none"
  events,     \* events raised and not yet given to the handlers
  sem,        \* wifi_connected, wifi_disconnected, ipv4_ready
  pc,         \* where each thread is
  drops,
  since       \* history: what the link did since the probe's disconnect

vars == <<link, address, wanted, asked, events, sem, pc, drops, since>>

driver == <<link, address, wanted, asked, events>>

Sem == {"wifi_connected", "wifi_disconnected", "ipv4_ready"}

Event == {"connect", "connect_failed", "disconnect", "disconnect_failed",
          "addr_add"}

MainPoint == {"request", "connected", "ipv4", "configure", "ready", "failed"}

ProbePoint == {"none", "sleep", "disconnected", "offline", "connected", "ipv4",
               "reconnected", "error"}

TypeOK ==
  /\ link \in {"down", "up"} /\ address \in BOOLEAN /\ wanted \in BOOLEAN
  /\ asked \in {"none", "connect", "disconnect"}
  /\ events \in Seq(Event)
  /\ sem \in [Sem -> 0..1]
  /\ pc \in [main : MainPoint, probe : ProbePoint]
  /\ drops \in 0..MaxDrops
  /\ since \subseteq {"down", "up", "address"}

-----------------------------------------------------------------------------
(***************************************************************************)
(* The driver, DHCP and the access point.                                  *)
(***************************************************************************)

\* Does the association or its loss, if it has to happen, and raises the event.
LinkUp(raised) ==
  /\ link' = "up" /\ since' = since \cup {"up"}
  /\ events' = Append(events, raised)
  /\ UNCHANGED address

LinkDown(raised) ==
  /\ link' = "down" /\ address' = FALSE
  /\ since' = since \cup {"down"}
  /\ events' = Append(events, raised)

Answer ==
  /\ asked # "none" /\ asked' = "none"
  /\ wanted' = (asked = "connect")
  /\ \/ asked = "connect" /\ link = "down" /\ LinkUp("connect")
     \/ asked = "disconnect" /\ link = "up" /\ LinkDown("disconnect")
     \/ /\ events' = Append(events, IF asked = "connect" THEN "connect_failed"
                                    ELSE "disconnect_failed")
        /\ UNCHANGED <<link, address, since>>
  /\ UNCHANGED <<sem, pc, drops>>

Dhcp ==
  /\ link = "up" /\ ~address
  /\ address' = TRUE /\ since' = since \cup {"address"}
  /\ events' = Append(events, "addr_add")
  /\ UNCHANGED <<link, wanted, asked, sem, pc, drops>>

\* The access point is lost, and found by the driver itself
\* (CONFIG_ESP32_WIFI_STA_RECONNECT).
Drop ==
  /\ link = "up" /\ asked = "none" /\ drops < MaxDrops
  /\ drops' = drops + 1
  /\ LinkDown("disconnect")
  /\ UNCHANGED <<wanted, asked, sem, pc>>

Recover ==
  /\ link = "down" /\ drops > 0 /\ wanted /\ asked = "none"
  /\ LinkUp("connect")
  /\ UNCHANGED <<wanted, asked, sem, pc, drops>>

-----------------------------------------------------------------------------
(***************************************************************************)
(* The event handlers.                                                     *)
(***************************************************************************)

\* wifi_event_handler and ipv4_event_handler: a failed result only logs.
SemaphoreOf(event) ==
  CASE event = "connect"    -> {"wifi_connected"}
    [] event = "disconnect" -> {"wifi_disconnected"}
    [] event = "addr_add"   -> {"ipv4_ready"}
    [] OTHER -> {}

\* The network stack's thread runs the handler of the next event.
Handle ==
  /\ events # <<>>
  /\ events' = Tail(events)
  /\ sem' = [s \in Sem |-> IF s \in SemaphoreOf(Head(events)) THEN 1 ELSE sem[s]]
  /\ UNCHANGED <<link, address, wanted, asked, pc, drops, since>>

-----------------------------------------------------------------------------
(***************************************************************************)
(* The threads.                                                            *)
(***************************************************************************)

\* net_mgmt with a connect or disconnect request: accepted or refused.
Ask(request, t, accepted, refused) ==
  /\ \/ asked = "none" /\ asked' = request /\ pc' = [pc EXCEPT ![t] = accepted]
     \/ UNCHANGED asked /\ pc' = [pc EXCEPT ![t] = refused]
  /\ UNCHANGED <<link, address, wanted, events, sem, drops>>

\* Mutant of Take: it starts again at the limit.
TakeRetries(s, t, taken, failed) ==
  /\ \/ /\ sem[s] = 1 /\ sem' = [sem EXCEPT ![s] = 0]
        /\ pc' = [pc EXCEPT ![t] = taken]
     \/ sem[s] = 0 /\ UNCHANGED <<sem, pc>>
  /\ UNCHANGED <<driver, drops, since>>

\* k_sem_take with a limit of 30 s.
Take(s, t, taken, failed) ==
  /\ \/ /\ sem[s] = 1 /\ sem' = [sem EXCEPT ![s] = 0]
        /\ pc' = [pc EXCEPT ![t] = taken]
     \/ /\ sem[s] = 0 /\ UNCHANGED sem
        /\ pc' = [pc EXCEPT ![t] = failed]
  /\ UNCHANGED <<driver, drops, since>>

\* Power save off, and the address, which has to be there.
Configure ==
  /\ pc.main = "configure"
  /\ \/ address /\ pc' = [pc EXCEPT !.main = "ready"]
     \/ pc' = [pc EXCEPT !.main = "failed"]
  /\ UNCHANGED <<driver, sem, drops, since>>

\* Mutant of connect_network: the address is not waited for, only looked up.
connect_network_no_wait ==
  \/ /\ pc.main = "request" /\ Ask("connect", "main", "connected", "failed")
     /\ UNCHANGED since
  \/ /\ pc.main = "connected"
     /\ Take("wifi_connected", "main", "configure", "failed")
  \/ Configure

connect_network ==
  \/ /\ pc.main = "request" /\ Ask("connect", "main", "connected", "failed")
     /\ UNCHANGED since
  \/ pc.main = "connected" /\ Take("wifi_connected", "main", "ipv4", "failed")
  \/ pc.main = "ipv4" /\ Take("ipv4_ready", "main", "configure", "failed")
  \/ Configure

start_wifi_reconnect_probe ==
  /\ pc.main = "ready" /\ pc.probe = "none"
  /\ pc' = [pc EXCEPT !.probe = "sleep"]
  /\ UNCHANGED <<driver, sem, drops, since>>

wifi_reconnect_probe ==
  \/ /\ pc.probe = "sleep" /\ Ask("disconnect", "probe", "disconnected", "error")
     /\ since' = {}
  \/ /\ pc.probe = "disconnected"
     /\ Take("wifi_disconnected", "probe", "offline", "error")
  \/ /\ pc.probe = "offline" /\ Ask("connect", "probe", "connected", "error")
     /\ UNCHANGED since
  \/ pc.probe = "connected" /\ Take("wifi_connected", "probe", "ipv4", "error")
  \/ pc.probe = "ipv4" /\ Take("ipv4_ready", "probe", "reconnected", "error")

Finished ==
  /\ pc.main = "failed" \/ pc.probe \in {"reconnected", "error"}
  /\ UNCHANGED vars

Next ==
  \/ Answer \/ Dhcp \/ Drop \/ Recover \/ Handle
  \/ connect_network \/ start_wifi_reconnect_probe \/ wifi_reconnect_probe
  \/ Finished

Init ==
  /\ link = "down" /\ address = FALSE /\ wanted = FALSE /\ asked = "none"
  /\ events = <<>>
  /\ sem = [s \in Sem |-> 0]
  /\ pc = [main |-> "request", probe |-> "none"]
  /\ drops = 0 /\ since = {}

Spec == Init /\ [][Next]_vars

-----------------------------------------------------------------------------
\* The probe reports "phase=reconnected" only after the link went down, came
\* up and got an address again, unless the access point was lost unasked: no
\* semaphore still holds a token of the first connection.
ReconnectedIsReal ==
  pc.probe = "reconnected" /\ drops = 0 => since = {"down", "up", "address"}

\* The same without the exception: the probe "holds the Wi-Fi link down for
\* five seconds, and reconnects" before it reports "phase=reconnected".
ProbeReconnects ==
  pc.probe = "reconnected" => since = {"down", "up", "address"}

=============================================================================
