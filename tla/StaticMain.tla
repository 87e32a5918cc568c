----------------------------- MODULE StaticMain -----------------------------
(***************************************************************************)
(* main of samples/static_control with Wi-Fi: connect_network comes before *)
(* the deployment, the reconnect probe is started when control runs, and   *)
(* the network may be lost while the ROS objects are made or undone.       *)
(***************************************************************************)
EXTENDS Deployment

CONSTANT
  MaxDrops   \* bound on unasked losses of the access point

ASSUME MainAssumption ==
  /\ Kind \in Seq({"publisher", "subscription"})
  /\ MaxDrops \in Nat

VARIABLES link, address, wanted, asked, events, sem, thread, drops, since

W == INSTANCE WifiReconnect WITH pc <- thread

wifi == <<link, address, wanted, asked, events, sem, thread, drops, since>>

vars == <<wifi, deployment>>

TypeOK == W!TypeOK /\ DeploymentTypeOK

-----------------------------------------------------------------------------
\* The Wi-Fi driver and the event handlers at any time.
Network ==
  /\ W!Answer \/ W!Dhcp \/ W!Drop \/ W!Recover \/ W!Handle
  /\ UNCHANGED deployment

\* main returns 1 if there is no network.
Connect == W!connect_network /\ UNCHANGED deployment

\* From rclc_support_init on.
Deploy == thread.main = "ready" /\ Step /\ UNCHANGED wifi

\* The loop is entered and the probe started.
StartProbe ==
  pc = "spin" /\ W!start_wifi_reconnect_probe /\ UNCHANGED deployment

Probe == W!wifi_reconnect_probe /\ UNCHANGED deployment

Finished ==
  /\ \/ thread.main = "failed" \/ pc = "done"
     \/ thread.probe \in {"reconnected", "error"}
  /\ UNCHANGED vars

Next == Network \/ Connect \/ Deploy \/ StartProbe \/ Probe \/ Finished

Init == W!Init /\ DeploymentInit

Spec == Init /\ [][Next]_vars

\* Threads run, and a k_sem_take ends at its limit at the latest.
FairSpec ==
  /\ Spec
  /\ WF_vars(Connect) /\ WF_vars(Deploy) /\ WF_vars(StartProbe)
  /\ WF_vars(Probe)

-----------------------------------------------------------------------------
\* Every object that was made is finalised exactly once, whatever call of the
\* start-up failed: not twice, although ros2z_deployment_fini never clears the
\* *_initialized flags and has two callers, the error paths of
\* ros2z_deployment_init and the cleanup label; and when main returns none is
\* alive, unless a fini itself failed.
FinalizedExactlyOnce == FinalizedOnce /\ CleanExit

\* The probe reports "phase=reconnected" only after the link went down, came
\* up and got an address again, unless the access point was lost unasked: no
\* semaphore still holds a token of the first connection.
ReconnectedIsReal == W!ReconnectedIsReal

\* main either returns, having undone what it made, or reaches its loop, and
\* then the probe ends: nothing it calls waits without a limit.
MainSettles ==
  <>(thread.main = "failed" \/ pc = "done"
     \/ (pc = "spin" /\ thread.probe \in {"reconnected", "error"}))

=============================================================================
