--------------------------- MODULE MCFirmwareSetup ---------------------------
(***************************************************************************)
(* One repository in every group and Zenoh-Pico beside Cyclone DDS; two    *)
(* files in the patches that have several.                                 *)
(***************************************************************************)
EXTENDS FirmwareSetup

MCRepo ==
  [host |-> {"rosidl"}, target |-> {"rcl"},
   platform |-> {"cyclonedds", "zenoh-pico"}]

MCFile ==
  [p \in {"kernel", "cyclonedds-zephyr-4.4", "cyclonedds-log-buffer",
          "cyclonedds-partial-magazines"} |->
     CASE p = "kernel" -> {"condvar.c"}
       [] p = "cyclonedds-zephyr-4.4" -> {"sync.c", "threads.c"}
       [] p = "cyclonedds-log-buffer" -> {"log.c", "config.h.in"}
       [] OTHER -> {"ddsi_freelist.c"}]

=============================================================================
