---------------------------- MODULE MCRelayMonitor ----------------------------
(* Small instances of RelayMonitor for TLC. *)
EXTENDS RelayMonitor

CONSTANTS alice, bob, addr1, addr2
===============================================================================
