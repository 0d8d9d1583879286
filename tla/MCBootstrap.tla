------------------------------ MODULE MCBootstrap ------------------------------
(* A small instance of Bootstrap for TLC. *)
EXTENDS Bootstrap

CONSTANTS alice, bob, carol

\* One peer that is skipped, and two that are queried.
SkipThenTwo == <<carol, alice, bob>>
===============================================================================
