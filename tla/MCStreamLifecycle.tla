-------------------------- MODULE MCStreamLifecycle --------------------------
(***************************************************************************)
(* Small instances of StreamLifecycle: the platform's deployments.         *)
(***************************************************************************)
EXTENDS StreamLifecycle

CONSTANTS sched, apiA, apiB

\* Every process on one host, with one lock directory.
OneHost == [p \in Processes |-> "host"]

\* The scheduler in a container of its own, with a /tmp of its own.
TwoContainers ==
    [p \in Processes |-> IF p = sched THEN "scheduler" ELSE "api"]
=============================================================================
