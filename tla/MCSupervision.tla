---------------------------- MODULE MCSupervision ---------------------------
(***************************************************************************)
(* TLC instance of Supervision: a child restarted at once, one restarted   *)
(* after a backoff, and one of each other strategy.                        *)
(***************************************************************************)
EXTENDS Supervision

WithStrategy(strategy, base) ==
    [strategy |-> strategy, max_restarts |-> 1, window |-> 1,
     backoff_base |-> base, backoff_max |-> 1]

AllConfigs ==
    {WithStrategy("Restart", 0), WithStrategy("Restart", 1), WithStrategy("Stop", 0),
     WithStrategy("Escalate", 0), WithStrategy("Resume", 0)}

=============================================================================
