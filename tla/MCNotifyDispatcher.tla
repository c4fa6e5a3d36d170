------------------------- MODULE MCNotifyDispatcher -------------------------
(* Two publications, two rules and two workers over a channel with room for  *)
(* one job.  A failed run carries no severity, a failed check does.          *)
EXTENDS NotifyDispatcher

CONSTANTS n1, n2, u1, u2, w1, w2

MCEvent(n) ==
    IF n = n1 THEN [type |-> "run.failed", severity |-> ""]
              ELSE [type |-> "check.failed", severity |-> "error"]

MCRuleConfs ==
    { [enabled |-> TRUE, types |-> {}, min |-> "", channel |-> TRUE],
      [enabled |-> TRUE, types |-> {"run.failed"}, min |-> "", channel |-> FALSE],
      [enabled |-> TRUE, types |-> {}, min |-> "warning", channel |-> TRUE],
      [enabled |-> FALSE, types |-> {}, min |-> "", channel |-> TRUE] }
=============================================================================
