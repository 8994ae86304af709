---------------------------- MODULE MCTurnLoop ----------------------------
EXTENDS TurnLoop

(* A turn that can run into these rails, with a hook or not, a pool and a   *)
(* number of batches.                                                      *)
Conf(r, h, u, b) == [rails |-> r, hook |-> h, stream |-> FALSE, units |-> u, batches |-> b]
Streaming(c) == [c EXCEPT !.stream = TRUE]

MCTurns == {
  Conf({"degen", "apology", "ceiling", "empty"}, TRUE, 0, 1),
  Conf({"context", "failover", "provider", "limited"}, TRUE, 3, 0),
  Conf({"context", "filter", "ceiling"}, TRUE, 0, 0),
  Streaming(Conf({"degen", "failover", "filter", "ceiling"}, TRUE, 0, 0)),
  Streaming(Conf({"context", "failover", "limited", "interrupt", "provider"}, FALSE, 2, 0)),
  Conf({"recipe", "checks", "denied", "asks"}, TRUE, 0, 2),
  Conf({"recipe", "scope"}, FALSE, 0, 2),
  Conf({"recipe", "critic", "quality", "ceiling"}, FALSE, 0, 2),
  Conf({"plan", "coverage", "empty", "record", "ceiling"}, FALSE, 0, 2),
  Conf({"plan", "review", "empty"}, TRUE, 4, 1),
  Conf({"asks", "section", "length"}, TRUE, 0, 2),
  Conf({"section", "record"}, TRUE, 0, 1),
  Conf({"doom", "planfirst", "denied"}, FALSE, 5, 6),
  Conf({"stuck", "empty", "skill"}, TRUE, 0, 6),
  Conf({"stuck", "planfirst", "plan", "review"}, FALSE, 0, 4),
  Conf({"doom", "restart", "fatal", "awaiting_user"}, TRUE, 0, 6),
  Conf({"restart", "plan", "denied", "record"}, TRUE, 3, 3)}
=============================================================================
