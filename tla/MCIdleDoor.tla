---------------------------- MODULE MCIdleDoor ----------------------------
EXTENDS IdleDoor

CONSTANTS t1, t2

Conf(d, l, w, f, ts) == [door |-> d, loop |-> l, wrapped |-> w, faults |-> f, tasks |-> ts]

MCConfs == {
  Conf("repl", TRUE, TRUE, FALSE, {}),
  Conf("server", TRUE, TRUE, FALSE, {}),
  Conf("repl", TRUE, TRUE, TRUE, {}),
  Conf("server", TRUE, TRUE, FALSE, {t1}),
  Conf("repl", FALSE, TRUE, TRUE, {t1}),
  Conf("repl", FALSE, TRUE, FALSE, {t1, t2}),
  Conf("server", FALSE, FALSE, TRUE, {t1})}
=============================================================================
