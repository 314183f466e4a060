------------------------------ MODULE MCReminders -------------------------------
(* Reminders on a small instance: two processes with one run at a time and two  *)
(* workers each, two tasks.                                                     *)
EXTENDS Reminders

CONSTANTS t1, t2, p1, p2

MCTasks == {t1, t2}
MCAddressed == {t1}
MCProcesses == {p1, p2}
===============================================================================
