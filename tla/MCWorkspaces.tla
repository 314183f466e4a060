------------------------------ MODULE MCWorkspaces ------------------------------
(* A workspace on a small instance: three requests of two users, two flags with *)
(* different defaults.                                                          *)
EXTENDS Workspaces, TLC

CONSTANTS r1, r2, r3, u1, u2

MCRequests == {r1, r2, r3}
MCUsers == {u1, u2}
MCFields == {"exports", "advancedTaskFiltering"}
MCDefaults == [d \in Docs |-> [f \in MCFields |-> f = "exports"]]

\* One flag or both at a time, values apart from the defaults and equal to them.
Change(fs, v) == [f \in MCFields |-> IF f \in fs THEN v ELSE None]
MCChanges ==
  {[doc |-> "flags", change |-> Change({"exports"}, FALSE)],
   [doc |-> "flags", change |-> Change({"advancedTaskFiltering"}, TRUE)],
   [doc |-> "flags", change |-> Change(MCFields, TRUE)],
   [doc |-> "flags", change |-> Change(MCFields, FALSE)],
   [doc |-> "settings", change |-> Change({"exports"}, FALSE)]}
MCSymmetry == Permutations(MCRequests) \cup Permutations(MCUsers)
===============================================================================
