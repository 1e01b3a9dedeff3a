----------------------------- MODULE MCAutoloader -----------------------------
(* Instances of Autoloader for TLC: one budget of outside events per run. *)
EXTENDS Autoloader

CONSTANTS a, b  \* two files of the volume

Nothing == [e \in Events |-> 0]

\* One runner, with what may fail around it.
FaultBudget == [Nothing EXCEPT !["crash"] = 1, !["dbfail"] = 1, !["reset"] = 1]

\* One runner again, for liveness.
LiveBudget == [Nothing EXCEPT !["crash"] = 1, !["dbfail"] = 1, !["remove"] = 1,
                              !["writefail"] = 1]

\* Both runners, and a pipeline that is deleted and created again under its id
\* while their cycles run.
SharedBudget == [Nothing EXCEPT !["manual"] = 1, !["recreate"] = 1,
                                !["remove"] = 1, !["update"] = 1]

\* One thing that exactly-once does not survive.
CrashBudget == [Nothing EXCEPT !["crash"] = 1]

=============================================================================
