------------------------------ MODULE MCFanout ------------------------------
(* Instances of Fanout for TLC: two tenants whose cron falls at different     *)
(* instants, a calendar entry at the tightest grace E002 allows and one with  *)
(* a spare tick, one whose grace E002 refuses, and an interval entry.         *)
EXTENDS Fanout, TLC

CONSTANTS t1, t2, w1, w2

MCOcc == t1 :> {1, 4} @@ t2 :> {2}

Calendar(grace, period) ==
  [task |-> "report", args |-> None, options |-> {"queue"}, scope |-> "tenants",
   kind |-> "calendar", grace |-> grace, period |-> period, every |-> None]

Interval == [Calendar(None, None) EXCEPT !.kind = "interval", !.every = 1]

\* Entries beside the one under test: for public, never wrapped, with options of
\* send_task, the same task with other args, and the same one again.
Beside ==
  {[Calendar(None, None) EXCEPT !.scope = "public"], [Calendar(None, None) EXCEPT !.scope = None],
   [Calendar(None, None) EXCEPT !.options = {"args"}], [Calendar(None, None) EXCEPT !.args = "seven"],
   Calendar(None, None)}

MCSchedules ==
  {<<e>> : e \in {Calendar(None, None), Calendar(4, None), Calendar(1, None), Calendar(4, 3), Interval}}
    \cup {<<Calendar(None, None), e>> : e \in Beside}

MCDigest == "seven" :> "0123456789ab"

\* A deployment that keeps up, and one whose backlog spans a tick.
MCLags == {0, 3}

Symmetry == Permutations({w1, w2})

=============================================================================
