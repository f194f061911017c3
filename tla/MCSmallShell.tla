----------------------------- MODULE MCSmallShell -----------------------------
(***************************************************************************)
(* The command lines typed in the runs of SmallShell.                      *)
(***************************************************************************)
EXTENDS SmallShell

Plain(verb) == [verb |-> verb, timeout |-> NoTimeout, redirect |-> "no"]
Timed(verb) == [Plain(verb) EXCEPT !.timeout = 1]
Redirected(verb) == [Plain(verb) EXCEPT !.redirect = "yes"]

\* Job control: the commands that share the list of jobs, and one whose output is
\* redirected.
MCJobLines ==
  {Plain(verb) : verb \in {"external", "background", "fg", "bg", "kill", "jobs", "pipe"}}
    \cup {Redirected("background")}

\* Timeouts, beside the commands that reap, wait for or kill the same children.  A
\* built-in command leaves its time limit to the next external one, fg too.
MCTimeoutLines ==
  {Plain(verb) : verb \in {"external", "background", "fg", "quit kill"}}
    \cup {Timed(verb) : verb \in {"external", "builtin"}}

\* The commands that lead fg into trouble.
MCForegroundLines == {Plain("background"), Plain("fg")}

\* What distinguishes two states of shell_jobs (VIEW).  No guard and no property of
\* that run reads the rest: the histories of children that are no jobs and not in
\* main's hand, for they never come back, and the counters once their bounds are used
\* up; TypeOK, which reads all, saw them when they got their values.  Without timeouts
\* ever_timed is empty and born tells no more than children.
JobsView ==
  LET known == (JobPids(jobs) \cup {pid, foreground_cmd}) \cap Pids
      over == ~MayPress /\ ~MayFail(1)
  IN  <<children, shell, stdio, pc, locals, late_stop, unrestored, strayed,
        [p \in known |-> given[p]], disturbed \cap known,
        IF over THEN <<>> ELSE <<disturbed, counters>>>>
=============================================================================
