------------------------------- MODULE JobsList -------------------------------
(***************************************************************************)
(* The shell's job list: class JobsList of hw1/Commands.h, each function   *)
(* an operator on the vector of entries and, where it calls waitpid or     *)
(* kill, on the table of children.                                         *)
(***************************************************************************)
EXTENDS Children, SequencesExt, Sublists

\* Start times and command lines are only printed and are left out.
JobEntry == [job_id : Nat, pid : Pids \cup {NoPid}, is_stopped : BOOLEAN]

JobPids(jobs) == {jobs[i].pid : i \in DOMAIN jobs}
JobIds(jobs) == {jobs[i].job_id : i \in DOMAIN jobs}

GetMaxJobID(jobs) == Max(JobIds(jobs) \cup {0})

\* The position of an entry, 0 if there is none; the first of several.
PositionOf(jobs, id) == SelectInSeq(jobs, LAMBDA e : e.job_id = id)

RemoveJobById(jobs, id) == Kept(jobs, DOMAIN jobs \ {PositionOf(jobs, id)})

\* How many entries removeFinishedJobs gets to: it calls waitpid for each in turn
\* and returns at the first -1, that is at a child somebody else has reaped or one
\* that an earlier entry with the same pid has just reaped.
Visited(jobs, k) ==
  LET fails(i) ==
        \/ NoSuchChild(k, jobs[i].pid)
        \/ /\ k[jobs[i].pid].state \in Ended
           /\ \E j \in 1 .. (i - 1) : jobs[j].pid = jobs[i].pid
  IN  Min({i \in DOMAIN jobs : fails(i)} \cup {Len(jobs) + 1}) - 1

\* A slip the check must notice: entries are erased whatever waitpid reported.
RemoveReportedJobs(jobs, k) ==
  LET seen == 1 .. Visited(jobs, k)
      over == {i \in seen : Waitpid(k, jobs[i].pid) # "none"}
  IN  [jobs |-> Kept(jobs, DOMAIN jobs \ over),
       children |-> Reported(k, {jobs[i].pid : i \in seen})]

\* removeFinishedJobs: the entries of children that have ended are erased.
RemoveFinishedJobs(jobs, k) ==
  LET seen == 1 .. Visited(jobs, k)
      over == {i \in seen : k[jobs[i].pid].state \in Ended}
  IN  [jobs |-> Kept(jobs, DOMAIN jobs \ over),
       children |-> Reported(k, {jobs[i].pid : i \in seen})]

\* A slip the check must notice: 0 stands for "no foreground job".
NewJobIdZero(jobs, foreground_jobid) ==
  IF foreground_jobid = 0 THEN GetMaxJobID(jobs) + 1 ELSE foreground_jobid

\* The id of a new entry: that of the job brought to the foreground, if there is
\* one, else one more than the largest in use.
NewJobId(jobs, foreground_jobid) ==
  IF foreground_jobid = -1 THEN GetMaxJobID(jobs) + 1 ELSE foreground_jobid

\* addJob
AddJob(jobs, k, pid, stopped, foreground_jobid) ==
  LET left == RemoveFinishedJobs(jobs, k)
      entry == [job_id |-> NewJobId(left.jobs, foreground_jobid),
                pid |-> pid, is_stopped |-> stopped]
  IN  [left EXCEPT !.jobs = Append(@, entry)]

\* std::sort by id, which may put entries with equal ids in any order.
Ascending(jobs) == \A i, j \in DOMAIN jobs : i < j => jobs[i].job_id <= jobs[j].job_id
Sorted(jobs) ==
  {order \in {[i \in DOMAIN jobs |-> jobs[p[i]]] : p \in Bijection(DOMAIN jobs, DOMAIN jobs)} :
     Ascending(order)}

\* A slip the check must notice: killAllJobs returns at the first failing kill.
KillUntilFailure(jobs, k) ==
  LET order == CHOOSE o \in Sorted(jobs) : TRUE
      fail == {i \in DOMAIN order : NoSuchChild(k, order[i].pid)}
  IN  Signalled(k, JobPids(SubSeq(order, 1, Min(fail \cup {Len(jobs) + 1}) - 1)), "SIGKILL")

\* killAllJobs: a failing kill is reported and the others are still sent.
KillAllJobs(jobs, k) == Signalled(k, JobPids(jobs), "SIGKILL")
=============================================================================
