------------------------------ MODULE SmallShell ------------------------------
(***************************************************************************)
(* The shell (hw1): the command loop, external commands in the foreground  *)
(* and in the background, jobs, fg, bg, kill and quit, redirection,        *)
(* timeout, and the handlers of ctrl-Z, ctrl-C and SIGALRM.                *)
(*                                                                         *)
(* One process runs main() and, between any two of main's steps, a         *)
(* handler; a handler runs to its end before main goes on.  pc is the next *)
(* step of main.  Children run, stop and end beside it, and time passes.   *)
(* What the user types is one of Lines, already parsed; the id that fg, bg *)
(* or kill is given is chosen among those in the job list (an unknown one  *)
(* is an error message).                                                   *)
(*                                                                         *)
(* Other processes may stop, continue and kill the shell's children: other *)
(* shells, and the two children of a pipe, which run the shell's code on   *)
(* copies of its job list but signal the jobs themselves.                  *)
(***************************************************************************)
EXTENDS JobsList

CONSTANTS
  Lines,         \* the command lines the user may type
  MaxSignals,    \* bound: how many times ctrl-Z or ctrl-C is pressed or another
                 \* process continues or kills a stopped child
  MaxDisturbed,  \* bound: how many children the latter happens to
  MaxFaults,     \* bound: how many calls of fork, dup, close, open and dup2 fail
  MaxMishaps,    \* bound: how many signals and failures there are together
  MaxTime        \* bound: how many seconds pass

\* The commands, with what matters of their arguments.  The commands that touch
\* neither processes nor the shell's state are "builtin".
Verbs == {"external", "background", "fg", "bg", "kill", "jobs", "quit", "quit kill",
          "pipe", "builtin"}
NoTimeout == -1
\* redirect: is there a ">", and has prepare() dealt with it
Line == [verb : Verbs, timeout : Nat \cup {NoTimeout}, redirect : {"no", "yes", "done"}]

ASSUME ShellAssumption ==
  /\ \A line \in Lines : line \in Line /\ line.redirect # "done"
  /\ {MaxSignals, MaxDisturbed, MaxFaults, MaxMishaps, MaxTime} \subseteq Nat

NoLine == [verb |-> "builtin", timeout |-> NoTimeout, redirect |-> "no"]
KillSignals == {"SIGKILL", "SIGSTOP", "SIGTSTP", "SIGCONT"}

Nullptr == 0
NoAlarm == -1

VARIABLES
  children,          \* the kernel's table of children
  jobs,              \* job_list.jobs_vec
  timed_cmds,        \* timed_cmds
  time_this,         \* time_this
  alarm,             \* when the process's one alarm rings, or NoAlarm
  now,               \* time(NULL)
  foreground_cmd,    \* nullptr, or the child_pid of *foreground_cmd
  foreground_jobid,  \* foreground_jobid, -1 if none
  out,               \* descriptor 1: "terminal", "file" or "closed"
  saved,             \* what new_file_descriptor is a copy of, "none" if it is -1
  pc,                \* the next step of main
  line,              \* the command line, what is left of it to execute
  pid,               \* local pid of ExternalCommand, job->pid of fg
  jobid,             \* local job_id of fg
  it,                \* ExternalCommand: timeThis() returned an entry, not end()
  status,            \* the answer of waitpid that ended the wait
  given,             \* history: the id under which a child first became a job
  ever_timed,        \* history: the children that were ever in timed_cmds
  born,              \* history: when each child was forked
  late_stop,         \* history: a ctrl-Z came too early or too late (CtrlZ)
  disturbed,         \* history: the jobs others have continued or killed when stopped
  strayed,           \* history: the children that happened to when they were no jobs
  unrestored,        \* history: cleanup could not put descriptor 1 back
  signals, faults    \* counters for the bounds

timing == <<timed_cmds, time_this, alarm, now>>
foreground == <<foreground_cmd, foreground_jobid>>
shell == <<jobs, timing, foreground>>
regs == <<pid, jobid, it, status>>
locals == <<line, regs>>
stdio == <<out, saved>>
mishaps == <<disturbed, strayed, unrestored>>
history == <<given, ever_timed, born, late_stop, mishaps>>
counters == <<signals, faults>>
vars == <<children, shell, stdio, pc, locals, history, counters>>

\* The bounds allow another signal, another n failures.
MayPress == signals < MaxSignals /\ signals + faults < MaxMishaps
MayFail(n) == faults + n <= MaxFaults /\ signals + faults + n <= MaxMishaps

Untimed == [time_this |-> FALSE, pid |-> NoPid, start |-> -1, limit |-> -1]

Init ==
  /\ children = NoChildren
  /\ jobs = <<>> /\ timed_cmds = <<>> /\ time_this = Untimed
  /\ alarm = NoAlarm /\ now = 0
  /\ foreground_cmd = Nullptr /\ foreground_jobid = -1
  /\ out = "terminal" /\ saved = "none"
  /\ pc = "prompt" /\ line = NoLine
  /\ pid = NoPid /\ jobid = -1 /\ it = FALSE /\ status = "none"
  /\ given = [p \in Pids |-> 0] /\ ever_timed = {} /\ born = [p \in Pids |-> -1]
  /\ late_stop = FALSE /\ disturbed = {} /\ strayed = {} /\ unrestored = FALSE
  /\ signals = 0 /\ faults = 0

-----------------------------------------------------------------------------
(***************************************************************************)
(* The command loop.                                                       *)
(***************************************************************************)

\* The command is over: cleanup() of a redirection follows, or the next prompt.
\* The locals are gone.
Return ==
  /\ pc' = IF line.redirect = "done" THEN "cleanup" ELSE "prompt"
  /\ line' = [NoLine EXCEPT !.redirect = line.redirect]
  /\ pid' = NoPid /\ jobid' = -1 /\ it' = FALSE /\ status' = "none"

\* executeCommand(command): finished jobs leave the list before it is executed.
ExecuteCommand(command) ==
  /\ LET left == RemoveFinishedJobs(jobs, children)
     IN  jobs' = left.jobs /\ children' = left.children
  /\ line' = command
  /\ pc' = "run"

\* main: getline, and executeCommand.
ReadLine(typed) ==
  /\ pc = "prompt"
  /\ ExecuteCommand(typed)
  /\ UNCHANGED <<timing, foreground, stdio, regs, history, counters>>

\* CreateCommand looks for ">" first and for "|" next; timeout is a first word.
Running(verb) ==
  /\ pc = "run"
  /\ line.redirect # "yes"
  /\ line.timeout = NoTimeout \/ verb = "pipe"
  /\ line.verb = verb

\* The commands that change nothing the model keeps, and jobs, which removes the
\* finished ones once more and sorts the list.
Builtin ==
  /\ Running("builtin")
  /\ Return
  /\ UNCHANGED <<children, shell, stdio, history, counters>>

PrintJobsList ==
  /\ Running("jobs")
  /\ LET left == RemoveFinishedJobs(jobs, children)
     IN  jobs' \in Sorted(left.jobs) /\ children' = left.children
  /\ Return
  /\ UNCHANGED <<timing, foreground, stdio, history, counters>>

\* quit, with its redirections never cleaned up.
Quit ==
  /\ \/ Running("quit") /\ UNCHANGED <<children, jobs>>
     \/ /\ Running("quit kill")
        /\ children' = KillAllJobs(jobs, children)
        /\ jobs' \in Sorted(jobs)
  /\ pc' = "exited"
  /\ UNCHANGED <<timing, foreground, stdio, locals, history, counters>>

\* A pipe's two children are waited for by pid and are on no list; in them the
\* shell's code runs on copies of its state, and the signals they send to the jobs
\* are among the moves of Environment.  A fork that fails has pid -1, and the wait
\* for it is a wait for any child.
Pipe ==
  /\ Running("pipe")
  /\ \E f \in {n \in 0 .. 2 : MayFail(n)} :
       /\ faults' = faults + f
       /\ pc' \in CASE f = 0 -> {"pipe"} [] f = 1 -> {"any, pipe", "pipe, any"}
                     [] f = 2 -> {"any, any"}
  /\ UNCHANGED <<children, shell, stdio, locals, history, signals>>

\* The children of the pipe that are waited for have ended; one that has ended
\* before answers waitpid(-1) too.
PipeEnds ==
  /\ pc \in {"pipe", "pipe, any", "any, pipe"}
  /\ IF pc = "pipe, any" THEN pc' = "any" /\ UNCHANGED locals ELSE Return
  /\ UNCHANGED <<children, shell, stdio, history, counters>>

\* waitpid(-1) takes whatever child has ended, a job's too.
PipeReaps(p) ==
  /\ pc \in {"any", "any, pipe", "any, any"}
  /\ children[p].state \in Ended
  /\ children' = Reported(children, {p})
  /\ CASE pc = "any"       -> Return
       [] pc = "any, pipe" -> pc' = "pipe" /\ UNCHANGED locals
       [] pc = "any, any"  -> pc' = "any" /\ UNCHANGED locals
  /\ UNCHANGED <<shell, stdio, history, counters>>

\* waitpid(-1) fails when there is no child at all.
PipeAlone ==
  /\ pc \in {"any", "any, any"}
  /\ \A p \in Pids : NoSuchChild(children, p)
  /\ Return
  /\ UNCHANGED <<children, shell, stdio, history, counters>>

-----------------------------------------------------------------------------
(***************************************************************************)
(* The job list and the timed commands, as main and the handlers use them. *)
(***************************************************************************)

\* timeThis: the command asked to be timed joins timed_cmds.  What time_this
\* holds besides its flag is not read any more.
TimeThis ==
  /\ timed_cmds' = IF time_this.time_this
                   THEN Append(timed_cmds, [pid |-> time_this.pid, start |-> time_this.start,
                                            limit |-> time_this.limit])
                   ELSE timed_cmds
  /\ time_this' = IF time_this.time_this THEN Untimed ELSE time_this
  /\ ever_timed' = IF time_this.time_this THEN ever_timed \cup {time_this.pid} ELSE ever_timed

\* moveToBackground, with children in state k: addJob and timeThis.
MoveToBackground(k, p, stopped) ==
  LET added == AddJob(jobs, k, p, stopped, foreground_jobid)
  IN  /\ jobs' = added.jobs
      /\ children' = added.children
      /\ given' = [q \in Pids |-> IF q = p /\ given[q] = 0
                                  THEN Last(added.jobs).job_id
                                  ELSE given[q]]
      /\ TimeThis

\* The positions of the entries a job-id argument can denote, and of the last job
\* (getLastJob): the first entry with an id, if a ctrl-Z out of time has given two
\* entries one id.
Chosen == {i \in DOMAIN jobs : i = PositionOf(jobs, jobs[i].job_id)}

\* The position bg without an argument takes: the first of the entries marked
\* stopped whose id is the largest, which may be the second entry with that id.
LastStopped ==
  {i \in DOMAIN jobs :
     /\ jobs[i].is_stopped
     /\ \A j \in DOMAIN jobs :
          jobs[j].is_stopped => jobs[j].job_id < jobs[i].job_id
                                \/ (jobs[j].job_id = jobs[i].job_id /\ i <= j)}

\* A slip the check must notice: SIGCONT leaves the mark.
MarkedStopped(entry, sig) == sig = "SIGSTOP" \/ entry.is_stopped

\* The mark of a job that was sent a signal.
Marked(entry, sig) == sig = "SIGSTOP" \/ (entry.is_stopped /\ sig # "SIGCONT")

\* kill -sig id.  A failing kill leaves the entry alone.
Kill(i, sig) ==
  /\ Running("kill")
  /\ IF NoSuchChild(children, jobs[i].pid)
     THEN UNCHANGED <<children, jobs>>
     ELSE /\ children' = Signalled(children, {jobs[i].pid}, sig)
          /\ jobs' = [jobs EXCEPT ![i].is_stopped = Marked(jobs[i], sig)]
  /\ Return
  /\ UNCHANGED <<timing, foreground, stdio, history, counters>>

\* bg: only for a job marked stopped.
Background(i) ==
  /\ Running("bg")
  /\ IF ~jobs[i].is_stopped \/ NoSuchChild(children, jobs[i].pid)
     THEN UNCHANGED <<children, jobs>>
     ELSE /\ children' = Signalled(children, {jobs[i].pid}, "SIGCONT")
          /\ jobs' = [jobs EXCEPT ![i].is_stopped = FALSE]
  /\ Return
  /\ UNCHANGED <<timing, foreground, stdio, history, counters>>

\* kill, bg and fg when the list is empty: an error message.
NoJob ==
  /\ \E verb \in {"kill", "bg", "fg"} : Running(verb)
  /\ jobs = <<>>
  /\ Return
  /\ UNCHANGED <<children, shell, stdio, history, counters>>

-----------------------------------------------------------------------------
(***************************************************************************)
(* fg.  foreground_cmd, its child_pid and foreground_jobid are set by      *)
(* separate statements, and job points into jobs_vec all the while.        *)
(***************************************************************************)
ForegroundStart(i) ==
  /\ Running("fg")
  /\ IF jobs[i].is_stopped /\ NoSuchChild(children, jobs[i].pid)
     THEN /\ Return
          /\ UNCHANGED <<children, jobs, foreground_cmd>>
     ELSE /\ children' = IF jobs[i].is_stopped
                         THEN Signalled(children, {jobs[i].pid}, "SIGCONT")
                         ELSE children
          /\ jobs' = [jobs EXCEPT ![i].is_stopped = FALSE]
          /\ foreground_cmd' = NoPid
          /\ pid' = jobs[i].pid /\ jobid' = jobs[i].job_id
          /\ pc' = "fg pid"
          /\ UNCHANGED <<line, it, status>>
  /\ UNCHANGED <<timing, foreground_jobid, stdio, history, counters>>

ForegroundPid ==
  /\ pc = "fg pid"
  /\ foreground_cmd' = pid
  /\ pc' = "fg id"
  /\ UNCHANGED <<children, jobs, timing, foreground_jobid, stdio, locals, history,
                 counters>>

\* A slip the check must notice: fg forgets the id of its job.
ForegroundNoId ==
  /\ pc = "fg id"
  /\ pc' = "fg remove"
  /\ UNCHANGED <<children, shell, stdio, locals, history, counters>>

ForegroundId ==
  /\ pc = "fg id"
  /\ foreground_jobid' = jobid
  /\ pc' = "fg remove"
  /\ UNCHANGED <<children, jobs, timing, foreground_cmd, stdio, locals, history, counters>>

\* A slip the check must notice: the job stays in the list.
ForegroundKeep ==
  /\ pc = "fg remove"
  /\ pc' = "fg wait"
  /\ UNCHANGED <<children, shell, stdio, locals, history, counters>>

ForegroundRemove ==
  /\ pc = "fg remove"
  /\ jobs' = RemoveJobById(jobs, jobid)
  /\ pc' = "fg wait"
  /\ UNCHANGED <<children, timing, foreground, stdio, locals, history, counters>>

\* The polling loop: 0 and "continued" keep it going.
ForegroundWait ==
  /\ pc = "fg wait"
  /\ Waitpid(children, foreground_cmd) # "none"
  /\ children' = Reported(children, {foreground_cmd})
  /\ pc' = IF Waitpid(children, foreground_cmd) = "continued" THEN pc ELSE "fg done"
  /\ UNCHANGED <<shell, stdio, locals, history, counters>>

ForegroundDone ==
  /\ pc = "fg done"
  /\ foreground_cmd' = Nullptr
  /\ foreground_jobid' = -1
  /\ Return
  /\ UNCHANGED <<children, jobs, timing, stdio, history, counters>>

-----------------------------------------------------------------------------
(***************************************************************************)
(* External commands.                                                      *)
(***************************************************************************)
External(verb) == verb \in {"external", "background"} /\ Running(verb)

\* A slip the check must notice: the start of a timed command is not recorded.
UnstampedFor(p) == [time_this EXCEPT !.pid = p]

\* What time_this becomes when a command to be timed is forked.
StampedFor(p) == [time_this EXCEPT !.pid = p, !.start = now]

\* fork.  A child in which execl fails goes on as a second shell with copies of
\* the lists: to this one it is a child like any other.
Fork ==
  /\ External(line.verb)
  /\ Unborn(children) # {}
  /\ pid' = Min(Unborn(children))
  /\ children' = Forked(children, pid')
  /\ born' = [born EXCEPT ![pid'] = now]
  /\ time_this' = IF time_this.time_this THEN StampedFor(pid') ELSE time_this
  /\ pc' = IF line.verb = "background" THEN "to background" ELSE "to foreground"
  /\ UNCHANGED <<jobs, timed_cmds, foreground, alarm, now, stdio, line, jobid, it, status,
                 given, ever_timed, late_stop, mishaps, counters>>

\* Without a child the shell goes on, and time_this still waits for one.
ForkFails ==
  /\ External(line.verb)
  /\ MayFail(1)
  /\ faults' = faults + 1
  /\ Return
  /\ UNCHANGED <<children, shell, stdio, history, signals>>

ToBackground ==
  /\ pc = "to background"
  /\ MoveToBackground(children, pid, FALSE)
  /\ Return
  /\ UNCHANGED <<foreground, alarm, now, stdio, born, late_stop, mishaps, counters>>

ToForeground ==
  /\ pc = "to foreground"
  /\ TimeThis
  /\ it' = time_this.time_this
  /\ foreground_cmd' = pid
  /\ pc' = "wait"
  /\ UNCHANGED <<children, jobs, foreground_jobid, alarm, now, stdio, line, pid, jobid,
                 status, given, born, late_stop, mishaps, counters>>

\* A slip the check must notice: the loop goes on when waitpid fails.
EndsWaitOnSuccess(answer) == answer \notin {"none", "error"}

\* A slip the check must notice: waitpid is called without WUNTRACED.
EndsWaitUntraced(answer) == answer \notin {"none", "stopped"}

\* The polling loop: any answer but 0 ends it.
EndsWait(answer) == answer # "none"

Wait ==
  /\ pc = "wait"
  /\ EndsWait(Waitpid(children, pid))
  /\ status' = Waitpid(children, pid)
  /\ children' = Reported(children, {pid})
  /\ pc' = "settle"
  /\ UNCHANGED <<shell, stdio, line, pid, jobid, it, history, counters>>

\* it points to an entry that is no more.
EntryErased ==
  /\ it /\ status = "exited"
  /\ \A i \in DOMAIN timed_cmds : timed_cmds[i].pid # pid

\* The command is not in the foreground any more; if it has ended by itself or by
\* SIGINT its entry in timed_cmds is marked (reset_timed_cmd), which is undefined
\* when the alarm handler has erased the entry.
Settle ==
  /\ pc = "settle"
  /\ ~EntryErased
  /\ foreground_cmd' = Nullptr
  /\ foreground_jobid' = -1
  /\ timed_cmds' = IF it /\ status = "exited"
                   THEN [i \in DOMAIN timed_cmds |->
                          IF timed_cmds[i].pid = pid THEN [timed_cmds[i] EXCEPT !.pid = NoPid]
                          ELSE timed_cmds[i]]
                   ELSE timed_cmds
  /\ Return
  /\ UNCHANGED <<children, jobs, time_this, alarm, now, stdio, history, counters>>

SettleErased ==
  /\ pc = "settle"
  /\ EntryErased
  /\ pc' = "undefined"
  /\ UNCHANGED <<children, shell, stdio, locals, history, counters>>

-----------------------------------------------------------------------------
(***************************************************************************)
(* Redirection and timeout: they execute what is left of the line.         *)
(***************************************************************************)

\* cmd = "": an empty command line, which CreateCommand takes for an external one.
EmptyLine == [NoLine EXCEPT !.verb = "external", !.redirect = "done"]

\* prepare: the copy of descriptor 1, and the file in its place.  The rest of the
\* line has lost its "&".
Prepare ==
  /\ pc = "run" /\ line.redirect = "yes"
  /\ out # "closed"
  /\ saved' = out
  /\ out' = "file"
  /\ ExecuteCommand([line EXCEPT !.redirect = "done",
                                 !.verb = IF @ = "background" THEN "external" ELSE @])
  /\ UNCHANGED <<timing, foreground, regs, history, counters>>

\* One of prepare's calls fails: dup, which must if there is nothing to copy, or
\* close or open.
PrepareStops ==
  /\ pc = "run" /\ line.redirect = "yes"
  /\ LET n == IF out = "closed" THEN 0 ELSE 1
     IN  MayFail(n) /\ faults' = faults + n
  /\ \/ saved' = "none" /\ UNCHANGED out                            \* dup
     \/ out # "closed" /\ saved' = out /\ out' \in {out, "closed"}  \* close, open

\* A slip the check must notice: a failing prepare ends the command at once.
PrepareGivesUp ==
  /\ PrepareStops
  /\ pc' = "prompt" /\ line' = NoLine
  /\ UNCHANGED <<children, shell, regs, history, signals>>

PrepareFails ==
  /\ PrepareStops
  /\ ExecuteCommand(EmptyLine)
  /\ UNCHANGED <<timing, foreground, regs, history, signals>>

\* cleanup: the copy goes back to descriptor 1 and is closed.  Without a copy dup2
\* fails and nothing else happens.
Cleanup ==
  /\ pc = "cleanup"
  /\ out' = IF saved = "none" THEN out ELSE saved
  /\ saved' = "none"
  /\ pc' = "prompt"
  /\ line' = NoLine
  /\ UNCHANGED <<children, shell, regs, history, counters>>

\* dup2 fails although there is a copy, which stays open.  (A failing close of the
\* copy frees its descriptor all the same.)
CleanupFails ==
  /\ pc = "cleanup" /\ saved # "none"
  /\ MayFail(1)
  /\ faults' = faults + 1
  /\ unrestored' = TRUE
  /\ pc' = "prompt"
  /\ line' = NoLine
  /\ UNCHANGED <<children, shell, stdio, regs, given, ever_timed, born, late_stop,
                 disturbed, strayed, signals>>

\* timeout: alarm(0) cancels the alarm, and any other one replaces it.
Timeout ==
  /\ pc = "run"
  /\ line.redirect # "yes" /\ line.verb # "pipe" /\ line.timeout # NoTimeout
  /\ time_this' = [time_this |-> TRUE, pid |-> NoPid, start |-> -1, limit |-> line.timeout]
  /\ alarm' = IF line.timeout = 0 THEN NoAlarm ELSE now + line.timeout
  /\ ExecuteCommand([line EXCEPT !.timeout = NoTimeout])
  /\ UNCHANGED <<timed_cmds, foreground, now, stdio, regs, history, counters>>

-----------------------------------------------------------------------------
(***************************************************************************)
(* The handlers.                                                           *)
(***************************************************************************)
\* The shell is no more, or has used a dangling pointer: nothing is said of what
\* follows.
Over == pc \in {"exited", "undefined"}

InForegroundStart == pc \in {"fg pid", "fg id", "fg remove"}

\* ctrlZHandler: without a foreground command, or if it has been reaped, nothing
\* happens.  While fg is still setting it up (no child_pid yet, or still in the
\* list), once it has been filed as a job, or once it is dead, ctrl-Z is out of
\* time: late_stop remembers that.  In the first case fg's pointer to the job is
\* good afterwards if the vector had room for one entry more and lost none.  The
\* model goes no further once kill(-1, SIGSTOP) has stopped every process of the
\* user, the one that shows the terminal too.
CtrlZ ==
  /\ ~Over
  /\ MayPress
  /\ foreground_cmd # Nullptr
  /\ \E p \in Aimed(foreground_cmd) : ~NoSuchChild(children, p)
  /\ signals' = signals + 1
  /\ MoveToBackground(Signalled(children, Aimed(foreground_cmd), "SIGSTOP"),
                      foreground_cmd, TRUE)
  /\ late_stop' = \/ late_stop
                  \/ InForegroundStart
                  \/ foreground_cmd \in JobPids(jobs)
                  \/ children[foreground_cmd].state \in Ended
  /\ \/ /\ InForegroundStart => foreground_cmd # NoPid /\ jobs' = Append(jobs, Last(jobs'))
        /\ UNCHANGED pc
     \/ InForegroundStart /\ pc' = "undefined"
  /\ UNCHANGED <<foreground, alarm, now, stdio, locals, born, mishaps, faults>>

\* ctrlCHandler: the foreground command dies of the SIGINT, unless it catches it; one
\* that is stopped may do so once it runs again (ChildEnds).
CtrlC(victims) ==
  /\ ~Over
  /\ MayPress
  /\ foreground_cmd # Nullptr
  /\ victims \subseteq Aimed(foreground_cmd) /\ victims # {}
  /\ \A p \in victims : children[p].state = "running"
  /\ signals' = signals + 1
  /\ children' = [p \in Pids |-> IF p \in victims
                                 THEN [state |-> "exited", news |-> FALSE]
                                 ELSE children[p]]
  /\ UNCHANGED <<shell, stdio, pc, locals, history, faults>>

\* A timed command whose time is up; one that has just been stopped or continued
\* is left until the next alarm.
Due(e) ==
  /\ e.pid # NoPid
  /\ Waitpid(children, e.pid) = "none"
  /\ now - e.start >= e.limit

\* alarmHandler: killTimedCmmands, which returns at the first entry whose child
\* somebody else has reaped.  A child whose time is up may yet exit by itself
\* between the waitpid and the kill, which succeeds all the same.
Alarm ==
  /\ ~Over
  /\ alarm # NoAlarm /\ now >= alarm
  /\ alarm' = NoAlarm
  /\ LET fails(i) == timed_cmds[i].pid # NoPid /\ NoSuchChild(children, timed_cmds[i].pid)
         seen == 1 .. Min({i \in DOMAIN timed_cmds : fails(i)} \cup {Len(timed_cmds) + 1}) - 1
         due == {i \in seen : Due(timed_cmds[i])}
         over == {i \in seen : \/ timed_cmds[i].pid = NoPid
                               \/ children[timed_cmds[i].pid].state \in Ended}
         victims == {timed_cmds[i].pid : i \in due}
     IN  /\ timed_cmds' = Kept(timed_cmds, DOMAIN timed_cmds \ (due \cup over))
         /\ \E own \in SUBSET {p \in victims : children[p].state = "running"} :
              children' = LET k == Signalled(
                                     Reported(children, {timed_cmds[i].pid : i \in seen}),
                                     victims \ own, "SIGKILL")
                          IN  [p \in Pids |-> IF p \in own
                                              THEN [state |-> "exited", news |-> FALSE]
                                              ELSE k[p]]
  /\ UNCHANGED <<jobs, time_this, foreground, now, stdio, pc, locals, history, counters>>

-----------------------------------------------------------------------------
(***************************************************************************)
(* The children, which may end or stop (reading the terminal from the      *)
(* background, say) whenever they run, what other processes do to them,    *)
(* and the clock.                                                          *)
(***************************************************************************)
ChildStops(p) ==
  /\ ~Over
  /\ children[p].state = "running"
  /\ children' = Signalled(children, {p}, "SIGTSTP")
  /\ UNCHANGED <<shell, stdio, pc, locals, history, counters>>

ChildEnds(p, how) ==
  /\ ~Over
  /\ children[p].state = "running"
  /\ children' = [children EXCEPT ![p] = [state |-> how, news |-> FALSE]]
  /\ UNCHANGED <<shell, stdio, pc, locals, history, counters>>

\* Another process continues or kills a child that is stopped.
Disturb(p, sig) ==
  /\ ~Over
  /\ MayPress
  /\ Cardinality(disturbed \cup strayed \cup {p}) <= MaxDisturbed
  /\ children[p].state = "stopped"
  /\ signals' = signals + 1
  /\ children' = Signalled(children, {p}, sig)
  /\ IF p \in JobPids(jobs)
     THEN disturbed' = disturbed \cup {p} /\ UNCHANGED strayed
     ELSE strayed' = strayed \cup {p} /\ UNCHANGED disturbed
  /\ UNCHANGED <<shell, stdio, pc, locals, given, ever_timed, born, late_stop, unrestored,
                 faults>>

Tick ==
  /\ ~Over
  /\ now < MaxTime
  /\ now' = now + 1
  /\ UNCHANGED <<children, jobs, timed_cmds, time_this, alarm, foreground, stdio, pc, locals,
                 history, counters>>

-----------------------------------------------------------------------------
\* The steps of main that wait neither for the user nor for a pipe.
Main ==
  \/ Builtin \/ PrintJobsList \/ Quit \/ Pipe \/ NoJob
  \/ \E i \in Chosen, sig \in KillSignals : Kill(i, sig)
  \/ \E i \in Chosen \cup LastStopped : Background(i)
  \/ \E i \in Chosen : ForegroundStart(i)
  \/ ForegroundPid \/ ForegroundId \/ ForegroundRemove \/ ForegroundWait \/ ForegroundDone
  \/ Fork \/ ForkFails \/ ToBackground \/ ToForeground \/ Wait \/ Settle \/ SettleErased
  \/ (\E p \in Pids : PipeReaps(p)) \/ PipeAlone
  \/ Prepare \/ PrepareFails \/ Cleanup \/ CleanupFails \/ Timeout

Handlers == CtrlZ \/ (\E victims \in SUBSET Pids : CtrlC(victims)) \/ Alarm

Environment ==
  \/ \E typed \in Lines : ReadLine(typed)
  \/ PipeEnds
  \/ \E p \in Pids : ChildStops(p)
  \/ \E p \in Pids, how \in Ended : ChildEnds(p, how)
  \/ \E p \in Pids, sig \in {"SIGCONT", "SIGKILL"} : Disturb(p, sig)
  \/ Tick

Next == Main \/ Handlers \/ Environment

\* main gets the processor again and again.
Fairness == WF_vars(Main)

Spec == Init /\ [][Next]_vars /\ Fairness

-----------------------------------------------------------------------------
(***************************************************************************)
(* Properties.                                                             *)
(***************************************************************************)
Pcs ==
  {"prompt", "run", "pipe", "pipe, any", "any, pipe", "any, any", "any", "cleanup",
   "exited", "undefined", "fg pid", "fg id", "fg remove", "fg wait", "fg done", "to background",
   "to foreground", "wait", "settle"}

\* The shell's variables and the kernel's table hold values of their types.
TypeOK ==
  /\ children \in ChildTable
  /\ jobs \in Seq(JobEntry)
  /\ timed_cmds \in Seq([pid : Pids \cup {NoPid}, start : Int, limit : Nat])
  /\ time_this \in [time_this : BOOLEAN, pid : Pids \cup {NoPid}, start : Int, limit : Int]
  /\ alarm \in Nat \cup {NoAlarm} /\ now \in Nat
  /\ foreground_cmd \in Pids \cup {NoPid, Nullptr}
  /\ foreground_jobid \in Nat \cup {-1} /\ jobid \in Nat \cup {-1}
  /\ out \in {"terminal", "file", "closed"} /\ saved \in {"none", "terminal", "file"}
  /\ pc \in Pcs /\ line \in Line /\ pid \in Pids \cup {NoPid} /\ it \in BOOLEAN
  /\ status \in {"none", "error", "stopped", "continued"} \cup Ended
  /\ given \in [Pids -> Nat] /\ ever_timed \subseteq Pids \cup {NoPid}
  /\ born \in [Pids -> Int] /\ late_stop \in BOOLEAN
  /\ disturbed \subseteq Pids /\ strayed \subseteq Pids /\ unrestored \in BOOLEAN
  /\ signals \in 0 .. MaxSignals /\ faults \in 0 .. MaxFaults

\* A job keeps its id through fg and ctrl-Z, no two jobs have the same id or the
\* same process, and so an id names one process for the user: unless a ctrl-Z
\* was out of time (addJob, fg, ctrlZHandler).
JobsDistinct ==
  ~late_stop =>
    /\ \A i, j \in DOMAIN jobs :
         i # j => jobs[i].job_id # jobs[j].job_id /\ jobs[i].pid # jobs[j].pid
    /\ \A i \in DOMAIN jobs : jobs[i].job_id = given[jobs[i].pid]

\* A job marked stopped does not run, so that bg and fg wake what they should,
\* unless a ctrl-Z was out of time or somebody else has continued that job, which
\* the list is not told (kill, bg, fg and ctrlZHandler keep the mark; the same
\* commands in a pipe do not).
MarkedStoppedRests ==
  ~late_stop =>
    \A i \in DOMAIN jobs :
      jobs[i].is_stopped /\ jobs[i].pid \notin disturbed =>
        children[jobs[i].pid].state # "running"

\* Main is between the fork, or fg's choice, of child p and the end of its wait.
InHand(p) ==
  /\ p = pid
  /\ InForegroundStart \/ pc \in {"fg wait", "to background", "to foreground", "wait"}

\* The shell never loses sight of a running child: it is a job or in hand, in
\* whatever order the child, the handlers and the three callers of waitpid act.
\* The exception is a foreground command that has been stopped, but not by ctrl-Z,
\* and that somebody else has continued while it was on no list.
NoRunningChildLost ==
  \A p \in Pids :
    children[p].state = "running" => p \in JobPids(jobs) \/ InHand(p) \/ p \in strayed

\* A job whose child has been reaped behind the list's back, at which every later
\* removeFinishedJobs stops, stems from a timeout (the alarm handler's waitpid),
\* from somebody else's SIGCONT or SIGKILL to a job that was stopped, or from a
\* ctrl-Z out of time, and from nothing else unless a call fails (of a pipe's
\* forks).
StaleJobsAreTimed ==
  ~late_stop /\ faults = 0 =>
    \A i \in DOMAIN jobs :
      children[jobs[i].pid].state = "gone" => jobs[i].pid \in ever_timed \cup disturbed

\* What the alarm handler kills has been timed and has run for its full time, by
\* the whole seconds of time(NULL): it may have had a fraction of a second less.
AlarmIsNotEarly ==
  [][alarm # NoAlarm /\ alarm' = NoAlarm =>
       \A p \in Pids :
         children[p].state \in Alive /\ children'[p].state = "killed" =>
           \E i \in DOMAIN timed_cmds :
             timed_cmds[i].pid = p /\ now - born[p] >= timed_cmds[i].limit]_vars

\* After "quit kill" no job runs or is left stopped, whatever stale entries the
\* list holds (killAllJobs), and no other child runs but one that had been stopped
\* and that somebody else has continued.  A command that has stopped while it was
\* in the foreground is on no list, and stays stopped.
QuitKillsAll ==
  pc = "exited" /\ line.verb = "quit kill" =>
    /\ \A p \in JobPids(jobs) : children[p].state \notin Alive
    /\ \A p \in Pids : children[p].state = "running" => p \in strayed

\* At the prompt there is no foreground command or id, descriptor 1 is the terminal
\* and its copy is closed, whichever call of prepare has failed and whatever
\* ran in between; the last two until a dup2 of cleanup itself has failed.
PromptIsClean ==
  pc = "prompt" =>
    /\ foreground_cmd = Nullptr /\ foreground_jobid = -1
    /\ unrestored \/ (out = "terminal" /\ saved = "none")

Waiting == pc \in {"wait", "fg wait"}

\* The end of the foreground command always brings the prompt back, even if the
\* alarm handler has reaped it (the polling loops); but for a timed command that
\* ends just as the alarm handler kills it (line 615).
EndIsNoticed ==
  Waiting /\ children[foreground_cmd].state \notin Alive ~>
    pc = "prompt" \/ (pc = "undefined" /\ pid \in ever_timed)

\* A stop of the foreground command brings the prompt back, unless somebody else
\* continues it or another call of waitpid takes the report: the alarm handler's,
\* for a timed command, or that of a ctrl-Z out of time.
StopIsNoticed ==
  Waiting /\ children[foreground_cmd].state = "stopped" /\ children[foreground_cmd].news ~>
    ~Waiting \/ late_stop \/ foreground_cmd \in ever_timed \cup disturbed \cup strayed

\* Commands.cpp:635 says of an entry without a process that it should never happen.
JobsHaveProcesses == NoPid \notin JobPids(jobs)
=============================================================================
