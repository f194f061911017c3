------------------------------- MODULE Children -------------------------------
(***************************************************************************)
(* The kernel's side of the shell (hw1): what fork, kill and waitpid, as   *)
(* the shell calls them, do to its children.  A table k maps each pid to   *)
(* the state of the child and to whether its last stop or continuation has *)
(* not been reported yet; a later change replaces the report of an earlier *)
(* one, and the end of a child replaces both.                              *)
(*                                                                         *)
(* The module holds constant operators only.                               *)
(***************************************************************************)
EXTENDS Integers

CONSTANT MaxPid  \* bound: how many children are ever forked

ASSUME ChildrenAssumption == MaxPid \in Nat

Pids == 1 .. MaxPid
NoPid == -1      \* child_pid of a Command that has no child

Alive == {"running", "stopped"}
\* exit(), return or death by SIGINT, which the shell treats alike; death by another
\* signal
Ended == {"exited", "killed"}
\* "gone": waitpid has reported the end
ChildState == {"unborn", "gone"} \cup Alive \cup Ended
ChildTable == [Pids -> [state : ChildState, news : BOOLEAN]]

NoChildren == [p \in Pids |-> [state |-> "unborn", news |-> FALSE]]

\* The shell has no such child: waitpid and kill return -1.
NoSuchChild(k, p) == k[p].state \in {"unborn", "gone"}

\* Fork: pids are given out in increasing order.
Unborn(k) == {p \in Pids : k[p].state = "unborn"}
Forked(k, p) == [k EXCEPT ![p] = [state |-> "running", news |-> FALSE]]

\* waitpid(p, &status, WNOHANG | WUNTRACED | WCONTINUED): -1 is "error", 0 is
\* "none", and otherwise status says what has become of the child.
Waitpid(k, p) ==
  CASE NoSuchChild(k, p) -> "error"
    [] k[p].state \in Ended -> k[p].state
    [] k[p].state = "stopped" /\ k[p].news -> "stopped"
    [] k[p].state = "running" /\ k[p].news -> "continued"
    [] OTHER -> "none"

\* The table after waitpid has been called for each pid in P: an end is reported
\* once and takes the child away, another change is reported once.
Reported(k, P) ==
  [p \in Pids |-> IF p \notin P THEN k[p]
                  ELSE [state |-> IF k[p].state \in Ended THEN "gone" ELSE k[p].state,
                        news |-> FALSE]]

\* The state a signal leads to; SIGCONT to a running child, a stop signal to a
\* stopped one and any signal to a dead one change nothing.
After(state, sig) ==
  CASE sig = "SIGKILL" /\ state \in Alive -> "killed"
    [] sig \in {"SIGSTOP", "SIGTSTP"} /\ state = "running" -> "stopped"
    [] sig = "SIGCONT" /\ state = "stopped" -> "running"
    [] OTHER -> state

\* The table after kill(p, sig) for each p in P.
Signalled(k, P, sig) ==
  [p \in Pids |->
    LET s == After(k[p].state, sig)
    IN IF p \notin P \/ s = k[p].state THEN k[p]
       ELSE [state |-> s, news |-> s \in Alive]]

\* The children kill(pid, ...) aims at: -1 means every process there is.
Aimed(pid) == IF pid = NoPid THEN Pids ELSE {pid}
=============================================================================
