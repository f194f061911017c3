# Verification of the operating-systems assignments

The repository holds three independent programs of an operating-systems course:
a multi-threaded **web server** (`hw3/webserver-files`), a **shell** with job
control (`hw1`) and three versions of a **heap allocator** (`hw4`).  They share
no code.  This directory holds TLA+ models of them, TLC configurations and
TLAPS proofs.  The web server (thread pool, queues, request handling), the shell
and the two larger allocators are modelled and checked; the safety properties of the
pool, of request handling, of the shell and of both allocators are proved as well.

## Inventory

### Web server (hw3/webserver-files)

| part | state | operations | interacts with |
|---|---|---|---|
| thread pool, `server.c` | `waiting_requests`, `running_requests`, mutex `m`, condition `c`, the descriptors in threads' locals | `main`: accept, apply the overload policy; `thread_routine`: pop, count as running, handle, close, uncount | queues; request handling; kernel descriptors |
| queue, `queue.c` | head, tail, size, heap nodes | push, pop, discard X, remove by index | called by all threads under `m` |
| request handling, `request.c` | `threadStats` of the worker, the connection | read the request line and headers, answer static files, run CGI programs | client, child processes, files |
| wrappers, `segel.c` | read buffer of a connection | buffered reading of lines, writing in pieces; every wrapper ends the program on error | everything |
| client, `client.c` | its connection | send one request, read the answer to its end | server |
| CGI program, `output.c` | inherited descriptors | sleep, print a page, exit | client, the worker that waits for it |

Hard behaviours: one mutex and ONE condition variable serve master and workers
(wakeups may go to the wrong thread or get lost); a request is counted in two
queues and moves between them in two steps; workers take the head of
`running_requests`, not their own entry; descriptors are reused by the kernel
immediately; `malloc` failures are ignored; any failing system call ends the
whole program; input and output come in pieces of any size; a CGI child inherits
every connection that is open when it is forked; clients leave or stop half way,
and files change between `stat` and their use.  Correct means: capacity
respected, each connection closed exactly once by one owner, arrival order kept,
policy honoured, nobody sleeps while there is something to do, every connection
closed in the end; lines read as they were sent, answers whole, statistics that
agree with the answers, and no end of the server that a client's absence, a
changed file, a failing call or a word too long for the arrays it is copied into
does not explain.

### Shell (hw1)

| part | state | operations | interacts with |
|---|---|---|---|
| command loop, `smash.cpp`, `Commands.cpp` | prompt, last path, `foreground_cmd`, `foreground_jobid`, `time_this` | parse a line, run a built-in, fork an external command | job list, children |
| job list | `jobs_vec` | addJob, removeFinishedJobs, fg, bg, kill, jobs, quit | `waitpid`, shared with the handlers |
| signal handlers, `signals.cpp` | none of their own | ctrl-Z, ctrl-C, alarm, at any instruction of the main loop | foreground command, job list, timed commands |
| timeouts | `timed_cmds`, the process's one alarm | timeout, killTimedCmmands | children, job list |
| redirection and pipes | descriptors 0, 1, 2 | prepare, execute, cleanup | children |

Hard behaviours: handlers interrupt the main loop between a child's change of
state and the shell's notice of it; three places reap children (`waitpid`) and
each treats a child reaped elsewhere as an error; the jobs hear signals from other
processes, among them the children of the shell's own pipes, of which the list
knows nothing.  Correct means: job ids are unique and keep naming the same process,
no running child drops out of sight, a job marked stopped is stopped unless somebody
else has continued it, nothing is killed before its time, `quit kill`
leaves nothing behind, the end of the foreground command brings the prompt back,
descriptor 1 is restored.

### Allocators (hw4)

| part | state | operations |
|---|---|---|
| `malloc_1.cpp` | program break | one `sbrk` |
| `malloc_2.cpp` | address-ordered block list, statistics | smalloc, scalloc, sfree, srealloc |
| `malloc_3.cpp` | blocks with a header and a footer, size-ordered list, wilderness pointer, statistics, mmapped blocks | the same, with splitting, merging and growth |

Sequential, but with long sequences of calls that must keep header, footer,
list, wilderness and statistics consistent; unsigned arithmetic; failures of
`sbrk` half way.  `niv_tests/malloc_3.cpp` is an older copy nobody builds.

## Modules

| module | models | main correspondences |
|---|---|---|
| `ServerPool` | `server.c` over queues as sequences | `pc[t]` is the next statement of thread `t`; `conn[t]` its locals `connfd`/`arrival` or `fd`/`tstats->arrival`; `m`, `sleeping` the mutex and the threads blocked on `c`; `open` the kernel's descriptors; `served`, `shed`, `lost` history |
| `DiscardShare` | `ceil(size*0.3f)` of line 133 | single precision by integer arithmetic |
| `AdmissionControl` | what the overload policies promise | connections are numbers; no threads, locks, descriptors |
| `ServerPoolRefinement` | the mapping from `ServerPool` to `AdmissionControl` | a request is *active* from a worker's pop to its pop of `running_requests` |
| `QueueList` | `queue.c` on heap nodes | `node` maps allocated addresses to `Node` structs, `queue` holds head, tail, size |
| `QueueListProofs` | TLAPS proofs about `QueueList` | |
| `ConnQueues` | the interface `ServerPool` uses of `queue.c` | sequences and returned values |
| `ServerPoolProofs` | TLAPS proofs about `ServerPool`: types, mutex, capacity, descriptors; then order, accounting, leaks, wakeups | |
| `ServerPoolRefinementProofs` | TLAPS proof that `ServerPool` implements `AdmissionControl` | |
| `Rio` | `rio_readinitb`, `rio_read`, `rio_readlineb` | a reader is what `usrbuf` holds of the line and what is unread in `rio_buf`; a line is cut where it is full, and `Cuts` says the same without buffers |
| `RequestHandling` | `request.c` over `Rio` and `rio_writen`, from a worker's pop to its `Close`; the clients, the CGI children (`output.c`) and the files | `pc[w]` is the next call of worker `w`, `conn`, `rio`, `uri`, `stats` its locals; `todo` the buffers of the `Rio_writen` calls still to come; `open` the connections the process has open, `child[w].holds` those a child has; `answer` history, `out` what was written |
| `RequestHandlingProofs` | TLAPS proofs about the operators of `Rio` and about `RequestHandling` | |
| `Allocator` | what the allocators promise their caller | `live` holds the payloads in use, address and length; nothing of blocks |
| `FirstFitHeap` | `malloc_2.cpp` | `blocks` is the address-ordered list, `stats` the five counters, `live` what the client holds |
| `FirstFitHeapProofs` | TLAPS proofs about `FirstFitHeap` | |
| `BlockHeap` | `malloc_3.cpp` | `heap` is the allocator's state: `meta` maps each address that holds a `MallocMetadata` (header or footer) to its contents, `list` the linked headers, `wilderness`, `start`, `brk` the pointers, `stats` the counters; one operator per function |
| `BlockHeapProofs` | TLAPS proofs about `BlockHeap` | |
| `Sublists` | what is left of a list when some of its entries are taken out | `removeFinishedJobs` of the shell, `removeMetadata` of `malloc_3.cpp` |
| `DataLemmas` | TLAPS proofs about minima, insertions, sublists and sums, for the proofs of the allocators and of the shell | |
| `Children` | the kernel's side of the shell | the state of each child and whether `waitpid` has a change to report |
| `JobsList` | class `JobsList` | one operator per function, from the vector and the children it finds to those it leaves |
| `SmallShell` | `smash.cpp`, `signals.cpp` and the commands of `Commands.cpp` that touch children, jobs, the alarm or descriptor 1 | `pc` is the next step of `main`; `line` what is left of the command to execute; `jobs`, `timed_cmds`, `time_this`, `foreground_cmd`, `foreground_jobid` the members of `SmallShell`; `alarm` the process's one alarm; `out`, `saved` descriptor 1 and what its copy is a copy of; `given`, `ever_timed`, `born`, `late_stop`, `disturbed`, `strayed`, `unrestored` history |
| `SmallShellProofs` | TLAPS proofs about `JobsList` and `SmallShell` | |
| `MC...` | instances for TLC | |

`ServerPool` keeps the statements inside a critical section apart: the guard,
the eviction and the push of one policy are separate steps, so that the mutex
and not the model provides atomicity.  `requestHandle` is one step there that either
returns or, when a wrapper's system call fails, ends the program.  `malloc` in
`queuePush` may fail.  `pthread_cond_wait` may wake without a signal.

`RequestHandling` opens that step: it is cut at every system call that another
process or thread can influence.  A request is a sequence of symbols, a word
being one, and `read()` delivers any piece of it that fits `rio_buf`; `write()`
takes any piece of what it is given.  What `sscanf` leaves unset and what `buf`
holds before its first line may be anything.  Of a word only one more thing counts: whether
it is so long (`LongWords`) that `filename` and the body of an error message, which get
it with more text, have no room for it although the line has.  `sprintf` then writes
past the array (`Overflow`): the process ends, or goes on as if the array were longer;
other things that could follow from it are not modelled.  Every failing call of the server
ends the process with all its threads, the children excepted.  Accepting and
queueing are one step with the client's `Connect`, because `ServerPool` has them
in full; a policy that sheds a connection never hands it to a worker.

The allocators are sequential: each call of the client is one step, and a
function of the program is an operator from the heap it finds to the heap it
leaves, in the order of its statements where the order shows.  A call that
returns NULL and changes nothing is not a step of `FirstFitHeap`.  What the
client writes into its payloads is not modelled, only where the payloads lie;
when `malloc_3.cpp` reads payload bytes as metadata the model takes any of the
outcomes the bytes could give (`Junk`).  Where the program does something C++
gives no meaning to, or an assertion fails, `BlockHeap` records the first such
event in `heap.fault` and stops: `foreign` (metadata read outside the heap),
`munmap` (of a piece of the heap), `unlisted` (a block that is on no list is
taken off it), `clobbered` (a payload moved over the links of a block still
listed), `corrupt` (a header written into a payload, or memory added behind the
wrong block), `null` (data copied to NULL when `smalloc` fails, lines 559 and
565), `assert350` and `assert455`.  All of them can be reached, and so can every
case of `tryMergeRealloc`, with and without `sbrk` failing.

In `SmallShell` a handler runs to its end between two steps of `main`, wherever
`main` is; the steps of `main` are cut where a handler can tell the difference:
around every assignment to `foreground_cmd`, its `child_pid` and
`foreground_jobid`, around the polling loops, and nowhere inside a function of
`JobsList`, because the handlers that touch the list do nothing unless
`foreground_cmd` is set.  Children end, die of a signal and stop at any time
outside a handler.  A command line is what its words mean; of `timeout`,
redirection and the command they wrap, each executes the rest of the line, which
calls `removeFinishedJobs` again.  A redirection may fail at its `dup`, `close`, `open`
or, behind the command, its `dup2`.  A pipe forks twice and waits for both pids; a
fork that fails has pid -1, and the wait for it takes any child's end.  Its children
run the shell's code on copies of the job list, and so may other shells; what counts of
them is that a `kill`, `bg` or `fg` of theirs continues or kills a stopped child of this
shell and leaves its list alone.  `Disturb` is that step, at any time, by anybody, and
`disturbed` and `strayed` remember to which children it happened: while they were jobs,
and while they were not.  (Stopping a child is `ChildStops`, killing one that runs is
`ChildEnds`; both may happen to any child at any time.)  A child in which `execl` fails
goes on as a second shell with copies of the lists; to this one it is a child like
any other.  A child
the alarm handler is about to kill may exit by itself between its `waitpid` and
its `kill`; that is how line 615 can meet an entry that is gone (`pc` becomes
`undefined`).  A ctrl-Z can come too early or too late:
while `fg` is still setting up, after the command has been filed by an earlier ctrl-Z, or
after its end.  In the first case the handler appends to the vector `job` points into: if
it loses no entry and has room for one more, `fg` goes on with the pointer, and otherwise
`pc` becomes `undefined` and nothing is said of what follows.  It is always `undefined`
when `child_pid` is still -1, because the handler's `kill(-1, SIGSTOP)` stops every process
of the user, the one that shows the terminal too.  The program
handles none of these, and `late_stop` remembers that one has happened; the
properties that presume none of them say so.

Operators introduced as "a slip the check must notice" are not part of the model: each is
a plausible bug, substituted for the operator that follows it to see that a
property notices.

## Runs

| run | bounds | shows |
|---|---|---|
| `pool_safety` | 3 workers, queue_size 2, 4 connections, 4 descriptors, 1 malloc failure, 1 spurious wakeup, failing requests, all policies and an unknown one; threads and descriptors symmetric | capacity but for the malloc failure, running count, accounting, descriptor ownership, leaks, order, no lost wakeup, no deadlock |
| `pool_refines_admission` | 2 workers, queue_size 4, 5 connections on 5 descriptors given out lowest first, 1 spurious wakeup, no faults, no symmetry | every policy does what `AdmissionControl` says; every accepted connection is closed |
| `unknown_policy` | 1 worker, 3 connections | expected violation: see Findings |
| `queue_list` | 2 queues, 4 addresses, 2 descriptors | the lists refine sequences, no leak, no dangling pointer |
| `request_handling` | 2 workers, 2 clients, lines of 3 symbols, a read buffer of 2, eight requests in ten pairs, one word too long for the arrays, 1 mishap (a failing fork or a file that changes), two states of the files | lines read as sent, answers whole, no harm without cause, statistics that agree, every complete exchange ends |
| `first_fit_heap` | a heap of 16 addresses, metadata of 2, sizes 0, 1, 2, 4 and one too large, products that wrap | types and order, true statistics, no block leaked, `Allocator` implemented |
| `block_heap` | a heap of 26 addresses from an aligned and an unaligned break, metadata of 2, alignment 2, threshold 14, one mapping, sizes 1, 7, 14 and too large a product | tiling, the list kept in order and merged, statistics, payloads held, `Allocator` implemented until a fault; no fault without its cause, the wilderness followed by all but two cases of `srealloc` |
| `heap_unaligned`, `heap_large_free` | heaps of 30 addresses | expected violations: see Findings |
| `shell_jobs` | 3 children; 2 signals or failing calls: ctrl-Z, ctrl-C, another process's SIGCONT or SIGKILL to at most one stopped child, fork (a pipe's too), dup, close, open, dup2; the commands that share the job list, no timeouts | jobs distinct and under their ids, marks true, no running child lost, prompt clean |
| `shell_timeouts` | 2 children, 1 press or signal of another process, timeouts of one second, one tick of the clock | stale jobs stem from timeouts or others' signals, `quit kill` leaves nothing running, no early kill, ends and stops are noticed |
| `shell_foreground` | 2 children, 1 press | expected violation: see Findings |

Why these bounds are enough: three workers can be at once asleep, between pop
and push, and busy, while two places fill and more connections than places
arrive; four connections on four descriptors make the kernel reuse a
descriptor while others are queued; four places are the least at which
"random" discards two requests in one go, and with five connections one more
arrives than there is room for.  Deadlock is checked in the pool: the only
states that may rest are `Idle` (no client left, every worker asleep, nothing
waiting) and `Ended` (the program has exited).  `MaxConn`, `MaxOOM` and
`MaxSpurious` are the only bounds on behaviours and appear as guards.

The requests: each of the eight is there for a branch, two of them for a URI and a
method that are too long. A line of five symbols is
longer than a line may be and leaves an empty line behind (`request.c` 49 to 58
then stops early and bytes stay unread); a buffer of two symbols ends pieces
inside a line, at its end and behind it, and holds the beginning of the next
line; two workers and two clients are what an inherited connection takes, one
whose child sleeps and one whose client waits; the long words are in a pair with a request
for a page, whose worker their end takes along; one mishap at a time exercises
each failing call, and the client that leaves is not counted among them.  In all
pairs but one a client does as `client.c` does, or sends a request without headers,
so that what the other does to it shows.  `MaxMishaps` is the only bound on behaviours.  Deadlock is not
checked: the process may have exited, every worker may be lost to a client that
hung up, or both clients may have come and gone.

The heaps are small because their constants are: with metadata of two bytes, a
least split of two and a threshold of fourteen, 26 addresses hold four blocks,
which is what the merging of a block with both neighbours beside a busy one
takes, and `sbrk` fails within a few calls.  The sizes asked for round to the
least block and to one that can be split, and the threshold itself; being odd,
the first two are also sizes `srealloc` does not round.
`HeapEnd` and `MaxOvercount` bound the behaviours and appear in guards.  The
allocators need no fairness: nothing is claimed about what a client will call.

The shell: three children are one in the foreground beside two jobs, which
removing, sorting, choosing and giving ids need; two presses are what a second
ctrl-Z on the same command, or a ctrl-Z after `fg` of a stopped job, takes, and one
of them with a signal of another process what makes a mark stale; each
failing call exercises its branch, both of a pipe's forks may fail, and after a `dup2`
that fails another redirection may, with descriptor 1 closed or not.  `quit kill` is in
the other run; `quit` alone, and here the built-ins without effect, would cost states and
add nothing.
`shell_jobs` tells states apart by `JobsView`, which leaves out the histories of children
that are neither jobs nor in `main`'s hand and the counters of bounds that are used up: no
guard and no property of the run depends on them any more.  Timeouts need an entry that is due
beside one that is reaped elsewhere, which two children give, and the clock one
tick, because limits are one second.  `MaxPid`, `MaxSignals`, `MaxDisturbed`, `MaxFaults`,
`MaxMishaps` and `MaxTime` are the only bounds and appear in guards.  Deadlock is not checked in
these runs: the shell really may stop (`quit`) or be `undefined`, and when all
bounds are used up a waiting shell has nothing to wait for.  Its fairness is weak fairness of
`main`: the process is scheduled again and again.  Children, the user, signals
and the clock promise nothing, so a command that never ends keeps its shell.

Fairness in `RequestHandling` is weak fairness of each worker with its child, and of
a client that is still there when its answer ends.  The child's part says that a
CGI program ends, as `output.c` does after a time the client chooses.  Clients
promise neither to connect, nor to finish their request, nor to stay, so
`EveryExchangeEnds` speaks of requests with an empty line behind their headers,
and of connections a worker has taken: other clients may have cost the server
its workers before.

DiscardShare holds operators only; `ShareIsThirtyPercent`, which TLC evaluates in
every run that reaches the module, has the sizes 0 to 200.

Fairness of the pool is weak fairness of the master's steps except accepting, and of each
worker: a thread that can run does run.  Nothing is assumed of clients, of
spurious wakeups or of faults.  That `requestHandle` returns is part of that
fairness and is an assumption about the client: a client that never finishes
its request holds its worker for ever.  `EveryExchangeEnds` of `RequestHandling`
says for which clients the assumption is met.  Weak fairness is enough because
the number of connections, and with it the number of times a thread can take
the mutex away from another, is bounded; with clients arriving for ever pthread
mutexes promise no fairness and a thread might starve.

## Proofs

All theorems hold for every value of the constants that satisfies the named
assumptions of the modules; TLC evaluates these assumptions in its runs.

**The thread pool.**  `ServerPoolProofs` proves, for any finite sets of workers and
descriptors, any `queue_size` and any number of connections and faults, that the
types hold (`TypeCorrect`), that the requests waiting or in workers' hands exceed the
capacity by no more than `malloc` has failed (`CapacityNeverExceeded`), that `running_requests` counts the busy workers
(`RunningCounted`) and that no descriptor has two owners or is closed twice
(`DescriptorsOwned`).  Capacity is not inductive: at the master's push it depends
on a test made two steps earlier, and at a worker's push on the place its pop
left.  The inductive invariant `IInv` adds what carries these facts across:
`MutexInv` (a thread is inside a critical section just when it holds `m`),
`SleepInv` (sleepers are in `pthread_cond_wait`), `ConnInv` (who has a connection
in hand), `PopInv` (a worker pops a queue that is still not empty) and `PlaceInv`
(the master's room, the worker's reserved place).  The running count and the
ownership of descriptors are inductive given `IInv`; the second is split into
the parts a step can disturb (two entries, two holders, an entry and a holder,
what is open).  What `IInv` bounds is the two counters the program tests
(`CountersBound`); that the requests themselves keep to the bound follows from it with the
running count, which is off by at most one for each failure of `malloc`.

The second part of `ServerPoolProofs` follows the connections.  `StepMoves` reduces the actions of
`Next` to seven kinds of moves (nothing moves, one arrives, is queued, is closed by
who holds it, is forgotten, is shed from the queue, is taken), and each proof has
one case per kind.  `OrderInv` says that the queue ascends and lies between
what the workers carry and what the master carries, and that no arrival is
later than `accepted`; a removal from the middle, which is what "random" does,
keeps it (`OrderKept`).  With the order, arrivals are distinct, so a move takes an
arrival from exactly one place to exactly one other (`AllAccounted`); with the
accounting, a descriptor that stays open unowned is paired with an arrival in
`lost` and with a failure of `malloc` (`NothingElseLeaks`).  `WakeupsReach` rests on two
invariants: a sleeping worker means that those on their way to the queue are at
least as many as what waits there (`WorkersAwake`), and a sleeping master means
that there is no room or that a worker is between its pop and its push, whose
broadcast is still to come (`MasterRests`).  Both presume nothing about spurious wakeups.

`ServerPoolRefinementProofs` proves that the pool implements `AdmissionControl`, initial
state and every step (`PoolImplementsAdmission`), under `Presumed`: `malloc` does not
fail and the policy is one of the four.  Without either the pool does what no
policy promises (it forgets a connection; see `unknown_policy`), so the hypothesis is the
promise's own.  `MasterInv` carries the master's test of the capacity from where it
is made to where it is acted upon, and the count of what is still to be discarded;
`ServedInv` says that a worker about to uncount itself has served.  The abstract
steps are then matched one lemma each (`SimArrive`, `SimAdmit`, `SimRefuse`, `SimEvict`,
`SimDropOne`, `SimDispatch`, `SimComplete`).

Assumptions: `PoolAssumption` (the constants are what their comments say) and
`ShareAssumption` (up to `queue_size`, single precision discards thirty per cent or
one more; TLC evaluates the same, `ShareIsThirtyPercent`, for sizes up to 200).

**The linked lists.**  `QueueListProofs` proves, for any queues, descriptors and finite
set of addresses, that the lists are sound (`SoundLists`) and that they implement
`ConnQueues` (`ListsAreQueues`).  Both speak of what one finds by following the
links, which is a recursive function; `FollowReaches` replaces it by a sequence: from
the head of a list whose nodes are linked as the sequence `c` says, `k` steps lead to
`c[k + 1]`, and past its end to NULL (the least `k` for which they would not gives a
contradiction).  The inductive invariant `ListInv` then says that there is such a
sequence for every queue (`Chained`), that no address is in two places of them, and
that every allocated address is in one.  `PushPushes`, `PopRemoves` and
`UnlinkRemoves` say what a call does to the nodes, `PushedKeeps` and `RemovedKeeps` what that
does to the sequences: the new node has been allocated nowhere, so only the old
tail's link changes; what a removal frees is in no other place, so no link to
it is left.  `PushDoes`, `PopDoes` and `RemoveDoes` match each call with the one of
`ConnQueues` that has the same name.  Assumption: `QueueListAssumption`.

**Request handling.**  `RequestHandlingProofs` begins with `rio_readlineb` and says of it, for any length of a line and
of the read buffer, that scanning stops at the first newline or at the limit and nowhere
else (`ScanMoves`), and that a reader stays in touch with its connection:
what it holds of the line and of the buffer is what the stream holds there, and
the line begins where one of the lines of the stream begins (`InTouch`, with
`ScanInTouch`, `NextLineInTouch`, `RefillInTouch`).  That is the invariant behind
`LinesKept`: `LinesExact` alone says nothing of where the line began, or of what lies
unread in the buffer when the next line begins there.

It then proves the five invariants of `RequestHandling` for any finite
number of workers and connections and any streams of symbols.  `HandlingInv`
has the types, who has which connection (`Held`), that nobody has touched a
connection before its pop (`Fresh`), how far the answer and the CGI child are at each
label (`Answering`), readers in touch (`Reading`), words that are URIs (`UrisKnown`)
and what the process has open (`Opened`).  On it rest

- `HandlingTypes` (no array overflows) and `LinesKept`;
- `HarmHasCause`: `HarmInv` adds that a worker about to map a file or to run a
  program has found it usable, so that harm needs a change in between, and that
  an overflow comes from a first line its client has sent whole (`Overlong`);
- `StatisticsKept`: `StatisticsInv` counts, per worker, the answers by kind, and the
  request that is counted and not yet answered (`InHand`); the numbers it has printed
  are exactly 1 to that count;
- `AnswersWhole`: `AnswerInv` has four parts.  `Past`: headers are read behind the
  request line.  `ReadThrough`: a well-formed request has been read to its end before the answer
  begins, which takes the position of the empty line among the lines of the
  stream.  `Sending`: what has been written and what is left to write are one of the
  stages of the answer, at any cut of `write()`.  `Ends`: a connection nobody
  has any longer has its whole answer, and a reset means bytes left unread.

TLC checked each of these invariants on `request_handling` before it was proved.
The proof of `LookupDecides` found two cases of `Lookup` in the model that overlapped, so
that the order in which a `CASE` is evaluated decided; they are disjoint now, in the
order of the code.  Assumptions: `RioAssumption` (a line has room for a
symbol and its end), `HandlingAssumption` (the types of the constants) and
`UriAssumption` (`Uris` has every word that stands where a URI is expected).

**The shell.**  `SmallShellProofs` proves the seven safety invariants of `SmallShell`
and its action property for any number of children, command lines, signals,
failing calls and seconds.  It begins with what the functions of the job list do:
which entries stay and in which order (`KeptFacts`, `SortedFacts`), and, for
`removeFinishedJobs`, that it erases only entries of children that have ended, and
leaves none of the children it has reaped on a list without duplicates (`TidiedFacts`);
`AddedFacts`, `RemoveJobFacts` and `AlarmFacts` do the same for `addJob`,
`removeJobById` and the alarm handler.  The inductive invariant has five layers, each
proved from those below it:

- `ControlInv`: types, what `foreground_cmd` and `foreground_jobid` hold at each step of
  `main` (`Places`), and what is left of a redirection (`Redirected`): until a `dup2` of
  `cleanup` fails, whatever part of `prepare` has failed, there is a copy of the terminal
  whenever descriptor 1 is something else.  `ShellTypes` and `PromptClean` follow.
- `Sight`: jobs and the command in hand are children that exist, `fg`'s choice is on the
  list until it is removed, and a forked child that runs has no report pending, so that the
  wait does not end while it runs, unless it has become a job or somebody else has
  continued it (`strayed`).  `NothingLost` is part of it, and `QuitKills` follows
  because every running child is a job, or has strayed, when a line is executed.
- `Timed`: the start in an entry of `timed_cmds` is the time of its child's fork, and a
  child that is about to be filed is in no record yet.  `AlarmInTime` follows.
- `Named`: while every ctrl-Z was in time, the command in the foreground is a job
  already, or keeps the id it was first given, which nobody else has (`OwnId`); with
  that, `IdsAreDistinct` and `MarksAreTrue` are inductive; a job somebody else has
  continued stays in `disturbed`, which excepts its mark and no other.
- `Unreaped`: a job `main` polls for is stopped, or has been timed or `disturbed`, so that polling reaps
  no job; `OnlyTimeoutsMakeStale` follows, with the distinct jobs of `Named` (of two entries
  with one process, `removeFinishedJobs` would leave the second behind).

The cases that decide are those of ctrl-Z (`CtrlZSight`, `CtrlZNamed`,
`CtrlZUnreaped`): the handler may run at every step of `main`, and `late_stop` is just
what has to be excluded for the invariants to survive it.  Nothing is assumed of other
processes: they may continue, stop and kill any child at any time, and the exceptions
above are what that does.  TLC checked every layer on
`shell_jobs` and `shell_timeouts` first.  Assumptions: `ChildrenAssumption` and
`ShellAssumption`, the types of the constants.

**`malloc_2.cpp`.**  `FirstFitHeapProofs` proves, for any size of the metadata and of
the heap and whatever sizes are asked for, that it keeps its blocks apart and in
order (`TypeCorrect`), that the blocks not marked free are those the client
holds (`BusyBlocksAreHeld`), that it implements `Allocator` (`KeepsPromise`: every call
is a step of the promise or changes nothing there), and that its counters are true
(`CountersTrue`).
The inductive invariant is the conjunction of the first two with `Granted` (the
last block ends below `HeapEnd`), which bounds the addresses handed out; each
call is shown to obtain or to yield one block and to leave the others where they
are (`Obtains`, `Yields`), and the invariant and the promise follow from that.
The counters are sums over sets of blocks, and a sum is a recursive function of its
set.  `DataLemmas` proves what it becomes when a member comes, goes or changes its
size (`SumSplit`, `Exchange`), by a smallest set that would be wrong, and both
allocators' counters follow from that.
Assumption: `HeapAssumption`, the types of the constants.

**`malloc_3.cpp`.**  `BlockHeapProofs` proves, for any metadata, alignment,
thresholds, heap and mappings and whatever calls the client makes, all eight safety
properties of `BlockHeap`: the types (`TypesCorrect`), the tiling of the heap
(`HeapTiled`), the list (`ListInOrder`), the counters (`CountersTrue`), the payloads
held (`NothingLeaks`), the two action properties (`WildernessTaken`,
`FaultsExplained`), and `Allocator` until the first fault (`KeepsPromise`).

The inductive invariant is `IInv`, that is `HeapInv(heap, live)`.  Its part `Sound`
holds in every state, after a fault too: the list links each block once and in
order (`Linked`); the blocks have both copies of their metadata, adjoin, do not
overlap and end at the break (`Tiles`); `sbrk_start` is below them (`Anchored`); the
pointer and the counters have their types.  While nothing has gone wrong there are
also `Merged` (no two free blocks are neighbours), `Proper` (the counters are those
of the blocks and mappings) and `Held` (the client's payloads are the busy blocks, and
fit).  The properties alone are not inductive.  `findNextMetadata` and
`findPrevMetadata` read whatever lies behind and before a block, so `Tiles` has to
say that metadata is found nowhere else (`Known`), that only the first block has
none before it and that it is aligned (`Rooted`), and `Anchored` that from an aligned
break the start of the heap is the first block; this is what limits the fault
`foreign` to an unaligned start.  `MapsKnown` (mappings are busy and not
below the threshold) limits `unlisted`.

The argument follows the program.  Each of its functions has a lemma of what it
leaves of a sound heap: a fusion of neighbours (`FuseTiles`, `FusionBooks`), a split
(`SplitTiles`, `SplitFacts`), growth at the break (`NewTiles`, `GrowFacts`), a mapping
(`MapFacts`, `UnmapFacts`), then `SfreeFacts`, `SmallocServes`, `MergeTries` for the
five cases of `tryMergeRealloc`, and `SreallocEnds`.  `SmallocCall`, `SfreeCall` and
`SreallocCall` add what the client holds, and `CallSane` has one case per
call of the client.  Every lemma has a case for the fault: which one, and what the
heap it was called on had to do with it (`Blamed`, `Mishap`, `Accused`, and
`ForeignCause`), from which `FaultsExplained` follows.

TLC checked `IInv` on the instance of `block_heap` before it was proved.  Two
things were wrong in the model.  `FaultsHaveCauses` named a grown block as the only
cause of `munmap`; a block with an odd size, left by an earlier `srealloc`, is another.
And `HeapAssumption` was too weak: the size of the metadata is a multiple of the
alignment, an address fits a `size_t`, and mappings do not overlap.

**Only model-checked.**  Liveness, of the pool (every accepted connection is closed),
of request handling (`EveryExchangeEnds`) and of the shell (`EndIsNoticed`, `StopIsNoticed`):
fairness and `ENABLED` are out of the prover's reach.  What is claimed about it
holds of the instances above.

## Findings

`unknown_policy`: `getargs` prints that the policy must be one of four names and
returns; the server then runs with an uninitialised enum.  When it holds none
of the four values the `switch` does nothing and each accepted connection stays
open and unanswered until the descriptors run out.

`heap_unaligned`: `srealloc` splits blocks at the size it was asked for (lines
540 and 553) where `smalloc` rounds it up, so that sizes stop being multiples of
eight; extending such a block when it is the wilderness fails the assertions of
lines 350 and 355.

`heap_large_free`: a heap block that grew to `MMAP_THRESHOLD` is taken for a
mapping (comment of line 563, test of line 516) and unmapped when it is freed.

`shell_foreground`: `fg` sets `foreground_cmd` at line 383 and its `child_pid`,
still -1, at line 384.  A ctrl-Z between them calls `kill(-1, SIGSTOP)` and files a
job with pid -1, of which line 635 says that it should never happen.

Other behaviour of the server that the model reaches and no document excludes: a
client that hangs up before its empty line costs the server a worker for ever
(`requestReadhdrs` spins at end of file); a header longer than `MAXLINE - 1` is
read as two lines, and if the second is an empty one the headers end there, though
line 47 says that everything up to an empty text line is read; requests that are
not GET, and those with such a header, are closed with input unread, which resets
the connection and may cost the client part of its answer; a child whose `execve`
fails exits and writes what the server had buffered for its log into the
connection; a method or a URI of about the length of a line overflows `body` or
`filename`, which have no more room than the line had, and may end the server; a
client sees the end of its answer only when every CGI child forked meanwhile has ended; a file without contents, or one its owner can read and the
server cannot, ends the server.

Other behaviour of the shell that the model reaches and no document excludes: a
second ctrl-Z on the same command files it twice and may take the report `main`
waits for, so that the shell hangs until another signal; `fg` of a job stopped by
anything but ctrl-Z or `kill -19` sends no SIGCONT and hangs in its loop; a
foreground command that stops itself is on no list afterwards, and runs unlisted when
somebody else continues it (a line of the shell that runs `kill` can do so); `kill -18 1 |
cat` and `bg 1 | cat` wake a job that stays marked stopped; a `dup2` that fails in
`cleanup` leaves descriptor 1 the file, or closed, at the prompt; a timed background
job reaped by `jobs` makes `killTimedCmmands` return early for ever, and a timed
job reaped by the alarm does the same to `removeFinishedJobs`; a longer timeout
delays a shorter one; a pipe whose fork fails waits for any child, takes the
report of a job and leaves a stale entry, or waits until some job ends; a timed
command that exits just as the alarm handler kills it makes line 615 write through
an iterator that is gone.

Other faults the model of `malloc_3.cpp` reaches: cases d and e of
`tryMergeRealloc` leave `wilderness` inside a payload, which line 453 then reads
(`assert455`, `corrupt`); `srealloc` of a mapping to a much smaller size takes it off
a list it was never on, which line 139 says never happens (`unlisted`); the moves of lines 338, 381 and 404 overwrite the links
of a block still to be taken off the list (`clobbered`); the statistics of line
351 are not taken back when `sbrk` fails (`overcount`); a failing `smalloc`
inside `srealloc` is not noticed (`null`).  Of `searchFreeBlock` line 144 says it
finds the first block by address; it finds the first by size.

## Plan

1. done: `ServerPool`, `AdmissionControl`, `QueueList`, first theorems.
2. done: `FirstFitHeap` with its proofs, `BlockHeap`, `Allocator`.
3. done: `Children`, `JobsList`, `SmallShell`.
4. done: `Rio`, `RequestHandling` (`request.c` with `rio_*`): the header loop at end of file,
   the CGI child and the descriptors it inherits, the error answers, the
   statistics.
5. done: proofs of the pool's remaining safety properties and of its refinement,
   of the linked lists, of `Rio`, and of all safety properties of `RequestHandling` and
   of the shell.
6. done: proofs of the counters of `FirstFitHeap` and of all safety properties of
   `BlockHeap`.  What is left is liveness.

Not modelled, and why: `malloc_1.cpp` is one call of `sbrk`;
`niv_tests/malloc_3.cpp` is superseded and nothing builds it; the parts of
`segel.c` the programs do not use, and `Open_clientfd` and `Open_listenfd`, which
set up sockets before anything is shared; a `write()` that blocks because a
client does not read, which is a client that holds its worker like one that does
not finish its request; the shell's built-ins that share no state (`cd`, `tail`
and the like); what the children of a pipe print; what follows once a ctrl-Z during `fg`
has stopped every process of the user, the one that shows the terminal too, or has left
`fg` with a pointer to freed memory; what an overflow of `filename` or `body` does when it
neither ends the process nor stays without effect; handlers that
interrupt a library call which is not safe for that (they write to `cout` and
allocate); formatting of answers and logs; the unreachable end of `main`;
`queueDestroy`, which nobody calls.
