--------------------------- MODULE RequestHandling ---------------------------
(***************************************************************************)
(* What a worker of the web server does with a connection: request.c over  *)
(* the reader of segel.c, between the pop and the Close of thread_routine, *)
(* with the clients (client.c and less patient ones), the CGI children and *)
(* the files they meet.  ServerPool has this as one step, "handle".        *)
(*                                                                         *)
(* A request is the sequence of symbols its client sends, a word being one *)
(* symbol; a read() that delivers little of it stands for a slow network.  *)
(* LongWords are the words that a line has room for, but not a buffer that *)
(* gets them with more text: filename and the body of an error message.    *)
(* An answer is the sequence of the pieces write() took.  Any call that    *)
(* fails ends the whole process (unix_error), the children excepted.       *)
(***************************************************************************)
EXTENDS Rio

CONSTANTS
  Workers,      \* the worker threads
  Conns,        \* the connections, each with its client
  Streams,      \* what the clients may send, by connection: requests, whole or cut
  LongWords,    \* words too long for filename or body, without ".." in them
  Uris,         \* the words that may stand where the URI is expected
  Disks,        \* what the files may be at the start
  Nobody,       \* the worker of an answer that has not begun
  Changes,      \* the changes of files considered, names with what they become
  MaxMishaps    \* bound: files that change, and forks that fail

Names == {"home", "page", "cgi"}

\* The connection of a worker that handles none.
NoConn == "none"

\* What a name may stand for: a file the program can read and run, one without
\* contents, one whose owner could read it but the server cannot, something
\* that is not a file or whose owner cannot read it, nothing.
FileKinds == {"regular", "empty", "foreign", "special", "missing"}

ASSUME HandlingAssumption ==
  /\ IsFiniteSet(Workers) /\ IsFiniteSet(Conns)
  /\ Nobody \notin Workers /\ NoConn \notin Conns
  /\ Streams \subseteq [Conns -> Seq(STRING)]
  /\ Uris # {} /\ Uris \subseteq Names \cup {"..", "/"} \cup LongWords
  /\ LongWords \subseteq STRING \ (Names \cup {"GET", "..", "/", "\r", "\n"})
  /\ Disks \subseteq [Names -> FileKinds]
  /\ Changes \subseteq Names \X FileKinds
  /\ MaxMishaps \in Nat

VARIABLES
  stream,    \* what the client of each connection sends
  client,    \* where the client is
  taken,     \* how much of stream read() has delivered
  waiting,   \* the accepted connections no worker has popped
  open,      \* the connections the server process has open
  pc,        \* the next call of each worker
  conn,      \* the connection a worker handles, its local fd
  rio,       \* its reader and the line buffer
  uri,       \* the second word of the request line
  todo,      \* what is left to write: the buffers of the Rio_writen calls
  stats,     \* its threadStats
  child,     \* the CGI program a worker has started, and what that holds open
  files,     \* the files under ./public
  answer,    \* history: what the answer to each connection is
  out,       \* the answer as far as it has been written
  mishaps,   \* how many mishaps there have been
  exited     \* the call whose failure ended the process, or "no"

clients == <<stream, client>>
world == <<clients, files, mishaps, exited>>
server == <<waiting, open, stats>>
reading == <<taken, rio, uri>>
writing == <<todo, answer, out>>
vars == <<world, server, reading, writing, pc, conn, child>>

NoAnswer == [kind |-> "none", by |-> Nobody, count |-> 0]
NoChild == [pc |-> "none", holds |-> {}]
ZeroStats == [handled |-> 0, stat |-> 0, dyn |-> 0]

Init ==
  /\ stream \in Streams
  /\ client = [c \in Conns |-> "new"]
  /\ taken = [c \in Conns |-> 0]
  /\ waiting = {} /\ open = {}
  /\ pc = [w \in Workers |-> "idle"]
  /\ conn = [w \in Workers |-> NoConn]
  /\ rio = [w \in Workers |-> InitB]
  /\ uri = [w \in Workers |-> CHOOSE u \in Uris : TRUE]
  /\ todo = [w \in Workers |-> <<>>]
  /\ stats = [w \in Workers |-> ZeroStats]
  /\ child = [w \in Workers |-> NoChild]
  /\ files \in Disks
  /\ answer = [c \in Conns |-> NoAnswer]
  /\ out = [c \in Conns |-> <<>>]
  /\ mishaps = 0
  /\ exited = "no"

-----------------------------------------------------------------------------
(* The process.                                                            *)

Goto(w, l) == pc' = [pc EXCEPT ![w] = l]

At(w, l) == exited = "no" /\ pc[w] = l

\* unix_error: exit() takes every thread along and closes every descriptor.
UnixError(call) ==
  /\ exited' = call
  /\ open' = {}
  /\ UNCHANGED <<clients, reading, writing, waiting, pc, conn, stats, child, files>>

\* The symbols on the connection that read() has not delivered yet.
Unread(c) == Beyond(stream[c], taken[c])

\* read() reports end of file: everything is delivered and no more will come.
AtEOF(c) == client[c] = "gone" /\ Unread(c) = <<>>

-----------------------------------------------------------------------------
(* requestParseURI.                                                        *)

\* The file a URI names: ".." anywhere in it, and a slash at its end, lead to
\* home.html.
Filename(u) == IF u \in {"..", "/"} THEN "home" ELSE u

\* What it stands for: a path with one of LongWords in it is longer than PATH_MAX.
FileOf(u) == IF u \in LongWords THEN "missing" ELSE files[Filename(u)]

\* A URI without "cgi" in it, or with "..", is static content.
IsStatic(u) == u # "cgi"

-----------------------------------------------------------------------------
(* The wrappers of segel.c as a worker uses them.                          *)

\* read() in rio_read delivers what there is or less.
RioRead(w) ==
  /\ pc[w] \in {"request", "header1", "header"} /\ exited = "no"
  /\ NeedsInput(rio[w])
  /\ LET input == Unread(conn[w])
     IN  /\ input # <<>>
         /\ \E n \in Chunks(input) :
              /\ taken' = [taken EXCEPT ![conn[w]] = @ + n]
              /\ rio' = [rio EXCEPT ![w] = Refill(@, input, n)]
  /\ UNCHANGED <<world, server, writing, uri, pc, conn, child>>

\* read() fails when the client has torn the connection down.
RioReadFails(w) ==
  /\ pc[w] \in {"request", "header1", "header"} /\ exited = "no"
  /\ NeedsInput(rio[w])
  /\ client[conn[w]] = "gone"
  /\ UnixError("Rio_readlineb")
  /\ UNCHANGED mishaps

\* Rio_readlineb returns: the line is complete, or end of file ends it.
LineRead(w) ==
  LineFull(rio[w].line) \/ (NeedsInput(rio[w]) /\ AtEOF(conn[w]))

\* A slip the check must notice: a short write taken for the whole buffer.
LeftOfShort(buffers, n) == Tail(buffers)

\* rio_writen's loop: the buffers left when write() has taken n of the first.
LeftOf(buffers, n) ==
  IF n < Len(Head(buffers))
  THEN <<Beyond(Head(buffers), n)>> \o Tail(buffers)
  ELSE Tail(buffers)

\* write() in rio_writen takes some of the buffer.  After the last one a worker
\* goes on to Fork (requestServeDynamic) or is done with the request.
RioWrite(w) ==
  /\ At(w, "write")
  /\ \E n \in 1 .. Len(Head(todo[w])) :
       /\ out' = [out EXCEPT ![conn[w]] = @ \o UpTo(Head(todo[w]), n)]
       /\ todo' = [todo EXCEPT ![w] = LeftOf(@, n)]
  /\ Goto(w, CASE todo'[w] # <<>> -> "write"
               [] todo'[w] = <<>> /\ answer[conn[w]].kind = "dynamic" -> "fork"
               [] OTHER -> "close")
  /\ UNCHANGED <<world, server, reading, answer, conn, child>>

\* write() fails, or SIGPIPE kills the process, when the client is gone; and
\* when the pages of a mapped file have gone because it was emptied.
RioWriteFails(w) ==
  /\ At(w, "write")
  /\ \/ client[conn[w]] = "gone"
     \/ Head(Head(todo[w]))[1] = "file" /\ FileOf(uri[w]) = "empty"
  /\ UnixError("Rio_writen")
  /\ UNCHANGED mishaps

-----------------------------------------------------------------------------
(* requestHandle and the functions it calls.                               *)

\* The Rio_writen calls that make an answer.  The contents of a file are two
\* pieces, so that write() may take one of them; a header is one.
Calls(kind) ==
  CASE kind = "static"  -> <<"header", "file">>
    [] kind = "dynamic" -> <<"header">>
    [] OTHER            -> <<"status", "type", "stats", "text">>

Buffer(call) == IF call = "file" THEN <<<<call, 1>>, <<call, 2>>>> ELSE <<<<call, 1>>>>

Buffers(kind) == [i \in DOMAIN Calls(kind) |-> Buffer(Calls(kind)[i])]

\* The answer to w's connection is decided; its Stat-Thread-Count will be count.
BeginAnswer(w, kind, count) ==
  /\ answer' = [answer EXCEPT ![conn[w]] = [kind |-> kind, by |-> w, count |-> count]]
  /\ todo' = [todo EXCEPT ![w] = Buffers(kind)]

\* Where the words of a line stand.
WordsAt(line) == {i \in DOMAIN line : line[i] \notin {"\r", "\n"}}

\* sscanf of the request line: where a word is missing, method or uri keeps
\* what the stack held.
Parsed(line) ==
  LET first == WordsAt(line)
      later == first \ {Min(first)}
  IN  (IF first # {} THEN {line[Min(first)]} ELSE {"GET", "PUT"} \cup LongWords)
        \X (IF first # {} /\ later # {} THEN {line[Min(later)]} ELSE Uris)

\* What the first call of rio_readlineb may return for a stream, cut or not.
FirstLines(s) ==
  {UpTo(s, n) : n \in {m \in 0 .. Len(s) :
                        m < MaxLine /\ \A k \in 1 .. m - 1 : s[k] # "\n"}}

\* Uris has every word that stands where the URI is expected.
ASSUME UriAssumption ==
  \A f \in Streams, c \in Conns : \A line \in FirstLines(f[c]) :
    \A p \in Parsed(line) : p[2] \in Uris

\* A worker pops a connection and calls requestHandle.
Take(w) ==
  /\ At(w, "idle")
  /\ \E c \in waiting :
       /\ waiting' = waiting \ {c}
       /\ conn' = [conn EXCEPT ![w] = c]
  /\ rio' = [rio EXCEPT ![w] = InitB]
  /\ Goto(w, "request")
  /\ UNCHANGED <<world, writing, taken, uri, open, stats, child>>

\* A slip the check must notice: the count behind the test of the method.
CountGet(st, method) == IF method = "GET" THEN [st EXCEPT !.handled = @ + 1] ELSE st

\* Every request counts, whatever its method.
Count(st, method) == [st EXCEPT !.handled = @ + 1]

\* The request line is there.  A method other than GET is answered without
\* reading the headers.
RequestLine(w) ==
  /\ At(w, "request") /\ LineRead(w)
  /\ \E p \in Parsed(rio[w].line) :
       /\ stats' = [stats EXCEPT ![w] = Count(@, p[1])]
       /\ IF p[1] = "GET"
          THEN
            /\ uri' = [uri EXCEPT ![w] = p[2]]
            /\ rio' = [rio EXCEPT ![w] = NextLine(@)]
            /\ Goto(w, "header1")
            /\ UNCHANGED writing
          ELSE
            /\ BeginAnswer(w, "501", stats'[w].handled)
            /\ Goto(w, "write")
            /\ UNCHANGED <<uri, rio, out>>
  /\ UNCHANGED <<world, taken, waiting, open, conn, child>>

\* A slip the check must notice: "\n" for "\r\n".
BareEmptyLine(w) == rio[w].line = <<"\n">>

EmptyLine(w) == rio[w].line = <<"\r", "\n">>

\* requestReadhdrs leaves its loop when buf holds an empty line.  At end of file
\* Rio_readlineb does not write buf, which before its first line may hold anything.
HeadersEnd(w) ==
  /\ At(w, "header1") \/ At(w, "header")
  /\ LineRead(w)
  /\ EmptyLine(w) \/ (pc[w] = "header1" /\ rio[w].line = <<>>)

\* A header is discarded and the next one read.  Once buf holds one, end of file
\* leaves it there and the loop changes nothing any more: the worker is lost.
HeaderLine(w) ==
  /\ At(w, "header1") \/ (At(w, "header") /\ rio[w].line # <<>>)
  /\ LineRead(w) /\ ~EmptyLine(w)
  /\ rio' = [rio EXCEPT ![w] = NextLine(@)]
  /\ Goto(w, "header")
  /\ UNCHANGED <<world, server, writing, taken, uri, conn, child>>

\* A slip the check must notice: no look at st_mode.
VerdictUnchecked(u) ==
  IF FileOf(u) = "missing" THEN "404" ELSE IF IsStatic(u) THEN "static" ELSE "dynamic"

\* What requestHandle makes of the result of stat().
Verdict(u) ==
  CASE FileOf(u) = "missing" -> "404"
    [] FileOf(u) = "special" -> "403"
    [] OTHER -> IF IsStatic(u) THEN "static" ELSE "dynamic"

\* Behind the headers: stat(), its tests, and what comes before the next call
\* that can fail.
Lookup(w) ==
  /\ HeadersEnd(w)
  /\ LET kind == Verdict(uri[w])
     IN  /\ BeginAnswer(w, kind, stats[w].handled)
         /\ stats' = [stats EXCEPT ![w].stat = IF kind = "static" THEN @ + 1 ELSE @,
                                   ![w].dyn  = IF kind = "dynamic" THEN @ + 1 ELSE @]
         /\ Goto(w, CASE kind # "static" -> "write"
                      [] kind = "static" /\ FileOf(uri[w]) = "empty" -> "mapEmpty"
                      [] OTHER -> "map")
  /\ UNCHANGED <<world, reading, out, waiting, open, conn, child>>

\* sprintf writes past the end of filename (requestParseURI), of body for the 404
\* of that filename, or of body for the 501 of a method.  If the process is not
\* killed for it, it is taken to go on as if the buffers were longer.
Overflow(w) ==
  /\ \/ HeadersEnd(w) /\ uri[w] \in LongWords
     \/ /\ At(w, "request") /\ LineRead(w)
        /\ \E p \in Parsed(rio[w].line) : p[1] \in LongWords
  /\ UnixError("sprintf")
  /\ UNCHANGED mishaps

\* requestServeStatic opens and maps the file that was there at the stat().
MapFile(w) ==
  /\ At(w, "map")
  /\ FileOf(uri[w]) \in {"regular", "empty"}
  /\ Goto(w, "write")
  /\ UNCHANGED <<world, server, reading, writing, conn, child>>

\* Open fails, or Mmap of what cannot be mapped or of zero bytes.
MapFileFails(w) ==
  /\ \/ At(w, "mapEmpty")
     \/ At(w, "map") /\ FileOf(uri[w]) \notin {"regular", "empty"}
  /\ UnixError("Mmap")
  /\ UNCHANGED mishaps

\* requestServeDynamic forks; the child has every descriptor the server has.
ForkChild(w) ==
  /\ At(w, "fork")
  /\ child' = [child EXCEPT ![w] = [pc |-> "forked", holds |-> open]]
  /\ Goto(w, "wait")
  /\ UNCHANGED <<world, server, reading, writing, conn>>

ForkFails(w) ==
  /\ At(w, "fork")
  /\ mishaps < MaxMishaps
  /\ UnixError("Fork")
  /\ mishaps' = mishaps + 1

\* waitpid(child) returns.
WaitChild(w) ==
  /\ At(w, "wait")
  /\ child[w].pc = "ended"
  /\ child' = [child EXCEPT ![w] = NoChild]
  /\ Goto(w, "close")
  /\ UNCHANGED <<world, server, reading, writing, conn>>

\* requestHandle returns, its locals die, and thread_routine closes the connection.
CloseConn(w) ==
  /\ At(w, "close")
  /\ open' = open \ {conn[w]}
  /\ conn' = [conn EXCEPT ![w] = NoConn]
  /\ rio' = [rio EXCEPT ![w] = InitB]
  /\ Goto(w, "idle")
  /\ UNCHANGED <<world, writing, taken, uri, waiting, stats, child>>

WorkerStep(w) ==
  \/ Take(w) \/ RioRead(w) \/ RioReadFails(w) \/ RequestLine(w)
  \/ HeaderLine(w) \/ Lookup(w) \/ Overflow(w)
  \/ MapFile(w) \/ MapFileFails(w) \/ RioWrite(w) \/ RioWriteFails(w)
  \/ ForkChild(w) \/ ForkFails(w) \/ WaitChild(w) \/ CloseConn(w)

-----------------------------------------------------------------------------
(* The CGI children (output.c).  They outlive the server.                  *)

ChildEnds(w) == child' = [child EXCEPT ![w] = [pc |-> "ended", holds |-> {}]]

\* Setenv, Dup2 and Execve succeed.
ChildRuns(w) ==
  /\ child[w].pc = "forked"
  /\ FileOf(uri[w]) = "regular"
  /\ child' = [child EXCEPT ![w].pc = "running"]
  /\ UNCHANGED <<world, server, reading, writing, pc, conn>>

\* Execve fails: unix_error ends the child, and exit() flushes what the server
\* had buffered for its standard output, which is now the connection.
ChildFails(w) ==
  /\ child[w].pc = "forked"
  /\ FileOf(uri[w]) # "regular"
  /\ \E log \in {<<>>, <<"log">>} : out' = [out EXCEPT ![conn[w]] = @ \o log]
  /\ answer' = [answer EXCEPT ![conn[w]].kind = "failed"]
  /\ ChildEnds(w)
  /\ UNCHANGED <<world, server, reading, todo, pc, conn>>

\* The program prints its page and exits.
ChildPrints(w) ==
  /\ child[w].pc = "running"
  /\ out' = [out EXCEPT ![conn[w]] = Append(@, "page")]
  /\ ChildEnds(w)
  /\ UNCHANGED <<world, server, reading, todo, answer, pc, conn>>

ChildStep(w) == ChildRuns(w) \/ ChildFails(w) \/ ChildPrints(w)

-----------------------------------------------------------------------------
(* The clients, and whoever changes the files.                             *)

\* Open_clientfd and clientSend; the master accepts and queues the connection.
Connect(c) ==
  /\ exited = "no"
  /\ client[c] = "new"
  /\ client' = [client EXCEPT ![c] = "here"]
  /\ open' = open \cup {c}
  /\ waiting' = waiting \cup {c}
  /\ UNCHANGED <<reading, writing, stream, pc, conn, stats, child, files, mishaps,
                 exited>>

\* A client goes away without waiting for the end of its answer.  (When the
\* process has ended, nobody is left to notice.)
Leave(c) ==
  /\ exited = "no"
  /\ client[c] = "here"
  /\ client' = [client EXCEPT ![c] = "gone"]
  /\ UNCHANGED <<server, reading, writing, stream, pc, conn, child, files, mishaps,
                 exited>>

\* Nobody has the server's end of the connection open any more, the server or a
\* child that inherited it.
Ended(c) == c \notin open /\ \A w \in Workers : c \notin child[w].holds

\* clientPrint reads the end of file, or is told that the connection was reset,
\* which is what closing a connection with unread input does.
SeesEnd(c) ==
  /\ client[c] = "here"
  /\ Ended(c)
  /\ client' = [client EXCEPT ![c] = IF Unread(c) = <<>> THEN "end" ELSE "reset"]
  /\ UNCHANGED <<server, reading, writing, stream, pc, conn, child, files, mishaps,
                 exited>>

\* Somebody removes, empties, replaces or protects a file.
FileChanges ==
  /\ exited = "no"
  /\ mishaps < MaxMishaps
  /\ mishaps' = mishaps + 1
  /\ \E change \in Changes : files' = [files EXCEPT ![change[1]] = change[2]]
  /\ UNCHANGED <<clients, server, reading, writing, pc, conn, child, exited>>

Next ==
  \/ \E w \in Workers : WorkerStep(w) \/ ChildStep(w)
  \/ \E c \in Conns : Connect(c) \/ Leave(c) \/ SeesEnd(c)
  \/ FileChanges

Spec == Init /\ [][Next]_vars

\* Threads and children that can run do run, and a client that is still there
\* reads on.  (A worker whose child runs waits for it, so that fairness to either
\* is fairness to both.)  Clients promise neither to connect nor to stay.
Fairness ==
  /\ \A w \in Workers : WF_vars(WorkerStep(w) \/ ChildStep(w))
  /\ \A c \in Conns : WF_vars(SeesEnd(c))

FairSpec == Spec /\ Fairness

-----------------------------------------------------------------------------
(* Properties.                                                             *)

\* The variables of requestHandle and threadStats have their types, and the
\* arrays their sizes: rio_buf RIO_BUFSIZE, the line MAXLINE.
TypeOK ==
  /\ client \in [Conns -> {"new", "here", "gone", "end", "reset"}]
  /\ \A c \in Conns : taken[c] \in 0 .. Len(stream[c])
  /\ waiting \subseteq open \/ exited # "no"
  /\ open \subseteq Conns
  /\ conn \in [Workers -> Conns \cup {NoConn}]
  /\ \A w \in Workers :
       /\ Len(rio[w].line) < MaxLine /\ Len(rio[w].buf) <= RioBufSize
       /\ uri[w] \in Uris
       /\ stats[w] \in [handled : Nat, stat : Nat, dyn : Nat]
       /\ child[w].pc \in {"none", "forked", "running", "ended"}
       /\ (conn[w] = NoConn) <=> (pc[w] = "idle")
  /\ files \in [Names -> FileKinds]

\* The requests; where the lines of each begin; where its headers end, behind an
\* empty line after the request line.
Inputs == {f[c] : f \in Streams, c \in Conns}
CutsOf == [s \in Inputs |-> Cuts(s)]
HeaderEndsOf ==
  [s \in Inputs |-> {pq[2] : pq \in {l \in Lines(s) :
     l[1] > 0 /\ SubSeq(s, l[1] + 1, l[2]) = <<"\r", "\n">>}}]

Complete(c) == HeaderEndsOf[stream[c]] # {}

\* However read() cuts the input into pieces, and whatever is left in rio_buf
\* between two calls, rio_readlineb returns the lines of the request, none
\* skipped, repeated or joined (segel.c 331-422).
LinesExact ==
  \A w \in Workers :
    LET s == stream[conn[w]]
    IN  conn[w] # NoConn => InStep(rio[w], s, CutsOf[s], taken[conn[w]])

\* What client.c sends: a GET whose headers are the end of it.
WellFormed(c) ==
  Complete(c) /\ stream[c][1] = "GET" /\ Min(HeaderEndsOf[stream[c]]) = Len(stream[c])

Whole(kind) ==
  CASE kind = "static"  -> <<<<"header", 1>>, <<"file", 1>>, <<"file", 2>>>>
    [] kind = "dynamic" -> <<<<"header", 1>>, "page">>
    [] OTHER -> <<<<"status", 1>>, <<"type", 1>>, <<"stats", 1>>, <<"text", 1>>>>

\* A client that stays sees the end of file only behind its whole answer,
\* although other children hold its connection, its own child writes part of the
\* answer and write() takes less than it is given; and it is cut off by a reset
\* only if its request had more to read than requestHandle reads.
AnswerWhole ==
  \A c \in Conns :
    (client[c] \in {"end", "reset"} /\ exited = "no" /\ answer[c].kind # "failed")
      => /\ out[c] = Whole(answer[c].kind)
         /\ client[c] = "reset" => ~WellFormed(c)

\* The client of c has sent, as its whole first line, a method or a URI too long
\* for the buffers, or a line without one, for which the stack may hold a long one.
Overlong(c) ==
  /\ client[c] # "new"
  /\ \E line \in FirstLines(stream[c]) :
       /\ LineFull(line) \/ line = stream[c]
       /\ \E p \in Parsed(line) : p[1] \in LongWords \/ (p[1] = "GET" /\ p[2] \in LongWords)

\* What may end the server or leave a CGI answer without its page: a client that
\* left, a file changed at the wrong moment or without contents or not ours to
\* open, a fork that failed, a word that overflows a buffer.  Missing files,
\* directories, other methods, lines longer than MAXLINE, headers and requests
\* that are not finished do not.
NoHarmWithoutCause ==
  (exited # "no" \/ \E c \in Conns : answer[c].kind = "failed")
    => \/ \E c \in Conns : client[c] = "gone" \/ Overlong(c)
       \/ mishaps > 0
       \/ \E n \in Names : files[n] \in {"empty", "foreign"}

\* The statistics a worker prints: its n-th answer says n, and its static and
\* dynamic requests are those it answered so, whatever the requests in between.
StatisticsAgree ==
  \A w \in Workers :
    LET mine == {c \in Conns : answer[c].by = w}
        Of(kinds) == {c \in mine : answer[c].kind \in kinds}
    IN  /\ {answer[c].count : c \in mine} = 1 .. Cardinality(mine)
        /\ stats[w].stat = Cardinality(Of({"static"}))
        /\ stats[w].dyn = Cardinality(Of({"dynamic", "failed"}))

\* A request with an empty line after its headers costs neither its client nor
\* its worker more than time: the client sees an end or leaves, and the worker
\* goes on to the next connection unless the process has ended.  Other workers
\* may be lost to clients that hang up, and children of other requests may hold
\* the connection, but only until they end (request.c 54, 130).
EveryExchangeEnds ==
  \A c \in Conns :
    (Complete(c) /\ \E w \in Workers : conn[w] = c)
      ~> (client[c] # "here" /\ (exited # "no" \/ \A w \in Workers : conn[w] # c))
==============================================================================
