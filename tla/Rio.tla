--------------------------------- MODULE Rio ---------------------------------
(***************************************************************************)
(* The buffered line reader of segel.c (rio_read and rio_readlineb).  A    *)
(* reader is the record [line |-> what usrbuf holds of the line being      *)
(* read, buf |-> the unread part of rio_buf].  Its input is a sequence of  *)
(* symbols of which read() delivers some, however many it likes; "\n" is   *)
(* the symbol that ends a line, and a whole word is one symbol.            *)
(***************************************************************************)
EXTENDS Naturals, FiniteSetsExt, SequencesExt

CONSTANTS
  MaxLine,    \* rio_readlineb's maxlen: a line has room for one symbol less
  RioBufSize  \* RIO_BUFSIZE, how much one read() may deliver

ASSUME RioAssumption == MaxLine \in Nat \ {0, 1} /\ RioBufSize \in Nat \ {0}

UpTo(s, n) == SubSeq(s, 1, n)
Beyond(s, n) == SubSeq(s, n + 1, Len(s))

\* rio_readlineb's loop is over: the newline is read, or usrbuf is full.
LineFull(line) ==
  Len(line) = MaxLine - 1 \/ (line # <<>> /\ Last(line) = "\n")

\* rio_readlineb calls rio_read for one symbol after another; this is how far it
\* gets with what is in the buffer.
Scan(line, buf) ==
  LET n == Min({k \in 0 .. Len(buf) :
                  k = Len(buf) \/ LineFull(line \o UpTo(buf, k))})
  IN  [line |-> line \o UpTo(buf, n), buf |-> Beyond(buf, n)]

\* rio_readinitb, and usrbuf before anything is read into it.
InitB == [line |-> <<>>, buf |-> <<>>]

\* A slip the check must notice: rio_readinitb before every line.
NextLineForgets(rio) == InitB

\* The next call of rio_readlineb, as far as the buffer goes.
NextLine(rio) == Scan(<<>>, rio.buf)

\* The line is not complete and the buffer is empty: rio_read calls read().
NeedsInput(rio) == rio.buf = <<>> /\ ~LineFull(rio.line)

\* A slip the check must notice: a read() of all there is.
ChunksUnbounded(input) == 1 .. Len(input)

\* How many symbols read() may deliver of an input that is not empty.
Chunks(input) == 1 .. Min({Len(input), RioBufSize})

\* rio_read after a read() that delivered n symbols.
Refill(rio, input, n) == Scan(rio.line, UpTo(input, n))

-----------------------------------------------------------------------------
(***************************************************************************)
(* What a line is, without buffers: the input is cut behind every newline, *)
(* and where a line has grown to MaxLine - 1 symbols.                      *)
(***************************************************************************)
IsPiece(piece) ==
  /\ LineFull(piece)
  /\ \A k \in 1 .. Len(piece) - 1 : piece[k] # "\n"

\* The places where a line of s begins: its start, behind a newline, and behind
\* so many full buffers after one of those; and its end, as end of file ends a line.
Cuts(s) ==
  {n \in 0 .. Len(s) :
     n = Len(s) \/ \E k \in 0 .. n : /\ k = 0 \/ s[k] = "\n"
                                     /\ \A j \in k + 1 .. n : s[j] # "\n"
                                     /\ (n - k) % (MaxLine - 1) = 0}

\* The complete lines of s, as pairs of where they begin and end.
Lines(s) ==
  {pq \in Cuts(s) \X Cuts(s) : pq[1] < pq[2] /\ IsPiece(SubSeq(s, pq[1] + 1, pq[2]))}

\* A reader that has taken n symbols of s, whose lines begin at cuts, has the
\* line it should have: what it holds, usrbuf and buffer together, is what it
\* took last, and begins where a line begins.
InStep(rio, s, cuts, n) ==
  LET held == rio.line \o rio.buf
  IN  /\ n - Len(held) \in cuts
      /\ held = SubSeq(s, n - Len(held) + 1, n)
      /\ rio.buf # <<>> => LineFull(rio.line)
==============================================================================
