-------------------------- MODULE MCRequestHandling --------------------------
(* A small instance of RequestHandling for TLC: lines of at most three      *)
(* symbols, a read buffer of two.                                           *)
EXTENDS RequestHandling

CONSTANTS c1, c2

MCRequests == <<
  <<"GET", "page", "\n", "\r", "\n">>,                     \* no headers
  <<"GET", "cgi", "\n", "host", "\n", "\r", "\n">>,        \* as client.c sends it
  <<"PUT", "page", "\n", "\r", "\n">>,                     \* not GET
  <<"GET", "..", "\n", "h", "h", "h", "\r", "\n", "\r", "\n">>,  \* a line of five symbols
  <<"\n", "\r", "\n">>,                                   \* no words
  <<"GET", "page">>,                                       \* cut short
  <<"GET", "long", "\n", "\r", "\n">>,                     \* a URI too long
  <<"long", "page", "\n", "\r", "\n">>                     \* a method too long
>>

\* A client that does as client.c, with or without a header, beside any other;
\* and two that do not finish.
MCStreams ==
  {[c \in {c1, c2} |-> MCRequests[IF c = c1 THEN ij[1] ELSE ij[2]]] :
     ij \in ({1} \X (2 .. 8)) \cup {<<2, 2>>, <<2, 6>>, <<6, 6>>}}

MCDisks == {
  [home |-> "regular", page |-> "regular", cgi |-> "foreign"],
  [home |-> "regular", page |-> "special", cgi |-> "regular"]
}

MCChanges == {<<"page", "empty">>, <<"page", "missing">>}
==============================================================================
