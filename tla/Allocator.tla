------------------------------ MODULE Allocator ------------------------------
(***************************************************************************)
(* What hw4's smalloc, scalloc, sfree and srealloc promise their caller:   *)
(* the payloads in use are disjoint and as long as was asked.  It says     *)
(* nothing of blocks, metadata or lists.                                   *)
(***************************************************************************)
EXTENDS Naturals

CONSTANTS
  Space,    \* the addresses a payload may start at
  Lengths   \* the lengths a client may ask for

VARIABLE live   \* the payloads in use, [ptr |-> address, len |-> length]

Apart(b, c) == b.ptr + b.len <= c.ptr \/ c.ptr + c.len <= b.ptr

\* A payload of length n that shares no byte with those in L.
Fresh(L, n) == {b \in [ptr : Space, len : {n}] : \A c \in L : Apart(b, c)}

Init == live = {}

\* smalloc and scalloc when they do not return NULL.  The new payload is sought
\* in live', where a step that is to be checked already has it.
Allocate(n) == \E b \in live' : b \in Fresh(live, n) /\ live' = live \cup {b}

\* sfree of a payload in use.
Release(b) == live' = live \ {b}

\* srealloc when it does not return NULL, in place or not.
Resize(b, n) ==
  \E c \in live' : c \in Fresh(live \ {b}, n) /\ live' = (live \ {b}) \cup {c}

Next ==
  \/ \E n \in Lengths : Allocate(n)
  \/ \E b \in live : Release(b) \/ (\E n \in Lengths : Resize(b, n))

Spec == Init /\ [][Next]_live
=============================================================================
