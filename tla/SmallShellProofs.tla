--------------------------- MODULE SmallShellProofs ---------------------------
(***************************************************************************)
(* Proofs about SmallShell, for any number of children, any command lines  *)
(* and any number of signals, failing calls and seconds.                   *)
(***************************************************************************)
EXTENDS SmallShell, DataLemmas

-----------------------------------------------------------------------------
(* The functions of JobsList.                                              *)

\* Sorting is a rearrangement of everything.
LEMMA SortedFacts ==
  ASSUME NEW S, NEW s \in Seq(S), NEW t \in Sorted(s)
  PROVE  t \in Seq(S) /\ Rearranged(t, s, DOMAIN s)
<1>1. PICK p \in Bijection(DOMAIN s, DOMAIN s) : t = [i \in DOMAIN s |-> s[p[i]]]
  BY DEF Sorted
<1>2. /\ p \in [DOMAIN s -> DOMAIN s]
      /\ \A i, j \in DOMAIN s : p[i] = p[j] => i = j
      /\ \A i \in DOMAIN s : \E m \in DOMAIN s : p[m] = i
  BY DEF Bijection, Injection, IsInjective, Surjection
<1>3. Len(s) \in Nat /\ DOMAIN s = 1 .. Len(s) /\ \A i \in DOMAIN s : s[i] \in S
  BY LenProperties, ElementOfSeq
<1>4. t \in Seq(S)
  <2>1. \A i \in 1 .. Len(s) : s[p[i]] \in S
    BY <1>2, <1>3
  <2> QED  BY <1>1, <1>3, <2>1, IsASeq
<1>5. DOMAIN t = DOMAIN s /\ \A i \in DOMAIN t : t[i] = s[p[i]]
  BY <1>1
<1>6. /\ p \in [DOMAIN t -> DOMAIN s]
      /\ \A i, j \in DOMAIN t : p[i] = p[j] => i = j
      /\ \A i \in DOMAIN s : \E m \in DOMAIN t : p[m] = i
  BY <1>2, <1>5, Zenon
<1> QED  BY <1>4, <1>5, <1>6, Zenon DEF Rearranged

\* Finitely many numbers have a bound, and so a greatest.
LEMMA BoundOf ==
  ASSUME NEW n \in Nat, NEW f \in [1 .. n -> Nat]
  PROVE  \E u \in Nat : \A i \in 1 .. n : f[i] <= u
<1> DEFINE Bounded(m) == \E u \in Nat : \A i \in 1 .. m : f[i] <= u
           C == {m \in 0 .. n : ~Bounded(m)}
<1>1. SUFFICES ASSUME C # {} PROVE FALSE
  <2>1. n \in 0 .. n
    OBVIOUS
  <2> QED  BY <1>1, <2>1
<1>2. PICK m \in C : \A k \in C : m <= k
  <2>1. C \in SUBSET Nat
    OBVIOUS
  <2> HIDE DEF C
  <2> QED  BY <1>1, <2>1, LeastOf
<1>3. m # 0
  <2>1. \A i \in 1 .. 0 : f[i] <= 0
    OBVIOUS
  <2>2. Bounded(0)
    BY <2>1
  <2> QED  BY <2>2
<1>4. m - 1 \in 0 .. n /\ ~ (m <= m - 1)
  BY <1>3
<1>5. Bounded(m - 1)
  BY <1>2, <1>4
<1>6. PICK u \in Nat : \A i \in 1 .. m - 1 : f[i] <= u
  BY <1>5
<1>7. f[m] \in Nat /\ m \in 1 .. n
  BY <1>3
<1> DEFINE v == IF f[m] <= u THEN u ELSE f[m]
<1>8. v \in Nat /\ \A i \in 1 .. m : f[i] <= v
  <2>1. ASSUME NEW i \in 1 .. m PROVE f[i] <= v
    <3>1. CASE i = m
      BY <1>7, <3>1
    <3>2. CASE i # m
      <4>1. i \in 1 .. m - 1 /\ i \in 1 .. n /\ f[i] \in Nat
        BY <1>7, <3>2
      <4>2. f[i] <= u
        BY <1>6, <4>1
      <4> QED  BY <1>7, <4>1, <4>2
    <3> QED  BY <3>1, <3>2
  <2> QED  BY <1>7, <2>1
<1>9. Bounded(m)
  BY <1>8
<1> QED  BY <1>2, <1>9

LEMMA MaxOf ==
  ASSUME NEW S \in SUBSET Nat, 0 \in S, NEW b \in Nat, \A x \in S : x <= b
  PROVE  Max(S) \in S /\ \A x \in S : x <= Max(S)
<1> DEFINE U == {u \in Nat : \A x \in S : x <= u}
<1>1. PICK u \in U : \A v \in U : u <= v
  <2>1. U \in SUBSET Nat /\ b \in U
    OBVIOUS
  <2> QED  BY <2>1, LeastOf
<1>2. u \in S
  <2>1. SUFFICES ASSUME u \notin S PROVE FALSE
    OBVIOUS
  <2>2. u # 0
    BY <2>1
  <2>3. u - 1 \in Nat /\ ~ (u <= u - 1)
    BY <2>2
  <2>4. \A x \in S : x <= u - 1
    BY <2>1
  <2> QED  BY <1>1, <2>3, <2>4
<1>3. \E x \in S : \A y \in S : x >= y
  BY <1>1, <1>2
<1> QED  BY <1>3 DEF Max

LEMMA EntryFacts ==
  ASSUME NEW jl \in Seq(JobEntry)
  PROVE  /\ DOMAIN jl = 1 .. Len(jl) /\ Len(jl) \in Nat
         /\ \A i \in DOMAIN jl : /\ jl[i].job_id \in Nat /\ jl[i].pid \in Pids \cup {NoPid}
                                /\ jl[i].is_stopped \in BOOLEAN
<1>1. DOMAIN jl = 1 .. Len(jl) /\ Len(jl) \in Nat
  BY LenProperties
<1>2. \A i \in DOMAIN jl : jl[i] \in JobEntry
  BY <1>1, ElementOfSeq
<1> QED  BY <1>1, <1>2 DEF JobEntry

LEMMA PositionFacts ==
  ASSUME NEW jl \in Seq(JobEntry), NEW id \in JobIds(jl)
  PROVE  PositionOf(jl, id) \in DOMAIN jl /\ jl[PositionOf(jl, id)].job_id = id
<1> DEFINE I == {i \in 1 .. Len(jl) : jl[i].job_id = id}
<1>1. DOMAIN jl = 1 .. Len(jl) /\ Len(jl) \in Nat
  BY LenProperties
<1>2. PositionOf(jl, id) = IF I # {} THEN Min(I) ELSE 0
  BY DEF PositionOf, SelectInSeq
<1>3. I # {} /\ I \in SUBSET Nat
  BY <1>1 DEF JobIds
<1>4. Min(I) \in I
  <2> HIDE DEF I
  <2> QED  BY <1>3, MinOf
<1> QED  BY <1>1, <1>2, <1>3, <1>4

\* An entry at the end hides none before it.
LEMMA AppendedKeeps ==
  ASSUME NEW jl \in Seq(JobEntry), NEW e, NEW jm, jm = Append(jl, e), NEW id \in JobIds(jl)
  PROVE  /\ id \in JobIds(jm) /\ PositionOf(jm, id) = PositionOf(jl, id)
         /\ jm[PositionOf(jl, id)] = jl[PositionOf(jl, id)]
<1> DEFINE n == Len(jl)
           I == {i \in 1 .. Len(jl) : jl[i].job_id = id}
           J == {i \in 1 .. Len(jm) : jm[i].job_id = id}
<1>1. n \in Nat /\ DOMAIN jl = 1 .. n
  BY LenProperties
<1>2. Len(jm) = n + 1 /\ DOMAIN jm = 1 .. n + 1 /\ \A i \in 1 .. n : jm[i] = jl[i]
  BY <1>1
<1>3. /\ PositionOf(jl, id) = IF I # {} THEN Min(I) ELSE 0
      /\ PositionOf(jm, id) = IF J # {} THEN Min(J) ELSE 0
  BY DEF PositionOf, SelectInSeq
<1>4. I # {} /\ I \subseteq J /\ I \in SUBSET Nat /\ J \in SUBSET Nat
      /\ \A j \in J : j <= n => j \in I
  BY <1>1, <1>2 DEF JobIds
<1>5. \A i \in I : i \in 1 .. n
  OBVIOUS
<1>6. J # {} /\ id \in JobIds(jm)
  BY <1>2, <1>4 DEF JobIds
<1> HIDE DEF I, J
<1>7. /\ Min(I) \in I /\ \A i \in I : Min(I) <= i
      /\ Min(J) \in J /\ \A j \in J : Min(J) <= j
  BY <1>4, <1>6, MinOf
<1> HIDE DEF n
<1>8. Min(I) = Min(J)
  <2> DEFINE i == Min(I)
             j == Min(J)
  <2>0. i \in I /\ j \in J /\ (\A x \in I : i <= x) /\ (\A x \in J : j <= x)
    BY <1>7
  <2> HIDE DEF i, j
  <2>1. i \in Nat /\ j \in Nat /\ j <= i /\ i <= n
    <3>1. i \in Nat /\ j \in Nat /\ j <= i
      BY <1>4, <2>0
    <3>2. i \in 1 .. n
      BY <1>5, <2>0
    <3> QED  BY <1>1, <3>1, <3>2
  <2>2. i <= j
    <3>1. j <= n
      BY <1>1, <2>1
    <3> QED  BY <1>4, <2>0, <3>1
  <2>3. i = j
    BY <2>1, <2>2
  <2> QED  BY <2>3 DEF i, j
<1> QED  BY <1>2, <1>3, <1>4, <1>5, <1>6, <1>7, <1>8

\* Lists whose ids are the same have them at the same positions.
LEMMA SamePosition ==
  ASSUME NEW jl, NEW jm, Len(jl) = Len(jm), NEW id,
         \A i \in 1 .. Len(jl) : jl[i].job_id = jm[i].job_id
  PROVE  PositionOf(jl, id) = PositionOf(jm, id)
<1>1. {i \in 1 .. Len(jl) : jl[i].job_id = id} = {i \in 1 .. Len(jm) : jm[i].job_id = id}
  OBVIOUS
<1> QED  BY <1>1, Zenon DEF PositionOf, SelectInSeq

\* No two entries have the same id or the same process.
Distinct(jl) ==
  \A i, j \in DOMAIN jl : i # j => jl[i].job_id # jl[j].job_id /\ jl[i].pid # jl[j].pid

\* Entries of jl have left and others have moved, none is new.
Thinned(jl, jm) ==
  /\ jm \in Seq(JobEntry)
  /\ \A m \in DOMAIN jm : \E i \in DOMAIN jl : jm[m] = jl[i]
  /\ Distinct(jl) => Distinct(jm)

LEMMA RearrangedFacts ==
  ASSUME NEW jl \in Seq(JobEntry), NEW jm \in Seq(JobEntry), NEW I \in SUBSET DOMAIN jl,
         Rearranged(jm, jl, I)
  PROVE  /\ Thinned(jl, jm)
         /\ \A m \in DOMAIN jm : \E i \in I : jm[m] = jl[i]
         /\ \A i \in I : \E m \in DOMAIN jm : jm[m] = jl[i]
<1>1. PICK g \in [DOMAIN jm -> I] :
        /\ \A m, n \in DOMAIN jm : g[m] = g[n] => m = n
        /\ \A i \in I : \E m \in DOMAIN jm : g[m] = i
        /\ \A m \in DOMAIN jm : jm[m] = jl[g[m]]
  BY DEF Rearranged
<1>2. \A m \in DOMAIN jm : \E i \in I : jm[m] = jl[i]
  BY <1>1
<1>3. \A i \in I : \E m \in DOMAIN jm : jm[m] = jl[i]
  BY <1>1
<1>4. ASSUME Distinct(jl), NEW m \in DOMAIN jm, NEW n \in DOMAIN jm, m # n
      PROVE  jm[m].job_id # jm[n].job_id /\ jm[m].pid # jm[n].pid
  <2>1. g[m] \in DOMAIN jl /\ g[n] \in DOMAIN jl /\ g[m] # g[n]
    BY <1>1, <1>4
  <2>2. jm[m] = jl[g[m]] /\ jm[n] = jl[g[n]]
    BY <1>1
  <2> QED  BY <1>4, <2>1, <2>2 DEF Distinct
<1>5. Distinct(jl) => Distinct(jm)
  BY <1>4 DEF Distinct
<1> QED  BY <1>2, <1>3, <1>5 DEF Thinned

\* What removeFinishedJobs does: it takes the entries of children that have ended
\* off the list, and does so with all it has reaped, if no two have the same process.
Tidied(jl, k, jm, km) ==
  /\ Thinned(jl, jm)
  /\ \A i \in DOMAIN jl :
       k[jl[i].pid].state \notin Ended => \E m \in DOMAIN jm : jm[m] = jl[i]
  /\ km \in ChildTable
  /\ \A p \in Pids :
       \/ km[p] = k[p]
       \/ /\ p \in JobPids(jl) /\ km[p].news = FALSE
          /\ km[p].state = IF k[p].state \in Ended THEN "gone" ELSE k[p].state
  /\ Distinct(jl) =>
       \A p \in Pids : km[p].state # k[p].state => p \notin JobPids(jm)

LEMMA ReportedFacts ==
  ASSUME NEW k \in ChildTable, NEW P
  PROVE  /\ Reported(k, P) \in ChildTable
         /\ \A p \in Pids : p \notin P => Reported(k, P)[p] = k[p]
         /\ \A p \in P \cap Pids :
              /\ Reported(k, P)[p].news = FALSE
              /\ Reported(k, P)[p].state
                   = IF k[p].state \in Ended THEN "gone" ELSE k[p].state
BY DEF Reported, ChildTable, ChildState

LEMMA TidiedFacts ==
  ASSUME NEW jl \in Seq(JobEntry), NEW k \in ChildTable
  PROVE  LET left == RemoveFinishedJobs(jl, k)
         IN  Tidied(jl, k, left.jobs, left.children)
<1> DEFINE seen == 1 .. Visited(jl, k)
           over == {i \in seen : k[jl[i].pid].state \in Ended}
           I == DOMAIN jl \ over
           P == {jl[i].pid : i \in seen}
           jm == Kept(jl, I)
           km == Reported(k, P)
           left == RemoveFinishedJobs(jl, k)
<1>1. left.jobs = jm /\ left.children = km
  BY DEF RemoveFinishedJobs
<1>2. I \in SUBSET DOMAIN jl /\ \A i \in DOMAIN jl : k[jl[i].pid].state \notin Ended => i \in I
  OBVIOUS
<1>3. jm \in Seq(JobEntry) /\ Rearranged(jm, jl, I)
  BY <1>2, KeptFacts
<1>4. seen \subseteq DOMAIN jl /\ P \subseteq JobPids(jl)
  <2>1. DOMAIN jl = 1 .. Len(jl) /\ Len(jl) \in Nat
    BY LenProperties
  <2> DEFINE fails(i) ==
               \/ NoSuchChild(k, jl[i].pid)
               \/ /\ k[jl[i].pid].state \in Ended
                  /\ \E j \in 1 .. (i - 1) : jl[j].pid = jl[i].pid
             F == {i \in DOMAIN jl : fails(i)} \cup {Len(jl) + 1}
  <2>2. Visited(jl, k) = Min(F) - 1
    BY DEF Visited
  <2>3. F \in SUBSET Nat /\ Len(jl) + 1 \in F
    BY <2>1
  <2> HIDE DEF F
  <2>4. Min(F) \in Nat /\ Min(F) <= Len(jl) + 1
    BY <2>3, MinOf
  <2>5. seen \subseteq DOMAIN jl
    BY <2>1, <2>2, <2>4
  <2> HIDE DEF F, seen
  <2> QED  BY <2>5 DEF JobPids
<1>5. /\ km \in ChildTable
      /\ \A p \in Pids : p \notin P => km[p] = k[p]
      /\ \A p \in P \cap Pids : /\ km[p].news = FALSE
                                /\ km[p].state = IF k[p].state \in Ended THEN "gone" ELSE k[p].state
  BY ReportedFacts
<1> HIDE DEF jm, km, left
<1>6. /\ Thinned(jl, jm)
      /\ \A m \in DOMAIN jm : \E i \in I : jm[m] = jl[i]
      /\ \A i \in I : \E m \in DOMAIN jm : jm[m] = jl[i]
  <2> HIDE DEF I
  <2> QED  BY <1>2, <1>3, RearrangedFacts
<1>7. ASSUME Distinct(jl), NEW p \in Pids, km[p].state # k[p].state, p \in JobPids(jm)
      PROVE  FALSE
  <2>1. p \in P /\ k[p].state \in Ended
    BY <1>5, <1>7
  <2>2. PICK i \in seen : p = jl[i].pid
    BY <2>1
  <2>3. i \in DOMAIN jl /\ i \notin I
    BY <1>4, <2>1, <2>2
  <2>4. PICK m \in DOMAIN jm : jm[m].pid = p
    BY <1>7 DEF JobPids
  <2>5. PICK j \in I : jm[m] = jl[j]
    BY <1>6
  <2> QED  BY <1>7, <2>2, <2>3, <2>4, <2>5 DEF Distinct
<1>8. \A i \in DOMAIN jl : k[jl[i].pid].state \notin Ended => \E m \in DOMAIN jm : jm[m] = jl[i]
  BY <1>2, <1>6
<1>9. ASSUME NEW p \in Pids
      PROVE  \/ km[p] = k[p]
             \/ /\ p \in JobPids(jl) /\ km[p].news = FALSE
                /\ km[p].state = IF k[p].state \in Ended THEN "gone" ELSE k[p].state
  <2> HIDE DEF P
  <2> QED  BY <1>4, <1>5
<1> HIDE DEF I, P, seen
<1>10. Tidied(jl, k, jm, km)
  BY <1>5, <1>6, <1>7, <1>8, <1>9 DEF Tidied
<1> QED  BY <1>1, <1>10 DEF left

Entry(id, p, stopped) == [job_id |-> id, pid |-> p, is_stopped |-> stopped]

\* What addJob does: it tidies the list up to jt and appends an entry under id, a
\* new one or that of the job in the foreground.
Added(jl, k, p, stopped, fid, jt, id, jm, km) ==
  /\ Tidied(jl, k, jt, km)
  /\ id \in Nat
  /\ IF fid = -1 THEN id > 0 /\ \A i \in DOMAIN jt : jt[i].job_id < id ELSE id = fid
  /\ jm = Append(jt, Entry(id, p, stopped))
  /\ jm \in Seq(JobEntry) /\ Last(jm).job_id = id

LEMMA MaxIdFacts ==
  ASSUME NEW jl \in Seq(JobEntry)
  PROVE  GetMaxJobID(jl) \in Nat /\ \A i \in DOMAIN jl : jl[i].job_id <= GetMaxJobID(jl)
<1> DEFINE n == Len(jl)
           f == [i \in 1 .. n |-> jl[i].job_id]
           S == JobIds(jl) \cup {0}
<1>1. n \in Nat /\ DOMAIN jl = 1 .. n /\ \A i \in 1 .. n : jl[i].job_id \in Nat
  BY EntryFacts
<1>2. f \in [1 .. n -> Nat]
  BY <1>1
<1>3. PICK u \in Nat : \A i \in 1 .. n : f[i] <= u
  <2> HIDE DEF f, n
  <2> QED  BY <1>1, <1>2, BoundOf
<1>4. S \in SUBSET Nat /\ 0 \in S /\ \A x \in S : x <= u
  BY <1>1, <1>3 DEF JobIds
<1>5. Max(S) \in S /\ \A x \in S : x <= Max(S)
  <2> HIDE DEF S
  <2> QED  BY <1>4, MaxOf
<1>6. GetMaxJobID(jl) = Max(S)
  BY DEF GetMaxJobID
<1>7. \A i \in DOMAIN jl : jl[i].job_id \in S
  BY DEF JobIds
<1> HIDE DEF S
<1> QED  BY <1>4, <1>5, <1>6, <1>7

LEMMA AddedFacts ==
  ASSUME NEW jl \in Seq(JobEntry), NEW k \in ChildTable, NEW p \in Pids \cup {NoPid},
         NEW stopped \in BOOLEAN, NEW fid \in Nat \cup {-1}
  PROVE  LET new == AddJob(jl, k, p, stopped, fid)
         IN  \E jt, id : Added(jl, k, p, stopped, fid, jt, id, new.jobs, new.children)
<1> DEFINE left == RemoveFinishedJobs(jl, k)
           jt == left.jobs
           km == left.children
           id == NewJobId(jt, fid)
           e == Entry(id, p, stopped)
           new == AddJob(jl, k, p, stopped, fid)
<1>1. Tidied(jl, k, jt, km)
  BY TidiedFacts
<1>2. left = [jobs |-> jt, children |-> km]
  BY DEF RemoveFinishedJobs
<1>3. new = [left EXCEPT !.jobs = Append(@, e)]
  BY DEF AddJob, Entry
<1> HIDE DEF left, new
<1>4. new.jobs = Append(jt, e) /\ new.children = km
  <2> HIDE DEF jt, km, e
  <2> QED  BY <1>2, <1>3
<1>5. jt \in Seq(JobEntry)
  BY <1>1 DEF Tidied, Thinned
<1> HIDE DEF jt, km
<1>6. GetMaxJobID(jt) \in Nat /\ \A i \in DOMAIN jt : jt[i].job_id <= GetMaxJobID(jt)
  BY <1>5, MaxIdFacts
<1>7. \A i \in DOMAIN jt : jt[i].job_id \in Nat
  BY <1>5, EntryFacts
<1>8. /\ id \in Nat
      /\ IF fid = -1 THEN id > 0 /\ \A i \in DOMAIN jt : jt[i].job_id < id ELSE id = fid
  BY <1>6, <1>7 DEF NewJobId
<1> HIDE DEF id
<1>9. e \in JobEntry /\ e.job_id = id
  BY <1>8 DEF Entry, JobEntry
<1> HIDE DEF e
<1>10. /\ Append(jt, e) \in Seq(JobEntry)
       /\ Last(Append(jt, e)) = e
  BY <1>5, <1>9, AppendProperties DEF Last
<1>11. Added(jl, k, p, stopped, fid, jt, id, new.jobs, new.children)
  BY <1>1, <1>4, <1>8, <1>9, <1>10 DEF Added, e
<1> QED  BY <1>11 DEF new

LEMMA RemoveJobFacts ==
  ASSUME NEW jl \in Seq(JobEntry), NEW id, NEW jm, jm = RemoveJobById(jl, id)
  PROVE  /\ Thinned(jl, jm)
         /\ \A m \in DOMAIN jm : \E i \in DOMAIN jl \ {PositionOf(jl, id)} : jm[m] = jl[i]
         /\ \A i \in DOMAIN jl \ {PositionOf(jl, id)} : \E m \in DOMAIN jm : jm[m] = jl[i]
<1> DEFINE I == DOMAIN jl \ {PositionOf(jl, id)}
<1>1. I \in SUBSET DOMAIN jl
  OBVIOUS
<1>2. jm = Kept(jl, I)
  BY DEF RemoveJobById
<1> HIDE DEF I
<1>3. jm \in Seq(JobEntry) /\ Rearranged(jm, jl, I)
  BY <1>1, <1>2, KeptFacts
<1>4. /\ Thinned(jl, jm)
      /\ \A m \in DOMAIN jm : \E i \in I : jm[m] = jl[i]
      /\ \A i \in I : \E m \in DOMAIN jm : jm[m] = jl[i]
  BY <1>1, <1>3, RearrangedFacts
<1> QED  BY <1>4 DEF I

\* The mark of an entry is set or cleared.
Remarked(jl, jm, i, mark) ==
  /\ jm \in Seq(JobEntry) /\ Len(jm) = Len(jl) /\ DOMAIN jm = DOMAIN jl
  /\ \A j \in DOMAIN jl : jm[j].job_id = jl[j].job_id /\ jm[j].pid = jl[j].pid
  /\ \A j \in DOMAIN jl \ {i} : jm[j] = jl[j]
  /\ jm[i].is_stopped = mark

LEMMA RemarkedFacts ==
  ASSUME NEW jl \in Seq(JobEntry), NEW i \in DOMAIN jl, NEW mark \in BOOLEAN
  PROVE  Remarked(jl, [jl EXCEPT ![i].is_stopped = mark], i, mark)
<1> DEFINE e == [jl[i] EXCEPT !.is_stopped = mark]
           jm == [jl EXCEPT ![i] = e]
<1>1. [jl EXCEPT ![i].is_stopped = mark] = jm
  OBVIOUS
<1>2. jl[i] \in JobEntry /\ DOMAIN jl = 1 .. Len(jl) /\ Len(jl) \in Nat
  BY LenProperties, ElementOfSeq
<1>3. /\ e \in JobEntry /\ e.is_stopped = mark
      /\ e.job_id = jl[i].job_id /\ e.pid = jl[i].pid
  BY <1>2 DEF JobEntry
<1> HIDE DEF e
<1>4. jm \in Seq(JobEntry) /\ Len(jm) = Len(jl) /\ DOMAIN jm = DOMAIN jl
  BY <1>2, <1>3, ExceptSeq
<1>5. jm[i] = e /\ \A j \in DOMAIN jl \ {i} : jm[j] = jl[j]
  OBVIOUS
<1> HIDE DEF jm
<1> QED  BY <1>1, <1>3, <1>4, <1>5 DEF Remarked

-----------------------------------------------------------------------------
(* The functions of Children.                                              *)

LEMMA SignalledFacts ==
  ASSUME NEW k \in ChildTable, NEW P, NEW sig
  PROVE  /\ Signalled(k, P, sig) \in ChildTable
         /\ \A p \in Pids : p \notin P => Signalled(k, P, sig)[p] = k[p]
         /\ \A p \in P \cap Pids :
              /\ Signalled(k, P, sig)[p].state = After(k[p].state, sig)
              /\ After(k[p].state, sig) = k[p].state => Signalled(k, P, sig)[p] = k[p]
<1>1. \A p \in Pids : After(k[p].state, sig) \in ChildState
  BY DEF After, ChildTable, ChildState, Ended, Alive
<1>2. \A p \in Pids : Signalled(k, P, sig)[p]
        = IF p \notin P \/ After(k[p].state, sig) = k[p].state THEN k[p]
          ELSE [state |-> After(k[p].state, sig), news |-> After(k[p].state, sig) \in Alive]
  BY DEF Signalled
<1>3. Signalled(k, P, sig) \in ChildTable
  <2>1. ASSUME NEW p \in Pids
        PROVE  Signalled(k, P, sig)[p] \in [state : ChildState, news : BOOLEAN]
    <3>1. k[p] \in [state : ChildState, news : BOOLEAN]
      BY DEF ChildTable
    <3>2. [state |-> After(k[p].state, sig), news |-> After(k[p].state, sig) \in Alive]
            \in [state : ChildState, news : BOOLEAN]
      BY <1>1
    <3> QED  BY <1>2, <3>1, <3>2, Zenon
  <2>2. Signalled(k, P, sig) = [p \in Pids |-> Signalled(k, P, sig)[p]]
    BY DEF Signalled
  <2> QED  BY <2>1, <2>2 DEF ChildTable
<1>4. ASSUME NEW p \in P \cap Pids
      PROVE  /\ Signalled(k, P, sig)[p].state = After(k[p].state, sig)
             /\ After(k[p].state, sig) = k[p].state => Signalled(k, P, sig)[p] = k[p]
  <2>1. CASE After(k[p].state, sig) = k[p].state
    BY <1>2, <2>1, Zenon
  <2>2. CASE After(k[p].state, sig) # k[p].state
    <3>1. Signalled(k, P, sig)[p]
            = [state |-> After(k[p].state, sig), news |-> After(k[p].state, sig) \in Alive]
      BY <1>2, <2>2, Zenon
    <3> QED  BY <2>2, <3>1
  <2> QED  BY <2>1, <2>2
<1>5. \A p \in Pids : p \notin P => Signalled(k, P, sig)[p] = k[p]
  BY <1>2, Zenon
<1> QED  BY <1>3, <1>4, <1>5

LEMMA MoveFacts ==
  ASSUME jobs \in Seq(JobEntry), foreground_jobid \in Nat \cup {-1},
         NEW k \in ChildTable, NEW p \in Pids \cup {NoPid}, NEW stopped \in BOOLEAN,
         MoveToBackground(k, p, stopped)
  PROVE  \E jt, id :
           /\ Added(jobs, k, p, stopped, foreground_jobid, jt, id, jobs', children')
           /\ given' = [q \in Pids |-> IF q = p /\ given[q] = 0 THEN id ELSE given[q]]
<1> DEFINE new == AddJob(jobs, k, p, stopped, foreground_jobid)
<1>1. /\ jobs' = new.jobs /\ children' = new.children
      /\ given' = [q \in Pids |-> IF q = p /\ given[q] = 0 THEN Last(new.jobs).job_id
                                  ELSE given[q]]
  BY DEF MoveToBackground
<1>2. PICK jt, id : Added(jobs, k, p, stopped, foreground_jobid, jt, id, new.jobs, new.children)
  BY AddedFacts
<1>3. Last(new.jobs).job_id = id
  BY <1>2 DEF Added
<1> HIDE DEF new
<1> QED  BY <1>1, <1>2, <1>3

TimedCmd == [pid : Pids \cup {NoPid}, start : Int, limit : Nat]

\* What the alarm handler does: entries leave timed_cmds, and of a child that has
\* one the end is reported, or it ends because its time is up, or its news is taken.
Rung ==
  /\ timed_cmds' \in Seq(TimedCmd)
  /\ \A m \in DOMAIN timed_cmds' : \E i \in DOMAIN timed_cmds : timed_cmds'[m] = timed_cmds[i]
  /\ children' \in ChildTable
  /\ \A p \in Pids :
       \/ children'[p] = children[p]
       \/ \E i \in DOMAIN timed_cmds :
            /\ timed_cmds[i].pid = p
            /\ \/ children[p].state \in Ended /\ children'[p].state = "gone"
               \/ /\ Due(timed_cmds[i])
                  /\ children[p].state \in Alive /\ children'[p].state \in {"killed", "exited"}
               \/ /\ children[p].state \notin Ended
                  /\ children'[p].state = children[p].state /\ ~children'[p].news

LEMMA AlarmFacts ==
  ASSUME TypeOK, Alarm
  PROVE  Rung
<1> DEFINE fails(i) == timed_cmds[i].pid # NoPid /\ NoSuchChild(children, timed_cmds[i].pid)
           F == {i \in DOMAIN timed_cmds : fails(i)} \cup {Len(timed_cmds) + 1}
           seen == 1 .. Min(F) - 1
           due == {i \in seen : Due(timed_cmds[i])}
           over == {i \in seen : \/ timed_cmds[i].pid = NoPid
                                 \/ children[timed_cmds[i].pid].state \in Ended}
           victims == {timed_cmds[i].pid : i \in due}
           P == {timed_cmds[i].pid : i \in seen}
           I == DOMAIN timed_cmds \ (due \cup over)
           r == Reported(children, P)
<1>1. PICK own \in SUBSET {p \in victims : children[p].state = "running"} :
        children' = LET k == Signalled(r, victims \ own, "SIGKILL")
                    IN  [p \in Pids |-> IF p \in own
                                        THEN [state |-> "exited", news |-> FALSE]
                                        ELSE k[p]]
  BY DEF Alarm
<1>2. timed_cmds' = Kept(timed_cmds, I)
  BY DEF Alarm
<1>3. timed_cmds \in Seq(TimedCmd) /\ children \in ChildTable
  BY DEF TypeOK, TimedCmd
<1>4. seen \subseteq DOMAIN timed_cmds
  <2>1. DOMAIN timed_cmds = 1 .. Len(timed_cmds) /\ Len(timed_cmds) \in Nat
    BY <1>3, LenProperties
  <2>2. F \in SUBSET Nat /\ Len(timed_cmds) + 1 \in F
    BY <2>1
  <2> HIDE DEF F
  <2>3. Min(F) \in Nat /\ Min(F) <= Len(timed_cmds) + 1
    BY <2>2, MinOf
  <2> QED  BY <2>1, <2>3
<1> DEFINE k == Signalled(r, victims \ own, "SIGKILL")
<1>5. children' = [p \in Pids |-> IF p \in own THEN [state |-> "exited", news |-> FALSE]
                                  ELSE k[p]]
  BY <1>1
<1>6. /\ \A p \in victims : \E i \in DOMAIN timed_cmds : timed_cmds[i].pid = p /\ Due(timed_cmds[i])
      /\ \A p \in P : \E i \in DOMAIN timed_cmds : timed_cmds[i].pid = p
  BY <1>4
<1>7. own \subseteq victims /\ \A p \in own : children[p].state = "running"
  BY <1>1
<1> HIDE DEF seen, F, victims, P
<1>8. /\ r \in ChildTable
      /\ \A p \in Pids : p \notin P => r[p] = children[p]
      /\ \A p \in P \cap Pids : /\ r[p].news = FALSE
                                /\ r[p].state = IF children[p].state \in Ended THEN "gone"
                                                ELSE children[p].state
  BY <1>3, ReportedFacts
<1> HIDE DEF r
<1>9. /\ k \in ChildTable
      /\ \A p \in Pids : p \notin victims \ own => k[p] = r[p]
      /\ \A p \in (victims \ own) \cap Pids : k[p].state = After(r[p].state, "SIGKILL")
  BY <1>8, SignalledFacts
<1> HIDE DEF k
<1>10. children' \in ChildTable
  <2>1. \A p \in Pids : (IF p \in own THEN [state |-> "exited", news |-> FALSE] ELSE k[p])
                          \in [state : ChildState, news : BOOLEAN]
    BY <1>9 DEF ChildTable, ChildState, Ended
  <2> QED  BY <1>5, <2>1 DEF ChildTable
<1>11. /\ timed_cmds' \in Seq(TimedCmd)
       /\ \A m \in DOMAIN timed_cmds' : \E i \in DOMAIN timed_cmds : timed_cmds'[m] = timed_cmds[i]
  <2>1. I \in SUBSET DOMAIN timed_cmds
    OBVIOUS
  <2> HIDE DEF I
  <2>2. Kept(timed_cmds, I) \in Seq(TimedCmd) /\ Rearranged(Kept(timed_cmds, I), timed_cmds, I)
    BY <1>3, <2>1, KeptFacts
  <2> QED  BY <1>2, <2>1, <2>2 DEF Rearranged
<1>12. ASSUME NEW p \in Pids, p \in victims
       PROVE  /\ children[p].state \in Alive /\ children'[p].state \in {"killed", "exited"}
              /\ \E i \in DOMAIN timed_cmds : timed_cmds[i].pid = p /\ Due(timed_cmds[i])
  <2>1. PICK i \in DOMAIN timed_cmds : timed_cmds[i].pid = p /\ Due(timed_cmds[i])
    BY <1>6, <1>12
  <2>2. Waitpid(children, p) = "none" /\ children[p].state \in ChildState
    BY <1>3, <2>1 DEF Due, ChildTable
  <2>3. children[p].state \in Alive
    BY <2>2 DEF Waitpid, NoSuchChild, Ended, Alive, ChildState
  <2>4. r[p].state = children[p].state
    BY <1>8, <2>3 DEF Ended, Alive
  <2>5. CASE p \in own
    BY <1>5, <2>1, <2>3, <2>5
  <2>6. CASE p \notin own
    <3>1. k[p].state = After(r[p].state, "SIGKILL")
      BY <1>9, <1>12, <2>6
    <3>2. k[p].state = "killed"
      BY <2>3, <2>4, <3>1 DEF After
    <3> QED  BY <1>5, <2>1, <2>3, <2>6, <3>2
  <2> QED  BY <2>5, <2>6
<1>13. ASSUME NEW p \in Pids, p \notin victims
       PROVE  \/ children'[p] = children[p]
              \/ /\ \E i \in DOMAIN timed_cmds : timed_cmds[i].pid = p
                 /\ \/ children[p].state \in Ended /\ children'[p].state = "gone"
                    \/ /\ children[p].state \notin Ended
                       /\ children'[p].state = children[p].state /\ ~children'[p].news
  <2>1. children'[p] = r[p]
    BY <1>5, <1>7, <1>9, <1>13
  <2>2. CASE p \notin P
    BY <1>8, <2>1, <2>2
  <2>3. CASE p \in P
    BY <1>6, <1>8, <2>1, <2>3
  <2> QED  BY <2>2, <2>3
<1> QED  BY <1>10, <1>11, <1>12, <1>13 DEF Rung

-----------------------------------------------------------------------------
(* Types, and what the steps of main leave to one another.                 *)

\* The steps at which no command is under way in the shell itself.
Quiet ==
  {"prompt", "run", "pipe", "pipe, any", "any, pipe", "any, any", "any", "cleanup", "exited"}
Forking == {"to background", "to foreground"}

\* What foreground_cmd and foreground_jobid hold, step by step.
Places ==
  /\ pc \in Quiet \cup Forking => foreground_cmd = Nullptr /\ foreground_jobid = -1
  /\ pc \in {"wait", "settle"} => foreground_cmd = pid /\ foreground_jobid = -1
  /\ pc = "fg pid" => foreground_cmd = NoPid
  /\ pc \in {"fg pid", "fg id"} => foreground_jobid = -1 /\ jobid \in Nat
  /\ pc \in {"fg id", "fg remove", "fg wait", "fg done"} => foreground_cmd = pid
  /\ pc \in {"fg remove", "fg wait", "fg done"} => foreground_jobid = jobid /\ jobid \in Nat

\* Only a line that has been prepared has descriptor 1 redirected, and a copy of the
\* terminal is there whenever descriptor 1 is something else: while cleanup succeeds.
Redirected ==
  /\ pc # "run" => line.redirect # "yes"
  /\ pc = "prompt" => line.redirect # "done"
  /\ \/ unrestored
     \/ /\ line.redirect # "done" => saved = "none"
        /\ saved = "none" => out = "terminal"
        /\ saved \in {"none", "terminal"}

\* A time limit is one the user gave, and main waits for any child only if a fork
\* has failed.
Limited ==
  /\ time_this.time_this => time_this.limit \in Nat
  /\ pc \in {"any", "any, pipe", "pipe, any", "any, any"} => faults > 0

ControlInv == TypeOK /\ Places /\ Redirected /\ Limited

\* executeCommand and the functions of the list, as they show in the state.
LEMMA ExecuteFacts ==
  ASSUME TypeOK, NEW command, ExecuteCommand(command)
  PROVE  Tidied(jobs, children, jobs', children') /\ line' = command /\ pc' = "run"
BY TidiedFacts DEF TypeOK, ExecuteCommand

LEMMA TimeThisTypes ==
  ASSUME TypeOK, Limited, TimeThis
  PROVE  /\ timed_cmds' \in Seq(TimedCmd)
         /\ time_this' \in [time_this : BOOLEAN, pid : Pids \cup {NoPid}, start : Int, limit : Int]
         /\ ever_timed' \subseteq Pids \cup {NoPid}
         /\ time_this'.time_this = FALSE
<1>1. timed_cmds \in Seq(TimedCmd)
  BY DEF TypeOK, TimedCmd
<1> DEFINE e == [pid |-> time_this.pid, start |-> time_this.start, limit |-> time_this.limit]
<1>2. CASE time_this.time_this
  <2>1. e \in TimedCmd
    BY <1>2 DEF TypeOK, Limited, TimedCmd
  <2>2. timed_cmds' = Append(timed_cmds, e) /\ time_this' = Untimed
        /\ ever_timed' = ever_timed \cup {time_this.pid}
    BY <1>2 DEF TimeThis
  <2> HIDE DEF e
  <2>3. Append(timed_cmds, e) \in Seq(TimedCmd)
    BY <1>1, <2>1, AppendProperties
  <2> QED  BY <2>2, <2>3 DEF Untimed, TypeOK
<1>3. CASE ~time_this.time_this
  BY <1>1, <1>3 DEF TimeThis, TypeOK
<1> QED  BY <1>2, <1>3 DEF TypeOK

LEMMA MoveTypes ==
  ASSUME ControlInv, NEW k \in ChildTable, NEW p \in Pids \cup {NoPid}, NEW stopped \in BOOLEAN,
         MoveToBackground(k, p, stopped)
  PROVE  /\ jobs' \in Seq(JobEntry) /\ children' \in ChildTable /\ given' \in [Pids -> Nat]
         /\ timed_cmds' \in Seq(TimedCmd)
         /\ time_this' \in [time_this : BOOLEAN, pid : Pids \cup {NoPid}, start : Int, limit : Int]
         /\ ever_timed' \subseteq Pids \cup {NoPid}
         /\ time_this'.time_this = FALSE
<1>1. jobs \in Seq(JobEntry) /\ foreground_jobid \in Nat \cup {-1} /\ given \in [Pids -> Nat]
  BY DEF ControlInv, TypeOK
<1>2. PICK jt, id :
        /\ Added(jobs, k, p, stopped, foreground_jobid, jt, id, jobs', children')
        /\ given' = [q \in Pids |-> IF q = p /\ given[q] = 0 THEN id ELSE given[q]]
  BY <1>1, MoveFacts
<1>3. jobs' \in Seq(JobEntry) /\ children' \in ChildTable /\ id \in Nat
  BY <1>2 DEF Added, Tidied
<1>4. given' \in [Pids -> Nat]
  BY <1>1, <1>2, <1>3
<1>5. TimeThis
  BY DEF MoveToBackground
<1> QED  BY <1>3, <1>4, <1>5, TimeThisTypes DEF ControlInv

LEMMA ReturnFacts ==
  ASSUME line \in Line, Return
  PROVE  /\ line' \in Line /\ line'.redirect = line.redirect /\ line'.timeout = NoTimeout
         /\ pc' = IF line.redirect = "done" THEN "cleanup" ELSE "prompt"
         /\ pid' = NoPid /\ jobid' = -1 /\ it' = FALSE /\ status' = "none"
BY DEF Return, NoLine, Line, Verbs, NoTimeout

\* The parts of TypeOK, for the steps that leave most of them alone.
ListTypes == children \in ChildTable /\ jobs \in Seq(JobEntry)
TimeTypes ==
  /\ timed_cmds \in Seq(TimedCmd)
  /\ time_this \in [time_this : BOOLEAN, pid : Pids \cup {NoPid}, start : Int, limit : Int]
  /\ alarm \in Nat \cup {NoAlarm} /\ now \in Nat
ForegroundTypes ==
  /\ foreground_cmd \in Pids \cup {NoPid, Nullptr}
  /\ foreground_jobid \in Nat \cup {-1}
StdioTypes == out \in {"terminal", "file", "closed"} /\ saved \in {"none", "terminal", "file"}
LocalTypes ==
  /\ pc \in Pcs /\ line \in Line
  /\ pid \in Pids \cup {NoPid} /\ jobid \in Nat \cup {-1} /\ it \in BOOLEAN
  /\ status \in {"none", "error", "stopped", "continued"} \cup Ended
HistoryTypes ==
  /\ given \in [Pids -> Nat] /\ ever_timed \subseteq Pids \cup {NoPid}
  /\ born \in [Pids -> Int] /\ late_stop \in BOOLEAN
  /\ disturbed \subseteq Pids /\ strayed \subseteq Pids /\ unrestored \in BOOLEAN
CounterTypes == signals \in 0 .. MaxSignals /\ faults \in 0 .. MaxFaults

LEMMA TypeParts ==
  TypeOK <=> /\ ListTypes /\ TimeTypes /\ ForegroundTypes /\ StdioTypes
             /\ LocalTypes /\ HistoryTypes /\ CounterTypes
BY DEF TypeOK, ListTypes, TimeTypes, TimedCmd, ForegroundTypes, StdioTypes, LocalTypes,
       HistoryTypes, CounterTypes

LEMMA InitControl == Init => ControlInv
<1> SUFFICES ASSUME Init PROVE ControlInv
  OBVIOUS
<1>1. ListTypes
  BY EmptySeq DEF Init, ListTypes, ChildTable, ChildState, NoChildren
<1>2. TimeTypes
  BY EmptySeq DEF Init, TimeTypes, Untimed
<1>3. ForegroundTypes /\ StdioTypes /\ CounterTypes
  <2>1. MaxSignals \in Nat /\ MaxFaults \in Nat
    BY ShellAssumption
  <2>2. CounterTypes
    BY <2>1 DEF Init, CounterTypes
  <2>3. ForegroundTypes
    BY DEF Init, ForegroundTypes
  <2> QED  BY <2>2, <2>3 DEF Init, StdioTypes
<1>4. LocalTypes
  BY DEF Init, LocalTypes, Pcs, Line, NoLine, Verbs, NoTimeout
<1>5. HistoryTypes
  <2>1. [p \in Pids |-> 0] \in [Pids -> Nat] /\ [p \in Pids |-> -1] \in [Pids -> Int]
    OBVIOUS
  <2> QED  BY <2>1 DEF Init, HistoryTypes
<1>6. Places /\ Redirected /\ Limited
  BY DEF Init, Places, Quiet, Forking, Redirected, Limited, NoLine, Untimed
<1> QED  BY <1>1, <1>2, <1>3, <1>4, <1>5, <1>6, TypeParts DEF ControlInv

LEMMA StepTypes ==
  ASSUME ControlInv, [Next]_vars
  PROVE  TypeOK'
<1> USE DEF shell, timing, foreground, regs, locals, stdio, mishaps, history, counters
<1>0. /\ ListTypes /\ TimeTypes /\ ForegroundTypes /\ StdioTypes
      /\ LocalTypes /\ HistoryTypes /\ CounterTypes
  BY TypeParts DEF ControlInv
<1> DEFINE Good == TypeOK'
<1>g. ASSUME ListTypes', TimeTypes', ForegroundTypes', StdioTypes', LocalTypes', HistoryTypes',
             CounterTypes'
      PROVE  Good
  BY <1>g, TypeParts, PTL
\* What a step leaves alone keeps its type.
<1>l. UNCHANGED <<children, jobs>> => ListTypes'
  BY <1>0 DEF ListTypes
<1>t. UNCHANGED timing => TimeTypes'
  BY <1>0 DEF TimeTypes
<1>f. UNCHANGED foreground => ForegroundTypes'
  BY <1>0 DEF ForegroundTypes
<1>s. UNCHANGED stdio => StdioTypes'
  BY <1>0 DEF StdioTypes
<1>o. UNCHANGED locals /\ pc' \in Pcs => LocalTypes'
  BY <1>0 DEF LocalTypes
<1>r. Return => LocalTypes'
  BY <1>0, ReturnFacts DEF LocalTypes, Pcs
<1>h. UNCHANGED history => HistoryTypes'
  BY <1>0 DEF HistoryTypes
<1>c. UNCHANGED counters => CounterTypes'
  BY <1>0 DEF CounterTypes
<1>x. ASSUME NEW command \in Line, ExecuteCommand(command)
      PROVE  ListTypes' /\ (UNCHANGED regs => LocalTypes')
  <2>1. Tidied(jobs, children, jobs', children') /\ line' = command /\ pc' = "run"
    BY <1>x, ExecuteFacts DEF ControlInv
  <2> QED  BY <1>0, <2>1 DEF ListTypes, LocalTypes, Pcs, Tidied, Thinned
<1>m. ASSUME NEW f \in Nat, MayFail(f), faults' = faults + f, signals' = signals PROVE CounterTypes'
  BY <1>0, <1>m, ShellAssumption DEF CounterTypes, MayFail
<1>p. ASSUME MayPress, signals' = signals + 1, faults' = faults PROVE CounterTypes'
  BY <1>0, <1>p, ShellAssumption DEF CounterTypes, MayPress
<1>k. ASSUME children' \in ChildTable, UNCHANGED jobs PROVE ListTypes'
  BY <1>0, <1>k DEF ListTypes
<1>1. ASSUME NEW typed \in Lines, ReadLine(typed) PROVE Good
  BY <1>1, <1>g, <1>x, <1>t, <1>f, <1>s, <1>h, <1>c, ShellAssumption DEF ReadLine
<1>2. CASE Builtin
  BY <1>2, <1>g, <1>l, <1>t, <1>f, <1>s, <1>r, <1>h, <1>c DEF Builtin
<1>3. CASE PrintJobsList
  <2>1. ListTypes'
    <3> DEFINE left == RemoveFinishedJobs(jobs, children)
    <3>1. Tidied(jobs, children, left.jobs, left.children)
      BY <1>0, TidiedFacts DEF ListTypes
    <3>2. jobs' \in Sorted(left.jobs) /\ children' = left.children
      BY <1>3 DEF PrintJobsList
    <3> HIDE DEF left
    <3> QED  BY <3>1, <3>2, SortedFacts DEF ListTypes, Tidied, Thinned
  <2> QED  BY <1>3, <2>1, <1>g, <1>t, <1>f, <1>s, <1>r, <1>h, <1>c DEF PrintJobsList
<1>4. CASE Quit
  <2>1. ListTypes'
    <3>1. CASE UNCHANGED <<children, jobs>>
      BY <1>l, <3>1
    <3>2. CASE children' = KillAllJobs(jobs, children) /\ jobs' \in Sorted(jobs)
      BY <1>0, <3>2, SortedFacts, SignalledFacts DEF KillAllJobs, ListTypes
    <3> QED  BY <1>4, <3>1, <3>2 DEF Quit
  <2> QED  BY <1>4, <2>1, <1>g, <1>t, <1>f, <1>s, <1>o, <1>h, <1>c DEF Quit, Pcs
<1>5. CASE Pipe
  <2>1. PICK f \in {n \in 0 .. 2 : MayFail(n)} :
          /\ faults' = faults + f
          /\ pc' \in CASE f = 0 -> {"pipe"} [] f = 1 -> {"any, pipe", "pipe, any"}
                         [] f = 2 -> {"any, any"}
    BY <1>5 DEF Pipe
  <2>2. CounterTypes'
    <3>1. f \in Nat /\ MayFail(f)
      OBVIOUS
    <3>2. faults' = faults + f /\ signals' = signals
      BY <1>5, <2>1 DEF Pipe
    <3> QED  BY <1>m, <3>1, <3>2
  <2>3. pc' \in Pcs
    <3>1. f = 0 \/ f = 1 \/ f = 2
      OBVIOUS
    <3> QED  BY <2>1, <3>1 DEF Pcs
  <2> QED  BY <1>5, <2>2, <2>3, <1>g, <1>l, <1>t, <1>f, <1>s, <1>o, <1>h DEF Pipe
<1>6. CASE PipeEnds
  <2>1. LocalTypes'
    BY <1>6, <1>o, <1>r DEF PipeEnds, Pcs
  <2> QED  BY <1>6, <2>1, <1>g, <1>l, <1>t, <1>f, <1>s, <1>h, <1>c DEF PipeEnds
<1>7. ASSUME NEW p \in Pids, PipeReaps(p) PROVE Good
  <2>1. LocalTypes'
    BY <1>7, <1>o, <1>r DEF PipeReaps, Pcs
  <2>2. ListTypes'
    BY <1>0, <1>7, <1>k, ReportedFacts DEF PipeReaps, ListTypes
  <2> QED  BY <1>7, <2>1, <2>2, <1>g, <1>t, <1>f, <1>s, <1>h, <1>c DEF PipeReaps
<1>8. CASE PipeAlone
  BY <1>8, <1>g, <1>l, <1>t, <1>f, <1>s, <1>r, <1>h, <1>c DEF PipeAlone
<1>9. CASE NoJob
  BY <1>9, <1>g, <1>l, <1>t, <1>f, <1>s, <1>r, <1>h, <1>c DEF NoJob
<1>10. ASSUME NEW i \in Chosen, NEW sig \in KillSignals, Kill(i, sig) PROVE Good
  <2>1. ListTypes'
    <3>1. Marked(jobs[i], sig) \in BOOLEAN /\ i \in DOMAIN jobs
      BY <1>0, EntryFacts DEF Marked, Chosen, ListTypes
    <3> QED  BY <1>0, <1>l, <1>10, <3>1, RemarkedFacts, SignalledFacts
             DEF Kill, ListTypes, Remarked
  <2> QED  BY <1>10, <2>1, <1>g, <1>t, <1>f, <1>s, <1>r, <1>h, <1>c DEF Kill
<1>11. ASSUME NEW i \in Chosen \cup LastStopped, Background(i) PROVE Good
  <2>1. ListTypes'
    <3>1. i \in DOMAIN jobs
      BY DEF Chosen, LastStopped
    <3>2. [jobs EXCEPT ![i].is_stopped = FALSE] \in Seq(JobEntry)
      BY <1>0, <3>1, RemarkedFacts DEF ListTypes, Remarked
    <3>3. Signalled(children, {jobs[i].pid}, "SIGCONT") \in ChildTable
      BY <1>0, SignalledFacts DEF ListTypes
    <3> QED  BY <1>0, <1>11, <3>2, <3>3 DEF Background, ListTypes
  <2> QED  BY <1>11, <2>1, <1>g, <1>t, <1>f, <1>s, <1>r, <1>h, <1>c DEF Background
<1>12. ASSUME NEW i \in Chosen, ForegroundStart(i) PROVE Good
  <2>1. i \in DOMAIN jobs /\ jobs[i].job_id \in Nat /\ jobs[i].pid \in Pids \cup {NoPid}
    BY <1>0, EntryFacts DEF Chosen, ListTypes
  <2>2. CASE jobs[i].is_stopped /\ NoSuchChild(children, jobs[i].pid)
    BY <1>12, <2>2, <1>g, <1>l, <1>t, <1>f, <1>s, <1>r, <1>h, <1>c DEF ForegroundStart
  <2>3. CASE ~ (jobs[i].is_stopped /\ NoSuchChild(children, jobs[i].pid))
    <3>1. ListTypes'
      <4>1. [jobs EXCEPT ![i].is_stopped = FALSE] \in Seq(JobEntry)
        BY <1>0, <2>1, RemarkedFacts DEF ListTypes, Remarked
      <4>2. Signalled(children, {jobs[i].pid}, "SIGCONT") \in ChildTable
        BY <1>0, SignalledFacts DEF ListTypes
      <4> QED  BY <1>0, <1>12, <2>3, <4>1, <4>2 DEF ForegroundStart, ListTypes
    <3>2. LocalTypes' /\ ForegroundTypes'
      BY <1>0, <1>12, <2>1, <2>3 DEF ForegroundStart, LocalTypes, ForegroundTypes, Pcs
    <3> QED  BY <1>12, <3>1, <3>2, <1>g, <1>t, <1>s, <1>h, <1>c DEF ForegroundStart
  <2> QED  BY <2>2, <2>3
<1>13. CASE ForegroundPid
  <2>1. ForegroundTypes'
    BY <1>0, <1>13 DEF ForegroundPid, ForegroundTypes, LocalTypes
  <2> QED  BY <1>13, <2>1, <1>g, <1>l, <1>t, <1>s, <1>o, <1>h, <1>c DEF ForegroundPid, Pcs
<1>14. CASE ForegroundId
  <2>1. ForegroundTypes'
    BY <1>0, <1>14 DEF ForegroundId, ForegroundTypes, LocalTypes
  <2> QED  BY <1>14, <2>1, <1>g, <1>l, <1>t, <1>s, <1>o, <1>h, <1>c DEF ForegroundId, Pcs
<1>15. CASE ForegroundRemove
  <2>1. ListTypes'
    <3>1. jobs' = RemoveJobById(jobs, jobid) /\ children' = children
      BY <1>15 DEF ForegroundRemove
    <3>2. Thinned(jobs, jobs')
      BY <1>0, <3>1, RemoveJobFacts DEF ListTypes
    <3> QED  BY <1>0, <3>1, <3>2 DEF ListTypes, Thinned
  <2> QED  BY <1>15, <2>1, <1>g, <1>t, <1>f, <1>s, <1>o, <1>h, <1>c DEF ForegroundRemove, Pcs
<1>16. CASE ForegroundWait
  <2>1. ListTypes'
    BY <1>0, <1>16, <1>k, ReportedFacts DEF ForegroundWait, ListTypes
  <2> QED  BY <1>16, <2>1, <1>g, <1>t, <1>f, <1>s, <1>o, <1>h, <1>c DEF ForegroundWait, Pcs
<1>17. CASE ForegroundDone
  <2>1. ForegroundTypes'
    BY <1>17 DEF ForegroundDone, ForegroundTypes
  <2> QED  BY <1>17, <2>1, <1>g, <1>l, <1>t, <1>s, <1>r, <1>h, <1>c DEF ForegroundDone
<1>18. CASE Fork
  <2>1. Min(Unborn(children)) \in Pids
    <3>1. Unborn(children) \subseteq Pids /\ \A p \in Pids : p \in Nat
      BY ChildrenAssumption DEF Unborn, Pids
    <3>2. Unborn(children) \in SUBSET Nat /\ Unborn(children) # {}
      BY <1>18, <3>1 DEF Fork
    <3> QED  BY <3>1, <3>2, MinOf
  <2>a. /\ now \in Int
        /\ time_this \in [time_this : BOOLEAN, pid : Pids \cup {NoPid}, start : Int, limit : Int]
    <3>1. now \in Nat
      BY <1>0, Zenon DEF TimeTypes
    <3> QED  BY <1>0, <3>1 DEF TimeTypes
  <2>0. pid' \in Pids
    BY <1>18, <2>1 DEF Fork
  <2>2. ListTypes'
    BY <1>0, <1>18, <2>0 DEF Fork, Forked, ListTypes, ChildTable, ChildState, Alive
  <2>3. TimeTypes'
    <3>1. StampedFor(pid') \in [time_this : BOOLEAN, pid : Pids \cup {NoPid}, start : Int, limit : Int]
      BY <2>0, <2>a DEF StampedFor
    <3> QED  BY <1>0, <1>18, <3>1 DEF Fork, TimeTypes
  <2>4. LocalTypes'
    BY <1>0, <1>18, <2>1 DEF Fork, LocalTypes, Pcs
  <2>5. HistoryTypes'
    <3>1. born' \in [Pids -> Int]
      <4>1. born' = [born EXCEPT ![pid'] = now] /\ now \in Int /\ born \in [Pids -> Int]
        BY <1>0, <1>18, <2>a DEF Fork, HistoryTypes
      <4> QED  BY <2>0, <4>1
    <3> QED  BY <1>0, <1>18, <3>1 DEF Fork, HistoryTypes
  <2> QED  BY <1>18, <2>2, <2>3, <2>4, <2>5, <1>g, <1>f, <1>s, <1>c DEF Fork
<1>19. CASE ForkFails
  <2>1. CounterTypes'
    BY <1>19, <1>m DEF ForkFails
  <2> QED  BY <1>19, <2>1, <1>g, <1>l, <1>t, <1>f, <1>s, <1>r, <1>h DEF ForkFails
<1>20. CASE ToBackground
  <2>1. /\ jobs' \in Seq(JobEntry) /\ children' \in ChildTable /\ given' \in [Pids -> Nat]
        /\ timed_cmds' \in Seq(TimedCmd)
        /\ time_this' \in [time_this : BOOLEAN, pid : Pids \cup {NoPid}, start : Int, limit : Int]
        /\ ever_timed' \subseteq Pids \cup {NoPid}
    BY <1>0, <1>20, MoveTypes DEF ToBackground, ListTypes, LocalTypes
  <2>2. ListTypes' /\ TimeTypes' /\ HistoryTypes'
    BY <1>0, <1>20, <2>1 DEF ToBackground, ListTypes, TimeTypes, HistoryTypes
  <2> QED  BY <1>20, <2>2, <1>g, <1>f, <1>s, <1>r, <1>c DEF ToBackground
<1>21. CASE ToForeground
  <2>1. /\ timed_cmds' \in Seq(TimedCmd)
        /\ time_this' \in [time_this : BOOLEAN, pid : Pids \cup {NoPid}, start : Int, limit : Int]
        /\ ever_timed' \subseteq Pids \cup {NoPid}
    BY <1>21, TimeThisTypes DEF ToForeground, ControlInv
  <2>2. TimeTypes' /\ HistoryTypes'
    BY <1>0, <1>21, <2>1 DEF ToForeground, TimeTypes, HistoryTypes
  <2>3. LocalTypes' /\ ForegroundTypes'
    BY <1>0, <1>21 DEF ToForeground, LocalTypes, ForegroundTypes, TimeTypes, Pcs
  <2> QED  BY <1>21, <2>2, <2>3, <1>g, <1>l, <1>s, <1>c DEF ToForeground
<1>22. CASE Wait
  <2>1. ListTypes'
    BY <1>0, <1>22, <1>k, ReportedFacts DEF Wait, ListTypes
  <2>2. Waitpid(children, pid) \in {"none", "error", "stopped", "continued"} \cup Ended
    BY DEF Waitpid
  <2>3. LocalTypes'
    BY <1>0, <1>22, <2>2 DEF Wait, LocalTypes, Pcs
  <2> QED  BY <1>22, <2>1, <2>3, <1>g, <1>t, <1>f, <1>s, <1>h, <1>c DEF Wait
<1>23. CASE Settle
  <2>1. timed_cmds' \in Seq(TimedCmd)
    <3>1. timed_cmds \in Seq(TimedCmd)
      BY <1>0 DEF TimeTypes
    <3> DEFINE e(i) == IF timed_cmds[i].pid = pid THEN [timed_cmds[i] EXCEPT !.pid = NoPid]
                       ELSE timed_cmds[i]
    <3>2. DOMAIN timed_cmds = 1 .. Len(timed_cmds) /\ Len(timed_cmds) \in Nat
      BY <3>1, LenProperties
    <3>3. ASSUME NEW i \in 1 .. Len(timed_cmds) PROVE e(i) \in TimedCmd
      <4>1. timed_cmds[i] \in TimedCmd
        BY <3>1, ElementOfSeq
      <4> QED  BY <4>1 DEF TimedCmd
    <3>4. timed_cmds' = [i \in 1 .. Len(timed_cmds) |-> e(i)] \/ timed_cmds' = timed_cmds
      BY <1>23, <3>2 DEF Settle
    <3>5. [i \in 1 .. Len(timed_cmds) |-> e(i)] \in Seq(TimedCmd)
      BY <3>2, <3>3, IsASeq
    <3> QED  BY <3>1, <3>4, <3>5
  <2>2. TimeTypes' /\ ForegroundTypes'
    BY <1>0, <1>23, <2>1 DEF Settle, TimeTypes, ForegroundTypes
  <2> QED  BY <1>23, <2>2, <1>g, <1>l, <1>s, <1>r, <1>h, <1>c DEF Settle
<1>24. CASE SettleErased
  BY <1>24, <1>g, <1>l, <1>t, <1>f, <1>s, <1>o, <1>h, <1>c DEF SettleErased, Pcs
<1>25. CASE Prepare
  <2>1. StdioTypes'
    BY <1>0, <1>25 DEF Prepare, StdioTypes
  <2> DEFINE rest == [line EXCEPT !.redirect = "done",
                                  !.verb = IF @ = "background" THEN "external" ELSE @]
  <2>2. rest \in Line
    BY <1>0 DEF LocalTypes, Line, Verbs
  <2>3. ExecuteCommand(rest)
    BY <1>25 DEF Prepare
  <2> HIDE DEF rest
  <2> QED  BY <1>25, <2>1, <2>2, <2>3, <1>x, <1>g, <1>t, <1>f, <1>h, <1>c DEF Prepare
<1>26. CASE PrepareFails
  <2>1. CounterTypes'
    <3> DEFINE n == IF out = "closed" THEN 0 ELSE 1
    <3>1. n \in Nat /\ MayFail(n) /\ faults' = faults + n /\ signals' = signals
      BY <1>26 DEF PrepareFails, PrepareStops
    <3> HIDE DEF n
    <3> QED  BY <1>m, <3>1
  <2>2. StdioTypes'
    BY <1>0, <1>26 DEF PrepareFails, PrepareStops, StdioTypes
  <2>3. EmptyLine \in Line /\ ExecuteCommand(EmptyLine)
    BY <1>26 DEF PrepareFails, EmptyLine, NoLine, Line, Verbs, NoTimeout
  <2> QED  BY <1>26, <2>1, <2>2, <2>3, <1>x, <1>g, <1>t, <1>f, <1>h DEF PrepareFails
<1>27. CASE Cleanup
  <2>1. StdioTypes'
    BY <1>0, <1>27 DEF Cleanup, StdioTypes
  <2>2. LocalTypes'
    BY <1>0, <1>27 DEF Cleanup, LocalTypes, Pcs, NoLine, Line, Verbs, NoTimeout
  <2> QED  BY <1>27, <2>1, <2>2, <1>g, <1>l, <1>t, <1>f, <1>h, <1>c DEF Cleanup
<1>28. CASE Timeout
  <2>1. [line EXCEPT !.timeout = NoTimeout] \in Line /\ line.timeout \in Nat
    BY <1>0, <1>28 DEF Timeout, LocalTypes, Line
  <2>2. TimeTypes'
    BY <1>0, <1>28, <2>1 DEF Timeout, TimeTypes, NoAlarm
  <2>3. ExecuteCommand([line EXCEPT !.timeout = NoTimeout])
    BY <1>28 DEF Timeout
  <2> QED  BY <1>28, <2>1, <2>2, <2>3, <1>x, <1>g, <1>f, <1>s, <1>h, <1>c DEF Timeout
<1>29. CASE CtrlZ
  <2> DEFINE k == Signalled(children, Aimed(foreground_cmd), "SIGSTOP")
  <2>1. k \in ChildTable /\ foreground_cmd \in Pids \cup {NoPid}
    BY <1>0, <1>29, SignalledFacts DEF CtrlZ, ListTypes, ForegroundTypes
  <2>2. MoveToBackground(k, foreground_cmd, TRUE)
    BY <1>29 DEF CtrlZ
  <2> HIDE DEF k
  <2>3. /\ jobs' \in Seq(JobEntry) /\ children' \in ChildTable /\ given' \in [Pids -> Nat]
        /\ timed_cmds' \in Seq(TimedCmd)
        /\ time_this' \in [time_this : BOOLEAN, pid : Pids \cup {NoPid}, start : Int, limit : Int]
        /\ ever_timed' \subseteq Pids \cup {NoPid}
    BY <2>1, <2>2, MoveTypes
  <2>4. ListTypes' /\ TimeTypes'
    BY <1>0, <1>29, <2>3 DEF CtrlZ, ListTypes, TimeTypes
  <2>5. HistoryTypes'
    <3>1. late_stop' \in BOOLEAN
      BY <1>29 DEF CtrlZ
    <3> QED  BY <1>0, <1>29, <2>3, <3>1 DEF CtrlZ, HistoryTypes
  <2>6. LocalTypes' /\ CounterTypes'
    BY <1>0, <1>29, <1>o, <1>p DEF CtrlZ, LocalTypes, Pcs
  <2> QED  BY <1>29, <2>4, <2>5, <2>6, <1>g, <1>f, <1>s DEF CtrlZ
<1>30. ASSUME NEW victims \in SUBSET Pids, CtrlC(victims) PROVE Good
  <2>1. children' \in ChildTable
    BY <1>0, <1>30 DEF CtrlC, ListTypes, ChildTable, ChildState, Ended
  <2>2. pc' \in Pcs
    BY <1>0, <1>30 DEF CtrlC, LocalTypes
  <2>3. CounterTypes'
    BY <1>30, <1>p DEF CtrlC
  <2> QED  BY <1>30, <2>1, <2>2, <2>3, <1>k, <1>g, <1>t, <1>f, <1>s, <1>o, <1>h DEF CtrlC
<1>31. CASE Alarm
  <2>1. Rung
    BY <1>31, AlarmFacts DEF ControlInv
  <2>2. TimeTypes' /\ ListTypes'
    BY <1>0, <1>31, <1>k, <2>1 DEF Alarm, Rung, TimeTypes
  <2>3. pc' \in Pcs
    BY <1>0, <1>31 DEF Alarm, LocalTypes
  <2> QED  BY <1>31, <2>2, <2>3, <1>g, <1>f, <1>s, <1>o, <1>h, <1>c DEF Alarm
<1>32. ASSUME NEW p \in Pids, NEW how \in Ended, ChildEnds(p, how) PROVE Good
  <2>1. children' \in ChildTable
    BY <1>0, <1>32 DEF ChildEnds, ListTypes, ChildTable, ChildState, Ended
  <2>2. pc' \in Pcs
    BY <1>0, <1>32 DEF ChildEnds, LocalTypes
  <2> QED  BY <1>32, <2>1, <2>2, <1>k, <1>g, <1>t, <1>f, <1>s, <1>o, <1>h, <1>c DEF ChildEnds
<1>33. ASSUME NEW p \in Pids, ChildStops(p) PROVE Good
  <2>1. children' \in ChildTable
    BY <1>0, <1>33, SignalledFacts DEF ChildStops, ListTypes
  <2>2. pc' \in Pcs
    BY <1>0, <1>33 DEF ChildStops, LocalTypes
  <2> QED  BY <1>33, <2>1, <2>2, <1>k, <1>g, <1>t, <1>f, <1>s, <1>o, <1>h, <1>c DEF ChildStops
<1>34. CASE Tick
  <2>1. TimeTypes' /\ pc' \in Pcs
    BY <1>0, <1>34 DEF Tick, TimeTypes, LocalTypes
  <2> QED  BY <1>34, <2>1, <1>g, <1>l, <1>f, <1>s, <1>o, <1>h, <1>c DEF Tick
<1>35. CASE UNCHANGED vars
  <2>1. pc' \in Pcs
    BY <1>0, <1>35 DEF vars, LocalTypes
  <2> QED  BY <1>35, <2>1, <1>g, <1>l, <1>t, <1>f, <1>s, <1>o, <1>h, <1>c DEF vars
<1>36. CASE CleanupFails
  <2>1. LocalTypes' /\ HistoryTypes'
    BY <1>0, <1>36
    DEF CleanupFails, LocalTypes, HistoryTypes, Pcs, NoLine, Line, Verbs, NoTimeout
  <2>2. CounterTypes'
    BY <1>36, <1>m DEF CleanupFails
  <2> QED  BY <1>36, <2>1, <2>2, <1>g, <1>l, <1>t, <1>f, <1>s DEF CleanupFails
<1>37. ASSUME NEW p \in Pids, NEW sig \in {"SIGCONT", "SIGKILL"}, Disturb(p, sig) PROVE Good
  <2>1. children' \in ChildTable
    BY <1>0, <1>37, SignalledFacts DEF Disturb, ListTypes
  <2>2. pc' \in Pcs /\ HistoryTypes'
    BY <1>0, <1>37 DEF Disturb, LocalTypes, HistoryTypes
  <2>3. CounterTypes'
    BY <1>37, <1>p DEF Disturb
  <2> QED  BY <1>37, <2>1, <2>2, <2>3, <1>k, <1>g, <1>t, <1>f, <1>s, <1>o DEF Disturb
<1>38. CASE Main
  BY <1>38, <1>2, <1>3, <1>4, <1>5, <1>7, <1>8, <1>9, <1>10, <1>11, <1>12, <1>13, <1>14, <1>15,
     <1>16, <1>17, <1>18, <1>19, <1>20, <1>21, <1>22, <1>23, <1>24, <1>25, <1>26, <1>27, <1>28,
     <1>36
  DEF Main
<1>39. CASE Handlers
  BY <1>39, <1>29, <1>30, <1>31 DEF Handlers
<1>40. CASE Environment
  BY <1>40, <1>1, <1>6, <1>32, <1>33, <1>34, <1>37 DEF Environment
<1> QED  BY <1>38, <1>39, <1>40, <1>35 DEF Next

\* The steps at which main waits for whatever child there is.
AnyWaits == {"any", "any, pipe", "pipe, any", "any, any"}

Control == Places /\ Redirected /\ Limited

LEMMA StepControl ==
  ASSUME ControlInv, [Next]_vars
  PROVE  ControlInv'
<1> USE DEF shell, timing, foreground, regs, locals, stdio, mishaps, history, counters
<1>0. Places /\ Redirected /\ Limited /\ line \in Line /\ faults \in Nat /\ TypeOK
  <2>1. 0 .. MaxFaults \subseteq Nat
    OBVIOUS
  <2> QED  BY <2>1 DEF ControlInv, TypeOK
<1> DEFINE Good == Control'
<1> SUFFICES Good
  BY StepTypes DEF ControlInv, Control
<1>g. ASSUME Places', Redirected', Limited' PROVE Good
  BY <1>g, PTL DEF Control
<1>n. pc \in Quiet \cup Forking => foreground_cmd = Nullptr /\ foreground_jobid = -1
  BY <1>0 DEF Places
\* The three parts when main returns, goes on to a quiet step or does not move.
<1>q. ASSUME pc' \in Quiet, foreground_cmd' = Nullptr, foreground_jobid' = -1 PROVE Places'
  BY <1>q DEF Places, Quiet, Forking
<1>r. ASSUME Return, UNCHANGED <<stdio, mishaps>>, pc # "prompt", line.redirect # "yes"
      PROVE  Redirected' /\ pc' \in {"prompt", "cleanup"}
  BY <1>0, <1>r, ReturnFacts DEF Redirected
<1>s. ASSUME UNCHANGED <<line, stdio, mishaps>>, pc' # "prompt", line.redirect # "yes"
      PROVE  Redirected'
  BY <1>0, <1>s DEF Redirected
<1>l. ASSUME UNCHANGED time_this, pc' \notin AnyWaits \/ faults' > 0 PROVE Limited'
  BY <1>0, <1>l DEF Limited, AnyWaits
<1>R. ASSUME Return, UNCHANGED <<stdio, mishaps, time_this>>, foreground_cmd' = Nullptr,
             foreground_jobid' = -1, pc # "prompt", line.redirect # "yes"
      PROVE  Good
  <2>1. Redirected' /\ pc' \in {"prompt", "cleanup"}
    BY <1>R, <1>r
  <2>2. pc' \in Quiet /\ pc' \notin AnyWaits
    BY <2>1 DEF Quiet, AnyWaits
  <2> QED  BY <1>R, <2>1, <2>2, <1>q, <1>l, <1>g
<1>M. ASSUME UNCHANGED <<line, stdio, mishaps, time_this, foreground>>, pc \in Quiet,
             pc' \in Quiet \ {"prompt"}, line.redirect # "yes",
             pc' \notin AnyWaits \/ faults' > 0
      PROVE  Good
  BY <1>M, <1>n, <1>q, <1>s, <1>l, <1>g
<1>E. ASSUME UNCHANGED <<foreground, stdio, unrestored, time_this, pc, locals, faults>>
      PROVE  Good
  <2>1. Places' /\ Redirected'
    BY <1>0, <1>E DEF Places, Redirected
  <2>2. Limited'
    BY <1>0, <1>E DEF Limited
  <2> QED  BY <2>1, <2>2, <1>g
<1>L. pc # "run" => line.redirect # "yes"
  BY <1>0 DEF Redirected
<1>Q. {"run", "pipe", "pipe, any", "any, pipe", "any, any", "any"} \subseteq Quiet
      /\ "prompt" \notin {"run", "pipe", "pipe, any", "any, pipe", "any, any", "any"}
  BY DEF Quiet
<1>1. ASSUME NEW typed \in Lines, ReadLine(typed) PROVE Good
  <2>1. pc = "prompt" /\ pc' = "run" /\ line' = typed /\ UNCHANGED <<stdio, mishaps, foreground, time_this>>
    BY <1>1 DEF ReadLine, ExecuteCommand
  <2>2. line'.redirect # "done"
    BY <2>1, ShellAssumption
  <2>3. Redirected'
    BY <1>0, <2>1, <2>2 DEF Redirected
  <2>4. Places' /\ Limited'
    BY <2>1, <1>n, <1>q, <1>l, <1>Q DEF Quiet, AnyWaits
  <2> QED  BY <2>3, <2>4, <1>g
<1>2. CASE Builtin
  BY <1>2, <1>R, <1>n, <1>Q DEF Builtin, Running
<1>3. CASE PrintJobsList
  BY <1>3, <1>R, <1>n, <1>Q DEF PrintJobsList, Running
<1>4. CASE Quit
  <2>1. pc = "run" /\ line.redirect # "yes" /\ pc' = "exited"
        /\ UNCHANGED <<line, stdio, mishaps, time_this, foreground>>
    BY <1>4 DEF Quit, Running
  <2>2. "exited" \in Quiet \ {"prompt"} /\ "exited" \notin AnyWaits
    BY DEF Quiet, AnyWaits
  <2> QED  BY <2>1, <2>2, <1>M, <1>Q
<1>5. CASE Pipe
  <2>1. PICK f \in {n \in 0 .. 2 : MayFail(n)} :
          /\ faults' = faults + f
          /\ pc' \in CASE f = 0 -> {"pipe"} [] f = 1 -> {"any, pipe", "pipe, any"}
                         [] f = 2 -> {"any, any"}
    BY <1>5 DEF Pipe
  <2>2. pc' \in {"pipe", "any, pipe", "pipe, any", "any, any"} /\ (pc' \in AnyWaits => faults' > 0)
    <3>1. f = 0 \/ f = 1 \/ f = 2
      OBVIOUS
    <3>2. CASE f = 0
      BY <2>1, <3>2 DEF AnyWaits
    <3>3. CASE f = 1 \/ f = 2
      <4>1. faults' > 0
        <5>1. faults' = faults + f
          BY <2>1
        <5> QED  BY <1>0, <3>3, <5>1
      <4>2. pc' \in {"any, pipe", "pipe, any", "any, any"}
        <5>1. CASE f = 1
          <6>0. f # 0 /\ f # 2
            BY <5>1
          <6>1. pc' \in {"any, pipe", "pipe, any"}
            BY <2>1, <5>1, <6>0, Zenon
          <6> QED  BY <6>1
        <5>2. CASE f = 2
          <6>0. f # 0 /\ f # 1
            BY <5>2
          <6>1. pc' \in {"any, any"}
            BY <2>1, <5>2, <6>0, Zenon
          <6> QED  BY <6>1
        <5> QED  BY <3>3, <5>1, <5>2
      <4> QED  BY <4>1, <4>2
    <3> QED  BY <3>1, <3>2, <3>3
  <2>3. pc = "run" /\ line.redirect # "yes" /\ UNCHANGED <<line, stdio, mishaps, time_this, foreground>>
    BY <1>5 DEF Pipe, Running
  <2>4. pc' \in Quiet \ {"prompt"}
    BY <2>2, <1>Q
  <2> QED  BY <2>2, <2>3, <2>4, <1>M, <1>Q
<1>6. CASE PipeEnds
  <2>1. CASE pc = "pipe, any"
    <3>1. pc' = "any" /\ faults' = faults /\ UNCHANGED <<line, stdio, mishaps, time_this, foreground>>
      BY <1>6, <2>1 DEF PipeEnds
    <3>2. faults > 0
      BY <1>0, <2>1 DEF Limited
    <3> QED  BY <2>1, <3>1, <3>2, <1>M, <1>L, <1>Q
  <2>2. CASE pc # "pipe, any"
    BY <1>6, <2>2, <1>R, <1>L, <1>n, <1>Q DEF PipeEnds
  <2> QED  BY <2>1, <2>2
<1>7. ASSUME NEW p \in Pids, PipeReaps(p) PROVE Good
  <2>1. CASE pc = "any"
    BY <1>7, <2>1, <1>R, <1>L, <1>n, <1>Q DEF PipeReaps
  <2>2. CASE pc = "any, pipe" \/ pc = "any, any"
    <3>1. pc' \in {"pipe", "any"} /\ faults' = faults
          /\ UNCHANGED <<line, stdio, mishaps, time_this, foreground>>
      BY <1>7, <2>2 DEF PipeReaps
    <3>2. faults > 0
      BY <1>0, <2>2 DEF Limited
    <3> QED  BY <2>2, <3>1, <3>2, <1>M, <1>L, <1>Q
  <2> QED  BY <1>7, <2>1, <2>2 DEF PipeReaps
<1>8. CASE PipeAlone
  BY <1>8, <1>R, <1>L, <1>n, <1>Q DEF PipeAlone
<1>9. CASE NoJob
  BY <1>9, <1>R, <1>n, <1>Q DEF NoJob, Running
<1>10. ASSUME NEW i \in Chosen, NEW sig \in KillSignals, Kill(i, sig) PROVE Good
  BY <1>10, <1>R, <1>n, <1>Q DEF Kill, Running
<1>11. ASSUME NEW i \in Chosen \cup LastStopped, Background(i) PROVE Good
  BY <1>11, <1>R, <1>n, <1>Q DEF Background, Running
<1>12. ASSUME NEW i \in Chosen, ForegroundStart(i) PROVE Good
  <2>1. CASE jobs[i].is_stopped /\ NoSuchChild(children, jobs[i].pid)
    BY <1>12, <2>1, <1>R, <1>n, <1>Q DEF ForegroundStart, Running
  <2>2. CASE ~ (jobs[i].is_stopped /\ NoSuchChild(children, jobs[i].pid))
    <3>1. /\ pc = "run" /\ line.redirect # "yes" /\ pc' = "fg pid"
          /\ foreground_cmd' = NoPid /\ foreground_jobid' = foreground_jobid
          /\ jobid' = jobs[i].job_id
          /\ UNCHANGED <<line, stdio, mishaps, time_this>>
      BY <1>12, <2>2 DEF ForegroundStart, Running
    <3>2. jobid' \in Nat
      BY <3>1, <1>0, EntryFacts DEF Chosen, TypeOK
    <3>3. foreground_jobid = -1
      BY <3>1, <1>n, <1>Q
    <3>4. Places'
      BY <3>1, <3>2, <3>3 DEF Places, Quiet, Forking
    <3> QED  BY <3>1, <3>4, <1>s, <1>l, <1>g DEF AnyWaits
  <2> QED  BY <2>1, <2>2
<1>13. CASE ForegroundPid
  <2>1. /\ pc = "fg pid" /\ pc' = "fg id" /\ foreground_cmd' = pid
        /\ UNCHANGED <<foreground_jobid, jobid, pid, line, stdio, mishaps, time_this>>
    BY <1>13 DEF ForegroundPid
  <2>2. Places'
    BY <1>0, <2>1 DEF Places, Quiet, Forking
  <2> QED  BY <2>1, <2>2, <1>L, <1>s, <1>l, <1>g DEF AnyWaits
<1>14. CASE ForegroundId
  <2>1. /\ pc = "fg id" /\ pc' = "fg remove" /\ foreground_jobid' = jobid
        /\ UNCHANGED <<foreground_cmd, jobid, pid, line, stdio, mishaps, time_this>>
    BY <1>14 DEF ForegroundId
  <2>2. Places'
    BY <1>0, <2>1 DEF Places, Quiet, Forking
  <2> QED  BY <2>1, <2>2, <1>L, <1>s, <1>l, <1>g DEF AnyWaits
<1>15. CASE ForegroundRemove
  <2>1. /\ pc = "fg remove" /\ pc' = "fg wait"
        /\ UNCHANGED <<foreground, jobid, pid, line, stdio, mishaps, time_this>>
    BY <1>15 DEF ForegroundRemove
  <2>2. Places'
    BY <1>0, <2>1 DEF Places, Quiet, Forking
  <2> QED  BY <2>1, <2>2, <1>L, <1>s, <1>l, <1>g DEF AnyWaits
<1>16. CASE ForegroundWait
  <2>1. /\ pc = "fg wait" /\ pc' \in {"fg wait", "fg done"}
        /\ UNCHANGED <<foreground, jobid, pid, line, stdio, mishaps, time_this>>
    BY <1>16 DEF ForegroundWait
  <2>2. Places'
    BY <1>0, <2>1 DEF Places, Quiet, Forking
  <2> QED  BY <2>1, <2>2, <1>L, <1>s, <1>l, <1>g DEF AnyWaits
<1>17. CASE ForegroundDone
  BY <1>17, <1>R, <1>L DEF ForegroundDone
<1>18. CASE Fork
  <2>1. /\ pc = "run" /\ line.redirect # "yes" /\ pc' \in Forking
        /\ UNCHANGED <<foreground, line, stdio, mishaps, faults>>
        /\ time_this' = IF time_this.time_this THEN StampedFor(pid') ELSE time_this
    BY <1>18 DEF Fork, External, Running, Forking
  <2>2. Places'
    BY <2>1, <1>n, <1>Q DEF Places, Quiet, Forking
  <2>3. pc' # "prompt" /\ pc' \notin AnyWaits
    BY <2>1 DEF Forking, AnyWaits
  <2>4. time_this'.time_this => time_this.time_this /\ time_this'.limit = time_this.limit
    BY <1>0, <2>1 DEF StampedFor, TypeOK
  <2>5. Limited'
    BY <1>0, <2>3, <2>4 DEF Limited, AnyWaits
  <2> QED  BY <2>1, <2>2, <2>3, <2>5, <1>s, <1>g
<1>19. CASE ForkFails
  BY <1>19, <1>R, <1>n, <1>Q DEF ForkFails, External, Running
<1>20. CASE ToBackground
  <2>1. /\ pc = "to background" /\ Return /\ TimeThis /\ UNCHANGED <<foreground, stdio, mishaps>>
    BY <1>20 DEF ToBackground, MoveToBackground
  <2>2. Redirected' /\ pc' \in {"prompt", "cleanup"}
    BY <2>1, <1>r, <1>L
  <2>3. Places'
    BY <2>1, <2>2, <1>n, <1>q DEF Forking, Quiet
  <2>4. Limited'
    BY <1>0, <2>1, <2>2, TimeThisTypes DEF Limited
  <2> QED  BY <2>2, <2>3, <2>4, <1>g
<1>21. CASE ToForeground
  <2>1. /\ pc = "to foreground" /\ pc' = "wait" /\ TimeThis /\ foreground_cmd' = pid
        /\ UNCHANGED <<foreground_jobid, pid, line, stdio, mishaps>>
    BY <1>21 DEF ToForeground
  <2>2. Places'
    BY <2>1, <1>n DEF Places, Quiet, Forking
  <2>3. Limited'
    BY <1>0, <2>1, TimeThisTypes DEF Limited
  <2> QED  BY <2>1, <2>2, <2>3, <1>L, <1>s, <1>g
<1>22. CASE Wait
  <2>1. /\ pc = "wait" /\ pc' = "settle" /\ UNCHANGED <<foreground, pid, line, stdio, mishaps, time_this>>
    BY <1>22 DEF Wait
  <2>2. Places'
    BY <1>0, <2>1 DEF Places, Quiet, Forking
  <2> QED  BY <2>1, <2>2, <1>L, <1>s, <1>l, <1>g DEF AnyWaits
<1>23. CASE Settle
  BY <1>23, <1>R, <1>L DEF Settle
<1>24. CASE SettleErased
  <2>1. /\ pc = "settle" /\ pc' = "undefined" /\ UNCHANGED <<line, stdio, mishaps, time_this>>
    BY <1>24 DEF SettleErased
  <2>2. Places'
    BY <2>1 DEF Places, Quiet, Forking
  <2> QED  BY <2>1, <2>2, <1>L, <1>s, <1>l, <1>g DEF AnyWaits
<1>25. CASE Prepare
  <2>1. /\ pc = "run" /\ pc' = "run" /\ saved' = out /\ out # "closed"
        /\ line.redirect = "yes" /\ line'.redirect = "done"
        /\ UNCHANGED <<foreground, time_this, unrestored>>
    BY <1>0, <1>25 DEF Prepare, ExecuteCommand, Line
  <2>2. Redirected'
    BY <1>0, <2>1 DEF Redirected
  <2> QED  BY <2>1, <2>2, <1>n, <1>q, <1>l, <1>g, <1>Q DEF AnyWaits
<1>26. CASE PrepareFails
  <2>1. /\ pc = "run" /\ pc' = "run" /\ line.redirect = "yes" /\ line' = EmptyLine
        /\ UNCHANGED <<foreground, time_this, unrestored>>
        /\ \/ saved' = "none" /\ UNCHANGED out
           \/ out # "closed" /\ saved' = out
    BY <1>26 DEF PrepareFails, PrepareStops, ExecuteCommand
  <2>2. line'.redirect = "done"
    BY <2>1 DEF EmptyLine, NoLine
  <2>3. Redirected'
    BY <1>0, <2>1, <2>2 DEF Redirected
  <2> QED  BY <2>1, <2>3, <1>n, <1>q, <1>l, <1>g, <1>Q DEF AnyWaits
<1>27. CASE Cleanup
  <2>1. /\ pc = "cleanup" /\ pc' = "prompt" /\ line' = NoLine /\ saved' = "none"
        /\ out' = IF saved = "none" THEN out ELSE saved
        /\ UNCHANGED <<foreground, time_this, unrestored>>
    BY <1>27 DEF Cleanup
  <2>2. Redirected'
    BY <1>0, <2>1 DEF Redirected, NoLine
  <2> QED  BY <2>1, <2>2, <1>n, <1>q, <1>l, <1>g DEF AnyWaits, Quiet
<1>28. CASE Timeout
  <2>1. /\ pc = "run" /\ pc' = "run" /\ line.redirect # "yes"
        /\ line' = [line EXCEPT !.timeout = NoTimeout] /\ UNCHANGED <<foreground, stdio, mishaps>>
        /\ line.timeout # NoTimeout /\ time_this'.limit = line.timeout
    BY <1>28 DEF Timeout, ExecuteCommand
  <2>2. line'.redirect = line.redirect /\ line.timeout \in Nat
    BY <1>0, <2>1 DEF Line
  <2>3. Redirected'
    BY <1>0, <2>1, <2>2 DEF Redirected
  <2>4. Limited'
    BY <2>1, <2>2 DEF Limited
  <2> QED  BY <2>1, <2>3, <2>4, <1>n, <1>q, <1>g, <1>Q
<1>29. CASE CtrlZ
  <2>1. /\ UNCHANGED <<foreground, locals, stdio, mishaps, faults>> /\ TimeThis
        /\ pc' \in {"undefined", pc} /\ pc # "undefined"
    BY <1>29 DEF CtrlZ, MoveToBackground, Over
  <2>2. Places'
    BY <1>0, <2>1 DEF Places, Quiet, Forking
  <2>3. Redirected'
    <3>1. pc' = pc \/ (pc' = "undefined" /\ pc # "run")
      BY <1>29 DEF CtrlZ, InForegroundStart
    <3>2. UNCHANGED <<line, out, saved, unrestored>>
      BY <2>1
    <3> QED  BY <1>0, <2>1, <3>1, <3>2, <1>L DEF Redirected
  <2>4. Limited'
    BY <1>0, <2>1, TimeThisTypes DEF Limited
  <2> QED  BY <2>2, <2>3, <2>4, <1>g
<1>30. ASSUME NEW victims \in SUBSET Pids, CtrlC(victims) PROVE Good
  BY <1>0, <1>30, <1>E DEF CtrlC
<1>31. CASE Alarm
  BY <1>0, <1>31, <1>E DEF Alarm
<1>32. ASSUME NEW p \in Pids, NEW how \in Ended, ChildEnds(p, how) PROVE Good
  BY <1>0, <1>32, <1>E DEF ChildEnds
<1>33. ASSUME NEW p \in Pids, ChildStops(p) PROVE Good
  BY <1>0, <1>33, <1>E DEF ChildStops
<1>34. CASE Tick
  BY <1>0, <1>34, <1>E DEF Tick
<1>35. CASE UNCHANGED vars
  BY <1>0, <1>35, <1>E DEF vars
<1>36. CASE CleanupFails
  <2>1. /\ pc = "cleanup" /\ pc' = "prompt" /\ line' = NoLine /\ unrestored'
        /\ UNCHANGED <<foreground, time_this>>
    BY <1>36 DEF CleanupFails
  <2>2. Redirected'
    BY <2>1 DEF Redirected, NoLine
  <2> QED  BY <2>1, <2>2, <1>n, <1>q, <1>l, <1>g DEF AnyWaits, Quiet
<1>37. ASSUME NEW p \in Pids, NEW sig \in {"SIGCONT", "SIGKILL"}, Disturb(p, sig) PROVE Good
  BY <1>0, <1>37, <1>E DEF Disturb
<1>38. CASE Main
  BY <1>38, <1>2, <1>3, <1>4, <1>5, <1>7, <1>8, <1>9, <1>10, <1>11, <1>12, <1>13, <1>14, <1>15,
     <1>16, <1>17, <1>18, <1>19, <1>20, <1>21, <1>22, <1>23, <1>24, <1>25, <1>26, <1>27, <1>28,
     <1>36
  DEF Main
<1>39. CASE Handlers
  BY <1>39, <1>29, <1>30, <1>31 DEF Handlers
<1>40. CASE Environment
  BY <1>40, <1>1, <1>6, <1>32, <1>33, <1>34, <1>37 DEF Environment
<1> QED  BY <1>38, <1>39, <1>40, <1>35 DEF Next

\* The variables of the shell hold values of their types (hw1/Commands.h).
THEOREM ShellTypes == Spec => []TypeOK
<1>1. ASSUME ControlInv, [Next]_vars PROVE ControlInv'
  BY <1>1, StepControl
<1>2. ControlInv => TypeOK
  BY DEF ControlInv
<1> QED  BY <1>1, <1>2, InitControl, PTL DEF Spec

\* At the prompt no command is in the foreground, and the redirection of the last one
\* is undone, whichever calls of prepare have failed; until a dup2 of cleanup with a
\* copy to restore has failed itself (prepare, cleanup).
THEOREM PromptClean == Spec => []PromptIsClean
<1>1. ASSUME ControlInv, [Next]_vars PROVE ControlInv'
  BY <1>1, StepControl
<1>2. ControlInv => PromptIsClean
  BY DEF ControlInv, PromptIsClean, Places, Redirected, Quiet
<1> QED  BY <1>1, <1>2, InitControl, PTL DEF Spec

-----------------------------------------------------------------------------
(* No running child is lost.                                               *)

\* Between two tables no child is unforked and none runs again, or is continued.
Born(k, km) == \A p \in Pids : k[p].state # "unborn" => km[p].state # "unborn"
Older(k, km) ==
  /\ Born(k, km)
  /\ \A p \in Pids :
       km[p].state = "running" => k[p].state = "running" /\ (km[p].news => k[p].news)

LEMMA TidiedKeeps ==
  ASSUME NEW jl \in Seq(JobEntry), NEW k \in ChildTable, NEW jm, NEW km, Tidied(jl, k, jm, km)
  PROVE  /\ Older(k, km)
         /\ JobPids(jm) \subseteq JobPids(jl)
         /\ \A p \in Pids : p \in JobPids(jl) /\ km[p].state = "running" => p \in JobPids(jm)
<1>1. ASSUME NEW p \in Pids
      PROVE  \/ km[p] = k[p]
             \/ /\ km[p].news = FALSE
                /\ km[p].state = IF k[p].state \in Ended THEN "gone" ELSE k[p].state
  BY DEF Tidied
<1>2. Older(k, km)
  <2>1. "unborn" \notin Ended /\ "running" \notin Ended
    BY DEF Ended
  <2> QED  BY <1>1, <2>1 DEF Older, Born
<1>3. JobPids(jm) \subseteq JobPids(jl)
  BY DEF Tidied, Thinned, JobPids
<1>4. ASSUME NEW p \in Pids, p \in JobPids(jl), km[p].state = "running"
      PROVE  p \in JobPids(jm)
  <2>1. k[p].state \notin Ended
    BY <1>2, <1>4 DEF Older, Ended
  <2>2. PICK i \in DOMAIN jl : jl[i].pid = p
    BY <1>4 DEF JobPids
  <2>3. \E m \in DOMAIN jm : jm[m] = jl[i]
    BY <2>1, <2>2 DEF Tidied
  <2> QED  BY <2>2, <2>3 DEF JobPids
<1> QED  BY <1>2, <1>3, <1>4

LEMMA ReportedOlder ==
  ASSUME NEW k \in ChildTable, NEW P
  PROVE  Older(k, Reported(k, P))
<1>1. "unborn" \notin Ended /\ "running" \notin Ended
  BY DEF Ended
<1>2. ASSUME NEW p \in Pids
      PROVE  \/ Reported(k, P)[p] = k[p]
             \/ /\ Reported(k, P)[p].news = FALSE
                /\ Reported(k, P)[p].state = IF k[p].state \in Ended THEN "gone" ELSE k[p].state
  <2>1. p \notin P \/ p \in P \cap Pids
    OBVIOUS
  <2> QED  BY <2>1, ReportedFacts
<1> QED  BY <1>1, <1>2 DEF Older, Born

LEMMA SignalledBorn ==
  ASSUME NEW k \in ChildTable, NEW P, NEW sig
  PROVE  Born(k, Signalled(k, P, sig))
<1>1. \A p \in Pids : k[p].state # "unborn" => After(k[p].state, sig) # "unborn"
  BY DEF After
<1> QED  BY <1>1, SignalledFacts DEF Born

LEMMA SignalledOlder ==
  ASSUME NEW k \in ChildTable, NEW P, NEW sig, sig # "SIGCONT"
  PROVE  Older(k, Signalled(k, P, sig))
<1>1. ASSUME NEW p \in Pids, After(k[p].state, sig) = "running" PROVE k[p].state = "running"
  BY <1>1 DEF After
<1>2. ASSUME NEW p \in Pids, Signalled(k, P, sig)[p].state = "running"
      PROVE  k[p] = Signalled(k, P, sig)[p]
  <2>1. CASE p \notin P
    BY <2>1, SignalledFacts
  <2>2. CASE p \in P
    <3>1. After(k[p].state, sig) = "running"
      BY <1>2, <2>2, SignalledFacts
    <3> QED  BY <1>1, <2>2, <3>1, SignalledFacts
  <2> QED  BY <2>1, <2>2
<1>3. Born(k, Signalled(k, P, sig))
  BY SignalledBorn
<1> QED  BY <1>2, <1>3 DEF Older

LEMMA RungOlder ==
  ASSUME TypeOK, Rung
  PROVE  Older(children, children')
<1>1. ASSUME NEW p \in Pids
      PROVE  \/ children'[p] = children[p]
             \/ children'[p].state \in {"gone", "killed", "exited"}
             \/ children'[p].state = children[p].state /\ ~children'[p].news
  BY DEF Rung
<1> QED  BY <1>1 DEF Older, Born

\* A job's process and the one in hand are children, what fg has chosen is a job
\* until it is removed, and a child in hand that runs has not been continued, unless
\* it is a job again or somebody else has done so.
Sight ==
  /\ pc # "undefined" => \A p \in JobPids(jobs) : p \in Pids /\ children[p].state # "unborn"
  /\ pc \notin Quiet \cup {"undefined"} => pid \in Pids /\ children[pid].state # "unborn"
  /\ InForegroundStart => jobid \in JobIds(jobs) /\ jobs[PositionOf(jobs, jobid)].pid = pid
  /\ pc \in Forking \cup {"wait"} /\ children[pid].state = "running" =>
       ~children[pid].news \/ pid \in JobPids(jobs) \cup strayed
  /\ NoRunningChildLost

LEMMA InitSight == Init => Sight
<1> SUFFICES ASSUME Init PROVE Sight
  OBVIOUS
<1>1. JobPids(jobs) = {} /\ pc \in Quiet /\ pc \notin Forking \cup {"wait"} /\ ~InForegroundStart
  BY DEF Init, JobPids, Quiet, Forking, InForegroundStart
<1>2. \A p \in Pids : children[p].state = "unborn"
  BY DEF Init, NoChildren
<1> QED  BY <1>1, <1>2 DEF Sight, NoRunningChildLost

\* Steps other than ctrl-Z and those of fg and of an external command.
LEMMA QuietSight ==
  ASSUME ControlInv, Sight, pc \in Quiet \cup {"fg done", "settle"}, pc' \in Quiet, strayed \subseteq strayed',
         \/ UNCHANGED <<children, jobs>>
         \/ Tidied(jobs, children, jobs', children')
         \/ /\ Born(children, children') /\ JobPids(jobs') = JobPids(jobs)
            /\ \A p \in Pids : children'[p].state = "running" =>
                 children[p].state = "running" \/ p \in JobPids(jobs)
  PROVE  Sight'
<1>1. \A p \in Pids : ~InHand(p)
  BY DEF InHand, InForegroundStart, Quiet
<1>2. pc # "undefined"
  BY DEF Quiet
<1>3. \A p \in JobPids(jobs) : p \in Pids /\ children[p].state # "unborn"
  BY <1>2 DEF Sight
<1>4. \A p \in Pids : children[p].state = "running" => p \in JobPids(jobs) \cup strayed
  BY <1>1 DEF Sight, NoRunningChildLost
<1>5. /\ Born(children, children') /\ JobPids(jobs') \subseteq JobPids(jobs)
      /\ \A p \in Pids : children'[p].state = "running" => p \in JobPids(jobs') \cup strayed'
  <2>1. CASE UNCHANGED <<children, jobs>>
    BY <1>4, <2>1 DEF Born
  <2>2. CASE Tidied(jobs, children, jobs', children')
    <3>1. jobs \in Seq(JobEntry) /\ children \in ChildTable
      BY DEF ControlInv, TypeOK
    <3>2. /\ Older(children, children') /\ JobPids(jobs') \subseteq JobPids(jobs)
          /\ \A p \in Pids : p \in JobPids(jobs) /\ children'[p].state = "running" =>
               p \in JobPids(jobs')
      BY <2>2, <3>1, TidiedKeeps
    <3> QED  BY <1>4, <3>2 DEF Older
  <2>3. CASE /\ Born(children, children') /\ JobPids(jobs') = JobPids(jobs)
             /\ \A p \in Pids : children'[p].state = "running" =>
                  children[p].state = "running" \/ p \in JobPids(jobs)
    BY <1>4, <2>3
  <2> QED  BY <2>1, <2>2, <2>3
<1>6. \A p \in JobPids(jobs') : p \in Pids /\ children'[p].state # "unborn"
  BY <1>3, <1>5 DEF Born
<1>7. pc' \notin Forking \cup {"wait"} /\ ~InForegroundStart'
  BY DEF Quiet, Forking, InForegroundStart
<1> QED  BY <1>5, <1>6, <1>7 DEF Sight, NoRunningChildLost

\* Main's locals and the list stay, the children go on.
LEMMA SteadySight ==
  ASSUME ControlInv, Sight, UNCHANGED <<jobs, pid, jobid>>, strayed \subseteq strayed',
         Older(children, children'),
         pc' = pc \/ (InForegroundStart /\ InForegroundStart')
  PROVE  Sight'
<1>1. \A p \in Pids : InHand(p) => InHand(p)'
  BY DEF InHand, InForegroundStart
<1>2. Born(children, children') /\ UNCHANGED JobPids(jobs)
  BY DEF Older
<1>3. pc' # "undefined" => \A p \in JobPids(jobs') : p \in Pids /\ children'[p].state # "unborn"
  BY <1>2 DEF Sight, Born, InForegroundStart
<1>4. pc' \notin Quiet \cup {"undefined"} => pid' \in Pids /\ children'[pid'].state # "unborn"
  BY <1>2 DEF Sight, Born, InForegroundStart, Quiet
<1>5. InForegroundStart' => jobid' \in JobIds(jobs') /\ jobs'[PositionOf(jobs', jobid')].pid = pid'
  BY DEF Sight, InForegroundStart
<1>6. pc' \in Forking \cup {"wait"} /\ children'[pid'].state = "running" =>
        ~children'[pid'].news \/ pid' \in JobPids(jobs') \cup strayed'
  <2>1. pc' \in Forking \cup {"wait"} => pc \in Forking \cup {"wait"} /\ pid \in Pids
    BY DEF Sight, InForegroundStart, Forking, Quiet
  <2> QED  BY <2>1 DEF Sight, Older
<1>7. NoRunningChildLost'
  <2>1. ASSUME NEW p \in Pids, children'[p].state = "running"
        PROVE  p \in JobPids(jobs') \/ InHand(p)' \/ p \in strayed'
    BY <1>1, <1>2, <2>1 DEF Sight, NoRunningChildLost, Older
  <2> QED  BY <2>1 DEF NoRunningChildLost
<1> QED  BY <1>3, <1>4, <1>5, <1>6, <1>7 DEF Sight

LEMMA PrintFacts ==
  ASSUME TypeOK, PrintJobsList
  PROVE  Tidied(jobs, children, jobs', children')
<1> DEFINE left == RemoveFinishedJobs(jobs, children)
           jt == left.jobs
           km == left.children
<1>1. Tidied(jobs, children, jt, km) /\ jobs' \in Sorted(jt) /\ children' = km
  BY TidiedFacts DEF TypeOK, PrintJobsList
<1> HIDE DEF jt, km
<1>2. jt \in Seq(JobEntry)
  BY <1>1 DEF Tidied, Thinned
<1>3. jobs' \in Seq(JobEntry) /\ Rearranged(jobs', jt, DOMAIN jt)
  BY <1>1, <1>2, SortedFacts
<1>4. /\ Thinned(jt, jobs')
      /\ \A i \in DOMAIN jt : \E m \in DOMAIN jobs' : jobs'[m] = jt[i]
  BY <1>2, <1>3, RearrangedFacts
<1>5. Thinned(jobs, jobs')
  <2>1. \A m \in DOMAIN jobs' : \E i \in DOMAIN jobs : jobs'[m] = jobs[i]
    BY <1>1, <1>4 DEF Tidied, Thinned
  <2> QED  BY <1>1, <1>3, <1>4, <2>1 DEF Tidied, Thinned
<1>6. ASSUME NEW i \in DOMAIN jobs, children[jobs[i].pid].state \notin Ended
      PROVE  \E m \in DOMAIN jobs' : jobs'[m] = jobs[i]
  <2>1. PICK n \in DOMAIN jt : jt[n] = jobs[i]
    BY <1>1, <1>6 DEF Tidied
  <2> QED  BY <1>4, <2>1
<1>7. \A p : p \in JobPids(jobs') => p \in JobPids(jt)
  BY <1>4 DEF Thinned, JobPids
<1>8. Distinct(jobs) => \A p \in Pids : km[p].state # children[p].state => p \notin JobPids(jobs')
  BY <1>1, <1>7 DEF Tidied
<1> QED  BY <1>1, <1>5, <1>6, <1>8 DEF Tidied

\* Marking an entry changes neither the ids nor the processes of the list.
LEMMA RemarkedKeeps ==
  ASSUME NEW jl \in Seq(JobEntry), NEW jm, NEW i, NEW mark, Remarked(jl, jm, i, mark)
  PROVE  /\ JobPids(jm) = JobPids(jl) /\ JobIds(jm) = JobIds(jl)
         /\ \A id : PositionOf(jm, id) = PositionOf(jl, id)
         /\ Distinct(jl) => Distinct(jm)
<1>1. DOMAIN jl = 1 .. Len(jl)
  BY EntryFacts
<1>2. /\ DOMAIN jm = DOMAIN jl /\ Len(jm) = Len(jl)
      /\ \A j \in DOMAIN jl : jm[j].job_id = jl[j].job_id /\ jm[j].pid = jl[j].pid
  BY DEF Remarked
<1>3. \A id : PositionOf(jm, id) = PositionOf(jl, id)
  BY <1>1, <1>2, SamePosition
<1>4. JobPids(jm) = JobPids(jl) /\ JobIds(jm) = JobIds(jl)
  BY <1>2 DEF JobPids, JobIds
<1> QED  BY <1>2, <1>3, <1>4 DEF Distinct

\* What kill, bg and fg do to a job: nothing, or a signal and a mark.
Marks(i, sig) ==
  \/ UNCHANGED <<children, jobs>>
  \/ /\ ~NoSuchChild(children, jobs[i].pid)
     /\ children' = Signalled(children, {jobs[i].pid}, sig)
     /\ Remarked(jobs, jobs', i, Marked(jobs[i], sig))
  \/ ~jobs[i].is_stopped /\ children' = children /\ Remarked(jobs, jobs', i, FALSE)

LEMMA MarksFacts ==
  ASSUME TypeOK, NEW i \in DOMAIN jobs
  PROVE  /\ \A sig \in KillSignals : Kill(i, sig) => Marks(i, sig)
         /\ Background(i) => Marks(i, "SIGCONT")
         /\ ForegroundStart(i) => Marks(i, "SIGCONT")
<1>1. jobs \in Seq(JobEntry) /\ jobs[i].is_stopped \in BOOLEAN
  BY EntryFacts DEF TypeOK
<1>2. \A sig : Marked(jobs[i], sig) \in BOOLEAN
  BY <1>1 DEF Marked
<1>3. \A mark \in BOOLEAN : Remarked(jobs, [jobs EXCEPT ![i].is_stopped = mark], i, mark)
  BY <1>1, RemarkedFacts
<1>4. Marked(jobs[i], "SIGCONT") = FALSE
  BY <1>1 DEF Marked
<1>5. ASSUME NEW sig \in KillSignals, Kill(i, sig) PROVE Marks(i, sig)
  BY <1>2, <1>3, <1>5 DEF Kill, Marks
<1>6. ASSUME Background(i) PROVE Marks(i, "SIGCONT")
  BY <1>3, <1>4, <1>6 DEF Background, Marks
<1>7. ASSUME ForegroundStart(i) PROVE Marks(i, "SIGCONT")
  <2>1. CASE jobs[i].is_stopped /\ NoSuchChild(children, jobs[i].pid)
    BY <1>7, <2>1 DEF ForegroundStart, Marks
  <2>2. CASE jobs[i].is_stopped /\ ~NoSuchChild(children, jobs[i].pid)
    BY <1>3, <1>4, <1>7, <2>2 DEF ForegroundStart, Marks
  <2>3. CASE ~jobs[i].is_stopped
    BY <1>3, <1>7, <2>3 DEF ForegroundStart, Marks
  <2> QED  BY <2>1, <2>2, <2>3
<1> QED  BY <1>5, <1>6, <1>7

\* A signal for a job wakes no other child.
LEMMA MarksKeep ==
  ASSUME TypeOK, NEW i \in DOMAIN jobs, NEW sig, Marks(i, sig)
  PROVE  /\ Born(children, children')
         /\ JobPids(jobs') = JobPids(jobs) /\ JobIds(jobs') = JobIds(jobs)
         /\ \A id : PositionOf(jobs', id) = PositionOf(jobs, id)
         /\ \A j \in DOMAIN jobs : jobs'[j].job_id = jobs[j].job_id /\ jobs'[j].pid = jobs[j].pid
         /\ \A p \in Pids : p # jobs[i].pid => children'[p] = children[p]
<1>1. jobs \in Seq(JobEntry) /\ children \in ChildTable
  BY DEF TypeOK
<1>2. CASE UNCHANGED <<children, jobs>>
  BY <1>2 DEF Born
<1>3. ASSUME NEW mark, Remarked(jobs, jobs', i, mark)
      PROVE  /\ JobPids(jobs') = JobPids(jobs) /\ JobIds(jobs') = JobIds(jobs)
             /\ \A id : PositionOf(jobs', id) = PositionOf(jobs, id)
             /\ \A j \in DOMAIN jobs : jobs'[j].job_id = jobs[j].job_id /\ jobs'[j].pid = jobs[j].pid
  BY <1>1, <1>3, RemarkedKeeps DEF Remarked
<1>4. CASE /\ children' = Signalled(children, {jobs[i].pid}, sig)
           /\ Remarked(jobs, jobs', i, Marked(jobs[i], sig))
  <2>1. Born(children, children') /\ \A p \in Pids : p # jobs[i].pid => children'[p] = children[p]
    BY <1>1, <1>4, SignalledBorn, SignalledFacts
  <2> QED  BY <1>3, <1>4, <2>1
<1>5. CASE children' = children /\ Remarked(jobs, jobs', i, FALSE)
  BY <1>3, <1>5 DEF Born
<1> QED  BY <1>2, <1>4, <1>5 DEF Marks

LEMMA OlderTransitive ==
  ASSUME NEW k, NEW l, NEW m, Older(k, l), Older(l, m)
  PROVE  Older(k, m)
BY DEF Older, Born

\* A child filed by addJob is a job, and so is every running one that was.
LEMMA AddedKeeps ==
  ASSUME NEW jl \in Seq(JobEntry), NEW k \in ChildTable, NEW p, NEW stopped, NEW fid, NEW jt, NEW id,
         NEW jm, NEW km, Added(jl, k, p, stopped, fid, jt, id, jm, km)
  PROVE  /\ Older(k, km)
         /\ JobPids(jm) = JobPids(jt) \cup {p} /\ JobIds(jm) = JobIds(jt) \cup {id}
         /\ JobPids(jt) \subseteq JobPids(jl)
         /\ \A q \in Pids : q \in JobPids(jl) /\ km[q].state = "running" => q \in JobPids(jm)
<1>1. /\ Tidied(jl, k, jt, km) /\ jt \in Seq(JobEntry)
      /\ jm = Append(jt, Entry(id, p, stopped))
  BY DEF Added, Tidied, Thinned
<1> DEFINE e == Entry(id, p, stopped)
           n == Len(jt)
<1>2. n \in Nat /\ DOMAIN jt = 1 .. n
  BY <1>1, EntryFacts
<1>3. e.pid = p /\ e.job_id = id
  BY DEF Entry
<1>4. jm = Append(jt, e)
  BY <1>1
<1> HIDE DEF e
<1>5. /\ DOMAIN jm = 1 .. n + 1 /\ jm[n + 1] = e
      /\ \A i \in 1 .. n : jm[i] = jt[i]
  BY <1>1, <1>2, <1>4
<1>6. \A i \in 1 .. n + 1 : i \in 1 .. n \/ i = n + 1
  BY <1>2
<1>7. 1 .. n \subseteq 1 .. n + 1 /\ n + 1 \in 1 .. n + 1
  BY <1>2
<1> HIDE DEF n
<1>8. JobPids(jm) = JobPids(jt) \cup {p} /\ JobIds(jm) = JobIds(jt) \cup {id}
  BY <1>2, <1>3, <1>5, <1>6, <1>7 DEF JobPids, JobIds
<1> QED  BY <1>1, <1>8, TidiedKeeps

LEMMA CtrlZSight ==
  ASSUME ControlInv, Sight, CtrlZ
  PROVE  Sight'
<1> DEFINE k == Signalled(children, Aimed(foreground_cmd), "SIGSTOP")
           yes == TRUE
<1>1. /\ foreground_cmd # Nullptr /\ pc # "undefined"
      /\ MoveToBackground(k, foreground_cmd, yes) /\ yes \in BOOLEAN
      /\ pid' = pid /\ jobid' = jobid /\ strayed' = strayed
      /\ \/ pc' = pc /\ ~InForegroundStart
         \/ /\ pc' = pc /\ InForegroundStart
            /\ foreground_cmd # NoPid /\ jobs' = Append(jobs, Last(jobs'))
         \/ InForegroundStart /\ pc' = "undefined"
  BY DEF CtrlZ, Over, locals, regs, mishaps
<1>2. /\ children \in ChildTable /\ jobs \in Seq(JobEntry) /\ Places
      /\ foreground_jobid \in Nat \cup {-1} /\ foreground_cmd \in Pids \cup {NoPid}
  BY <1>1 DEF ControlInv, TypeOK
<1>3. k \in ChildTable /\ Older(children, k)
  BY <1>2, SignalledFacts, SignalledOlder
<1>4. \A p \in Aimed(foreground_cmd) : p \in Pids => k[p].state # "running"
  <2>1. \A p \in Pids : After(children[p].state, "SIGSTOP") # "running"
    BY DEF After
  <2> QED  BY <1>2, <2>1, SignalledFacts
<1> HIDE DEF k, yes
<1>5. PICK jt, id : Added(jobs, k, foreground_cmd, yes, foreground_jobid, jt, id, jobs', children')
  BY <1>1, <1>2, <1>3, MoveFacts
<1>6. /\ Older(k, children') /\ JobPids(jobs') = JobPids(jt) \cup {foreground_cmd}
      /\ JobPids(jt) \subseteq JobPids(jobs)
      /\ \A q \in Pids : q \in JobPids(jobs) /\ children'[q].state = "running" => q \in JobPids(jobs')
  BY <1>2, <1>3, <1>5, AddedKeeps
<1>7. Older(children, children')
  BY <1>3, <1>6, OlderTransitive
<1>8. \A p \in Pids : children'[p].state = "running" =>
        p \notin Aimed(foreground_cmd) /\ (p \in JobPids(jobs') \cup strayed' \/ InHand(p))
  <2>1. ASSUME NEW p \in Pids, children'[p].state = "running"
        PROVE  p \notin Aimed(foreground_cmd) /\ (p \in JobPids(jobs') \cup strayed' \/ InHand(p))
    <3>1. k[p].state = "running" /\ children[p].state = "running"
      BY <1>6, <1>7, <2>1 DEF Older
    <3> QED  BY <1>1, <1>4, <1>6, <2>1, <3>1 DEF Sight, NoRunningChildLost
  <2> QED  BY <2>1
<1>9. CASE InForegroundStart
  <2>1. foreground_cmd = NoPid \/ foreground_cmd = pid
    BY <1>2, <1>9 DEF Places, InForegroundStart
  <2>2. ASSUME NEW p \in Pids, children'[p].state = "running"
        PROVE  p \in JobPids(jobs') \cup strayed'
    BY <1>8, <2>1, <2>2 DEF Aimed, InHand
  <2>3. CASE pc' = "undefined"
    <3>1. ~InForegroundStart' /\ pc' \notin Forking \cup {"wait"}
      BY <2>3 DEF InForegroundStart, Forking
    <3> QED  BY <2>2, <2>3, <3>1 DEF Sight, NoRunningChildLost
  <2>4. CASE pc' # "undefined"
    <3>1. /\ pc' = pc /\ pc \notin Forking \cup {"wait"} /\ pc \notin Quiet
          /\ foreground_cmd = pid /\ jobs' = Append(jobs, Last(jobs'))
      BY <1>1, <1>9, <2>1, <2>4 DEF InForegroundStart, Forking, Quiet
    <3>2. /\ pid \in Pids /\ children[pid].state # "unborn"
          /\ jobid \in JobIds(jobs) /\ jobs[PositionOf(jobs, jobid)].pid = pid
      BY <1>1, <1>9, <3>1 DEF Sight
    <3>3. \A p \in JobPids(jobs') : p \in Pids /\ children'[p].state # "unborn"
      BY <1>1, <1>6, <1>7, <3>1, <3>2 DEF Sight, Older, Born
    <3>4. jobid' \in JobIds(jobs') /\ jobs'[PositionOf(jobs', jobid')].pid = pid'
      <4>1. /\ jobid \in JobIds(jobs') /\ PositionOf(jobs', jobid) = PositionOf(jobs, jobid)
            /\ jobs'[PositionOf(jobs, jobid)] = jobs[PositionOf(jobs, jobid)]
        BY <1>2, <3>1, <3>2, AppendedKeeps
      <4> QED  BY <1>1, <3>2, <4>1
    <3>5. pid' \in Pids /\ children'[pid'].state # "unborn"
      BY <1>1, <1>7, <3>2 DEF Older, Born
    <3> QED  BY <2>2, <3>1, <3>3, <3>4, <3>5 DEF Sight, NoRunningChildLost
  <2> QED  BY <2>3, <2>4
<1>10. CASE ~InForegroundStart
  <2>1. pc' = pc /\ pc \notin Quiet \cup Forking
    BY <1>1, <1>2, <1>10 DEF Places
  <2>2. pc \in {"fg wait", "fg done", "wait", "settle"}
    BY <1>1, <1>10, <2>1 DEF ControlInv, TypeOK, Pcs, Quiet, Forking, InForegroundStart
  <2>3. foreground_cmd = pid /\ pid \in Pids /\ children[pid].state # "unborn"
    BY <1>2, <2>2 DEF Places, Sight, Quiet
  <2>4. \A p \in JobPids(jobs') : p \in Pids /\ children'[p].state # "unborn"
    BY <1>1, <1>6, <1>7, <2>3 DEF Sight, Older, Born
  <2>5. pid' \in Pids /\ children'[pid'].state # "unborn"
    BY <1>1, <1>7, <2>3 DEF Older, Born
  <2>6. ~InForegroundStart' /\ \A p \in Pids : InHand(p) => InHand(p)'
    BY <1>1, <1>10, <2>1 DEF InForegroundStart, InHand
  <2>7. NoRunningChildLost'
    BY <1>8, <2>6 DEF NoRunningChildLost
  <2>8. pid' \in JobPids(jobs')
    BY <1>1, <1>6, <2>3
  <2> QED  BY <2>4, <2>5, <2>6, <2>7, <2>8 DEF Sight
<1> QED  BY <1>9, <1>10

LEMMA ForkedPid ==
  ASSUME Unborn(children) # {}
  PROVE  Min(Unborn(children)) \in Unborn(children)
<1>1. Unborn(children) \subseteq Pids /\ \A p \in Pids : p \in Nat
  BY ChildrenAssumption DEF Unborn, Pids
<1>2. Unborn(children) \in SUBSET Nat
  BY <1>1
<1> QED  BY <1>2, MinOf

LEMMA StepSight ==
  ASSUME ControlInv, Sight, [Next]_vars
  PROVE  Sight'
<1> USE DEF shell, timing, foreground, regs, locals, stdio, mishaps, history, counters
<1>0. TypeOK /\ Places /\ children \in ChildTable /\ jobs \in Seq(JobEntry) /\ line \in Line
  BY DEF ControlInv, TypeOK
<1>r. Return => pc' \in Quiet
  BY <1>0, ReturnFacts DEF Quiet
<1>Q. {"prompt", "run", "pipe", "pipe, any", "any, pipe", "any, any", "any", "cleanup", "exited"}
        = Quiet
  BY DEF Quiet
<1>x. ASSUME NEW command, ExecuteCommand(command), pc \in Quiet, strayed' = strayed
      PROVE  Sight'
  <2>1. Tidied(jobs, children, jobs', children') /\ pc' \in Quiet
    BY <1>0, <1>x, <1>Q, ExecuteFacts
  <2> QED  BY <1>x, <2>1, QuietSight
<1>m. ASSUME NEW i \in DOMAIN jobs, NEW sig, Marks(i, sig), pc = "run", pc' \in Quiet,
             strayed' = strayed
      PROVE  Sight'
  <2>1. /\ Born(children, children') /\ JobPids(jobs') = JobPids(jobs)
        /\ \A p \in Pids : p # jobs[i].pid => children'[p] = children[p]
    BY <1>0, <1>m, MarksKeep
  <2>2. jobs[i].pid \in JobPids(jobs)
    BY DEF JobPids
  <2> QED  BY <1>m, <1>Q, <2>1, <2>2, QuietSight
<1>c. ASSUME pc \in Quiet \cup {"fg done", "settle"}, pc' \in Quiet, UNCHANGED <<children, jobs, strayed>>
      PROVE  Sight'
  BY <1>c, QuietSight
<1>1. ASSUME NEW typed \in Lines, ReadLine(typed) PROVE Sight'
  BY <1>1, <1>x, <1>Q DEF ReadLine
<1>2. CASE Builtin
  BY <1>2, <1>c, <1>r, <1>Q DEF Builtin, Running
<1>3. CASE PrintJobsList
  <2>1. Tidied(jobs, children, jobs', children')
    BY <1>0, <1>3, PrintFacts
  <2>2. pc \in Quiet /\ pc' \in Quiet /\ strayed' = strayed
    BY <1>3, <1>r, <1>Q DEF PrintJobsList, Running
  <2> QED  BY <2>1, <2>2, QuietSight
<1>4. CASE Quit
  <2>1. pc \in Quiet /\ pc' \in Quiet /\ strayed' = strayed
    BY <1>4, <1>Q DEF Quit, Running
  <2>2. CASE UNCHANGED <<children, jobs>>
    BY <1>c, <2>1, <2>2
  <2>3. CASE children' = KillAllJobs(jobs, children) /\ jobs' \in Sorted(jobs)
    <3>1. JobPids(jobs') = JobPids(jobs)
      <4>1. jobs' \in Seq(JobEntry) /\ Rearranged(jobs', jobs, DOMAIN jobs)
        BY <1>0, <2>3, SortedFacts
      <4>2. /\ \A m \in DOMAIN jobs' : \E i \in DOMAIN jobs : jobs'[m] = jobs[i]
            /\ \A i \in DOMAIN jobs : \E m \in DOMAIN jobs' : jobs'[m] = jobs[i]
        BY <1>0, <4>1, RearrangedFacts
      <4> QED  BY <4>2 DEF JobPids
    <3>2. Older(children, children')
      BY <1>0, <2>3, SignalledOlder DEF KillAllJobs
    <3> QED  BY <2>1, <3>1, <3>2, QuietSight DEF Older
  <2> QED  BY <1>4, <2>2, <2>3 DEF Quit
<1>5. CASE Pipe
  <2>1. pc' \in {"pipe", "any, pipe", "pipe, any", "any, any"}
    <3>1. PICK f \in {n \in 0 .. 2 : MayFail(n)} :
            pc' \in CASE f = 0 -> {"pipe"} [] f = 1 -> {"any, pipe", "pipe, any"}
                      [] f = 2 -> {"any, any"}
      BY <1>5 DEF Pipe
    <3>2. f = 0 \/ f = 1 \/ f = 2
      OBVIOUS
    <3> QED  BY <3>1, <3>2
  <2> QED  BY <1>5, <2>1, <1>c, <1>Q DEF Pipe, Running
<1>6. CASE PipeEnds
  <2>1. pc \in Quiet /\ pc' \in Quiet /\ UNCHANGED <<children, jobs, strayed>>
    BY <1>6, <1>r, <1>Q DEF PipeEnds
  <2> QED  BY <1>c, <2>1
<1>7. ASSUME NEW p \in Pids, PipeReaps(p) PROVE Sight'
  <2>1. pc \in Quiet /\ pc' \in Quiet /\ UNCHANGED <<jobs, strayed>>
    BY <1>7, <1>r, <1>Q DEF PipeReaps
  <2>2. Older(children, children')
    BY <1>0, <1>7, ReportedOlder DEF PipeReaps
  <2> QED  BY <2>1, <2>2, QuietSight DEF Older
<1>8. CASE PipeAlone
  BY <1>8, <1>c, <1>r, <1>Q DEF PipeAlone
<1>9. CASE NoJob
  BY <1>9, <1>c, <1>r, <1>Q DEF NoJob, Running
<1>10. ASSUME NEW i \in Chosen, NEW sig \in KillSignals, Kill(i, sig) PROVE Sight'
  <2>1. i \in DOMAIN jobs /\ pc = "run" /\ pc' \in Quiet /\ strayed' = strayed
    BY <1>10, <1>r DEF Chosen, Kill, Running
  <2> QED  BY <1>0, <1>10, <1>m, <2>1, MarksFacts
<1>11. ASSUME NEW i \in Chosen \cup LastStopped, Background(i) PROVE Sight'
  <2>1. i \in DOMAIN jobs /\ pc = "run" /\ pc' \in Quiet /\ strayed' = strayed
    BY <1>11, <1>r DEF Chosen, LastStopped, Background, Running
  <2> QED  BY <1>0, <1>11, <1>m, <2>1, MarksFacts
<1>12. ASSUME NEW i \in Chosen, ForegroundStart(i) PROVE Sight'
  <2>1. i \in DOMAIN jobs /\ i = PositionOf(jobs, jobs[i].job_id) /\ pc = "run"
        /\ strayed' = strayed
    BY <1>12 DEF Chosen, ForegroundStart, Running
  <2>2. Marks(i, "SIGCONT")
    BY <1>0, <1>12, <2>1, MarksFacts
  <2>3. CASE jobs[i].is_stopped /\ NoSuchChild(children, jobs[i].pid)
    BY <1>12, <1>m, <1>r, <2>1, <2>2, <2>3 DEF ForegroundStart
  <2>4. CASE ~ (jobs[i].is_stopped /\ NoSuchChild(children, jobs[i].pid))
    <3>1. pc' = "fg pid" /\ pid' = jobs[i].pid /\ jobid' = jobs[i].job_id
      BY <1>12, <2>4 DEF ForegroundStart
    <3>2. /\ Born(children, children')
          /\ JobPids(jobs') = JobPids(jobs) /\ JobIds(jobs') = JobIds(jobs)
          /\ \A id : PositionOf(jobs', id) = PositionOf(jobs, id)
          /\ \A j \in DOMAIN jobs : jobs'[j].job_id = jobs[j].job_id /\ jobs'[j].pid = jobs[j].pid
          /\ \A p \in Pids : p # jobs[i].pid => children'[p] = children[p]
      BY <1>0, <2>1, <2>2, MarksKeep
    <3>3. /\ jobs[i].pid \in JobPids(jobs) /\ jobs[i].job_id \in JobIds(jobs)
          /\ \A p \in JobPids(jobs) : p \in Pids /\ children[p].state # "unborn"
      BY <2>1 DEF JobPids, JobIds, Sight
    <3>4. \A p \in JobPids(jobs') : p \in Pids /\ children'[p].state # "unborn"
      BY <3>2, <3>3 DEF Born
    <3>5. jobid' \in JobIds(jobs') /\ jobs'[PositionOf(jobs', jobid')].pid = pid'
      <4>1. PositionOf(jobs', jobid') = i
        BY <2>1, <3>1, <3>2
      <4> QED  BY <2>1, <3>1, <3>2, <3>3, <4>1
    <3>6. NoRunningChildLost'
      <4>1. ASSUME NEW p \in Pids, children'[p].state = "running" PROVE p \in JobPids(jobs') \cup strayed'
        <5>1. ~InHand(p)
          BY <2>1 DEF InHand, InForegroundStart
        <5> QED  BY <2>1, <3>2, <3>3, <4>1, <5>1 DEF Sight, NoRunningChildLost
      <4> QED  BY <4>1 DEF NoRunningChildLost
    <3>7. pid' \in Pids /\ children'[pid'].state # "unborn" /\ pc' \notin Forking \cup {"wait"}
      BY <3>1, <3>2, <3>3, <3>4 DEF Forking
    <3> QED  BY <3>4, <3>5, <3>6, <3>7 DEF Sight
  <2> QED  BY <2>3, <2>4
<1>o. Older(children, children)
  BY DEF Older, Born
<1>13. CASE ForegroundPid
  <2>1. UNCHANGED <<jobs, pid, jobid, children, strayed>> /\ InForegroundStart /\ InForegroundStart'
    BY <1>13 DEF ForegroundPid, InForegroundStart
  <2> QED  BY <1>o, <2>1, SteadySight
<1>14. CASE ForegroundId
  <2>1. UNCHANGED <<jobs, pid, jobid, children, strayed>> /\ InForegroundStart /\ InForegroundStart'
    BY <1>14 DEF ForegroundId, InForegroundStart
  <2> QED  BY <1>o, <2>1, SteadySight
<1>15. CASE ForegroundRemove
  <2>1. /\ pc = "fg remove" /\ pc' = "fg wait" /\ UNCHANGED <<children, pid, jobid, strayed>>
        /\ jobs' = RemoveJobById(jobs, jobid)
    BY <1>15 DEF ForegroundRemove
  <2>2. /\ Thinned(jobs, jobs')
        /\ \A n \in DOMAIN jobs \ {PositionOf(jobs, jobid)} : \E m \in DOMAIN jobs' : jobs'[m] = jobs[n]
    <3>1. jobs' = RemoveJobById(jobs, jobid) /\ jobs \in Seq(JobEntry)
      BY <1>0, <2>1
    <3>2. /\ Thinned(jobs, jobs')
          /\ \A m \in DOMAIN jobs' : \E i \in DOMAIN jobs \ {PositionOf(jobs, jobid)} :
               jobs'[m] = jobs[i]
          /\ \A i \in DOMAIN jobs \ {PositionOf(jobs, jobid)} : \E m \in DOMAIN jobs' :
               jobs'[m] = jobs[i]
      BY <3>1, RemoveJobFacts
    <3> QED  BY <3>2
  <2>3. InForegroundStart /\ pid \in Pids /\ children[pid].state # "unborn"
        /\ jobs[PositionOf(jobs, jobid)].pid = pid
    BY <2>1 DEF Sight, InForegroundStart, Quiet
  <2>4. JobPids(jobs') \subseteq JobPids(jobs) /\ \A p \in JobPids(jobs) : p \in JobPids(jobs') \/ p = pid
    BY <2>2, <2>3 DEF Thinned, JobPids
  <2>5. \A p \in JobPids(jobs') : p \in Pids /\ children'[p].state # "unborn"
    BY <2>1, <2>4 DEF Sight
  <2>6. NoRunningChildLost'
    <3>1. ASSUME NEW p \in Pids, children'[p].state = "running"
          PROVE  p \in JobPids(jobs') \cup strayed' \/ InHand(p)'
      BY <2>1, <2>4, <3>1 DEF Sight, NoRunningChildLost, InHand
    <3> QED  BY <3>1 DEF NoRunningChildLost
  <2>7. ~InForegroundStart' /\ pc' \notin Forking \cup {"wait"}
    BY <2>1 DEF InForegroundStart, Forking
  <2> QED  BY <2>1, <2>3, <2>5, <2>6, <2>7 DEF Sight
<1>16. CASE ForegroundWait
  <2>1. /\ pc = "fg wait" /\ UNCHANGED <<jobs, pid, jobid, strayed>> /\ foreground_cmd = pid
        /\ children' = Reported(children, {pid})
        /\ pc' = IF Waitpid(children, pid) = "continued" THEN pc ELSE "fg done"
        /\ Waitpid(children, pid) # "none"
    BY <1>0, <1>16 DEF ForegroundWait, Places
  <2>2. Older(children, children')
    BY <1>0, <2>1, ReportedOlder
  <2>3. CASE pc' = pc
    BY <2>1, <2>2, <2>3, SteadySight
  <2>4. CASE pc' # pc
    <3>1. children[pid].state # "running"
      BY <2>1, <2>4 DEF Waitpid, NoSuchChild, Ended
    <3>2. pc' = "fg done" /\ pid \in Pids /\ children[pid].state # "unborn"
      BY <2>1, <2>4 DEF Sight, Quiet
    <3>3. NoRunningChildLost'
      <4>1. ASSUME NEW p \in Pids, children'[p].state = "running" PROVE p \in JobPids(jobs') \cup strayed'
        BY <2>1, <2>2, <3>1, <4>1 DEF Sight, NoRunningChildLost, InHand, Older
      <4> QED  BY <4>1 DEF NoRunningChildLost
    <3>4. \A p \in JobPids(jobs') : p \in Pids /\ children'[p].state # "unborn"
      BY <2>1, <2>2 DEF Sight, Older, Born
    <3>5. ~InForegroundStart' /\ pc' \notin Forking \cup {"wait"}
      BY <3>2 DEF InForegroundStart, Forking
    <3>6. pid' \in Pids /\ children'[pid'].state # "unborn"
      BY <2>1, <2>2, <3>2 DEF Older, Born
    <3> QED  BY <3>3, <3>4, <3>5, <3>6 DEF Sight
  <2> QED  BY <2>3, <2>4
<1>17. CASE ForegroundDone
  BY <1>17, <1>c, <1>r DEF ForegroundDone
<1>18. CASE Fork
  <2>1. /\ pc = "run" /\ pc' \in Forking /\ UNCHANGED <<jobs, strayed>>
        /\ children' = Forked(children, pid') /\ Unborn(children) # {} /\ pid' = Min(Unborn(children))
    BY <1>18 DEF Fork, External, Running, Forking
  <2>2. pid' \in Pids /\ children[pid'].state = "unborn"
    BY <2>1, ForkedPid DEF Unborn
  <2>3. /\ children'[pid'] = [state |-> "running", news |-> FALSE]
        /\ \A p \in Pids : p # pid' => children'[p] = children[p]
    BY <1>0, <2>1, <2>2 DEF Forked, ChildTable
  <2>4. \A p \in JobPids(jobs') : p \in Pids /\ children'[p].state # "unborn"
    BY <2>1, <2>3 DEF Sight
  <2>5. NoRunningChildLost'
    <3>1. ASSUME NEW p \in Pids, children'[p].state = "running"
          PROVE  p \in JobPids(jobs') \cup strayed' \/ InHand(p)'
      BY <2>1, <2>3, <3>1 DEF Sight, NoRunningChildLost, InHand, InForegroundStart, Forking
    <3> QED  BY <3>1 DEF NoRunningChildLost
  <2>6. ~InForegroundStart'
    BY <2>1 DEF InForegroundStart, Forking
  <2> QED  BY <2>2, <2>3, <2>4, <2>5, <2>6 DEF Sight
<1>19. CASE ForkFails
  BY <1>19, <1>c, <1>r, <1>Q DEF ForkFails, External, Running
<1>20. CASE ToBackground
  <2> DEFINE no == FALSE
  <2>1. /\ pc = "to background" /\ pc' \in Quiet /\ MoveToBackground(children, pid, no)
        /\ no \in BOOLEAN /\ strayed' = strayed
    BY <1>20, <1>r DEF ToBackground
  <2> HIDE DEF no
  <2>2. pid \in Pids /\ children[pid].state # "unborn"
    BY <2>1 DEF Sight, Quiet
  <2>3. PICK jt, id : Added(jobs, children, pid, no, foreground_jobid, jt, id, jobs', children')
    <3>1. foreground_jobid \in Nat \cup {-1} /\ pid \in Pids \cup {NoPid}
      BY <1>0, <2>2 DEF TypeOK
    <3> QED  BY <1>0, <2>1, <3>1, MoveFacts
  <2>4. /\ Older(children, children') /\ JobPids(jobs') = JobPids(jt) \cup {pid}
        /\ JobPids(jt) \subseteq JobPids(jobs)
        /\ \A q \in Pids : q \in JobPids(jobs) /\ children'[q].state = "running" => q \in JobPids(jobs')
    BY <1>0, <2>3, AddedKeeps
  <2>5. \A p \in JobPids(jobs') : p \in Pids /\ children'[p].state # "unborn"
    BY <2>1, <2>2, <2>4 DEF Sight, Older, Born
  <2>6. NoRunningChildLost'
    <3>1. ASSUME NEW p \in Pids, children'[p].state = "running" PROVE p \in JobPids(jobs') \cup strayed'
      BY <2>1, <2>4, <3>1 DEF Sight, NoRunningChildLost, InHand, Older
    <3> QED  BY <3>1 DEF NoRunningChildLost
  <2>7. ~InForegroundStart' /\ pc' \notin Forking \cup {"wait"}
    BY <2>1 DEF InForegroundStart, Forking, Quiet
  <2> QED  BY <2>1, <2>5, <2>6, <2>7 DEF Sight
<1>21. CASE ToForeground
  <2>1. pc = "to foreground" /\ pc' = "wait" /\ UNCHANGED <<children, jobs, pid, jobid, strayed>>
    BY <1>21 DEF ToForeground
  <2>2. NoRunningChildLost'
    <3>1. ASSUME NEW p \in Pids, children'[p].state = "running"
          PROVE  p \in JobPids(jobs') \cup strayed' \/ InHand(p)'
      BY <2>1, <3>1 DEF Sight, NoRunningChildLost, InHand, InForegroundStart
    <3> QED  BY <3>1 DEF NoRunningChildLost
  <2> QED  BY <2>1, <2>2 DEF Sight, InForegroundStart, Quiet, Forking
<1>22. CASE Wait
  <2>1. /\ pc = "wait" /\ pc' = "settle" /\ UNCHANGED <<jobs, pid, jobid, strayed>>
        /\ Waitpid(children, pid) # "none" /\ children' = Reported(children, {pid})
    BY <1>22 DEF Wait, EndsWait
  <2>2. pid \in Pids /\ children[pid].state # "unborn"
    BY <2>1 DEF Sight, Quiet
  <2>3. children[pid].state # "running" \/ pid \in JobPids(jobs) \cup strayed
    <3>1. children[pid].state = "running" =>
            ~children[pid].news \/ pid \in JobPids(jobs) \cup strayed
      BY <2>1 DEF Sight
    <3> QED  BY <2>1, <3>1 DEF Waitpid, NoSuchChild, Ended
  <2>4. Older(children, children')
    BY <1>0, <2>1, ReportedOlder
  <2>5. NoRunningChildLost'
    <3>1. ASSUME NEW p \in Pids, children'[p].state = "running" PROVE p \in JobPids(jobs') \cup strayed'
      BY <2>1, <2>3, <2>4, <3>1 DEF Sight, NoRunningChildLost, InHand, Older
    <3> QED  BY <3>1 DEF NoRunningChildLost
  <2>6. \A p \in JobPids(jobs') : p \in Pids /\ children'[p].state # "unborn"
    BY <2>1, <2>4 DEF Sight, Older, Born
  <2>7. ~InForegroundStart' /\ pc' \notin Forking \cup {"wait"}
    BY <2>1 DEF InForegroundStart, Forking
  <2>8. pid' \in Pids /\ children'[pid'].state # "unborn"
    BY <2>1, <2>2, <2>4 DEF Older, Born
  <2> QED  BY <2>5, <2>6, <2>7, <2>8 DEF Sight
<1>23. CASE Settle
  BY <1>23, <1>c, <1>r DEF Settle
<1>24. CASE SettleErased
  <2>1. pc = "settle" /\ pc' = "undefined" /\ UNCHANGED <<children, jobs, strayed>>
    BY <1>24 DEF SettleErased
  <2>2. NoRunningChildLost'
    <3>1. ASSUME NEW p \in Pids, children'[p].state = "running" PROVE p \in JobPids(jobs') \cup strayed'
      BY <2>1, <3>1 DEF Sight, NoRunningChildLost, InHand, InForegroundStart
    <3> QED  BY <3>1 DEF NoRunningChildLost
  <2> QED  BY <2>1, <2>2 DEF Sight, InForegroundStart, Quiet, Forking
<1>25. CASE Prepare
  BY <1>25, <1>x, <1>Q DEF Prepare
<1>26. CASE PrepareFails
  BY <1>26, <1>x, <1>Q DEF PrepareFails, PrepareStops
<1>27. CASE Cleanup
  BY <1>27, <1>c, <1>Q DEF Cleanup
<1>28. CASE Timeout
  BY <1>28, <1>x, <1>Q DEF Timeout
<1>29. CASE CtrlZ
  BY <1>29, CtrlZSight
<1>30. ASSUME NEW victims \in SUBSET Pids, CtrlC(victims) PROVE Sight'
  <2>1. UNCHANGED <<jobs, pid, jobid, strayed, pc>> /\ Older(children, children')
    BY <1>0, <1>30 DEF CtrlC, Older, Born
  <2> QED  BY <2>1, SteadySight
<1>31. CASE Alarm
  <2>1. UNCHANGED <<jobs, pid, jobid, strayed, pc>> /\ Older(children, children')
    BY <1>0, <1>31, AlarmFacts, RungOlder DEF Alarm
  <2> QED  BY <2>1, SteadySight
<1>32. ASSUME NEW p \in Pids, NEW how \in Ended, ChildEnds(p, how) PROVE Sight'
  <2>1. UNCHANGED <<jobs, pid, jobid, strayed, pc>> /\ Older(children, children')
    BY <1>0, <1>32 DEF ChildEnds, Older, Born, ChildTable, Ended
  <2> QED  BY <2>1, SteadySight
<1>33. ASSUME NEW p \in Pids, ChildStops(p) PROVE Sight'
  <2>1. UNCHANGED <<jobs, pid, jobid, strayed, pc>> /\ Older(children, children')
    BY <1>0, <1>33, SignalledOlder DEF ChildStops
  <2> QED  BY <2>1, SteadySight
<1>34. CASE Tick
  <2>1. UNCHANGED <<jobs, pid, jobid, strayed, pc, children>>
    BY <1>34 DEF Tick
  <2> QED  BY <1>o, <2>1, SteadySight
<1>35. CASE UNCHANGED vars
  <2>1. UNCHANGED <<jobs, pid, jobid, strayed, pc, children>>
    BY <1>35 DEF vars
  <2> QED  BY <1>o, <2>1, SteadySight
<1>36. CASE CleanupFails
  BY <1>36, <1>c, <1>Q DEF CleanupFails
<1>37. ASSUME NEW p \in Pids, NEW sig \in {"SIGCONT", "SIGKILL"}, Disturb(p, sig) PROVE Sight'
  <2>1. /\ UNCHANGED <<jobs, pid, jobid, pc>> /\ children' = Signalled(children, {p}, sig)
        /\ strayed \subseteq strayed' /\ p \in JobPids(jobs) \cup strayed'
    BY <1>37 DEF Disturb
  <2>2. Born(children, children') /\ \A q \in Pids : q # p => children'[q] = children[q]
    BY <1>0, <2>1, SignalledBorn, SignalledFacts
  <2>3. UNCHANGED <<JobPids(jobs), JobIds(jobs), InForegroundStart>>
    BY <2>1 DEF InForegroundStart
  <2>4. pc' # "undefined" => \A q \in JobPids(jobs') : q \in Pids /\ children'[q].state # "unborn"
    BY <2>1, <2>2, <2>3 DEF Sight, Born
  <2>5. pc' \notin Quiet \cup {"undefined"} => pid' \in Pids /\ children'[pid'].state # "unborn"
    BY <2>1, <2>2 DEF Sight, Born
  <2>6. InForegroundStart' =>
          jobid' \in JobIds(jobs') /\ jobs'[PositionOf(jobs', jobid')].pid = pid'
    BY <2>1, <2>3 DEF Sight
  <2>7. pc' \in Forking \cup {"wait"} /\ children'[pid'].state = "running" =>
          ~children'[pid'].news \/ pid' \in JobPids(jobs') \cup strayed'
    <3>1. pc \in Forking \cup {"wait"} => pid \in Pids
      BY DEF Sight, Forking, Quiet
    <3> QED  BY <2>1, <2>2, <2>3, <3>1 DEF Sight
  <2>8. NoRunningChildLost'
    <3>1. ASSUME NEW q \in Pids, children'[q].state = "running"
          PROVE  q \in JobPids(jobs') \cup strayed' \/ InHand(q)'
      BY <2>1, <2>2, <2>3, <3>1 DEF Sight, NoRunningChildLost, InHand
    <3> QED  BY <3>1 DEF NoRunningChildLost
  <2> QED  BY <2>4, <2>5, <2>6, <2>7, <2>8 DEF Sight
<1>38. CASE Main
  BY <1>38, <1>2, <1>3, <1>4, <1>5, <1>7, <1>8, <1>9, <1>10, <1>11, <1>12, <1>13, <1>14, <1>15,
     <1>16, <1>17, <1>18, <1>19, <1>20, <1>21, <1>22, <1>23, <1>24, <1>25, <1>26, <1>27, <1>28,
     <1>36
  DEF Main
<1>39. CASE Handlers
  BY <1>39, <1>29, <1>30, <1>31 DEF Handlers
<1>40. CASE Environment
  BY <1>40, <1>1, <1>6, <1>32, <1>33, <1>34, <1>37 DEF Environment
<1> QED  BY <1>38, <1>39, <1>40, <1>35 DEF Next

SightInv == ControlInv /\ Sight

\* Every running child is a job or in hand, whatever the order of its end, of the
\* signals, of the alarm and of the three callers of waitpid: but for one that had
\* been stopped and that somebody else has continued while it was no job.
THEOREM NothingLost == Spec => []NoRunningChildLost
<1>1. Init => SightInv
  BY InitControl, InitSight DEF SightInv
<1>2. SightInv /\ [Next]_vars => SightInv'
  BY StepControl, StepSight DEF SightInv
<1>3. SightInv => NoRunningChildLost
  BY DEF SightInv, Sight
<1> QED  BY <1>1, <1>2, <1>3, PTL DEF Spec

LEMMA OnlyQuitExits ==
  ASSUME TypeOK, [Next]_vars, pc' = "exited"
  PROVE  Quit \/ UNCHANGED vars
<1> SUFFICES ASSUME ~Quit, ~ UNCHANGED vars PROVE FALSE
  OBVIOUS
<1>r. ~Return
  <2>1. Return => pc' \in {"prompt", "cleanup"}
    BY ReturnFacts DEF TypeOK
  <2> QED  BY <2>1
<1>x. \A command : ~ExecuteCommand(command)
  BY DEF ExecuteCommand
<1>1. ~Pipe
  <2>1. SUFFICES ASSUME Pipe PROVE FALSE
    OBVIOUS
  <2>2. PICK f \in {n \in 0 .. 2 : MayFail(n)} :
          pc' \in CASE f = 0 -> {"pipe"} [] f = 1 -> {"any, pipe", "pipe, any"}
                    [] f = 2 -> {"any, any"}
    BY <2>1 DEF Pipe
  <2>3. f = 0 \/ f = 1 \/ f = 2
    OBVIOUS
  <2> QED  BY <2>2, <2>3
<1>2. ~Builtin /\ ~PrintJobsList /\ ~NoJob /\ ~PipeAlone /\ ~PipeEnds
  BY <1>r DEF Builtin, PrintJobsList, NoJob, PipeAlone, PipeEnds
<1>3. \A p \in Pids : ~PipeReaps(p)
  BY <1>r DEF PipeReaps
<1>4. /\ \A i \in Chosen : ~ForegroundStart(i) /\ \A sig \in KillSignals : ~Kill(i, sig)
      /\ \A i \in Chosen \cup LastStopped : ~Background(i)
  BY <1>r DEF Kill, Background, ForegroundStart
<1>5. ~ForegroundPid /\ ~ForegroundId /\ ~ForegroundRemove /\ ~ForegroundWait /\ ~ForegroundDone
  BY <1>r DEF ForegroundPid, ForegroundId, ForegroundRemove, ForegroundWait, ForegroundDone
<1>6. ~Fork /\ ~ForkFails /\ ~ToBackground /\ ~ToForeground
  BY <1>r DEF Fork, ForkFails, ToBackground, ToForeground
<1>7. ~Wait /\ ~Settle /\ ~SettleErased
  BY <1>r DEF Wait, Settle, SettleErased
<1>8. /\ ~Prepare /\ ~PrepareFails /\ ~Cleanup /\ ~CleanupFails /\ ~Timeout
      /\ \A typed \in Lines : ~ReadLine(typed)
  BY <1>x DEF Prepare, PrepareFails, Cleanup, CleanupFails, Timeout, ReadLine
<1>9. ~CtrlZ /\ ~Alarm /\ ~Tick /\ \A victims \in SUBSET Pids : ~CtrlC(victims)
  BY DEF CtrlZ, Alarm, Tick, CtrlC, Over
<1>10. \A p \in Pids : /\ ~ChildStops(p) /\ \A how \in Ended : ~ChildEnds(p, how)
                       /\ \A sig \in {"SIGCONT", "SIGKILL"} : ~Disturb(p, sig)
  BY DEF ChildStops, ChildEnds, Disturb, Over
<1> QED
  BY <1>1, <1>2, <1>3, <1>4, <1>5, <1>6, <1>7, <1>8, <1>9, <1>10
  DEF Next, Main, Handlers, Environment

\* "quit kill" leaves no job running or stopped, whatever stale entries make some of
\* its kill calls fail, and no other child running but one that had been stopped and
\* that somebody else has continued (killAllJobs).
THEOREM QuitKills == Spec => []QuitKillsAll
<1>1. Init => SightInv /\ QuitKillsAll
  BY InitControl, InitSight DEF SightInv, Init, QuitKillsAll
<1>2. ASSUME SightInv, QuitKillsAll, [Next]_vars PROVE QuitKillsAll'
  <2>1. SUFFICES ASSUME pc' = "exited", line'.verb = "quit kill"
                 PROVE  /\ \A p \in JobPids(jobs') : children'[p].state \notin Alive
                        /\ \A p \in Pids : children'[p].state = "running" => p \in strayed'
    BY DEF QuitKillsAll
  <2>2. TypeOK /\ children \in ChildTable /\ jobs \in Seq(JobEntry)
    BY <1>2 DEF SightInv, ControlInv, TypeOK
  <2>3. CASE UNCHANGED vars
    <3>1. UNCHANGED <<pc, line, children, jobs, strayed>>
      BY <2>3 DEF vars, locals, shell, history, mishaps
    <3> QED  BY <1>2, <2>1, <3>1 DEF QuitKillsAll
  <2>4. CASE Quit
    <3>1. /\ pc = "run" /\ line' = line /\ jobs' \in Sorted(jobs) /\ strayed' = strayed
          /\ children' = Signalled(children, JobPids(jobs), "SIGKILL")
      BY <2>1, <2>4 DEF Quit, Running, KillAllJobs, locals, history, mishaps
    <3>2. \A p \in Pids : children[p].state = "running" => p \in JobPids(jobs) \cup strayed
      BY <1>2, <3>1 DEF SightInv, Sight, NoRunningChildLost, InHand, InForegroundStart
    <3>3. \A p \in JobPids(jobs) : p \in Pids
      BY <1>2, <3>1 DEF SightInv, Sight
    <3>4. \A s \in ChildState : After(s, "SIGKILL") \notin Alive
      BY DEF After, ChildState, Alive, Ended
    <3>5. \A p \in Pids : children[p].state \in ChildState
      BY <2>2 DEF ChildTable
    <3>6. \A p \in Pids : /\ p \notin JobPids(jobs) => children'[p] = children[p]
                          /\ p \in JobPids(jobs) => children'[p].state = After(children[p].state, "SIGKILL")
      BY <2>2, <3>1, SignalledFacts
    <3>7. \A p \in JobPids(jobs) : children'[p].state \notin Alive
      BY <3>3, <3>4, <3>5, <3>6
    <3>8. JobPids(jobs') \subseteq JobPids(jobs)
      <4>1. jobs' \in Seq(JobEntry) /\ Rearranged(jobs', jobs, DOMAIN jobs)
        BY <2>2, <3>1, SortedFacts
      <4>2. \A m \in DOMAIN jobs' : \E i \in DOMAIN jobs : jobs'[m] = jobs[i]
        BY <2>2, <4>1, RearrangedFacts
      <4> QED  BY <4>2 DEF JobPids
    <3> QED  BY <3>1, <3>2, <3>6, <3>7, <3>8 DEF Alive
  <2> QED  BY <1>2, <2>1, <2>2, <2>3, <2>4, OnlyQuitExits
<1>3. SightInv /\ [Next]_vars => SightInv'
  BY StepControl, StepSight DEF SightInv
<1> QED  BY <1>1, <1>2, <1>3, PTL DEF Spec

-----------------------------------------------------------------------------
(* The alarm handler kills no command before its time.                     *)

\* An entry's start is when its child was forked.
Timers ==
  /\ \A i \in DOMAIN timed_cmds :
       /\ timed_cmds[i].pid \in ever_timed \cup {NoPid}
       /\ timed_cmds[i].pid \in Pids => timed_cmds[i].start = born[timed_cmds[i].pid]
  /\ time_this.time_this /\ time_this.pid \in Pids => time_this.start = born[time_this.pid]

\* No record is kept of a child before its fork.
Unseen ==
  \A p \in Pids :
    children[p].state = "unborn" => given[p] = 0 /\ p \notin ever_timed /\ time_this.pid # p

\* A child that has just been forked is no job, has never been, and cannot be reaped.
Fresh ==
  pc \in Forking =>
    given[pid] = 0 /\ pid \notin JobPids(jobs) /\ pid \notin ever_timed /\ children[pid].state # "gone"

Timed == Timers /\ Unseen /\ Fresh

LEMMA NoPidFact == NoPid \notin Pids /\ Nullptr \notin Pids
BY DEF NoPid, Pids, Nullptr

LEMMA InitTimed == Init => Timed
<1> SUFFICES ASSUME Init PROVE Timed
  OBVIOUS
<1>1. timed_cmds = <<>> /\ time_this = Untimed /\ pc = "prompt" /\ ever_timed = {}
      /\ given = [p \in Pids |-> 0]
  BY DEF Init
<1>2. DOMAIN timed_cmds = {}
  BY <1>1
<1>3. Timers
  BY <1>1, <1>2 DEF Timers, Untimed
<1>4. Unseen /\ Fresh
  BY <1>1, NoPidFact DEF Unseen, Fresh, Forking, Untimed
<1> QED  BY <1>3, <1>4 DEF Timed

\* timeThis, for steps after which main is not about to file a child.
LEMMA TimeThisTimed ==
  ASSUME ControlInv, Timed, TimeThis, born' = born, pc' \notin Forking,
         Born(children, children'),
         \A p \in Pids : children'[p].state = "unborn" => given'[p] = given[p]
  PROVE  Timed'
<1>1. Fresh'
  BY DEF Fresh
<1>2. Unseen'
  <2>1. SUFFICES ASSUME NEW p \in Pids, children'[p].state = "unborn"
                 PROVE  given'[p] = 0 /\ p \notin ever_timed' /\ time_this'.pid # p
    BY DEF Unseen
  <2>2. given'[p] = 0 /\ p \notin ever_timed /\ time_this.pid # p
    BY <2>1 DEF Timed, Unseen, Born
  <2> QED  BY <2>2, NoPidFact DEF TimeThis, Untimed
<1>3. Timers'
  <2>1. CASE ~time_this.time_this
    <3>1. UNCHANGED <<timed_cmds, time_this, ever_timed>>
      BY <2>1 DEF TimeThis
    <3> QED  BY <3>1 DEF Timed, Timers
  <2>2. CASE time_this.time_this
    <3> DEFINE e == [pid |-> time_this.pid, start |-> time_this.start, limit |-> time_this.limit]
    <3>1. /\ timed_cmds' = Append(timed_cmds, e) /\ time_this' = Untimed
          /\ ever_timed' = ever_timed \cup {time_this.pid}
      BY <2>2 DEF TimeThis
    <3>2. timed_cmds \in Seq(TimedCmd)
      BY DEF ControlInv, TypeOK, TimedCmd
    <3>3. e.pid = time_this.pid /\ e.start = time_this.start
      OBVIOUS
    <3> HIDE DEF e
    <3>4. \A i \in DOMAIN timed_cmds' : timed_cmds'[i] = e \/ (i \in DOMAIN timed_cmds /\ timed_cmds'[i] = timed_cmds[i])
      BY <3>1, <3>2
    <3>5. time_this'.time_this = FALSE
      BY <3>1 DEF Untimed
    <3> QED  BY <2>2, <3>1, <3>3, <3>4, <3>5 DEF Timed, Timers
  <2> QED  BY <2>1, <2>2
<1> QED  BY <1>1, <1>2, <1>3 DEF Timed

\* Steps that leave the records alone.
LEMMA CalmTimed ==
  ASSUME Timed, UNCHANGED <<given, ever_timed, time_this, timed_cmds, born>>,
         Born(children, children'),
         \/ pc' \notin Forking
         \/ /\ UNCHANGED <<pc, pid, jobs>>
            /\ pc \in Forking /\ children'[pid].state = "gone" => children[pid].state = "gone"
  PROVE  Timed'
<1>1. Timers'
  BY DEF Timed, Timers
<1>2. Unseen'
  BY DEF Timed, Unseen, Born
<1>3. Fresh'
  BY DEF Timed, Fresh
<1> QED  BY <1>1, <1>2, <1>3 DEF Timed

LEMMA TidiedBorn ==
  ASSUME TypeOK, Tidied(jobs, children, jobs', children')
  PROVE  Born(children, children')
BY TidiedKeeps DEF TypeOK, Older

LEMMA MovedTimed ==
  ASSUME ControlInv, Timed, NEW k \in ChildTable, Born(children, k),
         NEW p \in Pids \cup {NoPid}, NEW stopped \in BOOLEAN, MoveToBackground(k, p, stopped),
         p \in Pids => children[p].state # "unborn", born' = born, pc' \notin Forking
  PROVE  Timed'
<1>1. jobs \in Seq(JobEntry) /\ foreground_jobid \in Nat \cup {-1}
  BY DEF ControlInv, TypeOK
<1>2. PICK jt, id :
        /\ Added(jobs, k, p, stopped, foreground_jobid, jt, id, jobs', children')
        /\ given' = [q \in Pids |-> IF q = p /\ given[q] = 0 THEN id ELSE given[q]]
  BY <1>1, MoveFacts
<1>3. Older(k, children')
  BY <1>1, <1>2, AddedKeeps
<1>4. Born(children, children')
  BY <1>3 DEF Older, Born
<1>5. \A q \in Pids : children'[q].state = "unborn" => given'[q] = given[q]
  BY <1>2, <1>4 DEF Born
<1>6. TimeThis
  BY DEF MoveToBackground
<1> QED  BY <1>4, <1>5, <1>6, TimeThisTimed

LEMMA StepTimed ==
  ASSUME SightInv, Timed, [Next]_vars
  PROVE  Timed'
<1> USE DEF shell, timing, foreground, regs, locals, stdio, mishaps, history, counters
<1>0. /\ TypeOK /\ ControlInv /\ Sight /\ Places
      /\ children \in ChildTable /\ jobs \in Seq(JobEntry) /\ line \in Line
  BY DEF SightInv, ControlInv, TypeOK
<1> DEFINE Idle == UNCHANGED <<given, ever_timed, time_this, timed_cmds, born>>
<1>b. Born(children, children)
  BY DEF Born
<1>r. Return => pc' \notin Forking
  BY <1>0, ReturnFacts DEF Forking
<1>x. ASSUME NEW command, ExecuteCommand(command) PROVE Born(children, children') /\ pc' \notin Forking
  BY <1>0, <1>x, ExecuteFacts, TidiedBorn DEF Forking
<1>i. ASSUME Idle, Born(children, children'), pc' \notin Forking PROVE Timed'
  BY <1>0, <1>i, CalmTimed
<1>s. ASSUME Idle, Born(children, children'), UNCHANGED <<pc, pid, jobs>>,
             \A p \in Pids : children'[p].state = "gone" => children[p].state = "gone"
      PROVE  Timed'
  <2>1. pc \in Forking => pid \in Pids
    BY <1>0 DEF Sight, Quiet, Forking
  <2> QED  BY <1>0, <1>s, <2>1, CalmTimed
<1>m. ASSUME NEW i \in DOMAIN jobs, NEW sig, Marks(i, sig) PROVE Born(children, children')
  BY <1>0, <1>m, MarksKeep
<1>1. ASSUME NEW typed \in Lines, ReadLine(typed) PROVE Timed'
  BY <1>1, <1>x, <1>i DEF ReadLine
<1>2. CASE Builtin
  BY <1>2, <1>b, <1>i, <1>r DEF Builtin
<1>3. CASE PrintJobsList
  BY <1>0, <1>3, <1>i, <1>r, PrintFacts, TidiedBorn DEF PrintJobsList
<1>4. CASE Quit
  <2>1. Born(children, children')
    BY <1>0, <1>4, <1>b, SignalledBorn DEF Quit, KillAllJobs
  <2> QED  BY <1>4, <2>1, <1>i DEF Quit, Forking
<1>5. CASE Pipe
  <2>1. pc' \notin Forking
    <3>1. PICK f \in {n \in 0 .. 2 : MayFail(n)} :
            pc' \in CASE f = 0 -> {"pipe"} [] f = 1 -> {"any, pipe", "pipe, any"}
                      [] f = 2 -> {"any, any"}
      BY <1>5 DEF Pipe
    <3>2. f = 0 \/ f = 1 \/ f = 2
      OBVIOUS
    <3> QED  BY <3>1, <3>2 DEF Forking
  <2> QED  BY <1>5, <2>1, <1>b, <1>i DEF Pipe
<1>6. CASE PipeEnds
  BY <1>6, <1>b, <1>i, <1>r DEF PipeEnds, Forking
<1>7. ASSUME NEW p \in Pids, PipeReaps(p) PROVE Timed'
  <2>1. Born(children, children')
    BY <1>0, <1>7, ReportedOlder DEF PipeReaps, Older
  <2>2. pc' \notin Forking
    BY <1>7, <1>r DEF PipeReaps, Forking
  <2> QED  BY <1>7, <2>1, <2>2, <1>i DEF PipeReaps
<1>8. CASE PipeAlone
  BY <1>8, <1>b, <1>i, <1>r DEF PipeAlone
<1>9. CASE NoJob
  BY <1>9, <1>b, <1>i, <1>r DEF NoJob
<1>10. ASSUME NEW i \in Chosen, NEW sig \in KillSignals, Kill(i, sig) PROVE Timed'
  <2>1. i \in DOMAIN jobs
    BY DEF Chosen
  <2>2. Born(children, children')
    BY <1>0, <1>10, <1>m, <2>1, MarksFacts
  <2> QED  BY <1>10, <2>2, <1>i, <1>r DEF Kill
<1>11. ASSUME NEW i \in Chosen \cup LastStopped, Background(i) PROVE Timed'
  <2>1. i \in DOMAIN jobs
    BY DEF Chosen, LastStopped
  <2>2. Born(children, children')
    BY <1>0, <1>11, <1>m, <2>1, MarksFacts
  <2> QED  BY <1>11, <2>2, <1>i, <1>r DEF Background
<1>12. ASSUME NEW i \in Chosen, ForegroundStart(i) PROVE Timed'
  <2>1. i \in DOMAIN jobs
    BY DEF Chosen
  <2>2. Born(children, children')
    BY <1>0, <1>12, <1>m, <2>1, MarksFacts
  <2>3. pc' \notin Forking
    BY <1>12, <1>r DEF ForegroundStart, Forking
  <2> QED  BY <1>12, <2>2, <2>3, <1>i DEF ForegroundStart
<1>13. CASE ForegroundPid
  BY <1>13, <1>b, <1>i DEF ForegroundPid, Forking
<1>14. CASE ForegroundId
  BY <1>14, <1>b, <1>i DEF ForegroundId, Forking
<1>15. CASE ForegroundRemove
  BY <1>15, <1>b, <1>i DEF ForegroundRemove, Forking
<1>16. CASE ForegroundWait
  <2>1. Born(children, children')
    BY <1>0, <1>16, ReportedOlder DEF ForegroundWait, Older
  <2> QED  BY <1>16, <2>1, <1>i DEF ForegroundWait, Forking
<1>17. CASE ForegroundDone
  BY <1>17, <1>b, <1>i, <1>r DEF ForegroundDone
<1>18. CASE Fork
  <2>1. /\ pc' \in Forking /\ jobs' = jobs /\ pc = "run"
        /\ children' = Forked(children, pid') /\ Unborn(children) # {} /\ pid' = Min(Unborn(children))
        /\ born' = [born EXCEPT ![pid'] = now]
        /\ time_this' = IF time_this.time_this THEN StampedFor(pid') ELSE time_this
        /\ UNCHANGED <<timed_cmds, given, ever_timed>>
    BY <1>18 DEF Fork, External, Running, Forking
  <2>2. pid' \in Pids /\ children[pid'].state = "unborn"
    BY <2>1, ForkedPid DEF Unborn
  <2>3. /\ children'[pid'].state = "running"
        /\ \A p \in Pids : p # pid' => children'[p] = children[p]
    BY <1>0, <2>1, <2>2 DEF Forked, ChildTable
  <2>4. born \in [Pids -> Int]
    BY <1>0 DEF TypeOK
  <2>5. born'[pid'] = now /\ \A p \in Pids : p # pid' => born'[p] = born[p]
    BY <2>1, <2>2, <2>4
  <2>6. given[pid'] = 0 /\ pid' \notin ever_timed /\ time_this.pid # pid'
    BY <1>0, <2>2 DEF Timed, Unseen
  <2>7. /\ time_this'.time_this => time_this.time_this /\ time_this'.pid = pid' /\ time_this'.start = now
        /\ \A p \in Pids : p # pid' /\ time_this.pid # p => time_this'.pid # p
    BY <1>0, <2>1 DEF StampedFor, TypeOK
  <2>8. Timers'
    <3>1. ASSUME NEW i \in DOMAIN timed_cmds
          PROVE  /\ timed_cmds[i].pid \in ever_timed \cup {NoPid}
                 /\ timed_cmds[i].pid \in Pids => timed_cmds[i].start = born'[timed_cmds[i].pid]
      BY <2>5, <2>6, NoPidFact, <2>2 DEF Timed, Timers
    <3> QED  BY <2>1, <2>5, <2>7, <3>1 DEF Timers
  <2>9. Unseen'
    <3>1. ASSUME NEW p \in Pids, children'[p].state = "unborn"
          PROVE  given[p] = 0 /\ p \notin ever_timed /\ time_this'.pid # p
      BY <2>3, <2>7, <3>1 DEF Timed, Unseen
    <3> QED  BY <2>1, <3>1 DEF Unseen
  <2>10. Fresh'
    BY <1>0, <2>1, <2>2, <2>3, <2>6 DEF Fresh, Sight
  <2> QED  BY <2>8, <2>9, <2>10 DEF Timed
<1>19. CASE ForkFails
  BY <1>19, <1>b, <1>i, <1>r DEF ForkFails
<1>20. CASE ToBackground
  <2> DEFINE no == FALSE
  <2>1. /\ pc = "to background" /\ Return /\ MoveToBackground(children, pid, no) /\ no \in BOOLEAN
        /\ born' = born
    BY <1>20 DEF ToBackground
  <2> HIDE DEF no
  <2>2. pid \in Pids /\ children[pid].state # "unborn"
    BY <1>0, <2>1 DEF Sight, Quiet
  <2> QED  BY <1>0, <1>b, <1>r, <2>1, <2>2, MovedTimed
<1>21. CASE ToForeground
  <2>1. TimeThis /\ UNCHANGED <<given, born, children>> /\ pc' \notin Forking
    BY <1>21 DEF ToForeground, Forking
  <2> QED  BY <1>0, <1>b, <2>1, TimeThisTimed
<1>22. CASE Wait
  <2>1. Born(children, children')
    BY <1>0, <1>22, ReportedOlder DEF Wait, Older
  <2> QED  BY <1>22, <2>1, <1>i DEF Wait, Forking
<1>23. CASE Settle
  <2>1. UNCHANGED <<given, ever_timed, time_this, born, children>> /\ pc' \notin Forking
    BY <1>23, <1>r DEF Settle
  <2>2. \/ timed_cmds' = timed_cmds
        \/ timed_cmds' = [i \in DOMAIN timed_cmds |->
                           IF timed_cmds[i].pid = pid THEN [timed_cmds[i] EXCEPT !.pid = NoPid]
                           ELSE timed_cmds[i]]
    BY <1>23 DEF Settle
  <2>3. DOMAIN timed_cmds' = DOMAIN timed_cmds
        /\ \A i \in DOMAIN timed_cmds : timed_cmds'[i] = timed_cmds[i] \/ timed_cmds'[i].pid = NoPid
    <3>1. timed_cmds \in Seq(TimedCmd)
      BY <1>0 DEF TypeOK, TimedCmd
    <3>2. \A i \in DOMAIN timed_cmds : [timed_cmds[i] EXCEPT !.pid = NoPid].pid = NoPid
      <4>1. \A i \in DOMAIN timed_cmds : timed_cmds[i] \in TimedCmd
        BY <3>1, LenProperties, ElementOfSeq
      <4> QED  BY <4>1 DEF TimedCmd
    <3> QED  BY <2>2, <3>2
  <2>4. Timers'
    BY <2>1, <2>3, NoPidFact DEF Timed, Timers
  <2>5. Unseen' /\ Fresh'
    BY <2>1 DEF Timed, Unseen, Fresh
  <2> QED  BY <2>4, <2>5 DEF Timed
<1>24. CASE SettleErased
  BY <1>24, <1>b, <1>i DEF SettleErased, Forking
<1>25. CASE Prepare
  BY <1>25, <1>x, <1>i DEF Prepare
<1>26. CASE PrepareFails
  BY <1>26, <1>x, <1>i DEF PrepareFails
<1>27. CASE Cleanup
  BY <1>27, <1>b, <1>i DEF Cleanup, Forking
<1>28. CASE Timeout
  <2>1. /\ UNCHANGED <<timed_cmds, given, ever_timed, born>> /\ time_this'.pid = NoPid
        /\ ExecuteCommand([line EXCEPT !.timeout = NoTimeout])
    BY <1>28 DEF Timeout
  <2>2. Born(children, children') /\ pc' \notin Forking
    BY <1>x, <2>1
  <2>3. Timers'
    BY <2>1, NoPidFact DEF Timed, Timers
  <2>4. Unseen' /\ Fresh'
    BY <2>1, <2>2, NoPidFact DEF Timed, Unseen, Fresh, Born
  <2> QED  BY <2>3, <2>4 DEF Timed
<1>29. CASE CtrlZ
  <2> DEFINE k == Signalled(children, Aimed(foreground_cmd), "SIGSTOP")
             yes == TRUE
  <2>1. /\ MoveToBackground(k, foreground_cmd, yes) /\ yes \in BOOLEAN /\ born' = born
        /\ foreground_cmd # Nullptr /\ pc # "undefined"
    BY <1>29 DEF CtrlZ, Over
  <2>2. k \in ChildTable /\ Born(children, k)
    BY <1>0, SignalledFacts, SignalledBorn
  <2>3. pc \notin Quiet \cup Forking /\ pc' \notin Forking
    BY <1>0, <1>29, <2>1 DEF Places, CtrlZ, Forking
  <2>4. foreground_cmd \in Pids \cup {NoPid}
    BY <1>0, <2>1 DEF TypeOK
  <2>5. foreground_cmd \in Pids => children[foreground_cmd].state # "unborn"
    <3>1. pc \in {"fg pid", "fg id", "fg remove", "fg wait", "fg done", "wait", "settle"}
      BY <1>0, <2>1, <2>3 DEF TypeOK, Pcs, Quiet, Forking
    <3>2. foreground_cmd \in {pid, NoPid}
      BY <1>0, <3>1 DEF Places
    <3> QED  BY <1>0, <2>1, <2>3, <3>2, NoPidFact DEF Sight
  <2> HIDE DEF k, yes
  <2> QED  BY <1>0, <2>1, <2>2, <2>3, <2>4, <2>5, MovedTimed
<1>30. ASSUME NEW victims \in SUBSET Pids, CtrlC(victims) PROVE Timed'
  <2>1. \A p \in Pids : children'[p] = children[p] \/ children'[p].state = "exited"
    BY <1>30 DEF CtrlC
  <2>2. Born(children, children') /\ \A p \in Pids : children'[p].state = "gone" => children[p].state = "gone"
    BY <2>1 DEF Born
  <2> QED  BY <1>30, <2>2, <1>s DEF CtrlC
<1>31. CASE Alarm
  <2>1. /\ UNCHANGED <<given, ever_timed, time_this, born, jobs, pc, pid>> /\ Rung
    BY <1>0, <1>31, AlarmFacts DEF Alarm
  <2>2. Born(children, children')
    BY <1>0, <2>1, RungOlder DEF Older
  <2>3. Timers'
    BY <2>1 DEF Timed, Timers, Rung
  <2>4. Unseen'
    BY <2>1, <2>2 DEF Timed, Unseen, Born
  <2>5. Fresh'
    <3>1. SUFFICES ASSUME pc \in Forking PROVE children'[pid].state # "gone"
      BY <2>1 DEF Timed, Fresh
    <3>2. pid \in Pids /\ pid \notin ever_timed /\ children[pid].state # "gone"
      BY <1>0, <3>1 DEF Sight, Quiet, Forking, Timed, Fresh
    <3>3. \A i \in DOMAIN timed_cmds : timed_cmds[i].pid # pid
      BY <3>2, NoPidFact DEF Timed, Timers
    <3> QED  BY <2>1, <3>2, <3>3 DEF Rung
  <2> QED  BY <2>3, <2>4, <2>5 DEF Timed
<1>32. ASSUME NEW p \in Pids, NEW how \in Ended, ChildEnds(p, how) PROVE Timed'
  <2>1. \A q \in Pids : children'[q] = children[q] \/ children'[q].state = how
    BY <1>0, <1>32 DEF ChildEnds, ChildTable
  <2>2. Born(children, children') /\ \A q \in Pids : children'[q].state = "gone" => children[q].state = "gone"
    BY <2>1 DEF Born, Ended
  <2> QED  BY <1>32, <2>2, <1>s DEF ChildEnds
<1>33. ASSUME NEW p \in Pids, ChildStops(p) PROVE Timed'
  <2>1. Born(children, children')
    BY <1>0, <1>33, SignalledBorn DEF ChildStops
  <2>2. \A s \in ChildState : After(s, "SIGTSTP") = "gone" => s = "gone"
    BY DEF After
  <2>3. \A q \in Pids : children'[q].state = "gone" => children[q].state = "gone"
    <3>1. \A q \in Pids : children'[q] = children[q] \/ children'[q].state = After(children[q].state, "SIGTSTP")
      BY <1>0, <1>33, SignalledFacts DEF ChildStops
    <3>2. \A q \in Pids : children[q].state \in ChildState
      BY <1>0 DEF ChildTable
    <3> QED  BY <2>2, <3>1, <3>2
  <2> QED  BY <1>33, <2>1, <2>3, <1>s DEF ChildStops
<1>34. CASE Tick
  BY <1>34, <1>b, <1>s DEF Tick
<1>35. CASE UNCHANGED vars
  BY <1>35, <1>b, <1>s DEF vars
<1>36. CASE CleanupFails
  BY <1>36, <1>b, <1>i DEF CleanupFails, Forking
<1>37. ASSUME NEW p \in Pids, NEW sig \in {"SIGCONT", "SIGKILL"}, Disturb(p, sig) PROVE Timed'
  <2>1. Born(children, children')
    BY <1>0, <1>37, SignalledBorn DEF Disturb
  <2>2. \A s \in ChildState : After(s, sig) = "gone" => s = "gone"
    BY DEF After
  <2>3. \A q \in Pids : children'[q].state = "gone" => children[q].state = "gone"
    <3>1. \A q \in Pids : children'[q] = children[q] \/ children'[q].state = After(children[q].state, sig)
      BY <1>0, <1>37, SignalledFacts DEF Disturb
    <3>2. \A q \in Pids : children[q].state \in ChildState
      BY <1>0 DEF ChildTable
    <3> QED  BY <2>2, <3>1, <3>2
  <2> QED  BY <1>37, <2>1, <2>3, <1>s DEF Disturb
<1>38. CASE Main
  BY <1>38, <1>2, <1>3, <1>4, <1>5, <1>7, <1>8, <1>9, <1>10, <1>11, <1>12, <1>13, <1>14, <1>15,
     <1>16, <1>17, <1>18, <1>19, <1>20, <1>21, <1>22, <1>23, <1>24, <1>25, <1>26, <1>27, <1>28,
     <1>36
  DEF Main
<1>39. CASE Handlers
  BY <1>39, <1>29, <1>30, <1>31 DEF Handlers
<1>40. CASE Environment
  BY <1>40, <1>1, <1>6, <1>32, <1>33, <1>34, <1>37 DEF Environment
<1> QED  BY <1>38, <1>39, <1>40, <1>35 DEF Next

LEMMA AlarmChanges ==
  ASSUME [Next]_vars, alarm' # alarm
  PROVE  Alarm \/ Timeout
<1> USE DEF timing, shell
<1> SUFFICES ASSUME ~Alarm, ~Timeout PROVE FALSE
  OBVIOUS
<1>1. ~Builtin /\ ~PrintJobsList /\ ~Quit /\ ~Pipe /\ ~NoJob /\ ~PipeAlone /\ ~PipeEnds
  BY DEF Builtin, PrintJobsList, Quit, Pipe, NoJob, PipeAlone, PipeEnds
<1>2. /\ \A i \in Chosen : ~ForegroundStart(i) /\ \A sig \in KillSignals : ~Kill(i, sig)
      /\ \A i \in Chosen \cup LastStopped : ~Background(i)
  BY DEF Kill, Background, ForegroundStart
<1>3. ~ForegroundPid /\ ~ForegroundId /\ ~ForegroundRemove /\ ~ForegroundWait /\ ~ForegroundDone
  BY DEF ForegroundPid, ForegroundId, ForegroundRemove, ForegroundWait, ForegroundDone
<1>4. ~Fork /\ ~ForkFails /\ ~ToBackground /\ ~ToForeground /\ ~Wait /\ ~Settle /\ ~SettleErased
  BY DEF Fork, ForkFails, ToBackground, ToForeground, Wait, Settle, SettleErased
<1>5. ~Prepare /\ ~PrepareFails /\ ~Cleanup /\ ~CleanupFails /\ ~CtrlZ /\ ~Tick
  BY DEF Prepare, PrepareFails, Cleanup, CleanupFails, CtrlZ, Tick
<1>6. /\ \A typed \in Lines : ~ReadLine(typed)
      /\ \A victims \in SUBSET Pids : ~CtrlC(victims)
  BY DEF ReadLine, CtrlC
<1>7. \A p \in Pids : /\ ~PipeReaps(p) /\ ~ChildStops(p) /\ \A how \in Ended : ~ChildEnds(p, how)
                      /\ \A sig \in {"SIGCONT", "SIGKILL"} : ~Disturb(p, sig)
  BY DEF PipeReaps, ChildStops, ChildEnds, Disturb
<1>8. ~ UNCHANGED vars
  BY DEF vars
<1> QED
  BY <1>1, <1>2, <1>3, <1>4, <1>5, <1>6, <1>7, <1>8 DEF Next, Main, Handlers, Environment

TimedInv == SightInv /\ Timed

\* What the alarm handler kills is a timed command that has run for its full time,
\* whichever commands have been timed, stopped or continued meanwhile.
THEOREM AlarmInTime == Spec => AlarmIsNotEarly
<1> DEFINE Rings == alarm # NoAlarm /\ alarm' = NoAlarm
           Early == \A p \in Pids :
                      children[p].state \in Alive /\ children'[p].state = "killed" =>
                        \E i \in DOMAIN timed_cmds :
                          timed_cmds[i].pid = p /\ now - born[p] >= timed_cmds[i].limit
<1>1. Init => TimedInv
  BY InitControl, InitSight, InitTimed DEF SightInv, TimedInv
<1>2. TimedInv /\ [Next]_vars => TimedInv'
  BY StepControl, StepSight, StepTimed DEF SightInv, TimedInv
<1>3. ASSUME TimedInv, [Next]_vars, Rings PROVE Early
  <2>1. TypeOK /\ children \in ChildTable /\ jobs \in Seq(JobEntry)
    BY <1>3 DEF TimedInv, SightInv, ControlInv, TypeOK
  <2>2. CASE Timeout
    <3>1. Tidied(jobs, children, jobs', children')
      BY <2>1, <2>2, ExecuteFacts DEF Timeout
    <3>2. ASSUME NEW p \in Pids PROVE children'[p] = children[p] \/ children'[p].state = "gone"
                                        \/ children'[p].state = children[p].state
      BY <3>1 DEF Tidied
    <3> QED  BY <3>2 DEF Alive
  <2>3. CASE Alarm
    <3>1. Rung
      BY <2>1, <2>3, AlarmFacts
    <3>2. ASSUME NEW p \in Pids, children[p].state \in Alive, children'[p].state = "killed"
          PROVE  \E i \in DOMAIN timed_cmds :
                   timed_cmds[i].pid = p /\ now - born[p] >= timed_cmds[i].limit
      <4>1. PICK i \in DOMAIN timed_cmds : timed_cmds[i].pid = p /\ Due(timed_cmds[i])
        BY <3>1, <3>2 DEF Rung, Alive
      <4>2. timed_cmds[i].start = born[p]
        BY <1>3, <4>1 DEF TimedInv, Timed, Timers
      <4> QED  BY <4>1, <4>2 DEF Due
    <3> QED  BY <3>2
  <2> QED  BY <1>3, <2>2, <2>3, AlarmChanges
<1>4. TimedInv /\ [Next]_vars => [Rings => Early]_vars
  BY <1>3
<1> QED  BY <1>1, <1>2, <1>4, PTL DEF Spec, AlarmIsNotEarly

-----------------------------------------------------------------------------
(* A job's id names one process.                                           *)

Labelled(jl, g) == \A i \in DOMAIN jl : jl[i].job_id = g[jl[i].pid]

\* The steps at which ctrl-Z may file the command in the foreground.
Hands == {"wait", "settle", "fg wait", "fg done"}

\* The command in the foreground is a job already, or will be one under its own id.
OwnId ==
  ~late_stop =>
    /\ pc \in {"wait", "settle"} => pid \in JobPids(jobs) \/ given[pid] = 0
    /\ pc \in {"fg wait", "fg done"} =>
         given[pid] = jobid /\ (pid \in JobPids(jobs) \/ jobid \notin JobIds(jobs))

Named == JobsDistinct /\ MarkedStoppedRests /\ OwnId

LEMMA NamedParts ==
  JobsDistinct <=> (~late_stop => Distinct(jobs) /\ Labelled(jobs, given))
BY DEF JobsDistinct, Distinct, Labelled

LEMMA InitNamed == Init => Named
<1> SUFFICES ASSUME Init PROVE Named
  OBVIOUS
<1>1. DOMAIN jobs = {} /\ pc = "prompt"
  BY DEF Init
<1> QED  BY <1>1 DEF Named, JobsDistinct, MarkedStoppedRests, OwnId

LEMMA OwnIdKept ==
  ASSUME OwnId,
         \/ pc' \notin Hands
         \/ /\ UNCHANGED <<jobs, given, late_stop, pid, jobid>>
            /\ \/ pc' = pc
               \/ pc = "wait" /\ pc' = "settle"
               \/ pc = "fg wait" /\ pc' = "fg done"
  PROVE  OwnId'
<1>1. CASE pc' \notin Hands
  BY <1>1 DEF OwnId, Hands
<1>2. CASE /\ UNCHANGED <<jobs, given, late_stop, pid, jobid>>
           /\ \/ pc' = pc
              \/ pc = "wait" /\ pc' = "settle"
              \/ pc = "fg wait" /\ pc' = "fg done"
  BY <1>2 DEF OwnId
<1> QED  BY <1>1, <1>2

\* Entries leave the list and children go on.
LEMMA ThinnedNamed ==
  ASSUME Sight, Named, pc # "undefined", UNCHANGED <<given, late_stop>>,
         disturbed \subseteq disturbed',
         Thinned(jobs, jobs'), Older(children, children')
  PROVE  (JobsDistinct /\ MarkedStoppedRests)'
<1>1. CASE late_stop
  BY <1>1 DEF JobsDistinct, MarkedStoppedRests
<1>2. CASE ~late_stop
  <2>1. /\ Distinct(jobs) /\ Labelled(jobs, given)
        /\ \A i \in DOMAIN jobs : jobs[i].is_stopped /\ jobs[i].pid \notin disturbed =>
                                     children[jobs[i].pid].state # "running"
    BY <1>2, NamedParts DEF Named, MarkedStoppedRests
  <2>2. \A m \in DOMAIN jobs' : \E i \in DOMAIN jobs : jobs'[m] = jobs[i]
    BY DEF Thinned
  <2>3. Distinct(jobs') /\ Labelled(jobs', given')
    BY <2>1, <2>2 DEF Thinned, Labelled
  <2>4. \A i \in DOMAIN jobs : jobs[i].pid \in Pids
    BY DEF Sight, JobPids
  <2>5. ASSUME NEW m \in DOMAIN jobs', jobs'[m].is_stopped, jobs'[m].pid \notin disturbed'
        PROVE  children'[jobs'[m].pid].state # "running"
    <3>1. PICK i \in DOMAIN jobs : jobs'[m] = jobs[i]
      BY <2>2
    <3>2. children[jobs[i].pid].state # "running" /\ jobs[i].pid \in Pids
      BY <2>1, <2>4, <2>5, <3>1
    <3> QED  BY <3>1, <3>2 DEF Older
  <2>6. JobsDistinct'
    BY <2>3 DEF JobsDistinct, Distinct, Labelled
  <2>7. MarkedStoppedRests'
    BY <2>5 DEF MarkedStoppedRests
  <2> QED  BY <2>6, <2>7
<1> QED  BY <1>1, <1>2

LEMMA ThinnedItself ==
  ASSUME NEW jl \in Seq(JobEntry)
  PROVE  Thinned(jl, jl)
BY DEF Thinned

\* A job is sent a signal and marked.
LEMMA MarksNamed ==
  ASSUME ControlInv, Sight, Named, pc # "undefined", UNCHANGED <<given, late_stop>>,
         disturbed \subseteq disturbed',
         NEW i \in DOMAIN jobs, NEW sig, Marks(i, sig)
  PROVE  (JobsDistinct /\ MarkedStoppedRests)'
<1>1. CASE late_stop
  BY <1>1 DEF JobsDistinct, MarkedStoppedRests
<1>2. CASE ~late_stop
  <2>1. /\ Distinct(jobs) /\ Labelled(jobs, given)
        /\ \A j \in DOMAIN jobs : jobs[j].is_stopped /\ jobs[j].pid \notin disturbed =>
                                     children[jobs[j].pid].state # "running"
    BY <1>2, NamedParts DEF Named, MarkedStoppedRests
  <2>2. TypeOK /\ jobs \in Seq(JobEntry) /\ children \in ChildTable
    BY DEF ControlInv, TypeOK
  <2>3. /\ \A j \in DOMAIN jobs : jobs'[j].job_id = jobs[j].job_id /\ jobs'[j].pid = jobs[j].pid
        /\ \A p \in Pids : p # jobs[i].pid => children'[p] = children[p]
    BY <2>2, MarksKeep
  <2>4. DOMAIN jobs' = DOMAIN jobs /\ \A j \in DOMAIN jobs \ {i} : jobs'[j] = jobs[j]
    BY DEF Marks, Remarked
  <2>5. Distinct(jobs') /\ Labelled(jobs', given')
    BY <2>1, <2>3, <2>4 DEF Distinct, Labelled
  <2>6. \A j \in DOMAIN jobs : jobs[j].pid \in Pids
    BY DEF Sight, JobPids
  <2>7. ASSUME NEW j \in DOMAIN jobs', j # i, jobs'[j].is_stopped, jobs'[j].pid \notin disturbed'
        PROVE  children'[jobs'[j].pid].state # "running"
    BY <2>1, <2>3, <2>4, <2>6, <2>7 DEF Distinct
  <2>8. ASSUME jobs'[i].is_stopped, jobs'[i].pid \notin disturbed'
        PROVE  children'[jobs'[i].pid].state # "running"
    <3> DEFINE p == jobs[i].pid
    <3>1. jobs'[i].pid = p /\ p \in Pids /\ p \notin disturbed
      BY <2>3, <2>6, <2>8
    <3>2. CASE UNCHANGED <<children, jobs>>
      BY <2>1, <2>8, <3>1, <3>2
    <3>3. CASE Remarked(jobs, jobs', i, FALSE)
      BY <2>8, <3>3 DEF Remarked
    <3>4. CASE /\ children' = Signalled(children, {p}, sig)
               /\ Remarked(jobs, jobs', i, Marked(jobs[i], sig))
      <4>1. jobs'[i].is_stopped = Marked(jobs[i], sig)
        BY <3>4 DEF Remarked
      <4>2. children'[p].state = After(children[p].state, sig)
        <5>1. p \in {p} \cap Pids
          BY <3>1
        <5>2. \A q \in {p} \cap Pids :
                Signalled(children, {p}, sig)[q].state = After(children[q].state, sig)
          BY <2>2, SignalledFacts
        <5> QED  BY <3>4, <5>1, <5>2
      <4>3. CASE sig = "SIGSTOP"
        <5>1. After(children[p].state, sig) # "running"
          BY <4>3 DEF After
        <5> QED  BY <3>1, <4>2, <5>1
      <4>4. CASE sig # "SIGSTOP"
        <5>1. SUFFICES ASSUME Marked(jobs[i], sig) PROVE children'[p].state # "running"
          BY <2>8, <3>1, <4>1
        <5>2. jobs[i].is_stopped /\ sig # "SIGCONT"
          BY <4>4, <5>1 DEF Marked
        <5>3. children[p].state # "running" /\ (After(children[p].state, sig) = "running" => children[p].state = "running")
          BY <2>1, <3>1, <5>2 DEF After
        <5> QED  BY <4>2, <5>3
      <4> QED  BY <4>3, <4>4
    <3> QED  BY <3>2, <3>3, <3>4 DEF Marks
  <2>9. JobsDistinct'
    BY <2>5 DEF JobsDistinct, Distinct, Labelled
  <2>10. MarkedStoppedRests'
    BY <2>7, <2>8 DEF MarkedStoppedRests
  <2> QED  BY <2>9, <2>10
<1> QED  BY <1>1, <1>2

\* A child joins the list: under a new id if it has never been there, else its own.
LEMMA AddedNamed ==
  ASSUME ControlInv, Sight, Named, pc # "undefined", ~late_stop,
         disturbed \subseteq disturbed',
         NEW k \in ChildTable, Older(children, k), NEW p \in Pids, NEW stopped, NEW jt, NEW id,
         Added(jobs, k, p, stopped, foreground_jobid, jt, id, jobs', children'),
         given' = [q \in Pids |-> IF q = p /\ given[q] = 0 THEN id ELSE given[q]],
         p \notin JobPids(jobs),
         IF foreground_jobid = -1 THEN given[p] = 0
         ELSE given[p] = foreground_jobid /\ foreground_jobid \notin JobIds(jobs),
         stopped => k[p].state # "running"
  PROVE  /\ Distinct(jobs') /\ Labelled(jobs', given')
         /\ \A i \in DOMAIN jobs' : jobs'[i].is_stopped /\ jobs'[i].pid \notin disturbed' =>
                                      children'[jobs'[i].pid].state # "running"
         /\ given'[p] = id
<1> DEFINE n == Len(jt)
           e == Entry(id, p, stopped)
<1>1. /\ Tidied(jobs, k, jt, children') /\ jt \in Seq(JobEntry) /\ jobs' = Append(jt, e)
      /\ IF foreground_jobid = -1 THEN \A i \in DOMAIN jt : jt[i].job_id < id
         ELSE id = foreground_jobid
      /\ \A m \in DOMAIN jt : \E i \in DOMAIN jobs : jt[m] = jobs[i]
  BY DEF Added, Tidied, Thinned
<1>2. n \in Nat /\ DOMAIN jt = 1 .. n /\ \A i \in 1 .. n : jt[i].job_id \in Nat
  BY <1>1, EntryFacts
<1>3. e.pid = p /\ e.job_id = id /\ e.is_stopped = stopped
  BY DEF Entry
<1> HIDE DEF e
<1>4. /\ DOMAIN jobs' = 1 .. n + 1 /\ jobs'[n + 1] = e
      /\ \A i \in 1 .. n : jobs'[i] = jt[i]
      /\ \A i \in 1 .. n + 1 : i \in 1 .. n \/ i = n + 1
  BY <1>1, <1>2
<1> HIDE DEF n
<1>5. /\ Distinct(jobs) /\ Labelled(jobs, given)
      /\ \A i \in DOMAIN jobs : jobs[i].is_stopped /\ jobs[i].pid \notin disturbed =>
                                    children[jobs[i].pid].state # "running"
  BY NamedParts DEF Named, MarkedStoppedRests
<1>6. Distinct(jt)
  BY <1>1, <1>5 DEF Tidied, Thinned
<1>7. \A i \in DOMAIN jobs : jobs[i].pid \in Pids
  BY DEF Sight, JobPids
<1>8. given'[p] = id /\ \A q \in Pids : q # p => given'[q] = given[q]
  BY <1>1
<1>9. \A i \in 1 .. n : jt[i].pid # p /\ jt[i].pid \in Pids /\ jt[i].job_id # id
  <2>1. SUFFICES ASSUME NEW i \in 1 .. n
                 PROVE  jt[i].pid # p /\ jt[i].pid \in Pids /\ jt[i].job_id # id
    OBVIOUS
  <2>2. PICK j \in DOMAIN jobs : jt[i] = jobs[j]
    BY <1>1, <1>2
  <2>3. jt[i].pid # p /\ jt[i].pid \in Pids
    BY <1>7, <2>2 DEF JobPids
  <2>4. CASE foreground_jobid = -1
    <3>1. jt[i].job_id < id /\ jt[i].job_id \in Nat
      BY <1>1, <1>2, <2>4
    <3> QED  BY <2>3, <3>1
  <2>5. CASE foreground_jobid # -1
    BY <1>1, <2>2, <2>3, <2>5 DEF JobIds
  <2> QED  BY <2>4, <2>5
<1>10. Distinct(jobs')
  <2>1. SUFFICES ASSUME NEW i \in 1 .. n + 1, NEW j \in 1 .. n + 1, i # j
                 PROVE  jobs'[i].job_id # jobs'[j].job_id /\ jobs'[i].pid # jobs'[j].pid
    BY <1>4 DEF Distinct
  <2>2. CASE i \in 1 .. n /\ j \in 1 .. n
    BY <1>2, <1>4, <1>6, <2>1, <2>2 DEF Distinct
  <2>3. CASE i = n + 1 /\ j \in 1 .. n
    BY <1>3, <1>4, <1>9, <2>3
  <2>4. CASE j = n + 1 /\ i \in 1 .. n
    BY <1>3, <1>4, <1>9, <2>4
  <2> QED  BY <1>4, <2>1, <2>2, <2>3, <2>4
<1>11. Labelled(jobs', given')
  <2>1. \A i \in 1 .. n : jt[i].job_id = given[jt[i].pid]
    BY <1>1, <1>2, <1>5 DEF Labelled
  <2>2. ASSUME NEW i \in 1 .. n + 1 PROVE jobs'[i].job_id = given'[jobs'[i].pid]
    BY <1>3, <1>4, <1>8, <1>9, <2>1
  <2> QED  BY <1>4, <2>2 DEF Labelled
<1>12. ASSUME NEW i \in 1 .. n + 1, jobs'[i].is_stopped, jobs'[i].pid \notin disturbed'
       PROVE  children'[jobs'[i].pid].state # "running"
  <2>1. Older(k, children')
    BY <1>1, TidiedKeeps DEF ControlInv, TypeOK
  <2>2. CASE i = n + 1
    BY <1>3, <1>4, <1>12, <2>1, <2>2 DEF Older
  <2>3. CASE i \in 1 .. n
    <3>1. PICK j \in DOMAIN jobs : jt[i] = jobs[j]
      BY <1>1, <1>2, <2>3
    <3>2. children[jobs[j].pid].state # "running" /\ jobs[j].pid \in Pids
      BY <1>4, <1>5, <1>7, <1>12, <2>3, <3>1
    <3> QED  BY <1>4, <2>1, <2>3, <3>1, <3>2 DEF Older
  <2> QED  BY <1>4, <2>2, <2>3
<1> QED  BY <1>4, <1>8, <1>10, <1>11, <1>12

LEMMA NatIsNotMinusOne == \A n \in Nat : n # -1
OBVIOUS

LEMMA CtrlZNamed ==
  ASSUME ControlInv, Sight, Named, CtrlZ
  PROVE  Named'
<1> DEFINE k == Signalled(children, Aimed(foreground_cmd), "SIGSTOP")
           yes == TRUE
<1>1. /\ foreground_cmd # Nullptr /\ pc # "undefined"
      /\ MoveToBackground(k, foreground_cmd, yes) /\ yes \in BOOLEAN
      /\ pid' = pid /\ jobid' = jobid
      /\ disturbed' = disturbed
      /\ ~InForegroundStart => pc' = pc
      /\ late_stop' = \/ late_stop
                      \/ InForegroundStart
                      \/ foreground_cmd \in JobPids(jobs)
                      \/ children[foreground_cmd].state \in Ended
  BY DEF CtrlZ, Over, locals, regs, mishaps
<1>2. CASE late_stop'
  BY <1>2 DEF Named, JobsDistinct, MarkedStoppedRests, OwnId
<1>3. CASE ~late_stop'
  <2>1. ~late_stop /\ ~InForegroundStart /\ foreground_cmd \notin JobPids(jobs) /\ pc' = pc
    BY <1>1, <1>3
  <2>2. /\ children \in ChildTable /\ jobs \in Seq(JobEntry) /\ Places
        /\ foreground_jobid \in Nat \cup {-1} /\ foreground_cmd \in Pids \cup {NoPid}
    BY <1>1 DEF ControlInv, TypeOK
  <2>3. pc \in Hands
    <3>1. pc \notin Quiet \cup Forking
      BY <1>1, <2>2 DEF Places
    <3> QED  BY <1>1, <2>1, <3>1
             DEF ControlInv, TypeOK, Pcs, Quiet, Forking, InForegroundStart, Hands
  <2>4. foreground_cmd = pid /\ pid \in Pids
    BY <2>2, <2>3 DEF Places, Sight, Quiet, Hands
  <2>5. /\ pc \in {"wait", "settle"} => foreground_jobid = -1 /\ given[pid] = 0
        /\ pc \in {"fg wait", "fg done"} =>
             /\ foreground_jobid = jobid /\ jobid \in Nat
             /\ given[pid] = jobid /\ jobid \notin JobIds(jobs)
    BY <2>1, <2>2, <2>4 DEF Places, Named, OwnId
  <2>0. pc \in {"fg wait", "fg done"} =>
           /\ foreground_jobid = jobid /\ foreground_jobid # -1
           /\ given[pid] = jobid /\ jobid \notin JobIds(jobs)
    <3> HAVE pc \in {"fg wait", "fg done"}
    <3>1. /\ foreground_jobid = jobid /\ jobid \in Nat
          /\ given[pid] = jobid /\ jobid \notin JobIds(jobs)
      BY <2>5
    <3>2. \A n \in Nat : n # -1
      BY NatIsNotMinusOne
    <3> QED  BY <3>1, <3>2
  <2>6. k \in ChildTable /\ Older(children, k) /\ k[pid].state # "running"
    <3>1. pid \in Aimed(foreground_cmd) \cap Pids
      BY <2>4, NoPidFact DEF Aimed
    <3>2. After(children[pid].state, "SIGSTOP") # "running"
      BY DEF After
    <3> QED  BY <2>2, <3>1, <3>2, SignalledFacts, SignalledOlder
  <2> HIDE DEF k, yes
  <2>7. PICK jt, id :
          /\ Added(jobs, k, foreground_cmd, yes, foreground_jobid, jt, id, jobs', children')
          /\ given' = [q \in Pids |-> IF q = foreground_cmd /\ given[q] = 0 THEN id ELSE given[q]]
    BY <1>1, <2>2, <2>6, MoveFacts, ZenonT(60)
  <2>8. IF foreground_jobid = -1 THEN given[pid] = 0
        ELSE given[pid] = foreground_jobid /\ foreground_jobid \notin JobIds(jobs)
    <3>1. CASE pc \in {"wait", "settle"}
      BY <3>1, <2>5
    <3>2. CASE pc \in {"fg wait", "fg done"}
      <4> QED  BY <3>2, <2>0
    <3> QED  BY <3>1, <3>2, <2>3 DEF Hands
  <2>9. /\ Distinct(jobs') /\ Labelled(jobs', given')
        /\ \A i \in DOMAIN jobs' : jobs'[i].is_stopped /\ jobs'[i].pid \notin disturbed' =>
                                      children'[jobs'[i].pid].state # "running"
        /\ given'[pid] = id
    <3>1. /\ Added(jobs, k, pid, yes, foreground_jobid, jt, id, jobs', children')
          /\ given' = [q \in Pids |-> IF q = pid /\ given[q] = 0 THEN id ELSE given[q]]
          /\ pid \notin JobPids(jobs)
      BY <2>1, <2>4, <2>7
    <3> QED  BY <1>1, <2>1, <2>4, <2>6, <2>8, <3>1, AddedNamed
  <2>10. pid \in JobPids(jobs')
    <3>1. JobPids(jobs') = JobPids(jt) \cup {foreground_cmd}
      BY <2>2, <2>6, <2>7, AddedKeeps
    <3> QED  BY <2>4, <3>1
  <2>11. pc \in {"fg wait", "fg done"} => given'[pid] = jobid
    <3> SUFFICES ASSUME pc \in {"fg wait", "fg done"} PROVE given'[pid] = jobid
      OBVIOUS
    <3>1. foreground_jobid = jobid /\ foreground_jobid # -1 /\ given[pid] = jobid
      BY <2>0
    <3>2. given'[pid] = IF pid = foreground_cmd /\ given[pid] = 0 THEN id ELSE given[pid]
      BY <2>4, <2>7
    <3>3. id = foreground_jobid
      BY <3>1, <2>7 DEF Added
    <3> QED  BY <3>1, <3>2, <3>3
  <2>12. OwnId'
    BY <1>1, <2>1, <2>10, <2>11 DEF OwnId
  <2>13. JobsDistinct'
    BY <2>9 DEF JobsDistinct, Distinct, Labelled
  <2>14. MarkedStoppedRests'
    BY <2>9 DEF MarkedStoppedRests
  <2> QED  BY <2>12, <2>13, <2>14 DEF Named
<1> QED  BY <1>2, <1>3

LEMMA StepNamed ==
  ASSUME TimedInv, Named, [Next]_vars
  PROVE  Named'
<1> USE DEF shell, timing, foreground, regs, locals, stdio, mishaps, history, counters
<1>0. /\ TypeOK /\ ControlInv /\ Sight /\ Timed /\ Places
      /\ children \in ChildTable /\ jobs \in Seq(JobEntry) /\ line \in Line
  BY DEF TimedInv, SightInv, ControlInv, TypeOK
<1> DEFINE Idle == UNCHANGED <<given, late_stop>> /\ disturbed \subseteq disturbed'
           Lists == (JobsDistinct /\ MarkedStoppedRests)'
<1>o. Older(children, children) /\ Thinned(jobs, jobs)
  BY <1>0, ThinnedItself DEF Older, Born
<1>q. ASSUME Lists, OwnId' PROVE Named'
  BY <1>q DEF Named
<1>p. pc' \notin Hands => OwnId'
  BY OwnIdKept DEF Named
<1>r. Return => pc' \notin Hands
  BY <1>0, ReturnFacts DEF Hands
<1>t. ASSUME Idle, pc # "undefined", Thinned(jobs, jobs'), Older(children, children') PROVE Lists
  BY <1>0, <1>t, ThinnedNamed
<1>i. ASSUME Idle, pc # "undefined", Thinned(jobs, jobs'), Older(children, children'),
             pc' \notin Hands
      PROVE  Named'
  BY <1>i, <1>p, <1>q, <1>t
<1>s. ASSUME Idle, pc # "undefined", UNCHANGED <<jobs, pid, jobid>>, Older(children, children'),
             \/ pc' = pc
             \/ pc = "wait" /\ pc' = "settle"
             \/ pc = "fg wait" /\ pc' = "fg done"
      PROVE  Named'
  <2>1. OwnId'
    BY <1>s, OwnIdKept DEF Named
  <2>2. Thinned(jobs, jobs')
    BY <1>o, <1>s
  <2> QED  BY <1>s, <1>t, <1>q, <2>1, <2>2
<1>x. ASSUME NEW command, ExecuteCommand(command)
      PROVE  Thinned(jobs, jobs') /\ Older(children, children') /\ pc' \notin Hands
  BY <1>0, <1>x, ExecuteFacts, TidiedKeeps DEF Tidied, Hands
<1>m. ASSUME Idle, NEW i \in DOMAIN jobs, NEW sig, Marks(i, sig), pc = "run", pc' \notin Hands
      PROVE  Named'
  BY <1>0, <1>m, <1>p, <1>q, MarksNamed
<1>1. ASSUME NEW typed \in Lines, ReadLine(typed) PROVE Named'
  BY <1>1, <1>x, <1>i DEF ReadLine
<1>2. CASE Builtin
  BY <1>2, <1>o, <1>i, <1>r DEF Builtin, Running
<1>3. CASE PrintJobsList
  <2>1. Thinned(jobs, jobs') /\ Older(children, children')
    BY <1>0, <1>3, PrintFacts, TidiedKeeps DEF Tidied
  <2> QED  BY <1>3, <2>1, <1>i, <1>r DEF PrintJobsList, Running
<1>4. CASE Quit
  <2>1. CASE UNCHANGED <<children, jobs>>
    BY <1>4, <2>1, <1>o, <1>i DEF Quit, Running, Hands
  <2>2. CASE children' = KillAllJobs(jobs, children) /\ jobs' \in Sorted(jobs)
    <3>1. jobs' \in Seq(JobEntry) /\ Rearranged(jobs', jobs, DOMAIN jobs)
      BY <1>0, <2>2, SortedFacts
    <3>2. Thinned(jobs, jobs')
      BY <1>0, <3>1, RearrangedFacts
    <3>3. Older(children, children')
      BY <1>0, <2>2, SignalledOlder DEF KillAllJobs
    <3> QED  BY <1>4, <3>2, <3>3, <1>i DEF Quit, Running, Hands
  <2> QED  BY <1>4, <2>1, <2>2 DEF Quit
<1>5. CASE Pipe
  <2>1. pc' \notin Hands
    <3>1. PICK f \in {n \in 0 .. 2 : MayFail(n)} :
            pc' \in CASE f = 0 -> {"pipe"} [] f = 1 -> {"any, pipe", "pipe, any"}
                      [] f = 2 -> {"any, any"}
      BY <1>5 DEF Pipe
    <3>2. f = 0 \/ f = 1 \/ f = 2
      OBVIOUS
    <3> QED  BY <3>1, <3>2 DEF Hands
  <2> QED  BY <1>5, <2>1, <1>o, <1>i DEF Pipe, Running
<1>6. CASE PipeEnds
  <2>1. pc' \notin Hands /\ pc # "undefined"
    BY <1>6, <1>r DEF PipeEnds, Hands
  <2> QED  BY <1>6, <2>1, <1>o, <1>i DEF PipeEnds
<1>7. ASSUME NEW p \in Pids, PipeReaps(p) PROVE Named'
  <2>1. Older(children, children')
    BY <1>0, <1>7, ReportedOlder DEF PipeReaps
  <2>2. pc' \notin Hands /\ pc # "undefined" /\ jobs' = jobs /\ Idle
    BY <1>7, <1>r DEF PipeReaps, Hands
  <2> QED  BY <2>1, <2>2, <1>o, <1>i
<1>8. CASE PipeAlone
  BY <1>8, <1>o, <1>i, <1>r DEF PipeAlone
<1>9. CASE NoJob
  BY <1>9, <1>o, <1>i, <1>r DEF NoJob, Running
<1>10. ASSUME NEW i \in Chosen, NEW sig \in KillSignals, Kill(i, sig) PROVE Named'
  <2>1. i \in DOMAIN jobs /\ pc = "run" /\ Idle /\ pc' \notin Hands
    BY <1>10, <1>r DEF Chosen, Kill, Running
  <2> QED  BY <1>0, <1>10, <1>m, <2>1, MarksFacts
<1>11. ASSUME NEW i \in Chosen \cup LastStopped, Background(i) PROVE Named'
  <2>1. i \in DOMAIN jobs /\ pc = "run" /\ Idle /\ pc' \notin Hands
    BY <1>11, <1>r DEF Chosen, LastStopped, Background, Running
  <2> QED  BY <1>0, <1>11, <1>m, <2>1, MarksFacts
<1>12. ASSUME NEW i \in Chosen, ForegroundStart(i) PROVE Named'
  <2>1. i \in DOMAIN jobs /\ pc = "run" /\ Idle
    BY <1>12 DEF Chosen, ForegroundStart, Running
  <2>2. pc' \notin Hands
    BY <1>12, <1>r DEF ForegroundStart, Hands
  <2> QED  BY <1>0, <1>12, <1>m, <2>1, <2>2, MarksFacts
<1>13. CASE ForegroundPid
  BY <1>13, <1>o, <1>i DEF ForegroundPid, Hands
<1>14. CASE ForegroundId
  BY <1>14, <1>o, <1>i DEF ForegroundId, Hands
<1>15. CASE ForegroundRemove
  <2>1. /\ pc = "fg remove" /\ pc' = "fg wait" /\ UNCHANGED <<children, pid, jobid, given, late_stop, disturbed>>
        /\ jobs' = RemoveJobById(jobs, jobid)
    BY <1>15 DEF ForegroundRemove
  <2>2. /\ Thinned(jobs, jobs')
        /\ \A m \in DOMAIN jobs' : \E n \in DOMAIN jobs \ {PositionOf(jobs, jobid)} : jobs'[m] = jobs[n]
        /\ \A n \in DOMAIN jobs \ {PositionOf(jobs, jobid)} : \E m \in DOMAIN jobs' : jobs'[m] = jobs[n]
    <3>1. jobs \in Seq(JobEntry) /\ jobs' = RemoveJobById(jobs, jobid)
      BY <1>0, <2>1
    <3>2. /\ Thinned(jobs, jobs')
          /\ \A m \in DOMAIN jobs' :
               \E i \in DOMAIN jobs \ {PositionOf(jobs, jobid)} : jobs'[m] = jobs[i]
          /\ \A i \in DOMAIN jobs \ {PositionOf(jobs, jobid)} :
               \E m \in DOMAIN jobs' : jobs'[m] = jobs[i]
      BY <3>1, RemoveJobFacts
    <3> QED  BY <3>2
  <2>3. Lists
    BY <2>1, <2>2, <1>o, <1>t
  <2>4. jobid \in JobIds(jobs) /\ jobs[PositionOf(jobs, jobid)].pid = pid
    BY <1>0, <2>1 DEF Sight, InForegroundStart
  <2>5. PositionOf(jobs, jobid) \in DOMAIN jobs /\ jobs[PositionOf(jobs, jobid)].job_id = jobid
    BY <1>0, <2>4, PositionFacts
  <2>6. ASSUME ~late_stop PROVE given[pid] = jobid /\ jobid \notin JobIds(jobs')
    <3>1. Distinct(jobs) /\ Labelled(jobs, given)
      BY <2>6, NamedParts DEF Named
    <3>2. given[pid] = jobid
      BY <2>4, <2>5, <3>1 DEF Labelled
    <3>3. \A m \in DOMAIN jobs' : jobs'[m].job_id # jobid
      BY <2>2, <2>5, <3>1 DEF Distinct
    <3> QED  BY <3>2, <3>3 DEF JobIds
  <2>7. OwnId'
    BY <2>1, <2>6 DEF OwnId
  <2> QED  BY <2>3, <2>7, <1>q
<1>16. CASE ForegroundWait
  <2>1. Older(children, children')
    BY <1>0, <1>16, ReportedOlder DEF ForegroundWait
  <2>2. /\ pc = "fg wait" /\ pc' \in {pc, "fg done"} /\ Idle /\ UNCHANGED <<jobs, pid, jobid>>
    BY <1>16 DEF ForegroundWait
  <2> QED  BY <2>1, <2>2, <1>s
<1>17. CASE ForegroundDone
  BY <1>17, <1>o, <1>i, <1>r DEF ForegroundDone
<1>18. CASE Fork
  <2>1. /\ pc' \in Forking /\ jobs' = jobs /\ pc = "run" /\ Idle
        /\ children' = Forked(children, pid') /\ Unborn(children) # {} /\ pid' = Min(Unborn(children))
    BY <1>18 DEF Fork, External, Running, Forking
  <2>2. pid' \in Pids /\ children[pid'].state = "unborn"
    BY <2>1, ForkedPid DEF Unborn
  <2>3. \A p \in Pids : p # pid' => children'[p] = children[p]
    BY <1>0, <2>1, <2>2 DEF Forked, ChildTable
  <2>4. \A i \in DOMAIN jobs : jobs[i].pid \in Pids /\ jobs[i].pid # pid'
    BY <1>0, <2>1, <2>2 DEF Sight, JobPids
  <2>5. MarkedStoppedRests'
    BY <2>1, <2>3, <2>4 DEF Named, MarkedStoppedRests
  <2>6. JobsDistinct'
    BY <2>1 DEF Named, JobsDistinct
  <2>7. pc' \notin Hands
    BY <2>1 DEF Forking, Hands
  <2> QED  BY <2>5, <2>6, <2>7, <1>p, <1>q
<1>19. CASE ForkFails
  BY <1>19, <1>o, <1>i, <1>r DEF ForkFails, External, Running
<1>20. CASE ToBackground
  <2> DEFINE no == FALSE
  <2>1. /\ pc = "to background" /\ Return /\ MoveToBackground(children, pid, no) /\ no \in BOOLEAN
        /\ late_stop' = late_stop /\ disturbed' = disturbed
    BY <1>20 DEF ToBackground
  <2>2. ~no
    OBVIOUS
  <2> HIDE DEF no
  <2>3. /\ pid \in Pids /\ given[pid] = 0 /\ pid \notin JobPids(jobs) /\ foreground_jobid = -1
    BY <1>0, <2>1 DEF Sight, Quiet, Timed, Fresh, Forking, Places
  <2>4. foreground_jobid \in Nat \cup {-1} /\ pid \in Pids \cup {NoPid}
    BY <2>3
  <2>5. PICK jt, id :
          /\ Added(jobs, children, pid, no, foreground_jobid, jt, id, jobs', children')
          /\ given' = [q \in Pids |-> IF q = pid /\ given[q] = 0 THEN id ELSE given[q]]
    BY <1>0, <2>1, <2>4, MoveFacts, ZenonT(60)
  <2>6. CASE ~late_stop
    <3>1. /\ Distinct(jobs') /\ Labelled(jobs', given')
          /\ \A i \in DOMAIN jobs' : jobs'[i].is_stopped /\ jobs'[i].pid \notin disturbed' =>
                                      children'[jobs'[i].pid].state # "running"
      <4>1. IF foreground_jobid = -1 THEN given[pid] = 0
            ELSE given[pid] = foreground_jobid /\ foreground_jobid \notin JobIds(jobs)
        BY <2>3
      <4> QED  BY <1>0, <1>o, <2>1, <2>2, <2>3, <2>5, <2>6, <4>1, AddedNamed
    <3>2. JobsDistinct'
      BY <3>1 DEF JobsDistinct, Distinct, Labelled
    <3>3. MarkedStoppedRests'
      BY <3>1 DEF MarkedStoppedRests
    <3> QED  BY <2>1, <3>2, <3>3, <1>p, <1>q, <1>r
  <2>7. CASE late_stop
    BY <2>1, <2>7, <1>p, <1>q, <1>r DEF JobsDistinct, MarkedStoppedRests
  <2> QED  BY <2>6, <2>7
<1>21. CASE ToForeground
  <2>1. /\ pc = "to foreground" /\ pc' = "wait" /\ UNCHANGED <<jobs, given, late_stop, disturbed, children, pid>>
    BY <1>21 DEF ToForeground
  <2>2. Lists
    BY <2>1, <1>o, <1>t
  <2>3. given[pid] = 0
    BY <1>0, <2>1 DEF Timed, Fresh, Forking
  <2>4. OwnId'
    BY <2>1, <2>3 DEF OwnId
  <2> QED  BY <2>2, <2>4, <1>q
<1>22. CASE Wait
  <2>1. Older(children, children')
    BY <1>0, <1>22, ReportedOlder DEF Wait
  <2>2. pc = "wait" /\ pc' = "settle" /\ Idle /\ UNCHANGED <<jobs, pid, jobid>>
    BY <1>22 DEF Wait
  <2> QED  BY <2>1, <2>2, <1>s
<1>23. CASE Settle
  BY <1>23, <1>o, <1>i, <1>r DEF Settle
<1>24. CASE SettleErased
  BY <1>24, <1>o, <1>i DEF SettleErased, Hands
<1>25. CASE Prepare
  BY <1>25, <1>x, <1>i DEF Prepare
<1>26. CASE PrepareFails
  BY <1>26, <1>x, <1>i DEF PrepareFails, PrepareStops
<1>27. CASE Cleanup
  BY <1>27, <1>o, <1>i DEF Cleanup, Hands
<1>28. CASE Timeout
  BY <1>28, <1>x, <1>i DEF Timeout
<1>29. CASE CtrlZ
  BY <1>0, <1>29, CtrlZNamed
<1>30. ASSUME NEW victims \in SUBSET Pids, CtrlC(victims) PROVE Named'
  <2>1. Older(children, children')
    BY <1>0, <1>30 DEF CtrlC, Older, Born
  <2> QED  BY <1>30, <2>1, <1>s DEF CtrlC, Over
<1>31. CASE Alarm
  <2>1. Older(children, children')
    BY <1>0, <1>31, AlarmFacts, RungOlder
  <2> QED  BY <1>31, <2>1, <1>s DEF Alarm, Over
<1>32. ASSUME NEW p \in Pids, NEW how \in Ended, ChildEnds(p, how) PROVE Named'
  <2>1. Older(children, children')
    BY <1>0, <1>32 DEF ChildEnds, Older, Born, ChildTable, Ended
  <2> QED  BY <1>32, <2>1, <1>s DEF ChildEnds, Over
<1>33. ASSUME NEW p \in Pids, ChildStops(p) PROVE Named'
  <2>1. Older(children, children')
    BY <1>0, <1>33, SignalledOlder DEF ChildStops
  <2> QED  BY <1>33, <2>1, <1>s DEF ChildStops, Over
<1>34. CASE Tick
  BY <1>34, <1>o, <1>s DEF Tick, Over
<1>35. CASE UNCHANGED vars
  <2>1. UNCHANGED <<jobs, children, given, late_stop, disturbed, pc, pid, jobid>>
    BY <1>35 DEF vars
  <2>2. JobsDistinct'
    BY <2>1 DEF Named, JobsDistinct
  <2>3. MarkedStoppedRests'
    BY <2>1 DEF Named, MarkedStoppedRests
  <2>4. OwnId'
    BY <2>1, OwnIdKept DEF Named
  <2> QED  BY <2>2, <2>3, <2>4 DEF Named
<1>36. CASE CleanupFails
  BY <1>36, <1>o, <1>i DEF CleanupFails, Hands
<1>37. ASSUME NEW p \in Pids, NEW sig \in {"SIGCONT", "SIGKILL"}, Disturb(p, sig) PROVE Named'
  <2>1. /\ UNCHANGED <<jobs, given, late_stop, pc, pid, jobid>> /\ pc # "undefined"
        /\ disturbed \subseteq disturbed'
        /\ p \in JobPids(jobs) => p \in disturbed'
        /\ children' = Signalled(children, {p}, sig)
    BY <1>37 DEF Disturb, Over
  <2>2. OwnId'
    BY <2>1, OwnIdKept DEF Named
  <2>3. JobsDistinct'
    BY <2>1 DEF Named, JobsDistinct
  <2>4. \A q \in Pids : q # p => children'[q] = children[q]
    BY <1>0, <2>1, SignalledFacts
  <2>5. ASSUME ~late_stop, NEW i \in DOMAIN jobs, jobs[i].is_stopped, jobs[i].pid \notin disturbed'
        PROVE  children'[jobs[i].pid].state # "running"
    <3>1. jobs[i].pid \in JobPids(jobs) /\ jobs[i].pid \in Pids
      BY <1>0, <2>1 DEF Sight, JobPids
    <3>2. jobs[i].pid # p /\ jobs[i].pid \notin disturbed
      BY <2>1, <2>5, <3>1
    <3>3. children[jobs[i].pid].state # "running"
      BY <2>5, <3>2 DEF Named, MarkedStoppedRests
    <3> QED  BY <2>4, <3>1, <3>2, <3>3
  <2>6. MarkedStoppedRests'
    BY <2>1, <2>5 DEF MarkedStoppedRests
  <2> QED  BY <2>2, <2>3, <2>6 DEF Named
<1>38. CASE Main
  BY <1>38, <1>2, <1>3, <1>4, <1>5, <1>7, <1>8, <1>9, <1>10, <1>11, <1>12, <1>13, <1>14, <1>15,
     <1>16, <1>17, <1>18, <1>19, <1>20, <1>21, <1>22, <1>23, <1>24, <1>25, <1>26, <1>27, <1>28,
     <1>36
  DEF Main
<1>39. CASE Handlers
  BY <1>39, <1>29, <1>30, <1>31 DEF Handlers
<1>40. CASE Environment
  BY <1>40, <1>1, <1>6, <1>32, <1>33, <1>34, <1>37 DEF Environment
<1> QED  BY <1>38, <1>39, <1>40, <1>35 DEF Next

NamedInv == TimedInv /\ Named

LEMMA NamedInvariant == Spec => []NamedInv
<1>1. Init => NamedInv
  BY InitControl, InitSight, InitTimed, InitNamed DEF SightInv, TimedInv, NamedInv
<1>2. NamedInv /\ [Next]_vars => NamedInv'
  BY StepControl, StepSight, StepTimed, StepNamed DEF SightInv, TimedInv, NamedInv
<1> QED  BY <1>1, <1>2, PTL DEF Spec

\* Ids and processes name the same jobs, and a job has the id it first had, through
\* any number of fg and ctrl-Z that is in time (addJob, fg, ctrlZHandler).
THEOREM IdsAreDistinct == Spec => []JobsDistinct
<1>1. NamedInv => JobsDistinct
  BY DEF NamedInv, Named
<1> QED  BY <1>1, NamedInvariant, PTL

\* A job marked stopped does not run (kill, bg, fg, ctrlZHandler), whatever other
\* processes do to other children, until a ctrl-Z is out of time or somebody else
\* continues that very job.
THEOREM MarksAreTrue == Spec => []MarkedStoppedRests
<1>1. NamedInv => MarkedStoppedRests
  BY DEF NamedInv, Named
<1> QED  BY <1>1, NamedInvariant, PTL

-----------------------------------------------------------------------------
(* Only timeouts make the list stale.                                      *)

\* The steps of the two loops that poll for the command in the foreground.
Polling == {"wait", "fg wait"}

\* The jobs that may be reaped behind the list's back.
Excused == ever_timed \cup disturbed

\* A job that has been reaped has been timed, or somebody else has continued or
\* killed it, and so will one that main polls for and that is not stopped.
Unreaped ==
  ~late_stop /\ faults = 0 =>
    /\ \A p \in JobPids(jobs) : children[p].state = "gone" => p \in Excused
    /\ pc \in Polling /\ pid \in JobPids(jobs) =>
         children[pid].state = "stopped" \/ pid \in Excused

\* What a ctrl-Z out of time, a failure, a timeout and the others leave behind.
Onward ==
  /\ ~late_stop' => ~late_stop
  /\ faults' = 0 => faults = 0
  /\ Excused \subseteq Excused'

\* No job has been reaped by this step unless it is excused.
Spared ==
  ~late_stop' =>
    \A p \in Pids : p \in JobPids(jobs') /\ children'[p].state = "gone" =>
      p \in JobPids(jobs) /\ (children[p].state = "gone" \/ p \in Excused')

LEMMA InitUnreaped == Init => Unreaped
<1> SUFFICES ASSUME Init PROVE Unreaped
  OBVIOUS
<1>1. JobPids(jobs) = {}
  BY DEF Init, JobPids
<1> QED  BY <1>1 DEF Unreaped

\* Entries leave the list.
LEMMA ThinnedPids ==
  ASSUME NEW jl, NEW jm, Thinned(jl, jm)
  PROVE  JobPids(jm) \subseteq JobPids(jl)
BY DEF Thinned, JobPids

\* Tidying the list spares the jobs that stay in it.
LEMMA TidiedSpared ==
  ASSUME Sight, Named, pc # "undefined", late_stop' = late_stop,
         Tidied(jobs, children, jobs', children')
  PROVE  Spared /\ JobPids(jobs') \subseteq JobPids(jobs)
<1>1. JobPids(jobs') \subseteq JobPids(jobs)
  BY ThinnedPids DEF Tidied
<1>2. ASSUME ~late_stop, NEW p \in Pids, p \in JobPids(jobs')
      PROVE  children'[p].state = children[p].state
  <2>1. Distinct(jobs)
    BY <1>2, NamedParts DEF Named
  <2> QED  BY <1>2, <2>1 DEF Tidied
<1> QED  BY <1>1, <1>2 DEF Spared

\* So does a signal.
LEMMA SignalledSpared ==
  ASSUME NEW k \in ChildTable, NEW P, NEW sig
  PROVE  \A p \in Pids : Signalled(k, P, sig)[p].state = "gone" => k[p].state = "gone"
<1>1. \A s : After(s, sig) = "gone" => s = "gone"
  BY DEF After
<1> QED  BY <1>1, SignalledFacts

\* Steps after which main does not poll.
LEMMA SparedUnreaped ==
  ASSUME Sight, Unreaped, pc # "undefined", Onward, Spared,
         JobPids(jobs') \subseteq JobPids(jobs), pc' \notin Polling
  PROVE  Unreaped'
<1> SUFFICES ASSUME ~late_stop', faults' = 0, NEW p \in JobPids(jobs'), children'[p].state = "gone"
             PROVE  p \in Excused'
  BY DEF Unreaped
<1>1. p \in Pids /\ p \in JobPids(jobs)
  BY DEF Sight
<1>2. ~late_stop /\ faults = 0
  BY DEF Onward
<1>3. children[p].state = "gone" \/ p \in Excused'
  BY <1>1 DEF Spared
<1> QED  BY <1>1, <1>2, <1>3 DEF Unreaped, Onward

\* Steps of the others, and of main without effect on the list: a job that is
\* not excused is not reaped, and a stopped one stays stopped.
LEMMA SteadyUnreaped ==
  ASSUME Sight, Unreaped, pc # "undefined", Onward, UNCHANGED <<jobs, pid>>,
         pc' = pc \/ pc' \notin Polling,
         \A p \in Pids : \/ children'[p].state = children[p].state
                         \/ p \in Excused' \/ p \notin JobPids(jobs)
                         \/ children[p].state # "stopped" /\ children'[p].state # "gone"
  PROVE  Unreaped'
<1> SUFFICES ASSUME ~late_stop', faults' = 0
             PROVE  /\ \A p \in JobPids(jobs') : children'[p].state = "gone" => p \in Excused'
                    /\ pc' \in Polling /\ pid' \in JobPids(jobs') =>
                         children'[pid'].state = "stopped" \/ pid' \in Excused'
  BY DEF Unreaped
<1>1. ~late_stop /\ faults = 0 /\ Excused \subseteq Excused'
  BY DEF Onward
<1>2. \A p \in JobPids(jobs) : p \in Pids
  BY DEF Sight
<1>3. ASSUME NEW p \in JobPids(jobs'), children'[p].state = "gone" PROVE p \in Excused'
  <2>1. p \in JobPids(jobs) /\ p \in Pids
    BY <1>2
  <2> QED  BY <1>1, <1>3, <2>1 DEF Unreaped
<1>4. ASSUME pc' \in Polling, pid' \in JobPids(jobs')
      PROVE  children'[pid'].state = "stopped" \/ pid' \in Excused'
  <2>1. pc \in Polling /\ pid \in JobPids(jobs) /\ pid \in Pids /\ pid' = pid
    BY <1>2, <1>4
  <2>2. children[pid].state = "stopped" \/ pid \in Excused
    BY <1>1, <2>1 DEF Unreaped
  <2> QED  BY <1>1, <2>1, <2>2
<1> QED  BY <1>3, <1>4

\* A child that was no job, and has not been reaped, is filed.
LEMMA AddedSpared ==
  ASSUME Sight, Named, pc # "undefined", ~late_stop, jobs \in Seq(JobEntry),
         NEW k \in ChildTable, NEW p \in Pids, NEW stopped, NEW fid, NEW jt, NEW id,
         Added(jobs, k, p, stopped, fid, jt, id, jobs', children'),
         p \notin JobPids(jobs)
  PROVE  /\ JobPids(jobs') \subseteq JobPids(jobs) \cup {p}
         /\ children'[p].state = k[p].state
         /\ \A q \in Pids : q \in JobPids(jobs') => children'[q].state = k[q].state
<1>1. Tidied(jobs, k, jt, children')
  BY DEF Added
<1>2. JobPids(jobs') = JobPids(jt) \cup {p} /\ JobPids(jt) \subseteq JobPids(jobs)
  BY AddedKeeps
<1>3. children'[p].state = k[p].state
  BY <1>1 DEF Tidied
<1>4. Distinct(jobs)
  BY NamedParts DEF Named
<1>5. \A q \in Pids : q \in JobPids(jt) => children'[q].state = k[q].state
  BY <1>1, <1>4 DEF Tidied
<1> QED  BY <1>2, <1>3, <1>5

LEMMA CtrlZUnreaped ==
  ASSUME ControlInv, Sight, Named, Unreaped, CtrlZ
  PROVE  Unreaped'
<1> DEFINE k == Signalled(children, Aimed(foreground_cmd), "SIGSTOP")
           yes == TRUE
<1>1. /\ foreground_cmd # Nullptr /\ pc # "undefined"
      /\ MoveToBackground(k, foreground_cmd, yes) /\ yes \in BOOLEAN
      /\ pid' = pid /\ faults' = faults
      /\ \E p \in Aimed(foreground_cmd) : ~NoSuchChild(children, p)
      /\ disturbed' = disturbed
      /\ ~InForegroundStart => pc' = pc
      /\ late_stop' = \/ late_stop
                      \/ InForegroundStart
                      \/ foreground_cmd \in JobPids(jobs)
                      \/ children[foreground_cmd].state \in Ended
  BY DEF CtrlZ, Over, locals, regs, mishaps
<1> SUFFICES ASSUME ~late_stop', faults' = 0
             PROVE  /\ \A p \in JobPids(jobs') : children'[p].state = "gone" => p \in Excused'
                    /\ pc' \in Polling /\ pid' \in JobPids(jobs') =>
                         children'[pid'].state = "stopped" \/ pid' \in Excused'
  BY DEF Unreaped
<1>2. /\ ~late_stop /\ ~InForegroundStart /\ foreground_cmd \notin JobPids(jobs) /\ faults = 0
      /\ children[foreground_cmd].state \notin Ended /\ pc' = pc
  BY <1>1
<1>3. /\ children \in ChildTable /\ jobs \in Seq(JobEntry)
      /\ foreground_jobid \in Nat \cup {-1} /\ foreground_cmd \in Pids \cup {NoPid}
  BY <1>1 DEF ControlInv, TypeOK
<1>4. foreground_cmd = pid /\ pid \in Pids
  <2>1. pc \notin Quiet \cup Forking
    BY <1>1 DEF ControlInv, Places
  <2>2. pc \in Hands
    BY <1>1, <1>2, <2>1 DEF ControlInv, TypeOK, Pcs, Quiet, Forking, InForegroundStart, Hands
  <2> QED  BY <2>2 DEF ControlInv, Places, Sight, Quiet, Hands
<1>5. k \in ChildTable /\ k[pid].state = "stopped" /\ \A q \in Pids : q # pid => k[q] = children[q]
  <2>1. Aimed(foreground_cmd) = {pid}
    BY <1>4, NoPidFact DEF Aimed
  <2>2. children[pid].state \in Alive
    <3>1. ~NoSuchChild(children, pid)
      BY <1>1, <2>1
    <3>2. children[pid].state \in ChildState
      BY <1>3, <1>4 DEF ChildTable
    <3> QED  BY <1>2, <1>4, <3>1, <3>2 DEF NoSuchChild, ChildState
  <2>3. After(children[pid].state, "SIGSTOP") = "stopped"
    BY <2>2 DEF After, Alive
  <2> QED  BY <1>3, <1>4, <2>1, <2>3, SignalledFacts
<1> HIDE DEF k, yes
<1>6. PICK jt, id : Added(jobs, k, pid, yes, foreground_jobid, jt, id, jobs', children')
  BY <1>1, <1>3, <1>4, <1>5, MoveFacts
<1>7. /\ JobPids(jobs') \subseteq JobPids(jobs) \cup {pid}
      /\ children'[pid].state = k[pid].state
      /\ \A q \in Pids : q \in JobPids(jobs') => children'[q].state = k[q].state
  BY <1>1, <1>2, <1>3, <1>4, <1>5, <1>6, AddedSpared
<1>8. Excused \subseteq Excused'
  BY <1>1 DEF MoveToBackground, TimeThis, Excused
<1>9. ASSUME NEW p \in JobPids(jobs'), children'[p].state = "gone" PROVE p \in Excused'
  <2>1. p # pid
    BY <1>5, <1>7, <1>9
  <2>2. p \in JobPids(jobs)
    BY <1>7, <2>1
  <2>3. p \in Pids
    BY <1>1, <2>2 DEF Sight
  <2>4. children[p].state = "gone"
    BY <1>5, <1>7, <1>9, <2>1, <2>3
  <2> QED  BY <1>2, <1>8, <2>2, <2>4 DEF Unreaped
<1>10. children'[pid'].state = "stopped"
  BY <1>1, <1>5, <1>7
<1> QED  BY <1>9, <1>10

LEMMA StepUnreaped ==
  ASSUME NamedInv, Unreaped, [Next]_vars
  PROVE  Unreaped'
<1> USE DEF shell, timing, foreground, regs, locals, stdio, mishaps, history, counters
<1>0. /\ TypeOK /\ ControlInv /\ Sight /\ Timed /\ Places /\ Named /\ Limited
      /\ children \in ChildTable /\ jobs \in Seq(JobEntry) /\ line \in Line
      /\ faults \in Nat
  <2>1. TypeOK /\ ControlInv /\ Sight /\ Timed /\ Named
    BY DEF NamedInv, TimedInv, SightInv, ControlInv
  <2>2. faults \in 0 .. MaxFaults
    BY <2>1 DEF TypeOK
  <2> QED  BY <2>1, <2>2, SMTT(60) DEF ControlInv, TypeOK
<1> DEFINE Idle == UNCHANGED <<ever_timed, late_stop, faults>> /\ disturbed \subseteq disturbed'
<1>o. Idle => Onward
  BY DEF Onward, Excused
<1>r. Return => pc' \notin Polling
  BY <1>0, ReturnFacts DEF Polling
<1>g. ASSUME Onward, pc # "undefined", Spared, JobPids(jobs') \subseteq JobPids(jobs),
             pc' \notin Polling
      PROVE  Unreaped'
  BY <1>0, <1>g, SparedUnreaped
<1>i. ASSUME Onward, pc # "undefined", UNCHANGED <<children, jobs>>, pc' \notin Polling
      PROVE  Unreaped'
  <2>1. Spared /\ JobPids(jobs') \subseteq JobPids(jobs)
    BY <1>i DEF Spared
  <2> QED  BY <1>g, <1>i, <2>1
<1>s. ASSUME Idle, pc # "undefined", UNCHANGED <<jobs, pid>>, pc' = pc \/ pc' \notin Polling,
             \A p \in Pids : \/ children'[p].state = children[p].state
                             \/ p \in Excused' \/ p \notin JobPids(jobs)
                             \/ children[p].state # "stopped" /\ children'[p].state # "gone"
      PROVE  Unreaped'
  BY <1>0, <1>o, <1>s, SteadyUnreaped
<1>x. ASSUME NEW command, ExecuteCommand(command), Onward, pc # "undefined", UNCHANGED late_stop
      PROVE  Unreaped'
  <2>1. Tidied(jobs, children, jobs', children') /\ pc' \notin Polling
    BY <1>0, <1>x, ExecuteFacts DEF Polling
  <2>2. Spared /\ JobPids(jobs') \subseteq JobPids(jobs)
    BY <1>0, <1>x, <2>1, TidiedSpared
  <2> QED  BY <1>g, <1>x, <2>1, <2>2
<1>m. ASSUME Idle, NEW i \in DOMAIN jobs, NEW sig, Marks(i, sig), pc = "run", pc' \notin Polling
      PROVE  Unreaped'
  <2>1. JobPids(jobs') = JobPids(jobs)
    BY <1>0, <1>m, MarksKeep
  <2>2. \A p \in Pids : children'[p].state = "gone" => children[p].state = "gone"
    <3>1. CASE UNCHANGED <<children, jobs>>
      BY <3>1
    <3>2. CASE children' = Signalled(children, {jobs[i].pid}, sig)
      BY <1>0, <3>2, SignalledSpared
    <3>3. CASE children' = children
      BY <3>3
    <3> QED  BY <1>m, <3>1, <3>2, <3>3 DEF Marks
  <2>3. Spared
    BY <2>1, <2>2 DEF Spared
  <2> QED  BY <1>g, <1>m, <1>o, <2>1, <2>3
\* A wait for the command in the foreground, after which main polls no more.
<1>w. ASSUME Idle, pc \in Polling, pid \in Pids, children' = Reported(children, {pid}),
             UNCHANGED <<jobs, pid>>
      PROVE  Unreaped'
  <2>1. SUFFICES ASSUME ~late_stop, faults = 0
                 PROVE  /\ \A p \in JobPids(jobs) : children'[p].state = "gone" => p \in Excused
                        /\ pid \in JobPids(jobs) =>
                             children'[pid].state = "stopped" \/ pid \in Excused
    <3>1. Excused \subseteq Excused' /\ late_stop' = late_stop /\ faults' = faults
      BY <1>w DEF Excused
    <3>2. pid' = pid /\ jobs' = jobs
      BY <1>w
    <3> QED  BY <3>1, <3>2 DEF Unreaped
  <2>2. /\ \A p \in JobPids(jobs) : children[p].state = "gone" => p \in Excused
        /\ pid \in JobPids(jobs) => children[pid].state = "stopped" \/ pid \in Excused
    BY <1>w, <2>1 DEF Unreaped
  <2>3. /\ \A p \in Pids : p # pid => children'[p] = children[p]
        /\ children'[pid].state = IF children[pid].state \in Ended THEN "gone" ELSE children[pid].state
    <3> DEFINE P == {pid}
    <3>1. pid \in P \cap Pids /\ children' = Reported(children, P) /\ \A p : p # pid => p \notin P
      BY <1>w
    <3> HIDE DEF P
    <3> QED  BY <1>0, <3>1, ReportedFacts
  <2>4. children[pid].state = "stopped" => children'[pid].state = "stopped"
    BY <2>3 DEF Ended
  <2>5. \A p \in JobPids(jobs) : p \in Pids
    BY <1>0, <1>w DEF Sight, Polling
  <2>6. ASSUME NEW p \in JobPids(jobs), children'[p].state = "gone" PROVE p \in Excused
    <3>1. CASE p = pid
      BY <2>2, <2>4, <2>6, <3>1
    <3>2. CASE p # pid
      BY <2>2, <2>3, <2>5, <2>6, <3>2
    <3> QED  BY <3>1, <3>2
  <2> QED  BY <2>2, <2>4, <2>6
<1>1. ASSUME NEW typed \in Lines, ReadLine(typed) PROVE Unreaped'
  BY <1>1, <1>x, <1>o DEF ReadLine
<1>2. CASE Builtin
  BY <1>2, <1>o, <1>i, <1>r DEF Builtin, Running
<1>3. CASE PrintJobsList
  <2>1. Tidied(jobs, children, jobs', children')
    BY <1>0, <1>3, PrintFacts
  <2>2. pc = "run" /\ Idle /\ pc' \notin Polling
    BY <1>3, <1>r DEF PrintJobsList, Running
  <2>3. Spared /\ JobPids(jobs') \subseteq JobPids(jobs)
    BY <1>0, <2>1, <2>2, TidiedSpared
  <2> QED  BY <1>g, <1>o, <2>2, <2>3
<1>4. CASE Quit
  <2>0. pc = "run" /\ pc' \notin Polling /\ Idle
    BY <1>4 DEF Quit, Running, Polling
  <2>1. CASE UNCHANGED <<children, jobs>>
    BY <2>0, <2>1, <1>o, <1>i
  <2>2. CASE children' = KillAllJobs(jobs, children) /\ jobs' \in Sorted(jobs)
    <3>1. jobs' \in Seq(JobEntry) /\ Rearranged(jobs', jobs, DOMAIN jobs)
      BY <1>0, <2>2, SortedFacts
    <3>2. JobPids(jobs') \subseteq JobPids(jobs)
      <4>1. Thinned(jobs, jobs')
        BY <1>0, <3>1, RearrangedFacts
      <4> QED  BY <4>1, ThinnedPids
    <3>3. Spared
      BY <1>0, <2>2, <3>2, SignalledSpared DEF KillAllJobs, Spared
    <3> QED  BY <2>0, <3>2, <3>3, <1>o, <1>g
  <2> QED  BY <1>4, <2>1, <2>2 DEF Quit
<1>5. CASE Pipe
  <2>1. PICK f \in {n \in 0 .. 2 : MayFail(n)} :
          /\ faults' = faults + f
          /\ pc' \in CASE f = 0 -> {"pipe"} [] f = 1 -> {"any, pipe", "pipe, any"}
                       [] f = 2 -> {"any, any"}
    BY <1>5 DEF Pipe
  <2>2. pc' \notin Polling
    <3>1. f = 0 \/ f = 1 \/ f = 2
      OBVIOUS
    <3> QED  BY <2>1, <3>1 DEF Polling
  <2>3. faults' = 0 => faults = 0
    <3>1. f \in Nat
      OBVIOUS
    <3>2. faults' = faults + f
      BY <2>1
    <3>3. \A m, n \in Nat : m + n = 0 => m = 0
      OBVIOUS
    <3> QED  BY <1>0, <3>1, <3>2, <3>3
  <2>4. Onward /\ pc # "undefined" /\ UNCHANGED <<children, jobs>>
    BY <1>5, <2>3 DEF Pipe, Onward, Excused, Running
  <2> QED  BY <2>2, <2>4, <1>i
<1>6. CASE PipeEnds
  <2>1. pc' \notin Polling /\ pc # "undefined"
    BY <1>6, <1>r DEF PipeEnds, Polling
  <2> QED  BY <1>6, <2>1, <1>o, <1>i DEF PipeEnds
<1>7. ASSUME NEW p \in Pids, PipeReaps(p) PROVE Unreaped'
  <2>1. faults > 0 /\ faults' = faults
    BY <1>0, <1>7 DEF PipeReaps, Limited
  <2> QED  BY <1>0, <2>1 DEF Unreaped
<1>8. CASE PipeAlone
  BY <1>8, <1>o, <1>i, <1>r DEF PipeAlone
<1>9. CASE NoJob
  BY <1>9, <1>o, <1>i, <1>r DEF NoJob, Running
<1>10. ASSUME NEW i \in Chosen, NEW sig \in KillSignals, Kill(i, sig) PROVE Unreaped'
  <2>1. i \in DOMAIN jobs /\ pc = "run" /\ Idle /\ pc' \notin Polling
    BY <1>10, <1>r DEF Chosen, Kill, Running
  <2> QED  BY <1>0, <1>10, <1>m, <2>1, MarksFacts
<1>11. ASSUME NEW i \in Chosen \cup LastStopped, Background(i) PROVE Unreaped'
  <2>1. i \in DOMAIN jobs /\ pc = "run" /\ Idle /\ pc' \notin Polling
    BY <1>11, <1>r DEF Chosen, LastStopped, Background, Running
  <2> QED  BY <1>0, <1>11, <1>m, <2>1, MarksFacts
<1>12. ASSUME NEW i \in Chosen, ForegroundStart(i) PROVE Unreaped'
  <2>1. i \in DOMAIN jobs /\ pc = "run" /\ Idle
    BY <1>12 DEF Chosen, ForegroundStart, Running
  <2>2. pc' \notin Polling
    BY <1>12, <1>r DEF ForegroundStart, Polling
  <2> QED  BY <1>0, <1>12, <1>m, <2>1, <2>2, MarksFacts
<1>13. CASE ForegroundPid
  BY <1>13, <1>o, <1>i DEF ForegroundPid, Polling
<1>14. CASE ForegroundId
  BY <1>14, <1>o, <1>i DEF ForegroundId, Polling
<1>15. CASE ForegroundRemove
  <2>1. /\ pc = "fg remove" /\ pc' = "fg wait" /\ UNCHANGED <<children, pid, jobid>> /\ Idle
        /\ jobs' = RemoveJobById(jobs, jobid)
    BY <1>15 DEF ForegroundRemove
  <2>2. /\ JobPids(jobs') \subseteq JobPids(jobs)
        /\ \A m \in DOMAIN jobs' :
             \E i \in DOMAIN jobs \ {PositionOf(jobs, jobid)} : jobs'[m] = jobs[i]
    <3>1. jobs \in Seq(JobEntry) /\ jobs' = RemoveJobById(jobs, jobid)
      BY <1>0, <2>1
    <3>2. /\ Thinned(jobs, jobs')
          /\ \A m \in DOMAIN jobs' :
               \E i \in DOMAIN jobs \ {PositionOf(jobs, jobid)} : jobs'[m] = jobs[i]
          /\ \A i \in DOMAIN jobs \ {PositionOf(jobs, jobid)} :
               \E m \in DOMAIN jobs' : jobs'[m] = jobs[i]
      BY <3>1, RemoveJobFacts
    <3> QED  BY <3>2, ThinnedPids
  <2>3. jobid \in JobIds(jobs) /\ jobs[PositionOf(jobs, jobid)].pid = pid
    BY <1>0, <2>1 DEF Sight, InForegroundStart
  <2>4. PositionOf(jobs, jobid) \in DOMAIN jobs
    BY <1>0, <2>3, PositionFacts
  <2>5. ASSUME ~late_stop PROVE pid \notin JobPids(jobs')
    <3>1. Distinct(jobs)
      BY <1>0, <2>5, NamedParts DEF Named
    <3>2. \A m \in DOMAIN jobs' : jobs'[m].pid # pid
      BY <2>2, <2>3, <2>4, <3>1 DEF Distinct
    <3> QED  BY <3>2 DEF JobPids
  <2> QED  BY <2>1, <2>2, <2>5 DEF Unreaped, Excused
<1>16. CASE ForegroundWait
  <2>1. /\ pc = "fg wait" /\ Idle /\ UNCHANGED <<jobs, pid>>
        /\ children' = Reported(children, {foreground_cmd})
    BY <1>16 DEF ForegroundWait
  <2>2. foreground_cmd = pid /\ pid \in Pids
    BY <1>0, <2>1 DEF Places, Sight, Quiet
  <2> QED  BY <2>1, <2>2, <1>w DEF Polling
<1>17. CASE ForegroundDone
  BY <1>17, <1>o, <1>i, <1>r DEF ForegroundDone
<1>18. CASE Fork
  <2>1. /\ pc' \in Forking /\ jobs' = jobs /\ pc = "run" /\ Idle
        /\ children' = Forked(children, pid') /\ Unborn(children) # {} /\ pid' = Min(Unborn(children))
    BY <1>18 DEF Fork, External, Running, Forking
  <2>2. pid' \in Pids
    BY <2>1, ForkedPid DEF Unborn
  <2>3. \A p \in Pids : p # pid' => children'[p] = children[p]
    BY <1>0, <2>1, <2>2 DEF Forked, ChildTable
  <2>4. children'[pid'].state # "gone"
    BY <1>0, <2>1, <2>2 DEF Forked, ChildTable
  <2>5. Spared /\ JobPids(jobs') \subseteq JobPids(jobs)
    BY <2>1, <2>3, <2>4 DEF Spared
  <2>6. pc' \notin Polling /\ pc # "undefined"
    BY <2>1 DEF Forking, Polling
  <2> QED  BY <2>1, <2>5, <2>6, <1>o, <1>g
<1>19. CASE ForkFails
  <2>1. pc = "run" /\ UNCHANGED <<children, jobs, late_stop, ever_timed, disturbed>> /\ faults' = faults + 1
        /\ pc' \notin Polling
    BY <1>19, <1>r DEF ForkFails, External, Running
  <2>2. Onward
    BY <1>0, <2>1 DEF Onward, Excused
  <2> QED  BY <2>1, <2>2, <1>i
<1>20. CASE ToBackground
  <2> DEFINE no == FALSE
  <2>1. /\ pc = "to background" /\ Return /\ MoveToBackground(children, pid, no) /\ no \in BOOLEAN
        /\ UNCHANGED <<late_stop, faults, disturbed>>
    BY <1>20 DEF ToBackground
  <2> HIDE DEF no
  <2>2. pid \in Pids /\ pid \notin JobPids(jobs) /\ children[pid].state # "gone"
    BY <1>0, <2>1 DEF Sight, Quiet, Timed, Fresh, Forking
  <2>3. foreground_jobid \in Nat \cup {-1} /\ pid \in Pids \cup {NoPid}
    BY <1>0, <2>2 DEF TypeOK
  <2>4. PICK jt, id : Added(jobs, children, pid, no, foreground_jobid, jt, id, jobs', children')
    BY <1>0, <2>1, <2>3, MoveFacts
  <2>5. Excused \subseteq Excused'
    BY <2>1 DEF MoveToBackground, TimeThis, Excused
  <2>6. SUFFICES ASSUME ~late_stop, faults = 0, NEW p \in JobPids(jobs'), children'[p].state = "gone"
                 PROVE  p \in Excused'
    BY <2>1, <1>r DEF Unreaped
  <2>7. /\ JobPids(jobs') \subseteq JobPids(jobs) \cup {pid}
        /\ children'[pid].state = children[pid].state
        /\ \A q \in Pids : q \in JobPids(jobs') => children'[q].state = children[q].state
    BY <1>0, <2>1, <2>2, <2>4, <2>6, AddedSpared
  <2>8. p \in JobPids(jobs) /\ p \in Pids
    BY <1>0, <2>1, <2>2, <2>6, <2>7 DEF Sight
  <2>9. children[p].state = "gone"
    BY <2>6, <2>7, <2>8
  <2> QED  BY <2>5, <2>6, <2>8, <2>9 DEF Unreaped
<1>21. CASE ToForeground
  <2>1. /\ pc = "to foreground" /\ UNCHANGED <<jobs, late_stop, children, pid, faults>>
        /\ Excused \subseteq Excused'
    BY <1>21 DEF ToForeground, TimeThis, Excused
  <2>2. pid \notin JobPids(jobs)
    BY <1>0, <2>1 DEF Timed, Fresh, Forking
  <2> QED  BY <2>1, <2>2 DEF Unreaped
<1>22. CASE Wait
  <2>1. pc = "wait" /\ Idle /\ UNCHANGED <<jobs, pid>> /\ children' = Reported(children, {pid})
    BY <1>22 DEF Wait
  <2>2. pid \in Pids
    BY <1>0, <2>1 DEF Sight, Quiet
  <2> QED  BY <2>1, <2>2, <1>w DEF Polling
<1>23. CASE Settle
  BY <1>23, <1>o, <1>i, <1>r DEF Settle
<1>24. CASE SettleErased
  BY <1>24, <1>o, <1>i DEF SettleErased, Polling
<1>25. CASE Prepare
  BY <1>25, <1>x, <1>o DEF Prepare
<1>26. CASE PrepareFails
  <2>1. Onward
    <3>1. faults' \in {faults, faults + 1} /\ UNCHANGED <<ever_timed, late_stop, disturbed>>
      <4> DEFINE n == IF out = "closed" THEN 0 ELSE 1
      <4>1. faults' = faults + n
        BY <1>26 DEF PrepareFails, PrepareStops
      <4>2. n = 0 \/ n = 1
        OBVIOUS
      <4>3. UNCHANGED <<ever_timed, late_stop, disturbed>>
        BY <1>26 DEF PrepareFails
      <4> QED  BY <1>0, <4>1, <4>2, <4>3
    <3>2. faults' = 0 => faults = 0
      BY <1>0, <3>1
    <3> QED  BY <3>1, <3>2 DEF Onward, Excused
  <2>2. ExecuteCommand(EmptyLine) /\ pc # "undefined" /\ UNCHANGED late_stop
    BY <1>26 DEF PrepareFails, PrepareStops
  <2> QED  BY <2>1, <2>2, <1>x
<1>27. CASE Cleanup
  BY <1>27, <1>o, <1>i DEF Cleanup, Polling
<1>28. CASE Timeout
  BY <1>28, <1>x, <1>o DEF Timeout
<1>29. CASE CtrlZ
  BY <1>0, <1>29, CtrlZUnreaped
<1>30. ASSUME NEW victims \in SUBSET Pids, CtrlC(victims) PROVE Unreaped'
  <2>1. \A p \in Pids : \/ children'[p].state = children[p].state
                        \/ children[p].state # "stopped" /\ children'[p].state # "gone"
    BY <1>0, <1>30 DEF CtrlC
  <2> QED  BY <1>30, <2>1, <1>s DEF CtrlC, Over
<1>31. CASE Alarm
  <2>1. Rung
    BY <1>0, <1>31, AlarmFacts
  <2>2. ASSUME NEW p \in Pids PROVE children'[p].state = children[p].state \/ p \in Excused'
    <3>1. CASE children'[p] = children[p]
      BY <3>1
    <3>2. ASSUME NEW i \in DOMAIN timed_cmds, timed_cmds[i].pid = p PROVE p \in Excused'
      <4>1. p \in ever_timed
        BY <1>0, <3>2, NoPidFact DEF Timed, Timers
      <4> QED  BY <1>31, <4>1 DEF Alarm, Excused
    <3> QED  BY <2>1, <3>1, <3>2 DEF Rung
  <2> QED  BY <1>31, <2>2, <1>s DEF Alarm, Over
<1>32. ASSUME NEW p \in Pids, NEW how \in Ended, ChildEnds(p, how) PROVE Unreaped'
  <2>1. \A q \in Pids : \/ children'[q].state = children[q].state
                        \/ children[q].state # "stopped" /\ children'[q].state # "gone"
    BY <1>0, <1>32 DEF ChildEnds, ChildTable, Ended
  <2> QED  BY <1>32, <2>1, <1>s DEF ChildEnds, Over
<1>33. ASSUME NEW p \in Pids, ChildStops(p) PROVE Unreaped'
  <2>1. \A q \in Pids : \/ children'[q].state = children[q].state
                        \/ children[q].state # "stopped" /\ children'[q].state # "gone"
    <3>1. children[p].state = "running" /\ children' = Signalled(children, {p}, "SIGTSTP")
      BY <1>33 DEF ChildStops
    <3>2. \A q \in Pids : q # p => children'[q] = children[q]
      BY <1>0, <3>1, SignalledFacts
    <3>3. children'[p].state # "gone"
      BY <1>0, <3>1, SignalledSpared
    <3> QED  BY <3>1, <3>2, <3>3
  <2> QED  BY <1>33, <2>1, <1>s DEF ChildStops, Over
<1>34. CASE Tick
  BY <1>34, <1>s DEF Tick, Over
<1>35. CASE UNCHANGED vars
  <2>1. UNCHANGED <<jobs, children, ever_timed, disturbed, late_stop, faults, pc, pid>>
    BY <1>35 DEF vars
  <2> QED  BY <2>1 DEF Unreaped, Excused
<1>36. CASE CleanupFails
  <2>1. faults' = faults + 1 /\ UNCHANGED <<ever_timed, late_stop, disturbed, children, jobs>>
        /\ pc = "cleanup" /\ pc' \notin Polling
    BY <1>36 DEF CleanupFails, Polling
  <2>2. Onward
    BY <1>0, <2>1 DEF Onward, Excused
  <2> QED  BY <2>1, <2>2, <1>i
<1>37. ASSUME NEW p \in Pids, NEW sig \in {"SIGCONT", "SIGKILL"}, Disturb(p, sig) PROVE Unreaped'
  <2>1. /\ UNCHANGED <<jobs, pc, pid>> /\ Idle /\ pc # "undefined"
        /\ p \in JobPids(jobs) => p \in Excused'
        /\ children' = Signalled(children, {p}, sig)
    BY <1>37 DEF Disturb, Over, Excused
  <2>2. \A q \in Pids : q # p => children'[q] = children[q]
    BY <1>0, <2>1, SignalledFacts
  <2>3. \A q \in Pids : \/ children'[q].state = children[q].state
                        \/ q \in Excused' \/ q \notin JobPids(jobs)
    BY <2>1, <2>2
  <2> QED  BY <2>1, <2>3, <1>s
<1>38. CASE Main
  BY <1>38, <1>2, <1>3, <1>4, <1>5, <1>7, <1>8, <1>9, <1>10, <1>11, <1>12, <1>13, <1>14, <1>15,
     <1>16, <1>17, <1>18, <1>19, <1>20, <1>21, <1>22, <1>23, <1>24, <1>25, <1>26, <1>27, <1>28,
     <1>36
  DEF Main
<1>39. CASE Handlers
  BY <1>39, <1>29, <1>30, <1>31 DEF Handlers
<1>40. CASE Environment
  BY <1>40, <1>1, <1>6, <1>32, <1>33, <1>34, <1>37 DEF Environment
<1> QED  BY <1>38, <1>39, <1>40, <1>35 DEF Next

\* A stale entry in the list stems from a timeout, from what somebody else has done
\* to a stopped job, from a ctrl-Z out of time or from a call that fails, and from
\* nothing else.
THEOREM OnlyTimeoutsMakeStale == Spec => []StaleJobsAreTimed
<1>1. Init => NamedInv /\ Unreaped
  BY InitControl, InitSight, InitTimed, InitNamed, InitUnreaped DEF SightInv, TimedInv, NamedInv
<1>2. NamedInv /\ [Next]_vars => NamedInv'
  BY StepControl, StepSight, StepTimed, StepNamed DEF SightInv, TimedInv, NamedInv
<1>3. NamedInv /\ Unreaped /\ [Next]_vars => Unreaped'
  BY StepUnreaped
<1>4. Unreaped => StaleJobsAreTimed
  BY DEF Unreaped, Excused, StaleJobsAreTimed, JobPids
<1> QED  BY <1>1, <1>2, <1>3, <1>4, PTL DEF Spec

=============================================================================
