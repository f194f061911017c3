------------------------ MODULE RequestHandlingProofs ------------------------
(***************************************************************************)
(* Proofs about RequestHandling, for any number of workers and connections *)
(* and any requests.                                                       *)
(***************************************************************************)
EXTENDS RequestHandling, SequenceTheorems, FiniteSetTheorems, WellFoundedInduction, TLAPS

-----------------------------------------------------------------------------
(* The line reader of Rio: what its functions return, and that they keep a *)
(* reader in step with its input.                                          *)

\* The least number of a set is one of it and no greater than the others.
LEMMA MinOf ==
  ASSUME NEW S \in SUBSET Nat, S # {}
  PROVE  /\ Min(S) \in S
         /\ \A k \in S : Min(S) <= k
<1>1. \E n \in S : \A k \in S : n <= k
  <2>1. \E n \in S : \A k \in S : ~ (<<k, n>> \in OpToRel(<, Nat))
    BY NatLessThanWellFounded, WFMin, Zenon
  <2>2. PICK n \in S : \A k \in S : ~ (<<k, n>> \in OpToRel(<, Nat))
    BY <2>1
  <2>3. \A k \in S : ~ (k < n)
    BY <2>2 DEF OpToRel
  <2> QED  BY <2>3
<1> QED  BY <1>1 DEF Min

\* What a number divides, it divides after another step of it.
LEMMA StepOfDivisor ==
  ASSUME NEW d \in Nat \ {0}, NEW e \in Nat, e % d = 0
  PROVE  (e + d) % d = 0
<1> DEFINE q == e \div d
           w == (e + d) \div d
           m == (e + d) % d
<1>1. q \in Int /\ e = d * q + (e % d)
  OBVIOUS
<1>2. w \in Int /\ m \in 0 .. d - 1 /\ e + d = d * w + m
  <2>1. e + d \in Int
    OBVIOUS
  <2> DEFINE x == e + d
  <2> HIDE DEF x
  <2>2. x \in Int => x \div d \in Int /\ x % d \in 0 .. d - 1 /\ x = d * (x \div d) + (x % d)
    OBVIOUS
  <2> QED  BY <2>1, <2>2 DEF x
<1> HIDE DEF q, w, m
<1> DEFINE z == q + 1 - w
<1>3. z \in Int /\ d * z = m
  <2>1. d * q + d = d * w + m
    BY <1>1, <1>2
  <2>2. d * (q + 1 - w) = d * q + d - d * w
    BY <1>1, <1>2
  <2>3. d * q \in Int /\ d * w \in Int
    BY <1>1, <1>2
  <2> QED  BY <1>1, <1>2, <2>1, <2>2, <2>3
<1> HIDE DEF z
<1>4. ~(z >= 1)
  <2>1. z >= 1 => d * z >= d
    BY <1>3
  <2> QED  BY <1>2, <1>3, <2>1
<1>5. ~(z <= -1)
  <2>1. z <= -1 => d * z <= -d
    BY <1>3
  <2> QED  BY <1>2, <1>3, <2>1
<1>6. z = 0
  BY <1>3, <1>4, <1>5
<1>7. m = 0
  BY <1>3, <1>6
<1> QED  BY <1>7 DEF m

\* Beginnings and ends of a sequence are sequences.
LEMMA UpToBeyond ==
  ASSUME NEW s \in Seq(STRING), NEW n \in 0 .. Len(s)
  PROVE  /\ UpTo(s, n) \in Seq(STRING)
         /\ Len(UpTo(s, n)) = n
         /\ \A k \in 1 .. n : UpTo(s, n)[k] = s[k]
         /\ Beyond(s, n) \in Seq(STRING)
         /\ Len(Beyond(s, n)) = Len(s) - n
         /\ \A k \in 1 .. Len(s) - n : Beyond(s, n)[k] = s[n + k]
<1>1. \A i \in 1 .. Len(s) : s[i] \in STRING
  BY ElementOfSeq
<1>2. /\ UpTo(s, n) \in Seq(STRING)
      /\ Len(UpTo(s, n)) = n
      /\ \A k \in 1 .. n : UpTo(s, n)[k] = s[k]
  <2>1. 1 \in Int /\ n \in Int /\ \A i \in 1 .. n : s[i] \in STRING
    BY <1>1, LenProperties
  <2>2. /\ SubSeq(s, 1, n) \in Seq(STRING)
        /\ Len(SubSeq(s, 1, n)) = IF 1 <= n THEN n - 1 + 1 ELSE 0
        /\ \A i \in 1 .. n - 1 + 1 : SubSeq(s, 1, n)[i] = s[1 + i - 1]
    BY <2>1, SubSeqProperties, SMT
  <2> QED  BY <2>2 DEF UpTo
<1>3. /\ Beyond(s, n) \in Seq(STRING)
      /\ Len(Beyond(s, n)) = Len(s) - n
      /\ \A k \in 1 .. Len(s) - n : Beyond(s, n)[k] = s[n + k]
  <2>1. n + 1 \in Int /\ Len(s) \in Int /\ \A i \in n + 1 .. Len(s) : s[i] \in STRING
    BY <1>1, LenProperties
  <2>2. /\ SubSeq(s, n + 1, Len(s)) \in Seq(STRING)
        /\ Len(SubSeq(s, n + 1, Len(s)))
             = IF n + 1 <= Len(s) THEN Len(s) - (n + 1) + 1 ELSE 0
        /\ \A i \in 1 .. Len(s) - (n + 1) + 1 :
             SubSeq(s, n + 1, Len(s))[i] = s[n + 1 + i - 1]
    BY <2>1, SubSeqProperties, SMT
  <2> QED  BY <2>2, LenProperties DEF Beyond
<1> QED  BY <1>2, <1>3

\* A line in the making has a newline nowhere but at its end.
Clean(line) == \A k \in 1 .. Len(line) - 1 : line[k] # "\n"

\* The line usrbuf can hold and the input rio_buf can hold.
Fits(rd) ==
  /\ rd \in [line : Seq(STRING), buf : Seq(STRING)]
  /\ Len(rd.line) < MaxLine
  /\ Len(rd.buf) <= RioBufSize
  /\ Clean(rd.line)
  /\ rd.buf # <<>> => LineFull(rd.line)

\* Scan moves symbols from the buffer to the line, up to the end of the line.
LEMMA ScanMoves ==
  ASSUME NEW line \in Seq(STRING), NEW buf \in Seq(STRING),
         Len(line) < MaxLine, Clean(line), ~LineFull(line),
         Len(buf) <= RioBufSize
  PROVE  \E n \in 0 .. Len(buf) :
           /\ Scan(line, buf) = [line |-> line \o UpTo(buf, n), buf |-> Beyond(buf, n)]
           /\ Fits(Scan(line, buf))
<1> DEFINE Stops == {k \in 0 .. Len(buf) :
                       k = Len(buf) \/ LineFull(line \o UpTo(buf, k))}
           n == Min(Stops)
<1>1. n \in Stops /\ \A k \in Stops : n <= k
  <2>1. Len(buf) \in Stops
    BY LenProperties
  <2>2. Stops \in SUBSET Nat
    BY LenProperties
  <2> HIDE DEF Stops
  <2> QED  BY <2>1, <2>2, MinOf
<1>2. n \in 0 .. Len(buf)
  BY <1>1
<1>3. \A k \in 0 .. Len(buf) : k < n => ~LineFull(line \o UpTo(buf, k))
  BY <1>1, <1>2, LenProperties
<1>4. ASSUME NEW k \in 0 .. Len(buf)
      PROVE  /\ line \o UpTo(buf, k) \in Seq(STRING)
             /\ Len(line \o UpTo(buf, k)) = Len(line) + k
             /\ \A i \in 1 .. Len(line) : (line \o UpTo(buf, k))[i] = line[i]
             /\ \A i \in 1 .. k : (line \o UpTo(buf, k))[Len(line) + i] = buf[i]
  <2>1. /\ UpTo(buf, k) \in Seq(STRING)
        /\ Len(UpTo(buf, k)) = k
        /\ \A i \in 1 .. k : UpTo(buf, k)[i] = buf[i]
    BY UpToBeyond
  <2>2. /\ line \o UpTo(buf, k) \in Seq(STRING)
        /\ Len(line \o UpTo(buf, k)) = Len(line) + Len(UpTo(buf, k))
        /\ \A i \in 1 .. Len(line) + Len(UpTo(buf, k)) :
             (line \o UpTo(buf, k))[i] = IF i <= Len(line) THEN line[i]
                                         ELSE UpTo(buf, k)[i - Len(line)]
    BY <2>1, ConcatProperties, Zenon
  <2> HIDE DEF n
  <2> QED  BY <2>1, <2>2, LenProperties
<1> DEFINE r == [line |-> line \o UpTo(buf, n), buf |-> Beyond(buf, n)]
<1>5. Scan(line, buf) = r
  BY DEF Scan
<1> HIDE DEF n, Stops
<1>6. r.line \in Seq(STRING) /\ r.buf \in Seq(STRING) /\ Len(r.buf) = Len(buf) - n
  BY <1>2, <1>4, UpToBeyond
<1>7. Len(r.line) < MaxLine
  <2>1. SUFFICES ASSUME Len(line) + n >= MaxLine PROVE FALSE
    BY <1>2, <1>4, LenProperties, RioAssumption
  <2> DEFINE k == MaxLine - 1 - Len(line)
  <2>2. k \in 0 .. Len(buf) /\ k < n /\ Len(line) + k = MaxLine - 1
    BY <2>1, <1>2, LenProperties, RioAssumption
  <2> HIDE DEF k
  <2>3. Len(line \o UpTo(buf, k)) = MaxLine - 1
    BY <2>2, <1>4
  <2> QED  BY <2>2, <2>3, <1>3 DEF LineFull
<1>8. \A i \in 1 .. Len(line) : line[i] # "\n"
  <2>1. Len(line) > 0 => line[Len(line)] # "\n"
    BY LenProperties, EmptySeq DEF LineFull, Last
  <2> QED  BY <2>1, LenProperties DEF Clean
<1>9. Clean(r.line)
  <2>1. SUFFICES ASSUME NEW k \in 1 .. Len(line) + n - 1, r.line[k] = "\n" PROVE FALSE
    BY <1>2, <1>4, SMTT(30) DEF Clean
  <2>2. CASE k <= Len(line)
    BY <2>1, <2>2, <1>2, <1>4, <1>8, LenProperties
  <2>3. CASE k > Len(line)
    <3> DEFINE j == k - Len(line)
    <3>1. j \in 1 .. n - 1 /\ j \in 0 .. Len(buf) /\ k = Len(line) + j
      BY <2>3, <1>2, LenProperties
    <3> HIDE DEF j
    <3>2. buf[j] = "\n"
      <4>1. (line \o UpTo(buf, n))[Len(line) + j] = buf[j]
        <5>1. j \in 1 .. n
          BY <1>2, <3>1
        <5> QED  BY <1>2, <1>4, <5>1, Zenon
      <4>2. r.line = line \o UpTo(buf, n)
        OBVIOUS
      <4> QED  BY <2>1, <3>1, <4>1, <4>2
    <3>3. /\ line \o UpTo(buf, j) \in Seq(STRING)
          /\ Len(line \o UpTo(buf, j)) = Len(line) + j
          /\ (line \o UpTo(buf, j))[Len(line) + j] = "\n"
      <4>1. j \in 0 .. Len(buf) /\ j \in 1 .. j /\ j \in 1 .. Len(buf)
        BY <3>1, <1>2, LenProperties
      <4>2. /\ line \o UpTo(buf, j) \in Seq(STRING)
            /\ Len(line \o UpTo(buf, j)) = Len(line) + j
            /\ \A i \in 1 .. j : (line \o UpTo(buf, j))[Len(line) + i] = buf[i]
        BY <4>1, <1>4, Zenon
      <4> QED  BY <4>1, <4>2, <3>2, Zenon
    <3>4. LineFull(line \o UpTo(buf, j))
      <4>1. line \o UpTo(buf, j) # <<>>
        BY <3>1, <3>3, EmptySeq, LenProperties
      <4> QED  BY <4>1, <3>3 DEF LineFull, Last
    <3> QED  BY <3>1, <3>4, <1>2, <1>3, LenProperties
  <2> QED  BY <2>2, <2>3, LenProperties
<1>10. r.buf # <<>> => LineFull(r.line)
  <2>1. n # Len(buf) => LineFull(r.line)
    BY <1>1 DEF Stops
  <2>2. n = Len(buf) => r.buf = <<>>
    BY <1>2, <1>6, EmptySeq
  <2> QED  BY <2>1, <2>2
<1>11. Fits(r)
  BY <1>2, <1>6, <1>7, <1>9, <1>10, LenProperties, RioAssumption DEF Fits
<1> QED  BY <1>2, <1>5, <1>11

-----------------------------------------------------------------------------
(* A reader and its input.                                                 *)

\* Where in its input a reader's line begins, when it has taken n symbols.
Start(rd, n) == n - Len(rd.line) - Len(rd.buf)

\* InStep, symbol by symbol, and with what else rio_readlineb keeps true.
InTouch(rd, s, n) ==
  /\ Fits(rd)
  /\ n \in 0 .. Len(s)
  /\ Start(rd, n) \in Cuts(s)
  /\ \A k \in 1 .. Len(rd.line) : rd.line[k] = s[Start(rd, n) + k]
  /\ \A k \in 1 .. Len(rd.buf) : rd.buf[k] = s[Start(rd, n) + Len(rd.line) + k]

\* line is what s holds behind p.
Lies(line, s, p) == \A k \in 1 .. Len(line) : line[k] = s[p + k]

\* What lies in a sequence behind p, piece by piece, lies there as a whole.
LEMMA Adjacent ==
  ASSUME NEW line \in Seq(STRING), NEW buf \in Seq(STRING), NEW s \in Seq(STRING),
         NEW p \in Nat, NEW n \in Nat, p + Len(line) + Len(buf) = n, n <= Len(s),
         Lies(line, s, p), Lies(buf, s, p + Len(line))
  PROVE  /\ Len(line \o buf) = Len(line) + Len(buf)
         /\ line \o buf = SubSeq(s, p + 1, n)
<1> DEFINE a == Len(line)
           b == Len(buf)
           held == line \o buf
           part == SubSeq(s, p + 1, n)
<1>1. a \in Nat /\ b \in Nat /\ Len(s) \in Nat /\ p + a + b = n
  BY LenProperties
<1>2. /\ held \in Seq(STRING)
      /\ Len(held) = a + b
      /\ \A i \in 1 .. a + b : held[i] = IF i <= a THEN line[i] ELSE buf[i - a]
  BY ConcatProperties, Zenon
<1>3. /\ part \in Seq(STRING)
      /\ Len(part) = IF p + 1 <= n THEN n - (p + 1) + 1 ELSE 0
      /\ \A i \in 1 .. n - (p + 1) + 1 : part[i] = s[p + 1 + i - 1]
  <2>1. p + 1 \in Int /\ n \in Int /\ \A i \in p + 1 .. n : s[i] \in STRING
    BY ElementOfSeq, LenProperties
  <2> QED  BY <2>1, SubSeqProperties, SMTT(60)
<1>4. /\ \A k \in 1 .. a : line[k] = s[p + k]
      /\ \A k \in 1 .. b : buf[k] = s[p + a + k]
  BY DEF Lies
<1> HIDE DEF a, b, held, part
<1>5. Len(held) = Len(part)
  BY <1>1, <1>2, <1>3
<1>6. ASSUME NEW i \in 1 .. a + b PROVE held[i] = part[i]
  <2>1. part[i] = s[p + i]
    <3>1. p + 1 + i - 1 = p + i /\ i \in 1 .. n - (p + 1) + 1
      BY <1>1
    <3> QED  BY <1>3, <3>1, Zenon
  <2>2. CASE i <= a
    <3>1. i \in 1 .. a
      BY <1>1, <2>2
    <3>2. held[i] = line[i]
      BY <1>2, <2>2
    <3>3. line[i] = s[p + i]
      BY <1>4, <3>1, Zenon
    <3> QED  BY <2>1, <3>2, <3>3
  <2>3. CASE ~ (i <= a)
    <3>1. i - a \in 1 .. b /\ p + a + (i - a) = p + i
      BY <1>1, <2>3
    <3>2. held[i] = buf[i - a]
      BY <1>2, <2>3
    <3>3. buf[i - a] = s[p + a + (i - a)]
      BY <1>4, <3>1, Zenon
    <3> QED  BY <2>1, <3>1, <3>2, <3>3
  <2> QED  BY <2>2, <2>3
<1>7. held = part
  BY <1>2, <1>3, <1>5, <1>6, SeqEqual
<1> QED  BY <1>2, <1>7 DEF held, part, a, b

\* One piece alone.
LEMMA InPlace ==
  ASSUME NEW line \in Seq(STRING), NEW s \in Seq(STRING), NEW p \in Nat,
         p + Len(line) <= Len(s), \A k \in 1 .. Len(line) : line[k] = s[p + k]
  PROVE  line = SubSeq(s, p + 1, p + Len(line))
<1> DEFINE e == <<>>
           n == p + Len(line)
<1>1. e \in Seq(STRING) /\ Len(e) = 0 /\ line \o e = line
  BY EmptySeq, ConcatEmptySeq
<1>2. n \in Nat /\ p + Len(line) + Len(e) = n /\ n <= Len(s)
  BY <1>1, LenProperties
<1>3. Lies(line, s, p) /\ Lies(e, s, p + Len(line))
  BY <1>1 DEF Lies
<1> HIDE DEF e, n
<1>4. /\ line \in Seq(STRING) /\ e \in Seq(STRING) /\ s \in Seq(STRING)
      /\ p \in Nat /\ n \in Nat /\ p + Len(line) + Len(e) = n /\ n <= Len(s)
      /\ Lies(line, s, p) /\ Lies(e, s, p + Len(line))
  BY <1>1, <1>2, <1>3
<1>5. Len(line \o e) = Len(line) + Len(e) /\ line \o e = SubSeq(s, p + 1, n)
  BY <1>4, Adjacent, SMTT(30)
<1> QED  BY <1>1, <1>5 DEF n

\* The numbers of a reader in touch.
LEMMA InTouchNumbers ==
  ASSUME NEW rd, NEW s \in Seq(STRING), NEW n, InTouch(rd, s, n)
  PROVE  /\ rd.line \in Seq(STRING) /\ rd.buf \in Seq(STRING)
         /\ Len(rd.line) \in Nat /\ Len(rd.buf) \in Nat /\ Len(s) \in Nat
         /\ n \in 0 .. Len(s)
         /\ Start(rd, n) \in 0 .. Len(s)
         /\ Start(rd, n) + Len(rd.line) + Len(rd.buf) = n
<1>1. /\ rd.line \in Seq(STRING) /\ rd.buf \in Seq(STRING)
      /\ n \in 0 .. Len(s) /\ Start(rd, n) \in 0 .. Len(s)
  BY DEF InTouch, Fits, Cuts
<1> DEFINE a == Len(rd.line)
           b == Len(rd.buf)
<1>2. a \in Nat /\ b \in Nat /\ Len(s) \in Nat
  BY <1>1, LenProperties
<1>3. Start(rd, n) = n - a - b
  BY DEF Start
<1> HIDE DEF a, b
<1>4. Start(rd, n) + a + b = n
  BY <1>1, <1>2, <1>3
<1> QED  BY <1>1, <1>2, <1>4 DEF a, b

LEMMA InTouchInStep ==
  ASSUME NEW rd, NEW s \in Seq(STRING), NEW n, InTouch(rd, s, n)
  PROVE  InStep(rd, s, Cuts(s), n)
<1> DEFINE p == Start(rd, n)
           held == rd.line \o rd.buf
<1>1. /\ Len(held) = Len(rd.line) + Len(rd.buf)
      /\ held = SubSeq(s, p + 1, n)
  <2>1. /\ \A k \in 1 .. Len(rd.line) : rd.line[k] = s[p + k]
        /\ \A k \in 1 .. Len(rd.buf) : rd.buf[k] = s[p + Len(rd.line) + k]
    BY DEF InTouch
  <2>2. p \in Nat /\ n \in Nat /\ n <= Len(s)
    BY InTouchNumbers, SMTT(30)
  <2>3. /\ rd.line \in Seq(STRING) /\ rd.buf \in Seq(STRING)
        /\ p + Len(rd.line) + Len(rd.buf) = n
    BY InTouchNumbers
  <2> DEFINE l == rd.line
             b == rd.buf
  <2>4. /\ l \in Seq(STRING) /\ b \in Seq(STRING) /\ p \in Nat /\ n \in Nat
        /\ p + Len(l) + Len(b) = n /\ n <= Len(s)
        /\ Lies(l, s, p) /\ Lies(b, s, p + Len(l))
    BY <2>1, <2>2, <2>3 DEF Lies
  <2> HIDE DEF p, l, b
  <2>5. Len(l \o b) = Len(l) + Len(b) /\ l \o b = SubSeq(s, p + 1, n)
    BY <2>4, Adjacent
  <2> QED  BY <2>5 DEF l, b
<1>2. p = n - Len(held)
  <2>1. Len(held) \in Nat /\ p + Len(held) = n
    <3> DEFINE a == Len(rd.line)
               b == Len(rd.buf)
    <3>1. a \in Nat /\ b \in Nat /\ p \in Nat /\ p + a + b = n
      BY InTouchNumbers
    <3>2. Len(held) = a + b
      BY <1>1
    <3> HIDE DEF a, b, p, held
    <3> QED  BY <3>1, <3>2
  <2>2. p \in Nat /\ n \in Nat
    BY InTouchNumbers
  <2> HIDE DEF p, held
  <2> QED  BY <2>1, <2>2
<1>3. p \in Cuts(s) /\ (rd.buf # <<>> => LineFull(rd.line))
  BY DEF InTouch, Fits
<1> HIDE DEF p, held
<1> QED
  <2>1. n - Len(held) \in Cuts(s) /\ held = SubSeq(s, n - Len(held) + 1, n)
    BY <1>1, <1>2, <1>3
  <2> QED  BY <2>1, <1>3 DEF InStep, held

\* A new reader is in step with its input.
LEMMA InTouchAtStart ==
  ASSUME NEW s \in Seq(STRING)
  PROVE  InTouch(InitB, s, 0) /\ Start(InitB, 0) = 0
<1>1. InitB.line = <<>> /\ InitB.buf = <<>> /\ Len(<<>>) = 0 /\ <<>> \in Seq(STRING)
  BY EmptySeq DEF InitB
<1>2. Len(s) \in Nat /\ Start(InitB, 0) = 0
  <2>1. Start(InitB, 0) = 0 - 0 - 0
    BY <1>1 DEF Start
  <2> QED  BY <2>1, LenProperties
<1>3. 0 \in Cuts(s)
  <2>1. (0 - 0) % (MaxLine - 1) = 0
    BY RioAssumption
  <2> QED  BY <1>2, <2>1 DEF Cuts
<1>4. Fits(InitB)
  BY <1>1, RioAssumption DEF Fits, Clean, InitB
<1> QED  BY <1>1, <1>2, <1>3, <1>4 DEF InTouch

\* A line begins where a complete line ends.
LEMMA NextCut ==
  ASSUME NEW line \in Seq(STRING), NEW s \in Seq(STRING), NEW p \in Cuts(s),
         p + Len(line) <= Len(s), Clean(line), LineFull(line),
         \A k \in 1 .. Len(line) : line[k] = s[p + k]
  PROVE  p + Len(line) \in Cuts(s)
<1> DEFINE a == Len(line)
           q == p + a
<1>1. a \in Nat /\ Len(s) \in Nat /\ p \in 0 .. Len(s) /\ q \in 0 .. Len(s) /\ q = p + a
  BY LenProperties DEF Cuts
<1>2. \A k \in 1 .. a : line[k] = s[p + k]
  OBVIOUS
<1>3. CASE line # <<>> /\ Last(line) = "\n"
  <2>1. a \in 1 .. a /\ line[a] = "\n"
    BY <1>1, <1>3, EmptySeq DEF Last
  <2>2. s[q] = "\n"
    BY <1>2, <2>1
  <2>3. (q - q) % (MaxLine - 1) = 0
    BY <1>1, RioAssumption
  <2> HIDE DEF q, a
  <2>4. \A j \in q + 1 .. q : s[j] # "\n"
    BY <1>1
  <2>5. q \in 0 .. q
    BY <1>1
  <2>6. q \in Cuts(s)
    BY <1>1, <2>2, <2>3, <2>4, <2>5 DEF Cuts
  <2> QED  BY <2>6 DEF q, a
<1>4. CASE ~ (line # <<>> /\ Last(line) = "\n")
  <2>1. a = MaxLine - 1 /\ MaxLine - 1 \in Nat \ {0}
    BY <1>4, RioAssumption DEF LineFull
  <2>2. ASSUME NEW j \in 1 .. a PROVE line[j] # "\n"
    <3>1. CASE j = a
      BY <1>1, <1>4, <3>1, EmptySeq DEF Last
    <3>2. CASE j # a
      BY <1>1, <3>2 DEF Clean
    <3> QED  BY <3>1, <3>2
  <2> HIDE DEF q, a
  <2>3. p # Len(s)
    <3>1. a > 0
      BY <2>1, RioAssumption
    <3> QED  BY <1>1, <3>1
  <2>4. PICK k \in 0 .. p : /\ k = 0 \/ s[k] = "\n"
                            /\ \A j \in k + 1 .. p : s[j] # "\n"
                            /\ (p - k) % (MaxLine - 1) = 0
    BY <2>3 DEF Cuts
  <2>5. ASSUME NEW j \in k + 1 .. q PROVE s[j] # "\n"
    <3>1. CASE j <= p
      BY <1>1, <2>4, <3>1
    <3>2. CASE j > p
      <4>1. j - p \in 1 .. a /\ p + (j - p) = j
        BY <1>1, <3>2
      <4>2. line[j - p] = s[p + (j - p)]
        BY <1>2, <4>1, Zenon
      <4> QED  BY <2>2, <4>1, <4>2
    <3> QED  BY <1>1, <3>1, <3>2
  <2>6. (q - k) % (MaxLine - 1) = 0
    <3> DEFINE d == MaxLine - 1
               e == p - k
    <3>1. d \in Nat \ {0} /\ e \in Nat /\ e % d = 0
      BY <1>1, <2>1, <2>4
    <3>2. q - k = e + d
      BY <1>1, <2>1
    <3> HIDE DEF d, e
    <3>3. (e + d) % d = 0
      BY <3>1, StepOfDivisor
    <3> QED  BY <3>2, <3>3 DEF d
  <2>7. k \in 0 .. q
    BY <1>1
  <2>8. q \in Cuts(s)
    BY <1>1, <2>4, <2>5, <2>6, <2>7 DEF Cuts
  <2> QED  BY <2>8 DEF q, a
<1> QED  BY <1>3, <1>4

\* Scan of a line and a buffer that lie in the input, one behind the other.
LEMMA ScanInTouch ==
  ASSUME NEW line \in Seq(STRING), NEW buf \in Seq(STRING), NEW s \in Seq(STRING),
         NEW p \in Cuts(s), NEW n \in 0 .. Len(s), p + Len(line) + Len(buf) = n,
         Len(line) < MaxLine, Clean(line), ~LineFull(line), Len(buf) <= RioBufSize,
         \A k \in 1 .. Len(line) : line[k] = s[p + k],
         \A k \in 1 .. Len(buf) : buf[k] = s[p + Len(line) + k]
  PROVE  InTouch(Scan(line, buf), s, n) /\ Start(Scan(line, buf), n) = p
<1> DEFINE r == Scan(line, buf)
<1>1. PICK m \in 0 .. Len(buf) :
        /\ r = [line |-> line \o UpTo(buf, m), buf |-> Beyond(buf, m)]
        /\ Fits(r)
  BY ScanMoves
<1> DEFINE a == Len(line)
           b == Len(buf)
           l2 == r.line
           b2 == r.buf
<1>2. a \in Nat /\ b \in Nat /\ Len(s) \in Nat /\ p \in 0 .. Len(s) /\ m \in 0 .. b
  BY LenProperties DEF Cuts
<1>3. /\ UpTo(buf, m) \in Seq(STRING) /\ Len(UpTo(buf, m)) = m
      /\ \A k \in 1 .. m : UpTo(buf, m)[k] = buf[k]
      /\ Len(b2) = b - m
      /\ \A k \in 1 .. b - m : b2[k] = buf[m + k]
  <2>1. b2 = Beyond(buf, m)
    BY <1>1
  <2> HIDE DEF b2
  <2> QED  BY <2>1, UpToBeyond
<1>4. /\ Len(l2) = a + m
      /\ \A k \in 1 .. a + m : l2[k] = IF k <= a THEN line[k] ELSE UpTo(buf, m)[k - a]
  <2>1. l2 = line \o UpTo(buf, m)
    BY <1>1
  <2>2. /\ Len(line \o UpTo(buf, m)) = a + Len(UpTo(buf, m))
        /\ \A k \in 1 .. a + Len(UpTo(buf, m)) :
             (line \o UpTo(buf, m))[k] = IF k <= a THEN line[k] ELSE UpTo(buf, m)[k - a]
    BY <1>3, ConcatProperties, ZenonT(40)
  <2> HIDE DEF l2
  <2> QED  BY <1>3, <2>1, <2>2
<1>5. /\ \A k \in 1 .. a : line[k] = s[p + k]
      /\ \A k \in 1 .. b : buf[k] = s[p + a + k]
      /\ p + a + b = n
  OBVIOUS
<1>6. Start(r, n) = n - Len(l2) - Len(b2)
  BY DEF Start
<1> HIDE DEF a, b, l2, b2
<1>7. Start(r, n) = p
  <2>1. /\ a \in Int /\ b \in Int /\ m \in Int /\ p \in Int
        /\ Len(l2) = a + m /\ Len(b2) = b - m /\ p + a + b = n
    BY <1>2, <1>3, <1>4, <1>5
  <2> QED  BY <1>6, <2>1
<1>8. ASSUME NEW k \in 1 .. a + m PROVE l2[k] = s[p + k]
  <2>1. CASE k <= a
    <3>1. k \in 1 .. a
      BY <1>2, <2>1
    <3>2. l2[k] = line[k]
      BY <1>4, <2>1
    <3> QED  BY <1>5, <3>1, <3>2, Zenon
  <2>2. CASE ~ (k <= a)
    <3>1. k - a \in 1 .. m /\ k - a \in 1 .. b /\ p + a + (k - a) = p + k
      BY <1>2, <2>2
    <3>2. l2[k] = UpTo(buf, m)[k - a]
      BY <1>4, <2>2
    <3>3. UpTo(buf, m)[k - a] = buf[k - a]
      BY <1>3, <3>1, Zenon
    <3>4. buf[k - a] = s[p + a + (k - a)]
      BY <1>5, <3>1, Zenon
    <3> QED  BY <3>1, <3>2, <3>3, <3>4
  <2> QED  BY <2>1, <2>2
<1>9. ASSUME NEW k \in 1 .. b - m PROVE b2[k] = s[p + Len(l2) + k]
  <2>1. m + k \in 1 .. b /\ p + a + (m + k) = p + Len(l2) + k
    BY <1>2, <1>4
  <2>2. b2[k] = buf[m + k]
    BY <1>3
  <2>3. buf[m + k] = s[p + a + (m + k)]
    BY <1>5, <2>1, Zenon
  <2> QED  BY <2>1, <2>2, <2>3
<1>10. InTouch(r, s, n)
  <2>1. /\ \A k \in 1 .. Len(r.line) : r.line[k] = s[p + k]
        /\ \A k \in 1 .. Len(r.buf) : r.buf[k] = s[p + Len(r.line) + k]
    BY <1>3, <1>4, <1>8, <1>9 DEF l2, b2
  <2> HIDE DEF r
  <2> QED  BY <1>1, <1>7, <2>1, ZenonT(40) DEF InTouch
<1> QED  BY <1>7, <1>10

\* rio_readlineb for the next line, where the last one is complete.
LEMMA NextLineInTouch ==
  ASSUME NEW rd, NEW s \in Seq(STRING), NEW n, InTouch(rd, s, n),
         LineFull(rd.line) \/ (rd.buf = <<>> /\ n = Len(s))
  PROVE  /\ InTouch(NextLine(rd), s, n)
         /\ Start(NextLine(rd), n) = Start(rd, n) + Len(rd.line)
<1> DEFINE l == rd.line
           b == rd.buf
           p == Start(rd, n)
           q == p + Len(l)
<1>1. /\ l \in Seq(STRING) /\ b \in Seq(STRING)
      /\ Len(l) \in Nat /\ Len(b) \in Nat /\ Len(s) \in Nat
      /\ n \in 0 .. Len(s) /\ p \in 0 .. Len(s) /\ p + Len(l) + Len(b) = n
  BY InTouchNumbers
<1>2. /\ p \in Cuts(s) /\ Clean(l) /\ Len(b) <= RioBufSize
      /\ \A k \in 1 .. Len(l) : l[k] = s[p + k]
      /\ \A k \in 1 .. Len(b) : b[k] = s[p + Len(l) + k]
      /\ LineFull(l) \/ (b = <<>> /\ n = Len(s))
  BY DEF InTouch, Fits
<1>e. PICK e : e = <<>>
  OBVIOUS
<1>3. NextLine(rd) = Scan(e, b)
  BY <1>e DEF NextLine
<1> HIDE DEF l, b, p
<1>4. q \in Cuts(s)
  <2>1. CASE LineFull(l)
    <3>1. p + Len(l) <= Len(s)
      BY <1>1
    <3> QED  BY <1>1, <1>2, <2>1, <3>1, NextCut
  <2>2. CASE b = <<>> /\ n = Len(s)
    <3>1. Len(b) = 0
      BY <2>2
    <3>2. q = Len(s)
      BY <1>1, <2>2, <3>1
    <3> QED  BY <1>1, <3>2 DEF Cuts
  <2> QED  BY <1>2, <2>1, <2>2
<1>5. /\ e \in Seq(STRING) /\ Len(e) < MaxLine
      /\ Clean(e) /\ ~LineFull(e)
  BY <1>e, EmptySeq, RioAssumption DEF Clean, LineFull
<1>l. Len(e) = 0
  BY <1>e
<1>6. q \in Nat /\ q + Len(e) + Len(b) = n
  <2>1. q \in Nat /\ q + 0 + Len(b) = n
    BY <1>1
  <2> HIDE DEF q
  <2> QED  BY <1>l, <2>1, Zenon
<1>7. /\ \A k \in 1 .. Len(e) : e[k] = s[q + k]
      /\ \A k \in 1 .. Len(b) : b[k] = s[q + Len(e) + k]
  <2>1. \A k \in 1 .. 0 : e[k] = s[q + k]
    OBVIOUS
  <2>2. \A k \in 1 .. Len(b) : b[k] = s[q + k]
    BY <1>2
  <2>3. q + 0 = q
    BY <1>6
  <2> HIDE DEF q
  <2> QED  BY <1>l, <2>1, <2>2, <2>3, Zenon
<1> HIDE DEF q
<1>8. InTouch(Scan(e, b), s, n) /\ Start(Scan(e, b), n) = q
  <2>1. /\ b \in Seq(STRING) /\ n \in 0 .. Len(s) /\ q + Len(e) + Len(b) = n
        /\ Len(b) <= RioBufSize
    BY <1>1, <1>2, <1>6
  <2> QED  BY <1>4, <1>5, <1>7, <2>1, ScanInTouch
<1> QED  BY <1>3, <1>8 DEF l, p, q

\* rio_readlineb after a read(): m symbols more have been taken.
LEMMA RefillInTouch ==
  ASSUME NEW rd, NEW s \in Seq(STRING), NEW n, InTouch(rd, s, n),
         NeedsInput(rd), NEW m \in Chunks(Beyond(s, n))
  PROVE  /\ InTouch(Refill(rd, Beyond(s, n), m), s, n + m)
         /\ Start(Refill(rd, Beyond(s, n), m), n + m) = Start(rd, n)
         /\ n + m \in 0 .. Len(s) /\ m > 0
<1> DEFINE l == rd.line
           p == Start(rd, n)
           input == Beyond(s, n)
           b == UpTo(input, m)
<1>1. /\ l \in Seq(STRING) /\ Len(l) \in Nat /\ Len(s) \in Nat
      /\ n \in 0 .. Len(s) /\ p \in 0 .. Len(s) /\ p + Len(l) + 0 = n
  <2>1. rd.buf = <<>> /\ Len(<<>>) = 0
    BY EmptySeq DEF NeedsInput
  <2> QED  BY <2>1, InTouchNumbers
<1>2. /\ p \in Cuts(s) /\ Clean(l) /\ ~LineFull(l) /\ Len(l) < MaxLine
      /\ \A k \in 1 .. Len(l) : l[k] = s[p + k]
  BY DEF InTouch, Fits, NeedsInput
<1>3. /\ input \in Seq(STRING) /\ Len(input) = Len(s) - n
      /\ \A k \in 1 .. Len(s) - n : input[k] = s[n + k]
  BY <1>1, UpToBeyond
<1>4. Refill(rd, input, m) = Scan(l, b)
  BY DEF Refill
<1>5. m \in Nat /\ m > 0 /\ m <= Len(s) - n /\ m <= RioBufSize
  <2> DEFINE least == Min({Len(input), RioBufSize})
  <2>1. {Len(input), RioBufSize} \in SUBSET Nat
    BY <1>3, LenProperties, RioAssumption
  <2>2. least \in Nat /\ least <= Len(input) /\ least <= RioBufSize
    BY <2>1, MinOf
  <2>3. m \in 1 .. least
    BY DEF Chunks
  <2> HIDE DEF least
  <2>4. m \in Nat /\ m > 0 /\ m <= least
    BY <2>2, <2>3
  <2>5. Len(input) = Len(s) - n /\ Len(input) \in Nat /\ RioBufSize \in Nat
    BY <1>3, <2>1
  <2> HIDE DEF input
  <2> QED  BY <2>2, <2>4, <2>5
<1> HIDE DEF l, p, input
<1>6. b \in Seq(STRING) /\ Len(b) = m /\ \A k \in 1 .. m : b[k] = input[k]
  <2>1. m \in 0 .. Len(input)
    BY <1>1, <1>3, <1>5
  <2> QED  BY <1>3, <2>1, UpToBeyond
<1> HIDE DEF b
<1>7. n + m \in 0 .. Len(s) /\ p + Len(l) + Len(b) = n + m
  <2>1. Len(b) = m
    BY <1>6
  <2>2. n + m \in 0 .. Len(s)
    BY <1>1, <1>5
  <2>3. p + Len(l) + m = n + m
    BY <1>1, <1>5
  <2> QED  BY <2>1, <2>2, <2>3
<1>8. ASSUME NEW k \in 1 .. Len(b) PROVE b[k] = s[p + Len(l) + k]
  <2>1. k \in 1 .. m
    BY <1>6
  <2>2. k \in 1 .. Len(s) - n /\ p + Len(l) + k = n + k
    BY <1>1, <1>5, <2>1
  <2> QED  BY <1>3, <1>6, <2>1, <2>2
<1>9. Len(b) <= RioBufSize
  BY <1>5, <1>6
<1>10. InTouch(Scan(l, b), s, n + m) /\ Start(Scan(l, b), n + m) = p
  BY <1>1, <1>2, <1>6, <1>7, <1>8, <1>9, ScanInTouch, ZenonT(40)
<1> QED  BY <1>4, <1>5, <1>7, <1>10 DEF l, p, input

-----------------------------------------------------------------------------
(* Types.                                                                  *)

ClientStates == {"new", "here", "gone", "end", "reset"}
Labels == {"idle", "request", "header1", "header", "map", "mapEmpty", "write", "fork",
           "wait", "close"}
Readers == [line : Seq(STRING), buf : Seq(STRING)]
Children == [pc : {"none", "forked", "running", "ended"}, holds : SUBSET Conns]
Kinds == {"none", "static", "dynamic", "failed", "404", "403", "501"}
Answers == [kind : Kinds, by : Workers \cup {Nobody}, count : Nat]
Counts == [handled : Nat, stat : Nat, dyn : Nat]
Pieces == (STRING \X Nat) \cup {"page", "log"}

\* The variables as functions; the sequences, but for what is in them.
Types ==
  /\ stream \in [Conns -> Seq(STRING)]
  /\ client \in [Conns -> ClientStates]
  /\ taken \in [Conns -> Nat]
  /\ waiting \in SUBSET Conns
  /\ open \in SUBSET Conns
  /\ pc \in [Workers -> Labels]
  /\ conn \in [Workers -> Conns \cup {NoConn}]
  /\ rio \in [Workers -> Readers]
  /\ stats \in [Workers -> Counts]
  /\ child \in [Workers -> Children]
  /\ files \in [Names -> FileKinds]
  /\ answer \in [Conns -> Answers]
  /\ DOMAIN uri = Workers
  /\ DOMAIN todo = Workers
  /\ DOMAIN out = Conns
  /\ mishaps \in Nat

\* Which worker has which connection, and what each connection has seen.
Held ==
  /\ \A w \in Workers : conn[w] = NoConn <=> pc[w] = "idle"
  /\ \A v, w \in Workers : conn[v] = conn[w] /\ conn[v] # NoConn => v = w
  /\ \A w \in Workers : conn[w] \notin waiting
  /\ \A c \in waiting : client[c] # "new"
  /\ \A w \in Workers : conn[w] # NoConn => client[conn[w]] # "new"

\* A connection nobody has popped is untouched.
Fresh ==
  \A c \in Conns : c \in waiting \/ client[c] = "new"
    => taken[c] = 0 /\ answer[c] = NoAnswer /\ out[c] = <<>>

\* How far a worker is with the answer to its connection, and its CGI child.
Answering ==
  \A w \in Workers :
    /\ pc[w] \in {"request", "header1", "header"}
         => answer[conn[w]] = NoAnswer /\ out[conn[w]] = <<>>
    /\ pc[w] \in {"map", "mapEmpty", "write", "fork", "wait", "close"}
         => answer[conn[w]].by = w
    /\ pc[w] \in {"map", "mapEmpty"} => answer[conn[w]].kind = "static"
    /\ pc[w] = "fork" => answer[conn[w]].kind = "dynamic"
    /\ pc[w] # "wait" => child[w] = NoChild
    /\ child[w].pc \in {"forked", "running"} => answer[conn[w]].kind = "dynamic"
    /\ child[w].pc = "ended" => answer[conn[w]].kind \in {"dynamic", "failed"}

LEMMA InitTypes == Init => Types /\ Held /\ Fresh /\ Answering
<1> SUFFICES ASSUME Init PROVE Types /\ Held /\ Fresh /\ Answering
  OBVIOUS
<1>1. InitB \in Readers /\ ZeroStats \in Counts
  BY EmptySeq DEF InitB, ZeroStats, Readers, Counts
<1>2. NoChild \in Children /\ NoAnswer \in Answers
  BY DEF NoChild, NoAnswer, Children, Answers, Kinds
<1>3. Types
  BY <1>1, <1>2, HandlingAssumption
     DEF Init, Types, ClientStates, Labels
<1>4. Held /\ Fresh
  BY DEF Init, Held, Fresh
<1>5. Answering
  BY DEF Init, Answering, NoChild
<1> QED  BY <1>3, <1>4, <1>5

LEMMA StepTypes ==
  ASSUME Types, Held, Fresh, Answering, [Next]_vars,
         rio' \in [Workers -> Readers], taken' \in [Conns -> Nat]
  PROVE  Types'
<1> USE DEF clients, world, server, reading, writing
<1>a. ASSUME NEW w \in Workers, pc[w] # "idle"
      PROVE  conn[w] \in Conns
  BY <1>a DEF Types, Held
<1>b. ASSUME NEW w \in Workers, child[w].pc # "none"
      PROVE  pc[w] = "wait" /\ conn[w] \in Conns
  BY <1>a, <1>b DEF Answering, NoChild
<1>c. ASSUME NEW w \in Workers, pc[w] # "idle", NEW kind \in Kinds, NEW count \in Nat,
             BeginAnswer(w, kind, count)
      PROVE  answer' \in [Conns -> Answers] /\ DOMAIN todo' = Workers
  BY <1>a, <1>c DEF Types, BeginAnswer, Answers
<1>1. ASSUME NEW w \in Workers, Take(w) PROVE Types'
  BY <1>1 DEF Take, Types, Goto, At, Labels
<1>2. ASSUME NEW w \in Workers, RioRead(w) PROVE Types'
  BY <1>2 DEF RioRead, Types, Goto, At, UnixError, BeginAnswer, ChildEnds
<1>3. ASSUME NEW w \in Workers, RioReadFails(w) PROVE Types'
  BY <1>3 DEF RioReadFails, Types, Goto, At, UnixError, BeginAnswer, ChildEnds
<1>4. ASSUME NEW w \in Workers, RequestLine(w) PROVE Types'
  <2>1. PICK p \in Parsed(rio[w].line) :
          /\ stats' = [stats EXCEPT ![w] = Count(@, p[1])]
          /\ IF p[1] = "GET"
             THEN /\ uri' = [uri EXCEPT ![w] = p[2]]
                  /\ Goto(w, "header1")
                  /\ UNCHANGED writing
             ELSE /\ BeginAnswer(w, "501", stats'[w].handled)
                  /\ Goto(w, "write")
                  /\ UNCHANGED <<uri, out>>
    BY <1>4 DEF RequestLine
  <2>2. stats' \in [Workers -> Counts]
    <3>1. stats[w] \in Counts
      BY DEF Types
    <3>2. [stats[w] EXCEPT !.handled = @ + 1] \in Counts
      BY <3>1 DEF Counts
    <3>3. Count(stats[w], p[1]) \in Counts
      BY <3>2 DEF Count
    <3> QED  BY <2>1, <3>3 DEF Types
  <2>3. stats'[w].handled \in Nat
    BY <2>2 DEF Counts
  <2>4. answer' \in [Conns -> Answers] /\ DOMAIN todo' = Workers
    <3>1. pc[w] # "idle" /\ "501" \in Kinds
      BY <1>4 DEF RequestLine, At, Kinds
    <3>2. CASE p[1] = "GET"
      BY <2>1, <3>2 DEF Types
    <3>3. CASE p[1] # "GET"
      BY <2>1, <2>3, <3>1, <3>3, <1>c
    <3> QED  BY <3>2, <3>3
  <2>5. pc' \in [Workers -> Labels] /\ DOMAIN uri' = Workers /\ DOMAIN out' = Conns
    BY <2>1 DEF Types, Goto, Labels
  <2> QED  BY <1>4, <2>2, <2>4, <2>5 DEF RequestLine, Types
<1>5. ASSUME NEW w \in Workers, HeaderLine(w) PROVE Types'
  BY <1>5 DEF HeaderLine, Types, Goto, At, Labels
<1>6. ASSUME NEW w \in Workers, Lookup(w) PROVE Types'
  <2> DEFINE kind == Verdict(uri[w])
  <2>1. kind \in Kinds /\ pc[w] # "idle"
    BY <1>6 DEF Lookup, HeadersEnd, At, Verdict, Kinds
  <2>2. stats' \in [Workers -> Counts]
    <3>1. stats[w] \in Counts
      BY DEF Types
    <3> DEFINE st == [stats[w] EXCEPT
                        !.stat = IF kind = "static" THEN @ + 1 ELSE @,
                        !.dyn  = IF kind = "dynamic" THEN @ + 1 ELSE @]
    <3>2. st \in Counts
      <4> HIDE DEF kind
      <4>1. stats[w].stat \in Nat /\ stats[w].dyn \in Nat
        BY <3>1 DEF Counts
      <4>2. /\ (IF kind = "static" THEN stats[w].stat + 1 ELSE stats[w].stat) \in Nat
            /\ (IF kind = "dynamic" THEN stats[w].dyn + 1 ELSE stats[w].dyn) \in Nat
        BY <4>1
      <4> QED  BY <3>1, <4>2 DEF Counts
    <3>3. stats' = [stats EXCEPT ![w] = st]
      BY <1>6 DEF Lookup, Types
    <3> HIDE DEF st
    <3> QED  BY <3>2, <3>3 DEF Types
  <2>3. stats[w].handled \in Nat
    BY DEF Types, Counts
  <2>4. answer' \in [Conns -> Answers] /\ DOMAIN todo' = Workers
    <3>1. BeginAnswer(w, kind, stats[w].handled)
      BY <1>6 DEF Lookup
    <3> HIDE DEF kind
    <3> QED  BY <2>1, <2>3, <3>1, <1>c
  <2>5. pc' \in [Workers -> Labels]
    BY <1>6 DEF Lookup, Types, Goto, Labels
  <2> QED  BY <1>6, <2>2, <2>4, <2>5 DEF Lookup, Types
<1>7. ASSUME NEW w \in Workers, MapFile(w) PROVE Types'
  BY <1>7 DEF MapFile, Types, Goto, At, Labels
<1>8. ASSUME NEW w \in Workers, MapFileFails(w) PROVE Types'
  BY <1>8 DEF MapFileFails, Types, Goto, At, UnixError, BeginAnswer, ChildEnds
<1>9. ASSUME NEW w \in Workers, RioWrite(w) PROVE Types'
  <2>1. pc' \in [Workers -> Labels]
    BY <1>9 DEF RioWrite, Types, Goto, Labels
  <2>2. DOMAIN todo' = Workers /\ DOMAIN out' = Conns
    BY <1>9 DEF RioWrite, Types
  <2> QED  BY <1>9, <2>1, <2>2 DEF RioWrite, Types
<1>10. ASSUME NEW w \in Workers, RioWriteFails(w) PROVE Types'
  BY <1>10 DEF RioWriteFails, Types, Goto, At, UnixError, BeginAnswer, ChildEnds
<1>11. ASSUME NEW w \in Workers, ForkChild(w) PROVE Types'
  BY <1>11 DEF ForkChild, Types, Goto, At, Labels, Children
<1>12. ASSUME NEW w \in Workers, ForkFails(w) PROVE Types'
  BY <1>12 DEF ForkFails, Types, Goto, At, UnixError, BeginAnswer, ChildEnds
<1>13. ASSUME NEW w \in Workers, WaitChild(w) PROVE Types'
  BY <1>13 DEF WaitChild, Types, Goto, At, Labels, Children, NoChild
<1>14. ASSUME NEW w \in Workers, CloseConn(w) PROVE Types'
  BY <1>14 DEF CloseConn, Types, Goto, At, Labels
<1>15. ASSUME NEW w \in Workers, ChildRuns(w) PROVE Types'
  <2>1. child[w] \in Children
    BY DEF Types
  <2>2. [child[w] EXCEPT !.pc = "running"] \in Children
    BY <2>1 DEF Children
  <2>3. child' \in [Workers -> Children]
    BY <1>15, <2>2 DEF ChildRuns, Types
  <2> QED  BY <1>15, <2>3 DEF ChildRuns, Types
<1>16. ASSUME NEW w \in Workers, ChildFails(w) PROVE Types'
  <2>1. child' \in [Workers -> Children]
    BY <1>16 DEF ChildFails, ChildEnds, Types, Children
  <2>2. answer' \in [Conns -> Answers]
    <3>1. conn[w] \in Conns /\ answer[conn[w]] \in Answers
      BY <1>16, <1>b DEF ChildFails, Types
    <3>2. [answer[conn[w]] EXCEPT !.kind = "failed"] \in Answers
      BY <3>1 DEF Answers, Kinds
    <3> QED  BY <1>16, <3>1, <3>2 DEF ChildFails, Types
  <2>3. DOMAIN out' = Conns
    BY <1>16 DEF ChildFails, Types
  <2> QED  BY <1>16, <2>1, <2>2, <2>3 DEF ChildFails, Types
<1>17. ASSUME NEW w \in Workers, ChildPrints(w) PROVE Types'
  <2>1. child' \in [Workers -> Children]
    BY <1>17 DEF ChildPrints, ChildEnds, Types, Children
  <2> QED  BY <1>17, <2>1 DEF ChildPrints, Types
<1>18. ASSUME NEW c \in Conns, Connect(c) PROVE Types'
  BY <1>18 DEF Connect, Types, ClientStates
<1>19. ASSUME NEW c \in Conns, Leave(c) PROVE Types'
  BY <1>19 DEF Leave, Types, ClientStates
<1>20. ASSUME NEW c \in Conns, SeesEnd(c) PROVE Types'
  BY <1>20 DEF SeesEnd, Types, ClientStates
<1>21. CASE FileChanges
  BY <1>21, HandlingAssumption DEF FileChanges, Types
<1>22. CASE UNCHANGED vars
  BY <1>22 DEF vars, Types
<1>23. ASSUME NEW w \in Workers, Overflow(w) PROVE Types'
  BY <1>23 DEF Overflow, Types, Goto, At, UnixError
<1> QED
  BY <1>1, <1>2, <1>3, <1>4, <1>5, <1>6, <1>7, <1>8, <1>9, <1>10, <1>11, <1>12, <1>13, <1>14, <1>15, <1>16, <1>17, <1>18, <1>19, <1>20, <1>21, <1>22, <1>23 DEF Next, WorkerStep, ChildStep

\* A worker with a connection, and one with a child.
LEMMA AtWork ==
  ASSUME Types, Held, Answering, NEW w \in Workers
  PROVE  /\ pc[w] # "idle" => conn[w] \in Conns
         /\ child[w].pc # "none" => pc[w] = "wait" /\ conn[w] \in Conns
  BY DEF Types, Held, Answering, NoChild

\* What Lookup decides.
LEMMA LookupDecides ==
  ASSUME NEW w \in Workers, Lookup(w)
  PROVE  /\ pc[w] \in {"header1", "header"} /\ exited = "no"
         /\ \E kind \in {"static", "dynamic", "404", "403"},
              l \in {"write", "map", "mapEmpty"} :
              /\ kind = Verdict(uri[w])
              /\ l # "write" <=> kind = "static"
              /\ Goto(w, l)
              /\ BeginAnswer(w, kind, stats[w].handled)
              /\ stats' = [stats EXCEPT ![w].stat = IF kind = "static" THEN @ + 1 ELSE @,
                                        ![w].dyn  = IF kind = "dynamic" THEN @ + 1 ELSE @]
         /\ UNCHANGED <<world, reading, out, waiting, open, conn, child>>
<1>1. pc[w] \in {"header1", "header"} /\ exited = "no"
  BY DEF Lookup, HeadersEnd, At
<1> DEFINE kind == Verdict(uri[w])
           l == CASE kind # "static" -> "write"
                  [] kind = "static" /\ FileOf(uri[w]) = "empty" -> "mapEmpty"
                  [] OTHER -> "map"
<1>2. kind \in {"static", "dynamic", "404", "403"}
  BY DEF Verdict
<1>3. /\ kind = Verdict(uri[w])
      /\ Goto(w, l)
      /\ BeginAnswer(w, kind, stats[w].handled)
      /\ stats' = [stats EXCEPT ![w].stat = IF kind = "static" THEN @ + 1 ELSE @,
                                ![w].dyn  = IF kind = "dynamic" THEN @ + 1 ELSE @]
      /\ UNCHANGED <<world, reading, out, waiting, open, conn, child>>
  BY DEF Lookup
<1> HIDE DEF kind
<1>4. l \in {"write", "map", "mapEmpty"} /\ (l # "write" <=> kind = "static")
  <2>1. CASE kind # "static"
    BY <2>1
  <2>2. CASE kind = "static" /\ FileOf(uri[w]) = "empty"
    BY <2>2
  <2>3. CASE kind = "static" /\ FileOf(uri[w]) # "empty"
    BY <2>3
  <2> QED  BY <2>1, <2>2, <2>3
<1> HIDE DEF l
<1> QED  BY <1>1, <1>2, <1>3, <1>4, Zenon

LEMMA StepHeld ==
  ASSUME Types, Held, Fresh, Answering, [Next]_vars, Types'
  PROVE  Held'
<1> USE DEF clients, world, server, reading, writing
<1>1. ASSUME NEW w \in Workers, Take(w) PROVE Held'
  BY <1>1 DEF Take, Held, Types, NoChild, Goto, At, UnixError, BeginAnswer, ChildEnds
<1>2. ASSUME NEW w \in Workers, RioRead(w) PROVE Held'
  BY <1>2 DEF RioRead, Held, Types, NoChild, Goto, At, UnixError, BeginAnswer, ChildEnds
<1>3. ASSUME NEW w \in Workers, RioReadFails(w) PROVE Held'
  BY <1>3 DEF RioReadFails, Held, Types, NoChild, Goto, At, UnixError, BeginAnswer, ChildEnds
<1>4. ASSUME NEW w \in Workers, RequestLine(w) PROVE Held'
  BY <1>4 DEF RequestLine, Held, Types, NoChild, Goto, At, UnixError, BeginAnswer, ChildEnds
<1>5. ASSUME NEW w \in Workers, HeaderLine(w) PROVE Held'
  BY <1>5 DEF HeaderLine, Held, Types, NoChild, Goto, At, UnixError, BeginAnswer, ChildEnds
<1>6. ASSUME NEW w \in Workers, Lookup(w) PROVE Held'
  <2>1. PICK kind \in {"static", "dynamic", "404", "403"},
             l \in {"write", "map", "mapEmpty"} :
          /\ l # "write" <=> kind = "static"
          /\ Goto(w, l)
          /\ BeginAnswer(w, kind, stats[w].handled)
    BY <1>6, LookupDecides, Zenon
  <2>2. /\ pc[w] \in {"header1", "header"}
        /\ UNCHANGED <<world, reading, out, waiting, open, conn, child>>
    BY <1>6, LookupDecides, Zenon
  <2> QED  BY <2>1, <2>2 DEF Held, Types, Goto, BeginAnswer
<1>7. ASSUME NEW w \in Workers, MapFile(w) PROVE Held'
  BY <1>7 DEF MapFile, Held, Types, NoChild, Goto, At, UnixError, BeginAnswer, ChildEnds
<1>8. ASSUME NEW w \in Workers, MapFileFails(w) PROVE Held'
  BY <1>8 DEF MapFileFails, Held, Types, NoChild, Goto, At, UnixError, BeginAnswer, ChildEnds
<1>9. ASSUME NEW w \in Workers, RioWrite(w) PROVE Held'
  BY <1>9 DEF RioWrite, Held, Types, NoChild, Goto, At, UnixError, BeginAnswer, ChildEnds
<1>10. ASSUME NEW w \in Workers, RioWriteFails(w) PROVE Held'
  BY <1>10 DEF RioWriteFails, Held, Types, NoChild, Goto, At, UnixError, BeginAnswer, ChildEnds
<1>11. ASSUME NEW w \in Workers, ForkChild(w) PROVE Held'
  BY <1>11 DEF ForkChild, Held, Types, NoChild, Goto, At, UnixError, BeginAnswer, ChildEnds
<1>12. ASSUME NEW w \in Workers, ForkFails(w) PROVE Held'
  BY <1>12 DEF ForkFails, Held, Types, NoChild, Goto, At, UnixError, BeginAnswer, ChildEnds
<1>13. ASSUME NEW w \in Workers, WaitChild(w) PROVE Held'
  BY <1>13 DEF WaitChild, Held, Types, NoChild, Goto, At, UnixError, BeginAnswer, ChildEnds
<1>14. ASSUME NEW w \in Workers, CloseConn(w) PROVE Held'
  BY <1>14, HandlingAssumption DEF CloseConn, Held, Types, Goto, At
<1>15. ASSUME NEW w \in Workers, ChildRuns(w) PROVE Held'
  BY <1>15 DEF ChildRuns, Held, Types, NoChild, Goto, At, UnixError, BeginAnswer, ChildEnds
<1>16. ASSUME NEW w \in Workers, ChildFails(w) PROVE Held'
  BY <1>16 DEF ChildFails, Held, Types, NoChild, Goto, At, UnixError, BeginAnswer, ChildEnds
<1>17. ASSUME NEW w \in Workers, ChildPrints(w) PROVE Held'
  BY <1>17 DEF ChildPrints, Held, Types, NoChild, Goto, At, UnixError, BeginAnswer, ChildEnds
<1>18. ASSUME NEW c \in Conns, Connect(c) PROVE Held'
  BY <1>18, HandlingAssumption DEF Connect, Held, Types
<1>19. ASSUME NEW c \in Conns, Leave(c) PROVE Held'
  BY <1>19 DEF Leave, Held, Types, NoChild
<1>20. ASSUME NEW c \in Conns, SeesEnd(c) PROVE Held'
  BY <1>20 DEF SeesEnd, Held, Types, NoChild
<1>21. CASE FileChanges
  BY <1>21 DEF FileChanges, Held, Types, NoChild
<1>22. CASE UNCHANGED vars
  BY <1>22 DEF vars, Held, Types, NoChild
<1>23. ASSUME NEW w \in Workers, Overflow(w) PROVE Held'
  BY <1>23 DEF Overflow, Held, Types, NoChild, UnixError
<1> QED
  BY <1>1, <1>2, <1>3, <1>4, <1>5, <1>6, <1>7, <1>8, <1>9, <1>10, <1>11,
     <1>12, <1>13, <1>14, <1>15, <1>16, <1>17, <1>18, <1>19, <1>20, <1>21, <1>22, <1>23 DEF Next, WorkerStep, ChildStep

LEMMA StepFresh ==
  ASSUME Types, Held, Fresh, Answering, [Next]_vars, Types'
  PROVE  Fresh'
<1> USE DEF clients, world, server, reading, writing
<1>1. ASSUME NEW w \in Workers, Take(w) PROVE Fresh'
  BY <1>1 DEF Take, Fresh, Held, Types, Answering, NoChild, Goto, At, UnixError, BeginAnswer, ChildEnds
<1>2. ASSUME NEW w \in Workers, RioRead(w) PROVE Fresh'
  BY <1>2 DEF RioRead, Fresh, Held, Types, Answering, NoChild, Goto, At, UnixError, BeginAnswer, ChildEnds
<1>3. ASSUME NEW w \in Workers, RioReadFails(w) PROVE Fresh'
  BY <1>3 DEF RioReadFails, Fresh, Held, Types, Answering, NoChild, Goto, At, UnixError, BeginAnswer, ChildEnds
<1>4. ASSUME NEW w \in Workers, RequestLine(w) PROVE Fresh'
  BY <1>4 DEF RequestLine, Fresh, Held, Types, Answering, NoChild, Goto, At, UnixError, BeginAnswer, ChildEnds
<1>5. ASSUME NEW w \in Workers, HeaderLine(w) PROVE Fresh'
  BY <1>5 DEF HeaderLine, Fresh, Held, Types, Answering, NoChild, Goto, At, UnixError, BeginAnswer, ChildEnds
<1>6. ASSUME NEW w \in Workers, Lookup(w) PROVE Fresh'
  <2>1. PICK kind \in {"static", "dynamic", "404", "403"},
             l \in {"write", "map", "mapEmpty"} :
          /\ l # "write" <=> kind = "static"
          /\ Goto(w, l)
          /\ BeginAnswer(w, kind, stats[w].handled)
    BY <1>6, LookupDecides, Zenon
  <2>2. /\ pc[w] \in {"header1", "header"}
        /\ UNCHANGED <<world, reading, out, waiting, open, conn, child>>
    BY <1>6, LookupDecides, Zenon
  <2> QED  BY <2>1, <2>2, AtWork DEF Fresh, Held, Types, Goto, BeginAnswer
<1>7. ASSUME NEW w \in Workers, MapFile(w) PROVE Fresh'
  BY <1>7 DEF MapFile, Fresh, Held, Types, Answering, NoChild, Goto, At, UnixError, BeginAnswer, ChildEnds
<1>8. ASSUME NEW w \in Workers, MapFileFails(w) PROVE Fresh'
  BY <1>8 DEF MapFileFails, Fresh, Held, Types, Answering, NoChild, Goto, At, UnixError, BeginAnswer, ChildEnds
<1>9. ASSUME NEW w \in Workers, RioWrite(w) PROVE Fresh'
  BY <1>9 DEF RioWrite, Fresh, Held, Types, Answering, NoChild, Goto, At, UnixError, BeginAnswer, ChildEnds
<1>10. ASSUME NEW w \in Workers, RioWriteFails(w) PROVE Fresh'
  BY <1>10 DEF RioWriteFails, Fresh, Held, Types, Answering, NoChild, Goto, At, UnixError, BeginAnswer, ChildEnds
<1>11. ASSUME NEW w \in Workers, ForkChild(w) PROVE Fresh'
  BY <1>11 DEF ForkChild, Fresh, Held, Types, Answering, NoChild, Goto, At, UnixError, BeginAnswer, ChildEnds
<1>12. ASSUME NEW w \in Workers, ForkFails(w) PROVE Fresh'
  BY <1>12 DEF ForkFails, Fresh, Held, Types, Answering, NoChild, Goto, At, UnixError, BeginAnswer, ChildEnds
<1>13. ASSUME NEW w \in Workers, WaitChild(w) PROVE Fresh'
  BY <1>13 DEF WaitChild, Fresh, Held, Types, Answering, NoChild, Goto, At, UnixError, BeginAnswer, ChildEnds
<1>14. ASSUME NEW w \in Workers, CloseConn(w) PROVE Fresh'
  BY <1>14 DEF CloseConn, Fresh, Held, Types, Answering, NoChild, Goto, At, UnixError, BeginAnswer, ChildEnds
<1>15. ASSUME NEW w \in Workers, ChildRuns(w) PROVE Fresh'
  BY <1>15 DEF ChildRuns, Fresh, Held, Types, Answering, NoChild, Goto, At, UnixError, BeginAnswer, ChildEnds
<1>16. ASSUME NEW w \in Workers, ChildFails(w) PROVE Fresh'
  <2>1. pc[w] = "wait" /\ conn[w] \in Conns
    BY <1>16, AtWork DEF ChildFails
  <2> QED  BY <1>16, <2>1 DEF ChildFails, Fresh, Held, Types
<1>17. ASSUME NEW w \in Workers, ChildPrints(w) PROVE Fresh'
  <2>1. pc[w] = "wait" /\ conn[w] \in Conns
    BY <1>17, AtWork DEF ChildPrints
  <2> QED  BY <1>17, <2>1 DEF ChildPrints, Fresh, Held, Types
<1>18. ASSUME NEW c \in Conns, Connect(c) PROVE Fresh'
  BY <1>18 DEF Connect, Fresh, Held, Types, Answering, NoChild
<1>19. ASSUME NEW c \in Conns, Leave(c) PROVE Fresh'
  BY <1>19 DEF Leave, Fresh, Held, Types, Answering, NoChild
<1>20. ASSUME NEW c \in Conns, SeesEnd(c) PROVE Fresh'
  BY <1>20 DEF SeesEnd, Fresh, Held, Types, Answering, NoChild
<1>21. CASE FileChanges
  BY <1>21 DEF FileChanges, Fresh, Held, Types, Answering, NoChild
<1>22. CASE UNCHANGED vars
  BY <1>22 DEF vars, Fresh, Held, Types, Answering, NoChild
<1>23. ASSUME NEW w \in Workers, Overflow(w) PROVE Fresh'
  BY <1>23 DEF Overflow, Fresh, UnixError
<1> QED
  BY <1>1, <1>2, <1>3, <1>4, <1>5, <1>6, <1>7, <1>8, <1>9, <1>10, <1>11,
     <1>12, <1>13, <1>14, <1>15, <1>16, <1>17, <1>18, <1>19, <1>20, <1>21, <1>22, <1>23 DEF Next, WorkerStep, ChildStep

LEMMA StepAnswering ==
  ASSUME Types, Held, Fresh, Answering, [Next]_vars, Types'
  PROVE  Answering'
<1> USE DEF clients, world, server, reading, writing
<1>1. ASSUME NEW w \in Workers, Take(w) PROVE Answering'
  <2>1. PICK c \in waiting : conn' = [conn EXCEPT ![w] = c]
    BY <1>1 DEF Take
  <2>2. c \in Conns /\ answer[c] = NoAnswer /\ out[c] = <<>>
    BY <2>1 DEF Fresh, Types
  <2>3. /\ pc[w] = "idle" /\ pc' = [pc EXCEPT ![w] = "request"]
        /\ UNCHANGED <<child, answer, out>>
    BY <1>1 DEF Take, Goto, At
  <2>4. child[w] = NoChild
    BY <2>3 DEF Answering
  <2>5. /\ \A v \in Workers : v # w => pc'[v] = pc[v] /\ conn'[v] = conn[v]
        /\ pc'[w] = "request" /\ conn'[w] = c
    BY <2>1, <2>3 DEF Types
  <2> QED  BY <2>2, <2>3, <2>4, <2>5 DEF Answering, NoChild
<1>2. ASSUME NEW w \in Workers, RioRead(w) PROVE Answering'
  BY <1>2 DEF RioRead, Answering, Held, Types, NoChild, Goto, At, UnixError, BeginAnswer, ChildEnds
<1>3. ASSUME NEW w \in Workers, RioReadFails(w) PROVE Answering'
  BY <1>3 DEF RioReadFails, Answering, Held, Types, NoChild, Goto, At, UnixError, BeginAnswer, ChildEnds
<1>4. ASSUME NEW w \in Workers, RequestLine(w) PROVE Answering'
  BY <1>4 DEF RequestLine, Answering, Held, Types, NoChild, Goto, At, UnixError, BeginAnswer, ChildEnds
<1>5. ASSUME NEW w \in Workers, HeaderLine(w) PROVE Answering'
  BY <1>5 DEF HeaderLine, Answering, Held, Types, NoChild, Goto, At, UnixError, BeginAnswer, ChildEnds
<1>6. ASSUME NEW w \in Workers, Lookup(w) PROVE Answering'
  <2>1. PICK kind \in {"static", "dynamic", "404", "403"},
             l \in {"write", "map", "mapEmpty"} :
          /\ l # "write" <=> kind = "static"
          /\ Goto(w, l)
          /\ BeginAnswer(w, kind, stats[w].handled)
    BY <1>6, LookupDecides, Zenon
  <2>2. /\ pc[w] \in {"header1", "header"}
        /\ UNCHANGED <<world, reading, out, waiting, open, conn, child>>
    BY <1>6, LookupDecides, Zenon
  <2> QED  BY <2>1, <2>2, AtWork DEF Answering, Held, Types, NoChild, Goto, BeginAnswer
<1>7. ASSUME NEW w \in Workers, MapFile(w) PROVE Answering'
  BY <1>7 DEF MapFile, Answering, Held, Types, NoChild, Goto, At, UnixError, BeginAnswer, ChildEnds
<1>8. ASSUME NEW w \in Workers, MapFileFails(w) PROVE Answering'
  BY <1>8 DEF MapFileFails, Answering, Held, Types, NoChild, Goto, At, UnixError, BeginAnswer, ChildEnds
<1>9. ASSUME NEW w \in Workers, RioWrite(w) PROVE Answering'
  BY <1>9 DEF RioWrite, Answering, Held, Types, NoChild, Goto, At, UnixError, BeginAnswer, ChildEnds
<1>10. ASSUME NEW w \in Workers, RioWriteFails(w) PROVE Answering'
  BY <1>10 DEF RioWriteFails, Answering, Held, Types, NoChild, Goto, At, UnixError, BeginAnswer, ChildEnds
<1>11. ASSUME NEW w \in Workers, ForkChild(w) PROVE Answering'
  BY <1>11 DEF ForkChild, Answering, Held, Types, NoChild, Goto, At, UnixError, BeginAnswer, ChildEnds
<1>12. ASSUME NEW w \in Workers, ForkFails(w) PROVE Answering'
  BY <1>12 DEF ForkFails, Answering, Held, Types, NoChild, Goto, At, UnixError, BeginAnswer, ChildEnds
<1>13. ASSUME NEW w \in Workers, WaitChild(w) PROVE Answering'
  BY <1>13 DEF WaitChild, Answering, Held, Types, NoChild, Goto, At, UnixError, BeginAnswer, ChildEnds
<1>14. ASSUME NEW w \in Workers, CloseConn(w) PROVE Answering'
  BY <1>14 DEF CloseConn, Answering, Held, Types, NoChild, Goto, At, UnixError, BeginAnswer, ChildEnds
<1>15. ASSUME NEW w \in Workers, ChildRuns(w) PROVE Answering'
  <2>1. pc[w] = "wait" /\ conn[w] \in Conns
    BY <1>15, AtWork DEF ChildRuns
  <2> QED  BY <1>15, <2>1 DEF ChildRuns, Answering, Held, Types
<1>16. ASSUME NEW w \in Workers, ChildFails(w) PROVE Answering'
  <2>1. pc[w] = "wait" /\ conn[w] \in Conns
    BY <1>16, AtWork DEF ChildFails
  <2> QED  BY <1>16, <2>1 DEF ChildFails, Answering, Held, Types, ChildEnds
<1>17. ASSUME NEW w \in Workers, ChildPrints(w) PROVE Answering'
  <2>1. pc[w] = "wait" /\ conn[w] \in Conns
    BY <1>17, AtWork DEF ChildPrints
  <2> QED  BY <1>17, <2>1 DEF ChildPrints, Answering, Held, Types, ChildEnds
<1>18. ASSUME NEW c \in Conns, Connect(c) PROVE Answering'
  BY <1>18 DEF Connect, Answering, Held, Types, NoChild
<1>19. ASSUME NEW c \in Conns, Leave(c) PROVE Answering'
  BY <1>19 DEF Leave, Answering, Held, Types, NoChild
<1>20. ASSUME NEW c \in Conns, SeesEnd(c) PROVE Answering'
  BY <1>20 DEF SeesEnd, Answering, Held, Types, NoChild
<1>21. CASE FileChanges
  BY <1>21 DEF FileChanges, Answering, Held, Types, NoChild
<1>22. CASE UNCHANGED vars
  BY <1>22 DEF vars, Answering, Held, Types, NoChild
<1>23. ASSUME NEW w \in Workers, Overflow(w) PROVE Answering'
  BY <1>23 DEF Overflow, Answering, UnixError
<1> QED
  BY <1>1, <1>2, <1>3, <1>4, <1>5, <1>6, <1>7, <1>8, <1>9, <1>10, <1>11,
     <1>12, <1>13, <1>14, <1>15, <1>16, <1>17, <1>18, <1>19, <1>20, <1>21, <1>22, <1>23 DEF Next, WorkerStep, ChildStep

-----------------------------------------------------------------------------
(* Readers.                                                                *)

\* Every reader is in touch with its connection, and begins at its start.
Reading ==
  /\ \A w \in Workers :
       /\ conn[w] = NoConn => rio[w] = InitB
       /\ conn[w] # NoConn => InTouch(rio[w], stream[conn[w]], taken[conn[w]])
       /\ pc[w] = "request" => Start(rio[w], taken[conn[w]]) = 0
  /\ \A c \in Conns : taken[c] \in 0 .. Len(stream[c])

\* Where a line is returned, it is full or the input has ended.
LEMMA LineReturned ==
  ASSUME Types, Held, Reading, NEW w \in Workers, pc[w] # "idle", LineRead(w)
  PROVE  LET r == NextLine(rio[w])
             c == conn[w]
         IN  /\ LineFull(rio[w].line) \/ (rio[w].buf = <<>> /\ taken[c] = Len(stream[c]))
             /\ r \in Readers
             /\ InTouch(r, stream[c], taken[c])
             /\ Start(r, taken[c]) = Start(rio[w], taken[c]) + Len(rio[w].line)
<1> DEFINE r == NextLine(rio[w])
           c == conn[w]
           s == stream[c]
           n == taken[c]
<1>1. c \in Conns /\ c # NoConn /\ s \in Seq(STRING) /\ InTouch(rio[w], s, n)
  BY HandlingAssumption DEF Types, Held, Reading
<1> HIDE DEF c, s, n
<1>2. n \in 0 .. Len(s) /\ Len(s) \in Nat
  BY <1>1, InTouchNumbers
<1>3. LineFull(rio[w].line) \/ (rio[w].buf = <<>> /\ n = Len(s))
  <2>1. CASE NeedsInput(rio[w]) /\ AtEOF(c)
    <3>1. rio[w].buf = <<>> /\ Beyond(s, n) = <<>>
      BY <2>1 DEF NeedsInput, AtEOF, Unread, s, n
    <3>2. Len(Beyond(s, n)) = Len(s) - n
      BY <1>1, <1>2, UpToBeyond
    <3>3. Len(s) - n = 0
      BY <3>1, <3>2, EmptySeq
    <3> QED  BY <1>2, <3>1, <3>3
  <2> QED  BY <2>1 DEF LineRead, c
<1>4. InTouch(r, s, n) /\ Start(r, n) = Start(rio[w], n) + Len(rio[w].line)
  BY <1>1, <1>3, NextLineInTouch, Zenon
<1>5. r \in Readers
  BY <1>4 DEF InTouch, Fits, Readers
<1> QED  BY <1>3, <1>4, <1>5 DEF c, s, n

LEMMA StepReading ==
  ASSUME Types, Held, Fresh, Answering, Reading, [Next]_vars
  PROVE  Reading' /\ rio' \in [Workers -> Readers] /\ taken' \in [Conns -> Nat]
<1> USE DEF clients, world, server, reading, writing
<1> DEFINE Goal == Reading' /\ rio' \in [Workers -> Readers] /\ taken' \in [Conns -> Nat]
<1>a. rio \in [Workers -> Readers] /\ taken \in [Conns -> Nat]
  BY DEF Types
<1>b. ASSUME UNCHANGED <<stream, taken, rio, conn>>,
             \A w \in Workers : pc'[w] = "request" => pc[w] = "request"
      PROVE  Goal
  BY <1>a, <1>b DEF Reading
<1>c. ASSUME NEW w \in Workers, UNCHANGED <<stream, taken, conn>>,
             pc[w] # "idle", LineRead(w),
             rio' = [rio EXCEPT ![w] = NextLine(@)],
             pc'[w] # "request", \A v \in Workers \ {w} : pc'[v] = pc[v]
      PROVE  Goal
  <2>1. conn[w] # NoConn
    BY <1>c DEF Held
  <2>2. /\ NextLine(rio[w]) \in Readers
        /\ InTouch(NextLine(rio[w]), stream[conn[w]], taken[conn[w]])
    BY <1>c, LineReturned
  <2>3. rio'[w] = NextLine(rio[w]) /\ \A v \in Workers \ {w} : rio'[v] = rio[v]
    BY <1>a, <1>c
  <2>4. rio' \in [Workers -> Readers]
    BY <1>a, <1>c, <2>2
  <2> QED  BY <1>a, <1>c, <2>1, <2>2, <2>3, <2>4 DEF Reading
<1>1. ASSUME NEW w \in Workers, Take(w) PROVE Goal
  <2>1. PICK c \in waiting : conn' = [conn EXCEPT ![w] = c]
    BY <1>1 DEF Take
  <2>2. c \in Conns /\ c # NoConn /\ taken[c] = 0 /\ stream[c] \in Seq(STRING)
    BY <2>1, HandlingAssumption DEF Fresh, Types
  <2>3. /\ rio' = [rio EXCEPT ![w] = InitB] /\ pc' = [pc EXCEPT ![w] = "request"]
        /\ UNCHANGED <<stream, taken>>
    BY <1>1 DEF Take, Goto
  <2>4. InitB \in Readers
    BY EmptySeq DEF InitB, Readers
  <2>5. InTouch(InitB, stream[c], taken[c]) /\ Start(InitB, taken[c]) = 0
    BY <2>2, InTouchAtStart
  <2>6. /\ rio'[w] = InitB /\ conn'[w] = c
        /\ \A v \in Workers \ {w} : rio'[v] = rio[v] /\ conn'[v] = conn[v] /\ pc'[v] = pc[v]
    BY <2>1, <2>3 DEF Types
  <2> QED  BY <1>a, <2>2, <2>3, <2>4, <2>5, <2>6 DEF Reading
<1>2. ASSUME NEW w \in Workers, RioRead(w) PROVE Goal
  <2> DEFINE c == conn[w]
             s == stream[c]
             t == taken[c]
  <2>1. /\ c \in Conns /\ c # NoConn /\ s \in Seq(STRING) /\ InTouch(rio[w], s, t)
        /\ pc[w] # "idle" /\ NeedsInput(rio[w]) /\ UNCHANGED <<stream, pc, conn>>
    BY <1>2, AtWork, HandlingAssumption DEF Types, Held, Reading, RioRead
  <2>2. PICK m \in Chunks(Beyond(s, t)) :
          /\ taken' = [taken EXCEPT ![c] = @ + m]
          /\ rio' = [rio EXCEPT ![w] = Refill(@, Beyond(s, t), m)]
    BY <1>2 DEF RioRead, Unread
  <2> DEFINE r == Refill(rio[w], Beyond(s, t), m)
  <2>3. /\ InTouch(r, s, t + m) /\ Start(r, t + m) = Start(rio[w], t)
        /\ t + m \in 0 .. Len(s)
    BY <2>1, RefillInTouch
  <2>4. t + m \in Nat
    BY <2>3
  <2>5. r \in Readers
    BY <2>3 DEF InTouch, Fits, Readers
  <2>6. /\ rio'[w] = r /\ taken'[c] = t + m
        /\ \A v \in Workers \ {w} : rio'[v] = rio[v]
        /\ \A d \in Conns \ {c} : taken'[d] = taken[d]
    BY <1>a, <2>1, <2>2
  <2>7. rio' \in [Workers -> Readers] /\ taken' \in [Conns -> Nat]
    BY <1>a, <2>2, <2>4, <2>5
  <2>8. \A v \in Workers \ {w} : conn[v] # NoConn => conn[v] \in Conns \ {c}
    BY <2>1 DEF Held, Types
  <2>9. stream' = stream /\ pc' = pc /\ conn' = conn
    BY <2>1
  <2> HIDE DEF r
  <2>11. ASSUME NEW d \in Conns PROVE taken'[d] \in 0 .. Len(stream[d])
    BY <2>3, <2>6 DEF Reading
  <2>10. ASSUME NEW v \in Workers
         PROVE  /\ conn[v] = NoConn => rio'[v] = InitB
                /\ conn[v] # NoConn => InTouch(rio'[v], stream[conn[v]], taken'[conn[v]])
                /\ pc[v] = "request" => Start(rio'[v], taken'[conn[v]]) = 0
    <3>1. CASE v = w
      BY <2>1, <2>3, <2>6, <3>1 DEF Reading
    <3>2. CASE v # w
      <4>1. rio'[v] = rio[v] /\ (conn[v] # NoConn => taken'[conn[v]] = taken[conn[v]])
        BY <2>6, <2>8, <3>2
      <4>2. pc[v] = "request" => conn[v] # NoConn
        BY DEF Held
      <4> QED  BY <4>1, <4>2 DEF Reading
    <3> QED  BY <3>1, <3>2
  <2> QED  BY <2>7, <2>9, <2>10, <2>11 DEF Reading
<1>3. ASSUME NEW w \in Workers, RequestLine(w) PROVE Goal
  <2>1. pc[w] = "request" /\ LineRead(w) /\ UNCHANGED <<stream, taken, conn>>
    BY <1>3 DEF RequestLine, At
  <2>2. \/ pc' = [pc EXCEPT ![w] = "header1"] /\ rio' = [rio EXCEPT ![w] = NextLine(@)]
        \/ pc' = [pc EXCEPT ![w] = "write"] /\ UNCHANGED rio
    BY <1>3 DEF RequestLine, Goto
  <2>3. pc'[w] # "request" /\ \A v \in Workers \ {w} : pc'[v] = pc[v]
    BY <2>2 DEF Types
  <2>4. CASE rio' = [rio EXCEPT ![w] = NextLine(@)]
    BY <1>c, <2>1, <2>3, <2>4
  <2>5. CASE UNCHANGED rio
    BY <1>b, <2>1, <2>3, <2>5
  <2> QED  BY <2>2, <2>4, <2>5
<1>4. ASSUME NEW w \in Workers, HeaderLine(w) PROVE Goal
  <2>1. /\ pc[w] \in {"header1", "header"} /\ LineRead(w)
        /\ UNCHANGED <<stream, taken, conn>>
        /\ rio' = [rio EXCEPT ![w] = NextLine(@)] /\ pc' = [pc EXCEPT ![w] = "header"]
    BY <1>4 DEF HeaderLine, At, Goto
  <2>2. pc'[w] # "request" /\ \A v \in Workers \ {w} : pc'[v] = pc[v]
    BY <2>1 DEF Types
  <2> QED  BY <1>c, <2>1, <2>2
<1>5. ASSUME NEW w \in Workers, CloseConn(w) PROVE Goal
  <2>1. /\ rio' = [rio EXCEPT ![w] = InitB] /\ conn' = [conn EXCEPT ![w] = NoConn]
        /\ pc' = [pc EXCEPT ![w] = "idle"] /\ UNCHANGED <<stream, taken>>
    BY <1>5 DEF CloseConn, Goto
  <2>2. InitB \in Readers
    BY EmptySeq DEF InitB, Readers
  <2>3. /\ rio'[w] = InitB /\ conn'[w] = NoConn /\ pc'[w] = "idle"
        /\ \A v \in Workers \ {w} : rio'[v] = rio[v] /\ conn'[v] = conn[v] /\ pc'[v] = pc[v]
    BY <2>1 DEF Types
  <2> QED  BY <1>a, <2>1, <2>2, <2>3 DEF Reading
<1>6. ASSUME NEW w \in Workers, Lookup(w) PROVE Goal
  <2>1. PICK l \in {"write", "map", "mapEmpty"} : pc' = [pc EXCEPT ![w] = l]
    BY <1>6, LookupDecides DEF Goto
  <2>2. UNCHANGED <<stream, taken, rio, conn>>
    BY <1>6 DEF Lookup
  <2> QED  BY <1>b, <2>1, <2>2 DEF Types
<1>7. ASSUME NEW w \in Workers,
             \/ RioReadFails(w) \/ MapFileFails(w) \/ Overflow(w) \/ RioWriteFails(w) \/ ForkFails(w)
             \/ ChildStep(w)
      PROVE  Goal
  <2>1. UNCHANGED <<stream, taken, rio, conn, pc>>
    BY <1>7 DEF RioReadFails, MapFileFails, Overflow, RioWriteFails, ForkFails, ChildStep,
                ChildRuns, ChildFails, ChildPrints, UnixError
  <2> QED  BY <1>b, <2>1
<1>8. ASSUME NEW w \in Workers,
             MapFile(w) \/ RioWrite(w) \/ ForkChild(w) \/ WaitChild(w)
      PROVE  Goal
  <2>1. UNCHANGED <<stream, taken, rio, conn>>
    BY <1>8 DEF MapFile, RioWrite, ForkChild, WaitChild
  <2>2. PICK l \in {"write", "fork", "wait", "close"} : pc' = [pc EXCEPT ![w] = l]
    BY <1>8 DEF MapFile, RioWrite, ForkChild, WaitChild, Goto
  <2> QED  BY <1>b, <2>1, <2>2 DEF Types
<1>9. CASE \/ \E c \in Conns : Connect(c) \/ Leave(c) \/ SeesEnd(c)
           \/ FileChanges
           \/ UNCHANGED vars
  <2>1. UNCHANGED <<stream, taken, rio, conn, pc>>
    BY <1>9 DEF Connect, Leave, SeesEnd, FileChanges, vars
  <2> QED  BY <1>b, <2>1
<1>10. ASSUME NEW w \in Workers, WorkerStep(w) PROVE Goal
  BY <1>1, <1>2, <1>3, <1>4, <1>5, <1>6, <1>7, <1>8, <1>10, Zenon DEF WorkerStep
<1>11. ASSUME NEW w \in Workers, ChildStep(w) PROVE Goal
  BY <1>7, <1>11
<1>12. CASE Next
  BY <1>9, <1>10, <1>11, <1>12, Zenon DEF Next
<1> QED  BY <1>9, <1>12

-----------------------------------------------------------------------------
(* TypeOK and LinesExact.                                                  *)

\* The words found in request lines are URIs.
UrisKnown == stream \in Streams /\ \A w \in Workers : uri[w] \in Uris

\* As long as the process lives, what is queued and what is handled is open.
Opened ==
  exited = "no" => /\ waiting \subseteq open
                   /\ \A w \in Workers : conn[w] # NoConn => conn[w] \in open

\* What a worker reads first is a first line.
LEMMA RequestLineFirst ==
  ASSUME Types, Held, Reading, NEW w \in Workers, pc[w] = "request"
  PROVE  rio[w].line \in FirstLines(stream[conn[w]])
<1> DEFINE c == conn[w]
           s == stream[c]
           n == taken[c]
           l == rio[w].line
           m == Len(l)
<1>1. s \in Seq(STRING) /\ InTouch(rio[w], s, n) /\ Start(rio[w], n) = 0
  BY HandlingAssumption DEF Types, Held, Reading
<1>2. /\ l \in Seq(STRING) /\ m \in Nat /\ m < MaxLine
      /\ \A k \in 1 .. m - 1 : l[k] # "\n"
      /\ \A k \in 1 .. m : l[k] = s[0 + k]
  BY <1>1, InTouchNumbers DEF InTouch, Fits, Clean
<1>3. m \in 0 .. Len(s)
  <2> DEFINE b == Len(rio[w].buf)
  <2>1. m \in Nat /\ b \in Nat /\ Len(s) \in Nat /\ n \in 0 .. Len(s) /\ 0 + m + b = n
    BY <1>1, InTouchNumbers
  <2> HIDE DEF m, b, s, n
  <2> QED  BY <2>1
<1> HIDE DEF s, l, n
<1>4. UpTo(s, m) \in Seq(STRING) /\ Len(UpTo(s, m)) = m
      /\ \A k \in 1 .. m : UpTo(s, m)[k] = s[k]
  BY <1>1, <1>3, UpToBeyond
<1>5. \A k \in 1 .. m : l[k] = s[k]
  BY <1>2
<1>6. l = UpTo(s, m)
  BY <1>2, <1>4, <1>5, SeqEqual
<1>7. \A k \in 1 .. m - 1 : s[k] # "\n"
  <2> HIDE DEF m
  <2> QED  BY <1>2, <1>5
<1> HIDE DEF m
<1> QED  BY <1>2, <1>3, <1>6, <1>7 DEF FirstLines, l, s, c

\* It is the whole first line when the call returns.
LEMMA RequestLineWhole ==
  ASSUME Types, Held, Reading, NEW w \in Workers, pc[w] = "request", LineRead(w)
  PROVE  LineFull(rio[w].line) \/ rio[w].line = stream[conn[w]]
<1> DEFINE c == conn[w]
           s == stream[c]
           n == taken[c]
           l == rio[w].line
           b == rio[w].buf
<1>1. s \in Seq(STRING) /\ InTouch(rio[w], s, n) /\ Start(rio[w], n) = 0
  BY HandlingAssumption DEF Types, Held, Reading
<1>2. LineFull(l) \/ (b = <<>> /\ n = Len(s))
  BY LineReturned, Zenon
<1>3. l \in Seq(STRING) /\ \A k \in 1 .. Len(l) : l[k] = s[0 + k]
  BY <1>1 DEF InTouch, Fits
<1>4. Len(l) \in Nat /\ Len(b) \in Nat /\ Len(s) \in Nat /\ n \in 0 .. Len(s)
      /\ 0 + Len(l) + Len(b) = n
  BY <1>1, InTouchNumbers
<1> HIDE DEF s, n, l, b
<1>5. CASE b = <<>> /\ n = Len(s)
  <2>1. Len(b) = 0
    BY <1>5, EmptySeq
  <2>2. Len(l) = Len(s)
    BY <1>4, <1>5, <2>1
  <2>3. \A k \in 1 .. Len(l) : l[k] = s[k]
    BY <1>3, <1>4
  <2>4. l = s
    BY <1>1, <1>3, <2>2, <2>3, SeqEqual
  <2> QED  BY <2>4 DEF l, s, c
<1> QED  BY <1>2, <1>5 DEF l

LEMMA StepUrisKnown ==
  ASSUME Types, Held, Reading, UrisKnown, [Next]_vars
  PROVE  UrisKnown'
<1> USE DEF clients, world, server, reading, writing
<1>1. CASE UNCHANGED <<stream, uri>>
  BY <1>1 DEF UrisKnown
<1>2. ASSUME NEW w \in Workers, RequestLine(w) PROVE UrisKnown'
  <2>1. PICK p \in Parsed(rio[w].line) :
          uri' = uri \/ uri' = [uri EXCEPT ![w] = p[2]]
    BY <1>2 DEF RequestLine
  <2>2. p[2] \in Uris
    <3>1. pc[w] = "request" /\ conn[w] \in Conns /\ stream \in Streams
      BY <1>2 DEF RequestLine, At, Held, Types, UrisKnown
    <3>2. rio[w].line \in FirstLines(stream[conn[w]])
      BY <3>1, RequestLineFirst
    <3> QED  BY <2>1, <3>1, <3>2, UriAssumption
  <2>3. stream' = stream
    BY <1>2 DEF RequestLine
  <2> QED  BY <2>1, <2>2, <2>3 DEF UrisKnown, Types
<1>3. ASSUME NEW w \in Workers, WorkerStep(w), ~RequestLine(w) PROVE UrisKnown'
  <2>1. UNCHANGED <<stream, uri>>
    BY <1>3 DEF WorkerStep, Take, RioRead, RioReadFails, HeaderLine, Lookup, MapFile,
                MapFileFails, Overflow, RioWrite, RioWriteFails, ForkChild, ForkFails, WaitChild,
                CloseConn, UnixError
  <2> QED  BY <1>1, <2>1
<1>4. ASSUME NEW w \in Workers, ChildStep(w) PROVE UrisKnown'
  <2>1. UNCHANGED <<stream, uri>>
    BY <1>4 DEF ChildStep, ChildRuns, ChildFails, ChildPrints
  <2> QED  BY <1>1, <2>1
<1>5. CASE \/ \E c \in Conns : Connect(c) \/ Leave(c) \/ SeesEnd(c)
           \/ FileChanges
           \/ UNCHANGED vars
  <2>1. UNCHANGED <<stream, uri>>
    BY <1>5 DEF Connect, Leave, SeesEnd, FileChanges, vars
  <2> QED  BY <1>1, <2>1
<1> QED  BY <1>2, <1>3, <1>4, <1>5 DEF Next

LEMMA StepOpened ==
  ASSUME Types, Held, Fresh, Answering, Opened, [Next]_vars, Types'
  PROVE  Opened'
<1> USE DEF clients, world, server, reading, writing
<1>1. CASE UNCHANGED <<waiting, open, conn, exited>>
  BY <1>1 DEF Opened
<1>2. ASSUME NEW w \in Workers, Take(w) PROVE Opened'
  BY <1>2 DEF Take, Opened, Types, At
<1>3. ASSUME NEW w \in Workers, CloseConn(w) PROVE Opened'
  BY <1>3 DEF CloseConn, Opened, Types, Held, At
<1>4. ASSUME NEW w \in Workers,
             RioReadFails(w) \/ MapFileFails(w) \/ Overflow(w) \/ RioWriteFails(w) \/ ForkFails(w)
      PROVE  Opened'
  BY <1>4 DEF RioReadFails, MapFileFails, Overflow, RioWriteFails, ForkFails, UnixError, Opened
<1>5. ASSUME NEW w \in Workers,
             \/ RioRead(w) \/ RequestLine(w) \/ HeaderLine(w) \/ Lookup(w) \/ MapFile(w)
             \/ RioWrite(w) \/ ForkChild(w) \/ WaitChild(w)
      PROVE  Opened'
  <2>1. UNCHANGED <<waiting, open, conn, exited>>
    BY <1>5 DEF RioRead, RequestLine, HeaderLine, Lookup, MapFile, RioWrite, ForkChild,
                WaitChild
  <2> QED  BY <1>1, <2>1
<1>6. ASSUME NEW w \in Workers, ChildStep(w) PROVE Opened'
  <2>1. UNCHANGED <<waiting, open, conn, exited>>
    BY <1>6 DEF ChildStep, ChildRuns, ChildFails, ChildPrints
  <2> QED  BY <1>1, <2>1
<1>7. ASSUME NEW c \in Conns, Connect(c) PROVE Opened'
  BY <1>7 DEF Connect, Opened
<1>8. CASE \/ \E c \in Conns : Leave(c) \/ SeesEnd(c)
           \/ FileChanges
           \/ UNCHANGED vars
  <2>1. UNCHANGED <<waiting, open, conn, exited>>
    BY <1>8 DEF Leave, SeesEnd, FileChanges, vars
  <2> QED  BY <1>1, <2>1
<1>9. ASSUME NEW w \in Workers, WorkerStep(w) PROVE Opened'
  BY <1>2, <1>3, <1>4, <1>5, <1>9, Zenon DEF WorkerStep
<1> QED  BY <1>6, <1>7, <1>8, <1>9 DEF Next

HandlingInv ==
  Types /\ Held /\ Fresh /\ Answering /\ Reading /\ UrisKnown /\ Opened

LEMMA HandlingInvHolds == Spec => []HandlingInv
<1>1. Init => HandlingInv
  <2> SUFFICES ASSUME Init PROVE HandlingInv
    OBVIOUS
  <2>1. Types /\ Held /\ Fresh /\ Answering
    BY InitTypes
  <2>2. Reading
    BY <2>1, LenProperties DEF Init, Reading, Types
  <2>3. UrisKnown /\ Opened
    <3>1. (CHOOSE u \in Uris : TRUE) \in Uris
      BY HandlingAssumption
    <3> QED  BY <3>1 DEF Init, UrisKnown, Opened
  <2> QED  BY <2>1, <2>2, <2>3 DEF HandlingInv
<1>2. HandlingInv /\ [Next]_vars => HandlingInv'
  <2> SUFFICES ASSUME HandlingInv, [Next]_vars PROVE HandlingInv'
    OBVIOUS
  <2>1. Reading' /\ rio' \in [Workers -> Readers] /\ taken' \in [Conns -> Nat]
    BY StepReading DEF HandlingInv
  <2>2. Types'
    BY <2>1, StepTypes DEF HandlingInv
  <2>3. Held' /\ Fresh' /\ Answering'
    BY <2>2, StepHeld, StepFresh, StepAnswering DEF HandlingInv
  <2>4. UrisKnown' /\ Opened'
    BY <2>2, StepUrisKnown, StepOpened DEF HandlingInv
  <2> QED  BY <2>1, <2>2, <2>3, <2>4 DEF HandlingInv
<1> QED  BY <1>1, <1>2, PTL DEF Spec

\* No array overflows and no variable leaves its type: a line fits usrbuf, what
\* read() delivers fits rio_buf, and no more is read than was sent (segel.c 331-422).
THEOREM HandlingTypes == Spec => []TypeOK
<1>1. HandlingInv => TypeOK
  <2> SUFFICES ASSUME HandlingInv PROVE TypeOK
    OBVIOUS
  <2> USE DEF HandlingInv
  <2>1. ASSUME NEW c \in Conns PROVE taken[c] \in 0 .. Len(stream[c])
    BY DEF Reading
  <2>2. ASSUME NEW w \in Workers
        PROVE  Len(rio[w].line) < MaxLine /\ Len(rio[w].buf) <= RioBufSize
    <3>1. CASE conn[w] = NoConn
      <4>1. rio[w].line = <<>> /\ rio[w].buf = <<>>
        BY <3>1 DEF Reading, InitB
      <4> QED  BY <4>1, EmptySeq, RioAssumption
    <3>2. CASE conn[w] # NoConn
      BY <3>2 DEF Reading, InTouch, Fits
    <3> QED  BY <3>1, <3>2
  <2>3. waiting \subseteq open \/ exited # "no"
    BY DEF Opened
  <2>4. \A w \in Workers : /\ uri[w] \in Uris
                           /\ stats[w] \in [handled : Nat, stat : Nat, dyn : Nat]
                           /\ child[w].pc \in {"none", "forked", "running", "ended"}
                           /\ (conn[w] = NoConn) <=> (pc[w] = "idle")
    BY DEF UrisKnown, Types, Counts, Children, Held
  <2>5. /\ client \in [Conns -> {"new", "here", "gone", "end", "reset"}]
        /\ open \subseteq Conns
        /\ conn \in [Workers -> Conns \cup {NoConn}]
        /\ files \in [Names -> FileKinds]
    BY DEF Types, ClientStates
  <2> QED  BY <2>1, <2>2, <2>3, <2>4, <2>5 DEF TypeOK
<1> QED  BY <1>1, HandlingInvHolds, PTL

\* However read() cuts its input, and whatever one call of rio_readlineb leaves
\* in the buffer for the next, lines are read in order, whole and once
\* (segel.c 331-422).
THEOREM LinesKept == Spec => []LinesExact
<1>1. HandlingInv => LinesExact
  <2> SUFFICES ASSUME HandlingInv, NEW w \in Workers, conn[w] # NoConn
               PROVE  InStep(rio[w], stream[conn[w]], CutsOf[stream[conn[w]]], taken[conn[w]])
    BY DEF LinesExact
  <2> DEFINE s == stream[conn[w]]
  <2>1. /\ conn[w] \in Conns /\ s \in Seq(STRING) /\ stream \in Streams
        /\ InTouch(rio[w], s, taken[conn[w]])
    BY DEF HandlingInv, Types, Reading, UrisKnown
  <2>2. s \in Inputs
    BY <2>1 DEF Inputs
  <2>3. CutsOf[s] = Cuts(s)
    BY <2>2 DEF CutsOf
  <2> HIDE DEF s
  <2>4. InStep(rio[w], s, Cuts(s), taken[conn[w]])
    BY <2>1, InTouchInStep
  <2> QED  BY <2>3, <2>4 DEF s
<1> QED  BY <1>1, HandlingInvHolds, PTL

-----------------------------------------------------------------------------
(* NoHarmWithoutCause.                                                     *)

\* What may do harm.
Cause ==
  \/ \E c \in Conns : client[c] = "gone" \/ Overlong(c)
  \/ mishaps > 0
  \/ \E n \in Names : files[n] \in {"empty", "foreign"}

\* Once there, it is there to stay, because only a mishap changes a file.
LEMMA CauseStays ==
  ASSUME Types, [Next]_vars
  PROVE  /\ Cause => Cause'
         /\ files' = files \/ Cause'
<1> USE DEF clients, world, server, reading, writing
<1>1. CASE FileChanges
  <2>1. mishaps' > 0
    BY <1>1 DEF FileChanges, Types
  <2> QED  BY <2>1 DEF Cause
<1>2. ASSUME UNCHANGED <<files, stream>>, mishaps' \in Nat, mishaps' >= mishaps,
             \A c \in Conns : /\ client[c] = "gone" => client'[c] = "gone"
                              /\ client[c] # "new" => client'[c] # "new"
      PROVE  (Cause => Cause') /\ files' = files
  <2>1. ASSUME NEW c \in Conns, Overlong(c) PROVE Overlong(c)'
    BY <1>2, <2>1 DEF Overlong
  <2> QED  BY <1>2, <2>1 DEF Cause, Types
<1>3. ASSUME NEW c \in Conns, Leave(c) \/ SeesEnd(c) \/ Connect(c)
      PROVE  (Cause => Cause') /\ files' = files
  <2>1. UNCHANGED <<files, mishaps, stream>> /\ client[c] # "gone" /\ client'[c] # "new"
    BY <1>3 DEF Leave, SeesEnd, Connect, Types
  <2>2. \A d \in Conns \ {c} : client'[d] = client[d]
    BY <1>3 DEF Leave, SeesEnd, Connect, Types
  <2> QED  BY <1>2, <2>1, <2>2 DEF Types
<1>4. ASSUME NEW w \in Workers, WorkerStep(w), ~ForkFails(w)
      PROVE  (Cause => Cause') /\ files' = files
  <2>1. UNCHANGED <<files, mishaps, client, stream>>
    BY <1>4 DEF WorkerStep, Take, RioRead, RioReadFails, RequestLine, HeaderLine, Lookup,
                MapFile, MapFileFails, Overflow, RioWrite, RioWriteFails, ForkChild, WaitChild,
                CloseConn, UnixError
  <2> QED  BY <1>2, <2>1 DEF Types
<1>5. ASSUME NEW w \in Workers, ForkFails(w)
      PROVE  (Cause => Cause') /\ files' = files
  <2>1. UNCHANGED <<files, client, stream>> /\ mishaps' = mishaps + 1
    BY <1>5 DEF ForkFails, UnixError
  <2> QED  BY <1>2, <2>1 DEF Types
<1>6. ASSUME NEW w \in Workers, ChildStep(w)
      PROVE  (Cause => Cause') /\ files' = files
  <2>1. UNCHANGED <<files, mishaps, client, stream>>
    BY <1>6 DEF ChildStep, ChildRuns, ChildFails, ChildPrints
  <2> QED  BY <1>2, <2>1 DEF Types
<1>7. CASE UNCHANGED vars
  BY <1>2, <1>7 DEF vars, Types
<1> QED  BY <1>1, <1>3, <1>4, <1>5, <1>6, <1>7 DEF Next

\* What a URI names is one of the files under ./public, or nothing.
LEMMA FileOfUri ==
  ASSUME Types, UrisKnown, NEW w \in Workers
  PROVE  /\ FileOf(uri[w]) \in FileKinds
         /\ FileOf(uri[w]) \in {"empty", "foreign"} => Cause
<1>1. CASE uri[w] \in LongWords
  BY <1>1 DEF FileOf, FileKinds
<1>2. CASE uri[w] \notin LongWords
  <2>1. Filename(uri[w]) \in Names
    BY <1>2, HandlingAssumption DEF UrisKnown, Filename, Names
  <2>2. FileOf(uri[w]) = files[Filename(uri[w])]
    BY <1>2 DEF FileOf
  <2> QED  BY <2>1, <2>2 DEF Types, Cause
<1> QED  BY <1>1, <1>2

\* A request line with a method or URI too long is a cause, as it is read.
LEMMA LongIsCause ==
  ASSUME Types, Held, Reading, NEW w \in Workers, pc[w] = "request", LineRead(w),
         NEW p \in Parsed(rio[w].line),
         p[1] \in LongWords \/ (p[1] = "GET" /\ p[2] \in LongWords)
  PROVE  Cause
<1>1. conn[w] \in Conns /\ client[conn[w]] # "new"
  BY HandlingAssumption DEF Types, Held
<1>2. /\ rio[w].line \in FirstLines(stream[conn[w]])
      /\ LineFull(rio[w].line) \/ rio[w].line = stream[conn[w]]
  BY RequestLineFirst, RequestLineWhole
<1>3. Overlong(conn[w])
  BY <1>1, <1>2 DEF Overlong
<1> QED  BY <1>1, <1>3 DEF Cause

\* Harm that is done has its cause; so has what would do harm if it came to it:
\* the request of an empty file, of one that the server cannot use, and with a
\* URI too long.
HarmInv ==
  /\ NoHarmWithoutCause
  /\ \A w \in Workers : pc[w] = "mapEmpty" => Cause
  /\ \A w \in Workers : pc[w] \in {"header1", "header"} /\ uri[w] \in LongWords => Cause
  /\ \A w \in Workers :
       pc[w] \in {"map", "write", "fork", "wait"}
         /\ answer[conn[w]].kind \in {"static", "dynamic"}
         => Cause \/ FileOf(uri[w]) = "regular"

LEMMA StepHarm ==
  ASSUME HandlingInv, HarmInv, [Next]_vars, HandlingInv'
  PROVE  HarmInv'
<1> USE DEF clients, world, server, reading, writing
<1> DEFINE Harm == exited # "no" \/ \E c \in Conns : answer[c].kind = "failed"
           Heading(w) == pc[w] \in {"header1", "header"}
           Served(w) == /\ pc[w] \in {"map", "write", "fork", "wait"}
                        /\ answer[conn[w]].kind \in {"static", "dynamic"}
<1>a. (Cause => Cause') /\ (files' = files \/ Cause')
  BY CauseStays DEF HandlingInv
<1>b. CASE Cause'
  BY <1>b DEF HarmInv, NoHarmWithoutCause, Cause
<1>c. SUFFICES ASSUME ~Cause' PROVE HarmInv'
  BY <1>b
<1>d. /\ ~Cause /\ files' = files
      /\ ~Harm
      /\ \A w \in Workers : pc[w] # "mapEmpty"
      /\ \A w \in Workers : Heading(w) => uri[w] \notin LongWords
      /\ \A w \in Workers : Served(w) => FileOf(uri[w]) = "regular"
  BY <1>a, <1>c DEF HarmInv, NoHarmWithoutCause, Cause
<1>e. ASSUME ~Harm', \A w \in Workers : pc'[w] # "mapEmpty",
             \A w \in Workers : Heading(w)' => uri'[w] \notin LongWords,
             \A w \in Workers : Served(w)' => FileOf(uri'[w]) = "regular"
      PROVE  HarmInv'
  BY <1>d, <1>e DEF HarmInv, NoHarmWithoutCause, FileOf
<1>f. Types /\ Held /\ Answering /\ Reading /\ UrisKnown /\ Types'
  BY DEF HandlingInv
<1>g. ASSUME UNCHANGED <<exited, answer>>,
             \A w \in Workers : pc'[w] # "mapEmpty",
             \A w \in Workers : Heading(w)' => Heading(w) /\ uri'[w] = uri[w],
             \A w \in Workers : Served(w)' => Served(w) /\ uri'[w] = uri[w]
      PROVE  HarmInv'
  BY <1>d, <1>e, <1>g
<1>h. ASSUME UNCHANGED <<exited, answer, pc, conn, uri>>
      PROVE  HarmInv'
  BY <1>d, <1>g, <1>h
<1>1. ASSUME NEW w \in Workers, Take(w) PROVE HarmInv'
  <2>1. /\ UNCHANGED <<exited, answer, uri>> /\ pc' = [pc EXCEPT ![w] = "request"]
        /\ \A v \in Workers \ {w} : conn'[v] = conn[v]
    BY <1>1, <1>f DEF Take, Goto, Types
  <2> QED  BY <1>d, <1>f, <1>g, <2>1 DEF Types
<1>2. ASSUME NEW w \in Workers, RioRead(w) PROVE HarmInv'
  BY <1>2, <1>h DEF RioRead
<1>3. ASSUME NEW w \in Workers, RioReadFails(w) PROVE FALSE
  <2>1. conn[w] \in Conns /\ client[conn[w]] = "gone"
    BY <1>3, <1>f, AtWork DEF RioReadFails
  <2> QED  BY <1>d, <2>1 DEF Cause
<1>4. ASSUME NEW w \in Workers, RequestLine(w) PROVE HarmInv'
  <2>1. /\ pc[w] = "request" /\ exited' = exited /\ conn' = conn
        /\ \/ /\ UNCHANGED answer /\ pc' = [pc EXCEPT ![w] = "header1"]
              /\ \E p \in Parsed(rio[w].line) : p[1] = "GET" /\ uri'[w] = p[2]
           \/ \E n : BeginAnswer(w, "501", n) /\ pc' = [pc EXCEPT ![w] = "write"]
        /\ \A v \in Workers \ {w} : uri'[v] = uri[v]
    BY <1>4, <1>f DEF RequestLine, Goto, At, Types
  <2>2. CASE /\ UNCHANGED answer /\ pc' = [pc EXCEPT ![w] = "header1"]
             /\ \E p \in Parsed(rio[w].line) : p[1] = "GET" /\ uri'[w] = p[2]
    <3>1. uri'[w] \notin LongWords
      BY <1>4, <1>d, <1>f, <2>1, <2>2, LongIsCause DEF RequestLine
    <3>2. \A v \in Workers : Heading(v)' => v = w \/ Heading(v)
      BY <1>f, <2>2 DEF Types
    <3>3. \A v \in Workers : Served(v)' => v # w /\ Served(v)
      BY <1>f, <2>1, <2>2 DEF Types
    <3>4. \A v \in Workers : pc'[v] # "mapEmpty"
      BY <1>d, <1>f, <2>2 DEF Types
    <3>5. \A v \in Workers : Heading(v)' => uri'[v] \notin LongWords
      BY <1>d, <2>1, <3>1, <3>2
    <3>6. \A v \in Workers : Served(v)' => FileOf(uri'[v]) = "regular"
      BY <1>d, <2>1, <3>3
    <3>7. ~Harm'
      BY <1>d, <2>1, <2>2
    <3> QED  BY <1>e, <3>4, <3>5, <3>6, <3>7
  <2>3. ASSUME NEW n, BeginAnswer(w, "501", n), pc' = [pc EXCEPT ![w] = "write"]
        PROVE  HarmInv'
    <3>1. /\ conn[w] \in Conns
          /\ answer'[conn[w]].kind = "501"
          /\ \A c \in Conns \ {conn[w]} : answer'[c] = answer[c]
      BY <1>f, <2>1, <2>3, AtWork DEF BeginAnswer, Types
    <3>2. ~Harm'
      BY <1>d, <2>1, <3>1
    <3>3. ASSUME NEW v \in Workers, Served(v)'
          PROVE  FileOf(uri'[v]) = "regular"
      <4>1. v # w
        BY <2>1, <3>1, <3>3
      <4>2. pc'[v] = pc[v] /\ uri'[v] = uri[v] /\ conn'[v] = conn[v]
        BY <1>f, <2>1, <2>3, <4>1 DEF Types
      <4>3. conn[v] \in Conns \ {conn[w]}
        BY <1>f, <3>1, <3>3, <4>1, <4>2, AtWork DEF Held
      <4> QED  BY <1>d, <3>1, <3>3, <4>2, <4>3
    <3>4. ASSUME NEW v \in Workers, Heading(v)' PROVE uri'[v] \notin LongWords
      <4>1. v # w /\ Heading(v)
        BY <1>f, <2>3, <3>4 DEF Types
      <4> QED  BY <1>d, <2>1, <4>1
    <3>5. \A v \in Workers : pc'[v] # "mapEmpty"
      BY <1>d, <1>f, <2>3 DEF Types
    <3> QED  BY <1>e, <3>2, <3>3, <3>4, <3>5
  <2> QED  BY <2>1, <2>2, <2>3
<1>5. ASSUME NEW w \in Workers, HeaderLine(w) PROVE HarmInv'
  <2>1. UNCHANGED <<exited, answer, uri, conn>> /\ pc' = [pc EXCEPT ![w] = "header"]
    BY <1>5 DEF HeaderLine, Goto
  <2>2. Heading(w)
    BY <1>5 DEF HeaderLine, At
  <2> QED  BY <1>d, <1>f, <1>g, <2>1, <2>2 DEF Types
<1>6. ASSUME NEW w \in Workers, Lookup(w) PROVE HarmInv'
  <2> DEFINE kind == Verdict(uri[w])
  <2>1. PICK l \in {"write", "map", "mapEmpty"} :
          /\ kind \in {"static", "dynamic", "404", "403"}
          /\ pc' = [pc EXCEPT ![w] = l]
          /\ BeginAnswer(w, kind, stats[w].handled)
    BY <1>6, LookupDecides DEF Goto
  <2>2. /\ pc[w] \in {"header1", "header"}
        /\ UNCHANGED <<exited, uri, conn>>
    BY <1>6, LookupDecides, Zenon DEF world, reading
  <2>3. kind \in {"static", "dynamic"} => FileOf(uri[w]) = "regular"
    <3>1. FileOf(uri[w]) \in FileKinds
      BY <1>f, FileOfUri
    <3>2. FileOf(uri[w]) \notin {"empty", "foreign"}
      BY <1>d, <1>f, FileOfUri
    <3> QED  BY <3>1, <3>2 DEF FileKinds, Verdict
  <2>4. l # "mapEmpty"
    <3>1. l = "mapEmpty" => /\ FileOf(uri[w]) = "empty" /\ kind = "static"
      <4>1. pc'[w] = l
        BY <1>f, <2>1 DEF Types
      <4>2. pc'[w] = CASE kind # "static" -> "write"
                      [] kind = "static" /\ FileOf(uri[w]) = "empty" -> "mapEmpty"
                      [] OTHER -> "map"
        BY <1>6, <1>f DEF Lookup, Goto, Types
      <4> HIDE DEF kind
      <4> QED  BY <4>1, <4>2
    <3> QED  BY <2>3, <3>1
  <2> HIDE DEF kind
  <2>5. /\ conn[w] \in Conns
        /\ answer'[conn[w]].kind = kind
        /\ \A c \in Conns \ {conn[w]} : answer'[c] = answer[c]
    BY <1>f, <2>1, <2>2, AtWork DEF BeginAnswer, Types
  <2>6. ~Harm'
    BY <1>d, <2>1, <2>2, <2>5
  <2>7. ASSUME NEW v \in Workers, Served(v)'
        PROVE  FileOf(uri'[v]) = "regular"
    <3>1. CASE v = w
      BY <2>2, <2>3, <2>5, <2>7, <3>1
    <3>2. CASE v # w
      <4>1. pc'[v] = pc[v] /\ uri'[v] = uri[v] /\ conn'[v] = conn[v]
        BY <1>f, <2>1, <2>2, <3>2 DEF Types
      <4>2. conn[v] \in Conns \ {conn[w]}
        BY <1>f, <2>5, <2>7, <3>2, <4>1, AtWork DEF Held
      <4> QED  BY <1>d, <2>5, <2>7, <4>1, <4>2
    <3> QED  BY <3>1, <3>2
  <2>8. \A v \in Workers : pc'[v] # "mapEmpty"
    BY <1>d, <1>f, <2>1, <2>4 DEF Types
  <2>9. \A v \in Workers : Heading(v)' => uri'[v] \notin LongWords
    BY <1>d, <1>f, <2>1, <2>2 DEF Types
  <2> QED  BY <1>e, <2>6, <2>7, <2>8, <2>9
<1>7. ASSUME NEW w \in Workers, MapFile(w) PROVE HarmInv'
  BY <1>7, <1>d, <1>f, <1>g DEF MapFile, Goto, At, Types
<1>8. ASSUME NEW w \in Workers, MapFileFails(w) PROVE FALSE
  <2>1. pc[w] = "map" /\ FileOf(uri[w]) \notin {"regular", "empty"}
    BY <1>8, <1>d DEF MapFileFails, At
  <2>2. Served(w)
    BY <1>f, <2>1 DEF Answering
  <2> QED  BY <1>d, <2>1, <2>2
<1>9. ASSUME NEW w \in Workers, RioWrite(w) PROVE HarmInv'
  <2>1. /\ UNCHANGED <<exited, answer, uri, conn>> /\ pc[w] = "write"
        /\ \E l \in {"write", "fork", "close"} : pc' = [pc EXCEPT ![w] = l]
    BY <1>9 DEF RioWrite, Goto, At
  <2> QED  BY <1>d, <1>f, <1>g, <2>1 DEF Types
<1>10. ASSUME NEW w \in Workers, RioWriteFails(w) PROVE FALSE
  <2>1. \/ conn[w] \in Conns /\ client[conn[w]] = "gone"
        \/ FileOf(uri[w]) = "empty"
    BY <1>10, <1>f, AtWork DEF RioWriteFails, At
  <2>2. FileOf(uri[w]) # "empty"
    BY <1>d, <1>f, FileOfUri
  <2> QED  BY <1>d, <2>1, <2>2 DEF Cause
<1>11. ASSUME NEW w \in Workers, ForkChild(w) PROVE HarmInv'
  BY <1>11, <1>d, <1>f, <1>g DEF ForkChild, Goto, At, Types
<1>12. ASSUME NEW w \in Workers, ForkFails(w) PROVE FALSE
  BY <1>12, <1>c, <1>f DEF ForkFails, Cause, Types
<1>13. ASSUME NEW w \in Workers, WaitChild(w) PROVE HarmInv'
  BY <1>13, <1>d, <1>f, <1>g DEF WaitChild, Goto, At, Types
<1>14. ASSUME NEW w \in Workers, CloseConn(w) PROVE HarmInv'
  <2>1. /\ UNCHANGED <<exited, answer, uri>> /\ pc' = [pc EXCEPT ![w] = "idle"]
        /\ \A v \in Workers \ {w} : conn'[v] = conn[v]
    BY <1>14, <1>f DEF CloseConn, Goto, Types
  <2> QED  BY <1>d, <1>f, <1>g, <2>1 DEF Types
<1>15. ASSUME NEW w \in Workers, ChildFails(w) PROVE FALSE
  <2>1. pc[w] = "wait" /\ answer[conn[w]].kind = "dynamic"
    BY <1>15, <1>f, AtWork DEF ChildFails, Answering
  <2> QED  BY <1>15, <1>d, <2>1 DEF ChildFails
<1>16. ASSUME NEW w \in Workers, ChildRuns(w) \/ ChildPrints(w) PROVE HarmInv'
  BY <1>16, <1>h DEF ChildRuns, ChildPrints
<1>17. CASE \/ \E c \in Conns : Connect(c) \/ Leave(c) \/ SeesEnd(c)
            \/ FileChanges
            \/ UNCHANGED vars
  <2>1. UNCHANGED <<exited, answer, pc, conn, uri>>
    BY <1>17 DEF Connect, Leave, SeesEnd, FileChanges, vars
  <2> QED  BY <1>h, <2>1
<1>20. ASSUME NEW w \in Workers, Overflow(w) PROVE FALSE
  <2>1. CASE HeadersEnd(w) /\ uri[w] \in LongWords
    BY <1>d, <2>1 DEF HeadersEnd, At
  <2>2. CASE /\ At(w, "request") /\ LineRead(w)
             /\ \E p \in Parsed(rio[w].line) : p[1] \in LongWords
    BY <1>d, <1>f, <2>2, LongIsCause DEF At
  <2> QED  BY <1>20, <2>1, <2>2 DEF Overflow
<1> HIDE DEF Harm, Served, Heading
<1>18. ASSUME NEW w \in Workers, WorkerStep(w) PROVE HarmInv'
  BY <1>1, <1>2, <1>3, <1>4, <1>5, <1>6, <1>7, <1>8, <1>9, <1>10, <1>11, <1>12,
     <1>13, <1>14, <1>18, <1>20, Zenon DEF WorkerStep
<1>19. ASSUME NEW w \in Workers, ChildStep(w) PROVE HarmInv'
  BY <1>15, <1>16, <1>19, Zenon DEF ChildStep
<1> QED  BY <1>17, <1>18, <1>19 DEF Next

\* The process does not end, and no CGI answer lacks its page, unless a client
\* left, a file changed or was empty or not the server's to open, a fork failed,
\* or a request line has or may be given a word too long for filename or body:
\* nothing else that a client sends is enough (segel.c 8-12, request.c 17, 76, 78, 90).
THEOREM HarmHasCause == Spec => []NoHarmWithoutCause
<1>1. Init => HarmInv
  BY DEF Init, HarmInv, NoHarmWithoutCause, NoAnswer
<1>2. HandlingInv /\ HarmInv /\ [Next]_vars /\ HandlingInv' => HarmInv'
  BY StepHarm
<1>3. HarmInv => NoHarmWithoutCause
  BY DEF HarmInv
<1> QED  BY <1>1, <1>2, <1>3, HandlingInvHolds, PTL DEF Spec

-----------------------------------------------------------------------------
(* StatisticsAgree.                                                        *)

\* The connections a worker has answered, those of some kinds, and the numbers it
\* has printed.
Mine(w) == {c \in Conns : answer[c].by = w}
Of(w, kinds) == {c \in Mine(w) : answer[c].kind \in kinds}
Printed(w) == {answer[c].count : c \in Mine(w)}

\* A request that is counted and not yet answered.
InHand(w) == IF pc[w] \in {"header1", "header"} THEN 1 ELSE 0

StatisticsInv ==
  \A w \in Workers :
    /\ Printed(w) = 1 .. Cardinality(Mine(w))
    /\ stats[w].stat = Cardinality(Of(w, {"static"}))
    /\ stats[w].dyn = Cardinality(Of(w, {"dynamic", "failed"}))
    /\ stats[w].handled = Cardinality(Mine(w)) + InHand(w)

LEMMA MineFinite ==
  ASSUME NEW w, NEW kinds
  PROVE  /\ IsFiniteSet(Mine(w)) /\ Cardinality(Mine(w)) \in Nat
         /\ IsFiniteSet(Of(w, kinds)) /\ Cardinality(Of(w, kinds)) \in Nat
<1>1. Mine(w) \in SUBSET Conns /\ Of(w, kinds) \in SUBSET Conns
  BY DEF Mine, Of
<1>2. IsFiniteSet(Mine(w)) /\ IsFiniteSet(Of(w, kinds))
  BY <1>1, HandlingAssumption, FS_Subset
<1> QED  BY <1>2, FS_CardinalityType

\* An answer begins: its worker has one more, with the number that was next, and
\* the other workers have what they had.
LEMMA OneMore ==
  ASSUME Types, NEW w \in Workers, conn[w] \in Conns, answer[conn[w]] = NoAnswer,
         NEW kind, NEW n, BeginAnswer(w, kind, n)
  PROVE  /\ \A v \in Workers \ {w} :
              /\ Mine(v)' = Mine(v) /\ Printed(v)' = Printed(v)
              /\ \A kinds : Of(v, kinds)' = Of(v, kinds)
         /\ Cardinality(Mine(w)') = Cardinality(Mine(w)) + 1
         /\ Printed(w)' = Printed(w) \cup {n}
         /\ \A kinds : Cardinality(Of(w, kinds)')
              = Cardinality(Of(w, kinds)) + IF kind \in kinds THEN 1 ELSE 0
<1> DEFINE c == conn[w]
<1>1. /\ answer'[c] = [kind |-> kind, by |-> w, count |-> n]
      /\ \A d \in Conns \ {c} : answer'[d] = answer[d]
  BY DEF BeginAnswer, Types
<1>2. answer'[c].by = w /\ answer'[c].kind = kind /\ answer'[c].count = n
  BY <1>1
<1>3. answer[c].by = Nobody
  BY DEF NoAnswer
<1> HIDE DEF c
<1>c. c \in Conns
  BY DEF c
<1>4. ASSUME NEW v \in Workers \ {w}
      PROVE  /\ Mine(v)' = Mine(v) /\ Printed(v)' = Printed(v)
             /\ \A kinds : Of(v, kinds)' = Of(v, kinds)
  <2>1. v # Nobody /\ c \notin Mine(v)
    BY <1>3, HandlingAssumption DEF Mine
  <2>2. Mine(v)' = Mine(v)
    BY <1>1, <1>2, <2>1 DEF Mine
  <2>3. \A d \in Mine(v) : answer'[d] = answer[d]
    BY <1>1, <2>1 DEF Mine
  <2> QED  BY <2>2, <2>3 DEF Printed, Of
<1>5. /\ c \notin Mine(w) /\ Mine(w)' = Mine(w) \cup {c}
      /\ \A d \in Mine(w) : answer'[d] = answer[d]
  <2>1. w # Nobody
    BY HandlingAssumption
  <2> QED  BY <1>c, <1>1, <1>2, <1>3, <2>1 DEF Mine
<1>6. Cardinality(Mine(w)') = Cardinality(Mine(w)) + 1
  BY <1>5, MineFinite, FS_AddElement
<1>7. Printed(w)' = Printed(w) \cup {n}
  <2>1. Printed(w)' = {answer'[d].count : d \in Mine(w) \cup {c}}
    BY <1>5 DEF Printed
  <2>2. {answer'[d].count : d \in Mine(w) \cup {c}}
          = {answer'[d].count : d \in Mine(w)} \cup {n}
    BY <1>2
  <2>3. {answer'[d].count : d \in Mine(w)} = Printed(w)
    BY <1>5 DEF Printed
  <2> QED  BY <2>1, <2>2, <2>3
<1>8. ASSUME NEW kinds
      PROVE  Cardinality(Of(w, kinds)')
               = Cardinality(Of(w, kinds)) + IF kind \in kinds THEN 1 ELSE 0
  <2>1. c \notin Of(w, kinds)
    BY <1>5 DEF Of
  <2>2. Of(w, kinds)' = IF kind \in kinds THEN Of(w, kinds) \cup {c} ELSE Of(w, kinds)
    BY <1>2, <1>5 DEF Of
  <2>3. Cardinality(Of(w, kinds) \cup {c}) = Cardinality(Of(w, kinds)) + 1
    BY <2>1, MineFinite, FS_AddElement
  <2>4. Cardinality(Of(w, kinds)) \in Nat
    BY MineFinite
  <2> QED  BY <2>2, <2>3, <2>4
<1> QED  BY <1>4, <1>6, <1>7, <1>8

LEMMA StepStatistics ==
  ASSUME HandlingInv, StatisticsInv, [Next]_vars, HandlingInv'
  PROVE  StatisticsInv'
<1> USE DEF clients, world, server, reading, writing
<1>a. Types /\ Held /\ Answering /\ Types'
  BY DEF HandlingInv
<1>b. ASSUME UNCHANGED <<answer, stats>>,
             \A w \in Workers : pc'[w] \in {"header1", "header"}
                                  <=> pc[w] \in {"header1", "header"}
      PROVE  StatisticsInv'
  <2>1. \A w \in Workers : /\ Mine(w)' = Mine(w) /\ Printed(w)' = Printed(w)
                           /\ \A kinds : Of(w, kinds)' = Of(w, kinds)
                           /\ InHand(w)' = InHand(w)
    BY <1>b DEF Mine, Printed, Of, InHand
  <2> QED  BY <1>b, <2>1 DEF StatisticsInv
<1>c. ASSUME NEW w \in Workers, NEW n, NEW kind,
             pc[w] \in {"request", "header1", "header"},
             pc'[w] \notin {"header1", "header"},
             \A v \in Workers \ {w} : pc'[v] = pc[v] /\ stats'[v] = stats[v],
             BeginAnswer(w, kind, n), n = Cardinality(Mine(w)) + 1,
             stats'[w].handled = n,
             stats'[w].stat = stats[w].stat + (IF kind = "static" THEN 1 ELSE 0),
             stats'[w].dyn = stats[w].dyn + (IF kind = "dynamic" THEN 1 ELSE 0),
             kind # "failed"
      PROVE  StatisticsInv'
  <2>1. conn[w] \in Conns /\ answer[conn[w]] = NoAnswer
    BY <1>a, <1>c, AtWork DEF Answering
  <2>2. /\ \A v \in Workers \ {w} :
             /\ Mine(v)' = Mine(v) /\ Printed(v)' = Printed(v)
             /\ \A kinds : Of(v, kinds)' = Of(v, kinds)
        /\ Cardinality(Mine(w)') = Cardinality(Mine(w)) + 1
        /\ Printed(w)' = Printed(w) \cup {n}
        /\ \A kinds : Cardinality(Of(w, kinds)')
             = Cardinality(Of(w, kinds)) + IF kind \in kinds THEN 1 ELSE 0
    BY <1>a, <1>c, <2>1, OneMore
  <2>3. ASSUME NEW v \in Workers \ {w}
        PROVE  /\ Printed(v)' = 1 .. Cardinality(Mine(v)')
               /\ stats'[v].stat = Cardinality(Of(v, {"static"})')
               /\ stats'[v].dyn = Cardinality(Of(v, {"dynamic", "failed"})')
               /\ stats'[v].handled = Cardinality(Mine(v)') + InHand(v)'
    BY <1>c, <2>2 DEF StatisticsInv, InHand
  <2>4. /\ Printed(w)' = 1 .. Cardinality(Mine(w)')
        /\ stats'[w].stat = Cardinality(Of(w, {"static"})')
        /\ stats'[w].dyn = Cardinality(Of(w, {"dynamic", "failed"})')
        /\ stats'[w].handled = Cardinality(Mine(w)') + InHand(w)'
    <3>1. Printed(w) = 1 .. Cardinality(Mine(w)) /\ Cardinality(Mine(w)) \in Nat
      BY MineFinite DEF StatisticsInv
    <3>2. Printed(w)' = 1 .. Cardinality(Mine(w)')
      BY <1>c, <2>2, <3>1
    <3>3. kind \in {"static"} <=> kind = "static"
      OBVIOUS
    <3>4. kind \in {"dynamic", "failed"} <=> kind = "dynamic"
      BY <1>c
    <3>5. /\ stats'[w].stat = Cardinality(Of(w, {"static"})')
          /\ stats'[w].dyn = Cardinality(Of(w, {"dynamic", "failed"})')
      BY <1>c, <2>2, <3>3, <3>4 DEF StatisticsInv
    <3>6. InHand(w)' = 0
      BY <1>c DEF InHand
    <3>7. stats'[w].handled = Cardinality(Mine(w)') + InHand(w)'
      BY <1>c, <2>2, <3>1, <3>6
    <3> QED  BY <3>2, <3>5, <3>7
  <2> QED  BY <2>3, <2>4 DEF StatisticsInv
<1>1. ASSUME NEW w \in Workers, RequestLine(w) PROVE StatisticsInv'
  <2>1. PICK p \in Parsed(rio[w].line) :
          /\ stats' = [stats EXCEPT ![w] = Count(@, p[1])]
          /\ \/ UNCHANGED answer /\ Goto(w, "header1")
             \/ BeginAnswer(w, "501", stats'[w].handled) /\ Goto(w, "write")
    BY <1>1 DEF RequestLine
  <2>2. pc[w] = "request"
    BY <1>1 DEF RequestLine, At
  <2>3. /\ stats'[w].handled = stats[w].handled + 1
        /\ stats'[w].stat = stats[w].stat /\ stats'[w].dyn = stats[w].dyn
        /\ \A v \in Workers \ {w} : stats'[v] = stats[v]
    BY <1>a, <2>1 DEF Count, Types, Counts
  <2>4. \A v \in Workers \ {w} : pc'[v] = pc[v]
    BY <1>a, <2>1 DEF Goto, Types
  <2>5. stats[w].handled = Cardinality(Mine(w)) /\ Cardinality(Mine(w)) \in Nat
    BY <2>2, MineFinite DEF StatisticsInv, InHand
  <2>6. CASE UNCHANGED answer /\ Goto(w, "header1")
    <3>1. pc'[w] = "header1"
      BY <1>a, <2>6 DEF Goto, Types
    <3>2. \A v \in Workers : /\ Mine(v)' = Mine(v) /\ Printed(v)' = Printed(v)
                             /\ \A kinds : Of(v, kinds)' = Of(v, kinds)
      BY <2>6 DEF Mine, Printed, Of
    <3>3. InHand(w)' = 1 /\ \A v \in Workers \ {w} : InHand(v)' = InHand(v)
      BY <2>4, <3>1 DEF InHand
    <3>4. stats'[w].handled = Cardinality(Mine(w)) + 1
      BY <2>3, <2>5
    <3>5. ASSUME NEW v \in Workers
          PROVE  /\ Printed(v)' = 1 .. Cardinality(Mine(v)')
                 /\ stats'[v].stat = Cardinality(Of(v, {"static"})')
                 /\ stats'[v].dyn = Cardinality(Of(v, {"dynamic", "failed"})')
                 /\ stats'[v].handled = Cardinality(Mine(v)') + InHand(v)'
      <4>1. CASE v = w
        BY <2>3, <3>2, <3>3, <3>4, <4>1 DEF StatisticsInv
      <4>2. CASE v # w
        BY <2>3, <3>2, <3>3, <4>2 DEF StatisticsInv
      <4> QED  BY <4>1, <4>2
    <3> QED  BY <3>5 DEF StatisticsInv
  <2>7. CASE BeginAnswer(w, "501", stats'[w].handled) /\ Goto(w, "write")
    <3>1. pc'[w] = "write"
      BY <1>a, <2>7 DEF Goto, Types
    <3>2. stats'[w].handled = Cardinality(Mine(w)) + 1
      BY <2>3, <2>5
    <3>3. stats[w].stat \in Nat /\ stats[w].dyn \in Nat
      BY <1>a DEF Types, Counts
    <3>4. /\ stats'[w].stat = stats[w].stat + (IF "501" = "static" THEN 1 ELSE 0)
          /\ stats'[w].dyn = stats[w].dyn + (IF "501" = "dynamic" THEN 1 ELSE 0)
      BY <2>3, <3>3
    <3> QED  BY <1>c, <2>2, <2>3, <2>4, <2>7, <3>1, <3>2, <3>4
  <2> QED  BY <2>1, <2>6, <2>7
<1>2. ASSUME NEW w \in Workers, Lookup(w) PROVE StatisticsInv'
  <2>1. PICK kind \in {"static", "dynamic", "404", "403"},
             l \in {"write", "map", "mapEmpty"} :
          /\ Goto(w, l)
          /\ BeginAnswer(w, kind, stats[w].handled)
          /\ stats' = [stats EXCEPT ![w].stat = IF kind = "static" THEN @ + 1 ELSE @,
                                    ![w].dyn  = IF kind = "dynamic" THEN @ + 1 ELSE @]
    BY <1>2, LookupDecides, ZenonT(40)
  <2>2. pc[w] \in {"header1", "header"}
    BY <1>2, LookupDecides
  <2>3. /\ stats'[w].handled = stats[w].handled
        /\ stats'[w].stat = stats[w].stat + (IF kind = "static" THEN 1 ELSE 0)
        /\ stats'[w].dyn = stats[w].dyn + (IF kind = "dynamic" THEN 1 ELSE 0)
        /\ \A v \in Workers \ {w} : stats'[v] = stats[v]
    BY <1>a, <2>1 DEF Types, Counts
  <2>4. pc'[w] = l /\ \A v \in Workers \ {w} : pc'[v] = pc[v]
    BY <1>a, <2>1 DEF Goto, Types
  <2>5. stats[w].handled = Cardinality(Mine(w)) + 1
    BY <2>2 DEF StatisticsInv, InHand
  <2>6. pc'[w] \notin {"header1", "header"} /\ kind # "failed"
    BY <2>1, <2>4
  <2>7. pc[w] \in {"request", "header1", "header"}
    BY <2>2
  <2> DEFINE n == stats[w].handled
  <2>8. BeginAnswer(w, kind, n) /\ n = Cardinality(Mine(w)) + 1 /\ stats'[w].handled = n
    BY <2>1, <2>3, <2>5
  <2> HIDE DEF n
  <2> QED  BY <1>c, <2>3, <2>4, <2>6, <2>7, <2>8
<1>3. ASSUME NEW w \in Workers, ChildFails(w) PROVE StatisticsInv'
  <2>1. conn[w] \in Conns /\ answer[conn[w]].kind = "dynamic"
    BY <1>3, <1>a, AtWork DEF ChildFails, Answering
  <2>2. /\ answer' = [answer EXCEPT ![conn[w]].kind = "failed"]
        /\ UNCHANGED <<pc, stats>>
    BY <1>3 DEF ChildFails
  <2>3. \A c \in Conns : /\ answer'[c].by = answer[c].by
                         /\ answer'[c].count = answer[c].count
                         /\ answer'[c].kind = answer[c].kind
                            \/ (answer[c].kind = "dynamic" /\ answer'[c].kind = "failed")
    BY <1>a, <2>1, <2>2 DEF Types, Answers
  <2>4. \A v \in Workers :
          /\ Mine(v)' = Mine(v) /\ Printed(v)' = Printed(v)
          /\ Of(v, {"static"})' = Of(v, {"static"})
          /\ Of(v, {"dynamic", "failed"})' = Of(v, {"dynamic", "failed"})
          /\ InHand(v)' = InHand(v)
    <3>1. SUFFICES ASSUME NEW v \in Workers
          PROVE  /\ Mine(v)' = Mine(v) /\ Printed(v)' = Printed(v)
                 /\ Of(v, {"static"})' = Of(v, {"static"})
                 /\ Of(v, {"dynamic", "failed"})' = Of(v, {"dynamic", "failed"})
                 /\ InHand(v)' = InHand(v)
      OBVIOUS
    <3>2. Mine(v)' = Mine(v)
      BY <2>3 DEF Mine
    <3>3. \A c \in Mine(v) : c \in Conns
      BY DEF Mine
    <3>4. Printed(v)' = Printed(v)
      BY <2>3, <3>2, <3>3 DEF Printed
    <3>5. /\ Of(v, {"static"})' = Of(v, {"static"})
          /\ Of(v, {"dynamic", "failed"})' = Of(v, {"dynamic", "failed"})
      BY <2>3, <3>2, <3>3 DEF Of
    <3>6. InHand(v)' = InHand(v)
      BY <2>2 DEF InHand
    <3> QED  BY <3>2, <3>4, <3>5, <3>6
  <2> QED  BY <2>2, <2>4 DEF StatisticsInv
<1>4. ASSUME NEW w \in Workers,
             \/ Take(w) \/ HeaderLine(w) \/ MapFile(w) \/ RioWrite(w) \/ ForkChild(w)
             \/ WaitChild(w) \/ CloseConn(w)
      PROVE  StatisticsInv'
  <2>1. UNCHANGED <<answer, stats>>
    BY <1>4 DEF Take, HeaderLine, MapFile, RioWrite, ForkChild, WaitChild, CloseConn
  <2>2. \E l \in Labels :
          /\ pc' = [pc EXCEPT ![w] = l]
          /\ l \in {"header1", "header"} <=> pc[w] \in {"header1", "header"}
    BY <1>4 DEF Take, HeaderLine, MapFile, RioWrite, ForkChild, WaitChild, CloseConn, Goto,
                At, Labels
  <2> QED  BY <1>a, <1>b, <2>1, <2>2 DEF Types
<1>5. ASSUME NEW w \in Workers,
             \/ RioRead(w) \/ RioReadFails(w) \/ MapFileFails(w) \/ Overflow(w) \/ RioWriteFails(w)
             \/ ForkFails(w) \/ ChildRuns(w) \/ ChildPrints(w)
      PROVE  StatisticsInv'
  <2>1. UNCHANGED <<answer, stats, pc>>
    BY <1>5 DEF RioRead, RioReadFails, MapFileFails, Overflow, RioWriteFails, ForkFails, ChildRuns,
                ChildPrints, UnixError
  <2> QED  BY <1>b, <2>1
<1>6. CASE \/ \E c \in Conns : Connect(c) \/ Leave(c) \/ SeesEnd(c)
           \/ FileChanges
           \/ UNCHANGED vars
  <2>1. UNCHANGED <<answer, stats, pc>>
    BY <1>6 DEF Connect, Leave, SeesEnd, FileChanges, vars
  <2> QED  BY <1>b, <2>1
<1>7. ASSUME NEW w \in Workers, WorkerStep(w) PROVE StatisticsInv'
  BY <1>1, <1>2, <1>4, <1>5, <1>7, Zenon DEF WorkerStep
<1>8. ASSUME NEW w \in Workers, ChildStep(w) PROVE StatisticsInv'
  BY <1>3, <1>5, <1>8, Zenon DEF ChildStep
<1> QED  BY <1>6, <1>7, <1>8 DEF Next

\* The numbers a worker prints are 1, 2, 3 and so on, one for each request it
\* answers, and its counts of static and dynamic requests are those it answered
\* so (request.c 187, 205-218).
THEOREM StatisticsKept == Spec => []StatisticsAgree
<1>1. Init => StatisticsInv
  <2> SUFFICES ASSUME Init, NEW w \in Workers
               PROVE  /\ Printed(w) = 1 .. Cardinality(Mine(w))
                      /\ stats[w].stat = Cardinality(Of(w, {"static"}))
                      /\ stats[w].dyn = Cardinality(Of(w, {"dynamic", "failed"}))
                      /\ stats[w].handled = Cardinality(Mine(w)) + InHand(w)
    BY DEF StatisticsInv
  <2>1. Mine(w) = {}
    BY HandlingAssumption DEF Init, Mine, NoAnswer
  <2>2. Printed(w) = {} /\ \A kinds : Of(w, kinds) = {}
    BY <2>1 DEF Printed, Of
  <2>3. InHand(w) = 0 /\ stats[w].handled = 0 /\ stats[w].stat = 0 /\ stats[w].dyn = 0
    BY DEF Init, InHand, ZeroStats
  <2>4. Cardinality(Mine(w)) = 0 /\ \A kinds : Cardinality(Of(w, kinds)) = 0
    BY <2>1, <2>2, FS_EmptySet
  <2>5. Printed(w) = 1 .. Cardinality(Mine(w))
    BY <2>2, <2>4
  <2> QED  BY <2>3, <2>4, <2>5
<1>2. HandlingInv /\ StatisticsInv /\ [Next]_vars /\ HandlingInv' => StatisticsInv'
  BY StepStatistics
<1>3. StatisticsInv => StatisticsAgree
  BY DEF StatisticsInv, StatisticsAgree, Mine, Of, Printed
<1> QED  BY <1>1, <1>2, <1>3, HandlingInvHolds, PTL DEF Spec

-----------------------------------------------------------------------------
(* AnswerWhole: what is written.                                           *)

\* What a worker itself writes of an answer: a CGI program writes the rest.
Written(kind) == IF kind = "dynamic" THEN <<<<"header", 1>>>> ELSE Whole(kind)

\* How the writing of an answer goes on: what is left to write, beside what has
\* been written.
Stages(kind) ==
  CASE kind = "static" ->
         {<<<<<<<<"header", 1>>>>, <<<<"file", 1>>, <<"file", 2>>>>>>, <<>>>>,
          <<<<<<<<"file", 1>>, <<"file", 2>>>>>>, <<<<"header", 1>>>>>>,
          <<<<<<<<"file", 2>>>>>>, <<<<"header", 1>>, <<"file", 1>>>>>>}
    [] kind = "dynamic" -> {<<<<<<<<"header", 1>>>>>>, <<>>>>}
    [] OTHER ->
         {<<<<<<<<"status", 1>>>>, <<<<"type", 1>>>>, <<<<"stats", 1>>>>, <<<<"text", 1>>>>>>,
            <<>>>>,
          <<<<<<<<"type", 1>>>>, <<<<"stats", 1>>>>, <<<<"text", 1>>>>>>,
            <<<<"status", 1>>>>>>,
          <<<<<<<<"stats", 1>>>>, <<<<"text", 1>>>>>>, <<<<"status", 1>>, <<"type", 1>>>>>>,
          <<<<<<<<"text", 1>>>>>>, <<<<"status", 1>>, <<"type", 1>>, <<"stats", 1>>>>>>}

\* Short sequences joined.
LEMMA Joins ==
  ASSUME NEW a, NEW b, NEW c
  PROVE  /\ <<>> \o <<a>> = <<a>>
         /\ <<a>> \o <<b>> = <<a, b>>
         /\ <<a>> \o <<b, c>> = <<a, b, c>>
         /\ <<a, b>> \o <<c>> = <<a, b, c>>
         /\ <<a>> \o <<>> = <<a>>
<1> DEFINE S == {a, b, c}
<1>1. /\ <<a>> \in Seq(S) /\ <<b>> \in Seq(S) /\ <<c>> \in Seq(S)
      /\ <<a, b>> \in Seq(S) /\ <<b, c>> \in Seq(S)
      /\ <<a, b, c>> \in Seq(S)
  OBVIOUS
<1> HIDE DEF S
<1>2. <<>> \o <<a>> = <<a>> /\ <<a>> \o <<>> = <<a>>
  BY <1>1, ConcatEmptySeq
<1>3. <<a>> \o <<b>> = <<a, b>>
  <2> DEFINE t == <<a>> \o <<b>>
  <2>1. t \in Seq(S) /\ Len(t) = 2 /\ t[1] = a /\ t[2] = b
    BY <1>1, ConcatProperties
  <2> HIDE DEF t
  <2>2. Len(<<a, b>>) = 2 /\ \A i \in 1 .. 2 : t[i] = <<a, b>>[i]
    BY <2>1
  <2> QED  BY <1>1, <2>1, <2>2, SeqEqual DEF t
<1>4. <<a>> \o <<b, c>> = <<a, b, c>>
  <2> DEFINE t == <<a>> \o <<b, c>>
  <2>1. t \in Seq(S) /\ Len(t) = 3 /\ t[1] = a /\ t[2] = b /\ t[3] = c
    BY <1>1, ConcatProperties
  <2> HIDE DEF t
  <2>2. Len(<<a, b, c>>) = 3 /\ \A i \in 1 .. 3 : t[i] = <<a, b, c>>[i]
    BY <2>1
  <2> QED  BY <1>1, <2>1, <2>2, SeqEqual DEF t
<1>5. <<a, b>> \o <<c>> = <<a, b, c>>
  <2> DEFINE t == <<a, b>> \o <<c>>
  <2>1. t \in Seq(S) /\ Len(t) = 3 /\ t[1] = a /\ t[2] = b /\ t[3] = c
    BY <1>1, ConcatProperties
  <2> HIDE DEF t
  <2>2. Len(<<a, b, c>>) = 3 /\ \A i \in 1 .. 3 : t[i] = <<a, b, c>>[i]
    BY <2>1
  <2> QED  BY <1>1, <2>1, <2>2, SeqEqual DEF t
<1> QED  BY <1>2, <1>3, <1>4, <1>5

LEMMA JoinFour ==
  ASSUME NEW a, NEW b, NEW c, NEW d
  PROVE  <<a, b, c>> \o <<d>> = <<a, b, c, d>>
<1> DEFINE S == {a, b, c, d}
           t == <<a, b, c>> \o <<d>>
<1>1. <<a, b, c>> \in Seq(S) /\ <<d>> \in Seq(S) /\ <<a, b, c, d>> \in Seq(S)
  OBVIOUS
<1> HIDE DEF S
<1>2. t \in Seq(S) /\ Len(t) = 4 /\ t[1] = a /\ t[2] = b /\ t[3] = c /\ t[4] = d
  BY <1>1, ConcatProperties
<1> HIDE DEF t
<1>3. Len(<<a, b, c, d>>) = 4 /\ \A i \in 1 .. 4 : t[i] = <<a, b, c, d>>[i]
  BY <1>2
<1> QED  BY <1>1, <1>2, <1>3, SeqEqual DEF t

\* write() of a buffer of one piece, and of one of two.
LEMMA Cut ==
  ASSUME NEW a, NEW b
  PROVE  /\ Len(<<a>>) = 1 /\ UpTo(<<a>>, 1) = <<a>>
         /\ Len(<<a, b>>) = 2 /\ UpTo(<<a, b>>, 2) = <<a, b>>
         /\ UpTo(<<a, b>>, 1) = <<a>> /\ Beyond(<<a, b>>, 1) = <<b>>
<1> DEFINE S == {a, b}
<1>1. /\ <<a>> \in Seq(S) /\ <<b>> \in Seq(S) /\ <<a, b>> \in Seq(S)
      /\ Len(<<a>>) = 1 /\ Len(<<b>>) = 1 /\ Len(<<a, b>>) = 2
  OBVIOUS
<1>2. SubSeq(<<a>>, 1, 1) = <<a>> /\ SubSeq(<<a, b>>, 1, 2) = <<a, b>>
  BY <1>1, SubSeqFull
<1>3. SubSeq(<<a, b>>, 1, 1) = <<a>>
  <2> DEFINE t == SubSeq(<<a, b>>, 1, 1)
  <2>1. \A i \in 1 .. 1 : <<a, b>>[i] \in S
    OBVIOUS
  <2>2. t \in Seq(S) /\ Len(t) = 1 /\ t[1] = <<a, b>>[1]
    BY <2>1, SubSeqProperties
  <2> HIDE DEF t
  <2>3. \A i \in 1 .. 1 : t[i] = <<a>>[i]
    BY <2>2
  <2> QED  BY <1>1, <2>2, <2>3, SeqEqual DEF t
<1>4. SubSeq(<<a, b>>, 2, 2) = <<b>>
  <2> DEFINE t == SubSeq(<<a, b>>, 2, 2)
  <2>1. \A i \in 2 .. 2 : <<a, b>>[i] \in S
    OBVIOUS
  <2>2. t \in Seq(S) /\ Len(t) = 1 /\ t[1] = <<a, b>>[2]
    BY <2>1, SubSeqProperties
  <2> HIDE DEF t
  <2>3. \A i \in 1 .. 1 : t[i] = <<b>>[i]
    BY <2>2
  <2> QED  BY <1>1, <2>2, <2>3, SeqEqual DEF t
<1> HIDE DEF S
<1>5. Beyond(<<a, b>>, 1) = <<b>>
  BY <1>1, <1>4 DEF Beyond
<1> QED  BY <1>1, <1>2, <1>3, <1>5 DEF UpTo

\* An answer begins with all of its buffers.
LEMMA FirstStage ==
  ASSUME NEW kind \in {"static", "dynamic", "404", "403", "501"}
  PROVE  <<Buffers(kind), <<>>>> \in Stages(kind)
<1>1. CASE kind = "static"
  <2>1. Buffers(kind) = <<<<<<"header", 1>>>>, <<<<"file", 1>>, <<"file", 2>>>>>>
    BY <1>1 DEF Buffers, Calls, Buffer
  <2> QED  BY <1>1, <2>1 DEF Stages
<1>2. CASE kind = "dynamic"
  <2>1. Buffers(kind) = <<<<<<"header", 1>>>>>>
    BY <1>2 DEF Buffers, Calls, Buffer
  <2> QED  BY <1>2, <2>1 DEF Stages
<1>3. CASE kind \notin {"static", "dynamic"}
  <2>1. Buffers(kind)
          = <<<<<<"status", 1>>>>, <<<<"type", 1>>>>, <<<<"stats", 1>>>>, <<<<"text", 1>>>>>>
    BY <1>3 DEF Buffers, Calls, Buffer
  <2> QED  BY <1>3, <2>1 DEF Stages
<1> QED  BY <1>1, <1>2, <1>3

\* rio_writen when the next buffer has one piece.
LEMMA WriteOne ==
  ASSUME NEW left, NEW a, Head(left) = <<a>>, NEW n \in 1 .. Len(Head(left))
  PROVE  LeftOf(left, n) = Tail(left) /\ UpTo(Head(left), n) = <<a>>
<1>1. Len(<<a>>) = 1 /\ UpTo(<<a>>, 1) = <<a>>
  BY Cut, Zenon
<1> DEFINE h == Head(left)
<1>2. Len(h) = 1 /\ UpTo(h, 1) = <<a>>
  BY <1>1
<1>0. n \in 1 .. Len(h)
  OBVIOUS
<1> HIDE DEF h
<1>3. n = 1
  BY <1>0, <1>2
<1>4. ~(n < Len(h))
  BY <1>2, <1>3
<1>5. LeftOf(left, n) = Tail(left)
  BY <1>4 DEF LeftOf, h
<1>6. UpTo(h, n) = <<a>>
  BY <1>2, <1>3
<1> QED  BY <1>5, <1>6 DEF h

\* rio_writen when the last buffer has two.
LEMMA WriteTwo ==
  ASSUME NEW left, NEW a, NEW b, Head(left) = <<a, b>>, Tail(left) = <<>>,
         NEW n \in 1 .. Len(Head(left))
  PROVE  \/ LeftOf(left, n) = <<<<b>>>> /\ UpTo(Head(left), n) = <<a>>
         \/ LeftOf(left, n) = <<>> /\ UpTo(Head(left), n) = <<a, b>>
<1>1. /\ Len(<<a, b>>) = 2 /\ UpTo(<<a, b>>, 2) = <<a, b>>
      /\ UpTo(<<a, b>>, 1) = <<a>> /\ Beyond(<<a, b>>, 1) = <<b>>
  BY Cut, Zenon
<1>2. <<<<b>>>> \o <<>> = <<<<b>>>>
  BY Joins, Zenon
<1> DEFINE h == Head(left)
<1>3. /\ Len(h) = 2 /\ UpTo(h, 2) = <<a, b>> /\ UpTo(h, 1) = <<a>>
      /\ Beyond(h, 1) = <<b>>
  BY <1>1
<1>0. n \in 1 .. Len(h)
  OBVIOUS
<1> HIDE DEF h
<1>4. n = 1 \/ n = 2
  BY <1>0, <1>3
<1>5. CASE n = 1
  <2>1. n < Len(h)
    BY <1>3, <1>5
  <2>2. LeftOf(left, n) = <<Beyond(h, n)>> \o <<>>
    BY <2>1 DEF LeftOf, h
  <2>3. LeftOf(left, n) = <<<<b>>>> /\ UpTo(h, n) = <<a>>
    BY <1>2, <1>3, <1>5, <2>2
  <2> QED  BY <2>3 DEF h
<1>6. CASE n = 2
  <2>1. ~(n < Len(h))
    BY <1>3, <1>6
  <2>2. LeftOf(left, n) = <<>>
    BY <2>1 DEF LeftOf, h
  <2>3. UpTo(h, n) = <<a, b>>
    BY <1>3, <1>6
  <2> QED  BY <2>2, <2>3 DEF h
<1> QED  BY <1>4, <1>5, <1>6

\* write() leads from one stage to another, or to the end.
LEMMA NextStage ==
  ASSUME NEW kind, NEW left, NEW sent, <<left, sent>> \in Stages(kind),
         NEW n \in 1 .. Len(Head(left))
  PROVE  LET left2 == LeftOf(left, n)
             sent2 == sent \o UpTo(Head(left), n)
         IN  \/ left2 = <<>> /\ sent2 = Written(kind)
             \/ left2 # <<>> /\ <<left2, sent2>> \in Stages(kind)
<1> DEFINE left2 == LeftOf(left, n)
           sent2 == sent \o UpTo(Head(left), n)
           Good == \/ left2 = <<>> /\ sent2 = Written(kind)
                   \/ left2 # <<>> /\ <<left2, sent2>> \in Stages(kind)
<1>1. ASSUME NEW x, Head(left) = <<x>>
      PROVE  left2 = Tail(left) /\ sent2 = sent \o <<x>>
  BY <1>1, WriteOne
<1>2. ASSUME NEW x, NEW y, Head(left) = <<x, y>>, Tail(left) = <<>>
      PROVE  \/ left2 = <<<<y>>>> /\ sent2 = sent \o <<x>>
             \/ left2 = <<>> /\ sent2 = sent \o <<x, y>>
  BY <1>2, WriteTwo, ZenonT(40)
<1> HIDE DEF left2, sent2
<1>3. CASE kind = "static"
  <2> DEFINE a == <<"header", 1>>
             b == <<"file", 1>>
             c == <<"file", 2>>
  <2>1. \/ left = <<<<a>>, <<b, c>>>> /\ sent = <<>>
        \/ left = <<<<b, c>>>> /\ sent = <<a>>
        \/ left = <<<<c>>>> /\ sent = <<a, b>>
    BY <1>3 DEF Stages
  <2>2. /\ <<<<<<b, c>>>>, <<a>>>> \in Stages(kind)
        /\ <<<<<<c>>>>, <<a, b>>>> \in Stages(kind)
        /\ <<a, b, c>> = Written(kind)
    BY <1>3 DEF Stages, Written, Whole
  <2> HIDE DEF a, b, c
  <2>3. /\ <<>> \o <<a>> = <<a>> /\ <<a>> \o <<b>> = <<a, b>>
        /\ <<a>> \o <<b, c>> = <<a, b, c>> /\ <<a, b>> \o <<c>> = <<a, b, c>>
    BY Joins, Zenon
  <2>4. ASSUME left = <<<<a>>, <<b, c>>>> /\ sent = <<>>
       PROVE  Good
    <3>1. Head(left) = <<a>> /\ Tail(left) = <<<<b, c>>>>
      BY <2>4
    <3>2. left2 = <<<<b, c>>>> /\ sent2 = <<a>>
      BY <1>1, <2>3, <2>4, <3>1, Zenon
    <3>3. <<<<b, c>>>> # <<>>
      OBVIOUS
    <3> QED  BY <2>2, <3>2, <3>3, Zenon
  <2>5. ASSUME left = <<<<b, c>>>> /\ sent = <<a>>
       PROVE  Good
    <3>1. Head(left) = <<b, c>> /\ Tail(left) = <<>>
      BY <2>5
    <3>2. \/ left2 = <<<<c>>>> /\ sent2 = <<a, b>>
          \/ left2 = <<>> /\ sent2 = <<a, b, c>>
      BY <1>2, <2>3, <2>5, <3>1, Zenon
    <3>3. <<<<c>>>> # <<>>
      OBVIOUS
    <3> QED  BY <2>2, <3>2, <3>3, Zenon
  <2>6. ASSUME left = <<<<c>>>> /\ sent = <<a, b>>
       PROVE  Good
    <3>1. Head(left) = <<c>> /\ Tail(left) = <<>>
      BY <2>6
    <3>2. left2 = <<>> /\ sent2 = <<a, b, c>>
      BY <1>1, <2>3, <2>6, <3>1, Zenon
    <3> QED  BY <2>2, <3>2, Zenon
  <2>7. Good
    BY <2>1, <2>4, <2>5, <2>6
  <2> QED  BY <2>7 DEF left2, sent2
<1>4. CASE kind = "dynamic"
  <2> DEFINE a == <<"header", 1>>
  <2>1. left = <<<<a>>>> /\ sent = <<>>
    BY <1>4 DEF Stages
  <2>2. <<a>> = Written(kind)
    BY <1>4 DEF Written
  <2> HIDE DEF a
  <2>3. Head(left) = <<a>> /\ Tail(left) = <<>>
    BY <2>1
  <2>4. <<>> \o <<a>> = <<a>>
    BY Joins, Zenon
  <2>5. left2 = <<>> /\ sent2 = <<a>>
    BY <1>1, <2>1, <2>3, <2>4, Zenon
  <2>6. Good
    BY <2>2, <2>5, Zenon
  <2> QED  BY <2>6 DEF left2, sent2
<1>5. CASE kind \notin {"static", "dynamic"}
  <2> DEFINE a == <<"status", 1>>
             b == <<"type", 1>>
             c == <<"stats", 1>>
             d == <<"text", 1>>
  <2>1. \/ left = <<<<a>>, <<b>>, <<c>>, <<d>>>> /\ sent = <<>>
        \/ left = <<<<b>>, <<c>>, <<d>>>> /\ sent = <<a>>
        \/ left = <<<<c>>, <<d>>>> /\ sent = <<a, b>>
        \/ left = <<<<d>>>> /\ sent = <<a, b, c>>
    BY <1>5 DEF Stages
  <2>2. /\ <<<<<<b>>, <<c>>, <<d>>>>, <<a>>>> \in Stages(kind)
        /\ <<<<<<c>>, <<d>>>>, <<a, b>>>> \in Stages(kind)
        /\ <<<<<<d>>>>, <<a, b, c>>>> \in Stages(kind)
        /\ <<a, b, c, d>> = Written(kind)
    BY <1>5 DEF Stages, Written, Whole
  <2> HIDE DEF a, b, c, d
  <2>3. /\ <<>> \o <<a>> = <<a>> /\ <<a>> \o <<b>> = <<a, b>>
        /\ <<a, b>> \o <<c>> = <<a, b, c>> /\ <<a, b, c>> \o <<d>> = <<a, b, c, d>>
    <3>1. <<>> \o <<a>> = <<a>>
      BY Joins, Zenon
    <3>2. <<a>> \o <<b>> = <<a, b>>
      BY Joins, Zenon
    <3>3. <<a, b>> \o <<c>> = <<a, b, c>>
      BY Joins, Zenon
    <3>4. <<a, b, c>> \o <<d>> = <<a, b, c, d>>
      BY JoinFour, Zenon
    <3> QED  BY <3>1, <3>2, <3>3, <3>4
  <2>4. ASSUME left = <<<<a>>, <<b>>, <<c>>, <<d>>>> /\ sent = <<>>
       PROVE  Good
    <3>1. Head(left) = <<a>> /\ Tail(left) = <<<<b>>, <<c>>, <<d>>>>
      BY <2>4
    <3>2. left2 = <<<<b>>, <<c>>, <<d>>>> /\ sent2 = <<a>>
      BY <1>1, <2>3, <2>4, <3>1, Zenon
    <3>3. <<<<b>>, <<c>>, <<d>>>> # <<>>
      OBVIOUS
    <3> QED  BY <2>2, <3>2, <3>3, Zenon
  <2>5. ASSUME left = <<<<b>>, <<c>>, <<d>>>> /\ sent = <<a>>
       PROVE  Good
    <3>1. Head(left) = <<b>> /\ Tail(left) = <<<<c>>, <<d>>>>
      BY <2>5
    <3>2. left2 = <<<<c>>, <<d>>>> /\ sent2 = <<a, b>>
      BY <1>1, <2>3, <2>5, <3>1, Zenon
    <3>3. <<<<c>>, <<d>>>> # <<>>
      OBVIOUS
    <3> QED  BY <2>2, <3>2, <3>3, Zenon
  <2>6. ASSUME left = <<<<c>>, <<d>>>> /\ sent = <<a, b>>
       PROVE  Good
    <3>1. Head(left) = <<c>> /\ Tail(left) = <<<<d>>>>
      BY <2>6
    <3>2. left2 = <<<<d>>>> /\ sent2 = <<a, b, c>>
      BY <1>1, <2>3, <2>6, <3>1, Zenon
    <3>3. <<<<d>>>> # <<>>
      OBVIOUS
    <3> QED  BY <2>2, <3>2, <3>3, Zenon
  <2>7. ASSUME left = <<<<d>>>> /\ sent = <<a, b, c>>
       PROVE  Good
    <3>1. Head(left) = <<d>> /\ Tail(left) = <<>>
      BY <2>7
    <3>2. left2 = <<>> /\ sent2 = <<a, b, c, d>>
      BY <1>1, <2>3, <2>7, <3>1, Zenon
    <3> QED  BY <2>2, <3>2, Zenon
  <2>8. Good
    BY <2>1, <2>4, <2>5, <2>6, <2>7
  <2> QED  BY <2>8 DEF left2, sent2
<1> QED  BY <1>3, <1>4, <1>5

\* A worker that reads headers has the request line behind it.
Past ==
  \A w \in Workers :
    pc[w] \in {"header1", "header"}
      => Start(rio[w], taken[conn[w]]) > 0 \/ Len(stream[conn[w]]) = 0

\* Before it answers, a worker has read a well-formed request to its end.
ReadThrough ==
  \A w \in Workers :
    pc[w] \in {"map", "mapEmpty", "write", "fork", "wait", "close"}
      => (WellFormed(conn[w]) => taken[conn[w]] = Len(stream[conn[w]]))

\* What a worker and its child have written, and what the worker has left.
SendingOf(w) ==
  LET c == conn[w]
  IN  /\ pc[w] \in {"map", "mapEmpty"} => todo[w] = Buffers("static") /\ out[c] = <<>>
      /\ pc[w] = "write" => /\ answer[c].kind \in {"static", "dynamic", "404", "403", "501"}
                            /\ <<todo[w], out[c]>> \in Stages(answer[c].kind)
      /\ pc[w] = "fork" => out[c] = Written("dynamic")
      /\ pc[w] = "wait" => child[w].pc # "none"
      /\ child[w].pc \in {"forked", "running"} => out[c] = Written("dynamic")
      /\ child[w].pc = "ended" \/ pc[w] = "close"
           => answer[c].kind = "failed" \/ out[c] = Whole(answer[c].kind)

Sending == \A w \in Workers : SendingOf(w)

\* A connection that is done with has its answer; a client that saw the end of
\* its connection saw that.
Done(c) ==
  /\ answer[c].kind = "failed" \/ out[c] = Whole(answer[c].kind)
  /\ WellFormed(c) => taken[c] = Len(stream[c])

Ends ==
  exited = "no" =>
    \A c \in Conns :
      /\ client[c] # "new" /\ c \notin waiting /\ (\A w \in Workers : conn[w] # c) => Done(c)
      /\ client[c] \in {"end", "reset"} => c \notin open
      /\ client[c] = "reset" => Unread(c) # <<>>

AnswerInv == Past /\ ReadThrough /\ Sending /\ Ends

\* A well-formed request that is not read to its end has no empty line behind the
\* worker yet.
LEMMA HeadersRead ==
  ASSUME HandlingInv, Past, NEW w \in Workers, HeadersEnd(w), WellFormed(conn[w])
  PROVE  taken[conn[w]] = Len(stream[conn[w]])
<1> DEFINE c == conn[w]
           s == stream[c]
           n == taken[c]
           r == rio[w]
           p == Start(r, n)
           r2 == NextLine(r)
           l == r.line
<1> USE DEF HandlingInv
<1>1. pc[w] \in {"header1", "header"} /\ pc[w] # "idle" /\ LineRead(w)
  BY DEF HeadersEnd, At
<1>2. c \in Conns /\ s \in Seq(STRING) /\ s \in Inputs
  BY <1>1 DEF Types, Held, UrisKnown, Inputs
<1>3. InTouch(r, s, n)
  BY <1>1 DEF Reading, Held
<1>4. /\ LineFull(l) \/ (r.buf = <<>> /\ n = Len(s))
      /\ InTouch(r2, s, n) /\ Start(r2, n) = p + Len(l)
  BY <1>1, LineReturned, Zenon
<1>5. p > 0 \/ Len(s) = 0
  BY <1>1 DEF Past
<1>6. /\ HeaderEndsOf[s] = {pq[2] : pq \in {q \in Lines(s) :
           q[1] > 0 /\ SubSeq(s, q[1] + 1, q[2]) = <<"\r", "\n">>}}
      /\ HeaderEndsOf[s] # {} /\ Min(HeaderEndsOf[s]) = Len(s)
  BY <1>2 DEF HeaderEndsOf, WellFormed, Complete
<1>7. EmptyLine(w) \/ l = <<>>
  BY DEF HeadersEnd
<1> HIDE DEF c, s, n, r, p, r2, l
<1>8. /\ l \in Seq(STRING) /\ Len(l) \in Nat /\ Len(r.buf) \in Nat /\ Len(s) \in Nat
      /\ n \in 0 .. Len(s) /\ p \in 0 .. Len(s) /\ p + Len(l) + Len(r.buf) = n
  BY <1>2, <1>3, InTouchNumbers DEF l, p
<1>9. CASE EmptyLine(w)
  <2> DEFINE q == p + Len(l)
  <2>1. l = <<"\r", "\n">>
    BY <1>9 DEF EmptyLine, l, r
  <2>2. Len(l) = 2 /\ l[1] = "\r" /\ l[2] = "\n"
    BY <2>1
  <2>3. p \in Cuts(s) /\ q \in Cuts(s)
    BY <1>3, <1>4 DEF InTouch, p
  <2>4. q = p + 2 /\ q \in Nat /\ q <= n /\ p > 0
    <3> DEFINE a == Len(l)
               b == Len(r.buf)
               m == Len(s)
    <3>1. /\ a = 2 /\ b \in Nat /\ m \in Nat /\ n \in 0 .. m /\ p \in 0 .. m
          /\ p + a + b = n /\ (p > 0 \/ m = 0) /\ q = p + a
      BY <1>5, <1>8, <2>2
    <3> HIDE DEF a, b, m, q
    <3> QED  BY <3>1
  <2>5. l = SubSeq(s, p + 1, q)
    <3>1. \A k \in 1 .. Len(l) : l[k] = s[p + k]
      BY <1>3 DEF InTouch, p, l
    <3>2. p \in Nat /\ p + Len(l) <= Len(s)
      BY <1>8, <2>2, <2>4
    <3> QED  BY <1>2, <1>8, <3>1, <3>2, InPlace
  <2>6. IsPiece(l)
    <3>1. Last(l) = "\n" /\ l # <<>>
      BY <2>2, EmptySeq DEF Last
    <3>2. \A k \in 1 .. Len(l) - 1 : l[k] # "\n"
      BY <2>2
    <3> QED  BY <3>1, <3>2 DEF IsPiece, LineFull
  <2> HIDE DEF q
  <2>7. <<p, q>> \in Lines(s)
    <3>1. p < q
      BY <1>8, <2>4
    <3> QED  BY <2>3, <2>5, <2>6, <3>1 DEF Lines
  <2>8. q \in HeaderEndsOf[s]
    <3> DEFINE pq == <<p, q>>
    <3>1. pq \in Lines(s) /\ pq[1] = p /\ pq[2] = q
      BY <2>7
    <3> HIDE DEF pq
    <3>2. pq[1] > 0 /\ SubSeq(s, pq[1] + 1, pq[2]) = <<"\r", "\n">>
      BY <2>1, <2>4, <2>5, <3>1
    <3>3. pq[2] \in HeaderEndsOf[s]
      BY <1>6, <3>1, <3>2, Zenon
    <3> QED  BY <3>1, <3>3
  <2>9. HeaderEndsOf[s] \in SUBSET Nat
    <3>1. ASSUME NEW h \in HeaderEndsOf[s] PROVE h \in Nat
      <4>1. PICK pq \in Lines(s) : h = pq[2]
        BY <1>6, <3>1
      <4>2. pq[2] \in 0 .. Len(s)
        BY <4>1 DEF Lines, Cuts
      <4> QED  BY <1>8, <4>1, <4>2
    <3> QED  BY <3>1
  <2>10. Len(s) <= q
    BY <1>6, <2>8, <2>9, MinOf
  <2>11. n = Len(s)
    BY <1>8, <2>4, <2>10
  <2> QED  BY <2>11 DEF n, s, c
<1>10. CASE l = <<>>
  <2>1. ~LineFull(l)
    BY <1>10, EmptySeq, RioAssumption DEF LineFull
  <2>2. n = Len(s)
    BY <1>4, <2>1
  <2> QED  BY <2>2 DEF n, s, c
<1> QED  BY <1>7, <1>9, <1>10

\* A request that is not empty and begins with GET is a GET.
LEMMA GetIsGet ==
  ASSUME HandlingInv, NEW w \in Workers, RequestLine(w), WellFormed(conn[w]),
         NEW p \in Parsed(rio[w].line)
  PROVE  p[1] = "GET"
<1> DEFINE c == conn[w]
           s == stream[c]
           n == taken[c]
           r == rio[w]
           l == r.line
<1> USE DEF HandlingInv
<1>1. pc[w] = "request" /\ pc[w] # "idle" /\ LineRead(w)
  BY DEF RequestLine, At
<1>2. c \in Conns /\ s \in Seq(STRING) /\ s \in Inputs
  BY <1>1 DEF Types, Held, UrisKnown, Inputs
<1>3. InTouch(r, s, n) /\ Start(r, n) = 0
  BY <1>1 DEF Reading, Held
<1>4. LineFull(l) \/ (r.buf = <<>> /\ n = Len(s))
  BY <1>1, LineReturned, Zenon
<1>5. s[1] = "GET" /\ HeaderEndsOf[s] # {}
  BY DEF WellFormed, Complete
<1>6. HeaderEndsOf[s] = {pq[2] : pq \in {q \in Lines(s) :
           q[1] > 0 /\ SubSeq(s, q[1] + 1, q[2]) = <<"\r", "\n">>}}
  BY <1>2 DEF HeaderEndsOf
<1> HIDE DEF c, s, n, r, l
<1>7. /\ l \in Seq(STRING) /\ Len(l) \in Nat /\ Len(r.buf) \in Nat /\ Len(s) \in Nat
      /\ n \in 0 .. Len(s) /\ 0 + Len(l) + Len(r.buf) = n
  BY <1>2, <1>3, InTouchNumbers DEF l
<1>8. Len(s) > 0
  <2>1. PICK pq \in Lines(s) : pq[1] > 0
    BY <1>5, <1>6
  <2>2. pq[1] \in 0 .. Len(s)
    BY <2>1 DEF Lines, Cuts
  <2> QED  BY <1>7, <2>1, <2>2
<1>9. Len(l) > 0
  <2>1. CASE LineFull(l)
    <3>1. CASE Len(l) = MaxLine - 1
      BY <1>7, <3>1, RioAssumption
    <3>2. CASE l # <<>>
      BY <1>7, <3>2, EmptySeq
    <3> QED  BY <2>1, <3>1, <3>2 DEF LineFull
  <2>2. CASE r.buf = <<>> /\ n = Len(s)
    <3>1. Len(r.buf) = 0
      BY <2>2, EmptySeq
    <3> QED  BY <1>7, <1>8, <2>2, <3>1
  <2> QED  BY <1>4, <2>1, <2>2
<1>10. l[1] = "GET"
  <2>1. \A k \in 1 .. Len(l) : l[k] = s[0 + k]
    BY <1>3 DEF InTouch, l
  <2>2. l[1] = s[0 + 1]
    BY <1>7, <1>9, <2>1
  <2> QED  BY <1>5, <2>2
<1>11. WordsAt(l) \in SUBSET Nat /\ 1 \in WordsAt(l) /\ \A k \in WordsAt(l) : 1 <= k
  <2>1. DOMAIN l = 1 .. Len(l)
    BY <1>7, LenProperties
  <2> QED  BY <1>7, <1>9, <1>10, <2>1 DEF WordsAt
<1>12. Min(WordsAt(l)) = 1
  BY <1>11, MinOf
<1>13. p[1] \in {l[Min(WordsAt(l))]}
  BY <1>11 DEF Parsed, l, r
<1> QED  BY <1>10, <1>12, <1>13

\* The request line is not empty unless nothing was sent.
LEMMA FirstLineThere ==
  ASSUME HandlingInv, NEW w \in Workers, RequestLine(w)
  PROVE  /\ pc[w] = "request" /\ conn[w] \in Conns
         /\ LET c == conn[w]
                r2 == NextLine(rio[w])
            IN  Start(r2, taken[c]) > 0 \/ Len(stream[c]) = 0
<1> DEFINE c == conn[w]
           s == stream[c]
           n == taken[c]
           r == rio[w]
           r2 == NextLine(r)
           l == r.line
<1> USE DEF HandlingInv
<1>1. pc[w] = "request" /\ pc[w] # "idle" /\ LineRead(w)
  BY DEF RequestLine, At
<1>2. c \in Conns /\ s \in Seq(STRING)
  BY <1>1 DEF Types, Held
<1>3. InTouch(r, s, n) /\ Start(r, n) = 0
  BY <1>1 DEF Reading, Held
<1>4. /\ LineFull(l) \/ (r.buf = <<>> /\ n = Len(s))
      /\ Start(r2, n) = Start(r, n) + Len(l)
  BY <1>1, LineReturned, Zenon
<1> HIDE DEF c, s, n, r, r2, l
<1>5. /\ Len(l) \in Nat /\ Len(r.buf) \in Nat /\ Len(s) \in Nat
      /\ n \in 0 .. Len(s) /\ 0 + Len(l) + Len(r.buf) = n
  BY <1>2, <1>3, InTouchNumbers DEF l
<1>6. Len(l) > 0 \/ Len(s) = 0
  <2>1. CASE LineFull(l)
    <3>1. CASE Len(l) = MaxLine - 1
      BY <1>5, <3>1, RioAssumption
    <3>2. CASE l # <<>>
      <4>1. l \in Seq(STRING)
        BY <1>2, <1>3, InTouchNumbers DEF l
      <4> QED  BY <1>5, <3>2, <4>1, EmptySeq
    <3> QED  BY <2>1, <3>1, <3>2 DEF LineFull
  <2>2. CASE r.buf = <<>> /\ n = Len(s)
    <3>1. Len(r.buf) = 0
      BY <2>2, EmptySeq
    <3> QED  BY <1>5, <2>2, <3>1
  <2> QED  BY <1>4, <2>1, <2>2
<1>7. Start(r2, n) > 0 \/ Len(s) = 0
  BY <1>3, <1>4, <1>5, <1>6
<1> QED  BY <1>1, <1>2, <1>7 DEF c, s, n, r, r2

LEMMA StepPast ==
  ASSUME HandlingInv, Past, [Next]_vars
  PROVE  Past'
<1> USE DEF clients, world, server, reading, writing, HandlingInv
<1> DEFINE Heads == {"header1", "header"}
           PastOf(w) == pc[w] \in Heads
                          => Start(rio[w], taken[conn[w]]) > 0 \/ Len(stream[conn[w]]) = 0
<1>a. ASSUME UNCHANGED stream,
             \A w \in Workers :
               pc'[w] \in Heads
                 => /\ pc[w] \in Heads
                    /\ conn'[w] = conn[w]
                    /\ Start(rio'[w], taken'[conn[w]]) = Start(rio[w], taken[conn[w]])
      PROVE  Past'
  BY <1>a DEF Past
<1>b. ASSUME UNCHANGED <<stream, taken>>, NEW w \in Workers,
             pc'[w] \notin Heads,
             \A v \in Workers \ {w} : pc'[v] = pc[v] /\ conn'[v] = conn[v] /\ rio'[v] = rio[v]
      PROVE  Past'
  BY <1>a, <1>b
<1>c. ASSUME UNCHANGED <<stream, taken, conn>>, NEW w \in Workers,
             \/ Start(rio'[w], taken[conn[w]]) > 0
             \/ Len(stream[conn[w]]) = 0,
             \A v \in Workers \ {w} : pc'[v] = pc[v] /\ rio'[v] = rio[v]
      PROVE  Past'
  BY <1>c DEF Past
<1>1. ASSUME NEW w \in Workers, Take(w) \/ CloseConn(w) PROVE Past'
  BY <1>1, <1>b DEF Take, CloseConn, Goto, Types
<1>2. ASSUME NEW w \in Workers, RioRead(w) PROVE Past'
  <2> DEFINE c == conn[w]
             s == stream[c]
             t == taken[c]
  <2>1. /\ c \in Conns /\ c # NoConn /\ s \in Seq(STRING) /\ InTouch(rio[w], s, t)
        /\ pc[w] # "idle" /\ NeedsInput(rio[w]) /\ UNCHANGED <<stream, pc, conn>>
    BY <1>2, AtWork, HandlingAssumption DEF Types, Held, Reading, RioRead
  <2>2. PICK m \in Chunks(Beyond(s, t)) :
          /\ taken' = [taken EXCEPT ![c] = @ + m]
          /\ rio' = [rio EXCEPT ![w] = Refill(@, Beyond(s, t), m)]
    BY <1>2 DEF RioRead, Unread
  <2> DEFINE r == Refill(rio[w], Beyond(s, t), m)
  <2>3. Start(r, t + m) = Start(rio[w], t)
    BY <2>1, RefillInTouch
  <2>4. /\ rio'[w] = r /\ taken'[c] = t + m
        /\ \A v \in Workers \ {w} : rio'[v] = rio[v]
        /\ \A d \in Conns \ {c} : taken'[d] = taken[d]
    BY <2>1, <2>2 DEF Types
  <2> HIDE DEF r
  <2>5. \A v \in Workers \ {w} : conn[v] # NoConn => conn[v] \in Conns \ {c}
    BY <2>1 DEF Held, Types
  <2>6. ASSUME NEW v \in Workers, pc[v] \in Heads
        PROVE  Start(rio'[v], taken'[conn[v]]) = Start(rio[v], taken[conn[v]])
    <3>1. CASE v = w
      BY <2>3, <2>4, <3>1
    <3>2. CASE v # w
      <4>1. conn[v] # NoConn
        BY <2>6 DEF Held
      <4> QED  BY <2>4, <2>5, <3>2, <4>1
    <3> QED  BY <3>1, <3>2
  <2> QED  BY <1>a, <2>1, <2>6
<1>3. ASSUME NEW w \in Workers, RequestLine(w) PROVE Past'
  <2>1. UNCHANGED <<stream, taken, conn>>
    BY <1>3 DEF RequestLine
  <2>2. \/ pc' = [pc EXCEPT ![w] = "header1"] /\ rio' = [rio EXCEPT ![w] = NextLine(@)]
        \/ pc' = [pc EXCEPT ![w] = "write"] /\ UNCHANGED rio
    BY <1>3 DEF RequestLine, Goto
  <2>3. CASE pc' = [pc EXCEPT ![w] = "header1"] /\ rio' = [rio EXCEPT ![w] = NextLine(@)]
    <3>1. rio'[w] = NextLine(rio[w])
          /\ \A v \in Workers \ {w} : pc'[v] = pc[v] /\ rio'[v] = rio[v]
      BY <2>3 DEF Types
    <3>2. Start(rio'[w], taken[conn[w]]) > 0 \/ Len(stream[conn[w]]) = 0
      BY <1>3, <3>1, FirstLineThere
    <3> QED  BY <1>c, <2>1, <3>1, <3>2
  <2>4. CASE pc' = [pc EXCEPT ![w] = "write"] /\ UNCHANGED rio
    BY <1>b, <2>1, <2>4 DEF Types
  <2> QED  BY <2>2, <2>3, <2>4
<1>4. ASSUME NEW w \in Workers, HeaderLine(w) PROVE Past'
  <2>1. /\ pc[w] \in Heads /\ LineRead(w)
        /\ UNCHANGED <<stream, taken, conn>>
        /\ rio' = [rio EXCEPT ![w] = NextLine(@)] /\ pc' = [pc EXCEPT ![w] = "header"]
    BY <1>4 DEF HeaderLine, At, Goto
  <2> DEFINE c == conn[w]
             s == stream[c]
             n == taken[c]
             r == rio[w]
             r2 == NextLine(r)
  <2>2. /\ c \in Conns /\ s \in Seq(STRING) /\ InTouch(r, s, n) /\ pc[w] # "idle"
        /\ Start(r, n) > 0 \/ Len(s) = 0
    BY <2>1, AtWork DEF Types, Held, Reading, Past
  <2>3. Start(r2, n) = Start(r, n) + Len(r.line)
    BY <2>1, <2>2, LineReturned, Zenon
  <2>4. rio'[w] = r2 /\ \A v \in Workers \ {w} : pc'[v] = pc[v] /\ rio'[v] = rio[v]
    BY <2>1 DEF Types
  <2> HIDE DEF s, n, r, r2
  <2>5. Start(r, n) \in Nat /\ Len(r.line) \in Nat
    BY <2>2, InTouchNumbers
  <2>6. Start(r2, n) > 0 \/ Len(s) = 0
    BY <2>2, <2>3, <2>5
  <2>7. Start(rio'[w], taken[conn[w]]) > 0 \/ Len(stream[conn[w]]) = 0
    BY <2>4, <2>6 DEF s, n
  <2> QED  BY <1>c, <2>1, <2>4, <2>7
<1>5. ASSUME NEW w \in Workers, Lookup(w) PROVE Past'
  <2>1. PICK l \in {"write", "map", "mapEmpty"} : pc' = [pc EXCEPT ![w] = l]
    BY <1>5, LookupDecides DEF Goto
  <2>2. UNCHANGED <<stream, taken, rio, conn>>
    BY <1>5 DEF Lookup
  <2> QED  BY <1>b, <2>1, <2>2 DEF Types
<1>6. ASSUME NEW w \in Workers,
             MapFile(w) \/ RioWrite(w) \/ ForkChild(w) \/ WaitChild(w)
      PROVE  Past'
  <2>1. UNCHANGED <<stream, taken, rio, conn>>
    BY <1>6 DEF MapFile, RioWrite, ForkChild, WaitChild
  <2>2. PICK l \in {"write", "fork", "wait", "close"} : pc' = [pc EXCEPT ![w] = l]
    BY <1>6 DEF MapFile, RioWrite, ForkChild, WaitChild, Goto
  <2> QED  BY <1>b, <2>1, <2>2 DEF Types
<1>7. CASE UNCHANGED <<stream, taken, rio, conn, pc>>
  BY <1>a, <1>7
<1>8. ASSUME NEW w \in Workers,
             \/ RioReadFails(w) \/ MapFileFails(w) \/ Overflow(w) \/ RioWriteFails(w) \/ ForkFails(w)
             \/ ChildStep(w)
      PROVE  Past'
  BY <1>7, <1>8 DEF RioReadFails, MapFileFails, Overflow, RioWriteFails, ForkFails, ChildStep,
                    ChildRuns, ChildFails, ChildPrints, UnixError
<1>9. CASE \/ \E c \in Conns : Connect(c) \/ Leave(c) \/ SeesEnd(c)
           \/ FileChanges
           \/ UNCHANGED vars
  BY <1>7, <1>9 DEF Connect, Leave, SeesEnd, FileChanges, vars
<1>10. ASSUME NEW w \in Workers, WorkerStep(w) PROVE Past'
  BY <1>1, <1>2, <1>3, <1>4, <1>5, <1>6, <1>8, <1>10, Zenon DEF WorkerStep
<1> QED  BY <1>8, <1>9, <1>10 DEF Next

LEMMA WellFormedStays ==
  ASSUME UNCHANGED stream
  PROVE  \A c : WellFormed(c)' <=> WellFormed(c)
BY DEF WellFormed, Complete, HeaderEndsOf

LEMMA StepReadThrough ==
  ASSUME HandlingInv, Past, ReadThrough, [Next]_vars
  PROVE  ReadThrough'
<1> USE DEF clients, world, server, reading, writing, HandlingInv
<1> DEFINE After == {"map", "mapEmpty", "write", "fork", "wait", "close"}
<1>a. ASSUME UNCHANGED stream,
             \A w \in Workers :
               pc'[w] \in After
                 => /\ pc[w] \in After
                    /\ conn'[w] = conn[w]
                    /\ taken'[conn[w]] = taken[conn[w]]
      PROVE  ReadThrough'
  BY <1>a, WellFormedStays DEF ReadThrough
<1>b. ASSUME UNCHANGED <<stream, taken>>, NEW w \in Workers,
             pc'[w] \notin After,
             \A v \in Workers \ {w} : pc'[v] = pc[v] /\ conn'[v] = conn[v]
      PROVE  ReadThrough'
  BY <1>a, <1>b
<1>c. ASSUME UNCHANGED <<stream, taken, conn>>, NEW w \in Workers,
             WellFormed(conn[w]) => taken[conn[w]] = Len(stream[conn[w]]),
             \A v \in Workers \ {w} : pc'[v] = pc[v]
      PROVE  ReadThrough'
  BY <1>c, WellFormedStays DEF ReadThrough
<1>1. ASSUME NEW w \in Workers, Take(w) \/ CloseConn(w) PROVE ReadThrough'
  BY <1>1, <1>b DEF Take, CloseConn, Goto, Types
<1>2. ASSUME NEW w \in Workers, RioRead(w) PROVE ReadThrough'
  <2>1. /\ conn[w] \in Conns /\ pc[w] \notin After /\ pc[w] # "idle"
        /\ UNCHANGED <<stream, pc, conn>>
    BY <1>2, AtWork DEF RioRead
  <2>2. PICK m : taken' = [taken EXCEPT ![conn[w]] = @ + m]
    BY <1>2 DEF RioRead
  <2>3. \A v \in Workers : pc[v] \in After => taken'[conn[v]] = taken[conn[v]]
    <3>1. SUFFICES ASSUME NEW v \in Workers, pc[v] \in After
                   PROVE  taken'[conn[v]] = taken[conn[v]]
      OBVIOUS
    <3>2. conn[v] \in Conns /\ conn[v] # conn[w]
      BY <2>1, <3>1, AtWork, HandlingAssumption DEF Held
    <3> QED  BY <2>1, <2>2, <3>2 DEF Types
  <2> QED  BY <1>a, <2>1, <2>3
<1>3. ASSUME NEW w \in Workers, RequestLine(w) PROVE ReadThrough'
  <2>1. UNCHANGED <<stream, taken, conn>>
    BY <1>3 DEF RequestLine
  <2>2. PICK p \in Parsed(rio[w].line) :
          pc' = [pc EXCEPT ![w] = IF p[1] = "GET" THEN "header1" ELSE "write"]
    BY <1>3 DEF RequestLine, Goto
  <2>3. \A v \in Workers \ {w} : pc'[v] = pc[v]
    BY <2>2 DEF Types
  <2>4. CASE p[1] = "GET"
    <3>1. pc'[w] = "header1"
      BY <2>2, <2>4 DEF Types
    <3> QED  BY <1>b, <2>1, <2>3, <3>1
  <2>5. CASE p[1] # "GET"
    <3>1. ~WellFormed(conn[w])
      BY <1>3, <2>5, GetIsGet
    <3> QED  BY <1>c, <2>1, <2>3, <3>1
  <2> QED  BY <2>4, <2>5
<1>4. ASSUME NEW w \in Workers, HeaderLine(w) PROVE ReadThrough'
  BY <1>4, <1>b DEF HeaderLine, Goto, Types
<1>5. ASSUME NEW w \in Workers, Lookup(w) PROVE ReadThrough'
  <2>1. PICK l \in {"write", "map", "mapEmpty"} : pc' = [pc EXCEPT ![w] = l]
    BY <1>5, LookupDecides DEF Goto
  <2>2. UNCHANGED <<stream, taken, conn>>
    BY <1>5 DEF Lookup
  <2>3. WellFormed(conn[w]) => taken[conn[w]] = Len(stream[conn[w]])
    BY <1>5, HeadersRead DEF Lookup
  <2> QED  BY <1>c, <2>1, <2>2, <2>3 DEF Types
<1>6. ASSUME NEW w \in Workers,
             MapFile(w) \/ RioWrite(w) \/ ForkChild(w) \/ WaitChild(w)
      PROVE  ReadThrough'
  <2>1. pc[w] \in After /\ UNCHANGED <<stream, taken, conn>>
    BY <1>6 DEF MapFile, RioWrite, ForkChild, WaitChild, At
  <2>2. PICK l : pc' = [pc EXCEPT ![w] = l]
    BY <1>6 DEF MapFile, RioWrite, ForkChild, WaitChild, Goto
  <2> QED  BY <1>a, <2>1, <2>2 DEF Types
<1>7. CASE UNCHANGED <<stream, taken, conn, pc>>
  BY <1>a, <1>7
<1>8. ASSUME NEW w \in Workers,
             \/ RioReadFails(w) \/ MapFileFails(w) \/ Overflow(w) \/ RioWriteFails(w) \/ ForkFails(w)
             \/ ChildStep(w)
      PROVE  ReadThrough'
  BY <1>7, <1>8 DEF RioReadFails, MapFileFails, Overflow, RioWriteFails, ForkFails, ChildStep,
                    ChildRuns, ChildFails, ChildPrints, UnixError
<1>9. CASE \/ \E c \in Conns : Connect(c) \/ Leave(c) \/ SeesEnd(c)
           \/ FileChanges
           \/ UNCHANGED vars
  BY <1>7, <1>9 DEF Connect, Leave, SeesEnd, FileChanges, vars
<1>10. ASSUME NEW w \in Workers, WorkerStep(w) PROVE ReadThrough'
  BY <1>1, <1>2, <1>3, <1>4, <1>5, <1>6, <1>8, <1>10, Zenon DEF WorkerStep
<1> QED  BY <1>8, <1>9, <1>10 DEF Next

LEMMA StepSending ==
  ASSUME HandlingInv, Sending, [Next]_vars
  PROVE  Sending'
<1> USE DEF clients, world, server, reading, writing, HandlingInv
<1>a. ASSUME NEW w \in Workers, SendingOf(w)',
             \A v \in Workers \ {w} :
               /\ pc'[v] = pc[v] /\ conn'[v] = conn[v]
               /\ child'[v] = child[v] /\ todo'[v] = todo[v],
             \A c \in Conns \ {conn[w]} : answer'[c] = answer[c] /\ out'[c] = out[c]
      PROVE  Sending'
  <2>1. ASSUME NEW v \in Workers \ {w} PROVE SendingOf(v)'
    <3>1. CASE pc[v] = "idle"
      <4>1. child[v].pc = "none"
        BY <3>1 DEF Answering, NoChild
      <4> QED  BY <1>a, <3>1, <4>1 DEF SendingOf
    <3>2. CASE pc[v] # "idle"
      <4>1. conn[v] \in Conns \ {conn[w]}
        BY <3>2, AtWork, HandlingAssumption DEF Held
      <4>2. answer'[conn[v]] = answer[conn[v]] /\ out'[conn[v]] = out[conn[v]]
        BY <1>a, <4>1
      <4>3. SendingOf(v)
        BY DEF Sending
      <4> QED  BY <1>a, <4>2, <4>3 DEF SendingOf
    <3> QED  BY <3>1, <3>2
  <2> QED  BY <1>a, <2>1 DEF Sending
<1>b. ASSUME NEW w \in Workers, NEW l \in {"idle", "request", "header1", "header"},
             pc[w] # "wait", pc' = [pc EXCEPT ![w] = l],
             \A v \in Workers \ {w} : conn'[v] = conn[v],
             UNCHANGED <<todo, answer, out, child>>
      PROVE  Sending'
  <2>1. child[w].pc = "none"
    BY <1>b DEF Answering, NoChild
  <2>2. pc'[w] = l /\ \A v \in Workers \ {w} : pc'[v] = pc[v]
    BY <1>b DEF Types
  <2>3. SendingOf(w)'
    BY <1>b, <2>1, <2>2 DEF SendingOf
  <2> QED  BY <1>a, <1>b, <2>2, <2>3
<1>c. ASSUME UNCHANGED <<pc, conn, child, todo, answer, out>>
      PROVE  Sending'
  BY <1>c DEF Sending, SendingOf
<1>d. ASSUME NEW w \in Workers, pc[w] # "idle", pc[w] # "wait", out[conn[w]] = <<>>,
             NEW kind \in {"static", "dynamic", "404", "403", "501"}, NEW count,
             NEW l \in {"write", "map", "mapEmpty"}, l # "write" => kind = "static",
             pc' = [pc EXCEPT ![w] = l], BeginAnswer(w, kind, count),
             UNCHANGED <<conn, out, child>>
      PROVE  Sending'
  <2>1. conn[w] \in Conns /\ child[w].pc = "none"
    BY <1>d, AtWork DEF Answering, NoChild
  <2>2. /\ pc'[w] = l /\ answer'[conn[w]].kind = kind /\ todo'[w] = Buffers(kind)
        /\ \A v \in Workers \ {w} : pc'[v] = pc[v] /\ todo'[v] = todo[v]
        /\ \A c \in Conns \ {conn[w]} : answer'[c] = answer[c]
    BY <1>d, <2>1 DEF Types, BeginAnswer
  <2>3. <<todo'[w], out[conn[w]]>> \in Stages(kind)
    BY <1>d, <2>2, FirstStage
  <2>4. SendingOf(w)'
    BY <1>d, <2>1, <2>2, <2>3 DEF SendingOf
  <2> QED  BY <1>a, <1>d, <2>2, <2>4
<1>1. ASSUME NEW w \in Workers, Take(w) PROVE Sending'
  <2>1. pc[w] # "wait" /\ pc' = [pc EXCEPT ![w] = "request"]
        /\ \A v \in Workers \ {w} : conn'[v] = conn[v]
    BY <1>1 DEF Take, At, Goto, Types
  <2> QED  BY <1>1, <1>b, <2>1 DEF Take
<1>2. ASSUME NEW w \in Workers, CloseConn(w) PROVE Sending'
  <2>1. pc[w] # "wait" /\ pc' = [pc EXCEPT ![w] = "idle"]
        /\ \A v \in Workers \ {w} : conn'[v] = conn[v]
    BY <1>2 DEF CloseConn, At, Goto, Types
  <2> QED  BY <1>2, <1>b, <2>1 DEF CloseConn
<1>3. ASSUME NEW w \in Workers, HeaderLine(w) PROVE Sending'
  <2>1. pc[w] # "wait" /\ pc' = [pc EXCEPT ![w] = "header"]
    BY <1>3 DEF HeaderLine, At, Goto
  <2> QED  BY <1>3, <1>b, <2>1 DEF HeaderLine
<1>4. ASSUME NEW w \in Workers, RequestLine(w) PROVE Sending'
  <2>1. /\ pc[w] = "request" /\ UNCHANGED <<conn, out, child>>
        /\ out[conn[w]] = <<>>
    <3>1. pc[w] = "request" /\ UNCHANGED <<conn, out, child>>
      BY <1>4 DEF RequestLine, At
    <3> QED  BY <3>1 DEF Answering
  <2>2. \/ pc' = [pc EXCEPT ![w] = "header1"] /\ UNCHANGED <<todo, answer>>
        \/ \E count : BeginAnswer(w, "501", count) /\ pc' = [pc EXCEPT ![w] = "write"]
    BY <1>4 DEF RequestLine, Goto
  <2>3. CASE pc' = [pc EXCEPT ![w] = "header1"] /\ UNCHANGED <<todo, answer>>
    BY <1>b, <2>1, <2>3
  <2>4. CASE \E count : BeginAnswer(w, "501", count) /\ pc' = [pc EXCEPT ![w] = "write"]
    <3>1. PICK count : BeginAnswer(w, "501", count) /\ pc' = [pc EXCEPT ![w] = "write"]
      BY <2>4
    <3> QED  BY <1>d, <2>1, <3>1
  <2> QED  BY <2>2, <2>3, <2>4
<1>5. ASSUME NEW w \in Workers, Lookup(w) PROVE Sending'
  <2>1. /\ pc[w] \in {"header1", "header"}
        /\ UNCHANGED <<out, conn, child>>
        /\ \E kind \in {"static", "dynamic", "404", "403"},
              l \in {"write", "map", "mapEmpty"} :
              /\ l # "write" <=> kind = "static"
              /\ Goto(w, l)
              /\ BeginAnswer(w, kind, stats[w].handled)
    BY <1>5, LookupDecides
  <2>2. PICK kind \in {"static", "dynamic", "404", "403"},
              l \in {"write", "map", "mapEmpty"} :
              /\ l # "write" <=> kind = "static"
              /\ Goto(w, l)
              /\ BeginAnswer(w, kind, stats[w].handled)
    BY <2>1
  <2>3. out[conn[w]] = <<>>
    BY <2>1 DEF Answering
  <2>4. pc' = [pc EXCEPT ![w] = l] /\ pc[w] # "idle" /\ pc[w] # "wait"
    BY <2>1, <2>2 DEF Goto
  <2>5. /\ kind \in {"static", "dynamic", "404", "403", "501"}
        /\ l # "write" => kind = "static"
        /\ BeginAnswer(w, kind, stats[w].handled)
    BY <2>2
  <2> QED  BY <1>d, <2>1, <2>3, <2>4, <2>5
<1>6. ASSUME NEW w \in Workers, MapFile(w) PROVE Sending'
  <2>1. /\ pc[w] = "map" /\ pc' = [pc EXCEPT ![w] = "write"]
        /\ UNCHANGED <<conn, child, todo, answer, out>>
    BY <1>6 DEF MapFile, At, Goto
  <2>2. answer[conn[w]].kind = "static" /\ child[w].pc = "none"
    BY <2>1 DEF Answering, NoChild
  <2>3. todo[w] = Buffers("static") /\ out[conn[w]] = <<>>
    BY <2>1 DEF Sending, SendingOf
  <2>4. <<todo[w], out[conn[w]]>> \in Stages("static")
    BY <2>3, FirstStage
  <2>5. pc'[w] = "write" /\ \A v \in Workers \ {w} : pc'[v] = pc[v]
    BY <2>1 DEF Types
  <2>6. SendingOf(w)'
    BY <2>1, <2>2, <2>4, <2>5 DEF SendingOf
  <2> QED  BY <1>a, <2>1, <2>5, <2>6
<1>7. ASSUME NEW w \in Workers, RioWrite(w) PROVE Sending'
  <2> DEFINE c == conn[w]
             kind == answer[c].kind
             left == todo[w]
             sent == out[c]
  <2>1. /\ pc[w] = "write" /\ c \in Conns /\ child[w].pc = "none"
        /\ UNCHANGED <<conn, child, answer>>
    BY <1>7, AtWork DEF RioWrite, At, Answering, NoChild
  <2>2. PICK n \in 1 .. Len(Head(left)) :
          /\ out' = [out EXCEPT ![c] = @ \o UpTo(Head(left), n)]
          /\ todo' = [todo EXCEPT ![w] = LeftOf(@, n)]
    BY <1>7 DEF RioWrite
  <2>3. /\ todo'[w] = LeftOf(left, n)
        /\ out'[c] = sent \o UpTo(Head(left), n)
        /\ \A v \in Workers \ {w} : todo'[v] = todo[v]
        /\ \A d \in Conns \ {c} : out'[d] = out[d]
    BY <2>1, <2>2 DEF Types
  <2>4. /\ kind \in {"static", "dynamic", "404", "403", "501"}
        /\ <<left, sent>> \in Stages(kind)
    BY <2>1 DEF Sending, SendingOf
  <2>5. \/ todo'[w] = <<>> /\ out'[c] = Written(kind)
        \/ todo'[w] # <<>> /\ <<todo'[w], out'[c]>> \in Stages(kind)
    <3> HIDE DEF kind, left, sent
    <3>1. n \in 1 .. Len(Head(left))
      BY <2>2
    <3> DEFINE left2 == LeftOf(left, n)
               sent2 == sent \o UpTo(Head(left), n)
    <3>2. \/ left2 = <<>> /\ sent2 = Written(kind)
          \/ left2 # <<>> /\ <<left2, sent2>> \in Stages(kind)
      BY <2>4, <3>1, NextStage
    <3>3. todo'[w] = left2 /\ out'[c] = sent2
      BY <2>3
    <3> HIDE DEF left2, sent2
    <3> QED  BY <3>2, <3>3
  <2>6. pc' = [pc EXCEPT ![w] = CASE todo'[w] # <<>> -> "write"
                                  [] todo'[w] = <<>> /\ kind = "dynamic" -> "fork"
                                  [] OTHER -> "close"]
    BY <1>7 DEF RioWrite, Goto
  <2>7. \A v \in Workers \ {w} : pc'[v] = pc[v]
    BY <2>6 DEF Types
  <2>8. SendingOf(w)'
    <3>1. CASE todo'[w] # <<>>
      <4>1. pc'[w] = "write"
        BY <2>6, <3>1 DEF Types
      <4> QED  BY <2>1, <2>4, <2>5, <3>1, <4>1 DEF SendingOf
    <3>2. CASE todo'[w] = <<>> /\ kind = "dynamic"
      <4>1. pc'[w] = "fork"
        BY <2>6, <3>2 DEF Types
      <4> QED  BY <2>1, <2>5, <3>2, <4>1 DEF SendingOf
    <3>3. CASE todo'[w] = <<>> /\ kind # "dynamic"
      <4>1. pc'[w] = "close"
        BY <2>6, <3>3 DEF Types
      <4>2. out'[c] = Whole(kind)
        BY <2>5, <3>3 DEF Written
      <4> QED  BY <2>1, <4>1, <4>2 DEF SendingOf
    <3> QED  BY <3>1, <3>2, <3>3
  <2> QED  BY <1>a, <2>1, <2>3, <2>7, <2>8
<1>8. ASSUME NEW w \in Workers, ForkChild(w) PROVE Sending'
  <2>1. /\ pc[w] = "fork" /\ pc' = [pc EXCEPT ![w] = "wait"]
        /\ child' = [child EXCEPT ![w] = [pc |-> "forked", holds |-> open]]
        /\ UNCHANGED <<conn, todo, answer, out>>
    BY <1>8 DEF ForkChild, At, Goto
  <2>2. out[conn[w]] = Written("dynamic")
    BY <2>1 DEF Sending, SendingOf
  <2>3. /\ pc'[w] = "wait" /\ child'[w].pc = "forked"
        /\ \A v \in Workers \ {w} : pc'[v] = pc[v] /\ child'[v] = child[v]
    BY <2>1 DEF Types
  <2>4. SendingOf(w)'
    BY <2>1, <2>2, <2>3 DEF SendingOf
  <2> QED  BY <1>a, <2>1, <2>3, <2>4
<1>9. ASSUME NEW w \in Workers, WaitChild(w) PROVE Sending'
  <2>1. /\ pc[w] = "wait" /\ child[w].pc = "ended"
        /\ pc' = [pc EXCEPT ![w] = "close"]
        /\ child' = [child EXCEPT ![w] = NoChild]
        /\ UNCHANGED <<conn, todo, answer, out>>
    BY <1>9 DEF WaitChild, At, Goto
  <2>2. answer[conn[w]].kind = "failed" \/ out[conn[w]] = Whole(answer[conn[w]].kind)
    BY <2>1 DEF Sending, SendingOf
  <2>3. /\ pc'[w] = "close" /\ child'[w].pc = "none"
        /\ \A v \in Workers \ {w} : pc'[v] = pc[v] /\ child'[v] = child[v]
    BY <2>1 DEF Types, NoChild
  <2>4. SendingOf(w)'
    BY <2>1, <2>2, <2>3 DEF SendingOf
  <2> QED  BY <1>a, <2>1, <2>3, <2>4
<1>10. ASSUME NEW w \in Workers, ChildRuns(w) PROVE Sending'
  <2>1. /\ child[w].pc = "forked"
        /\ child' = [child EXCEPT ![w].pc = "running"]
        /\ UNCHANGED <<pc, conn, todo, answer, out>>
    BY <1>10 DEF ChildRuns
  <2>2. pc[w] = "wait" /\ out[conn[w]] = Written("dynamic")
    BY <2>1, AtWork DEF Sending, SendingOf
  <2>3. child'[w].pc = "running" /\ \A v \in Workers \ {w} : child'[v] = child[v]
    BY <2>1 DEF Types, Children
  <2>4. SendingOf(w)'
    BY <2>1, <2>2, <2>3 DEF SendingOf
  <2> QED  BY <1>a, <2>1, <2>3, <2>4
<1>11. ASSUME NEW w \in Workers, ChildFails(w) PROVE Sending'
  <2>1. /\ child[w].pc = "forked"
        /\ child' = [child EXCEPT ![w] = [pc |-> "ended", holds |-> {}]]
        /\ answer' = [answer EXCEPT ![conn[w]].kind = "failed"]
        /\ \E log : out' = [out EXCEPT ![conn[w]] = @ \o log]
        /\ UNCHANGED <<pc, conn, todo>>
    BY <1>11 DEF ChildFails, ChildEnds
  <2>2. pc[w] = "wait" /\ conn[w] \in Conns
    BY <2>1, AtWork
  <2>3. /\ child'[w].pc = "ended" /\ answer'[conn[w]].kind = "failed"
        /\ \A v \in Workers \ {w} : child'[v] = child[v]
        /\ \A c \in Conns \ {conn[w]} : answer'[c] = answer[c] /\ out'[c] = out[c]
    BY <2>1, <2>2 DEF Types, Answers
  <2>4. SendingOf(w)'
    BY <2>1, <2>2, <2>3 DEF SendingOf
  <2> QED  BY <1>a, <2>1, <2>3, <2>4
<1>12. ASSUME NEW w \in Workers, ChildPrints(w) PROVE Sending'
  <2>1. /\ child[w].pc = "running"
        /\ child' = [child EXCEPT ![w] = [pc |-> "ended", holds |-> {}]]
        /\ out' = [out EXCEPT ![conn[w]] = Append(@, "page")]
        /\ UNCHANGED <<pc, conn, todo, answer>>
    BY <1>12 DEF ChildPrints, ChildEnds
  <2>2. pc[w] = "wait" /\ conn[w] \in Conns /\ answer[conn[w]].kind = "dynamic"
    BY <2>1, AtWork DEF Answering
  <2>3. out[conn[w]] = Written("dynamic")
    BY <2>1 DEF Sending, SendingOf
  <2>4. out'[conn[w]] = Whole("dynamic")
    <3> DEFINE h == <<"header", 1>>
    <3>1. Written("dynamic") = <<h>> /\ Whole("dynamic") = <<h, "page">>
      BY DEF Written, Whole
    <3> HIDE DEF h
    <3>2. Append(<<h>>, "page") = <<h, "page">>
      <4> DEFINE S == {h, "page"}
      <4>1. <<h>> \in Seq(S) /\ "page" \in S
        OBVIOUS
      <4>2. Append(<<h>>, "page") = <<h>> \o <<"page">>
        BY <4>1, AppendIsConcat
      <4> QED  BY <4>2, Joins, Zenon
    <3>3. out'[conn[w]] = Append(out[conn[w]], "page")
      BY <2>1, <2>2 DEF Types
    <3> QED  BY <2>3, <3>1, <3>2, <3>3
  <2>5. /\ child'[w].pc = "ended"
        /\ \A v \in Workers \ {w} : child'[v] = child[v]
        /\ \A c \in Conns \ {conn[w]} : out'[c] = out[c]
    BY <2>1, <2>2 DEF Types
  <2>6. SendingOf(w)'
    BY <2>1, <2>2, <2>4, <2>5 DEF SendingOf
  <2> QED  BY <1>a, <2>1, <2>5, <2>6
<1>13. ASSUME NEW w \in Workers,
              \/ RioRead(w) \/ RioReadFails(w) \/ MapFileFails(w) \/ Overflow(w) \/ RioWriteFails(w)
              \/ ForkFails(w)
       PROVE  Sending'
  BY <1>13, <1>c DEF RioRead, RioReadFails, MapFileFails, Overflow, RioWriteFails, ForkFails, UnixError
<1>14. CASE \/ \E c \in Conns : Connect(c) \/ Leave(c) \/ SeesEnd(c)
            \/ FileChanges
            \/ UNCHANGED vars
  BY <1>14, <1>c DEF Connect, Leave, SeesEnd, FileChanges, vars
<1>15. ASSUME NEW w \in Workers, WorkerStep(w) PROVE Sending'
  BY <1>1, <1>2, <1>3, <1>4, <1>5, <1>6, <1>7, <1>8, <1>9, <1>13, <1>15, Zenon
     DEF WorkerStep
<1>16. ASSUME NEW w \in Workers, ChildStep(w) PROVE Sending'
  BY <1>10, <1>11, <1>12, <1>16, Zenon DEF ChildStep
<1> QED  BY <1>14, <1>15, <1>16 DEF Next

LEMMA StepEnds ==
  ASSUME HandlingInv, ReadThrough, Sending, Ends, [Next]_vars
  PROVE  Ends'
<1> USE DEF clients, world, server, reading, writing, HandlingInv
<1> DEFINE Free(c) == \A w \in Workers : conn[w] # c
           Seen(c) == /\ client[c] \in {"end", "reset"} => c \notin open
                      /\ client[c] = "reset" => Unread(c) # <<>>
           EndsAt(c) == /\ client[c] # "new" /\ c \notin waiting /\ Free(c) => Done(c)
                        /\ Seen(c)
           Same(c) == UNCHANGED <<answer[c], out[c], taken[c]>>
<1>a. ASSUME exited = "no", UNCHANGED stream, NEW c \in Conns, Same(c)
      PROVE  /\ Done(c) => Done(c)'
             /\ Unread(c)' = Unread(c)
  BY <1>a, WellFormedStays DEF Done, Unread, Beyond
<1>b. ASSUME exited = "no", NEW c \in Conns, client[c] \in {"end", "reset"}
      PROVE  c \notin open /\ c \notin waiting /\ Free(c)
  BY <1>b, HandlingAssumption DEF Ends, Opened
<1>c. ASSUME exited = "no", UNCHANGED <<stream, client, waiting, open, conn>>,
             \A c \in Conns : Free(c) => Same(c)
      PROVE  Ends'
  <2>1. ASSUME NEW c \in Conns, client[c] # "new", c \notin waiting, Free(c)
        PROVE  Done(c)'
    BY <1>a, <1>c, <2>1 DEF Ends
  <2>2. ASSUME NEW c \in Conns, client[c] \in {"end", "reset"}
        PROVE  c \notin open /\ (client[c] = "reset" => Unread(c)' # <<>>)
    BY <1>a, <1>b, <1>c, <2>2 DEF Ends
  <2> QED  BY <1>c, <2>1, <2>2 DEF Ends
<1>d. ASSUME NEW w \in Workers, exited = "no", UNCHANGED <<stream, client, waiting, open, conn>>,
             \A c \in Conns \ {conn[w]} : Same(c)
      PROVE  Ends'
  BY <1>c, <1>d
<1>1. ASSUME NEW w \in Workers, Take(w) PROVE Ends'
  <2>1. /\ exited = "no" /\ UNCHANGED <<stream, client, open, taken, answer, out>>
        /\ \E c \in waiting : waiting' = waiting \ {c} /\ conn' = [conn EXCEPT ![w] = c]
        /\ pc[w] = "idle"
    BY <1>1 DEF Take, At
  <2>2. PICK d \in waiting : waiting' = waiting \ {d} /\ conn' = [conn EXCEPT ![w] = d]
    BY <2>1
  <2>3. conn[w] = NoConn /\ conn'[w] = d /\ \A v \in Workers \ {w} : conn'[v] = conn[v]
    BY <2>1, <2>2 DEF Types, Held
  <2>4. ASSUME NEW c \in Conns, client[c] # "new", c \notin waiting', Free(c)'
        PROVE  Done(c)'
    <3>1. c # d /\ c \notin waiting
      BY <2>2, <2>3, <2>4
    <3>2. Free(c)
      BY <2>3, <2>4, HandlingAssumption
    <3> QED  BY <1>a, <2>1, <2>4, <3>1, <3>2 DEF Ends
  <2>5. ASSUME NEW c \in Conns PROVE Seen(c)'
    BY <1>a, <2>1 DEF Ends
  <2> QED  BY <2>1, <2>4, <2>5 DEF Ends
<1>2. ASSUME NEW w \in Workers, CloseConn(w) PROVE Ends'
  <2> DEFINE d == conn[w]
  <2>1. /\ exited = "no" /\ UNCHANGED <<stream, client, waiting, taken, answer, out>>
        /\ conn' = [conn EXCEPT ![w] = NoConn] /\ open' = open \ {d}
        /\ pc[w] = "close"
    BY <1>2 DEF CloseConn, At
  <2>2. d \in Conns /\ \A v \in Workers \ {w} : conn'[v] = conn[v]
    BY <2>1, AtWork DEF Types
  <2>3. Done(d)
    BY <2>1 DEF Sending, SendingOf, ReadThrough, Done
  <2>4. ASSUME NEW c \in Conns, client[c] # "new", c \notin waiting, Free(c)'
        PROVE  Done(c)'
    <3>1. CASE c = d
      BY <1>a, <2>1, <2>3, <3>1
    <3>2. CASE c # d
      <4>1. Free(c)
        BY <2>2, <2>4, <3>2
      <4> QED  BY <1>a, <2>1, <2>4, <4>1 DEF Ends
    <3> QED  BY <3>1, <3>2
  <2>5. ASSUME NEW c \in Conns PROVE Seen(c)'
    BY <1>a, <2>1 DEF Ends
  <2> QED  BY <2>1, <2>4, <2>5 DEF Ends
<1>3. ASSUME NEW w \in Workers,
             \/ RioRead(w) \/ RequestLine(w) \/ HeaderLine(w) \/ Lookup(w)
             \/ MapFile(w) \/ RioWrite(w) \/ ForkChild(w) \/ WaitChild(w)
      PROVE  Ends'
  <2>1. exited = "no" /\ UNCHANGED <<stream, client, waiting, open, conn>>
    BY <1>3 DEF RioRead, RequestLine, HeaderLine, Lookup, HeadersEnd, MapFile, RioWrite,
                ForkChild, WaitChild, At
  <2>2. \A c \in Conns \ {conn[w]} : taken'[c] = taken[c]
    BY <1>3 DEF RioRead, RequestLine, HeaderLine, Lookup, MapFile, RioWrite, ForkChild,
                WaitChild, Types
  <2>3. \A c \in Conns \ {conn[w]} : answer'[c] = answer[c]
    BY <1>3 DEF RioRead, RequestLine, HeaderLine, Lookup, MapFile, RioWrite, ForkChild,
                WaitChild, BeginAnswer, Types
  <2>4. \A c \in Conns \ {conn[w]} : out'[c] = out[c]
    BY <1>3 DEF RioRead, RequestLine, HeaderLine, Lookup, MapFile, RioWrite, ForkChild,
                WaitChild, Types
  <2> QED  BY <1>d, <2>1, <2>2, <2>3, <2>4
<1>4. ASSUME NEW w \in Workers, ChildStep(w) PROVE Ends'
  <2>1. UNCHANGED <<stream, client, waiting, open, conn, taken, exited>>
    BY <1>4 DEF ChildStep, ChildRuns, ChildFails, ChildPrints
  <2>2. \A c \in Conns \ {conn[w]} : answer'[c] = answer[c] /\ out'[c] = out[c]
    BY <1>4 DEF ChildStep, ChildRuns, ChildFails, ChildPrints, Types
  <2>3. CASE exited = "no"
    BY <1>d, <2>1, <2>2, <2>3
  <2>4. CASE exited # "no"
    BY <2>1, <2>4 DEF Ends
  <2> QED  BY <2>3, <2>4
<1>5. ASSUME NEW w \in Workers,
             RioReadFails(w) \/ MapFileFails(w) \/ Overflow(w) \/ RioWriteFails(w) \/ ForkFails(w)
      PROVE  Ends'
  BY <1>5 DEF RioReadFails, MapFileFails, Overflow, RioWriteFails, ForkFails, UnixError, Ends
<1>6. ASSUME NEW d \in Conns, Connect(d) PROVE Ends'
  <2>1. /\ exited = "no" /\ client[d] = "new"
        /\ client' = [client EXCEPT ![d] = "here"]
        /\ open' = open \cup {d} /\ waiting' = waiting \cup {d}
        /\ UNCHANGED <<stream, taken, answer, out, conn>>
    BY <1>6 DEF Connect
  <2>2. client'[d] = "here" /\ \A c \in Conns \ {d} : client'[c] = client[c]
    BY <2>1 DEF Types
  <2>3. ASSUME NEW c \in Conns, c \notin waiting', client'[c] # "new", Free(c)
        PROVE  Done(c)'
    BY <1>a, <2>1, <2>2, <2>3 DEF Ends
  <2>4. ASSUME NEW c \in Conns PROVE Seen(c)'
    <3>1. CASE c = d
      BY <2>2, <3>1
    <3>2. CASE c # d
      BY <1>a, <2>1, <2>2, <3>2 DEF Ends
    <3> QED  BY <3>1, <3>2
  <2> QED  BY <2>1, <2>3, <2>4 DEF Ends
<1>7. ASSUME NEW d \in Conns, Leave(d) \/ SeesEnd(d) PROVE Ends'
  <2>0. CASE exited # "no"
    BY <1>7, <2>0 DEF Leave, SeesEnd, Ends
  <2> SUFFICES ASSUME exited = "no" PROVE Ends'
    BY <2>0
  <2>1. /\ client[d] = "here"
        /\ UNCHANGED <<stream, taken, answer, out, conn, waiting, open>>
        /\ \/ client' = [client EXCEPT ![d] = "gone"]
           \/ /\ Ended(d)
              /\ client' = [client EXCEPT ![d] = IF Unread(d) = <<>> THEN "end" ELSE "reset"]
    BY <1>7 DEF Leave, SeesEnd
  <2>2. /\ client'[d] = "gone" \/ (client'[d] = "end" /\ Ended(d))
             \/ (client'[d] = "reset" /\ Ended(d) /\ Unread(d) # <<>>)
        /\ \A c \in Conns \ {d} : client'[c] = client[c]
    BY <2>1 DEF Types
  <2>3. ASSUME NEW c \in Conns, c \notin waiting, client'[c] # "new", Free(c)
        PROVE  Done(c)'
    BY <1>a, <2>1, <2>2, <2>3 DEF Ends
  <2>4. ASSUME NEW c \in Conns PROVE Seen(c)'
    <3>1. CASE c = d
      BY <1>a, <2>1, <2>2, <3>1 DEF Ended
    <3>2. CASE c # d
      BY <1>a, <2>1, <2>2, <3>2 DEF Ends
    <3> QED  BY <3>1, <3>2
  <2> QED  BY <2>1, <2>3, <2>4 DEF Ends
<1>8. CASE UNCHANGED <<stream, client, waiting, open, conn, taken, answer, out, exited>>
  <2>1. CASE exited = "no"
    BY <1>8, <1>c, <2>1
  <2>2. CASE exited # "no"
    BY <1>8, <2>2 DEF Ends
  <2> QED  BY <2>1, <2>2
<1>9. CASE FileChanges \/ UNCHANGED vars
  BY <1>8, <1>9 DEF FileChanges, vars
<1>10. ASSUME NEW w \in Workers, WorkerStep(w) PROVE Ends'
  BY <1>1, <1>2, <1>3, <1>5, <1>10, Zenon DEF WorkerStep
<1> QED  BY <1>4, <1>6, <1>7, <1>9, <1>10 DEF Next

\* A client that stays gets its whole answer before the end of its connection, and
\* is cut off only behind a request requestHandle does not read to its end
\* (request.c 167-222, segel.c 282-308).
THEOREM AnswersWhole == Spec => []AnswerWhole
<1>1. Init => AnswerInv
  <2> SUFFICES ASSUME Init PROVE AnswerInv
    OBVIOUS
  <2>1. Past /\ ReadThrough
    BY DEF Init, Past, ReadThrough
  <2>2. Sending
    BY DEF Init, Sending, SendingOf, NoChild
  <2>3. Ends
    BY DEF Init, Ends
  <2> QED  BY <2>1, <2>2, <2>3 DEF AnswerInv
<1>2. HandlingInv /\ AnswerInv /\ [Next]_vars => AnswerInv'
  BY StepPast, StepReadThrough, StepSending, StepEnds DEF AnswerInv
<1>3. HandlingInv /\ AnswerInv => AnswerWhole
  <2> SUFFICES ASSUME HandlingInv, AnswerInv, NEW c \in Conns,
                      client[c] \in {"end", "reset"}, exited = "no",
                      answer[c].kind # "failed"
               PROVE  /\ out[c] = Whole(answer[c].kind)
                      /\ client[c] = "reset" => ~WellFormed(c)
    BY DEF AnswerWhole
  <2>1. c \notin open /\ (client[c] = "reset" => Unread(c) # <<>>)
    BY DEF AnswerInv, Ends
  <2>2. c \notin waiting /\ \A w \in Workers : conn[w] # c
    BY <2>1, HandlingAssumption DEF HandlingInv, Opened
  <2>3. Done(c)
    BY <2>2 DEF AnswerInv, Ends
  <2>4. ASSUME WellFormed(c) PROVE Unread(c) = <<>>
    <3>1. taken[c] = Len(stream[c]) /\ stream[c] \in Seq(STRING)
      BY <2>3, <2>4 DEF Done, HandlingInv, Types
    <3>2. Len(stream[c]) \in Nat
      BY <3>1, LenProperties
    <3>3. Beyond(stream[c], taken[c]) \in Seq(STRING) /\ Len(Beyond(stream[c], taken[c])) = 0
      BY <3>1, <3>2, UpToBeyond
    <3> QED  BY <3>3, EmptySeq DEF Unread
  <2> QED  BY <2>1, <2>3, <2>4 DEF Done
<1> QED  BY <1>1, <1>2, <1>3, HandlingInvHolds, PTL DEF Spec
==============================================================================
