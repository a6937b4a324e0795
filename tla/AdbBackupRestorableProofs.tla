-------------------- MODULE AdbBackupRestorableProofs --------------------
(***************************************************************************)
(* The proof that the backups bu finishes can be restored (AdbBackup), for *)
(* all files, sizes of structures, chunks and FIFOs.  What restore() makes *)
(* of a stream is a recursive function of its blocks; the first part is    *)
(* about such functions, the second about what a byte more does, the third *)
(* about bu and TWRP.                                                      *)
(***************************************************************************)
EXTENDS AdbBackupProofs, WellFoundedInduction

-----------------------------------------------------------------------------
(* The inductive invariant *)

\* What is neither a structure nor part of one.
PlainByte == [t : {"data", "zero"}, f : Nat, i : Nat, md5 : {<<>>}]

RestoreState ==
    [file : 0 .. F, chunk : Nat, inData : BOOLEAN, digest : Seq(PlainByte), ok : BOOLEAN,
     end : BOOLEAN, out : [0 .. F -> Seq(PlainByte)]]

Size(f) == IF f = 0 THEN 0 ELSE Files[f].size

\* The file and nothing but zeros.
Pure(bytes, f) ==
    \A p \in 1 .. Len(bytes) : bytes[p] = IF p <= Size(f) THEN Byte("data", f, p, <<>>) ELSE Zero

\* The files before f are there, and those after it are still to come.
OtherFiles(out, f) ==
    \A g \in 1 .. F : /\ g < f => Pure(out[g], g) /\ Len(out[g]) >= Size(g)
                      /\ g > f => out[g] = <<>>

\* A restore of s is in step with a bu that has digested d of file f and is c
\* bytes into a chunk: it has got all of d but what does not fill a block yet.
InStep(s, d, c, f) ==
    LET r == Restore(s)
        rest == c % R
    IN  /\ r \in RestoreState /\ r.ok /\ r.file = f
        /\ Len(s) % R = rest /\ r.chunk = c - rest /\ (r.inData <=> c # 0)
        /\ Len(d) = Len(r.digest) + rest
        /\ \A p \in 1 .. Len(r.digest) : r.digest[p] = d[p]
        /\ \A p \in 1 .. rest : s[Len(s) - rest + p] = d[Len(r.digest) + p]
        /\ r.out[f] = r.digest /\ OtherFiles(r.out, f)

\* The last byte that bu has read, and the last one that TWRP has written.
Have == IF Len(digest) < Size(current) THEN Len(digest) ELSE Size(current)
ReadFile == IF Have > 0 \/ current = 0 THEN current ELSE current - 1
ReadCount == IF Have > 0 THEN Have ELSE Size(ReadFile)

AtFile == tpc \in {"write", "eof", "release"} /\ written > 0
WrittenFile == IF AtFile THEN file ELSE file - 1
WrittenCount == IF AtFile THEN written ELSE Size(file - 1)

Follows(f, n, b) ==
    IF n < Size(f) THEN b.f = f /\ b.i = n + 1 ELSE b.f = f + 1 /\ b.i = 1

\* The data FIFO holds what comes between the two, in order.
FifoInv ==
    /\ \A p \in 1 .. Len(data) : data[p].f \in 1 .. WrittenFile /\ data[p].i \in 1 .. Size(data[p].f)
    /\ \A p, q \in 1 .. Len(data) : data[p].f = data[q].f => data[q].i = data[p].i + q - p
    /\ \A p \in 1 .. Len(data) - 1 : Follows(data[p].f, data[p].i, data[p + 1])
    /\ IF data = <<>> THEN ReadFile = WrittenFile /\ ReadCount = WrittenCount
       ELSE /\ Follows(ReadFile, ReadCount, data[1])
            /\ data[Len(data)].f = WrittenFile /\ data[Len(data)].i = WrittenCount

WriterInv ==
    /\ tpc = "write" => writer /\ written <= Size(file)
    /\ tpc \in {"eof", "release"} => written = Size(file)
    /\ tpc = "done" => file = F + 1

\* Which file bu is at follows from the number of commands it has taken.
PhaseInv ==
    /\ current \in 0 .. F
    /\ IF bpc = "finished" THEN Received = 2 * F + 2 /\ current = F
       ELSE Received = 2 * current \/ Received = 2 * current + 1
    /\ \A k \in 1 .. Len(control) :
          control[k].type \in {"TWFN", "TWIMG"} => 2 * control[k].file = Received + k
    /\ tpc = "failed" => Received + Len(control) <= 2 * F + 1

\* Before the first file, and between a trailer and the next header.
BetweenFiles == bpc # "drain" /\ (current = 0 \/ Received # 2 * current)

ProgressInv ==
    /\ digest \in Seq(PlainByte) /\ Pure(digest, current)
    /\ current = 0 => digest = <<>>
    /\ BetweenFiles => fileBytes = 0 /\ firstDataPacket /\ Have = Size(current)
    /\ bpc # "drain" /\ firstDataPacket /\ fileBytes % M # 0 => Have = Size(current)
    /\ bpc # "drain" /\ ~firstDataPacket => dataChunkBytes = fileBytes % M /\ fileBytes % M # 0
    /\ bpc = "extra" => digest # <<>>

StepInv ==
    /\ InStep(stream, digest, fileBytes % M, current)
    /\ bpc = "finished" => Restore(stream).end

RestorableInv ==
    /\ WriterInv /\ PhaseInv
    /\ tpc # "failed" /\ mishap = {} => FifoInv /\ ProgressInv /\ StepInv

-----------------------------------------------------------------------------
(* Induction, and the recursion of a restore *)

\* A set of numbers has a least one.
LEMMA Least ==
    ASSUME NEW T \in SUBSET Nat, T # {}
    PROVE  \E n \in T : \A m \in T : n <= m
<1>1. IsWellFoundedOn({ss \in Nat \X Nat : ss[1] < ss[2]}, Nat)
    BY NatLessThanWellFounded DEF OpToRel
<1>2. PICK n \in T : \A m \in T : ~(<<m, n>> \in {ss \in Nat \X Nat : ss[1] < ss[2]})
    BY <1>1, WFMin
<1>3. \A m \in T : ~(m < n)
    BY <1>2
<1> QED
    BY <1>3

LEMMA Induction ==
    ASSUME NEW S, 0 \in S, \A n \in Nat : n \in S => n + 1 \in S
    PROVE  \A n \in Nat : n \in S
<1> SUFFICES ASSUME Nat \ S # {} PROVE FALSE
    OBVIOUS
<1>1. PICK n \in Nat \ S : \A m \in Nat \ S : n <= m
    BY Least
<1>2. n # 0 /\ n - 1 \in Nat
    BY <1>1
<1>3. n - 1 \in S
    BY <1>1, <1>2
<1> QED
    BY <1>1, <1>2, <1>3

\* A restore that stops after n blocks.
Partial(h, bytes, n) ==
    h = [b \in 0 .. n |-> IF b = 0 THEN RestoreStart ELSE RestoreBlock(h[b - 1], Block(bytes, b))]

LEMMA PartialExists ==
    ASSUME NEW bytes
    PROVE  \A n \in Nat : \E h : Partial(h, bytes, n)
<1> DEFINE S == {n \in Nat : \E h : Partial(h, bytes, n)}
<1>1. 0 \in S
  <2> DEFINE h == [b \in 0 .. 0 |-> RestoreStart]
  <2>1. h = [b \in 0 .. 0 |-> IF b = 0 THEN RestoreStart ELSE RestoreBlock(h[b - 1], Block(bytes, b))]
      OBVIOUS
  <2>2. Partial(h, bytes, 0)
      BY <2>1 DEF Partial
  <2> QED
      BY <2>2
<1>2. ASSUME NEW n \in Nat, n \in S PROVE n + 1 \in S
  <2>1. PICK h : Partial(h, bytes, n)
      BY <1>2
  <2> DEFINE k == [b \in 0 .. n + 1 |-> IF b = n + 1 THEN RestoreBlock(h[n], Block(bytes, n + 1)) ELSE h[b]]
  <2>2. ASSUME NEW b \in 0 .. n + 1
        PROVE  k[b] = IF b = 0 THEN RestoreStart ELSE RestoreBlock(k[b - 1], Block(bytes, b))
    <3>1. CASE b = n + 1
      <4>1. b # 0 /\ b - 1 = n /\ n \in 0 .. n + 1 /\ n # n + 1
          BY <3>1
      <4> QED
          BY <3>1, <4>1
    <3>2. CASE b # n + 1
      <4>1. b \in 0 .. n /\ (b # 0 => b - 1 \in 0 .. n + 1 /\ b - 1 # n + 1)
          BY <3>2
      <4>2. h[b] = IF b = 0 THEN RestoreStart ELSE RestoreBlock(h[b - 1], Block(bytes, b))
          BY <2>1, <4>1 DEF Partial
      <4> QED
          BY <3>2, <4>1, <4>2
    <3> QED
        BY <3>1, <3>2
  <2>3. k = [b \in 0 .. n + 1 |-> k[b]]
      OBVIOUS
  <2>4. Partial(k, bytes, n + 1)
    <3> HIDE DEF k
    <3> QED
        BY <2>2, <2>3 DEF Partial
  <2> QED
      BY <2>4
<1> HIDE DEF S
<1>3. \A n \in Nat : n \in S
    BY <1>1, <1>2, Induction
<1> QED
    BY <1>3 DEF S

\* Two of them agree as far as they go, if they are of the same blocks.
LEMMA PartialUnique ==
    ASSUME NEW s, NEW e, NEW n \in Nat, NEW m \in Nat, NEW h, NEW k,
           Partial(h, s, n), Partial(k, e, m),
           \A b \in 1 .. n : b <= m => Block(s, b) = Block(e, b)
    PROVE  \A b \in Nat : b <= n /\ b <= m => h[b] = k[b]
<1> DEFINE S == {b \in Nat : b <= n /\ b <= m => h[b] = k[b]}
<1>1. 0 \in S
    BY DEF Partial
<1>2. ASSUME NEW b \in Nat, b \in S PROVE b + 1 \in S
  <2> SUFFICES ASSUME b + 1 <= n, b + 1 <= m PROVE h[b + 1] = k[b + 1]
      OBVIOUS
  <2>1. h[b] = k[b]
      BY <1>2
  <2>2. b + 1 \in 0 .. n /\ b + 1 \in 0 .. m /\ b + 1 # 0 /\ (b + 1) - 1 = b /\ b + 1 \in 1 .. n
      OBVIOUS
  <2>3. h[b + 1] = RestoreBlock(h[b], Block(s, b + 1))
      BY <2>2 DEF Partial
  <2>4. k[b + 1] = RestoreBlock(k[b], Block(e, b + 1))
      BY <2>2 DEF Partial
  <2> QED
      BY <2>1, <2>2, <2>3, <2>4
<1> HIDE DEF S
<1>3. \A b \in Nat : b \in S
    BY <1>1, <1>2, Induction
<1> QED
    BY <1>3 DEF S

\* So that there is a restore of any number of blocks, ...
LEMMA RunDefined ==
    ASSUME NEW bytes
    PROVE  RestoreRun(bytes) =
             [b \in Nat |-> IF b = 0 THEN RestoreStart
                            ELSE RestoreBlock(RestoreRun(bytes)[b - 1], Block(bytes, b))]
<1> DEFINE H(n) == CHOOSE h : Partial(h, bytes, n)
           g == [b \in Nat |-> H(b)[b]]
<1>1. \A n \in Nat : Partial(H(n), bytes, n)
    BY PartialExists
<1>2. ASSUME NEW b \in Nat
      PROVE  g[b] = IF b = 0 THEN RestoreStart ELSE RestoreBlock(g[b - 1], Block(bytes, b))
  <2> HIDE DEF H
  <2>1. H(b)[b] = IF b = 0 THEN RestoreStart ELSE RestoreBlock(H(b)[b - 1], Block(bytes, b))
    <3>1. Partial(H(b), bytes, b) /\ b \in 0 .. b
        BY <1>1
    <3> QED
        BY <3>1 DEF Partial
  <2>2. ASSUME b # 0 PROVE H(b)[b - 1] = H(b - 1)[b - 1]
    <3>1. b - 1 \in Nat /\ b - 1 <= b
        BY <2>2
    <3>2. Partial(H(b), bytes, b) /\ Partial(H(b - 1), bytes, b - 1)
        BY <1>1, <3>1
    <3> QED
        BY <3>1, <3>2, PartialUnique
  <2> QED
      BY <2>1, <2>2
<1>3. g = [b \in Nat |-> IF b = 0 THEN RestoreStart ELSE RestoreBlock(g[b - 1], Block(bytes, b))]
  <2>1. g = [b \in Nat |-> g[b]]
      OBVIOUS
  <2> HIDE DEF g
  <2> QED
      BY <1>2, <2>1
<1> HIDE DEF g
<1>4. \E run : run = [b \in Nat |-> IF b = 0 THEN RestoreStart ELSE RestoreBlock(run[b - 1], Block(bytes, b))]
    BY <1>3
<1> QED
    BY <1>4 DEF RestoreRun

\* ... which depends on their bytes alone.
LEMMA RunAgrees ==
    ASSUME NEW s, NEW e, NEW n \in Nat, \A b \in 1 .. n : Block(s, b) = Block(e, b)
    PROVE  RestoreRun(s)[n] = RestoreRun(e)[n]
<1> DEFINE S == {b \in Nat : b <= n => RestoreRun(s)[b] = RestoreRun(e)[b]}
<1>1. 0 \in S
    BY RunDefined
<1>2. ASSUME NEW b \in Nat, b \in S PROVE b + 1 \in S
  <2> SUFFICES ASSUME b + 1 <= n PROVE RestoreRun(s)[b + 1] = RestoreRun(e)[b + 1]
      OBVIOUS
  <2>1. b + 1 \in Nat /\ b + 1 # 0 /\ (b + 1) - 1 = b /\ b + 1 \in 1 .. n
      OBVIOUS
  <2>2. RestoreRun(s)[b + 1] = RestoreBlock(RestoreRun(s)[b], Block(s, b + 1))
      BY <2>1, RunDefined
  <2>3. RestoreRun(e)[b + 1] = RestoreBlock(RestoreRun(e)[b], Block(e, b + 1))
      BY <2>1, RunDefined
  <2> QED
      BY <1>2, <2>1, <2>2, <2>3
<1> HIDE DEF S
<1>3. n \in S
    BY <1>1, <1>2, Induction
<1> QED
    BY <1>3 DEF S

-----------------------------------------------------------------------------
(* Division *)

LEMMA Products ==
    ASSUME NEW D \in Nat, NEW m \in Nat, NEW n \in Nat, m < n
    PROVE  m * D + D <= n * D
<1>1. PICK k \in Nat : n = m + 1 + k
  <2>1. n - m - 1 \in Nat /\ n = m + 1 + (n - m - 1)
      OBVIOUS
  <2> QED
      BY <2>1
<1>2. n * D = m * D + D + k * D
    BY <1>1
<1>3. k * D \in Nat /\ m * D \in Nat
    OBVIOUS
<1> QED
    BY <1>2, <1>3

LEMMA Quotient ==
    ASSUME NEW D \in Nat \ {0}, NEW a \in Nat
    PROVE  a \div D \in Nat /\ a % D \in 0 .. D - 1 /\ a = (a \div D) * D + (a % D)
    OBVIOUS

LEMMA QuotientUnique ==
    ASSUME NEW D \in Nat \ {0}, NEW q \in Nat, NEW r \in 0 .. D - 1, NEW a, a = q * D + r
    PROVE  a \div D = q /\ a % D = r
<1>1. a \in Nat
    OBVIOUS
<1> DEFINE k == a \div D
           e == a % D
<1>2. k \in Nat /\ e \in 0 .. D - 1 /\ a = k * D + e
    BY <1>1, Quotient
<1> HIDE DEF k, e
<1>3. q * D \in Nat /\ k * D \in Nat
    BY <1>2
<1>4. ~(k < q)
    BY <1>2, <1>3, Products
<1>5. ~(q < k)
    BY <1>2, <1>3, Products
<1>6. k = q
    BY <1>2, <1>4, <1>5
<1> QED
    BY <1>2, <1>3, <1>6 DEF k, e

\* What n more do to the remainder, if they do not exceed the divisor.
LEMMA Remainder ==
    ASSUME NEW D \in Nat \ {0}, NEW a \in Nat, NEW n \in Nat
    PROVE  /\ (a % D) + n < D => (a + n) % D = (a % D) + n /\ (a + n) \div D = a \div D
           /\ (a % D) + n = D => (a + n) % D = 0 /\ (a + n) \div D = (a \div D) + 1
<1> DEFINE q == a \div D
           r == a % D
<1>1. q \in Nat /\ r \in 0 .. D - 1 /\ a = q * D + r
    BY Quotient
<1> HIDE DEF q, r
<1>2. q * D \in Nat /\ (q + 1) * D = q * D + D
    BY <1>1
<1>3. ASSUME r + n < D PROVE (a + n) % D = r + n /\ (a + n) \div D = q
  <2>1. a + n = q * D + (r + n) /\ r + n \in 0 .. D - 1
      BY <1>1, <1>2, <1>3
  <2> QED
      BY <1>1, <2>1, QuotientUnique
<1>4. ASSUME r + n = D PROVE (a + n) % D = 0 /\ (a + n) \div D = q + 1
  <2>1. PICK k \in Nat : k = q + 1
      BY <1>1
  <2>2. PICK z \in 0 .. D - 1 : z = 0
      OBVIOUS
  <2>3. a + n = k * D + z
      BY <1>1, <1>2, <1>4, <2>1, <2>2
  <2>4. (a + n) \div D = k /\ (a + n) % D = z
      BY <2>3, QuotientUnique
  <2> QED
      BY <2>1, <2>2, <2>4
<1> QED
    BY <1>3, <1>4 DEF q, r

-----------------------------------------------------------------------------
(* What a stream that grows does to a restore of it *)

LEMMA SequencesEqual ==
    ASSUME NEW a, NEW b, IsSequence(a), IsSequence(b), Len(a) = Len(b),
           \A p \in 1 .. Len(a) : a[p] = b[p]
    PROVE  a = b
<1> DEFINE n == Len(a)
<1>1. a = [p \in 1 .. n |-> a[p]] /\ b = [p \in 1 .. n |-> b[p]]
    BY DEF IsSequence
<1>2. \A p \in 1 .. n : a[p] = b[p]
    OBVIOUS
<1> HIDE DEF n
<1>3. [p \in 1 .. n |-> a[p]] = [p \in 1 .. n |-> b[p]]
    BY <1>2
<1> QED
    BY <1>1, <1>3

\* Part of a sequence.
LEMMA Part ==
    ASSUME NEW s, IsSequence(s), NEW m \in Nat, NEW n \in Nat, m + n <= Len(s)
    PROVE  /\ IsSequence(SubSeq(s, m + 1, m + n)) /\ Len(SubSeq(s, m + 1, m + n)) = n
           /\ \A p \in 1 .. n : SubSeq(s, m + 1, m + n)[p] = s[m + p]
<1> DEFINE S == {s[p] : p \in 1 .. Len(s)}
<1>1. s \in Seq(S)
    BY SequenceType
<1> HIDE DEF S
<1>2. SubSeq(s, m + 1, m + n) \in Seq(S) /\ Len(SubSeq(s, m + 1, m + n)) = n
    BY <1>1
<1>3. \A p \in 1 .. n : SubSeq(s, m + 1, m + n)[p] = s[m + p]
    BY <1>1
<1> QED
    BY <1>2, <1>3, SequenceForm

LEMMA BlockBytes ==
    ASSUME NEW s, IsSequence(s), NEW b \in Nat, b * R + R <= Len(s)
    PROVE  /\ IsSequence(Block(s, b + 1)) /\ Len(Block(s, b + 1)) = R
           /\ \A p \in 1 .. R : Block(s, b + 1)[p] = s[b * R + p]
<1>1. R \in Nat
    BY FilesType
<1>2. PICK m \in Nat : m = b * R
    BY <1>1
<1>3. ((b + 1) - 1) * R + 1 = m + 1 /\ (b + 1) * R = m + R
    BY <1>1, <1>2
<1>4. Block(s, b + 1) = SubSeq(s, m + 1, m + R) /\ m + R <= Len(s)
    BY <1>2, <1>3 DEF Block
<1>5. /\ IsSequence(SubSeq(s, m + 1, m + R)) /\ Len(SubSeq(s, m + 1, m + R)) = R
      /\ \A p \in 1 .. R : SubSeq(s, m + 1, m + R)[p] = s[m + p]
    BY <1>1, <1>4, Part
<1> QED
    BY <1>2, <1>4, <1>5

LEMMA RestoreGrows ==
    ASSUME NEW s, NEW e, IsSequence(s), IsSequence(e)
    PROVE  LET rest == Len(s) % R IN
           /\ rest + Len(e) < R =>
                Restore(s \o e) = Restore(s) /\ Len(s \o e) % R = rest + Len(e)
           /\ rest + Len(e) = R =>
                /\ Len(s \o e) % R = 0
                /\ \E block : /\ Restore(s \o e) = RestoreBlock(Restore(s), block)
                              /\ IsSequence(block) /\ Len(block) = R
                              /\ \A p \in 1 .. R : block[p] = (s \o e)[Len(s) - rest + p]
<1> DEFINE rest == Len(s) % R
           q == Len(s) \div R
           new == s \o e
<1>1. R \in Nat \ {0} /\ Len(s) \in Nat /\ Len(e) \in Nat
    BY FilesType DEF IsSequence
<1>2. rest \in 0 .. R - 1 /\ q \in Nat /\ Len(s) = q * R + rest
    BY <1>1, Quotient
<1>3. /\ IsSequence(new) /\ Len(new) = Len(s) + Len(e)
      /\ \A p \in 1 .. Len(s) : new[p] = s[p]
    BY Concatenation
<1>4. /\ rest + Len(e) < R => Len(new) % R = rest + Len(e) /\ Len(new) \div R = q
      /\ rest + Len(e) = R => Len(new) % R = 0 /\ Len(new) \div R = q + 1
  <2>1. PICK a \in Nat, n \in Nat : a = Len(s) /\ n = Len(e)
      BY <1>1
  <2>2. /\ (a % R) + n < R => (a + n) % R = (a % R) + n /\ (a + n) \div R = a \div R
        /\ (a % R) + n = R => (a + n) % R = 0 /\ (a + n) \div R = (a \div R) + 1
      BY <1>1, Remainder
  <2> QED
      BY <1>3, <2>1, <2>2
<1>5. Restore(s) = RestoreRun(s)[q]
    BY DEF Restore
<1> HIDE DEF rest, q, new
<1>6. ASSUME NEW b \in 1 .. q PROVE Block(new, b) = Block(s, b)
  <2>1. PICK m \in Nat : b = m + 1 /\ m < q
    <3>1. b - 1 \in Nat /\ b = (b - 1) + 1 /\ b - 1 < q
        BY <1>2
    <3> QED
        BY <3>1
  <2>2. m * R + R <= q * R /\ m * R \in Nat /\ q * R \in Nat
      BY <1>1, <1>2, <2>1, Products
  <2>3. m * R + R <= Len(s) /\ m * R + R <= Len(new)
      BY <1>1, <1>2, <1>3, <2>2
  <2>4. /\ IsSequence(Block(s, m + 1)) /\ Len(Block(s, m + 1)) = R
        /\ \A p \in 1 .. R : Block(s, m + 1)[p] = s[m * R + p]
      BY <2>3, BlockBytes
  <2>5. /\ IsSequence(Block(new, m + 1)) /\ Len(Block(new, m + 1)) = R
        /\ \A p \in 1 .. R : Block(new, m + 1)[p] = new[m * R + p]
      BY <1>3, <2>3, BlockBytes
  <2>6. \A p \in 1 .. R : m * R + p \in 1 .. Len(s)
      BY <1>1, <2>2, <2>3
  <2>7. \A p \in 1 .. R : Block(new, m + 1)[p] = Block(s, m + 1)[p]
      BY <1>3, <2>4, <2>5, <2>6
  <2> QED
      BY <2>1, <2>4, <2>5, <2>7, SequencesEqual
<1>7. RestoreRun(new)[q] = RestoreRun(s)[q]
    BY <1>2, <1>6, RunAgrees
<1>8. ASSUME rest + Len(e) < R
      PROVE  Restore(new) = Restore(s) /\ Len(new) % R = rest + Len(e)
    BY <1>4, <1>5, <1>7, <1>8 DEF Restore
<1>9. ASSUME rest + Len(e) = R
      PROVE  /\ Len(new) % R = 0
             /\ \E block : /\ Restore(new) = RestoreBlock(Restore(s), block)
                           /\ IsSequence(block) /\ Len(block) = R
                           /\ \A p \in 1 .. R : block[p] = new[Len(s) - rest + p]
  <2>1. Restore(new) = RestoreRun(new)[q + 1] /\ q + 1 \in Nat /\ q + 1 # 0 /\ (q + 1) - 1 = q
      BY <1>2, <1>4, <1>9 DEF Restore
  <2>2. Restore(new) = RestoreBlock(Restore(s), Block(new, q + 1))
      BY <1>5, <1>7, <2>1, RunDefined
  <2>3. q * R \in Nat /\ q * R + R <= Len(new) /\ q * R = Len(s) - rest
      BY <1>1, <1>2, <1>3, <1>9
  <2>4. /\ IsSequence(Block(new, q + 1)) /\ Len(Block(new, q + 1)) = R
        /\ \A p \in 1 .. R : Block(new, q + 1)[p] = new[q * R + p]
      BY <1>2, <1>3, <2>3, BlockBytes
  <2> QED
      BY <1>4, <1>9, <2>2, <2>3, <2>4
<1> QED
    BY <1>8, <1>9 DEF rest, new

\* The type of a block is data, ...
LEMMA PlainBlock ==
    ASSUME NEW block \in Seq(PlainByte), Len(block) = R
    PROVE  BlockType(block) = "data"
<1>1. 1 \in 1 .. R
    BY FilesType
<1>2. block[1] \in PlainByte
    BY <1>1
<1>3. block[1].t \in {"data", "zero"}
    BY <1>2 DEF PlainByte
<1> QED
    BY <1>1, <1>3 DEF BlockType

\* ... or that of a structure.
LEMMA StructBlock ==
    ASSUME NEW block, NEW t, NEW f, NEW md5, t \notin {"data", "zero"},
           \A p \in 1 .. R : block[p] = Byte(t, f, p, md5)
    PROVE  BlockType(block) = t /\ block[1].f = f /\ block[1].md5 = md5
<1>1. 1 \in 1 .. R
    BY FilesType
<1>2. \A p : /\ Byte(t, f, p, md5).i = p /\ Byte(t, f, p, md5).t = t
             /\ Byte(t, f, p, md5).f = f /\ Byte(t, f, p, md5).md5 = md5
    BY DEF Byte
<1>3. \A p \in 1 .. R : /\ block[p].i = p /\ block[p].t = t
                        /\ block[p].f = f /\ block[p].md5 = md5
    BY <1>2
<1>4. block[1].t = t /\ block[1].f = f /\ block[1].md5 = md5
    BY <1>1, <1>3
<1> QED
    BY <1>3, <1>4 DEF BlockType

\* A block of data within a chunk.
LEMMA DataBlock ==
    ASSUME NEW r \in RestoreState, r.inData, NEW block \in Seq(PlainByte), Len(block) = R
    PROVE  LET n == RestoreBlock(r, block) IN
           /\ n \in RestoreState /\ n.file = r.file /\ n.ok = r.ok
           /\ n.chunk = (IF r.chunk + R = M THEN 0 ELSE r.chunk + R)
           /\ (n.inData <=> r.chunk + R # M)
           /\ n.digest = r.digest \o block
           /\ n.out[r.file] = r.out[r.file] \o block
           /\ \A g \in 0 .. F : g # r.file => n.out[g] = r.out[g]
<1> DEFINE n == RestoreBlock(r, block)
           chunk == IF r.chunk + R = M THEN 0 ELSE r.chunk + R
           out == [r.out EXCEPT ![r.file] = r.out[r.file] \o block]
<1>1. BlockType(block) = "data"
    BY PlainBlock
<1>2. /\ r.file \in 0 .. F /\ r.chunk \in Nat /\ r.digest \in Seq(PlainByte) /\ r.ok \in BOOLEAN
      /\ r.end \in BOOLEAN /\ r.out \in [0 .. F -> Seq(PlainByte)] /\ R \in Nat /\ M \in Nat
    BY FilesType DEF RestoreState
<1>3. n = [file |-> r.file, chunk |-> chunk, inData |-> r.chunk + R # M, digest |-> r.digest \o block,
           ok |-> r.ok, end |-> r.end, out |-> out]
    BY <1>1 DEF RestoreBlock, RestoreState
<1>4. chunk \in Nat /\ r.digest \o block \in Seq(PlainByte)
    BY <1>2
<1>5. r.out[r.file] \o block \in Seq(PlainByte)
  <2>1. PICK old \in Seq(PlainByte) : old = r.out[r.file]
      BY <1>2
  <2> QED
      BY <2>1
<1>6. /\ out \in [0 .. F -> Seq(PlainByte)] /\ out[r.file] = r.out[r.file] \o block
      /\ \A g \in 0 .. F : g # r.file => out[g] = r.out[g]
    BY <1>2, <1>5
<1> HIDE DEF chunk, out, n
<1>7. n \in RestoreState
    BY <1>2, <1>3, <1>4, <1>6 DEF RestoreState
<1>8. /\ n.file = r.file /\ n.ok = r.ok /\ n.chunk = chunk /\ (n.inData <=> r.chunk + R # M)
      /\ n.digest = r.digest \o block /\ n.out = out
    BY <1>3
<1> QED
    BY <1>6, <1>7, <1>8 DEF n, chunk

\* What a structure outside of a chunk makes of a restore.
StructureRead(r, n, t, f, md5) ==
    /\ n \in RestoreState /\ n.out = r.out
    /\ n.file = (IF t \in {"TWFN", "TWIMG"} THEN f ELSE r.file)
    /\ n.digest = (IF t \in {"TWFN", "TWIMG"} THEN <<>> ELSE r.digest)
    /\ (n.ok <=> r.ok /\ (t = "MD5TRAILER" => r.digest = md5))
    /\ n.chunk = (IF t = "TWDATA" THEN r.chunk + R ELSE IF t \in {"TWFN", "TWIMG"} THEN 0 ELSE r.chunk)
    /\ (n.inData <=> t = "TWDATA")
    /\ (n.end <=> r.end \/ t = "TWENDADB")

LEMMA StructureBlock ==
    ASSUME NEW r \in RestoreState, ~r.inData, NEW t, NEW f \in 0 .. F, NEW md5, NEW block,
           t \in {"TWSTREAMHDR", "TWFN", "TWIMG", "TWDATA", "MD5TRAILER", "TWENDADB"},
           \A p \in 1 .. R : block[p] = Byte(t, f, p, md5)
    PROVE  StructureRead(r, RestoreBlock(r, block), t, f, md5)
<1> DEFINE n == RestoreBlock(r, block)
<1>1. BlockType(block) = t /\ block[1].f = f /\ block[1].md5 = md5
    BY StructBlock
<1>2. R \in Nat /\ r.chunk \in Nat /\ r.inData = FALSE /\ r.ok \in BOOLEAN /\ r.end \in BOOLEAN
    BY FilesType DEF RestoreState
<1>3. CASE t = "MD5TRAILER"
  <2>1. n = [r EXCEPT !.inData = FALSE, !.ok = r.ok /\ r.digest = md5]
      BY <1>1, <1>2, <1>3 DEF RestoreBlock, RestoreState
  <2> HIDE DEF n
  <2> QED
      BY <1>2, <1>3, <2>1 DEF RestoreState, n, StructureRead
<1>4. CASE t = "TWDATA"
  <2>1. n = [r EXCEPT !.chunk = r.chunk + R, !.inData = TRUE]
      BY <1>1, <1>2, <1>4 DEF RestoreBlock, RestoreState
  <2> HIDE DEF n
  <2>2. n \in RestoreState
    <3>1. r.chunk + R \in Nat /\ TRUE \in BOOLEAN
        BY <1>2
    <3> QED
        BY <2>1, <3>1 DEF RestoreState
  <2>3. /\ n.out = r.out /\ n.ok = r.ok /\ n.end = r.end
        /\ n.file = r.file /\ n.digest = r.digest /\ n.chunk = r.chunk + R /\ n.inData
      BY <1>2, <2>1 DEF RestoreState
  <2> QED
      BY <1>4, <2>2, <2>3 DEF n, StructureRead
<1>5. CASE t \in {"TWFN", "TWIMG"}
  <2>1. n = [r EXCEPT !.file = f, !.chunk = 0, !.digest = <<>>]
      BY <1>1, <1>2, <1>5 DEF RestoreBlock, RestoreState
  <2> HIDE DEF n
  <2>2. n \in RestoreState
    <3>1. 0 \in Nat /\ <<>> \in Seq(PlainByte)
        OBVIOUS
    <3> QED
        BY <2>1, <3>1 DEF RestoreState
  <2>3. /\ n.out = r.out /\ n.ok = r.ok /\ n.end = r.end
        /\ n.file = f /\ n.digest = <<>> /\ n.chunk = 0 /\ ~n.inData
      BY <1>2, <2>1 DEF RestoreState
  <2> QED
      BY <1>5, <2>2, <2>3 DEF n, StructureRead
<1>6. CASE t \in {"TWSTREAMHDR", "TWENDADB"}
  <2>1. n = [r EXCEPT !.end = r.end \/ t = "TWENDADB"]
      BY <1>1, <1>2, <1>6 DEF RestoreBlock, RestoreState
  <2> HIDE DEF n
  <2> QED
      BY <1>2, <1>6, <2>1 DEF RestoreState, n, StructureRead
<1> QED
    BY <1>3, <1>4, <1>5, <1>6

LEMMA RestoreType ==
    ASSUME NEW r \in RestoreState
    PROVE  /\ r.file \in 0 .. F /\ r.chunk \in Nat /\ r.digest \in Seq(PlainByte) /\ Len(r.digest) \in Nat
           /\ \A g \in 0 .. F : r.out[g] \in Seq(PlainByte)
<1>1. /\ r.file \in 0 .. F /\ r.chunk \in Nat /\ r.digest \in Seq(PlainByte)
      /\ r.out \in [0 .. F -> Seq(PlainByte)]
    BY DEF RestoreState
<1>2. Len(r.digest) \in Nat
    BY <1>1
<1> QED
    BY <1>1, <1>2

\* One byte of data.
LEMMA PlainAppend ==
    ASSUME NEW s, IsSequence(s), NEW d \in Seq(PlainByte), NEW c \in 1 .. M - 1, NEW f \in 0 .. F,
           InStep(s, d, c, f), NEW b \in PlainByte
    PROVE  InStep(s \o <<b>>, d \o <<b>>, IF c + 1 = M THEN 0 ELSE c + 1, f)
<1> DEFINE r == Restore(s)
           rest == c % R
           s1 == s \o <<b>>
           d1 == d \o <<b>>
           c1 == IF c + 1 = M THEN 0 ELSE c + 1
<1>1. R \in Nat \ {0} /\ M \in Nat /\ M % R = 0 /\ Len(s) \in Nat /\ Len(d) \in Nat
    BY FilesType, FilesAssumption DEF IsSequence
<1>2. /\ r \in RestoreState /\ r.ok /\ r.file = f
      /\ Len(s) % R = rest /\ r.chunk = c - rest /\ (r.inData <=> c # 0)
      /\ Len(d) = Len(r.digest) + rest
      /\ \A p \in 1 .. Len(r.digest) : r.digest[p] = d[p]
      /\ \A p \in 1 .. rest : s[Len(s) - rest + p] = d[Len(r.digest) + p]
      /\ r.out[f] = r.digest
      /\ OtherFiles(r.out, f)
    BY DEF InStep
<1>3. rest \in 0 .. R - 1 /\ rest <= Len(s)
  <2>1. PICK a \in Nat : a = Len(s)
      BY <1>1
  <2>2. a \div R \in Nat /\ a % R \in 0 .. R - 1 /\ a = (a \div R) * R + (a % R)
      BY <1>1, Quotient
  <2>3. (a \div R) * R \in Nat
      BY <1>1, <2>2
  <2> HIDE DEF rest
  <2> QED
      BY <1>2, <2>1, <2>2, <2>3
<1>4. /\ rest + 1 < R => (c + 1) % R = rest + 1
      /\ rest + 1 = R => (c + 1) % R = 0
  <2>1. PICK a \in Nat, n \in Nat : a = c /\ n = 1
      OBVIOUS
  <2>2. /\ (a % R) + n < R => (a + n) % R = (a % R) + n
        /\ (a % R) + n = R => (a + n) % R = 0
      BY <1>1, Remainder
  <2> QED
      BY <2>1, <2>2
<1>5. <<b>> \in Seq(PlainByte) /\ Len(<<b>>) = 1 /\ <<b>>[1] = b
    OBVIOUS
<1>6. IsSequence(<<b>>)
    BY <1>5, SequenceForm
<1>7. /\ IsSequence(s1) /\ Len(s1) = Len(s) + 1
      /\ \A p \in 1 .. Len(s) : s1[p] = s[p]
      /\ s1[Len(s) + 1] = b
    BY <1>5, <1>6, Concatenation
<1>8. /\ d1 \in Seq(PlainByte) /\ Len(d1) = Len(d) + 1
      /\ \A p \in 1 .. Len(d) : d1[p] = d[p]
      /\ d1[Len(d) + 1] = b
    BY <1>5
<1>9. /\ rest + 1 < R => Restore(s1) = r /\ Len(s1) % R = rest + 1
      /\ rest + 1 = R =>
           /\ Len(s1) % R = 0
           /\ \E block : /\ Restore(s1) = RestoreBlock(r, block)
                         /\ IsSequence(block) /\ Len(block) = R
                         /\ \A p \in 1 .. R : block[p] = s1[Len(s) - rest + p]
  <2>1. PICK e : e = <<b>>
      OBVIOUS
  <2>2. IsSequence(e) /\ Len(e) = 1
      BY <1>5, <1>6, <2>1
  <2>3. /\ (Len(s) % R) + Len(e) < R =>
             Restore(s \o e) = Restore(s) /\ Len(s \o e) % R = (Len(s) % R) + Len(e)
        /\ (Len(s) % R) + Len(e) = R =>
             /\ Len(s \o e) % R = 0
             /\ \E block : /\ Restore(s \o e) = RestoreBlock(Restore(s), block)
                           /\ IsSequence(block) /\ Len(block) = R
                           /\ \A p \in 1 .. R : block[p] = (s \o e)[Len(s) - (Len(s) % R) + p]
      BY <2>2, RestoreGrows
  <2> QED
    <3>1. Len(s) % R = rest /\ r = Restore(s) /\ s \o e = s1
        BY <1>2, <2>1
    <3> HIDE DEF r, rest, s1
    <3> QED
        BY <2>2, <2>3, <3>1
<1>10. /\ r.file \in 0 .. F /\ r.chunk \in Nat /\ r.digest \in Seq(PlainByte) /\ Len(r.digest) \in Nat
       /\ \A g \in 0 .. F : r.out[g] \in Seq(PlainByte)
    BY <1>2, RestoreType
<1> HIDE DEF r, rest, s1, d1
<1>14. /\ Len(r.digest) \in Nat /\ Len(d) = Len(r.digest) + rest /\ Len(d1) = Len(r.digest) + rest + 1
       /\ Len(s) \in Nat /\ rest \in 0 .. R - 1 /\ rest <= Len(s) /\ R \in Nat /\ r.chunk = c - rest
       /\ Len(s1) = Len(s) + 1 /\ c \in Nat /\ M \in Nat
    BY <1>1, <1>2, <1>3, <1>7, <1>8, <1>10
<1>11. \A p \in 1 .. rest + 1 : s1[Len(s) - rest + p] = d1[Len(r.digest) + p]
  <2>1. ASSUME NEW p \in 1 .. rest PROVE s1[Len(s) - rest + p] = d1[Len(r.digest) + p]
    <3>1. Len(s) - rest + p \in 1 .. Len(s) /\ Len(r.digest) + p \in 1 .. Len(d)
        BY <1>14
    <3> QED
        BY <1>2, <1>7, <1>8, <3>1
  <2>2. ASSUME NEW p \in Nat, p = rest + 1 PROVE s1[Len(s) - rest + p] = d1[Len(r.digest) + p]
    <3>1. Len(s) - rest + p = Len(s) + 1 /\ Len(r.digest) + p = Len(d) + 1
      <4>1. PICK k \in Nat, l \in Nat, m \in Nat, x \in Nat :
              k = rest /\ l = Len(r.digest) /\ m = Len(d) /\ x = Len(s) /\ m = l + k
          BY <1>14
      <4>2. p = k + 1
          BY <2>2, <4>1
      <4>3. x - k + p = x + 1 /\ l + p = m + 1
        <5>1. m = l + k
            BY <4>1
        <5> QED
            BY <4>2, <5>1
      <4> QED
          BY <4>1, <4>3
    <3> QED
        BY <1>7, <1>8, <3>1
  <2>3. \A p \in 1 .. rest + 1 : p \in 1 .. rest \/ (p \in Nat /\ p = rest + 1)
      BY <1>14
  <2> QED
      BY <2>1, <2>2, <2>3
<1>12. CASE rest + 1 < R
  <2>1. c + 1 # M
      BY <1>1, <1>3, <1>4, <1>12
  <2>2. c1 = c + 1 /\ c1 % R = rest + 1 /\ c1 # 0
      BY <1>4, <1>12, <2>1
  <2>3. Restore(s1) = r /\ Len(s1) % R = rest + 1
      BY <1>9, <1>12
  <2>4. /\ r.chunk = c1 - (rest + 1) /\ (r.inData <=> c1 # 0)
        /\ Len(d1) = Len(r.digest) + (rest + 1)
        /\ Len(s1) - (rest + 1) = Len(s) - rest
    <3>1. r.inData <=> c1 # 0
        BY <1>2, <2>2
    <3> QED
      <4>1. PICK k \in Nat, l \in Nat, x \in Nat :
              k = rest /\ l = Len(r.digest) /\ x = Len(s)
        <5>1. rest \in Nat /\ Len(r.digest) \in Nat /\ Len(s) \in Nat
            BY <1>14
        <5> QED
            BY <5>1
      <4>2. r.chunk = c - k /\ Len(d1) = l + k + 1 /\ Len(s1) = x + 1 /\ c1 = c + 1
          BY <1>14, <2>2, <4>1
      <4>3. c - k = (c + 1) - (k + 1) /\ l + k + 1 = l + (k + 1) /\ (x + 1) - (k + 1) = x - k
          OBVIOUS
      <4>4. r.chunk = c1 - (k + 1) /\ Len(d1) = l + (k + 1) /\ Len(s1) - (k + 1) = x - k
          BY <4>2, <4>3
      <4> QED
          BY <3>1, <4>1, <4>4
  <2>5. \A p \in 1 .. Len(r.digest) : r.digest[p] = d1[p]
    <3>1. \A p \in 1 .. Len(r.digest) : p \in 1 .. Len(d)
        BY <1>2, <1>3, <1>10
    <3> QED
        BY <1>2, <1>8, <3>1
  <2> HIDE DEF c1
  <2>6. InStep(s1, d1, c1, f)
      BY <1>2, <1>11, <2>2, <2>3, <2>4, <2>5 DEF InStep
  <2> QED
      BY <2>6 DEF s1, d1, c1
<1>13. CASE rest + 1 = R
  <2>1. PICK block : /\ Restore(s1) = RestoreBlock(r, block)
                     /\ IsSequence(block) /\ Len(block) = R
                     /\ \A p \in 1 .. R : block[p] = s1[Len(s) - rest + p]
      BY <1>9, <1>13
  <2>2. \A p \in 1 .. R : block[p] = d1[Len(r.digest) + p]
      BY <1>11, <1>13, <2>1
  <2>3. \A p \in 1 .. R : Len(r.digest) + p \in 1 .. Len(d1)
      BY <1>13, <1>14
  <2>4. \A p \in 1 .. R : block[p] \in PlainByte
      BY <1>8, <2>2, <2>3
  <2>5. block \in Seq(PlainByte)
      BY <2>1, <2>4, SequenceType
  <2> DEFINE n == Restore(s1)
  <2>6. r.inData
      BY <1>2
  <2>7. /\ n \in RestoreState /\ n.file = r.file /\ n.ok = r.ok
        /\ n.chunk = (IF r.chunk + R = M THEN 0 ELSE r.chunk + R)
        /\ (n.inData <=> r.chunk + R # M)
        /\ n.digest = r.digest \o block
        /\ n.out[r.file] = r.out[r.file] \o block
        /\ \A g \in 0 .. F : g # r.file => n.out[g] = r.out[g]
    <3>1. r \in RestoreState
        BY <1>2
    <3>2. LET x == RestoreBlock(r, block) IN
          /\ x \in RestoreState /\ x.file = r.file /\ x.ok = r.ok
          /\ x.chunk = (IF r.chunk + R = M THEN 0 ELSE r.chunk + R)
          /\ (x.inData <=> r.chunk + R # M)
          /\ x.digest = r.digest \o block
          /\ x.out[r.file] = r.out[r.file] \o block
          /\ \A g \in 0 .. F : g # r.file => x.out[g] = r.out[g]
        BY <2>1, <2>5, <2>6, <3>1, DataBlock
    <3> QED
        BY <2>1, <3>2
  <2> HIDE DEF n
  <2>8. r.chunk + R = c + 1 /\ Len(s1) % R = 0
      BY <1>9, <1>13, <1>14
  <2>9. c1 % R = 0
      BY <1>1, <1>4, <1>13
  <2>10. n.chunk = c1 /\ (n.inData <=> c1 # 0)
    <3>1. c1 = (IF r.chunk + R = M THEN 0 ELSE r.chunk + R) /\ (r.chunk + R # M <=> c1 # 0)
        BY <2>8
    <3> HIDE DEF c1
    <3> QED
        BY <2>7, <3>1
  <2>11. /\ Len(n.digest) = Len(r.digest) + R
         /\ \A p \in 1 .. Len(r.digest) : n.digest[p] = r.digest[p]
         /\ \A p \in 1 .. R : n.digest[Len(r.digest) + p] = block[p]
    <3>1. PICK x \in Seq(PlainByte) : x = r.digest
        BY <1>10
    <3>2. Len(x \o block) = Len(x) + Len(block) /\ \A p \in 1 .. Len(x) : (x \o block)[p] = x[p]
        BY <2>5
    <3>3. \A p \in 1 .. Len(block) : (x \o block)[Len(x) + p] = block[p]
        BY <2>5
    <3> QED
        BY <2>1, <2>7, <3>1, <3>2, <3>3
  <2>12. Len(d1) = Len(n.digest)
      BY <1>13, <1>14, <2>11
  <2>13. \A p \in 1 .. Len(n.digest) : n.digest[p] = d1[p]
    <3>1. ASSUME NEW p \in 1 .. Len(r.digest) PROVE n.digest[p] = d1[p]
      <4>1. p \in 1 .. Len(d)
          BY <1>2, <1>3, <1>10
      <4> QED
          BY <1>2, <1>8, <2>11, <4>1
    <3>2. ASSUME NEW p \in 1 .. Len(n.digest), p > Len(r.digest) PROVE n.digest[p] = d1[p]
      <4>1. PICK k \in 1 .. R : p = Len(r.digest) + k
        <5>1. p - Len(r.digest) \in 1 .. R /\ p = Len(r.digest) + (p - Len(r.digest))
            BY <1>1, <1>10, <2>11, <3>2
        <5> QED
            BY <5>1
      <4> QED
          BY <2>2, <2>11, <4>1
    <3> QED
        BY <1>10, <3>1, <3>2
  <2>14. OtherFiles(n.out, f)
    <3>1. \A g \in 1 .. F : g \in 0 .. F /\ (g < f \/ g > f => g # f)
        OBVIOUS
    <3> QED
        BY <1>2, <2>7, <3>1 DEF OtherFiles
  <2> HIDE DEF c1
  <2>15. \A p \in 1 .. 0 : s1[Len(s1) - 0 + p] = d1[Len(n.digest) + p]
      OBVIOUS
  <2>16. InStep(s1, d1, c1, f)
    <3>1. n.chunk = c1 - 0 /\ Len(d1) = Len(n.digest) + 0
      <4>1. c1 \in Nat /\ Len(n.digest) \in Nat
          BY <1>14, <2>11 DEF c1
      <4> QED
          BY <2>10, <2>12, <4>1
    <3>2. n.out[f] = n.digest /\ n.ok /\ n.file = f
        BY <1>2, <2>7
    <3> QED
        BY <2>7, <2>8, <2>9, <2>10, <2>13, <2>14, <2>15, <3>1, <3>2 DEF InStep, n
  <2> QED
      BY <2>16 DEF s1, d1, c1
<1> QED
    BY <1>1, <1>3, <1>12, <1>13

\* The first n bytes of e after s, and one more of them.
LEMMA PrefixGrows ==
    ASSUME NEW s, IsSequence(s), NEW S, NEW e \in Seq(S), NEW n \in Nat, n < Len(e)
    PROVE  /\ IsSequence(s \o SubSeq(e, 1, n))
           /\ s \o SubSeq(e, 1, n + 1) = (s \o SubSeq(e, 1, n)) \o << e[n + 1] >>
<1> DEFINE T == {s[p] : p \in 1 .. Len(s)} \cup S
<1>1. s \in Seq(T)
    BY SequenceType
<1>2. e \in Seq(T) /\ e[n + 1] \in T
  <2>1. \A p \in 1 .. Len(e) : e[p] \in T
      OBVIOUS
  <2>2. IsSequence(e)
      BY SequenceForm
  <2> HIDE DEF T
  <2> QED
      BY <2>1, <2>2, SequenceType
<1> HIDE DEF T
<1>3. SubSeq(e, 1, n) \in Seq(T) /\ SubSeq(e, 1, n + 1) \in Seq(T)
    BY <1>2, Taken
<1>4. SubSeq(e, 1, n + 1) = SubSeq(e, 1, n) \o << e[n + 1] >>
    BY <1>2
<1>5. << e[n + 1] >> \in Seq(T)
    BY <1>2
<1>6. s \o SubSeq(e, 1, n) \in Seq(T)
    BY <1>1, <1>3
<1>7. s \o (SubSeq(e, 1, n) \o << e[n + 1] >>) = (s \o SubSeq(e, 1, n)) \o << e[n + 1] >>
    BY <1>1, <1>3, <1>5
<1> QED
    BY <1>4, <1>6, <1>7, SequenceForm

\* Data that does not go past the end of the chunk.
LEMMA PlainRun ==
    ASSUME NEW s, IsSequence(s), NEW d \in Seq(PlainByte), NEW c \in 1 .. M - 1, NEW f \in 0 .. F,
           InStep(s, d, c, f), NEW e \in Seq(PlainByte), c + Len(e) <= M
    PROVE  /\ InStep(s \o e, d \o e, IF c + Len(e) = M THEN 0 ELSE c + Len(e), f)
           /\ d \o e \in Seq(PlainByte)
<1> DEFINE Q(n) == SubSeq(e, 1, n)
           S == {n \in Nat : n <= Len(e) =>
                   /\ InStep(s \o Q(n), d \o Q(n), IF c + n = M THEN 0 ELSE c + n, f)
                   /\ d \o Q(n) \in Seq(PlainByte)}
<1>1. M \in Nat /\ Len(e) \in Nat /\ IsSequence(d) /\ c \in Nat /\ c < M
    BY FilesType, SequenceForm
<1>2. 0 \in S
  <2>1. Q(0) = <<>>
      OBVIOUS
  <2>2. s \o <<>> = s /\ d \o <<>> = d
      BY <1>1, EmptyAdds
  <2>3. c + 0 = c /\ c # M
      BY <1>1
  <2> QED
      BY <2>1, <2>2, <2>3
<1>3. ASSUME NEW n \in Nat, n \in S PROVE n + 1 \in S
  <2> SUFFICES ASSUME n + 1 <= Len(e)
               PROVE  /\ InStep(s \o Q(n + 1), d \o Q(n + 1), IF c + (n + 1) = M THEN 0 ELSE c + (n + 1), f)
                      /\ d \o Q(n + 1) \in Seq(PlainByte)
      OBVIOUS
  <2>1. n < Len(e) /\ n <= Len(e) /\ c + n \in 1 .. M - 1 /\ c + n # M /\ (c + n) + 1 = c + (n + 1)
      BY <1>1
  <2>2. InStep(s \o Q(n), d \o Q(n), c + n, f) /\ d \o Q(n) \in Seq(PlainByte)
      BY <1>3, <2>1
  <2>3. /\ IsSequence(s \o Q(n)) /\ s \o Q(n + 1) = (s \o Q(n)) \o << e[n + 1] >>
        /\ d \o Q(n + 1) = (d \o Q(n)) \o << e[n + 1] >>
      BY <1>1, <2>1, PrefixGrows
  <2>4. e[n + 1] \in PlainByte /\ << e[n + 1] >> \in Seq(PlainByte)
      BY <2>1
  <2>5. PICK k \in 1 .. M - 1 : k = c + n
      BY <2>1
  <2> HIDE DEF Q
  <2>6. PICK x : x = s \o Q(n)
      OBVIOUS
  <2>9. PICK y \in Seq(PlainByte), b \in PlainByte : y = d \o Q(n) /\ b = e[n + 1]
      BY <2>2, <2>4
  <2>7. InStep(x \o <<b>>, y \o <<b>>, IF k + 1 = M THEN 0 ELSE k + 1, f)
      BY <2>2, <2>3, <2>5, <2>6, <2>9, PlainAppend
  <2>8. y \o <<b>> \in Seq(PlainByte)
      OBVIOUS
  <2> QED
      BY <2>1, <2>3, <2>5, <2>6, <2>7, <2>8, <2>9
<1> HIDE DEF S
<1>4. Len(e) \in S
    BY <1>1, <1>2, <1>3, Induction
<1>5. Q(Len(e)) = e
    OBVIOUS
<1> HIDE DEF Q
<1> QED
    BY <1>4, <1>5 DEF S

\* What a structure of R bytes is.
LEMMA StructBytes ==
    ASSUME NEW t, NEW f, NEW md5
    PROVE  /\ IsSequence(Struct(t, f, md5)) /\ Len(Struct(t, f, md5)) = R
           /\ \A p \in 1 .. R : Struct(t, f, md5)[p] = Byte(t, f, p, md5)
<1> DEFINE e == Struct(t, f, md5)
<1>1. R \in Nat
    BY FilesType
<1>2. e = [p \in 1 .. R |-> Byte(t, f, p, md5)]
    BY DEF Struct
<1> HIDE DEF e
<1>3. Len(e) = R /\ e = [p \in 1 .. R |-> e[p]] /\ \A p \in 1 .. R : e[p] = Byte(t, f, p, md5)
    BY <1>1, <1>2
<1> QED
    BY <1>1, <1>3 DEF IsSequence, e

\* What is to be shown of a restore that has no rest.
LEMMA StepAtBlock ==
    ASSUME NEW s, NEW d, NEW c \in Nat, NEW f \in 0 .. F, NEW n, n = Restore(s), Len(s) % R = 0, c % R = 0,
           n \in RestoreState, n.ok, n.file = f, n.chunk = c, n.inData <=> c # 0,
           d \in Seq(PlainByte), n.digest = d, n.out[f] = d,
           OtherFiles(n.out, f)
    PROVE  InStep(s, d, c, f)
<1>1. Len(d) \in Nat /\ c = c - 0 /\ Len(d) = Len(d) + 0
    OBVIOUS
<1>2. \A p \in 1 .. 0 : s[Len(s) - 0 + p] = d[Len(d) + p]
    OBVIOUS
<1> QED
    BY <1>1, <1>2 DEF InStep

\* A structure that comes when bu is not within a chunk.
LEMMA StructureAppend ==
    ASSUME NEW s, IsSequence(s), NEW d \in Seq(PlainByte), NEW f \in 0 .. F, InStep(s, d, 0, f),
           NEW t \in {"TWSTREAMHDR", "TWFN", "TWIMG", "TWDATA", "MD5TRAILER", "TWENDADB"}, NEW md5,
           NEW g \in 0 .. F,
           t = "MD5TRAILER" => md5 = d,
           t \in {"TWFN", "TWIMG"} => g = f + 1 /\ Pure(d, f) /\ Len(d) >= Size(f)
    PROVE  LET s1 == s \o Struct(t, g, md5) IN
           /\ IsSequence(s1)
           /\ InStep(s1, IF t \in {"TWFN", "TWIMG"} THEN <<>> ELSE d, IF t = "TWDATA" THEN R ELSE 0,
                     IF t \in {"TWFN", "TWIMG"} THEN g ELSE f)
           /\ t = "TWENDADB" => Restore(s1).end
<1> DEFINE r == Restore(s)
           s1 == s \o Struct(t, g, md5)
           n == Restore(s1)
<1>1. R \in Nat \ {0} /\ 0 % R = 0 /\ R % R = 0 /\ Len(s) \in Nat
    BY FilesType DEF IsSequence
<1>2. /\ r \in RestoreState /\ r.ok /\ r.file = f
      /\ Len(s) % R = 0 /\ r.chunk = 0 - 0 /\ (r.inData <=> 0 # 0)
      /\ Len(d) = Len(r.digest) + 0
      /\ \A p \in 1 .. Len(r.digest) : r.digest[p] = d[p]
      /\ r.out[f] = r.digest
      /\ OtherFiles(r.out, f)
    BY <1>1 DEF InStep
<1>3. /\ r.chunk = 0 /\ ~r.inData /\ r.digest \in Seq(PlainByte) /\ Len(d) = Len(r.digest)
  <2>1. r.digest \in Seq(PlainByte) /\ Len(r.digest) \in Nat
      BY <1>2, RestoreType
  <2> HIDE DEF r
  <2> QED
      BY <1>2, <2>1
<1>4. r.digest = d
  <2>1. IsSequence(r.digest) /\ IsSequence(d)
      BY <1>3, SequenceForm
  <2> HIDE DEF r
  <2> QED
      BY <1>2, <1>3, <2>1, SequencesEqual
<1>5. PICK e : e = Struct(t, g, md5)
    OBVIOUS
<1>6. IsSequence(e) /\ Len(e) = R /\ \A p \in 1 .. R : e[p] = Byte(t, g, p, md5)
    BY <1>5, StructBytes
<1>7. /\ IsSequence(s1) /\ \A p \in 1 .. R : s1[Len(s) + p] = e[p]
    BY <1>5, <1>6, Concatenation
<1>8. PICK block : /\ n = RestoreBlock(r, block) /\ Len(s1) % R = 0
                   /\ \A p \in 1 .. R : block[p] = s1[Len(s) - 0 + p]
  <2>1. (Len(s) % R) + Len(e) = R =>
             /\ Len(s \o e) % R = 0
             /\ \E block : /\ Restore(s \o e) = RestoreBlock(Restore(s), block)
                           /\ IsSequence(block) /\ Len(block) = R
                           /\ \A p \in 1 .. R : block[p] = (s \o e)[Len(s) - (Len(s) % R) + p]
      BY <1>6, RestoreGrows
  <2>2. Len(s) % R = 0 /\ (Len(s) % R) + Len(e) = R /\ s1 = s \o e
      BY <1>1, <1>2, <1>5, <1>6
  <2> HIDE DEF s1
  <2> QED
      BY <2>1, <2>2
<1>9. \A p \in 1 .. R : block[p] = Byte(t, g, p, md5)
  <2>1. Len(s) - 0 = Len(s)
      BY <1>1
  <2> HIDE DEF s1
  <2> QED
      BY <1>6, <1>7, <1>8, <2>1
<1> HIDE DEF r, s1, n
<1>10. StructureRead(r, RestoreBlock(r, block), t, g, md5)
  <2>1. r \in RestoreState
      BY <1>2
  <2> QED
      BY <1>3, <1>9, <2>1, StructureBlock
<1>11. /\ n \in RestoreState /\ n.out = r.out /\ n.ok
       /\ n.chunk = (IF t = "TWDATA" THEN R ELSE 0) /\ (n.inData <=> t = "TWDATA")
       /\ n.file = (IF t \in {"TWFN", "TWIMG"} THEN g ELSE f)
       /\ n.digest = (IF t \in {"TWFN", "TWIMG"} THEN <<>> ELSE d)
       /\ (t = "TWENDADB" => n.end)
  <2>1. 0 + R = R
      BY <1>1
  <2> QED
      BY <1>2, <1>3, <1>4, <1>8, <1>10, <2>1 DEF StructureRead
<1> DEFINE d1 == IF t \in {"TWFN", "TWIMG"} THEN <<>> ELSE d
           c1 == IF t = "TWDATA" THEN R ELSE 0
           f1 == IF t \in {"TWFN", "TWIMG"} THEN g ELSE f
<1>12. n.out[f1] = d1 /\ OtherFiles(n.out, f1)
  <2>1. CASE t \in {"TWFN", "TWIMG"}
    <3>1. f1 = f + 1 /\ d1 = <<>> /\ g \in 1 .. F /\ g > f /\ g = f1
        BY <2>1
    <3>2. \A h \in 1 .. F : (h < f1 => h < f \/ h = f) /\ (h > f1 => h > f)
        BY <3>1
    <3> HIDE DEF f1, d1
    <3> QED
        BY <1>2, <1>4, <1>11, <2>1, <3>1, <3>2 DEF OtherFiles
  <2>2. CASE t \notin {"TWFN", "TWIMG"}
      BY <1>2, <1>4, <1>11, <2>2
  <2> QED
      BY <2>1, <2>2
<1>13. c1 % R = 0 /\ (n.inData <=> c1 # 0) /\ n.chunk = c1 - 0 /\ n.file = f1 /\ n.digest = d1
       /\ Len(d1) = Len(n.digest) + 0 /\ f1 \in 0 .. F /\ c1 \in Nat /\ Len(d1) \in Nat
  <2>1. c1 \in Nat /\ c1 % R = 0 /\ (c1 # 0 <=> t = "TWDATA")
      BY <1>1
  <2>2. d1 \in Seq(PlainByte)
      OBVIOUS
  <2>3. n.digest = d1 /\ n.chunk = c1 /\ n.file = f1
      BY <1>11
  <2>5. f1 \in 0 .. F
      OBVIOUS
  <2> HIDE DEF c1, d1, f1
  <2>4. Len(d1) \in Nat
      BY <2>2
  <2> QED
      BY <1>11, <2>1, <2>3, <2>4, <2>5
<1> HIDE DEF d1, c1, f1
<1>14. InStep(s1, d1, c1, f1)
  <2>1. n = Restore(s1) /\ Len(s1) % R = 0
      BY <1>8 DEF n
  <2>2. c1 \in Nat /\ f1 \in 0 .. F /\ n.chunk = c1 /\ n.out[f1] = d1
      BY <1>12, <1>13
  <2>3. d1 \in Seq(PlainByte)
      BY DEF d1
  <2> QED
      BY <1>11, <1>12, <1>13, <2>1, <2>2, <2>3, StepAtBlock
<1> QED
    BY <1>7, <1>11, <1>14 DEF s1, d1, c1, f1, n

-----------------------------------------------------------------------------
(* Commands and files *)

LEMMA SizeType ==
    /\ \A f \in 0 .. F : Size(f) \in Nat /\ (f # 0 => Size(f) > 0 /\ Size(f) = Files[f].size)
    /\ Size(0) = 0
<1> DEFINE Entry == [kind : {"TWFN", "TWIMG"}, compressed : BOOLEAN, size : Nat \ {0}]
<1>1. Files \in Seq(Entry)
    BY FilesAssumption, Zenon
<1> HIDE DEF Entry
<1>2. \A f \in 1 .. F : Files[f] \in Entry
    BY <1>1 DEF F
<1>3. \A f \in 1 .. F : Files[f].size \in Nat /\ Files[f].size > 0
    BY <1>2 DEF Entry
<1> QED
    BY <1>3, FilesType DEF Size

\* TWRP's side.
LEMMA WriterStep ==
    ASSUME BackupInv, WriterInv, Next
    PROVE  WriterInv'
<1> USE FilesType, SizeType
<1>1. CASE \E n \in 1 .. R : WriteData(n)
  <2>1. PICK n \in 1 .. R : WriteData(n)
      BY <1>1
  <2>2. /\ tpc = "write" /\ UNCHANGED <<tpc, file, writer>> /\ written' = written + n
        /\ written + n <= Files[file].size /\ file \in 1 .. F
      BY <2>1 DEF WriteData, BackupInv, ControlInv, FileInv
  <2> QED
      BY <2>2 DEF WriterInv, Size
<1>2. CASE OpenData
  <2>1. tpc' = "write" /\ writer' = TRUE /\ written' = 0 /\ file' = file /\ file \in 1 .. F
      BY <1>2 DEF OpenData, BackupInv, ControlInv, FileInv
  <2> QED
      BY <2>1 DEF WriterInv, Size
<1>3. CASE CloseData
  <2>1. tpc' = "eof" /\ written' = written /\ file' = file /\ file \in 1 .. F /\ written = Files[file].size
      BY <1>3 DEF CloseData, BackupInv, ControlInv, FileInv
  <2> QED
      BY <2>1 DEF WriterInv, Size
<1>4. CASE WriteTWEOF
  <2>1. tpc = "eof" /\ tpc' = "release" /\ written' = written /\ file' = file
      BY <1>4 DEF WriteTWEOF
  <2> QED
      BY <2>1 DEF WriterInv, Size
<1>5. CASE WriteStreamTrailer
  <2>1. tpc' = "done" /\ file' = file /\ file = F + 1
      BY <1>5 DEF WriteStreamTrailer
  <2> QED
      BY <2>1 DEF WriterInv
<1>6. CASE WriteStreamHeader \/ WriteFileHeader \/ Release \/ BackupFails \/ WriteOperation
  <2>1. tpc' \in {"file", "failed", "open", "start"}
      BY <1>6 DEF WriteStreamHeader, WriteFileHeader, Release, BackupFails, WriteOperation
  <2> QED
      BY <2>1 DEF WriterInv
<1>7. CASE Ended \/ (BuStep /\ ~WriteOperation)
  <2>1. UNCHANGED <<tpc, file, written, writer>>
      BY <1>7 DEF Ended, BuStep, OpenFifos, NoCommand, ReceiveStreamHeader, ReceiveFileHeader, ReceiveTWEOF,
         ReceiveEnd, ReceiveError, Drain, DrainNothing, WriteTrailer, NoData, ReadData, ReadExtra, ExtraEnds,
         vars, fifos, twrp
  <2> QED
      BY <2>1 DEF WriterInv, Size
<1> QED
    BY <1>1, <1>2, <1>3, <1>4, <1>5, <1>6, <1>7 DEF Next, TwrpStep, BuStep

\* The steps of bu that answer no command, and TWRP's that send none.
Quiet == UNCHANGED control /\ bpc' # "finished" /\ Received' = Received

LEMMA QuietSteps ==
    ASSUME BackupInv,
           \/ OpenData \/ CloseData \/ (\E n \in 1 .. R : WriteData(n)) \/ Release \/ BackupFails
           \/ WriteOperation \/ OpenFifos \/ NoCommand \/ NoData \/ ExtraEnds
           \/ Drain \/ DrainNothing \/ ReadData \/ ReadExtra \/ WriteTrailer,
           bpc # "finished"
    PROVE  Quiet
<1> USE FilesType
<1>1. CASE OpenData \/ CloseData \/ (\E n \in 1 .. R : WriteData(n)) \/ Release \/ BackupFails
  <2>1. UNCHANGED <<control, stream, bpc>>
      BY <1>1 DEF OpenData, CloseData, WriteData, Release, BackupFails, bu
  <2> QED
      BY <2>1 DEF Received, Quiet
<1>2. CASE WriteOperation \/ OpenFifos \/ NoCommand \/ NoData \/ ExtraEnds
  <2>1. UNCHANGED <<control, stream>> /\ bpc # "drain" /\ bpc' \notin {"drain", "finished"}
      BY <1>2 DEF WriteOperation, OpenFifos, NoCommand, NoData, ExtraEnds, fifos
  <2> QED
      BY <2>1 DEF Received, Quiet
<1>3. data \in Seq(DataByte) /\ Len(data) \in Nat
    BY DEF BackupInv, DataInv
<1>4. ASSUME NEW e, IsSequence(e), Marks(e) = {}, stream' = stream \o e, UNCHANGED control,
             bpc' = "drain" <=> bpc = "drain", bpc' # "finished"
      PROVE  Quiet
    BY <1>4, NoMark DEF BackupInv, Received, Quiet
<1>5. CASE Drain
  <2>1. data # <<>> /\ UNCHANGED <<control, bpc>> /\ stream' = Append(stream, Head(data))
      BY <1>5 DEF Drain, DrainByte
  <2>2. Head(data) \in DataByte
      BY <1>3, <2>1
  <2>3. << Head(data) >> \in Seq(DataByte)
      BY <2>2
  <2>4. stream' = stream \o << Head(data) >>
      BY <2>1, AppendIsConcatenation DEF BackupInv
  <2> QED
      BY <1>4, <2>1, <2>3, <2>4, DataPlain
<1>6. CASE DrainNothing
  <2>1. UNCHANGED <<control, bpc>> /\ stream' = Append(stream, Zero)
      BY <1>6 DEF DrainNothing, DrainByte, fifos
  <2>2. IsSequence(<<Zero>>) /\ Marks(<<Zero>>) = {}
    <3>1. Len(<<Zero>>) = 1 /\ <<Zero>> = [p \in 1 .. 1 |-> <<Zero>>[p]] /\ \A p \in 1 .. 1 : <<Zero>>[p].t = "zero"
        BY DEF Zero, Byte
    <3> QED
        BY <3>1 DEF IsSequence, Marks
  <2>3. stream' = stream \o <<Zero>>
      BY <2>1, AppendIsConcatenation DEF BackupInv
  <2> QED
      BY <1>4, <2>1, <2>2, <2>3
<1>7. ASSUME NEW n \in 0 .. Len(data), NEW header, IsSequence(header), Marks(header) = {}, TakeData(n, header),
             UNCHANGED control, bpc \in {"data", "extra"}, bpc' \in {"data", "extra"}
      PROVE  Quiet
  <2> DEFINE bytes == SubSeq(data, 1, n)
  <2>1. stream' = stream \o header \o bytes
      BY <1>7 DEF TakeData
  <2>2. IsSequence(bytes) /\ Marks(bytes) = {}
      BY <1>3, Taken, DataPlain
  <2> HIDE DEF bytes
  <2>3. IsSequence(stream \o header) /\ Formatted(stream \o header) /\ Count(stream \o header) = Count(stream)
      BY <1>7, NoMark DEF BackupInv
  <2>4. Count(stream') = Count(stream)
      BY <2>1, <2>2, <2>3, NoMark
  <2> QED
      BY <1>7, <2>4 DEF Received, Quiet
<1>8. IsSequence(<<>>) /\ Marks(<<>>) = {}
  <2>1. <<>> \in Seq(DataByte)
      OBVIOUS
  <2> QED
      BY <2>1, DataPlain
<1>9. CASE ReadData
  <2> DEFINE n == IF Len(data) < R THEN Len(data) ELSE R
             header == IF firstDataPacket THEN Struct("TWDATA", 0, <<>>) ELSE <<>>
  <2>1. TakeData(n, header) /\ UNCHANGED control /\ bpc = "data" /\ bpc' \in {"data", "extra"}
      BY <1>9 DEF ReadData
  <2>2. n \in 0 .. Len(data) /\ IsSequence(header) /\ Marks(header) = {}
      BY <1>3, <1>8, HeaderPlain
  <2> HIDE DEF n, header
  <2> QED
      BY <1>7, <2>1, <2>2
<1>10. CASE ReadExtra
  <2> DEFINE left == M - dataChunkBytes
             n == IF Len(data) < left THEN Len(data) ELSE left
  <2>1. TakeData(n, <<>>) /\ UNCHANGED control /\ bpc = "extra" /\ bpc' \in {"data", "extra"}
      BY <1>10 DEF ReadExtra
  <2>2. n \in 0 .. Len(data)
      BY <1>3, <2>1 DEF BackupInv, ChunkInv
  <2> HIDE DEF n
  <2> QED
      BY <1>7, <1>8, <2>1, <2>2
<1>11. CASE WriteTrailer
  <2> DEFINE padded == stream \o Padding
             md5 == digest \o Padding
  <2>1. /\ bpc = "drain" /\ bpc' = "data" /\ UNCHANGED control
        /\ stream' = padded \o Struct("MD5TRAILER", 0, md5)
      BY <1>11 DEF WriteTrailer, fifos
  <2>2. IsSequence(Padding) /\ Marks(Padding) = {}
      BY PaddingPlain DEF BackupInv, ChunkInv
  <2>3. IsSequence(padded) /\ Formatted(padded) /\ Count(padded) = Count(stream) /\ Count(stream) \in Nat
      BY <2>2, NoMark, MarksFinite DEF BackupInv
  <2> HIDE DEF padded, md5
  <2>4. Received = Count(stream) + 1 /\ Received > 1 /\ Received < 2 * F + 2 /\ Received % 2 = 1
      BY <2>1 DEF Received, BackupInv, QueueInv
  <2>5. "MD5TRAILER" = Expected(Count(padded) + 1) /\ Count(padded) < 2 * F + 2
      BY <2>3, <2>4 DEF Expected
  <2>6. Count(stream') = Count(stream) + 1
      BY <2>1, <2>3, <2>5, OneMark
  <2> QED
      BY <2>1, <2>3, <2>4, <2>6 DEF Received, Quiet
<1> QED
    BY <1>1, <1>2, <1>5, <1>6, <1>9, <1>10, <1>11

\* What a structure of the format adds to the commands taken.
LEMMA AnswerCounts ==
    ASSUME BackupInv, NEW type, NEW f, NEW md5, Receive(type),
           type \in {"TWSTREAMHDR", "TWFN", "TWIMG", "TWENDADB"},
           stream' = stream \o Struct(type, f, md5), bpc' # "drain"
    PROVE  Received' = Received + 1
<1>1. Received = Count(stream) /\ Count(stream) \in Nat /\ Received + 1 \in 1 .. 2 * F + 2 /\ type = Command(Received + 1)
    BY ReceiveStep
<1>2. type = Expected(Count(stream) + 1) /\ Count(stream) < 2 * F + 2
    BY <1>1, CommandFormat, FilesType
<1>3. Count(stream') = Count(stream) + 1
    BY <1>2, OneMark DEF BackupInv
<1> QED
    BY <1>1, <1>3 DEF Received

\* Where the commands are in a backup.
LEMMA CommandPlace ==
    ASSUME NEW k \in 1 .. 2 * F + 2
    PROVE  /\ Command(k) = "TWSTREAMHDR" => k = 1
           /\ Command(k) = "TWENDADB" => k = 2 * F + 2
           /\ Command(k) \in {"TWFN", "TWIMG"} => k % 2 = 0 /\ k # 2 * F + 2
           /\ Command(k) = "TWEOF" => k % 2 = 1 /\ k # 1
<1>1. CASE k = 1 \/ k = 2 * F + 2
    BY <1>1, FilesType DEF Command
<1>2. CASE k > 1 /\ k < 2 * F + 2 /\ k % 2 = 0
  <2>1. k \div 2 \in 1 .. F
      BY <1>2, FilesType
  <2>2. Files[k \div 2].kind \in {"TWFN", "TWIMG"}
      BY <2>1, FilesType
  <2> QED
      BY <1>2, <2>2 DEF Command
<1>3. CASE k > 1 /\ k < 2 * F + 2 /\ k % 2 = 1
    BY <1>3, FilesType DEF Command
<1> QED
    BY <1>1, <1>2, <1>3, FilesType

\* An error is only reported by a backup that has failed.
LEMMA ErrorMeansFailed ==
    ASSUME BackupInv, ReceiveError
    PROVE  Refused /\ Received \in Nat /\ Received' = Received /\ Len(control) = 1 /\ control' = <<>>
<1> USE FilesType
<1>1. Receive("TWERROR") /\ bpc = "control" /\ bpc' = "error" /\ stream' = stream
    BY DEF ReceiveError, Receive
<1>2. Count(stream) \in Nat
    BY MarksFinite DEF BackupInv
<1>3. Received = Count(stream) /\ Received' = Received
    BY <1>1, <1>2 DEF Received
<1>4. control # <<>> /\ Len(control) \in Nat /\ Len(control) >= 1 /\ control[1].type = "TWERROR"
    BY <1>1 DEF Receive, BackupInv, ControlInv
<1>5. Received + Len(control) <= 2 * F + 2
    BY DEF BackupInv, QueueInv
<1>6. Received + 1 \in 1 .. 2 * F + 2
    BY <1>2, <1>3, <1>4, <1>5
<1>7. control[1].type # Command(Received + 1)
    BY <1>4, <1>6, CommandFormat
<1>8. Refused
    BY <1>4, <1>7 DEF BackupInv, QueueInv
<1> QED
    BY <1>1, <1>2, <1>3, <1>8 DEF Refused, Receive

\* The file bu is at.
LEMMA PhaseStep ==
    ASSUME BackupInv, WriterInv, PhaseInv, Next
    PROVE  PhaseInv'
<1> USE FilesType
<1>1. /\ Count(stream) \in Nat /\ Received \in Nat /\ Len(control) \in Nat /\ file \in 1 .. F + 1
      /\ current \in 0 .. F
    BY MarksFinite DEF BackupInv, Received, ControlInv, PhaseInv
\* Nothing is sent or taken.
<1>2. ASSUME Quiet, current' = current, tpc' = tpc \/ tpc' # "failed" \/ Received + Len(control) <= 2 * F + 1,
             bpc # "finished"
      PROVE  PhaseInv'
  <2>1. control' = control /\ bpc' # "finished" /\ Received' = Received
      BY <1>2 DEF Quiet
  <2> QED
      BY <1>2, <2>1 DEF PhaseInv
<1>3. CASE Ended
  <2>1. UNCHANGED <<stream, bpc, control, current, tpc>>
      BY <1>3 DEF Ended, vars, fifos, twrp, bu, hist
  <2>2. Received' = Received
      BY <2>1 DEF Received
  <2> QED
      BY <2>1, <2>2 DEF PhaseInv
\* TWRP goes on while bu has not finished: it has not been told to yet.
<1>4. ASSUME TwrpStep \/ BackupFails PROVE tpc \notin {"failed", "done"} /\ Received + Len(control) <= 2 * F + 1
  <2>1. tpc \in {"start", "file", "open", "write", "eof", "release"}
      BY <1>4 DEF TwrpStep, BackupFails, WriteStreamHeader, WriteFileHeader, OpenData, WriteData, CloseData,
         WriteTWEOF, Release, WriteStreamTrailer
  <2>2. Received + Len(control) = Sent
      BY <2>1 DEF BackupInv, QueueInv
  <2>3. Sent <= 2 * F + 1
      BY <1>1, <2>1 DEF Sent, BackupInv, FileInv
  <2> QED
      BY <2>1, <2>2, <2>3
<1>5. ASSUME TwrpStep \/ BackupFails \/ (BuStep /\ ~Ended) PROVE bpc # "finished"
  <2>1. CASE TwrpStep \/ BackupFails
    <3>1. Received <= 2 * F + 1
        BY <1>1, <1>4, <2>1
    <3> QED
        BY <1>1, <3>1 DEF PhaseInv
  <2>2. CASE BuStep
      BY <2>2 DEF BuStep, WriteOperation, OpenFifos, NoCommand, ReceiveStreamHeader, ReceiveFileHeader,
         ReceiveTWEOF, ReceiveEnd, ReceiveError, Receive, Drain, DrainNothing, WriteTrailer, NoData, ReadData,
         ReadExtra, ExtraEnds
  <2> QED
      BY <1>5, <2>1, <2>2
<1>6. CASE \/ OpenData \/ CloseData \/ (\E n \in 1 .. R : WriteData(n)) \/ Release \/ BackupFails
           \/ WriteOperation \/ OpenFifos \/ NoCommand \/ NoData \/ ExtraEnds
           \/ Drain \/ DrainNothing \/ ReadData \/ ReadExtra \/ WriteTrailer
  <2>1. bpc # "finished"
      BY <1>5, <1>6 DEF TwrpStep, Drain, DrainNothing, ReadData, ReadExtra, WriteTrailer, WriteOperation,
         OpenFifos, NoCommand, NoData, ExtraEnds
  <2>2. Quiet
      BY <1>6, <2>1, QuietSteps
  <2>3. current' = current
      BY <1>6 DEF OpenData, CloseData, WriteData, Release, BackupFails, WriteOperation, OpenFifos, NoCommand,
         NoData, ExtraEnds, Drain, DrainNothing, ReadData, ReadExtra, WriteTrailer, hist
  <2>4. tpc' = tpc \/ tpc' # "failed" \/ Received + Len(control) <= 2 * F + 1
    <3>1. CASE BackupFails
        BY <1>4, <3>1
    <3>2. CASE ~BackupFails
        BY <1>6, <3>2 DEF OpenData, CloseData, WriteData, Release, WriteOperation, OpenFifos, NoCommand,
           NoData, ExtraEnds, Drain, DrainNothing, ReadData, ReadExtra, WriteTrailer, twrp
    <3> QED
        BY <3>1, <3>2
  <2> QED
      BY <1>2, <2>1, <2>2, <2>3, <2>4
<1>7. CASE WriteStreamHeader \/ WriteFileHeader \/ WriteTWEOF \/ WriteStreamTrailer
  <2>1. /\ UNCHANGED <<stream, bpc, current>> /\ bpc # "finished" /\ tpc # "failed"
        /\ Received + Len(control) <= 2 * F + 1
    <3>1. UNCHANGED <<stream, bpc, current>>
        BY <1>7 DEF WriteStreamHeader, WriteFileHeader, WriteTWEOF, WriteStreamTrailer, bu, hist
    <3>2. TwrpStep
        BY <1>7 DEF TwrpStep
    <3> QED
        BY <1>4, <1>5, <3>1, <3>2
  <2>2. Received' = Received
      BY <2>1 DEF Received
  <2>3. PICK c : /\ control' = Append(control, c)
                 /\ c.type \in {"TWFN", "TWIMG"} => 2 * c.file = Received + Len(control) + 1
    <3>1. CASE WriteFileHeader
      <4>1. /\ control' = Append(control, [type |-> Files[file].kind, file |-> file]) /\ tpc = "file"
          BY <3>1 DEF WriteFileHeader, Send
      <4>2. Received + Len(control) = 2 * file - 1
          BY <4>1 DEF BackupInv, QueueInv, Sent
      <4>3. 2 * file = Received + Len(control) + 1
          BY <1>1, <4>2
      <4> QED
          BY <4>1, <4>3
    <3>2. CASE ~WriteFileHeader
      <4>1. PICK type \in {"TWSTREAMHDR", "TWERROR", "TWEOF", "TWENDADB"}, f \in {0, file} : Send(type, f)
          BY <1>7, <3>2 DEF WriteStreamHeader, WriteTWEOF, WriteStreamTrailer
      <4> QED
          BY <4>1 DEF Send
    <3> QED
        BY <3>1, <3>2
  <2>4. /\ Len(control') = Len(control) + 1 /\ control'[Len(control) + 1] = c
        /\ \A k \in 1 .. Len(control) : control'[k] = control[k]
    <3>1. IsSequence(control)
        BY SequenceForm DEF BackupInv, ControlInv
    <3>2. IsSequence(<<c>>) /\ Len(<<c>>) = 1 /\ <<c>>[1] = c
      <4>1. <<c>> \in Seq({c})
          OBVIOUS
      <4> QED
          BY <4>1, SequenceForm
    <3>3. control' = control \o <<c>>
        BY <2>3, <3>1, AppendIsConcatenation
    <3> QED
        BY <3>1, <3>2, <3>3, Concatenation
  <2>5. \A k \in 1 .. Len(control') : control'[k].type \in {"TWFN", "TWIMG"} => 2 * control'[k].file = Received + k
    <3>1. \A k \in 1 .. Len(control') : k \in 1 .. Len(control) \/ k = Len(control) + 1
        BY <1>1, <2>4
    <3>2. Received + (Len(control) + 1) = Received + Len(control) + 1
        BY <1>1
    <3> QED
        BY <2>3, <2>4, <3>1, <3>2 DEF PhaseInv
  <2>6. tpc' = "failed" => Received + Len(control') <= 2 * F + 1
    <3>1. SUFFICES ASSUME tpc' = "failed" PROVE Received + Len(control) = 0
        BY <1>1, <2>4
    <3>2. tpc = "start"
        BY <1>7, <3>1 DEF WriteStreamHeader, WriteFileHeader, WriteTWEOF, WriteStreamTrailer
    <3> QED
        BY <3>2 DEF BackupInv, QueueInv, Sent
  <2> QED
      BY <2>1, <2>2, <2>5, <2>6 DEF PhaseInv
<1>8. ASSUME NEW type, Receive(type), type # "TWERROR", Received' = Received + 1, UNCHANGED tpc,
             current' \in 0 .. F,
             IF bpc' = "finished" THEN Received' = 2 * F + 2 /\ current' = F
             ELSE Received' = 2 * current' \/ Received' = 2 * current' + 1
      PROVE  PhaseInv'
  <2>1. /\ control # <<>> /\ control' = Tail(control)
      BY <1>8 DEF Receive
  <2>2. /\ Len(control') = Len(control) - 1 /\ Len(control) >= 1
        /\ \A k \in 1 .. Len(control') : control'[k] = control[k + 1]
      BY <2>1 DEF BackupInv, ControlInv
  <2>3. ASSUME NEW k \in 1 .. Len(control'), control'[k].type \in {"TWFN", "TWIMG"}
        PROVE  2 * control'[k].file = Received' + k
    <3>1. k + 1 \in 1 .. Len(control) /\ Received' + k = Received + (k + 1)
        BY <1>1, <1>8, <2>2
    <3> QED
        BY <2>2, <2>3, <3>1 DEF PhaseInv
  <2>4. Received' + Len(control') = Received + Len(control)
      BY <1>1, <1>8, <2>2
  <2> QED
      BY <1>8, <2>3, <2>4 DEF PhaseInv
<1>9. ASSUME NEW type, Receive(type), type # "TWERROR"
      PROVE  /\ Received + 1 \in 1 .. 2 * F + 2 /\ type = Command(Received + 1) /\ bpc # "finished"
             /\ Received = 2 * current \/ Received = 2 * current + 1
    BY <1>9, ReceiveStep DEF Receive, PhaseInv
<1>10. CASE ReceiveStreamHeader
  <2>1. /\ Receive("TWSTREAMHDR") /\ UNCHANGED <<tpc, current>> /\ bpc' = "data"
        /\ stream' = stream \o Struct("TWSTREAMHDR", 0, <<>>)
      BY <1>10 DEF ReceiveStreamHeader, twrp, hist
  <2>2. Received' = Received + 1
      BY <2>1, AnswerCounts
  <2>3. Received + 1 = 1
      BY <1>9, <2>1, CommandPlace
  <2>4. Received' = 2 * current + 1
      BY <1>1, <1>9, <2>1, <2>2, <2>3
  <2> QED
      BY <1>1, <1>8, <2>1, <2>2, <2>4
<1>11. CASE \E kind \in {"TWFN", "TWIMG"} : ReceiveFileHeader(kind)
  <2>1. PICK kind \in {"TWFN", "TWIMG"} : ReceiveFileHeader(kind)
      BY <1>11
  <2>2. /\ Receive(kind) /\ UNCHANGED tpc /\ current' = Head(control).file /\ bpc' = "data"
        /\ stream' = stream \o Struct(kind, Head(control).file, <<>>)
      BY <2>1 DEF ReceiveFileHeader, twrp
  <2>3. Received' = Received + 1
      BY <2>2, AnswerCounts
  <2>4. Head(control) = control[1] /\ 1 \in 1 .. Len(control) /\ control[1].type = kind /\ control[1].file \in 0 .. F
    <3>1. control # <<>> /\ Head(control).type = kind
        BY <2>2 DEF Receive
    <3> DEFINE Commands == [type : {"TWSTREAMHDR", "TWFN", "TWIMG", "TWEOF", "TWENDADB", "TWERROR"},
                            file : 0 .. F]
    <3>2. control \in Seq(Commands)
        BY DEF BackupInv, ControlInv
    <3> HIDE DEF Commands
    <3>3. Head(control) = control[1] /\ 1 \in 1 .. Len(control) /\ control[1] \in Commands
        BY <3>1, <3>2
    <3> QED
        BY <3>1, <3>3 DEF Commands
  <2>5. 2 * current' = Received + 1 /\ current' \in 0 .. F
      BY <2>2, <2>4 DEF PhaseInv
  <2> QED
      BY <1>8, <2>2, <2>3, <2>5
<1>12. CASE ReceiveTWEOF
  <2>1. Receive("TWEOF") /\ bpc = "control" /\ bpc' = "drain" /\ UNCHANGED <<tpc, stream, current>>
      BY <1>12 DEF ReceiveTWEOF, Receive, twrp, hist
  <2>2. Received' = Received + 1
      BY <1>1, <2>1 DEF Received
  <2>3. (Received + 1) % 2 = 1
      BY <1>9, <2>1, CommandPlace
  <2>4. Received' = 2 * current + 1
    <3>1. Received = 2 * current \/ Received = 2 * current + 1
        BY <1>9, <2>1
    <3>2. Received # 2 * current + 1
        BY <1>1, <2>3
    <3> QED
        BY <2>2, <3>1, <3>2
  <2> QED
      BY <1>1, <1>8, <2>1, <2>2, <2>4
<1>13. CASE ReceiveEnd
  <2>1. /\ Receive("TWENDADB") /\ UNCHANGED <<tpc, current>> /\ bpc' = "finished"
        /\ stream' = stream \o Struct("TWENDADB", 0, <<>>)
      BY <1>13 DEF ReceiveEnd, twrp, hist
  <2>2. Received' = Received + 1
      BY <2>1, AnswerCounts
  <2>3. Received + 1 = 2 * F + 2
      BY <1>9, <2>1, CommandPlace
  <2>4. Received' = 2 * F + 2 /\ current = F
    <3>1. Received = 2 * current \/ Received = 2 * current + 1
        BY <1>9, <2>1
    <3> QED
        BY <1>1, <2>2, <2>3, <3>1
  <2> QED
      BY <1>1, <1>8, <2>1, <2>2, <2>4
<1>14. CASE ReceiveError
  <2>1. Received' = Received /\ Len(control) = 1 /\ control' = <<>> /\ Refused
      BY <1>14, ErrorMeansFailed
  <2>2. UNCHANGED <<tpc, current>> /\ bpc = "control" /\ bpc' = "error"
      BY <1>14 DEF ReceiveError, Receive, twrp, hist
  <2>3. Received <= 2 * F + 1 /\ Len(control') = 0
      BY <1>1, <2>1 DEF PhaseInv, Refused
  <2> QED
      BY <1>1, <2>1, <2>2, <2>3 DEF PhaseInv
<1> QED
    BY <1>3, <1>6, <1>7, <1>10, <1>11, <1>12, <1>13, <1>14 DEF Next, TwrpStep, BuStep

-----------------------------------------------------------------------------
(* The data FIFO *)

LEMMA FifoSame ==
    ASSUME FifoInv, data' = data, ReadFile' = ReadFile, ReadCount' = ReadCount,
           WrittenFile' = WrittenFile, WrittenCount' = WrittenCount
    PROVE  FifoInv'
    BY DEF FifoInv

\* What TWRP has written does not change when it goes on to the next file.
LEMMA WrittenSame ==
    ASSUME BackupInv, WriterInv,
           \/ WriteStreamHeader \/ WriteFileHeader \/ OpenData \/ CloseData \/ WriteTWEOF \/ Release
           \/ WriteStreamTrailer \/ WriteOperation \/ UNCHANGED twrp
    PROVE  WrittenFile' = WrittenFile /\ WrittenCount' = WrittenCount
<1> USE SizeType
<1>1. CASE WriteStreamHeader \/ WriteFileHeader \/ OpenData \/ WriteStreamTrailer \/ WriteOperation
  <2>1. ~AtFile /\ ~AtFile' /\ file' = file
    <3>1. CASE WriteStreamHeader \/ WriteFileHeader \/ WriteStreamTrailer
        BY <3>1 DEF WriteStreamHeader, WriteFileHeader, WriteStreamTrailer, AtFile
    <3>2. CASE OpenData
        BY <3>2 DEF OpenData, AtFile
    <3>3. CASE WriteOperation
        BY <3>3 DEF WriteOperation, AtFile, BackupInv, FileInv
    <3> QED
        BY <1>1, <3>1, <3>2, <3>3
  <2> QED
      BY <2>1 DEF WrittenFile, WrittenCount, Size
<1>2. CASE CloseData \/ WriteTWEOF \/ UNCHANGED twrp
  <2>1. (AtFile' <=> AtFile) /\ file' = file /\ written' = written
      BY <1>2 DEF CloseData, WriteTWEOF, twrp, AtFile
  <2> QED
      BY <2>1 DEF WrittenFile, WrittenCount, Size
<1>3. CASE Release
  <2>1. tpc = "release" /\ tpc' = "file" /\ file' = file + 1 /\ written = Size(file) /\ file \in 1 .. F
      BY <1>3 DEF Release, WriterInv, BackupInv, ControlInv, FileInv
  <2>2. AtFile /\ ~AtFile' /\ file' - 1 = file
      BY <2>1 DEF AtFile
  <2> QED
      BY <2>1, <2>2 DEF WrittenFile, WrittenCount, Size
<1> QED
    BY <1>1, <1>2, <1>3

\* What is written comes after what is in the FIFO.
LEMMA WriteDataFifo ==
    ASSUME BackupInv, WriterInv, FifoInv, NEW n \in 1 .. R, WriteData(n),
           ReadFile' = ReadFile, ReadCount' = ReadCount
    PROVE  FifoInv'
<1> DEFINE new == SubSeq(Content(file), written + 1, written + n)
<1>1. /\ tpc = "write" /\ tpc' = "write" /\ file \in 1 .. F /\ file' = file
      /\ written \in Nat /\ written' = written + n /\ written + n <= Size(file)
      /\ data' = data \o new /\ data \in Seq(DataByte) /\ Len(data) \in Nat
  <2>1. /\ tpc = "write" /\ tpc' = "write" /\ file \in 1 .. F /\ file' = file
        /\ written' = written + n /\ written + n <= Files[file].size /\ data' = data \o new
      BY DEF WriteData, BackupInv, ControlInv, FileInv
  <2>2. written \in Nat /\ data \in Seq(DataByte)
      BY DEF BackupInv, DataInv
  <2>3. Files[file].size = Size(file)
      BY <2>1 DEF Size
  <2> QED
      BY <2>1, <2>2, <2>3
<1>2. /\ IsSequence(new) /\ Len(new) = n
      /\ \A q \in 1 .. n : new[q].f = file /\ new[q].i = written + q
  <2>1. PICK z \in Nat : z = Size(file) /\ z = Files[file].size
      BY <1>1, SizeType
  <2>2. Content(file) = [i \in 1 .. z |-> Byte("data", file, i, <<>>)]
      BY <2>1 DEF Content
  <2>3. PICK c : c = Content(file)
      OBVIOUS
  <2>4. Len(c) = z /\ c = [p \in 1 .. z |-> c[p]] /\ \A p \in 1 .. z : c[p] = Byte("data", file, p, <<>>)
      BY <2>2, <2>3
  <2>5. IsSequence(c)
      BY <2>4 DEF IsSequence
  <2>6. PICK m \in Nat : m = written
      BY <1>1
  <2>7. m + n <= Len(c) /\ n \in Nat
      BY <1>1, <2>1, <2>4, <2>6
  <2>8. /\ IsSequence(SubSeq(c, m + 1, m + n)) /\ Len(SubSeq(c, m + 1, m + n)) = n
        /\ \A p \in 1 .. n : SubSeq(c, m + 1, m + n)[p] = c[m + p]
    <3>1. PICK k \in Nat : k = n
        BY <2>7
    <3>2. m + k <= Len(c)
        BY <2>7, <3>1
    <3>3. /\ IsSequence(SubSeq(c, m + 1, m + k)) /\ Len(SubSeq(c, m + 1, m + k)) = k
          /\ \A p \in 1 .. k : SubSeq(c, m + 1, m + k)[p] = c[m + p]
        BY <2>5, <3>2, Part
    <3> QED
        BY <3>1, <3>3
  <2>9. new = SubSeq(c, m + 1, m + n)
      BY <2>3, <2>6
  <2> HIDE DEF new
  <2>10. ASSUME NEW q \in 1 .. n PROVE new[q].f = file /\ new[q].i = written + q
    <3>1. m + q \in 1 .. z
        BY <2>4, <2>7
    <3>2. new[q] = Byte("data", file, m + q, <<>>)
        BY <2>4, <2>8, <2>9, <3>1
    <3> QED
        BY <2>6, <3>2 DEF Byte
  <2> QED
      BY <2>8, <2>9, <2>10
<1> HIDE DEF new
<1>3. /\ Len(data') = Len(data) + n
      /\ \A p \in 1 .. Len(data) : data'[p] = data[p]
      /\ \A q \in 1 .. n : data'[Len(data) + q] = new[q]
  <2>1. IsSequence(data)
      BY <1>1, SequenceForm
  <2> QED
    <3>1. data' = data \o new /\ IsSequence(new) /\ Len(new) = n
        BY <1>1, <1>2
    <3> QED
        BY <2>1, <3>1, Concatenation
<1>4. WrittenFile' = file /\ WrittenCount' = written + n
  <2>1. AtFile'
      BY <1>1 DEF AtFile
  <2> QED
      BY <1>1, <2>1 DEF WrittenFile, WrittenCount
<1>5. /\ written > 0 => WrittenFile = file /\ WrittenCount = written
      /\ written = 0 => WrittenFile = file - 1 /\ WrittenCount = Size(file - 1)
  <2>1. AtFile <=> written > 0
      BY <1>1 DEF AtFile
  <2> QED
      BY <1>1, <2>1 DEF WrittenFile, WrittenCount
<1>6. /\ Size(file) \in Nat /\ file - 1 \in 0 .. F /\ Size(file - 1) \in Nat
  <2>1. file \in 0 .. F /\ file - 1 \in 0 .. F
      BY <1>1, FilesType
  <2> QED
      BY <2>1, SizeType
\* The first of the new bytes follows what has been written.
<1>7. Follows(WrittenFile, WrittenCount, new[1])
  <2>1. new[1].f = file /\ new[1].i = written + 1
      BY <1>2
  <2>2. CASE written > 0
      BY <1>1, <1>5, <1>6, <2>1, <2>2 DEF Follows
  <2>3. CASE written = 0
      BY <1>1, <1>5, <1>6, <2>1, <2>3 DEF Follows
  <2> QED
      BY <1>1, <2>2, <2>3
<1>8. \A p \in 1 .. Len(data') : p \in 1 .. Len(data) \/ \E q \in 1 .. n : p = Len(data) + q
  <2>1. ASSUME NEW p \in 1 .. Len(data'), p > Len(data) PROVE \E q \in 1 .. n : p = Len(data) + q
    <3>1. p - Len(data) \in 1 .. n /\ p = Len(data) + (p - Len(data))
        BY <1>1, <1>3, <2>1
    <3> QED
        BY <3>1
  <2>2. \A p \in 1 .. Len(data') : p \in 1 .. Len(data) \/ p > Len(data)
      BY <1>1
  <2> QED
      BY <2>1, <2>2
<1>9. ASSUME NEW p \in 1 .. Len(data') PROVE data'[p].f \in 1 .. WrittenFile' /\ data'[p].i \in 1 .. Size(data'[p].f)
  <2>1. CASE p \in 1 .. Len(data)
    <3>1. data[p].f \in 1 .. WrittenFile /\ data[p].i \in 1 .. Size(data[p].f) /\ data'[p] = data[p]
        BY <1>3, <2>1 DEF FifoInv
    <3>2. WrittenFile \in 0 .. file
        BY <1>1, <1>5
    <3> QED
        BY <1>1, <1>4, <3>1, <3>2
  <2>2. CASE \E q \in 1 .. n : p = Len(data) + q
    <3>1. PICK q \in 1 .. n : p = Len(data) + q
        BY <2>2
    <3>2. data'[p].f = file /\ data'[p].i = written + q
        BY <1>2, <1>3, <3>1
    <3>3. written + q \in 1 .. Size(file)
        BY <1>1, <1>6
    <3> QED
        BY <1>1, <1>4, <3>2, <3>3
  <2> QED
      BY <1>8, <2>1, <2>2
<1>10. ASSUME NEW p \in 1 .. Len(data') - 1 PROVE Follows(data'[p].f, data'[p].i, data'[p + 1])
  <2>1. CASE p + 1 \in 1 .. Len(data)
    <3>1. p \in 1 .. Len(data) - 1 /\ p \in 1 .. Len(data) /\ p + 1 \in 1 .. Len(data)
        BY <1>1, <2>1
    <3> QED
        BY <1>3, <3>1 DEF FifoInv
  <2>2. CASE p = Len(data)
    <3>1. data # <<>> /\ p \in 1 .. Len(data)
        BY <1>1, <2>2
    <3>2. data[p].f = WrittenFile /\ data[p].i = WrittenCount /\ data'[p] = data[p]
        BY <1>3, <2>2, <3>1 DEF FifoInv
    <3>3. data'[p + 1] = new[1]
        BY <1>3, <2>2
    <3> QED
        BY <1>7, <3>2, <3>3
  <2>3. CASE p > Len(data)
    <3>1. PICK q \in 1 .. n : p = Len(data) + q
      <4>1. p \in 1 .. Len(data') /\ p \notin 1 .. Len(data)
          BY <1>1, <1>3, <2>3
      <4> QED
          BY <1>8, <4>1
    <3>2. q + 1 \in 1 .. n /\ p + 1 = Len(data) + (q + 1)
        BY <1>1, <1>3, <3>1
    <3>3. data'[p].f = file /\ data'[p].i = written + q
        BY <1>2, <1>3, <3>1
    <3>4. data'[p + 1].f = file /\ data'[p + 1].i = written + (q + 1)
        BY <1>2, <1>3, <3>2
    <3>5. written + q < Size(file) /\ written + (q + 1) = (written + q) + 1
        BY <1>1, <1>6, <3>2
    <3> QED
        BY <3>3, <3>4, <3>5 DEF Follows
  <2> QED
      BY <1>1, <1>3, <2>1, <2>2, <2>3
<1>11. ASSUME NEW p \in 1 .. Len(data'), NEW q \in 1 .. Len(data'), data'[p].f = data'[q].f
       PROVE  data'[q].i = data'[p].i + q - p
\* An old byte of the file that is being written.
  <2>1. ASSUME NEW x \in 1 .. Len(data), NEW y \in 1 .. n, data[x].f = file
        PROVE  written + y = data[x].i + (Len(data) + y) - x /\ data[x].i \in Nat
    <3>1. data # <<>> /\ Len(data) \in 1 .. Len(data)
        BY <1>1
    <3>2. data[x].f \in 1 .. WrittenFile /\ data[x].i \in 1 .. Size(data[x].f)
        BY DEF FifoInv
    <3>3. written > 0
        BY <1>1, <1>5, <2>1, <3>2
    <3>4. data[Len(data)].f = file /\ data[Len(data)].i = written
        BY <1>5, <3>1, <3>3 DEF FifoInv
    <3>5. written = data[x].i + Len(data) - x
        BY <2>1, <3>1, <3>4 DEF FifoInv
    <3>6. data[x].i \in Nat
        BY <1>6, <2>1, <3>2
    <3>7. PICK k \in Nat, l \in Nat, w \in Nat : k = data[x].i /\ l = Len(data) /\ w = written
        BY <1>1, <3>6
    <3>8. w = k + l - x => w + y = k + (l + y) - x
        OBVIOUS
    <3> QED
        BY <3>5, <3>6, <3>7, <3>8
  <2>2. CASE p \in 1 .. Len(data) /\ q \in 1 .. Len(data)
      BY <1>3, <1>11, <2>2 DEF FifoInv
  <2>3. CASE p \in 1 .. Len(data) /\ \E y \in 1 .. n : q = Len(data) + y
    <3>1. PICK y \in 1 .. n : q = Len(data) + y
        BY <2>3
    <3>2. data'[p] = data[p] /\ data'[q].f = file /\ data'[q].i = written + y
        BY <1>2, <1>3, <2>3, <3>1
    <3>3. written + y = data[p].i + (Len(data) + y) - p
        BY <1>11, <2>1, <2>3, <3>2
    <3> QED
        BY <3>1, <3>2, <3>3
  <2>4. CASE q \in 1 .. Len(data) /\ \E y \in 1 .. n : p = Len(data) + y
    <3>1. PICK y \in 1 .. n : p = Len(data) + y
        BY <2>4
    <3>2. data'[q] = data[q] /\ data'[p].f = file /\ data'[p].i = written + y
        BY <1>2, <1>3, <2>4, <3>1
    <3>3. written + y = data[q].i + (Len(data) + y) - q /\ data[q].i \in Nat
        BY <1>11, <2>1, <2>4, <3>2
    <3>4. PICK k \in Nat, l \in Nat, w \in Nat : k = data[q].i /\ l = Len(data) /\ w = written
        BY <1>1, <3>3
    <3>5. w + y = k + (l + y) - q => k = (w + y) + q - (l + y)
        OBVIOUS
    <3> QED
        BY <3>1, <3>2, <3>3, <3>4, <3>5
  <2>5. CASE (\E y \in 1 .. n : p = Len(data) + y) /\ (\E y \in 1 .. n : q = Len(data) + y)
    <3>1. PICK x \in 1 .. n, y \in 1 .. n : p = Len(data) + x /\ q = Len(data) + y
        BY <2>5
    <3>2. data'[p].i = written + x /\ data'[q].i = written + y
        BY <1>2, <1>3, <3>1
    <3>3. PICK l \in Nat, w \in Nat : l = Len(data) /\ w = written
        BY <1>1
    <3>4. w + y = (w + x) + (l + y) - (l + x)
        OBVIOUS
    <3> QED
        BY <3>1, <3>2, <3>3, <3>4
  <2> QED
      BY <1>8, <2>2, <2>3, <2>4, <2>5
<1>12. data' # <<>> /\ Follows(ReadFile, ReadCount, data'[1])
  <2>1. data' # <<>>
      BY <1>1, <1>3
  <2>2. CASE data = <<>>
    <3>1. Len(data) = 0 /\ data'[1] = new[1]
        BY <1>3, <2>2
    <3> QED
        BY <1>7, <2>1, <2>2, <3>1 DEF FifoInv
  <2>3. CASE data # <<>>
    <3>1. data'[1] = data[1]
        BY <1>1, <1>3, <2>3
    <3> QED
        BY <2>1, <2>3, <3>1 DEF FifoInv
  <2> QED
      BY <2>2, <2>3
<1>13. data'[Len(data')].f = WrittenFile' /\ data'[Len(data')].i = WrittenCount'
    BY <1>2, <1>3, <1>4
<1> QED
    BY <1>9, <1>10, <1>11, <1>12, <1>13 DEF FifoInv

\* Bytes of the file bu is at are the next ones of it.
LEMMA TakenBytes ==
    ASSUME data \in Seq(DataByte), FifoInv, digest \in Seq(PlainByte), current \in 0 .. F,
           NEW n \in 1 .. Len(data), \A i \in 1 .. n : data[i].f = current
    PROVE  /\ current # 0 /\ Have = Len(digest) /\ Len(digest) \in Nat /\ Len(digest) + n <= Size(current)
           /\ \A i \in 1 .. n : data[i] = Byte("data", current, Len(digest) + i, <<>>)
<1>1. /\ Len(digest) \in Nat /\ Len(data) \in Nat /\ data # <<>> /\ 1 \in 1 .. n /\ n \in Nat
      /\ \A i \in 1 .. n : i \in 1 .. Len(data)
    OBVIOUS
<1>2. \A i \in 1 .. n : data[i].i \in 1 .. Size(current) /\ current \in 1 .. WrittenFile
    BY <1>1 DEF FifoInv
<1>3. current # 0 /\ Size(current) \in Nat /\ Size(current) > 0
  <2>1. 0 \notin 1 .. WrittenFile
      OBVIOUS
  <2>2. current # 0
      BY <1>1, <1>2, <2>1
  <2> QED
      BY <2>2, SizeType
<1>4. Follows(ReadFile, ReadCount, data[1])
    BY <1>1 DEF FifoInv
<1>5. Have = Len(digest) /\ data[1].i = Len(digest) + 1
  <2>1. CASE Have > 0
    <3>1. ReadFile = current /\ ReadCount = Have
        BY <2>1 DEF ReadFile, ReadCount
    <3>2. data[1].f = current
        BY <1>1
    <3>3. Have < Size(current) /\ data[1].i = Have + 1
        BY <1>3, <1>4, <3>1, <3>2 DEF Follows
    <3>4. Have = Len(digest)
      <4>1. CASE Len(digest) < Size(current)
          BY <4>1 DEF Have
      <4>2. CASE ~(Len(digest) < Size(current))
        <5>1. Have = Size(current)
            BY <4>2 DEF Have
        <5> QED
            BY <1>3, <3>3, <5>1
      <4> QED
          BY <4>1, <4>2
    <3> QED
        BY <3>3, <3>4
  <2>2. CASE ~(Have > 0)
    <3>1. Have = 0 /\ Len(digest) = 0
        BY <1>1, <1>3, <2>2 DEF Have
    <3>2. ReadFile = current - 1 /\ ReadCount = Size(current - 1)
        BY <1>3, <3>1 DEF ReadFile, ReadCount
    <3>3. current - 1 \in 0 .. F
        BY <1>3, FilesType
    <3>4. Size(current - 1) \in Nat
        BY <3>3, SizeType
    <3>5. data[1].i = 1
        BY <1>4, <3>2, <3>4 DEF Follows
    <3> QED
        BY <3>1, <3>5
  <2> QED
      BY <2>1, <2>2
<1>6. ASSUME NEW i \in 1 .. n PROVE data[i].i = Len(digest) + i
  <2>1. data[1].f = data[i].f /\ 1 \in 1 .. Len(data) /\ i \in 1 .. Len(data)
      BY <1>1
  <2>2. data[i].i = data[1].i + i - 1
      BY <2>1 DEF FifoInv
  <2> QED
      BY <1>1, <1>5, <2>2
<1>7. ASSUME NEW i \in 1 .. n PROVE data[i] = Byte("data", current, Len(digest) + i, <<>>)
  <2>1. data[i] \in DataByte
      BY <1>1
  <2>2. data[i].f = current /\ data[i].i = Len(digest) + i
      BY <1>6
  <2>3. data[i].t = "data" /\ data[i].md5 = <<>>
      BY <2>1 DEF DataByte
  <2>4. data[i] = [t |-> data[i].t, f |-> data[i].f, i |-> data[i].i, md5 |-> data[i].md5]
      BY <2>1 DEF DataByte
  <2> QED
      BY <2>2, <2>3, <2>4 DEF Byte
<1>8. Len(digest) + n <= Size(current)
  <2>1. n \in 1 .. n
      OBVIOUS
  <2>2. data[n].i = Len(digest) + n /\ data[n].i \in 1 .. Size(current)
      BY <1>2, <1>6, <2>1
  <2> QED
      BY <1>3, <2>2
<1> QED
    BY <1>1, <1>3, <1>5, <1>7, <1>8

\* What is left in the FIFO comes after them.
LEMMA FifoTaken ==
    ASSUME data \in Seq(DataByte), FifoInv, digest \in Seq(PlainByte), current \in 0 .. F,
           NEW n \in 1 .. Len(data), \A i \in 1 .. n : data[i].f = current,
           data' = SubSeq(data, n + 1, Len(data)), UNCHANGED <<twrp, current>>,
           Len(digest') = Len(digest) + n
    PROVE  FifoInv'
<1>1. /\ current # 0 /\ Len(digest) \in Nat /\ Len(digest) + n <= Size(current)
      /\ data[n].f = current /\ data[n].i = Len(digest) + n
  <2>1. /\ current # 0 /\ Have = Len(digest) /\ Len(digest) \in Nat /\ Len(digest) + n <= Size(current)
        /\ \A i \in 1 .. n : data[i] = Byte("data", current, Len(digest) + i, <<>>)
      BY TakenBytes
  <2>2. data[n] = Byte("data", current, Len(digest) + n, <<>>)
      BY <2>1
  <2> QED
      BY <2>1, <2>2 DEF Byte
<1>2. /\ Len(data) \in Nat /\ n \in Nat /\ n > 0 /\ n <= Len(data)
    OBVIOUS
<1>3. /\ Len(data') = Len(data) - n
      /\ \A p \in 1 .. Len(data') : data'[p] = data[n + p] /\ n + p \in 1 .. Len(data)
  <2>1. PICK k \in Nat : Len(data) = n + k
    <3>1. Len(data) - n \in Nat /\ Len(data) = n + (Len(data) - n)
        BY <1>2
    <3> QED
        BY <3>1
  <2>2. IsSequence(data) /\ n + k <= Len(data)
      BY <2>1, SequenceForm
  <2>3. /\ Len(SubSeq(data, n + 1, n + k)) = k
        /\ \A p \in 1 .. k : SubSeq(data, n + 1, n + k)[p] = data[n + p]
      BY <1>2, <2>2, Part
  <2>4. data' = SubSeq(data, n + 1, n + k)
      BY <2>1
  <2>5. Len(data') = k /\ \A p \in 1 .. k : data'[p] = data[n + p]
      BY <2>3, <2>4
  <2>6. k = Len(data) - n /\ \A p \in 1 .. k : n + p \in 1 .. Len(data)
      BY <1>2, <2>1
  <2> QED
      BY <2>5, <2>6
<1>4. /\ WrittenFile' = WrittenFile /\ WrittenCount' = WrittenCount /\ current' = current
      /\ \A f : Size(f)' = Size(f)
  <2>1. UNCHANGED <<tpc, file, written, current>>
      BY DEF twrp
  <2> QED
      BY <2>1 DEF WrittenFile, WrittenCount, AtFile, Size
<1>5. ReadFile' = current /\ ReadCount' = Len(digest) + n
  <2>1. Size(current) \in Nat
      BY SizeType
  <2>2. Size(current)' = Size(current)
      BY <1>4 DEF Size
  <2>5. PICK k \in Nat, z \in Nat : k = Len(digest) + n /\ z = Size(current)
      BY <1>1, <1>2, <2>1
  <2>6. Have' = IF k < z THEN k ELSE z
      BY <2>2, <2>5 DEF Have
  <2>3. Have' = Len(digest) + n
      BY <1>1, <2>5, <2>6
  <2>4. Have' > 0
      BY <1>1, <1>2, <2>3
  <2> QED
      BY <1>4, <2>3, <2>4 DEF ReadFile, ReadCount
<1>6. ASSUME NEW p \in 1 .. Len(data') PROVE data'[p].f \in 1 .. WrittenFile /\ data'[p].i \in 1 .. Size(data'[p].f)
    BY <1>3 DEF FifoInv
<1>7. ASSUME NEW p \in 1 .. Len(data'), NEW q \in 1 .. Len(data'), data'[p].f = data'[q].f
      PROVE  data'[q].i = data'[p].i + q - p
  <2>1. data[n + q].i = data[n + p].i + (n + q) - (n + p)
      BY <1>3, <1>7 DEF FifoInv
  <2>2. data[n + p] \in DataByte
      BY <1>3
  <2>3. data[n + p].i \in Nat
      BY <2>2 DEF DataByte
  <2>4. PICK k \in Nat : k = data[n + p].i
      BY <2>3
  <2>5. k + (n + q) - (n + p) = k + q - p
      BY <1>2
  <2> QED
      BY <1>3, <2>1, <2>4, <2>5
<1>8. ASSUME NEW p \in 1 .. Len(data') - 1 PROVE Follows(data'[p].f, data'[p].i, data'[p + 1])
  <2>1. p \in 1 .. Len(data') /\ p + 1 \in 1 .. Len(data')
      BY <1>2, <1>3
  <2>2. data'[p] = data[n + p] /\ data'[p + 1] = data[n + (p + 1)] /\ n + (p + 1) = (n + p) + 1
        /\ n + p \in 1 .. Len(data) - 1
      BY <1>2, <1>3, <2>1
  <2>3. Follows(data[n + p].f, data[n + p].i, data[(n + p) + 1])
      BY <2>2 DEF FifoInv
  <2> QED
      BY <2>2, <2>3
<1>9. IF data' = <<>> THEN ReadFile' = WrittenFile /\ ReadCount' = WrittenCount
      ELSE /\ Follows(ReadFile', ReadCount', data'[1])
           /\ data'[Len(data')].f = WrittenFile /\ data'[Len(data')].i = WrittenCount
  <2>1. /\ data # <<>> /\ data[Len(data)].f = WrittenFile /\ data[Len(data)].i = WrittenCount
    <3>1. data # <<>>
        BY <1>2
    <3> QED
        BY <3>1 DEF FifoInv
  <2>2. CASE Len(data') = 0
    <3>1. n = Len(data)
        BY <1>2, <1>3, <2>2
    <3>2. data' = <<>>
      <4>1. data' \in Seq(DataByte)
          BY <1>2, Rest
      <4> QED
          BY <2>2, <4>1
    <3> QED
        BY <1>1, <1>5, <2>1, <3>1, <3>2
  <2>3. CASE Len(data') # 0
    <3>4. PICK l \in Nat, k \in Nat : l = Len(data) /\ k = Len(data') /\ l = n + k
      <4>1. PICK l \in Nat : l = Len(data) /\ n <= l
          BY <1>2
      <4>2. Len(data') = l - n
          BY <1>3, <4>1
      <4>3. l - n \in Nat /\ l = n + (l - n)
          BY <1>2, <4>1
      <4>4. PICK k : k = Len(data')
          OBVIOUS
      <4>5. k \in Nat /\ l = n + k
          BY <4>2, <4>3, <4>4
      <4> QED
          BY <4>1, <4>4, <4>5
    <3>5. 1 \in 1 .. k /\ k \in 1 .. k /\ n + k = l /\ n \in 1 .. l - 1
        BY <1>2, <2>3, <3>4
    <3>6. data' # <<>>
        BY <2>3
    <3>1. data' # <<>> /\ 1 \in 1 .. Len(data') /\ Len(data') \in 1 .. Len(data') /\ n + Len(data') = Len(data)
          /\ n \in 1 .. Len(data) - 1
        BY <3>4, <3>5, <3>6
    <3>2. data'[1] = data[n + 1] /\ data'[Len(data')] = data[Len(data)]
        BY <1>3, <3>1
    <3>3. Follows(data[n].f, data[n].i, data[n + 1])
        BY <3>1 DEF FifoInv
    <3> QED
        BY <1>1, <1>5, <2>1, <3>1, <3>2, <3>3
  <2> QED
      BY <2>2, <2>3
<1> QED
    BY <1>4, <1>6, <1>7, <1>8, <1>9 DEF FifoInv

\* Between the files, and when the FIFO is empty after the data of one, bu has
\* got all of it.
LEMMA FileComplete ==
    ASSUME BackupInv, WriterInv, PhaseInv, FifoInv, digest \in Seq(PlainByte), data = <<>>, tpc # "failed",
           current # 0 => Received >= 2 * current + 1
    PROVE  Have = Size(current)
<1>1. /\ file \in 1 .. F + 1 /\ current \in 0 .. F /\ Len(control) \in Nat /\ Received \in Nat
      /\ tpc \in {"idle", "start", "file", "open", "write", "eof", "release", "done"}
      /\ Received + Len(control) = Sent /\ Len(digest) \in Nat
    BY MarksFinite DEF BackupInv, ControlInv, PhaseInv, QueueInv, Received
<1>2. ReadFile = WrittenFile /\ ReadCount = WrittenCount
    BY DEF FifoInv
<1>3. CASE current = 0
  <2>1. Size(current) = 0
      BY <1>3, SizeType
  <2> QED
      BY <1>1, <2>1 DEF Have
<1>4. CASE current # 0
  <2>1. Sent >= 2 * current + 1 /\ current \in Nat /\ file \in Nat /\ F \in Nat
      BY <1>1, <1>4, FilesType
  <2>2. WrittenFile >= current /\ (WrittenFile = current => WrittenCount = Size(current))
    <3>1. CASE tpc \in {"idle", "start"}
        BY <2>1, <3>1 DEF Sent
    <3>2. CASE tpc = "file"
      <4>1. file - 1 >= current
          BY <2>1, <3>2 DEF Sent
      <4>2. WrittenFile = file - 1 /\ WrittenCount = Size(file - 1)
          BY <3>2 DEF AtFile, WrittenFile, WrittenCount
      <4> QED
          BY <4>1, <4>2
    <3>3. CASE tpc \in {"open", "write", "eof"}
      <4>1. file >= current + 1
          BY <2>1, <3>3 DEF Sent
      <4> QED
          BY <2>1, <4>1 DEF WrittenFile, WrittenCount
    <3>4. CASE tpc = "release"
      <4>1. file >= current /\ file \in 1 .. F
          BY <1>1, <2>1, <3>4 DEF Sent, BackupInv, FileInv
      <4>2. written = Size(file) /\ Size(file) > 0
          BY <3>4, <4>1, SizeType DEF WriterInv
      <4>3. AtFile
          BY <3>4, <4>2 DEF AtFile
      <4> QED
          BY <4>1, <4>2, <4>3 DEF WrittenFile, WrittenCount
    <3>5. CASE tpc = "done"
      <4>1. file = F + 1 /\ ~AtFile
          BY <3>5 DEF WriterInv, AtFile
      <4> QED
          BY <1>1, <2>1, <4>1 DEF WrittenFile, WrittenCount
    <3> QED
        BY <1>1, <3>1, <3>2, <3>3, <3>4, <3>5
  <2>3. ReadFile = current /\ Have > 0
    <3>1. ReadFile = current \/ ReadFile = current - 1
        BY DEF ReadFile
    <3>2. ReadFile = current
        BY <1>2, <2>1, <2>2, <3>1
    <3> QED
        BY <1>4, <2>1, <3>2 DEF ReadFile
  <2>4. ReadCount = Have
      BY <2>3 DEF ReadCount
  <2> QED
      BY <1>2, <2>2, <2>3, <2>4
<1> QED
    BY <1>3, <1>4

\* In the loop after TWEOF bu is at the file of that command.
LEMMA DrainPlace ==
    ASSUME BackupInv, PhaseInv, bpc = "drain"
    PROVE  Received = 2 * current + 1 /\ current # 0 /\ current \in 1 .. F
<1>1. Received > 1 /\ Received % 2 = 1 /\ current \in 0 .. F /\ (Received = 2 * current \/ Received = 2 * current + 1)
    BY DEF BackupInv, QueueInv, PhaseInv
<1> QED
    BY <1>1, FilesType

\* What has been read before all of a file was there.
LEMMA HaveType ==
    ASSUME digest \in Seq(PlainByte), current \in 0 .. F
    PROVE  /\ Len(digest) \in Nat /\ Size(current) \in Nat
           /\ Have = Size(current) <=> Len(digest) >= Size(current)
<1>1. PICK k \in Nat, z \in Nat : k = Len(digest) /\ z = Size(current)
    BY SizeType
<1>2. Have = IF k < z THEN k ELSE z
    BY <1>1 DEF Have
<1> QED
    BY <1>1, <1>2

\* The next bytes of a file make more of it.
LEMMA TakePure ==
    ASSUME data \in Seq(DataByte), FifoInv, digest \in Seq(PlainByte), current \in 0 .. F, Pure(digest, current),
           NEW n \in 1 .. Len(data), \A i \in 1 .. n : data[i].f = current,
           NEW e, e = SubSeq(data, 1, n)
    PROVE  /\ e \in Seq(PlainByte) /\ Len(e) = n /\ digest \o e \in Seq(PlainByte)
           /\ Len(digest \o e) = Len(digest) + n /\ Len(digest) + n <= Size(current)
           /\ Pure(digest \o e, current)
<1>1. /\ current # 0 /\ Len(digest) \in Nat /\ Len(digest) + n <= Size(current)
      /\ \A i \in 1 .. n : data[i] = Byte("data", current, Len(digest) + i, <<>>)
    BY TakenBytes
<1>2. IsSequence(data) /\ IsSequence(digest) /\ n \in Nat /\ n <= Len(data)
    BY SequenceForm
<1>3. IsSequence(e) /\ Len(e) = n /\ \A p \in 1 .. n : e[p] = data[p]
  <2>1. PICK z \in Nat, k \in Nat : z = 0 /\ k = n
      BY <1>2
  <2>2. z + k <= Len(data) /\ z + 1 = 1 /\ z + k = n /\ \A p \in 1 .. k : z + p = p
      BY <1>2, <2>1
  <2>3. PICK s : s = data
      OBVIOUS
  <2>4. IsSequence(s) /\ z + k <= Len(s)
      BY <1>2, <2>2, <2>3
  <2>5. /\ IsSequence(SubSeq(s, z + 1, z + k)) /\ Len(SubSeq(s, z + 1, z + k)) = k
        /\ \A p \in 1 .. k : SubSeq(s, z + 1, z + k)[p] = s[z + p]
      BY <2>4, Part
  <2> QED
      BY <2>1, <2>2, <2>3, <2>5
<1>4. e \in Seq(PlainByte)
  <2>1. ASSUME NEW p \in 1 .. Len(e) PROVE e[p] \in PlainByte
    <3>1. data[p] \in DataByte /\ e[p] = data[p]
        BY <1>2, <1>3
    <3> QED
        BY <3>1 DEF DataByte, PlainByte
  <2> QED
      BY <1>3, <2>1, SequenceType
<1>5. /\ Len(digest \o e) = Len(digest) + Len(e)
      /\ \A p \in 1 .. Len(digest) : (digest \o e)[p] = digest[p]
      /\ \A p \in 1 .. Len(e) : (digest \o e)[Len(digest) + p] = e[p]
    BY <1>2, <1>3, Concatenation
<1>6. ASSUME NEW p \in 1 .. Len(digest \o e)
      PROVE  (digest \o e)[p] = IF p <= Size(current) THEN Byte("data", current, p, <<>>) ELSE Zero
  <2>1. CASE p \in 1 .. Len(digest)
      BY <1>5, <2>1 DEF Pure
  <2>2. CASE p \notin 1 .. Len(digest)
    <3>1. PICK k \in Nat, z \in Nat : k = Len(digest) /\ z = Size(current)
        BY <1>1, SizeType
    <3>2. PICK q \in 1 .. n : p = k + q
      <4>1. p \in 1 .. k + n /\ p \notin 1 .. k
          BY <1>3, <1>5, <2>2, <3>1
      <4>2. p - k \in 1 .. n /\ p = k + (p - k)
          BY <1>2, <4>1
      <4> QED
          BY <4>2
    <3>3. (digest \o e)[p] = data[q]
        BY <1>3, <1>5, <3>1, <3>2
    <3>4. p <= Size(current)
        BY <1>1, <1>2, <3>1, <3>2
    <3> QED
        BY <1>1, <3>1, <3>2, <3>3, <3>4
  <2> QED
      BY <2>1, <2>2
<1> QED
    BY <1>1, <1>3, <1>4, <1>5, <1>6 DEF Pure

\* Zeros after a file that is complete are its padding.
LEMMA PadPure ==
    ASSUME NEW d \in Seq(PlainByte), NEW f \in 0 .. F, Pure(d, f), Len(d) >= Size(f), NEW n \in Nat
    PROVE  /\ Zeros(n) \in Seq(PlainByte) /\ Len(Zeros(n)) = n
           /\ Len(d \o Zeros(n)) = Len(d) + n /\ Pure(d \o Zeros(n), f)
           /\ d \o Zeros(n) \in Seq(PlainByte)
<1> DEFINE e == Zeros(n)
<1>1. e = [p \in 1 .. n |-> Zero] /\ Zero \in PlainByte
    BY DEF Zeros, Zero, Byte, PlainByte
<1> HIDE DEF e
<1>2. e \in Seq(PlainByte) /\ Len(e) = n /\ \A p \in 1 .. n : e[p] = Zero
    BY <1>1
<1>3. IsSequence(d) /\ IsSequence(e)
    BY <1>2, SequenceForm
<1>4. /\ Len(d \o e) = Len(d) + Len(e)
      /\ \A p \in 1 .. Len(d) : (d \o e)[p] = d[p]
      /\ \A p \in 1 .. Len(e) : (d \o e)[Len(d) + p] = e[p]
    BY <1>3, Concatenation
<1>5. ASSUME NEW p \in 1 .. Len(d \o e)
      PROVE  (d \o e)[p] = IF p <= Size(f) THEN Byte("data", f, p, <<>>) ELSE Zero
  <2>1. CASE p \in 1 .. Len(d)
      BY <1>4, <2>1 DEF Pure
  <2>2. CASE p \notin 1 .. Len(d)
    <3>1. PICK k \in Nat, z \in Nat : k = Len(d) /\ z = Size(f) /\ z <= k
        BY SizeType
    <3>2. PICK q \in 1 .. n : p = k + q
      <4>1. p \in 1 .. k + n /\ p \notin 1 .. k
          BY <1>2, <1>4, <2>2, <3>1
      <4>2. p - k \in 1 .. n /\ p = k + (p - k)
          BY <4>1
      <4> QED
          BY <4>2
    <3>3. (d \o e)[p] = Zero
        BY <1>2, <1>4, <3>1, <3>2
    <3>4. ~(p <= Size(f))
        BY <3>1, <3>2
    <3> QED
        BY <3>3, <3>4
  <2> QED
      BY <2>1, <2>2
<1> QED
    BY <1>2, <1>4, <1>5 DEF Pure, e

-----------------------------------------------------------------------------
(* bu reads *)

\* A read of data of the file bu is at, with the header of a chunk or within one.
LEMMA ReadStep ==
    ASSUME BackupInv, PhaseInv, FifoInv, ProgressInv, StepInv, bpc \in {"data", "extra"},
           NEW n \in 1 .. Len(data), NEW header, TakeData(n, header), UNCHANGED <<twrp, current>>, mishap' = {},
           NEW c, \/ ~firstDataPacket /\ header = <<>> /\ c = dataChunkBytes
                  \/ firstDataPacket /\ header = Struct("TWDATA", 0, <<>>) /\ c = R,
           c + n <= M
    PROVE  /\ FifoInv' /\ ~BetweenFiles
           /\ digest' \in Seq(PlainByte) /\ Pure(digest', current) /\ digest' # <<>>
           /\ fileBytes' % M = (IF c + n = M THEN 0 ELSE c + n)
           /\ InStep(stream', digest', IF c + n = M THEN 0 ELSE c + n, current)
<1> DEFINE e == SubSeq(data, 1, n)
<1>1. /\ data \in Seq(DataByte) /\ digest \in Seq(PlainByte) /\ Pure(digest, current) /\ current \in 0 .. F
      /\ fileBytes \in Nat /\ Len(digest) \in Nat /\ IsSequence(stream) /\ Len(data) \in Nat
    BY DEF BackupInv, DataInv, ChunkInv, ProgressInv, PhaseInv
<1>2. /\ data' = SubSeq(data, n + 1, Len(data)) /\ stream' = stream \o header \o e
      /\ digest' = digest \o e /\ fileBytes' = fileBytes + Len(header) + n
    BY DEF TakeData
<1>3. \A i \in 1 .. n : data[i].f = current
  <2>1. ~(\E i \in 1 .. n : e[i].f # current)
    <3>1. mishap \cup {"early"} # {}
        OBVIOUS
    <3> QED
        BY <3>1 DEF TakeData
  <2>2. \A i \in 1 .. n : e[i] = data[i]
      BY <1>1
  <2> QED
      BY <2>1, <2>2
<1> HIDE DEF e
<1>4. /\ e \in Seq(PlainByte) /\ Len(e) = n /\ digest \o e \in Seq(PlainByte)
      /\ Len(digest \o e) = Len(digest) + n /\ Len(digest) + n <= Size(current)
      /\ Pure(digest \o e, current)
  <2>1. e = SubSeq(data, 1, n)
      BY DEF e
  <2> QED
      BY <1>1, <1>3, <2>1, TakePure
<1>5. FifoInv'
    BY <1>1, <1>2, <1>3, <1>4, FifoTaken
<1>6. Have # Size(current)
  <2>1. Have = Len(digest)
      BY <1>1, <1>3, TakenBytes
  <2>2. PICK k \in Nat, z \in Nat : k = Len(digest) /\ z = Size(current) /\ k + n <= z
      BY <1>1, <1>4, SizeType
  <2>3. k # z
      BY <2>2
  <2> QED
      BY <2>1, <2>2, <2>3
<1>7. ~BetweenFiles
    BY <1>6 DEF ProgressInv
<1>8. digest' # <<>>
  <2>1. PICK k \in Nat : k = Len(digest)
      BY <1>1
  <2>2. Len(digest') = k + n /\ k + n # 0
      BY <1>2, <1>4, <2>1
  <2> QED
      BY <2>2
<1>9. R \in Nat /\ R > 0 /\ M \in Nat \ {0} /\ M >= 2 * R
    BY FilesType
<1>10. /\ c \in 1 .. M - 1
       /\ InStep(stream \o header, digest, c, current) /\ IsSequence(stream \o header)
       /\ fileBytes' % M = IF c + n = M THEN 0 ELSE c + n
  <2>1. CASE ~firstDataPacket
    <3>1. header = <<>> /\ c = fileBytes % M /\ c # 0
        BY <2>1 DEF ProgressInv
    <3>2. stream \o header = stream
        BY <1>1, <3>1, EmptyAdds
    <3>3. c \in 1 .. M - 1
        BY <1>1, <1>9, <3>1
    <3>4. fileBytes' = fileBytes + n
        BY <1>1, <1>2, <3>1
    <3>5. /\ (fileBytes % M) + n < M => (fileBytes + n) % M = (fileBytes % M) + n
          /\ (fileBytes % M) + n = M => (fileBytes + n) % M = 0
      <4>1. n \in Nat
          OBVIOUS
      <4> QED
          BY <1>1, <1>9, <4>1, Remainder
    <3>6. fileBytes' % M = IF c + n = M THEN 0 ELSE c + n
      <4>1. c + n < M \/ c + n = M
          BY <1>9, <3>3
      <4>2. c + n < M => (fileBytes + n) % M = c + n
          BY <3>1, <3>5
      <4>3. c + n = M => (fileBytes + n) % M = 0
          BY <3>1, <3>5
      <4>4. c + n < M => c + n # M
          BY <1>9, <3>3
      <4> QED
          BY <3>4, <4>1, <4>2, <4>3, <4>4
    <3> QED
        BY <1>1, <3>1, <3>2, <3>3, <3>6 DEF StepInv
  <2>2. CASE firstDataPacket
    <3>1. header = Struct("TWDATA", 0, <<>>) /\ c = R /\ fileBytes % M = 0
        BY <1>6, <2>2 DEF ProgressInv
    <3>2. c \in 1 .. M - 1
        BY <1>9, <3>1
    <3>3. InStep(stream \o header, digest, c, current) /\ IsSequence(stream \o header)
      <4>1. InStep(stream, digest, 0, current)
          BY <3>1 DEF StepInv
      <4>2. PICK t \in {"TWSTREAMHDR", "TWFN", "TWIMG", "TWDATA", "MD5TRAILER", "TWENDADB"} : t = "TWDATA"
          OBVIOUS
      <4>3. PICK g \in 0 .. F : g = 0
          BY FilesType
      <4>4. LET s1 == stream \o Struct(t, g, <<>>) IN
              /\ IsSequence(s1)
              /\ InStep(s1, IF t \in {"TWFN", "TWIMG"} THEN <<>> ELSE digest, IF t = "TWDATA" THEN R ELSE 0,
                        IF t \in {"TWFN", "TWIMG"} THEN g ELSE current)
        <5>1. t # "MD5TRAILER" /\ t \notin {"TWFN", "TWIMG"}
            BY <4>2
        <5> QED
            BY <1>1, <4>1, <5>1, StructureAppend
      <4> QED
          BY <3>1, <4>2, <4>3, <4>4
    <3>4. fileBytes' = fileBytes + (R + n)
      <4>1. Len(header) = R
          BY <3>1, StructBytes
      <4> QED
          BY <1>1, <1>2, <1>9, <4>1
    <3>5. /\ (fileBytes % M) + (R + n) < M => (fileBytes + (R + n)) % M = (fileBytes % M) + (R + n)
          /\ (fileBytes % M) + (R + n) = M => (fileBytes + (R + n)) % M = 0
      <4>1. PICK k \in Nat : k = R + n
          BY <1>9
      <4> QED
          BY <1>1, <1>9, <4>1, Remainder
    <3>6. fileBytes' % M = IF c + n = M THEN 0 ELSE c + n
      <4>1. c + n < M \/ c + n = M
          BY <1>9, <3>2
      <4>2. 0 + (R + n) = R + n
          BY <1>9
      <4>3. c + n < M => (fileBytes + (R + n)) % M = c + n
          BY <3>1, <3>5, <4>2
      <4>4. c + n = M => (fileBytes + (R + n)) % M = 0
          BY <3>1, <3>5, <4>2
      <4>5. c + n < M => c + n # M
          BY <1>9, <3>2
      <4> QED
          BY <3>4, <4>1, <4>3, <4>4, <4>5
    <3> QED
        BY <3>2, <3>3, <3>6
  <2> QED
      BY <2>1, <2>2
<1>11. InStep(stream', digest', IF c + n = M THEN 0 ELSE c + n, current)
  <2>1. PICK d \in Seq(PlainByte), x \in Seq(PlainByte), k \in 1 .. M - 1 : d = digest /\ x = e /\ k = c
      BY <1>1, <1>4, <1>10
  <2>4. PICK s : s = stream \o header
      OBVIOUS
  <2>2. k + Len(x) <= M /\ Len(x) = n
      BY <1>4, <2>1
  <2>3. InStep(s \o x, d \o x, IF k + Len(x) = M THEN 0 ELSE k + Len(x), current)
      BY <1>1, <1>10, <2>1, <2>2, <2>4, PlainRun
  <2> QED
      BY <1>2, <2>1, <2>2, <2>3, <2>4
<1> QED
    BY <1>2, <1>4, <1>5, <1>7, <1>8, <1>10, <1>11

\* Both ways of reading.
LEMMA ReadsStep ==
    ASSUME BackupInv, PhaseInv, FifoInv, ProgressInv, StepInv, ReadData \/ ReadExtra, mishap' = {}
    PROVE  FifoInv' /\ ProgressInv' /\ StepInv'
<1>1. /\ Len(data) \in Nat /\ Len(data) <= PipeSize /\ fileBytes \in Nat /\ dataChunkBytes \in Nat
      /\ firstDataPacket \in BOOLEAN /\ data \in Seq(DataByte) /\ current \in 0 .. F
    BY DEF BackupInv, DataInv, ChunkInv, PhaseInv
<1>2. R \in Nat /\ R > 0 /\ M \in Nat /\ M >= 2 * R
    BY FilesType
<1>3. Received' = Received
    BY QuietSteps DEF Quiet, ReadData, ReadExtra
<1>4. ASSUME NEW n \in 1 .. Len(data), NEW header, TakeData(n, header), NEW c,
             \/ ~firstDataPacket /\ header = <<>> /\ c = dataChunkBytes
             \/ firstDataPacket /\ header = Struct("TWDATA", 0, <<>>) /\ c = R,
             c + n <= M, bpc \in {"data", "extra"}, bpc' \in {"data", "extra"},
             UNCHANGED <<twrp, current>>,
             firstDataPacket' = (c + n = M), dataChunkBytes' = IF c + n = M THEN 0 ELSE c + n
      PROVE  FifoInv' /\ ProgressInv' /\ StepInv'
  <2>1. /\ FifoInv' /\ ~BetweenFiles
        /\ digest' \in Seq(PlainByte) /\ Pure(digest', current) /\ digest' # <<>>
        /\ fileBytes' % M = (IF c + n = M THEN 0 ELSE c + n)
        /\ InStep(stream', digest', IF c + n = M THEN 0 ELSE c + n, current)
      BY <1>4, ReadStep
  <2>2. current' = current
      BY <1>4
  <2>3. current # 0 /\ Received = 2 * current
      BY <1>4, <2>1 DEF BetweenFiles
  <2>4. ~BetweenFiles'
      BY <1>3, <1>4, <2>2, <2>3 DEF BetweenFiles
  <2>5. c + n # 0
      BY <1>1, <1>2, <1>4
  <2>6. firstDataPacket' => fileBytes' % M = 0
      BY <1>4, <2>1
  <2>7. ~firstDataPacket' => dataChunkBytes' = fileBytes' % M /\ fileBytes' % M # 0
      BY <1>4, <2>1, <2>5
  <2>8. ProgressInv'
      BY <2>1, <2>2, <2>3, <2>4, <2>6, <2>7 DEF ProgressInv, Pure
  <2>9. StepInv'
      BY <1>4, <2>1, <2>2 DEF StepInv
  <2> QED
      BY <2>1, <2>8, <2>9
<1>5. CASE ReadData
  <2>1. PICK n, header, bytes :
          /\ n = IF Len(data) < R THEN Len(data) ELSE R
          /\ header = IF firstDataPacket THEN Struct("TWDATA", 0, <<>>) ELSE <<>>
          /\ bytes = dataChunkBytes + Len(header) + n
      OBVIOUS
  <2>2. /\ bpc = "data" /\ data # <<>> /\ TakeData(n, header)
        /\ dataChunkBytes' = (IF bytes = M THEN 0 ELSE bytes)
        /\ firstDataPacket' = (bytes = M) /\ bpc' \in {"data", "extra"} /\ UNCHANGED <<twrp, current>>
      BY <1>5, <2>1 DEF ReadData
  <2>3. n \in 1 .. Len(data) /\ n <= R
    <3>1. Len(data) # 0
        BY <1>1, <2>2
    <3> QED
        BY <1>1, <1>2, <2>1, <3>1
  <2>4. dataChunkBytes <= M - R /\ (firstDataPacket => dataChunkBytes = 0)
      BY <2>2 DEF BackupInv, ChunkInv
  <2>5. PICK c : c = dataChunkBytes + Len(header)
      OBVIOUS
  <2>6. /\ \/ ~firstDataPacket /\ header = <<>> /\ c = dataChunkBytes
           \/ firstDataPacket /\ header = Struct("TWDATA", 0, <<>>) /\ c = R
        /\ c + n <= M /\ bytes = c + n
    <3>1. CASE firstDataPacket
      <4>1. header = Struct("TWDATA", 0, <<>>) /\ Len(header) = R
          BY <2>1, <3>1, StructBytes
      <4> QED
          BY <1>2, <2>1, <2>3, <2>4, <2>5, <3>1, <4>1
    <3>2. CASE ~firstDataPacket
      <4>1. header = <<>> /\ Len(header) = 0
          BY <2>1, <3>2
      <4> QED
          BY <1>1, <1>2, <2>1, <2>3, <2>4, <2>5, <3>2, <4>1
    <3> QED
        BY <3>1, <3>2
  <2> QED
      BY <1>4, <2>2, <2>3, <2>6
<1>6. CASE ReadExtra
  <2>1. PICK left, n : left = M - dataChunkBytes /\ n = IF Len(data) < left THEN Len(data) ELSE left
      OBVIOUS
  <2>2. /\ bpc = "extra" /\ data # <<>> /\ TakeData(n, <<>>)
        /\ dataChunkBytes' = (IF n = left THEN 0 ELSE dataChunkBytes + n)
        /\ firstDataPacket' = (n = left) /\ bpc' \in {"data", "extra"} /\ UNCHANGED <<twrp, current>>
      BY <1>6, <2>1 DEF ReadExtra
  <2>3. dataChunkBytes < M /\ ~firstDataPacket
      BY <2>2 DEF BackupInv, ChunkInv
  <2>4. n \in 1 .. Len(data) /\ dataChunkBytes + n <= M /\ (n = left <=> dataChunkBytes + n = M)
    <3>1. Len(data) # 0
        BY <1>1, <2>2
    <3> QED
        BY <1>1, <1>2, <2>1, <2>3, <3>1
  <2> QED
      BY <1>4, <2>2, <2>3, <2>4
<1> QED
    BY <1>5, <1>6

\* One byte more of data, within a chunk.
LEMMA OneMore ==
    ASSUME BackupInv, current \in 0 .. F, digest \in Seq(PlainByte), InStep(stream, digest, fileBytes % M, current),
           fileBytes % M # 0, NEW b \in PlainByte, DrainByte(b)
    PROVE  /\ InStep(stream', digest', fileBytes' % M, current)
           /\ digest' = digest \o <<b>>
<1>1. /\ fileBytes \in Nat /\ IsSequence(stream) /\ IsSequence(digest) /\ M \in Nat \ {0}
  <2>1. M # 0
      BY FilesType
  <2> QED
      BY <2>1, FilesType, SequenceForm DEF BackupInv, ChunkInv
<1>2. stream' = stream \o <<b>> /\ digest' = digest \o <<b>> /\ fileBytes' = fileBytes + 1
    BY <1>1, AppendIsConcatenation DEF DrainByte
<1>3. PICK c \in 1 .. M - 1 : c = fileBytes % M
    BY <1>1
<1>4. InStep(stream \o <<b>>, digest \o <<b>>, IF c + 1 = M THEN 0 ELSE c + 1, current)
    BY <1>1, <1>3, PlainAppend
<1>5. fileBytes' % M = IF c + 1 = M THEN 0 ELSE c + 1
  <2>1. /\ (fileBytes % M) + 1 < M => (fileBytes + 1) % M = (fileBytes % M) + 1
        /\ (fileBytes % M) + 1 = M => (fileBytes + 1) % M = 0
    <3>1. PICK k \in Nat : k = 1
        OBVIOUS
    <3> QED
        BY <1>1, <3>1, Remainder
  <2>2. c + 1 < M \/ c + 1 = M
      BY <1>1
  <2>3. c + 1 < M => (fileBytes + 1) % M = c + 1
      BY <1>3, <2>1
  <2>4. c + 1 = M => (fileBytes + 1) % M = 0
      BY <1>3, <2>1
  <2>5. c + 1 < M => c + 1 # M
      BY <1>1
  <2> QED
      BY <1>2, <2>2, <2>3, <2>4, <2>5
<1> QED
    BY <1>2, <1>4, <1>5

\* What has been read and what is on its way stay as they are when zeros follow a complete file.
LEMMA ReadSame ==
    ASSUME digest \in Seq(PlainByte), current \in 0 .. F, Have = Size(current), current' = current,
           digest' = digest \/ (Len(digest') \in Nat /\ Len(digest') >= Len(digest))
    PROVE  Have' = Have /\ ReadFile' = ReadFile /\ ReadCount' = ReadCount
<1>1. PICK k \in Nat, z \in Nat : k = Len(digest) /\ z = Size(current) /\ z <= k
    BY HaveType
<1>2. Size(current)' = z
    BY <1>1 DEF Size
<1>3. Len(digest') \in Nat /\ Len(digest') >= z
    BY <1>1
<1>4. Have' = z
    BY <1>2, <1>3 DEF Have
<1>5. Have' = Have
    BY <1>1, <1>4
<1>6. ReadFile' = ReadFile
    BY <1>5 DEF ReadFile
<1>7. Size(ReadFile)' = Size(ReadFile)
    BY <1>6 DEF Size
<1> QED
    BY <1>5, <1>6, <1>7 DEF ReadCount

\* The loop after TWEOF, and the trailer.
LEMMA DrainStep ==
    ASSUME BackupInv, WriterInv, PhaseInv, FifoInv, ProgressInv, StepInv, Drain, mishap' = {}
    PROVE  FifoInv' /\ ProgressInv' /\ StepInv'
<1>1. /\ data \in Seq(DataByte) /\ Len(data) \in Nat /\ data # <<>> /\ digest \in Seq(PlainByte) /\ Pure(digest, current)
      /\ Len(digest) \in Nat /\ bpc = "drain" /\ bpc' = "drain" /\ R \in Nat /\ R > 0
      /\ UNCHANGED <<twrp, current>> /\ current' = current
    BY FilesType DEF BackupInv, DataInv, ProgressInv, Drain
<1>2. Received = 2 * current + 1 /\ current # 0 /\ current \in 0 .. F
    BY <1>1, DrainPlace
<1>3. PICK n : n = IF Len(data) < R THEN Len(data) ELSE R
    OBVIOUS
<1>4. /\ DrainByte(Head(data)) /\ data' = SubSeq(data, n + 1, Len(data))
      /\ {} = mishap \cup Overrun \cup (IF n > 1 THEN {"lost"} ELSE {})
                    \cup (IF Head(data).f # current THEN {"early"} ELSE {})
    BY <1>3 DEF Drain
<1>5. fileBytes % M # 0 /\ ~(n > 1) /\ Head(data).f = current
  <2>1. Overrun = {} /\ (IF n > 1 THEN {"lost"} ELSE {}) = {} /\ (IF Head(data).f # current THEN {"early"} ELSE {}) = {}
      BY <1>4
  <2> QED
      BY <2>1 DEF Overrun
<1>6. n = 1 /\ 1 \in 1 .. Len(data) /\ Head(data) = data[1] /\ data[1] \in DataByte
  <2>1. PICK l \in Nat : l = Len(data) /\ l # 0
      BY <1>1
  <2>2. n = IF l < R THEN l ELSE R
      BY <1>3, <2>1
  <2>3. n = 1
      BY <1>1, <1>5, <2>1, <2>2
  <2>4. 1 \in 1 .. Len(data)
      BY <2>1
  <2> QED
      BY <1>1, <2>3, <2>4
<1>7. PICK b \in PlainByte : b = data[1]
    BY <1>6 DEF DataByte, PlainByte
<1>8. InStep(stream', digest', fileBytes' % M, current) /\ digest' = digest \o <<b>>
    BY <1>1, <1>2, <1>4, <1>5, <1>6, <1>7, OneMore DEF StepInv
<1>9. /\ digest' \in Seq(PlainByte) /\ Pure(digest', current) /\ Len(digest') = Len(digest) + 1
  <2>1. PICK k \in 1 .. Len(data) : k = 1
      BY <1>6
  <2>2. SubSeq(data, 1, k) = <<b>>
    <3>1. SubSeq(data, 1, k) \in Seq(DataByte) /\ Len(SubSeq(data, 1, k)) = 1
        BY <1>1, <2>1, Taken
    <3>2. SubSeq(data, 1, k)[1] = b
        BY <1>1, <1>7, <2>1
    <3>3. PICK x : x = SubSeq(data, 1, k)
        OBVIOUS
    <3>4. PICK y : y = <<b>>
        OBVIOUS
    <3>5. IsSequence(x) /\ Len(x) = 1 /\ x[1] = b
        BY <3>1, <3>2, <3>3, SequenceForm
    <3>6. IsSequence(y) /\ Len(y) = 1 /\ y[1] = b
      <4>1. Len(<<b>>) = 1 /\ <<b>> = [p \in 1 .. 1 |-> <<b>>[p]] /\ <<b>>[1] = b
          OBVIOUS
      <4> QED
          BY <3>4, <4>1 DEF IsSequence
    <3>7. \A p \in 1 .. Len(x) : x[p] = y[p]
        BY <3>5, <3>6
    <3>8. x = y
        BY <3>5, <3>6, <3>7, SequencesEqual
    <3> QED
        BY <3>3, <3>4, <3>8
  <2>3. \A i \in 1 .. k : data[i].f = current
      BY <1>5, <1>6, <2>1
  <2>4. /\ digest \o <<b>> \in Seq(PlainByte) /\ Len(digest \o <<b>>) = Len(digest) + k
        /\ Pure(digest \o <<b>>, current)
      BY <1>1, <1>2, <2>2, <2>3, TakePure
  <2> QED
      BY <1>8, <2>1, <2>4
<1>10. FifoInv'
  <2>1. PICK k \in 1 .. Len(data) : k = 1
      BY <1>6
  <2>2. \A i \in 1 .. k : data[i].f = current
      BY <1>5, <1>6, <2>1
  <2> QED
      BY <1>1, <1>2, <1>4, <1>6, <1>9, <2>1, <2>2, FifoTaken
<1>11. ProgressInv'
    BY <1>1, <1>2, <1>9 DEF ProgressInv, BetweenFiles, Pure
<1>12. StepInv'
    BY <1>1, <1>8 DEF StepInv
<1> QED
    BY <1>10, <1>11, <1>12

LEMMA DrainNothingStep ==
    ASSUME BackupInv, WriterInv, PhaseInv, FifoInv, ProgressInv, StepInv, DrainNothing, mishap' = {},
           tpc # "failed"
    PROVE  FifoInv' /\ ProgressInv' /\ StepInv'
<1>1. /\ data = <<>> /\ UNCHANGED data /\ digest \in Seq(PlainByte) /\ Pure(digest, current)
      /\ Len(digest) \in Nat /\ bpc = "drain" /\ bpc' = "drain"
      /\ UNCHANGED twrp /\ current' = current /\ DrainByte(Zero) /\ fileBytes % M # 0
    BY DEF ProgressInv, DrainNothing, Overrun, fifos
<1>2. Received = 2 * current + 1 /\ current # 0 /\ current \in 0 .. F
    BY <1>1, DrainPlace
<1>3. Have = Size(current)
    BY <1>1, <1>2, FileComplete
<1>4. Len(digest) >= Size(current)
    BY <1>1, <1>2, <1>3, HaveType
<1>5. Zero \in PlainByte
    BY DEF Zero, Byte, PlainByte
<1>6. InStep(stream', digest', fileBytes' % M, current) /\ digest' = digest \o <<Zero>>
    BY <1>1, <1>2, <1>5, OneMore DEF StepInv
<1>7. digest' \in Seq(PlainByte) /\ Pure(digest', current) /\ Len(digest') = Len(digest) + 1
  <2>1. Zeros(1) = <<Zero>>
      BY DEF Zeros
  <2>2. PICK k \in Nat : k = 1
      OBVIOUS
  <2>3. /\ Len(digest \o Zeros(k)) = Len(digest) + k /\ Pure(digest \o Zeros(k), current)
        /\ digest \o Zeros(k) \in Seq(PlainByte)
      BY <1>1, <1>2, <1>4, PadPure
  <2> QED
      BY <1>6, <2>1, <2>2, <2>3
<1>8. ReadFile' = ReadFile /\ ReadCount' = ReadCount
  <2>1. Len(digest') \in Nat /\ Len(digest') >= Len(digest)
      BY <1>1, <1>7
  <2> QED
      BY <1>1, <1>2, <1>3, <2>1, ReadSame
<1>9. FifoInv'
    BY <1>1, <1>8, FifoSame, WrittenSame
<1>10. ProgressInv'
    BY <1>1, <1>2, <1>7 DEF ProgressInv, BetweenFiles, Pure
<1>11. StepInv'
    BY <1>1, <1>6 DEF StepInv
<1> QED
    BY <1>9, <1>10, <1>11

LEMMA TrailerStep ==
    ASSUME BackupInv, WriterInv, PhaseInv, FifoInv, ProgressInv, StepInv, WriteTrailer, tpc # "failed"
    PROVE  FifoInv' /\ ProgressInv' /\ StepInv'
<1>1. /\ data = <<>> /\ UNCHANGED data /\ digest \in Seq(PlainByte) /\ Pure(digest, current)
      /\ Len(digest) \in Nat /\ bpc = "drain" /\ bpc' = "data" /\ IsSequence(stream)
      /\ UNCHANGED twrp /\ current' = current /\ fileBytes \in Nat
      /\ stream' = stream \o Padding \o Struct("MD5TRAILER", 0, digest \o Padding)
      /\ digest' = digest \o Padding /\ firstDataPacket' = TRUE /\ fileBytes' = 0
    BY DEF ProgressInv, WriteTrailer, fifos, hist, BackupInv, ChunkInv
<1>2. Received = 2 * current + 1 /\ current # 0 /\ current \in 0 .. F
    BY <1>1, DrainPlace
<1>3. Have = Size(current)
    BY <1>1, <1>2, FileComplete
<1>4. Len(digest) >= Size(current)
    BY <1>1, <1>2, <1>3, HaveType
<1>5. M \in Nat \ {0}
    BY FilesType
<1>6. PICK c \in 0 .. M - 1 : c = fileBytes % M
    BY <1>1, <1>5, Quotient
<1>7. PICK n \in Nat : n = (M - c) % M /\ (c = 0 => n = 0) /\ (c # 0 => c + n = M)
  <2>1. CASE c = 0
    <3>1. M = 1 * M + 0 /\ 1 \in Nat /\ 0 \in 0 .. M - 1
        BY <1>5
    <3>2. M % M = 0
        BY <1>5
    <3>3. M - c = M
        BY <1>5, <2>1
    <3> QED
        BY <2>1, <3>2, <3>3
  <2>2. CASE c # 0
    <3>1. M - c \in 0 .. M - 1 /\ c + (M - c) = M
        BY <1>5, <2>2
    <3>2. (M - c) % M = M - c
        BY <1>5, <3>1
    <3> QED
        BY <2>2, <3>1, <3>2
  <2> QED
      BY <2>1, <2>2
<1>8. Padding = Zeros(n)
    BY <1>6, <1>7 DEF Padding
<1>9. /\ Padding \in Seq(PlainByte) /\ Len(Padding) = n /\ digest' \in Seq(PlainByte)
      /\ Len(digest') = Len(digest) + n /\ Pure(digest', current)
    BY <1>1, <1>2, <1>4, <1>8, PadPure
<1>10. InStep(stream \o Padding, digest', 0, current) /\ IsSequence(stream \o Padding)
  <2>1. CASE c = 0
    <3>1. n = 0
        BY <1>7, <2>1
    <3>2. Padding = <<>>
        BY <1>9, <3>1
    <3>3. IsSequence(digest)
        BY <1>1, SequenceForm
    <3>4. stream \o Padding = stream /\ digest \o Padding = digest
        BY <1>1, <3>2, <3>3, EmptyAdds
    <3> QED
        BY <1>1, <1>6, <2>1, <3>4 DEF StepInv
  <2>2. CASE c # 0
    <3>1. PICK k \in 1 .. M - 1 : k = c
        BY <1>5, <2>2
    <3>2. PICK x \in Seq(PlainByte) : x = Padding
        BY <1>9
    <3>3. k + Len(x) = M /\ k + Len(x) <= M
      <4>1. k + n = M
          BY <1>7, <2>2, <3>1
      <4>2. Len(x) = n
          BY <1>9, <3>2
      <4>3. M <= M
          BY <1>5
      <4> QED
          BY <4>1, <4>2, <4>3
    <3>4. InStep(stream, digest, k, current)
        BY <1>6, <3>1 DEF StepInv
    <3>5. InStep(stream \o x, digest \o x, IF k + Len(x) = M THEN 0 ELSE k + Len(x), current)
        BY <1>1, <1>2, <3>3, <3>4, PlainRun
    <3>6. IsSequence(stream \o x)
      <4>1. IsSequence(x)
          BY SequenceForm
      <4> QED
          BY <1>1, <4>1, Concatenation
    <3> QED
        BY <1>1, <3>2, <3>3, <3>5, <3>6
  <2> QED
      BY <2>1, <2>2
<1>11. InStep(stream', digest', 0, current)
  <2>1. PICK s : s = stream \o Padding
      OBVIOUS
  <2>2. PICK d \in Seq(PlainByte) : d = digest'
      BY <1>9
  <2>3. PICK t \in {"TWSTREAMHDR", "TWFN", "TWIMG", "TWDATA", "MD5TRAILER", "TWENDADB"} : t = "MD5TRAILER"
      OBVIOUS
  <2>4. PICK g \in 0 .. F : g = 0
      BY FilesType
  <2>5. IsSequence(s) /\ InStep(s, d, 0, current) /\ t \notin {"TWFN", "TWIMG"} /\ t # "TWDATA"
      BY <1>10, <2>1, <2>2, <2>3
  <2>6. LET s1 == s \o Struct(t, g, d) IN
          InStep(s1, IF t \in {"TWFN", "TWIMG"} THEN <<>> ELSE d, IF t = "TWDATA" THEN R ELSE 0,
                 IF t \in {"TWFN", "TWIMG"} THEN g ELSE current)
      BY <1>2, <2>5, StructureAppend
  <2> QED
      BY <1>1, <2>1, <2>2, <2>3, <2>4, <2>5, <2>6
<1>12. Have' = Have /\ ReadFile' = ReadFile /\ ReadCount' = ReadCount
  <2>1. Len(digest') \in Nat /\ Len(digest') >= Len(digest)
      BY <1>1, <1>9
  <2> QED
      BY <1>1, <1>2, <1>3, <2>1, ReadSame
<1>13. FifoInv'
    BY <1>1, <1>12, FifoSame, WrittenSame
<1>14. 0 % M = 0
    BY <1>5
<1>15. ProgressInv'
  <2>1. Size(current)' = Size(current)
      BY <1>1 DEF Size
  <2>2. Have' = Size(current)'
      BY <1>3, <1>12, <2>1
  <2>3. bpc' # "extra"
      BY <1>1
  <2> QED
      BY <1>1, <1>2, <1>9, <2>2, <2>3 DEF ProgressInv, Pure
<1>16. StepInv'
    BY <1>1, <1>11, <1>14 DEF StepInv
<1> QED
    BY <1>13, <1>15, <1>16

\* The rest of a chunk is given up when TWRP has closed the FIFO.
LEMMA ExtraEndsStep ==
    ASSUME BackupInv, WriterInv, PhaseInv, FifoInv, ProgressInv, StepInv, ExtraEnds
    PROVE  FifoInv' /\ ProgressInv' /\ StepInv'
<1>1. /\ data = <<>> /\ ~writer /\ bpc = "extra" /\ bpc' = "data" /\ firstDataPacket' = TRUE
      /\ UNCHANGED <<data, twrp, current, fileBytes, digest, stream>> /\ current' = current
      /\ digest' = digest /\ digest # <<>> /\ digest \in Seq(PlainByte) /\ current \in 0 .. F
    BY DEF ExtraEnds, fifos, hist, ProgressInv, PhaseInv
<1>2. ~firstDataPacket
    BY <1>1 DEF BackupInv, ChunkInv
<1>3. ~BetweenFiles
    BY <1>2 DEF ProgressInv
<1>4. Received' = Received
    BY <1>1, QuietSteps DEF Quiet
<1>5. ~BetweenFiles'
    BY <1>1, <1>3, <1>4 DEF BetweenFiles
<1>6. current # 0 /\ current - 1 \in 0 .. F /\ Size(current) \in Nat /\ Size(current) > 0
  <2>1. current # 0
      BY <1>1, <1>3 DEF BetweenFiles
  <2> QED
      BY <1>1, <2>1, FilesType, SizeType
<1>7. Have = Size(current)
  <2> SUFFICES ASSUME Have # Size(current) PROVE FALSE
      OBVIOUS
  <2>1. Len(digest) \in Nat /\ Len(digest) # 0
      BY <1>1
  <2>2. Have = Len(digest) /\ Have > 0 /\ Have < Size(current)
      BY <1>6, <2>1 DEF Have
  <2>3. ReadFile = current /\ ReadCount = Have
      BY <2>2 DEF ReadFile, ReadCount
  <2>4. WrittenFile = current /\ WrittenCount = Have
      BY <1>1, <2>3 DEF FifoInv
  <2>5. CASE AtFile
    <3>1. written = Size(file)
        BY <1>1, <2>5 DEF AtFile, WriterInv
    <3> QED
        BY <2>2, <2>4, <2>5, <3>1 DEF WrittenFile, WrittenCount
  <2>6. CASE ~AtFile
      BY <2>2, <2>4, <2>6 DEF WrittenFile, WrittenCount
  <2> QED
      BY <2>5, <2>6
<1>8. Have' = Have /\ ReadFile' = ReadFile /\ ReadCount' = ReadCount
    BY <1>1, <1>7, ReadSame
<1>9. FifoInv'
    BY <1>1, <1>8, FifoSame, WrittenSame
<1>10. ProgressInv'
  <2>1. Size(current)' = Size(current)
      BY <1>1 DEF Size
  <2>2. Have' = Size(current)'
      BY <1>7, <1>8, <2>1
  <2> QED
      BY <1>1, <1>5, <1>6, <2>2 DEF ProgressInv, Pure
<1>11. StepInv'
    BY <1>1 DEF StepInv
<1> QED
    BY <1>9, <1>10, <1>11

-----------------------------------------------------------------------------
(* bu answers *)

\* A restore that a structure is written to between the chunks.
LEMMA AnswerInStep ==
    ASSUME BackupInv, current \in 0 .. F, digest \in Seq(PlainByte), InStep(stream, digest, 0, current),
           NEW t \in {"TWSTREAMHDR", "TWFN", "TWIMG", "TWENDADB"}, NEW g \in 0 .. F,
           t \in {"TWFN", "TWIMG"} => g = current + 1 /\ Pure(digest, current) /\ Len(digest) >= Size(current),
           stream' = stream \o Struct(t, g, <<>>)
    PROVE  /\ t \in {"TWFN", "TWIMG"} => InStep(stream', <<>>, 0, g)
           /\ t \notin {"TWFN", "TWIMG"} => InStep(stream', digest, 0, current)
           /\ t = "TWENDADB" => Restore(stream').end
<1>1. IsSequence(stream)
    BY DEF BackupInv
<1>2. PICK type \in {"TWSTREAMHDR", "TWFN", "TWIMG", "TWDATA", "MD5TRAILER", "TWENDADB"} :
          type = t /\ type # "MD5TRAILER" /\ type # "TWDATA"
    OBVIOUS
<1>3. LET s1 == stream \o Struct(type, g, <<>>) IN
        /\ IsSequence(s1)
        /\ InStep(s1, IF type \in {"TWFN", "TWIMG"} THEN <<>> ELSE digest, IF type = "TWDATA" THEN R ELSE 0,
                  IF type \in {"TWFN", "TWIMG"} THEN g ELSE current)
        /\ type = "TWENDADB" => Restore(s1).end
    BY <1>1, <1>2, StructureAppend
<1> QED
    BY <1>2, <1>3

\* The header of the next file comes when all of the last one has been read.
LEMMA FileHeaderStep ==
    ASSUME BackupInv, WriterInv, PhaseInv, FifoInv, ProgressInv, StepInv,
           NEW kind \in {"TWFN", "TWIMG"}, ReceiveFileHeader(kind)
    PROVE  FifoInv' /\ ProgressInv' /\ StepInv'
<1>1. /\ Receive(kind) /\ bpc = "control" /\ bpc' = "data" /\ current' = Head(control).file
      /\ digest' = <<>> /\ UNCHANGED <<data, twrp, firstDataPacket, fileBytes>>
      /\ stream' = stream \o Struct(kind, current', <<>>)
    BY DEF ReceiveFileHeader, Receive
<1>2. /\ current \in 0 .. F /\ digest \in Seq(PlainByte) /\ Len(digest) \in Nat /\ Pure(digest, current)
      /\ control # <<>> /\ Head(control) = control[1] /\ Len(control) \in Nat /\ control[1].file \in 0 .. F
  <2>1. /\ current \in 0 .. F /\ digest \in Seq(PlainByte) /\ Len(digest) \in Nat /\ Pure(digest, current)
        /\ control # <<>>
      BY <1>1 DEF PhaseInv, ProgressInv, Receive
  <2> DEFINE T == [type : {"TWSTREAMHDR", "TWFN", "TWIMG", "TWEOF", "TWENDADB", "TWERROR"}, file : 0 .. F]
  <2>2. control \in Seq(T)
      BY DEF BackupInv, ControlInv
  <2> HIDE DEF T
  <2>3. control[1] \in T /\ Head(control) = control[1] /\ Len(control) \in Nat
      BY <2>1, <2>2
  <2> QED
      BY <2>1, <2>3 DEF T
<1>3. current' = current + 1 /\ Received = 2 * current + 1 /\ current' \in 1 .. F
  <2>1. 1 \in 1 .. Len(control) /\ control[1].type \in {"TWFN", "TWIMG"} /\ control[1].file \in 0 .. F
      BY <1>1, <1>2 DEF Receive
  <2>2. 2 * control[1].file = Received + 1
      BY <2>1 DEF PhaseInv
  <2>3. Received = 2 * current \/ Received = 2 * current + 1
      BY <1>1 DEF PhaseInv
  <2>4. PICK f \in 0 .. F : f = current' /\ 2 * f = Received + 1
      BY <1>1, <1>2, <2>1, <2>2
  <2> QED
      BY <1>2, <2>3, <2>4, FilesType
<1>4. fileBytes = 0 /\ firstDataPacket /\ Have = Size(current)
  <2>1. BetweenFiles
      BY <1>1, <1>2, <1>3 DEF BetweenFiles
  <2> QED
      BY <2>1 DEF ProgressInv
<1>5. 0 % M = 0
    BY FilesType
<1>6. Len(digest) >= Size(current)
    BY <1>2, <1>4, HaveType
<1>7. InStep(stream', <<>>, 0, current')
  <2>1. InStep(stream, digest, 0, current)
      BY <1>4, <1>5 DEF StepInv
  <2>2. PICK g \in 0 .. F : g = current'
      BY <1>3
  <2>3. PICK t \in {"TWSTREAMHDR", "TWFN", "TWIMG", "TWENDADB"} : t = kind /\ t \in {"TWFN", "TWIMG"}
      OBVIOUS
  <2>4. InStep(stream', <<>>, 0, g)
      BY <1>1, <1>2, <1>3, <1>6, <2>1, <2>2, <2>3, AnswerInStep
  <2> QED
      BY <2>2, <2>4
<1>8. ReadFile' = ReadFile /\ ReadCount' = ReadCount
  <2>1. \A f : Size(f)' = Size(f)
      BY DEF Size
  <2>2. Size(current') \in Nat /\ Size(current') > 0 /\ Size(0) = 0
      BY <1>3, SizeType
  <2>3. Have' = 0
    <3>1. Len(digest') = 0 /\ Size(current)' = Size(current')
        BY <1>1 DEF Size
    <3> QED
        BY <2>2, <3>1 DEF Have
  <2>4. current' # 0 /\ current' - 1 = current
      BY <1>2, <1>3
  <2>5. ReadFile' = current
      BY <2>3, <2>4 DEF ReadFile
  <2>6. ReadCount' = Size(current)
    <3>1. Size(ReadFile)' = Size(current)
        BY <2>5 DEF Size
    <3> QED
        BY <2>3, <3>1 DEF ReadCount
  <2>7. ReadFile = current
    <3>1. current # 0 => Have > 0
        BY <1>2, <1>4, SizeType
    <3> QED
        BY <3>1 DEF ReadFile
  <2>8. ReadCount = Size(current)
      BY <1>4, <2>7 DEF ReadCount
  <2> QED
      BY <2>5, <2>6, <2>7, <2>8
<1>9. FifoInv'
    BY <1>1, <1>8, FifoSame, WrittenSame
<1>10. Received' = Received + 1
  <2>1. bpc' # "drain"
      BY <1>1
  <2> QED
      BY <1>1, <2>1, AnswerCounts
<1>11. ProgressInv'
  <2>1. Received' = 2 * current' /\ current' # 0
      BY <1>2, <1>3, <1>10
  <2>2. ~BetweenFiles'
      BY <1>1, <2>1 DEF BetweenFiles
  <2>3. digest' \in Seq(PlainByte) /\ Len(digest') = 0
      BY <1>1
  <2>4. Pure(digest, current)'
      BY <2>3 DEF Pure
  <2>5. firstDataPacket' /\ fileBytes' % M = 0
      BY <1>1, <1>4, <1>5
  <2> QED
      BY <1>1, <2>1, <2>2, <2>3, <2>4, <2>5 DEF ProgressInv
<1>12. StepInv'
    BY <1>1, <1>4, <1>5, <1>7 DEF StepInv
<1> QED
    BY <1>9, <1>11, <1>12

\* Nothing changes for bu's own counters.
LEMMA BuSame ==
    ASSUME ProgressInv, StepInv, UNCHANGED <<digest, firstDataPacket, fileBytes, stream, current>>,
           dataChunkBytes' = dataChunkBytes \/ firstDataPacket, bpc' # "finished", bpc' # "extra" \/ bpc = "extra",
           bpc = "drain" => bpc' = "drain", bpc' # "drain" => Received' = Received
    PROVE  ProgressInv' /\ StepInv' /\ ReadFile' = ReadFile /\ ReadCount' = ReadCount
<1>1. /\ digest' = digest /\ firstDataPacket' = firstDataPacket /\ fileBytes' = fileBytes /\ stream' = stream
      /\ current' = current
    OBVIOUS
<1>2. Have' = Have /\ Size(current)' = Size(current)
    BY <1>1 DEF Have, Size
<1>3. ReadFile' = ReadFile
    BY <1>1, <1>2 DEF ReadFile
<1>4. Size(ReadFile)' = Size(ReadFile)
    BY <1>3 DEF Size
<1>5. ReadCount' = ReadCount
    BY <1>2, <1>3, <1>4 DEF ReadCount
<1>6. BetweenFiles' => BetweenFiles
    BY <1>1 DEF BetweenFiles
<1>7. Pure(digest, current)'
    BY <1>1 DEF ProgressInv, Pure
<1>8. ProgressInv'
    BY <1>1, <1>2, <1>6, <1>7 DEF ProgressInv
<1>9. StepInv'
    BY <1>1 DEF StepInv
<1> QED
    BY <1>3, <1>5, <1>8, <1>9

\* The stream header comes first.
LEMMA StreamHeaderStep ==
    ASSUME BackupInv, WriterInv, PhaseInv, FifoInv, ProgressInv, StepInv, ReceiveStreamHeader
    PROVE  FifoInv' /\ ProgressInv' /\ StepInv'
<1>1. /\ Receive("TWSTREAMHDR") /\ bpc = "control" /\ bpc' = "data" /\ current' = current
      /\ UNCHANGED <<data, twrp, digest, firstDataPacket, fileBytes>>
      /\ stream' = stream \o Struct("TWSTREAMHDR", 0, <<>>) /\ digest' = digest
    BY DEF ReceiveStreamHeader, Receive, hist
<1>2. /\ current \in 0 .. F /\ digest \in Seq(PlainByte)
    BY DEF PhaseInv, ProgressInv
<1>3. Received = 0
  <2>1. Received \in Nat /\ Received + 1 \in 1 .. 2 * F + 2 /\ Command(Received + 1) = "TWSTREAMHDR"
      BY <1>1, ReceiveStep
  <2>2. PICK k \in 1 .. 2 * F + 2 : k = Received + 1
      BY <2>1
  <2>3. k = 1
      BY <2>1, <2>2, CommandPlace
  <2> QED
      BY <2>1, <2>2, <2>3
<1>4. current = 0
  <2>1. Received = 2 * current \/ Received = 2 * current + 1
      BY <1>1 DEF PhaseInv
  <2> QED
      BY <1>2, <1>3, <2>1, FilesType
<1>5. fileBytes = 0 /\ firstDataPacket /\ Have = Size(current) /\ BetweenFiles
  <2>1. BetweenFiles
      BY <1>1, <1>4 DEF BetweenFiles
  <2> QED
      BY <2>1 DEF ProgressInv
<1>6. 0 % M = 0
    BY FilesType
<1>7. InStep(stream', digest', 0, current')
  <2>1. InStep(stream, digest, 0, current)
      BY <1>5, <1>6 DEF StepInv
  <2>2. PICK g \in 0 .. F : g = 0
      BY FilesType
  <2>3. PICK t \in {"TWSTREAMHDR", "TWFN", "TWIMG", "TWENDADB"} : t = "TWSTREAMHDR" /\ t \notin {"TWFN", "TWIMG"}
      OBVIOUS
  <2>4. InStep(stream', digest, 0, current)
      BY <1>1, <1>2, <2>1, <2>2, <2>3, AnswerInStep
  <2> QED
      BY <1>1, <2>4
<1>8. Have' = Have /\ ReadFile' = ReadFile /\ ReadCount' = ReadCount
    BY <1>1, <1>2, <1>5, ReadSame
<1>9. FifoInv'
    BY <1>1, <1>8, FifoSame, WrittenSame
<1>10. ProgressInv'
  <2>1. Have' = Size(current)'
      BY <1>1, <1>5, <1>8 DEF Size
  <2>2. Pure(digest, current)'
      BY <1>1 DEF ProgressInv, Pure
  <2>3. digest' = <<>>
      BY <1>1, <1>4 DEF ProgressInv
  <2> QED
      BY <1>1, <1>2, <1>5, <2>1, <2>2, <2>3 DEF ProgressInv
<1>11. StepInv'
    BY <1>1, <1>5, <1>6, <1>7 DEF StepInv
<1> QED
    BY <1>9, <1>10, <1>11

\* And the end last.
LEMMA EndStep ==
    ASSUME BackupInv, WriterInv, PhaseInv, FifoInv, ProgressInv, StepInv, ReceiveEnd
    PROVE  FifoInv' /\ ProgressInv' /\ StepInv'
<1>1. /\ Receive("TWENDADB") /\ bpc = "control" /\ bpc' = "finished" /\ current' = current
      /\ UNCHANGED <<data, twrp, digest, firstDataPacket, fileBytes>>
      /\ stream' = stream \o Struct("TWENDADB", 0, <<>>) /\ digest' = digest
    BY DEF ReceiveEnd, Receive, hist
<1>2. /\ current \in 0 .. F /\ digest \in Seq(PlainByte)
    BY DEF PhaseInv, ProgressInv
<1>3. Received = 2 * F + 1
  <2>1. Received \in Nat /\ Received + 1 \in 1 .. 2 * F + 2 /\ Command(Received + 1) = "TWENDADB"
      BY <1>1, ReceiveStep
  <2>2. PICK k \in 1 .. 2 * F + 2 : k = Received + 1
      BY <2>1
  <2>3. k = 2 * F + 2
      BY <2>1, <2>2, CommandPlace
  <2> QED
      BY <2>1, <2>2, <2>3, FilesType
<1>4. current = F
  <2>1. Received = 2 * current \/ Received = 2 * current + 1
      BY <1>1 DEF PhaseInv
  <2> QED
      BY <1>2, <1>3, <2>1, FilesType
<1>5. fileBytes = 0 /\ firstDataPacket /\ Have = Size(current)
  <2>1. Received # 2 * current
      BY <1>3, <1>4, FilesType
  <2>2. BetweenFiles
      BY <1>1, <2>1 DEF BetweenFiles
  <2> QED
      BY <2>2 DEF ProgressInv
<1>6. 0 % M = 0
    BY FilesType
<1>7. InStep(stream', digest', 0, current') /\ Restore(stream').end
  <2>1. InStep(stream, digest, 0, current)
      BY <1>5, <1>6 DEF StepInv
  <2>2. PICK g \in 0 .. F : g = 0
      BY FilesType
  <2>3. PICK t \in {"TWSTREAMHDR", "TWFN", "TWIMG", "TWENDADB"} : t = "TWENDADB" /\ t \notin {"TWFN", "TWIMG"}
      OBVIOUS
  <2>4. InStep(stream', digest, 0, current) /\ Restore(stream').end
      BY <1>1, <1>2, <2>1, <2>2, <2>3, AnswerInStep
  <2> QED
      BY <1>1, <2>4
<1>8. Have' = Have /\ ReadFile' = ReadFile /\ ReadCount' = ReadCount
    BY <1>1, <1>2, <1>5, ReadSame
<1>9. FifoInv'
    BY <1>1, <1>8, FifoSame, WrittenSame
<1>10. ProgressInv'
  <2>1. Have' = Size(current)'
      BY <1>1, <1>5, <1>8 DEF Size
  <2>2. Pure(digest, current)'
      BY <1>1 DEF ProgressInv, Pure
  <2>3. current' = 0 => digest' = <<>>
      BY <1>1 DEF ProgressInv
  <2> QED
      BY <1>1, <1>2, <1>5, <1>6, <2>1, <2>2, <2>3 DEF ProgressInv
<1>11. StepInv'
    BY <1>1, <1>5, <1>6, <1>7 DEF StepInv
<1> QED
    BY <1>9, <1>10, <1>11

\* Every step.
LEMMA RestorableStep ==
    ASSUME BackupInv, RestorableInv, Next
    PROVE  RestorableInv'
<1>1. WriterInv /\ PhaseInv
    BY DEF RestorableInv
<1>2. WriterInv' /\ PhaseInv'
    BY <1>1, WriterStep, PhaseStep
<1> SUFFICES ASSUME tpc' # "failed", mishap' = {}
             PROVE  FifoInv' /\ ProgressInv' /\ StepInv'
    BY <1>2 DEF RestorableInv
\* A backup that has failed, or gone wrong, is not put right.
<1>3. tpc # "failed"
  <2>1. CASE TwrpStep
      BY <2>1 DEF TwrpStep, WriteStreamHeader, WriteFileHeader, OpenData, WriteData, CloseData, WriteTWEOF,
         Release, WriteStreamTrailer
  <2>2. CASE WriteOperation
      BY <2>2 DEF WriteOperation, BackupInv, FileInv
  <2>3. CASE BackupFails
      BY <2>3 DEF BackupFails
  <2>4. CASE Ended \/ (BuStep /\ ~WriteOperation)
    <3>1. tpc' = tpc
        BY <2>4 DEF Ended, BuStep, OpenFifos, NoCommand, ReceiveStreamHeader, ReceiveFileHeader, ReceiveTWEOF,
           ReceiveEnd, ReceiveError, Drain, DrainNothing, WriteTrailer, NoData, ReadData, ReadExtra, ExtraEnds,
           vars, twrp
    <3> QED
        BY <3>1
  <2> QED
      BY <2>1, <2>2, <2>3, <2>4 DEF Next
<1>4. mishap = {}
  <2>1. CASE TwrpStep \/ BackupFails
      BY <2>1 DEF TwrpStep, WriteStreamHeader, WriteFileHeader, OpenData, WriteData, CloseData, WriteTWEOF,
         Release, WriteStreamTrailer, BackupFails, hist
  <2>2. CASE Drain \/ DrainNothing
      BY <2>2 DEF Drain, DrainNothing
  <2>3. CASE ReadData
    <3>1. mishap' = mishap \/ mishap' = mishap \cup {"early"}
        BY <2>3 DEF ReadData, TakeData
    <3> QED
        BY <3>1
  <2>4. CASE ReadExtra
    <3>1. mishap' = mishap \/ mishap' = mishap \cup {"early"}
        BY <2>4 DEF ReadExtra, TakeData
    <3> QED
        BY <3>1
  <2>5. CASE Ended \/ (BuStep /\ ~(Drain \/ DrainNothing \/ ReadData \/ ReadExtra))
    <3>1. mishap' = mishap
        BY <2>5 DEF Ended, BuStep, WriteOperation, OpenFifos, NoCommand, ReceiveStreamHeader, ReceiveFileHeader,
           ReceiveTWEOF, ReceiveEnd, ReceiveError, WriteTrailer, NoData, ExtraEnds, vars, hist
    <3> QED
        BY <3>1
  <2> QED
      BY <2>1, <2>2, <2>3, <2>4, <2>5 DEF Next
<1>5. FifoInv /\ ProgressInv /\ StepInv
    BY <1>3, <1>4 DEF RestorableInv
\* What bu keeps is the same.
<1>6. ASSUME UNCHANGED <<digest, firstDataPacket, fileBytes, stream, current, data>>,
             dataChunkBytes' = dataChunkBytes, bpc' = bpc \/ (bpc # "drain" /\ bpc' \notin {"finished", "extra"}),
             bpc' # "drain" => Received' = Received,
             WrittenFile' = WrittenFile, WrittenCount' = WrittenCount
      PROVE  FifoInv' /\ ProgressInv' /\ StepInv'
  <2>1. CASE bpc' # "finished"
    <3>1. /\ bpc' # "extra" \/ bpc = "extra"
          /\ bpc = "drain" => bpc' = "drain"
        BY <1>6
    <3>2. ProgressInv' /\ StepInv' /\ ReadFile' = ReadFile /\ ReadCount' = ReadCount
        BY <1>5, <1>6, <2>1, <3>1, BuSame
    <3> QED
        BY <1>5, <1>6, <3>2, FifoSame
  <2>2. CASE bpc' = "finished"
    <3>1. bpc = "finished"
        BY <1>6, <2>2
    <3>2. /\ digest' = digest /\ firstDataPacket' = firstDataPacket /\ fileBytes' = fileBytes /\ stream' = stream
          /\ current' = current /\ dataChunkBytes' = dataChunkBytes /\ bpc' = bpc /\ data' = data
          /\ Received' = Received
        BY <1>6, <2>2, <3>1
    <3>3. Have' = Have /\ Size(current)' = Size(current) /\ (BetweenFiles' <=> BetweenFiles)
        BY <3>2 DEF Have, Size, BetweenFiles
    <3>4. ReadFile' = ReadFile
        BY <3>2, <3>3 DEF ReadFile
    <3>5. Size(ReadFile)' = Size(ReadFile)
        BY <3>4 DEF Size
    <3>6. ReadCount' = ReadCount
        BY <3>3, <3>5 DEF ReadCount
    <3>7. Pure(digest, current)'
        BY <1>5, <3>2 DEF ProgressInv, Pure
    <3>8. ProgressInv'
        BY <1>5, <3>2, <3>3, <3>7 DEF ProgressInv
    <3>9. StepInv'
        BY <1>5, <3>2 DEF StepInv
    <3> QED
        BY <1>5, <1>6, <3>4, <3>6, <3>8, <3>9, FifoSame
  <2> QED
      BY <2>1, <2>2
<1>7. CASE \/ WriteStreamHeader \/ WriteFileHeader \/ OpenData \/ CloseData \/ WriteTWEOF \/ Release
           \/ WriteStreamTrailer \/ Ended
  <2>1. UNCHANGED <<digest, firstDataPacket, fileBytes, stream, current, data, dataChunkBytes, bpc>>
      BY <1>7 DEF WriteStreamHeader, WriteFileHeader, OpenData, CloseData, WriteTWEOF, Release,
         WriteStreamTrailer, Ended, bu, hist, vars, fifos
  <2>2. Received' = Received
      BY <2>1 DEF Received
  <2>3. WrittenFile' = WrittenFile /\ WrittenCount' = WrittenCount
    <3>1. CASE Ended
      <4>1. UNCHANGED twrp
          BY <3>1 DEF Ended, vars
      <4> QED
          BY <1>1, <4>1, WrittenSame
    <3> QED
        BY <1>1, <1>7, <3>1, WrittenSame
  <2> QED
      BY <1>6, <2>1, <2>2, <2>3
<1>8. CASE \E n \in 1 .. R : WriteData(n)
  <2>1. PICK n \in 1 .. R : WriteData(n)
      BY <1>8
  <2>2. UNCHANGED <<digest, firstDataPacket, fileBytes, stream, current, dataChunkBytes, bpc>>
      BY <2>1 DEF WriteData, bu, hist
  <2>3. Received' = Received
      BY <2>2 DEF Received
  <2>4. Have' = Have
      BY <2>2 DEF Have, Size
  <2>5. ReadFile' = ReadFile
      BY <2>2, <2>4 DEF ReadFile
  <2>6. ReadCount' = ReadCount
      BY <2>4, <2>5 DEF ReadCount, Size
  <2>7. FifoInv'
      BY <1>1, <1>5, <2>1, <2>5, <2>6, WriteDataFifo
  <2>8. Pure(digest, current)' /\ Size(current)' = Size(current) /\ (BetweenFiles' <=> BetweenFiles)
      BY <1>5, <2>2, <2>3 DEF ProgressInv, Pure, Size, BetweenFiles
  <2>9. ProgressInv'
      BY <1>5, <2>2, <2>4, <2>8 DEF ProgressInv
  <2>10. StepInv'
      BY <1>5, <2>2 DEF StepInv
  <2> QED
      BY <2>7, <2>9, <2>10
<1>9. CASE BackupFails
    BY <1>9 DEF BackupFails
<1>10. CASE WriteOperation \/ OpenFifos \/ NoCommand \/ NoData
  <2>1. /\ UNCHANGED <<digest, firstDataPacket, fileBytes, stream, current, data, dataChunkBytes>>
        /\ bpc # "drain" /\ bpc # "finished" /\ bpc' \notin {"finished", "extra"}
      BY <1>10 DEF WriteOperation, OpenFifos, NoCommand, NoData, hist, fifos
  <2>2. Received' = Received
      BY <1>10, <2>1, QuietSteps DEF Quiet
  <2>3. WriteOperation \/ UNCHANGED twrp
      BY <1>10 DEF OpenFifos, NoCommand, NoData
  <2>4. WrittenFile' = WrittenFile /\ WrittenCount' = WrittenCount
      BY <1>1, <2>3, WrittenSame
  <2> QED
      BY <1>6, <2>1, <2>2, <2>4
<1>11. CASE ReceiveTWEOF
  <2>1. /\ UNCHANGED <<digest, firstDataPacket, fileBytes, stream, current, data, dataChunkBytes, twrp>>
        /\ bpc = "control" /\ bpc' = "drain"
      BY <1>11 DEF ReceiveTWEOF, Receive, hist
  <2>2. WrittenFile' = WrittenFile /\ WrittenCount' = WrittenCount
      BY <1>1, <2>1, WrittenSame
  <2> QED
      BY <1>6, <2>1, <2>2
<1>12. CASE ReceiveError
  <2>1. tpc = "failed"
      BY <1>12, ErrorMeansFailed DEF Refused
  <2> QED
      BY <1>3, <2>1
<1>13. CASE ReceiveStreamHeader
    BY <1>1, <1>5, <1>13, StreamHeaderStep
<1>14. CASE \E kind \in {"TWFN", "TWIMG"} : ReceiveFileHeader(kind)
    BY <1>1, <1>5, <1>14, FileHeaderStep
<1>15. CASE ReceiveEnd
    BY <1>1, <1>5, <1>15, EndStep
<1>16. CASE ReadData \/ ReadExtra
    BY <1>1, <1>5, <1>16, ReadsStep
<1>17. CASE Drain
    BY <1>1, <1>5, <1>17, DrainStep
<1>18. CASE DrainNothing
    BY <1>1, <1>3, <1>5, <1>18, DrainNothingStep
<1>19. CASE WriteTrailer
    BY <1>1, <1>3, <1>5, <1>19, TrailerStep
<1>20. CASE ExtraEnds
    BY <1>1, <1>5, <1>20, ExtraEndsStep
<1> QED
    BY <1>7, <1>8, <1>9, <1>10, <1>11, <1>12, <1>13, <1>14, <1>15, <1>16, <1>17, <1>18, <1>19, <1>20
    DEF Next, TwrpStep, BuStep

-----------------------------------------------------------------------------
(* The theorem *)

\* A step of neither process.
LEMMA RestorableStutter ==
    ASSUME RestorableInv, UNCHANGED vars
    PROVE  RestorableInv'
<1>1. /\ UNCHANGED <<control, listening, data, writer, tpc, file, written, bpc, writedata, compressed,
                     firstDataPacket, dataChunkBytes, fileBytes, digest, stream, current, strays, mishap>>
    BY DEF vars, fifos, twrp, bu, hist
<1>2. Received' = Received /\ (BetweenFiles' <=> BetweenFiles)
    BY <1>1 DEF Received, BetweenFiles
<1>3. Have' = Have /\ Size(current)' = Size(current)
    BY <1>1 DEF Have, Size
<1>4. ReadFile' = ReadFile
    BY <1>1, <1>3 DEF ReadFile
<1>5. ReadCount' = ReadCount
    BY <1>3, <1>4 DEF ReadCount, Size
<1>6. WrittenFile' = WrittenFile /\ WrittenCount' = WrittenCount
    BY <1>1 DEF WrittenFile, WrittenCount, AtFile, Size
<1>7. WriterInv'
    BY <1>1 DEF RestorableInv, WriterInv, Size
<1>8. PhaseInv'
    BY <1>1, <1>2 DEF RestorableInv, PhaseInv
<1>9. ASSUME FifoInv, ProgressInv, StepInv PROVE FifoInv' /\ ProgressInv' /\ StepInv'
  <2>1. FifoInv'
      BY <1>1, <1>4, <1>5, <1>6, <1>9, FifoSame
  <2>2. Pure(digest, current)'
      BY <1>1, <1>9 DEF ProgressInv, Pure
  <2>3. ProgressInv'
      BY <1>1, <1>2, <1>3, <1>9, <2>2 DEF ProgressInv
  <2>4. StepInv'
      BY <1>1, <1>9 DEF StepInv
  <2> QED
      BY <2>1, <2>3, <2>4
<1> QED
    BY <1>1, <1>7, <1>8, <1>9 DEF RestorableInv

\* Before the first.
LEMMA RestorableInit == Init => RestorableInv
<1> SUFFICES ASSUME Init PROVE RestorableInv
    OBVIOUS
<1>1. /\ control = <<>> /\ data = <<>> /\ tpc = "idle" /\ file = 1 /\ bpc = "operation" /\ fileBytes = 0
      /\ firstDataPacket = TRUE /\ digest = <<>> /\ stream = <<>> /\ current = 0
    BY DEF Init
<1>2. R \in Nat \ {0} /\ M \in Nat \ {0} /\ F \in Nat /\ 0 % R = 0 /\ 0 % M = 0 /\ 0 \div R = 0
    BY FilesType
<1>3. Received = 0
  <2>1. Count(stream) = 0
    <3>1. <<>> \in Seq(DataByte)
        OBVIOUS
    <3>2. Marks(stream) = {}
        BY <1>1, <3>1, DataPlain
    <3> QED
        BY <3>2, FS_EmptySet DEF Count
  <2> QED
      BY <1>1, <2>1 DEF Received
<1>4. WriterInv
    BY <1>1 DEF WriterInv
<1>5. PhaseInv
    BY <1>1, <1>2, <1>3 DEF PhaseInv
<1>6. Size(0) = 0 /\ Size(current) = 0 /\ Have = 0
  <2>1. Size(0) = 0 /\ Len(digest) = 0
      BY <1>1, SizeType
  <2> QED
      BY <1>1, <2>1 DEF Have
<1>7. FifoInv
  <2>1. ReadFile = 0 /\ ReadCount = 0
      BY <1>1, <1>6 DEF ReadFile, ReadCount
  <2>2. WrittenFile = 0 /\ WrittenCount = 0
    <3>1. ~AtFile /\ file - 1 = 0
        BY <1>1 DEF AtFile
    <3> QED
        BY <1>6, <3>1 DEF WrittenFile, WrittenCount
  <2>3. Len(data) = 0
      BY <1>1
  <2> QED
      BY <1>1, <2>1, <2>2, <2>3 DEF FifoInv
<1>8. ProgressInv
    BY <1>1, <1>2, <1>6 DEF ProgressInv, Pure
<1>9. StepInv
  <2>1. Restore(stream) = RestoreStart
    <3>1. RestoreRun(stream) =
             [b \in Nat |-> IF b = 0 THEN RestoreStart
                            ELSE RestoreBlock(RestoreRun(stream)[b - 1], Block(stream, b))]
        BY RunDefined
    <3>2. RestoreRun(stream)[0] = RestoreStart
        BY <3>1
    <3>3. Len(stream) = 0
        BY <1>1
    <3> QED
        BY <1>2, <3>2, <3>3 DEF Restore
  <2> DEFINE n == RestoreStart
  <2>2. <<>> \in Seq(PlainByte)
      OBVIOUS
  <2>3. /\ n.ok /\ n.file = 0 /\ n.chunk = 0 /\ (n.inData <=> 0 # 0) /\ n.digest = <<>>
        /\ \A f \in 0 .. F : n.out[f] = <<>>
      BY DEF RestoreStart
  <2>4. n \in RestoreState
    <3>1. 0 \in 0 .. F
        BY <1>2
    <3>2. [f \in 0 .. F |-> <<>>] \in [0 .. F -> Seq(PlainByte)]
        BY <2>2
    <3> QED
        BY <2>2, <3>1, <3>2 DEF RestoreStart, RestoreState
  <2>5. OtherFiles(n.out, 0) /\ n.out[0] = <<>>
      BY <1>2, <2>3 DEF OtherFiles
  <2>6. Len(stream) % R = 0
    <3>1. Len(stream) = 0
        BY <1>1
    <3> QED
        BY <1>2, <3>1
  <2> HIDE DEF n
  <2>7. PICK c \in Nat : c = 0
      OBVIOUS
  <2>8. PICK f \in 0 .. F : f = 0
      BY <1>2
  <2>9. PICK d \in Seq(PlainByte) : d = <<>>
      BY <2>2
  <2>10. n = Restore(stream)
      BY <2>1 DEF n
  <2>11. InStep(stream, d, c, f)
      BY <1>2, <2>3, <2>4, <2>5, <2>6, <2>7, <2>8, <2>9, <2>10, StepAtBlock
  <2> QED
      BY <1>1, <1>2, <2>7, <2>8, <2>9, <2>11 DEF StepInv
<1> QED
    BY <1>4, <1>5, <1>7, <1>8, <1>9 DEF RestorableInv

\* A file with its padding.
LEMMA PureHolds ==
    ASSUME NEW f \in 1 .. F, NEW bytes \in Seq(PlainByte), Pure(bytes, f), Len(bytes) >= Size(f)
    PROVE  Holds(bytes, f)
<1>1. PICK z \in Nat : z = Size(f) /\ z = Files[f].size
  <2>1. f \in 0 .. F /\ f # 0
      OBVIOUS
  <2> QED
      BY <2>1, SizeType
<1>2. PICK c : c = Content(f)
    OBVIOUS
<1>3. c = [i \in 1 .. z |-> Byte("data", f, i, <<>>)]
    BY <1>1, <1>2 DEF Content
<1>4. Len(c) = z /\ c = [p \in 1 .. z |-> c[p]] /\ \A p \in 1 .. z : c[p] = Byte("data", f, p, <<>>)
    BY <1>3
<1>5. IsSequence(c)
    BY <1>4 DEF IsSequence
<1>6. IsSequence(bytes) /\ Len(bytes) \in Nat /\ z <= Len(bytes)
    BY <1>1, SequenceForm
<1>7. PICK m \in Nat : m = 0
    OBVIOUS
<1>8. m + 1 = 1 /\ m + z = z /\ \A p \in 1 .. z : m + p = p
    BY <1>7
<1>9. /\ IsSequence(SubSeq(c, m + 1, m + z)) /\ Len(SubSeq(c, m + 1, m + z)) = z
      /\ \A p \in 1 .. z : SubSeq(c, m + 1, m + z)[p] = c[m + p]
  <2>1. m + z <= Len(c)
      BY <1>4, <1>8
  <2> QED
      BY <1>5, <2>1, Part
<1>10. /\ IsSequence(SubSeq(bytes, m + 1, m + z)) /\ Len(SubSeq(bytes, m + 1, m + z)) = z
       /\ \A p \in 1 .. z : SubSeq(bytes, m + 1, m + z)[p] = bytes[m + p]
  <2>1. m + z <= Len(bytes)
      BY <1>6, <1>8
  <2> QED
      BY <1>6, <2>1, Part
<1>11. \A p \in 1 .. z : bytes[p] = Byte("data", f, p, <<>>)
  <2>1. \A p \in 1 .. z : p \in 1 .. Len(bytes) /\ p <= z
      BY <1>6
  <2> QED
      BY <1>1, <2>1 DEF Pure
<1>12. SubSeq(c, m + 1, m + z) = SubSeq(bytes, m + 1, m + z)
  <2>1. \A p \in 1 .. z : SubSeq(c, m + 1, m + z)[p] = SubSeq(bytes, m + 1, m + z)[p]
    <3> SUFFICES ASSUME NEW p \in 1 .. z
                 PROVE  SubSeq(c, m + 1, m + z)[p] = SubSeq(bytes, m + 1, m + z)[p]
        OBVIOUS
    <3>1. SubSeq(c, m + 1, m + z)[p] = c[m + p] /\ c[m + p] = c[p]
        BY <1>8, <1>9
    <3>2. SubSeq(bytes, m + 1, m + z)[p] = bytes[m + p] /\ bytes[m + p] = bytes[p]
        BY <1>8, <1>10
    <3>3. c[p] = bytes[p]
        BY <1>4, <1>11
    <3> QED
        BY <3>1, <3>2, <3>3
  <2> QED
      BY <1>9, <1>10, <2>1, SequencesEqual
<1>13. IsPrefix(Content(f), bytes)
  <2>1. Len(c) <= Len(bytes) /\ SubSeq(c, 1, Len(c)) = SubSeq(bytes, 1, Len(c))
      BY <1>4, <1>6, <1>8, <1>12
  <2> QED
      BY <1>2, <2>1 DEF IsPrefix
<1>14. \A i \in Files[f].size + 1 .. Len(bytes) : bytes[i] = Zero
  <2>1. \A i \in z + 1 .. Len(bytes) : i \in 1 .. Len(bytes) /\ ~(i <= z)
      BY <1>6
  <2>2. \A i \in z + 1 .. Len(bytes) : bytes[i] = Zero
      BY <1>1, <2>1 DEF Pure
  <2> QED
      BY <1>1, <2>2
<1> QED
    BY <1>13, <1>14 DEF Holds

\* What a restore of a finished stream finds.
LEMMA FinishedIsRestorable ==
    ASSUME BackupInv, RestorableInv
    PROVE  BackupRestorable
<1> SUFFICES ASSUME bpc = "finished", mishap = {}
             PROVE  /\ Restore(stream).ok /\ Restore(stream).end /\ Len(stream) % R = 0
                    /\ \A f \in 1 .. F : Holds(Restore(stream).out[f], f)
    BY DEF BackupRestorable
<1>1. Received = 2 * F + 2 /\ current = F /\ F \in Nat /\ Len(control) \in Nat
    BY FilesType DEF RestorableInv, PhaseInv, BackupInv, ControlInv
<1>2. tpc # "failed"
  <2>1. ~(Received + Len(control) <= 2 * F + 1)
      BY <1>1
  <2> QED
      BY <2>1 DEF RestorableInv, PhaseInv
<1>3. ProgressInv /\ StepInv
    BY <1>2 DEF RestorableInv
<1>4. BetweenFiles
  <2>1. Received # 2 * current
      BY <1>1
  <2> QED
      BY <2>1 DEF BetweenFiles
<1>5. fileBytes = 0 /\ Have = Size(F) /\ digest \in Seq(PlainByte) /\ Pure(digest, F)
    BY <1>1, <1>3, <1>4 DEF ProgressInv
<1>6. Len(digest) >= Size(F)
  <2>1. current \in 0 .. F
      BY <1>1
  <2> QED
      BY <1>1, <1>5, <2>1, HaveType
<1>7. 0 % M = 0 /\ 0 % R = 0
    BY FilesType
<1>8. InStep(stream, digest, 0, F)
    BY <1>1, <1>3, <1>5, <1>7 DEF StepInv
<1>9. PICK r : r = Restore(stream)
    OBVIOUS
<1>10. /\ r \in RestoreState /\ r.ok /\ Len(stream) % R = 0 /\ Len(digest) = Len(r.digest) + 0
       /\ \A p \in 1 .. Len(r.digest) : r.digest[p] = digest[p]
       /\ r.out[F] = r.digest /\ OtherFiles(r.out, F)
    BY <1>7, <1>8, <1>9 DEF InStep
<1>11. /\ r.digest \in Seq(PlainByte) /\ Len(r.digest) = Len(digest)
       /\ \A f \in 0 .. F : r.out[f] \in Seq(PlainByte)
  <2>1. r.digest \in Seq(PlainByte) /\ Len(r.digest) \in Nat /\ \A f \in 0 .. F : r.out[f] \in Seq(PlainByte)
      BY <1>10, RestoreType
  <2> QED
      BY <1>10, <2>1
<1>12. Pure(r.digest, F) /\ Len(r.digest) >= Size(F)
    BY <1>5, <1>6, <1>10, <1>11 DEF Pure
<1>13. ASSUME NEW f \in 1 .. F PROVE Holds(r.out[f], f)
  <2>1. r.out[f] \in Seq(PlainByte)
    <3>1. f \in 0 .. F
        BY <1>1
    <3> QED
        BY <1>11, <3>1
  <2>2. Pure(r.out[f], f) /\ Len(r.out[f]) >= Size(f)
    <3>1. CASE f = F
        BY <1>10, <1>12, <3>1
    <3>2. CASE f # F
      <4>1. f < F
          BY <1>1, <3>2
      <4>2. OtherFiles(r.out, F)
          BY <1>10
      <4> QED
          BY <4>1, <4>2 DEF OtherFiles
    <3> QED
        BY <3>1, <3>2
  <2> QED
      BY <2>1, <2>2, PureHolds
<1>14. r.end
    BY <1>3, <1>9 DEF StepInv
<1> QED
    BY <1>9, <1>10, <1>13, <1>14

\* The backups that bu finishes can be restored, for all partitions, sizes of
\* structures, chunks and FIFOs, and all speeds of the two processes: unless bu
\* has drained data it may not drain, lost some of it or written past the end
\* of a chunk, restore() finds every chunk and digest right and gets all of
\* every file.
THEOREM BackupIsRestorable == Spec => []BackupRestorable
<1>1. BackupInv /\ RestorableInv /\ [Next]_vars => RestorableInv'
    BY RestorableStep, RestorableStutter
<1>2. BackupInv /\ RestorableInv => BackupRestorable
    BY FinishedIsRestorable
<1> QED
    BY <1>1, <1>2, RestorableInit, BackupInvHolds, PTL DEF Spec

=============================================================================
