----------------------------- MODULE UsbLinkProofs -----------------------------
(***************************************************************************)
(* Proofs about UsbLink, for frames of any lengths, any number of them,    *)
(* and USB packets, buffers and queues of any size: connect() and          *)
(* receive() never take the middle of a packet for its header, and a       *)
(* connection is a channel that keeps the order of the bus.                *)
(***************************************************************************)
EXTENDS UsbLink, SequenceTheorems, WellFoundedInduction, TLAPS

-----------------------------------------------------------------------------
(* Numbers *)

\* A set of numbers that is not empty has a least one.
LEMMA LeastNumber ==
    ASSUME NEW T, T \subseteq Nat, T # {}
    PROVE  \E x \in T : \A y \in T : x <= y
<1> DEFINE R == {ss \in Nat \X Nat : ss[1] < ss[2]}
<1>1. IsWellFoundedOn(R, Nat)
  BY NatLessThanWellFounded DEF OpToRel
<1>2. PICK x \in T : \A y \in T : ~(<<y, x>> \in R)
  <2> HIDE DEF R
  <2>1. QED BY <1>1, WFMin
<1>3. ASSUME NEW y \in T PROVE x <= y
  <2>1. x \in Nat /\ y \in Nat /\ ~(y < x)
    BY <1>2
  <2>2. QED BY <2>1
<1>4. QED BY <1>3

\* The operator Max is what its name says on the sets of positions that unpack_frames looks at.
LEMMA MaxOfPositions ==
    ASSUME NEW n \in Nat, NEW T, T \subseteq 0..n, T # {}
    PROVE  Max(T) \in T /\ \A y \in T : y <= Max(T)
<1> DEFINE U == {n - y : y \in T}
<1>1. U \subseteq Nat
  <2>1. ASSUME NEW y \in T PROVE n - y \in Nat
    <3>1. y \in 0..n
      OBVIOUS
    <3>2. QED BY <3>1
  <2>2. QED BY <2>1
<1>2. U # {}
  <2>1. PICK y : y \in T
    OBVIOUS
  <2>2. n - y \in U
    BY <2>1
  <2>3. QED BY <2>2
<1>3. PICK u \in U : \A v \in U : u <= v
  <2> HIDE DEF U
  <2>1. QED BY <1>1, <1>2, LeastNumber
<1>4. PICK x \in T : u = n - x
  BY <1>3
<1>5. ASSUME NEW y \in T PROVE x >= y
  <2>1. n - x <= n - y
    BY <1>3, <1>4
  <2>2. x \in 0..n /\ y \in 0..n
    OBVIOUS
  <2>3. QED BY <2>1, <2>2
<1>6. \E z \in T : \A y \in T : z >= y
  BY <1>5
<1>7. Max(T) \in T /\ \A y \in T : Max(T) >= y
  BY <1>6, Zenon DEF Max
<1>8. \A y \in T : y <= Max(T)
  <2>1. TAKE y \in T
  <2>2. Max(T) \in 0..n /\ y \in 0..n /\ Max(T) >= y
    BY <1>7
  <2>3. QED BY <2>2
<1>9. QED BY <1>7, <1>8

\* The firmware cuts a full USB packet, or all it has.
LEMMA MinOfTwo ==
    ASSUME NEW a \in Nat, NEW b \in Nat
    PROVE  /\ Min({a, b}) \in Nat
           /\ Min({a, b}) <= a /\ Min({a, b}) <= b
           /\ Min({a, b}) < a => Min({a, b}) = b
<1>1. \E x \in {a, b} : \A y \in {a, b} : x <= y
  <2>1. CASE a <= b
    BY <2>1
  <2>2. CASE ~(a <= b)
    BY <2>2
  <2>3. QED BY <2>1, <2>2
<1>2. Min({a, b}) \in {a, b} /\ \A y \in {a, b} : Min({a, b}) <= y
  BY <1>1, Zenon DEF Min
<1>3. QED BY <1>2

-----------------------------------------------------------------------------
(* Recursion *)

\* What holds at the start and from each position to the next holds at every position.
LEMMA CountingUp ==
    ASSUME NEW N \in Nat, NEW T, T \subseteq 0..N, 0 \in T,
           \A n \in 0..N : n \in T /\ n < N => n + 1 \in T
    PROVE  T = 0..N
<1> DEFINE U == (0..N) \ T
<1>1. SUFFICES ASSUME U # {} PROVE FALSE
  OBVIOUS
<1>2. U \subseteq Nat
  OBVIOUS
<1>3. PICK m \in U : \A y \in U : m <= y
  <2> HIDE DEF U
  <2>1. QED BY <1>1, <1>2, LeastNumber
<1>4. m \in 0..N /\ m \notin T /\ m # 0
  OBVIOUS
<1>5. m - 1 \in 0..N /\ m - 1 < N /\ ~(m <= m - 1) /\ m - 1 + 1 = m
  BY <1>4
<1>6. m - 1 \in T
  BY <1>3, <1>5
<1>7. QED BY <1>4, <1>5, <1>6

\* One step per position, each on the value of the position before.
Steps(N, S) == [1..N -> [S -> S]]
Runs(f, N, base, step) == f[0] = base /\ \A k \in 1..N : f[k] = step[k][f[k - 1]]

\* A recursion over the positions of a sequence has a solution.
LEMMA PrimitiveRecursion ==
    ASSUME NEW N \in Nat, NEW S, NEW base \in S, NEW step \in Steps(N, S)
    PROVE  \E f \in [0..N -> S] : Runs(f, N, base, step)
<1> DEFINE Solves(f, n) == Runs(f, n, base, step)
           T == {n \in 0..N : \E f \in [0..n -> S] : Solves(f, n)}
<1>1. 0 \in T
  <2> DEFINE g == [k \in 0..0 |-> base]
  <2>1. g \in [0..0 -> S] /\ g[0] = base /\ 1..0 = {} /\ 0 \in 0..N
    OBVIOUS
  <2> HIDE DEF g
  <2>2. QED BY <2>1 DEF Runs
<1>2. ASSUME NEW n \in 0..N, n \in T, n < N PROVE n + 1 \in T
  <2>1. PICK f \in [0..n -> S] : Solves(f, n)
    BY <1>2
  <2> DEFINE g == [k \in 0..n + 1 |-> IF k = n + 1 THEN step[n + 1][f[n]] ELSE f[k]]
  <2>2. f[n] \in S /\ n + 1 \in 1..N /\ n \in Nat
    BY <1>2
  <2>3. step[n + 1][f[n]] \in S
    BY <2>2 DEF Steps
  <2>4. g \in [0..n + 1 -> S]
    BY <2>2, <2>3
  <2>5. g[0] = base
    BY <2>1, <2>2 DEF Runs
  <2>6. ASSUME NEW k \in 1..n + 1 PROVE g[k] = step[k][g[k - 1]]
    <3>1. CASE k = n + 1
      <4>1. k - 1 = n /\ n # n + 1 /\ n \in 0..n + 1 /\ n + 1 \in 0..n + 1
        BY <2>2, <3>1
      <4>2. g[k - 1] = f[n] /\ g[k] = step[n + 1][f[n]]
        BY <3>1, <4>1
      <4>3. QED BY <3>1, <4>1, <4>2
    <3>2. CASE k # n + 1
      <4>1. k \in 1..n /\ g[k] = f[k] /\ g[k - 1] = f[k - 1]
        BY <2>2, <3>2
      <4>2. QED BY <2>1, <4>1 DEF Runs
    <3>3. QED BY <3>1, <3>2
  <2> HIDE DEF g
  <2>7. Solves(g, n + 1)
    BY <2>5, <2>6 DEF Runs
  <2>8. QED BY <2>2, <2>4, <2>7
<1>3. N \in T
  <2>1. T \subseteq 0..N
    OBVIOUS
  <2>2. T = 0..N
    <3> HIDE DEF T
    <3>1. QED BY <1>1, <1>2, <2>1, CountingUp
  <2>3. QED BY <2>2
<1>4. QED BY <1>3

-----------------------------------------------------------------------------
(* Streams of cells *)

\* The position of the last cell of the packet that position k belongs to.
EndOf(s, k) == k + Cells[s[k][1]] - s[k][2]

\* From its first cell on, cut or not, a stream goes on without a gap to the end of a packet.
Whole(s) ==
    \A k \in 1..Len(s) :
        /\ EndOf(s, k) <= Len(s)
        /\ \A j \in k..EndOf(s, k) : s[j] = <<s[k][1], s[k][2] + j - k>>
        /\ EndOf(s, k) < Len(s) => IsFirst(s[EndOf(s, k) + 1])

\* A stream begins with a header.
Starts(s) == s # <<>> => IsFirst(s[1])

\* The members of a cell.
LEMMA CellFacts ==
    ASSUME NEW c \in Cell
    PROVE  /\ c[1] \in Frames /\ c[2] \in Nat \ {0} /\ Cells[c[1]] \in Nat \ {0}
           /\ c[2] <= Cells[c[1]] /\ c = <<c[1], c[2]>>
BY CellsAssumption DEF Cell, Frames

\* A position of a stream and the end of its packet.
LEMMA EndOfFacts ==
    ASSUME NEW s \in Seq(Cell), NEW k \in 1..Len(s)
    PROVE  /\ s[k] \in Cell /\ EndOf(s, k) \in Nat /\ k <= EndOf(s, k)
           /\ IsLast(s[k]) <=> EndOf(s, k) = k
<1>1. s[k] \in Cell
  BY ElementOfSeq
<1>2. k \in Nat
  OBVIOUS
<1>3. QED BY <1>1, <1>2, CellFacts, SMTT(30) DEF EndOf, IsLast

\* pack_frame: the packet of a frame.
LEMMA PacketFacts ==
    ASSUME NEW i \in Frames
    PROVE  /\ Packet(i) \in Seq(Cell) /\ Packet(i) # <<>>
           /\ Whole(Packet(i)) /\ Starts(Packet(i))
<1> DEFINE n == Cells[i]
<1>1. n \in Nat \ {0}
  BY CellsAssumption DEF Frames
<1>2. \A k \in 1..n : <<i, k>> \in Cell
  BY <1>1 DEF Cell
<1>3. Packet(i) \in Seq(Cell)
  BY <1>1, <1>2, IsASeq DEF Packet
<1>4. Len(Packet(i)) = n /\ \A k \in 1..n : Packet(i)[k] = <<i, k>>
  BY <1>1, <1>3, LenProperties DEF Packet
<1>5. Packet(i) # <<>>
  BY <1>1, <1>4
<1>6. Starts(Packet(i))
  BY <1>1, <1>4 DEF Starts, IsFirst
<1>7. ASSUME NEW k \in 1..n PROVE EndOf(Packet(i), k) = n
  BY <1>1, <1>4 DEF EndOf
<1>8. Whole(Packet(i))
  BY <1>1, <1>4, <1>7 DEF Whole
<1>9. QED BY <1>3, <1>5, <1>6, <1>8

\* A packet that is queued behind a stream continues it.
LEMMA WholeJoin ==
    ASSUME NEW s \in Seq(Cell), NEW t \in Seq(Cell), Whole(s), Whole(t), Starts(t)
    PROVE  Whole(s \o t)
<1> DEFINE st == s \o t
<1>1. /\ st \in Seq(Cell) /\ Len(st) = Len(s) + Len(t)
      /\ \A i \in 1..Len(s) + Len(t) : st[i] = IF i <= Len(s) THEN s[i] ELSE t[i - Len(s)]
  BY ConcatProperties
<1>2. Len(s) \in Nat /\ Len(t) \in Nat
  BY LenProperties
<1>3. t # <<>> <=> Len(t) > 0
  BY <1>2, EmptySeq
<1> HIDE DEF st
<1>4. SUFFICES ASSUME NEW k \in 1..Len(st)
               PROVE  /\ EndOf(st, k) <= Len(st)
                      /\ \A j \in k..EndOf(st, k) : st[j] = <<st[k][1], st[k][2] + j - k>>
                      /\ EndOf(st, k) < Len(st) => IsFirst(st[EndOf(st, k) + 1])
  BY DEF Whole, st
<1>5. CASE k <= Len(s)
  <2>1. k \in 1..Len(s) /\ st[k] = s[k] /\ EndOf(st, k) = EndOf(s, k)
    BY <1>1, <1>2, <1>5 DEF EndOf
  <2>2. EndOf(s, k) \in Nat /\ k <= EndOf(s, k)
    BY <2>1, EndOfFacts
  <2>3. /\ EndOf(s, k) <= Len(s)
        /\ \A j \in k..EndOf(s, k) : s[j] = <<s[k][1], s[k][2] + j - k>>
        /\ EndOf(s, k) < Len(s) => IsFirst(s[EndOf(s, k) + 1])
    BY <2>1 DEF Whole
  <2>4. ASSUME NEW j \in k..EndOf(st, k) PROVE st[j] = <<st[k][1], st[k][2] + j - k>>
    BY <1>1, <1>2, <2>1, <2>2, <2>3
  <2>5. ASSUME EndOf(st, k) < Len(st) PROVE IsFirst(st[EndOf(st, k) + 1])
    <3>1. CASE EndOf(s, k) < Len(s)
      BY <1>1, <1>2, <2>1, <2>2, <2>3, <3>1
    <3>2. CASE EndOf(s, k) = Len(s)
      <4>1. st[EndOf(st, k) + 1] = t[1] /\ t # <<>>
        BY <1>1, <1>2, <1>3, <2>1, <2>5, <3>2
      <4>2. QED BY <4>1 DEF Starts
    <3>3. QED BY <1>2, <2>2, <2>3, <3>1, <3>2
  <2>6. QED BY <1>1, <1>2, <2>1, <2>2, <2>3, <2>4, <2>5
<1>6. CASE k > Len(s)
  <2> DEFINE m == k - Len(s)
  <2>1. m \in 1..Len(t) /\ st[k] = t[m] /\ k \in Nat
    BY <1>1, <1>2, <1>6
  <2>2. EndOf(t, m) \in Nat /\ m <= EndOf(t, m) /\ t[m] \in Cell
    BY <2>1, EndOfFacts
  <2>3. EndOf(st, k) = Len(s) + EndOf(t, m)
    <3>1. Cells[t[m][1]] \in Nat /\ t[m][2] \in Nat
      BY <2>2, CellFacts
    <3>2. EndOf(st, k) = k + Cells[t[m][1]] - t[m][2] /\ EndOf(t, m) = m + Cells[t[m][1]] - t[m][2]
      BY <2>1 DEF EndOf
    <3>3. QED BY <1>2, <2>1, <3>1, <3>2
  <2>4. /\ EndOf(t, m) <= Len(t)
        /\ \A j \in m..EndOf(t, m) : t[j] = <<t[m][1], t[m][2] + j - m>>
        /\ EndOf(t, m) < Len(t) => IsFirst(t[EndOf(t, m) + 1])
    BY <2>1 DEF Whole
  <2>5. ASSUME NEW j \in k..EndOf(st, k) PROVE st[j] = <<st[k][1], st[k][2] + j - k>>
    <3>1. j - Len(s) \in m..EndOf(t, m) /\ j \in 1..Len(s) + Len(t) /\ j > Len(s)
      BY <1>2, <1>6, <2>1, <2>2, <2>3, <2>4
    <3>2. st[j] = t[j - Len(s)]
      BY <1>1, <1>2, <3>1
    <3>3. t[j - Len(s)] = <<t[m][1], t[m][2] + (j - Len(s)) - m>>
      BY <2>4, <3>1
    <3>4. t[m][2] + (j - Len(s)) - m = t[m][2] + j - k
      BY <1>2, <2>1, <2>2, <3>1, CellFacts
    <3>5. QED BY <2>1, <3>2, <3>3, <3>4
  <2>6. ASSUME EndOf(st, k) < Len(st) PROVE IsFirst(st[EndOf(st, k) + 1])
    <3>1. EndOf(t, m) < Len(t)
      BY <1>1, <1>2, <2>2, <2>3, <2>6
    <3>2. st[EndOf(st, k) + 1] = t[EndOf(t, m) + 1]
      BY <1>1, <1>2, <2>2, <2>3, <3>1
    <3>3. QED BY <2>4, <3>1, <3>2
  <2>7. QED BY <1>1, <1>2, <2>2, <2>3, <2>4, <2>5, <2>6
<1>7. QED BY <1>1, <1>2, <1>5, <1>6

\* What is left of a stream when its beginning was read, taken or dropped.
LEMMA WholeSuffix ==
    ASSUME NEW s \in Seq(Cell), NEW n \in 0..Len(s)
    PROVE  LET rest == SubSeq(s, n + 1, Len(s))
           IN  /\ rest \in Seq(Cell) /\ Len(rest) = Len(s) - n
               /\ \A i \in 1..Len(rest) : rest[i] = s[n + i]
               /\ Whole(s) => Whole(rest)
               /\ n < Len(s) => Starts(rest) <=> IsFirst(s[n + 1])
               /\ n = Len(s) => rest = <<>> /\ Starts(rest)
<1> DEFINE rest == SubSeq(s, n + 1, Len(s))
<1>1. Len(s) \in Nat /\ n \in Nat /\ n <= Len(s)
  BY LenProperties
<1>2. \A i \in n + 1..Len(s) : s[i] \in Cell
  BY <1>1, ElementOfSeq
<1>3. /\ rest \in Seq(Cell)
      /\ Len(rest) = IF n + 1 <= Len(s) THEN Len(s) - (n + 1) + 1 ELSE 0
      /\ \A i \in 1..Len(s) - (n + 1) + 1 : rest[i] = s[(n + 1) + i - 1]
  BY <1>1, <1>2, SubSeqProperties
<1>4. Len(rest) = Len(s) - n
  BY <1>1, <1>3
<1>5. ASSUME NEW i \in 1..Len(rest) PROVE rest[i] = s[n + i] /\ n + i \in 1..Len(s)
  BY <1>1, <1>3, <1>4
<1> HIDE DEF rest
<1>6. ASSUME Whole(s) PROVE Whole(rest)
  <2>1. SUFFICES ASSUME NEW k \in 1..Len(rest)
                 PROVE  /\ EndOf(rest, k) <= Len(rest)
                        /\ \A j \in k..EndOf(rest, k) : rest[j] = <<rest[k][1], rest[k][2] + j - k>>
                        /\ EndOf(rest, k) < Len(rest) => IsFirst(rest[EndOf(rest, k) + 1])
    BY DEF Whole
  <2> DEFINE m == n + k
  <2>2. m \in 1..Len(s) /\ rest[k] = s[m] /\ k \in Nat
    BY <1>1, <1>4, <1>5
  <2>3. /\ EndOf(s, m) <= Len(s)
        /\ \A j \in m..EndOf(s, m) : s[j] = <<s[m][1], s[m][2] + j - m>>
        /\ EndOf(s, m) < Len(s) => IsFirst(s[EndOf(s, m) + 1])
    BY <1>6, <2>2 DEF Whole
  <2>4. EndOf(s, m) \in Nat /\ m <= EndOf(s, m) /\ s[m] \in Cell
    BY <2>2, EndOfFacts
  <2>5. s[m][2] \in Nat /\ Cells[s[m][1]] \in Nat
    BY <2>4, CellFacts
  <2>6. EndOf(rest, k) = EndOf(s, m) - n
    BY <1>1, <2>2, <2>5 DEF EndOf
  <2>7. ASSUME NEW j \in k..EndOf(rest, k) PROVE rest[j] = <<rest[k][1], rest[k][2] + j - k>>
    <3>1. n + j \in m..EndOf(s, m) /\ j \in 1..Len(rest)
      BY <1>1, <1>4, <2>2, <2>3, <2>4, <2>6
    <3>2. s[n + j] = <<s[m][1], s[m][2] + (n + j) - m>>
      BY <2>3, <3>1
    <3>3. s[m][2] + (n + j) - m = s[m][2] + j - k
      BY <1>1, <2>2, <2>5, <3>1
    <3>4. QED BY <1>5, <2>2, <3>1, <3>2, <3>3
  <2>8. ASSUME EndOf(rest, k) < Len(rest) PROVE IsFirst(rest[EndOf(rest, k) + 1])
    <3>1. EndOf(s, m) < Len(s) /\ EndOf(rest, k) + 1 \in 1..Len(rest)
      BY <1>1, <1>4, <2>2, <2>4, <2>6, <2>8
    <3>2. rest[EndOf(rest, k) + 1] = s[n + (EndOf(rest, k) + 1)]
      BY <1>5, <3>1
    <3>3. n + (EndOf(rest, k) + 1) = EndOf(s, m) + 1
      BY <1>1, <2>4, <2>6
    <3>4. QED BY <2>3, <3>1, <3>2, <3>3
  <2>9. EndOf(rest, k) <= Len(rest)
    BY <1>1, <1>4, <2>3, <2>4, <2>6
  <2>10. QED BY <2>7, <2>8, <2>9
<1>7. ASSUME n < Len(s) PROVE Starts(rest) <=> IsFirst(s[n + 1])
  <2>1. 1 \in 1..Len(rest)
    BY <1>1, <1>4, <1>7
  <2>2. rest # <<>> /\ rest[1] = s[n + 1]
    BY <1>5, <2>1
  <2>3. QED BY <2>2 DEF Starts
<1>8. ASSUME n = Len(s) PROVE rest = <<>> /\ Starts(rest)
  <2>1. Len(rest) = 0
    BY <1>1, <1>4, <1>8
  <2>2. rest = <<>>
    BY <1>3, <2>1, EmptySeq
  <2>3. QED BY <2>2 DEF Starts
<1>9. QED BY <1>3, <1>4, <1>5, <1>6, <1>7, <1>8 DEF rest

\* After the last cell of a packet comes a header.
LEMMA HeaderFollows ==
    ASSUME NEW s \in Seq(Cell), NEW n \in 1..Len(s), Whole(s), IsLast(s[n])
    PROVE  Starts(SubSeq(s, n + 1, Len(s)))
<1>1. Len(s) \in Nat /\ n \in 0..Len(s)
  BY LenProperties
<1>2. CASE n < Len(s)
  <2>1. EndOf(s, n) = n
    BY EndOfFacts
  <2>2. IsFirst(s[n + 1])
    BY <1>2, <2>1 DEF Whole
  <2>3. QED BY <1>1, <1>2, <2>2, WholeSuffix
<1>3. CASE n = Len(s)
  BY <1>1, <1>3, WholeSuffix
<1>4. QED BY <1>1, <1>2, <1>3

\* A stream that begins with a header or nothing, followed by one that does.
LEMMA StartsJoin ==
    ASSUME NEW s \in Seq(Cell), NEW t \in Seq(Cell)
    PROVE  /\ Starts(s) /\ Starts(t) => Starts(s \o t)
           /\ Starts(s \o t) => Starts(s)
           /\ s # <<>> => (s \o t # <<>> /\ (s \o t)[1] = s[1])
<1>1. CASE s = <<>>
  <2>1. s \o t = t
    BY <1>1, ConcatEmptySeq
  <2>2. QED BY <1>1, <2>1 DEF Starts
<1>2. CASE s # <<>>
  <2>1. Len(s) \in Nat \ {0} /\ Len(t) \in Nat
    BY <1>2, EmptySeq, LenProperties
  <2>2. (s \o t)[1] = s[1] /\ Len(s \o t) = Len(s) + Len(t)
    BY <2>1, ConcatProperties
  <2>3. s \o t # <<>>
    BY <2>1, <2>2
  <2>4. QED BY <1>2, <2>2, <2>3 DEF Starts
<1>3. QED BY <1>1, <1>2

\* A stream is what was cut off its beginning and the rest.
LEMMA CutAt ==
    ASSUME NEW s \in Seq(Cell), NEW n \in 0..Len(s)
    PROVE  /\ SubSeq(s, 1, n) \in Seq(Cell) /\ Len(SubSeq(s, 1, n)) = n
           /\ s = SubSeq(s, 1, n) \o SubSeq(s, n + 1, Len(s))
<1>1. Len(s) \in Nat
  BY LenProperties
<1>2. SubSeq(s, 1, n) \in Seq(Cell) /\ Len(SubSeq(s, 1, n)) = n
  <2>1. \A i \in 1..n : s[i] \in Cell
    BY <1>1, ElementOfSeq
  <2>2. SubSeq(s, 1, n) \in Seq(Cell) /\ Len(SubSeq(s, 1, n)) = IF 1 <= n THEN n - 1 + 1 ELSE 0
    BY <1>1, <2>1, SubSeqProperties
  <2>3. QED BY <1>1, <2>2
<1>3. SubSeq(s, 1, n) \o SubSeq(s, n + 1, Len(s)) = s
  <2>1. 1 \in 1..Len(s) + 1 /\ n \in 1 - 1..Len(s) /\ Len(s) \in n..Len(s)
    BY <1>1
  <2>2. SubSeq(s, 1, n) \o SubSeq(s, n + 1, Len(s)) = SubSeq(s, 1, Len(s))
    BY <1>1, <2>1, ConcatAdjacentSubSeq
  <2>3. QED BY <2>2, SubSeqFull
<1>4. QED BY <1>2, <1>3

\* Reset of the communication leaves a stream that begins with a header, and one that
\* did so before as it was.
LEMMA WithoutTailFacts ==
    ASSUME NEW s \in Seq(Cell), Whole(s)
    PROVE  /\ WithoutTail(s) \in Seq(Cell)
           /\ Whole(WithoutTail(s)) /\ Starts(WithoutTail(s))
           /\ \E t \in Seq(Cell) : s = t \o WithoutTail(s)
<1>1. CASE s = <<>> \/ IsFirst(Head(s))
  <2>1. WithoutTail(s) = s
    BY <1>1 DEF WithoutTail
  <2>2. s # <<>> => Head(s) = s[1]
    OBVIOUS
  <2>3. Starts(s)
    BY <1>1, <2>2 DEF Starts
  <2>4. <<>> \in Seq(Cell) /\ s = <<>> \o s
    BY EmptySeq, ConcatEmptySeq
  <2>5. QED BY <2>1, <2>3, <2>4
<1>2. CASE ~(s = <<>> \/ IsFirst(Head(s)))
  <2>1. s # <<>> /\ Head(s) = s[1] /\ Len(s) \in Nat \ {0}
    BY <1>2, EmptySeq
  <2>2. 1 \in 1..Len(s)
    BY <2>1
  <2> DEFINE n == EndOf(s, 1)
  <2>3. n \in Nat /\ 1 <= n /\ s[1] \in Cell
    BY <2>2, EndOfFacts
  <2>4. /\ n <= Len(s)
        /\ n < Len(s) => IsFirst(s[n + 1])
    BY <2>2 DEF Whole
  <2>5. s[1][2] \in Nat /\ Cells[s[1][1]] \in Nat
    BY <2>3, CellFacts
  <2>6. 2 + Cells[Head(s)[1]] - Head(s)[2] = n + 1
    BY <2>1, <2>5 DEF EndOf
  <2>7. WithoutTail(s) = SubSeq(s, n + 1, Len(s))
    BY <1>2, <2>6 DEF WithoutTail
  <2> HIDE DEF n
  <2>8. n \in 0..Len(s)
    BY <2>1, <2>3, <2>4
  <2> DEFINE rest == SubSeq(s, n + 1, Len(s))
  <2>9. ASSUME n < Len(s) PROVE rest \in Seq(Cell) /\ Whole(rest) /\ Starts(rest)
    BY <2>4, <2>8, <2>9, WholeSuffix
  <2>10. ASSUME n = Len(s) PROVE rest \in Seq(Cell) /\ Whole(rest) /\ Starts(rest)
    BY <2>8, <2>10, WholeSuffix
  <2>11. SubSeq(s, 1, n) \in Seq(Cell) /\ s = SubSeq(s, 1, n) \o rest
    BY <2>8, CutAt
  <2>12. n < Len(s) \/ n = Len(s)
    BY <2>1, <2>8
  <2>13. WithoutTail(s) = rest
    BY <2>7
  <2> HIDE DEF rest
  <2>14. QED BY <2>9, <2>10, <2>11, <2>12, <2>13
<1>3. QED BY <1>1, <1>2

\* What was received of a stream that begins with a header passes every checksum.
LEMMA PrefixIsAligned ==
    ASSUME NEW s \in Seq(Cell), NEW t \in Seq(Cell), Whole(s \o t), Starts(s \o t)
    PROVE  Aligned(s)
<1> DEFINE st == s \o t
<1>1. /\ st \in Seq(Cell) /\ Len(st) = Len(s) + Len(t)
      /\ \A i \in 1..Len(s) + Len(t) : st[i] = IF i <= Len(s) THEN s[i] ELSE t[i - Len(s)]
  BY ConcatProperties
<1>2. Len(s) \in Nat /\ Len(t) \in Nat
  BY LenProperties
<1>3. s # <<>> => IsFirst(Head(s))
  <2>1. s # <<>> => Head(s) = s[1]
    OBVIOUS
  <2>2. QED BY <2>1, StartsJoin DEF Starts
<1>4. Whole(st)
  OBVIOUS
<1> HIDE DEF st
<1>5. ASSUME NEW k \in 1..Len(s) - 1
      PROVE  IF IsLast(s[k]) THEN IsFirst(s[k + 1]) ELSE s[k + 1] = <<s[k][1], s[k][2] + 1>>
  <2>1. /\ k \in 1..Len(st) /\ k < Len(st) /\ k \in Nat
        /\ st[k] = s[k] /\ st[k + 1] = s[k + 1]
    BY <1>1, <1>2
  <2>2. /\ EndOf(st, k) \in Nat /\ k <= EndOf(st, k)
        /\ IsLast(st[k]) <=> EndOf(st, k) = k
    BY <1>1, <2>1, EndOfFacts
  <2>3. st[k] \in Cell
    BY <1>1, <2>1, EndOfFacts
  <2>4. CASE IsLast(s[k])
    <3>1. EndOf(st, k) = k
      BY <2>1, <2>2, <2>4
    <3>2. IsFirst(st[k + 1])
      BY <1>4, <2>1, <3>1 DEF Whole
    <3>3. QED BY <2>1, <2>4, <3>2
  <2>5. CASE ~IsLast(s[k])
    <3>1. k + 1 \in k..EndOf(st, k)
      BY <2>1, <2>2, <2>5
    <3>2. st[k + 1] = <<st[k][1], st[k][2] + (k + 1) - k>>
      BY <1>4, <2>1, <3>1 DEF Whole
    <3>3. st[k][2] \in Nat
      BY <2>3, CellFacts
    <3>4. st[k][2] + (k + 1) - k = st[k][2] + 1
      BY <2>1, <3>3
    <3>5. QED BY <2>1, <2>5, <3>2, <3>4
  <2>6. QED BY <2>4, <2>5
<1>6. QED BY <1>3, <1>5 DEF Aligned

\* unpack_frames stops behind the last complete packet.
LEMMA UnpackedFacts ==
    ASSUME NEW s \in Seq(Cell)
    PROVE  /\ Unpacked(s) \in 0..Len(s)
           /\ Unpacked(s) # 0 => IsLast(s[Unpacked(s)])
           /\ \A k \in 1..Len(s) : IsLast(s[k]) => k <= Unpacked(s)
<1> DEFINE T == {0} \cup {k \in 1..Len(s) : IsLast(s[k])}
<1>1. Len(s) \in Nat
  BY LenProperties
<1>2. T \subseteq 0..Len(s) /\ T # {}
  BY <1>1
<1>3. Unpacked(s) = Max(T)
  BY DEF Unpacked
<1>4. \A k \in 1..Len(s) : IsLast(s[k]) => k \in T
  OBVIOUS
<1>5. \A k \in T : k # 0 => IsLast(s[k])
  OBVIOUS
<1> HIDE DEF T
<1>6. Max(T) \in T /\ \A y \in T : y <= Max(T)
  BY <1>1, <1>2, MaxOfPositions
<1>7. QED BY <1>2, <1>3, <1>4, <1>5, <1>6

\* Taking the beginning of what was received takes it of the whole stream.
LEMMA CutOfJoin ==
    ASSUME NEW s \in Seq(Cell), NEW t \in Seq(Cell), NEW n \in 0..Len(s)
    PROVE  SubSeq(s, n + 1, Len(s)) \o t = SubSeq(s \o t, n + 1, Len(s \o t))
<1> DEFINE rest == SubSeq(s, n + 1, Len(s))
           all == SubSeq(s \o t, n + 1, Len(s \o t))
<1>1. Len(s) \in Nat /\ Len(t) \in Nat
  BY LenProperties
<1>2. /\ s \o t \in Seq(Cell) /\ Len(s \o t) = Len(s) + Len(t)
      /\ \A i \in 1..Len(s) + Len(t) : (s \o t)[i] = IF i <= Len(s) THEN s[i] ELSE t[i - Len(s)]
  BY ConcatProperties
<1>3. /\ rest \in Seq(Cell) /\ Len(rest) = Len(s) - n
      /\ \A i \in 1..Len(rest) : rest[i] = s[n + i]
  BY WholeSuffix
<1>4. n \in 0..Len(s \o t)
  BY <1>1, <1>2
<1>5. /\ all \in Seq(Cell) /\ Len(all) = Len(s \o t) - n
      /\ \A i \in 1..Len(all) : all[i] = (s \o t)[n + i]
  BY <1>2, <1>4, WholeSuffix
<1> HIDE DEF rest, all
<1>6. /\ rest \o t \in Seq(Cell) /\ Len(rest \o t) = Len(rest) + Len(t)
      /\ \A i \in 1..Len(rest) + Len(t) : (rest \o t)[i] = IF i <= Len(rest) THEN rest[i] ELSE t[i - Len(rest)]
  BY <1>3, ConcatProperties
<1>7. Len(rest \o t) = Len(all)
  BY <1>1, <1>2, <1>3, <1>5, <1>6
<1>8. ASSUME NEW i \in 1..Len(rest \o t) PROVE (rest \o t)[i] = all[i]
  <2>1. all[i] = (s \o t)[n + i] /\ i \in Nat /\ n + i \in 1..Len(s) + Len(t)
    BY <1>1, <1>2, <1>5, <1>7
  <2>2. CASE i <= Len(rest)
    BY <1>1, <1>2, <1>3, <1>6, <2>1, <2>2
  <2>3. CASE i > Len(rest)
    BY <1>1, <1>2, <1>3, <1>6, <2>1, <2>3
  <2>4. QED BY <1>1, <1>3, <2>1, <2>2, <2>3
<1>9. rest \o t = all
  BY <1>5, <1>6, <1>7, <1>8, SeqEqual
<1>10. QED BY <1>9 DEF rest, all

\* Queuing at the end of a stream is queuing at the end of its last part.
LEMMA JoinAtEnd ==
    ASSUME NEW s \in Seq(Cell), NEW t \in Seq(Cell), NEW u \in Seq(Cell)
    PROVE  s \o (t \o u) = (s \o t) \o u
BY ConcatAssociative, SMTT(30)

-----------------------------------------------------------------------------
(* The frames of a stream *)

\* What unpack_frames counts up while it walks over cells: f[n] are the frames that end in the
\* first n of them.
Counts(f, s) ==
    /\ f[0] = <<>>
    /\ \A n \in 1..Len(s) :
          f[n] = IF IsLast(s[n]) THEN Append(f[n - 1], s[n][1]) ELSE f[n - 1]

\* The recursion of FramesIn has a solution.
LEMMA FramesAreCounted ==
    ASSUME NEW s \in Seq(Cell)
    PROVE  \E f \in [0..Len(s) -> Seq(Frames)] : Counts(f, s) /\ FramesIn(s) = f[Len(s)]
<1> DEFINE N == Len(s)
           E(v, n) == IF IsLast(s[n]) THEN Append(v, s[n][1]) ELSE v
           step == [n \in 1..N |-> [v \in Seq(Frames) |-> E(v, n)]]
           G(g) == [n \in 0..N |-> IF n = 0 THEN <<>>
                                   ELSE IF IsLast(s[n]) THEN Append(g[n - 1], s[n][1]) ELSE g[n - 1]]
           u == CHOOSE g : g = G(g)
<1>1. N \in Nat /\ <<>> \in Seq(Frames)
  BY LenProperties, EmptySeq
<1>2. ASSUME NEW n \in 1..N, NEW v \in Seq(Frames) PROVE E(v, n) \in Seq(Frames)
  <2>1. s[n][1] \in Frames
    BY ElementOfSeq, CellFacts
  <2>2. QED BY <2>1, AppendProperties
<1>3. step \in [1..N -> [Seq(Frames) -> Seq(Frames)]]
  <2> HIDE DEF E
  <2>1. QED BY <1>2
<1>4. PICK f \in [0..N -> Seq(Frames)] :
          f[0] = <<>> /\ \A k \in 1..N : f[k] = step[k][f[k - 1]]
  <2> DEFINE S == Seq(Frames)
             base == <<>>
  <2>1. N \in Nat /\ base \in S /\ step \in Steps(N, S)
    BY <1>1, <1>3 DEF Steps
  <2> HIDE DEF step, N, S, base
  <2>2. \E f \in [0..N -> S] : Runs(f, N, base, step)
    BY <2>1, PrimitiveRecursion
  <2>3. QED BY <2>2 DEF S, base, Runs
<1>5. ASSUME NEW k \in 1..N PROVE f[k] = E(f[k - 1], k)
  <2>1. f[k - 1] \in Seq(Frames)
    BY <1>1
  <2> HIDE DEF E
  <2>2. QED BY <1>4, <2>1
<1>6. f = G(f)
  <2>1. ASSUME NEW n \in 0..N PROVE f[n] = G(f)[n]
    <3>1. CASE n = 0
      BY <1>1, <1>4, <3>1
    <3>2. CASE n # 0
      <4>1. n \in 1..N
        BY <1>1, <3>2
      <4>2. QED BY <1>5, <3>2, <4>1
    <3>3. QED BY <3>1, <3>2
  <2>2. f = [n \in 0..N |-> f[n]]
    BY <1>4
  <2>3. QED BY <2>1, <2>2
<1>7. u = G(u)
  <2> HIDE DEF G
  <2>1. QED BY <1>6
<1> HIDE DEF u
<1>8. Counts(u, s) /\ u \in [0..N -> Seq(Frames)]
  <2>1. u[0] = <<>> /\ DOMAIN u = 0..N /\ u = [n \in 0..N |-> u[n]]
    BY <1>1, <1>7
  <2>2. ASSUME NEW n \in 1..N PROVE u[n] = E(u[n - 1], n)
    <3>1. n \in 0..N /\ n # 0
      BY <1>1
    <3>2. u[n] = G(u)[n]
      BY <1>7
    <3>3. QED BY <3>1, <3>2
  <2> DEFINE T == {n \in 0..N : u[n] \in Seq(Frames)}
  <2>3. ASSUME NEW n \in 0..N, n \in T, n < N PROVE n + 1 \in T
    <3>1. n + 1 \in 1..N /\ n + 1 \in 0..N /\ n + 1 - 1 = n
      BY <1>1, <2>3
    <3>2. E(u[n], n + 1) \in Seq(Frames)
      <4> HIDE DEF E
      <4>1. QED BY <1>2, <2>3, <3>1
    <3>3. u[n + 1] = E(u[n + 1 - 1], n + 1)
      <4> HIDE DEF E
      <4>1. QED BY <2>2, <3>1
    <3>4. u[n + 1] \in Seq(Frames)
      <4> HIDE DEF E
      <4>1. QED BY <3>1, <3>2, <3>3
    <3>5. QED BY <3>1, <3>4
  <2>4. 0 \in T /\ T \subseteq 0..N
    <3>1. 0 \in 0..N /\ u[0] \in Seq(Frames)
      BY <1>1, <2>1
    <3>2. QED BY <3>1
  <2>5. T = 0..N
    <3> HIDE DEF T
    <3>1. QED BY <1>1, <2>3, <2>4, CountingUp
  <2>6. u \in [0..N -> Seq(Frames)]
    BY <2>1, <2>5
  <2>7. QED BY <2>1, <2>2, <2>6 DEF Counts
<1>9. FramesIn(s) = u[N]
  BY DEF FramesIn, u
<1>10. QED BY <1>8, <1>9

\* It has only one.
LEMMA CountIsFramesIn ==
    ASSUME NEW s \in Seq(Cell), NEW g, Counts(g, s)
    PROVE  FramesIn(s) = g[Len(s)]
<1> DEFINE N == Len(s)
<1>1. PICK f \in [0..N -> Seq(Frames)] : Counts(f, s) /\ FramesIn(s) = f[N]
  BY FramesAreCounted
<1>2. N \in Nat
  BY LenProperties
<1> DEFINE T == {n \in 0..N : f[n] = g[n]}
<1>3. 0 \in T /\ T \subseteq 0..N
  BY <1>1, <1>2 DEF Counts
<1>4. ASSUME NEW n \in 0..N, n \in T, n < N PROVE n + 1 \in T
  <2>1. n + 1 \in 1..N /\ n + 1 \in 0..N /\ n + 1 - 1 = n
    BY <1>2, <1>4
  <2>2. QED BY <1>1, <1>4, <2>1 DEF Counts
<1>5. T = 0..N
  <2> HIDE DEF T
  <2>1. QED BY <1>2, <1>3, <1>4, CountingUp
<1>6. QED BY <1>1, <1>2, <1>5

\* Frames of one part of a stream, then of the next.
LEMMA FramesOfJoin ==
    ASSUME NEW s \in Seq(Cell), NEW t \in Seq(Cell)
    PROVE  FramesIn(s \o t) = FramesIn(s) \o FramesIn(t)
<1>1. PICK f \in [0..Len(s) -> Seq(Frames)] : Counts(f, s) /\ FramesIn(s) = f[Len(s)]
  BY FramesAreCounted
<1>2. PICK h \in [0..Len(t) -> Seq(Frames)] : Counts(h, t) /\ FramesIn(t) = h[Len(t)]
  BY FramesAreCounted
<1>3. /\ s \o t \in Seq(Cell) /\ Len(s \o t) = Len(s) + Len(t)
      /\ \A i \in 1..Len(s) + Len(t) : (s \o t)[i] = IF i <= Len(s) THEN s[i] ELSE t[i - Len(s)]
  BY ConcatProperties
<1>4. Len(s) \in Nat /\ Len(t) \in Nat
  BY LenProperties
<1> DEFINE F == FramesIn(s)
           g == [n \in 0..Len(s) + Len(t) |-> IF n <= Len(s) THEN f[n] ELSE F \o h[n - Len(s)]]
<1>5. F \in Seq(Frames)
  BY <1>1, <1>4
<1> HIDE DEF F
<1>6. g[0] = <<>>
  BY <1>1, <1>4 DEF Counts
<1>7. ASSUME NEW n \in 1..Len(s) + Len(t)
      PROVE  g[n] = IF IsLast((s \o t)[n]) THEN Append(g[n - 1], (s \o t)[n][1]) ELSE g[n - 1]
  <2>1. n \in Nat /\ n - 1 \in 0..Len(s) + Len(t) /\ n \in 0..Len(s) + Len(t)
    BY <1>4
  <2>2. CASE n <= Len(s)
    <3>1. (s \o t)[n] = s[n] /\ g[n] = f[n] /\ g[n - 1] = f[n - 1] /\ n \in 1..Len(s)
      BY <1>3, <1>4, <2>1, <2>2
    <3>2. QED BY <1>1, <3>1 DEF Counts
  <2>3. CASE ~(n <= Len(s))
    <3> DEFINE m == n - Len(s)
    <3>1. /\ m \in 1..Len(t) /\ m \in 0..Len(t) /\ m - 1 \in 0..Len(t)
          /\ (s \o t)[n] = t[m] /\ g[n] = F \o h[m]
      BY <1>3, <1>4, <2>1, <2>3
    <3>2. g[n - 1] = F \o h[m - 1]
      <4>1. CASE n - 1 <= Len(s)
        <5>1. n - 1 = Len(s) /\ m - 1 = 0
          BY <1>4, <2>1, <2>3, <4>1
        <5>2. g[n - 1] = F
          BY <1>1, <1>4, <5>1 DEF F
        <5>3. h[m - 1] = <<>>
          BY <1>2, <5>1 DEF Counts
        <5>4. QED BY <1>5, <5>2, <5>3, ConcatEmptySeq
      <4>2. CASE ~(n - 1 <= Len(s))
        <5>1. ~(n - 1 <= Len(s)) /\ m - 1 = n - 1 - Len(s)
          BY <1>4, <2>1, <4>2
        <5>2. QED BY <2>1, <5>1
      <4>3. QED BY <4>1, <4>2
    <3>3. h[m] = IF IsLast(t[m]) THEN Append(h[m - 1], t[m][1]) ELSE h[m - 1]
      BY <1>2, <3>1 DEF Counts
    <3>4. h[m - 1] \in Seq(Frames) /\ t[m][1] \in Frames
      BY <3>1, ElementOfSeq, CellFacts
    <3> HIDE DEF m, g
    <3>5. F \o Append(h[m - 1], t[m][1]) = Append(F \o h[m - 1], t[m][1])
      <4> DEFINE a == h[m - 1]
                 c == t[m][1]
      <4>1. a \in Seq(Frames) /\ c \in Frames /\ <<c>> \in Seq(Frames)
        BY <3>4
      <4> HIDE DEF a, c
      <4>2. Append(a, c) = a \o <<c>> /\ Append(F \o a, c) = (F \o a) \o <<c>>
        BY <1>5, <4>1, AppendIsConcat, ConcatProperties
      <4> DEFINE b == <<c>>
      <4> HIDE DEF b
      <4>3. (F \o a) \o b = F \o (a \o b)
        BY <1>5, <4>1, ConcatAssociative, SMTT(30) DEF b
      <4>4. QED BY <4>2, <4>3 DEF a, b, c
    <3>6. QED BY <3>1, <3>2, <3>3, <3>5
  <2>4. QED BY <2>2, <2>3
<1>8. Counts(g, s \o t)
  BY <1>3, <1>6, <1>7 DEF Counts
<1>9. FramesIn(s \o t) = g[Len(s) + Len(t)]
  <2> HIDE DEF g
  <2>1. QED BY <1>3, <1>8, CountIsFramesIn
<1>10. CASE Len(t) = 0
  <2>1. g[Len(s) + Len(t)] = F /\ h[Len(t)] = <<>>
    BY <1>1, <1>2, <1>4, <1>10 DEF F, Counts
  <2>2. QED BY <1>2, <1>5, <1>9, <2>1, ConcatEmptySeq DEF F
<1>11. CASE Len(t) # 0
  <2>1. g[Len(s) + Len(t)] = F \o h[Len(t)]
    BY <1>4, <1>11
  <2>2. QED BY <1>2, <1>9, <2>1 DEF F
<1>12. QED BY <1>10, <1>11

\* Cells without a last one hold no frame, a packet holds its own.
LEMMA FramesInFacts ==
    /\ \A s \in Seq(Cell) : FramesIn(s) \in Seq(Frames)
    /\ FramesIn(<<>>) = <<>>
    /\ \A i \in Frames : FramesIn(Packet(i)) = <<i>>
<1>1. ASSUME NEW s \in Seq(Cell) PROVE FramesIn(s) \in Seq(Frames)
  <2>1. PICK f \in [0..Len(s) -> Seq(Frames)] : FramesIn(s) = f[Len(s)]
    BY FramesAreCounted
  <2>2. Len(s) \in 0..Len(s)
    BY LenProperties
  <2>3. QED BY <2>1, <2>2
<1>2. FramesIn(<<>>) = <<>>
  <2>1. <<>> \in Seq(Cell) /\ Len(<<>>) = 0
    BY EmptySeq
  <2> DEFINE g == [n \in 0..0 |-> <<>>]
  <2>2. Counts(g, <<>>) /\ g[0] = <<>>
    BY <2>1 DEF Counts
  <2> HIDE DEF g
  <2>3. QED BY <2>1, <2>2, CountIsFramesIn
<1>3. ASSUME NEW i \in Frames PROVE FramesIn(Packet(i)) = <<i>>
  <2> DEFINE N == Cells[i]
             g == [n \in 0..N |-> IF n = N THEN <<i>> ELSE <<>>]
  <2>1. N \in Nat \ {0}
    BY CellsAssumption DEF Frames
  <2>2. Packet(i) \in Seq(Cell) /\ Len(Packet(i)) = N /\ \A k \in 1..N : Packet(i)[k] = <<i, k>>
    BY <2>1, PacketFacts, LenProperties DEF Packet
  <2>3. ASSUME NEW n \in 1..N
        PROVE  g[n] = IF IsLast(Packet(i)[n]) THEN Append(g[n - 1], Packet(i)[n][1]) ELSE g[n - 1]
    <3>1. Packet(i)[n] = <<i, n>> /\ (IsLast(Packet(i)[n]) <=> n = N)
      BY <2>2 DEF IsLast
    <3>2. g[n - 1] = <<>>
      BY <2>1
    <3>3. Append(<<>>, i) = <<i>>
      <4>1. <<>> \in Seq(Frames) /\ <<i>> \in Seq(Frames)
        BY EmptySeq
      <4>2. QED BY <4>1, AppendIsConcat, ConcatEmptySeq
    <3>4. n \in 0..N /\ g[n] = IF n = N THEN <<i>> ELSE <<>>
      BY <2>1
    <3>5. Packet(i)[n][1] = i
      BY <3>1
    <3> HIDE DEF g, N
    <3>6. QED BY <3>1, <3>2, <3>3, <3>4, <3>5
  <2>4. Counts(g, Packet(i))
    <3>1. g[0] = <<>>
      BY <2>1
    <3> HIDE DEF g
    <3>2. QED BY <2>2, <2>3, <3>1 DEF Counts
  <2>5. g[N] = <<i>>
    BY <2>1
  <2> HIDE DEF g, N
  <2>6. QED BY <2>2, <2>4, <2>5, CountIsFramesIn
<1>4. QED BY <1>1, <1>2, <1>3

-----------------------------------------------------------------------------
(* The inductive invariant *)

\* The USB packet that is queued at the endpoint, what the host has yet to read, what it has
\* read and not decoded, and the whole stream of a connection.
Queued == IF device.endpoint = <<>> THEN <<>> ELSE Head(device.endpoint)
Ahead == Queued \o device.pending
Read == host.carry \o host.buffer
Stream == Read \o Ahead

\* The types of all that a step uses.
StreamTypes ==
    /\ sent \in 0..Len(Cells)
    /\ device \in [pending : Seq(Cell), endpoint : Seq(Seq(Cell))]
    /\ Len(device.endpoint) <= 1
    /\ host \in [phase : {"closed", "open", "sync", "ready"}, buffer : Seq(Cell),
                 short : BOOLEAN, carry : Seq(Cell)]

\* The firmware's queue holds the ends of packets, and behind a USB packet that is not full,
\* which is the boundary that synchronize_can_receive looks for, only packets from their header.
QueueInStep ==
    /\ Whole(device.pending)
    /\ device.endpoint # <<>> /\ Len(Queued) < UsbSize => Starts(device.pending)

\* While the host synchronises, a short transfer means that a header comes next; before, it has read
\* nothing.
SyncInStep ==
    /\ host.phase = "open" => ~host.short
    /\ host.phase = "sync" /\ host.short => Whole(Ahead) /\ Starts(Ahead)

\* Once it is ready, all there is of the stream goes from a header to the end of a packet, and
\* receive_carry_ is never more than the beginning of one packet.
ReadyInStep ==
    host.phase = "ready" =>
        /\ Whole(Stream) /\ Starts(Stream)
        /\ \A k \in 1..Len(host.carry) : ~IsLast(host.carry[k])

InStep ==
    /\ StreamTypes
    /\ QueueInStep
    /\ SyncInStep
    /\ ReadyInStep
    /\ failed = FALSE

\* The initial state, and every loss of the connection: nothing is claimed of the host.
LEMMA InitInStep == LinkInit => InStep
<1>1. SUFFICES ASSUME LinkInit PROVE InStep
  OBVIOUS
<1>2. 0 \in 0..Len(Cells)
  BY CellsAssumption, LenProperties
<1>3. /\ <<>> \in Seq(Cell) /\ <<>> \in Seq(Seq(Cell)) /\ Len(<<>>) = 0
  BY EmptySeq
<1>4. StreamTypes
  BY <1>1, <1>2, <1>3 DEF LinkInit, StreamTypes, Closed
<1>5. Whole(<<>>)
  BY <1>3 DEF Whole
<1>6. QueueInStep /\ SyncInStep /\ ReadyInStep /\ failed = FALSE
  BY <1>1, <1>5 DEF LinkInit, Closed, QueueInStep, SyncInStep, ReadyInStep
<1>7. QED BY <1>4, <1>6 DEF InStep

\* The types of the parts that the steps put together.
LEMMA PartTypes ==
    ASSUME StreamTypes
    PROVE  /\ device.pending \in Seq(Cell) /\ device.endpoint \in Seq(Seq(Cell))
           /\ host.carry \in Seq(Cell) /\ host.buffer \in Seq(Cell)
           /\ Queued \in Seq(Cell) /\ Ahead \in Seq(Cell)
           /\ Read \in Seq(Cell) /\ Stream \in Seq(Cell)
<1>1. /\ device.pending \in Seq(Cell) /\ device.endpoint \in Seq(Seq(Cell))
      /\ host.carry \in Seq(Cell) /\ host.buffer \in Seq(Cell)
  BY DEF StreamTypes
<1>2. Queued \in Seq(Cell)
  <2>1. CASE device.endpoint = <<>>
    BY <2>1, EmptySeq DEF Queued
  <2>2. CASE device.endpoint # <<>>
    <3>1. Head(device.endpoint) \in Seq(Cell)
      BY <1>1, <2>2, HeadTailProperties
    <3>2. QED BY <2>2, <3>1 DEF Queued
  <2>3. QED BY <2>1, <2>2
<1>3. Ahead \in Seq(Cell) /\ Read \in Seq(Cell)
  BY <1>1, <1>2, ConcatProperties DEF Ahead, Read
<1>4. Stream \in Seq(Cell)
  BY <1>3, ConcatProperties DEF Stream
<1>5. QED BY <1>1, <1>2, <1>3, <1>4

-----------------------------------------------------------------------------
(* The firmware's steps *)

\* A step that leaves the host alone.
LEMMA HostKept ==
    ASSUME InStep, UNCHANGED <<host, failed>>, StreamTypes', QueueInStep',
           Whole(Ahead) /\ Starts(Ahead) => Whole(Ahead') /\ Starts(Ahead'),
           Whole(Stream) /\ Starts(Stream) => Whole(Stream') /\ Starts(Stream')
    PROVE  InStep'
<1>1. SyncInStep'
  BY DEF InStep, SyncInStep
<1>2. ReadyInStep'
  BY DEF InStep, ReadyInStep
<1>3. QED BY <1>1, <1>2 DEF InStep

\* A frame of the bus goes behind all that is queued.
LEMMA CanReceiveKeeps ==
    ASSUME InStep, CanReceive
    PROVE  /\ InStep'
           /\ \/ UNCHANGED <<Ahead, Stream>>
              \/ /\ Ahead' = Ahead \o Packet(sent + 1)
                 /\ Stream' = Stream \o Packet(sent + 1)
<1> DEFINE p == Packet(sent + 1)
<1>1. sent + 1 \in Frames /\ sent' = sent + 1 /\ sent' \in 0..Len(Cells)
  <2>1. Len(Cells) \in Nat /\ DOMAIN Cells = 1..Len(Cells)
    BY CellsAssumption, LenProperties
  <2>2. QED BY <2>1 DEF CanReceive, InStep, StreamTypes, Frames
<1>2. p \in Seq(Cell) /\ Whole(p) /\ Starts(p)
  BY <1>1, PacketFacts
<1>3. UNCHANGED <<host, failed>>
  BY DEF CanReceive
<1>4. device' = device \/ device' = [device EXCEPT !.pending = @ \o p]
  BY DEF CanReceive
<1> HIDE DEF p
<1>5. CASE device' = device
  <2>1. StreamTypes'
    BY <1>1, <1>3, <1>5 DEF InStep, StreamTypes
  <2>2. QueueInStep'
    BY <1>5 DEF InStep, QueueInStep, Queued
  <2>3. Ahead' = Ahead /\ Stream' = Stream
    BY <1>3, <1>5 DEF Ahead, Queued, Stream, Read
  <2>4. QED BY <1>3, <2>1, <2>2, <2>3, HostKept
<1>6. CASE device' = [device EXCEPT !.pending = @ \o p]
  <2>1. /\ device.pending \in Seq(Cell) /\ device.endpoint \in Seq(Seq(Cell))
        /\ Queued \in Seq(Cell) /\ Ahead \in Seq(Cell)
        /\ Read \in Seq(Cell) /\ Stream \in Seq(Cell)
    BY PartTypes DEF InStep
  <2>2. device'.pending = device.pending \o p /\ device'.endpoint = device.endpoint
    BY <1>6 DEF InStep, StreamTypes
  <2>3. device'.pending \in Seq(Cell)
    BY <1>2, <2>1, <2>2, ConcatProperties
  <2>4. StreamTypes'
    BY <1>1, <1>3, <1>6, <2>2, <2>3 DEF InStep, StreamTypes
  <2>5. Queued' = Queued /\ Read' = Read
    BY <1>3, <2>2 DEF Queued, Read
  <2>6. QueueInStep'
    <3>1. Whole(device.pending \o p)
      BY <1>2, <2>1, WholeJoin DEF InStep, QueueInStep
    <3>2. Starts(device.pending) => Starts(device.pending \o p)
      BY <1>2, <2>1, StartsJoin
    <3>3. QED BY <2>2, <2>5, <3>1, <3>2 DEF InStep, QueueInStep
  <2>7. Ahead' = Ahead \o p
    <3>1. Queued \o (device.pending \o p) = (Queued \o device.pending) \o p
      BY <1>2, <2>1, JoinAtEnd, ZenonT(40)
    <3>2. QED BY <2>2, <2>5, <3>1 DEF Ahead
  <2>8. Stream' = Stream \o p
    <3>1. Read \o (Ahead \o p) = (Read \o Ahead) \o p
      BY <1>2, <2>1, JoinAtEnd, ZenonT(40)
    <3>2. QED BY <2>5, <2>7, <3>1 DEF Stream
  <2>9. Whole(Ahead) /\ Starts(Ahead) => Whole(Ahead') /\ Starts(Ahead')
    BY <1>2, <2>1, <2>7, WholeJoin, StartsJoin
  <2>10. Whole(Stream) /\ Starts(Stream) => Whole(Stream') /\ Starts(Stream')
    BY <1>2, <2>1, <2>8, WholeJoin, StartsJoin
  <2>11. QED BY <1>3, <2>4, <2>6, <2>7, <2>8, <2>9, <2>10, HostKept DEF p
<1>7. QED BY <1>4, <1>5, <1>6 DEF p

\* The next USB packet is cut from the queue: nothing changes in what the host has yet to read.
LEMMA FillEndpointKeeps ==
    ASSUME InStep, FillEndpoint
    PROVE  InStep' /\ UNCHANGED <<Ahead, Stream>>
<1> DEFINE s == device.pending
           n == Min({UsbSize, Len(s)})
           cut == SubSeq(s, 1, n)
           rest == SubSeq(s, n + 1, Len(s))
<1>1. s \in Seq(Cell) /\ Len(s) \in Nat /\ Whole(s)
  BY PartTypes, LenProperties DEF InStep, QueueInStep
<1>2. UsbSize \in Nat \ {0}
  BY UsbAssumption
<1>3. n \in 0..Len(s) /\ (n < UsbSize => n = Len(s))
  <2>1. n \in Nat /\ n <= Len(s) /\ (n < UsbSize => n = Len(s))
    BY <1>1, <1>2, MinOfTwo
  <2>2. QED BY <1>1, <2>1
<1>4. /\ device.endpoint = <<>>
      /\ device' = [pending |-> rest, endpoint |-> <<cut>>]
      /\ UNCHANGED <<sent, host, failed>>
  BY DEF FillEndpoint
<1> HIDE DEF n
<1>5. /\ rest \in Seq(Cell) /\ Whole(rest)
      /\ n = Len(s) => Starts(rest)
  BY <1>1, <1>3, WholeSuffix
<1>6. cut \in Seq(Cell) /\ Len(cut) = n
  BY <1>1, <1>3, CutAt
<1>7. cut \o rest = s
  BY <1>1, <1>3, CutAt
<1> HIDE DEF cut, rest, s
<1>8. /\ device'.pending = rest /\ device'.endpoint = <<cut>> /\ Queued' = cut
  BY <1>4 DEF Queued
<1>9. StreamTypes'
  <2>1. <<cut>> \in Seq(Seq(Cell)) /\ Len(<<cut>>) = 1
    BY <1>6
  <2>2. QED BY <1>4, <1>5, <2>1 DEF InStep, StreamTypes
<1>10. QueueInStep'
  BY <1>3, <1>5, <1>6, <1>8 DEF QueueInStep
<1>11. Ahead' = Ahead
  <2>1. Queued = <<>>
    BY <1>4 DEF Queued
  <2>2. Ahead = s
    BY <1>1, <2>1, ConcatEmptySeq DEF Ahead, s
  <2>3. QED BY <1>7, <1>8, <2>2 DEF Ahead
<1>12. Stream' = Stream
  BY <1>4, <1>11 DEF Stream, Read
<1>13. QED BY <1>4, <1>9, <1>10, <1>11, <1>12, HostKept

-----------------------------------------------------------------------------
(* The host's steps *)

\* The connection is given up, closed or begun: nothing is claimed of the host.
LEMMA ClosedKeeps ==
    ASSUME InStep, UNCHANGED <<sent, failed>>,
           host' \in {Closed, [Closed EXCEPT !.phase = "open"], [Closed EXCEPT !.phase = "sync"]},
           \/ UNCHANGED device
           \/ device' = [pending |-> <<>>, endpoint |-> <<>>]
    PROVE  InStep'
<1>1. <<>> \in Seq(Cell) /\ <<>> \in Seq(Seq(Cell)) /\ Len(<<>>) = 0 /\ Whole(<<>>)
  BY EmptySeq DEF Whole
<1>2. host'.phase \in {"closed", "open", "sync"} /\ ~host'.short
  BY DEF Closed
<1>3. host' \in [phase : {"closed", "open", "sync", "ready"}, buffer : Seq(Cell),
                 short : BOOLEAN, carry : Seq(Cell)]
  <2>1. CASE host' = Closed
    BY <1>1, <2>1 DEF Closed
  <2>2. CASE host' = [Closed EXCEPT !.phase = "open"]
    BY <1>1, <2>2 DEF Closed
  <2>3. CASE host' = [Closed EXCEPT !.phase = "sync"]
    BY <1>1, <2>3 DEF Closed
  <2>4. QED BY <2>1, <2>2, <2>3
<1>4. device' \in [pending : Seq(Cell), endpoint : Seq(Seq(Cell))] /\ Len(device'.endpoint) <= 1
  <2>1. CASE UNCHANGED device
    BY <2>1 DEF InStep, StreamTypes
  <2>2. CASE device' = [pending |-> <<>>, endpoint |-> <<>>]
    BY <1>1, <2>2
  <2>3. QED BY <2>1, <2>2
<1>5. QueueInStep'
  <2>1. CASE UNCHANGED device
    BY <2>1 DEF InStep, QueueInStep, Queued
  <2>2. CASE device' = [pending |-> <<>>, endpoint |-> <<>>]
    BY <1>1, <2>2 DEF QueueInStep
  <2>3. QED BY <2>1, <2>2
<1>6. StreamTypes'
  BY <1>3, <1>4 DEF InStep, StreamTypes
<1>7. SyncInStep' /\ ReadyInStep'
  BY <1>2 DEF SyncInStep, ReadyInStep
<1>8. QED BY <1>5, <1>6, <1>7 DEF InStep

\* Reset of the communication drops the rest of a packet whose beginning is gone.
LEMMA ResetCommunicationKeeps ==
    ASSUME InStep, ResetCommunication
    PROVE  /\ InStep' /\ Queued' = Queued
           /\ \E t \in Seq(Cell) : device.pending = t \o device'.pending
<1> DEFINE rest == WithoutTail(device.pending)
<1>1. /\ host.phase = "open" /\ UNCHANGED <<sent, failed>>
      /\ host' = [host EXCEPT !.phase = "sync"]
      /\ device' = [device EXCEPT !.pending = rest]
  BY DEF ResetCommunication
<1>2. rest \in Seq(Cell) /\ Whole(rest) /\ Starts(rest)
  BY PartTypes, WithoutTailFacts DEF InStep, QueueInStep
<1> HIDE DEF rest
<1>3. host'.phase = "sync" /\ ~host'.short
  BY <1>1 DEF InStep, StreamTypes, SyncInStep
<1>4. device'.pending = rest /\ device'.endpoint = device.endpoint
  BY <1>1 DEF InStep, StreamTypes
<1>5. StreamTypes'
  BY <1>1, <1>2, <1>4 DEF InStep, StreamTypes
<1>6. QueueInStep'
  BY <1>2, <1>4 DEF QueueInStep
<1>7. SyncInStep' /\ ReadyInStep'
  BY <1>3 DEF SyncInStep, ReadyInStep
<1>8. \E t \in Seq(Cell) : device.pending = t \o device'.pending
  BY <1>4, PartTypes, WithoutTailFacts DEF InStep, QueueInStep, rest
<1>9. QED BY <1>1, <1>4, <1>5, <1>6, <1>7, <1>8 DEF InStep, Queued

\* One USB packet of a transfer: it moves from the endpoint to the host's buffer.
LEMMA ReadUsbPacketKeeps ==
    ASSUME InStep, ReadUsbPacket
    PROVE  InStep' /\ Ahead' = device.pending /\ Stream' = Stream
<1>1. /\ host.phase \in {"sync", "ready"} /\ ~host.short /\ device.endpoint # <<>>
      /\ host' = [host EXCEPT !.buffer = @ \o Head(device.endpoint),
                              !.short = Len(Head(device.endpoint)) < UsbSize]
      /\ device' = [device EXCEPT !.endpoint = <<>>]
      /\ UNCHANGED <<sent, failed>>
  BY DEF ReadUsbPacket, Reading, TransferDone
<1>2. Queued = Head(device.endpoint)
  BY <1>1 DEF Queued
<1>3. /\ device.pending \in Seq(Cell) /\ Queued \in Seq(Cell) /\ Ahead \in Seq(Cell)
      /\ host.carry \in Seq(Cell) /\ host.buffer \in Seq(Cell) /\ Read \in Seq(Cell)
  BY PartTypes DEF InStep
<1>4. host.buffer \o Queued \in Seq(Cell)
  BY <1>3, ConcatProperties
<1> DEFINE short == Len(Queued) < UsbSize
<1>5. short \in BOOLEAN
  OBVIOUS
<1>6. host' = [host EXCEPT !.buffer = @ \o Queued, !.short = short]
  BY <1>1, <1>2
<1>7. short => Starts(device.pending)
  BY <1>1 DEF InStep, QueueInStep
<1> HIDE DEF short
<1>8. /\ host'.phase = host.phase /\ host'.carry = host.carry
      /\ host'.buffer = host.buffer \o Queued /\ host'.short = short
  BY <1>6 DEF InStep, StreamTypes
<1>9. device'.pending = device.pending /\ device'.endpoint = <<>> /\ Queued' = <<>>
  BY <1>1 DEF InStep, StreamTypes, Queued
<1>10. StreamTypes'
  <2>1. device' \in [pending : Seq(Cell), endpoint : Seq(Seq(Cell))] /\ Len(device'.endpoint) <= 1
    <3>1. <<>> \in Seq(Seq(Cell)) /\ Len(<<>>) = 0
      BY EmptySeq
    <3>2. device' \in [pending : Seq(Cell), endpoint : Seq(Seq(Cell))]
      BY <1>1, <3>1 DEF InStep, StreamTypes
    <3>3. QED BY <1>9, <3>1, <3>2
  <2>2. host' \in [phase : {"closed", "open", "sync", "ready"}, buffer : Seq(Cell),
                   short : BOOLEAN, carry : Seq(Cell)]
    BY <1>4, <1>5, <1>6, <1>8 DEF InStep, StreamTypes
  <2>3. QED BY <1>1, <2>1, <2>2 DEF InStep, StreamTypes
<1>11. QueueInStep'
  BY <1>9 DEF InStep, QueueInStep
<1>12. Ahead' = device.pending
  BY <1>3, <1>9, ConcatEmptySeq DEF Ahead
<1>13. Stream' = Stream
  <2>1. Read' = Read \o Queued
    <3>1. host.carry \o (host.buffer \o Queued) = (host.carry \o host.buffer) \o Queued
      BY <1>3, JoinAtEnd, ZenonT(40)
    <3>2. QED BY <1>8, <3>1 DEF Read
  <2>2. (Read \o Queued) \o device.pending = Read \o (Queued \o device.pending)
    BY <1>3, JoinAtEnd, ZenonT(40)
  <2>3. QED BY <1>12, <2>1, <2>2 DEF Stream, Ahead
<1>14. SyncInStep'
  BY <1>1, <1>7, <1>8, <1>12 DEF InStep, QueueInStep, SyncInStep
<1>15. ReadyInStep'
  BY <1>8, <1>13 DEF InStep, ReadyInStep
<1>16. QED BY <1>1, <1>10, <1>11, <1>12, <1>13, <1>14, <1>15 DEF InStep

\* synchronize_can_receive ends only on a transfer that was cut short by the firmware.
LEMMA DrainedKeeps ==
    ASSUME InStep, NEW status \in {"success", "timeout"}, TransferEnds(status), host.phase # "ready"
    PROVE  InStep' /\ Ahead' = Ahead /\ (host'.phase = "ready" => Stream' = Ahead)
<1>1. /\ host.phase = "sync" /\ host' = Drained(status) /\ UNCHANGED <<sent, device, failed>>
      /\ status = "success" => host.short \/ Len(host.buffer) = Capacity
  BY DEF TransferEnds, Reading, TransferDone
<1>2. CASE ~Boundary(status)
  <2>1. InStep' /\ host'.phase # "ready"
    BY <1>1, <1>2, ClosedKeeps DEF Drained, Closed
  <2>2. Ahead' = Ahead
    BY <1>1 DEF Queued, Ahead
  <2>3. QED BY <2>1, <2>2
<1>3. CASE Boundary(status)
  <2>1. host.short
    <3>1. Len(host.buffer) < Capacity /\ Len(host.buffer) \in Nat /\ Capacity \in Nat
      BY <1>3, UsbAssumption, PartTypes, LenProperties DEF Boundary, InStep
    <3>2. QED BY <1>1, <1>3, <3>1 DEF Boundary
  <2>2. host' = [Closed EXCEPT !.phase = "ready"]
    BY <1>1, <1>3 DEF Drained
  <2>3. <<>> \in Seq(Cell) /\ Len(<<>>) = 0
    BY EmptySeq
  <2>4. /\ host'.phase = "ready" /\ host'.carry = <<>> /\ host'.buffer = <<>>
        /\ host' \in [phase : {"closed", "open", "sync", "ready"}, buffer : Seq(Cell),
                      short : BOOLEAN, carry : Seq(Cell)]
    BY <2>2, <2>3 DEF Closed
  <2>5. StreamTypes'
    BY <1>1, <2>4 DEF InStep, StreamTypes
  <2>6. Queued' = Queued /\ Ahead' = Ahead
    BY <1>1 DEF Queued, Ahead
  <2>7. QueueInStep'
    BY <1>1, <2>6 DEF InStep, QueueInStep
  <2>8. Stream' = Ahead
    <3>1. Read' = <<>>
      BY <2>3, <2>4, ConcatEmptySeq DEF Read
    <3>2. Ahead \in Seq(Cell)
      BY PartTypes DEF InStep
    <3>3. QED BY <2>6, <3>1, <3>2, ConcatEmptySeq DEF Stream
  <2>9. Whole(Ahead) /\ Starts(Ahead)
    BY <1>1, <2>1 DEF InStep, SyncInStep
  <2>10. ReadyInStep'
    BY <2>3, <2>4, <2>8, <2>9 DEF ReadyInStep
  <2>11. SyncInStep'
    BY <2>4 DEF SyncInStep
  <2>12. QED BY <1>1, <2>5, <2>6, <2>7, <2>8, <2>10, <2>11 DEF InStep
<1>4. QED BY <1>2, <1>3

\* receive(): the checksums hold, and what is left begins with a header and is less than a packet.
LEMMA ReceiveKeeps ==
    ASSUME InStep, NEW status \in {"success", "timeout"}, TransferEnds(status), host.phase = "ready"
    PROVE  /\ InStep' /\ Ahead' = Ahead /\ host'.phase = "ready"
           /\ \E t \in Seq(Cell) : Stream = t \o Stream' /\ arrived' = FramesIn(t)
<1> DEFINE n == Unpacked(Read)
           rest == SubSeq(Read, n + 1, Len(Read))
<1>1. Read \in Seq(Cell) /\ Ahead \in Seq(Cell) /\ Stream \in Seq(Cell)
  BY PartTypes DEF InStep
<1>2. Whole(Stream) /\ Starts(Stream)
  BY DEF InStep, ReadyInStep
<1>3. Aligned(Read)
  BY <1>1, <1>2, PrefixIsAligned DEF Stream
<1>4. /\ host' = [Closed EXCEPT !.phase = "ready", !.carry = rest]
      /\ UNCHANGED <<sent, device, failed>>
  BY <1>3 DEF TransferEnds, Receive, Decoded, Read
<1>5. /\ n \in 0..Len(Read) /\ (n # 0 => IsLast(Read[n]))
      /\ \A k \in 1..Len(Read) : IsLast(Read[k]) => k <= n
  BY <1>1, UnpackedFacts
<1>6. Len(Read) \in Nat /\ Len(Ahead) \in Nat
  BY <1>1, LenProperties
<1> DEFINE taken == SubSeq(Read, 1, n)
<1>7. arrived' = FramesIn(taken)
  BY <1>3 DEF TransferEnds, Receive, Decoded, Read
<1> HIDE DEF n
<1>8. taken \in Seq(Cell) /\ Read = taken \o rest
  BY <1>1, <1>5, CutAt
<1> HIDE DEF taken
<1>9. /\ rest \in Seq(Cell) /\ Len(rest) = Len(Read) - n
      /\ \A i \in 1..Len(rest) : rest[i] = Read[n + i]
  BY <1>1, <1>5, WholeSuffix
<1>10. rest \o Ahead = SubSeq(Stream, n + 1, Len(Stream))
  BY <1>1, <1>5, CutOfJoin DEF Stream
<1> HIDE DEF rest
<1>11. /\ Len(Stream) = Len(Read) + Len(Ahead)
       /\ \A i \in 1..Len(Read) : Stream[i] = Read[i]
  BY <1>1, <1>6, ConcatProperties DEF Stream
<1>12. Whole(rest \o Ahead)
  <2>1. n \in 0..Len(Stream)
    BY <1>5, <1>6, <1>11
  <2>2. QED BY <1>1, <1>2, <1>10, <2>1, WholeSuffix
<1>13. Starts(rest \o Ahead)
  <2>1. CASE n = 0
    <3>1. SubSeq(Stream, 1, Len(Stream)) = Stream
      BY <1>1, SubSeqFull
    <3>2. n + 1 = 1
      BY <2>1
    <3>3. rest \o Ahead = Stream
      BY <1>10, <3>1, <3>2
    <3>4. QED BY <1>2, <3>3
  <2>2. CASE n # 0
    <3>1. n \in 1..Len(Stream) /\ IsLast(Stream[n])
      BY <1>5, <1>6, <1>11, <2>2
    <3>2. QED BY <1>1, <1>2, <1>10, <3>1, HeaderFollows
  <2>3. QED BY <2>1, <2>2
<1>14. ASSUME NEW k \in 1..Len(rest) PROVE ~IsLast(rest[k])
  <2>1. n + k \in 1..Len(Read) /\ ~(n + k <= n) /\ rest[k] = Read[n + k]
    BY <1>5, <1>6, <1>9
  <2>2. QED BY <1>5, <2>1
<1>15. <<>> \in Seq(Cell)
  BY EmptySeq
<1>16. /\ host'.phase = "ready" /\ host'.carry = rest /\ host'.buffer = <<>>
       /\ host' \in [phase : {"closed", "open", "sync", "ready"}, buffer : Seq(Cell),
                     short : BOOLEAN, carry : Seq(Cell)]
  BY <1>4, <1>9, <1>15 DEF Closed
<1>17. Queued' = Queued /\ Ahead' = Ahead
  BY <1>4 DEF Queued, Ahead
<1>18. Stream' = rest \o Ahead
  <2>1. Read' = rest
    BY <1>9, <1>16, ConcatEmptySeq DEF Read
  <2>2. QED BY <1>17, <2>1 DEF Stream
<1>19. StreamTypes'
  BY <1>4, <1>16 DEF InStep, StreamTypes
<1>20. QueueInStep'
  BY <1>4, <1>17 DEF InStep, QueueInStep
<1>21. ReadyInStep'
  BY <1>12, <1>13, <1>14, <1>16, <1>18 DEF ReadyInStep
<1>22. SyncInStep'
  BY <1>16 DEF SyncInStep
<1>23. Stream = taken \o Stream'
  <2>1. taken \o (rest \o Ahead) = (taken \o rest) \o Ahead
    BY <1>1, <1>9, <1>8, JoinAtEnd, ZenonT(40)
  <2>2. QED BY <1>18, <1>8, <2>1 DEF Stream
<1>24. InStep'
  BY <1>4, <1>19, <1>20, <1>21, <1>22 DEF InStep
<1>25. QED BY <1>16, <1>17, <1>23, <1>24, <1>7, <1>8

-----------------------------------------------------------------------------
(* The order of the frames *)

\* Frames of the first n on the bus, each later than the one before.
Ordered(s, n) ==
    /\ s \in Seq(1..n)
    /\ \A i, j \in 1..Len(s) : i < j => s[i] < s[j]

\* A sequence of frames that are all among the first n.
LEMMA TypedSeq ==
    ASSUME NEW S, NEW T, NEW s \in Seq(S), \A i \in 1..Len(s) : s[i] \in T
    PROVE  s \in Seq(T)
<1>1. Len(s) \in Nat /\ s = [i \in 1..Len(s) |-> s[i]]
  BY LenProperties
<1>2. [i \in 1..Len(s) |-> s[i]] \in Seq(T)
  BY <1>1, IsASeq
<1>3. QED BY <1>1, <1>2

\* The two parts of what was joined.
LEMMA PartsOfJoin ==
    ASSUME NEW S, NEW a \in Seq(S), NEW b \in Seq(S)
    PROVE  /\ Len(a) \in 0..Len(a \o b)
           /\ SubSeq(a \o b, 1, Len(a)) = a
           /\ SubSeq(a \o b, Len(a) + 1, Len(a \o b)) = b
<1> DEFINE n == Len(a)
           ab == a \o b
<1>1. /\ ab \in Seq(S) /\ Len(ab) = n + Len(b)
      /\ \A i \in 1..n + Len(b) : ab[i] = IF i <= n THEN a[i] ELSE b[i - n]
  BY ConcatProperties
<1>2. n \in Nat /\ Len(b) \in Nat
  BY LenProperties
<1> HIDE DEF ab
<1>3. \A i \in 1..Len(ab) : ab[i] \in S
  BY <1>1, ElementOfSeq
<1>4. SubSeq(ab, 1, n) = a
  <2>1. /\ SubSeq(ab, 1, n) \in Seq(S) /\ Len(SubSeq(ab, 1, n)) = IF 1 <= n THEN n - 1 + 1 ELSE 0
        /\ \A i \in 1..n - 1 + 1 : SubSeq(ab, 1, n)[i] = ab[1 + i - 1]
    BY <1>1, <1>2, <1>3, SubSeqProperties
  <2>2. Len(SubSeq(ab, 1, n)) = n
    BY <1>2, <2>1
  <2>3. \A i \in 1..n : SubSeq(ab, 1, n)[i] = a[i]
    BY <1>1, <1>2, <2>1
  <2>4. QED BY <2>1, <2>2, <2>3, SeqEqual
<1>5. SubSeq(ab, n + 1, Len(ab)) = b
  <2> DEFINE rest == SubSeq(ab, n + 1, Len(ab))
  <2>1. /\ rest \in Seq(S)
        /\ Len(rest) = IF n + 1 <= Len(ab) THEN Len(ab) - (n + 1) + 1 ELSE 0
        /\ \A i \in 1..Len(ab) - (n + 1) + 1 : rest[i] = ab[(n + 1) + i - 1]
    BY <1>1, <1>2, <1>3, SubSeqProperties
  <2> HIDE DEF rest
  <2>2. Len(rest) = Len(b)
    BY <1>1, <1>2, <2>1
  <2>3. ASSUME NEW i \in 1..Len(b) PROVE rest[i] = b[i]
    <3>1. i \in 1..Len(ab) - (n + 1) + 1 /\ (n + 1) + i - 1 = n + i
      BY <1>1, <1>2
    <3>2. rest[i] = ab[n + i]
      BY <2>1, <3>1
    <3>3. n + i \in 1..n + Len(b) /\ ~(n + i <= n) /\ n + i - n = i
      BY <1>2
    <3>4. QED BY <1>1, <3>2, <3>3
  <2>4. rest = b
    BY <2>1, <2>2, <2>3, SeqEqual
  <2>5. QED BY <2>4 DEF rest
<1>6. QED BY <1>1, <1>2, <1>4, <1>5 DEF ab

\* Order is kept when frames are taken out of the middle, as a reset of the communication does.
LEMMA OrderedParts ==
    ASSUME NEW n \in Nat, NEW a \in Seq(Frames), NEW b \in Seq(Frames), NEW c \in Seq(Frames),
           Ordered(a \o (b \o c), n)
    PROVE  Ordered(a \o c, n)
<1>1. /\ b \o c \in Seq(Frames) /\ Len(b \o c) = Len(b) + Len(c)
      /\ \A i \in 1..Len(b) + Len(c) : (b \o c)[i] = IF i <= Len(b) THEN b[i] ELSE c[i - Len(b)]
  BY ConcatProperties
<1>2. /\ Len(a \o (b \o c)) = Len(a) + Len(b \o c)
      /\ \A i \in 1..Len(a) + Len(b \o c) :
            (a \o (b \o c))[i] = IF i <= Len(a) THEN a[i] ELSE (b \o c)[i - Len(a)]
  BY <1>1, ConcatProperties
<1>3. /\ a \o c \in Seq(Frames) /\ Len(a \o c) = Len(a) + Len(c)
      /\ \A i \in 1..Len(a) + Len(c) : (a \o c)[i] = IF i <= Len(a) THEN a[i] ELSE c[i - Len(a)]
  BY ConcatProperties
<1>4. Len(a) \in Nat /\ Len(b) \in Nat /\ Len(c) \in Nat
  BY LenProperties
<1> DEFINE whole == a \o (b \o c)
           at(i) == IF i <= Len(a) THEN i ELSE i + Len(b)
<1>5. ASSUME NEW i \in 1..Len(a) + Len(c)
      PROVE  at(i) \in 1..Len(whole) /\ (a \o c)[i] = whole[at(i)]
  <2>1. CASE i <= Len(a)
    BY <1>1, <1>2, <1>3, <1>4, <2>1
  <2>2. CASE ~(i <= Len(a))
    <3>1. i + Len(b) \in 1..Len(a) + Len(b \o c) /\ ~(i + Len(b) <= Len(a))
      BY <1>1, <1>4, <2>2
    <3>2. whole[i + Len(b)] = (b \o c)[i + Len(b) - Len(a)]
      BY <1>2, <3>1
    <3>3. i + Len(b) - Len(a) \in 1..Len(b) + Len(c) /\ ~(i + Len(b) - Len(a) <= Len(b))
      BY <1>4, <2>2
    <3>4. (b \o c)[i + Len(b) - Len(a)] = c[i + Len(b) - Len(a) - Len(b)]
      BY <1>1, <3>3
    <3>5. i + Len(b) - Len(a) - Len(b) = i - Len(a)
      BY <1>4
    <3>6. QED BY <1>2, <1>3, <2>2, <3>1, <3>2, <3>4, <3>5
  <2>3. QED BY <2>1, <2>2
<1>6. \A i, j \in 1..Len(a) + Len(c) : i < j => at(i) < at(j)
  BY <1>4
<1> HIDE DEF whole, at
<1>7. /\ whole \in Seq(1..n) /\ \A i, j \in 1..Len(whole) : i < j => whole[i] < whole[j]
  BY DEF Ordered, whole
<1>8. \A i \in 1..Len(a \o c) : (a \o c)[i] \in 1..n
  BY <1>3, <1>5, <1>7, ElementOfSeq
<1>9. a \o c \in Seq(1..n)
  BY <1>3, <1>8, TypedSeq
<1>10. \A i, j \in 1..Len(a \o c) : i < j => (a \o c)[i] < (a \o c)[j]
  BY <1>3, <1>5, <1>6, <1>7
<1>11. QED BY <1>9, <1>10 DEF Ordered

\* The end of what was in order.
LEMMA OrderedEnd ==
    ASSUME NEW n \in Nat, NEW b \in Seq(Frames), NEW c \in Seq(Frames), Ordered(b \o c, n)
    PROVE  Ordered(c, n)
<1>1. <<>> \in Seq(Frames) /\ <<>> \o (b \o c) = b \o c /\ <<>> \o c = c
  BY EmptySeq, ConcatEmptySeq, ConcatProperties
<1>2. Ordered(<<>> \o c, n)
  BY <1>1, OrderedParts
<1>3. QED BY <1>1, <1>2

\* The next frame of the bus goes behind all there are.
LEMMA OrderedAppend ==
    ASSUME NEW n \in Nat, NEW s, Ordered(s, n)
    PROVE  Ordered(s \o <<n + 1>>, n + 1) /\ Ordered(s, n + 1)
<1>1. s \in Seq(1..n) /\ 1..n \subseteq 1..n + 1 /\ n + 1 \in 1..n + 1
  BY DEF Ordered
<1>2. s \in Seq(1..n + 1) /\ <<n + 1>> \in Seq(1..n + 1) /\ Len(<<n + 1>>) = 1
  BY <1>1, SeqMonotonic
<1>3. /\ s \o <<n + 1>> \in Seq(1..n + 1) /\ Len(s \o <<n + 1>>) = Len(s) + 1
      /\ \A i \in 1..Len(s) + 1 :
            (s \o <<n + 1>>)[i] = IF i <= Len(s) THEN s[i] ELSE <<n + 1>>[i - Len(s)]
  BY <1>2, ConcatProperties
<1>4. Len(s) \in Nat /\ \A i \in 1..Len(s) : s[i] \in 1..n
  BY <1>1, LenProperties, ElementOfSeq
<1>5. (s \o <<n + 1>>)[Len(s) + 1] = n + 1
  BY <1>3, <1>4
<1>6. \A i \in 1..Len(s) : (s \o <<n + 1>>)[i] = s[i]
  BY <1>3, <1>4
<1>7. ASSUME NEW i \in 1..Len(s) + 1, NEW j \in 1..Len(s) + 1, i < j
      PROVE  (s \o <<n + 1>>)[i] < (s \o <<n + 1>>)[j]
  <2>1. i \in 1..Len(s)
    BY <1>4, <1>7
  <2>2. CASE j = Len(s) + 1
    <3>1. s[i] < n + 1
      BY <1>4, <2>1
    <3>2. QED BY <1>5, <1>6, <2>1, <2>2, <3>1
  <2>3. CASE j # Len(s) + 1
    <3>1. j \in 1..Len(s)
      BY <1>4, <2>3
    <3>2. QED BY <1>6, <1>7, <2>1, <3>1 DEF Ordered
  <2>4. QED BY <2>2, <2>3
<1>8. Ordered(s \o <<n + 1>>, n + 1)
  BY <1>3, <1>7 DEF Ordered
<1>9. QED BY <1>2, <1>8 DEF Ordered

\* Queued in the firmware are frames of the bus in their order, cut or not.
OrderInStep == Ordered(FramesIn(Ahead), sent)

\* The stream after a step.
LEMMA NextStreamTyped ==
    ASSUME InStep, InStep', Ahead' = Ahead
    PROVE  Stream' \in Seq(Cell)
<1>1. host'.carry \in Seq(Cell) /\ host'.buffer \in Seq(Cell) /\ Ahead' \in Seq(Cell)
  BY PartTypes DEF InStep, StreamTypes
<1>2. Read' \in Seq(Cell)
  BY <1>1, ConcatProperties DEF Read
<1>3. QED BY <1>1, <1>2, ConcatProperties DEF Stream

\* The frames of what is ahead and of a part of it.
LEMMA AheadFrames ==
    ASSUME InStep
    PROVE  /\ FramesIn(Queued) \in Seq(Frames) /\ FramesIn(device.pending) \in Seq(Frames)
           /\ FramesIn(Ahead) \in Seq(Frames) /\ FramesIn(Stream) \in Seq(Frames)
           /\ FramesIn(Ahead) = FramesIn(Queued) \o FramesIn(device.pending)
<1>1. /\ Queued \in Seq(Cell) /\ device.pending \in Seq(Cell)
      /\ Ahead \in Seq(Cell) /\ Stream \in Seq(Cell)
  BY PartTypes DEF InStep
<1>2. FramesIn(Ahead) = FramesIn(Queued) \o FramesIn(device.pending)
  BY <1>1, FramesOfJoin DEF Ahead
<1>3. QED BY <1>1, <1>2, FramesInFacts

LEMMA InitInOrder == LinkInit => OrderInStep
<1>1. SUFFICES ASSUME LinkInit PROVE OrderInStep
  OBVIOUS
<1>2. Queued = <<>> /\ device.pending = <<>> /\ sent = 0
  <2>1. device.endpoint = <<>> /\ device.pending = <<>> /\ sent = 0
    BY <1>1 DEF LinkInit
  <2>2. QED BY <2>1 DEF Queued
<1>3. <<>> \in Seq(Cell) /\ <<>> \in Seq(1..0) /\ Len(<<>>) = 0
  BY EmptySeq
<1>4. Ahead = <<>>
  BY <1>2, <1>3, ConcatEmptySeq DEF Ahead
<1>5. FramesIn(Ahead) = <<>>
  BY <1>4, FramesInFacts
<1>6. Ordered(<<>>, 0)
  BY <1>3 DEF Ordered
<1>7. QED BY <1>2, <1>5, <1>6 DEF OrderInStep

\* A frame of the bus, put behind what a stream holds.
LEMMA FramesPut ==
    ASSUME NEW s \in Seq(Cell), NEW i \in Frames
    PROVE  /\ FramesIn(s \o Packet(i)) = FramesIn(s) \o <<i>>
           /\ FramesIn(s \o Packet(i)) = Append(FramesIn(s), i)
<1>1. Packet(i) \in Seq(Cell) /\ FramesIn(Packet(i)) = <<i>> /\ FramesIn(s) \in Seq(Frames)
  BY PacketFacts, FramesInFacts
<1>2. FramesIn(s \o Packet(i)) = FramesIn(s) \o <<i>>
  BY <1>1, FramesOfJoin
<1>3. QED BY <1>1, <1>2, AppendIsConcat

\* The number of the frame that comes next.
LEMMA NextFrame ==
    ASSUME StreamTypes, CanReceive
    PROVE  sent \in Nat /\ sent + 1 \in Frames /\ sent' = sent + 1
<1>1. Len(Cells) \in Nat /\ DOMAIN Cells = 1..Len(Cells)
  BY CellsAssumption, LenProperties
<1>2. QED BY <1>1 DEF CanReceive, StreamTypes, Frames

\* No step changes the order of what the firmware holds.
LEMMA LinkStepInOrder ==
    ASSUME InStep, OrderInStep, [LinkNext]_linkVars
    PROVE  OrderInStep'
<1>1. sent \in Nat /\ Ordered(FramesIn(Ahead), sent) /\ Ahead \in Seq(Cell)
  BY PartTypes DEF InStep, StreamTypes, OrderInStep
<1>2. ASSUME Ahead' = Ahead, sent' = sent PROVE OrderInStep'
  BY <1>1, <1>2 DEF OrderInStep
<1>3. ASSUME Ahead' = <<>>, sent' = sent PROVE OrderInStep'
  <2>1. <<>> \in Seq(1..sent) /\ Len(<<>>) = 0 /\ FramesIn(<<>>) = <<>>
    BY EmptySeq, FramesInFacts
  <2>2. Ordered(<<>>, sent)
    BY <2>1 DEF Ordered
  <2>3. QED BY <1>3, <2>1, <2>2 DEF OrderInStep
<1>4. CASE CanReceive
  <2>1. sent + 1 \in Frames /\ sent' = sent + 1
    BY <1>4, NextFrame DEF InStep
  <2>2. Ordered(FramesIn(Ahead), sent + 1) /\ Ordered(FramesIn(Ahead) \o <<sent + 1>>, sent + 1)
    BY <1>1, OrderedAppend
  <2>3. FramesIn(Ahead \o Packet(sent + 1)) = FramesIn(Ahead) \o <<sent + 1>>
    BY <1>1, <2>1, FramesPut
  <2>4. Ahead' = Ahead \/ Ahead' = Ahead \o Packet(sent + 1)
    BY <1>4, CanReceiveKeeps
  <2>5. QED BY <2>1, <2>2, <2>3, <2>4 DEF OrderInStep
<1>5. CASE FillEndpoint
  BY <1>2, <1>5, FillEndpointKeeps DEF FillEndpoint
<1>6. CASE Open \/ Disconnect
  BY <1>2, <1>6 DEF Open, Disconnect, Ahead, Queued
<1>7. CASE ResetCommunication
  <2>1. PICK t \in Seq(Cell) : device.pending = t \o device'.pending
    BY <1>7, ResetCommunicationKeeps
  <2>2. InStep' /\ Queued' = Queued /\ sent' = sent
    BY <1>7, ResetCommunicationKeeps DEF ResetCommunication
  <2>3. device'.pending \in Seq(Cell)
    BY <2>2 DEF InStep, StreamTypes
  <2>4. Queued \in Seq(Cell)
    BY PartTypes DEF InStep
  <2> DEFINE a == FramesIn(Queued)
             b == FramesIn(t)
             c == FramesIn(device'.pending)
  <2>5. a \in Seq(Frames) /\ b \in Seq(Frames) /\ c \in Seq(Frames)
    BY <2>3, <2>4, FramesInFacts
  <2>6. FramesIn(Ahead) = a \o (b \o c)
    BY <2>1, <2>3, AheadFrames, FramesOfJoin
  <2>7. FramesIn(Ahead') = a \o c
    BY <2>2, <2>3, <2>4, FramesOfJoin DEF Ahead
  <2> HIDE DEF a, b, c
  <2>8. Ordered(a \o c, sent)
    BY <1>1, <2>5, <2>6, OrderedParts
  <2>9. QED BY <2>2, <2>7, <2>8 DEF OrderInStep
<1>8. CASE ReadUsbPacket
  <2> DEFINE b == FramesIn(Queued)
             c == FramesIn(device.pending)
  <2>1. Ahead' = device.pending /\ sent' = sent
    BY <1>8, ReadUsbPacketKeeps DEF ReadUsbPacket
  <2>2. b \in Seq(Frames) /\ c \in Seq(Frames) /\ FramesIn(Ahead) = b \o c
    BY AheadFrames
  <2> HIDE DEF b, c
  <2>3. Ordered(c, sent)
    BY <1>1, <2>2, OrderedEnd
  <2>4. QED BY <2>1, <2>3 DEF OrderInStep, c
<1>9. ASSUME NEW status \in {"success", "timeout"}, TransferEnds(status) PROVE OrderInStep'
  BY <1>2, <1>9 DEF TransferEnds, Ahead, Queued
<1>10. CASE Unplug
  <2>1. device'.pending = <<>> /\ Queued' = <<>> /\ sent' = sent
    BY <1>10 DEF Unplug, Queued
  <2>2. <<>> \in Seq(Cell)
    BY EmptySeq
  <2>3. Ahead' = <<>>
    BY <2>1, <2>2, ConcatEmptySeq DEF Ahead
  <2>4. QED BY <1>3, <2>1, <2>3
<1>11. CASE UNCHANGED linkVars
  BY <1>2, <1>11 DEF linkVars, Ahead, Queued
<1>12. QED BY <1>4, <1>5, <1>6, <1>7, <1>8, <1>9, <1>10, <1>11 DEF LinkNext

\* So are all frames of a connection.
ConnectionInOrder == host.phase = "ready" => Ordered(FramesIn(Stream), sent)

\* No step changes it.
LEMMA LinkStepKeepsOrder ==
    ASSUME InStep, OrderInStep, ConnectionInOrder, [LinkNext]_linkVars
    PROVE  ConnectionInOrder'
<1>1. sent \in Nat /\ Stream \in Seq(Cell)
  BY PartTypes DEF InStep, StreamTypes
<1>2. ASSUME host'.phase = host.phase, Stream' = Stream, sent' = sent PROVE ConnectionInOrder'
  BY <1>2 DEF ConnectionInOrder
<1>3. ASSUME host'.phase # "ready" PROVE ConnectionInOrder'
  BY <1>3 DEF ConnectionInOrder
<1>4. CASE CanReceive
  <2>1. sent + 1 \in Frames /\ sent' = sent + 1 /\ UNCHANGED host
    BY <1>4, NextFrame DEF InStep, CanReceive
  <2>2. CASE host.phase = "ready"
    <3>1. /\ Ordered(FramesIn(Stream), sent + 1)
          /\ Ordered(FramesIn(Stream) \o <<sent + 1>>, sent + 1)
      BY <1>1, <2>2, OrderedAppend DEF ConnectionInOrder
    <3>2. FramesIn(Stream \o Packet(sent + 1)) = FramesIn(Stream) \o <<sent + 1>>
      BY <1>1, <2>1, FramesPut
    <3>3. Stream' = Stream \/ Stream' = Stream \o Packet(sent + 1)
      BY <1>4, CanReceiveKeeps
    <3>4. QED BY <2>1, <3>1, <3>2, <3>3 DEF ConnectionInOrder
  <2>3. QED BY <1>3, <2>1, <2>2
<1>5. CASE FillEndpoint
  BY <1>2, <1>5, FillEndpointKeeps DEF FillEndpoint
<1>6. CASE Open \/ Disconnect \/ Unplug
  BY <1>3, <1>6 DEF Open, Disconnect, Unplug, Closed
<1>7. CASE ResetCommunication
  BY <1>3, <1>7 DEF ResetCommunication, InStep, StreamTypes
<1>8. CASE ReadUsbPacket
  <2>1. host'.phase = host.phase /\ sent' = sent
    BY <1>8 DEF ReadUsbPacket, InStep, StreamTypes
  <2>2. QED BY <1>2, <1>8, <2>1, ReadUsbPacketKeeps
<1>9. ASSUME NEW status \in {"success", "timeout"}, TransferEnds(status), host.phase # "ready"
      PROVE  ConnectionInOrder'
  <2>1. sent' = sent /\ (host'.phase = "ready" => Stream' = Ahead)
    BY <1>9, DrainedKeeps DEF TransferEnds
  <2>2. QED BY <2>1 DEF OrderInStep, ConnectionInOrder
<1>10. ASSUME NEW status \in {"success", "timeout"}, TransferEnds(status), host.phase = "ready"
       PROVE  ConnectionInOrder'
  <2>1. PICK t \in Seq(Cell) : Stream = t \o Stream'
    BY <1>10, ReceiveKeeps
  <2>2. sent' = sent /\ Stream' \in Seq(Cell)
    BY <1>10, NextStreamTyped, ReceiveKeeps DEF TransferEnds
  <2>3. /\ FramesIn(Stream) = FramesIn(t) \o FramesIn(Stream')
        /\ FramesIn(t) \in Seq(Frames) /\ FramesIn(Stream') \in Seq(Frames)
    BY <2>1, <2>2, FramesOfJoin, FramesInFacts
  <2>4. Ordered(FramesIn(t) \o FramesIn(Stream'), sent)
    BY <1>10, <2>3 DEF ConnectionInOrder
  <2>5. Ordered(FramesIn(Stream'), sent)
    BY <1>1, <2>3, <2>4, OrderedEnd
  <2>6. QED BY <2>2, <2>5 DEF ConnectionInOrder
<1>11. CASE UNCHANGED linkVars
  BY <1>2, <1>11 DEF linkVars, Stream, Read, Ahead, Queued
<1>12. QED BY <1>4, <1>5, <1>6, <1>7, <1>8, <1>9, <1>10, <1>11 DEF LinkNext

-----------------------------------------------------------------------------
(* The link is a channel of frames *)

\* The frames in flight are those of the stream.
LEMMA InflightIsStream ==
    (StreamTypes => Inflight = IF host.phase = "ready" THEN FramesIn(Stream) ELSE <<>>)
<1>1. SUFFICES ASSUME StreamTypes
               PROVE  Inflight = IF host.phase = "ready" THEN FramesIn(Stream) ELSE <<>>
  OBVIOUS
<1>2. host.carry \o host.buffer \o Queued \o device.pending = Stream
  <2>1. Read \in Seq(Cell) /\ Queued \in Seq(Cell) /\ device.pending \in Seq(Cell)
    BY <1>1, PartTypes
  <2>2. Read \o (Queued \o device.pending) = (Read \o Queued) \o device.pending
    BY <2>1, JoinAtEnd, ZenonT(40)
  <2>3. QED BY <2>2 DEF Stream, Read, Ahead
<1>3. QED BY <1>2 DEF Inflight, Queued

\* Every step of the link is one of the channel.
LEMMA LinkStepImplements ==
    ASSUME InStep, InStep', OrderInStep, LinkNext,
           Inflight = IF host.phase = "ready" THEN FramesIn(Stream) ELSE <<>>,
           Inflight' = IF host'.phase = "ready" THEN FramesIn(Stream') ELSE <<>>
    PROVE  Channel!Next
<1> DEFINE up == host.phase = "ready"
<1>1. ASSUME ~up', arrived' = <<>>, sent' = sent PROVE Channel!Next
  BY <1>1 DEF Channel!Next, Channel!Break
<1>2. ASSUME arrived' = <<>>, sent' = sent, host'.phase = host.phase, Stream' = Stream
      PROVE  Channel!Next
  BY <1>2 DEF Channel!Next, Channel!Quiet
<1>3. CASE CanReceive
  <2>1. sent + 1 \in Frames /\ sent' = sent + 1 /\ arrived' = <<>> /\ UNCHANGED host
    BY <1>3, NextFrame DEF InStep, CanReceive
  <2>2. Stream' = Stream \/ Stream' = Stream \o Packet(sent + 1)
    BY <1>3, CanReceiveKeeps
  <2>3. FramesIn(Stream \o Packet(sent + 1)) = Append(FramesIn(Stream), sent + 1)
    BY <2>1, PartTypes, FramesPut DEF InStep
  <2>4. Inflight' \in {Inflight} \cup IF up THEN {Append(Inflight, sent + 1)} ELSE {}
    BY <2>1, <2>2, <2>3
  <2>5. QED BY <2>1, <2>4 DEF Channel!Next, Channel!Put
<1>4. CASE FillEndpoint
  <2>1. Stream' = Stream
    BY <1>4, FillEndpointKeeps
  <2>2. QED BY <1>2, <1>4, <2>1 DEF FillEndpoint
<1>5. CASE Open
  BY <1>1, <1>5 DEF Open, Closed
<1>6. CASE ResetCommunication
  <2>1. host'.phase = "sync"
    BY <1>6 DEF ResetCommunication, InStep, StreamTypes
  <2>2. QED BY <1>1, <1>6, <2>1 DEF ResetCommunication
<1>7. CASE ReadUsbPacket
  <2>1. Stream' = Stream
    BY <1>7, ReadUsbPacketKeeps
  <2>2. host'.phase = host.phase
    BY <1>7 DEF ReadUsbPacket, InStep, StreamTypes
  <2>3. QED BY <1>2, <1>7, <2>1, <2>2 DEF ReadUsbPacket
<1>8. CASE Disconnect \/ Unplug
  BY <1>1, <1>8 DEF Disconnect, Unplug, Closed
<1>9. ASSUME NEW status \in {"success", "timeout"}, TransferEnds(status) PROVE Channel!Next
  <2>1. sent' = sent
    BY <1>9 DEF TransferEnds
  <2>2. CASE up
    <3>1. PICK t \in Seq(Cell) : Stream = t \o Stream' /\ arrived' = FramesIn(t)
      BY <1>9, <2>2, ReceiveKeeps
    <3>2. host'.phase = "ready"
      BY <1>9, <2>2, ReceiveKeeps
    <3>3. Stream' \in Seq(Cell)
      BY <1>9, <2>2, ReceiveKeeps, NextStreamTyped
    <3> DEFINE a == FramesIn(t)
               b == FramesIn(Stream')
    <3>4. Inflight = a \o b /\ Inflight' = b /\ a \in Seq(Frames) /\ b \in Seq(Frames)
      BY <2>2, <3>1, <3>2, <3>3, FramesOfJoin, FramesInFacts
    <3>5. arrived' = a
      BY <3>1
    <3> HIDE DEF a, b
    <3>6. /\ Len(a) \in 0..Len(a \o b)
          /\ SubSeq(a \o b, 1, Len(a)) = a
          /\ SubSeq(a \o b, Len(a) + 1, Len(a \o b)) = b
      BY <3>4, PartsOfJoin
    <3>7. Channel!Take
      BY <2>1, <2>2, <3>2, <3>4, <3>5, <3>6 DEF Channel!Take
    <3>8. QED BY <3>7 DEF Channel!Next
  <2>3. CASE ~up
    <3>1. arrived' = <<>>
      BY <1>9, <2>3 DEF TransferEnds
    <3>2. CASE ~up'
      BY <1>1, <2>1, <3>1, <3>2
    <3>3. CASE up'
      <4>1. Stream' = Ahead
        BY <1>9, <2>3, <3>3, DrainedKeeps
      <4>2. Inflight' = FramesIn(Ahead)
        BY <3>3, <4>1
      <4>3. Inflight' \in Seq(1..sent) /\ \A i, j \in 1..Len(Inflight') : i < j => Inflight'[i] < Inflight'[j]
        BY <4>2 DEF OrderInStep, Ordered
      <4>4. Channel!Ascending(Inflight')
        BY <4>3, LenProperties DEF Channel!Ascending
      <4>5. Channel!Connect
        BY <2>1, <2>3, <3>1, <3>3, <4>3, <4>4 DEF Channel!Connect
      <4>6. QED BY <4>5 DEF Channel!Next
    <3>4. QED BY <3>2, <3>3
  <2>4. QED BY <2>2, <2>3
<1>10. QED BY <1>3, <1>4, <1>5, <1>6, <1>7, <1>8, <1>9 DEF LinkNext

-----------------------------------------------------------------------------
(* The theorems *)

\* UsbLink with any receiver: the steps of the link, without fairness.
LinkSpec == LinkInit /\ [][LinkNext]_linkVars

\* Every step of the link keeps the stream in step.
LEMMA LinkStep ==
    ASSUME InStep, [LinkNext]_linkVars
    PROVE  InStep'
<1>1. CASE CanReceive
  BY <1>1, CanReceiveKeeps
<1>2. CASE FillEndpoint
  BY <1>2, FillEndpointKeeps
<1>3. CASE Open
  BY <1>3, ClosedKeeps DEF Open
<1>4. CASE ResetCommunication
  BY <1>4, ResetCommunicationKeeps
<1>5. CASE ReadUsbPacket
  BY <1>5, ReadUsbPacketKeeps
<1>6. ASSUME NEW status \in {"success", "timeout"}, TransferEnds(status) PROVE InStep'
  <2>1. CASE host.phase = "ready"
    BY <1>6, <2>1, ReceiveKeeps
  <2>2. CASE host.phase # "ready"
    BY <1>6, <2>2, DrainedKeeps
  <2>3. QED BY <2>1, <2>2
<1>7. CASE Disconnect
  BY <1>7, ClosedKeeps DEF Disconnect
<1>8. CASE Unplug
  BY <1>8, ClosedKeeps DEF Unplug
<1>9. CASE UNCHANGED linkVars
  <2>1. UNCHANGED <<Queued, Ahead, Stream>>
    BY <1>9 DEF linkVars, Queued, Ahead, Stream, Read
  <2>2. QED BY <1>9, <2>1
          DEF linkVars, InStep, StreamTypes, QueueInStep, SyncInStep, ReadyInStep
<1>10. QED BY <1>1, <1>2, <1>3, <1>4, <1>5, <1>6, <1>7, <1>8, <1>9 DEF LinkNext

\* In every state of the link the stream is in step and the frames are in order.
THEOREM LinkInvariant == LinkSpec => [](InStep /\ OrderInStep /\ ConnectionInOrder)
<1>1. LinkInit => InStep /\ OrderInStep /\ ConnectionInOrder
  BY InitInStep, InitInOrder DEF LinkInit, Closed, ConnectionInOrder
<1>2. InStep /\ OrderInStep /\ ConnectionInOrder /\ [LinkNext]_linkVars
          => (InStep /\ OrderInStep /\ ConnectionInOrder)'
  BY LinkStep, LinkStepInOrder, LinkStepKeepsOrder
<1>3. QED BY <1>1, <1>2, PTL DEF LinkSpec

\* receive() reports no checksum error of its own making ("runtime checksum errors remain
\* fatal"), wherever resets, timeouts, reconnects and the ends of USB packets fall.
THEOREM LinkNoFalseChecksumError == LinkSpec => []NoFalseChecksumError
<1>1. InStep => NoFalseChecksumError
  BY DEF InStep, NoFalseChecksumError
<1>2. QED BY <1>1, LinkInvariant, PTL

\* receive_carry_ begins with a header and is less than the packet that header announces: it
\* does not grow with traffic, and what it waits for is the rest of one frame.
CarryIsPartOfOnePacket ==
    host.phase = "ready" /\ host.carry # <<>> =>
        /\ IsFirst(host.carry[1])
        /\ Len(host.carry) < Cells[host.carry[1][1]]

\* A carry that holds no last cell cannot reach the last cell of its first packet.
LEMMA CarryIsShort ==
    ASSUME InStep
    PROVE  CarryIsPartOfOnePacket
<1> DEFINE c == host.carry
<1>1. SUFFICES ASSUME host.phase = "ready", c # <<>>
               PROVE  IsFirst(c[1]) /\ Len(c) < Cells[c[1][1]]
  BY DEF CarryIsPartOfOnePacket
<1>2. /\ c \in Seq(Cell) /\ host.buffer \in Seq(Cell) /\ Read \in Seq(Cell)
      /\ Ahead \in Seq(Cell) /\ Stream \in Seq(Cell)
  BY PartTypes DEF InStep
<1>3. Whole(Stream) /\ Starts(Stream) /\ \A k \in 1..Len(c) : ~IsLast(c[k])
  BY <1>1 DEF InStep, ReadyInStep
<1>4. Stream = c \o (host.buffer \o Ahead)
  BY <1>2, JoinAtEnd, ZenonT(40) DEF Stream, Read
<1>5. host.buffer \o Ahead \in Seq(Cell)
  BY <1>2, ConcatProperties
<1> HIDE DEF c
<1>6. Len(c) \in Nat \ {0} /\ Len(host.buffer \o Ahead) \in Nat
  BY <1>1, <1>2, <1>5, EmptySeq, LenProperties
<1>7. /\ Len(Stream) = Len(c) + Len(host.buffer \o Ahead)
      /\ \A i \in 1..Len(c) : Stream[i] = c[i]
  BY <1>2, <1>4, <1>5, <1>6, ConcatProperties
<1>8. 1 \in 1..Len(Stream) /\ Stream[1] = c[1] /\ Stream # <<>>
  <2>1. 1 \in 1..Len(Stream) /\ Stream[1] = c[1]
    BY <1>6, <1>7
  <2>2. Len(Stream) # 0
    BY <1>6, <1>7
  <2>3. QED BY <2>1, <2>2, EmptySeq
<1>9. IsFirst(c[1])
  BY <1>3, <1>8 DEF Starts
<1>10. c[1] \in Cell /\ Cells[c[1][1]] \in Nat \ {0}
  BY <1>8, <1>2, EndOfFacts, CellFacts
<1>11. EndOf(Stream, 1) = Cells[c[1][1]]
  BY <1>8, <1>9, <1>10 DEF EndOf, IsFirst
<1> DEFINE m == Cells[c[1][1]]
<1>12. m \in 1..m /\ Stream[m] = <<c[1][1], c[1][2] + m - 1>>
  <2>1. m \in 1..EndOf(Stream, 1)
    BY <1>10, <1>11
  <2>2. QED BY <1>3, <1>8, <1>11, <2>1 DEF Whole
<1>13. IsLast(Stream[m])
  BY <1>9, <1>10, <1>12 DEF IsLast, IsFirst
<1>14. ~(m <= Len(c))
  <2>1. ASSUME m <= Len(c) PROVE FALSE
    <3>1. m \in 1..Len(c)
      BY <1>6, <1>10, <2>1
    <3>2. QED BY <1>3, <1>7, <1>13, <3>1
  <2>2. QED BY <2>1
<1>15. QED BY <1>6, <1>9, <1>10, <1>14

\* The buffer that the code never bounds explicitly is bounded by one packet.
THEOREM LinkCarryIsBounded == LinkSpec => []CarryIsPartOfOnePacket
<1>1. InStep => CarryIsPartOfOnePacket
  BY CarryIsShort
<1>2. QED BY <1>1, LinkInvariant, PTL

\* connect() and receive() keep the order of the bus, repeat nothing and lose nothing that came
\* in behind the boundary they synchronised on, wherever resets, timeouts, reconnects and the
\* ends of USB packets fall: one connection is a channel of frames.
THEOREM LinkKeepsFrames == LinkSpec => KeepsFrames
<1>1. LinkInit => Channel!Init
  <2>1. SUFFICES ASSUME LinkInit PROVE Channel!Init
    OBVIOUS
  <2>2. host.phase = "closed" /\ arrived = <<>> /\ sent = 0
    BY <2>1 DEF LinkInit, Closed
  <2>3. QED BY <2>2 DEF Channel!Init, Inflight
<1>2. InStep => Inflight = IF host.phase = "ready" THEN FramesIn(Stream) ELSE <<>>
  BY InflightIsStream DEF InStep
<1>3. (InStep => Inflight = IF host.phase = "ready" THEN FramesIn(Stream) ELSE <<>>)'
  BY <1>2, PTL
<1>4. InStep /\ OrderInStep /\ [LinkNext]_linkVars
          => [Channel!Next]_<<host.phase = "ready", Inflight, arrived, sent>>
  <2>1. SUFFICES ASSUME InStep, OrderInStep, [LinkNext]_linkVars
                 PROVE  [Channel!Next]_<<host.phase = "ready", Inflight, arrived, sent>>
    OBVIOUS
  <2>2. CASE LinkNext
    <3>1. InStep'
      BY <2>1, LinkStep
    <3>2. Channel!Next
      BY <1>2, <1>3, <2>1, <2>2, <3>1, LinkStepImplements
    <3>3. QED BY <3>2
  <2>3. CASE UNCHANGED linkVars
    BY <2>3 DEF linkVars, Inflight
  <2>4. QED BY <2>1, <2>2, <2>3
<1>5. QED
  BY <1>1, <1>4, LinkInvariant, PTL DEF LinkSpec, KeepsFrames, Channel!Spec
-----------------------------------------------------------------------------
(* Types and bounds *)

\* A USB packet is at most full; until a short one comes the buffer holds full ones only, and since
\* its size is a multiple of theirs the next one fits.
BufferInStep ==
    /\ Len(Queued) <= UsbSize
    /\ Len(host.buffer) <= Capacity
    /\ ~host.short => Len(host.buffer) % UsbSize = 0
    /\ host.phase # "ready" => host.carry = <<>>
    /\ arrived \in Seq(Frames)

\* Whole numbers of USB packets.
LEMMA MultipleOf ==
    ASSUME NEW u \in Nat \ {0}, NEW a \in Nat, a % u = 0
    PROVE  \E q \in Nat : a = q * u
<1>1. a = (a \div u) * u + (a % u) /\ a \div u \in Nat
  BY SMTT(30)
<1>2. QED BY <1>1

LEMMA OneMoreFits ==
    ASSUME NEW u \in Nat \ {0}, NEW a \in Nat, a % u = 0
    PROVE  /\ 0 % u = 0
           /\ (a + u) % u = 0
           /\ \A b \in Nat : b % u = 0 /\ a < b => a + u <= b
<1>1. PICK q \in Nat : a = q * u
  BY MultipleOf
<1>2. \A p \in Nat : (p * u) % u = 0
  BY SMTT(30)
<1>3. a + u = (q + 1) * u /\ 0 = 0 * u
  BY <1>1
<1>4. ASSUME NEW b \in Nat, b % u = 0, a < b PROVE a + u <= b
  <2>1. PICK r \in Nat : b = r * u
    BY <1>4, MultipleOf
  <2>2. q < r
    BY <1>1, <1>4, <2>1
  <2>3. (q + 1) * u <= r * u
    BY <2>2
  <2>4. QED BY <1>1, <2>1, <2>3
<1>5. (a + u) % u = 0 /\ 0 % u = 0
  BY <1>2, <1>3
<1>6. QED BY <1>4, <1>5

\* An empty buffer and no carry, as after every transfer that is not decoded.
LEMMA EmptyInBounds ==
    ASSUME BufferInStep, Len(Queued') <= UsbSize, arrived' = <<>>,
           host'.buffer = <<>>, host'.carry = <<>>
    PROVE  BufferInStep'
<1>1. Len(<<>>) = 0 /\ <<>> \in Seq(Frames)
  BY EmptySeq
<1>2. UsbSize \in Nat \ {0} /\ Capacity \in Nat \ {0} /\ 0 % UsbSize = 0
  BY UsbAssumption, OneMoreFits
<1>3. QED BY <1>1, <1>2 DEF BufferInStep

LEMMA InitInBounds == LinkInit => BufferInStep
<1>1. SUFFICES ASSUME LinkInit PROVE BufferInStep
  OBVIOUS
<1>2. /\ device.endpoint = <<>> /\ arrived = <<>>
      /\ host.buffer = <<>> /\ host.carry = <<>>
  BY <1>1 DEF LinkInit, Closed
<1>3. Len(<<>>) = 0 /\ <<>> \in Seq(Frames)
  BY EmptySeq
<1>4. UsbSize \in Nat \ {0} /\ Capacity \in Nat \ {0} /\ 0 % UsbSize = 0
  BY UsbAssumption, OneMoreFits
<1>5. QED BY <1>2, <1>3, <1>4 DEF BufferInStep, Queued

\* One more USB packet of a transfer.
LEMMA ReadInBounds ==
    ASSUME InStep, BufferInStep, ReadUsbPacket
    PROVE  BufferInStep'
<1> DEFINE n == Len(host.buffer)
           m == Len(Queued)
<1>1. /\ host.buffer \in Seq(Cell) /\ Queued \in Seq(Cell) /\ n \in Nat /\ m \in Nat
  BY PartTypes, LenProperties DEF InStep
<1>2. /\ ~host.short /\ n # Capacity /\ device.endpoint # <<>>
      /\ host' = [host EXCEPT !.buffer = @ \o Head(device.endpoint),
                              !.short = Len(Head(device.endpoint)) < UsbSize]
      /\ device' = [device EXCEPT !.endpoint = <<>>]
      /\ arrived' = <<>>
  BY DEF ReadUsbPacket, TransferDone
<1>3. Queued = Head(device.endpoint)
  BY <1>2 DEF Queued
<1>4. /\ host'.buffer = host.buffer \o Queued /\ (host'.short <=> m < UsbSize)
      /\ host'.phase = host.phase /\ host'.carry = host.carry
  BY <1>2, <1>3 DEF InStep, StreamTypes
<1>5. Queued' = <<>> /\ Len(<<>>) = 0 /\ <<>> \in Seq(Frames)
  BY <1>2, EmptySeq DEF InStep, StreamTypes, Queued
<1>6. Len(host'.buffer) = n + m
  BY <1>1, <1>4, ConcatProperties
<1>7. UsbSize \in Nat \ {0} /\ Capacity \in Nat \ {0} /\ Capacity % UsbSize = 0
  BY UsbAssumption
<1>8. m <= UsbSize /\ n <= Capacity /\ n % UsbSize = 0
  BY <1>2 DEF BufferInStep
<1> HIDE DEF n, m
<1>9. n + UsbSize <= Capacity /\ (n + UsbSize) % UsbSize = 0
  <2>1. n < Capacity
    BY <1>1, <1>2, <1>7, <1>8 DEF n
  <2>2. QED BY <1>1, <1>7, <1>8, <2>1, OneMoreFits
<1>10. n + m <= Capacity
  BY <1>1, <1>7, <1>8, <1>9
<1>11. ~(m < UsbSize) => (n + m) % UsbSize = 0
  <2>1. ~(m < UsbSize) => m = UsbSize
    BY <1>1, <1>7, <1>8
  <2>2. QED BY <1>9, <2>1
<1>12. Len(Queued') <= UsbSize /\ Len(host'.buffer) <= Capacity
  BY <1>5, <1>6, <1>7, <1>10
<1>13. ~host'.short => Len(host'.buffer) % UsbSize = 0
  BY <1>4, <1>6, <1>11
<1>14. (host'.phase # "ready" => host'.carry = <<>>) /\ arrived' \in Seq(Frames)
  BY <1>2, <1>4, <1>5 DEF BufferInStep
<1>15. QED BY <1>12, <1>13, <1>14 DEF BufferInStep

\* Every step keeps the bounds.
LEMMA LinkStepInBounds ==
    ASSUME InStep, BufferInStep, [LinkNext]_linkVars
    PROVE  BufferInStep'
<1>1. UsbSize \in Nat \ {0} /\ Len(<<>>) = 0 /\ <<>> \in Seq(Frames)
  BY UsbAssumption, EmptySeq
<1>2. CASE CanReceive
  <2>1. UNCHANGED <<host, Queued>> /\ arrived' = <<>>
    BY <1>2 DEF CanReceive, InStep, StreamTypes, Queued
  <2>2. QED BY <1>1, <2>1 DEF BufferInStep
<1>3. CASE FillEndpoint
  <2> DEFINE s == device.pending
             n == Min({UsbSize, Len(s)})
  <2>1. s \in Seq(Cell) /\ Len(s) \in Nat
    BY PartTypes, LenProperties DEF InStep
  <2>2. n \in 0..Len(s) /\ n <= UsbSize
    BY <1>1, <2>1, MinOfTwo
  <2>3. Len(SubSeq(s, 1, n)) = n
    BY <2>1, <2>2, CutAt
  <2>4. Queued' = SubSeq(s, 1, n)
    <3> DEFINE cut == SubSeq(s, 1, n)
    <3>1. device'.endpoint = <<cut>>
      BY <1>3 DEF FillEndpoint
    <3> HIDE DEF cut
    <3>2. Queued' = cut
      BY <3>1 DEF Queued
    <3>3. QED BY <3>2 DEF cut
  <2>5. UNCHANGED host /\ arrived' = <<>>
    BY <1>3 DEF FillEndpoint
  <2> HIDE DEF n
  <2>6. QED BY <1>1, <2>2, <2>3, <2>4, <2>5 DEF BufferInStep
<1>4. CASE Open \/ Disconnect \/ Unplug
  <2>1. host'.buffer = <<>> /\ host'.carry = <<>> /\ arrived' = <<>>
    BY <1>4 DEF Open, Disconnect, Unplug, Closed
  <2>2. Queued' = Queued \/ Queued' = <<>>
    BY <1>4 DEF Open, Disconnect, Unplug, Queued
  <2>3. Len(Queued') <= UsbSize
    BY <1>1, <2>2 DEF BufferInStep
  <2>4. QED BY <2>1, <2>3, EmptyInBounds
<1>5. CASE ResetCommunication
  <2>1. /\ host'.buffer = host.buffer /\ host'.carry = host.carry /\ host'.short = host.short
        /\ host.phase = "open" /\ arrived' = <<>>
    BY <1>5 DEF ResetCommunication, InStep, StreamTypes
  <2>2. Queued' = Queued
    BY <1>5, ResetCommunicationKeeps
  <2>3. QED BY <1>1, <2>1, <2>2 DEF BufferInStep
<1>6. CASE ReadUsbPacket
  BY <1>6, ReadInBounds
<1>7. ASSUME NEW status \in {"success", "timeout"}, TransferEnds(status), host.phase # "ready"
      PROVE  BufferInStep'
  <2>1. host'.buffer = <<>> /\ host'.carry = <<>> /\ arrived' = <<>>
    BY <1>7 DEF TransferEnds, Drained, Closed
  <2>2. Queued' = Queued
    BY <1>7 DEF TransferEnds, Queued
  <2>3. QED BY <2>1, <2>2, EmptyInBounds DEF BufferInStep
<1>8. ASSUME NEW status \in {"success", "timeout"}, TransferEnds(status), host.phase = "ready"
      PROVE  BufferInStep'
  <2>1. PICK t \in Seq(Cell) : arrived' = FramesIn(t)
    BY <1>8, ReceiveKeeps
  <2>2. arrived' \in Seq(Frames)
    BY <2>1, FramesInFacts
  <2>3. host'.phase = "ready" /\ host'.buffer = <<>>
    <3>1. host'.phase = "ready"
      BY <1>8, ReceiveKeeps
    <3>2. host'.buffer = <<>>
      <4> DEFINE cells == Decoded(status)
                 rest == SubSeq(cells, Unpacked(cells) + 1, Len(cells))
      <4>1. host' = Closed \/ host' = [Closed EXCEPT !.phase = "ready", !.carry = rest]
        BY <1>8 DEF TransferEnds, Receive
      <4> HIDE DEF rest
      <4>2. CASE host' = Closed
        BY <4>2 DEF Closed
      <4>3. CASE host' = [Closed EXCEPT !.phase = "ready", !.carry = rest]
        BY <4>3 DEF Closed
      <4>4. QED BY <4>1, <4>2, <4>3
    <3>3. QED BY <3>1, <3>2
  <2>4. Queued' = Queued
    BY <1>8 DEF TransferEnds, Queued
  <2>5. Capacity \in Nat \ {0} /\ 0 % UsbSize = 0
    BY <1>1, UsbAssumption, OneMoreFits
  <2>6. QED BY <1>1, <2>2, <2>3, <2>4, <2>5 DEF BufferInStep
<1>9. CASE UNCHANGED linkVars
  BY <1>9 DEF linkVars, BufferInStep, Queued
<1>10. QED BY <1>2, <1>3, <1>4, <1>5, <1>6, <1>7, <1>8, <1>9 DEF LinkNext

\* The link's type invariant: among the rest, no transfer overruns the receive buffer and the
\* carry stays shorter than a packet.
THEOREM LinkTypeOK == LinkSpec => []TypeOK
<1>1. InStep /\ BufferInStep => TypeOK
  <2>1. SUFFICES ASSUME InStep, BufferInStep PROVE TypeOK
    OBVIOUS
  <2>2. host.carry # <<>> => \E i \in Frames : Len(host.carry) < Cells[i]
    <3>1. SUFFICES ASSUME host.carry # <<>> PROVE \E i \in Frames : Len(host.carry) < Cells[i]
      OBVIOUS
    <3>2. host.phase = "ready" /\ host.carry \in Seq(Cell)
      BY <2>1, <3>1, PartTypes DEF BufferInStep, InStep
    <3>3. Len(host.carry) < Cells[host.carry[1][1]]
      BY <2>1, <3>1, <3>2, CarryIsShort DEF CarryIsPartOfOnePacket
    <3>4. 1 \in 1..Len(host.carry)
      BY <3>1, <3>2, EmptySeq
    <3>5. host.carry[1][1] \in Frames
      BY <3>2, <3>4, ElementOfSeq, CellFacts
    <3>6. QED BY <3>3, <3>5
  <2>3. failed \in BOOLEAN
    BY <2>1 DEF InStep
  <2>4. QED BY <2>1, <2>2, <2>3 DEF InStep, StreamTypes, BufferInStep, TypeOK
<1>2. LinkInit => BufferInStep
  BY InitInBounds
<1>3. InStep /\ BufferInStep /\ [LinkNext]_linkVars => BufferInStep'
  BY LinkStepInBounds
<1>4. QED BY <1>1, <1>2, <1>3, LinkInvariant, PTL DEF LinkSpec
=============================================================================
