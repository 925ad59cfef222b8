--------------------------- MODULE VehicleStateProofs ---------------------------
(***************************************************************************)
(* Proofs about VehicleState, for every run of frames and every content of *)
(* them: whatever frames are lost, the parser counts no press that was not *)
(* made.  What holds of UsbLink with any receiver holds with the parser.   *)
(***************************************************************************)
EXTENDS VehicleState, UsbLinkProofs, FiniteSetTheorems

-----------------------------------------------------------------------------
(* The link below the parser *)

\* The parser is one receiver of the link: what it does is no step of the link's.
LEMMA ParserOnlyReads == StateSpec => LinkSpec
<1>1. StateInit => LinkInit
  BY DEF StateInit
<1>2. [StateNext]_stateVars => [LinkNext]_linkVars
  BY DEF StateNext, stateVars
<1>3. QED BY <1>1, <1>2, PTL DEF StateSpec, LinkSpec

\* The receive thread sees no checksum error of the host's own making, so that a checksum
\* error is one of the device ("runtime checksum errors remain fatal").
THEOREM StateNoFalseChecksumError == StateSpec => []NoFalseChecksumError
<1>1. QED BY ParserOnlyReads, LinkNoFalseChecksumError, PTL

\* The parser gets the frames of one connection in the order of the bus, none twice and none
\* left out.
THEOREM StateKeepsFrames == StateSpec => KeepsFrames
<1>1. QED BY ParserOnlyReads, LinkKeepsFrames, PTL

\* The receive buffer never overflows, the carry is less than one packet and the USB endpoint
\* holds at most one packet, with the receive thread on top.
THEOREM StateTypeOK == StateSpec => []TypeOK
<1>1. QED BY ParserOnlyReads, LinkTypeOK, PTL

-----------------------------------------------------------------------------
(* The driver's presses *)

\* The level that an event of button b is counted at.
Reached(b, levels) ==
    CASE b = "lane_keep" -> levels.lane_keep
      [] b = "set" -> levels.cruise # "set"
      [] b = "cancel" -> levels.cruise = "cancel"

\* The levels after frame k, of the initial state for 0.
LevelsAt(k) == IF k = 0 THEN [lane_keep |-> FALSE, cruise |-> "none"] ELSE Bus[k]

\* The presses of b in the first n frames of the bus.
Happened(b, n) == Cardinality({i \in 1..n : OnTheBus(b, i)})

\* Frames are numbered from 1.
LEMMA FrameNumbers ==
    /\ Len(Cells) \in Nat /\ Frames = 1..Len(Cells)
    /\ \A i \in Frames : /\ Bus[i].kind \in {"buttons", "malformed", "other"}
                         /\ Bus[i].lane_keep \in BOOLEAN /\ Bus[i].cruise \in CruiseButtons
<1>1. Len(Cells) \in Nat /\ Frames = 1..Len(Cells)
  BY CellsAssumption, LenProperties DEF Frames
<1>2. ASSUME NEW i \in Frames PROVE Bus[i] \in BusFrame
  BY BusAssumption
<1>3. QED BY <1>1, <1>2 DEF BusFrame

\* On the bus, an event is a button frame at its level behind one that was not.
LEMMA OnTheBusIsReached ==
    ASSUME NEW b \in Buttons, NEW i, Bus[i].kind = "buttons",
           Reached(b, Bus[i]), ~Reached(b, LevelsBefore(i))
    PROVE  OnTheBus(b, i)
<1>1. CASE b = "lane_keep"
  BY <1>1 DEF Reached, OnTheBus
<1>2. CASE b = "set"
  BY <1>2 DEF Reached, OnTheBus
<1>3. CASE b = "cancel"
  BY <1>3 DEF Reached, OnTheBus
<1>4. QED BY <1>1, <1>2, <1>3 DEF Buttons

\* What the parser counts goes from another level to that of the event; SET only when it is
\* released to nothing, so that it counts no more than the bus.
LEMMA EdgeIsReached ==
    ASSUME NEW p, NEW f, NEW b \in Edges(p, f)
    PROVE  b \in Buttons /\ Reached(b, f) /\ ~Reached(b, p)
<1>1. b \in Buttons
  BY DEF Edges
<1>2. CASE b = "lane_keep"
  BY <1>2 DEF Reached, Edges
<1>3. CASE b = "set"
  BY <1>3 DEF Reached, Edges
<1>4. CASE b = "cancel"
  BY <1>4 DEF Reached, Edges
<1>5. QED BY <1>1, <1>2, <1>3, <1>4 DEF Buttons

\* Between two button frames with an event's levels before and at it, the event happened,
\* however many frames in between were lost.
LEMMA EdgeHappened ==
    ASSUME NEW b \in Buttons, NEW i \in Frames, NEW last \in 0..i - 1,
           last # 0 => Bus[last].kind = "buttons", Bus[i].kind = "buttons",
           Reached(b, Bus[i]), ~Reached(b, LevelsAt(last))
    PROVE  \E j \in last + 1..i : OnTheBus(b, j)
<1> DEFINE At == {j \in last + 1..i : Bus[j].kind = "buttons" /\ Reached(b, Bus[j])}
<1>1. i \in Nat \ {0} /\ last \in Nat /\ last < i
  BY FrameNumbers
<1>2. At \subseteq Nat /\ i \in At
  BY <1>1
<1>3. PICK j \in At : \A y \in At : j <= y
  <2> HIDE DEF At
  <2>1. At # {}
    BY <1>2
  <2>2. QED BY <1>2, <2>1, LeastNumber
<1>4. j \in last + 1..i /\ j \in Nat /\ last < j /\ Bus[j].kind = "buttons" /\ Reached(b, Bus[j])
  BY <1>1, <1>3
<1> DEFINE Prior == {0} \cup {k \in 1..j - 1 : Bus[k].kind = "buttons"}
<1>5. Prior \subseteq 0..j - 1 /\ j - 1 \in Nat /\ last \in Prior
  BY <1>1, <1>4
<1>6. Before(j) \in Prior /\ last <= Before(j)
  <2>1. Before(j) = Max(Prior)
    BY DEF Before
  <2> HIDE DEF Prior
  <2>2. Max(Prior) \in Prior /\ \A y \in Prior : y <= Max(Prior)
    BY <1>5, MaxOfPositions
  <2>3. QED BY <1>5, <2>1, <2>2
<1>7. LevelsBefore(j) = LevelsAt(Before(j))
  BY DEF LevelsBefore, LevelsAt
<1>8. ~Reached(b, LevelsAt(Before(j)))
  <2>1. CASE Before(j) = last
    BY <2>1
  <2>2. CASE Before(j) # last
    <3>1. /\ Before(j) \in last + 1..i /\ Before(j) # 0 /\ ~(j <= Before(j))
          /\ Bus[Before(j)].kind = "buttons"
      BY <1>1, <1>4, <1>5, <1>6, <2>2
    <3>2. Before(j) \notin At
      <4> HIDE DEF At
      <4>1. QED BY <1>3, <3>1
    <3>3. ~Reached(b, Bus[Before(j)])
      BY <3>1, <3>2
    <3>4. QED BY <3>1, <3>3 DEF LevelsAt
  <2>3. QED BY <2>1, <2>2
<1>9. OnTheBus(b, j)
  BY <1>4, <1>7, <1>8, OnTheBusIsReached
<1>10. QED BY <1>4, <1>9

\* More frames hold no fewer presses, and one more when they add one.
LEMMA HappenedGrows ==
    ASSUME NEW b, NEW m \in Nat, NEW n \in Nat, m <= n
    PROVE  /\ Happened(b, m) \in Nat /\ Happened(b, n) \in Nat
           /\ Happened(b, m) <= Happened(b, n)
           /\ (\E j \in m + 1..n : OnTheBus(b, j)) => Happened(b, m) + 1 <= Happened(b, n)
<1> DEFINE U(k) == {i \in 1..k : OnTheBus(b, i)}
<1>1. ASSUME NEW k \in Nat PROVE IsFiniteSet(U(k)) /\ Cardinality(U(k)) \in Nat
  <2>1. IsFiniteSet(1..k)
    BY FS_Interval
  <2>2. U(k) \in SUBSET (1..k)
    OBVIOUS
  <2> HIDE DEF U
  <2>3. QED BY <2>1, <2>2, FS_Subset, FS_CardinalityType
<1>2. U(m) \in SUBSET U(n)
  OBVIOUS
<1>3. Cardinality(U(m)) <= Cardinality(U(n))
  <2> HIDE DEF U
  <2>1. QED BY <1>1, <1>2, FS_Subset
<1>4. ASSUME NEW j \in m + 1..n, OnTheBus(b, j)
      PROVE  Cardinality(U(m)) + 1 <= Cardinality(U(n))
  <2>1. j \notin U(m) /\ j \in U(n)
    BY <1>4
  <2> HIDE DEF U
  <2> DEFINE V == U(m) \cup {j}
  <2>2. IsFiniteSet(V) /\ Cardinality(V) = Cardinality(U(m)) + 1
    BY <1>1, <2>1, FS_AddElement
  <2>3. V \in SUBSET U(n)
    BY <1>2, <2>1
  <2> HIDE DEF V
  <2>4. Cardinality(V) <= Cardinality(U(n))
    BY <1>1, <2>3, FS_Subset
  <2>5. QED BY <2>2, <2>4
<1>5. Happened(b, m) = Cardinality(U(m)) /\ Happened(b, n) = Cardinality(U(n))
  BY DEF Happened
<1> HIDE DEF U
<1>6. QED BY <1>1, <1>3, <1>4, <1>5

-----------------------------------------------------------------------------
(* The parser on the frames it gets *)

\* The parser is where the bus was at frame last, and has counted no more than happened.
Matches(p, last) ==
    /\ p \in Parser
    /\ last # 0 => Bus[last].kind = "buttons"
    /\ p.lane_keep = LevelsAt(last).lane_keep /\ p.cruise = LevelsAt(last).cruise
    /\ \A b \in Buttons : p.events[b] <= Happened(b, last)

\* update() on a button frame.
LEMMA CountedFacts ==
    ASSUME NEW p \in Parser, NEW i \in Frames
    PROVE  /\ Counted(p, Bus[i]) \in Parser
           /\ Counted(p, Bus[i]).lane_keep = Bus[i].lane_keep
           /\ Counted(p, Bus[i]).cruise = Bus[i].cruise
           /\ \A b \in Buttons : Counted(p, Bus[i]).events[b]
                                   = p.events[b] + IF b \in Edges(p, Bus[i]) THEN 1 ELSE 0
<1> DEFINE f == Bus[i]
           n == [b \in Buttons |-> p.events[b] + IF b \in Edges(p, f) THEN 1 ELSE 0]
<1>1. f.lane_keep \in BOOLEAN /\ f.cruise \in CruiseButtons
  BY FrameNumbers
<1>2. ASSUME NEW b \in Buttons PROVE n[b] \in Nat
  <2>1. p.events[b] \in Nat
    BY DEF Parser
  <2>2. QED BY <2>1
<1>3. n \in [Buttons -> Nat]
  <2>1. n = [b \in Buttons |-> n[b]]
    OBVIOUS
  <2> HIDE DEF n
  <2>2. QED BY <1>2, <2>1
<1>4. Counted(p, f) = [[p EXCEPT !.lane_keep = f.lane_keep, !.cruise = f.cruise] EXCEPT !.events = n]
  BY DEF Counted, Levels
<1>5. \A b \in Buttons : n[b] = p.events[b] + IF b \in Edges(p, f) THEN 1 ELSE 0
  OBVIOUS
<1> HIDE DEF n, f
<1>6. /\ Counted(p, f) \in Parser /\ Counted(p, f).lane_keep = f.lane_keep
      /\ Counted(p, f).cruise = f.cruise /\ Counted(p, f).events = n
  BY <1>1, <1>3, <1>4 DEF Parser
<1>7. QED BY <1>5, <1>6 DEF f

\* Every frame leaves a parser.
LEMMA ParsedIsParser ==
    ASSUME NEW p \in Parser, NEW i \in Frames
    PROVE  Parsed(p, i) \in Parser
<1>1. CASE Bus[i].kind = "buttons"
  BY <1>1, CountedFacts DEF Parsed
<1>2. CASE Bus[i].kind = "malformed"
  BY <1>2 DEF Parsed, Parser
<1>3. CASE Bus[i].kind = "other"
  BY <1>3 DEF Parsed
<1>4. QED BY <1>1, <1>2, <1>3, FrameNumbers

\* A later frame takes the parser on to it, or leaves it where it was.
LEMMA ParsedMatches ==
    ASSUME NEW p, NEW i \in Frames, NEW last \in 0..i - 1, Matches(p, last)
    PROVE  \E next \in last..i : Matches(Parsed(p, i), next)
<1>1. p \in Parser /\ last \in Nat /\ i \in Nat \ {0} /\ last < i
  BY FrameNumbers DEF Matches
<1>2. CASE Bus[i].kind = "buttons"
  <2> DEFINE f == Bus[i]
             q == Counted(p, f)
  <2>1. q \in Parser /\ q.lane_keep = LevelsAt(i).lane_keep /\ q.cruise = LevelsAt(i).cruise
    BY <1>1, CountedFacts DEF LevelsAt
  <2>2. ASSUME NEW b \in Buttons PROVE q.events[b] <= Happened(b, i)
    <3>1. q.events[b] = p.events[b] + IF b \in Edges(p, f) THEN 1 ELSE 0
      BY <1>1, CountedFacts
    <3>2. p.events[b] \in Nat /\ p.events[b] <= Happened(b, last)
      BY <1>1 DEF Matches, Parser
    <3>3. CASE b \in Edges(p, f)
      <4>1. Reached(b, f) /\ ~Reached(b, p)
        BY <3>3, EdgeIsReached
      <4>2. ~Reached(b, LevelsAt(last))
        BY <4>1 DEF Matches, Reached, Buttons
      <4>3. \E j \in last + 1..i : OnTheBus(b, j)
        BY <1>2, <4>1, <4>2, EdgeHappened DEF Matches
      <4>4. /\ Happened(b, last) \in Nat /\ Happened(b, i) \in Nat
            /\ Happened(b, last) + 1 <= Happened(b, i)
        BY <1>1, <4>3, HappenedGrows
      <4> HIDE DEF q
      <4>5. q.events[b] = p.events[b] + 1
        BY <3>1, <3>3
      <4>6. QED BY <3>2, <4>4, <4>5
    <3>4. CASE b \notin Edges(p, f)
      <4>1. /\ Happened(b, last) \in Nat /\ Happened(b, i) \in Nat
            /\ Happened(b, last) <= Happened(b, i)
        BY <1>1, HappenedGrows
      <4> HIDE DEF q
      <4>2. q.events[b] = p.events[b]
        BY <3>1, <3>2, <3>4
      <4>3. QED BY <3>2, <4>1, <4>2
    <3>5. QED BY <3>3, <3>4
  <2>3. Parsed(p, i) = q
    BY <1>2 DEF Parsed
  <2> HIDE DEF q
  <2>4. Matches(q, i)
    BY <1>2, <2>1, <2>2 DEF Matches
  <2>5. QED BY <1>1, <2>3, <2>4
<1>3. CASE Bus[i].kind = "malformed"
  <2> DEFINE q == Parsed(p, i)
  <2>1. q \in Parser /\ q.lane_keep = p.lane_keep /\ q.cruise = p.cruise /\ q.events = p.events
    BY <1>1, <1>3 DEF Parsed, Parser
  <2> HIDE DEF q
  <2>2. Matches(q, last)
    BY <2>1 DEF Matches
  <2>3. QED BY <1>1, <2>2 DEF q
<1>4. CASE Bus[i].kind = "other"
  BY <1>1, <1>4 DEF Parsed
<1>5. QED BY <1>2, <1>3, <1>4, FrameNumbers

\* The recursion of ParsedAll has a solution: the parser after each of the frames.
LEMMA FramesAreParsed ==
    ASSUME NEW p \in Parser, NEW frames \in Seq(Frames)
    PROVE  \E u \in [0..Len(frames) -> Parser] :
              /\ u[0] = p
              /\ \A n \in 1..Len(frames) : u[n] = Parsed(u[n - 1], frames[n])
              /\ ParsedAll(p, frames) = u[Len(frames)]
<1> DEFINE N == Len(frames)
           step == [n \in 1..N |-> [v \in Parser |-> Parsed(v, frames[n])]]
           G(g) == [n \in 0..N |-> IF n = 0 THEN p ELSE Parsed(g[n - 1], frames[n])]
           u == CHOOSE g : g = G(g)
<1>1. N \in Nat
  BY LenProperties
<1>2. ASSUME NEW n \in 1..N, NEW v \in Parser PROVE Parsed(v, frames[n]) \in Parser
  <2>1. frames[n] \in Frames
    BY ElementOfSeq
  <2>2. QED BY <2>1, ParsedIsParser
<1>3. PICK f \in [0..N -> Parser] : f[0] = p /\ \A k \in 1..N : f[k] = step[k][f[k - 1]]
  <2> DEFINE S == Parser
             base == p
  <2>1. N \in Nat /\ base \in S /\ step \in Steps(N, S)
    BY <1>1, <1>2 DEF Steps
  <2> HIDE DEF step, N, S, base
  <2>2. \E f \in [0..N -> S] : Runs(f, N, base, step)
    BY <2>1, PrimitiveRecursion
  <2>3. QED BY <2>2 DEF S, base, Runs
<1>4. ASSUME NEW k \in 1..N PROVE f[k] = Parsed(f[k - 1], frames[k])
  <2>1. f[k - 1] \in Parser
    BY <1>1
  <2>2. QED BY <1>3, <2>1
<1>5. f = G(f)
  <2>1. ASSUME NEW n \in 0..N PROVE f[n] = G(f)[n]
    <3>1. CASE n = 0
      BY <1>1, <1>3, <3>1
    <3>2. CASE n # 0
      <4>1. n \in 1..N
        BY <1>1, <3>2
      <4>2. QED BY <1>4, <3>2, <4>1
    <3>3. QED BY <3>1, <3>2
  <2>2. f = [n \in 0..N |-> f[n]]
    BY <1>3
  <2>3. QED BY <2>1, <2>2
<1>6. u = G(u)
  <2> HIDE DEF G
  <2>1. QED BY <1>5
<1> HIDE DEF u
<1>7. u[0] = p /\ DOMAIN u = 0..N /\ u = [n \in 0..N |-> u[n]]
  BY <1>1, <1>6
<1>8. ASSUME NEW n \in 1..N PROVE u[n] = Parsed(u[n - 1], frames[n])
  <2>1. n \in 0..N /\ n # 0
    BY <1>1
  <2>2. u[n] = G(u)[n]
    BY <1>6
  <2>3. QED BY <2>1, <2>2
<1> DEFINE T == {n \in 0..N : u[n] \in Parser}
<1>9. 0 \in T /\ T \subseteq 0..N
  <2>1. 0 \in 0..N
    BY <1>1
  <2>2. QED BY <1>7, <2>1
<1>10. ASSUME NEW n \in 0..N, n \in T, n < N PROVE n + 1 \in T
  <2>1. n + 1 \in 1..N /\ n + 1 \in 0..N /\ n + 1 - 1 = n /\ u[n] \in Parser
    BY <1>1, <1>10
  <2>2. u[n + 1] = Parsed(u[n], frames[n + 1])
    BY <1>8, <2>1
  <2>3. QED BY <1>2, <2>1, <2>2
<1>11. T = 0..N
  <2> HIDE DEF T
  <2>1. QED BY <1>1, <1>9, <1>10, CountingUp
<1>12. u \in [0..N -> Parser]
  BY <1>7, <1>11
<1>13. ParsedAll(p, frames) = u[N]
  BY DEF ParsedAll, u
<1>14. QED BY <1>7, <1>8, <1>12, <1>13

\* All frames of s come after frame n.
Later(s, n) == \A k \in 1..Len(s) : s[k] > n

\* Frames that are later than all the parser has seen, in their order, take it on to one of them.
LEMMA ParsedAllMatches ==
    ASSUME NEW n \in Nat, NEW frames, Ordered(frames, n), n <= Len(Cells),
           NEW p, NEW last \in 0..n, Matches(p, last), Later(frames, last)
    PROVE  \E next \in last..n :
              /\ Matches(ParsedAll(p, frames), next)
              /\ next = last \/ \E k \in 1..Len(frames) : next <= frames[k]
<1> DEFINE N == Len(frames)
<1>1. n \in Nat /\ last \in Nat /\ last <= n /\ 1..n \subseteq Frames
  BY FrameNumbers
<1>2. /\ frames \in Seq(Frames) /\ N \in Nat
      /\ \A i \in 1..N : frames[i] \in 1..n /\ frames[i] \in Frames
      /\ \A i, j \in 1..N : i < j => frames[i] < frames[j]
  <2>1. frames \in Seq(1..n)
    BY DEF Ordered
  <2>2. N \in Nat /\ \A i \in 1..N : frames[i] \in 1..n
    BY <2>1, LenProperties, ElementOfSeq
  <2>3. frames \in Seq(Frames)
    BY <1>1, <2>1, SeqMonotonic
  <2>4. QED BY <1>1, <2>2, <2>3 DEF Ordered
<1>3. PICK u \in [0..N -> Parser] :
          /\ u[0] = p
          /\ \A k \in 1..N : u[k] = Parsed(u[k - 1], frames[k])
          /\ ParsedAll(p, frames) = u[N]
  BY <1>2, FramesAreParsed DEF Matches
<1> DEFINE At(k, m) ==
               /\ m \in last..n /\ Matches(u[k], m)
               /\ m = last \/ \E i \in 1..k : m <= frames[i]
           T == {k \in 0..N : \E m \in last..n : At(k, m)}
<1>4. 0 \in T /\ T \subseteq 0..N
  <2>1. 0 \in 0..N /\ last \in last..n
    BY <1>1, <1>2
  <2>2. At(0, last)
    BY <1>3, <2>1
  <2> HIDE DEF At
  <2>3. QED BY <2>1, <2>2
<1>5. ASSUME NEW k \in 0..N, k \in T, k < N PROVE k + 1 \in T
  <2>1. PICK m \in last..n : At(k, m)
    BY <1>5
  <2>2. k + 1 \in 1..N /\ k + 1 \in 0..N /\ k + 1 - 1 = k /\ k \in Nat /\ m \in Nat
    BY <1>1, <1>2, <1>5
  <2> DEFINE i == frames[k + 1]
  <2>3. i \in 1..n /\ i \in Frames /\ i \in Nat
    BY <1>2, <2>2
  <2>4. m < i
    <3>1. CASE m = last
      BY <1>1, <2>2, <2>3, <3>1 DEF Later
    <3>2. CASE m # last
      <4>1. PICK j \in 1..k : m <= frames[j]
        BY <2>1, <3>2
      <4>2. j \in 1..N /\ j < k + 1
        BY <1>2, <2>2
      <4>3. frames[j] < i /\ frames[j] \in Nat
        BY <1>2, <2>2, <4>2
      <4> HIDE DEF i
      <4>4. QED BY <2>2, <2>3, <4>1, <4>3
    <3>3. QED BY <3>1, <3>2
  <2>5. u[k + 1] = Parsed(u[k], i)
    BY <1>3, <2>2
  <2> HIDE DEF i
  <2>6. m \in 0..i - 1 /\ Matches(u[k], m)
    BY <2>1, <2>2, <2>3, <2>4
  <2>7. PICK next \in m..i : Matches(Parsed(u[k], i), next)
    BY <2>3, <2>6, ParsedMatches
  <2>8. next \in last..n /\ next <= i
    BY <1>1, <2>2, <2>3, <2>7
  <2>9. k + 1 \in 1..k + 1
    BY <2>2
  <2>10. At(k + 1, next)
    BY <2>5, <2>7, <2>8, <2>9 DEF i
  <2> HIDE DEF At
  <2>11. QED BY <2>2, <2>8, <2>10
<1>6. T = 0..N
  <2> HIDE DEF T
  <2>1. QED BY <1>2, <1>4, <1>5, CountingUp
<1>7. N \in T
  BY <1>2, <1>6
<1>8. QED BY <1>3, <1>7

-----------------------------------------------------------------------------
(* What the parser has yet to get *)

\* What is later than n in two streams behind each other is so in each of them.
LEMMA LaterJoin ==
    ASSUME NEW n \in Nat, NEW a \in Seq(Frames), NEW b \in Seq(Frames)
    PROVE  Later(a \o b, n) <=> Later(a, n) /\ Later(b, n)
<1>1. /\ Len(a \o b) = Len(a) + Len(b) /\ Len(a) \in Nat /\ Len(b) \in Nat
      /\ \A i \in 1..Len(a) + Len(b) : (a \o b)[i] = IF i <= Len(a) THEN a[i] ELSE b[i - Len(a)]
  BY ConcatProperties, LenProperties
<1> DEFINE ab == a \o b
<1>2. \A i \in 1..Len(a) : i \in 1..Len(ab) /\ ab[i] = a[i]
  BY <1>1
<1>3. \A i \in 1..Len(b) : i + Len(a) \in 1..Len(ab) /\ ab[i + Len(a)] = b[i]
  <2>1. TAKE i \in 1..Len(b)
  <2>2. i + Len(a) \in 1..Len(a) + Len(b) /\ ~(i + Len(a) <= Len(a)) /\ i + Len(a) - Len(a) = i
    BY <1>1
  <2>3. QED BY <1>1, <2>2
<1>4. \A i \in 1..Len(ab) : i \in 1..Len(a) \/ (i - Len(a) \in 1..Len(b) /\ ab[i] = b[i - Len(a)])
  BY <1>1
<1> HIDE DEF ab
<1>5. ASSUME Later(ab, n) PROVE Later(a, n) /\ Later(b, n)
  BY <1>2, <1>3, <1>5 DEF Later
<1>6. ASSUME Later(a, n), Later(b, n) PROVE Later(ab, n)
  BY <1>2, <1>4, <1>6 DEF Later
<1>7. QED BY <1>5, <1>6 DEF ab

\* What was put behind others is later than each of them.
LEMMA OrderedThen ==
    ASSUME NEW n \in Nat, NEW a \in Seq(Frames), NEW b \in Seq(Frames), Ordered(a \o b, n),
           NEW k \in 1..Len(a), NEW j \in 1..Len(b)
    PROVE  a[k] \in Nat /\ b[j] \in Nat /\ a[k] < b[j]
<1>1. /\ Len(a \o b) = Len(a) + Len(b) /\ Len(a) \in Nat /\ Len(b) \in Nat
      /\ \A i \in 1..Len(a) + Len(b) : (a \o b)[i] = IF i <= Len(a) THEN a[i] ELSE b[i - Len(a)]
  BY ConcatProperties, LenProperties
<1> DEFINE ab == a \o b
<1>2. k \in 1..Len(ab) /\ ab[k] = a[k]
  BY <1>1
<1>3. j + Len(a) \in 1..Len(ab) /\ ab[j + Len(a)] = b[j] /\ k < j + Len(a)
  <2>1. j + Len(a) \in 1..Len(a) + Len(b) /\ ~(j + Len(a) <= Len(a)) /\ j + Len(a) - Len(a) = j
    BY <1>1
  <2>2. QED BY <1>1, <2>1
<1>4. a[k] \in Frames /\ b[j] \in Frames
  BY ElementOfSeq
<1> HIDE DEF ab
<1>5. ab[k] < ab[j + Len(a)]
  <2>1. \A x, y \in 1..Len(ab) : x < y => ab[x] < ab[y]
    BY DEF Ordered, ab
  <2>2. QED BY <1>2, <1>3, <2>1
<1>6. Frames \subseteq Nat
  BY FrameNumbers
<1>7. QED BY <1>2, <1>3, <1>4, <1>5, <1>6

\* What a receive() to come may still return: of a connection all of the stream, otherwise what
\* the firmware holds.
FramesLeft == IF host.phase = "ready" THEN FramesIn(Stream) ELSE FramesIn(Ahead)

\* The frames that are left, and those of the firmware alone, which a disconnect leaves.
LEMMA LeftIsTyped ==
    ASSUME InStep
    PROVE  /\ FramesLeft \in Seq(Frames)
           /\ \A n \in Nat : Later(FramesLeft, n) => Later(FramesIn(Ahead), n)
<1>1. Read \in Seq(Cell) /\ Ahead \in Seq(Cell)
  BY PartTypes DEF InStep
<1>2. /\ FramesIn(Read) \in Seq(Frames) /\ FramesIn(Ahead) \in Seq(Frames)
      /\ FramesIn(Stream) = FramesIn(Read) \o FramesIn(Ahead)
      /\ FramesIn(Stream) \in Seq(Frames)
  BY <1>1, FramesOfJoin, FramesInFacts, AheadFrames DEF Stream
<1>3. QED BY <1>2, LaterJoin DEF FramesLeft

\* A step of the link puts the next frame of the bus behind what is left, loses some of it, or
\* returns the beginning of it.
LEMMA LinkStepLeft ==
    ASSUME InStep, InStep', ConnectionInOrder, LinkNext,
           NEW n \in 0..sent, Later(FramesLeft, n)
    PROVE  \/ arrived' = <<>> /\ Later(FramesLeft', n)
           \/ /\ sent' = sent /\ Ordered(arrived', sent) /\ Ordered(FramesLeft, sent)
              /\ arrived' \o FramesLeft' = FramesLeft /\ FramesLeft' \in Seq(Frames)
<1>1. n \in Nat /\ sent \in Nat /\ FramesLeft \in Seq(Frames) /\ Later(FramesIn(Ahead), n)
  <2>1. n \in Nat /\ sent \in Nat
    BY FrameNumbers DEF InStep, StreamTypes
  <2>2. QED BY <2>1, LeftIsTyped
<1>2. Ahead \in Seq(Cell) /\ Stream \in Seq(Cell) /\ Queued \in Seq(Cell) /\ device.pending \in Seq(Cell)
  BY PartTypes DEF InStep
<1>3. ASSUME host'.phase = host.phase, Stream' = Stream, Ahead' = Ahead PROVE Later(FramesLeft', n)
  BY <1>3 DEF FramesLeft
<1>4. ASSUME host'.phase # "ready", Ahead' = Ahead PROVE Later(FramesLeft', n)
  BY <1>1, <1>4 DEF FramesLeft
<1>5. CASE CanReceive
  <2>1. sent + 1 \in Frames /\ UNCHANGED host /\ arrived' = <<>>
    BY <1>5, NextFrame DEF InStep, CanReceive
  <2>2. CASE UNCHANGED <<Ahead, Stream>>
    BY <1>3, <2>1, <2>2
  <2>3. CASE Ahead' = Ahead \o Packet(sent + 1) /\ Stream' = Stream \o Packet(sent + 1)
    <3> DEFINE next == <<sent + 1>>
    <3>1. FramesLeft' = FramesLeft \o next
      BY <1>2, <2>1, <2>3, FramesPut DEF FramesLeft
    <3>2. next \in Seq(Frames) /\ Len(next) = 1 /\ next[1] = sent + 1
      BY <2>1
    <3> HIDE DEF next
    <3>3. Later(next, n)
      BY <1>1, <3>2 DEF Later
    <3>4. Later(FramesLeft', n)
      BY <1>1, <3>1, <3>2, <3>3, LaterJoin
    <3>5. QED BY <2>1, <3>4
  <2>4. QED BY <1>5, <2>2, <2>3, CanReceiveKeeps
<1>6. CASE FillEndpoint
  BY <1>3, <1>6, FillEndpointKeeps DEF FillEndpoint
<1>7. CASE Open \/ Disconnect
  <2>1. host'.phase # "ready" /\ device' = device /\ arrived' = <<>>
    BY <1>7 DEF Open, Disconnect, Closed
  <2>2. Ahead' = Ahead
    BY <2>1 DEF Ahead, Queued
  <2>3. QED BY <1>4, <2>1, <2>2
<1>8. CASE ResetCommunication
  <2>1. PICK t \in Seq(Cell) : device.pending = t \o device'.pending
    BY <1>8, ResetCommunicationKeeps
  <2>2. Queued' = Queued /\ arrived' = <<>> /\ host'.phase # "ready" /\ device'.pending \in Seq(Cell)
    BY <1>8, ResetCommunicationKeeps DEF ResetCommunication, InStep, StreamTypes
  <2> DEFINE a == FramesIn(Queued)
             b == FramesIn(t)
             c == FramesIn(device'.pending)
  <2>3. /\ a \in Seq(Frames) /\ b \in Seq(Frames) /\ c \in Seq(Frames)
        /\ FramesIn(Ahead) = a \o (b \o c)
        /\ FramesIn(Ahead') = a \o c
    <3>1. FramesIn(device.pending) = b \o c
      BY <2>1, <2>2, FramesOfJoin
    <3>2. FramesIn(Ahead) = a \o FramesIn(device.pending)
      BY AheadFrames
    <3>3. FramesIn(Ahead') = a \o c
      BY <1>2, <2>2, FramesOfJoin DEF Ahead
    <3>4. QED BY <1>2, <2>2, <3>1, <3>2, <3>3, FramesInFacts
  <2>4. FramesLeft' = FramesIn(Ahead')
    BY <2>2 DEF FramesLeft
  <2> HIDE DEF a, b, c
  <2> DEFINE bc == b \o c
  <2>5. bc \in Seq(Frames) /\ FramesIn(Ahead) = a \o bc
    BY <2>3, ConcatProperties
  <2> HIDE DEF bc
  <2>6. Later(a, n) /\ Later(bc, n)
    BY <1>1, <2>3, <2>5, LaterJoin
  <2>7. Later(c, n)
    BY <1>1, <2>3, <2>6, LaterJoin DEF bc
  <2>8. Later(a \o c, n)
    BY <1>1, <2>3, <2>6, <2>7, LaterJoin
  <2>9. QED BY <2>2, <2>3, <2>4, <2>8
<1>9. CASE ReadUsbPacket
  <2>1. /\ Ahead' = device.pending /\ Stream' = Stream
        /\ host'.phase = host.phase /\ arrived' = <<>>
    BY <1>9, ReadUsbPacketKeeps DEF ReadUsbPacket, InStep, StreamTypes
  <2>2. Later(FramesIn(device.pending), n)
    <3> DEFINE b == FramesIn(Queued)
               c == FramesIn(device.pending)
    <3>1. b \in Seq(Frames) /\ c \in Seq(Frames) /\ FramesIn(Ahead) = b \o c
      BY AheadFrames
    <3> HIDE DEF b, c
    <3>2. Later(c, n)
      BY <1>1, <3>1, LaterJoin
    <3>3. QED BY <3>2 DEF c
  <2>3. FramesLeft' = IF host.phase = "ready" THEN FramesIn(Stream) ELSE FramesIn(device.pending)
    BY <2>1 DEF FramesLeft
  <2>4. QED BY <2>1, <2>2, <2>3 DEF FramesLeft
<1>10. ASSUME NEW status \in {"success", "timeout"}, TransferEnds(status), host.phase # "ready"
       PROVE  arrived' = <<>> /\ Later(FramesLeft', n)
  <2>1. arrived' = <<>> /\ Ahead' = Ahead /\ (host'.phase = "ready" => Stream' = Ahead)
    BY <1>10, DrainedKeeps DEF TransferEnds
  <2>2. FramesLeft' = FramesIn(Ahead)
    BY <2>1 DEF FramesLeft
  <2>3. QED BY <1>1, <2>1, <2>2
<1>11. ASSUME NEW status \in {"success", "timeout"}, TransferEnds(status), host.phase = "ready"
       PROVE  /\ sent' = sent /\ Ordered(arrived', sent) /\ Ordered(FramesLeft, sent)
              /\ arrived' \o FramesLeft' = FramesLeft /\ FramesLeft' \in Seq(Frames)
  <2>1. PICK t \in Seq(Cell) : Stream = t \o Stream' /\ arrived' = FramesIn(t)
    BY <1>11, ReceiveKeeps
  <2>2. host'.phase = "ready" /\ Stream' \in Seq(Cell) /\ sent' = sent
    BY <1>11, NextStreamTyped, ReceiveKeeps DEF TransferEnds
  <2> DEFINE a == FramesIn(t)
             b == FramesIn(Stream')
  <2>3. FramesIn(Stream) = a \o b /\ a \in Seq(Frames) /\ b \in Seq(Frames)
    BY <2>1, <2>2, FramesOfJoin, FramesInFacts
  <2>4. FramesLeft' = b /\ FramesLeft = FramesIn(Stream) /\ arrived' = a
    BY <1>11, <2>1, <2>2 DEF FramesLeft
  <2>5. Ordered(FramesIn(Stream), sent)
    BY <1>11 DEF ConnectionInOrder
  <2> HIDE DEF a, b
  <2>6. <<>> \in Seq(Frames) /\ b \o <<>> = b /\ a \o <<>> = a
    BY <2>3, EmptySeq, ConcatEmptySeq
  <2>7. Ordered(a \o (b \o <<>>), sent)
    BY <2>3, <2>5, <2>6
  <2>8. Ordered(a, sent)
    BY <1>1, <2>3, <2>6, <2>7, OrderedParts
  <2>9. QED BY <2>2, <2>3, <2>4, <2>5, <2>8
<1>12. CASE Unplug
  <2>1. device'.pending = <<>> /\ Queued' = <<>> /\ arrived' = <<>> /\ host'.phase # "ready"
    BY <1>12 DEF Unplug, Queued, Closed
  <2>2. <<>> \in Seq(Cell) /\ Len(<<>>) = 0 /\ FramesIn(<<>>) = <<>>
    BY EmptySeq, FramesInFacts
  <2>3. Ahead' = <<>>
    BY <2>1, <2>2, ConcatEmptySeq DEF Ahead
  <2>4. FramesLeft' = <<>>
    BY <2>1, <2>2, <2>3 DEF FramesLeft
  <2>5. QED BY <2>1, <2>2, <2>4 DEF Later
<1>13. QED BY <1>5, <1>6, <1>7, <1>8, <1>9, <1>10, <1>11, <1>12 DEF LinkNext

-----------------------------------------------------------------------------
(* The events that are counted *)

\* The parser stands at a frame of the bus that is earlier than all it has yet to get.
LevelsInStep == \E last \in 0..sent : Matches(parser, last) /\ Later(FramesLeft, last)

\* The levels of a parser that has seen nothing.
LEMMA InitLevelsInStep == StateInit => LevelsInStep
<1>1. SUFFICES ASSUME StateInit PROVE LevelsInStep
  OBVIOUS
<1>2. sent = 0 /\ device.endpoint = <<>> /\ device.pending = <<>> /\ host.phase = "closed"
  BY <1>1 DEF StateInit, LinkInit, Closed
<1>3. <<>> \in Seq(Cell) /\ Len(<<>>) = 0 /\ FramesIn(<<>>) = <<>>
  BY EmptySeq, FramesInFacts
<1>4. Queued = <<>>
  BY <1>2 DEF Queued
<1>5. Ahead = <<>>
  BY <1>2, <1>3, <1>4, ConcatEmptySeq DEF Ahead
<1>6. FramesLeft = <<>>
  BY <1>2, <1>3, <1>5 DEF FramesLeft
<1>7. Later(FramesLeft, 0)
  BY <1>3, <1>6 DEF Later
<1>8. parser = [lane_keep |-> FALSE, cruise |-> "none",
                events |-> [b \in Buttons |-> 0], malformed |-> 0]
  BY <1>1 DEF StateInit
<1>9. parser \in Parser /\ \A b \in Buttons : parser.events[b] = 0
  BY <1>8 DEF Parser, CruiseButtons
<1>10. \A b \in Buttons : Happened(b, 0) \in Nat
  BY HappenedGrows
<1>11. \A b \in Buttons : parser.events[b] <= Happened(b, 0)
  BY <1>9, <1>10
<1>12. Matches(parser, 0)
  BY <1>8, <1>9, <1>11 DEF Matches, LevelsAt
<1>13. QED BY <1>2, <1>7, <1>12 DEF LevelsInStep

\* No step of the link or of the parser changes that.
LEMMA StateStepInStep ==
    ASSUME InStep, InStep', ConnectionInOrder, LevelsInStep, [StateNext]_stateVars
    PROVE  LevelsInStep'
<1>1. PICK last \in 0..sent : Matches(parser, last) /\ Later(FramesLeft, last)
  BY DEF LevelsInStep
<1>2. sent \in Nat /\ sent' \in Nat /\ sent <= Len(Cells) /\ parser \in Parser
  BY <1>1, FrameNumbers DEF InStep, StreamTypes, Matches
<1>3. CASE UNCHANGED stateVars
  <2>1. UNCHANGED <<sent, device, host, parser>>
    BY <1>3 DEF stateVars, linkVars
  <2>2. FramesLeft' = FramesLeft
    BY <2>1 DEF FramesLeft, Stream, Read, Ahead, Queued
  <2>3. QED BY <2>1, <2>2, <1>1 DEF LevelsInStep
<1>4. CASE StateNext
  <2>1. LinkNext /\ parser' = ParsedAll(parser, arrived')
    BY <1>4 DEF StateNext
  <2>2. sent <= sent'
    <3>1. sent' = sent \/ sent' = sent + 1
      BY <2>1 DEF LinkNext, CanReceive, FillEndpoint, Open, ResetCommunication,
            ReadUsbPacket, TransferEnds, Disconnect, Unplug
    <3>2. QED BY <1>2, <3>1
  <2>3. CASE arrived' = <<>> /\ Later(FramesLeft', last)
    <3> DEFINE none == <<>>
    <3>1. none \in Seq(Frames) /\ Len(none) = 0
      BY EmptySeq
    <3> HIDE DEF none
    <3>2. ParsedAll(parser, none) = parser
      <4>1. PICK u \in [0..Len(none) -> Parser] :
                /\ u[0] = parser
                /\ \A n \in 1..Len(none) : u[n] = Parsed(u[n - 1], none[n])
                /\ ParsedAll(parser, none) = u[Len(none)]
        BY <1>2, <3>1, FramesAreParsed, ZenonT(40)
      <4>2. QED BY <3>1, <4>1
    <3>3. parser' = parser
      BY <2>1, <2>3, <3>2 DEF none
    <3>4. last \in 0..sent'
      BY <1>2, <2>2
    <3>5. QED BY <1>1, <2>3, <3>3, <3>4 DEF LevelsInStep
  <2>4. CASE /\ sent' = sent /\ Ordered(arrived', sent) /\ Ordered(FramesLeft, sent)
             /\ arrived' \o FramesLeft' = FramesLeft /\ FramesLeft' \in Seq(Frames)
    <3> DEFINE a == arrived'
               b == FramesLeft'
    <3>1. a \in Seq(Frames) /\ b \in Seq(Frames) /\ a \o b = FramesLeft
      <4>1. a \in Seq(1..sent) /\ 1..sent \subseteq Frames
        BY <1>2, <2>4, FrameNumbers DEF Ordered
      <4>2. QED BY <2>4, <4>1, SeqMonotonic
    <3>2. Ordered(a, sent) /\ parser' = ParsedAll(parser, a)
      BY <2>1, <2>4
    <3> HIDE DEF a, b
    <3>3. Later(a, last) /\ Later(b, last)
      <4>1. last \in Nat /\ Later(a \o b, last)
        BY <1>1, <1>2, <3>1
      <4>2. QED BY <3>1, <4>1, LaterJoin
    <3>4. PICK next \in last..sent :
              /\ Matches(ParsedAll(parser, a), next)
              /\ next = last \/ \E k \in 1..Len(a) : next <= a[k]
      BY <1>1, <1>2, <3>2, <3>3, ParsedAllMatches
    <3>5. Later(b, next)
      <4>1. CASE next = last
        BY <3>3, <4>1
      <4>2. CASE next # last
        <5>1. PICK k \in 1..Len(a) : next <= a[k]
          BY <3>4, <4>2
        <5>2. Ordered(a \o b, sent)
          BY <2>4, <3>1
        <5>3. \A j \in 1..Len(b) : a[k] \in Nat /\ b[j] \in Nat /\ a[k] < b[j]
          BY <1>2, <3>1, <5>2, OrderedThen
        <5>4. next \in Nat
          BY <1>2
        <5>5. QED BY <5>1, <5>3, <5>4 DEF Later
      <4>3. QED BY <4>1, <4>2
    <3>6. QED BY <2>4, <3>2, <3>4, <3>5 DEF LevelsInStep, b
  <2>5. QED BY <1>1, <2>1, <2>3, <2>4, LinkStepLeft
<1>5. QED BY <1>3, <1>4

\* Whatever frames are lost, by the firmware, in a disconnect or to their checksum, for every
\* content of the bus the host counts no more edges of a button than the bus carried.  What
\* firmware counts is another matter: its listener starts from a baseline of its own.
THEOREM StateEventsHappened == StateSpec => []EventsHappened
<1>1. StateSpec => [](InStep /\ OrderInStep /\ ConnectionInOrder)
  BY ParserOnlyReads, LinkInvariant, PTL
<1>2. StateInit => LevelsInStep
  BY InitLevelsInStep
<1>3. InStep /\ InStep' /\ ConnectionInOrder /\ LevelsInStep /\ [StateNext]_stateVars
          => LevelsInStep'
  BY StateStepInStep
<1>4. InStep /\ LevelsInStep => EventsHappened
  <2>1. SUFFICES ASSUME InStep, LevelsInStep PROVE EventsHappened
    OBVIOUS
  <2>2. PICK last \in 0..sent : Matches(parser, last)
    BY <2>1 DEF LevelsInStep
  <2>3. sent \in Nat /\ last \in Nat /\ last <= sent
    BY <2>1, FrameNumbers DEF InStep, StreamTypes
  <2>4. ASSUME NEW b \in Buttons PROVE parser.events[b] <= Happened(b, sent)
    <3>1. parser.events[b] \in Nat /\ parser.events[b] <= Happened(b, last)
      BY <2>2 DEF Matches, Parser
    <3>2. /\ Happened(b, last) \in Nat /\ Happened(b, sent) \in Nat
          /\ Happened(b, last) <= Happened(b, sent)
      BY <2>3, HappenedGrows
    <3>3. QED BY <3>1, <3>2
  <2>5. QED BY <2>4 DEF EventsHappened, Happened
<1>5. QED BY <1>1, <1>2, <1>3, <1>4, PTL DEF StateSpec

=============================================================================
