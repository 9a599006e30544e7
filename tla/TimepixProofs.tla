---------------------------- MODULE TimepixProofs ----------------------------
(***************************************************************************)
(* The virtual datasets of the Timepix monitor have the events in the      *)
(* order in which one file would have them, at any time and for any        *)
(* number of files, sizes of slices and blocks.                            *)
(*                                                                         *)
(* The files are written a slice each in turn, so an event's number is its *)
(* place in its file and the events of the slices of the other files in    *)
(* front of it, which the markers tell (Placed).  The monitor takes the    *)
(* slices in the same turn, and so the number of events it has taken is    *)
(* that of the event it takes next.                                        *)
(***************************************************************************)
EXTENDS Timepix, SequenceLemmas

(* An event in a file's slice of number j: its place, and what the other     *)
(* files have up to there.                                                   *)
Mark(file, j) == IF j = 0 THEN 0 ELSE file.event_index[j]
SlicesOf(g, f, j) == IF g < f THEN j ELSE j - 1
OtherMarks(files, n, f, j) ==
  [g \in 0..n-1 |-> IF g = f THEN 0 ELSE Mark(files[g], SlicesOf(g, f, j))]
Others(files, n, f, j) == SumOf(OtherMarks(files, n, f, j), 0..n-1)
EndOf(file, j, marks, done) == IF j <= marks THEN Mark(file, j) ELSE done
Placed(files, n, f, marks, done) ==
  \A j \in 1..marks+1 : \A p \in (Mark(files[f], j - 1) + 1)..EndOf(files[f], j, marks, done) :
    files[f].event_id[p] = p + Others(files, n, f, j)

(* A file with the events and the marks written to it: a new one has a point *)
(* of each.                                                                  *)
FileShape(file, marks, done) ==
  /\ IF done = 0 THEN Len(file.event_id) = 1 ELSE Len(file.event_id) = done
  /\ IF marks = 0 THEN file.event_index = <<0>> ELSE Len(file.event_index) = marks
  /\ \A i, j \in 0..marks : i <= j => Mark(file, i) <= Mark(file, j)
  /\ Mark(file, marks) <= done

(* A block has more events than a slice of each file.                        *)
Small(x) == NexusFiles * x < VdsBlock

Files == [event_id : Seq(Nat), event_index : Seq(Nat)]
Written(f) == fileCounts[f] - (IF f = current THEN Len(buffered) ELSE 0)

ParserTypes ==
  /\ numFiles \in Nat \ {0} /\ numFiles <= NexusFiles
  /\ parser \in {"reading", "marker", "closed", "dead"}
  /\ events \in Nat /\ current \in TimepixFiles
  /\ sliceEvents \in Nat /\ sliceSize \in [TimepixFiles -> SliceSizes]
  /\ buffered \in Seq(Nat)
  /\ fileCounts \in [TimepixFiles -> Nat] /\ sliceCounts \in [TimepixFiles -> Nat]
  /\ nexus \in [TimepixFiles -> Files]

(* In round R the files in front of the current one have their slice, those  *)
(* behind it do not, and the current one has it when it is marked.           *)
Rounds(R) ==
  /\ \A f \in TimepixFiles : (f < current => sliceCounts[f] = R + 1) /\ (f > current => sliceCounts[f] = R)
  /\ sliceCounts[current] \in {R, R + 1}
  /\ parser = "reading" => (sliceCounts[current] = R + 1 <=> SliceEnded)
  /\ parser = "marker" => sliceCounts[current] = R /\ buffered = <<>> /\ (SliceEnded \/ events = Samples)
  /\ fileCounts[current] = Mark(nexus[current], R) + sliceEvents
  /\ sliceCounts[current] = R + 1 => Mark(nexus[current], R + 1) = fileCounts[current] /\ buffered = <<>>
Settled == \A f \in TimepixFiles : f # current => fileCounts[f] = Mark(nexus[f], sliceCounts[f])
Buffering ==
  /\ sliceEvents <= sliceSize[current] /\ Len(buffered) <= sliceEvents
  /\ \A i \in 1..Len(buffered) : buffered[i] = events - Len(buffered) + i
Shapes == \A f \in TimepixFiles : FileShape(nexus[f], sliceCounts[f], Written(f))
Places == \A f \in TimepixFiles : Placed(nexus, numFiles, f, sliceCounts[f], Written(f))
Starts == \A f \in TimepixFiles : sliceCounts[f] >= 1 => Small(Mark(nexus[f], 1))
Counted == events = SumOf(fileCounts, TimepixFiles)

ParserInv ==
  /\ ParserTypes /\ (\E R \in Nat : Rounds(R)) /\ Settled /\ Buffering /\ Shapes /\ Places /\ Starts /\ Counted

(* The monitor takes the slices in the same turn.                            *)
AllMarked == \A f \in TimepixFiles : sliceCounts[f] >= 1
Right(src, k) == src.place \in 1..Written(src.file) /\ nexus[src.file].event_id[src.place] = k
InBlock == IF monitor = "block" THEN VdsBlock - toRead ELSE 0
SourceSeqs(bs) == [k \in DOMAIN bs |-> Sources(bs[k])]
Shown == FlattenSeq(SourceSeqs(blocks))

AllBlocks == [file : TimepixFiles, offset : Nat, qty : Nat]
AllSources == [file : TimepixFiles, place : Nat]
MonitorTypes ==
  /\ monitor \in {"looking", "looked", "block", "closed"}
  /\ taken \in Nat /\ reading \in TimepixFiles
  /\ eventPtrs \in [TimepixFiles -> Nat] /\ slicePtrs \in [TimepixFiles -> Nat]
  /\ eventQty \in Nat /\ toRead \in 0..VdsBlock
  /\ blocks \in Seq(AllBlocks) /\ timepixVds \in Seq(AllSources)

Turns(Q) == \A f \in TimepixFiles : slicePtrs[f] = IF f < reading THEN Q + 1 ELSE Q
Pointers ==
  \A f \in TimepixFiles :
    /\ slicePtrs[f] <= sliceCounts[f]
    /\ eventPtrs[f] >= Mark(nexus[f], slicePtrs[f])
    /\ eventPtrs[f] # Mark(nexus[f], slicePtrs[f]) =>
         f = reading /\ slicePtrs[f] + 1 <= sliceCounts[f] /\ eventPtrs[f] <= Mark(nexus[f], slicePtrs[f] + 1)
Looks == (monitor = "block" \/ (monitor = "looked" /\ eventQty >= VdsBlock)) => AllMarked
Taken == SumOf(eventPtrs, TimepixFiles) = taken + InBlock
BlockRight == monitor = "block" => Len(Shown) = InBlock /\ \A i \in 1..Len(Shown) : Right(Shown[i], taken + i)
VdsRight == Len(timepixVds) = taken /\ \A k \in 1..Len(timepixVds) : Right(timepixVds[k], k)

MonitorInv ==
  /\ MonitorTypes /\ (\E Q \in Nat : Turns(Q)) /\ Pointers /\ Looks /\ Taken /\ BlockRight /\ VdsRight
-----------------------------------------------------------------------------
(* Numbers and sums.                                                         *)
LEMMA NextInTurn ==
  ASSUME NEW n \in Nat \ {0}, NEW c \in 0..n-1
  PROVE  (c + 1) % n = IF c + 1 = n THEN 0 ELSE c + 1
  <1>1. CASE c + 1 = n  BY <1>1
  <1>2. CASE c + 1 < n  BY <1>2
  <1>3. QED  BY <1>1, <1>2

TimesLess(a, x, y) == a * x <= a * y /\ x * a <= y * a

LEMMA TimesMore ==
  ASSUME NEW a \in Nat, NEW x \in Nat, NEW y \in Nat, x <= y
  PROVE  TimesLess(a, x, y)
  <1>1. PICK d \in Nat : y = x + d
    <2>1. y - x \in Nat /\ y = x + (y - x)  OBVIOUS
    <2>2. QED  BY <2>1
  <1>2. a * (x + d) = a * x + a * d  OBVIOUS
  <1>3. a * x \in Nat /\ a * d \in Nat  OBVIOUS
  <1>4. a * x <= a * y  BY <1>1, <1>2, <1>3
  <1>5. x * a = a * x /\ y * a = a * y  OBVIOUS
  <1>6. QED  BY <1>4, <1>5 DEF TimesLess

LEMMA SmallLess ==
  ASSUME NEW x \in Nat, NEW y \in Nat, x <= y, Small(y)
  PROVE  Small(x)
  <1>1. NexusFiles \in Nat /\ VdsBlock \in Nat  BY NexusAssumption
  <1>2. TimesLess(NexusFiles, x, y)  BY <1>1, TimesMore
  <1>3. NexusFiles * x \in Nat /\ NexusFiles * y \in Nat  BY <1>1
  <1>4. QED  BY <1>1, <1>2, <1>3 DEF Small, TimesLess

LEMMA SizesSmall == \A size \in SliceSizes : size \in Nat \ {0} /\ Small(size)
  BY NexusAssumption DEF Small

(* Numbers that are small each are no block together.                        *)
LEMMA SmallSum ==
  ASSUME NEW n \in Nat \ {0}, n <= NexusFiles, NEW v, \A x \in 0..n-1 : v[x] \in Nat /\ Small(v[x])
  PROVE  SumOf(v, 0..n-1) < VdsBlock
  <1>1. NexusFiles \in Nat \ {0} /\ VdsBlock \in Nat /\ VdsBlock > 0
    <2>1. PICK size \in SliceSizes : size \in Nat /\ NexusFiles * size < VdsBlock  BY NexusAssumption
    <2>2. NexusFiles \in Nat \ {0} /\ VdsBlock \in Nat  BY NexusAssumption
    <2>3. NexusFiles * size \in Nat  BY <2>1, <2>2
    <2>4. QED  BY <2>1, <2>2, <2>3
  <1>2. PICK B \in Nat : NexusFiles * B < VdsBlock /\ \A x \in Nat : NexusFiles * x < VdsBlock => x <= B
    <2>1. PICK B : B = (VdsBlock - 1) \div NexusFiles  OBVIOUS
    <2>2. VdsBlock - 1 \in Nat  BY <1>1
    <2>3. B \in Nat /\ NexusFiles * B <= VdsBlock - 1 /\ VdsBlock - 1 < NexusFiles * (B + 1)
      BY <1>1, <2>1, <2>2
    <2>4. \A x \in Nat : x > B => NexusFiles * (B + 1) <= NexusFiles * x
      <3>1. SUFFICES ASSUME NEW x \in Nat, x > B PROVE NexusFiles * (B + 1) <= NexusFiles * x  OBVIOUS
      <3>2. B + 1 \in Nat /\ B + 1 <= x  BY <2>3, <3>1
      <3>3. NexusFiles \in Nat  BY <1>1
      <3>4. TimesLess(NexusFiles, B + 1, x)  BY <3>2, <3>3, TimesMore
      <3>5. QED  BY <3>4 DEF TimesLess
    <2>5. \A x \in Nat : NexusFiles * x \in Nat  BY <1>1
    <2>6. \A x \in Nat : NexusFiles * x < VdsBlock => x <= B  BY <1>1, <2>3, <2>4, <2>5
    <2>7. NexusFiles * B < VdsBlock
      <3>1. PICK y \in Nat : y = NexusFiles * B  BY <2>3, <2>5
      <3>2. y <= VdsBlock - 1  BY <2>3, <3>1
      <3>3. y < VdsBlock  BY <1>1, <3>2
      <3>4. QED  BY <3>1, <3>3
    <2>8. B \in Nat  BY <2>3
    <2>9. QED  BY <2>6, <2>7, <2>8, Zenon
  <1>3. SumOf(v, 0..n-1) <= Cardinality(0..n-1) * B
    <2>1. IsFiniteSet(0..n-1)  BY FS_Interval
    <2>2. \A x \in 0..n-1 : v[x] <= B  BY <1>2 DEF Small
    <2>3. QED  BY <2>1, <2>2, SumOfAtMost
  <1>4. Cardinality(0..n-1) = n  BY FS_Interval
  <1>5. n * B <= NexusFiles * B
    <2>1. n \in Nat /\ NexusFiles \in Nat  BY <1>1
    <2>2. TimesLess(B, n, NexusFiles)  BY <1>2, <2>1, TimesMore
    <2>3. QED  BY <2>2 DEF TimesLess
  <1>6. SumOf(v, 0..n-1) \in Nat
    <2>1. IsFiniteSet(0..n-1)  BY FS_Interval
    <2>2. QED  BY <2>1, SumOfRemove
  <1>7. n * B \in Nat /\ NexusFiles * B \in Nat  BY <1>1, <1>2
  <1>8. PICK a \in Nat, b \in Nat : a = n * B /\ b = NexusFiles * B  BY <1>7
  <1>9. SumOf(v, 0..n-1) <= a /\ a <= b /\ b < VdsBlock
    <2>1. SumOf(v, 0..n-1) <= n * B  BY <1>3, <1>4, Zenon
    <2>2. QED  BY <1>2, <1>5, <1>8, <2>1
  <1>10. QED  BY <1>1, <1>6, <1>9
-----------------------------------------------------------------------------
(* Files and the places in them.                                             *)
LEMMA OthersSame ==
  ASSUME NEW files, NEW more, NEW n \in Nat, NEW f, NEW j,
         \A g \in 0..n-1 : g # f => Mark(more[g], SlicesOf(g, f, j)) = Mark(files[g], SlicesOf(g, f, j))
  PROVE  Others(more, n, f, j) = Others(files, n, f, j)
  <1>1. IsFiniteSet(0..n-1)  BY FS_Interval
  <1>2. \A g \in 0..n-1 : OtherMarks(more, n, f, j)[g] = OtherMarks(files, n, f, j)[g]
    BY Zenon DEF OtherMarks
  <1>3. SumOf(OtherMarks(more, n, f, j), 0..n-1) = SumOf(OtherMarks(files, n, f, j), 0..n-1)
    BY <1>1, <1>2, SumOfSame
  <1>4. QED  BY <1>3, Zenon DEF Others

LEMMA OthersAdd ==
  ASSUME NEW files, NEW n \in Nat, NEW f \in 0..n-1, NEW j, NEW v,
         \A g \in 0..n-1 : v[g] \in Nat,
         \A g \in 0..n-1 : g # f => v[g] = Mark(files[g], SlicesOf(g, f, j))
  PROVE  Others(files, n, f, j) \in Nat /\ SumOf(v, 0..n-1) = Others(files, n, f, j) + v[f]
  <1>1. IsFiniteSet(0..n-1)  BY FS_Interval
  <1>2. PICK u : u = OtherMarks(files, n, f, j)  OBVIOUS
  <1>3. \A g \in 0..n-1 : u[g] = IF g = f THEN 0 ELSE v[g]  BY <1>2, Zenon DEF OtherMarks
  <1>4. \A g \in 0..n-1 : u[g] \in Nat  BY <1>3
  <1>5. PICK d \in Nat : d = v[f] /\ v[f] = u[f] + d  BY <1>3
  <1>6. \A g \in (0..n-1) \ {f} : v[g] = u[g]  BY <1>3
  <1>7. SumOf(v, 0..n-1) = SumOf(u, 0..n-1) + d
    <2>1. PICK S : S = 0..n-1  OBVIOUS
    <2>2. IsFiniteSet(S) /\ f \in S  BY <1>1, <2>1
    <2>3. OneMore(u, v, S, f, d)  BY <1>4, <1>5, <1>6, <2>1, Zenon DEF OneMore
    <2>4. SumsMore(u, v, S, d)  BY <2>2, <2>3, SumOfChange
    <2>5. QED  BY <2>1, <2>4, Zenon DEF SumsMore
  <1>8. SumOf(u, 0..n-1) \in Nat  BY <1>1, <1>4, SumOfRemove
  <1>9. QED  BY <1>2, <1>5, <1>7, <1>8, Zenon DEF Others

IsResized(r, data, n, values, l) ==
  /\ r \in Seq(Nat) /\ Len(r) = n
  /\ \A k \in 1..n-l : k \in 1..Len(data) => r[k] = data[k]
  /\ \A k \in 1..l : r[n - l + k] = values[k]

LEMMA ResizedIs ==
  ASSUME NEW data \in Seq(Nat), NEW n \in Nat, NEW values \in Seq(Nat), NEW l \in Nat,
         Len(values) = l, l <= n, NEW r, r = Resized(data, n, values)
  PROVE  IsResized(r, data, n, values, l)
  <1>1. r = [k \in 1..n |-> IF k > n - l THEN values[k - n + l]
                            ELSE IF k \in DOMAIN data THEN data[k] ELSE 0]
    BY DEF Resized
  <1>2. \A k \in 1..n : r[k] \in Nat
    <2>1. SUFFICES ASSUME NEW k \in 1..n PROVE r[k] \in Nat  OBVIOUS
    <2>2. CASE k > n - l
      <3>1. k - n + l \in 1..l  BY <2>2
      <3>2. values[k - n + l] \in Nat  BY <3>1
      <3>3. QED  BY <1>1, <2>2, <3>2
    <2>3. CASE ~(k > n - l)  BY <1>1, <2>3
    <2>4. QED  BY <2>2, <2>3
  <1>3. r \in Seq(Nat) /\ Len(r) = n
    <2>1. r \in [1..n -> Nat]
      <3>1. DOMAIN r = 1..n /\ r = [k \in 1..n |-> r[k]]  BY <1>1
      <3>2. QED  BY <1>2, <3>1
    <2>2. QED  BY <2>1
  <1>4. \A k \in 1..n-l : k \in 1..Len(data) => r[k] = data[k]
    <2>1. \A k \in 1..n-l : k \in 1..n /\ ~(k > n - l)  OBVIOUS
    <2>2. DOMAIN data = 1..Len(data)  OBVIOUS
    <2>3. QED  BY <1>1, <2>1, <2>2
  <1>5. \A k \in 1..l : r[n - l + k] = values[k]
    <2>1. SUFFICES ASSUME NEW k \in 1..l PROVE r[n - l + k] = values[k]  OBVIOUS
    <2>2. n - l + k \in 1..n /\ n - l + k > n - l /\ (n - l + k) - n + l = k  OBVIOUS
    <2>3. QED  BY <1>1, <2>2
  <1>6. QED  BY <1>3, <1>4, <1>5 DEF IsResized

(* What is written stays in place.                                           *)
Keeps(file, new, marks, done) ==
  /\ \A j \in 0..marks : Mark(new, j) = Mark(file, j)
  /\ \A p \in 1..done : new.event_id[p] = file.event_id[p]
PlacesOf(file, j, marks, done) == (Mark(file, j - 1) + 1)..EndOf(file, j, marks, done)
ValidPlaces(files, n, f, marks, done) ==
  \A j \in 1..marks[f]+1 : \A p \in PlacesOf(files[f], j, marks[f], done) :
    p \in 1..done /\ \A g \in 0..n-1 : g # f => SlicesOf(g, f, j) \in 0..marks[g]

LEMMA PlacedKept ==
  ASSUME NEW files, NEW more, NEW n \in Nat, NEW f \in 0..n-1, NEW marks \in [0..n-1 -> Nat], NEW done,
         \A g \in 0..n-1 : g # f => Keeps(files[g], more[g], marks[g], 0),
         Keeps(files[f], more[f], marks[f], done),
         ValidPlaces(files, n, f, marks, done), Placed(files, n, f, marks[f], done)
  PROVE  Placed(more, n, f, marks[f], done)
  <1>1. SUFFICES ASSUME NEW j \in 1..marks[f]+1, NEW p \in PlacesOf(more[f], j, marks[f], done)
                 PROVE  more[f].event_id[p] = p + Others(more, n, f, j)
    BY Zenon DEF Placed, PlacesOf
  <1>2. PICK m \in Nat : m = marks[f]  OBVIOUS
  <1>3. Mark(more[f], j - 1) = Mark(files[f], j - 1)
    <2>1. j - 1 \in 0..m  BY <1>2
    <2>2. QED  BY <1>2, <2>1, Zenon DEF Keeps
  <1>4. EndOf(more[f], j, m, done) = EndOf(files[f], j, m, done)
    <2>1. CASE j <= m
      <3>1. j \in 0..m  BY <1>2, <2>1
      <3>2. Mark(more[f], j) = Mark(files[f], j)  BY <1>2, <3>1, Zenon DEF Keeps
      <3>3. QED  BY <2>1, <3>2 DEF EndOf
    <2>2. CASE ~(j <= m)  BY <2>2 DEF EndOf
    <2>3. QED  BY <2>1, <2>2
  <1>5. p \in PlacesOf(files[f], j, m, done)  BY <1>2, <1>3, <1>4, Zenon DEF PlacesOf
  <1>6. p \in 1..done /\ \A g \in 0..n-1 : g # f => SlicesOf(g, f, j) \in 0..marks[g]
    BY <1>2, <1>5, Zenon DEF ValidPlaces
  <1>7. more[f].event_id[p] = files[f].event_id[p]  BY <1>6, Zenon DEF Keeps
  <1>8. files[f].event_id[p] = p + Others(files, n, f, j)
    BY <1>2, <1>5, Zenon DEF Placed, PlacesOf
  <1>9. Others(more, n, f, j) = Others(files, n, f, j)
    <2>1. \A g \in 0..n-1 : g # f => Mark(more[g], SlicesOf(g, f, j)) = Mark(files[g], SlicesOf(g, f, j))
      BY <1>6, Zenon DEF Keeps
    <2>2. QED  BY <2>1, OthersSame
  <1>10. QED  BY <1>7, <1>8, <1>9, Zenon

(* In the turn of the rounds the other files have the marks that a place     *)
(* counts.                                                                   *)
LEMMA PlacesAreValid ==
  ASSUME ParserInv, NEW f \in TimepixFiles
  PROVE  ValidPlaces(nexus, numFiles, f, sliceCounts, Written(f))
  <1>1. PICK R \in Nat : Rounds(R)  BY DEF ParserInv
  <1>2. PICK m \in Nat : m = sliceCounts[f]  BY DEF ParserInv, ParserTypes
  <1>3. PICK w : w = Written(f)  OBVIOUS
  <1>4. PICK file \in Files : file = nexus[f]  BY DEF ParserInv, ParserTypes
  <1>5. FileShape(file, m, w)  BY <1>2, <1>3, <1>4 DEF ParserInv, Shapes
  <1>6. w \in Int
    <2>1. fileCounts[f] \in Nat /\ Len(buffered) \in Nat  BY DEF ParserInv, ParserTypes
    <2>2. QED  BY <1>3, <2>1 DEF Written
  <1>7. \A j \in 0..m : Mark(file, j) \in Nat
    <2>1. SUFFICES ASSUME NEW j \in 0..m PROVE Mark(file, j) \in Nat  OBVIOUS
    <2>2. CASE j = 0  BY <2>2 DEF Mark
    <2>3. CASE j # 0
      <3>1. m # 0 /\ j \in 1..m  BY <2>3
      <3>2. Len(file.event_index) = m  BY <1>5, <3>1 DEF FileShape
      <3>3. file.event_index \in Seq(Nat)  BY DEF Files
      <3>4. file.event_index[j] \in Nat  BY <3>1, <3>2, <3>3
      <3>5. QED  BY <2>3, <3>4 DEF Mark
    <2>4. QED  BY <2>2, <2>3
  <1>8. SUFFICES ASSUME NEW j \in 1..m+1, NEW p \in PlacesOf(file, j, m, w)
                 PROVE  p \in 1..w /\ \A g \in 0..numFiles-1 : g # f => SlicesOf(g, f, j) \in 0..sliceCounts[g]
    BY <1>2, <1>3, <1>4, Zenon DEF ValidPlaces
  <1>9. j - 1 \in 0..m /\ Mark(file, j - 1) \in Nat
    <2>1. j - 1 \in 0..m  OBVIOUS
    <2>2. QED  BY <1>7, <2>1
  <1>10. EndOf(file, j, m, w) \in Int /\ EndOf(file, j, m, w) <= w
    <2>1. CASE j <= m
      <3>1. j \in 0..m /\ m \in 0..m  BY <2>1
      <3>2. Mark(file, j) <= Mark(file, m) /\ Mark(file, m) <= w  BY <1>5, <2>1, <3>1 DEF FileShape
      <3>3. Mark(file, j) \in Nat /\ Mark(file, m) \in Nat  BY <1>7, <3>1
      <3>4. Mark(file, j) <= w  BY <1>6, <3>2, <3>3
      <3>5. QED  BY <2>1, <3>3, <3>4 DEF EndOf
    <2>2. CASE ~(j <= m)  BY <1>6, <2>2 DEF EndOf
    <2>3. QED  BY <2>1, <2>2
  <1>11. p \in Int /\ Mark(file, j - 1) < p /\ p <= EndOf(file, j, m, w)
    BY <1>9, <1>10 DEF PlacesOf
  <1>12. p \in 1..w  BY <1>6, <1>9, <1>10, <1>11
  <1>13. j = m + 1 => f = current /\ m = R
    <2>1. SUFFICES ASSUME j = m + 1 PROVE f = current /\ m = R  OBVIOUS
    <2>2. Mark(file, m) < w
      <3>1. j - 1 = m /\ ~(j <= m)  BY <2>1
      <3>2. EndOf(file, j, m, w) = w  BY <3>1 DEF EndOf
      <3>3. QED  BY <1>6, <1>7, <1>9, <1>11, <3>1, <3>2
    <2>3. fileCounts[f] \in Nat  BY DEF ParserInv, ParserTypes
    <2>4. f = current
      <3>1. SUFFICES ASSUME f # current PROVE FALSE  OBVIOUS
      <3>2. fileCounts[f] = Mark(file, m)  BY <1>2, <1>4, <3>1 DEF ParserInv, Settled
      <3>3. w = fileCounts[f]  BY <1>3, <2>3, <3>1 DEF Written
      <3>4. QED  BY <2>2, <2>3, <3>2, <3>3
    <2>5. m = R
      <3>1. SUFFICES ASSUME m = R + 1 PROVE FALSE  BY <1>1, <1>2, <2>4 DEF Rounds
      <3>2. Mark(file, m) = fileCounts[f] /\ buffered = <<>>  BY <1>1, <1>2, <1>4, <2>4, <3>1 DEF Rounds
      <3>3. w = fileCounts[f]  BY <1>3, <2>3, <3>2 DEF Written
      <3>4. QED  BY <2>2, <2>3, <3>2, <3>3
    <2>6. QED  BY <2>4, <2>5
  <1>14. ASSUME NEW g \in 0..numFiles-1, g # f PROVE SlicesOf(g, f, j) \in 0..sliceCounts[g]
    <2>1. sliceCounts[g] \in Nat /\ numFiles \in Nat /\ current \in 0..numFiles-1 /\ f \in 0..numFiles-1
      BY DEF ParserInv, ParserTypes, TimepixFiles
    <2>2. /\ (g < current => sliceCounts[g] = R + 1) /\ (g > current => sliceCounts[g] = R)
          /\ (f < current => m = R + 1) /\ (f > current => m = R)
          /\ (g = current => sliceCounts[g] \in {R, R + 1}) /\ (f = current => m \in {R, R + 1})
      BY <1>1, <1>2 DEF Rounds, TimepixFiles
    <2>3. SlicesOf(g, f, j) = IF g < f THEN j ELSE j - 1  BY DEF SlicesOf
    <2>4. CASE j = m + 1
      <3>1. f = current /\ m = R  BY <1>13, <2>4
      <3>2. QED  BY <1>14, <2>1, <2>2, <2>3, <2>4, <3>1
    <2>5. CASE j # m + 1
      <3>1. j <= m  BY <2>5
      <3>2. QED  BY <1>14, <2>1, <2>2, <2>3, <3>1
    <2>6. QED  BY <2>4, <2>5
  <1>15. QED  BY <1>12, <1>14
-----------------------------------------------------------------------------
(* The parser.  What its steps leave in place is what the monitor may see.   *)
Grows ==
  /\ numFiles' = numFiles
  /\ \A f \in TimepixFiles :
       /\ sliceCounts'[f] \in Nat /\ sliceCounts[f] <= sliceCounts'[f]
       /\ Written(f)' \in Int /\ Written(f) <= Written(f)'
       /\ Keeps(nexus[f], nexus'[f], sliceCounts[f], Written(f))

LEMMA ParserFacts ==
  ASSUME ParserInv
  PROVE  /\ numFiles \in Nat \ {0} /\ TimepixFiles = 0..numFiles-1 /\ IsFiniteSet(TimepixFiles)
         /\ current \in TimepixFiles /\ Len(buffered) \in Nat /\ events \in Nat
         /\ \A f \in TimepixFiles :
              /\ fileCounts[f] \in Nat /\ sliceCounts[f] \in Nat
              /\ nexus[f] \in Files /\ Written(f) \in Nat
              /\ \A j \in 0..sliceCounts[f] : Mark(nexus[f], j) \in Nat
  <1>1. /\ numFiles \in Nat \ {0} /\ TimepixFiles = 0..numFiles-1 /\ current \in TimepixFiles
        /\ Len(buffered) \in Nat /\ events \in Nat
    BY DEF ParserInv, ParserTypes, TimepixFiles
  <1>2. IsFiniteSet(TimepixFiles)
    <2>1. IsFiniteSet(0..numFiles-1)  BY <1>1, FS_Interval
    <2>2. QED  BY <1>1, <2>1, Zenon
  <1>3. ASSUME NEW f \in TimepixFiles
        PROVE  /\ fileCounts[f] \in Nat /\ sliceCounts[f] \in Nat
               /\ nexus[f] \in Files /\ Written(f) \in Nat
               /\ \A j \in 0..sliceCounts[f] : Mark(nexus[f], j) \in Nat
    <2>1. fileCounts[f] \in Nat /\ sliceCounts[f] \in Nat /\ nexus[f] \in Files
      BY DEF ParserInv, ParserTypes
    <2>0. PICK w : w = Written(f)  OBVIOUS
    <2>2. PICK m \in Nat, file \in Files : m = sliceCounts[f] /\ w = Written(f) /\ file = nexus[f]
      BY <2>1, <2>0
    <2>3. FileShape(file, m, w)  BY <2>2 DEF ParserInv, Shapes
    <2>4. \A j \in 0..m : Mark(file, j) \in Nat
      <3>1. SUFFICES ASSUME NEW j \in 0..m PROVE Mark(file, j) \in Nat  OBVIOUS
      <3>2. CASE j = 0  BY <3>2 DEF Mark
      <3>3. CASE j # 0
        <4>1. m # 0 /\ j \in 1..m  BY <3>3
        <4>2. Len(file.event_index) = m  BY <2>3, <4>1 DEF FileShape
        <4>3. file.event_index \in Seq(Nat)  BY DEF Files
        <4>4. file.event_index[j] \in Nat  BY <4>1, <4>2, <4>3
        <4>5. QED  BY <3>3, <4>4 DEF Mark
      <3>4. QED  BY <3>2, <3>3
    <2>5. w \in Nat
      <3>1. w \in Int  BY <1>1, <2>1, <2>2 DEF Written
      <3>2. Mark(file, m) <= w  BY <2>3 DEF FileShape
      <3>3. Mark(file, m) \in Nat
        <4>1. m \in 0..m  OBVIOUS
        <4>2. QED  BY <2>4, <4>1
      <3>4. QED  BY <3>1, <3>2, <3>3
    <2>6. QED  BY <2>1, <2>2, <2>4, <2>5
  <1>4. QED  BY <1>1, <1>2, <1>3

LEMMA PlacedStays ==
  ASSUME ParserInv, Grows, NEW f \in TimepixFiles
  PROVE  Placed(nexus', numFiles, f, sliceCounts[f], Written(f))
  <1>1. PICK n \in Nat : n = numFiles /\ TimepixFiles = 0..n-1  BY ParserFacts
  <1>2. sliceCounts \in [0..n-1 -> Nat]  BY <1>1 DEF ParserInv, ParserTypes
  <1>3. PICK w : w = Written(f)  OBVIOUS
  <1>4. ValidPlaces(nexus, n, f, sliceCounts, w)  BY <1>1, <1>3, PlacesAreValid
  <1>5. Placed(nexus, n, f, sliceCounts[f], w)  BY <1>1, <1>3 DEF ParserInv, Places
  <1>6. Keeps(nexus[f], nexus'[f], sliceCounts[f], w)  BY <1>3 DEF Grows
  <1>7. \A g \in 0..n-1 : g # f => Keeps(nexus[g], nexus'[g], sliceCounts[g], 0)
    <2>1. \A g \in 0..n-1 : \A j \in 0..sliceCounts[g] : Mark(nexus'[g], j) = Mark(nexus[g], j)
      BY <1>1, Zenon DEF Grows, Keeps
    <2>2. 1..0 = {}  OBVIOUS
    <2>3. QED  BY <2>1, <2>2, Zenon DEF Keeps
  <1>8. PICK more : more = nexus'  OBVIOUS
  <1>9. PICK files, marks : files = nexus /\ marks = sliceCounts  OBVIOUS
  <1>10. f \in 0..n-1  BY <1>1
  <1>11. Placed(more, n, f, marks[f], w)
    <2>1. /\ \A g \in 0..n-1 : g # f => Keeps(files[g], more[g], marks[g], 0)
          /\ Keeps(files[f], more[f], marks[f], w) /\ marks \in [0..n-1 -> Nat]
          /\ ValidPlaces(files, n, f, marks, w) /\ Placed(files, n, f, marks[f], w)
      BY <1>2, <1>4, <1>5, <1>6, <1>7, <1>8, <1>9, Zenon
    <2>2. QED  BY <1>10, <2>1, PlacedKept, Zenon
  <1>12. QED  BY <1>1, <1>3, <1>8, <1>9, <1>11, Zenon

LEMMA QuietKeeps ==
  ASSUME ParserInv, UNCHANGED <<numFiles, nexus, fileCounts, sliceCounts, events>>,
         \A f \in TimepixFiles : Written(f)' = Written(f)
  PROVE  Grows /\ Shapes' /\ Places' /\ Starts' /\ Counted'
  <1>1. TimepixFiles' = TimepixFiles  BY DEF TimepixFiles
  <1>2. Grows
    <2>1. \A f \in TimepixFiles : sliceCounts[f] \in Nat /\ Written(f) \in Nat  BY ParserFacts
    <2>2. \A f \in TimepixFiles : Keeps(nexus[f], nexus[f], sliceCounts[f], Written(f))
      BY Zenon DEF Keeps
    <2>3. QED  BY <2>1, <2>2 DEF Grows
  <1>3. Shapes'
    <2>1. \A f \in TimepixFiles : FileShape(nexus[f], sliceCounts[f], Written(f))
      BY DEF ParserInv, Shapes
    <2>2. \A f \in TimepixFiles' : FileShape(nexus'[f], sliceCounts'[f], Written(f)')
      BY <1>1, <2>1, Zenon
    <2>3. QED  BY <2>2, Zenon DEF Shapes
  <1>4. Places'
    <2>1. \A f \in TimepixFiles : Placed(nexus, numFiles, f, sliceCounts[f], Written(f))
      BY DEF ParserInv, Places
    <2>2. \A f \in TimepixFiles' : Placed(nexus', numFiles', f, sliceCounts'[f], Written(f)')
      BY <1>1, <2>1, Zenon
    <2>3. QED  BY <2>2, Zenon DEF Places
  <1>5. Starts'
    <2>1. \A f \in TimepixFiles : sliceCounts[f] >= 1 => Small(Mark(nexus[f], 1))
      BY DEF ParserInv, Starts
    <2>2. \A f \in TimepixFiles' : sliceCounts'[f] >= 1 => Small(Mark(nexus'[f], 1))
      BY <1>1, <2>1, Zenon
    <2>3. QED  BY <2>2, Zenon DEF Starts
  <1>6. Counted'  BY <1>1 DEF ParserInv, Counted
  <1>7. QED  BY <1>2, <1>3, <1>4, <1>5, <1>6

LEMMA NextSliceKeeps ==
  ASSUME ParserInv, NextSlice
  PROVE  ParserInv' /\ Grows
  <1>1. /\ parser = "reading" /\ parser' = "reading" /\ SliceEnded
        /\ current' = NextOf(current) /\ sliceEvents' = 0
        /\ UNCHANGED <<numFiles, nexus, fileCounts, sliceCounts, events, buffered>>
    BY DEF NextSlice, input, written
  <1>2. PICK size \in SliceSizes : sliceSize' = [sliceSize EXCEPT ![current] = size]
    BY DEF NextSlice
  <1>3. PICK R \in Nat : Rounds(R)  BY DEF ParserInv
  <1>4. /\ TimepixFiles' = TimepixFiles /\ current \in TimepixFiles
        /\ numFiles \in Nat \ {0} /\ TimepixFiles = 0..numFiles-1
    BY <1>1, ParserFacts DEF TimepixFiles
  <1>5. sliceCounts[current] = R + 1 /\ buffered = <<>> /\ Len(buffered) = 0
        /\ Mark(nexus[current], R + 1) = fileCounts[current]
    BY <1>1, <1>3 DEF Rounds
  <1>6. PICK c \in TimepixFiles : c = current'
        /\ c = IF current + 1 = numFiles THEN 0 ELSE current + 1
    <2>1. current' = (current + 1) % numFiles  BY <1>1 DEF NextOf
    <2>2. (current + 1) % numFiles = IF current + 1 = numFiles THEN 0 ELSE current + 1
      BY <1>4, NextInTurn
    <2>3. PICK c : c = current'  OBVIOUS
    <2>4. c = IF current + 1 = numFiles THEN 0 ELSE current + 1  BY <2>1, <2>2, <2>3
    <2>5. c \in TimepixFiles  BY <1>4, <2>4
    <2>6. QED  BY <2>3, <2>4, <2>5
  <1>7. \A f \in TimepixFiles : fileCounts[f] \in Nat /\ Written(f) = fileCounts[f] /\ Written(f)' = fileCounts[f]
    <2>1. \A f \in TimepixFiles : fileCounts[f] \in Nat  BY ParserFacts
    <2>2. Len(buffered') = 0 /\ Len(buffered) = 0  BY <1>1, <1>5
    <2>3. QED  BY <1>1, <2>1, <2>2 DEF Written
  <1>8. \A f \in TimepixFiles : Written(f)' = Written(f)  BY <1>7
  <1>9. Grows /\ Shapes' /\ Places' /\ Starts' /\ Counted'  BY <1>1, <1>8, QuietKeeps
  <1>10. sliceSize' \in [TimepixFiles -> SliceSizes]  BY <1>2 DEF ParserInv, ParserTypes
  <1>11. ParserTypes'
    BY <1>1, <1>4, <1>6, <1>10 DEF ParserInv, ParserTypes
  <1>12. \A f \in TimepixFiles : fileCounts[f] = Mark(nexus[f], sliceCounts[f])
    BY <1>5 DEF ParserInv, Settled
  <1>13. Settled'  BY <1>1, <1>4, <1>12, Zenon DEF Settled
  <1>14. sliceSize'[c] \in Nat \ {0}  BY <1>6, <1>10, SizesSmall
  <1>15. Buffering'
    BY <1>1, <1>5, <1>6, <1>14 DEF Buffering
  <1>16. \E Q \in Nat : Rounds(Q)'
    <2>1. PICK Q \in Nat : Q = IF current + 1 = numFiles THEN R + 1 ELSE R  BY <1>3
    <2>2. \A f \in TimepixFiles : (f < current => sliceCounts[f] = R + 1) /\ (f > current => sliceCounts[f] = R)
      BY <1>3 DEF Rounds
    <2>3. \A f \in TimepixFiles : (f < c => sliceCounts[f] = Q + 1) /\ (f >= c => sliceCounts[f] = Q)
      BY <1>4, <1>5, <1>6, <2>1, <2>2
    <2>4. sliceCounts[c] = Q /\ sliceCounts[c] # Q + 1  BY <1>4, <1>6, <2>3
    <2>5. fileCounts[c] = Mark(nexus[c], Q) + 0
      <3>1. fileCounts[c] = Mark(nexus[c], Q)  BY <1>6, <1>12, <2>4, Zenon
      <3>2. fileCounts[c] \in Nat  BY <1>6, <1>7
      <3>3. QED  BY <3>1, <3>2
    <2>6. ~(0 = sliceSize'[c])  BY <1>14
    <2>7. \A f \in TimepixFiles : (f < c => sliceCounts[f] = Q + 1) /\ (f > c => sliceCounts[f] = Q)
      BY <1>4, <1>6, <2>3
    <2>8. Rounds(Q)'  BY <1>1, <1>4, <1>6, <2>4, <2>5, <2>6, <2>7 DEF Rounds, SliceEnded
    <2>9. QED  BY <2>8
  <1>17. QED  BY <1>9, <1>11, <1>13, <1>15, <1>16 DEF ParserInv

(* The words that are no events, and the ends.                               *)
LEMMA OthersKeep ==
  ASSUME ParserInv, ReadError \/ EndOfStack \/ ReadOther
  PROVE  ParserInv' /\ Grows
  <1>1. /\ parser = "reading" /\ parser' \in {"reading", "dead", "closed"} /\ ~SliceEnded
        /\ UNCHANGED <<numFiles, nexus, fileCounts, sliceCounts, events, buffered, current, sliceEvents, sliceSize>>
    BY DEF ReadError, EndOfStack, ReadOther, read_next, Reads, input, slice, written
  <1>2. TimepixFiles' = TimepixFiles  BY <1>1 DEF TimepixFiles
  <1>3. \A f \in TimepixFiles : Written(f)' = Written(f)  BY <1>1 DEF Written
  <1>4. Grows /\ Shapes' /\ Places' /\ Starts' /\ Counted'  BY <1>1, <1>3, QuietKeeps
  <1>5. ParserTypes'  BY <1>1, <1>2 DEF ParserInv, ParserTypes
  <1>6. Settled' /\ Buffering'  BY <1>1, <1>2 DEF ParserInv, Settled, Buffering
  <1>7. \E R \in Nat : Rounds(R)'
    <2>1. PICK R \in Nat : Rounds(R)  BY DEF ParserInv
    <2>2. Rounds(R)'  BY <1>1, <1>2, <2>1 DEF Rounds, SliceEnded
    <2>3. QED  BY <2>2
  <1>8. QED  BY <1>4, <1>5, <1>6, <1>7 DEF ParserInv

(* An event's number is its place and what the other files have.             *)
LEMMA EventsAre ==
  ASSUME ParserInv, NEW R \in Nat, Rounds(R)
  PROVE  /\ Others(nexus, numFiles, current, R + 1) \in Nat
         /\ events = Others(nexus, numFiles, current, R + 1) + fileCounts[current]
  <1>1. PICK n \in Nat : n = numFiles /\ TimepixFiles = 0..n-1  BY ParserFacts
  <1>2. PICK c \in 0..n-1 : c = current  BY <1>1, ParserFacts
  <1>3. \A g \in 0..n-1 : fileCounts[g] \in Nat  BY <1>1, ParserFacts
  <1>4. \A g \in 0..n-1 : g # c => fileCounts[g] = Mark(nexus[g], SlicesOf(g, c, R + 1))
    <2>1. SUFFICES ASSUME NEW g \in 0..n-1, g # c
                   PROVE  fileCounts[g] = Mark(nexus[g], SlicesOf(g, c, R + 1))
      OBVIOUS
    <2>2. fileCounts[g] = Mark(nexus[g], sliceCounts[g])
      BY <1>1, <1>2, <2>1 DEF ParserInv, Settled
    <2>3. sliceCounts[g] = SlicesOf(g, c, R + 1)
      <3>1. (g < c => sliceCounts[g] = R + 1) /\ (g > c => sliceCounts[g] = R)
        BY <1>1, <1>2 DEF Rounds
      <3>2. QED  BY <1>2, <2>1, <3>1 DEF SlicesOf
    <2>4. QED  BY <2>2, <2>3, Zenon
  <1>5. /\ Others(nexus, n, c, R + 1) \in Nat
        /\ SumOf(fileCounts, 0..n-1) = Others(nexus, n, c, R + 1) + fileCounts[c]
    BY <1>3, <1>4, OthersAdd
  <1>6. events = SumOf(fileCounts, 0..n-1)  BY <1>1 DEF ParserInv, Counted
  <1>7. QED  BY <1>1, <1>2, <1>5, <1>6, Zenon

LEMMA ReadEventFacts ==
  ASSUME ParserInv, ReadEvent
  PROVE  /\ parser = "reading" /\ ~SliceEnded
         /\ UNCHANGED <<numFiles, sliceCounts, current, sliceSize>>
         /\ events' = events + 1 /\ sliceEvents' = sliceEvents + 1
         /\ fileCounts' = [fileCounts EXCEPT ![current] = @ + 1]
         /\ parser' = (IF LastOfSlice THEN "marker" ELSE "reading")
         /\ Append(buffered, events + 1) \in Seq(Nat)
         /\ Len(Append(buffered, events + 1)) = Len(buffered) + 1
         /\ \A i \in 1..Len(buffered)+1 :
              Append(buffered, events + 1)[i] = events + 1 - (Len(buffered) + 1) + i
         /\ Len(buffered) <= sliceEvents /\ sliceEvents + 1 <= sliceSize[current]
         /\ sliceEvents \in Nat /\ sliceSize[current] \in Nat
         /\ ParserTypes' <=> buffered' \in Seq(Nat) /\ nexus' \in [TimepixFiles -> Files]
         /\ Counted'
  <1>1. /\ parser = "reading" /\ ~SliceEnded
        /\ UNCHANGED <<numFiles, sliceCounts, current, sliceSize>>
        /\ events' = events + 1 /\ sliceEvents' = sliceEvents + 1
        /\ fileCounts' = [fileCounts EXCEPT ![current] = @ + 1]
        /\ parser' = (IF LastOfSlice THEN "marker" ELSE "reading")
    BY DEF ReadEvent, read_next, Reads
  <1>2. /\ buffered \in Seq(Nat) /\ events \in Nat /\ Len(buffered) \in Nat /\ sliceEvents \in Nat
        /\ sliceSize[current] \in Nat /\ fileCounts \in [TimepixFiles -> Nat] /\ current \in TimepixFiles
    <2>1. sliceSize[current] \in SliceSizes  BY DEF ParserInv, ParserTypes
    <2>2. QED  BY <2>1, SizesSmall DEF ParserInv, ParserTypes
  <1>3. Len(buffered) <= sliceEvents /\ sliceEvents + 1 <= sliceSize[current]
        /\ \A i \in 1..Len(buffered) : buffered[i] = events - Len(buffered) + i
    BY <1>1, <1>2 DEF ParserInv, Buffering, SliceEnded
  <1>4. PICK l \in Nat : l = Len(buffered)  BY <1>2
  <1>5. /\ Append(buffered, events + 1) \in Seq(Nat) /\ Len(Append(buffered, events + 1)) = l + 1
        /\ Append(buffered, events + 1)[l + 1] = events + 1
        /\ \A i \in 1..l : Append(buffered, events + 1)[i] = buffered[i]
    <2>1. events + 1 \in Nat  BY <1>2
    <2>2. QED  BY <1>2, <1>4, <2>1, AppendFacts
  <1>6. \A i \in 1..l+1 : Append(buffered, events + 1)[i] = events + 1 - (l + 1) + i
    <2>1. SUFFICES ASSUME NEW i \in 1..l+1
                   PROVE  Append(buffered, events + 1)[i] = events + 1 - (l + 1) + i
      OBVIOUS
    <2>2. CASE i = l + 1  BY <1>2, <1>5, <2>2
    <2>3. CASE i # l + 1
      <3>1. i \in 1..l  BY <2>3
      <3>2. QED  BY <1>2, <1>3, <1>4, <1>5, <3>1
    <2>4. QED  BY <2>2, <2>3
  <1>7. TimepixFiles' = TimepixFiles  BY <1>1 DEF TimepixFiles
  <1>8. ParserTypes' <=> buffered' \in Seq(Nat) /\ nexus' \in [TimepixFiles -> Files]
    <2>1. fileCounts' \in [TimepixFiles -> Nat]  BY <1>1, <1>2
    <2>2. events' \in Nat /\ sliceEvents' \in Nat  BY <1>1, <1>2
    <2>3. parser' \in {"reading", "marker", "closed", "dead"}  BY <1>1
    <2>4. QED  BY <1>1, <1>7, <2>1, <2>2, <2>3 DEF ParserInv, ParserTypes
  <1>9. Counted'
    <2>1. PICK S, v, w : S = TimepixFiles /\ v = fileCounts /\ w = fileCounts'  OBVIOUS
    <2>2. IsFiniteSet(S)  BY <2>1, ParserFacts
    <2>3. current \in S /\ OneMore(v, w, S, current, 1)
      BY <1>1, <1>2, <2>1 DEF OneMore
    <2>4. SumsMore(v, w, S, 1)  BY <2>2, <2>3, SumOfChange
    <2>5. events = SumOf(v, S)  BY <2>1, Zenon DEF ParserInv, Counted
    <2>6. events' = SumOf(w, S)  BY <1>1, <2>4, <2>5 DEF SumsMore
    <2>7. QED  BY <1>7, <2>1, <2>6, Zenon DEF Counted
  <1>10. QED  BY <1>1, <1>2, <1>3, <1>4, <1>5, <1>6, <1>8, <1>9

(* Settled and Rounds speak of the markers, which stay.                      *)
LEMMA ReadEventRounds ==
  ASSUME ParserInv, ReadEvent, Grows, LastOfSlice => buffered' = <<>>
  PROVE  Settled' /\ \E R \in Nat : Rounds(R)'
  <1>1. PICK R \in Nat : Rounds(R)  BY DEF ParserInv
  <1>2. /\ parser = "reading" /\ ~SliceEnded
        /\ UNCHANGED <<numFiles, sliceCounts, current, sliceSize>>
        /\ events' = events + 1 /\ sliceEvents' = sliceEvents + 1
        /\ fileCounts' = [fileCounts EXCEPT ![current] = @ + 1]
        /\ parser' = (IF LastOfSlice THEN "marker" ELSE "reading")
        /\ sliceEvents \in Nat
    BY ReadEventFacts
  <1>3. TimepixFiles' = TimepixFiles /\ current \in TimepixFiles
    BY <1>2, ParserFacts DEF TimepixFiles
  <1>4. \A f \in TimepixFiles : Mark(nexus'[f], sliceCounts[f]) = Mark(nexus[f], sliceCounts[f])
    <2>1. \A f \in TimepixFiles : sliceCounts[f] \in 0..sliceCounts[f]  BY ParserFacts
    <2>2. QED  BY <2>1, Zenon DEF Grows, Keeps
  <1>5. fileCounts \in [TimepixFiles -> Nat]  BY DEF ParserInv, ParserTypes
  <1>6. Settled'
    <2>1. \A f \in TimepixFiles : f # current => fileCounts'[f] = fileCounts[f]  BY <1>2, <1>5
    <2>2. \A f \in TimepixFiles : f # current => fileCounts[f] = Mark(nexus[f], sliceCounts[f])
      BY DEF ParserInv, Settled
    <2>3. \A f \in TimepixFiles : f # current => fileCounts'[f] = Mark(nexus'[f], sliceCounts[f])
      BY <1>4, <2>1, <2>2
    <2>4. QED  BY <1>2, <1>3, <2>3 DEF Settled
  <1>7. sliceCounts[current] = R  BY <1>1, <1>2 DEF Rounds
  <1>8. fileCounts'[current] = Mark(nexus'[current], R) + sliceEvents'
    <2>1. Mark(nexus'[current], R) = Mark(nexus[current], R)  BY <1>3, <1>4, <1>7
    <2>2. fileCounts[current] = Mark(nexus[current], R) + sliceEvents  BY <1>1 DEF Rounds
    <2>3. fileCounts'[current] = fileCounts[current] + 1  BY <1>2, <1>3, <1>5
    <2>4. Mark(nexus[current], R) \in Nat
      <3>1. R \in 0..sliceCounts[current]  BY <1>7
      <3>2. QED  BY <1>3, <3>1, ParserFacts
    <2>5. QED  BY <1>2, <2>1, <2>2, <2>3, <2>4
  <1>9. parser' = "reading" => ~SliceEnded'
    BY <1>2 DEF SliceEnded, LastOfSlice
  <1>10. parser' = "marker" => buffered' = <<>> /\ (SliceEnded' \/ events' = Samples)
    BY <1>2 DEF SliceEnded, LastOfSlice
  <1>11. R # R + 1  OBVIOUS
  <1>12. \A f \in TimepixFiles : (f < current => sliceCounts[f] = R + 1) /\ (f > current => sliceCounts[f] = R)
    BY <1>1 DEF Rounds
  <1>13. Rounds(R)'
    BY <1>2, <1>3, <1>7, <1>8, <1>9, <1>10, <1>11, <1>12 DEF Rounds
  <1>14. QED  BY <1>6, <1>13

LEMMA EventBuffered ==
  ASSUME ParserInv, ReadEvent, ~Flushes(Append(buffered, events + 1))
  PROVE  ParserInv' /\ Grows
  <1>1. buffered' = Append(buffered, events + 1) /\ nexus' = nexus  BY DEF ReadEvent
  <1>2. /\ UNCHANGED <<numFiles, sliceCounts, current, sliceSize>>
        /\ sliceEvents' = sliceEvents + 1 /\ events' = events + 1
        /\ fileCounts' = [fileCounts EXCEPT ![current] = @ + 1]
        /\ Append(buffered, events + 1) \in Seq(Nat)
        /\ Len(Append(buffered, events + 1)) = Len(buffered) + 1
        /\ \A i \in 1..Len(buffered)+1 :
              Append(buffered, events + 1)[i] = events + 1 - (Len(buffered) + 1) + i
        /\ Len(buffered) <= sliceEvents /\ sliceEvents + 1 <= sliceSize[current]
        /\ ParserTypes' <=> buffered' \in Seq(Nat) /\ nexus' \in [TimepixFiles -> Files]
        /\ Counted'
    BY ReadEventFacts
  <1>3. PICK l \in Nat : l = Len(buffered)  BY ParserFacts
  <1>4. TimepixFiles' = TimepixFiles  BY <1>2 DEF TimepixFiles
  <1>5. ParserTypes'  BY <1>1, <1>2 DEF ParserInv, ParserTypes
  <1>6. \A f \in TimepixFiles : Written(f)' = Written(f) /\ Written(f) \in Nat /\ sliceCounts[f] \in Nat
    <2>1. SUFFICES ASSUME NEW f \in TimepixFiles
                   PROVE  Written(f)' = Written(f) /\ Written(f) \in Nat /\ sliceCounts[f] \in Nat
      OBVIOUS
    <2>2. fileCounts[f] \in Nat /\ Written(f) \in Nat /\ sliceCounts[f] \in Nat  BY ParserFacts
    <2>3. fileCounts \in [TimepixFiles -> Nat]  BY DEF ParserInv, ParserTypes
    <2>4. fileCounts'[f] = IF f = current THEN fileCounts[f] + 1 ELSE fileCounts[f]  BY <1>2, <2>3
    <2>5. Len(buffered') = l + 1  BY <1>1, <1>2, <1>3
    <2>6. QED  BY <1>2, <1>3, <2>2, <2>4, <2>5 DEF Written
  <1>7. Grows
    <2>1. \A f \in TimepixFiles : Keeps(nexus[f], nexus[f], sliceCounts[f], Written(f))
      BY Zenon DEF Keeps
    <2>2. QED  BY <1>1, <1>2, <1>6, <2>1 DEF Grows
  <1>8. Shapes'
    <2>1. \A f \in TimepixFiles : FileShape(nexus[f], sliceCounts[f], Written(f))
      BY DEF ParserInv, Shapes
    <2>2. \A f \in TimepixFiles' : FileShape(nexus'[f], sliceCounts'[f], Written(f)')
      BY <1>1, <1>2, <1>4, <1>6, <2>1, Zenon
    <2>3. QED  BY <2>2, Zenon DEF Shapes
  <1>9. Places'
    <2>1. \A f \in TimepixFiles : Placed(nexus, numFiles, f, sliceCounts[f], Written(f))
      BY DEF ParserInv, Places
    <2>2. \A f \in TimepixFiles' : Placed(nexus', numFiles', f, sliceCounts'[f], Written(f)')
      BY <1>1, <1>2, <1>4, <1>6, <2>1, Zenon
    <2>3. QED  BY <2>2, Zenon DEF Places
  <1>10. Starts'  BY <1>1, <1>2, <1>4 DEF ParserInv, Starts
  <1>11. Buffering'
    <2>1. Len(buffered') = l + 1 /\ l + 1 <= sliceEvents + 1  BY <1>1, <1>2, <1>3, ReadEventFacts
    <2>2. \A i \in 1..l+1 : buffered'[i] = events' - (l + 1) + i
      <3>1. \A i \in 1..l+1 : Append(buffered, events + 1)[i] = events + 1 - (l + 1) + i
        BY <1>2, <1>3, Zenon
      <3>2. events' = events + 1 /\ buffered' = Append(buffered, events + 1)  BY <1>1, <1>2
      <3>3. ASSUME NEW i \in 1..l+1 PROVE buffered'[i] = events' - (l + 1) + i
        <4>1. buffered'[i] = Append(buffered, events + 1)[i]  BY <3>2, Zenon
        <4>2. Append(buffered, events + 1)[i] = events + 1 - (l + 1) + i  BY <3>1, Zenon
        <4>3. PICK e \in Nat : e = events  BY ParserFacts
        <4>4. e + 1 - (l + 1) + i = (e + 1) - (l + 1) + i  OBVIOUS
        <4>5. QED  BY <3>2, <4>1, <4>2, <4>3, <4>4, Zenon
      <3>4. QED  BY <3>3, Zenon
    <2>3. QED  BY <1>2, <2>1, <2>2 DEF Buffering
  <1>12. ~LastOfSlice  BY DEF Flushes
  <1>13. Settled' /\ \E R \in Nat : Rounds(R)'  BY <1>7, <1>12, ReadEventRounds
  <1>14. QED  BY <1>2, <1>5, <1>7, <1>8, <1>9, <1>10, <1>11, <1>13 DEF ParserInv

LEMMA EventFlushed ==
  ASSUME ParserInv, ReadEvent, Flushes(Append(buffered, events + 1))
  PROVE  ParserInv' /\ Grows
  <1>1. /\ buffered' = <<>>
        /\ nexus' = [nexus EXCEPT ![current].event_id =
                       Resized(@, fileCounts[current] + 1, Append(buffered, events + 1))]
    BY DEF ReadEvent
  <1>2. /\ UNCHANGED <<numFiles, sliceCounts, current, sliceSize>>
        /\ sliceEvents' = sliceEvents + 1 /\ events' = events + 1
        /\ fileCounts' = [fileCounts EXCEPT ![current] = @ + 1]
        /\ Append(buffered, events + 1) \in Seq(Nat)
        /\ Len(Append(buffered, events + 1)) = Len(buffered) + 1
        /\ \A i \in 1..Len(buffered)+1 :
              Append(buffered, events + 1)[i] = events + 1 - (Len(buffered) + 1) + i
        /\ sliceEvents + 1 <= sliceSize[current] /\ sliceEvents \in Nat
        /\ ParserTypes' <=> buffered' \in Seq(Nat) /\ nexus' \in [TimepixFiles -> Files]
        /\ Counted'
    BY ReadEventFacts
  <1>3. PICK n \in Nat : n = numFiles /\ TimepixFiles = 0..n-1  BY ParserFacts
  <1>4. PICK c \in TimepixFiles : c = current  BY ParserFacts
  <1>5. PICK l \in Nat, fc \in Nat : l = Len(buffered) /\ fc = fileCounts[c]  BY <1>4, ParserFacts
  <1>6. PICK ids \in Seq(Nat) : ids = Append(buffered, events + 1) /\ Len(ids) = l + 1
        /\ \A i \in 1..l+1 : ids[i] = events + 1 - (l + 1) + i
    BY <1>2, <1>5
  <1>7. PICK file \in Files : file = nexus[c]  BY <1>4, ParserFacts
  <1>8. PICK w \in Nat : w = Written(c) /\ w = fc - l
    <2>1. Written(c) \in Nat  BY ParserFacts
    <2>2. Written(c) = fc - l  BY <1>4, <1>5 DEF Written
    <2>3. QED  BY <2>1, <2>2
  <1>9. PICK m \in Nat : m = sliceCounts[c]  BY <1>4, ParserFacts
  <1>10. FileShape(file, m, w)  BY <1>7, <1>8, <1>9 DEF ParserInv, Shapes
  <1>11. PICK data \in Seq(Nat) : data = file.event_id  BY DEF Files
  <1>12. w <= Len(data)
    <2>1. CASE w = 0  BY <1>11, <2>1
    <2>2. CASE w # 0
      <3>1. Len(data) = w  BY <1>10, <1>11, <2>2 DEF FileShape
      <3>2. QED  BY <3>1
    <2>3. QED  BY <2>1, <2>2
  <1>13. PICK new : new = Resized(data, fc + 1, ids)  OBVIOUS
  <1>14. /\ new \in Seq(Nat) /\ Len(new) = fc + 1
         /\ \A k \in 1..w : new[k] = data[k]
         /\ \A k \in 1..l+1 : new[w + k] = ids[k]
    <2>1. PICK a \in Nat, b \in Nat : a = fc + 1 /\ b = l + 1 /\ b <= a /\ a - b = w
      <3>1. l + 1 \in Nat /\ fc + 1 \in Nat /\ l + 1 <= fc + 1 /\ (fc + 1) - (l + 1) = w
        BY <1>8
      <3>2. QED  BY <3>1, Zenon
    <2>2. Len(ids) = b /\ new = Resized(data, a, ids)  BY <1>6, <1>13, <2>1, Zenon
    <2>3. IsResized(new, data, a, ids, b)  BY <2>1, <2>2, ResizedIs, Zenon
    <2>4. \A k \in 1..w : k \in 1..Len(data)  BY <1>12
    <2>5. QED  BY <2>1, <2>3, <2>4, Zenon DEF IsResized
  <1>15. PICK more : more = nexus'  OBVIOUS
  <1>16. /\ more[c].event_id = new /\ more[c].event_index = file.event_index /\ more[c] \in Files
         /\ \A g \in TimepixFiles : g # c => more[g] = nexus[g]
         /\ more \in [TimepixFiles -> Files]
    <2>1. nexus \in [TimepixFiles -> Files]  BY DEF ParserInv, ParserTypes
    <2>2. nexus' = [nexus EXCEPT ![c].event_id = new]
      BY <1>1, <1>4, <1>5, <1>6, <1>7, <1>11, <1>13
    <2>3. more[c] = [file EXCEPT !.event_id = new]  BY <1>7, <1>15, <2>1, <2>2
    <2>4. more[c] \in Files /\ more[c].event_id = new /\ more[c].event_index = file.event_index
      BY <1>14, <2>3 DEF Files
    <2>5. \A g \in TimepixFiles : g # c => more[g] = nexus[g]  BY <1>15, <2>1, <2>2
    <2>6. DOMAIN more = TimepixFiles /\ more = [g \in TimepixFiles |-> more[g]]
      BY <1>15, <2>1, <2>2
    <2>7. \A g \in TimepixFiles : more[g] \in Files  BY <2>1, <2>4, <2>5
    <2>8. QED  BY <2>4, <2>5, <2>6, <2>7
  <1>17. TimepixFiles' = TimepixFiles  BY <1>2 DEF TimepixFiles
  <1>18. ParserTypes'
    <2>1. buffered' \in Seq(Nat)  BY <1>1
    <2>2. QED  BY <1>2, <1>15, <1>16, <2>1
  <1>19. \A j : Mark(more[c], j) = Mark(file, j)  BY <1>16, Zenon DEF Mark
  <1>20. Written(c)' = fc + 1 /\ \A f \in TimepixFiles : f # c => Written(f)' = Written(f)
    <2>1. fileCounts \in [TimepixFiles -> Nat]  BY DEF ParserInv, ParserTypes
    <2>2. Len(buffered') = 0  BY <1>1
    <2>3. fileCounts'[c] = fc + 1 /\ \A f \in TimepixFiles : f # c => fileCounts'[f] = fileCounts[f]
      BY <1>2, <1>4, <1>5, <2>1
    <2>4. QED  BY <1>2, <1>4, <2>1, <2>2, <2>3 DEF Written
  <1>21. Grows
    <2>1. \A f \in TimepixFiles : sliceCounts[f] \in Nat /\ Written(f) \in Nat  BY ParserFacts
    <2>2. Keeps(file, more[c], m, w)  BY <1>11, <1>14, <1>16, <1>19, Zenon DEF Keeps
    <2>3. \A f \in TimepixFiles : f # c => Keeps(nexus[f], more[f], sliceCounts[f], Written(f))
      BY <1>16, Zenon DEF Keeps
    <2>4. \A f \in TimepixFiles : Keeps(nexus[f], nexus'[f], sliceCounts[f], Written(f))
      BY <1>7, <1>8, <1>9, <1>15, <2>2, <2>3, Zenon
    <2>5. w <= fc + 1  BY <1>8
    <2>6. \A f \in TimepixFiles : Written(f)' \in Int /\ Written(f) <= Written(f)'
      <3>1. SUFFICES ASSUME NEW f \in TimepixFiles
                     PROVE  Written(f)' \in Int /\ Written(f) <= Written(f)'
        OBVIOUS
      <3>2. CASE f = c
        <4>1. Written(f)' = fc + 1 /\ Written(f) = w  BY <1>8, <1>20, <3>2, Zenon
        <4>2. QED  BY <2>5, <4>1
      <3>3. CASE f # c
        <4>1. Written(f)' = Written(f)  BY <1>20, <3>3, Zenon
        <4>2. PICK x \in Nat : x = Written(f)  BY <2>1
        <4>3. QED  BY <4>1, <4>2
      <3>4. QED  BY <3>2, <3>3
    <2>7. QED  BY <1>2, <2>1, <2>4, <2>6 DEF Grows
  <1>22. Shapes'
    <2>1. FileShape(more[c], m, fc + 1)
      <3>1. fc + 1 # 0  OBVIOUS
      <3>2. \A j \in 0..m : Mark(file, j) \in Nat  BY <1>7, <1>9, ParserFacts
      <3>3. m \in 0..m  OBVIOUS
      <3>4. Mark(file, m) <= w /\ Mark(file, m) \in Nat  BY <1>10, <3>2, <3>3 DEF FileShape
      <3>5. Mark(more[c], m) <= fc + 1  BY <1>8, <1>19, <3>4
      <3>6. IF m = 0 THEN more[c].event_index = <<0>> ELSE Len(more[c].event_index) = m
        BY <1>10, <1>16 DEF FileShape
      <3>7. \A i, j \in 0..m : i <= j => Mark(more[c], i) <= Mark(more[c], j)
        BY <1>10, <1>19 DEF FileShape
      <3>8. QED  BY <1>14, <1>16, <3>1, <3>5, <3>6, <3>7 DEF FileShape
    <2>2. \A f \in TimepixFiles : f # c => FileShape(more[f], sliceCounts[f], Written(f))
      BY <1>16 DEF ParserInv, Shapes
    <2>3. \A f \in TimepixFiles : FileShape(nexus'[f], sliceCounts[f], Written(f)')
      BY <1>9, <1>15, <1>20, <2>1, <2>2, Zenon
    <2>4. QED  BY <1>2, <1>17, <2>3, Zenon DEF Shapes
  <1>23. Places'
    <2>1. \A f \in TimepixFiles : Placed(more, n, f, sliceCounts[f], Written(f))
      BY <1>3, <1>15, <1>21, PlacedStays
    <2>2. Placed(more, n, c, m, fc + 1)
      <3>1. SUFFICES ASSUME NEW j \in 1..m+1, NEW p \in PlacesOf(more[c], j, m, fc + 1)
                     PROVE  new[p] = p + Others(more, n, c, j)
        BY <1>16, Zenon DEF Placed, PlacesOf
      <3>2. \A q \in PlacesOf(more[c], j, m, w) : new[q] = q + Others(more, n, c, j)
        BY <1>8, <1>9, <1>16, <2>1, Zenon DEF Placed, PlacesOf
      <3>3. CASE j <= m
        <4>1. PlacesOf(more[c], j, m, fc + 1) = PlacesOf(more[c], j, m, w)
          BY <3>3, Zenon DEF PlacesOf, EndOf
        <4>2. QED  BY <3>2, <4>1, Zenon
      <3>4. CASE j = m + 1
        <4>1. ~(m + 1 <= m) /\ (m + 1) - 1 = m  OBVIOUS
        <4>2. PlacesOf(more[c], j, m, fc + 1) = (Mark(file, m) + 1)..(fc + 1)
              /\ PlacesOf(more[c], j, m, w) = (Mark(file, m) + 1)..w
          BY <1>19, <3>4, <4>1, Zenon DEF PlacesOf, EndOf
        <4>3. Mark(file, m) \in Nat
          <5>1. m \in 0..m  OBVIOUS
          <5>2. QED  BY <1>4, <1>7, <1>9, <5>1, ParserFacts
        <4>4. p \in Nat /\ p <= fc + 1 /\ Mark(file, m) + 1 <= p  BY <4>2, <4>3
        <4>5. CASE p <= w
          <5>1. p \in PlacesOf(more[c], j, m, w)  BY <4>2, <4>3, <4>4, <4>5
          <5>2. QED  BY <3>2, <5>1
        <4>6. CASE ~(p <= w)
          <5>1. p - w \in 1..l+1 /\ w + (p - w) = p  BY <1>8, <4>4, <4>6
          <5>2. new[p] = ids[p - w]  BY <1>14, <5>1
          <5>3. ids[p - w] = events + 1 - (l + 1) + (p - w)  BY <1>6, <5>1
          <5>4. PICK R \in Nat : Rounds(R)  BY DEF ParserInv
          <5>5. m = R
            <6>1. parser = "reading" /\ ~SliceEnded  BY ReadEventFacts
            <6>2. QED  BY <1>4, <1>9, <5>4, <6>1 DEF Rounds
          <5>6. Others(nexus, n, c, j) \in Nat /\ events = Others(nexus, n, c, j) + fc
            BY <1>3, <1>4, <1>5, <3>4, <5>4, <5>5, EventsAre
          <5>7. Others(more, n, c, j) = Others(nexus, n, c, j)
            <6>1. \A g \in 0..n-1 : g # c =>
                    Mark(more[g], SlicesOf(g, c, j)) = Mark(nexus[g], SlicesOf(g, c, j))
              BY <1>3, <1>16, Zenon
            <6>2. QED  BY <6>1, OthersSame
          <5>8. events \in Nat  BY ParserFacts
          <5>9. new[p] = p + Others(nexus, n, c, j)
            <6>1. PICK o \in Nat : o = Others(nexus, n, c, j) /\ events = o + fc  BY <5>6
            <6>2. w = fc - l  BY <1>8
            <6>3. \A x, q \in Nat : (x + fc) + 1 - (l + 1) + (q - (fc - l)) = q + x  OBVIOUS
            <6>4. new[p] = (o + fc) + 1 - (l + 1) + (p - (fc - l))
              BY <5>2, <5>3, <6>1, <6>2, Zenon
            <6>5. QED  BY <4>4, <6>1, <6>3, <6>4
          <5>10. QED  BY <5>7, <5>9, Zenon
        <4>7. QED  BY <4>5, <4>6
      <3>5. QED  BY <3>3, <3>4
    <2>3. \A f \in TimepixFiles : Placed(nexus', n, f, sliceCounts[f], Written(f)')
      BY <1>9, <1>15, <1>20, <2>1, <2>2, Zenon
    <2>4. QED  BY <1>2, <1>3, <1>17, <2>3, Zenon DEF Places
  <1>24. Starts'
    <2>1. \A f \in TimepixFiles : Mark(nexus'[f], 1) = Mark(nexus[f], 1)
      BY <1>7, <1>15, <1>16, <1>19, Zenon
    <2>2. QED  BY <1>2, <1>17, <2>1 DEF ParserInv, Starts
  <1>25. Buffering'
    <2>1. Len(buffered') = 0  BY <1>1
    <2>2. QED  BY <1>2, <2>1 DEF Buffering
  <1>26. Settled' /\ \E R \in Nat : Rounds(R)'  BY <1>1, <1>21, ReadEventRounds
  <1>27. QED  BY <1>2, <1>18, <1>21, <1>22, <1>23, <1>24, <1>25, <1>26 DEF ParserInv
-----------------------------------------------------------------------------
LEMMA MarkerKeeps ==
  ASSUME ParserInv, WriteMarker
  PROVE  ParserInv' /\ Grows
  <1>1. /\ parser = "marker" /\ parser' = IF events = Samples THEN "closed" ELSE "reading"
        /\ UNCHANGED <<numFiles, events, current, sliceEvents, sliceSize, buffered, fileCounts>>
        /\ sliceCounts' = [sliceCounts EXCEPT ![current] = @ + 1]
        /\ nexus' = [nexus EXCEPT ![current].event_index =
                       Resized(@, sliceCounts[current] + 1, <<fileCounts[current]>>)]
    BY DEF WriteMarker, input, slice
  <1>2. PICK R \in Nat : Rounds(R)  BY DEF ParserInv
  <1>3. PICK n \in Nat : n = numFiles /\ TimepixFiles = 0..n-1  BY ParserFacts
  <1>4. PICK c \in TimepixFiles : c = current  BY ParserFacts
  <1>5. PICK fc \in Nat : fc = fileCounts[c]  BY <1>4, ParserFacts
  <1>6. PICK file \in Files : file = nexus[c]  BY <1>4, ParserFacts
  <1>7. /\ sliceCounts[c] = R /\ buffered = <<>> /\ (SliceEnded \/ events = Samples)
        /\ fc = Mark(file, R) + sliceEvents
    BY <1>1, <1>2, <1>4, <1>5, <1>6 DEF Rounds
  <1>8. Written(c) = fc
    <2>1. Len(buffered) = 0  BY <1>7
    <2>2. QED  BY <1>4, <1>5, <2>1 DEF Written
  <1>9. FileShape(file, R, fc)  BY <1>6, <1>7, <1>8 DEF ParserInv, Shapes
  <1>10. PICK ix \in Seq(Nat) : ix = file.event_index  BY DEF Files
  <1>11. R <= Len(ix)
    <2>1. CASE R = 0  BY <2>1
    <2>2. CASE R # 0
      <3>1. Len(ix) = R  BY <1>9, <1>10, <2>2 DEF FileShape
      <3>2. QED  BY <3>1
    <2>3. QED  BY <2>1, <2>2
  <1>12. PICK new : new = Resized(ix, R + 1, <<fc>>)  OBVIOUS
  <1>13. /\ new \in Seq(Nat) /\ Len(new) = R + 1 /\ new[R + 1] = fc
         /\ \A k \in 1..R : new[k] = ix[k]
    <2>1. <<fc>> \in Seq(Nat) /\ Len(<<fc>>) = 1 /\ <<fc>>[1] = fc  OBVIOUS
    <2>2. PICK a \in Nat, b \in Nat : a = R + 1 /\ b = 1 /\ b <= a /\ a - b = R
      <3>1. R + 1 \in Nat /\ 1 \in Nat /\ 1 <= R + 1 /\ (R + 1) - 1 = R  OBVIOUS
      <3>2. QED  BY <3>1, Zenon
    <2>3. PICK one \in Seq(Nat) : one = <<fc>> /\ Len(one) = b /\ one[b] = fc  BY <2>1, <2>2
    <2>4. IsResized(new, ix, a, one, b)  BY <1>12, <2>2, <2>3, ResizedIs, Zenon
    <2>5. \A k \in 1..R : k \in 1..Len(ix)  BY <1>11
    <2>6. b \in 1..b /\ R + b = R + 1  BY <2>2
    <2>7. QED  BY <2>2, <2>3, <2>4, <2>5, <2>6, Zenon DEF IsResized
  <1>14. PICK more : more = nexus'  OBVIOUS
  <1>15. /\ more[c].event_index = new /\ more[c].event_id = file.event_id /\ more[c] \in Files
         /\ \A g \in TimepixFiles : g # c => more[g] = nexus[g]
         /\ more \in [TimepixFiles -> Files]
    <2>1. nexus \in [TimepixFiles -> Files]  BY DEF ParserInv, ParserTypes
    <2>2. nexus' = [nexus EXCEPT ![c].event_index = new]
      BY <1>1, <1>4, <1>5, <1>6, <1>7, <1>10, <1>12
    <2>3. more[c] = [file EXCEPT !.event_index = new]  BY <1>6, <1>14, <2>1, <2>2
    <2>4. more[c] \in Files /\ more[c].event_index = new /\ more[c].event_id = file.event_id
      BY <1>13, <2>3 DEF Files
    <2>5. \A g \in TimepixFiles : g # c => more[g] = nexus[g]  BY <1>14, <2>1, <2>2
    <2>6. DOMAIN more = TimepixFiles /\ more = [g \in TimepixFiles |-> more[g]]
      BY <1>14, <2>1, <2>2
    <2>7. \A g \in TimepixFiles : more[g] \in Files  BY <2>1, <2>4, <2>5
    <2>8. QED  BY <2>4, <2>5, <2>6, <2>7
  <1>16. /\ TimepixFiles' = TimepixFiles
         /\ sliceCounts'[c] = R + 1 /\ \A g \in TimepixFiles : g # c => sliceCounts'[g] = sliceCounts[g]
         /\ sliceCounts' \in [TimepixFiles -> Nat]
    <2>1. sliceCounts \in [TimepixFiles -> Nat]  BY DEF ParserInv, ParserTypes
    <2>2. TimepixFiles' = TimepixFiles  BY <1>1 DEF TimepixFiles
    <2>3. QED  BY <1>1, <1>4, <1>7, <2>1, <2>2
  <1>17. ParserTypes'
    <2>1. parser' \in {"reading", "marker", "closed", "dead"}  BY <1>1
    <2>2. more = nexus'  BY <1>14
    <2>3. QED  BY <1>1, <1>15, <1>16, <2>1, <2>2 DEF ParserInv, ParserTypes
  <1>18. Mark(more[c], R + 1) = fc /\ \A j \in 0..R : Mark(more[c], j) = Mark(file, j)
    <2>1. R + 1 # 0 /\ \A j \in 0..R : j # 0 => j \in 1..R  OBVIOUS
    <2>2. Mark(more[c], R + 1) = fc  BY <1>13, <1>15, <2>1 DEF Mark
    <2>3. \A j \in 0..R : Mark(more[c], j) = Mark(file, j)
      BY <1>10, <1>13, <1>15, <2>1, Zenon DEF Mark
    <2>4. QED  BY <2>2, <2>3
  <1>19. \A j \in 0..R : Mark(file, j) \in Nat  BY <1>6, <1>7, ParserFacts
  <1>20. \A f \in TimepixFiles : Written(f)' = Written(f)  BY <1>1 DEF Written
  <1>21. Grows
    <2>1. \A f \in TimepixFiles : sliceCounts[f] \in Nat /\ Written(f) \in Nat  BY ParserFacts
    <2>2. Keeps(file, more[c], R, fc)  BY <1>15, <1>18, Zenon DEF Keeps
    <2>3. \A f \in TimepixFiles : f # c => Keeps(nexus[f], more[f], sliceCounts[f], Written(f))
      BY <1>15, Zenon DEF Keeps
    <2>4. \A f \in TimepixFiles : Keeps(nexus[f], nexus'[f], sliceCounts[f], Written(f))
      BY <1>6, <1>7, <1>8, <1>14, <2>2, <2>3, Zenon
    <2>5. \A f \in TimepixFiles : sliceCounts'[f] \in Nat /\ sliceCounts[f] <= sliceCounts'[f]
      BY <1>7, <1>16, <2>1
    <2>6. \A f \in TimepixFiles : Written(f)' \in Int /\ Written(f) <= Written(f)'
      BY <1>20, <2>1
    <2>7. QED  BY <1>1, <2>4, <2>5, <2>6 DEF Grows
  <1>22. Shapes'
    <2>1. FileShape(more[c], R + 1, fc)
      <3>1. IF fc = 0 THEN Len(more[c].event_id) = 1 ELSE Len(more[c].event_id) = fc
        BY <1>9, <1>15 DEF FileShape
      <3>2. R + 1 # 0 /\ Len(more[c].event_index) = R + 1  BY <1>13, <1>15
      <3>3. \A i, j \in 0..R : i <= j => Mark(more[c], i) <= Mark(more[c], j)
        BY <1>9, <1>18 DEF FileShape
      <3>4. \A i \in 0..R : Mark(more[c], i) <= fc
        <4>1. \A i \in 0..R : Mark(file, i) <= Mark(file, R)
          <5>1. \A i \in 0..R : R \in 0..R /\ i <= R  OBVIOUS
          <5>2. QED  BY <1>9, <5>1 DEF FileShape
        <4>2. Mark(file, R) <= fc  BY <1>9 DEF FileShape
        <4>3. R \in 0..R  OBVIOUS
        <4>4. QED  BY <1>18, <1>19, <4>1, <4>2, <4>3
      <3>5. \A i, j \in 0..R+1 : i <= j => Mark(more[c], i) <= Mark(more[c], j)
        <4>1. SUFFICES ASSUME NEW i \in 0..R+1, NEW j \in 0..R+1, i <= j
                       PROVE  Mark(more[c], i) <= Mark(more[c], j)
          OBVIOUS
        <4>2. CASE j \in 0..R
          <5>1. i \in 0..R  BY <4>1, <4>2
          <5>2. QED  BY <3>3, <4>1, <4>2, <5>1
        <4>3. CASE j = R + 1
          <5>1. i = R + 1 \/ i \in 0..R  OBVIOUS
          <5>2. QED  BY <1>18, <3>4, <4>3, <5>1
        <4>4. j \in 0..R \/ j = R + 1  OBVIOUS
        <4>5. QED  BY <4>2, <4>3, <4>4
      <3>6. Mark(more[c], R + 1) <= fc  BY <1>18
      <3>7. QED  BY <3>1, <3>2, <3>5, <3>6 DEF FileShape
    <2>2. \A f \in TimepixFiles : f # c => FileShape(more[f], sliceCounts[f], Written(f))
      BY <1>15 DEF ParserInv, Shapes
    <2>3. \A f \in TimepixFiles : FileShape(nexus'[f], sliceCounts'[f], Written(f)')
      BY <1>8, <1>14, <1>16, <1>20, <2>1, <2>2, Zenon
    <2>4. QED  BY <1>16, <2>3, Zenon DEF Shapes
  <1>23. Places'
    <2>1. \A f \in TimepixFiles : Placed(more, n, f, sliceCounts[f], Written(f))
      BY <1>3, <1>14, <1>21, PlacedStays
    <2>2. Placed(more, n, c, R + 1, fc)
      <3>1. SUFFICES ASSUME NEW j \in 1..R+2, NEW p \in PlacesOf(more[c], j, R + 1, fc)
                     PROVE  more[c].event_id[p] = p + Others(more, n, c, j)
        <4>1. R + 2 = (R + 1) + 1  OBVIOUS
        <4>2. QED  BY <3>1, <4>1, Zenon DEF Placed, PlacesOf
      <3>2. \A i \in 1..R+1 : \A q \in PlacesOf(more[c], i, R, fc) :
              more[c].event_id[q] = q + Others(more, n, c, i)
        BY <1>7, <1>8, <2>1, Zenon DEF Placed, PlacesOf
      <3>3. CASE j <= R
        <4>1. j <= R + 1 /\ j \in 1..R+1  BY <3>3
        <4>2. PlacesOf(more[c], j, R + 1, fc) = PlacesOf(more[c], j, R, fc)
          BY <3>3, <4>1, Zenon DEF PlacesOf, EndOf
        <4>3. QED  BY <3>2, <4>1, <4>2, Zenon
      <3>4. CASE j = R + 1
        <4>1. R + 1 <= R + 1 /\ ~(R + 1 <= R) /\ j \in 1..R+1  BY <3>4
        <4>2. PlacesOf(more[c], j, R + 1, fc) = PlacesOf(more[c], j, R, fc)
          BY <1>18, <3>4, <4>1, Zenon DEF PlacesOf, EndOf
        <4>3. QED  BY <3>2, <4>1, <4>2, Zenon
      <3>5. CASE j = R + 2
        <4>1. ~(R + 2 <= R + 1) /\ (R + 2) - 1 = R + 1  OBVIOUS
        <4>2. PlacesOf(more[c], j, R + 1, fc) = (fc + 1)..fc
          BY <1>18, <3>5, <4>1, Zenon DEF PlacesOf, EndOf
        <4>3. (fc + 1)..fc = {}  OBVIOUS
        <4>4. QED  BY <4>2, <4>3
      <3>6. j <= R \/ j = R + 1 \/ j = R + 2  OBVIOUS
      <3>7. QED  BY <3>3, <3>4, <3>5, <3>6
    <2>3. \A f \in TimepixFiles : Placed(nexus', n, f, sliceCounts'[f], Written(f)')
      BY <1>8, <1>14, <1>16, <1>20, <2>1, <2>2, Zenon
    <2>4. QED  BY <1>1, <1>3, <1>16, <2>3, Zenon DEF Places
  <1>24. Starts'
    <2>1. Small(Mark(more[c], 1))
      <3>1. CASE R = 0
        <4>1. Mark(more[c], 1) = fc  BY <1>18, <3>1
        <4>2. Mark(file, 0) = 0  BY DEF Mark
        <4>3. sliceEvents \in Nat /\ sliceSize[c] \in SliceSizes /\ sliceEvents <= sliceSize[c]
          BY <1>4 DEF ParserInv, ParserTypes, Buffering
        <4>4. fc = sliceEvents  BY <1>7, <3>1, <4>2, <4>3
        <4>5. sliceSize[c] \in Nat /\ Small(sliceSize[c])  BY <4>3, SizesSmall
        <4>6. Small(sliceEvents)  BY <4>3, <4>5, SmallLess
        <4>7. QED  BY <4>1, <4>4, <4>6
      <3>2. CASE R # 0
        <4>1. R >= 1 /\ 1 \in 0..R  BY <3>2
        <4>2. Mark(more[c], 1) = Mark(file, 1)  BY <1>18, <4>1
        <4>3. Small(Mark(file, 1))  BY <1>6, <1>7, <4>1 DEF ParserInv, Starts
        <4>4. QED  BY <4>2, <4>3
      <3>3. QED  BY <3>1, <3>2
    <2>2. \A f \in TimepixFiles : f # c => (sliceCounts[f] >= 1 => Small(Mark(more[f], 1)))
      BY <1>15 DEF ParserInv, Starts
    <2>3. \A f \in TimepixFiles : sliceCounts'[f] >= 1 => Small(Mark(nexus'[f], 1))
      BY <1>14, <1>16, <2>1, <2>2, Zenon
    <2>4. QED  BY <1>16, <2>3, Zenon DEF Starts
  <1>25. Buffering' /\ Counted'  BY <1>1, <1>16 DEF ParserInv, Buffering, Counted
  <1>26. Settled'
    <2>1. \A f \in TimepixFiles : f # c => fileCounts[f] = Mark(more[f], sliceCounts'[f])
      BY <1>4, <1>15, <1>16 DEF ParserInv, Settled
    <2>2. QED  BY <1>1, <1>4, <1>14, <1>16, <2>1, Zenon DEF Settled
  <1>27. Rounds(R)'
    <2>1. \A f \in TimepixFiles : (f < c => sliceCounts'[f] = R + 1) /\ (f > c => sliceCounts'[f] = R)
      <3>1. \A f \in TimepixFiles : (f < c => sliceCounts[f] = R + 1) /\ (f > c => sliceCounts[f] = R)
        BY <1>2, <1>4 DEF Rounds
      <3>2. \A f \in TimepixFiles : f < c \/ f > c => f # c  BY <1>3
      <3>3. QED  BY <1>16, <3>1, <3>2
    <2>2. fc = Mark(more[c], R) + sliceEvents
      <3>1. R \in 0..R  OBVIOUS
      <3>2. QED  BY <1>7, <1>18, <3>1
    <2>3. parser' # "marker" /\ (parser' = "reading" => SliceEnded)  BY <1>1, <1>7
    <2>4. SliceEnded' = SliceEnded  BY <1>1 DEF SliceEnded
    <2>5. more = nexus'  BY <1>14
    <2>6. QED
      BY <1>1, <1>4, <1>5, <1>7, <1>16, <1>18, <2>1, <2>2, <2>3, <2>4, <2>5 DEF Rounds
  <1>28. \E Q \in Nat : Rounds(Q)'  BY <1>27
  <1>29. QED  BY <1>17, <1>21, <1>22, <1>23, <1>24, <1>25, <1>26, <1>28 DEF ParserInv

LEMMA ParserKeeps ==
  ASSUME ParserInv, Parser
  PROVE  ParserInv' /\ Grows
  <1>1. CASE NextSlice  BY <1>1, NextSliceKeeps
  <1>2. CASE ReadError \/ EndOfStack \/ ReadOther  BY <1>2, OthersKeep
  <1>3. CASE ReadEvent  BY <1>3, EventBuffered, EventFlushed
  <1>4. CASE WriteMarker  BY <1>4, MarkerKeeps
  <1>5. QED  BY <1>1, <1>2, <1>3, <1>4 DEF Parser
-----------------------------------------------------------------------------
(* The monitor.  A number of the top level dataset stays right while the     *)
(* files grow, and the pointers stay at marks.                               *)
LEMMA SourcesType ==
  ASSUME ParserInv, NEW bs \in Seq(AllBlocks)
  PROVE  SourceSeqs(bs) \in Seq(Seq(AllSources)) /\ FlattenSeq(SourceSeqs(bs)) \in Seq(AllSources)
  <1>1. ASSUME NEW b \in AllBlocks PROVE Sources(b) \in Seq(AllSources) /\ Len(Sources(b)) = b.qty
    <2>1. b.qty \in Nat /\ b.file \in TimepixFiles /\ b.offset \in Nat  BY DEF AllBlocks
    <2>2. \A k \in 1..b.qty : [file |-> b.file, place |-> b.offset + k] \in AllSources
      BY <2>1 DEF AllSources
    <2>3. Sources(b) \in [1..b.qty -> AllSources]  BY <2>2 DEF Sources
    <2>4. QED  BY <2>1, <2>3
  <1>2. PICK T : T = Seq(AllSources)  OBVIOUS
  <1>3. \A k \in 1..Len(bs) : Sources(bs[k]) \in T
    <2>1. \A k \in 1..Len(bs) : bs[k] \in AllBlocks  OBVIOUS
    <2>2. QED  BY <1>1, <1>2, <2>1, Zenon
  <1>4. SourceSeqs(bs) \in Seq(T)
    <2>1. DOMAIN bs = 1..Len(bs) /\ Len(bs) \in Nat  OBVIOUS
    <2>2. SourceSeqs(bs) = [k \in 1..Len(bs) |-> Sources(bs[k])]  BY <2>1, Zenon DEF SourceSeqs
    <2>3. SourceSeqs(bs) \in [1..Len(bs) -> T]  BY <1>3, <2>2
    <2>4. QED  BY <2>1, <2>3
  <1>5. SourceSeqs(bs) \in Seq(Seq(AllSources))  BY <1>2, <1>4, Zenon
  <1>6. QED  BY <1>5, FlattenType, Zenon

LEMMA RightKept ==
  ASSUME ParserInv, Grows, NEW src \in AllSources, NEW k, Right(src, k)
  PROVE  Right(src, k)'
  <1>1. PICK f \in TimepixFiles, p \in Nat : f = src.file /\ p = src.place  BY DEF AllSources
  <1>2. p \in 1..Written(f) /\ nexus[f].event_id[p] = k  BY <1>1 DEF Right
  <1>3. PICK w \in Nat : w = Written(f)  BY ParserFacts
  <1>4. PICK v \in Int : v = Written(f)' /\ w <= v  BY <1>3 DEF Grows
  <1>5. Keeps(nexus[f], nexus'[f], sliceCounts[f], w)  BY <1>3, Zenon DEF Grows
  <1>6. p \in 1..v /\ p \in 1..w  BY <1>2, <1>3, <1>4
  <1>7. nexus'[f].event_id[p] = k  BY <1>2, <1>5, <1>6, Zenon DEF Keeps
  <1>8. src.place \in 1..Written(src.file)'  BY <1>1, <1>4, <1>6, Zenon
  <1>9. QED  BY <1>1, <1>7, <1>8, Zenon DEF Right

LEMMA MonitorStays ==
  ASSUME ParserInv, MonitorInv, Grows, UNCHANGED monitorVars
  PROVE  MonitorInv'
  <1>1. /\ UNCHANGED <<monitor, taken, reading, eventPtrs, slicePtrs, eventQty, toRead, blocks, timepixVds>>
        /\ numFiles' = numFiles
    BY DEF monitorVars, Grows
  <1>2. TimepixFiles' = TimepixFiles  BY <1>1 DEF TimepixFiles
  <1>3. AllBlocks' = AllBlocks /\ AllSources' = AllSources  BY <1>2 DEF AllBlocks, AllSources
  <1>4. MonitorTypes'  BY <1>1, <1>2, <1>3 DEF MonitorInv, MonitorTypes
  <1>5. \E Q \in Nat : Turns(Q)'
    <2>1. PICK Q \in Nat : Turns(Q)  BY DEF MonitorInv
    <2>2. Turns(Q)'  BY <1>1, <1>2, <2>1 DEF Turns
    <2>3. QED  BY <2>2
  <1>6. \A f \in TimepixFiles : sliceCounts[f] \in Nat /\ sliceCounts'[f] \in Nat /\ sliceCounts[f] <= sliceCounts'[f]
    BY ParserFacts DEF Grows
  <1>7. Pointers'
    <2>1. SUFFICES ASSUME NEW f \in TimepixFiles
                   PROVE  /\ slicePtrs[f] <= sliceCounts'[f]
                          /\ eventPtrs[f] >= Mark(nexus'[f], slicePtrs[f])
                          /\ eventPtrs[f] # Mark(nexus'[f], slicePtrs[f]) =>
                               f = reading /\ slicePtrs[f] + 1 <= sliceCounts'[f]
                               /\ eventPtrs[f] <= Mark(nexus'[f], slicePtrs[f] + 1)
      BY <1>1, <1>2 DEF Pointers
    <2>2. PICK s \in Nat, e \in Nat : s = slicePtrs[f] /\ e = eventPtrs[f]
      BY DEF MonitorInv, MonitorTypes
    <2>3. PICK a \in Nat, b \in Nat : a = sliceCounts[f] /\ b = sliceCounts'[f] /\ a <= b  BY <1>6
    <2>4. /\ s <= a /\ e >= Mark(nexus[f], s)
          /\ e # Mark(nexus[f], s) => f = reading /\ s + 1 <= a /\ e <= Mark(nexus[f], s + 1)
      BY <2>2, <2>3 DEF MonitorInv, Pointers
    <2>5. \A j \in 0..a : Mark(nexus'[f], j) = Mark(nexus[f], j)  BY <2>3, Zenon DEF Grows, Keeps
    <2>6. s \in 0..a /\ (s + 1 <= a => s + 1 \in 0..a)  BY <2>4
    <2>7. Mark(nexus'[f], s) = Mark(nexus[f], s)
          /\ (s + 1 <= a => Mark(nexus'[f], s + 1) = Mark(nexus[f], s + 1))
      BY <2>5, <2>6, Zenon
    <2>8. s <= b /\ (s + 1 <= a => s + 1 <= b)  BY <2>3, <2>4
    <2>9. QED  BY <2>2, <2>3, <2>4, <2>7, <2>8, Zenon
  <1>8. Looks'
    <2>1. AllMarked => AllMarked'  BY <1>2, <1>6 DEF AllMarked
    <2>2. QED  BY <1>1, <2>1 DEF MonitorInv, Looks
  <1>9. Taken'  BY <1>1, <1>2 DEF MonitorInv, Taken, InBlock
  <1>10. Shown \in Seq(AllSources)  BY SourcesType, Zenon DEF MonitorInv, MonitorTypes, Shown
  <1>11. BlockRight'
    <2>1. Shown' = Shown  BY <1>1 DEF Shown, SourceSeqs
    <2>2. InBlock' = InBlock  BY <1>1 DEF InBlock
    <2>3. ASSUME monitor = "block", NEW i \in 1..Len(Shown) PROVE Right(Shown[i], taken + i)'
      <3>1. PICK src \in AllSources : src = Shown[i]  BY <1>10
      <3>2. PICK k : k = taken + i  OBVIOUS
      <3>3. Right(src, k)  BY <2>3, <3>1, <3>2 DEF MonitorInv, BlockRight
      <3>4. Right(src, k)'  BY <3>3, RightKept
      <3>5. QED  BY <1>1, <2>1, <3>1, <3>2, <3>4, Zenon DEF Right
    <2>4. QED  BY <1>1, <2>1, <2>2, <2>3, Zenon DEF MonitorInv, BlockRight
  <1>12. VdsRight'
    <2>1. timepixVds \in Seq(AllSources)  BY DEF MonitorInv, MonitorTypes
    <2>2. ASSUME NEW k \in 1..Len(timepixVds) PROVE Right(timepixVds[k], k)'
      <3>1. PICK src \in AllSources : src = timepixVds[k]  BY <2>1
      <3>2. Right(src, k)  BY <3>1 DEF MonitorInv, VdsRight
      <3>3. Right(src, k)'  BY <3>2, RightKept
      <3>4. QED  BY <1>1, <3>1, <3>3, Zenon DEF Right
    <2>3. QED  BY <1>1, <2>2, Zenon DEF MonitorInv, VdsRight
  <1>13. QED  BY <1>4, <1>5, <1>7, <1>8, <1>9, <1>11, <1>12 DEF MonitorInv
-----------------------------------------------------------------------------
(* While the first slice of a file has no mark yet, no file has more than    *)
(* one slice, and they are no block together.                                *)
SizeSums(g, files, S) ==
  g = [s \in SUBSET S |-> IF s = {} THEN 0
                          ELSE Len(files[CHOOSE x \in s : TRUE].event_id) + g[s \ {CHOOSE x \in s : TRUE}]]

LEMMA SizesAre ==
  ASSUME NEW S, IsFiniteSet(S), NEW v, \A f \in S : v[f] = Len(nexus[f].event_id)
  PROVE  MapThenSumSet(LAMBDA f : Len(nexus[f].event_id), S) = SumOf(v, S)
  <1>1. PICK g : g = CHOOSE f : SizeSums(f, nexus, S)  OBVIOUS
  <1>2. MapThenSumSet(LAMBDA f : Len(nexus[f].event_id), S) = g[S]
    BY <1>1, Zenon DEF MapThenSumSet, MapThenFoldSet, SizeSums
  <1>3. \A s \in SUBSET S : s # {} =>
          v[CHOOSE x \in s : TRUE] = Len(nexus[CHOOSE x \in s : TRUE].event_id)
    <2>1. \A s \in SUBSET S : s # {} => (CHOOSE x \in s : TRUE) \in S  OBVIOUS
    <2>2. QED  BY <2>1, Zenon
  <1>4. ASSUME NEW f PROVE SizeSums(f, nexus, S) <=> Sums(f, v, S)
    <2>1. ASSUME NEW s \in SUBSET S
          PROVE  (IF s = {} THEN 0
                  ELSE Len(nexus[CHOOSE x \in s : TRUE].event_id) + f[s \ {CHOOSE x \in s : TRUE}])
                   = IF s = {} THEN 0
                     ELSE v[CHOOSE x \in s : TRUE] + f[s \ {CHOOSE x \in s : TRUE}]
      <3>1. PICK y : y = CHOOSE x \in s : TRUE  OBVIOUS
      <3>2. s # {} => Len(nexus[y].event_id) = v[y]  BY <1>3, <3>1, Zenon
      <3>3. (IF s = {} THEN 0 ELSE Len(nexus[y].event_id) + f[s \ {y}])
              = IF s = {} THEN 0 ELSE v[y] + f[s \ {y}]
        BY <3>2
      <3>4. QED  BY <3>1, <3>3, Zenon
    <2>2. QED  BY <2>1, Zenon DEF SizeSums, Sums
  <1>5. PICK f : Sums(f, v, S)  BY SumsExists
  <1>6. Sums(g, v, S)  BY <1>1, <1>4, <1>5, Zenon
  <1>7. g[S] = SumOf(v, S)  BY <1>6, SumOfIs
  <1>8. QED  BY <1>2, <1>7

LEMMA BlocksMarked ==
  ASSUME ParserInv, NEW v, \A f \in TimepixFiles : v[f] = Len(nexus[f].event_id),
         SumOf(v, TimepixFiles) >= VdsBlock
  PROVE  AllMarked
  <1>1. SUFFICES ASSUME NEW f \in TimepixFiles, ~(sliceCounts[f] >= 1) PROVE FALSE  BY DEF AllMarked
  <1>2. PICK n \in Nat \ {0} : n = numFiles /\ n <= NexusFiles /\ TimepixFiles = 0..n-1
    BY ParserFacts DEF ParserInv, ParserTypes
  <1>3. PICK R \in Nat : Rounds(R)  BY DEF ParserInv
  <1>4. PICK c \in 0..n-1 : c = current  BY <1>2, ParserFacts
  <1>5. sliceCounts[f] = 0  BY <1>1, ParserFacts
  <1>6. R = 0
    <2>1. /\ f < c => sliceCounts[f] = R + 1
          /\ f > c => sliceCounts[f] = R
          /\ f = c => sliceCounts[f] \in {R, R + 1}
      BY <1>3, <1>4 DEF Rounds
    <2>2. f < c \/ f > c \/ f = c  BY <1>2
    <2>3. QED  BY <1>5, <2>1, <2>2
  <1>7. ASSUME NEW a \in Nat, NEW size \in SliceSizes, a <= size PROVE Small(a)
    BY <1>7, SizesSmall, SmallLess
  <1>8. PICK size \in SliceSizes : size \in Nat /\ 0 <= size /\ 1 <= size
    <2>1. PICK size \in SliceSizes : TRUE  BY NexusAssumption
    <2>2. size \in Nat \ {0}  BY SizesSmall
    <2>3. QED  BY <2>2
  <1>9. Small(0) /\ Small(1)  BY <1>7, <1>8
  <1>10. ASSUME NEW g \in 0..n-1 PROVE v[g] \in Nat /\ Small(v[g])
    <2>1. PICK w \in Nat, m \in Nat, fc \in Nat : w = Written(g) /\ m = sliceCounts[g] /\ fc = fileCounts[g]
      BY <1>2, ParserFacts
    <2>2. PICK file \in Files : file = nexus[g]  BY <1>2, ParserFacts
    <2>3. Small(fc)
      <3>1. CASE g = c
        <4>1. fc = Mark(nexus[c], 0) + sliceEvents  BY <1>3, <1>4, <1>6, <2>1, <3>1 DEF Rounds
        <4>2. Mark(nexus[c], 0) = 0  BY DEF Mark
        <4>3. sliceEvents \in Nat /\ sliceSize[c] \in SliceSizes /\ sliceEvents <= sliceSize[c]
          BY <1>2, <1>4 DEF ParserInv, ParserTypes, Buffering
        <4>4. fc = sliceEvents  BY <4>1, <4>2, <4>3
        <4>5. Small(sliceEvents)  BY <1>7, <4>3
        <4>6. QED  BY <4>4, <4>5, Zenon
      <3>2. CASE g # c
        <4>1. fc = Mark(file, m)  BY <1>2, <1>4, <2>1, <2>2, <3>2 DEF ParserInv, Settled
        <4>2. m = 0 \/ m = 1
          <5>1. (g < c => m = R + 1) /\ (g > c => m = R)  BY <1>2, <1>3, <1>4, <2>1 DEF Rounds
          <5>2. QED  BY <1>6, <3>2, <5>1
        <4>3. CASE m = 0
          <5>1. fc = 0  BY <4>1, <4>3 DEF Mark
          <5>2. QED  BY <1>9, <5>1
        <4>4. CASE m = 1
          <5>1. sliceCounts[g] >= 1 => Small(Mark(nexus[g], 1))  BY <1>2, Zenon DEF ParserInv, Starts
          <5>2. sliceCounts[g] >= 1  BY <2>1, <4>4
          <5>3. Small(Mark(file, 1))  BY <2>2, <5>1, <5>2, Zenon
          <5>4. QED  BY <4>1, <4>4, <5>3, Zenon
        <4>5. QED  BY <4>2, <4>3, <4>4
      <3>3. QED  BY <3>1, <3>2
    <2>4. w <= fc
      <3>1. Len(buffered) \in Nat  BY ParserFacts
      <3>2. QED  BY <2>1, <3>1 DEF Written
    <2>5. FileShape(file, m, w) /\ v[g] = Len(file.event_id)  BY <1>2, <2>1, <2>2 DEF ParserInv, Shapes
    <2>6. CASE w = 0
      <3>1. v[g] = 1  BY <2>5, <2>6 DEF FileShape
      <3>2. QED  BY <1>9, <3>1
    <2>7. CASE w # 0
      <3>1. v[g] = w  BY <2>5, <2>7 DEF FileShape
      <3>2. Small(w)  BY <2>3, <2>4, SmallLess
      <3>3. QED  BY <3>1, <3>2
    <2>8. QED  BY <2>6, <2>7
  <1>11. SumOf(v, 0..n-1) < VdsBlock  BY <1>2, <1>10, SmallSum
  <1>12. SumOf(v, 0..n-1) \in Nat
    <2>1. IsFiniteSet(0..n-1)  BY FS_Interval
    <2>2. QED  BY <1>10, <2>1, SumOfRemove
  <1>13. VdsBlock \in Nat  BY NexusAssumption
  <1>14. QED  BY <1>2, <1>11, <1>12, <1>13
-----------------------------------------------------------------------------
(* A step of the monitor leaves the files alone.                             *)
LEMMA FilesStay ==
  ASSUME UNCHANGED parserVars
  PROVE  /\ UNCHANGED <<numFiles, nexus, sliceCounts>>
         /\ TimepixFiles' = TimepixFiles /\ AllBlocks' = AllBlocks /\ AllSources' = AllSources
         /\ AllMarked' = AllMarked
         /\ \A src, k : Right(src, k)' = Right(src, k)
  <1>1. UNCHANGED <<numFiles, nexus, sliceCounts, fileCounts, current, buffered>>
    BY DEF parserVars, input, slice, written
  <1>2. TimepixFiles' = TimepixFiles  BY <1>1 DEF TimepixFiles
  <1>3. \A f : Written(f)' = Written(f)  BY <1>1 DEF Written
  <1>4. \A src, k : Right(src, k)' = Right(src, k)  BY <1>1, <1>3 DEF Right
  <1>5. AllMarked' = AllMarked  BY <1>1, <1>2 DEF AllMarked
  <1>6. AllBlocks' = AllBlocks /\ AllSources' = AllSources  BY <1>2 DEF AllBlocks, AllSources
  <1>7. QED  BY <1>1, <1>2, <1>4, <1>5, <1>6

LEMMA ParserStays ==
  ASSUME ParserInv, UNCHANGED parserVars
  PROVE  ParserInv'
  <1>1. /\ UNCHANGED <<numFiles, parser, events, current, sliceEvents, sliceSize, buffered>>
        /\ UNCHANGED <<fileCounts, sliceCounts, nexus>>
    BY DEF parserVars, input, slice, written
  <1>2. \A f \in TimepixFiles : Written(f)' = Written(f)  BY <1>1 DEF Written
  <1>3. TimepixFiles' = TimepixFiles  BY <1>1 DEF TimepixFiles
  <1>4. Shapes' /\ Places' /\ Starts' /\ Counted'  BY <1>1, <1>2, QuietKeeps
  <1>5. ParserTypes'  BY <1>1, <1>3 DEF ParserInv, ParserTypes
  <1>6. Settled' /\ Buffering'  BY <1>1, <1>3 DEF ParserInv, Settled, Buffering
  <1>7. \E R \in Nat : Rounds(R)'
    <2>1. PICK R \in Nat : Rounds(R)  BY DEF ParserInv
    <2>2. Rounds(R)'  BY <1>1, <1>3, <2>1 DEF Rounds, SliceEnded
    <2>3. QED  BY <2>2
  <1>8. QED  BY <1>4, <1>5, <1>6, <1>7 DEF ParserInv

(* Steps that leave the pointers where they are.                             *)
LEMMA PointersStay ==
  ASSUME MonitorInv, UNCHANGED <<parserVars, reading, eventPtrs, slicePtrs>>
  PROVE  (\E Q \in Nat : Turns(Q)') /\ Pointers'
  <1>1. UNCHANGED parserVars /\ UNCHANGED <<reading, eventPtrs, slicePtrs>>  OBVIOUS
  <1>2. TimepixFiles' = TimepixFiles /\ UNCHANGED <<nexus, sliceCounts>>  BY <1>1, FilesStay
  <1>3. \E Q \in Nat : Turns(Q)'
    <2>1. PICK Q \in Nat : Turns(Q)  BY DEF MonitorInv
    <2>2. Turns(Q)'  BY <1>1, <1>2, <2>1 DEF Turns
    <2>3. QED  BY <2>2
  <1>4. Pointers'  BY <1>1, <1>2 DEF MonitorInv, Pointers
  <1>5. QED  BY <1>3, <1>4

LEMMA LookKeeps ==
  ASSUME ParserInv, MonitorInv, Look
  PROVE  MonitorInv'
  <1>1. /\ monitor = "looking" /\ monitor' = "looked"
        /\ eventQty' = MapThenSumSet(LAMBDA f : Len(nexus[f].event_id), TimepixFiles)
        /\ UNCHANGED parserVars
        /\ UNCHANGED <<taken, reading, eventPtrs, slicePtrs, toRead, blocks, timepixVds>>
    BY DEF Look
  <1>2. /\ UNCHANGED <<numFiles, nexus, sliceCounts>>
        /\ TimepixFiles' = TimepixFiles /\ AllBlocks' = AllBlocks /\ AllSources' = AllSources
        /\ AllMarked' = AllMarked
        /\ \A src, k : Right(src, k)' = Right(src, k)
    BY <1>1, FilesStay
  <1>3. PICK v : v = [f \in TimepixFiles |-> Len(nexus[f].event_id)]  OBVIOUS
  <1>4. PICK S : S = TimepixFiles /\ IsFiniteSet(S)  BY ParserFacts
  <1>5. \A f \in S : v[f] = Len(nexus[f].event_id)  BY <1>3, <1>4
  <1>6. eventQty' = SumOf(v, S)
    <2>1. MapThenSumSet(LAMBDA f : Len(nexus[f].event_id), S) = SumOf(v, S)
      BY <1>4, <1>5, SizesAre, Zenon
    <2>2. QED  BY <1>1, <1>4, <2>1, Zenon
  <1>7. eventQty' \in Nat
    <2>1. \A f \in S : v[f] \in Nat
      <3>1. \A f \in S : nexus[f] \in Files  BY <1>4, ParserFacts
      <3>2. \A f \in S : nexus[f].event_id \in Seq(Nat)  BY <3>1 DEF Files
      <3>3. QED  BY <1>5, <3>2
    <2>2. SumOf(v, S) \in Nat  BY <1>4, <2>1, SumOfRemove
    <2>3. QED  BY <1>6, <2>2
  <1>8. MonitorTypes'
    <2>1. MonitorTypes  BY DEF MonitorInv
    <2>2. QED  BY <1>1, <1>2, <1>7, <2>1 DEF MonitorTypes
  <1>9. Looks'
    <2>1. eventQty' >= VdsBlock => AllMarked  BY <1>4, <1>5, <1>6, BlocksMarked, Zenon
    <2>2. QED  BY <1>1, <1>2, <2>1 DEF Looks
  <1>10. Taken'  BY <1>1, <1>2 DEF MonitorInv, Taken, InBlock
  <1>11. BlockRight'  BY <1>1 DEF BlockRight
  <1>12. VdsRight'  BY <1>1, <1>2, Zenon DEF MonitorInv, VdsRight
  <1>13. (\E Q \in Nat : Turns(Q)') /\ Pointers'  BY <1>1, PointersStay
  <1>14. QED  BY <1>8, <1>9, <1>10, <1>11, <1>12, <1>13 DEF MonitorInv

LEMMA StartBlockKeeps ==
  ASSUME ParserInv, MonitorInv, StartBlock
  PROVE  MonitorInv'
  <1>1. /\ monitor = "looked" /\ monitor' = "block" /\ eventQty >= taken + VdsBlock
        /\ blocks' = <<>> /\ toRead' = VdsBlock
        /\ UNCHANGED parserVars
        /\ UNCHANGED <<taken, reading, eventPtrs, slicePtrs, eventQty, timepixVds>>
    BY DEF StartBlock
  <1>2. /\ UNCHANGED <<numFiles, nexus, sliceCounts>>
        /\ TimepixFiles' = TimepixFiles /\ AllBlocks' = AllBlocks /\ AllSources' = AllSources
        /\ AllMarked' = AllMarked
        /\ \A src, k : Right(src, k)' = Right(src, k)
    BY <1>1, FilesStay
  <1>3. MonitorTypes /\ VdsBlock \in Nat  BY NexusAssumption DEF MonitorInv
  <1>4. MonitorTypes'
    <2>1. blocks' \in Seq(AllBlocks) /\ toRead' \in 0..VdsBlock  BY <1>1, <1>3
    <2>2. QED  BY <1>1, <1>2, <1>3, <2>1 DEF MonitorTypes
  <1>5. Looks'
    <2>1. eventQty >= VdsBlock  BY <1>1, <1>3 DEF MonitorTypes
    <2>2. AllMarked  BY <1>1, <2>1 DEF MonitorInv, Looks
    <2>3. QED  BY <1>2, <2>2 DEF Looks
  <1>6. Taken'  BY <1>1, <1>2, <1>3 DEF MonitorInv, Taken, InBlock
  <1>7. BlockRight'
    <2>1. SourceSeqs(<<>>) = <<>>  BY DEF SourceSeqs
    <2>2. Shown' = <<>>  BY <1>1, <2>1, FlattenEmpty DEF Shown
    <2>3. Len(Shown') = 0 /\ InBlock' = 0  BY <1>1, <1>3, <2>2 DEF InBlock
    <2>4. 1..0 = {}  OBVIOUS
    <2>5. QED  BY <2>3, <2>4, Zenon DEF BlockRight
  <1>8. VdsRight'  BY <1>1, <1>2, Zenon DEF MonitorInv, VdsRight
  <1>9. (\E Q \in Nat : Turns(Q)') /\ Pointers'  BY <1>1, PointersStay
  <1>10. QED  BY <1>4, <1>5, <1>6, <1>7, <1>8, <1>9 DEF MonitorInv

LEMMA EndLookKeeps ==
  ASSUME ParserInv, MonitorInv, EndLook
  PROVE  MonitorInv'
  <1>1. /\ monitor = "looked" /\ monitor' \in {"closed", "looking"}
        /\ UNCHANGED parserVars
        /\ UNCHANGED <<taken, reading, eventPtrs, slicePtrs, eventQty, toRead, blocks, timepixVds>>
    BY DEF EndLook
  <1>2. /\ UNCHANGED <<numFiles, nexus, sliceCounts>>
        /\ TimepixFiles' = TimepixFiles /\ AllBlocks' = AllBlocks /\ AllSources' = AllSources
        /\ AllMarked' = AllMarked
        /\ \A src, k : Right(src, k)' = Right(src, k)
    BY <1>1, FilesStay
  <1>3. MonitorTypes'
    <2>1. MonitorTypes  BY DEF MonitorInv
    <2>2. QED  BY <1>1, <1>2, <2>1 DEF MonitorTypes
  <1>4. Looks' /\ BlockRight'  BY <1>1 DEF Looks, BlockRight
  <1>5. Taken'  BY <1>1, <1>2 DEF MonitorInv, Taken, InBlock
  <1>6. VdsRight'  BY <1>1, <1>2, Zenon DEF MonitorInv, VdsRight
  <1>7. (\E Q \in Nat : Turns(Q)') /\ Pointers'  BY <1>1, PointersStay
  <1>8. QED  BY <1>3, <1>4, <1>5, <1>6, <1>7 DEF MonitorInv

LEMMA CreateKeeps ==
  ASSUME ParserInv, MonitorInv, create_VDS_file
  PROVE  MonitorInv'
  <1>1. /\ monitor = "block" /\ toRead = 0 /\ monitor' = "looked"
        /\ timepixVds' = timepixVds \o Shown
        /\ taken' = taken + VdsBlock
        /\ UNCHANGED parserVars
        /\ UNCHANGED <<reading, eventPtrs, slicePtrs, eventQty, toRead, blocks>>
    BY Zenon DEF create_VDS_file, create_top_level_VDS_file, Shown, SourceSeqs
  <1>2. /\ UNCHANGED <<numFiles, nexus, sliceCounts>>
        /\ TimepixFiles' = TimepixFiles /\ AllBlocks' = AllBlocks /\ AllSources' = AllSources
        /\ AllMarked' = AllMarked
        /\ \A src, k : Right(src, k)' = Right(src, k)
    BY <1>1, FilesStay
  <1>3. MonitorTypes /\ VdsBlock \in Nat  BY NexusAssumption DEF MonitorInv
  <1>4. PICK T : T = AllSources  OBVIOUS
  <1>5. PICK x \in Seq(T), y \in Seq(T) : x = timepixVds /\ y = Shown
    <2>1. blocks \in Seq(AllBlocks) /\ timepixVds \in Seq(AllSources)  BY <1>3 DEF MonitorTypes
    <2>2. Shown \in Seq(AllSources)  BY <2>1, SourcesType, Zenon DEF Shown
    <2>3. QED  BY <1>4, <2>1, <2>2
  <1>6. PICK t \in Nat, b \in Nat : t = taken /\ b = VdsBlock  BY <1>3 DEF MonitorTypes
  <1>7. /\ Len(x) = t /\ \A k \in 1..t : Right(x[k], k)
        /\ Len(y) = b /\ \A i \in 1..b : Right(y[i], t + i)
    <2>1. InBlock = b  BY <1>1, <1>6 DEF InBlock
    <2>2. QED  BY <1>1, <1>5, <1>6, <2>1, Zenon DEF MonitorInv, VdsRight, BlockRight
  <1>8. PICK z \in Seq(T) : z = x \o y /\ Chains(z, x, y)  BY ConcatIs, Zenon
  <1>9. /\ Len(z) = t + b /\ \A k \in 1..t : z[k] = x[k]
        /\ \A k \in 1..b : z[t + k] = y[k]
    BY <1>7, <1>8, Zenon DEF Chains
  <1>10. timepixVds' = z /\ taken' = t + b  BY <1>1, <1>5, <1>6, <1>8, Zenon
  <1>11. MonitorTypes'
    <2>1. timepixVds' \in Seq(AllSources) /\ taken' \in Nat  BY <1>4, <1>10
    <2>2. QED  BY <1>1, <1>2, <1>3, <2>1 DEF MonitorTypes
  <1>12. Looks'
    <2>1. AllMarked  BY <1>1 DEF MonitorInv, Looks
    <2>2. QED  BY <1>2, <2>1 DEF Looks
  <1>13. Taken'
    <2>1. SumOf(eventPtrs, TimepixFiles) = t + b  BY <1>1, <1>3, <1>6 DEF MonitorInv, Taken, InBlock
    <2>2. InBlock' = 0 /\ (t + b) + 0 = t + b  BY <1>1 DEF InBlock
    <2>3. QED  BY <1>1, <1>2, <1>10, <2>1, <2>2, Zenon DEF Taken
  <1>14. BlockRight'  BY <1>1 DEF BlockRight
  <1>15. VdsRight'
    <2>1. ASSUME NEW k \in 1..t+b PROVE Right(z[k], k)
      <3>1. CASE k <= t
        <4>1. k \in 1..t  BY <3>1
        <4>2. QED  BY <1>7, <1>9, <4>1, Zenon
      <3>2. CASE k > t
        <4>1. k - t \in 1..b /\ t + (k - t) = k  BY <3>2
        <4>2. Right(y[k - t], t + (k - t))  BY <1>7, <4>1, Zenon
        <4>3. z[k] = y[k - t]  BY <1>9, <4>1, Zenon
        <4>4. QED  BY <4>1, <4>2, <4>3, Zenon
      <3>3. k <= t \/ k > t  OBVIOUS
      <3>4. QED  BY <3>1, <3>2, <3>3
    <2>2. QED  BY <1>2, <1>9, <1>10, <2>1, Zenon DEF VdsRight
  <1>16. (\E Q \in Nat : Turns(Q)') /\ Pointers'  BY <1>1, PointersStay
  <1>17. QED  BY <1>11, <1>12, <1>13, <1>14, <1>15, <1>16 DEF MonitorInv

(* Up to the next mark of the file in turn the events have the numbers that  *)
(* the monitor takes next: all slices in front of this one are taken.        *)
Next(k) == [file |-> reading, place |-> eventPtrs[reading] + k]

LEMMA ReadyFacts ==
  ASSUME ParserInv, MonitorInv, monitor = "block", Len(nexus[reading].event_index) > slicePtrs[reading]
  PROVE  /\ slicePtrs[reading] + 1 <= sliceCounts[reading]
         /\ NextTimeSlice = Mark(nexus[reading], slicePtrs[reading] + 1)
         /\ NextTimeSlice \in Nat /\ EventsReady \in Nat
         /\ \A k \in 1..EventsReady : Right(Next(k), SumOf(eventPtrs, TimepixFiles) + k)
  <1>1. PICK q \in TimepixFiles : q = reading  BY DEF MonitorInv, MonitorTypes
  <1>2. PICK n \in Nat : n = numFiles /\ TimepixFiles = 0..n-1  BY ParserFacts
  <1>3. PICK s \in Nat, e \in Nat : s = slicePtrs[q] /\ e = eventPtrs[q]
    BY <1>1 DEF MonitorInv, MonitorTypes
  <1>4. PICK m \in Nat, w \in Nat : m = sliceCounts[q] /\ w = Written(q)  BY ParserFacts
  <1>5. PICK file \in Files : file = nexus[q]  BY ParserFacts
  <1>6. \A j \in 0..m : Mark(file, j) \in Nat  BY <1>4, <1>5, ParserFacts
  <1>7. FileShape(file, m, w)  BY <1>4, <1>5 DEF ParserInv, Shapes
  <1>8. m >= 1
    <2>1. AllMarked  BY DEF MonitorInv, Looks
    <2>2. QED  BY <1>4, <2>1 DEF AllMarked
  <1>9. s + 1 <= m
    <2>1. Len(file.event_index) = m  BY <1>7, <1>8 DEF FileShape
    <2>2. Len(file.event_index) > s  BY <1>1, <1>3, <1>5
    <2>3. QED  BY <2>1, <2>2
  <1>10. PICK last \in Nat, next \in Nat : last = Mark(file, s) /\ next = Mark(file, s + 1)
    <2>1. s \in 0..m /\ s + 1 \in 0..m  BY <1>9
    <2>2. QED  BY <1>6, <2>1
  <1>11. NextTimeSlice = next /\ EventsReady = next - e
    <2>1. s + 1 # 0  OBVIOUS
    <2>2. NextTimeSlice = file.event_index[s + 1]  BY <1>1, <1>3, <1>5, Zenon DEF NextTimeSlice
    <2>3. NextTimeSlice = next  BY <1>10, <2>1, <2>2, Zenon DEF Mark
    <2>4. QED  BY <1>1, <1>3, <2>3, Zenon DEF EventsReady
  <1>12. last <= e /\ e <= next
    <2>1. /\ e >= last
          /\ e # last => e <= next
      BY <1>1, <1>3, <1>5, <1>10 DEF MonitorInv, Pointers
    <2>2. last <= next
      <3>1. s \in 0..m /\ s + 1 \in 0..m /\ s <= s + 1  BY <1>9
      <3>2. QED  BY <1>7, <1>10, <3>1 DEF FileShape
    <2>3. QED  BY <2>1, <2>2
  <1>13. next <= w
    <2>1. s + 1 \in 0..m /\ m \in 0..m  BY <1>9
    <2>2. Mark(file, s + 1) <= Mark(file, m)  BY <1>7, <1>9, <2>1 DEF FileShape
    <2>3. Mark(file, m) <= w /\ Mark(file, m) \in Nat  BY <1>6, <1>7, <2>1 DEF FileShape
    <2>4. QED  BY <1>10, <2>2, <2>3
  <1>14. PICK Q \in Nat : Turns(Q)  BY DEF MonitorInv
  <1>15. s = Q
    <2>1. ~(q < q)  BY <1>2
    <2>2. QED  BY <1>1, <1>3, <1>14, <2>1 DEF Turns
  <1>16. PICK o : o = Others(nexus, n, q, s + 1)  OBVIOUS
  <1>17. o \in Nat /\ SumOf(eventPtrs, TimepixFiles) = o + e
    <2>1. \A g \in 0..n-1 : eventPtrs[g] \in Nat  BY <1>2 DEF MonitorInv, MonitorTypes
    <2>2. ASSUME NEW g \in 0..n-1, g # q
          PROVE  eventPtrs[g] = Mark(nexus[g], SlicesOf(g, q, s + 1))
      <3>1. eventPtrs[g] = Mark(nexus[g], slicePtrs[g])  BY <1>1, <1>2, <2>2 DEF MonitorInv, Pointers
      <3>2. slicePtrs[g] = IF g < q THEN Q + 1 ELSE Q  BY <1>1, <1>2, <1>14, Zenon DEF Turns
      <3>3. (s + 1) - 1 = Q /\ s + 1 = Q + 1  BY <1>15
      <3>4. slicePtrs[g] = SlicesOf(g, q, s + 1)  BY <3>2, <3>3, Zenon DEF SlicesOf
      <3>5. QED  BY <3>1, <3>4, Zenon
    <2>3. q \in 0..n-1  BY <1>2
    <2>4. o \in Nat /\ SumOf(eventPtrs, 0..n-1) = o + eventPtrs[q]
      BY <1>16, <2>1, <2>2, <2>3, OthersAdd
    <2>5. QED  BY <1>2, <1>3, <2>4, Zenon
  <1>18. ASSUME NEW k \in 1..(next - e) PROVE Right(Next(k), SumOf(eventPtrs, TimepixFiles) + k)
    <2>1. PICK p \in Nat : p = e + k  OBVIOUS
    <2>2. p \in 1..w /\ p \in (last + 1)..next  BY <1>12, <1>13, <2>1
    <2>3. p \in (Mark(file, (s + 1) - 1) + 1)..EndOf(file, s + 1, m, w)
      <3>1. (s + 1) - 1 = s  OBVIOUS
      <3>2. EndOf(file, s + 1, m, w) = next  BY <1>9, <1>10 DEF EndOf
      <3>3. QED  BY <1>10, <2>2, <3>1, <3>2
    <2>4. s + 1 \in 1..m+1  BY <1>9
    <2>5. Placed(nexus, n, q, m, w)  BY <1>2, <1>4 DEF ParserInv, Places
    <2>6. file.event_id[p] = p + o  BY <1>5, <1>16, <2>3, <2>4, <2>5, Zenon DEF Placed
    <2>7. p + o = (o + e) + k  BY <1>17, <2>1
    <2>8. Next(k).file = q /\ Next(k).place = p  BY <1>1, <1>3, <2>1 DEF Next
    <2>9. QED  BY <1>4, <1>5, <1>17, <2>2, <2>6, <2>7, <2>8, Zenon DEF Right
  <1>19. next - e \in Nat  BY <1>12
  <1>20. QED  BY <1>1, <1>3, <1>4, <1>5, <1>9, <1>10, <1>11, <1>18, <1>19

(* A block takes some of them.                                               *)
LEMMA BlockGrows ==
  ASSUME ParserInv, MonitorInv, NEW qty \in Nat, AddBlock(qty), qty <= toRead, qty <= EventsReady
  PROVE  /\ TimepixFiles' = TimepixFiles /\ UNCHANGED <<parserVars, nexus, sliceCounts>>
         /\ \A f \in TimepixFiles :
              eventPtrs'[f] = IF f = reading THEN eventPtrs[f] + qty ELSE eventPtrs[f]
         /\ eventPtrs' \in [TimepixFiles -> Nat]
         /\ MonitorTypes' <=> reading' \in TimepixFiles /\ slicePtrs' \in [TimepixFiles -> Nat]
         /\ Looks' /\ Taken' /\ BlockRight' /\ VdsRight'
  <1>1. /\ monitor = "block" /\ monitor' = "block"
        /\ Len(nexus[reading].event_index) > slicePtrs[reading]
        /\ blocks' = Append(blocks, [file |-> reading, offset |-> eventPtrs[reading], qty |-> qty])
        /\ eventPtrs' = [eventPtrs EXCEPT ![reading] = @ + qty]
        /\ toRead' = toRead - qty
        /\ UNCHANGED parserVars
        /\ UNCHANGED <<taken, eventQty, timepixVds>>
    BY DEF AddBlock
  <1>2. /\ UNCHANGED <<numFiles, nexus, sliceCounts>>
        /\ TimepixFiles' = TimepixFiles /\ AllBlocks' = AllBlocks /\ AllSources' = AllSources
        /\ AllMarked' = AllMarked
        /\ \A src, k : Right(src, k)' = Right(src, k)
    BY <1>1, FilesStay
  <1>3. MonitorTypes /\ VdsBlock \in Nat  BY NexusAssumption DEF MonitorInv
  <1>4. PICK q \in TimepixFiles, e \in Nat : q = reading /\ e = eventPtrs[q]  BY <1>3 DEF MonitorTypes
  <1>5. PICK b \in AllBlocks : b = [file |-> q, offset |-> e, qty |-> qty]  BY <1>4 DEF AllBlocks
  <1>6. PICK bs \in Seq(AllBlocks) : bs = blocks  BY <1>3 DEF MonitorTypes
  <1>7. blocks' = Append(bs, b)  BY <1>1, <1>4, <1>5, <1>6, Zenon
  <1>8. /\ eventPtrs' \in [TimepixFiles -> Nat]
        /\ \A f \in TimepixFiles :
              eventPtrs'[f] = IF f = reading THEN eventPtrs[f] + qty ELSE eventPtrs[f]
    <2>1. eventPtrs \in [TimepixFiles -> Nat]  BY <1>3 DEF MonitorTypes
    <2>2. eventPtrs' = [eventPtrs EXCEPT ![q] = e + qty]  BY <1>1, <1>4
    <2>3. QED  BY <1>4, <2>1, <2>2
  <1>9. PICK r \in Nat, v \in Nat : r = toRead /\ v = VdsBlock /\ r <= v /\ qty <= r
    BY <1>3 DEF MonitorTypes
  <1>10. MonitorTypes' <=> reading' \in TimepixFiles /\ slicePtrs' \in [TimepixFiles -> Nat]
    <2>1. blocks' \in Seq(AllBlocks)
      <3>1. Append(bs, b) \in Seq(AllBlocks)  BY AppendFacts
      <3>2. QED  BY <1>7, <3>1, Zenon
    <2>2. toRead' \in 0..VdsBlock  BY <1>1, <1>9
    <2>3. QED  BY <1>1, <1>2, <1>3, <1>8, <2>1, <2>2 DEF MonitorTypes
  <1>11. Looks'
    <2>1. AllMarked  BY <1>1 DEF MonitorInv, Looks
    <2>2. QED  BY <1>2, <2>1 DEF Looks
  <1>12. PICK t \in Nat : t = taken  BY <1>3 DEF MonitorTypes
  <1>13. InBlock = v - r /\ InBlock' = v - r + qty
    <2>1. InBlock' = v - (r - qty)  BY <1>1, <1>9 DEF InBlock
    <2>2. v - (r - qty) = v - r + qty  OBVIOUS
    <2>3. QED  BY <1>1, <1>9, <2>1, <2>2 DEF InBlock
  <1>14. SumOf(eventPtrs, TimepixFiles) = t + (v - r)
    BY <1>12, <1>13, Zenon DEF MonitorInv, Taken
  <1>15. Taken'
    <2>1. PICK S : S = TimepixFiles /\ IsFiniteSet(S) /\ q \in S  BY ParserFacts
    <2>2. PICK more : more = eventPtrs'  OBVIOUS
    <2>3. OneMore(eventPtrs, more, S, q, qty)
      <3>1. \A y \in S : eventPtrs[y] \in Nat  BY <1>3, <2>1 DEF MonitorTypes
      <3>2. more[q] = eventPtrs[q] + qty /\ \A y \in S \ {q} : more[y] = eventPtrs[y]
        BY <1>4, <1>8, <2>1, <2>2
      <3>3. QED  BY <3>1, <3>2, Zenon DEF OneMore
    <2>4. SumsMore(eventPtrs, more, S, qty)  BY <2>1, <2>3, SumOfChange
    <2>5. SumOf(more, S) = t + (v - r) + qty  BY <1>14, <2>1, <2>4, Zenon DEF SumsMore
    <2>6. t + (v - r) + qty = t + (v - r + qty)  OBVIOUS
    <2>7. QED  BY <1>1, <1>2, <1>12, <1>13, <2>1, <2>2, <2>5, <2>6, Zenon DEF Taken
  <1>16. \A k \in 1..qty : Right(Next(k), t + (v - r) + k)
    <2>1. EventsReady \in Nat /\ \A k \in 1..EventsReady : Right(Next(k), SumOf(eventPtrs, TimepixFiles) + k)
      BY <1>1, ReadyFacts
    <2>2. \A k \in 1..qty : k \in 1..EventsReady  BY <2>1
    <2>3. QED  BY <1>14, <2>1, <2>2, Zenon
  <1>17. PICK T : T = AllSources  OBVIOUS
  <1>18. PICK x \in Seq(T), y \in Seq(T) :
           /\ x = Shown /\ y = Sources(b) /\ Len(y) = qty
           /\ \A k \in 1..qty : y[k] = Next(k)
    <2>1. Shown \in Seq(AllSources)  BY <1>6, SourcesType, Zenon DEF Shown
    <2>2. b.qty = qty /\ b.file = q /\ b.offset = e  BY <1>5
    <2>3. Sources(b) = [k \in 1..qty |-> Next(k)]
      <3>1. Sources(b) = [k \in 1..qty |-> [file |-> q, place |-> e + k]]  BY <2>2, Zenon DEF Sources
      <3>2. \A k : Next(k) = [file |-> q, place |-> e + k]  BY <1>4, Zenon DEF Next
      <3>3. QED  BY <3>1, <3>2, Zenon
    <2>4. \A k \in 1..qty : Next(k) \in AllSources
      BY <1>4 DEF Next, AllSources
    <2>5. Sources(b) \in [1..qty -> AllSources]  BY <2>3, <2>4
    <2>6. Sources(b) \in Seq(AllSources) /\ Len(Sources(b)) = qty  BY <2>5
    <2>7. \A k \in 1..qty : Sources(b)[k] = Next(k)  BY <2>3, Zenon
    <2>8. QED  BY <1>17, <2>1, <2>6, <2>7, Zenon
  <1>19. Shown' = x \o y
    <2>1. PICK ss \in Seq(Seq(T)) : ss = SourceSeqs(bs)  BY <1>17, SourcesType, Zenon
    <2>2. SourceSeqs(Append(bs, b)) = Append(ss, Sources(b))
      <3>1. PICK g : g = [a \in AllBlocks |-> Sources(a)]  OBVIOUS
      <3>2. ASSUME NEW cs \in Seq(AllBlocks) PROVE SourceSeqs(cs) = Mapped(g, cs)
        <4>1. \A k \in DOMAIN cs : cs[k] \in AllBlocks  OBVIOUS
        <4>2. \A k \in DOMAIN cs : g[cs[k]] = Sources(cs[k])  BY <3>1, <4>1, Zenon
        <4>3. QED  BY <4>2, Zenon DEF SourceSeqs, Mapped
      <3>3. Append(bs, b) \in Seq(AllBlocks)  BY AppendFacts
      <3>4. Mapped(g, Append(bs, b)) = Append(Mapped(g, bs), g[b])  BY MappedAppend, Zenon
      <3>5. g[b] = Sources(b)  BY <3>1, Zenon
      <3>6. QED  BY <2>1, <3>2, <3>3, <3>4, <3>5, Zenon
    <2>3. FlattenSeq(Append(ss, y)) = FlattenSeq(ss) \o y  BY FlattenAppend
    <2>4. Shown' = FlattenSeq(SourceSeqs(Append(bs, b)))  BY <1>7 DEF Shown, SourceSeqs
    <2>5. Shown = FlattenSeq(ss)  BY <1>6, <2>1, Zenon DEF Shown
    <2>6. QED  BY <1>18, <2>2, <2>3, <2>4, <2>5, Zenon
  <1>20. BlockRight'
    <2>1. Len(x) = v - r /\ \A i \in 1..Len(x) : Right(x[i], t + i)
      BY <1>1, <1>12, <1>13, <1>18, Zenon DEF MonitorInv, BlockRight
    <2>2. PICK z \in Seq(T) : z = x \o y /\ Chains(z, x, y)  BY ConcatIs, Zenon
    <2>3. PICK l \in Nat : l = v - r /\ l = Len(x)  BY <1>9, <2>1
    <2>4. /\ Len(z) = l + qty /\ \A k \in 1..l : z[k] = x[k]
          /\ \A k \in 1..qty : z[l + k] = y[k]
      BY <1>18, <2>2, <2>3, Zenon DEF Chains
    <2>5. ASSUME NEW i \in 1..l+qty PROVE Right(z[i], t + i)
      <3>1. CASE i <= l
        <4>1. i \in 1..l  BY <3>1
        <4>2. QED  BY <2>1, <2>3, <2>4, <4>1, Zenon
      <3>2. CASE i > l
        <4>1. i - l \in 1..qty /\ l + (i - l) = i /\ t + l + (i - l) = t + i  BY <3>2
        <4>2. z[i] = Next(i - l)  BY <1>18, <2>4, <4>1, Zenon
        <4>3. Right(Next(i - l), t + l + (i - l))  BY <1>16, <2>3, <4>1, Zenon
        <4>4. QED  BY <4>1, <4>2, <4>3, Zenon
      <3>3. i <= l \/ i > l  OBVIOUS
      <3>4. QED  BY <3>1, <3>2, <3>3
    <2>6. Shown' = z /\ Len(z) = InBlock'
      <3>1. v - r + qty = l + qty  BY <2>3
      <3>2. QED  BY <1>13, <1>19, <2>2, <2>4, <3>1, Zenon
    <2>7. \A i \in 1..Len(z) : Right(z[i], t + i)'  BY <1>2, <2>4, <2>5, Zenon
    <2>8. QED  BY <1>1, <1>12, <2>6, <2>7, Zenon DEF BlockRight, Right
  <1>21. VdsRight'  BY <1>1, <1>2, Zenon DEF MonitorInv, VdsRight
  <1>22. QED  BY <1>1, <1>2, <1>8, <1>10, <1>11, <1>15, <1>20, <1>21

LEMMA PartKeeps ==
  ASSUME ParserInv, MonitorInv, PartOfSlice
  PROVE  MonitorInv'
  <1>1. PICK qty \in Nat : qty = toRead  BY DEF MonitorInv, MonitorTypes
  <1>2. /\ AddBlock(qty) /\ monitor = "block" /\ qty <= toRead /\ qty <= EventsReady
        /\ Len(nexus[reading].event_index) > slicePtrs[reading]
        /\ UNCHANGED <<reading, slicePtrs>>
    <2>1. AddBlock(qty) /\ EventsReady >= qty /\ UNCHANGED <<reading, slicePtrs>>
      BY <1>1, Zenon DEF PartOfSlice
    <2>2. monitor = "block" /\ Len(nexus[reading].event_index) > slicePtrs[reading]
      BY <2>1 DEF AddBlock
    <2>3. EventsReady \in Nat  BY <2>2, ReadyFacts
    <2>4. QED  BY <1>1, <2>1, <2>2, <2>3
  <1>3. /\ TimepixFiles' = TimepixFiles /\ UNCHANGED <<parserVars, nexus, sliceCounts>>
        /\ \A f \in TimepixFiles :
             eventPtrs'[f] = IF f = reading THEN eventPtrs[f] + qty ELSE eventPtrs[f]
        /\ eventPtrs' \in [TimepixFiles -> Nat]
        /\ MonitorTypes' <=> reading' \in TimepixFiles /\ slicePtrs' \in [TimepixFiles -> Nat]
        /\ Looks' /\ Taken' /\ BlockRight' /\ VdsRight'
    BY <1>2, BlockGrows
  <1>4. MonitorTypes'
    <2>1. reading \in TimepixFiles /\ slicePtrs \in [TimepixFiles -> Nat]  BY DEF MonitorInv, MonitorTypes
    <2>2. reading' \in TimepixFiles /\ slicePtrs' \in [TimepixFiles -> Nat]  BY <1>2, <2>1
    <2>3. QED  BY <1>3, <2>2, Zenon
  <1>5. \E Q \in Nat : Turns(Q)'
    <2>1. PICK Q \in Nat : Turns(Q)  BY DEF MonitorInv
    <2>2. Turns(Q)'  BY <1>2, <1>3, <2>1 DEF Turns
    <2>3. QED  BY <2>2
  <1>6. Pointers'
    <2>1. SUFFICES ASSUME NEW f \in TimepixFiles
                   PROVE  /\ slicePtrs[f] <= sliceCounts[f]
                          /\ eventPtrs'[f] >= Mark(nexus[f], slicePtrs[f])
                          /\ eventPtrs'[f] # Mark(nexus[f], slicePtrs[f]) =>
                               f = reading /\ slicePtrs[f] + 1 <= sliceCounts[f]
                               /\ eventPtrs'[f] <= Mark(nexus[f], slicePtrs[f] + 1)
      BY <1>2, <1>3 DEF Pointers
    <2>2. PICK s \in Nat, e \in Nat, m \in Nat : s = slicePtrs[f] /\ e = eventPtrs[f] /\ m = sliceCounts[f]
      BY ParserFacts DEF MonitorInv, MonitorTypes
    <2>3. /\ s <= m /\ e >= Mark(nexus[f], s)
          /\ e # Mark(nexus[f], s) => f = reading /\ s + 1 <= m /\ e <= Mark(nexus[f], s + 1)
      BY <2>2 DEF MonitorInv, Pointers
    <2>4. CASE f # reading
      <3>1. eventPtrs'[f] = e  BY <1>3, <2>2, <2>4
      <3>2. QED  BY <2>2, <2>3, <3>1, Zenon
    <2>5. CASE f = reading
      <3>1. eventPtrs'[f] = e + qty  BY <1>3, <2>2, <2>5
      <3>2. s + 1 <= m /\ NextTimeSlice = Mark(nexus[f], s + 1) /\ NextTimeSlice \in Nat
            /\ EventsReady = NextTimeSlice - e
        BY <1>2, <2>2, <2>5, ReadyFacts DEF EventsReady
      <3>3. PICK next \in Nat : next = Mark(nexus[f], s + 1) /\ qty <= next - e  BY <1>2, <3>2
      <3>4. e + qty <= next  BY <3>3
      <3>5. PICK last \in Nat : last = Mark(nexus[f], s)
        <4>1. s \in 0..m  BY <2>3
        <4>2. QED  BY <2>2, <4>1, ParserFacts
      <3>6. e + qty >= last  BY <2>3, <3>5
      <3>7. QED  BY <2>2, <2>3, <2>5, <3>1, <3>2, <3>3, <3>4, <3>5, <3>6
    <2>6. QED  BY <2>4, <2>5
  <1>7. QED  BY <1>3, <1>4, <1>5, <1>6 DEF MonitorInv

LEMMA RestKeeps ==
  ASSUME ParserInv, MonitorInv, RestOfTimeSlice
  PROVE  MonitorInv'
  <1>1. /\ AddBlock(EventsReady) /\ EventsReady < toRead
        /\ slicePtrs' = [slicePtrs EXCEPT ![reading] = @ + 1]
        /\ reading' = NextOf(reading)
    BY DEF RestOfTimeSlice
  <1>2. monitor = "block" /\ Len(nexus[reading].event_index) > slicePtrs[reading]
    BY <1>1 DEF AddBlock
  <1>3. /\ slicePtrs[reading] + 1 <= sliceCounts[reading]
        /\ NextTimeSlice = Mark(nexus[reading], slicePtrs[reading] + 1)
        /\ NextTimeSlice \in Nat /\ EventsReady \in Nat
    BY <1>2, ReadyFacts
  <1>4. PICK qty \in Nat : qty = EventsReady  BY <1>3
  <1>5. AddBlock(qty) /\ qty <= toRead /\ qty <= EventsReady
    <2>1. toRead \in Int  BY NexusAssumption DEF MonitorInv, MonitorTypes
    <2>2. AddBlock(qty)  BY <1>1, <1>4, Zenon
    <2>3. QED  BY <1>1, <1>4, <2>1, <2>2
  <1>6. /\ TimepixFiles' = TimepixFiles /\ UNCHANGED <<parserVars, nexus, sliceCounts>>
        /\ \A f \in TimepixFiles :
             eventPtrs'[f] = IF f = reading THEN eventPtrs[f] + qty ELSE eventPtrs[f]
        /\ eventPtrs' \in [TimepixFiles -> Nat]
        /\ MonitorTypes' <=> reading' \in TimepixFiles /\ slicePtrs' \in [TimepixFiles -> Nat]
        /\ Looks' /\ Taken' /\ BlockRight' /\ VdsRight'
    BY <1>5, BlockGrows
  <1>7. PICK n \in Nat \ {0} : n = numFiles /\ TimepixFiles = 0..n-1  BY ParserFacts
  <1>8. PICK q \in 0..n-1 : q = reading  BY <1>7 DEF MonitorInv, MonitorTypes
  <1>9. slicePtrs \in [0..n-1 -> Nat] /\ eventPtrs \in [0..n-1 -> Nat]
    BY <1>7 DEF MonitorInv, MonitorTypes
  <1>10. /\ slicePtrs' \in [0..n-1 -> Nat]
         /\ \A f \in 0..n-1 : slicePtrs'[f] = IF f = q THEN slicePtrs[f] + 1 ELSE slicePtrs[f]
    BY <1>1, <1>8, <1>9
  <1>11. reading' = (IF q + 1 = n THEN 0 ELSE q + 1) /\ reading' \in 0..n-1
    <2>1. reading' = (q + 1) % n  BY <1>1, <1>7, <1>8, Zenon DEF NextOf
    <2>2. (q + 1) % n = IF q + 1 = n THEN 0 ELSE q + 1  BY NextInTurn
    <2>3. (IF q + 1 = n THEN 0 ELSE q + 1) \in 0..n-1  OBVIOUS
    <2>4. QED  BY <2>1, <2>2, <2>3, Zenon
  <1>12. MonitorTypes'  BY <1>6, <1>7, <1>10, <1>11, Zenon
  <1>13. \E Q \in Nat : Turns(Q)'
    <2>1. PICK Q \in Nat : Turns(Q)  BY DEF MonitorInv
    <2>2. \A f \in 0..n-1 : slicePtrs[f] = IF f < q THEN Q + 1 ELSE Q
      BY <1>7, <1>8, <2>1, Zenon DEF Turns
    <2>3. \A f \in 0..n-1 : slicePtrs'[f] = IF f < q + 1 THEN Q + 1 ELSE Q
      <3>1. TAKE f \in 0..n-1
      <3>2. CASE f = q
        <4>1. ~(q < q) /\ q < q + 1  OBVIOUS
        <4>2. slicePtrs'[f] = slicePtrs[f] + 1 /\ slicePtrs[f] = Q  BY <1>10, <2>2, <3>2, <4>1
        <4>3. QED  BY <3>2, <4>1, <4>2
      <3>3. CASE f # q
        <4>1. f < q <=> f < q + 1  BY <3>3
        <4>2. slicePtrs'[f] = slicePtrs[f]  BY <1>10, <3>3, Zenon
        <4>3. QED  BY <2>2, <4>1, <4>2, Zenon
      <3>4. QED  BY <3>2, <3>3
    <2>4. CASE q + 1 = n
      <3>1. \A f \in 0..n-1 : f < q + 1 /\ ~(f < 0)  BY <2>4
      <3>2. \A f \in 0..n-1 : slicePtrs'[f] = IF f < 0 THEN (Q + 1) + 1 ELSE Q + 1
        BY <2>3, <3>1, Zenon
      <3>3. Turns(Q + 1)'  BY <1>6, <1>7, <1>11, <2>4, <3>2, Zenon DEF Turns
      <3>4. Q + 1 \in Nat  OBVIOUS
      <3>5. QED  BY <3>3, <3>4
    <2>5. CASE q + 1 # n
      <3>1. Turns(Q)'  BY <1>6, <1>7, <1>11, <2>3, <2>5, Zenon DEF Turns
      <3>2. QED  BY <3>1
    <2>6. QED  BY <2>4, <2>5
  <1>14. Pointers'
    <2>1. ASSUME NEW f \in 0..n-1
          PROVE  slicePtrs'[f] <= sliceCounts[f] /\ eventPtrs'[f] = Mark(nexus[f], slicePtrs'[f])
                 /\ Mark(nexus[f], slicePtrs'[f]) \in Nat
      <3>1. PICK s \in Nat, e \in Nat, m \in Nat : s = slicePtrs[f] /\ e = eventPtrs[f] /\ m = sliceCounts[f]
        BY <1>7, <1>9, ParserFacts
      <3>2. s <= m /\ (e # Mark(nexus[f], s) => f = q)
        BY <1>7, <1>8, <3>1 DEF MonitorInv, Pointers
      <3>3. CASE f # q
        <4>1. slicePtrs'[f] = s /\ eventPtrs'[f] = e /\ e = Mark(nexus[f], s)
          BY <1>6, <1>7, <1>8, <1>10, <3>1, <3>2, <3>3, Zenon
        <4>2. QED  BY <3>1, <3>2, <4>1
      <3>4. CASE f = q
        <4>1. slicePtrs'[f] = s + 1 /\ eventPtrs'[f] = e + qty
          BY <1>6, <1>7, <1>8, <1>10, <3>1, <3>4, Zenon
        <4>2. s + 1 <= m /\ NextTimeSlice = Mark(nexus[f], s + 1) /\ NextTimeSlice \in Nat
          BY <1>3, <1>8, <3>1, <3>4, Zenon
        <4>3. qty = NextTimeSlice - e  BY <1>4, <1>8, <3>1, <3>4, Zenon DEF EventsReady
        <4>4. e + qty = NextTimeSlice  BY <4>2, <4>3
        <4>5. QED  BY <3>1, <4>1, <4>2, <4>4
      <3>5. QED  BY <3>3, <3>4
    <2>2. \A f \in 0..n-1 :
            /\ slicePtrs'[f] <= sliceCounts[f]
            /\ eventPtrs'[f] >= Mark(nexus[f], slicePtrs'[f])
            /\ eventPtrs'[f] # Mark(nexus[f], slicePtrs'[f]) =>
                 f = reading' /\ slicePtrs'[f] + 1 <= sliceCounts[f]
                 /\ eventPtrs'[f] <= Mark(nexus[f], slicePtrs'[f] + 1)
      BY <2>1
    <2>3. QED  BY <1>6, <1>7, <2>2, Zenon DEF Pointers
  <1>15. QED  BY <1>6, <1>12, <1>13, <1>14 DEF MonitorInv

LEMMA MonitorKeeps ==
  ASSUME ParserInv, MonitorInv, Monitor
  PROVE  ParserInv' /\ MonitorInv'
  <1>1. UNCHANGED parserVars
    BY DEF Monitor, Look, StartBlock, EndLook, PartOfSlice, RestOfTimeSlice, AddBlock, create_VDS_file
  <1>2. ParserInv'  BY <1>1, ParserStays
  <1>3. CASE Look  BY <1>2, <1>3, LookKeeps
  <1>4. CASE StartBlock  BY <1>2, <1>4, StartBlockKeeps
  <1>5. CASE EndLook  BY <1>2, <1>5, EndLookKeeps
  <1>6. CASE PartOfSlice  BY <1>2, <1>6, PartKeeps
  <1>7. CASE RestOfTimeSlice  BY <1>2, <1>7, RestKeeps
  <1>8. CASE create_VDS_file  BY <1>2, <1>8, CreateKeeps
  <1>9. QED  BY <1>2, <1>3, <1>4, <1>5, <1>6, <1>7, <1>8 DEF Monitor
-----------------------------------------------------------------------------
(* At first the files are new and no event is read.                          *)
LEMMA SumOfZeros ==
  ASSUME NEW v, NEW S, IsFiniteSet(S), \A x \in S : v[x] = 0
  PROVE  SumOf(v, S) = 0
  <1>1. \A x \in S : v[x] \in Nat /\ v[x] <= 0  OBVIOUS
  <1>2. SumOf(v, S) <= Cardinality(S) * 0  BY <1>1, SumOfAtMost
  <1>3. Cardinality(S) \in Nat  BY FS_CardinalityType
  <1>4. Cardinality(S) * 0 = 0  BY <1>3
  <1>5. SumOf(v, S) \in Nat  BY <1>1, SumOfRemove
  <1>6. QED  BY <1>2, <1>4, <1>5

LEMMA InitFacts ==
  ASSUME TimepixInit
  PROVE  /\ numFiles \in Nat \ {0} /\ numFiles <= NexusFiles /\ TimepixFiles = 0..numFiles-1
         /\ IsFiniteSet(TimepixFiles) /\ 0 \in TimepixFiles /\ current = 0 /\ reading = 0
         /\ \A f \in TimepixFiles : /\ fileCounts[f] = 0 /\ sliceCounts[f] = 0 /\ nexus[f] = NewFile
                                    /\ eventPtrs[f] = 0 /\ slicePtrs[f] = 0
         /\ \A file : Mark(file, 0) = 0
         /\ \A f \in TimepixFiles : Written(f) = 0
  <1>1. PICK n \in Nat \ {0} : n = numFiles /\ n <= NexusFiles
    BY NexusAssumption DEF TimepixInit, ParserInit
  <1>2. TimepixFiles = 0..n-1 /\ 0 \in 0..n-1  BY <1>1 DEF TimepixFiles
  <1>3. IsFiniteSet(0..n-1)  BY FS_Interval
  <1>4. \A f \in TimepixFiles : /\ fileCounts[f] = 0 /\ sliceCounts[f] = 0 /\ nexus[f] = NewFile
                                /\ eventPtrs[f] = 0 /\ slicePtrs[f] = 0
    BY Zenon DEF TimepixInit, ParserInit, MonitorInit, ForFiles
  <1>5. \A file : Mark(file, 0) = 0  BY DEF Mark
  <1>6. Len(buffered) = 0  BY DEF TimepixInit, ParserInit
  <1>7. \A f \in TimepixFiles : Written(f) = 0  BY <1>4, <1>6 DEF Written
  <1>8. current = 0 /\ reading = 0  BY DEF TimepixInit, ParserInit, MonitorInit
  <1>9. QED  BY <1>1, <1>2, <1>3, <1>4, <1>5, <1>7, <1>8, Zenon

LEMMA InitParser == TimepixInit => ParserInv
  <1>1. SUFFICES ASSUME TimepixInit PROVE ParserInv  OBVIOUS
  <1>2. PICK n \in Nat \ {0} : n = numFiles /\ n <= NexusFiles /\ TimepixFiles = 0..n-1 /\ 0 \in 0..n-1
    BY <1>1, InitFacts
  <1>3. ParserTypes
    <2>1. /\ parser = "reading" /\ events = 0 /\ current = 0 /\ sliceEvents = 0
          /\ sliceSize \in [TimepixFiles -> SliceSizes] /\ buffered = <<>>
          /\ fileCounts = ForFiles(0) /\ sliceCounts = ForFiles(0) /\ nexus = ForFiles(NewFile)
      BY <1>1 DEF TimepixInit, ParserInit
    <2>2. NewFile \in Files
      <3>1. <<0>> \in Seq(Nat)  OBVIOUS
      <3>2. QED  BY <3>1 DEF NewFile, Files
    <2>3. nexus \in [TimepixFiles -> Files]  BY <2>1, <2>2 DEF ForFiles
    <2>4. fileCounts \in [TimepixFiles -> Nat] /\ sliceCounts \in [TimepixFiles -> Nat]
      BY <2>1 DEF ForFiles
    <2>5. buffered \in Seq(Nat) /\ parser \in {"reading", "marker", "closed", "dead"}  BY <2>1
    <2>6. events \in Nat /\ sliceEvents \in Nat /\ current \in TimepixFiles  BY <1>2, <2>1
    <2>7. QED  BY <1>2, <2>1, <2>3, <2>4, <2>5, <2>6 DEF ParserTypes
  <1>4. /\ \A f \in TimepixFiles : fileCounts[f] = 0 /\ sliceCounts[f] = 0 /\ nexus[f] = NewFile
        /\ \A file : Mark(file, 0) = 0
        /\ \A f \in TimepixFiles : Written(f) = 0
        /\ current = 0 /\ IsFiniteSet(TimepixFiles)
    BY <1>1, InitFacts
  <1>5. sliceEvents = 0 /\ parser = "reading" /\ Len(buffered) = 0 /\ events = 0
        /\ sliceSize[0] \in Nat \ {0}
    <2>1. sliceEvents = 0 /\ parser = "reading" /\ buffered = <<>> /\ events = 0
      BY <1>1 DEF TimepixInit, ParserInit
    <2>2. sliceSize[0] \in SliceSizes  BY <1>2, <1>3 DEF ParserTypes
    <2>3. QED  BY <2>1, <2>2, SizesSmall
  <1>6. \E R \in Nat : Rounds(R)
    <2>1. ~SliceEnded  BY <1>4, <1>5 DEF SliceEnded
    <2>2. sliceCounts[current] = 0 /\ fileCounts[current] = 0 /\ Mark(nexus[current], 0) = 0
          /\ current = 0
      BY <1>2, <1>4
    <2>3. \A f \in TimepixFiles : ~(f < 0)  BY <1>2
    <2>4. Rounds(0)  BY <1>4, <1>5, <2>1, <2>2, <2>3 DEF Rounds
    <2>5. QED  BY <2>4
  <1>7. Settled  BY <1>4, Zenon DEF Settled
  <1>8. Buffering
    <2>1. \A i \in 1..Len(buffered) : FALSE  BY <1>5
    <2>2. sliceEvents <= sliceSize[current] /\ Len(buffered) <= sliceEvents  BY <1>4, <1>5
    <2>3. QED  BY <2>1, <2>2, Zenon DEF Buffering
  <1>9. Shapes
    <2>1. FileShape(NewFile, 0, 0)
      <3>1. Len(NewFile.event_id) = 1 /\ NewFile.event_index = <<0>>  BY DEF NewFile
      <3>2. \A i \in 0..0 : Mark(NewFile, i) = 0  BY <1>4
      <3>3. 0 \in 0..0  OBVIOUS
      <3>4. QED  BY <3>1, <3>2, <3>3 DEF FileShape
    <2>2. QED  BY <1>4, <2>1, Zenon DEF Shapes
  <1>10. Places
    <2>1. SUFFICES ASSUME NEW f \in TimepixFiles PROVE Placed(nexus, numFiles, f, 0, 0)
      BY <1>4, Zenon DEF Places
    <2>2. \A j \in 1..0+1 : \A p \in (Mark(nexus[f], j - 1) + 1)..EndOf(nexus[f], j, 0, 0) : FALSE
      <3>1. SUFFICES ASSUME NEW j \in 1..0+1,
                            NEW p \in (Mark(nexus[f], j - 1) + 1)..EndOf(nexus[f], j, 0, 0)
                     PROVE  FALSE
        OBVIOUS
      <3>2. j = 1 /\ j - 1 = 0 /\ ~(j <= 0)  OBVIOUS
      <3>3. Mark(nexus[f], j - 1) = 0 /\ EndOf(nexus[f], j, 0, 0) = 0  BY <1>4, <3>2 DEF EndOf
      <3>4. QED  BY <3>3
    <2>3. QED  BY <2>2, Zenon DEF Placed
  <1>11. Starts
    <2>1. \A f \in TimepixFiles : ~(sliceCounts[f] >= 1)  BY <1>4
    <2>2. QED  BY <2>1, Zenon DEF Starts
  <1>12. Counted  BY <1>4, <1>5, SumOfZeros DEF Counted
  <1>13. QED  BY <1>3, <1>6, <1>7, <1>8, <1>9, <1>10, <1>11, <1>12 DEF ParserInv

LEMMA InitMonitor == TimepixInit => MonitorInv
  <1>1. SUFFICES ASSUME TimepixInit PROVE MonitorInv  OBVIOUS
  <1>2. PICK n \in Nat \ {0} : n = numFiles /\ TimepixFiles = 0..n-1 /\ 0 \in 0..n-1
    BY <1>1, InitFacts
  <1>3. /\ monitor = "looking" /\ taken = 0 /\ reading = 0 /\ eventQty = 0 /\ toRead = 0
        /\ eventPtrs = ForFiles(0) /\ slicePtrs = ForFiles(0) /\ blocks = <<>> /\ timepixVds = <<>>
    BY <1>1 DEF TimepixInit, MonitorInit
  <1>4. /\ \A f \in TimepixFiles : /\ sliceCounts[f] = 0 /\ nexus[f] = NewFile
                                   /\ eventPtrs[f] = 0 /\ slicePtrs[f] = 0
        /\ \A file : Mark(file, 0) = 0 /\ IsFiniteSet(TimepixFiles)
    BY <1>1, InitFacts
  <1>5. MonitorTypes
    <2>1. eventPtrs \in [TimepixFiles -> Nat] /\ slicePtrs \in [TimepixFiles -> Nat]
      BY <1>3 DEF ForFiles
    <2>2. blocks \in Seq(AllBlocks) /\ timepixVds \in Seq(AllSources)  BY <1>3
    <2>3. toRead \in 0..VdsBlock  BY <1>3, NexusAssumption
    <2>4. reading \in TimepixFiles  BY <1>2, <1>3
    <2>5. QED  BY <1>3, <2>1, <2>2, <2>3, <2>4 DEF MonitorTypes
  <1>6. \E Q \in Nat : Turns(Q)
    <2>1. \A f \in TimepixFiles : ~(f < reading)  BY <1>2, <1>3
    <2>2. Turns(0)  BY <1>4, <2>1 DEF Turns
    <2>3. QED  BY <2>2
  <1>7. Pointers  BY <1>4 DEF Pointers
  <1>8. Looks /\ BlockRight  BY <1>3 DEF Looks, BlockRight
  <1>9. Taken
    <2>1. SumOf(eventPtrs, TimepixFiles) = 0  BY <1>4, SumOfZeros
    <2>2. QED  BY <1>3, <2>1 DEF Taken, InBlock
  <1>10. VdsRight
    <2>1. Len(timepixVds) = 0 /\ \A k \in 1..Len(timepixVds) : FALSE  BY <1>3
    <2>2. QED  BY <1>3, <2>1, Zenon DEF VdsRight
  <1>11. QED  BY <1>5, <1>6, <1>7, <1>8, <1>9, <1>10 DEF MonitorInv
-----------------------------------------------------------------------------
(* The files have the slices in turn and the marks they need, and what the   *)
(* monitor took and what it is taking are the next numbers of the acquisition. *)
THEOREM InvariantHolds == TimepixSpec => [](ParserInv /\ MonitorInv)
  <1>1. TimepixInit => ParserInv /\ MonitorInv  BY InitParser, InitMonitor
  <1>2. ParserInv /\ MonitorInv /\ [TimepixNext]_timepixVars => (ParserInv /\ MonitorInv)'
    <2>1. SUFFICES ASSUME ParserInv, MonitorInv, [TimepixNext]_timepixVars
                   PROVE  ParserInv' /\ MonitorInv'
      OBVIOUS
    <2>2. CASE Parser /\ UNCHANGED monitorVars
      <3>1. ParserInv' /\ Grows  BY <2>1, <2>2, ParserKeeps
      <3>2. MonitorInv'  BY <2>1, <2>2, <3>1, MonitorStays
      <3>3. QED  BY <3>1, <3>2
    <2>3. CASE Monitor  BY <2>1, <2>3, MonitorKeeps
    <2>4. CASE UNCHANGED timepixVars
      <3>1. UNCHANGED parserVars /\ UNCHANGED monitorVars  BY <2>4 DEF timepixVars
      <3>2. ParserInv'  BY <2>1, <3>1, ParserStays
      <3>3. UNCHANGED <<numFiles, nexus, fileCounts, sliceCounts, events>>
            /\ \A f \in TimepixFiles : Written(f)' = Written(f)
        BY <3>1 DEF parserVars, input, slice, written, Written
      <3>4. Grows  BY <2>1, <3>3, QuietKeeps
      <3>5. MonitorInv'  BY <2>1, <3>1, <3>4, MonitorStays
      <3>6. QED  BY <3>2, <3>5
    <2>5. QED  BY <2>1, <2>2, <2>3, <2>4 DEF TimepixNext
  <1>3. QED  BY <1>1, <1>2, PTL DEF TimepixSpec

(* The top level dataset of the monitor has the events in the order in which *)
(* one file would have them (timepix_vds_writer.py), while the files still   *)
(* grow, for any number of files, any sizes of slices and any block that is  *)
(* larger than a slice of each file.                                         *)
THEOREM DatasetsMatch == TimepixSpec => []VdsMatchesRaw
  <1>1. ParserInv /\ MonitorInv => VdsMatchesRaw
    <2>1. SUFFICES ASSUME ParserInv, MonitorInv, NEW k \in DOMAIN timepixVds
                   PROVE  /\ timepixVds[k].place \in DOMAIN nexus[timepixVds[k].file].event_id
                          /\ nexus[timepixVds[k].file].event_id[timepixVds[k].place] = k
      BY Zenon DEF VdsMatchesRaw
    <2>2. timepixVds \in Seq(AllSources)  BY <2>1 DEF MonitorInv, MonitorTypes
    <2>3. k \in 1..Len(timepixVds)  BY <2>1, <2>2
    <2>4. PICK src \in AllSources : src = timepixVds[k]  BY <2>2, <2>3
    <2>5. Right(src, k)  BY <2>1, <2>3, <2>4 DEF MonitorInv, VdsRight
    <2>6. PICK f \in TimepixFiles, p \in Nat : f = src.file /\ p = src.place  BY DEF AllSources
    <2>7. PICK w \in Nat, m \in Nat : w = Written(f) /\ m = sliceCounts[f]  BY <2>1, ParserFacts
    <2>8. PICK file \in Files : file = nexus[f]  BY <2>1, ParserFacts
    <2>9. p \in 1..w /\ file.event_id[p] = k  BY <2>5, <2>6, <2>7, <2>8 DEF Right
    <2>10. FileShape(file, m, w)  BY <2>1, <2>7, <2>8 DEF ParserInv, Shapes
    <2>11. Len(file.event_id) = w  BY <2>9, <2>10 DEF FileShape
    <2>12. DOMAIN file.event_id = 1..w
      <3>1. file.event_id \in Seq(Nat)  BY DEF Files
      <3>2. QED  BY <2>11, <3>1
    <2>13. QED  BY <2>4, <2>6, <2>8, <2>9, <2>12, Zenon
  <1>2. QED  BY <1>1, InvariantHolds, PTL
=============================================================================
