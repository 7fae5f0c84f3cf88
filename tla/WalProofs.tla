----------------------------- MODULE WalProofs -----------------------------
(***************************************************************************)
(* The write-ahead log, for any sizes, any number of crashes and failures. *)
(***************************************************************************)
EXTENDS Wal, FunctionTheorems, FiniteSetTheorems, SequenceTheorems, TLAPS

\* No crash cuts a record off in its payload, no failed append leaves anything
\* behind (findings 6 and 5).
CleanCuts == ~CutPayload /\ Leftovers \subseteq {<<>>}

-----------------------------------------------------------------------------
(***************************************************************************)
(* The invariant behind EntriesReadable.                                   *)
(***************************************************************************)
Top == IF cur = "open" THEN curSeg ELSE curSeg - 1

\* The files are those from the oldest segment to the one written to.
FilesInv ==
    /\ DOMAIN segs = cp.start .. Top
    /\ cp.start <= curSeg
    /\ cur = "none" => cp.start = curSeg /\ curOff = 0
    /\ cpFile.start <= cp.start
    /\ cpFile.acked <= SegSize /\ cp.acked <= SegSize

\* A file has room for its records, and nothing but records while the log is
\* open; after a crash the last cell may be torn.
CellsInv ==
    \A g \in DOMAIN segs :
        /\ Len(segs[g].cells) <= SegSize
        /\ \A p \in 1 .. Len(segs[g].cells) :
              /\ segs[g].cells[p] \in 0 .. LastSeq
              /\ segs[g].cells[p] = Torn => ~running /\ p = Len(segs[g].cells)

\* What each step of an append knows.
StageInv ==
    /\ cp.next >= 1
    /\ ~running => op = "idle"
    /\ op \notin {"space", "write", "sync"} => grouped /\ todo = {}
    /\ op \in {"write", "sync"} => cur = "open"
    /\ op = "write" => curOff < SegSize
    /\ op \in {"space", "write"} => /\ left >= 1 /\ cp.next + left - 1 <= LastSeq
                                    /\ ~grouped => left = 1 /\ todo = {}
    /\ op = "sync" => todo # {}
    /\ op = "sync" /\ ~grouped => todo = {cp.next}
    /\ op \in {"clean", "cleaned"} => DOMAIN segs # {}

\* One record is in the file and not yet in the index: the one of Append.
Ahead == IF op = "sync" /\ ~grouped THEN 1 ELSE 0

\* The file written to ends where curOff says.
TailInv ==
    running /\ cur = "open" =>
        /\ Len(segs[curSeg].cells) = curOff + Ahead
        /\ Ahead = 1 => segs[curSeg].cells[curOff + 1] = cp.next

\* The index is in the order of the files, and right.
IndexInv ==
    running =>
        /\ \A i \in 1 .. Len(pending) :
              /\ Readable(pending[i])
              /\ cur = "open" /\ pending[i].seg = curSeg => pending[i].off < curOff
        /\ \A i, j \in 1 .. Len(pending) : i < j => Before(pending[i], pending[j])

WalInv == TypeOK /\ FilesInv /\ CellsInv /\ StageInv /\ TailInv /\ IndexInv

-----------------------------------------------------------------------------
(***************************************************************************)
(* The invariant behind the other properties.                              *)
(***************************************************************************)

\* In addition, what was written before the running batch is on disk, and the
\* checkpoint is saved in one step with the removal (findings 4 and 3).
Durable == CleanCuts /\ WriteBack /\ ~LagAfterRemoval

\* Cells are numbered through the segments, all of which but the last are full.
Place(g, p) == g * SegSize + p

\* The place of the next record, and the seq that belongs to a place.
End == Place(curSeg, IF cur = "closed" THEN 1 ELSE curOff + 1)
SeqOf(x) == cp.next - (End - x)

\* How many records of a file are whole, and where they end on disk.
Whole(g) ==
    LET n == Len(segs[g].cells)
    IN  IF n > 0 /\ segs[g].cells[n] = Torn THEN n - 1 ELSE n
DiskEnd == IF cur = "open" THEN Place(curSeg, Whole(curSeg) + 1) ELSE End

\* Where the checkpoint on disk says that confirmed records end.
SavedEnd == Place(cpFile.start, cpFile.acked + 1)

\* The records on disk are consecutive, over the ends of the segments.
ChainInv ==
    \A g \in DOMAIN segs :
        /\ g < curSeg => Whole(g) = SegSize
        /\ \A p \in 1 .. Whole(g) : segs[g].cells[p] = SeqOf(Place(g, p))

\* The index has the last of them.
QueueInv ==
    /\ Place(cp.start, cp.acked + 1) <= End - Len(pending)
    /\ \A i \in 1 .. Len(pending) :
          /\ pending[i].seq = cp.next - Len(pending) + i - 1
          /\ Place(pending[i].seg, pending[i].off + 1) = End - Len(pending) + i - 1
          /\ pending[i].seg \in cp.start .. curSeg /\ pending[i].off < SegSize

\* The checkpoint on disk is of this segment and calls nothing confirmed that is
\* not; its next seq is not too low for what it calls confirmed.
SavedInv ==
    /\ op \notin {"cleaned", "save"} => cpFile.start = cp.start
    /\ SavedEnd <= End - Len(pending)
    /\ cpFile.next >= SeqOf(SavedEnd) \/ SeqOf(SavedEnd) <= 1

\* The seqs from b on are those of the running batch, and nobody has heard of them.
BatchInv ==
    running => \E b \in 1 .. cp.next :
        /\ todo = b .. cp.next + Ahead - 1
        /\ b >= cp.next - Len(pending)
        /\ cpFile.next <= b
        /\ \A s \in promised \cup committed : s < b

\* What is promised is committed or in the index.
KeptInv == \A s \in promised : s \in committed \/ s >= cp.next - Len(pending)

\* When the process is down the disk has all that matters.
RestInv ==
    ~running =>
        /\ SeqOf(DiskEnd) \in 1 .. cp.next + 1
        /\ SavedEnd <= DiskEnd
        /\ cpFile.next <= SeqOf(DiskEnd)
        /\ \A s \in promised \cup committed : s < SeqOf(DiskEnd)

LogInv == ChainInv /\ QueueInv /\ SavedInv /\ BatchInv /\ KeptInv /\ RestInv

-----------------------------------------------------------------------------
(***************************************************************************)
(* Least and greatest elements, places.                                    *)
(***************************************************************************)

\* Every nonempty set of naturals has a least element.
LEMMA LeastNatural ==
    ASSUME NEW S, S \subseteq Nat, S # {}
    PROVE  \E m \in S : \A n \in S : m <= n
<1> DEFINE R == {ss \in Nat \X Nat : ss[1] < ss[2]}
<1>1. IsWellFoundedOn(R, Nat)
  BY NatLessThanWellFounded DEF OpToRel
<1>2. PICK m \in S : \A n \in S : <<n, m>> \notin R
  <2> HIDE DEF R
  <2> QED BY <1>1, WFMin
<1>3. ASSUME NEW n \in S PROVE ~ (n < m)
  BY <1>2
<1> QED BY <1>3

\* Oldest is what its name says.
LEMMA OldestIs ==
    ASSUME NEW S, S \subseteq Nat, S # {}
    PROVE  Oldest(S) \in S /\ \A h \in S : Oldest(S) <= h
BY LeastNatural DEF Oldest

\* So is Newest, on a bounded set.
LEMMA NewestIs ==
    ASSUME NEW S, NEW N \in Nat, S \subseteq 0 .. N, S # {}
    PROVE  Newest(S) \in S /\ \A h \in S : Newest(S) >= h
<1> DEFINE T == {n \in 0 .. N : N - n \in S}
<1>1. T \subseteq Nat /\ T # {}
  <2>1. PICK x : x \in S
    OBVIOUS
  <2>2. N - x \in T
    BY <2>1
  <2> QED BY <2>2
<1>2. PICK m \in T : \A n \in T : m <= n
  <2> HIDE DEF T
  <2> QED BY <1>1, LeastNatural
<1>3. ASSUME NEW h \in S PROVE N - m >= h
  <2>1. N - h \in T
    OBVIOUS
  <2> QED BY <2>1, <1>2
<1>4. N - m \in S
  OBVIOUS
<1>5. \E g \in S : \A h \in S : g >= h
  BY <1>3, <1>4
<1> QED BY <1>5 DEF Newest

\* Places are naturals, and go on from the end of a segment to the next one.
LEMMA PlaceFacts ==
    ASSUME NEW g \in Nat
    PROVE  /\ Place(g, 0) \in Nat
           /\ \A p \in Int : Place(g, p) = Place(g, 0) + p
           /\ Place(g + 1, 0) = Place(g, 0) + SegSize
<1>1. SegSize \in Nat
  BY WalAssumption
<1>2. g * SegSize \in Nat
  BY <1>1
<1>3. (g + 1) * SegSize = g * SegSize + SegSize
  BY <1>1
<1> QED BY <1>1, <1>2, <1>3 DEF Place

\* The same for one place.
LEMMA PlaceAt ==
    ASSUME NEW g \in Nat, NEW p \in Int
    PROVE  Place(g, p) = Place(g, 0) + p /\ Place(g, 0) \in Int /\ Place(g, p) \in Int
<1>1. Place(g, 0) \in Nat /\ \A q \in Int : Place(g, q) = Place(g, 0) + q
  BY PlaceFacts
<1> QED BY <1>1

\* A later segment begins behind the end of an earlier one.
LEMMA PlaceLater ==
    ASSUME NEW g \in Nat, NEW h \in Nat, g < h
    PROVE  Place(h, 0) >= Place(g, SegSize)
<1>1. SegSize \in Nat
  BY WalAssumption
<1>2. PICK k \in Nat : h = g + 1 + k
  <2>1. h - g - 1 \in Nat
    OBVIOUS
  <2> QED BY <2>1
<1>3. h * SegSize = g * SegSize + SegSize + k * SegSize
  BY <1>1, <1>2
<1>4. k * SegSize >= 0 /\ k * SegSize \in Nat /\ g * SegSize \in Nat
  BY <1>1
<1> QED BY <1>1, <1>3, <1>4 DEF Place

\* Segments begin in their order.
LEMMA PlaceBegins ==
    ASSUME NEW g \in Nat, NEW h \in Nat, g <= h
    PROVE  Place(g, 0) <= Place(h, 0)
<1>1. SegSize \in Nat
  BY WalAssumption
<1>2. /\ Place(g, SegSize) = Place(g, 0) + SegSize /\ Place(g, 0) \in Int
      /\ Place(h, 0) \in Int
  BY <1>1, PlaceAt
<1>3. CASE g = h
  BY <1>2, <1>3
<1>4. CASE g < h
  <2>1. Place(h, 0) >= Place(g, SegSize)
    BY <1>4, PlaceLater
  <2> QED BY <2>1, <1>1, <1>2
<1> QED BY <1>3, <1>4

\* The order of places is the order of segments, and within one that of cells.
LEMMA PlaceOrder ==
    ASSUME NEW g \in Nat, NEW h \in Nat, NEW p \in 1 .. SegSize, NEW q \in 1 .. SegSize
    PROVE  Place(g, p) < Place(h, q) <=> g < h \/ (g = h /\ p < q)
<1>1. SegSize \in Nat
  BY WalAssumption
<1>2. /\ Place(g, 0) \in Nat /\ Place(h, 0) \in Nat
      /\ Place(g, p) = Place(g, 0) + p /\ Place(h, q) = Place(h, 0) + q
      /\ Place(g, SegSize) = Place(g, 0) + SegSize
      /\ Place(h, SegSize) = Place(h, 0) + SegSize
  <2>1. p \in Int /\ q \in Int /\ SegSize \in Int
    BY <1>1
  <2>2. \A k \in Int : Place(g, k) = Place(g, 0) + k
    BY PlaceFacts
  <2>3. \A k \in Int : Place(h, k) = Place(h, 0) + k
    BY PlaceFacts
  <2>4. Place(g, 0) \in Nat /\ Place(h, 0) \in Nat
    BY PlaceFacts
  <2> QED BY <2>1, <2>2, <2>3, <2>4
<1>3. CASE g < h
  BY <1>1, <1>2, <1>3, PlaceLater
<1>4. CASE h < g
  BY <1>1, <1>2, <1>4, PlaceLater
<1>5. CASE g = h
  BY <1>1, <1>2, <1>5
<1> QED BY <1>3, <1>4, <1>5

\* Every place is in a segment.
LEMMA PlaceExists ==
    ASSUME NEW x \in Nat \ {0}
    PROVE  \E g \in Nat, p \in 1 .. SegSize : Place(g, p) = x
<1>1. SegSize \in Nat \ {0}
  BY WalAssumption
<1> DEFINE T == {g \in Nat : x < Place(g + 1, 1)}
<1>2. x \in T
  <2>1. (x + 1) * SegSize >= x
    BY <1>1
  <2> QED BY <2>1, <1>1 DEF Place
<1>3. PICK m \in T : \A n \in T : m <= n
  <2>1. T \subseteq Nat /\ T # {}
    BY <1>2
  <2> HIDE DEF T
  <2> QED BY <2>1, LeastNatural
<1>4. /\ Place(m, 0) \in Nat
      /\ Place(m, 1) = Place(m, 0) + 1
      /\ Place(m + 1, 0) = Place(m, 0) + SegSize
      /\ Place(m + 1, 1) = Place(m + 1, 0) + 1
  <2>1. m \in Nat /\ m + 1 \in Nat
    BY <1>3
  <2>2. /\ Place(m, 0) \in Nat /\ Place(m + 1, 0) = Place(m, 0) + SegSize
        /\ \A k \in Int : Place(m, k) = Place(m, 0) + k
    BY <2>1, PlaceFacts
  <2>3. \A k \in Int : Place(m + 1, k) = Place(m + 1, 0) + k
    BY <2>1, PlaceFacts
  <2> QED BY <2>2, <2>3
<1>5. x <= Place(m, 0) + SegSize
  BY <1>1, <1>3, <1>4
<1>6. x > Place(m, 0)
  <2>1. CASE m = 0
    BY <2>1, <1>1 DEF Place
  <2>2. CASE m # 0
    <3>1. m - 1 \in Nat /\ m - 1 \notin T
      BY <2>2, <1>3
    <3>2. m - 1 + 1 = m
      OBVIOUS
    <3> QED BY <3>1, <3>2, <1>4
  <2> QED BY <2>1, <2>2
<1>7. x - Place(m, 0) \in 1 .. SegSize
  BY <1>1, <1>4, <1>5, <1>6
<1>8. Place(m, x - Place(m, 0)) = x
  BY <1>4, <1>7, PlaceFacts
<1> QED BY <1>7, <1>8

-----------------------------------------------------------------------------
(***************************************************************************)
(* What Open finds.                                                        *)
(***************************************************************************)

\* A sequence cut off, with a torn cell behind it or not.
LEMMA CutSeq ==
    ASSUME NEW S, Torn \in S, NEW s \in Seq(S), NEW n \in 0 .. Len(s),
           NEW rest \in {<<>>, <<Torn>>}
    PROVE  LET t == SubSeq(s, 1, n) \o rest
           IN  /\ t \in Seq(S) /\ Len(t) = n + Len(rest)
               /\ rest = <<>> => Len(t) = n
               /\ rest = <<Torn>> => Len(t) = n + 1 /\ t[n + 1] = Torn
               /\ \A p \in 1 .. n : t[p] = s[p]
<1> DEFINE u == SubSeq(s, 1, n)
<1>1. u \in Seq(S) /\ Len(u) = n /\ \A p \in 1 .. n : u[p] = s[p]
  OBVIOUS
<1> HIDE DEF u
<1>2. CASE rest = <<>>
  <2>1. u \o rest \in Seq(S) /\ Len(u \o rest) = n /\ \A p \in 1 .. n : (u \o rest)[p] = u[p]
    BY <1>1, <1>2
  <2> QED BY <2>1, <1>1, <1>2 DEF u
<1>3. CASE rest = <<Torn>>
  <2>1. rest \in Seq(S) /\ Len(rest) = 1 /\ rest[1] = Torn
    BY <1>3
  <2>2. /\ u \o rest \in Seq(S) /\ Len(u \o rest) = n + 1
        /\ \A p \in 1 .. n : (u \o rest)[p] = u[p]
        /\ (u \o rest)[n + 1] = rest[1]
    <3>1. /\ u \o rest \in Seq(S) /\ Len(u \o rest) = n + 1
          /\ \A i \in 1 .. n + 1 : (u \o rest)[i] = IF i <= n THEN u[i] ELSE rest[i - n]
      <4>1. /\ u \o rest \in Seq(S) /\ Len(u \o rest) = Len(u) + Len(rest)
            /\ \A i \in 1 .. Len(u) + Len(rest) :
                   (u \o rest)[i] = IF i <= Len(u) THEN u[i] ELSE rest[i - Len(u)]
        BY <2>1, <1>1, ConcatProperties, ZenonT(60)
      <4> QED BY <4>1, <2>1, <1>1
    <3>2. (u \o rest)[n + 1] = rest[n + 1 - n]
      BY <3>1
    <3> QED BY <3>1, <3>2
  <2> QED BY <2>1, <2>2, <1>1, <1>3 DEF u
<1> QED BY <1>2, <1>3

\* Integers that are all natural numbers make a sequence of those.
LEMMA NaturalSeq ==
    ASSUME NEW s \in Seq(Int), \A p \in 1 .. Len(s) : s[p] \in Nat
    PROVE  s \in Seq(Nat)
<1>1. Len(s) \in Nat /\ s \in [1 .. Len(s) -> Int]
  OBVIOUS
<1>2. s \in [1 .. Len(s) -> Nat]
  BY <1>1
<1> QED BY <1>1, <1>2, SeqDef

\* The cut at the end alone.
LEMMA WholeIs ==
    ASSUME TypeOK, CellsInv, NEW g \in DOMAIN segs
    PROVE  /\ segs[g].cells \in Seq(Int) /\ Len(segs[g].cells) \in Nat
           /\ segs[g].synced \in Nat
           /\ Whole(g) \in 0 .. Len(segs[g].cells) /\ Whole(g) <= SegSize
           /\ running => Whole(g) = Len(segs[g].cells)
           /\ \A p \in 1 .. Len(segs[g].cells) :
                 /\ segs[g].cells[p] \in 0 .. LastSeq
                 /\ segs[g].cells[p] # Torn <=> p <= Whole(g)
<1>1. /\ segs[g].cells \in Seq(Int) /\ Len(segs[g].cells) \in Nat /\ segs[g].synced \in Nat
  <2>1. segs[g] \in [cells : Seq(-LastSeq .. LastSeq), synced : Nat]
    BY DEF TypeOK, FilesTypeOK, MemoryTypeOK, OpTypeOK
  <2>2. segs[g].cells \in Seq(-LastSeq .. LastSeq) /\ segs[g].synced \in Nat
    BY <2>1
  <2>3. -LastSeq .. LastSeq \subseteq Int
    OBVIOUS
  <2> QED BY <2>2, <2>3, SeqMonotonic, LenProperties
<1>2. SegSize \in Nat
  BY WalAssumption
<1> QED BY <1>1, <1>2 DEF CellsInv, Whole

\* The scan finds the records and cuts off the rest.
LEMMA ScanIs ==
    ASSUME TypeOK, CellsInv, NEW g \in DOMAIN segs
    PROVE  /\ Records(g) = 1 .. Whole(g)
           /\ LastRecord(g) = Whole(g)
           /\ Repaired(g) = [cells |-> SubSeq(segs[g].cells, 1, Whole(g)),
                             synced |-> Oldest({segs[g].synced, Whole(g)})]
           /\ \A p \in 1 .. Whole(g) : SeqAt(g, p) = segs[g].cells[p]
<1> DEFINE cells == segs[g].cells
<1>1. /\ cells \in Seq(Int) /\ Len(cells) \in Nat
      /\ Whole(g) \in 0 .. Len(cells)
      /\ \A p \in 1 .. Len(cells) : cells[p] \in 0 .. LastSeq /\ (cells[p] # Torn <=> p <= Whole(g))
  BY WholeIs
<1>2. LastSeq \in Nat
  BY WalAssumption
<1>3. Scanned(g) = [p \in 1 .. Len(cells) |-> cells[p] # Torn]
  <2>1. cells \in Seq(Nat)
    <3>1. 0 .. LastSeq \subseteq Nat
      BY <1>2
    <3>2. \A p \in 1 .. Len(cells) : cells[p] \in Nat
      BY <3>1, <1>1, Zenon
    <3> QED BY <3>2, <1>1, NaturalSeq, Zenon
  <2> QED BY <2>1 DEF Scanned, Torn
<1>4. Records(g) = 1 .. Whole(g)
  <2>1. \A p \in 1 .. Len(cells) : Scanned(g)[p] <=> cells[p] # Torn
    BY <1>3, Zenon
  <2>2. Records(g) = {p \in 1 .. Len(cells) : cells[p] # Torn}
    BY <2>1, Zenon DEF Records
  <2> QED BY <2>2, <1>1
<1>5. LastRecord(g) = Whole(g)
  <2>1. CASE Whole(g) = 0
    BY <2>1, <1>4 DEF LastRecord
  <2>2. CASE Whole(g) # 0
    <3>1. 1 .. Whole(g) \subseteq 0 .. Whole(g) /\ 1 .. Whole(g) # {} /\ Whole(g) \in Nat
      BY <2>2, <1>1
    <3>2. Newest(1 .. Whole(g)) \in 1 .. Whole(g) /\ \A h \in 1 .. Whole(g) : Newest(1 .. Whole(g)) >= h
      BY <3>1, NewestIs
    <3> QED BY <3>1, <3>2, <1>4 DEF LastRecord
  <2> QED BY <2>1, <2>2
<1>6. Remnant(g) = <<>>
  <2>1. \A p \in 1 .. Len(cells) : ~(cells[p] < 0)
    BY <1>1, <1>2
  <2> QED BY <2>1, <1>1, <1>5 DEF Remnant
<1>7. SubSeq(cells, 1, Whole(g)) \o <<>> = SubSeq(cells, 1, Whole(g))
  BY <1>1
<1>8. ASSUME NEW p \in 1 .. Whole(g) PROVE SeqAt(g, p) = cells[p]
  <2>1. ~(cells[p] < 0)
    BY <1>1, <1>2
  <2> QED BY <2>1 DEF SeqAt
<1> QED BY <1>4, <1>5, <1>6, <1>7, <1>8 DEF Repaired

\* No segment is left over from before the checkpoint.
LEMMA AliveIs ==
    ASSUME TypeOK, FilesInv
    PROVE  /\ Alive = DOMAIN segs
           /\ cp.start \in Nat /\ curSeg \in Nat /\ Top \in Int /\ cpFile.start \in Nat
           /\ DOMAIN segs = {} => OpenStart = cpFile.start /\ OpenSegment = OpenStart
           /\ DOMAIN segs # {} => OpenStart = cp.start /\ OpenSegment = Top
<1>1. /\ cp.start \in Nat /\ curSeg \in Nat /\ Top \in Int /\ cpFile.start \in Nat
      /\ DOMAIN segs = cp.start .. Top
  BY WalAssumption, SMTT(30) DEF TypeOK, FilesTypeOK, MemoryTypeOK, OpTypeOK, Checkpoints, Top, FilesInv
<1>2. Alive = DOMAIN segs
  BY <1>1 DEF Alive, FilesInv
<1>3. DOMAIN segs # {} => OpenStart = cp.start /\ OpenSegment = Top
  <2> SUFFICES ASSUME DOMAIN segs # {}
               PROVE  OpenStart = cp.start /\ OpenSegment = Top
    OBVIOUS
  <2>1. Alive = cp.start .. Top /\ Alive # {} /\ cp.start <= Top /\ Alive \subseteq Nat
        /\ Top \in Nat /\ Alive \subseteq 0 .. Top /\ cp.start \in Alive /\ Top \in Alive
    BY <1>1, <1>2
  <2>2. Oldest(Alive) \in Alive /\ \A h \in Alive : Oldest(Alive) <= h
    BY <2>1, OldestIs
  <2>3. Newest(Alive) \in Alive /\ \A h \in Alive : Newest(Alive) >= h
    BY <2>1, NewestIs
  <2>4. Oldest(Alive) = cp.start /\ Newest(Alive) = Top
    BY <2>1, <2>2, <2>3, <1>1
  <2> QED BY <2>1, <2>4 DEF OpenStart, OpenSegment
<1> QED BY <1>1, <1>2, <1>3 DEF OpenStart, OpenSegment

\* The place in the files of an entry of the new index.
Visible(g, p) == g \in DOMAIN segs /\ p \in 1 .. Whole(g) /\ (g = OpenStart => p > OpenAcked)
EntryAt(g, p) == [seg |-> g, off |-> p - 1, seq |-> segs[g].cells[p]]

\* The index that Open makes has the visible records, and no others.
LEMMA EntryIs ==
    ASSUME TypeOK, FilesInv, CellsInv, NEW e
    PROVE  e \in OpenEntries <=> \E g, p : Visible(g, p) /\ e = EntryAt(g, p)
<1>1. Alive = DOMAIN segs
  BY AliveIs
<1>2. OpenEntries =
        UNION {{EntryAt(g, p) : p \in {q \in 1 .. Whole(g) : g = OpenStart => q > OpenAcked}} :
                   g \in DOMAIN segs}
  <2>1. ASSUME NEW g \in DOMAIN segs
        PROVE  {[seg |-> g, off |-> p - 1, seq |-> SeqAt(g, p)] :
                   p \in {q \in Records(g) : g = OpenStart => q > OpenAcked}}
               = {EntryAt(g, p) : p \in {q \in 1 .. Whole(g) : g = OpenStart => q > OpenAcked}}
    BY ScanIs, ZenonT(60) DEF EntryAt
  <2> QED BY <2>1, <1>1 DEF OpenEntries
<1>3. e \in OpenEntries <=>
        \E g \in DOMAIN segs :
            \E p \in {q \in 1 .. Whole(g) : g = OpenStart => q > OpenAcked} : e = EntryAt(g, p)
  BY <1>2
<1> QED BY <1>3 DEF Visible

\* The order of the scan.
LEMMA BeforeIs ==
    ASSUME TypeOK, FilesInv, CellsInv
    PROVE  /\ OpenEntries \subseteq Entries
           /\ \A e \in OpenEntries : ~Before(e, e)
           /\ \A d, e, f \in OpenEntries : Before(d, e) /\ Before(e, f) => Before(d, f)
           /\ \A d, e \in OpenEntries : d = e \/ Before(d, e) \/ Before(e, d)
<1>1. ASSUME NEW e \in OpenEntries
      PROVE  e \in Entries /\ e.off < SegSize /\ e.seg \in DOMAIN segs /\ e.seq = segs[e.seg].cells[e.off + 1]
  <2>1. PICK g, p : Visible(g, p) /\ e = EntryAt(g, p)
    BY EntryIs
  <2>2. g \in DOMAIN segs /\ p \in 1 .. Whole(g) /\ g \in 0 .. LastSegment
    BY <2>1 DEF Visible, TypeOK, FilesTypeOK, MemoryTypeOK, OpTypeOK
  <2>3. /\ Whole(g) \in 0 .. Len(segs[g].cells) /\ Whole(g) <= SegSize /\ Len(segs[g].cells) \in Nat
        /\ \A q \in 1 .. Len(segs[g].cells) :
              segs[g].cells[q] \in 0 .. LastSeq /\ (segs[g].cells[q] # Torn <=> q <= Whole(g))
    BY <2>2, WholeIs
  <2>4. p - 1 \in Nat /\ p - 1 < SegSize /\ segs[g].cells[p] \in 1 .. LastSeq /\ p - 1 + 1 = p
    BY <2>2, <2>3, WalAssumption DEF Torn
  <2> QED BY <2>1, <2>2, <2>4 DEF EntryAt, Entries
<1>2. \A e \in OpenEntries : e.seg \in Int /\ e.off \in Int
  BY <1>1 DEF Entries
<1>3. ASSUME NEW d \in OpenEntries, NEW e \in OpenEntries, d.seg = e.seg, d.off = e.off
      PROVE  d = e
  BY <1>1, <1>3 DEF Entries
<1> QED BY <1>1, <1>2, <1>3 DEF Before

\* The index has every entry once, in the order of the scan.
LEMMA IndexIs ==
    ASSUME TypeOK, FilesInv, CellsInv
    PROVE  /\ OpenIndex \in Seq(OpenEntries)
           /\ Len(OpenIndex) = Cardinality(OpenEntries)
           /\ \A i \in 1 .. Len(OpenIndex) : OpenIndex[i] \in OpenEntries /\ Rank(OpenIndex[i]) = i - 1
           /\ \A i, j \in 1 .. Len(OpenIndex) : i < j => Before(OpenIndex[i], OpenIndex[j])
<1> DEFINE S == OpenEntries
           n == Cardinality(S)
           Lower(e) == {d \in S : Before(d, e)}
<1>1. IsFiniteSet(S) /\ n \in Nat
  <2>1. IsFiniteSet((0 .. LastSegment) \X (0 .. SegSize))
    <3>1. IsFiniteSet(0 .. LastSegment) /\ IsFiniteSet(0 .. SegSize)
      BY WalAssumption, FS_Interval
    <3> QED BY <3>1, FS_Product
  <2> DEFINE f == [e \in S |-> <<e.seg, e.off>>]
  <2>2. ASSUME NEW e \in S PROVE <<e.seg, e.off>> \in (0 .. LastSegment) \X (0 .. SegSize)
    <3>1. PICK g, p : Visible(g, p) /\ e = EntryAt(g, p)
      BY EntryIs
    <3>2. g \in DOMAIN segs /\ p \in 1 .. Whole(g) /\ g \in 0 .. LastSegment
      BY <3>1 DEF Visible, TypeOK, FilesTypeOK, MemoryTypeOK, OpTypeOK
    <3>3. Whole(g) \in Nat /\ Whole(g) <= SegSize
      BY <3>2, WholeIs
    <3> QED BY <3>1, <3>2, <3>3, WalAssumption DEF EntryAt
  <2>3. \A d, e \in S : d.seg = e.seg /\ d.off = e.off => d = e
    <3>1. \A e \in S : e.seg \in Int /\ e.off \in Int
      BY BeforeIs DEF Entries
    <3> QED BY <3>1, BeforeIs DEF Before
  <2>4. f \in Injection(S, (0 .. LastSegment) \X (0 .. SegSize))
    BY <2>2, <2>3 DEF Injection, IsInjective
  <2> QED BY <2>1, <2>4, FS_Injection, FS_CardinalityType
<1>2. ASSUME NEW e \in S
      PROVE  IsFiniteSet(Lower(e)) /\ Rank(e) = Cardinality(Lower(e)) /\ Rank(e) \in 0 .. n - 1
  <2>1. Lower(e) \in SUBSET (S \ {e})
    BY BeforeIs
  <2>2. IsFiniteSet(S \ {e}) /\ Cardinality(S \ {e}) = n - 1
    BY <1>1, FS_RemoveElement
  <2>3. IsFiniteSet(Lower(e)) /\ Cardinality(Lower(e)) <= n - 1
    BY <2>1, <2>2, FS_Subset
  <2>4. Cardinality(Lower(e)) \in Nat
    BY <2>3, FS_CardinalityType
  <2> QED BY <2>3, <2>4, <1>1 DEF Rank
<1>8. ASSUME NEW e \in S PROVE Rank(e) \in Int
  <2>1. Rank(e) \in 0 .. n - 1
    BY <1>2
  <2> QED BY <2>1
<1>3. ASSUME NEW d \in S, NEW e \in S, Before(d, e)
      PROVE  Rank(d) < Rank(e)
  <2>1. Lower(d) \in SUBSET Lower(e) /\ d \in Lower(e) /\ d \notin Lower(d)
    BY <1>3, BeforeIs
  <2>2. Cardinality(Lower(d)) <= Cardinality(Lower(e)) /\ Cardinality(Lower(d)) # Cardinality(Lower(e))
    BY <2>1, <1>2, FS_Subset
  <2>3. Rank(d) = Cardinality(Lower(d)) /\ Rank(e) = Cardinality(Lower(e)) /\ Rank(d) \in Int /\ Rank(e) \in Int
    BY <1>2, <1>8
  <2> QED BY <2>2, <2>3
<1>4. \A i \in 1 .. n : \E e \in S : Rank(e) = i - 1
  <2> DEFINE r == [e \in S |-> Rank(e)]
  <2>1. IsFiniteSet(0 .. n - 1) /\ Cardinality(0 .. n - 1) = n
    BY <1>1, FS_Interval, SMTT(30)
  <2>2. r \in [S -> 0 .. n - 1]
    BY <1>2
  <2>3. ASSUME NEW d \in S, NEW e \in S, r[d] = r[e] PROVE d = e
    <3>1. Rank(d) = Rank(e) /\ Rank(d) \in Int
      BY <2>3, <1>8
    <3>2. ~Before(d, e) /\ ~Before(e, d)
      BY <3>1, <1>3
    <3> QED BY <3>2, BeforeIs
  <2>4. r \in Injection(S, 0 .. n - 1)
    BY <2>2, <2>3 DEF Injection, IsInjective
  <2>5. r \in Surjection(S, 0 .. n - 1)
    BY <2>1, <2>4, FS_Injection
  <2>6. \A k \in 0 .. n - 1 : \E e \in S : r[e] = k
    BY <2>5 DEF Surjection
  <2>7. \A i \in 1 .. n : i - 1 \in 0 .. n - 1
    BY <1>1
  <2> QED BY <2>6, <2>7
<1>5. \A i \in 1 .. n : OpenIndex[i] \in S /\ Rank(OpenIndex[i]) = i - 1
  BY <1>4 DEF OpenIndex
<1>6. OpenIndex \in Seq(S) /\ Len(OpenIndex) = n
  <2>1. OpenIndex = [i \in 1 .. n |-> OpenIndex[i]]
    BY DEF OpenIndex
  <2>2. OpenIndex \in [1 .. n -> S]
    BY <2>1, <1>5
  <2> QED BY <2>2, <1>1
<1>7. ASSUME NEW i \in 1 .. n, NEW j \in 1 .. n, i < j
      PROVE  Before(OpenIndex[i], OpenIndex[j])
  <2> DEFINE d == OpenIndex[i]
             e == OpenIndex[j]
  <2>1. d \in S /\ e \in S /\ Rank(d) < Rank(e)
    BY <1>5, <1>7, <1>1
  <2>2. Rank(d) \in Int /\ Rank(e) \in Int
    BY <2>1, <1>8
  <2>3. d # e /\ ~Before(e, d)
    BY <2>1, <2>2, <1>3
  <2> QED BY <2>1, <2>3, BeforeIs
<1> QED BY <1>5, <1>6, <1>7

-----------------------------------------------------------------------------
(***************************************************************************)
(* Every step keeps WalInv.                                                *)
(***************************************************************************)
\* Before the first Open.
LEMMA InitWal == Init => WalInv
<1> SUFFICES ASSUME Init PROVE WalInv
  OBVIOUS
<1>1. TypeOK
  <2>1. FilesTypeOK
    BY DEF Init, FilesTypeOK
  <2>2. MemoryTypeOK
    <3>1. <<>> \in Seq(Entries)
      OBVIOUS
    <3> QED BY <3>1, WalAssumption DEF Init, MemoryTypeOK, Checkpoints
  <2>3. OpTypeOK
    <3>1. 0 \in 0 .. MaxBatch /\ 0 \in 0 .. MaxFaults
      BY WalAssumption
    <3> QED BY <3>1, Zenon DEF Init, OpTypeOK
  <2> QED BY <2>1, <2>2, <2>3 DEF TypeOK
<1>2. FilesInv /\ CellsInv
  BY WalAssumption DEF Init, FilesInv, CellsInv, Top, NewFile
<1>3. StageInv /\ TailInv /\ IndexInv
  BY DEF Init, StageInv, TailInv, IndexInv
<1> QED BY <1>1, <1>2, <1>3 DEF WalInv

\* A step that touches neither the files nor the index, and saves a checkpoint or not.
LEMMA QuietWal ==
    ASSUME WalInv, OpTypeOK', StageInv',
           UNCHANGED <<segs, cp, pending, cur, curSeg, curOff, running>>,
           cpFile' \in {cpFile, cp}, Ahead' = Ahead
    PROVE  WalInv'
<1>1. TypeOK'
  <2>1. FilesTypeOK'
    BY DEF WalInv, TypeOK, FilesTypeOK
  <2>2. MemoryTypeOK'
    BY DEF WalInv, TypeOK, MemoryTypeOK
  <2> QED BY <2>1, <2>2 DEF TypeOK
<1>2. FilesInv'
  <2>1. cp.start \in Int
    BY WalAssumption DEF WalInv, TypeOK, MemoryTypeOK, Checkpoints
  <2> QED BY <2>1 DEF WalInv, FilesInv, Top
<1>3. CellsInv' /\ TailInv' /\ IndexInv'
  BY DEF WalInv, CellsInv, TailInv, IndexInv, Readable
<1> QED BY <1>1, <1>2, <1>3 DEF WalInv

\* An append begins; nothing of the log changes.
LEMMA StartAppendWal == ASSUME WalInv, StartAppend PROVE WalInv'
<1>1. /\ left' \in 1 .. MaxBatch /\ cp.next + left' - 1 <= LastSeq
      /\ op = "idle" /\ op' = "space" /\ todo' = {} /\ running
      /\ UNCHANGED <<segs, cpFile, cp, pending, cur, curSeg, curOff, running, promised, committed, faults>>
  BY DEF StartAppend, At, NoFault, diskVars, memVars, history
<1>2. grouped' \in BOOLEAN /\ (~grouped' => left' = 1)
  <2>1. grouped' = TRUE \/ grouped' = (left' > 1)
    BY Zenon DEF StartAppend
  <2>2. (left' > 1) \in BOOLEAN /\ (~(left' > 1) => left' = 1)
    BY <1>1, WalAssumption
  <2>3. CASE grouped' = TRUE
    BY <2>3
  <2>4. CASE grouped' = (left' > 1)
    BY <2>2, <2>4, Zenon
  <2> QED BY <2>1, <2>3, <2>4
<1>3. OpTypeOK'
  BY <1>1, <1>2, WalAssumption DEF WalInv, TypeOK, OpTypeOK
<1>4. StageInv' /\ Ahead' = Ahead
  BY <1>1, <1>2 DEF WalInv, StageInv, Ahead
<1> QED BY <1>1, <1>3, <1>4, QuietWal

\* ensureSpace finds room.
LEMMA RoomLeftWal == ASSUME WalInv, RoomLeft PROVE WalInv'
<1> USE DEF RoomLeft, At, Go, NoFault, diskVars, memVars, history
<1>1. OpTypeOK'
  BY DEF WalInv, TypeOK, OpTypeOK
<1>2. StageInv' /\ Ahead' = Ahead
  BY WalAssumption DEF WalInv, TypeOK, MemoryTypeOK, StageInv, Ahead, Fits
<1> QED BY <1>1, <1>2, QuietWal

\* ensureSpace fails at a closed file.
LEMMA CloseFailsWal == ASSUME WalInv, CloseFails PROVE WalInv'
<1> USE DEF CloseFails, At, Return, NoFault, diskVars, memVars, history
<1>1. OpTypeOK'
  BY WalAssumption DEF WalInv, TypeOK, OpTypeOK
<1>2. StageInv' /\ Ahead' = Ahead
  BY DEF WalInv, StageInv, Ahead
<1> QED BY <1>1, <1>2, QuietWal

\* The file written to exists.
LEMMA CurrentIs ==
    ASSUME WalInv, cur = "open"
    PROVE  /\ curSeg \in DOMAIN segs /\ curSeg \in Nat /\ curOff \in Nat
           /\ segs[curSeg] \in [cells : Seq(-LastSeq .. LastSeq), synced : Nat]
           /\ segs \in [DOMAIN segs -> [cells : Seq(-LastSeq .. LastSeq), synced : Nat]]
<1>1. curSeg \in DOMAIN segs /\ curSeg \in Nat /\ curOff \in Nat
  BY WalAssumption DEF WalInv, FilesInv, Top, TypeOK, MemoryTypeOK, Checkpoints
<1> QED BY <1>1 DEF WalInv, TypeOK, FilesTypeOK

\* A failed write leaves the file as it is.
LEMMA WriteFailsIs == ASSUME WalInv, CleanCuts, WriteFails PROVE segs' = segs
<1>1. segs' = [segs EXCEPT ![curSeg].cells = @ \o <<>>] /\ cur = "open"
  BY DEF CleanCuts, WriteFails
<1>2. curSeg \in DOMAIN segs
  BY <1>1, CurrentIs
<1>3. segs[curSeg].cells \o <<>> = segs[curSeg].cells
  BY <1>2, WholeIs, ConcatEmptySeq DEF WalInv
<1>4. segs[curSeg] \in [cells : Seq(-LastSeq .. LastSeq), synced : Nat]
  BY <1>1, CurrentIs
<1>5. [segs[curSeg] EXCEPT !.cells = segs[curSeg].cells] = segs[curSeg]
  BY <1>4
<1>6. segs' = [segs EXCEPT ![curSeg] = [segs[curSeg] EXCEPT !.cells = segs[curSeg].cells \o <<>>]]
  BY <1>1, Zenon
<1>7. segs' = [segs EXCEPT ![curSeg] = segs[curSeg]]
  BY <1>6, <1>3, <1>5
<1>8. segs \in [DOMAIN segs -> [cells : Seq(-LastSeq .. LastSeq), synced : Nat]]
  BY <1>1, CurrentIs
<1> QED BY <1>2, <1>7, <1>8

\* A failed write, which leaves nothing behind.
LEMMA WriteFailsWal == ASSUME WalInv, CleanCuts, WriteFails PROVE WalInv'
<1>1. segs' = segs
  BY WriteFailsIs
<1>2. OpTypeOK'
  BY WalAssumption DEF WalInv, TypeOK, OpTypeOK, WriteFails, At, Return, Fault, memVars, history
<1>3. StageInv' /\ Ahead' = Ahead
  BY DEF WalInv, StageInv, Ahead, WriteFails, At, Return, memVars
<1>4. UNCHANGED <<cp, pending, cur, curSeg, curOff, running, cpFile>>
  BY DEF WriteFails, memVars
<1> QED BY <1>1, <1>2, <1>3, <1>4, QuietWal

\* A failed fsync.
LEMMA SyncFailsWal == ASSUME WalInv, CleanCuts, SyncFails PROVE WalInv'
<1> USE DEF SyncFails, At, Return, Fault, diskVars, memVars, history
<1>1. OpTypeOK'
  BY WalAssumption DEF WalInv, TypeOK, OpTypeOK
<1>2. grouped
  <2>1. <<Torn>> # <<>>
    OBVIOUS
  <2> QED BY <2>1 DEF CleanCuts
<1>3. StageInv' /\ Ahead' = Ahead
  BY <1>2 DEF WalInv, StageInv, Ahead
<1> QED BY <1>1, <1>3, QuietWal

\* A failed removal.
LEMMA RemoveFailsWal == ASSUME WalInv, RemoveFails PROVE WalInv'
<1> USE DEF RemoveFails, Return, Fault, diskVars, memVars, history
<1>1. OpTypeOK'
  BY WalAssumption DEF WalInv, TypeOK, OpTypeOK
<1>2. StageInv' /\ Ahead' = Ahead
  BY DEF WalInv, StageInv, Ahead
<1> QED BY <1>1, <1>2, QuietWal

\* The checkpoint is saved, or not; the log itself does not change.
LEMMA SaveWal ==
    ASSUME WalInv, SkipOrSave \/ SaveAfterRemoval \/ SetCursor
    PROVE  WalInv'
<1>1. /\ cpFile' \in {cpFile, cp} /\ op \notin {"space", "write", "sync"} /\ running
      /\ UNCHANGED <<segs, cp, pending, cur, curSeg, curOff, running, promised, committed, faults>>
      /\ Return \/ UNCHANGED opVars
  BY DEF SkipOrSave, SaveAfterRemoval, SetCursor, At, NoFault, memVars, history
<1>2. CASE Return
  <2>1. OpTypeOK'
    BY <1>1, <1>2, WalAssumption DEF WalInv, TypeOK, OpTypeOK, Return
  <2>2. StageInv' /\ Ahead' = Ahead
    BY <1>1, <1>2 DEF WalInv, StageInv, Ahead, Return
  <2> QED BY <1>1, <2>1, <2>2, QuietWal
<1>3. CASE UNCHANGED opVars
  <2>1. OpTypeOK'
    BY <1>1, <1>3 DEF WalInv, TypeOK, OpTypeOK, opVars
  <2>2. StageInv' /\ Ahead' = Ahead
    BY <1>1, <1>3 DEF WalInv, StageInv, Ahead, opVars
  <2> QED BY <1>1, <2>1, <2>2, QuietWal
<1> QED BY <1>1, <1>2, <1>3

\* The file a rotation opens is new and the last.
LEMMA RotateIs ==
    ASSUME WalInv, Rotate
    PROVE  /\ op = "space" /\ running /\ cur \in {"none", "open"}
           /\ cur = "open" => curOff = SegSize
           /\ curSeg' = Top + 1 /\ curSeg' = (IF cur = "none" THEN curSeg ELSE curSeg + 1)
           /\ curSeg' \in 0 .. LastSegment /\ cp.start <= curSeg'
           /\ curSeg' \notin DOMAIN segs /\ DOMAIN segs' = DOMAIN segs \cup {curSeg'}
           /\ \A g \in DOMAIN segs : segs'[g] = segs[g]
           /\ segs'[curSeg'] = NewFile /\ curOff' = 0 /\ cur' = "open"
           /\ op' = "write" /\ UNCHANGED <<todo, left, grouped, cpFile, cp, pending, running,
                                           promised, committed, faults>>
<1>1. /\ op = "space" /\ running
      /\ op' = "write" /\ UNCHANGED <<todo, left, grouped, cpFile, cp, pending, running,
                                      promised, committed, faults>>
      /\ cur \in {"none", "open"} /\ (cur = "open" => ~Fits)
      /\ OpenFile(IF cur = "none" THEN curSeg ELSE curSeg + 1)
  BY DEF Rotate, At, Go, NoFault, history
<1> DEFINE g == IF cur = "none" THEN curSeg ELSE curSeg + 1
<1>2. /\ curSeg \in Nat /\ cp.start \in Nat /\ curOff \in Nat /\ cp.start <= curSeg
      /\ DOMAIN segs = cp.start .. Top
  BY WalAssumption DEF WalInv, FilesInv, TypeOK, MemoryTypeOK, Checkpoints
<1>3. g = Top + 1 /\ g \notin DOMAIN segs /\ g \in Nat /\ cp.start <= g
  BY <1>1, <1>2 DEF Top
<1>4. cur = "open" => curOff = SegSize
  <2> SUFFICES ASSUME cur = "open" PROVE curOff = SegSize
    OBVIOUS
  <2>1. Len(segs[curSeg].cells) = curOff + Ahead /\ Ahead = 0
    BY <1>1 DEF WalInv, TailInv, Ahead
  <2>2. curSeg \in DOMAIN segs /\ Len(segs[curSeg].cells) <= SegSize
    BY CurrentIs DEF WalInv, CellsInv
  <2>3. ~(curOff + 1 <= SegSize)
    BY <1>1 DEF Fits
  <2> QED BY <2>1, <2>2, <2>3, <1>2, WalAssumption
<1>5. /\ g <= LastSegment /\ cur' = "open" /\ curSeg' = g /\ curOff' = Len(segs'[g].cells)
      /\ segs' = [f \in DOMAIN segs \cup {g} |-> IF f \in DOMAIN segs THEN segs[f] ELSE NewFile]
  BY <1>1 DEF OpenFile
<1>6. segs'[g] = NewFile /\ curOff' = 0
  BY <1>3, <1>5 DEF NewFile
<1> QED BY <1>1, <1>3, <1>4, <1>5, <1>6, WalAssumption

\* A new file is written to.
LEMMA RotateWal == ASSUME WalInv, Rotate PROVE WalInv'
<1>1. /\ op = "space" /\ running
      /\ curSeg' = Top + 1 /\ curSeg' \in 0 .. LastSegment /\ cp.start <= curSeg'
      /\ curSeg' \notin DOMAIN segs /\ DOMAIN segs' = DOMAIN segs \cup {curSeg'}
      /\ \A g \in DOMAIN segs : segs'[g] = segs[g]
      /\ segs'[curSeg'] = NewFile /\ curOff' = 0 /\ cur' = "open"
      /\ op' = "write" /\ UNCHANGED <<todo, left, grouped, cpFile, cp, pending, running,
                                      promised, committed, faults>>
  BY RotateIs
<1>2. TypeOK'
  <2>1. FilesTypeOK'
    <3>1. \A g \in DOMAIN segs' : segs'[g] \in [cells : Seq(-LastSeq .. LastSeq), synced : Nat]
                                  /\ segs'[g].synced <= Len(segs'[g].cells)
      <4>1. NewFile \in [cells : Seq(-LastSeq .. LastSeq), synced : Nat]
            /\ NewFile.synced <= Len(NewFile.cells)
        BY DEF NewFile
      <4> QED BY <4>1, <1>1 DEF WalInv, TypeOK, FilesTypeOK
    <3>2. segs' = [g \in DOMAIN segs' |-> segs'[g]]
      <4>1. \E g \in Nat : segs' = [f \in DOMAIN segs \cup {g} |->
                                      IF f \in DOMAIN segs THEN segs[f] ELSE NewFile]
        <5>1. curSeg \in Nat /\ curSeg + 1 \in Nat
          BY WalAssumption DEF WalInv, TypeOK, MemoryTypeOK
        <5> QED BY <5>1 DEF Rotate, OpenFile
      <4> QED BY <4>1
    <3>3. DOMAIN segs' \subseteq 0 .. LastSegment
      BY <1>1 DEF WalInv, TypeOK, FilesTypeOK
    <3> QED BY <3>1, <3>2, <3>3 DEF FilesTypeOK
  <2>2. MemoryTypeOK'
    BY <1>1, WalAssumption DEF WalInv, TypeOK, MemoryTypeOK
  <2>3. OpTypeOK'
    BY <1>1 DEF WalInv, TypeOK, OpTypeOK
  <2> QED BY <2>1, <2>2, <2>3 DEF TypeOK
<1>3. FilesInv'
  <2>1. cp.start \in Int /\ Top \in Int
    BY WalAssumption DEF WalInv, TypeOK, MemoryTypeOK, Checkpoints, Top
  <2>2. DOMAIN segs' = cp'.start .. Top'
    BY <1>1, <2>1 DEF WalInv, FilesInv, Top
  <2> QED BY <1>1, <2>2 DEF WalInv, FilesInv
<1>4. CellsInv'
  BY <1>1, WalAssumption DEF WalInv, CellsInv, NewFile
<1>5. StageInv'
  BY <1>1, WalAssumption DEF WalInv, StageInv
<1>6. TailInv'
  BY <1>1 DEF TailInv, Ahead, NewFile
<1>7. IndexInv'
  BY <1>1 DEF WalInv, IndexInv, Readable
<1> QED BY <1>2, <1>3, <1>4, <1>5, <1>6, <1>7 DEF WalInv

\* The new file cannot be made.
LEMMA RotateFailsWal == ASSUME WalInv, RotateFails PROVE WalInv'
<1>1. /\ op = "space" /\ running /\ Return /\ cur \in {"none", "open"}
      /\ faults' = faults + 1 /\ faults < MaxFaults
      /\ cur' = (IF cur = "none" THEN cur ELSE "closed")
      /\ curSeg' = (IF cur = "none" THEN curSeg ELSE curSeg + 1)
      /\ UNCHANGED <<segs, cpFile, cp, pending, curOff, running, promised, committed>>
  BY DEF RotateFails, At, Fault, diskVars, history
<1>2. curSeg \in Nat /\ cp.start \in Nat /\ Top \in Int /\ curSeg <= LastSegment + 1
      /\ cp.start <= curSeg /\ (cur = "open" => curSeg <= LastSegment)
  <2>1. cur = "open" => curSeg \in DOMAIN segs
    BY CurrentIs
  <2> QED BY <2>1, WalAssumption, SMTT(30) DEF WalInv, TypeOK, FilesTypeOK, MemoryTypeOK, Checkpoints, Top, FilesInv
<1>3. TypeOK'
  <2>1. FilesTypeOK'
    BY <1>1 DEF WalInv, TypeOK, FilesTypeOK
  <2>2. MemoryTypeOK'
    BY <1>1, <1>2, WalAssumption DEF WalInv, TypeOK, MemoryTypeOK
  <2>3. OpTypeOK'
    BY <1>1, WalAssumption DEF WalInv, TypeOK, OpTypeOK, Return
  <2> QED BY <2>1, <2>2, <2>3 DEF TypeOK
<1>4. FilesInv'
  <2>1. Top' = Top
    BY <1>1, <1>2 DEF Top
  <2> QED BY <1>1, <1>2, <2>1 DEF WalInv, FilesInv
<1>5. CellsInv' /\ StageInv' /\ TailInv' /\ IndexInv'
  BY <1>1 DEF WalInv, CellsInv, StageInv, TailInv, IndexInv, Readable, Return
<1> QED BY <1>3, <1>4, <1>5 DEF WalInv

\* The parts of an entry, and of the checkpoint in memory.
LEMMA PartsAre ==
    ASSUME TypeOK
    PROVE  /\ pending \in Seq(Entries) /\ Len(pending) \in Nat
           /\ \A i \in 1 .. Len(pending) :
                 /\ pending[i] \in Entries /\ pending[i].seg \in Nat /\ pending[i].off \in Nat
                 /\ pending[i].seq \in 1 .. LastSeq
           /\ cp \in Checkpoints /\ cp.next \in Nat /\ cp.start \in Nat /\ cp.acked \in Nat
           /\ cp.next <= LastSeq + 1 /\ cp.start <= LastSegment + 1 /\ cp.acked <= SegSize
           /\ cpFile \in Checkpoints /\ cpFile.next \in Nat /\ cpFile.start \in Nat /\ cpFile.acked \in Nat
           /\ curSeg \in Nat /\ curOff \in Nat
<1>1. pending \in Seq(Entries) /\ Len(pending) \in Nat /\ \A i \in 1 .. Len(pending) : pending[i] \in Entries
  BY DEF TypeOK, MemoryTypeOK
<1>2. \A e \in Entries : e.seg \in Nat /\ e.off \in Nat /\ e.seq \in 1 .. LastSeq
  BY WalAssumption DEF Entries
<1>3. \A c \in Checkpoints : /\ c.next \in Nat /\ c.start \in Nat /\ c.acked \in Nat
                            /\ c.next <= LastSeq + 1 /\ c.start <= LastSegment + 1 /\ c.acked <= SegSize
  BY WalAssumption DEF Checkpoints
<1>4. cp \in Checkpoints /\ cpFile \in Checkpoints /\ curSeg \in Nat /\ curOff \in Nat
  BY WalAssumption DEF TypeOK, MemoryTypeOK
<1> QED BY <1>1, <1>2, <1>3, <1>4

\* A new entry comes after all others.
LEMMA IndexFrameIs ==
    ASSUME WalInv, IndexFrame, running, cur = "open", UNCHANGED <<running, cur, curSeg, cpFile>>,
           DOMAIN segs' = DOMAIN segs,
           \A g \in DOMAIN segs :
              /\ Len(segs'[g].cells) \in Nat /\ Len(segs'[g].cells) >= Len(segs[g].cells)
              /\ \A p \in 1 .. Len(segs[g].cells) : segs'[g].cells[p] = segs[g].cells[p],
           Len(segs'[curSeg].cells) > curOff, segs'[curSeg].cells[curOff + 1] = cp.next,
           cp.next <= LastSeq
    PROVE  IndexInv' /\ MemoryTypeOK' /\ cp'.next = cp.next + 1
           /\ cp'.start = cp.start /\ cp'.acked = cp.acked
<1> DEFINE new == [seg |-> curSeg, off |-> curOff, seq |-> cp.next]
<1>1. /\ pending \in Seq(Entries) /\ cp \in Checkpoints /\ cp.next \in 1 .. LastSeq /\ new \in Entries
      /\ curSeg \in DOMAIN segs /\ curOff \in Nat /\ Len(pending) \in Nat
  <2>1. curSeg \in DOMAIN segs /\ curOff \in Nat
    BY CurrentIs
  <2>2. pending \in Seq(Entries) /\ cp \in Checkpoints
    BY DEF WalInv, TypeOK, MemoryTypeOK
  <2>3. cp.next \in 1 .. LastSeq
    BY <2>2, WalAssumption DEF WalInv, StageInv, Checkpoints
  <2>4. curSeg \in 0 .. LastSegment
    BY <2>1 DEF WalInv, TypeOK, FilesTypeOK
  <2> QED BY <2>1, <2>2, <2>3, <2>4 DEF Entries
<1>2. /\ cp' \in Checkpoints /\ cp'.next = cp.next + 1 /\ cp'.start = cp.start /\ cp'.acked = cp.acked
      /\ pending' = Append(pending, new) /\ curOff' = curOff + 1
  <2>1. cp' = [cp EXCEPT !.next = cp.next + 1] /\ pending' = Append(pending, new) /\ curOff' = curOff + 1
    BY DEF IndexFrame
  <2>2. cp.next + 1 \in 0 .. LastSeq + 1
    BY <1>1, WalAssumption
  <2> HIDE DEF new
  <2> QED BY <1>1, <2>1, <2>2 DEF Checkpoints
<1>3. /\ pending' \in Seq(Entries) /\ Len(pending') = Len(pending) + 1
      /\ pending'[Len(pending) + 1] = new
      /\ \A i \in 1 .. Len(pending) : pending'[i] = pending[i] /\ pending[i] \in Entries
  BY <1>1, <1>2
<1>4. \A i \in 1 .. Len(pending) :
          /\ Readable(pending[i]) /\ Readable(pending[i])'
          /\ pending[i].seg = curSeg => pending[i].off < curOff
          /\ pending[i].seg \in Nat /\ pending[i].off \in Nat /\ pending[i].seg <= curSeg
          /\ curSeg \in Nat
  <2> TAKE i \in 1 .. Len(pending)
  <2>1. Readable(pending[i]) /\ (pending[i].seg = curSeg => pending[i].off < curOff)
    BY DEF WalInv, IndexInv
  <2>2. pending[i].seg \in Nat /\ pending[i].off \in Nat
    BY PartsAre DEF WalInv
  <2>3. pending[i].seg <= curSeg /\ curSeg \in Nat
    BY <2>1, <2>2, <1>1, WalAssumption, SMTT(30) DEF Readable, WalInv, FilesInv, Top, TypeOK, MemoryTypeOK, Checkpoints
  <2>4. pending'[i] = pending[i]
    BY <1>3
  <2>5. pending[i].off + 1 \in 1 .. Len(segs[pending[i].seg].cells)
    <3>1. Len(segs[pending[i].seg].cells) \in Nat
      BY <2>1, WholeIs DEF Readable, WalInv
    <3> QED BY <2>1, <2>2, <3>1 DEF Readable
  <2>6. Readable(pending[i])'
    <3>1. /\ pending[i].seg \in DOMAIN segs /\ pending[i].off < Len(segs[pending[i].seg].cells)
          /\ segs[pending[i].seg].cells[pending[i].off + 1] = pending[i].seq
      BY <2>1 DEF Readable
    <3>2. /\ Len(segs'[pending[i].seg].cells) \in Nat /\ Len(segs[pending[i].seg].cells) \in Nat
          /\ Len(segs'[pending[i].seg].cells) >= Len(segs[pending[i].seg].cells)
          /\ segs'[pending[i].seg].cells[pending[i].off + 1] = segs[pending[i].seg].cells[pending[i].off + 1]
      BY <3>1, <2>5, SMTT(30)
    <3> QED BY <3>1, <3>2, <2>2, <2>4 DEF Readable
  <2> QED BY <2>1, <2>2, <2>3, <2>4, <2>6
<1>5. ASSUME NEW e, e = new
      PROVE  /\ e.seg \in DOMAIN segs' /\ e.off < Len(segs'[e.seg].cells)
             /\ segs'[e.seg].cells[e.off + 1] = e.seq
             /\ e.seg = curSeg /\ e.off = curOff
  BY <1>1, <1>5
<1>6. IndexInv'
  <2>1. ASSUME NEW i \in 1 .. Len(pending')
        PROVE  Readable(pending[i])' /\ (pending'[i].seg = curSeg => pending'[i].off < curOff')
    <3>1. CASE i \in 1 .. Len(pending)
      BY <3>1, <1>1, <1>2, <1>3, <1>4
    <3>2. CASE i = Len(pending) + 1
      <4>1. pending'[i] = new
        BY <3>2, <1>3
      <4>2. /\ pending'[i].seg \in DOMAIN segs' /\ pending'[i].off < Len(segs'[pending'[i].seg].cells)
            /\ segs'[pending'[i].seg].cells[pending'[i].off + 1] = pending'[i].seq
            /\ pending'[i].seg = curSeg /\ pending'[i].off = curOff
        BY <4>1, <1>5
      <4>3. curOff < curOff'
        BY <1>1, <1>2
      <4> QED BY <4>2, <4>3 DEF Readable
    <3> QED BY <3>1, <3>2, <1>1, <1>3
  <2>2. ASSUME NEW i \in 1 .. Len(pending'), NEW j \in 1 .. Len(pending'), i < j
        PROVE  Before(pending'[i], pending'[j])
    <3>1. i \in 1 .. Len(pending)
      BY <2>2, <1>1, <1>3
    <3>2. CASE j \in 1 .. Len(pending)
      BY <2>2, <3>1, <3>2, <1>3 DEF WalInv, IndexInv
    <3>3. CASE j = Len(pending) + 1
      <4>1. pending'[i] = pending[i] /\ pending'[j] = new
        BY <3>1, <3>3, <1>3
      <4>2. pending[i].seg < curSeg \/ (pending[i].seg = curSeg /\ pending[i].off < curOff)
        BY <3>1, <1>4
      <4> QED BY <4>1, <4>2 DEF Before
    <3> QED BY <3>2, <3>3, <1>1, <1>3
  <2> QED BY <2>1, <2>2 DEF IndexInv
<1>7. MemoryTypeOK'
  <2>1. cpFile' \in Checkpoints
    BY DEF WalInv, TypeOK, MemoryTypeOK
  <2> QED BY <1>1, <1>2, <1>3, <2>1 DEF WalInv, TypeOK, MemoryTypeOK
<1> QED BY <1>2, <1>6, <1>7

\* A record written is the last one of the open file.
LEMMA WriteIs ==
    ASSUME WalInv, WriteFrame
    PROVE  /\ op = "write" /\ running /\ cur = "open" /\ curSeg \in DOMAIN segs /\ DOMAIN segs' = DOMAIN segs
           /\ curOff < SegSize /\ cp.next <= LastSeq /\ left >= 1
           /\ \A g \in DOMAIN segs : g # curSeg => segs'[g] = segs[g]
           /\ segs'[curSeg].synced = segs[curSeg].synced
           /\ Len(segs[curSeg].cells) = curOff /\ Len(segs'[curSeg].cells) = curOff + 1
           /\ \A p \in 1 .. curOff : segs'[curSeg].cells[p] = segs[curSeg].cells[p]
           /\ segs'[curSeg].cells[curOff + 1] = cp.next
           /\ todo' = todo \cup {cp.next} /\ left' = left - 1
           /\ op' = (IF left > 1 THEN "space" ELSE "sync")
           /\ UNCHANGED <<cpFile, cur, curSeg, grouped, running, promised, committed, faults>>
           /\ IF grouped THEN IndexFrame ELSE UNCHANGED <<cp, pending, curOff>>
           /\ FilesTypeOK'
<1>1. /\ op = "write" /\ running /\ cur = "open"
      /\ segs' = [segs EXCEPT ![curSeg].cells = Append(@, cp.next)]
      /\ todo' = todo \cup {cp.next} /\ left' = left - 1
      /\ op' = (IF left > 1 THEN "space" ELSE "sync")
      /\ UNCHANGED <<cpFile, cur, curSeg, grouped, running, promised, committed, faults>>
      /\ IF grouped THEN IndexFrame ELSE UNCHANGED <<cp, pending, curOff>>
  BY DEF WriteFrame, At, AppendCell, NoFault, history
<1>2. /\ curSeg \in DOMAIN segs /\ curOff \in Nat
      /\ segs[curSeg] \in [cells : Seq(-LastSeq .. LastSeq), synced : Nat]
      /\ segs \in [DOMAIN segs -> [cells : Seq(-LastSeq .. LastSeq), synced : Nat]]
      /\ DOMAIN segs \subseteq 0 .. LastSegment
      /\ \A g \in DOMAIN segs : segs[g].synced <= Len(segs[g].cells)
  BY <1>1, CurrentIs DEF WalInv, TypeOK, FilesTypeOK
<1>3. /\ curOff < SegSize /\ left >= 1 /\ cp.next >= 1 /\ cp.next + left - 1 <= LastSeq
      /\ Len(segs[curSeg].cells) = curOff
  BY <1>1, <1>2 DEF WalInv, StageInv, TailInv, Ahead
<1>4. cp.next \in -LastSeq .. LastSeq /\ cp.next <= LastSeq
  <2>1. cp.next \in Nat /\ left \in Nat
    BY PartsAre, WalAssumption DEF WalInv, TypeOK, OpTypeOK
  <2> QED BY <1>3, <2>1, WalAssumption
<1>5. LET t == Append(segs[curSeg].cells, cp.next)
      IN  /\ t \in Seq(-LastSeq .. LastSeq) /\ Len(t) = curOff + 1 /\ t[curOff + 1] = cp.next
          /\ \A p \in 1 .. curOff : t[p] = segs[curSeg].cells[p]
  BY <1>2, <1>3, <1>4
<1> DEFINE t == Append(segs[curSeg].cells, cp.next)
<1> HIDE DEF t
<1>6. segs' = [segs EXCEPT ![curSeg] = [segs[curSeg] EXCEPT !.cells = t]]
  BY <1>1, Zenon DEF t
<1>7. /\ [segs[curSeg] EXCEPT !.cells = t] \in [cells : Seq(-LastSeq .. LastSeq), synced : Nat]
      /\ [segs[curSeg] EXCEPT !.cells = t].cells = t
      /\ [segs[curSeg] EXCEPT !.cells = t].synced = segs[curSeg].synced
  BY <1>2, <1>5 DEF t
<1> DEFINE r == [segs[curSeg] EXCEPT !.cells = t]
<1> HIDE DEF r
<1>8. /\ DOMAIN segs' = DOMAIN segs /\ segs'[curSeg] = r
      /\ \A g \in DOMAIN segs : g # curSeg => segs'[g] = segs[g]
      /\ segs' \in [DOMAIN segs -> [cells : Seq(-LastSeq .. LastSeq), synced : Nat]]
  BY <1>2, <1>6, <1>7 DEF r
<1>9. FilesTypeOK'
  <2>1. \A g \in DOMAIN segs : segs'[g].synced <= Len(segs'[g].cells)
    <3>1. segs'[curSeg].synced <= Len(segs'[curSeg].cells)
      <4>1. segs[curSeg].synced <= curOff /\ segs[curSeg].synced \in Nat
        BY <1>2, <1>3
      <4> QED BY <4>1, <1>2, <1>5, <1>7, <1>8 DEF r, t
    <3> QED BY <3>1, <1>2, <1>8
  <2> QED BY <2>1, <1>2, <1>8 DEF FilesTypeOK
<1> QED BY <1>1, <1>2, <1>3, <1>4, <1>5, <1>7, <1>8, <1>9 DEF r, t

\* A record is written, and indexed or not yet.
LEMMA WriteFrameWal == ASSUME WalInv, WriteFrame PROVE WalInv'
<1>1. /\ op = "write" /\ running /\ cur = "open" /\ curSeg \in DOMAIN segs /\ DOMAIN segs' = DOMAIN segs
      /\ curOff < SegSize /\ cp.next <= LastSeq /\ left >= 1
      /\ \A g \in DOMAIN segs : g # curSeg => segs'[g] = segs[g]
      /\ Len(segs[curSeg].cells) = curOff /\ Len(segs'[curSeg].cells) = curOff + 1
      /\ \A p \in 1 .. curOff : segs'[curSeg].cells[p] = segs[curSeg].cells[p]
      /\ segs'[curSeg].cells[curOff + 1] = cp.next
      /\ todo' = todo \cup {cp.next} /\ left' = left - 1
      /\ op' = (IF left > 1 THEN "space" ELSE "sync")
      /\ UNCHANGED <<cpFile, cur, curSeg, grouped, running, promised, committed, faults>>
      /\ IF grouped THEN IndexFrame ELSE UNCHANGED <<cp, pending, curOff>>
      /\ FilesTypeOK'
  BY WriteIs
<1>2. cp.next \in 1 .. LastSeq /\ curOff \in Nat /\ left \in Int
  BY <1>1, PartsAre, WalAssumption, SMTT(30) DEF WalInv, TypeOK, OpTypeOK, StageInv
<1>3. CellsInv'
  <2> SUFFICES ASSUME NEW g \in DOMAIN segs
               PROVE  /\ Len(segs'[g].cells) <= SegSize
                      /\ \A p \in 1 .. Len(segs'[g].cells) :
                            segs'[g].cells[p] \in 0 .. LastSeq /\ segs'[g].cells[p] # Torn
    BY <1>1 DEF CellsInv
  <2>1. CASE g # curSeg
    BY <2>1, <1>1 DEF WalInv, CellsInv
  <2>2. CASE g = curSeg
    <3>1. \A p \in 1 .. curOff : segs[g].cells[p] \in 0 .. LastSeq /\ segs[g].cells[p] # Torn
      BY <2>2, <1>1 DEF WalInv, CellsInv
    <3> QED BY <2>2, <3>1, <1>1, <1>2, WalAssumption, SMTT(30) DEF Torn
  <2> QED BY <2>1, <2>2
<1>4. IndexInv' /\ MemoryTypeOK' /\ cp'.start = cp.start /\ cp'.acked = cp.acked
      /\ cp'.next = (IF grouped THEN cp.next + 1 ELSE cp.next)
      /\ curOff' = (IF grouped THEN curOff + 1 ELSE curOff)
  <2>1. ASSUME NEW g \in DOMAIN segs
        PROVE  /\ Len(segs'[g].cells) \in Nat /\ Len(segs'[g].cells) >= Len(segs[g].cells)
               /\ \A p \in 1 .. Len(segs[g].cells) : segs'[g].cells[p] = segs[g].cells[p]
    <3>1. Len(segs[g].cells) \in Nat
      BY WholeIs DEF WalInv
    <3> QED BY <3>1, <1>1, <1>2
  <2>2. CASE grouped
    <3>1. IndexFrame /\ UNCHANGED <<running, cur, curSeg, cpFile>> /\ Len(segs'[curSeg].cells) > curOff
      BY <2>2, <1>1, <1>2
    <3>2. curOff' = curOff + 1
      BY <3>1 DEF IndexFrame
    <3> QED BY <2>1, <2>2, <3>1, <3>2, <1>1, IndexFrameIs
  <2>3. CASE ~grouped
    <3>1. UNCHANGED <<running, cur, curSeg, cpFile, cp, pending, curOff>>
      BY <2>3, <1>1
    <3>2. MemoryTypeOK'
      BY <3>1 DEF WalInv, TypeOK, MemoryTypeOK
    <3>3. \A i \in 1 .. Len(pending) :
             /\ pending[i].seg \in DOMAIN segs /\ pending[i].off < Len(segs[pending[i].seg].cells)
             /\ segs[pending[i].seg].cells[pending[i].off + 1] = pending[i].seq
             /\ pending[i].off + 1 \in 1 .. Len(segs[pending[i].seg].cells)
      <4> TAKE i \in 1 .. Len(pending)
      <4>1. /\ pending[i].seg \in DOMAIN segs /\ pending[i].off < Len(segs[pending[i].seg].cells)
            /\ segs[pending[i].seg].cells[pending[i].off + 1] = pending[i].seq
        BY <1>1 DEF WalInv, IndexInv, Readable
      <4>2. pending[i].off \in Nat /\ Len(segs[pending[i].seg].cells) \in Nat
        BY <4>1, PartsAre, WholeIs DEF WalInv
      <4> QED BY <4>1, <4>2
    <3>4. \A i \in 1 .. Len(pending) :
             /\ pending[i].seg \in DOMAIN segs' /\ pending[i].off < Len(segs'[pending[i].seg].cells)
             /\ segs'[pending[i].seg].cells[pending[i].off + 1] = pending[i].seq
      <4> TAKE i \in 1 .. Len(pending)
      <4>1. /\ pending[i].seg \in DOMAIN segs /\ pending[i].off < Len(segs[pending[i].seg].cells)
            /\ segs[pending[i].seg].cells[pending[i].off + 1] = pending[i].seq
            /\ pending[i].off + 1 \in 1 .. Len(segs[pending[i].seg].cells)
        BY <3>3
      <4>2. /\ Len(segs'[pending[i].seg].cells) \in Nat
            /\ Len(segs'[pending[i].seg].cells) >= Len(segs[pending[i].seg].cells)
            /\ segs'[pending[i].seg].cells[pending[i].off + 1] = segs[pending[i].seg].cells[pending[i].off + 1]
        BY <4>1, <2>1
      <4>3. pending[i].off \in Nat /\ Len(segs[pending[i].seg].cells) \in Nat
        BY <4>1, PartsAre, WholeIs DEF WalInv
      <4> QED BY <1>1, <4>1, <4>2, <4>3
    <3>5. IndexInv'
      BY <3>1, <3>4, <1>1 DEF WalInv, IndexInv, Readable
    <3> QED BY <2>3, <3>1, <3>2, <3>5
  <2> QED BY <2>2, <2>3
<1>5. FilesInv'
  BY <1>1, <1>4 DEF WalInv, FilesInv, Top
<1>6. OpTypeOK'
  <2>1. /\ todo \subseteq 1 .. LastSeq /\ left \in 0 .. MaxBatch /\ grouped \in BOOLEAN /\ running \in BOOLEAN
        /\ promised \subseteq 1 .. LastSeq /\ committed \subseteq 1 .. LastSeq /\ faults \in 0 .. MaxFaults
    BY DEF WalInv, TypeOK, OpTypeOK
  <2>2. left' \in 0 .. MaxBatch /\ todo' \subseteq 1 .. LastSeq
    <3>1. left' = left - 1 /\ left >= 1 /\ todo' = todo \cup {cp.next}
      BY <1>1
    <3>2. left - 1 \in 0 .. MaxBatch
      BY <2>1, <3>1, WalAssumption
    <3>3. todo \cup {cp.next} \subseteq 1 .. LastSeq
      BY <2>1, <1>2
    <3> QED BY <3>1, <3>2, <3>3
  <2>3. op' \in {"space", "sync"}
    BY <1>1
  <2> QED BY <2>1, <2>2, <2>3, <1>1 DEF OpTypeOK
<1>7. StageInv'
  <2>1. cp.next + left - 1 <= LastSeq /\ (~grouped => left = 1 /\ todo = {}) /\ cp.next >= 1
    BY <1>1 DEF WalInv, StageInv
  <2>2. cp'.next + left' - 1 <= LastSeq /\ cp'.next >= 1 /\ (left > 1 => left' >= 1)
    <3>1. cp'.next = cp.next + 1 \/ cp'.next = cp.next
      BY <1>4
    <3>2. left' = left - 1 /\ left \in Int /\ cp.next \in Int /\ LastSeq \in Int
      BY <1>1, <1>2, WalAssumption
    <3> QED BY <2>1, <3>1, <3>2
  <2>3. op' = "space" \/ op' = "sync"
    BY <1>1
  <2>4. left > 1 => grouped
    BY <2>1
  <2> QED BY <2>1, <2>2, <2>3, <2>4, <1>1, <1>4 DEF StageInv
<1>8. TailInv'
  <2>1. Ahead' = (IF grouped THEN 0 ELSE 1)
    <3>1. ~grouped => op' = "sync"
      BY <1>1, <1>2 DEF WalInv, StageInv
    <3> QED BY <3>1, <1>1 DEF Ahead
  <2> QED BY <2>1, <1>1, <1>2, <1>4 DEF TailInv
<1> QED BY <1>1, <1>3, <1>4, <1>5, <1>6, <1>7, <1>8 DEF WalInv, TypeOK

\* An fsync changes what is certain, and indexes the frame of Append.
LEMMA SyncIs ==
    ASSUME WalInv, Sync
    PROVE  /\ op = "sync" /\ running /\ cur = "open" /\ curSeg \in DOMAIN segs /\ DOMAIN segs' = DOMAIN segs
           /\ \A g \in DOMAIN segs : segs'[g].cells = segs[g].cells
           /\ promised' = promised \cup todo /\ Return
           /\ UNCHANGED <<cpFile, cur, curSeg, running, committed, faults>>
           /\ IF grouped THEN UNCHANGED <<cp, pending, curOff>> ELSE IndexFrame
           /\ FilesTypeOK'
<1>1. /\ op = "sync" /\ running /\ cur = "open"
      /\ segs' = [segs EXCEPT ![curSeg].synced = Len(segs[curSeg].cells)]
      /\ promised' = promised \cup todo /\ Return
      /\ UNCHANGED <<cpFile, cur, curSeg, running, committed, faults>>
      /\ IF grouped THEN UNCHANGED <<cp, pending, curOff>> ELSE IndexFrame
  BY DEF Sync, At, NoFault, WalInv, StageInv
<1>2. /\ curSeg \in DOMAIN segs
      /\ segs[curSeg] \in [cells : Seq(-LastSeq .. LastSeq), synced : Nat]
      /\ segs \in [DOMAIN segs -> [cells : Seq(-LastSeq .. LastSeq), synced : Nat]]
      /\ DOMAIN segs \subseteq 0 .. LastSegment
      /\ \A g \in DOMAIN segs : segs[g].synced <= Len(segs[g].cells)
      /\ Len(segs[curSeg].cells) \in Nat
  BY <1>1, CurrentIs, WholeIs DEF WalInv, TypeOK, FilesTypeOK
<1> DEFINE r == [segs[curSeg] EXCEPT !.synced = Len(segs[curSeg].cells)]
<1>3. /\ r \in [cells : Seq(-LastSeq .. LastSeq), synced : Nat]
      /\ r.cells = segs[curSeg].cells /\ r.synced = Len(segs[curSeg].cells)
  BY <1>2
<1>4. segs' = [segs EXCEPT ![curSeg] = r]
  BY <1>1, Zenon
<1> HIDE DEF r
<1>5. /\ DOMAIN segs' = DOMAIN segs /\ segs'[curSeg] = r
      /\ \A g \in DOMAIN segs : g # curSeg => segs'[g] = segs[g]
      /\ segs' \in [DOMAIN segs -> [cells : Seq(-LastSeq .. LastSeq), synced : Nat]]
  BY <1>2, <1>3, <1>4
<1>6. FilesTypeOK'
  <2>1. ASSUME NEW g \in DOMAIN segs PROVE segs'[g].synced <= Len(segs'[g].cells)
    <3>1. CASE g = curSeg
      BY <3>1, <1>2, <1>3, <1>5
    <3>2. CASE g # curSeg
      <4>1. segs'[g] = segs[g] /\ segs[g].synced <= Len(segs[g].cells)
        BY <3>2, <1>2, <1>5
      <4> QED BY <4>1
    <3> QED BY <3>1, <3>2
  <2> QED BY <2>1, <1>2, <1>5 DEF FilesTypeOK
<1>7. \A g \in DOMAIN segs : segs'[g].cells = segs[g].cells
  BY <1>3, <1>5
<1> QED BY <1>1, <1>2, <1>5, <1>6, <1>7

\* The file is synced; Append's frame is indexed.
LEMMA SyncWal == ASSUME WalInv, Sync PROVE WalInv'
<1>1. /\ op = "sync" /\ running /\ cur = "open" /\ curSeg \in DOMAIN segs /\ DOMAIN segs' = DOMAIN segs
      /\ \A g \in DOMAIN segs : segs'[g].cells = segs[g].cells
      /\ promised' = promised \cup todo /\ Return
      /\ UNCHANGED <<cpFile, cur, curSeg, running, committed, faults>>
      /\ IF grouped THEN UNCHANGED <<cp, pending, curOff>> ELSE IndexFrame
      /\ FilesTypeOK'
  BY SyncIs
<1>2. /\ Len(segs[curSeg].cells) = curOff + (IF grouped THEN 0 ELSE 1) /\ curOff \in Nat
      /\ ~grouped => segs[curSeg].cells[curOff + 1] = cp.next
      /\ cp.next >= 1 /\ cp.next \in Nat
  BY <1>1, PartsAre DEF WalInv, TailInv, Ahead, StageInv
<1>3. ~grouped => cp.next <= LastSeq
  <2> SUFFICES ASSUME ~grouped PROVE cp.next <= LastSeq
    OBVIOUS
  <2>1. curOff + 1 \in 1 .. Len(segs[curSeg].cells)
    BY <1>2
  <2>2. segs[curSeg].cells[curOff + 1] \in 0 .. LastSeq
    BY <1>1, <2>1 DEF WalInv, CellsInv
  <2> QED BY <2>2, <1>2
<1>4. IndexInv' /\ MemoryTypeOK' /\ cp'.start = cp.start /\ cp'.acked = cp.acked
      /\ cp'.next = (IF grouped THEN cp.next ELSE cp.next + 1)
      /\ curOff' = (IF grouped THEN curOff ELSE curOff + 1)
  <2>1. CASE grouped
    <3>1. UNCHANGED <<running, cur, curSeg, cpFile, cp, pending, curOff>>
      BY <2>1, <1>1
    <3>2. MemoryTypeOK'
      BY <3>1 DEF WalInv, TypeOK, MemoryTypeOK
    <3>3. \A i \in 1 .. Len(pending) : Readable(pending[i])'
      BY <3>1, <1>1 DEF WalInv, IndexInv, Readable
    <3>4. IndexInv'
      BY <3>1, <3>3, <1>1 DEF WalInv, IndexInv
    <3> QED BY <2>1, <3>1, <3>2, <3>4
  <2>2. CASE ~grouped
    <3>1. IndexFrame /\ UNCHANGED <<running, cur, curSeg, cpFile>> /\ cp.next <= LastSeq
          /\ Len(segs'[curSeg].cells) > curOff /\ segs'[curSeg].cells[curOff + 1] = cp.next
      BY <2>2, <1>1, <1>2, <1>3
    <3>2. ASSUME NEW g \in DOMAIN segs
          PROVE  /\ Len(segs'[g].cells) \in Nat /\ Len(segs'[g].cells) >= Len(segs[g].cells)
                 /\ \A p \in 1 .. Len(segs[g].cells) : segs'[g].cells[p] = segs[g].cells[p]
      <4>1. Len(segs[g].cells) \in Nat
        BY WholeIs DEF WalInv
      <4> QED BY <4>1, <1>1
    <3>3. curOff' = curOff + 1
      BY <3>1 DEF IndexFrame
    <3> QED BY <2>2, <3>1, <3>2, <3>3, <1>1, IndexFrameIs
  <2> QED BY <2>1, <2>2
<1>5. FilesInv'
  BY <1>1, <1>2, <1>4 DEF WalInv, FilesInv, Top
<1>6. CellsInv'
  BY <1>1 DEF WalInv, CellsInv
<1>7. OpTypeOK'
  BY <1>1, WalAssumption DEF WalInv, TypeOK, OpTypeOK, Return
<1>8. StageInv'
  BY <1>1, <1>2, <1>4 DEF StageInv, Return
<1>9. TailInv'
  BY <1>1, <1>2, <1>4 DEF TailInv, Ahead, Return
<1> QED BY <1>1, <1>4, <1>5, <1>6, <1>7, <1>8, <1>9 DEF WalInv, TypeOK

\* The index gets shorter from the front.
LEMMA CommitIs ==
    ASSUME WalInv, Commit
    PROVE  /\ op = "idle" /\ running /\ pending # <<>> /\ Len(pending) \in Nat \ {0} /\ Head(pending) = pending[1]
           /\ cp'.next = cp.next /\ cp'.start = cp.start /\ cp'.acked = pending[1].off + 1
           /\ cp'.acked \in 1 .. SegSize /\ MemoryTypeOK'
           /\ Len(pending') = Len(pending) - 1
           /\ \A i \in 1 .. Len(pending') : pending'[i] = pending[i + 1] /\ i + 1 \in 1 .. Len(pending)
           /\ committed' = committed \cup {pending[1].seq}
           /\ op' = "clean" /\ UNCHANGED <<todo, left, grouped, segs, cpFile, cur, curSeg, curOff, running,
                                           promised, faults>>
<1>1. /\ op = "idle" /\ running /\ pending # <<>>
      /\ cp' = [cp EXCEPT !.acked = Head(pending).off + 1] /\ pending' = Tail(pending)
      /\ committed' = committed \cup {Head(pending).seq}
      /\ op' = "clean" /\ UNCHANGED <<todo, left, grouped, segs, cpFile, cur, curSeg, curOff, running,
                                      promised, faults>>
  BY DEF Commit, At, Go, NoFault, diskVars
<1>2. pending \in Seq(Entries) /\ cp \in Checkpoints /\ curSeg \in Nat /\ Len(pending) \in Nat
  BY PartsAre DEF WalInv
<1>3. /\ Len(pending) \in Nat \ {0} /\ Head(pending) = pending[1] /\ 1 \in 1 .. Len(pending)
      /\ Tail(pending) \in Seq(Entries) /\ Len(Tail(pending)) = Len(pending) - 1
      /\ \A i \in 1 .. Len(pending) - 1 : Tail(pending)[i] = pending[i + 1] /\ i + 1 \in 1 .. Len(pending)
  BY <1>1, <1>2
<1>4. pending[1].off + 1 \in 1 .. SegSize
  <2>1. pending[1].seg \in DOMAIN segs /\ pending[1].off < Len(segs[pending[1].seg].cells) /\ pending[1].off \in Nat
    BY <1>1, <1>3, PartsAre DEF WalInv, IndexInv, Readable
  <2>2. Len(segs[pending[1].seg].cells) <= SegSize /\ Len(segs[pending[1].seg].cells) \in Nat
    BY <2>1, WholeIs DEF WalInv, CellsInv
  <2> QED BY <2>1, <2>2, WalAssumption
<1>5. /\ cp' \in Checkpoints /\ cp'.next = cp.next /\ cp'.start = cp.start /\ cp'.acked = pending[1].off + 1
  <2>1. cp' = [cp EXCEPT !.acked = pending[1].off + 1] /\ pending[1].off + 1 \in 0 .. SegSize
    BY <1>1, <1>3, <1>4, WalAssumption
  <2> QED BY <1>2, <2>1 DEF Checkpoints
<1>6. MemoryTypeOK'
  BY <1>1, <1>3, <1>5 DEF WalInv, TypeOK, MemoryTypeOK
<1> QED BY <1>1, <1>3, <1>4, <1>5, <1>6

\* The head of the index is confirmed.
LEMMA CommitWal == ASSUME WalInv, Commit PROVE WalInv'
<1>1. /\ op = "idle" /\ running /\ Len(pending) \in Nat \ {0}
      /\ cp'.next = cp.next /\ cp'.start = cp.start
      /\ cp'.acked \in 1 .. SegSize /\ MemoryTypeOK'
      /\ Len(pending') = Len(pending) - 1
      /\ \A i \in 1 .. Len(pending') : pending'[i] = pending[i + 1] /\ i + 1 \in 1 .. Len(pending)
      /\ committed' = committed \cup {pending[1].seq}
      /\ op' = "clean" /\ UNCHANGED <<todo, left, grouped, segs, cpFile, cur, curSeg, curOff, running,
                                      promised, faults>>
  BY CommitIs
<1>2. TypeOK'
  <2>1. FilesTypeOK'
    BY <1>1 DEF WalInv, TypeOK, FilesTypeOK
  <2>2. 1 \in 1 .. Len(pending) /\ pending[1].seq \in 1 .. LastSeq
    BY <1>1, PartsAre DEF WalInv
  <2>3. OpTypeOK'
    BY <1>1, <2>2 DEF WalInv, TypeOK, OpTypeOK
  <2> QED BY <1>1, <2>1, <2>3 DEF TypeOK
<1>3. FilesInv' /\ CellsInv' /\ StageInv' /\ TailInv'
  <2>1. cp'.acked <= SegSize
    BY <1>1, WalAssumption
  <2>2. FilesInv'
    BY <1>1, <2>1 DEF WalInv, FilesInv, Top
  <2>3. CellsInv'
    BY <1>1 DEF WalInv, CellsInv
  <2>4. DOMAIN segs # {}
    <3>1. 1 \in 1 .. Len(pending)
      BY <1>1
    <3> QED BY <3>1, <1>1 DEF WalInv, IndexInv, Readable
  <2>5. StageInv'
    BY <1>1, <2>4 DEF WalInv, StageInv
  <2>6. TailInv'
    BY <1>1 DEF WalInv, TailInv, Ahead
  <2> QED BY <2>2, <2>3, <2>5, <2>6
<1>4. IndexInv'
  <2>1. ASSUME NEW i \in 1 .. Len(pending')
        PROVE  Readable(pending[i])' /\ (cur' = "open" /\ pending'[i].seg = curSeg' => pending'[i].off < curOff')
    <3>1. pending'[i] = pending[i + 1] /\ i + 1 \in 1 .. Len(pending)
      BY <1>1
    <3> QED BY <3>1, <1>1 DEF WalInv, IndexInv, Readable
  <2>2. ASSUME NEW i \in 1 .. Len(pending'), NEW j \in 1 .. Len(pending'), i < j
        PROVE  Before(pending'[i], pending'[j])
    <3>1. pending'[i] = pending[i + 1] /\ i + 1 \in 1 .. Len(pending)
      BY <1>1
    <3>2. pending'[j] = pending[j + 1] /\ j + 1 \in 1 .. Len(pending)
      BY <1>1
    <3>3. i + 1 < j + 1
      BY <2>2
    <3> QED BY <3>1, <3>2, <3>3, <1>1 DEF WalInv, IndexInv
  <2> QED BY <2>1, <2>2 DEF IndexInv
<1> QED BY <1>2, <1>3, <1>4 DEF WalInv

\* What is removed is the oldest segment, and the index has nothing in it.
LEMMA RemoveIs ==
    ASSUME WalInv, RemoveSegment
    PROVE  /\ op \in {"clean", "cleaned"} /\ running
           /\ DOMAIN segs' = DOMAIN segs \ {cp.start} /\ \A g \in DOMAIN segs' : segs'[g] = segs[g]
           /\ cp'.next = cp.next /\ cp'.start = cp.start + 1 /\ cp'.acked = 0
           /\ IF cp.start = curSeg THEN cur' = "none" /\ curSeg' = curSeg + 1 /\ curOff' = 0
                                   ELSE UNCHANGED <<cur, curSeg, curOff>>
           /\ \A i \in 1 .. Len(pending) : pending[i].seg > cp.start
           /\ op' = (IF pending = <<>> THEN "save" ELSE "cleaned")
           /\ UNCHANGED <<todo, left, grouped, cpFile, pending, running, promised, committed, faults>>
           /\ curSeg' <= LastSegment + 1 /\ MemoryTypeOK' /\ FilesTypeOK'
<1>1. /\ op \in {"clean", "cleaned"} /\ running
      /\ segs' = [g \in DOMAIN segs \ {cp.start} |-> segs[g]]
      /\ cp' = [cp EXCEPT !.start = @ + 1, !.acked = 0]
      /\ IF cp.start = curSeg THEN cur' = "none" /\ curSeg' = curSeg + 1 /\ curOff' = 0
                              ELSE UNCHANGED <<cur, curSeg, curOff>>
      /\ pending # <<>> => Head(pending).seg # cp.start
      /\ op' = (IF pending = <<>> THEN "save" ELSE "cleaned")
      /\ UNCHANGED <<todo, left, grouped, cpFile, pending, running, promised, committed, faults>>
  BY DEF RemoveSegment, SegDone, Go, NoFault, history
<1>2. /\ cp.start \in Nat /\ curSeg \in Nat /\ cp \in Checkpoints /\ DOMAIN segs = cp.start .. Top /\ DOMAIN segs # {}
      /\ cp.start <= curSeg
  BY <1>1, PartsAre DEF WalInv, StageInv, FilesInv
<1>3. cp.start \in DOMAIN segs /\ cp.start <= LastSegment /\ curSeg <= LastSegment + 1
      /\ (cp.start = curSeg => cur = "open")
  <2>1. cp.start <= Top /\ Top \in Int
    BY <1>2 DEF Top
  <2>2. cp.start \in DOMAIN segs
    BY <1>2, <2>1
  <2>3. curSeg <= LastSegment + 1
    BY DEF WalInv, TypeOK, MemoryTypeOK
  <2>4. cp.start <= LastSegment
    BY <2>2 DEF WalInv, TypeOK, FilesTypeOK
  <2> QED BY <1>2, <2>1, <2>2, <2>3, <2>4 DEF Top
<1>4. /\ cp' \in Checkpoints /\ cp'.next = cp.next /\ cp'.start = cp.start + 1 /\ cp'.acked = 0
  <2>1. cp' = [cp EXCEPT !.start = cp.start + 1, !.acked = 0]
    BY <1>1, <1>2 DEF Checkpoints
  <2>2. cp.start + 1 \in 0 .. LastSegment + 1 /\ 0 \in 0 .. SegSize
    BY <1>2, <1>3, WalAssumption
  <2> QED BY <1>2, <2>1, <2>2 DEF Checkpoints
<1>5. \A i \in 1 .. Len(pending) : pending[i].seg > cp.start
  <2> TAKE i \in 1 .. Len(pending)
  <2>1. pending \in Seq(Entries) /\ Len(pending) \in Nat /\ pending # <<>> /\ 1 \in 1 .. Len(pending)
        /\ Head(pending) = pending[1]
    BY PartsAre DEF WalInv
  <2>2. pending[1].seg \in cp.start .. Top /\ pending[1].seg # cp.start /\ pending[1].seg \in Nat
    BY <1>1, <1>2, <2>1, PartsAre DEF WalInv, IndexInv, Readable
  <2>3. pending[i].seg \in Nat
    BY PartsAre DEF WalInv
  <2>4. i = 1 \/ Before(pending[1], pending[i])
    <3>1. i = 1 \/ 1 < i
      OBVIOUS
    <3> QED BY <1>1, <2>1, <3>1 DEF WalInv, IndexInv
  <2> QED BY <1>2, <2>2, <2>3, <2>4 DEF Before
<1>6. MemoryTypeOK' /\ curSeg' <= LastSegment + 1
  <2>1. curSeg + 1 \in 0 .. LastSegment + 1 \/ cp.start # curSeg
    BY <1>2, <1>3, WalAssumption
  <2>2. curSeg' \in 0 .. LastSegment + 1 /\ curOff' \in Nat /\ cur' \in {"open", "none", "closed"}
    BY <1>1, <2>1 DEF WalInv, TypeOK, MemoryTypeOK
  <2> QED BY <1>1, <1>4, <2>2, WalAssumption DEF WalInv, TypeOK, MemoryTypeOK
<1>7. DOMAIN segs' = DOMAIN segs \ {cp.start} /\ \A g \in DOMAIN segs' : segs'[g] = segs[g]
  BY <1>1
<1>8. FilesTypeOK'
  BY <1>1, <1>7 DEF WalInv, TypeOK, FilesTypeOK
<1> QED BY <1>1, <1>4, <1>5, <1>6, <1>7, <1>8

\* The oldest file goes, which has no entry.
LEMMA RemoveSegmentWal == ASSUME WalInv, RemoveSegment PROVE WalInv'
<1>1. /\ op \in {"clean", "cleaned"} /\ running
      /\ DOMAIN segs' = DOMAIN segs \ {cp.start} /\ \A g \in DOMAIN segs' : segs'[g] = segs[g]
      /\ cp'.next = cp.next /\ cp'.start = cp.start + 1 /\ cp'.acked = 0
      /\ IF cp.start = curSeg THEN cur' = "none" /\ curSeg' = curSeg + 1 /\ curOff' = 0
                              ELSE UNCHANGED <<cur, curSeg, curOff>>
      /\ \A i \in 1 .. Len(pending) : pending[i].seg > cp.start
      /\ op' = (IF pending = <<>> THEN "save" ELSE "cleaned")
      /\ UNCHANGED <<todo, left, grouped, cpFile, pending, running, promised, committed, faults>>
      /\ MemoryTypeOK' /\ FilesTypeOK'
  BY RemoveIs
<1>2. /\ cp.start \in Nat /\ curSeg \in Nat /\ cpFile.start \in Nat /\ DOMAIN segs = cp.start .. Top /\ DOMAIN segs # {}
      /\ cp.start <= curSeg /\ cpFile.start <= cp.start /\ cpFile.acked <= SegSize
      /\ (cur = "none" => cp.start = curSeg /\ curOff = 0)
  BY <1>1, PartsAre DEF WalInv, StageInv, FilesInv
<1>3. cur = "none" => FALSE
  BY <1>2 DEF Top
<1>4. cp.start = curSeg => cur = "open"
  BY <1>2 DEF Top
<1>5. FilesInv'
  <2>1. DOMAIN segs' = cp'.start .. Top'
    <3>1. Top' = Top
      BY <1>1, <1>2, <1>4 DEF Top
    <3> QED BY <3>1, <1>1, <1>2
  <2>2. cp'.start <= curSeg' /\ (cur' = "none" => cp'.start = curSeg' /\ curOff' = 0)
    BY <1>1, <1>2, <1>3
  <2>3. cpFile'.start <= cp'.start /\ cpFile'.acked <= SegSize /\ cp'.acked <= SegSize
    BY <1>1, <1>2, WalAssumption
  <2> QED BY <2>1, <2>2, <2>3 DEF FilesInv
<1>6. CellsInv'
  BY <1>1 DEF WalInv, CellsInv
<1>7. IndexInv'
  <2>1. ASSUME NEW i \in 1 .. Len(pending)
        PROVE  Readable(pending[i])' /\ (cur' = "open" /\ pending[i].seg = curSeg' => pending[i].off < curOff')
    <3>1. pending[i].seg # cp.start /\ pending[i].seg \in DOMAIN segs
      BY <1>1, <1>2, PartsAre DEF WalInv, IndexInv, Readable
    <3>2. pending[i].seg \in DOMAIN segs' /\ segs'[pending[i].seg] = segs[pending[i].seg]
      BY <1>1, <3>1
    <3>3. cur' = "open" => UNCHANGED <<cur, curSeg, curOff>>
      BY <1>1
    <3> QED BY <3>2, <3>3, <1>1 DEF WalInv, IndexInv, Readable
  <2> QED BY <2>1, <1>1 DEF WalInv, IndexInv
<1>8. StageInv'
  <2>1. op' = "cleaned" => DOMAIN segs' # {}
    <3> SUFFICES ASSUME pending # <<>> PROVE DOMAIN segs' # {}
      BY <1>1
    <3>1. 1 \in 1 .. Len(pending)
      BY PartsAre DEF WalInv
    <3>2. pending[1].seg \in DOMAIN segs'
      BY <3>1, <1>1, <1>7 DEF IndexInv, Readable
    <3> QED BY <3>2
  <2> QED BY <2>1, <1>1 DEF WalInv, StageInv
<1>9. TailInv'
  <2>1. cur' = "open" => UNCHANGED <<cur, curSeg, curOff>> /\ curSeg \in DOMAIN segs /\ curSeg # cp.start
    BY <1>1, CurrentIs
  <2> QED BY <2>1, <1>1 DEF WalInv, TailInv, Ahead
<1>10. OpTypeOK'
  BY <1>1 DEF WalInv, TypeOK, OpTypeOK
<1> QED BY <1>1, <1>5, <1>6, <1>7, <1>8, <1>9, <1>10 DEF WalInv, TypeOK

\* When the process stops the files stay as they are.
LEMMA CloseWal == ASSUME WalInv, Close PROVE WalInv'
<1>1. /\ op = "idle" /\ running /\ running' = FALSE /\ cpFile' \in {cpFile, cp}
      /\ UNCHANGED <<segs, cp, pending, cur, curSeg, curOff, op, todo, left, grouped, promised, committed, faults>>
  BY DEF Close, At, NoFault, memVars, opVars, history
<1>2. TypeOK'
  <2>1. FilesTypeOK'
    BY <1>1 DEF WalInv, TypeOK, FilesTypeOK
  <2>2. MemoryTypeOK'
    BY <1>1 DEF WalInv, TypeOK, MemoryTypeOK
  <2>3. OpTypeOK'
    BY <1>1 DEF WalInv, TypeOK, OpTypeOK
  <2> QED BY <2>1, <2>2, <2>3 DEF TypeOK
<1>3. FilesInv'
  <2>1. cp.start \in Int
    BY PartsAre DEF WalInv
  <2> QED BY <1>1, <2>1 DEF WalInv, FilesInv, Top
<1>4. CellsInv' /\ StageInv' /\ TailInv' /\ IndexInv'
  BY <1>1 DEF WalInv, CellsInv, StageInv, TailInv, IndexInv
<1> QED BY <1>2, <1>3, <1>4 DEF WalInv

\* At least what was synced survives.
LEMMA CertainIs ==
    ASSUME WalInv, NEW g \in DOMAIN segs
    PROVE  /\ IsFiniteSet(OfBatch(g)) /\ Cardinality(OfBatch(g)) \in Nat
           /\ Certain(g) \in segs[g].synced .. Len(segs[g].cells)
           /\ segs[g].synced \in Nat /\ Len(segs[g].cells) \in Nat
<1>1. /\ segs[g].synced \in Nat /\ Len(segs[g].cells) \in Nat /\ segs[g].synced <= Len(segs[g].cells)
  BY WholeIs DEF WalInv, TypeOK, FilesTypeOK
<1> DEFINE I == segs[g].synced + 1 .. Len(segs[g].cells)
<1>2. IsFiniteSet(I) /\ Cardinality(I) = Len(segs[g].cells) - segs[g].synced
  <2>1. segs[g].synced + 1 \in Int /\ Len(segs[g].cells) \in Int
    BY <1>1
  <2>2. IsFiniteSet(I) /\ Cardinality(I) = IF segs[g].synced + 1 > Len(segs[g].cells) THEN 0
                                          ELSE Len(segs[g].cells) - (segs[g].synced + 1) + 1
    BY <2>1, FS_Interval
  <2> QED BY <2>2, <1>1
<1>3. OfBatch(g) \in SUBSET I
  BY DEF OfBatch
<1>4. /\ IsFiniteSet(OfBatch(g)) /\ Cardinality(OfBatch(g)) <= Cardinality(I)
  <2> HIDE DEF I
  <2> QED BY <1>2, <1>3, FS_Subset
<1>5. Cardinality(OfBatch(g)) \in Nat
  BY <1>4, FS_CardinalityType
<1> QED BY <1>1, <1>2, <1>4, <1>5 DEF Certain

\* What a crash leaves of a file: a prefix, with a torn cell behind it or not.
LEMMA CrashIs ==
    ASSUME WalInv, CleanCuts, Crash
    PROVE  /\ running /\ running' = FALSE /\ (op \in {"cleaned", "save"} => LagAfterRemoval)
           /\ Return /\ faults < MaxFaults /\ faults' = faults + 1
           /\ UNCHANGED <<cpFile, cp, pending, cur, curSeg, curOff, promised, committed>>
           /\ DOMAIN segs' = DOMAIN segs /\ segs' = [g \in DOMAIN segs |-> segs'[g]]
           /\ \A g \in DOMAIN segs :
                 \E n \in Certain(g) .. Len(segs[g].cells), rest \in {<<>>, <<Torn>>} :
                    /\ segs'[g] = [cells |-> SubSeq(segs[g].cells, 1, n) \o rest, synced |-> segs[g].synced]
                    /\ rest = <<>> \/ n < Len(segs[g].cells) \/ Writing(g)
<1>1. /\ running /\ running' = FALSE /\ (op \in {"cleaned", "save"} => LagAfterRemoval)
      /\ Return /\ faults < MaxFaults /\ faults' = faults + 1
      /\ UNCHANGED <<cpFile, cp, pending, cur, curSeg, curOff, promised, committed>>
  BY DEF Crash, Fault, memVars, history
<1>2. PICK disk \in [DOMAIN segs -> UNION {Survivors(g) : g \in DOMAIN segs}] :
         (\A g \in DOMAIN segs : disk[g] \in Survivors(g)) /\ segs' = disk
  BY DEF Crash
<1>3. ASSUME NEW g \in DOMAIN segs
      PROVE  \E n \in Certain(g) .. Len(segs[g].cells), rest \in {<<>>, <<Torn>>} :
                /\ segs'[g] = [cells |-> SubSeq(segs[g].cells, 1, n) \o rest, synced |-> segs[g].synced]
                /\ rest = <<>> \/ n < Len(segs[g].cells) \/ Writing(g)
  <2>1. ASSUME NEW c PROVE Pieces(c) = {<<>>, <<Torn>>}
    BY DEF CleanCuts, Pieces
  <2> DEFINE Cut(n) == IF n < Len(segs[g].cells) THEN Pieces(segs[g].cells[n + 1])
                       ELSE IF Writing(g) THEN Pieces(cp.next) ELSE {<<>>}
  <2>2. segs'[g] \in UNION {{[cells |-> SubSeq(segs[g].cells, 1, n) \o rest, synced |-> segs[g].synced] :
                                rest \in Cut(n)} : n \in Certain(g) .. Len(segs[g].cells)}
    BY <1>2 DEF Survivors
  <2>3. PICK n \in Certain(g) .. Len(segs[g].cells) :
           segs'[g] \in {[cells |-> SubSeq(segs[g].cells, 1, n) \o rest, synced |-> segs[g].synced] : rest \in Cut(n)}
    BY <2>2
  <2>4. PICK rest \in Cut(n) :
           segs'[g] = [cells |-> SubSeq(segs[g].cells, 1, n) \o rest, synced |-> segs[g].synced]
    BY <2>3
  <2>5. rest \in {<<>>, <<Torn>>} /\ (rest = <<>> \/ n < Len(segs[g].cells) \/ Writing(g))
    <3>1. CASE n < Len(segs[g].cells)
      BY <2>1, <3>1
    <3>2. CASE ~(n < Len(segs[g].cells))
      BY <2>1, <3>2
    <3> QED BY <3>1, <3>2
  <2> QED BY <2>4, <2>5
<1> QED BY <1>1, <1>2, <1>3

\* The same, cell by cell.
LEMMA SurvivorIs ==
    ASSUME WalInv, CleanCuts, Crash, NEW g \in DOMAIN segs
    PROVE  \E n \in Certain(g) .. Len(segs[g].cells) :
              /\ n \in Nat /\ n >= segs[g].synced /\ Len(segs'[g].cells) \in {n, n + 1} /\ segs'[g].synced = segs[g].synced
              /\ Len(segs'[g].cells) = n + 1 => segs'[g].cells[n + 1] = Torn
              /\ Len(segs'[g].cells) = n + 1 => n < Len(segs[g].cells) \/ Writing(g)
              /\ \A p \in 1 .. n : segs'[g].cells[p] = segs[g].cells[p]
              /\ segs'[g] \in [cells : Seq(-LastSeq .. LastSeq), synced : Nat]
<1>1. PICK n \in Certain(g) .. Len(segs[g].cells), rest \in {<<>>, <<Torn>>} :
         /\ segs'[g] = [cells |-> SubSeq(segs[g].cells, 1, n) \o rest, synced |-> segs[g].synced]
         /\ rest = <<>> \/ n < Len(segs[g].cells) \/ Writing(g)
  BY CrashIs
<1>2. /\ segs[g].cells \in Seq(-LastSeq .. LastSeq) /\ segs[g].synced \in Nat /\ n \in 0 .. Len(segs[g].cells)
  <2>1. segs[g] \in [cells : Seq(-LastSeq .. LastSeq), synced : Nat]
    BY DEF WalInv, TypeOK, FilesTypeOK
  <2>2. Certain(g) \in Nat /\ Len(segs[g].cells) \in Nat
    BY CertainIs
  <2> QED BY <2>1, <2>2
<1>3. Torn \in -LastSeq .. LastSeq
  BY WalAssumption DEF Torn
<1> DEFINE t == SubSeq(segs[g].cells, 1, n) \o rest
<1>4. /\ t \in Seq(-LastSeq .. LastSeq)
      /\ rest = <<>> => Len(t) = n
      /\ rest = <<Torn>> => Len(t) = n + 1 /\ t[n + 1] = Torn
      /\ \A p \in 1 .. n : t[p] = segs[g].cells[p]
  <2> DEFINE c == segs[g].cells
             D == -LastSeq .. LastSeq
  <2>1. c \in Seq(D) /\ n \in 0 .. Len(c) /\ Torn \in D
    BY <1>2, <1>3
  <2> HIDE DEF c, D
  <2>2. LET u == SubSeq(c, 1, n) \o rest
        IN  /\ u \in Seq(D) /\ Len(u) = n + Len(rest)
            /\ rest = <<>> => Len(u) = n
            /\ rest = <<Torn>> => Len(u) = n + 1 /\ u[n + 1] = Torn
            /\ \A p \in 1 .. n : u[p] = c[p]
    BY <2>1, CutSeq
  <2> QED BY <2>2 DEF c, D
<1> HIDE DEF t
<1>5. segs'[g] = [cells |-> t, synced |-> segs[g].synced]
  BY <1>1 DEF t
<1>6. segs'[g].cells = t /\ segs'[g].synced = segs[g].synced
      /\ segs'[g] \in [cells : Seq(-LastSeq .. LastSeq), synced : Nat]
  BY <1>2, <1>4, <1>5
<1>7. n \in Nat /\ n # n + 1 /\ n >= segs[g].synced
  BY <1>2, CertainIs
<1>8. CASE rest = <<>>
  BY <1>4, <1>6, <1>7, <1>8
<1>9. CASE rest = <<Torn>>
  <2>1. rest # <<>>
    BY <1>9
  <2> QED BY <2>1, <1>1, <1>4, <1>6, <1>7, <1>9
<1> QED BY <1>8, <1>9

\* What a crash leaves is a prefix, at most one torn cell behind it.
LEMMA CrashWal == ASSUME WalInv, CleanCuts, Crash PROVE WalInv'
<1>1. /\ running /\ running' = FALSE
      /\ Return /\ faults < MaxFaults /\ faults' = faults + 1
      /\ UNCHANGED <<cpFile, cp, pending, cur, curSeg, curOff, promised, committed>>
      /\ DOMAIN segs' = DOMAIN segs /\ segs' = [g \in DOMAIN segs |-> segs'[g]]
  BY CrashIs
<1>2. ASSUME NEW g \in DOMAIN segs
      PROVE  /\ segs'[g] \in [cells : Seq(-LastSeq .. LastSeq), synced : Nat]
             /\ segs'[g].synced <= Len(segs'[g].cells) /\ Len(segs'[g].cells) <= SegSize
             /\ \A p \in 1 .. Len(segs'[g].cells) :
                   /\ segs'[g].cells[p] \in 0 .. LastSeq
                   /\ segs'[g].cells[p] = Torn => p = Len(segs'[g].cells)
  <2>1. PICK n \in Certain(g) .. Len(segs[g].cells) :
           /\ n \in Nat /\ n >= segs[g].synced
           /\ Len(segs'[g].cells) \in {n, n + 1} /\ segs'[g].synced = segs[g].synced
           /\ Len(segs'[g].cells) = n + 1 => segs'[g].cells[n + 1] = Torn
           /\ Len(segs'[g].cells) = n + 1 => n < Len(segs[g].cells) \/ Writing(g)
           /\ \A p \in 1 .. n : segs'[g].cells[p] = segs[g].cells[p]
           /\ segs'[g] \in [cells : Seq(-LastSeq .. LastSeq), synced : Nat]
    BY SurvivorIs
  <2>2. n <= Len(segs[g].cells) /\ Len(segs[g].cells) \in Nat /\ segs[g].synced \in Nat /\ Len(segs[g].cells) <= SegSize
        /\ SegSize \in Nat
    BY <2>1, CertainIs, WalAssumption DEF WalInv, CellsInv
  <2>3. Writing(g) => Len(segs[g].cells) < SegSize
    <3> SUFFICES ASSUME Writing(g) PROVE Len(segs[g].cells) < SegSize
      OBVIOUS
    <3>1. g = curSeg /\ op = "write" /\ cur = "open"
      BY DEF Writing
    <3> QED BY <3>1, <1>1, PartsAre DEF WalInv, StageInv, TailInv, Ahead
  <2>4. Len(segs'[g].cells) <= SegSize /\ segs'[g].synced <= Len(segs'[g].cells)
    BY <2>1, <2>2, <2>3
  <2>5. \A p \in 1 .. n : segs'[g].cells[p] \in 0 .. LastSeq /\ segs'[g].cells[p] # Torn
    <3>1. \A p \in 1 .. n : p \in 1 .. Len(segs[g].cells)
      BY <2>1, <2>2
    <3> QED BY <2>1, <3>1, <1>1 DEF WalInv, CellsInv
  <2>6. ASSUME NEW p \in 1 .. Len(segs'[g].cells)
        PROVE  /\ segs'[g].cells[p] \in 0 .. LastSeq
               /\ segs'[g].cells[p] = Torn => p = Len(segs'[g].cells)
    <3>1. CASE p \in 1 .. n
      BY <2>5, <3>1
    <3>2. CASE p \notin 1 .. n
      <4>1. p = n + 1 /\ Len(segs'[g].cells) = n + 1
        BY <2>1, <3>2
      <4>2. segs'[g].cells[p] = Torn /\ Torn \in 0 .. LastSeq
        <5>1. segs'[g].cells[n + 1] = Torn
          BY <2>1, <4>1
        <5>2. Torn \in 0 .. LastSeq
          BY WalAssumption DEF Torn
        <5> QED BY <4>1, <5>1, <5>2
      <4> QED BY <4>1, <4>2
    <3> QED BY <3>1, <3>2
  <2> QED BY <2>1, <2>4, <2>6
<1>3. FilesTypeOK'
  <2>1. DOMAIN segs \subseteq 0 .. LastSegment
    BY DEF WalInv, TypeOK, FilesTypeOK
  <2>2. segs' \in [DOMAIN segs' -> [cells : Seq(-LastSeq .. LastSeq), synced : Nat]]
    BY <1>1, <1>2
  <2> QED BY <2>1, <2>2, <1>1, <1>2 DEF FilesTypeOK
<1>4. MemoryTypeOK' /\ OpTypeOK'
  <2>1. MemoryTypeOK'
    BY <1>1 DEF WalInv, TypeOK, MemoryTypeOK
  <2>2. OpTypeOK'
    <3>1. 0 \in 0 .. MaxBatch /\ faults' \in 0 .. MaxFaults
      BY <1>1, WalAssumption DEF WalInv, TypeOK, OpTypeOK
    <3>2. /\ promised' \subseteq 1 .. LastSeq /\ committed' \subseteq 1 .. LastSeq
          /\ op' = "idle" /\ todo' = {} /\ left' = 0 /\ grouped' = TRUE /\ running' = FALSE
      BY <1>1 DEF WalInv, TypeOK, OpTypeOK, Return
    <3> QED BY <3>1, <3>2, Zenon DEF OpTypeOK
  <2> QED BY <2>1, <2>2
<1>5. FilesInv'
  BY <1>1 DEF WalInv, FilesInv, Top
<1>6. CellsInv'
  BY <1>1, <1>2 DEF CellsInv
<1>7. StageInv' /\ TailInv' /\ IndexInv'
  BY <1>1 DEF WalInv, StageInv, TailInv, IndexInv, Return
<1> QED BY <1>3, <1>4, <1>5, <1>6, <1>7 DEF WalInv, TypeOK

\* What Open makes of the files: their records, and a file to write to.
LEMMA OpenIs ==
    ASSUME WalInv, Open
    PROVE  /\ ~running /\ running' = TRUE /\ cur' = "open" /\ op = "idle" /\ grouped /\ todo = {}
           /\ UNCHANGED <<cpFile, op, todo, left, grouped, promised, committed, faults>>
           /\ pending' = OpenIndex
           /\ cp' = [next |-> OpenNext, start |-> OpenStart, acked |-> OpenAcked]
           /\ curSeg' = OpenSegment /\ OpenSegment \in 0 .. LastSegment
           /\ OpenAcked \in 0 .. SegSize
           /\ DOMAIN segs' = OpenStart .. OpenSegment /\ OpenStart \in Nat /\ OpenStart <= OpenSegment
           /\ cpFile.start <= OpenStart
           /\ segs' = [g \in DOMAIN segs' |-> segs'[g]]
           /\ DOMAIN segs = {} => /\ OpenStart = cpFile.start /\ OpenSegment = cpFile.start
                                 /\ segs'[OpenSegment] = NewFile /\ curOff' = 0
           /\ DOMAIN segs # {} =>
                 /\ OpenStart = cp.start /\ OpenSegment = Top /\ DOMAIN segs' = DOMAIN segs
                 /\ curOff' = Whole(Top)
                 /\ \A g \in DOMAIN segs :
                       /\ segs'[g] \in [cells : Seq(-LastSeq .. LastSeq), synced : Nat]
                       /\ Len(segs'[g].cells) = Whole(g) /\ segs'[g].synced <= Whole(g)
                       /\ \A p \in 1 .. Whole(g) : segs'[g].cells[p] = segs[g].cells[p]
<1>1. /\ ~running /\ running' = TRUE /\ cur' = "open"
      /\ UNCHANGED <<cpFile, op, todo, left, grouped, promised, committed, faults>>
      /\ pending' = OpenIndex
      /\ cp' = [next |-> OpenNext, start |-> OpenStart, acked |-> OpenAcked]
      /\ curSeg' = OpenSegment /\ OpenSegment <= LastSegment /\ curOff' = OpenOffset
      /\ segs' = [g \in Alive \cup {OpenSegment} |-> IF g \in Alive THEN Repaired(g) ELSE NewFile]
  BY DEF Open, opVars, history
<1>2. op = "idle" /\ grouped /\ todo = {}
  BY <1>1 DEF WalInv, StageInv
<1>3. /\ Alive = DOMAIN segs
      /\ cp.start \in Nat /\ curSeg \in Nat /\ Top \in Int /\ cpFile.start \in Nat
      /\ DOMAIN segs = {} => OpenStart = cpFile.start /\ OpenSegment = OpenStart
      /\ DOMAIN segs # {} => OpenStart = cp.start /\ OpenSegment = Top
  BY AliveIs DEF WalInv
<1>4. OpenAcked \in 0 .. SegSize
  <2>1. cpFile.acked \in Nat /\ cpFile.acked <= SegSize /\ SegSize \in Nat
    BY PartsAre, WalAssumption DEF WalInv, FilesInv
  <2> QED BY <2>1 DEF OpenAcked
<1>5. DOMAIN segs = cp.start .. Top /\ cpFile.start <= cp.start
  BY DEF WalInv, FilesInv
<1>6. CASE DOMAIN segs = {}
  BY <1>1, <1>2, <1>3, <1>4, <1>6, WalAssumption DEF OpenOffset, NewFile
<1>7. CASE DOMAIN segs # {}
  <2>1. cp.start <= Top /\ Top \in DOMAIN segs /\ Top \in Nat
    BY <1>3, <1>5, <1>7
  <2>2. DOMAIN segs' = DOMAIN segs /\ \A g \in DOMAIN segs : segs'[g] = Repaired(g)
    BY <1>1, <1>3, <1>7, <2>1
  <2>3. ASSUME NEW g \in DOMAIN segs
        PROVE  /\ Repaired(g) \in [cells : Seq(-LastSeq .. LastSeq), synced : Nat]
               /\ Len(Repaired(g).cells) = Whole(g) /\ Repaired(g).synced <= Whole(g)
               /\ \A p \in 1 .. Whole(g) : Repaired(g).cells[p] = segs[g].cells[p]
    <3> DEFINE c == SubSeq(segs[g].cells, 1, Whole(g))
               y == Oldest({segs[g].synced, Whole(g)})
    <3>1. Repaired(g) = [cells |-> c, synced |-> y]
      BY ScanIs DEF WalInv
    <3>2. /\ segs[g].cells \in Seq(-LastSeq .. LastSeq) /\ segs[g].synced \in Nat
          /\ Whole(g) \in 0 .. Len(segs[g].cells) /\ Whole(g) \in Nat
      <4>1. segs[g] \in [cells : Seq(-LastSeq .. LastSeq), synced : Nat]
        BY DEF WalInv, TypeOK, FilesTypeOK
      <4>2. Whole(g) \in 0 .. Len(segs[g].cells)
        BY WholeIs DEF WalInv
      <4> QED BY <4>1, <4>2
    <3>3. c \in Seq(-LastSeq .. LastSeq) /\ Len(c) = Whole(g) /\ \A p \in 1 .. Whole(g) : c[p] = segs[g].cells[p]
      <4> DEFINE d == segs[g].cells
                 D == -LastSeq .. LastSeq
                 n == Whole(g)
      <4>1. d \in Seq(D) /\ n \in 0 .. Len(d)
        BY <3>2
      <4> HIDE DEF d, D, n
      <4>2. /\ SubSeq(d, 1, n) \in Seq(D) /\ Len(SubSeq(d, 1, n)) = n
            /\ \A p \in 1 .. n : SubSeq(d, 1, n)[p] = d[p]
        BY <4>1
      <4> QED BY <4>2 DEF d, D, n
    <3>4. y \in Nat /\ y <= Whole(g)
      <4>1. {segs[g].synced, Whole(g)} \subseteq Nat
        BY <3>2
      <4>2. y \in {segs[g].synced, Whole(g)} /\ \A h \in {segs[g].synced, Whole(g)} : y <= h
        BY <4>1, OldestIs
      <4> QED BY <4>1, <4>2
    <3> HIDE DEF c, y
    <3> QED BY <3>1, <3>3, <3>4
  <2>4. curOff' = Whole(Top)
    <3>1. OpenOffset = Len(Repaired(Top).cells)
      BY <1>3, <1>7, <2>1 DEF OpenOffset
    <3> QED BY <3>1, <1>1, <2>1, <2>3
  <2>5. OpenSegment \in 0 .. LastSegment
    BY <1>1, <1>3, <1>7, <2>1, WalAssumption
  <2>6. segs' = [g \in DOMAIN segs' |-> segs'[g]]
    BY <1>1
  <2> QED BY <1>1, <1>2, <1>3, <1>4, <1>5, <1>7, <2>1, <2>2, <2>3, <2>4, <2>5, <2>6, ZenonT(60)
<1> QED BY <1>6, <1>7

\* The next seq is above every seq found, and above the checkpoint's.
LEMMA OpenNextIs ==
    ASSUME TypeOK, FilesInv, CellsInv
    PROVE  /\ OpenNext \in {cpFile.next, 1} \cup {e.seq + 1 : e \in OpenEntries}
           /\ OpenNext >= cpFile.next /\ OpenNext >= 1 /\ \A e \in OpenEntries : OpenNext >= e.seq + 1
           /\ OpenNext \in 1 .. LastSeq + 1
<1> DEFINE S == {cpFile.next, 1} \cup {e.seq + 1 : e \in OpenEntries}
<1>1. S \subseteq 0 .. LastSeq + 1 /\ S # {} /\ LastSeq + 1 \in Nat
  <2>1. \A e \in OpenEntries : e.seq \in 1 .. LastSeq
    BY BeforeIs DEF Entries
  <2>2. cpFile.next \in 0 .. LastSeq + 1
    BY DEF TypeOK, MemoryTypeOK, Checkpoints
  <2> QED BY <2>1, <2>2, WalAssumption
<1>2. Newest(S) \in S /\ \A h \in S : Newest(S) >= h
  <2> HIDE DEF S
  <2> QED BY <1>1, NewestIs
<1>3. OpenNext = Newest(S)
  BY DEF OpenNext
<1>4. OpenNext >= 1 /\ OpenNext >= cpFile.next /\ \A e \in OpenEntries : OpenNext >= e.seq + 1
  <2>1. 1 \in S /\ cpFile.next \in S /\ \A e \in OpenEntries : e.seq + 1 \in S
    OBVIOUS
  <2> HIDE DEF S
  <2> QED BY <1>2, <1>3, <2>1
<1>5. OpenNext \in 1 .. LastSeq + 1
  <2>1. OpenNext \in 0 .. LastSeq + 1
    <3> HIDE DEF S
    <3> QED BY <1>1, <1>2, <1>3
  <2> QED BY <2>1, <1>4, WalAssumption
<1> QED BY <1>2, <1>3, <1>4, <1>5

\* Open makes the memory fit the files again.
LEMMA OpenWal == ASSUME WalInv, Open PROVE WalInv'
<1>1. /\ ~running /\ running' = TRUE /\ cur' = "open" /\ op = "idle" /\ grouped /\ todo = {}
      /\ UNCHANGED <<cpFile, op, todo, left, grouped, promised, committed, faults>>
      /\ pending' = OpenIndex
      /\ cp' = [next |-> OpenNext, start |-> OpenStart, acked |-> OpenAcked]
      /\ curSeg' = OpenSegment /\ OpenSegment \in 0 .. LastSegment
      /\ OpenAcked \in 0 .. SegSize
      /\ DOMAIN segs' = OpenStart .. OpenSegment /\ OpenStart \in Nat /\ OpenStart <= OpenSegment
      /\ cpFile.start <= OpenStart
      /\ segs' = [g \in DOMAIN segs' |-> segs'[g]]
  BY OpenIs
<1>2. DOMAIN segs = {} => /\ OpenStart = cpFile.start /\ OpenSegment = cpFile.start
                          /\ segs'[OpenSegment] = NewFile /\ curOff' = 0
  BY OpenIs
<1>3. DOMAIN segs # {} =>
         /\ OpenStart = cp.start /\ OpenSegment = Top /\ DOMAIN segs' = DOMAIN segs
         /\ curOff' = Whole(Top)
         /\ \A g \in DOMAIN segs :
               /\ segs'[g] \in [cells : Seq(-LastSeq .. LastSeq), synced : Nat]
               /\ Len(segs'[g].cells) = Whole(g) /\ segs'[g].synced <= Whole(g)
               /\ \A p \in 1 .. Whole(g) : segs'[g].cells[p] = segs[g].cells[p]
  BY OpenIs
<1>4. /\ OpenIndex \in Seq(OpenEntries)
      /\ \A i \in 1 .. Len(OpenIndex) : OpenIndex[i] \in OpenEntries
      /\ \A i, j \in 1 .. Len(OpenIndex) : i < j => Before(OpenIndex[i], OpenIndex[j])
  BY IndexIs DEF WalInv
<1>5. OpenEntries \subseteq Entries
  BY BeforeIs DEF WalInv
<1>6. OpenNext \in 1 .. LastSeq + 1
  BY OpenNextIs DEF WalInv
<1>7. ASSUME NEW g \in DOMAIN segs
      PROVE  /\ Whole(g) \in Nat /\ Whole(g) <= SegSize /\ Whole(g) <= Len(segs[g].cells)
             /\ \A p \in 1 .. Whole(g) : segs[g].cells[p] \in 0 .. LastSeq /\ segs[g].cells[p] # Torn
  <2>1. /\ Len(segs[g].cells) \in Nat
        /\ Whole(g) \in 0 .. Len(segs[g].cells) /\ Whole(g) <= SegSize
        /\ \A p \in 1 .. Len(segs[g].cells) :
              segs[g].cells[p] \in 0 .. LastSeq /\ (segs[g].cells[p] # Torn <=> p <= Whole(g))
    BY WholeIs DEF WalInv
  <2> QED BY <2>1
<1>8. ASSUME NEW g \in DOMAIN segs'
      PROVE  /\ segs'[g] \in [cells : Seq(-LastSeq .. LastSeq), synced : Nat]
             /\ segs'[g].synced <= Len(segs'[g].cells) /\ Len(segs'[g].cells) <= SegSize
             /\ \A p \in 1 .. Len(segs'[g].cells) : segs'[g].cells[p] \in 0 .. LastSeq /\ segs'[g].cells[p] # Torn
  <2>1. CASE DOMAIN segs = {}
    <3>1. segs'[g] = NewFile
      BY <2>1, <1>1, <1>2
    <3> QED BY <3>1, WalAssumption DEF NewFile
  <2>2. CASE DOMAIN segs # {}
    <3>1. /\ g \in DOMAIN segs /\ segs'[g] \in [cells : Seq(-LastSeq .. LastSeq), synced : Nat]
          /\ Len(segs'[g].cells) = Whole(g) /\ segs'[g].synced <= Whole(g)
          /\ \A p \in 1 .. Whole(g) : segs'[g].cells[p] = segs[g].cells[p]
      BY <2>2, <1>3
    <3> QED BY <3>1, <1>7
  <2> QED BY <2>1, <2>2
<1>9. FilesTypeOK'
  <2>1. DOMAIN segs' \subseteq 0 .. LastSegment
    <3>1. DOMAIN segs' = OpenStart .. OpenSegment /\ OpenStart \in Nat /\ OpenSegment \in 0 .. LastSegment
      BY <1>1
    <3> QED BY <3>1, WalAssumption
  <2>2. segs' \in [DOMAIN segs' -> [cells : Seq(-LastSeq .. LastSeq), synced : Nat]]
    BY <1>1, <1>8
  <2> QED BY <2>1, <2>2, <1>8 DEF FilesTypeOK
<1>10. curOff' \in Nat /\ Len(segs'[curSeg'].cells) = curOff' /\ curSeg' \in DOMAIN segs'
  <2>1. curSeg' \in DOMAIN segs'
    BY <1>1
  <2>2. CASE DOMAIN segs = {}
    BY <2>1, <2>2, <1>1, <1>2 DEF NewFile
  <2>3. CASE DOMAIN segs # {}
    BY <2>1, <2>3, <1>1, <1>3, <1>7
  <2> QED BY <2>2, <2>3
<1>11. MemoryTypeOK'
  <2>1. cp' \in Checkpoints
    BY <1>1, <1>6, WalAssumption DEF Checkpoints
  <2>2. pending' \in Seq(Entries)
    BY <1>1, <1>4, <1>5, SeqMonotonic
  <2>3. cpFile' \in Checkpoints
    BY <1>1 DEF WalInv, TypeOK, MemoryTypeOK
  <2>4. curSeg' \in 0 .. LastSegment + 1
    BY <1>1, WalAssumption
  <2> QED BY <2>1, <2>2, <2>3, <2>4, <1>1, <1>10 DEF MemoryTypeOK
<1>12. OpTypeOK'
  BY <1>1 DEF WalInv, TypeOK, OpTypeOK
<1>13. FilesInv'
  <2>1. Top' = OpenSegment /\ cp'.start = OpenStart /\ cp'.acked = OpenAcked
    BY <1>1 DEF Top
  <2>2. cpFile'.acked <= SegSize /\ cp'.acked <= SegSize
    BY <1>1, <2>1, WalAssumption DEF WalInv, FilesInv
  <2> QED BY <1>1, <2>1, <2>2 DEF FilesInv
<1>14. CellsInv'
  BY <1>8 DEF CellsInv
<1>15. StageInv'
  BY <1>1, <1>6 DEF WalInv, StageInv
<1>16. TailInv'
  BY <1>1, <1>10 DEF TailInv, Ahead
<1>17. IndexInv'
  <2>1. ASSUME NEW i \in 1 .. Len(pending')
        PROVE  Readable(pending[i])' /\ (pending'[i].seg = curSeg' => pending'[i].off < curOff')
    <3>1. PICK g, p : Visible(g, p) /\ pending'[i] = EntryAt(g, p)
      <4>1. pending'[i] \in OpenEntries
        BY <1>1, <1>4
      <4> QED BY <4>1, EntryIs DEF WalInv
    <3>2. g \in DOMAIN segs /\ p \in 1 .. Whole(g) /\ DOMAIN segs # {}
      BY <3>1 DEF Visible
    <3>3. /\ g \in DOMAIN segs' /\ Len(segs'[g].cells) = Whole(g) /\ segs'[g].cells[p] = segs[g].cells[p]
          /\ curSeg' = Top /\ curOff' = Whole(Top)
      BY <3>2, <1>1, <1>3
    <3>4. p - 1 < Whole(g) /\ p - 1 + 1 = p
      BY <3>2, <1>7
    <3>5. pending'[i].seg = g /\ pending'[i].off = p - 1 /\ pending'[i].seq = segs[g].cells[p]
      BY <3>1 DEF EntryAt
    <3> QED BY <3>3, <3>4, <3>5 DEF Readable
  <2> QED BY <2>1, <1>1, <1>4 DEF IndexInv
<1> QED BY <1>9, <1>11, <1>12, <1>13, <1>14, <1>15, <1>16, <1>17 DEF WalInv, TypeOK

\* A step that changes nothing of the log.
LEMMA StutterWal == ASSUME WalInv, UNCHANGED vars PROVE WalInv'
<1>1. UNCHANGED <<segs, cpFile, cp, pending, cur, curSeg, curOff, op, todo, left, grouped,
                  running, promised, committed, faults>>
  BY DEF vars, diskVars, memVars, opVars, history
<1>2. OpTypeOK' /\ StageInv' /\ Ahead' = Ahead
  BY <1>1 DEF WalInv, TypeOK, OpTypeOK, StageInv, Ahead
<1> QED BY <1>1, <1>2, QuietWal

\* WalInv is an invariant, whatever the machine's losses are but cuts in a payload.
LEMMA WalInvariant == ASSUME CleanCuts PROVE Spec => []WalInv
<1>1. ASSUME WalInv, [Next]_vars PROVE WalInv'
  <2>1. CASE Open
    BY <1>1, <2>1, OpenWal
  <2>2. CASE AppendStep
    BY <1>1, <2>2, StartAppendWal, RoomLeftWal, RotateWal, RotateFailsWal, CloseFailsWal,
       WriteFrameWal, WriteFailsWal, SyncWal, SyncFailsWal DEF AppendStep
  <2>3. CASE CommitStep
    BY <1>1, <2>3, CommitWal, RemoveSegmentWal, RemoveFailsWal, SaveWal DEF CommitStep
  <2>4. CASE SetCursor
    BY <1>1, <2>4, SaveWal
  <2>5. CASE Close
    BY <1>1, <2>5, CloseWal
  <2>6. CASE Crash
    BY <1>1, <2>6, CrashWal
  <2>7. CASE UNCHANGED vars
    BY <1>1, <2>7, StutterWal
  <2> QED BY <1>1, <2>1, <2>2, <2>3, <2>4, <2>5, <2>6, <2>7 DEF Next
<1> QED BY <1>1, InitWal, PTL DEF Spec

\* The variables of the log keep their types.
THEOREM WalTypeCorrect == ASSUME CleanCuts PROVE Spec => []TypeOK
<1>1. WalInv => TypeOK
  BY DEF WalInv
<1> QED BY <1>1, WalInvariant, PTL

\* Every entry of the index finds its frame in the files, after any crashes.
THEOREM WalEntriesReadable == ASSUME CleanCuts PROVE Spec => []EntriesReadable
<1>1. WalInv => EntriesReadable
  <2> SUFFICES ASSUME WalInv, running, NEW i \in DOMAIN pending PROVE Readable(pending[i])
    BY DEF EntriesReadable
  <2>1. i \in 1 .. Len(pending)
    BY PartsAre DEF WalInv
  <2> QED BY <2>1 DEF WalInv, IndexInv
<1> QED BY <1>1, WalInvariant, PTL

-----------------------------------------------------------------------------
(***************************************************************************)
(* Every step keeps LogInv, where the disk keeps what was written.         *)
(***************************************************************************)

\* Seqs and places are numbers.
LEMMA Numbers ==
    ASSUME WalInv
    PROVE  /\ SegSize \in Nat \ {0} /\ cp.next \in Nat \ {0} /\ cpFile.next \in Nat /\ Len(pending) \in Nat
           /\ curSeg \in Nat /\ curOff \in Nat /\ cp.start \in Nat /\ cpFile.start \in Nat
           /\ cp.acked \in Nat /\ cpFile.acked \in Nat
           /\ End \in Int /\ SavedEnd \in Int /\ Ahead \in {0, 1}
           /\ \A x \in Int : SeqOf(x) \in Int /\ SeqOf(x) = cp.next - (End - x)
           /\ \A g \in Nat, p \in Int : Place(g, p) \in Int
<1>1. /\ SegSize \in Nat \ {0} /\ cp.next \in Nat \ {0} /\ cpFile.next \in Nat /\ Len(pending) \in Nat
      /\ curSeg \in Nat /\ curOff \in Nat /\ cp.start \in Nat /\ cpFile.start \in Nat
      /\ cp.acked \in Nat /\ cpFile.acked \in Nat
  BY PartsAre, WalAssumption DEF WalInv, StageInv
<1>2. ASSUME NEW g \in Nat, NEW p \in Int PROVE Place(g, p) \in Int
  BY PlaceFacts
<1>3. End \in Int /\ SavedEnd \in Int
  <2>1. (IF cur = "closed" THEN 1 ELSE curOff + 1) \in Int /\ cpFile.acked + 1 \in Int
    BY <1>1
  <2> QED BY <1>1, <1>2, <2>1 DEF End, SavedEnd
<1>4. \A x \in Int : SeqOf(x) \in Int /\ SeqOf(x) = cp.next - (End - x)
  BY <1>1, <1>3 DEF SeqOf
<1> QED BY <1>1, <1>2, <1>3, <1>4 DEF Ahead

\* Nothing is on disk.
LEMMA InitLog == Init => LogInv
<1> SUFFICES ASSUME Init PROVE LogInv
  OBVIOUS
<1>1. WalInv
  BY InitWal
<1>2. /\ cp.next = 1 /\ cp.start = 0 /\ cp.acked = 0 /\ cpFile.next = 0 /\ cpFile.start = 0 /\ cpFile.acked = 0
      /\ Len(pending) = 0 /\ cur = "none" /\ curSeg = 0 /\ curOff = 0 /\ op = "idle" /\ DOMAIN segs = {}
      /\ ~running /\ promised = {} /\ committed = {}
  BY DEF Init
<1>3. End = Place(0, 1) /\ SavedEnd = Place(0, 1) /\ DiskEnd = End /\ Place(0, 1) \in Int
  BY <1>1, <1>2, Numbers DEF End, SavedEnd, DiskEnd
<1>4. SeqOf(End) = 1
  BY <1>1, <1>2, Numbers
<1>5. ChainInv /\ QueueInv /\ BatchInv /\ KeptInv
  BY <1>2, <1>3 DEF ChainInv, QueueInv, BatchInv, KeptInv
<1>6. SavedInv
  BY <1>2, <1>3, <1>4 DEF SavedInv
<1>7. RestInv
  BY <1>2, <1>3, <1>4 DEF RestInv
<1> QED BY <1>5, <1>6, <1>7 DEF LogInv

\* Between batches nothing is open: the next seq is the batch's first.
LEMMA NoBatch ==
    ASSUME WalInv, LogInv, running, op \notin {"write", "sync", "space"}
    PROVE  /\ todo = {} /\ Ahead = 0 /\ cpFile.next <= cp.next
           /\ \A s \in promised \cup committed : s < cp.next
<1>1. todo = {} /\ Ahead = 0
  BY DEF WalInv, StageInv, Ahead
<1>2. PICK b \in 1 .. cp.next : /\ todo = b .. cp.next + Ahead - 1
                               /\ cpFile.next <= b
                               /\ \A s \in promised \cup committed : s < b
  BY DEF LogInv, BatchInv
<1>3. b = cp.next
  <2>1. b \notin b .. cp.next - 1
    <3>1. cp.next + Ahead - 1 = cp.next - 1
      <4>1. cp.next \in Nat
        BY Numbers
      <4> QED BY <4>1, <1>1
    <3> QED BY <3>1, <1>1, <1>2
  <2>2. cp.next \in Nat \ {0}
    BY Numbers
  <2> QED BY <2>1, <2>2
<1> QED BY <1>1, <1>2, <1>3

\* After the last step of a batch, or none, the batch is empty.
LEMMA BatchEnds ==
    ASSUME WalInv, LogInv, running, todo' = {}, Ahead' = 0,
           UNCHANGED <<cp, pending, cpFile, promised, committed>>
    PROVE  BatchInv'
<1>1. PICK b \in 1 .. cp.next : /\ cpFile.next <= b
                               /\ \A s \in promised \cup committed : s < b
  BY DEF LogInv, BatchInv
<1>2. cp.next \in Nat \ {0} /\ cpFile.next \in Nat /\ Len(pending) \in Nat
  BY Numbers
<1>3. promised \cup committed \subseteq Nat
  BY DEF WalInv, TypeOK, OpTypeOK
<1>4. cp.next \in 1 .. cp.next /\ {} = cp.next .. cp.next + 0 - 1 /\ cp.next >= cp.next - Len(pending)
      /\ cpFile.next <= cp.next /\ \A s \in promised \cup committed : s < cp.next
  BY <1>1, <1>2, <1>3
<1> QED BY <1>4 DEF BatchInv

\* A step that touches neither the files nor the index.
LEMMA QuietLog ==
    ASSUME LogInv, UNCHANGED <<segs, cpFile, cp, pending, cur, curSeg, curOff, running, promised, committed>>,
           BatchInv', op' \notin {"cleaned", "save"} => op \notin {"cleaned", "save"}
    PROVE  LogInv'
<1>1. ChainInv' /\ QueueInv' /\ SavedInv' /\ KeptInv' /\ RestInv'
  BY DEF LogInv, ChainInv, QueueInv, SavedInv, KeptInv, RestInv, Whole, SeqOf, End, Place, SavedEnd, DiskEnd
<1> QED BY <1>1 DEF LogInv

\* The batch is empty when it begins.
LEMMA StartAppendLog == ASSUME WalInv, LogInv, StartAppend PROVE LogInv'
<1>1. /\ op = "idle" /\ op' = "space" /\ todo' = {} /\ running
      /\ UNCHANGED <<segs, cpFile, cp, pending, cur, curSeg, curOff, running, promised, committed>>
  BY DEF StartAppend, At, NoFault, diskVars, memVars, history
<1>2. BatchInv'
  BY <1>1, BatchEnds DEF Ahead
<1> QED BY <1>1, <1>2, QuietLog

\* ensureSpace finds room.
LEMMA RoomLeftLog == ASSUME WalInv, LogInv, RoomLeft PROVE LogInv'
<1>1. /\ op = "space" /\ op' = "write"
      /\ UNCHANGED <<segs, cpFile, cp, pending, cur, curSeg, curOff, running, promised, committed, todo>>
  BY DEF RoomLeft, At, Go, NoFault, diskVars, memVars, history
<1>2. BatchInv'
  BY <1>1 DEF LogInv, BatchInv, Ahead
<1> QED BY <1>1, <1>2, QuietLog

\* A failed step ends its operation: the batch's frames that are indexed stay.
LEMMA FailureLog ==
    ASSUME WalInv, LogInv, Durable, CloseFails \/ WriteFails \/ SyncFails \/ RemoveFails
    PROVE  LogInv'
<1>1. /\ running /\ Return /\ op \notin {"cleaned", "save"}
      /\ UNCHANGED <<cpFile, cp, pending, cur, curSeg, curOff, running, promised, committed>>
  BY DEF CloseFails, WriteFails, SyncFails, RemoveFails, At, diskVars, memVars, history, Durable
<1>2. segs' = segs
  BY WriteFailsIs DEF CloseFails, SyncFails, RemoveFails, diskVars, Durable
<1>3. BatchInv'
  BY <1>1, BatchEnds DEF Ahead, Return
<1> QED BY <1>1, <1>2, <1>3, QuietLog

\* The place of the next record is the same, told from the new file.
LEMMA RotateLog == ASSUME WalInv, LogInv, Rotate PROVE LogInv'
<1>1. /\ op = "space" /\ running /\ cur \in {"none", "open"}
      /\ cur = "open" => curOff = SegSize
      /\ curSeg' = (IF cur = "none" THEN curSeg ELSE curSeg + 1)
      /\ curSeg' \notin DOMAIN segs /\ DOMAIN segs' = DOMAIN segs \cup {curSeg'}
      /\ \A g \in DOMAIN segs : segs'[g] = segs[g]
      /\ segs'[curSeg'] = NewFile /\ curOff' = 0 /\ cur' = "open"
      /\ op' = "write" /\ UNCHANGED <<todo, left, grouped, cpFile, cp, pending, running,
                                      promised, committed, faults>>
  BY RotateIs
<1>2. SegSize \in Nat \ {0} /\ curSeg \in Nat
  BY Numbers
<1>3. End' = End
  <2>1. CASE cur = "none"
    BY <2>1, <1>1 DEF WalInv, FilesInv, End, Place
  <2>2. CASE cur = "open"
    <3>1. End' = Place(curSeg + 1, 1) /\ End = Place(curSeg, SegSize + 1)
      BY <2>2, <1>1, <1>2 DEF End, Place
    <3>2. Place(curSeg + 1, 0) = Place(curSeg, 0) + SegSize /\ Place(curSeg, 0) \in Nat
          /\ \A p \in Int : Place(curSeg, p) = Place(curSeg, 0) + p
      BY <1>2, PlaceFacts
    <3>3. Place(curSeg + 1, 1) = Place(curSeg + 1, 0) + 1
      BY <1>2, PlaceFacts
    <3> QED BY <3>1, <3>2, <3>3, <1>2
  <2> QED BY <1>1, <2>1, <2>2
<1>4. ASSUME NEW x \in Int PROVE SeqOf(x)' = SeqOf(x)
  BY <1>1, <1>3 DEF SeqOf
<1>5. ChainInv'
  <2>1. ASSUME NEW g \in DOMAIN segs
        PROVE  /\ g < curSeg' => Whole(g)' = SegSize
               /\ \A p \in 1 .. Whole(g)' : segs'[g].cells[p] = SeqOf(Place(g, p))'
    <3>1. Whole(g)' = Whole(g) /\ Whole(g) \in Nat /\ g \in Nat /\ segs'[g] = segs[g]
      BY <1>1, WholeIs DEF Whole, WalInv, TypeOK, FilesTypeOK
    <3>2. ASSUME g < curSeg' PROVE Whole(g) = SegSize
      <4>1. CASE g < curSeg
        BY <4>1 DEF LogInv, ChainInv
      <4>2. CASE ~(g < curSeg)
        <5>1. g = curSeg /\ cur = "open"
          BY <3>1, <3>2, <4>2, <1>1, <1>2
        <5>2. Len(segs[g].cells) = curOff /\ curOff = SegSize
          <6>1. curOff \in Nat /\ curOff + 0 = curOff
            BY Numbers
          <6> QED BY <5>1, <6>1, <1>1 DEF WalInv, TailInv, Ahead
        <5> QED BY <5>2, <1>1, WholeIs DEF WalInv
      <4> QED BY <4>1, <4>2
    <3>3. ASSUME NEW p \in 1 .. Whole(g) PROVE segs'[g].cells[p] = SeqOf(Place(g, p))'
      <4>1. segs[g].cells[p] = SeqOf(Place(g, p))
        BY DEF LogInv, ChainInv
      <4>2. Place(g, p) \in Int
        BY <3>1, Numbers
      <4>3. SeqOf(Place(g, p))' = SeqOf(Place(g, p))
        BY <1>4, <4>2 DEF Place
      <4> QED BY <3>1, <4>1, <4>3
    <3> QED BY <3>1, <3>2, <3>3
  <2>2. Whole(curSeg)' = 0 /\ ~(curSeg' < curSeg')
    BY <1>1, <1>2 DEF Whole, NewFile
  <2> QED BY <2>1, <2>2, <1>1 DEF ChainInv
<1>6. QueueInv'
  <2>1. curSeg <= curSeg' /\ curSeg' \in Nat
    BY <1>1, <1>2
  <2>2. ASSUME NEW i \in 1 .. Len(pending) PROVE pending[i].seg \in cp.start .. curSeg'
    <3>1. pending[i].seg \in cp.start .. curSeg /\ cp.start \in Nat
      BY Numbers DEF LogInv, QueueInv
    <3> QED BY <2>1, <3>1, <1>2
  <2> QED BY <2>2, <1>1, <1>3 DEF LogInv, QueueInv, Place
<1>7. SavedInv'
  <2>1. SavedEnd' = SavedEnd /\ SavedEnd \in Int
    BY <1>1, Numbers DEF SavedEnd, Place
  <2>2. SeqOf(SavedEnd)' = SeqOf(SavedEnd)
    BY <1>1, <1>3, <2>1 DEF SeqOf
  <2> QED BY <2>1, <2>2, <1>1, <1>3 DEF LogInv, SavedInv
<1>8. BatchInv' /\ KeptInv' /\ RestInv'
  BY <1>1 DEF LogInv, BatchInv, KeptInv, RestInv, Ahead
<1> QED BY <1>5, <1>6, <1>7, <1>8 DEF LogInv

\* The number has moved, the place of the next record has not.
LEMMA RotateFailsLog == ASSUME WalInv, LogInv, RotateFails PROVE LogInv'
<1>1. /\ op = "space" /\ running /\ Return /\ cur \in {"none", "open"} /\ (cur = "open" => ~Fits)
      /\ cur' = (IF cur = "none" THEN cur ELSE "closed")
      /\ curSeg' = (IF cur = "none" THEN curSeg ELSE curSeg + 1)
      /\ UNCHANGED <<segs, cpFile, cp, pending, curOff, running, promised, committed>>
  BY DEF RotateFails, At, Fault, diskVars, history
<1>2. BatchInv'
  BY <1>1, BatchEnds DEF Ahead, Return
<1>3. CASE cur = "none"
  BY <1>1, <1>2, <1>3, QuietLog DEF Return
<1>4. CASE cur = "open"
  <2>1. /\ SegSize \in Nat \ {0} /\ curSeg \in Nat /\ curOff \in Nat /\ cur' = "closed" /\ curSeg' = curSeg + 1
    BY <1>1, <1>4, Numbers
  <2>2. Len(segs[curSeg].cells) = curOff /\ curOff = SegSize /\ curSeg \in DOMAIN segs
    <3>1. Len(segs[curSeg].cells) = curOff /\ curSeg \in DOMAIN segs /\ Len(segs[curSeg].cells) <= SegSize
      BY <1>1, <1>4, <2>1, CurrentIs DEF WalInv, TailInv, Ahead, CellsInv
    <3>2. ~(curOff + 1 <= SegSize)
      BY <1>1, <1>4 DEF Fits
    <3> QED BY <2>1, <3>1, <3>2
  <2>3. End' = End
    <3>1. End' = Place(curSeg + 1, 1) /\ End = Place(curSeg, SegSize + 1)
      BY <1>4, <2>1, <2>2 DEF End, Place
    <3>2. Place(curSeg + 1, 0) = Place(curSeg, 0) + SegSize /\ Place(curSeg, 0) \in Nat
          /\ \A p \in Int : Place(curSeg, p) = Place(curSeg, 0) + p
      BY <2>1, PlaceFacts
    <3>3. Place(curSeg + 1, 1) = Place(curSeg + 1, 0) + 1
      BY <2>1, PlaceFacts
    <3> QED BY <3>1, <3>2, <3>3, <2>1
  <2>4. ChainInv'
    <3>1. ASSUME NEW g \in DOMAIN segs
          PROVE  /\ g < curSeg + 1 => Whole(g) = SegSize
                 /\ \A p \in 1 .. Whole(g) : segs[g].cells[p] = SeqOf(Place(g, p))
      <4>1. g \in Nat /\ Whole(curSeg) = SegSize
        BY <1>1, <2>2, WholeIs DEF WalInv, TypeOK, FilesTypeOK
      <4> QED BY <4>1, <2>1 DEF LogInv, ChainInv
    <3>2. \A g, p : SeqOf(Place(g, p))' = SeqOf(Place(g, p)) /\ Whole(g)' = Whole(g)
      BY <1>1, <2>3 DEF SeqOf, Place, Whole
    <3> QED BY <3>1, <3>2, <1>1, <2>1 DEF ChainInv
  <2>5. QueueInv'
    <3>1. ASSUME NEW i \in 1 .. Len(pending) PROVE pending[i].seg \in cp.start .. curSeg'
      <4>1. pending[i].seg \in cp.start .. curSeg /\ cp.start \in Nat
        BY Numbers DEF LogInv, QueueInv
      <4> QED BY <2>1, <4>1
    <3> QED BY <3>1, <1>1, <2>3 DEF LogInv, QueueInv, Place
  <2>6. SavedInv'
    <3>1. SavedEnd' = SavedEnd /\ SeqOf(SavedEnd)' = SeqOf(SavedEnd)
      BY <1>1, <2>3 DEF SavedEnd, SeqOf, Place
    <3> QED BY <3>1, <1>1, <2>3 DEF LogInv, SavedInv, Return
  <2>7. KeptInv' /\ RestInv'
    BY <1>1 DEF LogInv, KeptInv, RestInv
  <2> QED BY <1>2, <2>4, <2>5, <2>6, <2>7 DEF LogInv
<1> QED BY <1>1, <1>3, <1>4

\* The index gets the frame at the end of the file.
LEMMA IndexFrameLog ==
    ASSUME WalInv, LogInv, cur = "open", IndexFrame, UNCHANGED <<cur, curSeg, cpFile>>, curOff < SegSize
    PROVE  /\ End' = End + 1 /\ (\A x \in Int : SeqOf(x)' = SeqOf(x)) /\ QueueInv'
           /\ cp'.next = cp.next + 1 /\ cp'.start = cp.start /\ Len(pending') = Len(pending) + 1
           /\ SavedEnd' = SavedEnd /\ SavedEnd <= End' - Len(pending')
<1> DEFINE new == [seg |-> curSeg, off |-> curOff, seq |-> cp.next]
<1>1. pending' = Append(pending, new) /\ curOff' = curOff + 1 /\ cp' = [cp EXCEPT !.next = cp.next + 1]
  BY DEF IndexFrame
<1>2. pending \in Seq(Entries) /\ cp \in Checkpoints
  BY PartsAre DEF WalInv
<1>3. /\ cp.next \in Nat /\ Len(pending) \in Nat /\ curSeg \in Nat /\ curOff \in Nat /\ cp.start \in Nat
      /\ cp.acked \in Nat /\ SegSize \in Nat /\ End \in Int /\ SavedEnd \in Int
  BY Numbers
<1>4. cp'.next = cp.next + 1 /\ cp'.start = cp.start /\ cp'.acked = cp.acked
  BY <1>1, <1>2 DEF Checkpoints
<1>5. /\ Len(pending') = Len(pending) + 1 /\ pending'[Len(pending) + 1] = new
      /\ \A i \in 1 .. Len(pending) : pending'[i] = pending[i]
  <2> HIDE DEF new
  <2> QED BY <1>1, <1>2, AppendProperties
<1>6. End = Place(curSeg, curOff + 1) /\ End' = End + 1
  <2>1. End = Place(curSeg, curOff + 1) /\ End' = Place(curSeg, curOff + 1 + 1)
    BY <1>1 DEF End, Place
  <2>2. Place(curSeg, 0) \in Nat /\ \A p \in Int : Place(curSeg, p) = Place(curSeg, 0) + p
    BY <1>3, PlaceFacts
  <2> QED BY <2>1, <2>2, <1>3
<1>7. ASSUME NEW x \in Int PROVE SeqOf(x)' = SeqOf(x)
  BY <1>3, <1>4, <1>6, SMTT(30) DEF SeqOf
<1>8. QueueInv'
  <2>1. cp'.next - Len(pending') = cp.next - Len(pending) /\ End' - Len(pending') = End - Len(pending)
    <3>1. Len(pending') = Len(pending) + 1
      BY <1>5
    <3>2. cp'.next = cp.next + 1 /\ End' = End + 1
      BY <1>4, <1>6
    <3>3. cp.next \in Int /\ End \in Int /\ Len(pending) \in Int
      BY <1>3
    <3> HIDE DEF new
    <3> QED BY <3>1, <3>2, <3>3
  <2>2. Place(cp.start, cp.acked + 1) <= End - Len(pending)
    BY DEF LogInv, QueueInv
  <2>3. ASSUME NEW i \in 1 .. Len(pending')
        PROVE  /\ pending'[i].seq = cp.next - Len(pending) + i - 1
               /\ Place(pending'[i].seg, pending'[i].off + 1) = End - Len(pending) + i - 1
               /\ pending'[i].seg \in cp.start .. curSeg /\ pending'[i].off < SegSize
    <3>1. CASE i \in 1 .. Len(pending)
      <4>1. pending'[i] = pending[i]
        BY <3>1, <1>5
      <4> QED BY <3>1, <4>1 DEF LogInv, QueueInv
    <3>2. CASE i \notin 1 .. Len(pending)
      <4>1. i = Len(pending) + 1
        BY <3>2, <1>3, <1>5
      <4>2. pending'[i] = new
        BY <4>1, <1>5
      <4>3. cp.start <= curSeg
        BY DEF WalInv, FilesInv
      <4>4. new.seg = curSeg /\ new.off = curOff /\ new.seq = cp.next
        OBVIOUS
      <4>5. /\ cp.next = cp.next - Len(pending) + i - 1 /\ End = End - Len(pending) + i - 1
            /\ curSeg \in cp.start .. curSeg
        BY <4>1, <4>3, <1>3
      <4> HIDE DEF new
      <4> QED BY <4>2, <4>4, <4>5, <1>6
    <3> QED BY <3>1, <3>2
  <2> QED BY <2>1, <2>2, <2>3, <1>4 DEF QueueInv, Place
<1>9. SavedEnd' = SavedEnd /\ SavedEnd <= End' - Len(pending')
  <2>1. SavedEnd <= End - Len(pending)
    BY DEF LogInv, SavedInv
  <2> QED BY <2>1, <1>3, <1>5, <1>6 DEF SavedEnd, Place
<1> QED BY <1>4, <1>5, <1>6, <1>7, <1>8, <1>9

\* The record goes to the next place and belongs to the batch.
LEMMA WriteFrameLog == ASSUME WalInv, LogInv, WriteFrame PROVE LogInv'
<1>1. /\ op = "write" /\ running /\ cur = "open" /\ curSeg \in DOMAIN segs /\ DOMAIN segs' = DOMAIN segs
      /\ curOff < SegSize /\ left >= 1
      /\ \A g \in DOMAIN segs : g # curSeg => segs'[g] = segs[g]
      /\ Len(segs[curSeg].cells) = curOff /\ Len(segs'[curSeg].cells) = curOff + 1
      /\ \A p \in 1 .. curOff : segs'[curSeg].cells[p] = segs[curSeg].cells[p]
      /\ segs'[curSeg].cells[curOff + 1] = cp.next
      /\ todo' = todo \cup {cp.next}
      /\ op' = (IF left > 1 THEN "space" ELSE "sync")
      /\ UNCHANGED <<cpFile, cur, curSeg, grouped, running, promised, committed, faults>>
      /\ IF grouped THEN IndexFrame ELSE UNCHANGED <<cp, pending, curOff>>
  BY WriteIs
<1>2. /\ SegSize \in Nat /\ curSeg \in Nat /\ curOff \in Nat /\ cp.next \in Nat \ {0} /\ Len(pending) \in Nat
      /\ End \in Int /\ SavedEnd \in Int /\ cpFile.next \in Nat
  BY Numbers
<1>3. /\ \A x \in Int : SeqOf(x)' = SeqOf(x)
      /\ QueueInv' /\ cp'.start = cp.start /\ SavedEnd' = SavedEnd /\ SavedEnd <= End' - Len(pending')
      /\ cp'.next - Len(pending') = cp.next - Len(pending)
      /\ cp'.next = (IF grouped THEN cp.next + 1 ELSE cp.next)
  <2>1. CASE grouped
    <3>1. IndexFrame /\ UNCHANGED <<cur, curSeg, cpFile>>
      BY <2>1, <1>1
    <3>2. /\ (\A x \in Int : SeqOf(x)' = SeqOf(x)) /\ QueueInv'
          /\ cp'.next = cp.next + 1 /\ cp'.start = cp.start /\ Len(pending') = Len(pending) + 1
          /\ SavedEnd' = SavedEnd /\ SavedEnd <= End' - Len(pending')
      BY <3>1, <1>1, IndexFrameLog
    <3> QED BY <2>1, <3>2, <1>2
  <2>2. CASE ~grouped
    <3>1. UNCHANGED <<cp, pending, curOff, cpFile, cur, curSeg>>
      BY <2>2, <1>1
    <3>2. End' = End /\ SavedEnd' = SavedEnd
      BY <3>1 DEF End, SavedEnd, Place
    <3> QED BY <2>2, <3>1, <3>2 DEF LogInv, QueueInv, SavedInv, SeqOf, Place
  <2> QED BY <2>1, <2>2
<1>4. SeqOf(Place(curSeg, curOff + 1)) = cp.next /\ Place(curSeg, curOff + 1) \in Int
  <2>1. End = Place(curSeg, curOff + 1)
    BY <1>1 DEF End
  <2>2. SeqOf(End) = cp.next - (End - End)
    BY <1>2, Numbers
  <2> QED BY <2>1, <2>2, <1>2
<1>5. ChainInv'
  <2>1. ASSUME NEW g \in DOMAIN segs
        PROVE  /\ g < curSeg => Whole(g)' = SegSize
               /\ \A p \in 1 .. Whole(g)' : segs'[g].cells[p] = SeqOf(Place(g, p))'
    <3>1. g \in Nat
      BY DEF WalInv, TypeOK, FilesTypeOK
    <3>2. ASSUME NEW p \in Int PROVE SeqOf(Place(g, p))' = SeqOf(Place(g, p))
      <4>1. Place(g, p) \in Int
        BY <3>1, Numbers
      <4> QED BY <4>1, <1>3 DEF Place
    <3>3. CASE g # curSeg
      <4>1. Whole(g)' = Whole(g) /\ segs'[g] = segs[g] /\ Whole(g) \in Nat
        BY <3>3, <1>1, WholeIs DEF Whole, WalInv
      <4> QED BY <4>1, <3>2 DEF LogInv, ChainInv
    <3>4. CASE g = curSeg
      <4>1. Whole(g) = curOff
        BY <3>4, <1>1, WholeIs DEF WalInv
      <4>2. Whole(g)' = curOff + 1
        BY <3>4, <1>1, <1>2 DEF Whole, Torn
      <4>3. ASSUME NEW p \in 1 .. curOff + 1 PROVE segs'[g].cells[p] = SeqOf(Place(g, p))
        <5>1. CASE p \in 1 .. curOff
          BY <3>4, <4>1, <5>1, <1>1 DEF LogInv, ChainInv
        <5>2. CASE p \notin 1 .. curOff
          <6>1. p = curOff + 1
            BY <5>2, <1>2
          <6> QED BY <6>1, <3>4, <1>1, <1>4
        <5> QED BY <5>1, <5>2
      <4>4. ~(g < curSeg)
        BY <3>4, <1>2
      <4> QED BY <4>2, <4>3, <4>4, <3>2
    <3> QED BY <3>3, <3>4
  <2> QED BY <2>1, <1>1 DEF ChainInv
<1>6. SavedInv'
  <2>1. SeqOf(SavedEnd)' = SeqOf(SavedEnd)
    BY <1>1, <1>2, <1>3 DEF SeqOf
  <2>2. op' \notin {"cleaned", "save"} /\ op \notin {"cleaned", "save"}
    BY <1>1
  <2> QED BY <2>1, <2>2, <1>1, <1>3 DEF LogInv, SavedInv
<1>7. BatchInv'
  <2>1. PICK b \in 1 .. cp.next : /\ todo = b .. cp.next + Ahead - 1
                                 /\ b >= cp.next - Len(pending)
                                 /\ cpFile.next <= b
                                 /\ \A s \in promised \cup committed : s < b
    BY <1>1 DEF LogInv, BatchInv
  <2>2. Ahead = 0 /\ Ahead' = (IF grouped THEN 0 ELSE 1)
    <3>1. ~grouped => op' = "sync"
      BY <1>1 DEF WalInv, StageInv
    <3> QED BY <3>1, <1>1 DEF Ahead
  <2>3. todo = b .. cp.next - 1
    <3>1. cp.next + Ahead - 1 = cp.next - 1
      BY <2>2, <1>2
    <3> QED BY <2>1, <3>1
  <2>4. cp'.next + Ahead' - 1 = cp.next /\ cp'.next >= cp.next /\ cp'.next \in Nat
    BY <2>2, <1>2, <1>3
  <2>5. todo' = b .. cp'.next + Ahead' - 1
    <3>1. todo' = (b .. cp.next - 1) \cup {cp.next}
      BY <2>3, <1>1
    <3>2. (b .. cp.next - 1) \cup {cp.next} = b .. cp.next
      BY <1>2
    <3> QED BY <3>1, <3>2, <2>4
  <2>6. b \in 1 .. cp'.next
    BY <2>4, <1>2
  <2> QED BY <2>1, <2>5, <2>6, <1>1, <1>3 DEF BatchInv
<1>8. KeptInv' /\ RestInv'
  BY <1>1, <1>3 DEF LogInv, KeptInv, RestInv
<1> QED BY <1>3, <1>5, <1>6, <1>7, <1>8 DEF LogInv

\* What the batch wrote is promised, and the batch is over.
LEMMA SyncLog == ASSUME WalInv, LogInv, Sync PROVE LogInv'
<1>1. /\ op = "sync" /\ running /\ cur = "open" /\ curSeg \in DOMAIN segs /\ DOMAIN segs' = DOMAIN segs
      /\ \A g \in DOMAIN segs : segs'[g].cells = segs[g].cells
      /\ promised' = promised \cup todo /\ Return
      /\ UNCHANGED <<cpFile, cur, curSeg, running, committed, faults>>
      /\ IF grouped THEN UNCHANGED <<cp, pending, curOff>> ELSE IndexFrame
  BY SyncIs
<1>2. /\ SegSize \in Nat /\ curSeg \in Nat /\ curOff \in Nat /\ cp.next \in Nat \ {0} /\ Len(pending) \in Nat
      /\ End \in Int /\ SavedEnd \in Int /\ cpFile.next \in Nat
  BY Numbers
<1>3. ~grouped => curOff < SegSize
  <2>1. ~grouped => Len(segs[curSeg].cells) = curOff + 1
    BY <1>1 DEF WalInv, TailInv, Ahead
  <2>2. Len(segs[curSeg].cells) <= SegSize
    BY <1>1 DEF WalInv, CellsInv
  <2> QED BY <2>1, <2>2, <1>2
<1>4. /\ \A x \in Int : SeqOf(x)' = SeqOf(x)
      /\ QueueInv' /\ cp'.start = cp.start /\ SavedEnd' = SavedEnd /\ SavedEnd <= End' - Len(pending')
      /\ cp'.next - Len(pending') = cp.next - Len(pending)
      /\ cp'.next = (IF grouped THEN cp.next ELSE cp.next + 1)
  <2>1. CASE ~grouped
    <3>1. IndexFrame /\ UNCHANGED <<cur, curSeg, cpFile>>
      BY <2>1, <1>1
    <3>2. /\ (\A x \in Int : SeqOf(x)' = SeqOf(x)) /\ QueueInv'
          /\ cp'.next = cp.next + 1 /\ cp'.start = cp.start /\ Len(pending') = Len(pending) + 1
          /\ SavedEnd' = SavedEnd /\ SavedEnd <= End' - Len(pending')
      BY <2>1, <3>1, <1>1, <1>3, IndexFrameLog
    <3> QED BY <2>1, <3>2, <1>2
  <2>2. CASE grouped
    <3>1. UNCHANGED <<cp, pending, curOff, cpFile, cur, curSeg>>
      BY <2>2, <1>1
    <3>2. End' = End /\ SavedEnd' = SavedEnd
      BY <3>1 DEF End, SavedEnd, Place
    <3> QED BY <2>2, <3>1, <3>2 DEF LogInv, QueueInv, SavedInv, SeqOf, Place
  <2> QED BY <2>1, <2>2
<1>5. ChainInv'
  <2>1. ASSUME NEW g \in DOMAIN segs
        PROVE  /\ g < curSeg => Whole(g)' = SegSize
               /\ \A p \in 1 .. Whole(g)' : segs'[g].cells[p] = SeqOf(Place(g, p))'
    <3>1. g \in Nat
      BY DEF WalInv, TypeOK, FilesTypeOK
    <3>2. ASSUME NEW p \in Int PROVE SeqOf(Place(g, p))' = SeqOf(Place(g, p))
      <4>1. Place(g, p) \in Int
        BY <3>1, Numbers
      <4> QED BY <4>1, <1>4 DEF Place
    <3>3. Whole(g)' = Whole(g) /\ segs'[g].cells = segs[g].cells /\ Whole(g) \in Nat
      BY <1>1, WholeIs DEF Whole, WalInv
    <3> QED BY <3>3, <3>2 DEF LogInv, ChainInv
  <2> QED BY <2>1, <1>1 DEF ChainInv
<1>6. SavedInv'
  <2>1. SeqOf(SavedEnd)' = SeqOf(SavedEnd)
    BY <1>1, <1>2, <1>4 DEF SeqOf
  <2>2. op' \notin {"cleaned", "save"} /\ op \notin {"cleaned", "save"}
    BY <1>1 DEF Return
  <2> QED BY <2>1, <2>2, <1>1, <1>4 DEF LogInv, SavedInv
<1>7. PICK b \in 1 .. cp.next : /\ todo = b .. cp.next + Ahead - 1
                               /\ b >= cp.next - Len(pending)
                               /\ cpFile.next <= b
                               /\ \A s \in promised \cup committed : s < b
  BY <1>1 DEF LogInv, BatchInv
<1>8. cp.next + Ahead - 1 = cp'.next - 1 /\ cp'.next >= cp.next /\ cp'.next \in Nat /\ Len(pending') \in Nat
  <2>1. Ahead = (IF grouped THEN 0 ELSE 1)
    BY <1>1 DEF Ahead
  <2>2. Len(pending') = cp'.next - (cp.next - Len(pending)) /\ Len(pending') \in Int
    <3>1. Len(pending') \in Nat
      BY SyncWal, PartsAre DEF WalInv
    <3> QED BY <3>1, <1>2, <1>4
  <2> QED BY <2>1, <2>2, <1>2, <1>4
<1>9. \A s \in todo : s < cp'.next /\ s >= cp.next - Len(pending)
  <2>1. todo = b .. cp'.next - 1
    BY <1>7, <1>8
  <2> QED BY <2>1, <1>7, <1>8, <1>2
<1>10. BatchInv'
  <2>1. promised \cup committed \subseteq Nat
    BY DEF WalInv, TypeOK, OpTypeOK
  <2>2. \A s \in promised' \cup committed' : s < cp'.next
    <3>1. ASSUME NEW s \in promised \cup committed PROVE s < cp'.next
      <4>1. s < b /\ b <= cp.next /\ s \in Nat /\ b \in Nat
        BY <2>1, <1>7, <1>2
      <4> QED BY <4>1, <1>2, <1>8
    <3> QED BY <3>1, <1>1, <1>9
  <2>3. cpFile.next <= cp'.next /\ cp'.next \in 1 .. cp'.next /\ cp'.next >= cp'.next - Len(pending')
    BY <1>2, <1>7, <1>8
  <2>4. Ahead' = 0 /\ todo' = {} /\ {} = cp'.next .. cp'.next + 0 - 1
    BY <1>1, <1>8 DEF Ahead, Return
  <2> QED BY <2>2, <2>3, <2>4, <1>1 DEF BatchInv
<1>11. KeptInv'
  <2>1. ASSUME NEW s \in promised' PROVE s \in committed \/ s >= cp.next - Len(pending)
    BY <1>1, <1>9 DEF LogInv, KeptInv
  <2> QED BY <2>1, <1>1, <1>4 DEF KeptInv
<1>12. RestInv'
  BY <1>1 DEF RestInv
<1> QED BY <1>4, <1>5, <1>6, <1>10, <1>11, <1>12 DEF LogInv

\* The confirmed end moves one place.
LEMMA CommitLog == ASSUME WalInv, LogInv, Commit PROVE LogInv'
<1>1. /\ op = "idle" /\ running /\ Len(pending) \in Nat \ {0}
      /\ cp'.next = cp.next /\ cp'.start = cp.start /\ cp'.acked = pending[1].off + 1
      /\ Len(pending') = Len(pending) - 1
      /\ \A i \in 1 .. Len(pending') : pending'[i] = pending[i + 1] /\ i + 1 \in 1 .. Len(pending)
      /\ committed' = committed \cup {pending[1].seq}
      /\ op' = "clean" /\ UNCHANGED <<todo, left, grouped, segs, cpFile, cur, curSeg, curOff, running,
                                      promised, faults>>
  BY CommitIs
<1>2. /\ SegSize \in Nat /\ cp.next \in Nat \ {0} /\ cp.start \in Nat /\ End \in Int /\ SavedEnd \in Int
      /\ cpFile.next \in Nat
  BY Numbers
<1>3. End' = End /\ SavedEnd' = SavedEnd /\ (\A x : SeqOf(x)' = SeqOf(x))
  BY <1>1 DEF End, SavedEnd, SeqOf, Place
<1>4. /\ pending[1].seq = cp.next - Len(pending)
      /\ Place(pending[1].seg, pending[1].off + 1) = End - Len(pending)
      /\ pending[1].seg \in Nat /\ pending[1].seg >= cp.start /\ pending[1].off \in Nat /\ pending[1].off < SegSize
  <2>1. 1 \in 1 .. Len(pending)
    BY <1>1
  <2>2. /\ pending[1].seq = cp.next - Len(pending) + 1 - 1
        /\ Place(pending[1].seg, pending[1].off + 1) = End - Len(pending) + 1 - 1
        /\ pending[1].seg \in cp.start .. curSeg /\ pending[1].off < SegSize
    BY <2>1 DEF LogInv, QueueInv
  <2>3. pending[1].seg \in Nat /\ pending[1].off \in Nat
    BY <2>1, PartsAre DEF WalInv
  <2> QED BY <2>2, <2>3, <1>1, <1>2
<1>5. ChainInv'
  BY <1>1, <1>3 DEF LogInv, ChainInv, Whole, Place
<1>6. Place(cp'.start, cp'.acked + 1) <= End' - Len(pending')
  <2>1. Place(pending[1].seg, pending[1].off + 2) = End - Len(pending) + 1
    <3>1. pending[1].off + 1 \in Int /\ pending[1].off + 2 \in Int /\ pending[1].off + 2 = pending[1].off + 1 + 1
      BY <1>4
    <3>2. Place(pending[1].seg, pending[1].off + 1) = Place(pending[1].seg, 0) + (pending[1].off + 1)
      BY <3>1, <1>4, PlaceAt
    <3>3. Place(pending[1].seg, pending[1].off + 2) = Place(pending[1].seg, 0) + (pending[1].off + 2)
          /\ Place(pending[1].seg, 0) \in Int
      BY <3>1, <1>4, PlaceAt
    <3>4. Place(pending[1].seg, pending[1].off + 1) = End - Len(pending)
      BY <1>4
    <3>5. Len(pending) \in Int /\ End \in Int /\ pending[1].off \in Int
      BY <1>1, <1>2, <1>4
    <3> QED BY <3>2, <3>3, <3>4, <3>5
  <2>2. Place(cp.start, pending[1].off + 2) <= Place(pending[1].seg, pending[1].off + 2)
    <3>1. pending[1].off + 2 \in Int /\ cp.start <= pending[1].seg
      BY <1>2, <1>4
    <3>2. Place(cp.start, pending[1].off + 2) = Place(cp.start, 0) + (pending[1].off + 2)
          /\ Place(cp.start, 0) \in Int
      BY <3>1, <1>2, PlaceAt
    <3>3. Place(pending[1].seg, pending[1].off + 2) = Place(pending[1].seg, 0) + (pending[1].off + 2)
          /\ Place(pending[1].seg, 0) \in Int
      BY <3>1, <1>4, PlaceAt
    <3>4. Place(cp.start, 0) <= Place(pending[1].seg, 0)
      BY <3>1, <1>2, <1>4, PlaceBegins
    <3> QED BY <3>1, <3>2, <3>3, <3>4
  <2>3. Place(cp'.start, cp'.acked + 1) = Place(cp.start, pending[1].off + 2)
    BY <1>1, <1>4 DEF Place
  <2>4. Place(cp.start, pending[1].off + 2) \in Int
    <3>1. pending[1].off + 2 \in Int
      BY <1>4
    <3> QED BY <3>1, <1>2, PlaceAt
  <2> QED BY <2>1, <2>2, <2>3, <2>4, <1>1, <1>2, <1>3
<1>7. QueueInv'
  <2>1. ASSUME NEW i \in 1 .. Len(pending')
        PROVE  /\ pending'[i].seq = cp.next - Len(pending') + i - 1
               /\ Place(pending'[i].seg, pending'[i].off + 1) = End - Len(pending') + i - 1
               /\ pending'[i].seg \in cp.start .. curSeg /\ pending'[i].off < SegSize
    <3>1. pending'[i] = pending[i + 1] /\ i + 1 \in 1 .. Len(pending)
      BY <1>1
    <3>2. /\ pending[i + 1].seq = cp.next - Len(pending) + (i + 1) - 1
          /\ Place(pending[i + 1].seg, pending[i + 1].off + 1) = End - Len(pending) + (i + 1) - 1
          /\ pending[i + 1].seg \in cp.start .. curSeg /\ pending[i + 1].off < SegSize
      BY <3>1 DEF LogInv, QueueInv
    <3>3. /\ cp.next - Len(pending') + i - 1 = cp.next - Len(pending) + (i + 1) - 1
          /\ End - Len(pending') + i - 1 = End - Len(pending) + (i + 1) - 1
      BY <1>1, <1>2
    <3> QED BY <3>1, <3>2, <3>3
  <2> QED BY <2>1, <1>1, <1>3, <1>6 DEF QueueInv, Place
<1>8. SavedInv'
  <2>1. SavedEnd <= End - Len(pending)
    BY DEF LogInv, SavedInv
  <2>2. SavedEnd <= End - Len(pending')
    BY <2>1, <1>1, <1>2
  <2>3. SeqOf(SavedEnd)' = SeqOf(SavedEnd)
    BY <1>1, <1>3 DEF SeqOf
  <2> QED BY <2>2, <2>3, <1>1, <1>3 DEF LogInv, SavedInv
<1>9. /\ todo = {} /\ Ahead = 0 /\ cpFile.next <= cp.next
      /\ \A s \in promised \cup committed : s < cp.next
  BY <1>1, NoBatch
<1>10. BatchInv'
  <2>1. \A s \in promised' \cup committed' : s < cp.next
    <3>1. pending[1].seq < cp.next
      BY <1>1, <1>2, <1>4
    <3> QED BY <3>1, <1>1, <1>9
  <2>2. Ahead' = 0 /\ {} = cp.next .. cp.next + 0 - 1 /\ cp.next \in 1 .. cp.next /\ cp.next >= cp.next - Len(pending')
    BY <1>1, <1>2 DEF Ahead
  <2> QED BY <2>1, <2>2, <1>1, <1>9 DEF BatchInv
<1>11. KeptInv'
  <2>1. promised \subseteq Nat
    BY DEF WalInv, TypeOK, OpTypeOK
  <2>2. ASSUME NEW s \in promised PROVE s \in committed' \/ s >= cp.next - Len(pending')
    <3>1. s \in committed \/ s >= cp.next - Len(pending)
      BY DEF LogInv, KeptInv
    <3>2. s = pending[1].seq => s \in committed'
      BY <1>1
    <3> QED BY <3>1, <3>2, <2>1, <1>1, <1>2, <1>4
  <2> QED BY <2>2, <1>1 DEF KeptInv
<1>12. RestInv'
  BY <1>1 DEF RestInv
<1> QED BY <1>5, <1>7, <1>8, <1>10, <1>11, <1>12 DEF LogInv

\* All of the removed file was confirmed.
LEMMA RemoveSegmentLog == ASSUME WalInv, LogInv, RemoveSegment PROVE LogInv'
<1>1. /\ op \in {"clean", "cleaned"} /\ running
      /\ DOMAIN segs' = DOMAIN segs \ {cp.start} /\ \A g \in DOMAIN segs' : segs'[g] = segs[g]
      /\ cp'.next = cp.next /\ cp'.start = cp.start + 1 /\ cp'.acked = 0
      /\ IF cp.start = curSeg THEN cur' = "none" /\ curSeg' = curSeg + 1 /\ curOff' = 0
                              ELSE UNCHANGED <<cur, curSeg, curOff>>
      /\ \A i \in 1 .. Len(pending) : pending[i].seg > cp.start
      /\ op' = (IF pending = <<>> THEN "save" ELSE "cleaned")
      /\ UNCHANGED <<todo, left, grouped, cpFile, pending, running, promised, committed, faults>>
  BY RemoveIs
<1>2. /\ SegSize \in Nat \ {0} /\ cp.next \in Nat \ {0} /\ cp.start \in Nat /\ curSeg \in Nat /\ curOff \in Nat
      /\ Len(pending) \in Nat /\ End \in Int /\ SavedEnd \in Int /\ cpFile.next \in Nat
  BY Numbers
<1>3. /\ DOMAIN segs = cp.start .. Top /\ DOMAIN segs # {} /\ cp.start <= curSeg
      /\ (cp.start = curSeg => cur = "open")
  <2>1. DOMAIN segs = cp.start .. Top /\ DOMAIN segs # {} /\ cp.start <= curSeg
    BY <1>1 DEF WalInv, FilesInv, StageInv
  <2> QED BY <2>1, <1>2 DEF Top
<1>4. /\ Place(cp.start + 1, 1) = Place(cp.start + 1, 0) + 1
      /\ Place(cp.start + 1, 0) \in Int /\ Place(curSeg, 0) \in Int /\ cp.start + 1 \in Nat
      /\ (curSeg > cp.start => Place(cp.start + 1, 0) <= Place(curSeg, 0))
  <2>1. cp.start + 1 \in Nat /\ 1 \in Int
    BY <1>2
  <2>2. Place(cp.start + 1, 1) = Place(cp.start + 1, 0) + 1 /\ Place(cp.start + 1, 0) \in Int
    BY <2>1, PlaceAt
  <2>3. Place(curSeg, 0) \in Int
    BY <1>2, <2>1, PlaceAt
  <2>4. curSeg > cp.start => cp.start + 1 <= curSeg
    BY <1>2
  <2>5. cp.start + 1 <= curSeg => Place(cp.start + 1, 0) <= Place(curSeg, 0)
    BY <1>2, <2>1, PlaceBegins
  <2> QED BY <2>1, <2>2, <2>3, <2>4, <2>5
<1>5. End = Place(curSeg, 0) + (IF cur = "closed" THEN 1 ELSE curOff + 1)
  <2>1. (IF cur = "closed" THEN 1 ELSE curOff + 1) \in Int
    BY <1>2
  <2> QED BY <2>1, <1>2, PlaceAt DEF End
<1>6. /\ cp.start # curSeg => End' = End
      /\ cp.start = curSeg => Len(pending) = 0 /\ End' = Place(cp.start + 1, 1)
      /\ End' \in Int /\ End' >= End
  <2>1. CASE cp.start # curSeg
    <3>1. End' = End
      BY <2>1, <1>1 DEF End, Place
    <3> QED BY <2>1, <3>1, <1>2
  <2>2. CASE cp.start = curSeg
    <3>1. End' = Place(cp.start + 1, 1)
      BY <2>2, <1>1 DEF End, Place
    <3>2. Len(pending) = 0
      <4>1. ASSUME Len(pending) # 0 PROVE FALSE
        <5>1. 1 \in 1 .. Len(pending)
          BY <4>1, <1>2
        <5>2. pending[1].seg > curSeg
          BY <2>2, <5>1, <1>1
        <5>3. pending[1].seg \in cp.start .. curSeg
          BY <5>1 DEF LogInv, QueueInv
        <5> QED BY <5>2, <5>3, <1>2
      <4> QED BY <4>1
    <3>3. End = Place(cp.start, 0) + (curOff + 1)
      BY <2>2, <1>3, <1>5
    <3>4. curOff <= SegSize
      <4>1. /\ curSeg \in DOMAIN segs /\ Len(segs[curSeg].cells) <= SegSize
            /\ Len(segs[curSeg].cells) = curOff + Ahead /\ Ahead = 0
        BY <2>2, <1>1, <1>3, CurrentIs DEF WalInv, CellsInv, TailInv, Ahead
      <4> QED BY <4>1, <1>2
    <3>5. Place(cp.start + 1, 0) = Place(cp.start, 0) + SegSize /\ Place(cp.start, 0) \in Nat
      BY <1>2, PlaceFacts
    <3> QED BY <2>2, <3>1, <3>2, <3>3, <3>4, <3>5, <1>2, <1>4
  <2> QED BY <2>1, <2>2
<1>7. ChainInv'
  <2>1. ASSUME NEW g \in DOMAIN segs'
        PROVE  /\ g < curSeg' => Whole(g)' = SegSize
               /\ \A p \in 1 .. Whole(g)' : segs'[g].cells[p] = SeqOf(Place(g, p))'
    <3>1. g \in DOMAIN segs /\ g # cp.start /\ segs'[g] = segs[g] /\ Whole(g)' = Whole(g)
      BY <1>1 DEF Whole
    <3>2. cp.start # curSeg
      BY <3>1, <1>2, <1>3 DEF Top
    <3>3. \A p : SeqOf(Place(g, p))' = SeqOf(Place(g, p))
      BY <3>2, <1>1, <1>6 DEF SeqOf, Place
    <3> QED BY <3>1, <3>2, <3>3, <1>1 DEF LogInv, ChainInv
  <2> QED BY <2>1 DEF ChainInv
<1>8. QueueInv'
  <2>1. Place(cp.start + 1, 1) <= End' - Len(pending)
    <3>1. CASE cp.start = curSeg
      BY <3>1, <1>2, <1>4, <1>6
    <3>2. CASE cp.start # curSeg /\ Len(pending) = 0
      <4>1. Place(cp.start + 1, 0) <= Place(curSeg, 0)
        BY <3>2, <1>2, <1>3, <1>4
      <4>2. End >= Place(curSeg, 0) + 1
        BY <1>2, <1>4, <1>5
      <4> QED BY <3>2, <4>1, <4>2, <1>2, <1>4, <1>6
    <3>3. CASE cp.start # curSeg /\ Len(pending) # 0
      <4>1. 1 \in 1 .. Len(pending)
        BY <3>3, <1>2
      <4>2. /\ Place(pending[1].seg, pending[1].off + 1) = End - Len(pending) + 1 - 1
            /\ pending[1].seg > cp.start /\ pending[1].seg \in Nat /\ pending[1].off \in Nat
        BY <4>1, <1>1, PartsAre DEF LogInv, QueueInv, WalInv
      <4>3. Place(cp.start + 1, 0) <= Place(pending[1].seg, 0)
        BY <4>2, <1>2, <1>4, PlaceBegins, SMTT(30)
      <4>4. Place(pending[1].seg, pending[1].off + 1) = Place(pending[1].seg, 0) + (pending[1].off + 1)
            /\ Place(pending[1].seg, 0) \in Int
        <5>1. pending[1].off + 1 \in Int
          BY <4>2
        <5> QED BY <5>1, <4>2, PlaceAt
      <4>5. End' = End
        BY <3>3, <1>6
      <4>6. Place(pending[1].seg, 0) + (pending[1].off + 1) = End - Len(pending) + 1 - 1 /\ pending[1].off \in Nat
        BY <4>2, <4>4
      <4>7. Place(cp.start + 1, 0) + 1 <= End - Len(pending)
        <5>1. /\ Place(cp.start + 1, 0) \in Int /\ Place(pending[1].seg, 0) \in Int
              /\ End \in Int /\ Len(pending) \in Nat
          BY <4>4, <1>2, <1>4
        <5> QED BY <5>1, <4>3, <4>6
      <4>8. Place(cp.start + 1, 1) <= End - Len(pending)
        BY <4>7, <1>4, Zenon
      <4> QED BY <4>5, <4>8, Zenon
    <3> QED BY <3>1, <3>2, <3>3
  <2>2. ASSUME NEW i \in 1 .. Len(pending)
        PROVE  /\ pending[i].seq = cp.next - Len(pending) + i - 1
               /\ Place(pending[i].seg, pending[i].off + 1) = End' - Len(pending) + i - 1
               /\ pending[i].seg \in cp.start + 1 .. curSeg' /\ pending[i].off < SegSize
    <3>1. cp.start # curSeg
      BY <1>2, <1>6
    <3>2. End' = End /\ curSeg' = curSeg
      BY <3>1, <1>1, <1>6
    <3>3. pending[i].seg > cp.start /\ pending[i].seg \in cp.start .. curSeg
      BY <1>1 DEF LogInv, QueueInv
    <3>4. pending[i].seg \in cp.start + 1 .. curSeg
      BY <3>3, <1>2
    <3> QED BY <3>2, <3>4 DEF LogInv, QueueInv
  <2>3. Place(cp'.start, cp'.acked + 1) = Place(cp.start + 1, 1)
    BY <1>1 DEF Place
  <2> QED BY <2>1, <2>2, <2>3, <1>1 DEF QueueInv, Place
<1>9. SavedInv'
  <2>1. SavedEnd' = SavedEnd
    BY <1>1 DEF SavedEnd, Place
  <2>2. SavedEnd <= End - Len(pending) /\ (cpFile.next >= SeqOf(SavedEnd) \/ SeqOf(SavedEnd) <= 1)
    BY DEF LogInv, SavedInv
  <2>3. SavedEnd <= End' - Len(pending)
    BY <2>2, <1>2, <1>6
  <2>4. SeqOf(SavedEnd) = cp.next - (End - SavedEnd) /\ SeqOf(SavedEnd)' = cp.next - (End' - SavedEnd)
    BY <2>1, <1>1 DEF SeqOf
  <2>5. cpFile.next >= SeqOf(SavedEnd)' \/ SeqOf(SavedEnd)' <= 1
    BY <2>2, <2>4, <1>2, <1>6, SMTT(30)
  <2>6. op' \in {"cleaned", "save"}
    BY <1>1
  <2> QED BY <2>1, <2>3, <2>5, <2>6, <1>1 DEF SavedInv
<1>10. BatchInv' /\ KeptInv' /\ RestInv'
  <2>1. Ahead' = 0 /\ Ahead = 0
    BY <1>1 DEF Ahead
  <2> QED BY <2>1, <1>1 DEF LogInv, BatchInv, KeptInv, RestInv
<1> QED BY <1>7, <1>8, <1>9, <1>10 DEF LogInv

\* What a save of the checkpoint writes, or leaves.
LEMMA SavedLog ==
    ASSUME WalInv, LogInv, running, op \notin {"write", "sync", "space"}, op' = "idle",
           UNCHANGED <<segs, cp, pending, cur, curSeg, curOff>>,
           cpFile' = cp \/ (cpFile' = cpFile /\ op \notin {"cleaned", "save"})
    PROVE  /\ ChainInv' /\ QueueInv' /\ SavedInv'
           /\ SavedEnd' <= End - Len(pending) /\ SavedEnd' \in Int /\ cpFile'.next <= cp.next
<1>1. /\ cp.next \in Nat \ {0} /\ End \in Int /\ SavedEnd \in Int /\ cp.start \in Nat /\ cp.acked \in Nat
      /\ Len(pending) \in Nat
  BY Numbers
<1>2. ChainInv' /\ QueueInv' /\ End' = End /\ cp' = cp
  BY DEF LogInv, ChainInv, QueueInv, Whole, SeqOf, End, Place
<1>3. CASE cpFile' = cp
  <2>1. SavedEnd' = Place(cp.start, cp.acked + 1)
    BY <1>3 DEF SavedEnd, Place
  <2>2. Place(cp.start, cp.acked + 1) <= End - Len(pending) /\ Place(cp.start, cp.acked + 1) \in Int
    <3>1. cp.acked + 1 \in Int
      BY <1>1
    <3> QED BY <3>1, <1>1, PlaceAt DEF LogInv, QueueInv
  <2>3. cp.next >= cp.next - (End - SavedEnd')
    BY <2>1, <2>2, <1>1
  <2>4. SavedInv'
    BY <2>1, <2>2, <2>3, <1>2, <1>3 DEF SavedInv, SeqOf
  <2> QED BY <2>1, <2>2, <2>4, <1>1, <1>2, <1>3
<1>4. CASE cpFile' = cpFile /\ op \notin {"cleaned", "save"}
  <2>1. SavedEnd' = SavedEnd
    BY <1>4 DEF SavedEnd, Place
  <2>2. SavedInv'
    BY <2>1, <1>2, <1>4 DEF LogInv, SavedInv, SeqOf
  <2>3. cpFile.next <= cp.next
    BY NoBatch
  <2> QED BY <2>1, <2>2, <2>3, <1>1, <1>2, <1>4 DEF LogInv, SavedInv
<1> QED BY <1>3, <1>4

\* What the checkpoint says is confirmed is.
LEMMA SaveLog ==
    ASSUME WalInv, LogInv, Durable, SkipOrSave \/ SaveAfterRemoval \/ SetCursor
    PROVE  LogInv'
<1>1. /\ running /\ op \notin {"write", "sync", "space"} /\ op' = "idle" /\ running'
      /\ UNCHANGED <<segs, cp, pending, cur, curSeg, curOff, running, promised, committed>>
      /\ cpFile' = cp \/ (cpFile' = cpFile /\ op \notin {"cleaned", "save"})
  BY DEF SkipOrSave, SaveAfterRemoval, SetCursor, At, Return, memVars, opVars, history, Durable
<1>2. ChainInv' /\ QueueInv' /\ SavedInv' /\ cpFile'.next <= cp.next
  BY <1>1, SavedLog
<1>3. todo = {} /\ \A s \in promised \cup committed : s < cp.next
  BY <1>1, NoBatch
<1>4. todo' = {} /\ Ahead' = 0
  BY <1>1, <1>3 DEF SkipOrSave, SaveAfterRemoval, SetCursor, Return, opVars, Ahead
<1>5. BatchInv'
  <2>1. /\ cp.next \in 1 .. cp.next /\ {} = cp.next .. cp.next + 0 - 1
        /\ cp.next >= cp.next - Len(pending)
    <3>1. cp.next \in Nat \ {0} /\ Len(pending) \in Nat
      BY Numbers
    <3> QED BY <3>1
  <2> QED BY <2>1, <1>1, <1>2, <1>3, <1>4 DEF BatchInv
<1>6. KeptInv' /\ RestInv'
  BY <1>1 DEF LogInv, KeptInv, RestInv
<1> QED BY <1>2, <1>5, <1>6 DEF LogInv

\* A clean stop leaves all of the log on disk.
LEMMA CloseLog == ASSUME WalInv, LogInv, Close PROVE LogInv'
<1>1. /\ op = "idle" /\ op' = "idle" /\ running /\ running' = FALSE
      /\ UNCHANGED <<segs, cp, pending, cur, curSeg, curOff, promised, committed>>
      /\ cpFile' \in {cpFile, cp}
  BY DEF Close, At, memVars, opVars, history
<1>2. /\ ChainInv' /\ QueueInv' /\ SavedInv' /\ cpFile'.next <= cp.next
      /\ SavedEnd' <= End - Len(pending) /\ SavedEnd' \in Int
  BY <1>1, SavedLog
<1>3. /\ cp.next \in Nat \ {0} /\ End \in Int /\ Len(pending) \in Nat /\ curOff \in Nat
  BY Numbers
<1>4. \A s \in promised \cup committed : s < cp.next
  BY <1>1, NoBatch
<1>5. DiskEnd' = End /\ End' = End
  <2>1. cur = "open" => Whole(curSeg) = curOff
    <3> SUFFICES ASSUME cur = "open" PROVE Whole(curSeg) = curOff
      OBVIOUS
    <3>1. Len(segs[curSeg].cells) = curOff + 0 /\ curSeg \in DOMAIN segs
      BY <1>1, CurrentIs DEF WalInv, TailInv, Ahead
    <3> QED BY <3>1, <1>1, <1>3, WholeIs DEF WalInv
  <2>2. Whole(curSeg)' = Whole(curSeg) /\ End' = End
    BY <1>1 DEF Whole, End, Place
  <2>3. DiskEnd' = DiskEnd
    BY <2>2, <1>1 DEF DiskEnd, Place, Whole
  <2> QED BY <2>1, <2>2, <2>3 DEF DiskEnd, End
<1>6. RestInv'
  <2>1. SeqOf(DiskEnd)' = cp.next
    <3>1. SeqOf(DiskEnd)' = cp.next - (End' - DiskEnd')
      BY <1>1 DEF SeqOf
    <3> QED BY <3>1, <1>3, <1>5
  <2>2. cp.next \in 1 .. cp.next + 1 /\ SavedEnd' <= DiskEnd'
    BY <1>2, <1>3, <1>5
  <2> QED BY <2>1, <2>2, <1>1, <1>2, <1>4 DEF RestInv
<1>7. BatchInv' /\ KeptInv'
  BY <1>1 DEF LogInv, BatchInv, KeptInv
<1> QED BY <1>2, <1>6, <1>7 DEF LogInv

\* What a crash leaves of a file is whole up to some record, the batch's part
\* of the file written to at most is gone.
LEMMA CutIs ==
    ASSUME WalInv, Durable, Crash, NEW g \in DOMAIN segs
    PROVE  /\ Whole(g)' \in 0 .. Len(segs[g].cells)
           /\ \A p \in 1 .. Whole(g)' : segs'[g].cells[p] = segs[g].cells[p]
           /\ g # curSeg => Whole(g)' = Len(segs[g].cells)
           /\ g = curSeg => Whole(g)' >= Len(segs[g].cells) - Cardinality(OfBatch(g))
<1>1. CleanCuts /\ WriteBack
  BY DEF Durable
<1>2. PICK n \in Certain(g) .. Len(segs[g].cells) :
         /\ n \in Nat /\ Len(segs'[g].cells) \in {n, n + 1}
         /\ Len(segs'[g].cells) = n + 1 => segs'[g].cells[n + 1] = Torn
         /\ Len(segs'[g].cells) = n + 1 => n < Len(segs[g].cells) \/ Writing(g)
         /\ \A p \in 1 .. n : segs'[g].cells[p] = segs[g].cells[p]
  BY <1>1, SurvivorIs
<1>3. /\ Certain(g) \in Int /\ Len(segs[g].cells) \in Nat /\ n <= Len(segs[g].cells) /\ n >= Certain(g)
      /\ Cardinality(OfBatch(g)) \in Nat
  BY <1>2, CertainIs
<1>4. Certain(g) = Len(segs[g].cells) - IF g = curSeg THEN Cardinality(OfBatch(g)) ELSE 0
  BY <1>1 DEF Certain
<1>5. \A p \in 1 .. n : segs[g].cells[p] # Torn
  <2>1. running /\ \A p \in 1 .. n : p \in 1 .. Len(segs[g].cells)
    BY <1>2, <1>3 DEF Crash
  <2> QED BY <2>1 DEF WalInv, CellsInv
<1>6. Whole(g)' = n
  <2>1. CASE Len(segs'[g].cells) = n + 1
    <3>1. segs'[g].cells[n + 1] = Torn
      BY <2>1, <1>2
    <3> QED BY <2>1, <3>1, <1>2 DEF Whole
  <2>2. CASE Len(segs'[g].cells) = n
    <3>1. n > 0 => segs'[g].cells[n] # Torn
      <4>1. n > 0 => n \in 1 .. n
        BY <1>2
      <4> QED BY <4>1, <1>2, <1>5
    <3> QED BY <2>2, <3>1, <1>2 DEF Whole
  <2> QED BY <2>1, <2>2, <1>2
<1> QED BY <1>2, <1>3, <1>4, <1>6

\* Only records of the running batch are lost, of which nobody has heard.
LEMMA CrashLog == ASSUME WalInv, LogInv, Durable, Crash PROVE LogInv'
<1>1. /\ running /\ running' = FALSE /\ op \notin {"cleaned", "save"} /\ Return
      /\ UNCHANGED <<cpFile, cp, pending, cur, curSeg, curOff, promised, committed>>
      /\ DOMAIN segs' = DOMAIN segs
  BY CrashIs DEF Durable
<1>2. /\ SegSize \in Nat \ {0} /\ cp.next \in Nat \ {0} /\ cpFile.next \in Nat /\ Len(pending) \in Nat
      /\ curSeg \in Nat /\ curOff \in Nat /\ End \in Int /\ SavedEnd \in Int /\ Ahead \in {0, 1}
  BY Numbers
<1>3. End' = End /\ SavedEnd' = SavedEnd /\ \A x : SeqOf(x)' = SeqOf(x)
  BY <1>1 DEF End, SavedEnd, SeqOf, Place
<1>4. ASSUME NEW g \in DOMAIN segs
      PROVE  /\ Whole(g)' \in 0 .. Len(segs[g].cells) /\ Whole(g) = Len(segs[g].cells) /\ g \in Nat
             /\ Len(segs[g].cells) \in Nat
             /\ \A p \in 1 .. Whole(g)' : segs'[g].cells[p] = segs[g].cells[p]
             /\ g # curSeg => Whole(g)' = Len(segs[g].cells)
  <2>1. /\ Whole(g)' \in 0 .. Len(segs[g].cells)
        /\ \A p \in 1 .. Whole(g)' : segs'[g].cells[p] = segs[g].cells[p]
        /\ g # curSeg => Whole(g)' = Len(segs[g].cells)
    BY CutIs
  <2>2. Whole(g) = Len(segs[g].cells) /\ g \in Nat /\ Len(segs[g].cells) \in Nat
    BY <1>1, WholeIs DEF WalInv, TypeOK, FilesTypeOK
  <2> QED BY <2>1, <2>2
<1>5. ChainInv'
  <2>1. ASSUME NEW g \in DOMAIN segs
        PROVE  /\ g < curSeg => Whole(g)' = SegSize
               /\ \A p \in 1 .. Whole(g)' : segs'[g].cells[p] = SeqOf(Place(g, p))'
    <3>1. g < curSeg => Whole(g)' = SegSize
      <4>1. g < curSeg => Whole(g) = SegSize /\ g # curSeg
        BY <1>2, <1>4 DEF LogInv, ChainInv
      <4> QED BY <4>1, <1>4
    <3>2. ASSUME NEW p \in 1 .. Whole(g)' PROVE segs'[g].cells[p] = SeqOf(Place(g, p))'
      <4>1. p \in 1 .. Whole(g) /\ segs'[g].cells[p] = segs[g].cells[p]
        BY <1>4
      <4>2. SeqOf(Place(g, p))' = SeqOf(Place(g, p))
        BY <1>1, <1>3 DEF SeqOf, Place
      <4> QED BY <4>1, <4>2 DEF LogInv, ChainInv
    <3> QED BY <3>1, <3>2
  <2> QED BY <2>1, <1>1 DEF ChainInv
<1>6. QueueInv' /\ SavedInv'
  <2>1. QueueInv'
    BY <1>1, <1>3 DEF LogInv, QueueInv, Place
  <2>2. SeqOf(SavedEnd)' = SeqOf(SavedEnd)
    BY <1>1, <1>3 DEF SeqOf
  <2>3. SavedInv'
    BY <2>2, <1>1, <1>3 DEF LogInv, SavedInv
  <2> QED BY <2>1, <2>3
<1>7. BatchInv' /\ KeptInv'
  BY <1>1 DEF LogInv, BatchInv, KeptInv
<1>8. PICK b \in 1 .. cp.next : /\ todo = b .. cp.next + Ahead - 1
                               /\ b >= cp.next - Len(pending)
                               /\ cpFile.next <= b
                               /\ \A s \in promised \cup committed : s < b
  BY <1>1 DEF LogInv, BatchInv
<1>9. DiskEnd' \in Int /\ DiskEnd' >= End - (cp.next - b) /\ DiskEnd' <= End + Ahead /\ (DiskEnd' = End \/ cur = "open")
  <2>1. CASE cur # "open"
    <3>1. DiskEnd' = End
      BY <2>1, <1>1, <1>3 DEF DiskEnd
    <3> QED BY <3>1, <1>2, <1>8
  <2>2. CASE cur = "open"
    <3>1. curSeg \in DOMAIN segs /\ Len(segs[curSeg].cells) = curOff + Ahead
      BY <2>2, <1>1, CurrentIs DEF WalInv, TailInv
    <3>7. PICK g \in DOMAIN segs : g = curSeg
      BY <3>1
    <3>2. End = Place(curSeg, curOff + 1) /\ DiskEnd' = Place(curSeg, Whole(g)' + 1)
      <4>1. End = Place(curSeg, curOff + 1)
        BY <2>2 DEF End
      <4>2. DiskEnd' = Place(curSeg', Whole(curSeg)' + 1)
        BY <2>2, <1>1 DEF DiskEnd, Place
      <4>3. Whole(curSeg)' = Whole(g)' /\ curSeg' = g
        BY <3>7, <1>1 DEF Whole
      <4> QED BY <4>1, <4>2, <4>3, <3>7
    <3>3. Whole(g)' \in 0 .. curOff + Ahead
          /\ Whole(g)' >= (curOff + Ahead) - Cardinality(OfBatch(curSeg))
      <4>1. /\ Whole(g)' \in 0 .. Len(segs[g].cells)
            /\ g = curSeg => Whole(g)' >= Len(segs[g].cells) - Cardinality(OfBatch(g))
        BY CutIs
      <4>2. Len(segs[g].cells) = curOff + Ahead
        BY <3>1, <3>7
      <4>3. OfBatch(g) = OfBatch(curSeg)
        BY <3>7
      <4>4. /\ Whole(g)' \in 0 .. Len(segs[g].cells)
            /\ Whole(g)' >= Len(segs[g].cells) - Cardinality(OfBatch(g))
        BY <3>7, <4>1
      <4>5. Cardinality(OfBatch(g)) = Cardinality(OfBatch(curSeg))
        BY <4>3, Zenon
      <4>6. Whole(g)' \in 0 .. curOff + Ahead
        BY <4>2, <4>4, Zenon
      <4>7. Whole(g)' >= (curOff + Ahead) - Cardinality(OfBatch(curSeg))
        <5>1. Len(segs[g].cells) - Cardinality(OfBatch(g)) = (curOff + Ahead) - Cardinality(OfBatch(curSeg))
          BY <4>2, <4>5, Zenon
        <5>2. Whole(g)' >= Len(segs[g].cells) - Cardinality(OfBatch(g))
          BY <4>4
        <5> QED BY <5>1, <5>2, Zenon
      <4> QED BY <4>6, <4>7
    <3>4. /\ End = Place(curSeg, 0) + (curOff + 1) /\ Place(curSeg, 0) \in Int
          /\ DiskEnd' = Place(curSeg, 0) + (Whole(g)' + 1)
      <4>1. curOff + 1 \in Int /\ Whole(g)' + 1 \in Int
        BY <3>3, <1>2
      <4> QED BY <3>2, <4>1, <1>2, PlaceAt
    <3>5. Cardinality(OfBatch(curSeg)) <= cp.next + Ahead - b /\ Cardinality(OfBatch(curSeg)) \in Nat
      <4> DEFINE first == b - cp.next + curOff + 1
                 last == curOff + Ahead
      <4>1. first \in Int /\ last \in Int /\ last - first + 1 = cp.next + Ahead - b /\ cp.next + Ahead - b >= 0
        <5>1. b \in Int /\ b <= cp.next /\ cp.next \in Int /\ curOff \in Int /\ Ahead \in Int /\ Ahead >= 0
          BY <1>2, <1>8
        <5> QED BY <5>1
      <4>2. ASSUME NEW p \in OfBatch(curSeg) PROVE p \in first .. last
        <5>1. p \in segs[curSeg].synced + 1 .. last /\ segs[curSeg].cells[p] \in todo
          BY <3>1 DEF OfBatch
        <5>2. segs[curSeg].synced \in Nat /\ p \in Int /\ p <= last /\ p >= 1
          BY <3>1, <4>1, <5>1, WholeIs DEF WalInv
        <5>3. p \in 1 .. Whole(curSeg)
          BY <3>1, <5>2, <1>4
        <5>4. segs[curSeg].cells[p] = SeqOf(Place(curSeg, p))
          BY <3>1, <5>3 DEF LogInv, ChainInv
        <5>5. Place(curSeg, p) = Place(curSeg, 0) + p
          BY <5>2, <1>2, PlaceAt
        <5>6. SeqOf(Place(curSeg, p)) = cp.next - (End - Place(curSeg, p))
          BY DEF SeqOf
        <5>7. segs[curSeg].cells[p] = cp.next - (curOff + 1 - p)
          BY <3>4, <5>2, <5>4, <5>5, <5>6, <1>2
        <5>8. segs[curSeg].cells[p] >= b
          <6>1. cp.next + Ahead - 1 \in Int /\ b \in Int
            BY <1>2, <1>8
          <6> QED BY <5>1, <6>1, <1>8
        <5> QED BY <5>2, <5>7, <5>8, <1>2, <1>8
      <4>3. IsFiniteSet(first .. last) /\ Cardinality(first .. last) = cp.next + Ahead - b
        <5>1. IsFiniteSet(first .. last) /\ Cardinality(first .. last) = IF first > last THEN 0 ELSE last - first + 1
          <6> HIDE DEF first, last
          <6> QED BY <4>1, FS_Interval
        <5> QED BY <5>1, <4>1
      <4>4. OfBatch(curSeg) \in SUBSET (first .. last)
        BY <4>2
      <4>5. Cardinality(OfBatch(curSeg)) <= Cardinality(first .. last)
        <5> HIDE DEF first, last
        <5> QED BY <4>3, <4>4, FS_Subset
      <4>6. Cardinality(OfBatch(curSeg)) \in Nat
        BY <3>1, CertainIs
      <4> QED BY <4>3, <4>5, <4>6
    <3>6. b \in Int /\ Whole(g)' \in Int /\ Whole(g)' <= curOff + Ahead /\ cp.next \in Int /\ curOff \in Int
          /\ Ahead \in Int
      BY <3>3, <1>2, <1>8
    <3>8. Whole(g)' >= curOff - cp.next + b
      BY <3>3, <3>5, <3>6
    <3>9. DiskEnd' \in Int /\ DiskEnd' >= End - (cp.next - b) /\ DiskEnd' <= End + Ahead
      BY <3>4, <3>6, <3>8
    <3> QED BY <2>2, <3>9
  <2> QED BY <2>1, <2>2
<1>10. RestInv'
  <2>1. b \in Nat /\ b >= 1 /\ b <= cp.next
    BY <1>2, <1>8
  <2>2. SeqOf(DiskEnd)' = cp.next - (End - DiskEnd')
    BY <1>1, <1>3 DEF SeqOf
  <2>3. SeqOf(DiskEnd)' >= b /\ SeqOf(DiskEnd)' <= cp.next + 1 /\ SeqOf(DiskEnd)' \in Int
    BY <2>1, <2>2, <1>2, <1>9, SMTT(30)
  <2>4. SavedEnd <= DiskEnd'
    <3>1. SavedEnd <= End - Len(pending) /\ b >= cp.next - Len(pending)
      BY <1>8 DEF LogInv, SavedInv
    <3> QED BY <2>1, <3>1, <1>2, <1>9
  <2>5. \A s \in promised \cup committed : s < SeqOf(DiskEnd)'
    <3>1. promised \cup committed \subseteq Nat
      BY DEF WalInv, TypeOK, OpTypeOK
    <3> QED BY <2>1, <2>3, <3>1, <1>8
  <2>6. cpFile.next <= SeqOf(DiskEnd)' /\ SeqOf(DiskEnd)' \in 1 .. cp.next + 1
    BY <2>1, <2>3, <1>2, <1>8
  <2> QED BY <2>4, <2>5, <2>6, <1>1, <1>3 DEF RestInv
<1> QED BY <1>5, <1>6, <1>7, <1>10 DEF LogInv

At0(e) == Place(e.seg, e.off + 1)

\* What Open knows of the places of the entries: from the end of what is confirmed
\* to the end of what is on disk there is one of them at each.
LEMMA OpenPlaces ==
    ASSUME WalInv, LogInv, Open, DOMAIN segs # {}
    PROVE  /\ OpenStart = cp.start /\ OpenAcked = cpFile.acked /\ SavedEnd = Place(cp.start, OpenAcked + 1)
           /\ DiskEnd = Place(Top, Whole(Top) + 1) /\ DiskEnd \in Int /\ SavedEnd \in Int /\ SavedEnd <= DiskEnd
           /\ \A e \in OpenEntries : /\ At0(e) \in SavedEnd .. DiskEnd - 1 /\ e.seq = SeqOf(At0(e))
                                    /\ e.seg \in Nat /\ e.off + 1 \in 1 .. SegSize /\ e.off \in Nat
                                    /\ e.seg \in cp.start .. Top
           /\ \A x \in SavedEnd .. DiskEnd - 1 : \E e \in OpenEntries : At0(e) = x
           /\ \A d, e \in OpenEntries : Before(d, e) <=> At0(d) < At0(e)
<1>1. /\ SegSize \in Nat \ {0} /\ cp.next \in Nat \ {0} /\ curSeg \in Nat /\ curOff \in Nat /\ cp.start \in Nat
      /\ cpFile.acked \in Nat /\ End \in Int /\ SavedEnd \in Int
  BY Numbers
<1>2. ~running /\ op = "idle"
  BY DEF Open, WalInv, StageInv
<1>3. /\ Alive = DOMAIN segs /\ OpenStart = cp.start /\ Top \in Int /\ cp.start \in DOMAIN segs
      /\ DOMAIN segs = cp.start .. Top /\ cpFile.start = cp.start /\ cpFile.acked <= SegSize
      /\ Top \in DOMAIN segs /\ Top \in Nat
  <2>1. Alive = DOMAIN segs /\ OpenStart = cp.start /\ Top \in Int
    BY AliveIs DEF WalInv
  <2>2. DOMAIN segs = cp.start .. Top /\ cpFile.start = cp.start /\ cpFile.acked <= SegSize
    BY <1>2 DEF WalInv, FilesInv, LogInv, SavedInv
  <2> QED BY <2>1, <2>2, <1>1
<1>4. OpenAcked = cpFile.acked /\ SavedEnd = Place(cp.start, OpenAcked + 1)
  BY <1>3 DEF OpenAcked, SavedEnd
<1>5. ASSUME NEW g \in DOMAIN segs
      PROVE  /\ g \in Nat /\ Whole(g) \in Nat /\ Whole(g) <= SegSize /\ g >= cp.start /\ g <= Top
             /\ g < Top => Whole(g) = SegSize
             /\ \A p \in 1 .. Whole(g) : segs[g].cells[p] = SeqOf(Place(g, p))
  <2>1. g \in Nat /\ g >= cp.start /\ g <= Top /\ Top <= curSeg
    BY <1>1, <1>3 DEF Top
  <2>2. Whole(g) \in 0 .. Len(segs[g].cells) /\ Whole(g) <= SegSize /\ Len(segs[g].cells) \in Nat
    BY WholeIs DEF WalInv
  <2>3. g < Top => Whole(g) = SegSize
    <3>1. g < Top => g < curSeg
      BY <2>1, <1>1, <1>3
    <3> QED BY <3>1 DEF LogInv, ChainInv
  <2> QED BY <2>1, <2>2, <2>3 DEF LogInv, ChainInv
<1>6. DiskEnd = Place(Top, Whole(Top) + 1)
  <2>1. CASE cur = "open"
    BY <2>1 DEF DiskEnd, Top
  <2>2. CASE cur # "open"
    <3>1. Top = curSeg - 1 /\ curSeg = Top + 1
      BY <2>2, <1>1 DEF Top
    <3>2. cur = "closed"
      <4>1. cur # "none"
        BY <1>1, <1>3, <3>1 DEF WalInv, FilesInv
      <4> QED BY <2>2, <4>1 DEF WalInv, TypeOK, MemoryTypeOK
    <3>3. DiskEnd = Place(Top + 1, 1)
      BY <3>1, <3>2 DEF DiskEnd, End
    <3>4. Whole(Top) = SegSize
      <4>1. Top < curSeg
        BY <3>1, <1>3
      <4> QED BY <4>1, <1>3 DEF LogInv, ChainInv
    <3>5. Place(Top, SegSize + 1) = Place(Top, 0) + (SegSize + 1) /\ Place(Top, 0) \in Int
      <4>1. SegSize + 1 \in Int
        BY <1>1
      <4> QED BY <4>1, <1>3, PlaceAt
    <3>6. Place(Top + 1, 1) = Place(Top + 1, 0) + 1
      <4>1. Top + 1 \in Nat
        BY <1>3
      <4> QED BY <4>1, PlaceAt
    <3>7. Place(Top + 1, 0) = Place(Top, 0) + SegSize
      BY <1>3, PlaceFacts
    <3> QED BY <3>3, <3>4, <3>5, <3>6, <3>7, <1>1
  <2> QED BY <2>1, <2>2
<1>7. SavedEnd = Place(cp.start, 0) + (OpenAcked + 1) /\ Place(cp.start, 0) \in Int /\ Place(cp.start, 0) >= 0
  <2>1. OpenAcked + 1 \in Int
    BY <1>1, <1>4
  <2>2. Place(cp.start, 0) \in Nat
    BY <1>1, PlaceFacts
  <2> QED BY <2>1, <2>2, <1>1, <1>4, PlaceAt
<1>8. DiskEnd = Place(Top, 0) + (Whole(Top) + 1) /\ Place(Top, 0) \in Int /\ Whole(Top) \in Nat
      /\ Whole(Top) <= SegSize
  <2>1. Whole(Top) + 1 \in Int /\ Whole(Top) \in Nat /\ Whole(Top) <= SegSize
    BY <1>3, <1>5
  <2> QED BY <2>1, <1>3, <1>6, PlaceAt
<1>9. SavedEnd <= DiskEnd
  BY <1>2 DEF LogInv, RestInv
<1>10. ASSUME NEW g \in Nat, NEW h \in Nat, g < h
       PROVE  Place(g, 0) + SegSize <= Place(h, 0) /\ Place(g, 0) \in Int /\ Place(h, 0) \in Int
  <2>1. Place(h, 0) >= Place(g, SegSize)
    BY <1>10, PlaceLater
  <2>2. Place(g, SegSize) = Place(g, 0) + SegSize /\ Place(g, 0) \in Int
    BY <1>1, PlaceAt
  <2>3. Place(h, 0) \in Int
    BY <1>1, PlaceAt
  <2> QED BY <2>1, <2>2, <2>3
<1>11. ASSUME NEW e \in OpenEntries
       PROVE  /\ At0(e) \in SavedEnd .. DiskEnd - 1 /\ e.seq = SeqOf(At0(e))
              /\ e.seg \in Nat /\ e.off + 1 \in 1 .. SegSize /\ e.off \in Nat /\ e.seg \in cp.start .. Top
  <2>1. PICK g, p : Visible(g, p) /\ e = EntryAt(g, p)
    BY EntryIs DEF WalInv
  <2>2. g \in DOMAIN segs /\ p \in 1 .. Whole(g) /\ (g = cp.start => p > OpenAcked)
    BY <2>1, <1>3 DEF Visible
  <2>3. /\ g \in Nat /\ Whole(g) \in Nat /\ Whole(g) <= SegSize /\ g >= cp.start /\ g <= Top
        /\ g < Top => Whole(g) = SegSize
        /\ segs[g].cells[p] = SeqOf(Place(g, p))
    BY <2>2, <1>5
  <2>4. p \in Int /\ p - 1 \in Nat /\ p - 1 + 1 = p /\ p \in 1 .. SegSize /\ p <= Whole(g) /\ p >= 1
    BY <2>2, <2>3, <1>1
  <2>5. e.seg = g /\ e.off = p - 1 /\ e.seq = segs[g].cells[p]
    BY <2>1 DEF EntryAt
  <2>6. At0(e) = Place(g, p)
    BY <2>4, <2>5 DEF At0
  <2>7. Place(g, p) = Place(g, 0) + p /\ Place(g, 0) \in Int /\ Place(g, p) \in Int
    BY <2>3, <2>4, PlaceAt
  <2>8. Place(g, p) >= SavedEnd
    <3>1. CASE g = cp.start
      BY <3>1, <2>2, <2>4, <2>7, <1>1, <1>4, <1>7
    <3>2. CASE g # cp.start
      <4>1. cp.start < g
        BY <3>2, <2>3, <1>1
      <4>2. Place(cp.start, 0) + SegSize <= Place(g, 0)
        BY <4>1, <2>3, <1>1, <1>10
      <4>3. OpenAcked \in Nat /\ OpenAcked <= SegSize
        BY <1>1, <1>3, <1>4
      <4> QED BY <4>2, <4>3, <2>4, <2>7, <1>1, <1>7
    <3> QED BY <3>1, <3>2
  <2>9. Place(g, p) <= DiskEnd - 1
    <3>1. CASE g = Top
      BY <3>1, <2>4, <2>7, <1>8
    <3>2. CASE g # Top
      <4>1. g < Top
        BY <3>2, <2>3, <1>3
      <4>2. Place(g, 0) + SegSize <= Place(Top, 0)
        BY <4>1, <2>3, <1>3, <1>10
      <4> QED BY <4>2, <2>3, <2>4, <2>7, <1>1, <1>8
    <3> QED BY <3>1, <3>2
  <2>10. DiskEnd \in Int
    BY <1>8
  <2>11. g \in cp.start .. Top
    BY <2>3, <1>1, <1>3
  <2> QED BY <2>3, <2>4, <2>5, <2>6, <2>7, <2>8, <2>9, <2>10, <2>11, <1>1
<1>12. ASSUME NEW x \in SavedEnd .. DiskEnd - 1
       PROVE  \E e \in OpenEntries : At0(e) = x
  <2>1. x \in Nat \ {0} /\ x >= SavedEnd /\ x <= DiskEnd - 1 /\ DiskEnd \in Int
    BY <1>1, <1>4, <1>7, <1>8
  <2>2. PICK g \in Nat, p \in 1 .. SegSize : Place(g, p) = x
    BY <2>1, PlaceExists
  <2>3. x = Place(g, 0) + p /\ Place(g, 0) \in Int /\ p \in Int /\ p >= 1 /\ p <= SegSize
    <3>1. p \in Int /\ p >= 1 /\ p <= SegSize
      BY <1>1
    <3> QED BY <3>1, <2>2, PlaceAt
  <2>4. g >= cp.start
    <3>1. ASSUME g < cp.start PROVE FALSE
      <4>1. Place(g, 0) + SegSize <= Place(cp.start, 0)
        BY <3>1, <1>1, <1>10
      <4> QED BY <4>1, <2>1, <2>3, <1>1, <1>4, <1>7
    <3> QED BY <3>1, <1>1
  <2>5. g <= Top
    <3>1. ASSUME Top < g PROVE FALSE
      <4>1. Place(Top, 0) + SegSize <= Place(g, 0)
        BY <3>1, <1>3, <1>10
      <4> QED BY <4>1, <2>1, <2>3, <1>1, <1>8
    <3> QED BY <3>1, <1>3
  <2>6. g \in DOMAIN segs
    BY <2>4, <2>5, <1>1, <1>3
  <2>7. p <= Whole(g)
    <3>1. CASE g = Top
      BY <3>1, <2>1, <2>3, <1>8
    <3>2. CASE g # Top
      <4>1. g < Top
        BY <3>2, <2>5, <1>3
      <4> QED BY <4>1, <2>3, <2>6, <1>5
    <3> QED BY <3>1, <3>2
  <2>8. g = cp.start => p > OpenAcked
    <3>1. g = cp.start => Place(g, 0) = Place(cp.start, 0)
      OBVIOUS
    <3>2. OpenAcked \in Int
      BY <1>1, <1>4
    <3> QED BY <3>1, <3>2, <2>1, <2>3, <1>7
  <2>9. Visible(g, p)
    <3>1. p \in 1 .. Whole(g)
      BY <2>3, <2>6, <2>7, <1>5
    <3> QED BY <3>1, <2>6, <2>8, <1>3 DEF Visible
  <2>10. EntryAt(g, p) \in OpenEntries
    BY <2>9, EntryIs DEF WalInv
  <2>11. At0(EntryAt(g, p)) = x
    <3>1. EntryAt(g, p).seg = g /\ EntryAt(g, p).off = p - 1 /\ p - 1 + 1 = p
      BY <2>3 DEF EntryAt
    <3> QED BY <3>1, <2>2 DEF At0
  <2> QED BY <2>10, <2>11
<1>13. ASSUME NEW d \in OpenEntries, NEW e \in OpenEntries
       PROVE  Before(d, e) <=> At0(d) < At0(e)
  <2>1. d.seg \in Nat /\ d.off + 1 \in 1 .. SegSize /\ d.off \in Nat
    BY <1>11
  <2>2. e.seg \in Nat /\ e.off + 1 \in 1 .. SegSize /\ e.off \in Nat
    BY <1>11
  <2>3. Place(d.seg, d.off + 1) < Place(e.seg, e.off + 1)
        <=> d.seg < e.seg \/ (d.seg = e.seg /\ d.off + 1 < e.off + 1)
    BY <2>1, <2>2, PlaceOrder
  <2>4. d.off + 1 < e.off + 1 <=> d.off < e.off
    BY <2>1, <2>2
  <2> QED BY <2>3, <2>4 DEF Before, At0
<1>14. DiskEnd \in Int
  BY <1>8
<1> QED BY <1>1, <1>3, <1>4, <1>6, <1>9, <1>11, <1>12, <1>13, <1>14

\* There are as many as there are places, and an entry's rank is how far its place
\* is from the first.
LEMMA OpenCount ==
    ASSUME WalInv, LogInv, Open, DOMAIN segs # {}
    PROVE  /\ Cardinality(OpenEntries) = DiskEnd - SavedEnd
           /\ \A e \in OpenEntries : Rank(e) = At0(e) - SavedEnd
<1> DEFINE at0 == [e \in OpenEntries |-> At0(e)]
<1>1. /\ DiskEnd \in Int /\ SavedEnd \in Int /\ SavedEnd <= DiskEnd
      /\ \A e \in OpenEntries : At0(e) \in SavedEnd .. DiskEnd - 1
      /\ \A x \in SavedEnd .. DiskEnd - 1 : \E e \in OpenEntries : At0(e) = x
      /\ \A d, e \in OpenEntries : Before(d, e) <=> At0(d) < At0(e)
  BY OpenPlaces
<1>2. \A d, e \in OpenEntries : At0(d) = At0(e) => d = e
  <2>1. \A e \in OpenEntries : At0(e) \in Int
    BY <1>1
  <2>2. \A d, e \in OpenEntries : d = e \/ Before(d, e) \/ Before(e, d)
    BY BeforeIs DEF WalInv
  <2> QED BY <1>1, <2>1, <2>2
<1>3. ASSUME NEW S \in SUBSET OpenEntries, NEW n \in Int, SavedEnd <= n,
             \A x \in SavedEnd .. n - 1 : \E e \in S : At0(e) = x,
             \A e \in S : At0(e) \in SavedEnd .. n - 1
      PROVE  Cardinality(S) = n - SavedEnd
  <2> DEFINE f == [e \in S |-> At0(e)]
             T == SavedEnd .. n - 1
  <2>1. f \in [S -> T]
    BY <1>3
  <2>2. f \in Injection(S, T)
    <3>1. \A d, e \in S : f[d] = f[e] => d = e
      BY <1>2
    <3> QED BY <2>1, <3>1 DEF Injection, IsInjective
  <2>3. f \in Surjection(S, T)
    <3>1. \A x \in T : \E e \in S : f[e] = x
      BY <1>3
    <3> QED BY <2>1, <3>1 DEF Surjection
  <2>4. ExistsBijection(S, T)
    BY <2>2, <2>3 DEF Bijection, ExistsBijection
  <2>5. IsFiniteSet(T) /\ Cardinality(T) = n - SavedEnd
    <3>1. n - 1 \in Int
      OBVIOUS
    <3>2. IsFiniteSet(T) /\ Cardinality(T) = IF SavedEnd > n - 1 THEN 0 ELSE n - 1 - SavedEnd + 1
      BY <1>1, <3>1, FS_Interval
    <3> QED BY <3>2, <1>1, <1>3
  <2>6. ExistsBijection(T, S)
    <3> HIDE DEF T
    <3> QED BY <2>4, Fun_ExistsBijSymmetric
  <2>7. Cardinality(S) = Cardinality(T)
    <3> HIDE DEF T
    <3> QED BY <2>5, <2>6, FS_Bijection
  <2> QED BY <2>5, <2>7
<1>4. Cardinality(OpenEntries) = DiskEnd - SavedEnd
  BY <1>1, <1>3
<1>5. ASSUME NEW e \in OpenEntries PROVE Rank(e) = At0(e) - SavedEnd
  <2> DEFINE S == {d \in OpenEntries : Before(d, e)}
             n == At0(e)
  <2>1. S \in SUBSET OpenEntries /\ n \in Int /\ SavedEnd <= n /\ n <= DiskEnd - 1
    BY <1>1
  <2>2. ASSUME NEW d \in S PROVE At0(d) \in SavedEnd .. n - 1
    <3>1. At0(d) < n /\ At0(d) \in SavedEnd .. DiskEnd - 1
      BY <1>1
    <3> QED BY <3>1, <2>1, <1>1
  <2>3. ASSUME NEW x \in SavedEnd .. n - 1 PROVE \E d \in S : At0(d) = x
    <3>1. x \in SavedEnd .. DiskEnd - 1 /\ x < n
      BY <2>1, <1>1
    <3>2. PICK d \in OpenEntries : At0(d) = x
      BY <3>1, <1>1
    <3>3. Before(d, e)
      BY <3>1, <3>2, <1>1
    <3> QED BY <3>2, <3>3
  <2>4. Rank(e) = Cardinality(S)
    BY DEF Rank
  <2>5. Cardinality(S) = n - SavedEnd
    <3> HIDE DEF S, n
    <3> QED BY <2>1, <2>2, <2>3, <1>3
  <2> QED BY <2>4, <2>5
<1> QED BY <1>4, <1>5

\* After Open the log goes on where the disk's records end, and its index begins
\* where the checkpoint's do.
LEMMA OpenGives ==
    ASSUME WalInv, LogInv, Open
    PROVE  /\ running' /\ op' = "idle" /\ todo' = {} /\ Ahead' = 0
           /\ UNCHANGED <<cpFile, promised, committed>>
           /\ DiskEnd \in Int /\ SavedEnd \in Int /\ SavedEnd <= DiskEnd
           /\ End' = DiskEnd /\ SavedEnd' = SavedEnd
           /\ cp'.next = SeqOf(DiskEnd) /\ SeqOf(DiskEnd) = cp.next - (End - DiskEnd)
           /\ cp'.start = cpFile.start /\ cp'.acked = cpFile.acked
           /\ Len(pending') = DiskEnd - SavedEnd
           /\ \A i \in 1 .. Len(pending') :
                 /\ pending'[i].seq = SeqOf(SavedEnd + i - 1)
                 /\ Place(pending'[i].seg, pending'[i].off + 1) = SavedEnd + i - 1
                 /\ pending'[i].seg \in cp'.start .. curSeg' /\ pending'[i].off < SegSize
<1>1. /\ ~running /\ running' = TRUE /\ cur' = "open" /\ op = "idle" /\ todo = {}
      /\ UNCHANGED <<cpFile, op, todo, grouped, promised, committed>>
      /\ pending' = OpenIndex
      /\ cp' = [next |-> OpenNext, start |-> OpenStart, acked |-> OpenAcked]
      /\ curSeg' = OpenSegment
  BY OpenIs
<1>2. DOMAIN segs = {} => OpenStart = cpFile.start /\ OpenSegment = cpFile.start /\ curOff' = 0
  BY OpenIs
<1>3. DOMAIN segs # {} => OpenStart = cp.start /\ OpenSegment = Top /\ curOff' = Whole(Top)
  BY OpenIs
<1>4. /\ SegSize \in Nat \ {0} /\ cp.next \in Nat \ {0} /\ cpFile.next \in Nat /\ curSeg \in Nat /\ curOff \in Nat
      /\ cp.start \in Nat /\ cpFile.acked \in Nat /\ End \in Int /\ SavedEnd \in Int
  BY Numbers
<1>12. \A x \in Int : SeqOf(x) \in Int /\ SeqOf(x) = cp.next - (End - x)
  BY Numbers
<1>13. OpenNext \in Int /\ OpenNext >= cpFile.next /\ OpenNext >= 1
  BY OpenNextIs DEF WalInv
<1>5. /\ cpFile.start = cp.start /\ SavedEnd <= DiskEnd /\ cpFile.next <= SeqOf(DiskEnd) /\ SeqOf(DiskEnd) >= 1
      /\ cpFile.next >= SeqOf(SavedEnd) \/ SeqOf(SavedEnd) <= 1
  BY <1>1 DEF LogInv, SavedInv, RestInv
<1>6. DOMAIN segs = cp.start .. Top /\ cp.start <= curSeg /\ Top \in Int /\ (cur = "none" => curOff = 0)
  BY <1>4 DEF WalInv, FilesInv, Top
<1>7. /\ OpenNext \in {cpFile.next, 1} \cup {e.seq + 1 : e \in OpenEntries}
      /\ OpenNext >= cpFile.next /\ OpenNext >= 1 /\ \A e \in OpenEntries : OpenNext >= e.seq + 1
      /\ OpenNext \in 1 .. LastSeq + 1
  BY OpenNextIs DEF WalInv
<1>8. /\ OpenIndex \in Seq(OpenEntries) /\ Len(OpenIndex) = Cardinality(OpenEntries)
      /\ \A i \in 1 .. Len(OpenIndex) : OpenIndex[i] \in OpenEntries /\ Rank(OpenIndex[i]) = i - 1
  BY IndexIs DEF WalInv
<1>9. Ahead' = 0 /\ SavedEnd' = SavedEnd
  BY <1>1 DEF Ahead, SavedEnd, Place
<1>10. CASE DOMAIN segs = {}
  <2>1. cur # "open" /\ cp.start = curSeg
    <3>1. cp.start \in Int /\ curSeg \in Int /\ cp.start <= curSeg /\ Top \in Int
      BY <1>4, <1>6
    <3>2. ~(cp.start <= Top)
      <4>1. cp.start <= Top => cp.start \in cp.start .. Top
        BY <3>1
      <4> QED BY <4>1, <1>6, <1>10
    <3> QED BY <3>1, <3>2 DEF Top
  <2>2. End = Place(curSeg, 1) /\ DiskEnd = End
    <3>1. cur = "none" \/ cur = "closed"
      BY <2>1 DEF WalInv, TypeOK, MemoryTypeOK
    <3> QED BY <3>1, <2>1, <1>6 DEF End, DiskEnd
  <2>3. SavedEnd = DiskEnd /\ cpFile.acked = 0
    <3>1. /\ Place(curSeg, 1) = Place(curSeg, 0) + 1 /\ Place(curSeg, 0) \in Int
          /\ Place(curSeg, cpFile.acked + 1) = Place(curSeg, 0) + (cpFile.acked + 1)
      <4>1. cpFile.acked + 1 \in Int /\ 1 \in Int
        BY <1>4
      <4> QED BY <4>1, <1>4, PlaceAt
    <3>2. SavedEnd = Place(curSeg, cpFile.acked + 1)
      BY <2>1, <1>5 DEF SavedEnd
    <3>3. cpFile.acked \in Nat /\ SavedEnd <= DiskEnd
      BY <1>4, <1>5
    <3> QED BY <3>1, <3>2, <3>3, <2>2
  <2>4. End' = DiskEnd
    BY <1>1, <1>2, <1>5, <1>10, <2>1, <2>2 DEF End, Place
  <2>5. OpenEntries = {}
    BY <1>10, EntryIs DEF WalInv, Visible
  <2>6. Len(pending') = 0
    BY <2>5, <1>1, <1>8, FS_EmptySet
  <2>7. OpenNext = SeqOf(DiskEnd)
    <3>1. OpenNext = cpFile.next \/ OpenNext = 1
      BY <2>5, <1>7
    <3>2. SeqOf(DiskEnd) \in Int /\ SeqOf(SavedEnd) = SeqOf(DiskEnd) /\ cpFile.next \in Int
      BY <2>2, <2>3, <1>4, <1>12
    <3> QED BY <3>1, <3>2, <1>5, <1>13
  <2>8. OpenAcked = 0
    BY <1>10, AliveIs DEF OpenAcked, WalInv
  <2>9. SeqOf(DiskEnd) = cp.next - (End - DiskEnd) /\ DiskEnd \in Int /\ SavedEnd <= DiskEnd
        /\ Len(pending') = DiskEnd - SavedEnd
    BY <2>2, <2>3, <2>6, <1>4, <1>12
  <2>10. cp'.next = SeqOf(DiskEnd) /\ cp'.start = cpFile.start /\ cp'.acked = cpFile.acked
    BY <2>3, <2>7, <2>8, <1>1, <1>2, <1>10
  <2>11. 1 .. Len(pending') = {}
    BY <2>6
  <2> QED BY <1>1, <1>4, <1>9, <2>4, <2>9, <2>10, <2>11
<1>11. CASE DOMAIN segs # {}
  <2>1. /\ OpenStart = cp.start /\ OpenAcked = cpFile.acked
        /\ DiskEnd = Place(Top, Whole(Top) + 1) /\ DiskEnd \in Int /\ SavedEnd <= DiskEnd
        /\ \A e \in OpenEntries : /\ At0(e) \in SavedEnd .. DiskEnd - 1 /\ e.seq = SeqOf(At0(e))
                                 /\ e.off + 1 \in 1 .. SegSize /\ e.off \in Nat /\ e.seg \in cp.start .. Top
        /\ \A x \in SavedEnd .. DiskEnd - 1 : \E e \in OpenEntries : At0(e) = x
    BY <1>11, OpenPlaces
  <2>2. Cardinality(OpenEntries) = DiskEnd - SavedEnd /\ \A e \in OpenEntries : Rank(e) = At0(e) - SavedEnd
    BY <1>11, OpenCount
  <2>3. End' = DiskEnd
    BY <1>1, <1>3, <1>11, <2>1 DEF End, Place
  <2>4. OpenNext = SeqOf(DiskEnd)
    <3>1. SeqOf(DiskEnd) \in Int /\ SeqOf(DiskEnd) = cp.next - (End - DiskEnd) /\ OpenNext \in Int
      BY <2>1, <1>12, <1>13
    <3>2. ASSUME NEW e \in OpenEntries PROVE e.seq + 1 <= SeqOf(DiskEnd)
      <4>1. At0(e) \in Int /\ At0(e) <= DiskEnd - 1 /\ e.seq = SeqOf(At0(e))
        BY <2>1, <1>4
      <4>2. e.seq = cp.next - (End - At0(e))
        BY <4>1, <1>12
      <4>3. DiskEnd \in Int /\ End \in Int /\ cp.next \in Int
        BY <2>1, <1>4
      <4> QED BY <4>1, <4>2, <4>3, <3>1
    <3>3. OpenNext <= SeqOf(DiskEnd)
      <4>1. cpFile.next <= SeqOf(DiskEnd) /\ SeqOf(DiskEnd) >= 1
        BY <1>5
      <4> QED BY <4>1, <3>1, <3>2, <1>7
    <3>4. OpenNext >= SeqOf(DiskEnd)
      <4>1. CASE SavedEnd = DiskEnd
        <5>1. SeqOf(SavedEnd) = SeqOf(DiskEnd) /\ cpFile.next \in Int
          BY <4>1, <1>4
        <5> QED BY <5>1, <3>1, <1>5, <1>13
      <4>2. CASE SavedEnd # DiskEnd
        <5>1. DiskEnd - 1 \in SavedEnd .. DiskEnd - 1
          <6>1. DiskEnd \in Int /\ SavedEnd \in Int /\ SavedEnd <= DiskEnd
            BY <2>1, <1>4
          <6> QED BY <6>1, <4>2
        <5>2. PICK e \in OpenEntries : At0(e) = DiskEnd - 1
          BY <5>1, <2>1
        <5>3. e.seq = SeqOf(DiskEnd - 1) /\ OpenNext >= e.seq + 1
          BY <5>2, <2>1, <1>7
        <5>4. SeqOf(DiskEnd - 1) = cp.next - (End - (DiskEnd - 1))
          <6>1. DiskEnd - 1 \in Int
            BY <2>1
          <6> QED BY <6>1, <1>12
        <5>5. DiskEnd \in Int /\ End \in Int /\ cp.next \in Int
          BY <2>1, <1>4
        <5> QED BY <5>3, <5>4, <5>5, <3>1
      <4> QED BY <4>1, <4>2
    <3> QED BY <3>1, <3>3, <3>4
  <2>5. Len(pending') = DiskEnd - SavedEnd
    BY <1>1, <1>8, <2>2
  <2>6. ASSUME NEW i \in 1 .. Len(pending')
        PROVE  /\ pending'[i].seq = SeqOf(SavedEnd + i - 1)
               /\ Place(pending'[i].seg, pending'[i].off + 1) = SavedEnd + i - 1
               /\ pending'[i].seg \in cp'.start .. curSeg' /\ pending'[i].off < SegSize
    <3>1. pending'[i] \in OpenEntries /\ Rank(pending'[i]) = i - 1 /\ i \in Int
      BY <1>1, <1>8
    <3>2. /\ Rank(pending'[i]) = At0(pending'[i]) - SavedEnd /\ At0(pending'[i]) \in SavedEnd .. DiskEnd - 1
          /\ pending'[i].seq = SeqOf(At0(pending'[i])) /\ pending'[i].off + 1 \in 1 .. SegSize
          /\ pending'[i].off \in Nat /\ pending'[i].seg \in cp.start .. Top
      BY <3>1, <2>1, <2>2
    <3>3. At0(pending'[i]) \in Int
      BY <3>2, <1>4, <2>1
    <3>4. At0(pending'[i]) = SavedEnd + i - 1
      <4>1. At0(pending'[i]) - SavedEnd = i - 1
        BY <3>1, <3>2, Zenon
      <4>2. SavedEnd \in Int
        BY <1>4
      <4> QED BY <4>1, <4>2, <3>1, <3>3
    <3>5. Place(pending'[i].seg, pending'[i].off + 1) = At0(pending'[i])
      BY DEF At0
    <3>6. pending'[i].off < SegSize
      <4>1. pending'[i].off \in Nat /\ pending'[i].off + 1 \in 1 .. SegSize /\ SegSize \in Nat
        BY <3>2, <1>4
      <4> QED BY <4>1
    <3> QED BY <3>2, <3>4, <3>5, <3>6, <1>1, <1>3, <1>11
  <2>7. SeqOf(DiskEnd) = cp.next - (End - DiskEnd)
    BY <2>1, <1>12
  <2> QED BY <1>1, <1>4, <1>5, <1>9, <2>1, <2>3, <2>4, <2>5, <2>6, <2>7
<1> QED BY <1>10, <1>11

\* Open finds the log as it was, but for what the running batch lost.
LEMMA OpenLog == ASSUME WalInv, LogInv, Open PROVE LogInv'
<1>1. /\ running' /\ op' = "idle" /\ todo' = {} /\ Ahead' = 0
      /\ UNCHANGED <<cpFile, promised, committed>>
      /\ DiskEnd \in Int /\ SavedEnd \in Int /\ SavedEnd <= DiskEnd
      /\ End' = DiskEnd /\ SavedEnd' = SavedEnd
      /\ cp'.next = SeqOf(DiskEnd) /\ SeqOf(DiskEnd) = cp.next - (End - DiskEnd)
      /\ cp'.start = cpFile.start /\ cp'.acked = cpFile.acked
      /\ Len(pending') = DiskEnd - SavedEnd
  BY OpenGives
<1>2. /\ cp.next \in Nat \ {0} /\ cpFile.next \in Nat /\ Len(pending) \in Nat /\ End \in Int
      /\ SegSize \in Nat \ {0} /\ curSeg \in Nat
  BY Numbers
<1>13. \A x \in Int : SeqOf(x) \in Int /\ SeqOf(x) = cp.next - (End - x)
  BY Numbers
<1>14. /\ DiskEnd \in Int /\ SavedEnd \in Int /\ SavedEnd <= DiskEnd
       /\ End' = DiskEnd /\ SavedEnd' = SavedEnd
       /\ cp'.next = cp.next - (End - DiskEnd) /\ cp'.next \in Int
       /\ Len(pending') = DiskEnd - SavedEnd /\ Len(pending') \in Int
       /\ cp.next \in Int /\ End \in Int /\ Len(pending) \in Int
  <2>1. cp'.next = cp.next - (End - DiskEnd) /\ Len(pending') = DiskEnd - SavedEnd
        /\ DiskEnd \in Int /\ SavedEnd \in Int
    BY <1>1
  <2>2. cp'.next \in Int /\ Len(pending') \in Int /\ cp.next \in Int /\ End \in Int /\ Len(pending) \in Int
    BY <2>1, <1>2
  <2> QED BY <2>1, <2>2, <1>1
<1>3. ~running /\ op = "idle"
  BY DEF Open, WalInv, StageInv
<1>4. /\ SeqOf(DiskEnd) >= 1 /\ cpFile.next <= SeqOf(DiskEnd)
      /\ \A s \in promised \cup committed : s < SeqOf(DiskEnd)
  BY <1>3 DEF LogInv, RestInv
<1>5. \A x \in Int : SeqOf(x)' = SeqOf(x)
  <2> SUFFICES ASSUME NEW x \in Int PROVE SeqOf(x)' = SeqOf(x)
    OBVIOUS
  <2>1. SeqOf(x)' = cp'.next - (End' - x)
    BY DEF SeqOf
  <2>2. SeqOf(x) = cp.next - (End - x)
    BY <1>13
  <2> QED BY <2>1, <2>2, <1>14
<1>6. ChainInv'
  <2>1. CASE DOMAIN segs = {}
    <3>1. DOMAIN segs' = OpenStart .. OpenSegment /\ OpenStart \in Nat /\ curSeg' = OpenSegment
      BY OpenIs
    <3>2. OpenStart = OpenSegment /\ segs'[OpenSegment] = NewFile
      BY <2>1, OpenIs
    <3>3. ASSUME NEW g \in DOMAIN segs' PROVE g = curSeg' /\ Whole(g)' = 0 /\ g \in Nat
      <4>1. g = OpenSegment /\ segs'[g] = NewFile
        BY <3>1, <3>2
      <4> QED BY <4>1, <3>1, <3>2 DEF NewFile, Whole
    <3> QED BY <3>3 DEF ChainInv
  <2>2. CASE DOMAIN segs # {}
    <3>1. /\ DOMAIN segs' = DOMAIN segs /\ curSeg' = Top
          /\ \A g \in DOMAIN segs :
                /\ Len(segs'[g].cells) = Whole(g)
                /\ \A p \in 1 .. Whole(g) : segs'[g].cells[p] = segs[g].cells[p]
      BY <2>2, OpenIs
    <3>2. ASSUME NEW g \in DOMAIN segs PROVE Whole(g)' = Whole(g) /\ Whole(g) \in Nat /\ g \in Nat
      <4>1. Whole(g) \in Nat /\ \A p \in 1 .. Whole(g) : segs[g].cells[p] # Torn
        <5>1. /\ Len(segs[g].cells) \in Nat /\ Whole(g) \in 0 .. Len(segs[g].cells)
              /\ \A p \in 1 .. Len(segs[g].cells) : segs[g].cells[p] # Torn <=> p <= Whole(g)
          BY WholeIs DEF WalInv
        <5> QED BY <5>1
      <4>2. Whole(g) > 0 => segs'[g].cells[Whole(g)] # Torn
        <5>1. Whole(g) > 0 => Whole(g) \in 1 .. Whole(g)
          BY <4>1
        <5> QED BY <5>1, <4>1, <3>1
      <4>3. Len(segs'[g].cells) = Whole(g)
        BY <3>1
      <4>4. Whole(g)' = IF Len(segs'[g].cells) > 0 /\ segs'[g].cells[Len(segs'[g].cells)] = Torn
                        THEN Len(segs'[g].cells) - 1 ELSE Len(segs'[g].cells)
        BY DEF Whole
      <4>5. g \in Nat
        BY DEF WalInv, TypeOK, FilesTypeOK
      <4> QED BY <4>1, <4>2, <4>3, <4>4, <4>5
    <3>3. ASSUME NEW g \in DOMAIN segs
          PROVE  /\ g < curSeg' => Whole(g)' = SegSize
                 /\ \A p \in 1 .. Whole(g)' : segs'[g].cells[p] = SeqOf(Place(g, p))'
      <4>1. g < curSeg' => g < curSeg
        <5>1. curSeg' = curSeg \/ curSeg' = curSeg - 1
          BY <3>1 DEF Top
        <5>2. g \in Int /\ curSeg \in Int
          BY <3>2, <1>2
        <5> QED BY <5>1, <5>2
      <4>2. g < curSeg' => Whole(g) = SegSize
        BY <4>1 DEF LogInv, ChainInv
      <4>3. ASSUME NEW p \in 1 .. Whole(g) PROVE segs'[g].cells[p] = SeqOf(Place(g, p))'
        <5>1. segs'[g].cells[p] = segs[g].cells[p]
          BY <3>1
        <5>2. segs[g].cells[p] = SeqOf(Place(g, p))
          BY DEF LogInv, ChainInv
        <5>3. Place(g, p) \in Int
          BY <3>2, PlaceAt
        <5>4. SeqOf(Place(g, p))' = cp'.next - (End' - Place(g, p))
          BY DEF SeqOf, Place
        <5>5. SeqOf(Place(g, p)) = cp.next - (End - Place(g, p))
          BY <5>3, <1>13
        <5>6. cp'.next - (End' - Place(g, p)) = cp.next - (End - Place(g, p))
          BY <5>3, <1>14
        <5> QED BY <5>1, <5>2, <5>4, <5>5, <5>6
      <4>4. \A p \in 1 .. Whole(g)' : segs'[g].cells[p] = SeqOf(Place(g, p))'
        BY <4>3, <3>2
      <4> QED BY <4>2, <4>4, <3>2
    <3> QED BY <3>1, <3>3 DEF ChainInv
  <2> QED BY <2>1, <2>2
<1>7. cp'.next - Len(pending') = SeqOf(SavedEnd) /\ SeqOf(SavedEnd) = cp.next - (End - SavedEnd)
  <2>1. SeqOf(SavedEnd) = cp.next - (End - SavedEnd)
    BY <1>13, <1>14
  <2>2. cp'.next - Len(pending') = cp.next - (End - SavedEnd)
    BY <1>14
  <2> QED BY <2>1, <2>2
<1>8. QueueInv'
  <2>1. End' - Len(pending') = SavedEnd
    BY <1>1
  <2>2. Place(cp.start, cp.acked + 1)' <= End' - Len(pending')
    <3>1. Place(cp.start, cp.acked + 1)' = SavedEnd
      BY <1>1 DEF SavedEnd, Place
    <3> QED BY <3>1, <2>1, <1>1
  <2>3. ASSUME NEW i \in 1 .. Len(pending')
        PROVE  /\ pending'[i].seq = cp'.next - Len(pending') + i - 1
               /\ Place(pending[i].seg, pending[i].off + 1)' = End' - Len(pending') + i - 1
               /\ pending'[i].seg \in cp'.start .. curSeg' /\ pending'[i].off < SegSize
    <3>1. /\ pending'[i].seq = SeqOf(SavedEnd + i - 1)
          /\ Place(pending'[i].seg, pending'[i].off + 1) = SavedEnd + i - 1
          /\ pending'[i].seg \in cp'.start .. curSeg' /\ pending'[i].off < SegSize
      BY OpenGives
    <3>2. i \in Int /\ SavedEnd + i - 1 \in Int
      BY <1>1
    <3>3. SeqOf(SavedEnd + i - 1) = cp.next - (End - (SavedEnd + i - 1))
      BY <3>2, <1>13
    <3>4. pending'[i].seq = cp'.next - Len(pending') + i - 1
      <4>1. cp'.next - Len(pending') + i - 1 = cp.next - (End - (SavedEnd + i - 1))
        BY <3>2, <1>14
      <4> QED BY <4>1, <3>1, <3>3
    <3>5. Place(pending[i].seg, pending[i].off + 1)' = SavedEnd + i - 1
      BY <3>1 DEF Place
    <3> QED BY <3>1, <3>4, <3>5, <2>1
  <2> QED BY <2>2, <2>3 DEF QueueInv
<1>9. SavedInv'
  <2>1. SeqOf(SavedEnd)' = SeqOf(SavedEnd)
    <3>1. SeqOf(SavedEnd)' = cp'.next - (End' - SavedEnd')
      BY DEF SeqOf
    <3> QED BY <3>1, <1>1, <1>2, <1>7
  <2>2. SavedEnd' <= End' - Len(pending')
    BY <1>1
  <2>3. cpFile.next >= SeqOf(SavedEnd) \/ SeqOf(SavedEnd) <= 1
    BY DEF LogInv, SavedInv
  <2> QED BY <2>1, <2>2, <2>3, <1>1 DEF SavedInv
<1>10. BatchInv'
  <2>1. /\ cp'.next \in 1 .. cp'.next /\ {} = cp'.next .. cp'.next + 0 - 1
        /\ cp'.next >= cp'.next - Len(pending') /\ cpFile'.next <= cp'.next
        /\ \A s \in promised' \cup committed' : s < cp'.next
    <3>1. cp'.next \in Int /\ cp'.next >= 1 /\ Len(pending') >= 0 /\ Len(pending') \in Int
      <4>1. cp'.next >= 1
        BY <1>1, <1>4
      <4>2. Len(pending') >= 0
        BY <1>14
      <4> QED BY <4>1, <4>2, <1>14
    <3>2. cpFile'.next <= cp'.next /\ \A s \in promised' \cup committed' : s < cp'.next
      BY <1>1, <1>4
    <3>3. cp'.next \in 1 .. cp'.next /\ {} = cp'.next .. cp'.next + 0 - 1 /\ cp'.next >= cp'.next - Len(pending')
      BY <3>1
    <3> QED BY <3>2, <3>3
  <2> QED BY <2>1, <1>1 DEF BatchInv
<1>11. KeptInv'
  <2>1. SavedEnd <= End - Len(pending)
    BY DEF LogInv, SavedInv
  <2>2. cp'.next - Len(pending') <= cp.next - Len(pending) /\ cp'.next - Len(pending') \in Int
    BY <2>1, <1>14
  <2>3. ASSUME NEW s \in promised' PROVE s \in committed' \/ s >= cp'.next - Len(pending')
    <3>1. s \in committed \/ s >= cp.next - Len(pending)
      BY <1>1 DEF LogInv, KeptInv
    <3>2. s \in Nat
      BY <1>1 DEF WalInv, TypeOK, OpTypeOK
    <3>3. committed' = committed
      BY <1>1
    <3>4. cp.next - Len(pending) \in Int
      BY <1>14
    <3> QED BY <3>1, <3>2, <3>3, <3>4, <2>2
  <2> QED BY <2>3 DEF KeptInv
<1>12. RestInv'
  BY <1>1 DEF RestInv
<1> QED BY <1>6, <1>8, <1>9, <1>10, <1>11, <1>12 DEF LogInv

\* A step that changes nothing of the log.
LEMMA StutterLog == ASSUME LogInv, UNCHANGED vars PROVE LogInv'
<1>1. UNCHANGED <<segs, cpFile, cp, pending, cur, curSeg, curOff, op, todo, left, grouped,
                  running, promised, committed, faults>>
  BY DEF vars, diskVars, memVars, opVars, history
<1>2. BatchInv'
  BY <1>1 DEF LogInv, BatchInv, Ahead
<1> QED BY <1>1, <1>2, QuietLog

\* Both invariants hold where the disk keeps what was written.
LEMMA LogInvariant == ASSUME Durable PROVE Spec => [](WalInv /\ LogInv)
<1>1. Init => WalInv /\ LogInv
  BY InitWal, InitLog
<1>2. ASSUME WalInv, LogInv, WalInv', [Next]_vars PROVE LogInv'
  <2>1. CASE Open
    BY <1>2, <2>1, OpenLog
  <2>2. CASE AppendStep
    BY <1>2, <2>2, StartAppendLog, RoomLeftLog, RotateLog, RotateFailsLog, FailureLog,
       WriteFrameLog, SyncLog DEF AppendStep
  <2>3. CASE CommitStep
    BY <1>2, <2>3, CommitLog, RemoveSegmentLog, FailureLog, SaveLog DEF CommitStep
  <2>4. CASE SetCursor
    BY <1>2, <2>4, SaveLog
  <2>5. CASE Close
    BY <1>2, <2>5, CloseLog
  <2>6. CASE Crash
    BY <1>2, <2>6, CrashLog
  <2>7. CASE UNCHANGED vars
    BY <1>2, <2>7, StutterLog
  <2> QED BY <1>2, <2>1, <2>2, <2>3, <2>4, <2>5, <2>6, <2>7 DEF Next
<1>3. Spec => []WalInv
  BY WalInvariant DEF Durable
<1>4. WalInv /\ LogInv /\ WalInv' /\ [Next]_vars => LogInv'
  BY <1>2
<1> QED BY <1>1, <1>3, <1>4, PTL DEF Spec

\* The queue is without holes and in order up to the next seq, in every state in
\* which the log is open.
THEOREM WalNoHoles == ASSUME Durable PROVE Spec => []NoHoles
<1>1. WalInv /\ LogInv => NoHoles
  <2> SUFFICES ASSUME WalInv, LogInv, NEW i \in DOMAIN pending
               PROVE  pending[i].seq = cp.next - Len(pending) + i - 1
    BY DEF NoHoles
  <2>1. i \in 1 .. Len(pending)
    BY PartsAre DEF WalInv
  <2> QED BY <2>1 DEF LogInv, QueueInv
<1> QED BY <1>1, LogInvariant, PTL

\* No frame gets the seq of one that was committed, over every crash and restart.
THEOREM WalNextFresh == ASSUME Durable PROVE Spec => []NextFresh
<1>1. WalInv /\ LogInv => NextFresh
  <2> SUFFICES ASSUME WalInv, LogInv, running, NEW s \in committed PROVE s < cp.next
    BY DEF NextFresh
  <2>1. PICK b \in 1 .. cp.next : \A t \in promised \cup committed : t < b
    BY DEF LogInv, BatchInv
  <2>2. s \in Nat /\ s < b
    BY <2>1 DEF WalInv, TypeOK, OpTypeOK
  <2>3. cp.next \in Nat \ {0}
    BY Numbers
  <2> QED BY <2>1, <2>2, <2>3
<1> QED BY <1>1, LogInvariant, PTL

\* A frame whose append was reported as done is in the queue until it is committed,
\* over every crash and restart.
THEOREM WalKeptUntilCommitted == ASSUME Durable PROVE Spec => []KeptUntilCommitted
<1>1. WalInv /\ LogInv => KeptUntilCommitted
  <2> SUFFICES ASSUME WalInv, LogInv, running, NEW s \in promised \ committed PROVE s \in Seqs
    BY DEF KeptUntilCommitted
  <2>1. PICK b \in 1 .. cp.next : \A t \in promised \cup committed : t < b
    BY DEF LogInv, BatchInv
  <2>2. s \in Nat /\ s < b
    BY <2>1 DEF WalInv, TypeOK, OpTypeOK
  <2>3. cp.next \in Nat \ {0} /\ Len(pending) \in Nat
    BY Numbers
  <2>4. s >= cp.next - Len(pending)
    BY DEF LogInv, KeptInv
  <2> DEFINE i == s - (cp.next - Len(pending)) + 1
  <2>5. i \in 1 .. Len(pending) /\ cp.next - Len(pending) + i - 1 = s
    BY <2>1, <2>2, <2>3, <2>4
  <2>6. i \in DOMAIN pending
    BY <2>5, PartsAre DEF WalInv
  <2>7. pending[i].seq = s
    <3> HIDE DEF i
    <3> QED BY <2>5 DEF LogInv, QueueInv
  <2> QED BY <2>6, <2>7 DEF Seqs
<1> QED BY <1>1, LogInvariant, PTL

-----------------------------------------------------------------------------
(***************************************************************************)
(* The log implements the queue of WalQueue, step by step.                 *)
(***************************************************************************)

\* A step that leaves the index and the histories alone is not seen in the queue.
LEMMA UnseenStep ==
    ASSUME WalInv, cp'.next = cp.next, UNCHANGED <<pending, promised, committed>>
    PROVE  UNCHANGED Queue!vars
BY DEF Queue!vars

\* A frame of AppendBatch is in the queue when it is written, and not promised.
LEMMA WriteFrameAppends ==
    ASSUME WalInv, LogInv, WriteFrame
    PROVE  Queue!Next \/ UNCHANGED Queue!vars
<1>1. /\ op = "write" /\ running /\ cur = "open" /\ curSeg \in DOMAIN segs /\ curOff < SegSize
      /\ UNCHANGED <<cpFile, cur, curSeg, promised, committed>>
      /\ IF grouped THEN IndexFrame ELSE UNCHANGED <<cp, pending, curOff>>
  BY WriteIs
<1>2. CASE grouped
  <2>1. cp'.next = cp.next + 1 /\ Len(pending') = Len(pending) + 1
    BY <1>1, <1>2, IndexFrameLog
  <2>2. cp.next \in Nat \ {0} /\ Len(pending) \in Nat
    BY Numbers
  <2>3. cp'.next - Len(pending') = cp.next - Len(pending)
    BY <2>1, <2>2
  <2>4. Queue!AppendFrame
    BY <2>1, <2>3, <1>1 DEF Queue!AppendFrame
  <2> QED BY <2>4 DEF Queue!Next
<1>3. CASE ~grouped
  BY <1>1, <1>3, UnseenStep
<1> QED BY <1>2, <1>3

\* The fsync promises the frames of the batch; Append's is in the queue with it.
LEMMA SyncReports ==
    ASSUME WalInv, LogInv, Sync
    PROVE  Queue!Next
<1>1. /\ op = "sync" /\ running /\ cur = "open" /\ curSeg \in DOMAIN segs
      /\ promised' = promised \cup todo
      /\ UNCHANGED <<cpFile, cur, curSeg, committed>>
      /\ IF grouped THEN UNCHANGED <<cp, pending, curOff>> ELSE IndexFrame
  BY SyncIs
<1>2. cp.next \in Nat \ {0} /\ Len(pending) \in Nat /\ curOff \in Nat /\ SegSize \in Nat
  BY Numbers
<1>3. todo # {} /\ (~grouped => todo = {cp.next})
  BY <1>1 DEF WalInv, StageInv
<1>4. CASE grouped
  <2>1. PICK b \in 1 .. cp.next : todo = b .. cp.next + Ahead - 1
    BY <1>1 DEF LogInv, BatchInv
  <2>2. Ahead = 0 /\ cp.next + Ahead - 1 = cp.next - 1
    BY <1>2, <1>4 DEF Ahead
  <2>3. todo = b .. cp.next - 1
    BY <2>1, <2>2
  <2>4. b \in 1 .. cp.next - 1
    BY <2>3, <1>2, <1>3
  <2>5. Queue!ReportDone
    BY <2>3, <2>4, <1>1, <1>4 DEF Queue!ReportDone
  <2> QED BY <2>5 DEF Queue!Next
<1>5. CASE ~grouped
  <2>1. curOff < SegSize
    <3>1. Len(segs[curSeg].cells) = curOff + 1
      BY <1>1, <1>5 DEF WalInv, TailInv, Ahead
    <3>2. Len(segs[curSeg].cells) <= SegSize
      BY <1>1 DEF WalInv, CellsInv
    <3> QED BY <3>1, <3>2, <1>2
  <2>2. cp'.next = cp.next + 1 /\ Len(pending') = Len(pending) + 1
    BY <1>1, <1>5, <2>1, IndexFrameLog
  <2>3. cp'.next - Len(pending') = cp.next - Len(pending)
    BY <2>2, <1>2
  <2>4. promised' = promised \cup {cp.next}
    BY <1>1, <1>3, <1>5
  <2>5. Queue!AppendFrame
    BY <2>2, <2>3, <2>4, <1>1 DEF Queue!AppendFrame
  <2> QED BY <2>5 DEF Queue!Next
<1> QED BY <1>4, <1>5

\* The frame committed is the oldest of the queue.
LEMMA CommitCommits ==
    ASSUME WalInv, LogInv, Commit
    PROVE  Queue!Next
<1>1. /\ Len(pending) \in Nat \ {0} /\ cp'.next = cp.next /\ Len(pending') = Len(pending) - 1
      /\ committed' = committed \cup {pending[1].seq} /\ UNCHANGED promised
  BY CommitIs
<1>2. cp.next \in Nat \ {0}
  BY Numbers
<1>3. pending[1].seq = cp.next - Len(pending)
  <2>1. 1 \in 1 .. Len(pending)
    BY <1>1
  <2>2. pending[1].seq = cp.next - Len(pending) + 1 - 1
    BY <2>1 DEF LogInv, QueueInv
  <2> QED BY <2>2, <1>1, <1>2
<1>4. /\ cp.next - Len(pending) < cp.next
      /\ cp'.next - Len(pending') = (cp.next - Len(pending)) + 1
  BY <1>1, <1>2
<1>5. committed' = committed \cup {cp.next - Len(pending)}
  BY <1>1, <1>3
<1>6. Queue!Commit
  BY <1>1, <1>4, <1>5 DEF Queue!Commit
<1> QED BY <1>6 DEF Queue!Next

\* Open finds every frame that was promised and not committed, perhaps some that
\* were committed, and at most one whose append was broken off.
LEMMA OpenRestarts ==
    ASSUME WalInv, LogInv, Open
    PROVE  Queue!Next
<1>1. /\ UNCHANGED <<promised, committed>>
      /\ DiskEnd \in Int /\ SavedEnd \in Int /\ SavedEnd <= DiskEnd
      /\ cp'.next = SeqOf(DiskEnd) /\ SeqOf(DiskEnd) = cp.next - (End - DiskEnd)
      /\ Len(pending') = DiskEnd - SavedEnd
  BY OpenGives
<1>2. cp.next \in Nat \ {0} /\ Len(pending) \in Nat /\ End \in Int
  BY Numbers
<1>3. ~running
  BY DEF Open
<1>4. /\ SavedEnd <= End - Len(pending)
      /\ SeqOf(DiskEnd) \in 1 .. cp.next + 1
      /\ \A s \in promised \cup committed : s < SeqOf(DiskEnd)
  BY <1>3 DEF LogInv, SavedInv, RestInv
<1>5. cp'.next - Len(pending') <= cp.next - Len(pending)
      /\ cp'.next - Len(pending') <= cp'.next
      /\ cp'.next - Len(pending') \in Int /\ cp'.next \in Int /\ Len(pending') \in Nat
  <2>1. cp'.next = cp.next - (End - DiskEnd) /\ Len(pending') = DiskEnd - SavedEnd
        /\ DiskEnd \in Int /\ SavedEnd \in Int /\ SavedEnd <= DiskEnd /\ SavedEnd <= End - Len(pending)
    BY <1>1, <1>4
  <2> QED BY <2>1, <1>2
<1>6. cp'.next - Len(pending') >= 1
  <2>1. CASE Len(pending') = 0
    BY <2>1, <1>1, <1>4, <1>5
  <2>2. CASE Len(pending') # 0
    <3>1. 1 \in 1 .. Len(pending')
      BY <2>2, <1>5
    <3>2. pending'[1].seq = cp'.next - Len(pending') + 1 - 1
      BY <3>1, OpenLog DEF LogInv, QueueInv
    <3>3. pending'[1].seq >= 1 /\ pending'[1].seq \in Int
      <4>1. TypeOK'
        BY OpenWal DEF WalInv
      <4>2. pending' \in Seq(Entries)
        BY <4>1 DEF TypeOK, MemoryTypeOK
      <4>3. pending'[1] \in Entries
        BY <3>1, <4>2
      <4> QED BY <4>3, WalAssumption DEF Entries
    <3> QED BY <3>2, <3>3, <1>5
  <2> QED BY <2>1, <2>2
<1>7. /\ cp'.next - Len(pending') \in 1 .. cp.next - Len(pending)
      /\ cp'.next \in cp'.next - Len(pending') .. cp.next + 1
  <2>1. cp'.next <= cp.next + 1
    BY <1>1, <1>2, <1>4
  <2> QED BY <2>1, <1>2, <1>5, <1>6
<1>8. \A s \in promised \cup committed : s < cp'.next
  BY <1>1, <1>4
<1>9. Queue!Restart
  BY <1>1, <1>7, <1>8 DEF Queue!Restart
<1> QED BY <1>9 DEF Queue!Next

\* The log keeps what it promises its users: every behaviour of its files, index and
\* checkpoint is one of the queue, in which a restart loses nothing that was promised
\* and gives no seq away twice.
THEOREM WalKeepsQueue == ASSUME Durable PROVE Spec => KeepsQueue
<1>1. Init => Queue!Init
  BY DEF Init, Queue!Init
<1>2. ASSUME WalInv, LogInv, [Next]_vars PROVE [Queue!Next]_(Queue!vars)
  <2>1. CASE Open
    BY <1>2, <2>1, OpenRestarts
  <2>2. CASE WriteFrame
    BY <1>2, <2>2, WriteFrameAppends
  <2>3. CASE Sync
    BY <1>2, <2>3, SyncReports
  <2>4. CASE Commit
    BY <1>2, <2>4, CommitCommits
  <2>5. CASE \/ StartAppend \/ RoomLeft \/ Rotate \/ RotateFails \/ CloseFails
             \/ WriteFails \/ SyncFails
    <3>1. UNCHANGED <<cp, pending, promised, committed>>
      BY <2>5 DEF StartAppend, RoomLeft, Rotate, RotateFails, CloseFails, WriteFails, SyncFails,
                  memVars, history
    <3> QED BY <3>1, <1>2, UnseenStep
  <2>6. CASE RemoveFails \/ SkipOrSave \/ SaveAfterRemoval \/ SetCursor \/ Close
    <3>1. UNCHANGED <<cp, pending, promised, committed>>
      BY <2>6 DEF RemoveFails, SkipOrSave, SaveAfterRemoval, SetCursor, Close, memVars, history
    <3> QED BY <3>1, <1>2, UnseenStep
  <2>7. CASE RemoveSegment
    <3>1. cp'.next = cp.next /\ UNCHANGED <<pending, promised, committed>>
      BY <1>2, <2>7, RemoveIs
    <3> QED BY <3>1, <1>2, UnseenStep
  <2>8. CASE Crash
    <3>1. UNCHANGED <<cp, pending, promised, committed>>
      BY <2>8 DEF Crash, memVars, history
    <3> QED BY <3>1, <1>2, UnseenStep
  <2>9. CASE UNCHANGED vars
    <3>1. UNCHANGED <<cp, pending, promised, committed>>
      BY <2>9 DEF vars, memVars, history
    <3> QED BY <3>1, <1>2, UnseenStep
  <2> QED BY <1>2, <2>1, <2>2, <2>3, <2>4, <2>5, <2>6, <2>7, <2>8, <2>9
          DEF Next, AppendStep, CommitStep
<1>3. Spec => [](WalInv /\ LogInv)
  BY LogInvariant
<1>4. WalInv /\ LogInv /\ [Next]_vars => [Queue!Next]_(Queue!vars)
  BY <1>2
<1> QED BY <1>1, <1>3, <1>4, PTL DEF Spec, KeepsQueue, Queue!Spec
=============================================================================
