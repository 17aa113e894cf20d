--------------------------- MODULE DumpFile_proofs --------------------------
(***************************************************************************)
(* The dump file, for any number of regions of any size, any special ones, *)
(* whatever the tracee does to its memory and the disk to the writes: what *)
(* is left alone is captured, and the file reads back.                     *)
(***************************************************************************)
EXTENDS DumpFile, TLAPS, SequenceTheorems, FiniteSetTheorems, WellFoundedInduction

(* What readMaps returned: lines by ascending address.                     *)
Line  == [start : Regions, pages : 1 .. Size, readable : BOOLEAN]

Lines ==
  /\ regions \in Seq(Line)
  /\ \A k, l \in DOMAIN regions : k < l => regions[k].start < regions[l].start

(* What was captured is of regions behind the next one, by ascending       *)
(* address, so each at most once.                                          *)
Capture == [start : Regions, data : Seq(Nat)]

Captured ==
  /\ captured \in Seq(Capture)
  /\ \A k, l \in DOMAIN captured : k < l => captured[k].start < captured[l].start
  /\ \A k \in DOMAIN captured : \E j \in 1 .. r - 1 : regions[j].start = captured[k].start

(* Before the file is there, and after Dump.                               *)
Edges ==
  /\ dpc \in {"maps", "create"} => r = 1 /\ captured = <<>> /\ file = <<>> /\ ~failed
  /\ dpc = "maps" => regions = <<>>
  /\ dpc = "nil" => r = Len(regions) + 1

(* A region that the tracee has left alone is as its line says, and when   *)
(* Dump is past it, its pages have been captured.                          *)
Pages(q) == [start |-> q, data |-> [p \in 1 .. space[q].pages |-> space[q].holds]]

Untouched ==
  dpc \in {"create", "regions", "nil"} =>
    \A q \in untouched :
      /\ alive /\ \E j \in DOMAIN regions : regions[j] = MapLine(q)
      /\ q \notin Specials /\ space[q].readable =>
           \A j \in 1 .. r - 1 : regions[j].start = q =>
             \E k \in DOMAIN captured : captured[k] = Pages(q)

(* The file while it is written, if no Write failed: pos says where the    *)
(* entries are, and where the next one will be.                            *)
EntryLies(k, pos) ==
  LET data == captured[k].data IN
    /\ Len(Header) < pos[k] /\ pos[k + 1] = pos[k] + 5 + Len(data) /\ pos[k + 1] <= Len(file) + 1
    /\ file[pos[k]] = captured[k].start /\ file[pos[k] + 4] = Len(data)
    /\ \A p \in 1 .. Len(data) : file[pos[k] + 4 + p] = data[p]

Lies(pos) ==
  /\ Len(pos) = Len(captured) + 1 /\ pos[1] = Len(Header) + 1 /\ pos[Len(pos)] = Len(file) + 1
  /\ \A k \in 1 .. Len(captured) : EntryLies(k, pos)

Laid ==
  dpc = "regions" /\ ~failed =>
    /\ Len(file) >= Len(Header) + Len(captured)
    /\ \A k \in 1 .. Len(Header) : file[k] = Header[k]
    /\ \E pos \in Seq(Nat) : Lies(pos)

IInv == TypeOK /\ Lines /\ Captured /\ Edges /\ Untouched /\ file \in Seq(Nat)

-----------------------------------------------------------------------------
LEMMA Constants ==
  /\ MaxRegion \in Nat /\ MaxChanges \in Nat /\ Size \in Nat \ {0}
  /\ Regions \subseteq Nat \ {0} /\ Specials \subseteq Regions
  BY DumpAssumption DEF Regions

LEMMA InitHolds == Init => IInv /\ Laid
<1> SUFFICES ASSUME Init PROVE IInv /\ Laid
  OBVIOUS
<1>1. <<>> \in Seq(Line) /\ <<>> \in Seq(Capture) /\ <<>> \in Seq(Nat) /\ Len(<<>>) = 0
  BY EmptySeq
<1>2. TypeOK
  <2>1. space \in [Regions -> Region]
    BY Constants DEF Init, Region
  <2>2. DOMAIN regions = {} /\ DOMAIN file = {} /\ DOMAIN captured = {} /\ Len(regions) = 0
    BY <1>1 DEF Init
  <2>3. r \in 1 .. Len(regions) + 1 /\ changes \in 0 .. MaxChanges
    BY <2>2, Constants DEF Init
  <2>4. /\ alive \in BOOLEAN /\ untouched \subseteq Regions /\ failed \in BOOLEAN
        /\ dpc \in {"maps", "create", "regions", "nil", "error"}
    BY DEF Init
  <2> QED BY <2>1, <2>2, <2>3, <2>4 DEF TypeOK
<1>3. Lines /\ Captured /\ Edges /\ Untouched /\ Laid /\ file \in Seq(Nat)
  BY <1>1 DEF Init, Lines, Captured, Edges, Untouched, Laid
<1> QED BY <1>2, <1>3 DEF IInv

-----------------------------------------------------------------------------
(* The tracee                                                              *)

(* It leaves the regions alone that it does not touch.                     *)
LEMMA TraceeKeeps ==
  ASSUME IInv, Laid, NEW touched \in SUBSET Regions, Tracee(touched),
         alive' \in BOOLEAN, space' \in [Regions -> Region],
         \A q \in Regions \ touched : space'[q] = space[q] /\ alive' = alive
  PROVE  IInv' /\ Laid'
<1>1. /\ UNCHANGED <<dpc, regions, r, file, failed, captured>>
      /\ changes' \in 0 .. MaxChanges /\ untouched' = untouched \ touched
      /\ untouched \subseteq Regions
  BY Constants DEF Tracee, dumpVars, IInv, TypeOK
<1>2. TypeOK'
  BY <1>1 DEF IInv, TypeOK
<1>3. Lines' /\ Captured' /\ Edges' /\ Laid' /\ file' \in Seq(Nat)
  BY <1>1 DEF IInv, Lines, Captured, Edges, Laid, Lies, EntryLies
<1>4. Untouched'
  <2> SUFFICES ASSUME dpc \in {"create", "regions", "nil"}, NEW q \in untouched'
               PROVE  /\ alive' /\ \E j \in DOMAIN regions' : regions'[j] = MapLine(q)'
                      /\ q \notin Specials /\ space'[q].readable =>
                           \A j \in 1 .. r' - 1 : regions'[j].start = q =>
                             \E k \in DOMAIN captured' : captured'[k] = Pages(q)'
    BY <1>1 DEF Untouched
  <2>1. q \in untouched /\ q \in Regions \ touched
    BY <1>1
  <2>2. space'[q] = space[q] /\ alive' = alive
    BY <2>1
  <2>3. MapLine(q)' = MapLine(q) /\ Pages(q)' = Pages(q)
    BY <2>2 DEF MapLine, Pages
  <2>4. /\ alive /\ \E j \in DOMAIN regions : regions[j] = MapLine(q)
        /\ q \notin Specials /\ space[q].readable =>
             \A j \in 1 .. r - 1 : regions[j].start = q =>
               \E k \in DOMAIN captured : captured[k] = Pages(q)
    BY <2>1 DEF IInv, Untouched
  <2> QED BY <1>1, <2>2, <2>3, <2>4
<1> QED BY <1>2, <1>3, <1>4 DEF IInv

LEMMA UnmapsKeeps ==
  ASSUME IInv, Laid, NEW q \in Regions, Unmaps(q) PROVE IInv' /\ Laid'
<1>1. PICK n \in 0 .. space[q].pages : space' = [space EXCEPT ![q].pages = n]
  BY DEF Unmaps
<1>2. space \in [Regions -> Region] /\ alive \in BOOLEAN
  BY DEF IInv, TypeOK
<1>3. n \in 0 .. Size
  BY <1>1, <1>2, Constants DEF Region
<1>4. space' \in [Regions -> Region] /\ \A p \in Regions \ {q} : space'[p] = space[p]
  BY <1>1, <1>2, <1>3 DEF Region
<1> QED BY <1>2, <1>4, TraceeKeeps DEF Unmaps

LEMMA MapsKeeps ==
  ASSUME IInv, Laid, NEW q \in Regions, Maps(q) PROVE IInv' /\ Laid'
<1>1. PICK b \in BOOLEAN :
        space' = [space EXCEPT ![q] = [pages |-> Size, readable |-> b, holds |-> changes']]
  BY DEF Maps
<1>2. space \in [Regions -> Region] /\ alive \in BOOLEAN /\ changes' \in Nat
  BY DEF IInv, TypeOK, Maps, Tracee
<1>3. [pages |-> Size, readable |-> b, holds |-> changes'] \in Region
  BY <1>2, Constants DEF Region
<1>4. space' \in [Regions -> Region] /\ \A p \in Regions \ {q} : space'[p] = space[p]
  BY <1>1, <1>2, <1>3
<1> QED BY <1>2, <1>4, TraceeKeeps DEF Maps

LEMMA WritesKeeps ==
  ASSUME IInv, Laid, NEW q \in Regions, Writes(q) PROVE IInv' /\ Laid'
<1>1. space' = [space EXCEPT ![q].holds = changes']
  BY DEF Writes
<1>2. space \in [Regions -> Region] /\ alive \in BOOLEAN /\ changes' \in Nat
  BY DEF IInv, TypeOK, Writes, Tracee
<1>3. space' \in [Regions -> Region] /\ \A p \in Regions \ {q} : space'[p] = space[p]
  BY <1>1, <1>2 DEF Region
<1> QED BY <1>2, <1>3, TraceeKeeps DEF Writes

LEMMA ExitsKeeps ==
  ASSUME IInv, Laid, Exits PROVE IInv' /\ Laid'
<1>1. space' \in [Regions -> Region]
  <2>1. space \in [Regions -> Region] /\ space' = [q \in Regions |-> [space[q] EXCEPT !.pages = 0]]
    BY DEF Exits, IInv, TypeOK
  <2>2. \A q \in Regions : [space[q] EXCEPT !.pages = 0] \in Region
    BY <2>1, Constants DEF Region
  <2> QED BY <2>1, <2>2
<1> QED BY <1>1, TraceeKeeps DEF Exits

-----------------------------------------------------------------------------
(* readMaps                                                                *)

(* Ascending and as many as there are: every mapped region has a line.     *)
LEMMA EveryLine ==
  ASSUME NEW M \in SUBSET Regions, NEW f \in [1 .. Cardinality(M) -> M],
         \A k, l \in DOMAIN f : k < l => f[k] < f[l]
  PROVE  Cardinality(M) \in Nat /\ \A q \in M : \E k \in DOMAIN f : f[k] = q
<1>1. IsFiniteSet(M)
  <2>1. IsFiniteSet(1 .. MaxRegion)
    BY FS_Interval, Constants
  <2> QED BY <2>1, FS_Subset DEF Regions
<1>2. Cardinality(M) \in Nat
  BY <1>1, FS_CardinalityType
<1> DEFINE n == Cardinality(M)
<1>3. /\ n \in Nat /\ f \in [1 .. n -> M] /\ M \subseteq Nat
      /\ \A k, l \in 1 .. n : k < l => f[k] < f[l]
  BY <1>2, Constants
<1> HIDE DEF n
<1>4. IsFiniteSet(1 .. n) /\ Cardinality(1 .. n) = n
  BY <1>3, FS_Interval
<1>5. \A k, l \in 1 .. n : f[k] = f[l] => k = l
  <2> SUFFICES ASSUME NEW k \in 1 .. n, NEW l \in 1 .. n, f[k] = f[l], k # l
               PROVE  FALSE
    OBVIOUS
  <2>1. f[k] \in Nat /\ f[l] \in Nat
    BY <1>3
  <2>2. k < l \/ l < k
    BY <1>3
  <2>3. f[k] < f[l] \/ f[l] < f[k]
    BY <1>3, <2>2
  <2> QED BY <2>1, <2>3
<1>6. f \in Injection(1 .. n, M)
  BY <1>3, <1>5 DEF Injection, IsInjective
<1>7. f \in Surjection(1 .. n, M)
  BY <1>1, <1>4, <1>6, FS_Injection DEF n
<1> QED BY <1>2, <1>3, <1>7 DEF Surjection

LEMMA ReadMapsKeeps ==
  ASSUME IInv, Laid, ReadMaps PROVE IInv' /\ Laid'
<1>1. /\ dpc = "maps" /\ dpc' = "create" /\ alive = TRUE
      /\ untouched' = {q \in Regions : space[q].pages > 0}
      /\ UNCHANGED <<alive, space, changes, r, file, failed, captured>>
      /\ r = 1 /\ captured = <<>> /\ file = <<>> /\ ~failed
      /\ space \in [Regions -> Region]
  BY DEF ReadMaps, IInv, TypeOK, Edges
<1>2. PICK lines \in [1 .. Cardinality(untouched') -> untouched'] :
        /\ \A k, l \in DOMAIN lines : k < l => lines[k] < lines[l]
        /\ regions' = [k \in DOMAIN lines |-> MapLine(lines[k])]
  BY DEF ReadMaps
<1>3. /\ Cardinality(untouched') \in Nat /\ untouched' \subseteq Regions
      /\ \A q \in untouched' : \E k \in DOMAIN lines : lines[k] = q
  BY <1>1, <1>2, EveryLine
<1>4. \A q \in untouched' : MapLine(q) \in Line /\ MapLine(q).start = q /\ MapLine(q)' = MapLine(q)
  BY <1>1, Constants DEF MapLine, Line, Region
<1>5. regions' \in Seq(Line) /\ DOMAIN regions' = DOMAIN lines
  BY <1>2, <1>3, <1>4
<1>6. Lines'
  BY <1>2, <1>4, <1>5 DEF Lines
<1>7. TypeOK'
  <2>1. r' \in 1 .. Len(regions') + 1
    BY <1>1, <1>5
  <2>2. \A k \in DOMAIN regions' : regions'[k] \in Line
    BY <1>2, <1>4, <1>5
  <2> QED BY <1>1, <1>3, <2>1, <2>2 DEF IInv, TypeOK, Line
<1>8. Captured' /\ Edges' /\ Laid' /\ file' \in Seq(Nat)
  BY <1>1 DEF IInv, Captured, Edges, Laid
<1>9. Untouched'
  <2> SUFFICES ASSUME NEW q \in untouched'
               PROVE  /\ alive' /\ \E j \in DOMAIN regions' : regions'[j] = MapLine(q)'
                      /\ \A j \in 1 .. r' - 1 : FALSE
    BY DEF Untouched
  <2> QED BY <1>1, <1>2, <1>3, <1>4, <1>5
<1> QED BY <1>6, <1>7, <1>8, <1>9 DEF IInv

-----------------------------------------------------------------------------
(* Writing                                                                 *)

LEMMA HeaderIs == Header \in Seq(Nat) /\ Len(Header) = 6
  BY DEF Header

LEMMA WrittenIs ==
  ASSUME file \in Seq(Nat), failed \in BOOLEAN, NEW words \in Seq(Nat), Written(words)
  PROVE  /\ file' \in Seq(Nat) /\ failed' \in BOOLEAN
         /\ ~failed' => ~failed /\ file' = file \o words
<1>1. PICK n \in {0, Len(words) \div 2, Len(words)} :
        /\ file' = file \o SubSeq(words, 1, n)
        /\ failed' = (failed \/ n < Len(words))
  BY DEF Written
<1>2. Len(words) \in Nat /\ n \in 0 .. Len(words)
  BY <1>1
<1>3. SubSeq(words, 1, n) \in Seq(Nat)
  BY <1>2, SubSeqProperties
<1>4. n = Len(words) => SubSeq(words, 1, n) = words
  BY SubSeqFull
<1>5. file' \in Seq(Nat) /\ failed' \in BOOLEAN
  <2>1. file \o SubSeq(words, 1, n) \in Seq(Nat)
    BY <1>3, ConcatProperties
  <2> QED BY <1>1, <2>1
<1>6. ASSUME ~failed' PROVE ~failed /\ file' = file \o words
  <2>1. ~failed /\ ~(n < Len(words))
    BY <1>1, <1>6
  <2>2. n = Len(words)
    BY <1>2, <2>1
  <2> QED BY <1>1, <1>4, <2>1, <2>2
<1> QED BY <1>5, <1>6

LEMMA CreateKeeps ==
  ASSUME IInv, Laid, Create PROVE IInv' /\ Laid'
<1>1. /\ dpc = "create" /\ dpc' = "regions" /\ Written(Header)
      /\ UNCHANGED <<alive, space, changes, untouched, regions, r, captured>>
      /\ r = 1 /\ captured = <<>> /\ file = <<>> /\ ~failed /\ file \in Seq(Nat)
  BY DEF Create, traceeVars, IInv, Edges
<1>2. /\ file' \in Seq(Nat) /\ failed' \in BOOLEAN
      /\ ~failed' => file' = <<>> \o Header
  BY <1>1, HeaderIs, WrittenIs DEF IInv, TypeOK
<1>3. \A k \in DOMAIN file' : file'[k] \in Nat
  BY <1>2
<1>4. TypeOK'
  BY <1>1, <1>2, <1>3 DEF IInv, TypeOK
<1>5. Lines' /\ Captured' /\ Edges' /\ Untouched'
  BY <1>1 DEF IInv, Lines, Captured, Edges, Untouched, MapLine, Pages
<1>6. Laid'
  <2> SUFFICES ASSUME ~failed' PROVE Laid'
    BY DEF Laid
  <2>1. file' = Header
    BY <1>2, HeaderIs, ConcatEmptySeq
  <2> DEFINE pos == <<Len(Header) + 1>>
  <2>2. pos \in Seq(Nat) /\ Len(pos) = 1 /\ pos[1] = Len(Header) + 1
    BY HeaderIs
  <2> HIDE DEF pos
  <2>3. Len(captured') = 0
    BY <1>1
  <2>4. Lies(pos)'
    BY <2>1, <2>2, <2>3 DEF Lies
  <2> QED BY <2>1, <2>2, <2>3, <2>4, HeaderIs DEF Laid
<1> QED BY <1>2, <1>4, <1>5, <1>6 DEF IInv

LEMMA DumpFailsKeeps ==
  ASSUME IInv, Laid, DumpFails PROVE IInv' /\ Laid'
<1>1. dpc' = "error" /\ UNCHANGED <<traceeVars, regions, r, file, failed, captured>>
  BY DEF DumpFails
<1> QED BY <1>1 DEF IInv, TypeOK, Lines, Captured, Edges, Untouched, Laid, traceeVars

-----------------------------------------------------------------------------
(* The regions                                                             *)

LEMMA AtLine ==
  ASSUME IInv, AtRegion
  PROVE  /\ r \in DOMAIN regions /\ r \in Nat \ {0} /\ DOMAIN regions = 1 .. Len(regions)
         /\ Len(regions) \in Nat /\ regions[r] \in Line
         /\ \A j \in 1 .. r - 1 : j \in DOMAIN regions /\ regions[j].start < regions[r].start
<1>1. regions \in Seq(Line) /\ r \in 1 .. Len(regions) + 1 /\ r <= Len(regions)
  BY DEF AtRegion, IInv, TypeOK, Lines
<1>2. Len(regions) \in Nat /\ DOMAIN regions = 1 .. Len(regions) /\ r \in 1 .. Len(regions)
  BY <1>1
<1>3. \A j \in 1 .. r - 1 : j \in DOMAIN regions /\ j < r
  BY <1>1, <1>2
<1> QED BY <1>1, <1>2, <1>3 DEF IInv, Lines

(* The line of a region that was left alone is true.                       *)
LEMMA LineIsTrue ==
  ASSUME IInv, AtRegion, regions[r].start \in untouched
  PROVE  alive /\ regions[r] = MapLine(regions[r].start)
<1>1. alive /\ \E j \in DOMAIN regions : regions[j] = MapLine(regions[r].start)
  BY DEF AtRegion, IInv, Untouched
<1>2. PICK j \in DOMAIN regions : regions[j] = MapLine(regions[r].start)
  BY <1>1
<1>3. regions[j].start = regions[r].start /\ r \in DOMAIN regions
  BY <1>2, AtLine DEF MapLine
<1>4. j \in Nat /\ r \in Nat /\ regions[r] \in Line
  BY AtLine
<1>5. regions[r].start \in Nat
  BY <1>4, Constants DEF Line
<1>6. ~(regions[j].start < regions[r].start) /\ ~(regions[r].start < regions[j].start)
  BY <1>3, <1>5
<1>7. ~(j < r) /\ ~(r < j)
  BY <1>3, <1>6 DEF IInv, Lines
<1>8. j = r
  BY <1>4, <1>7
<1> QED BY <1>1, <1>2, <1>8

LEMMA PagesReadIs ==
  ASSUME IInv, NEW line \in Line
  PROVE  /\ PagesRead(line) \in 0 .. Size
         /\ alive /\ line = MapLine(line.start) =>
              PagesRead(line) = IF line.readable THEN line.pages ELSE 0
<1>1. space[line.start].pages \in 0 .. Size /\ line.pages \in 0 .. Size /\ Size \in Nat
  <2>1. line.start \in Regions /\ line.pages \in 1 .. Size /\ Size \in Nat
    BY Constants DEF Line
  <2>2. space[line.start] \in Region
    BY <2>1 DEF IInv, TypeOK
  <2> QED BY <2>1, <2>2 DEF Region
<1>2. Readable(line) \subseteq 0 .. Size /\ \E n \in Readable(line) : \A k \in Readable(line) : n <= k
  <2>1. CASE alive /\ space[line.start].readable
    <3>1. Readable(line) = {space[line.start].pages, line.pages}
      BY <2>1 DEF Readable
    <3> QED BY <1>1, <3>1
  <2>2. CASE ~(alive /\ space[line.start].readable)
    BY <1>1, <2>2 DEF Readable
  <2> QED BY <2>1, <2>2
<1>3. PagesRead(line) \in Readable(line)
  BY <1>2 DEF PagesRead
<1>4. ASSUME alive, line = MapLine(line.start)
      PROVE  Readable(line) = IF line.readable THEN {line.pages} ELSE {0}
  <2>1. space[line.start].readable = line.readable /\ space[line.start].pages = line.pages
    BY <1>4 DEF MapLine
  <2> QED BY <1>4, <2>1 DEF Readable
<1> QED BY <1>2, <1>3, <1>4

(* Going on to the next region when nothing of this one is captured.       *)
LEMMA PassKeeps ==
  ASSUME IInv, Laid, AtRegion, r' = r + 1,
         UNCHANGED <<traceeVars, dpc, regions, file, failed, captured>>,
         regions[r].start \in untouched =>
           regions[r].start \in Specials \/ ~space[regions[r].start].readable
  PROVE  IInv' /\ Laid'
<1>1. /\ dpc = "regions" /\ dpc' = "regions" /\ r \in DOMAIN regions /\ r \in Nat \ {0}
      /\ Len(regions) \in Nat /\ DOMAIN regions = 1 .. Len(regions)
      /\ \A j \in 1 .. r' - 1 : j \in 1 .. r - 1 \/ j = r
      /\ UNCHANGED <<alive, space, changes, untouched>>
  BY AtLine DEF AtRegion, traceeVars
<1>2. TypeOK'
  BY <1>1 DEF IInv, TypeOK
<1>3. Lines' /\ Edges' /\ Laid' /\ file' \in Seq(Nat)
  BY <1>1 DEF IInv, Lines, Edges, Laid, Lies, EntryLies
<1>4. Captured'
  <2>1. \A k \in DOMAIN captured : \E j \in 1 .. r' - 1 : regions[j].start = captured[k].start
    BY <1>1 DEF IInv, Captured
  <2> QED BY <2>1 DEF IInv, Captured
<1>5. Untouched'
  <2> SUFFICES ASSUME NEW q \in untouched'
               PROVE  /\ alive' /\ \E j \in DOMAIN regions' : regions'[j] = MapLine(q)'
                      /\ q \notin Specials /\ space'[q].readable =>
                           \A j \in 1 .. r' - 1 : regions'[j].start = q =>
                             \E k \in DOMAIN captured' : captured'[k] = Pages(q)'
    BY DEF Untouched
  <2>1. MapLine(q)' = MapLine(q) /\ Pages(q)' = Pages(q) /\ UNCHANGED <<regions, captured>>
    BY <1>1 DEF MapLine, Pages
  <2>2. /\ alive /\ \E j \in DOMAIN regions : regions[j] = MapLine(q)
        /\ q \notin Specials /\ space[q].readable =>
             \A j \in 1 .. r - 1 : regions[j].start = q =>
               \E k \in DOMAIN captured : captured[k] = Pages(q)
    BY <1>1 DEF IInv, Untouched
  <2>3. q \notin Specials /\ space[q].readable => regions[r].start # q
    BY <1>1
  <2> QED BY <1>1, <2>1, <2>2, <2>3
<1> QED BY <1>2, <1>3, <1>4, <1>5 DEF IInv

LEMMA SkipRegionKeeps ==
  ASSUME IInv, Laid, SkipRegion PROVE IInv' /\ Laid'
<1>1. /\ AtRegion /\ Skipped(regions[r]) /\ r' = r + 1
      /\ UNCHANGED <<traceeVars, dpc, regions, file, failed, captured>>
  BY DEF SkipRegion
<1>2. ASSUME regions[r].start \in untouched
      PROVE  regions[r].start \in Specials \/ ~space[regions[r].start].readable
  <2>1. regions[r] = MapLine(regions[r].start)
    BY <1>1, <1>2, LineIsTrue
  <2>2. regions[r].readable = space[regions[r].start].readable
    BY <2>1 DEF MapLine
  <2> QED BY <1>1, <2>2 DEF Skipped
<1> QED BY <1>1, <1>2, PassKeeps

LEMMA ReadFailsKeeps ==
  ASSUME IInv, Laid, ReadFails PROVE IInv' /\ Laid'
<1>1. /\ AtRegion /\ ~Skipped(regions[r]) /\ PagesRead(regions[r]) = 0 /\ r' = r + 1
      /\ UNCHANGED <<traceeVars, dpc, regions, file, failed, captured>>
  BY DEF ReadFails, ErrorContinues
<1>2. regions[r].start \notin untouched
  <2> SUFFICES ASSUME regions[r].start \in untouched PROVE FALSE
    OBVIOUS
  <2>1. alive /\ regions[r] = MapLine(regions[r].start) /\ regions[r] \in Line
    BY <1>1, LineIsTrue, AtLine
  <2>2. PagesRead(regions[r]) = regions[r].pages
    BY <1>1, <2>1, PagesReadIs DEF Skipped
  <2>3. regions[r].pages \in 1 .. Size
    BY <2>1 DEF Line
  <2> QED BY <1>1, <2>2, <2>3, Constants
<1> QED BY <1>1, <1>2, PassKeeps

-----------------------------------------------------------------------------
(* ReadRegion                                                              *)

LEMMA Concatenated ==
  ASSUME NEW s \in Seq(Nat), NEW t \in Seq(Nat)
  PROVE  /\ s \o t \in Seq(Nat) /\ Len(s \o t) = Len(s) + Len(t)
         /\ Len(s) \in Nat /\ Len(t) \in Nat
         /\ \A k \in 1 .. Len(s) : (s \o t)[k] = s[k]
         /\ \A k \in 1 .. Len(t) : (s \o t)[Len(s) + k] = t[k]
<1>1. s \o t \in Seq(Nat) /\ Len(s \o t) = Len(s) + Len(t) /\ Len(s) \in Nat /\ Len(t) \in Nat
  BY ConcatProperties
<1> DEFINE m == Len(s)
           n == Len(t)
<1>2. /\ m \in Nat /\ n \in Nat
      /\ \A k \in 1 .. m + n : (s \o t)[k] = IF k <= m THEN s[k] ELSE t[k - m]
  BY <1>1, ConcatProperties
<1> HIDE DEF m, n
<1>3. \A k \in 1 .. m : k \in 1 .. m + n /\ k <= m
  BY <1>2
<1>5. \A k \in 1 .. m : (s \o t)[k] = s[k]
  BY <1>2, <1>3
<1>6. ASSUME NEW k \in 1 .. n, NEW l, l = m + k PROVE (s \o t)[l] = t[k]
  <2>1. l \in 1 .. m + n /\ ~(l <= m) /\ l - m = k
    BY <1>2, <1>6
  <2>2. (s \o t)[l] = IF l <= m THEN s[l] ELSE t[l - m]
    BY <1>2, <2>1
  <2> QED BY <2>1, <2>2
<1> QED BY <1>1, <1>5, <1>6 DEF m, n

LEMMA Appended ==
  ASSUME NEW S, NEW s \in Seq(S), NEW x \in S, NEW t, t = Append(s, x)
  PROVE  /\ t \in Seq(S) /\ Len(t) = Len(s) + 1 /\ Len(s) \in Nat
         /\ DOMAIN s = 1 .. Len(s) /\ DOMAIN t = 1 .. Len(s) + 1
         /\ \A k \in 1 .. Len(s) : t[k] = s[k]
         /\ t[Len(s) + 1] = x
  BY AppendProperties

LEMMA EntryIs ==
  ASSUME NEW line \in Line, NEW data \in Seq(Nat)
  PROVE  /\ Entry(line, data) \in Seq(Nat) /\ Len(Entry(line, data)) = 5 + Len(data)
         /\ Entry(line, data)[1] = line.start /\ Entry(line, data)[5] = Len(data)
         /\ \A p \in 1 .. Len(data) : Entry(line, data)[5 + p] = data[p]
<1> DEFINE head == <<line.start, line.start + line.pages, 4, 4, Len(data)>>
<1>1. line.start \in Regions /\ line.pages \in 1 .. Size /\ Len(data) \in Nat
  BY DEF Line
<1>2. /\ head \in Seq(Nat) /\ Len(head) = 5 /\ head[1] = line.start /\ head[5] = Len(data)
  <2>1. line.start \in Nat
    BY <1>1, Constants
  <2>2. line.pages \in Nat /\ line.start + line.pages \in Nat
    BY <1>1, <2>1
  <2> QED BY <1>1, <2>1, <2>2
<1>3. Entry(line, data) = head \o data
  BY DEF Entry
<1> HIDE DEF head
<1>4. /\ head \o data \in Seq(Nat) /\ Len(head \o data) = Len(head) + Len(data)
      /\ \A k \in 1 .. Len(head) : (head \o data)[k] = head[k]
      /\ \A k \in 1 .. Len(data) : (head \o data)[Len(head) + k] = data[k]
  BY <1>2, Concatenated
<1>5. (head \o data)[1] = head[1] /\ (head \o data)[5] = head[5]
  BY <1>2, <1>4
<1> QED BY <1>2, <1>3, <1>4, <1>5

(* What ReadRegion reads of a region is what it adds to captured.          *)
LEMMA ReadIs ==
  ASSUME IInv, ReadRegion
  PROVE  \E data \in Seq(Nat) :
           /\ Len(data) \in 1 .. Size
           /\ data = [k \in 1 .. PagesRead(regions[r]) |-> space[regions[r].start].holds]
           /\ captured' = Append(captured, [start |-> regions[r].start, data |-> data])
           /\ Written(Entry(regions[r], data))
<1> DEFINE data == [k \in 1 .. PagesRead(regions[r]) |-> space[regions[r].start].holds]
<1>1. /\ data # <<>> /\ AtRegion /\ Written(Entry(regions[r], data))
      /\ captured' = Append(captured, [start |-> regions[r].start, data |-> data])
  BY DEF ReadRegion
<1>2. regions[r] \in Line
  BY <1>1, AtLine
<1>3. PagesRead(regions[r]) \in 0 .. Size
  BY <1>2, PagesReadIs
<1>4. space[regions[r].start].holds \in Nat
  <2>1. space[regions[r].start] \in Region
    BY <1>2 DEF IInv, TypeOK, Line
  <2> QED BY <2>1 DEF Region
<1>5. data \in Seq(Nat) /\ Len(data) = PagesRead(regions[r])
  BY <1>3, <1>4
<1>6. Len(data) # 0
  BY <1>1, <1>5, EmptySeq
<1>7. Len(data) \in 1 .. Size
  BY <1>3, <1>5, <1>6, Constants
<1> HIDE DEF data
<1> QED BY <1>1, <1>5, <1>7 DEF data

LEMMA LaidGrows ==
  ASSUME IInv, Laid, AtRegion, NEW data \in Seq(Nat), NEW line \in Line,
         captured' = Append(captured, [start |-> line.start, data |-> data]),
         ~failed, file' = file \o Entry(line, data)
  PROVE  Laid'
<1> DEFINE e == Entry(line, data)
           c == [start |-> line.start, data |-> data]
<1>1. /\ captured \in Seq(Capture) /\ file \in Seq(Nat) /\ dpc = "regions"
      /\ e \in Seq(Nat) /\ c \in Capture /\ Len(data) \in Nat
      /\ c.start = line.start /\ c.data = data
  BY EntryIs DEF IInv, Captured, Capture, Line, AtRegion
<1>2. PICK pos \in Seq(Nat) : Lies(pos)
  BY <1>1 DEF Laid
<1>3. PICK n \in Nat : n = Len(captured)
  BY <1>1
<1>4. PICK m \in Nat : m = Len(file)
  BY <1>1
<1>5. PICK d \in Nat : d = Len(data)
  BY <1>1
<1>6. /\ Len(captured') = n + 1 /\ captured'[n + 1] = c
      /\ \A k \in 1 .. n : captured'[k] = captured[k]
  BY <1>1, <1>3, Appended
<1>7. /\ Len(file') = m + Len(e)
      /\ \A k \in 1 .. m : file'[k] = file[k]
      /\ \A k \in 1 .. Len(e) : file'[m + k] = e[k]
  BY <1>1, <1>4, Concatenated
<1>8. /\ Len(e) = 5 + d
      /\ e[1] = line.start /\ e[5] = d /\ \A p \in 1 .. d : e[5 + p] = data[p]
  BY <1>5, EntryIs
<1>9. PICK pos2 \in Seq(Nat) :
        /\ Len(pos2) = n + 2 /\ Len(pos) = n + 1
        /\ \A k \in 1 .. n + 1 : pos2[k] = pos[k] /\ pos[k] \in Nat
        /\ pos2[n + 2] = m + 6 + d /\ pos[n + 1] = m + 1 /\ pos[1] = Len(Header) + 1
  <2>1. Len(pos) = n + 1 /\ pos[n + 1] = m + 1 /\ pos[1] = Len(Header) + 1
    BY <1>2, <1>3, <1>4 DEF Lies
  <2>2. n + 1 + 1 = n + 2 /\ m + 6 + d \in Nat
    OBVIOUS
  <2> DEFINE pos2 == Append(pos, m + 6 + d)
  <2>3. /\ pos2 \in Seq(Nat) /\ Len(pos2) = n + 2 /\ pos2[n + 2] = m + 6 + d
        /\ \A k \in 1 .. n + 1 : pos2[k] = pos[k]
    BY <2>1, <2>2, Appended
  <2>4. \A k \in 1 .. n + 1 : pos[k] \in Nat
    BY <2>1
  <2> HIDE DEF pos2
  <2> QED BY <2>1, <2>3, <2>4
<1>10. /\ m >= Len(Header) + n
       /\ \A k \in 1 .. Len(Header) : file[k] = Header[k]
       /\ \A k \in 1 .. n : EntryLies(k, pos)
  BY <1>1, <1>2, <1>3, <1>4 DEF Laid, Lies
<1>11. Len(file') = m + 5 + d
  BY <1>7, <1>8
<1> HIDE DEF e, c
<1>12. ASSUME NEW k \in 1 .. n PROVE EntryLies(k, pos2)'
  <2>1. k \in 1 .. n + 1 /\ k + 1 \in 1 .. n + 1
    OBVIOUS
  <2>2. pos2[k] = pos[k] /\ pos2[k + 1] = pos[k + 1] /\ captured'[k] = captured[k]
    BY <1>6, <1>9, <2>1
  <2>3. pos[k] \in Nat /\ pos[k + 1] \in Nat
    BY <1>9, <2>1
  <2>4. captured[k].data \in Seq(Nat)
    <3>1. captured[k] \in Capture
      BY <1>1, <1>3
    <3> QED BY <3>1 DEF Capture
  <2>5. PICK l \in Nat : l = Len(captured[k].data)
    BY <2>4
  <2>6. /\ Len(Header) < pos[k] /\ pos[k + 1] = pos[k] + 5 + l /\ pos[k + 1] <= m + 1
        /\ file[pos[k]] = captured[k].start /\ file[pos[k] + 4] = l
        /\ \A p \in 1 .. l : file[pos[k] + 4 + p] = captured[k].data[p]
    BY <1>4, <1>10, <2>5 DEF EntryLies
  <2>7. PICK at \in Nat : at = pos[k]
    BY <2>3
  <2>11. 6 < at /\ at + 5 + l <= m + 1
    BY <2>6, <2>7, HeaderIs
  <2>8. at \in 1 .. m /\ at + 4 \in 1 .. m /\ at + 5 + l <= m + 5 + d + 1
    BY <2>11
  <2>9. \A p \in 1 .. l : at + 4 + p \in 1 .. m
    BY <2>11
  <2>10. /\ file'[at] = captured[k].start /\ file'[at + 4] = l
         /\ \A p \in 1 .. l : file'[at + 4 + p] = captured[k].data[p]
    BY <1>7, <2>6, <2>7, <2>8, <2>9
  <2> QED BY <1>11, <2>2, <2>5, <2>6, <2>7, <2>8, <2>10 DEF EntryLies
<1>13. EntryLies(n + 1, pos2)'
  <2>5. n + 1 \in 1 .. n + 1 /\ n + 1 + 1 = n + 2
    OBVIOUS
  <2>1. pos2[n + 1] = m + 1 /\ pos2[n + 1 + 1] = m + 6 + d /\ captured'[n + 1] = c
    BY <1>6, <1>9, <2>5
  <2>2. /\ Len(Header) < m + 1 /\ m + 6 + d = m + 1 + 5 + d /\ m + 6 + d <= Len(file') + 1
        /\ m + 1 + 4 = m + 5
    <3>1. Len(Header) < m + 1
      BY <1>10, HeaderIs
    <3>2. m + 6 + d = m + 1 + 5 + d /\ m + 6 + d <= m + 5 + d + 1 /\ m + 1 + 4 = m + 5
      OBVIOUS
    <3> QED BY <1>11, <3>1, <3>2
  <2>6. 1 \in 1 .. 5 + d /\ 5 \in 1 .. 5 + d
    OBVIOUS
  <2>3. file'[m + 1] = c.start /\ file'[m + 5] = d
    BY <1>1, <1>7, <1>8, <2>6
  <2>4. ASSUME NEW p \in 1 .. d PROVE file'[m + 1 + 4 + p] = data[p]
    <3>1. 5 + p \in 1 .. 5 + d /\ m + 1 + 4 + p = m + (5 + p)
      OBVIOUS
    <3>2. file'[m + (5 + p)] = e[5 + p]
      BY <1>7, <1>8, <3>1
    <3> QED BY <1>8, <3>1, <3>2
  <2> QED BY <1>1, <1>5, <2>1, <2>2, <2>3, <2>4 DEF EntryLies
<1>14. /\ Len(file') >= Len(Header) + Len(captured')
       /\ \A k \in 1 .. Len(Header) : file'[k] = Header[k]
  <2>1. \A k \in 1 .. Len(Header) : k \in 1 .. m
    BY <1>10, HeaderIs
  <2>2. Len(file') >= Len(Header) + Len(captured')
    BY <1>6, <1>10, <1>11, HeaderIs
  <2> QED BY <1>7, <1>10, <2>1, <2>2
<1>15. Lies(pos2)'
  <2>1. \A k \in 1 .. n + 1 : k \in 1 .. n \/ k = n + 1
    OBVIOUS
  <2>2. \A k \in 1 .. n + 1 : EntryLies(k, pos2)'
    BY <1>12, <1>13, <2>1
  <2>3. pos2[1] = Len(Header) + 1 /\ pos2[Len(pos2)] = Len(file') + 1 /\ Len(pos2) = Len(captured') + 1
    BY <1>6, <1>9, <1>11
  <2> QED BY <1>6, <2>2, <2>3 DEF Lies
<1> QED BY <1>14, <1>15 DEF Laid

LEMMA ReadRegionKeeps ==
  ASSUME IInv, Laid, ReadRegion PROVE IInv' /\ Laid'
<1>1. /\ AtRegion /\ ~Skipped(regions[r]) /\ r' = r + 1
      /\ UNCHANGED <<alive, space, changes, untouched, dpc, regions>>
  BY DEF ReadRegion, traceeVars
<1>2. PICK line \in Line : line = regions[r]
  BY <1>1, AtLine
<1>3. PICK data \in Seq(Nat) :
        /\ Len(data) \in 1 .. Size
        /\ data = [k \in 1 .. PagesRead(line) |-> space[line.start].holds]
        /\ captured' = Append(captured, [start |-> line.start, data |-> data])
        /\ Written(Entry(line, data))
  BY <1>2, ReadIs
<1>4. /\ file' \in Seq(Nat) /\ failed' \in BOOLEAN
      /\ ~failed' => ~failed /\ file' = file \o Entry(line, data)
  BY <1>3, EntryIs, WrittenIs DEF IInv, TypeOK
<1>5. Laid'
  <2>1. CASE ~failed'
    BY <1>1, <1>3, <1>4, <2>1, LaidGrows
  <2>2. CASE failed'
    BY <2>2 DEF Laid
  <2> QED BY <2>1, <2>2
<1>6. /\ dpc = "regions" /\ r \in DOMAIN regions /\ r \in Nat \ {0}
      /\ Len(regions) \in Nat /\ DOMAIN regions = 1 .. Len(regions)
      /\ \A j \in 1 .. r' - 1 : j \in 1 .. r - 1 \/ j = r
      /\ \A j \in 1 .. r - 1 : j \in 1 .. r' - 1 /\ regions[j].start < line.start
      /\ r \in 1 .. r' - 1
  BY <1>1, <1>2, AtLine DEF AtRegion
<1>7. PICK n \in Nat : n = Len(captured)
  BY DEF IInv, Captured
<1> DEFINE c == [start |-> line.start, data |-> data]
<1>8. c \in Capture /\ captured \in Seq(Capture) /\ c.start = line.start /\ c.data = data
  BY DEF Capture, Line, IInv, Captured
<1>9. /\ captured' \in Seq(Capture) /\ DOMAIN captured = 1 .. n /\ DOMAIN captured' = 1 .. n + 1
      /\ \A k \in 1 .. n : captured'[k] = captured[k]
      /\ captured'[n + 1] = c
  BY <1>3, <1>7, <1>8, Appended
<1> HIDE DEF c
<1>10. \A k \in 1 .. n + 1 : k \in 1 .. n \/ k = n + 1
  OBVIOUS
<1>11. TypeOK'
  <2>1. \A k \in DOMAIN captured' :
          captured'[k].start \in Regions /\ Len(captured'[k].data) \in 1 .. Size
    BY <1>2, <1>3, <1>8, <1>9, <1>10 DEF IInv, TypeOK, Capture, Line
  <2>2. r' \in 1 .. Len(regions') + 1
    BY <1>1, <1>6
  <2>3. \A k \in DOMAIN file' : file'[k] \in Nat
    BY <1>4
  <2> QED BY <1>1, <1>4, <2>1, <2>2, <2>3 DEF IInv, TypeOK
<1>12. Lines' /\ Edges'
  BY <1>1, <1>6 DEF IInv, Lines, Edges
<1>13. Captured'
  <2>1. ASSUME NEW k \in 1 .. n PROVE captured[k].start < line.start
    BY <1>6, <1>9, <2>1 DEF IInv, Captured
  <2>2. ASSUME NEW k \in DOMAIN captured', NEW l \in DOMAIN captured', k < l
        PROVE  captured'[k].start < captured'[l].start
    <3>1. k \in 1 .. n /\ k \in Nat /\ l \in Nat
      BY <1>9, <2>2
    <3>2. CASE l \in 1 .. n
      BY <1>9, <2>2, <3>1, <3>2 DEF IInv, Captured
    <3>3. CASE l = n + 1
      BY <1>8, <1>9, <2>1, <3>1, <3>3
    <3> QED BY <1>9, <1>10, <3>2, <3>3
  <2>3. ASSUME NEW k \in DOMAIN captured'
        PROVE  \E j \in 1 .. r' - 1 : regions'[j].start = captured'[k].start
    <3>1. CASE k \in 1 .. n
      BY <1>1, <1>6, <1>9, <3>1 DEF IInv, Captured
    <3>2. CASE k = n + 1
      BY <1>1, <1>2, <1>6, <1>8, <1>9, <3>2
    <3> QED BY <1>9, <1>10, <3>1, <3>2
  <2> QED BY <1>9, <2>2, <2>3 DEF Captured
<1>14. Untouched'
  <2> SUFFICES ASSUME NEW q \in untouched'
               PROVE  /\ alive' /\ \E j \in DOMAIN regions' : regions'[j] = MapLine(q)'
                      /\ q \notin Specials /\ space'[q].readable =>
                           \A j \in 1 .. r' - 1 : regions'[j].start = q =>
                             \E k \in DOMAIN captured' : captured'[k] = Pages(q)'
    BY DEF Untouched
  <2>1. MapLine(q)' = MapLine(q) /\ Pages(q)' = Pages(q)
    BY <1>1 DEF MapLine, Pages
  <2>2. /\ alive /\ \E j \in DOMAIN regions : regions[j] = MapLine(q)
        /\ q \notin Specials /\ space[q].readable =>
             \A j \in 1 .. r - 1 : regions[j].start = q =>
               \E k \in DOMAIN captured : captured[k] = Pages(q)
    BY <1>1, <1>6 DEF IInv, Untouched
  <2>3. ASSUME regions[r].start = q PROVE captured'[n + 1] = Pages(q)
    <3>1. alive /\ line = MapLine(q) /\ line.start = q
      BY <1>1, <1>2, <2>3, LineIsTrue
    <3>2. line.readable /\ PagesRead(line) = line.pages
      BY <1>1, <1>2, <3>1, PagesReadIs DEF Skipped
    <3>3. line.pages = space[q].pages
      BY <3>1 DEF MapLine
    <3> QED BY <1>3, <1>9, <3>1, <3>2, <3>3 DEF c, Pages
  <2>4. n + 1 \in DOMAIN captured' /\ \A k \in DOMAIN captured : k \in DOMAIN captured'
    BY <1>9
  <2>5. ASSUME q \notin Specials, space[q].readable, NEW j \in 1 .. r' - 1, regions[j].start = q
        PROVE  \E k \in DOMAIN captured' : captured'[k] = Pages(q)
    <3>1. CASE j \in 1 .. r - 1
      BY <1>9, <2>2, <2>4, <2>5, <3>1
    <3>2. CASE j = r
      BY <2>3, <2>4, <2>5, <3>2
    <3> QED BY <1>6, <3>1, <3>2
  <2> QED BY <1>1, <2>1, <2>2, <2>5
<1> QED BY <1>4, <1>5, <1>11, <1>12, <1>13, <1>14 DEF IInv

-----------------------------------------------------------------------------
(* The count                                                               *)

LEMMA WriteCountKeeps ==
  ASSUME IInv, Laid, WriteCount PROVE IInv' /\ Laid'
<1>1. /\ dpc = "regions" /\ r > Len(regions) /\ dpc' = "nil" /\ failed' \in BOOLEAN
      /\ UNCHANGED <<alive, space, changes, untouched, regions, r, captured>>
      /\ file' = WriteAt(file, CountWord, Len(captured)) \/ file' = file
  BY DEF WriteCount, traceeVars, IInv, TypeOK
<1>2. file \in Seq(Nat) /\ Len(captured) \in Nat /\ Len(regions) \in Nat /\ r \in 1 .. Len(regions) + 1
  BY DEF IInv, TypeOK, Captured, Lines
<1>3. file' \in Seq(Nat)
  <2>1. WriteAt(file, CountWord, Len(captured)) \in Seq(Nat)
    <3> DEFINE n == IF Len(file) < CountWord THEN CountWord ELSE Len(file)
    <3>1. n \in Nat
      BY <1>2 DEF CountWord
    <3>2. \A k \in 1 .. n :
            (IF k = CountWord THEN Len(captured) ELSE IF k <= Len(file) THEN file[k] ELSE 0) \in Nat
      BY <1>2
    <3> QED BY <3>1, <3>2 DEF WriteAt
  <2> QED BY <1>1, <1>2, <2>1
<1>4. TypeOK'
  <2>1. \A k \in DOMAIN file' : file'[k] \in Nat
    BY <1>3
  <2> QED BY <1>1, <2>1 DEF IInv, TypeOK
<1>5. Lines' /\ Captured' /\ Edges' /\ Laid'
  BY <1>1, <1>2 DEF IInv, Lines, Captured, Edges, Laid
<1>6. Untouched'
  <2>1. \A q : MapLine(q)' = MapLine(q) /\ Pages(q)' = Pages(q)
    BY <1>1 DEF MapLine, Pages
  <2> QED BY <1>1, <2>1 DEF IInv, Untouched
<1> QED BY <1>3, <1>4, <1>5, <1>6 DEF IInv

LEMMA StepKeeps ==
  ASSUME IInv, Laid, [Next]_vars PROVE IInv' /\ Laid'
<1>1. CASE \E q \in Regions : Unmaps(q) \/ Maps(q) \/ Writes(q)
  BY <1>1, UnmapsKeeps, MapsKeeps, WritesKeeps
<1>2. CASE Exits
  BY <1>2, ExitsKeeps
<1>3. CASE Dump
  BY <1>3, ReadMapsKeeps, CreateKeeps, DumpFailsKeeps, SkipRegionKeeps, ReadRegionKeeps,
     ReadFailsKeeps, WriteCountKeeps DEF Dump
<1>4. CASE UNCHANGED vars
  <2>1. UNCHANGED <<alive, space, changes, untouched, dpc, regions, r, file, failed, captured>>
    BY <1>4 DEF vars, traceeVars, dumpVars
  <2>2. TypeOK' /\ Lines' /\ Captured' /\ Edges' /\ file' \in Seq(Nat)
    BY <2>1 DEF IInv, TypeOK, Lines, Captured, Edges
  <2>3. Laid'
    BY <2>1 DEF Laid, Lies, EntryLies
  <2>4. Untouched'
    <3>1. \A q : MapLine(q)' = MapLine(q) /\ Pages(q)' = Pages(q)
      BY <2>1 DEF MapLine, Pages
    <3> QED BY <2>1, <3>1 DEF IInv, Untouched
  <2> QED BY <2>2, <2>3, <2>4 DEF IInv
<1> QED BY <1>1, <1>2, <1>3, <1>4 DEF Next

(* Every state of a dump is of its type: the next region is one of those   *)
(* readMaps listed or the one behind them, and no entry that was captured  *)
(* is empty or longer than a region.                                       *)
THEOREM TypeCorrect == Spec => []TypeOK
<1>1. Init => IInv /\ Laid
  BY InitHolds
<1>2. IInv /\ Laid /\ [Next]_vars => (IInv /\ Laid)'
  BY StepKeeps
<1>3. IInv => TypeOK
  BY DEF IInv
<1> QED BY <1>1, <1>2, <1>3, PTL DEF Spec

(* When Dump has returned, what was left alone has been captured once.     *)
LEMMA UntouchedIsCaptured ==
  ASSUME IInv, dpc = "nil", NEW q \in untouched \ Specials, space[q].readable
  PROVE  Cardinality({k \in DOMAIN captured : captured[k] = Pages(q)}) = 1
<1>1. PICK j \in DOMAIN regions : regions[j] = MapLine(q)
  BY DEF IInv, Untouched
<1>2. j \in 1 .. r - 1 /\ regions[j].start = q
  <2>1. regions \in Seq(Line) /\ r = Len(regions) + 1
    BY DEF IInv, Lines, Edges
  <2> QED BY <1>1, <2>1 DEF MapLine
<1>3. PICK k \in DOMAIN captured : captured[k] = Pages(q)
  BY <1>2 DEF IInv, Untouched
<1>4. ASSUME NEW l \in DOMAIN captured, captured[l] = Pages(q) PROVE l = k
  <2>1. captured \in Seq(Capture)
    BY DEF IInv, Captured
  <2>2. k \in Nat /\ l \in Nat /\ captured[k] \in Capture
    BY <2>1
  <2>3. captured[k].start \in Nat /\ captured[l].start = captured[k].start
    BY <1>3, <1>4, <2>2, Constants DEF Capture
  <2>4. ~(captured[k].start < captured[l].start) /\ ~(captured[l].start < captured[k].start)
    BY <2>3
  <2>5. ~(k < l) /\ ~(l < k)
    BY <2>4 DEF IInv, Captured
  <2> QED BY <2>2, <2>5
<1>5. {l \in DOMAIN captured : captured[l] = Pages(q)} = {k}
  BY <1>3, <1>4
<1> QED BY <1>5, FS_Singleton

-----------------------------------------------------------------------------
(* Induction over the numbers, by the least one that is not in a set.      *)

LEMMA Least ==
  ASSUME NEW T \in SUBSET Nat, T # {} PROVE \E x \in T : \A y \in T : x <= y
<1> DEFINE R == OpToRel(<, Nat)
<1>1. IsWellFoundedOn(R, Nat)
  BY NatLessThanWellFounded, Zenon
<1>2. \A x, y \in Nat : <<x, y>> \in R <=> x < y
  BY DEF OpToRel
<1> HIDE DEF R
<1>3. PICK x \in T : \A y \in T : ~(<<y, x>> \in R)
  BY <1>1, WFMin
<1>4. ASSUME NEW y \in T PROVE x <= y
  <2>1. x \in Nat /\ y \in Nat /\ ~(y < x)
    BY <1>2, <1>3
  <2> QED BY <2>1
<1> QED BY <1>4

LEMMA Induct ==
  ASSUME NEW T, 0 \in T, \A n \in Nat : n \in T => n + 1 \in T PROVE Nat \subseteq T
<1> SUFFICES ASSUME Nat \ T # {} PROVE FALSE
  OBVIOUS
<1>1. PICK x \in Nat \ T : \A y \in Nat \ T : x <= y
  BY Least
<1>2. x # 0 /\ x - 1 \in Nat /\ ~(x <= x - 1)
  BY <1>1
<1>3. x - 1 \in T
  BY <1>1, <1>2
<1> QED BY <1>1, <1>2, <1>3

(* The places of the entries of a file, up to entry n.                     *)
UpTo(w, h, n) == h = [k \in 0 .. n |-> IF k = 0 THEN Len(Header) + 1 ELSE After(w, h[k - 1])]

LEMMA PlacesExist ==
  ASSUME NEW w PROVE \A n \in Nat : \E h : UpTo(w, h, n)
<1> DEFINE T == {n \in Nat : \E h : UpTo(w, h, n)}
<1>1. 0 \in T
  <2> DEFINE h == [k \in 0 .. 0 |-> Len(Header) + 1]
  <2>1. h = [k \in 0 .. 0 |-> IF k = 0 THEN Len(Header) + 1 ELSE After(w, h[k - 1])]
    OBVIOUS
  <2> QED BY <2>1 DEF UpTo
<1>2. ASSUME NEW n \in Nat, n \in T PROVE n + 1 \in T
  <2>1. PICK h : UpTo(w, h, n)
    BY <1>2
  <2> DEFINE g == [k \in 0 .. n + 1 |-> IF k = n + 1 THEN After(w, h[n]) ELSE h[k]]
  <2>2. ASSUME NEW k \in 0 .. n + 1
        PROVE  g[k] = IF k = 0 THEN Len(Header) + 1 ELSE After(w, g[k - 1])
    <3>1. CASE k = n + 1
      <4>1. g[k] = After(w, h[n]) /\ k # 0 /\ k - 1 = n /\ n \in 0 .. n + 1 /\ n # n + 1
        BY <3>1
      <4>2. g[n] = h[n]
        BY <4>1
      <4> QED BY <4>1, <4>2
    <3>2. CASE k \in 0 .. n /\ k # 0
      <4>1. k # n + 1 /\ k - 1 # n + 1 /\ k - 1 \in 0 .. n + 1
        BY <3>2
      <4>2. g[k] = h[k] /\ g[k - 1] = h[k - 1]
        BY <4>1
      <4>3. h[k] = After(w, h[k - 1])
        BY <2>1, <3>2 DEF UpTo
      <4> QED BY <3>2, <4>2, <4>3
    <3>3. CASE k = 0
      <4>1. g[0] = h[0]
        OBVIOUS
      <4>2. h[0] = Len(Header) + 1
        BY <2>1 DEF UpTo
      <4> QED BY <3>3, <4>1, <4>2
    <3> QED BY <3>1, <3>2, <3>3
  <2>3. g = [k \in 0 .. n + 1 |-> g[k]]
    OBVIOUS
  <2> HIDE DEF g
  <2>4. UpTo(w, g, n + 1)
    BY <2>2, <2>3 DEF UpTo
  <2> QED BY <2>4
<1> HIDE DEF T
<1>3. Nat \subseteq T
  BY <1>1, <1>2, Induct
<1> QED BY <1>3 DEF T

LEMMA PlacesAgree ==
  ASSUME NEW w, NEW h, NEW g, NEW n \in Nat, UpTo(w, h, n), UpTo(w, g, n + 1)
  PROVE  h[n] = g[n]
<1> DEFINE T == {k \in Nat : k <= n => h[k] = g[k]}
<1>1. 0 \in T
  BY DEF UpTo
<1>2. ASSUME NEW k \in Nat, k \in T PROVE k + 1 \in T
  <2> SUFFICES ASSUME k + 1 <= n PROVE h[k + 1] = g[k + 1]
    OBVIOUS
  <2>1. k <= n /\ k + 1 # 0 /\ k + 1 \in 0 .. n /\ k + 1 \in 0 .. n + 1 /\ k + 1 - 1 = k
    OBVIOUS
  <2>2. h[k] = g[k]
    BY <1>2, <2>1
  <2> QED BY <2>1, <2>2 DEF UpTo
<1> HIDE DEF T
<1>3. Nat \subseteq T
  BY <1>1, <1>2, Induct
<1> QED BY <1>3 DEF T

(* EntryAt is defined: each entry is behind the one before it.             *)
LEMMA EntryAtUnfolds ==
  ASSUME NEW w
  PROVE  /\ EntryAt(w)[0] = Len(Header) + 1
         /\ \A k \in Nat : EntryAt(w)[k + 1] = After(w, EntryAt(w)[k])
<1> DEFINE H(n) == CHOOSE h : UpTo(w, h, n)
           F == [k \in Nat |-> H(k)[k]]
<1>1. \A n \in Nat : UpTo(w, H(n), n)
  BY PlacesExist
<1> HIDE DEF H
<1>2. F[0] = Len(Header) + 1
  BY <1>1 DEF UpTo
<1>3. ASSUME NEW k \in Nat, k # 0 PROVE F[k] = After(w, F[k - 1])
  <2>1. k - 1 \in Nat /\ k \in 0 .. k /\ k - 1 + 1 = k
    BY <1>3
  <2>2. H(k)[k] = After(w, H(k)[k - 1])
    BY <1>1, <1>3, <2>1 DEF UpTo
  <2>3. UpTo(w, H(k - 1), k - 1) /\ UpTo(w, H(k), k - 1 + 1)
    BY <1>1, <2>1
  <2>4. H(k - 1)[k - 1] = H(k)[k - 1]
    BY <2>1, <2>3, PlacesAgree
  <2> QED BY <2>1, <2>2, <2>4
<1>4. F = [k \in Nat |-> F[k]]
  OBVIOUS
<1> HIDE DEF F
<1>5. F = [k \in Nat |-> IF k = 0 THEN Len(Header) + 1 ELSE After(w, F[k - 1])]
  BY <1>2, <1>3, <1>4
<1>6. EntryAt(w) = [k \in Nat |-> IF k = 0 THEN Len(Header) + 1 ELSE After(w, EntryAt(w)[k - 1])]
  BY <1>5 DEF EntryAt
<1>7. EntryAt(w)[0] = Len(Header) + 1
  BY <1>6
<1>8. ASSUME NEW k \in Nat PROVE EntryAt(w)[k + 1] = After(w, EntryAt(w)[k])
  <2>1. k + 1 \in Nat /\ k + 1 # 0 /\ k + 1 - 1 = k
    OBVIOUS
  <2> QED BY <1>6, <2>1
<1> QED BY <1>7, <1>8

-----------------------------------------------------------------------------
(* Reading the file back                                                   *)

(* In a file that is laid out, with the count written into it, the places  *)
(* that are found by the lengths are those where the entries were put.     *)
LEMMA CountedReadsBack ==
  ASSUME IInv, Laid, dpc = "regions", ~failed,
         NEW w, w = WriteAt(file, CountWord, Len(captured))
  PROVE  EntryAt(w)[Len(captured)] = Len(w) + 1 /\ ReadBack(w, Len(captured)) = captured
<1>1. file \in Seq(Nat) /\ captured \in Seq(Capture)
  BY DEF IInv, Captured
<1>2. PICK n \in Nat : n = Len(captured)
  BY <1>1
<1>3. PICK m \in Nat : m = Len(file)
  BY <1>1
<1>4. PICK pos \in Seq(Nat) : Lies(pos)
  BY DEF Laid
<1>5. /\ Len(pos) = n + 1 /\ pos[1] = 7 /\ m >= 6 + n /\ pos[n + 1] = m + 1
      /\ \A k \in 1 .. n : EntryLies(k, pos)
      /\ \A k \in 1 .. 6 : file[k] = Header[k]
  BY <1>2, <1>3, <1>4, HeaderIs DEF Lies, Laid
<1>6. w = [k \in 1 .. m |-> IF k = 6 THEN n ELSE file[k]]
  <2>1. ~(m < 6) /\ \A k \in 1 .. m : k <= m
    BY <1>5
  <2> QED BY <1>2, <1>3, <2>1 DEF WriteAt, CountWord
<1>7. /\ Len(w) = m /\ w[6] = n /\ 6 \in 1 .. m
      /\ \A k \in 1 .. m : k # 6 => w[k] = file[k]
  BY <1>5, <1>6
(* An entry is behind the count.                                           *)
<1>9. ASSUME NEW k \in 1 .. n
      PROVE  /\ pos[k] \in Nat /\ captured[k].data \in Seq(Nat)
             /\ w[pos[k]] = captured[k].start /\ w[pos[k] + 4] = Len(captured[k].data)
             /\ pos[k + 1] = After(w, pos[k])
             /\ \A p \in 1 .. Len(captured[k].data) : w[pos[k] + 4 + p] = captured[k].data[p]
  <2>1. captured[k] \in Capture /\ captured[k].data \in Seq(Nat)
    <3>1. captured[k] \in Capture
      BY <1>1, <1>2
    <3> QED BY <3>1 DEF Capture
  <2>2. PICK l \in Nat : l = Len(captured[k].data)
    BY <2>1
  <2>3. k \in 1 .. n + 1 /\ k + 1 \in 1 .. n + 1
    OBVIOUS
  <2>4. pos[k] \in Nat /\ pos[k + 1] \in Nat
    BY <1>5, <2>3
  <2>5. PICK at \in Nat : at = pos[k]
    BY <2>4
  <2>6. /\ 6 < at /\ pos[k + 1] = at + 5 + l /\ at + 5 + l <= m + 1
        /\ file[at] = captured[k].start /\ file[at + 4] = l
        /\ \A p \in 1 .. l : file[at + 4 + p] = captured[k].data[p]
    BY <1>3, <1>5, <2>2, <2>5, HeaderIs DEF EntryLies
  <2>7. /\ at \in 1 .. m /\ at # 6 /\ at + 4 \in 1 .. m /\ at + 4 # 6
    BY <2>6
  <2>8. \A p \in 1 .. l : at + 4 + p \in 1 .. m /\ at + 4 + p # 6
    BY <2>6
  <2>9. /\ w[at] = captured[k].start /\ w[at + 4] = l
        /\ \A p \in 1 .. l : w[at + 4 + p] = captured[k].data[p]
    BY <1>7, <2>6, <2>7, <2>8
  <2>10. After(w, at) = at + 5 + l
    BY <1>7, <2>7, <2>9 DEF After
  <2> QED BY <2>1, <2>2, <2>4, <2>5, <2>6, <2>9, <2>10
<1>10. \A k \in Nat : k <= n => EntryAt(w)[k] = pos[k + 1]
  <2> DEFINE T == {k \in Nat : k <= n => EntryAt(w)[k] = pos[k + 1]}
  <2>1. 0 \in T
    <3>1. EntryAt(w)[0] = Len(Header) + 1
      BY EntryAtUnfolds
    <3>2. Len(Header) + 1 = 7
      BY HeaderIs
    <3>3. pos[0 + 1] = 7
      BY <1>5
    <3> QED BY <3>1, <3>2, <3>3
  <2>2. ASSUME NEW k \in Nat, k \in T PROVE k + 1 \in T
    <3> SUFFICES ASSUME k + 1 <= n PROVE EntryAt(w)[k + 1] = pos[k + 1 + 1]
      OBVIOUS
    <3>1. k + 1 \in 1 .. n /\ k <= n
      OBVIOUS
    <3>2. EntryAt(w)[k] = pos[k + 1]
      BY <2>2, <3>1
    <3>3. pos[k + 1 + 1] = After(w, pos[k + 1])
      BY <1>9, <3>1
    <3> QED BY <3>2, <3>3, EntryAtUnfolds
  <2> HIDE DEF T
  <2>3. Nat \subseteq T
    BY <2>1, <2>2, Induct
  <2> QED BY <2>3 DEF T
<1> DEFINE Back(k) == LET at == EntryAt(w)[k - 1]
                      IN  [start |-> w[at], data |-> SubSeq(w, at + 5, at + 4 + w[at + 4])]
<1>11. ASSUME NEW k \in 1 .. n PROVE Back(k) = captured[k]
  <2>1. PICK at \in Nat : at = pos[k]
    BY <1>9
  <2>2. PICK data \in Seq(Nat) : data = captured[k].data
    BY <1>9
  <2>3. PICK l \in Nat : l = Len(data)
    BY <2>2
  <2>4. EntryAt(w)[k - 1] = at
    <3>1. k - 1 \in Nat /\ k - 1 <= n /\ k - 1 + 1 = k
      OBVIOUS
    <3> QED BY <1>10, <2>1, <3>1
  <2>5. /\ w[at] = captured[k].start /\ w[at + 4] = l
        /\ \A p \in 1 .. l : w[at + 4 + p] = data[p]
    BY <1>9, <2>1, <2>2, <2>3
  <2>6. SubSeq(w, at + 5, at + 4 + l) = data
    <3>1. SubSeq(w, at + 5, at + 4 + l) = [p \in 1 .. l |-> w[at + 4 + p]]
      <4>1. at + 4 + l - (at + 5) + 1 = l
        OBVIOUS
      <4>2. \A p \in 1 .. l : p + (at + 5) - 1 = at + 4 + p
        OBVIOUS
      <4> QED BY <4>1, <4>2 DEF SubSeq
    <3>2. data = [p \in 1 .. l |-> data[p]]
      BY <2>3
    <3> QED BY <2>5, <3>1, <3>2
  <2>7. captured[k] = [start |-> captured[k].start, data |-> data]
    <3>1. captured[k] \in Capture
      BY <1>1, <1>2
    <3> QED BY <2>2, <3>1 DEF Capture
  <2> QED BY <2>4, <2>5, <2>6, <2>7
<1>12. ReadBack(w, n) = captured
  <2>1. ReadBack(w, n) = [k \in 1 .. n |-> Back(k)]
    BY DEF ReadBack
  <2>2. captured = [k \in 1 .. n |-> captured[k]]
    BY <1>1, <1>2
  <2> QED BY <1>11, <2>1, <2>2
<1>13. EntryAt(w)[n] = m + 1
  BY <1>5, <1>10
<1> QED BY <1>2, <1>7, <1>12, <1>13

(* The entries of a dump to whose file every Write went through follow     *)
(* each other to the end of the file, each at the place that the lengths   *)
(* before it give, and read back to what was captured, for any number of   *)
(* regions of any size: the count that is written at the end meets none.   *)
THEOREM DumpReadsBack == Spec => []EntriesReadBack
<1>1. Init => IInv /\ Laid /\ EntriesReadBack
  BY InitHolds DEF Init, EntriesReadBack
<1>2. IInv /\ Laid /\ EntriesReadBack /\ [Next]_vars => (IInv /\ Laid /\ EntriesReadBack)'
  <2> SUFFICES ASSUME IInv, Laid, EntriesReadBack, [Next]_vars PROVE EntriesReadBack'
    BY StepKeeps
  <2>1. CASE UNCHANGED vars
    BY <2>1 DEF vars, dumpVars, EntriesReadBack, Entries
  <2>2. CASE WriteCount
    <3> SUFFICES ASSUME ~failed' PROVE EntriesReadBack'
      BY DEF EntriesReadBack
    <3>1. /\ dpc = "regions" /\ ~failed /\ captured' = captured
          /\ file' = WriteAt(file, CountWord, Len(captured))
      BY <2>2 DEF WriteCount
    <3>2. PICK w : w = WriteAt(file, CountWord, Len(captured))
      OBVIOUS
    <3>3. EntryAt(w)[Len(captured)] = Len(w) + 1 /\ ReadBack(w, Len(captured)) = captured
      BY <3>1, <3>2, CountedReadsBack
    <3>4. file' = w
      BY <3>1, <3>2
    <3> QED BY <3>1, <3>3, <3>4 DEF EntriesReadBack, Entries
  <2>3. CASE Next /\ ~WriteCount
    <3>1. ASSUME NEW q \in Regions, Unmaps(q) \/ Maps(q) \/ Writes(q) PROVE dpc' # "nil"
      BY <3>1 DEF Unmaps, Maps, Writes, Tracee, dumpVars
    <3>2. ASSUME Exits PROVE dpc' # "nil"
      BY <3>2 DEF Exits, Tracee, dumpVars
    <3>3. ASSUME Dump PROVE dpc' # "nil"
      BY <2>3, <3>3 DEF Dump, ReadMaps, Create, DumpFails, SkipRegion, ReadRegion, ReadFails, AtRegion
    <3> QED BY <2>3, <3>1, <3>2, <3>3 DEF Next, EntriesReadBack
  <2> QED BY <2>1, <2>2, <2>3
<1>3. IInv /\ Laid /\ EntriesReadBack => EntriesReadBack
  OBVIOUS
<1> QED BY <1>1, <1>2, <1>3, PTL DEF Spec

(* When Dump has returned and no Write has failed, every region that was   *)
(* mapped and readable when readMaps read the maps, that is not special    *)
(* and that the tracee has left alone is an entry of the file, once, whole *)
(* and as it is, whatever became of the regions around it.                 *)
THEOREM DumpIsComplete == Spec => []UntouchedIsInFile
<1>1. Init => IInv /\ Laid
  BY InitHolds
<1>2. IInv /\ Laid /\ [Next]_vars => (IInv /\ Laid)'
  BY StepKeeps
<1>3. IInv /\ EntriesReadBack => UntouchedIsInFile
  <2> SUFFICES ASSUME IInv, Entries = captured, dpc = "nil",
                      NEW q \in untouched \ Specials, space[q].readable
               PROVE  Cardinality({k \in DOMAIN Entries : Entries[k] = Pages(q)}) = 1
    BY DEF EntriesReadBack, UntouchedIsInFile, Pages
  <2> QED BY UntouchedIsCaptured
<1> QED BY <1>1, <1>2, <1>3, DumpReadsBack, PTL DEF Spec
=============================================================================
