------------------------------ MODULE DumpFile ------------------------------
(***************************************************************************)
(* memory.Dump, on a goroutine of its own (F3), against a tracee that runs *)
(* meanwhile: between the reading of /proc/pid/maps and the reading of a   *)
(* region the tracee may unmap it or a part of it, map something else in   *)
(* its place, forbid reading it, write to it or exit; and the disk may     *)
(* fill up.                                                                *)
(*                                                                         *)
(* The file is a sequence of words; a word stands for a field of an entry, *)
(* a page of data, or 4 bytes of the header, whose byte 20 is in word 6.   *)
(***************************************************************************)
EXTENDS Naturals, Sequences, FiniteSets

CONSTANTS
  MaxRegion,   \* regions of the address space: 1 .. MaxRegion, by address
  Size,        \* pages of a region
  Specials,    \* the regions that Special skips: no path, "[...]", /dev/, /memfd:
  MaxChanges   \* bound: what the tracee does to its memory during the dump

ASSUME DumpAssumption ==
  /\ {MaxRegion, MaxChanges} \subseteq Nat /\ Size \in Nat \ {0}
  /\ Specials \subseteq 1 .. MaxRegion

Regions == 1 .. MaxRegion

VARIABLES
  alive, space, changes,  \* the tracee: its memory, what it did to it
  dpc,                    \* Dump
  regions, r,             \* what readMaps returned; the next of it
  file,                   \* the dump file
  failed,                 \* history: a Write wrote less than it was given
  captured,               \* history: what ReadBytes returned
  untouched               \* history: regions left alone since readMaps

traceeVars == <<alive, space, changes, untouched>>
dumpVars   == <<dpc, regions, r, file, failed, captured>>
vars == <<traceeVars, dumpVars>>

(* A region: the pages mapped from its start on, r in its permissions,     *)
(* what its pages hold.                                                    *)
Region == [pages : 0 .. Size, readable : BOOLEAN, holds : Nat]

Init ==
  /\ alive = TRUE /\ changes = 0
  /\ space \in [Regions -> [pages : {0, Size}, readable : BOOLEAN, holds : {0}]]
  /\ untouched = Regions
  /\ dpc = "maps" /\ regions = <<>> /\ r = 1
  /\ file = <<>> /\ failed = FALSE /\ captured = <<>>

-----------------------------------------------------------------------------
(* The tracee                                                              *)

Tracee(touched) ==
  /\ alive /\ changes < MaxChanges /\ dpc \in {"maps", "create", "regions"}
  /\ changes' = changes + 1
  /\ untouched' = untouched \ touched
  /\ UNCHANGED dumpVars

Unmaps(q) ==
  /\ Tracee({q})
  /\ \E n \in 0 .. space[q].pages : space' = [space EXCEPT ![q].pages = n]
  /\ UNCHANGED alive

Maps(q) ==
  /\ Tracee({q})
  /\ \E b \in BOOLEAN :
       space' = [space EXCEPT ![q] = [pages |-> Size, readable |-> b, holds |-> changes']]
  /\ UNCHANGED alive

Writes(q) ==
  /\ Tracee({q})
  /\ space[q].pages > 0
  /\ space' = [space EXCEPT ![q].holds = changes']
  /\ UNCHANGED alive

Exits ==
  /\ Tracee(Regions)
  /\ alive' = FALSE
  /\ space' = [q \in Regions |-> [space[q] EXCEPT !.pages = 0]]

-----------------------------------------------------------------------------
(* Dump                                                                    *)

(* Start, End, Perms and Path of a line of maps.                           *)
MapLine(q) == [start |-> q, pages |-> space[q].pages, readable |-> space[q].readable]

(* The kernel lists the regions by address.                                *)
ReadMaps ==
  /\ dpc = "maps" /\ alive
  /\ untouched' = {q \in Regions : space[q].pages > 0}
  /\ \E lines \in [1 .. Cardinality(untouched') -> untouched'] :
       /\ \A k, l \in DOMAIN lines : k < l => lines[k] < lines[l]
       /\ regions' = [k \in DOMAIN lines |-> MapLine(lines[k])]
  /\ dpc' = "create"
  /\ UNCHANGED <<alive, space, changes, r, file, failed, captured>>

(* A Write may write nothing or a part (here: half); Dump does not look at *)
(* what it returns.                                                        *)
Written(words) ==
  \E n \in {0, Len(words) \div 2, Len(words)} :
    /\ file' = file \o SubSeq(words, 1, n)
    /\ failed' = (failed \/ n < Len(words))

(* magic, version, the time in two words, the pid in two words             *)
Header == <<71, 1, 0, 0, 1, 0>>

Create ==
  /\ dpc = "create"
  /\ Written(Header)
  /\ dpc' = "regions"
  /\ UNCHANGED <<traceeVars, regions, r, captured>>

(* readMaps or os.Create fails.                                            *)
DumpFails ==
  /\ (dpc = "maps" /\ ~alive) \/ dpc = "create"
  /\ dpc' = "error"
  /\ UNCHANGED <<traceeVars, regions, r, file, failed, captured>>

AtRegion == dpc = "regions" /\ r <= Len(regions)
Skipped(line) == ~line.readable \/ line.start \in Specials

SkipRegion ==
  /\ AtRegion /\ Skipped(regions[r])
  /\ r' = r + 1
  /\ UNCHANGED <<traceeVars, dpc, regions, file, failed, captured>>

(* process_vm_readv reads up to the first page it cannot.                  *)
Readable(line) ==
  IF alive /\ space[line.start].readable
  THEN {space[line.start].pages, line.pages}
  ELSE {0}
PagesRead(line) == CHOOSE n \in Readable(line) : \A k \in Readable(line) : n <= k

EntryOfRegion(line, data) ==             \* mutant: the length of the region
  <<line.start, line.start + line.pages, 4, 4, line.pages>> \o data
Entry(line, data) ==
  <<line.start, line.start + line.pages, 4, 4, Len(data)>> \o data

ReadRegion ==
  /\ AtRegion /\ ~Skipped(regions[r])
  /\ LET line == regions[r]
         data == [k \in 1 .. PagesRead(line) |-> space[line.start].holds]
     IN /\ data # <<>>
        /\ captured' = Append(captured, [start |-> line.start, data |-> data])
        /\ Written(Entry(line, data))
  /\ r' = r + 1
  /\ UNCHANGED <<traceeVars, dpc, regions>>

ErrorRetries == UNCHANGED r              \* mutant: the region is tried again
ErrorBreaks  == r' = Len(regions) + 1    \* mutant: break instead of continue
ErrorSkipsTwo == r' = r + 2              \* mutant: a manual index, advanced twice
ErrorContinues == r' = r + 1

ReadFails ==
  /\ AtRegion /\ ~Skipped(regions[r])
  /\ PagesRead(regions[r]) = 0
  /\ ErrorContinues
  /\ UNCHANGED <<traceeVars, dpc, regions, file, failed, captured>>

\* regionOffset - 4 = 20: the upper half of the pid
CountWord == 6

(* A file that is shorter is filled with zeros.                            *)
WriteAt(w, at, x) ==
  [k \in 1 .. (IF Len(w) < at THEN at ELSE Len(w)) |->
     IF k = at THEN x ELSE IF k <= Len(w) THEN w[k] ELSE 0]

WriteCount ==
  /\ dpc = "regions" /\ r > Len(regions)
  /\ \/ /\ file' = WriteAt(file, CountWord, Len(captured))
        /\ UNCHANGED failed
     \/ /\ failed' = TRUE /\ UNCHANGED file
  /\ dpc' = "nil"
  /\ UNCHANGED <<traceeVars, regions, r, captured>>

Dump == \/ ReadMaps \/ Create \/ DumpFails
        \/ SkipRegion \/ ReadRegion \/ ReadFails \/ WriteCount
Next == \/ \E q \in Regions : Unmaps(q) \/ Maps(q) \/ Writes(q)
        \/ Exits \/ Dump

(* The goroutine is scheduled; nothing makes the tracee run.               *)
Spec == Init /\ [][Next]_vars /\ WF_vars(Dump)

-----------------------------------------------------------------------------
TypeOK ==
  /\ alive \in BOOLEAN /\ space \in [Regions -> Region] /\ changes \in 0 .. MaxChanges
  /\ untouched \subseteq Regions
  /\ dpc \in {"maps", "create", "regions", "nil", "error"}
  /\ \A k \in DOMAIN regions :
       regions[k] \in [start : Regions, pages : 1 .. Size, readable : BOOLEAN]
  /\ r \in 1 .. Len(regions) + 1
  /\ failed \in BOOLEAN /\ \A k \in DOMAIN file : file[k] \in Nat
  /\ \A k \in DOMAIN captured :
       captured[k].start \in Regions /\ Len(captured[k].data) \in 1 .. Size

(* Reading a dump file back: n entries behind what Dump writes of the      *)
(* header, each as long as its own length word says; EntryAt(w)[k] is      *)
(* where the one after entry k begins.                                     *)
After(w, at) == IF at + 4 \in DOMAIN w THEN at + 5 + w[at + 4] ELSE at

EntryAt(w) ==
  LET at[k \in Nat] == IF k = 0 THEN Len(Header) + 1 ELSE After(w, at[k - 1])
  IN at

ReadBack(w, n) ==
  [k \in 1 .. n |->
     LET at == EntryAt(w)[k - 1]
     IN [start |-> w[at], data |-> SubSeq(w, at + 5, at + 4 + w[at + 4])]]

Entries == ReadBack(file, Len(captured))

(* In a file that Dump completed without a failed Write the entries follow *)
(* each other to its very end, and read back to what was captured, though  *)
(* the length of every entry depends on how much of the region was still   *)
(* there, and the count is written last, somewhere in front of them.       *)
EntriesReadBack ==
  (dpc = "nil" /\ ~failed) =>
    /\ EntryAt(file)[Len(captured)] = Len(file) + 1
    /\ Entries = captured

(* "Write region count back at offset 24" (of a header of 28 bytes): the   *)
(* word there is the number of the entries.                                *)
CountIsAtOffset24 ==
  (dpc = "nil" /\ ~failed /\ captured # <<>>) => file[7] = Len(captured)

(* Dump leaves out nothing but what it has to: a readable region that is   *)
(* not special, and that the tracee leaves alone from the reading of maps  *)
(* on, is in the file whole, once and with its contents, whatever happens  *)
(* to the regions before it, unless a Write fails.  Of a tracee that is    *)
(* frozen every such region is.                                            *)
UntouchedIsInFile ==
  (dpc = "nil" /\ ~failed) =>
    \A q \in untouched \ Specials :
      space[q].readable =>
        Cardinality({k \in DOMAIN Entries :
          Entries[k] = [start |-> q, data |-> [p \in 1 .. space[q].pages |-> space[q].holds]]}) = 1

(* Dump returns, whatever the tracee does meanwhile.                       *)
DumpEnds == <>(dpc \in {"nil", "error"})
=============================================================================
