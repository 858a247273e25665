--------------------------------- MODULE Ntfs ----------------------------------
(***************************************************************************)
(* The NTFS reader (HsCore/HsCore/Ntfs.c, Ntfs.h): it reads the sectors of *)
(* a volume that Windows goes on using, finds file records through the     *)
(* data runs of the master file table, collects attributes from the base   *)
(* and the extension records of a file, and walks directory indexes.       *)
(*                                                                         *)
(* A volume is a record:                                                   *)
(*   valid         the boot sector has the marks of NTFS                   *)
(*   spc           SectorsPerCluster                                       *)
(*   recordCode, indexCode   ClustersPerFileRecord, ClustersPerIndexBlock  *)
(*   layout        the extents of the table, <<first cluster, clusters>>   *)
(*   disk          what each sector holds, [owner, part]: part 0, 1, ...   *)
(*                 of a file record <<"rec", n>>, of an index block        *)
(*                 <<"blk", v>>, or of a data stream <<"data", id>>        *)
(*   rec, blk      the file records and the index blocks; attributes that  *)
(*                 are not resident have their extents besides their runs  *)
(*   under         the files in an index block and below it                *)
(* "files" and "index" of a directory's record are all of its files and    *)
(* the sectors of its index allocation.                                    *)
(* The last word of a sector of a record or block is its update sequence   *)
(* number; while Windows rewrites one, its first sector is new and the     *)
(* rest is old.                                                            *)
(***************************************************************************)
EXTENDS Integers, Sequences, FiniteSets, SequencesExt

CONSTANTS
  Volumes,          \* the volumes to read
  MFT_RECORD_USER,  \* the last record that is read without the data runs
  NoRecord          \* where there is no record, attribute, sub-node or file

BytesPerSector == 512

VARIABLES
  volume,        \* the volume that is read
  torn,          \* the record or block that is being rewritten, if any
  bad,           \* the sector that cannot be read, if any
  status,        \* closed, open, hung in a loop, or the heap is corrupt
  mftDataRuns,   \* MftDataRuns
  answer         \* the last call and what it gave

ntfsVars == <<volume, torn, bad, status, mftDataRuns, answer>>

\* What lies past the end of an attribute list: no entry that ends before the
\* limit, an entry of size 0, or one that names a record.
NoEntry    == -1
EmptyEntry == -2

NoAnswer == [call |-> "none", n |-> 0, junk |-> NoEntry, ok |-> FALSE, out |-> << >>]

-----------------------------------------------------------------------------
(***************************************************************************)
(* Loops over a list: running sums, and how far one goes.                  *)
(***************************************************************************)

\* The sums of the first 0, 1, ... numbers of a sequence.
Sums(numbers) ==
  LET sum[i \in 0 .. Len(numbers)] == IF i = 0 THEN 0 ELSE sum[i - 1] + numbers[i]
  IN sum

\* How many of n elements a loop handles when it ends at the first that fails.
UpTo(n, Fails(_)) ==
  LET failed == {i \in 1 .. n : Fails(i)}
  IN IF failed = {} THEN n ELSE Min(failed) - 1

-----------------------------------------------------------------------------
(***************************************************************************)
(* The geometry of a volume.                                               *)
(***************************************************************************)

\* A positive number counts clusters, any other is the negative of an exponent.
NtfsClustersToBytes(v, code) ==
  IF code > 0 THEN BytesPerSector * v.spc * code ELSE 2 ^ (-code)

SectorCount(v)    == NtfsClustersToBytes(v, v.recordCode) \div BytesPerSector
BlockSectors(v)   == NtfsClustersToBytes(v, v.indexCode) \div BytesPerSector
MftStartSector(v) == v.layout[1][1] * v.spc

\* The sectors of the first i of some extents.
Before(v, extents) == Sums([i \in 1 .. Len(extents) |-> extents[i][2] * v.spc])

\* Those of the table, and the records they hold.
Extent(v) == Before(v, v.layout)

Ids(v) == 0 .. (Extent(v)[Len(v.layout)] \div SectorCount(v)) - 1

\* Extents as data runs.
AsRuns(v, extents) ==
  [i \in 1 .. Len(extents) |->
     [SectorOffset |-> extents[i][1] * v.spc, LengthInSectors |-> extents[i][2] * v.spc]]

Layout(v) == AsRuns(v, v.layout)

\* Record n is in the i-th extent; its first sector there; the sectors from "at"
\* on are those of the record, and no others are.
LiesIn(v, n, i) ==
  Extent(v)[i - 1] <= n * SectorCount(v) /\ (n + 1) * SectorCount(v) <= Extent(v)[i]

StartIn(v, n, i) == v.layout[i][1] * v.spc + (n * SectorCount(v) - Extent(v)[i - 1])

IsAt(v, n, at) ==
  LET sectors == at .. at + SectorCount(v) - 1 IN
  /\ sectors \subseteq DOMAIN v.disk
  /\ \A s \in DOMAIN v.disk : v.disk[s].owner = <<"rec", n>> <=> s \in sectors
  /\ \A s \in sectors : v.disk[s].part = s - at

\* Runs encode extents: an offset is the distance from the extent before as a
\* signed number of 1 to 8 bytes.
Encodes(extents, code) ==
  /\ Len(code) = Len(extents)
  /\ \A i \in 1 .. Len(code) :
       LET distance == extents[i][1] - (IF i = 1 THEN 0 ELSE extents[i - 1][1])
           values   == 2 ^ (8 * code[i].offsetBytes) IN
       /\ code[i].lengthBytes \in 1 .. 8 /\ code[i].offsetBytes \in 1 .. 8
       /\ code[i].length = extents[i][2]
       /\ -values <= 2 * distance /\ 2 * distance < values
       /\ code[i].offset = distance % values

\* What the reader takes for granted of a volume: records of several sectors that
\* no extent cuts, those up to MFT_RECORD_USER in the first extent, and in record
\* 0 the runs of the table, without an attribute list.
WellFormed(v) ==
  /\ v.spc \in Nat \ {0}
  /\ Len(v.layout) \in Nat \ {0}
  /\ \A i \in 1 .. Len(v.layout) : v.layout[i][1] \in Nat /\ v.layout[i][2] \in Nat \ {0}
  /\ SectorCount(v) \in Nat \ {0, 1}
  /\ 0 \in Ids(v)
  /\ \A n \in Ids(v) :
       /\ \E i \in 1 .. Len(v.layout) : LiesIn(v, n, i)
       /\ n <= MFT_RECORD_USER => LiesIn(v, n, 1)
       /\ \A i \in 1 .. Len(v.layout) : LiesIn(v, n, i) => IsAt(v, n, StartIn(v, n, i))
  /\ LET attributes == v.rec[0].attributes IN
     /\ Len(attributes) \in Nat
     /\ \A i \in 1 .. Len(attributes) :
          /\ attributes[i].type # "list"
          /\ attributes[i].type = "data" =>
               ~attributes[i].resident /\ Encodes(v.layout, attributes[i].runs)

\* What the sectors of a data stream hold.
StreamContent(a) == [k \in 1 .. a.sectors |-> [owner |-> <<"data", a.id>>, part |-> k - 1]]

\* An attribute that is not resident leads to sectors that hold "content".
Holds(v, a, content) ==
  LET at == Before(v, a.extents) IN
  /\ Len(a.extents) \in Nat
  /\ \A i \in 1 .. Len(a.extents) : a.extents[i][1] \in Nat /\ a.extents[i][2] \in Nat
  /\ Encodes(a.extents, a.runs)
  /\ Len(content) \in Nat /\ Len(content) <= at[Len(a.extents)]
  /\ \A i \in 1 .. Len(a.extents) : \A k \in 1 .. a.extents[i][2] * v.spc :
       at[i - 1] + k <= Len(content) =>
         LET s == a.extents[i][1] * v.spc + k - 1
         IN s \in DOMAIN v.disk /\ v.disk[s] = content[at[i - 1] + k]

\* The attributes of record m: data is where the runs lead, and only a base record
\* has a list, which names extension records of the file.
RecordIsWellFormed(v, m) ==
  LET attributes == v.rec[m].attributes IN
  /\ Len(attributes) \in Nat
  /\ \A i \in 1 .. Len(attributes) :
       /\ attributes[i].type \in {"data", "list", "root", "alloc"}
       /\ attributes[i].type = "data" /\ m # 0 =>
            /\ attributes[i].sectors \in Nat
            /\ attributes[i].resident \/ Holds(v, attributes[i], StreamContent(attributes[i]))
       /\ attributes[i].type = "list" =>
            /\ v.rec[m].base = 0
            /\ Len(attributes[i].entries) \in Nat
            /\ \A j \in 1 .. Len(attributes[i].entries) :
                 LET r == attributes[i].entries[j].record
                 IN r = m \/ (r \in Ids(v) /\ v.rec[r].base = m)
  /\ \A i, j \in 1 .. Len(attributes) :
       attributes[i].type = "list" /\ attributes[j].type = "list" => i = j

\* Record r is in the list of its base record, for its data.
IsListed(v, r) ==
  LET attributes == v.rec[v.rec[r].base].attributes IN
  \E i \in 1 .. Len(attributes) :
    /\ attributes[i].type = "list"
    /\ \E j \in 1 .. Len(attributes[i].entries) :
         attributes[i].entries[j].record = r /\ attributes[i].entries[j].type = "data"

\* What the reader takes for granted of the files of a volume: streams have names
\* of their own, the list of a file names every extension record with data, and a
\* stream is one attribute.  NTFS may split one over several records (StartVCN,
\* Ntfs.h:170); NtfsGetDataRuns asserts that the runs of an attribute cover its
\* allocated size (Ntfs.c:420), which those of such a part do not, and the walk
\* would give the client each part as a stream.
FilesAreWellFormed(v) ==
  /\ IsFiniteSet(DOMAIN v.rec) /\ Ids(v) \subseteq DOMAIN v.rec
  /\ v.rec[0].base = 0
  /\ \A m \in Ids(v) : RecordIsWellFormed(v, m)
  /\ \A m, r \in Ids(v) :
       \A i \in 1 .. Len(v.rec[m].attributes), j \in 1 .. Len(v.rec[r].attributes) :
         LET a == v.rec[m].attributes[i]
             b == v.rec[r].attributes[j]
         IN a.type = "data" /\ b.type = "data" /\ a.id = b.id => m = r /\ i = j
  /\ \A r \in Ids(v) :
       v.rec[r].base # 0 /\ (\E i \in 1 .. Len(v.rec[r].attributes) : v.rec[r].attributes[i].type = "data")
         => v.rec[r].base \in Ids(v) /\ IsListed(v, r)

\* The block that starts at cluster c of an index, and the files below an entry.
LeadOf(v, index, c) == index[c * v.spc + 1].owner[2]

Below(v, index, entry) ==
  IF entry.sub = NoRecord THEN {} ELSE v.under[LeadOf(v, index, entry.sub)]

\* The sectors of a block start at cluster c of an index.
IsBlock(v, index, c) ==
  LET from == c * v.spc IN
  /\ from \in Nat /\ from + BlockSectors(v) <= Len(index)
  /\ \A k \in 1 .. BlockSectors(v) :
       index[from + k] = [owner |-> <<"blk", LeadOf(v, index, c)>>, part |-> k - 1]

\* "files" are those of some entries and below them, in their order: what is below
\* an entry comes before the file in it, and that before the entries that follow.
IsOrdered(v, index, entries, files) ==
  LET Of(i) == Below(v, index, entries[i]) \cup ({entries[i].file} \ {NoRecord}) IN
  /\ Len(entries) \in Nat
  /\ files \subseteq Nat
  /\ files = UNION {Of(i) : i \in 1 .. Len(entries)}
  /\ \A i, j \in 1 .. Len(entries) : i < j => \A x \in Of(i), y \in Of(j) : x < y
  /\ \A i \in 1 .. Len(entries) : \A x \in Below(v, index, entries[i]) :
       entries[i].file # NoRecord => x < entries[i].file
  /\ \A i \in 1 .. Len(entries) :
       entries[i].sub # NoRecord => IsBlock(v, index, entries[i].sub)

\* What NTFS says of a directory: its index allocation is made of blocks, and the
\* entries of its root and of each block are in order.
IndexIsWellFormed(v, n) ==
  LET index == v.rec[n].index IN
  /\ \A r \in Ids(v) : r = n \/ v.rec[r].base = n =>
       \A i \in 1 .. Len(v.rec[r].attributes) :
         LET a == v.rec[r].attributes[i] IN
         /\ a.type = "root" => IsOrdered(v, index, a.entries, v.rec[n].files)
         /\ a.type = "alloc" => Holds(v, a, index) /\ Len(index) = Before(v, a.extents)[Len(a.extents)]
  /\ \A p \in 1 .. Len(index) :
       \E b \in DOMAIN v.blk :
         index[p].owner = <<"blk", b>> /\ IsOrdered(v, index, v.blk[b], v.under[b])

IndexesAreWellFormed(v) ==
  /\ BlockSectors(v) \in Nat \ {0}
  /\ IsFiniteSet(DOMAIN v.blk) /\ DOMAIN v.blk \subseteq Nat
  /\ \A n \in Ids(v) : "dir" \in v.rec[n].flags => IndexIsWellFormed(v, n)

ASSUME VolumesAssumption ==
  /\ MFT_RECORD_USER \in Nat
  /\ NoRecord \notin Int
  /\ \A v \in Volumes : WellFormed(v) /\ FilesAreWellFormed(v) /\ IndexesAreWellFormed(v)

-----------------------------------------------------------------------------
(***************************************************************************)
(* Sectors.                                                                *)
(***************************************************************************)

\* NtfsReadSector, a callback of the client: all sectors, or a failure.
Readable(start, n) ==
  \A s \in start .. start + n - 1 : s \in DOMAIN volume.disk /\ s \notin bad

NtfsReadSector(start, n) == [k \in 1 .. n |-> volume.disk[start + k - 1]]

\* The last word of a sector.  Sectors of data streams have none that matches.
Usn(sector) ==
  CASE sector.owner[1] = "data" -> "none"
    [] sector.owner \in torn /\ sector.part = 0 -> "new"
    [] OTHER -> "old"

\* Every sector ends with the number in the header, which is in the first.
NtfsPatchUpdateSequence(sectors) ==
  /\ Usn(sectors[1]) # "none"
  /\ \A k \in 1 .. Len(sectors) : Usn(sectors[k]) = Usn(sectors[1])

-----------------------------------------------------------------------------
(***************************************************************************)
(* Data runs, encoded as [lengthBytes, offsetBytes, length, offset], the   *)
(* offset unsigned and relative to the run before it.                      *)
(***************************************************************************)

\* Mutant: the offset is not extended with its sign.
SignExtend_missing(offset, bytes) == offset

\* The highest bit of the last byte is the sign.
SignExtend(offset, bytes) ==
  IF bytes > 0 /\ 2 * offset >= 2 ^ (8 * bytes) THEN offset - 2 ^ (8 * bytes) ELSE offset

\* The runs up to the first with a wrong size or a cluster below 0.
NtfsGetDataRuns(attribute) ==
  LET code == attribute.runs
      at   == Sums([i \in 1 .. Len(code) |-> SignExtend(code[i].offset, code[i].offsetBytes)])
      Corrupt(i) == code[i].lengthBytes \notin 1 .. 8 \/ code[i].offsetBytes > 8 \/ at[i] < 0
  IN [i \in 1 .. UpTo(Len(code), Corrupt) |->
        [SectorOffset |-> at[i] * volume.spc, LengthInSectors |-> code[i].length * volume.spc]]

\* NtfsReadDataRuns stops at the first run that cannot be read.
RunIsReadable(run) == Readable(run.SectorOffset, run.LengthInSectors)

NtfsReadDataRuns(runs) ==
  FlattenSeq([i \in 1 .. UpTo(Len(runs), LAMBDA i : ~RunIsReadable(runs[i])) |->
                NtfsReadSector(runs[i].SectorOffset, runs[i].LengthInSectors)])

NtfsReadNonResidentAttributeData(attribute) == NtfsReadDataRuns(NtfsGetDataRuns(attribute))

AttributeIsReadable(attribute) ==
  attribute.resident \/
    \A i \in 1 .. Len(NtfsGetDataRuns(attribute)) : RunIsReadable(NtfsGetDataRuns(attribute)[i])

-----------------------------------------------------------------------------
(***************************************************************************)
(* File records.                                                           *)
(***************************************************************************)

\* Mutant: the sectors of the runs that are passed over are not taken off.
FindRun_absolute(runs, relative) ==
  LET i == SelectInSeq(runs, LAMBDA run : relative <= run.LengthInSectors)
  IN IF i = 0 THEN -1 ELSE runs[i].SectorOffset + relative

\* The first run whose LengthInSectors is not below what is left of "relative" after
\* the runs before, and the sector in it; -1 when there is none.
FindRun(runs, relative) ==
  LET before   == Sums([i \in 1 .. Len(runs) |-> runs[i].LengthInSectors])
      Left(i)  == relative - before[i - 1]
      fits     == {i \in 1 .. Len(runs) : Left(i) <= runs[i].LengthInSectors}
  IN IF fits = {} THEN -1 ELSE runs[Min(fits)].SectorOffset + Left(Min(fits))

\* The number of the record in some sectors, or none: no FILE record, or an update
\* sequence that does not match.
RecordIn(sectors) ==
  IF /\ sectors[1].owner[1] = "rec" /\ sectors[1].part = 0
     /\ NtfsPatchUpdateSequence(sectors)
  THEN sectors[1].owner[2] ELSE NoRecord

\* The same from sector "start" on, if there is a run and its sectors are read.
RecordAt(start) ==
  IF start >= 0 /\ Readable(start, SectorCount(volume))
    THEN RecordIn(NtfsReadSector(start, SectorCount(volume))) ELSE NoRecord

\* The number of the record read for n.
ReadRecord(runs, n) ==
  RecordAt(IF n <= MFT_RECORD_USER THEN MftStartSector(volume) + n * SectorCount(volume)
                                   ELSE FindRun(runs, n * SectorCount(volume)))

\* What an attribute list can lead to besides attributes: a walk that never
\* ends, and a read that failed, after which the wrong pointer is freed.
Hang  == [type |-> "hang"]
Fault == [type |-> "fault"]

\* Where each entry of a list ends.
Ends(list) == Sums([i \in 1 .. Len(list.entries) |-> list.entries[i].size])

\* The entries the walk of a list reaches: the limit is the size of the
\* attribute, header included, not the size of the data.
Reached(list) == UpTo(Len(list.entries), LAMBDA i : Ends(list)[i] >= list.size)

\* Past the last entry the walk reads memory nobody has written.
RunsOver(list) ==
  Reached(list) = Len(list.entries) /\ Ends(list)[Len(list.entries)] < list.size

\* Contained attributes and those of other types are skipped.
IsWanted(entry, own, mask) == entry.record # own /\ entry.type \in mask

\* Mutant: a record is read once for every entry that names it.
Named_again(list, own, mask) ==
  LET wanted == SelectSeq([i \in 1 .. Reached(list) |-> list.entries[i]],
                          LAMBDA e : IsWanted(e, own, mask))
  IN [k \in 1 .. Len(wanted) |-> wanted[k].record]

\* The records other than "own" that a list names, each once (NtfspIsDuplicate,
\* NtfspAddDuplicate).
Named(list, own, mask) ==
  LET duplicates[i \in 0 .. Reached(list)] ==
        IF i = 0 THEN << >>
        ELSE LET e == list.entries[i]
             IN IF IsWanted(e, own, mask) /\ ~Contains(duplicates[i - 1], e.record)
                  THEN Append(duplicates[i - 1], e.record) ELSE duplicates[i - 1]
  IN duplicates[Reached(list)]

\* What "below" gives for a record or block, if there is one.
Given(below, found) == IF found = NoRecord THEN << >> ELSE below[found]

\* The attributes of record m with a type in the mask, and of the records its
\* lists lead to, which "below" gives.
CollectAttributes(below, runs, m, mask, junk) ==
  LET FromRecord(r) == Given(below, ReadRecord(runs, r))
      Over(list, named) ==
        CASE ~RunsOver(list) \/ junk = NoEntry -> << >>
          [] RunsOver(list) /\ junk = EmptyEntry -> <<Hang>>
          [] OTHER -> IF junk = m \/ Contains(named, junk) THEN << >> ELSE FromRecord(junk)
      NtfsParseAttributeList(list) ==
        IF ~AttributeIsReadable(list) THEN <<Fault>>
        ELSE LET named == Named(list, m, mask)
             IN FlattenSeq([k \in 1 .. Len(named) |-> FromRecord(named[k])]) \o Over(list, named)
      One(attribute) ==
        CASE attribute.type = "list" -> NtfsParseAttributeList(attribute)
          [] attribute.type \in mask -> <<attribute>>
          [] OTHER -> << >>
      attributes == volume.rec[m].attributes
  IN FlattenSeq([i \in 1 .. Len(attributes) |-> One(attributes[i])])

\* Lists that lead from record to record more often than there are records come
\* back to one of them, and the recursion does not end.
NtfsReadFileAttributes(runs, m, mask, junk) ==
  LET records == DOMAIN volume.rec
      level[d \in 0 .. Cardinality(records)] ==
        [r \in records |-> IF d = 0 THEN <<Hang>>
                           ELSE CollectAttributes(level[d - 1], runs, r, mask, junk)]
  IN CollectAttributes(level[Cardinality(records)], runs, m, mask, junk)

\* NtfsFindFirstAttribute.
NtfsFindFirstAttribute(attributes, type) ==
  LET i == SelectInSeq(attributes, LAMBDA a : a.type = type)
  IN IF i = 0 THEN NoRecord ELSE attributes[i]

Has(attributes, type) == \E i \in 1 .. Len(attributes) : attributes[i].type = type

-----------------------------------------------------------------------------
(***************************************************************************)
(* Directory indexes.  An entry is [file, sub]; the last one has no file.  *)
(***************************************************************************)

\* The index block at cluster v of an allocation, if there is one that checks;
\* memory that a failed read has not filled does not pass for one
\* (NtfsGetIndexAllocationEntries).
BlockAt(buffer, v) ==
  LET from    == v * volume.spc
      sectors == SubSeq(buffer, from + 1, from + BlockSectors(volume))
  IN IF from + BlockSectors(volume) <= Len(buffer) /\ NtfsPatchUpdateSequence(sectors)
       THEN sectors[1].owner[2] ELSE NoRecord

\* What the sub-node of an entry gives, when "below" gives it for each block.
SubNode(below, entry, buffer) ==
  Given(below, IF entry.sub = NoRecord THEN NoRecord ELSE BlockAt(buffer, entry.sub))

\* Mutant: the files of the sub-node come after the entry.
WalkEntries_preorder(below, entries, buffer) ==
  FlattenSeq([i \in 1 .. Len(entries) |-> <<entries[i].file>> \o SubNode(below, entries[i], buffer)])

\* The callbacks for some entries: each sub-node before its entry.  The result of
\* a sub-node is ignored.
WalkEntries(below, entries, buffer) ==
  FlattenSeq([i \in 1 .. Len(entries) |-> SubNode(below, entries[i], buffer) \o <<entries[i].file>>])

\* A walk deeper than there are blocks comes back to one of them and does not end.
NoEnd == -1

NtfsWalkIndexEntries(entries, buffer) ==
  LET blocks == DOMAIN volume.blk
      level[d \in 0 .. Cardinality(blocks)] ==
        [b \in blocks |-> IF d = 0 THEN <<NoEnd>> ELSE WalkEntries(level[d - 1], volume.blk[b], buffer)]
  IN WalkEntries(level[Cardinality(blocks)], entries, buffer)

-----------------------------------------------------------------------------
(***************************************************************************)
(* The calls of a client.                                                  *)
(***************************************************************************)

\* A call begins when the client has taken the answer of the one before.
Calls == answer = NoAnswer /\ UNCHANGED <<volume, torn, bad>>

TakeAnswer ==
  /\ answer # NoAnswer
  /\ answer' = NoAnswer
  /\ UNCHANGED <<volume, torn, bad, status, mftDataRuns>>

Answer(call, n, junk, ok, out) ==
  answer' = [call |-> call, n |-> n, junk |-> junk, ok |-> ok, out |-> out]

\* What may lie past the end of a list.
Junk == {NoEntry, EmptyEntry} \cup {n \in Ids(volume) : n > MFT_RECORD_USER}

\* NtfsInitVolume: the boot sector, then record 0 and its first data attribute.
\* Record 0 of the volumes has no attribute list: while it is read the list of
\* runs is not yet initialized.
NtfsInitVolume ==
  LET mft   == ReadRecord(<< >>, 0)
      data  == IF mft = NoRecord THEN << >>
               ELSE NtfsReadFileAttributes(<< >>, mft, {"data"}, NoEntry)
      first == NtfsFindFirstAttribute(data, "data")
      ok    == Readable(0, 1) /\ volume.valid /\ Has(data, "data") /\ ~first.resident IN
  /\ Calls /\ status = "closed"
  /\ IF ok THEN status' = "open" /\ mftDataRuns' = NtfsGetDataRuns(first)
           ELSE UNCHANGED <<status, mftDataRuns>>
  /\ Answer("init", 0, NoEntry, ok, << >>)

NtfsReadFileRecord(n) ==
  LET found == ReadRecord(mftDataRuns, n) IN
  /\ Calls /\ status = "open"
  /\ Answer("record", n, NoEntry, found # NoRecord, <<found>>)
  /\ UNCHANGED <<status, mftDataRuns>>

\* What the callback gets for an attribute.
DataStream(attribute) ==
  [id |-> attribute.id,
   data |-> IF attribute.resident THEN << >>
            ELSE SubSeq(NtfsReadNonResidentAttributeData(attribute), 1, attribute.sectors)]

\* The attributes of a file that a call asks for, if its record can be read.
FileAttributes(n, mask, junk) ==
  LET found == ReadRecord(mftDataRuns, n)
  IN IF found = NoRecord THEN << >> ELSE NtfsReadFileAttributes(mftDataRuns, found, mask, junk)

\* NtfsReadFileDataStreams gives each data attribute to the callback.  When the
\* data of one cannot be read, NtfsReadAttributeData frees the attribute in the
\* place of the buffer.  FALSE is returned in any case.
NtfsReadFileDataStreams(n, junk) ==
  LET all   == FileAttributes(n, {"data"}, junk)
      given == UpTo(Len(all), LAMBDA i : all[i].type = "fault" \/ ~AttributeIsReadable(all[i])) IN
  /\ Calls /\ status = "open"
  /\ status' = CASE Has(all, "hang") -> "hung" [] given # Len(all) -> "corrupt" [] OTHER -> "open"
  /\ Answer("streams", n, junk, FALSE,
            IF Has(all, "hang") THEN << >> ELSE [i \in 1 .. given |-> DataStream(all[i])])
  /\ UNCHANGED mftDataRuns

IsDirectory(n) ==
  LET found == ReadRecord(mftDataRuns, n)
  IN found # NoRecord /\ {"inuse", "dir"} \subseteq volume.rec[found].flags

\* The index root's entries are walked over the allocation, which is read in one
\* piece; the result of that read is not looked at.
WalkIndex(all) ==
  LET buffer == IF Has(all, "alloc")
                  THEN NtfsReadNonResidentAttributeData(NtfsFindFirstAttribute(all, "alloc"))
                  ELSE << >>
  IN NtfsWalkIndexEntries(NtfsFindFirstAttribute(all, "root").entries, buffer)

\* Without an allocation a sub-node is looked for at a null pointer.
MeetsNull(all) ==
  LET root == NtfsFindFirstAttribute(all, "root") IN
  /\ Has(all, "root") /\ ~Has(all, "alloc")
  /\ \E i \in 1 .. Len(root.entries) : root.entries[i].sub # NoRecord

NtfsEnumSubFiles(n, junk) ==
  LET all   == IF IsDirectory(n) THEN FileAttributes(n, {"root", "alloc"}, junk) ELSE << >>
      files == IF Has(all, "root") /\ ~MeetsNull(all) THEN WalkIndex(all) ELSE << >> IN
  /\ Calls /\ status = "open"
  /\ status' = CASE Has(all, "hang") \/ Contains(files, NoEnd) -> "hung"
                [] ~Has(all, "hang") /\ (Has(all, "fault") \/ MeetsNull(all)) -> "corrupt"
                [] OTHER -> "open"
  /\ IF status' = "open" /\ Has(all, "root")
       THEN Answer("files", n, junk, TRUE, files)
       ELSE Answer("files", n, junk, FALSE, << >>)
  /\ UNCHANGED mftDataRuns

NtfsFreeVolume ==
  /\ Calls /\ status = "open"
  /\ status' = "closed"
  /\ mftDataRuns' = << >>
  /\ UNCHANGED answer

\* The volume under the reader: Windows begins or ends a rewrite of a record or
\* block, or a sector becomes unreadable or readable; one of them at a time.
VolumeChanges ==
  /\ status \in {"closed", "open"} /\ answer = NoAnswer
  /\ IF torn = {} /\ bad = {}
       THEN \E s \in DOMAIN volume.disk :
              \/ torn' = {volume.disk[s].owner} /\ bad' = {}
              \/ torn' = {} /\ bad' = {s}
       ELSE torn' = {} /\ bad' = {}
  /\ UNCHANGED <<volume, status, mftDataRuns, answer>>

NtfsInit ==
  /\ volume \in Volumes
  /\ torn = {} /\ bad = {}
  /\ status = "closed"
  /\ mftDataRuns = << >>
  /\ answer = NoAnswer

NtfsNext ==
  \/ NtfsInitVolume
  \/ \E n \in Ids(volume) : NtfsReadFileRecord(n)
  \/ \E n \in Ids(volume), junk \in Junk : NtfsReadFileDataStreams(n, junk)
  \/ \E n \in Ids(volume), junk \in Junk : NtfsEnumSubFiles(n, junk)
  \/ NtfsFreeVolume
  \/ TakeAnswer
  \/ VolumeChanges

NtfsSpec == NtfsInit /\ [][NtfsNext]_ntfsVars

-----------------------------------------------------------------------------
(***************************************************************************)
(* Properties.  They compare what a call gave with the volume, without the *)
(* data runs the reader has decoded.                                       *)
(***************************************************************************)

\* The types of the state.
NtfsTypeOK ==
  /\ volume \in Volumes
  /\ status \in {"closed", "open", "hung", "corrupt"}
  /\ bad \subseteq DOMAIN volume.disk
  /\ \A i \in 1 .. Len(mftDataRuns) :
       mftDataRuns[i].SectorOffset \in Nat /\ mftDataRuns[i].LengthInSectors \in Nat
  /\ status = "closed" => mftDataRuns = << >>
  /\ answer.call \in {"none", "init", "record", "streams", "files"}
  /\ answer.n \in Ids(volume) /\ answer.ok \in BOOLEAN /\ answer.junk \in Junk

\* A record that starts where an extent ends.  The reader takes it to be in that
\* extent (<= for <) and reads what follows the extent on the disk.
AtExtentEnd(n) ==
  n > MFT_RECORD_USER /\ \E i \in 1 .. Len(volume.layout) : n * SectorCount(volume) = Extent(volume)[i]

\* The sectors of a record on the disk.
Place(owner) == {s \in DOMAIN volume.disk : volume.disk[s].owner = owner}

Whole(owner) == owner \notin torn /\ Place(owner) \cap bad = {}

\* NtfsGetDataRuns gives the extents of the table, those before the ones they
\* follow on the disk included.
RunsAreTheLayout == status = "open" => mftDataRuns = Layout(volume)

\* A record is found wherever the table is on the disk, and a record that Windows
\* was rewriting is refused; only at the end of an extent another one, or none,
\* may be read in its place.
RecordIsTheOneAsked ==
  answer.call = "record" /\ ~AtExtentEnd(answer.n) =>
    /\ answer.ok <=> Whole(<<"rec", answer.n>>)
    /\ answer.ok => answer.out = <<answer.n>>

\* The way from the boot sector to a record: the runs that are decoded when the
\* volume is opened, and the lookup in them.
RecordsAreFound == NtfsTypeOK /\ RunsAreTheLayout /\ RecordIsTheOneAsked

\* The records and the streams of a file: those of its base record and of its
\* extension records.
Records(n) == {r \in Ids(volume) : r = n \/ volume.rec[r].base = n}

Attributes(m) == {volume.rec[m].attributes[i] : i \in 1 .. Len(volume.rec[m].attributes)}

StreamsOf(n) == UNION {{a \in Attributes(m) : a.type = "data"} : m \in Records(n)}

\* The sectors of a stream are where its owner is on the disk.
IsContent(a, data) == data = IF a.resident THEN << >> ELSE StreamContent(a)

\* Not the table itself, and no record of it at the end of an extent.
Ordinary(n) == n # 0 /\ \A r \in Records(n) : ~AtExtentEnd(r)

\* The walk of an attribute list of the file ran past the end of the list and
\* took what it found there for an entry that names a record (Ntfs.c:291).
RunsPast(n, junk) == junk >= 0 /\ \E a \in Attributes(n) : a.type = "list" /\ RunsOver(a)

\* The client is given streams of the file it asked for, each at most once and
\* with the data of that stream, through rewrites and failing sectors and with
\* lists that cannot be read.  Two flaws of the reader are left out: a record of
\* the file is at the end of an extent (the <= for < of Ntfs.c:139), or the walk
\* of its list met a record past the end.
StreamsBelongToFile ==
  answer.call = "streams" /\ Ordinary(answer.n) /\ ~RunsPast(answer.n, answer.junk) =>
    /\ \A i \in 1 .. Len(answer.out) :
         \E a \in StreamsOf(answer.n) : answer.out[i].id = a.id /\ IsContent(a, answer.out[i].data)
    /\ \A i, j \in 1 .. Len(answer.out) : answer.out[i].id = answer.out[j].id => i = j

\* A list that is not resident is walked up to the size of its header only.
ListIsReached(n) ==
  \A a \in Attributes(n) : a.type = "list" => Reached(a) = Len(a.entries)

\* When nothing fails, no stream is left out, wherever the extension records of
\* the file are, unless its attribute list is longer than the walk reaches (or
\* one of the two flaws above).
StreamsAreComplete ==
  /\ answer.call = "streams" /\ status = "open"
  /\ Ordinary(answer.n) /\ ~RunsPast(answer.n, answer.junk) /\ ListIsReached(answer.n)
  /\ \A r \in Records(answer.n) : Whole(<<"rec", r>>)
  /\ volume.rec[answer.n].base = 0
  => {answer.out[i].id : i \in 1 .. Len(answer.out)} = {a.id : a \in StreamsOf(answer.n)}

\* The files of a directory, which are numbered in the order of the index.
FilesOf(n) == volume.rec[n].files

\* The callback gets the files of the directory in the order of the index and
\* none twice; all of them when every record and block of the index is whole.
\* Blocks that are not are passed over in silence.  (The two flaws above are
\* left out.)
FilesAreInOrder ==
  /\ answer.call = "files" /\ answer.ok
  /\ Ordinary(answer.n) /\ ~RunsPast(answer.n, answer.junk)
  =>
    LET out   == answer.out
        given == {i \in 1 .. Len(out) : out[i] # NoRecord} IN
    /\ \A i \in given : out[i] \in FilesOf(answer.n)
    /\ \A i, j \in given : i < j => out[i] < out[j]
    /\ (\A b \in DOMAIN volume.blk : Whole(<<"blk", b>>)) =>
         \A f \in FilesOf(answer.n) : \E i \in given : out[i] = f

=============================================================================
