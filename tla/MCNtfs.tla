-------------------------------- MODULE MCNtfs ---------------------------------
(***************************************************************************)
(* Three small volumes with clusters and records of two sectors.           *)
(*                                                                         *)
(* Fragmented: the table is in three extents of three clusters, the second *)
(* before the first on the disk.  File 4 has a resident attribute list     *)
(* that names two extension records, one of them twice; file 8 has streams *)
(* of its own only; directory 2 has two index blocks, the cluster after    *)
(* the first extent holds a record nobody uses any more.                   *)
(*                                                                         *)
(* Listed: one extent.  File 2 has an attribute list outside its record    *)
(* that is shorter, file 5 one that is longer than the walk of it reaches; *)
(* directory 7 has its index allocation in an extension record.            *)
(*                                                                         *)
(* Foreign: another file system.                                           *)
(***************************************************************************)
EXTENDS Ntfs

Run(bytes, length, offset) ==
  [lengthBytes |-> 1, offsetBytes |-> bytes, length |-> length, offset |-> offset]

Data(id, sectors, runs, extents) ==
  [type |-> "data", id |-> id, resident |-> runs = << >>, sectors |-> sectors,
   runs |-> runs, extents |-> extents]

List(size, entries, runs) ==
  [type |-> "list", resident |-> runs = << >>, size |-> size, entries |-> entries, runs |-> runs]

Entry(type, record) == [size |-> 32, type |-> type, record |-> record]

Root(entries) == [type |-> "root", entries |-> entries]
Alloc(runs, extents) ==
  [type |-> "alloc", resident |-> FALSE, runs |-> runs, extents |-> extents]

Record(base, attributes) ==
  [base |-> base, flags |-> {"inuse"}, attributes |-> attributes, files |-> {}, index |-> << >>]
Directory(attributes, files, index) ==
  [base |-> 0, flags |-> {"inuse", "dir"}, attributes |-> attributes, files |-> files, index |-> index]

\* The sectors of block b.
Block(b) == [k \in 1 .. 2 |-> [owner |-> <<"blk", b>>, part |-> k - 1]]

\* A disk of n clusters; owner[c] owns cluster c and part[c] is its first sector's part.
Disk(owner, part) ==
  [s \in 0 .. 2 * Len(owner) - 1 |->
     [owner |-> owner[s \div 2 + 1], part |-> part[s \div 2 + 1] + (s % 2)]]

Rec(n) == <<"rec", n>>
Blk(v) == <<"blk", v>>
Of(id) == <<"data", id>>

Fragmented ==
  [valid |-> TRUE, spc |-> 2, recordCode |-> -10, indexCode |-> 1,
   layout |-> << <<4, 3>>, <<1, 3>>, <<8, 3>> >>,
   disk |-> Disk(<<Of(0), Rec(3), Rec(4), Rec(5), Rec(0), Rec(1), Rec(2), Rec(9),
                   Rec(6), Rec(7), Rec(8), Blk(1), Blk(0), Of(2), Of(1), Of(1)>>,
                 <<0, 0, 0, 0, 0, 0, 0, 0, 0, 0, 0, 0, 0, 0, 2, 0>>),
   rec |-> [n \in 0 .. 9 |->
     CASE n = 0 -> Record(0, <<Data(0, 18, <<Run(1, 3, 4), Run(1, 3, 253), Run(2, 3, 7)>>,
                                  << <<4, 3>>, <<1, 3>>, <<8, 3>> >>)>>)
       [] n = 2 -> Directory(<<Root(<<[file |-> 3, sub |-> 0], [file |-> NoRecord, sub |-> 1]>>),
                               Alloc(<<Run(1, 1, 12), Run(1, 1, 255)>>, << <<12, 1>>, <<11, 1>> >>)>>,
                             1 .. 5, Block(0) \o Block(1))
       [] n = 4 -> Record(0, <<List(24 + 128, <<Entry("name", 4), Entry("data", 5),
                                               Entry("data", 7), Entry("data", 7)>>, << >>)>>)
       [] n = 5 -> Record(4, <<Data(1, 3, <<Run(1, 1, 15), Run(1, 1, 255)>>, << <<15, 1>>, <<14, 1>> >>)>>)
       [] n = 7 -> Record(4, <<Data(2, 2, <<Run(1, 1, 13)>>, << <<13, 1>> >>), Data(3, 0, << >>, << >>)>>)
       [] n = 8 -> Record(0, <<Data(4, 0, << >>, << >>)>>)
       [] OTHER -> Record(0, << >>)],
   blk |-> [v \in 0 .. 1 |->
     IF v = 0 THEN <<[file |-> 1, sub |-> NoRecord], [file |-> 2, sub |-> NoRecord], [file |-> NoRecord, sub |-> NoRecord]>>
              ELSE <<[file |-> 4, sub |-> NoRecord], [file |-> 5, sub |-> NoRecord], [file |-> NoRecord, sub |-> NoRecord]>>],
   under |-> [v \in 0 .. 1 |-> IF v = 0 THEN 1 .. 2 ELSE 4 .. 5]]

Listed ==
  [valid |-> TRUE, spc |-> 2, recordCode |-> 1, indexCode |-> -10,
   layout |-> << <<2, 9>> >>,
   disk |-> Disk(<<Of(0), Of(9), Rec(0), Rec(1), Rec(2), Rec(3), Rec(4), Rec(5),
                   Rec(6), Rec(7), Rec(8), Blk(0), Of(1), Of(8)>>,
                 [c \in 1 .. 14 |-> 0]),
   rec |-> [n \in 0 .. 8 |->
     CASE n = 0 -> Record(0, <<Data(0, 18, <<Run(1, 9, 2)>>, << <<2, 9>> >>)>>)
       [] n = 2 -> Record(0, <<List(72, <<Entry("data", 3)>>, <<Run(1, 1, 1)>>)>>)
       [] n = 3 -> Record(2, <<Data(1, 1, <<Run(1, 1, 12)>>, << <<12, 1>> >>)>>)
       [] n = 4 -> Record(5, <<Data(2, 0, << >>, << >>)>>)
       [] n = 5 -> Record(0, <<List(72, <<Entry("name", 5), Entry("data", 4), Entry("data", 6)>>,
                                    <<Run(1, 1, 13)>>)>>)
       [] n = 6 -> Record(5, <<Data(3, 0, << >>, << >>)>>)
       [] n = 7 -> Directory(<<List(24 + 32, <<Entry("alloc", 8)>>, << >>),
                               Root(<<[file |-> 2, sub |-> 0], [file |-> NoRecord, sub |-> NoRecord]>>)>>,
                             1 .. 2, Block(0))
       [] n = 8 -> Record(7, <<Alloc(<<Run(1, 1, 11)>>, << <<11, 1>> >>)>>)
       [] OTHER -> Record(0, << >>)],
   blk |-> [v \in {0} |-> <<[file |-> 1, sub |-> NoRecord], [file |-> NoRecord, sub |-> NoRecord]>>],
   under |-> [v \in {0} |-> {1}]]

Foreign == [Listed EXCEPT !.valid = FALSE]

MCVolumes == {Fragmented, Listed, Foreign}
=============================================================================
