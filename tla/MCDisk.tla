------------------------------- MODULE MCDisk -------------------------------
(***************************************************************************)
(* The filesystem on disk, in one run: the device (Device) and what reads  *)
(* it offline (Scan, Report).                                              *)
(***************************************************************************)
EXTENDS Device, TLC

Symmetry == Permutations(Block)

VARIABLES
  fst, pos, bad, have, given, found, ended,
  saved, source, read, log, main, gone, printed

Extents == <<5, 2>>
Missing == <<{0, 2}, {0, 1}>>
Scanning == INSTANCE Scan WITH Nblks <- 3, Eod <- Extents, Cut <- Missing
scanVars == <<fst, pos, bad, have, given, found, ended>>
NoScan == /\ fst = 0 /\ pos = 0 /\ bad = 0 /\ have = 0 /\ given = <<>> /\ found = 0 /\ ended = FALSE

Entry(n, t) == [name |-> n, to |-> t]
RecordsOf(recs, fault) == [recs |-> recs, fault |-> fault]
BlockOf(root, son, stem, dir, node) ==
  [root |-> root, son |-> son, lbro |-> 3, stem |-> stem, dir |-> dir, node |-> node,
   stat |-> [bcnt |-> 1, rcnt |-> Len(node.recs), links |-> 1]]
NoRecords == RecordsOf(<<>>, "none")
SmallNodes ==
  {NoRecords, RecordsOf(<<Entry(2, 0)>>, "none"), RecordsOf(<<Entry(2, 2), Entry(3, 3)>>, "record")}
    \cup {RecordsOf(<<Entry(2, t)>>, "none") : t \in 1..3}
LargeNodes ==
  SmallNodes \cup {RecordsOf(<<Entry(1, t), Entry(4, u)>>, "none") : t \in 2..3, u \in 1..3}
             \cup {RecordsOf(<<Entry(2, 2), Entry(3, 3)>>, "offsets")}
\* A deleted block, a root with a directory's entries or a file's record, one
\* over stems, a leaf of another root, and one that cannot be read.
AnyBlock(n) ==
  {BlockOf(0, 2, FALSE, FALSE, NoRecords), BlockOf(n, 0, FALSE, FALSE, RecordsOf(<<Entry(1, 0)>>, "none")),
   BlockOf(0 - 100, 0, FALSE, TRUE, RecordsOf(<<Entry(1, 2)>>, "none"))}
    \cup {BlockOf(n, 0, FALSE, TRUE, v) : v \in SmallNodes}
    \cup {BlockOf(n, 1, TRUE, TRUE, NoRecords)}
    \cup {BlockOf(r, 0, FALSE, FALSE, v) : r \in (1..3) \ {n}, v \in SmallNodes}
Filesystems ==
  {<<a, b, c>> : a \in {BlockOf(1, 0, FALSE, TRUE, v) : v \in LargeNodes}, b \in AnyBlock(2), c \in AnyBlock(3)}
Reporting == INSTANCE Report WITH Disks <- Filesystems, Sign <- 100, disk <- saved, lost <- gone
reportVars == <<saved, source, read, log, main, gone, printed>>
NoReport == /\ saved = 0 /\ source = 0 /\ read = 0 /\ log = 0 /\ main = 0 /\ gone = 0 /\ printed = 0

offlineVars == <<scanVars, reportVars>>
MCInit ==
  \/ DeviceInit /\ NoScan /\ NoReport
  \/ /\ Free!Init /\ space.eof = 0 /\ Init
     /\ \/ part = "scan" /\ Scanning!ScanInit /\ NoReport
        \/ part = "report" /\ NoScan /\ Reporting!ReportInit
MCNext == \/ DeviceNext /\ UNCHANGED offlineVars
          \/ part = "scan" /\ Scanning!ScanNext /\ UNCHANGED <<deviceVars, reportVars>>
          \/ part = "report" /\ Reporting!ReportNext /\ UNCHANGED <<deviceVars, scanVars>>
MCSpec == MCInit /\ [][MCNext]_<<deviceVars, offlineVars>>

(* BlocksInOrder and BorrowsOnly of Scan: the offline tools get every block *)
(* in order, whatever reads fail and whatever blocks they look up between.  *)
ScanRight == part = "scan" => Scanning!BlocksInOrder /\ Scanning!BorrowsOnly
(* Accounted and SavedWhole of Report: btddir counts every block in use     *)
(* once, on the side it belongs to, and a backup restored is what was saved. *)
ReportRight == part = "report" => Reporting!Accounted /\ Reporting!SavedWhole
=============================================================================
