----------------------------- MODULE MCFilesAll -----------------------------
(***************************************************************************)
(* Two instances of Files in one run: everything the users of a filesystem *)
(* do, and the same with times set by hand, a directory that runs full and *)
(* a second filesystem mounted and unmounted.  The library's calls, whose  *)
(* requests are steps of a third; its paths and patterns (Names); and an   *)
(* archive written and read back (Archive).                                *)
(***************************************************************************)
EXTENDS MCFiles, Sequences

VARIABLES call, left, walk, still, cwd, text, changes, ff,
          opt, archive, done, lastpath, stops, cancel, at, prefix, target, part

Stale == INSTANCE Files WITH
  CanFill <- TRUE, Touching <- TRUE, Drives <- TRUE, SameSecond <- TRUE,
  MaxTime <- 1, MaxCount <- 2

Blocks == {1, 2, 3}
Targets == {0, 1, 2, 3}
FileNames == 1..5
Processes == {1, 2}
Btcbs == Processes \X (1..3)
Calling == INSTANCE Library WITH
  Root <- 0, Sub <- 9, File <- Blocks, Linkable <- Targets, Name <- FileNames, None <- 99,
  MaxTime <- 1, MaxCount <- 9,
  Proc <- Processes, Client <- Btcbs, Makers <- {1}, Own <- <<{3}, {4}>>,
  Shared <- 5, Calls <- <<2, 1>>

Path(abs, names) == [abs |-> abs, names |-> names]
Directory(n) == [root |-> n, text |-> Path(FALSE, <<>>)]
SymbolicLink(abs, names) == [root |-> 0, text |-> Path(abs, names)]
MCTree ==
  1 :> ("." :> Directory(1) @@ ".." :> Directory(1) @@ "d" :> Directory(2) @@ "a" :> Directory(9)
        @@ "l" :> SymbolicLink(FALSE, <<"d", "e">>) @@ "r" :> SymbolicLink(FALSE, <<"r">>)
        @@ "p" :> SymbolicLink(FALSE, <<"q", "e">>) @@ "q" :> SymbolicLink(FALSE, <<"d">>))
  @@ 2 :> ("." :> Directory(2) @@ ".." :> Directory(1) @@ "e" :> Directory(3) @@ "b" :> Directory(8) @@ "p" :> Directory(4)
           @@ "m" :> SymbolicLink(FALSE, <<"..", "l">>))
  @@ 3 :> ("." :> Directory(3) @@ ".." :> Directory(2) @@ "f" :> SymbolicLink(TRUE, <<"d">>)
           @@ "a" :> Directory(7) @@ "g" :> Directory(4))
  @@ 4 :> ("." :> Directory(4) @@ ".." :> Directory(3) @@ "b" :> Directory(6))
Steps == {"d", "e", "f", "l", "m", "r", "p", "q", ".", ".."}
MCPathnames ==
  {Path(FALSE, <<x>>) : x \in Steps \cup {"a", "g"}} \cup {Path(FALSE, <<x, y>>) : x \in Steps, y \in Steps}
    \cup {Path(FALSE, <<>>)} \cup {Path(TRUE, p) : p \in {<<>>, <<"d">>, <<"m">>, <<"l", "f", "m", "g">>, <<"q", "e", "p", "a">>}}
MCEntries == {<<4>>, <<10>>, <<11>>, <<12>>, <<10, 4>>, <<10, 10>>, <<10, 11>>, <<11, 10>>, <<10, 11, 10>>,
              <<10, 12, 11>>, <<10, 10, 12>>, <<11, 12, 10, 11>>}
Tokens == {<<"is", <<10>>>>, <<"is", <<11>>>>, <<"any", <<>>>>, <<"many", <<>>>>,
           <<"of", <<10, 12>>>>, <<"not", <<10>>>>, <<"range", <<10, 11>>>>}
MCPattern == {<<x>> : x \in Tokens} \cup {<<x, y>> : x \in Tokens, y \in Tokens}
               \cup {<<x, <<"many", <<>>>>, y>> : x \in Tokens, y \in Tokens}
Naming == INSTANCE Names WITH
  Tree <- MCTree, Top <- 1, Pathnames <- MCPathnames, Pattern <- MCPattern, Entries <- MCEntries,
  Beyond <- <<0, 0, 7, 7, 0>>, MaxChange <- 2

MCSource ==
  <<[name |-> <<"d">>, isdir |-> TRUE, recs |-> <<>>],
    [name |-> <<"d", "a">>, isdir |-> FALSE, recs |-> <<<<1, 1>>, <<1, 2>>, <<2, 1>>>>],
    [name |-> <<"e", "b">>, isdir |-> FALSE, recs |-> <<<<1, 2>>, <<1, 3>>, <<2, 1>>>>],
    [name |-> <<"c">>, isdir |-> FALSE, recs |-> <<<<1, 2>>>>]>>
OldDir == [isdir |-> TRUE, recs |-> {}]
OldFile(recs) == [isdir |-> FALSE, recs |-> recs]
\* Of the files there before, some have a layout with one more byte.
MCExisting ==
  {[x \in {} |-> OldDir],
   <<"e">> :> OldDir @@ <<"e", "b">> :> OldFile({<<1, 2, 0>>, <<3, 1, 0>>}),
   <<"d">> :> OldDir @@ <<"d", "a">> :> OldFile({<<1, 1>>}) @@ <<"c">> :> OldFile({<<1, 2, 0>>, <<2, 2>>})}
\* Another field at the end, or the fields in another order.
AnyRecord == (1..3) \X (1..3)
MCReforms == {[r \in AnyRecord |-> Append(r, 0)], [r \in AnyRecord |-> <<r[2], r[1]>>]}
Archiving == INSTANCE Archive WITH
  Source <- MCSource, Existing <- MCExisting, Reforms <- MCReforms, file <- archive

callVars == <<call, left, walk, still>>
nameVars == <<cwd, text, changes, ff>>
archiveVars == <<opt, archive, done, lastpath, stops, cancel, at, prefix, target>>
otherVars == <<callVars, nameVars, archiveVars>>

NoCall == call = <<>> /\ left = <<>> /\ walk = <<>> /\ still = <<>>
NoName == cwd = 1 /\ text = <<>> /\ changes = 0 /\ ff = <<>>
NoArchive == /\ opt = <<>> /\ archive = <<>> /\ done = 0 /\ lastpath = <<>> /\ stops = <<>>
             /\ cancel = FALSE /\ at = 0 /\ prefix = <<>> /\ target = <<>>
MCInit ==
  \/ part \in {"opens", "stale"} /\ Init /\ NoCall /\ NoName /\ NoArchive
  \/ part = "library" /\ Calling!LibraryInit /\ NoName /\ NoArchive
  \/ part = "names" /\ Init /\ NoCall /\ Naming!NamesInit /\ NoArchive
  \/ part = "archive" /\ Init /\ NoCall /\ NoName /\ Archiving!ArchiveInit
MCNext == /\ \/ part = "opens" /\ Next /\ UNCHANGED otherVars
             \/ part = "stale" /\ Stale!Next /\ UNCHANGED otherVars
             \/ part = "library" /\ Calling!LibraryNext /\ UNCHANGED <<nameVars, archiveVars>>
             \/ part = "names" /\ Naming!NamesNext /\ UNCHANGED <<vars, callVars, archiveVars>>
             \/ part = "archive" /\ Archiving!ArchiveNext /\ UNCHANGED <<vars, callVars, nameVars>>
          /\ UNCHANGED part
MCSpec == MCInit /\ [][MCNext]_<<vars, otherVars, part>>

(* Files' counts of opens and what they protect (OpensCounted,              *)
(* ExclusiveAlone, OpenFilesExist, MountsCounted, JoinLeadsOn,              *)
(* UnmountWhenIdle), as long as the clock is right and nobody unmounts by   *)
(* mount id (btfile.c's opens are those since the mount); and               *)
(* RecordsCounted in any case.                                              *)
FilesKept ==
  /\ part = "opens" => /\ OpensCounted /\ ExclusiveAlone /\ OpenFilesExist /\ MountsCounted
                       /\ JoinLeadsOn /\ UnmountWhenIdle
  /\ part \in {"opens", "stale"} => RecordsCounted
(* NothingLost and WalkedOnce of Library; what Names opens and finds;       *)
(* Restored of Archive.                                                     *)
CallsRight == part = "library" => Calling!NothingLost /\ Calling!WalkedOnce
NamesRight == part = "names" => Naming!OpensRight /\ Naming!PathTrue /\ Naming!FindsAll
Restored == part = "archive" => Archiving!Restored
=============================================================================
