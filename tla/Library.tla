------------------------------- MODULE Library -------------------------------
(***************************************************************************)
(* The calls of the client library and of the utilities on directories     *)
(* (lib/bt*.c, util/delete.c, util/copy.c) as processes make them side by  *)
(* side: a call is a program of requests to the server, each an action of  *)
(* Files on one of the BTCBs of its process, and those of another process  *)
(* come in between.  A process that dies in a call just takes no more      *)
(* steps.  Names are numbers, in the order a directory has them; a path is *)
(* a sequence of names from the root, without symbolic links (Names has    *)
(* those), and everybody has every permission.                             *)
(*                                                                         *)
(* Every process has names of its own for its files, in directories that   *)
(* all use and the Makers make and remove: what btkill and btrename do to  *)
(* a name that another process has given to something else in the meantime *)
(* is not modelled.                                                        *)
(***************************************************************************)
EXTENDS Files, Sequences, SequencesExt

CONSTANTS
  Proc,        \* processes
  Own,         \* the names each gives its files
  Shared,      \* the name of the directories they all use
  Makers,      \* the processes that make and remove directories
  Calls        \* bound: the calls each makes

VARIABLES
  call,        \* the call of each process: its program, the next step, its paths
  left,        \* calls each may still make
  walk,        \* btwalk: the names down to where it is, the name read last, what it did
  still        \* the records that are as they were when the walk began

allvars == <<vars, call, left, walk, still>>

Dot == 1
DotDot == 2

LeadsTo(start, path) ==
  FoldLeft(LAMBDA n, x : IF n = None \/ ~stat[n].isdir THEN None ELSE dir[n][x], start, path)

Dirs == {<<>>, <<Shared>>}
Paths(p) == {d \o <<x>> : d \in Dirs, x \in Own[p]}
Directories == {d \o <<Shared>> : d \in Dirs}

\* A step of a program: the request, the path it is for, the BTCB.
Do(request, path, i) == [request |-> request, path |-> path, i |-> i]

Kill == <<Do("opendir", "dst", 1), Do("delete", "dst", 1)>>

MakeFile == <<Do("opendir", "dst", 1), Do("create", "dst", 1)>>

\* The new directory is linked to itself and to its parent.
MakeDirectory ==
  <<Do("opendir", "dst", 1), Do("createdir", "dst", 1), Do("enter", "dst", 2),
    Do("linkself", "dst", 2), Do("linkparent", "dst", 2)>>

RemoveDirectory ==
  <<Do("opendir", "dst", 1), Do("lock", "dst", 2), Do("check", "dst", 2),
    Do("unlink", "dst", 2), Do("close", "dst", 2), Do("delete", "dst", 1)>>

HardLink == <<Do("open", "src", 2), Do("opendir", "dst", 1), Do("link", "dst", 1)>>

Rename == HardLink \o <<Do("close", "src", 2), Do("close", "dst", 1),
                       Do("opendir", "src", 1), Do("delete", "src", 1)>>

\* btclear: the file is deleted and created again (as empty, a utility, does).
Clear == <<Do("opendir", "dst", 1), Do("delete", "dst", 1), Do("create", "dst", 1)>>

\* copymove of the utilities: the file is linked in another directory, which
\* is open all the time, and killed.
MoveInto ==
  <<Do("opendir", "dst", 1), Do("open", "src", 2), Do("link", "dst", 1),
    Do("opendir", "src", 3), Do("delete", "src", 3)>>

Program == [
  kill |-> Kill, create |-> MakeFile, mkdir |-> MakeDirectory, rmdir |-> RemoveDirectory,
  link |-> HardLink, rename |-> Rename, clear |-> Clear, move |-> MoveInto]

Idle == [op |-> "idle", at |-> 0, src |-> <<>>, dst |-> <<>>]
NoWalk == [by |-> None, path |-> <<>>, next |-> 0, last |-> <<>>, seen |-> <<>>,
           goon |-> FALSE, erred |-> FALSE, end |-> "none"]

BeginCall(p) ==
  /\ call[p] = Idle /\ left[p] > 0
  /\ left' = [left EXCEPT ![p] = @ - 1]
  /\ \E op \in DOMAIN Program :
       /\ op \in {"mkdir", "rmdir"} => p \in Makers
       /\ \E dst \in IF op \in {"mkdir", "rmdir"} THEN Directories ELSE Paths(p) :
            \E src \in IF op \in {"link", "rename", "move"} THEN Paths(p) \ {dst} ELSE {<<>>} :
              call' = [call EXCEPT ![p] = [op |-> op, at |-> 1, src |-> src, dst |-> dst]]
  /\ UNCHANGED <<vars, walk, still>>

-----------------------------------------------------------------------------
(* The requests.  One that the server refuses ends the call, which closes   *)
(* what it has open.                                                        *)

Step(p) == Program[call[p].op][call[p].at]
Path(p) == IF Step(p).path = "src" THEN call[p].src ELSE call[p].dst
AtEnd(p) == call[p] # Idle /\ call[p].op # "walk" /\ call[p].at > Len(Program[call[p].op])
Handle(p, i) == handle[<<p, i>>].node

Asks(p, request) ==
  /\ call[p] # Idle /\ call[p].op # "walk" /\ ~AtEnd(p)
  /\ Step(p).request = request
  /\ UNCHANGED <<left, walk>>
Answer(p, done) ==
  call' = [call EXCEPT ![p].at = IF done THEN @ + 1 ELSE Len(Program[call[p].op]) + 1]

OpenFor(p, i, n, excl) ==
  IF n # None /\ Lockable(n, excl)
  THEN Open(<<p, i>>, n, excl) /\ Answer(p, TRUE)
  ELSE UNCHANGED vars /\ Answer(p, FALSE)

(* btopendir: the directory the path is in.                                 *)
OpenDirectory(p) ==
  /\ Asks(p, "opendir")
  /\ LET n == LeadsTo(Root, Front(Path(p)))
     IN  OpenFor(p, Step(p).i, IF n # None /\ stat[n].isdir THEN n ELSE None, FALSE)

(* btopen of the file to be linked, which may not be a directory.           *)
OpenSource(p) ==
  /\ Asks(p, "open")
  /\ LET n == LeadsTo(Root, Path(p))
     IN  OpenFor(p, 2, IF n # None /\ ~stat[n].isdir THEN n ELSE None, FALSE)

(* btopen of the name in the directory just opened (btasdir is set to it):  *)
(* the new directory, or the one to be removed, exclusively.                *)
Enter(p) ==
  \/ Asks(p, "enter") /\ OpenFor(p, 2, dir[Handle(p, 1)][Last(Path(p))], FALSE)
  \/ Asks(p, "lock") /\ OpenFor(p, 2, dir[Handle(p, 1)][Last(Path(p))], TRUE)

CreateFile(p) ==
  \E isdir \in BOOLEAN :
    /\ Asks(p, IF isdir THEN "createdir" ELSE "create")
    /\ IF dir[Handle(p, 1)][Last(Path(p))] # None
       THEN UNCHANGED vars /\ Answer(p, FALSE)
       ELSE \E f \in File :
              /\ \A g \in File : g < f => Allocated(g)
              /\ Create(<<p, 1>>, Last(Path(p)), f, isdir) /\ Answer(p, TRUE)

(* BTLINK: of the file opened before, or of "." and "..".                   *)
MakeLink(p) ==
  \E what \in {"link", "linkself", "linkparent"} :
    /\ Asks(p, what)
    /\ LET x == [link |-> Last(Path(p)), linkself |-> Dot, linkparent |-> DotDot][what]
           f == Handle(p, IF what = "linkparent" THEN 1 ELSE 2)
       IN  IF dir[Handle(p, Step(p).i)][x] # None
           THEN UNCHANGED vars /\ Answer(p, FALSE)
           ELSE Link(<<p, Step(p).i>>, x, f) /\ Answer(p, TRUE)

DeleteName(p) ==
  /\ Asks(p, "delete")
  /\ LET d == Handle(p, Step(p).i)
         x == Last(Path(p))
     IN  IF dir[d][x] # None /\ Deletable(d, dir[d][x])
         THEN Delete(<<p, Step(p).i>>, x) /\ Answer(p, TRUE)
         ELSE UNCHANGED vars /\ Answer(p, FALSE)

CloseOne(p) ==
  /\ Asks(p, "close")
  /\ Close(<<p, Step(p).i>>) /\ Answer(p, TRUE)

\* The links btrmdir takes for the standard ones.
Standard(p) == {x \in Name : dir[Handle(p, 2)][x] \in {Handle(p, 1), Handle(p, 2)}}
Present(d) == {x \in Name : dir[d][x] # None}

(* btrmdir's first pass.  It reads record after record; nobody else has the *)
(* directory open, so they are what they were at the first.                 *)
CheckLinks(p) ==
  /\ Asks(p, "check")
  /\ Answer(p, Present(Handle(p, 2)) \subseteq Standard(p))
  /\ UNCHANGED vars

\* Seeded fault: the second pass deletes nothing.
RemoveNone(p) ==
  /\ Asks(p, "unlink")
  /\ UNCHANGED vars /\ Answer(p, TRUE)

(* The second pass: one link after the other.                               *)
RemoveLink(p) ==
  /\ Asks(p, "unlink")
  /\ LET d == Handle(p, 2)
     IN  IF Present(d) = {} THEN UNCHANGED vars /\ Answer(p, TRUE)
         ELSE LET x == CHOOSE y \in Present(d) : \A z \in Present(d) : y <= z
              IN  IF Deletable(d, dir[d][x])
                  THEN Delete(<<p, 2>>, x) /\ UNCHANGED call
                  ELSE UNCHANGED vars /\ Answer(p, FALSE)

(* The end of every call: the BTCBs are closed, the last first.             *)
Leave(p) ==
  /\ AtEnd(p)
  /\ LET open == {i \in 1..3 : IsOpen(<<p, i>>)}
     IN  IF open = {} THEN UNCHANGED vars /\ call' = [call EXCEPT ![p] = Idle]
         ELSE /\ Close(<<p, CHOOSE i \in open : \A j \in open : j <= i>>)
              /\ UNCHANGED call
  /\ UNCHANGED <<left, walk>>

-----------------------------------------------------------------------------
(* btwalkx from the directory Shared of the root.  Each level of dodir has  *)
(* its directory open; it reads the next name, and opens it by its whole    *)
(* path.  With no errf an error ends the walk; errf may say to go on.       *)
Read == 1 + (CHOOSE x \in Name : \A y \in Name : y <= x)     \* all names are read

Depth == Len(walk.path)
Level(k) == IF k = 0 THEN Root ELSE Handle(walk.by, k)
Walks(p) == call[p].op = "walk" /\ walk.end = "none" /\ UNCHANGED left

BeginWalk(p) ==
  /\ call[p] = Idle /\ left[p] > 0 /\ walk = NoWalk
  /\ left' = [left EXCEPT ![p] = @ - 1]
  /\ call' = [call EXCEPT ![p] = [Idle EXCEPT !.op = "walk"]]
  /\ \E go \in BOOLEAN : walk' = [NoWalk EXCEPT !.by = p, !.next = Shared, !.goon = go]
  /\ still' = {r \in Node \X Name : dir[r[1]][r[2]] # None}
  /\ UNCHANGED vars

\* Seeded fault: a directory is only told from the one its name is in.
OnlyItself(n) == n = Level(Depth)

\* A directory the walk is in the middle of: "." and "..".
OnTheWay(n) == \E k \in 0..Depth : n = Level(k)

\* The name could not be opened.  When the server refused it the error was
\* thrown, and ended the level above as well.
Refused(thrown) ==
  IF Depth = 0 \/ ~walk.goon THEN [walk EXCEPT !.next = 0, !.end = "failed"]
  ELSE [walk EXCEPT !.next = 0, !.erred = TRUE,
                    !.last[Depth] = IF thrown THEN Read ELSE @]

WalkOpen(p) ==
  /\ Walks(p) /\ walk.next # 0
  /\ LET n == LeadsTo(Root, Append(walk.path, walk.next))
     IN  IF n = None \/ ~Lockable(n, FALSE)
         THEN walk' = Refused(n # None) /\ UNCHANGED vars
         ELSE /\ Open(<<p, Depth + 1>>, n, FALSE)
              /\ walk' = [walk EXCEPT
                   !.path = Append(@, walk.next), !.next = 0,
                   !.last = Append(@, IF OnTheWay(n) \/ ~stat[n].isdir THEN Read ELSE 0),
                   !.seen = IF OnTheWay(n) THEN @ ELSE Append(@, <<Level(Depth), walk.next>>)]
  /\ UNCHANGED call

WalkRead(p) ==
  /\ Walks(p) /\ walk.next = 0 /\ Depth > 0
  /\ LET more == {x \in Present(Level(Depth)) : x > walk.last[Depth]}
         x == CHOOSE y \in more : \A z \in more : y <= z
     IN  IF more # {}
         THEN walk' = [walk EXCEPT !.next = x, !.last[Depth] = x] /\ UNCHANGED vars
         ELSE /\ Close(<<p, Depth>>)
              /\ walk' = [walk EXCEPT !.path = Front(@), !.last = Front(@),
                                      !.end = IF Depth = 1 THEN "walked" ELSE "none"]
  /\ UNCHANGED call

\* What a failed walk has open it closes on its way out.
EndWalk(p) ==
  /\ call[p].op = "walk" /\ walk.end # "none"
  /\ IF Depth > 0
     THEN Close(<<p, Depth>>) /\ walk' = [walk EXCEPT !.path = Front(@)] /\ UNCHANGED call
     ELSE walk' = NoWalk /\ call' = [call EXCEPT ![p] = Idle] /\ UNCHANGED vars
  /\ UNCHANGED left

-----------------------------------------------------------------------------
\* The filesystem is empty, or has the directory with a file in it.
Made ==
  LET d == Min(File)
      f == Min(File \ {d})
      x == CHOOSE y \in UNION Range(Own) : TRUE
      at(isdir, links) == [links |-> links, opens |-> 0, atime |-> 1, isdir |-> isdir]
  IN  /\ stat = [n \in Node |-> CASE n = d -> at(TRUE, 2) [] n = f -> at(FALSE, 1)
                              [] n = Root -> at(TRUE, 2) [] n = Sub -> at(TRUE, 1)
                              [] OTHER -> Free]
      /\ dir = [n \in Node |->
                  IF n = d THEN Dot :> d @@ DotDot :> Root @@ x :> f @@ [y \in Name |-> None]
                  ELSE [y \in Name |-> IF n = Root /\ y = Shared THEN d ELSE None]]
      /\ handle = [c \in Client |-> Closed] /\ joined = Closed
      /\ mcnt = [m \in Mid |-> 1 - m] /\ mtime = [m \in Mid |-> 1] /\ now = 1

LibraryInit ==
  /\ Init \/ Made
  /\ call = [p \in Proc |-> Idle]
  /\ left = Calls
  /\ walk = NoWalk
  /\ still = {}

LibraryNext ==
  \E p \in Proc :
    \/ BeginWalk(p)
    \/ /\ \/ BeginCall(p)
          \/ OpenDirectory(p) \/ OpenSource(p) \/ Enter(p)
          \/ CreateFile(p) \/ MakeLink(p) \/ DeleteName(p) \/ CloseOne(p)
          \/ CheckLinks(p) \/ RemoveLink(p)
          \/ Leave(p)
          \/ WalkOpen(p) \/ WalkRead(p) \/ EndWalk(p)
       /\ still' = IF walk' = NoWalk THEN {}
                   ELSE {r \in still : dir'[r[1]][r[2]] = dir[r[1]][r[2]]}

LibrarySpec == LibraryInit /\ [][LibraryNext]_allvars

-----------------------------------------------------------------------------
\* What the root directory leads to, by the records in R.
Below(R, start) ==
  {n \in Node : \A S \in SUBSET Node :
     start \in S /\ (\A r \in R : r[1] \in S => dir[r[1]][r[2]] \in S) => n \in S}

(* No call loses a file, whatever comes in between its requests and         *)
(* wherever it stops: everything that is allocated has a path.  btrename is *)
(* two requests, and btrmdir takes a directory apart before it is sure that *)
(* it can be deleted.                                                       *)
NothingLost ==
  \A f \in File : Allocated(f) =>
    f \in Below({r \in Node \X Name : dir[r[1]][r[2]] # None}, Root)

(* A walk that ends without an error has been to every name that was there  *)
(* all the time, although files come and go around it; to no name twice,    *)
(* and to no directory by the names it has in itself and below itself.      *)
Kept == {r \in still : r[2] \notin {Dot, DotDot}}
WalkedOnce ==
  /\ IsInjective(walk.seen)
  /\ \A r \in ToSet(walk.seen) : r[2] \notin {Dot, DotDot}
  /\ walk.end = "walked" /\ ~walk.erred /\ <<Root, Shared>> \in still =>
       \A r \in Kept : r[1] \in Below(Kept, dir[Root][Shared])
                         => r \in ToSet(walk.seen)
=============================================================================
