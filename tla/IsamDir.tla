------------------------------ MODULE IsamDir ------------------------------
(***************************************************************************)
(* The BTAS files of C-ISAM files: isbuildx, isopenx, iserase, isrename    *)
(* and iscleanup of the C-ISAM library on one directory.  A C-ISAM file is *)
(* a control file (.idx) that lists the names of a master file and of key  *)
(* files, or a master file alone.  A call is a sequence of BTAS requests,  *)
(* and those of other clients come in between.  The records are in Isam.   *)
(*                                                                         *)
(* A name is <<base, extension>>; no base begins with another, so that a   *)
(* rename does not read the records it has renamed as ones to rename.      *)
(***************************************************************************)
EXTENDS Integers, Sequences, FiniteSets, SequencesExt, FiniteSetsExt

CONSTANTS
  Client,
  Starts,       \* the directory at the start, and the calls each client may
                \* make: <<op, base, what>>
  MaxFile,      \* bound: BTAS files ever made
  MaxCalls      \* bound: calls of a client

VARIABLES
  dir,          \* the directory: the file (a number) of each name in it
  lists,        \* what a control file lists: names, and which is the master
  opens,        \* of each file, the opens, -1 for an exclusive one
  script,       \* the calls each client may make
  call,         \* the call each client is in
  held,         \* the C-ISAM file each client has open, None without
  erasing,      \* of each client, the names whose erase is put off
  parted        \* history: the control files that a call has left apart
                \* from their files

dirVars == <<dir, lists, opens, script, call, held, erasing, parted>>

None == [files |-> <<>>, ctl |-> 0, read |-> {}]
Idx(base)  == <<base, ".idx">>
Num(base)  == <<base, ".num">>
Bare(base) == <<base, "">>
Exists(name) == name \in DOMAIN dir
Made == DOMAIN opens

Idle == [op |-> "idle", base |-> "", what |-> "", step |-> "", todo |-> <<>>, files |-> <<>>, ctl |-> 0,
         read |-> {}, n |-> 0]
At(c, op, step) == call[c].op = op /\ call[c].step = step
Go(c, step)     == call' = [call EXCEPT ![c].step = step]
Return(c)       == call' = [call EXCEPT ![c] = [Idle EXCEPT !.n = call[c].n]]

\* The records of a control file are in the order of the names.
Rank(ext) == CASE ext = "" -> 0 [] ext = ".key" -> 1 [] OTHER -> 2
Listed(f) == SetToSortSeq(lists[f], LAMBDA x, y : Rank(x[2]) < Rank(y[2]))

-----------------------------------------------------------------------------
(* BTAS requests.                                                           *)
CanOpen(f, excl) == IF excl THEN opens[f] = 0 ELSE opens[f] >= 0
Opened(f, excl)  == [opens EXCEPT ![f] = IF excl THEN -1 ELSE @ + 1]
Closed(fs)       == [f \in Made |-> IF opens[f] = -1 /\ f \in Range(fs) THEN 0
                                    ELSE opens[f] - Cardinality({i \in DOMAIN fs : fs[i] = f})]
Create(name) ==
  LET f == Cardinality(Made) + 1
  IN  /\ f <= MaxFile
      /\ dir' = (name :> f) @@ dir
      /\ lists' = (f :> {}) @@ lists
      /\ opens' = (f :> 0) @@ opens
Without(name) == [x \in DOMAIN dir \ {name} |-> dir[x]]
InUse(name)   == opens[dir[name]] # 0 /\ \A x \in DOMAIN dir : dir[x] = dir[name] => x = name

-----------------------------------------------------------------------------
(* A call begins.  A client makes none on a name whose erase it has put     *)
(* off, and has one file open at a time.                                    *)
Begin(c) ==
  /\ call[c].op = "idle" /\ call[c].n < MaxCalls
  /\ \E k \in script[c] :
       /\ k[2] \in Range(erasing[c]) => k[1] = "cleanup"
       /\ k[1] = "cleanup" => k[2] \in Range(erasing[c])
       /\ k[1] \in {"build", "open", "rename"} => held[c] = None
       /\ k[1] = "close" => held[c] # None
       /\ call' = [call EXCEPT ![c] = [Idle EXCEPT !.op = k[1], !.base = k[2], !.what = k[3], !.n = @ + 1,
                                         !.step = IF k = <<"build", k[2], "bare">> THEN "master" ELSE "idx"]]
       /\ erasing' = [erasing EXCEPT ![c] = IF k[1] = "cleanup" THEN Remove(@, k[2]) ELSE @]
  /\ UNCHANGED <<dir, lists, opens, script, held, parted>>

(* isbuildx: the control file first, empty, then, with it open, its         *)
(* records, then the files; what is made remains when a later one cannot be.*)
BuildIdx(c) ==
  /\ At(c, "build", "idx")
  /\ IF Exists(Idx(call[c].base))
     THEN Return(c) /\ UNCHANGED <<dir, lists, opens>>
     ELSE Create(Idx(call[c].base)) /\ Go(c, "ctl")
  /\ UNCHANGED <<script, held, erasing, parted>>
BuildCtl(c) ==
  /\ At(c, "build", "ctl")
  /\ LET name == Idx(call[c].base)
     IN  IF Exists(name) /\ CanOpen(dir[name], FALSE)
         THEN /\ opens' = Opened(dir[name], FALSE)
              /\ call' = [call EXCEPT ![c] = [@ EXCEPT !.step = "list", !.ctl = dir[name]]]
         ELSE Return(c) /\ UNCHANGED opens
  /\ UNCHANGED <<dir, lists, script, held, erasing, parted>>

BuildList(c) ==
  /\ call[c].op = "build" /\ call[c].step \in {"list", "listnum"}
  /\ LET base == call[c].base
         new  == IF call[c].step = "list" THEN Bare(base) ELSE Num(base)
     IN  /\ lists' = [lists EXCEPT ![call[c].ctl] = @ \cup {new}]
         /\ Go(c, IF call[c].step = "list" /\ call[c].what = "num" THEN "listnum" ELSE "shut")
  /\ UNCHANGED <<dir, opens, script, held, erasing, parted>>
BuildShut(c) ==
  /\ At(c, "build", "shut")
  /\ opens' = Closed(<<call[c].ctl>>)
  /\ Go(c, IF call[c].what = "num" THEN "num" ELSE "master")
  /\ UNCHANGED <<dir, lists, script, held, erasing, parted>>

BuildFile(c) ==
  /\ call[c].op = "build" /\ call[c].step \in {"num", "master"}
  /\ LET base == call[c].base
         name == IF call[c].step = "num" THEN Num(base) ELSE Bare(base)
     IN  IF Exists(name)
         THEN Return(c) /\ UNCHANGED <<dir, lists, opens>>
         ELSE /\ Create(name)
              /\ call' = [call EXCEPT ![c] = IF name = Num(base) THEN [@ EXCEPT !.step = "master"]
                                             ELSE [@ EXCEPT !.op = "open", !.step = "idx", !.what = "shared",
                                                            !.ctl = 0]]
  /\ UNCHANGED <<script, held, erasing, parted>>

-----------------------------------------------------------------------------
(* isopenx.  The control file stays open, which keeps it from being erased. *)
Excl(c) == call[c].what = "excl"
OpenFail(c) ==
  /\ opens' = Closed(call[c].files)
  /\ Return(c)
  /\ UNCHANGED <<dir, lists, held>>
OpenedOne(c, f, excl, rest) ==
  /\ opens' = Opened(f, excl)
  /\ IF rest = <<>> /\ call[c].step \in {"files", "bare"}
     THEN /\ Return(c)
          /\ held' = [held EXCEPT ![c] = [files |-> Append(call[c].files, f), ctl |-> call[c].ctl,
                                               read |-> call[c].read]]
     ELSE /\ call' = [call EXCEPT ![c] = [@ EXCEPT !.step = "files", !.todo = rest,
                                            !.files = Append(@, f), !.ctl = IF @ = 0 THEN f ELSE @]]
          /\ UNCHANGED held
  /\ UNCHANGED <<dir, lists>>

\* The control file; without one the name is that of a master file.
OpenIdx(c) ==
  /\ At(c, "open", "idx")
  /\ LET name == Idx(call[c].base)
     IN  IF ~Exists(name) THEN Go(c, "bare") /\ UNCHANGED <<dir, lists, opens, held>>
         ELSE IF ~CanOpen(dir[name], FALSE) THEN OpenFail(c)
         ELSE OpenedOne(c, dir[name], FALSE, <<"list">>)
  /\ UNCHANGED <<script, erasing, parted>>
\* Its records, the master first.  The key descriptions of one without
\* records are not set; the name opened is then none of the directory's.
OpenList(c) ==
  /\ At(c, "open", "files") /\ call[c].todo = <<"list">>
  /\ IF lists[call[c].ctl] = {} THEN OpenFail(c)
     ELSE /\ call' = [call EXCEPT ![c] = [@ EXCEPT !.todo = Listed(call[c].ctl), !.read = lists[call[c].ctl]]]
          /\ UNCHANGED <<dir, lists, opens, held>>
  /\ UNCHANGED <<script, erasing, parted>>
OpenBare(c) ==
  /\ At(c, "open", "bare")
  /\ LET name == Bare(call[c].base)
     IN  IF ~Exists(name) \/ (Exists(name) /\ ~CanOpen(dir[name], Excl(c))) THEN OpenFail(c)
         ELSE OpenedOne(c, dir[name], Excl(c), <<>>)
  /\ UNCHANGED <<script, erasing, parted>>
\* A key file that is missing is made, and opened then.
OpenFile(c) ==
  /\ At(c, "open", "files") /\ call[c].todo # <<"list">>
  /\ LET name == Head(call[c].todo)
     IN  IF Exists(name)
         THEN IF CanOpen(dir[name], Excl(c)) THEN OpenedOne(c, dir[name], Excl(c), Tail(call[c].todo))
              ELSE OpenFail(c)
         ELSE IF name[2] = "" THEN OpenFail(c)
         ELSE Create(name) /\ UNCHANGED <<call, held>>
  /\ UNCHANGED <<script, erasing, parted>>

Close(c) ==
  /\ At(c, "close", "idx")
  /\ opens' = Closed(held[c].files)
  /\ held' = [held EXCEPT ![c] = None]
  /\ Return(c)
  /\ UNCHANGED <<dir, lists, script, erasing, parted>>

-----------------------------------------------------------------------------
(* iserase, and iscleanup that calls it again: the files listed, with the   *)
(* control file open, and then that; or the master file without one.  When  *)
(* one is in use the erase is put off; one tried again that finds the       *)
(* control file open is not put off again, and what it left is parted.      *)
Erase(c) == call[c].op \in {"erase", "cleanup"}
PutOff(c) == erasing' = [erasing EXCEPT ![c] = <<call[c].base>> \o @]

EraseIdx(c) ==
  /\ Erase(c) /\ call[c].step = "idx"
  /\ LET name == Idx(call[c].base)
     IN  IF ~Exists(name) THEN Go(c, "last") /\ UNCHANGED <<opens, parted>>
         ELSE IF ~CanOpen(dir[name], TRUE)
         THEN /\ Return(c)
              /\ parted' = parted \cup {f \in {dir[name]} : call[c].op = "cleanup"}
              /\ UNCHANGED opens
         ELSE /\ opens' = Opened(dir[name], TRUE)
              /\ UNCHANGED parted
              /\ call' = [call EXCEPT ![c] = [@ EXCEPT !.step = "files", !.ctl = dir[name],
                                                !.todo = Listed(dir[name])]]
  /\ UNCHANGED <<dir, lists, script, held, erasing>>
EraseFile(c) ==
  /\ Erase(c) /\ call[c].step = "files" /\ call[c].todo # <<>>
  /\ LET name == Head(call[c].todo)
     IN  IF Exists(name) /\ InUse(name)
         THEN PutOff(c) /\ opens' = Closed(<<call[c].ctl>>) /\ Return(c) /\ UNCHANGED dir
         ELSE /\ dir' = Without(name)
              /\ call' = [call EXCEPT ![c].todo = Tail(@)]
              /\ UNCHANGED <<opens, erasing>>
  /\ UNCHANGED <<lists, script, held, parted>>
EraseClose(c) ==
  /\ Erase(c) /\ call[c].step = "files" /\ call[c].todo = <<>>
  /\ opens' = Closed(<<call[c].ctl>>)
  /\ Go(c, "last")
  /\ UNCHANGED <<dir, lists, script, held, erasing, parted>>
EraseLast(c) ==
  /\ Erase(c) /\ call[c].step = "last"
  /\ LET name == IF call[c].ctl = 0 THEN Bare(call[c].base) ELSE Idx(call[c].base)
     IN  IF Exists(name) /\ InUse(name) THEN PutOff(c) /\ UNCHANGED dir
         ELSE dir' = Without(name) /\ UNCHANGED erasing
  /\ Return(c)
  /\ UNCHANGED <<lists, opens, script, held, parted>>

-----------------------------------------------------------------------------
(* isrename; base is renamed to what.  A rename links the new name, then    *)
(* removes the old one.  The control file is renamed first; where that      *)
(* fails, for whatever reason, the master file is, alone.  One that cannot  *)
(* open the renamed control file stops there, and a file listed that is not *)
(* there, or whose new name is, keeps its record.                           *)
To(c, name) == IF name[1] = call[c].base THEN <<call[c].what, name[2]>> ELSE name
Linked(old, new) == (new :> dir[old]) @@ dir
RenameLink(c, old, failed, then) ==
  LET new == To(c, old)
  IN  IF ~Exists(old) \/ Exists(new) THEN failed /\ UNCHANGED dir
      ELSE dir' = Linked(old, new) /\ Go(c, then)
RenameIdx(c) ==
  /\ At(c, "rename", "idx")
  /\ RenameLink(c, Idx(call[c].base), Go(c, "bare"), "killidx")
  /\ UNCHANGED <<lists, opens, script, held, erasing, parted>>
RenameBare(c) ==
  /\ At(c, "rename", "bare")
  /\ RenameLink(c, Bare(call[c].base), Return(c), "killbare")
  /\ UNCHANGED <<lists, opens, script, held, erasing, parted>>
\* The old name stays when it has become the only one of a file in use.
RenameKill(c) ==
  /\ call[c].op = "rename" /\ call[c].step \in {"killidx", "killbare", "kill"}
  /\ LET old  == CASE call[c].step = "killidx" -> Idx(call[c].base)
                   [] call[c].step = "killbare" -> Bare(call[c].base)
                   [] OTHER -> Head(call[c].todo)
         kept == Exists(old) /\ InUse(old)
     IN  /\ dir' = IF kept THEN dir ELSE Without(old)
         /\ CASE call[c].step = "killidx" -> Go(c, IF kept THEN "bare" ELSE "open")
              [] call[c].step = "killbare" -> Return(c)
              [] OTHER -> IF kept THEN call' = [call EXCEPT ![c] = [@ EXCEPT !.step = "link", !.todo = Tail(@)]]
                          ELSE Go(c, "record")
  /\ UNCHANGED <<lists, opens, script, held, erasing, parted>>
RenameOpen(c) ==
  /\ At(c, "rename", "open")
  /\ LET name == Idx(call[c].what)
         f    == dir[name]
     IN  IF ~Exists(name) THEN Return(c) /\ UNCHANGED <<opens, parted>>
         ELSE IF ~CanOpen(f, TRUE) THEN Return(c) /\ parted' = parted \cup {f} /\ UNCHANGED opens
         ELSE /\ opens' = Opened(f, TRUE)
              /\ UNCHANGED parted
              /\ call' = [call EXCEPT ![c] = [@ EXCEPT !.step = "link", !.ctl = f, !.todo = Listed(f)]]
  /\ UNCHANGED <<dir, lists, script, held, erasing>>
RenameFile(c) ==
  /\ At(c, "rename", "link") /\ call[c].todo # <<>>
  /\ RenameLink(c, Head(call[c].todo), call' = [call EXCEPT ![c].todo = Tail(@)], "kill")
  /\ parted' = IF dir' = dir THEN parted \cup {call[c].ctl} ELSE parted
  /\ UNCHANGED <<lists, opens, script, held, erasing>>
\* Seeded fault: the record with the old name is not deleted.
RenameRecordAdds(c) ==
  /\ At(c, "rename", "record")
  /\ lists' = [lists EXCEPT ![call[c].ctl] = @ \cup {To(c, Head(call[c].todo))}]
  /\ call' = [call EXCEPT ![c] = [@ EXCEPT !.step = "link", !.todo = Tail(@)]]
  /\ UNCHANGED <<dir, opens, script, held, erasing, parted>>
RenameRecord(c) ==
  /\ At(c, "rename", "record")
  /\ LET old == Head(call[c].todo)
     IN  lists' = [lists EXCEPT ![call[c].ctl] = (@ \ {old}) \cup {To(c, old)}]
  /\ call' = [call EXCEPT ![c] = [@ EXCEPT !.step = "link", !.todo = Tail(@)]]
  /\ UNCHANGED <<dir, opens, script, held, erasing, parted>>
RenameEnd(c) ==
  /\ At(c, "rename", "link") /\ call[c].todo = <<>>
  /\ opens' = Closed(<<call[c].ctl>>)
  /\ Return(c)
  /\ UNCHANGED <<dir, lists, script, held, erasing, parted>>

-----------------------------------------------------------------------------
DirInit ==
  /\ \E s \in Starts :
       /\ dir = s.dir /\ lists = s.lists /\ script = s.script
       /\ opens = [f \in DOMAIN s.lists |-> 0]
  /\ call = [c \in Client |-> Idle]
  /\ held = [c \in Client |-> None]
  /\ erasing = [c \in Client |-> <<>>]
  /\ parted = {}

DirNext ==
  \E c \in Client :
    \/ Begin(c)
    \/ BuildIdx(c) \/ BuildCtl(c) \/ BuildList(c) \/ BuildShut(c) \/ BuildFile(c)
    \/ OpenIdx(c) \/ OpenList(c) \/ OpenBare(c) \/ OpenFile(c) \/ Close(c)
    \/ EraseIdx(c) \/ EraseFile(c) \/ EraseClose(c) \/ EraseLast(c)
    \/ RenameIdx(c) \/ RenameBare(c) \/ RenameKill(c) \/ RenameOpen(c)
    \/ RenameFile(c) \/ RenameRecord(c) \/ RenameEnd(c)

-----------------------------------------------------------------------------
(* FilesTogether: no file of an open C-ISAM file is erased, and it has the  *)
(* files its control file lists, all but one of record numbers where it was *)
(* opened between the two records of the build.  Whenever no call is in     *)
(* progress and no erase put off, every master listed is there, every other *)
(* file is listed by just the control file of its own name; but not for the *)
(* control files that were parted from their files: by a rename that could  *)
(* not open the one it had renamed or did not find a file listed, and by an *)
(* erase tried again that could not open it.  Even then every key file is   *)
(* listed by one, so that an erase finds it.  It is for clients that do not *)
(* erase what another builds or renames: an erase in between takes whatever *)
(* the name stands for then.                                                *)
Open(c, x) == dir[x] \in Range(held[c].files)
FilesTogether ==
  /\ \A c \in Client : held[c] # None =>
       /\ Range(held[c].files) \subseteq Range(dir)
       /\ held[c].ctl \notin parted \cup {0} =>
            \A x \in lists[held[c].ctl] :
              (x[2] = ".num" => x \in held[c].read) => Exists(x) /\ Open(c, x)
  /\ (\A c \in Client : call[c].op = "idle" /\ erasing[c] = <<>>) =>
       \A x \in DOMAIN dir :
         /\ x[2] = ".idx" /\ dir[x] \notin parted =>
              /\ Bare(x[1]) \in lists[dir[x]]
              /\ \A y \in lists[dir[x]] : y[1] = x[1] /\ (y[2] # ".key" => Exists(y))
         /\ x[2] \notin {".idx", ""} =>
              \E i \in DOMAIN dir :
                /\ i[2] = ".idx" /\ x \in lists[dir[i]]
                /\ dir[i] \notin parted => i = Idx(x[1])
         /\ \A y \in DOMAIN dir : dir[x] = dir[y] => x = y
=============================================================================
